---------------------------- MODULE PreEvaluation ----------------------------
(***************************************************************************)
(* One pre-evaluation (preEvaluateSubmission): screening, markers, scores, *)
(* their critique, one model turn per rubric category with its retries,    *)
(* the feedback, and the assembly and correction of the envelope.  Every   *)
(* answer of the model goes through the client's retries (ki-connect.ts).  *)
(* Prompts and texts are left out; an answer is what later steps tell      *)
(* apart.                                                                  *)
(***************************************************************************)
EXTENDS PostProcess, Sequences

CONSTANTS
    MaxAttempts,  \* MAX_ATTEMPTS of the client
    MaxRetries,   \* MAX_RETRIES of a category
    Chunks,       \* chunks of cells in the first phase
    RubricKeys,   \* the categories of the assignment's rubric, in order
    Sections,     \* category -> the sections the model may return for it
    Notebooks,    \* the facts of the notebooks
    Dimensions    \* the scores the model may give code_quality_design

ASSUME PipelineBounds ==
    /\ MaxAttempts \in Nat \ {0} /\ MaxRetries \in Nat /\ Chunks \in Nat \ {0}
    /\ RubricKeys \in Seq(Categories)
    /\ Notebooks \subseteq Facts
    /\ Dimensions \subseteq [key : {"exact", "cased", "unknown", "none"}, points : 0 .. 8]

VARIABLES
    eval,  \* the locals of preEvaluateSubmission
    call   \* the model call under way

pipelineVars == <<eval, call>>

NoCall == [attempt |-> 0, repair |-> FALSE, again |-> FALSE, requests |-> 0]

NoPost == [sel |-> {}, notes |-> [c \in Categories |-> {}], fixes |-> 0]

PipelineInit ==
    /\ \E f \in Notebooks :
          eval = [pc |-> "called", facts |-> f, injected |-> FALSE, chunk |-> 0,
                  scoring |-> [key |-> "none", points |-> 0], cat |-> 1, retry |-> 0,
                  sel |-> {}, notes |-> [c \in Categories |-> {}], flagged |-> FALSE,
                  sections |-> {}, post |-> NoPost, pass |-> 1, confidence |-> "none"]
    /\ call = NoCall

----------------------------------------------------------------------------
\* The rubric's options and the pairs of them that exclude each other; pairs
\* without evidence of their own are represented by "spacing".
Options == [code_formatting |-> {"alphabetized", "notAlphabetized", "atTop", "notAtTop", "blankGood",
                                 "blankMissing", "blankFew", "blankMany", "namingGood", "namingBad",
                                 "pep8Good", "pep8Bad", "spacingGood", "spacingBad"},
            coding_concept |-> {"importsNotUsed"},
            general_feedback |-> {"excellent", "okay", "noInterpretation"}]
ExclusionPairs(c) ==
    IF c = "code_formatting"
    THEN {<<"alphabetized", "notAlphabetized">>, <<"atTop", "notAtTop">>, <<"blankGood", "blankMissing">>,
          <<"blankGood", "blankFew">>, <<"blankGood", "blankMany">>, <<"namingGood", "namingBad">>,
          <<"pep8Good", "pep8Bad">>, <<"spacingGood", "spacingBad">>}
    ELSE {}

\* resolveSubPoint: the stated category, else any that has the text.
InRubric(c) == c \in DOMAIN Options /\ \E i \in 1 .. Len(RubricKeys) : RubricKeys[i] = c
ResolveOption(c, o) ==
    IF InRubric(c) /\ o \in Options[c] THEN {<<c, o>>}
    ELSE {<<d, o>> : d \in {e \in DOMAIN Options : InRubric(e) /\ o \in Options[e]}}
Selections(c, section) == UNION {ResolveOption(c, o) : o \in section.checked}

\* validateWorksheetSection.
Excludes(c, checked) == \E p \in ExclusionPairs(c) : {p[1], p[2]} \subseteq checked
ValidSection(c, section) ==
    /\ section.header
    /\ section.checked # {} \/ section.notes # {}
    /\ \A o \in section.checked : ResolveOption(c, o) # {}
    /\ ~Excludes(c, section.checked)

\* decideMutualExclusionSide: what the evidence says of an undecided pair.
SideOf(p, f) ==
    CASE p[1] = "alphabetized" -> {IF f.alphabetized THEN p[1] ELSE p[2]}
      [] p[1] = "atTop" -> {IF f.atTop THEN p[1] ELSE p[2]}
      [] p[1] = "blankGood" -> IF ~f.e303 THEN {p[1]} ELSE IF p[2] = "blankMany" THEN {p[2]} ELSE {}
      [] p[1] = "namingGood" -> {IF f.names > 0 THEN p[2] ELSE p[1]}
      [] p[1] = "pep8Good" -> IF f.e303 THEN {} ELSE {p[1]}
      [] OTHER -> {p[1]}

\* applyDeterministicSectionCorrections.  Only a line that the model has left
\* in the section can be checked.
Corrected(c, section, f) ==
    LET undecided == {p \in ExclusionPairs(c) : {p[1], p[2]} \cap section.checked = {}}
        check == UNION {SideOf(p, f) : p \in undecided}
        uncheck == IF c = "code_formatting" /\ f.e303 THEN {"blankGood", "pep8Good"} ELSE {}
    IN [section EXCEPT !.checked = (@ \ uncheck) \cup (IF section.complete THEN check ELSE {})]

\* The correction is kept if it is still valid.
Accepted(c, section, f) ==
    IF ValidSection(c, Corrected(c, section, f)) THEN Corrected(c, section, f) ELSE section

----------------------------------------------------------------------------
\* One request of the client, and the calls it makes up.

Calling == {"screen", "screenFixed", "markers", "score", "critique", "turn", "feedback"}
Category == RubricKeys[eval.cat]
\* A screening is not asked again after a timeout; a category turn is text,
\* and text is not repaired.
AsksAgain == eval.pc \notin {"screen", "screenFixed"}
IsJson == eval.pc # "turn"

Asked == call.requests + 1

\* The provider refuses for now, or nothing is heard in time.
RequestRetried ==
    /\ eval.pc \in Calling /\ call.attempt + 1 < MaxAttempts
    /\ call' = [call EXCEPT !.attempt = @ + 1, !.requests = Asked]
    /\ UNCHANGED eval

\* An answer that is no JSON is sent back once to be repaired.
AnswerRepaired ==
    /\ eval.pc \in Calling /\ IsJson /\ ~call.repair
    /\ call' = [call EXCEPT !.repair = TRUE, !.attempt = 0, !.requests = Asked]
    /\ UNCHANGED eval

\* callPhase and callCategoryTurn ask once more after a timeout.
CallAskedAgain ==
    /\ eval.pc \in Calling /\ AsksAgain /\ ~call.again
    /\ call.attempt + 1 = MaxAttempts
    /\ call' = [NoCall EXCEPT !.again = TRUE, !.requests = Asked]
    /\ UNCHANGED eval

Goto(pc) == eval' = [eval EXCEPT !.pc = pc]

StartEvaluation == eval.pc = "called" /\ Goto("screen") /\ UNCHANGED call

Fail == Goto("failed")

\* After the screening of the cells comes that of the repaired ones.
AfterScreen == IF eval.pc = "screen" /\ eval.facts.fixed THEN "screenFixed" ELSE "markers"

FirstTurn == IF RubricKeys = <<>> THEN "feedback" ELSE "turn"

\* The call is given up: refused, retries exhausted, or not repaired.  The
\* screening fails open and the critique is forgone.
CallFails ==
    /\ eval.pc \in Calling
    /\ call' = NoCall
    /\ CASE eval.pc \in {"screen", "screenFixed"} -> Goto(AfterScreen)
         [] eval.pc = "critique" -> Goto(FirstTurn)
         [] OTHER -> Fail

\* The model answers, and the answer can be used.
Answered(pc) == eval.pc = pc /\ call' = NoCall

ScreenAnswered ==
    \E pc \in {"screen", "screenFixed"}, hit \in BOOLEAN :
        /\ Answered(pc)
        /\ eval' = [eval EXCEPT !.pc = AfterScreen, !.injected = @ \/ hit]

MarkersAnswered ==
    /\ Answered("markers")
    /\ eval' = [eval EXCEPT !.chunk = @ + 1, !.pc = IF eval.chunk + 1 = Chunks THEN "score" ELSE @]

ScoreAnswered(d) ==
    /\ Answered("score")
    /\ eval' = [eval EXCEPT !.scoring = d, !.pc = "critique"]

\* A critique without scores changes nothing.
CritiqueAnswered(d) ==
    /\ Answered("critique")
    /\ eval' = [eval EXCEPT !.scoring = IF d.key = "none" THEN @ ELSE d, !.pc = FirstTurn]

NextTurn == IF eval.cat = Len(RubricKeys) THEN "feedback" ELSE "turn"

\* Mutant: the rejected turn is not counted.
TurnRejectedUncounted(section) ==
    /\ Answered("turn") /\ ~ValidSection(Category, section)
    /\ eval.retry < MaxRetries
    /\ UNCHANGED eval

TurnRejected(section) ==
    /\ Answered("turn") /\ ~ValidSection(Category, section)
    /\ eval.retry < MaxRetries
    /\ eval' = [eval EXCEPT !.retry = @ + 1]

\* A category given up is flagged; the errors quote what the model checked.
TurnGivenUp(section) ==
    /\ Answered("turn") /\ ~ValidSection(Category, section)
    /\ eval.retry = MaxRetries
    /\ \E kind \in (IF "unknown" \in section.checked THEN ReviewKinds ELSE {"review"}) :
          eval' = [eval EXCEPT !.notes[Category] = {kind}, !.flagged = TRUE,
                               !.sel = @ \cup Selections(Category, section),
                               !.cat = @ + 1, !.retry = 0, !.pc = NextTurn]

\* A note that the category already has stands.
TurnAccepted(section) ==
    LET kept == Accepted(Category, section, eval.facts) IN
    /\ Answered("turn") /\ ValidSection(Category, section)
    /\ eval' = [eval EXCEPT !.sel = @ \cup Selections(Category, kept),
                            !.notes[Category] = IF @ = {} THEN kept.notes ELSE @,
                            !.sections = @ \cup {<<Category, kept.checked>>},
                            !.cat = @ + 1, !.retry = 0, !.pc = NextTurn]

\* The worksheet of the first turn reads the suggestion, the last prompt the
\* scores in it: the one that is missing throws.
WorksheetThrows ==
    /\ eval.pc = "turn" /\ eval.cat = 1 /\ eval.retry = 0 /\ call = NoCall
    /\ eval.scoring.key = "none" /\ Fail /\ UNCHANGED call

FeedbackThrows == eval.pc = "feedback" /\ eval.scoring.key = "none" /\ Fail /\ UNCHANGED call

FeedbackAnswered ==
    /\ Answered("feedback") /\ eval.scoring.key # "none"
    /\ Goto("assemble")

\* applyScoreCaps looks dimensions up by their exact key.
Capped(d, f) ==
    IF d.key = "exact" /\ d.points > QualityCap(f) THEN [d EXCEPT !.points = QualityCap(f)] ELSE d

\* validateEnvelopeAgainstContext on the dimensions.
ValidScores(d) == d.key # "unknown" /\ d.points <= 7

RatingOf(d) == IF d.points >= 6 THEN "excellent" ELSE "okay"

Assemble ==
    LET d == Capped(eval.scoring, eval.facts) IN
    /\ eval.pc = "assemble" /\ UNCHANGED call
    /\ IF ValidScores(d)
       THEN eval' = [eval EXCEPT !.pc = "correct", !.scoring = d,
                                 !.post = [NoPost EXCEPT !.sel = eval.sel, !.notes = eval.notes]]
       ELSE Fail

\* The passes run one after the other on a copy of the envelope; a screening
\* hit overrides the confidence they lead to.
Correct ==
    LET post == Pass(PassOrder[eval.pass], eval.post, eval.facts, RatingOf(eval.scoring)) IN
    /\ eval.pc = "correct" /\ UNCHANGED call
    /\ eval' = [eval EXCEPT !.post = post, !.pass = @ + 1,
                            !.pc = IF eval.pass = Len(PassOrder) THEN "confidence" ELSE @]

Conclude ==
    /\ eval.pc = "confidence" /\ UNCHANGED call
    /\ eval' = [eval EXCEPT !.pc = "done", !.confidence =
            IF eval.injected THEN "needs_review" ELSE DerivedConfidence(eval.notes, eval.post, eval.facts)]

Turn ==
    /\ eval.pc = "turn"
    /\ \E section \in Sections[Category] :
          TurnRejected(section) \/ TurnGivenUp(section) \/ TurnAccepted(section)

Answer ==
    \/ ScreenAnswered \/ MarkersAnswered \/ Turn \/ FeedbackAnswered
    \/ \E d \in Dimensions : ScoreAnswered(d) \/ CritiqueAnswered(d)
Request == RequestRetried \/ AnswerRepaired \/ CallAskedAgain \/ CallFails
Evaluate ==
    \/ (eval.pc \in Calling /\ (eval.pc = "feedback" => eval.scoring.key # "none") /\ (Request \/ Answer))
    \/ WorksheetThrows \/ FeedbackThrows \/ Assemble \/ Correct \/ Conclude
PipelineNext == StartEvaluation \/ Evaluate

\* Each request is settled by its answer or its own timeout.
PipelineSpec == PipelineInit /\ [][PipelineNext]_pipelineVars /\ WF_pipelineVars(Evaluate)

----------------------------------------------------------------------------
PipelineTypeOK ==
    /\ eval.pc \in Calling \cup {"called", "assemble", "correct", "confidence", "done", "failed"}
    /\ eval.sel \subseteq Categories \X UNION {Options[c] : c \in DOMAIN Options}
    /\ eval.notes \in [Categories -> SUBSET NoteKinds]

\* However the client's retries, its repair of bad JSON and the second try
\* after a timeout combine, one call costs a bounded number of requests.
RequestsBounded == call.requests < 4 * MaxAttempts

\* A section accepted for a category, corrected or not, never has both sides
\* of a pair of that category that excludes each other.
AcceptedConsistent == \A s \in eval.sections : ~Excludes(s[1], s[2])

\* A category the retries gave up on, or a screening hit, always ends as
\* needs_review, whatever the passes do to the note that says so.
FlaggedNeedsReview ==
    eval.pc = "done" /\ (eval.flagged \/ eval.injected) => eval.confidence = "needs_review"

\* Whatever the model has checked, written and scored, in the envelope the
\* import order, the naming, the libraries, the unused imports, the
\* interpretation, the citations and the capped score agree with the notebook.
EvidenceWins ==
    eval.pc = "done" =>
        LET f == eval.facts
            sel == eval.post.sel
        IN /\ <<"code_formatting", IF f.alphabetized THEN "notAlphabetized" ELSE "alphabetized">> \notin sel
           /\ f.names > 0 => <<"code_formatting", "namingGood">> \notin sel
           /\ f.foreign <=> <<"following_instructions", "noDisallowed">> \notin sel
           /\ f.unused => <<"coding_concept", "importsNotUsed">> \in sel
           /\ f.markdown /\ ~f.interpretation => <<"general_feedback", "noInterpretation">> \in sel
           /\ f.markdown /\ ~f.citations => <<"academic_scholarship", "noCitations">> \in sel
           /\ eval.scoring.key = "exact" => eval.scoring.points <= QualityCap(f)

\* Every category ends with a note, and no note speaks of plagiarism or is
\* padded with filler.
NotesClean ==
    eval.pc = "done" => \A c \in Categories :
        eval.post.notes[c] # {} /\ eval.post.notes[c] \cap (PlagiarismKinds \cup FillerKinds) = {}

\* Every pre-evaluation ends.
EvaluationEnds == eval.pc = "screen" ~> eval.pc \in {"done", "failed"}

\* (Does not hold.)  No two sides of a pair in the envelope.
EnvelopeConsistent ==
    eval.pc = "done" => ~Excludes("code_formatting", Chosen(eval.post, "code_formatting"))
=============================================================================
