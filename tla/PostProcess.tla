----------------------------- MODULE PostProcess -----------------------------
(***************************************************************************)
(* The correction passes over a pre-evaluation (copilot/post-process.ts)   *)
(* and the confidence derived from them.  A rubric selection is a pair of  *)
(* a category and an option; a note is the set of the kinds of sentences   *)
(* it is made of.  Fixes are counted, not described.                       *)
(***************************************************************************)
EXTENDS Naturals, FiniteSets

Categories == {"pandas", "numpy", "scipy", "sklearn", "plotting_visualization", "code_formatting",
               "academic_scholarship", "jupyter_notebooks", "coding_concept", "user_defined_functions",
               "following_instructions", "genai", "function_calling", "general_feedback"}

\* What the pre-analysis and the execution record say of a notebook.
\* names: how many non-descriptive ones; disallowed: imports on the assignment's
\* list; foreign: imports off the allowed list; e303: a double blank line;
\* fixed: the executor has repaired cells.
Facts == [alphabetized : BOOLEAN, atTop : BOOLEAN, names : 0 .. 3, unused : BOOLEAN,
          interpretation : BOOLEAN, citations : BOOLEAN, markdown : BOOLEAN, errors : BOOLEAN,
          disallowed : BOOLEAN, foreign : BOOLEAN, e303 : BOOLEAN, fixed : BOOLEAN]

\* Kinds of sentences.  "ambiguous" is one like "not descriptive variable
\* names", which the positive rule and the negative rule both match; a
\* "review" sentence that quotes the model may hold a word of plagiarism.
Claims == [notAlphabetized |-> {"notAlphabetized"}, descriptive |-> {"namingGood"},
           nonDescriptive |-> {"namingBad"}, ambiguous |-> {"namingGood", "namingBad"},
           doubleBlank |-> {"blankMany"}, notAtTop |-> {"notAtTop"}]
PlagiarismKinds == {"plagiarism", "reviewTainted"}
FillerKinds == {"filler"}
ReviewKinds == {"review", "reviewTainted"}
NoteKinds == DOMAIN Claims \cup PlagiarismKinds \cup FillerKinds \cup ReviewKinds
             \cup {"prose", "short", "default", "generated"}

----------------------------------------------------------------------------
\* s is the working state: sel, notes and the count of fixes.

Chosen(s, c) == {o \in {p[2] : p \in s.sel} : <<c, o>> \in s.sel}

\* addCheckbox and withSelectionAdded, with the fix that records it.
Check(s, c, options) ==
    LET new == {<<c, o>> : o \in options} \ s.sel IN
    [s EXCEPT !.sel = @ \cup new, !.fixes = @ + Cardinality(new)]

Uncheck(s, c, o) ==
    IF <<c, o>> \in s.sel THEN [s EXCEPT !.sel = @ \ {<<c, o>>}, !.fixes = @ + 1] ELSE s

\* Notes of the categories cs are replaced, one fix each.
SetNotes(s, cs, note) ==
    [s EXCEPT !.notes = [c \in Categories |-> IF c \in cs THEN note[c] ELSE s.notes[c]],
              !.fixes = @ + Cardinality(cs)]

\* Pass 1.  rating is the overall option for the weighted percentage.
FillEmpty(s, rating) ==
    LET Empty(c) == Chosen(s, c) = {} /\ s.notes[c] = {}
        noted == SetNotes(s, {c \in {"genai", "function_calling"} : Empty(c)}, [c \in Categories |-> {"generated"}])
        called == IF Empty("function_calling")
                  THEN Check(noted, "function_calling", {"keywordArgs", "multiline"}) ELSE noted
        rated == IF Empty("general_feedback") THEN Check(called, "general_feedback", {rating}) ELSE called
    IN IF Empty("following_instructions")
       THEN Check(rated, "following_instructions", {"noDisallowed"}) ELSE rated

\* Pass 2.
SyncTextareas(s) ==
    Check(s, "code_formatting",
          UNION {Claims[k] : k \in s.notes["code_formatting"] \cap DOMAIN Claims})

\* Pass 3.
ScanLibraries(s, f) ==
    IF f.foreign THEN Uncheck(s, "following_instructions", "noDisallowed")
    ELSE Check(s, "following_instructions", {"noDisallowed"})

\* Passes 4 and 5: sentences go; a note of filler alone becomes the default.
StripPlagiarism(s) ==
    SetNotes(s, {c \in Categories : s.notes[c] \cap PlagiarismKinds # {}},
             [c \in Categories |-> s.notes[c] \ PlagiarismKinds])

StripFiller(s) ==
    SetNotes(s, {c \in Categories : s.notes[c] \cap FillerKinds # {}},
             [c \in Categories |->
                 IF s.notes[c] \subseteq FillerKinds THEN {"default"} ELSE s.notes[c] \ FillerKinds])

\* Pass 6: a note of fewer than TEXTAREA_MIN_CHARS characters is replaced.  The
\* note it generates may quote names of functions; that such a name is itself a
\* word of plagiarism is left out.
FillTextareas(s) ==
    SetNotes(s, {c \in Categories : s.notes[c] \subseteq {"short"}}, [c \in Categories |-> {"generated"}])

\* Pass 7: the pre-analysis has the last word.
Ground(s, f) ==
    LET cf == "code_formatting"
        Flip(from, to) == IF <<cf, from>> \in s.sel
                          THEN [s EXCEPT !.sel = (@ \ {<<cf, from>>}) \cup {<<cf, to>>}, !.fixes = @ + 2]
                          ELSE s
        ordered == IF f.alphabetized THEN Flip("notAlphabetized", "alphabetized")
                   ELSE Flip("alphabetized", "notAlphabetized")
        named == IF f.names > 0 THEN Uncheck(ordered, cf, "namingGood") ELSE ordered
        used == IF f.unused THEN Check(named, "coding_concept", {"importsNotUsed"}) ELSE named
        read == IF f.markdown /\ ~f.interpretation
                THEN Check(used, "general_feedback", {"noInterpretation"}) ELSE used
    IN IF f.markdown /\ ~f.citations THEN Check(read, "academic_scholarship", {"noCitations"}) ELSE read

\* Mutant: the evidence is consulted before the claims of the notes.
PassOrderGroundsFirst ==
    <<"ground", "fillEmpty", "sync", "libraries", "plagiarism", "filler", "textareas">>

\* Mutant: the short notes are filled before sentences are stripped.
PassOrderFillsFirst ==
    <<"fillEmpty", "sync", "libraries", "textareas", "plagiarism", "filler", "ground">>

\* postProcessSubmission.
PassOrder ==
    <<"fillEmpty", "sync", "libraries", "plagiarism", "filler", "textareas", "ground">>

Pass(pass, s, f, rating) ==
    CASE pass = "fillEmpty" -> FillEmpty(s, rating)
      [] pass = "sync" -> SyncTextareas(s)
      [] pass = "libraries" -> ScanLibraries(s, f)
      [] pass = "plagiarism" -> StripPlagiarism(s)
      [] pass = "filler" -> StripFiller(s)
      [] pass = "textareas" -> FillTextareas(s)
      [] pass = "ground" -> Ground(s, f)

----------------------------------------------------------------------------
Marked(notes) == \E c \in Categories : notes[c] \cap ReviewKinds # {}

\* Mutant: only the corrected notes are looked at.
DerivedConfidenceLate(notes, post, f) ==
    IF Marked(post.notes) \/ post.fixes >= 5 \/ f.errors \/ f.disallowed THEN "needs_review"
    ELSE IF post.fixes = 0 /\ f.names = 0 /\ f.alphabetized /\ ~f.unused THEN "high_confidence"
    ELSE "review_optional"

\* derivedGradingConfidence: the raw notes and the corrected ones.
DerivedConfidence(notes, post, f) ==
    IF Marked(notes) \/ Marked(post.notes) \/ post.fixes >= 5 \/ f.errors \/ f.disallowed THEN "needs_review"
    ELSE IF post.fixes = 0 /\ f.names = 0 /\ f.alphabetized /\ ~f.unused THEN "high_confidence"
    ELSE "review_optional"

\* The cap applyScoreCaps puts on code_quality_design, of at most 7 points.
QualityCap(f) ==
    IF f.names = 3 \/ f.unused THEN 4 ELSE IF f.names > 0 THEN 5 ELSE 7
=============================================================================
