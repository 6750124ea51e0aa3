----------------------------- MODULE GradingPage -----------------------------
(***************************************************************************)
(* The grading page of one submission (routes/submissions/[id]): its       *)
(* fields, the loads that restore them, and the calls that store them in   *)
(* the submission's grading.  Nobody else writes the grading, and a call   *)
(* stores in one step; what lies between the read and the write of a store *)
(* is in Stores.  Scores and notes are versions, 0 is none; of a category  *)
(* counts what is ticked.                                                  *)
(***************************************************************************)
EXTENDS Naturals

CONSTANTS
    StoredCategories,  \* categories a stored grading may have feedback on
    RubricCategories,  \* those of the rubric as it is now
    Ticks,             \* the options of a category
    FixedCells,        \* cells with a fix to decide about
    MaxEntries,        \* bound: entries of the teacher
    MaxLoads,          \* bound: loads of the page
    MaxPosts           \* bound: saves and imports

ASSUME GradingPageAssumption ==
    /\ RubricCategories \subseteq StoredCategories
    /\ MaxEntries \in Nat /\ MaxLoads \in Nat \ {0} /\ MaxPosts \in Nat

VARIABLES
    grading,   \* the grading in metadata.json
    opened,    \* the one found when the page was opened
    form,      \* the fields of the page
    display,   \* loading, error, submission and rubric there, assignment known
    loads,     \* loadData calls: where each is, and the grading it was answered
    posts,     \* calls that store something, with what they send
    entered    \* what the teacher has entered: how often, and where

gradingVars == <<grading, opened, form, display, loads, posts, entered>>

None == [x \in {} |-> {}]

\* { ...old, ...new }
Spread(old, new) ==
    [x \in DOMAIN old \cup DOMAIN new |-> IF x \in DOMAIN new THEN new[x] ELSE old[x]]

Empty == [dimensions |-> 0, feedback |-> None, notes |-> 0, dispositions |-> None]
Graded == [dimensions |-> 1, notes |-> 1, dispositions |-> [i \in FixedCells |-> "accepted"],
           feedback |-> [c \in StoredCategories |-> Ticks]]

NoLoad == [pc |-> "none", saved |-> Empty]
NoRequest == [pc |-> "none", kind |-> "save", content |-> Empty]

\* A submission that has been graded before; another one has nothing to lose.
GradingInit ==
    /\ grading = Graded /\ opened = grading
    /\ form = Empty
    /\ \E known \in BOOLEAN :
          display = [loading |-> TRUE, error |-> FALSE, submission |-> FALSE, rubric |-> FALSE, known |-> known]
    /\ loads = [l \in 1 .. MaxLoads |-> [NoLoad EXCEPT !.pc = IF l = 1 THEN "sent" ELSE "none"]]
    /\ posts = [p \in 1 .. MaxPosts |-> NoRequest]
    /\ entered = [times |-> 0, where |-> {}, added |-> {}]

----------------------------------------------------------------------------
\* Loading.

\* Every category of the rubric has selections; others are dropped.
feedbackToSelections(feedback) ==
    [c \in RubricCategories |-> IF c \in DOMAIN feedback THEN feedback[c] ELSE {}]

NextLoad(l) == loads[l].pc = "none" /\ \A k \in 1 .. l - 1 : loads[k].pc # "none"

LoadAnswered(l) ==
    /\ loads[l].pc = "sent"
    /\ loads' = [loads EXCEPT ![l] = [pc |-> "answered", saved |-> grading]]
    /\ UNCHANGED <<grading, opened, form, display, posts, entered>>

\* select has read the store's assignment inside the page's effect.  When it
\* then sets another one, the effect runs again, beside this load.
Selected(l) ==
    /\ loads[l].pc = "answered"
    /\ \/ /\ display.known
          /\ display' = [display EXCEPT !.submission = TRUE]
          /\ loads' = [loads EXCEPT ![l].pc = "config"]
       \/ /\ ~display.known
          /\ display' = [display EXCEPT !.submission = TRUE, !.known = TRUE, !.loading = TRUE, !.error = FALSE]
          /\ \E k \in 1 .. MaxLoads :
                NextLoad(k) /\ loads' = [loads EXCEPT ![l].pc = "config", ![k].pc = "sent"]
    /\ UNCHANGED <<grading, opened, form, posts, entered>>

SelectFails(l) ==
    /\ loads[l].pc = "sent"
    /\ loads' = [loads EXCEPT ![l].pc = "ended"]
    /\ display' = [display EXCEPT !.error = TRUE, !.loading = FALSE]
    /\ UNCHANGED <<grading, opened, form, posts, entered>>

\* The grading configuration is there, or is not: then there are no sliders and
\* no rubric to tick in, and the teacher has fewer entries to make.
Restored(l) ==
    /\ loads[l].pc = "config"
    /\ form' = [loads[l].saved EXCEPT !.feedback = form.feedback]
    /\ loads' = [loads EXCEPT ![l].pc = "criteria"]
    /\ UNCHANGED <<grading, opened, display, posts, entered>>

\* The rubric is there, or could not be loaded: then the selections stay.
RubricLoaded(l) ==
    /\ loads[l].pc = "criteria"
    /\ \E found \in BOOLEAN :
          /\ display' = [display EXCEPT !.rubric = found, !.loading = FALSE]
          /\ form' = IF found THEN [form EXCEPT !.feedback = feedbackToSelections(loads[l].saved.feedback)] ELSE form
    /\ loads' = [loads EXCEPT ![l] = [NoLoad EXCEPT !.pc = "ended"]]
    /\ UNCHANGED <<grading, opened, posts, entered>>

TryAgain ==
    /\ display.error /\ ~display.loading
    /\ display' = [display EXCEPT !.error = FALSE, !.loading = TRUE]
    /\ \E l \in 1 .. MaxLoads : NextLoad(l) /\ loads' = [loads EXCEPT ![l].pc = "sent"]
    /\ UNCHANGED <<grading, opened, form, posts, entered>>

----------------------------------------------------------------------------
\* Entries.  The content is shown while nothing loads and nothing has failed.

OnDisplay == display.submission /\ ~display.loading /\ ~display.error

Entered(where, added) ==
    /\ entered.times < MaxEntries
    /\ entered' = [times |-> entered.times + 1, where |-> entered.where \cup where, added |-> entered.added \cup added]

Enters(where, new) ==
    /\ OnDisplay /\ Entered(where, {})
    /\ form' = new
    /\ UNCHANGED <<grading, opened, display, loads, posts>>

Version == entered.times + 2

\* A slider; the notes, typed or generated; a decision about a fix.
handleUpdateDimension == Enters({"dimensions"}, [form EXCEPT !.dimensions = Version])
handleNotesInput == Enters({"notes"}, [form EXCEPT !.notes = Version])
handleDisposition(i, d) == Enters({i}, [form EXCEPT !.dispositions = Spread(@, [x \in {i} |-> d])])

\* A tick set or taken away in the rubric.
onSelectionsChange(c, ticks) ==
    /\ display.rubric /\ c \in DOMAIN form.feedback
    /\ Enters({c}, [form EXCEPT !.feedback[c] = ticks])

\* A suggestion fills in scores and an empty note, and ticks an option, of a
\* category with no selections too.
handleApplySuggestion(c, t) ==
    LET before == IF c \in DOMAIN form.feedback THEN form.feedback[c] ELSE {} IN
    /\ OnDisplay /\ Entered({"dimensions", "notes"}, {c})
    /\ form' = [form EXCEPT !.dimensions = Version, !.notes = IF @ = 0 THEN Version ELSE @,
                            !.feedback = Spread(@, [x \in {c} |-> before \cup {t}])]
    /\ UNCHANGED <<grading, opened, display, loads, posts>>

handleReset ==
    /\ display.rubric
    /\ Enters({"dimensions", "notes"} \cup RubricCategories \cup FixedCells,
              [Empty EXCEPT !.feedback = [c \in RubricCategories |-> {}]])

----------------------------------------------------------------------------
\* Storing.

PostGrading(p, kind, content) ==
    /\ posts[p].pc = "none" /\ \A q \in 1 .. p - 1 : posts[q].pc # "none"
    /\ posts' = [posts EXCEPT ![p] = [pc |-> "sent", kind |-> kind, content |-> content]]
    /\ UNCHANGED <<grading, opened, form, display, loads>>

\* The header's Save is there whenever a submission is, while it loads as well.
\* The question about unreviewed pairs comes before; then the form is read.
doSaveGrade(p) == display.submission /\ PostGrading(p, "save", form) /\ UNCHANGED entered

\* A note about a cell goes under the notes, and is stored with them.
saveNote(p) ==
    /\ OnDisplay /\ Entered({"notes"}, {})
    /\ PostGrading(p, "note", [form EXCEPT !.notes = Version])

\* A teacher's YAML, of some of the categories, with or without notes.
handleImportFile(p, categories, notes) ==
    /\ display.submission /\ Entered({"dimensions", "notes"} \cup categories, {})
    /\ PostGrading(p, "import", [Empty EXCEPT !.dimensions = Version, !.notes = IF notes THEN Version ELSE 0,
                                           !.feedback = [c \in categories |-> {}]])

\* Mutant: the feedback that is sent replaces the one that is stored.
SavedFeedbackReplaced(existing, kind, sent) ==
    IF kind = "note" THEN [existing EXCEPT !.notes = sent.notes]
    ELSE [sent EXCEPT !.dispositions = Spread(existing.dispositions, @)]

\* saveGrading, by the keys of what is sent.  An empty note is a note.
Saved(existing, kind, sent) ==
    IF kind = "note" THEN [existing EXCEPT !.notes = sent.notes]
    ELSE [sent EXCEPT !.feedback = Spread(existing.feedback, @),
                      !.dispositions = Spread(existing.dispositions, @),
                      !.notes = IF kind = "import" /\ @ = 0 THEN existing.notes ELSE @]

PostStored(p) ==
    /\ posts[p].pc = "sent"
    /\ LET new == Saved(grading, posts[p].kind, posts[p].content) IN
       /\ grading' = new
       /\ posts' = [posts EXCEPT ![p] = [@ EXCEPT !.pc = "stored", !.content = new]]
    /\ UNCHANGED <<opened, form, display, loads, entered>>

\* The answer: its notes, and of an import nothing else, come into the form.
Confirmed(p) ==
    /\ posts[p].pc = "stored"
    /\ \/ form' = [form EXCEPT !.notes = posts[p].content.notes]
       \/ posts[p].kind = "import" /\ posts[p].content.notes = 0 /\ form' = form
    /\ posts' = [posts EXCEPT ![p] = [NoRequest EXCEPT !.pc = "ended"]]
    /\ UNCHANGED <<grading, opened, display, loads, entered>>

\* A call fails, before or after the server has stored it.
PostFails(p) ==
    /\ posts[p].pc \in {"sent", "stored"}
    /\ posts' = [posts EXCEPT ![p] = [NoRequest EXCEPT !.pc = "ended"]]
    /\ UNCHANGED <<grading, opened, form, display, loads, entered>>

----------------------------------------------------------------------------
GradingNext ==
    \/ \E l \in 1 .. MaxLoads : LoadAnswered(l) \/ Selected(l) \/ SelectFails(l) \/ Restored(l) \/ RubricLoaded(l)
    \/ TryAgain
    \/ handleUpdateDimension \/ handleNotesInput \/ handleReset
    \/ \E i \in FixedCells, d \in {"accepted", "ignored"} : handleDisposition(i, d)
    \/ \E c \in RubricCategories : \E ticks \in SUBSET Ticks : onSelectionsChange(c, ticks)
    \/ \E c \in RubricCategories, t \in Ticks : handleApplySuggestion(c, t)
    \/ \E p \in 1 .. MaxPosts : doSaveGrade(p) \/ saveNote(p) \/ PostStored(p) \/ Confirmed(p) \/ PostFails(p)
    \/ \E p \in 1 .. MaxPosts, categories \in SUBSET RubricCategories, notes \in BOOLEAN :
          handleImportFile(p, categories, notes)

GradingSpec == GradingInit /\ [][GradingNext]_gradingVars

----------------------------------------------------------------------------
PartialMaps(S, T) == UNION {[D -> T] : D \in SUBSET S}
Gradings ==
    [dimensions : Nat, notes : Nat, feedback : PartialMaps(StoredCategories, SUBSET Ticks),
     dispositions : PartialMaps(FixedCells, {"accepted", "ignored"})]

Displays == [loading : BOOLEAN, error : BOOLEAN, submission : BOOLEAN, rubric : BOOLEAN, known : BOOLEAN]
LoadStates == [1 .. MaxLoads -> [pc : {"none", "sent", "answered", "config", "criteria", "ended"}, saved : Gradings]]
PostStates ==
    [1 .. MaxPosts -> [pc : {"none", "sent", "stored", "ended"}, kind : {"save", "note", "import"}, content : Gradings]]

GradingTypeOK ==
    /\ {grading, opened, form} \subseteq Gradings
    /\ display \in Displays
    /\ loads \in LoadStates
    /\ posts \in PostStates
    /\ entered.times \in Nat /\ entered.added \subseteq RubricCategories
    /\ entered.where \subseteq {"dimensions", "notes"} \cup RubricCategories \cup FixedCells

\* Where the teacher has entered nothing, the ticks and the decisions about fixes
\* stay as they were stored, whatever is saved before the page has loaded, without
\* a rubric, under a rubric that has lost a category, or by overtaking calls.
UntouchedKept ==
    /\ \A c \in StoredCategories \ (entered.where \cup entered.added) :
          c \in DOMAIN opened.feedback => c \in DOMAIN grading.feedback /\ grading.feedback[c] = opened.feedback[c]
    /\ \A i \in FixedCells \ entered.where :
          i \in DOMAIN opened.dispositions => i \in DOMAIN grading.dispositions /\ grading.dispositions[i] = opened.dispositions[i]

\* (Does not hold.)  The same of scores and notes: a Save between the submission and
\* its grading configuration stores the fields of an empty page.
UntouchedScoresKept ==
    /\ "dimensions" \notin entered.where => grading.dimensions = opened.dimensions
    /\ "notes" \notin entered.where => grading.notes = opened.notes

\* (Does not hold.)  What is entered on the page is changed by the next entry only:
\* a load that runs beside another one, or the answer of a save, puts its own there.
EntriesStay ==
    [][entered.times > 0 /\ entered' = entered =>
          form'.notes = form.notes /\ form'.dimensions = form.dimensions]_gradingVars

\* (Does not hold.)  A suggestion only adds to the ticks of a category: without a
\* rubric there are no selections, and the category is stored with its tick alone.
SuggestionsAdd ==
    \A c \in StoredCategories \ entered.where :
        c \in DOMAIN opened.feedback => c \in DOMAIN grading.feedback /\ opened.feedback[c] \subseteq grading.feedback[c]

\* (Does not hold.)  "the durable dispositions (persisted with the next Save) are
\* reset together": a cleared review that is saved has no decisions left.
ResetClearsDecisions ==
    [][\A p \in 1 .. MaxPosts :
          PostStored(p) /\ posts[p].kind = "save" => grading'.dispositions = posts[p].content.dispositions]_gradingVars

\* (Does not hold.)  What was imported is what the page shows once it is answered.
ImportIsShown ==
    [][\A p \in 1 .. MaxPosts :
          Confirmed(p) /\ posts[p].kind = "import" => form'.dimensions = posts[p].content.dimensions]_gradingVars
=============================================================================
