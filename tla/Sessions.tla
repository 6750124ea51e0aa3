------------------------------- MODULE Sessions -------------------------------
(***************************************************************************)
(* One review in the browser (stores/review and stores/session) and its    *)
(* records in IndexedDB (services/db): the debounced auto-save, the save   *)
(* of a finished review, loading, deleting, switching to another           *)
(* assignment and reloading the page.  The content of a review is a        *)
(* version; 0 is the empty one.                                            *)
(***************************************************************************)
EXTENDS Naturals

CONSTANTS
    Reviewed,  \* the students whose work is reviewed
    MaxEdits,  \* bound: edits
    MaxSaves   \* bound: reviews saved

ASSUME SessionBounds == MaxEdits \in Nat /\ MaxSaves \in Nat

VARIABLES
    page,    \* the review in memory
    timer,   \* what the pending auto-save will write
    saving,  \* save() between its two writes
    disk     \* the __current__ record and the saved reviews

sessionVars == <<page, timer, saving, disk>>

ReviewIds == 1 .. MaxSaves
NoStudent == ""
Nothing == [content |-> 0, student |-> NoStudent, generated |-> FALSE]
NotSaving == [pc |-> "none", session |-> Nothing, id |-> 0]

\* typed: whether the content was entered since the review was opened;
\* generated: whether the evaluation text is there; edits: versions so far.
SessionInit ==
    /\ page = [content |-> 0, student |-> NoStudent, id |-> 0, dirty |-> FALSE, typed |-> FALSE,
               generated |-> FALSE, edits |-> 0]
    /\ timer = Nothing
    /\ saving = NotSaving
    /\ disk = [current |-> Nothing, reviews |-> [r \in ReviewIds |-> Nothing], used |-> 0]

\* toSession.
Session(content) == [content |-> content, student |-> page.student, generated |-> page.generated]

----------------------------------------------------------------------------
\* Mutant: a pending auto-save is left to run with what it has captured.
ArmFirst(session) == timer' = IF timer = Nothing THEN session ELSE timer

\* autoSave: each call captures the session and restarts the delay.
Arm(session) == timer' = session

\* A checkbox, a comment, a deduction, a note or a score.
Edit ==
    /\ page.student # NoStudent /\ page.edits < MaxEdits
    /\ page' = [page EXCEPT !.content = page.edits + 1, !.edits = @ + 1, !.dirty = TRUE, !.typed = TRUE]
    /\ Arm(Session(page.edits + 1))
    /\ UNCHANGED <<saving, disk>>

\* Undo and redo mark the review dirty and leave the auto-save alone.
Undo ==
    /\ \E v \in 0 .. page.edits : page' = [page EXCEPT !.content = v, !.dirty = TRUE, !.typed = FALSE]
    /\ UNCHANGED <<timer, saving, disk>>

\* The delay is longer than the two writes of a save: an edit made during the
\* save is not auto-saved before its end.
AutoSaved ==
    /\ timer # Nothing
    /\ saving.pc # "none" => timer = saving.session
    /\ disk' = [disk EXCEPT !.current = timer] /\ timer' = Nothing
    /\ UNCHANGED <<page, saving>>

\* The evaluation text is generated, and the session stored at once.
Generate ==
    /\ saving = NotSaving /\ page.student # NoStudent
    /\ page' = [page EXCEPT !.generated = TRUE, !.dirty = TRUE]
    /\ disk' = [disk EXCEPT !.current = [Session(page.content) EXCEPT !.generated = TRUE]]
    /\ timer' = Nothing
    /\ UNCHANGED saving

\* save: the review is stored under its id or a new one, then the draft goes.
\* The timer is not cleared.
SaveStart ==
    /\ saving = NotSaving /\ page.content # 0
    /\ page.id # 0 \/ disk.used < MaxSaves
    /\ saving' = [pc |-> "put", session |-> Session(page.content),
                  id |-> IF page.id = 0 THEN disk.used + 1 ELSE page.id]
    /\ UNCHANGED <<page, timer, disk>>

SavePut ==
    /\ saving.pc = "put"
    /\ disk' = [disk EXCEPT !.reviews[saving.id] = saving.session,
                            !.used = IF saving.id > @ THEN saving.id ELSE @]
    /\ page' = [page EXCEPT !.id = saving.id, !.dirty = FALSE]
    /\ saving' = [saving EXCEPT !.pc = "clear"]
    /\ UNCHANGED timer

SaveClear ==
    /\ saving.pc = "clear"
    /\ disk' = [disk EXCEPT !.current = Nothing]
    /\ saving' = NotSaving
    /\ UNCHANGED <<page, timer>>

\* fromSession.
Open(session, id, dirty) ==
    page' = [page EXCEPT !.content = session.content, !.student = session.student, !.generated = session.generated,
                         !.id = id, !.dirty = dirty, !.typed = FALSE]

LoadById(r) ==
    /\ saving = NotSaving /\ disk.reviews[r] # Nothing
    /\ Open(disk.reviews[r], r, FALSE)
    /\ UNCHANGED <<timer, saving, disk>>

\* deleteReview: the open review keeps the id of a record that is gone.
DeleteReview(r) ==
    /\ saving = NotSaving /\ disk.reviews[r] # Nothing
    /\ disk' = [disk EXCEPT !.reviews[r] = Nothing]
    /\ page' = [page EXCEPT !.typed = @ /\ Session(page.content) # disk.reviews[r]]
    /\ UNCHANGED <<timer, saving>>

\* clearAllData takes the draft along.
ClearAllData ==
    /\ saving = NotSaving
    /\ disk' = [disk EXCEPT !.current = Nothing, !.reviews = [r \in ReviewIds |-> Nothing]]
    /\ page' = [page EXCEPT !.typed = FALSE]
    /\ UNCHANGED <<timer, saving>>

\* startReview, with setAssignment.  Only another assignment empties the
\* selections; the session is reset unless the assignment is the same and its
\* text is there.
StartReview(student, sameAssignment) ==
    LET kept == sameAssignment /\ page.generated IN
    /\ saving = NotSaving
    /\ page' = [page EXCEPT !.student = student, !.content = IF sameAssignment THEN @ ELSE 0, !.typed = FALSE,
                            !.id = IF kept THEN @ ELSE 0, !.dirty = kept /\ @, !.generated = kept]
    /\ timer' = IF kept THEN timer ELSE Nothing
    /\ UNCHANGED <<saving, disk>>

\* The page is loaded again: init restores the draft, not its id.
Reload ==
    /\ Open(disk.current, 0, disk.current # Nothing)
    /\ timer' = Nothing /\ saving' = NotSaving
    /\ UNCHANGED disk

Save == SaveStart \/ SavePut \/ SaveClear
SessionNext ==
    \/ Edit \/ Undo \/ AutoSaved \/ Generate \/ Save \/ ClearAllData \/ Reload
    \/ \E r \in ReviewIds : LoadById(r) \/ DeleteReview(r)
    \/ \E student \in Reviewed, same \in BOOLEAN : StartReview(student, same)

SessionSpec == SessionInit /\ [][SessionNext]_sessionVars

----------------------------------------------------------------------------
\* What the teacher has entered since a review was opened is never in the page
\* alone: an auto-save is pending with it, or it is in the draft or in a saved
\* review, whatever saves, timers and deletions do in between.
EntriesKept ==
    page.typed =>
        \/ Session(page.content) \in {timer, disk.current}
        \/ \E r \in ReviewIds : disk.reviews[r] = Session(page.content)

\* (Does not hold.)  A review that has been saved is stored once.
SavedOnce ==
    \A q, r \in ReviewIds : q # r /\ disk.reviews[q] # Nothing => disk.reviews[q] # disk.reviews[r]

\* (Does not hold.)  The record of a saved review stays that of its student.
RecordKeepsStudent ==
    [][\A r \in ReviewIds : disk.reviews[r] # Nothing =>
          disk.reviews'[r] = Nothing \/ disk.reviews'[r].student = disk.reviews[r].student]_sessionVars
=============================================================================
