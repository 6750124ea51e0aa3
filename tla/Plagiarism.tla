------------------------------ MODULE Plagiarism ------------------------------
(***************************************************************************)
(* The plagiarism check of one assignment on the server                    *)
(* (lib/server/plagiarism, routes/api/plagiarism): its cached result and   *)
(* the handlers that read, change and write it without a lock; and the     *)
(* store of a page that shows it (services/plagiarism-store), for two      *)
(* assignments.  Cells are alike when they are equal; the semantic pass,   *)
(* which only adds scores, is left out.                                    *)
(***************************************************************************)
EXTENDS Naturals, Sequences, FiniteSets

CONSTANTS
    Handed,     \* student -> the cells handed in; students are numbers
    Handlers,   \* requests that may be under way at once
    MaxHandled, \* bound: requests of the server part
    Shown,      \* the assignments a page may show
    MaxFlights  \* bound: calls of a page

ASSUME PlagiarismBounds == DOMAIN Handed \subseteq Nat /\ MaxHandled \in Nat /\ MaxFlights \in Nat

VARIABLES
    enrolled,  \* student -> "active", "archived" or "deleted"
    cache,     \* the result file: pair -> review status
    markdown,  \* what the assessment file shows
    handler,   \* handler -> its locals
    handled,   \* requests so far
    view,      \* the store: whose result it holds, which one, and its status
    flights,   \* calls of the page under way
    loadSeq,   \* the sequence of loads
    revision,  \* assignment -> changes of its result so far
    last       \* the last load, and whether only loads have been made since

serverVars == <<enrolled, cache, markdown, handler, handled>>
pageVars == <<view, flights, loadSeq, revision, last>>
plagiarismVars == <<serverVars, pageVars>>

----------------------------------------------------------------------------
\* compareNotebooks.  Markdown and empty cells match nothing, and count.
Fingerprint(cells) == {cells[i] : i \in {j \in DOMAIN cells : cells[j] # "text"}}
Matched(first, second) == {i \in DOMAIN first : first[i] \in Fingerprint(second)}
Smaller(first, second) == IF Len(first) < Len(second) THEN Len(first) ELSE Len(second)

\* isFlaggedPair: cellOverlap >= 0.35 or notebookOverlap >= 0.5.
FlaggedPair(first, second) ==
    LET shared == Cardinality(Fingerprint(first) \cap Fingerprint(second))
        all == Cardinality(Fingerprint(first) \cup Fingerprint(second))
    IN \/ Smaller(first, second) > 0 /\ 20 * Cardinality(Matched(first, second)) >= 7 * Smaller(first, second)
       \/ all > 0 /\ 2 * shared >= all

Pairs(students) == {p \in students \X students : p[1] < p[2]}
FlagPairs(students) == {p \in Pairs(students) : FlaggedPair(Handed[p[1]], Handed[p[2]])}

----------------------------------------------------------------------------
\* The server.
Students == DOMAIN Handed
ReviewStatuses == {"unreviewed", "accepted", "dismissed", "ignored"}
NoResult == [exists |-> FALSE, pairs |-> <<>>]
Result(pairs) == [exists |-> TRUE, pairs |-> pairs]
Free == [op |-> "none", pc |-> "free", student |-> 0, held |-> NoResult]

Active == {s \in Students : enrolled[s] = "active"}
Handle(h, op, pc, student, held) ==
    /\ handler[h] = Free /\ handled < MaxHandled
    /\ handled' = handled + 1
    /\ handler' = [handler EXCEPT ![h] = [op |-> op, pc |-> pc, student |-> student, held |-> held]]
    /\ UNCHANGED pageVars

Involves(p, s) == p[1] = s \/ p[2] = s

\* POST check: the comparison replaces the result, its reviews included.
CheckAssignment(h) ==
    /\ Handle(h, "check", "write", 0, Result([p \in FlagPairs(Active) |-> "unreviewed"]))
    /\ UNCHANGED <<enrolled, cache, markdown>>

\* PATCH results: updatePairReviewStatus.
Review(h, p, status) ==
    /\ cache.exists /\ p \in DOMAIN cache.pairs
    /\ Handle(h, "review", "write", 0, [cache EXCEPT !.pairs[p] = status])
    /\ UNCHANGED <<enrolled, cache, markdown>>

\* The archive route: first the row, then setStudentPairReviewStatus.
Move(h, s, from, to) ==
    /\ enrolled[s] = from
    /\ Handle(h, to, "read", s, NoResult)
    /\ enrolled' = [enrolled EXCEPT ![s] = to]
    /\ UNCHANGED <<cache, markdown>>

\* DELETE: the pairs of the student, removeStudentFromPlagiarism, then the row.
Delete(h, s) ==
    /\ enrolled[s] # "deleted"
    /\ Handle(h, "delete", "read", s, NoResult)
    /\ UNCHANGED <<enrolled, cache, markdown>>

Upload(s) ==
    /\ enrolled[s] = "deleted"
    /\ enrolled' = [enrolled EXCEPT ![s] = "active"]
    /\ UNCHANGED <<cache, markdown, handler, handled, pageVars>>

Advance(h, pc, held) == handler' = [handler EXCEPT ![h].pc = pc, ![h].held = held]

\* Mutant: the student is forgotten as the first of a pair only.
UpdatedFirst(op, s) ==
    IF op = "delete" THEN [p \in {q \in DOMAIN cache.pairs : q[1] # s} |-> cache.pairs[p]]
    ELSE [p \in DOMAIN cache.pairs |->
             IF ~Involves(p, s) THEN cache.pairs[p] ELSE IF op = "archived" THEN "ignored" ELSE "unreviewed"]

\* removeStudentFromPlagiarism, setStudentPairReviewStatus.
Updated(op, s) ==
    IF op = "delete" THEN [p \in {q \in DOMAIN cache.pairs : ~Involves(q, s)} |-> cache.pairs[p]]
    ELSE [p \in DOMAIN cache.pairs |->
             IF ~Involves(p, s) THEN cache.pairs[p] ELSE IF op = "archived" THEN "ignored" ELSE "unreviewed"]

ReadResult(h) ==
    LET updated == Result(Updated(handler[h].op, handler[h].student)) IN
    /\ handler[h].pc = "read"
    /\ IF cache.exists /\ updated # cache THEN Advance(h, "write", updated) ELSE Advance(h, "end", NoResult)
    /\ UNCHANGED <<enrolled, cache, markdown, handled, pageVars>>

\* writePlagiarismResult renames the result, then the assessment.
WriteResult(h) ==
    /\ handler[h].pc = "write"
    /\ cache' = handler[h].held
    /\ Advance(h, "markdown", handler[h].held)
    /\ UNCHANGED <<enrolled, markdown, handled, pageVars>>

WriteMarkdown(h) ==
    /\ handler[h].pc = "markdown"
    /\ markdown' = handler[h].held
    /\ Advance(h, "end", NoResult)
    /\ UNCHANGED <<enrolled, cache, handled, pageVars>>

End(h) ==
    /\ handler[h].pc = "end"
    /\ enrolled' = IF handler[h].op = "delete" THEN [enrolled EXCEPT ![handler[h].student] = "deleted"] ELSE enrolled
    /\ handler' = [handler EXCEPT ![h] = Free]
    /\ UNCHANGED <<cache, markdown, handled, pageVars>>

HandlerStep(h) == ReadResult(h) \/ WriteResult(h) \/ WriteMarkdown(h) \/ End(h)
Begun(h) ==
    \/ CheckAssignment(h)
    \/ \E p \in DOMAIN cache.pairs, status \in ReviewStatuses : Review(h, p, status)
    \/ \E s \in Students : Move(h, s, "active", "archived") \/ Move(h, s, "archived", "active") \/ Delete(h, s)
ServerPart == (\E h \in Handlers : Begun(h) \/ HandlerStep(h)) \/ \E s \in Students : Upload(s)

----------------------------------------------------------------------------
\* The page.  An answer is the assignment and the revision of its result, 0
\* when there is none (404).
NoAnswer == [of |-> "none", revision |-> 0]
Flights == 1 .. MaxFlights
NoCallMade == [op |-> "none", seq |-> 0, of |-> "none", answered |-> FALSE, answer |-> NoAnswer]
Unsent == {c \in Flights : flights[c].op = "none" /\ \A d \in Flights : d < c => flights[d].op # "none"}
Pending == {c \in Flights : flights[c].op \in {"load", "run", "setStatus"}}

Post(op, a, seq) ==
    /\ \E c \in Unsent :
          flights' = [flights EXCEPT ![c] = [NoCallMade EXCEPT !.op = op, !.of = a, !.seq = seq]]
    /\ UNCHANGED <<revision, serverVars>>

Load(a) ==
    /\ Post("load", a, loadSeq + 1)
    /\ loadSeq' = loadSeq + 1
    /\ view' = [view EXCEPT !.status = "loading"]
    /\ last' = [of |-> a, alone |-> \A c \in Pending : flights[c].op = "load", answer |-> NoAnswer]

\* run and setStatus, which carry no sequence.
Change(op, a) ==
    /\ Post(op, a, 0)
    /\ last' = [last EXCEPT !.alone = FALSE]
    /\ UNCHANGED <<view, loadSeq>>

\* The server answers; a check or a review has changed the result.
ServerAnswers(c) ==
    LET f == flights[c]
        new == IF f.op = "load" THEN revision[f.of] ELSE revision[f.of] + 1
        answer == IF new = 0 THEN NoAnswer ELSE [of |-> f.of, revision |-> new]
    IN /\ c \in Pending /\ ~f.answered
       /\ f.op = "setStatus" => revision[f.of] > 0
       /\ revision' = [revision EXCEPT ![f.of] = new]
       /\ flights' = [flights EXCEPT ![c].answered = TRUE, ![c].answer = answer]
       /\ last' = IF f.seq = loadSeq THEN [last EXCEPT !.answer = answer] ELSE last
       /\ UNCHANGED <<view, loadSeq, serverVars>>

Landed(c) == flights' = [flights EXCEPT ![c].op = "done"] /\ UNCHANGED <<loadSeq, revision, last, serverVars>>
Show(answer, status) == view' = [of |-> answer.of, revision |-> answer.revision, status |-> status]

\* Mutant: the answer to any load is shown.
LoadedAny(c) ==
    /\ flights[c].op = "load" /\ flights[c].answered
    /\ Show(flights[c].answer, "idle")
    /\ Landed(c)

\* The answer to a load that is no longer the last is dropped.
LoadedResult(c) ==
    /\ flights[c].op = "load" /\ flights[c].answered
    /\ IF flights[c].seq = loadSeq THEN Show(flights[c].answer, "idle") ELSE UNCHANGED view
    /\ Landed(c)

\* A review leaves the status of the store alone, a check takes it to idle.
Changed(c) ==
    /\ flights[c].op \in {"run", "setStatus"} /\ flights[c].answered
    /\ Show(flights[c].answer, IF flights[c].op = "run" THEN "idle" ELSE view.status)
    /\ Landed(c)

\* A call fails; only a load that is the last, or a check, says so.
CallLost(c) ==
    /\ c \in Pending
    /\ view' = IF flights[c].op = "run" \/ (flights[c].op = "load" /\ flights[c].seq = loadSeq)
               THEN [view EXCEPT !.status = "error"] ELSE view
    /\ Landed(c)

PagePart ==
    \/ \E a \in Shown : Load(a) \/ Change("run", a) \/ Change("setStatus", a)
    \/ \E c \in Flights : ServerAnswers(c) \/ LoadedResult(c) \/ Changed(c) \/ CallLost(c)

PlagiarismInit ==
    /\ enrolled = [s \in Students |-> "active"]
    /\ cache = NoResult /\ markdown = NoResult
    /\ handler = [h \in Handlers |-> Free] /\ handled = 0
    /\ view = [of |-> "none", revision |-> 0, status |-> "idle"]
    /\ flights = [c \in Flights |-> NoCallMade] /\ loadSeq = 0
    /\ revision = [a \in Shown |-> 0]
    /\ last = [of |-> "none", alone |-> TRUE, answer |-> NoAnswer]
PlagiarismNext == ServerPart \/ PagePart
PlagiarismSpec == PlagiarismInit /\ [][PlagiarismNext]_plagiarismVars

----------------------------------------------------------------------------
\* However the answers to loads for different assignments overtake each other,
\* once no call is under way and unless a check or a review was, the page shows
\* the answer to the last load.
LastLoadWins ==
    Pending = {} /\ last.alone /\ view.status = "idle" =>
        view = [of |-> last.answer.of, revision |-> last.answer.revision, status |-> "idle"]

\* (Does not hold.)  When no call is under way, the page shows no result of
\* another assignment than the one loaded last.
RightAssignment == view.of \in {last.of, "none"} \/ Pending # {}

\* (Does not hold.)  The page never shows an older result of an assignment
\* after a newer one.
NeverOlder == [][view'.of = view.of => view'.revision >= view.revision]_pageVars

Quiet == \A h \in Handlers : handler[h] = Free

\* A copy is flagged: of a notebook without text cells whose cells are all in
\* another one.
CopyIsFlagged ==
    \A s, t \in Students :
        s # t /\ "text" \notin {Handed[s][i] : i \in DOMAIN Handed[s]} /\ Handed[s] # <<>>
              /\ Fingerprint(Handed[s]) \subseteq Fingerprint(Handed[t])
        => FlaggedPair(Handed[s], Handed[t]) /\ FlaggedPair(Handed[t], Handed[s])

\* While requests come one at a time, between them: the result names no deleted
\* student, whatever checks, reviews, archives and uploads there were.
DeletedForgotten == Quiet => \A p \in DOMAIN cache.pairs : enrolled[p[1]] # "deleted" /\ enrolled[p[2]] # "deleted"

\* (Does not hold.)  The pairs of an archived student block nobody.
ArchivedBlockNobody ==
    Quiet => \A p \in DOMAIN cache.pairs :
        enrolled[p[1]] = "archived" \/ enrolled[p[2]] = "archived" => cache.pairs[p] # "unreviewed"

\* (Holds for one request at a time only.)  The assessment shows the result.
MarkdownMirrors == Quiet => markdown = cache

\* (Does not hold.)  cellOverlap is a share.
OverlapIsAShare ==
    \A p \in Pairs(Students) :
        Cardinality(Matched(Handed[p[1]], Handed[p[2]])) <= Smaller(Handed[p[1]], Handed[p[2]])
=============================================================================
