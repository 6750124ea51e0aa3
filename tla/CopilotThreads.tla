--------------------------- MODULE CopilotThreads ---------------------------
(***************************************************************************)
(* One conversation thread of the copilot: its record and its messages,    *)
(* two files that are read whole and written whole, without a lock         *)
(* (file-memory.ts).  A chat turn may first compact the thread (a call of  *)
(* the model between a read and a write of the record, compaction.ts),     *)
(* then Mastra (external) re-saves the record it opened and appends the    *)
(* turn's messages; the thread list renames and deletes (threads.ts).      *)
(***************************************************************************)
EXTENDS Naturals, FiniteSets

CONSTANTS
    Turns,          \* bound: chat turns of the thread, numbered from 1
    Overlaps,       \* whether the teacher may send a turn, from another tab,
                    \* before the last has ended: the values to consider
    Edits,          \* the requests of the thread list
    EditKinds,      \* what they do: "rename", "delete"
    Before,         \* how many messages the thread may hold to begin with
    LastMessages,   \* settings.copilot.lastMessages, the recall window
    PerTurn         \* bound: messages a turn saves

ASSUME ThreadBounds ==
    /\ Turns \in Nat /\ LastMessages \in Nat /\ PerTurn \in Nat
    /\ Before \subseteq Nat /\ Overlaps \subseteq BOOLEAN /\ EditKinds \subseteq {"rename", "delete"}

VARIABLES
    record,      \* the thread file
    messages,    \* the messages file: which messages it holds
    compacting,  \* whether compactingThreads has the thread
    turn,        \* turn -> runChat's and Mastra's locals
    edit,        \* request of the thread list -> its locals
    overlap      \* one of Overlaps

threadVars == <<record, messages, compacting, turn, edit, overlap>>

\* upTo is summarizedUpTo, 0 when nothing has been summarised.
Absent == [owner |-> "none", title |-> "", upTo |-> 0, count |-> 0]
Ownerless == [Absent EXCEPT !.owner = ""]
Owned == [Absent EXCEPT !.owner = "scope"]

Locals == [pc |-> "idle", held |-> Absent, base |-> Absent, seen |-> 0, read |-> {},
           told |-> FALSE, saved |-> 0]

TurnIds == 1 .. Turns

ThreadsInit ==
    /\ \E n \in Before : messages = {<<0, k>> : k \in 1 .. n}
    /\ record = Owned
    /\ compacting = FALSE
    /\ turn = [p \in TurnIds |-> Locals]
    /\ overlap \in Overlaps
    /\ edit = [e \in Edits |-> [pc |-> "idle", base |-> Absent]]

InFlight(p) == turn[p].pc \notin {"idle", "done"}
TurnTo(p, pc) == turn' = [turn EXCEPT ![p].pc = pc]
Uncompacted(p) == turn' = [turn EXCEPT ![p] = [Locals EXCEPT !.pc = "open"]]

----------------------------------------------------------------------------
\* maybeCompactThread, at the start of a turn.

StartTurn(p) ==
    /\ turn[p].pc = "idle"
    /\ \A q \in TurnIds : q < p => turn[q].pc # "idle" /\ (overlap \/ ~InFlight(q))
    /\ TurnTo(p, "check")
    /\ UNCHANGED <<record, messages, compacting, edit>>

CompactRead(p) ==
    /\ turn[p].pc = "check"
    /\ IF record.owner = "scope"
       THEN turn' = [turn EXCEPT ![p].held = record, ![p].pc = "count"]
       ELSE Uncompacted(p)
    /\ UNCHANGED <<record, messages, compacting, edit>>

Outgrown(n, upTo) == n >= 2 * LastMessages /\ n >= LastMessages + upTo

\* Mutant: the guard is asked when the summary is there, not before it.
CompactClaimUnguarded(p) ==
    LET n == Cardinality(messages) IN
    /\ turn[p].pc = "count"
    /\ IF Outgrown(n, turn[p].held.upTo)
       THEN /\ compacting' = TRUE
            /\ turn' = [turn EXCEPT ![p].pc = "summarize", ![p].seen = n]
       ELSE Uncompacted(p) /\ UNCHANGED compacting
    /\ UNCHANGED <<record, messages, edit>>

CompactClaim(p) ==
    LET n == Cardinality(messages) IN
    /\ turn[p].pc = "count"
    /\ IF Outgrown(n, turn[p].held.upTo) /\ ~compacting
       THEN /\ compacting' = TRUE
            /\ turn' = [turn EXCEPT ![p].pc = "summarize", ![p].seen = n]
       ELSE Uncompacted(p) /\ UNCHANGED compacting
    /\ UNCHANGED <<record, messages, edit>>

\* The model fails, and the chat goes on without a summary.
SummarizeFails(p) ==
    /\ turn[p].pc = "summarize"
    /\ compacting' = FALSE
    /\ Uncompacted(p)
    /\ UNCHANGED <<record, messages, edit>>

\* updateThread reads the record, or makes one up that nobody owns.
Existing == IF record = Absent THEN Ownerless ELSE record

Summarized(p) ==
    /\ turn[p].pc = "summarize"
    /\ turn' = [turn EXCEPT ![p].pc = "update", ![p].base = Existing]
    /\ UNCHANGED <<record, messages, compacting, edit>>

\* The title and the counter are those of the record read before the call.
CompactWrite(p) ==
    LET t == turn[p] IN
    /\ t.pc = "update"
    /\ record' = [t.base EXCEPT !.title = t.held.title, !.upTo = t.seen, !.count = t.held.count + 1]
    /\ compacting' = FALSE
    /\ turn' = [turn EXCEPT ![p] = [Locals EXCEPT !.pc = "open", !.told = TRUE]]
    /\ UNCHANGED <<messages, edit>>

----------------------------------------------------------------------------
\* Mastra (external), as the comments of saveThread and of runChat describe it.

\* The thread is opened, or created.
OpenRecord(p) ==
    /\ turn[p].pc = "open"
    /\ turn' = [turn EXCEPT ![p].held = IF record = Absent THEN Owned ELSE record,
                            ![p].pc = IF record = Absent THEN "saveRead" ELSE "talk"]
    /\ UNCHANGED <<record, messages, compacting, edit>>

\* saveThread: the stored record under the one Mastra holds; a stored key
\* of the metadata survives only where the held record does not set it.
SaveThreadRead(p) ==
    /\ turn[p].pc = "saveRead"
    /\ turn' = [turn EXCEPT ![p].pc = "saveWrite", ![p].base = record]
    /\ UNCHANGED <<record, messages, compacting, edit>>

Merge(stored, held) ==
    IF stored = Absent \/ held.count > 0 THEN held
    ELSE [held EXCEPT !.upTo = stored.upTo, !.count = stored.count]

SaveThreadWrite(p) ==
    /\ turn[p].pc = "saveWrite"
    /\ record' = Merge(turn[p].base, turn[p].held)
    /\ turn' = [turn EXCEPT ![p].pc = "talk", ![p].base = Absent]
    /\ UNCHANGED <<messages, compacting, edit>>

\* A step of the turn ends: the record is saved again, or its messages are.
SaveAgain(p) ==
    /\ turn[p].pc = "talk"
    /\ TurnTo(p, "saveRead")
    /\ UNCHANGED <<record, messages, compacting, edit>>

SaveMessagesRead(p) ==
    /\ turn[p].pc = "talk" /\ turn[p].saved < PerTurn
    /\ turn' = [turn EXCEPT ![p].pc = "append", ![p].read = messages]
    /\ UNCHANGED <<record, messages, compacting, edit>>

\* Mutant: the file is replaced by the turn's own messages.
SaveMessagesWriteOwn(p) ==
    LET k == turn[p].saved + 1 IN
    /\ turn[p].pc = "append"
    /\ messages' = {<<p, i>> : i \in 1 .. k}
    /\ turn' = [turn EXCEPT ![p].pc = "talk", ![p].saved = k, ![p].read = {}]
    /\ UNCHANGED <<record, compacting, edit>>

SaveMessagesWrite(p) ==
    LET k == turn[p].saved + 1 IN
    /\ turn[p].pc = "append"
    /\ messages' = turn[p].read \cup {<<p, k>>}
    /\ turn' = [turn EXCEPT ![p].pc = "talk", ![p].saved = k, ![p].read = {}]
    /\ UNCHANGED <<record, compacting, edit>>

EndTurn(p) ==
    /\ turn[p].pc = "talk"
    /\ turn' = [turn EXCEPT ![p] = [Locals EXCEPT !.pc = "done"]]
    /\ UNCHANGED <<record, messages, compacting, edit>>

----------------------------------------------------------------------------
\* renameThread and deleteThread.

EditTo(e, pc) == edit' = [edit EXCEPT ![e].pc = pc]

\* Another scope's thread, or none, is not found: 404.
FindThread(e, kind) ==
    /\ edit[e].pc = "idle"
    /\ EditTo(e, IF record.owner = "scope" THEN kind ELSE "done")
    /\ UNCHANGED <<record, messages, compacting, turn>>

RenameRead(e) ==
    /\ edit[e].pc = "rename"
    /\ edit' = [edit EXCEPT ![e].pc = "renameWrite", ![e].base = Existing]
    /\ UNCHANGED <<record, messages, compacting, turn>>

RenameWrite(e) ==
    /\ edit[e].pc = "renameWrite"
    /\ record' = [edit[e].base EXCEPT !.title = "renamed"]
    /\ edit' = [edit EXCEPT ![e] = [pc |-> "done", base |-> Absent]]
    /\ UNCHANGED <<messages, compacting, turn>>

DeleteRecord(e) ==
    /\ edit[e].pc = "delete"
    /\ record' = Absent
    /\ EditTo(e, "deleteMessages")
    /\ UNCHANGED <<messages, compacting, turn>>

DeleteMessages(e) ==
    /\ edit[e].pc = "deleteMessages"
    /\ messages' = {}
    /\ EditTo(e, "done")
    /\ UNCHANGED <<record, compacting, turn>>

----------------------------------------------------------------------------
Compaction(p) == CompactRead(p) \/ CompactClaim(p) \/ SummarizeFails(p) \/ Summarized(p) \/ CompactWrite(p)
MastraSaves(p) ==
    \/ OpenRecord(p) \/ SaveThreadRead(p) \/ SaveThreadWrite(p) \/ SaveAgain(p)
    \/ SaveMessagesRead(p) \/ SaveMessagesWrite(p) \/ EndTurn(p)
ThreadList(e) ==
    \/ \E kind \in EditKinds : FindThread(e, kind)
    \/ RenameRead(e) \/ RenameWrite(e) \/ DeleteRecord(e) \/ DeleteMessages(e)

ThreadsNext ==
    /\ \/ \E p \in TurnIds : StartTurn(p) \/ Compaction(p) \/ MastraSaves(p)
       \/ \E e \in Edits : ThreadList(e)
    /\ UNCHANGED overlap

ThreadsSpec == ThreadsInit /\ [][ThreadsNext]_threadVars

----------------------------------------------------------------------------
\* The guard of compaction is up exactly while one turn is between claiming
\* it and releasing it, however turns, failures and deletions fall
\* (compaction.ts: no double summary, released in finally).
GuardOwned ==
    /\ Cardinality({p \in TurnIds : turn[p].pc \in {"summarize", "update"}}) <= 1
    /\ compacting <=> \E p \in TurnIds : turn[p].pc \in {"summarize", "update"}

\* With one turn at a time, no message leaves the thread but by its deletion,
\* whatever the thread list and a compaction do to the record meanwhile
\* (compaction.ts: raw messages are kept).
MessagesKept ==
    [][\/ overlap
       \/ messages \subseteq messages'
       \/ \E e \in Edits : edit[e].pc = "deleteMessages"]_threadVars

\* (Does not hold.)  Once a thread has a summary, every later turn is told it (compaction.ts:
\* "injects the summary as a system message on later turns").
SummaryRemembered == \A p \in TurnIds :
    turn[p].pc \in {"talk", "saveRead", "saveWrite", "append"} /\ turn[p].held.count > 0 => turn[p].told
=============================================================================
