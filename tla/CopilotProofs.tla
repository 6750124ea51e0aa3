---------------------------- MODULE CopilotProofs ----------------------------
(***************************************************************************)
(* Proofs about the copilot.  About a conversation thread, for any number  *)
(* of turns and of requests of the thread list: two turns never compact    *)
(* the thread at once, and turns that do not overlap lose no message.      *)
(* About the turns on the server and the store of the browser: how many    *)
(* writes run unattended, what a checkpoint may show, and that every step  *)
(* is one of the gate (ToolGate) or none.                                  *)
(***************************************************************************)
EXTENDS CopilotThreads, CopilotStore, FiniteSetTheorems, SequenceTheorems, TLAPS

CompactingAt == {"summarize", "update"}
TurnAt == {"idle", "check", "count", "open", "saveRead", "saveWrite", "talk", "append", "done"} \cup CompactingAt
EditAt == {"idle", "rename", "renameWrite", "delete", "deleteMessages", "done"}

Records == [owner : {"none", "", "scope"}, title : {"", "renamed"}, upTo : Nat, count : Nat]
Files == {s \in SUBSET (Nat \X Nat) : IsFiniteSet(s)}
TurnLocals == [pc : TurnAt, held : Records, base : Records, seen : Nat, read : Files,
               told : BOOLEAN, saved : Nat]
EditLocals == [pc : EditAt, base : Records]

ThreadTypes ==
    /\ record \in Records
    /\ messages \in Files
    /\ compacting \in BOOLEAN
    /\ turn \in [TurnIds -> TurnLocals]
    /\ edit \in [Edits -> EditLocals]
    /\ overlap \in BOOLEAN

Holds(p) == turn[p].pc \in CompactingAt

\* The guard belongs to one turn; turns are sent in order; and without an
\* overlap one is in flight, which has read all the messages there are.
ThreadsInv ==
    /\ ThreadTypes
    /\ \A p, q \in TurnIds : Holds(p) /\ Holds(q) => p = q
    /\ compacting <=> \E p \in TurnIds : Holds(p)
    /\ \A p, q \in TurnIds : p < q /\ turn[p].pc = "idle" => turn[q].pc = "idle"
    /\ ~overlap => \A p, q \in TurnIds : InFlight(p) /\ InFlight(q) => p = q
    /\ ~overlap => \A p \in TurnIds : turn[p].pc = "append" => messages \subseteq turn[p].read

\* The records the program makes.
LEMMA RecordTypes ==
    /\ Absent \in Records /\ Ownerless \in Records /\ Owned \in Records
    /\ \A r, h \in Records, n \in Nat :
          /\ [r EXCEPT !.title = h.title, !.upTo = n, !.count = h.count + 1] \in Records
          /\ [r EXCEPT !.title = "renamed"] \in Records
          /\ Merge(r, h) \in Records
<1>1. Absent \in Records /\ Ownerless \in Records /\ Owned \in Records
  BY DEF Absent, Ownerless, Owned, Records
<1>2. ASSUME NEW r \in Records, NEW h \in Records, NEW n \in Nat
      PROVE  /\ [r EXCEPT !.title = h.title, !.upTo = n, !.count = h.count + 1] \in Records
             /\ [r EXCEPT !.title = "renamed"] \in Records
             /\ Merge(r, h) \in Records
  <2>0. \A s \in Records : s.count \in Nat /\ s.upTo \in Nat /\ s.title \in {"", "renamed"}
    <3>1. \A s \in Records : s.count \in Nat
      BY DEF Records
    <3>2. \A s \in Records : s.upTo \in Nat
      BY DEF Records
    <3>3. \A s \in Records : s.title \in {"", "renamed"}
      BY Zenon DEF Records
    <3> QED
      BY <3>1, <3>2, <3>3
  <2>1. h.count + 1 \in Nat /\ h.title \in {"", "renamed"} /\ r.upTo \in Nat /\ r.count \in Nat
    <3>1. h.count \in Nat
      BY <2>0, Zenon
    <3>2. h.title \in {"", "renamed"}
      BY <2>0, Zenon
    <3>3. r.upTo \in Nat
      BY <2>0, Zenon
    <3>4. r.count \in Nat
      BY <2>0, Zenon
    <3>5. h.count + 1 \in Nat
      BY <3>1
    <3> QED
      BY <3>2, <3>3, <3>4, <3>5, Zenon
  <2>2. [r EXCEPT !.title = h.title, !.upTo = n, !.count = h.count + 1] \in Records
    <3> DEFINE count == h.count + 1
               title == h.title
    <3>1. count \in Nat /\ title \in {"", "renamed"}
      BY <2>1
    <3> HIDE DEF count, title
    <3>2. [r EXCEPT !.title = title, !.upTo = n, !.count = count] \in Records
      BY <3>1 DEF Records
    <3> QED
      BY <3>2 DEF count, title
  <2>3. [r EXCEPT !.title = "renamed"] \in Records
    BY DEF Records
  <2>4. [h EXCEPT !.upTo = r.upTo, !.count = r.count] \in Records
    BY <2>1 DEF Records
  <2> QED
    BY <2>2, <2>3, <2>4 DEF Merge
<1> QED
  BY <1>1, <1>2

\* The files a turn makes.
LEMMA FileTypes ==
    /\ {} \in Files
    /\ \A s \in Files, p, k \in Nat : s \cup {<<p, k>>} \in Files
    /\ \A s \in Files : Cardinality(s) \in Nat
<1>1. {} \in Files
  BY FS_EmptySet DEF Files
<1>2. ASSUME NEW s \in Files, NEW p \in Nat, NEW k \in Nat PROVE s \cup {<<p, k>>} \in Files
  BY FS_AddElement DEF Files
<1>3. ASSUME NEW s \in Files PROVE Cardinality(s) \in Nat
  BY FS_CardinalityType DEF Files
<1> QED
  BY <1>1, <1>2, <1>3

\* A turn starts with locals of its type, and opening it keeps them so.
LEMMA LocalsTypes ==
    /\ Locals \in TurnLocals
    /\ Locals.pc = "idle"
    /\ \A pc \in TurnAt : [Locals EXCEPT !.pc = pc] \in TurnLocals /\ [Locals EXCEPT !.pc = pc].pc = pc
    /\ [Locals EXCEPT !.pc = "open", !.told = TRUE] \in TurnLocals
    /\ [Locals EXCEPT !.pc = "open", !.told = TRUE].pc = "open"
<1>1. Locals \in TurnLocals
  BY RecordTypes, FileTypes DEF Locals, TurnLocals, TurnAt
<1>2. ASSUME NEW pc \in TurnAt
      PROVE  [Locals EXCEPT !.pc = pc] \in TurnLocals /\ [Locals EXCEPT !.pc = pc].pc = pc
  BY <1>1 DEF TurnLocals
<1>3. "open" \in TurnAt
  BY DEF TurnAt
<1>4. [Locals EXCEPT !.pc = "open", !.told = TRUE] \in TurnLocals
  BY <1>1, <1>3 DEF TurnLocals
<1>5. [Locals EXCEPT !.pc = "open", !.told = TRUE].pc = "open"
  BY <1>1 DEF TurnLocals
<1>6. Locals.pc = "idle"
  BY DEF Locals
<1> QED
  BY <1>1, <1>2, <1>4, <1>5, <1>6

\* A step of a turn in flight, to t, keeps the invariant if it takes the guard
\* only when it is free, gives it up with the compaction, and appends only to
\* what it has read.
LEMMA TurnMoves ==
    ASSUME ThreadsInv, NEW p \in TurnIds, NEW t \in TurnLocals,
           turn' = [turn EXCEPT ![p] = t], InFlight(p), t.pc # "idle",
           record' \in Records, messages' \in Files, edit' = edit, overlap' = overlap,
           compacting' = IF t.pc \in CompactingAt THEN TRUE ELSE IF Holds(p) THEN FALSE ELSE compacting,
           t.pc \in CompactingAt => Holds(p) \/ ~compacting,
           t.pc = "append" => messages' \subseteq t.read
    PROVE  ThreadsInv'
<1> USE DEF ThreadsInv, ThreadTypes
<1>1. \A q \in TurnIds : turn'[q] = IF q = p THEN t ELSE turn[q]
  OBVIOUS
<1>2. ThreadTypes'
  OBVIOUS
<1>3. (\A q, r \in TurnIds : Holds(q) /\ Holds(r) => q = r)'
  BY <1>1 DEF Holds
<1>4. (compacting <=> \E q \in TurnIds : Holds(q))'
  BY <1>1 DEF Holds
<1>5. (\A q, r \in TurnIds : q < r /\ turn[q].pc = "idle" => turn[r].pc = "idle")'
  BY <1>1 DEF InFlight
<1>6. (~overlap => \A q, r \in TurnIds : InFlight(q) /\ InFlight(r) => q = r)'
  BY <1>1 DEF InFlight
<1>7. (~overlap => \A q \in TurnIds : turn[q].pc = "append" => messages \subseteq turn[q].read)'
  BY <1>1 DEF InFlight
<1> QED
  BY <1>2, <1>3, <1>4, <1>5, <1>6, <1>7

\* A step of the thread list adds no message.
LEMMA EditMoves ==
    ASSUME ThreadsInv, UNCHANGED <<compacting, turn, overlap>>,
           record' \in Records, messages' \in Files, messages' \subseteq messages,
           edit' \in [Edits -> EditLocals]
    PROVE  ThreadsInv'
BY DEF ThreadsInv, ThreadTypes, Holds, InFlight

\* The initial thread is one that no turn compacts.
LEMMA ThreadsInitInv == ThreadsInit => ThreadsInv
<1> SUFFICES ASSUME ThreadsInit PROVE ThreadsInv
  OBVIOUS
<1>1. messages \in Files
  <2>1. PICK n \in Before : messages = {<<0, k>> : k \in 1 .. n}
    BY DEF ThreadsInit
  <2>2. n \in Nat
    BY <2>1, ThreadBounds
  <2>3. messages \subseteq Nat \X Nat
    BY <2>1, <2>2
  <2>4. IsFiniteSet(messages)
    <3> DEFINE f == [k \in 1 .. n |-> <<0, k>>]
    <3>1. f \in Surjection(1 .. n, messages)
      BY <2>1 DEF Surjection
    <3>2. IsFiniteSet(1 .. n)
      BY <2>2, FS_Interval
    <3> QED
      BY <3>1, <3>2, FS_Surjection
  <2> QED
    BY <2>3, <2>4 DEF Files
<1>2. ThreadTypes
  BY <1>1, RecordTypes, LocalsTypes, ThreadBounds DEF ThreadsInit, ThreadTypes, EditLocals, EditAt
<1>3. \A p \in TurnIds : turn[p].pc = "idle"
  BY LocalsTypes DEF ThreadsInit
<1> QED
  BY <1>2, <1>3 DEF ThreadsInit, ThreadsInv, Holds, InFlight, CompactingAt

\* A turn begins: it is the next one, and is alone unless turns may overlap.
LEMMA StartTurnKeeps ==
    ASSUME ThreadsInv, NEW p \in TurnIds, StartTurn(p), UNCHANGED overlap
    PROVE  ThreadsInv'
<1> USE DEF ThreadsInv, ThreadTypes, StartTurn, TurnTo
<1> DEFINE t == [turn[p] EXCEPT !.pc = "check"]
<1>1. t \in TurnLocals /\ t.pc = "check"
  BY DEF TurnLocals, TurnAt
<1>2. \A q \in TurnIds : turn'[q] = IF q = p THEN t ELSE turn[q]
  OBVIOUS
<1>3. ThreadTypes'
  BY <1>1
<1> HIDE DEF t
<1>4. (\A q, r \in TurnIds : Holds(q) /\ Holds(r) => q = r)' /\ (compacting <=> \E q \in TurnIds : Holds(q))'
  BY <1>1, <1>2 DEF Holds, CompactingAt
<1>5. (\A q, r \in TurnIds : q < r /\ turn[q].pc = "idle" => turn[r].pc = "idle")'
  BY <1>1, <1>2
<1>6. ASSUME ~overlap, NEW q \in TurnIds, InFlight(q) PROVE FALSE
  <2>1. q \in Nat /\ p \in Nat /\ q # p
    BY <1>6, ThreadBounds DEF InFlight, TurnIds
  <2>2. CASE q < p
    BY <1>6, <2>2
  <2>3. CASE p < q
    BY <1>6, <2>3 DEF InFlight
  <2> QED
    BY <2>1, <2>2, <2>3
<1>7. (~overlap => \A q, r \in TurnIds : InFlight(q) /\ InFlight(r) => q = r)'
  BY <1>1, <1>2, <1>6 DEF InFlight
<1>8. (~overlap => \A q \in TurnIds : turn[q].pc = "append" => messages \subseteq turn[q].read)'
  BY <1>1, <1>2
<1> QED
  BY <1>3, <1>4, <1>5, <1>7, <1>8

\* The steps of a compaction.
LEMMA CompactionKeeps ==
    ASSUME ThreadsInv, NEW p \in TurnIds, Compaction(p), UNCHANGED overlap
    PROVE  ThreadsInv'
<1> USE DEF TurnAt, CompactingAt
<1>0. /\ turn[p] \in TurnLocals /\ record \in Records /\ messages \in Files
      /\ Cardinality(messages) \in Nat /\ compacting \in BOOLEAN
      /\ (Holds(p) => compacting)
  BY FileTypes DEF ThreadsInv, ThreadTypes
<1>1. ASSUME Uncompacted(p), UNCHANGED <<record, messages, edit>>,
             InFlight(p), compacting' = IF Holds(p) THEN FALSE ELSE compacting
      PROVE  ThreadsInv'
  <2>1. "open" \in TurnAt
    OBVIOUS
  <2>2. [Locals EXCEPT !.pc = "open"] \in TurnLocals /\ [Locals EXCEPT !.pc = "open"].pc = "open"
    BY <2>1, LocalsTypes
  <2> QED
    BY <1>0, <1>1, <2>2, TurnMoves DEF Uncompacted
<1>2. CASE CompactRead(p)
  <2>1. CASE Uncompacted(p)
    BY <1>0, <1>1, <1>2, <2>1 DEF CompactRead, Holds, InFlight
  <2>2. CASE turn' = [turn EXCEPT ![p].held = record, ![p].pc = "count"]
    <3> DEFINE t == [turn[p] EXCEPT !.held = record, !.pc = "count"]
    <3>1. t \in TurnLocals /\ t.pc = "count"
      BY <1>0 DEF TurnLocals
    <3>2. turn' = [turn EXCEPT ![p] = t]
      BY <2>2 DEF ThreadsInv, ThreadTypes
    <3> HIDE DEF t
    <3> QED
      BY <1>0, <1>2, <3>1, <3>2, TurnMoves DEF CompactRead, Holds, InFlight
  <2> QED
    BY <1>2, <2>1, <2>2 DEF CompactRead
<1>3. CASE CompactClaim(p)
  <2> DEFINE n == Cardinality(messages)
  <2>1. CASE Uncompacted(p) /\ UNCHANGED compacting
    BY <1>0, <1>1, <1>3, <2>1 DEF CompactClaim, Holds, InFlight
  <2>2. CASE ~compacting /\ compacting' = TRUE /\ turn' = [turn EXCEPT ![p].pc = "summarize", ![p].seen = n]
    <3> DEFINE t == [turn[p] EXCEPT !.pc = "summarize", !.seen = n]
    <3>1. t \in TurnLocals /\ t.pc = "summarize"
      BY <1>0 DEF TurnLocals
    <3>2. turn' = [turn EXCEPT ![p] = t]
      BY <2>2 DEF ThreadsInv, ThreadTypes
    <3> HIDE DEF t
    <3> QED
      BY <1>0, <1>3, <2>2, <3>1, <3>2, TurnMoves DEF CompactClaim, Holds, InFlight
  <2> QED
    BY <1>3, <2>1, <2>2 DEF CompactClaim
<1>4. CASE SummarizeFails(p)
  BY <1>0, <1>1, <1>4 DEF SummarizeFails, Holds, InFlight
<1>5. CASE Summarized(p)
  <2> DEFINE t == [turn[p] EXCEPT !.pc = "update", !.base = Existing]
  <2>1. Existing \in Records
    BY <1>0, RecordTypes DEF Existing
  <2>2. t \in TurnLocals /\ t.pc = "update"
    BY <1>0, <2>1 DEF TurnLocals
  <2>3. turn' = [turn EXCEPT ![p] = t]
    BY <1>5 DEF ThreadsInv, ThreadTypes, Summarized
  <2> HIDE DEF t
  <2> QED
    BY <1>0, <1>5, <2>2, <2>3, TurnMoves DEF Summarized, Holds, InFlight
<1>6. CASE CompactWrite(p)
  <2>1. turn[p].base \in Records /\ turn[p].held \in Records /\ turn[p].seen \in Nat
    BY <1>0 DEF TurnLocals
  <2>2. record' \in Records
    BY <1>6, <2>1, RecordTypes DEF CompactWrite
  <2> QED
    BY <1>0, <1>6, <2>2, LocalsTypes, TurnMoves DEF CompactWrite, Holds, InFlight
<1> QED
  BY <1>2, <1>3, <1>4, <1>5, <1>6 DEF Compaction

\* The steps of Mastra.
LEMMA MastraKeeps ==
    ASSUME ThreadsInv, NEW p \in TurnIds, MastraSaves(p), UNCHANGED overlap
    PROVE  ThreadsInv'
<1> USE DEF TurnAt, CompactingAt
<1>0. /\ turn[p] \in TurnLocals /\ record \in Records /\ messages \in Files
      /\ turn \in [TurnIds -> TurnLocals]
      /\ turn[p].held \in Records /\ turn[p].base \in Records /\ turn[p].read \in Files
      /\ turn[p].saved \in Nat /\ p \in Nat
  BY ThreadBounds DEF ThreadsInv, ThreadTypes, TurnLocals, TurnIds
<1>1. ASSUME NEW t \in TurnLocals, turn' = [turn EXCEPT ![p] = t], InFlight(p), ~Holds(p),
             t.pc \notin CompactingAt \cup {"idle"}, t.pc = "append" => messages' \subseteq t.read,
             record' \in Records, messages' \in Files, UNCHANGED <<compacting, edit>>
      PROVE  ThreadsInv'
  BY <1>1, TurnMoves
<1>2. CASE OpenRecord(p)
  <2> DEFINE held == IF record = Absent THEN Owned ELSE record
             pc == IF record = Absent THEN "saveRead" ELSE "talk"
             t == [turn[p] EXCEPT !.held = held, !.pc = pc]
  <2>1. held \in Records /\ pc \in {"saveRead", "talk"}
    BY <1>0, RecordTypes
  <2> HIDE DEF held, pc
  <2>2. t \in TurnLocals /\ t.pc = pc
    BY <1>0, <2>1 DEF TurnLocals
  <2>3. turn' = [turn EXCEPT ![p] = t]
    BY <1>0, <1>2 DEF OpenRecord, held, pc
  <2> HIDE DEF t
  <2> QED
    BY <1>0, <1>1, <1>2, <2>1, <2>2, <2>3 DEF OpenRecord, Holds, InFlight
<1>3. CASE SaveThreadRead(p)
  <2> DEFINE t == [turn[p] EXCEPT !.pc = "saveWrite", !.base = record]
  <2>1. t \in TurnLocals /\ t.pc = "saveWrite"
    BY <1>0 DEF TurnLocals
  <2>2. turn' = [turn EXCEPT ![p] = t]
    BY <1>0, <1>3 DEF SaveThreadRead
  <2> HIDE DEF t
  <2> QED
    BY <1>0, <1>1, <1>3, <2>1, <2>2 DEF SaveThreadRead, Holds, InFlight
<1>4. CASE SaveThreadWrite(p)
  <2> DEFINE t == [turn[p] EXCEPT !.pc = "talk", !.base = Absent]
  <2>1. t \in TurnLocals /\ t.pc = "talk"
    BY <1>0, RecordTypes DEF TurnLocals
  <2>2. turn' = [turn EXCEPT ![p] = t]
    BY <1>0, <1>4 DEF SaveThreadWrite
  <2>3. record' \in Records
    BY <1>0, <1>4, RecordTypes DEF SaveThreadWrite
  <2> HIDE DEF t
  <2> QED
    BY <1>0, <1>1, <1>4, <2>1, <2>2, <2>3 DEF SaveThreadWrite, Holds, InFlight
<1>5. CASE SaveAgain(p)
  <2> DEFINE t == [turn[p] EXCEPT !.pc = "saveRead"]
  <2>1. t \in TurnLocals /\ t.pc = "saveRead"
    BY <1>0 DEF TurnLocals
  <2>2. turn' = [turn EXCEPT ![p] = t]
    BY <1>0, <1>5 DEF SaveAgain, TurnTo
  <2> HIDE DEF t
  <2> QED
    BY <1>0, <1>1, <1>5, <2>1, <2>2 DEF SaveAgain, Holds, InFlight
<1>6. CASE SaveMessagesRead(p)
  <2> DEFINE t == [turn[p] EXCEPT !.pc = "append", !.read = messages]
  <2>1. t \in TurnLocals /\ t.pc = "append" /\ t.read = messages
    BY <1>0 DEF TurnLocals
  <2>2. turn' = [turn EXCEPT ![p] = t]
    BY <1>0, <1>6 DEF SaveMessagesRead
  <2> HIDE DEF t
  <2> QED
    BY <1>0, <1>1, <1>6, <2>1, <2>2 DEF SaveMessagesRead, Holds, InFlight
<1>7. CASE SaveMessagesWrite(p)
  <2> DEFINE k == turn[p].saved + 1
             t == [turn[p] EXCEPT !.pc = "talk", !.saved = k, !.read = {}]
  <2>1. k \in Nat
    BY <1>0
  <2>2. messages' = turn[p].read \cup {<<p, k>>} /\ turn' = [turn EXCEPT ![p] = t]
    BY <1>0, <1>7 DEF SaveMessagesWrite
  <2> HIDE DEF k
  <2>3. t \in TurnLocals /\ t.pc = "talk"
    BY <1>0, <2>1, FileTypes DEF TurnLocals
  <2>4. messages' \in Files
    BY <1>0, <2>1, <2>2, FileTypes
  <2> HIDE DEF t
  <2> QED
    BY <1>0, <1>1, <1>7, <2>2, <2>3, <2>4 DEF SaveMessagesWrite, Holds, InFlight
<1>8. CASE EndTurn(p)
  <2>1. "done" \in TurnAt
    OBVIOUS
  <2>2. [Locals EXCEPT !.pc = "done"] \in TurnLocals /\ [Locals EXCEPT !.pc = "done"].pc = "done"
    BY <2>1, LocalsTypes
  <2> QED
    BY <1>0, <1>1, <1>8, <2>2 DEF EndTurn, Holds, InFlight
<1> QED
  BY <1>2, <1>3, <1>4, <1>5, <1>6, <1>7, <1>8 DEF MastraSaves

\* The steps of the thread list.
LEMMA ThreadListKeeps ==
    ASSUME ThreadsInv, NEW e \in Edits, ThreadList(e), UNCHANGED overlap
    PROVE  ThreadsInv'
<1>0. /\ edit \in [Edits -> EditLocals] /\ edit[e] \in EditLocals /\ edit[e].base \in Records
      /\ record \in Records /\ messages \in Files
  BY DEF ThreadsInv, ThreadTypes, EditLocals
<1>1. ASSUME NEW pc \in EditAt, EditTo(e, pc) PROVE edit' \in [Edits -> EditLocals]
  BY <1>0, <1>1 DEF EditTo, EditLocals
<1>2. ASSUME NEW kind \in EditKinds, FindThread(e, kind) PROVE ThreadsInv'
  <2>1. edit' \in [Edits -> EditLocals]
    BY <1>1, <1>2, ThreadBounds DEF FindThread, EditAt
  <2> QED
    BY <1>0, <1>2, <2>1, EditMoves DEF FindThread
<1>3. CASE RenameRead(e)
  <2>1. Existing \in Records
    BY <1>0, RecordTypes DEF Existing
  <2>2. edit' \in [Edits -> EditLocals]
    BY <1>0, <1>3, <2>1 DEF RenameRead, EditLocals, EditAt
  <2> QED
    BY <1>0, <1>3, <2>2, EditMoves DEF RenameRead
<1>4. CASE RenameWrite(e)
  <2>1. record' \in Records
    BY <1>0, <1>4, RecordTypes DEF RenameWrite
  <2>2. edit' \in [Edits -> EditLocals]
    BY <1>0, <1>4, RecordTypes DEF RenameWrite, EditLocals, EditAt
  <2> QED
    BY <1>0, <1>4, <2>1, <2>2, EditMoves DEF RenameWrite
<1>5. CASE DeleteRecord(e)
  <2>1. edit' \in [Edits -> EditLocals]
    BY <1>1, <1>5 DEF DeleteRecord, EditAt
  <2> QED
    BY <1>0, <1>5, <2>1, RecordTypes, EditMoves DEF DeleteRecord
<1>6. CASE DeleteMessages(e)
  <2>1. edit' \in [Edits -> EditLocals]
    BY <1>1, <1>6 DEF DeleteMessages, EditAt
  <2> QED
    BY <1>0, <1>6, <2>1, FileTypes, EditMoves DEF DeleteMessages
<1> QED
  BY <1>2, <1>3, <1>4, <1>5, <1>6 DEF ThreadList

\* Every step on a thread keeps the invariant: a turn's write leaves the guard with
\* the turn that took it.
LEMMA ThreadsStepInv == ThreadsInv /\ [ThreadsNext]_threadVars => ThreadsInv'
<1> SUFFICES ASSUME ThreadsInv, [ThreadsNext]_threadVars PROVE ThreadsInv'
  OBVIOUS
<1>1. CASE UNCHANGED threadVars
  BY <1>1 DEF threadVars, ThreadsInv, ThreadTypes, Holds, InFlight
<1> QED
  BY <1>1, StartTurnKeeps, CompactionKeeps, MastraKeeps, ThreadListKeeps DEF ThreadsNext

\* The types of the two files and of everything that reads them, and the shape
\* of a thread from which the theorems below follow.
THEOREM ThreadsInvAlways == ThreadsSpec => []ThreadsInv
BY ThreadsInitInv, ThreadsStepInv, PTL DEF ThreadsSpec

\* A thread is compacted by at most one turn at a time, and the guard is up
\* exactly as long (compaction.ts, compactingThreads).
THEOREM GuardOwnedAlways == ThreadsSpec => []GuardOwned
<1>1. ThreadsInv => GuardOwned
  <2> SUFFICES ASSUME ThreadsInv PROVE GuardOwned
    OBVIOUS
  <2> DEFINE S == {p \in TurnIds : turn[p].pc \in {"summarize", "update"}}
  <2>1. \A p, q \in S : p = q
    BY DEF ThreadsInv, Holds, CompactingAt
  <2>2. Cardinality(S) <= 1
    <3>1. CASE S = {}
      BY <3>1, FS_EmptySet
    <3>2. ASSUME NEW p \in S PROVE Cardinality(S) <= 1
      <4>1. S = {p}
        BY <2>1, <3>2
      <4> QED
        BY <4>1, FS_Singleton
    <3> QED
      BY <3>1, <3>2
  <2> QED
    BY <2>2 DEF GuardOwned, ThreadsInv, ThreadTypes, Holds, CompactingAt
<1> QED
  BY <1>1, ThreadsInvAlways, PTL

\* While turns do not overlap, only the deletion of the thread takes messages
\* out of it, whatever is compacted, renamed or saved again meanwhile
\* (compaction.ts: raw messages are kept).
THEOREM MessagesKeptAlways == ThreadsSpec => MessagesKept
<1> DEFINE Keeps == \/ overlap
                    \/ messages \subseteq messages'
                    \/ \E e \in Edits : edit[e].pc = "deleteMessages"
<1>1. ASSUME ThreadsInv, [ThreadsNext]_threadVars PROVE Keeps
  <2>1. ASSUME NEW p \in TurnIds, StartTurn(p) \/ Compaction(p) PROVE messages' = messages
    BY <2>1 DEF StartTurn, Compaction, CompactRead, CompactClaim, SummarizeFails, Summarized, CompactWrite
  <2>2. ASSUME NEW p \in TurnIds, MastraSaves(p) PROVE Keeps
    <3>1. CASE SaveMessagesWrite(p)
      BY <1>1, <3>1 DEF SaveMessagesWrite, ThreadsInv
    <3> QED
      BY <2>2, <3>1 DEF MastraSaves, OpenRecord, SaveThreadRead, SaveThreadWrite, SaveAgain, SaveMessagesRead, EndTurn
  <2>3. ASSUME NEW e \in Edits, ThreadList(e) PROVE Keeps
    <3>1. CASE DeleteMessages(e)
      BY <3>1 DEF DeleteMessages
    <3> QED
      BY <2>3, <3>1 DEF ThreadList, FindThread, RenameRead, RenameWrite, DeleteRecord
  <2>4. CASE UNCHANGED threadVars
    BY <2>4 DEF threadVars
  <2> QED
    BY <1>1, <2>1, <2>2, <2>3, <2>4 DEF ThreadsNext
<1>2. ThreadsInv /\ [ThreadsNext]_threadVars => [Keeps]_threadVars
  BY <1>1
<1> QED
  BY <1>2, ThreadsInvAlways, PTL DEF ThreadsSpec, MessagesKept

----------------------------------------------------------------------------
(***************************************************************************)
(* The copilot: the turns on the server and the store of the browser, for  *)
(* any number of turns, calls, threads and tools, any settings, and with   *)
(* or without restarts.                                                    *)
(***************************************************************************)

CallRecords == [tool : Tools, fate : {"auto", "ask", "blocked", "granted", "refused", "ran"}]
Chunks == ({"tool-call", "approval", "tool-result"} \X Nat) \cup {<<"finish">>, <<"error">>}
Frames == {<<"done">>, <<"error">>} \cup ({"tool-result"} \X Nat)
          \cup ({"approval-request"} \X Nat \X {"ask", "blocked"}) \cup ({"checkpoint"} \X (Runs \X (Nat \X Nat)))

RunRecords == [phase : Phases, mode : Modes \cup {"ask"}, thread : Threads, feed : Seq(Chunks),
               calls : Seq(CallRecords), over : BOOLEAN,
               decisions : [Tools -> {"none", "auto", "ask", "blocked"}],
               pending : Nat, outcome : {"none", "approve", "deny", "expired"},
               aborted : BOOLEAN, checkpointed : BOOLEAN, at : Nat]

\* The teacher has approved the k-th call of turn r.
Approved(r, k) == \E p \in posts : p.call = <<r, k>> /\ p.word = "approve"

IsWrite(r, k) == CallOf(r, k).tool \in GradingWriteTools

\* The call waits, or has waited, for the teacher: it has not been let go
\* without an approval.
AskedFor(r, k) == /\ k \in 1 .. Last(r) /\ CallOf(r, k).fate # "auto"
                  /\ CallOf(r, k).fate \in {"granted", "ran"} => Approved(r, k)

\* runChat has asked the teacher about the call: were it a write, it would
\* have taken the checkpoint before.
Requested(r, k) ==
    /\ AskedFor(r, k)
    /\ IsWrite(r, k) => \/ run[r].phase \in {"ended", "lost"}
                        \/ run[r].checkpointed /\ run[r].phase # "snapshot"

\* The call was let go, and the teacher has not approved it.
LetGo(r, k) ==
    /\ k \in 1 .. Last(r) /\ CallOf(r, k).tool \in ApprovalTools
    /\ CallOf(r, k).fate \in {"auto", "ran"} /\ ~Approved(r, k)

\* A selection of a turn was written by a call that was let go or approved.
Written(g) ==
    /\ g \in Nat \X Nat
    /\ g[1] \in Runs => /\ g[2] \in 1 .. Last(g[1]) /\ IsWrite(g[1], g[2])
                        /\ LetGo(g[1], g[2]) \/ Approved(g[1], g[2])

GoodCheckpoint(c) ==
    /\ c \in Runs \X (Nat \X Nat) /\ Written(c[2])
    /\ c[2][1] = c[1] => \E k \in 1 .. Last(c[1]) : LetGo(c[1], k)

Waits(r) ==
    /\ run[r].phase = "none" => run[r].calls = <<>> /\ run[r].feed = <<>>
    /\ run[r].pending # 0 => /\ run[r].phase = "waiting" /\ run[r].pending = run[r].at
                             /\ run[r].outcome = "none"
    /\ run[r].phase = "waiting" =>
          Requested(r, run[r].at) /\ (run[r].outcome = "approve" => Approved(r, run[r].at))

GrantsApproved(r) == \A k \in 1 .. Last(r) : CallOf(r, k).fate = "granted" => Approved(r, k)

\* A request for an approval comes right after the chunk of its call.
FeedInOrder(r) == \A i \in DOMAIN run[r].feed : run[r].feed[i][1] = "approval" =>
    LET k == run[r].feed[i][2] IN
    /\ AskedFor(r, k)
    /\ \/ i = 1 /\ (IsWrite(r, k) => run[r].checkpointed)
       \/ i > 1 /\ run[r].feed[i - 1] = <<"tool-call", k>>

\* The last call is one that nobody has decided about yet.
Undecided(r) ==
    /\ Last(r) # 0 /\ CallOf(r, Last(r)).fate \in {"ask", "blocked"}
    /\ run[r].decisions[CallOf(r, Last(r)).tool] = CallOf(r, Last(r)).fate

\* Mastra makes no other call while it waits for one, so the approval that
\* runChat will ask for, or is waiting for, is about the last call.
AskedLast(r) ==
    /\ \A i \in DOMAIN run[r].feed : run[r].feed[i][1] = "approval" =>
          /\ i = Len(run[r].feed) /\ run[r].feed[i][2] = Last(r)
          /\ Undecided(r) /\ run[r].phase # "waiting"
    /\ run[r].phase = "waiting" => run[r].at = Last(r) /\ Undecided(r)

GoodFrame(r, frame) ==
    /\ frame[1] = "approval-request" => Requested(r, frame[2])
    /\ frame[1] = "checkpoint" => GoodCheckpoint(frame[2])

WireGood(r) == \A i \in DOMAIN wire[r] : GoodFrame(r, wire[r][i])
CardAsked == \A c \in card : c \in Runs \X Nat /\ Requested(c[1], c[2])
PostsAsked == \A p \in posts : Requested(p.call[1], p.call[2])
CheckpointsGood == \A c \in checkpoint : GoodCheckpoint(c)

CopilotTypes ==
    /\ run \in [Runs -> RunRecords] /\ thread \in Threads
    /\ wire \in [Runs -> Seq(Frames)] /\ allowance \in [Threads -> Nat]
    /\ posts \subseteq [call : Runs \X Nat, word : {"approve", "deny"}, state : PostStates]

\* The calls of a thread that ran unattended in ask mode, as far as the
\* process remembers.
Counted(th) == {c \in Calls : /\ Unattended(c)
                              /\ run[c[1]].mode = "ask" /\ run[c[1]].thread = th
                              /\ run[c[1]].phase # "lost"}

CapKept == \A th \in Threads : Cardinality(Counted(th)) <= allowance[th] /\ allowance[th] <= SessionCap

CopilotInv ==
    /\ CopilotTypes
    /\ \A r \in Runs : Waits(r) /\ GrantsApproved(r) /\ FeedInOrder(r) /\ AskedLast(r) /\ WireGood(r)
    /\ CardAsked /\ PostsAsked /\ CheckpointsGood /\ Written(grading) /\ CapKept

\* The turn stays what it is: its mode, its thread, and gone if it was.
Same(r) == /\ run'[r].mode = run[r].mode /\ run'[r].thread = run[r].thread
           /\ run[r].phase = "lost" => run'[r].phase = "lost"

\* What a step may make of a turn: its calls stay, none is let go but by the
\* policy when it is made or by an approval, and a snapshot is only begun
\* where none was taken.
Forward(r) ==
    /\ 1 .. Last(r) \subseteq 1 .. Last(r)'
    /\ \A k \in 1 .. Last(r) :
          /\ CallOf(r, k)'.tool = CallOf(r, k).tool
          /\ CallOf(r, k)'.fate \in {"auto", "granted", "ran"} =>
                CallOf(r, k).fate \in {"auto", "granted", "ran"} \/ Approved(r, k)
          /\ CallOf(r, k)'.fate = "auto" => CallOf(r, k).fate = "auto"
          /\ CallOf(r, k).fate \in {"auto", "ran"} => CallOf(r, k)'.fate \in {"auto", "ran"} \/ Approved(r, k)
    /\ run[r].phase \in {"ended", "lost"} => run'[r].phase \in {"ended", "lost"}
    /\ run[r].checkpointed => run'[r].checkpointed \/ run'[r].phase \in {"ended", "lost"}
    /\ run'[r].phase = "snapshot" => run[r].phase = "snapshot" \/ ~run[r].checkpointed
    /\ run[r].calls # <<>> => Same(r)

\* The teacher's words stay, and new ones are about calls that were asked for.
PostsForward == \A r \in Runs, k \in Nat :
    /\ Approved(r, k) => Approved(r, k)'
    /\ Approved(r, k)' => Approved(r, k) \/ Requested(r, k)

Steps == PostsForward /\ \A r \in Runs : Forward(r)

\* What has been asked for stays so.
LEMMA RequestedStays ==
    ASSUME Steps, NEW r \in Runs, NEW k \in Nat
    PROVE  /\ AskedFor(r, k) => AskedFor(r, k)'
           /\ Requested(r, k) => Requested(r, k)'
           /\ k \in 1 .. Last(r) => (IsWrite(r, k)' <=> IsWrite(r, k))
<1>1. AskedFor(r, k) => AskedFor(r, k)'
  BY DEF Steps, PostsForward, Forward, AskedFor
<1>2. k \in 1 .. Last(r) => (IsWrite(r, k)' <=> IsWrite(r, k))
  BY DEF Steps, Forward, IsWrite
<1>3. ASSUME Requested(r, k) PROVE Requested(r, k)'
  <2>1. k \in 1 .. Last(r) /\ AskedFor(r, k)'
    BY <1>1, <1>3 DEF Requested, AskedFor
  <2>2. ASSUME IsWrite(r, k)' PROVE run'[r].phase \in {"ended", "lost"} \/ (run'[r].checkpointed /\ run'[r].phase # "snapshot")
    <3>1. IsWrite(r, k)
      BY <1>2, <2>1, <2>2
    <3>2. CASE run[r].phase \in {"ended", "lost"}
      BY <3>2 DEF Steps, Forward
    <3>3. CASE run[r].checkpointed /\ run[r].phase # "snapshot"
      BY <3>3 DEF Steps, Forward
    <3> QED
      BY <1>3, <3>1, <3>2, <3>3 DEF Requested
  <2> QED
    BY <2>1, <2>2 DEF Requested
<1> QED
  BY <1>1, <1>2, <1>3

\* A call that was let go without an approval is never approved later.
LEMMA LetGoStays ==
    ASSUME Steps, NEW r \in Runs, NEW k \in Nat, LetGo(r, k)
    PROVE  LetGo(r, k)'
<1>1. k \in 1 .. Last(r) /\ ~Approved(r, k) /\ CallOf(r, k).fate \in {"auto", "ran"}
  BY DEF LetGo
<1>2. ~Approved(r, k)'
  BY <1>1 DEF Steps, PostsForward, Requested, AskedFor
<1>3. /\ k \in 1 .. Last(r)' /\ CallOf(r, k)'.tool = CallOf(r, k).tool
      /\ CallOf(r, k)'.fate \in {"auto", "ran"}
  BY <1>1 DEF Steps, Forward
<1> QED
  BY <1>2, <1>3 DEF LetGo

\* So what a selection or a checkpoint says of a call stays true.
LEMMA WrittenStays ==
    ASSUME CopilotTypes, Steps
    PROVE  /\ \A g : Written(g) => Written(g)'
           /\ \A c : GoodCheckpoint(c) => GoodCheckpoint(c)'
           /\ \A r \in Runs : \A frame \in Frames : GoodFrame(r, frame) => GoodFrame(r, frame)'
<1>0. \A r \in Runs : 1 .. Last(r) \subseteq Nat
  OBVIOUS
<1>1. ASSUME NEW g, Written(g) PROVE Written(g)'
  <2>1. ASSUME g[1] \in Runs
        PROVE  g[2] \in 1 .. Last(g[1])' /\ IsWrite(g[1], g[2])' /\ (LetGo(g[1], g[2])' \/ Approved(g[1], g[2])')
    <3>1. g[2] \in 1 .. Last(g[1]) /\ g[2] \in Nat /\ IsWrite(g[1], g[2]) /\ (LetGo(g[1], g[2]) \/ Approved(g[1], g[2]))
      BY <1>1, <2>1 DEF Written
    <3>2. g[2] \in 1 .. Last(g[1])' /\ IsWrite(g[1], g[2])'
      BY <2>1, <3>1, RequestedStays DEF Steps, Forward
    <3>3. LetGo(g[1], g[2])' \/ Approved(g[1], g[2])'
      BY <2>1, <3>1, LetGoStays DEF Steps, PostsForward
    <3> QED
      BY <3>2, <3>3
  <2> QED
    BY <1>1, <2>1 DEF Written
<1>2. ASSUME NEW c, GoodCheckpoint(c) PROVE GoodCheckpoint(c)'
  <2>1. Written(c[2])' /\ c \in Runs \X (Nat \X Nat) /\ c[1] \in Runs
    BY <1>1, <1>2 DEF GoodCheckpoint
  <2>2. ASSUME c[2][1] = c[1] PROVE \E k \in 1 .. Last(c[1])' : LetGo(c[1], k)'
    <3>1. PICK k \in 1 .. Last(c[1]) : LetGo(c[1], k)
      BY <1>2, <2>2 DEF GoodCheckpoint
    <3>2. LetGo(c[1], k)' /\ k \in 1 .. Last(c[1])'
      BY <2>1, <3>1, LetGoStays DEF Steps, Forward
    <3> QED
      BY <3>2
  <2> QED
    BY <2>1, <2>2 DEF GoodCheckpoint
<1>3. ASSUME NEW r \in Runs, NEW frame \in Frames, GoodFrame(r, frame) PROVE GoodFrame(r, frame)'
  <2>1. ASSUME frame[1] = "approval-request" PROVE Requested(r, frame[2])'
    <3>1. Requested(r, frame[2])
      BY <1>3, <2>1 DEF GoodFrame
    <3>2. frame[2] \in Nat
      BY <3>1 DEF Requested, AskedFor
    <3> QED
      BY <3>1, <3>2, RequestedStays
  <2>2. ASSUME frame[1] = "checkpoint" PROVE GoodCheckpoint(frame[2])'
    BY <1>2, <1>3, <2>2 DEF GoodFrame
  <2> QED
    BY <2>1, <2>2 DEF GoodFrame
<1> QED
  BY <1>1, <1>2, <1>3

\* Of the calls there were, none comes to count as unattended.
LEMMA CountedOnlyNew ==
    ASSUME CopilotInv, Steps, NEW th \in Threads, NEW c \in Counted(th)', c[2] \in 1 .. Last(c[1])
    PROVE  c \in Counted(th)
<1>1. PICK r \in Runs, k \in 1 .. MaxCalls : c = <<r, k>>
  BY DEF Counted, Calls
<1>2. /\ run[r].calls \in Seq(CallRecords) /\ k \in Nat /\ k \in 1 .. Last(r)
      /\ GrantsApproved(r) /\ Forward(r)
  BY <1>1 DEF CopilotInv, CopilotTypes, RunRecords, Steps
<1>3. /\ CallOf(r, k)'.tool \in ApprovalTools /\ CallOf(r, k)'.fate \in {"auto", "ran"}
      /\ run'[r].mode = "ask" /\ run'[r].thread = th /\ run'[r].phase # "lost"
  BY <1>1 DEF Counted, Unattended, Fate
<1>4. ~Approved(r, k)'
  BY <1>1 DEF Counted, Unattended, Approved, Said
<1>5. ~Approved(r, k)
  BY <1>2, <1>4 DEF Steps, PostsForward
<1>6. CallOf(r, k).tool \in ApprovalTools /\ CallOf(r, k).fate \in {"auto", "ran"}
  BY <1>2, <1>3, <1>5 DEF Forward, GrantsApproved
<1>7. run[r].calls # <<>>
  BY <1>2 DEF Last
<1>8. run[r].mode = "ask" /\ run[r].thread = th /\ run[r].phase # "lost"
  BY <1>2, <1>3, <1>7 DEF Forward, Same
<1>9. Made(c) /\ Fate(c) \in {"auto", "ran"} /\ "approve" \notin Said(c)
  BY <1>1, <1>2, <1>5, <1>6 DEF Made, Fate, Said, Approved, Last
<1> QED
  BY <1>1, <1>6, <1>8, <1>9 DEF Counted, Unattended, Calls

\* The calls counted against the allowance of a thread are finitely many.
LEMMA CountedFinite ==
    ASSUME NEW th
    PROVE  IsFiniteSet(Counted(th)) /\ Counted(th) \subseteq Calls /\ IsFiniteSet(Calls)
<1>1. IsFiniteSet(Runs) /\ IsFiniteSet(1 .. MaxCalls)
  BY FS_Interval, BoundsAssumption DEF Runs
<1>2. IsFiniteSet(Calls)
  BY <1>1, FS_Product DEF Calls
<1> QED
  BY <1>2, FS_Subset DEF Counted

\* Without a new call the cap is kept.
LEMMA CapStays ==
    ASSUME CopilotInv, Steps, allowance' = allowance, \A s \in Runs : Last(s)' = Last(s)
    PROVE  CapKept'
<1> SUFFICES ASSUME NEW th \in Threads
             PROVE  Cardinality(Counted(th)') <= allowance[th] /\ allowance[th] <= SessionCap
  BY DEF CapKept
<1>1. Cardinality(Counted(th)) <= allowance[th] /\ allowance[th] <= SessionCap
  BY DEF CopilotInv, CapKept
<1>2. ASSUME NEW c \in Counted(th)' PROVE c \in Counted(th)
  <2>1. c[1] \in Runs /\ c[2] \in 1 .. MaxCalls /\ Made(c)'
    BY DEF Counted, Unattended, Calls
  <2>2. Last(c[1]) \in Nat
    BY <2>1 DEF CopilotInv, CopilotTypes, RunRecords, Last
  <2>3. c[2] \in 1 .. Last(c[1])
    BY <2>1, <2>2, BoundsAssumption DEF Made
  <2> QED
    BY <2>3, CountedOnlyNew
<1>3. Counted(th)' \subseteq Counted(th) /\ IsFiniteSet(Counted(th))
  BY <1>2, CountedFinite
<1>4. /\ Cardinality(Counted(th)') <= Cardinality(Counted(th))
      /\ Cardinality(Counted(th)') \in Nat /\ Cardinality(Counted(th)) \in Nat
  BY <1>3, FS_Subset, FS_CardinalityType
<1>5. allowance[th] \in Nat
  BY DEF CopilotInv, CopilotTypes
<1> QED
  BY <1>1, <1>4, <1>5

\* A step that goes forward keeps the invariant when what it adds is good.
LEMMA Keeps ==
    ASSUME CopilotInv, CopilotTypes', Steps,
           \A s \in Runs : run'[s] = run[s] \/ (Waits(s)' /\ GrantsApproved(s)' /\ FeedInOrder(s)' /\ AskedLast(s)'),
           \A s \in Runs : wire'[s] = wire[s] \/ WireGood(s)',
           \A c \in card' : c \in Runs \X Nat /\ Requested(c[1], c[2]),
           \A p \in posts' : Requested(p.call[1], p.call[2]),
           \A c \in checkpoint' : GoodCheckpoint(c),
           Written(grading)',
           CapKept' \/ (allowance' = allowance /\ \A s \in Runs : Last(s)' = Last(s))
    PROVE  CopilotInv'
<1>1. ASSUME NEW s \in Runs PROVE Waits(s)' /\ GrantsApproved(s)' /\ FeedInOrder(s)' /\ AskedLast(s)'
  <2>1. CASE run'[s] = run[s]
    <3>0. /\ Waits(s) /\ GrantsApproved(s) /\ FeedInOrder(s) /\ AskedLast(s)
          /\ run[s] \in RunRecords /\ Last(s)' = Last(s) /\ \A k : CallOf(s, k)' = CallOf(s, k)
      BY <2>1 DEF CopilotInv, CopilotTypes, Last, CallOf
    <3>1. Waits(s)'
      <4>1. PICK at \in Nat : at = run[s].at
        BY <3>0 DEF RunRecords
      <4>2. (Requested(s, at) => Requested(s, at)') /\ (Approved(s, at) => Approved(s, at)')
        BY RequestedStays DEF Steps, PostsForward
      <4>3. run'[s].at = at /\ run'[s] = run[s]
        BY <2>1, <4>1
      <4>4. run[s].phase = "waiting" => Requested(s, at) /\ (run[s].outcome = "approve" => Approved(s, at))
        BY <3>0, <4>1 DEF Waits
      <4>5. /\ run[s].phase = "none" => run[s].calls = <<>> /\ run[s].feed = <<>>
            /\ run[s].pending # 0 => /\ run[s].phase = "waiting" /\ run[s].pending = run[s].at
                                    /\ run[s].outcome = "none"
        BY <3>0 DEF Waits
      <4> QED
        BY <4>2, <4>3, <4>4, <4>5 DEF Waits
    <3>2. GrantsApproved(s)'
      BY <2>1, <3>0 DEF GrantsApproved, Steps, PostsForward
    <3>3. FeedInOrder(s)'
      <4> SUFFICES ASSUME NEW i \in DOMAIN run[s].feed, run[s].feed[i][1] = "approval",
                          NEW k, k = run[s].feed[i][2]
                   PROVE  /\ AskedFor(s, k)'
                          /\ \/ i = 1 /\ (IsWrite(s, k)' => run[s].checkpointed)
                             \/ i > 1 /\ run[s].feed[i - 1] = <<"tool-call", k>>
        BY <2>1 DEF FeedInOrder
      <4>1. /\ AskedFor(s, k)
            /\ \/ i = 1 /\ (IsWrite(s, k) => run[s].checkpointed)
               \/ i > 1 /\ run[s].feed[i - 1] = <<"tool-call", k>>
        BY <3>0 DEF FeedInOrder
      <4>2. k \in Nat /\ k \in 1 .. Last(s)
        BY <4>1 DEF AskedFor
      <4> QED
        BY <4>1, <4>2, RequestedStays
    <3>4. AskedLast(s)'
      BY <2>1, <3>0 DEF AskedLast, Undecided
    <3> QED
      BY <3>1, <3>2, <3>3, <3>4
  <2> QED
    BY <2>1
<1>2. ASSUME NEW s \in Runs PROVE WireGood(s)'
  <2>1. CASE wire'[s] = wire[s]
    <3> SUFFICES ASSUME NEW i \in DOMAIN wire[s] PROVE GoodFrame(s, wire[s][i])'
      BY <2>1 DEF WireGood
    <3>1. PICK frame \in Frames : frame = wire[s][i]
      BY DEF CopilotInv, CopilotTypes
    <3>2. GoodFrame(s, frame)
      BY <3>1 DEF CopilotInv, WireGood
    <3>3. GoodFrame(s, frame)' /\ frame = wire'[s][i]
      BY <2>1, <3>1, <3>2, WrittenStays DEF CopilotInv
    <3> QED
      BY <2>1, <3>3
  <2> QED
    BY <2>1
<1>3. CardAsked'
  BY RequestedStays DEF CardAsked
<1>4. PostsAsked'
  <2> SUFFICES ASSUME NEW p \in posts' PROVE Requested(p.call[1], p.call[2])'
    BY DEF PostsAsked
  <2>1. Requested(p.call[1], p.call[2]) /\ p.call[1] \in Runs /\ p.call[2] \in Nat
    BY DEF CopilotTypes
  <2> QED
    BY <2>1, RequestedStays
<1>5. CheckpointsGood'
  BY WrittenStays DEF CheckpointsGood, CopilotInv
<1>6. CapKept'
  BY CapStays
<1> QED
  BY <1>1, <1>2, <1>3, <1>4, <1>5, <1>6 DEF CopilotInv

----------------------------------------------------------------------------
\* Where the turns that a step leaves alone, or only takes on a little, stand.

\* A turn that stays goes forward.
LEMMA StayForward ==
    ASSUME NEW s \in Runs, run'[s] = run[s]
    PROVE  Forward(s) /\ Last(s)' = Last(s)
<1>1. Last(s)' = Last(s) /\ \A k : CallOf(s, k)' = CallOf(s, k)
  BY DEF Last, CallOf
<1> QED
  BY <1>1 DEF Forward, Same

\* So does one whose calls stay, and its grants stay approved.
LEMMA CallsStay ==
    ASSUME CopilotInv, PostsForward, NEW s \in Runs, run'[s].calls = run[s].calls,
           run[s].phase \in {"ended", "lost"} => run'[s].phase \in {"ended", "lost"},
           run[s].checkpointed => run'[s].checkpointed \/ run'[s].phase \in {"ended", "lost"},
           run'[s].phase = "snapshot" => run[s].phase = "snapshot" \/ ~run[s].checkpointed,
           run[s].calls # <<>> => Same(s)
    PROVE  Forward(s) /\ GrantsApproved(s)' /\ Last(s)' = Last(s)
<1>1. Last(s)' = Last(s) /\ \A k : CallOf(s, k)' = CallOf(s, k)
  BY DEF Last, CallOf
<1>2. Forward(s)
  BY <1>1 DEF Forward
<1>3. GrantsApproved(s)'
  BY <1>1 DEF GrantsApproved, PostsForward, CopilotInv
<1> QED
  BY <1>1, <1>2, <1>3

\* Saying nothing leaves the teacher's words as they are.
LEMMA SilentPosts ==
    ASSUME UNCHANGED posts
    PROVE  PostsForward
BY DEF PostsForward, Approved

\* One frame more on a stream.
LEMMA EmitOne ==
    ASSUME CopilotInv, Steps, NEW r \in Runs, NEW frame \in Frames, GoodFrame(r, frame),
           Emit(r, <<frame>>)
    PROVE  /\ wire' \in [Runs -> Seq(Frames)]
           /\ \A s \in Runs : wire'[s] = wire[s] \/ WireGood(s)'
<1>1. wire \in [Runs -> Seq(Frames)] /\ wire[r] \in Seq(Frames)
  BY DEF CopilotInv, CopilotTypes
<1>2. wire[r] \o <<frame>> \in Seq(Frames)
  BY <1>1
<1>3. wire' \in [Runs -> Seq(Frames)]
  BY <1>1, <1>2 DEF Emit
<1>4. ASSUME NEW i \in DOMAIN wire'[r]
      PROVE  \E f \in Frames : f = wire'[r][i] /\ GoodFrame(r, f)'
  <2>1. wire'[r] = wire[r] \o <<frame>>
    BY <1>1 DEF Emit
  <2>2. PICK f \in Frames : f = wire'[r][i]
    BY <1>3
  <2>3. GoodFrame(r, f)
    <3>1. CASE i \in DOMAIN wire[r]
      BY <1>1, <2>1, <2>2, <3>1 DEF CopilotInv, WireGood
    <3>2. CASE i \notin DOMAIN wire[r]
      <4>1. f = frame
        BY <1>1, <2>1, <2>2, <3>2
      <4> QED
        BY <4>1
    <3> QED
      BY <3>1, <3>2
  <2>4. GoodFrame(r, f)'
    BY <2>3, WrittenStays DEF CopilotInv
  <2> QED
    BY <2>2, <2>4
<1>5. WireGood(r)'
  BY <1>4 DEF WireGood
<1>6. \A s \in Runs : s # r => wire'[s] = wire[s]
  BY <1>1 DEF Emit
<1> QED
  BY <1>3, <1>5, <1>6

\* The first chunk of a feed is read.
LEMMA FeedTail ==
    ASSUME CopilotInv, PostsForward, NEW r \in Runs,
           run[r].feed # <<>>, run'[r].feed = Tail(run[r].feed), run'[r].calls = run[r].calls,
           run[r].checkpointed => run'[r].checkpointed,
           Head(run[r].feed)[1] = "tool-call" =>
               (IsWrite(r, Head(run[r].feed)[2]) => run'[r].checkpointed)
    PROVE  FeedInOrder(r)'
<1>1. Last(r)' = Last(r) /\ \A k : CallOf(r, k)' = CallOf(r, k)
  BY DEF Last, CallOf
<1>2. run[r].feed \in Seq(Chunks)
  BY DEF CopilotInv, CopilotTypes, RunRecords
<1>3. ASSUME NEW k \in Nat PROVE (AskedFor(r, k) => AskedFor(r, k)') /\ (IsWrite(r, k)' <=> IsWrite(r, k))
  BY <1>1 DEF AskedFor, IsWrite, PostsForward
<1>4. SUFFICES ASSUME NEW i \in DOMAIN run'[r].feed, run'[r].feed[i][1] = "approval",
                      NEW k, k = run'[r].feed[i][2]
               PROVE  /\ AskedFor(r, k)'
                      /\ \/ i = 1 /\ (IsWrite(r, k)' => run'[r].checkpointed)
                         \/ i > 1 /\ run'[r].feed[i - 1] = <<"tool-call", k>>
  BY DEF FeedInOrder
<1>5. /\ i \in Nat /\ i >= 1 /\ i + 1 \in DOMAIN run[r].feed
      /\ run[r].feed[i + 1] = run'[r].feed[i]
      /\ i > 1 => run'[r].feed[i - 1] = run[r].feed[i]
      /\ Head(run[r].feed) = run[r].feed[1]
  BY <1>2
<1>6. AskedFor(r, k) /\ run[r].feed[i] = <<"tool-call", k>>
  BY <1>4, <1>5 DEF CopilotInv, FeedInOrder
<1>7. k \in Nat
  BY <1>6 DEF AskedFor
<1>8. CASE i = 1
  <2>1. Head(run[r].feed) = <<"tool-call", k>>
    BY <1>5, <1>6, <1>8
  <2> QED
    BY <1>3, <1>6, <1>7, <1>8, <2>1
<1>9. CASE i > 1
  BY <1>3, <1>5, <1>6, <1>7, <1>9
<1> QED
  BY <1>5, <1>8, <1>9

\* As long as its calls and their decisions stay and it does not begin to
\* wait, a turn asks about its last call.
LEMMA AskedStays ==
    ASSUME CopilotInv, NEW r \in Runs, run'[r].calls = run[r].calls,
           run'[r].decisions = run[r].decisions, run'[r].at = run[r].at,
           run'[r].phase = run[r].phase \/ (run'[r].phase # "waiting" /\ run[r].phase # "waiting"),
           \/ run'[r].feed = run[r].feed \/ run'[r].feed = <<>>
           \/ run[r].feed # <<>> /\ run'[r].feed = Tail(run[r].feed)
    PROVE  AskedLast(r)'
<1>1. /\ AskedLast(r) /\ run[r].feed \in Seq(Chunks)
      /\ Last(r)' = Last(r) /\ \A k : CallOf(r, k)' = CallOf(r, k)
  BY DEF CopilotInv, CopilotTypes, RunRecords, Last, CallOf
<1>2. Undecided(r)' <=> Undecided(r)
  BY <1>1 DEF Undecided
<1>3. ASSUME NEW i \in DOMAIN run'[r].feed, run'[r].feed[i][1] = "approval"
      PROVE  /\ i = Len(run'[r].feed) /\ run'[r].feed[i][2] = Last(r)
             /\ Undecided(r) /\ run[r].phase # "waiting"
  <2>1. CASE run'[r].feed = run[r].feed
    BY <1>1, <1>3, <2>1 DEF AskedLast
  <2>2. CASE run'[r].feed = <<>>
    BY <1>3, <2>2
  <2>3. CASE run[r].feed # <<>> /\ run'[r].feed = Tail(run[r].feed)
    <3>1. /\ i \in Nat /\ i + 1 \in DOMAIN run[r].feed /\ run[r].feed[i + 1] = run'[r].feed[i]
          /\ Len(run[r].feed) \in Nat /\ Len(run'[r].feed) = Len(run[r].feed) - 1
      BY <1>1, <2>3
    <3>2. i + 1 = Len(run[r].feed) /\ run'[r].feed[i][2] = Last(r) /\ Undecided(r) /\ run[r].phase # "waiting"
      BY <1>1, <1>3, <3>1 DEF AskedLast
    <3> QED
      BY <3>1, <3>2
  <2> QED
    BY <2>1, <2>2, <2>3
<1>4. run'[r].phase = "waiting" => run'[r].at = Last(r) /\ Undecided(r)
  BY <1>1 DEF AskedLast
<1> QED
  BY <1>1, <1>2, <1>3, <1>4 DEF AskedLast

\* While the last call is decided about, no turn asks about it.
LEMMA NothingAsked ==
    ASSUME CopilotInv, NEW r \in Runs, ~Undecided(r)
    PROVE  /\ run[r].phase # "waiting"
           /\ \A i \in DOMAIN run[r].feed : run[r].feed[i][1] # "approval"
BY DEF CopilotInv, AskedLast

----------------------------------------------------------------------------
\* The steps of the server.

\* The selection stays one that was let go or approved.
LEMMA GradingStays ==
    ASSUME CopilotInv, Steps, grading' = grading
    PROVE  Written(grading)'
<1>1. PICK g : g = grading
  OBVIOUS
<1>2. Written(g)'
  BY <1>1, WrittenStays DEF CopilotInv
<1> QED
  BY <1>1, <1>2

\* A step of one turn that says nothing to the browser's store.
LEMMA TurnStep ==
    ASSUME CopilotInv, UNCHANGED storeVars, NEW r \in Runs,
           run' \in [Runs -> RunRecords], \A s \in Runs : s # r => run'[s] = run[s],
           wire' \in [Runs -> Seq(Frames)], \A s \in Runs : wire'[s] = wire[s] \/ WireGood(s)',
           allowance' \in [Threads -> Nat], grading' = grading \/ Written(grading)',
           Forward(r), Waits(r)', GrantsApproved(r)', FeedInOrder(r)', AskedLast(r)',
           CapKept' \/ (allowance' = allowance /\ Last(r)' = Last(r))
    PROVE  CopilotInv'
<1>1. posts' = posts /\ card' = card /\ checkpoint' = checkpoint /\ thread' = thread
  BY DEF storeVars
<1>2. Steps
  BY <1>1, SilentPosts, StayForward DEF Steps
<1>3. CopilotTypes'
  BY <1>1 DEF CopilotInv, CopilotTypes
<1>4. Written(grading)'
  BY <1>2, GradingStays
<1>5. CapKept' \/ (allowance' = allowance /\ \A s \in Runs : Last(s)' = Last(s))
  BY StayForward
<1> QED
  BY <1>1, <1>2, <1>3, <1>4, <1>5, Keeps DEF CopilotInv, CardAsked, PostsAsked, CheckpointsGood

\* What the server steps have in common.
LEMMA ServerFacts ==
    ASSUME CopilotInv, UNCHANGED storeVars, NEW r \in Runs
    PROVE  /\ PostsForward /\ run \in [Runs -> RunRecords] /\ run[r] \in RunRecords
           /\ Written(grading) /\ wire \in [Runs -> Seq(Frames)] /\ allowance \in [Threads -> Nat]
           /\ Waits(r) /\ GrantsApproved(r) /\ FeedInOrder(r) /\ AskedLast(r)
<1>1. PostsForward
  BY SilentPosts DEF storeVars
<1> QED
  BY <1>1 DEF CopilotInv, CopilotTypes

\* runChat reads the chunk of a call; for the first grading write it turns to
\* the checkpoint.
LEMMA ReadToolCallKeeps ==
    ASSUME CopilotInv, UNCHANGED storeVars, NEW r \in Runs, ReadToolCall(r)
    PROVE  CopilotInv'
<1> DEFINE k == Head(run[r].feed)[2]
<1>1. /\ PostsForward /\ run \in [Runs -> RunRecords] /\ run[r] \in RunRecords
      /\ wire \in [Runs -> Seq(Frames)] /\ allowance \in [Threads -> Nat]
      /\ Waits(r) /\ GrantsApproved(r) /\ FeedInOrder(r) /\ AskedLast(r)
  BY ServerFacts
<1>2. /\ run[r].phase = "reading" /\ run[r].feed # <<>> /\ Tail(run[r].feed) \in Seq(Chunks)
      /\ UNCHANGED <<wire, allowance, grading>>
  BY <1>1 DEF ReadToolCall, Reading, RunRecords
<1>3. /\ run' \in [Runs -> RunRecords] /\ \A s \in Runs : s # r => run'[s] = run[s]
      /\ run'[r].feed = Tail(run[r].feed) /\ run'[r].calls = run[r].calls
      /\ run'[r].pending = run[r].pending /\ run'[r].mode = run[r].mode /\ run'[r].thread = run[r].thread
      /\ run'[r].decisions = run[r].decisions /\ run'[r].at = run[r].at
      /\ \/ run'[r].phase = "reading" /\ run'[r].checkpointed = run[r].checkpointed /\ ~NeedsCheckpoint(r, k)
         \/ run'[r].phase = "snapshot" /\ run'[r].checkpointed /\ ~run[r].checkpointed
  <2>1. CASE NeedsCheckpoint(r, k)
    <3>1. run' = [run EXCEPT ![r] = [run[r] EXCEPT !.feed = Tail(run[r].feed), !.checkpointed = TRUE,
                                                   !.phase = "snapshot"]]
      BY <1>1, <2>1 DEF ReadToolCall
    <3>2. ~run[r].checkpointed
      BY <2>1 DEF NeedsCheckpoint
    <3> QED
      BY <1>1, <1>2, <3>1, <3>2 DEF RunRecords, Phases
  <2>2. CASE ~NeedsCheckpoint(r, k)
    <3>1. run' = [run EXCEPT ![r] = [run[r] EXCEPT !.feed = Tail(run[r].feed)]]
      BY <1>1, <2>2 DEF ReadToolCall
    <3> QED
      BY <1>1, <1>2, <2>2, <3>1 DEF RunRecords
  <2> QED
    BY <2>1, <2>2
<1>4. IsWrite(r, k) => run'[r].checkpointed
  BY <1>3 DEF NeedsCheckpoint, IsWrite
<1>5. FeedInOrder(r)'
  BY <1>1, <1>2, <1>3, <1>4, FeedTail
<1>6. Forward(r) /\ GrantsApproved(r)' /\ Last(r)' = Last(r)
  BY <1>1, <1>2, <1>3, CallsStay DEF Same
<1>7. Waits(r)'
  BY <1>1, <1>2, <1>3 DEF Waits
<1>8. AskedLast(r)'
  BY <1>1, <1>2, <1>3, AskedStays
<1> QED
  BY <1>1, <1>2, <1>3, <1>5, <1>6, <1>7, <1>8, TurnStep

\* Between the turn to the checkpoint and its frame nothing of the turn lands
\* that the teacher was asked for.
LEMMA TakeSnapshotKeeps ==
    ASSUME CopilotInv, UNCHANGED storeVars, NEW r \in Runs, TakeSnapshot(r)
    PROVE  CopilotInv'
<1>1. /\ PostsForward /\ run \in [Runs -> RunRecords] /\ run[r] \in RunRecords /\ Written(grading)
      /\ wire \in [Runs -> Seq(Frames)] /\ allowance \in [Threads -> Nat]
      /\ Waits(r) /\ GrantsApproved(r) /\ FeedInOrder(r) /\ AskedLast(r)
  BY ServerFacts
<1>2. /\ run[r].phase = "snapshot" /\ run' = [run EXCEPT ![r] = [run[r] EXCEPT !.phase = "reading"]]
      /\ UNCHANGED <<allowance, grading>>
  BY <1>1 DEF TakeSnapshot
<1>3. /\ run' \in [Runs -> RunRecords] /\ \A s \in Runs : s # r => run'[s] = run[s]
      /\ run'[r].feed = run[r].feed /\ run'[r].calls = run[r].calls /\ run'[r].pending = run[r].pending
      /\ run'[r].mode = run[r].mode /\ run'[r].thread = run[r].thread
      /\ run'[r].decisions = run[r].decisions /\ run'[r].at = run[r].at
      /\ run'[r].phase = "reading" /\ run'[r].checkpointed = run[r].checkpointed
  BY <1>1, <1>2 DEF RunRecords, Phases
<1>4. PICK c : c = <<r, grading>>
  OBVIOUS
<1>5. GoodCheckpoint(c)
  <2>1. ASSUME grading[1] = r PROVE \E k \in 1 .. Last(r) : LetGo(r, k)
    <3>1. /\ grading[2] \in 1 .. Last(r) /\ IsWrite(r, grading[2])
          /\ LetGo(r, grading[2]) \/ Approved(r, grading[2])
      BY <1>1, <2>1 DEF Written
    <3>2. ~Approved(r, grading[2])
      <4>1. ~Requested(r, grading[2])
        BY <1>2, <3>1 DEF Requested
      <4> QED
        BY <4>1 DEF CopilotInv, PostsAsked, Approved
    <3> QED
      BY <3>1, <3>2
  <2>2. grading \in Nat \X Nat
    BY <1>1 DEF Written
  <2> QED
    BY <1>1, <1>4, <2>1, <2>2 DEF GoodCheckpoint
<1>6. PICK frame \in Frames : frame = <<"checkpoint", c>>
  BY <1>5 DEF Frames, GoodCheckpoint
<1>7. GoodFrame(r, frame) /\ Emit(r, <<frame>>)
  BY <1>4, <1>5, <1>6 DEF GoodFrame, TakeSnapshot
<1>8. Forward(r) /\ GrantsApproved(r)' /\ Last(r)' = Last(r)
  BY <1>1, <1>2, <1>3, CallsStay DEF Same
<1>9. Steps
  BY <1>1, <1>3, <1>8, StayForward DEF Steps
<1>10. FeedInOrder(r)'
  <2>1. Last(r)' = Last(r) /\ \A k : CallOf(r, k)' = CallOf(r, k)
    BY <1>3 DEF Last, CallOf
  <2> QED
    BY <1>1, <1>3, <2>1 DEF FeedInOrder, AskedFor, IsWrite, PostsForward
<1>11. Waits(r)'
  BY <1>1, <1>2, <1>3 DEF Waits
<1>12. /\ wire' \in [Runs -> Seq(Frames)]
       /\ \A s \in Runs : wire'[s] = wire[s] \/ WireGood(s)'
  BY <1>7, <1>9, EmitOne
<1>13. AskedLast(r)'
  BY <1>1, <1>2, <1>3, AskedStays
<1> QED
  BY <1>1, <1>2, <1>3, <1>8, <1>10, <1>11, <1>12, <1>13, TurnStep

\* The chunks that only become frames.
LEMMA ReadOtherKeeps ==
    ASSUME CopilotInv, UNCHANGED storeVars, NEW r \in Runs, ReadOther(r)
    PROVE  CopilotInv'
<1>1. /\ PostsForward /\ run \in [Runs -> RunRecords] /\ run[r] \in RunRecords
      /\ wire \in [Runs -> Seq(Frames)] /\ allowance \in [Threads -> Nat]
      /\ Waits(r) /\ GrantsApproved(r) /\ FeedInOrder(r) /\ AskedLast(r)
  BY ServerFacts
<1>2. /\ run[r].phase = "reading" /\ run[r].feed # <<>>
      /\ Tail(run[r].feed) \in Seq(Chunks) /\ Head(run[r].feed) \in Chunks
      /\ Head(run[r].feed)[1] \in {"tool-result", "error"}
      /\ run' = [run EXCEPT ![r] = [run[r] EXCEPT !.feed = Tail(run[r].feed)]]
      /\ UNCHANGED <<allowance, grading>>
  <2>1. run[r].feed \in Seq(Chunks) /\ run[r].feed # <<>>
    BY <1>1 DEF ReadOther, Reading, RunRecords
  <2>2. Tail(run[r].feed) \in Seq(Chunks) /\ Head(run[r].feed) \in Chunks
    BY <2>1
  <2> QED
    BY <1>1, <2>1, <2>2 DEF ReadOther, Reading
<1>3. /\ run' \in [Runs -> RunRecords] /\ \A s \in Runs : s # r => run'[s] = run[s]
      /\ run'[r].feed = Tail(run[r].feed) /\ run'[r].calls = run[r].calls
      /\ run'[r].pending = run[r].pending /\ run'[r].mode = run[r].mode /\ run'[r].thread = run[r].thread
      /\ run'[r].decisions = run[r].decisions /\ run'[r].at = run[r].at
      /\ run'[r].phase = "reading" /\ run'[r].checkpointed = run[r].checkpointed
  BY <1>1, <1>2 DEF RunRecords
<1>4. FeedInOrder(r)'
  BY <1>1, <1>2, <1>3, FeedTail
<1>5. Forward(r) /\ GrantsApproved(r)' /\ Last(r)' = Last(r)
  BY <1>1, <1>2, <1>3, CallsStay DEF Same
<1>6. Steps
  BY <1>1, <1>3, <1>5, StayForward DEF Steps
<1>7. PICK frame \in Frames : frame = Head(run[r].feed)
  BY <1>2 DEF Chunks, Frames
<1>8. GoodFrame(r, frame) /\ Emit(r, <<frame>>)
  BY <1>2, <1>7 DEF GoodFrame, ReadOther
<1>9. /\ wire' \in [Runs -> Seq(Frames)]
      /\ \A s \in Runs : wire'[s] = wire[s] \/ WireGood(s)'
  BY <1>6, <1>8, EmitOne
<1>10. Waits(r)'
  BY <1>1, <1>2, <1>3 DEF Waits
<1>11. AskedLast(r)'
  BY <1>1, <1>2, <1>3, AskedStays
<1> QED
  BY <1>1, <1>2, <1>3, <1>4, <1>5, <1>9, <1>10, <1>11, TurnStep

\* What is left of a turn when its generator has returned.
LEMMA ReturnRecord ==
    ASSUME CopilotInv, NEW r \in Runs
    PROVE  /\ Return(r) \in RunRecords
           /\ Return(r).phase = "ended" /\ Return(r).feed = <<>> /\ Return(r).calls = run[r].calls
           /\ Return(r).pending = 0
           /\ Return(r).mode = run[r].mode /\ Return(r).thread = run[r].thread
<1>1. run[r] \in RunRecords
  BY DEF CopilotInv, CopilotTypes
<1>2. PICK m \in Modes \cup {"ask"}, th \in Threads, c \in Seq(CallRecords), o \in BOOLEAN, a \in BOOLEAN :
         m = run[r].mode /\ th = run[r].thread /\ c = run[r].calls /\ o = run[r].over /\ a = run[r].aborted
  BY <1>1 DEF RunRecords
<1>3. PICK f \in BOOLEAN : f = FALSE
  OBVIOUS
<1>4. NoRun = [phase |-> "none", mode |-> "ask", thread |-> CHOOSE t \in Threads : TRUE,
               feed |-> <<>>, calls |-> <<>>, over |-> f, decisions |-> [t \in Tools |-> "none"],
               pending |-> 0, outcome |-> "none", aborted |-> f, checkpointed |-> f, at |-> 0]
  BY <1>3, Zenon DEF NoRun
<1>5. Return(r) = [phase |-> "ended", mode |-> m, thread |-> th, feed |-> <<>>, calls |-> c, over |-> o,
                   decisions |-> [t \in Tools |-> "none"], pending |-> 0, outcome |-> "none",
                   aborted |-> a, checkpointed |-> f, at |-> 0]
  <2>1. Return(r) = [NoRun EXCEPT !.phase = "ended", !.mode = m, !.thread = th, !.calls = c, !.over = o,
                                  !.aborted = a]
    BY <1>2, Zenon DEF Return
  <2> QED
    BY <1>4, <2>1
<1> QED
  BY <1>2, <1>5 DEF RunRecords, Phases

\* The generator returns.
LEMMA ReturnKeeps ==
    ASSUME CopilotInv, UNCHANGED storeVars, NEW r \in Runs,
           run[r].phase # "lost", run' = [run EXCEPT ![r] = Return(r)],
           wire' = wire \/ Emit(r, <<<<"done">>>>), UNCHANGED <<allowance, grading>>
    PROVE  CopilotInv'
<1>1. /\ PostsForward /\ run \in [Runs -> RunRecords] /\ run[r] \in RunRecords
      /\ wire \in [Runs -> Seq(Frames)] /\ allowance \in [Threads -> Nat]
  BY ServerFacts
<1>2. PICK v \in RunRecords : v = Return(r)
  BY ReturnRecord
<1>3. /\ v.phase = "ended" /\ v.feed = <<>> /\ v.calls = run[r].calls /\ v.pending = 0
      /\ v.mode = run[r].mode /\ v.thread = run[r].thread
      /\ run' = [run EXCEPT ![r] = v]
  BY <1>2, ReturnRecord
<1>4. /\ run' \in [Runs -> RunRecords] /\ \A s \in Runs : s # r => run'[s] = run[s]
      /\ run'[r].phase = "ended" /\ run'[r].feed = <<>> /\ run'[r].calls = run[r].calls
      /\ run'[r].pending = 0 /\ run'[r].mode = run[r].mode /\ run'[r].thread = run[r].thread
  BY <1>1, <1>3
<1>5. Forward(r) /\ GrantsApproved(r)' /\ Last(r)' = Last(r)
  BY <1>1, <1>4, CallsStay DEF Same
<1>6. Waits(r)' /\ FeedInOrder(r)' /\ AskedLast(r)'
  BY <1>4 DEF Waits, FeedInOrder, AskedLast
<1>7. Steps
  BY <1>1, <1>4, <1>5, StayForward DEF Steps
<1>8. /\ wire' \in [Runs -> Seq(Frames)]
      /\ \A s \in Runs : wire'[s] = wire[s] \/ WireGood(s)'
  <2>1. CASE wire' = wire
    BY <1>1, <2>1
  <2>2. CASE Emit(r, <<<<"done">>>>)
    <3>1. PICK frame \in Frames : frame = <<"done">>
      BY DEF Frames
    <3>2. GoodFrame(r, frame)
      BY <3>1 DEF GoodFrame
    <3> QED
      BY <1>7, <2>2, <3>1, <3>2, EmitOne
  <2> QED
    BY <2>1, <2>2
<1> QED
  BY <1>1, <1>4, <1>5, <1>6, <1>8, TurnStep

\* The teacher is asked: the chunk of the call was read before, so a write
\* has its checkpoint.
LEMMA RequestApprovalKeeps ==
    ASSUME CopilotInv, UNCHANGED storeVars, NEW r \in Runs, RequestApproval(r)
    PROVE  CopilotInv'
<1>1. /\ PostsForward /\ run \in [Runs -> RunRecords] /\ run[r] \in RunRecords
      /\ wire \in [Runs -> Seq(Frames)] /\ allowance \in [Threads -> Nat]
      /\ Waits(r) /\ GrantsApproved(r) /\ FeedInOrder(r) /\ AskedLast(r)
  BY ServerFacts
<1>2. /\ run[r].phase = "reading" /\ run[r].feed # <<>> /\ run[r].feed \in Seq(Chunks)
      /\ Tail(run[r].feed) \in Seq(Chunks)
      /\ Head(run[r].feed)[1] = "approval" /\ Head(run[r].feed) = run[r].feed[1]
      /\ 1 \in DOMAIN run[r].feed
      /\ UNCHANGED <<allowance, grading>>
  <2>1. run[r].feed \in Seq(Chunks) /\ run[r].feed # <<>>
    BY <1>1 DEF RequestApproval, Reading, RunRecords
  <2> QED
    BY <2>1 DEF RequestApproval, Reading
<1>3. PICK k : k = Head(run[r].feed)[2]
  OBVIOUS
<1>4. AskedFor(r, k) /\ (IsWrite(r, k) => run[r].checkpointed) /\ k \in Nat
  <2>1. AskedFor(r, k) /\ (IsWrite(r, k) => run[r].checkpointed)
    BY <1>1, <1>2, <1>3 DEF FeedInOrder
  <2> QED
    BY <2>1 DEF AskedFor
<1>5. Requested(r, k)
  BY <1>2, <1>4 DEF Requested
<1>6. run' = [run EXCEPT ![r] = [run[r] EXCEPT !.feed = Tail(run[r].feed), !.phase = "waiting",
                                               !.pending = k, !.outcome = "none", !.at = k]]
  BY <1>1, <1>3 DEF RequestApproval
<1>7. /\ run' \in [Runs -> RunRecords] /\ \A s \in Runs : s # r => run'[s] = run[s]
      /\ run'[r].feed = Tail(run[r].feed) /\ run'[r].calls = run[r].calls
      /\ run'[r].mode = run[r].mode /\ run'[r].thread = run[r].thread
      /\ run'[r].decisions = run[r].decisions
      /\ run'[r].pending = k /\ run'[r].at = k /\ run'[r].outcome = "none"
      /\ run'[r].phase = "waiting" /\ run'[r].checkpointed = run[r].checkpointed
  BY <1>1, <1>2, <1>4, <1>6 DEF RunRecords, Phases
<1>8. FeedInOrder(r)'
  BY <1>1, <1>2, <1>7, FeedTail
<1>9. Forward(r) /\ GrantsApproved(r)' /\ Last(r)' = Last(r)
  BY <1>1, <1>2, <1>7, CallsStay DEF Same
<1>10. Steps
  BY <1>1, <1>7, <1>9, StayForward DEF Steps
<1>11. PICK m \in {"ask", "blocked"} : m = Recorded(r, k)
  BY DEF Recorded
<1>12. PICK frame \in Frames : frame = <<"approval-request", k, m>>
  BY <1>4, <1>11 DEF Frames
<1>13. GoodFrame(r, frame) /\ Emit(r, <<frame>>)
  BY <1>3, <1>5, <1>11, <1>12 DEF GoodFrame, RequestApproval
<1>14. /\ wire' \in [Runs -> Seq(Frames)]
       /\ \A s \in Runs : wire'[s] = wire[s] \/ WireGood(s)'
  BY <1>10, <1>13, EmitOne
<1>15. Waits(r)'
  <2>1. Requested(r, k)'
    BY <1>4, <1>5, <1>10, RequestedStays
  <2> QED
    BY <1>7, <2>1 DEF Waits
<1>16. AskedLast(r)'
  <2>1. 1 = Len(run[r].feed) /\ k = Last(r) /\ Undecided(r)
    BY <1>1, <1>2, <1>3 DEF AskedLast
  <2>2. DOMAIN run'[r].feed = {}
    <3>1. Len(Tail(run[r].feed)) = 0
      BY <1>2, <2>1
    <3>2. PICK rest \in Seq(Chunks) : rest = Tail(run[r].feed)
      BY <1>2
    <3>3. Len(rest) = 0
      BY <3>1, <3>2
    <3>4. DOMAIN rest = {}
      BY <3>3
    <3> QED
      BY <1>7, <3>2, <3>4
  <2>3. Last(r)' = Last(r) /\ Undecided(r)'
    BY <1>7, <2>1 DEF Last, CallOf, Undecided
  <2> QED
    BY <1>7, <2>1, <2>2, <2>3 DEF AskedLast
<1> QED
  BY <1>1, <1>2, <1>7, <1>8, <1>9, <1>14, <1>15, <1>16, TurnStep

\* One call of a turn settles.
LEMMA CallSettles ==
    ASSUME CopilotInv, PostsForward, NEW r \in Runs, NEW k \in 1 .. Last(r),
           NEW w \in {"auto", "ask", "blocked", "granted", "refused", "ran"},
           run'[r].calls = [run[r].calls EXCEPT ![k] = [run[r].calls[k] EXCEPT !.fate = w]],
           w \in {"granted", "ran"} => CallOf(r, k).fate \in {"auto", "granted", "ran"} \/ Approved(r, k),
           CallOf(r, k).fate \in {"auto", "ran"} => w \in {"auto", "ran"} \/ Approved(r, k),
           w = "granted" => Approved(r, k), w # "auto",
           run'[r].phase = run[r].phase \/ (run[r].phase = "waiting" /\ run'[r].phase = "reading"),
           run'[r].checkpointed = run[r].checkpointed,
           run'[r].mode = run[r].mode, run'[r].thread = run[r].thread
    PROVE  Forward(r) /\ GrantsApproved(r)' /\ Last(r)' = Last(r) /\ run'[r].calls \in Seq(CallRecords)
<1>1. /\ run[r].calls \in Seq(CallRecords) /\ k \in DOMAIN run[r].calls /\ run[r].calls[k] \in CallRecords
      /\ GrantsApproved(r) /\ run[r].phase \in Phases
  BY DEF CopilotInv, CopilotTypes, RunRecords, Last
<1>2. [run[r].calls[k] EXCEPT !.fate = w] \in CallRecords
  BY <1>1 DEF CallRecords
<1>3. run'[r].calls \in Seq(CallRecords) /\ Len(run'[r].calls) = Len(run[r].calls)
  BY <1>1, <1>2
<1>4. Last(r)' = Last(r)
  BY <1>3 DEF Last
<1>5. ASSUME NEW j \in 1 .. Last(r), j # k PROVE CallOf(r, j)' = CallOf(r, j)
  BY <1>1, <1>5 DEF Last, CallOf
<1>6. CallOf(r, k)' = [run[r].calls[k] EXCEPT !.fate = w]
  BY <1>1 DEF CallOf
<1>7. CallOf(r, k)'.fate = w /\ CallOf(r, k)'.tool = CallOf(r, k).tool
  BY <1>1, <1>6 DEF CallRecords, CallOf
<1>8. Forward(r)
  <2>1. ASSUME NEW j \in 1 .. Last(r)
        PROVE  /\ CallOf(r, j)'.tool = CallOf(r, j).tool
               /\ CallOf(r, j)'.fate \in {"auto", "granted", "ran"} =>
                     CallOf(r, j).fate \in {"auto", "granted", "ran"} \/ Approved(r, j)
               /\ CallOf(r, j)'.fate = "auto" => CallOf(r, j).fate = "auto"
               /\ CallOf(r, j).fate \in {"auto", "ran"} => CallOf(r, j)'.fate \in {"auto", "ran"} \/ Approved(r, j)
    <3>1. CASE j = k
      BY <1>7, <3>1
    <3>2. CASE j # k
      BY <1>5, <3>2
    <3> QED
      BY <3>1, <3>2
  <2> QED
    BY <1>4, <2>1 DEF Forward, Same
<1>9. GrantsApproved(r)'
  <2> SUFFICES ASSUME NEW j \in 1 .. Last(r), CallOf(r, j)'.fate = "granted" PROVE Approved(r, j)'
    BY <1>4 DEF GrantsApproved
  <2>1. Approved(r, j)
    <3>1. CASE j = k
      BY <1>7, <3>1
    <3>2. CASE j # k
      BY <1>1, <1>5, <3>2 DEF GrantsApproved
    <3> QED
      BY <3>1, <3>2
  <2> QED
    BY <2>1 DEF PostsForward
<1> QED
  BY <1>3, <1>4, <1>8, <1>9

\* Chunks join a feed.
LEMMA FeedGrows ==
    ASSUME CopilotInv, Steps, NEW r \in Runs, NEW more \in Seq(Chunks),
           run'[r].feed = run[r].feed \/ run'[r].feed = run[r].feed \o more,
           run[r].checkpointed => run'[r].checkpointed,
           \A j \in DOMAIN more : more[j][1] = "approval" =>
               AskedFor(r, more[j][2])' /\ j > 1 /\ more[j - 1] = <<"tool-call", more[j][2]>>
    PROVE  FeedInOrder(r)' /\ run'[r].feed \in Seq(Chunks)
<1>1. run[r].feed \in Seq(Chunks) /\ FeedInOrder(r)
  BY DEF CopilotInv, CopilotTypes, RunRecords
<1>2. ASSUME NEW i \in DOMAIN run[r].feed, run[r].feed[i][1] = "approval",
             NEW k, k = run[r].feed[i][2]
      PROVE  /\ AskedFor(r, k)'
             /\ \/ i = 1 /\ (IsWrite(r, k)' => run'[r].checkpointed)
                \/ i > 1 /\ run[r].feed[i - 1] = <<"tool-call", k>>
  <2>1. /\ AskedFor(r, k)
        /\ \/ i = 1 /\ (IsWrite(r, k) => run[r].checkpointed)
           \/ i > 1 /\ run[r].feed[i - 1] = <<"tool-call", k>>
    BY <1>1, <1>2 DEF FeedInOrder
  <2>2. k \in Nat /\ k \in 1 .. Last(r)
    BY <2>1 DEF AskedFor
  <2> QED
    BY <2>1, <2>2, RequestedStays
<1>3. CASE run'[r].feed = run[r].feed
  BY <1>1, <1>2, <1>3 DEF FeedInOrder
<1>4. CASE run'[r].feed = run[r].feed \o more
  <2> DEFINE n == Len(run[r].feed)
  <2>1. n \in Nat /\ run'[r].feed \in Seq(Chunks) /\ Len(run'[r].feed) = n + Len(more)
    BY <1>1, <1>4
  <2>2. ASSUME NEW i \in DOMAIN run'[r].feed, run'[r].feed[i][1] = "approval",
               NEW k, k = run'[r].feed[i][2]
        PROVE  /\ AskedFor(r, k)'
               /\ \/ i = 1 /\ (IsWrite(r, k)' => run'[r].checkpointed)
                  \/ i > 1 /\ run'[r].feed[i - 1] = <<"tool-call", k>>
    <3>1. CASE i <= n
      <4>1. i \in DOMAIN run[r].feed /\ run[r].feed[i] = run'[r].feed[i]
            /\ (i > 1 => run[r].feed[i - 1] = run'[r].feed[i - 1])
        BY <1>1, <1>4, <2>1, <3>1
      <4> QED
        BY <1>2, <2>2, <4>1
    <3>2. CASE i > n
      <4>1. PICK j \in DOMAIN more : i = n + j
        <5>1. i - n \in DOMAIN more /\ i = n + (i - n)
          BY <1>1, <1>4, <2>1, <3>2
        <5> QED
          BY <5>1
      <4>2. more[j] = run'[r].feed[i] /\ (j > 1 => more[j - 1] = run'[r].feed[i - 1])
        <5>0. Len(more) \in Nat /\ DOMAIN more = 1 .. Len(more)
          OBVIOUS
        <5>1. ASSUME NEW h \in 1 .. Len(more) PROVE (run[r].feed \o more)[n + h] = more[h]
          BY <1>1, <2>1, <5>0, ConcatProperties
        <5>2. j > 1 => j - 1 \in 1 .. Len(more) /\ i - 1 = n + (j - 1)
          <6>1. PICK m \in Nat, l \in Nat : m = n /\ l = Len(more)
            BY <2>1, <5>0
          <6>2. j \in 1 .. l /\ i = m + j
            BY <4>1, <5>0, <6>1
          <6>3. j > 1 => j - 1 \in 1 .. l /\ i - 1 = m + (j - 1)
            BY ONLY <6>2, m \in Nat, l \in Nat
          <6> QED
            BY <6>1, <6>3
        <5> QED
          BY <1>4, <4>1, <5>0, <5>1, <5>2
      <4>3. PICK h \in Nat : h = more[j][2]
        BY <2>2, <4>2 DEF Chunks
      <4>4. AskedFor(r, h)' /\ j > 1 /\ more[j - 1] = <<"tool-call", h>>
        BY <2>2, <4>2, <4>3
      <4>5. i > 1
        BY <2>1, <4>1, <4>4
      <4> QED
        BY <2>2, <4>2, <4>3, <4>4, <4>5
    <3> QED
      BY <2>1, <3>1, <3>2
  <2> QED
    BY <2>1, <2>2 DEF FeedInOrder
<1> QED
  BY <1>3, <1>4

\* The awaited answer is there: only an approval lets the call run.
LEMMA DecideKeeps ==
    ASSUME CopilotInv, UNCHANGED storeVars, NEW r \in Runs, Decide(r)
    PROVE  CopilotInv'
<1>1. /\ PostsForward /\ run \in [Runs -> RunRecords] /\ run[r] \in RunRecords
      /\ wire \in [Runs -> Seq(Frames)] /\ allowance \in [Threads -> Nat]
      /\ Waits(r) /\ GrantsApproved(r) /\ FeedInOrder(r) /\ AskedLast(r)
  BY ServerFacts
<1>2. run[r].phase = "waiting" /\ run[r].outcome # "none" /\ UNCHANGED <<allowance, grading>>
  BY DEF Decide
<1>3. PICK at \in Nat : at = run[r].at
  BY <1>1 DEF RunRecords
<1>4. AskedFor(r, at) /\ (run[r].outcome = "approve" => Approved(r, at))
  BY <1>1, <1>2, <1>3 DEF Waits, Requested
<1>5. PICK w \in {"granted", "refused"} : w = IF Effective(r) THEN "granted" ELSE "refused"
  OBVIOUS
<1>6. w = "granted" => Approved(r, at)
  BY <1>4, <1>5 DEF Effective
<1>7. at \in 1 .. Last(r) /\ at \in DOMAIN run[r].calls /\ run[r].calls[at] \in CallRecords
  BY <1>1, <1>4 DEF AskedFor, RunRecords, Last
<1>8. run' = [run EXCEPT ![r] = [run[r] EXCEPT !.phase = "reading", !.outcome = "none",
                  !.calls = [run[r].calls EXCEPT ![at] = [run[r].calls[at] EXCEPT !.fate = w]]]]
  BY <1>1, <1>3, <1>5, <1>7 DEF Decide, RunRecords
<1>9. /\ \A s \in Runs : s # r => run'[s] = run[s]
      /\ run'[r] = [run[r] EXCEPT !.phase = "reading", !.outcome = "none",
                  !.calls = [run[r].calls EXCEPT ![at] = [run[r].calls[at] EXCEPT !.fate = w]]]
  BY <1>1, <1>8
<1>10. /\ run'[r].phase = "reading" /\ run'[r].feed = run[r].feed /\ run'[r].pending = run[r].pending
       /\ run'[r].checkpointed = run[r].checkpointed
       /\ run'[r].mode = run[r].mode /\ run'[r].thread = run[r].thread
       /\ run'[r].calls = [run[r].calls EXCEPT ![at] = [run[r].calls[at] EXCEPT !.fate = w]]
  BY <1>1, <1>9 DEF RunRecords
<1>11. Forward(r) /\ GrantsApproved(r)' /\ Last(r)' = Last(r) /\ run'[r].calls \in Seq(CallRecords)
  <2>1. CallOf(r, at).fate \in {"auto", "ran"} => w \in {"auto", "ran"} \/ Approved(r, at)
    BY <1>4 DEF AskedFor
  <2> QED
    BY <1>1, <1>2, <1>6, <1>7, <1>10, <2>1, CallSettles
<1>12. run' \in [Runs -> RunRecords]
  <2>1. run'[r] \in RunRecords
    BY <1>1, <1>9, <1>10, <1>11 DEF RunRecords, Phases
  <2> QED
    BY <1>1, <1>8, <1>9, <2>1
<1>13. Steps
  BY <1>1, <1>9, <1>11, StayForward DEF Steps
<1>14. FeedInOrder(r)'
  BY <1>10, <1>13, FeedGrows, <<>> \in Seq(Chunks), DOMAIN <<>> = {}
<1>15. Waits(r)'
  BY <1>1, <1>2, <1>10 DEF Waits
<1>16. /\ wire' \in [Runs -> Seq(Frames)]
       /\ \A s \in Runs : wire'[s] = wire[s] \/ WireGood(s)'
  <2>1. CASE run[r].outcome = "expired"
    <3>1. PICK frame \in Frames : frame = <<"tool-result", at>>
      BY DEF Frames
    <3>2. GoodFrame(r, frame) /\ Emit(r, <<frame>>)
      BY <1>3, <2>1, <3>1 DEF GoodFrame, Decide
    <3> QED
      BY <1>13, <3>2, EmitOne
  <2>2. CASE run[r].outcome # "expired"
    <3>1. Emit(r, <<>>)
      BY <2>2 DEF Decide
    <3>2. wire' = wire
      BY <1>1, <3>1 DEF Emit
    <3> QED
      BY <1>1, <3>2
  <2> QED
    BY <2>1, <2>2
<1>17. AskedLast(r)'
  BY <1>1, <1>2, <1>10 DEF AskedLast
<1> QED
  BY <1>1, <1>2, <1>9, <1>11, <1>12, <1>14, <1>15, <1>16, <1>17, TurnStep

----------------------------------------------------------------------------
\* Mastra's steps.

\* A turn that waits goes on waiting.
LEMMA WaitsStay ==
    ASSUME CopilotInv, Steps, NEW r \in Runs, run[r].phase # "none",
           run'[r].phase = run[r].phase, run'[r].pending = run[r].pending,
           run'[r].outcome = run[r].outcome, run'[r].at = run[r].at
    PROVE  Waits(r)'
<1>1. Waits(r) /\ run[r] \in RunRecords
  BY DEF CopilotInv, CopilotTypes
<1>2. PICK at \in Nat : at = run[r].at
  BY <1>1 DEF RunRecords
<1>3. (Requested(r, at) => Requested(r, at)') /\ (Approved(r, at) => Approved(r, at)')
  BY RequestedStays DEF Steps, PostsForward
<1>4. run'[r].at = at
  BY <1>2
<1>5. run[r].phase = "waiting" => Requested(r, at) /\ (run[r].outcome = "approve" => Approved(r, at))
  BY <1>1, <1>2 DEF Waits
<1>6. run[r].pending # 0 => run[r].phase = "waiting" /\ run[r].pending = at /\ run[r].outcome = "none"
  BY <1>1, <1>2 DEF Waits
<1> QED
  BY <1>3, <1>4, <1>5, <1>6 DEF Waits

\* Where nothing is asked, other chunks ask nothing.
LEMMA NoMoreAsked ==
    ASSUME CopilotInv, NEW r \in Runs, ~Undecided(r), NEW more \in Seq(Chunks),
           \A j \in DOMAIN more : more[j][1] # "approval",
           run'[r].feed = run[r].feed \/ run'[r].feed = run[r].feed \o more,
           run'[r].phase = run[r].phase
    PROVE  AskedLast(r)'
<1>1. run[r].phase # "waiting" /\ \A i \in DOMAIN run[r].feed : run[r].feed[i][1] # "approval"
  BY NothingAsked
<1>2. run[r].feed \in Seq(Chunks)
  BY DEF CopilotInv, CopilotTypes, RunRecords
<1>3. ASSUME NEW i \in DOMAIN run'[r].feed PROVE run'[r].feed[i][1] # "approval"
  <2>1. CASE run'[r].feed = run[r].feed
    BY <1>1, <2>1
  <2>2. CASE run'[r].feed = run[r].feed \o more
    <3>1. PICK l \in Nat, m \in Nat : /\ l = Len(run[r].feed) /\ m = Len(more)
                                      /\ DOMAIN run[r].feed = 1 .. l /\ DOMAIN more = 1 .. m
      BY <1>2
    <3>2. i \in 1 .. (l + m)
      BY <1>2, <2>2, <3>1
    <3>3. run'[r].feed[i] = IF i <= l THEN run[r].feed[i] ELSE more[i - l]
      BY <1>2, <2>2, <3>1, <3>2, ConcatProperties
    <3>4. i <= l => i \in 1 .. l
      BY <3>2
    <3>5. ~(i <= l) => i - l \in 1 .. m
      BY <3>1, <3>2
    <3> QED
      BY <1>1, <3>1, <3>3, <3>4, <3>5
  <2> QED
    BY <2>1, <2>2
<1> QED
  BY <1>1, <1>3 DEF AskedLast

\* What a call of the model does to the turn.
LEMMA ModelCallsFacts ==
    ASSUME CopilotInv, NEW r \in Runs, NEW t \in Tools, ModelCalls(r, t)
    PROVE  /\ Resolve(r, t) \in {"auto", "ask", "blocked"} /\ run[r].phase \notin {"none", "lost"}
           /\ \A s \in Runs : s # r => run'[s] = run[s]
           /\ run'[r].calls = Append(run[r].calls, [tool |-> t, fate |-> Resolve(r, t)])
           /\ ~Undecided(r) /\ run'[r].decisions[t] = Resolve(r, t)
           /\ run'[r].phase = run[r].phase /\ run'[r].pending = run[r].pending
           /\ run'[r].mode = run[r].mode /\ run'[r].thread = run[r].thread
           /\ run'[r].outcome = run[r].outcome /\ run'[r].at = run[r].at
           /\ run'[r].checkpointed = run[r].checkpointed
           /\ \E more \in Seq(Chunks) :
                 /\ \/ more = <<<<"tool-call", Last(r) + 1>>>>
                    \/ /\ more = <<<<"tool-call", Last(r) + 1>>, <<"approval", Last(r) + 1>>>>
                       /\ Resolve(r, t) # "auto"
                 /\ run'[r].feed = run[r].feed \/ run'[r].feed = run[r].feed \o more
           /\ run'[r].feed \in Seq(Chunks) => run' \in [Runs -> RunRecords]
<1> DEFINE chunks == <<<<"tool-call", Last(r) + 1>>>> \o
                     IF Resolve(r, t) = "auto" THEN <<>> ELSE <<<<"approval", Last(r) + 1>>>>
           calls == Append(run[r].calls, [tool |-> t, fate |-> Resolve(r, t)])
           decided == [run[r].decisions EXCEPT ![t] = Resolve(r, t)]
           fed == Feed(r, chunks)
<1>1. /\ run \in [Runs -> RunRecords] /\ run[r] \in RunRecords /\ run[r].calls \in Seq(CallRecords)
      /\ Last(r) \in Nat
  BY DEF CopilotInv, CopilotTypes, RunRecords, Last
<1>2. Resolve(r, t) \in {"auto", "ask", "blocked"}
  BY DEF Resolve
<1>3. run' = [run EXCEPT ![r] = [run[r] EXCEPT !.calls = calls, !.decisions = decided, !.feed = fed]]
  BY <1>1 DEF ModelCalls, RunRecords
<1>4. calls \in Seq(CallRecords)
  <2>1. [tool |-> t, fate |-> Resolve(r, t)] \in CallRecords
    BY <1>2 DEF CallRecords
  <2> QED
    BY <1>1, <2>1
<1>5. decided \in [Tools -> {"none", "auto", "ask", "blocked"}]
  BY <1>1, <1>2 DEF RunRecords
<1>6. \/ chunks = <<<<"tool-call", Last(r) + 1>>>>
      \/ chunks = <<<<"tool-call", Last(r) + 1>>, <<"approval", Last(r) + 1>>>> /\ Resolve(r, t) # "auto"
  <2>1. CASE Resolve(r, t) = "auto"
    BY <2>1
  <2>2. CASE Resolve(r, t) # "auto"
    <3>1. PICK a \in Chunks, b \in Chunks : a = <<"tool-call", Last(r) + 1>> /\ b = <<"approval", Last(r) + 1>>
      <4>1. <<"tool-call", Last(r) + 1>> \in Chunks /\ <<"approval", Last(r) + 1>> \in Chunks
        BY <1>1 DEF Chunks
      <4> QED
        BY <4>1
    <3>2. <<a>> \o <<b>> = <<a, b>>
      <4>1. /\ <<a>> \in Seq(Chunks) /\ <<b>> \in Seq(Chunks)
            /\ Len(<<a>>) = 1 /\ Len(<<b>>) = 1 /\ <<a>>[1] = a /\ <<b>>[1] = b
        OBVIOUS
      <4>2. PICK s \in Seq(Chunks), u \in Seq(Chunks) : s = <<a>> /\ u = <<b>>
        BY <4>1
      <4>3. /\ s \o u \in Seq(Chunks) /\ Len(s \o u) = 2 /\ (s \o u)[1] = a /\ (s \o u)[2] = b
        BY <4>1, <4>2, ConcatProperties
      <4>4. PICK su \in Seq(Chunks) : su = s \o u
        BY <4>3
      <4>5. su = <<a, b>>
        <5>1. PICK ab \in Seq(Chunks) : ab = <<a, b>> /\ Len(ab) = 2 /\ ab[1] = a /\ ab[2] = b
          <6>1. <<a, b>> \in Seq(Chunks) /\ Len(<<a, b>>) = 2 /\ <<a, b>>[1] = a /\ <<a, b>>[2] = b
            OBVIOUS
          <6> QED
            BY <6>1
        <5>2. \A i \in 1 .. Len(su) : su[i] = ab[i]
          BY <4>3, <4>4, <5>1
        <5> QED
          BY <4>3, <4>4, <5>1, <5>2, SeqEqual
      <4> QED
        BY <4>2, <4>4, <4>5
    <3>3. chunks = <<a>> \o <<b>>
      BY <2>2, <3>1
    <3> QED
      BY <2>2, <3>1, <3>2, <3>3
  <2> QED
    BY <2>1, <2>2
<1>7. chunks \in Seq(Chunks)
  <2>1. <<"tool-call", Last(r) + 1>> \in Chunks /\ <<"approval", Last(r) + 1>> \in Chunks
    BY <1>1 DEF Chunks
  <2> QED
    BY <1>6, <2>1
<1>8. fed = run[r].feed \/ fed = run[r].feed \o chunks
  BY DEF Feed
<1>9. run[r].phase \notin {"none", "lost"} /\ ~Undecided(r)
  <2>1. run[r].calls # <<>> => CallOf(r, Last(r)).fate \in {"ran", "refused"}
    BY DEF ModelCalls, Thinking
  <2>2. ~Undecided(r)
    BY <2>1 DEF Undecided, Last
  <2> QED
    BY <2>2 DEF ModelCalls, Thinking
<1> HIDE DEF calls, decided, fed, chunks
<1>10. /\ \A s \in Runs : s # r => run'[s] = run[s]
       /\ run'[r] = [run[r] EXCEPT !.calls = calls, !.decisions = decided, !.feed = fed]
  BY <1>1, <1>3
<1>11. /\ run'[r].calls = calls /\ run'[r].phase = run[r].phase /\ run'[r].pending = run[r].pending
       /\ run'[r].mode = run[r].mode /\ run'[r].thread = run[r].thread
       /\ run'[r].outcome = run[r].outcome /\ run'[r].at = run[r].at
       /\ run'[r].checkpointed = run[r].checkpointed /\ run'[r].feed = fed
  BY <1>1, <1>10 DEF RunRecords
<1>12. ASSUME fed \in Seq(Chunks) PROVE run' \in [Runs -> RunRecords]
  <2>1. run'[r] \in RunRecords
    BY <1>1, <1>4, <1>5, <1>10, <1>12 DEF RunRecords
  <2> QED
    BY <1>1, <1>3, <1>10, <2>1
<1>13. run'[r].calls = Append(run[r].calls, [tool |-> t, fate |-> Resolve(r, t)])
  BY <1>11 DEF calls
<1>14. run'[r].decisions[t] = Resolve(r, t)
  <2>1. run'[r].decisions = decided
    BY <1>1, <1>10 DEF RunRecords
  <2> QED
    BY <1>1, <2>1 DEF decided, RunRecords
<1> QED
  BY <1>2, <1>6, <1>7, <1>8, <1>9, <1>10, <1>11, <1>12, <1>13, <1>14

\* A call that the policy lets go spends the allowance of its thread when it
\* counts, and there is some left.
LEMMA ModelCallsCap ==
    ASSUME CopilotInv, Steps, NEW r \in Runs, NEW t \in Tools, ModelCalls(r, t),
           NEW n \in Nat, n = Last(r), Last(r)' = n + 1,
           NEW d \in {"auto", "ask", "blocked"}, d = Resolve(r, t),
           CallOf(r, n + 1)' = [tool |-> t, fate |-> d],
           \A s \in Runs : s # r => run'[s] = run[s],
           run'[r].mode = run[r].mode, run'[r].thread = run[r].thread
    PROVE  CapKept'
<1>1. /\ run[r] \in RunRecords /\ allowance \in [Threads -> Nat] /\ SessionCap \in Nat
      /\ \A s \in Runs : Last(s) \in Nat /\ (s # r => Last(s)' = Last(s))
  BY BoundsAssumption, StayForward DEF CopilotInv, CopilotTypes, RunRecords, Last
<1>2. Spends(r, t) => allowance[run[r].thread] < SessionCap
  BY DEF Spends, Resolve
<1> SUFFICES ASSUME NEW th \in Threads
             PROVE  Cardinality(Counted(th)') <= allowance'[th] /\ allowance'[th] <= SessionCap
  BY DEF CapKept
<1>3. Cardinality(Counted(th)) <= allowance[th] /\ allowance[th] <= SessionCap
  BY DEF CopilotInv, CapKept
<1>4. IsFiniteSet(Counted(th)) /\ Cardinality(Counted(th)) \in Nat
  BY CountedFinite, FS_CardinalityType
<1>5. \A c \in Counted(th)' : c \in Counted(th) \/ c = <<r, n + 1>>
  <2> SUFFICES ASSUME NEW c \in Counted(th)', c \notin Counted(th) PROVE c = <<r, n + 1>>
    OBVIOUS
  <2>1. PICK s \in Runs, k \in 1 .. MaxCalls : c = <<s, k>>
    BY DEF Counted, Calls
  <2>2. k <= Last(s)' /\ k \in Nat /\ k >= 1
    BY <2>1, BoundsAssumption DEF Counted, Unattended, Made
  <2>3. k \notin 1 .. Last(s)
    BY <2>1, CountedOnlyNew
  <2>4. s = r
    BY <1>1, <2>2, <2>3
  <2>5. k = n + 1
    BY <1>1, <2>2, <2>3, <2>4
  <2> QED
    BY <2>1, <2>4, <2>5
<1>6. CASE <<r, n + 1>> \in Counted(th)'
  <2>1. t \in ApprovalTools /\ d = "auto" /\ run[r].mode = "ask" /\ run[r].thread = th
    <3>1. /\ CallOf(r, n + 1)'.tool \in ApprovalTools /\ CallOf(r, n + 1)'.fate \in {"auto", "ran"}
          /\ run'[r].mode = "ask" /\ run'[r].thread = th
      BY <1>6 DEF Counted, Unattended, Fate
    <3> QED
      BY <3>1
  <2>2. Spends(r, t)
    BY <2>1 DEF Spends
  <2>3. allowance'[th] = allowance[th] + 1 /\ allowance[th] < SessionCap
    BY <1>1, <1>2, <2>1, <2>2 DEF ModelCalls
  <2>4. /\ Counted(th)' \subseteq Counted(th) \cup {<<r, n + 1>>}
        /\ IsFiniteSet(Counted(th) \cup {<<r, n + 1>>})
        /\ Cardinality(Counted(th) \cup {<<r, n + 1>>}) <= Cardinality(Counted(th)) + 1
        /\ Cardinality(Counted(th) \cup {<<r, n + 1>>}) \in Nat
    <3>1. Counted(th)' \subseteq Counted(th) \cup {<<r, n + 1>>}
      BY <1>5
    <3>2. /\ IsFiniteSet(Counted(th) \cup {<<r, n + 1>>})
          /\ Cardinality(Counted(th) \cup {<<r, n + 1>>}) = Cardinality(Counted(th))
             \/ Cardinality(Counted(th) \cup {<<r, n + 1>>}) = Cardinality(Counted(th)) + 1
      BY <1>4, FS_AddElement
    <3> QED
      BY <1>4, <3>1, <3>2
  <2>5. Cardinality(Counted(th)') <= Cardinality(Counted(th) \cup {<<r, n + 1>>}) /\ Cardinality(Counted(th)') \in Nat
    BY <2>4, FS_Subset, FS_CardinalityType
  <2>6. allowance[th] \in Nat
    BY <1>1
  <2> QED
    BY <1>1, <1>3, <1>4, <2>3, <2>4, <2>5, <2>6
<1>7. CASE <<r, n + 1>> \notin Counted(th)'
  <2>1. Counted(th)' \subseteq Counted(th)
    BY <1>5, <1>7
  <2>2. Cardinality(Counted(th)') <= Cardinality(Counted(th)) /\ Cardinality(Counted(th)') \in Nat
    BY <1>4, <2>1, FS_Subset, FS_CardinalityType
  <2>3. allowance'[th] = allowance[th] \/ (allowance'[th] = allowance[th] + 1 /\ allowance[th] < SessionCap)
    <3>1. CASE Spends(r, t)
      BY <1>1, <1>2, <3>1 DEF ModelCalls
    <3>2. CASE ~Spends(r, t)
      BY <3>2 DEF ModelCalls
    <3> QED
      BY <3>1, <3>2
  <2>4. allowance[th] \in Nat
    BY <1>1
  <2> QED
    BY <1>1, <1>3, <1>4, <2>2, <2>3, <2>4
<1> QED
  BY <1>6, <1>7

\* A new call is let go by the policy or asked for.
LEMMA ModelCallsKeeps ==
    ASSUME CopilotInv, UNCHANGED storeVars, NEW r \in Runs, NEW t \in Tools, ModelCalls(r, t)
    PROVE  CopilotInv'
<1>1. /\ PostsForward /\ run \in [Runs -> RunRecords] /\ run[r] \in RunRecords
      /\ wire \in [Runs -> Seq(Frames)] /\ allowance \in [Threads -> Nat]
      /\ Waits(r) /\ GrantsApproved(r) /\ FeedInOrder(r) /\ AskedLast(r)
  BY ServerFacts
<1>2. PICK d \in {"auto", "ask", "blocked"} : d = Resolve(r, t)
  BY ModelCallsFacts
<1>3. PICK n \in Nat : n = Last(r) /\ n = Len(run[r].calls) /\ run[r].calls \in Seq(CallRecords)
  <2>1. run[r].calls \in Seq(CallRecords)
    BY <1>1 DEF RunRecords
  <2>2. Len(run[r].calls) \in Nat
    BY <2>1
  <2> QED
    BY <2>1, <2>2 DEF Last
<1>4. /\ run[r].phase # "none" /\ \A s \in Runs : s # r => run'[s] = run[s]
      /\ run'[r].calls = Append(run[r].calls, [tool |-> t, fate |-> d])
      /\ run'[r].phase = run[r].phase /\ run'[r].pending = run[r].pending
      /\ run'[r].outcome = run[r].outcome /\ run'[r].at = run[r].at
      /\ run'[r].checkpointed = run[r].checkpointed
      /\ run'[r].mode = run[r].mode /\ run'[r].thread = run[r].thread
  BY <1>2, ModelCallsFacts
<1>5. PICK more \in Seq(Chunks) :
         /\ \/ more = <<<<"tool-call", n + 1>>>>
            \/ more = <<<<"tool-call", n + 1>>, <<"approval", n + 1>>>> /\ d # "auto"
         /\ run'[r].feed = run[r].feed \/ run'[r].feed = run[r].feed \o more
  <2>1. PICK more \in Seq(Chunks) :
           /\ \/ more = <<<<"tool-call", Last(r) + 1>>>>
              \/ /\ more = <<<<"tool-call", Last(r) + 1>>, <<"approval", Last(r) + 1>>>>
                 /\ Resolve(r, t) # "auto"
           /\ run'[r].feed = run[r].feed \/ run'[r].feed = run[r].feed \o more
    BY ModelCallsFacts
  <2> QED
    BY <1>2, <1>3, <2>1
<1>6. /\ Last(r)' = n + 1 /\ CallOf(r, n + 1)' = [tool |-> t, fate |-> d]
      /\ \A j \in 1 .. n : CallOf(r, j)' = CallOf(r, j)
  <2>1. PICK call \in CallRecords : call = [tool |-> t, fate |-> d]
    BY DEF CallRecords
  <2> QED
    BY <1>3, <1>4, <2>1 DEF Last, CallOf
<1>7. Forward(r)
  BY <1>3, <1>4, <1>6 DEF Forward, Same
<1>8. GrantsApproved(r)'
  <2> SUFFICES ASSUME NEW j \in 1 .. n + 1, CallOf(r, j)'.fate = "granted" PROVE Approved(r, j)'
    BY <1>6 DEF GrantsApproved
  <2>1. j \in 1 .. n
    BY <1>6
  <2>2. CallOf(r, j)' = CallOf(r, j) /\ j \in Nat
    BY <1>6, <2>1
  <2> QED
    BY <1>1, <1>3, <2>1, <2>2 DEF GrantsApproved, PostsForward
<1>9. Steps
  BY <1>1, <1>4, <1>7, StayForward DEF Steps
<1>10. FeedInOrder(r)' /\ run'[r].feed \in Seq(Chunks)
  <2>1. d # "auto" => AskedFor(r, n + 1)'
    BY <1>6 DEF AskedFor
  <2>2. ASSUME NEW j \in DOMAIN more, more[j][1] = "approval"
        PROVE  AskedFor(r, more[j][2])' /\ j > 1 /\ more[j - 1] = <<"tool-call", more[j][2]>>
    <3>1. more = <<<<"tool-call", n + 1>>, <<"approval", n + 1>>>> /\ d # "auto"
      BY <1>5, <2>2
    <3>2. j = 2
      BY <2>2, <3>1
    <3> QED
      BY <2>1, <3>1, <3>2
  <2> QED
    BY <1>4, <1>5, <1>9, <2>2, FeedGrows
<1>11. Waits(r)'
  BY <1>4, <1>9, WaitsStay
<1>12. run' \in [Runs -> RunRecords]
  BY <1>10, ModelCallsFacts
<1>13. allowance' \in [Threads -> Nat] /\ UNCHANGED <<wire, grading>>
  <2>1. run[r].thread \in Threads /\ allowance[run[r].thread] + 1 \in Nat
    BY <1>1 DEF RunRecords
  <2> QED
    BY <1>1, <2>1 DEF ModelCalls
<1>14. CapKept'
  BY <1>2, <1>3, <1>4, <1>6, <1>9, ModelCallsCap
<1>15. AskedLast(r)'
  <2>1. ~Undecided(r) /\ run'[r].decisions[t] = d
    BY <1>2, ModelCallsFacts
  <2>2. run[r].phase # "waiting" /\ \A i \in DOMAIN run[r].feed : run[r].feed[i][1] # "approval"
    BY <2>1, NothingAsked
  <2>3. d # "auto" => Undecided(r)'
    BY <1>6, <2>1 DEF Undecided
  <2>4. run[r].feed \in Seq(Chunks)
    BY <1>1 DEF RunRecords
  <2>5. ASSUME NEW i \in DOMAIN run'[r].feed, run'[r].feed[i][1] = "approval"
        PROVE  i = Len(run'[r].feed) /\ run'[r].feed[i][2] = n + 1 /\ d # "auto"
    <3>1. run'[r].feed = run[r].feed \o more /\ i \notin DOMAIN run[r].feed
      <4>1. CASE run'[r].feed = run[r].feed
        BY <2>2, <2>5, <4>1
      <4>2. CASE run'[r].feed = run[r].feed \o more
        <5>1. \A j \in DOMAIN run[r].feed : (run[r].feed \o more)[j] = run[r].feed[j]
          BY <2>4
        <5> QED
          BY <2>2, <2>5, <4>2, <5>1
      <4> QED
        BY <1>5, <4>1, <4>2
    <3>2. PICK l \in Nat, m \in Nat : /\ l = Len(run[r].feed) /\ m = Len(more)
                                      /\ DOMAIN run[r].feed = 1 .. l /\ DOMAIN more = 1 .. m
      BY <2>4
    <3>3. Len(run'[r].feed) = l + m /\ DOMAIN run'[r].feed = 1 .. (l + m)
      BY <2>4, <3>1, <3>2
    <3>4. i \in 1 .. (l + m) /\ i \notin 1 .. l /\ i - l \in 1 .. m
      BY <3>1, <3>2, <3>3
    <3>5. run'[r].feed[i] = more[i - l]
      BY <2>4, <3>1, <3>2, <3>4, ConcatProperties
    <3>6. more[i - l][1] = "approval"
      BY <2>5, <3>5
    <3>7. /\ more = <<<<"tool-call", n + 1>>, <<"approval", n + 1>>>> /\ d # "auto" /\ m = 2
      <4>1. CASE more = <<<<"tool-call", n + 1>>>>
        <5>1. m = 1
          BY <3>2, <4>1
        <5>2. i - l = 1
          BY <3>4, <5>1
        <5> QED
          BY <3>6, <4>1, <5>2
      <4>2. CASE more = <<<<"tool-call", n + 1>>, <<"approval", n + 1>>>> /\ d # "auto"
        BY <3>2, <4>2
      <4> QED
        BY <1>5, <4>1, <4>2
    <3>8. i - l = 2
      <4>1. i - l = 1 \/ i - l = 2
        BY <3>4, <3>7
      <4> QED
        BY <3>6, <3>7, <4>1
    <3> QED
      BY <3>2, <3>3, <3>4, <3>5, <3>7, <3>8
  <2> QED
    BY <1>4, <1>6, <2>2, <2>3, <2>5 DEF AskedLast
<1> QED
  BY <1>1, <1>4, <1>7, <1>8, <1>10, <1>11, <1>12, <1>13, <1>14, <1>15, TurnStep

\* A call runs that the policy or the teacher has let go.
LEMMA ToolRunsKeeps ==
    ASSUME CopilotInv, UNCHANGED storeVars, NEW r \in Runs, NEW ok, ToolRuns(r, ok)
    PROVE  CopilotInv'
<1>1. /\ PostsForward /\ run \in [Runs -> RunRecords] /\ run[r] \in RunRecords /\ Written(grading)
      /\ wire \in [Runs -> Seq(Frames)] /\ allowance \in [Threads -> Nat]
      /\ Waits(r) /\ GrantsApproved(r) /\ FeedInOrder(r) /\ AskedLast(r)
  BY ServerFacts
<1>2. PICK k \in Nat : k = Last(r)
  BY <1>1 DEF RunRecords, Last
<1>3. /\ run[r].calls \in Seq(CallRecords) /\ run[r].calls # <<>> /\ k \in 1 .. Last(r)
      /\ k \in DOMAIN run[r].calls /\ run[r].calls[k] \in CallRecords
      /\ CallOf(r, k).fate \in {"auto", "granted"} /\ UNCHANGED <<wire, allowance>>
  BY <1>1, <1>2 DEF ToolRuns, RunRecords, Last
<1>4. run[r].phase # "none"
  BY <1>1, <1>3 DEF Waits
<1>5. PICK more \in Seq(Chunks) : more = <<<<"tool-result", k>>>>
  <2>1. <<"tool-result", k>> \in Chunks
    BY DEF Chunks
  <2>2. <<<<"tool-result", k>>>> \in Seq(Chunks)
    BY <2>1
  <2> QED
    BY <2>2
<1>6. PICK fed : fed = Feed(r, more)
  OBVIOUS
<1>7. fed = run[r].feed \/ fed = run[r].feed \o more
  BY <1>6 DEF Feed
<1>8. run' = [run EXCEPT ![r] = [run[r] EXCEPT !.feed = fed,
                  !.calls = [run[r].calls EXCEPT ![k] = [run[r].calls[k] EXCEPT !.fate = "ran"]]]]
  BY <1>1, <1>2, <1>3, <1>5, <1>6 DEF ToolRuns, RunRecords
<1>9. /\ \A s \in Runs : s # r => run'[s] = run[s]
      /\ run'[r] = [run[r] EXCEPT !.feed = fed,
                  !.calls = [run[r].calls EXCEPT ![k] = [run[r].calls[k] EXCEPT !.fate = "ran"]]]
  BY <1>1, <1>8
<1>10. /\ run'[r].phase = run[r].phase /\ run'[r].pending = run[r].pending
       /\ run'[r].outcome = run[r].outcome /\ run'[r].at = run[r].at
       /\ run'[r].checkpointed = run[r].checkpointed /\ run'[r].feed = fed
       /\ run'[r].mode = run[r].mode /\ run'[r].thread = run[r].thread
       /\ run'[r].calls = [run[r].calls EXCEPT ![k] = [run[r].calls[k] EXCEPT !.fate = "ran"]]
  BY <1>1, <1>9 DEF RunRecords
<1>11. Forward(r) /\ GrantsApproved(r)' /\ Last(r)' = Last(r) /\ run'[r].calls \in Seq(CallRecords)
  BY <1>1, <1>3, <1>10, CallSettles
<1>12. Steps
  BY <1>1, <1>9, <1>11, StayForward DEF Steps
<1>13. FeedInOrder(r)' /\ run'[r].feed \in Seq(Chunks)
  <2>1. \A j \in DOMAIN more : more[j][1] # "approval"
    BY <1>5
  <2> QED
    BY <1>7, <1>10, <1>12, <2>1, FeedGrows
<1>14. run' \in [Runs -> RunRecords]
  <2>1. run'[r] \in RunRecords
    BY <1>1, <1>9, <1>10, <1>11, <1>13 DEF RunRecords
  <2> QED
    BY <1>1, <1>8, <1>9, <2>1
<1>15. grading' = grading \/ Written(grading)'
  <2> SUFFICES ASSUME grading' = <<r, k>>, CallOf(r, k).tool \in GradingWriteTools PROVE Written(grading)'
    BY <1>2 DEF ToolRuns
  <2>1. Last(r)' = Last(r) /\ CallOf(r, k)'.fate = "ran" /\ CallOf(r, k)'.tool = CallOf(r, k).tool
    BY <1>3, <1>10, <1>11 DEF Last, CallOf, CallRecords
  <2>2. IsWrite(r, k)' /\ CallOf(r, k)'.tool \in ApprovalTools
    BY <2>1 DEF IsWrite, ApprovalTools
  <2>3. LetGo(r, k)' \/ Approved(r, k)'
    BY <1>3, <2>1, <2>2 DEF LetGo
  <2>4. /\ grading' \in Nat \X Nat /\ grading'[1] = r /\ grading'[2] = k
    BY DEF Runs
  <2> QED
    BY <1>3, <2>1, <2>2, <2>3, <2>4 DEF Written
<1>16. Waits(r)'
  BY <1>4, <1>10, <1>12, WaitsStay
<1>17. AskedLast(r)'
  <2>1. ~Undecided(r)
    BY <1>2, <1>3 DEF Undecided
  <2>2. \A j \in DOMAIN more : more[j][1] # "approval"
    BY <1>5
  <2> QED
    BY <1>7, <1>10, <2>1, <2>2, NoMoreAsked
<1> QED
  BY <1>1, <1>3, <1>9, <1>11, <1>13, <1>14, <1>15, <1>16, <1>17, TurnStep

\* The model is done.
LEMMA ModelEndsKeeps ==
    ASSUME CopilotInv, UNCHANGED storeVars, NEW r \in Runs,
           NEW last \in {<<<<"finish">>>>, <<<<"error">>, <<"finish">>>>}, ModelEnds(r, last)
    PROVE  CopilotInv'
<1> DEFINE done == TRUE
<1>1. /\ PostsForward /\ run \in [Runs -> RunRecords] /\ run[r] \in RunRecords
      /\ wire \in [Runs -> Seq(Frames)] /\ allowance \in [Threads -> Nat]
      /\ Waits(r) /\ GrantsApproved(r) /\ FeedInOrder(r) /\ AskedLast(r)
  BY ServerFacts
<1>2. last \in Seq(Chunks) /\ \A j \in DOMAIN last : last[j][1] # "approval"
  <2>1. <<"finish">> \in Chunks /\ <<"error">> \in Chunks
    BY DEF Chunks
  <2>2. CASE last = <<<<"finish">>>>
    BY <2>1, <2>2
  <2>3. CASE last = <<<<"error">>, <<"finish">>>>
    BY <2>1, <2>3
  <2> QED
    BY <2>2, <2>3
<1>3. PICK fed : fed = Feed(r, last)
  OBVIOUS
<1>4. fed = run[r].feed \/ fed = run[r].feed \o last
  BY <1>3 DEF Feed
<1>5. run[r].phase # "none" /\ UNCHANGED <<wire, allowance, grading>> /\ done \in BOOLEAN
  BY DEF ModelEnds, Thinking
<1>6. run' = [run EXCEPT ![r].over = done, ![r].feed = fed]
  BY <1>3 DEF ModelEnds
<1> HIDE DEF done
<1>7. run' = [run EXCEPT ![r] = [run[r] EXCEPT !.over = done, !.feed = fed]]
  BY <1>1, <1>6 DEF RunRecords
<1>8. /\ \A s \in Runs : s # r => run'[s] = run[s]
      /\ run'[r] = [run[r] EXCEPT !.over = done, !.feed = fed]
  BY <1>1, <1>7
<1>9. /\ run'[r].phase = run[r].phase /\ run'[r].pending = run[r].pending
      /\ run'[r].outcome = run[r].outcome /\ run'[r].at = run[r].at
      /\ run'[r].checkpointed = run[r].checkpointed /\ run'[r].feed = fed
      /\ run'[r].calls = run[r].calls /\ run'[r].mode = run[r].mode /\ run'[r].thread = run[r].thread
  BY <1>1, <1>8 DEF RunRecords
<1>10. Forward(r) /\ GrantsApproved(r)' /\ Last(r)' = Last(r)
  BY <1>1, <1>9, CallsStay DEF Same
<1>11. Steps
  BY <1>1, <1>8, <1>10, StayForward DEF Steps
<1>12. FeedInOrder(r)' /\ run'[r].feed \in Seq(Chunks)
  BY <1>2, <1>4, <1>9, <1>11, FeedGrows
<1>13. run' \in [Runs -> RunRecords]
  <2>1. run'[r] \in RunRecords
    BY <1>1, <1>5, <1>8, <1>9, <1>12 DEF RunRecords
  <2> QED
    BY <1>1, <1>7, <1>8, <2>1
<1>14. Waits(r)'
  BY <1>5, <1>9, <1>11, WaitsStay
<1>15. AskedLast(r)'
  <2>1. run[r].calls # <<>> => CallOf(r, Last(r)).fate \in {"ran", "refused"}
    BY DEF ModelEnds, Thinking
  <2>2. ~Undecided(r)
    BY <2>1 DEF Undecided, Last
  <2> QED
    BY <1>2, <1>4, <1>9, <2>2, NoMoreAsked
<1> QED
  BY <1>1, <1>5, <1>8, <1>10, <1>12, <1>13, <1>14, <1>15, TurnStep

----------------------------------------------------------------------------
\* What the browser, and the timers, do to a turn.

\* A turn whose approval is settled, or that is cut short.
LEMMA TurnSettled ==
    ASSUME CopilotInv, PostsForward, NEW r \in Runs, \A s \in Runs : s # r => run'[s] = run[s],
           run'[r].calls = run[r].calls, run'[r].phase = run[r].phase, run'[r].at = run[r].at,
           run'[r].checkpointed = run[r].checkpointed, run'[r].pending = 0,
           run'[r].mode = run[r].mode, run'[r].thread = run[r].thread, run'[r].decisions = run[r].decisions,
           run'[r].feed = run[r].feed \/ run'[r].feed = <<>>,
           \/ run'[r].outcome = run[r].outcome \/ run'[r].outcome # "approve"
           \/ run[r].phase = "waiting" => Approved(r, run[r].at)
    PROVE  /\ Steps /\ (\A s \in Runs : Last(s)' = Last(s))
           /\ \A s \in Runs : run'[s] = run[s] \/ (Waits(s)' /\ GrantsApproved(s)' /\ FeedInOrder(s)' /\ AskedLast(s)')
<1>1. run[r] \in RunRecords /\ Waits(r)
  BY DEF CopilotInv, CopilotTypes
<1>2. Forward(r) /\ GrantsApproved(r)' /\ Last(r)' = Last(r)
  BY CallsStay DEF Same
<1>3. Steps /\ (\A s \in Runs : Last(s)' = Last(s))
  BY <1>2, StayForward DEF Steps
<1>4. FeedInOrder(r)'
  <2>1. CASE run'[r].feed = run[r].feed
    BY <1>3, <2>1, FeedGrows, <<>> \in Seq(Chunks), DOMAIN <<>> = {}
  <2>2. CASE run'[r].feed = <<>>
    BY <2>2 DEF FeedInOrder
  <2> QED
    BY <2>1, <2>2
<1>5. Waits(r)'
  <2>1. PICK at \in Nat : at = run[r].at
    BY <1>1 DEF RunRecords
  <2>2. (Requested(r, at) => Requested(r, at)') /\ (Approved(r, at) => Approved(r, at)')
    BY <1>3, RequestedStays DEF Steps, PostsForward
  <2>3. run'[r].at = at
    BY <2>1
  <2>4. /\ run[r].phase = "waiting" => Requested(r, at)
        /\ run[r].phase = "waiting" /\ run'[r].outcome = "approve" => Approved(r, at)
    BY <1>1, <2>1 DEF Waits
  <2>5. run[r].phase = "none" => run'[r].calls = <<>> /\ run'[r].feed = <<>>
    BY <1>1 DEF Waits
  <2> QED
    BY <2>2, <2>3, <2>4, <2>5 DEF Waits
<1>6. AskedLast(r)'
  BY AskedStays
<1> QED
  BY <1>2, <1>3, <1>4, <1>5, <1>6

\* The connection of a turn goes away, of no turn perhaps.
LEMMA AbortMoves ==
    ASSUME CopilotInv, PostsForward, NEW r, AbortRun(r)
    PROVE  /\ run' \in [Runs -> RunRecords] /\ Steps /\ (\A s \in Runs : Last(s)' = Last(s))
           /\ \A s \in Runs : run'[s] = run[s] \/ (Waits(s)' /\ GrantsApproved(s)' /\ FeedInOrder(s)' /\ AskedLast(s)')
<1> DEFINE gone == TRUE
<1>1. run \in [Runs -> RunRecords]
  BY DEF CopilotInv, CopilotTypes
<1>2. CASE r \notin Runs
  <2>1. run' = run
    BY <1>1, <1>2 DEF AbortRun
  <2> QED
    BY <1>1, <2>1, StayForward DEF Steps
<1>3. CASE r \in Runs
  <2>1. PICK o : o = IF run[r].pending # 0 THEN "expired" ELSE run[r].outcome
    OBVIOUS
  <2>2. run[r] \in RunRecords /\ (o = run[r].outcome \/ o = "expired") /\ gone \in BOOLEAN
    BY <1>1, <1>3, <2>1
  <2>3. run' = [run EXCEPT ![r].aborted = gone, ![r].feed = <<>>, ![r].outcome = o, ![r].pending = 0]
    BY <1>1, <1>3, <2>1 DEF AbortRun, RunRecords
  <2> HIDE DEF gone
  <2>4. run' = [run EXCEPT ![r] = [run[r] EXCEPT !.aborted = gone, !.feed = <<>>, !.outcome = o, !.pending = 0]]
    BY <1>1, <1>3, <2>2, <2>3 DEF RunRecords
  <2>5. /\ \A s \in Runs : s # r => run'[s] = run[s]
        /\ run'[r] = [run[r] EXCEPT !.aborted = gone, !.feed = <<>>, !.outcome = o, !.pending = 0]
    BY <1>1, <1>3, <2>4
  <2>6. /\ run'[r].calls = run[r].calls /\ run'[r].phase = run[r].phase /\ run'[r].at = run[r].at
        /\ run'[r].checkpointed = run[r].checkpointed /\ run'[r].pending = 0
        /\ run'[r].feed = <<>> /\ run'[r].outcome = o
        /\ run'[r].mode = run[r].mode /\ run'[r].thread = run[r].thread
        /\ run'[r].decisions = run[r].decisions
    BY <2>2, <2>5 DEF RunRecords
  <2>7. run' \in [Runs -> RunRecords]
    <3>1. PICK e \in Seq(Chunks), z \in Nat : e = <<>> /\ z = 0
      BY <<>> \in Seq(Chunks)
    <3>2. o \in {"none", "approve", "deny", "expired"}
      BY <2>2 DEF RunRecords
    <3>3. run'[r] = [run[r] EXCEPT !.aborted = gone, !.feed = e, !.outcome = o, !.pending = z]
      BY <2>5, <3>1
    <3>4. run'[r] \in RunRecords
      BY <2>2, <3>2, <3>3 DEF RunRecords
    <3> QED
      BY <1>1, <2>4, <2>5, <3>4
  <2> QED
    BY <1>3, <2>2, <2>5, <2>6, <2>7, TurnSettled
<1> QED
  BY <1>2, <1>3

\* A turn is sent.
LEMMA StartMoves ==
    ASSUME CopilotInv, PostsForward, NEW r \in Runs, NEW th \in Threads, StartRun(r, th)
    PROVE  /\ run' \in [Runs -> RunRecords] /\ Steps /\ (\A s \in Runs : Last(s)' = Last(s))
           /\ \A s \in Runs : run'[s] = run[s] \/ (Waits(s)' /\ GrantsApproved(s)' /\ FeedInOrder(s)' /\ AskedLast(s)')
<1>1. run \in [Runs -> RunRecords] /\ run[r] \in RunRecords /\ Waits(r) /\ run[r].phase = "none"
  BY DEF CopilotInv, CopilotTypes, StartRun
<1>2. PICK mode \in Modes :
         run' = [run EXCEPT ![r].thread = th, ![r].mode = mode,
                            ![r].phase = IF mode = "unreadable" THEN "ended" ELSE "reading",
                            ![r].over = (mode = "unreadable")]
  BY DEF StartRun
<1> DEFINE over == (mode = "unreadable")
<1>3. over \in BOOLEAN /\ run' = [run EXCEPT ![r].thread = th, ![r].mode = mode,
                            ![r].phase = IF mode = "unreadable" THEN "ended" ELSE "reading",
                            ![r].over = over]
  BY <1>2
<1> HIDE DEF over
<1>4. PICK phase \in {"ended", "reading"} : phase = IF mode = "unreadable" THEN "ended" ELSE "reading"
  OBVIOUS
<1>5. run' = [run EXCEPT ![r] = [run[r] EXCEPT !.thread = th, !.mode = mode, !.phase = phase, !.over = over]]
  BY <1>1, <1>3, <1>4 DEF RunRecords
<1>6. /\ \A s \in Runs : s # r => run'[s] = run[s]
      /\ run'[r] = [run[r] EXCEPT !.thread = th, !.mode = mode, !.phase = phase, !.over = over]
  BY <1>1, <1>5
<1>7. /\ run'[r].calls = run[r].calls /\ run'[r].phase \in {"ended", "reading"}
      /\ run'[r].checkpointed = run[r].checkpointed /\ run'[r].pending = run[r].pending
      /\ run'[r].feed = run[r].feed
  BY <1>1, <1>4, <1>6 DEF RunRecords
<1>8. run' \in [Runs -> RunRecords]
  <2>1. run'[r] \in RunRecords
    BY <1>1, <1>3, <1>6 DEF RunRecords, Phases
  <2> QED
    BY <1>1, <1>5, <1>6, <2>1
<1>9. Forward(r) /\ GrantsApproved(r)' /\ Last(r)' = Last(r)
  BY <1>1, <1>7, CallsStay DEF Waits
<1>10. Waits(r)' /\ FeedInOrder(r)' /\ AskedLast(r)'
  BY <1>1, <1>7 DEF Waits, FeedInOrder, AskedLast
<1> QED
  BY <1>6, <1>8, <1>9, <1>10, StayForward DEF Steps

\* The steps of the browser that may touch a turn.
RunMoves == UNCHANGED run \/ (\E s \in Runs : StartRun(s, thread)) \/ (\E s : AbortRun(s))

\* A turn that the browser starts or aborts keeps its type and what every turn
\* guarantees.
LEMMA MovesForward ==
    ASSUME CopilotInv, PostsForward, RunMoves
    PROVE  /\ run' \in [Runs -> RunRecords] /\ Steps /\ (\A s \in Runs : Last(s)' = Last(s))
           /\ \A s \in Runs : run'[s] = run[s] \/ (Waits(s)' /\ GrantsApproved(s)' /\ FeedInOrder(s)' /\ AskedLast(s)')
<1>1. CASE UNCHANGED run
  BY <1>1, StayForward DEF CopilotInv, CopilotTypes, Steps
<1>2. CASE \E s \in Runs : StartRun(s, thread)
  <2>1. PICK th \in Threads : th = thread
    BY DEF CopilotInv, CopilotTypes
  <2>2. PICK s \in Runs : StartRun(s, th)
    BY <1>2, <2>1
  <2> QED
    BY <2>2, StartMoves
<1>3. CASE \E s : AbortRun(s)
  <2>1. PICK s : AbortRun(s)
    BY <1>3
  <2> QED
    BY <2>1, AbortMoves
<1> QED
  BY <1>1, <1>2, <1>3 DEF RunMoves

\* A step of the browser: frames are only read, and what the store then
\* holds comes from them.
LEMMA BrowserStep ==
    ASSUME CopilotInv, PostsForward, RunMoves,
           \A s \in Runs : wire'[s] = wire[s] \/ (wire[s] # <<>> /\ wire'[s] = Tail(wire[s])),
           wire' \in [Runs -> Seq(Frames)], allowance' = allowance, thread' \in Threads,
           \E g : Written(g) /\ grading' = g,
           posts' \subseteq [call : Runs \X Nat, word : {"approve", "deny"}, state : PostStates],
           \A p \in posts' : Requested(p.call[1], p.call[2]),
           \A c \in card' : c \in Runs \X Nat /\ Requested(c[1], c[2]),
           \A c \in checkpoint' : GoodCheckpoint(c)
    PROVE  CopilotInv'
<1>1. /\ run' \in [Runs -> RunRecords] /\ Steps /\ (\A s \in Runs : Last(s)' = Last(s))
      /\ \A s \in Runs : run'[s] = run[s] \/ (Waits(s)' /\ GrantsApproved(s)' /\ FeedInOrder(s)' /\ AskedLast(s)')
  BY MovesForward
<1>2. CopilotTypes'
  BY <1>1 DEF CopilotInv, CopilotTypes
<1>3. Written(grading)'
  <2>1. PICK g : Written(g) /\ grading' = g
    OBVIOUS
  <2>2. Written(g)'
    BY <1>1, <2>1, WrittenStays DEF CopilotInv
  <2> QED
    BY <2>1, <2>2
<1>4. ASSUME NEW s \in Runs PROVE wire'[s] = wire[s] \/ WireGood(s)'
  <2>1. CASE wire[s] # <<>> /\ wire'[s] = Tail(wire[s])
    <3>1. wire[s] \in Seq(Frames) /\ WireGood(s)
      BY DEF CopilotInv, CopilotTypes
    <3>2. ASSUME NEW i \in DOMAIN wire'[s]
          PROVE  \E f \in Frames : f = wire'[s][i] /\ GoodFrame(s, f)'
      <4>1. i + 1 \in DOMAIN wire[s] /\ wire'[s][i] = wire[s][i + 1]
        BY <2>1, <3>1
      <4>2. PICK f \in Frames : f = wire[s][i + 1]
        BY <3>1, <4>1
      <4>3. GoodFrame(s, f)'
        BY <1>1, <3>1, <4>1, <4>2, WrittenStays DEF CopilotInv, WireGood
      <4> QED
        BY <4>1, <4>2, <4>3
    <3> QED
      BY <3>2 DEF WireGood
  <2> QED
    BY <2>1
<1> QED
  BY <1>1, <1>2, <1>3, <1>4, Keeps

\* The timer of an approval.
LEMMA ExpireKeeps ==
    ASSUME CopilotInv, UNCHANGED storeVars, NEW r \in Runs, Expire(r)
    PROVE  CopilotInv'
<1>1. /\ PostsForward /\ run \in [Runs -> RunRecords] /\ run[r] \in RunRecords
      /\ wire \in [Runs -> Seq(Frames)] /\ allowance \in [Threads -> Nat]
      /\ Waits(r) /\ GrantsApproved(r) /\ FeedInOrder(r) /\ AskedLast(r)
  BY ServerFacts
<1>2. run' = [run EXCEPT ![r] = [run[r] EXCEPT !.pending = 0, !.outcome = "expired"]]
  BY <1>1 DEF Expire
<1>3. /\ run' \in [Runs -> RunRecords] /\ \A s \in Runs : s # r => run'[s] = run[s]
      /\ run'[r].calls = run[r].calls /\ run'[r].phase = run[r].phase /\ run'[r].at = run[r].at
      /\ run'[r].checkpointed = run[r].checkpointed /\ run'[r].pending = 0
      /\ run'[r].feed = run[r].feed /\ run'[r].outcome = "expired"
      /\ run'[r].mode = run[r].mode /\ run'[r].thread = run[r].thread
      /\ run'[r].decisions = run[r].decisions
  BY <1>1, <1>2 DEF RunRecords
<1>4. /\ Steps /\ (\A s \in Runs : Last(s)' = Last(s))
      /\ \A s \in Runs : run'[s] = run[s] \/ (Waits(s)' /\ GrantsApproved(s)' /\ FeedInOrder(s)' /\ AskedLast(s)')
  BY <1>1, <1>3, TurnSettled
<1>5. UNCHANGED <<wire, allowance, grading>> /\ UNCHANGED <<posts, card, checkpoint, thread>>
  BY DEF Expire, storeVars
<1>6. CopilotTypes' /\ Written(grading)'
  BY <1>3, <1>4, <1>5, GradingStays DEF CopilotInv, CopilotTypes
<1> QED
  BY <1>4, <1>5, <1>6, Keeps DEF CopilotInv, CardAsked, PostsAsked, CheckpointsGood

----------------------------------------------------------------------------
\* Every step.

\* What the store holds before a step.
LEMMA StoreFacts ==
    ASSUME CopilotInv
    PROVE  /\ thread \in Threads /\ Written(grading) /\ wire \in [Runs -> Seq(Frames)]
           /\ posts \subseteq [call : Runs \X Nat, word : {"approve", "deny"}, state : PostStates]
           /\ \A p \in posts : Requested(p.call[1], p.call[2])
           /\ \A c \in card : c \in Runs \X Nat /\ Requested(c[1], c[2])
           /\ \A c \in checkpoint : GoodCheckpoint(c)
BY DEF CopilotInv, CopilotTypes, CardAsked, PostsAsked, CheckpointsGood

\* The end of a loop sends the next turn or none.
LEMMA FinishMoves ==
    ASSUME NEW r, NEW streaming, Finish(r, streaming)
    PROVE  RunMoves
<1>1. CASE Close(r, streaming)
  BY <1>1 DEF Close, RunMoves
<1>2. CASE \E s \in Runs : Open(s, {r})
  BY <1>2 DEF Open, RunMoves
<1> QED
  BY <1>1, <1>2, Zenon DEF Finish

\* The frame that is read shows what was asked, and the checkpoint it brings.
LEMMA ReadFrameKeeps ==
    ASSUME CopilotInv, NEW r \in Runs, ReadFrame(r)
    PROVE  CopilotInv'
<1>1. /\ thread \in Threads /\ Written(grading) /\ wire \in [Runs -> Seq(Frames)]
      /\ posts \subseteq [call : Runs \X Nat, word : {"approve", "deny"}, state : PostStates]
      /\ \A p \in posts : Requested(p.call[1], p.call[2])
      /\ \A c \in card : c \in Runs \X Nat /\ Requested(c[1], c[2])
      /\ \A c \in checkpoint : GoodCheckpoint(c)
  BY StoreFacts
<1>2. /\ wire[r] # <<>> /\ wire' = [wire EXCEPT ![r] = Tail(@)]
      /\ UNCHANGED <<allowance, grading, thread, posts>> /\ Shows(r, Head(wire[r]))
  BY DEF ReadFrame
<1>3. RunMoves
  <2>1. \/ Finish(r, FALSE) \/ AbortRun(controller) \/ UNCHANGED run
    BY Zenon DEF ReadFrame
  <2> QED
    BY <2>1, FinishMoves, Zenon DEF RunMoves
<1>4. /\ \A s \in Runs : wire'[s] = wire[s] \/ (wire[s] # <<>> /\ wire'[s] = Tail(wire[s]))
      /\ wire' \in [Runs -> Seq(Frames)]
  <2>1. wire[r] \in Seq(Frames) /\ Tail(wire[r]) \in Seq(Frames)
    BY <1>1, <1>2
  <2> QED
    BY <1>1, <1>2, <2>1
<1>5. PICK frame \in Frames : frame = Head(wire[r])
  BY <1>1, <1>2
<1>6. GoodFrame(r, frame)
  <2>1. 1 \in DOMAIN wire[r] /\ Head(wire[r]) = wire[r][1]
    BY <1>1, <1>2
  <2> QED
    BY <1>5, <2>1 DEF CopilotInv, WireGood
<1>7. ASSUME NEW c \in card' PROVE c \in Runs \X Nat /\ Requested(c[1], c[2])
  <2>1. CASE frame[1] = "approval-request"
    <3>1. c = <<r, frame[2]>> /\ frame[2] \in Nat
      BY <1>2, <1>5, <1>7, <2>1 DEF Shows, Frames
    <3> QED
      BY <1>6, <2>1, <3>1 DEF GoodFrame
  <2>2. CASE frame[1] # "approval-request"
    BY <1>1, <1>2, <1>5, <1>7, <2>2 DEF Shows
  <2> QED
    BY <2>1, <2>2
<1>8. ASSUME NEW c \in checkpoint' PROVE GoodCheckpoint(c)
  BY <1>1, <1>2, <1>5, <1>6, <1>8 DEF Shows, GoodFrame
<1>9. PostsForward
  BY <1>2, SilentPosts
<1> QED
  BY <1>1, <1>2, <1>3, <1>4, <1>7, <1>8, <1>9, BrowserStep

\* The steps of the store that say nothing to the server, and show and
\* remember no more than before.
LEMMA QuietKeeps ==
    ASSUME CopilotInv, RunMoves, UNCHANGED <<wire, allowance, grading, posts>>,
           card' \subseteq card, checkpoint' \subseteq checkpoint, thread' \in Threads
    PROVE  CopilotInv'
BY StoreFacts, SilentPosts, BrowserStep

\* The steps of the browser but for the words of the teacher.
LEMMA StoreStepKeeps ==
    ASSUME CopilotInv,
           \/ \E r \in Runs : Send(r) \/ Browser(r) \/ LoopFails(r)
           \/ Stop \/ (\E steer \in BOOLEAN : Queue(steer)) \/ Revert
           \/ \E th \in Threads : OpenThread(th) \/ NewConversation(th)
    PROVE  CopilotInv'
<1>0. thread \in Threads
  BY StoreFacts
<1>1. ASSUME NEW r \in Runs, Send(r) PROVE CopilotInv'
  <2>1. RunMoves
    BY <1>1 DEF Send, Open, RunMoves
  <2>2. UNCHANGED <<wire, allowance, grading, posts, card, thread>> /\ checkpoint' = {}
    BY <1>1 DEF Send
  <2> QED
    BY <1>0, <2>1, <2>2, QuietKeeps
<1>2. ASSUME NEW r \in Runs, StreamEnds(r) PROVE CopilotInv'
  <2>1. RunMoves
    BY <1>2, FinishMoves DEF StreamEnds
  <2>2. UNCHANGED <<wire, allowance, grading, posts, card, checkpoint, thread>>
    BY <1>2 DEF StreamEnds
  <2> QED
    BY <1>0, <2>1, <2>2, QuietKeeps
<1>3. ASSUME NEW r \in Runs, LoopFails(r) PROVE CopilotInv'
  <2>1. RunMoves
    BY <1>3, FinishMoves, Zenon DEF LoopFails
  <2>2. UNCHANGED <<wire, allowance, grading, posts, checkpoint, thread>> /\ card' = {}
    BY <1>3 DEF LoopFails
  <2> QED
    BY <1>0, <2>1, <2>2, QuietKeeps
<1>4. ASSUME NEW r \in Runs, Abort(r) PROVE CopilotInv'
  <2>1. RunMoves
    BY <1>4 DEF Abort, RunMoves
  <2>2. UNCHANGED <<wire, allowance, grading, posts, card, checkpoint, thread>>
    BY <1>4 DEF Abort
  <2> QED
    BY <1>0, <2>1, <2>2, QuietKeeps
<1>5. CASE Stop
  BY <1>4, <1>5 DEF Stop
<1>6. ASSUME NEW r \in Runs, HardCapFires(r) PROVE CopilotInv'
  BY <1>4, <1>6 DEF HardCapFires
<1>7. ASSUME NEW steer, Queue(steer) PROVE CopilotInv'
  <2>1. UNCHANGED <<run, wire, allowance, grading, posts, card, checkpoint, thread>>
    BY <1>7, Zenon DEF Queue, agentVars
  <2> QED
    BY <1>0, <2>1, QuietKeeps DEF RunMoves
<1>8. ASSUME NEW th \in Threads, OpenThread(th) \/ NewConversation(th) PROVE CopilotInv'
  <2>1. CASE OpenThread(th)
    BY <1>8, <2>1, QuietKeeps DEF OpenThread, agentVars, RunMoves
  <2>2. CASE NewConversation(th)
    BY <1>8, <2>2, QuietKeeps DEF NewConversation, agentVars, RunMoves
  <2> QED
    BY <1>8, <2>1, <2>2
<1>9. CASE Revert
  <2>1. PICK c \in checkpoint : grading' = Merged(c[2])
    BY <1>9 DEF Revert
  <2>2. GoodCheckpoint(c) /\ Written(grading)
    BY StoreFacts
  <2>3. \E g : Written(g) /\ grading' = g
    BY <2>1, <2>2 DEF GoodCheckpoint, Merged
  <2>4. /\ UNCHANGED <<run, wire, allowance, card, thread, posts>> /\ checkpoint' = {}
    BY <1>9 DEF Revert
  <2>5. PostsForward /\ RunMoves
    BY <2>4, SilentPosts DEF RunMoves
  <2> QED
    BY <2>3, <2>4, <2>5, StoreFacts, BrowserStep
<1> QED
  BY <1>1, <1>2, <1>3, <1>5, <1>6, <1>7, <1>8, <1>9, ReadFrameKeeps DEF Browser

\* The teacher decides about the call the card shows.
LEMMA ApproveKeeps ==
    ASSUME CopilotInv, NEW w \in {"approve", "deny"}, Approve(w)
    PROVE  CopilotInv'
<1>1. PICK c \in card : /\ card' = {}
                        /\ posts' = posts \cup {[call |-> c, word |-> w, state |-> "sent"]}
                        /\ UNCHANGED <<agentVars, turnVars, checkpoint, stopRequested, thread>>
  BY DEF Approve
<1>2. PICK p : p = [call |-> c, word |-> w, state |-> "sent"]
  OBVIOUS
<1>3. /\ p \in [call : Runs \X Nat, word : {"approve", "deny"}, state : PostStates]
      /\ Requested(p.call[1], p.call[2]) /\ posts' = posts \cup {p}
  BY <1>1, <1>2, StoreFacts DEF PostStates
<1>4. PostsForward
  BY <1>3 DEF PostsForward, Approved
<1>5. UNCHANGED <<run, wire, allowance, grading, thread, checkpoint>>
  BY <1>1 DEF agentVars
<1> QED
  BY <1>1, <1>3, <1>4, <1>5, StoreFacts, BrowserStep DEF RunMoves

\* What becomes of a decision does not change whom it is about.
LEMMA BecomesPosts ==
    ASSUME CopilotInv, NEW p \in posts, NEW state \in PostStates, Becomes(p, state)
    PROVE  /\ PostsForward
           /\ posts' \subseteq [call : Runs \X Nat, word : {"approve", "deny"}, state : PostStates]
           /\ \A q \in posts' : Requested(q.call[1], q.call[2])
<1>1. PICK q : q = [p EXCEPT !.state = state]
  OBVIOUS
<1>2. /\ q \in [call : Runs \X Nat, word : {"approve", "deny"}, state : PostStates]
      /\ q.call = p.call /\ q.word = p.word
  BY <1>1, StoreFacts
<1>3. posts' = (posts \ {p}) \cup {q}
  BY <1>1 DEF Becomes
<1>4. PostsForward
  BY <1>2, <1>3 DEF PostsForward, Approved
<1> QED
  BY <1>2, <1>3, <1>4, StoreFacts

\* A refusal that arrives ends the POST and takes the card down.
LEMMA RefusalArrivesKeeps ==
    ASSUME CopilotInv, NEW p \in posts, RefusalArrives(p)
    PROVE  CopilotInv'
<1>1. Becomes(p, "failed") /\ card' = {} /\ UNCHANGED <<run, wire, allowance, grading, checkpoint, thread>>
  BY Zenon DEF RefusalArrives, agentVars
<1>2. /\ PostsForward
      /\ posts' \subseteq [call : Runs \X Nat, word : {"approve", "deny"}, state : PostStates]
      /\ \A q \in posts' : Requested(q.call[1], q.call[2])
  BY <1>1, BecomesPosts DEF PostStates
<1> QED
  BY <1>1, <1>2, StoreFacts, BrowserStep DEF RunMoves

\* The server takes the decision, or not.
LEMMA ServerAnswersKeeps ==
    ASSUME CopilotInv, NEW p \in posts, ServerAnswers(p)
    PROVE  CopilotInv'
<1>1. UNCHANGED <<wire, allowance, grading, card, checkpoint, thread>>
  BY DEF ServerAnswers
<1>2. CASE Becomes(p, "refused") /\ UNCHANGED run
  <2>1. /\ PostsForward
        /\ posts' \subseteq [call : Runs \X Nat, word : {"approve", "deny"}, state : PostStates]
        /\ \A q \in posts' : Requested(q.call[1], q.call[2])
    BY <1>2, BecomesPosts DEF PostStates
  <2> QED
    BY <1>1, <1>2, <2>1, StoreFacts, BrowserStep DEF RunMoves
<1>3. CASE Becomes(p, "accepted") /\ AnswerApproval(p.call[1], p.call[2], p.word)
  <2>1. /\ PostsForward
        /\ posts' \subseteq [call : Runs \X Nat, word : {"approve", "deny"}, state : PostStates]
        /\ \A q \in posts' : Requested(q.call[1], q.call[2])
    BY <1>3, BecomesPosts DEF PostStates
  <2>2. PICK r \in Runs, k \in Nat, w \in {"approve", "deny"} : r = p.call[1] /\ k = p.call[2] /\ w = p.word
    BY StoreFacts
  <2>3. k # 0
    BY <2>2, StoreFacts DEF Requested, AskedFor
  <2>4. run \in [Runs -> RunRecords] /\ run[r] \in RunRecords /\ Waits(r)
    BY DEF CopilotInv, CopilotTypes
  <2>5. run' = [run EXCEPT ![r] = [run[r] EXCEPT !.pending = 0, !.outcome = w]] /\ run[r].pending = k
    BY <1>3, <2>2, <2>4 DEF AnswerApproval, MayAnswer
  <2>6. /\ run' \in [Runs -> RunRecords] /\ \A s \in Runs : s # r => run'[s] = run[s]
        /\ run'[r].calls = run[r].calls /\ run'[r].phase = run[r].phase /\ run'[r].at = run[r].at
        /\ run'[r].checkpointed = run[r].checkpointed /\ run'[r].pending = 0
        /\ run'[r].feed = run[r].feed /\ run'[r].outcome = w
        /\ run'[r].mode = run[r].mode /\ run'[r].thread = run[r].thread
        /\ run'[r].decisions = run[r].decisions
    BY <2>4, <2>5 DEF RunRecords
  <2>7. w = "approve" => Approved(r, run[r].at)
    <3>1. run[r].at = k
      BY <2>3, <2>4, <2>5 DEF Waits
    <3>2. p.call = <<r, k>>
      BY <2>2, StoreFacts
    <3> QED
      BY <2>2, <3>1, <3>2 DEF Approved
  <2>8. /\ Steps /\ (\A s \in Runs : Last(s)' = Last(s))
        /\ \A s \in Runs : run'[s] = run[s] \/ (Waits(s)' /\ GrantsApproved(s)' /\ FeedInOrder(s)' /\ AskedLast(s)')
    BY <2>1, <2>6, <2>7, TurnSettled
  <2>9. CopilotTypes' /\ Written(grading)'
    BY <1>1, <2>1, <2>6, <2>8, GradingStays DEF CopilotInv, CopilotTypes
  <2> QED
    BY <1>1, <2>1, <2>8, <2>9, StoreFacts, Keeps
<1> QED
  BY <1>2, <1>3 DEF ServerAnswers

\* A restart ends every turn and keeps what was called and said.
LEMMA RestartKeeps ==
    ASSUME CopilotInv, Restart, UNCHANGED storeVars
    PROVE  CopilotInv'
<1>1. /\ run \in [Runs -> RunRecords] /\ wire \in [Runs -> Seq(Frames)] /\ PostsForward
      /\ \A s \in Runs : Waits(s) /\ GrantsApproved(s) /\ FeedInOrder(s)
  BY SilentPosts DEF CopilotInv, CopilotTypes, storeVars
<1>2. /\ wire' = wire /\ grading' = grading /\ allowance' = [th \in Threads |-> 0]
      /\ UNCHANGED <<card, checkpoint, posts, thread>>
  BY DEF Restart, storeVars
<1>3. ASSUME NEW s \in Runs
      PROVE  /\ run'[s] \in RunRecords /\ Forward(s)
             /\ run'[s].phase = "lost" \/ (run[s].phase = "none" /\ run'[s] = run[s])
             /\ run'[s] = run[s] \/ (Waits(s)' /\ GrantsApproved(s)' /\ FeedInOrder(s)' /\ AskedLast(s)')
  <2>1. CASE run[s].phase = "none"
    <3>1. run'[s] = run[s]
      BY <2>1 DEF Restart
    <3> QED
      BY <1>1, <2>1, <3>1, StayForward
  <2>2. CASE run[s].phase # "none"
    <3> DEFINE over == TRUE
    <3>1. over \in BOOLEAN /\ run'[s] = [Return(s) EXCEPT !.phase = "lost", !.over = over]
      BY <2>2 DEF Restart
    <3> HIDE DEF over
    <3>2. PICK v \in RunRecords : v = Return(s)
      BY ReturnRecord
    <3>3. /\ v.feed = <<>> /\ v.calls = run[s].calls /\ v.pending = 0
          /\ v.mode = run[s].mode /\ v.thread = run[s].thread
      BY <3>2, ReturnRecord
    <3>4. run'[s] = [v EXCEPT !.phase = "lost", !.over = over]
      BY <3>1, <3>2
    <3>5. /\ run'[s] \in RunRecords /\ run'[s].phase = "lost" /\ run'[s].feed = <<>>
          /\ run'[s].calls = run[s].calls /\ run'[s].pending = 0
          /\ run'[s].mode = run[s].mode /\ run'[s].thread = run[s].thread
      BY <3>1, <3>3, <3>4 DEF RunRecords, Phases
    <3>6. Forward(s) /\ GrantsApproved(s)'
      BY <1>1, <3>5, CallsStay DEF Same
    <3>7. Waits(s)' /\ FeedInOrder(s)' /\ AskedLast(s)'
      BY <3>5 DEF Waits, FeedInOrder, AskedLast
    <3> QED
      BY <3>5, <3>6, <3>7
  <2> QED
    BY <2>1, <2>2
<1>4. run' \in [Runs -> RunRecords]
  <2>1. run' = [r \in Runs |-> IF run[r].phase = "none" THEN run[r]
                               ELSE [Return(r) EXCEPT !.phase = "lost", !.over = TRUE]]
    BY Zenon DEF Restart
  <2>2. DOMAIN run' = Runs /\ run' = [r \in Runs |-> run'[r]]
    BY <2>1, Zenon
  <2> QED
    BY <1>3, <2>2, Zenon
<1>5. Steps
  BY <1>1, <1>3 DEF Steps
<1>6. CopilotTypes' /\ Written(grading)'
  BY <1>2, <1>4, <1>5, GradingStays DEF CopilotInv, CopilotTypes
<1>7. CapKept'
  <2> SUFFICES ASSUME NEW th \in Threads
               PROVE  Cardinality(Counted(th)') <= allowance'[th] /\ allowance'[th] <= SessionCap
    BY DEF CapKept
  <2>1. ASSUME NEW c \in Counted(th)' PROVE FALSE
    <3>1. c[1] \in Runs /\ c[2] \in 1 .. MaxCalls /\ c[2] <= Last(c[1])' /\ run'[c[1]].phase # "lost"
      BY DEF Counted, Unattended, Calls, Made
    <3>2. run[c[1]].phase = "none" /\ run'[c[1]] = run[c[1]]
      BY <1>3, <3>1
    <3>3. run'[c[1]].calls = <<>>
      BY <1>1, <3>1, <3>2 DEF Waits
    <3>4. Last(c[1])' = 0
      BY <3>3 DEF Last
    <3> QED
      BY <3>1, <3>4, BoundsAssumption
  <2>2. Counted(th)' = {}
    BY <2>1
  <2> QED
    BY <1>2, <2>2, FS_EmptySet, BoundsAssumption
<1> QED
  BY <1>2, <1>3, <1>5, <1>6, <1>7, StoreFacts, Keeps

\* No turn has been sent to begin with.
LEMMA CopilotInit ==
    ASSUME Init
    PROVE  CopilotInv
<1> DEFINE f == FALSE
<1>1. thread \in Threads /\ card = {} /\ checkpoint = {} /\ posts = {}
  BY DEF Init
<1>2. PICK th \in Threads : th = CHOOSE t \in Threads : TRUE
  BY <1>1
<1>3. f \in BOOLEAN /\
      NoRun = [phase |-> "none", mode |-> "ask", thread |-> CHOOSE t \in Threads : TRUE,
               feed |-> <<>>, calls |-> <<>>, over |-> f, decisions |-> [t \in Tools |-> "none"],
               pending |-> 0, outcome |-> "none", aborted |-> f, checkpointed |-> f, at |-> 0]
  BY Zenon DEF NoRun
<1> HIDE DEF f
<1>4. NoRun \in RunRecords
  <2>1. NoRun = [phase |-> "none", mode |-> "ask", thread |-> th,
                 feed |-> <<>>, calls |-> <<>>, over |-> f, decisions |-> [t \in Tools |-> "none"],
                 pending |-> 0, outcome |-> "none", aborted |-> f, checkpointed |-> f, at |-> 0]
    BY <1>2, <1>3
  <2> QED
    BY <1>3, <2>1 DEF RunRecords, Phases
<1>5. NoRun.calls = <<>> /\ NoRun.feed = <<>> /\ NoRun.pending = 0 /\ NoRun.phase = "none"
  BY <1>3
<1> HIDE DEF NoRun
<1>6. /\ \A r \in Runs : run[r] = NoRun /\ wire[r] = <<>> /\ Last(r) = 0
      /\ run \in [Runs -> RunRecords] /\ wire \in [Runs -> Seq(Frames)]
      /\ allowance = [t \in Threads |-> 0] /\ grading \in {ByTeacher, Unset}
  <2>1. run = [r \in Runs |-> NoRun] /\ wire = [r \in Runs |-> <<>>] /\ allowance = [t \in Threads |-> 0]
        /\ grading \in {ByTeacher, Unset}
    BY Zenon DEF Init, AgentInit
  <2>2. <<>> \in Seq(Frames)
    OBVIOUS
  <2> QED
    BY <1>4, <1>5, <2>1, <2>2 DEF Last
<1>7. CopilotTypes
  BY <1>1, <1>6 DEF CopilotTypes
<1>8. \A r \in Runs : Waits(r) /\ GrantsApproved(r) /\ FeedInOrder(r) /\ AskedLast(r) /\ WireGood(r)
  BY <1>5, <1>6 DEF Waits, GrantsApproved, FeedInOrder, AskedLast, WireGood
<1>9. Written(grading)
  BY <1>6 DEF Written, ByTeacher, Unset, Runs
<1>10. CapKept
  <2> SUFFICES ASSUME NEW t \in Threads PROVE Cardinality(Counted(t)) <= allowance[t] /\ allowance[t] <= SessionCap
    BY DEF CapKept
  <2>1. Counted(t) = {}
    BY <1>6, BoundsAssumption DEF Counted, Unattended, Made, Calls
  <2> QED
    BY <1>6, <2>1, FS_EmptySet, BoundsAssumption
<1> QED
  BY <1>1, <1>7, <1>8, <1>9, <1>10 DEF CopilotInv, CardAsked, PostsAsked, CheckpointsGood

\* A step of the server.
LEMMA ServerKeeps ==
    ASSUME CopilotInv, NEW r \in Runs, Server(r)
    PROVE  CopilotInv'
<1>1. UNCHANGED storeVars
  BY DEF Server
<1>2. CASE RunChat(r)
  <2>1. CASE ReadFinish(r) \/ StopReading(r) \/ StopWaiting(r)
    <3>1. /\ run[r].phase # "lost" /\ run' = [run EXCEPT ![r] = Return(r)]
          /\ wire' = wire \/ Emit(r, <<<<"done">>>>)
          /\ UNCHANGED <<allowance, grading>>
      BY <2>1, Zenon DEF ReadFinish, StopReading, StopWaiting, Reading
    <3> QED
      BY <1>1, <3>1, ReturnKeeps
  <2> QED
    BY <1>1, <1>2, <2>1, ReadToolCallKeeps, TakeSnapshotKeeps, ReadOtherKeeps, RequestApprovalKeeps,
       DecideKeeps DEF RunChat
<1>3. CASE Mastra(r)
  <2>1. ASSUME NEW ok, ToolRuns(r, ok) PROVE CopilotInv'
    BY <1>1, <2>1, ToolRunsKeeps
  <2> QED
    BY <1>1, <1>3, <2>1, ModelCallsKeeps, ModelEndsKeeps, Zenon DEF Mastra
<1> QED
  BY <1>1, <1>2, <1>3, ExpireKeeps DEF Server

\* Saying and doing nothing keeps everything.
LEMMA CopilotStutter ==
    ASSUME CopilotInv, UNCHANGED vars
    PROVE  CopilotInv'
<1>1. UNCHANGED <<run, wire, allowance, grading, posts, card, checkpoint, thread>>
  BY DEF vars, agentVars, storeVars
<1>2. RunMoves /\ thread \in Threads
  BY <1>1, StoreFacts DEF RunMoves
<1> QED
  BY <1>1, <1>2, QuietKeeps

\* Every step of teacher, panel and agent keeps the invariant.
LEMMA CopilotStep ==
    ASSUME CopilotInv, [Next]_vars
    PROVE  CopilotInv'
<1>1. CASE Next
  <2>1. CASE Settled /\ Teacher
    <3>1. CASE \E w \in {"approve", "deny"} : Approve(w)
      BY <3>1, ApproveKeeps
    <3>2. CASE (\E r \in Runs : Send(r)) \/ Stop \/ (\E steer \in BOOLEAN : Queue(steer)) \/ Revert
               \/ \E th \in Threads : OpenThread(th) \/ NewConversation(th)
      BY <3>2, StoreStepKeeps
    <3> QED
      BY <2>1, <3>1, <3>2, Zenon DEF Teacher
  <2>2. CASE Settled /\ \E r \in Runs : Browser(r)
    BY <2>2, StoreStepKeeps
  <2>3. CASE Settled /\ \E p \in posts : RefusalArrives(p)
    BY <2>3, RefusalArrivesKeeps
  <2>4. CASE \E r \in Runs : Server(r) \/ LoopFails(r)
    BY <2>4, ServerKeeps, StoreStepKeeps
  <2>5. CASE \E p \in posts : ServerAnswers(p)
    BY <2>5, ServerAnswersKeeps
  <2>6. CASE Restart /\ UNCHANGED storeVars
    BY <2>6, RestartKeeps
  <2> QED
    BY <1>1, <2>1, <2>2, <2>3, <2>4, <2>5, <2>6 DEF Next
<1> QED
  BY <1>1, CopilotStutter

\* For any number of turns and calls, however they overlap, and whatever the
\* teacher, the timers and restarts do: the inductive invariant of the
\* copilot (agent.ts and copilot-store.svelte.ts together).
THEOREM CopilotInvariant == Spec => []CopilotInv
<1>1. Init => CopilotInv
  BY CopilotInit
<1>2. CopilotInv /\ [Next]_vars => CopilotInv'
  BY CopilotStep
<1> QED
  BY <1>1, <1>2, PTL DEF Spec

\* The checkpoint of a turn never shows a write of that turn which the
\* teacher was asked about: the snapshot is read before the request goes out
\* (agent.ts, the first grading write of a turn).
THEOREM CheckpointFirst == Spec => []CheckpointPrecedesWrite
<1>1. CopilotInv => CheckpointPrecedesWrite
  <2> SUFFICES ASSUME CopilotInv, NEW c \in checkpoint, c[2][1] = c[1]
               PROVE  \E k \in 1 .. Last(c[1]) : Unattended(<<c[1], k>>)
    BY DEF CheckpointPrecedesWrite
  <2>1. PICK k \in 1 .. Last(c[1]) : LetGo(c[1], k)
    BY DEF CopilotInv, CheckpointsGood, GoodCheckpoint
  <2>2. PICK r \in Runs : r = c[1]
    BY DEF CopilotInv, CheckpointsGood, GoodCheckpoint
  <2>3. k <= Last(r) /\ LetGo(r, k)
    BY <2>1, <2>2 DEF CopilotInv, CopilotTypes, RunRecords, Last
  <2>4. "approve" \notin Said(<<r, k>>)
    BY <2>3 DEF LetGo, Approved, Said
  <2>5. Unattended(<<r, k>>)
    BY <2>3, <2>4 DEF Unattended, Made, Fate, LetGo
  <2> QED
    BY <2>1, <2>2, <2>5
<1> QED
  BY <1>1, CopilotInvariant, PTL

\* In ask mode the turns of a thread run no more approval-class calls
\* unattended than the session's cap (permission.ts, rule 5), however many
\* turns overlap.
THEOREM CapHolds == Spec => []CapBoundsUnattended
<1>1. CopilotInv => CapBoundsUnattended
  <2> SUFFICES ASSUME CopilotInv, NEW th \in Threads PROVE Cardinality(Counted(th)) <= SessionCap
    BY DEF CapBoundsUnattended, Counted
  <2>1. Cardinality(Counted(th)) <= allowance[th] /\ allowance[th] <= SessionCap /\ allowance[th] \in Nat
    BY DEF CopilotInv, CapKept, CopilotTypes
  <2>2. Cardinality(Counted(th)) \in Nat
    BY CountedFinite, FS_CardinalityType
  <2> QED
    BY <2>1, <2>2, BoundsAssumption
<1> QED
  BY <1>1, CopilotInvariant, PTL

----------------------------------------------------------------------------
(***************************************************************************)
(* The gate: what becomes of the tool calls follows the abstract policy of *)
(* ToolGate, step by step.                                                 *)
(***************************************************************************)

GateFate == [c \in Calls |-> Fate(c)]
GateWord == [c \in Calls |-> Said(c)]
GateStep == [Gate!Next]_<<GateFate, GateWord>>

\* What has been said is the same.
SaidStays == \A c \in Calls : Said(c)' = Said(c)

CallsSame == \A s \in Runs : run'[s].calls = run[s].calls

\* A call is one of a turn.
LEMMA CallPairs ==
    ASSUME NEW c \in Calls
    PROVE  /\ c = <<c[1], c[2]>> /\ c[1] \in Runs /\ c[2] \in Nat /\ c[2] \in 1 .. MaxCalls
           /\ ("approve" \in Said(c) <=> Approved(c[1], c[2]))
<1>1. c = <<c[1], c[2]>> /\ c[1] \in Runs /\ c[2] \in 1 .. MaxCalls
  BY DEF Calls
<1> QED
  BY <1>1, BoundsAssumption DEF Said, Approved

\* Where no call and no word changes, the gate does not move.
LEMMA GateStutters ==
    ASSUME CallsSame, SaidStays
    PROVE  GateStep
<1>1. ASSUME NEW c \in Calls PROVE Fate(c)' = Fate(c)
  BY CallPairs DEF CallsSame, Fate, Made, Last, CallOf
<1>2. GateFate' = GateFate
  BY <1>1 DEF GateFate
<1>3. GateWord' = GateWord
  BY DEF GateWord, SaidStays
<1> QED
  BY <1>2, <1>3 DEF GateStep

\* One call moves as the gate allows.
LEMMA GateMoves ==
    ASSUME SaidStays, NEW c, NEW w, c \in Calls => Fate(c)' = w,
           \A b \in Calls : b # c => Fate(b)' = Fate(b),
           c \in Calls => \/ Fate(c) = "none" /\ w \in {"auto", "ask", "blocked"}
                          \/ Fate(c) = "ask" /\ w = "granted" /\ "approve" \in Said(c)
                          \/ Fate(c) \in {"ask", "blocked"} /\ w = "refused"
                          \/ Fate(c) \in {"auto", "granted"} /\ w = "ran"
    PROVE  GateStep
<1>1. GateWord' = GateWord
  BY DEF GateWord, SaidStays
<1>2. CASE c \notin Calls
  <2>1. GateFate' = GateFate
    BY <1>2 DEF GateFate
  <2> QED
    BY <1>1, <2>1 DEF GateStep
<1>3. CASE c \in Calls
  <2>1. GateFate' = [GateFate EXCEPT ![c] = w]
    BY <1>3 DEF GateFate
  <2>2. GateFate[c] = Fate(c) /\ GateWord[c] = Said(c)
    BY <1>3 DEF GateFate, GateWord
  <2>3. CASE Fate(c) = "none" /\ w \in {"auto", "ask", "blocked"}
    <3>1. Gate!Propose(c)
      BY <1>1, <2>1, <2>2, <2>3 DEF Gate!Propose, Gate!Becomes, GateFate, GateWord
    <3> QED
      BY <1>3, <3>1 DEF GateStep, Gate!Next
  <2>4. CASE Fate(c) = "ask" /\ w = "granted" /\ "approve" \in Said(c)
    <3>1. Gate!Grant(c)
      BY <1>1, <2>1, <2>2, <2>4 DEF Gate!Grant, Gate!Becomes, GateFate, GateWord
    <3> QED
      BY <1>3, <3>1 DEF GateStep, Gate!Next
  <2>5. CASE Fate(c) \in {"ask", "blocked"} /\ w = "refused"
    <3>1. Gate!Refuse(c)
      BY <1>1, <2>1, <2>2, <2>5 DEF Gate!Refuse, Gate!Becomes, GateFate, GateWord
    <3> QED
      BY <1>3, <3>1 DEF GateStep, Gate!Next
  <2>6. CASE Fate(c) \in {"auto", "granted"} /\ w = "ran"
    <3>1. Gate!Run(c)
      BY <1>1, <2>1, <2>2, <2>6 DEF Gate!Run, Gate!Becomes, GateFate, GateWord
    <3> QED
      BY <1>3, <3>1 DEF GateStep, Gate!Next
  <2> QED
    BY <1>3, <2>3, <2>4, <2>5, <2>6
<1> QED
  BY <1>2, <1>3

\* A call of a turn whose other calls stay.
LEMMA OneCallMoves ==
    ASSUME CopilotInv, NEW r \in Runs, NEW k \in 1 .. Last(r), NEW w,
           \A s \in Runs : s # r => run'[s] = run[s],
           run'[r].calls = [run[r].calls EXCEPT ![k] = [run[r].calls[k] EXCEPT !.fate = w]]
    PROVE  /\ Fate(<<r, k>>) = CallOf(r, k).fate /\ Fate(<<r, k>>)' = w
           /\ \A b \in Calls : b # <<r, k>> => Fate(b)' = Fate(b)
<1>1. /\ run[r].calls \in Seq(CallRecords) /\ k \in DOMAIN run[r].calls /\ run[r].calls[k] \in CallRecords
      /\ k \in Nat /\ Last(r) \in Nat /\ Last(r) = Len(run[r].calls)
  BY DEF CopilotInv, CopilotTypes, RunRecords, Last
<1>2. Last(r)' = Last(r)
  BY <1>1 DEF Last
<1>3. CallOf(r, k)'.fate = w
  BY <1>1 DEF CallOf, CallRecords
<1>4. Fate(<<r, k>>) = CallOf(r, k).fate /\ Fate(<<r, k>>)' = w
  BY <1>1, <1>2, <1>3 DEF Fate, Made
<1>5. ASSUME NEW b \in Calls, b # <<r, k>> PROVE Fate(b)' = Fate(b)
  <2>1. PICK s \in Runs, j \in Nat : b = <<s, j>> /\ j >= 1
    BY CallPairs
  <2>2. CASE s # r
    <3>1. run'[s] = run[s]
      BY <2>2
    <3> QED
      BY <2>1, <3>1 DEF Fate, Made, Last, CallOf
  <2>3. CASE s = r
    <3>1. j # k
      BY <1>5, <2>1, <2>3
    <3>2. CASE j <= Last(r)
      <4>1. j \in DOMAIN run[r].calls
        BY <1>1, <2>1, <3>2
      <4>2. run'[r].calls[j] = run[r].calls[j]
        BY <1>1, <3>1, <4>1
      <4> QED
        BY <1>2, <2>1, <2>3, <4>2 DEF Fate, Made, CallOf
    <3>3. CASE ~(j <= Last(r))
      BY <1>2, <2>1, <2>3, <3>3 DEF Fate, Made
    <3> QED
      BY <3>2, <3>3
  <2> QED
    BY <2>2, <2>3
<1> QED
  BY <1>4, <1>5

\* The words are those of the decisions POSTed.
LEMMA SaidByPosts ==
    ASSUME posts' = posts
    PROVE  SaidStays
BY DEF SaidStays, Said

\* The moves of a turn that leave its calls alone.
LEMMA MovesCallsSame ==
    ASSUME CopilotInv, RunMoves
    PROVE  CallsSame
<1>1. run \in [Runs -> RunRecords]
  BY DEF CopilotInv, CopilotTypes
<1>2. ASSUME NEW r \in Runs, NEW th, StartRun(r, th) PROVE CallsSame
  <2>1. PICK mode \in Modes :
         run' = [run EXCEPT ![r].thread = th, ![r].mode = mode,
                            ![r].phase = IF mode = "unreadable" THEN "ended" ELSE "reading",
                            ![r].over = (mode = "unreadable")]
    BY <1>2 DEF StartRun
  <2> DEFINE over == (mode = "unreadable")
  <2>2. run' = [run EXCEPT ![r].thread = th, ![r].mode = mode,
                            ![r].phase = IF mode = "unreadable" THEN "ended" ELSE "reading",
                            ![r].over = over]
    BY <2>1
  <2> HIDE DEF over
  <2> QED
    BY <1>1, <2>2 DEF CallsSame, RunRecords
<1>3. ASSUME NEW r, AbortRun(r) PROVE CallsSame
  <2> DEFINE gone == TRUE
             word == IF run[r].pending # 0 THEN "expired" ELSE run[r].outcome
  <2>1. run' = [run EXCEPT ![r].aborted = gone, ![r].feed = <<>>,
                           ![r].outcome = IF run[r].pending # 0 THEN "expired" ELSE @, ![r].pending = 0]
    BY <1>3 DEF AbortRun
  <2> HIDE DEF gone, word
  <2>2. CASE r \in Runs
    BY <1>1, <2>1, <2>2 DEF CallsSame, RunRecords
  <2>3. CASE r \notin Runs
    BY <1>1, <2>1, <2>3 DEF CallsSame
  <2> QED
    BY <2>2, <2>3
<1> QED
  BY <1>2, <1>3 DEF RunMoves, CallsSame

\* A step of the server moves one call, as the gate allows, or none.
LEMMA ServerGate ==
    ASSUME CopilotInv, NEW r \in Runs, Server(r)
    PROVE  GateStep
<1>1. /\ run \in [Runs -> RunRecords] /\ run[r] \in RunRecords /\ run[r].calls \in Seq(CallRecords)
      /\ Last(r) \in Nat /\ Last(r) = Len(run[r].calls)
      /\ Waits(r) /\ GrantsApproved(r) /\ FeedInOrder(r) /\ AskedLast(r)
  BY DEF CopilotInv, CopilotTypes, RunRecords, Last
<1>2. SaidStays
  BY SaidByPosts DEF Server, storeVars
<1>3. ASSUME NEW t \in Tools, ModelCalls(r, t) PROVE GateStep
  <2>1. PICK n \in Nat : n = Last(r)
    BY <1>1
  <2>2. PICK d \in {"auto", "ask", "blocked"} : d = Resolve(r, t)
    BY <1>3, ModelCallsFacts
  <2>3. /\ \A s \in Runs : s # r => run'[s] = run[s]
        /\ run'[r].calls = Append(run[r].calls, [tool |-> t, fate |-> d])
    BY <1>3, <2>2, ModelCallsFacts
  <2>4. PICK call \in CallRecords : call = [tool |-> t, fate |-> d]
    BY DEF CallRecords
  <2>5. /\ Last(r)' = n + 1 /\ CallOf(r, n + 1)'.fate = d
        /\ \A j \in 1 .. n : CallOf(r, j)' = CallOf(r, j)
    BY <1>1, <2>1, <2>3, <2>4 DEF Last, CallOf
  <2>6. Fate(<<r, n + 1>>) = "none" /\ Fate(<<r, n + 1>>)' = d
    BY <2>1, <2>5 DEF Fate, Made
  <2>7. ASSUME NEW b \in Calls, b # <<r, n + 1>> PROVE Fate(b)' = Fate(b)
    <3>1. PICK s \in Runs, j \in Nat : b = <<s, j>> /\ j >= 1
      BY CallPairs
    <3>2. CASE s # r
      <4>1. run'[s] = run[s]
        BY <2>3, <3>2
      <4> QED
        BY <3>1, <4>1 DEF Fate, Made, Last, CallOf
    <3>3. CASE s = r /\ j <= n
      BY <2>1, <2>5, <3>1, <3>3 DEF Fate, Made
    <3>4. CASE s = r /\ j > n + 1
      BY <2>1, <2>5, <3>1, <3>4 DEF Fate, Made
    <3>5. s = r => j # n + 1
      BY <2>7, <3>1
    <3> QED
      BY <3>1, <3>2, <3>3, <3>4, <3>5
  <2>8. PICK c : c = <<r, n + 1>>
    OBVIOUS
  <2> QED
    BY <1>2, <2>6, <2>7, <2>8, GateMoves
<1>4. ASSUME NEW ok, ToolRuns(r, ok) PROVE GateStep
  <2>1. PICK k \in Nat : k = Last(r)
    BY <1>1
  <2>2. /\ run[r].calls # <<>> /\ CallOf(r, k).fate \in {"auto", "granted"}
        /\ k \in 1 .. Last(r) /\ k \in DOMAIN run[r].calls /\ run[r].calls[k] \in CallRecords
    BY <1>1, <1>4, <2>1 DEF ToolRuns
  <2>3. PICK fed : fed = Feed(r, <<<<"tool-result", k>>>>)
    OBVIOUS
  <2>4. run' = [run EXCEPT ![r] = [run[r] EXCEPT !.feed = fed,
                  !.calls = [run[r].calls EXCEPT ![k] = [run[r].calls[k] EXCEPT !.fate = "ran"]]]]
    BY <1>1, <1>4, <2>1, <2>2, <2>3 DEF ToolRuns, RunRecords
  <2>5. /\ \A s \in Runs : s # r => run'[s] = run[s]
        /\ run'[r].calls = [run[r].calls EXCEPT ![k] = [run[r].calls[k] EXCEPT !.fate = "ran"]]
    BY <1>1, <2>4 DEF RunRecords
  <2>6. /\ Fate(<<r, k>>) = CallOf(r, k).fate /\ Fate(<<r, k>>)' = "ran"
        /\ \A b \in Calls : b # <<r, k>> => Fate(b)' = Fate(b)
    BY <2>2, <2>5, OneCallMoves
  <2>7. PICK c : c = <<r, k>>
    OBVIOUS
  <2> QED
    BY <1>2, <2>2, <2>6, <2>7, GateMoves
<1>5. ASSUME Decide(r) PROVE GateStep
  <2>1. run[r].phase = "waiting"
    BY <1>5 DEF Decide
  <2>2. PICK at \in Nat : at = run[r].at
    BY <1>1 DEF RunRecords
  <2>3. /\ at = Last(r) /\ at \in 1 .. Last(r) /\ CallOf(r, at).fate \in {"ask", "blocked"}
        /\ run[r].decisions[CallOf(r, at).tool] = CallOf(r, at).fate
        /\ (run[r].outcome = "approve" => Approved(r, at))
    BY <1>1, <2>1, <2>2 DEF Waits, AskedLast, Undecided
  <2>4. at \in DOMAIN run[r].calls /\ run[r].calls[at] \in CallRecords
    BY <1>1, <2>3
  <2>5. PICK w \in {"granted", "refused"} : w = IF Effective(r) THEN "granted" ELSE "refused"
    OBVIOUS
  <2>6. w = "granted" => Approved(r, at) /\ CallOf(r, at).fate = "ask"
    BY <2>2, <2>3, <2>5 DEF Effective, Recorded
  <2>7. run' = [run EXCEPT ![r] = [run[r] EXCEPT !.phase = "reading", !.outcome = "none",
                  !.calls = [run[r].calls EXCEPT ![at] = [run[r].calls[at] EXCEPT !.fate = w]]]]
    BY <1>1, <1>5, <2>2, <2>4, <2>5 DEF Decide, RunRecords
  <2>8. /\ \A s \in Runs : s # r => run'[s] = run[s]
        /\ run'[r].calls = [run[r].calls EXCEPT ![at] = [run[r].calls[at] EXCEPT !.fate = w]]
    BY <1>1, <2>7 DEF RunRecords
  <2>9. /\ Fate(<<r, at>>) = CallOf(r, at).fate /\ Fate(<<r, at>>)' = w
        /\ \A b \in Calls : b # <<r, at>> => Fate(b)' = Fate(b)
    BY <2>3, <2>8, OneCallMoves
  <2>10. PICK c : c = <<r, at>>
    OBVIOUS
  <2>11. w = "granted" => "approve" \in Said(c)
    BY <2>6, <2>10 DEF Said, Approved
  <2> QED
    BY <1>2, <2>3, <2>5, <2>6, <2>9, <2>10, <2>11, GateMoves
<1>6. ASSUME CallsSame PROVE GateStep
  BY <1>2, <1>6, GateStutters
<1>7. ASSUME run' = [run EXCEPT ![r] = Return(r)] PROVE CallsSame
  BY <1>1, <1>7, ReturnRecord DEF CallsSame
<1>8. ASSUME ReadFinish(r) \/ StopReading(r) \/ StopWaiting(r) PROVE CallsSame
  BY <1>7, <1>8, Zenon DEF ReadFinish, StopReading, StopWaiting
<1>9. ASSUME ReadToolCall(r) PROVE CallsSame
  <2> DEFINE k == Head(run[r].feed)[2]
             done == TRUE
  <2>1. CASE NeedsCheckpoint(r, k)
    <3>1. run' = [run EXCEPT ![r].feed = Tail(@), ![r].checkpointed = done, ![r].phase = "snapshot"]
      BY <1>9, <2>1 DEF ReadToolCall
    <3> HIDE DEF done
    <3> QED
      BY <1>1, <3>1 DEF CallsSame, RunRecords
  <2>2. CASE ~NeedsCheckpoint(r, k)
    <3>1. run' = [run EXCEPT ![r].feed = Tail(@)]
      BY <1>9, <2>2 DEF ReadToolCall
    <3> QED
      BY <1>1, <3>1 DEF CallsSame, RunRecords
  <2> QED
    BY <2>1, <2>2
<1>10. ASSUME TakeSnapshot(r) PROVE CallsSame
  BY <1>1, <1>10 DEF TakeSnapshot, CallsSame, RunRecords
<1>11. ASSUME ReadOther(r) PROVE CallsSame
  BY <1>1, <1>11 DEF ReadOther, CallsSame, RunRecords
<1>12. ASSUME RequestApproval(r) PROVE CallsSame
  BY <1>1, <1>12 DEF RequestApproval, CallsSame, RunRecords
<1>13. ASSUME Expire(r) PROVE CallsSame
  BY <1>1, <1>13 DEF Expire, CallsSame, RunRecords
<1>14. ASSUME NEW last, ModelEnds(r, last) PROVE CallsSame
  <2> DEFINE done == TRUE
             fed == Feed(r, last)
  <2>1. run' = [run EXCEPT ![r].over = done, ![r].feed = fed]
    BY <1>14 DEF ModelEnds
  <2> HIDE DEF done, fed
  <2> QED
    BY <1>1, <2>1 DEF CallsSame, RunRecords
<1>15. CASE RunChat(r)
  BY <1>5, <1>6, <1>8, <1>9, <1>10, <1>11, <1>12, <1>15, Zenon DEF RunChat
<1>16. CASE Mastra(r)
  BY <1>3, <1>4, <1>6, <1>14, <1>16, Zenon DEF Mastra
<1> QED
  BY <1>6, <1>13, <1>15, <1>16, Zenon DEF Server

\* What becomes of a decision is not a word.
LEMMA BecomesSaid ==
    ASSUME CopilotInv, NEW p \in posts, NEW state, Becomes(p, state)
    PROVE  SaidStays
<1>1. PICK q : q = [p EXCEPT !.state = state]
  OBVIOUS
<1>2. q.call = p.call /\ q.word = p.word
  BY <1>1, StoreFacts
<1>3. posts' = (posts \ {p}) \cup {q}
  BY <1>1 DEF Becomes
<1> SUFFICES ASSUME NEW c \in Calls PROVE Said(c)' = Said(c)
  BY DEF SaidStays
<1>4. ASSUME NEW w PROVE w \in Said(c)' <=> w \in Said(c)
  BY <1>2, <1>3 DEF Said
<1> QED
  BY <1>4

\* The teacher speaks of a call that waits.
LEMMA ApproveGate ==
    ASSUME CopilotInv, NEW w \in {"approve", "deny"}, Approve(w)
    PROVE  GateStep
<1>1. PICK c \in card : /\ posts' = posts \cup {[call |-> c, word |-> w, state |-> "sent"]}
                        /\ run' = run
  BY DEF Approve, agentVars
<1>2. PICK p : p = [call |-> c, word |-> w, state |-> "sent"]
  OBVIOUS
<1>3. p.call = c /\ p.word = w /\ posts' = posts \cup {p}
  BY <1>1, <1>2
<1>4. ASSUME NEW b \in Calls
      PROVE  Said(b)' = IF b = c THEN Said(b) \cup {w} ELSE Said(b)
  <2>1. ASSUME NEW v PROVE v \in Said(b)' <=> v \in Said(b) \/ (b = c /\ v = w)
    BY <1>3 DEF Said
  <2> QED
    BY <2>1
<1>5. CallsSame
  BY <1>1 DEF CallsSame
<1>6. CASE c \notin Calls
  <2>1. SaidStays
    BY <1>4, <1>6 DEF SaidStays
  <2> QED
    BY <1>5, <2>1, GateStutters
<1>7. CASE c \in Calls
  <2>1. GateFate' = GateFate
    <3>1. ASSUME NEW b \in Calls PROVE Fate(b)' = Fate(b)
      BY <1>1 DEF Fate, Made, Last, CallOf
    <3> QED
      BY <3>1 DEF GateFate
  <2>2. GateWord' = [GateWord EXCEPT ![c] = @ \cup {w}]
    BY <1>4, <1>7 DEF GateWord
  <2>3. GateFate[c] \notin {"none", "auto"}
    <3>1. PICK r \in Runs, k \in Nat : c = <<r, k>>
      BY <1>7, CallPairs
    <3>2. k \in 1 .. Last(r) /\ CallOf(r, k).fate # "auto"
      BY <3>1, StoreFacts DEF Requested, AskedFor
    <3>3. run[r].calls \in Seq(CallRecords) /\ k \in DOMAIN run[r].calls
      BY <3>2 DEF CopilotInv, CopilotTypes, RunRecords, Last
    <3>4. CallOf(r, k).fate # "none"
      <4>1. PICK call \in CallRecords : call = run[r].calls[k]
        BY <3>3
      <4>2. call.fate # "none"
        BY DEF CallRecords
      <4> QED
        BY <4>1, <4>2 DEF CallOf
    <3>5. k <= Last(r)
      BY <3>2, <3>3 DEF Last
    <3> QED
      BY <1>7, <3>1, <3>2, <3>4, <3>5 DEF GateFate, Fate, Made
  <2>4. Gate!Say(c)
    BY <2>1, <2>2, <2>3 DEF Gate!Say, Gate!Words, GateFate, GateWord
  <2> QED
    BY <1>7, <2>4 DEF GateStep, Gate!Next
<1> QED
  BY <1>6, <1>7

\* Every step of the copilot is a step of the gate on the calls, or none.
LEMMA GateFollows ==
    ASSUME CopilotInv, [Next]_vars
    PROVE  GateStep
<1>1. ASSUME RunMoves, posts' = posts PROVE GateStep
  BY <1>1, MovesCallsSame, SaidByPosts, GateStutters
<1>2. ASSUME NEW p \in posts, NEW state, Becomes(p, state), RunMoves PROVE GateStep
  BY <1>2, MovesCallsSame, BecomesSaid, GateStutters
<1>3. CASE Settled /\ Teacher
  <2>1. ASSUME NEW r \in Runs, Send(r) PROVE RunMoves /\ posts' = posts
    BY <2>1 DEF Send, Open, RunMoves
  <2>2. ASSUME Stop PROVE RunMoves /\ posts' = posts
    BY <2>2 DEF Stop, Abort, RunMoves
  <2>3. ASSUME NEW steer, Queue(steer) PROVE RunMoves /\ posts' = posts
    BY <2>3, Zenon DEF Queue, agentVars, RunMoves
  <2>4. ASSUME NEW th, OpenThread(th) \/ NewConversation(th) PROVE RunMoves /\ posts' = posts
    BY <2>4 DEF OpenThread, NewConversation, agentVars, RunMoves
  <2>5. ASSUME Revert PROVE RunMoves /\ posts' = posts
    BY <2>5 DEF Revert, RunMoves
  <2> QED
    BY <1>1, <1>3, <2>1, <2>2, <2>3, <2>4, <2>5, ApproveGate, Zenon DEF Teacher
<1>4. ASSUME NEW r \in Runs, Browser(r) \/ LoopFails(r) PROVE RunMoves /\ posts' = posts
  <2>1. ASSUME ReadFrame(r) PROVE RunMoves /\ posts' = posts
    <3>1. \/ Finish(r, FALSE) \/ AbortRun(controller) \/ UNCHANGED run
      BY <2>1, Zenon DEF ReadFrame
    <3> QED
      BY <2>1, <3>1, FinishMoves, Zenon DEF RunMoves, ReadFrame
  <2>2. ASSUME StreamEnds(r) PROVE RunMoves /\ posts' = posts
    BY <2>2, FinishMoves DEF StreamEnds
  <2>3. ASSUME HardCapFires(r) PROVE RunMoves /\ posts' = posts
    BY <2>3 DEF HardCapFires, Abort, RunMoves
  <2>4. ASSUME LoopFails(r) PROVE RunMoves /\ posts' = posts
    BY <2>4, FinishMoves, Zenon DEF LoopFails
  <2> QED
    BY <1>4, <2>1, <2>2, <2>3, <2>4, Zenon DEF Browser
<1>5. ASSUME NEW p \in posts, RefusalArrives(p) PROVE GateStep
  BY <1>2, <1>5, Zenon DEF RefusalArrives, agentVars, RunMoves
<1>6. ASSUME NEW p \in posts, ServerAnswers(p) PROVE GateStep
  <2>1. CASE Becomes(p, "refused") /\ UNCHANGED run
    BY <1>2, <2>1 DEF RunMoves
  <2>2. CASE Becomes(p, "accepted") /\ AnswerApproval(p.call[1], p.call[2], p.word)
    <3>1. CallsSame
      BY <2>2 DEF AnswerApproval, CallsSame, CopilotInv, CopilotTypes, RunRecords
    <3>2. SaidStays
      BY <2>2, BecomesSaid
    <3> QED
      BY <3>1, <3>2, GateStutters
  <2> QED
    BY <1>6, <2>1, <2>2 DEF ServerAnswers
<1>7. CASE Restart /\ UNCHANGED storeVars
  <2>1. ASSUME NEW s \in Runs PROVE run'[s].calls = run[s].calls
    <3> DEFINE over == TRUE
    <3>1. run'[s] = IF run[s].phase = "none" THEN run[s] ELSE [Return(s) EXCEPT !.phase = "lost", !.over = over]
      BY <1>7 DEF Restart
    <3> HIDE DEF over
    <3>2. PICK v \in RunRecords : v = Return(s) /\ v.calls = run[s].calls
      BY ReturnRecord
    <3>3. CASE run[s].phase = "none"
      BY <3>1, <3>3
    <3>4. CASE run[s].phase # "none"
      BY <3>1, <3>2, <3>4 DEF RunRecords
    <3> QED
      BY <3>3, <3>4
  <2>2. SaidStays
    BY <1>7, SaidByPosts DEF storeVars
  <2> QED
    BY <2>1, <2>2, GateStutters DEF CallsSame
<1>8. CASE UNCHANGED vars
  BY <1>1, <1>8 DEF vars, agentVars, storeVars, RunMoves
<1> QED
  BY <1>1, <1>3, <1>4, <1>5, <1>6, <1>7, <1>8, ServerGate, Zenon DEF Next

\* Whatever the order of timers, aborts, answers and restarts, the copilot
\* implements the gate: only the policy, or the teacher's own approval of that
\* very call, lets a call run, a blocked one never does, and none runs twice
\* (agent.ts decisions 3 and 4).
THEOREM CopilotImplementsGate == Spec => CallsPassTheGate
<1>1. Init => Gate!Init
  <2> SUFFICES ASSUME Init PROVE Gate!Init
    OBVIOUS
  <2>1. ASSUME NEW c \in Calls PROVE Fate(c) = "none" /\ Said(c) = {}
    <3>1. PICK r \in Runs, k \in Nat : c = <<r, k>> /\ k >= 1
      BY CallPairs
    <3>2. Last(r) = 0 /\ posts = {}
      BY CopilotInit DEF Init, AgentInit, NoRun, Last
    <3> QED
      BY <3>1, <3>2 DEF Fate, Made, Said
  <2> QED
    BY <2>1 DEF Gate!Init
<1>2. CopilotInv /\ [Next]_vars => [Gate!Next]_<<GateFate, GateWord>>
  BY GateFollows DEF GateStep
<1> QED
  BY <1>1, <1>2, CopilotInvariant, PTL DEF Spec, CallsPassTheGate, Gate!Spec, GateFate, GateWord
=============================================================================
