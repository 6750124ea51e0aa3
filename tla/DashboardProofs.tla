-------------------------- MODULE DashboardProofs --------------------------
(***************************************************************************)
(* Proofs about the dashboard, for any assignments and rows, whatever the  *)
(* teacher does, however many calls overlap and fail: what keeps the       *)
(* polling loop alive, and what an archive may take.                       *)
(***************************************************************************)
EXTENDS Dashboard, TLAPS

StoreFields == {"of", "list", "timer", "pollInFlight", "preEvalActive", "archivedToo"}

\* The list's store is one record, and its loop runs while it shows a
\* pre-evaluation as active.
Polled(st) ==
    /\ st = [f \in StoreFields |-> st[f]]
    /\ st.preEvalActive \in BOOLEAN
    /\ st.preEvalActive => st.timer

\* While the page is shown, its registry and the store agree in one direction: the
\* store may still poll when the registry has let go, never the other way round.
\* This is PreEvalIsPolled in two steps, of which the store keeps the second by
\* itself, whatever is shown.
DashInv ==
    /\ shown \in BOOLEAN
    /\ registry \in [RunKinds -> BOOLEAN]
    /\ Polled(store)
    /\ shown /\ registry["preEval"] => store.preEvalActive

\* syncPolling restores the loop from whatever it was, and leaves the flag.
LEMMA SyncKeeps ==
    ASSUME NEW st, st = [f \in StoreFields |-> st[f]], st.preEvalActive \in BOOLEAN
    PROVE  Polled(SyncPolling(st)) /\ SyncPolling(st).preEvalActive = st.preEvalActive
<1> DEFINE work == HasActiveWork(st)
<1>1. work \in BOOLEAN
  BY DEF HasActiveWork
<1>2. SyncPolling(st) = [st EXCEPT !.timer = st.preEvalActive \/ work]
  BY DEF SyncPolling
<1>3. PICK on \in BOOLEAN : on <=> (st.preEvalActive \/ work)
  BY <1>1
<1> HIDE DEF work
<1>4. (st.preEvalActive \/ work) = on
  BY <1>1, <1>3
<1>5. SyncPolling(st) = [st EXCEPT !.timer = on]
  BY <1>2, <1>4
<1> QED
  BY <1>3, <1>5 DEF Polled, StoreFields

\* setPreEvalActive puts the flag where it was asked to, and the loop with it.
LEMMA SetKeeps ==
    ASSUME NEW st, Polled(st), NEW active \in BOOLEAN
    PROVE  Polled(SetPreEvalActive(st, active)) /\ SetPreEvalActive(st, active).preEvalActive = active
<1>1. CASE st.preEvalActive = active
  BY <1>1 DEF SetPreEvalActive
<1>2. CASE st.preEvalActive # active
  <2> DEFINE new == [st EXCEPT !.preEvalActive = active]
  <2>1. new = [f \in StoreFields |-> new[f]] /\ new.preEvalActive = active
    BY DEF Polled, StoreFields
  <2>2. SetPreEvalActive(st, active) = SyncPolling(new)
    BY <1>2 DEF SetPreEvalActive
  <2> HIDE DEF new
  <2> QED
    BY <2>1, <2>2, SyncKeeps
<1> QED
  BY <1>1, <1>2

\* The effect puts it there while the page is shown, and else does nothing.
LEMMA FollowsKeeps ==
    ASSUME NEW st, Polled(st), NEW active \in BOOLEAN
    PROVE  /\ Polled(StoreFollows(st, active))
           /\ shown => StoreFollows(st, active).preEvalActive = active
<1>1. CASE shown
  BY <1>1, SetKeeps DEF StoreFollows
<1>2. CASE ~shown
  BY <1>2 DEF StoreFollows
<1> QED
  BY <1>1, <1>2

\* Whatever a list is fetched for, what follows its arrival keeps the loop alive
\* while the registry shows a pre-evaluation.
LEMMA FollowKeeps ==
    ASSUME DashInv, NEW op, NEW st, Polled(st), st.preEvalActive = store.preEvalActive, Follow(op, st),
           shown' = shown
    PROVE  DashInv'
<1>0. st = [f \in StoreFields |-> st[f]] /\ st.preEvalActive \in BOOLEAN
  BY DEF Polled
<1>1. CASE op \in {"load", "filter", "upload"} /\ store' = SyncPolling(st) /\ UNCHANGED <<registry, posts, bulk>>
  <2>1. Polled(store') /\ store'.preEvalActive = st.preEvalActive
    BY <1>0, <1>1, SyncKeeps
  <2> QED
    BY <1>1, <2>1 DEF DashInv, Polled
<1>2. CASE op = "refresh" /\ store' = st /\ UNCHANGED <<registry, posts, bulk>>
  BY <1>2 DEF DashInv, Polled
<1>3. CASE op = "poll" /\ store' = PollEnds(st) /\ UNCHANGED <<registry, posts, bulk>>
  <2> DEFINE new == [st EXCEPT !.pollInFlight = FALSE]
  <2>1. new = [f \in StoreFields |-> new[f]] /\ new.preEvalActive = st.preEvalActive
    BY <1>0 DEF StoreFields
  <2>2. store' = SyncPolling(new)
    BY <1>3 DEF PollEnds
  <2> HIDE DEF new
  <2>3. Polled(store') /\ store'.preEvalActive = st.preEvalActive
    BY <1>0, <2>1, <2>2, SyncKeeps
  <2> QED
    BY <1>3, <2>3 DEF DashInv, Polled
<1>4. CASE op = "process" /\ store' = SyncPolling(st) /\ bulk' = NoBulk /\ MarkRunFinished("process")
  <2>1. Polled(store') /\ store'.preEvalActive = st.preEvalActive
    BY <1>0, <1>4, SyncKeeps
  <2>2. registry' \in [RunKinds -> BOOLEAN] /\ registry'["preEval"] = registry["preEval"]
    BY <1>4 DEF DashInv, MarkRunFinished, RunKinds
  <2> QED
    BY <2>1, <2>2 DEF DashInv, Polled
<1>5. CASE op = "preEval" /\ store' = StoreFollows(st, FALSE) /\ MarkRunFinished("preEval") /\ UNCHANGED bulk
  <2>1. Polled(store')
    BY <1>5, FollowsKeeps
  <2>2. registry' \in [RunKinds -> BOOLEAN] /\ ~registry'["preEval"]
    BY <1>5 DEF DashInv, MarkRunFinished, RunKinds
  <2> QED
    BY <2>1, <2>2 DEF DashInv, Polled
<1>6. CASE op = "bulk" /\ store' = st /\ bulk' = NoBulk /\ UNCHANGED <<registry, posts>>
  BY <1>6 DEF DashInv, Polled
<1> QED
  BY <1>1, <1>2, <1>3, <1>4, <1>5, <1>6 DEF Follow

\* A field of the store other than the flag and the timer is of no account.
LEMMA StoreEdited ==
    ASSUME NEW st, Polled(st), NEW a, NEW b
    PROVE  /\ Polled([st EXCEPT !.list = b])
           /\ [st EXCEPT !.list = b].preEvalActive = st.preEvalActive
           /\ Polled([st EXCEPT !.archivedToo = a])
           /\ [st EXCEPT !.archivedToo = a].preEvalActive = st.preEvalActive
           /\ Polled([st EXCEPT !.pollInFlight = a])
           /\ [st EXCEPT !.pollInFlight = a].preEvalActive = st.preEvalActive
BY DEF Polled, StoreFields

\* The page opens with nothing armed and no loop.
LEMMA FreshPolled == Polled(FreshStore) /\ FreshStore.preEvalActive = FALSE
BY DEF Polled, FreshStore, StoreFields

\* The initial state is a page that opens.
LEMMA DashInit == Init => DashInv
BY FreshPolled DEF Init, DashInv, RunKinds

\* A step that leaves registry and store alone keeps what they have in common.
LEMMA DashUntouched == DashInv /\ UNCHANGED <<store, registry, shown>> => DashInv'
BY DEF DashInv, Polled

\* The calls for the list that land, are lost or start.
LEMMA CallsKeep ==
    ASSUME DashInv, NEW c, ListAnswered(c) \/ ListLands(c) \/ SelectLands(c) \/ PanelLoaded(c) \/ ListLost(c)
    PROVE  DashInv'
<1>0. Polled(store)
  BY DEF DashInv
<1>1. CASE ListAnswered(c)
  BY <1>1, DashUntouched DEF ListAnswered, dashRuns, dashPage
<1>2. CASE ListLands(c)
  <2> DEFINE st == [store EXCEPT !.of = c.of, !.list = c.answer]
  <2>1. Polled(st) /\ st.preEvalActive = store.preEvalActive
    BY <1>0 DEF Polled, StoreFields
  <2>2. Follow(c.op, st) /\ shown' = shown
    BY <1>2 DEF ListLands, dashPage
  <2> HIDE DEF st
  <2> QED
    BY <2>1, <2>2, FollowKeeps
<1>3. CASE PanelLoaded(c)
  <2> DEFINE st == [store EXCEPT !.of = c.of, !.list = c.answer]
  <2>1. Polled(st) /\ st.preEvalActive = store.preEvalActive
    BY <1>0 DEF Polled, StoreFields
  <2>2. store' = SyncPolling(st) /\ registry' = registry /\ shown' = shown
    BY <1>3 DEF PanelLoaded, dashRuns, dashPage
  <2> HIDE DEF st
  <2>3. Polled(store') /\ store'.preEvalActive = st.preEvalActive
    BY <2>1, <2>2, SyncKeeps DEF Polled
  <2> QED
    BY <2>1, <2>2, <2>3 DEF DashInv, Polled
<1>4. CASE ListLost(c)
  <2>0. shown' = shown
    BY <1>4 DEF ListLost, dashPage
  <2>1. CASE UNCHANGED <<store, registry, posts, bulk>>
    BY <2>0, <2>1, DashUntouched
  <2>2. CASE Follow(c.op, store)
    BY <1>0, <2>0, <2>2, FollowKeeps
  <2> QED
    BY <1>4, <2>1, <2>2 DEF ListLost
<1>5. CASE SelectLands(c)
  <2>0. registry' = registry /\ shown' = shown
    BY <1>5 DEF SelectLands, dashRuns, dashPage
  <2>1. store' = store \/ \E s, to : store' = ApplyRecord([store EXCEPT !.of = c.of], s, to)
    BY <1>5 DEF SelectLands
  <2>2. ASSUME NEW s, NEW to, store' = ApplyRecord([store EXCEPT !.of = c.of], s, to)
        PROVE  Polled(store') /\ store'.preEvalActive = store.preEvalActive
    <3>1. Polled([store EXCEPT !.of = c.of]) /\ [store EXCEPT !.of = c.of].preEvalActive = store.preEvalActive
      BY <1>0 DEF Polled, StoreFields
    <3> QED
      BY <2>2, <3>1, StoreEdited DEF ApplyRecord
  <2> QED
    BY <1>0, <2>0, <2>1, <2>2 DEF DashInv, Polled
<1> QED
  BY <1>1, <1>2, <1>3, <1>4, <1>5

\* Arming a run arms its kind and no other.
LEMMA ArmArms ==
    ASSUME DashInv, NEW kind \in RunKinds, NEW refused, NEW of, NEW targets, Arm(kind, refused, of, targets)
    PROVE  /\ registry' \in [RunKinds -> BOOLEAN]
           /\ kind # "preEval" => registry'["preEval"] = registry["preEval"]
BY DEF DashInv, Arm, RunKinds

\* The end of a POST that failed takes its kind down in the registry and, for a
\* pre-evaluation, in the store.
LEMMA FailedKeeps ==
    ASSUME DashInv, NEW kind \in RunKinds, PostFailed(kind)
    PROVE  DashInv'
<1>1. registry' = [registry EXCEPT ![kind] = FALSE] /\ shown' = shown
  BY DEF PostFailed, MarkRunFinished, dashPage
<1>2. CASE kind = "process" /\ bulk' = NoBulk /\ UNCHANGED store
  BY <1>1, <1>2 DEF DashInv, Polled, RunKinds
<1>3. CASE kind = "preEval" /\ store' = StoreFollows(store, FALSE) /\ UNCHANGED bulk
  <2>1. Polled(store')
    BY <1>3, FollowsKeeps DEF DashInv
  <2>2. registry' \in [RunKinds -> BOOLEAN] /\ ~registry'["preEval"]
    BY <1>1, <1>3 DEF DashInv, RunKinds
  <2> QED
    BY <1>1, <2>1, <2>2 DEF DashInv, Polled
<1> QED
  BY <1>2, <1>3 DEF PostFailed

\* What the teacher does: only the two buttons that arm a run, the filter and the
\* reload touch the store or the registry.
LEMMA DeedKeeps == ASSUME DashInv, Deed PROVE DashInv'
<1>1. CASE HandleBulkProcess
  <2>1. /\ \E refused, of, targets : Arm("process", refused, of, targets)
        /\ store' = [store EXCEPT !.timer = TRUE]
        /\ shown' = shown
    BY <1>1 DEF HandleBulkProcess, dashPage
  <2>2. registry' \in [RunKinds -> BOOLEAN] /\ registry'["preEval"] = registry["preEval"]
    BY <2>1, ArmArms DEF RunKinds
  <2>3. Polled(store') /\ store'.preEvalActive = store.preEvalActive
    BY <2>1 DEF DashInv, Polled, StoreFields
  <2> QED
    BY <2>1, <2>2, <2>3 DEF DashInv, Polled
<1>2. CASE HandlePreEvaluateAll
  <2>1. /\ \E refused, of, targets : Arm("preEval", refused, of, targets)
        /\ store' = StoreFollows(store, TRUE)
        /\ shown' = shown
    BY <1>2 DEF HandlePreEvaluateAll, dashPage
  <2>2. registry' \in [RunKinds -> BOOLEAN]
    BY <2>1, ArmArms DEF RunKinds
  <2>3. Polled(store') /\ (shown => store'.preEvalActive = TRUE)
    BY <2>1, FollowsKeeps DEF DashInv
  <2> QED
    BY <2>1, <2>2, <2>3 DEF DashInv, Polled
<1>3. CASE \E op \in {"archive", "restore", "delete", "reset"} \cap Deeds : RunBulk(op)
  BY <1>3, DashUntouched DEF RunBulk, dashPage
<1>4. CASE HandleAssignmentChange
  BY <1>4, DashUntouched DEF HandleAssignmentChange, dashRuns, dashPage
<1>5. CASE HandleStatusFilterChange
  <2>0. registry' = registry /\ shown' = shown
    BY <1>5 DEF HandleStatusFilterChange, dashRuns, dashPage
  <2>1. PICK a \in BOOLEAN : store' = [store EXCEPT !.archivedToo = a]
    BY <1>5 DEF HandleStatusFilterChange
  <2>2. Polled(store') /\ store'.preEvalActive = store.preEvalActive
    BY <2>1, StoreEdited DEF DashInv
  <2> QED
    BY <2>0, <2>2 DEF DashInv, Polled
<1>6. CASE StartUpload
  BY <1>6, DashUntouched DEF StartUpload, dashRuns, dashPage
<1>7. CASE HandlePreEvalReset
  BY <1>7, DashUntouched DEF HandlePreEvalReset, dashRuns, dashPage
<1>8. CASE Reload
  <2>1. store' = FreshStore /\ registry' = [k \in RunKinds |-> FALSE] /\ shown' = shown
    BY <1>8 DEF Reload
  <2> QED
    BY <2>1, FreshPolled DEF DashInv, RunKinds, Polled
<1>9. CASE Leave
  <2>1. UNCHANGED <<store, registry>> /\ shown' = FALSE
    BY <1>9 DEF Leave, dashRuns
  <2> QED
    BY <2>1 DEF DashInv, Polled
<1> QED
  BY <1>1, <1>2, <1>3, <1>4, <1>5, <1>6, <1>7, <1>8, <1>9 DEF Deed

\* The effect of a page that opens brings the store in line, whatever has become of
\* the run since the last one was left.
LEMMA ReturnKeeps == ASSUME DashInv, Return PROVE DashInv'
<1>1. store' = SetPreEvalActive(store, registry["preEval"]) /\ registry' = registry /\ shown' = TRUE
  BY DEF Return
<1>2. Polled(store') /\ store'.preEvalActive = registry["preEval"]
  BY <1>1, SetKeeps DEF DashInv, RunKinds
<1> QED
  BY <1>1, <1>2 DEF DashInv, Polled

\* After a reload the page arms what the server says is running, and the store
\* with it.
LEMMA RestoreKeeps == ASSUME DashInv, RestoreLands PROVE DashInv'
<1>1. registry' = [k \in RunKinds |-> registry[k] \/ k \in restore.running]
  BY DEF RestoreLands
<1>0. shown' = shown
  BY DEF RestoreLands, dashPage
<1>2. registry' \in [RunKinds -> BOOLEAN] /\ (registry'["preEval"] <=> registry["preEval"] \/ "preEval" \in restore.running)
  BY <1>1, Zenon DEF DashInv, RunKinds
<1>3. CASE "preEval" \in restore.running
  <2>1. Polled(store') /\ (shown => store'.preEvalActive = TRUE)
    BY <1>3, FollowsKeeps DEF DashInv, RestoreLands
  <2> QED
    BY <1>0, <1>2, <2>1 DEF DashInv, Polled
<1>4. CASE "preEval" \notin restore.running
  <2>1. store' = store
    BY <1>4 DEF RestoreLands
  <2> QED
    BY <1>0, <1>2, <1>4, <2>1 DEF DashInv, Polled
<1> QED
  BY <1>3, <1>4

\* A bulk action shows a reset row at once; nothing else of the store changes.
LEMMA BulkKeeps == ASSUME DashInv, BulkStep PROVE DashInv'
<1>1. registry' = registry /\ shown' = shown
  BY DEF BulkStep, dashPage
<1>2. store' = store \/ \E s, to : store' = ApplyRecord(store, s, to)
  BY DEF BulkStep
<1>3. ASSUME NEW s, NEW to, store' = ApplyRecord(store, s, to)
      PROVE  Polled(store') /\ store'.preEvalActive = store.preEvalActive
  BY <1>3, StoreEdited DEF ApplyRecord, DashInv
<1> QED
  BY <1>1, <1>2, <1>3, DashUntouched DEF DashInv, Polled

\* Every step of page and server keeps the invariant.
LEMMA DashStep == DashInv /\ [Next]_dashVars => DashInv'
<1> SUFFICES ASSUME DashInv, [Next]_dashVars PROVE DashInv'
  OBVIOUS
<1>1. CASE \E op \in Ops : Progress(op)
  <2>1. PICK op \in Ops : Progress(op)
    BY <1>1
  <2>2. CASE \E c \in flying : c.op = op /\ (ListAnswered(c) \/ ListLands(c) \/ SelectLands(c) \/ PanelLoaded(c))
    BY <2>2, CallsKeep
  <2>3. CASE BulkStep
    BY <2>3, BulkKeeps
  <2>4. CASE RestoreLands
    BY <2>4, RestoreKeeps
  <2>5. CASE RestoreAnswered \/ BatchStep \/ BatchEnds(op) \/ PostAnswered(op)
    BY <2>5, DashUntouched DEF RestoreAnswered, BatchStep, BatchEnds, PostAnswered, dashPage
  <2>6. CASE op \in RunKinds /\ PostRefused(op)
    BY <2>6, FailedKeeps DEF PostRefused
  <2> QED
    BY <2>1, <2>2, <2>3, <2>4, <2>5, <2>6 DEF Progress
<1>2. CASE Poll
  <2>1. store' = [store EXCEPT !.pollInFlight = TRUE] /\ registry' = registry /\ shown' = shown
    BY <1>2 DEF Poll, dashRuns, dashPage
  <2>2. Polled(store') /\ store'.preEvalActive = store.preEvalActive
    BY <2>1, StoreEdited DEF DashInv
  <2> QED
    BY <2>1, <2>2 DEF DashInv, Polled
<1>3. CASE PagePolls
  BY <1>3, DashUntouched DEF PagePolls, dashRuns, dashPage
<1>4. CASE Deed
  BY <1>4, DeedKeeps
<1>5. CASE \E c \in flying : ListLost(c)
  BY <1>5, CallsKeep
<1>6. CASE \E k \in RunKinds : PostLost(k)
  BY <1>6, FailedKeeps DEF PostLost
<1>7. CASE UNCHANGED dashVars
  BY <1>7, DashUntouched DEF dashVars, dashRuns, dashPage
<1>8. CASE Return
  BY <1>8, ReturnKeeps
<1> QED
  BY <1>1, <1>2, <1>3, <1>4, <1>5, <1>6, <1>7, <1>8 DEF Next

\* While the dashboard shows a pre-evaluation the list is polled, whatever is
\* loaded, polled, posted, lost, filtered, reloaded, left and opened again, in
\* whatever order its answers land, for any assignments, rows and number of calls
\* (BUG-020).
THEOREM PreEvalIsPolledAlways == DashboardSpec => []PreEvalIsPolled
<1>1. DashInv => PreEvalIsPolled
  BY DEF DashInv, Polled, PreEvalIsPolled
<1> QED
  BY <1>1, DashInit, DashStep, PTL DEF DashboardSpec

----------------------------------------------------------------------------
(***************************************************************************)
(* What becomes archived.                                                  *)
(***************************************************************************)

\* The server has a row for every student of every assignment.
RowsOfAll ==
    /\ rows = [a \in Courses |-> rows[a]]
    /\ \A a \in Courses : rows[a] = [s \in RowIds |-> rows[a][s]]

\* The call under way of an archive goes to the assignment it was asked for.
BulkHome == bulk.op \in {"archive", "restore"} => bulk.to = bulk.of

\* Every row that becomes archived is one of the archive that runs.
Archiving ==
    \A a \in Courses : \A s \in DOMAIN rows[a] :
        rows[a][s] # "archived" /\ rows'[a][s] = "archived" => bulk.op = "archive" /\ bulk.of = a

\* What neither touches a row archives none.
LEMMA RowsUntouched == RowsOfAll /\ UNCHANGED rows => RowsOfAll' /\ Archiving
BY DEF RowsOfAll, Archiving

\* A row written with another status than "archived" archives none.
LEMMA OtherWritten ==
    ASSUME RowsOfAll, NEW a, NEW s, NEW to, to # "archived", rows' = [rows EXCEPT ![a][s] = to]
    PROVE  RowsOfAll' /\ Archiving
<1>1. RowsOfAll' /\ \A b \in Courses, t \in RowIds : rows'[b][t] = rows[b][t] \/ (b = a /\ rows'[b][t] = to)
  BY DEF RowsOfAll
<1> QED
  BY <1>1 DEF Archiving

\* The batches write other statuses.
LEMMA BatchArchivesNone == ASSUME RowsOfAll, BatchStep PROVE RowsOfAll' /\ Archiving
<1>1. CASE ProcessStep
  <2>1. \/ UNCHANGED rows
        \/ \E a, s : \E to \in {"executing", "executed", "error"} : rows' = [rows EXCEPT ![a][s] = to]
    BY <1>1 DEF ProcessStep
  <2> QED
    BY <2>1, OtherWritten, RowsUntouched
<1>2. CASE PreEvalStep
  <2>1. UNCHANGED rows \/ \E a, s : rows' = [rows EXCEPT ![a][s] = "pre-evaluated"]
    BY <1>2 DEF PreEvalStep
  <2> QED
    BY <2>1, OtherWritten, RowsUntouched
<1> QED
  BY <1>1, <1>2 DEF BatchStep

\* Of the bulk actions only the archive leads to "archived", and it goes through
\* the assignment it has read before its loop.
LEMMA BulkArchivesItsOwn == ASSUME RowsOfAll, BulkHome, BulkStep PROVE RowsOfAll' /\ Archiving
<1> DEFINE s == Min(bulk.left)
           a == bulk.to
<1>1. CASE UNCHANGED rows
  BY <1>1, RowsUntouched
<1>2. ASSUME NEW to \in Outcome(bulk.op, rows[a][s]), rows' = [rows EXCEPT ![a][s] = to]
      PROVE  RowsOfAll' /\ Archiving
  <2>1. bulk.op \in {"archive", "restore", "delete", "reset"}
    BY DEF BulkStep
  <2>2. bulk.op = "archive" \/ to # "archived"
    <3>1. CASE bulk.op = "restore"
      BY <1>2, <3>1 DEF Outcome
    <3>2. CASE bulk.op = "delete"
      BY <1>2, <3>2 DEF Outcome
    <3>3. CASE bulk.op = "reset"
      BY <1>2, <3>3 DEF Outcome
    <3> QED
      BY <2>1, <3>1, <3>2, <3>3
  <2>3. bulk.op = "archive" => a = bulk.of
    BY DEF BulkHome
  <2> HIDE DEF a, s
  <2>4. RowsOfAll' /\ \A b \in Courses, t \in RowIds : rows'[b][t] = rows[b][t] \/ (b = a /\ rows'[b][t] = to)
    BY <1>2 DEF RowsOfAll
  <2> QED
    BY <2>2, <2>3, <2>4 DEF Archiving, RowsOfAll
<1> QED
  BY <1>1, <1>2 DEF BulkStep

\* A step that leaves no bulk action, or one that asks for no row, keeps it.
LEMMA HomeUntouched ==
    ASSUME BulkHome, UNCHANGED bulk \/ bulk' = NoBulk \/ \E op \in {"process", "refresh"} : bulk' = [NoBulk EXCEPT !.op = op]
    PROVE  BulkHome'
BY DEF BulkHome, NoBulk

\* Every bulk action begins at home and, if it is an archive or a restore, stays
\* there from row to row.
LEMMA HomeStep == BulkHome /\ [Next]_dashVars => BulkHome'
<1> SUFFICES ASSUME BulkHome, [Next]_dashVars PROVE BulkHome'
  OBVIOUS
<1>1. CASE \E c \in flying : ListAnswered(c) \/ ListLands(c) \/ SelectLands(c) \/ PanelLoaded(c) \/ ListLost(c)
  BY <1>1, HomeUntouched DEF ListAnswered, ListLands, SelectLands, PanelLoaded, ListLost, Follow, dashRuns
<1>2. CASE BulkStep
  <2>1. CASE bulk' = NoBulk \/ bulk' = [NoBulk EXCEPT !.op = "refresh"]
    BY <2>1, HomeUntouched
  <2>2. CASE \E rest : bulk' = [bulk EXCEPT !.left = rest, !.to = BulkTarget(bulk.op, bulk.of)]
    <3>1. CASE bulk.op \in {"archive", "restore"}
      <4>1. \E rest : bulk' = [bulk EXCEPT !.left = rest, !.to = bulk.of]
        BY <2>2, <3>1 DEF BulkTarget
      <4>2. bulk.to = bulk.of
        BY <3>1 DEF BulkHome
      <4> QED
        BY <4>1, <4>2 DEF BulkHome
    <3>2. CASE bulk.op \notin {"archive", "restore"}
      BY <2>2, <3>2 DEF BulkHome
    <3> QED
      BY <3>1, <3>2
  <2> QED
    BY <1>2, <2>1, <2>2 DEF BulkStep
<1>3. CASE \E op \in {"archive", "restore", "delete", "reset"} \cap Deeds : RunBulk(op)
  <2>1. \E op, ids : bulk' = [op |-> op, left |-> ids, of |-> store.of, to |-> BulkTarget(op, store.of)]
    BY <1>3 DEF RunBulk
  <2> QED
    BY <2>1 DEF BulkHome, BulkTarget
<1>4. CASE HandleBulkProcess
  BY <1>4, HomeUntouched DEF HandleBulkProcess
<1>5. CASE HandlePreEvaluateAll \/ HandleAssignmentChange \/ HandleStatusFilterChange \/ StartUpload \/ HandlePreEvalReset \/ Reload \/ Leave
  BY <1>5, HomeUntouched
     DEF HandlePreEvaluateAll, HandleAssignmentChange, HandleStatusFilterChange, StartUpload, HandlePreEvalReset, Reload, Leave, dashRuns
<1>6. CASE RestoreAnswered \/ RestoreLands \/ BatchStep \/ Poll \/ PagePolls \/ Return
  BY <1>6, HomeUntouched DEF RestoreAnswered, RestoreLands, BatchStep, Poll, PagePolls, Return, dashRuns
<1>7. CASE \E k \in RunKinds : BatchEnds(k) \/ PostAnswered(k) \/ PostRefused(k) \/ PostLost(k)
  BY <1>7, HomeUntouched DEF BatchEnds, PostAnswered, PostRefused, PostLost, PostFailed
<1>8. CASE UNCHANGED dashVars
  BY <1>8, HomeUntouched DEF dashVars, dashRuns
<1> QED
  BY <1>1, <1>2, <1>3, <1>4, <1>5, <1>6, <1>7, <1>8 DEF Next, Progress, Deed

\* The rows of an upload become pending or stay what they are.
LEMMA UploadArchivesNone ==
    ASSUME RowsOfAll, NEW a, NEW calls, UploadMany(a, calls)
    PROVE  RowsOfAll' /\ Archiving
<1>1. PICK new \in SUBSET RowIds :
        rows' = [rows EXCEPT ![a] =
                    [s \in RowIds |-> IF s \in new /\ @[s] # "executing" THEN "pending" ELSE @[s]]]
  BY DEF UploadMany
<1> DEFINE f == [s \in RowIds |-> IF s \in new /\ rows[a][s] # "executing" THEN "pending" ELSE rows[a][s]]
<1>2. f = [s \in RowIds |-> f[s]] /\ \A s \in RowIds : f[s] \in {"pending", rows[a][s]}
  OBVIOUS
<1>3. rows' = [rows EXCEPT ![a] = f]
  BY <1>1
<1> HIDE DEF f
<1>4. RowsOfAll' /\ \A b \in Courses : rows'[b] = rows[b] \/ (b = a /\ rows'[b] = f)
  BY <1>2, <1>3 DEF RowsOfAll
<1>5. \A b \in Courses : \A s \in DOMAIN rows[b] : rows'[b][s] \in {"pending", rows[b][s]}
  BY <1>2, <1>4 DEF RowsOfAll
<1> QED
  BY <1>4, <1>5 DEF Archiving

\* So do those whose pre-evaluation is taken back.
LEMMA TakingBackArchivesNone == ASSUME RowsOfAll, HandlePreEvalReset PROVE RowsOfAll' /\ Archiving
<1> DEFINE f == [s \in RowIds |-> IF rows[chosen][s] = "pre-evaluated" THEN "executed" ELSE rows[chosen][s]]
<1>1. f = [s \in RowIds |-> f[s]] /\ \A s \in RowIds : f[s] \in {"executed", rows[chosen][s]}
  OBVIOUS
<1>2. rows' = [rows EXCEPT ![chosen] = f]
  BY DEF HandlePreEvalReset
<1> HIDE DEF f
<1>4. RowsOfAll' /\ \A b \in Courses : rows'[b] = rows[b] \/ (b = chosen /\ rows'[b] = f)
  BY <1>1, <1>2 DEF RowsOfAll
<1>5. \A b \in Courses : \A s \in DOMAIN rows[b] : rows'[b][s] \in {"executed", rows[b][s]}
  BY <1>1, <1>4 DEF RowsOfAll
<1> QED
  BY <1>4, <1>5 DEF Archiving

\* What the teacher does other than a bulk action writes no row but in those two
\* ways.
LEMMA DeedArchivesNone == ASSUME RowsOfAll, Deed PROVE RowsOfAll' /\ Archiving
<1>1. CASE HandleBulkProcess
  BY <1>1, RowsUntouched DEF HandleBulkProcess
<1>2. CASE HandlePreEvaluateAll
  BY <1>2, RowsUntouched DEF HandlePreEvaluateAll
<1>3. CASE \E op \in {"archive", "restore", "delete", "reset"} \cap Deeds : RunBulk(op)
  BY <1>3, RowsUntouched DEF RunBulk, dashServer
<1>4. CASE HandleAssignmentChange \/ HandleStatusFilterChange \/ Reload \/ Leave
  BY <1>4, RowsUntouched DEF HandleAssignmentChange, HandleStatusFilterChange, Reload, Leave, dashServer
<1>5. CASE StartUpload
  BY <1>5, RowsUntouched, UploadArchivesNone DEF StartUpload
<1>6. CASE HandlePreEvalReset
  BY <1>6, TakingBackArchivesNone
<1> QED
  BY <1>1, <1>2, <1>3, <1>4, <1>5, <1>6 DEF Deed

\* Every step archives rows of the archive that runs, or none.
LEMMA ArchivingStep == RowsOfAll /\ BulkHome /\ [Next]_dashVars => RowsOfAll' /\ Archiving
<1> SUFFICES ASSUME RowsOfAll, BulkHome, [Next]_dashVars PROVE RowsOfAll' /\ Archiving
  OBVIOUS
<1>1. CASE \E c \in flying : ListAnswered(c) \/ ListLands(c) \/ SelectLands(c) \/ ListLost(c)
  BY <1>1, RowsUntouched DEF ListAnswered, ListLands, SelectLands, ListLost, dashServer
<1>2. CASE \E c \in flying : PanelLoaded(c)
  BY <1>2, UploadArchivesNone DEF PanelLoaded
<1>3. CASE BulkStep
  BY <1>3, BulkArchivesItsOwn
<1>4. CASE BatchStep
  BY <1>4, BatchArchivesNone
<1>5. CASE Deed
  BY <1>5, DeedArchivesNone
<1>6. CASE RestoreAnswered \/ RestoreLands \/ Poll \/ PagePolls \/ Return
  BY <1>6, RowsUntouched DEF RestoreAnswered, RestoreLands, Poll, PagePolls, Return, dashServer
<1>7. CASE \E k \in RunKinds : BatchEnds(k) \/ PostAnswered(k) \/ PostRefused(k) \/ PostLost(k)
  BY <1>7, RowsUntouched DEF BatchEnds, PostAnswered, PostRefused, PostLost, PostFailed, dashServer
<1>8. CASE UNCHANGED dashVars
  BY <1>8, RowsUntouched DEF dashVars, dashServer
<1> QED
  BY <1>1, <1>2, <1>3, <1>4, <1>5, <1>6, <1>7, <1>8 DEF Next, Progress

\* An archive takes rows of the assignment it was asked for only, whatever is
\* chosen, loaded or polled while it goes through them, and nothing else archives
\* a row, for any assignments and rows (archiveMany).
THEOREM ArchivesItsOwnAlways == DashboardSpec => ArchivesItsOwn
<1>1. Init => RowsOfAll /\ BulkHome
  BY DEF Init, RowsOfAll, BulkHome, NoBulk
<1>2. Archiving => [\A a \in Courses : \A s \in DOMAIN rows[a] :
          rows[a][s] # "archived" /\ rows'[a][s] = "archived" => bulk.op = "archive" /\ bulk.of = a]_dashVars
  BY DEF Archiving
<1> QED
  BY <1>1, <1>2, ArchivingStep, HomeStep, PTL DEF DashboardSpec, ArchivesItsOwn
=============================================================================
