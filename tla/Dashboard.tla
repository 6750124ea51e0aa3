------------------------------ MODULE Dashboard ------------------------------
(***************************************************************************)
(* The dashboard in the browser: the list of submissions and its polling   *)
(* loop (services/submissions-store), the registry of batch runs           *)
(* (services/run-state), and the page over them (routes/submissions) with  *)
(* its bulk actions.  Store and registry outlive the page: when the        *)
(* teacher goes to another page the effects and intervals of this one end, *)
(* and all that it has asked for goes on.  Calls of the server overlap,    *)
(* and their answers land in any order.  Of a row only its status is kept, *)
(* of the server only what these calls do to it.                           *)
(***************************************************************************)
EXTENDS Naturals, FiniteSets, FiniteSetsExt, Functions

CONSTANTS
    Courses,     \* the assignments
    RowIds,      \* the students, the same in every assignment
    AtFirst,     \* the statuses the rows of the server start with
    Deeds,       \* what the teacher may do
    MaxDeeds,    \* bound: how often
    MaxLost,     \* bound: calls that fail
    MaxFlying    \* bound: calls under way when the teacher or the page starts one more

ASSUME DashboardBounds ==
    /\ Courses # {} /\ RowIds \subseteq Nat
    /\ MaxDeeds \in Nat /\ MaxLost \in Nat /\ MaxFlying \in Nat \ {0}

VARIABLES
    rows,      \* the server: assignment -> student -> status
    runs,      \* the server: kind -> the batch in progress
    store,     \* the list, whose it is, and the polling loop
    shown,     \* the dashboard is the page on the screen
    chosen,    \* selectedAssignment
    registry,  \* runRegistry: kind -> running
    posts,     \* kind -> the POST the page waits for
    bulk,      \* the bulk action that runs
    flying,    \* calls for the list under way
    restore,   \* fetchPipelineStatus under way
    deeds,     \* how often the teacher has acted
    lost       \* how many calls have failed

dashServer == <<rows, runs>>
dashRuns == <<registry, posts, bulk, restore>>
dashCounts == <<deeds, lost>>
dashPage == <<shown, chosen>>
dashVars == <<dashServer, store, dashPage, dashRuns, flying, dashCounts>>

RunKinds == {"process", "preEval"}
ACTIVE_STATUSES == {"pending", "executing"}
Statuses == ACTIVE_STATUSES \cup {"executed", "error", "pre-evaluated", "archived", "gone"}
NoRows == [s \in {} |-> "gone"]
NoBatch == [of |-> "none", left |-> {}, at |-> {}]
NoBulk == [op |-> "none", left |-> {}, of |-> "none", to |-> "none"]
NoAnswer == [pc |-> "none", running |-> {}]

\* What the server lists of some rows of an assignment.
Found(a, ids, archivedToo) ==
    Restrict(rows[a], {s \in ids : rows[a][s] \notin {"gone"} \cup (IF archivedToo THEN {} ELSE {"archived"})})

----------------------------------------------------------------------------
\* The store and its polling loop.

HasActiveWork(st) == \E s \in DOMAIN st.list : st.list[s] \in ACTIVE_STATUSES

\* Mutant: only rows keep the loop alive.
SyncPollingRows(st) == [st EXCEPT !.timer = HasActiveWork(st)]

SyncPolling(st) == [st EXCEPT !.timer = st.preEvalActive \/ HasActiveWork(st)]

\* Mutant: a tick that lands leaves the loop as it is.
PollEndsAnyhow(st) == [st EXCEPT !.pollInFlight = FALSE]

\* The end of a tick.
PollEnds(st) == SyncPolling([st EXCEPT !.pollInFlight = FALSE])

SetPreEvalActive(st, active) ==
    IF st.preEvalActive = active THEN st ELSE SyncPolling([st EXCEPT !.preEvalActive = active])

\* The effect of the page: while it is shown the store follows the registry.
StoreFollows(st, running) == IF shown THEN SetPreEvalActive(st, running) ELSE st

\* fetchSubmissions, for a load, a refresh, a poll, or as the end of a POST
\* or of a bulk action.
FetchSubmissions(op, of, archivedToo) ==
    [op |-> op, of |-> of, ids |-> RowIds, archivedToo |-> archivedToo, pc |-> "sent", answer |-> NoRows]

\* The page of one submission asks for that one.
FetchSubmission(s, of) == [FetchSubmissions("select", of, TRUE) EXCEPT !.ids = {s}]

Fetch(op, of) == flying \cup {FetchSubmissions(op, of, store.archivedToo)}

MayFetch == Cardinality(flying) < MaxFlying

ListAnswered(c) ==
    /\ c.pc = "sent"
    /\ flying' = (flying \ {c}) \cup {[c EXCEPT !.pc = "answered", !.answer = Found(c.of, c.ids, c.archivedToo)]}
    /\ UNCHANGED <<dashServer, store, dashPage, dashRuns, dashCounts>>

\* The end of a run this page has started.
MarkRunFinished(kind) ==
    /\ registry' = [registry EXCEPT ![kind] = FALSE]
    /\ posts' = [posts EXCEPT ![kind] = "none"]

\* What is done with a list that has come, by what it was fetched for.
Follow(op, st) ==
    \/ op \in {"load", "filter", "upload"} /\ store' = SyncPolling(st) /\ UNCHANGED <<registry, posts, bulk>>
    \/ op = "refresh" /\ store' = st /\ UNCHANGED <<registry, posts, bulk>>
    \/ op = "poll" /\ store' = PollEnds(st) /\ UNCHANGED <<registry, posts, bulk>>
    \/ op = "process" /\ store' = SyncPolling(st) /\ bulk' = NoBulk /\ MarkRunFinished("process")
    \/ op = "preEval" /\ store' = StoreFollows(st, FALSE) /\ MarkRunFinished("preEval") /\ UNCHANGED bulk
    \/ op = "bulk" /\ store' = st /\ bulk' = NoBulk /\ UNCHANGED <<registry, posts>>

\* The list and whose it is are replaced, whatever was asked for since.
ListLands(c) ==
    /\ c.pc = "answered" /\ c.op \notin {"preload", "select"}
    /\ flying' = flying \ {c}
    /\ Follow(c.op, [store EXCEPT !.of = c.of, !.list = c.answer])
    /\ UNCHANGED <<dashServer, dashPage, restore, dashCounts>>

\* applyRecord: a record that has come is put into the list, or appended to it.
ApplyRecord(st, s, status) ==
    [st EXCEPT !.list = [t \in DOMAIN @ \cup {s} |-> IF t = s THEN status ELSE @[t]]]

\* select: the store adopts the assignment of the submission, and its record; a
\* submission that is gone is an error the other page shows.
SelectLands(c) ==
    /\ c.pc = "answered" /\ c.op = "select"
    /\ flying' = flying \ {c}
    /\ \/ \E s \in DOMAIN c.answer : store' = ApplyRecord([store EXCEPT !.of = c.of], s, c.answer[s])
       \/ c.answer = NoRows /\ store' = store
    /\ UNCHANGED <<dashServer, dashPage, dashRuns, dashCounts>>

\* A load that fails only says so; any other call is a refresh, which keeps
\* the list, and what comes after it comes after it all the same.
ListLost(c) ==
    /\ lost < MaxLost /\ lost' = lost + 1
    /\ flying' = flying \ {c}
    /\ IF c.op \in {"load", "filter", "preload", "select"} THEN UNCHANGED <<store, registry, posts, bulk>>
       ELSE Follow(c.op, store)
    /\ UNCHANGED <<dashServer, dashPage, restore, deeds>>

\* One tick of the interval.
Poll ==
    /\ store.timer /\ ~store.pollInFlight
    /\ flying' = Fetch("poll", store.of)
    /\ store' = [store EXCEPT !.pollInFlight = TRUE]
    /\ UNCHANGED <<dashServer, dashPage, dashRuns, dashCounts>>

\* The page refreshes the list on its own while a run is armed.
PagePolls ==
    /\ shown /\ \E k \in RunKinds : registry[k]
    /\ MayFetch /\ flying' = Fetch("refresh", store.of)
    /\ UNCHANGED <<dashServer, store, dashPage, dashRuns, dashCounts>>

----------------------------------------------------------------------------
\* Runs.

Targets(a, statuses) == {s \in RowIds : rows[a][s] \in statuses}

\* A page arms the run and posts it; the server refuses it, has nothing to do, or
\* begins.
Arm(kind, refused, of, targets) ==
    /\ registry' = [registry EXCEPT ![kind] = TRUE]
    /\ posts' = [posts EXCEPT ![kind] =
                    IF refused THEN "refused" ELSE IF targets = {} THEN "answered" ELSE "sent"]
    /\ IF refused \/ targets = {} THEN UNCHANGED runs
       ELSE runs' = [runs EXCEPT ![kind] = [of |-> of, left |-> targets, at |-> {}]]

\* The button processes the selected rows that wait or have failed; the server
\* does not know a row that is gone.  One batch of executions at a time: what two
\* make of each other is the subject of BatchProcess.
HandleBulkProcess ==
    \E ids \in SUBSET {s \in DOMAIN store.list : store.list[s] \in {"pending", "executing", "error"}} :
        /\ bulk.op = "none" /\ ids # {} /\ runs["process"].of = "none"
        /\ Arm("process", ids \cap Targets(store.of, {"gone"}) # {}, store.of,
               ids \cap Targets(store.of, {"pending", "error"}))
        /\ bulk' = [NoBulk EXCEPT !.op = "process"]
        /\ store' = [store EXCEPT !.timer = TRUE]
        /\ UNCHANGED <<rows, dashPage, flying, restore>>

\* The table's button pre-evaluates every executed row of the assignment that is
\* chosen; the server refuses a second run.
HandlePreEvaluateAll ==
    /\ ~registry["preEval"]
    /\ \E s \in DOMAIN store.list : store.list[s] \in {"executed", "error"}
    /\ store' = StoreFollows(store, TRUE)
    /\ Arm("preEval", runs["preEval"].of # "none", chosen, Targets(chosen, {"executed", "error"}))
    /\ UNCHANGED <<rows, dashPage, bulk, flying, restore>>

\* From which statuses an execution may end as this one (STATUS_TRANSITIONS).
MayEndAs(to) == IF to = "executed" THEN {"executing", "archived"} ELSE {"executing", "executed", "archived"}

\* The batch of executions takes up its next row, or ends with it.  A row that is
\* gone, executed by another or no longer executing throws, and the batch with it.
ProcessStep ==
    LET run == runs["process"]  a == run.of
        Becomes(s, to) == rows' = [rows EXCEPT ![a][s] = to] /\ UNCHANGED posts
        Aborts ==
            /\ runs' = [runs EXCEPT !["process"] = NoBatch]
            /\ posts' = [posts EXCEPT !["process"] = IF @ = "sent" THEN "refused" ELSE @]
            /\ UNCHANGED rows
    IN  \/ /\ run.at = {} /\ run.left # {}
           /\ LET s == Min(run.left)
              IN  \/ /\ rows[a][s] \notin {"executing", "gone"}
                     /\ Becomes(s, "executing") /\ runs' = [runs EXCEPT !["process"].at = {s}]
                  \/ rows[a][s] \in {"executing", "gone"} /\ Aborts
        \/ \E s \in run.at :
              \/ \E to \in {"executed", "error"} :
                    /\ rows[a][s] \in MayEndAs(to)
                    /\ Becomes(s, to)
                    /\ runs' = [runs EXCEPT !["process"] = [@ EXCEPT !.at = {}, !.left = @ \ {s}]]
              \/ rows[a][s] \notin MayEndAs("error") /\ Aborts

\* A pre-evaluation ends with a row; its status is forced.
PreEvalStep ==
    /\ \E s \in runs["preEval"].left :
          /\ \/ /\ rows[runs["preEval"].of][s] # "gone"
                /\ rows' = [rows EXCEPT ![runs["preEval"].of][s] = "pre-evaluated"]
             \/ UNCHANGED rows
          /\ runs' = [runs EXCEPT !["preEval"].left = @ \ {s}]
    /\ UNCHANGED posts

BatchStep ==
    /\ ProcessStep \/ PreEvalStep
    /\ UNCHANGED <<store, dashPage, registry, bulk, restore, flying, dashCounts>>

BatchEnds(kind) ==
    /\ runs[kind].of # "none" /\ runs[kind].left = {}
    /\ runs' = [runs EXCEPT ![kind] = NoBatch]
    /\ posts' = [posts EXCEPT ![kind] = IF @ = "sent" THEN "answered" ELSE @]
    /\ UNCHANGED <<rows, store, dashPage, registry, bulk, restore, flying, dashCounts>>

\* The POST has succeeded: one refresh, and then the run is over.
PostAnswered(kind) ==
    /\ posts[kind] = "answered"
    /\ flying' = Fetch(kind, store.of)
    /\ posts' = [posts EXCEPT ![kind] = "refresh"]
    /\ UNCHANGED <<dashServer, store, dashPage, registry, bulk, restore, dashCounts>>

\* The POST has failed, the run on the server may go on: no refresh.
PostFailed(kind) ==
    /\ MarkRunFinished(kind)
    /\ \/ kind = "process" /\ bulk' = NoBulk /\ UNCHANGED store
       \/ kind = "preEval" /\ store' = StoreFollows(store, FALSE) /\ UNCHANGED bulk
    /\ UNCHANGED <<dashServer, dashPage, restore, flying, deeds>>

PostRefused(kind) == posts[kind] = "refused" /\ PostFailed(kind) /\ UNCHANGED lost

PostLost(kind) ==
    /\ posts[kind] \in {"sent", "answered"} /\ lost < MaxLost /\ lost' = lost + 1
    /\ PostFailed(kind)

----------------------------------------------------------------------------
\* The other bulk actions: one call per row, then one refresh.

\* Which rows of the scope an action is for.
Fitting(op) ==
    CASE op = "archive" -> Statuses \ {"archived"}
      [] op = "restore" -> {"archived"}
      [] op = "delete" -> Statuses
      [] op = "reset" -> {"pre-evaluated"}

\* What the server makes of a row; a status not named here it refuses.  (A
\* restore takes the row to where it was archived from, which is not kept here.)
Outcome(op, status) ==
    CASE op = "archive" /\ status \notin {"archived", "gone"} -> {"archived"}
      [] op = "restore" /\ status # "gone" -> Statuses \ {"archived", "gone"}
      [] op = "delete" /\ status # "gone" -> {"gone"}
      [] op = "reset" /\ status # "gone" -> {"executed"}
      [] OTHER -> {}

\* Mutant: archiveMany too asks the store again for every row.
BulkTargetNow(op, of) == store.of

\* The assignment of the next call: archiveMany has read it before its loop,
\* deleteMany and resetMany read it when they send the call.
BulkTarget(op, of) == IF op \in {"archive", "restore"} THEN of ELSE store.of

\* The first call is sent at once.  Bound: one bulk action at a time.  (The flag
\* is the page's own, so a page opened again could start one beside one it left.)
RunBulk(op) ==
    \E ids \in SUBSET {s \in DOMAIN store.list : store.list[s] \in Fitting(op)} :
        /\ bulk.op = "none" /\ ids # {}
        /\ bulk' = [op |-> op, left |-> ids, of |-> store.of, to |-> BulkTarget(op, store.of)]
        /\ UNCHANGED <<dashServer, store, dashPage, registry, posts, restore, flying>>

\* A call is answered, and the next one sent, or the refresh after the last one.
\* The first one that fails ends the action.
BulkStep ==
    /\ bulk.op \in {"archive", "restore", "delete", "reset"}
    /\ LET s == Min(bulk.left)  a == bulk.to  rest == bulk.left \ {s}
       IN  \/ \E to \in Outcome(bulk.op, rows[a][s]) :
                 /\ rows' = [rows EXCEPT ![a][s] = to]
                 /\ store' = IF bulk.op = "reset" THEN ApplyRecord(store, s, to) ELSE store
                 /\ \/ /\ rest # {} /\ flying' = flying
                       /\ bulk' = [bulk EXCEPT !.left = rest, !.to = BulkTarget(bulk.op, bulk.of)]
                    \/ rest = {} /\ bulk' = [NoBulk EXCEPT !.op = "refresh"] /\ flying' = Fetch("bulk", store.of)
                 /\ UNCHANGED lost
           \/ /\ \/ Outcome(bulk.op, rows[a][s]) = {} /\ UNCHANGED lost
                 \/ lost < MaxLost /\ lost' = lost + 1
              /\ bulk' = NoBulk /\ UNCHANGED <<rows, store, flying>>
    /\ UNCHANGED <<runs, dashPage, registry, posts, restore, deeds>>

----------------------------------------------------------------------------
\* What else the teacher does.

\* Another assignment: an effect loads its list.
HandleAssignmentChange ==
    \E a \in Courses \ {chosen} :
        /\ chosen' = a
        /\ MayFetch /\ flying' = Fetch("load", a)
        /\ UNCHANGED <<dashServer, store, shown, dashRuns>>

\* The filter loads the list; when it is one with archived rows and the last was
\* not, or the other way round, the effect above loads it once more.
HandleStatusFilterChange ==
    \E archivedToo \in BOOLEAN :
        /\ MayFetch
        /\ LET load(op) == {FetchSubmissions(op, chosen, archivedToo)}
           IN  flying' = flying \cup load("filter") \cup (IF archivedToo # store.archivedToo THEN load("load") ELSE {})
        /\ store' = [store EXCEPT !.archivedToo = archivedToo]
        /\ UNCHANGED <<dashServer, dashPage, dashRuns>>

\* The rows of an upload wait for an execution.  (Files for a row that executes
\* are left to TeacherRoutes.)
UploadMany(a, calls) ==
    \E new \in (SUBSET RowIds) \ {{}} :
        /\ rows' = [rows EXCEPT ![a] =
                       [s \in RowIds |-> IF s \in new /\ @[s] # "executing" THEN "pending" ELSE @[s]]]
        /\ flying' = calls \cup {FetchSubmissions("upload", a, store.archivedToo)}

\* The upload panel has the store load the chosen assignment first, if it is
\* not there.
StartUpload ==
    /\ MayFetch
    /\ \/ store.of = chosen /\ UploadMany(chosen, flying)
       \/ store.of # chosen /\ flying' = Fetch("preload", chosen) /\ UNCHANGED rows
    /\ UNCHANGED <<runs, store, dashPage, dashRuns>>

PanelLoaded(c) ==
    /\ c.pc = "answered" /\ c.op = "preload"
    /\ store' = SyncPolling([store EXCEPT !.of = c.of, !.list = c.answer])
    /\ UploadMany(c.of, flying \ {c})
    /\ UNCHANGED <<runs, dashPage, dashRuns, dashCounts>>

\* The pre-evaluations of the assignment that is chosen are taken back.
HandlePreEvalReset ==
    /\ ~registry["preEval"] /\ runs["preEval"].of = "none"
    /\ rows' = [rows EXCEPT ![chosen] =
                   [s \in RowIds |-> IF @[s] = "pre-evaluated" THEN "executed" ELSE @[s]]]
    /\ MayFetch /\ flying' = Fetch("refresh", store.of)
    /\ UNCHANGED <<runs, store, dashPage, dashRuns>>

\* A page that opens shows the first assignment, once its list has come.
FirstCourse == CHOOSE a \in Courses : TRUE

FreshStore ==
    [of |-> FirstCourse, list |-> NoRows, timer |-> FALSE, pollInFlight |-> FALSE,
     preEvalActive |-> FALSE, archivedToo |-> FALSE]

\* The page is loaded anew: what it knew is gone, what the server was asked for
\* goes on.  (A reload of another page and a return from there come to the same.)
Reload ==
    /\ store' = FreshStore /\ chosen' = FirstCourse
    /\ registry' = [k \in RunKinds |-> FALSE] /\ posts' = [k \in RunKinds |-> "none"]
    /\ bulk' = NoBulk
    /\ flying' = {FetchSubmissions("load", FirstCourse, FALSE)}
    /\ restore' = [pc |-> "sent", running |-> {}]
    /\ UNCHANGED <<dashServer, shown>>

\* To another page of the application: that of a submission, which asks the store
\* to select it, or one that leaves the store alone.  (What is saved or imported
\* there is merged into the list like what is selected.)
Leave ==
    /\ shown' = FALSE
    /\ \/ flying' = flying
       \/ \E s \in DOMAIN store.list : MayFetch /\ flying' = flying \cup {FetchSubmission(s, store.of)}
    /\ UNCHANGED <<dashServer, store, chosen, dashRuns>>

\* Back again: a new page over the old store, whose effect sees the registry as it
\* is now.  Bound: not before the status the page before has asked for is there.
Return ==
    /\ ~shown /\ shown' = TRUE /\ chosen' = FirstCourse
    /\ store' = SetPreEvalActive(store, registry["preEval"])
    /\ MayFetch /\ flying' = Fetch("load", FirstCourse)
    /\ restore.pc = "none" /\ restore' = [pc |-> "sent", running |-> {}]
    /\ UNCHANGED <<dashServer, registry, posts, bulk, dashCounts>>

Deed ==
    /\ shown
    /\ deeds < MaxDeeds /\ deeds' = deeds + 1 /\ UNCHANGED lost
    /\ \/ "process" \in Deeds /\ HandleBulkProcess
       \/ "preEval" \in Deeds /\ HandlePreEvaluateAll
       \/ \E op \in {"archive", "restore", "delete", "reset"} \cap Deeds : RunBulk(op)
       \/ "switch" \in Deeds /\ HandleAssignmentChange
       \/ "filter" \in Deeds /\ HandleStatusFilterChange
       \/ "upload" \in Deeds /\ StartUpload
       \/ "takeBack" \in Deeds /\ HandlePreEvalReset
       \/ "reload" \in Deeds /\ Reload
       \/ "leave" \in Deeds /\ Leave

\* fetchPipelineStatus: the server answers with the runs in progress ...
RestoreAnswered ==
    /\ restore.pc = "sent"
    /\ restore' = [pc |-> "answered", running |-> {k \in RunKinds : runs[k].of # "none"}]
    /\ UNCHANGED <<dashServer, store, dashPage, registry, posts, bulk, flying, dashCounts>>

\* ... and the page arms them and loads the list.
RestoreLands ==
    /\ restore.pc = "answered"
    /\ registry' = [k \in RunKinds |-> registry[k] \/ k \in restore.running]
    /\ store' = IF "preEval" \in restore.running THEN StoreFollows(store, TRUE) ELSE store
    /\ restore' = NoAnswer
    /\ IF restore.running = {} THEN UNCHANGED flying ELSE flying' = Fetch("load", chosen)
    /\ UNCHANGED <<dashServer, dashPage, posts, bulk, dashCounts>>

----------------------------------------------------------------------------

Init ==
    /\ rows \in [Courses -> [RowIds -> AtFirst]]
    /\ runs = [k \in RunKinds |-> NoBatch]
    /\ shown = TRUE /\ chosen = FirstCourse /\ store = FreshStore
    /\ registry = [k \in RunKinds |-> FALSE] /\ posts = [k \in RunKinds |-> "none"]
    /\ bulk = NoBulk /\ deeds = 0 /\ lost = 0
    /\ flying = {FetchSubmissions("load", FirstCourse, FALSE)}
    /\ restore = [pc |-> "sent", running |-> {}]

\* What this page and the server do of themselves, by what it is about.
Progress(op) ==
    \/ \E c \in flying : c.op = op /\ (ListAnswered(c) \/ ListLands(c) \/ SelectLands(c) \/ PanelLoaded(c))
    \/ op = "bulk" /\ BulkStep
    \/ op = "load" /\ (RestoreAnswered \/ RestoreLands)
    \/ op \in RunKinds /\ (BatchStep \/ BatchEnds(op) \/ PostAnswered(op) \/ PostRefused(op))

Ops == RunKinds \cup {"load", "filter", "preload", "select", "refresh", "upload", "poll", "bulk"}

Next ==
    \/ \E op \in Ops : Progress(op)
    \/ Poll \/ PagePolls \/ Deed \/ Return
    \/ \E c \in flying : ListLost(c)
    \/ \E k \in RunKinds : PostLost(k)

\* What may go on for ever, the ticks and the page's refreshes, and all that cannot.
Polling == Poll \/ Progress("poll")
Refreshing == Progress("refresh")
Settling == \E op \in Ops \ {"poll", "refresh"} : Progress(op)

DashboardSpec ==
    /\ Init /\ [][Next]_dashVars
    /\ WF_dashVars(Polling) /\ WF_dashVars(Refreshing) /\ WF_dashVars(Settling)

----------------------------------------------------------------------------
TypeOK ==
    /\ DOMAIN rows = Courses /\ \A a \in Courses : \A s \in DOMAIN rows[a] : rows[a][s] \in Statuses
    /\ DOMAIN runs = RunKinds /\ \A k \in RunKinds : runs[k].at \subseteq RowIds /\ runs[k].left \subseteq RowIds
    /\ shown \in BOOLEAN /\ chosen \in Courses /\ store.of \in Courses
    /\ registry \in [RunKinds -> BOOLEAN]
    /\ posts \in [RunKinds -> {"none", "sent", "answered", "refresh", "refused"}]
    /\ \A c \in flying : c.op \in Ops /\ c.of \in Courses

\* As long as the dashboard shows a pre-evaluation as running the list is polled,
\* whatever its rows look like and whatever lands in between: a pre-evaluation
\* leaves no row pending or executing (setPreEvalActive, its comment and BUG-020).
PreEvalIsPolled == shown /\ registry["preEval"] => store.timer

\* Something goes on that a list may show.
Busy ==
    \/ \E k \in RunKinds : runs[k].of # "none"
    \/ \E a \in Courses : \E s \in DOMAIN rows[a] : rows[a][s] \in ACTIVE_STATUSES

\* A run that was armed after a reload: no POST of this page will end it.
Orphaned == registry["preEval"] /\ posts["preEval"] = "none"

\* A pre-evaluation has ended while the teacher was on another page: no effect has
\* told the store.
Forgotten == ~shown /\ store.preEvalActive /\ ~registry["preEval"]

\* The polling stops when nothing goes on, whichever answer lands last, whatever
\* fails and whatever page is shown (syncPolling after every tick, and the effect
\* of the page that is opened again), but for a run that is orphaned or forgotten.
PollingStops == []<>(~store.timer \/ Busy \/ Orphaned \/ Forgotten)

\* (Does not hold.)  It stops when the run ends (the comment of the effect).
PollingStopsWithRun == []<>(~store.timer \/ Busy \/ Orphaned)

\* (Does not hold.)  A run that was found after a reload is shown as over some
\* time after it is.
OrphansEnd == []<>(~Orphaned \/ runs["preEval"].of # "none")

\* (Does not hold.)  When no call is under way the list is that of the
\* assignment that is chosen.
ListIsChosen == flying = {} /\ restore.pc = "none" /\ lost = 0 => store.of = chosen

\* An archive takes rows of the assignment it was asked for only, whatever is
\* chosen, loaded or polled while it goes through them (archiveMany reads the
\* assignment once).
ArchivesItsOwn ==
    [][\A a \in Courses : \A s \in DOMAIN rows[a] :
          rows[a][s] # "archived" /\ rows'[a][s] = "archived" => bulk.op = "archive" /\ bulk.of = a]_dashVars

\* (Does not hold.)  Nor does a deletion.
DeletesItsOwn ==
    [][\A a \in Courses : \A s \in DOMAIN rows[a] :
          rows[a][s] # "gone" /\ rows'[a][s] = "gone" => bulk.op = "delete" /\ bulk.of = a]_dashVars

\* (Does not hold.)  When nothing goes on and nothing is under way the list shows
\* what the server has.
ListIsCurrent ==
    ~Busy /\ flying = {} /\ bulk.op = "none" /\ lost = 0 =>
        store.list = Found(store.of, DOMAIN rows[store.of], store.archivedToo)
=============================================================================
