# SciPro Review: a TLA+ model of the server and its services

SciPro Review is a SvelteKit application with which a teacher grades student
notebooks: notebooks are uploaded, executed by a Python service, pre-evaluated
by a language model, and graded by hand. Its state is a handful of JSON files
per assignment which several routes read, change and write back; there is no
database and no transaction. Beside it work a copilot that calls tools on the
teacher's behalf, a plagiarism check, a documentation index and the executor.
This directory models the parts where their steps can get into each other's way,
checks them with TLC, and proves with TLAPS what holds for every size of the
instance.

Paths below are relative to `src/`; `lib/` and `routes/` mean
`frontend/src/lib/` and `frontend/src/routes/`.

## 1. The system

| Component | State | Operations | Talks to |
|---|---|---|---|
| Persist lock (`lib/server/persist-lock.ts`) | one chain of promises, in memory | `withPersistLock(fn)` | called by the batch routes around their store calls |
| Metadata store (`metadata.ts`) | `metadata.json`: one row per student with status, grade, grading, error | list, get, upsert, updateStatus, saveGrading, reset, remove, archive, restore | read and rewritten whole by every route |
| Results store (`results-store.ts`) | `results.json`: execution, pre-evaluation envelope, audit trail | setResult, clearResult, setPreEvaluation, plain read and write | the same |
| Run progress (`process-progress.ts`, `pre-eval-progress.ts`, `batch-progress.ts`) | two records with a running flag, in memory | begin, update, end | polled by the dashboard; the second is also the run slot of pre-evaluations |
| Batch execution (`submissions/process`) | locals of the request | executes all pending and failed rows, one after the other | executor; both stores, in sections of the lock |
| Batch pre-evaluation and reset (`submissions/pre-evaluate`) | locals; the slot | two workers ask the model about each executed row; calibration; reset | model; both stores, in sections, the calibration without |
| Routes on one row (`submissions/[id]/*`, `submissions/upload`) | locals | save, grade, reset, import, archive, restore, upload, delete, run | both stores and the notebook file, without the lock |
| Pre-evaluation pipeline, calibration (`lib/server/copilot/pre-evaluation.ts`, `pipeline/`, `cohort-calibration.ts`) | none of its own | phases with repair rounds, score clamps, outlier correction | model; results.json |
| Copilot agent (`copilot/agent.ts`, `permission.ts`, `tools/`) | pending approvals, sessions, checkpoints | chat turns with tool calls, approvals, aborts | both stores, without lock or slot |
| Copilot threads (`threads.ts`, `file-memory.ts`, `compaction.ts`) | one file per thread | turn, rename, delete, compaction | model |
| Plagiarism check (`lib/server/plagiarism/`) | one result file | check, review of a pair, forget a student | archive, delete and import of a submission |
| Documentation index (`docs-embed-rebuild.ts`, `onboarding-docs-index.ts`, `docs-embed-job-state.ts`) | one job slot, a state file, vectors and manifest | rebuild, download, cancel | embeddings service, a child process |
| Executor (`executor/`) | none between requests | run notebook, automatic fix, logs | Jupyter kernels, model |
| Grading page (`routes/submissions/[id]/+page.svelte`) | the fields of one submission's grading | load, edit, apply a suggestion, reset, save, import | the HTTP routes, the dashboard's store |
| Configuration, backup, export, grade calculator | settings, registry, criteria | whole-file writes; archive and restore of the data directory | all of the above |
| Client stores (`lib/services/*.svelte.ts`, `lib/stores/`) | copies of the server's state in the browser | load, refresh, auto-save, run | the HTTP routes |

**What interacts, and what is hard about it.** Node runs a handler from one
`await` to the next without interruption, so all interleaving happens at
awaits. A store call is a read of the whole file, an await, and a rename that
replaces the whole file: two calls that overlap lose an update, of any row. The
batch routes therefore put their store calls into sections of one lock; the
routes a teacher uses do not. Between two sections a batch holds things it has
read earlier (its list of rows, a result) that may be stale. Two files are
written by one logical operation, with a crash possible in between. Statuses
move along a table of transitions, but three routes force their move. And a
throw in a handler ends more, or less, than its author may have meant.

**What makes each component correct.** The lock: one section at a time, in the
order of the calls, and a section that throws holds nobody up. The stores: no
update is lost. The rows: statuses follow the lifecycle, `executing` means that
somebody is executing, `executed` and `pre-evaluated` mean that there is a
result and an envelope, an envelope belongs to the result beside it, a graded
row has a grade, and what a teacher filled in does not vanish. The
pre-evaluation: one run at a time, every row taken once, and the slot is freed.
Every request is answered. The pipeline: what the notebook shows beats what
the model says, and what was made up for is marked for review. The copilot: a
call runs on the policy's word or the teacher's word about that very call, an
unattended one at most as often as the cap allows, and a turn ends on both
sides of its stream. A thread: one compaction at a time, and no message is lost.
The documentation index: one job at a time, and a job that was not done leaves
both files alone. The executor: what it proposes is the notebook that was sent
with verified patches. The plagiarism check: nobody who is gone is named, and the
page shows the answer to the last question. A review: what was typed is in the
draft, in a saved review or about to be. The dashboard: it follows a run for as
long as the run goes on, and an action on many rows touches the rows it was
asked for. The grading page: a save takes nothing from the stored grading that
the teacher has not touched. The calibration: repeated runs come to rest, on
scores that obey the rule of the bounded fits.

## 2. The modules

```
Submissions          the two files, and what each operation writes
  Stores             shared state, the lock as a queue, read and write steps
    BatchProcess     POST /api/submissions/process
    BatchPreEvaluate POST /api/submissions/pre-evaluate and its reset
    TeacherRoutes    the routes on one row
      SubmissionServer   all of them, crashes, the properties
        MCServer         symmetry, for TLC
        CopilotTools     the copilot's tools that write the two files
          MCTools        a bound, for TLC
Lifecycle            abstract: how the status of a row may move
PersistLock          the chain of promises, call by call
FifoLock             abstract: what a caller of the lock relies on

CopilotAgent         a chat turn on the server: calls of tools, approvals, cap
  CopilotStore       the panel in the browser over it, turn after turn
ToolGate             abstract: what may become of a call of a tool

PostProcess          the passes over a pre-evaluated assessment, as operators
  PreEvaluation      the pipeline: calls of the model, phases, corrections
    MCEvaluation     a rubric and notebooks, for TLC
CopilotThreads       one thread: turns, compaction, rename, deletion
DocsIndex            the download and the rebuild of the documentation index
Executor             the queue, a run of a notebook, fixes and patches
Plagiarism           the check on the server, and the store of the page
Sessions             the auto-save and the saved reviews in the browser
GradingPage          the page of one submission: loads, entries, saves, imports
Calibration          the calibration of a cohort's scores, run after run
MCServices           MCEvaluation, the seven above and PersistLock, one at a
                     time, for TLC
Dashboard            the dashboard's list, polling loop, runs and bulk actions
  MCDashboard        the same twice, with one row and with two, for TLC

SubmissionServerProofs   types, queue and run slot of the server, and who can
                         lose an update of a file
  RowsProofs             who owns a row, what stands behind its status
    ToolsProofs          the same with the copilot's tools
CopilotProofs            the copilot's threads, turns, cap, checkpoints and gate
EvaluationProofs         the pre-evaluation and the calibration
ServicesProofs           the lock, the documentation index, the executor, the
                         plagiarism check, the reviews
DashboardProofs          the dashboard
GradingPageProofs        the grading page
```

**Submissions** holds data and pure operators: a file is a function from
students to rows, and each store operation maps the file it has read to the
file it writes. Texts are reduced to whether they are there; a grading object
is the set of keys it fills; an execution is the number of the upload that was
run and whether every cell succeeded; an envelope carries the execution it was
derived from, which is what makes "the envelope belongs to the result" a
statement about states.

**Stores** holds the variables. `pc[a]` names the step the handler of actor `a`
takes next, `loc[a]` its local variables, `metaSeen[a]` and `resultsSeen[a]` the
file contents between a read and a write. An actor is a request or one of the
two workers of a request (`CONCURRENCY`). `chain` is the lock: `Enter` appends
a section, inside a section only the head moves, `Leave` removes it. That this
is what `persistChain` does is what `PersistLock` is about.

**BatchProcess, BatchPreEvaluate, TeacherRoutes** have one action per await of
a handler. An action does everything the code does up to the next await. A
store call is two actions, `ReadMetadata`/`ReadResults` and the handler's own,
which computes the new file from the snapshot. An outcome that depends on the
outside (executor, model) is a disjunction.

**SubmissionServer** puts the routes over one state, adds `Crash` (files stay,
memory is as at start-up) and states the properties. **Lifecycle** is
`STATUS_TRANSITIONS` plus a set of statuses that may be entered by force; that
the server implements it, with the row's status as the refinement mapping, is
the property `RowsFollowLifecycle`.

**CopilotTools** adds one request more: a tool the agent runs. Four of them save
grading, one archives, one runs a row; they are calls of the steps of
`TeacherRoutes`, with checks of their own before. `process-all`, `pre-evaluate`
and `pre-evaluate-all` repeat the loops of the batches without the lock and
without the slot, and have steps of their own. A tool looks at the abort signal of
its turn at the top of a loop.

**PersistLock** models `withPersistLock` itself: every call makes a promise
that waits for one predecessor, and `persistChain` points at the last one. A
section starts when the promise it chains on has settled either way.
**FifoLock** is a queue; the mapping takes the calls that have not settled, in
call order.

**CopilotAgent** is `runChat` and the agent's tool wrapper. `run[r]` holds the
locals of a turn: its phase, the policy it was started with, the decisions it
has taken per tool, its calls with the `fate` of each, the approval that is
pending and at which call runChat's loop over the stream has arrived. `wire[r]`
is the response stream. The agent library runs the tool on its own and the loop
follows behind, which is where a snapshot can come too late. `allowance` is the
counter per thread, `known` the runs whose id the approval route still accepts.
**CopilotStore** is the panel's store: a loop per turn over its stream, one set
of shared variables for "the" turn, decisions as requests of their own that are
answered at any later time, the idle and hard-cap timers, steer and queue, the
switch to another thread, the revert. A turn the store has given up still has a
loop and still runs on the server. **ToolGate** says in ten lines what the
teacher relies on; that the two implement it is `CallsPassTheGate`, with the
fate of a call and the words posted about it as the mapping.

**PreEvaluation** is `preEvaluateSubmission`, one action per answer of the model
(or its failure, its repair, its second try), with one record of locals. An
answer is what later steps tell apart: which options a section names, which
kinds of text a note holds, which score was given under which key. The
corrections by facts, the caps and the derived confidence are operators.
**PostProcess** holds the seven passes over the assessment, as operators on the
set of checked options, the notes and a counter of changes.

**CopilotThreads** has the thread's record and its messages, two files that are
read whole and written whole, by turns that save (the agent library, external,
as the code's comments describe it), compactions, renames and a deletion.
**DocsIndex** has the slot, the live jobs, the state file, the two files of the
index as numbers of the build they belong to, and one job at a time. **Executor**
has an inbox before a handler that blocks it, and a notebook as a sequence of
kinds of cells. **Plagiarism** computes who is flagged from the notebooks, keeps
one result file and its Markdown mirror, and a page with calls in flight.
**Sessions** has one review in the page, its debounce timer, a save between its
two writes, and the records of IndexedDB.

**GradingPage** has the grading in `metadata.json` on one side and the page on
the other: its fields, its loads and its calls that store something. A load is
answered, sets the page's submission, waits for the grading configuration,
restores scores, notes and decisions, waits for the rubric, and restores the
ticks; the Save button is there from the second of these steps on. `select`
reads the assignment of the dashboard's store inside the page's effect, so the
effect runs again when the answer sets it, and a page that was opened by its
address loads twice, side by side (`Selected`). A save, a note about a cell and
an import send different keys, and `Saved` is the merge of `saveGrading` by those
keys. The dialog about unreviewed pairs comes before the form is read and is part
of the save. `entered` is a ghost: where the teacher has made an entry.

**Calibration** is the arithmetic of `cohort-calibration.ts`: the caps, the rule
of the bounded fits and the outliers of a homogeneous cluster are one operator
each, applied to the rows of `results.json` in that order. It overwrites the
scores it read, so the next run calibrates what the last one made, with a row
evaluated again in between at most. When it runs and what its write may lose is
in `BatchPreEvaluate`, which lets it adjust any subset of the rows.

The modules of this and of the two paragraphs before share no state with each
other; `MCServices` checks them, and `PersistLock`, as a union of behaviours,
not a product.

**Dashboard** has the page, its store and the registry of runs on one side, and
of the server the status of each row and the runs in progress. Every call is
sent, answered and landed in three steps, and what a list does when it lands
depends on what it was fetched for (`Follow`): a load and a poll align the
polling loop, the refresh after a POST ends the run. A bulk action is one call
per row, the first sent with the click, with any other landing between two of
them. `shown` is whether the dashboard is the page on the screen: its effects,
among them the one that tells the store of a pre-evaluation (`StoreFollows`), live
only as long, while the store, the registry of runs and the calls under way go on
when the teacher opens another page and comes back (`Leave`, `Return`). What is stored on the page of a submission comes back to the
store's list like a submission that is selected, and is not modelled apart from it.

`Lifecycle`, `FifoLock` and `ToolGate` are specifications, not models of code;
every other definition is tied to its lines in `PROJECT.json`.

### Abstractions, and why they are harmless

* A write is atomic. The code writes a temporary file and renames it. Its name
  is made of process id and millisecond, so two writes of one file in the same
  millisecond can collide; this is listed as a hazard and not modelled.
* An I/O error inside a store call is not modelled. Exceptions that the code's
  own conditions throw are all modelled, and so are failures of the executor
  and the model.
* The rows of a batch are processed in the order of the student ids. The code
  iterates the list in that order unless the request names ids; the ids a
  request names are any subset.
* Tallies of a run that has ended are not kept: no code but the display reads
  them.
* An upload of several files runs the same steps for one file after the other,
  and is modelled as one request per file.
* The post-processed sibling of an envelope, its list of fixes and the adjustments
  of a calibration are stored with it and not modelled. The reset of
  pre-evaluations drops the envelope only and leaves the three behind; no property
  speaks of them but the flag `adjusted`, which it leaves as well.
* `RestoreTargets` is what a client may name in a restore: any string, as in the
  code, whether the program has such a status or not. The user interface names
  none, so the set is empty except in the run on that route.
* Two executions of one upload that end alike are not told apart: an envelope that
  was made from the first counts as being about the second.
* One assignment: every file and the lock's users are per assignment, except
  that the lock itself is shared by all, which only delays.
* A text of the model, a note or a cell is a kind, not a string: that it names
  plagiarism, is filler, is too short, is broken by an earlier cell. The rubric
  the pipeline is checked with has the categories of the code and those of their
  options that some step looks at.
* The tools of the copilot are two classes, those that need an approval and
  those that do not; what they write is one field, of which it matters whose
  write it shows.
* Two cells are alike when they are equal; the semantic pass, which adds
  scores, is left out.
* Scores of a calibration are in hundredths of a point, metrics are inside or
  outside of the band of the reference, and the rows of a cohort come in the
  order of what is stored of them, which the calibration does not look at.
  Its dimensions do not meet; the model has one at a time, CER and another one.
* On the grading page, scores and notes are versions (0 is nothing), the scores
  one field, and of a category counts what is ticked. Nobody else writes the
  grading meanwhile; that is the subject of `Stores`.

## 3. What TLC checks

In the runs of the server (`MCServer`) `Requests` bounds the requests in
flight at a time; finished requests are free again, so the number of requests
over time is not bounded. Requests are interchangeable, and the safety runs
use that symmetry; the runs of liveness properties do not.

| Run | Instance | Properties |
|---|---|---|
| `BatchesAndReset` | 1 row, 3 requests, process, preEvaluate and its reset, crashes | `SectionsQueued` `MetadataFresh` `ResultsFresh` `PreEvaluatedHasEnvelope` `RowsFollowLifecycle` |
| `Answered` | 1 row, 2 requests, the same routes, fair | `ExecutingIsOwned` `RequestsAnswered` `RunSlotFreed` |
| `RunUnderEdits` | 2 rows, 2 requests, preEvaluate, upload, delete, crashes | `RunSlotExclusive` `EveryTargetAccounted` |
| `TeacherAlone` | 2 rows, 1 request, the routes of a teacher except reset, import; every tool of the copilot | `GradedHasGrade` `ArchivedRemembers` `NothingLeftRunning` `EnvelopeMatchesResult` `GradingOnlyCleared` |
| `TeachersRace` | 1 row, 2 requests, reset, archive, restore, import, delete; a restore to a status the program has or to one it does not | `TypeOK` |
| `Copilot` | 2 turns of a thread, 1 call each, the tool on the allow list, a cap of 1 | `CapBoundsUnattended` |
| `CopilotTurn` | 1 turn, 2 calls, 2 threads, every mode, restarts, fair | `CheckpointPrecedesWrite` `CallsPassTheGate` `TurnsEnd` `LoopsEnd` |
| `Services` | each service alone: 3 notebooks; 2 turns and 1 edit of a thread; 3 jobs of 3 batches, crashes; 2 requests of 2 or 3 cells; 3 students; 3 calls of a page; 2 edits and 2 saves; 6 rows of a cohort; 2 loads, 1 entry and 2 saves of a page; 5 calls of the lock | `FlaggedNeedsReview` `EvidenceWins` `NotesClean` `EvaluationEnds`; `GuardOwned` `MessagesKept`; `UndoneRebuildLeavesIndex` `SlotFreed`; `ProposalVerified`; `DeletedForgotten` `LastLoadWins`; `EntriesKept`; `CalibrationSettles`; `UntouchedKept`; `EverySectionSettles` `ImplementsFifoLock` |
| `Dashboard` | 2 assignments, 2 deeds of the teacher, 1 lost call, fair: of 1 row, every deed but the filter and the other bulk actions, 2 calls in flight; of 2 rows, the bulk actions, switches and the filter, 1 list in flight | `PreEvalIsPolled` `ArchivesItsOwn` `PollingStops` |

What they show:

* `BatchesAndReset`: as long as only routes that take the lock
  run, its sections do what they are for. Every write is based on the file as
  it is (`MetadataFresh`, `ResultsFresh`), although a reset holds a snapshot of
  `results.json` across several writes of the other file. A row in
  `pre-evaluated` has its envelope at every moment, including between the two
  writes of a section and after a crash between them: the pre-evaluation writes
  the envelope first and the status second, the reset the statuses first and
  the envelopes last. `TypeOK` covers all of the model's statuses;
  `RowsFollowLifecycle` says more: which of them follow each other.
* `Answered`: a throw inside a section, a batch cut short, a run whose rows all
  fail, none of them keeps another request waiting or the slot taken, and a row
  in `executing` has a handler that will take it out again.
* `RunUnderEdits`: uploads and deletions, which do not take the lock, can hit a
  pre-evaluation at any point, and still no target is lost, taken twice or
  counted wrong, and a second run waits for the slot.
* `TeacherAlone`: the multi-step routes (archive in two writes, grade in two)
  and the tools of the copilot leave consistent rows when nobody interferes. A
  tool that is aborted between two rows, or whose executor fails, takes the flag
  of the batch down and leaves no row executing. Rows are executed, uploaded,
  pre-evaluated and executed again, and the envelope that is stored is always about
  the execution beside it: whatever stores an execution replaces the whole entry,
  envelope included (`setResult`). Under interference most of these
  statements fail, see sections 5 and 6.
* `TeachersRace`: what survives interference. No sequence of writes of stale
  records, and nothing a client names in a restore, stores a row with a status the
  program does not have. It rests on two things: an archive that was interrupted
  leaves no `archivedFrom`, and the restore then falls back to pending; and
  `updateStatus`, which the route does not look behind, refuses a status that is
  not in `VALID_STATUSES`.

* `Copilot` and `CopilotTurn`: answers, timers, aborts, a lost stream and a
  restart in any order let no call run that neither the policy nor the teacher
  let through, nor one call twice; overlapping turns of one thread share the
  counter and do not get past it. The snapshot for the revert shows no write of
  its own turn if the write was asked for: the agent library waits for the
  answer, and runChat takes the snapshot before it shows the question. A write
  that runs unattended may be faster, and then the snapshot shows it.
* `Services`: the passes of the post-processing are in an order in which the
  evidence has the last word; swapping two of them breaks `EvidenceWins` or
  `NotesClean`. A compaction and a turn in another tab cannot both summarise.
  Every way a documentation job ends frees the slot, and only a job that got as
  far as its renames has touched the index. What the executor proposes differs
  from what was sent only by its patches, and the last run of it showed no
  error (but see `FixedRanWhole`). While requests come one at a time, no result
  names a student who was deleted. Loads of a page that overtake each other
  leave the last one shown. And no order of timers, saves, deletions and
  reloads loses what was typed last, because a save and a switch write or
  discard on purpose. A calibration leaves rows the next one corrects; after two in
  a row the rule of the bounded fits is obeyed, but two do not settle the scores,
  nor do three, only four do (section 4 has the argument, section 6 the cohort). And
  a page that is saved half loaded, without a rubric, or between two
  loads takes no tick and no decision with it, because the merge goes by key and
  the keys that are missing are not sent (scores and notes are not so lucky: see
  section 6).
* `Dashboard`: whichever of the overlapping loads, polls and POSTs lands last, a
  pre-evaluation that is shown as running keeps the polling loop alive, although
  its rows are neither pending nor executing, also when the teacher has been on
  another page meanwhile; and the loop ends when nothing goes on, with two
  exceptions that are part of the property and described in section 6: a run found
  after a reload, and a run that ends while the teacher is on another page. An
  archive of two rows stays with its assignment although the teacher switches to
  another between the first row and the second.

Why the bounds are enough. Two rows tell "its own row" from "another row", which
is all a handler distinguishes, and let both workers of a run be busy. Two
requests give every pair of routes; three, in `BatchesAndReset`, give a queue
whose head, middle and tail differ. `MaxVersion` 2 gives an old and a new
upload. In `TeacherAlone` the second row is there for the loops over rows only:
the constraint `OneRowTaught` leaves out states in which it is graded, filled
in, archived, calibrated, uploaded again or deleted. `MinConsensus` is
`MIN_OUTLIER_CONSENSUS`, 4 in the code: it cannot be reached with two rows, so
it is 4 in the runs that are about a run without calibration and 1 in those
where a calibration must happen (`Answered`, the calibration in section 6); the
batch compares it with the number of rows that succeeded and nothing else.
`Crashes` is TRUE where what is on disk in the middle of an operation matters;
`ExecutingIsOwned` and the liveness properties are about a process that stays
up, and are false otherwise (section 6). With `InitialRows` a run starts from
rows as an earlier life of the server leaves them. The largest run,
`TeacherAlone`, has 2.7 million distinct states.

For the copilot, two turns tell "its own turn" from "the one shown", a cap of 1
is reached by one call and exceeded by two, and two calls of one turn are the
least in which a snapshot can be late. Two attempts of a call, one retry of a
category and two chunks each give a first and a last. `RateLimitAbort` (5 in the
code) is 2, which one batch does not reach and two do; a third job meets the
files of two earlier ones. Three calls of a page are a load overtaken by another
one with a change in between. `Consensus` is the same constant inside the
calibration, 3 there: six rows are then three that share a score, one on either
side of them, and one reference fit; a cohort of which a row is evaluated again
has up to `SmallCohort` rows. `RawScores` are 4.0, 5.1, 5.2 and 6.0: one below both
caps, one above, and two between them, without which two calibrations would do.
`MaxCalibrations` is 4, the number that is needed. Two loads of the grading page
are one beside another, one entry is one that another load or an answer can
overtake, and two saves are one that the other follows; a category of two is not
in the rubric.

Deadlock is checked in every run of the server but `TeachersRace`, where the
only row may be deleted and no route is left that could be called. The others
are bounded by a number of calls, turns, jobs or edits and stop when it is used
up: the runs of the copilot, `Services` and `Dashboard`.

**Fairness.** `FairSpec` of the server asks weak fairness of what a request or a
worker does once it has been called, never of a client's call nor of a crash.
Node runs every continuation that is ready; the file operations settle; calls of
the executor and the model are made with timeouts and a bounded number of
retries (`executor-client.ts`, `ki-connect.ts`), so each of these awaits ends. A
handler waiting in the lock's queue is not enabled, so its progress is what the
run shows and not what fairness assumes. For the lock fairness is asked of the
start of a section whose predecessor has settled (a microtask) and of its end
(the same argument). `CopilotStore.FairSpec` asks weak fairness of a turn's next
step on the server (the run itself, the timer of an approval), of the browser
reading a frame that is there or noticing the end of a stream, and of the
rejection that follows an abort; never of the teacher, who may leave every
question unanswered. In `Dashboard` it is asked of three things: of
the interval's tick and its polls (`Polling`), of the page's own refreshes
(`Refreshing`), both of which may go on for ever, and of all that cannot, taken
together (`Settling`): the answers to the other calls, the rows of a bulk action
and the runs of the server. It is never asked of the teacher, who need not come
back to the page, nor of a call that fails. In `Services` fairness is asked of a
pre-evaluation that was started (its model calls have timeouts), of the lock as
above, of a documentation job (its batches and its child end) and of the
executor's handler (nbclient has a timeout per cell).

Each property has a mutant of a definition that the run must refute, written
next to the definition it changes.

## 4. What is proved

Every invariant and every action property that a run checks on a small instance is
also proved for every value of the constants, under the hypotheses the theorem
states; the liveness properties are not. The theorems, module by module, in the
order in which they build on each other:

`ServicesProofs` proves of the persist lock, for every `MaxCalls`:

* `ChainAlways`: `ChainOfCalls` is an invariant,
* `MutualExclusionAlways`, `CallOrderAlways`,
* `ChainImplementsFifoLock`: `PersistLock` implements `FifoLock`.

The only assumption is that `MaxCalls` is a positive natural number.
Mutual exclusion is not inductive: from "at most one section runs" nothing
follows about the section that starts next, whose guard speaks of one
predecessor only. The invariant that carries it is `ChainOfCalls`: call *n*
waits for call *n - 1*, `persistChain` is the last call, and the settled calls
are a prefix of all calls in which at most the first unsettled one is running.
It is preserved by a call (which chains on the last one), a start (whose
predecessor has settled, hence all before it) and a settlement, one step of the
proof each. The other safety properties are its consequences. For the
refinement, the abstract queue is the sequence of unsettled calls, which the
invariant shows to be an interval; a call appends to it, a settlement removes
its head, and a start takes the lock for its head.

`SubmissionServerProofs` proves, for any finite set of students, any set of
requests in flight, any routes, any starting rows, with and without crashes:

* `ServerTypes`: `TypeOK` is an invariant,
* `ServerSectionsQueued`: `SectionsQueued` is an invariant,
* `ServerRunSlotExclusive`: `RunSlotExclusive` is an invariant.

None of the three is inductive alone, and they need each other. The head of the
queue that leaves must be the handler that takes the step, which
`SectionsQueued` says, of a queue of actors, which `TypeOK` says. A store
operation returns a file only if the row the handler works on is a row. A
worker changes locals of its request (it takes rows from the request's list),
which must not touch those of a batch execution about to begin; that a request
with a live worker is at `preEval.rows` and nowhere else is what
`RunSlotExclusive` says. The inductive invariant is therefore `ServerInv`: the three
statements and `AtHand`, that at every label where a handler has a row in hand
it does, and that a batch about to begin has a row to begin with.

The proof has one lemma per handler or group of actions. What is shown of an
action is not the invariant, but the shape of the step (`Keeps`): the data stay
typed (from the lemmas about the store operation it calls); it
goes to one label, and in doing so stays where it is in the queue, joins it,
leaves it, or leaves and joins it again (`Goes`); it leaves the run slot alone
(`LeavesSlot`); and it has a row in hand where its next step needs one
(`InHand`). `KeepsInv` proves once that a step of this shape preserves
`ServerInv`, from two facts about queues: a new section joins at the end, and
the section at the head leaves. The begin and the end of a pre-evaluation, which
move the slot or several actors at a time, and the crash have proofs of their
own.

It goes on to what the lock protects:

* `MetadataLostOnlyOutside`: in every behaviour in which no handler writes
  `metadata.json` outside the lock, `MetadataFresh` holds throughout,
* `ResultsLostOnlyOutside`: the same for `results.json` and `ResultsFresh`,
* `BatchesLoseNoMetadata`: when clients call only the three batch routes,
  `MetadataFresh` is an invariant,
* `AloneLosesNothing`: with one request at a time both are, for every route.

The first step is that every step of every handler replaces a file only by what
it computed from a snapshot, which it gives up with the same step, and takes a
snapshot only of the file as it is (`StoreStep`). The second: inside sections
only the head of the queue holds a snapshot, so the one who replaces the file is
the only one who had read it. The hypothesis is what a teacher's route breaks
(`LostUpdate`) and, for `results.json`, the calibration (`CalibrationLoses`),
which is why the corollary is about `metadata.json` only.

`RowsProofs` goes on from there to what the files say. Its theorems have
hypotheses, and they are what the code relies on: each of them fails without, as
section 6 tells.

* `ExecutingOwned`: without crashes and without restores, in every behaviour in
  which no snapshot of `metadata.json` is stale, `ExecutingIsOwned` holds. Two
  corollaries discharge the hypothesis about snapshots: for the batch routes
  (`BatchesOwnWhatTheyExecute`) and for any route but the restore, one request at
  a time (`AloneOwnsWhatIsExecuted`). A restore is excepted because a row that is
  archived while it executes is restored to executing, when its handler may long
  be gone.
* `BatchesFollowLifecycle`: when only the batch routes are called,
  `RowsFollowLifecycle`, with crashes. The invariant is `MidRows`: between two
  calls of one section, the row is in the status the first one gave it, and a
  reset in the middle of its flips has left no pre-evaluated row behind it.
* `PreEvaluatedBacked`: when only the batch routes are called and no snapshot of
  `results.json` is stale, `PreEvaluatedHasEnvelope`, with crashes: the envelope is
  written before the status, and dropped after it (`MidEnvelopes`). The one writer
  that makes a snapshot stale is the calibration; it does not run in a cohort
  smaller than the consensus (`SmallCohortLosesNothing`, `SmallCohortBacked`), and
  with one request at a time it meets nobody (`OneBatchBacked`). The run
  `BatchesAndReset` is an instance of the first of these.
* `TargetsAccounted`: `EveryTargetAccounted`, without any hypothesis: any routes,
  any number of rows, crashes. The invariant `Tallied` adds what happens between
  runs: a handler that is called has fresh locals, so a run begins with nothing
  settled.
* `AloneGradingKept`: with one request at a time, `GradingOnlyCleared`, with
  crashes and any route. `AloneKept` carries that a record that an archive or a
  restore holds between its two writes has the teacher's entries of the row, and
  that a row that is absent is blank, so that an upsert starts from what is there.
* `AloneArchivedRemembers`: with one request at a time and no crash,
  `ArchivedRemembers`; `Remembered` adds the one row that is between the two writes
  of its archive, which is where a crash breaks it. The server is to start with no
  row that was archived from archived.
* `AloneGradedHasGrade`: with one request at a time, no crash and no import,
  `GradedHasGrade`, if not both reset and restore are called: a row that was graded,
  archived and reset keeps `archivedFrom` and loses its grade, and a restore takes it
  back to graded. `GradesBacked` says the same of a row archived from graded as of a
  graded one.

`ToolsProofs` proves of the server with the copilot's tools (`ToolSpec`), for one
request at a time, a route or a tool, and any rows, routes and starting rows:

* `ToolsKeepGrading`: `GradingOnlyCleared`, with crashes,
* `ToolsArchivedRemember`: `ArchivedRemembers`, without,
* `ToolsGradedHaveGrade`: `GradedHasGrade`, without crashes and imports, if not both
  reset and restore are called,
* `NothingLeftRunningHolds`: `NothingLeftRunning`, without crashes,
* `EnvelopesStayWithResults`: `EnvelopeMatchesResult`, with crashes.

The tools repeat the store calls of the routes outside the lock, at labels the
server's own invariant does not know, and go on as routes of the server in the
middle of their work. `ToolInvAlways` therefore says that the state is either one
of the server alone, where all of `ServerInv` holds and no snapshot is stale, or
one where the only request is at work in a tool: nobody is in a section, no worker
lives, and its snapshots are of the files as they are (`AtWork`). What a step does
to a row is shown once for the server and once for the tools, and the theorems of
`RowsProofs` are reused for the former. `NothingLost` is the invariant behind the
last theorem: a row that is executing is in the hands of a handler or a tool that
will settle it, the flag of the batch is up only while one of them is in a batch,
and no row remembers that it was archived from executing, to which a restore would
take it back. A crash leaves both behind, which no start-up code repairs. The user
interface names no target of a restore, but the store accepts any status; the
theorems exclude the one each of them is about. For the envelopes the invariant is `EnvelopesOwn`: whoever is
about to ask the model or to store its answer (`Asking`), the request, one of its
workers or a tool, holds the execution that is stored now. It is kept because a
step that stores or removes an execution (`Replacing`) is one of a handler that
executes, uploads or deletes, and with one request at a time nobody asks then; the
workers of a run ask side by side, about different rows. That one request is in
flight is the hypothesis the code needs most: with two (`ToolSpec`, `Requests` {r1, r2}, save,
grade, archive, restore and run, the tools that write), TLC finds each of the first
four violated, and the fifth with `process` and `preEvaluate`.

`ServicesProofs` also has the theorems about four services that share no state.
Of the documentation index, for any number of batches and jobs, with and without
crashes:

* `DocsInvAlways`: `DocsInv`, types and which step belongs to which holder,
* `SlotFollowsJobAlways`: the slot is held exactly while a job is at work, where one
  whose child could not even be spawned is at work for ever (section 6),
* `UndoneRebuildLeavesIndexAlways`: the property of the run.

That a rebuild leaves the files alone cannot be seen from its last step: the
job compares with what it found when it started. `DocsInv` therefore carries
that the index is still that one as long as the job is at a step before its
first rename, which is preserved because no other job can move in between, which
is what the part about the slot says.

Of the review in the browser, for any number of edits and saves,
`EntriesKeptAlways`. `TypedCovered` says what keeps an entry safe between two
writes: a pending auto-save is of the last edit, a save under way has captured the
last edit or an auto-save of a later one is pending, and between its two writes the
review it has stored is on the disk.

Of the plagiarism check, `LastLoadWinsAlways` for any number of calls in flight
(`LoadsOrdered`: sequence numbers are handed out once, only loads have one, and
while only loads were made an idle page shows the answer to the last), and
`DeletedForgottenAlways` with one handler at a time (`CheckInv`: the result is clean
at every step, the one a handler holds too, and clean of a student before the row
goes). With two handlers a check that has listed the students writes after the
deletion.

Of the executor, `ProposalVerifiedAlways`, for any notebooks, any number of requests
and passes and kernels that die. `ExecutorInv` follows a version from the first run
to the reply: what was tried so far differs from what was sent in at most as many
code cells as there were attempts.

`CopilotProofs` proves of a thread, for any number of turns, requests, messages and
any recall window:

* `ThreadsInvAlways`: `ThreadsInv`, the inductive invariant,
* `GuardOwnedAlways`: at most one compaction is between claim and release, and
  the guard is up exactly then,
* `MessagesKeptAlways`: the property of the run.

A turn appends to the messages it has read, so no message is lost only if what
it has read is still all there is. `ThreadsInv` carries this for turns that do
not overlap (a deletion may only have made the file smaller), and that turns
start in their order, without which "not overlapping" is not preserved.

Of the turns, the panel and the wire between them it proves, without any hypothesis:
any number of turns, calls and threads, overlapping turns, lost connections, aborts
and restarts of the process:

* `CopilotInvariant`: `CopilotInv` is an invariant,
* `CheckpointFirst`: `CheckpointPrecedesWrite`,
* `CapHolds`: `CapBoundsUnattended`,
* `CopilotImplementsGate`: the copilot implements `ToolGate`.

`CopilotInv` is a conjunction of named facts, none inductive alone. Of a turn:
while an approval is requested, or waited for, the call it is about is the last
the turn has made and nobody has decided about it (`AskedLast`, `Waits`); what
the server's loop has still to process is in the order of the calls, a request
for an approval right behind its own call, and when it is in front and about a
write, the turn's snapshot has been begun (`FeedInOrder`); a call that was
granted was approved by the teacher (`GrantsApproved`). Of what passes between
the two sides: a frame on the wire, a card on the panel and an answer under way
are about an approval that was requested (`WireGood`, `CardAsked`,
`PostsAsked`). Of the snapshots: a selection of a turn was written by one of its
calls that ran unattended or was approved (`Written`), and a checkpoint shows
one of its own turn only if some call of it ran unattended (`CheckpointsGood`);
an approved one cannot be in it, since the snapshot precedes the request. Of the
cap (`CapKept`): the allowance of a thread counts at least the calls of its
turns that ran unattended, and never exceeds the cap. For the gate, the abstract
state of a call is a function of what the server has recorded of it; every step
moves one call along the gate or none, since a decision is made for the call a
turn waits for and for no other.

`EvaluationProofs` proves of the calibration, for cohorts of any size, any
scores, any outcomes and any consensus:

* `NeverSixHolds`: `NeverSix`, no calibration leaves a score above 5.5,
* `UncappedUnderReferenceHolds`: `UncappedUnderReference`, a calibration that
  caps no row leaves the bounded fits at or below the median of the reference
  fits, although it corrects outliers of both afterwards.

Both rest on two facts about medians of finite sets of rows: there is one, and it
lies between two of the scores (`MiddleExists`, `MedianBetween`), and if more than
half of the rows share a score, it is that score (`MajorityIsMedian`). An outlier
is therefore set to what its cluster shares (`OutlierGetsMode`), which is a score
some row of the cluster had, so it is not above 5.5; and the correction leaves the
median of the reference fits where it was (`MedianStays`). What a cap has taken
out of the later rules breaks this, which is why the second theorem has its
hypothesis and why one calibration does not do (section 6). Assumed is that the
model gives natural numbers.

* `CalibrationSettlesHolds`: `CalibrationSettles`, after two calibrations the rule of
  the bounded fits is obeyed and every dimension but CER is at rest, after four CER
  is.

No formula is kept by every calibration; each reaches what the next one needs. The
invariant `SettlingInv` goes by their number. After one no score is above 5.5, and
if a failed row is above 5.0 it is because the correction put it there: more than
half of its cluster are rows with that score that are not over a cap themselves
(`Explained`, from `OneExplains`). After two `Under` holds
(`TwoUnder`) and every later calibration keeps it, so that only caps and outliers
are left (`UnderThenPlain`). After three the rule of the homogeneous cluster applies
nowhere, neither to the scores nor to what the caps make of them (`Undivided`, from
`ThreeUndivided`), after four no row is over its cap (`FourPlain`), and then the caps, the rule and the
correction each change nothing. For another dimension than CER the first two steps
are all (`CapsTakeFailed`, `TwoScoresUndivided`).

Of one pre-evaluation, for any rubric, any answers of the model, any notebook
and any number of attempts and repairs, it proves `FlaggedNeedsReviewAlways`,
`EvidenceWinsAlways` and `NotesCleanAlways`. `EvaluationInv` follows the passes:
after the first *n* corrections what the first *n* establish holds
(`CorrectedBefore`, `PassesApplied`), and each later pass is shown to keep it,
pass by pass; that a category was given up leaves a mark in its note until the
confidence is set (`FlagLeavesMark`); the turns go through the rubric in its
order (`TurnsInOrder`).

`DashboardProofs` proves, for any assignments and rows, any number of overlapping
calls and failures:

* `PreEvalIsPolledAlways`: `PreEvalIsPolled`, of a dashboard that is shown. The registry and the polling loop are
  two stores that are aligned at several places; what holds at each of them is that
  the registry shows a pre-evaluation only while the list's own flag is up, and the
  timer runs while it is (`DashInv`). While the page is away the first is not so, and
  what opens it again brings the two together.
* `ArchivesItsOwnAlways`: `ArchivesItsOwn`, since an archive under way is of one
  assignment from its first row to its last (`BulkHome`).

`GradingPageProofs` proves, for any rubric, categories, ticks, cells, and any
number of entries, loads, saves and imports:

* `UntouchedKeptHolds`: `UntouchedKept`, what the teacher has not touched stays,
* `GradingTypes`: `GradingTypeOK` is an invariant.

The stored grading alone is not enough: a save puts the form over it, and a load
puts an old answer into the form. `PageInv` says two different things of the two
sides. What is stored, and what a load was answered, *has all* that was there
when the page was opened, where the teacher has entered nothing; the form, and
what a call sends, *have no other value* in its place, but may lack it. A load
takes from the first to the second (`Selections`: the rubric may drop a
category, or lack it), and a save spreads the second over the first
(`SpreadHolds`); an entry takes keys out of both (`EntryKeeps`). Assumed is that
the categories of the rubric are among those that may be stored.

The assumptions are those of the modules that declare the constants: students
are positive numbers, finitely many; `MaxVersion` and `MinConsensus` are
positive; requests are not pairs of a request and a number; routes and starting
rows are taken from their lists, and of what a restore may ask for nothing is
assumed; the bounds of the services
are natural numbers. The number of workers of a
run is the 2 of the code.

Only model-checked are the liveness properties `RequestsAnswered`, `RunSlotFreed`,
`EvaluationEnds`, `SlotFreed`, `EverySectionSettles`, `TurnsEnd`, `LoopsEnd` and
`PollingStops`: they need fairness and ENABLED, which the prover does not have.

## 5. Where the code does not do what its documentation says

Each of these is a run that TLC ends with a counterexample.

| Run | Property | Documented | What happens |
|---|---|---|---|
| `LostUpdate` | `GradingOnlyCleared` | `persist-lock.ts:7-8`: one chain "shared by every route that persists to those stores" | a teacher's save is overwritten by a batch that has read the file before it, for any two rows |
| `FixedRanWhole` | `FixedRanWhole` | `executor/app.py:955-956`: "`fixed` is True only when the whole re-run came back clean" | a re-run that nbclient ends early (a timeout, a dead kernel) has no error in the cells it did not reach, and counts as clean |
| `RevertRestores` | `RevertRestores` | `copilot-store.svelte.ts:509-510`: "restore the submission's grading state to the pre-turn snapshot" | the snapshot is merged over what is stored, so a field the turn filled in first stays |

## 6. Further things TLC finds

Each can be reproduced with the model and the instance named. The definitions
that are marked "(Does not hold.)" in the modules state them.

The server:

* A row that is no longer pending makes `updateStatus` throw outside the inner
  try of a batch, and the rows after it are not processed, although
  `process/+server.ts:17-19` says that one notebook failing does not abort the
  others (two `process` requests).
* A row graded while the model is asked about it is forced to pre-evaluated;
  `pre-evaluate/+server.ts:9` says that graded rows are left untouched
  (`preEvaluate` and `grade`).
* The calibration of a run reads and writes `results.json` after the slot is
  free and outside the lock, and erases the envelope of the next run (`process`
  and `preEvaluate` with `MinConsensus` 1, against `PreEvaluatedHasEnvelope`).
* The reset asks for the running flag once, before two reads and the wait for
  the lock; `pre-evaluate/reset/+server.ts:64-66` says it never resets mid-run.
* Two overlapping batches of executions share one progress record, and the
  first to end takes the flag down (two `process` requests).
* A row graded or archived after a batch has listed it is executed again (one
  `process`, one `grade` or `archive`).
* A process killed while a row is executing leaves it executing for good; no
  start-up code settles it and both process routes refuse it (`ExecutingIsOwned`
  with `Crashes`).
* A second execution between the model's answer and the store call leaves an
  envelope beside a result it was not derived from (`EnvelopeMatchesResult` with
  two requests, `process` and `preEvaluate`: a failed row is evaluable and runnable).
  `setPreEvaluation` refuses a row without a result and asks no more.
* A reset with explicit ids takes rows of any status to executed, also rows
  without a result (`ExecutedHasResult` with `resetPreEval`).
* An import without a grade erases the grade of a graded row and leaves the
  status (`GradeOnlyCleared` with `import`).
* A reset keeps `archivedFrom`; an archive cut short by a crash never writes it
  (`ArchivedRemembers` with `Crashes`). A restore then falls back to pending, or
  takes a row that was not archived to graded without a grade.
* A process tool asks whether a batch runs, then waits twice before it begins one,
  and the route does not ask at all: two run at a time, although
  `ops-tools.ts:92-97` calls them mutually exclusive (`BatchesExclusive`, two
  `process-all`). The one that meets a row the other has taken throws outside the
  inner try and ends, although 274 says "One failing row never aborts the others",
  and takes the flag of the other down; a lost update may then leave a row
  executing for good (`NothingLeftRunning` with the same two).
* A second pre-evaluation keeps the calibration's audit trail beside scores that
  are no longer calibrated (the field `adjusted` and `calibrated`).

The copilot:

* Reverting a turn whose run was given up by the panel, but not by the server,
  is not the last write (`RevertIsLast`; the store's comment at 511-516 relies
  on it).
* A steer sets a stop flag that any later tool result of any turn consumes; it
  can abort the turn it was not meant for. The end of an old turn's loop clears
  the controller and the timers of the new one; a message queued while the loop
  ends without a terminal frame is lost.
* A turn whose settings cannot be read ends its stream without a terminal frame,
  and the panel goes on showing it as streaming.
* A summary is told to later turns only by the turn that made it
  (`SummaryRemembered`; `compaction.ts:9-11` says later turns). A compaction
  writes the title it read before asking the model, which undoes a rename, and
  brings a deleted thread back, owned by nobody.
* A restart resets the session's counter of unattended calls.

The pipeline: both sides of a pair can end up in the envelope, since a later pass
checks one without clearing the other (`EnvelopeConsistent`); the comment at
`phases.ts:757-760` expects the opposite. A score under a dimension key in
another case escapes the cap.

A note that pass 6 generates quotes the names of the student's functions, after pass 4
has looked for plagiarism language: one called `classmate_mean` brings such a word
into the grading, where `post-process.ts:603-605` says it must never appear. The
model's generated note has a kind of its own, so `NotesClean` does not speak of it.

The calibration (`RawScores` {450, 500, 550, 600}, `CohortSize` 7): its header says
that a bounded fit "must sit at or below the reference-fit cluster's CER median"
(`cohort-calibration.ts:27-28`). After one run it need not: a bounded fit that a cap
has just taken is exempt from the rule (`OneCalibrationSettles`). Nor are two runs
enough to come to rest (`TwoSettle`, `RawScores` and `CohortSize` of `Services`): one
sets a failed row at 5.0 that is the outlier of its cluster to the score the others
share, over the cap (`FailedStaysCapped`), although `cohort-calibration.ts:29` says
that a submission "that failed execution is capped at CER 5.0"; the next caps it
again, and sets it once more if a row above has been capped as well.

The documentation index: a crash or a failing rename between the two renames
leaves vectors and manifest of two builds (`NeverTorn`; `docs-embed-rebuild.ts:
17-19` calls the rename the only commit point). The status shows the download
when it is the rebuild that runs and the state file says otherwise
(`StatusShowsJob`).

The slot of its jobs has one way of staying taken until the server is restarted:
what throws after it was claimed and before the `try` whose `finally` releases it, a
download script that is not found or `spawn` itself (`onboarding-docs-index.ts:
185-186`; `SpawnThrows`). And a `mkdir` that fails after the rebuild has registered
its live job (`docs-embed-rebuild.ts:247-248`; `StagingFails`) releases the slot and
leaves the job registered: the status shows it as running until another one begins.

The executor: an abandoned request is executed all the same, and keeps the
requests behind it waiting past their timeouts; a kernel that does not start
gives a notebook without errors, hence clean.

The plagiarism check: an answer to a check or a review lands on whichever
assignment is shown (`RightAssignment`; the guard of which
`plagiarism-store.svelte.ts:44-51` speaks is taken by loads only) and an older
one may follow a newer one (`NeverOlder`); the pairs of an archived student stay
unreviewed and block the export (`ArchivedBlockNobody`); with two handlers at a
time `DeletedForgotten` and `MarkdownMirrors` fail; an overlap counts repeated
cells and may exceed 1 (`OverlapIsAShare`; `structural.ts:110`).

Reviews: the draft does not remember the record it was saved to, so a save, a
reload and a save store a review twice (`SavedOnce`); a
review started in the same assignment keeps the selections and the record of the
student before (`RecordKeepsStudent`); undo and redo arm no auto-save.

The dashboard:

* A run that is found after a reload is armed by nobody's POST, and only a POST's
  answer ends a run on the page: it is shown as running, and polled, for ever
  (`OrphansEnd`; the page's comment at 369-372 says "Stops when the run ends").
* The store learns of a run from an effect of the page, and the effect goes with the
  page. If the teacher opens a submission in the middle of a pre-evaluation, the
  POST's answer takes down the registry's flag only; the list's own flag stays up,
  and the list is polled for ever, until the dashboard is opened again
  (`PollingStopsWithRun`; the same comment).
* A load of the assignment before the switch that lands late replaces the list
  and the store's assignment (`ListIsChosen`).
* `deleteMany` and `resetMany` read the store's assignment for every row; a switch
  in the middle deletes or resets the row of the same student in the other
  assignment (`DeletesItsOwn`). `archiveMany` reads it once.
* A refresh overtaken by another one leaves the older list, and nothing polls it
  away (`ListIsCurrent`).

The grading page:

* A Save between the submission and its grading configuration stores the scores
  and the empty notes of a page nobody has filled in (`UntouchedScoresKept`).
* A second load, or the answer of a save, replaces what was entered meanwhile
  (`EntriesStay`).
* Without a rubric the page has no ticks, and a suggestion that is applied and saved
  stores its category with the suggested tick alone (`SuggestionsAdd`, two ticks).
* A cleared review that is saved keeps its decisions about fixes: the page sends
  none, and the server merges by key (`ResetClearsDecisions`; the comment at
  471-473 says they are reset "with the next Save").
* An import brings its notes into the page and not its scores and ticks; the next
  Save writes the old ones back (`ImportIsShown`).

Some statements hold and are in no run, because a neighbouring one says more:
`MutualExclusion`, `ChainOfCalls`, `SlotFollowsJob`, `NeverSix` and
`UncappedUnderReference` (proved), `ExecutingSettles`, `StreamingHasLoop`,
`RequestsBounded` and `AcceptedConsistent` (pipeline), `InboxDrains`,
`CopyIsFlagged`, and the type invariants of `CopilotStore`, `PreEvaluation`,
`Calibration` and `GradingPage` (proved).

## 7. Hazards

`PROJECT.json` lists what is hard to test in this code, each at its line, with
the properties that watch over it. A hazard without a property is either one
that TLC shows to be real (section 6), so that there is no true statement to
check, or one below the abstractions of section 2; its note says which.

## 8. Not modelled

* **Rendering and formatting**: pages and components but for what the dashboard
  and the grading page do, prompts and their context, the export and the texts
  it writes, log panels, headers, tables. They compute a view of a state and
  change nothing. They are the greater part of the lines of the repository, and
  the reason why the definitions stand for a tenth of them.
* **The other tools of the copilot**: those that read, `draft-notes` (a
  pre-evaluation that is not stored), the two that call the plagiarism check as
  its routes do, and those that write settings, criteria and the registry.
* **Configuration files, the registry of assignments, backup, criteria drafts**:
  whole-file writes by one teacher without coordination, and without a promise
  about overlapping ones. A backup reads and a restore writes one file after the
  other while batches may run; the deletion of an assignment looks for submissions
  before it removes it, and an upload in between is not noticed.
* **The store of automatic fixes**, but for the decisions and the notes the grading
  page stores: one map from a cell to a suggestion; an answer for the submission
  shown before lands under the index of a cell of this one
  (`autofix-store.svelte.ts:76`).
* **`reset` of the plagiarism page's store**: nothing calls it.
* **The temporary file of a write** and errors of the disk, see section 2.
* **What makes two cells alike, what a model answers, what a kernel prints**: choices
  of the environment.
