# AIDILAM Creator OS: a verification project in TLA+

The repository is a studio back end: a Fastify API (`apps/api`), a BullMQ worker
(`apps/worker`), PostgreSQL as the source of truth, Redis for the queues and MinIO
for media. Nearly every feature has the same shape: a row with a status, routes that
read it and write it statement by statement, a queue item that refers to it, a worker
that takes the item and settles the row, and monitors that repair what a crash or a
lost message left behind. This directory models those features, checks them with TLC
and proves the main invariants with TLAPS.

* [The system](#the-system): inventory
* [Modules](#modules): what models what
* [Runs](#runs): what is checked, with which bounds and fairness
* [Proofs](#proofs)
* [Findings](#findings): where code and documents disagree
* [Limits](#limits): simplifications, what is only model-checked, what is not modelled
* [Plan](#plan)

## The system

| Component | State | Operations | Hard behaviours | What makes it correct |
|---|---|---|---|---|
| **Publishing jobs** (`publishing-worker.ts`, `job-routes.ts`, `enqueue.ts`, `publishing-adapter.ts`, migration 017) | job, attempts, quota reservation, usage record; queue `aidilam-publishing`; content on the platform | create, cancel, retry; promote, deliver, claim, publish, poll, settle, cancel actively; reconcile lost enqueues; recover stale jobs | unlocked reads, late settlements, deduplicated and lost enqueues, crashes between any two statements | limits and quota are never exceeded, usage is billed once and for a success, terminal statuses are final, every job settles |
| **General job queue** (`lifecycle/*`, `queue/*`, `jobs/api/routes.ts`, migrations 001, 003) | `jobs` row, lease and heartbeat, BullMQ item with the job's id, recovery lock | create, cancel, retry; claim, run, settle; time out; recover | two attempt counters, an item id that outlives its job, two-statement transitions, stale rows in the recovery | one execution at a time, only the latest claim reports success, nothing is given up early, nothing is stuck |
| **Translation, speech, video rendering** (`subtitle-translate.ts`, `tts-synthesize.ts`, `video-render.ts`, their routes, `reconcile-stale-reservations.ts`) | run, results per cue, budget reservation, usage, product | request, cancel; admit, work cue by cue, bill, commit, finish; reconcile expired reservations | redelivery in the middle, reservation expiry against a long run, cancel route against worker, products of a run that failed | the budget is never exceeded, results are complete and billed, a cancelled run costs nothing more |
| **Asset intake and media preprocessing** (`asset-ingest.ts`, `media-preprocess.ts`, assets and media routes) | asset, upload session, object in storage, media operation, derived asset | initiate, upload, complete, delete; ingest; preprocess, cancel, process | presigned URLs that outlive the validation, a second completion, deletion under a running handler | what is available was validated; a succeeded operation has the product of its source |
| **Subtitle tracks and transcription** (`subtitle-parse.ts`, `transcription-orchestrate.ts`, subtitle and transcription routes) | track, version, cues; run, segments, words, utterances; advisory lock | attach, delete, parse; request, cancel, transcribe | session locks through a pool, overlapping chunks, rows deleted under the handler | the whole media is transcribed, each word once; a ready track has its cues |
| **Settings** (profiles and styles; glossaries, reviews, budget limits; publishing accounts, destinations, profiles, publishing jobs under a key; general jobs under a key: `jobs/api/routes.ts`, migration 004) | one row each, versions, default flags, idempotency keys and their records | POST, PUT, PATCH, DELETE, decisions | optimistic versions, transactions that wait for each other, statements without transactions, two first requests of one key | no lost update, one job per key made of what was asked, every request is answered |
| **Workflows** (`workflow/*`, `workflow-execution/*`, `shadow-workflow.ts`, migrations 027-029) | definitions, versions, snapshots, executions, node executions, artifacts, process-local switches | validate, create, activate, clone, archive; prepare, enqueue, cancel, retry; three executors; route | row-by-row writes, a cut-off loop, redelivery, double delivery, counts of a version that go astray | a node runs after its inputs, success is evident, a key names one execution, raising the canary moves nobody back |
| YouTube upload (`upload-engine.ts`, `upload-repositories.ts`, migration 019) | session, offset, checkpoints | start, next chunk, finalize, cancel, expire | await between read and write, ambiguous answers | offset equals the accepted bytes |
| YouTube OAuth (`oauth-service.ts`, `model.ts`, migration 018) | authorization session, credential binding, secret | create, callback, validate, revoke | callback used twice, failure between exchange and binding | single use, a binding has its secret |
| Sessions and authentication, authorization and rate limits, video review, video pipeline, projects, UI, process start-up | one row each | guarded updates | see `PROJECT.json` | see `PROJECT.json` |

The last three rows are not modelled (see [Limits](#limits)).

The API and the worker meet in the tables and in Redis only. The API inserts rows
and adds queue items after its commit; the worker claims rows, does its work outside
any transaction and settles with updates whose `WHERE` clause, when it has one besides
the id, is the only protection against what happened meanwhile. The worker process also
runs the monitors: the publishing scheduler (every 10 s) and the recovery and timeout
monitors of the general queue (every 30 s and 15 s).

The general queue carries the handlers of all other components, so their models sit on
it in two steps. `JobLifecycle` has the queue in detail, with attempts, leases, stalls
and recovery, and an opaque handler. `BudgetedRuns` (for the paid pipelines) and
`WorkerJobs` (for intake and transcripts) have the job as a handler sees it, delivered,
interrupted anywhere and delivered again, executed by one process at a time: that is
`NoDoubleRun`, which is proved of `JobLifecycle`.

`PROJECT.json` lists every component with its sources, and the hazards of the code at
their lines.

## Modules

| Module | What it is |
|---|---|
| `PublishingJobs` | the publishing subsystem: API routes, queue, worker, scheduler, recovery |
| `QuotaLedger` | its abstract specification: a job holds one operation of its project's day, gives it back or spends it once |
| `JobLifecycle` | the general job queue: API routes, BullMQ item, processor, timeout monitor, recovery |
| `BudgetedRuns` | what the three paid pipelines share: run, job and item, reservation and usage, the execution, the cancel route |
| `SubtitleTranslation`, `SpeechSynthesis`, `VideoRender` | their routes and handlers |
| `ContentPipeline` | their composition: common budgets and workers, products passed on |
| `BudgetLedger` | its abstract specification: hold within the limit, give back or spend |
| `WorkerJobs` | the general job as the handlers of the next four modules see it |
| `AssetIngestion` | one uploaded asset: routes, storage, ingest handler |
| `MediaPreprocess` | the media operations over it; extends `AssetIngestion` and composes both |
| `SubtitleTracks` | attach, parse and delete of subtitle tracks |
| `Transcriptions` | transcription runs and the advisory lock; extends `SubtitleTracks`, whose tracks it makes |
| `ProfileSettings`, `TranslationGovernance`, `PublishingSetup`, `JobRequests` | the four parts of a project's settings and requests |
| `ProjectSettings` | their composition |
| `WorkflowGraphs` | pure: the validator's graph rules, the order of nodes, readiness |
| `WorkflowVersions` | definitions, versions and the preparation of executions |
| `WorkflowExecutions` | the three executors and the calls around them |
| `CutoverRouting` | the routing switches and the canary buckets |
| `Workflows` | the composition of the four |
| `MCPublishing`, `MCJobs`, `MCPipeline`, `MCMedia`, `MCTranscripts`, `MCSettings`, `MCWorkflows` | the TLC instances |
| `InductionLemmas` | induction and recursion over the naturals, for the proofs |
| `PublishingProofs`, `JobProofs`, `PipelineProofs`, `MediaProofs`, `TranscriptProofs`, `SettingsProofs`, `WorkflowProofs` | the theorems |

A transaction of the code is one action; a request or a handler that awaits between
statements is one action per statement, with a label (`pc`, `at`) that says where it is
and a record of what it has read. A crash ends an execution at any label. `map` in
`PROJECT.json` gives the lines of every definition.

### PublishingJobs

State: `status`, `attempt`, `attempts`, `reservation`, `usage` are the five tables'
columns that decisions read; `live` is what is on the platform; `waiting` and `kept` are
BullMQ's waiting items and the ids it still remembers (active and finished ones), which
make a second `add` of the same id a no-op; `worker` is the program counter and the local
values of each slot; `canceller` is an open cancel request with the status it read;
`stale` holds the rows the recovery has selected and not yet handled.

The cancel route is `CancelRead`, then `CancelActive` or `CancelWaiting`, then
`CancelRelease` (or `CancelAborted`, when the process dies between two autocommitted
statements), the processor is `Claim`, `Prepare`, `Publish`, `Classify`, `Poll`, and one of
the settlements, and the recovery is `SelectStale` and one `RecoverRow` per row, although
its SELECT says `FOR UPDATE`: it runs outside a transaction, so its locks end with the
statement. `Crash` ends a slot anywhere and BullMQ redelivers its item; `Unhandled` is the
catch-all; an enqueue may be lost (`Enqueue`, `EnqueueApi`); `SchedulerCrash` drops
selected rows. With `MayStall` a live process may be so slow (120 s without a write) that
its job is recovered as stale.

### JobLifecycle

State: `status` and `attemptCount` of the row; `item`, the BullMQ item of each job with its
state, failed deliveries, tries and whether it stalled before; `worker`; `requests`, the
cancel and retry requests between their read and their write; `stalled`, the rows of the
recovery with the step they are at.

`Create`, `RequestRead`, `CancelWrite` and `RetryWrite` are the routes; `Skip` and `Claim` a
delivery; `Start` and `Finish` the processor, which goes on whether or not its transitions
matched a row; `SlotFails` any of its queries throwing; `Crash` and `Stall` the loss of a
slot and of its BullMQ lock; `Evict` BullMQ's `removeOnComplete` and `removeOnFail`;
`TimeOut` the timeout monitor; `SelectStalled`, `Requeue`, `MarkTimedOut`, `LeaveTimedOut`
and `RecoveryFails` the recovery. The lease and the heartbeat are the predicate `Beating`:
a job is recoverable when no slot works on it, or, under `MayStall`, at any time. Since
every slot has the same `worker_id`, any slot that works on the job keeps its lease alive.

BullMQ is external. What the models assume of it: an `add` with an id that exists, in any
state, is ignored; an item whose processor throws is delivered again while it has tries;
an item of a slot that stops renewing its lock is delivered again once and then fails;
finished items are forgotten some time.

### The paid pipelines

`BudgetedRuns` has one function per table (`status`, `job`, `reservation`, `usage`, `cues`,
`product`, `quality`, `review`), `pc` for the execution of a run and `canceller` for its cancel
request. A behaviour chooses a case first: the kind and the cost of each run, which product
a run is made from, which runs share an idempotency key. Each handler is a chain of
actions from the admission to the end: translation writes the version, its cues, quality,
usage, commit, review assignment; speech resumes from the cue rows an earlier attempt
left; a render awaits ffmpeg, which a cancellation may kill. The budget admission is one
transaction under its lock and counts what the code counts: in a redelivered speech or
render run, its own open reservation and its own usage too. `Reconcile` releases an expired
reservation; `MayOutliveTtl` says whether that may happen under a live execution.

### Intake and transcripts

`WorkerJobs` has the job's status, the cancel flag, the waiting item, the label and the
memory of its execution. `AssetIngestion` and `MediaPreprocess` share one asset whose object
may be rewritten as long as a presigned URL is valid; contents are named (`clip` valid,
`short` of the wrong size, `script` dangerous), ffmpeg's output is a function of the content.
`Transcriptions` has the segments with the words heard in each, the utterances, and `lock`: the
database session that holds each advisory lock, how often, taken and released through a pool
that gives any of its sessions to each statement. Segmentation and grouping are the code's
loops, as recursive functions.

### Settings

`ProfileSettings` has transactions: a row written by an open transaction is locked until it
ends (`holder`), others see the committed row, an UPDATE that waited checks its row again, and
the database ends one transaction of a cycle of waiting ones. `TranslationGovernance` runs its
statements one by one. `PublishingSetup` reads the rows a route depends on one by one, and
creates jobs under keys. `JobRequests` creates general jobs: `POST /jobs` looks up the record of its key (one for
each actor and project, with a fingerprint of the body and a time of expiry), inserts job and record in one
transaction, and answers the loser of two insertions from the winner's record; the dashboard's `POST /video-pipeline`
looks for a job under the key and has no record. A key is unique over all jobs. The four are written by no common
transaction, so a behaviour of `ProjectSettings` works on one of them and loses nothing.

### Workflows

`WorkflowGraphs` translates the validator (duplicate keys, unknown endpoints, self-loops,
cycles by Kahn's algorithm, sources) and the order of nodes. `WorkflowVersions` writes a version, its nodes
and its edges row by row while others read them. `WorkflowExecutions` has the shadow worker for
an item that may be delivered again, the in-process shadow executor and the dry run, each with its
own copies of the statuses and of `state_version`; `done` is a history variable, the nodes whose
work was once completed. `CutoverRouting` has the switches and `Route`, with the hash as a
constant.

## Runs

Each run asks one question of one subsystem; its properties are explained at their
definitions.

| Run | Instance | Shows |
|---|---|---|
| `publishing_timely` | 2 jobs, 1 slot, daily quota 1, 2 attempts, 1 fault | under every interleaving: quota and usage agree (`UsedIsCommitted`, refinement `LedgerSpec`), attempts are made one after the other and never rewritten (`AttemptsInOrder`, `AttemptFinal`), `cancelled` is final |
| `publishing_contention` | 2 jobs, 1 slot, no quota, limit 1, 1 attempt, 1 fault, fair | the limit holds (`ConcurrencyLimit`), also when a crashed slot leaves a job in `publishing`; a refused claim or a lost enqueue strands no job (`EveryJobSettles`) |
| `publishing_live` | 1 job, 2 slots, 2 attempts, 2 faults, fair | an accepted job settles through retries, crashes, lost enqueues and re-adds that BullMQ ignores; reservation, usage and status agree (`LedgerRows`); billed content stays on the platform (`BilledIsLive`) |
| `jobs_live` | 1 job, 2 slots, 2 attempts of 3 tries, stalls, 3 faults, fair | two slots execute a job only after one lost its item; a success is the latest claim's; dead letters were tried `max_attempts` times; nothing stays claimed or running for ever |
| `pipeline_runs` | 2 runs in the cases below, 2 cues, per-run limit 2, daily limit 3, 1 fault | the ledger is kept (`KeepsBudget`, a refinement of `BudgetLedger`), succeeded runs were billed and hold nothing (`RunsInv`), products are complete, a version that failed its quality check is reviewed, a cancelled run costs nothing more |
| `media_intake` | 1 asset, 3 contents, 2 writes of the object, 4 scenarios, 1 fault | an asset becomes available only out of the validation that is under way, whatever overtakes the ingest (`AvailableOnlyValidated`); nothing is made from content the ingest would reject, and a succeeded operation has its product (`ProductsInv`) |
| `transcripts` | media of 1, 2 and 3 segments with every combination of heard words; 5 scenarios, 2 sessions, 1 fault | the segments cover the media, every word ends in one utterance, tracks and runs have the rows their status promises |
| `settings` | 3 or 4 concurrent requests in 250 starting situations, 1 broken statement, 1 crash, 2 tries | no update is lost (`SettingsInv`), a glossary's version counts its entries, a publishing job is made of what its call asked and of rows that belong together, a key gives one general job and its record admits one request (`JobAsAsked`), a project that has a default profile keeps one, every request is answered |
| `workflows` | see below | `CyclesAreFound`, the validator finds every cycle; `InputsWereMade`; `SucceededIsEvident`; `FailureStopsTheRun`; `ConclusionKept`; `RunConcludes`; `KeyNamesOneExecution`; `RoutesAreStable` |
| `publishing_success_overwritten`, `transcription_lock`, `workflow_cancel_lost` | 1 job, 1 run, 1 execution | the findings below, each a violated statement of the repository |

Every property of a passing run has a mutant: a plausible bug in one definition (an
off-by-one, a dropped guard, a missing reset) under which TLC finds the property violated.
The type invariants of the composed modules are the first conjunct of `RunsInv`,
`ProductsInv`, `TracksInv`, `SettingsInv` and `WorkflowsInv`.

**Bounds.**

* *Publishing and jobs.* `AttemptBound` caps the attempt counter one above `MaxAttempts`, so that
  an excess attempt would be seen; `MaxPolls` caps the polling loop, `MaxFaults` the crashes, lost
  enqueues, failed queries (and, in `jobs_live`, stalls and late recoveries) of a behaviour. Two jobs are
  enough for the counting properties, as each admission compares with a limit of one: the daily quota in
  `publishing_timely`, where a second job waits for the first one's reservation, and the concurrency in
  `publishing_contention`, where both jobs are queued at once. Two slots let a late settlement meet a
  new claim. One fault meets every interleaving of the rest; liveness of one job is checked with two or
  three, so that a recovery may fail as well.
* *Pipelines.* Two runs: two of each kind that contend (2 + 2 against a limit of 3), one above the per-run limit, two
  under one key, and the chains translation to speech and speech to video. Two cues: a crash may fall between
  them. One crash, lost enqueue or failed query. `MayOutliveTtl` is FALSE: see [Limits](#limits).
* *Media.* Each scenario names the requests that may occur: two completions and a deletion, an operation on an
  asset that is deleted, completed again, or shared by two operations. The client writes the object twice.
* *Transcripts.* Lengths in units of about a third of a segment (segment 9, overlap 3, shortest tail 6); 4, 11 and 18
  give one, two and three segments, so that a word may lie in no, one or both sides of an overlap. Scenarios: a
  track attached again, a run requested again, two runs that make one track, and runs with a deletion or
  a cancellation.
* *Settings.* Three or four requests on two or three rows; an author who is refused for a stale version may load the row
  and try once more (`MaxTries`). The situations are generated, 250 of them, over bodies, flags, statuses and ids
  that do not belong together; of the general jobs, three requests under one key by the same or another actor, project and route.
* *Workflows.* The validator is given all 512 graphs over a source, a step and a review; the five it accepts run with the node
  positions in 7 orders under each executor with one failing statement or handler; the seeded ten-node
  workflow runs with its positions forward and back to front, which needs all passes of the executors' loops;
  a short chain and a fork run with one crash or one stall and two deliveries; two requesters cancel and retry.
  Three calls write and prepare versions, with one failure. Routing: three switches, two tenants, one of which
  hashes to the boundary bucket 5536 (65535 % 10000), shares at, below and above it.

Symmetry (jobs, slots, runs, sessions) is used in runs without liveness only, for constants that the
instance treats alike. Deadlock is not checked: when everything is settled and no user acts, the system rests.

**Fairness.** Publishing and the general queue: weak fairness of each slot's processing (handlers and adapters
have timeouts of their own), of open requests and of the monitors, which run on an interval timer; strong
fairness of delivery, as BullMQ serves its list in order, so that an item that is there whenever a slot falls idle is
delivered. Settings: weak fairness of the server's steps of each open request, for the statements return or fail and
the database ends deadlocks. Workflows: weak fairness of delivery and of a runner's steps. Users, evictions, the
timeout monitor, faults and stalls are never forced; an author is not forced to try again.

## Proofs

`tlapm` checks every theorem for all values of the constants that satisfy the named
assumptions (`ConstantsAssumption`, `JobAssumption`, `RunsAssumption` and the like), the bounds included: no proof
uses a particular value or a fixed number of jobs, slots, runs, runners, tenants or graphs.

*PublishingProofs.*

* `TypeCorrect`: type correctness.
* `LimitCorrect`: `ConcurrencyLimit`. `OnlyClaimPublishes` shows that no other action adds a job to
  `publishing`, so the set of jobs in progress only shrinks (`Cardinality` of a subset); `LimitStep` does
  the claim, which counts before it writes.
* `SettledCorrect`, `CommittedCorrect`: both follow from one inductive step (`QuotaStep`) over the
  settlements, the recovery and the routes.
* `UsageCorrect`: `UsageIsSucceeded`, also with stalls. Not inductive: a late worker may settle an
  attempt that another actor ended. The invariant `UsageInv` adds that attempt numbers are handed out once
  (`NumbersHandedOut`), that a worker's attempt is one that was handed out (`OwnAttempt`) and no
  other worker's (`OneOwner`), and that a succeeded attempt has no worker about to end it otherwise
  (`SucceededUnowned`).
* `LedgerRowsCorrect`: `LedgerRows`, the conjunction of the three. TLC checks it without stalls; the theorem
  has no such restriction.

The rest of the module, but for `BilledCorrect`, assumes `~MayStall`: the recovery takes no job from a process
that is alive, which is what its stale threshold is for. With stalls these theorems do not hold (see Limits).

* The inductive invariant is `ExclusionInv`: at any time one process may write a job's row. A busy slot's row is
  `publishing`, `cancel_requested` or `cancelled`, from where nobody can claim it again (`OneWorker`, `BusyInv`); the
  recovery has selected only rows that no live slot has, and they are still as it read them but for a cancel request
  (`StaleInv`); what a cancel route has read is not undone behind its back (`RequestInv`); a job that waits has no
  attempt running and one left (`WaitingInv`), and the operation it may spend is reserved (`HeldInv`).
* `AttemptsCorrect` and `UsedCorrect` are parts of it. `AttemptFinalCorrect` and `CancelledCorrect` are shown of each step
  from it, since the code writes the two statuses by id, without a look at what they were.
* `LedgerCorrect`: the refinement to `QuotaLedger`. A reservation (of the create or the retry route) is a Hold, a
  release a GiveBack, the worker's settlement of a success a Spend, every other step a stutter. `DailyQuotaCorrect` is
  what the ledger promises, the limit of the day, brought back through the refinement.
* `BilledCorrect`: `BilledIsLive`, also with stalls, from `UsageInv`: a billed attempt has no owner any more, and nobody
  but the owner of an attempt takes its content down.

*JobProofs.*

* `JobTypeCorrect`. Not inductive by itself (a delivery count must not exceed the item's tries), so it is a
  part of `ItemInv`.
* `NoDoubleRunCorrect`: two slots run one job only if one of them lost its item. `ItemInv` says that a busy
  slot that has not lost its item holds the active item of its job (`ItemIsHeld`), that two such slots hold
  different items (`OneHolder`), and that waiting and active items have a try left (`TriesLeft`). The argument is that
  the item's id is the job's id, so no second item comes to exist while the first is active, whatever the row's
  status says.
* `DeadLetterCorrect`: `DeadLetterIsExhausted`. `DeadInv` adds that a selected row never counts more claims
  than the table does (`RowsAreOld`), so deciding from an old row is on the safe side.
* `ResultCorrect`: `ResultOfLastClaim`, also with stalls. `LatestInv` says that a busy slot that has its item still
  carries the row's `attempt_count`: another claim needs another delivery, and the item is not delivered while it is
  held.

*PipelineProofs.*

* `RunsCorrect`, `InputsCompleteCorrect`, `ReviewCorrect` and `CancelledCorrect` follow from one inductive invariant,
  `PipelineInv`: each label of an execution says what is stored, billed and committed by then; an item that waits is
  executed by nobody; the cancel route is about to conclude a run only while nobody can take its item. The proof follows
  the shape of the module. Every action is the action of one run, so `OfRun` turns "the invariant holds of all runs"
  into "it holds of the run that moves" (`Run`, a lemma per group of actions) and "it goes on to hold of the others"
  (`Others`), which see only that run's product. The four theorems also hold for `MayOutliveTtl` TRUE.
* `BudgetCorrect`: `KeepsBudget`, the refinement of `BudgetLedger`, from `~MayOutliveTtl`. `HoldInv` adds that an
  execution holds its estimate from the reservation to the bill, and that a translation not executed yet has no
  reservation from before. Then a step of a run books one entry of the ledger or none (`Books`, a lemma per group of
  actions), and only the reservation statement opens one, when what it sums leaves room. That sum is at least the
  ledger's (`SumsAreSafe`): it counts twice the run that has both rows. The lemmas on sums say what the fold computes,
  whichever elements it chooses: rows may be added in any order (`SumWithout`), and a union is at most the sum of its
  parts (`SumOfUnion`).
* `LimitCorrect`: the consequence a project sees. What a pipeline has spent and holds is within its daily limit
  (`WithinLimit`).

*MediaProofs.* `ValidatedCorrect` and `ProductsCorrect` follow from `MediaInv`. An ingest ends by writing the row whose
version it has read, WHERE the version is still that one. Every other writer of the row counts the version on
(`RowMoves`), so an ingest that holds the current version is the one whose validation is under way. For the products:
the row's checksum is never that of a content the ingest would reject, an operation compares what it downloaded with it,
and works on that content to the end (`OpFits`), whatever is written to the object meanwhile.

*TranscriptProofs.*

* `TracksCorrect`: `TracksInv`. It follows from `TranscriptInv`, which says what is stored at each label of the parse
  (`ParseFits`) and of the transcription (`RunFits`). Nothing is a transaction here, and a job may be delivered again
  after a crash anywhere. The argument is that a handler goes on only from a track that is pending, or a run that is
  queued, that the first write after this read ends that status, and that no track or run gets it twice; so there is one
  pass over the rows, in which the version is made ready after its last cue and the track after the version.
* `CoverCorrect`: `CoversMedia`, for every length of the media, of the segments, overlaps and tails. By induction over
  the starts, from the end of the media backwards: what the loop cuts off from a start on covers the media from there on
  (`SegmentsCover`). `ListenInv` adds the handler's part: the rows of a run that has inserted its segments are those of
  the media, and all of them are `succeeded` once the loop is through (`ListenFits`).
* `WordsCorrect`: `EveryWordOnce`, for every choice of words heard in the segments. No two words of the provider begin
  together, so to order them by their beginning loses none and repeats none, those of the overlaps included
  (`RankedWords`); by induction over the words, the groups so far hold exactly the words so far, in order, and none
  lasts too long (`GroupedFits`). By `ListenInv` what a run has stored is grouped out of the words of its segments.

*SettingsProofs.* One inductive invariant for each part; a part is untouched by the steps of the others, so their conjunction
(`AllInv`) is one of the whole, from any situation that meets `ScenesAssumption` (rows that refer to rows, a PUT of a
row that is there, a new id for each POST), which TLC evaluates for the 250.

* `SettingsCorrect`: `SettingsInv`. `ProfilesInv` says that an author whose version is still the row's has seen all its
  edits, that a transaction which has written its row holds the lock on exactly that version, and that a lock is held
  by the transaction that wrote the row; `GovInv` has the same for the budget limits.
* `DefaultKeptCorrect`: `DefaultKept`. Only a commit writes rows (`DefaultStep`); what it takes the flag from are profiles of
  the table in which it sets its own.
* `VersionCorrect`: `VersionCountsEntries`, by counting the additions between their statements.
* `JobAsAskedCorrect`: `JobAsAsked`. A row that is there changes its status only (`Grows`), so what a call has resolved stays
  resolved; an answer from a record of the call's own scope was compared with it.

*WorkflowProofs.*

* `InputsCorrect`: `InputsWereMade`, for every graph, executor, number of runners, deliveries, crashes, stalls,
  cancellations and retries. `InputsInv` bounds what the rows and each runner's copy may say: a status beyond `pending`
  means that the node's predecessors are in `done`, `succeeded` that the node is, and a retry is written for failed rows
  only; `done` only grows, so a copy that is old stays true.
* `KeyCorrect`: `KeyNamesOneExecution`. `KeyInv`: a key has one snapshot, a preparation that has passed its insert owns
  exactly one, with its key and intent, and an answered one made or found one.
* `RoutesCorrect`: `RoutesAreStable`, for every hash, share and set of tenants.
* `CyclesCorrect`: `CyclesAreFound`, for every graph. Kahn's rounds grow until nothing is added (`KahnIsComplete`), so
  what is left over is a set each of whose nodes has a predecessor in it, and every such set is left over
  (`CycleCheckIsExact`).
* `ConclusionKeptCorrect`: `ConclusionKept`. `CalmInv`: without stalls and cancellations one runner at a time is at
  work, the one that has the item, and after a conclusion every runner is idle, at the entry, where it will be refused,
  or on its way out.
* `FailureStopsCorrect` and `SucceededCorrect` (`FailureStopsTheRun`, `SucceededIsEvident`) speak of one delivery.
  `AloneInv`: its runner's copies are the rows (`Copies`), and what the runner says of its pass is true of them
  (`Tells`): it knows of a failed node, and the pass in which it is has not come too late. For the second the argument
  is a count. While a node is left over in a valid graph, one without unfinished predecessors is (`ValidIsAcyclic`), so
  each pass moves a node, a node can move three times, and `3n` passes suffice; a pass that moves nothing leaves nothing
  over. `EvidenceInv` adds that a node is marked `succeeded` after its artifact was recorded.
* `WorkflowsCorrect`: `WorkflowsInv`, the types and `AnsweredIsValid`. `VersionsInv`: a version has one author
  (`AuthorsInv`), what the author holds passed the validator when it was read, and the rows of the version are a prefix
  of it, so an answered one, whose author has written all of them, passes too, whatever the source of a clone has
  become. `RowsOfVersionsInv` gives each number of a definition once.

*InductionLemmas* states induction of sets of numbers, from the library's theorem on least elements of well-founded
relations, and that a function defined by recursion on `0..N` exists; `CyclesCorrect`, the count of passes,
`CoverCorrect`, `WordsCorrect` and the sums rest on it.

From the constants the workflows' theorems use that the types the executor handles are among the known ones, that the
graphs of the tasks are specifications (`IsGraph`), one of them valid, and of the starting tables (`StartsAssumption`)
that their rows meet the columns' types and the unique key on the version number and that each creation has a new id.
TLC evaluates both assumptions. The transcripts' theorems use that the handler's constants are natural numbers, that an
overlap is shorter than a segment and than the shortest tail, and that a group may last as long as one word
(`TranscriptsAssumption`; the code has 30 s, 500 ms, 1 s and 7 s).

Each inductive invariant was checked by TLC before it was proved.

## Findings

1. *A finished publication is reopened or overwritten* (`publishing_success_overwritten`): the cancel route
   decides on an unlocked read and writes by id (`job-routes.ts:295`).
2. *An advisory lock is not released* (`transcription_lock`): a session lock is taken and released through a
   pool. When the pool gives the release another session, nothing is released, the answer is not looked at, and
   the next run of the same key waits until its statement times out, as long as that session lives
   (`transcription-orchestrate.ts:521`).
3. *A cancelled execution ends as succeeded* (`workflow_cancel_lost`): the dry run and the shadow executor count
   `state_version` on whether or not their guarded write took effect, so the first write after a cancellation is
   lost and the second takes effect again (`dry-run-harness.ts:170`).

Further disagreements between code and documents, met while modelling and visible in the modules, that no run repeats:

* A cancel request for a publishing job is lost when the stale recovery handles a row it selected before the request
  (`publishing-worker.ts:175`, `:207`; `publishing-adapter.ts:66`, "cancel_requested: ['cancelled']").
* A cancelled publishing job keeps its reservation for the day when the process dies between the cancel route's two
  statements (`job-routes.ts:300-301`; `docs/runbooks/publishing-operations.md:37`, "reservation released").
* A manual retry of a general job may do nothing: BullMQ still holds the id (`jobs/api/routes.ts:390-397`,
  "Reconciliation will catch it"; there is none for this queue).
* An automatic retry of a general job may never come: the row is in `retry_wait` for a retry that the API's queue client
  never asked BullMQ for (`worker.ts:102`, `routes.ts:22-29`).
* A cancellation of a claimed or running general job is never concluded: no statement leads from `cancel_requested` to
  `cancelled` (`08_job_and_worker_architecture.md:58`, `RUNNING --> CANCELLED : Cancel requested`).

## Limits

**Only model-checked.** Liveness (`EveryJobSettles`, `NoStuckRun`, `EveryRequestAnswered`, `RunConcludes`), which is out of the
prover's reach. Every other property of a run is stated by a theorem.

**What the properties do not claim**, because the code does not give it:

* *Publishing.* With stalls, settlements and recoveries that decide from old attempt numbers can re-queue a job beyond
  `max_attempts`; `publishing_timely` excludes stalls.
* *Pipelines.* The commit of a reservation does not look at its status, so an execution longer than the reservation's 30
  minutes may spend money that was given to another run; the reconciler that would release it has no caller in the
  repository, and `MayOutliveTtl` = TRUE breaks `KeepsBudget`. A translation whose worker dies after it became running is
  refused when it is delivered again, stays running and answers every new request with the dead run. A query error leaves
  a job in `retry_wait`, which nobody delivers. A failed or cancelled speech or render run keeps its key. Reservations of
  these runs leak when the release fails.
* *Media.* The catch block of `media-preprocess` writes `failed` over `succeeded` when the report after a success fails; an asset
  stays `validating` when the ingest fails after its third step; a failing storage deletion is swallowed; the unique `object_key`
  makes a later operation with the same output fail; a succeeded operation is replayed although its product was deleted.
* *Transcripts.* A run whose worker dies while it transcribes or assembles stays there, and the route replays it. A tail of less than
  half a second beyond the last segment is not transcribed. A track deleted while it is parsed is made ready again. A
  redelivered parse is refused and its track stays in `parsing`.
* *Settings.* Two defaults may result from two concurrent requests. A PUT with a language only, or a voice only, skips the check that
  they fit. A style may be deactivated after a profile's check of it. A second approver of a glossary overwrites the first, entries may be
  added to an approved one, a late request for changes reopens a concluded review. Account status `disabled` does not
  refuse a job. A key of a general job is unique over all actors, projects and routes, while its record is one actor's and
  one project's: a call under a key that someone else has used is answered with that job, unseen (`jobs/api/routes.ts:184-195`). The
  dashboard compares no body, and answers 500 when it loses the race for a key or its enqueue fails after the job was made.
* *Workflows.* A preparation may freeze a half-written version. A redelivered shadow execution leaves the node that was running undone,
  and what depends on it, and reports `succeeded`: `SucceededIsEvident` speaks of executions with one delivery. An aborted
  attempt leaves the execution `running`, and the retained item id keeps it from being enqueued again. Node types
  the shadow executor skips leave their successors pending. A retry of a node after the conclusion has no effect. Most of these
  entry points have no caller in production yet.

**Simplifications.** Delays (backoff, schedules, refusals) are nondeterministic. One day: reservations are not counted across
midnight. Adapters and providers answer or fail, as the mock ones do; ffmpeg gives an output, an error, or is killed. Pipelines:
estimates are positive and equal the billed cost. Progress, event and audit rows are left out, no decision reads them. A claim whose
COMMIT is carried out but reported as an error is taken for one that failed. A cancellation is looked at before each step of an
ingest, later requests are not seen. Workflows: membership, visibility and asset checks are accepted; configuration is one flag;
in-process executors are called one at a time; nobody compares the `state_version` the worker counts, so it is left out.

**Not modelled.** Everything marked `not_modelled` in `PROJECT.json`, with the reason there. The YouTube upload engine works in memory over
a fake transport and its repositories have no caller but tests; OAuth, browser sessions and video review
are guarded updates of one row each. The video pipeline's `updateJobStage` writes `jobs.status` by id and does not look at
`checkCancellation`, its item is `pipeline-<id>` where recovery and retry add `<id>`, and its outputs have a unique
`object_key`, so a second run of a stage fails: a success or a cancellation can be overwritten, and nothing in the repository claims
otherwise. Text conversion (SRT, VTT, ASS, command lines, pages), SQL roles,
authorization tables and audit rows are data, read or written once per request.

## Plan

In order of weight:

1. `UploadSession` for the YouTube upload: the engine against the repository's guarded updates, offset and accepted bytes;
   `OAuthSession` next to it.
2. `JobLifecycle` extended by the video pipeline's stage writes, with its own item ids.
3. `BrowserSession`, the review decisions, the rate limiter.
4. `PublishingJobs`: a day counter, for a reservation that is reopened on a later day; `JobLifecycle`: several jobs under TLC.
