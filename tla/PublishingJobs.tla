--------------------------- MODULE PublishingJobs ---------------------------
(***************************************************************************)
(* The publishing subsystem: the API routes that create, cancel and retry  *)
(* a publishing job, the BullMQ queue `aidilam-publishing', the worker      *)
(* that claims a job and drives the platform adapter, and the scheduler     *)
(* that promotes, re-enqueues and recovers jobs.                            *)
(*                                                                         *)
(* PostgreSQL rows are the shared state; every action is one transaction,   *)
(* one autocommitted statement, or one await of the adapter, so that all    *)
(* interleavings of the API, the workers and the scheduler are present.     *)
(* Wall-clock delays (backoff, poll interval, 60 s and 120 s thresholds)    *)
(* are nondeterministic waiting.                                            *)
(***************************************************************************)
EXTENDS Naturals, FiniteSets

CONSTANTS
  Jobs,          \* one job per (project, idempotency key)
  Workers,       \* processing slots: worker processes times their concurrency
  Scopes,        \* what a concurrency limit is counted over
  ScopesOf,      \* a job's scopes: global, its project, platform and account
  Limit,         \* the limit of each scope
  Projects,
  ProjectOf,
  DailyOps,      \* maxPublishOperationsPerDay; 0 is unlimited
  MaxAttempts,   \* publishing_jobs.max_attempts
  AttemptBound,  \* bound of the model: no claim beyond this attempt number
  MaxPolls,      \* maxPollCount
  MaxFaults,     \* bound of the model: crashes, lost enqueues, query errors
  MayStall       \* may a live process pause longer than STALE_THRESHOLD_MS?

ASSUME ConstantsAssumption ==
  /\ IsFiniteSet(Jobs) /\ Jobs # {}
  /\ ScopesOf \in [Jobs -> SUBSET Scopes]
  /\ Limit \in [Scopes -> Nat \ {0}]
  /\ ProjectOf \in [Jobs -> Projects]
  /\ DailyOps \in Nat
  /\ MaxAttempts \in Nat \ {0}
  /\ AttemptBound \in Nat /\ AttemptBound >= MaxAttempts
  /\ MaxPolls \in Nat \ {0}
  /\ MaxFaults \in Nat
  /\ MayStall \in BOOLEAN

VARIABLES
  status,        \* publishing_jobs.status, "none" before the row exists
  attempt,       \* publishing_jobs.current_attempt
  attempts,      \* publishing_attempts.status by attempt number
  reservation,   \* publishing_quota_reservations.status
  usage,         \* attempt number in publishing_usage_records, 0 if no row
  live,          \* attempts whose content is on the platform
  waiting,       \* BullMQ items to be delivered
  kept,          \* BullMQ items delivered, whose id is still taken
  worker,        \* local state of processPublishingJob in each slot
  canceller,     \* local state of the cancel route, for each job
  stale,         \* rows recoverStaleJobs has selected and not yet handled
  faults

dbVars  == <<status, attempt, attempts, reservation, usage>>
mqVars  == <<waiting, kept>>
vars    == <<dbVars, live, mqVars, worker, canceller, stale, faults>>

AttemptNo == 1..AttemptBound
Terminal  == {"cancelled", "succeeded", "failed"}
Claimable == {"queued", "retry_wait"}
Failable_Unguarded == {"publishing", "queued", "cancelled"}  \* mutant
Failable  == {"publishing", "queued"}
JobStatus == {"none", "scheduled", "queued", "publishing", "retry_wait",
              "cancel_requested"} \union Terminal
AttemptStatus == {"none", "running", "retryable_failed", "permanent_failed",
                  "cancelled", "succeeded"}
ReservationStatus == {"none", "reserved", "committed", "released"}
Answers == {"ok", "unsafe", "pending", "retryable", "permanent"}

(***************************************************************************)
(* BullMQ ids of a job: pub-<job>, pub-<job>-<timestamp> and                *)
(* pub-<job>-attempt-<n>, which is item n for n >= 2.                       *)
(***************************************************************************)
Base   == 0
Fresh  == 1
ItemNo == 0..(AttemptBound + 1)
Items  == Jobs \X ItemNo

IdleWorker == [pc |-> "idle", job |-> CHOOSE j \in Jobs : TRUE, item |-> Base,
               att |-> 1, polls |-> 0, answer |-> "pending"]
Pc == {"idle", "claimed", "ready", "answered", "poll", "polled",
       "settle", "retry", "fail", "cancel", "cancelled"}
WorkerState ==
  [pc : Pc, job : Jobs, item : ItemNo, att : AttemptNo, polls : 0..MaxPolls,
   answer : Answers]
Row == [job : Jobs, status : {"publishing", "cancel_requested"},
        attempt : 0..AttemptBound]

TypeOK ==
  /\ status \in [Jobs -> JobStatus]
  /\ attempt \in [Jobs -> 0..AttemptBound]
  /\ attempts \in [Jobs -> [AttemptNo -> AttemptStatus]]
  /\ reservation \in [Jobs -> ReservationStatus]
  /\ usage \in [Jobs -> 0..AttemptBound]
  /\ live \in [Jobs -> SUBSET AttemptNo]
  /\ waiting \subseteq Items
  /\ kept \subseteq Items
  /\ worker \in [Workers -> WorkerState]
  /\ canceller \in [Jobs -> {"idle", "saw_active", "saw_waiting", "releasing"}]
  /\ stale \subseteq Row
  /\ faults \in 0..MaxFaults

Init ==
  /\ status = [j \in Jobs |-> "none"]
  /\ attempt = [j \in Jobs |-> 0]
  /\ attempts = [j \in Jobs |-> [n \in AttemptNo |-> "none"]]
  /\ reservation = [j \in Jobs |-> "none"]
  /\ usage = [j \in Jobs |-> 0]
  /\ live = [j \in Jobs |-> {}]
  /\ waiting = {}
  /\ kept = {}
  /\ worker = [w \in Workers |-> IdleWorker]
  /\ canceller = [j \in Jobs |-> "idle"]
  /\ stale = {}
  /\ faults = 0

-----------------------------------------------------------------------------
(* Helpers.                                                                *)

(* Something breaks: at most MaxFaults times in a behaviour. *)
Fault == faults < MaxFaults /\ faults' = faults + 1

(* Queue.add with a job id: BullMQ ignores an id it still holds. A failing
   add is swallowed by every caller. *)
Added(j, i) ==
  IF <<j, i>> \in waiting \union kept THEN waiting ELSE waiting \union {<<j, i>>}
Enqueue(j, i) ==
  \/ waiting' = Added(j, i) /\ UNCHANGED faults
  \/ <<j, i>> \notin waiting \union kept /\ waiting' = waiting /\ Fault

(* The API's own queue client only knows the id pub-<job>. *)
EnqueueApi(j) == Enqueue(j, Base)

Release_Any(j) == reservation' = [reservation EXCEPT ![j] = "released"]  \* mutant
Release_Never(j) == UNCHANGED reservation  \* mutant
Release(j) ==
  reservation' = [reservation EXCEPT ![j] = IF @ = "reserved" THEN "released" ELSE @]

(* Reservation and usage record of a success; the record is unique per job. *)
Commit(j, n) ==
  /\ reservation' = [reservation EXCEPT ![j] = IF @ = "reserved" THEN "committed" ELSE @]
  /\ usage' = [usage EXCEPT ![j] = IF @ = 0 THEN n ELSE @]

EndIfRunning_Earlier(j, ns, s) ==  \* mutant
  attempts' = [attempts EXCEPT ![j] =
                 [n \in AttemptNo |-> IF /\ n \in ns /\ n < attempt[j]
                                        /\ @[n] = "running" THEN s ELSE @[n]]]
EndIfRunning_Any(j, ns, s) ==  \* mutant
  attempts' = [attempts EXCEPT ![j] =
                 [n \in AttemptNo |-> IF n \in ns /\ @[n] # "none" THEN s ELSE @[n]]]
(* UPDATE publishing_attempts SET status WHERE ... AND status = 'running' *)
EndIfRunning(j, ns, s) ==
  attempts' = [attempts EXCEPT ![j] =
                 [n \in AttemptNo |-> IF n \in ns /\ @[n] = "running" THEN s ELSE @[n]]]

SetStatus(j, s) == status' = [status EXCEPT ![j] = s]

InProgress(s) == {j \in Jobs : status[j] = "publishing" /\ s \in ScopesOf[j]}

Admitted_OffByOne(j) ==  \* mutant
  \A s \in ScopesOf[j] : Cardinality(InProgress(s)) <= Limit[s]
(* The advisory-locked counts of the claim transaction. *)
Admitted(j) == \A s \in ScopesOf[j] : Cardinality(InProgress(s)) < Limit[s]

Reserved(p) == {j \in Jobs : ProjectOf[j] = p /\ reservation[j] = "reserved"}
Used(p)     == {j \in Jobs : ProjectOf[j] = p /\ usage[j] # 0}

QuotaLeft_ReservedOnly(p) == DailyOps = 0 \/ Cardinality(Reserved(p)) < DailyOps  \* mutant
(* remaining >= 1, under the project's quota lock *)
QuotaLeft(p) ==
  DailyOps = 0 \/ Cardinality(Reserved(p)) + Cardinality(Used(p)) < DailyOps

-----------------------------------------------------------------------------
(* API routes.                                                             *)

(* POST /publishing/jobs: job, plan and reservation in one transaction; then
   a best-effort enqueue. A repeated key replays and changes nothing. *)
Create(j) ==
  /\ status[j] = "none"
  /\ QuotaLeft(ProjectOf[j])
  /\ reservation' = [reservation EXCEPT ![j] = "reserved"]
  /\ \/ SetStatus(j, "queued") /\ EnqueueApi(j)
     \/ SetStatus(j, "scheduled") /\ UNCHANGED <<waiting, faults>>
  /\ UNCHANGED <<attempt, attempts, usage, live, kept, worker, canceller, stale>>

(* POST .../cancel: the status is read without a lock ... *)
CancelRead(j) ==
  /\ canceller[j] = "idle"
  /\ \/ /\ status[j] = "publishing"
        /\ canceller' = [canceller EXCEPT ![j] = "saw_active"]
     \/ /\ status[j] \in {"scheduled", "queued", "retry_wait"}
        /\ canceller' = [canceller EXCEPT ![j] = "saw_waiting"]
  /\ UNCHANGED <<dbVars, live, mqVars, worker, stale, faults>>

(* ... then written by id alone ... *)
CancelActive(j) ==
  /\ canceller[j] = "saw_active"
  /\ SetStatus(j, "cancel_requested")
  /\ canceller' = [canceller EXCEPT ![j] = "idle"]
  /\ UNCHANGED <<attempt, attempts, reservation, usage, live, mqVars, worker, stale, faults>>

CancelWaiting(j) ==
  /\ canceller[j] = "saw_waiting"
  /\ SetStatus(j, "cancelled")
  /\ canceller' = [canceller EXCEPT ![j] = "releasing"]
  /\ UNCHANGED <<attempt, attempts, reservation, usage, live, mqVars, worker, stale, faults>>

(* ... and the reservation in a statement of its own. *)
CancelRelease(j) ==
  /\ canceller[j] = "releasing"
  /\ Release(j)
  /\ canceller' = [canceller EXCEPT ![j] = "idle"]
  /\ UNCHANGED <<status, attempt, attempts, usage, live, mqVars, worker, stale, faults>>

(* The API process dies, or a statement fails, inside the cancel route. *)
CancelAborted(j) ==
  /\ canceller[j] # "idle"
  /\ Fault
  /\ canceller' = [canceller EXCEPT ![j] = "idle"]
  /\ UNCHANGED <<dbVars, live, mqVars, worker, stale>>

(* POST .../retry: one transaction under the row lock, then an enqueue under
   the id pub-<job>. *)
Retry(j) ==
  /\ status[j] = "failed"
  /\ attempt[j] < MaxAttempts
  /\ QuotaLeft(ProjectOf[j])
  /\ reservation' = [reservation EXCEPT ![j] = "reserved"]
  /\ SetStatus(j, "queued")
  /\ EnqueueApi(j)
  /\ UNCHANGED <<attempt, attempts, usage, live, kept, worker, canceller, stale>>

-----------------------------------------------------------------------------
(* Worker: processPublishingJob.                                           *)

(* BullMQ hands an item to an idle slot. *)
Take(w, j, i) ==
  /\ worker[w].pc = "idle"
  /\ <<j, i>> \in waiting
  /\ kept' = IF i = Fresh THEN kept ELSE kept \union {<<j, i>>}

(* Not claimable any more: the delivery is a no-op. *)
Skip(w, j, i) ==
  /\ Take(w, j, i)
  /\ status[j] \notin Claimable
  /\ waiting' = waiting \ {<<j, i>>}
  /\ UNCHANGED <<dbVars, live, worker, canceller, stale, faults>>

(* A limit is reached: roll back and re-enqueue under a fresh id. *)
Refuse(w, j, i) ==
  /\ Take(w, j, i)
  /\ status[j] \in Claimable
  /\ ~Admitted(j)
  /\ \/ waiting' = (waiting \ {<<j, i>>}) \union {<<j, Fresh>>} /\ UNCHANGED faults
     \/ waiting' = waiting \ {<<j, i>>} /\ Fault
  /\ UNCHANGED <<dbVars, live, worker, canceller, stale>>

(* The claim transaction. *)
Claim(w, j, i) ==
  /\ Take(w, j, i)
  /\ status[j] \in Claimable
  /\ Admitted(j)
  /\ attempt[j] < AttemptBound
  /\ waiting' = waiting \ {<<j, i>>}
  /\ SetStatus(j, "publishing")
  /\ attempt' = [attempt EXCEPT ![j] = @ + 1]
  /\ attempts' = [attempts EXCEPT ![j][attempt[j] + 1] = "running"]
  /\ worker' = [worker EXCEPT ![w] =
       [pc |-> "claimed", job |-> j, item |-> i, att |-> attempt[j] + 1,
        polls |-> 0, answer |-> "pending"]]
  /\ UNCHANGED <<reservation, usage, live, canceller, stale, faults>>

(* The local steps of a worker. *)
Move(w, pc, polls, answer) ==
  worker' = [worker EXCEPT ![w] =
    [pc |-> pc, job |-> worker[w].job, item |-> worker[w].item,
     att |-> worker[w].att, polls |-> polls, answer |-> answer]]
Goto(w, pc) == Move(w, pc, worker[w].polls, worker[w].answer)
Done(w)     == worker' = [worker EXCEPT ![w] = IdleWorker]

(* Plan, reservation, source asset, adapter key and credential checks. Only
   the reservation is state of this model; any other check may fail. *)
Prepare(w) ==
  /\ worker[w].pc = "claimed"
  /\ \/ reservation[worker[w].job] = "reserved" /\ Goto(w, "ready")
     \/ Goto(w, "fail")
  /\ UNCHANGED <<dbVars, live, mqVars, canceller, stale, faults>>

CancelSeen(w) == status[worker[w].job] = "cancel_requested"

(* The pre-execution check, then adapter.publish. *)
Publish(w) ==
  /\ worker[w].pc = "ready"
  /\ \/ CancelSeen(w) /\ Goto(w, "cancel") /\ UNCHANGED live
     \/ /\ ~CancelSeen(w)
        /\ \E a \in Answers :
             /\ Move(w, "answered", 0, a)
             /\ live' = IF a \in {"ok", "unsafe", "pending"}
                        THEN [live EXCEPT ![worker[w].job] = @ \union {worker[w].att}]
                        ELSE live
     \/ ~CancelSeen(w) /\ Goto(w, "fail") /\ UNCHANGED live    \* publish threw
  /\ UNCHANGED <<dbVars, mqVars, canceller, stale, faults>>

AfterAnswer_AnyAnswer(w) ==  \* mutant
  CASE worker[w].answer \in {"ok", "retryable"} -> "settle"
    [] worker[w].answer \in {"unsafe", "permanent"} -> "fail"
    [] OTHER -> "poll"
(* What the worker does next, once it has looked for a cancellation. *)
AfterAnswer(w) ==
  CASE worker[w].answer = "ok" -> "settle"
    [] worker[w].answer \in {"unsafe", "permanent"} -> "fail"
    [] worker[w].answer = "retryable" -> "retry"
    [] OTHER -> "poll"

(* The check after publish and after each poll, and the classification. *)
Classify(w) ==
  /\ worker[w].pc \in {"answered", "polled"}
  /\ Move(w, IF CancelSeen(w) THEN "cancel" ELSE AfterAnswer(w), worker[w].polls, "pending")
  /\ UNCHANGED <<dbVars, live, mqVars, canceller, stale, faults>>

(* adapter.pollStatus: a failed answer means that the platform dropped it. *)
PollAnswer(w) == \E a \in Answers :
  /\ Move(w, "polled", worker[w].polls + 1, a)
  /\ live' = IF a \in {"retryable", "permanent"}
             THEN [live EXCEPT ![worker[w].job] = @ \ {worker[w].att}]
             ELSE live
Poll_OneMore(w) ==  \* mutant
  /\ worker[w].pc = "poll"
  /\ \/ worker[w].polls > MaxPolls /\ Goto(w, "retry") /\ UNCHANGED live
     \/ worker[w].polls <= MaxPolls /\ CancelSeen(w) /\ Goto(w, "cancel") /\ UNCHANGED live
     \/ /\ worker[w].polls <= MaxPolls
        /\ ~CancelSeen(w)
        /\ PollAnswer(w)
  /\ UNCHANGED <<dbVars, mqVars, canceller, stale, faults>>
(* The head of the polling loop: time out, cancel, or poll once more. *)
Poll(w) ==
  /\ worker[w].pc = "poll"
  /\ \/ worker[w].polls >= MaxPolls /\ Goto(w, "retry") /\ UNCHANGED live
     \/ worker[w].polls < MaxPolls /\ CancelSeen(w) /\ Goto(w, "cancel") /\ UNCHANGED live
     \/ /\ worker[w].polls < MaxPolls
        /\ ~CancelSeen(w)
        /\ PollAnswer(w)
  /\ UNCHANGED <<dbVars, mqVars, canceller, stale, faults>>

(* settleSuccess *)
SettleSuccess(w) ==
  LET j == worker[w].job  n == worker[w].att IN
  /\ worker[w].pc = "settle"
  /\ \/ /\ status[j] = "publishing" /\ attempts[j][n] = "running"
        /\ attempts' = [attempts EXCEPT ![j][n] = "succeeded"]
        /\ SetStatus(j, "succeeded")
        /\ Commit(j, n)
     \/ /\ ~(status[j] = "publishing" /\ attempts[j][n] = "running")
        /\ UNCHANGED <<attempts, status, reservation, usage>>
  /\ Done(w)
  /\ UNCHANGED <<attempt, live, mqVars, canceller, stale, faults>>

(* settleRetryableFailure: it trusts the worker's own attempt number and does
   not look at the status of its attempt. *)
SettleRetryable(w) ==
  LET j == worker[w].job  n == worker[w].att IN
  /\ worker[w].pc = "retry"
  /\ \/ /\ status[j] = "publishing"
        /\ n >= MaxAttempts
        /\ attempts' = [attempts EXCEPT ![j][n] = "permanent_failed"]
        /\ SetStatus(j, "failed")
        /\ Release(j)
        /\ UNCHANGED <<waiting, faults>>
     \/ /\ status[j] = "publishing"
        /\ n < MaxAttempts
        /\ attempts' = [attempts EXCEPT ![j][n] = "retryable_failed"]
        /\ SetStatus(j, "retry_wait")
        /\ Enqueue(j, n + 1)
        /\ UNCHANGED reservation
     \/ /\ status[j] # "publishing"
        /\ UNCHANGED <<attempts, status, reservation, waiting, faults>>
  /\ Done(w)
  /\ UNCHANGED <<attempt, usage, live, kept, canceller, stale>>

(* settleFailure: also from "queued", whatever the worker's attempt is. *)
SettleFailure(w) ==
  LET j == worker[w].job  n == worker[w].att IN
  /\ worker[w].pc = "fail"
  /\ \/ /\ status[j] \in Failable
        /\ EndIfRunning(j, {n}, "permanent_failed")
        /\ SetStatus(j, "failed")
        /\ Release(j)
     \/ /\ status[j] \notin Failable
        /\ UNCHANGED <<attempts, status, reservation>>
  /\ Done(w)
  /\ UNCHANGED <<attempt, usage, live, mqVars, canceller, stale, faults>>

(* handleActiveCancellation, first half: adapter.cancel. A refusal or an
   exception leaves the job in cancel_requested. *)
AdapterCancel(w) ==
  /\ worker[w].pc = "cancel"
  /\ \/ /\ Goto(w, "cancelled")
        /\ live' = [live EXCEPT ![worker[w].job] = @ \ {worker[w].att}]
     \/ Done(w) /\ UNCHANGED live
  /\ UNCHANGED <<dbVars, mqVars, canceller, stale, faults>>

(* handleActiveCancellation, second half: the settlement, by id alone. *)
SettleCancelled(w) ==
  LET j == worker[w].job IN
  /\ worker[w].pc = "cancelled"
  /\ EndIfRunning(j, {worker[w].att}, "cancelled")
  /\ SetStatus(j, "cancelled")
  /\ Release(j)
  /\ Done(w)
  /\ UNCHANGED <<attempt, usage, live, mqVars, canceller, stale, faults>>

(* The catch-all of processPublishingJob: a query or pollStatus throws. Some
   running attempt of the job, not always the worker's, is then failed. *)
Unhandled(w) ==
  LET j == worker[w].job IN
  /\ worker[w].pc \in {"claimed", "ready", "answered", "poll", "polled"}
  /\ Fault
  /\ \/ /\ status[j] = "publishing"
        /\ \E n \in AttemptNo :
             /\ attempts[j][n] = "running"
             /\ worker' = [worker EXCEPT ![w] =
                  [pc |-> "fail", job |-> j, item |-> worker[w].item, att |-> n,
                   polls |-> 0, answer |-> "pending"]]
     \/ /\ \/ status[j] # "publishing"
           \/ \A n \in AttemptNo : attempts[j][n] # "running"
        /\ Done(w)
  /\ UNCHANGED <<dbVars, live, mqVars, canceller, stale>>

(* The process dies, or a settlement rolls back on an error of its own. BullMQ
   delivers a stalled item once more, or gives it up. *)
Crash(w) ==
  /\ worker[w].pc # "idle"
  /\ Fault
  /\ Done(w)
  /\ \/ waiting' = waiting \union {<<worker[w].job, worker[w].item>>}
     \/ UNCHANGED waiting
  /\ kept' = kept \ (waiting' \ waiting)
  /\ UNCHANGED <<dbVars, live, canceller, stale>>

-----------------------------------------------------------------------------
(* Scheduler: promoteScheduledJobs, reconcileMissingEnqueues, recoverStaleJobs *)

Promote(j) ==
  /\ status[j] = "scheduled"
  /\ SetStatus(j, "queued")
  /\ Enqueue(j, Base)
  /\ UNCHANGED <<attempt, attempts, reservation, usage, live, kept, worker, canceller, stale>>

Active(j, i) == \E w \in Workers :
  worker[w].pc # "idle" /\ worker[w].job = j /\ worker[w].item = i

Missing_Forgets(j) == <<j, Base>> \notin waiting \union kept  \* mutant
(* No BullMQ job pub-<job>, or a completed or failed one. *)
Missing(j) == <<j, Base>> \notin waiting /\ ~Active(j, Base)

Reconcile(j) ==
  /\ status[j] = "queued"
  /\ Missing(j)
  /\ Enqueue(j, Fresh)
  /\ UNCHANGED <<dbVars, live, kept, worker, canceller, stale>>

(* A live worker or an open cancel request is between two steps on job j. *)
Held(j) ==
  canceller[j] # "idle" \/ \E w \in Workers : worker[w].pc # "idle" /\ worker[w].job = j

Recoverable_PublishingOnly == {"publishing"}  \* mutant
(* The statuses in which a worker may have died. *)
Recoverable == {"publishing", "cancel_requested"}

(* The SELECT of the recovery. It runs outside BEGIN, so that its FOR UPDATE
   locks are gone when the rows are handled. *)
SelectStale ==
  /\ stale = {}
  /\ \E S \in SUBSET {j \in Jobs : /\ status[j] \in Recoverable
                                   /\ MayStall \/ ~Held(j)} :
       /\ S # {}
       /\ stale' = {[job |-> j, status |-> status[j], attempt |-> attempt[j]] : j \in S}
  /\ UNCHANGED <<dbVars, live, mqVars, worker, canceller, faults>>

(* One iteration of the recovery loop: a transaction that decides from the
   selected row and writes by id alone. *)
RecoverRow(r) ==
  /\ r \in stale
  /\ stale' = stale \ {r}
  /\ EndIfRunning(r.job, AttemptNo, "retryable_failed")
  /\ \/ /\ r.status = "cancel_requested"
        /\ SetStatus(r.job, "cancelled")
        /\ Release(r.job)
        /\ UNCHANGED <<waiting, faults>>
     \/ /\ r.status = "publishing" /\ r.attempt >= MaxAttempts
        /\ SetStatus(r.job, "failed")
        /\ Release(r.job)
        /\ UNCHANGED <<waiting, faults>>
     \/ /\ r.status = "publishing" /\ r.attempt < MaxAttempts
        /\ SetStatus(r.job, "retry_wait")
        /\ Enqueue(r.job, r.attempt + 1)
        /\ UNCHANGED reservation
  /\ UNCHANGED <<attempt, usage, live, kept, worker, canceller>>

(* The tail of recoverStaleJobs: a retry_wait row untouched for 60 s. *)
RecoverRetryWait(j) ==
  /\ status[j] = "retry_wait"
  /\ Enqueue(j, Fresh)
  /\ UNCHANGED <<dbVars, live, kept, worker, canceller, stale>>

(* The scheduler's process dies between the SELECT and its rows. *)
SchedulerCrash ==
  /\ stale # {}
  /\ Fault
  /\ stale' = {}
  /\ UNCHANGED <<dbVars, live, mqVars, worker, canceller>>

-----------------------------------------------------------------------------
Deliver(w, j) == \E i \in ItemNo : Skip(w, j, i) \/ Refuse(w, j, i) \/ Claim(w, j, i)

Process(w) ==
  \/ Prepare(w) \/ Publish(w) \/ Classify(w) \/ Poll(w)
  \/ SettleSuccess(w) \/ SettleRetryable(w) \/ SettleFailure(w)
  \/ AdapterCancel(w) \/ SettleCancelled(w)

CancelRoute(j) == CancelActive(j) \/ CancelWaiting(j) \/ CancelRelease(j)

Recover == SelectStale \/ \E r \in stale : RecoverRow(r)

Next ==
  \/ \E j \in Jobs :
       \/ Create(j) \/ CancelRead(j) \/ CancelRoute(j) \/ CancelAborted(j) \/ Retry(j)
       \/ Promote(j) \/ Reconcile(j) \/ RecoverRetryWait(j)
  \/ \E w \in Workers :
       (\E j \in Jobs : Deliver(w, j)) \/ Process(w) \/ Unhandled(w) \/ Crash(w)
  \/ Recover \/ SchedulerCrash

Spec == Init /\ [][Next]_vars

(***************************************************************************)
(* Fairness. A worker's code runs on once started (the adapter answers: the *)
(* mock adapters do within seconds); an open request is carried on; the     *)
(* scheduler ticks every 10 s; BullMQ serves its list in order, so that an  *)
(* item that is there whenever a slot falls idle is delivered in the end.   *)
(* Users are not fair: nothing is created, cancelled or retried by force.   *)
(***************************************************************************)
Fairness ==
  /\ \A w \in Workers : WF_vars(Process(w))
  /\ \A j \in Jobs : /\ SF_vars(\E w \in Workers : Deliver(w, j))
                     /\ WF_vars(CancelRoute(j))
                     /\ WF_vars(Promote(j))
                     /\ WF_vars(Reconcile(j))
                     /\ WF_vars(RecoverRetryWait(j))
  /\ WF_vars(Recover)

FairSpec == Spec /\ Fairness

-----------------------------------------------------------------------------
(* At no time are more jobs of a scope in `publishing' than its limit: the
   claim's counts are taken under advisory locks held to the commit. *)
ConcurrencyLimit == \A s \in Scopes : Cardinality(InProgress(s)) <= Limit[s]

(* A job that ended in `succeeded' or `failed' holds no quota: each settlement
   and the stale recovery change the reservation with the status. *)
SettledHoldsNoQuota ==
  \A j \in Jobs : status[j] \in {"succeeded", "failed"} => reservation[j] # "reserved"

(* Billing: a usage record names an attempt that succeeded. settleSuccess writes
   both; the recovery and the catch-all may end attempts they do not own. *)
UsageIsSucceeded ==
  \A j \in Jobs : usage[j] # 0 => attempts[j][usage[j]] = "succeeded"

(* Billing: what a usage record charges for is on the platform, and no late
   cancellation or failing attempt takes it down. *)
BilledIsLive ==
  \A j \in Jobs : usage[j] # 0 => usage[j] \in live[j]

(* A committed reservation is backed by a usage record: settleSuccess commits
   the one and inserts the other, ON CONFLICT DO NOTHING, for whichever attempt
   comes first. *)
CommittedIsUsed ==
  \A j \in Jobs : reservation[j] = "committed" => usage[j] # 0

(* The three tables agree at every moment, although the worker, the recovery
   and the routes write them in statements of their own. *)
LedgerRows == SettledHoldsNoQuota /\ UsageIsSucceeded /\ CommittedIsUsed

(* ... and the reservation behind a usage record stays committed: neither the
   cancel route nor a recovery releases it, nor does the retry route reopen it. *)
UsedIsCommitted ==
  \A j \in Jobs : usage[j] # 0 => reservation[j] = "committed"

(* No more than max_attempts attempts are made, whoever re-queues the job:
   the worker, the retry route or the stale recovery. *)
AttemptBudget ==
  \A j \in Jobs : attempt[j] <= MaxAttempts

(* At most one attempt of a job runs, the current one: every claim of a job that
   was recovered comes after the recovery ended the attempt before it. *)
OneRunning ==
  \A j \in Jobs, n \in AttemptNo : attempts[j][n] = "running" => n = attempt[j]

(* Attempts are made one after the other and within the budget. *)
AttemptsInOrder == AttemptBudget /\ OneRunning

(* An attempt that ended stays as it ended, although the worker's settlements,
   the catch-all and the recovery all write attempt rows. *)
AttemptFinal ==
  [][\A j \in Jobs, n \in AttemptNo :
       attempts[j][n] \notin {"none", "running"} => attempts'[j][n] = attempts[j][n]]_vars

(* succeeded: [] in JOB_TRANSITIONS: no request or recovery takes a published
   job out of succeeded. *)
SucceededIsFinal ==
  [][\A j \in Jobs : status[j] = "succeeded" => status'[j] = "succeeded"]_vars

(* cancelled: [] in JOB_TRANSITIONS: a cancelled job is never run again, by an
   item left in the queue, a late settlement or a recovery. *)
CancelledIsFinal ==
  [][\A j \in Jobs : status[j] = "cancelled" => status'[j] = "cancelled"]_vars

(* Reservations and usage records implement the abstract ledger: the creation
   and the retry reserve, settleSuccess turns a reservation into usage, every
   other way out gives it back, and usage is never taken back. What is held and
   spent never exceeds the operations of the day. *)
Ledger == INSTANCE QuotaLedger WITH
  held <- {j \in Jobs : reservation[j] = "reserved"},
  spent <- {j \in Jobs : usage[j] # 0}
LedgerSpec == Ledger!Spec

(* A job that was accepted settles, whatever single crash, lost enqueue or
   query error happens. *)
EveryJobSettles == \A j \in Jobs : status[j] # "none" ~> status[j] \in Terminal
=============================================================================
