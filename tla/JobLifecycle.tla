---------------------------- MODULE JobLifecycle ----------------------------
(***************************************************************************)
(* The general job queue `aidilam-jobs': the API's create, cancel and retry *)
(* routes, the BullMQ item that carries a job, the worker's processor       *)
(* (claim, run the handler, settle), the timeout monitor and the recovery   *)
(* of stalled jobs.                                                         *)
(*                                                                         *)
(* A job is a row of PostgreSQL and at most one BullMQ item, whose id is    *)
(* the job's id. The two are changed by different steps, and BullMQ keeps   *)
(* an item, and its id, after it is done.                                   *)
(***************************************************************************)
EXTENDS Naturals, FiniteSets

CONSTANTS
  Jobs,
  Workers,       \* processing slots: worker processes times concurrency
  MaxAttempts,   \* jobs.max_attempts
  Tries,         \* `attempts' of the worker's queue client; the API's has 1
  AttemptBound,  \* bound of the model: no claim beyond this attempt_count
  MaxFaults,     \* bound of the model: crashes, lost enqueues, query errors
  MayStall       \* may a live process miss its lock renewals and heartbeats?

ASSUME JobAssumption ==
  /\ Jobs # {}
  /\ MaxAttempts \in Nat \ {0}
  /\ Tries \in Nat \ {0}
  /\ AttemptBound \in Nat /\ AttemptBound >= MaxAttempts
  /\ MaxFaults \in Nat
  /\ MayStall \in BOOLEAN

VARIABLES
  status,        \* jobs.status, "none" before the row exists
  attemptCount,  \* jobs.attempt_count
  item,          \* the BullMQ item of each job
  worker,        \* the processor running in each slot
  requests,      \* cancel and retry requests that have read the status
  stalled,       \* rows recoverStalledJobs has selected and not yet handled
  faults

vars == <<status, attemptCount, item, worker, requests, stalled, faults>>

Status == {"none", "queued", "claimed", "running", "succeeded", "failed", "retry_wait",
           "cancel_requested", "cancelled", "timed_out", "dead_letter"}
Cancellable == {"queued", "claimed", "running", "retry_wait"}
Retryable   == {"failed", "cancelled", "timed_out", "dead_letter"}

NoItem == [st |-> "none", made |-> 0, tries |-> 1, stalled |-> FALSE]
Item   == [st : {"none", "waiting", "active", "completed", "failed"},
           made : 0..Tries, tries : {1, Tries}, stalled : BOOLEAN]

(* att: the attempt the slot claimed; made: the item's failed deliveries when
   it was delivered; lost: BullMQ took the item away. *)
Idle   == [pc |-> "idle", job |-> CHOOSE j \in Jobs : TRUE, att |-> 1, made |-> 0,
           lost |-> FALSE]
Worker == [pc : {"idle", "claimed", "running"}, job : Jobs, att : 1..AttemptBound,
           made : 0..Tries, lost : BOOLEAN]

Request == Jobs \X {"cancel_queued", "cancel_active", "retry"}
Row     == [job : Jobs, status : {"claimed", "running"}, att : 0..AttemptBound,
            timedOut : BOOLEAN]

TypeOK ==
  /\ status \in [Jobs -> Status]
  /\ attemptCount \in [Jobs -> 0..AttemptBound]
  /\ item \in [Jobs -> Item]
  /\ worker \in [Workers -> Worker]
  /\ requests \subseteq Request
  /\ stalled \subseteq Row
  /\ faults \in 0..MaxFaults

Init ==
  /\ status = [j \in Jobs |-> "none"]
  /\ attemptCount = [j \in Jobs |-> 0]
  /\ item = [j \in Jobs |-> NoItem]
  /\ worker = [w \in Workers |-> Idle]
  /\ requests = {}
  /\ stalled = {}
  /\ faults = 0

-----------------------------------------------------------------------------
(* Something breaks: at most MaxFaults times in a behaviour. *)
Fault == faults < MaxFaults /\ faults' = faults + 1

SetStatus(j, s) == status' = [status EXCEPT ![j] = s]

(* transitionJob: UPDATE ... WHERE id AND status = from. Nobody looks at the
   result, save the recovery. *)
TransitionJob(j, from, to) ==
  status' = [status EXCEPT ![j] = IF @ = from THEN to ELSE @]

NewItem(tries) == [st |-> "waiting", made |-> 0, tries |-> tries, stalled |-> FALSE]

Added_Always(j, tries) == [item EXCEPT ![j] = NewItem(tries)]  \* mutant
(* Queue.add with the job's id is ignored while BullMQ holds that id. *)
Added(j, tries) ==
  [item EXCEPT ![j] = IF @.st = "none" THEN NewItem(tries) ELSE @]

(* An enqueue whose failure is swallowed. *)
Enqueue(j, tries) ==
  \/ item' = Added(j, tries) /\ UNCHANGED faults
  \/ item[j].st = "none" /\ UNCHANGED item /\ Fault

(* An item whose slot stopped renewing its lock: maxStalledCount is 1. *)
StalledItem(it) ==
  [st |-> IF it.stalled THEN "failed" ELSE "waiting",
   made |-> it.made, tries |-> it.tries, stalled |-> TRUE]

(* An item whose processor threw. *)
FailedItem(it) ==
  [st |-> IF it.made + 1 < it.tries THEN "waiting" ELSE "failed",
   made |-> it.made + 1, tries |-> it.tries, stalled |-> it.stalled]

CompletedItem(it) ==
  [st |-> "completed", made |-> it.made, tries |-> it.tries, stalled |-> it.stalled]

-----------------------------------------------------------------------------
(* API.                                                                    *)

(* POST /jobs: the row in a transaction, then the item. *)
Create(j) ==
  /\ status[j] = "none"
  /\ SetStatus(j, "queued")
  /\ Enqueue(j, 1)
  /\ UNCHANGED <<attemptCount, worker, requests, stalled>>

(* POST /jobs/:id/cancel and /retry: the status is read without a lock ... *)
RequestRead(j) ==
  /\ \/ status[j] = "queued" /\ requests' = requests \union {<<j, "cancel_queued">>}
     \/ /\ status[j] \in Cancellable \ {"queued"}
        /\ requests' = requests \union {<<j, "cancel_active">>}
     \/ status[j] \in Retryable /\ requests' = requests \union {<<j, "retry">>}
  /\ UNCHANGED <<status, attemptCount, item, worker, stalled, faults>>

(* ... and written by id alone. *)
CancelWrite(j) ==
  /\ \/ /\ <<j, "cancel_queued">> \in requests
        /\ requests' = requests \ {<<j, "cancel_queued">>}
        /\ SetStatus(j, "cancelled")
     \/ /\ <<j, "cancel_active">> \in requests
        /\ requests' = requests \ {<<j, "cancel_active">>}
        /\ SetStatus(j, "cancel_requested")
  /\ UNCHANGED <<attemptCount, item, worker, stalled, faults>>

RetryWrite(j) ==
  /\ <<j, "retry">> \in requests
  /\ requests' = requests \ {<<j, "retry">>}
  /\ SetStatus(j, "queued")
  /\ Enqueue(j, 1)
  /\ UNCHANGED <<attemptCount, worker, stalled>>

-----------------------------------------------------------------------------
(* Worker.                                                                 *)

(* BullMQ hands the item of job j to an idle slot. *)
Take(w, j) == worker[w].pc = "idle" /\ item[j].st = "waiting"

(* claimJob finds another status, or throws: the processor returns and BullMQ
   counts the item as completed. *)
Skip(w, j) ==
  /\ Take(w, j)
  /\ \/ status[j] \notin {"queued", "retry_wait"} /\ UNCHANGED faults
     \/ status[j] \in {"queued", "retry_wait"} /\ Fault
  /\ item' = [item EXCEPT ![j] = CompletedItem(@)]
  /\ UNCHANGED <<status, attemptCount, worker, requests, stalled>>

Claim_NotCounted(w, j) ==  \* mutant
  /\ Take(w, j)
  /\ status[j] \in {"queued", "retry_wait"}
  /\ SetStatus(j, "claimed")
  /\ item' = [item EXCEPT ![j].st = "active"]
  /\ worker' = [worker EXCEPT ![w] =
       [pc |-> "claimed", job |-> j, att |-> attemptCount[j],
        made |-> item[j].made, lost |-> FALSE]]
  /\ UNCHANGED <<attemptCount, requests, stalled, faults>>
(* claimJob *)
Claim(w, j) ==
  /\ Take(w, j)
  /\ status[j] \in {"queued", "retry_wait"}
  /\ attemptCount[j] < AttemptBound
  /\ SetStatus(j, "claimed")
  /\ attemptCount' = [attemptCount EXCEPT ![j] = @ + 1]
  /\ item' = [item EXCEPT ![j] =
       [st |-> "active", made |-> @.made, tries |-> @.tries, stalled |-> @.stalled]]
  /\ worker' = [worker EXCEPT ![w] =
       [pc |-> "claimed", job |-> j, att |-> attemptCount[j] + 1,
        made |-> item[j].made, lost |-> FALSE]]
  /\ UNCHANGED <<requests, stalled, faults>>

(* The handler runs whether or not the row went to `running'. *)
Start(w) ==
  /\ worker[w].pc = "claimed"
  /\ TransitionJob(worker[w].job, "claimed", "running")
  /\ worker' = [worker EXCEPT ![w] =
       [pc |-> "running", job |-> @.job, att |-> @.att, made |-> @.made, lost |-> @.lost]]
  /\ UNCHANGED <<attemptCount, item, requests, stalled, faults>>

(* The slot is done with its item, unless BullMQ took the item away. *)
Ends(w, it) ==
  /\ worker' = [worker EXCEPT ![w] = Idle]
  /\ item' = IF worker[w].lost THEN item ELSE [item EXCEPT ![worker[w].job] = it]

(* BullMQ's count of failed deliveries, not attempt_count, decides. *)
MayRetry(w) == worker[w].made + 1 < MaxAttempts

(* The handler returns, or throws. *)
Finish(w) ==
  LET j == worker[w].job IN
  /\ worker[w].pc = "running"
  /\ \/ TransitionJob(j, "running", "succeeded") /\ Ends(w, CompletedItem(item[j]))
     \/ TransitionJob(j, "running", "failed") /\ Ends(w, CompletedItem(item[j]))
     \/ /\ MayRetry(w)
        /\ TransitionJob(j, "running", "retry_wait")
        /\ Ends(w, FailedItem(item[j]))
  /\ UNCHANGED <<attemptCount, requests, stalled, faults>>

(* A query of the processor throws: before the row is read, in the transition
   to `running' (the catch block then does not find the row in `running' and
   leaves it in `claimed'), or in a transition that reports the outcome, whose
   UPDATE may be committed or not. *)
SlotFails(w) ==
  LET j == worker[w].job IN
  /\ worker[w].pc # "idle"
  /\ Fault
  /\ \/ UNCHANGED status /\ Ends(w, FailedItem(item[j]))
     \/ /\ worker[w].pc = "claimed" /\ ~MayRetry(w)
        /\ UNCHANGED status /\ Ends(w, CompletedItem(item[j]))
     \/ /\ worker[w].pc = "running"
        /\ \E to \in {"failed"} \union (IF MayRetry(w) THEN {"succeeded", "retry_wait"} ELSE {}) :
             TransitionJob(j, "running", to)
        /\ Ends(w, FailedItem(item[j]))
  /\ UNCHANGED <<attemptCount, requests, stalled>>

Crash(w) ==
  /\ worker[w].pc # "idle"
  /\ Fault
  /\ Ends(w, StalledItem(item[worker[w].job]))
  /\ UNCHANGED <<status, attemptCount, requests, stalled>>

(* BullMQ takes the item from a live slot that did not renew its lock. *)
Stall(w) ==
  LET j == worker[w].job IN
  /\ MayStall /\ Fault
  /\ worker[w].pc # "idle" /\ ~worker[w].lost
  /\ worker' = [worker EXCEPT ![w] =
       [pc |-> @.pc, job |-> @.job, att |-> @.att, made |-> @.made, lost |-> TRUE]]
  /\ item' = [item EXCEPT ![j] = StalledItem(@)]
  /\ UNCHANGED <<status, attemptCount, requests, stalled>>

(* removeOnComplete and removeOnFail forget old items. *)
Evict(j) ==
  /\ item[j].st \in {"completed", "failed"}
  /\ item' = [item EXCEPT ![j] = NoItem]
  /\ UNCHANGED <<status, attemptCount, worker, requests, stalled, faults>>

-----------------------------------------------------------------------------
(* Monitors.                                                               *)

(* checkTimeouts. started_at is never reset: once a job has been running for
   its time, it is overdue in every later run. *)
TimeOut(j) ==
  /\ status[j] = "running"
  /\ SetStatus(j, "timed_out")
  /\ UNCHANGED <<attemptCount, item, worker, requests, stalled, faults>>

(* A slot renews the lease and the heartbeat of job j. *)
Beating(j) == \E w \in Workers : worker[w].pc # "idle" /\ worker[w].job = j

Recoverable_Running == {"running"}  \* mutant
Recoverable == {"claimed", "running"}

(* The SELECT of recoverStalledJobs, under a Redis lock. Stalled processes
   miss heartbeats, and a slow recovery outlives its lock. *)
SelectStalled ==
  /\ \/ stalled = {} /\ UNCHANGED faults
     \/ MayStall /\ Fault
  /\ \E S \in SUBSET {j \in Jobs : status[j] \in Recoverable} :
       /\ (\E j \in S : Beating(j)) => MayStall /\ faults' # faults
       /\ S # {}
       /\ stalled' = stalled \union
            {[job |-> j, status |-> status[j], att |-> attemptCount[j], timedOut |-> FALSE] :
             j \in S}
  /\ UNCHANGED <<status, attemptCount, item, worker, requests>>

Exhausted_OffByOne(r) == r.att + 1 >= MaxAttempts  \* mutant
Exhausted(r) == r.att >= MaxAttempts

(* claimed -> queued, and the item again. *)
Requeue(r) ==
  /\ r \in stalled
  /\ r.status = "claimed" /\ ~Exhausted(r)
  /\ stalled' = stalled \ {r}
  /\ \/ status[r.job] = "claimed" /\ SetStatus(r.job, "queued") /\ Enqueue(r.job, Tries)
     \/ status[r.job] # "claimed" /\ UNCHANGED <<status, item, faults>>
  /\ UNCHANGED <<attemptCount, worker, requests>>

(* The first of two transitions: to timed_out, if the row is as it was. *)
MarkTimedOut(r) ==
  /\ r \in stalled /\ ~r.timedOut
  /\ r.status = "running" \/ Exhausted(r)
  /\ \/ /\ status[r.job] = r.status
        /\ SetStatus(r.job, "timed_out")
        /\ stalled' = (stalled \ {r}) \union
             {[job |-> r.job, status |-> r.status, att |-> r.att, timedOut |-> TRUE]}
     \/ status[r.job] # r.status /\ stalled' = stalled \ {r} /\ UNCHANGED status
  /\ UNCHANGED <<attemptCount, item, worker, requests, faults>>

(* The second: to retry_wait and the item again, or to dead_letter. *)
LeaveTimedOut(r) ==
  /\ r \in stalled /\ r.timedOut
  /\ stalled' = stalled \ {r}
  /\ \/ /\ Exhausted(r)
        /\ TransitionJob(r.job, "timed_out", "dead_letter")
        /\ UNCHANGED <<item, faults>>
     \/ /\ ~Exhausted(r)
        /\ TransitionJob(r.job, "timed_out", "retry_wait")
        /\ Enqueue(r.job, Tries)
  /\ UNCHANGED <<attemptCount, worker, requests>>

(* The recovering process dies, or a transition throws. *)
RecoveryFails ==
  /\ \E r \in stalled : stalled' = stalled \ {r}
  /\ Fault
  /\ UNCHANGED <<status, attemptCount, item, worker, requests>>

-----------------------------------------------------------------------------
Deliver(w, j) == Skip(w, j) \/ Claim(w, j)
Process(w)    == Start(w) \/ Finish(w)
Handle(r)     == Requeue(r) \/ MarkTimedOut(r) \/ LeaveTimedOut(r)
Recover       == SelectStalled \/ \E r \in stalled : Handle(r)
Answer(j)     == CancelWrite(j) \/ RetryWrite(j)

Next ==
  \/ \E j \in Jobs : Create(j) \/ RequestRead(j) \/ Answer(j) \/ Evict(j) \/ TimeOut(j)
  \/ \E w \in Workers :
       \/ \E j \in Jobs : Deliver(w, j)
       \/ Process(w) \/ SlotFails(w) \/ Crash(w) \/ Stall(w)
  \/ Recover \/ RecoveryFails

Spec == Init /\ [][Next]_vars

(* Handlers return (they have timeouts of their own), requests are answered,
   the recovery ticks every 30 s and BullMQ delivers waiting items in order.
   Users, eviction, the timeout monitor and faults are not forced. *)
Fairness ==
  /\ \A w \in Workers : WF_vars(Process(w))
  /\ \A j \in Jobs : SF_vars(\E w \in Workers : Deliver(w, j)) /\ WF_vars(Answer(j))
  /\ WF_vars(Recover /\ UNCHANGED faults)

FairSpec == Spec /\ Fairness

-----------------------------------------------------------------------------
(* A job is not executed by two slots at a time, unless BullMQ took the item
   from one of them, which goes on: the handlers share the job's files and
   rows. It rests on the job's id being the id of its item. *)
NoDoubleRun ==
  \A v, w \in Workers :
    v # w /\ worker[v].pc # "idle" /\ worker[w].pc # "idle" /\ worker[v].job = worker[w].job
      => worker[v].lost \/ worker[w].lost

(* Only the latest claim reports a success, or a slot that lost its item,
   although neither the row nor the transition names the slot (every slot has
   the same worker_id). *)
ResultOfLastClaim ==
  [][\A j \in Jobs : status[j] # "succeeded" /\ status'[j] = "succeeded" =>
       \E w \in Workers : /\ worker[w].pc = "running" /\ worker[w].job = j
                          /\ worker[w].att = attemptCount[j] \/ worker[w].lost
                          /\ worker'[w].pc = "idle"]_vars

(* The recovery gives a job up only after max_attempts claims, even when it
   decides from a row that is out of date. *)
DeadLetterIsExhausted ==
  \A j \in Jobs : status[j] = "dead_letter" => attemptCount[j] >= MaxAttempts

(* No job stays claimed or running for ever, whichever process dies. *)
NoStuckRun ==
  \A j \in Jobs : status[j] \in {"claimed", "running"} ~> status[j] \notin {"claimed", "running"}
=============================================================================
