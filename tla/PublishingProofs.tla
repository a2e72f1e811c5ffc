-------------------------- MODULE PublishingProofs --------------------------
(***************************************************************************)
(* Theorems of PublishingJobs, for every number of jobs, workers, scopes,   *)
(* projects, limits, attempts, polls and faults, and for stalling workers   *)
(* as well as timely ones.                                                  *)
(***************************************************************************)
EXTENDS PublishingJobs, FiniteSetTheorems, TLAPS

(* The local steps of a worker keep its state well typed. *)
LEMMA DoneType ==
  ASSUME TypeOK, NEW w \in Workers, Done(w)
  PROVE  worker' \in [Workers -> WorkerState]
<1>1. IdleWorker \in WorkerState
  BY ConstantsAssumption DEF IdleWorker, WorkerState, Pc, ItemNo, Base, Answers, AttemptNo
<1> QED
  BY <1>1 DEF TypeOK, Done

LEMMA MoveType ==
  ASSUME TypeOK, NEW w \in Workers, NEW pc \in Pc, NEW polls \in 0..MaxPolls,
         NEW answer \in Answers, Move(w, pc, polls, answer)
  PROVE  worker' \in [Workers -> WorkerState]
BY DEF TypeOK, Move, WorkerState

(* An enqueue adds at most the item asked for. *)
LEMMA EnqueueType ==
  ASSUME TypeOK, NEW j \in Jobs, NEW i \in ItemNo, Enqueue(j, i)
  PROVE  waiting' \subseteq Items /\ faults' \in 0..MaxFaults
BY ConstantsAssumption DEF TypeOK, Enqueue, Added, Fault, Items

(* A status written to an attempt, or to the running ones among some. *)
LEMMA AttemptType ==
  ASSUME TypeOK, NEW j \in Jobs, NEW s \in AttemptStatus
  PROVE  /\ \A n \in AttemptNo :
              [attempts EXCEPT ![j][n] = s] \in [Jobs -> [AttemptNo -> AttemptStatus]]
         /\ \A ns : EndIfRunning(j, ns, s) =>
              attempts' \in [Jobs -> [AttemptNo -> AttemptStatus]]
BY DEF TypeOK, EndIfRunning

(* The API routes. *)
LEMMA ApiType ==
  ASSUME TypeOK, NEW j \in Jobs,
         \/ Create(j) \/ CancelRead(j) \/ CancelRoute(j) \/ CancelAborted(j) \/ Retry(j)
  PROVE  TypeOK'
<1> USE DEF TypeOK, dbVars, mqVars, SetStatus, JobStatus, Terminal, ReservationStatus
<1>1. CASE Create(j)
  BY <1>1, EnqueueType, ConstantsAssumption DEF Create, EnqueueApi, ItemNo, Base
<1>2. CASE CancelRead(j)
  BY <1>2 DEF CancelRead
<1>3. CASE CancelActive(j)
  BY <1>3 DEF CancelActive
<1>4. CASE CancelWaiting(j)
  BY <1>4 DEF CancelWaiting
<1>5. CASE CancelRelease(j)
  BY <1>5 DEF CancelRelease, Release
<1>6. CASE CancelAborted(j)
  BY <1>6, ConstantsAssumption DEF CancelAborted, Fault
<1>7. CASE Retry(j)
  BY <1>7, EnqueueType, ConstantsAssumption DEF Retry, EnqueueApi, ItemNo, Base
<1> QED
  BY <1>1, <1>2, <1>3, <1>4, <1>5, <1>6, <1>7 DEF CancelRoute

(* A delivery. *)
LEMMA DeliverType ==
  ASSUME TypeOK, NEW w \in Workers, NEW j \in Jobs, Deliver(w, j)
  PROVE  TypeOK'
<1> USE DEF TypeOK, dbVars, mqVars, Items
<1>1. PICK i \in ItemNo : Skip(w, j, i) \/ Refuse(w, j, i) \/ Claim(w, j, i)
  BY DEF Deliver
<1>2. kept' \subseteq Items
  BY <1>1 DEF Skip, Refuse, Claim, Take
<1>3. CASE Skip(w, j, i)
  BY <1>2, <1>3 DEF Skip
<1>4. CASE Refuse(w, j, i)
  BY <1>2, <1>4, ConstantsAssumption DEF Refuse, Fault, ItemNo, Fresh
<1>5. CASE Claim(w, j, i)
  <2>1. attempt[j] + 1 \in AttemptNo /\ attempt[j] + 1 \in 0..AttemptBound
    BY <1>5, ConstantsAssumption DEF Claim, AttemptNo
  <2>2. worker' \in [Workers -> WorkerState]
    BY <1>5, <2>1, ConstantsAssumption DEF Claim, WorkerState, Pc, Answers
  <2>3. attempts' \in [Jobs -> [AttemptNo -> AttemptStatus]]
    BY <1>5, <2>1 DEF Claim, AttemptStatus
  <2> QED
    BY <1>2, <1>5, <2>1, <2>2, <2>3 DEF Claim, SetStatus, JobStatus
<1> QED
  BY <1>1, <1>3, <1>4, <1>5

(* A claimed delivery. *)
LEMMA ProcessType ==
  ASSUME TypeOK, NEW w \in Workers, Process(w)
  PROVE  TypeOK'
<1> USE DEF TypeOK, dbVars, mqVars, SetStatus, JobStatus, Terminal
<1> DEFINE j == worker[w].job
           n == worker[w].att
<1>0. /\ j \in Jobs /\ n \in AttemptNo /\ n \in 0..AttemptBound
      /\ worker[w].polls \in 0..MaxPolls /\ worker[w].answer \in Answers
  BY ConstantsAssumption DEF WorkerState, AttemptNo
<1>1. CASE Prepare(w)
  <2>1. worker' \in [Workers -> WorkerState]
    BY <1>0, <1>1, MoveType DEF Prepare, Goto, Pc
  <2> QED BY <1>1, <2>1 DEF Prepare
<1>2. CASE Publish(w)
  <2>1. worker' \in [Workers -> WorkerState]
    BY <1>0, <1>2, MoveType, ConstantsAssumption DEF Publish, Goto, Pc
  <2>2. live' \in [Jobs -> SUBSET AttemptNo]
    <3>1. live[j] \union {n} \in SUBSET AttemptNo
      BY <1>0
    <3> QED BY <1>0, <1>2, <3>1 DEF Publish
  <2> QED BY <1>2, <2>1, <2>2 DEF Publish
<1>3. CASE Classify(w)
  <2>1. AfterAnswer(w) \in Pc
    BY <1>0 DEF AfterAnswer, Pc, Answers
  <2>2. worker' \in [Workers -> WorkerState]
    BY <1>0, <1>3, <2>1, MoveType DEF Classify, Pc, Answers
  <2> QED BY <1>3, <2>2 DEF Classify
<1>4. CASE Poll(w)
  <2>1. worker' \in [Workers -> WorkerState]
    <3>1. ASSUME worker[w].polls < MaxPolls
          PROVE  worker[w].polls + 1 \in 0..MaxPolls
      BY <1>0, <3>1, ConstantsAssumption
    <3> QED BY <1>0, <1>4, <3>1, MoveType DEF Poll, PollAnswer, Goto, Pc
  <2>2. live' \in [Jobs -> SUBSET AttemptNo]
    BY <1>0, <1>4 DEF Poll, PollAnswer
  <2> QED BY <1>4, <2>1, <2>2 DEF Poll
<1>5. CASE SettleSuccess(w)
  <2>1. worker' \in [Workers -> WorkerState]
    BY <1>5, DoneType DEF SettleSuccess
  <2>2. attempts' \in [Jobs -> [AttemptNo -> AttemptStatus]]
    <3>1. CASE attempts' = [attempts EXCEPT ![j][n] = "succeeded"]
      BY <1>0, <3>1 DEF AttemptStatus
    <3>2. CASE UNCHANGED attempts
      BY <3>2
    <3> QED BY <1>5, <3>1, <3>2 DEF SettleSuccess
  <2>3. reservation' \in [Jobs -> ReservationStatus] /\ usage' \in [Jobs -> 0..AttemptBound]
    <3>1. CASE Commit(j, n)
      BY <1>0, <3>1 DEF Commit, ReservationStatus
    <3>2. CASE UNCHANGED <<reservation, usage>>
      BY <3>2
    <3> QED BY <1>5, <3>1, <3>2 DEF SettleSuccess
  <2> QED BY <1>0, <1>5, <2>1, <2>2, <2>3 DEF SettleSuccess
<1>6. CASE SettleRetryable(w)
  <2>1. worker' \in [Workers -> WorkerState]
    BY <1>6, DoneType DEF SettleRetryable
  <2>2. attempts' \in [Jobs -> [AttemptNo -> AttemptStatus]]
    <3>1. CASE attempts' = [attempts EXCEPT ![j][n] = "permanent_failed"]
      BY <1>0, <3>1 DEF AttemptStatus
    <3>2. CASE attempts' = [attempts EXCEPT ![j][n] = "retryable_failed"]
      BY <1>0, <3>2 DEF AttemptStatus
    <3>3. CASE UNCHANGED attempts
      BY <3>3
    <3> QED BY <1>6, <3>1, <3>2, <3>3 DEF SettleRetryable
  <2>3. reservation' \in [Jobs -> ReservationStatus]
    BY <1>6 DEF SettleRetryable, Release, ReservationStatus
  <2>4. waiting' \subseteq Items /\ faults' \in 0..MaxFaults
    <3>1. n + 1 \in ItemNo
      BY <1>0, ConstantsAssumption DEF ItemNo, AttemptNo
    <3> QED BY <1>0, <1>6, <3>1, EnqueueType DEF SettleRetryable
  <2> QED BY <1>0, <1>6, <2>1, <2>2, <2>3, <2>4 DEF SettleRetryable
<1>7. CASE SettleFailure(w)
  <2>1. worker' \in [Workers -> WorkerState]
    BY <1>7, DoneType DEF SettleFailure
  <2>2. attempts' \in [Jobs -> [AttemptNo -> AttemptStatus]]
    BY <1>0, <1>7, AttemptType DEF SettleFailure, AttemptStatus
  <2>3. reservation' \in [Jobs -> ReservationStatus]
    BY <1>7 DEF SettleFailure, Release, ReservationStatus
  <2> QED BY <1>0, <1>7, <2>1, <2>2, <2>3 DEF SettleFailure
<1>8. CASE AdapterCancel(w)
  <2>1. worker' \in [Workers -> WorkerState]
    BY <1>0, <1>8, DoneType, MoveType DEF AdapterCancel, Goto, Pc
  <2> QED BY <1>0, <1>8, <2>1 DEF AdapterCancel
<1>9. CASE SettleCancelled(w)
  <2>1. worker' \in [Workers -> WorkerState]
    BY <1>9, DoneType DEF SettleCancelled
  <2>2. attempts' \in [Jobs -> [AttemptNo -> AttemptStatus]]
    BY <1>0, <1>9, AttemptType DEF SettleCancelled, AttemptStatus
  <2>3. reservation' \in [Jobs -> ReservationStatus]
    BY <1>9 DEF SettleCancelled, Release, ReservationStatus
  <2> QED BY <1>0, <1>9, <2>1, <2>2, <2>3 DEF SettleCancelled
<1> QED
  BY <1>1, <1>2, <1>3, <1>4, <1>5, <1>6, <1>7, <1>8, <1>9 DEF Process

(* Errors, crashes and the scheduler. *)
LEMMA SystemType ==
  ASSUME TypeOK,
         \/ \E w \in Workers : Unhandled(w) \/ Crash(w)
         \/ \E j \in Jobs : Promote(j) \/ Reconcile(j) \/ RecoverRetryWait(j)
         \/ Recover \/ SchedulerCrash
  PROVE  TypeOK'
<1> USE DEF TypeOK, dbVars, mqVars, SetStatus, JobStatus, Terminal
<1>1. ASSUME NEW w \in Workers, Unhandled(w) PROVE TypeOK'
  <2>1. worker' \in [Workers -> WorkerState]
    <3>1. CASE Done(w)
      BY <3>1, DoneType
    <3>2. ASSUME NEW n \in AttemptNo,
                 worker' = [worker EXCEPT ![w] =
                   [pc |-> "fail", job |-> worker[w].job, item |-> worker[w].item,
                    att |-> n, polls |-> 0, answer |-> "pending"]]
          PROVE  worker' \in [Workers -> WorkerState]
      BY <3>2, ConstantsAssumption DEF WorkerState, Pc, Answers
    <3> QED BY <1>1, <3>1, <3>2 DEF Unhandled
  <2> QED BY <1>1, <2>1, ConstantsAssumption DEF Unhandled, Fault
<1>2. ASSUME NEW w \in Workers, Crash(w) PROVE TypeOK'
  <2>1. worker' \in [Workers -> WorkerState]
    BY <1>2, DoneType DEF Crash
  <2>2. <<worker[w].job, worker[w].item>> \in Items
    BY DEF WorkerState, Items
  <2>3. waiting' \subseteq Items /\ kept' \subseteq Items
    BY <1>2, <2>2 DEF Crash
  <2> QED BY <1>2, <2>1, <2>3, ConstantsAssumption DEF Crash, Fault
<1>3. ASSUME NEW j \in Jobs, Promote(j) PROVE TypeOK'
  BY <1>3, EnqueueType, ConstantsAssumption DEF Promote, ItemNo, Base
<1>4. ASSUME NEW j \in Jobs, Reconcile(j) PROVE TypeOK'
  BY <1>4, EnqueueType, ConstantsAssumption DEF Reconcile, ItemNo, Fresh
<1>5. ASSUME NEW j \in Jobs, RecoverRetryWait(j) PROVE TypeOK'
  BY <1>5, EnqueueType, ConstantsAssumption DEF RecoverRetryWait, ItemNo, Fresh
<1>6. CASE SelectStale
  BY <1>6 DEF SelectStale, Recoverable, Row
<1>7. ASSUME NEW r \in stale, RecoverRow(r) PROVE TypeOK'
  <2>1. r.job \in Jobs /\ r.attempt \in 0..AttemptBound
    BY DEF Row
  <2>2. attempts' \in [Jobs -> [AttemptNo -> AttemptStatus]]
    BY <1>7, <2>1, AttemptType DEF RecoverRow, AttemptStatus
  <2>3. reservation' \in [Jobs -> ReservationStatus]
    BY <1>7 DEF RecoverRow, Release, ReservationStatus
  <2>4. waiting' \subseteq Items /\ faults' \in 0..MaxFaults
    <3>1. r.attempt + 1 \in ItemNo
      BY <2>1, ConstantsAssumption DEF ItemNo
    <3> QED BY <1>7, <2>1, <3>1, EnqueueType DEF RecoverRow
  <2> QED BY <1>7, <2>1, <2>2, <2>3, <2>4 DEF RecoverRow
<1>8. CASE SchedulerCrash
  BY <1>8, ConstantsAssumption DEF SchedulerCrash, Fault
<1> QED
  BY <1>1, <1>2, <1>3, <1>4, <1>5, <1>6, <1>7, <1>8 DEF Recover

-----------------------------------------------------------------------------
LEMMA TypeStep == TypeOK /\ [Next]_vars => TypeOK'
<1> SUFFICES ASSUME TypeOK, [Next]_vars PROVE TypeOK'
  OBVIOUS
<1>1. CASE Next
  BY <1>1, ApiType, DeliverType, ProcessType, SystemType DEF Next
<1>2. CASE UNCHANGED vars
  BY <1>2 DEF TypeOK, vars, dbVars, mqVars
<1> QED BY <1>1, <1>2

LEMMA TypeInit == Init => TypeOK
<1>1. IdleWorker \in WorkerState
  BY ConstantsAssumption DEF IdleWorker, WorkerState, Pc, ItemNo, Base, Answers, AttemptNo
<1> QED
  BY <1>1, ConstantsAssumption
  DEF Init, TypeOK, JobStatus, AttemptStatus, ReservationStatus, Items, Row

(* Every variable keeps its type: in particular no code path writes a status
   outside the CHECK constraints of migration 017. *)
THEOREM TypeCorrect == Spec => []TypeOK
<1> QED BY TypeInit, TypeStep, PTL DEF Spec

-----------------------------------------------------------------------------
(* Only the claim transaction puts a job in `publishing'. *)
LEMMA OnlyClaimPublishes ==
  ASSUME TypeOK, [Next]_vars
  PROVE  \/ \E w \in Workers, j \in Jobs : \E i \in ItemNo : Claim(w, j, i)
         \/ \A k \in Jobs : status'[k] = "publishing" => status[k] = "publishing"
<1> USE DEF TypeOK, dbVars, mqVars, SetStatus
<1> DEFINE Keeps == \A k \in Jobs : status'[k] = "publishing" => status[k] = "publishing"
<1>1. ASSUME NEW j \in Jobs, Create(j) \/ CancelRead(j) \/ CancelAborted(j) \/ Retry(j)
      PROVE  Keeps
  BY <1>1 DEF Create, CancelRead, CancelAborted, Retry
<1>2. ASSUME NEW j \in Jobs, CancelRoute(j) PROVE Keeps
  BY <1>2 DEF CancelRoute, CancelActive, CancelWaiting, CancelRelease
<1>3. ASSUME NEW j \in Jobs, Promote(j) \/ Reconcile(j) \/ RecoverRetryWait(j) PROVE Keeps
  BY <1>3 DEF Promote, Reconcile, RecoverRetryWait
<1>4. ASSUME NEW w \in Workers, NEW j \in Jobs, NEW i \in ItemNo,
             Skip(w, j, i) \/ Refuse(w, j, i)
      PROVE  Keeps
  BY <1>4 DEF Skip, Refuse
<1>5. ASSUME NEW w \in Workers, Prepare(w) \/ Publish(w) \/ Classify(w) \/ Poll(w) \/ AdapterCancel(w)
      PROVE  Keeps
  BY <1>5 DEF Prepare, Publish, Classify, Poll, AdapterCancel
<1>6. ASSUME NEW w \in Workers,
             \/ SettleSuccess(w) \/ SettleRetryable(w) \/ SettleFailure(w) \/ SettleCancelled(w)
      PROVE  Keeps
  BY <1>6 DEF SettleSuccess, SettleRetryable, SettleFailure, SettleCancelled
<1>7. ASSUME NEW w \in Workers, Unhandled(w) \/ Crash(w) PROVE Keeps
  BY <1>7 DEF Unhandled, Crash
<1>8. ASSUME NEW r \in stale, RecoverRow(r) PROVE Keeps
  BY <1>8 DEF RecoverRow
<1>9. CASE SelectStale \/ SchedulerCrash \/ UNCHANGED vars
  BY <1>9 DEF SelectStale, SchedulerCrash, vars
<1> QED
  BY <1>1, <1>2, <1>3, <1>4, <1>5, <1>6, <1>7, <1>8, <1>9
  DEF Next, Deliver, Process, Recover

LEMMA LimitStep == TypeOK /\ ConcurrencyLimit /\ [Next]_vars => ConcurrencyLimit'
<1> SUFFICES ASSUME TypeOK, ConcurrencyLimit, [Next]_vars, NEW s \in Scopes
             PROVE  Cardinality(InProgress(s)') <= Limit[s]
  BY DEF ConcurrencyLimit
<1>1. /\ IsFiniteSet(InProgress(s)) /\ Cardinality(InProgress(s)) \in Nat
      /\ IsFiniteSet(InProgress(s)') /\ Cardinality(InProgress(s)') \in Nat
      /\ Limit[s] \in Nat
  BY FS_Subset, FS_CardinalityType, ConstantsAssumption DEF InProgress
<1>2. ASSUME InProgress(s)' \subseteq InProgress(s)
      PROVE  Cardinality(InProgress(s)') <= Limit[s]
  <2>1. Cardinality(InProgress(s)') <= Cardinality(InProgress(s))
    BY <1>1, <1>2, FS_Subset
  <2> QED BY <1>1, <2>1 DEF ConcurrencyLimit
<1>3. ASSUME NEW w \in Workers, NEW j \in Jobs, NEW i \in ItemNo, Claim(w, j, i)
      PROVE  Cardinality(InProgress(s)') <= Limit[s]
  <2>1. InProgress(s)' \subseteq InProgress(s) \union {j}
    BY <1>3 DEF Claim, SetStatus, InProgress, TypeOK
  <2>2. CASE s \notin ScopesOf[j]
    BY <1>2, <2>1, <2>2 DEF InProgress
  <2>3. CASE s \in ScopesOf[j]
    <3>1. Cardinality(InProgress(s)) < Limit[s]
      BY <1>3, <2>3 DEF Claim, Admitted
    <3>2. j \notin InProgress(s)
      BY <1>3 DEF Claim, Claimable, InProgress
    <3>3. /\ IsFiniteSet(InProgress(s) \union {j})
          /\ Cardinality(InProgress(s) \union {j}) = Cardinality(InProgress(s)) + 1
      BY <1>1, <3>2, FS_AddElement
    <3>4. Cardinality(InProgress(s)') <= Cardinality(InProgress(s) \union {j})
      BY <2>1, <3>3, FS_Subset
    <3> QED BY <1>1, <3>1, <3>3, <3>4
  <2> QED BY <2>2, <2>3
<1>4. CASE \A k \in Jobs : status'[k] = "publishing" => status[k] = "publishing"
  BY <1>2, <1>4 DEF InProgress
<1> QED BY <1>3, <1>4, OnlyClaimPublishes

(* The concurrency limits hold in every scope however the claims of any
   number of workers, the recovery and the API interleave: a limit can only
   be exceeded by a claim, and the claim counts before it writes. *)
THEOREM LimitCorrect == Spec => []ConcurrencyLimit
<1>1. Init => ConcurrencyLimit
  <2> SUFFICES ASSUME Init, NEW s \in Scopes PROVE Cardinality(InProgress(s)) <= Limit[s]
    BY DEF ConcurrencyLimit
  <2>1. InProgress(s) = {}
    BY DEF Init, InProgress
  <2> QED BY <2>1, FS_EmptySet, ConstantsAssumption
<1> QED BY <1>1, TypeCorrect, LimitStep, PTL DEF Spec
-----------------------------------------------------------------------------
(* A reservation follows its job into the final states. *)
LEMMA QuotaStep ==
  TypeOK /\ SettledHoldsNoQuota /\ CommittedIsUsed /\ [Next]_vars
    => SettledHoldsNoQuota' /\ CommittedIsUsed'
<1> SUFFICES ASSUME TypeOK, SettledHoldsNoQuota, CommittedIsUsed, [Next]_vars
             PROVE  SettledHoldsNoQuota' /\ CommittedIsUsed'
  OBVIOUS
<1> USE DEF TypeOK, SettledHoldsNoQuota, CommittedIsUsed, dbVars, mqVars, SetStatus, Release
<1> DEFINE Keeps == SettledHoldsNoQuota' /\ CommittedIsUsed'
<1>1. ASSUME NEW j \in Jobs, Create(j) \/ Retry(j)
      PROVE  Keeps
  BY <1>1 DEF Create, Retry
<1>2. ASSUME NEW j \in Jobs, CancelRead(j) \/ CancelAborted(j) \/ CancelRoute(j)
      PROVE  Keeps
  BY <1>2 DEF CancelRead, CancelAborted, CancelRoute, CancelActive, CancelWaiting, CancelRelease
<1>3. ASSUME NEW j \in Jobs, Promote(j) \/ Reconcile(j) \/ RecoverRetryWait(j) PROVE Keeps
  BY <1>3 DEF Promote, Reconcile, RecoverRetryWait
<1>4. ASSUME NEW w \in Workers, NEW j \in Jobs, NEW i \in ItemNo,
             Skip(w, j, i) \/ Refuse(w, j, i) \/ Claim(w, j, i)
      PROVE  Keeps
  BY <1>4 DEF Skip, Refuse, Claim
<1>5. ASSUME NEW w \in Workers,
             \/ Prepare(w) \/ Publish(w) \/ Classify(w) \/ Poll(w) \/ AdapterCancel(w)
             \/ Unhandled(w) \/ Crash(w)
      PROVE  Keeps
  BY <1>5 DEF Prepare, Publish, Classify, Poll, AdapterCancel, Unhandled, Crash
<1>6. ASSUME NEW w \in Workers, SettleSuccess(w) PROVE Keeps
  <2>1. worker[w].job \in Jobs /\ worker[w].att \in AttemptNo /\ worker[w].att # 0
    BY ConstantsAssumption DEF WorkerState, AttemptNo
  <2> QED BY <1>6, <2>1 DEF SettleSuccess, Commit
<1>7. ASSUME NEW w \in Workers, SettleRetryable(w) \/ SettleFailure(w) \/ SettleCancelled(w)
      PROVE  Keeps
  BY <1>7 DEF SettleRetryable, SettleFailure, SettleCancelled
<1>8. ASSUME NEW r \in stale, RecoverRow(r) PROVE Keeps
  BY <1>8 DEF RecoverRow
<1>9. CASE SelectStale \/ SchedulerCrash \/ UNCHANGED vars
  BY <1>9 DEF SelectStale, SchedulerCrash, vars
<1> QED
  BY <1>1, <1>2, <1>3, <1>4, <1>5, <1>6, <1>7, <1>8, <1>9
  DEF Next, Deliver, Process, Recover

LEMMA QuotaInit == Init => SettledHoldsNoQuota /\ CommittedIsUsed
BY DEF Init, SettledHoldsNoQuota, CommittedIsUsed

(* However late a recovered worker settles, and whatever crashes, a job that
   failed or succeeded holds no quota: every transaction that writes one of
   the two statuses also settles the reservation. *)
THEOREM SettledCorrect == Spec => []SettledHoldsNoQuota
<1> QED BY TypeCorrect, QuotaInit, QuotaStep, PTL DEF Spec

(* A reservation is only committed together with the usage record. *)
THEOREM CommittedCorrect == Spec => []CommittedIsUsed
<1> QED BY TypeCorrect, QuotaInit, QuotaStep, PTL DEF Spec

-----------------------------------------------------------------------------
(* Why a usage record names an attempt that succeeded, although the recovery
   and settleRetryableFailure write the status of attempts they do not own:
   an attempt number is handed out once, to one worker, and a worker forgets
   the number when it settles the attempt as succeeded. Only a worker that is
   about to fail may hold a number that is not its own (Unhandled picks some
   running attempt), and settleFailure touches running attempts only. *)
Owner(w) == worker[w].pc \notin {"idle", "fail"}

NumbersHandedOut ==
  \A j \in Jobs, n \in AttemptNo : n > attempt[j] => attempts[j][n] = "none"

OwnAttempt ==
  \A w \in Workers : Owner(w) => worker[w].att <= attempt[worker[w].job]

OneOwner ==
  \A v, w \in Workers :
    /\ v # w /\ Owner(v) /\ Owner(w)
    /\ worker[v].job = worker[w].job
    => worker[v].att # worker[w].att

SucceededUnowned ==
  \A w \in Workers :
    Owner(w) => attempts[worker[w].job][worker[w].att] # "succeeded"

UsageInv ==
  /\ UsageIsSucceeded
  /\ NumbersHandedOut
  /\ OwnAttempt
  /\ OneOwner
  /\ SucceededUnowned
(* No worker comes to own an attempt that it did not own before. *)
NoNewOwner ==
  \A w \in Workers :
    Owner(w)' => /\ Owner(w)
                 /\ worker'[w].job = worker[w].job
                 /\ worker'[w].att = worker[w].att

(* A worker that goes on with its attempt, or ends. *)
LEMMA MoveOwner ==
  ASSUME TypeOK, NEW w \in Workers, Owner(w),
         NEW pc, NEW polls, NEW answer, Move(w, pc, polls, answer)
  PROVE  NoNewOwner
<1> SUFFICES ASSUME NEW v \in Workers, Owner(v)'
             PROVE  /\ Owner(v)
                    /\ worker'[v].job = worker[v].job
                    /\ worker'[v].att = worker[v].att
  BY DEF NoNewOwner
<1>1. CASE v = w
  BY <1>1 DEF TypeOK, Move
<1>2. CASE v # w
  BY <1>2 DEF TypeOK, Move, Owner
<1> QED BY <1>1, <1>2

LEMMA DoneOwner ==
  ASSUME TypeOK, NEW w \in Workers, Done(w)
  PROVE  NoNewOwner
BY DEF TypeOK, NoNewOwner, Owner, Done, IdleWorker, WorkerState

(* A step that does not touch attempts, or only ends running ones. *)
LEMMA KeepsUsage ==
  ASSUME TypeOK, UsageInv, NoNewOwner, UNCHANGED <<attempt, usage>>,
         \/ UNCHANGED attempts
         \/ \E j \in Jobs, ns \in SUBSET AttemptNo, s \in AttemptStatus \ {"succeeded"} :
              EndIfRunning(j, ns, s)
  PROVE  UsageInv'
<1>0. \A j \in Jobs : usage[j] # 0 => usage[j] \in AttemptNo
  BY ConstantsAssumption DEF TypeOK, AttemptNo
<1>1. \A w \in Workers : worker[w].job \in Jobs /\ worker[w].att \in AttemptNo
  BY DEF TypeOK, WorkerState
<1>2. \A j \in Jobs, n \in AttemptNo :
        /\ attempts[j][n] = "none" => attempts'[j][n] = "none"
        /\ attempts[j][n] = "succeeded" <=> attempts'[j][n] = "succeeded"
  BY DEF TypeOK, EndIfRunning
<1>3. UsageIsSucceeded'
  BY <1>0, <1>2 DEF UsageInv, UsageIsSucceeded
<1>4. NumbersHandedOut'
  BY <1>2 DEF UsageInv, NumbersHandedOut
<1>5. OwnAttempt'
  BY DEF UsageInv, OwnAttempt, NoNewOwner
<1>6. OneOwner'
  BY DEF UsageInv, OneOwner, NoNewOwner
<1>7. SucceededUnowned'
  BY <1>1, <1>2 DEF UsageInv, SucceededUnowned, NoNewOwner
<1> QED BY <1>3, <1>4, <1>5, <1>6, <1>7 DEF UsageInv

LEMMA ClaimUsage ==
  ASSUME TypeOK, UsageInv, NEW w \in Workers, NEW j \in Jobs, NEW i \in ItemNo, Claim(w, j, i)
  PROVE  UsageInv'
<1> DEFINE m == attempt[j] + 1
<1>0. /\ \A k \in Jobs : usage[k] # 0 => usage[k] \in AttemptNo
      /\ \A k \in Jobs : attempt[k] \in Nat
      /\ \A v \in Workers : worker[v].job \in Jobs /\ worker[v].att \in AttemptNo
      /\ \A n \in AttemptNo : n \in Nat
      /\ m \in AttemptNo
  BY ConstantsAssumption DEF TypeOK, AttemptNo, WorkerState, Claim
<1>1. /\ attempt' = [attempt EXCEPT ![j] = m] /\ usage' = usage
      /\ attempt'[j] = m /\ \A k \in Jobs : k # j => attempt'[k] = attempt[k]
      /\ attempts'[j][m] = "running"
      /\ \A k \in Jobs, n \in AttemptNo : k # j \/ n # m => attempts'[k][n] = attempts[k][n]
  BY <1>0 DEF Claim, TypeOK
<1>2. /\ worker'[w].job = j /\ worker'[w].att = m
      /\ \A v \in Workers : v # w => worker'[v] = worker[v]
  BY DEF Claim, TypeOK
<1>3. UsageIsSucceeded'
  BY <1>0, <1>1 DEF UsageInv, UsageIsSucceeded, NumbersHandedOut
<1>4. NumbersHandedOut'
  BY <1>0, <1>1 DEF UsageInv, NumbersHandedOut
<1>5. OwnAttempt'
  BY <1>0, <1>1, <1>2 DEF UsageInv, OwnAttempt, Owner
<1>6. OneOwner'
  <2> SUFFICES ASSUME NEW u \in Workers, NEW v \in Workers, u # v,
                      Owner(u)', Owner(v)', worker'[u].job = worker'[v].job
               PROVE  worker'[u].att # worker'[v].att
    BY DEF OneOwner
  <2>1. \A x \in Workers : x # w /\ Owner(x)' => Owner(x) /\ worker[x].att <= attempt[worker[x].job]
    BY <1>2 DEF UsageInv, OwnAttempt, Owner
  <2>2. CASE u = w
    BY <1>0, <1>2, <2>1, <2>2
  <2>3. CASE v = w
    BY <1>0, <1>2, <2>1, <2>3
  <2>4. CASE u # w /\ v # w
    BY <1>2, <2>1, <2>4 DEF UsageInv, OneOwner
  <2> QED BY <2>2, <2>3, <2>4
<1>7. SucceededUnowned'
  BY <1>0, <1>1, <1>2 DEF UsageInv, SucceededUnowned, Owner
<1> QED BY <1>3, <1>4, <1>5, <1>6, <1>7 DEF UsageInv

LEMMA SettleUsage ==
  ASSUME TypeOK, UsageInv, NEW w \in Workers, SettleSuccess(w) \/ SettleRetryable(w)
  PROVE  UsageInv'
<1> DEFINE j == worker[w].job
           n == worker[w].att
<1>0. /\ \A k \in Jobs : usage[k] # 0 => usage[k] \in AttemptNo
      /\ \A v \in Workers : worker[v].job \in Jobs /\ worker[v].att \in AttemptNo
      /\ j \in Jobs /\ n \in AttemptNo /\ n # 0
      /\ attempt[j] \in Nat /\ n \in Nat
  BY ConstantsAssumption DEF TypeOK, AttemptNo, WorkerState
<1>o. Owner(w) /\ n <= attempt[j]
  BY DEF SettleSuccess, SettleRetryable, UsageInv, OwnAttempt, Owner
<1>1. Done(w) /\ attempt' = attempt
  BY DEF SettleSuccess, SettleRetryable
<1>2. NoNewOwner
  BY <1>1, DoneOwner
<1>3. CASE UNCHANGED attempts /\ UNCHANGED usage
  BY <1>1, <1>2, <1>3, KeepsUsage
<1>4. ASSUME NEW s \in AttemptStatus, attempts' = [attempts EXCEPT ![j][n] = s],
             \/ s # "succeeded" /\ usage' = usage
             \/ s = "succeeded" /\ usage' = [usage EXCEPT ![j] = IF @ = 0 THEN n ELSE @]
      PROVE  UsageInv'
  <2>1. /\ attempts'[j][n] = s
        /\ \A k \in Jobs, l \in AttemptNo : k # j \/ l # n => attempts'[k][l] = attempts[k][l]
    BY <1>0, <1>4 DEF TypeOK
  <2>2. attempts[j][n] # "succeeded"
    BY <1>1 DEF SettleSuccess, SettleRetryable, UsageInv, SucceededUnowned, Owner
  <2>3. \A v \in Workers : Owner(v)' => v # w
    BY <1>1 DEF Done, IdleWorker, Owner, TypeOK
  <2>4. UsageIsSucceeded'
    BY <1>0, <1>4, <2>1, <2>2 DEF UsageInv, UsageIsSucceeded, TypeOK
  <2>5. NumbersHandedOut'
    BY <1>0, <1>o, <1>1, <2>1 DEF UsageInv, NumbersHandedOut
  <2>6. OwnAttempt' /\ OneOwner'
    BY <1>1, <1>2 DEF UsageInv, OwnAttempt, OneOwner, NoNewOwner
  <2>7. SucceededUnowned'
    <3> SUFFICES ASSUME NEW v \in Workers, Owner(v)'
                 PROVE  attempts'[worker'[v].job][worker'[v].att] # "succeeded"
      BY DEF SucceededUnowned
    <3>1. /\ v # w /\ Owner(v) /\ Owner(w)
          /\ worker'[v].job = worker[v].job /\ worker'[v].att = worker[v].att
      BY <1>2, <2>3 DEF NoNewOwner, SettleSuccess, SettleRetryable, Owner
    <3>2. ~(worker[v].job = j /\ worker[v].att = n)
      BY <3>1 DEF UsageInv, OneOwner
    <3> QED BY <1>0, <2>1, <3>1, <3>2 DEF UsageInv, SucceededUnowned
  <2> QED BY <2>4, <2>5, <2>6, <2>7 DEF UsageInv
<1>5. CASE SettleSuccess(w)
  BY <1>3, <1>4, <1>5 DEF SettleSuccess, Commit, AttemptStatus
<1>6. CASE SettleRetryable(w)
  BY <1>3, <1>4, <1>6 DEF SettleRetryable, AttemptStatus
<1> QED BY <1>5, <1>6
LEMMA UsageStep == TypeOK /\ UsageInv /\ [Next]_vars => UsageInv'
<1> SUFFICES ASSUME TypeOK, UsageInv, [Next]_vars PROVE UsageInv'
  OBVIOUS
<1> USE DEF dbVars, mqVars
<1>q. ASSUME UNCHANGED <<attempt, attempts, usage, worker>> PROVE UsageInv'
  <2>1. NoNewOwner
    BY <1>q DEF NoNewOwner, Owner
  <2> QED BY <1>q, <2>1, KeepsUsage
<1>1. ASSUME NEW j \in Jobs,
             \/ Create(j) \/ CancelRead(j) \/ CancelRoute(j) \/ CancelAborted(j) \/ Retry(j)
             \/ Promote(j) \/ Reconcile(j) \/ RecoverRetryWait(j)
      PROVE  UsageInv'
  BY <1>q, <1>1
  DEF Create, CancelRead, CancelRoute, CancelActive, CancelWaiting, CancelRelease,
      CancelAborted, Retry, Promote, Reconcile, RecoverRetryWait
<1>2. ASSUME NEW w \in Workers, NEW j \in Jobs, NEW i \in ItemNo,
             Skip(w, j, i) \/ Refuse(w, j, i)
      PROVE  UsageInv'
  BY <1>q, <1>2 DEF Skip, Refuse
<1>3. ASSUME NEW w \in Workers, NEW j \in Jobs, NEW i \in ItemNo, Claim(w, j, i)
      PROVE  UsageInv'
  BY <1>3, ClaimUsage
<1>4. ASSUME NEW w \in Workers,
             Prepare(w) \/ Publish(w) \/ Classify(w) \/ Poll(w) \/ AdapterCancel(w) \/ Crash(w)
      PROVE  UsageInv'
  <2>1. UNCHANGED <<attempt, attempts, usage>>
    BY <1>4 DEF Prepare, Publish, Classify, Poll, AdapterCancel, Crash
  <2>2. CASE Done(w)
    BY <2>1, <2>2, DoneOwner, KeepsUsage
  <2>3. ASSUME Owner(w), NEW pc, NEW polls, NEW answer, Move(w, pc, polls, answer)
        PROVE  UsageInv'
    BY <2>1, <2>3, MoveOwner, KeepsUsage
  <2> QED
    BY <1>4, <2>2, <2>3
    DEF Prepare, Publish, Classify, Poll, PollAnswer, AdapterCancel, Crash, Owner, Goto
<1>5. ASSUME NEW w \in Workers, Unhandled(w) PROVE UsageInv'
  <2>1. NoNewOwner
    BY <1>5 DEF Unhandled, Done, IdleWorker, NoNewOwner, Owner, TypeOK
  <2> QED BY <1>5, <2>1, KeepsUsage DEF Unhandled
<1>6. ASSUME NEW w \in Workers, SettleSuccess(w) \/ SettleRetryable(w) PROVE UsageInv'
  BY <1>6, SettleUsage
<1>7. ASSUME NEW w \in Workers, SettleFailure(w) \/ SettleCancelled(w) PROVE UsageInv'
  <2> DEFINE j == worker[w].job
             ns == {worker[w].att}
  <2>1. j \in Jobs /\ ns \in SUBSET AttemptNo
    BY DEF TypeOK, WorkerState
  <2>2. NoNewOwner /\ UNCHANGED <<attempt, usage>>
    BY <1>7, DoneOwner DEF SettleFailure, SettleCancelled
  <2>3. \/ UNCHANGED attempts
        \/ EndIfRunning(j, ns, "permanent_failed") \/ EndIfRunning(j, ns, "cancelled")
    BY <1>7 DEF SettleFailure, SettleCancelled
  <2>4. /\ "permanent_failed" \in AttemptStatus \ {"succeeded"}
        /\ "cancelled" \in AttemptStatus \ {"succeeded"}
    BY DEF AttemptStatus
  <2> QED BY <2>1, <2>2, <2>3, <2>4, KeepsUsage
<1>8. ASSUME NEW r \in stale, RecoverRow(r) PROVE UsageInv'
  <2>1. NoNewOwner /\ UNCHANGED <<attempt, usage>> /\ r.job \in Jobs
    BY <1>8 DEF RecoverRow, NoNewOwner, Owner, TypeOK, Row
  <2>2. EndIfRunning(r.job, AttemptNo, "retryable_failed")
    BY <1>8 DEF RecoverRow
  <2>3. "retryable_failed" \in AttemptStatus \ {"succeeded"}
    BY DEF AttemptStatus
  <2> QED BY <2>1, <2>2, <2>3, KeepsUsage
<1>9. CASE SelectStale \/ SchedulerCrash \/ UNCHANGED vars
  BY <1>q, <1>9 DEF SelectStale, SchedulerCrash, vars
<1> QED
  BY <1>1, <1>2, <1>3, <1>4, <1>5, <1>6, <1>7, <1>8, <1>9
  DEF Next, Deliver, Process, Recover

LEMMA UsageInit == Init => UsageInv
BY ConstantsAssumption
DEF Init, UsageInv, UsageIsSucceeded, NumbersHandedOut, OwnAttempt, OneOwner,
    SucceededUnowned, Owner, IdleWorker, AttemptNo

(* Billing is right even when live workers are recovered as stale and settle
   late: the attempt a usage record names ended, and stays, `succeeded'. *)
THEOREM UsageCorrect == Spec => []UsageIsSucceeded
<1>1. UsageInv => UsageIsSucceeded
  BY DEF UsageInv
<1> QED BY <1>1, TypeCorrect, UsageInit, UsageStep, PTL DEF Spec

(* What the ledger's rows say of each other holds for any number of jobs,
   slots and faults. *)
THEOREM LedgerRowsCorrect == Spec => []LedgerRows
<1>1. SettledHoldsNoQuota /\ UsageIsSucceeded /\ CommittedIsUsed => LedgerRows
  BY DEF LedgerRows
<1> QED BY <1>1, SettledCorrect, UsageCorrect, CommittedCorrect, PTL

-----------------------------------------------------------------------------
(* What rests on one job being worked on by one actor at a time: proved of  *)
(* timely processes (~MayStall).                                            *)
(***************************************************************************)
(* No two actors work on one job. A claim needs `queued' or `retry_wait';    *)
(* while a slot is busy with a job the row is in none of them, and nobody    *)
(* but the slot, an open cancel request and the recovery can put it there.   *)
(* The recovery takes rows no live process holds, when none of them stalls;  *)
(* between its SELECT and its writes only a cancel request may come.         *)
(***************************************************************************)
Busy(w) == worker[w].pc # "idle"

OneWorker ==
  \A v, w \in Workers : v # w /\ Busy(v) /\ Busy(w) => worker[v].job # worker[w].job

(* A busy slot works on the current attempt, and that attempt runs. *)
BusyInv ==
  \A w \in Workers : Busy(w) =>
    LET j == worker[w].job IN
    /\ status[j] \in {"publishing", "cancel_requested", "cancelled"}
    /\ worker[w].pc \in {"cancel", "cancelled"} => status[j] # "publishing"
    /\ worker[w].att = attempt[j]
    /\ attempts[j][attempt[j]] = "running"

(* What an open cancel request read is not undone behind its back. *)
RequestInv ==
  \A j \in Jobs :
    /\ canceller[j] = "saw_active" =>
         status[j] \notin {"none", "scheduled", "cancel_requested", "cancelled"}
    /\ canceller[j] = "saw_waiting" => status[j] # "none"
    /\ canceller[j] = "releasing" => status[j] = "cancelled"

(* A row the recovery selected is still as it was, but for a cancel request. *)
StaleInv ==
  \A r \in stale :
    /\ status[r.job] \in Recoverable
    /\ r.status = "cancel_requested" => status[r.job] = "cancel_requested"
    /\ r.status = "publishing" => reservation[r.job] = "reserved"
    /\ r.attempt = attempt[r.job]
    /\ canceller[r.job] \in {"idle", "saw_active"}
    /\ \A w \in Workers : Busy(w) => worker[w].job # r.job

OneStale == \A q, r \in stale : q.job = r.job => q = r

(* Attempts of a job that waits have ended, and leave room for one more. *)
WaitingInv ==
  \A j \in Jobs :
    /\ status[j] \in {"none", "scheduled", "queued", "retry_wait"} => attempt[j] < MaxAttempts
    /\ status[j] \in {"none", "scheduled", "queued", "retry_wait", "failed"} =>
         \A n \in AttemptNo : attempts[j][n] # "running"

(* A job that may still be published holds its operation; one that was is in
   a final state, or on its way to cancelled. *)
HeldInv ==
  \A j \in Jobs :
    /\ status[j] = "none" => reservation[j] = "none"
    /\ status[j] \in {"scheduled", "queued", "publishing", "retry_wait"} =>
         reservation[j] = "reserved"
    /\ usage[j] # 0 => status[j] \in {"succeeded", "cancel_requested", "cancelled"}

ExclusionInv ==
  /\ OneWorker /\ BusyInv /\ RequestInv
  /\ StaleInv /\ OneStale
  /\ WaitingInv /\ HeldInv
  /\ AttemptsInOrder /\ UsedIsCommitted

-----------------------------------------------------------------------------
LEMMA ExclusionInit == Init => ExclusionInv
BY ConstantsAssumption
DEF Init, ExclusionInv, OneWorker, BusyInv, RequestInv, StaleInv, OneStale, WaitingInv,
    HeldInv, AttemptsInOrder, AttemptBudget, OneRunning, UsedIsCommitted, Busy, IdleWorker

(* A busy slot goes on with its job and attempt, or falls idle; the rows stay. *)
LEMMA LocalStep ==
  ASSUME TypeOK, ExclusionInv, NEW w \in Workers, Busy(w),
         UNCHANGED <<dbVars, canceller, stale>>,
         \A v \in Workers : v # w => worker'[v] = worker[v],
         Busy(w)' => /\ worker'[w].job = worker[w].job /\ worker'[w].att = worker[w].att
                     /\ worker'[w].pc \in {"cancel", "cancelled"} =>
                          status[worker[w].job] # "publishing"
  PROVE  ExclusionInv'
<1> USE DEF dbVars
<1>1. \A v \in Workers : Busy(v)' => Busy(v) /\ worker'[v].job = worker[v].job
                                    /\ worker'[v].att = worker[v].att
  BY DEF Busy
<1>2. OneWorker'
  BY <1>1 DEF ExclusionInv, OneWorker
<1>3. BusyInv'
  BY <1>1 DEF ExclusionInv, BusyInv, Busy
<1>4. StaleInv'
  BY <1>1 DEF ExclusionInv, StaleInv
<1>5. (RequestInv /\ OneStale /\ WaitingInv /\ HeldInv)'
  BY DEF ExclusionInv, RequestInv, OneStale, WaitingInv, HeldInv
<1>6. (AttemptsInOrder /\ UsedIsCommitted)'
  BY DEF ExclusionInv, AttemptsInOrder, AttemptBudget, OneRunning, UsedIsCommitted
<1> QED BY <1>2, <1>3, <1>4, <1>5, <1>6 DEF ExclusionInv

(* A cancel request reads or gives up, the recovery selects or dies, the queue
   changes: the rows and the slots stay. *)
LEMMA ObserverStep ==
  ASSUME TypeOK, ExclusionInv, UNCHANGED <<dbVars, worker>>,
         RequestInv', StaleInv', OneStale'
  PROVE  ExclusionInv'
<1>1. (OneWorker /\ BusyInv /\ WaitingInv /\ HeldInv)'
  BY DEF ExclusionInv, OneWorker, BusyInv, WaitingInv, HeldInv, Busy, dbVars
<1>2. (AttemptsInOrder /\ UsedIsCommitted)'
  BY DEF ExclusionInv, AttemptsInOrder, AttemptBudget, OneRunning, UsedIsCommitted, dbVars
<1> QED BY <1>1, <1>2 DEF ExclusionInv
LEMMA LocalActions ==
  ASSUME TypeOK, ExclusionInv, NEW w \in Workers,
         \/ Prepare(w) \/ Publish(w) \/ Classify(w) \/ Poll(w) \/ AdapterCancel(w)
         \/ Unhandled(w) \/ Crash(w)
  PROVE  ExclusionInv'
<1>0. worker[w].job \in Jobs /\ worker[w].att \in AttemptNo
  BY DEF TypeOK, WorkerState
<1>1. Busy(w) /\ UNCHANGED <<dbVars, canceller, stale>>
  BY DEF Prepare, Publish, Classify, Poll, AdapterCancel, Unhandled, Crash, Busy
<1>2. CASE Done(w)
  BY <1>1, <1>2, LocalStep DEF Done, IdleWorker, Busy, TypeOK
<1>3. ASSUME NEW pc, NEW polls, NEW answer, Move(w, pc, polls, answer),
             pc \in {"cancel", "cancelled"} => status[worker[w].job] # "publishing"
      PROVE  ExclusionInv'
  BY <1>1, <1>3, LocalStep DEF Move, TypeOK
<1>4. CASE Unhandled(w)
  <2>1. ASSUME NEW n \in AttemptNo, attempts[worker[w].job][n] = "running",
               worker' = [worker EXCEPT ![w] =
                 [pc |-> "fail", job |-> worker[w].job, item |-> worker[w].item, att |-> n,
                  polls |-> 0, answer |-> "pending"]]
        PROVE  ExclusionInv'
    <3>1. n = worker[w].att
      BY <1>0, <1>1, <2>1 DEF ExclusionInv, BusyInv, AttemptsInOrder, OneRunning
    <3> QED BY <1>1, <2>1, <3>1, LocalStep DEF TypeOK
  <2> QED BY <1>2, <1>4, <2>1 DEF Unhandled
<1>5. CASE Classify(w)
  BY <1>3, <1>5 DEF Classify, CancelSeen, AfterAnswer
<1>6. CASE AdapterCancel(w)
  BY <1>1, <1>2, <1>3, <1>6 DEF AdapterCancel, Goto, ExclusionInv, BusyInv
<1>7. CASE Prepare(w) \/ Publish(w)
  BY <1>3, <1>7 DEF Prepare, Publish, Goto, CancelSeen
<1>8. CASE Poll(w)
  BY <1>3, <1>8 DEF Poll, PollAnswer, Goto, CancelSeen
<1>9. CASE Crash(w)
  BY <1>2, <1>9 DEF Crash
<1> QED BY <1>4, <1>5, <1>6, <1>7, <1>8, <1>9

(* The steps that leave the rows and the slots alone. *)
LEMMA ObserverActions ==
  ASSUME TypeOK, ExclusionInv, ~MayStall,
         \/ \E j \in Jobs : \/ CancelRead(j) \/ CancelAborted(j) \/ Reconcile(j)
                            \/ RecoverRetryWait(j)
         \/ \E w \in Workers, j \in Jobs : \E i \in ItemNo : Skip(w, j, i) \/ Refuse(w, j, i)
         \/ SelectStale \/ SchedulerCrash \/ UNCHANGED vars
  PROVE  ExclusionInv'
<1> USE DEF TypeOK, dbVars, mqVars, vars
<1>1. ASSUME NEW j \in Jobs, CancelRead(j) \/ CancelAborted(j) PROVE ExclusionInv'
  <2>1. RequestInv'
    BY <1>1 DEF CancelRead, CancelAborted, ExclusionInv, RequestInv
  <2>2. StaleInv' /\ OneStale'
    BY <1>1 DEF CancelRead, CancelAborted, ExclusionInv, StaleInv, OneStale, Recoverable, Row, Busy
  <2> QED BY <1>1, <2>1, <2>2, ObserverStep DEF CancelRead, CancelAborted
<1>2. CASE SelectStale
  <2>1. \A r \in stale' :
          /\ r.job \in Jobs /\ status[r.job] \in Recoverable
          /\ r.status = status[r.job] /\ r.attempt = attempt[r.job]
          /\ ~Held(r.job)
    BY <1>2 DEF SelectStale
  <2>2. OneStale' /\ RequestInv'
    BY <1>2 DEF SelectStale, OneStale, ExclusionInv, RequestInv
  <2>3. StaleInv'
    BY <1>2, <2>1 DEF SelectStale, StaleInv, Held, Busy, ExclusionInv, HeldInv
  <2> QED BY <1>2, <2>2, <2>3, ObserverStep DEF SelectStale
<1>3. CASE SchedulerCrash
  BY <1>3, ObserverStep DEF SchedulerCrash, ExclusionInv, RequestInv, StaleInv, OneStale
<1>4. CASE UNCHANGED <<dbVars, worker, canceller, stale>>
  BY <1>4, ObserverStep DEF ExclusionInv, RequestInv, StaleInv, OneStale, Busy
<1> QED BY <1>1, <1>2, <1>3, <1>4 DEF Reconcile, RecoverRetryWait, Skip, Refuse

(* A step on the row of one job that no slot holds, or none that matters. *)
LEMMA RequestActions ==
  ASSUME TypeOK, ExclusionInv, SettledHoldsNoQuota, NEW j \in Jobs,
         Create(j) \/ CancelRoute(j) \/ Retry(j) \/ Promote(j)
  PROVE  ExclusionInv'
<1> USE DEF TypeOK, SetStatus, Release, CancelRoute
<1>0. /\ UNCHANGED <<attempt, attempts, usage, worker, stale>>
      /\ \A k \in Jobs : k # j => /\ status'[k] = status[k]
                                  /\ reservation'[k] = reservation[k]
                                  /\ canceller'[k] = canceller[k]
  BY DEF Create, CancelActive, CancelWaiting, CancelRelease, Retry, Promote
<1>1. \/ Create(j)
      \/ CancelActive(j)
      \/ CancelWaiting(j)
      \/ CancelRelease(j)
      \/ Retry(j)
      \/ Promote(j)
  OBVIOUS
<1>w. \A w \in Workers : worker[w].job \in Jobs
  BY DEF WorkerState
<1>r. \A r \in stale : r.job \in Jobs
  BY DEF Row
<1>2. OneWorker' /\ OneStale' /\ AttemptsInOrder'
  BY <1>0 DEF ExclusionInv, OneWorker, OneStale, Busy, AttemptsInOrder, AttemptBudget, OneRunning
<1>3. BusyInv'
  BY <1>0, <1>1, <1>w DEF ExclusionInv, BusyInv, Busy, Create, CancelActive, CancelWaiting,
     CancelRelease, Retry, Promote
<1>4. RequestInv'
  BY <1>0, <1>1 DEF ExclusionInv, RequestInv, Create, CancelActive, CancelWaiting,
     CancelRelease, Retry, Promote
<1>5. StaleInv'
  BY <1>0, <1>1, <1>r DEF ExclusionInv, StaleInv, RequestInv, Recoverable, Busy, Create,
     CancelActive, CancelWaiting, CancelRelease, Retry, Promote
<1>6. WaitingInv'
  BY <1>0, <1>1 DEF ExclusionInv, WaitingInv, Create, CancelActive, CancelWaiting,
     CancelRelease, Retry, Promote
<1>7. HeldInv'
  BY <1>0, <1>1 DEF ExclusionInv, HeldInv, RequestInv, Create, CancelActive, CancelWaiting,
     CancelRelease, Retry, Promote
<1>8. UsedIsCommitted'
  <2> USE <1>0 DEF ExclusionInv, HeldInv, UsedIsCommitted
  <2>1. CASE Create(j)
    BY <2>1 DEF Create
  <2>2. CASE CancelActive(j) \/ CancelWaiting(j)
    BY <2>2 DEF CancelActive, CancelWaiting
  <2>3. CASE CancelRelease(j)
    BY <2>3 DEF CancelRelease
  <2>4. CASE Retry(j)
    BY <2>4 DEF Retry
  <2>5. CASE Promote(j)
    BY <2>5 DEF Promote
  <2> QED BY <1>1, <2>1, <2>2, <2>3, <2>4, <2>5
<1> QED BY <1>2, <1>3, <1>4, <1>5, <1>6, <1>7, <1>8 DEF ExclusionInv

(* The claim: the slot becomes the only one of the job. *)
LEMMA ClaimExclusion ==
  ASSUME TypeOK, ExclusionInv,
         NEW w \in Workers, NEW j \in Jobs, NEW i \in ItemNo, Claim(w, j, i)
  PROVE  ExclusionInv'
<1> DEFINE m == attempt[j] + 1
<1>0. /\ \A v \in Workers : worker[v].job \in Jobs
      /\ \A r \in stale : r.job \in Jobs
      /\ \A k \in Jobs : attempt[k] \in Nat
      /\ MaxAttempts \in Nat
      /\ m \in AttemptNo
  BY ConstantsAssumption DEF TypeOK, AttemptNo, WorkerState, Row, Claim
<1>1. /\ status[j] \in {"queued", "retry_wait"} /\ status'[j] = "publishing"
      /\ attempt'[j] = m /\ attempts'[j][m] = "running"
      /\ \A n \in AttemptNo : n # m => attempts'[j][n] = attempts[j][n]
      /\ \A k \in Jobs : k # j => /\ status'[k] = status[k]
                                  /\ attempt'[k] = attempt[k]
                                  /\ attempts'[k] = attempts[k]
      /\ UNCHANGED <<reservation, usage, canceller, stale>>
  BY <1>0 DEF Claim, Claimable, SetStatus, TypeOK
<1>2. /\ worker[w].pc = "idle" /\ worker'[w].pc = "claimed"
      /\ worker'[w].job = j /\ worker'[w].att = m
      /\ \A v \in Workers : v # w => worker'[v] = worker[v]
  BY DEF Claim, Take, TypeOK
<1>3. \A v \in Workers : Busy(v) => worker[v].job # j
  BY <1>1 DEF ExclusionInv, BusyInv
<1>4. \A r \in stale : r.job # j
  BY <1>1 DEF ExclusionInv, StaleInv, Recoverable
<1>5. OneWorker'
  BY <1>2, <1>3 DEF ExclusionInv, OneWorker, Busy
<1>6. BusyInv'
  BY <1>0, <1>1, <1>2, <1>3 DEF ExclusionInv, BusyInv, Busy
<1>7. RequestInv'
  BY <1>1 DEF ExclusionInv, RequestInv
<1>8. StaleInv' /\ OneStale'
  BY <1>0, <1>1, <1>2, <1>4 DEF ExclusionInv, StaleInv, OneStale, Busy
<1>9. WaitingInv' /\ HeldInv' /\ UsedIsCommitted'
  BY <1>1 DEF ExclusionInv, WaitingInv, HeldInv, UsedIsCommitted
<1>10. AttemptsInOrder'
  BY <1>0, <1>1 DEF ExclusionInv, AttemptsInOrder, AttemptBudget, OneRunning, WaitingInv
<1> QED BY <1>5, <1>6, <1>7, <1>8, <1>9, <1>10 DEF ExclusionInv

(* The slot of a job settles and falls idle. *)
LEMMA SettleExclusion ==
  ASSUME TypeOK, ExclusionInv, NEW w \in Workers,
         SettleSuccess(w) \/ SettleRetryable(w) \/ SettleFailure(w) \/ SettleCancelled(w)
  PROVE  ExclusionInv'
<1> DEFINE j == worker[w].job
           n == worker[w].att
<1>0. /\ j \in Jobs /\ n \in AttemptNo /\ n # 0 /\ n \in Nat
      /\ \A v \in Workers : worker[v].job \in Jobs
      /\ \A r \in stale : r.job \in Jobs
      /\ \A k \in Jobs : attempt[k] \in Nat
      /\ MaxAttempts \in Nat
  BY ConstantsAssumption DEF TypeOK, AttemptNo, WorkerState, Row
<1>1. /\ Busy(w) /\ ~Busy(w)'
      /\ \A v \in Workers : v # w => worker'[v] = worker[v]
      /\ UNCHANGED <<attempt, canceller, stale>>
  BY DEF SettleSuccess, SettleRetryable, SettleFailure, SettleCancelled, Done, IdleWorker,
         Busy, TypeOK
<1>2. /\ status[j] \in {"publishing", "cancel_requested", "cancelled"}
      /\ n = attempt[j] /\ attempts[j][n] = "running"
      /\ \A v \in Workers : v # w /\ Busy(v) => worker[v].job # j
      /\ \A r \in stale : r.job # j
      /\ \A l \in AttemptNo : attempts[j][l] = "running" => l = n
      /\ status[j] = "publishing" => reservation[j] = "reserved" /\ usage[j] = 0
  BY <1>0, <1>1 DEF ExclusionInv, BusyInv, OneWorker, StaleInv, AttemptsInOrder, OneRunning, HeldInv
<1>3. /\ \A k \in Jobs : k # j => /\ status'[k] = status[k]
                                  /\ attempts'[k] = attempts[k]
                                  /\ reservation'[k] = reservation[k]
                                  /\ usage'[k] = usage[k]
      /\ \A l \in AttemptNo : attempts'[j][l] = "running" => attempts[j][l] = "running"
  BY <1>0
  DEF SettleSuccess, SettleRetryable, SettleFailure, SettleCancelled, SetStatus, EndIfRunning,
      Commit, Release, TypeOK
(* What each settlement writes. *)
<1>4. \/ /\ status'[j] = status[j] /\ status[j] # "publishing"
         /\ usage'[j] = usage[j] /\ reservation'[j] = reservation[j]
      \/ /\ status'[j] = "succeeded" /\ status[j] = "publishing"
         /\ reservation'[j] = "committed" /\ attempts'[j][n] # "running"
      \/ /\ status'[j] = "failed" /\ status[j] = "publishing"
         /\ usage'[j] = usage[j] /\ attempts'[j][n] # "running"
      \/ /\ status'[j] = "retry_wait" /\ status[j] = "publishing" /\ n < MaxAttempts
         /\ usage'[j] = usage[j] /\ reservation'[j] = reservation[j]
         /\ attempts'[j][n] # "running"
      \/ /\ status'[j] = "cancelled" /\ status[j] # "publishing"
         /\ usage'[j] = usage[j]
         /\ reservation'[j] = IF reservation[j] = "reserved" THEN "released" ELSE reservation[j]
  <2>1. CASE SettleSuccess(w)
    BY <1>0, <1>2, <2>1 DEF SettleSuccess, SetStatus, Commit, TypeOK
  <2>2. CASE SettleRetryable(w)
    BY <1>0, <1>2, <2>2 DEF SettleRetryable, SetStatus, TypeOK
  <2>3. CASE SettleFailure(w)
    BY <1>0, <1>2, <2>3 DEF SettleFailure, Failable, SetStatus, EndIfRunning, TypeOK
  <2>4. CASE SettleCancelled(w)
    BY <1>0, <1>1, <2>4 DEF SettleCancelled, SetStatus, Release, ExclusionInv, BusyInv, TypeOK
  <2> QED BY <2>1, <2>2, <2>3, <2>4
<1>5. OneWorker'
  BY <1>1 DEF ExclusionInv, OneWorker, Busy
<1>6. BusyInv'
  BY <1>0, <1>1, <1>2, <1>3 DEF ExclusionInv, BusyInv, Busy
<1>7. RequestInv'
  BY <1>0, <1>1, <1>2, <1>3, <1>4 DEF ExclusionInv, RequestInv
<1>8. StaleInv' /\ OneStale'
  BY <1>0, <1>1, <1>2, <1>3 DEF ExclusionInv, StaleInv, OneStale, Busy
<1>9. WaitingInv'
  BY <1>0, <1>1, <1>2, <1>3, <1>4 DEF ExclusionInv, WaitingInv
<1>10. HeldInv'
  BY <1>0, <1>2, <1>3, <1>4 DEF ExclusionInv, HeldInv
<1>11. UsedIsCommitted'
  BY <1>0, <1>2, <1>3, <1>4 DEF ExclusionInv, UsedIsCommitted
<1>12. AttemptsInOrder'
  BY <1>0, <1>1, <1>3 DEF ExclusionInv, AttemptsInOrder, AttemptBudget, OneRunning
<1> QED BY <1>5, <1>6, <1>7, <1>8, <1>9, <1>10, <1>11, <1>12 DEF ExclusionInv

(* The recovery writes a row that no slot holds. *)
LEMMA RecoverExclusion ==
  ASSUME TypeOK, ExclusionInv, NEW r \in stale, RecoverRow(r)
  PROVE  ExclusionInv'
<1> DEFINE j == r.job
<1>0. /\ j \in Jobs
      /\ \A v \in Workers : worker[v].job \in Jobs
      /\ \A q \in stale : q.job \in Jobs
  BY DEF TypeOK, WorkerState, Row
<1>1. /\ UNCHANGED <<attempt, usage, worker, canceller>> /\ stale' = stale \ {r}
      /\ \A k \in Jobs : k # j => /\ status'[k] = status[k]
                                  /\ attempts'[k] = attempts[k]
                                  /\ reservation'[k] = reservation[k]
      /\ \A n \in AttemptNo : attempts'[j][n] # "running"
  BY <1>0 DEF RecoverRow, SetStatus, EndIfRunning, Release, TypeOK
<1>2. /\ status[j] \in {"publishing", "cancel_requested"}
      /\ r.attempt = attempt[j]
      /\ canceller[j] \in {"idle", "saw_active"}
      /\ \A v \in Workers : Busy(v) => worker[v].job # j
      /\ \A q \in stale' : q.job # j
  BY <1>1 DEF ExclusionInv, StaleInv, OneStale, Recoverable
<1>3. \/ /\ status'[j] = "cancelled" /\ status[j] = "cancel_requested"
         /\ reservation'[j] = IF reservation[j] = "reserved" THEN "released" ELSE reservation[j]
      \/ /\ status'[j] = "failed" /\ reservation[j] = "reserved"
         /\ reservation'[j] = "released"
      \/ /\ status'[j] = "retry_wait" /\ reservation[j] = "reserved"
         /\ reservation'[j] = "reserved" /\ attempt[j] < MaxAttempts
  BY <1>0, <1>2 DEF RecoverRow, SetStatus, Release, ExclusionInv, StaleInv, TypeOK
<1>4. OneWorker' /\ OneStale'
  BY <1>1 DEF ExclusionInv, OneWorker, OneStale, Busy
<1>5. BusyInv'
  BY <1>0, <1>1, <1>2 DEF ExclusionInv, BusyInv, Busy
<1>6. RequestInv'
  BY <1>0, <1>1, <1>2, <1>3 DEF ExclusionInv, RequestInv
<1>7. StaleInv'
  BY <1>0, <1>1, <1>2 DEF ExclusionInv, StaleInv, Busy
<1>8. WaitingInv'
  BY <1>0, <1>1, <1>3 DEF ExclusionInv, WaitingInv
<1>9. HeldInv' /\ UsedIsCommitted'
  BY <1>0, <1>1, <1>2, <1>3 DEF ExclusionInv, HeldInv, UsedIsCommitted
<1>10. AttemptsInOrder'
  BY <1>0, <1>1 DEF ExclusionInv, AttemptsInOrder, AttemptBudget, OneRunning
<1> QED BY <1>4, <1>5, <1>6, <1>7, <1>8, <1>9, <1>10 DEF ExclusionInv

LEMMA ExclusionStep ==
  ~MayStall /\ TypeOK /\ SettledHoldsNoQuota /\ ExclusionInv /\ [Next]_vars => ExclusionInv'
<1> SUFFICES ASSUME ~MayStall, TypeOK, SettledHoldsNoQuota, ExclusionInv, [Next]_vars
             PROVE  ExclusionInv'
  OBVIOUS
<1>1. ASSUME NEW j \in Jobs,
             \/ Create(j) \/ CancelRead(j) \/ CancelRoute(j) \/ CancelAborted(j) \/ Retry(j)
             \/ Promote(j) \/ Reconcile(j) \/ RecoverRetryWait(j)
      PROVE  ExclusionInv'
  BY <1>1, RequestActions, ObserverActions
<1>2. ASSUME NEW w \in Workers, NEW j \in Jobs, Deliver(w, j) PROVE ExclusionInv'
  BY <1>2, ClaimExclusion, ObserverActions DEF Deliver
<1>3. ASSUME NEW w \in Workers, Process(w) \/ Unhandled(w) \/ Crash(w) PROVE ExclusionInv'
  BY <1>3, LocalActions, SettleExclusion DEF Process
<1>4. CASE Recover \/ SchedulerCrash \/ UNCHANGED vars
  BY <1>4, RecoverExclusion, ObserverActions DEF Recover
<1> QED BY <1>1, <1>2, <1>3, <1>4 DEF Next

LEMMA Exclusion == ASSUME ~MayStall PROVE Spec => []ExclusionInv
<1>1. TypeOK /\ SettledHoldsNoQuota /\ ExclusionInv /\ [Next]_vars => ExclusionInv'
  BY ExclusionStep
<1> QED BY <1>1, TypeCorrect, SettledCorrect, ExclusionInit, PTL DEF Spec

(* The budget and the order of attempts: no slot, recovery, retry route or
   redelivery adds an attempt beyond max_attempts, and none starts while an
   earlier one runs. *)
THEOREM AttemptsCorrect == ASSUME ~MayStall PROVE Spec => []AttemptsInOrder
<1>1. ExclusionInv => AttemptsInOrder
  BY DEF ExclusionInv
<1> QED BY <1>1, Exclusion, PTL

(* What was used stays committed: a job with a usage record is out of reach of
   every action that reserves or releases. *)
THEOREM UsedCorrect == ASSUME ~MayStall PROVE Spec => []UsedIsCommitted
<1>1. ExclusionInv => UsedIsCommitted
  BY DEF ExclusionInv
<1> QED BY <1>1, Exclusion, PTL

-----------------------------------------------------------------------------
LEMMA UsageAlways == Spec => []UsageInv
<1> QED BY TypeCorrect, UsageInit, UsageStep, PTL DEF Spec

(* Who may write the status of a job that was cancelled, or an attempt that
   ended: nobody but a slot that owns a running attempt. *)
LEMMA FinalStep ==
  ASSUME TypeOK, UsageInv, ExclusionInv, Next
  PROVE  /\ \A j \in Jobs, n \in AttemptNo :
              attempts[j][n] \notin {"none", "running"} => attempts'[j][n] = attempts[j][n]
         /\ \A j \in Jobs : status[j] = "cancelled" => status'[j] = "cancelled"
<1> DEFINE AttemptStays ==
             \A j \in Jobs, n \in AttemptNo :
               attempts[j][n] \notin {"none", "running"} => attempts'[j][n] = attempts[j][n]
           CancelledStays ==
             \A j \in Jobs : status[j] = "cancelled" => status'[j] = "cancelled"
           Stays == AttemptStays /\ CancelledStays
<1> USE DEF TypeOK, dbVars, mqVars, SetStatus
<1>0. \A w \in Workers : worker[w].job \in Jobs /\ worker[w].att \in AttemptNo
  BY DEF WorkerState
<1>1. ASSUME NEW j \in Jobs,
             \/ Create(j) \/ CancelRead(j) \/ CancelRoute(j) \/ CancelAborted(j) \/ Retry(j)
             \/ Promote(j) \/ Reconcile(j) \/ RecoverRetryWait(j)
      PROVE  Stays
  BY <1>1 DEF Create, CancelRead, CancelRoute, CancelActive, CancelWaiting, CancelRelease,
     CancelAborted, Retry, Promote, Reconcile, RecoverRetryWait, ExclusionInv, RequestInv
<1>2. ASSUME NEW w \in Workers, NEW j \in Jobs, NEW i \in ItemNo,
             Skip(w, j, i) \/ Refuse(w, j, i)
      PROVE  Stays
  BY <1>2 DEF Skip, Refuse
<1>3. ASSUME NEW w \in Workers, NEW j \in Jobs, NEW i \in ItemNo, Claim(w, j, i)
      PROVE  Stays
  <2> DEFINE m == attempt[j] + 1
  <2>1. m \in AttemptNo /\ m > attempt[j]
    BY <1>3, ConstantsAssumption DEF Claim, AttemptNo
  <2>2. attempts[j][m] = "none"
    BY <2>1 DEF UsageInv, NumbersHandedOut
  <2>3. AttemptStays
    BY <1>3, <2>1, <2>2 DEF Claim
  <2> QED BY <1>3, <2>3 DEF Claim, Claimable
<1>4. ASSUME NEW w \in Workers,
             \/ Prepare(w) \/ Publish(w) \/ Classify(w) \/ Poll(w) \/ AdapterCancel(w)
             \/ Unhandled(w) \/ Crash(w)
      PROVE  Stays
  BY <1>4 DEF Prepare, Publish, Classify, Poll, AdapterCancel, Unhandled, Crash
<1>5. ASSUME NEW w \in Workers, SettleSuccess(w) \/ SettleRetryable(w) PROVE Stays
  <2> DEFINE j == worker[w].job
             n == worker[w].att
  <2>1. attempts[j][n] = "running"
    BY <1>5 DEF SettleSuccess, SettleRetryable, ExclusionInv, BusyInv, Busy
  <2>2. \/ UNCHANGED attempts
        \/ \E s \in AttemptStatus : attempts' = [attempts EXCEPT ![j][n] = s]
    BY <1>5 DEF SettleSuccess, SettleRetryable, AttemptStatus
  <2>3. AttemptStays
    <3>1. ASSUME NEW s \in AttemptStatus, attempts' = [attempts EXCEPT ![j][n] = s],
                 NEW k \in Jobs, NEW l \in AttemptNo, k # j \/ l # n
          PROVE  attempts'[k][l] = attempts[k][l]
      BY <1>0, <3>1
    <3> QED BY <2>1, <2>2, <3>1
  <2> QED BY <1>0, <1>5, <2>3 DEF SettleSuccess, SettleRetryable
<1>6. ASSUME NEW w \in Workers, SettleFailure(w) \/ SettleCancelled(w) PROVE Stays
  <2>1. AttemptStays
    BY <1>0, <1>6 DEF SettleFailure, SettleCancelled, EndIfRunning
  <2> QED BY <1>0, <1>6, <2>1 DEF SettleFailure, SettleCancelled, Failable
<1>7. ASSUME NEW r \in stale, RecoverRow(r) PROVE Stays
  <2>1. r.job \in Jobs /\ status[r.job] # "cancelled"
    BY DEF Row, ExclusionInv, StaleInv, Recoverable
  <2>2. AttemptStays
    BY <1>7, <2>1 DEF RecoverRow, EndIfRunning
  <2> QED BY <1>7, <2>1, <2>2 DEF RecoverRow
<1>8. CASE SelectStale \/ SchedulerCrash
  BY <1>8 DEF SelectStale, SchedulerCrash
<1> QED
  BY <1>1, <1>2, <1>3, <1>4, <1>5, <1>6, <1>7, <1>8 DEF Next, Deliver, Process, Recover

(* An attempt that ended keeps its status, although settleRetryableFailure
   writes it without a look at what it was. *)
THEOREM AttemptFinalCorrect == ASSUME ~MayStall PROVE Spec => AttemptFinal
<1>1. TypeOK /\ UsageInv /\ ExclusionInv /\ [Next]_vars
      => [\A j \in Jobs, n \in AttemptNo :
            attempts[j][n] \notin {"none", "running"} => attempts'[j][n] = attempts[j][n]]_vars
  BY FinalStep
<1> QED BY <1>1, TypeCorrect, UsageAlways, Exclusion, PTL DEF Spec, AttemptFinal

(* A cancelled job stays cancelled, although the cancel route, the worker and
   the recovery write the status by id alone. *)
THEOREM CancelledCorrect == ASSUME ~MayStall PROVE Spec => CancelledIsFinal
<1>1. TypeOK /\ UsageInv /\ ExclusionInv /\ [Next]_vars
      => [\A j \in Jobs : status[j] = "cancelled" => status'[j] = "cancelled"]_vars
  BY FinalStep
<1> QED BY <1>1, TypeCorrect, UsageAlways, Exclusion, PTL DEF Spec, CancelledIsFinal

-----------------------------------------------------------------------------
(* What a slot is about to settle as a success, or may still be, is on the
   platform: only the owner of an attempt takes its content down, and then it
   does not settle it as a success. *)
OwnLive ==
  \A w \in Workers :
    \/ worker[w].pc \in {"settle", "poll"}
    \/ worker[w].pc \in {"answered", "polled"} /\ worker[w].answer \in {"ok", "pending"}
    => worker[w].att \in live[worker[w].job]

LiveInv == BilledIsLive /\ OwnLive

(* A slot that starts, goes on or ends, while the content stays. *)
LEMMA LiveKept ==
  ASSUME TypeOK, LiveInv, UNCHANGED <<usage, live>>,
         \A w \in Workers :
           \/ worker'[w].pc \notin {"settle", "poll", "answered", "polled"}
           \/ worker'[w] = worker[w]
  PROVE  LiveInv'
BY DEF LiveInv, BilledIsLive, OwnLive

(* A slot takes down the content of the attempt it owns. *)
LEMMA LiveDropped ==
  ASSUME TypeOK, UsageInv, LiveInv, NEW w \in Workers, Owner(w), UNCHANGED usage,
         live' = [live EXCEPT ![worker[w].job] = @ \ {worker[w].att}],
         \A v \in Workers : v # w => worker'[v] = worker[v],
         worker'[w].pc \notin {"settle", "poll"},
         worker'[w].pc \in {"answered", "polled"} => worker'[w].answer \notin {"ok", "pending"}
  PROVE  LiveInv'
<1>0. \A v \in Workers : worker[v].job \in Jobs /\ worker[v].att \in AttemptNo
  BY DEF TypeOK, WorkerState
<1>1. \A k \in Jobs, n \in AttemptNo :
        n \in live[k] /\ ~(k = worker[w].job /\ n = worker[w].att) => n \in live'[k]
  BY <1>0 DEF TypeOK
<1>2. BilledIsLive'
  <2> SUFFICES ASSUME NEW k \in Jobs, usage[k] # 0 PROVE usage[k] \in live'[k]
    BY DEF BilledIsLive
  <2>1. usage[k] \in AttemptNo /\ usage[k] \in live[k] /\ attempts[k][usage[k]] = "succeeded"
    BY ConstantsAssumption DEF TypeOK, AttemptNo, LiveInv, BilledIsLive, UsageInv, UsageIsSucceeded
  <2>2. ~(k = worker[w].job /\ usage[k] = worker[w].att)
    BY <2>1 DEF UsageInv, SucceededUnowned
  <2> QED BY <1>1, <2>1, <2>2
<1>3. OwnLive'
  <2> SUFFICES ASSUME NEW v \in Workers,
                      \/ worker'[v].pc \in {"settle", "poll"}
                      \/ /\ worker'[v].pc \in {"answered", "polled"}
                         /\ worker'[v].answer \in {"ok", "pending"}
               PROVE  worker'[v].att \in live'[worker'[v].job]
    BY DEF OwnLive
  <2>1. v # w /\ worker'[v] = worker[v]
    OBVIOUS
  <2>2. worker[v].att \in live[worker[v].job] /\ Owner(v)
    BY <2>1 DEF LiveInv, OwnLive, Owner
  <2>3. ~(worker[v].job = worker[w].job /\ worker[v].att = worker[w].att)
    BY <2>1, <2>2 DEF UsageInv, OneOwner
  <2> QED BY <1>0, <1>1, <2>1, <2>2, <2>3
<1> QED BY <1>2, <1>3 DEF LiveInv

(* The steps of a slot before it settles. *)
LEMMA LiveProcess ==
  ASSUME TypeOK, UsageInv, LiveInv, NEW w \in Workers,
         Prepare(w) \/ Publish(w) \/ Classify(w) \/ Poll(w) \/ AdapterCancel(w)
  PROVE  LiveInv'
<1> DEFINE j == worker[w].job
           n == worker[w].att
<1>0. /\ Owner(w) /\ UNCHANGED usage /\ j \in Jobs /\ n \in AttemptNo
      /\ \A v \in Workers : worker[v].job \in Jobs
  BY DEF Prepare, Publish, Classify, Poll, AdapterCancel, Owner, TypeOK, WorkerState, dbVars
<1>1. \A v \in Workers : v # w => worker'[v] = worker[v]
  BY DEF Prepare, Publish, Classify, Poll, PollAnswer, AdapterCancel, Goto, Move, Done, TypeOK
<1>2. CASE Prepare(w)
  <2>1. UNCHANGED live /\ worker'[w].pc \in {"ready", "fail"}
    BY <1>2 DEF Prepare, Goto, Move, TypeOK
  <2> QED BY <1>0, <1>1, <2>1, LiveKept
<1>3. CASE Publish(w)
  <2>1. ASSUME UNCHANGED live, worker'[w].pc \in {"cancel", "fail"} PROVE LiveInv'
    BY <1>0, <1>1, <2>1, LiveKept
  <2>2. ASSUME NEW a \in Answers, Move(w, "answered", 0, a),
               live' = IF a \in {"ok", "unsafe", "pending"}
                       THEN [live EXCEPT ![j] = @ \union {n}] ELSE live
        PROVE  LiveInv'
    <3>1. \A k \in Jobs : live[k] \subseteq live'[k]
      BY <2>2 DEF TypeOK
    <3>2. worker'[w].job = j /\ worker'[w].att = n /\ worker'[w].pc = "answered"
          /\ worker'[w].answer = a
      BY <2>2 DEF Move, TypeOK
    <3>3. a \in {"ok", "pending"} => n \in live'[j]
      BY <1>0, <2>2 DEF TypeOK
    <3> QED BY <1>0, <1>1, <3>1, <3>2, <3>3 DEF LiveInv, BilledIsLive, OwnLive
  <2> QED BY <1>3, <2>1, <2>2 DEF Publish, Goto, Move, TypeOK
<1>4. CASE Classify(w)
  <2>1. /\ worker'[w].job = j /\ worker'[w].att = n /\ worker'[w].answer = "pending"
        /\ worker'[w].pc = IF CancelSeen(w) THEN "cancel" ELSE AfterAnswer(w)
        /\ UNCHANGED live
    BY <1>4 DEF Classify, Move, TypeOK
  <2>2. worker'[w].pc \in {"settle", "poll"} => n \in live[j]
    BY <1>4, <2>1 DEF Classify, AfterAnswer, LiveInv, OwnLive, TypeOK, WorkerState, Answers
  <2>3. worker'[w].pc \notin {"answered", "polled"}
    BY <2>1 DEF AfterAnswer
  <2> QED BY <1>0, <1>1, <2>1, <2>2, <2>3 DEF LiveInv, BilledIsLive, OwnLive
<1>5. CASE Poll(w)
  <2>1. ASSUME UNCHANGED live, worker'[w].pc \in {"cancel", "retry"} PROVE LiveInv'
    BY <1>0, <1>1, <2>1, LiveKept
  <2>2. ASSUME NEW a \in Answers, Move(w, "polled", worker[w].polls + 1, a),
               live' = IF a \in {"retryable", "permanent"}
                       THEN [live EXCEPT ![j] = @ \ {n}] ELSE live
        PROVE  LiveInv'
    <3>1. worker'[w].job = j /\ worker'[w].att = n /\ worker'[w].pc = "polled"
          /\ worker'[w].answer = a
      BY <2>2 DEF Move, TypeOK
    <3>2. n \in live[j]
      BY <1>5 DEF Poll, LiveInv, OwnLive
    <3>3. CASE a \in {"retryable", "permanent"}
      BY <1>0, <1>1, <2>2, <3>1, <3>3, LiveDropped
    <3>4. CASE a \notin {"retryable", "permanent"}
      BY <1>0, <1>1, <2>2, <3>1, <3>2, <3>4 DEF LiveInv, BilledIsLive, OwnLive
    <3> QED BY <3>3, <3>4
  <2> QED BY <1>5, <2>1, <2>2 DEF Poll, PollAnswer, Goto, Move, TypeOK
<1>6. CASE AdapterCancel(w)
  <2>1. ASSUME Goto(w, "cancelled"), live' = [live EXCEPT ![j] = @ \ {n}] PROVE LiveInv'
    BY <1>0, <1>1, <2>1, LiveDropped DEF Goto, Move, TypeOK
  <2>2. CASE Done(w) /\ UNCHANGED live
    BY <1>0, <1>1, <2>2, LiveKept DEF Done, IdleWorker, TypeOK
  <2> QED BY <1>6, <2>1, <2>2 DEF AdapterCancel
<1> QED BY <1>2, <1>3, <1>4, <1>5, <1>6

LEMMA LiveStep == TypeOK /\ UsageInv /\ LiveInv /\ [Next]_vars => LiveInv'
<1> SUFFICES ASSUME TypeOK, UsageInv, LiveInv, [Next]_vars PROVE LiveInv'
  OBVIOUS
<1> USE DEF dbVars, mqVars
<1>1. ASSUME NEW j \in Jobs,
             \/ Create(j) \/ CancelRead(j) \/ CancelRoute(j) \/ CancelAborted(j) \/ Retry(j)
             \/ Promote(j) \/ Reconcile(j) \/ RecoverRetryWait(j)
      PROVE  LiveInv'
  BY <1>1, LiveKept
  DEF Create, CancelRead, CancelRoute, CancelActive, CancelWaiting, CancelRelease,
      CancelAborted, Retry, Promote, Reconcile, RecoverRetryWait
<1>2. ASSUME NEW w \in Workers, NEW j \in Jobs, NEW i \in ItemNo,
             Skip(w, j, i) \/ Refuse(w, j, i)
      PROVE  LiveInv'
  BY <1>2, LiveKept DEF Skip, Refuse
<1>3. ASSUME NEW w \in Workers, NEW j \in Jobs, NEW i \in ItemNo, Claim(w, j, i)
      PROVE  LiveInv'
  BY <1>3, LiveKept DEF Claim, TypeOK
<1>4. ASSUME NEW w \in Workers, Unhandled(w) \/ Crash(w) PROVE LiveInv'
  BY <1>4, LiveKept DEF Unhandled, Crash, Done, IdleWorker, TypeOK
<1>5. ASSUME NEW w \in Workers, SettleRetryable(w) \/ SettleFailure(w) \/ SettleCancelled(w)
      PROVE  LiveInv'
  BY <1>5, LiveKept
  DEF SettleRetryable, SettleFailure, SettleCancelled, Done, IdleWorker, TypeOK
<1>6. ASSUME NEW w \in Workers, SettleSuccess(w) PROVE LiveInv'
  <2> DEFINE j == worker[w].job
             n == worker[w].att
  <2>1. j \in Jobs /\ n \in live[j]
    BY <1>6 DEF SettleSuccess, LiveInv, OwnLive, TypeOK, WorkerState
  <2>2. \A k \in Jobs : usage'[k] = usage[k] \/ (k = j /\ usage'[k] = n)
    BY <1>6 DEF SettleSuccess, Commit, TypeOK
  <2>3. BilledIsLive'
    BY <1>6, <2>1, <2>2 DEF SettleSuccess, LiveInv, BilledIsLive
  <2>4. OwnLive'
    BY <1>6 DEF SettleSuccess, Done, IdleWorker, TypeOK, LiveInv, OwnLive
  <2> QED BY <2>3, <2>4 DEF LiveInv
<1>7. ASSUME NEW w \in Workers,
             Prepare(w) \/ Publish(w) \/ Classify(w) \/ Poll(w) \/ AdapterCancel(w)
      PROVE  LiveInv'
  BY <1>7, LiveProcess
<1>8. ASSUME NEW r \in stale, RecoverRow(r) PROVE LiveInv'
  BY <1>8, LiveKept DEF RecoverRow
<1>9. CASE SelectStale \/ SchedulerCrash \/ UNCHANGED vars
  BY <1>9, LiveKept DEF SelectStale, SchedulerCrash, vars
<1> QED
  BY <1>1, <1>2, <1>3, <1>4, <1>5, <1>6, <1>7, <1>8, <1>9
  DEF Next, Deliver, Process, Recover

(* What a usage record charges for is on the platform, and stays there, for
   stalling processes too: an attempt billed has no owner any more, and nobody
   but its owner takes content down. *)
THEOREM BilledCorrect == Spec => []BilledIsLive
<1>1. Init => LiveInv
  BY DEF Init, LiveInv, BilledIsLive, OwnLive, IdleWorker
<1>2. LiveInv => BilledIsLive
  BY DEF LiveInv
<1> QED BY <1>1, <1>2, TypeCorrect, UsageAlways, LiveStep, PTL DEF Spec

-----------------------------------------------------------------------------
(* The refinement of QuotaLedger. A step either leaves reservations and usage
   records, or changes those of one job in one of the ledger's three ways. *)
HeldJobs  == {j \in Jobs : reservation[j] = "reserved"}
SpentJobs == {j \in Jobs : usage[j] # 0}

LEMMA SameCardinality == \A S : Ledger!Cardinality(S) = Cardinality(S)
BY DEF Cardinality, Ledger!Cardinality

LEMMA ReserveRefines ==
  ASSUME TypeOK, NEW j \in Jobs, QuotaLeft(ProjectOf[j]),
         reservation[j] # "reserved", usage[j] = 0, UNCHANGED usage,
         reservation' = [reservation EXCEPT ![j] = "reserved"]
  PROVE  Ledger!Hold(j)
<1> DEFINE p == ProjectOf[j]
<1>1. Ledger!Of(p, HeldJobs) = Reserved(p) /\ Ledger!Of(p, SpentJobs) = Used(p)
  BY DEF Ledger!Of, HeldJobs, SpentJobs, Reserved, Used
<1>4. DailyOps = 0 \/ Ledger!Cardinality(Ledger!Of(p, HeldJobs)) +
                      Ledger!Cardinality(Ledger!Of(p, SpentJobs)) < DailyOps
  BY <1>1, SameCardinality DEF QuotaLeft
<1>2. HeldJobs' = HeldJobs \union {j} /\ SpentJobs' = SpentJobs
  BY DEF TypeOK, HeldJobs, SpentJobs
<1>3. j \notin HeldJobs \union SpentJobs
  BY DEF HeldJobs, SpentJobs
<1> QED BY <1>2, <1>3, <1>4 DEF Ledger!Hold, HeldJobs, SpentJobs

LEMMA ReleaseRefines ==
  ASSUME TypeOK, NEW j \in Jobs, Release(j), UNCHANGED usage
  PROVE  Ledger!GiveBack(j) \/ UNCHANGED <<HeldJobs, SpentJobs>>
<1>1. SpentJobs' = SpentJobs
  BY DEF SpentJobs
<1>2. CASE reservation[j] = "reserved"
  <2>1. HeldJobs' = HeldJobs \ {j} /\ j \in HeldJobs
    BY <1>2 DEF TypeOK, Release, HeldJobs
  <2> QED BY <1>1, <2>1 DEF Ledger!GiveBack, HeldJobs, SpentJobs
<1>3. CASE reservation[j] # "reserved"
  BY <1>1, <1>3 DEF TypeOK, Release, HeldJobs
<1> QED BY <1>2, <1>3

LEMMA CommitRefines ==
  ASSUME TypeOK, NEW j \in Jobs, NEW n \in AttemptNo, Commit(j, n), reservation[j] = "reserved"
  PROVE  Ledger!Spend(j)
<1>0. n # 0
  BY ConstantsAssumption DEF AttemptNo
<1>1. HeldJobs' = HeldJobs \ {j} /\ j \in HeldJobs
  BY DEF TypeOK, Commit, HeldJobs
<1>2. SpentJobs' = SpentJobs \union {j}
  BY <1>0 DEF TypeOK, Commit, SpentJobs
<1> QED BY <1>1, <1>2 DEF Ledger!Spend, HeldJobs, SpentJobs

LEMMA LedgerStep ==
  ASSUME TypeOK, SettledHoldsNoQuota, ExclusionInv, [Next]_vars
  PROVE  Ledger!Next \/ UNCHANGED <<HeldJobs, SpentJobs>>
<1> DEFINE Refines == Ledger!Next \/ UNCHANGED <<HeldJobs, SpentJobs>>
<1> USE DEF dbVars, mqVars
<1>q. ASSUME UNCHANGED <<reservation, usage>> PROVE Refines
  BY <1>q DEF HeldJobs, SpentJobs
<1>r. ASSUME NEW j \in Jobs, Release(j), UNCHANGED usage PROVE Refines
  BY <1>r, ReleaseRefines DEF Ledger!Next
<1>w. \A w \in Workers : worker[w].job \in Jobs /\ worker[w].att \in AttemptNo
  BY DEF TypeOK, WorkerState
<1>1. ASSUME NEW j \in Jobs, Create(j) \/ Retry(j) PROVE Refines
  <2>1. reservation[j] # "reserved" /\ usage[j] = 0
    BY <1>1 DEF Create, Retry, SettledHoldsNoQuota, ExclusionInv, HeldInv
  <2>2. Ledger!Hold(j)
    BY <1>1, <2>1, ReserveRefines DEF Create, Retry
  <2> QED BY <2>2 DEF Ledger!Next
<1>2. ASSUME NEW j \in Jobs,
             \/ CancelRead(j) \/ CancelRoute(j) \/ CancelAborted(j)
             \/ Promote(j) \/ Reconcile(j) \/ RecoverRetryWait(j)
      PROVE  Refines
  BY <1>2, <1>q, <1>r
  DEF CancelRead, CancelRoute, CancelActive, CancelWaiting, CancelRelease, CancelAborted,
      Promote, Reconcile, RecoverRetryWait
<1>3. ASSUME NEW w \in Workers, NEW j \in Jobs, NEW i \in ItemNo,
             Skip(w, j, i) \/ Refuse(w, j, i) \/ Claim(w, j, i)
      PROVE  Refines
  BY <1>3, <1>q DEF Skip, Refuse, Claim
<1>4. ASSUME NEW w \in Workers,
             \/ Prepare(w) \/ Publish(w) \/ Classify(w) \/ Poll(w) \/ AdapterCancel(w)
             \/ Unhandled(w) \/ Crash(w)
      PROVE  Refines
  BY <1>4, <1>q DEF Prepare, Publish, Classify, Poll, AdapterCancel, Unhandled, Crash
<1>5. ASSUME NEW w \in Workers, SettleSuccess(w) PROVE Refines
  <2>1. ASSUME status[worker[w].job] = "publishing",
               Commit(worker[w].job, worker[w].att)
        PROVE  Refines
    <3>1. reservation[worker[w].job] = "reserved"
      BY <1>w, <2>1 DEF ExclusionInv, HeldInv
    <3> QED BY <1>w, <2>1, <3>1, CommitRefines DEF Ledger!Next
  <2> QED BY <1>5, <1>q, <2>1 DEF SettleSuccess
<1>6. ASSUME NEW w \in Workers, SettleRetryable(w) \/ SettleFailure(w) \/ SettleCancelled(w)
      PROVE  Refines
  BY <1>6, <1>q, <1>r, <1>w DEF SettleRetryable, SettleFailure, SettleCancelled
<1>7. ASSUME NEW r \in stale, RecoverRow(r) PROVE Refines
  <2>1. r.job \in Jobs
    BY DEF TypeOK, Row
  <2> QED BY <1>7, <1>q, <1>r, <2>1 DEF RecoverRow
<1>8. CASE SelectStale \/ SchedulerCrash \/ UNCHANGED vars
  BY <1>8, <1>q DEF SelectStale, SchedulerCrash, vars
<1> QED
  BY <1>1, <1>2, <1>3, <1>4, <1>5, <1>6, <1>7, <1>8 DEF Next, Deliver, Process, Recover

(* The reservations and the usage records are a ledger: an operation is held
   within the day's limit, given back or spent, and never spent twice. *)
THEOREM LedgerCorrect == ASSUME ~MayStall PROVE Spec => LedgerSpec
<1>1. Init => Ledger!Init
  BY DEF Init, Ledger!Init
<1>2. TypeOK /\ SettledHoldsNoQuota /\ ExclusionInv /\ [Next]_vars
      => [Ledger!Next]_<<HeldJobs, SpentJobs>>
  BY LedgerStep
<1>3. TypeOK /\ SettledHoldsNoQuota /\ ExclusionInv /\ [Next]_vars
      => [Ledger!Next]_<<{j \in Jobs : reservation[j] = "reserved"}, {j \in Jobs : usage[j] # 0}>>
  BY <1>2 DEF HeldJobs, SpentJobs
<1> QED
  BY <1>1, <1>3, TypeCorrect, SettledCorrect, Exclusion, PTL DEF Spec, LedgerSpec, Ledger!Spec

-----------------------------------------------------------------------------
(* What a project holds and has spent stays within the operations of a day. *)
DailyQuota ==
  DailyOps # 0 =>
    \A p \in Projects : Cardinality(Reserved(p)) + Cardinality(Used(p)) <= DailyOps

LEMMA QuotaSets ==
  ASSUME NEW p
  PROVE  /\ IsFiniteSet(Reserved(p)) /\ Cardinality(Reserved(p)) \in Nat
         /\ IsFiniteSet(Used(p)) /\ Cardinality(Used(p)) \in Nat
         /\ IsFiniteSet(Reserved(p)') /\ Cardinality(Reserved(p)') \in Nat
         /\ IsFiniteSet(Used(p)') /\ Cardinality(Used(p)') \in Nat
<1>1. /\ Reserved(p) \subseteq Jobs /\ Used(p) \subseteq Jobs
      /\ Reserved(p)' \subseteq Jobs /\ Used(p)' \subseteq Jobs
  BY DEF Reserved, Used
<1> QED BY <1>1, FS_Subset, FS_CardinalityType, ConstantsAssumption

LEMMA DailyStep ==
  ASSUME DailyQuota, Ledger!Next \/ UNCHANGED <<HeldJobs, SpentJobs>>
  PROVE  DailyQuota'
<1> SUFFICES ASSUME DailyOps # 0, NEW p \in Projects
             PROVE  Cardinality(Reserved(p)') + Cardinality(Used(p)') <= DailyOps
  BY DEF DailyQuota
<1>0. Cardinality(Reserved(p)) + Cardinality(Used(p)) <= DailyOps /\ DailyOps \in Nat
  BY ConstantsAssumption DEF DailyQuota
<1>s. /\ Reserved(p) = {k \in HeldJobs : ProjectOf[k] = p}
      /\ Used(p) = {k \in SpentJobs : ProjectOf[k] = p}
      /\ Reserved(p)' = {k \in HeldJobs' : ProjectOf[k] = p}
      /\ Used(p)' = {k \in SpentJobs' : ProjectOf[k] = p}
  BY DEF Reserved, Used, HeldJobs, SpentJobs
<1>m. ASSUME Reserved(p)' \subseteq Reserved(p), Used(p)' \subseteq Used(p)
      PROVE  Cardinality(Reserved(p)') + Cardinality(Used(p)') <= DailyOps
  <2>1. /\ Cardinality(Reserved(p)') <= Cardinality(Reserved(p))
        /\ Cardinality(Used(p)') <= Cardinality(Used(p))
    BY <1>m, QuotaSets, FS_Subset
  <2> QED BY <1>0, <2>1, QuotaSets
<1>1. ASSUME NEW j \in Jobs, Ledger!Hold(j)
      PROVE  Cardinality(Reserved(p)') + Cardinality(Used(p)') <= DailyOps
  <2>1. HeldJobs' = HeldJobs \union {j} /\ SpentJobs' = SpentJobs /\ j \notin HeldJobs
    BY <1>1 DEF Ledger!Hold, HeldJobs, SpentJobs
  <2>2. CASE ProjectOf[j] # p
    BY <1>m, <1>s, <2>1, <2>2
  <2>3. CASE ProjectOf[j] = p
    <3>1. Reserved(p)' = Reserved(p) \union {j} /\ j \notin Reserved(p) /\ Used(p)' = Used(p)
      BY <1>s, <2>1, <2>3
    <3>2. Ledger!Of(p, HeldJobs) = Reserved(p) /\ Ledger!Of(p, SpentJobs) = Used(p)
      BY <1>s DEF Ledger!Of
    <3>3. Ledger!Cardinality(Ledger!Of(p, HeldJobs)) +
          Ledger!Cardinality(Ledger!Of(p, SpentJobs)) < DailyOps
      BY <1>1, <2>3 DEF Ledger!Hold, HeldJobs, SpentJobs
    <3>4. Cardinality(Reserved(p)) + Cardinality(Used(p)) < DailyOps
      BY <3>2, <3>3, SameCardinality
    <3>5. Cardinality(Reserved(p)') = Cardinality(Reserved(p)) + 1
      BY <3>1, QuotaSets, FS_AddElement
    <3> QED BY <1>0, <3>1, <3>4, <3>5, QuotaSets
  <2> QED BY <2>2, <2>3
<1>2. ASSUME NEW j \in Jobs, Ledger!GiveBack(j)
      PROVE  Cardinality(Reserved(p)') + Cardinality(Used(p)') <= DailyOps
  <2>1. HeldJobs' = HeldJobs \ {j} /\ SpentJobs' = SpentJobs
    BY <1>2 DEF Ledger!GiveBack, HeldJobs, SpentJobs
  <2> QED BY <1>m, <1>s, <2>1
<1>3. ASSUME NEW j \in Jobs, Ledger!Spend(j)
      PROVE  Cardinality(Reserved(p)') + Cardinality(Used(p)') <= DailyOps
  <2>1. HeldJobs' = HeldJobs \ {j} /\ SpentJobs' = SpentJobs \union {j} /\ j \in HeldJobs
    BY <1>3 DEF Ledger!Spend, HeldJobs, SpentJobs
  <2>2. CASE ProjectOf[j] # p
    BY <1>m, <1>s, <2>1, <2>2
  <2>3. CASE ProjectOf[j] = p
    <3>1. /\ Reserved(p)' = Reserved(p) \ {j} /\ j \in Reserved(p)
          /\ Used(p)' = Used(p) \union {j}
      BY <1>s, <2>1, <2>3
    <3>2. Cardinality(Reserved(p)') = Cardinality(Reserved(p)) - 1
      BY <3>1, QuotaSets, FS_RemoveElement
    <3>3. Cardinality(Used(p)') <= Cardinality(Used(p)) + 1
      <4>1. CASE j \in Used(p)
        <5>1. Used(p)' = Used(p)
          BY <3>1, <4>1
        <5> QED BY <5>1, QuotaSets
      <4>2. CASE j \notin Used(p)
        <5>1. Cardinality(Used(p) \union {j}) = Cardinality(Used(p)) + 1
          BY <4>2, QuotaSets, FS_AddElement
        <5> QED BY <3>1, <5>1, QuotaSets
      <4> QED BY <4>1, <4>2
    <3> QED BY <1>0, <3>2, <3>3, QuotaSets
  <2> QED BY <2>2, <2>3
<1>4. CASE UNCHANGED <<HeldJobs, SpentJobs>>
  BY <1>m, <1>s, <1>4
<1> QED BY <1>1, <1>2, <1>3, <1>4 DEF Ledger!Next

(* The daily quota holds although the reservations are taken by two routes,
   and given back or spent by the worker, the cancel route and the recovery:
   what QuotaLedger promises follows from the refinement. *)
THEOREM DailyQuotaCorrect == ASSUME ~MayStall PROVE Spec => []DailyQuota
<1>1. Init => DailyQuota
  <2> SUFFICES ASSUME Init, NEW p \in Projects
               PROVE  Cardinality(Reserved(p)) + Cardinality(Used(p)) <= DailyOps
    BY DEF DailyQuota
  <2>1. Reserved(p) = {} /\ Used(p) = {}
    BY DEF Init, Reserved, Used
  <2> QED BY <2>1, FS_EmptySet, ConstantsAssumption
<1>2. TypeOK /\ SettledHoldsNoQuota /\ ExclusionInv /\ DailyQuota /\ [Next]_vars => DailyQuota'
  BY LedgerStep, DailyStep
<1> QED BY <1>1, <1>2, TypeCorrect, SettledCorrect, Exclusion, PTL DEF Spec
=============================================================================
