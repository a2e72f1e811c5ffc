----------------------------- MODULE JobProofs -----------------------------
(***************************************************************************)
(* Theorems of JobLifecycle, for every set of jobs and slots, every number  *)
(* of attempts, tries and faults.                                           *)
(***************************************************************************)
EXTENDS JobLifecycle, TLAPS

LEMMA IdleType == Idle \in Worker
BY JobAssumption DEF Idle, Worker

(* The states an item goes through. *)
LEMMA ItemType ==
  ASSUME NEW it \in Item
  PROVE  /\ StalledItem(it) \in Item
         /\ CompletedItem(it) \in Item
         /\ NoItem \in Item
         /\ NewItem(1) \in Item /\ NewItem(Tries) \in Item
         /\ [st |-> "active", made |-> it.made, tries |-> it.tries, stalled |-> it.stalled] \in Item
BY JobAssumption DEF Item, StalledItem, CompletedItem, NoItem, NewItem

(* A delivery fails at most `tries' times, as BullMQ only redelivers while it
   has failed less often. *)
LEMMA FailedType ==
  ASSUME NEW it \in Item, it.made < it.tries
  PROVE  FailedItem(it) \in Item
BY JobAssumption DEF Item, FailedItem

-----------------------------------------------------------------------------
(* Types alone are not inductive: that an item's count of failed deliveries
   stays within its tries needs the item of a slot to be active, and an active
   item needs a slot of its own, unless BullMQ took it away. *)
Holds(w) == worker[w].pc # "idle" /\ ~worker[w].lost

ItemIsHeld ==
  \A w \in Workers : Holds(w) => item[worker[w].job].st = "active"

OneHolder ==
  \A v, w \in Workers :
    v # w /\ Holds(v) /\ Holds(w) => worker[v].job # worker[w].job

TriesLeft ==
  \A j \in Jobs : item[j].st \in {"waiting", "active"} => item[j].made < item[j].tries

ItemInv == TypeOK /\ ItemIsHeld /\ OneHolder /\ TriesLeft

LEMMA ItemInit == Init => ItemInv
<1> SUFFICES ASSUME Init PROVE ItemInv
  OBVIOUS
<1>1. NoItem \in Item
  BY JobAssumption DEF NoItem, Item
<1>2. TypeOK
  BY <1>1, IdleType, JobAssumption DEF Init, TypeOK, Status, Request, Row
<1> QED
  BY <1>2 DEF Init, ItemInv, ItemIsHeld, OneHolder, TriesLeft, Holds, Idle, NoItem

(* An enqueue touches an item only when there is none. *)
LEMMA EnqueueItem ==
  ASSUME ItemInv, NEW j \in Jobs, NEW tries \in {1, Tries}, Enqueue(j, tries), worker' = worker
  PROVE  /\ item' \in [Jobs -> Item] /\ faults' \in 0..MaxFaults
         /\ ItemIsHeld' /\ OneHolder' /\ TriesLeft'
<1>1. NewItem(tries) \in Item /\ NewItem(tries).made < NewItem(tries).tries
  BY JobAssumption DEF NewItem, Item
<1>2. /\ item' \in [Jobs -> Item]
      /\ \A k \in Jobs : item'[k] = item[k] \/ (item[k].st = "none" /\ item'[k] = NewItem(tries))
  BY <1>1 DEF ItemInv, TypeOK, Enqueue, Added
<1>3. ItemIsHeld'
  BY <1>2 DEF ItemInv, TypeOK, ItemIsHeld, Holds, Worker
<1>4. OneHolder'
  BY DEF ItemInv, OneHolder, Holds
<1>5. TriesLeft'
  BY <1>1, <1>2 DEF ItemInv, TriesLeft
<1>6. faults' \in 0..MaxFaults
  BY JobAssumption DEF ItemInv, TypeOK, Enqueue, Fault
<1> QED BY <1>2, <1>3, <1>4, <1>5, <1>6

(* A slot that ends. *)
LEMMA EndsItem ==
  ASSUME ItemInv, NEW w \in Workers, worker[w].pc # "idle", NEW it,
         ~worker[w].lost =>
           it \in Item /\ (it.st \in {"waiting", "active"} => it.made < it.tries),
         Ends(w, it)
  PROVE  /\ item' \in [Jobs -> Item] /\ worker' \in [Workers -> Worker]
         /\ ItemIsHeld' /\ OneHolder' /\ TriesLeft'
<1>1. worker' \in [Workers -> Worker] /\ \A v \in Workers : Holds(v)' => v # w /\ Holds(v) /\ worker'[v] = worker[v]
  BY IdleType DEF ItemInv, TypeOK, Ends, Holds, Idle
<1>2. \A v \in Workers : worker[v].job \in Jobs
  BY DEF ItemInv, TypeOK, Worker
<1>3. item' \in [Jobs -> Item] /\ TriesLeft'
  BY <1>2 DEF ItemInv, TypeOK, TriesLeft, Ends
<1>4. ItemIsHeld'
  <2> SUFFICES ASSUME NEW v \in Workers, Holds(v)' PROVE item'[worker'[v].job].st = "active"
    BY DEF ItemIsHeld
  <2>1. v # w /\ Holds(v) /\ worker'[v] = worker[v] /\ item[worker[v].job].st = "active"
    BY <1>1 DEF ItemInv, ItemIsHeld
  <2>2. item'[worker[v].job] = item[worker[v].job]
    BY <1>2, <2>1 DEF Ends, ItemInv, OneHolder, Holds, TypeOK
  <2> QED BY <2>1, <2>2
<1>5. OneHolder'
  BY <1>1 DEF ItemInv, OneHolder
<1> QED BY <1>1, <1>3, <1>4, <1>5

(* The API's routes and the eviction. *)
LEMMA ApiItem ==
  ASSUME ItemInv, NEW j \in Jobs,
         Create(j) \/ RequestRead(j) \/ Answer(j) \/ Evict(j) \/ TimeOut(j)
  PROVE  ItemInv'
<1> USE DEF SetStatus
<1>0. TypeOK
  BY DEF ItemInv
<1>q. ASSUME UNCHANGED <<item, worker>>, TypeOK' PROVE ItemInv'
  BY <1>q DEF ItemInv, ItemIsHeld, OneHolder, TriesLeft, Holds
<1>1. CASE Create(j)
  BY <1>0, <1>1, EnqueueItem DEF Create, ItemInv, TypeOK, Status
<1>2. CASE RequestRead(j)
  BY <1>0, <1>2, <1>q DEF RequestRead, TypeOK, Request
<1>3. CASE CancelWrite(j)
  BY <1>0, <1>3, <1>q DEF CancelWrite, TypeOK, Status
<1>4. CASE RetryWrite(j)
  BY <1>0, <1>4, EnqueueItem DEF RetryWrite, ItemInv, TypeOK, Status
<1>5. CASE Evict(j)
  <2>1. NoItem \in Item
    BY JobAssumption DEF NoItem, Item
  <2>2. TypeOK'
    BY <1>0, <1>5, <2>1 DEF Evict, TypeOK
  <2> QED
    BY <1>0, <1>5, <2>2
    DEF Evict, ItemInv, TypeOK, ItemIsHeld, OneHolder, TriesLeft, Holds, NoItem, Worker
<1>6. CASE TimeOut(j)
  BY <1>0, <1>6, <1>q DEF TimeOut, TypeOK, Status
<1> QED BY <1>1, <1>2, <1>3, <1>4, <1>5, <1>6 DEF Answer

(* The slots. *)
LEMMA SlotItem ==
  ASSUME ItemInv, NEW w \in Workers,
         \/ \E j \in Jobs : Deliver(w, j)
         \/ Process(w) \/ SlotFails(w) \/ Crash(w) \/ Stall(w)
  PROVE  ItemInv'
<1> USE DEF SetStatus
<1> DEFINE k == worker[w].job
<1>0. TypeOK /\ k \in Jobs /\ item[k] \in Item /\ worker[w] \in Worker
  BY DEF ItemInv, TypeOK, Worker
<1>j. \A v \in Workers : worker[v].job \in Jobs
  BY <1>0 DEF TypeOK, Worker
<1>1. ASSUME NEW j \in Jobs, Skip(w, j) PROVE ItemInv'
  <2>1. CompletedItem(item[j]) \in Item /\ CompletedItem(item[j]).st = "completed"
    BY <1>0, ItemType DEF TypeOK, CompletedItem
  <2>2. TypeOK'
    BY <1>0, <1>1, <2>1, JobAssumption DEF Skip, TypeOK, Fault
  <2> QED
    BY <1>0, <1>1, <1>j, <2>1, <2>2
    DEF Skip, Take, ItemInv, TypeOK, ItemIsHeld, OneHolder, TriesLeft, Holds
<1>2. ASSUME NEW j \in Jobs, Claim(w, j) PROVE ItemInv'
  <2> DEFINE it == [st |-> "active", made |-> item[j].made, tries |-> item[j].tries,
                    stalled |-> item[j].stalled]
             wk == [pc |-> "claimed", job |-> j, att |-> attemptCount[j] + 1,
                    made |-> item[j].made, lost |-> FALSE]
  <2>1. it \in Item /\ it.st = "active" /\ it.made < it.tries
    BY <1>0, <1>2, ItemType DEF TypeOK, ItemInv, TriesLeft, Claim, Take
  <2>2. wk \in Worker /\ attemptCount[j] + 1 \in 0..AttemptBound
    BY <1>0, <1>2, JobAssumption DEF Claim, Worker, TypeOK, Item
  <2>3. item' = [item EXCEPT ![j] = it] /\ worker' = [worker EXCEPT ![w] = wk]
    BY <1>2 DEF Claim
  <2>4. TypeOK'
    BY <1>0, <1>2, <2>1, <2>2, <2>3 DEF Claim, TypeOK, Status
  <2>5. \A v \in Workers : v # w /\ Holds(v) => worker[v].job # j
    BY <1>2 DEF Claim, Take, ItemInv, ItemIsHeld
  <2>6. ItemIsHeld'
    BY <1>0, <1>j, <2>1, <2>3, <2>5 DEF ItemInv, ItemIsHeld, Holds, TypeOK
  <2>7. OneHolder'
    BY <1>0, <2>3, <2>5 DEF ItemInv, OneHolder, Holds, TypeOK
  <2>8. TriesLeft'
    BY <1>0, <2>1, <2>3 DEF ItemInv, TriesLeft, TypeOK
  <2> QED BY <2>4, <2>6, <2>7, <2>8 DEF ItemInv
<1>3. CASE Start(w)
  <2>1. TypeOK'
    BY <1>0, <1>3 DEF Start, TransitionJob, TypeOK, Worker, Status
  <2> QED
    BY <1>0, <1>3, <1>j, <2>1
    DEF Start, ItemInv, ItemIsHeld, OneHolder, TriesLeft, Holds, TypeOK
<1>4. ASSUME worker[w].pc # "idle", ~worker[w].lost
      PROVE  /\ FailedItem(item[k]) \in Item
             /\ StalledItem(item[k]) \in Item
             /\ CompletedItem(item[k]) \in Item
             /\ FailedItem(item[k]).st = "waiting" => FailedItem(item[k]).made < FailedItem(item[k]).tries
             /\ StalledItem(item[k]).made < StalledItem(item[k]).tries
             /\ CompletedItem(item[k]).st = "completed"
             /\ FailedItem(item[k]).st # "active"
  <2>1. item[k].made < item[k].tries
    BY <1>0, <1>4 DEF ItemInv, ItemIsHeld, TriesLeft, Holds
  <2> QED
    BY <1>0, <2>1, ItemType, FailedType DEF FailedItem, StalledItem, CompletedItem
<1>5. CASE Finish(w)
  <2>1. status' \in [Jobs -> Status]
    BY <1>0, <1>5 DEF Finish, TransitionJob, TypeOK, Status
  <2>2. CASE Ends(w, CompletedItem(item[k]))
    BY <1>4, <1>5, <2>1, <2>2, EndsItem DEF Finish, ItemInv, TypeOK
  <2>3. CASE Ends(w, FailedItem(item[k]))
    BY <1>4, <1>5, <2>1, <2>3, EndsItem DEF Finish, ItemInv, TypeOK
  <2> QED BY <1>5, <2>2, <2>3 DEF Finish
<1>6. CASE SlotFails(w)
  <2>1. status' \in [Jobs -> Status] /\ faults' \in 0..MaxFaults
    <3>1. faults' \in 0..MaxFaults
      BY <1>0, <1>6, JobAssumption DEF SlotFails, Fault, TypeOK
    <3>2. ASSUME NEW to \in Status, TransitionJob(k, "running", to)
          PROVE  status' \in [Jobs -> Status]
      BY <1>0, <3>2 DEF TransitionJob, TypeOK
    <3> QED BY <1>0, <1>6, <3>1, <3>2 DEF SlotFails, TypeOK, Status
  <2>2. CASE Ends(w, CompletedItem(item[k]))
    BY <1>4, <1>6, <2>1, <2>2, EndsItem DEF SlotFails, ItemInv, TypeOK
  <2>3. CASE Ends(w, FailedItem(item[k]))
    BY <1>4, <1>6, <2>1, <2>3, EndsItem DEF SlotFails, ItemInv, TypeOK
  <2> QED BY <1>6, <2>2, <2>3 DEF SlotFails
<1>7. CASE Crash(w)
  <2>1. faults' \in 0..MaxFaults
    BY <1>0, <1>7, JobAssumption DEF Crash, Fault, TypeOK
  <2> QED BY <1>4, <1>7, <2>1, EndsItem DEF Crash, ItemInv, TypeOK
<1>8. CASE Stall(w)
  <2>1. /\ StalledItem(item[k]) \in Item
        /\ StalledItem(item[k]).made < StalledItem(item[k]).tries
    BY <1>4, <1>8 DEF Stall
  <2>2. TypeOK'
    BY <1>0, <1>8, <2>1, JobAssumption DEF Stall, Fault, TypeOK, Worker
  <2>3. \A v \in Workers : Holds(v)' => v # w /\ Holds(v) /\ worker'[v] = worker[v]
    BY <1>0, <1>8 DEF Stall, Holds, TypeOK
  <2>4. \A v \in Workers : Holds(v)' => worker[v].job # k
    BY <1>8, <2>3 DEF Stall, ItemInv, OneHolder, Holds
  <2>5. ItemIsHeld' /\ OneHolder'
    BY <1>0, <1>8, <1>j, <2>3, <2>4 DEF Stall, ItemInv, ItemIsHeld, OneHolder, TypeOK
  <2>6. TriesLeft'
    BY <1>0, <1>8, <2>1 DEF Stall, ItemInv, TriesLeft, TypeOK
  <2> QED BY <2>2, <2>5, <2>6 DEF ItemInv
<1> QED
  BY <1>1, <1>2, <1>3, <1>5, <1>6, <1>7, <1>8 DEF Deliver, Process
(* The recovery. *)
LEMMA RecoveryItem ==
  ASSUME ItemInv, Recover \/ RecoveryFails
  PROVE  ItemInv'
<1> USE DEF SetStatus
<1>0. TypeOK
  BY DEF ItemInv
<1>q. ASSUME UNCHANGED <<item, worker>>, TypeOK' PROVE ItemInv'
  BY <1>q DEF ItemInv, ItemIsHeld, OneHolder, TriesLeft, Holds
<1>r. \A r \in stalled : r \in Row /\ r.job \in Jobs
  BY <1>0 DEF TypeOK, Row
<1>1. CASE SelectStalled
  <2> DEFINE Seen(j) ==
        [job |-> j, status |-> status[j], att |-> attemptCount[j], timedOut |-> FALSE]
  <2>1. PICK S \in SUBSET {j \in Jobs : status[j] \in Recoverable} :
           stalled' = stalled \union {Seen(j) : j \in S}
    BY <1>1 DEF SelectStalled
  <2>2. ASSUME NEW j \in S PROVE Seen(j) \in Row
    <3>1. j \in Jobs /\ status[j] \in {"claimed", "running"} /\ attemptCount[j] \in 0..AttemptBound
      BY <1>0, <2>1 DEF Recoverable, TypeOK
    <3> QED BY <3>1 DEF Row
  <2> HIDE DEF Seen
  <2>3. stalled' \subseteq Row
    BY <1>0, <2>1, <2>2 DEF TypeOK
  <2>4. faults' \in 0..MaxFaults
    BY <1>0, <1>1, JobAssumption DEF SelectStalled, Fault, TypeOK
  <2> QED BY <1>0, <1>1, <1>q, <2>3, <2>4 DEF SelectStalled, TypeOK
<1>2. ASSUME NEW r \in stalled, Requeue(r) PROVE ItemInv'
  <2>1. CASE UNCHANGED <<status, item, faults>>
    BY <1>0, <1>2, <1>q, <2>1 DEF Requeue, TypeOK
  <2>2. CASE SetStatus(r.job, "queued") /\ Enqueue(r.job, Tries)
    BY <1>0, <1>2, <1>r, <2>2, EnqueueItem DEF Requeue, ItemInv, TypeOK, Status
  <2> QED BY <1>2, <2>1, <2>2 DEF Requeue
<1>3. ASSUME NEW r \in stalled, MarkTimedOut(r) PROVE ItemInv'
  <2>1. [job |-> r.job, status |-> r.status, att |-> r.att, timedOut |-> TRUE] \in Row
    BY <1>r DEF Row
  <2> QED BY <1>0, <1>3, <1>q, <2>1 DEF MarkTimedOut, TypeOK, Status
<1>4. ASSUME NEW r \in stalled, LeaveTimedOut(r) PROVE ItemInv'
  <2>1. status' \in [Jobs -> Status] /\ stalled' \subseteq Row
    BY <1>0, <1>4 DEF LeaveTimedOut, TransitionJob, TypeOK, Status
  <2>2. CASE UNCHANGED <<item, faults>>
    BY <1>0, <1>4, <1>q, <2>1, <2>2 DEF LeaveTimedOut, TypeOK
  <2>3. CASE Enqueue(r.job, Tries)
    BY <1>0, <1>4, <1>r, <2>1, <2>3, EnqueueItem DEF LeaveTimedOut, ItemInv, TypeOK
  <2> QED BY <1>4, <2>2, <2>3 DEF LeaveTimedOut
<1>5. CASE RecoveryFails
  BY <1>0, <1>5, <1>q, JobAssumption DEF RecoveryFails, Fault, TypeOK
<1> QED
  BY <1>1, <1>2, <1>3, <1>4, <1>5 DEF Recover, Handle

LEMMA ItemStep == ItemInv /\ [Next]_vars => ItemInv'
<1> SUFFICES ASSUME ItemInv, [Next]_vars PROVE ItemInv'
  OBVIOUS
<1>1. CASE Next
  BY <1>1, ApiItem, SlotItem, RecoveryItem DEF Next
<1>2. CASE UNCHANGED vars
  BY <1>2
  DEF vars, ItemInv, TypeOK, ItemIsHeld, OneHolder, TriesLeft, Holds
<1> QED BY <1>1, <1>2

LEMMA ItemCorrect == Spec => []ItemInv
<1> QED BY ItemInit, ItemStep, PTL DEF Spec

(* Every variable keeps its type: no delivery is counted beyond its item's
   tries, no status leaves the CHECK constraint of migration 003. *)
THEOREM JobTypeCorrect == Spec => []TypeOK
<1>1. ItemInv => TypeOK
  BY DEF ItemInv
<1> QED BY <1>1, ItemCorrect, PTL

(* No job is run by two slots that both have its item, whatever is cancelled,
   timed out, retried, recovered or delivered again. *)
THEOREM NoDoubleRunCorrect == Spec => []NoDoubleRun
<1>1. ItemInv => NoDoubleRun
  BY DEF ItemInv, OneHolder, NoDoubleRun, Holds
<1> QED BY <1>1, ItemCorrect, PTL

-----------------------------------------------------------------------------
(* The rows the recovery works on are old, but attempt_count only grows. *)
RowsAreOld == \A r \in stalled : r.att <= attemptCount[r.job]

DeadInv == RowsAreOld /\ DeadLetterIsExhausted

LEMMA DeadStep == TypeOK /\ DeadInv /\ [Next]_vars => DeadInv'
<1> SUFFICES ASSUME TypeOK, DeadInv, [Next]_vars PROVE DeadInv'
  OBVIOUS
<1> USE DEF TypeOK, SetStatus, TransitionJob
<1>0. /\ MaxAttempts \in Nat
      /\ \A j \in Jobs : attemptCount[j] \in Nat
      /\ \A r \in stalled : r.job \in Jobs /\ r.att \in Nat
  BY JobAssumption DEF Row
<1>1. ASSUME UNCHANGED attemptCount, stalled' \subseteq stalled,
             \A j \in Jobs : status'[j] = "dead_letter" => status[j] = "dead_letter"
      PROVE  DeadInv'
  BY <1>1 DEF DeadInv, RowsAreOld, DeadLetterIsExhausted
<1>2. ASSUME NEW j \in Jobs, \/ Create(j) \/ RequestRead(j) \/ Answer(j) \/ Evict(j) \/ TimeOut(j)
      PROVE  DeadInv'
  BY <1>1, <1>2 DEF Create, RequestRead, Answer, CancelWrite, RetryWrite, Evict, TimeOut
<1>3. ASSUME NEW w \in Workers, NEW j \in Jobs, Deliver(w, j) PROVE DeadInv'
  <2>1. CASE Skip(w, j)
    BY <1>1, <2>1 DEF Skip
  <2>2. CASE Claim(w, j)
    <3>1. /\ stalled' = stalled /\ attemptCount' = [attemptCount EXCEPT ![j] = @ + 1]
          /\ \A i \in Jobs : status'[i] = "dead_letter" => status[i] = "dead_letter"
      BY <2>2 DEF Claim
    <3> QED BY <1>0, <3>1 DEF DeadInv, RowsAreOld, DeadLetterIsExhausted
  <2> QED BY <1>3, <2>1, <2>2 DEF Deliver
<1>4. ASSUME NEW w \in Workers, Process(w) \/ SlotFails(w) \/ Crash(w) \/ Stall(w)
      PROVE  DeadInv'
  <2>1. worker[w].job \in Jobs
    BY DEF Worker
  <2> QED BY <1>1, <1>4, <2>1 DEF Process, Start, Finish, SlotFails, Crash, Stall
<1>5. CASE SelectStalled
  <2>1. \A r \in stalled' : r \in stalled \/ (r.job \in Jobs /\ r.att = attemptCount[r.job])
    BY <1>5 DEF SelectStalled
  <2> QED BY <1>0, <1>5, <2>1 DEF SelectStalled, DeadInv, RowsAreOld, DeadLetterIsExhausted
<1>6. ASSUME NEW r \in stalled, Requeue(r) PROVE DeadInv'
  BY <1>0, <1>1, <1>6 DEF Requeue
<1>7. ASSUME NEW r \in stalled, MarkTimedOut(r) PROVE DeadInv'
  BY <1>0, <1>7 DEF MarkTimedOut, DeadInv, RowsAreOld, DeadLetterIsExhausted
<1>8. ASSUME NEW r \in stalled, LeaveTimedOut(r) PROVE DeadInv'
  <2>1. /\ attemptCount' = attemptCount /\ stalled' \subseteq stalled
        /\ \A j \in Jobs : status'[j] = "dead_letter" =>
             status[j] = "dead_letter" \/ (j = r.job /\ r.att >= MaxAttempts)
    BY <1>0, <1>8 DEF LeaveTimedOut, Exhausted
  <2> QED BY <1>0, <2>1 DEF DeadInv, RowsAreOld, DeadLetterIsExhausted
<1>9. CASE RecoveryFails \/ UNCHANGED vars
  BY <1>1, <1>9 DEF RecoveryFails, vars
<1> QED
  BY <1>2, <1>3, <1>4, <1>5, <1>6, <1>7, <1>8, <1>9 DEF Next, Recover, Handle

(* The recovery sends a job to dead_letter only after max_attempts claims,
   even from rows it selected long ago and under concurrent recoveries. *)
THEOREM DeadLetterCorrect == Spec => []DeadLetterIsExhausted
<1>1. Init => DeadInv
  BY DEF Init, DeadInv, RowsAreOld, DeadLetterIsExhausted
<1>2. DeadInv => DeadLetterIsExhausted
  BY DEF DeadInv
<1> QED BY <1>1, <1>2, JobTypeCorrect, DeadStep, PTL DEF Spec

-----------------------------------------------------------------------------
(* A slot that did not lose its item claimed last: a claim needs the item to
   wait, and the item of such a slot is active. *)
LatestInv == \A w \in Workers : Holds(w) => worker[w].att = attemptCount[worker[w].job]

LEMMA LatestStep == ItemInv /\ LatestInv /\ [Next]_vars => LatestInv'
<1> SUFFICES ASSUME ItemInv, LatestInv, [Next]_vars PROVE LatestInv'
  OBVIOUS
<1> USE DEF ItemInv, TypeOK
<1>1. ASSUME UNCHANGED attemptCount,
             \A w \in Workers : Holds(w)' => /\ Holds(w) /\ worker'[w].job = worker[w].job
                                             /\ worker'[w].att = worker[w].att
      PROVE  LatestInv'
  BY <1>1 DEF LatestInv, Worker
<1>2. ASSUME UNCHANGED <<attemptCount, worker>> PROVE LatestInv'
  BY <1>1, <1>2 DEF Holds
<1>3. ASSUME NEW w \in Workers, Process(w) \/ SlotFails(w) \/ Crash(w) \/ Stall(w)
      PROVE  LatestInv'
  BY <1>1, <1>3
  DEF Process, Start, Finish, SlotFails, Crash, Stall, Ends, Idle, Holds
<1>4. ASSUME NEW w \in Workers, NEW j \in Jobs, Claim(w, j) PROVE LatestInv'
  <2>1. \A v \in Workers : Holds(v) => worker[v].job # j /\ worker[v].job \in Jobs
    BY <1>4 DEF Claim, Take, ItemIsHeld, Worker
  <2>2. /\ worker'[w].job = j /\ worker'[w].att = attemptCount[j] + 1
        /\ \A v \in Workers : v # w => worker'[v] = worker[v]
        /\ attemptCount' = [attemptCount EXCEPT ![j] = @ + 1]
    BY <1>4 DEF Claim
  <2> QED BY <2>1, <2>2 DEF LatestInv, Holds
<1>5. ASSUME NEW w \in Workers, NEW j \in Jobs, Skip(w, j) PROVE LatestInv'
  BY <1>2, <1>5 DEF Skip
<1>6. ASSUME NEW j \in Jobs, \/ Create(j) \/ RequestRead(j) \/ Answer(j) \/ Evict(j) \/ TimeOut(j)
      PROVE  LatestInv'
  BY <1>2, <1>6 DEF Create, RequestRead, Answer, CancelWrite, RetryWrite, Evict, TimeOut
<1>7. CASE Recover \/ RecoveryFails \/ UNCHANGED vars
  BY <1>2, <1>7
  DEF Recover, SelectStalled, Handle, Requeue, MarkTimedOut, LeaveTimedOut, RecoveryFails, vars
<1> QED BY <1>3, <1>4, <1>5, <1>6, <1>7 DEF Next, Deliver

(* A success is written by a slot that runs the job, when it ends. *)
LEMMA SuccessStep ==
  ASSUME ItemInv, LatestInv, Next, NEW j \in Jobs,
         status[j] # "succeeded", status'[j] = "succeeded"
  PROVE  \E w \in Workers : /\ worker[w].pc = "running" /\ worker[w].job = j
                            /\ worker[w].att = attemptCount[j] \/ worker[w].lost
                            /\ worker'[w].pc = "idle"
<1> USE DEF ItemInv, TypeOK, SetStatus, TransitionJob
<1>1. ASSUME NEW w \in Workers, Finish(w) \/ SlotFails(w)
      PROVE  worker[w].pc = "running" /\ worker[w].job = j /\ worker'[w].pc = "idle"
  BY <1>1 DEF Finish, SlotFails, Ends, Idle
<1>2. ASSUME NEW w \in Workers, Start(w) \/ Crash(w) \/ Stall(w) PROVE FALSE
  BY <1>2 DEF Start, Crash, Stall
<1>3. ASSUME NEW k \in Jobs, NEW w \in Workers, Deliver(w, k) PROVE FALSE
  BY <1>3 DEF Deliver, Skip, Claim
<1>4. ASSUME NEW k \in Jobs, \/ Create(k) \/ RequestRead(k) \/ Answer(k) \/ Evict(k) \/ TimeOut(k)
      PROVE  FALSE
  BY <1>4 DEF Create, RequestRead, Answer, CancelWrite, RetryWrite, Evict, TimeOut
<1>5. ~(Recover \/ RecoveryFails)
  <2> SUFFICES ASSUME Recover \/ RecoveryFails PROVE FALSE
    OBVIOUS
  <2>1. \A r \in stalled : r.job \in Jobs
    BY DEF Row
  <2> QED
    BY <2>1
    DEF Recover, SelectStalled, Handle, Requeue, MarkTimedOut, LeaveTimedOut, RecoveryFails
<1>6. PICK w \in Workers : Finish(w) \/ SlotFails(w)
  BY <1>2, <1>3, <1>4, <1>5 DEF Next, Process
<1>7. worker[w].pc = "running" /\ worker[w].job = j /\ worker'[w].pc = "idle"
  BY <1>1, <1>6
<1>8. worker[w].att = attemptCount[j] \/ worker[w].lost
  BY <1>7 DEF LatestInv, Holds, Worker
<1> QED BY <1>7, <1>8

(* Only the latest claim reports a success, or a slot that lost its item. *)
THEOREM ResultCorrect == Spec => ResultOfLastClaim
<1>1. Init => LatestInv
  BY DEF Init, LatestInv, Holds, Idle
<1>2. ItemInv /\ LatestInv /\ [Next]_vars
      => [\A j \in Jobs : status[j] # "succeeded" /\ status'[j] = "succeeded" =>
            \E w \in Workers : /\ worker[w].pc = "running" /\ worker[w].job = j
                               /\ worker[w].att = attemptCount[j] \/ worker[w].lost
                               /\ worker'[w].pc = "idle"]_vars
  BY SuccessStep
<1> QED BY <1>1, <1>2, ItemCorrect, LatestStep, PTL DEF Spec, ResultOfLastClaim
=============================================================================
