---------------------------- MODULE BudgetedRuns ----------------------------
(***************************************************************************)
(* The part the three paid pipelines share: a run row, its general job and  *)
(* BullMQ item, its reservation and usage rows, the worker execution, and   *)
(* the cancel route. SubtitleTranslation, SpeechSynthesis and VideoRender   *)
(* add the handlers; ContentPipeline composes them.                         *)
(*                                                                         *)
(* One action is one statement, one transaction or one await. A run is      *)
(* executed by one process at a time: that two processors never execute     *)
(* one job is JobLifecycle's NoDoubleRun, for processes that keep their     *)
(* BullMQ lock. One budget day.                                             *)
(***************************************************************************)
EXTENDS Naturals, FiniteSets, Functions

CONSTANTS
  Runs,
  Cues,          \* the cues of a subtitle version, a range of numbers
  Cases,         \* what the runs are: see CaseOK
  PerRunLimit,   \* *_budgets.per_run_limit
  DailyLimit,    \* *_budgets.daily_limit
  MaxFaults,     \* bound of the model: crashes, lost enqueues, query errors
  MayOutliveTtl  \* may an execution outlive its reservation's expires_at?

Kinds == {"translation", "tts", "render"}

(* A case says for each run its pipeline, its (source, profile) key, its    *)
(* estimate, and the run whose product it takes; itself if it takes none.   *)
(* Estimates are positive: a free run takes no reservation. Speech takes a  *)
(* translation, a render takes a narration.                                 *)
Takes == {<<"tts", "translation">>, <<"render", "tts">>}
CaseOK(c) ==
  /\ c = [kind |-> c.kind, cost |-> c.cost, from |-> c.from, key |-> c.key]
  /\ c.kind \in [Runs -> Kinds]
  /\ c.cost \in [Runs -> Nat \ {0}]
  /\ c.from \in [Runs -> Runs]
  /\ \A r \in Runs : c.from[r] # r => <<c.kind[r], c.kind[c.from[r]]>> \in Takes
  /\ DOMAIN c.key = Runs

ASSUME RunsAssumption ==
  /\ IsFiniteSet(Runs)
  /\ Cues \subseteq Nat /\ Cues # {}
  /\ \A c \in Cases : CaseOK(c)
  /\ PerRunLimit \in Nat /\ DailyLimit \in Nat /\ MaxFaults \in Nat
  /\ MayOutliveTtl \in BOOLEAN

VARIABLES
  kindOf, cost, from, key,  \* the case, chosen once
  status,       \* tts_runs.status, render_runs.status, translation_runs.status
  job,          \* jobs.status of the run's general job
  items,        \* runs whose BullMQ item is waiting
  reservation,  \* *_budget_reservations.status
  usage,        \* number of the run's *_usage_records
  cues,         \* rows of tts_cue_results, or subtitle_cues of the target version
  product,      \* output_asset_id is set, or the target version's status
  quality,      \* translation_quality_results.status
  review,       \* a translation_review_assignments row exists
  pc,           \* the worker's execution of the run's handler
  canceller,    \* the cancel route: where it is and the status it read
  faults

caseVars == <<kindOf, cost, from, key>>
moneyVars == <<reservation, usage>>
madeVars == <<cues, product, quality, review>>
vars == <<caseVars, status, job, items, moneyVars, madeVars, pc, canceller, faults>>

RunStatus == {"none", "queued", "planning", "running", "succeeded", "failed",
              "cancel_requested", "cancelled"}
JobStatus == {"none", "queued", "claimed", "running", "retry_wait",
              "cancel_requested", "cancelled", "succeeded", "failed"}

SetStatus(r, s) == status' = [status EXCEPT ![r] = s]
Goto(r, l) == pc' = [pc EXCEPT ![r] = l]

Fault == faults < MaxFaults /\ faults' = faults + 1

(* A worker step of run r's handler at the label `at', of one pipeline. *)
At(k, r, at) ==
  /\ kindOf[r] = k /\ pc[r] = at
  /\ UNCHANGED <<caseVars, items, canceller>>

-----------------------------------------------------------------------------
(* Admission: the insert of run and job is one transaction under an         *)
(* advisory lock; the enqueue after it is best-effort.                      *)

Admit(r, k) ==
  /\ kindOf[r] = k /\ status[r] = "none"
  /\ SetStatus(r, "queued")
  /\ job' = [job EXCEPT ![r] = "queued"]
  /\ \/ items' = items \union {r} /\ UNCHANGED faults
     \/ UNCHANGED items /\ Fault
  /\ UNCHANGED <<caseVars, moneyVars, pc, canceller>>

-----------------------------------------------------------------------------
(* The general queue, as far as a run sees it.                              *)

Claim(r) ==
  /\ r \in items /\ pc[r] = "idle"
  /\ items' = items \ {r}
  /\ IF job[r] \in {"queued", "retry_wait"}
       THEN job' = [job EXCEPT ![r] = "claimed"] /\ Goto(r, "claimed")
       ELSE UNCHANGED <<job, pc>>
  /\ UNCHANGED <<caseVars, status, moneyVars, madeVars, canceller, faults>>

Start(r) ==
  /\ pc[r] = "claimed"
  /\ job' = [job EXCEPT ![r] = IF @ = "claimed" THEN "running" ELSE @]
  /\ Goto(r, "load")
  /\ UNCHANGED <<caseVars, status, items, moneyVars, madeVars, canceller, faults>>

(* The handler returns or throws: "succeeded", "failed" for a permanent     *)
(* error, "retry_wait" for any other, which nothing delivers again.         *)
End(r, outcome) ==
  /\ Goto(r, "idle")
  /\ job' = [job EXCEPT ![r] = IF @ = "running" THEN outcome ELSE @]

(* Any statement of a handler may fail; its error is retryable. *)
QueryError(r) ==
  /\ pc[r] \notin {"idle", "claimed", "release"}
  /\ kindOf[r] = "render" => pc[r] # "cancel_release"   \* swallowed there
  /\ kindOf[r] # "translation" => pc[r] # "reserve"     \* fails the run there
  /\ Fault /\ End(r, "retry_wait")
  /\ UNCHANGED <<caseVars, status, items, moneyVars, madeVars, canceller>>

(* The worker process dies; when the lease has expired recoverStaleJobs     *)
(* puts a claimed or running job back in the queue.                         *)
Crash(r) ==
  /\ pc[r] # "idle" /\ Fault /\ Goto(r, "idle")
  /\ UNCHANGED <<caseVars, status, job, items, moneyVars, madeVars, canceller>>
Recover(r) ==
  /\ pc[r] = "idle" /\ job[r] \in {"claimed", "running"}
  /\ job' = [job EXCEPT ![r] = IF @ = "claimed" THEN "queued" ELSE "retry_wait"]
  /\ items' = items \union {r}
  /\ UNCHANGED <<caseVars, status, moneyVars, madeVars, pc, canceller, faults>>

-----------------------------------------------------------------------------
(* The budget tables.                                                       *)

OfKind(k) == {r \in Runs : kindOf[r] = k}
Amount(S) == FoldFunctionOnSet(+, 0, cost, S)

(* SUM over usage records plus SUM over reserved reservations: a run that   *)
(* has both counts twice, and a redelivered run counts its own rows.        *)
SpentOrHeld_UsageOnly(k) == Amount({r \in OfKind(k) : usage[r] > 0})  \* mutant
SpentOrHeld(k) ==
  Amount({r \in OfKind(k) : usage[r] > 0}) + Amount({r \in OfKind(k) : reservation[r] = "reserved"})

OverRunLimit(r) == cost[r] > PerRunLimit
OverDailyLimit(r) == SpentOrHeld(kindOf[r]) + cost[r] > DailyLimit

ReleaseHeld(r) ==
  reservation' = [reservation EXCEPT ![r] = IF @ = "reserved" THEN "released" ELSE @]

(* A failing run: the reservation is released, an error of that statement   *)
(* is swallowed, and the row is written by id.                              *)
FailRelease(r) ==
  /\ pc[r] = "release"
  /\ \/ ReleaseHeld(r) /\ UNCHANGED faults
     \/ UNCHANGED reservation /\ Fault
  /\ Goto(r, "fail")
  /\ UNCHANGED <<caseVars, status, job, items, usage, madeVars, canceller>>
Fail(r) ==
  /\ pc[r] = "fail"
  /\ SetStatus(r, "failed") /\ End(r, "failed")
  /\ UNCHANGED <<caseVars, items, moneyVars, madeVars, canceller, faults>>

(* A run whose worker saw cancel_requested. *)
CancelRelease(r) ==
  /\ pc[r] = "cancel_release"
  /\ \/ ReleaseHeld(r) /\ UNCHANGED faults
     \/ kindOf[r] = "render" /\ UNCHANGED reservation /\ Fault
  /\ Goto(r, "cancel")
  /\ UNCHANGED <<caseVars, status, job, items, usage, madeVars, canceller>>
Cancel(r) ==
  /\ pc[r] = "cancel"
  /\ SetStatus(r, "cancelled") /\ End(r, "succeeded")
  /\ UNCHANGED <<caseVars, items, moneyVars, madeVars, canceller, faults>>

-----------------------------------------------------------------------------
(* The cancel route of speech and render runs. It acts on the status it     *)
(* read first; every write is by id.                                        *)

CancelStep(r, at, next) ==
  /\ canceller[r].pc = at
  /\ canceller' = [canceller EXCEPT ![r].pc = next]
  /\ UNCHANGED <<caseVars, moneyVars, madeVars, pc>>

CancelRead(r) ==
  /\ kindOf[r] # "translation"
  /\ status[r] \in {"queued", "running"}
  /\ canceller[r].pc = "idle"
  /\ canceller' = [canceller EXCEPT ![r] = [pc |-> "mark", saw |-> status[r]]]
  /\ UNCHANGED <<caseVars, status, job, items, moneyVars, madeVars, pc, faults>>

CancelMark(r) ==
  /\ CancelStep(r, "mark", "job")
  /\ SetStatus(r, "cancel_requested")
  /\ UNCHANGED <<job, items, faults>>

CancelJob(r) ==
  /\ CancelStep(r, "job", "remove")
  /\ job' = [job EXCEPT ![r] = IF @ \in {"queued", "running"} THEN "cancel_requested" ELSE @]
  /\ UNCHANGED <<status, items, faults>>

Concludes(r) == canceller[r].saw = "queued"

(* BullMQ refuses to remove an item a worker has taken. *)
CancelRemove_Ignored(r) ==  \* mutant
  /\ items' = items \ {r}
  /\ CancelStep(r, "remove", IF Concludes(r) THEN "settle" ELSE "idle")
  /\ UNCHANGED <<status, job, faults>>
CancelRemove(r) ==
  \/ /\ r \in items
     /\ items' = items \ {r}
     /\ CancelStep(r, "remove", IF Concludes(r) THEN "settle" ELSE "idle")
     /\ UNCHANGED <<status, job, faults>>
  \/ /\ r \notin items /\ CancelStep(r, "remove", "idle")
     /\ UNCHANGED <<status, job, items, faults>>
  \/ /\ r \in items /\ Fault /\ CancelStep(r, "remove", "idle")
     /\ UNCHANGED <<status, job, items>>

CancelSettle(r) ==
  /\ CancelStep(r, "settle", "settle_job")
  /\ SetStatus(r, "cancelled")
  /\ UNCHANGED <<job, items, faults>>
CancelSettleJob(r) ==
  /\ CancelStep(r, "settle_job", "idle")
  /\ job' = [job EXCEPT ![r] = "cancelled"]
  /\ UNCHANGED <<status, items, faults>>

CancelRoute(r) == CancelRead(r) \/ CancelMark(r) \/ CancelJob(r) \/ CancelRemove(r)
                  \/ CancelSettle(r) \/ CancelSettleJob(r)
Queue(r) == Claim(r) \/ Start(r) \/ QueryError(r) \/ Crash(r) \/ Recover(r)
Ending(r) == FailRelease(r) \/ Fail(r) \/ CancelRelease(r) \/ Cancel(r)

Init ==
  /\ \E c \in Cases : kindOf = c.kind /\ cost = c.cost /\ from = c.from /\ key = c.key
  /\ status = [r \in Runs |-> "none"]
  /\ job = [r \in Runs |-> "none"]
  /\ items = {}
  /\ reservation = [r \in Runs |-> "none"]
  /\ usage = [r \in Runs |-> 0]
  /\ cues = [r \in Runs |-> [c \in Cues |-> "none"]]
  /\ product = [r \in Runs |-> "none"]
  /\ quality = [r \in Runs |-> "none"]
  /\ review = [r \in Runs |-> FALSE]
  /\ pc = [r \in Runs |-> "idle"]
  /\ canceller = [r \in Runs |-> [pc |-> "idle", saw |-> "queued"]]
  /\ faults = 0
=============================================================================
