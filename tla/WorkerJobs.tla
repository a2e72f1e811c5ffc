----------------------------- MODULE WorkerJobs -----------------------------
(***************************************************************************)
(* The general job of a handler, as far as the handler sees it: its row,    *)
(* its BullMQ item, the process that executes it and what that process      *)
(* remembers between two statements. Attempts are not counted: JobLifecycle *)
(* has them, and its NoDoubleRun lets a job be executed by one process at a *)
(* time. MediaPreprocess and Transcriptions add the handlers.               *)
(***************************************************************************)
EXTENDS Naturals, FiniteSets

CONSTANTS
  Jobs,
  MaxFaults  \* bound of the model: crashes, lost enqueues, failed awaits

ASSUME JobsAssumption == IsFiniteSet(Jobs) /\ MaxFaults \in Nat

VARIABLES
  job,     \* jobs.status
  asked,   \* jobs whose cancel_requested_at is set
  items,   \* jobs whose BullMQ item is waiting
  pc,      \* the statement the executing process is at
  local,   \* what it has read so far
  faults

jobVars == <<job, asked, items>>
runVars == <<pc, local>>
workVars == <<jobVars, runVars, faults>>

JobStatus == {"none", "queued", "claimed", "running", "retry_wait",
              "cancel_requested", "cancelled", "succeeded", "failed"}
Nothing == [read |-> "nothing"]

SetJob(j, s) == job' = [job EXCEPT ![j] = s]
Fault == faults < MaxFaults /\ faults' = faults + 1

(* A step of j's handler to the label l, and one that also remembers v. *)
Goto(j, l) == pc' = [pc EXCEPT ![j] = l] /\ UNCHANGED local
GotoWith(j, l, v) ==
  /\ pc' = [pc EXCEPT ![j] = l]
  /\ local' = [local EXCEPT ![j] = v]
Forget(j) == GotoWith(j, "idle", Nothing)

(* Inserted in the transaction of a request; the enqueue is best-effort. *)
CreateJob(j) ==
  /\ job[j] = "none" /\ SetJob(j, "queued")
  /\ \/ items' = items \union {j} /\ UNCHANGED faults
     \/ UNCHANGED items /\ Fault
  /\ UNCHANGED <<asked, runVars>>

Claim(j) ==
  /\ j \in items /\ pc[j] = "idle"
  /\ items' = items \ {j}
  /\ IF job[j] \in {"queued", "retry_wait"}
       THEN SetJob(j, "claimed") /\ Goto(j, "claimed")
       ELSE UNCHANGED <<job, runVars>>
  /\ UNCHANGED <<asked, faults>>

Start(j) ==
  /\ pc[j] = "claimed"
  /\ SetJob(j, IF job[j] = "claimed" THEN "running" ELSE job[j])
  /\ Goto(j, "load")
  /\ UNCHANGED <<asked, items, faults>>

(* The handler returns, throws a permanent error, or another one, which     *)
(* nothing delivers again.                                                  *)
End(j, outcome) ==
  /\ Forget(j)
  /\ SetJob(j, IF job[j] = "running" THEN outcome ELSE job[j])
  /\ UNCHANGED <<asked, items>>

Crash(j) ==
  /\ pc[j] # "idle" /\ Fault /\ Forget(j)
  /\ UNCHANGED jobVars
Recover(j) ==
  /\ pc[j] = "idle" /\ job[j] \in {"claimed", "running"}
  /\ SetJob(j, IF job[j] = "claimed" THEN "queued" ELSE "retry_wait")
  /\ items' = items \union {j}
  /\ UNCHANGED <<asked, runVars, faults>>

Queue(j) == Claim(j) \/ Start(j) \/ Recover(j)

WorkInit ==
  /\ job = [j \in Jobs |-> "none"]
  /\ asked = {} /\ items = {}
  /\ pc = [j \in Jobs |-> "idle"]
  /\ local = [j \in Jobs |-> Nothing]
  /\ faults = 0

WorkTypeOK ==
  /\ job \in [Jobs -> JobStatus] /\ asked \subseteq Jobs /\ items \subseteq Jobs
  /\ faults \in 0..MaxFaults
  /\ DOMAIN pc = Jobs /\ DOMAIN local = Jobs
  /\ \A j \in Jobs : pc[j] \in {"idle", "claimed"} => local[j] = Nothing
=============================================================================
