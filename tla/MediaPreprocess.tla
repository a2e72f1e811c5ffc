-------------------------- MODULE MediaPreprocess --------------------------
(***************************************************************************)
(* Media operations over the asset, all with one profile: the preprocess    *)
(* and cancel routes and the handler handleMediaPreprocess, which derives a *)
(* new asset. The derived row is named by the content it was made from: its *)
(* object key is a function of the output.                                  *)
(***************************************************************************)
EXTENDS AssetIngestion

CONSTANT
  Ops  \* the media_preprocess jobs, one for each operation

ASSUME OpsAssumption == Ops \subseteq Jobs /\ Ops \cap Ingests = {}

VARIABLES
  op,        \* media_operations.status
  derived,   \* the derived asset's row: the content it was made from
  requester  \* the preprocess requests

opVars == <<op, derived, requester>>
vars == <<workVars, assetVars, routeVars, opVars>>

OpStatus == {"none", "queued", "running", "succeeded", "failed", "cancel_requested", "cancelled"}
SetOp(o, s) == op' = [op EXCEPT ![o] = s]

(* idx_media_operations_idempotency: one active operation of a source and   *)
(* profile. It refuses a second one whatever statement makes it.            *)
Active == {"queued", "running", "succeeded"}
NoOtherActive(o) == \A p \in Ops \ {o} : op[p] \notin Active

-----------------------------------------------------------------------------
RequestRead(o) ==
  /\ o \in wanted /\ requester[o] = "idle" /\ op[o] = "none"
  /\ asset.status = "available" /\ ~asset.deleted
  /\ NoOtherActive(o)
  /\ requester' = [requester EXCEPT ![o] = "insert"]
  /\ UNCHANGED <<op, derived, workVars, assetVars, routeVars>>
RequestInsert(o) ==
  /\ requester[o] = "insert"
  /\ requester' = [requester EXCEPT ![o] = "idle"]
  /\ \/ NoOtherActive(o) /\ SetOp(o, "queued") /\ CreateJob(o)
     \/ ~NoOtherActive(o) /\ UNCHANGED <<op, workVars>>
  /\ UNCHANGED <<derived, assetVars, routeVars>>

(* The cancel route acts on the status it read; the operation is written by *)
(* id, its job only in some statuses.                                       *)
CancelOpStep(o, at, next) ==
  /\ canceller[o] = at
  /\ canceller' = [canceller EXCEPT ![o] = next]
  /\ UNCHANGED <<items, runVars, faults, assetVars, completer, deleter, wanted, derived, requester>>

CancelOpRead(o) ==
  /\ "cancel" \in wanted
  /\ CancelOpStep(o, "idle", IF op[o] = "running" THEN "saw_running" ELSE "saw_queued")
  /\ op[o] \in {"queued", "running"}
  /\ UNCHANGED <<job, asked, op>>
CancelRunningJob(o) ==
  /\ CancelOpStep(o, "saw_running", "mark")
  /\ IF job[o] \in {"running", "claimed"}
       THEN SetJob(o, "cancel_requested") /\ asked' = asked \union {o}
       ELSE UNCHANGED <<job, asked>>
  /\ UNCHANGED op
CancelRunningOp(o) ==
  /\ CancelOpStep(o, "mark", "idle")
  /\ SetOp(o, "cancel_requested")
  /\ UNCHANGED <<job, asked>>
CancelQueuedOp(o) ==
  /\ CancelOpStep(o, "saw_queued", "cancel_job")
  /\ SetOp(o, "cancelled")
  /\ UNCHANGED <<job, asked>>
CancelQueuedJob(o) ==
  /\ CancelOpStep(o, "cancel_job", "idle")
  /\ IF job[o] \in {"queued", "claimed"}
       THEN SetJob(o, "cancelled") /\ asked' = asked \union {o}
       ELSE UNCHANGED <<job, asked>>
  /\ UNCHANGED op

CancelOp(o) == CancelOpRead(o) \/ CancelRunningJob(o) \/ CancelRunningOp(o)
               \/ CancelQueuedOp(o) \/ CancelQueuedJob(o)

-----------------------------------------------------------------------------
(* The handler. Whatever goes wrong ends in one catch block, which writes   *)
(* the operation by id: also when the operation had already succeeded.      *)

Processing(o, at) ==
  /\ Step(o, at)
  /\ UNCHANGED <<assetVars, routeVars, requester>>
Catch(o) == Goto(o, "catch") /\ UNCHANGED jobVars

LoadOp(o) ==
  /\ Processing(o, "load")
  /\ Goto(o, IF op[o] = "queued" THEN "source" ELSE "catch")
  /\ UNCHANGED <<op, derived, jobVars, faults>>

LoadSource(o) ==
  /\ Processing(o, "source")
  /\ IF asset.status = "available"
       THEN GotoWith(o, "begin", [checksum |-> asset.checksum])
       ELSE Goto(o, "catch")
  /\ UNCHANGED <<op, derived, jobVars, faults>>

CheckCancel(o) ==
  /\ \/ /\ Processing(o, "begin")
        /\ Goto(o, IF o \in asked THEN "drop" ELSE "run")
     \/ /\ Processing(o, "produced")
        /\ Goto(o, IF o \in asked THEN "drop" ELSE "store")
     \/ /\ Processing(o, "catch")
        /\ Goto(o, IF o \in asked THEN "drop" ELSE "fail")
  /\ UNCHANGED <<op, derived, jobVars, faults>>

RunOp(o) ==
  /\ Processing(o, "run")
  /\ \/ NoOtherActive(o) /\ SetOp(o, "running") /\ Goto(o, "download")
     \/ ~NoOtherActive(o) /\ Goto(o, "catch") /\ UNCHANGED op
  /\ UNCHANGED <<derived, jobVars, faults>>

Download_Unverified(o) ==  \* mutant
  /\ Processing(o, "download")
  /\ IF object # "absent"
       THEN GotoWith(o, "ffmpeg", [content |-> object])
       ELSE Goto(o, "catch")
  /\ UNCHANGED <<op, derived, jobVars, faults>>
Download(o) ==
  /\ Processing(o, "download")
  /\ IF object # "absent" /\ object = local[o].checksum
       THEN GotoWith(o, "ffmpeg", [content |-> object])
       ELSE Goto(o, "catch")
  /\ UNCHANGED <<op, derived, jobVars, faults>>

(* The tool produces an output, fails, or is killed for a cancellation. *)
RunTool(o) ==
  /\ Processing(o, "ffmpeg")
  /\ \/ \E l \in {"produced", "catch"} : Goto(o, l)
     \/ o \in asked /\ Goto(o, "drop")
  /\ UNCHANGED <<op, derived, jobVars, faults>>

(* The upload may fail; the row's object key is unique, and the row of an   *)
(* attempt that did not get further stays.                                  *)
StoreDerived(o) ==
  /\ Processing(o, "store")
  /\ \/ /\ \A p \in Ops : derived[p] # local[o].content
        /\ derived' = [derived EXCEPT ![o] = local[o].content]
        /\ Goto(o, "succeed")
     \/ Goto(o, "catch") /\ UNCHANGED derived
  /\ UNCHANGED <<op, jobVars, faults>>

SucceedOp(o) ==
  /\ Processing(o, "succeed")
  /\ \/ NoOtherActive(o) /\ SetOp(o, "succeeded") /\ Goto(o, "report") /\ UNCHANGED jobVars
     \/ ~NoOtherActive(o) /\ Catch(o) /\ UNCHANGED op
  /\ UNCHANGED <<derived, faults>>

ReportSuccess(o) ==
  /\ Processing(o, "report") /\ End(o, "succeeded")
  /\ UNCHANGED <<op, derived, faults>>

DropOp(o) ==
  /\ Processing(o, "drop")
  /\ SetOp(o, "cancelled") /\ End(o, "succeeded")
  /\ UNCHANGED <<derived, faults>>
FailOp(o) ==
  /\ Processing(o, "fail")
  /\ SetOp(o, "failed")
  /\ \E outcome \in {"failed", "retry_wait"} : End(o, outcome)
  /\ UNCHANGED <<derived, faults>>

(* A statement fails; in the catch block the error is swallowed. *)
OpError(o) ==
  /\ Fault
  /\ \/ /\ \E at \in {"load", "source", "run", "store", "succeed", "report"} : Processing(o, at)
        /\ Catch(o)
     \/ Processing(o, "drop") /\ End(o, "succeeded")
     \/ Processing(o, "fail") /\ \E outcome \in {"failed", "retry_wait"} : End(o, outcome)
  /\ UNCHANGED <<op, derived>>

Preprocess(o) ==
  LoadOp(o) \/ LoadSource(o) \/ CheckCancel(o) \/ RunOp(o) \/ Download(o) \/ RunTool(o)
  \/ StoreDerived(o) \/ SucceedOp(o) \/ ReportSuccess(o) \/ DropOp(o) \/ FailOp(o) \/ OpError(o)

-----------------------------------------------------------------------------
OpsTypeOK ==
  /\ op \in [Ops -> OpStatus]
  /\ derived \in [Ops -> Contents \union {"absent"}]
  /\ requester \in [Ops -> {"idle", "insert"}]

TypeOK == WorkTypeOK /\ AssetTypeOK /\ RouteTypeOK /\ OpsTypeOK

Init ==
  /\ WorkInit /\ AssetInit
  /\ op = [o \in Ops |-> "none"]
  /\ derived = [o \in Ops |-> "absent"]
  /\ requester = [o \in Ops |-> "idle"]

AssetRoutes ==
  \/ InitiateUpload \/ DeleteRead \/ DeleteMark \/ DeleteObject \/ DeleteFinish
  \/ \E c \in Contents : PutObject(c)
  \/ \E i \in Ingests : CompleteRead(i) \/ CompleteStat(i) \/ CompleteRecord(i)
                        \/ CancelJobRead(i) \/ CancelJobWrite(i)

(* Each step is of the asset or of an operation. *)
Next ==
  \/ (AssetRoutes \/ \E i \in Ingests : Ingest(i)) /\ UNCHANGED opVars
  \/ \E j \in Jobs : (Queue(j) \/ Crash(j)) /\ UNCHANGED <<assetVars, routeVars, opVars>>
  \/ \E o \in Ops : RequestRead(o) \/ RequestInsert(o) \/ CancelOp(o) \/ Preprocess(o)

Spec == Init /\ [][Next]_vars

-----------------------------------------------------------------------------
(* Properties.                                                              *)

(* The asset becomes available only out of the validation that is under     *)
(* way: an ingest that was overtaken by a second completion, by a deletion  *)
(* or by another ingest changes nothing (the version guards of              *)
(* asset-ingest.ts against the unguarded writes of the routes).             *)
AvailableOnlyValidated ==
  [][asset'.status = "available" /\ asset.status # "available" => asset.status = "validating"]_vars

(* No derived asset was made from a content the ingest would reject for its *)
(* type, although the object may change after its validation: the handler   *)
(* compares what it downloaded with the checksum the ingest computed.       *)
OnlyVerifiedProcessed == \A o \in Ops : derived[o] \notin Dangerous

(* An operation is answered as succeeded, now and to every later request of *)
(* its kind, only if its own derived asset exists.                          *)
SucceededHasProduct == \A o \in Ops : op[o] = "succeeded" => derived[o] # "absent"

(* The variables have their types, and what was produced is sound: no product *)
(* of a dangerous content, no success without its product.                   *)
ProductsInv == TypeOK /\ OnlyVerifiedProcessed /\ SucceededHasProduct
=============================================================================
