----------------------------- MODULE MediaProofs -----------------------------
(***************************************************************************)
(* Theorems of MediaPreprocess, for every number of completions, operations *)
(* and writes of the object, every set of contents and every scenario.      *)
(***************************************************************************)
EXTENDS MediaPreprocess, TLAPS

-----------------------------------------------------------------------------
(* Types.                                                                   *)
LEMMA TypesInit == Init => TypeOK
BY IngestionAssumption, OpsAssumption, JobsAssumption
DEF Init, WorkInit, AssetInit, TypeOK, WorkTypeOK, AssetTypeOK, RouteTypeOK, OpsTypeOK, AssetRow,
    JobStatus, AssetStatus, OpStatus, Nothing

LEMMA FaultOk ==
  ASSUME WorkTypeOK, Fault \/ UNCHANGED faults PROVE faults' \in 0..MaxFaults
BY JobsAssumption DEF Fault, WorkTypeOK

(* Steps of an execution. *)
LEMMA GotoOk ==
  ASSUME WorkTypeOK, NEW j \in Jobs, NEW l, l \notin {"idle", "claimed"}, NEW v,
         Goto(j, l) \/ GotoWith(j, l, v), UNCHANGED jobVars, Fault \/ UNCHANGED faults
  PROVE  WorkTypeOK'
BY FaultOk DEF WorkTypeOK, Goto, GotoWith, jobVars

LEMMA EndOk ==
  ASSUME WorkTypeOK, NEW j \in Jobs, NEW outcome \in JobStatus, End(j, outcome),
         Fault \/ UNCHANGED faults
  PROVE  WorkTypeOK'
BY FaultOk DEF WorkTypeOK, End, Forget, GotoWith, SetJob

(* Steps of the requests. *)
LEMMA JobWritten ==
  ASSUME WorkTypeOK, NEW j \in Jobs, NEW s \in JobStatus, SetJob(j, s) \/ UNCHANGED job,
         items' = items \union {j} \/ UNCHANGED items, asked' = asked \union {j} \/ UNCHANGED asked,
         UNCHANGED runVars, Fault \/ UNCHANGED faults
  PROVE  WorkTypeOK'
BY FaultOk DEF WorkTypeOK, SetJob, runVars

LEMMA RowWritten ==
  ASSUME asset \in AssetRow, NEW s \in AssetStatus, NEW c \in Contents \union {"absent"}
  PROVE  /\ [asset EXCEPT !.status = s] \in AssetRow
         /\ [asset EXCEPT !.status = s, !.version = @ + 1] \in AssetRow
         /\ [asset EXCEPT !.status = s, !.version = @ + 1, !.deleted = TRUE] \in AssetRow
         /\ [asset EXCEPT !.status = s, !.version = @ + 1, !.checksum = c] \in AssetRow
<1>1. asset.version + 1 \in Nat
  BY DEF AssetRow
<1> QED BY <1>1 DEF AssetRow

-----------------------------------------------------------------------------
(* What an execution has read is what it claims to know.  An ingest past    *)
(* its validation that still has the row's version is the one validation    *)
(* under way, for every other writer counts the version on; the checksum it *)
(* is about to store, and the checksum and the content an operation works   *)
(* with, are those of a content that is not dangerous.                      *)
Validated == {"stat", "hash", "reject", "finish"}

IngestFits(at, known, row) ==
  /\ at \in Validated \union {"validate"} =>
       known.version \in Nat /\ known.version <= row.version /\ row.status # "none"
  /\ at \in Validated /\ row.version = known.version => row.status = "validating"
  /\ at = "finish" => known.checksum \in Contents \ Dangerous

OpFits(at, known, status, product) ==
  /\ at \in {"begin", "run", "download"} => known.checksum \notin Dangerous
  /\ at \in {"ffmpeg", "produced", "store"} => known.content \in Contents \ Dangerous
  /\ at = "succeed" \/ status = "succeeded" => product # "absent"
  /\ product \notin Dangerous

MediaInv ==
  /\ TypeOK
  /\ asset.checksum \notin Dangerous
  /\ \A i \in Ingests : IngestFits(pc[i], local[i], asset)
  /\ \A o \in Ops : OpFits(pc[o], local[o], op[o], derived[o])

LEMMA MediaInit == Init => MediaInv
<1> SUFFICES ASSUME Init PROVE MediaInv
  OBVIOUS
<1>1. \A i \in Ingests : IngestFits(pc[i], local[i], asset)
  BY IngestionAssumption DEF Init, WorkInit, IngestFits, Validated
<1>2. \A o \in Ops : OpFits(pc[o], local[o], op[o], derived[o])
  BY OpsAssumption, IngestionAssumption DEF Init, WorkInit, OpFits
<1> QED BY <1>1, <1>2, TypesInit, IngestionAssumption DEF Init, AssetInit, MediaInv

(* At most j's execution moves, at most the row is written. *)
Moves(j) == \A k \in Jobs \ {j} : pc'[k] = pc[k] /\ local'[k] = local[k]
RowMoves ==
  \/ asset' = asset
  \/ /\ asset'.version = asset.version + 1 /\ asset'.status # "none"
     /\ asset'.checksum \notin Dangerous

LEMMA RowGrows ==
  ASSUME MediaInv, RowMoves
  PROVE  /\ \A at, known : IngestFits(at, known, asset) => IngestFits(at, known, asset')
         /\ asset'.checksum \notin Dangerous
<1>1. asset.version \in Nat
  BY DEF MediaInv, TypeOK, AssetTypeOK, AssetRow
<1> QED BY <1>1 DEF MediaInv, RowMoves, IngestFits

LEMMA RouteMove ==
  ASSUME MediaInv, TypeOK', RowMoves, UNCHANGED <<runVars, opVars>>
  PROVE  MediaInv'
BY RowGrows DEF MediaInv, runVars, opVars

LEMMA IngestMove ==
  ASSUME MediaInv, TypeOK', RowMoves, UNCHANGED opVars, NEW i \in Ingests, Moves(i),
         IngestFits(pc'[i], local'[i], asset')
  PROVE  MediaInv'
BY RowGrows, OpsAssumption, IngestionAssumption DEF MediaInv, opVars, Moves

LEMMA OpMove ==
  ASSUME MediaInv, TypeOK', UNCHANGED asset, NEW o \in Ops, Moves(o),
         \A p \in Ops \ {o} : op'[p] = op[p] /\ derived'[p] = derived[p],
         OpFits(pc'[o], local'[o], op'[o], derived'[o])
  PROVE  MediaInv'
BY OpsAssumption, IngestionAssumption DEF MediaInv, Moves

LEMMA ExecutionMoves ==
  ASSUME TypeOK, NEW j \in Jobs, NEW l, NEW v, NEW outcome,
         Goto(j, l) \/ GotoWith(j, l, v) \/ End(j, outcome) \/ UNCHANGED runVars
  PROVE  Moves(j)
BY DEF TypeOK, WorkTypeOK, Goto, GotoWith, End, Forget, Moves, runVars

-----------------------------------------------------------------------------
(* The routes of the asset: each write of the row counts its version on,    *)
(* and none of them makes it available.                                     *)
LEMMA RoutesKeep ==
  ASSUME MediaInv, AssetRoutes, UNCHANGED opVars
  PROVE  MediaInv' /\ (asset'.status = "available" => asset.status = "available")
<1> DEFINE Claimed == asset'.status = "available" => asset.status = "available"
<1> USE DEF opVars, assetVars, routeVars, workVars, jobVars, runVars
<1>0. /\ WorkTypeOK /\ AssetTypeOK /\ RouteTypeOK /\ OpsTypeOK /\ OpsTypeOK' /\ asset \in AssetRow
      /\ Ingests \subseteq Jobs /\ asset.checksum \notin Dangerous
  BY IngestionAssumption DEF MediaInv, TypeOK, AssetTypeOK, OpsTypeOK
<1>s. /\ {"pending_upload", "uploaded", "deleting", "deleted"} \subseteq AssetStatus
      /\ {"queued", "cancelled", "cancel_requested"} \subseteq JobStatus
  BY DEF AssetStatus, JobStatus
<1>1. CASE InitiateUpload
  <2>1. TypeOK'
    BY <1>0, <1>s, <1>1, RowWritten, Zenon
    DEF InitiateUpload, TypeOK, WorkTypeOK, AssetTypeOK, RouteTypeOK
  <2>2. \A i \in Ingests : IngestFits(pc[i], local[i], asset')
    BY <1>1 DEF InitiateUpload, MediaInv, IngestFits
  <2>3. asset'.checksum = asset.checksum /\ asset'.status = "pending_upload"
    BY <1>0, <1>1 DEF InitiateUpload, AssetRow
  <2> QED BY <1>0, <1>1, <2>1, <2>2, <2>3 DEF InitiateUpload, MediaInv
<1>2. CASE DeleteRead
  <2>1. TypeOK'
    BY <1>0, <1>2 DEF DeleteRead, TypeOK, WorkTypeOK, AssetTypeOK, RouteTypeOK
  <2> QED BY <1>2, <2>1, RouteMove DEF DeleteRead, RowMoves
<1>3. CASE DeleteMark
  <2>1. TypeOK'
    BY <1>0, <1>s, <1>3, RowWritten DEF DeleteMark, SetAsset, TypeOK, WorkTypeOK, AssetTypeOK, RouteTypeOK
  <2>2. RowMoves /\ asset'.status = "deleting"
    BY <1>0, <1>3 DEF DeleteMark, SetAsset, RowMoves, AssetRow
  <2> QED BY <1>3, <2>1, <2>2, RouteMove DEF DeleteMark
<1>4. CASE DeleteObject
  <2>1. TypeOK'
    BY <1>0, <1>4, FaultOk DEF DeleteObject, TypeOK, WorkTypeOK, AssetTypeOK, RouteTypeOK
  <2> QED BY <1>4, <2>1, RouteMove DEF DeleteObject, RowMoves
<1>5. CASE DeleteFinish
  <2>1. TypeOK'
    BY <1>0, <1>s, <1>5, RowWritten DEF DeleteFinish, TypeOK, WorkTypeOK, AssetTypeOK, RouteTypeOK
  <2>2. RowMoves /\ asset'.status = "deleted"
    BY <1>0, <1>5 DEF DeleteFinish, RowMoves, AssetRow
  <2> QED BY <1>5, <2>1, <2>2, RouteMove DEF DeleteFinish
<1>6. ASSUME NEW c \in Contents, PutObject(c) PROVE MediaInv' /\ Claimed
  <2>1. TypeOK'
    BY <1>0, <1>6, IngestionAssumption DEF PutObject, TypeOK, WorkTypeOK, AssetTypeOK, RouteTypeOK
  <2> QED BY <1>6, <2>1, RouteMove DEF PutObject, RowMoves
<1>7. ASSUME NEW i \in Ingests, CompleteRead(i) \/ CompleteStat(i) PROVE MediaInv' /\ Claimed
  <2>1. TypeOK'
    BY <1>0, <1>7 DEF CompleteRead, CompleteStat, TypeOK, WorkTypeOK, AssetTypeOK, RouteTypeOK
  <2> QED BY <1>7, <2>1, RouteMove DEF CompleteRead, CompleteStat, RowMoves
<1>8. ASSUME NEW i \in Ingests, CompleteRecord(i) PROVE MediaInv' /\ Claimed
  <2>1. WorkTypeOK' /\ UNCHANGED runVars
    BY <1>0, <1>s, <1>8, JobWritten DEF CompleteRecord, CreateJob
  <2>2. AssetTypeOK' /\ RouteTypeOK'
    BY <1>0, <1>s, <1>8, RowWritten DEF CompleteRecord, SetAsset, AssetTypeOK, RouteTypeOK
  <2>3. RowMoves /\ asset'.status = "uploaded"
    BY <1>0, <1>8 DEF CompleteRecord, SetAsset, RowMoves, AssetRow
  <2> QED BY <1>0, <2>1, <2>2, <2>3, RouteMove DEF TypeOK
<1>9. ASSUME NEW i \in Ingests, CancelJobRead(i) \/ CancelJobWrite(i) PROVE MediaInv' /\ Claimed
  <2>1. WorkTypeOK'
    <3>1. CASE CancelJobRead(i)
      BY <1>0, <3>1 DEF CancelJobRead, WorkTypeOK
    <3>2. CASE CancelJobWrite(i)
      BY <1>0, <1>s, <3>2, JobWritten DEF CancelJobWrite
    <3> QED BY <1>9, <3>1, <3>2
  <2>2. AssetTypeOK' /\ RouteTypeOK' /\ UNCHANGED asset /\ UNCHANGED runVars
    BY <1>0, <1>9 DEF CancelJobRead, CancelJobWrite, AssetTypeOK, RouteTypeOK
  <2> QED BY <1>0, <2>1, <2>2, RouteMove DEF TypeOK, RowMoves
<1> QED BY <1>1, <1>2, <1>3, <1>4, <1>5, <1>6, <1>7, <1>8, <1>9 DEF AssetRoutes

(* The handler of the ingest. *)
LEMMA IngestKeeps ==
  ASSUME MediaInv, NEW i \in Ingests, Ingest(i), UNCHANGED opVars
  PROVE  /\ MediaInv'
         /\ asset'.status = "available" /\ asset.status # "available" => asset.status = "validating"
<1> DEFINE Claimed ==
      asset'.status = "available" /\ asset.status # "available" => asset.status = "validating"
<1> USE DEF Ingesting, Step
<1>0. /\ WorkTypeOK /\ AssetTypeOK /\ RouteTypeOK /\ OpsTypeOK' /\ asset \in AssetRow
      /\ i \in Jobs /\ DOMAIN pc = Jobs /\ DOMAIN local = Jobs
      /\ asset.checksum \notin Dangerous /\ IngestFits(pc[i], local[i], asset)
  BY IngestionAssumption DEF MediaInv, TypeOK, WorkTypeOK, AssetTypeOK, OpsTypeOK, opVars
<1>s. /\ {"validating", "rejected", "available"} \subseteq AssetStatus
      /\ {"failed", "retry_wait", "succeeded"} \subseteq JobStatus
  BY DEF AssetStatus, JobStatus
(* What ends and leaves the row alone. *)
<1>e. ASSUME NEW outcome \in JobStatus, End(i, outcome), UNCHANGED asset,
             UNCHANGED <<session, object, puts, routeVars>>, Fault \/ UNCHANGED faults
      PROVE  MediaInv' /\ Claimed
  <2>1. WorkTypeOK' /\ Moves(i) /\ pc'[i] = "idle"
    BY <1>0, <1>e, EndOk, ExecutionMoves DEF End, Forget, GotoWith, MediaInv
  <2>2. AssetTypeOK' /\ RouteTypeOK'
    BY <1>0, <1>e DEF AssetTypeOK, RouteTypeOK, routeVars
  <2>3. IngestFits(pc'[i], local'[i], asset')
    BY <2>1 DEF IngestFits, Validated
  <2> QED BY <1>0, <1>e, <2>1, <2>2, <2>3, IngestMove DEF TypeOK, RowMoves
(* What goes on and leaves the row alone. *)
<1>g. ASSUME NEW l, l \notin {"idle", "claimed"}, NEW v, (Goto(i, l) /\ v = local[i]) \/ GotoWith(i, l, v),
             UNCHANGED asset, UNCHANGED <<session, object, puts, routeVars>>, UNCHANGED jobVars,
             UNCHANGED faults, IngestFits(l, v, asset)
      PROVE  MediaInv' /\ Claimed
  <2>1. WorkTypeOK' /\ Moves(i)
    BY <1>0, <1>g, GotoOk, ExecutionMoves DEF MediaInv
  <2>2. AssetTypeOK' /\ RouteTypeOK'
    BY <1>0, <1>g DEF AssetTypeOK, RouteTypeOK, routeVars
  <2>3. pc'[i] = l /\ local'[i] = v
    BY <1>0, <1>g DEF Goto, GotoWith
  <2> QED BY <1>0, <1>g, <2>1, <2>2, <2>3, IngestMove DEF TypeOK, RowMoves
<1>1. CASE IngestLoad(i)
  <2>1. CASE asset.status = "uploaded"
    <3>1. IngestFits("validate", [version |-> asset.version], asset)
      BY <1>0, <2>1 DEF IngestFits, Validated, AssetRow
    <3> QED BY <1>1, <2>1, <3>1, <1>g DEF IngestLoad
  <2>2. CASE asset.status # "uploaded"
    BY <1>1, <2>2, <1>e, <1>s DEF IngestLoad
  <2> QED BY <2>1, <2>2
<1>2. CASE IngestValidate(i)
  <2>1. CASE Current(i)
    <3> DEFINE v == [version |-> asset.version + 1]
    <3>0. /\ SetAsset("validating") /\ GotoWith(i, "stat", v)
          /\ UNCHANGED jobVars /\ UNCHANGED faults /\ UNCHANGED <<session, object, puts, routeVars>>
      BY <1>2, <2>1 DEF IngestValidate
    <3>1. WorkTypeOK' /\ Moves(i)
      BY <1>0, <3>0, GotoOk, ExecutionMoves DEF MediaInv
    <3>2. AssetTypeOK' /\ RouteTypeOK'
      BY <1>0, <1>s, <3>0, RowWritten DEF SetAsset, AssetTypeOK, RouteTypeOK, routeVars
    <3>3. RowMoves /\ asset'.status = "validating" /\ asset'.version = asset.version + 1
          /\ asset.version \in Nat
      BY <1>0, <3>0 DEF SetAsset, RowMoves, AssetRow
    <3>4. pc'[i] = "stat" /\ local'[i].version = asset.version + 1
      BY <1>0, <3>0 DEF GotoWith
    <3>5. IngestFits(pc'[i], local'[i], asset')
      BY <3>3, <3>4 DEF IngestFits, Validated
    <3> QED BY <1>0, <3>1, <3>2, <3>3, <3>5, IngestMove DEF TypeOK
  <2>2. CASE ~Current(i)
    BY <1>2, <2>2, <1>e, <1>s DEF IngestValidate
  <2> QED BY <2>1, <2>2
<1>3. CASE IngestCancelled(i)
  BY <1>3, <1>e, <1>s DEF IngestCancelled
<1>4. CASE IngestStat(i)
  <2>1. pc[i] = "stat" => IngestFits("reject", local[i], asset) /\ IngestFits("hash", local[i], asset)
    BY <1>0 DEF IngestFits, Validated
  <2> QED BY <1>4, <2>1, <1>e, <1>g, <1>s DEF IngestStat
<1>5. CASE IngestHash(i)
  <2>1. pc[i] = "hash" => IngestFits("reject", local[i], asset)
    BY <1>0 DEF IngestFits, Validated
  <2>2. ASSUME pc[i] = "hash", object \in Contents \ Dangerous
        PROVE  IngestFits("finish", [version |-> local[i].version, checksum |-> object], asset)
    BY <1>0, <2>2 DEF IngestFits, Validated
  <2> QED BY <1>5, <2>1, <2>2, <1>e, <1>g, <1>s DEF IngestHash
<1>6. CASE IngestReject(i)
  <2>1. CASE Current(i)
    <3>0. /\ SetAsset("rejected") /\ End(i, "succeeded")
          /\ UNCHANGED faults /\ UNCHANGED <<session, object, puts, routeVars>>
      BY <1>6, <2>1 DEF IngestReject
    <3>1. WorkTypeOK' /\ Moves(i) /\ pc'[i] = "idle"
      BY <1>0, <1>s, <3>0, EndOk, ExecutionMoves DEF MediaInv, End, Forget, GotoWith
    <3>2. AssetTypeOK' /\ RouteTypeOK'
      BY <1>0, <1>s, <3>0, RowWritten DEF SetAsset, AssetTypeOK, RouteTypeOK, routeVars
    <3>3. RowMoves /\ asset'.status = "rejected"
      BY <1>0, <3>0 DEF SetAsset, RowMoves, AssetRow
    <3>4. IngestFits(pc'[i], local'[i], asset')
      BY <3>1 DEF IngestFits, Validated
    <3> QED BY <1>0, <3>1, <3>2, <3>3, <3>4, IngestMove DEF TypeOK
  <2>2. CASE ~Current(i)
    BY <1>6, <2>2, <1>e, <1>s DEF IngestReject
  <2> QED BY <2>1, <2>2
<1>7. CASE IngestFinish(i)
  <2>1. CASE Current(i)
    <3>0. /\ asset' = [asset EXCEPT !.status = "available", !.version = @ + 1,
                                    !.checksum = local[i].checksum]
          /\ End(i, "succeeded") /\ pc[i] = "finish"
          /\ UNCHANGED faults /\ UNCHANGED <<session, object, puts, routeVars>>
      BY <1>7, <2>1 DEF IngestFinish
    <3>1. WorkTypeOK' /\ Moves(i) /\ pc'[i] = "idle"
      BY <1>0, <1>s, <3>0, EndOk, ExecutionMoves DEF MediaInv, End, Forget, GotoWith
    <3>2. local[i].checksum \in Contents \ Dangerous /\ asset.status = "validating"
      BY <1>0, <3>0, <2>1 DEF IngestFits, Validated, Current
    <3>3. AssetTypeOK' /\ RouteTypeOK'
      BY <1>0, <1>s, <3>0, <3>2, RowWritten DEF AssetTypeOK, RouteTypeOK, routeVars
    <3>4. RowMoves
      BY <1>0, <3>0, <3>2 DEF RowMoves, AssetRow
    <3>5. IngestFits(pc'[i], local'[i], asset')
      BY <3>1 DEF IngestFits, Validated
    <3> QED BY <1>0, <3>1, <3>2, <3>3, <3>4, <3>5, IngestMove DEF TypeOK
  <2>2. CASE ~Current(i)
    BY <1>7, <2>2, <1>e, <1>s DEF IngestFinish
  <2> QED BY <2>1, <2>2
<1>8. CASE IngestError(i)
  BY <1>8, <1>e, <1>s DEF IngestError
<1> QED BY <1>1, <1>2, <1>3, <1>4, <1>5, <1>6, <1>7, <1>8 DEF Ingest

(* Deliveries, crashes and the recovery know nothing of the asset. *)
LEMMA QueueKeeps ==
  ASSUME MediaInv, NEW j \in Jobs, Queue(j) \/ Crash(j), UNCHANGED <<assetVars, routeVars, opVars>>
  PROVE  MediaInv' /\ asset' = asset
<1>0. /\ WorkTypeOK /\ AssetTypeOK' /\ RouteTypeOK' /\ OpsTypeOK' /\ UNCHANGED asset
  BY DEF MediaInv, TypeOK, AssetTypeOK, RouteTypeOK, OpsTypeOK, assetVars, routeVars, opVars
<1>1. /\ WorkTypeOK' /\ Moves(j)
      /\ (pc'[j] = pc[j] /\ local'[j] = local[j]) \/ pc'[j] \in {"idle", "claimed", "load"}
  <2> USE <1>0 DEF WorkTypeOK, Moves, Goto, GotoWith, Forget, SetJob, runVars, jobVars
  <2>1. CASE Claim(j)
    BY <2>1 DEF Claim, JobStatus
  <2>2. CASE Start(j)
    BY <2>2 DEF Start, JobStatus
  <2>3. CASE Recover(j)
    BY <2>3 DEF Recover, JobStatus
  <2>4. CASE Crash(j)
    BY <2>4, FaultOk DEF Crash
  <2> QED BY <2>1, <2>2, <2>3, <2>4 DEF Queue
<1>2. \A i \in Ingests : IngestFits(pc'[i], local'[i], asset')
  BY <1>0, <1>1, IngestionAssumption DEF MediaInv, Moves, IngestFits, Validated
<1>3. \A o \in Ops : OpFits(pc'[o], local'[o], op'[o], derived'[o])
  BY <1>0, <1>1, OpsAssumption DEF MediaInv, Moves, OpFits, opVars
<1> QED BY <1>0, <1>1, <1>2, <1>3 DEF MediaInv, TypeOK

(* The routes of an operation. *)
LEMMA RequestsKeep ==
  ASSUME MediaInv, NEW o \in Ops, RequestRead(o) \/ RequestInsert(o) \/ CancelOp(o)
  PROVE  MediaInv' /\ asset' = asset
<1>0. /\ WorkTypeOK /\ AssetTypeOK /\ RouteTypeOK /\ OpsTypeOK /\ o \in Jobs
      /\ OpFits(pc[o], local[o], op[o], derived[o])
  BY OpsAssumption DEF MediaInv, TypeOK
<1>s. /\ {"queued", "cancelled", "cancel_requested"} \subseteq OpStatus \cap JobStatus
  BY DEF OpStatus, JobStatus
<1>1. UNCHANGED assetVars /\ UNCHANGED runVars /\ UNCHANGED derived
  BY DEF RequestRead, RequestInsert, CreateJob, CancelOp, CancelOpStep, CancelOpRead,
         CancelRunningJob, CancelRunningOp, CancelQueuedOp, CancelQueuedJob, workVars, runVars
<1>2. WorkTypeOK'
  <2>1. \E s \in JobStatus :
          /\ SetJob(o, s) \/ UNCHANGED job
          /\ items' = items \union {o} \/ UNCHANGED items
          /\ asked' = asked \union {o} \/ UNCHANGED asked
          /\ Fault \/ UNCHANGED faults
    BY <1>s DEF RequestRead, RequestInsert, CreateJob, CancelOp, CancelOpStep, CancelOpRead,
         CancelRunningJob, CancelRunningOp, CancelQueuedOp, CancelQueuedJob, workVars, jobVars
  <2> QED BY <1>0, <1>1, <2>1, JobWritten
<1>3. AssetTypeOK' /\ RouteTypeOK'
  BY <1>0, <1>1 DEF AssetTypeOK, RouteTypeOK, assetVars, routeVars, RequestRead, RequestInsert,
         CancelOp, CancelOpStep, CancelOpRead, CancelRunningJob, CancelRunningOp, CancelQueuedOp,
         CancelQueuedJob
<1>4. /\ op' = op \/ \E s \in {"queued", "cancelled", "cancel_requested"} : SetOp(o, s)
      /\ requester' = requester \/ \E a \in {"idle", "insert"} : requester' = [requester EXCEPT ![o] = a]
  BY DEF RequestRead, RequestInsert, CancelOp, CancelOpStep, CancelOpRead,
         CancelRunningJob, CancelRunningOp, CancelQueuedOp, CancelQueuedJob
<1>5. OpsTypeOK'
  BY <1>0, <1>s, <1>1, <1>4 DEF OpsTypeOK, SetOp
<1>6. /\ \A p \in Ops \ {o} : op'[p] = op[p]
      /\ op'[o] = op[o] \/ op'[o] # "succeeded"
  BY <1>0, <1>4 DEF OpsTypeOK, SetOp
<1>7. OpFits(pc'[o], local'[o], op'[o], derived'[o])
  BY <1>0, <1>1, <1>6 DEF OpFits, runVars
<1> QED BY <1>1, <1>2, <1>3, <1>5, <1>6, <1>7, OpMove DEF TypeOK, Moves, runVars, assetVars

(* The handler of the operation. *)
LEMMA PreprocessKeeps ==
  ASSUME MediaInv, NEW o \in Ops, Preprocess(o)
  PROVE  MediaInv' /\ asset' = asset
<1> USE DEF Processing, Step
<1>0. /\ WorkTypeOK /\ AssetTypeOK /\ RouteTypeOK /\ OpsTypeOK /\ o \in Jobs
      /\ DOMAIN pc = Jobs /\ DOMAIN local = Jobs /\ asset.checksum \notin Dangerous
      /\ OpFits(pc[o], local[o], op[o], derived[o])
  BY OpsAssumption DEF MediaInv, TypeOK, WorkTypeOK
<1>s. /\ {"running", "succeeded", "failed", "cancelled"} \subseteq OpStatus
      /\ {"failed", "retry_wait", "succeeded"} \subseteq JobStatus
  BY DEF OpStatus, JobStatus
<1>f. UNCHANGED assetVars /\ UNCHANGED routeVars /\ UNCHANGED requester
  BY DEF Preprocess, LoadOp, LoadSource, CheckCancel, RunOp, Download, RunTool, StoreDerived,
         SucceedOp, ReportSuccess, DropOp, FailOp, OpError
(* What the operation may become, and the rest of the invariant. *)
<1>m. ASSUME WorkTypeOK', Moves(o), OpFits(pc'[o], local'[o], op'[o], derived'[o]),
             op' = op \/ \E s \in OpStatus : SetOp(o, s),
             derived' = derived \/ \E c \in Contents : derived' = [derived EXCEPT ![o] = c]
      PROVE  MediaInv' /\ asset' = asset
  <2>1. AssetTypeOK' /\ RouteTypeOK' /\ UNCHANGED asset
    BY <1>0, <1>f DEF AssetTypeOK, RouteTypeOK, assetVars, routeVars
  <2>2. OpsTypeOK'
    BY <1>0, <1>f, <1>m DEF OpsTypeOK, SetOp
  <2>3. \A p \in Ops \ {o} : op'[p] = op[p] /\ derived'[p] = derived[p]
    BY <1>0, <1>m DEF OpsTypeOK, SetOp
  <2> QED BY <1>m, <2>1, <2>2, <2>3, OpMove DEF TypeOK
<1>e. ASSUME NEW outcome \in JobStatus, End(o, outcome), Fault \/ UNCHANGED faults,
             UNCHANGED derived, UNCHANGED op \/ \E s \in OpStatus \ {"succeeded"} : SetOp(o, s)
      PROVE  MediaInv' /\ asset' = asset
  <2>1. WorkTypeOK' /\ Moves(o) /\ pc'[o] = "idle"
    BY <1>0, <1>e, EndOk, ExecutionMoves DEF End, Forget, GotoWith, MediaInv
  <2>2. op'[o] = op[o] \/ op'[o] # "succeeded"
    BY <1>0, <1>e DEF OpsTypeOK, SetOp
  <2>3. OpFits(pc'[o], local'[o], op'[o], derived'[o])
    BY <1>0, <1>e, <2>1, <2>2 DEF OpFits
  <2> QED BY <1>e, <1>m, <2>1, <2>3
<1>g. ASSUME NEW l, l \notin {"idle", "claimed"}, NEW v, (Goto(o, l) /\ v = local[o]) \/ GotoWith(o, l, v),
             UNCHANGED jobVars, Fault \/ UNCHANGED faults, OpFits(l, v, op'[o], derived'[o]),
             op' = op \/ \E s \in OpStatus : SetOp(o, s),
             derived' = derived \/ \E c \in Contents : derived' = [derived EXCEPT ![o] = c]
      PROVE  MediaInv' /\ asset' = asset
  <2>1. WorkTypeOK' /\ Moves(o)
    BY <1>0, <1>g, GotoOk, ExecutionMoves DEF MediaInv
  <2>2. pc'[o] = l /\ local'[o] = v
    BY <1>0, <1>g DEF Goto, GotoWith
  <2> QED BY <1>g, <1>m, <2>1, <2>2
(* The labels that claim nothing of what was read. *)
<1>l. \A l : l \notin {"begin", "run", "download", "ffmpeg", "produced", "store", "succeed"} =>
        OpFits(l, local[o], op[o], derived[o])
  BY <1>0 DEF OpFits
<1>1. CASE LoadOp(o)
  BY <1>1, <1>g, <1>l DEF LoadOp
<1>2. CASE LoadSource(o)
  <2>1. OpFits("begin", [checksum |-> asset.checksum], op[o], derived[o])
    BY <1>0 DEF OpFits
  <2> QED BY <1>2, <2>1, <1>g, <1>l DEF LoadSource
<1>3. CASE CheckCancel(o)
  <2>1. /\ pc[o] = "begin" => OpFits("run", local[o], op[o], derived[o])
        /\ pc[o] = "produced" => OpFits("store", local[o], op[o], derived[o])
    BY <1>0 DEF OpFits
  <2> QED BY <1>3, <2>1, <1>g, <1>l DEF CheckCancel
<1>4. CASE RunOp(o)
  <2>1. CASE NoOtherActive(o)
    <3>1. SetOp(o, "running") /\ Goto(o, "download") /\ UNCHANGED <<derived, jobVars, faults>> /\ pc[o] = "run"
      BY <1>4, <2>1 DEF RunOp
    <3>2. op'[o] = "running"
      BY <1>0, <3>1 DEF SetOp, OpsTypeOK
    <3>3. OpFits("download", local[o], op'[o], derived'[o])
      BY <1>0, <3>1, <3>2 DEF OpFits
    <3> QED BY <3>1, <3>3, <1>g, <1>s
  <2>2. CASE ~NoOtherActive(o)
    BY <1>4, <2>2, <1>g, <1>l DEF RunOp
  <2> QED BY <2>1, <2>2
<1>5. CASE Download(o)
  <2>1. ASSUME object # "absent", object = local[o].checksum, pc[o] = "download"
        PROVE  OpFits("ffmpeg", [content |-> object], op[o], derived[o])
    BY <1>0, <2>1 DEF OpFits, AssetTypeOK
  <2> QED BY <1>5, <2>1, <1>g, <1>l DEF Download
<1>6. CASE RunTool(o)
  <2>1. pc[o] = "ffmpeg" => OpFits("produced", local[o], op[o], derived[o])
    BY <1>0 DEF OpFits
  <2> QED BY <1>6, <2>1, <1>g, <1>l DEF RunTool
<1>7. CASE StoreDerived(o)
  <2>1. CASE derived' = [derived EXCEPT ![o] = local[o].content] /\ Goto(o, "succeed")
    <3>1. local[o].content \in Contents \ Dangerous
      BY <1>0, <1>7 DEF StoreDerived, OpFits
    <3>2. derived'[o] = local[o].content
      BY <1>0, <2>1 DEF OpsTypeOK
    <3>3. OpFits("succeed", local[o], op[o], derived'[o])
      BY <3>1, <3>2, IngestionAssumption DEF OpFits
    <3> QED BY <1>7, <2>1, <3>1, <3>3, <1>g DEF StoreDerived
  <2>2. CASE Goto(o, "catch") /\ UNCHANGED derived
    BY <1>7, <2>2, <1>g, <1>l DEF StoreDerived
  <2> QED BY <1>7, <2>1, <2>2 DEF StoreDerived
<1>8. CASE SucceedOp(o)
  <2>1. CASE SetOp(o, "succeeded") /\ Goto(o, "report") /\ UNCHANGED jobVars
    <3>1. op'[o] = "succeeded" /\ derived' = derived
      BY <1>0, <1>8, <2>1 DEF SetOp, OpsTypeOK, SucceedOp
    <3>2. OpFits("report", local[o], op'[o], derived'[o])
      BY <1>0, <1>8, <3>1 DEF OpFits, SucceedOp
    <3> QED BY <1>8, <2>1, <3>2, <1>g, <1>s DEF SucceedOp
  <2>2. CASE Catch(o) /\ UNCHANGED op
    BY <1>8, <2>2, <1>g, <1>l DEF SucceedOp, Catch
  <2> QED BY <1>8, <2>1, <2>2 DEF SucceedOp
<1>9. CASE ReportSuccess(o) \/ DropOp(o) \/ FailOp(o)
  BY <1>9, <1>e, <1>s DEF ReportSuccess, DropOp, FailOp
<1>10. CASE OpError(o)
  <2>1. CASE Catch(o)
    BY <1>10, <2>1, <1>g, <1>l DEF OpError, Catch
  <2>2. CASE \E outcome \in JobStatus : End(o, outcome)
    BY <1>10, <2>2, <1>e DEF OpError
  <2> QED BY <1>10, <2>1, <2>2, <1>s DEF OpError
<1> QED BY <1>1, <1>2, <1>3, <1>4, <1>5, <1>6, <1>7, <1>8, <1>9, <1>10 DEF Preprocess

-----------------------------------------------------------------------------
LEMMA MediaStep ==
  ASSUME MediaInv, [Next]_vars
  PROVE  /\ MediaInv'
         /\ asset'.status = "available" /\ asset.status # "available" => asset.status = "validating"
<1>1. CASE (AssetRoutes \/ \E i \in Ingests : Ingest(i)) /\ UNCHANGED opVars
  BY <1>1, RoutesKeep, IngestKeeps
<1>2. CASE \E j \in Jobs : (Queue(j) \/ Crash(j)) /\ UNCHANGED <<assetVars, routeVars, opVars>>
  BY <1>2, QueueKeeps
<1>3. CASE \E o \in Ops : RequestRead(o) \/ RequestInsert(o) \/ CancelOp(o) \/ Preprocess(o)
  BY <1>3, RequestsKeep, PreprocessKeeps
<1>4. CASE UNCHANGED vars
  BY <1>4 DEF MediaInv, TypeOK, WorkTypeOK, AssetTypeOK, RouteTypeOK, OpsTypeOK,
              vars, workVars, jobVars, runVars, assetVars, routeVars, opVars
<1> QED BY <1>1, <1>2, <1>3, <1>4 DEF Next

(* The invariant that the two theorems rest on. *)
LEMMA MediaCorrect == Spec => []MediaInv
<1>1. MediaInv /\ [Next]_vars => MediaInv'
  BY MediaStep
<1> QED BY MediaInit, <1>1, PTL DEF Spec

(* Whatever completions, deletions and other ingests overtake it, an ingest *)
(* makes the asset available only out of the validation that is under way.  *)
THEOREM ValidatedCorrect == Spec => AvailableOnlyValidated
<1>1. MediaInv /\ [Next]_vars =>
        [asset'.status = "available" /\ asset.status # "available" => asset.status = "validating"]_vars
  BY MediaStep
<1> QED BY MediaCorrect, <1>1, PTL DEF Spec, AvailableOnlyValidated

(* The variables have their types; no product was made from a content the   *)
(* ingest would reject, although the object is read a second time, and a    *)
(* succeeded operation has its product.                                     *)
THEOREM ProductsCorrect == Spec => []ProductsInv
<1>1. MediaInv => ProductsInv
  BY DEF MediaInv, OpFits, ProductsInv, OnlyVerifiedProcessed, SucceededHasProduct
<1> QED BY MediaCorrect, <1>1, PTL
=============================================================================
