--------------------------- MODULE AssetIngestion ---------------------------
(***************************************************************************)
(* One uploaded asset: its row, its upload session, its object in storage,  *)
(* the routes that initiate, complete and delete it, and the ingest handler *)
(* that validates it. The client may write the object as long as it holds a *)
(* presigned URL, and every replay of the initiate request hands out a new  *)
(* one: the object may change under every reader.                           *)
(***************************************************************************)
EXTENDS WorkerJobs

CONSTANTS
  Ingests,    \* the asset_ingest jobs, one for each completion
  Contents,   \* what the client may upload
  WrongSize,  \* contents that have not the announced size
  Dangerous,  \* contents whose detected type is dangerous and not the declared one
  Scenarios,  \* bound of the model: which requests are made at all
  MaxPuts     \* bound of the model: uploads

ASSUME IngestionAssumption ==
  Ingests \subseteq Jobs /\ WrongSize \subseteq Contents /\ Dangerous \subseteq Contents
  /\ MaxPuts \in Nat /\ "absent" \notin Contents
  /\ Scenarios \subseteq SUBSET (Jobs \union {"delete", "cancel"})

VARIABLES
  asset,      \* the row of assets
  session,    \* asset_upload_sessions.status
  object,     \* what storage holds under the asset's key
  puts,
  completer,  \* the complete requests
  deleter,    \* the delete request
  canceller,  \* the cancel request of a job
  wanted      \* the scenario: completions and operations, a deletion, cancellations

assetVars == <<asset, session, object, puts>>
routeVars == <<completer, deleter, canceller, wanted>>

AssetStatus == {"none", "pending_upload", "uploaded", "validating", "available",
                "rejected", "deleting", "deleted"}

SetAsset(s) == asset' = [asset EXCEPT !.status = s, !.version = @ + 1]
Step(j, at) == pc[j] = at

-----------------------------------------------------------------------------
(* The routes. None of them looks at the asset's status when it writes.     *)

InitiateUpload ==
  /\ asset.status = "none"
  /\ asset' = [asset EXCEPT !.status = "pending_upload"]
  /\ session' = "active"
  /\ UNCHANGED <<object, puts, routeVars, workVars>>

PutObject(c) ==
  /\ session # "none" /\ puts < MaxPuts
  /\ object' = c /\ puts' = puts + 1
  /\ UNCHANGED <<asset, session, routeVars, workVars>>

CompleteRead(i) ==
  /\ i \in wanted /\ completer[i] = "idle" /\ session = "active"
  /\ \/ completer' = [completer EXCEPT ![i] = "stat"] /\ UNCHANGED session
     \/ session' = "expired" /\ UNCHANGED completer
  /\ UNCHANGED <<asset, object, puts, deleter, canceller, wanted, workVars>>

CompleteStat(i) ==
  /\ completer[i] = "stat"
  /\ completer' = [completer EXCEPT ![i] =
       IF object \in Contents \ WrongSize THEN "record" ELSE "idle"]
  /\ UNCHANGED <<assetVars, deleter, canceller, wanted, workVars>>

CompleteRecord(i) ==
  /\ completer[i] = "record"
  /\ completer' = [completer EXCEPT ![i] = "done"]
  /\ SetAsset("uploaded") /\ session' = "completed"
  /\ CreateJob(i)
  /\ UNCHANGED <<object, puts, deleter, canceller, wanted>>

DeleteRead ==
  /\ "delete" \in wanted /\ deleter = "idle" /\ asset.status # "none" /\ ~asset.deleted
  /\ deleter' = "mark"
  /\ UNCHANGED <<assetVars, completer, canceller, wanted, workVars>>
DeleteMark ==
  /\ deleter = "mark" /\ deleter' = "remove"
  /\ SetAsset("deleting")
  /\ UNCHANGED <<session, object, puts, completer, canceller, wanted, workVars>>
DeleteObject ==  \* an error of the storage is swallowed
  /\ deleter = "remove" /\ deleter' = "finish"
  /\ \/ object' = "absent" /\ UNCHANGED faults
     \/ UNCHANGED object /\ Fault
  /\ UNCHANGED <<asset, session, puts, completer, canceller, wanted, jobVars, runVars>>
DeleteFinish ==
  /\ deleter = "finish" /\ deleter' = "idle"
  /\ asset' = [asset EXCEPT !.status = "deleted", !.version = @ + 1, !.deleted = TRUE]
  /\ UNCHANGED <<session, object, puts, completer, canceller, wanted, workVars>>

(* The cancel route of the general jobs. *)
CancelJobRead(i) ==
  /\ "cancel" \in wanted /\ canceller[i] = "idle"
  /\ \/ job[i] = "queued" /\ canceller' = [canceller EXCEPT ![i] = "saw_queued"]
     \/ job[i] \in {"claimed", "running", "retry_wait"}
        /\ canceller' = [canceller EXCEPT ![i] = "saw_running"]
  /\ UNCHANGED <<assetVars, completer, deleter, wanted, workVars>>
CancelJobWrite(i) ==
  /\ canceller[i] \in {"saw_queued", "saw_running"}
  /\ SetJob(i, IF canceller[i] = "saw_queued" THEN "cancelled" ELSE "cancel_requested")
  /\ asked' = asked \union {i}
  /\ canceller' = [canceller EXCEPT ![i] = "idle"]
  /\ UNCHANGED <<assetVars, completer, deleter, wanted, items, runVars, faults>>

-----------------------------------------------------------------------------
(* The handler handleAssetIngest. Its writes of the row ask for the version *)
(* it knows; a rejection does not look whether it wrote.                    *)

Ingesting(i, at) ==
  /\ Step(i, at)
  /\ UNCHANGED <<session, object, puts, routeVars>>

IngestLoad(i) ==
  /\ Ingesting(i, "load")
  /\ \/ /\ asset.status = "uploaded"
        /\ GotoWith(i, "validate", [version |-> asset.version])
        /\ UNCHANGED jobVars
     \/ asset.status # "uploaded" /\ End(i, "failed")
  /\ UNCHANGED <<asset, faults>>

Current(i) == asset.version = local[i].version

IngestValidate(i) ==
  /\ Ingesting(i, "validate")
  /\ \/ /\ Current(i)
        /\ SetAsset("validating")
        /\ GotoWith(i, "stat", [version |-> asset.version + 1])
        /\ UNCHANGED jobVars
     \/ ~Current(i) /\ End(i, "retry_wait") /\ UNCHANGED asset
  /\ UNCHANGED faults

(* A look at cancel_requested_at comes before each of these; a request that  *)
(* comes after the look is not seen.                                        *)
IngestCancelled(i) ==
  /\ \E at \in {"stat", "hash", "finish"} : Ingesting(i, at)
  /\ i \in asked /\ End(i, "failed")
  /\ UNCHANGED <<asset, faults>>

(* The size is that of the object now, ... *)
IngestStat(i) ==
  /\ Ingesting(i, "stat")
  /\ \/ object = "absent" /\ End(i, "failed")
     \/ object \in WrongSize /\ Goto(i, "reject") /\ UNCHANGED jobVars
     \/ object \in Contents \ WrongSize /\ Goto(i, "hash") /\ UNCHANGED jobVars
  /\ UNCHANGED <<asset, faults>>

(* ... checksum and type are those of the object that is streamed later. *)
IngestHash(i) ==
  /\ Ingesting(i, "hash")
  /\ \/ object = "absent" /\ End(i, "failed")
     \/ object \in Dangerous /\ Goto(i, "reject") /\ UNCHANGED jobVars
     \/ /\ object \in Contents \ Dangerous
        /\ GotoWith(i, "finish", [version |-> local[i].version, checksum |-> object])
        /\ UNCHANGED jobVars
  /\ UNCHANGED <<asset, faults>>

IngestReject(i) ==
  /\ Ingesting(i, "reject")
  /\ IF Current(i) THEN SetAsset("rejected") ELSE UNCHANGED asset
  /\ End(i, "succeeded")
  /\ UNCHANGED faults

IngestFinish_AnyVersion(i) ==  \* mutant
  /\ Ingesting(i, "finish")
  /\ asset' = [asset EXCEPT !.status = "available", !.version = @ + 1,
                            !.checksum = local[i].checksum]
  /\ End(i, "succeeded")
  /\ UNCHANGED faults
IngestFinish(i) ==
  /\ Ingesting(i, "finish")
  /\ \/ /\ Current(i)
        /\ asset' = [asset EXCEPT !.status = "available", !.version = @ + 1,
                                  !.checksum = local[i].checksum]
        /\ End(i, "succeeded")
     \/ ~Current(i) /\ End(i, "retry_wait") /\ UNCHANGED asset
  /\ UNCHANGED faults

IngestError(i) ==  \* a failed statement, or storage that does not answer
  /\ \E at \in {"load", "validate", "stat", "hash", "reject", "finish"} : Ingesting(i, at)
  /\ Fault /\ End(i, "retry_wait")
  /\ UNCHANGED asset

Ingest(i) ==
  IngestLoad(i) \/ IngestValidate(i) \/ IngestCancelled(i) \/ IngestStat(i) \/ IngestHash(i)
  \/ IngestReject(i) \/ IngestFinish(i) \/ IngestError(i)

AssetInit ==
  /\ asset = [status |-> "none", version |-> 1, checksum |-> "absent", deleted |-> FALSE]
  /\ session = "none" /\ object = "absent" /\ puts = 0
  /\ completer = [i \in Ingests |-> "idle"]
  /\ deleter = "idle"
  /\ canceller = [j \in Jobs |-> "idle"]
  /\ wanted \in Scenarios

AssetRow == [status : AssetStatus, version : Nat, checksum : Contents \union {"absent"},
             deleted : BOOLEAN]
AssetTypeOK ==
  /\ asset \in AssetRow /\ session \in {"none", "active", "completed", "expired"}
  /\ object \in Contents \union {"absent"} /\ puts \in 0..MaxPuts
RouteTypeOK ==
  /\ completer \in [Ingests -> {"idle", "stat", "record", "done"}]
  /\ deleter \in {"idle", "mark", "remove", "finish"}
  /\ canceller \in [Jobs -> {"idle", "saw_queued", "saw_running", "mark", "cancel_job"}]
  /\ wanted \in Scenarios
=============================================================================
