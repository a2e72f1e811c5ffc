--------------------------- MODULE SubtitleTracks ---------------------------
(***************************************************************************)
(* Subtitle tracks of one media asset: the attach and delete routes and the *)
(* handler handleSubtitleParse. A parse job's track carries the job's name; *)
(* Transcriptions makes the generated tracks. Only the unique index ties    *)
(* tracks together; a track's row is written by id, whatever its status.    *)
(***************************************************************************)
EXTENDS WorkerJobs

CONSTANTS
  Parses,    \* the subtitle_parse jobs, one for each attached track
  TrackKey,  \* (media, source, language, kind) of each job's track
  Batches    \* number of CUE_BATCH_SIZE batches of a file

ASSUME TracksAssumption ==
  Parses \subseteq Jobs /\ DOMAIN TrackKey = Jobs /\ Batches \in Nat \ {0}

VARIABLES
  track,    \* subtitle_tracks.status
  version,  \* subtitle_versions.status of its first version
  cues,     \* batches of subtitle_cues stored under it
  source    \* is the asset still there?

trackVars == <<track, version, cues>>

TrackStatus == {"none", "pending", "parsing", "ready", "invalid", "deleted"}

(* idx_subtitle_tracks_active_unique *)
KeyFree(j) == \A k \in Jobs \ {j} : TrackKey[k] = TrackKey[j] => track[k] \in {"none", "deleted"}
SetTrack(j, s) == track' = [track EXCEPT ![j] = s]

AttachTrack(j) ==
  /\ j \in Parses /\ track[j] = "none" /\ source
  /\ KeyFree(j)  \* else the existing track is answered
  /\ SetTrack(j, "pending") /\ CreateJob(j)
  /\ UNCHANGED <<version, cues, source>>

DeleteTrack(j) ==
  /\ track[j] \notin {"none", "deleted"}
  /\ SetTrack(j, "deleted")
  /\ UNCHANGED <<version, cues, source, workVars>>

DeleteAsset ==
  /\ source /\ source' = FALSE
  /\ UNCHANGED <<trackVars, workVars>>

-----------------------------------------------------------------------------
Parsing(j, at) == j \in Parses /\ pc[j] = at /\ UNCHANGED <<source, faults>>

ParseLoad(j) ==
  /\ Parsing(j, "load")
  /\ IF track[j] = "pending" THEN Goto(j, "begin") /\ UNCHANGED jobVars ELSE End(j, "failed")
  /\ UNCHANGED trackVars

(* A status written by id; the index may refuse it, when the track was      *)
(* deleted and attached again meanwhile.                                    *)
WriteTrack(j, s, next) ==
  \/ KeyFree(j) /\ SetTrack(j, s) /\ next
  \/ ~KeyFree(j) /\ End(j, "retry_wait") /\ UNCHANGED track

ParseBegin(j) ==
  /\ Parsing(j, "begin")
  /\ WriteTrack(j, "parsing", Goto(j, "read") /\ UNCHANGED jobVars)
  /\ UNCHANGED <<version, cues>>

(* The asset is loaded and downloaded, its format detected, its cues parsed. *)
ParseRead(j) ==
  /\ Parsing(j, "read")
  /\ \/ source /\ Goto(j, "version")
     \/ Goto(j, "invalid")
  /\ UNCHANGED <<trackVars, jobVars>>

Invalidate(j) ==
  /\ Parsing(j, "invalid")
  /\ WriteTrack(j, "invalid", End(j, "failed"))
  /\ UNCHANGED <<version, cues>>

CreateVersion(j) ==
  /\ Parsing(j, "version")
  /\ version' = [version EXCEPT ![j] = "processing"]
  /\ Goto(j, "cues")
  /\ UNCHANGED <<track, cues, jobVars>>

StoreCues_LastBatchLost(j) ==  \* mutant
  /\ Parsing(j, "cues")
  /\ cues' = [cues EXCEPT ![j] = @ + 1]
  /\ Goto(j, IF cues[j] + 2 >= Batches THEN "publish" ELSE "cues")
  /\ UNCHANGED <<track, version, jobVars>>
StoreCues(j) ==
  /\ Parsing(j, "cues")
  /\ cues' = [cues EXCEPT ![j] = @ + 1]
  /\ Goto(j, IF cues[j] + 1 = Batches THEN "publish" ELSE "cues")
  /\ UNCHANGED <<track, version, jobVars>>

PublishVersion(j) ==
  /\ Parsing(j, "publish")
  /\ version' = [version EXCEPT ![j] = "ready"]
  /\ Goto(j, "finish")
  /\ UNCHANGED <<track, cues, jobVars>>

PublishTrack(j) ==
  /\ Parsing(j, "finish")
  /\ WriteTrack(j, "ready", End(j, "succeeded"))
  /\ UNCHANGED <<version, cues>>

ParseError(j) ==
  /\ j \in Parses /\ pc[j] \notin {"idle", "claimed"}
  /\ Fault /\ End(j, "retry_wait")
  /\ UNCHANGED <<trackVars, source>>

Parse(j) ==
  ParseLoad(j) \/ ParseBegin(j) \/ ParseRead(j) \/ Invalidate(j) \/ CreateVersion(j)
  \/ StoreCues(j) \/ PublishVersion(j) \/ PublishTrack(j) \/ ParseError(j)

TrackInit ==
  /\ track = [j \in Jobs |-> "none"]
  /\ version = [j \in Jobs |-> "none"]
  /\ cues = [j \in Jobs |-> 0]
  /\ source = TRUE
=============================================================================
