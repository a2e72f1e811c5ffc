-------------------------- MODULE TranscriptProofs --------------------------
(***************************************************************************)
(* Theorems of Transcriptions, for every number of parse jobs, runs, keys,  *)
(* sessions and batches, every scenario and every number of faults.         *)
(***************************************************************************)
EXTENDS Transcriptions, InductionLemmas, FiniteSetTheorems, SequenceTheorems, TLAPS

(* The shape of what the handlers fill in: types TypeOK does not need. *)
Shape ==
  /\ DOMAIN cues = Jobs /\ \A j \in Parses : cues[j] \in Nat
  /\ DOMAIN segments = Transcripts /\ DOMAIN utterances = Transcripts
  /\ \A r \in Transcripts : \A i \in DOMAIN segments[r] :
       DOMAIN segments[r][i] = {"span", "status", "words"}
  /\ lock \in [Keys -> [by : Sessions \union {"none"}, holds : Nat]]
  /\ \A r \in Transcripts : pc[r] = "unlock" =>
       local[r].outcome \in {"succeeded", "failed", "retry_wait"}

(* Where the parse of a file is, and what it has stored by then. A handler  *)
(* that is delivered again begins only with a pending track, and no track   *)
(* becomes pending twice.                                                   *)
ParseFits(at, t, v, c) ==
  /\ at = "begin" => t # "none"
  /\ at \in {"read", "invalid", "version", "cues", "publish", "finish"} =>
       t \notin {"none", "pending"}
  /\ t \in {"none", "pending"} \/ at \in {"begin", "read", "version"} => v = "none" /\ c = 0
  /\ at = "cues" => v = "processing" /\ c < Batches
  /\ at = "publish" => v = "processing" /\ c = Batches
  /\ at = "finish" => v = "ready"
  /\ v = "ready" => c = Batches
  /\ t = "ready" => v = "ready"

(* The same for a run: it begins only while it is queued, which it is once. *)
Entering == {"media", "lock", "prepare"}
Making == {"segment", "insert", "transcribe", "provider", "next", "drop", "speak", "fail",
           "assemble", "utter", "track", "version"}
RunFits(at, s, t, v, c, n) ==
  /\ at \in Making \union {"cues", "publish", "finish", "succeed"} => s \notin {"none", "queued"}
  /\ at \in Making \union Entering \/ s \in {"none", "queued"} => v = "none"
  /\ at = "cues" => v = "processing"
  /\ at = "publish" => v = "processing" /\ c = n
  /\ at = "finish" => v = "ready"
  /\ v = "ready" => c = n
  /\ t = "ready" => v = "ready"

ParseOf(j) == ParseFits(pc[j], track[j], version[j], cues[j])
RunOf(r) == RunFits(pc[r], run[r], track[r], version[r], cues[r], Len(utterances[r]))

TranscriptInv ==
  /\ TypeOK /\ Shape
  /\ \A j \in Parses : ParseOf(j)
  /\ \A r \in Transcripts : RunOf(r)
  /\ \A j \in Jobs \ (Parses \union Transcripts) : track[j] = "none" /\ version[j] = "none"

LEMMA TranscriptInit == Init => TranscriptInv
<1> SUFFICES ASSUME Init PROVE TranscriptInv
  OBVIOUS
<1>0. \A r \in Transcripts : DOMAIN segments[r] = {}
  <2>1. DOMAIN <<>> = {}
    OBVIOUS
  <2> QED BY <2>1 DEF Init
<1>l. \A k \in Keys : lock[k].by = "none" /\ lock[k].holds = 0
  BY DEF Init, Free
<1>1. TypeOK
  <2>1. WorkTypeOK /\ pc \in [Jobs -> Pcs]
    BY JobsAssumption DEF Init, WorkInit, WorkTypeOK, JobStatus, Nothing, Pcs
  <2>2. /\ track \in [Jobs -> TrackStatus] /\ version \in [Jobs -> {"none", "processing", "ready"}]
        /\ \A j \in Parses : cues[j] \in 0..Batches
        /\ source \in BOOLEAN
    BY TracksAssumption DEF Init, TrackInit, TrackStatus
  <2>3. run \in [Transcripts -> RunStatus] /\ scene \in Scenarios
        /\ canceller \in [Transcripts -> {"idle", "saw_queued", "saw_working"}]
    BY DEF Init, RunStatus
  <2> QED BY <1>0, <1>l, <2>1, <2>2, <2>3 DEF TypeOK
<1>2. Shape
  <2>1. DOMAIN cues = Jobs /\ (\A j \in Parses : cues[j] \in Nat)
        /\ DOMAIN segments = Transcripts /\ DOMAIN utterances = Transcripts
    BY TracksAssumption DEF Init, TrackInit
  <2>2. lock \in [Keys -> [by : Sessions \union {"none"}, holds : Nat]]
    BY DEF Init, Free
  <2>3. \A r \in Transcripts : pc[r] # "unlock"
    BY TranscriptsAssumption DEF Init, WorkInit
  <2> QED BY <1>0, <2>1, <2>2, <2>3 DEF Shape
<1>3. /\ \A j \in Parses : ParseOf(j)
      /\ \A r \in Transcripts : RunOf(r)
  BY TracksAssumption, TranscriptsAssumption
  DEF Init, WorkInit, TrackInit, ParseOf, ParseFits, RunOf, RunFits, Making, Entering
<1> QED BY <1>1, <1>2, <1>3 DEF TranscriptInv, Init, TrackInit

LEMMA Complete == TranscriptInv => TracksInv
<1> SUFFICES ASSUME TranscriptInv, NEW j \in Jobs
             PROVE  /\ track[j] = "ready" => version[j] = "ready"
                    /\ version[j] = "ready" =>
                         cues[j] = IF j \in Parses THEN Batches ELSE Len(utterances[j])
  BY DEF TranscriptInv, TracksInv, ReadyTrackIsComplete
<1>1. CASE j \in Parses
  BY <1>1 DEF TranscriptInv, ParseOf, ParseFits
<1>2. CASE j \in Transcripts
  BY <1>2, TranscriptsAssumption DEF TranscriptInv, RunOf, RunFits
<1> QED BY <1>1, <1>2 DEF TranscriptInv

-----------------------------------------------------------------------------
(* Types, by the variables that move together. *)
WorkTypes ==
  /\ WorkTypeOK /\ pc \in [Jobs -> Pcs]
  /\ \A r \in Transcripts : pc[r] = "unlock" =>
       local[r].outcome \in {"succeeded", "failed", "retry_wait"}

TrackTypes ==
  /\ track \in [Jobs -> TrackStatus]
  /\ version \in [Jobs -> {"none", "processing", "ready"}]
  /\ DOMAIN cues = Jobs /\ \A j \in Parses : cues[j] \in 0..Batches
  /\ source \in BOOLEAN

RunTypes ==
  /\ scene \in Scenarios
  /\ run \in [Transcripts -> RunStatus]
  /\ canceller \in [Transcripts -> {"idle", "saw_queued", "saw_working"}]

SegmentTypes ==
  /\ DOMAIN segments = Transcripts /\ DOMAIN utterances = Transcripts
  /\ \A r \in Transcripts : \A i \in DOMAIN segments[r] :
       /\ DOMAIN segments[r][i] = {"span", "status", "words"}
       /\ segments[r][i].status \in {"pending", "succeeded", "failed"}

LockTypes ==
  /\ lock \in [Keys -> [by : Sessions \union {"none"}, holds : Nat]]
  /\ \A k \in Keys : lock[k].by = "none" <=> lock[k].holds = 0

LEMMA TypesMeet ==
  TypeOK /\ Shape <=> WorkTypes /\ TrackTypes /\ RunTypes /\ SegmentTypes /\ LockTypes
<1>1. ASSUME TrackTypes PROVE \A j \in Parses : cues[j] \in Nat
  BY <1>1, TracksAssumption DEF TrackTypes
<1>2. ASSUME LockTypes PROVE \A k \in Keys : lock[k].by \in Sessions \union {"none"}
  BY <1>2 DEF LockTypes
<1> QED
  BY <1>1, <1>2
  DEF TypeOK, Shape, WorkTypes, TrackTypes, RunTypes, SegmentTypes, LockTypes

LEMMA TypesMeetNext ==
  ASSUME WorkTypes', TrackTypes', RunTypes', SegmentTypes', LockTypes'
  PROVE  TypeOK' /\ Shape'
BY TypesMeet, PTL

LEMMA FaultOk ==
  ASSUME WorkTypeOK, Fault \/ UNCHANGED faults PROVE faults' \in 0..MaxFaults
BY JobsAssumption DEF Fault, WorkTypeOK

LEMMA GotoOk ==
  ASSUME WorkTypes, NEW j \in Jobs, NEW l \in Pcs \ {"idle", "claimed", "unlock"}, Goto(j, l),
         UNCHANGED jobVars, Fault \/ UNCHANGED faults
  PROVE  WorkTypes'
BY FaultOk DEF WorkTypes, WorkTypeOK, Goto, jobVars

LEMMA LeaveOk ==
  ASSUME WorkTypes, NEW j \in Jobs, NEW outcome \in {"succeeded", "failed", "retry_wait"},
         Leave(j, outcome), UNCHANGED jobVars, Fault \/ UNCHANGED faults
  PROVE  WorkTypes'
<1>1. WorkTypeOK' /\ pc' \in [Jobs -> Pcs]
  BY FaultOk DEF WorkTypes, WorkTypeOK, Leave, GotoWith, jobVars, Pcs
<1>2. \A r \in Transcripts : pc'[r] = "unlock" =>
        local'[r].outcome \in {"succeeded", "failed", "retry_wait"}
  BY TranscriptsAssumption DEF WorkTypes, WorkTypeOK, Leave, GotoWith
<1> QED BY <1>1, <1>2 DEF WorkTypes

LEMMA EndOk ==
  ASSUME WorkTypes, NEW j \in Jobs, NEW outcome \in JobStatus, End(j, outcome),
         Fault \/ UNCHANGED faults
  PROVE  WorkTypes'
<1>1. job' \in [Jobs -> JobStatus]
  BY DEF WorkTypes, WorkTypeOK, End, SetJob
<1>2. WorkTypeOK' /\ pc' \in [Jobs -> Pcs]
  BY <1>1, FaultOk DEF WorkTypes, WorkTypeOK, End, Forget, GotoWith, Pcs
<1> QED
  BY <1>2, TranscriptsAssumption DEF WorkTypes, WorkTypeOK, End, Forget, GotoWith

(* Rows and items of a job. *)
LEMMA RowOk ==
  ASSUME WorkTypes, NEW j \in Jobs, NEW s \in JobStatus, SetJob(j, s) \/ UNCHANGED job,
         items' = items \union {j} \/ UNCHANGED items, asked' = asked \union {j} \/ UNCHANGED asked,
         UNCHANGED runVars, Fault \/ UNCHANGED faults
  PROVE  WorkTypes'
BY FaultOk DEF WorkTypes, WorkTypeOK, SetJob, runVars

LEMMA QueueOk ==
  ASSUME WorkTypes, NEW j \in Jobs, Queue(j)
  PROVE  WorkTypes'
<1> USE DEF WorkTypes, WorkTypeOK, runVars
<1>1. CASE Claim(j)
  BY <1>1, TranscriptsAssumption DEF Claim, SetJob, JobStatus, Goto, Pcs
<1>2. CASE Start(j)
  BY <1>2, TranscriptsAssumption DEF Start, SetJob, JobStatus, Goto, Pcs
<1>3. CASE Recover(j)
  BY <1>3 DEF Recover, SetJob, JobStatus
<1> QED BY <1>1, <1>2, <1>3 DEF Queue

(* At most the job j, its track and its run move. *)
Moves(j) ==
  /\ \A k \in Jobs \ {j} : pc'[k] = pc[k] /\ track'[k] = track[k]
                           /\ version'[k] = version[k] /\ cues'[k] = cues[k]
  /\ \A r \in Transcripts \ {j} : run'[r] = run[r] /\ utterances'[r] = utterances[r]

LEMMA Moved ==
  ASSUME TranscriptInv, NEW j \in Jobs, Moves(j),
         WorkTypes', TrackTypes', RunTypes', SegmentTypes', LockTypes',
         j \in Parses => ParseOf(j)', j \in Transcripts => RunOf(j)',
         j \in Parses \union Transcripts \/ UNCHANGED <<track, version>>
  PROVE  TranscriptInv'
<1>1. \A k \in Parses : ParseOf(k)'
  BY TracksAssumption DEF TranscriptInv, Moves, ParseOf
<1>2. \A k \in Transcripts : RunOf(k)'
  BY TranscriptsAssumption DEF TranscriptInv, Moves, RunOf
<1>3. \A k \in Jobs \ (Parses \union Transcripts) : track'[k] = "none" /\ version'[k] = "none"
  BY DEF TranscriptInv, Moves
<1>4. TypeOK' /\ Shape'
  BY TypesMeetNext
<1> QED BY <1>1, <1>2, <1>3, <1>4 DEF TranscriptInv

(* What each group of variables keeps when it does not move. *)
LEMMA TypesStay ==
  ASSUME TranscriptInv
  PROVE  /\ WorkTypes /\ TrackTypes /\ RunTypes /\ SegmentTypes /\ LockTypes
         /\ UNCHANGED <<trackVars, source>> => TrackTypes'
         /\ UNCHANGED <<scene, run, canceller>> => RunTypes'
         /\ UNCHANGED <<segments, utterances>> => SegmentTypes'
         /\ UNCHANGED lock => LockTypes'
<1>1. WorkTypes /\ TrackTypes /\ RunTypes /\ SegmentTypes /\ LockTypes
  BY TypesMeet DEF TranscriptInv
<1> QED BY <1>1 DEF TrackTypes, RunTypes, SegmentTypes, LockTypes, trackVars

-----------------------------------------------------------------------------
(* The routes on tracks, the queue, the parse handler. *)
LEMMA TracksStep ==
  ASSUME TranscriptInv, Tracks, UNCHANGED <<scene, runsVars, canceller>>
  PROVE  TranscriptInv'
<1>0. /\ WorkTypes /\ TrackTypes /\ RunTypes' /\ SegmentTypes' /\ LockTypes'
      /\ UNCHANGED <<run, utterances>>
  BY TypesStay DEF runsVars
<1>d. DOMAIN pc = Jobs /\ DOMAIN track = Jobs /\ DOMAIN version = Jobs /\ DOMAIN cues = Jobs
  BY <1>0 DEF WorkTypes, TrackTypes
<1>1. CASE DeleteAsset
  <2>1. TrackTypes' /\ WorkTypes'
    BY <1>0, <1>1 DEF DeleteAsset, TrackTypes, WorkTypes, WorkTypeOK, trackVars, workVars,
       jobVars, runVars
  <2> QED
    BY <1>0, <1>1, <2>1, TypesMeetNext
    DEF DeleteAsset, TranscriptInv, ParseOf, RunOf, trackVars, workVars, runVars
<1>2. ASSUME NEW j \in Jobs, AttachTrack(j) PROVE TranscriptInv'
  <2>1. WorkTypes'
    BY <1>0, <1>2, RowOk DEF AttachTrack, CreateJob, JobStatus
  <2>2. TrackTypes'
    BY <1>0, <1>2 DEF AttachTrack, SetTrack, TrackTypes, TrackStatus
  <2>3. Moves(j) /\ j \in Parses /\ j \notin Transcripts
    BY <1>0, <1>2, <1>d, TranscriptsAssumption DEF AttachTrack, CreateJob, SetTrack, Moves, runVars
  <2>4. ParseOf(j)'
    BY <1>2, <1>d, <2>3
    DEF AttachTrack, CreateJob, SetTrack, TranscriptInv, ParseOf, ParseFits, runVars
  <2> QED BY <1>0, <2>1, <2>2, <2>3, <2>4, Moved
<1>3. ASSUME NEW j \in Jobs, DeleteTrack(j) PROVE TranscriptInv'
  <2>1. WorkTypes' /\ UNCHANGED pc
    BY <1>0, <1>3 DEF DeleteTrack, WorkTypes, WorkTypeOK, workVars, jobVars, runVars
  <2>2. TrackTypes'
    BY <1>0, <1>3 DEF DeleteTrack, SetTrack, TrackTypes, TrackStatus
  <2>3. Moves(j) /\ j \in Parses \union Transcripts
    BY <1>0, <1>3, <2>1 DEF DeleteTrack, SetTrack, Moves, TranscriptInv
  <2>4. j \in Parses => ParseOf(j)'
    BY <1>3, <1>d, <2>1 DEF DeleteTrack, SetTrack, TranscriptInv, ParseOf, ParseFits
  <2>5. j \in Transcripts => RunOf(j)'
    BY <1>0, <1>3, <1>d, <2>1 DEF DeleteTrack, SetTrack, TranscriptInv, RunOf, RunFits
  <2> QED BY <1>0, <2>1, <2>2, <2>3, <2>4, <2>5, Moved
<1>4. ASSUME NEW j \in Jobs, Queue(j), UNCHANGED <<trackVars, source>> PROVE TranscriptInv'
  <2>1. WorkTypes' /\ TrackTypes'
    BY <1>0, <1>4, QueueOk, TypesStay
  <2>2. /\ \A k \in Jobs \ {j} : pc'[k] = pc[k]
        /\ pc'[j] = pc[j] \/ pc'[j] \in {"claimed", "load"}
    BY <1>4, <1>d DEF Queue, Claim, Start, Recover, Goto, runVars
  <2>3. Moves(j) /\ UNCHANGED <<track, version, cues>>
    BY <1>0, <1>4, <2>2 DEF Moves, trackVars
  <2>4. j \in Parses => ParseOf(j)'
    BY <2>2, <2>3 DEF TranscriptInv, ParseOf, ParseFits
  <2>5. j \in Transcripts => RunOf(j)'
    BY <1>0, <2>2, <2>3 DEF TranscriptInv, RunOf, RunFits, Making, Entering
  <2> QED BY <1>0, <2>1, <2>3, <2>4, <2>5, Moved
<1>5. ASSUME NEW j \in Jobs, Parse(j) PROVE TranscriptInv'
  <2> USE DEF trackVars
  <2>0. j \in Parses /\ j \notin Transcripts /\ pc[j] \notin {"idle", "claimed"}
    BY <1>5, TranscriptsAssumption
    DEF Parse, ParseLoad, ParseBegin, ParseRead, Invalidate, CreateVersion, StoreCues,
        PublishVersion, PublishTrack, ParseError, Parsing
  <2>n. Batches \in Nat /\ cues[j] \in 0..Batches /\ ParseOf(j)
    BY <1>0, <2>0, TracksAssumption DEF TrackTypes, TranscriptInv
  (* The end of an execution, the track written or not. *)
  <2>e. ASSUME NEW outcome \in JobStatus, End(j, outcome), Fault \/ UNCHANGED faults,
               UNCHANGED <<version, cues, source>>,
               UNCHANGED track \/ \E s \in {"invalid", "ready"} :
                 SetTrack(j, s) /\ (s = "ready" => version[j] = "ready")
                 /\ track[j] \notin {"none", "pending"}
        PROVE  TranscriptInv'
    <3>1. WorkTypes'
      BY <1>0, <2>e, EndOk
    <3>2. TrackTypes'
      BY <1>0, <2>e DEF SetTrack, TrackTypes, TrackStatus
    <3>3. Moves(j) /\ pc'[j] = "idle"
      BY <1>0, <1>d, <2>e DEF End, Forget, GotoWith, SetTrack, Moves
    <3>4. ParseOf(j)'
      BY <1>d, <2>e, <2>n, <3>3 DEF SetTrack, ParseOf, ParseFits
    <3> QED BY <1>0, <2>0, <3>1, <3>2, <3>3, <3>4, Moved
  (* A step to another label. *)
  <2>g. ASSUME NEW l \in Pcs \ {"idle", "claimed", "unlock"}, Goto(j, l), UNCHANGED jobVars,
               UNCHANGED faults, TrackTypes', ParseFits(l, track'[j], version'[j], cues'[j]),
               \A k \in Jobs \ {j} : /\ track'[k] = track[k] /\ version'[k] = version[k]
                                    /\ cues'[k] = cues[k]
        PROVE  TranscriptInv'
    <3>1. WorkTypes'
      BY <1>0, <2>g, GotoOk
    <3>2. Moves(j) /\ pc'[j] = l
      BY <1>0, <1>d, <2>g DEF Goto, Moves
    <3> QED BY <1>0, <2>0, <2>g, <3>1, <3>2, Moved DEF ParseOf
  <2>1. CASE ParseLoad(j)
    BY <1>0, <1>5, <2>1, <2>e, <2>g, <2>n
    DEF ParseLoad, Parsing, ParseOf, ParseFits, Pcs, JobStatus, TrackTypes
  <2>2. CASE ParseBegin(j)
    BY <1>0, <1>d, <2>2, <2>e, <2>g, <2>n
    DEF ParseBegin, Parsing, WriteTrack, SetTrack, ParseOf, ParseFits, Pcs, JobStatus,
        TrackTypes, TrackStatus
  <2>3. CASE ParseRead(j)
    BY <1>0, <2>3, <2>g, <2>n DEF ParseRead, Parsing, ParseOf, ParseFits, Pcs, TrackTypes
  <2>4. CASE Invalidate(j)
    BY <1>0, <2>4, <2>e, <2>n DEF Invalidate, Parsing, WriteTrack, ParseOf, ParseFits, JobStatus
  <2>5. CASE CreateVersion(j)
    <3>1. TrackTypes' /\ version'[j] = "processing"
      BY <1>0, <2>5 DEF CreateVersion, Parsing, TrackTypes
    <3>2. ParseFits("cues", track'[j], version'[j], cues'[j])
      BY <2>5, <2>n, <3>1, TracksAssumption DEF CreateVersion, Parsing, ParseOf, ParseFits
    <3> QED BY <1>d, <2>5, <2>g, <3>1, <3>2 DEF CreateVersion, Parsing, Pcs
  <2>6. CASE StoreCues(j)
    BY <1>0, <1>d, <2>6, <2>g, <2>n
    DEF StoreCues, Parsing, ParseOf, ParseFits, Pcs, TrackTypes
  <2>7. CASE PublishVersion(j)
    BY <1>0, <1>d, <2>7, <2>g, <2>n
    DEF PublishVersion, Parsing, ParseOf, ParseFits, Pcs, TrackTypes
  <2>8. CASE PublishTrack(j)
    BY <1>0, <2>8, <2>e, <2>n DEF PublishTrack, Parsing, WriteTrack, ParseOf, ParseFits, JobStatus
  <2>9. CASE ParseError(j)
    BY <1>0, <2>9, <2>e DEF ParseError, JobStatus
  <2> QED
    BY <1>5, <2>1, <2>2, <2>3, <2>4, <2>5, <2>6, <2>7, <2>8, <2>9 DEF Parse
<1> QED BY <1>1, <1>2, <1>3, <1>4, <1>5 DEF Tracks

-----------------------------------------------------------------------------
(* The routes on runs, the pool of sessions, the death of the process. *)
LEMMA RoutesStep ==
  ASSUME TranscriptInv,
         \/ \E r \in Transcripts : RequestRun(r) \/ CancelRead(r) \/ CancelWrite(r)
         \/ \E s \in Sessions : CloseSession(s)
         \/ ProcessDies
  PROVE  TranscriptInv'
<1> USE DEF runsVars, trackVars
<1>0. WorkTypes /\ TrackTypes /\ RunTypes /\ SegmentTypes /\ LockTypes
  BY TypesStay
<1>d. DOMAIN pc = Jobs /\ DOMAIN run = Transcripts /\ Transcripts \subseteq Jobs
  BY <1>0, TranscriptsAssumption DEF WorkTypes, RunTypes
<1>1. ASSUME NEW r \in Transcripts, RequestRun(r) PROVE TranscriptInv'
  <2>1. WorkTypes' /\ UNCHANGED pc
    BY <1>0, <1>1, <1>d, RowOk DEF RequestRun, CreateJob, JobStatus, runVars
  <2>2. RunTypes'
    BY <1>0, <1>1 DEF RequestRun, SetRun, RunTypes, RunStatus
  <2>3. TrackTypes' /\ SegmentTypes' /\ LockTypes'
    BY <1>1, TypesStay DEF RequestRun
  <2>4. Moves(r) /\ r \notin Parses
    BY <1>1, <1>d, <2>1, TranscriptsAssumption DEF RequestRun, SetRun, Moves
  <2>5. RunOf(r)'
    BY <1>1, <1>d, <2>1 DEF RequestRun, SetRun, TranscriptInv, RunOf, RunFits
  <2> QED BY <1>d, <2>1, <2>2, <2>3, <2>4, <2>5, Moved
<1>2. ASSUME NEW r \in Transcripts, CancelRead(r) PROVE TranscriptInv'
  <2>1. WorkTypes' /\ UNCHANGED pc
    BY <1>0, <1>2 DEF CancelRead, WorkTypes, WorkTypeOK, workVars, jobVars, runVars
  <2>2. RunTypes'
    BY <1>0, <1>2 DEF CancelRead, RunTypes
  <2>3. TrackTypes' /\ SegmentTypes' /\ LockTypes'
    BY <1>2, TypesStay DEF CancelRead
  <2> QED
    BY <1>2, <2>1, <2>2, <2>3, TypesMeetNext DEF CancelRead, TranscriptInv, ParseOf, RunOf
<1>3. ASSUME NEW r \in Transcripts, CancelWrite(r) PROVE TranscriptInv'
  <2>s. PICK s \in {"cancelled", "cancel_requested"} :
          /\ SetRun(r, s)
          /\ \/ UNCHANGED <<job, asked>>
             \/ SetJob(r, s) /\ asked' = asked \union {r}
    BY <1>3 DEF CancelWrite
  <2>1. WorkTypes' /\ UNCHANGED pc
    BY <1>0, <1>3, <1>d, <2>s, RowOk DEF CancelWrite, JobStatus, runVars
  <2>2. RunTypes'
    BY <1>0, <1>3, <2>s DEF CancelWrite, SetRun, RunTypes, RunStatus
  <2>3. TrackTypes' /\ SegmentTypes' /\ LockTypes'
    BY <1>3, TypesStay DEF CancelWrite
  <2>4. Moves(r) /\ r \notin Parses
    BY <1>3, <1>d, <2>1, <2>s, TranscriptsAssumption DEF CancelWrite, SetRun, Moves
  <2>5. RunOf(r)'
    BY <1>3, <1>d, <2>1, <2>s DEF CancelWrite, SetRun, TranscriptInv, RunOf, RunFits
  <2> QED BY <1>d, <2>1, <2>2, <2>3, <2>4, <2>5, Moved
<1>l. \A k \in Keys : Free \in [by : Sessions \union {"none"}, holds : Nat]
  BY DEF Free
<1>4. ASSUME NEW s \in Sessions, CloseSession(s) PROVE TranscriptInv'
  <2>1. WorkTypes' /\ UNCHANGED pc
    BY <1>0, <1>4 DEF CloseSession, WorkTypes, WorkTypeOK, workVars, jobVars, runVars
  <2>2. LockTypes'
    BY <1>0, <1>4, <1>l DEF CloseSession, LockTypes, Free
  <2>3. TrackTypes' /\ RunTypes' /\ SegmentTypes'
    BY <1>4, TypesStay DEF CloseSession
  <2> QED
    BY <1>4, <2>1, <2>2, <2>3, TypesMeetNext DEF CloseSession, TranscriptInv, ParseOf, RunOf
<1>5. CASE ProcessDies
  <2>1. WorkTypes' /\ \A j \in Jobs : pc'[j] = "idle"
    BY <1>0, <1>5, <1>d, FaultOk DEF ProcessDies, WorkTypes, WorkTypeOK, jobVars, Pcs
  <2>2. LockTypes'
    BY <1>5, <1>l DEF ProcessDies, LockTypes, Free
  <2>3. TrackTypes' /\ RunTypes' /\ SegmentTypes'
    BY <1>5, TypesStay DEF ProcessDies
  <2>4. \A j \in Parses : ParseOf(j)'
    BY <1>5, <2>1, TracksAssumption DEF ProcessDies, TranscriptInv, ParseOf, ParseFits
  <2>5. \A r \in Transcripts : RunOf(r)'
    BY <1>5, <1>d, <2>1 DEF ProcessDies, TranscriptInv, RunOf, RunFits, Making, Entering
  <2> QED
    BY <1>5, <2>1, <2>2, <2>3, <2>4, <2>5, TypesMeetNext DEF ProcessDies, TranscriptInv
<1> QED BY <1>1, <1>2, <1>3, <1>4, <1>5

-----------------------------------------------------------------------------
(* The handler of a run goes on to a label, or to its finally block, or ends. *)
LEMMA RunGoes ==
  ASSUME TranscriptInv, NEW r \in Transcripts,
         NEW l \in Pcs \ {"idle", "claimed", "unlock"}, Goto(r, l), UNCHANGED <<jobVars, faults>>,
         TrackTypes', RunTypes', SegmentTypes', LockTypes',
         \A k \in Jobs \ {r} : /\ track'[k] = track[k] /\ version'[k] = version[k]
                               /\ cues'[k] = cues[k],
         \A q \in Transcripts \ {r} : run'[q] = run[q] /\ utterances'[q] = utterances[q],
         RunFits(l, run'[r], track'[r], version'[r], cues'[r], Len(utterances'[r]))
  PROVE  TranscriptInv'
<1>0. r \in Jobs /\ r \notin Parses /\ WorkTypes
  BY TypesStay, TranscriptsAssumption
<1>1. WorkTypes'
  BY <1>0, GotoOk
<1>2. Moves(r) /\ pc'[r] = l
  BY <1>0 DEF Goto, Moves, WorkTypes
<1>3. RunOf(r)'
  BY <1>2 DEF RunOf
<1> QED BY <1>0, <1>1, <1>2, <1>3, Moved

LEMMA RunStops ==
  ASSUME TranscriptInv, NEW r \in Transcripts, Fault \/ UNCHANGED faults,
         \/ UNCHANGED jobVars /\ \E o \in {"succeeded", "failed", "retry_wait"} : Leave(r, o)
         \/ \E o \in {"succeeded", "failed", "retry_wait"} : End(r, o),
         UNCHANGED run \/ \E s \in RunStatus \ {"none", "queued"} : SetRun(r, s),
         UNCHANGED <<trackVars, source, scene, segments, utterances, canceller>>, LockTypes'
  PROVE  TranscriptInv'
<1> USE DEF trackVars
<1>0. /\ r \in Jobs /\ r \notin Parses /\ WorkTypes /\ RunTypes
      /\ TrackTypes' /\ SegmentTypes' /\ DOMAIN pc = Jobs
  BY TypesStay, TranscriptsAssumption DEF WorkTypes
<1>1. WorkTypes' /\ pc'[r] \in {"unlock", "idle"} /\ \A k \in Jobs \ {r} : pc'[k] = pc[k]
  <2>1. ASSUME NEW o \in {"succeeded", "failed", "retry_wait"}, Leave(r, o), UNCHANGED jobVars
        PROVE  WorkTypes' /\ pc'[r] \in {"unlock", "idle"} /\ \A k \in Jobs \ {r} : pc'[k] = pc[k]
    <3>1. WorkTypes'
      BY <1>0, <2>1, LeaveOk
    <3> QED BY <1>0, <2>1, <3>1 DEF Leave, GotoWith
  <2>2. ASSUME NEW o \in {"succeeded", "failed", "retry_wait"}, End(r, o)
        PROVE  WorkTypes' /\ pc'[r] \in {"unlock", "idle"} /\ \A k \in Jobs \ {r} : pc'[k] = pc[k]
    <3>1. WorkTypes'
      BY <1>0, <2>2, EndOk DEF JobStatus
    <3> QED BY <1>0, <2>2, <3>1 DEF End, Forget, GotoWith
  <2> QED BY <2>1, <2>2
<1>2. RunTypes' /\ \A q \in Transcripts \ {r} : run'[q] = run[q]
  BY <1>0 DEF RunTypes, SetRun
<1>3. run'[r] = run[r] \/ run'[r] \notin {"none", "queued"}
  BY <1>0 DEF RunTypes, SetRun
<1>4. Moves(r)
  BY <1>1, <1>2 DEF Moves
<1>5. RunOf(r)'
  BY <1>1, <1>3 DEF TranscriptInv, RunOf, RunFits, Making, Entering
<1> QED BY <1>0, <1>1, <1>2, <1>4, <1>5, Moved

(* A status of the run is written on the way from label to label. *)
LEMMA RunAdvances ==
  ASSUME TranscriptInv, NEW r \in Transcripts, NEW s \in Working,
         NEW next \in Making \ {"track", "version"},
         pc[r] \in Making \union {"prepare"}, Advance(r, s, next),
         UNCHANGED <<source, scene, canceller, faults>>
  PROVE  TranscriptInv'
<1> USE DEF trackVars, OnlyRun
<1>0. RunTypes /\ TrackTypes' /\ SegmentTypes' /\ LockTypes' /\ s \in RunStatus \ {"none", "queued"}
  BY TypesStay DEF Advance, Working, RunStatus
<1>1. CASE SetRun(r, s) /\ Goto(r, next)
  <2>1. RunTypes' /\ run'[r] = s /\ \A q \in Transcripts \ {r} : run'[q] = run[q]
    BY <1>0, <1>1 DEF Advance, RunTypes, SetRun
  <2>2. RunFits(next, run'[r], track'[r], version'[r], cues'[r], Len(utterances'[r]))
    BY <1>0, <2>1 DEF Advance, TranscriptInv, RunOf, RunFits, Making, Entering
  <2>3. next \in Pcs \ {"idle", "claimed", "unlock"}
    BY DEF Making, Pcs
  <2> QED BY <1>0, <1>1, <2>1, <2>2, <2>3, RunGoes DEF Advance
<1>2. CASE Leave(r, "retry_wait") /\ UNCHANGED run
  BY <1>0, <1>2, RunStops DEF Advance
<1> QED BY <1>1, <1>2 DEF Advance

(* The steps that write nothing but the label, or end the execution. *)
LEMMA RunSteers ==
  ASSUME TranscriptInv, NEW r \in Transcripts,
         \/ LoadRun(r) \/ LoadMedia(r) \/ Prepare(r) \/ BeginSegments(r) \/ BeginTranscribing(r)
         \/ GetSttProvider(r) \/ FailRun(r) \/ NextSegment(r) \/ DropRun(r) \/ Assemble(r)
         \/ SucceedRun(r) \/ RunError(r)
  PROVE  TranscriptInv'
<1> USE DEF trackVars, runsVars, Step, AtLabel, OnlyRun
<1>0. WorkTypes /\ RunTypes /\ RunOf(r)
  BY TypesStay DEF TranscriptInv
<1>g. ASSUME NEW l \in Making \union Entering \union {"succeed"}, Goto(r, l),
             UNCHANGED <<jobVars, faults, trackVars, source, scene, canceller, run, segments,
                         utterances, lock>>,
             RunFits(l, run[r], track[r], version[r], cues[r], Len(utterances[r]))
      PROVE  TranscriptInv'
  <2>1. TrackTypes' /\ RunTypes' /\ SegmentTypes' /\ LockTypes'
    BY <1>g, TypesStay
  <2>2. l \in Pcs \ {"idle", "claimed", "unlock"}
    BY DEF Making, Entering, Pcs
  <2> QED BY <1>g, <2>1, <2>2, RunGoes
<1>s. ASSUME Fault \/ UNCHANGED faults,
             \/ UNCHANGED jobVars /\ \E o \in {"succeeded", "failed", "retry_wait"} : Leave(r, o)
             \/ \E o \in {"succeeded", "failed", "retry_wait"} : End(r, o),
             UNCHANGED run \/ \E s \in RunStatus \ {"none", "queued"} : SetRun(r, s),
             UNCHANGED <<trackVars, source, scene, segments, utterances, canceller, lock>>
      PROVE  TranscriptInv'
  <2>1. LockTypes'
    BY <1>s, TypesStay
  <2> QED BY <1>s, <2>1, RunStops
<1>1. CASE LoadRun(r)
  BY <1>0, <1>1, <1>g, <1>s DEF LoadRun, RunOf, RunFits, Making, Entering
<1>2. CASE LoadMedia(r)
  BY <1>0, <1>2, <1>g, <1>s DEF LoadMedia, RunOf, RunFits, Making, Entering, RunStatus
<1>3. CASE Prepare(r) \/ BeginSegments(r) \/ BeginTranscribing(r) \/ Assemble(r)
  BY <1>3, RunAdvances
  DEF Prepare, BeginSegments, BeginTranscribing, Assemble, Working, Making
<1>4. CASE GetSttProvider(r)
  BY <1>0, <1>4, <1>g DEF GetSttProvider, RunOf, RunFits, Making, Entering
<1>5. CASE FailRun(r) \/ DropRun(r)
  BY <1>5, <1>s DEF FailRun, DropRun, RunStatus
<1>6. CASE NextSegment(r)
  <2>1. PICK l \in {"assemble", "drop", "speak"} : Goto(r, l)
    BY <1>6 DEF NextSegment
  <2> QED BY <1>0, <1>6, <1>g, <2>1 DEF NextSegment, RunOf, RunFits, Making, Entering
<1>7. CASE SucceedRun(r)
  BY <1>7, <1>s DEF SucceedRun, RunStatus
<1>8. CASE RunError(r)
  BY <1>8, <1>s DEF RunError
<1> QED BY <1>1, <1>2, <1>3, <1>4, <1>5, <1>6, <1>7, <1>8

(* The lock is taken and released by whichever session the pool gives. *)
LEMMA RunLocks ==
  ASSUME TranscriptInv, NEW r \in Transcripts, TakeLock(r) \/ Unlock(r)
  PROVE  TranscriptInv'
<1> USE DEF trackVars, Step, AtLabel
<1> DEFINE key == RunKey[r]
<1>0. /\ WorkTypes /\ RunTypes /\ RunOf(r) /\ LockTypes /\ TrackTypes' /\ SegmentTypes'
      /\ key \in Keys /\ scene.pool \subseteq Sessions /\ "none" \notin Sessions
  <2>1. scene \in Scenarios
    BY TypesStay DEF RunTypes
  <2> QED
    BY <2>1, TypesStay, TranscriptsAssumption DEF TranscriptInv, TakeLock, Unlock, Keys
<1>1. /\ lock[key].by \in Sessions \union {"none"} /\ lock[key].holds \in Nat
      /\ lock[key].by = "none" <=> lock[key].holds = 0
  BY <1>0 DEF LockTypes
<1>2. ASSUME NEW l, lock' = [lock EXCEPT ![key] = l],
             l \in [by : Sessions \union {"none"}, holds : Nat], l.by = "none" <=> l.holds = 0
      PROVE  LockTypes'
  BY <1>0, <1>2 DEF LockTypes
<1>3. CASE TakeLock(r)
  <2>1. PICK s \in scene.pool :
          \/ /\ lock[key].by \in {"none", s}
             /\ lock' = [lock EXCEPT ![key] = [by |-> s, holds |-> lock[key].holds + 1]]
             /\ Goto(r, "prepare") /\ UNCHANGED jobVars
          \/ End(r, "retry_wait") /\ UNCHANGED lock
    BY <1>3 DEF TakeLock
  <2>2. CASE lock' = [lock EXCEPT ![key] = [by |-> s, holds |-> lock[key].holds + 1]]
             /\ Goto(r, "prepare") /\ UNCHANGED jobVars
    <3> DEFINE l == [by |-> s, holds |-> lock[key].holds + 1]
    <3>4. /\ s \in Sessions
          /\ l \in [by : Sessions \union {"none"}, holds : Nat]
          /\ l.by # "none" /\ l.holds # 0
      BY <1>0, <1>1
    <3>5. lock' = [lock EXCEPT ![key] = l]
      BY <2>2
    <3>1. LockTypes'
      <4> HIDE DEF l
      <4> QED BY <1>2, <3>4, <3>5
    <3>2. RunTypes'
      BY <1>3, TypesStay DEF TakeLock
    <3>3. RunFits("prepare", run[r], track[r], version[r], cues[r], Len(utterances[r]))
      BY <1>0, <1>3 DEF TakeLock, RunOf, RunFits, Making, Entering
    <3> QED BY <1>0, <1>3, <2>2, <3>1, <3>2, <3>3, RunGoes DEF TakeLock, Pcs
  <2>3. CASE End(r, "retry_wait") /\ UNCHANGED lock
    BY <1>3, <2>3, TypesStay, RunStops DEF TakeLock
  <2> QED BY <2>1, <2>2, <2>3
<1>4. CASE Unlock(r)
  <2>1. PICK s \in scene.pool :
          lock' = [lock EXCEPT ![key] =
                     IF lock[key].by # s THEN lock[key]
                     ELSE IF lock[key].holds = 1 THEN Free
                     ELSE [lock[key] EXCEPT !.holds = @ - 1]]
    BY <1>4 DEF Unlock
  <2>2. CASE lock[key].by # s
    <3>1. lock' = lock
      BY <1>0, <2>1, <2>2 DEF LockTypes
    <3> QED BY <1>0, <3>1 , <1>4, TypesStay, RunStops DEF Unlock, WorkTypes
  <2>3. CASE lock[key].by = s
    <3>1. lock[key].holds > 0
      BY <1>0, <1>1, <2>3
    <3>2. LockTypes'
      <4>1. CASE lock[key].holds = 1
        <5>1. Free \in [by : Sessions \union {"none"}, holds : Nat]
              /\ Free.by = "none" /\ Free.holds = 0
          BY DEF Free
        <5> QED BY <1>2, <2>1, <2>3, <4>1, <5>1
      <4>2. CASE lock[key].holds # 1
        <5> DEFINE l == [lock[key] EXCEPT !.holds = @ - 1]
        <5>1. lock[key] \in [by : Sessions \union {"none"}, holds : Nat]
          BY <1>0 DEF LockTypes
        <5>2. /\ l \in [by : Sessions \union {"none"}, holds : Nat]
              /\ l.by = lock[key].by /\ l.holds = lock[key].holds - 1
          BY <3>1, <5>1
        <5>3. l.by # "none" /\ l.holds # 0
          BY <1>0, <1>1, <2>3, <3>1, <4>2, <5>2
        <5>4. lock' = [lock EXCEPT ![key] = l]
          BY <2>1, <2>3, <4>2
        <5> HIDE DEF l
        <5> QED BY <1>2, <5>2, <5>3, <5>4
      <4> QED BY <4>1, <4>2
    <3> QED BY <1>0, <1>4, <3>2, RunStops DEF Unlock, WorkTypes
  <2> QED BY <2>2, <2>3
<1> QED BY <1>3, <1>4

(* The segments and the utterances are written. *)
LEMMA RunFills ==
  ASSUME TranscriptInv, NEW r \in Transcripts,
         InsertSegments(r) \/ TranscribeSegment(r) \/ InsertUtterances(r)
  PROVE  TranscriptInv'
<1> USE DEF trackVars, Step, AtLabel
<1>0. RunOf(r) /\ SegmentTypes /\ TrackTypes' /\ RunTypes' /\ LockTypes'
  BY TypesStay
  DEF TranscriptInv, InsertSegments, TranscribeSegment, InsertUtterances
<1>1. ASSUME NEW l \in {"transcribe", "next", "fail", "track"}, Goto(r, l), UNCHANGED jobVars,
             SegmentTypes', \A q \in Transcripts \ {r} : utterances'[q] = utterances[q],
             UNCHANGED <<trackVars, run, faults>>, pc[r] \in Making
      PROVE  TranscriptInv'
  <2>1. RunFits(l, run'[r], track'[r], version'[r], cues'[r], Len(utterances'[r]))
    BY <1>0, <1>1 DEF RunOf, RunFits, Making, Entering
  <2> QED BY <1>0, <1>1, <2>1, RunGoes DEF Pcs
<1>2. CASE InsertSegments(r)
  <2>1. SegmentTypes'
    BY <1>0, <1>2 DEF InsertSegments, SegmentTypes
  <2> QED BY <1>1, <1>2, <2>1 DEF InsertSegments, Making
<1>3. CASE TranscribeSegment(r)
  <2> DEFINE i == FirstPending(r)
  <2>1. ASSUME NEW w,
               segments' = [segments EXCEPT ![r][i].status = "succeeded", ![r][i].words = w]
        PROVE  SegmentTypes'
    BY <1>0, <1>3, <2>1 DEF TranscribeSegment, SegmentTypes
  <2>2. ASSUME segments' = [segments EXCEPT ![r][i].status = "failed"]
        PROVE  SegmentTypes'
    BY <1>0, <1>3, <2>2 DEF TranscribeSegment, SegmentTypes
  <2> QED BY <1>1, <1>3, <2>1, <2>2 DEF TranscribeSegment, Making
<1>4. CASE InsertUtterances(r)
  <2>1. SegmentTypes' /\ \A q \in Transcripts \ {r} : utterances'[q] = utterances[q]
    BY <1>0, <1>4 DEF InsertUtterances, SegmentTypes
  <2> QED BY <1>1, <1>4, <2>1 DEF InsertUtterances, Making
<1> QED BY <1>2, <1>3, <1>4

(* The track, its version and its cues are written. *)
LEMMA RunPublishes ==
  ASSUME TranscriptInv, NEW r \in Transcripts,
         \/ CreateTrack(r) \/ MakeVersion(r) \/ InsertCues(r) \/ FinishVersion(r) \/ FinishTrack(r)
  PROVE  TranscriptInv'
<1> USE DEF runsVars, Step, AtLabel
<1>0. RunOf(r) /\ TrackTypes /\ RunTypes' /\ SegmentTypes' /\ LockTypes' /\ r \in Jobs \ Parses
  BY TypesStay, TranscriptsAssumption
  DEF TranscriptInv, CreateTrack, MakeVersion, InsertCues, FinishVersion, FinishTrack
<1>1. ASSUME NEW l \in {"version", "cues", "publish", "finish", "succeed"}, Goto(r, l),
             TrackTypes', UNCHANGED <<jobVars, faults, runsVars>>,
             \A k \in Jobs \ {r} : /\ track'[k] = track[k] /\ version'[k] = version[k]
                                   /\ cues'[k] = cues[k],
             RunFits(l, run[r], track'[r], version'[r], cues'[r], Len(utterances[r]))
      PROVE  TranscriptInv'
  BY <1>0, <1>1, RunGoes DEF Pcs
<1>2. ASSUME Leave(r, "retry_wait"), UNCHANGED <<jobVars, faults, runsVars, trackVars, source,
                                                 scene, canceller>>
      PROVE  TranscriptInv'
  BY <1>0, <1>2, RunStops
<1>3. CASE CreateTrack(r) \/ FinishTrack(r)
  <2>1. ASSUME NEW s \in {"pending", "ready"}, SetTrack(r, s), UNCHANGED <<version, cues, source>>
        PROVE  TrackTypes' /\ track'[r] = s /\ \A k \in Jobs \ {r} : track'[k] = track[k]
    BY <1>0, <2>1 DEF SetTrack, TrackTypes, TrackStatus
  <2>2. CASE CreateTrack(r)
    BY <1>0, <1>1, <1>2, <2>1, <2>2
    DEF CreateTrack, RunOf, RunFits, Making, Entering, trackVars
  <2>3. CASE FinishTrack(r)
    BY <1>0, <1>1, <1>2, <2>1, <2>3
    DEF FinishTrack, RunOf, RunFits, Making, Entering, trackVars
  <2> QED BY <1>3, <2>2, <2>3
<1>4. CASE MakeVersion(r) \/ FinishVersion(r)
  <2>1. ASSUME NEW s \in {"processing", "ready"}, version' = [version EXCEPT ![r] = s],
               UNCHANGED <<track, cues, source>>
        PROVE  TrackTypes' /\ version'[r] = s /\ \A k \in Jobs \ {r} : version'[k] = version[k]
    BY <1>0, <2>1 DEF TrackTypes
  <2>2. CASE MakeVersion(r)
    BY <1>0, <1>1, <2>1, <2>2 DEF MakeVersion, RunOf, RunFits, Making, Entering
  <2>3. CASE FinishVersion(r)
    BY <1>0, <1>1, <2>1, <2>3 DEF FinishVersion, RunOf, RunFits, Making, Entering
  <2> QED BY <1>4, <2>2, <2>3
<1>5. CASE InsertCues(r)
  <2>1. TrackTypes' /\ cues'[r] = Len(utterances[r]) /\ \A k \in Jobs \ {r} : cues'[k] = cues[k]
    BY <1>0, <1>5, TracksAssumption DEF InsertCues, TrackTypes
  <2> QED BY <1>0, <1>1, <1>5, <2>1 DEF InsertCues, RunOf, RunFits, Making, Entering
<1> QED BY <1>3, <1>4, <1>5

-----------------------------------------------------------------------------
LEMMA TranscriptStep == TranscriptInv /\ [Next]_vars => TranscriptInv'
<1> SUFFICES ASSUME TranscriptInv, [Next]_vars PROVE TranscriptInv'
  OBVIOUS
<1>1. CASE UNCHANGED vars
  BY <1>1 DEF vars, workVars, jobVars, runVars, trackVars, runsVars, TranscriptInv, TypeOK,
     WorkTypeOK, Shape, ParseOf, RunOf
<1>2. ASSUME NEW r \in Transcripts, Transcribe(r) PROVE TranscriptInv'
  BY <1>2, RunSteers, RunLocks, RunFills, RunPublishes DEF Transcribe
<1> QED BY <1>1, <1>2, TracksStep, RoutesStep DEF Next

(* What is published is complete, however often a handler is delivered again
   and whatever is deleted, cancelled or requested again meanwhile, and the
   variables keep their types. *)
THEOREM TracksCorrect == Spec => []TracksInv
<1> QED BY TranscriptInit, TranscriptStep, Complete, PTL DEF Spec

-----------------------------------------------------------------------------
(* The segments.  The recursion goes on from a later start only, so there   *)
(* is a function that meets it, and what it computes from a start covers    *)
(* the media from there on.                                                 *)
Spans == [from : Nat, to : Nat]
EndOf(d, a) == IF a + SegmentLength < d THEN a + SegmentLength ELSE d
CutFrom(d, cut, a) ==
  <<Segment(a, EndOf(d, a))>>
  \o (IF d - (EndOf(d, a) - Overlap) < MinTail THEN <<>> ELSE cut[EndOf(d, a) - Overlap])
Cuts(d, cut) == cut = [a \in 0..d |-> CutFrom(d, cut, a)]
Covers(s, a, d) ==
  \A t \in a..(d - 1) : t + (MinTail - Overlap) <= d =>
    \E i \in DOMAIN s : s[i].from <= t /\ t < s[i].to

LEMMA CutGoesOn ==
  ASSUME NEW d \in Nat, NEW a \in 0..d
  PROVE  /\ EndOf(d, a) \in a..d
         /\ ~(d - (EndOf(d, a) - Overlap) < MinTail) =>
              EndOf(d, a) - Overlap \in (a + 1)..d
<1>1. Overlap \in Nat /\ SegmentLength \in Nat /\ MinTail \in Nat
      /\ Overlap < SegmentLength /\ Overlap < MinTail
  BY TranscriptsAssumption
<1>2. a \in Nat /\ a <= d
  OBVIOUS
<1>3. CASE a + SegmentLength < d
  <2>1. EndOf(d, a) = a + SegmentLength
    BY <1>3 DEF EndOf
  <2> QED BY <1>1, <1>2, <1>3, <2>1
<1>4. CASE ~(a + SegmentLength < d)
  <2>1. EndOf(d, a) = d
    BY <1>4 DEF EndOf
  <2> QED BY <1>1, <1>2, <2>1
<1> QED BY <1>3, <1>4

LEMMA CutIsSeq ==
  ASSUME NEW d \in Nat, NEW a \in 0..d, NEW cut, \A m \in (a + 1)..d : cut[m] \in Seq(Spans)
  PROVE  CutFrom(d, cut, a) \in Seq(Spans)
<1>1. Segment(a, EndOf(d, a)) \in Spans
  <2>1. EndOf(d, a) \in Nat /\ a \in Nat
    BY CutGoesOn
  <2> QED BY <2>1 DEF Segment, Spans
<1>2. <<Segment(a, EndOf(d, a))>> \in Seq(Spans) /\ <<>> \in Seq(Spans)
  BY <1>1
<1>3. ~(d - (EndOf(d, a) - Overlap) < MinTail) => cut[EndOf(d, a) - Overlap] \in Seq(Spans)
  BY CutGoesOn
<1> DEFINE rest == IF d - (EndOf(d, a) - Overlap) < MinTail THEN <<>> ELSE cut[EndOf(d, a) - Overlap]
<1>4. rest \in Seq(Spans)
  BY <1>2, <1>3
<1> HIDE DEF rest
<1>5. <<Segment(a, EndOf(d, a))>> \o rest \in Seq(Spans)
  BY <1>2, <1>4, ConcatProperties
<1> QED BY <1>5 DEF CutFrom, rest

LEMMA CutExists ==
  ASSUME NEW d \in Nat
  PROVE  \E cut \in [0..d -> Seq(Spans)] : Cuts(d, cut)
<1> DEFINE Meets(h, n) == \A a \in 0..d : d < a + n => h[a] = CutFrom(d, h, a)
           S == {n \in Nat : n <= d + 1 => \E h \in [0..d -> Seq(Spans)] : Meets(h, n)}
<1>1. 0 \in S
  <2> DEFINE h == [a \in 0..d |-> <<>>]
  <2>1. h \in [0..d -> Seq(Spans)] /\ Meets(h, 0)
    OBVIOUS
  <2> HIDE DEF h, Meets
  <2> QED BY <2>1
<1>2. ASSUME NEW n \in Nat, n \in S PROVE n + 1 \in S
  <2> SUFFICES ASSUME n + 1 <= d + 1
               PROVE  \E h \in [0..d -> Seq(Spans)] : Meets(h, n + 1)
    OBVIOUS
  <2>1. PICK h \in [0..d -> Seq(Spans)] : Meets(h, n)
    BY <1>2
  <2>2. d - n \in 0..d
    OBVIOUS
  <2> DEFINE g == [h EXCEPT ![d - n] = CutFrom(d, h, d - n)]
  <2>3. g \in [0..d -> Seq(Spans)]
    BY <2>2, CutIsSeq
  <2>4. \A a \in 0..d : g[a] = IF a = d - n THEN CutFrom(d, h, a) ELSE h[a]
    BY <2>2
  <2> HIDE DEF g
  <2>5. ASSUME NEW a \in 0..d, d <= a + n PROVE CutFrom(d, g, a) = CutFrom(d, h, a)
    <3>1. CASE d - (EndOf(d, a) - Overlap) < MinTail
      BY <3>1 DEF CutFrom
    <3>2. CASE ~(d - (EndOf(d, a) - Overlap) < MinTail)
      <4>1. EndOf(d, a) - Overlap \in (a + 1)..d
        BY <3>2, CutGoesOn
      <4>2. \A m \in (a + 1)..d : m \in 0..d /\ m # d - n
        BY <2>5
      <4>3. g[EndOf(d, a) - Overlap] = h[EndOf(d, a) - Overlap]
        BY <2>4, <4>1, <4>2
      <4> QED BY <3>2, <4>3 DEF CutFrom
    <3> QED BY <3>1, <3>2
  <2>6. Meets(g, n + 1)
    <3> SUFFICES ASSUME NEW a \in 0..d, d < a + (n + 1) PROVE g[a] = CutFrom(d, g, a)
      OBVIOUS
    <3>1. d <= a + n
      OBVIOUS
    <3>2. CASE a = d - n
      BY <2>4, <2>5, <3>1, <3>2
    <3>3. CASE a # d - n
      <4>1. d < a + n
        BY <3>1, <3>3
      <4>2. h[a] = CutFrom(d, h, a)
        BY <2>1, <4>1
      <4> QED BY <2>4, <2>5, <3>1, <3>3, <4>2
    <3> QED BY <3>2, <3>3
  <2> QED BY <2>3, <2>6
<1> HIDE DEF S
<1>3. d + 1 \in S
  BY <1>1, <1>2, NumberInduction
<1>4. PICK h \in [0..d -> Seq(Spans)] : Meets(h, d + 1)
  BY <1>3 DEF S
<1>5. \A a \in 0..d : h[a] = CutFrom(d, h, a)
  BY <1>4
<1> QED BY <1>5 DEF Cuts

LEMMA CutIsCuts ==
  ASSUME NEW d \in Nat
  PROVE  \E cut : Cuts(d, cut) /\ SegmentsOf(d) = cut[0]
<1> DEFINE cut == CHOOSE h : Cuts(d, h)
<1>1. Cuts(d, cut)
  <2> HIDE DEF Cuts
  <2> QED BY CutExists, Zenon
<1>2. SegmentsOf(d) = cut[0]
  BY DEF SegmentsOf, Cuts, CutFrom, EndOf
<1> HIDE DEF cut
<1> QED BY <1>1, <1>2

LEMMA CutCovers ==
  ASSUME NEW d \in Nat, NEW a \in 0..d, NEW cut, Cuts(d, cut),
         \A m \in (a + 1)..d : cut[m] \in Seq(Spans) /\ Covers(cut[m], m, d)
  PROVE  cut[a] \in Seq(Spans) /\ Covers(cut[a], a, d)
<1> DEFINE b == EndOf(d, a)
           s == <<Segment(a, b)>>
           c == cut[b - Overlap]
<1>0. Overlap \in Nat /\ MinTail \in Nat /\ Overlap < MinTail
  BY TranscriptsAssumption
<1>1. cut[a] = CutFrom(d, cut, a)
  BY DEF Cuts
<1>2. cut[a] \in Seq(Spans)
  BY <1>1, CutIsSeq
<1>3. b \in a..d /\ b \in Nat /\ a \in Nat
  BY CutGoesOn
<1>4. s \in Seq(Spans) /\ Len(s) = 1 /\ s[1].from = a /\ s[1].to = b
  BY <1>3 DEF Segment, Spans
<1>5. CASE d - (b - Overlap) < MinTail
  <2>1. cut[a] = s
    <3>1. cut[a] = s \o <<>>
      BY <1>1, <1>5 DEF CutFrom
    <3> QED BY <1>4, <3>1, ConcatEmptySeq
  <2>2. \A t \in a..(d - 1) : t + (MinTail - Overlap) <= d => t < b /\ a <= t
    BY <1>0, <1>3, <1>5
  <2>3. 1 \in DOMAIN s
    OBVIOUS
  <2> HIDE DEF s, b
  <2>4. Covers(s, a, d)
    BY <1>4, <2>2, <2>3 DEF Covers
  <2> QED BY <1>2, <2>1, <2>4
<1>6. CASE ~(d - (b - Overlap) < MinTail)
  <2>1. cut[a] = s \o c
    BY <1>1, <1>6 DEF CutFrom
  <2>2. b - Overlap \in (a + 1)..d
    BY <1>6, CutGoesOn
  <2>3. c \in Seq(Spans) /\ Covers(c, b - Overlap, d)
    BY <2>2
  <2> HIDE DEF s, c, b
  <2>4. Len(c) \in Nat /\ DOMAIN c = 1..Len(c)
    BY <2>3, LenProperties
  <2>5. /\ DOMAIN cut[a] = 1..(1 + Len(c))
        /\ cut[a][1] = s[1]
        /\ \A i \in 1..Len(c) : cut[a][i + 1] = c[i]
    <3>1. /\ Len(s \o c) = 1 + Len(c) /\ s \o c \in Seq(Spans)
          /\ \A i \in 1..(1 + Len(c)) : (s \o c)[i] = IF i <= 1 THEN s[i] ELSE c[i - 1]
      <4>1. /\ s \o c \in Seq(Spans) /\ Len(s \o c) = Len(s) + Len(c)
            /\ \A i \in 1..(Len(s) + Len(c)) : (s \o c)[i] = IF i <= Len(s) THEN s[i] ELSE c[i - Len(s)]
        <5>1. s \in Seq(Spans) /\ c \in Seq(Spans)
          BY <1>4, <2>3
        <5> QED BY <5>1, ConcatProperties, Zenon
      <4>2. Len(s) = 1
        BY <1>4
      <4> QED BY <4>1, <4>2
    <3>2. DOMAIN (s \o c) = 1..(1 + Len(c))
      BY <3>1, LenProperties
    <3>3. 1 \in 1..(1 + Len(c)) /\ \A i \in 1..Len(c) : i + 1 \in 1..(1 + Len(c)) /\ ~(i + 1 <= 1)
                                                        /\ (i + 1) - 1 = i
      BY <2>4
    <3>4. (s \o c)[1] = s[1]
      BY <3>1, <3>3
    <3>5. \A i \in 1..Len(c) : (s \o c)[i + 1] = c[i]
      BY <3>1, <3>3
    <3> QED BY <2>1, <3>2, <3>4, <3>5
  <2>6. ASSUME NEW t \in a..(d - 1), t + (MinTail - Overlap) <= d
        PROVE  \E i \in DOMAIN cut[a] : cut[a][i].from <= t /\ t < cut[a][i].to
    <3>1. CASE t < b
      <4>1. 1 \in DOMAIN cut[a]
        BY <2>4, <2>5
      <4>2. cut[a][1].from <= t /\ t < cut[a][1].to
        BY <1>4, <2>5, <3>1
      <4> QED BY <4>1, <4>2
    <3>2. CASE b <= t
      <4>1. t \in (b - Overlap)..(d - 1)
        BY <1>0, <1>3, <2>6, <3>2
      <4>2. PICK i \in 1..Len(c) : c[i].from <= t /\ t < c[i].to
        BY <2>3, <2>4, <2>6, <4>1 DEF Covers
      <4>3. i + 1 \in DOMAIN cut[a] /\ cut[a][i + 1] = c[i]
        BY <2>4, <2>5
      <4> QED BY <4>2, <4>3
    <3> QED BY <1>3, <3>1, <3>2
  <2> QED BY <1>2, <2>6 DEF Covers
<1> QED BY <1>5, <1>6

LEMMA SegmentsCover ==
  ASSUME NEW d \in Nat
  PROVE  SegmentsOf(d) \in Seq(Spans) /\ Covers(SegmentsOf(d), 0, d)
<1>1. PICK cut : Cuts(d, cut) /\ SegmentsOf(d) = cut[0]
  BY CutIsCuts
<1> DEFINE Good(a) == cut[a] \in Seq(Spans) /\ Covers(cut[a], a, d)
           S == {n \in Nat : \A a \in 0..d : d <= a + n => Good(a)}
<1>2. ASSUME NEW a \in 0..d, \A m \in (a + 1)..d : Good(m) PROVE Good(a)
  BY <1>1, <1>2, CutCovers
<1> HIDE DEF Good
<1>3. 0 \in S
  <2>1. ASSUME NEW a \in 0..d, d <= a + 0 PROVE Good(a)
    <3>1. (a + 1)..d = {}
      BY <2>1
    <3> QED BY <1>2, <3>1
  <2> QED BY <2>1
<1>4. ASSUME NEW n \in Nat, n \in S PROVE n + 1 \in S
  <2>1. ASSUME NEW a \in 0..d, d <= a + (n + 1) PROVE Good(a)
    <3>1. \A m \in (a + 1)..d : m \in 0..d /\ d <= m + n
      BY <2>1
    <3>2. \A m \in (a + 1)..d : Good(m)
      BY <1>4, <3>1
    <3> QED BY <1>2, <3>2
  <2> QED BY <2>1
<1> HIDE DEF S
<1>5. d \in S
  BY <1>3, <1>4, NumberInduction
<1>6. Good(0)
  BY <1>5 DEF S
<1> QED BY <1>1, <1>6 DEF Good

-----------------------------------------------------------------------------
(* The words.  A provider reports words of one unit, so no two of them      *)
(* begin at the same time, and ordering them by their beginning loses none. *)
Words == {[from |-> n, to |-> n + 1] : n \in Nat}

LEMMA WordFacts ==
  /\ \A w \in Words : w.from \in Nat /\ w.to = w.from + 1
  /\ \A v, w \in Words : v.from = w.from => v = w
BY DEF Words

LEMMA HeardAreWords ==
  ASSUME NEW s \in Spans, NEW W \in Heard(s)
  PROVE  W \subseteq Words /\ IsFiniteSet(W)
<1> DEFINE n == IF s.to - s.from < 3 THEN 1 ELSE (s.to - s.from) \div 3
           word(i) == [from |-> s.from + 3 * i, to |-> s.from + 3 * i + 1]
           All == {word(i) : i \in 0..(n - 1)}
<1>1. n \in Int /\ s.from \in Nat
  BY DEF Spans
<1>2. W = {} \/ W = All
  BY DEF Heard
<1> HIDE DEF n
<1>3. All \subseteq Words
  <2> SUFFICES ASSUME NEW i \in 0..(n - 1) PROVE word(i) \in Words
    OBVIOUS
  <2>1. s.from + 3 * i \in Nat
    BY <1>1
  <2> QED BY <2>1 DEF Words
<1>4. IsFiniteSet(All)
  <2> DEFINE f == [i \in 0..(n - 1) |-> word(i)]
  <2>1. f \in Surjection(0..(n - 1), All)
    BY DEF Surjection
  <2>2. IsFiniteSet(0..(n - 1))
    BY <1>1, FS_Interval
  <2> HIDE DEF f, All
  <2> QED BY <2>1, <2>2, FS_Surjection
<1> QED BY <1>2, <1>3, <1>4, FS_EmptySet

(* In order of their beginning. *)
Ascending(s) == \A m, n \in DOMAIN s : m < n => s[m].from < s[n].from

Ranked(W) ==
  [n \in 1..Cardinality(W) |-> CHOOSE w \in W : Cardinality({v \in W : v.from < w.from}) = n - 1]
IsOrderOf(s, W) == s \in Seq(Words) /\ Ascending(s) /\ {s[n] : n \in DOMAIN s} = W

LEMMA RankedWords ==
  ASSUME NEW W \in SUBSET Words, IsFiniteSet(W), NEW s, s = Ranked(W)
  PROVE  IsOrderOf(s, W)
<1> SUFFICES s \in Seq(Words) /\ Ascending(s) /\ {s[n] : n \in DOMAIN s} = W
  BY DEF IsOrderOf
<1> DEFINE N == Cardinality(W)
           Before(w) == {v \in W : v.from < w.from}
           f == [w \in W |-> Cardinality(Before(w)) + 1]
<1>0. N \in Nat /\ \A w \in W : w.from \in Nat
  BY FS_CardinalityType, WordFacts
<1>1. \A w \in W : IsFiniteSet(Before(w)) /\ Cardinality(Before(w)) \in Nat
  <2> SUFFICES ASSUME NEW w \in W
               PROVE  IsFiniteSet(Before(w)) /\ Cardinality(Before(w)) \in Nat
    OBVIOUS
  <2>1. Before(w) \in SUBSET W
    OBVIOUS
  <2> QED BY <2>1, FS_Subset, FS_CardinalityType
<1>2. ASSUME NEW v \in W, NEW w \in W, v.from < w.from
      PROVE  Cardinality(Before(v)) + 1 <= Cardinality(Before(w))
  <2>1. Before(v) \union {v} \in SUBSET Before(w) /\ v \notin Before(v)
    BY <1>0, <1>2
  <2> HIDE DEF Before
  <2>2. Cardinality(Before(v) \union {v}) = Cardinality(Before(v)) + 1
    BY <1>1, <2>1, FS_AddElement
  <2>3. Cardinality(Before(v) \union {v}) <= Cardinality(Before(w))
    BY <1>1, <2>1, FS_Subset
  <2> QED BY <2>2, <2>3
<1>3. f \in [W -> 1..N]
  <2> SUFFICES ASSUME NEW w \in W PROVE Cardinality(Before(w)) + 1 \in 1..N
    OBVIOUS
  <2>1. Before(w) \union {w} \in SUBSET W /\ w \notin Before(w)
    BY <1>0
  <2> HIDE DEF Before
  <2>2. Cardinality(Before(w) \union {w}) = Cardinality(Before(w)) + 1
    BY <1>1, <2>1, FS_AddElement
  <2>3. Cardinality(Before(w) \union {w}) <= N
    BY <2>1, FS_Subset
  <2> QED BY <1>0, <1>1, <2>2, <2>3
<1>5. \A w \in W : f[w] = Cardinality(Before(w)) + 1
  OBVIOUS
<1>9. DOMAIN s = 1..N /\ \A n \in 1..N : s[n] = CHOOSE w \in W : Cardinality(Before(w)) = n - 1
  BY DEF Ranked
<1> DEFINE e(n) == CHOOSE w \in W : Cardinality(Before(w)) = n - 1
<1>13. s = [n \in 1..N |-> e(n)]
  BY DEF Ranked
<1> HIDE DEF f, Before, N, e
<1>4. \A v, w \in W : v.from < w.from => f[v] < f[w]
  <2> SUFFICES ASSUME NEW v \in W, NEW w \in W, v.from < w.from PROVE f[v] < f[w]
    OBVIOUS
  <2>1. Cardinality(Before(v)) + 1 <= Cardinality(Before(w))
    BY <1>2
  <2> QED BY <1>1, <1>5, <2>1
<1>6. \A v, w \in W : f[v] = f[w] => v = w
  <2> SUFFICES ASSUME NEW v \in W, NEW w \in W, f[v] = f[w] PROVE v = w
    OBVIOUS
  <2>1. f[v] \in 1..N /\ f[w] \in 1..N
    BY <1>3
  <2>2. ~(v.from < w.from) /\ ~(w.from < v.from)
    BY <1>4, <2>1
  <2> QED BY <1>0, <2>2, WordFacts
<1>7. f \in Surjection(W, 1..N)
  <2>1. f \in Injection(W, 1..N)
    BY <1>3, <1>6 DEF Injection, IsInjective
  <2>2. IsFiniteSet(1..N) /\ Cardinality(1..N) = N
    BY <1>0, FS_Interval
  <2> QED BY <2>1, <2>2, FS_Injection DEF N
<1>8. \A n \in 1..N : s[n] \in W /\ f[s[n]] = n
  <2> SUFFICES ASSUME NEW n \in 1..N PROVE s[n] \in W /\ f[s[n]] = n
    OBVIOUS
  <2>1. PICK w \in W : f[w] = n
    BY <1>7 DEF Surjection
  <2>2. Cardinality(Before(w)) = n - 1
    BY <1>1, <1>5, <2>1
  <2>4. s[n] \in W /\ Cardinality(Before(s[n])) = n - 1
    BY <1>9, <2>2
  <2>5. f[s[n]] = (n - 1) + 1
    BY <1>5, <2>4
  <2> QED BY <2>4, <2>5
<1>10. s \in Seq(Words)
  <2>1. s \in [1..N -> Words]
    <3>1. \A n \in 1..N : s[n] = e(n)
      BY <1>9 DEF e
    <3>2. \A n \in 1..N : e(n) \in Words
      BY <1>8, <3>1
    <3> QED BY <1>13, <3>2, Zenon
  <2> QED BY <1>0, <2>1, SeqDef, Zenon
<1>11. Ascending(s)
  <2> SUFFICES ASSUME NEW m \in 1..N, NEW n \in 1..N, m < n PROVE s[m].from < s[n].from
    BY <1>9 DEF Ascending
  <2>1. s[m] \in W /\ s[n] \in W /\ f[s[m]] = m /\ f[s[n]] = n
    BY <1>8
  <2>2. ~(s[n].from < s[m].from) /\ s[n] # s[m]
    <3>1. m \in Int /\ n \in Int /\ n # m /\ ~(n < m)
      OBVIOUS
    <3>2. s[n].from < s[m].from => f[s[n]] < f[s[m]]
      BY <1>4, <2>1
    <3>3. s[n].from < s[m].from => n < m
      BY <2>1, <3>2
    <3> QED BY <2>1, <3>1, <3>3
  <2>3. s[m].from \in Nat /\ s[n].from \in Nat
    BY <1>0, <2>1
  <2>4. s[m].from # s[n].from
    BY <2>1, <2>2, WordFacts
  <2> QED BY <2>2, <2>3, <2>4
<1>12. W \subseteq {s[n] : n \in 1..N}
  <2> SUFFICES ASSUME NEW w \in W PROVE \E n \in 1..N : s[n] = w
    OBVIOUS
  <2>1. f[w] \in 1..N
    BY <1>3
  <2> QED BY <1>6, <1>8, <2>1
<1>14. {s[n] : n \in DOMAIN s} = W
  <2>1. {s[n] : n \in 1..N} \subseteq W
    BY <1>8
  <2> QED BY <1>9, <1>12, <2>1, Zenon
<1> QED BY <1>10, <1>11, <1>14

-----------------------------------------------------------------------------
(* The groups.  A word is added to the last group or opens one. *)
Added(groups, w) ==
  IF groups # <<>> /\ w.to - Last(groups)[1].from <= MaxUtterance
    THEN Front(groups) \o <<Append(Last(groups), w)>>
    ELSE Append(groups, <<w>>)
Groups == Seq(Seq(Words))
Holds(g) == UNION {ToSet(g[u]) : u \in DOMAIN g}
GroupsFit(g) ==
  /\ \A u \in DOMAIN g : g[u] # <<>> /\ Last(g[u]).to - g[u][1].from <= MaxUtterance
  /\ \A u, v \in DOMAIN g : u < v => \A a \in ToSet(g[u]), b \in ToSet(g[v]) : a.from < b.from

LEMMA SeqFacts ==
  \A S : \A s \in Seq(S) : /\ Len(s) \in Nat /\ DOMAIN s = 1..Len(s)
                           /\ \A n \in 1..Len(s) : s[n] \in S
                           /\ s # <<>> => 1 \in DOMAIN s /\ Len(s) \in DOMAIN s
BY LenProperties, ElementOfSeq, EmptySeq

LEMMA Extended ==
  ASSUME NEW S, NEW s \in Seq(S), NEW e \in S
  PROVE  /\ Append(s, e) \in Seq(S) /\ Append(s, e) # <<>> /\ Len(Append(s, e)) = Len(s) + 1
         /\ \A n \in 1..Len(s) : Append(s, e)[n] = s[n]
         /\ Append(s, e)[Len(s) + 1] = e
         /\ ToSet(Append(s, e)) = ToSet(s) \union {e}
<1>1. /\ Append(s, e) \in Seq(S) /\ Append(s, e) # <<>> /\ Len(Append(s, e)) = Len(s) + 1
      /\ \A n \in 1..Len(s) : Append(s, e)[n] = s[n]
      /\ Append(s, e)[Len(s) + 1] = e
  BY AppendProperties
<1>2. DOMAIN Append(s, e) = 1..(Len(s) + 1) /\ DOMAIN s = 1..Len(s) /\ Len(s) \in Nat
  BY <1>1, SeqFacts
<1>3. 1..(Len(s) + 1) = 1..Len(s) \union {Len(s) + 1}
  BY <1>2
<1> DEFINE t == Append(s, e)
<1> HIDE DEF t
<1>4. ToSet(t) = ToSet(s) \union {e}
  <2>1. \A n \in DOMAIN t : t[n] \in ToSet(s) \union {e}
    BY <1>1, <1>2, <1>3 DEF ToSet, t
  <2>2. \A n \in DOMAIN s : n \in DOMAIN t /\ t[n] = s[n]
    BY <1>1, <1>2, <1>3 DEF t
  <2>3. Len(s) + 1 \in DOMAIN t /\ t[Len(s) + 1] = e
    BY <1>1, <1>2, <1>3 DEF t
  <2> QED BY <2>1, <2>2, <2>3 DEF ToSet
<1> QED BY <1>1, <1>4 DEF t

(* The last element replaced. *)
LastIs(t, s, e) ==
  /\ DOMAIN t = DOMAIN s
  /\ \A n \in 1..(Len(s) - 1) : t[n] = s[n]
  /\ t[Len(s)] = e
LEMMA Replaced ==
  ASSUME NEW S, NEW s \in Seq(S), s # <<>>, NEW e \in S, NEW t, t = Front(s) \o <<e>>
  PROVE  t \in Seq(S) /\ LastIs(t, s, e)
<1> DEFINE f == Front(s)
           L == Len(s)
<1>1. L \in Nat \ {0} /\ \A n \in 1..L : s[n] \in S
  BY EmptySeq, SeqFacts
<1>2. /\ f \in Seq(S) /\ Len(f) = L - 1
      /\ \A n \in 1..(L - 1) : f[n] = s[n]
  <2>1. 1 \in Int /\ L - 1 \in Int /\ \A i \in 1..(L - 1) : s[i] \in S
    BY <1>1
  <2> HIDE DEF L
  <2>2. /\ SubSeq(s, 1, L - 1) \in Seq(S)
        /\ Len(SubSeq(s, 1, L - 1)) = IF 1 <= L - 1 THEN (L - 1) - 1 + 1 ELSE 0
        /\ \A i \in 1..((L - 1) - 1 + 1) : SubSeq(s, 1, L - 1)[i] = s[1 + i - 1]
    BY <2>1, SubSeqProperties
  <2>3. f = SubSeq(s, 1, L - 1)
    BY DEF Front, L
  <2> HIDE DEF f
  <2> QED BY <1>1, <2>2, <2>3
<1>3. <<e>> \in Seq(S) /\ Len(<<e>>) = 1 /\ <<e>>[1] = e
  OBVIOUS
<1> DEFINE o == <<e>>
<1> HIDE DEF f, L, o
<1>4. /\ f \o o \in Seq(S) /\ Len(f \o o) = Len(f) + Len(o)
      /\ \A i \in 1..(Len(f) + Len(o)) : (f \o o)[i] = IF i <= Len(f) THEN f[i] ELSE o[i - Len(f)]
  BY <1>2, <1>3, ConcatProperties DEF o
<1>5. Len(f) = L - 1 /\ Len(o) = 1 /\ o[1] = e
  BY <1>2, <1>3 DEF o
<1>6. t = f \o o
  BY DEF o, f
<1>7. t \in Seq(S) /\ Len(t) = L
  <2>1. t \in Seq(S) /\ Len(t) = Len(f) + Len(o)
    BY <1>4, <1>6, Zenon
  <2> QED BY <1>1, <1>5, <2>1
<1>8. \A n \in 1..(L - 1) : t[n] = s[n]
  <2>1. \A n \in 1..(L - 1) : n \in 1..(Len(f) + Len(o)) /\ n <= Len(f)
    BY <1>1, <1>5
  <2> QED BY <1>2, <1>4, <1>6, <2>1
<1>9. t[L] = e
  <2>1. L \in 1..(Len(f) + Len(o)) /\ ~(L <= Len(f)) /\ L - Len(f) = 1
    BY <1>1, <1>5
  <2> QED BY <1>4, <1>5, <1>6, <2>1
<1>10. DOMAIN t = DOMAIN s
  BY <1>7, SeqFacts DEF L
<1> QED BY <1>7, <1>8, <1>9, <1>10 DEF L, LastIs

LEMMA HoldsFacts ==
  ASSUME NEW g \in Groups
  PROVE  /\ Len(g) \in Nat /\ DOMAIN g = 1..Len(g)
         /\ \A u \in DOMAIN g : g[u] \in Seq(Words) /\ ToSet(g[u]) \subseteq Words
         /\ \A u \in DOMAIN g : g[u] # <<>> => g[u][1] \in ToSet(g[u]) /\ Last(g[u]) \in ToSet(g[u])
<1>1. Len(g) \in Nat /\ DOMAIN g = 1..Len(g) /\ \A u \in DOMAIN g : g[u] \in Seq(Words)
  BY SeqFacts DEF Groups
<1>2. ASSUME NEW t \in Seq(Words)
      PROVE  ToSet(t) \subseteq Words /\ (t # <<>> => t[1] \in ToSet(t) /\ Last(t) \in ToSet(t))
  BY SeqFacts DEF ToSet, Last
<1> QED BY <1>1, <1>2

LEMMA WordAlone ==
  ASSUME NEW w \in Words
  PROVE  /\ <<w>> \in Seq(Words) /\ <<w>> # <<>> /\ ToSet(<<w>>) = {w}
         /\ Last(<<w>>) = w /\ <<w>>[1] = w
BY DEF ToSet, Last

LEMMA AddedFits ==
  ASSUME NEW g \in Groups, GroupsFit(g), NEW w \in Words, \A a \in Holds(g) : a.from < w.from
  PROVE  Added(g, w) \in Groups /\ GroupsFit(Added(g, w)) /\ Holds(Added(g, w)) = Holds(g) \union {w}
<1> DEFINE L == Len(g)
           h == Added(g, w)
<1>0. /\ L \in Nat /\ DOMAIN g = 1..L
      /\ \A u \in DOMAIN g : g[u] \in Seq(Words) /\ ToSet(g[u]) \subseteq Words /\ ToSet(g[u]) \subseteq Holds(g)
      /\ \A u \in DOMAIN g : g[u] # <<>> => g[u][1] \in ToSet(g[u]) /\ Last(g[u]) \in ToSet(g[u])
      /\ w.from \in Nat /\ w.to = w.from + 1 /\ MaxUtterance \in Nat /\ 1 <= MaxUtterance
      /\ \A u \in DOMAIN g : \A a \in ToSet(g[u]) : a.from < w.from
  <2>1. \A u \in DOMAIN g : ToSet(g[u]) \subseteq Holds(g)
    BY DEF Holds
  <2> QED BY <2>1, HoldsFacts, WordFacts, TranscriptsAssumption
<1>1. CASE g # <<>> /\ w.to - Last(g)[1].from <= MaxUtterance
  <2> DEFINE e == Append(g[L], w)
  <2>1. L \in DOMAIN g /\ L # 0
    BY <1>0, <1>1, SeqFacts DEF Groups
  <2>2. g[L] \in Seq(Words) /\ g[L] # <<>> /\ Last(g) = g[L]
    BY <1>0, <2>1 DEF Last, GroupsFit
  <2>3. /\ e \in Seq(Words) /\ e # <<>> /\ ToSet(e) = ToSet(g[L]) \union {w}
        /\ Last(e) = w /\ e[1] = g[L][1]
    <3>1. /\ Append(g[L], w) \in Seq(Words) /\ Append(g[L], w) # <<>>
          /\ Len(Append(g[L], w)) = Len(g[L]) + 1
          /\ \A n \in 1..Len(g[L]) : Append(g[L], w)[n] = g[L][n]
          /\ Append(g[L], w)[Len(g[L]) + 1] = w
          /\ ToSet(Append(g[L], w)) = ToSet(g[L]) \union {w}
      BY <2>2, Extended
    <3>2. 1 \in 1..Len(g[L])
      BY <2>2, SeqFacts
    <3> QED BY <3>1, <3>2 DEF Last
  <2>4. h = Front(g) \o <<e>>
    BY <1>1, <2>2 DEF Added
  <2> HIDE DEF e, h, L
  <2>5. /\ h \in Groups /\ DOMAIN h = 1..L
        /\ \A n \in 1..(L - 1) : h[n] = g[n]
        /\ h[L] = e
    <3>1. g \in Seq(Seq(Words)) /\ g # <<>> /\ e \in Seq(Words)
      BY <1>1, <2>3 DEF Groups
    <3>2. h \in Seq(Seq(Words)) /\ LastIs(h, g, e)
      BY <2>4, <3>1, Replaced
    <3> QED BY <1>0, <3>2 DEF Groups, L, LastIs
  <2>6. GroupsFit(h)
    <3>1. \A u \in 1..L : u # L => u \in 1..(L - 1)
      BY <1>0
    <3>2. \A u \in DOMAIN h : h[u] # <<>> /\ Last(h[u]).to - h[u][1].from <= MaxUtterance
      <4> SUFFICES ASSUME NEW u \in 1..L
                   PROVE  h[u] # <<>> /\ Last(h[u]).to - h[u][1].from <= MaxUtterance
        BY <2>5
      <4>1. CASE u = L
        BY <1>1, <2>2, <2>3, <2>5, <4>1
      <4>2. CASE u # L
        <5>1. h[u] = g[u] /\ u \in DOMAIN g
          BY <1>0, <2>5, <3>1, <4>2
        <5> QED BY <5>1 DEF GroupsFit
      <4> QED BY <4>1, <4>2
    <3>3. ASSUME NEW u \in DOMAIN h, NEW v \in DOMAIN h, u < v,
                 NEW a \in ToSet(h[u]), NEW b \in ToSet(h[v])
          PROVE  a.from < b.from
      <4>1. u # L /\ u \in DOMAIN g /\ h[u] = g[u] /\ v \in DOMAIN g
        BY <1>0, <2>5, <3>1, <3>3
      <4>2. CASE v = L
        <5>1. b \in ToSet(g[L]) \/ b = w
          BY <2>3, <2>5, <4>2
        <5>2. b = w => a.from < b.from
          BY <1>0, <4>1
        <5>3. b \in ToSet(g[L]) => a.from < b.from
          BY <3>3, <4>1, <4>2 DEF GroupsFit
        <5> QED BY <5>1, <5>2, <5>3
      <4>3. CASE v # L
        <5>1. h[v] = g[v]
          BY <1>0, <2>5, <3>1, <4>1, <4>3
        <5> QED BY <3>3, <4>1, <5>1 DEF GroupsFit
      <4> QED BY <4>2, <4>3
    <3> QED BY <3>2, <3>3 DEF GroupsFit
  <2>7. Holds(h) = Holds(g) \union {w}
    <3>1. \A u \in 1..L : u # L => u \in 1..(L - 1)
      BY <1>0
    <3>2. \A u \in 1..L : ToSet(h[u]) = IF u = L THEN ToSet(g[u]) \union {w} ELSE ToSet(g[u])
      BY <2>3, <2>5, <3>1
    <3>3. Holds(h) \subseteq Holds(g) \union {w}
      BY <1>0, <2>5, <3>2 DEF Holds
    <3>4. \A u \in 1..L : ToSet(g[u]) \subseteq Holds(h)
      BY <2>5, <3>2 DEF Holds
    <3>5. w \in Holds(h)
      BY <1>0, <2>1, <2>5, <3>2 DEF Holds
    <3>6. Holds(g) \subseteq Holds(h)
      BY <1>0, <3>4 DEF Holds
    <3> QED BY <3>3, <3>5, <3>6
  <2> QED BY <2>5, <2>6, <2>7 DEF h
<1>2. CASE ~(g # <<>> /\ w.to - Last(g)[1].from <= MaxUtterance)
  <2>1. h = Append(g, <<w>>)
    BY <1>2 DEF Added
  <2> HIDE DEF h, L
  <2>2. /\ h \in Groups /\ Len(h) = L + 1
        /\ \A n \in 1..L : h[n] = g[n]
        /\ h[L + 1] = <<w>>
    BY <2>1, WordAlone, Extended DEF Groups, L
  <2>3. DOMAIN h = 1..(L + 1) /\ \A u \in 1..(L + 1) : u = L + 1 \/ u \in 1..L
    BY <1>0, <2>2, HoldsFacts
  <2>4. /\ <<w>> \in Seq(Words) /\ <<w>> # <<>> /\ ToSet(<<w>>) = {w}
        /\ Last(<<w>>) = w /\ <<w>>[1] = w
    BY WordAlone
  <2>5. \A u \in DOMAIN h : h[u] # <<>> /\ Last(h[u]).to - h[u][1].from <= MaxUtterance
    <3> SUFFICES ASSUME NEW u \in DOMAIN h
                 PROVE  h[u] # <<>> /\ Last(h[u]).to - h[u][1].from <= MaxUtterance
      OBVIOUS
    <3>1. CASE u = L + 1
      <4>1. h[u] = <<w>>
        BY <2>2, <3>1
      <4>2. w.to - w.from <= MaxUtterance
        BY <1>0
      <4> QED BY <2>4, <4>1, <4>2
    <3>2. CASE u \in 1..L
      BY <1>0, <2>2, <3>2 DEF GroupsFit
    <3> QED BY <2>3, <3>1, <3>2
  <2>6. ASSUME NEW u \in DOMAIN h, NEW v \in DOMAIN h, u < v,
               NEW a \in ToSet(h[u]), NEW b \in ToSet(h[v])
        PROVE  a.from < b.from
    <3>1. u \in 1..L /\ h[u] = g[u] /\ u \in DOMAIN g
      BY <1>0, <2>2, <2>3, <2>6
    <3>2. CASE v = L + 1
      <4>1. b = w
        BY <2>2, <2>4, <3>2
      <4> QED BY <1>0, <3>1, <4>1
    <3>3. CASE v \in 1..L
      BY <1>0, <2>2, <2>6, <3>1, <3>3 DEF GroupsFit
    <3> QED BY <2>3, <3>2, <3>3
  <2>7. Holds(h) = Holds(g) \union {w}
    <3>1. /\ \A u \in 1..L : u \in DOMAIN h /\ ToSet(h[u]) = ToSet(g[u])
          /\ L + 1 \in DOMAIN h /\ ToSet(h[L + 1]) = {w}
      BY <1>0, <2>2, <2>3, <2>4
    <3> QED BY <1>0, <2>3, <3>1 DEF Holds
  <2> QED BY <2>2, <2>5, <2>6, <2>7 DEF GroupsFit, h
<1> QED BY <1>1, <1>2

LEMMA GroupExists ==
  ASSUME NEW words \in Seq(Words)
  PROVE  \E group : /\ group[0] = <<>> /\ Grouped(words) = group[Len(words)]
                    /\ \A n \in 1..Len(words) : group[n] = Added(group[n - 1], words[n])
<1> DEFINE N == Len(words)
           step == [p \in Nat \X Groups |->
                      IF p[1] \in 1..N THEN Added(p[2], words[p[1]]) ELSE p[2]]
           Grows(f) == f = [n \in 0..N |-> IF n = 0 THEN <<>> ELSE Added(f[n - 1], words[n])]
<1>0. N \in Nat /\ \A n \in 1..N : words[n] \in Words
  BY SeqFacts
<1>1. ASSUME NEW g \in Groups, NEW w \in Words PROVE Added(g, w) \in Groups
  <2>1. <<w>> \in Seq(Words)
    OBVIOUS
  <2>2. CASE g # <<>> /\ w.to - Last(g)[1].from <= MaxUtterance
    <3>1. Last(g) \in Seq(Words)
      BY <2>2, SeqFacts DEF Groups, Last
    <3>2. Append(Last(g), w) \in Seq(Words)
      BY <3>1, Extended
    <3>3. Front(g) \o <<Append(Last(g), w)>> \in Groups
      BY <2>2, <3>2, Replaced DEF Groups
    <3> QED BY <2>2, <3>3 DEF Added
  <2>3. CASE ~(g # <<>> /\ w.to - Last(g)[1].from <= MaxUtterance)
    BY <2>1, <2>3, Extended DEF Added, Groups
  <2> QED BY <2>2, <2>3
<1>2. <<>> \in Groups
  BY DEF Groups
<1>3. step \in [Nat \X Groups -> Groups]
  <2> HIDE DEF N
  <2> QED BY <1>0, <1>1
<1>4. \A n \in 1..N, g \in Groups : step[<<n, g>>] = Added(g, words[n])
  <2> SUFFICES ASSUME NEW n \in 1..N, NEW g \in Groups PROVE step[<<n, g>>] = Added(g, words[n])
    OBVIOUS
  <2>1. <<n, g>> \in Nat \X Groups
    OBVIOUS
  <2> QED BY <2>1
<1>5. PICK f \in [0..N -> Groups] : Recurs(f, N, <<>>, step)
  <2> HIDE DEF N, step
  <2> QED BY <1>0, <1>2, <1>3, RecursionExists
<1> HIDE DEF step, N
<1>6. Grows(f)
  <2>1. \A n \in 1..N : f[n - 1] \in Groups
    BY <1>0
  <2>2. f[0] = <<>> /\ \A n \in 1..N : f[n] = Added(f[n - 1], words[n])
    BY <1>4, <1>5, <2>1 DEF Recurs
  <2>3. \A n \in 0..N : n # 0 => n \in 1..N
    BY <1>0
  <2> QED BY <2>2, <2>3
<1> DEFINE group == CHOOSE h : Grows(h)
<1>7. Grows(group)
  <2> HIDE DEF Grows
  <2> QED BY <1>6
<1>8. Grouped(words) = group[N]
  BY DEF Grouped, Added, N
<1> HIDE DEF group
<1>9. group[0] = <<>> /\ \A n \in 1..N : group[n] = Added(group[n - 1], words[n])
  <2>1. 0 \in 0..N /\ \A n \in 1..N : n \in 0..N /\ n # 0
    BY <1>0
  <2> QED BY <1>7, <2>1, Zenon
<1> QED BY <1>8, <1>9 DEF N

LEMMA GroupedFits ==
  ASSUME NEW words \in Seq(Words), Ascending(words)
  PROVE  /\ Grouped(words) \in Groups /\ GroupsFit(Grouped(words))
         /\ Holds(Grouped(words)) = {words[n] : n \in DOMAIN words}
<1> DEFINE N == Len(words)
           First(n) == {words[m] : m \in 1..n}
<1>0. N \in Nat /\ DOMAIN words = 1..N /\ \A n \in 1..N : words[n] \in Words
  BY SeqFacts
<1>1. PICK group : /\ group[0] = <<>> /\ Grouped(words) = group[N]
                   /\ \A n \in 1..N : group[n] = Added(group[n - 1], words[n])
  BY GroupExists
<1> DEFINE Good(n) == group[n] \in Groups /\ GroupsFit(group[n]) /\ Holds(group[n]) = First(n)
           S == {n \in Nat : n <= N => Good(n)}
<1> HIDE DEF N
<1>2. Good(0)
  <2>1. <<>> \in Groups /\ GroupsFit(<<>>) /\ Holds(<<>>) = {}
    BY DEF Groups, GroupsFit, Holds
  <2>2. First(0) = {}
    OBVIOUS
  <2> QED BY <1>1, <2>1, <2>2
<1>3. ASSUME NEW n \in Nat, n + 1 <= N, Good(n) PROVE Good(n + 1)
  <2>1. n + 1 \in 1..N /\ (n + 1) - 1 = n
    BY <1>0, <1>3
  <2>2. group[n + 1] = Added(group[n], words[n + 1])
    BY <1>1, <2>1
  <2>3. words[n + 1] \in Words
    BY <1>0, <2>1
  <2>4. \A a \in Holds(group[n]) : a.from < words[n + 1].from
    <3>1. \A m \in 1..n : m \in DOMAIN words /\ n + 1 \in DOMAIN words /\ m < n + 1
      BY <1>0, <1>3
    <3> QED BY <1>3, <3>1 DEF Ascending
  <2>5. First(n + 1) = First(n) \union {words[n + 1]}
    <3>1. 1..(n + 1) = 1..n \union {n + 1}
      OBVIOUS
    <3> QED BY <3>1
  <2> HIDE DEF First
  <2> QED BY <1>3, <2>2, <2>3, <2>4, <2>5, AddedFits
<1> HIDE DEF Good
<1>4. N \in S
  <2>1. 0 \in S
    BY <1>2
  <2>2. \A n \in Nat : n \in S => n + 1 \in S
    BY <1>0, <1>3
  <2> HIDE DEF S
  <2> QED BY <1>0, <2>1, <2>2, NumberInduction
<1>5. Good(N)
  BY <1>0, <1>4
<1> QED BY <1>0, <1>1, <1>5 DEF Good

-----------------------------------------------------------------------------
(* What a run has heard.  From the insertion of its segments on they are    *)
(* those of the media, none has failed while the loop goes on, all are      *)
(* transcribed behind it, and the utterances are grouped out of them.  A    *)
(* run is not queued twice, so what a succeeded one has is not written again. *)
Listening == {"transcribe", "provider", "next", "drop", "speak"}
Assembling == {"assemble", "utter", "track", "version", "cues", "publish", "finish", "succeed"}
Resting == {"idle", "claimed", "load", "unlock"}

Divided(segs, d) ==
  /\ DOMAIN segs = DOMAIN SegmentsOf(d)
  /\ \A i \in DOMAIN segs : segs[i].span = SegmentsOf(d)[i]
AllAre(segs, S) == \A i \in DOMAIN segs : segs[i].status \in S
ListenFits(at, s, segs, utt, v, d) ==
  /\ DOMAIN segs = {} \/ Divided(segs, d)
  /\ \A i \in DOMAIN segs : segs[i].words \in Heard(segs[i].span)
  /\ at \in Listening => Divided(segs, d) /\ AllAre(segs, {"pending", "succeeded"})
  /\ at \in Assembling => Divided(segs, d) /\ AllAre(segs, {"succeeded"})
  /\ s = "succeeded" => at \in Resting /\ Divided(segs, d) /\ AllAre(segs, {"succeeded"})
  /\ at \in {"track", "version"} \/ v # "none" => utt = UtterancesOf(segs)
ListenOf(r) ==
  ListenFits(pc[r], run[r], segments[r], utterances[r], version[r], scene.duration)
ListenInv == \A r \in Transcripts : ListenOf(r)

LEMMA ListenInit == Init => ListenInv
<1> SUFFICES ASSUME Init, NEW r \in Transcripts PROVE ListenOf(r)
  BY DEF ListenInv
<1>1. r \in Jobs /\ pc[r] = "idle" /\ run[r] = "none" /\ version[r] = "none"
  BY TranscriptsAssumption DEF Init, WorkInit, TrackInit
<1>2. DOMAIN segments[r] = {}
  <2>1. DOMAIN <<>> = {}
    OBVIOUS
  <2> QED BY <2>1 DEF Init
<1> QED BY <1>1, <1>2 DEF ListenOf, ListenFits, Listening, Assembling

(* A run that hears nothing new. *)
LEMMA ListenStays ==
  ASSUME NEW r \in Transcripts, ListenOf(r),
         UNCHANGED scene, segments'[r] = segments[r], utterances'[r] = utterances[r],
         pc'[r] = pc[r] \/ pc'[r] \in Resting,
         run'[r] = run[r] \/ run'[r] # "succeeded",
         version'[r] = version[r]
  PROVE  ListenOf(r)'
BY DEF ListenOf, ListenFits, Listening, Assembling, Resting

(* The labels of the runs that do not move. *)
LEMMA OtherLabels ==
  ASSUME TranscriptInv, NEW j \in Jobs, NEW l, NEW k \in Jobs \ {j},
         Goto(j, l) \/ Leave(j, l) \/ End(j, l)
  PROVE  pc'[k] = pc[k]
BY TypesStay DEF WorkTypes, Goto, Leave, End, Forget, GotoWith

LEMMA ListenTracks ==
  ASSUME TranscriptInv, ListenInv, Tracks, UNCHANGED <<scene, runsVars, canceller>>
  PROVE  ListenInv'
<1> SUFFICES ASSUME NEW r \in Transcripts PROVE ListenOf(r)'
  BY DEF ListenInv
<1>0. r \in Jobs /\ ListenOf(r) /\ UNCHANGED <<scene, run, segments, utterances>>
      /\ DOMAIN pc = Jobs /\ DOMAIN version = Jobs /\ r \notin Parses
  BY TypesStay, TranscriptsAssumption DEF ListenInv, runsVars, WorkTypes, TrackTypes
<1>1. CASE DeleteAsset \/ \E j \in Jobs : AttachTrack(j) \/ DeleteTrack(j)
  <2>1. UNCHANGED <<pc, version>>
    BY <1>1 DEF DeleteAsset, AttachTrack, DeleteTrack, CreateJob, workVars, runVars, trackVars
  <2> QED BY <1>0, <2>1, ListenStays
<1>2. CASE \E j \in Jobs : Queue(j) /\ UNCHANGED <<trackVars, source>>
  <2>1. pc'[r] = pc[r] \/ pc'[r] \in Resting
    BY <1>0, <1>2 DEF Queue, Claim, Start, Recover, Goto, runVars, Resting
  <2>2. UNCHANGED version
    BY <1>2 DEF trackVars
  <2> QED BY <1>0, <2>1, <2>2, ListenStays
<1>3. ASSUME NEW j \in Jobs, Parse(j) PROVE ListenOf(r)'
  <2>0. j \in Parses /\ j # r
    BY <1>0, <1>3
    DEF Parse, ParseLoad, ParseBegin, ParseRead, Invalidate, CreateVersion, StoreCues,
        PublishVersion, PublishTrack, ParseError, Parsing
  <2>1. pc'[r] = pc[r]
    <3>1. (\E l : Goto(j, l)) \/ (\E o : End(j, o))
      BY <1>3
      DEF Parse, ParseLoad, ParseBegin, ParseRead, Invalidate, CreateVersion, StoreCues,
          PublishVersion, PublishTrack, ParseError, Parsing, WriteTrack
    <3> QED BY <1>0, <2>0, <3>1, OtherLabels
  <2>2. version'[r] = version[r]
    BY <1>0, <1>3, <2>0
    DEF Parse, ParseLoad, ParseBegin, ParseRead, Invalidate, CreateVersion, StoreCues,
        PublishVersion, PublishTrack, ParseError, Parsing, WriteTrack, trackVars
  <2> QED BY <1>0, <2>1, <2>2, ListenStays
<1> QED BY <1>1, <1>2, <1>3 DEF Tracks

LEMMA ListenRoutes ==
  ASSUME TranscriptInv, ListenInv,
         \/ \E q \in Transcripts : RequestRun(q) \/ CancelRead(q) \/ CancelWrite(q)
         \/ \E s \in Sessions : CloseSession(s)
         \/ ProcessDies
  PROVE  ListenInv'
<1> SUFFICES ASSUME NEW r \in Transcripts PROVE ListenOf(r)'
  BY DEF ListenInv
<1> USE DEF runsVars, trackVars, workVars, runVars
<1>0. r \in Jobs /\ ListenOf(r) /\ DOMAIN run = Transcripts
  BY TypesStay, TranscriptsAssumption DEF ListenInv, RunTypes
<1>1. UNCHANGED <<scene, segments, utterances, version>>
  BY DEF RequestRun, CancelRead, CancelWrite, CloseSession, ProcessDies
<1>2. pc'[r] = pc[r] \/ pc'[r] \in Resting
  BY <1>0 DEF RequestRun, CreateJob, CancelRead, CancelWrite, CloseSession, ProcessDies, Resting
<1>3. run'[r] = run[r] \/ run'[r] # "succeeded"
  BY <1>0 DEF RequestRun, CancelRead, CancelWrite, CloseSession, ProcessDies, SetRun
<1> QED BY <1>0, <1>1, <1>2, <1>3, ListenStays

(* A handler writes its own run only. *)
LEMMA OtherRuns ==
  ASSUME TranscriptInv, ListenInv, NEW r \in Transcripts, Transcribe(r), NEW q \in Transcripts \ {r}
  PROVE  ListenOf(q)'
<1>0. /\ r \in Jobs /\ q \in Jobs /\ q # r /\ DOMAIN run = Transcripts /\ DOMAIN version = Jobs
      /\ DOMAIN segments = Transcripts /\ DOMAIN utterances = Transcripts /\ ListenOf(q)
  BY TypesStay, TranscriptsAssumption DEF ListenInv, RunTypes, TrackTypes, SegmentTypes
<1>1. pc'[q] = pc[q]
  <2>1. (\E l : Goto(r, l)) \/ (\E o : Leave(r, o)) \/ (\E o : End(r, o))
    BY DEF Transcribe, LoadRun, LoadMedia, TakeLock, Unlock, Prepare, BeginSegments,
       InsertSegments, BeginTranscribing, GetSttProvider, FailRun, NextSegment, DropRun,
       TranscribeSegment, Assemble, InsertUtterances, CreateTrack, MakeVersion, InsertCues,
       FinishVersion, FinishTrack, SucceedRun, RunError, Advance
  <2> QED BY <1>0, <2>1, OtherLabels
<1>2. run'[q] = run[q]
  BY <1>0 DEF Transcribe, LoadRun, LoadMedia, TakeLock, Unlock, Prepare, BeginSegments,
     InsertSegments, BeginTranscribing, GetSttProvider, FailRun, NextSegment, DropRun,
     TranscribeSegment, Assemble, InsertUtterances, CreateTrack, MakeVersion, InsertCues,
     FinishVersion, FinishTrack, SucceedRun, RunError, Advance, SetRun, runsVars
<1>3. segments'[q] = segments[q] /\ utterances'[q] = utterances[q]
  <2>1. CASE InsertSegments(r) \/ TranscribeSegment(r)
    BY <1>0, <2>1 DEF InsertSegments, TranscribeSegment
  <2>2. CASE InsertUtterances(r)
    BY <1>0, <2>2 DEF InsertUtterances
  <2> QED BY <2>1, <2>2 DEF Transcribe, LoadRun, LoadMedia, TakeLock, Unlock, Prepare, BeginSegments,
     BeginTranscribing, GetSttProvider, FailRun, NextSegment, DropRun,
     Assemble, CreateTrack, MakeVersion, InsertCues,
     FinishVersion, FinishTrack, SucceedRun, RunError, Advance, OnlyRun, runsVars
<1>4. version'[q] = version[q] /\ UNCHANGED scene
  BY <1>0 DEF Transcribe, LoadRun, LoadMedia, TakeLock, Unlock, Prepare, BeginSegments,
     InsertSegments, BeginTranscribing, GetSttProvider, FailRun, NextSegment, DropRun,
     TranscribeSegment, Assemble, InsertUtterances, CreateTrack, MakeVersion, InsertCues,
     FinishVersion, FinishTrack, SucceedRun, RunError, Advance, OnlyRun, trackVars, Step, AtLabel
<1> QED BY <1>0, <1>1, <1>2, <1>3, <1>4, ListenStays

LEMMA OwnLabel ==
  ASSUME TranscriptInv, NEW r \in Transcripts
  PROVE  /\ \A l : Goto(r, l) => pc'[r] = l
         /\ \A o : Leave(r, o) => pc'[r] = "unlock"
         /\ \A o : End(r, o) => pc'[r] = "idle"
         /\ \A s : SetRun(r, s) => run'[r] = s
<1>1. r \in Jobs /\ DOMAIN pc = Jobs /\ DOMAIN run = Transcripts
  BY TypesStay, TranscriptsAssumption DEF WorkTypes, RunTypes
<1> QED BY <1>1 DEF Goto, Leave, End, Forget, GotoWith, SetRun

(* The steps that leave the rows of the segments and utterances alone. *)
LEMMA ListenSteers ==
  ASSUME TranscriptInv, ListenInv, NEW r \in Transcripts,
         \/ LoadRun(r) \/ LoadMedia(r) \/ TakeLock(r) \/ Unlock(r) \/ Prepare(r) \/ BeginSegments(r)
         \/ BeginTranscribing(r) \/ GetSttProvider(r) \/ FailRun(r) \/ NextSegment(r) \/ DropRun(r)
         \/ Assemble(r) \/ SucceedRun(r) \/ RunError(r)
  PROVE  ListenOf(r)'
<1> USE OwnLabel DEF Step, AtLabel, OnlyRun, trackVars, runsVars
<1>0. ListenOf(r) /\ RunOf(r)
  BY DEF ListenInv, TranscriptInv
<1>1. ASSUME UNCHANGED <<scene, segments, utterances, version>>,
             pc'[r] \in Resting \union Entering \union {"segment", "insert", "fail"},
             run'[r] # "succeeded" \/ (run'[r] = run[r] /\ pc'[r] \in Resting)
      PROVE  ListenOf(r)'
  BY <1>0, <1>1 DEF ListenOf, ListenFits, Resting, Entering, Listening, Assembling
<1>2. CASE LoadRun(r)
  BY <1>1, <1>2 DEF LoadRun, Resting, Entering
<1>3. ASSUME pc[r] \notin Resting PROVE run[r] # "succeeded"
  BY <1>0, <1>3 DEF ListenOf, ListenFits
<1>4. CASE LoadMedia(r)
  BY <1>1, <1>3, <1>4 DEF LoadMedia, Resting, Entering
<1>5. CASE TakeLock(r) \/ Unlock(r)
  BY <1>1, <1>3, <1>5 DEF TakeLock, Unlock, Resting, Entering
<1>6. CASE Prepare(r) \/ BeginSegments(r)
  BY <1>1, <1>3, <1>6 DEF Prepare, BeginSegments, Advance, Resting, Entering
<1>7. CASE FailRun(r) \/ DropRun(r) \/ RunError(r)
  BY <1>1, <1>3, <1>7 DEF FailRun, DropRun, RunError, Resting, Entering
(* From label to label of the loop, and behind it. *)
<1>8. ASSUME UNCHANGED <<scene, segments, utterances, version>>, run'[r] # "succeeded",
             \/ pc[r] \in Listening /\ pc'[r] \in Listening
             \/ pc[r] \in {"assemble"} /\ pc'[r] \in {"utter"}
             \/ pc[r] = "next" /\ pc'[r] = "assemble" /\ Pending(r) = {}
      PROVE  ListenOf(r)'
  <2>1. CASE pc[r] \in Listening /\ pc'[r] \in Listening
    BY <1>0, <1>8, <2>1 DEF ListenOf, ListenFits, Resting, Listening, Assembling
  <2>2. CASE pc[r] \in {"assemble"} /\ pc'[r] \in {"utter"}
    BY <1>0, <1>8, <2>2 DEF ListenOf, ListenFits, Resting, Listening, Assembling
  <2>3. CASE pc[r] = "next" /\ pc'[r] = "assemble" /\ Pending(r) = {}
    <3>1. AllAre(segments[r], {"pending", "succeeded"}) /\ Divided(segments[r], scene.duration)
      BY <1>0, <2>3 DEF ListenOf, ListenFits, Listening
    <3>2. AllAre(segments[r], {"succeeded"})
      BY <2>3, <3>1 DEF AllAre, Pending
    <3> QED BY <1>0, <1>8, <2>3, <3>1, <3>2 DEF ListenOf, ListenFits, Resting, Listening, Assembling
  <2> QED BY <1>8, <2>1, <2>2, <2>3
<1>9. CASE BeginTranscribing(r) \/ Assemble(r)
  <2>1. pc'[r] = "unlock" \/ (pc'[r] = "provider" /\ pc[r] = "transcribe")
                          \/ (pc'[r] = "utter" /\ pc[r] = "assemble")
    BY <1>9 DEF BeginTranscribing, Assemble, Advance
  <2>2. run'[r] # "succeeded" /\ UNCHANGED <<scene, segments, utterances, version>>
    BY <1>3, <1>9 DEF BeginTranscribing, Assemble, Advance, Resting
  <2> QED BY <1>1, <1>8, <2>1, <2>2 DEF Resting, Listening
<1>10. CASE GetSttProvider(r)
  <2>1. run'[r] # "succeeded" /\ UNCHANGED <<scene, segments, utterances, version>>
    BY <1>3, <1>10 DEF GetSttProvider, Resting
  <2>2. pc[r] = "provider" /\ pc'[r] \in {"next", "fail"}
    BY <1>10 DEF GetSttProvider
  <2> QED BY <1>1, <1>8, <2>1, <2>2 DEF Listening
<1>11. CASE NextSegment(r)
  <2>1. run'[r] # "succeeded" /\ UNCHANGED <<scene, segments, utterances, version>>
    BY <1>3, <1>11 DEF NextSegment, Resting
  <2>2. pc[r] = "next" /\ (pc'[r] \in {"drop", "speak"} \/ (pc'[r] = "assemble" /\ Pending(r) = {}))
    BY <1>11 DEF NextSegment
  <2> QED BY <1>8, <2>1, <2>2 DEF Listening
<1>12. CASE SucceedRun(r)
  <2>1. UNCHANGED <<scene, segments, utterances, version>> /\ pc[r] = "succeed" /\ pc'[r] = "unlock"
    BY <1>12 DEF SucceedRun
  <2> QED BY <1>0, <2>1 DEF ListenOf, ListenFits, Resting, Listening, Assembling
<1> QED BY <1>2, <1>4, <1>5, <1>6, <1>7, <1>9, <1>10, <1>11, <1>12

LEMMA ListenFills ==
  ASSUME TranscriptInv, ListenInv, NEW r \in Transcripts,
         \/ InsertSegments(r) \/ TranscribeSegment(r) \/ InsertUtterances(r)
         \/ CreateTrack(r) \/ MakeVersion(r) \/ InsertCues(r) \/ FinishVersion(r) \/ FinishTrack(r)
  PROVE  ListenOf(r)'
<1> USE OwnLabel DEF Step, AtLabel, trackVars, runsVars
<1>0. /\ ListenOf(r) /\ RunOf(r) /\ DOMAIN segments = Transcripts /\ DOMAIN utterances = Transcripts
      /\ \A i \in DOMAIN segments[r] : DOMAIN segments[r][i] = {"span", "status", "words"}
      /\ DOMAIN version = Jobs /\ r \in Jobs
  <2>1. ListenOf(r) /\ RunOf(r)
    BY DEF ListenInv, TranscriptInv
  <2>2. SegmentTypes /\ TrackTypes /\ r \in Jobs
    BY TypesStay, TranscriptsAssumption
  <2> QED BY <2>1, <2>2 DEF SegmentTypes, TrackTypes
<1>1. run[r] # "succeeded" /\ UNCHANGED <<run, scene>>
  BY <1>0 DEF ListenOf, ListenFits, Resting, InsertSegments, TranscribeSegment, InsertUtterances,
     CreateTrack, MakeVersion, InsertCues, FinishVersion, FinishTrack
<1>2. CASE InsertSegments(r)
  <2>1. segments'[r] = [i \in DOMAIN SegmentsOf(scene.duration) |->
          [span |-> SegmentsOf(scene.duration)[i], status |-> "pending", words |-> {}]]
    BY <1>0, <1>2 DEF InsertSegments
  <2>2. /\ Divided(segments'[r], scene.duration) /\ AllAre(segments'[r], {"pending", "succeeded"})
        /\ \A i \in DOMAIN segments'[r] : segments'[r][i].words \in Heard(segments'[r][i].span)
    BY <2>1 DEF Divided, AllAre, Heard
  <2>3. version[r] = "none" /\ version' = version /\ pc'[r] = "transcribe"
    BY <1>0, <1>2 DEF InsertSegments, RunOf, RunFits, Making
  <2> QED BY <1>1, <2>2, <2>3 DEF ListenOf, ListenFits, Listening, Assembling
<1>3. CASE TranscribeSegment(r)
  <2>1. /\ version[r] = "none" /\ version' = version
        /\ Divided(segments[r], scene.duration) /\ AllAre(segments[r], {"pending", "succeeded"})
        /\ \A i \in DOMAIN segments[r] : segments[r][i].words \in Heard(segments[r][i].span)
    BY <1>0, <1>3 DEF TranscribeSegment, RunOf, RunFits, Making, ListenOf, ListenFits, Listening
  <2> DEFINE i == FirstPending(r)
  <2>2. ASSUME NEW w \in Heard(segments[r][i].span),
               segments' = [segments EXCEPT ![r][i].status = "succeeded", ![r][i].words = w],
               Goto(r, "next")
        PROVE  ListenOf(r)'
    <3> HIDE DEF i
    <3>1. /\ DOMAIN segments'[r] = DOMAIN segments[r]
          /\ \A k \in DOMAIN segments[r] :
               /\ segments'[r][k].span = segments[r][k].span
               /\ segments'[r][k].status = IF k = i THEN "succeeded" ELSE segments[r][k].status
               /\ segments'[r][k].words = IF k = i THEN w ELSE segments[r][k].words
      BY <1>0, <2>2
    <3>2. /\ Divided(segments'[r], scene.duration) /\ AllAre(segments'[r], {"pending", "succeeded"})
          /\ \A k \in DOMAIN segments'[r] : segments'[r][k].words \in Heard(segments'[r][k].span)
      <4>1. Divided(segments'[r], scene.duration)
        BY <2>1, <3>1 DEF Divided
      <4>2. AllAre(segments'[r], {"pending", "succeeded"})
        BY <2>1, <3>1 DEF AllAre
      <4>3. \A k \in DOMAIN segments'[r] : segments'[r][k].words \in Heard(segments'[r][k].span)
        BY <2>1, <2>2, <3>1
      <4> QED BY <4>1, <4>2, <4>3
    <3> QED BY <1>1, <2>1, <2>2, <3>2 DEF ListenOf, ListenFits, Listening, Assembling
  <2>3. ASSUME segments' = [segments EXCEPT ![r][i].status = "failed"], Goto(r, "fail")
        PROVE  ListenOf(r)'
    <3> HIDE DEF i
    <3>1. /\ DOMAIN segments'[r] = DOMAIN segments[r]
          /\ \A k \in DOMAIN segments[r] :
               /\ segments'[r][k].span = segments[r][k].span
               /\ segments'[r][k].words = segments[r][k].words
      BY <1>0, <2>3
    <3>2. /\ Divided(segments'[r], scene.duration)
          /\ \A k \in DOMAIN segments'[r] : segments'[r][k].words \in Heard(segments'[r][k].span)
      BY <2>1, <3>1 DEF Divided
    <3> QED BY <1>1, <2>1, <2>3, <3>2 DEF ListenOf, ListenFits, Listening, Assembling
  <2> QED BY <1>3, <2>2, <2>3 DEF TranscribeSegment
<1>4. CASE InsertUtterances(r)
  <2>1. utterances'[r] = UtterancesOf(segments[r]) /\ segments' = segments /\ version' = version
        /\ pc[r] = "utter" /\ pc'[r] = "track"
    BY <1>0, <1>4 DEF InsertUtterances
  <2> QED BY <1>0, <1>1, <2>1 DEF ListenOf, ListenFits, Listening, Assembling
(* The track, its version and its cues: the utterances are there. *)
<1>5. ASSUME UNCHANGED <<segments, utterances>>, pc'[r] \in Assembling \union {"unlock"},
             pc[r] \in Assembling, pc[r] \in {"track", "version"} \/ version'[r] = version[r],
             pc'[r] = "version" => pc[r] = "track", pc'[r] # "track"
      PROVE  ListenOf(r)'
  BY <1>0, <1>1, <1>5 DEF ListenOf, ListenFits, Listening, Assembling, Resting
<1>6. CASE CreateTrack(r)
  BY <1>5, <1>6 DEF CreateTrack, Assembling
<1>7. CASE MakeVersion(r)
  BY <1>5, <1>7 DEF MakeVersion, Assembling
<1>8. CASE InsertCues(r) \/ FinishTrack(r)
  BY <1>5, <1>8 DEF InsertCues, FinishTrack, Assembling
<1>9. CASE FinishVersion(r)
  <2>1. version[r] = "processing"
    BY <1>0, <1>9 DEF FinishVersion, RunOf, RunFits
  <2>2. UNCHANGED <<segments, utterances>> /\ pc[r] = "publish" /\ pc'[r] = "finish"
    BY <1>9 DEF FinishVersion
  <2> QED BY <1>0, <1>1, <2>1, <2>2 DEF ListenOf, ListenFits, Listening, Assembling, Resting
<1> QED BY <1>2, <1>3, <1>4, <1>6, <1>7, <1>8, <1>9

LEMMA ListenStep == TranscriptInv /\ ListenInv /\ [Next]_vars => ListenInv'
<1> SUFFICES ASSUME TranscriptInv, ListenInv, [Next]_vars PROVE ListenInv'
  OBVIOUS
<1>1. CASE UNCHANGED vars
  <2>1. UNCHANGED <<pc, run, segments, utterances, version, scene>>
    BY <1>1 DEF vars, workVars, runVars, trackVars, runsVars
  <2> QED BY <2>1 DEF ListenInv, ListenOf
<1>2. ASSUME NEW r \in Transcripts, Transcribe(r) PROVE ListenInv'
  <2>1. ListenOf(r)'
    BY <1>2, ListenSteers, ListenFills DEF Transcribe
  <2>2. \A q \in Transcripts \ {r} : ListenOf(q)'
    BY <1>2, OtherRuns
  <2> QED BY <2>1, <2>2 DEF ListenInv
<1> QED BY <1>1, <1>2, ListenTracks, ListenRoutes DEF Next

LEMMA ListenCorrect == Spec => [](TranscriptInv /\ ListenInv)
<1> QED BY TranscriptInit, TranscriptStep, ListenInit, ListenStep, PTL DEF Spec

(* Every succeeded run has listened to the whole media, whatever its length,
   the lengths of segments, overlaps and tails, and the words it has heard. *)
THEOREM CoverCorrect == Spec => []CoversMedia
<1>1. TranscriptInv /\ ListenInv => CoversMedia
  <2> SUFFICES ASSUME TranscriptInv, ListenInv, NEW r \in Transcripts, run[r] = "succeeded",
                      NEW t \in 0..(scene.duration - 1), t + (MinTail - Overlap) <= scene.duration
               PROVE  \E i \in DOMAIN segments[r] :
                        /\ segments[r][i].status = "succeeded"
                        /\ segments[r][i].span.from <= t /\ t < segments[r][i].span.to
    BY DEF CoversMedia
  <2> DEFINE s == SegmentsOf(scene.duration)
  <2>1. Divided(segments[r], scene.duration) /\ AllAre(segments[r], {"succeeded"})
    BY DEF ListenInv, ListenOf, ListenFits
  <2>2. scene.duration \in Nat
    BY TranscriptsAssumption DEF TranscriptInv, TypeOK
  <2>3. Covers(s, 0, scene.duration)
    BY <2>2, SegmentsCover
  <2> HIDE DEF s
  <2>4. PICK i \in DOMAIN s : s[i].from <= t /\ t < s[i].to
    BY <2>3 DEF Covers
  <2>5. i \in DOMAIN segments[r] /\ segments[r][i].span = s[i] /\ segments[r][i].status = "succeeded"
    BY <2>1 DEF Divided, AllAre, s
  <2> QED BY <2>4, <2>5
<1> QED BY <1>1, ListenCorrect, PTL

LEMMA WordsAreRanked ==
  ASSUME NEW d \in Nat, NEW segs, DOMAIN segs = {} \/ Divided(segs, d),
         \A i \in DOMAIN segs : segs[i].words \in Heard(segs[i].span)
  PROVE  /\ WordsOf(segs) \in Seq(Words) /\ Ascending(WordsOf(segs))
         /\ {WordsOf(segs)[n] : n \in DOMAIN WordsOf(segs)} = UNION {segs[i].words : i \in DOMAIN segs}
<1> DEFINE W == UNION {segs[i].words : i \in DOMAIN segs}
<1>1. \A i \in DOMAIN segs : segs[i].span \in Spans
  <2>1. SegmentsOf(d) \in Seq(Spans)
    BY SegmentsCover
  <2>2. \A i \in DOMAIN SegmentsOf(d) : SegmentsOf(d)[i] \in Spans
    BY <2>1, SeqFacts
  <2> QED BY <2>2 DEF Divided
<1>2. \A i \in DOMAIN segs : segs[i].words \subseteq Words /\ IsFiniteSet(segs[i].words)
  BY <1>1, HeardAreWords
<1>3. W \subseteq Words
  BY <1>2
<1>4. IsFiniteSet(DOMAIN segs)
  <2>1. SegmentsOf(d) \in Seq(Spans)
    BY SegmentsCover
  <2>2. Len(SegmentsOf(d)) \in Nat /\ DOMAIN SegmentsOf(d) = 1..Len(SegmentsOf(d))
    BY <2>1, SeqFacts
  <2>3. IsFiniteSet(DOMAIN SegmentsOf(d))
    BY <2>2, FS_Interval
  <2> QED BY <2>3, FS_EmptySet DEF Divided
<1>5. IsFiniteSet(W)
  <2> DEFINE Sets == {segs[i].words : i \in DOMAIN segs}
             f == [i \in DOMAIN segs |-> segs[i].words]
  <2>1. f \in Surjection(DOMAIN segs, Sets)
    BY DEF Surjection
  <2>2. IsFiniteSet(Sets)
    <3> HIDE DEF f, Sets
    <3> QED BY <1>4, <2>1, FS_Surjection
  <2>3. \A T \in Sets : IsFiniteSet(T)
    BY <1>2
  <2> HIDE DEF Sets
  <2>4. IsFiniteSet(UNION Sets)
    BY <2>2, <2>3, FS_UNION
  <2> QED BY <2>4 DEF Sets
<1>6. WordsOf(segs) = Ranked(W)
  BY DEF WordsOf, Ranked
<1> HIDE DEF W
<1>7. IsOrderOf(WordsOf(segs), W)
  BY <1>3, <1>5, <1>6, RankedWords
<1> QED BY <1>7 DEF W, IsOrderOf

(* Each word that a run has heard is in exactly one cue of its track, the
   cues are in order and none is too long, whatever the segments, the words
   heard in each and in their overlaps, and the greatest length of a cue. *)
THEOREM WordsCorrect == Spec => []EveryWordOnce
<1>1. ASSUME NEW g \in Groups, GroupsFit(g), NEW w \in Holds(g)
      PROVE  Cardinality({u \in DOMAIN g : w \in ToSet(g[u])}) = 1
  <2>1. PICK u \in DOMAIN g : w \in ToSet(g[u])
    BY DEF Holds
  <2>2. ASSUME NEW v \in DOMAIN g, w \in ToSet(g[v]) PROVE v = u
    <3>1. v \in Int /\ u \in Int /\ w.from \in Nat
      BY <2>1, HoldsFacts, WordFacts
    <3>2. \A m, n \in DOMAIN g : m < n => \A a \in ToSet(g[m]), b \in ToSet(g[n]) : a.from < b.from
      BY <1>1 DEF GroupsFit
    <3>3. (u < v => w.from < w.from) /\ (v < u => w.from < w.from)
      BY <2>1, <2>2, <3>2
    <3> QED BY <3>1, <3>3
  <2>3. {v \in DOMAIN g : w \in ToSet(g[v])} = {u}
    BY <2>1, <2>2
  <2> QED BY <2>3, FS_Singleton
<1>2. ASSUME NEW g \in Groups, GroupsFit(g), NEW u \in DOMAIN g
      PROVE  LET cue == g[u] IN
             /\ Last(cue).to - cue[1].from <= MaxUtterance
             /\ u > 1 => Last(g[u - 1]).from < cue[1].from
  <2>1. Last(g[u]).to - g[u][1].from <= MaxUtterance
    BY <1>2 DEF GroupsFit
  <2>2. ASSUME u > 1 PROVE Last(g[u - 1]).from < g[u][1].from
    <3>1. u - 1 \in DOMAIN g /\ u - 1 < u
      BY <2>2, HoldsFacts
    <3>2. Last(g[u - 1]) \in ToSet(g[u - 1]) /\ g[u][1] \in ToSet(g[u])
      BY <1>2, <3>1, HoldsFacts DEF GroupsFit
    <3> QED BY <1>2, <3>1, <3>2 DEF GroupsFit
  <2> QED BY <2>1, <2>2
<1>3. TranscriptInv /\ ListenInv => EveryWordOnce
  <2> SUFFICES ASSUME TranscriptInv, ListenInv, NEW r \in Transcripts, track[r] = "ready"
               PROVE  /\ \A i \in DOMAIN segments[r] : \A w \in segments[r][i].words :
                           Cardinality({u \in DOMAIN utterances[r] : w \in ToSet(utterances[r][u])}) = 1
                      /\ \A u \in DOMAIN utterances[r] :
                           LET cue == utterances[r][u] IN
                           /\ Last(cue).to - cue[1].from <= MaxUtterance
                           /\ u > 1 => Last(utterances[r][u - 1]).from < cue[1].from
    BY DEF EveryWordOnce
  <2> DEFINE g == utterances[r]
             W == UNION {segments[r][i].words : i \in DOMAIN segments[r]}
  <2>1. version[r] # "none" /\ ListenOf(r)
    BY DEF TranscriptInv, RunOf, RunFits, ListenInv
  <2>2. /\ g = UtterancesOf(segments[r])
        /\ DOMAIN segments[r] = {} \/ Divided(segments[r], scene.duration)
        /\ \A i \in DOMAIN segments[r] : segments[r][i].words \in Heard(segments[r][i].span)
    BY <2>1 DEF ListenOf, ListenFits
  <2>3. scene.duration \in Nat
    BY TranscriptsAssumption DEF TranscriptInv, TypeOK
  <2>4. g \in Groups /\ GroupsFit(g) /\ Holds(g) = W
    <3>1. /\ WordsOf(segments[r]) \in Seq(Words) /\ Ascending(WordsOf(segments[r]))
          /\ {WordsOf(segments[r])[n] : n \in DOMAIN WordsOf(segments[r])} = W
      BY <2>2, <2>3, WordsAreRanked
    <3> HIDE DEF W
    <3> QED BY <2>2, <3>1, GroupedFits DEF UtterancesOf
  <2>5. \A i \in DOMAIN segments[r] : segments[r][i].words \subseteq Holds(g)
    BY <2>4
  <2> HIDE DEF g, W
  <2>6. \A i \in DOMAIN segments[r] : \A w \in segments[r][i].words :
          Cardinality({u \in DOMAIN g : w \in ToSet(g[u])}) = 1
    BY <1>1, <2>4, <2>5
  <2>7. \A u \in DOMAIN g : LET cue == g[u] IN
          /\ Last(cue).to - cue[1].from <= MaxUtterance
          /\ u > 1 => Last(g[u - 1]).from < cue[1].from
    BY <1>2, <2>4
  <2> QED BY <2>6, <2>7 DEF g
<1> QED BY <1>3, ListenCorrect, PTL
=============================================================================
