--------------------------- MODULE Transcriptions ---------------------------
(***************************************************************************)
(* Transcription runs over the media asset: the create and cancel routes    *)
(* and the handler handleTranscriptionOrchestrate, which makes a generated  *)
(* subtitle track. One worker process executes the runs, two at a time, and *)
(* takes its database sessions from a pool: each statement may use any of   *)
(* them. The advisory lock of the handler belongs to a session.             *)
(***************************************************************************)
EXTENDS SubtitleTracks, SequencesExt

CONSTANTS
  Scenarios,    \* bound of the model: [jobs, duration, may, pool] with the
                \* jobs requested, the length of the media, the requests
                \* that may come between, and the sessions in use
  Transcripts,  \* the transcription_orchestrate jobs, one for each run
  RunKey,       \* (media, profile, configuration) of each run
  Sessions,     \* of the worker's pool
  SegmentLength, Overlap, MinTail, MaxUtterance  \* the handler's constants

ASSUME TranscriptsAssumption ==
  /\ Transcripts \subseteq Jobs /\ Transcripts \cap Parses = {}
  /\ DOMAIN RunKey = Transcripts
  /\ "none" \notin Sessions
  /\ {SegmentLength, Overlap, MinTail, MaxUtterance} \subseteq Nat
  /\ Overlap < SegmentLength /\ Overlap < MinTail /\ 1 <= MaxUtterance
  /\ \A c \in Scenarios :
       /\ c.jobs \subseteq Jobs /\ c.duration \in Nat \ {0}
       /\ c.may \subseteq {"cancel", "delete track", "delete asset"}
       /\ c.pool \subseteq Sessions /\ c.pool # {}

VARIABLES
  scene,       \* the scenario of this behaviour
  run,         \* transcription_runs.status
  segments,    \* transcription_segments of each run, with their words
  utterances,  \* transcription_utterances of each run
  lock,        \* the session that holds each key's lock, and how often
  canceller

runsVars == <<run, segments, utterances, lock>>
vars == <<workVars, trackVars, source, scene, runsVars, canceller>>

RunStatus == {"none", "queued", "preparing_audio", "segmenting", "transcribing", "assembling",
              "succeeded", "failed", "cancel_requested", "cancelled"}
Working == {"preparing_audio", "segmenting", "transcribing", "assembling"}
Active == {"queued", "succeeded"} \union Working
Keys == {RunKey[r] : r \in Transcripts}
Free == [by |-> "none", holds |-> 0]

SetRun(r, s) == run' = [run EXCEPT ![r] = s]

(* idx_transcription_runs_active_unique *)
NoOtherActive(r) ==
  \A q \in Transcripts \ {r} : RunKey[q] = RunKey[r] => run[q] \notin Active

-----------------------------------------------------------------------------
(* Pure calculations of the handler.                                        *)

(* Chunks that overlap; a short rest behind the last one is left out. *)
Segment(a, b) == [from |-> a, to |-> b]
SegmentsOf_NoShortChunk(d) ==  \* mutant
  LET cut[a \in 0..d] ==
        LET b == IF a + SegmentLength < d THEN a + SegmentLength ELSE d IN
        <<Segment(a, b)>>
        \o (IF d - (b - Overlap) < SegmentLength THEN <<>> ELSE cut[b - Overlap])
  IN cut[0]
SegmentsOf(d) ==
  LET cut[a \in 0..d] ==
        LET b == IF a + SegmentLength < d THEN a + SegmentLength ELSE d IN
        <<Segment(a, b)>>
        \o (IF d - (b - Overlap) < MinTail THEN <<>> ELSE cut[b - Overlap])
  IN cut[0]

(* The words of all segments in order of their start; those with the same   *)
(* times are one word.                                                      *)
WordsOf(segs) ==
  LET words == UNION {segs[i].words : i \in DOMAIN segs}
      Before(w) == {v \in words : v.from < w.from}
  IN [n \in 1..Cardinality(words) |-> CHOOSE w \in words : Cardinality(Before(w)) = n - 1]

(* Grouped while the group lasts no longer than MaxUtterance. *)
Grouped(words) ==
  LET group[n \in 0..Len(words)] ==
        IF n = 0 THEN <<>> ELSE
        LET w == words[n]
            groups == group[n - 1] IN
        IF groups # <<>> /\ w.to - Last(groups)[1].from <= MaxUtterance
          THEN Front(groups) \o <<Append(Last(groups), w)>>
          ELSE Append(groups, <<w>>)
  IN group[Len(words)]
UtterancesOf_Unflushed(segs) ==  \* mutant
  LET groups == Grouped(WordsOf(segs)) IN IF groups = <<>> THEN <<>> ELSE Front(groups)
UtterancesOf(segs) == Grouped(WordsOf(segs))

(* A provider answers with the words it hears: none, or one every three     *)
(* units, as the mock provider does.                                        *)
Heard(s) ==
  LET n == IF s.to - s.from < 3 THEN 1 ELSE (s.to - s.from) \div 3 IN
  {{}, {[from |-> s.from + 3 * i, to |-> s.from + 3 * i + 1] : i \in 0..(n - 1)}}

-----------------------------------------------------------------------------
(* The routes. Admission holds the transaction lock of the same key, which  *)
(* waits for a session that holds it.                                       *)

RequestRun(r) ==
  /\ r \in scene.jobs /\ run[r] = "none" /\ source
  /\ lock[RunKey[r]] = Free
  /\ NoOtherActive(r)  \* else the existing run is answered
  /\ SetRun(r, "queued") /\ CreateJob(r)
  /\ UNCHANGED <<trackVars, source, scene, segments, utterances, lock, canceller>>

CancelRead(r) ==
  /\ "cancel" \in scene.may /\ canceller[r] = "idle"
  /\ \/ run[r] = "queued" /\ canceller' = [canceller EXCEPT ![r] = "saw_queued"]
     \/ run[r] \in Working /\ canceller' = [canceller EXCEPT ![r] = "saw_working"]
  /\ UNCHANGED <<workVars, trackVars, source, scene, runsVars>>

CancelWrite(r) ==
  /\ canceller[r] # "idle"
  /\ canceller' = [canceller EXCEPT ![r] = "idle"]
  /\ LET s == IF canceller[r] = "saw_queued" THEN "cancelled" ELSE "cancel_requested" IN
     /\ SetRun(r, s)
     /\ IF job[r] \in {"succeeded", "failed", "cancelled"}
          THEN UNCHANGED <<job, asked>>
          ELSE SetJob(r, s) /\ asked' = asked \union {r}
  /\ UNCHANGED <<items, runVars, faults, trackVars, source, scene, segments, utterances, lock>>

-----------------------------------------------------------------------------
(* The handler.                                                             *)

AtLabel(r, at) == r \in Transcripts /\ pc[r] = at
Step(r, at) == AtLabel(r, at) /\ UNCHANGED <<source, scene, canceller, faults>>
OnlyRun == UNCHANGED <<trackVars, segments, utterances, lock, jobVars>>

LoadRun(r) ==
  /\ Step(r, "load")
  /\ IF run[r] = "queued" THEN Goto(r, "media") /\ UNCHANGED jobVars ELSE End(r, "failed")
  /\ UNCHANGED <<trackVars, runsVars>>

LoadMedia(r) ==
  /\ Step(r, "media")
  /\ \/ source /\ Goto(r, "lock") /\ UNCHANGED <<run, jobVars>>
     \/ ~source /\ SetRun(r, "failed") /\ End(r, "failed")
  /\ UNCHANGED <<trackVars, segments, utterances, lock>>

(* pg_advisory_lock by the session the pool gives: one that holds the lock  *)
(* already gets it again, another waits, for 30 seconds at most.            *)
TakeLock(r) ==
  /\ Step(r, "lock")
  /\ \E s \in scene.pool :
       LET l == lock[RunKey[r]] IN
       \/ /\ l.by \in {"none", s}
          /\ lock' = [lock EXCEPT ![RunKey[r]] = [by |-> s, holds |-> l.holds + 1]]
          /\ Goto(r, "prepare") /\ UNCHANGED jobVars
       \/ l.by \notin {"none", s} /\ End(r, "retry_wait") /\ UNCHANGED lock
  /\ UNCHANGED <<trackVars, run, segments, utterances>>

(* Every way out behind the lock goes through the finally block. *)
Leave(r, outcome) == GotoWith(r, "unlock", [outcome |-> outcome])

Unlock(r) ==
  /\ Step(r, "unlock")
  /\ \E s \in scene.pool :
       LET l == lock[RunKey[r]] IN
       lock' = [lock EXCEPT ![RunKey[r]] =
                  IF l.by # s THEN l
                  ELSE IF l.holds = 1 THEN Free ELSE [l EXCEPT !.holds = @ - 1]]
  /\ End(r, local[r].outcome)
  /\ UNCHANGED <<trackVars, run, segments, utterances>>

(* A status written by id; the index refuses an active one of a run that    *)
(* was cancelled and requested again.                                       *)
Advance(r, s, next) ==
  /\ \/ NoOtherActive(r) /\ SetRun(r, s) /\ Goto(r, next)
     \/ ~NoOtherActive(r) /\ Leave(r, "retry_wait") /\ UNCHANGED run
  /\ OnlyRun

Prepare(r) == Step(r, "prepare") /\ Advance(r, "preparing_audio", "segment")
BeginSegments(r) == Step(r, "segment") /\ Advance(r, "segmenting", "insert")

InsertSegments(r) ==
  /\ Step(r, "insert")
  /\ segments' = [segments EXCEPT ![r] =
       [i \in DOMAIN SegmentsOf(scene.duration) |->
          [span |-> SegmentsOf(scene.duration)[i], status |-> "pending", words |-> {}]]]
  /\ Goto(r, "transcribe")
  /\ UNCHANGED <<trackVars, run, utterances, lock, jobVars>>

BeginTranscribing(r) == Step(r, "transcribe") /\ Advance(r, "transcribing", "provider")

(* The provider is not available. *)
FailRun(r) ==
  /\ Step(r, "fail")
  /\ SetRun(r, "failed") /\ Leave(r, "failed")
  /\ OnlyRun
GetSttProvider(r) ==
  /\ Step(r, "provider")
  /\ \E l \in {"next", "fail"} : Goto(r, l)
  /\ UNCHANGED run /\ OnlyRun

Pending(r) == {i \in DOMAIN segments[r] : segments[r][i].status = "pending"}
FirstPending(r) == CHOOSE i \in Pending(r) : \A k \in Pending(r) : i <= k

(* Between segments it looks for a cancellation. *)
NextSegment(r) ==
  /\ Step(r, "next")
  /\ Goto(r, IF Pending(r) = {} THEN "assemble" ELSE IF r \in asked THEN "drop" ELSE "speak")
  /\ UNCHANGED run /\ OnlyRun

DropRun(r) ==
  /\ Step(r, "drop")
  /\ SetRun(r, "cancelled") /\ Leave(r, "succeeded")
  /\ OnlyRun

TranscribeSegment(r) ==
  /\ Step(r, "speak")
  /\ LET i == FirstPending(r) IN
     \/ \E w \in Heard(segments[r][i].span) :
          /\ segments' = [segments EXCEPT ![r][i].status = "succeeded", ![r][i].words = w]
          /\ Goto(r, "next")
     \/ /\ segments' = [segments EXCEPT ![r][i].status = "failed"]
        /\ Goto(r, "fail")
  /\ UNCHANGED <<trackVars, run, utterances, lock, jobVars>>

Assemble(r) == Step(r, "assemble") /\ Advance(r, "assembling", "utter")

InsertUtterances(r) ==
  /\ Step(r, "utter")
  /\ utterances' = [utterances EXCEPT ![r] = UtterancesOf(segments[r])]
  /\ Goto(r, "track")
  /\ UNCHANGED <<trackVars, run, segments, lock, jobVars>>

(* The index on tracks may refuse the generated one: the run stays          *)
(* assembling.                                                              *)
CreateTrack(r) ==
  /\ Step(r, "track")
  /\ \/ KeyFree(r) /\ SetTrack(r, "pending") /\ Goto(r, "version")
     \/ ~KeyFree(r) /\ Leave(r, "retry_wait") /\ UNCHANGED track
  /\ UNCHANGED <<version, cues, runsVars, jobVars>>

MakeVersion(r) ==
  /\ Step(r, "version")
  /\ version' = [version EXCEPT ![r] = "processing"]
  /\ Goto(r, "cues")
  /\ UNCHANGED <<track, cues, runsVars, jobVars>>

InsertCues(r) ==
  /\ Step(r, "cues")
  /\ cues' = [cues EXCEPT ![r] = Len(utterances[r])]
  /\ Goto(r, "publish")
  /\ UNCHANGED <<track, version, runsVars, jobVars>>

FinishVersion(r) ==
  /\ Step(r, "publish")
  /\ version' = [version EXCEPT ![r] = "ready"]
  /\ Goto(r, "finish")
  /\ UNCHANGED <<track, cues, runsVars, jobVars>>

FinishTrack(r) ==
  /\ Step(r, "finish")
  /\ \/ KeyFree(r) /\ SetTrack(r, "ready") /\ Goto(r, "succeed")
     \/ ~KeyFree(r) /\ Leave(r, "retry_wait") /\ UNCHANGED track
  /\ UNCHANGED <<version, cues, runsVars, jobVars>>

SucceedRun(r) ==
  /\ Step(r, "succeed")
  /\ \/ NoOtherActive(r) /\ SetRun(r, "succeeded") /\ Leave(r, "succeeded")
     \/ ~NoOtherActive(r) /\ Leave(r, "retry_wait") /\ UNCHANGED run
  /\ OnlyRun

(* A statement fails before the lock is taken, or behind it. *)
RunError(r) ==
  /\ r \in Transcripts /\ Fault
  /\ \/ pc[r] \in {"load", "media", "lock"} /\ End(r, "retry_wait")
     \/ /\ pc[r] \notin {"idle", "claimed", "load", "media", "lock", "unlock"}
        /\ Leave(r, "retry_wait") /\ UNCHANGED jobVars
  /\ UNCHANGED <<trackVars, source, scene, runsVars, canceller>>

Transcribe(r) ==
  \/ LoadRun(r) \/ LoadMedia(r) \/ TakeLock(r) \/ Unlock(r) \/ Prepare(r) \/ BeginSegments(r)
  \/ InsertSegments(r) \/ BeginTranscribing(r) \/ GetSttProvider(r) \/ FailRun(r)
  \/ NextSegment(r) \/ DropRun(r) \/ TranscribeSegment(r) \/ Assemble(r) \/ InsertUtterances(r)
  \/ CreateTrack(r) \/ MakeVersion(r) \/ InsertCues(r) \/ FinishVersion(r) \/ FinishTrack(r)
  \/ SucceedRun(r) \/ RunError(r)

(* The pool closes a session that was idle for 30 seconds, also one whose   *)
(* lock a handler believes to hold; the process takes all of them with it.  *)
CloseSession(s) ==
  /\ \E k \in Keys : lock[k].by = s
  /\ lock' = [k \in Keys |-> IF lock[k].by = s THEN Free ELSE lock[k]]
  /\ UNCHANGED <<workVars, trackVars, source, scene, run, segments, utterances, canceller>>

ProcessDies ==
  /\ \E j \in Jobs : pc[j] # "idle"
  /\ Fault
  /\ pc' = [j \in Jobs |-> "idle"] /\ local' = [j \in Jobs |-> Nothing]
  /\ lock' = [k \in Keys |-> Free]
  /\ UNCHANGED <<jobVars, trackVars, source, scene, run, segments, utterances, canceller>>

-----------------------------------------------------------------------------
Pcs == {"idle", "claimed", "load", "begin", "read", "invalid", "version", "cues", "publish",
        "finish", "media", "lock", "prepare", "segment", "insert", "transcribe", "provider",
        "next", "drop", "speak", "fail", "assemble", "utter", "track", "succeed", "unlock"}

TypeOK ==
  /\ WorkTypeOK /\ pc \in [Jobs -> Pcs]
  /\ track \in [Jobs -> TrackStatus]
  /\ version \in [Jobs -> {"none", "processing", "ready"}]
  /\ \A j \in Parses : cues[j] \in 0..Batches
  /\ source \in BOOLEAN /\ scene \in Scenarios
  /\ run \in [Transcripts -> RunStatus]
  /\ \A r \in Transcripts : \A i \in DOMAIN segments[r] :
       segments[r][i].status \in {"pending", "succeeded", "failed"}
  /\ \A k \in Keys : lock[k].by = "none" <=> lock[k].holds = 0
  /\ \A k \in Keys : lock[k].by \in Sessions \union {"none"}
  /\ canceller \in [Transcripts -> {"idle", "saw_queued", "saw_working"}]

Init ==
  /\ WorkInit /\ TrackInit
  /\ scene \in Scenarios
  /\ run = [r \in Transcripts |-> "none"]
  /\ segments = [r \in Transcripts |-> <<>>]
  /\ utterances = [r \in Transcripts |-> <<>>]
  /\ lock = [k \in Keys |-> Free]
  /\ canceller = [r \in Transcripts |-> "idle"]

Tracks ==
  \/ "delete asset" \in scene.may /\ DeleteAsset
  \/ \E j \in Jobs :
       (j \in scene.jobs /\ AttachTrack(j)) \/ Parse(j)
       \/ ("delete track" \in scene.may /\ DeleteTrack(j))
       \/ (Queue(j) /\ UNCHANGED <<trackVars, source>>)

Next ==
  \/ Tracks /\ UNCHANGED <<scene, runsVars, canceller>>
  \/ \E r \in Transcripts : RequestRun(r) \/ CancelRead(r) \/ CancelWrite(r) \/ Transcribe(r)
  \/ \E s \in Sessions : CloseSession(s)
  \/ ProcessDies

Spec == Init /\ [][Next]_vars

-----------------------------------------------------------------------------
(* Properties.                                                              *)

(* A track is ready only over a ready version with all of its cues, however *)
(* the job that made it was redelivered, and whatever was deleted and       *)
(* attached again meanwhile: nothing here is a transaction, only the order  *)
(* of the statements makes it so.                                           *)
ReadyTrackIsComplete ==
  \A j \in Jobs :
    /\ track[j] = "ready" => version[j] = "ready"
    /\ version[j] = "ready" =>
         cues[j] = IF j \in Parses THEN Batches ELSE Len(utterances[j])

(* A succeeded run listened to the whole media: every instant lies in a     *)
(* segment that was transcribed, but for a rest shorter than                *)
(* MinTail - Overlap at the end (the loop that avoids tiny segments).       *)
CoversMedia ==
  \A r \in Transcripts : run[r] = "succeeded" =>
    \A t \in 0..(scene.duration - 1) : t + (MinTail - Overlap) <= scene.duration =>
      \E i \in DOMAIN segments[r] :
        /\ segments[r][i].status = "succeeded"
        /\ segments[r][i].span.from <= t /\ t < segments[r][i].span.to

(* Each word that was heard, in one segment or in the overlap of two, is in *)
(* exactly one cue of the track that is published; cues are in order and    *)
(* none is longer than MaxUtterance.                                        *)
EveryWordOnce ==
  \A r \in Transcripts : track[r] = "ready" =>
    /\ \A i \in DOMAIN segments[r] : \A w \in segments[r][i].words :
         Cardinality({u \in DOMAIN utterances[r] : w \in ToSet(utterances[r][u])}) = 1
    /\ \A u \in DOMAIN utterances[r] :
         LET cue == utterances[r][u] IN
         /\ Last(cue).to - cue[1].from <= MaxUtterance
         /\ u > 1 => Last(utterances[r][u - 1]).from < cue[1].from

(* The comment of the finally block: once no handler of a key is between    *)
(* lock and release, nobody holds its advisory lock.                        *)
LockReleased ==
  \A k \in Keys :
    (\A r \in Transcripts : RunKey[r] = k => pc[r] \in {"idle", "claimed", "load", "media", "lock"})
      => lock[k] = Free

(* The variables have their types, and what is published is complete. *)
TracksInv == TypeOK /\ ReadyTrackIsComplete
=============================================================================
