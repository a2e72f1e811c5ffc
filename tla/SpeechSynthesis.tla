-------------------------- MODULE SpeechSynthesis --------------------------
(***************************************************************************)
(* Speech runs: the create route and the worker handler                     *)
(* handleTtsSynthesize. product[r] is "ready" when output_asset_id points   *)
(* to the narration. The cue rows of an attempt that died are reused.       *)
(***************************************************************************)
EXTENDS BudgetedRuns

(* The version to speak is ready or approved: a translation's target, or    *)
(* an original version the model leaves out.                                *)
SpeakableVersion(r) == from[r] # r => product[from[r]] = "ready"

CreateTtsRun(r) ==
  /\ SpeakableVersion(r)
  /\ Admit(r, "tts")
  /\ UNCHANGED madeVars

TtsStep(r, at) == At("tts", r, at)

LoadTtsRun(r) ==
  /\ TtsStep(r, "load")
  /\ IF status[r] \in {"queued", "running"}
       THEN Goto(r, "begin") /\ UNCHANGED job
       ELSE End(r, "succeeded")
  /\ UNCHANGED <<status, moneyVars, madeVars, faults>>

BeginTts(r) ==
  /\ TtsStep(r, "begin")
  /\ SetStatus(r, "running") /\ Goto(r, "prepare")
  /\ UNCHANGED <<job, moneyVars, madeVars, faults>>

(* No cues, or no profile. *)
PrepareTts(r) ==
  /\ TtsStep(r, "prepare")
  /\ \E l \in {"reserve", "release"} : Goto(r, l)
  /\ UNCHANGED <<status, job, moneyVars, madeVars, faults>>

(* One transaction under the lock of the budget row. The upsert opens a     *)
(* committed or released reservation again. Any error fails the run (after  *)
(* a query error the job ends in retry_wait instead of failed; no step      *)
(* tells them apart).                                                       *)
ReserveTts(r) ==
  /\ TtsStep(r, "reserve")
  /\ \/ /\ OverRunLimit(r) \/ OverDailyLimit(r)
        /\ Goto(r, "release") /\ UNCHANGED <<reservation, faults>>
     \/ /\ ~OverRunLimit(r) /\ ~OverDailyLimit(r)
        /\ reservation' = [reservation EXCEPT ![r] = "reserved"]
        /\ Goto(r, "provider") /\ UNCHANGED faults
     \/ Goto(r, "release") /\ Fault /\ UNCHANGED reservation
  /\ UNCHANGED <<status, job, usage, madeVars>>

GetTtsProvider(r) ==
  /\ TtsStep(r, "provider")
  /\ \E l \in {"cue", "release"} : Goto(r, l)
  /\ UNCHANGED <<status, job, moneyVars, madeVars, faults>>

Synthesized(r) == {c \in Cues : cues[r][c] = "stored"}
Remaining(r) == Cues \ Synthesized(r)
NextCue(r) == CHOOSE c \in Remaining(r) : \A d \in Remaining(r) : c <= d

(* The loop looks for a cancellation before each cue it synthesizes. *)
CheckTtsCancel(r) ==
  /\ TtsStep(r, "cue")
  /\ Goto(r, IF Remaining(r) = {} THEN "sync"
             ELSE IF status[r] = "cancel_requested" THEN "cancel_release" ELSE "synthesize")
  /\ UNCHANGED <<status, job, moneyVars, madeVars, faults>>

(* The row of the cue the provider answered, or of its failure. A row left  *)
(* by a dead attempt is a unique violation, which throws past the handler.  *)
SynthesizeCue_SkipFailed(r) ==  \* mutant
  /\ TtsStep(r, "synthesize")
  /\ \/ /\ cues' = [cues EXCEPT ![r][NextCue(r)] = "stored"]
        /\ Goto(r, "cue") /\ UNCHANGED job
     \/ /\ cues' = [cues EXCEPT ![r][NextCue(r)] = "failed"]
        /\ Goto(r, "sync") /\ UNCHANGED job
  /\ UNCHANGED <<status, moneyVars, product, quality, review, faults>>
SynthesizeCue(r) ==
  /\ TtsStep(r, "synthesize")
  /\ \/ /\ cues[r][NextCue(r)] = "none"
        /\ cues' = [cues EXCEPT ![r][NextCue(r)] = "stored"]
        /\ Goto(r, "cue") /\ UNCHANGED job
     \/ /\ cues[r][NextCue(r)] = "none"
        /\ cues' = [cues EXCEPT ![r][NextCue(r)] = "failed"]
        /\ Goto(r, "release") /\ UNCHANGED job
     \/ cues[r][NextCue(r)] = "failed" /\ End(r, "retry_wait") /\ UNCHANGED cues
     \/ Goto(r, "release") /\ UNCHANGED <<job, cues>>  \* an invalid recording
  /\ UNCHANGED <<status, moneyVars, product, quality, review, faults>>

(* The plan's action is stored in each row; one that the column's CHECK     *)
(* does not list, overflow_manual_review, is an error.                      *)
StoreSyncPlan(r) ==
  /\ TtsStep(r, "sync")
  /\ \/ Goto(r, "narrate") /\ UNCHANGED job
     \/ End(r, "retry_wait")
  /\ UNCHANGED <<status, moneyVars, madeVars, faults>>

StoreNarration(r) ==
  /\ TtsStep(r, "narrate")
  /\ product' = [product EXCEPT ![r] = "ready"] /\ Goto(r, "usage")
  /\ UNCHANGED <<status, job, moneyVars, cues, quality, review, faults>>

BillTts(r) ==
  /\ TtsStep(r, "usage")
  /\ usage' = [usage EXCEPT ![r] = 1] /\ Goto(r, "commit")
  /\ UNCHANGED <<status, job, reservation, madeVars, faults>>

CommitTts(r) ==
  /\ TtsStep(r, "commit")
  /\ reservation' = [reservation EXCEPT ![r] = "committed"] /\ Goto(r, "succeed")
  /\ UNCHANGED <<status, job, usage, madeVars, faults>>

SucceedTts(r) ==
  /\ TtsStep(r, "succeed")
  /\ SetStatus(r, "succeeded") /\ End(r, "succeeded")
  /\ UNCHANGED <<moneyVars, madeVars, faults>>

TtsNext(r) ==
  \/ CreateTtsRun(r) \/ LoadTtsRun(r) \/ BeginTts(r) \/ PrepareTts(r) \/ ReserveTts(r)
  \/ GetTtsProvider(r) \/ CheckTtsCancel(r) \/ SynthesizeCue(r) \/ StoreSyncPlan(r)
  \/ StoreNarration(r) \/ BillTts(r) \/ CommitTts(r) \/ SucceedTts(r)
=============================================================================
