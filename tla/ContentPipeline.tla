-------------------------- MODULE ContentPipeline --------------------------
(***************************************************************************)
(* Translation, speech and render runs of one project, sharing workers and  *)
(* budgets and taking each other's products.                                *)
(***************************************************************************)
EXTENDS SubtitleTranslation, SpeechSynthesis, VideoRender

Pcs == {"idle", "claimed", "load", "begin", "prepare", "reserve", "batch", "unpriced",
        "store", "store_unpriced", "quality", "quality_unpriced", "review", "ready",
        "provider", "cue", "synthesize", "sync", "narrate", "start", "ffmpeg", "output",
        "usage", "commit", "succeed", "release", "fail", "cancel_release", "cancel"}

TypeOK ==
  /\ [kind |-> kindOf, cost |-> cost, from |-> from, key |-> key] \in Cases
  /\ status \in [Runs -> RunStatus]
  /\ job \in [Runs -> JobStatus]
  /\ items \subseteq Runs
  /\ reservation \in [Runs -> {"none", "reserved", "committed", "released"}]
  /\ usage \in [Runs -> 0..1]
  /\ cues \in [Runs -> [Cues -> {"none", "stored", "failed"}]]
  /\ product \in [Runs -> {"none", "processing", "ready"}]
  /\ quality \in [Runs -> {"none", "passed", "warning", "failed"}]
  /\ review \in [Runs -> BOOLEAN]
  /\ pc \in [Runs -> Pcs]
  /\ canceller \in [Runs -> [pc : {"idle", "mark", "job", "remove", "settle", "settle_job"},
                             saw : {"queued", "running"}]]
  /\ faults \in 0..MaxFaults

Next ==
  \E r \in Runs : TranslationNext(r) \/ TtsNext(r) \/ RenderNext(r)
                  \/ Queue(r) \/ Ending(r) \/ CancelRoute(r)

Spec == Init /\ [][Next]_vars

-----------------------------------------------------------------------------
(* Properties.                                                              *)

(* The reservation and usage rows together are a ledger: no pipeline        *)
(* promises or spends more than its limit, money is spent only after it     *)
(* was held, and what is spent stays spent, through crashes, redeliveries   *)
(* and cancellations (reserveBudget, transition..ToFailed, the commits).    *)
Account == [r \in Runs |-> IF usage[r] > 0 THEN "spent"
                           ELSE IF reservation[r] = "reserved" THEN "held" ELSE "free"]
Ledger == INSTANCE BudgetLedger WITH account <- Account
KeepsBudget == Ledger!Spec

(* A succeeded run has been billed and no longer holds its estimate         *)
(* (usage, commit and status are three statements).                         *)
SucceededIsSettled ==
  \A r \in Runs : status[r] = "succeeded" => usage[r] = 1 /\ reservation[r] = "committed"

(* A run of a later pipeline only exists over a complete product: every cue *)
(* of the version it speaks, every recording of the narration it mixes,     *)
(* even if the run that made it was redelivered or cancelled meanwhile.     *)
InputsComplete ==
  \A r \in Runs : from[r] # r /\ status[r] # "none" =>
    /\ product[from[r]] = "ready"
    /\ Synthesized(from[r]) = Cues

(* A translated version that failed its quality check is not ready before   *)
(* its review assignment exists (handleSubtitleTranslate, steps 9 to 10).   *)
ReadyIsReviewed ==
  \A r \in Runs : product[r] = "ready" /\ quality[r] = "failed" => review[r]

(* Once a run is cancelled nothing is held or spent for it any more: the    *)
(* cancel route only concludes what no worker can have taken.               *)
CancelledIsFree ==
  [][\A r \in Runs : status[r] = "cancelled" =>
       /\ usage'[r] = usage[r]
       /\ reservation'[r] = "reserved" => reservation[r] = "reserved"]_vars

(* The variables have their types, and the money of a run is settled. *)
RunsInv == TypeOK /\ SucceededIsSettled
=============================================================================
