------------------------ MODULE SubtitleTranslation ------------------------
(***************************************************************************)
(* Translation runs: the translate route, the worker handler                *)
(* handleSubtitleTranslate and reconcileStaleReservations. The target       *)
(* version of a run is product[r]: "processing", then "ready". A run cannot *)
(* be cancelled.                                                            *)
(***************************************************************************)
EXTENDS BudgetedRuns

(* One active run per source version and profile. *)
ActiveTranslation == {"queued", "running", "succeeded"}
Translate(r) ==
  /\ from[r] = r
  /\ \A q \in OfKind("translation") : key[q] = key[r] => status[q] \notin ActiveTranslation
  /\ Admit(r, "translation")
  /\ product' = [product EXCEPT ![r] = "processing"]
  /\ UNCHANGED <<cues, quality, review>>

Step(r, at) == At("translation", r, at)

(* Only a queued run is executed: a redelivery after the row became running *)
(* is a permanent error and leaves the row as it is.                        *)
Translatable == {"queued"}
LoadTranslation(r) ==
  /\ Step(r, "load")
  /\ IF status[r] \in Translatable THEN Goto(r, "begin") /\ UNCHANGED job ELSE End(r, "failed")
  /\ UNCHANGED <<status, moneyVars, madeVars, faults>>

BeginTranslation(r) ==
  /\ Step(r, "begin")
  /\ SetStatus(r, "running") /\ Goto(r, "prepare")
  /\ UNCHANGED <<job, moneyVars, madeVars, faults>>

(* Cues, profile, glossary and provider: any of them may be missing. *)
PrepareTranslation(r) ==
  /\ Step(r, "prepare")
  /\ \E l \in {"reserve", "release"} : Goto(r, l)
  /\ UNCHANGED <<status, job, moneyVars, madeVars, faults>>

(* An estimate above the per-run limit throws and leaves the row running;   *)
(* the daily and monthly limits fail it. Without a pricing row nothing is   *)
(* reserved. An existing reservation keeps its status.                      *)
ReserveTranslation(r) ==
  /\ Step(r, "reserve")
  /\ \/ /\ OverRunLimit(r) /\ End(r, "failed") /\ UNCHANGED reservation
     \/ /\ ~OverRunLimit(r) /\ OverDailyLimit(r)
        /\ Goto(r, "release") /\ UNCHANGED <<job, reservation>>
     \/ /\ ~OverRunLimit(r) /\ ~OverDailyLimit(r)
        /\ reservation' = [reservation EXCEPT ![r] = IF @ = "none" THEN "reserved" ELSE @]
        /\ Goto(r, "batch") /\ UNCHANGED job
     \/ Goto(r, "unpriced") /\ UNCHANGED <<job, reservation>>
  /\ UNCHANGED <<status, usage, madeVars, faults>>

(* The provider is called batch by batch; a failed call or an answer whose  *)
(* cues do not match the batch fails the run.                               *)
TranslateBatches(r) ==
  /\ pc[r] \in {"batch", "unpriced"} /\ At("translation", r, pc[r])
  /\ \E l \in {IF pc[r] = "batch" THEN "store" ELSE "store_unpriced", "release"} : Goto(r, l)
  /\ UNCHANGED <<status, job, moneyVars, madeVars, faults>>

(* Cue rows are inserted batch by batch. No execution finds rows of an      *)
(* earlier one: it would have loaded a running run.                         *)
StoreTargetCues(r) ==
  /\ pc[r] \in {"store", "store_unpriced"} /\ At("translation", r, pc[r])
  /\ \E c \in Cues :
       /\ \A d \in Cues : d < c => cues[r][d] = "stored"
       /\ cues[r][c] = "none"
       /\ cues' = [cues EXCEPT ![r][c] = "stored"]
       /\ IF \A d \in Cues : d <= c
            THEN Goto(r, IF pc[r] = "store" THEN "quality" ELSE "quality_unpriced")
            ELSE UNCHANGED pc
  /\ UNCHANGED <<status, job, moneyVars, product, quality, review, faults>>

CheckQuality(r) ==
  /\ pc[r] \in {"quality", "quality_unpriced"} /\ At("translation", r, pc[r])
  /\ \E q \in {"passed", "warning", "failed"} : quality' = [quality EXCEPT ![r] = q]
  /\ IF pc[r] = "quality" THEN Goto(r, "usage") /\ UNCHANGED job
                          ELSE End(r, "retry_wait")  \* no pricing row: TypeError
  /\ UNCHANGED <<status, moneyVars, cues, product, review, faults>>

(* A plain INSERT: a second execution would add a second record. *)
BillTranslation(r) ==
  /\ Step(r, "usage")
  /\ usage' = [usage EXCEPT ![r] = @ + 1] /\ Goto(r, "commit")
  /\ UNCHANGED <<status, job, reservation, madeVars, faults>>

CommitTranslation_StillReserved(r) ==  \* mutant
  /\ Step(r, "commit")
  /\ Goto(r, "review")
  /\ UNCHANGED <<status, job, moneyVars, madeVars, faults>>
CommitTranslation(r) ==
  /\ Step(r, "commit")
  /\ reservation' = [reservation EXCEPT ![r] = "committed"] /\ Goto(r, "review")
  /\ UNCHANGED <<status, job, usage, madeVars, faults>>

NeedsReview_ManualOnly(r) == FALSE  \* mutant
NeedsReview(r) == quality[r] = "failed"
AssignReview(r) ==
  /\ Step(r, "review")
  /\ review' = [review EXCEPT ![r] = @ \/ NeedsReview(r)] /\ Goto(r, "ready")
  /\ UNCHANGED <<status, job, moneyVars, cues, product, quality, faults>>

PublishVersion(r) ==
  /\ Step(r, "ready")
  /\ product' = [product EXCEPT ![r] = "ready"] /\ Goto(r, "succeed")
  /\ UNCHANGED <<status, job, moneyVars, cues, quality, review, faults>>

SucceedTranslation(r) ==
  /\ Step(r, "succeed")
  /\ SetStatus(r, "succeeded") /\ End(r, "succeeded")
  /\ UNCHANGED <<moneyVars, madeVars, faults>>

(* reconcileStaleReservations: a row whose expires_at has passed. *)
ReconcileReservation(r) ==
  /\ kindOf[r] = "translation" /\ reservation[r] = "reserved"
  /\ MayOutliveTtl \/ pc[r] = "idle"
  /\ ReleaseHeld(r)
  /\ UNCHANGED <<caseVars, status, job, items, usage, madeVars, pc, canceller, faults>>

TranslationNext(r) ==
  \/ Translate(r) \/ LoadTranslation(r) \/ BeginTranslation(r) \/ PrepareTranslation(r)
  \/ ReserveTranslation(r) \/ TranslateBatches(r) \/ StoreTargetCues(r)
  \/ CheckQuality(r) \/ BillTranslation(r) \/ CommitTranslation(r) \/ AssignReview(r)
  \/ PublishVersion(r) \/ SucceedTranslation(r) \/ ReconcileReservation(r)
=============================================================================
