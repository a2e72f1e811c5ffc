--------------------------- MODULE PipelineProofs ---------------------------
(***************************************************************************)
(* Theorems of ContentPipeline, for every set of runs, cues and cases,      *)
(* every limit and every number of faults; the last two for executions that *)
(* do not outlive their reservations, the others whether or not they do.    *)
(***************************************************************************)
EXTENDS ContentPipeline, InductionLemmas, FiniteSetTheorems, TLAPS

(* An execution passes through these labels; outside of them it has not     *)
(* looked at its run yet.                                                   *)
Outside == {"idle", "claimed", "load"}
Unbilled == {"prepare", "reserve", "batch", "unpriced", "store", "store_unpriced",
             "quality", "quality_unpriced", "usage"}
Billed == {"commit", "review", "ready", "succeed"}
Failing == {"release", "fail"}
AllCues(r) == \A c \in Cues : cues[r][c] = "stored"

(* A translation is executed once: what it bills, stores and publishes, it  *)
(* does in the order of its labels.                                         *)
TranslationOk(r) ==
  /\ status[r] \notin {"planning", "cancel_requested", "cancelled"} /\ canceller[r].pc = "idle"
  /\ pc[r] \in Outside \union {"begin"} \union Unbilled \union Billed \union Failing
  /\ pc[r] = "begin" => status[r] = "queued"
  /\ pc[r] \in Unbilled \union Billed \union Failing => status[r] = "running"
  /\ status[r] \in {"none", "queued"} \/ pc[r] \in Unbilled => usage[r] = 0 /\ product[r] # "ready"
  /\ pc[r] \in Billed => usage[r] = 1 /\ (pc[r] # "succeed" => product[r] # "ready")
  /\ pc[r] \in Billed \ {"commit"} => reservation[r] = "committed"
  /\ pc[r] \in {"quality", "quality_unpriced", "usage"} \union Billed => AllCues(r)
  /\ pc[r] = "ready" /\ quality[r] = "failed" => review[r]

(* A speech or render run may be executed again, but not once it succeeded  *)
(* or was cancelled.                                                        *)
SpeechOrRenderOk(r) ==
  /\ quality[r] = "none"
  /\ status[r] \in {"succeeded", "cancelled"} => pc[r] \in Outside
  /\ pc[r] \in {"commit", "succeed"} => usage[r] = 1
  /\ pc[r] = "succeed" => reservation[r] = "committed"

SpeechOk(r) ==
  /\ pc[r] \in {"sync", "narrate", "usage", "commit", "succeed"} => AllCues(r)
  /\ pc[r] \in {"usage", "commit", "succeed"} \/ status[r] = "succeeded" => product[r] = "ready"

(* A waiting item is nobody's, and the cancel route concludes a run only    *)
(* when nobody can take its item any more.                                  *)
Unclaimed(r) == pc[r] = "idle" /\ job[r] \notin {"claimed", "running"}
QueueOk(r) ==
  /\ r \in items => Unclaimed(r)
  /\ status[r] = "none" => r \notin items /\ Unclaimed(r) /\ canceller[r].pc = "idle"
  /\ canceller[r].pc \in {"settle", "settle_job"} => r \notin items /\ Unclaimed(r)

MoneyOk(r) == status[r] = "succeeded" => usage[r] = 1 /\ reservation[r] = "committed"
ProductOk(r) ==
  product[r] = "ready" => /\ kindOf[r] # "render" => AllCues(r)
                          /\ quality[r] = "failed" => review[r]

RunOk(r) ==
  /\ kindOf[r] = "translation" => TranslationOk(r)
  /\ kindOf[r] # "translation" => SpeechOrRenderOk(r)
  /\ kindOf[r] = "tts" => SpeechOk(r)
  /\ QueueOk(r) /\ MoneyOk(r) /\ ProductOk(r)

InputOk(r) == from[r] # r /\ status[r] # "none" => product[from[r]] = "ready"

PipelineInv == TypeOK /\ \A r \in Runs : RunOk(r) /\ InputOk(r)

(* The type invariant in the two parts a step treats differently: the case  *)
(* never changes, and each run has its own values of the rest.              *)
ReservationRow == {"none", "reserved", "committed", "released"}
CueRow == {"none", "stored", "failed"}
Canceller == [pc : {"idle", "mark", "job", "remove", "settle", "settle_job"},
              saw : {"queued", "running"}]
Typed ==
  /\ status \in [Runs -> RunStatus]
  /\ job \in [Runs -> JobStatus]
  /\ items \subseteq Runs
  /\ reservation \in [Runs -> ReservationRow]
  /\ usage \in [Runs -> 0..1]
  /\ cues \in [Runs -> [Cues -> CueRow]]
  /\ product \in [Runs -> {"none", "processing", "ready"}]
  /\ quality \in [Runs -> {"none", "passed", "warning", "failed"}]
  /\ review \in [Runs -> BOOLEAN]
  /\ pc \in [Runs -> Pcs]
  /\ canceller \in [Runs -> Canceller]
  /\ faults \in 0..MaxFaults

LEMMA TypeParts ==
  TypeOK <=> [kind |-> kindOf, cost |-> cost, from |-> from, key |-> key] \in Cases /\ Typed
BY DEF TypeOK, Typed, ReservationRow, CueRow, Canceller

LEMMA Put ==
  ASSUME NEW S, NEW T, NEW f \in [S -> T], NEW x \in S, NEW v \in T
  PROVE  [f EXCEPT ![x] = v] \in [S -> T]
OBVIOUS

LEMMA Labels ==
  /\ {"retry_wait", "failed", "succeeded"} \subseteq JobStatus
  /\ {"idle", "begin", "release", "cue", "narrate", "provider", "start", "batch",
      "unpriced", "usage"} \subseteq Pcs
BY DEF JobStatus, Pcs

LEMMA GotoTyped ==
  ASSUME Typed, NEW r \in Runs, NEW l \in Pcs, Goto(r, l)
  PROVE  pc' \in [Runs -> Pcs]
BY DEF Typed, Goto

LEMMA EndTyped ==
  ASSUME Typed, NEW r \in Runs, NEW o \in JobStatus, End(r, o)
  PROVE  pc' \in [Runs -> Pcs] /\ job' \in [Runs -> JobStatus]
<1>1. pc' \in [Runs -> Pcs]
  BY Labels, GotoTyped DEF End
<1>2. job' \in [Runs -> JobStatus]
  BY DEF End, Typed
<1> QED BY <1>1, <1>2

LEMMA CancellerTyped ==
  ASSUME Typed, NEW r \in Runs, NEW p \in {"idle", "settle"},
         canceller' = [canceller EXCEPT ![r].pc = p]
  PROVE  canceller' \in [Runs -> Canceller]
<1>1. [canceller[r] EXCEPT !.pc = p] \in Canceller
  BY DEF Typed, Canceller
<1>2. canceller' = [canceller EXCEPT ![r] = [canceller[r] EXCEPT !.pc = p]]
  OBVIOUS
<1> QED BY <1>1, <1>2, Put DEF Typed

LEMMA CuesTyped ==
  ASSUME Typed, NEW r \in Runs, NEW c, NEW v \in CueRow, cues' = [cues EXCEPT ![r][c] = v]
  PROVE  cues' \in [Runs -> [Cues -> CueRow]]
<1>1. [cues[r] EXCEPT ![c] = v] \in [Cues -> CueRow]
  BY DEF Typed
<1>2. cues' = [cues EXCEPT ![r] = [cues[r] EXCEPT ![c] = v]]
  OBVIOUS
<1> QED BY <1>1, <1>2, Put DEF Typed

(* A step of run r leaves the others alone. *)
Others(r) ==
  /\ UNCHANGED caseVars
  /\ \A q \in Runs \ {r} :
       /\ status'[q] = status[q] /\ job'[q] = job[q] /\ (q \in items' <=> q \in items)
       /\ reservation'[q] = reservation[q] /\ usage'[q] = usage[q] /\ cues'[q] = cues[q]
       /\ product'[q] = product[q] /\ quality'[q] = quality[q] /\ review'[q] = review[q]
       /\ pc'[q] = pc[q] /\ canceller'[q] = canceller[q]

(* What the runs that take r's product rely on, and what a cancelled run is *)
(* promised.                                                                *)
Keeps(r) ==
  /\ product[r] = "ready" => product'[r] = "ready"
  /\ status[r] = "none" /\ status'[r] # "none" /\ from[r] # r => product[from[r]] = "ready"
  /\ status[r] = "cancelled" =>
       usage'[r] = usage[r] /\ (reservation'[r] = "reserved" => reservation[r] = "reserved")

LEMMA CaseFacts ==
  ASSUME TypeOK
  PROVE  /\ kindOf \in [Runs -> Kinds] /\ cost \in [Runs -> Nat \ {0}] /\ from \in [Runs -> Runs]
         /\ \A r \in Runs : from[r] # r => <<kindOf[r], kindOf[from[r]]>> \in Takes
<1> DEFINE case == [kind |-> kindOf, cost |-> cost, from |-> from, key |-> key]
<1>1. CaseOK(case)
  BY RunsAssumption DEF TypeOK
<1> QED BY <1>1 DEF CaseOK

(* Enough for a step of run r. *)
LEMMA OneRun ==
  ASSUME PipelineInv, NEW r \in Runs, Others(r), Typed', RunOk(r)', Keeps(r)
  PROVE  PipelineInv'
<1>1. TypeOK'
  BY DEF PipelineInv, Others, caseVars, TypeOK, Typed, ReservationRow, CueRow, Canceller
<1>2. ASSUME NEW q \in Runs PROVE RunOk(q)' /\ InputOk(q)'
  <2>1. RunOk(q) /\ InputOk(q)
    BY DEF PipelineInv
  <2>2. q # r => RunOk(q)'
    BY <2>1 DEF Others, caseVars, RunOk, TranslationOk, SpeechOrRenderOk, SpeechOk, QueueOk, Unclaimed,
                MoneyOk, ProductOk, AllCues
  <2>3. from[q] \in Runs /\ from' = from /\ (q # r => status'[q] = status[q])
    BY CaseFacts DEF Others, caseVars, PipelineInv
  <2>4. product[from[q]] = "ready" => product'[from[q]] = "ready"
    BY <2>3 DEF Others, Keeps
  <2>5. InputOk(q)'
    BY <2>1, <2>3, <2>4 DEF InputOk, Keeps
  <2> QED BY <2>2, <2>5
<1> QED BY <1>1, <1>2 DEF PipelineInv

-----------------------------------------------------------------------------
(* The steps of translation runs.                                           *)

LEMMA TranslationTyped ==
  ASSUME Typed, NEW r \in Runs, TranslationNext(r), RunOk(r)
  PROVE  Typed'
<1>1. CASE Translate(r)
  BY <1>1, RunsAssumption DEF Translate, SetStatus, Admit, Fault, caseVars,
         moneyVars, Typed, RunStatus, JobStatus
<1>2. CASE LoadTranslation(r)
  <2>1. pc' \in [Runs -> Pcs] /\ job' \in [Runs -> JobStatus]
    <3>1. \/ \E l \in Pcs : Goto(r, l) /\ UNCHANGED job
          \/ \E o \in JobStatus : End(r, o)
          \/ UNCHANGED <<pc, job>>
      BY <1>2, Labels DEF LoadTranslation
    <3> QED BY <3>1, GotoTyped, EndTyped DEF Typed
  <2> QED BY <1>2, <2>1 DEF LoadTranslation, Step, At, caseVars, moneyVars, madeVars, Typed
<1>3. CASE BeginTranslation(r)
  BY <1>3 DEF BeginTranslation, Step, At, SetStatus, Goto, caseVars, moneyVars,
         madeVars, Typed, RunStatus, Pcs
<1>4. CASE PrepareTranslation(r)
  BY <1>4 DEF PrepareTranslation, Step, At, Goto, caseVars, moneyVars,
         madeVars, Typed, Pcs
<1>5. CASE ReserveTranslation(r)
  <2>1. pc' \in [Runs -> Pcs] /\ job' \in [Runs -> JobStatus]
    <3>1. \/ \E l \in Pcs : Goto(r, l) /\ UNCHANGED job
          \/ \E o \in JobStatus : End(r, o)
          \/ UNCHANGED <<pc, job>>
      BY <1>5, Labels DEF ReserveTranslation
    <3> QED BY <3>1, GotoTyped, EndTyped DEF Typed
  <2>2. \E v \in ReservationRow :
          reservation' = reservation \/ reservation' = [reservation EXCEPT ![r] = v]
    BY <1>5 DEF ReserveTranslation, Typed, ReservationRow
  <2>3. reservation' \in [Runs -> ReservationRow]
    BY <2>2, Put DEF Typed
  <2> QED BY <1>5, <2>1, <2>3 DEF ReserveTranslation, Step, At, caseVars, moneyVars, madeVars, Typed
<1>6. CASE TranslateBatches(r)
  BY <1>6 DEF TranslateBatches, At, Goto, caseVars, moneyVars, madeVars, Typed,
         Pcs
<1>7. CASE StoreTargetCues(r)
  <2>1. pc' \in [Runs -> Pcs]
    BY <1>7 DEF StoreTargetCues, Goto, Typed, Pcs
  <2>2. cues' \in [Runs -> [Cues -> CueRow]]
    BY <1>7, CuesTyped DEF StoreTargetCues, CueRow
  <2> QED BY <1>7, <2>1, <2>2 DEF StoreTargetCues, At, caseVars, moneyVars, madeVars, Typed
<1>8. CASE CheckQuality(r)
  <2>1. pc' \in [Runs -> Pcs] /\ job' \in [Runs -> JobStatus]
    <3>1. \/ \E l \in Pcs : Goto(r, l) /\ UNCHANGED job
          \/ \E o \in JobStatus : End(r, o)
          \/ UNCHANGED <<pc, job>>
      BY <1>8, Labels DEF CheckQuality
    <3> QED BY <3>1, GotoTyped, EndTyped DEF Typed
  <2>2. quality' \in [Runs -> {"none", "passed", "warning", "failed"}]
    BY <1>8 DEF CheckQuality, Typed
  <2> QED BY <1>8, <2>1, <2>2 DEF CheckQuality, At, caseVars, moneyVars, madeVars, Typed
<1>9. CASE BillTranslation(r)
  <2>1. usage[r] = 0
    BY <1>9 DEF BillTranslation, Step, At, RunOk, TranslationOk, Unbilled
  <2>2. usage' \in [Runs -> 0..1] /\ pc' \in [Runs -> Pcs]
    BY <1>9, <2>1 DEF BillTranslation, Goto, Typed, Pcs
  <2> QED BY <1>9, <2>2 DEF BillTranslation, Step, At, caseVars, moneyVars, madeVars, Typed
<1>10. CASE CommitTranslation(r)
  BY <1>10 DEF CommitTranslation, Step, At, Goto, caseVars, madeVars, Typed,
         Pcs, ReservationRow
<1>11. CASE AssignReview(r)
  BY <1>11 DEF AssignReview, Step, At, Goto, caseVars, moneyVars, Typed, Pcs
<1>12. CASE PublishVersion(r)
  BY <1>12 DEF PublishVersion, Step, At, Goto, caseVars, moneyVars, Typed, Pcs
<1>13. CASE SucceedTranslation(r)
  BY <1>13 DEF SucceedTranslation, Step, At, SetStatus, Goto, End, caseVars,
         moneyVars, madeVars, Typed, RunStatus, JobStatus, Pcs
<1>14. CASE ReconcileReservation(r)
  BY <1>14 DEF ReconcileReservation, ReleaseHeld, caseVars, madeVars, Typed,
         ReservationRow
<1> QED BY <1>1, <1>2, <1>3, <1>4, <1>5, <1>6, <1>7, <1>8, <1>9, <1>10, <1>11,
           <1>12, <1>13, <1>14 DEF TranslationNext

LEMMA TranslationOthers ==
  ASSUME Typed, NEW r \in Runs, TranslationNext(r)
  PROVE  Others(r)
<1> USE DEF Step, At, SetStatus, Goto, End, Admit, Fault, ReleaseHeld,
            caseVars, moneyVars, madeVars, Typed, Others
<1>1. CASE Translate(r)
  BY <1>1 DEF Translate
<1>2. CASE LoadTranslation(r)
  BY <1>2 DEF LoadTranslation
<1>3. CASE BeginTranslation(r)
  BY <1>3 DEF BeginTranslation
<1>4. CASE PrepareTranslation(r)
  BY <1>4 DEF PrepareTranslation
<1>5. CASE ReserveTranslation(r)
  BY <1>5 DEF ReserveTranslation
<1>6. CASE TranslateBatches(r)
  BY <1>6 DEF TranslateBatches
<1>7. CASE StoreTargetCues(r)
  BY <1>7 DEF StoreTargetCues
<1>8. CASE CheckQuality(r)
  BY <1>8 DEF CheckQuality
<1>9. CASE BillTranslation(r)
  BY <1>9 DEF BillTranslation
<1>10. CASE CommitTranslation(r)
  BY <1>10 DEF CommitTranslation
<1>11. CASE AssignReview(r)
  BY <1>11 DEF AssignReview
<1>12. CASE PublishVersion(r)
  BY <1>12 DEF PublishVersion
<1>13. CASE SucceedTranslation(r)
  BY <1>13 DEF SucceedTranslation
<1>14. CASE ReconcileReservation(r)
  BY <1>14 DEF ReconcileReservation
<1> QED BY <1>1, <1>2, <1>3, <1>4, <1>5, <1>6, <1>7, <1>8, <1>9, <1>10, <1>11,
           <1>12, <1>13, <1>14 DEF TranslationNext

LEMMA TranslationRun ==
  ASSUME Typed, kindOf \in [Runs -> Kinds], NEW r \in Runs, TranslationNext(r), RunOk(r)
  PROVE  RunOk(r)'
<1> USE DEF Step, At, SetStatus, Goto, End, Admit, Fault, ReleaseHeld,
            caseVars, moneyVars, madeVars, Typed, Kinds, RunOk, QueueOk,
            Unclaimed, MoneyOk, ProductOk, TranslationOk, SpeechOrRenderOk,
            SpeechOk, AllCues, Outside, Unbilled, Billed, Failing
<1>1. CASE Translate(r)
  BY <1>1 DEF Translate
<1>2. CASE LoadTranslation(r)
  <2>1. /\ kindOf[r] = "translation" /\ UNCHANGED <<kindOf, status, items, moneyVars, madeVars, canceller>>
        /\ pc[r] = "load"
        /\ \/ pc'[r] = "begin" /\ status[r] = "queued" /\ job' = job
           \/ pc'[r] = "idle" /\ job'[r] \in {job[r], "failed"}
    BY <1>2 DEF LoadTranslation, Translatable
  <2> QED BY <2>1
<1>3. CASE BeginTranslation(r)
  BY <1>3 DEF BeginTranslation
<1>4. CASE PrepareTranslation(r)
  BY <1>4 DEF PrepareTranslation
<1>5. CASE ReserveTranslation(r)
  BY <1>5 DEF ReserveTranslation
<1>6. CASE TranslateBatches(r)
  BY <1>6 DEF TranslateBatches
<1>7. CASE StoreTargetCues(r)
  <2>1. PICK c \in Cues :
          /\ \A d \in Cues : d < c => cues[r][d] = "stored"
          /\ cues' = [cues EXCEPT ![r][c] = "stored"]
          /\ \/ (\A d \in Cues : d <= c) /\ pc'[r] \in {"quality", "quality_unpriced"}
             \/ pc' = pc
    BY <1>7 DEF StoreTargetCues
  <2>2. /\ kindOf[r] = "translation" /\ pc[r] \in {"store", "store_unpriced"}
        /\ UNCHANGED <<kindOf, status, job, items, moneyVars, product, quality, review, canceller>>
    BY <1>7 DEF StoreTargetCues
  <2>3. \A d \in Cues : cues[r][d] = "stored" \/ d = c => cues'[r][d] = "stored"
    BY <2>1
  <2>4. pc' = pc \/ AllCues(r)'
    <3>1. (\A d \in Cues : d <= c) => \A d \in Cues : d < c \/ d = c
      BY RunsAssumption
    <3> QED BY <2>1, <2>3, <3>1
  <2>5. product[r] # "ready"
    BY <2>2
  <2> QED BY <2>1, <2>2, <2>4, <2>5
<1>8. CASE CheckQuality(r)
  BY <1>8 DEF CheckQuality
<1>9. CASE BillTranslation(r)
  BY <1>9 DEF BillTranslation
<1>10. CASE CommitTranslation(r)
  BY <1>10 DEF CommitTranslation
<1>11. CASE AssignReview(r)
  <2>1. /\ kindOf[r] = "translation"
        /\ UNCHANGED <<kindOf, status, job, items, moneyVars, cues, product, quality, canceller>>
        /\ pc[r] = "review" /\ pc'[r] = "ready"
        /\ (quality[r] = "failed" => review'[r]) /\ (review[r] => review'[r])
    BY <1>11 DEF AssignReview, NeedsReview
  <2> QED BY <2>1
<1>12. CASE PublishVersion(r)
  BY <1>12 DEF PublishVersion
<1>13. CASE SucceedTranslation(r)
  BY <1>13 DEF SucceedTranslation
<1>14. CASE ReconcileReservation(r)
  BY <1>14 DEF ReconcileReservation
<1> QED BY <1>1, <1>2, <1>3, <1>4, <1>5, <1>6, <1>7, <1>8, <1>9, <1>10, <1>11,
           <1>12, <1>13, <1>14 DEF TranslationNext

LEMMA TranslationKeeps ==
  ASSUME PipelineInv, NEW r \in Runs, TranslationNext(r)
  PROVE  Keeps(r)
<1> USE DEF Step, At, SetStatus, Goto, End, Admit, Fault, ReleaseHeld,
            caseVars, moneyVars, madeVars, TypeOK, Kinds, Keeps, RunOk,
            QueueOk, Unclaimed, MoneyOk, ProductOk, TranslationOk,
            SpeechOrRenderOk, SpeechOk, AllCues, Outside, Unbilled, Billed,
            Failing
<1>0. TypeOK /\ RunOk(r) /\ kindOf \in [Runs -> Kinds]
  BY CaseFacts DEF PipelineInv
<1>1. CASE Translate(r)
  BY <1>0, <1>1 DEF Translate
<1>2. CASE LoadTranslation(r)
  BY <1>0, <1>2 DEF LoadTranslation
<1>3. CASE BeginTranslation(r)
  BY <1>0, <1>3 DEF BeginTranslation
<1>4. CASE PrepareTranslation(r)
  BY <1>0, <1>4 DEF PrepareTranslation
<1>5. CASE ReserveTranslation(r)
  BY <1>0, <1>5 DEF ReserveTranslation
<1>6. CASE TranslateBatches(r)
  BY <1>0, <1>6 DEF TranslateBatches
<1>7. CASE StoreTargetCues(r)
  BY <1>0, <1>7 DEF StoreTargetCues
<1>8. CASE CheckQuality(r)
  BY <1>0, <1>8 DEF CheckQuality
<1>9. CASE BillTranslation(r)
  BY <1>0, <1>9 DEF BillTranslation
<1>10. CASE CommitTranslation(r)
  BY <1>0, <1>10 DEF CommitTranslation
<1>11. CASE AssignReview(r)
  BY <1>0, <1>11 DEF AssignReview
<1>12. CASE PublishVersion(r)
  BY <1>0, <1>12 DEF PublishVersion
<1>13. CASE SucceedTranslation(r)
  BY <1>0, <1>13 DEF SucceedTranslation
<1>14. CASE ReconcileReservation(r)
  BY <1>0, <1>14 DEF ReconcileReservation
<1> QED BY <1>1, <1>2, <1>3, <1>4, <1>5, <1>6, <1>7, <1>8, <1>9, <1>10, <1>11,
           <1>12, <1>13, <1>14 DEF TranslationNext

-----------------------------------------------------------------------------
(* The steps of speech runs.                                                *)

LEMMA TtsTyped ==
  ASSUME Typed, NEW r \in Runs, TtsNext(r), RunOk(r)
  PROVE  Typed'
<1>1. CASE CreateTtsRun(r)
  BY <1>1, RunsAssumption DEF CreateTtsRun, SetStatus, Admit, Fault, caseVars,
         moneyVars, madeVars, Typed, RunStatus, JobStatus
<1>2. CASE LoadTtsRun(r)
  <2>1. pc' \in [Runs -> Pcs] /\ job' \in [Runs -> JobStatus]
    <3>1. \/ \E l \in Pcs : Goto(r, l) /\ UNCHANGED job
          \/ \E o \in JobStatus : End(r, o)
          \/ UNCHANGED <<pc, job>>
      BY <1>2, Labels DEF LoadTtsRun
    <3> QED BY <3>1, GotoTyped, EndTyped DEF Typed
  <2> QED BY <1>2, <2>1 DEF LoadTtsRun, TtsStep, At, caseVars, moneyVars, madeVars, Typed
<1>3. CASE BeginTts(r)
  BY <1>3 DEF BeginTts, TtsStep, At, SetStatus, Goto, caseVars, moneyVars,
         madeVars, Typed, RunStatus, Pcs
<1>4. CASE PrepareTts(r)
  BY <1>4 DEF PrepareTts, TtsStep, At, Goto, caseVars, moneyVars, madeVars,
         Typed, Pcs
<1>5. CASE ReserveTts(r)
  <2>1. pc' \in [Runs -> Pcs]
    BY <1>5, Labels, GotoTyped DEF ReserveTts
  <2>2. reservation' \in [Runs -> ReservationRow]
    BY <1>5 DEF ReserveTts, Typed, ReservationRow
  <2>3. faults' \in 0..MaxFaults
    BY <1>5, RunsAssumption DEF ReserveTts, Fault, Typed
  <2> QED BY <1>5, <2>1, <2>2, <2>3 DEF ReserveTts, TtsStep, At, caseVars, moneyVars, madeVars, Typed
<1>6. CASE GetTtsProvider(r)
  BY <1>6 DEF GetTtsProvider, TtsStep, At, Goto, caseVars, moneyVars, madeVars,
         Typed, Pcs
<1>7. CASE CheckTtsCancel(r)
  BY <1>7 DEF CheckTtsCancel, TtsStep, At, Goto, caseVars, moneyVars, madeVars,
         Typed, Pcs
<1>8. CASE SynthesizeCue(r)
  <2>1. pc' \in [Runs -> Pcs] /\ job' \in [Runs -> JobStatus]
    <3>1. \/ \E l \in Pcs : Goto(r, l) /\ UNCHANGED job
          \/ \E o \in JobStatus : End(r, o)
          \/ UNCHANGED <<pc, job>>
      BY <1>8, Labels DEF SynthesizeCue
    <3> QED BY <3>1, GotoTyped, EndTyped DEF Typed
  <2>2. cues' = cues \/ \E v \in CueRow : cues' = [cues EXCEPT ![r][NextCue(r)] = v]
    BY <1>8 DEF SynthesizeCue, CueRow
  <2>3. cues' \in [Runs -> [Cues -> CueRow]]
    BY <2>2, CuesTyped DEF Typed
  <2> QED BY <1>8, <2>1, <2>3 DEF SynthesizeCue, TtsStep, At, caseVars, moneyVars, madeVars, Typed
<1>9. CASE StoreSyncPlan(r)
  <2>1. pc' \in [Runs -> Pcs] /\ job' \in [Runs -> JobStatus]
    <3>1. \/ \E l \in Pcs : Goto(r, l) /\ UNCHANGED job
          \/ \E o \in JobStatus : End(r, o)
          \/ UNCHANGED <<pc, job>>
      BY <1>9, Labels DEF StoreSyncPlan
    <3> QED BY <3>1, GotoTyped, EndTyped DEF Typed
  <2> QED BY <1>9, <2>1 DEF StoreSyncPlan, TtsStep, At, caseVars, moneyVars, madeVars, Typed
<1>10. CASE StoreNarration(r)
  BY <1>10 DEF StoreNarration, TtsStep, At, Goto, caseVars, moneyVars, Typed,
         Pcs
<1>11. CASE BillTts(r)
  BY <1>11 DEF BillTts, TtsStep, At, Goto, caseVars, madeVars, Typed, Pcs
<1>12. CASE CommitTts(r)
  BY <1>12 DEF CommitTts, TtsStep, At, Goto, caseVars, madeVars, Typed, Pcs,
         ReservationRow
<1>13. CASE SucceedTts(r)
  BY <1>13 DEF SucceedTts, TtsStep, At, SetStatus, Goto, End, caseVars,
         moneyVars, madeVars, Typed, RunStatus, JobStatus, Pcs
<1> QED BY <1>1, <1>2, <1>3, <1>4, <1>5, <1>6, <1>7, <1>8, <1>9, <1>10, <1>11,
           <1>12, <1>13 DEF TtsNext

LEMMA TtsOthers ==
  ASSUME Typed, NEW r \in Runs, TtsNext(r)
  PROVE  Others(r)
<1> USE DEF TtsStep, At, SetStatus, Goto, End, Admit, Fault, caseVars,
            moneyVars, madeVars, Typed, Others
<1>1. CASE CreateTtsRun(r)
  BY <1>1 DEF CreateTtsRun
<1>2. CASE LoadTtsRun(r)
  BY <1>2 DEF LoadTtsRun
<1>3. CASE BeginTts(r)
  BY <1>3 DEF BeginTts
<1>4. CASE PrepareTts(r)
  BY <1>4 DEF PrepareTts
<1>5. CASE ReserveTts(r)
  BY <1>5 DEF ReserveTts
<1>6. CASE GetTtsProvider(r)
  BY <1>6 DEF GetTtsProvider
<1>7. CASE CheckTtsCancel(r)
  BY <1>7 DEF CheckTtsCancel
<1>8. CASE SynthesizeCue(r)
  BY <1>8 DEF SynthesizeCue
<1>9. CASE StoreSyncPlan(r)
  BY <1>9 DEF StoreSyncPlan
<1>10. CASE StoreNarration(r)
  BY <1>10 DEF StoreNarration
<1>11. CASE BillTts(r)
  BY <1>11 DEF BillTts
<1>12. CASE CommitTts(r)
  BY <1>12 DEF CommitTts
<1>13. CASE SucceedTts(r)
  BY <1>13 DEF SucceedTts
<1> QED BY <1>1, <1>2, <1>3, <1>4, <1>5, <1>6, <1>7, <1>8, <1>9, <1>10, <1>11,
           <1>12, <1>13 DEF TtsNext

LEMMA TtsRun ==
  ASSUME Typed, kindOf \in [Runs -> Kinds], NEW r \in Runs, TtsNext(r), RunOk(r)
  PROVE  RunOk(r)'
<1> USE DEF TtsStep, At, SetStatus, Goto, End, Admit, Fault, caseVars,
            moneyVars, madeVars, Typed, Kinds, RunOk, QueueOk, Unclaimed,
            MoneyOk, ProductOk, TranslationOk, SpeechOrRenderOk, SpeechOk,
            AllCues, Outside, Unbilled, Billed, Failing
<1>1. CASE CreateTtsRun(r)
  BY <1>1 DEF CreateTtsRun
<1>2. CASE LoadTtsRun(r)
  BY <1>2 DEF LoadTtsRun
<1>3. CASE BeginTts(r)
  BY <1>3 DEF BeginTts
<1>4. CASE PrepareTts(r)
  BY <1>4 DEF PrepareTts
<1>5. CASE ReserveTts(r)
  BY <1>5 DEF ReserveTts
<1>6. CASE GetTtsProvider(r)
  BY <1>6 DEF GetTtsProvider
<1>7. CASE CheckTtsCancel(r)
  <2>1. /\ kindOf[r] = "tts" /\ UNCHANGED <<kindOf, status, job, items, moneyVars, madeVars, canceller>>
        /\ pc[r] = "cue"
        /\ \/ pc'[r] = "sync" /\ Remaining(r) = {}
           \/ pc'[r] \in {"cancel_release", "synthesize"}
    BY <1>7 DEF CheckTtsCancel
  <2>2. Remaining(r) = {} => AllCues(r)
    BY DEF Remaining, Synthesized
  <2> QED BY <2>1, <2>2
<1>8. CASE SynthesizeCue(r)
  BY <1>8 DEF SynthesizeCue
<1>9. CASE StoreSyncPlan(r)
  BY <1>9 DEF StoreSyncPlan
<1>10. CASE StoreNarration(r)
  BY <1>10 DEF StoreNarration
<1>11. CASE BillTts(r)
  BY <1>11 DEF BillTts
<1>12. CASE CommitTts(r)
  BY <1>12 DEF CommitTts
<1>13. CASE SucceedTts(r)
  BY <1>13 DEF SucceedTts
<1> QED BY <1>1, <1>2, <1>3, <1>4, <1>5, <1>6, <1>7, <1>8, <1>9, <1>10, <1>11,
           <1>12, <1>13 DEF TtsNext

LEMMA TtsKeeps ==
  ASSUME PipelineInv, NEW r \in Runs, TtsNext(r)
  PROVE  Keeps(r)
<1> USE DEF TtsStep, At, SetStatus, Goto, End, Admit, Fault, caseVars,
            moneyVars, madeVars, TypeOK, Kinds, Keeps, RunOk, QueueOk,
            Unclaimed, MoneyOk, ProductOk, TranslationOk, SpeechOrRenderOk,
            SpeechOk, AllCues, Outside, Unbilled, Billed, Failing,
            SpeakableVersion
<1>0. TypeOK /\ RunOk(r) /\ kindOf \in [Runs -> Kinds]
  BY CaseFacts DEF PipelineInv
<1>1. CASE CreateTtsRun(r)
  BY <1>0, <1>1 DEF CreateTtsRun
<1>2. CASE LoadTtsRun(r)
  BY <1>0, <1>2 DEF LoadTtsRun
<1>3. CASE BeginTts(r)
  BY <1>0, <1>3 DEF BeginTts
<1>4. CASE PrepareTts(r)
  BY <1>0, <1>4 DEF PrepareTts
<1>5. CASE ReserveTts(r)
  BY <1>0, <1>5 DEF ReserveTts
<1>6. CASE GetTtsProvider(r)
  BY <1>0, <1>6 DEF GetTtsProvider
<1>7. CASE CheckTtsCancel(r)
  BY <1>0, <1>7 DEF CheckTtsCancel
<1>8. CASE SynthesizeCue(r)
  BY <1>0, <1>8 DEF SynthesizeCue
<1>9. CASE StoreSyncPlan(r)
  BY <1>0, <1>9 DEF StoreSyncPlan
<1>10. CASE StoreNarration(r)
  BY <1>0, <1>10 DEF StoreNarration
<1>11. CASE BillTts(r)
  BY <1>0, <1>11 DEF BillTts
<1>12. CASE CommitTts(r)
  BY <1>0, <1>12 DEF CommitTts
<1>13. CASE SucceedTts(r)
  BY <1>0, <1>13 DEF SucceedTts
<1> QED BY <1>1, <1>2, <1>3, <1>4, <1>5, <1>6, <1>7, <1>8, <1>9, <1>10, <1>11,
           <1>12, <1>13 DEF TtsNext

-----------------------------------------------------------------------------
(* The steps of render runs.                                                *)

LEMMA RenderTyped ==
  ASSUME Typed, NEW r \in Runs, RenderNext(r), RunOk(r)
  PROVE  Typed'
<1>1. CASE CreateRenderRun(r)
  BY <1>1, RunsAssumption DEF CreateRenderRun, SetStatus, Admit, Fault,
         caseVars, moneyVars, madeVars, Typed, RunStatus, JobStatus
<1>2. CASE LoadRenderRun(r)
  <2>1. pc' \in [Runs -> Pcs] /\ job' \in [Runs -> JobStatus]
    <3>1. \/ \E l \in Pcs : Goto(r, l) /\ UNCHANGED job
          \/ \E o \in JobStatus : End(r, o)
          \/ UNCHANGED <<pc, job>>
      BY <1>2, Labels DEF LoadRenderRun
    <3> QED BY <3>1, GotoTyped, EndTyped DEF Typed
  <2> QED BY <1>2, <2>1 DEF LoadRenderRun, RenderStep, At, caseVars, moneyVars, madeVars, Typed
<1>3. CASE PlanRender(r)
  BY <1>3 DEF PlanRender, RenderStep, At, SetStatus, Goto, caseVars, moneyVars,
         madeVars, Typed, RunStatus, Pcs
<1>4. CASE PrepareRender(r)
  BY <1>4 DEF PrepareRender, RenderStep, At, Goto, caseVars, moneyVars,
         madeVars, Typed, Pcs
<1>5. CASE ReserveRender(r)
  <2>1. pc' \in [Runs -> Pcs]
    BY <1>5, Labels, GotoTyped DEF ReserveRender
  <2>2. reservation' \in [Runs -> ReservationRow]
    BY <1>5 DEF ReserveRender, Typed, ReservationRow
  <2>3. faults' \in 0..MaxFaults
    BY <1>5, RunsAssumption DEF ReserveRender, Fault, Typed
  <2> QED BY <1>5, <2>1, <2>2, <2>3 DEF ReserveRender, RenderStep, At, caseVars, moneyVars, madeVars, Typed
<1>6. CASE StartRender(r)
  BY <1>6 DEF StartRender, RenderStep, At, SetStatus, Goto, caseVars,
         moneyVars, madeVars, Typed, RunStatus, Pcs
<1>7. CASE RunFfmpeg(r)
  BY <1>7, RunsAssumption DEF RunFfmpeg, RenderStep, At, Goto, caseVars,
         moneyVars, madeVars, Typed, Pcs
<1>8. CASE StoreOutput(r)
  BY <1>8 DEF StoreOutput, RenderStep, At, Goto, caseVars, moneyVars, Typed,
         Pcs
<1>9. CASE BillRender(r)
  BY <1>9 DEF BillRender, RenderStep, At, Goto, caseVars, madeVars, Typed, Pcs
<1>10. CASE CommitRender(r)
  BY <1>10 DEF CommitRender, RenderStep, At, Goto, caseVars, madeVars, Typed,
         Pcs, ReservationRow
<1>11. CASE SucceedRender(r)
  BY <1>11 DEF SucceedRender, RenderStep, At, SetStatus, Goto, End, caseVars,
         moneyVars, madeVars, Typed, RunStatus, JobStatus, Pcs
<1> QED BY <1>1, <1>2, <1>3, <1>4, <1>5, <1>6, <1>7, <1>8, <1>9, <1>10, <1>11 DEF RenderNext

LEMMA RenderOthers ==
  ASSUME Typed, NEW r \in Runs, RenderNext(r)
  PROVE  Others(r)
<1> USE DEF RenderStep, At, SetStatus, Goto, End, Admit, Fault, caseVars,
            moneyVars, madeVars, Typed, Others
<1>1. CASE CreateRenderRun(r)
  BY <1>1 DEF CreateRenderRun
<1>2. CASE LoadRenderRun(r)
  BY <1>2 DEF LoadRenderRun
<1>3. CASE PlanRender(r)
  BY <1>3 DEF PlanRender
<1>4. CASE PrepareRender(r)
  BY <1>4 DEF PrepareRender
<1>5. CASE ReserveRender(r)
  BY <1>5 DEF ReserveRender
<1>6. CASE StartRender(r)
  BY <1>6 DEF StartRender
<1>7. CASE RunFfmpeg(r)
  BY <1>7 DEF RunFfmpeg
<1>8. CASE StoreOutput(r)
  BY <1>8 DEF StoreOutput
<1>9. CASE BillRender(r)
  BY <1>9 DEF BillRender
<1>10. CASE CommitRender(r)
  BY <1>10 DEF CommitRender
<1>11. CASE SucceedRender(r)
  BY <1>11 DEF SucceedRender
<1> QED BY <1>1, <1>2, <1>3, <1>4, <1>5, <1>6, <1>7, <1>8, <1>9, <1>10, <1>11 DEF RenderNext

LEMMA RenderRun ==
  ASSUME Typed, kindOf \in [Runs -> Kinds], NEW r \in Runs, RenderNext(r), RunOk(r)
  PROVE  RunOk(r)'
<1> USE DEF RenderStep, At, SetStatus, Goto, End, Admit, Fault, caseVars,
            moneyVars, madeVars, Typed, Kinds, RunOk, QueueOk, Unclaimed,
            MoneyOk, ProductOk, TranslationOk, SpeechOrRenderOk, SpeechOk,
            AllCues, Outside, Unbilled, Billed, Failing
<1>1. CASE CreateRenderRun(r)
  BY <1>1 DEF CreateRenderRun
<1>2. CASE LoadRenderRun(r)
  BY <1>2 DEF LoadRenderRun
<1>3. CASE PlanRender(r)
  BY <1>3 DEF PlanRender
<1>4. CASE PrepareRender(r)
  BY <1>4 DEF PrepareRender
<1>5. CASE ReserveRender(r)
  BY <1>5 DEF ReserveRender
<1>6. CASE StartRender(r)
  BY <1>6 DEF StartRender
<1>7. CASE RunFfmpeg(r)
  BY <1>7 DEF RunFfmpeg
<1>8. CASE StoreOutput(r)
  BY <1>8 DEF StoreOutput
<1>9. CASE BillRender(r)
  BY <1>9 DEF BillRender
<1>10. CASE CommitRender(r)
  BY <1>10 DEF CommitRender
<1>11. CASE SucceedRender(r)
  BY <1>11 DEF SucceedRender
<1> QED BY <1>1, <1>2, <1>3, <1>4, <1>5, <1>6, <1>7, <1>8, <1>9, <1>10, <1>11 DEF RenderNext

LEMMA RenderKeeps ==
  ASSUME PipelineInv, NEW r \in Runs, RenderNext(r)
  PROVE  Keeps(r)
<1> USE DEF RenderStep, At, SetStatus, Goto, End, Admit, Fault, caseVars,
            moneyVars, madeVars, TypeOK, Kinds, Keeps, RunOk, QueueOk,
            Unclaimed, MoneyOk, ProductOk, TranslationOk, SpeechOrRenderOk,
            SpeechOk, AllCues, Outside, Unbilled, Billed, Failing
<1>0. TypeOK /\ RunOk(r) /\ kindOf \in [Runs -> Kinds]
  BY CaseFacts DEF PipelineInv
<1>1. CASE CreateRenderRun(r)
  <2>1. UNCHANGED <<usage, reservation, product>> /\ status[r] = "none" /\ kindOf[r] = "render"
    BY <1>0, <1>1 DEF CreateRenderRun
  <2>2. from[r] # r => product[from[r]] = "ready"
    <3>1. from[r] # r => kindOf[from[r]] = "tts" /\ status[from[r]] = "succeeded" /\ RunOk(from[r])
      BY <1>1, <2>1, CaseFacts DEF CreateRenderRun, NarrationGiven, Takes, PipelineInv
    <3> QED BY <3>1
  <2> QED BY <2>1, <2>2
<1>2. CASE LoadRenderRun(r)
  BY <1>0, <1>2 DEF LoadRenderRun
<1>3. CASE PlanRender(r)
  BY <1>0, <1>3 DEF PlanRender
<1>4. CASE PrepareRender(r)
  BY <1>0, <1>4 DEF PrepareRender
<1>5. CASE ReserveRender(r)
  BY <1>0, <1>5 DEF ReserveRender
<1>6. CASE StartRender(r)
  BY <1>0, <1>6 DEF StartRender
<1>7. CASE RunFfmpeg(r)
  BY <1>0, <1>7 DEF RunFfmpeg
<1>8. CASE StoreOutput(r)
  BY <1>0, <1>8 DEF StoreOutput
<1>9. CASE BillRender(r)
  BY <1>0, <1>9 DEF BillRender
<1>10. CASE CommitRender(r)
  BY <1>0, <1>10 DEF CommitRender
<1>11. CASE SucceedRender(r)
  BY <1>0, <1>11 DEF SucceedRender
<1> QED BY <1>1, <1>2, <1>3, <1>4, <1>5, <1>6, <1>7, <1>8, <1>9, <1>10, <1>11 DEF RenderNext

-----------------------------------------------------------------------------
(* The steps of the general queue.                                          *)

LEMMA QueueTyped ==
  ASSUME Typed, NEW r \in Runs, Queue(r), RunOk(r)
  PROVE  Typed'
<1>1. CASE Claim(r)
  <2>1. pc' \in [Runs -> Pcs] /\ job' \in [Runs -> JobStatus]
    BY <1>1 DEF Claim, Goto, Typed, JobStatus, Pcs
  <2> QED BY <1>1, <2>1 DEF Claim, caseVars, moneyVars, madeVars, Typed
<1>2. CASE Start(r)
  BY <1>2 DEF Start, Goto, caseVars, moneyVars, madeVars, Typed, JobStatus, Pcs
<1>3. CASE QueryError(r)
  BY <1>3, RunsAssumption DEF QueryError, Goto, End, Fault, caseVars,
         moneyVars, madeVars, Typed, JobStatus, Pcs
<1>4. CASE Crash(r)
  BY <1>4, RunsAssumption DEF Crash, Goto, Fault, caseVars, moneyVars,
         madeVars, Typed, Pcs
<1>5. CASE Recover(r)
  BY <1>5 DEF Recover, caseVars, moneyVars, madeVars, Typed, JobStatus
<1> QED BY <1>1, <1>2, <1>3, <1>4, <1>5 DEF Queue

LEMMA QueueOthers ==
  ASSUME Typed, NEW r \in Runs, Queue(r)
  PROVE  Others(r)
<1> USE DEF Goto, End, Fault, caseVars, moneyVars, madeVars, Typed, Others
<1>1. CASE Claim(r)
  BY <1>1 DEF Claim
<1>2. CASE Start(r)
  BY <1>2 DEF Start
<1>3. CASE QueryError(r)
  BY <1>3 DEF QueryError
<1>4. CASE Crash(r)
  BY <1>4 DEF Crash
<1>5. CASE Recover(r)
  BY <1>5 DEF Recover
<1> QED BY <1>1, <1>2, <1>3, <1>4, <1>5 DEF Queue

LEMMA QueueRun ==
  ASSUME Typed, kindOf \in [Runs -> Kinds], NEW r \in Runs, Queue(r), RunOk(r)
  PROVE  RunOk(r)'
<1> USE DEF Goto, End, Fault, caseVars, moneyVars, madeVars, Typed, Kinds,
            RunOk, QueueOk, Unclaimed, MoneyOk, ProductOk, TranslationOk,
            SpeechOrRenderOk, SpeechOk, AllCues, Outside, Unbilled, Billed,
            Failing
<1>1. CASE Claim(r)
  <2>1. /\ UNCHANGED <<kindOf, status, moneyVars, madeVars, canceller>>
        /\ r \in items /\ items' = items \ {r} /\ pc[r] = "idle"
        /\ \/ pc'[r] = "idle" /\ job' = job
           \/ pc'[r] = "claimed"
    BY <1>1 DEF Claim
  <2>2. canceller[r].pc \notin {"settle", "settle_job"} /\ status[r] # "none"
    BY <2>1
  <2> QED BY <2>1, <2>2
<1>2. CASE Start(r)
  BY <1>2 DEF Start
<1>3. CASE QueryError(r)
  BY <1>3 DEF QueryError
<1>4. CASE Crash(r)
  BY <1>4 DEF Crash
<1>5. CASE Recover(r)
  BY <1>5 DEF Recover
<1> QED BY <1>1, <1>2, <1>3, <1>4, <1>5 DEF Queue

LEMMA QueueKeeps ==
  ASSUME PipelineInv, NEW r \in Runs, Queue(r)
  PROVE  Keeps(r)
<1> USE DEF Goto, End, Fault, caseVars, moneyVars, madeVars, TypeOK, Kinds,
            Keeps, RunOk, QueueOk, Unclaimed, MoneyOk, ProductOk,
            TranslationOk, SpeechOrRenderOk, SpeechOk, AllCues, Outside,
            Unbilled, Billed, Failing
<1>0. TypeOK /\ RunOk(r) /\ kindOf \in [Runs -> Kinds]
  BY CaseFacts DEF PipelineInv
<1>1. CASE Claim(r)
  BY <1>0, <1>1 DEF Claim
<1>2. CASE Start(r)
  BY <1>0, <1>2 DEF Start
<1>3. CASE QueryError(r)
  BY <1>0, <1>3 DEF QueryError
<1>4. CASE Crash(r)
  BY <1>0, <1>4 DEF Crash
<1>5. CASE Recover(r)
  BY <1>0, <1>5 DEF Recover
<1> QED BY <1>1, <1>2, <1>3, <1>4, <1>5 DEF Queue

-----------------------------------------------------------------------------
(* The steps of failing and cancelling workers.                             *)

LEMMA EndingTyped ==
  ASSUME Typed, NEW r \in Runs, Ending(r), RunOk(r)
  PROVE  Typed'
<1>1. CASE FailRelease(r)
  <2>1. \E v \in ReservationRow : reservation' = reservation \/ reservation' = [reservation EXCEPT ![r] = v]
    BY <1>1 DEF FailRelease, ReleaseHeld, Typed, ReservationRow
  <2>2. reservation' \in [Runs -> ReservationRow]
    BY <2>1, Put DEF Typed
  <2>3. pc' \in [Runs -> Pcs] /\ faults' \in 0..MaxFaults
    BY <1>1, RunsAssumption DEF FailRelease, Goto, Fault, Typed, Pcs
  <2> QED BY <1>1, <2>2, <2>3 DEF FailRelease, caseVars, moneyVars, madeVars, Typed
<1>2. CASE Fail(r)
  BY <1>2 DEF Fail, SetStatus, Goto, End, caseVars, moneyVars, madeVars, Typed,
         RunStatus, JobStatus, Pcs
<1>3. CASE CancelRelease(r)
  <2>1. \E v \in ReservationRow : reservation' = reservation \/ reservation' = [reservation EXCEPT ![r] = v]
    BY <1>3 DEF CancelRelease, ReleaseHeld, Typed, ReservationRow
  <2>2. reservation' \in [Runs -> ReservationRow]
    BY <2>1, Put DEF Typed
  <2>3. pc' \in [Runs -> Pcs] /\ faults' \in 0..MaxFaults
    BY <1>3, RunsAssumption DEF CancelRelease, Goto, Fault, Typed, Pcs
  <2> QED BY <1>3, <2>2, <2>3 DEF CancelRelease, caseVars, moneyVars, madeVars, Typed
<1>4. CASE Cancel(r)
  BY <1>4 DEF Cancel, SetStatus, Goto, End, caseVars, moneyVars, madeVars,
         Typed, RunStatus, JobStatus, Pcs
<1> QED BY <1>1, <1>2, <1>3, <1>4 DEF Ending

LEMMA EndingOthers ==
  ASSUME Typed, NEW r \in Runs, Ending(r)
  PROVE  Others(r)
<1> USE DEF SetStatus, Goto, End, Fault, ReleaseHeld, caseVars, moneyVars,
            madeVars, Typed, Others
<1>1. CASE FailRelease(r)
  BY <1>1 DEF FailRelease
<1>2. CASE Fail(r)
  BY <1>2 DEF Fail
<1>3. CASE CancelRelease(r)
  BY <1>3 DEF CancelRelease
<1>4. CASE Cancel(r)
  BY <1>4 DEF Cancel
<1> QED BY <1>1, <1>2, <1>3, <1>4 DEF Ending

LEMMA EndingRun ==
  ASSUME Typed, kindOf \in [Runs -> Kinds], NEW r \in Runs, Ending(r), RunOk(r)
  PROVE  RunOk(r)'
<1> USE DEF SetStatus, Goto, End, Fault, ReleaseHeld, caseVars, moneyVars,
            madeVars, Typed, Kinds, RunOk, QueueOk, Unclaimed, MoneyOk,
            ProductOk, TranslationOk, SpeechOrRenderOk, SpeechOk, AllCues,
            Outside, Unbilled, Billed, Failing
<1>1. CASE FailRelease(r)
  BY <1>1 DEF FailRelease
<1>2. CASE Fail(r)
  BY <1>2 DEF Fail
<1>3. CASE CancelRelease(r)
  BY <1>3 DEF CancelRelease
<1>4. CASE Cancel(r)
  BY <1>4 DEF Cancel
<1> QED BY <1>1, <1>2, <1>3, <1>4 DEF Ending

LEMMA EndingKeeps ==
  ASSUME PipelineInv, NEW r \in Runs, Ending(r)
  PROVE  Keeps(r)
<1> USE DEF SetStatus, Goto, End, Fault, ReleaseHeld, caseVars, moneyVars,
            madeVars, TypeOK, Kinds, Keeps, RunOk, QueueOk, Unclaimed, MoneyOk,
            ProductOk, TranslationOk, SpeechOrRenderOk, SpeechOk, AllCues,
            Outside, Unbilled, Billed, Failing
<1>0. TypeOK /\ RunOk(r) /\ kindOf \in [Runs -> Kinds]
  BY CaseFacts DEF PipelineInv
<1>1. CASE FailRelease(r)
  BY <1>0, <1>1 DEF FailRelease
<1>2. CASE Fail(r)
  BY <1>0, <1>2 DEF Fail
<1>3. CASE CancelRelease(r)
  BY <1>0, <1>3 DEF CancelRelease
<1>4. CASE Cancel(r)
  BY <1>0, <1>4 DEF Cancel
<1> QED BY <1>1, <1>2, <1>3, <1>4 DEF Ending

-----------------------------------------------------------------------------
(* The steps of the cancel route.                                           *)

LEMMA CancelRouteTyped ==
  ASSUME Typed, NEW r \in Runs, CancelRoute(r), RunOk(r)
  PROVE  Typed'
<1>1. CASE CancelRead(r)
  BY <1>1 DEF CancelRead, caseVars, moneyVars, madeVars, Typed, Canceller
<1>2. CASE CancelMark(r)
  BY <1>2 DEF CancelMark, CancelStep, SetStatus, caseVars, moneyVars, madeVars,
         Typed, RunStatus, Canceller
<1>3. CASE CancelJob(r)
  BY <1>3 DEF CancelJob, CancelStep, caseVars, moneyVars, madeVars, Typed,
         JobStatus, Canceller
<1>4. CASE CancelRemove(r)
  <2>1. \E p \in {"idle", "settle"} : canceller' = [canceller EXCEPT ![r].pc = p]
    BY <1>4 DEF CancelRemove, CancelStep
  <2>2. items' \subseteq Runs /\ faults' \in 0..MaxFaults
    BY <1>4, RunsAssumption DEF CancelRemove, Fault, Typed
  <2>3. canceller' \in [Runs -> Canceller]
    BY <2>1, CancellerTyped
  <2> QED BY <1>4, <2>2, <2>3 DEF CancelRemove, CancelStep, caseVars, moneyVars, madeVars, Typed
<1>5. CASE CancelSettle(r)
  BY <1>5 DEF CancelSettle, CancelStep, SetStatus, caseVars, moneyVars,
         madeVars, Typed, RunStatus, Canceller
<1>6. CASE CancelSettleJob(r)
  <2>1. job' \in [Runs -> JobStatus]
    BY <1>6 DEF CancelSettleJob, Typed, JobStatus
  <2>2. canceller' \in [Runs -> Canceller]
    BY <1>6, CancellerTyped DEF CancelSettleJob, CancelStep
  <2> QED BY <1>6, <2>1, <2>2 DEF CancelSettleJob, CancelStep, caseVars, moneyVars, madeVars, Typed
<1> QED BY <1>1, <1>2, <1>3, <1>4, <1>5, <1>6 DEF CancelRoute

LEMMA CancelRouteOthers ==
  ASSUME Typed, NEW r \in Runs, CancelRoute(r)
  PROVE  Others(r)
<1> USE DEF CancelStep, Concludes, SetStatus, Fault, caseVars, moneyVars,
            madeVars, Typed, Others
<1>1. CASE CancelRead(r)
  BY <1>1 DEF CancelRead
<1>2. CASE CancelMark(r)
  BY <1>2 DEF CancelMark
<1>3. CASE CancelJob(r)
  BY <1>3 DEF CancelJob
<1>4. CASE CancelRemove(r)
  BY <1>4 DEF CancelRemove
<1>5. CASE CancelSettle(r)
  BY <1>5 DEF CancelSettle
<1>6. CASE CancelSettleJob(r)
  BY <1>6 DEF CancelSettleJob
<1> QED BY <1>1, <1>2, <1>3, <1>4, <1>5, <1>6 DEF CancelRoute

LEMMA CancelRouteRun ==
  ASSUME Typed, kindOf \in [Runs -> Kinds], NEW r \in Runs, CancelRoute(r), RunOk(r)
  PROVE  RunOk(r)'
<1> USE DEF CancelStep, Concludes, SetStatus, Fault, caseVars, moneyVars,
            madeVars, Typed, Kinds, RunOk, QueueOk, Unclaimed, MoneyOk,
            ProductOk, TranslationOk, SpeechOrRenderOk, SpeechOk, AllCues,
            Outside, Unbilled, Billed, Failing
<1>1. CASE CancelRead(r)
  BY <1>1 DEF CancelRead
<1>2. CASE CancelMark(r)
  BY <1>2 DEF CancelMark
<1>3. CASE CancelJob(r)
  BY <1>3 DEF CancelJob
<1>4. CASE CancelRemove(r)
  <2>1. /\ UNCHANGED <<kindOf, status, job, moneyVars, madeVars, pc>>
        /\ canceller[r].pc = "remove"
        /\ \/ items' = items
           \/ r \in items /\ items' = items \ {r}
    BY <1>4 DEF CancelRemove
  <2>2. \/ canceller'[r].pc = "idle"
        \/ canceller'[r].pc = "settle" /\ r \in items /\ items' = items \ {r}
    <3>1. ASSUME NEW p, canceller' = [canceller EXCEPT ![r].pc = p] PROVE canceller'[r].pc = p
      BY <3>1
    <3>2. \/ canceller' = [canceller EXCEPT ![r].pc = "idle"]
          \/ canceller' = [canceller EXCEPT ![r].pc = "settle"] /\ r \in items /\ items' = items \ {r}
      BY <1>4 DEF CancelRemove
    <3> QED BY <3>1, <3>2
  <2>3. status[r] # "none" /\ kindOf[r] # "translation"
    BY <2>1
  <2> QED BY <2>1, <2>2, <2>3
<1>5. CASE CancelSettle(r)
  BY <1>5 DEF CancelSettle
<1>6. CASE CancelSettleJob(r)
  BY <1>6 DEF CancelSettleJob
<1> QED BY <1>1, <1>2, <1>3, <1>4, <1>5, <1>6 DEF CancelRoute

LEMMA CancelRouteKeeps ==
  ASSUME PipelineInv, NEW r \in Runs, CancelRoute(r)
  PROVE  Keeps(r)
<1> USE DEF CancelStep, Concludes, SetStatus, Fault, caseVars, moneyVars,
            madeVars, TypeOK, Kinds, Keeps, RunOk, QueueOk, Unclaimed, MoneyOk,
            ProductOk, TranslationOk, SpeechOrRenderOk, SpeechOk, AllCues,
            Outside, Unbilled, Billed, Failing
<1>0. TypeOK /\ RunOk(r) /\ kindOf \in [Runs -> Kinds]
  BY CaseFacts DEF PipelineInv
<1>1. CASE CancelRead(r)
  BY <1>0, <1>1 DEF CancelRead
<1>2. CASE CancelMark(r)
  BY <1>0, <1>2 DEF CancelMark
<1>3. CASE CancelJob(r)
  BY <1>0, <1>3 DEF CancelJob
<1>4. CASE CancelRemove(r)
  BY <1>0, <1>4 DEF CancelRemove
<1>5. CASE CancelSettle(r)
  BY <1>0, <1>5 DEF CancelSettle
<1>6. CASE CancelSettleJob(r)
  BY <1>0, <1>6 DEF CancelSettleJob
<1> QED BY <1>1, <1>2, <1>3, <1>4, <1>5, <1>6 DEF CancelRoute

-----------------------------------------------------------------------------
(* A step of the system is a step of one run. *)

LEMMA OfRun ==
  ASSUME PipelineInv, NEW r \in Runs,
         \/ TranslationNext(r) \/ TtsNext(r) \/ RenderNext(r)
         \/ Queue(r) \/ Ending(r) \/ CancelRoute(r)
  PROVE  Others(r) /\ Typed' /\ RunOk(r)' /\ Keeps(r)
<1>1. Typed /\ RunOk(r) /\ kindOf \in [Runs -> Kinds]
  BY CaseFacts, TypeParts DEF PipelineInv
<1>2. CASE TranslationNext(r)
  BY <1>1, <1>2, TranslationTyped, TranslationOthers, TranslationRun, TranslationKeeps
<1>3. CASE TtsNext(r)
  BY <1>1, <1>3, TtsTyped, TtsOthers, TtsRun, TtsKeeps
<1>4. CASE RenderNext(r)
  BY <1>1, <1>4, RenderTyped, RenderOthers, RenderRun, RenderKeeps
<1>5. CASE Queue(r)
  BY <1>1, <1>5, QueueTyped, QueueOthers, QueueRun, QueueKeeps
<1>6. CASE Ending(r)
  BY <1>1, <1>6, EndingTyped, EndingOthers, EndingRun, EndingKeeps
<1>7. CASE CancelRoute(r)
  BY <1>1, <1>7, CancelRouteTyped, CancelRouteOthers, CancelRouteRun, CancelRouteKeeps
<1> QED BY <1>2, <1>3, <1>4, <1>5, <1>6, <1>7

(* PipelineInv is inductive. *)
LEMMA Invariant == Spec => []PipelineInv
<1>1. Init => PipelineInv
  <2> SUFFICES ASSUME Init PROVE PipelineInv
    OBVIOUS
  <2>1. PICK c \in Cases : kindOf = c.kind /\ cost = c.cost /\ from = c.from /\ key = c.key
    BY DEF Init
  <2>2. [kind |-> kindOf, cost |-> cost, from |-> from, key |-> key] \in Cases
    <3>1. c = [kind |-> c.kind, cost |-> c.cost, from |-> c.from, key |-> c.key]
      BY RunsAssumption DEF CaseOK
    <3> QED BY <2>1, <3>1
  <2>3. Typed
    BY RunsAssumption DEF Init, Typed, RunStatus, JobStatus, ReservationRow, CueRow, Canceller, Pcs
  <2>4. TypeOK
    BY <2>2, <2>3, TypeParts
  <2>5. ASSUME NEW r \in Runs PROVE RunOk(r) /\ InputOk(r)
    BY DEF Init, RunOk, QueueOk, Unclaimed, MoneyOk, ProductOk, TranslationOk, SpeechOrRenderOk, SpeechOk,
           AllCues, InputOk, Outside, Unbilled, Billed, Failing
  <2> QED BY <2>4, <2>5 DEF PipelineInv
<1>2. PipelineInv /\ [Next]_vars => PipelineInv'
  <2> SUFFICES ASSUME PipelineInv, [Next]_vars PROVE PipelineInv'
    OBVIOUS
  <2>1. CASE Next
    BY <2>1, OfRun, OneRun DEF Next
  <2>2. CASE UNCHANGED vars
    BY <2>2 DEF vars, caseVars, moneyVars, madeVars, PipelineInv, TypeOK, RunOk, QueueOk, Unclaimed, MoneyOk,
                ProductOk, TranslationOk, SpeechOrRenderOk, SpeechOk, AllCues, InputOk
  <2> QED BY <2>1, <2>2
<1> QED BY <1>1, <1>2, PTL DEF Spec

(* Every reachable state is well typed, and a succeeded run was billed and  *)
(* holds nothing: usage record, commit and status are three statements of   *)
(* the translation, speech and render workers, any of which may be the last *)
(* before a crash.                                                          *)
THEOREM RunsCorrect == Spec => []RunsInv
<1>1. PipelineInv => RunsInv
  BY DEF PipelineInv, RunsInv, SucceededIsSettled, RunOk, MoneyOk
<1> QED BY <1>1, Invariant, PTL

(* Speech is only made of a translated version with all of its cues, and a  *)
(* render only of a narration with all of its recordings (the guards of the *)
(* create routes), whatever becomes of the run that made them.              *)
THEOREM InputsCompleteCorrect == Spec => []InputsComplete
<1>1. ASSUME PipelineInv, NEW r \in Runs, from[r] # r, status[r] # "none"
      PROVE  product[from[r]] = "ready" /\ Synthesized(from[r]) = Cues
  <2>1. from[r] \in Runs /\ kindOf[from[r]] # "render"
    BY <1>1, CaseFacts DEF PipelineInv, Takes
  <2>2. product[from[r]] = "ready" /\ ProductOk(from[r])
    BY <1>1, <2>1 DEF PipelineInv, InputOk, RunOk
  <2> QED BY <2>1, <2>2 DEF ProductOk, AllCues, Synthesized
<1>2. PipelineInv => InputsComplete
  BY <1>1 DEF InputsComplete
<1> QED BY <1>2, Invariant, PTL

(* A version that failed its quality check is never ready without a review  *)
(* assignment (handleSubtitleTranslate, steps 9 to 10).                     *)
THEOREM ReviewCorrect == Spec => []ReadyIsReviewed
<1>1. PipelineInv => ReadyIsReviewed
  BY DEF PipelineInv, ReadyIsReviewed, RunOk, ProductOk
<1> QED BY <1>1, Invariant, PTL

(* Once a run is cancelled, by the cancel route or by its worker, nothing   *)
(* is reserved or billed for it any more (the CANCELLABLE guards of the     *)
(* route, the loads of the workers).                                        *)
THEOREM CancelledCorrect == Spec => CancelledIsFree
<1> DEFINE Free == \A r \in Runs : status[r] = "cancelled" =>
       /\ usage'[r] = usage[r]
       /\ reservation'[r] = "reserved" => reservation[r] = "reserved"
<1>1. ASSUME PipelineInv, Next PROVE Free
  BY <1>1, OfRun DEF Next, Others, Keeps
<1>2. PipelineInv /\ [Next]_vars => [Free]_vars
  BY <1>1
<1> QED BY <1>2, Invariant, PTL DEF Spec, CancelledIsFree

-----------------------------------------------------------------------------
(* The sums over a budget's rows.  What the fold computes does not depend   *)
(* on the elements it chooses, so rows add up one by one.                   *)
SumOf(f, S) == FoldFunctionOnSet(+, 0, f, S)

(* The recursive function inside the fold. *)
First(s) == CHOOSE x \in s : TRUE
Sums(g, f, S) ==
  g = [s \in SUBSET S |-> IF s = {} THEN 0 ELSE f[First(s)] + g[s \ {First(s)}]]
Priced(D, f) == IsFiniteSet(D) /\ f \in [D -> Nat]

LEMMA SumFolds ==
  ASSUME NEW f, NEW S
  PROVE  SumOf(f, S) = (CHOOSE g : Sums(g, f, S))[S]
BY DEF SumOf, FoldFunctionOnSet, MapThenFoldSet, Sums, First

LEMMA FirstIn ==
  ASSUME NEW s, s # {}
  PROVE  First(s) \in s
BY DEF First

LEMMA SubsetFacts ==
  ASSUME NEW D, NEW f, Priced(D, f), NEW s \in SUBSET D
  PROVE  /\ IsFiniteSet(s) /\ Cardinality(s) \in Nat
         /\ Cardinality(s) = 0 <=> s = {}
         /\ \A x \in s : s \ {x} \in SUBSET D /\ Cardinality(s \ {x}) = Cardinality(s) - 1
<1>1. IsFiniteSet(s)
  BY FS_Subset DEF Priced
<1>2. \A x \in s : Cardinality(s \ {x}) = Cardinality(s) - 1
  BY <1>1, FS_RemoveElement
<1> QED BY <1>1, <1>2, FS_CardinalityType, FS_EmptySet

LEMMA SumExists ==
  ASSUME NEW D, NEW f, Priced(D, f)
  PROVE  \E g \in [SUBSET D -> Nat] : Sums(g, f, D)
<1> DEFINE P == SUBSET D
           X == [P -> Nat]
           zero == [s \in P |-> 0]
           next(h) == [s \in P |-> IF s = {} THEN 0 ELSE f[First(s)] + h[s \ {First(s)}]]
           step == [p \in Nat \X X |-> next(p[2])]
           N == Cardinality(D)
<1>1. \A s \in P : s # {} => First(s) \in D /\ f[First(s)] \in Nat /\ s \ {First(s)} \in P
  BY FirstIn DEF Priced
<1>2. zero \in X
  OBVIOUS
<1>3. \A h \in X : next(h) \in X
  BY <1>1
<1>4. \A n \in Nat : \A h \in X : step[<<n, h>>] = next(h)
  OBVIOUS
<1>5. step \in [Nat \X X -> X]
  <2> HIDE DEF next, X
  <2> QED BY <1>3
<1>6. N \in Nat
  BY FS_CardinalityType DEF Priced
<1>7. \A h \in X : \A s \in P : next(h)[s] = IF s = {} THEN 0 ELSE f[First(s)] + h[s \ {First(s)}]
  OBVIOUS
<1> HIDE DEF X, zero, next, step, N
<1>8. PICK h \in [0..N -> X] : Recurs(h, N, zero, step)
  BY <1>2, <1>5, <1>6, RecursionExists
<1>9. \A s \in P : Cardinality(s) \in 0..N
  <2> SUFFICES ASSUME NEW s \in P PROVE Cardinality(s) \in 0..N
    OBVIOUS
  <2> QED BY FS_Subset, FS_CardinalityType, SubsetFacts, <1>6 DEF Priced, N
<1> DEFINE g == [s \in P |-> h[Cardinality(s)][s]]
<1>10. \A n \in 0..N : h[n] \in [P -> Nat]
  BY <1>8 DEF X
<1>11. g \in [P -> Nat]
  BY <1>9, <1>10
<1>12. ASSUME NEW s \in P, s # {} PROVE g[s] = f[First(s)] + g[s \ {First(s)}]
  <2> DEFINE n == Cardinality(s)
             t == s \ {First(s)}
  <2>1. n \in 1..N /\ t \in P /\ Cardinality(t) = n - 1
    BY <1>9, <1>12, SubsetFacts, FirstIn, <1>6
  <2> HIDE DEF n
  <2>2. h[n] = step[<<n, h[n - 1]>>] /\ h[n - 1] \in X
    BY <1>6, <1>8, <2>1 DEF Recurs
  <2>3. h[n] = next(h[n - 1])
    BY <1>4, <1>6, <2>1, <2>2
  <2>4. h[n][s] = f[First(s)] + h[n - 1][t]
    BY <1>7, <1>12, <2>2, <2>3
  <2>5. g[s] = h[n][s]
    BY DEF n
  <2>6. g[t] = h[n - 1][t]
    BY <2>1
  <2> QED BY <2>4, <2>5, <2>6
<1>13. g[{}] = 0
  <2>1. g[{}] = h[0][{}]
    BY FS_EmptySet
  <2> QED BY <1>8, <2>1 DEF Recurs, zero
<1> HIDE DEF g
<1>14. Sums(g, f, D)
  <2>1. g = [s \in P |-> g[s]]
    BY <1>11
  <2>2. \A s \in P : g[s] = IF s = {} THEN 0 ELSE f[First(s)] + g[s \ {First(s)}]
    BY <1>12, <1>13
  <2> QED BY <2>1, <2>2 DEF Sums
<1> QED BY <1>11, <1>14

LEMMA SumIs ==
  ASSUME NEW D, NEW f, Priced(D, f), NEW g \in [SUBSET D -> Nat], Sums(g, f, D), NEW S \in SUBSET D
  PROVE  SumOf(f, S) = g[S]
<1> DEFINE part == [s \in SUBSET S |-> g[s]]
           h == CHOOSE k : Sums(k, f, S)
<1>0. \A s \in SUBSET D : g[s] = IF s = {} THEN 0 ELSE f[First(s)] + g[s \ {First(s)}]
  BY DEF Sums
<1>1. Sums(part, f, S)
  <2>1. \A s \in SUBSET S : part[s] = IF s = {} THEN 0 ELSE f[First(s)] + part[s \ {First(s)}]
    BY <1>0
  <2>2. part = [s \in SUBSET S |-> part[s]]
    OBVIOUS
  <2> HIDE DEF part
  <2> QED BY <2>1, <2>2 DEF Sums
<1> HIDE DEF part
<1>2. Sums(h, f, S)
  BY <1>1
<1>3. SumOf(f, S) = h[S]
  BY SumFolds
<1> HIDE DEF h
<1>4. \A s \in SUBSET S : h[s] = IF s = {} THEN 0 ELSE f[First(s)] + h[s \ {First(s)}]
  BY <1>2 DEF Sums
<1> DEFINE C == {n \in Nat : \A s \in SUBSET S : Cardinality(s) = n => h[s] = g[s]}
<1>5. 0 \in C
  <2> SUFFICES ASSUME NEW s \in SUBSET S, Cardinality(s) = 0 PROVE h[s] = g[s]
    OBVIOUS
  <2>1. s = {}
    BY SubsetFacts
  <2> QED BY <2>1, <1>0, <1>4
<1>6. ASSUME NEW n \in Nat, n \in C PROVE n + 1 \in C
  <2> SUFFICES ASSUME NEW s \in SUBSET S, Cardinality(s) = n + 1 PROVE h[s] = g[s]
    OBVIOUS
  <2>1. s # {} /\ s \in SUBSET D
    BY SubsetFacts
  <2>2. s \ {First(s)} \in SUBSET S /\ Cardinality(s \ {First(s)}) = n
    BY <2>1, SubsetFacts, FirstIn
  <2>3. h[s \ {First(s)}] = g[s \ {First(s)}]
    BY <1>6, <2>2
  <2> QED BY <1>0, <1>4, <2>1, <2>3
<1> HIDE DEF C
<1>7. Nat \subseteq C
  BY <1>5, <1>6, NumberInduction
<1>8. Cardinality(S) \in C
  BY <1>7, SubsetFacts
<1> QED BY <1>3, <1>8 DEF C

LEMMA SumRows ==
  ASSUME NEW D, NEW f, Priced(D, f), NEW S \in SUBSET D
  PROVE  /\ SumOf(f, S) \in Nat /\ SumOf(f, {}) = 0
         /\ S # {} => SumOf(f, S) = f[First(S)] + SumOf(f, S \ {First(S)})
<1>1. PICK g \in [SUBSET D -> Nat] : Sums(g, f, D)
  BY SumExists
<1>2. \A s \in SUBSET D : g[s] = IF s = {} THEN 0 ELSE f[First(s)] + g[s \ {First(s)}]
  BY <1>1 DEF Sums
<1>3. \A s \in SUBSET D : SumOf(f, s) = g[s]
  BY <1>1, SumIs
<1> QED BY <1>2, <1>3

(* Any row may be counted first. *)
LEMMA SumWithout ==
  ASSUME NEW D, NEW f, Priced(D, f), NEW S \in SUBSET D, NEW x \in S
  PROVE  SumOf(f, S) = f[x] + SumOf(f, S \ {x})
<1> DEFINE C == {n \in Nat : \A s \in SUBSET D : Cardinality(s) = n =>
                               \A y \in s : SumOf(f, s) = f[y] + SumOf(f, s \ {y})}
<1>1. 0 \in C
  BY SubsetFacts
<1>2. ASSUME NEW n \in Nat, n \in C PROVE n + 1 \in C
  <2> SUFFICES ASSUME NEW s \in SUBSET D, Cardinality(s) = n + 1, NEW y \in s
               PROVE  SumOf(f, s) = f[y] + SumOf(f, s \ {y})
    OBVIOUS
  <2> DEFINE z == First(s)
             without == s \ {y, z}
  <2>1. z \in s /\ SumOf(f, s) = f[z] + SumOf(f, s \ {z})
    BY SumRows, FirstIn
  <2> HIDE DEF z
  <2>2. ASSUME y # z PROVE SumOf(f, s) = f[y] + SumOf(f, s \ {y})
    <3>1. /\ s \ {z} \in SUBSET D /\ Cardinality(s \ {z}) = n /\ y \in s \ {z}
          /\ s \ {y} \in SUBSET D /\ Cardinality(s \ {y}) = n /\ z \in s \ {y}
      BY <2>1, <2>2, SubsetFacts
    <3>2. (s \ {z}) \ {y} = without /\ (s \ {y}) \ {z} = without /\ without \in SUBSET D
      OBVIOUS
    <3> HIDE DEF without
    <3>3. SumOf(f, s \ {z}) = f[y] + SumOf(f, without)
      BY <1>2, <3>1, <3>2
    <3>4. SumOf(f, s \ {y}) = f[z] + SumOf(f, without)
      BY <1>2, <3>1, <3>2
    <3>5. f[y] \in Nat /\ f[z] \in Nat /\ SumOf(f, without) \in Nat
      BY <2>1, <3>2, SumRows DEF Priced
    <3> QED BY <2>1, <3>3, <3>4, <3>5
  <2> QED BY <2>1, <2>2
<1> HIDE DEF C
<1>3. Nat \subseteq C
  BY <1>1, <1>2, NumberInduction
<1>4. Cardinality(S) \in C
  BY <1>3, SubsetFacts
<1> QED BY <1>4 DEF C

(* What two statements add up is at least the sum of the rows of either. *)
LEMMA SumOfUnion ==
  ASSUME NEW D, NEW f, Priced(D, f), NEW A \in SUBSET D, NEW B \in SUBSET D
  PROVE  SumOf(f, A \union B) <= SumOf(f, A) + SumOf(f, B)
<1> DEFINE C == {n \in Nat : \A s \in SUBSET D : Cardinality(s) = n =>
                               SumOf(f, s \union B) <= SumOf(f, s) + SumOf(f, B)}
<1>1. 0 \in C
  <2> SUFFICES ASSUME NEW s \in SUBSET D, Cardinality(s) = 0
               PROVE  SumOf(f, s \union B) <= SumOf(f, s) + SumOf(f, B)
    OBVIOUS
  <2>1. s = {}
    BY SubsetFacts
  <2>2. SumOf(f, s) = 0 /\ SumOf(f, B) \in Nat
    BY <2>1, SumRows
  <2>3. s \union B = B
    BY <2>1
  <2>4. SumOf(f, s \union B) = SumOf(f, B)
    BY <2>3, Zenon
  <2> QED BY <2>2, <2>4
<1>2. ASSUME NEW n \in Nat, n \in C PROVE n + 1 \in C
  <2> SUFFICES ASSUME NEW s \in SUBSET D, Cardinality(s) = n + 1
               PROVE  SumOf(f, s \union B) <= SumOf(f, s) + SumOf(f, B)
    OBVIOUS
  <2>1. PICK x \in s : TRUE
    BY SubsetFacts
  <2> DEFINE t == s \ {x}
             U == t \union B
  <2>2. t \in SUBSET D /\ Cardinality(t) = n /\ U \in SUBSET D /\ s \union B = U \union {x}
    BY SubsetFacts
  <2>3. SumOf(f, U) <= SumOf(f, t) + SumOf(f, B)
    BY <1>2, <2>2
  <2>4. SumOf(f, s) = f[x] + SumOf(f, t)
    BY SumWithout
  <2> HIDE DEF t, U
  <2>5. f[x] \in Nat /\ SumOf(f, t) \in Nat /\ SumOf(f, B) \in Nat /\ SumOf(f, U) \in Nat
    BY <2>2, SumRows DEF Priced
  <2>6. SumOf(f, U \union {x}) <= f[x] + SumOf(f, U)
    <3>1. CASE x \in U
      <4>1. U \union {x} = U
        BY <3>1
      <4>2. SumOf(f, U \union {x}) = SumOf(f, U)
        BY <4>1, Zenon
      <4> QED BY <2>5, <4>2
    <3>2. CASE x \notin U
      <4>1. U \union {x} \in SUBSET D /\ x \in U \union {x} /\ (U \union {x}) \ {x} = U
        BY <2>2, <3>2
      <4>2. SumOf(f, U \union {x}) = f[x] + SumOf(f, (U \union {x}) \ {x})
        BY <4>1, SumWithout
      <4>3. SumOf(f, U \union {x}) = f[x] + SumOf(f, U)
        BY <4>1, <4>2, Zenon
      <4> QED BY <2>5, <4>3
    <3> QED BY <3>1, <3>2
  <2>7. SumOf(f, s \union B) = SumOf(f, U \union {x})
    BY <2>2, Zenon
  <2>8. SumOf(f, s \union B) \in Nat
    <3>1. s \union B \in SUBSET D
      OBVIOUS
    <3> QED BY <3>1, SumRows
  <2> QED BY <2>3, <2>4, <2>5, <2>6, <2>7, <2>8
<1> HIDE DEF C
<1>3. Nat \subseteq C
  BY <1>1, <1>2, NumberInduction
<1>4. Cardinality(A) \in C
  BY <1>3, SubsetFacts
<1> QED BY <1>4 DEF C

(* One row more or less. *)
LEMMA SumWith ==
  ASSUME NEW D, NEW f, Priced(D, f), NEW S \in SUBSET D, NEW x \in D
  PROVE  /\ SumOf(f, S \union {x}) <= SumOf(f, S) + f[x]
         /\ SumOf(f, S \ {x}) <= SumOf(f, S)
<1>0. f[x] \in Nat /\ SumOf(f, S) \in Nat /\ SumOf(f, S \ {x}) \in Nat /\ SumOf(f, {x}) \in Nat
  <2>1. S \ {x} \in SUBSET D /\ {x} \in SUBSET D
    OBVIOUS
  <2> QED BY <2>1, SumRows DEF Priced
<1>1. SumOf(f, {x}) = f[x]
  <2>1. SumOf(f, {x}) = f[x] + SumOf(f, {x} \ {x})
    BY SumWithout
  <2>2. SumOf(f, {}) = 0
    BY SumRows
  <2>3. {x} \ {x} = {}
    OBVIOUS
  <2>4. SumOf(f, {x} \ {x}) = 0
    BY <2>2, <2>3, Zenon
  <2> QED BY <1>0, <2>1, <2>4
<1>2. SumOf(f, S \union {x}) <= SumOf(f, S) + f[x]
  <2>1. SumOf(f, S \union {x}) <= SumOf(f, S) + SumOf(f, {x})
    <3>1. {x} \in SUBSET D
      OBVIOUS
    <3> QED BY <3>1, SumOfUnion
  <2> QED BY <1>1, <2>1
<1>3. SumOf(f, S \ {x}) <= SumOf(f, S)
  <2>1. CASE x \in S
    <3>1. SumOf(f, S) = f[x] + SumOf(f, S \ {x})
      BY <2>1, SumWithout
    <3> QED BY <1>0, <3>1
  <2>2. CASE x \notin S
    <3>1. S \ {x} = S
      BY <2>2
    <3>2. SumOf(f, S \ {x}) = SumOf(f, S)
      BY <3>1, Zenon
    <3> QED BY <1>0, <3>2
  <2> QED BY <2>1, <2>2
<1> QED BY <1>2, <1>3

-----------------------------------------------------------------------------
(* The ledger.  From its reservation to its bill an execution holds the     *)
(* estimate of its run, and a translation that was not executed yet has no  *)
(* reservation from before.                                                 *)
Holding == {"batch", "store", "quality", "usage", "provider", "cue", "synthesize", "sync",
            "narrate", "start", "ffmpeg", "output"}
Untouched(r) ==
  kindOf[r] = "translation" /\ (status[r] \in {"none", "queued"} \/ pc[r] \in {"prepare", "reserve"})
HoldOk(r) ==
  /\ pc[r] \in Holding => reservation[r] = "reserved"
  /\ Untouched(r) => reservation[r] = "none"
HoldInv == \A r \in Runs : HoldOk(r)

(* A step of run r books one entry of the ledger, or none. *)
Booked(r) == IF usage[r] > 0 THEN "spent" ELSE IF reservation[r] = "reserved" THEN "held" ELSE "free"
Books(r) ==
  \/ Booked(r)' = Booked(r)
  \/ Booked(r) = "free" /\ Booked(r)' = "held" /\ ~OverDailyLimit(r)
  \/ Booked(r) = "held" /\ Booked(r)' \in {"free", "spent"}

LEMMA TranslationBooks ==
  ASSUME Typed, NEW r \in Runs, TranslationNext(r), RunOk(r), HoldOk(r), ~MayOutliveTtl
  PROVE  HoldOk(r)' /\ Books(r)
<1> USE DEF Step, At, SetStatus, Goto, End, Admit, Fault, ReleaseHeld, caseVars, moneyVars, madeVars,
            Typed, RunOk, TranslationOk, Outside, Unbilled, Billed, Failing, HoldOk, Untouched, Holding,
            Booked, Books
<1>1. CASE Translate(r)
  BY <1>1 DEF Translate
<1>2. CASE LoadTranslation(r)
  BY <1>2 DEF LoadTranslation, Translatable
<1>3. CASE BeginTranslation(r)
  BY <1>3 DEF BeginTranslation
<1>4. CASE PrepareTranslation(r)
  BY <1>4 DEF PrepareTranslation
<1>5. CASE ReserveTranslation(r)
  BY <1>5 DEF ReserveTranslation
<1>6. CASE TranslateBatches(r)
  BY <1>6 DEF TranslateBatches
<1>7. CASE StoreTargetCues(r)
  BY <1>7 DEF StoreTargetCues
<1>8. CASE CheckQuality(r)
  BY <1>8 DEF CheckQuality
<1>9. CASE BillTranslation(r)
  BY <1>9 DEF BillTranslation
<1>10. CASE CommitTranslation(r)
  BY <1>10 DEF CommitTranslation
<1>11. CASE AssignReview(r)
  BY <1>11 DEF AssignReview
<1>12. CASE PublishVersion(r)
  BY <1>12 DEF PublishVersion
<1>13. CASE SucceedTranslation(r)
  BY <1>13 DEF SucceedTranslation
<1>14. CASE ReconcileReservation(r)
  BY <1>14 DEF ReconcileReservation
<1> QED BY <1>1, <1>2, <1>3, <1>4, <1>5, <1>6, <1>7, <1>8, <1>9, <1>10, <1>11, <1>12,
           <1>13, <1>14 DEF TranslationNext

LEMMA TtsBooks ==
  ASSUME Typed, NEW r \in Runs, TtsNext(r), RunOk(r), HoldOk(r)
  PROVE  HoldOk(r)' /\ Books(r)
<1> USE DEF TtsStep, At, SetStatus, Goto, End, Admit, Fault, ReleaseHeld, caseVars, moneyVars, madeVars,
            Typed, RunOk, TranslationOk, Outside, Unbilled, Billed, Failing, HoldOk, Untouched, Holding,
            Booked, Books
<1>1. CASE CreateTtsRun(r)
  BY <1>1 DEF CreateTtsRun
<1>2. CASE LoadTtsRun(r)
  BY <1>2 DEF LoadTtsRun
<1>3. CASE BeginTts(r)
  BY <1>3 DEF BeginTts
<1>4. CASE PrepareTts(r)
  BY <1>4 DEF PrepareTts
<1>5. CASE ReserveTts(r)
  BY <1>5 DEF ReserveTts
<1>6. CASE GetTtsProvider(r)
  BY <1>6 DEF GetTtsProvider
<1>7. CASE CheckTtsCancel(r)
  BY <1>7 DEF CheckTtsCancel
<1>8. CASE SynthesizeCue(r)
  BY <1>8 DEF SynthesizeCue
<1>9. CASE StoreSyncPlan(r)
  BY <1>9 DEF StoreSyncPlan
<1>10. CASE StoreNarration(r)
  BY <1>10 DEF StoreNarration
<1>11. CASE BillTts(r)
  BY <1>11 DEF BillTts
<1>12. CASE CommitTts(r)
  BY <1>12 DEF CommitTts
<1>13. CASE SucceedTts(r)
  BY <1>13 DEF SucceedTts
<1> QED BY <1>1, <1>2, <1>3, <1>4, <1>5, <1>6, <1>7, <1>8, <1>9, <1>10, <1>11, <1>12, <1>13 DEF TtsNext

LEMMA RenderBooks ==
  ASSUME Typed, NEW r \in Runs, RenderNext(r), RunOk(r), HoldOk(r)
  PROVE  HoldOk(r)' /\ Books(r)
<1> USE DEF RenderStep, At, SetStatus, Goto, End, Admit, Fault, ReleaseHeld, caseVars, moneyVars, madeVars,
            Typed, RunOk, TranslationOk, Outside, Unbilled, Billed, Failing, HoldOk, Untouched, Holding,
            Booked, Books
<1>1. CASE CreateRenderRun(r)
  BY <1>1 DEF CreateRenderRun
<1>2. CASE LoadRenderRun(r)
  BY <1>2 DEF LoadRenderRun
<1>3. CASE PlanRender(r)
  BY <1>3 DEF PlanRender
<1>4. CASE PrepareRender(r)
  BY <1>4 DEF PrepareRender
<1>5. CASE ReserveRender(r)
  BY <1>5 DEF ReserveRender
<1>6. CASE StartRender(r)
  BY <1>6 DEF StartRender
<1>7. CASE RunFfmpeg(r)
  BY <1>7 DEF RunFfmpeg
<1>8. CASE StoreOutput(r)
  BY <1>8 DEF StoreOutput
<1>9. CASE BillRender(r)
  BY <1>9 DEF BillRender
<1>10. CASE CommitRender(r)
  BY <1>10 DEF CommitRender
<1>11. CASE SucceedRender(r)
  BY <1>11 DEF SucceedRender
<1> QED BY <1>1, <1>2, <1>3, <1>4, <1>5, <1>6, <1>7, <1>8, <1>9, <1>10, <1>11 DEF RenderNext

LEMMA QueueBooks ==
  ASSUME Typed, NEW r \in Runs, Queue(r), RunOk(r), HoldOk(r)
  PROVE  HoldOk(r)' /\ Books(r)
<1> USE DEF SetStatus, Goto, End, Admit, Fault, ReleaseHeld, caseVars, moneyVars, madeVars,
            Typed, RunOk, TranslationOk, Outside, Unbilled, Billed, Failing, HoldOk, Untouched, Holding,
            Booked, Books
<1>1. CASE Claim(r)
  BY <1>1 DEF Claim
<1>2. CASE Start(r)
  BY <1>2 DEF Start
<1>3. CASE QueryError(r)
  BY <1>3 DEF QueryError
<1>4. CASE Crash(r)
  BY <1>4 DEF Crash
<1>5. CASE Recover(r)
  BY <1>5 DEF Recover
<1> QED BY <1>1, <1>2, <1>3, <1>4, <1>5 DEF Queue

LEMMA EndingBooks ==
  ASSUME Typed, NEW r \in Runs, Ending(r), RunOk(r), HoldOk(r)
  PROVE  HoldOk(r)' /\ Books(r)
<1> USE DEF SetStatus, Goto, End, Admit, Fault, ReleaseHeld, caseVars, moneyVars, madeVars,
            Typed, RunOk, TranslationOk, Outside, Unbilled, Billed, Failing, HoldOk, Untouched, Holding,
            Booked, Books
<1>1. CASE FailRelease(r)
  BY <1>1 DEF FailRelease
<1>2. CASE Fail(r)
  BY <1>2 DEF Fail
<1>3. CASE CancelRelease(r)
  BY <1>3 DEF CancelRelease
<1>4. CASE Cancel(r)
  BY <1>4 DEF Cancel
<1> QED BY <1>1, <1>2, <1>3, <1>4 DEF Ending

LEMMA CancelRouteBooks ==
  ASSUME Typed, NEW r \in Runs, CancelRoute(r), RunOk(r), HoldOk(r)
  PROVE  HoldOk(r)' /\ Books(r)
<1> USE DEF CancelStep, SetStatus, Goto, End, Admit, Fault, ReleaseHeld, caseVars, moneyVars, madeVars,
            Typed, RunOk, TranslationOk, Outside, Unbilled, Billed, Failing, HoldOk, Untouched, Holding,
            Booked, Books
<1>1. CASE CancelRead(r)
  BY <1>1 DEF CancelRead
<1>2. CASE CancelMark(r)
  BY <1>2 DEF CancelMark
<1>3. CASE CancelJob(r)
  BY <1>3 DEF CancelJob
<1>4. CASE CancelRemove(r)
  BY <1>4 DEF CancelRemove
<1>5. CASE CancelSettle(r)
  BY <1>5 DEF CancelSettle
<1>6. CASE CancelSettleJob(r)
  BY <1>6 DEF CancelSettleJob
<1> QED BY <1>1, <1>2, <1>3, <1>4, <1>5, <1>6 DEF CancelRoute

LEMMA RunBooks ==
  ASSUME PipelineInv, HoldInv, ~MayOutliveTtl, NEW r \in Runs,
         \/ TranslationNext(r) \/ TtsNext(r) \/ RenderNext(r)
         \/ Queue(r) \/ Ending(r) \/ CancelRoute(r)
  PROVE  HoldInv' /\ Books(r) /\ Others(r)
<1>1. Typed /\ RunOk(r) /\ HoldOk(r)
  BY TypeParts DEF PipelineInv, HoldInv
<1>2. HoldOk(r)' /\ Books(r)
  <2>1. CASE TranslationNext(r)
    BY <1>1, <2>1, TranslationBooks
  <2>2. CASE TtsNext(r)
    BY <1>1, <2>2, TtsBooks
  <2>3. CASE RenderNext(r)
    BY <1>1, <2>3, RenderBooks
  <2>4. CASE Queue(r)
    BY <1>1, <2>4, QueueBooks
  <2>5. CASE Ending(r)
    BY <1>1, <2>5, EndingBooks
  <2>6. CASE CancelRoute(r)
    BY <1>1, <2>6, CancelRouteBooks
  <2> QED BY <2>1, <2>2, <2>3, <2>4, <2>5, <2>6
<1>3. Others(r)
  BY OfRun
<1>4. \A q \in Runs \ {r} : HoldOk(q)'
  BY <1>3 DEF HoldInv, HoldOk, Untouched, Others, caseVars
<1> QED BY <1>2, <1>3, <1>4 DEF HoldInv

LEMMA HoldCorrect == ASSUME ~MayOutliveTtl PROVE Spec => [](PipelineInv /\ HoldInv)
<1>1. Init => HoldInv
  BY DEF Init, HoldInv, HoldOk, Untouched, Holding
<1>2. PipelineInv /\ HoldInv /\ [Next]_vars => HoldInv'
  <2> SUFFICES ASSUME PipelineInv, HoldInv, [Next]_vars PROVE HoldInv'
    OBVIOUS
  <2>1. CASE Next
    BY <2>1, RunBooks DEF Next
  <2>2. CASE UNCHANGED vars
    BY <2>2 DEF vars, caseVars, moneyVars, HoldInv, HoldOk, Untouched
  <2> QED BY <2>1, <2>2
<1> QED BY <1>1, <1>2, Invariant, PTL DEF Spec

LEMMA TotalIsSum ==
  ASSUME NEW S
  PROVE  Ledger!Total(S) = SumOf(cost, S) /\ Amount(S) = SumOf(cost, S)
BY DEF SumOf, Amount, Ledger!Total, FoldFunctionOnSet, Ledger!FoldFunctionOnSet,
       MapThenFoldSet, Ledger!MapThenFoldSet

(* The runs on the ledger of a pipeline. *)
Entries(k) == {q \in Runs : kindOf[q] = k /\ Booked(q) # "free"}

LEMMA RowsArePriced ==
  ASSUME TypeOK
  PROVE  /\ Priced(Runs, cost) /\ DailyLimit \in Nat
         /\ \A r \in Runs : kindOf[r] \in Kinds /\ cost[r] \in Nat
         /\ \A k : Entries(k) \in SUBSET Runs /\ Ledger!Held(k) = Entries(k)
<1>1. Account = [q \in Runs |-> Booked(q)]
  BY DEF Account, Booked
<1>2. \A k : Entries(k) \in SUBSET Runs /\ Ledger!Held(k) = Entries(k)
  BY <1>1 DEF Ledger!Held, Entries
<1> QED BY <1>2, CaseFacts, RunsAssumption DEF Priced

(* What the reservation statement sums is at least what the ledger counts:  *)
(* a run with both rows is counted twice.                                   *)
LEMMA SumsAreSafe ==
  ASSUME TypeOK, NEW r \in Runs, ~OverDailyLimit(r)
  PROVE  SumOf(cost, Entries(kindOf[r])) + cost[r] <= DailyLimit
<1> DEFINE k == kindOf[r]
           A == {q \in OfKind(k) : usage[q] > 0}
           B == {q \in OfKind(k) : reservation[q] = "reserved"}
<1>0. Priced(Runs, cost) /\ cost[r] \in Nat /\ DailyLimit \in Nat
  BY RowsArePriced
<1>1. A \in SUBSET Runs /\ B \in SUBSET Runs /\ A \union B \in SUBSET Runs
  BY DEF OfKind
<1>2. Entries(k) = A \union B
  BY DEF Entries, OfKind, Booked
<1>3. ~(SumOf(cost, A) + SumOf(cost, B) + cost[r] > DailyLimit)
  BY TotalIsSum DEF OverDailyLimit, SpentOrHeld
<1> HIDE DEF A, B
<1>4. SumOf(cost, A) \in Nat /\ SumOf(cost, B) \in Nat /\ SumOf(cost, A \union B) \in Nat
  BY <1>0, <1>1, SumRows
<1>5. SumOf(cost, A \union B) <= SumOf(cost, A) + SumOf(cost, B)
  BY <1>0, <1>1, SumOfUnion
<1>6. SumOf(cost, A \union B) + cost[r] <= DailyLimit
  BY <1>0, <1>3, <1>4, <1>5
<1> QED BY <1>2, <1>6, Zenon

LEMMA LedgerStep ==
  ASSUME TypeOK, NEW r \in Runs, Books(r), Others(r)
  PROVE  [Ledger!Next]_<<Account, kindOf, cost>>
<1>1. Account = [q \in Runs |-> Booked(q)] /\ Account' = [q \in Runs |-> Booked(q)']
  BY DEF Account, Booked
<1>2. UNCHANGED <<kindOf, cost>>
  BY DEF Others, caseVars
<1>3. \A q \in Runs \ {r} : Booked(q)' = Booked(q)
  BY DEF Others, Booked
<1>4. Account' = [Account EXCEPT ![r] = Booked(r)'] /\ Account[r] = Booked(r)
  BY <1>1, <1>3
<1>5. CASE Booked(r)' = Booked(r)
  <2>1. Account' = Account
    BY <1>1, <1>3, <1>5
  <2> QED BY <1>2, <2>1
<1>6. CASE Booked(r) = "free" /\ Booked(r)' = "held" /\ ~OverDailyLimit(r)
  <2>1. Ledger!Total(Ledger!Held(kindOf[r])) = SumOf(cost, Entries(kindOf[r]))
    BY RowsArePriced, TotalIsSum, Zenon
  <2>2. Ledger!Total(Ledger!Held(kindOf[r])) + cost[r] <= DailyLimit
    <3>1. SumOf(cost, Entries(kindOf[r])) + cost[r] <= DailyLimit
      BY <1>6, SumsAreSafe
    <3> QED BY <2>1, <3>1, Zenon
  <2>3. Ledger!Hold(r)
    BY <1>4, <1>6, <2>2 DEF Ledger!Hold
  <2> QED BY <1>2, <2>3 DEF Ledger!Next
<1>7. CASE Booked(r) = "held" /\ Booked(r)' = "free"
  <2>1. Ledger!GiveBack(r)
    BY <1>4, <1>7 DEF Ledger!GiveBack
  <2> QED BY <1>2, <2>1 DEF Ledger!Next
<1>8. CASE Booked(r) = "held" /\ Booked(r)' = "spent"
  <2>1. Ledger!Spend(r)
    BY <1>4, <1>8 DEF Ledger!Spend
  <2> QED BY <1>2, <2>1 DEF Ledger!Next
<1> QED BY <1>5, <1>6, <1>7, <1>8 DEF Books

(* The reservation and usage rows implement the ledger, for every number of *)
(* runs, costs and limits: no pipeline ever promises or spends more than    *)
(* its daily limit, and money is spent only after it was held, provided an  *)
(* execution does not outlive its reservation.                              *)
THEOREM BudgetCorrect == ASSUME ~MayOutliveTtl PROVE Spec => KeepsBudget
<1>1. Init => Ledger!Init
  BY DEF Init, Ledger!Init, Account
<1>2. PipelineInv /\ HoldInv /\ [Next]_vars => [Ledger!Next]_<<Account, kindOf, cost>>
  <2> SUFFICES ASSUME PipelineInv, HoldInv, [Next]_vars
               PROVE  [Ledger!Next]_<<Account, kindOf, cost>>
    OBVIOUS
  <2>1. CASE Next
    <3>1. PICK r \in Runs : Books(r) /\ Others(r)
      BY <2>1, RunBooks DEF Next
    <3> QED BY <3>1, LedgerStep DEF PipelineInv
  <2>2. CASE UNCHANGED vars
    BY <2>2 DEF vars, caseVars, moneyVars, Account
  <2> QED BY <2>1, <2>2
<1> QED BY <1>1, <1>2, HoldCorrect, PTL DEF Spec, KeepsBudget, Ledger!Spec

(* What a pipeline has spent and holds is never more than its daily limit. *)
WithinLimit == \A k \in Kinds : Amount({r \in OfKind(k) : Account[r] # "free"}) <= DailyLimit

LEMMA WithinStep ==
  ASSUME TypeOK, NEW r \in Runs, Books(r), Others(r), NEW k,
         SumOf(cost, Entries(k)) <= DailyLimit
  PROVE  SumOf(cost, Entries(k)') <= DailyLimit
<1>0. /\ Priced(Runs, cost) /\ DailyLimit \in Nat /\ cost[r] \in Nat /\ Entries(k) \in SUBSET Runs
  BY RowsArePriced
<1>1. SumOf(cost, Entries(k)) \in Nat
  BY <1>0, SumRows
<1>2. kindOf' = kindOf /\ \A q \in Runs \ {r} : Booked(q)' = Booked(q)
  BY DEF Others, caseVars, Booked
<1>3. Entries(k)' = {q \in Runs : kindOf[q] = k /\ Booked(q)' # "free"}
  BY <1>2 DEF Entries
<1>4. CASE kindOf[r] # k \/ (Booked(r)' = "free" <=> Booked(r) = "free")
  <2>1. Entries(k)' = Entries(k)
    BY <1>2, <1>3, <1>4 DEF Entries
  <2> QED BY <2>1, Zenon
<1>5. CASE kindOf[r] = k /\ Booked(r) = "free" /\ Booked(r)' = "held" /\ ~OverDailyLimit(r)
  <2>1. Entries(k)' = Entries(k) \union {r}
    BY <1>2, <1>3, <1>5 DEF Entries
  <2>2. SumOf(cost, Entries(k) \union {r}) <= SumOf(cost, Entries(k)) + cost[r]
    BY <1>0, SumWith
  <2>3. SumOf(cost, Entries(k)) + cost[r] <= DailyLimit
    BY <1>5, SumsAreSafe
  <2>4. SumOf(cost, Entries(k) \union {r}) \in Nat
    <3>1. Entries(k) \union {r} \in SUBSET Runs
      BY <1>0
    <3> QED BY <1>0, <3>1, SumRows
  <2>5. SumOf(cost, Entries(k) \union {r}) <= DailyLimit
    BY <1>0, <1>1, <2>2, <2>3, <2>4
  <2> QED BY <2>1, <2>5, Zenon
<1>6. CASE kindOf[r] = k /\ Booked(r) = "held" /\ Booked(r)' = "free"
  <2>1. Entries(k)' = Entries(k) \ {r}
    BY <1>2, <1>3, <1>6 DEF Entries
  <2>2. SumOf(cost, Entries(k) \ {r}) <= SumOf(cost, Entries(k))
    BY <1>0, SumWith
  <2>3. SumOf(cost, Entries(k) \ {r}) \in Nat
    <3>1. Entries(k) \ {r} \in SUBSET Runs
      BY <1>0
    <3> QED BY <1>0, <3>1, SumRows
  <2>4. SumOf(cost, Entries(k) \ {r}) <= DailyLimit
    BY <1>0, <1>1, <2>2, <2>3
  <2> QED BY <2>1, <2>4, Zenon
<1>7. Booked(r) = "held" /\ Booked(r)' = "spent" => (Booked(r)' = "free" <=> Booked(r) = "free")
  OBVIOUS
<1> QED BY <1>4, <1>5, <1>6, <1>7 DEF Books

(* The limit itself, which the ledger's steps keep: however many runs of a  *)
(* pipeline reserve, fail, are delivered again and are billed, what the     *)
(* project has spent and promised on it stays within the daily limit.       *)
THEOREM LimitCorrect == ASSUME ~MayOutliveTtl PROVE Spec => []WithinLimit
<1> DEFINE Within == \A k \in Kinds : SumOf(cost, Entries(k)) <= DailyLimit
<1>1. Init /\ PipelineInv => Within
  <2> SUFFICES ASSUME Init, PipelineInv, NEW k \in Kinds PROVE SumOf(cost, Entries(k)) <= DailyLimit
    OBVIOUS
  <2>1. Entries(k) = {}
    BY DEF Init, Entries, Booked
  <2>2. SumOf(cost, {}) = 0 /\ DailyLimit \in Nat
    <3>1. {} \in SUBSET Runs
      OBVIOUS
    <3> QED BY <3>1, RowsArePriced, SumRows DEF PipelineInv
  <2>3. SumOf(cost, {}) <= DailyLimit
    BY <2>2
  <2> QED BY <2>1, <2>3, Zenon
<1>2. PipelineInv /\ HoldInv /\ Within /\ [Next]_vars => Within'
  <2> SUFFICES ASSUME PipelineInv, HoldInv, Within, [Next]_vars, NEW k \in Kinds
               PROVE  SumOf(cost', Entries(k)') <= DailyLimit
    OBVIOUS
  <2>1. SumOf(cost, Entries(k)) <= DailyLimit
    OBVIOUS
  <2>2. SumOf(cost, Entries(k)') <= DailyLimit /\ cost' = cost
    <3>1. CASE Next
      <4>1. PICK r \in Runs : Books(r) /\ Others(r)
        BY <3>1, RunBooks DEF Next
      <4>2. SumOf(cost, Entries(k)') <= DailyLimit
        BY <2>1, <4>1, WithinStep DEF PipelineInv
      <4> QED BY <4>1, <4>2 DEF Others, caseVars
    <3>2. CASE UNCHANGED vars
      <4>1. Entries(k)' = Entries(k) /\ cost' = cost
        BY <3>2 DEF vars, caseVars, moneyVars, Entries, Booked
      <4> QED BY <2>1, <4>1, Zenon
    <3> QED BY <3>1, <3>2
  <2> QED BY <2>2, Zenon
<1>3. PipelineInv /\ Within => WithinLimit
  <2> SUFFICES ASSUME PipelineInv, Within, NEW k \in Kinds
               PROVE  Amount({r \in OfKind(k) : Account[r] # "free"}) <= DailyLimit
    BY DEF WithinLimit
  <2>1. {r \in OfKind(k) : Account[r] # "free"} = Entries(k)
    BY DEF OfKind, Account, Booked, Entries
  <2>2. Amount(Entries(k)) = SumOf(cost, Entries(k))
    BY TotalIsSum
  <2> QED BY <2>1, <2>2, Zenon
<1> HIDE DEF Within
<1> QED BY <1>1, <1>2, <1>3, HoldCorrect, PTL DEF Spec
=============================================================================
