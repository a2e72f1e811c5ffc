---------------------------- MODULE VideoRender ----------------------------
(***************************************************************************)
(* Render runs: the create route and the worker handler handleVideoRender.  *)
(* product[r] is "ready" when the output asset is registered.               *)
(***************************************************************************)
EXTENDS BudgetedRuns

(* The speech run whose narration is mixed in has succeeded. *)
NarrationGiven(r) == from[r] # r => status[from[r]] = "succeeded"

CreateRenderRun(r) ==
  /\ NarrationGiven(r)
  /\ Admit(r, "render")
  /\ UNCHANGED madeVars

RenderStep(r, at) == At("render", r, at)

LoadRenderRun(r) ==
  /\ RenderStep(r, "load")
  /\ IF status[r] \in {"queued", "running", "planning"}
       THEN Goto(r, "begin") /\ UNCHANGED job
       ELSE End(r, "succeeded")
  /\ UNCHANGED <<status, moneyVars, madeVars, faults>>

PlanRender(r) ==
  /\ RenderStep(r, "begin")
  /\ SetStatus(r, "planning") /\ Goto(r, "prepare")
  /\ UNCHANGED <<job, moneyVars, madeVars, faults>>

(* Profile, source, cues and narration, then the plan row: any may be missing. *)
PrepareRender(r) ==
  /\ RenderStep(r, "prepare")
  /\ \E l \in {"reserve", "release"} : Goto(r, l)
  /\ UNCHANGED <<status, job, moneyVars, madeVars, faults>>

ReserveRender(r) ==
  /\ RenderStep(r, "reserve")
  /\ \/ /\ OverRunLimit(r) \/ OverDailyLimit(r)
        /\ Goto(r, "release") /\ UNCHANGED <<reservation, faults>>
     \/ /\ ~OverRunLimit(r) /\ ~OverDailyLimit(r)
        /\ reservation' = [reservation EXCEPT ![r] = "reserved"]
        /\ Goto(r, "start") /\ UNCHANGED faults
     \/ Goto(r, "release") /\ Fault /\ UNCHANGED reservation
  /\ UNCHANGED <<status, job, usage, madeVars>>

(* Written by id: a cancel request made since the run was planned is lost. *)
StartRender(r) ==
  /\ RenderStep(r, "start")
  /\ SetStatus(r, "running") /\ Goto(r, "ffmpeg")
  /\ UNCHANGED <<job, moneyVars, madeVars, faults>>

(* ffmpeg ends, fails or times out, or a progress report finds the request  *)
(* and kills it. Without a report nothing looks at the row.                 *)
RunFfmpeg(r) ==
  /\ RenderStep(r, "ffmpeg")
  /\ \/ \E l \in {"output", "release"} : Goto(r, l)
     \/ status[r] = "cancel_requested" /\ Goto(r, "cancel_release")
  /\ UNCHANGED <<status, job, moneyVars, madeVars, faults>>

(* Only a valid output is uploaded and registered. *)
StoreOutput(r) ==
  /\ RenderStep(r, "output")
  /\ \/ product' = [product EXCEPT ![r] = "ready"] /\ Goto(r, "usage")
     \/ UNCHANGED product /\ Goto(r, "release")
  /\ UNCHANGED <<status, job, moneyVars, cues, quality, review, faults>>

BillRender(r) ==
  /\ RenderStep(r, "usage")
  /\ usage' = [usage EXCEPT ![r] = 1] /\ Goto(r, "commit")
  /\ UNCHANGED <<status, job, reservation, madeVars, faults>>

CommitRender(r) ==
  /\ RenderStep(r, "commit")
  /\ reservation' = [reservation EXCEPT ![r] = "committed"] /\ Goto(r, "succeed")
  /\ UNCHANGED <<status, job, usage, madeVars, faults>>

SucceedRender(r) ==
  /\ RenderStep(r, "succeed")
  /\ SetStatus(r, "succeeded") /\ End(r, "succeeded")
  /\ UNCHANGED <<moneyVars, madeVars, faults>>

RenderNext(r) ==
  \/ CreateRenderRun(r) \/ LoadRenderRun(r) \/ PlanRender(r) \/ PrepareRender(r)
  \/ ReserveRender(r) \/ StartRender(r) \/ RunFfmpeg(r) \/ StoreOutput(r) \/ BillRender(r)
  \/ CommitRender(r) \/ SucceedRender(r)
=============================================================================
