------------------------- MODULE WorkflowExecutions -------------------------
(***************************************************************************)
(* The execution of a prepared workflow by one of its three executors:     *)
(*   "worker"    handleShadowWorkflow, for a BullMQ item that may be       *)
(*               delivered again after a crash or a stall; writes by id    *)
(*   "executor"  executeShadowWorkflow, in process                         *)
(*   "dry"       runDryExecution, in process, without any real work        *)
(* and the calls around it: enqueueShadowExecution, cancelExecution and    *)
(* retryNode.  The last two executors and these calls write where          *)
(* state_version is the one they expect, and count on whether or not the   *)
(* write took effect.  An executor reads the node rows once and then goes  *)
(* by its own copy of the statuses.                                        *)
(***************************************************************************)
EXTENDS WorkflowGraphs

CONSTANTS Runners,        \* deliveries, or calls of an executor
          Requesters,     \* calls of enqueue, cancel and retry
          HandledTypes,   \* types with a registered shadow handler
          MaxNodeAttempts \* maxAttempts of retryNode

VARIABLES task,     \* the executor, the frozen graph, its order, the bounds
          exec,     \* the wf_executions row
          node,     \* the wf_node_executions rows
          evidence, \* nodes with a row in wf_shadow_artifacts
          files,    \* what is in the work directory of the execution
          item,     \* the BullMQ item, and which delivery holds it
          run,      \* each runner: how far it is, its copies
          asked,    \* each requester
          trouble,  \* how many failed statements and handlers, crashes, stalls
          done      \* history: nodes whose work was once completed

executionVars == <<task, exec, node, evidence, files, item, run, asked, trouble, done>>

NoOne == "none"
Ended == {"succeeded", "failed", "cancelled"}
Concluded(status) == status \in Ended
IsWorker == task.kind = "worker"
Steps == task.order

Idle == [at |-> "idle", key |-> NoOne, st |-> <<>>, ver |-> <<>>, execVer |-> 0,
         pos |-> 1, pass |-> 0, advanced |-> FALSE, failed |-> FALSE, made |-> {}]

Set(r, rec) == run' = [run EXCEPT ![r] = rec]
At(r, at) == run[r].at = at
Breaks(kind) ==
  /\ trouble[kind] < task.bound[kind]
  /\ trouble' = [trouble EXCEPT ![kind] = @ + 1]

(* Writes to the two tables.  state_version of a shadow execution is        *)
(* compared by nobody but the executors in process, so the worker's bumps   *)
(* are left out.  The local count goes up either way.                       *)
WriteExec(r, status) ==
  exec' = IF IsWorker THEN [exec EXCEPT !.status = status]
          ELSE IF exec.version = run[r].execVer
                 THEN [status |-> status, version |-> exec.version + 1]
                 ELSE exec
WriteNode(r, k, status) ==
  node' = IF IsWorker THEN [node EXCEPT ![k].status = status]
          ELSE IF node[k].version = run[r].ver[k]
                 THEN [node EXCEPT ![k].status = status, ![k].version = @ + 1]
                 ELSE node
CountedExec(r) == [run[r] EXCEPT !.execVer = @ + 1]
CountedNode(r, k, status) == [run[r] EXCEPT !.st[k] = status, !.ver[k] = @ + 1]

-----------------------------------------------------------------------------
(* Before the loop. *)

Take(r) ==   \* the queue gives the item to a slot of the worker
  /\ IsWorker /\ At(r, "idle") /\ item.state = "waiting"
  /\ item' = [item EXCEPT !.state = "active", !.by = r, !.deliveries = @ + 1]
  /\ Set(r, [Idle EXCEPT !.at = "begin"])
  /\ UNCHANGED <<task, exec, node, evidence, files, asked, trouble, done>>
Call(r) ==   \* one call at a time
  /\ ~IsWorker /\ At(r, "idle") /\ \A s \in Runners : run[s].at \in {"idle", "left"}
  /\ Set(r, [Idle EXCEPT !.at = "begin"])
  /\ UNCHANGED <<task, exec, node, evidence, files, item, asked, trouble, done>>

(* Mutants: without the check of a terminal state; with a check that        *)
(* accepts a prepared execution only.                                       *)
Begin_Always(r) ==
  /\ At(r, "begin")
  /\ Set(r, [run[r] EXCEPT !.at = "mark", !.execVer = exec.version])
  /\ UNCHANGED <<task, exec, node, evidence, files, item, asked, trouble, done>>
Begin_Prepared(r) ==
  /\ At(r, "begin")
  /\ Set(r, [run[r] EXCEPT !.at = IF exec.status = "prepared" THEN "mark" ELSE "leave",
                           !.execVer = exec.version])
  /\ UNCHANGED <<task, exec, node, evidence, files, item, asked, trouble, done>>
Begin(r) ==   \* EXECUTION_ALREADY_TERMINAL
  /\ At(r, "begin")
  /\ Set(r, [run[r] EXCEPT !.at = IF Concluded(exec.status) THEN "leave" ELSE "mark",
                           !.execVer = exec.version])
  /\ UNCHANGED <<task, exec, node, evidence, files, item, asked, trouble, done>>

MarkRunning(r) ==
  /\ At(r, "mark")
  /\ IF IsWorker
       THEN exec' = [exec EXCEPT !.status = IF @ = "prepared" THEN "running" ELSE @]
       ELSE WriteExec(r, "running")
  /\ Set(r, [CountedExec(r) EXCEPT !.at = "load"])
  /\ UNCHANGED <<task, node, evidence, files, item, asked, trouble, done>>

LoadNodes(r) ==
  /\ At(r, "load")
  /\ Set(r, [run[r] EXCEPT !.at = "loop", !.st = [k \in DOMAIN node |-> node[k].status],
                           !.ver = [k \in DOMAIN node |-> node[k].version]])
  /\ UNCHANGED <<task, exec, node, evidence, files, item, asked, trouble, done>>

-----------------------------------------------------------------------------
(* The loop: passes over the nodes in order, while a pass advances some     *)
(* node, at most `Passes' times.                                            *)

Passes_TooFew == (IF task.kind = "dry" THEN 3 ELSE 4) * Len(Steps) - 1   \* mutant
Passes == (IF task.kind = "dry" THEN 3 ELSE 4) * Len(Steps)

CanMove(r, k) ==
  /\ k \in DOMAIN run[r].st
  /\ \/ run[r].st[k] = "pending" /\ ~run[r].failed /\ IsReady(task.graph, k, run[r].st)
     \/ run[r].st[k] = "ready" /\ ~run[r].failed
     \/ run[r].st[k] = "running" /\ task.kind = "dry"
Ahead(r) == {i \in run[r].pos..Len(Steps) : CanMove(r, Steps[i])}
Visits(r, i) == At(r, "loop") /\ i \in Ahead(r) /\ \A j \in Ahead(r) : i <= j
Moved(rec, i) == [rec EXCEPT !.pos = i + 1, !.advanced = TRUE]

EndPass(r) ==
  /\ At(r, "loop") /\ Ahead(r) = {}
  /\ IF run[r].advanced /\ run[r].pass + 1 < Passes
       THEN Set(r, [run[r] EXCEPT !.pass = @ + 1, !.pos = 1, !.advanced = FALSE])
       ELSE Set(r, [run[r] EXCEPT !.at = "conclude"])
  /\ UNCHANGED <<task, exec, node, evidence, files, item, asked, trouble, done>>

MakeReady(r) == \E i \in DOMAIN Steps :
  LET k == Steps[i] IN
  /\ Visits(r, i) /\ run[r].st[k] = "pending"
  /\ WriteNode(r, k, "ready")
  /\ Set(r, Moved(CountedNode(r, k, "ready"), i))
  /\ UNCHANGED <<task, exec, evidence, files, item, asked, trouble, done>>

StartNode(r) == \E i \in DOMAIN Steps :
  LET k == Steps[i] IN
  /\ Visits(r, i) /\ run[r].st[k] = "ready"
  /\ WriteNode(r, k, "running")
  /\ Set(r, [Moved(CountedNode(r, k, "running"), i) EXCEPT !.at = "note", !.key = k])
  /\ UNCHANGED <<task, exec, evidence, files, item, asked, trouble, done>>

(* current_node_key of the execution; the dry run goes on with the pass.    *)
NoteNode(r) ==
  /\ At(r, "note")
  /\ WriteExec(r, exec.status)
  /\ Set(r, IF task.kind = "dry" THEN [CountedExec(r) EXCEPT !.at = "loop", !.key = NoOne]
                                 ELSE [CountedExec(r) EXCEPT !.at = "handle"])
  /\ UNCHANGED <<task, node, evidence, files, item, asked, trouble, done>>

-----------------------------------------------------------------------------
(* The work of a node. *)

Type(k) == TypeOf(task.graph, k)
Makes == [source |-> {"source.mp4"}, stt |-> {"transcript.txt"}, translate |-> {"translation.txt"},
          tts |-> {"tts_output.mp3"}, render |-> {"shadow_output.mp4"}]
Needs == [analyze |-> {"source.mp4"}, stt |-> {"source.mp4"}, translate |-> {"transcript.txt"},
          tts |-> {"translation.txt"}, align |-> {"tts_output.mp3"},
          render |-> {"source.mp4", "tts_output.mp3"}, qc |-> {"shadow_output.mp4"}]
MadeBy(t) == IF t \in DOMAIN Makes THEN Makes[t] ELSE {}
(* translate and tts fall back on what this very run has in memory.         *)
Missing(r, t) ==
  IF t \notin DOMAIN Needs \/ (t = "translate" /\ "stt" \in run[r].made)
       \/ (t = "tts" /\ "translate" \in run[r].made)
    THEN {} ELSE Needs[t] \ files
WithEvidence(t) ==   \* the handler names a storage binding
  IF IsWorker THEN t \in {"source", "stt", "translate", "tts", "render", "qc", "persist"}
              ELSE t \in HandledTypes

Handle(r) ==
  LET k == run[r].key IN
  /\ At(r, "handle") /\ (IsWorker \/ Type(k) \in HandledTypes)
  /\ \/ /\ IsWorker => Missing(r, Type(k)) = {}
        /\ files' = IF IsWorker THEN files \union MadeBy(Type(k)) ELSE files
        /\ Set(r, [run[r] EXCEPT !.at = "record", !.made = @ \union {k}])
        /\ UNCHANGED trouble
     \/ /\ IsWorker /\ Missing(r, Type(k)) # {}
        /\ Set(r, [run[r] EXCEPT !.at = "fail"])
        /\ UNCHANGED <<files, trouble>>
     \/ /\ Breaks("faults")
        /\ Set(r, [run[r] EXCEPT !.at = "fail"])
        /\ UNCHANGED files
  /\ UNCHANGED <<task, exec, node, evidence, item, asked, done>>

SkipNode(r) ==   \* the executor has no handler for the type
  LET k == run[r].key IN
  /\ At(r, "handle") /\ ~IsWorker /\ Type(k) \notin HandledTypes
  /\ WriteNode(r, k, "skipped")
  /\ Set(r, [CountedNode(r, k, "skipped") EXCEPT !.at = "loop", !.key = NoOne])
  /\ UNCHANGED <<task, exec, evidence, files, item, asked, trouble, done>>

RecordArtifact(r) ==
  LET k == run[r].key IN
  /\ At(r, "record")
  /\ \/ /\ evidence' = evidence \union (IF WithEvidence(Type(k)) THEN {k} ELSE {})
        /\ Set(r, [run[r] EXCEPT !.at = "succeed"])
        /\ UNCHANGED trouble
     \/ /\ Breaks("faults")
        /\ Set(r, [run[r] EXCEPT !.at = "fail"])
        /\ UNCHANGED evidence
  /\ UNCHANGED <<task, exec, node, files, item, asked, done>>

NodeSucceeds(r) ==
  LET k == run[r].key IN
  /\ At(r, "succeed")
  /\ WriteNode(r, k, "succeeded")
  /\ done' = done \union {k}
  /\ Set(r, [CountedNode(r, k, "succeeded") EXCEPT !.at = "progress"])
  /\ UNCHANGED <<task, exec, evidence, files, item, asked, trouble>>

(* The update itself fails, or the audit row behind it, which is written    *)
(* inside the same try block.                                               *)
SuccessLost(r) ==
  /\ \/ At(r, "succeed")
     \/ At(r, "progress") /\ run[r].st[run[r].key] = "succeeded" /\ task.kind # "dry"
  /\ Breaks("faults")
  /\ Set(r, [run[r] EXCEPT !.at = "fail"])
  /\ UNCHANGED <<task, exec, node, evidence, files, item, asked, done>>

NodeFails_GoOn(r) ==   \* mutant: the failure is not remembered
  LET k == run[r].key IN
  /\ At(r, "fail")
  /\ WriteNode(r, k, "failed")
  /\ Set(r, [CountedNode(r, k, "failed") EXCEPT !.at = "progress"])
  /\ UNCHANGED <<task, exec, evidence, files, item, asked, trouble, done>>
NodeFails(r) ==
  LET k == run[r].key IN
  /\ At(r, "fail")
  /\ WriteNode(r, k, "failed")
  /\ Set(r, [CountedNode(r, k, "failed") EXCEPT !.at = "progress", !.failed = TRUE])
  /\ UNCHANGED <<task, exec, evidence, files, item, asked, trouble, done>>

(* The next pass of the dry run ends a running node: simulated success, or  *)
(* the injected failure.                                                    *)
DryFinish(r) == \E i \in DOMAIN Steps :
  LET k == Steps[i] IN
  /\ Visits(r, i) /\ run[r].st[k] = "running"
  /\ \/ /\ WriteNode(r, k, "succeeded") /\ done' = done \union {k}
        /\ Set(r, [Moved(CountedNode(r, k, "succeeded"), i) EXCEPT !.at = "progress", !.key = k])
        /\ UNCHANGED trouble
     \/ /\ Breaks("faults") /\ WriteNode(r, k, "failed") /\ UNCHANGED done
        /\ Set(r, [Moved(CountedNode(r, k, "failed"), i) EXCEPT
                     !.at = "progress", !.key = k, !.failed = TRUE])
  /\ UNCHANGED <<task, exec, evidence, files, item, asked>>

WriteProgress(r) ==
  /\ At(r, "progress")
  /\ WriteExec(r, exec.status)
  /\ Set(r, [CountedExec(r) EXCEPT !.at = "loop", !.key = NoOne])
  /\ UNCHANGED <<task, node, evidence, files, item, asked, trouble, done>>

-----------------------------------------------------------------------------
(* After the loop, and what can go wrong. *)

Conclude(r) ==
  /\ At(r, "conclude")
  /\ WriteExec(r, IF run[r].failed THEN "failed" ELSE "succeeded")
  /\ Set(r, [CountedExec(r) EXCEPT !.at = "leave"])
  /\ UNCHANGED <<task, node, evidence, files, item, asked, trouble, done>>

(* The item ends with the delivery that holds it; there is one attempt.     *)
LetGo(r) == item' = IF item.by = r THEN [item EXCEPT !.state = "ended", !.by = NoOne] ELSE item
Entered(r) == run[r].at \notin {"idle", "begin", "mark", "left", "dead"}

Leave(r) ==
  /\ At(r, "leave")
  /\ files' = IF IsWorker /\ run[r].st # <<>> THEN {} ELSE files
  /\ LetGo(r)
  /\ Set(r, [Idle EXCEPT !.at = "left"])
  /\ UNCHANGED <<task, exec, node, evidence, asked, trouble, done>>

Abort(r) ==   \* a statement outside the try block of a node fails
  /\ run[r].at \in {"begin", "mark", "load", "loop", "note", "fail", "progress", "conclude"}
  /\ Breaks("faults")
  /\ files' = IF IsWorker /\ Entered(r) THEN {} ELSE files
  /\ LetGo(r)
  /\ Set(r, [Idle EXCEPT !.at = "left"])
  /\ UNCHANGED <<task, exec, node, evidence, asked, done>>

Redeliver == item' = [item EXCEPT !.state = "waiting", !.by = NoOne]

Crash(r) ==   \* the work directory may outlive the process or not
  /\ IsWorker /\ item.by = r /\ Breaks("crashes")
  /\ files' \in {files, {}}
  /\ Redeliver
  /\ Set(r, [Idle EXCEPT !.at = "dead"])
  /\ UNCHANGED <<task, exec, node, evidence, asked, done>>

Stall(r) ==   \* its lock is not renewed while the delivery goes on
  /\ IsWorker /\ item.by = r /\ Breaks("stalls")
  /\ Redeliver
  /\ UNCHANGED <<task, exec, node, evidence, files, run, asked, done>>

-----------------------------------------------------------------------------
(* The calls around an execution. *)

Asks(q, op, at) == asked[q].op = op /\ asked[q].at = at
Answer(q, at) == asked' = [asked EXCEPT ![q].at = at]

(* enqueueShadowExecution: the deterministic job id makes a second add of   *)
(* a known item a no-op.                                                    *)
Added == IF item.state = "none" THEN [item EXCEPT !.state = "waiting"] ELSE item
Enqueue(q) ==
  \/ /\ Asks(q, "enqueue", "new")
     /\ Answer(q, IF task.kind # "dry" /\ exec.status = "prepared"
                    THEN "add" ELSE "refused")
     /\ UNCHANGED <<task, exec, node, evidence, files, item, run, trouble, done>>
  \/ /\ Asks(q, "enqueue", "add")
     /\ item' = Added
     /\ Answer(q, "answered")
     /\ UNCHANGED <<task, exec, node, evidence, files, run, trouble, done>>

(* cancelExecution: the execution first, then each node that has not begun. *)
CancelExecution(q) ==
  \/ /\ Asks(q, "cancel", "new")
     /\ asked' = [asked EXCEPT ![q].at = IF Concluded(exec.status) THEN "answered" ELSE "write",
                               ![q].seen = exec]
     /\ UNCHANGED <<exec, node>>
  \/ /\ Asks(q, "cancel", "write")
     /\ exec' = IF exec.version = asked[q].seen.version
                  THEN [status |-> "cancelled", version |-> exec.version + 1] ELSE exec
     /\ Answer(q, IF asked[q].seen.status = "prepared" THEN "answered" ELSE "nodes")
     /\ UNCHANGED node
  \/ /\ Asks(q, "cancel", "nodes")
     /\ asked' = [asked EXCEPT ![q].at = "each", ![q].rows =
                    {[key |-> k, version |-> node[k].version] :
                       k \in {n \in DOMAIN node : node[n].status \in {"pending", "ready"}}}]
     /\ UNCHANGED <<exec, node>>
  \/ \E row \in asked[q].rows :
       /\ Asks(q, "cancel", "each")
       /\ node' = IF node[row.key].version = row.version
                    THEN [node EXCEPT ![row.key].status = "cancelled", ![row.key].version = @ + 1]
                    ELSE node
       /\ asked' = [asked EXCEPT ![q].rows = @ \ {row}]
       /\ UNCHANGED exec
  \/ /\ Asks(q, "cancel", "each") /\ asked[q].rows = {}
     /\ Answer(q, "answered")
     /\ UNCHANGED <<exec, node>>

Cancel(q) == CancelExecution(q) /\ UNCHANGED <<task, evidence, files, item, run, trouble, done>>

(* retryNode: a failed node is ready again, for its next attempt.           *)
RetryNode(q) ==
  \/ \E k \in DOMAIN node :
       /\ Asks(q, "retry", "new")
       /\ asked' = [asked EXCEPT ![q].at =
            IF node[k].status = "failed" /\ node[k].attempt < MaxNodeAttempts
              THEN "write" ELSE "refused",
            ![q].rows = {[key |-> k, version |-> node[k].version, attempt |-> node[k].attempt]}]
       /\ UNCHANGED node
  \/ \E row \in asked[q].rows :
       /\ Asks(q, "retry", "write")
       /\ node' = IF node[row.key].version = row.version
                    THEN [node EXCEPT ![row.key] = [status |-> "ready", version |-> row.version + 1,
                                                    attempt |-> row.attempt + 1]]
                    ELSE node
       /\ Answer(q, "answered")
Retry(q) == RetryNode(q) /\ UNCHANGED <<task, exec, evidence, files, item, run, trouble, done>>

-----------------------------------------------------------------------------
(* A fresh execution of a task [kind, graph, asks, bound], its rows as      *)
(* prepareWorkflowExecution writes them.                                    *)
ExecutionInit(t) ==
  /\ task = [kind |-> t.kind, graph |-> t.graph, order |-> Order(t.graph), bound |-> t.bound]
  /\ exec = [status |-> "prepared", version |-> 1]
  /\ node = [k \in KeysOf(t.graph) |-> [status |-> "pending", version |-> 1, attempt |-> 1]]
  /\ evidence = {} /\ files = {} /\ done = {}
  /\ item = [state |-> "none", by |-> NoOne, deliveries |-> 0]
  /\ run = [r \in Runners |-> Idle]
  /\ asked = [q \in Requesters |-> [op |-> t.asks[q], at |-> "new", rows |-> {},
                                    seen |-> [status |-> "prepared", version |-> 1]]]
  /\ trouble = [faults |-> 0, crashes |-> 0, stalls |-> 0]

RunnerStep(r) ==
  \/ Begin(r) \/ MarkRunning(r) \/ LoadNodes(r) \/ EndPass(r) \/ MakeReady(r) \/ StartNode(r)
  \/ NoteNode(r) \/ Handle(r) \/ SkipNode(r) \/ RecordArtifact(r) \/ NodeSucceeds(r)
  \/ NodeFails(r) \/ DryFinish(r) \/ WriteProgress(r) \/ Conclude(r) \/ Leave(r)

ExecutionNext ==
  \/ \E r \in Runners : \/ Take(r) \/ Call(r) \/ RunnerStep(r)
                        \/ SuccessLost(r) \/ Abort(r) \/ Crash(r) \/ Stall(r)
  \/ \E q \in Requesters : Enqueue(q) \/ Cancel(q) \/ Retry(q)

(* The worker and the processes of the executors keep running, and the      *)
(* queue delivers.                                                          *)
ExecutionFairness == \A r \in Runners : /\ WF_executionVars(Take(r))
                                        /\ WF_executionVars(RunnerStep(r))

-----------------------------------------------------------------------------
ExecutionTypeOK ==
  /\ exec.status \in {"prepared", "running"} \union Ended
  /\ \A k \in DOMAIN node : node[k].status \in
       {"pending", "ready", "running", "succeeded", "failed", "skipped", "cancelled"}
  /\ \A k \in DOMAIN node : node[k].attempt \in 1..MaxNodeAttempts
  /\ evidence \subseteq DOMAIN node /\ done \subseteq DOMAIN node
  /\ item.state \in {"none", "waiting", "active", "ended"}
  /\ item.by \in Runners \union {NoOne} /\ (item.by # NoOne <=> item.state = "active")
  /\ item.deliveries <= 1 + trouble.crashes + trouble.stalls

OneDelivery == IF IsWorker THEN item.deliveries <= 1
               ELSE Cardinality({r \in Runners : run[r].at # "idle"}) <= 1
Uncancelled == \A q \in Requesters : asked[q].op \in {"enqueue", "none"}

(* The work of a node begins only after the work of every node before it   *)
(* was completed, in this delivery or an earlier one, whatever crashes and *)
(* stalls come between.                                                    *)
InputsWereMade ==
  \A r \in Runners : run[r].key # NoOne => Predecessors(task.graph, run[r].key) \subseteq done

(* A graph that the validator accepted is worked off to the end: an        *)
(* execution that one run reports as succeeded has no node left over.      *)
(* The passes an executor allows itself are just enough.                   *)
SucceededIsComplete ==
  exec.status = "succeeded" /\ OneDelivery /\ Uncancelled
    /\ (task.kind = "executor" => \A k \in DOMAIN node : Type(k) \in HandledTypes)
  => \A k \in DOMAIN node : node[k].status = "succeeded"

(* No node counts as succeeded without the artifact of its work.           *)
SucceededHasEvidence ==
  task.kind # "dry" =>
    \A k \in DOMAIN node :
       node[k].status = "succeeded" /\ WithEvidence(Type(k)) => k \in evidence

(* A run that reports success has done everything, and has the evidence. *)
SucceededIsEvident == SucceededIsComplete /\ SucceededHasEvidence

(* After a node failed no other node is started, in one delivery.          *)
FailureStopsTheRun ==
  [][(\E k \in DOMAIN node : node[k].status = "failed") /\ OneDelivery /\ Uncancelled
       => \A k \in DOMAIN node : node'[k].status = "running" => node[k].status = "running"]_executionVars

(* A concluded execution keeps its status when its item is delivered again *)
(* after a crash, or when it is called again.                              *)
ConclusionKept ==
  [][Concluded(exec.status) /\ trouble.stalls = 0 /\ Uncancelled
       => exec'.status = exec.status]_executionVars

(* A cancelled execution stays cancelled. *)
CancelledStays == [][exec.status = "cancelled" => exec'.status = "cancelled"]_executionVars

(* A running execution is concluded, also when the worker crashes and the  *)
(* item is delivered again, unless a statement of its run fails.           *)
RunConcludes ==
  (exec.status = "running") ~> (Concluded(exec.status) \/ trouble.faults > 0)
=============================================================================
