--------------------------- MODULE WorkflowProofs ---------------------------
(***************************************************************************)
(* Theorems of Workflows, for every graph, every number of deliveries,     *)
(* requests and calls, and every number of faults, crashes and stalls.     *)
(***************************************************************************)
EXTENDS Workflows, InductionLemmas, FiniteSetTheorems, SequenceTheorems, TLAPS

-----------------------------------------------------------------------------
(* InputsWereMade.  The property speaks of the node that a runner works on; *)
(* it holds because a status beyond pending, in a row or in a runner's copy *)
(* of it, is only ever reached when the predecessors' work was done, and    *)
(* `succeeded' only when the node's own work was.  What a crash or a stall  *)
(* leaves behind keeps that meaning, as `done' only grows.                  *)
Begun == {"ready", "running", "succeeded", "failed", "skipped"}
AtNode(at) == at \in {"note", "handle", "record", "succeed", "fail", "progress"}

Means(status, k, g, d) ==
  /\ status = "succeeded" => k \in d
  /\ status \in Begun => Predecessors(g, k) \subseteq d

RunnerFields == {"at", "key", "st", "ver", "execVer", "pos", "pass", "advanced", "failed", "made"}
RunnerOk(rec, g, d) ==
  /\ DOMAIN rec = RunnerFields
  /\ \A k \in DOMAIN rec.st : Means(rec.st[k], k, g, d)
  /\ rec.key # NoOne => AtNode(rec.at)
  /\ AtNode(rec.at) => rec.key \in DOMAIN rec.st /\ Predecessors(g, rec.key) \subseteq d

RowOk(row, k, g, d) ==
  DOMAIN row = {"status", "version", "attempt"} /\ Means(row.status, k, g, d)

RetryOk(q, g, d) ==
  /\ DOMAIN q = {"op", "at", "rows", "seen"}
  /\ q.op = "retry" /\ q.at = "write" => \A row \in q.rows : Predecessors(g, row.key) \subseteq d

InputsInv ==
  /\ DOMAIN run = Runners /\ \A r \in Runners : RunnerOk(run[r], task.graph, done)
  /\ \A k \in DOMAIN node : RowOk(node[k], k, task.graph, done)
  /\ DOMAIN asked = Requesters /\ \A q \in Requesters : RetryOk(asked[q], task.graph, done)

LEMMA OkGrows ==
  ASSUME NEW g, NEW d, NEW e, d \subseteq e
  PROVE  /\ \A rec : RunnerOk(rec, g, d) => RunnerOk(rec, g, e)
         /\ \A row, k : RowOk(row, k, g, d) => RowOk(row, k, g, e)
         /\ \A q : RetryOk(q, g, d) => RetryOk(q, g, e)
BY DEF RunnerOk, RowOk, RetryOk, Means

LEMMA IdleOk == ASSUME NEW g, NEW d, NEW at, ~AtNode(at)
                PROVE  RunnerOk([Idle EXCEPT !.at = at], g, d) /\ RunnerOk(Idle, g, d)
BY DEF RunnerOk, Idle, RunnerFields, AtNode, Means, NoOne

(* A runner's step: its own record, at most its own node's row.             *)
LEMMA RunnerStepOk ==
  ASSUME InputsInv, task' = task, asked' = asked, done \subseteq done',
         NEW r \in Runners, NEW rec, run' = [run EXCEPT ![r] = rec],
         RunnerOk(rec, task.graph, done'),
         \A k \in DOMAIN node' : RowOk(node'[k], k, task.graph, done')
  PROVE  InputsInv'
BY OkGrows DEF InputsInv

(* Rows stay as they are when work is added. *)
LEMMA RowsStay ==
  ASSUME InputsInv, node' = node, done \subseteq done'
  PROVE  \A k \in DOMAIN node' : RowOk(node'[k], k, task.graph, done')
BY OkGrows DEF InputsInv

LEMMA WriteNodeOk ==
  ASSUME InputsInv, NEW r \in Runners, NEW n, NEW status, WriteNode(r, n, status),
         done \subseteq done', Means(status, n, task.graph, done')
  PROVE  \A k \in DOMAIN node' : RowOk(node'[k], k, task.graph, done')
<1>1. \A k \in DOMAIN node : RowOk(node[k], k, task.graph, done')
  BY OkGrows DEF InputsInv
<1>2. CASE node' = node
  BY <1>1, <1>2
<1>3. CASE node' = [node EXCEPT ![n].status = status]
  BY <1>1, <1>3 DEF RowOk
<1>4. CASE node' = [node EXCEPT ![n].status = status, ![n].version = @ + 1]
  BY <1>1, <1>4 DEF RowOk
<1> QED BY <1>2, <1>3, <1>4 DEF WriteNode

(* The copy after a write. *)
LEMMA CountedNodeOk ==
  ASSUME InputsInv, NEW r \in Runners, NEW n, NEW status, NEW d, done \subseteq d,
         Means(status, n, task.graph, d)
  PROVE  LET rec == CountedNode(r, n, status) IN
         /\ DOMAIN rec = RunnerFields
         /\ rec.key = run[r].key /\ rec.at = run[r].at /\ DOMAIN rec.st = DOMAIN run[r].st
         /\ \A k \in DOMAIN rec.st : Means(rec.st[k], k, task.graph, d)
<1>1. RunnerOk(run[r], task.graph, d)
  BY OkGrows DEF InputsInv
<1> QED BY <1>1 DEF CountedNode, RunnerOk, RunnerFields

(* The node that a runner comes to may have begun, or may begin. *)
LEMMA VisitedOk ==
  ASSUME InputsInv, NEW r \in Runners, NEW i \in DOMAIN Steps, Visits(r, i)
  PROVE  /\ Steps[i] \in DOMAIN run[r].st
         /\ Predecessors(task.graph, Steps[i]) \subseteq done
<1>1. CanMove(r, Steps[i])
  BY DEF Visits, Ahead
<1>2. RunnerOk(run[r], task.graph, done)
  BY DEF InputsInv
<1> QED BY <1>1, <1>2 DEF CanMove, RunnerOk, Means, Begun, IsReady

LEMMA InputsInit == Init => InputsInv
<1> SUFFICES ASSUME Init PROVE InputsInv
  OBVIOUS
<1>1. PICK t : ExecutionInit(t)
  BY DEF Init
<1>2. \A r \in Runners : RunnerOk(run[r], task.graph, done)
  BY <1>1, IdleOk DEF ExecutionInit, RunnerOk, Idle, RunnerFields, AtNode, Means, NoOne
<1>3. \A k \in DOMAIN node : RowOk(node[k], k, task.graph, done)
  BY <1>1 DEF ExecutionInit, RowOk, Means, Begun
<1>4. \A q \in Requesters : RetryOk(asked[q], task.graph, done)
  BY <1>1 DEF ExecutionInit, RetryOk
<1> QED BY <1>1, <1>2, <1>3, <1>4 DEF ExecutionInit, InputsInv

(* A step that leaves the statuses of a runner's copy and the rows alone.   *)
LEMMA QuietStepOk ==
  ASSUME InputsInv, task' = task, asked' = asked, node' = node, done' = done,
         NEW r \in Runners, NEW rec, Set(r, rec),
         DOMAIN rec = RunnerFields, rec.st = run[r].st,
         rec.key # NoOne => AtNode(rec.at),
         AtNode(rec.at) => AtNode(run[r].at) /\ rec.key = run[r].key
  PROVE  InputsInv'
<1>1. RunnerOk(run[r], task.graph, done)
  BY DEF InputsInv
<1>2. RunnerOk(rec, task.graph, done')
  BY <1>1 DEF RunnerOk
<1> QED BY <1>2, RowsStay, RunnerStepOk DEF Set

LEMMA RunnerStepKeeps ==
  ASSUME InputsInv, NEW r \in Runners, RunnerStep(r)
  PROVE  InputsInv'
<1> DEFINE g == task.graph
<1>0. /\ RunnerOk(run[r], g, done) /\ DOMAIN run = Runners
      /\ \A k \in DOMAIN node : RowOk(node[k], k, g, done)
  BY DEF InputsInv
<1>1. CASE Begin(r)
  BY <1>0, <1>1, QuietStepOk DEF Begin, At, AtNode, RunnerOk, RunnerFields
<1>2. CASE MarkRunning(r)
  BY <1>0, <1>2, QuietStepOk DEF MarkRunning, CountedExec, At, AtNode, RunnerOk, RunnerFields
<1>3. CASE LoadNodes(r)
  <2> DEFINE rec == [run[r] EXCEPT !.at = "loop", !.st = [k \in DOMAIN node |-> node[k].status],
                                   !.ver = [k \in DOMAIN node |-> node[k].version]]
  <2>1. RunnerOk(rec, g, done)
    BY <1>0, <1>3 DEF LoadNodes, At, RunnerOk, RunnerFields, RowOk, AtNode
  <2> QED BY <1>3, <2>1, RowsStay, RunnerStepOk DEF LoadNodes, Set
<1>4. CASE EndPass(r)
  BY <1>0, <1>4, QuietStepOk DEF EndPass, At, AtNode, RunnerOk, RunnerFields
<1>5. CASE MakeReady(r)
  <2>1. PICK i \in DOMAIN Steps : /\ Visits(r, i) /\ run[r].st[Steps[i]] = "pending"
                                  /\ WriteNode(r, Steps[i], "ready")
                                  /\ Set(r, Moved(CountedNode(r, Steps[i], "ready"), i))
    BY <1>5 DEF MakeReady
  <2>2. Means("ready", Steps[i], g, done)
    BY <2>1, VisitedOk DEF Means
  <2>3. RunnerOk(Moved(CountedNode(r, Steps[i], "ready"), i), g, done)
    BY <1>0, <2>1, <2>2, CountedNodeOk DEF Moved, RunnerOk, RunnerFields, Visits, At, AtNode
  <2> QED BY <1>5, <2>1, <2>2, <2>3, WriteNodeOk, RunnerStepOk DEF MakeReady, Set
<1>6. CASE StartNode(r)
  <2>1. PICK i \in DOMAIN Steps :
          /\ Visits(r, i) /\ WriteNode(r, Steps[i], "running")
          /\ Set(r, [Moved(CountedNode(r, Steps[i], "running"), i)
                       EXCEPT !.at = "note", !.key = Steps[i]])
    BY <1>6 DEF StartNode
  <2>2. /\ Means("running", Steps[i], g, done)
        /\ Steps[i] \in DOMAIN run[r].st /\ Predecessors(g, Steps[i]) \subseteq done
    BY <2>1, VisitedOk DEF Means
  <2>3. RunnerOk([Moved(CountedNode(r, Steps[i], "running"), i)
                    EXCEPT !.at = "note", !.key = Steps[i]], g, done)
    BY <1>0, <2>1, <2>2, CountedNodeOk DEF Moved, RunnerOk, RunnerFields, AtNode
  <2> QED BY <1>6, <2>1, <2>2, <2>3, WriteNodeOk, RunnerStepOk DEF StartNode, Set
<1>7. CASE NoteNode(r)
  BY <1>0, <1>7, QuietStepOk DEF NoteNode, CountedExec, At, AtNode, RunnerOk, RunnerFields
<1>8. CASE Handle(r)
  BY <1>0, <1>8, QuietStepOk DEF Handle, At, AtNode, RunnerOk, RunnerFields
<1>9. CASE SkipNode(r)
  <2>1. Means("skipped", run[r].key, g, done)
    BY <1>0, <1>9 DEF SkipNode, At, RunnerOk, AtNode, Means
  <2>2. RunnerOk([CountedNode(r, run[r].key, "skipped") EXCEPT !.at = "loop", !.key = NoOne], g, done)
    BY <1>0, <2>1, CountedNodeOk DEF RunnerOk, RunnerFields, AtNode
  <2> QED BY <1>9, <2>1, <2>2, WriteNodeOk, RunnerStepOk DEF SkipNode, Set
<1>10. CASE RecordArtifact(r)
  BY <1>0, <1>10, QuietStepOk DEF RecordArtifact, At, AtNode, RunnerOk, RunnerFields
<1>11. CASE NodeSucceeds(r)
  <2>1. /\ Means("succeeded", run[r].key, g, done') /\ done \subseteq done'
        /\ run[r].key \in DOMAIN run[r].st /\ Predecessors(g, run[r].key) \subseteq done'
    BY <1>0, <1>11 DEF NodeSucceeds, At, RunnerOk, AtNode, Means
  <2>2. RunnerOk([CountedNode(r, run[r].key, "succeeded") EXCEPT !.at = "progress"], g, done')
    BY <1>0, <2>1, CountedNodeOk DEF RunnerOk, RunnerFields, AtNode
  <2> QED BY <1>11, <2>1, <2>2, WriteNodeOk, RunnerStepOk DEF NodeSucceeds, Set
<1>12. CASE NodeFails(r)
  <2>1. /\ Means("failed", run[r].key, g, done)
        /\ run[r].key \in DOMAIN run[r].st /\ Predecessors(g, run[r].key) \subseteq done
    BY <1>0, <1>12 DEF NodeFails, At, RunnerOk, AtNode, Means
  <2>2. RunnerOk([CountedNode(r, run[r].key, "failed") EXCEPT !.at = "progress", !.failed = TRUE],
                 g, done)
    BY <1>0, <2>1, CountedNodeOk DEF RunnerOk, RunnerFields, AtNode
  <2> QED BY <1>12, <2>1, <2>2, WriteNodeOk, RunnerStepOk DEF NodeFails, Set
<1>13. CASE DryFinish(r)
  <2>1. PICK i \in DOMAIN Steps, outcome \in {"succeeded", "failed"} :
          /\ Visits(r, i) /\ WriteNode(r, Steps[i], outcome)
          /\ done' = IF outcome = "succeeded" THEN done \union {Steps[i]} ELSE done
          /\ \/ Set(r, [Moved(CountedNode(r, Steps[i], outcome), i)
                       EXCEPT !.at = "progress", !.key = Steps[i]])
             \/ Set(r, [Moved(CountedNode(r, Steps[i], outcome), i)
                       EXCEPT !.at = "progress", !.key = Steps[i], !.failed = TRUE])
    BY <1>13 DEF DryFinish
  <2>2. /\ Means(outcome, Steps[i], g, done') /\ done \subseteq done'
        /\ Steps[i] \in DOMAIN run[r].st /\ Predecessors(g, Steps[i]) \subseteq done'
    BY <2>1, VisitedOk DEF Means
  <2> DEFINE counted == CountedNode(r, Steps[i], outcome)
  <2>3. /\ DOMAIN counted = RunnerFields /\ DOMAIN counted.st = DOMAIN run[r].st
        /\ \A k \in DOMAIN counted.st : Means(counted.st[k], k, g, done')
    BY <2>2, CountedNodeOk
  <2>4. ASSUME NEW rec, DOMAIN rec = RunnerFields, rec.st = counted.st,
               rec.at = "progress", rec.key = Steps[i], Set(r, rec)
        PROVE  InputsInv'
    <3>1. RunnerOk(rec, g, done')
      BY <2>2, <2>3, <2>4 DEF RunnerOk, AtNode
    <3> QED BY <1>13, <2>1, <2>2, <2>4, <3>1, WriteNodeOk, RunnerStepOk DEF DryFinish, Set
  <2> HIDE DEF counted
  <2>5. CASE Set(r, [Moved(counted, i) EXCEPT !.at = "progress", !.key = Steps[i]])
    BY <2>3, <2>4, <2>5 DEF Moved, RunnerFields
  <2>6. CASE Set(r, [Moved(counted, i) EXCEPT !.at = "progress", !.key = Steps[i], !.failed = TRUE])
    BY <2>3, <2>4, <2>6 DEF Moved, RunnerFields
  <2> QED BY <2>1, <2>5, <2>6 DEF counted
<1>14. CASE WriteProgress(r)
  BY <1>0, <1>14, QuietStepOk DEF WriteProgress, CountedExec, At, AtNode, RunnerOk, RunnerFields
<1>15. CASE Conclude(r)
  BY <1>0, <1>15, QuietStepOk DEF Conclude, CountedExec, At, AtNode, RunnerOk, RunnerFields
<1>16. CASE Leave(r)
  BY <1>16, IdleOk, RowsStay, RunnerStepOk DEF Leave, Set, AtNode
<1> QED BY <1>1, <1>2, <1>3, <1>4, <1>5, <1>6, <1>7, <1>8, <1>9, <1>10, <1>11, <1>12,
           <1>13, <1>14, <1>15, <1>16 DEF RunnerStep

(* The requests touch no runner's record. *)
LEMMA RequestStepOk ==
  ASSUME InputsInv, task' = task, run' = run, done' = done,
         NEW q \in Requesters, DOMAIN asked' = Requesters,
         \A p \in Requesters \ {q} : asked'[p] = asked[p],
         RetryOk(asked'[q], task.graph, done),
         DOMAIN node' = DOMAIN node, \A k \in DOMAIN node' : RowOk(node'[k], k, task.graph, done)
  PROVE  InputsInv'
BY DEF InputsInv

LEMMA RequestKeeps ==
  ASSUME InputsInv, NEW q \in Requesters, Enqueue(q) \/ Cancel(q) \/ Retry(q)
  PROVE  InputsInv'
<1> DEFINE g == task.graph
<1>0. /\ RetryOk(asked[q], g, done) /\ DOMAIN asked = Requesters
      /\ \A k \in DOMAIN node : RowOk(node[k], k, g, done)
  BY DEF InputsInv
<1>a. ASSUME NEW at, Answer(q, at)
      PROVE  /\ DOMAIN asked' = Requesters /\ \A p \in Requesters \ {q} : asked'[p] = asked[p]
             /\ asked'[q] = [asked[q] EXCEPT !.at = at]
  BY <1>0, <1>a DEF Answer
<1>1. CASE Enqueue(q)
  <2>1. /\ asked[q].op = "enqueue" /\ \E at : Answer(q, at)
        /\ task' = task /\ run' = run /\ done' = done /\ node' = node
    BY <1>1 DEF Enqueue, Asks
  <2>2. RetryOk(asked'[q], g, done)
    BY <1>0, <1>a, <2>1 DEF RetryOk
  <2> QED BY <1>0, <1>a, <2>1, <2>2, RequestStepOk
<1>2. CASE Cancel(q)
  <2>1. /\ DOMAIN asked' = Requesters /\ \A p \in Requesters \ {q} : asked'[p] = asked[p]
        /\ DOMAIN asked'[q] = DOMAIN asked[q] /\ asked'[q].op = asked[q].op
    <3>1. CASE \E at : Answer(q, at)
      BY <1>0, <1>a, <3>1 DEF RetryOk
    <3>2. CASE Asks(q, "cancel", "new")
      BY <1>0, <1>2, <3>2 DEF Cancel, CancelExecution, Asks, RetryOk
    <3>3. CASE Asks(q, "cancel", "nodes")
      BY <1>0, <1>2, <3>3 DEF Cancel, CancelExecution, Asks, RetryOk
    <3>4. CASE \E row \in asked[q].rows : asked' = [asked EXCEPT ![q].rows = @ \ {row}]
      BY <1>0, <3>4 DEF RetryOk
    <3> QED BY <1>2, <3>1, <3>2, <3>3, <3>4 DEF Cancel, CancelExecution
  <2>2. asked[q].op = "cancel"
    BY <1>2 DEF Cancel, CancelExecution, Asks
  <2>3. RetryOk(asked'[q], g, done)
    BY <1>0, <2>1, <2>2 DEF RetryOk
  <2>4. /\ DOMAIN node' = DOMAIN node
        /\ \A k \in DOMAIN node' : RowOk(node'[k], k, g, done)
    <3>1. CASE node' = node
      BY <1>0, <3>1
    <3>2. CASE \E row \in asked[q].rows :
                 node' = [node EXCEPT ![row.key].status = "cancelled", ![row.key].version = @ + 1]
      BY <1>0, <3>2 DEF RowOk, Means, Begun
    <3> QED BY <1>2, <3>1, <3>2 DEF Cancel, CancelExecution
  <2> QED BY <1>2, <2>1, <2>3, <2>4, RequestStepOk DEF Cancel
<1>3. CASE Retry(q)
  <2>1. CASE Asks(q, "retry", "new")
    <3>1. PICK k \in DOMAIN node : asked' = [asked EXCEPT ![q].at =
            IF node[k].status = "failed" /\ node[k].attempt < MaxNodeAttempts
              THEN "write" ELSE "refused",
            ![q].rows = {[key |-> k, version |-> node[k].version, attempt |-> node[k].attempt]}]
      BY <1>3, <2>1 DEF Retry, RetryNode, Asks
    <3>2. /\ DOMAIN asked' = Requesters /\ \A p \in Requesters \ {q} : asked'[p] = asked[p]
          /\ DOMAIN asked'[q] = DOMAIN asked[q]
          /\ asked'[q].at = "write" => node[k].status = "failed"
          /\ \A row \in asked'[q].rows : row.key = k
      BY <1>0, <3>1 DEF RetryOk
    <3>3. node[k].status = "failed" => Predecessors(g, k) \subseteq done
      BY <1>0 DEF RowOk, Means, Begun
    <3>4. RetryOk(asked'[q], g, done)
      BY <1>0, <3>2, <3>3 DEF RetryOk
    <3>5. node' = node
      BY <1>3, <2>1 DEF Retry, RetryNode, Asks
    <3> QED BY <1>0, <1>3, <3>2, <3>4, <3>5, RequestStepOk DEF Retry
  <2>2. CASE Asks(q, "retry", "write")
    <3>1. PICK row \in asked[q].rows :
            \/ node' = node
            \/ node' = [node EXCEPT ![row.key] =
                 [status |-> "ready", version |-> row.version + 1, attempt |-> row.attempt + 1]]
      BY <1>3, <2>2 DEF Retry, RetryNode, Asks
    <3>2. Predecessors(g, row.key) \subseteq done
      BY <1>0, <2>2, <3>1 DEF RetryOk, Asks
    <3>3. /\ DOMAIN node' = DOMAIN node
          /\ \A k \in DOMAIN node' : RowOk(node'[k], k, g, done)
      BY <1>0, <3>1, <3>2 DEF RowOk, Means
    <3>4. Answer(q, "answered")
      BY <1>3, <2>2 DEF Retry, RetryNode, Asks
    <3>5. /\ DOMAIN asked' = Requesters /\ \A p \in Requesters \ {q} : asked'[p] = asked[p]
          /\ asked'[q] = [asked[q] EXCEPT !.at = "answered"]
      BY <1>a, <3>4
    <3>6. RetryOk(asked'[q], g, done)
      BY <1>0, <3>5 DEF RetryOk
    <3> QED BY <1>3, <3>3, <3>5, <3>6, RequestStepOk DEF Retry
  <2> QED BY <1>3, <2>1, <2>2 DEF Retry, RetryNode
<1> QED BY <1>1, <1>2, <1>3

LEMMA InputsKept == InputsInv /\ [Next]_workflowVars => InputsInv'
<1> SUFFICES ASSUME InputsInv, [Next]_workflowVars PROVE InputsInv'
  OBVIOUS
<1>1. CASE UNCHANGED executionVars
  BY <1>1 DEF InputsInv, executionVars
<1>2. CASE \E r \in Runners : RunnerStep(r)
  BY <1>2, RunnerStepKeeps
<1>3. CASE \E r \in Runners : Take(r) \/ Call(r) \/ Abort(r) \/ Crash(r)
  <2>1. PICK r \in Runners, at \in {"begin", "left", "dead"} :
          /\ Set(r, [Idle EXCEPT !.at = at])
          /\ task' = task /\ asked' = asked /\ node' = node /\ done' = done
    BY <1>3 DEF Take, Call, Abort, Crash
  <2>2. RunnerOk([Idle EXCEPT !.at = at], task.graph, done')
    BY <2>1, IdleOk DEF AtNode
  <2> QED BY <2>1, <2>2, RowsStay, RunnerStepOk DEF Set
<1>4. CASE \E r \in Runners : SuccessLost(r)
  <2>1. PICK r \in Runners : SuccessLost(r)
    BY <1>4
  <2>2. DOMAIN run[r] = RunnerFields
    BY DEF InputsInv, RunnerOk
  <2> QED BY <2>1, <2>2, QuietStepOk DEF SuccessLost, At, AtNode, RunnerFields
<1>5. CASE \E r \in Runners : Stall(r)
  BY <1>5 DEF Stall, InputsInv
<1>6. CASE \E q \in Requesters : Enqueue(q) \/ Cancel(q) \/ Retry(q)
  BY <1>6, RequestKeeps
<1> QED BY <1>1, <1>2, <1>3, <1>4, <1>5, <1>6
        DEF Next, VersionsStep, RoutingStep, ExecutionStep, ExecutionNext, workflowVars

(* The work of a node begins only after the work of every node before it    *)
(* was completed, whatever the deliveries, crashes, stalls, cancellations   *)
(* and retries of the execution (the loops of shadow-workflow.ts,           *)
(* shadow-executor.ts and dry-executor.ts).                                 *)
THEOREM InputsCorrect == Spec => []InputsWereMade
<1>1. InputsInv => InputsWereMade
  BY DEF InputsInv, RunnerOk, InputsWereMade
<1> QED BY <1>1, InputsInit, InputsKept, PTL DEF Spec

-----------------------------------------------------------------------------
(* KeyNamesOneExecution.  The index makes the snapshot of a key unique.  A  *)
(* preparation past that insert owns one, with its key and its intent, and  *)
(* no other; an answered one found one or made one.                         *)
Late == {"execution", "node rows", "answered", "failed"}
Prepares(c) == Ask(c).op = "prepare"
CallFields == {"ask", "at", "graph", "number", "source", "exec"}
SnapshotFields == {"key", "intent", "by", "graph", "exec", "rows"}
Fits(s, c) == s.key = Ask(c).key /\ s.intent = Intent(c)

CallsOk == DOMAIN call = Authors /\ \A c \in Authors : DOMAIN call[c] = CallFields
OnePerKey == \A s, t \in snapshot : s.key = t.key => s = t
SnapshotsOk ==
  \A s \in snapshot :
     /\ DOMAIN s = SnapshotFields /\ s.exec \in {Nobody, s.by}
     /\ s.by \in Authors /\ Prepares(s.by) /\ call[s.by].at \in Late /\ Fits(s, s.by)
OwnersOk ==
  \A c \in Authors : Prepares(c) /\ call[c].at \in {"execution", "node rows"} =>
     \E s \in snapshot : s.by = c
AnswersOk ==
  \A c \in Authors : Prepares(c) /\ call[c].at = "answered" =>
     \E s \in snapshot : Fits(s, c) /\ call[c].exec \in {Nobody, s.by}
KeyInv == CallsOk /\ OnePerKey /\ SnapshotsOk /\ OwnersOk /\ AnswersOk

(* A step that leaves the snapshots alone, of a call that prepares nothing  *)
(* or whose outcome is still open, or a statement that fails.               *)
LEMMA KeyQuiet ==
  ASSUME KeyInv, snapshot' = snapshot, NEW c \in Authors, DOMAIN call' = Authors,
         \A d \in Authors \ {c} : call'[d] = call[d],
         DOMAIN call'[c] = CallFields, call'[c].ask = call[c].ask,
         \/ ~Prepares(c)
         \/ call[c].at \notin Late /\ call'[c].at \notin {"execution", "node rows", "answered"}
         \/ call'[c].at = "failed" /\ call'[c].source = call[c].source
  PROVE  KeyInv'
<1>1. /\ CallsOk /\ OnePerKey /\ SnapshotsOk /\ OwnersOk /\ AnswersOk
      /\ \A d \in Authors : Ask(d)' = Ask(d)
      /\ \A d \in Authors \ {c} : call'[d] = call[d] /\ Intent(d)' = Intent(d)
  BY DEF KeyInv, Ask, Intent
<1>2. CallsOk' /\ OnePerKey'
  BY <1>1 DEF CallsOk, OnePerKey
<1>3. SnapshotsOk'
  <2> SUFFICES ASSUME NEW s \in snapshot
               PROVE  call'[s.by].at \in Late /\ Fits(s, s.by)'
    BY <1>1 DEF SnapshotsOk, Prepares
  <2>1. CASE s.by # c
    BY <1>1, <2>1 DEF SnapshotsOk, Fits
  <2>2. CASE s.by = c
    BY <1>1, <2>2 DEF SnapshotsOk, Fits, Late, Intent
  <2> QED BY <2>1, <2>2
<1>4. OwnersOk'
  BY <1>1 DEF OwnersOk, Prepares
<1>5. AnswersOk'
  <2> SUFFICES ASSUME NEW d \in Authors, Prepares(d)', call'[d].at = "answered"
               PROVE  \E s \in snapshot : Fits(s, d)' /\ call'[d].exec \in {Nobody, s.by}
    BY DEF AnswersOk
  <2>1. d # c /\ Prepares(d)
    BY <1>1 DEF Prepares, Late
  <2> QED BY <1>1, <2>1 DEF AnswersOk, Fits
<1> QED BY <1>2, <1>3, <1>4, <1>5 DEF KeyInv

(* The step of one preparation that changes its own snapshot, or is         *)
(* answered from one: what must be shown of it.                             *)
LEMMA KeyPreparation ==
  ASSUME KeyInv, NEW c \in Authors, Prepares(c), DOMAIN call' = Authors,
         \A d \in Authors \ {c} : call'[d] = call[d],
         DOMAIN call'[c] = CallFields, call'[c].ask = call[c].ask,
         call'[c].source = call[c].source, call'[c].at \in Late,
         OnePerKey',
         \A s \in snapshot : s.by # c => s \in snapshot',
         \A s \in snapshot' : s.by # c => s \in snapshot,
         \A s \in snapshot' : s.by = c => /\ DOMAIN s = SnapshotFields /\ Fits(s, c)
                                         /\ s.exec \in {Nobody, c},
         \A s \in snapshot : s.by = c => \E t \in snapshot' : t.by = c,
         call'[c].at \in {"execution", "node rows"} => \E s \in snapshot' : s.by = c,
         call'[c].at = "answered" =>
           \E s \in snapshot' : Fits(s, c) /\ call'[c].exec \in {Nobody, s.by}
  PROVE  KeyInv'
<1>1. /\ CallsOk /\ SnapshotsOk /\ OwnersOk /\ AnswersOk
      /\ \A d \in Authors : Ask(d)' = Ask(d) /\ Intent(d)' = Intent(d)
  BY DEF KeyInv, Ask, Intent
<1>2. \A s : \A d \in Authors : Fits(s, d)' <=> Fits(s, d)
  BY <1>1 DEF Fits
<1>3. CallsOk'
  BY <1>1 DEF CallsOk
<1>4. SnapshotsOk'
  <2> SUFFICES ASSUME NEW s \in snapshot'
               PROVE  /\ DOMAIN s = SnapshotFields /\ s.exec \in {Nobody, s.by} /\ s.by \in Authors
                      /\ Prepares(s.by)' /\ call'[s.by].at \in Late /\ Fits(s, s.by)'
    BY DEF SnapshotsOk
  <2>1. CASE s.by = c
    BY <1>1, <1>2, <2>1 DEF Prepares
  <2>2. CASE s.by # c
    BY <1>1, <1>2, <2>2 DEF SnapshotsOk, Prepares
  <2> QED BY <2>1, <2>2
<1>5. OwnersOk'
  <2> SUFFICES ASSUME NEW d \in Authors, Prepares(d)', call'[d].at \in {"execution", "node rows"}
               PROVE  \E s \in snapshot' : s.by = d
    BY DEF OwnersOk
  <2>1. CASE d # c
    BY <1>1, <2>1 DEF OwnersOk, Prepares
  <2> QED BY <2>1
<1>6. AnswersOk'
  <2> SUFFICES ASSUME NEW d \in Authors, Prepares(d)', call'[d].at = "answered"
               PROVE  \E s \in snapshot' : Fits(s, d)' /\ call'[d].exec \in {Nobody, s.by}
    BY DEF AnswersOk
  <2>1. CASE d = c
    BY <1>2, <2>1
  <2>2. CASE d # c
    <3>1. PICK s \in snapshot : Fits(s, d) /\ call[d].exec \in {Nobody, s.by}
      BY <1>1, <2>2 DEF AnswersOk, Prepares
    <3>2. CASE s.by # c
      BY <1>2, <2>2, <3>1, <3>2
    <3>3. CASE s.by = c
      <4>1. PICK t \in snapshot' : t.by = c
        BY <3>3
      <4>2. Fits(s, c) /\ Fits(t, c)
        BY <1>1, <3>3, <4>1 DEF SnapshotsOk
      <4>3. Fits(t, d)
        BY <3>1, <4>2 DEF Fits
      <4> QED BY <1>2, <2>2, <3>1, <3>3, <4>1, <4>3
    <3> QED BY <3>2, <3>3
  <2> QED BY <2>1, <2>2
<1> QED BY <1>3, <1>4, <1>5, <1>6 DEF KeyInv

LEMMA OwnSnapshot ==
  ASSUME KeyInv, NEW c \in Authors, Prepares(c), call[c].at \in {"execution", "node rows"}
  PROVE  LET own == CHOOSE s \in snapshot : s.by = c IN
         /\ own \in snapshot /\ own.by = c /\ Fits(own, c) /\ DOMAIN own = SnapshotFields
         /\ own.exec \in {Nobody, c}
         /\ \A s \in snapshot : s.by = c => s = own
<1>1. \A s \in snapshot : s.by = c => Fits(s, c)
  BY DEF KeyInv, SnapshotsOk
<1>2. \A s, t \in snapshot : s.by = c /\ t.by = c => s = t
  BY <1>1 DEF KeyInv, OnePerKey, Fits
<1> QED BY <1>1, <1>2 DEF KeyInv, OwnersOk, SnapshotsOk

LEMMA PrepareKeepsKeys ==
  ASSUME KeyInv, NEW c \in Authors, LookUpSnapshot(c) \/ PersistSnapshot(c) \/ PersistExecution(c)
  PROVE  KeyInv'
<1>0. /\ DOMAIN call = Authors /\ DOMAIN call[c] = CallFields /\ Prepares(c)
      /\ OnePerKey /\ SnapshotsOk
      /\ \A s \in snapshot : s.by = c => call[c].at \in Late
  BY DEF KeyInv, CallsOk, SnapshotsOk, LookUpSnapshot, PersistSnapshot, PersistExecution, Working, Prepares
<1>a. ASSUME NEW at, Goes(c, at)
      PROVE  /\ DOMAIN call' = Authors /\ \A d \in Authors \ {c} : call'[d] = call[d]
             /\ DOMAIN call'[c] = CallFields /\ call'[c].at = at
             /\ call'[c].ask = call[c].ask /\ call'[c].source = call[c].source
  BY <1>0, <1>a DEF Goes, CallFields
<1>b. ASSUME NEW at \in {"refused", "persist", "failed"}, Goes(c, at),
             call[c].at \notin Late, snapshot' = snapshot
      PROVE  KeyInv'
  <2>1. /\ DOMAIN call' = Authors /\ \A d \in Authors \ {c} : call'[d] = call[d]
        /\ DOMAIN call'[c] = CallFields /\ call'[c].at = at /\ call'[c].ask = call[c].ask
    BY <1>a, <1>b
  <2> QED BY <1>b, <2>1, KeyQuiet
<1>1. CASE LookUpSnapshot(c)
  <2>1. call[c].at \notin Late /\ snapshot' = snapshot
    BY <1>1 DEF LookUpSnapshot, Working, Late
  <2> DEFINE s == CHOOSE t \in SnapshotsAt(Ask(c).key) : TRUE
  <2>2. CASE Goes(c, "persist") \/ Goes(c, "refused")
    BY <1>b, <2>1, <2>2
  <2>3. CASE /\ SnapshotsAt(Ask(c).key) # {} /\ s.intent = Intent(c)
             /\ call' = [call EXCEPT ![c].at = "answered", ![c].exec = s.exec]
    <3>1. s \in snapshot /\ s.key = Ask(c).key
      BY <2>3 DEF SnapshotsAt
    <3>2. s.exec \in {Nobody, s.by} /\ Fits(s, c)
      BY <1>0, <2>3, <3>1 DEF SnapshotsOk, Fits
    <3> HIDE DEF s
    <3>3. /\ DOMAIN call' = Authors /\ \A d \in Authors \ {c} : call'[d] = call[d]
          /\ DOMAIN call'[c] = CallFields /\ call'[c].ask = call[c].ask
          /\ call'[c].source = call[c].source /\ call'[c].at = "answered" /\ call'[c].exec = s.exec
      BY <1>0, <2>3 DEF CallFields
    <3>4. /\ OnePerKey' /\ \A t \in snapshot : t.by # c
      BY <1>0, <2>1 DEF OnePerKey
    <3> QED BY <1>0, <2>1, <3>1, <3>2, <3>3, <3>4, KeyPreparation DEF Late
  <2> QED BY <1>1, <2>2, <2>3 DEF LookUpSnapshot
<1>2. CASE PersistSnapshot(c)
  <2>1. call[c].at \notin Late
    BY <1>2 DEF PersistSnapshot, Working, Late
  <2>2. CASE snapshot' = snapshot /\ Goes(c, "failed")
    BY <1>b, <2>1, <2>2
  <2> DEFINE s == [key |-> Ask(c).key, intent |-> Intent(c), by |-> c,
                   graph |-> call[c].graph, exec |-> Nobody, rows |-> {}]
  <2>3. CASE /\ SnapshotsAt(Ask(c).key) = {} /\ snapshot' = snapshot \union {s}
             /\ Goes(c, "execution")
    <3>1. s.by = c /\ s.exec = Nobody /\ DOMAIN s = SnapshotFields /\ Fits(s, c)
      BY DEF SnapshotFields, Fits
    <3>2. \A t \in snapshot : t.key # s.key /\ t.by # c
      BY <1>0, <2>1, <2>3 DEF SnapshotsAt
    <3> HIDE DEF s
    <3>3. OnePerKey'
      BY <1>0, <2>3, <3>2 DEF OnePerKey
    <3>4. /\ DOMAIN call' = Authors /\ \A d \in Authors \ {c} : call'[d] = call[d]
          /\ DOMAIN call'[c] = CallFields /\ call'[c].ask = call[c].ask
          /\ call'[c].source = call[c].source /\ call'[c].at = "execution"
      BY <1>a, <2>3
    <3> QED BY <1>0, <2>3, <3>1, <3>2, <3>3, <3>4, KeyPreparation DEF Late
  <2> QED BY <1>2, <2>2, <2>3 DEF PersistSnapshot
<1>3. CASE PersistExecution(c)
  <2> DEFINE own == CHOOSE s \in snapshot : s.by = c
  <2>1. call[c].at \in {"execution", "node rows"}
    BY <1>3 DEF PersistExecution, Working
  <2>2. /\ own \in snapshot /\ own.by = c /\ Fits(own, c) /\ DOMAIN own = SnapshotFields
        /\ own.exec \in {Nobody, c} /\ \A s \in snapshot : s.by = c => s = own
    BY <1>0, <2>1, OwnSnapshot
  <2>3. PICK new \in {[own EXCEPT !.exec = c], [own EXCEPT !.rows = KeysOf(own.graph)]} :
          /\ snapshot' = (snapshot \ {own}) \union {new}
          /\ \/ Goes(c, "node rows")
             \/ call' = [call EXCEPT ![c].at = "answered", ![c].exec = c]
    BY <1>3 DEF PersistExecution
  <2> HIDE DEF own
  <2>4. /\ new.by = c /\ new.key = own.key /\ new.intent = own.intent
        /\ DOMAIN new = SnapshotFields /\ new.exec \in {Nobody, c}
    BY <2>2, <2>3 DEF SnapshotFields
  <2>5. Fits(new, c)
    BY <2>2, <2>4 DEF Fits
  <2>6. OnePerKey'
    <3>1. \A s \in snapshot \ {own} : s.key # new.key
      BY <1>0, <2>2, <2>4 DEF OnePerKey
    <3> QED BY <1>0, <2>3, <3>1 DEF OnePerKey
  <2>7. /\ DOMAIN call' = Authors /\ \A d \in Authors \ {c} : call'[d] = call[d]
        /\ DOMAIN call'[c] = CallFields /\ call'[c].ask = call[c].ask
        /\ call'[c].source = call[c].source
        /\ call'[c].at \in {"node rows", "answered"}
        /\ call'[c].at = "answered" => call'[c].exec = c
    <3>1. CASE Goes(c, "node rows")
      <4>1. /\ DOMAIN call' = Authors /\ \A d \in Authors \ {c} : call'[d] = call[d]
            /\ DOMAIN call'[c] = CallFields /\ call'[c].at = "node rows"
            /\ call'[c].ask = call[c].ask /\ call'[c].source = call[c].source
        BY <1>a, <3>1
      <4> QED BY <4>1
    <3>2. CASE call' = [call EXCEPT ![c].at = "answered", ![c].exec = c]
      BY <1>0, <3>2 DEF CallFields
    <3> QED BY <2>3, <3>1, <3>2
  <2>8. /\ \A s \in snapshot : s.by # c => s \in snapshot'
        /\ \A s \in snapshot' : s.by # c => s \in snapshot
        /\ \A s \in snapshot' : s.by = c => s = new
        /\ new \in snapshot'
    BY <2>2, <2>3, <2>4
  <2> QED BY <1>0, <2>4, <2>5, <2>6, <2>7, <2>8, KeyPreparation DEF Late
<1> QED BY <1>1, <1>2, <1>3

LEMMA KeyKept == KeyInv /\ [Next]_workflowVars => KeyInv'
<1> SUFFICES ASSUME KeyInv, [Next]_workflowVars PROVE KeyInv'
  OBVIOUS
<1>0. DOMAIN call = Authors /\ \A c \in Authors : DOMAIN call[c] = CallFields
  BY DEF KeyInv, CallsOk
<1>1. CASE UNCHANGED versionVars
  BY <1>1 DEF KeyInv, versionVars, CallsOk, OnePerKey, SnapshotsOk, OwnersOk, AnswersOk,
              Ask, Intent, Prepares, Fits
<1>2. ASSUME NEW c \in Authors, LookUpSnapshot(c) \/ PersistSnapshot(c) \/ PersistExecution(c)
      PROVE  KeyInv'
  BY <1>2, PrepareKeepsKeys
<1>3. ASSUME NEW c \in Authors, ~Prepares(c), snapshot' = snapshot, DOMAIN call' = Authors,
             \A d \in Authors \ {c} : call'[d] = call[d],
             DOMAIN call'[c] = CallFields, call'[c].ask = call[c].ask
      PROVE  KeyInv'
  BY <1>3, KeyQuiet
<1>4. ASSUME NEW c \in Authors, \/ CreateVersion(c) \/ ReadCurrent(c) \/ InsertFlow(c)
                                \/ InsertVersion(c) \/ PointAtClone(c) \/ InsertRow(c)
                                \/ ActivateVersion(c) \/ ArchiveFlow(c)
      PROVE  KeyInv'
  <2>1. ~Prepares(c) /\ snapshot' = snapshot
    BY <1>4 DEF CreateVersion, ReadCurrent, InsertFlow, InsertVersion, PointAtClone, InsertRow,
                ActivateVersion, ArchiveFlow, Working, Prepares
  <2>2. /\ DOMAIN call' = Authors /\ \A d \in Authors \ {c} : call'[d] = call[d]
        /\ DOMAIN call'[c] = CallFields /\ call'[c].ask = call[c].ask
    <3>1. CASE CreateVersion(c)
      BY <1>0, <3>1 DEF CreateVersion, Goes, CallFields
    <3>2. CASE ReadCurrent(c) \/ ArchiveFlow(c)
      BY <1>0, <3>2 DEF ReadCurrent, ArchiveFlow, Goes, CallFields
    <3>3. CASE InsertFlow(c) \/ InsertVersion(c) \/ PointAtClone(c)
      BY <1>0, <3>3 DEF InsertFlow, InsertVersion, PointAtClone, Goes, CallFields
    <3>4. CASE InsertRow(c)
      BY <1>0, <3>4 DEF InsertRow, Goes, CallFields
    <3>5. CASE ActivateVersion(c)
      BY <1>0, <3>5 DEF ActivateVersion, Goes, CallFields
    <3> QED BY <1>4, <3>1, <3>2, <3>3, <3>4, <3>5
  <2> QED BY <1>3, <2>1, <2>2
<1>5. ASSUME NEW c \in Authors, ReadVersion(c) \/ ReadNodes(c) \/ ReadEdges(c)
      PROVE  KeyInv'
  <2>1. /\ call[c].at \notin Late /\ snapshot' = snapshot
        /\ DOMAIN call' = Authors /\ \A d \in Authors \ {c} : call'[d] = call[d]
        /\ DOMAIN call'[c] = CallFields /\ call'[c].ask = call[c].ask
        /\ call'[c].at \notin {"execution", "node rows", "answered"}
    <3>1. CASE ReadVersion(c)
      BY <1>0, <3>1 DEF ReadVersion, Working, Goes, Late, CallFields
    <3>2. CASE ReadNodes(c)
      BY <1>0, <3>2 DEF ReadNodes, Late, CallFields
    <3>3. CASE ReadEdges(c)
      BY <1>0, <3>3 DEF ReadEdges, Late, CallFields
    <3> QED BY <1>5, <3>1, <3>2, <3>3
  <2> QED BY <2>1, KeyQuiet
<1>6. ASSUME NEW c \in Authors, Fails(c)
      PROVE  KeyInv'
  BY <1>0, <1>6, KeyQuiet DEF Fails, Goes, CallFields
<1> QED BY <1>1, <1>2, <1>4, <1>5, <1>6
        DEF Next, VersionsStep, RoutingStep, ExecutionStep, VersionsNext, workflowVars

(* One execution for each idempotency key: two preparations answered under  *)
(* one key had the same intent and name the same execution, unless one came *)
(* before it was made (prepareWorkflowExecution in prepare-service.ts).     *)
THEOREM KeyCorrect == Spec => []KeyNamesOneExecution
<1>1. Init => KeyInv
  <2> SUFFICES ASSUME Init PROVE KeyInv
    OBVIOUS
  <2>1. PICK s : VersionsInit(s)
    BY DEF Init
  <2> QED BY <2>1 DEF VersionsInit, KeyInv, CallsOk, CallFields, OnePerKey, SnapshotsOk, OwnersOk, AnswersOk
<1>2. KeyInv => KeyNamesOneExecution
  <2> SUFFICES ASSUME KeyInv PROVE KeyNamesOneExecution
    OBVIOUS
  <2>1. ASSUME NEW c \in Authors, NEW d \in Authors,
               Prepares(c), call[c].at = "answered", Prepares(d), call[d].at = "answered",
               Ask(c).key = Ask(d).key
        PROVE  /\ Intent(c) = Intent(d)
               /\ Nobody \in {call[c].exec, call[d].exec} \/ call[c].exec = call[d].exec
    <3>1. PICK s \in snapshot : Fits(s, c) /\ call[c].exec \in {Nobody, s.by}
      BY <2>1 DEF KeyInv, AnswersOk
    <3>2. PICK t \in snapshot : Fits(t, d) /\ call[d].exec \in {Nobody, t.by}
      BY <2>1 DEF KeyInv, AnswersOk
    <3>3. s = t
      BY <2>1, <3>1, <3>2 DEF KeyInv, OnePerKey, Fits
    <3> QED BY <3>1, <3>2, <3>3 DEF Fits
  <2> QED BY <2>1 DEF KeyNamesOneExecution, KeyInv, OnePerKey, Prepares
<1> QED BY <1>1, <1>2, KeyKept, PTL DEF Spec

-----------------------------------------------------------------------------
(* RoutesAreStable.  The switches have their fields and the share of the    *)
(* canary is a number; the rest follows from how a mode is looked up.       *)
ConfigFields == {"systemDefault", "emergencyRollback", "canaryBasisPoints",
                 "tenant", "workflow", "version", "denied"}
ConfigOk(c) == DOMAIN c = ConfigFields /\ c.canaryBasisPoints \in Nat /\ DOMAIN c.tenant = Tenants

LEMMA ConfigCorrect == Spec => []ConfigOk(cutover)
<1>1. ConfigOk(DefaultConfig)
  BY DEF ConfigOk, DefaultConfig, ConfigFields
<1>2. Init => ConfigOk(cutover)
  BY <1>1 DEF Init, RoutingInit
<1>3. ConfigOk(cutover) /\ [Next]_workflowVars => ConfigOk(cutover)'
  <2> SUFFICES ASSUME ConfigOk(cutover), [Next]_workflowVars PROVE ConfigOk(cutover')
    OBVIOUS
  <2>1. CASE cutover' = cutover
    BY <2>1
  <2>2. CASE SetCutoverConfig
    BY <2>2, RoutingAssumption DEF SetCutoverConfig, ConfigOk, ConfigFields
  <2>3. CASE TriggerEmergencyRollback \/ ClearEmergencyRollback
    BY <2>3 DEF TriggerEmergencyRollback, ClearEmergencyRollback, ConfigOk, ConfigFields
  <2>4. CASE ResetToDefault
    BY <1>1, <2>4 DEF ResetToDefault
  <2> QED BY <2>1, <2>2, <2>3, <2>4
          DEF Next, VersionsStep, ExecutionStep, RoutingStep, RoutingNext, workflowVars, routingVars
<1> QED BY <1>2, <1>3, PTL DEF Spec

LEMMA RaisedCanary ==
  ASSUME NEW c, ConfigOk(c), NEW p \in Nat, p >= c.canaryBasisPoints, NEW q \in Requests,
         Route(c, q) = "primary"
  PROVE  Route([c EXCEPT !.canaryBasisPoints = p], q) = "primary"
<1> DEFINE d == [c EXCEPT !.canaryBasisPoints = p]
<1>1. /\ d.canaryBasisPoints = p /\ d.emergencyRollback = c.emergencyRollback
      /\ d.denied = c.denied /\ d.version = c.version /\ d.workflow = c.workflow
      /\ d.tenant = c.tenant /\ d.systemDefault = c.systemDefault
  BY DEF ConfigOk, ConfigFields
<1> HIDE DEF d
<1>2. ModeFor(d, q) = ModeFor(c, q)
  BY <1>1 DEF ModeFor
<1>3. Bucket(q) \in Nat
  <2>1. <<q.tenant, q.workflow>> \in Tenants \X WorkflowIds
    BY DEF Requests
  <2>2. Hash[<<q.tenant, q.workflow>>] \in Nat
    BY <2>1, RoutingAssumption
  <2> QED BY <2>2 DEF Bucket
<1>4. Canary(c, q) => Canary(d, q)
  BY <1>1, <1>3 DEF Canary, ConfigOk
<1>5. Route(d, q) = "primary"
  BY <1>2, <1>4 DEF Route
<1> QED BY <1>5 DEF d

SwitchOf(c, d, t) ==
  /\ d = [c EXCEPT !.tenant[t] = d.tenant[t], !.denied = d.denied]
  /\ d.denied \union {t} = c.denied \union {t}

LEMMA OtherTenants ==
  ASSUME NEW c, ConfigOk(c), NEW t \in Tenants, NEW d, SwitchOf(c, d, t),
         NEW q \in Requests, q.tenant # t
  PROVE  Route(d, q) = Route(c, q)
<1>1. /\ d.canaryBasisPoints = c.canaryBasisPoints /\ d.emergencyRollback = c.emergencyRollback
      /\ d.version = c.version /\ d.workflow = c.workflow
      /\ d.tenant[q.tenant] = c.tenant[q.tenant] /\ d.systemDefault = c.systemDefault
  BY DEF SwitchOf, ConfigOk, ConfigFields, Requests
<1>a. q.tenant \in d.denied <=> q.tenant \in c.denied
  BY DEF SwitchOf
<1>2. ModeFor(d, q) = ModeFor(c, q)
  BY <1>1, <1>a DEF ModeFor
<1>3. Canary(d, q) <=> Canary(c, q)
  BY <1>1 DEF Canary
<1> QED BY <1>2, <1>3 DEF Route

(* A rollout moves only the requests it is meant to move                    *)
(* (resolveExecutionRoute in cutover-routing.ts), whatever the switches,    *)
(* the tenants, the hash and the shares.                                    *)
THEOREM RoutesCorrect == Spec => RoutesAreStable
<1>1. ConfigOk(cutover) /\ ConfigOk(cutover)' =>
        (cutover' = [cutover EXCEPT !.canaryBasisPoints = cutover'.canaryBasisPoints]
           /\ cutover'.canaryBasisPoints >= cutover.canaryBasisPoints
           => \A q \in Requests : Route(cutover, q) = "primary" => Route(cutover', q) = "primary")
  BY RaisedCanary DEF ConfigOk
<1>2. \A q \in Requests : q.tenant \in cutover'.denied => Route(cutover', q) = "shadow"
  BY DEF Route, ModeFor
<1>3. ConfigOk(cutover) =>
        \A t \in Tenants :
          cutover' = [cutover EXCEPT !.tenant[t] = cutover'.tenant[t], !.denied = cutover'.denied]
            /\ cutover'.denied \union {t} = cutover.denied \union {t}
          => \A q \in Requests : q.tenant # t => Route(cutover', q) = Route(cutover, q)
  <2> SUFFICES ASSUME ConfigOk(cutover), NEW t \in Tenants, SwitchOf(cutover, cutover', t),
                      NEW q \in Requests, q.tenant # t
               PROVE  Route(cutover', q) = Route(cutover, q)
    BY DEF SwitchOf
  <2> QED BY OtherTenants
<1> QED BY <1>1, <1>2, <1>3, ConfigCorrect, PTL DEF RoutesAreStable, CanaryOnlyGrows, TenantsApart

-----------------------------------------------------------------------------
(* The graph of a workflow: what the validator's cycle check computes, and  *)
(* that the order of its positions names every node.                        *)
LEMMA KeysAreFinite ==
  ASSUME NEW g, IsGraph(g)
  PROVE  /\ Len(g.nodes) \in Nat /\ DOMAIN g.nodes = 1..Len(g.nodes)
         /\ IsFiniteSet(KeysOf(g)) /\ Cardinality(KeysOf(g)) \in Nat
         /\ Cardinality(KeysOf(g)) <= Len(g.nodes)
<1> DEFINE n == Len(g.nodes)
           key == [i \in 1..n |-> g.nodes[i].key]
<1>1. n \in Nat /\ DOMAIN g.nodes = 1..n
  BY DEF IsGraph
<1>2. key \in Surjection(1..n, KeysOf(g))
  BY <1>1 DEF Surjection, KeysOf, Members
<1>3. IsFiniteSet(1..n) /\ Cardinality(1..n) = n
  BY <1>1, FS_Interval
<1> HIDE DEF n, key
<1>4. IsFiniteSet(KeysOf(g)) /\ Cardinality(KeysOf(g)) <= n
  BY <1>2, <1>3, FS_Surjection
<1> QED BY <1>1, <1>4, FS_CardinalityType DEF n

Unblocked(g, X) == {k \in KeysOf(g) : \A e \in Arcs(g) : e[2] = k => e[1] \in X}

IsKahn(g, f) ==
  /\ f \in [0..Cardinality(KeysOf(g)) -> SUBSET KeysOf(g)]
  /\ f[0] = {}
  /\ \A n \in 1..Cardinality(KeysOf(g)) : f[n] = Unblocked(g, f[n - 1])
  /\ Kahn(g) = f[Cardinality(KeysOf(g))]

LEMMA KahnRounds ==
  ASSUME NEW g, IsGraph(g)
  PROVE  \E f : IsKahn(g, f)
<1> DEFINE N == Cardinality(KeysOf(g))
           step == [p \in Nat \X SUBSET KeysOf(g) |-> Unblocked(g, p[2])]
<1>1. N \in Nat
  BY KeysAreFinite
<1>2. step \in [Nat \X SUBSET KeysOf(g) -> SUBSET KeysOf(g)]
  BY DEF Unblocked
<1>3. \A n \in Nat, X \in SUBSET KeysOf(g) : step[<<n, X>>] = Unblocked(g, X)
  OBVIOUS
<1> DEFINE Rounds(f) == f = [n \in 0..N |-> IF n = 0 THEN {} ELSE Unblocked(g, f[n - 1])]
<1>4. PICK f \in [0..N -> SUBSET KeysOf(g)] : Recurs(f, N, {}, step)
  <2> HIDE DEF N, step
  <2> QED BY <1>1, <1>2, RecursionExists
<1>5. /\ f[0] = {} /\ \A n \in 1..N : f[n] = Unblocked(g, f[n - 1])
  <2>1. \A n \in 1..N : n \in Nat /\ n - 1 \in 0..N
    BY <1>1
  <2>2. \A n \in 1..N : f[n - 1] \in SUBSET KeysOf(g)
    BY <1>4, <2>1
  <2> HIDE DEF N, step
  <2> QED BY <1>3, <1>4, <2>1, <2>2 DEF Recurs
<1>6. Rounds(f)
  BY <1>1, <1>5
<1> DEFINE kahn == CHOOSE h : Rounds(h)
<1>7. Rounds(kahn)
  <2> HIDE DEF Rounds
  <2> QED BY <1>6
<1>8. Kahn(g) = kahn[N]
  BY DEF Kahn, Unblocked
<1> HIDE DEF kahn
<1>9. kahn \in [0..N -> SUBSET KeysOf(g)]
  BY <1>1, <1>7 DEF Unblocked
<1>10. kahn[0] = {} /\ \A n \in 1..N : kahn[n] = Unblocked(g, kahn[n - 1])
  <2>1. 0 \in 0..N /\ \A n \in 1..N : n \in 0..N /\ n # 0
    BY <1>1
  <2> HIDE DEF N
  <2> QED BY <1>7, <2>1, Zenon
<1> QED BY <1>8, <1>9, <1>10 DEF IsKahn

(* The rounds grow until nothing is added, at the latest when all keys are in. *)
LEMMA KahnIsComplete ==
  ASSUME NEW g, IsGraph(g)
  PROVE  Kahn(g) \subseteq KeysOf(g) /\ Unblocked(g, Kahn(g)) = Kahn(g)
<1> DEFINE K == KeysOf(g)
           N == Cardinality(K)
<1>1. PICK f : IsKahn(g, f)
  BY KahnRounds
<1>2. IsFiniteSet(K) /\ N \in Nat
  BY KeysAreFinite
<1>3. /\ f \in [0..N -> SUBSET K] /\ f[0] = {} /\ Kahn(g) = f[N]
      /\ \A n \in 1..N : f[n] = Unblocked(g, f[n - 1])
  BY <1>1 DEF IsKahn
<1>4. \A X, Y : X \subseteq Y => Unblocked(g, X) \subseteq Unblocked(g, Y)
  BY DEF Unblocked
<1> HIDE DEF N
<1> DEFINE S == {n \in Nat : n <= N =>
                   /\ f[n] \subseteq Unblocked(g, f[n])
                   /\ Cardinality(f[n]) >= n \/ f[n] = Unblocked(g, f[n])}
<1>5. 0 \in S
  BY <1>2, <1>3, FS_EmptySet
<1>6. ASSUME NEW n \in Nat, n \in S, n + 1 <= N PROVE n + 1 \in S
  <2>1. /\ f[n + 1] = Unblocked(g, f[n]) /\ f[n] \in SUBSET K /\ f[n + 1] \in SUBSET K
    <3>1. n + 1 \in 1..N /\ n \in 0..N /\ n + 1 \in 0..N
      BY <1>2, <1>6
    <3> QED BY <1>3, <3>1
  <2>2. f[n] \subseteq f[n + 1] /\ f[n + 1] \subseteq Unblocked(g, f[n + 1])
    BY <1>2, <1>4, <1>6, <2>1
  <2>3. /\ IsFiniteSet(f[n + 1]) /\ Cardinality(f[n]) <= Cardinality(f[n + 1])
        /\ Cardinality(f[n]) \in Nat /\ Cardinality(f[n + 1]) \in Nat
        /\ Cardinality(f[n]) = Cardinality(f[n + 1]) => f[n] = f[n + 1]
    BY <1>2, <2>1, <2>2, FS_Subset, FS_CardinalityType
  <2>4. CASE f[n] = Unblocked(g, f[n])
    BY <2>1, <2>2, <2>4
  <2>5. CASE Cardinality(f[n]) >= n /\ f[n] # Unblocked(g, f[n])
    BY <2>1, <2>2, <2>3, <2>5
  <2> QED BY <1>2, <1>6, <2>4, <2>5
<1>7. \A n \in Nat : n \in S => n + 1 \in S
  BY <1>2, <1>6
<1>8. N \in S
  <2> HIDE DEF S
  <2> QED BY <1>2, <1>5, <1>7, NumberInduction
<1>9. CASE Cardinality(f[N]) >= N
  <2>1. f[N] = K
    BY <1>2, <1>3, <1>9, FS_Subset, FS_CardinalityType DEF N
  <2> QED BY <1>3, <2>1 DEF Unblocked, Arcs
<1> QED BY <1>2, <1>3, <1>8, <1>9

(* What is closed under predecessors is never processed. *)
Cyclic(g, S) == \A k \in S : \E e \in Arcs(g) : e[2] = k /\ e[1] \in S

LEMMA KahnAvoidsCycles ==
  ASSUME NEW g, IsGraph(g), NEW C \in SUBSET KeysOf(g), Cyclic(g, C)
  PROVE  Kahn(g) \cap C = {}
<1> DEFINE N == Cardinality(KeysOf(g))
<1>1. PICK f : IsKahn(g, f)
  BY KahnRounds
<1>2. N \in Nat
  BY KeysAreFinite
<1>3. /\ f[0] = {} /\ Kahn(g) = f[N] /\ \A n \in 1..N : f[n] = Unblocked(g, f[n - 1])
  BY <1>1 DEF IsKahn
<1> HIDE DEF N
<1> DEFINE S == {n \in Nat : n <= N => f[n] \cap C = {}}
<1>4. 0 \in S
  BY <1>3
<1>5. ASSUME NEW n \in Nat, n \in S, n + 1 <= N PROVE f[n + 1] \cap C = {}
  <2>1. f[n + 1] = Unblocked(g, f[n]) /\ f[n] \cap C = {}
    BY <1>2, <1>3, <1>5
  <2> QED BY <2>1 DEF Unblocked, Cyclic
<1>6. \A n \in Nat : n \in S => n + 1 \in S
  BY <1>5
<1> HIDE DEF S
<1>7. N \in S
  BY <1>2, <1>4, <1>6, NumberInduction
<1> QED BY <1>2, <1>3, <1>7 DEF S

(* The cycle check is exact, for every graph whose keys differ. *)
LEMMA CycleCheckIsExact ==
  ASSUME NEW g, IsGraph(g), Cardinality(KeysOf(g)) = Len(g.nodes)
  PROVE  CyclicNodes(g) > 0 <=> \E S \in SUBSET KeysOf(g) : S # {} /\ Cyclic(g, S)
<1>1. /\ IsFiniteSet(KeysOf(g)) /\ Cardinality(KeysOf(g)) \in Nat
      /\ Kahn(g) \subseteq KeysOf(g) /\ Unblocked(g, Kahn(g)) = Kahn(g)
  BY KeysAreFinite, KahnIsComplete
<1>2. /\ Cardinality(Kahn(g)) \in Nat /\ Cardinality(Kahn(g)) <= Cardinality(KeysOf(g))
      /\ Cardinality(Kahn(g)) = Cardinality(KeysOf(g)) <=> Kahn(g) = KeysOf(g)
  BY <1>1, FS_Subset, FS_CardinalityType
<1>3. CyclicNodes(g) > 0 <=> Kahn(g) # KeysOf(g)
  BY <1>1, <1>2 DEF CyclicNodes
<1>4. ASSUME Kahn(g) # KeysOf(g) PROVE \E S \in SUBSET KeysOf(g) : S # {} /\ Cyclic(g, S)
  <2> DEFINE S == KeysOf(g) \ Kahn(g)
  <2>1. S \in SUBSET KeysOf(g) /\ S # {}
    BY <1>1, <1>4
  <2>2. Cyclic(g, S)
    BY <1>1 DEF Cyclic, Unblocked, Arcs
  <2> HIDE DEF S
  <2> QED BY <2>1, <2>2
<1>5. ASSUME NEW S \in SUBSET KeysOf(g), S # {}, Cyclic(g, S) PROVE Kahn(g) # KeysOf(g)
  BY <1>5, KahnAvoidsCycles
<1> QED BY <1>3, <1>4, <1>5

(* No nonempty set of nodes is closed under predecessors in a valid graph. *)
LEMMA ValidIsAcyclic ==
  ASSUME NEW g, IsGraph(g), Valid(g), NEW S \in SUBSET KeysOf(g), Cyclic(g, S)
  PROVE  S = {}
<1>1. Cardinality(KeysOf(g)) = Len(g.nodes) /\ CyclicNodes(g) = 0
  BY DEF Valid
<1> QED BY <1>1, CycleCheckIsExact

(* Sorted by position, every node has a place: the numbers of the nodes     *)
(* before each of them are the numbers from 0 on.                           *)
Before(g, i) == {j \in DOMAIN g.nodes : \/ g.nodes[j].at < g.nodes[i].at
                                        \/ g.nodes[j].at = g.nodes[i].at /\ j < i}

LEMMA OrderNamesEveryNode ==
  ASSUME NEW g, IsGraph(g)
  PROVE  /\ DOMAIN Order(g) = 1..Len(g.nodes) /\ Len(Order(g)) = Len(g.nodes)
         /\ \A n \in 1..Len(g.nodes) : Order(g)[n] \in KeysOf(g)
         /\ \A k \in KeysOf(g) : \E n \in 1..Len(g.nodes) : Order(g)[n] = k
<1> DEFINE N == Len(g.nodes)
           D == 1..N
           rank == [i \in D |-> Cardinality(Before(g, i)) + 1]
<1>1. /\ N \in Nat /\ DOMAIN g.nodes = D /\ IsFiniteSet(D) /\ Cardinality(D) = N
      /\ \A i \in D : g.nodes[i].at \in Int
  <2>1. N \in Nat /\ DOMAIN g.nodes = D
    BY KeysAreFinite
  <2>2. \A i \in D : g.nodes[i] \in Members(g.nodes)
    BY <2>1 DEF Members
  <2>3. \A i \in D : g.nodes[i].at \in Int
    BY <2>2 DEF IsGraph
  <2> HIDE DEF N
  <2> QED BY <2>1, <2>3, FS_Interval
<1>2. /\ DOMAIN Order(g) = D
      /\ \A n \in D : Order(g)[n] =
           g.nodes[CHOOSE i \in D : Cardinality(Before(g, i)) = n - 1].key
  BY <1>1 DEF Order, Before
<1>3. \A i \in D : Before(g, i) \in SUBSET (D \ {i})
  BY <1>1 DEF Before
<1>4. \A i \in D : /\ IsFiniteSet(Before(g, i)) /\ Cardinality(Before(g, i)) \in Nat
                   /\ Cardinality(Before(g, i)) <= N - 1
  <2> TAKE i \in D
  <2> HIDE DEF D, N
  <2>1. IsFiniteSet(D \ {i}) /\ Cardinality(D \ {i}) = N - 1
    BY <1>1, FS_RemoveElement
  <2>2. IsFiniteSet(Before(g, i)) /\ Cardinality(Before(g, i)) <= Cardinality(D \ {i})
    BY <1>3, <2>1, FS_Subset
  <2> QED BY <2>1, <2>2, FS_CardinalityType
<1>5. ASSUME NEW i \in D, NEW j \in D, i # j PROVE rank[i] # rank[j]
  <2>1. ASSUME NEW a \in D, NEW b \in D, a \in Before(g, b)
        PROVE  Cardinality(Before(g, a)) < Cardinality(Before(g, b))
    <3>1. Before(g, a) \subseteq Before(g, b) /\ a \notin Before(g, a)
      BY <1>1, <2>1 DEF Before
    <3>2. Before(g, a) # Before(g, b)
      BY <2>1, <3>1
    <3> QED BY <1>4, <3>1, <3>2, FS_Subset
  <2>2. i \in Before(g, j) \/ j \in Before(g, i)
    BY <1>1, <1>5 DEF Before
  <2> HIDE DEF D
  <2> QED BY <1>4, <1>5, <2>1, <2>2
<1>6. rank \in [D -> D]
  <2> HIDE DEF N
  <2> QED BY <1>1, <1>4
<1>7. \A n \in D : \E i \in D : Cardinality(Before(g, i)) = n - 1
  <2>1. rank \in Injection(D, D)
    <3> HIDE DEF D, rank
    <3> QED BY <1>5, <1>6 DEF Injection, IsInjective
  <2>2. rank \in Surjection(D, D)
    <3> HIDE DEF D, rank
    <3> QED BY <1>1, <2>1, FS_Injection
  <2>3. ASSUME NEW n \in D PROVE \E i \in D : Cardinality(Before(g, i)) = n - 1
    <3>1. PICK i \in D : rank[i] = n
      <4> HIDE DEF D, rank
      <4> QED BY <2>2 DEF Surjection
    <3>2. Cardinality(Before(g, i)) + 1 = n /\ Cardinality(Before(g, i)) \in Nat
      BY <1>4, <3>1
    <3> HIDE DEF N
    <3> QED BY <3>2
  <2> QED BY <2>3
<1>8. ASSUME NEW n \in D PROVE Order(g)[n] \in KeysOf(g)
  <2>1. PICK i \in D : Cardinality(Before(g, i)) = n - 1
    BY <1>7, <1>8
  <2> DEFINE c == CHOOSE j \in D : Cardinality(Before(g, j)) = n - 1
  <2>2. c \in D
    BY <2>1
  <2>3. Order(g)[n] = g.nodes[c].key
    BY <1>2, <1>8
  <2> HIDE DEF c, D
  <2> QED BY <1>1, <2>2, <2>3 DEF KeysOf, Members
<1>9. ASSUME NEW k \in KeysOf(g) PROVE \E n \in D : Order(g)[n] = k
  <2>1. PICK i \in D : g.nodes[i].key = k
    BY <1>1, <1>9 DEF KeysOf, Members
  <2>2. rank[i] \in D
    BY <1>6
  <2> DEFINE c == CHOOSE j \in D : Cardinality(Before(g, j)) = rank[i] - 1
  <2>3. Cardinality(Before(g, i)) = rank[i] - 1
    BY <1>4
  <2>4. c \in D /\ Cardinality(Before(g, c)) = rank[i] - 1
    <3> HIDE DEF D, rank
    <3> QED BY <2>3
  <2>5. rank[c] = rank[i]
    BY <1>4, <2>3, <2>4
  <2>6. Order(g)[rank[i]] = g.nodes[c].key
    BY <1>2, <2>2
  <2>7. c = i
    <3> HIDE DEF c, rank
    <3> QED BY <1>5, <2>4, <2>5
  <2> HIDE DEF c, rank, D
  <2> QED BY <2>1, <2>2, <2>6, <2>7
<1>10. Len(Order(g)) = N
  BY <1>1, <1>2, LenProperties DEF Order
<1> QED BY <1>2, <1>8, <1>9, <1>10

-----------------------------------------------------------------------------
(* CyclesAreFound.  A behaviour keeps the task it starts with.              *)
TaskInv ==
  /\ task.kind \in {"worker", "executor", "dry"}
  /\ IsGraph(task.graph) /\ task.order = Order(task.graph)
  /\ DOMAIN node = KeysOf(task.graph)
  /\ part = "executions" => Valid(task.graph)

LEMMA AnyTaskIsValid == AnyTask \in Tasks /\ Valid(AnyTask.graph)
BY WorkflowsAssumption DEF AnyTask

LEMMA StartedExecution ==
  ASSUME Init
  PROVE  \E t \in Tasks : ExecutionInit(t) /\ (part = "executions" => Valid(t.graph))
<1>1. CASE ExecutionInit(AnyTask) /\ part # "executions"
  BY <1>1, AnyTaskIsValid
<1> QED BY <1>1 DEF Init

LEMMA TaskInit == Init => TaskInv
<1> SUFFICES ASSUME Init PROVE TaskInv
  OBVIOUS
<1>1. PICK t \in Tasks : ExecutionInit(t) /\ (part = "executions" => Valid(t.graph))
  BY StartedExecution
<1> QED BY <1>1, WorkflowsAssumption DEF ExecutionInit, TaskInv

LEMMA WriteKeepsKeys ==
  ASSUME NEW r, NEW n, NEW status, WriteNode(r, n, status)
  PROVE  DOMAIN node' = DOMAIN node
BY DEF WriteNode

LEMMA TaskStays ==
  ASSUME [Next]_workflowVars
  PROVE  task' = task /\ part' = part /\ DOMAIN node' = DOMAIN node
<1>1. CASE UNCHANGED executionVars
  BY <1>1 DEF executionVars, Next, VersionsStep, ExecutionStep, RoutingStep, workflowVars
<1>2. CASE ExecutionNext /\ part' = part
  <2>1. ASSUME NEW r \in Runners, Take(r) \/ Call(r) \/ SuccessLost(r) \/ Abort(r) \/ Crash(r) \/ Stall(r)
        PROVE  task' = task /\ node' = node
    BY <2>1 DEF Take, Call, SuccessLost, Abort, Crash, Stall
  <2>2. ASSUME NEW r \in Runners, RunnerStep(r)
        PROVE  task' = task /\ (node' = node \/ \E n, status : WriteNode(r, n, status))
    <3>1. CASE Begin(r) \/ MarkRunning(r) \/ LoadNodes(r) \/ EndPass(r) \/ NoteNode(r) \/ Handle(r)
                 \/ RecordArtifact(r) \/ WriteProgress(r) \/ Conclude(r) \/ Leave(r)
      BY <3>1 DEF Begin, MarkRunning, LoadNodes, EndPass, NoteNode, Handle, RecordArtifact,
                  WriteProgress, Conclude, Leave
    <3>2. CASE MakeReady(r) \/ StartNode(r) \/ SkipNode(r)
      BY <3>2, Zenon DEF MakeReady, StartNode, SkipNode
    <3>3. CASE NodeSucceeds(r) \/ NodeFails(r)
      BY <3>3, Zenon DEF NodeSucceeds, NodeFails
    <3>4. CASE DryFinish(r)
      BY <3>4, Zenon DEF DryFinish
    <3> QED BY <2>2, <3>1, <3>2, <3>3, <3>4 DEF RunnerStep
  <2>3. ASSUME NEW q \in Requesters, Enqueue(q) \/ Cancel(q) \/ Retry(q)
        PROVE  task' = task /\ DOMAIN node' = DOMAIN node
    BY <2>3 DEF Enqueue, Cancel, CancelExecution, Retry, RetryNode
  <2> QED BY <1>2, <2>1, <2>2, <2>3, WriteKeepsKeys DEF ExecutionNext
<1> QED BY <1>1, <1>2 DEF Next, VersionsStep, ExecutionStep, RoutingStep, workflowVars

LEMMA TaskKept == TaskInv /\ [Next]_workflowVars => TaskInv'
BY TaskStays DEF TaskInv

LEMMA TaskCorrect == Spec => []TaskInv
BY TaskInit, TaskKept, PTL DEF Spec

(* The validator's cycle check finds a cycle when there is one, and only    *)
(* then, in every graph whose keys differ (Kahn's algorithm in              *)
(* validator.ts).                                                           *)
THEOREM CyclesCorrect == Spec => []CyclesAreFound
<1>1. TaskInv => CyclesAreFound
  <2> SUFFICES ASSUME TaskInv, Cardinality(KeysOf(task.graph)) = Len(task.graph.nodes)
               PROVE  CyclicNodes(task.graph) > 0 <=>
                        \E S \in SUBSET KeysOf(task.graph) : S # {} /\ Cyclic(task.graph, S)
    BY DEF CyclesAreFound, Cyclic
  <2> QED BY CycleCheckIsExact DEF TaskInv
<1> QED BY <1>1, TaskCorrect, PTL

-----------------------------------------------------------------------------
(* The types of an execution.  An item is delivered once more for each      *)
(* crash and each stall, as only they put it back among the waiting.        *)
ItemInv ==
  /\ DOMAIN item = {"state", "by", "deliveries"} /\ item.deliveries \in Nat
  /\ DOMAIN trouble = {"faults", "crashes", "stalls"}
  /\ \A kind \in DOMAIN trouble : trouble[kind] \in Nat
  /\ item.state \in {"none", "waiting", "active", "ended"}
  /\ item.by \in Runners \union {NoOne} /\ (item.by # NoOne <=> item.state = "active")
  /\ item.state = "none" => item.deliveries = 0
  /\ item.deliveries + (IF item.state = "waiting" THEN 1 ELSE 0)
       <= 1 + trouble.crashes + trouble.stalls

LEMMA ItemInit == Init => ItemInv
<1> SUFFICES ASSUME Init PROVE ItemInv
  OBVIOUS
<1>1. PICK t \in Tasks : ExecutionInit(t)
  BY StartedExecution
<1> QED BY <1>1 DEF ExecutionInit, ItemInv

LEMMA Broken ==
  ASSUME ItemInv, NEW kind \in {"faults", "crashes", "stalls"}, Breaks(kind)
  PROVE  /\ DOMAIN trouble' = {"faults", "crashes", "stalls"}
         /\ \A k \in DOMAIN trouble' : trouble'[k] \in Nat
         /\ trouble'[kind] = trouble[kind] + 1
         /\ \A k \in DOMAIN trouble : k # kind => trouble'[k] = trouble[k]
BY DEF ItemInv, Breaks

LEMMA ItemKept == ItemInv /\ [Next]_workflowVars => ItemInv'
<1> SUFFICES ASSUME ItemInv, [Next]_workflowVars PROVE ItemInv'
  OBVIOUS
<1>1. CASE item' = item /\ trouble' = trouble
  BY <1>1 DEF ItemInv
<1>2. ASSUME item' = item, Breaks("faults") PROVE ItemInv'
  <2>1. /\ DOMAIN trouble' = {"faults", "crashes", "stalls"}
        /\ \A k \in DOMAIN trouble' : trouble'[k] \in Nat
        /\ trouble'.crashes = trouble.crashes /\ trouble'.stalls = trouble.stalls
    BY <1>2, Broken DEF ItemInv
  <2> QED BY <1>2, <2>1 DEF ItemInv
<1>3. ASSUME NEW r \in Runners, LetGo(r), trouble' = trouble \/ Breaks("faults") PROVE ItemInv'
  <2>1. /\ DOMAIN trouble' = {"faults", "crashes", "stalls"}
        /\ \A k \in DOMAIN trouble' : trouble'[k] \in Nat
        /\ trouble'.crashes = trouble.crashes /\ trouble'.stalls = trouble.stalls
    BY <1>3, Broken DEF ItemInv
  <2> QED BY <1>3, <2>1, WorkflowsAssumption DEF LetGo, ItemInv
<1>4. ASSUME NEW r \in Runners, Take(r) PROVE ItemInv'
  BY <1>4, WorkflowsAssumption DEF Take, ItemInv
<1>5. ASSUME NEW r \in Runners, item.by = r, Redeliver, NEW kind \in {"crashes", "stalls"}, Breaks(kind)
      PROVE  ItemInv'
  <2>1. /\ DOMAIN trouble' = {"faults", "crashes", "stalls"}
        /\ \A k \in DOMAIN trouble' : trouble'[k] \in Nat
        /\ trouble'.crashes + trouble'.stalls = trouble.crashes + trouble.stalls + 1
    BY <1>5, Broken DEF ItemInv
  <2>2. item.state = "active"
    BY <1>5, WorkflowsAssumption DEF ItemInv
  <2>3. /\ item'.state = "waiting" /\ item'.by = NoOne /\ item'.deliveries = item.deliveries
        /\ DOMAIN item' = DOMAIN item
    BY <1>5 DEF Redeliver, ItemInv
  <2> QED BY <2>1, <2>2, <2>3 DEF ItemInv
<1>6. ASSUME NEW r \in Runners,
             Take(r) \/ Call(r) \/ RunnerStep(r) \/ SuccessLost(r) \/ Abort(r) \/ Crash(r) \/ Stall(r)
      PROVE  ItemInv'
  <2>1. CASE Leave(r) \/ Abort(r)
    BY <1>3, <2>1 DEF Leave, Abort
  <2>2. CASE Crash(r) \/ Stall(r)
    BY <1>5, <2>2 DEF Crash, Stall
  <2>3. CASE Handle(r) \/ RecordArtifact(r) \/ DryFinish(r)
    BY <1>1, <1>2, <2>3 DEF Handle, RecordArtifact, DryFinish
  <2>4. CASE Call(r) \/ SuccessLost(r)
    BY <1>1, <1>2, <2>4 DEF Call, SuccessLost
  <2>5. CASE Begin(r) \/ MarkRunning(r) \/ LoadNodes(r) \/ EndPass(r) \/ NoteNode(r)
               \/ WriteProgress(r) \/ Conclude(r)
    BY <1>1, <2>5 DEF Begin, MarkRunning, LoadNodes, EndPass, NoteNode, WriteProgress, Conclude
  <2>6. CASE MakeReady(r) \/ StartNode(r) \/ SkipNode(r) \/ NodeSucceeds(r) \/ NodeFails(r)
    BY <1>1, <2>6 DEF MakeReady, StartNode, SkipNode, NodeSucceeds, NodeFails
  <2> QED BY <1>4, <1>6, <2>1, <2>2, <2>3, <2>4, <2>5, <2>6 DEF RunnerStep
<1>7. ASSUME NEW q \in Requesters, Enqueue(q) \/ Cancel(q) \/ Retry(q) PROVE ItemInv'
  BY <1>7 DEF Enqueue, Added, Cancel, Retry, ItemInv
<1>8. CASE UNCHANGED executionVars
  BY <1>1, <1>8 DEF executionVars
<1> QED BY <1>6, <1>7, <1>8
        DEF Next, VersionsStep, RoutingStep, ExecutionStep, ExecutionNext, workflowVars

LEMMA ItemCorrect == Spec => []ItemInv
BY ItemInit, ItemKept, PTL DEF Spec

(* The rows.  A retry writes the attempt it read of a row below the limit.  *)
NodeStatuses == {"pending", "ready", "running", "succeeded", "failed", "skipped", "cancelled"}
RowsInv ==
  /\ DOMAIN exec = {"status", "version"} /\ exec.status \in {"prepared", "running"} \union Ended
  /\ \A k \in DOMAIN node : node[k].status \in NodeStatuses /\ node[k].attempt \in 1..MaxNodeAttempts
  /\ evidence \subseteq DOMAIN node /\ done \subseteq DOMAIN node
  /\ \A r \in Runners : DOMAIN run[r].st \subseteq DOMAIN node
  /\ \A q \in Requesters : asked[q].op = "retry" /\ asked[q].at = "write" =>
       \A row \in asked[q].rows : row.attempt \in 1..MaxNodeAttempts /\ row.attempt < MaxNodeAttempts

LEMMA RowsInit == Init => RowsInv
<1> SUFFICES ASSUME Init PROVE RowsInv
  OBVIOUS
<1>1. PICK t \in Tasks : ExecutionInit(t)
  BY StartedExecution
<1>2. 1 \in 1..MaxNodeAttempts
  BY WorkflowsAssumption
<1>3. \A r \in Runners : DOMAIN run[r].st = {}
  BY <1>1 DEF ExecutionInit, Idle
<1> QED BY <1>1, <1>2, <1>3 DEF ExecutionInit, RowsInv, NodeStatuses

LEMMA WrittenRow ==
  ASSUME InputsInv, RowsInv, NEW r \in Runners, NEW n, NEW status \in NodeStatuses, WriteNode(r, n, status)
  PROVE  /\ DOMAIN node' = DOMAIN node
         /\ \A k \in DOMAIN node : node'[k].status \in NodeStatuses /\ node'[k].attempt = node[k].attempt
BY DEF InputsInv, RowOk, RowsInv, WriteNode

LEMMA WrittenExec ==
  ASSUME RowsInv, NEW r, NEW status \in {"prepared", "running"} \union Ended, WriteExec(r, status)
  PROVE  DOMAIN exec' = {"status", "version"} /\ exec'.status \in {"prepared", "running"} \union Ended
BY DEF RowsInv, WriteExec

(* What a runner's step must be shown to keep of its record and of the tables. *)
LEMMA RowsRunner ==
  ASSUME InputsInv, RowsInv, asked' = asked, NEW r \in Runners, NEW rec, Set(r, rec),
         DOMAIN rec.st \subseteq DOMAIN node,
         exec' = exec \/ \E status \in {"prepared", "running"} \union Ended : WriteExec(r, status),
         node' = node \/ \E n, status : status \in NodeStatuses /\ WriteNode(r, n, status),
         evidence' \subseteq DOMAIN node, done' \subseteq DOMAIN node
  PROVE  RowsInv'
<1>1. /\ DOMAIN exec' = {"status", "version"} /\ exec'.status \in {"prepared", "running"} \union Ended
  BY WrittenExec DEF RowsInv
<1>2. /\ DOMAIN node' = DOMAIN node
      /\ \A k \in DOMAIN node : node'[k].status \in NodeStatuses /\ node'[k].attempt = node[k].attempt
  <2>1. CASE node' = node
    BY <2>1 DEF RowsInv
  <2> QED BY <2>1, WrittenRow
<1>3. \A s \in Runners : DOMAIN run'[s].st \subseteq DOMAIN node
  BY DEF Set, InputsInv, RowsInv
<1> QED BY <1>1, <1>2, <1>3 DEF RowsInv

LEMMA RunnerKeepsRows ==
  ASSUME TaskInv, InputsInv, RowsInv, NEW r \in Runners,
         Take(r) \/ Call(r) \/ RunnerStep(r) \/ SuccessLost(r) \/ Abort(r) \/ Crash(r) \/ Stall(r)
  PROVE  RowsInv'
<1> DEFINE Quiet == exec' = exec /\ node' = node /\ evidence' = evidence /\ done' = done
<1>0. /\ DOMAIN run[r] = RunnerFields /\ DOMAIN run[r].st \subseteq DOMAIN node
      /\ AtNode(run[r].at) => run[r].key \in DOMAIN run[r].st
      /\ evidence \subseteq DOMAIN node /\ done \subseteq DOMAIN node
      /\ exec.status \in {"prepared", "running"} \union Ended
  BY DEF InputsInv, RunnerOk, RowsInv
<1>1. ASSUME NEW at, Set(r, [Idle EXCEPT !.at = at]), Quiet, asked' = asked PROVE RowsInv'
  <2>1. DOMAIN [Idle EXCEPT !.at = at].st \subseteq DOMAIN node
    BY DEF Idle
  <2> QED BY <1>0, <1>1, <2>1, RowsRunner
<1>2. ASSUME NEW rec, Set(r, rec), rec.st = run[r].st, Quiet, asked' = asked PROVE RowsInv'
  BY <1>0, <1>2, RowsRunner
<1>3. ASSUME NEW rec, Set(r, rec), DOMAIN rec.st = DOMAIN run[r].st, NEW n \in DOMAIN node,
             NEW status \in NodeStatuses, WriteNode(r, n, status), asked' = asked,
             exec' = exec, evidence' = evidence, done' \in {done, done \union {n}}
      PROVE  RowsInv'
  BY <1>0, <1>3, RowsRunner
<1>4. ASSUME NEW rec, Set(r, rec), rec.st = run[r].st, node' = node, evidence' = evidence, done' = done,
             asked' = asked, NEW status \in {"prepared", "running"} \union Ended, WriteExec(r, status)
      PROVE  RowsInv'
  BY <1>0, <1>4, RowsRunner
<1>5. \A n, s : DOMAIN CountedNode(r, n, s) = RunnerFields /\ DOMAIN CountedNode(r, n, s).st = DOMAIN run[r].st
  BY <1>0 DEF CountedNode, RunnerFields
<1>6. ASSUME NEW i, Visits(r, i) PROVE Steps[i] \in DOMAIN node
  BY <1>0, <1>6 DEF Visits, Ahead, CanMove
<1>7. DOMAIN CountedExec(r) = RunnerFields /\ CountedExec(r).st = run[r].st
  BY <1>0 DEF CountedExec, RunnerFields
<1>11. CASE Take(r) \/ Call(r) \/ Abort(r) \/ Crash(r) \/ Leave(r)
  BY <1>1, <1>11 DEF Take, Call, Abort, Crash, Leave
<1>12. CASE Begin(r) \/ EndPass(r) \/ SuccessLost(r)
  BY <1>0, <1>2, <1>12 DEF Begin, EndPass, SuccessLost, RunnerFields
<1>13. CASE Handle(r)
  BY <1>0, <1>2, <1>13 DEF Handle, RunnerFields
<1>14. CASE Stall(r)
  BY <1>14 DEF Stall, RowsInv
<1>15. CASE LoadNodes(r)
  <2> DEFINE rec == [run[r] EXCEPT !.at = "loop", !.st = [k \in DOMAIN node |-> node[k].status],
                                   !.ver = [k \in DOMAIN node |-> node[k].version]]
  <2>1. DOMAIN rec.st = DOMAIN node
    BY <1>0 DEF RunnerFields
  <2>2. Set(r, rec)
    BY <1>15 DEF LoadNodes
  <2> HIDE DEF rec
  <2> QED BY <1>0, <1>15, <2>1, <2>2, RowsRunner DEF LoadNodes
<1>16. CASE MarkRunning(r)
  <2>1. Set(r, [CountedExec(r) EXCEPT !.at = "load"]) /\ [CountedExec(r) EXCEPT !.at = "load"].st = run[r].st
    BY <1>7, <1>16 DEF MarkRunning, RunnerFields
  <2>2. CASE IsWorker
    <3>1. /\ DOMAIN exec' = {"status", "version"} /\ exec'.status \in {"prepared", "running"} \union Ended
      BY <1>16, <2>2 DEF MarkRunning, RowsInv
    <3>2. \A s \in Runners : DOMAIN run'[s].st \subseteq DOMAIN node
      BY <1>0, <2>1 DEF Set, InputsInv, RowsInv
    <3> QED BY <1>16, <3>1, <3>2 DEF MarkRunning, RowsInv
  <2>3. CASE ~IsWorker
    BY <1>4, <1>16, <2>1, <2>3 DEF MarkRunning
  <2> QED BY <2>2, <2>3
<1>17. CASE NoteNode(r)
  <2>1. /\ [CountedExec(r) EXCEPT !.at = "loop", !.key = NoOne].st = run[r].st
        /\ [CountedExec(r) EXCEPT !.at = "handle"].st = run[r].st
    BY <1>7 DEF RunnerFields
  <2> QED BY <1>0, <1>4, <1>17, <2>1 DEF NoteNode
<1>18. CASE WriteProgress(r)
  <2>1. [CountedExec(r) EXCEPT !.at = "loop", !.key = NoOne].st = run[r].st
    BY <1>7 DEF RunnerFields
  <2> QED BY <1>0, <1>4, <1>18, <2>1 DEF WriteProgress
<1>19. CASE Conclude(r)
  <2>1. \E rec : Set(r, rec) /\ rec.st = run[r].st
    BY <1>7, <1>19 DEF Conclude, RunnerFields
  <2> QED BY <1>4, <1>19, <2>1 DEF Conclude, Ended
<1>20. CASE MakeReady(r)
  <2>1. PICK i \in DOMAIN Steps : /\ Visits(r, i) /\ WriteNode(r, Steps[i], "ready")
                                  /\ Set(r, Moved(CountedNode(r, Steps[i], "ready"), i))
    BY <1>20 DEF MakeReady
  <2>2. DOMAIN Moved(CountedNode(r, Steps[i], "ready"), i).st = DOMAIN run[r].st
    BY <1>5 DEF Moved, RunnerFields
  <2> QED BY <1>3, <1>6, <1>20, <2>1, <2>2 DEF MakeReady, NodeStatuses
<1>21. CASE StartNode(r)
  <2>1. PICK i \in DOMAIN Steps :
          /\ Visits(r, i) /\ WriteNode(r, Steps[i], "running")
          /\ Set(r, [Moved(CountedNode(r, Steps[i], "running"), i)
                       EXCEPT !.at = "note", !.key = Steps[i]])
    BY <1>21 DEF StartNode
  <2>2. DOMAIN [Moved(CountedNode(r, Steps[i], "running"), i)
                       EXCEPT !.at = "note", !.key = Steps[i]].st = DOMAIN run[r].st
    BY <1>5 DEF Moved, RunnerFields
  <2> QED BY <1>3, <1>6, <1>21, <2>1, <2>2 DEF StartNode, NodeStatuses
<1>22. CASE SkipNode(r)
  <2>1. DOMAIN [CountedNode(r, run[r].key, "skipped") EXCEPT !.at = "loop", !.key = NoOne].st = DOMAIN run[r].st
    BY <1>5 DEF RunnerFields
  <2>2. run[r].key \in DOMAIN node
    BY <1>0, <1>22 DEF SkipNode, At, AtNode
  <2> QED BY <1>3, <1>22, <2>1, <2>2 DEF SkipNode, NodeStatuses
<1>23. CASE RecordArtifact(r)
  <2>1. \E rec : Set(r, rec) /\ rec.st = run[r].st
    BY <1>0, <1>23 DEF RecordArtifact, RunnerFields
  <2>2. run[r].key \in DOMAIN node
    BY <1>0, <1>23 DEF RecordArtifact, At, AtNode
  <2>3. evidence' \subseteq DOMAIN node
    BY <1>0, <1>23, <2>2 DEF RecordArtifact
  <2> QED BY <1>0, <1>23, <2>1, <2>3, RowsRunner DEF RecordArtifact
<1>24. CASE NodeSucceeds(r)
  <2>1. DOMAIN [CountedNode(r, run[r].key, "succeeded") EXCEPT !.at = "progress"].st = DOMAIN run[r].st
    BY <1>5 DEF RunnerFields
  <2>2. run[r].key \in DOMAIN node
    BY <1>0, <1>24 DEF NodeSucceeds, At, AtNode
  <2> QED BY <1>3, <1>24, <2>1, <2>2 DEF NodeSucceeds, NodeStatuses
<1>25. CASE NodeFails(r)
  <2>1. DOMAIN [CountedNode(r, run[r].key, "failed") EXCEPT !.at = "progress", !.failed = TRUE].st
          = DOMAIN run[r].st
    BY <1>5 DEF RunnerFields
  <2>2. run[r].key \in DOMAIN node
    BY <1>0, <1>25 DEF NodeFails, At, AtNode
  <2> QED BY <1>3, <1>25, <2>1, <2>2 DEF NodeFails, NodeStatuses
<1>26. CASE DryFinish(r)
  <2>1. PICK i \in DOMAIN Steps, outcome \in {"succeeded", "failed"} :
          /\ Visits(r, i) /\ WriteNode(r, Steps[i], outcome)
          /\ done' \in {done, done \union {Steps[i]}}
          /\ \/ Set(r, [Moved(CountedNode(r, Steps[i], outcome), i)
                       EXCEPT !.at = "progress", !.key = Steps[i]])
             \/ Set(r, [Moved(CountedNode(r, Steps[i], outcome), i)
                       EXCEPT !.at = "progress", !.key = Steps[i], !.failed = TRUE])
    BY <1>26 DEF DryFinish
  <2> DEFINE counted == CountedNode(r, Steps[i], outcome)
  <2>2. DOMAIN counted = RunnerFields /\ DOMAIN counted.st = DOMAIN run[r].st
    BY <1>5
  <2> HIDE DEF counted
  <2>3. /\ [Moved(counted, i) EXCEPT !.at = "progress", !.key = Steps[i]].st = counted.st
        /\ [Moved(counted, i) EXCEPT !.at = "progress", !.key = Steps[i], !.failed = TRUE].st = counted.st
    BY <2>2 DEF Moved, RunnerFields
  <2>4. \E rec : Set(r, rec) /\ DOMAIN rec.st = DOMAIN run[r].st
    BY <2>1, <2>2, <2>3 DEF counted
  <2> QED BY <1>3, <1>6, <1>26, <2>1, <2>4 DEF DryFinish, NodeStatuses
<1> QED BY <1>11, <1>12, <1>13, <1>14, <1>15, <1>16, <1>17, <1>18, <1>19, <1>20, <1>21,
           <1>22, <1>23, <1>24, <1>25, <1>26 DEF RunnerStep

LEMMA RequestKeepsRows ==
  ASSUME InputsInv, RowsInv, NEW q \in Requesters, Enqueue(q) \/ Cancel(q) \/ Retry(q)
  PROVE  RowsInv'
<1>0. /\ DOMAIN asked = Requesters /\ DOMAIN asked[q] = {"op", "at", "rows", "seen"}
      /\ \A k \in DOMAIN node : DOMAIN node[k] = {"status", "version", "attempt"}
  BY DEF InputsInv, RetryOk, RowOk
<1>1. CASE Enqueue(q)
  BY <1>0, <1>1 DEF Enqueue, Answer, Asks, RowsInv
<1>2. CASE Cancel(q)
  <2>1. asked[q].op = "cancel" /\ run' = run /\ evidence' = evidence /\ done' = done
    BY <1>2 DEF Cancel, CancelExecution, Asks
  <2>2. DOMAIN exec' = {"status", "version"} /\ exec'.status \in {"prepared", "running"} \union Ended
    <3>1. exec' = exec \/ exec' = [status |-> "cancelled", version |-> exec.version + 1]
      BY <1>2 DEF Cancel, CancelExecution
    <3> QED BY <3>1 DEF RowsInv, Ended
  <2>3. /\ DOMAIN node' = DOMAIN node
        /\ \A k \in DOMAIN node : node'[k].status \in NodeStatuses /\ node'[k].attempt = node[k].attempt
    <3>1. \/ node' = node
          \/ \E row \in asked[q].rows :
                 node' = [node EXCEPT ![row.key].status = "cancelled", ![row.key].version = @ + 1]
      BY <1>2 DEF Cancel, CancelExecution
    <3>2. /\ DOMAIN node' = DOMAIN node
          /\ \A k \in DOMAIN node : \/ node'[k] = node[k]
                                   \/ node'[k] = [node[k] EXCEPT !.status = "cancelled", !.version = @ + 1]
      BY <3>1
    <3>3. ASSUME NEW k \in DOMAIN node
          PROVE  node'[k].status \in NodeStatuses /\ node'[k].attempt = node[k].attempt
      <4>1. DOMAIN node[k] = {"status", "version", "attempt"} /\ node[k].status \in NodeStatuses
        BY <1>0, <3>3 DEF RowsInv
      <4>2. CASE node'[k] = [node[k] EXCEPT !.status = "cancelled", !.version = @ + 1]
        <5>1. node'[k].status = "cancelled" /\ node'[k].attempt = node[k].attempt
          BY <4>1, <4>2
        <5> QED BY <5>1 DEF NodeStatuses
      <4> QED BY <3>2, <3>3, <4>1, <4>2
    <3> QED BY <3>2, <3>3
  <2>4. /\ \A p \in Requesters \ {q} : asked'[p] = asked[p]
        /\ asked'[q].op = "cancel"
    BY <1>0, <1>2, <2>1 DEF Cancel, CancelExecution, Answer
  <2> QED BY <2>1, <2>2, <2>3, <2>4 DEF RowsInv
<1>3. CASE Retry(q)
  <2>1. run' = run /\ evidence' = evidence /\ done' = done /\ exec' = exec
    BY <1>3 DEF Retry
  <2>2. CASE Asks(q, "retry", "new")
    <3>1. PICK k \in DOMAIN node : asked' = [asked EXCEPT ![q].at =
            IF node[k].status = "failed" /\ node[k].attempt < MaxNodeAttempts
              THEN "write" ELSE "refused",
            ![q].rows = {[key |-> k, version |-> node[k].version, attempt |-> node[k].attempt]}]
      BY <1>3, <2>2 DEF Retry, RetryNode, Asks
    <3>2. /\ \A p \in Requesters \ {q} : asked'[p] = asked[p]
          /\ asked'[q].at = "write" => node[k].attempt < MaxNodeAttempts
          /\ \A row \in asked'[q].rows : row.attempt = node[k].attempt
      BY <1>0, <3>1
    <3>3. node' = node
      BY <1>3, <2>2 DEF Retry, RetryNode, Asks
    <3> QED BY <2>1, <3>2, <3>3 DEF RowsInv
  <2>3. CASE Asks(q, "retry", "write")
    <3>1. PICK row \in asked[q].rows :
             node' = IF node[row.key].version = row.version
                    THEN [node EXCEPT ![row.key] = [status |-> "ready", version |-> row.version + 1,
                                                    attempt |-> row.attempt + 1]]
                    ELSE node
      BY <1>3, <2>3 DEF Retry, RetryNode, Asks
    <3>2. row.attempt + 1 \in 1..MaxNodeAttempts
      BY <2>3, WorkflowsAssumption DEF RowsInv, Asks
    <3>3. /\ DOMAIN node' = DOMAIN node
          /\ \A k \in DOMAIN node : node'[k].status \in NodeStatuses /\ node'[k].attempt \in 1..MaxNodeAttempts
      BY <3>1, <3>2 DEF RowsInv, NodeStatuses
    <3>4. /\ \A p \in Requesters \ {q} : asked'[p] = asked[p]
          /\ asked'[q].at = "answered"
      BY <1>0, <1>3, <2>3 DEF Retry, RetryNode, Answer, Asks
    <3> QED BY <2>1, <3>3, <3>4 DEF RowsInv
  <2> QED BY <1>3, <2>2, <2>3 DEF Retry, RetryNode
<1> QED BY <1>1, <1>2, <1>3

LEMMA RowsKept == TaskInv /\ InputsInv /\ RowsInv /\ [Next]_workflowVars => RowsInv'
<1> SUFFICES ASSUME TaskInv, InputsInv, RowsInv, [Next]_workflowVars PROVE RowsInv'
  OBVIOUS
<1>1. CASE UNCHANGED executionVars
  BY <1>1 DEF RowsInv, executionVars
<1> QED BY <1>1, RunnerKeepsRows, RequestKeepsRows
        DEF Next, VersionsStep, RoutingStep, ExecutionStep, ExecutionNext, workflowVars

LEMMA ExecutionCorrect == Spec => []ExecutionTypeOK
<1>1. ItemInv /\ RowsInv => ExecutionTypeOK
  BY DEF ItemInv, RowsInv, ExecutionTypeOK, NodeStatuses
<1>2. Spec => []InputsInv
  BY InputsInit, InputsKept, PTL DEF Spec
<1>3. Spec => []RowsInv
  BY <1>2, RowsInit, RowsKept, TaskCorrect, PTL DEF Spec
<1> QED BY <1>1, <1>3, ItemCorrect, PTL

-----------------------------------------------------------------------------
(* ConclusionKept.  As long as no lock was lost and nobody cancels, one      *)
(* runner is at work at a time: the delivery that holds the item, or the     *)
(* one call in process.  What it finds concluded it leaves alone.            *)
Active(r) == run[r].at \notin {"idle", "left", "dead"}
Calm == trouble.stalls = 0 /\ Uncancelled

LEMMA StepsForward ==
  ASSUME InputsInv, ItemInv, [Next]_workflowVars
  PROVE  /\ \A q \in Requesters : asked'[q].op = asked[q].op
         /\ trouble.stalls <= trouble'.stalls /\ item.deliveries <= item'.deliveries
         /\ Uncancelled' => Uncancelled
<1>0. /\ DOMAIN asked = Requesters /\ \A q \in Requesters : DOMAIN asked[q] = {"op", "at", "rows", "seen"}
      /\ item.deliveries \in Nat /\ DOMAIN item = {"state", "by", "deliveries"}
      /\ DOMAIN trouble = {"faults", "crashes", "stalls"} /\ trouble.stalls \in Nat
  BY DEF InputsInv, RetryOk, ItemInv
<1>1. ASSUME Breaks("faults") \/ Breaks("crashes") \/ Breaks("stalls")
      PROVE  trouble.stalls <= trouble'.stalls
  BY <1>0, <1>1 DEF Breaks
<1>2. ASSUME NEW r \in Runners,
             Take(r) \/ Call(r) \/ RunnerStep(r) \/ SuccessLost(r) \/ Abort(r) \/ Crash(r) \/ Stall(r)
      PROVE  /\ asked' = asked /\ item.deliveries <= item'.deliveries
             /\ trouble' = trouble \/ Breaks("faults") \/ Breaks("crashes") \/ Breaks("stalls")
  <2>0. ASSUME \/ item' = item
               \/ item' = [item EXCEPT !.state = "active", !.by = r, !.deliveries = @ + 1]
               \/ item' = [item EXCEPT !.state = "ended", !.by = NoOne]
               \/ item' = [item EXCEPT !.state = "waiting", !.by = NoOne]
        PROVE  item.deliveries <= item'.deliveries
    <3>1. \/ item'.deliveries = item.deliveries
          \/ item'.deliveries = item.deliveries + 1
      BY <1>0, <2>0
    <3> QED BY <1>0, <3>1
  <2>1. CASE Take(r) \/ Call(r) \/ SuccessLost(r)
    BY <2>0, <2>1 DEF Take, Call, SuccessLost
  <2>2. CASE Leave(r) \/ Abort(r)
    BY <2>0, <2>2 DEF Leave, Abort, LetGo
  <2>3. CASE Crash(r) \/ Stall(r)
    BY <2>0, <2>3 DEF Crash, Stall, Redeliver
  <2>4. CASE Handle(r) \/ RecordArtifact(r) \/ DryFinish(r)
    BY <2>0, <2>4 DEF Handle, RecordArtifact, DryFinish
  <2>5. CASE Begin(r) \/ MarkRunning(r) \/ LoadNodes(r) \/ EndPass(r) \/ NoteNode(r)
               \/ WriteProgress(r) \/ Conclude(r)
    BY <2>0, <2>5 DEF Begin, MarkRunning, LoadNodes, EndPass, NoteNode, WriteProgress, Conclude
  <2>6. CASE MakeReady(r) \/ StartNode(r) \/ SkipNode(r) \/ NodeSucceeds(r) \/ NodeFails(r)
    BY <2>0, <2>6 DEF MakeReady, StartNode, SkipNode, NodeSucceeds, NodeFails
  <2> QED BY <1>2, <2>1, <2>2, <2>3, <2>4, <2>5, <2>6 DEF RunnerStep
<1>3. ASSUME NEW q \in Requesters, Enqueue(q) \/ Cancel(q) \/ Retry(q)
      PROVE  /\ \A p \in Requesters : asked'[p].op = asked[p].op
             /\ trouble' = trouble /\ item.deliveries <= item'.deliveries
  <2>1. CASE Enqueue(q)
    BY <1>0, <2>1 DEF Enqueue, Answer, Added
  <2>2. CASE Cancel(q)
    <3>1. CASE \E at : Answer(q, at)
      BY <1>0, <2>2, <3>1 DEF Cancel, Answer
    <3>2. CASE Asks(q, "cancel", "new")
      BY <1>0, <2>2, <3>2 DEF Cancel, CancelExecution, Asks
    <3>3. CASE Asks(q, "cancel", "nodes")
      BY <1>0, <2>2, <3>3 DEF Cancel, CancelExecution, Asks
    <3>4. CASE \E row \in asked[q].rows : asked' = [asked EXCEPT ![q].rows = @ \ {row}]
      BY <1>0, <2>2, <3>4 DEF Cancel
    <3> QED BY <2>2, <3>1, <3>2, <3>3, <3>4 DEF Cancel, CancelExecution
  <2>3. CASE Retry(q)
    <3>1. trouble' = trouble /\ item' = item
      BY <2>3 DEF Retry
    <3>2. CASE \E at : Answer(q, at)
      BY <1>0, <3>1, <3>2 DEF Answer
    <3>3. CASE Asks(q, "retry", "new")
      <4>1. PICK k \in DOMAIN node : asked' = [asked EXCEPT ![q].at =
              IF node[k].status = "failed" /\ node[k].attempt < MaxNodeAttempts
                THEN "write" ELSE "refused",
              ![q].rows = {[key |-> k, version |-> node[k].version, attempt |-> node[k].attempt]}]
        BY <2>3, <3>3 DEF Retry, RetryNode, Asks
      <4> QED BY <1>0, <3>1, <4>1
    <3> QED BY <2>3, <3>2, <3>3 DEF Retry, RetryNode
  <2> QED BY <1>3, <2>1, <2>2, <2>3
<1>4. CASE UNCHANGED executionVars
  BY <1>0, <1>4 DEF executionVars, Uncancelled
<1>5. CASE \E r \in Runners : Take(r) \/ Call(r) \/ RunnerStep(r) \/ SuccessLost(r) \/ Abort(r)
                                \/ Crash(r) \/ Stall(r)
  BY <1>0, <1>1, <1>2, <1>5 DEF Uncancelled
<1>6. CASE \E q \in Requesters : Enqueue(q) \/ Cancel(q) \/ Retry(q)
  BY <1>0, <1>3, <1>6 DEF Uncancelled
<1> QED BY <1>4, <1>5, <1>6
        DEF Next, VersionsStep, RoutingStep, ExecutionStep, ExecutionNext, workflowVars

(* Without cancellations only an enqueueing call acts, beside the runners.  *)
LEMMA OnlyEnqueues ==
  ASSUME Uncancelled, NEW q \in Requesters, Enqueue(q) \/ Cancel(q) \/ Retry(q)
  PROVE  Enqueue(q)
BY DEF Uncancelled, Cancel, CancelExecution, Retry, RetryNode, Asks

(* The status of an execution changes where a runner marks it or concludes. *)
LEMMA StatusSteps ==
  ASSUME RowsInv, NEW r \in Runners,
         Take(r) \/ Call(r) \/ RunnerStep(r) \/ SuccessLost(r) \/ Abort(r) \/ Crash(r) \/ Stall(r)
  PROVE  exec'.status = exec.status \/ MarkRunning(r) \/ Conclude(r)
<1>0. ASSUME WriteExec(r, exec.status) PROVE exec'.status = exec.status
  BY <1>0 DEF WriteExec, RowsInv
<1>1. CASE NoteNode(r) \/ WriteProgress(r)
  BY <1>0, <1>1 DEF NoteNode, WriteProgress
<1>2. CASE Take(r) \/ Call(r) \/ SuccessLost(r) \/ Abort(r) \/ Crash(r) \/ Stall(r)
  BY <1>2 DEF Take, Call, SuccessLost, Abort, Crash, Stall
<1>3. CASE Begin(r) \/ LoadNodes(r) \/ EndPass(r) \/ Handle(r) \/ RecordArtifact(r) \/ Leave(r)
  BY <1>3 DEF Begin, LoadNodes, EndPass, Handle, RecordArtifact, Leave
<1>4. CASE MakeReady(r) \/ StartNode(r) \/ SkipNode(r) \/ NodeSucceeds(r) \/ NodeFails(r) \/ DryFinish(r)
  BY <1>4 DEF MakeReady, StartNode, SkipNode, NodeSucceeds, NodeFails, DryFinish
<1> QED BY <1>1, <1>2, <1>3, <1>4 DEF RunnerStep

CalmInv == Calm =>
  /\ IsWorker => \A r \in Runners : Active(r) => item.by = r
  /\ ~IsWorker => \A r, s \in Runners : Active(r) /\ Active(s) => r = s
  /\ Concluded(exec.status) => \A r \in Runners : run[r].at \in {"idle", "begin", "leave", "left", "dead"}

LEMMA CalmInit == Init => CalmInv
<1> SUFFICES ASSUME Init PROVE CalmInv
  OBVIOUS
<1>1. PICK t \in Tasks : ExecutionInit(t)
  BY StartedExecution
<1> QED BY <1>1 DEF ExecutionInit, CalmInv, Active, Idle, Concluded, Ended

(* The step of a runner at work that stays at work.                         *)
LEMMA CalmRunner ==
  ASSUME InputsInv, CalmInv, Calm, task' = task, item' = item, NEW r \in Runners, Active(r),
         NEW rec, Set(r, rec), Concluded(exec'.status) => rec.at = "leave"
  PROVE  CalmInv'
<1>1. \A s \in Runners \ {r} : ~Active(s) /\ run'[s] = run[s]
  BY DEF CalmInv, Set, InputsInv
<1>2. run'[r] = rec
  BY DEF Set, InputsInv
<1> QED BY <1>1, <1>2 DEF CalmInv, Active, IsWorker

LEMMA Fields ==
  ASSUME InputsInv, NEW r \in Runners
  PROVE  /\ DOMAIN run = Runners /\ DOMAIN run[r] = RunnerFields
         /\ DOMAIN CountedExec(r) = RunnerFields /\ CountedExec(r).st = run[r].st
         /\ CountedExec(r).at = run[r].at
         /\ \A n, s : DOMAIN CountedNode(r, n, s) = RunnerFields
BY DEF InputsInv, RunnerOk, CountedExec, CountedNode, RunnerFields

LEMMA CalmKept == InputsInv /\ ItemInv /\ RowsInv /\ CalmInv /\ [Next]_workflowVars => CalmInv'
<1> SUFFICES ASSUME InputsInv, ItemInv, RowsInv, CalmInv, [Next]_workflowVars, Calm' PROVE CalmInv'
  BY DEF CalmInv
<1>0. /\ task' = task /\ Calm
      /\ DOMAIN run = Runners /\ DOMAIN trouble = {"faults", "crashes", "stalls"} /\ trouble.stalls = 0
      /\ DOMAIN item = {"state", "by", "deliveries"}
      /\ item.by # NoOne <=> item.state = "active"
  BY TaskStays, StepsForward DEF Calm, InputsInv, ItemInv
<1>1. ASSUME NEW r \in Runners, NEW at \in {"left", "dead"}, Set(r, [Idle EXCEPT !.at = at]),
             exec' = exec, item' = item \/ item.by = r
      PROVE  CalmInv'
  <2>1. /\ run'[r].at = at /\ \A s \in Runners \ {r} : run'[s] = run[s]
    BY <1>0, <1>1 DEF Set, Idle
  <2>2. \A s \in Runners : Active(s)' => s # r /\ Active(s)
    BY <2>1 DEF Active
  <2> QED BY <1>0, <1>1, <2>1, <2>2 DEF CalmInv, IsWorker
<1>2. ASSUME NEW r \in Runners, Take(r) PROVE CalmInv'
  <2>1. /\ run'[r].at = "begin" /\ \A s \in Runners \ {r} : run'[s] = run[s]
    BY <1>0, <1>2 DEF Take, Set, Idle
  <2>2. \A s \in Runners : ~Active(s)
    BY <1>0, <1>2, WorkflowsAssumption DEF Take, CalmInv
  <2>3. \A s \in Runners : Active(s)' => s = r
    BY <2>1, <2>2 DEF Active
  <2>4. item'.by = r /\ exec' = exec /\ IsWorker
    BY <1>0, <1>2 DEF Take
  <2> QED BY <1>0, <2>1, <2>3, <2>4 DEF CalmInv, IsWorker
<1>3. ASSUME NEW r \in Runners, Call(r) PROVE CalmInv'
  <2>1. /\ run'[r].at = "begin" /\ \A s \in Runners \ {r} : run'[s] = run[s]
    BY <1>0, <1>3 DEF Call, Set, Idle
  <2>2. \A s \in Runners : Active(s)' => s = r
    BY <1>3, <2>1 DEF Active, Call
  <2>3. exec' = exec /\ ~IsWorker
    BY <1>3 DEF Call
  <2> QED BY <1>0, <2>1, <2>2, <2>3 DEF CalmInv, IsWorker
<1>4. ASSUME NEW r \in Runners, RunnerStep(r) \/ SuccessLost(r) PROVE CalmInv'
  <2>0. Active(r) /\ (Concluded(exec.status) => run[r].at \in {"begin", "leave"})
    BY <1>0, <1>4 DEF Active, CalmInv, RunnerStep, SuccessLost, At, Begin, MarkRunning, LoadNodes,
              EndPass, MakeReady, StartNode, NoteNode, Handle, SkipNode, RecordArtifact, NodeSucceeds,
              NodeFails, DryFinish, WriteProgress, Conclude, Leave, Visits
  <2>1. CASE Leave(r)
    <3>1. item' = item \/ item.by = r
      BY <2>1 DEF Leave, LetGo
    <3> QED BY <1>1, <2>1, <3>1 DEF Leave
  <2>2. CASE Begin(r)
    <3>1. [run[r] EXCEPT !.at = IF Concluded(exec.status) THEN "leave" ELSE "mark",
                         !.execVer = exec.version].at
            = IF Concluded(exec.status) THEN "leave" ELSE "mark"
      BY Fields DEF RunnerFields
    <3> QED BY <1>0, <2>0, <2>2, <3>1, CalmRunner DEF Begin
  <2>3. CASE Conclude(r)
    <3>1. [CountedExec(r) EXCEPT !.at = "leave"].at = "leave"
      BY Fields DEF RunnerFields
    <3> QED BY <1>0, <2>0, <2>3, <3>1, CalmRunner DEF Conclude
  <2>4. CASE run[r].at \notin {"begin", "conclude", "leave"}
    <3>1. ~Concluded(exec.status)
      BY <2>0, <2>4
    <3>2. ~Concluded(exec'.status)
      <4>1. CASE exec'.status = exec.status
        BY <3>1, <4>1
      <4>2. CASE MarkRunning(r)
        BY <3>1, <4>2 DEF MarkRunning, WriteExec, RowsInv, Concluded, Ended
      <4> QED BY <1>4, <2>4, <4>1, <4>2, StatusSteps DEF Conclude, At
    <3>3. item' = item /\ \E rec : Set(r, rec)
      <4>1. CASE MarkRunning(r) \/ LoadNodes(r) \/ EndPass(r) \/ NoteNode(r) \/ WriteProgress(r)
        BY <4>1 DEF MarkRunning, LoadNodes, EndPass, NoteNode, WriteProgress
      <4>2. CASE Handle(r) \/ RecordArtifact(r) \/ SuccessLost(r)
        BY <4>2 DEF Handle, RecordArtifact, SuccessLost
      <4>3. CASE MakeReady(r) \/ StartNode(r) \/ SkipNode(r) \/ NodeSucceeds(r) \/ NodeFails(r)
        BY <4>3 DEF MakeReady, StartNode, SkipNode, NodeSucceeds, NodeFails
      <4>4. CASE DryFinish(r)
        BY <4>4 DEF DryFinish
      <4> QED BY <1>4, <2>4, <4>1, <4>2, <4>3, <4>4 DEF RunnerStep, Begin, Conclude, Leave, At
    <3> QED BY <1>0, <2>0, <3>2, <3>3, CalmRunner
  <2> QED BY <1>4, <2>1, <2>2, <2>3, <2>4
          DEF RunnerStep, SuccessLost, At, Begin, MarkRunning, LoadNodes, EndPass, MakeReady, StartNode,
              NoteNode, Handle, SkipNode, RecordArtifact, NodeSucceeds, NodeFails, DryFinish,
              WriteProgress, Conclude, Leave, Visits
<1>5. ASSUME NEW r \in Runners, Abort(r) \/ Crash(r) PROVE CalmInv'
  <2>1. exec' = exec /\ (item' = item \/ item.by = r)
    BY <1>5 DEF Abort, Crash, LetGo
  <2> QED BY <1>1, <1>5, <2>1 DEF Abort, Crash
<1>6. ASSUME NEW r \in Runners, Stall(r) PROVE FALSE
  BY <1>0, <1>6 DEF Stall, Breaks, Calm
<1>7. ASSUME NEW q \in Requesters, Enqueue(q) PROVE CalmInv'
  BY <1>0, <1>7 DEF Enqueue, Added, CalmInv, Active, IsWorker
<1>8. CASE UNCHANGED executionVars
  BY <1>0, <1>8 DEF executionVars, CalmInv, Active, IsWorker
<1> QED BY <1>0, <1>2, <1>3, <1>4, <1>5, <1>6, <1>7, <1>8, OnlyEnqueues
        DEF Next, VersionsStep, RoutingStep, ExecutionStep, ExecutionNext, workflowVars, Calm

(* The invariants of the inputs and the rows hold throughout. *)
LEMMA RecordsCorrect == Spec => [](InputsInv /\ ItemInv /\ RowsInv /\ TaskInv)
<1>1. Spec => []InputsInv
  BY InputsInit, InputsKept, PTL DEF Spec
<1>2. Spec => []RowsInv
  BY <1>1, RowsInit, RowsKept, TaskCorrect, PTL DEF Spec
<1> QED BY <1>1, <1>2, ItemCorrect, TaskCorrect, PTL

(* A concluded execution is not touched again by a delivery after a crash   *)
(* or by a second call (EXECUTION_ALREADY_TERMINAL in shadow-workflow.ts,   *)
(* shadow-executor.ts and dry-executor.ts).                                 *)
THEOREM ConclusionKeptCorrect == Spec => ConclusionKept
<1> DEFINE Stays == Concluded(exec.status) /\ trouble.stalls = 0 /\ Uncancelled
                      => exec'.status = exec.status
<1>1. InputsInv /\ ItemInv /\ RowsInv /\ CalmInv /\ [Next]_workflowVars => Stays
  <2> SUFFICES ASSUME RowsInv, CalmInv, [Next]_workflowVars, Concluded(exec.status), Calm
               PROVE  exec'.status = exec.status
    BY DEF Calm
  <2>1. ASSUME NEW r \in Runners, MarkRunning(r) \/ Conclude(r) PROVE FALSE
    BY <2>1 DEF CalmInv, MarkRunning, Conclude, At
  <2>2. CASE exec' = exec
    BY <2>2
  <2> QED BY <2>1, <2>2, StatusSteps, OnlyEnqueues
          DEF Next, VersionsStep, RoutingStep, ExecutionStep, ExecutionNext, workflowVars, Calm,
              Enqueue, executionVars
<1>2. Spec => []CalmInv
  BY CalmInit, CalmKept, RecordsCorrect, PTL DEF Spec
<1>3. Stays => [Stays]_executionVars
  OBVIOUS
<1> QED BY <1>1, <1>2, <1>3, RecordsCorrect, PTL DEF Spec, ConclusionKept

-----------------------------------------------------------------------------
(* One delivery, or one call in process, that nobody interferes with.  Its  *)
(* copy of the statuses is what the rows say, and each pass that advanced    *)
(* moved a node up: from pending over ready and running to an outcome.  So  *)
(* the passes it allows itself are enough.                                  *)
Level(s) == CASE s = "pending" -> 0 [] s = "ready" -> 1 [] s = "running" -> 2 [] OTHER -> 3
Moves(g, st) == {p \in KeysOf(g) \X (1..3) : p[2] <= Level(st[p[1]])}

LEMMA LevelRange == \A s : Level(s) \in 0..3
BY DEF Level

LEMMA MovesAreFinite ==
  ASSUME NEW g, IsGraph(g), NEW st
  PROVE  /\ IsFiniteSet(Moves(g, st)) /\ Cardinality(Moves(g, st)) \in Nat
         /\ Cardinality(Moves(g, st)) <= 3 * Len(g.nodes)
         /\ Cardinality(Moves(g, st)) = 3 * Len(g.nodes) => \A k \in KeysOf(g) : Level(st[k]) = 3
<1> DEFINE K == KeysOf(g)
           All == K \X (1..3)
<1>1. IsFiniteSet(K) /\ Cardinality(K) \in Nat /\ Cardinality(K) <= Len(g.nodes) /\ Len(g.nodes) \in Nat
  BY KeysAreFinite
<1>2. IsFiniteSet(1..3) /\ Cardinality(1..3) = 3
  <2>1. \A n \in Nat : IsFiniteSet(1..n) /\ Cardinality(1..n) = n
    BY FS_Interval
  <2> QED BY <2>1
<1>3. IsFiniteSet(All) /\ Cardinality(All) = Cardinality(K) * 3
  BY <1>1, <1>2, FS_Product
<1>4. Moves(g, st) \in SUBSET All
  BY DEF Moves
<1>5. /\ IsFiniteSet(Moves(g, st)) /\ Cardinality(Moves(g, st)) <= Cardinality(All)
      /\ Cardinality(All) = Cardinality(Moves(g, st)) => All = Moves(g, st)
      /\ Cardinality(Moves(g, st)) \in Nat
  <2> HIDE DEF All
  <2> QED BY <1>3, <1>4, FS_Subset, FS_CardinalityType
<1>6. ASSUME Cardinality(Moves(g, st)) = 3 * Len(g.nodes), NEW k \in K PROVE Level(st[k]) = 3
  <2>1. All = Moves(g, st)
    <3> HIDE DEF All, K
    <3> QED BY <1>1, <1>3, <1>5, <1>6
  <2>2. <<k, 3>> \in Moves(g, st)
    BY <2>1
  <2> QED BY <2>2, LevelRange DEF Moves
<1>7. Cardinality(Moves(g, st)) <= 3 * Len(g.nodes)
  <2> HIDE DEF All, K
  <2> QED BY <1>1, <1>3, <1>5
<1> QED BY <1>5, <1>6, <1>7

LEMMA MovesGrow ==
  ASSUME NEW g, IsGraph(g), NEW st, NEW tt,
         \A k \in KeysOf(g) : Level(st[k]) <= Level(tt[k])
  PROVE  /\ Cardinality(Moves(g, st)) <= Cardinality(Moves(g, tt))
         /\ (\E k \in KeysOf(g) : Level(st[k]) < Level(tt[k])) =>
              Cardinality(Moves(g, st)) + 1 <= Cardinality(Moves(g, tt))
<1>1. Moves(g, st) \in SUBSET Moves(g, tt)
  BY LevelRange DEF Moves
<1>2. /\ IsFiniteSet(Moves(g, tt)) /\ Cardinality(Moves(g, tt)) \in Nat /\ Cardinality(Moves(g, st)) \in Nat
  BY MovesAreFinite
<1>3. /\ Cardinality(Moves(g, st)) <= Cardinality(Moves(g, tt))
      /\ Cardinality(Moves(g, tt)) = Cardinality(Moves(g, st)) => Moves(g, tt) = Moves(g, st)
  BY <1>1, <1>2, FS_Subset
<1>4. ASSUME NEW k \in KeysOf(g), Level(st[k]) < Level(tt[k]) PROVE Moves(g, tt) # Moves(g, st)
  <2>1. Level(tt[k]) \in 1..3
    BY <1>4, LevelRange
  <2>2. <<k, Level(tt[k])>> \in Moves(g, tt)
    BY <2>1 DEF Moves
  <2>3. <<k, Level(tt[k])>> \notin Moves(g, st)
    BY <1>4, <2>1, LevelRange DEF Moves
  <2> QED BY <2>2, <2>3
<1> QED BY <1>2, <1>3, <1>4

Entry == {"begin", "mark", "load"}
Gone == {"leave", "left", "dead"}
Looping(at) == AtNode(at) \/ at \in {"loop", "conclude"}
AllHandled(t) == t.kind = "executor" => \A k \in KeysOf(t.graph) : TypeOf(t.graph, k) \in HandledTypes
FreshRun(rec) == rec.pass = 0 /\ rec.pos = 1 /\ rec.advanced = FALSE /\ rec.failed = FALSE

Copies(t, rec, rows) ==
  /\ DOMAIN rec.st = DOMAIN rows /\ \A k \in DOMAIN rows : rec.st[k] = rows[k].status
  /\ t.kind # "worker" => /\ DOMAIN rec.ver = DOMAIN rows
                          /\ \A k \in DOMAIN rows : rec.ver[k] = rows[k].version

StatusOk(t, rec, k) ==
  /\ rec.st[k] \in {"pending", "ready", "running", "succeeded", "failed", "skipped"}
  /\ rec.st[k] = "failed" => rec.failed
  /\ rec.st[k] = "skipped" => t.kind = "executor" /\ TypeOf(t.graph, k) \notin HandledTypes
  /\ rec.st[k] = "running" => t.kind = "dry" \/ (k = rec.key /\ AtNode(rec.at) /\ rec.at # "progress")
PassOk(t, rec) ==
  /\ rec.pass \in Nat /\ rec.advanced \in BOOLEAN /\ rec.failed \in BOOLEAN
  /\ rec.pos \in 1..(Len(t.order) + 1)
  /\ rec.at # "conclude" /\ ~rec.advanced => rec.pos = 1 /\ rec.at = "loop"
  /\ rec.pass + (IF rec.advanced THEN 1 ELSE 0) <= Cardinality(Moves(t.graph, rec.st))
Tells(t, rec) ==
  /\ \A k \in KeysOf(t.graph) : StatusOk(t, rec, k)
  /\ AtNode(rec.at) => rec.key \in KeysOf(t.graph) /\ Level(rec.st[rec.key]) >= 2
  /\ rec.at \in {"handle", "record", "succeed", "fail"} => t.kind # "dry"
  /\ PassOk(t, rec)
  /\ rec.at = "conclude" /\ ~rec.failed /\ AllHandled(t) =>
       \A k \in KeysOf(t.graph) : rec.st[k] = "succeeded"

Untouched(e, rows) ==
  e.status \in {"prepared", "running"} /\ \A k \in DOMAIN rows : rows[k].status = "pending"
Complete(t, e, rows) ==
  e.status = "succeeded" /\ AllHandled(t) => \A k \in DOMAIN rows : rows[k].status = "succeeded"

Alone(t, rec, e, rows) ==
  /\ rec.at \in Entry \union Gone \/ Looping(rec.at)
  /\ rec.at \in Entry => Untouched(e, rows) /\ FreshRun(rec)
  /\ Looping(rec.at) => ~Concluded(e.status) /\ Copies(t, rec, rows) /\ Tells(t, rec)
  /\ rec.at \in Gone => Complete(t, e, rows)
  /\ t.kind # "worker" /\ rec.at \notin Gone \union {"begin"} => rec.execVer = e.version

Engaged == {r \in Runners : run[r].at # "idle"}
Solo == OneDelivery /\ Uncancelled
DeliveriesInv ==
  /\ IsFiniteSet(Engaged) /\ (item.by # NoOne => item.by \in Engaged)
  /\ IsWorker => /\ item.deliveries = 0 => Engaged = {}
                 /\ item.deliveries <= 1 => \A r, s \in Engaged : r = s
AloneInv == Solo =>
  /\ Engaged = {} => Untouched(exec, node)
  /\ \A r \in Engaged : Alone(task, run[r], exec, node)

(* How many runners there are. *)
LEMMA AtMostOne ==
  ASSUME NEW S, IsFiniteSet(S), Cardinality(S) <= 1
  PROVE  \A r, s \in S : r = s
<1> SUFFICES ASSUME NEW r \in S, NEW s \in S, r # s PROVE FALSE
  OBVIOUS
<1>1. IsFiniteSet({r}) /\ Cardinality({r}) = 1
  BY FS_Singleton
<1>2. IsFiniteSet({r} \union {s}) /\ Cardinality({r} \union {s}) = 2
  <2>1. s \notin {r}
    OBVIOUS
  <2> QED BY <1>1, <2>1, FS_AddElement
<1>3. Cardinality({r} \union {s}) <= Cardinality(S) /\ Cardinality(S) \in Nat
  <2>1. {r} \union {s} \in SUBSET S
    OBVIOUS
  <2> QED BY <2>1, FS_Subset, FS_CardinalityType
<1> QED BY <1>2, <1>3

LEMMA SoloIsOne ==
  ASSUME DeliveriesInv, Solo
  PROVE  \A r, s \in Engaged : r = s
<1>1. CASE IsWorker
  BY <1>1 DEF DeliveriesInv, Solo, OneDelivery
<1>2. CASE ~IsWorker
  <2>1. Cardinality(Engaged) <= 1 /\ IsFiniteSet(Engaged)
    BY <1>2 DEF DeliveriesInv, Solo, OneDelivery, Engaged
  <2> QED BY <2>1, AtMostOne
<1> QED BY <1>1, <1>2

(* Who takes part once takes part for good: nobody goes back to idle.       *)
LEMMA SetAt ==
  ASSUME InputsInv, NEW r \in Runners, NEW rec, Set(r, rec)
  PROVE  /\ run'[r] = rec /\ \A s \in Runners \ {r} : run'[s] = run[s]
         /\ rec.at # "idle" => Engaged' = Engaged \union {r}
<1>1. run'[r] = rec /\ \A s \in Runners \ {r} : run'[s] = run[s]
  BY DEF InputsInv, Set
<1> QED BY <1>1 DEF Engaged

(* The bookkeeping of a pass, on the way through a node and at a new move.  *)
LEMMA PassKept ==
  ASSUME NEW t, IsGraph(t.graph), NEW old, NEW rec, PassOk(t, old), old.advanced,
         rec.pass = old.pass, rec.pos = old.pos, rec.advanced = old.advanced, rec.failed \in BOOLEAN,
         \A k \in KeysOf(t.graph) : Level(old.st[k]) <= Level(rec.st[k])
  PROVE  PassOk(t, rec)
<1>1. Cardinality(Moves(t.graph, old.st)) <= Cardinality(Moves(t.graph, rec.st))
  BY MovesGrow
<1>2. Cardinality(Moves(t.graph, old.st)) \in Nat /\ Cardinality(Moves(t.graph, rec.st)) \in Nat
  BY MovesAreFinite
<1> QED BY <1>1, <1>2 DEF PassOk

LEMMA PassMoved ==
  ASSUME NEW t, IsGraph(t.graph), Len(t.order) \in Nat, NEW old, NEW rec, PassOk(t, old),
         rec.pass = old.pass, NEW i \in 1..Len(t.order), rec.pos = i + 1, rec.advanced = TRUE,
         rec.failed \in BOOLEAN,
         \A k \in KeysOf(t.graph) : Level(old.st[k]) <= Level(rec.st[k]),
         \E k \in KeysOf(t.graph) : Level(old.st[k]) < Level(rec.st[k])
  PROVE  PassOk(t, rec)
<1>1. Cardinality(Moves(t.graph, old.st)) + 1 <= Cardinality(Moves(t.graph, rec.st))
  BY MovesGrow
<1>2. Cardinality(Moves(t.graph, old.st)) \in Nat /\ Cardinality(Moves(t.graph, rec.st)) \in Nat
  BY MovesAreFinite
<1>3. i + 1 \in 1..(Len(t.order) + 1)
  OBVIOUS
<1>4. rec.pass \in Nat /\ rec.pass + 1 <= Cardinality(Moves(t.graph, rec.st))
  BY <1>1, <1>2 DEF PassOk
<1> QED BY <1>3, <1>4 DEF PassOk

(* What is written reaches the row: the local counts are the tables' counts. *)
LEMMA ExecWritten ==
  ASSUME RowsInv, NEW r, ~IsWorker => run[r].execVer = exec.version, NEW status, WriteExec(r, status)
  PROVE  exec'.status = status /\ (~IsWorker => exec'.version = run[r].execVer + 1)
BY DEF WriteExec, RowsInv

Writes(r, n, status, rec) ==
  /\ WriteNode(r, n, status)
  /\ rec.st = CountedNode(r, n, status).st /\ rec.ver = CountedNode(r, n, status).ver

LEMMA NodeWritten ==
  ASSUME InputsInv, NEW r \in Runners, Copies(task, run[r], node), NEW n \in DOMAIN node,
         NEW status, NEW rec, Writes(r, n, status, rec)
  PROVE  /\ Copies(task, rec, node')
         /\ rec.st[n] = status /\ \A k \in DOMAIN node \ {n} : rec.st[k] = run[r].st[k]
<1>1. /\ rec.st = [run[r].st EXCEPT ![n] = status] /\ rec.ver = [run[r].ver EXCEPT ![n] = @ + 1]
  BY Fields DEF Writes, CountedNode, RunnerFields
<1>2. /\ DOMAIN run[r].st = DOMAIN node /\ \A k \in DOMAIN node : run[r].st[k] = node[k].status
      /\ ~IsWorker => /\ DOMAIN run[r].ver = DOMAIN node
                      /\ \A k \in DOMAIN node : run[r].ver[k] = node[k].version
  BY DEF Copies, IsWorker
<1>3. \A k \in DOMAIN node : DOMAIN node[k] = {"status", "version", "attempt"}
  BY DEF InputsInv, RowOk
<1>4. CASE IsWorker
  <2>1. node' = [node EXCEPT ![n].status = status]
    BY <1>4 DEF Writes, WriteNode
  <2> QED BY <1>1, <1>2, <1>3, <1>4, <2>1 DEF Copies, IsWorker
<1>5. CASE ~IsWorker
  <2>1. node' = [node EXCEPT ![n].status = status, ![n].version = @ + 1]
    BY <1>2, <1>5 DEF Writes, WriteNode
  <2>2. /\ DOMAIN node' = DOMAIN node /\ \A k \in DOMAIN node \ {n} : node'[k] = node[k]
        /\ node'[n].status = status /\ node'[n].version = node[n].version + 1
    BY <1>3, <2>1
  <2> QED BY <1>1, <1>2, <1>5, <2>2 DEF Copies
<1> QED BY <1>4, <1>5

(* A node's turn in the pass, whatever happens to it there.                 *)
LEMMA TurnOfANode ==
  ASSUME TaskInv, InputsInv, NEW r \in Runners, Alone(task, run[r], exec, node),
         NEW i \in DOMAIN Steps, Visits(r, i), NEW status, Level(run[r].st[Steps[i]]) < Level(status),
         NEW rec, Writes(r, Steps[i], status, rec),
         rec.pass = run[r].pass, rec.pos = i + 1, rec.advanced = TRUE, rec.failed \in BOOLEAN,
         run[r].failed => rec.failed, StatusOk(task, rec, Steps[i]), Looping(rec.at), rec.at # "conclude",
         rec.at \notin {"handle", "record", "succeed", "fail"},
         AtNode(rec.at) => rec.key = Steps[i] /\ Level(status) >= 2,
         rec.execVer = run[r].execVer, exec' = exec
  PROVE  Alone(task, rec, exec', node')
<1>1. /\ run[r].at = "loop" /\ ~Concluded(exec.status) /\ Copies(task, run[r], node) /\ Tells(task, run[r])
      /\ task.kind # "worker" => run[r].execVer = exec.version
  BY DEF Visits, At, Alone, Looping, Gone
<1>2. /\ IsGraph(task.graph) /\ Len(task.order) \in Nat /\ DOMAIN Steps = 1..Len(task.order)
      /\ Steps[i] \in KeysOf(task.graph) /\ DOMAIN node = KeysOf(task.graph)
  <2>1. IsGraph(task.graph) /\ task.order = Order(task.graph) /\ DOMAIN node = KeysOf(task.graph)
    BY DEF TaskInv
  <2>2. Len(task.graph.nodes) \in Nat
    BY <2>1, KeysAreFinite
  <2>3. /\ DOMAIN task.order = 1..Len(task.graph.nodes) /\ Len(task.order) = Len(task.graph.nodes)
        /\ \A n \in 1..Len(task.graph.nodes) : task.order[n] \in KeysOf(task.graph)
    BY <2>1, OrderNamesEveryNode
  <2> QED BY <2>1, <2>2, <2>3 DEF Steps
<1>3. /\ Copies(task, rec, node') /\ rec.st[Steps[i]] = status
      /\ \A k \in KeysOf(task.graph) \ {Steps[i]} : rec.st[k] = run[r].st[k]
  <2> DEFINE own == Steps[i]
  <2>1. own \in DOMAIN node
    BY <1>2
  <2>2. /\ Copies(task, rec, node') /\ rec.st[own] = status
        /\ \A k \in DOMAIN node \ {own} : rec.st[k] = run[r].st[k]
    <3> HIDE DEF own
    <3> QED BY <1>1, <2>1, NodeWritten DEF own
  <2> QED BY <1>2, <2>2
<1>4. \A k \in KeysOf(task.graph) : StatusOk(task, rec, k)
  <2> SUFFICES ASSUME NEW k \in KeysOf(task.graph), k # Steps[i] PROVE StatusOk(task, rec, k)
    OBVIOUS
  <2> QED BY <1>1, <1>3 DEF Tells, StatusOk, AtNode
<1>5. PassOk(task, rec)
  <2>1. \A k \in KeysOf(task.graph) : Level(run[r].st[k]) <= Level(rec.st[k])
    BY <1>3, LevelRange
  <2> QED BY <1>1, <1>2, <1>3, <2>1, PassMoved DEF Tells
<1>6. Tells(task, rec)
  BY <1>2, <1>3, <1>4, <1>5 DEF Tells
<1> QED BY <1>1, <1>3, <1>6 DEF Alone, Looping, AtNode, Entry, Gone

(* A step at a node that goes on with it, or ends it.                       *)
LEMMA WorkOnANode ==
  ASSUME TaskInv, InputsInv, NEW r \in Runners, Alone(task, run[r], exec, node), AtNode(run[r].at),
         NEW rec, NEW status,
         \/ rec.st = run[r].st /\ rec.ver = run[r].ver /\ node' = node /\ status = run[r].st[run[r].key]
         \/ Writes(r, run[r].key, status, rec) /\ Level(status) = 3,
         rec.pass = run[r].pass, rec.pos = run[r].pos, rec.advanced = run[r].advanced,
         rec.failed \in BOOLEAN, run[r].failed => rec.failed,
         rec.at # "conclude", Looping(rec.at), AtNode(rec.at) => rec.key = run[r].key,
         rec.at \in {"handle", "record", "succeed", "fail"} => task.kind # "dry",
         status \in {"pending", "ready", "running", "succeeded", "failed", "skipped"},
         status = "failed" => rec.failed,
         status = "skipped" => task.kind = "executor" /\ TypeOf(task.graph, run[r].key) \notin HandledTypes,
         status = "running" => task.kind = "dry" \/ (AtNode(rec.at) /\ rec.at # "progress"),
         exec'.status = exec.status, ~IsWorker => rec.execVer = exec'.version
  PROVE  Alone(task, rec, exec', node')
<1> DEFINE own == run[r].key
<1>1. /\ ~Concluded(exec.status) /\ Copies(task, run[r], node) /\ Tells(task, run[r])
      /\ run[r].advanced
  <2>1. Looping(run[r].at) /\ run[r].at \notin {"loop", "conclude"}
    BY DEF Looping, AtNode
  <2>2. ~Concluded(exec.status) /\ Copies(task, run[r], node) /\ Tells(task, run[r])
    BY <2>1 DEF Alone
  <2> QED BY <2>1, <2>2 DEF Tells, PassOk
<1>2. /\ IsGraph(task.graph) /\ DOMAIN node = KeysOf(task.graph)
      /\ own \in KeysOf(task.graph) /\ Level(run[r].st[own]) >= 2
  BY <1>1 DEF TaskInv, Tells
<1>3. /\ Copies(task, rec, node') /\ rec.st[own] = status
      /\ \A k \in KeysOf(task.graph) \ {own} : rec.st[k] = run[r].st[k]
      /\ Level(run[r].st[own]) <= Level(status)
  <2>1. CASE rec.st = run[r].st /\ rec.ver = run[r].ver /\ node' = node /\ status = run[r].st[own]
    BY <1>1, <2>1, LevelRange DEF Copies
  <2>2. CASE Writes(r, own, status, rec) /\ Level(status) = 3
    <3>1. /\ Copies(task, rec, node') /\ rec.st[own] = status
          /\ \A k \in DOMAIN node \ {own} : rec.st[k] = run[r].st[k]
      BY <1>1, <1>2, <2>2, NodeWritten
    <3> QED BY <1>2, <2>2, <3>1, LevelRange
  <2> QED BY <2>1, <2>2
<1>4. \A k \in KeysOf(task.graph) : StatusOk(task, rec, k)
  <2>1. StatusOk(task, rec, own)
    BY <1>3 DEF StatusOk
  <2> SUFFICES ASSUME NEW k \in KeysOf(task.graph), k # own PROVE StatusOk(task, rec, k)
    BY <2>1
  <2>2. StatusOk(task, run[r], k) /\ rec.st[k] = run[r].st[k]
    BY <1>1, <1>3 DEF Tells
  <2> QED BY <2>2 DEF StatusOk
<1>5. PassOk(task, rec)
  <2>1. \A k \in KeysOf(task.graph) : Level(run[r].st[k]) <= Level(rec.st[k])
    BY <1>3, LevelRange
  <2> QED BY <1>1, <1>2, <2>1, PassKept DEF Tells
<1>6. Tells(task, rec)
  <2>1. AtNode(rec.at) => rec.key \in KeysOf(task.graph) /\ Level(rec.st[rec.key]) >= 2
    <3>1. Level(status) >= 2
      BY <1>2, <1>3, LevelRange
    <3> QED BY <1>2, <1>3, <3>1
  <2> QED BY <1>4, <1>5, <2>1 DEF Tells
<1> QED BY <1>1, <1>3, <1>6 DEF Alone, Looping, AtNode, Entry, Gone, IsWorker

(* Steps before, between and after the nodes.                               *)
LEMMA EntrySteps ==
  ASSUME TaskInv, InputsInv, RowsInv, NEW r \in Runners, Alone(task, run[r], exec, node),
         Begin(r) \/ MarkRunning(r) \/ LoadNodes(r)
  PROVE  Alone(task, run'[r], exec', node')
<1>0. /\ DOMAIN run = Runners /\ DOMAIN run[r] = RunnerFields
      /\ DOMAIN CountedExec(r) = RunnerFields /\ CountedExec(r).at = run[r].at
      /\ run[r].at \in Entry /\ Untouched(exec, node) /\ FreshRun(run[r])
  BY Fields DEF Begin, MarkRunning, LoadNodes, At, Alone, Entry
<1>1. CASE Begin(r)
  <2> DEFINE rec == [run[r] EXCEPT !.at = IF Concluded(exec.status) THEN "leave" ELSE "mark",
                                   !.execVer = exec.version]
  <2>1. run'[r] = rec /\ exec' = exec /\ node' = node
    BY <1>0, <1>1 DEF Begin, Set
  <2>2. ~Concluded(exec.status)
    BY <1>0 DEF Untouched, Concluded, Ended
  <2>3. rec.at = "mark" /\ rec.execVer = exec.version /\ FreshRun(rec)
    BY <1>0, <2>2 DEF RunnerFields, FreshRun
  <2> HIDE DEF rec
  <2> QED BY <1>0, <2>1, <2>3 DEF Alone, Entry, Looping, AtNode, Gone
<1>2. CASE MarkRunning(r)
  <2> DEFINE rec == [CountedExec(r) EXCEPT !.at = "load"]
  <2>1. run'[r] = rec /\ node' = node
    BY <1>0, <1>2 DEF MarkRunning, Set
  <2>2. rec.at = "load" /\ FreshRun(rec) /\ rec.execVer = run[r].execVer + 1
    BY <1>0 DEF CountedExec, RunnerFields, FreshRun
  <2>3. ~IsWorker => run[r].execVer = exec.version
    BY <1>2 DEF MarkRunning, At, Alone, Gone, IsWorker
  <2>4. exec'.status \in {"prepared", "running"} /\ (~IsWorker => exec'.version = run[r].execVer + 1)
    BY <1>0, <1>2, <2>3, ExecWritten DEF MarkRunning, Untouched, RowsInv
  <2> HIDE DEF rec
  <2> QED BY <1>0, <2>1, <2>2, <2>4 DEF Alone, Entry, Looping, AtNode, Gone, Untouched, IsWorker
<1>3. CASE LoadNodes(r)
  <2> DEFINE rec == [run[r] EXCEPT !.at = "loop", !.st = [k \in DOMAIN node |-> node[k].status],
                                   !.ver = [k \in DOMAIN node |-> node[k].version]]
  <2>1. run'[r] = rec /\ exec' = exec /\ node' = node
    BY <1>0, <1>3 DEF LoadNodes, Set
  <2>2. /\ rec.at = "loop" /\ FreshRun(rec) /\ rec.execVer = run[r].execVer
        /\ DOMAIN rec.st = DOMAIN node /\ DOMAIN rec.ver = DOMAIN node
        /\ \A k \in DOMAIN node : rec.st[k] = node[k].status /\ rec.ver[k] = node[k].version
    BY <1>0 DEF RunnerFields, FreshRun
  <2> HIDE DEF rec
  <2>3. /\ IsGraph(task.graph) /\ task.order = Order(task.graph) /\ DOMAIN node = KeysOf(task.graph)
        /\ Len(task.order) \in Nat
    BY OrderNamesEveryNode, KeysAreFinite DEF TaskInv
  <2>4. Tells(task, rec)
    <3>1. \A k \in KeysOf(task.graph) : rec.st[k] = "pending"
      BY <1>0, <2>2, <2>3 DEF Untouched
    <3>2. Cardinality(Moves(task.graph, rec.st)) \in Nat
      BY <2>3, MovesAreFinite
    <3>3. PassOk(task, rec)
      <4>1. rec.pass = 0 /\ rec.pos = 1 /\ rec.advanced = FALSE /\ rec.failed = FALSE /\ rec.at = "loop"
        BY <2>2 DEF FreshRun
      <4>2. rec.pos \in 1..(Len(task.order) + 1)
        BY <2>3, <4>1
      <4>3. rec.pass + (IF rec.advanced THEN 1 ELSE 0) <= Cardinality(Moves(task.graph, rec.st))
        BY <3>2, <4>1
      <4>4. rec.pass \in Nat
        BY <4>1
      <4>5. rec.advanced \in BOOLEAN /\ rec.failed \in BOOLEAN
        BY <4>1, Zenon
      <4> QED BY <4>1, <4>2, <4>3, <4>4, <4>5, Zenon DEF PassOk
    <3> QED BY <2>2, <3>1, <3>3 DEF Tells, StatusOk, AtNode
  <2>5. Copies(task, rec, node)
    BY <2>2 DEF Copies
  <2>6. ~Concluded(exec.status)
    BY <1>0 DEF Untouched, Concluded, Ended
  <2>7. task.kind # "worker" => rec.execVer = exec.version
    BY <1>3, <2>2 DEF LoadNodes, At, Alone, Gone
  <2> QED BY <2>1, <2>2, <2>4, <2>5, <2>6, <2>7 DEF Alone, Entry, Looping, AtNode, Gone
<1> QED BY <1>1, <1>2, <1>3

(* The end of a pass.  A node that is left can only wait for another that   *)
(* is left, so in a graph without cycles none is, unless one failed; and a  *)
(* last pass that still advanced moved the last node.                       *)
LEMMA WorkedOff ==
  ASSUME TaskInv, Valid(task.graph), InputsInv, NEW r \in Runners, At(r, "loop"), Ahead(r) = {},
         Copies(task, run[r], node), Tells(task, run[r]), run[r].failed = FALSE, AllHandled(task),
         run[r].advanced = FALSE
  PROVE  \A k \in KeysOf(task.graph) : run[r].st[k] = "succeeded"
<1> DEFINE g == task.graph
           st == run[r].st
           left == {k \in KeysOf(g) : st[k] = "pending"}
<1>1. /\ IsGraph(g) /\ Len(Steps) = Len(g.nodes) /\ Len(Steps) \in Nat /\ DOMAIN st = KeysOf(g)
      /\ \A k \in KeysOf(g) : \E n \in 1..Len(Steps) : Steps[n] = k
  <2>1. IsGraph(g) /\ task.order = Order(g) /\ DOMAIN node = KeysOf(g)
    BY DEF TaskInv
  <2>2. Len(g.nodes) \in Nat /\ Len(Order(g)) = Len(g.nodes)
    BY <2>1, KeysAreFinite, OrderNamesEveryNode
  <2>3. \A k \in KeysOf(g) : \E n \in 1..Len(g.nodes) : Order(g)[n] = k
    BY <2>1, OrderNamesEveryNode
  <2>4. DOMAIN st = DOMAIN node
    BY DEF Copies
  <2> QED BY <2>1, <2>2, <2>3, <2>4 DEF Steps
<1>2. run[r].pos = 1
  BY DEF Tells, PassOk, At
<1>3. ASSUME NEW k \in KeysOf(g) PROVE ~CanMove(r, k)
  <2>1. PICK n \in 1..Len(Steps) : Steps[n] = k
    BY <1>1
  <2> QED BY <1>2, <2>1 DEF Ahead
<1>4. ASSUME NEW k \in KeysOf(g), st[k] # "succeeded" PROVE st[k] = "pending" /\ ~IsReady(g, k, st)
  <2>1. StatusOk(task, run[r], k)
    BY <1>4 DEF Tells
  <2>2. st[k] # "running" /\ st[k] # "ready" /\ st[k] # "failed"
    BY <1>1, <1>3, <1>4, <2>1 DEF StatusOk, CanMove, At, AtNode
  <2>3. st[k] # "skipped"
    BY <1>4, <2>1 DEF StatusOk, AllHandled
  <2>4. st[k] = "pending"
    BY <1>4, <2>1, <2>2, <2>3 DEF StatusOk
  <2> QED BY <1>1, <1>3, <1>4, <2>4 DEF CanMove
<1>5. Cyclic(g, left)
  <2> SUFFICES ASSUME NEW k \in KeysOf(g), st[k] = "pending"
               PROVE  \E e \in Arcs(g) : e[2] = k /\ e[1] \in left
    BY DEF Cyclic
  <2>1. PICK p \in Predecessors(g, k) : ~(p \in DOMAIN st /\ st[p] = "succeeded")
    BY <1>4 DEF IsReady
  <2>2. PICK e \in Members(g.edges) : e[2] = k /\ e[1] = p
    BY <2>1 DEF Predecessors
  <2>3. e \in Arcs(g) /\ p \in KeysOf(g)
    BY <2>2 DEF Valid, Arcs
  <2>4. st[p] = "pending"
    BY <1>1, <1>4, <2>1, <2>3
  <2> QED BY <2>2, <2>3, <2>4
<1>6. left = {}
  <2>1. left \in SUBSET KeysOf(g)
    OBVIOUS
  <2> HIDE DEF left
  <2> QED BY <1>1, <1>5, <2>1, ValidIsAcyclic
<1> QED BY <1>4, <1>6

LEMMA LastPass ==
  ASSUME TaskInv, Valid(task.graph), NEW rec, Tells(task, rec), rec.failed = FALSE, AllHandled(task),
         rec.advanced = TRUE, ~(rec.pass + 1 < Passes)
  PROVE  \A k \in KeysOf(task.graph) : rec.st[k] = "succeeded"
<1> DEFINE g == task.graph
           N == Len(g.nodes)
           M == Cardinality(Moves(g, rec.st))
<1>1. IsGraph(g) /\ N \in Nat /\ Len(Steps) = N /\ g.nodes # <<>> /\ N # 0
  <2>1. IsGraph(g) /\ task.order = Order(g)
    BY DEF TaskInv
  <2>2. N \in Nat /\ Len(Order(g)) = N /\ g.nodes # <<>> /\ g.nodes \in Seq(Members(g.nodes))
    BY <2>1, KeysAreFinite, OrderNamesEveryNode DEF Valid, IsGraph
  <2>3. N # 0
    BY <2>2, EmptySeq
  <2> QED BY <2>1, <2>2, <2>3 DEF Steps
<1>2. M \in Nat /\ M <= 3 * N /\ (M = 3 * N => \A k \in KeysOf(g) : Level(rec.st[k]) = 3)
  BY <1>1, MovesAreFinite
<1>3. rec.pass \in Nat /\ rec.pass + 1 <= M
  BY DEF Tells, PassOk
<1>4. 3 * N <= Passes /\ Passes \in Nat
  <2>1. Passes = 3 * N \/ Passes = 4 * N
    BY <1>1 DEF Passes
  <2> HIDE DEF N
  <2> QED BY <1>1, <2>1
<1>5. M = 3 * N
  <2> HIDE DEF M, N
  <2> QED BY <1>1, <1>2, <1>3, <1>4
<1>6. ASSUME NEW k \in KeysOf(g) PROVE rec.st[k] = "succeeded"
  <2>1. Level(rec.st[k]) = 3 /\ StatusOk(task, rec, k)
    BY <1>2, <1>5, <1>6 DEF Tells
  <2> QED BY <2>1 DEF StatusOk, Level, AllHandled
<1> QED BY <1>6

LEMMA EndOfPass ==
  ASSUME TaskInv, Valid(task.graph), InputsInv, NEW r \in Runners,
         Alone(task, run[r], exec, node), EndPass(r)
  PROVE  Alone(task, run'[r], exec', node')
<1> DEFINE next == [run[r] EXCEPT !.pass = @ + 1, !.pos = 1, !.advanced = FALSE]
           end == [run[r] EXCEPT !.at = "conclude"]
           more == run[r].advanced /\ run[r].pass + 1 < Passes
<1>1. /\ exec' = exec /\ node' = node /\ run[r].at = "loop" /\ Ahead(r) = {}
      /\ run'[r] = IF more THEN next ELSE end
  BY Fields DEF EndPass, Set, At
<1>2. /\ ~Concluded(exec.status) /\ Copies(task, run[r], node) /\ Tells(task, run[r])
      /\ task.kind # "worker" => run[r].execVer = exec.version
  BY <1>1 DEF Alone, Looping, Gone
<1>3. PassOk(task, run[r]) /\ \A k \in KeysOf(task.graph) : StatusOk(task, run[r], k)
  BY <1>2 DEF Tells
<1>4. DOMAIN run[r] = RunnerFields
  BY Fields
<1>5. CASE more
  <2>1. /\ next.at = "loop" /\ next.st = run[r].st /\ next.ver = run[r].ver /\ next.failed = run[r].failed
        /\ next.pass = run[r].pass + 1 /\ next.pos = 1 /\ next.advanced = FALSE
        /\ next.execVer = run[r].execVer
    BY <1>1, <1>4 DEF RunnerFields
  <2> HIDE DEF next
  <2>2. \A k \in KeysOf(task.graph) : StatusOk(task, next, k)
    BY <1>1, <1>3, <2>1 DEF StatusOk, AtNode
  <2>3. PassOk(task, next)
    <3>1. Len(task.order) \in Nat
      BY OrderNamesEveryNode, KeysAreFinite DEF TaskInv
    <3>2. 1 \in 1..(Len(task.order) + 1)
      BY <3>1
    <3>3. run[r].pass + 1 <= Cardinality(Moves(task.graph, run[r].st)) /\ run[r].pass \in Nat
      BY <1>3, <1>5 DEF PassOk
    <3>4. next.pass + (IF next.advanced THEN 1 ELSE 0) <= Cardinality(Moves(task.graph, next.st))
      BY <2>1, <3>3
    <3>5. next.pass \in Nat
      BY <2>1, <3>3
    <3>6. next.advanced \in BOOLEAN /\ next.failed \in BOOLEAN
      BY <1>3, <2>1, Zenon DEF PassOk
    <3> QED BY <2>1, <3>2, <3>4, <3>5, <3>6, Zenon DEF PassOk
  <2>4. Tells(task, next) /\ Copies(task, next, node)
    BY <1>2, <2>1, <2>2, <2>3 DEF Tells, AtNode, Copies
  <2>5. run'[r] = next
    BY <1>1, <1>5
  <2> QED BY <1>1, <1>2, <2>1, <2>4, <2>5 DEF Alone, Entry, Gone, Looping, AtNode
<1>6. CASE ~more
  <2>1. /\ end.at = "conclude" /\ end.st = run[r].st /\ end.ver = run[r].ver /\ end.failed = run[r].failed
        /\ end.pass = run[r].pass /\ end.pos = run[r].pos /\ end.advanced = run[r].advanced
        /\ end.execVer = run[r].execVer
    BY <1>4 DEF RunnerFields
  <2> HIDE DEF end
  <2>2. \A k \in KeysOf(task.graph) : StatusOk(task, end, k)
    BY <1>1, <1>3, <2>1 DEF StatusOk, AtNode
  <2>3. PassOk(task, end)
    BY <1>3, <2>1 DEF PassOk
  <2>4. ASSUME ~end.failed, AllHandled(task)
        PROVE  \A k \in KeysOf(task.graph) : run[r].st[k] = "succeeded"
    <3>1. run[r].failed = FALSE /\ run[r].advanced \in BOOLEAN
      BY <1>3, <2>1, <2>4 DEF PassOk
    <3>2. CASE run[r].advanced = FALSE
      BY <1>1, <1>2, <2>4, <3>1, <3>2, WorkedOff DEF At
    <3>3. CASE run[r].advanced = TRUE
      BY <1>2, <1>6, <2>4, <3>1, <3>3, LastPass
    <3> QED BY <3>1, <3>2, <3>3
  <2>5. Tells(task, end) /\ Copies(task, end, node)
    BY <1>2, <2>1, <2>2, <2>3, <2>4 DEF Tells, AtNode, Copies
  <2>6. run'[r] = end
    BY <1>1, <1>6
  <2> QED BY <1>1, <1>2, <2>1, <2>5, <2>6 DEF Alone, Entry, Gone, Looping, AtNode
<1> QED BY <1>5, <1>6

(* The steps at a node, one after the other.                                *)
LEMMA NodeFields ==
  ASSUME InputsInv, NEW r \in Runners
  PROVE  /\ DOMAIN run = Runners
         /\ \A n, s : LET rec == CountedNode(r, n, s) IN
              /\ DOMAIN rec = RunnerFields /\ rec.at = run[r].at /\ rec.key = run[r].key
              /\ rec.pass = run[r].pass /\ rec.pos = run[r].pos /\ rec.advanced = run[r].advanced
              /\ rec.failed = run[r].failed /\ rec.execVer = run[r].execVer
         /\ LET rec == CountedExec(r) IN
              /\ DOMAIN rec = RunnerFields /\ rec.at = run[r].at /\ rec.key = run[r].key
              /\ rec.st = run[r].st /\ rec.ver = run[r].ver
              /\ rec.pass = run[r].pass /\ rec.pos = run[r].pos /\ rec.advanced = run[r].advanced
              /\ rec.failed = run[r].failed /\ rec.execVer = run[r].execVer + 1
BY DEF InputsInv, RunnerOk, CountedExec, CountedNode, RunnerFields

(* What is known of a runner at a node, and of one in the loop.             *)
LEMMA AtANode ==
  ASSUME NEW r \in Runners, Alone(task, run[r], exec, node), Looping(run[r].at)
  PROVE  /\ run[r].failed \in BOOLEAN /\ \A k \in KeysOf(task.graph) : StatusOk(task, run[r], k)
         /\ AtNode(run[r].at) => run[r].key \in KeysOf(task.graph) /\ Level(run[r].st[run[r].key]) >= 2
         /\ run[r].at \in {"handle", "record", "succeed", "fail"} => task.kind # "dry"
         /\ ~IsWorker => run[r].execVer = exec.version
         /\ ~Concluded(exec.status)
<1>1. run[r].at \notin Gone \union {"begin"}
  BY DEF Looping, AtNode, Gone
<1> QED BY <1>1 DEF Alone, Tells, PassOk, IsWorker

LEMMA MoveSteps ==
  ASSUME TaskInv, InputsInv, NEW r \in Runners, Alone(task, run[r], exec, node),
         MakeReady(r) \/ StartNode(r) \/ DryFinish(r)
  PROVE  Alone(task, run'[r], exec', node')
<1>0. /\ DOMAIN run = Runners /\ run[r].at = "loop" /\ run[r].failed \in BOOLEAN /\ exec' = exec
  BY AtANode, Fields DEF MakeReady, StartNode, DryFinish, Visits, At, Looping
<1>1. CASE MakeReady(r)
  <2>1. PICK i \in DOMAIN Steps : /\ Visits(r, i) /\ run[r].st[Steps[i]] = "pending"
                                  /\ WriteNode(r, Steps[i], "ready")
                                  /\ Set(r, Moved(CountedNode(r, Steps[i], "ready"), i))
    BY <1>1 DEF MakeReady
  <2> DEFINE counted == CountedNode(r, Steps[i], "ready")
             rec == Moved(counted, i)
  <2>2. /\ DOMAIN counted = RunnerFields /\ counted.at = "loop" /\ counted.pass = run[r].pass
        /\ counted.failed = run[r].failed /\ counted.execVer = run[r].execVer
    BY <1>0, NodeFields
  <2> HIDE DEF counted
  <2>3. /\ rec.st = counted.st /\ rec.ver = counted.ver /\ rec.pass = run[r].pass /\ rec.pos = i + 1
        /\ rec.advanced = TRUE /\ rec.failed = run[r].failed /\ rec.at = "loop"
        /\ rec.execVer = run[r].execVer
    BY <2>2 DEF Moved, RunnerFields
  <2>4. run'[r] = rec
    BY <1>0, <2>1 DEF Set, counted
  <2> HIDE DEF rec
  <2>5. rec.st[Steps[i]] = "ready"
    <3>1. Steps[i] \in DOMAIN run[r].st
      BY <2>1, VisitedOk
    <3> QED BY <2>3, <3>1, Fields DEF counted, CountedNode, RunnerFields
  <2>6. Writes(r, Steps[i], "ready", rec)
    BY <2>1, <2>3 DEF Writes, counted
  <2>7. StatusOk(task, rec, Steps[i])
    BY <2>5 DEF StatusOk
  <2>8. Level(run[r].st[Steps[i]]) < Level("ready")
    BY <2>1 DEF Level
  <2> QED BY <1>0, <2>1, <2>3, <2>4, <2>6, <2>7, <2>8, TurnOfANode DEF Looping, AtNode
<1>2. CASE StartNode(r)
  <2>1. PICK i \in DOMAIN Steps : /\ Visits(r, i) /\ run[r].st[Steps[i]] = "ready"
                                  /\ WriteNode(r, Steps[i], "running")
                                  /\ Set(r, [Moved(CountedNode(r, Steps[i], "running"), i)
                                               EXCEPT !.at = "note", !.key = Steps[i]])
    BY <1>2 DEF StartNode
  <2> DEFINE counted == CountedNode(r, Steps[i], "running")
             rec == [Moved(counted, i) EXCEPT !.at = "note", !.key = Steps[i]]
  <2>2. /\ DOMAIN counted = RunnerFields /\ counted.at = "loop" /\ counted.pass = run[r].pass
        /\ counted.failed = run[r].failed /\ counted.execVer = run[r].execVer
    BY <1>0, NodeFields
  <2> HIDE DEF counted
  <2>3. /\ rec.st = counted.st /\ rec.ver = counted.ver /\ rec.pass = run[r].pass /\ rec.pos = i + 1
        /\ rec.advanced = TRUE /\ rec.failed = run[r].failed /\ rec.at = "note" /\ rec.key = Steps[i]
        /\ rec.execVer = run[r].execVer
    BY <2>2 DEF Moved, RunnerFields
  <2>4. run'[r] = rec
    BY <1>0, <2>1 DEF Set, counted
  <2> HIDE DEF rec
  <2>5. rec.st[Steps[i]] = "running"
    <3>1. Steps[i] \in DOMAIN run[r].st
      BY <2>1, VisitedOk
    <3> QED BY <2>3, <3>1, Fields DEF counted, CountedNode, RunnerFields
  <2>6. Writes(r, Steps[i], "running", rec)
    BY <2>1, <2>3 DEF Writes, counted
  <2>7. StatusOk(task, rec, Steps[i])
    BY <2>3, <2>5 DEF StatusOk, AtNode
  <2>8. Level(run[r].st[Steps[i]]) < Level("running") /\ Level("running") >= 2
    BY <2>1 DEF Level
  <2> QED BY <1>0, <2>1, <2>3, <2>4, <2>6, <2>7, <2>8, TurnOfANode DEF Looping, AtNode
<1>3. CASE DryFinish(r)
  <2>1. PICK i \in DOMAIN Steps, outcome \in {"succeeded", "failed"}, failed \in BOOLEAN :
          /\ Visits(r, i) /\ run[r].st[Steps[i]] = "running" /\ WriteNode(r, Steps[i], outcome)
          /\ run[r].failed => failed
          /\ outcome = "failed" => failed
          /\ Set(r, [Moved(CountedNode(r, Steps[i], outcome), i)
                       EXCEPT !.at = "progress", !.key = Steps[i], !.failed = failed])
    <3>1. PICK i \in DOMAIN Steps :
            /\ Visits(r, i) /\ run[r].st[Steps[i]] = "running"
            /\ \/ /\ WriteNode(r, Steps[i], "succeeded")
                  /\ Set(r, [Moved(CountedNode(r, Steps[i], "succeeded"), i)
                               EXCEPT !.at = "progress", !.key = Steps[i]])
               \/ /\ WriteNode(r, Steps[i], "failed")
                  /\ Set(r, [Moved(CountedNode(r, Steps[i], "failed"), i)
                               EXCEPT !.at = "progress", !.key = Steps[i], !.failed = TRUE])
      BY <1>3 DEF DryFinish
    <3>2. CASE Set(r, [Moved(CountedNode(r, Steps[i], "succeeded"), i)
                               EXCEPT !.at = "progress", !.key = Steps[i]])
               /\ WriteNode(r, Steps[i], "succeeded")
      <4> DEFINE counted == CountedNode(r, Steps[i], "succeeded")
      <4>1. DOMAIN counted = RunnerFields /\ counted.failed = run[r].failed
        BY NodeFields
      <4> HIDE DEF counted
      <4>2. [Moved(counted, i) EXCEPT !.at = "progress", !.key = Steps[i]]
              = [Moved(counted, i) EXCEPT !.at = "progress", !.key = Steps[i], !.failed = run[r].failed]
        BY <4>1 DEF Moved, RunnerFields
      <4> QED BY <1>0, <3>1, <3>2, <4>2 DEF counted
    <3> QED BY <3>1, <3>2
  <2> DEFINE counted == CountedNode(r, Steps[i], outcome)
             rec == [Moved(counted, i) EXCEPT !.at = "progress", !.key = Steps[i], !.failed = failed]
  <2>2. /\ DOMAIN counted = RunnerFields /\ counted.at = "loop" /\ counted.pass = run[r].pass
        /\ counted.execVer = run[r].execVer
    BY <1>0, NodeFields
  <2> HIDE DEF counted
  <2>3. /\ rec.st = counted.st /\ rec.ver = counted.ver /\ rec.pass = run[r].pass /\ rec.pos = i + 1
        /\ rec.advanced = TRUE /\ rec.failed = failed /\ rec.at = "progress" /\ rec.key = Steps[i]
        /\ rec.execVer = run[r].execVer
    BY <2>2 DEF Moved, RunnerFields
  <2>4. run'[r] = rec
    BY <1>0, <2>1 DEF Set, counted
  <2> HIDE DEF rec
  <2>5. rec.st[Steps[i]] = outcome
    <3>1. Steps[i] \in DOMAIN run[r].st
      BY <2>1, VisitedOk
    <3> QED BY <2>3, <3>1, Fields DEF counted, CountedNode, RunnerFields
  <2>6. Writes(r, Steps[i], outcome, rec)
    BY <2>1, <2>3 DEF Writes, counted
  <2>7. StatusOk(task, rec, Steps[i])
    BY <2>1, <2>3, <2>5 DEF StatusOk
  <2>8. Level(run[r].st[Steps[i]]) < Level(outcome) /\ Level(outcome) >= 2
    BY <2>1 DEF Level
  <2> QED BY <1>0, <2>1, <2>3, <2>4, <2>6, <2>7, <2>8, TurnOfANode DEF Looping, AtNode
<1> QED BY <1>1, <1>2, <1>3

(* A step at a node without a write to its row.                             *)
LEMMA QuietWork ==
  ASSUME TaskInv, InputsInv, NEW r \in Runners, Alone(task, run[r], exec, node), AtNode(run[r].at),
         node' = node, NEW rec, run'[r] = rec, rec.st = run[r].st, rec.ver = run[r].ver,
         rec.pass = run[r].pass, rec.pos = run[r].pos, rec.advanced = run[r].advanced,
         rec.failed = run[r].failed, rec.at # "conclude", Looping(rec.at),
         AtNode(rec.at) => rec.key = run[r].key,
         rec.at \in {"handle", "record", "succeed", "fail"} => task.kind # "dry",
         rec.at \in {"loop", "progress"} => task.kind = "dry" \/ run[r].at = "progress",
         exec'.status = exec.status, ~IsWorker => rec.execVer = exec'.version
  PROVE  Alone(task, run'[r], exec', node')
<1> DEFINE own == run[r].key
           status == run[r].st[own]
<1>1. StatusOk(task, run[r], own) /\ run[r].failed \in BOOLEAN
  BY AtANode DEF Looping
<1>2. /\ status \in {"pending", "ready", "running", "succeeded", "failed", "skipped"}
      /\ status = "failed" => rec.failed
      /\ status = "skipped" => task.kind = "executor" /\ TypeOf(task.graph, own) \notin HandledTypes
      /\ status = "running" => task.kind = "dry" \/ run[r].at # "progress"
  BY <1>1 DEF StatusOk
<1>3. status = "running" => task.kind = "dry" \/ (AtNode(rec.at) /\ rec.at # "progress")
  BY <1>2 DEF Looping
<1>4. rec.failed \in BOOLEAN /\ (run[r].failed => rec.failed)
  BY <1>1
<1> HIDE DEF status
<1>5. status = run[r].st[run[r].key]
  BY DEF status
<1> QED BY <1>2, <1>3, <1>4, <1>5, WorkOnANode

(* A step at a node that writes the outcome to its row.                     *)
LEMMA Outcome ==
  ASSUME TaskInv, InputsInv, NEW r \in Runners, Alone(task, run[r], exec, node), AtNode(run[r].at),
         NEW status \in {"succeeded", "failed", "skipped"}, NEW rec, run'[r] = rec,
         Writes(r, run[r].key, status, rec),
         rec.pass = run[r].pass, rec.pos = run[r].pos, rec.advanced = run[r].advanced,
         rec.failed \in BOOLEAN, run[r].failed => rec.failed, status = "failed" => rec.failed,
         rec.at \in {"progress", "loop"}, AtNode(rec.at) => rec.key = run[r].key,
         status = "skipped" => task.kind = "executor" /\ TypeOf(task.graph, run[r].key) \notin HandledTypes,
         exec' = exec, rec.execVer = run[r].execVer
  PROVE  Alone(task, run'[r], exec', node')
<1>1. ~IsWorker => rec.execVer = exec'.version
  BY AtANode DEF Looping
<1>2. Level(status) = 3 /\ rec.at # "conclude" /\ Looping(rec.at)
  BY DEF Level, Looping, AtNode
<1> QED BY <1>1, <1>2, WorkOnANode

LEMMA WorkSteps ==
  ASSUME TaskInv, InputsInv, RowsInv, NEW r \in Runners, Alone(task, run[r], exec, node),
         \/ NoteNode(r) \/ Handle(r) \/ SkipNode(r) \/ RecordArtifact(r) \/ NodeSucceeds(r)
         \/ NodeFails(r) \/ SuccessLost(r) \/ WriteProgress(r)
  PROVE  Alone(task, run'[r], exec', node')
<1>0. /\ DOMAIN run = Runners /\ DOMAIN run[r] = RunnerFields /\ AtNode(run[r].at)
  BY Fields DEF NoteNode, Handle, SkipNode, RecordArtifact, NodeSucceeds, NodeFails, SuccessLost,
                WriteProgress, At, AtNode
<1>1. /\ run[r].failed \in BOOLEAN /\ (~IsWorker => run[r].execVer = exec.version)
      /\ run[r].at \in {"handle", "record", "succeed", "fail"} => task.kind # "dry"
  BY <1>0, AtANode DEF Looping
<1>2. ASSUME WriteExec(r, exec.status)
      PROVE  exec'.status = exec.status /\ (~IsWorker => exec'.version = run[r].execVer + 1)
  BY <1>1, <1>2, ExecWritten
<1> DEFINE noted == CountedExec(r)
<1>3. /\ DOMAIN noted = RunnerFields /\ noted.key = run[r].key
      /\ noted.st = run[r].st /\ noted.ver = run[r].ver
      /\ noted.pass = run[r].pass /\ noted.pos = run[r].pos /\ noted.advanced = run[r].advanced
      /\ noted.failed = run[r].failed /\ noted.execVer = run[r].execVer + 1
  BY NodeFields
<1> HIDE DEF noted
<1>4. CASE NoteNode(r) \/ WriteProgress(r)
  <2>1. /\ node' = node /\ WriteExec(r, exec.status)
    BY <1>4 DEF NoteNode, WriteProgress
  <2>2. CASE /\ run'[r] = [noted EXCEPT !.at = "loop", !.key = NoOne]
             /\ task.kind = "dry" \/ run[r].at = "progress"
    <3> DEFINE rec == [noted EXCEPT !.at = "loop", !.key = NoOne]
    <3>1. /\ rec.at = "loop" /\ rec.st = run[r].st /\ rec.ver = run[r].ver
          /\ rec.pass = run[r].pass /\ rec.pos = run[r].pos /\ rec.advanced = run[r].advanced
          /\ rec.failed = run[r].failed /\ rec.execVer = run[r].execVer + 1
      BY <1>3 DEF RunnerFields
    <3> HIDE DEF rec
    <3>2. run'[r] = rec
      BY <2>2 DEF rec
    <3> QED BY <1>0, <1>2, <2>1, <2>2, <3>1, <3>2, QuietWork DEF Looping, AtNode
  <2>3. CASE run'[r] = [noted EXCEPT !.at = "handle"] /\ task.kind # "dry"
    <3> DEFINE rec == [noted EXCEPT !.at = "handle"]
    <3>1. /\ rec.at = "handle" /\ rec.key = run[r].key /\ rec.st = run[r].st /\ rec.ver = run[r].ver
          /\ rec.pass = run[r].pass /\ rec.pos = run[r].pos /\ rec.advanced = run[r].advanced
          /\ rec.failed = run[r].failed /\ rec.execVer = run[r].execVer + 1
      BY <1>3 DEF RunnerFields
    <3> HIDE DEF rec
    <3>2. run'[r] = rec
      BY <2>3 DEF rec
    <3> QED BY <1>0, <1>2, <2>1, <2>3, <3>1, <3>2, QuietWork DEF Looping, AtNode
  <2> QED BY <1>0, <1>4, <2>2, <2>3 DEF NoteNode, WriteProgress, Set, At, noted
<1>5. CASE Handle(r) \/ RecordArtifact(r) \/ SuccessLost(r)
  <2>1. /\ node' = node /\ exec' = exec /\ task.kind # "dry"
        /\ \E at \in {"record", "succeed", "fail"} :
             \/ run'[r] = [run[r] EXCEPT !.at = at]
             \/ run'[r] = [run[r] EXCEPT !.at = at, !.made = @ \union {run[r].key}]
    BY <1>0, <1>1, <1>5 DEF Handle, RecordArtifact, SuccessLost, Set, At
  <2> DEFINE rec == run'[r]
  <2>2. /\ rec.at \in {"record", "succeed", "fail"} /\ rec.key = run[r].key
        /\ rec.st = run[r].st /\ rec.ver = run[r].ver
        /\ rec.pass = run[r].pass /\ rec.pos = run[r].pos /\ rec.advanced = run[r].advanced
        /\ rec.failed = run[r].failed /\ rec.execVer = run[r].execVer
    BY <1>0, <2>1 DEF RunnerFields
  <2>3. Looping(rec.at) /\ rec.at # "conclude" /\ rec.at \notin {"loop", "progress"}
    BY <2>2 DEF Looping, AtNode
  <2> QED BY <1>0, <1>1, <2>1, <2>2, <2>3, QuietWork
<1>6. CASE SkipNode(r)
  <2> DEFINE counted == CountedNode(r, run[r].key, "skipped")
             rec == [counted EXCEPT !.at = "loop", !.key = NoOne]
  <2>1. /\ DOMAIN counted = RunnerFields /\ counted.pass = run[r].pass /\ counted.pos = run[r].pos
        /\ counted.advanced = run[r].advanced /\ counted.failed = run[r].failed
        /\ counted.execVer = run[r].execVer
    BY NodeFields
  <2> HIDE DEF counted
  <2>2. /\ rec.st = counted.st /\ rec.ver = counted.ver /\ rec.pass = run[r].pass /\ rec.pos = run[r].pos
        /\ rec.advanced = run[r].advanced /\ rec.failed = run[r].failed /\ rec.at = "loop"
        /\ rec.execVer = run[r].execVer
    BY <2>1 DEF RunnerFields
  <2>3. run'[r] = rec
    BY <1>0, <1>6 DEF SkipNode, Set, counted
  <2> HIDE DEF rec
  <2>4. Writes(r, run[r].key, "skipped", rec)
    BY <1>6, <2>2 DEF SkipNode, Writes, counted
  <2>5. task.kind = "executor" /\ TypeOf(task.graph, run[r].key) \notin HandledTypes /\ exec' = exec
    BY <1>1, <1>6 DEF SkipNode, At, Type, IsWorker, TaskInv
  <2> QED BY <1>0, <1>1, <2>2, <2>3, <2>4, <2>5, Outcome DEF AtNode
<1>7. CASE NodeSucceeds(r)
  <2> DEFINE counted == CountedNode(r, run[r].key, "succeeded")
             rec == [counted EXCEPT !.at = "progress"]
  <2>1. /\ DOMAIN counted = RunnerFields /\ counted.pass = run[r].pass /\ counted.pos = run[r].pos
        /\ counted.advanced = run[r].advanced /\ counted.failed = run[r].failed
        /\ counted.execVer = run[r].execVer /\ counted.key = run[r].key
    BY NodeFields
  <2> HIDE DEF counted
  <2>2. /\ rec.st = counted.st /\ rec.ver = counted.ver /\ rec.pass = run[r].pass /\ rec.pos = run[r].pos
        /\ rec.advanced = run[r].advanced /\ rec.failed = run[r].failed /\ rec.at = "progress"
        /\ rec.execVer = run[r].execVer /\ rec.key = run[r].key
    BY <2>1 DEF RunnerFields
  <2>3. run'[r] = rec /\ exec' = exec
    BY <1>0, <1>7 DEF NodeSucceeds, Set, counted
  <2> HIDE DEF rec
  <2>4. Writes(r, run[r].key, "succeeded", rec)
    BY <1>7, <2>2 DEF NodeSucceeds, Writes, counted
  <2> QED BY <1>0, <1>1, <2>2, <2>3, <2>4, Outcome
<1>8. CASE NodeFails(r)
  <2> DEFINE counted == CountedNode(r, run[r].key, "failed")
             rec == [counted EXCEPT !.at = "progress", !.failed = TRUE]
  <2>1. /\ DOMAIN counted = RunnerFields /\ counted.pass = run[r].pass /\ counted.pos = run[r].pos
        /\ counted.advanced = run[r].advanced
        /\ counted.execVer = run[r].execVer /\ counted.key = run[r].key
    BY NodeFields
  <2> HIDE DEF counted
  <2>2. /\ rec.st = counted.st /\ rec.ver = counted.ver /\ rec.pass = run[r].pass /\ rec.pos = run[r].pos
        /\ rec.advanced = run[r].advanced /\ rec.failed = TRUE /\ rec.at = "progress"
        /\ rec.execVer = run[r].execVer /\ rec.key = run[r].key
    BY <2>1 DEF RunnerFields
  <2>3. run'[r] = rec /\ exec' = exec
    BY <1>0, <1>8 DEF NodeFails, Set, counted
  <2> HIDE DEF rec
  <2>4. Writes(r, run[r].key, "failed", rec)
    BY <1>8, <2>2 DEF NodeFails, Writes, counted
  <2> QED BY <1>0, <1>1, <2>2, <2>3, <2>4, Outcome
<1> QED BY <1>4, <1>5, <1>6, <1>7, <1>8

(* The end, and the ways out.                                               *)
LEMMA EndSteps ==
  ASSUME TaskInv, InputsInv, RowsInv, NEW r \in Runners, Alone(task, run[r], exec, node),
         Conclude(r) \/ Leave(r) \/ Abort(r) \/ Crash(r)
  PROVE  Alone(task, run'[r], exec', node')
<1>0. DOMAIN run = Runners
  BY Fields
<1>1. CASE Conclude(r)
  <2>1. /\ run'[r].at = "leave" /\ node' = node /\ run[r].at = "conclude"
        /\ WriteExec(r, IF run[r].failed THEN "failed" ELSE "succeeded")
    BY <1>0, <1>1, Fields DEF Conclude, Set, At, RunnerFields
  <2>2. Copies(task, run[r], node) /\ Tells(task, run[r]) /\ (~IsWorker => run[r].execVer = exec.version)
    BY <2>1 DEF Alone, Looping, Gone, IsWorker
  <2>3. exec'.status = IF run[r].failed THEN "failed" ELSE "succeeded"
    BY <2>1, <2>2, ExecWritten
  <2>4. Complete(task, exec', node')
    <3> SUFFICES ASSUME ~run[r].failed, AllHandled(task), NEW k \in DOMAIN node
                 PROVE  node[k].status = "succeeded"
      BY <2>1, <2>3 DEF Complete
    <3> QED BY <2>1, <2>2 DEF Tells, Copies, TaskInv
  <2> QED BY <2>1, <2>4 DEF Alone, Looping, AtNode, Entry, Gone
<1>2. CASE Leave(r) \/ Abort(r) \/ Crash(r)
  <2>1. /\ run'[r].at \in {"left", "dead"} /\ exec' = exec /\ node' = node
    BY <1>0, <1>2 DEF Leave, Abort, Crash, Set, Idle
  <2>2. Complete(task, exec, node)
    <3>1. CASE run[r].at \in Entry
      BY <3>1 DEF Alone, Untouched, Complete
    <3>2. CASE Looping(run[r].at)
      BY <3>2 DEF Alone, Complete, Concluded, Ended
    <3>3. CASE run[r].at \in Gone
      BY <3>3 DEF Alone
    <3> QED BY <3>1, <3>2, <3>3 DEF Alone
  <2> QED BY <2>1, <2>2 DEF Alone, Looping, AtNode, Entry, Gone
<1> QED BY <1>1, <1>2

(* A runner that takes part goes on taking part. *)
LEMMA RunnerGoesOn ==
  ASSUME InputsInv, NEW r \in Runners, RunnerStep(r) \/ SuccessLost(r) \/ Abort(r) \/ Crash(r)
  PROVE  /\ run[r].at # "idle" \/ Crash(r)
         /\ run'[r].at # "idle" /\ \A s \in Runners \ {r} : run'[s] = run[s]
<1>0. DOMAIN run = Runners /\ DOMAIN run[r] = RunnerFields
  BY Fields
<1>1. ASSUME NEW rec, Set(r, rec), rec.at # "idle"
      PROVE  run'[r].at # "idle" /\ \A s \in Runners \ {r} : run'[s] = run[s]
  BY <1>0, <1>1 DEF Set
<1>2. CASE Leave(r) \/ Abort(r) \/ Crash(r)
  <2>1. \E at \in {"left", "dead"} : Set(r, [Idle EXCEPT !.at = at])
    BY <1>2 DEF Leave, Abort, Crash
  <2>2. \A at : [Idle EXCEPT !.at = at].at = at
    BY DEF Idle
  <2>3. run[r].at # "idle" \/ Crash(r)
    BY <1>2 DEF Leave, Abort, At
  <2> QED BY <1>1, <2>1, <2>2, <2>3
<1>3. CASE Begin(r) \/ LoadNodes(r) \/ Handle(r) \/ RecordArtifact(r) \/ SuccessLost(r)
  <2>1. /\ run[r].at # "idle" /\ run'[r].at # "idle"
    BY <1>0, <1>3 DEF Begin, LoadNodes, Handle, RecordArtifact, SuccessLost, Set, At, RunnerFields
  <2>2. \A s \in Runners \ {r} : run'[s] = run[s]
    BY <1>0, <1>3 DEF Begin, LoadNodes, Handle, RecordArtifact, SuccessLost, Set
  <2> QED BY <2>1, <2>2
<1> DEFINE noted == CountedExec(r)
<1>4. CASE MarkRunning(r) \/ NoteNode(r) \/ WriteProgress(r) \/ Conclude(r)
  <2>1. DOMAIN noted = RunnerFields
    BY Fields
  <2> HIDE DEF noted
  <2>2. /\ [noted EXCEPT !.at = "load"].at = "load" /\ [noted EXCEPT !.at = "leave"].at = "leave"
        /\ [noted EXCEPT !.at = "loop", !.key = NoOne].at = "loop"
        /\ [noted EXCEPT !.at = "handle"].at = "handle"
    BY <2>1 DEF RunnerFields
  <2>3. \E rec : Set(r, rec) /\ rec.at # "idle"
    BY <1>4, <2>2 DEF MarkRunning, NoteNode, WriteProgress, Conclude, noted
  <2>4. run[r].at # "idle"
    BY <1>4 DEF MarkRunning, NoteNode, WriteProgress, Conclude, At
  <2> QED BY <1>1, <2>3, <2>4
<1>5. CASE EndPass(r)
  <2>1. run[r].at = "loop" /\ run'[r].at # "idle"
    BY <1>0, <1>5 DEF EndPass, Set, At, RunnerFields
  <2>2. \A s \in Runners \ {r} : run'[s] = run[s]
    BY <1>0, <1>5 DEF EndPass, Set
  <2> QED BY <2>1, <2>2
<1>6. CASE MakeReady(r) \/ StartNode(r) \/ DryFinish(r)
  <2>1. PICK i \in DOMAIN Steps, s \in {"ready", "running", "succeeded", "failed"} :
          /\ Visits(r, i)
          /\ \/ Set(r, Moved(CountedNode(r, Steps[i], s), i))
             \/ Set(r, [Moved(CountedNode(r, Steps[i], s), i) EXCEPT !.at = "note", !.key = Steps[i]])
             \/ Set(r, [Moved(CountedNode(r, Steps[i], s), i) EXCEPT !.at = "progress", !.key = Steps[i]])
             \/ Set(r, [Moved(CountedNode(r, Steps[i], s), i)
                          EXCEPT !.at = "progress", !.key = Steps[i], !.failed = TRUE])
    BY <1>6 DEF MakeReady, StartNode, DryFinish
  <2> DEFINE counted == CountedNode(r, Steps[i], s)
  <2>2. DOMAIN counted = RunnerFields /\ counted.at = run[r].at
    BY NodeFields
  <2>3. run[r].at = "loop"
    BY <2>1 DEF Visits, At
  <2> HIDE DEF counted
  <2>4. /\ Moved(counted, i).at = "loop"
        /\ [Moved(counted, i) EXCEPT !.at = "note", !.key = Steps[i]].at = "note"
        /\ [Moved(counted, i) EXCEPT !.at = "progress", !.key = Steps[i]].at = "progress"
        /\ [Moved(counted, i) EXCEPT !.at = "progress", !.key = Steps[i], !.failed = TRUE].at = "progress"
    BY <2>2, <2>3 DEF Moved, RunnerFields
  <2>5. \E rec : Set(r, rec) /\ rec.at # "idle"
    BY <2>1, <2>4 DEF counted
  <2> QED BY <1>1, <2>3, <2>5
<1>7. CASE SkipNode(r) \/ NodeSucceeds(r) \/ NodeFails(r)
  <2>1. PICK s \in {"skipped", "succeeded", "failed"} :
          \/ Set(r, [CountedNode(r, run[r].key, s) EXCEPT !.at = "loop", !.key = NoOne])
          \/ Set(r, [CountedNode(r, run[r].key, s) EXCEPT !.at = "progress"])
          \/ Set(r, [CountedNode(r, run[r].key, s) EXCEPT !.at = "progress", !.failed = TRUE])
    BY <1>7 DEF SkipNode, NodeSucceeds, NodeFails
  <2> DEFINE counted == CountedNode(r, run[r].key, s)
  <2>2. DOMAIN counted = RunnerFields
    BY NodeFields
  <2>3. run[r].at # "idle"
    BY <1>7 DEF SkipNode, NodeSucceeds, NodeFails, At
  <2> HIDE DEF counted
  <2>4. /\ [counted EXCEPT !.at = "loop", !.key = NoOne].at = "loop"
        /\ [counted EXCEPT !.at = "progress"].at = "progress"
        /\ [counted EXCEPT !.at = "progress", !.failed = TRUE].at = "progress"
    BY <2>2 DEF RunnerFields
  <2>5. \E rec : Set(r, rec) /\ rec.at # "idle"
    BY <2>1, <2>4 DEF counted
  <2> QED BY <1>1, <2>3, <2>5
<1> QED BY <1>2, <1>3, <1>4, <1>5, <1>6, <1>7 DEF RunnerStep

LEMMA NewRunner ==
  ASSUME InputsInv, NEW r \in Runners, Take(r) \/ Call(r)
  PROVE  /\ run'[r] = [Idle EXCEPT !.at = "begin"] /\ \A s \in Runners \ {r} : run'[s] = run[s]
         /\ Engaged' = Engaged \union {r} /\ r \notin Engaged
<1>1. run'[r] = [Idle EXCEPT !.at = "begin"] /\ \A s \in Runners \ {r} : run'[s] = run[s]
  BY DEF Take, Call, Set, InputsInv
<1>2. [Idle EXCEPT !.at = "begin"].at = "begin"
  BY DEF Idle
<1> QED BY <1>1, <1>2 DEF Engaged, Take, Call, At

LEMMA EngagedStays ==
  ASSUME InputsInv, DeliveriesInv, NEW r \in Runners,
         RunnerStep(r) \/ SuccessLost(r) \/ Abort(r) \/ Crash(r)
  PROVE  r \in Engaged /\ Engaged' = Engaged /\ \A s \in Runners \ {r} : run'[s] = run[s]
<1>1. r \in Engaged
  BY RunnerGoesOn, WorkflowsAssumption DEF Engaged, Crash, DeliveriesInv
<1> QED BY <1>1, RunnerGoesOn DEF Engaged

LEMMA DeliveriesInit == Init => DeliveriesInv
<1> SUFFICES ASSUME Init PROVE DeliveriesInv
  OBVIOUS
<1>1. PICK t \in Tasks : ExecutionInit(t)
  BY StartedExecution
<1>2. Engaged = {}
  BY <1>1 DEF ExecutionInit, Idle, Engaged
<1> QED BY <1>1, <1>2, FS_EmptySet DEF ExecutionInit, DeliveriesInv

(* The item names no one who did not take it. *)
LEMMA ItemHolder ==
  ASSUME ItemInv, NEW r \in Runners, RunnerStep(r) \/ SuccessLost(r) \/ Abort(r) \/ Crash(r) \/ Stall(r)
  PROVE  item'.by \in {item.by, NoOne} /\ item'.deliveries = item.deliveries
<1>0. DOMAIN item = {"state", "by", "deliveries"}
  BY DEF ItemInv
<1>1. CASE Leave(r) \/ Abort(r) \/ Crash(r) \/ Stall(r)
  BY <1>0, <1>1 DEF Leave, Abort, Crash, Stall, LetGo, Redeliver
<1>2. CASE item' = item
  BY <1>2
<1>3. CASE Begin(r) \/ MarkRunning(r) \/ LoadNodes(r) \/ EndPass(r) \/ NoteNode(r)
             \/ WriteProgress(r) \/ Conclude(r) \/ Handle(r) \/ RecordArtifact(r) \/ SuccessLost(r)
  BY <1>2, <1>3 DEF Begin, MarkRunning, LoadNodes, EndPass, NoteNode, WriteProgress, Conclude,
                    Handle, RecordArtifact, SuccessLost
<1>4. CASE MakeReady(r) \/ StartNode(r) \/ SkipNode(r) \/ NodeSucceeds(r) \/ NodeFails(r) \/ DryFinish(r)
  BY <1>2, <1>4 DEF MakeReady, StartNode, SkipNode, NodeSucceeds, NodeFails, DryFinish
<1> QED BY <1>1, <1>3, <1>4 DEF RunnerStep

LEMMA DeliveriesKept == InputsInv /\ ItemInv /\ DeliveriesInv /\ [Next]_workflowVars => DeliveriesInv'
<1> SUFFICES ASSUME InputsInv, ItemInv, DeliveriesInv, [Next]_workflowVars PROVE DeliveriesInv'
  OBVIOUS
<1>0. task' = task /\ DOMAIN item = {"state", "by", "deliveries"} /\ item.deliveries \in Nat
  BY TaskStays DEF ItemInv
<1>1. ASSUME NEW r \in Runners, Take(r) \/ Call(r) PROVE DeliveriesInv'
  <2>1. Engaged' = Engaged \union {r}
    BY <1>1, NewRunner
  <2>2. IsFiniteSet(Engaged')
    <3>1. IsFiniteSet(Engaged)
      BY DEF DeliveriesInv
    <3> QED BY <2>1, <3>1, FS_AddElement
  <2>3. CASE Take(r)
    <3>1. item'.by = r /\ item'.deliveries = item.deliveries + 1
      BY <1>0, <2>3 DEF Take
    <3>2. item'.deliveries <= 1 => Engaged = {}
      BY <1>0, <2>3, <3>1 DEF Take, DeliveriesInv
    <3> QED BY <1>0, <2>1, <2>2, <3>1, <3>2 DEF DeliveriesInv
  <2>4. CASE Call(r)
    <3>1. item' = item /\ ~IsWorker
      BY <2>4 DEF Call
    <3> QED BY <1>0, <2>1, <2>2, <3>1 DEF DeliveriesInv, IsWorker
  <2> QED BY <1>1, <2>3, <2>4
<1>2. ASSUME NEW r \in Runners, RunnerStep(r) \/ SuccessLost(r) \/ Abort(r) \/ Crash(r) PROVE DeliveriesInv'
  <2>1. Engaged' = Engaged
    BY <1>2, EngagedStays
  <2>2. item'.by \in {item.by, NoOne} /\ item'.deliveries = item.deliveries
    BY <1>2, ItemHolder
  <2> QED BY <1>0, <2>1, <2>2 DEF DeliveriesInv, IsWorker
<1>3. ASSUME NEW r \in Runners, Stall(r) PROVE DeliveriesInv'
  <2>1. item'.by \in {item.by, NoOne} /\ item'.deliveries = item.deliveries
    BY <1>3, ItemHolder
  <2> QED BY <1>0, <1>3, <2>1 DEF Stall, DeliveriesInv, IsWorker, Engaged
<1>4. ASSUME NEW q \in Requesters, Enqueue(q) \/ Cancel(q) \/ Retry(q) PROVE DeliveriesInv'
  <2>1. item'.by = item.by /\ item'.deliveries = item.deliveries /\ run' = run
    BY <1>0, <1>4 DEF Enqueue, Added, Cancel, Retry
  <2> QED BY <1>0, <2>1 DEF DeliveriesInv, IsWorker, Engaged
<1>5. CASE UNCHANGED executionVars
  BY <1>5 DEF executionVars, DeliveriesInv, IsWorker, Engaged
<1> QED BY <1>1, <1>2, <1>3, <1>4, <1>5
        DEF Next, VersionsStep, RoutingStep, ExecutionStep, ExecutionNext, workflowVars

LEMMA DeliveriesCorrect == Spec => []DeliveriesInv
BY DeliveriesInit, DeliveriesKept, RecordsCorrect, PTL DEF Spec

(* Who is alone after a step was alone before it. *)
LEMMA SoloBefore ==
  ASSUME InputsInv, ItemInv, DeliveriesInv, DeliveriesInv', [Next]_workflowVars, Solo'
  PROVE  Solo /\ \A r, s \in Engaged' : r = s
<1>0. task' = task /\ item.deliveries \in Nat /\ item'.deliveries \in Nat
  <2>1. ItemInv'
    BY ItemKept
  <2> QED BY <2>1, TaskStays DEF ItemInv
<1>1. Uncancelled /\ item.deliveries <= item'.deliveries
  BY StepsForward DEF Solo
<1>2. CASE IsWorker
  BY <1>0, <1>1, <1>2 DEF Solo, OneDelivery, IsWorker, DeliveriesInv
<1>3. CASE ~IsWorker
  <2>1. Cardinality(Engaged') <= 1 /\ IsFiniteSet(Engaged')
    BY <1>0, <1>3 DEF DeliveriesInv, Solo, OneDelivery, Engaged, IsWorker
  <2>2. Engaged \in SUBSET Engaged'
    <3>1. ASSUME NEW r \in Runners, Take(r) \/ Call(r) PROVE Engaged \in SUBSET Engaged'
      BY <3>1, NewRunner
    <3>2. ASSUME NEW r \in Runners, RunnerStep(r) \/ SuccessLost(r) \/ Abort(r) \/ Crash(r)
          PROVE  Engaged \in SUBSET Engaged'
      BY <3>2, EngagedStays
    <3>3. CASE run' = run
      BY <3>3 DEF Engaged
    <3> QED BY <3>1, <3>2, <3>3
            DEF Next, VersionsStep, RoutingStep, ExecutionStep, ExecutionNext, workflowVars, executionVars,
                Stall, Enqueue, Cancel, Retry
  <2>3. Cardinality(Engaged) <= Cardinality(Engaged') /\ Cardinality(Engaged) \in Nat
        /\ Cardinality(Engaged') \in Nat
    BY <2>1, <2>2, FS_Subset, FS_CardinalityType
  <2>4. Cardinality(Engaged) <= 1
    BY <2>1, <2>3
  <2> QED BY <1>1, <1>3, <2>1, <2>4, AtMostOne DEF Solo, OneDelivery, Engaged
<1> QED BY <1>2, <1>3

LEMMA AloneInit == Init => AloneInv
<1> SUFFICES ASSUME Init PROVE AloneInv
  OBVIOUS
<1>1. PICK t \in Tasks : ExecutionInit(t)
  BY StartedExecution
<1>2. Engaged = {} /\ Untouched(exec, node)
  BY <1>1 DEF ExecutionInit, Idle, Engaged, Untouched
<1> QED BY <1>2 DEF AloneInv

LEMMA AloneKept ==
  TaskInv /\ InputsInv /\ ItemInv /\ RowsInv /\ DeliveriesInv /\ AloneInv /\ [Next]_workflowVars => AloneInv'
<1> SUFFICES ASSUME TaskInv, InputsInv, ItemInv, RowsInv, DeliveriesInv, AloneInv, [Next]_workflowVars, Solo'
             PROVE  /\ Engaged' = {} => Untouched(exec', node')
                    /\ \A r \in Engaged' : Alone(task', run'[r], exec', node')
  BY DEF AloneInv
<1>0. task' = task /\ Solo /\ \A r, s \in Engaged' : r = s
  BY TaskStays, DeliveriesKept, SoloBefore
<1>1. ASSUME NEW r \in Runners, Take(r) \/ Call(r), exec' = exec, node' = node
      PROVE  \A s \in Engaged' : Alone(task', run'[s], exec', node')
  <2>1. /\ run'[r] = [Idle EXCEPT !.at = "begin"] /\ Engaged' = Engaged \union {r} /\ r \notin Engaged
    BY <1>1, NewRunner
  <2>2. Engaged = {} /\ \A s \in Engaged' : s = r
    BY <1>0, <2>1
  <2>3. Untouched(exec, node)
    BY <1>0, <2>2 DEF AloneInv
  <2>4. run'[r].at = "begin" /\ FreshRun(run'[r])
    BY <2>1 DEF Idle, FreshRun
  <2> QED BY <1>0, <1>1, <2>2, <2>3, <2>4 DEF Alone, Entry, Gone, Looping, AtNode
<1>2. ASSUME NEW r \in Runners, RunnerStep(r) \/ SuccessLost(r) \/ Abort(r) \/ Crash(r), part = "executions"
      PROVE  r \in Engaged' /\ \A s \in Engaged' : Alone(task', run'[s], exec', node')
  <2>1. r \in Engaged /\ Engaged' = Engaged
    BY <1>2, EngagedStays
  <2>2. Alone(task, run[r], exec, node) /\ Valid(task.graph)
    BY <1>0, <1>2, <2>1 DEF AloneInv, TaskInv
  <2>3. Alone(task, run'[r], exec', node')
    BY <1>2, <2>2, EntrySteps, EndOfPass, MoveSteps, WorkSteps, EndSteps DEF RunnerStep
  <2> QED BY <1>0, <2>1, <2>3
<1>3. ASSUME run' = run, exec' = exec, node' = node
      PROVE  /\ Engaged' = {} => Untouched(exec', node')
             /\ \A r \in Engaged' : Alone(task', run'[r], exec', node')
  BY <1>0, <1>3 DEF AloneInv, Engaged
<1>4. Uncancelled
  BY <1>0 DEF Solo
<1>5. ASSUME NEW r \in Runners, Take(r) \/ Call(r)
      PROVE  exec' = exec /\ node' = node /\ Engaged' # {}
  BY <1>5, NewRunner DEF Take, Call
<1> QED BY <1>1, <1>2, <1>3, <1>4, <1>5, OnlyEnqueues
        DEF Next, VersionsStep, RoutingStep, ExecutionStep, ExecutionNext, workflowVars, executionVars,
            Stall, Enqueue

LEMMA AloneCorrect == Spec => []AloneInv
BY AloneInit, AloneKept, RecordsCorrect, DeliveriesCorrect, PTL DEF Spec

(* Which steps of a runner write what into the rows of the nodes. *)
LEMMA StatusesWritten ==
  ASSUME InputsInv, NEW r \in Runners, NEW k \in DOMAIN node,
         RunnerStep(r) \/ SuccessLost(r) \/ Abort(r) \/ Crash(r) \/ Stall(r) \/ Take(r) \/ Call(r)
  PROVE  /\ node'[k].status = "running" => node[k].status = "running" \/ StartNode(r)
         /\ node'[k].status = "succeeded" =>
              node[k].status = "succeeded" \/ DryFinish(r) \/ (NodeSucceeds(r) /\ run[r].key = k)
<1>1. ASSUME NEW n, NEW s, WriteNode(r, n, s)
      PROVE  node'[k].status = node[k].status \/ (k = n /\ node'[k].status = s)
  BY <1>1 DEF WriteNode, InputsInv, RowOk
<1>2. CASE Begin(r) \/ MarkRunning(r) \/ LoadNodes(r) \/ EndPass(r) \/ NoteNode(r) \/ Handle(r)
             \/ RecordArtifact(r) \/ WriteProgress(r) \/ Conclude(r) \/ Leave(r)
  BY <1>2 DEF Begin, MarkRunning, LoadNodes, EndPass, NoteNode, Handle, RecordArtifact,
              WriteProgress, Conclude, Leave
<1>3. CASE SuccessLost(r) \/ Abort(r) \/ Crash(r) \/ Stall(r) \/ Take(r) \/ Call(r)
  BY <1>3 DEF SuccessLost, Abort, Crash, Stall, Take, Call
<1>4. CASE MakeReady(r) \/ SkipNode(r) \/ NodeFails(r)
  <2>1. \E n : \E s \in {"ready", "skipped", "failed"} : WriteNode(r, n, s)
    BY <1>4 DEF MakeReady, SkipNode, NodeFails
  <2> QED BY <1>1, <2>1
<1>5. CASE NodeSucceeds(r)
  BY <1>1, <1>5 DEF NodeSucceeds
<1>6. CASE DryFinish(r)
  <2>1. \E n : \E s \in {"succeeded", "failed"} : WriteNode(r, n, s)
    BY <1>6 DEF DryFinish
  <2> QED BY <1>1, <1>6, <2>1
<1>7. CASE StartNode(r)
  <2>1. \E n : WriteNode(r, n, "running")
    BY <1>7 DEF StartNode
  <2> QED BY <1>1, <1>7, <2>1
<1> QED BY <1>2, <1>3, <1>4, <1>5, <1>6, <1>7 DEF RunnerStep

(* After a node failed no other node is started, in one delivery: the run   *)
(* remembers the failure (failed = true in the catch of each executor).     *)
THEOREM FailureStopsCorrect == Spec => FailureStopsTheRun
<1> DEFINE Stops == (\E k \in DOMAIN node : node[k].status = "failed") /\ OneDelivery /\ Uncancelled
                      => \A k \in DOMAIN node : node'[k].status = "running" => node[k].status = "running"
<1>1. TaskInv /\ InputsInv /\ AloneInv /\ [Next]_workflowVars => Stops
  <2> SUFFICES ASSUME TaskInv, InputsInv, AloneInv, [Next]_workflowVars, Solo,
                      NEW n \in DOMAIN node, node[n].status = "failed",
                      NEW k \in DOMAIN node, node'[k].status = "running", node[k].status # "running"
               PROVE  FALSE
    BY DEF Solo
  <2>1. ASSUME NEW r \in Runners, StartNode(r) PROVE FALSE
    <3>1. PICK i \in DOMAIN Steps : Visits(r, i) /\ run[r].st[Steps[i]] = "ready"
      BY <2>1 DEF StartNode
    <3>2. run[r].at = "loop" /\ CanMove(r, Steps[i])
      BY <3>1 DEF Visits, At, Ahead
    <3>3. ~run[r].failed
      BY <3>1, <3>2 DEF CanMove
    <3>4. Alone(task, run[r], exec, node)
      BY <3>2 DEF AloneInv, Engaged
    <3>5. Copies(task, run[r], node) /\ Tells(task, run[r])
      BY <3>2, <3>4 DEF Alone, Looping, AtNode
    <3>6. StatusOk(task, run[r], n) /\ run[r].st[n] = "failed"
      BY <3>5 DEF Tells, Copies, TaskInv
    <3> QED BY <3>3, <3>6 DEF StatusOk
  <2>2. CASE node' = node
    BY <2>2
  <2>3. Uncancelled
    BY DEF Solo
  <2> QED BY <2>1, <2>2, <2>3, StatusesWritten, OnlyEnqueues
          DEF Next, VersionsStep, RoutingStep, ExecutionStep, ExecutionNext, workflowVars, executionVars,
              Enqueue
<1>2. Stops => [Stops]_executionVars
  OBVIOUS
<1> QED BY <1>1, <1>2, RecordsCorrect, AloneCorrect, PTL DEF Spec, FailureStopsTheRun

(* The artifact is recorded before the node is marked as succeeded. *)
Owed == {k \in DOMAIN node : task.kind # "dry" /\ WithEvidence(Type(k))}
EvidenceInv ==
  /\ \A k \in Owed : node[k].status = "succeeded" => k \in evidence
  /\ \A r \in Runners : run[r].at = "succeed" /\ run[r].key \in Owed => run[r].key \in evidence

LEMMA EvidenceInit == Init => EvidenceInv
<1> SUFFICES ASSUME Init PROVE EvidenceInv
  OBVIOUS
<1>1. PICK t \in Tasks : ExecutionInit(t)
  BY StartedExecution
<1> QED BY <1>1 DEF ExecutionInit, EvidenceInv, Owed, Idle

LEMMA EvidenceGrows ==
  ASSUME [Next]_workflowVars
  PROVE  evidence \subseteq evidence'
<1>1. ASSUME NEW r \in Runners, RunnerStep(r) PROVE evidence \subseteq evidence'
  <2>1. CASE Begin(r) \/ MarkRunning(r) \/ LoadNodes(r) \/ EndPass(r) \/ NoteNode(r) \/ Handle(r)
               \/ RecordArtifact(r) \/ WriteProgress(r) \/ Conclude(r) \/ Leave(r)
    BY <2>1 DEF Begin, MarkRunning, LoadNodes, EndPass, NoteNode, Handle, RecordArtifact,
                WriteProgress, Conclude, Leave
  <2>2. CASE MakeReady(r) \/ StartNode(r) \/ SkipNode(r) \/ NodeSucceeds(r) \/ NodeFails(r) \/ DryFinish(r)
    BY <2>2 DEF MakeReady, StartNode, SkipNode, NodeSucceeds, NodeFails, DryFinish
  <2> QED BY <1>1, <2>1, <2>2 DEF RunnerStep
<1>2. ASSUME NEW r \in Runners, SuccessLost(r) \/ Abort(r) \/ Crash(r) \/ Stall(r) \/ Take(r) \/ Call(r)
      PROVE  evidence' = evidence
  BY <1>2 DEF SuccessLost, Abort, Crash, Stall, Take, Call
<1> QED BY <1>1, <1>2 DEF Next, VersionsStep, RoutingStep, ExecutionStep, ExecutionNext, workflowVars,
                          executionVars, Enqueue, Cancel, Retry

(* Who comes to mark a success has just recorded the artifact. *)
LEMMA ComesToSucceed ==
  ASSUME InputsInv, NEW r \in Runners, run'[r].at = "succeed",
         RunnerStep(r) \/ SuccessLost(r) \/ Abort(r) \/ Crash(r) \/ Stall(r) \/ Take(r) \/ Call(r)
  PROVE  run'[r] = run[r] \/ RecordArtifact(r)
<1>0. /\ DOMAIN run = Runners /\ DOMAIN run[r] = RunnerFields /\ DOMAIN CountedExec(r) = RunnerFields
      /\ CountedExec(r).at = run[r].at
  BY Fields
<1>1. CASE Begin(r) \/ LoadNodes(r) \/ Handle(r) \/ SuccessLost(r) \/ Stall(r)
  BY <1>0, <1>1 DEF Begin, LoadNodes, Handle, SuccessLost, Stall, Set, RunnerFields
<1>2. CASE Leave(r) \/ Abort(r) \/ Crash(r) \/ Take(r) \/ Call(r)
  BY <1>0, <1>2 DEF Leave, Abort, Crash, Take, Call, Set, Idle
<1>3. CASE MarkRunning(r) \/ NoteNode(r) \/ WriteProgress(r) \/ Conclude(r)
  BY <1>0, <1>3 DEF MarkRunning, NoteNode, WriteProgress, Conclude, Set, RunnerFields
<1>4. CASE EndPass(r)
  BY <1>0, <1>4 DEF EndPass, Set, RunnerFields, At
<1>5. CASE MakeReady(r) \/ StartNode(r) \/ DryFinish(r)
  <2>1. PICK i \in DOMAIN Steps, s \in {"ready", "running", "succeeded", "failed"} :
          /\ Visits(r, i)
          /\ \/ Set(r, Moved(CountedNode(r, Steps[i], s), i))
             \/ Set(r, [Moved(CountedNode(r, Steps[i], s), i) EXCEPT !.at = "note", !.key = Steps[i]])
             \/ Set(r, [Moved(CountedNode(r, Steps[i], s), i) EXCEPT !.at = "progress", !.key = Steps[i]])
             \/ Set(r, [Moved(CountedNode(r, Steps[i], s), i)
                          EXCEPT !.at = "progress", !.key = Steps[i], !.failed = TRUE])
    BY <1>5 DEF MakeReady, StartNode, DryFinish
  <2> DEFINE counted == CountedNode(r, Steps[i], s)
  <2>2. DOMAIN counted = RunnerFields /\ counted.at = "loop"
    BY <2>1, NodeFields DEF Visits, At
  <2> HIDE DEF counted
  <2>3. /\ Moved(counted, i).at = "loop"
        /\ [Moved(counted, i) EXCEPT !.at = "note", !.key = Steps[i]].at = "note"
        /\ [Moved(counted, i) EXCEPT !.at = "progress", !.key = Steps[i]].at = "progress"
        /\ [Moved(counted, i) EXCEPT !.at = "progress", !.key = Steps[i], !.failed = TRUE].at = "progress"
    BY <2>2 DEF Moved, RunnerFields
  <2>4. \E rec : Set(r, rec) /\ rec.at \in {"loop", "note", "progress"}
    BY <2>1, <2>3 DEF counted
  <2> QED BY <1>0, <2>4 DEF Set
<1>6. CASE SkipNode(r) \/ NodeSucceeds(r) \/ NodeFails(r)
  <2>1. PICK s \in {"skipped", "succeeded", "failed"} :
          \/ Set(r, [CountedNode(r, run[r].key, s) EXCEPT !.at = "loop", !.key = NoOne])
          \/ Set(r, [CountedNode(r, run[r].key, s) EXCEPT !.at = "progress"])
          \/ Set(r, [CountedNode(r, run[r].key, s) EXCEPT !.at = "progress", !.failed = TRUE])
    BY <1>6 DEF SkipNode, NodeSucceeds, NodeFails
  <2> DEFINE counted == CountedNode(r, run[r].key, s)
  <2>2. DOMAIN counted = RunnerFields
    BY NodeFields
  <2> HIDE DEF counted
  <2>3. /\ [counted EXCEPT !.at = "loop", !.key = NoOne].at = "loop"
        /\ [counted EXCEPT !.at = "progress"].at = "progress"
        /\ [counted EXCEPT !.at = "progress", !.failed = TRUE].at = "progress"
    BY <2>2 DEF RunnerFields
  <2>4. \E rec : Set(r, rec) /\ rec.at \in {"loop", "progress"}
    BY <2>1, <2>3 DEF counted
  <2> QED BY <1>0, <2>4 DEF Set
<1> QED BY <1>1, <1>2, <1>3, <1>4, <1>5, <1>6 DEF RunnerStep

LEMMA EvidenceKept == TaskInv /\ InputsInv /\ EvidenceInv /\ [Next]_workflowVars => EvidenceInv'
<1> SUFFICES ASSUME TaskInv, InputsInv, EvidenceInv, [Next]_workflowVars PROVE EvidenceInv'
  OBVIOUS
<1>0. evidence \subseteq evidence' /\ Owed' = Owed /\ Owed \subseteq DOMAIN node
  <2>1. \A k : WithEvidence(Type(k))' <=> WithEvidence(Type(k))
    BY TaskStays DEF Type, WithEvidence, IsWorker
  <2> QED BY <2>1, TaskStays, EvidenceGrows DEF Owed
<1>1. ASSUME \A k \in DOMAIN node : node'[k].status = "succeeded" => node[k].status = "succeeded",
             run' = run
      PROVE  EvidenceInv'
  BY <1>0, <1>1 DEF EvidenceInv
<1>2. ASSUME NEW r \in Runners,
             RunnerStep(r) \/ SuccessLost(r) \/ Abort(r) \/ Crash(r) \/ Stall(r) \/ Take(r) \/ Call(r)
      PROVE  EvidenceInv'
  <2>1. \A s \in Runners \ {r} : run'[s] = run[s]
    BY <1>2, RunnerGoesOn, NewRunner DEF Stall
  <2>2. ASSUME run'[r].at = "succeed", run'[r].key \in Owed PROVE run'[r].key \in evidence'
    <3>1. CASE run'[r] = run[r]
      BY <1>0, <2>2, <3>1 DEF EvidenceInv
    <3>2. CASE RecordArtifact(r)
      <4>1. run'[r].key = run[r].key
        BY <3>2, Fields DEF RecordArtifact, Set, RunnerFields
      <4>2. WithEvidence(Type(run[r].key))
        BY <2>2, <4>1 DEF Owed
      <4> QED BY <2>2, <3>2, <4>1, <4>2, Fields DEF RecordArtifact, Set, RunnerFields
    <3> QED BY <1>2, <2>2, <3>1, <3>2, ComesToSucceed
  <2>3. ASSUME NEW k \in Owed, node'[k].status = "succeeded" PROVE k \in evidence'
    <3>1. CASE node[k].status = "succeeded"
      BY <1>0, <3>1 DEF EvidenceInv
    <3>2. CASE DryFinish(r)
      <4>1. PICK i \in DOMAIN Steps : Visits(r, i) /\ run[r].st[Steps[i]] = "running"
        BY <3>2 DEF DryFinish
      <4>2. CanMove(r, Steps[i])
        BY <4>1 DEF Visits, Ahead
      <4> QED BY <2>3, <4>1, <4>2 DEF CanMove, Owed
    <3>3. CASE NodeSucceeds(r) /\ run[r].key = k
      BY <1>0, <2>3, <3>3 DEF NodeSucceeds, At, EvidenceInv
    <3> QED BY <1>0, <1>2, <2>3, <3>1, <3>2, <3>3, StatusesWritten
  <2> QED BY <1>0, <2>1, <2>2, <2>3 DEF EvidenceInv
<1>3. ASSUME NEW q \in Requesters, Enqueue(q) \/ Cancel(q) \/ Retry(q) PROVE EvidenceInv'
  <2>1. run' = run
    BY <1>3 DEF Enqueue, Cancel, Retry
  <2>2. \A k \in DOMAIN node : node'[k].status = "succeeded" => node[k].status = "succeeded"
    <3>0. \A k \in DOMAIN node : DOMAIN node[k] = {"status", "version", "attempt"}
      BY DEF InputsInv, RowOk
    <3>1. CASE node' = node
      BY <3>1
    <3>2. CASE \E row \in asked[q].rows :
                 node' = [node EXCEPT ![row.key].status = "cancelled", ![row.key].version = @ + 1]
      <4>1. PICK n : node' = [node EXCEPT ![n].status = "cancelled", ![n].version = @ + 1]
        BY <3>2
      <4>2. \A k \in DOMAIN node : k # n => node'[k] = node[k]
        BY <4>1
      <4>3. n \in DOMAIN node => node'[n].status = "cancelled"
        BY <3>0, <4>1
      <4> QED BY <4>2, <4>3
    <3>3. CASE \E row \in asked[q].rows :
                 node' = [node EXCEPT ![row.key] = [status |-> "ready", version |-> row.version + 1,
                                                    attempt |-> row.attempt + 1]]
      BY <3>3
    <3> QED BY <1>3, <3>1, <3>2, <3>3 DEF Enqueue, Cancel, CancelExecution, Retry, RetryNode
  <2> QED BY <1>1, <2>1, <2>2
<1>4. CASE UNCHANGED executionVars
  BY <1>1, <1>4 DEF executionVars
<1> QED BY <1>2, <1>3, <1>4 DEF Next, VersionsStep, RoutingStep, ExecutionStep, ExecutionNext, workflowVars

(* A run that reports success has worked off every node of its graph, and   *)
(* no node counts as succeeded without its artifact (the loops of           *)
(* shadow-workflow.ts, shadow-executor.ts and dry-executor.ts).             *)
THEOREM SucceededCorrect == Spec => []SucceededIsEvident
<1>1. Spec => []EvidenceInv
  BY EvidenceInit, EvidenceKept, RecordsCorrect, PTL DEF Spec
<1>2. TaskInv /\ AloneInv => SucceededIsComplete
  <2> SUFFICES ASSUME TaskInv, AloneInv, exec.status = "succeeded", Solo,
                      task.kind = "executor" => \A k \in DOMAIN node : Type(k) \in HandledTypes,
                      NEW k \in DOMAIN node
               PROVE  node[k].status = "succeeded"
    BY DEF SucceededIsComplete, Solo
  <2>1. AllHandled(task)
    BY DEF AllHandled, Type, TaskInv
  <2>2. PICK r \in Engaged : Alone(task, run[r], exec, node)
    BY DEF AloneInv, Untouched
  <2>3. run[r].at \in Gone
    BY <2>2 DEF Alone, Untouched, Concluded, Ended
  <2> QED BY <2>1, <2>2, <2>3 DEF Alone, Complete
<1>3. EvidenceInv => SucceededHasEvidence
  BY DEF EvidenceInv, Owed, SucceededHasEvidence
<1> QED BY <1>1, <1>2, <1>3, RecordsCorrect, AloneCorrect, PTL DEF SucceededIsEvident

-----------------------------------------------------------------------------
(* The versions.  Their rows are written one by one from the graph that was *)
(* validated, and every author has an id of its own.                        *)
IsSeq(s) == s \in Seq(Members(s))
IsNodes(s) == IsSeq(s) /\ \A n \in Members(s) : n.at \in Int
Prefix(s, t) == Len(s) <= Len(t) /\ \A i \in 1..Len(s) : s[i] = t[i]

LEMMA SeqFacts ==
  ASSUME NEW s, IsSeq(s)
  PROVE  /\ Len(s) \in Nat /\ DOMAIN s = 1..Len(s) /\ \A i \in 1..Len(s) : s[i] \in Members(s)
         /\ \A m \in Members(s) : \E i \in 1..Len(s) : s[i] = m
<1>1. s \in Seq(Members(s))
  BY DEF IsSeq
<1>2. Len(s) \in Nat /\ DOMAIN s = 1..Len(s)
  BY <1>1, LenProperties
<1> QED BY <1>2 DEF Members

LEMMA EmptyIsSeq == IsNodes(<<>>) /\ IsSeq(<<>>) /\ \A t : IsSeq(t) => Prefix(<<>>, t)
<1>1. <<>> \in Seq(Members(<<>>)) /\ Len(<<>>) = 0
  BY EmptySeq
<1>2. \A i \in 1..Len(<<>>) : FALSE
  BY <1>1
<1>3. IsSeq(<<>>) /\ \A m \in Members(<<>>) : FALSE
  <2>1. IsSeq(<<>>)
    BY <1>1 DEF IsSeq
  <2> QED BY <1>2, <2>1, SeqFacts
<1>4. \A t : IsSeq(t) => Len(t) \in Nat
  BY SeqFacts
<1> QED BY <1>1, <1>2, <1>3, <1>4 DEF IsNodes, Prefix

LEMMA Appended ==
  ASSUME NEW s, IsSeq(s), NEW x
  PROVE  /\ IsSeq(Append(s, x)) /\ Len(Append(s, x)) = Len(s) + 1
         /\ Members(Append(s, x)) = Members(s) \union {x}
         /\ \A i \in 1..Len(s) : Append(s, x)[i] = s[i]
         /\ Append(s, x)[Len(s) + 1] = x
<1> DEFINE T == Members(s) \union {x}
           a == Append(s, x)
<1>0. s \in Seq(Members(s)) /\ Len(s) \in Nat /\ DOMAIN s = 1..Len(s)
  BY SeqFacts DEF IsSeq
<1>1. s \in Seq(T)
  BY <1>0, SeqMonotonic
<1>2. /\ a \in Seq(T) /\ Len(a) = Len(s) + 1
      /\ \A i \in 1..Len(s) : a[i] = s[i]
      /\ a[Len(s) + 1] = x
  BY <1>0, <1>1
<1>3. DOMAIN a = 1..(Len(s) + 1)
  BY <1>2, LenProperties
<1> HIDE DEF a
<1>4. Members(a) = T
  BY <1>0, <1>2, <1>3 DEF Members
<1> QED BY <1>2, <1>4 DEF IsSeq, a

LEMMA PrefixGrows ==
  ASSUME NEW s, NEW t, IsSeq(s), IsSeq(t), Prefix(s, t), Len(s) < Len(t)
  PROVE  LET x == t[Len(s) + 1] IN
         IsSeq(Append(s, x)) /\ Prefix(Append(s, x), t) /\ x \in Members(t)
           /\ Members(Append(s, x)) = Members(s) \union {x}
<1> DEFINE x == t[Len(s) + 1]
<1>1. Len(s) \in Nat /\ Len(t) \in Nat
  BY SeqFacts
<1>2. Len(s) + 1 \in 1..Len(t) /\ Len(s) + 1 <= Len(t)
  BY <1>1
<1>3. x \in Members(t)
  BY <1>2, SeqFacts
<1>4. /\ IsSeq(Append(s, x)) /\ Len(Append(s, x)) = Len(s) + 1
      /\ Members(Append(s, x)) = Members(s) \union {x}
      /\ \A i \in 1..Len(s) : Append(s, x)[i] = s[i]
      /\ Append(s, x)[Len(s) + 1] = x
  <2> HIDE DEF x
  <2> QED BY Appended
<1>5. \A i \in 1..(Len(s) + 1) : i \in 1..Len(s) \/ i = Len(s) + 1
  BY <1>1
<1>6. Prefix(Append(s, x), t)
  BY <1>2, <1>4, <1>5 DEF Prefix
<1> QED BY <1>3, <1>4, <1>6

LEMMA PrefixWhole ==
  ASSUME NEW s, NEW t, IsSeq(s), IsSeq(t), Prefix(s, t), Len(s) = Len(t)
  PROVE  s = t
<1> DEFINE T == Members(s) \union Members(t)
<1>1. s \in Seq(T) /\ t \in Seq(T)
  BY SeqMonotonic DEF IsSeq
<1> QED BY <1>1, SeqEqual DEF Prefix

LEMMA ValidByRows ==
  ASSUME NEW g, NEW h, g.nodes = h.nodes, g.edges = h.edges
  PROVE  Valid(g) <=> Valid(h)
<1>1. KeysOf(g) = KeysOf(h) /\ \A t : KeysOfType(g, t) = KeysOfType(h, t)
  BY DEF KeysOf, KeysOfType
<1>2. Arcs(g) = Arcs(h)
  BY <1>1 DEF Arcs
<1>3. Kahn(g) = Kahn(h) /\ Reached(g) = Reached(h)
  BY <1>1, <1>2 DEF Kahn, Reached
<1>4. CyclicNodes(g) = CyclicNodes(h) /\ Unreachable(g) = Unreachable(h)
  BY <1>1, <1>3 DEF CyclicNodes, Unreachable
<1> QED BY <1>1, <1>2, <1>4 DEF Valid

LEMMA GraphsRows == \A g : IsGraph(g) => IsNodes(g.nodes) /\ IsSeq(g.edges)
BY DEF IsGraph, IsNodes, IsSeq

-----------------------------------------------------------------------------
Writer(ask) == ask.op \in {"create", "clone"}
Reader(ask) == ask.op \in {"clone", "prepare"}
RowFields == {"flow", "number", "status", "nodes", "edges"}

FlowOk(f) == /\ DOMAIN f = {"status", "owner", "current"}
             /\ f.status \in {"none", "active", "archived"} /\ f.current \in Versions \union {Nobody}
VersionOk(v) == /\ DOMAIN v = RowFields
                /\ v.flow \in Flows \union {Nobody} /\ v.status \in {"none", "draft", "active"}
                /\ IsNodes(v.nodes) /\ IsSeq(v.edges)
AskOk(ask) == /\ ask.flow \in Flows /\ ask.copy \in Flows /\ ask.version \in Versions
              /\ IsNodes(ask.graph.nodes) /\ IsSeq(ask.graph.edges)

CallOk(rec, row) ==
  /\ Reader(rec.ask) /\ rec.at \in {"nodes", "edges"} => rec.source \in Versions
  /\ Reader(rec.ask) /\ rec.at = "edges" => IsNodes(rec.graph.nodes)
  /\ Writer(rec.ask) /\ rec.at \in {"define", "insert", "point", "rows"} =>
       Valid(rec.graph) /\ IsNodes(rec.graph.nodes) /\ IsSeq(rec.graph.edges)
  /\ Writer(rec.ask) /\ rec.at \in {"point", "rows"} =>
       Prefix(row.nodes, rec.graph.nodes) /\ Prefix(row.edges, rec.graph.edges)
  /\ Writer(rec.ask) /\ rec.at = "answered" => Valid([nodes |-> row.nodes, edges |-> row.edges])

FlowsInv == DOMAIN flow = Flows /\ \A f \in Flows : FlowOk(flow[f])
RowsOfVersionsInv ==
  /\ DOMAIN version = Versions /\ \A v \in Versions : VersionOk(version[v])
  /\ \A u, v \in Versions : version[u].flow = version[v].flow /\ version[u].number = version[v].number
                             => u = v \/ version[u].flow = Nobody
AuthorsInv ==
  /\ \A c \in Authors : AskOk(Ask(c)) /\ CallOk(call[c], version[Ask(c).version])
  /\ \A c, d \in Authors : Writer(Ask(c)) /\ Writer(Ask(d)) /\ Ask(c).version = Ask(d).version => c = d
CopiesInv == \A s \in snapshot : s.rows \subseteq KeysOf(s.graph)
VersionsInv == FlowsInv /\ RowsOfVersionsInv /\ AuthorsInv /\ CopiesInv

LEMMA VersionsStart == Init => VersionsInv
<1> SUFFICES ASSUME Init PROVE VersionsInv
  OBVIOUS
<1>1. PICK s \in Starts : VersionsInit(s)
  BY StartsAssumption DEF Init, AnyStart
<1>2. /\ s.flows \in [Flows -> [status : {"none", "active", "archived"}, owner : {"workspace", "system"},
                                current : Versions \union {Nobody}]]
      /\ DOMAIN s.versions = Versions
      /\ \A v \in Versions :
           /\ DOMAIN s.versions[v] = DOMAIN NoVersion
           /\ s.versions[v].flow \in Flows \union {Nobody}
           /\ s.versions[v].status \in {"none", "draft", "active"}
           /\ IsGraph([nodes |-> s.versions[v].nodes, edges |-> s.versions[v].edges])
      /\ \A u, v \in Versions :
           s.versions[u].flow = s.versions[v].flow /\ s.versions[u].number = s.versions[v].number
             => u = v \/ s.versions[u].flow = Nobody
  BY <1>1, StartsAssumption
<1>3. \A c \in Authors :
           /\ s.asks[c].flow \in Flows /\ s.asks[c].copy \in Flows
           /\ s.asks[c].version \in Versions /\ IsGraph(s.asks[c].graph)
           /\ s.asks[c].op \in {"create", "clone"} =>
                \A d \in Authors \ {c} : s.asks[d].op \in {"create", "clone"}
                                           => s.asks[d].version # s.asks[c].version
  BY <1>1, StartsAssumption
<1>4. FlowsInv
  BY <1>1, <1>2 DEF VersionsInit, FlowsInv, FlowOk
<1>5. RowsOfVersionsInv
  <2>1. ASSUME NEW v \in Versions PROVE VersionOk(s.versions[v])
    <3>1. IsNodes([nodes |-> s.versions[v].nodes, edges |-> s.versions[v].edges].nodes)
          /\ IsSeq([nodes |-> s.versions[v].nodes, edges |-> s.versions[v].edges].edges)
      BY <1>2, GraphsRows
    <3> QED BY <1>2, <3>1 DEF VersionOk, NoVersion, RowFields
  <2> QED BY <1>1, <1>2, <2>1 DEF VersionsInit, RowsOfVersionsInv
<1>6. AuthorsInv
  <2>1. \A c \in Authors : call[c].at = "new" /\ Ask(c) = s.asks[c]
    BY <1>1 DEF VersionsInit, Ask
  <2>2. \A c \in Authors : AskOk(Ask(c))
    BY <1>3, <2>1, GraphsRows DEF AskOk
  <2>3. \A c \in Authors : CallOk(call[c], version[Ask(c).version])
    BY <2>1 DEF CallOk
  <2> QED BY <1>3, <2>1, <2>2, <2>3 DEF AuthorsInv, Writer
<1>7. CopiesInv
  BY <1>1 DEF VersionsInit, CopiesInv
<1> QED BY <1>4, <1>5, <1>6, <1>7 DEF VersionsInv

(* What must be shown of the step of one call. *)
LEMMA OneCall ==
  ASSUME VersionsInv, NEW c \in Authors, \A d \in Authors \ {c} : call'[d] = call[d],
         call'[c].ask = call[c].ask,
         CallOk(call'[c], version'[Ask(c).version]),
         FlowsInv', RowsOfVersionsInv', CopiesInv',
         \A d \in Authors \ {c} : Writer(Ask(d)) =>
            /\ version'[Ask(d).version].nodes = version[Ask(d).version].nodes
            /\ version'[Ask(d).version].edges = version[Ask(d).version].edges
  PROVE  VersionsInv'
<1>1. \A d \in Authors : Ask(d)' = Ask(d)
  BY DEF Ask
<1>2. \A d \in Authors : AskOk(Ask(d)) /\ CallOk(call[d], version[Ask(d).version])
  BY DEF VersionsInv, AuthorsInv
<1>3. \A d \in Authors \ {c} : CallOk(call[d], version'[Ask(d).version])
  BY <1>2 DEF CallOk, Ask
<1>4. AuthorsInv'
  BY <1>1, <1>2, <1>3 DEF VersionsInv, AuthorsInv
<1> QED BY <1>4 DEF VersionsInv

LEMMA Going ==
  ASSUME KeyInv, NEW c \in Authors, NEW at, Goes(c, at)
  PROVE  /\ \A d \in Authors \ {c} : call'[d] = call[d]
         /\ call'[c].at = at /\ call'[c].ask = call[c].ask /\ call'[c].graph = call[c].graph
         /\ call'[c].source = call[c].source /\ call'[c].number = call[c].number
BY DEF KeyInv, CallsOk, CallFields, Goes

(* A step of one call that writes nothing into the tables. *)
LEMMA OnlyTheCall ==
  ASSUME VersionsInv, NEW c \in Authors, flow' = flow, version' = version, snapshot' = snapshot,
         \A d \in Authors \ {c} : call'[d] = call[d],
         call'[c].ask = call[c].ask, CallOk(call'[c], version[Ask(c).version])
  PROVE  VersionsInv'
<1>1. FlowsInv' /\ RowsOfVersionsInv' /\ CopiesInv'
  BY DEF VersionsInv, FlowsInv, RowsOfVersionsInv, CopiesInv
<1> QED BY <1>1, OneCall

LEMMA Silent ==
  ASSUME VersionsInv, KeyInv, NEW c \in Authors, flow' = flow, version' = version, snapshot' = snapshot,
         Goes(c, "refused") \/ Goes(c, "failed") \/ (Goes(c, "answered") /\ ~Writer(Ask(c)))
  PROVE  VersionsInv'
<1>1. /\ \A d \in Authors \ {c} : call'[d] = call[d]
      /\ call'[c].ask = call[c].ask
      /\ call'[c].at \in {"refused", "failed"} \/ (call'[c].at = "answered" /\ ~Writer(Ask(c)))
  BY Going
<1>2. CallOk(call'[c], version[Ask(c).version])
  BY <1>1 DEF CallOk, Ask
<1> QED BY <1>1, <1>2, OnlyTheCall

LEMMA ReadingSteps ==
  ASSUME VersionsInv, KeyInv, NEW c \in Authors,
         CreateVersion(c) \/ ReadCurrent(c) \/ ReadVersion(c) \/ ReadNodes(c) \/ ReadEdges(c)
  PROVE  VersionsInv'
<1>0. /\ DOMAIN call = Authors /\ DOMAIN call[c] = CallFields
      /\ AskOk(Ask(c)) /\ CallOk(call[c], version[Ask(c).version])
      /\ flow' = flow /\ version' = version /\ snapshot' = snapshot
      /\ \A v \in Versions : IsNodes(version[v].nodes) /\ IsSeq(version[v].edges)
      /\ \A f \in Flows : flow[f].current \in Versions \union {Nobody}
  BY DEF KeyInv, CallsOk, VersionsInv, AuthorsInv, RowsOfVersionsInv, VersionOk, FlowsInv, FlowOk,
         CreateVersion, ReadCurrent, ReadVersion, ReadNodes, ReadEdges
<1>1. CASE CreateVersion(c)
  <2>1. CASE Goes(c, "refused")
    BY <1>0, <2>1, Silent
  <2>2. ASSUME Valid(Ask(c).graph), NEW n,
               call' = [call EXCEPT ![c].at = "insert", ![c].graph = Ask(c).graph, ![c].number = n]
        PROVE  VersionsInv'
    <3>1. /\ \A d \in Authors \ {c} : call'[d] = call[d]
          /\ call'[c].ask = call[c].ask /\ call'[c].at = "insert" /\ call'[c].graph = Ask(c).graph
      BY <1>0, <2>2 DEF CallFields
    <3>2. CallOk(call'[c], version[Ask(c).version])
      BY <1>0, <2>2, <3>1 DEF CallOk, AskOk
    <3> QED BY <1>0, <3>1, <3>2, OnlyTheCall
  <2> QED BY <1>1, <2>1, <2>2 DEF CreateVersion
<1>2. CASE ReadCurrent(c) \/ ReadVersion(c)
  <2>1. CASE Goes(c, "refused")
    BY <1>0, <2>1, Silent
  <2>2. ASSUME NEW v \in Versions, call' = [call EXCEPT ![c].at = "nodes", ![c].source = v]
        PROVE  VersionsInv'
    <3>1. /\ \A d \in Authors \ {c} : call'[d] = call[d]
          /\ call'[c].ask = call[c].ask /\ call'[c].at = "nodes" /\ call'[c].source = v
      BY <1>0, <2>2 DEF CallFields
    <3>2. CallOk(call'[c], version[Ask(c).version])
      BY <2>2, <3>1 DEF CallOk
    <3> QED BY <1>0, <3>1, <3>2, OnlyTheCall
  <2> QED BY <1>0, <1>2, <2>1, <2>2 DEF ReadCurrent, ReadVersion, AskOk
<1>3. CASE ReadNodes(c)
  <2>1. call[c].source \in Versions /\ Reader(Ask(c))
    BY <1>0, <1>3 DEF ReadNodes, CallOk, Reader, Ask
  <2> DEFINE rows == version[call[c].source].nodes
             read == [call[c].graph EXCEPT !.nodes = rows]
  <2>2. /\ \A d \in Authors \ {c} : call'[d] = call[d]
        /\ call'[c].ask = call[c].ask /\ call'[c].at = "edges" /\ call'[c].source = call[c].source
        /\ call'[c].graph = read
    BY <1>0, <1>3 DEF ReadNodes, CallFields
  <2>3. IsNodes(read.nodes)
    BY <1>0, <2>1
  <2> HIDE DEF read
  <2>4. CallOk(call'[c], version[Ask(c).version])
    BY <2>1, <2>2, <2>3 DEF CallOk
  <2> QED BY <1>0, <2>2, <2>4, OnlyTheCall
<1>4. CASE ReadEdges(c)
  <2> DEFINE read == [nodes |-> call[c].graph.nodes, edges |-> version[call[c].source].edges]
             at == CASE Ask(c).op = "prepare" -> "look"
                     [] Ask(c).op = "clone" /\ Valid(read) -> "define"
                     [] OTHER -> "refused"
  <2>1. /\ call[c].source \in Versions /\ Reader(Ask(c)) /\ IsNodes(call[c].graph.nodes)
    BY <1>0, <1>4 DEF ReadEdges, CallOk, Reader, Ask
  <2>2. /\ \A d \in Authors \ {c} : call'[d] = call[d]
        /\ call'[c].ask = call[c].ask /\ call'[c].graph = read /\ call'[c].at = at
    BY <1>0, <1>4 DEF ReadEdges, CallFields
  <2>3. IsNodes(read.nodes) /\ IsSeq(read.edges)
    BY <1>0, <2>1
  <2>4. at \in {"look", "refused"} \/ (at = "define" /\ Valid(read))
    <3> HIDE DEF read
    <3> QED OBVIOUS
  <2> HIDE DEF read, at
  <2>5. CallOk(call'[c], version[Ask(c).version])
    BY <2>2, <2>3, <2>4 DEF CallOk
  <2> QED BY <1>0, <2>2, <2>5, OnlyTheCall
<1> QED BY <1>1, <1>2, <1>3, <1>4

(* The row of a new version, empty, with a number that no other has. *)
LEMMA InsertStep ==
  ASSUME VersionsInv, KeyInv, NEW c \in Authors, InsertVersion(c)
  PROVE  VersionsInv'
<1>0. /\ AskOk(Ask(c)) /\ CallOk(call[c], version[Ask(c).version]) /\ Writer(Ask(c)) /\ call[c].at = "insert"
      /\ flow' = flow /\ snapshot' = snapshot /\ DOMAIN version = Versions
  BY DEF VersionsInv, AuthorsInv, InsertVersion, Writer, RowsOfVersionsInv
<1>1. CASE version' = version /\ Goes(c, "failed")
  BY <1>0, <1>1, Silent
<1>2. CASE /\ call[c].number \notin NumbersOf(FlowWritten(c))
           /\ version' = [version EXCEPT ![Ask(c).version] = NewVersion(c)]
           /\ Goes(c, IF Ask(c).op = "clone" THEN "point" ELSE "rows")
  <2> DEFINE v == Ask(c).version
             new == NewVersion(c)
  <2>1. v \in Versions /\ FlowWritten(c) \in Flows
    BY <1>0 DEF AskOk, FlowWritten
  <2>2. /\ DOMAIN new = RowFields /\ new.flow = FlowWritten(c) /\ new.number = call[c].number
        /\ new.status \in {"draft", "active"} /\ new.nodes = <<>> /\ new.edges = <<>>
    BY DEF NewVersion, NoVersion, RowFields
  <2> HIDE DEF new
  <2>3. version'[v] = new /\ \A u \in Versions \ {v} : version'[u] = version[u]
    BY <1>0, <1>2, <2>1 DEF new
  <2>4. VersionOk(new)
    BY <2>1, <2>2, EmptyIsSeq DEF VersionOk
  <2>5. \A u \in Versions : version[u].flow = new.flow => version[u].number # new.number
    BY <1>2, <2>2 DEF NumbersOf
  <2>6. RowsOfVersionsInv'
    <3>1. DOMAIN version' = Versions /\ \A u \in Versions : VersionOk(version'[u])
      BY <1>0, <1>2, <2>3, <2>4 DEF VersionsInv, RowsOfVersionsInv
    <3>2. ASSUME NEW u \in Versions, NEW w \in Versions, version'[u].flow = version'[w].flow,
                 version'[u].number = version'[w].number
          PROVE  u = w \/ version'[u].flow = Nobody
      <4>1. CASE u = v \/ w = v
        BY <2>3, <2>5, <3>2, <4>1
      <4>2. CASE u # v /\ w # v
        BY <2>3, <3>2, <4>2 DEF VersionsInv, RowsOfVersionsInv
      <4> QED BY <4>1, <4>2
    <3> QED BY <3>1, <3>2 DEF RowsOfVersionsInv
  <2>7. /\ \A d \in Authors \ {c} : call'[d] = call[d]
        /\ call'[c].ask = call[c].ask /\ call'[c].graph = call[c].graph
        /\ call'[c].at \in {"point", "rows"}
    BY <1>2, Going
  <2>8. CallOk(call'[c], new)
    <3>1. Prefix(new.nodes, call[c].graph.nodes) /\ Prefix(new.edges, call[c].graph.edges)
      BY <1>0, <2>2, EmptyIsSeq DEF CallOk, IsNodes, Ask
    <3> QED BY <1>0, <2>7, <3>1 DEF CallOk, Ask
  <2>9. \A d \in Authors \ {c} : Writer(Ask(d)) => Ask(d).version # v /\ Ask(d).version \in Versions
    BY <1>0 DEF VersionsInv, AuthorsInv, AskOk
  <2>10. FlowsInv' /\ CopiesInv'
    BY <1>0 DEF VersionsInv, FlowsInv, CopiesInv
  <2> QED BY <2>3, <2>6, <2>7, <2>8, <2>9, <2>10, OneCall
<1> QED BY <1>0, <1>1, <1>2 DEF InsertVersion

(* The next row of its graph, after those that are there. *)
LEMMA RowStep ==
  ASSUME VersionsInv, KeyInv, NEW c \in Authors, InsertRow(c)
  PROVE  VersionsInv'
<1> DEFINE v == Ask(c).version
           row == version[v]
           g == call[c].graph
           n == Len(row.nodes)
           m == Len(row.edges)
<1>0. /\ v \in Versions /\ CallOk(call[c], row) /\ Writer(Ask(c)) /\ call[c].at = "rows"
      /\ flow' = flow /\ snapshot' = snapshot /\ DOMAIN version = Versions /\ VersionOk(row)
  BY DEF VersionsInv, AuthorsInv, AskOk, InsertRow, Writer, RowsOfVersionsInv
<1>1. /\ Valid(g) /\ IsNodes(g.nodes) /\ IsSeq(g.edges) /\ Prefix(row.nodes, g.nodes) /\ Prefix(row.edges, g.edges)
      /\ IsNodes(row.nodes) /\ IsSeq(row.edges) /\ DOMAIN row = RowFields
  BY <1>0 DEF CallOk, VersionOk, Ask
<1>2. ASSUME NEW new, version' = [version EXCEPT ![v] = new], VersionOk(new), call' = call,
             new.flow = row.flow, new.number = row.number, CallOk(call[c], new)
      PROVE  VersionsInv'
  <2>1. version'[v] = new /\ \A u \in Versions \ {v} : version'[u] = version[u]
    BY <1>0, <1>2
  <2>2. RowsOfVersionsInv'
    <3>1. DOMAIN version' = Versions /\ \A u \in Versions : VersionOk(version'[u])
      BY <1>0, <1>2, <2>1 DEF VersionsInv, RowsOfVersionsInv
    <3>2. \A u \in Versions : version'[u].flow = version[u].flow /\ version'[u].number = version[u].number
      BY <1>2, <2>1
    <3> QED BY <3>1, <3>2 DEF VersionsInv, RowsOfVersionsInv
  <2>3. \A d \in Authors \ {c} : Writer(Ask(d)) => Ask(d).version # v /\ Ask(d).version \in Versions
    BY <1>0 DEF VersionsInv, AuthorsInv, AskOk
  <2>4. FlowsInv' /\ CopiesInv'
    BY <1>0 DEF VersionsInv, FlowsInv, CopiesInv
  <2> QED BY <1>2, <2>1, <2>2, <2>3, <2>4, OneCall
<1>3. CASE /\ n < Len(g.nodes) /\ call' = call
           /\ version' = [version EXCEPT ![v].nodes = Append(@, g.nodes[n + 1])]
  <2> DEFINE rows == Append(row.nodes, g.nodes[n + 1])
             new == [row EXCEPT !.nodes = rows]
  <2>1. version' = [version EXCEPT ![v] = new]
    BY <1>0, <1>3
  <2>2. /\ new.nodes = rows /\ new.edges = row.edges /\ new.flow = row.flow /\ new.number = row.number
        /\ new.status = row.status /\ DOMAIN new = RowFields
    BY <1>1 DEF RowFields
  <2>3. IsNodes(rows) /\ Prefix(rows, g.nodes)
    <3>1. /\ IsSeq(rows) /\ Prefix(rows, g.nodes) /\ g.nodes[n + 1] \in Members(g.nodes)
          /\ Members(rows) = Members(row.nodes) \union {g.nodes[n + 1]}
      BY <1>1, <1>3, PrefixGrows DEF IsNodes
    <3> HIDE DEF rows
    <3> QED BY <1>1, <3>1 DEF IsNodes
  <2> HIDE DEF rows, new
  <2>4. VersionOk(new)
    BY <1>0, <2>2, <2>3 DEF VersionOk
  <2>5. CallOk(call[c], new)
    BY <1>0, <2>2, <2>3 DEF CallOk, Writer
  <2> QED BY <1>2, <1>3, <2>1, <2>2, <2>4, <2>5
<1>4. CASE /\ m < Len(g.edges) /\ call' = call
           /\ version' = [version EXCEPT ![v].edges = Append(@, g.edges[m + 1])]
  <2> DEFINE rows == Append(row.edges, g.edges[m + 1])
             new == [row EXCEPT !.edges = rows]
  <2>1. version' = [version EXCEPT ![v] = new]
    BY <1>0, <1>4
  <2>2. /\ new.edges = rows /\ new.nodes = row.nodes /\ new.flow = row.flow /\ new.number = row.number
        /\ new.status = row.status /\ DOMAIN new = RowFields
    BY <1>1 DEF RowFields
  <2>3. IsSeq(rows) /\ Prefix(rows, g.edges)
    BY <1>1, <1>4, PrefixGrows
  <2> HIDE DEF rows, new
  <2>4. VersionOk(new)
    BY <1>0, <2>2, <2>3 DEF VersionOk
  <2>5. CallOk(call[c], new)
    BY <1>0, <2>2, <2>3 DEF CallOk, Writer
  <2> QED BY <1>2, <1>4, <2>1, <2>2, <2>4, <2>5
<1>5. CASE version' = version /\ Goes(c, "failed")
  BY <1>0, <1>5, Silent
<1>6. CASE n = Len(g.nodes) /\ m = Len(g.edges) /\ version' = version /\ Goes(c, "answered")
  <2>1. row.nodes = g.nodes /\ row.edges = g.edges
    BY <1>1, <1>6, PrefixWhole DEF IsNodes
  <2>2. Valid([nodes |-> row.nodes, edges |-> row.edges])
    BY <1>1, <2>1, ValidByRows
  <2>3. /\ \A d \in Authors \ {c} : call'[d] = call[d]
        /\ call'[c].at = "answered" /\ call'[c].ask = call[c].ask
    BY <1>6, Going
  <2>4. CallOk(call'[c], row)
    BY <2>2, <2>3 DEF CallOk
  <2> QED BY <1>0, <1>6, <2>3, <2>4, OnlyTheCall
<1> QED BY <1>3, <1>4, <1>5, <1>6 DEF InsertRow

(* Statements about the definition of a workflow, and an activation. *)
LEMMA FlowSteps ==
  ASSUME VersionsInv, KeyInv, NEW c \in Authors,
         InsertFlow(c) \/ PointAtClone(c) \/ ActivateVersion(c) \/ ArchiveFlow(c)
  PROVE  VersionsInv'
<1>0. /\ AskOk(Ask(c)) /\ CallOk(call[c], version[Ask(c).version]) /\ snapshot' = snapshot
      /\ DOMAIN call = Authors /\ DOMAIN call[c] = CallFields
      /\ DOMAIN flow = Flows /\ \A f \in Flows : FlowOk(flow[f])
      /\ DOMAIN version = Versions /\ \A v \in Versions : VersionOk(version[v])
  BY DEF VersionsInv, AuthorsInv, FlowsInv, RowsOfVersionsInv, KeyInv, CallsOk,
         InsertFlow, PointAtClone, ActivateVersion, ArchiveFlow
<1>1. ASSUME NEW f \in Flows, NEW new, FlowOk(new), flow' = [flow EXCEPT ![f] = new], version' = version,
             \A d \in Authors \ {c} : call'[d] = call[d], call'[c].ask = call[c].ask,
             CallOk(call'[c], version[Ask(c).version])
      PROVE  VersionsInv'
  <2>1. FlowsInv'
    BY <1>0, <1>1 DEF FlowsInv
  <2>2. RowsOfVersionsInv' /\ CopiesInv'
    BY <1>0, <1>1 DEF VersionsInv, RowsOfVersionsInv, CopiesInv
  <2> QED BY <1>1, <2>1, <2>2, OneCall
<1>2. \A f \in Flows : \A v \in Versions :
         FlowOk([flow[f] EXCEPT !.current = v]) /\ FlowOk([flow[f] EXCEPT !.status = "archived"])
  BY <1>0 DEF FlowOk
<1>3. CASE InsertFlow(c)
  <2> DEFINE new == [status |-> "active", owner |-> "workspace", current |-> Nobody]
  <2>1. FlowOk(new)
    BY DEF FlowOk
  <2>2. flow' = [flow EXCEPT ![Ask(c).copy] = new] /\ version' = version /\ Ask(c).copy \in Flows
    BY <1>0, <1>3 DEF InsertFlow, AskOk
  <2>3. /\ \A d \in Authors \ {c} : call'[d] = call[d]
        /\ call'[c].ask = call[c].ask /\ call'[c].at = "insert" /\ call'[c].graph = call[c].graph
        /\ call[c].at = "define"
    BY <1>0, <1>3 DEF InsertFlow, CallFields, Working
  <2>4. CallOk(call'[c], version[Ask(c).version])
    BY <1>0, <2>3 DEF CallOk
  <2> HIDE DEF new
  <2> QED BY <1>1, <2>1, <2>2, <2>3, <2>4
<1>4. CASE PointAtClone(c)
  <2>1. /\ flow' = [flow EXCEPT ![Ask(c).copy] = [flow[Ask(c).copy] EXCEPT !.current = Ask(c).version]]
        /\ version' = version /\ Ask(c).copy \in Flows /\ Ask(c).version \in Versions
    BY <1>0, <1>4 DEF PointAtClone, AskOk
  <2>2. /\ \A d \in Authors \ {c} : call'[d] = call[d]
        /\ call'[c].ask = call[c].ask /\ call'[c].at = "rows" /\ call'[c].graph = call[c].graph
        /\ call[c].at = "point"
    BY <1>4, Going DEF PointAtClone, Working
  <2>3. CallOk(call'[c], version[Ask(c).version])
    BY <1>0, <2>2 DEF CallOk
  <2> QED BY <1>1, <1>2, <2>1, <2>2, <2>3
<1>5. CASE ActivateVersion(c)
  <2>0. ~Writer(Ask(c)) /\ ~Reader(Ask(c))
    BY <1>5 DEF ActivateVersion, Working, Writer, Reader
  <2>1. ASSUME NEW at, Goes(c, at)
        PROVE  /\ \A d \in Authors \ {c} : call'[d] = call[d]
               /\ call'[c].ask = call[c].ask /\ \A row : CallOk(call'[c], row)
    BY <2>0, <2>1, Going DEF CallOk, Ask
  <2>2. CASE flow' = flow /\ version' = version /\ Goes(c, "refused")
    BY <1>0, <2>2, Silent
  <2>3. CASE flow' = [flow EXCEPT ![Ask(c).flow].current = Ask(c).version] /\ version' = version
               /\ Goes(c, "answered")
    <3>1. /\ flow' = [flow EXCEPT ![Ask(c).flow] = [flow[Ask(c).flow] EXCEPT !.current = Ask(c).version]]
          /\ Ask(c).flow \in Flows /\ Ask(c).version \in Versions
      BY <1>0, <2>3 DEF AskOk
    <3> QED BY <1>1, <1>2, <2>1, <2>3, <3>1
  <2>4. CASE flow' = flow /\ version' = [version EXCEPT ![Ask(c).version].status = "active"] /\ Goes(c, "point")
    <3> DEFINE v == Ask(c).version
               new == [version[v] EXCEPT !.status = "active"]
    <3>1. v \in Versions /\ version'[v] = new /\ \A u \in Versions \ {v} : version'[u] = version[u]
      BY <1>0, <2>4 DEF AskOk
    <3>2. /\ DOMAIN new = RowFields /\ new.flow = version[v].flow /\ new.number = version[v].number
          /\ new.status = "active" /\ new.nodes = version[v].nodes /\ new.edges = version[v].edges
      BY <1>0, <3>1 DEF VersionOk, RowFields
    <3> HIDE DEF new
    <3>3. VersionOk(new)
      BY <1>0, <3>1, <3>2 DEF VersionOk
    <3>4. RowsOfVersionsInv'
      <4>1. DOMAIN version' = Versions /\ \A u \in Versions : VersionOk(version'[u])
        BY <1>0, <2>4, <3>1, <3>3
      <4>2. \A u \in Versions : version'[u].flow = version[u].flow /\ version'[u].number = version[u].number
        BY <3>1, <3>2
      <4> QED BY <4>1, <4>2 DEF VersionsInv, RowsOfVersionsInv
    <3>5. \A u \in Versions : version'[u].nodes = version[u].nodes /\ version'[u].edges = version[u].edges
      BY <3>1, <3>2
    <3>6. \A d \in Authors : Ask(d).version \in Versions
      BY DEF VersionsInv, AuthorsInv, AskOk
    <3>7. FlowsInv' /\ CopiesInv'
      BY <1>0, <2>4 DEF VersionsInv, FlowsInv, CopiesInv
    <3> QED BY <2>1, <2>4, <3>4, <3>5, <3>6, <3>7, OneCall
  <2> QED BY <1>5, <2>2, <2>3, <2>4 DEF ActivateVersion
<1>6. CASE ArchiveFlow(c)
  <2>0. ~Writer(Ask(c)) /\ ~Reader(Ask(c)) /\ version' = version
    BY <1>6 DEF ArchiveFlow, Working, Writer, Reader
  <2>1. CASE flow' = flow /\ Goes(c, "refused")
    BY <1>0, <2>0, <2>1, Silent
  <2>2. CASE flow' = [flow EXCEPT ![Ask(c).flow].status = "archived"] /\ Goes(c, "answered")
    <3>1. /\ flow' = [flow EXCEPT ![Ask(c).flow] = [flow[Ask(c).flow] EXCEPT !.status = "archived"]]
          /\ Ask(c).flow \in Flows /\ Ask(c).version \in Versions
      BY <1>0, <2>2 DEF AskOk
    <3>2. /\ \A d \in Authors \ {c} : call'[d] = call[d]
          /\ call'[c].ask = call[c].ask /\ CallOk(call'[c], version[Ask(c).version])
      BY <2>0, <2>2, Going DEF CallOk, Ask
    <3> QED BY <1>1, <1>2, <2>0, <3>1, <3>2
  <2> QED BY <1>6, <2>1, <2>2 DEF ArchiveFlow
<1> QED BY <1>3, <1>4, <1>5, <1>6

(* A preparation writes its snapshot, and the rows of the nodes in it. *)
LEMMA PreparingSteps ==
  ASSUME VersionsInv, KeyInv, NEW c \in Authors,
         LookUpSnapshot(c) \/ PersistSnapshot(c) \/ PersistExecution(c)
  PROVE  VersionsInv'
<1>0. /\ ~Writer(Ask(c)) /\ flow' = flow /\ version' = version
      /\ DOMAIN call = Authors /\ DOMAIN call[c] = CallFields /\ Prepares(c)
      /\ FlowsInv' /\ RowsOfVersionsInv'
  BY DEF LookUpSnapshot, PersistSnapshot, PersistExecution, Working, Writer, Prepares, KeyInv, CallsOk,
         VersionsInv, FlowsInv, RowsOfVersionsInv
<1>1. /\ \A d \in Authors \ {c} : call'[d] = call[d]
      /\ call'[c].ask = call[c].ask /\ call'[c].at \notin {"nodes", "edges"}
  <2>1. CASE \E at \in {"persist", "refused", "failed", "execution", "node rows"} : Goes(c, at)
    BY <2>1, Going
  <2>2. CASE \E e : call' = [call EXCEPT ![c].at = "answered", ![c].exec = e]
    BY <1>0, <2>2 DEF CallFields
  <2> QED BY <2>1, <2>2 DEF LookUpSnapshot, PersistSnapshot, PersistExecution
<1>2. \A row : CallOk(call'[c], row)
  BY <1>0, <1>1 DEF CallOk, Ask
<1>3. CopiesInv'
  <2>1. CASE snapshot' = snapshot
    BY <2>1 DEF VersionsInv, CopiesInv
  <2>2. CASE PersistSnapshot(c)
    BY <2>2 DEF PersistSnapshot, VersionsInv, CopiesInv
  <2>3. CASE PersistExecution(c)
    <3> DEFINE own == CHOOSE s \in snapshot : s.by = c
    <3>1. own \in snapshot /\ DOMAIN own = SnapshotFields
      BY <1>0, <2>3, OwnSnapshot DEF PersistExecution, Working
    <3>2. PICK new \in {[own EXCEPT !.exec = c], [own EXCEPT !.rows = KeysOf(own.graph)]} :
            snapshot' = (snapshot \ {own}) \union {new}
      BY <2>3 DEF PersistExecution
    <3> HIDE DEF own
    <3>3. new.rows \in {own.rows, KeysOf(own.graph)} /\ new.graph = own.graph
      BY <3>1, <3>2 DEF SnapshotFields
    <3> QED BY <3>1, <3>2, <3>3 DEF VersionsInv, CopiesInv
  <2> QED BY <2>1, <2>2, <2>3 DEF LookUpSnapshot
<1> QED BY <1>0, <1>1, <1>2, <1>3, OneCall

LEMMA VersionsKept == VersionsInv /\ KeyInv /\ [Next]_workflowVars => VersionsInv'
<1> SUFFICES ASSUME VersionsInv, KeyInv, [Next]_workflowVars PROVE VersionsInv'
  OBVIOUS
<1>1. ASSUME NEW c \in Authors, Fails(c) PROVE VersionsInv'
  BY <1>1, Silent DEF Fails
<1>2. CASE UNCHANGED versionVars
  BY <1>2 DEF versionVars, VersionsInv, FlowsInv, RowsOfVersionsInv, AuthorsInv, CopiesInv, Ask
<1> QED BY <1>1, <1>2, ReadingSteps, InsertStep, RowStep, FlowSteps, PreparingSteps
        DEF Next, VersionsStep, RoutingStep, ExecutionStep, VersionsNext, workflowVars

(* The variables have their types and no version number is given twice; an  *)
(* item is delivered twice only after a crash or a stall; and a version     *)
(* whose creation or cloning was answered passes the validator, although    *)
(* its rows were written one by one (workflow/routes.ts).                   *)
THEOREM WorkflowsCorrect == Spec => []WorkflowsInv
<1>1. Init => KeyInv
  <2> SUFFICES ASSUME Init PROVE KeyInv
    OBVIOUS
  <2>1. PICK s : VersionsInit(s)
    BY DEF Init
  <2> QED BY <2>1 DEF VersionsInit, KeyInv, CallsOk, CallFields, OnePerKey, SnapshotsOk, OwnersOk, AnswersOk
<1>2. Spec => [](KeyInv /\ VersionsInv)
  BY <1>1, KeyKept, VersionsStart, VersionsKept, PTL DEF Spec
<1>3. VersionsInv /\ KeyInv => VersionsTypeOK
  BY DEF VersionsInv, KeyInv, FlowsInv, FlowOk, RowsOfVersionsInv, VersionOk, CopiesInv, SnapshotsOk,
         VersionsTypeOK
<1>4. VersionsInv => AnsweredIsValid
  BY DEF VersionsInv, AuthorsInv, CallOk, AnsweredIsValid, Writer, Rows, Ask
<1> QED BY <1>2, <1>3, <1>4, ExecutionCorrect, PTL DEF WorkflowsInv
=============================================================================
