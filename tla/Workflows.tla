----------------------------- MODULE Workflows -----------------------------
(***************************************************************************)
(* Workflows: their versions, the executions of a version, the route of a  *)
(* request.  A version's graph reaches an executor only as a snapshot,     *)
(* which nothing changes any more, and the routing switches are read by    *)
(* nobody else; so a behaviour works on one of the three parts.  The       *)
(* executions start from the graphs that the validator accepts; a fourth   *)
(* part only holds the graphs that are put to the validator.               *)
(***************************************************************************)
EXTENDS WorkflowVersions, WorkflowExecutions, CutoverRouting

CONSTANTS Starts,   \* of the versions part
          Tasks     \* of the executions part

(* Tasks are graphs for an executor.  The tables a behaviour starts with hold *)
(* their constraints, and each creation or cloning takes an id of its own.    *)
ASSUME WorkflowsAssumption ==
  /\ \A t \in Tasks : /\ t.kind \in {"worker", "executor", "dry"}
                      /\ DOMAIN t.asks = Requesters
                      /\ IsGraph(t.graph)
  /\ \E t \in Tasks : Valid(t.graph)
  /\ MaxNodeAttempts \in Nat \ {0}
  /\ {"source", "review"} \subseteq KnownTypes
  /\ NoOne \notin Runners
ASSUME StartsAssumption ==
  /\ Starts # {}
  /\ \A s \in Starts :
       /\ s.flows \in [Flows -> [status : {"none", "active", "archived"}, owner : {"workspace", "system"},
                                 current : Versions \union {Nobody}]]
       /\ DOMAIN s.versions = Versions /\ DOMAIN s.asks = Authors
       /\ \A v \in Versions :
            /\ DOMAIN s.versions[v] = DOMAIN NoVersion
            /\ s.versions[v].flow \in Flows \union {Nobody}
            /\ s.versions[v].status \in {"none", "draft", "active"}
            /\ IsGraph([nodes |-> s.versions[v].nodes, edges |-> s.versions[v].edges])
       /\ \A u, v \in Versions :
            s.versions[u].flow = s.versions[v].flow /\ s.versions[u].number = s.versions[v].number
              => u = v \/ s.versions[u].flow = Nobody
       /\ \A c \in Authors :
            /\ s.asks[c].flow \in Flows /\ s.asks[c].copy \in Flows
            /\ s.asks[c].version \in Versions /\ IsGraph(s.asks[c].graph)
            /\ s.asks[c].op \in {"create", "clone"} =>
                 /\ s.versions[s.asks[c].version] = NoVersion
                 /\ \A d \in Authors \ {c} : s.asks[d].op \in {"create", "clone"}
                                              => s.asks[d].version # s.asks[c].version

VARIABLE part
workflowVars == <<versionVars, executionVars, routingVars, part>>

AnyStart == CHOOSE s \in Starts : TRUE
AnyTask == CHOOSE t \in Tasks : Valid(t.graph)

Init ==
  /\ RoutingInit
  /\ \/ part = "versions" /\ ExecutionInit(AnyTask) /\ \E s \in Starts : VersionsInit(s)
     \/ /\ part = "executions" /\ VersionsInit(AnyStart)
        /\ \E t \in Tasks : Valid(t.graph) /\ ExecutionInit(t)
     \/ part = "routing" /\ VersionsInit(AnyStart) /\ ExecutionInit(AnyTask)
     \/ part = "validator" /\ VersionsInit(AnyStart) /\ \E t \in Tasks : ExecutionInit(t)

VersionsStep == /\ part = "versions" /\ VersionsNext
                /\ UNCHANGED <<executionVars, routingVars, part>>
ExecutionStep == /\ part = "executions" /\ ExecutionNext
                 /\ UNCHANGED <<versionVars, routingVars, part>>
RoutingStep == /\ part = "routing" /\ RoutingNext
               /\ UNCHANGED <<versionVars, executionVars, part>>

Next == VersionsStep \/ ExecutionStep \/ RoutingStep
Spec == Init /\ [][Next]_workflowVars /\ ExecutionFairness

(* The cycle check agrees with the definition of a cycle: a set of nodes   *)
(* each of which has an edge from the set.                                 *)
CyclesAreFound ==
  LET g == task.graph
      Closed(S) == \A k \in S : \E e \in Arcs(g) : e[2] = k /\ e[1] \in S
  IN  part = "validator" /\ Cardinality(KeysOf(g)) = Len(g.nodes) =>
        (CyclicNodes(g) > 0 <=> \E S \in SUBSET KeysOf(g) : S # {} /\ Closed(S))

(* The variables have their types, no version number is given twice, an      *)
(* item is delivered twice only after a crash or a stall, and an answered    *)
(* version passes the validator.                                             *)
WorkflowsInv == VersionsTypeOK /\ ExecutionTypeOK /\ AnsweredIsValid
=============================================================================
