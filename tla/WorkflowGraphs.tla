--------------------------- MODULE WorkflowGraphs ---------------------------
(***************************************************************************)
(* The graph of a workflow: the validator every version must pass          *)
(* (workflow/validator.ts), and what the executors compute on it: the      *)
(* order of its nodes, and which of them are ready.                        *)
(*                                                                         *)
(* A specification is [nodes, edges]: a sequence of rows [key, type, at,   *)
(* sound] and a sequence of edges <<from, to>>.  `at' is position_index;   *)
(* `sound' says that the capability is known and that the configuration,   *)
(* the names and the position pass rules 4, 10 and 11.                     *)
(***************************************************************************)
EXTENDS Integers, FiniteSets, Sequences

CONSTANT KnownTypes   \* KNOWN_NODE_TYPES

Members(s) == {s[i] : i \in DOMAIN s}

(* A specification as the routes and the tables hold it. *)
IsGraph(g) == /\ DOMAIN g = {"nodes", "edges"}
              /\ g.nodes \in Seq(Members(g.nodes)) /\ g.edges \in Seq(Members(g.edges))
              /\ \A n \in Members(g.nodes) : n.at \in Int

KeysOf(g) == {n.key : n \in Members(g.nodes)}
TypeOf(g, k) == (CHOOSE n \in Members(g.nodes) : n.key = k).type
KeysOfType(g, t) == {n.key : n \in {m \in Members(g.nodes) : m.type = t}}

(* Both ends are nodes; the others are dangling. *)
Arcs(g) == {e \in Members(g.edges) : e[1] \in KeysOf(g) /\ e[2] \in KeysOf(g)}

(* Kahn's algorithm: a node is processed when those before it are.  What    *)
(* cannot be processed lies on a cycle or behind one.                       *)
Kahn(g) ==
  LET done[n \in 0..Cardinality(KeysOf(g))] ==
        IF n = 0 THEN {}
        ELSE LET before == done[n - 1] IN
             {k \in KeysOf(g) : \A e \in Arcs(g) : e[2] = k => e[1] \in before}
  IN done[Cardinality(KeysOf(g))]

(* Mutant: an edge from a node to itself is not counted. *)
CyclicNodes_NoSelfLoop(g) ==
  LET h == [g EXCEPT !.edges = SelectSeq(@, LAMBDA e : e[1] # e[2])]
  IN  Len(g.nodes) - Cardinality(Kahn(h))
CyclicNodes(g) == Len(g.nodes) - Cardinality(Kahn(g))

(* The search along the edges from the source nodes. *)
Reached(g) ==
  LET seen[n \in 0..Cardinality(KeysOf(g))] ==
        IF n = 0 THEN KeysOfType(g, "source")
        ELSE LET before == seen[n - 1] IN
             before \union {e[2] : e \in {a \in Arcs(g) : a[1] \in before}}
  IN seen[Cardinality(KeysOf(g))]
Unreachable(g) == KeysOf(g) \ Reached(g)

Valid(g) ==
  /\ g.nodes # <<>>
  /\ Cardinality(KeysOf(g)) = Len(g.nodes)
  /\ \A n \in Members(g.nodes) : n.type \in KnownTypes /\ n.sound
  /\ Arcs(g) = Members(g.edges)
  /\ CyclicNodes(g) = 0
  /\ KeysOfType(g, "source") # {} /\ KeysOfType(g, "review") # {}
  /\ Unreachable(g) = {}

-----------------------------------------------------------------------------
(* What the executors use. *)

(* The nodes by position; those at one position keep their order. *)
Order(g) ==
  LET Before(i) == {j \in DOMAIN g.nodes : \/ g.nodes[j].at < g.nodes[i].at
                                           \/ g.nodes[j].at = g.nodes[i].at /\ j < i}
  IN [n \in DOMAIN g.nodes |->
        g.nodes[CHOOSE i \in DOMAIN g.nodes : Cardinality(Before(i)) = n - 1].key]

Predecessors(g, k) == {e[1] : e \in {a \in Members(g.edges) : a[2] = k}}

(* isNodeReady: a predecessor without a row never succeeds. *)
IsReady_Any(g, k, status) ==   \* mutant
  Predecessors(g, k) = {} \/ \E p \in Predecessors(g, k) : p \in DOMAIN status /\ status[p] = "succeeded"
IsReady(g, k, status) ==
  \A p \in Predecessors(g, k) : p \in DOMAIN status /\ status[p] = "succeeded"
=============================================================================
