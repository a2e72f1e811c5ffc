---------------------------- MODULE MCWorkflows ----------------------------
EXTENDS Workflows, SequencesExt

CONSTANTS a1, a2, a3, f1, f2, v0, v1, v2, r1, r2, q1, q2, t1, t2, w1, d1

Row(k, t, n) == [key |-> k, type |-> t, at |-> n, sound |-> TRUE]
Graph(rows, edges) == [nodes |-> rows, edges |-> edges]

(* All graphs over a source, a step and a review; positions in any order    *)
(* for those that can be valid.                                             *)
Three == <<"source", "stt", "review">>
Placed(p) == [i \in 1..3 |-> Row(Three[i], Three[i], p[i])]
Pairs == {<<Three[i], Three[j]>> : i \in 1..3, j \in 1..3}
Small == {Graph(Placed(<<0, 1, 2>>), FoldSet(LAMBDA e, s : Append(s, e), <<>>, E)) : E \in SUBSET Pairs}
Sound == {g \in Small : Valid(g)}
Shuffled == {Graph(Placed(p), g.edges) :
               g \in Sound, p \in {<<0, 1, 2>>, <<0, 2, 1>>, <<1, 0, 2>>, <<1, 2, 0>>, <<2, 0, 1>>,
                                   <<2, 1, 0>>, <<0, 0, 0>>}}

(* The seeded Video Localization Workflow, and the same from back to front. *)
Seeded == <<"source", "analyze", "stt", "translate", "tts", "align", "render", "qc", "persist", "review">>
Chain(s, Pos(_)) == Graph([i \in DOMAIN s |-> Row(s[i], s[i], Pos(i))],
                         [i \in 1..(Len(s) - 1) |-> <<s[i], s[i + 1]>>])
Forward(s) == LET Pos(i) == i IN Chain(s, Pos)
Backward(s) == LET Pos(i) == Len(s) - i IN Chain(s, Pos)
Short == Forward(<<"source", "stt", "translate", "review">>)
Fork == Graph(<<Row("source", "source", 0), Row("stt", "stt", 1), Row("analyze", "analyze", 1),
                Row("review", "review", 2)>>,
              <<<<"source", "stt">>, <<"source", "analyze">>, <<"stt", "review">>>>)
Unhandled == Graph(<<Row("source", "source", 0), Row("merge", "merge", 1), Row("review", "review", 2)>>,
                   <<<<"source", "merge">>, <<"merge", "review">>>>)
Odd == {Graph(<<Row("source", "source", 0)>>, <<>>), Graph(<<>>, <<>>),
        Graph(<<Row("source", "source", 0), Row("review", "review", 1)>>,
              <<<<"source", "review">>, <<"source", "lost">>>>),
        Graph(<<Row("source", "source", 0), Row("source", "review", 1)>>, <<>>),
        Graph(<<Row("source", "source", 0), Row("review", "odd", 1)>>, <<<<"source", "review">>>>)}

Bound(f, c, s) == [faults |-> f, crashes |-> c, stalls |-> s]
Task(kind, g, a, b, bound) ==
  [kind |-> kind, graph |-> g, asks |-> (q1 :> a) @@ (q2 :> b), bound |-> bound]
Worker(g, bound) == Task("worker", g, "enqueue", "none", bound)
Quiet(kind, g) == Task(kind, g, "none", "none", Bound(0, 0, 0))

McTasks ==
  {Task("worker", Short, "enqueue", "enqueue", Bound(1, 0, 0))}
  \union {Worker(g, Bound(1, 0, 0)) : g \in Shuffled \union {Fork}}
  \union {Worker(g, Bound(0, 1, 0)) : g \in {Short, Fork, Unhandled}}
  \union {Worker(g, Bound(0, 0, 1)) : g \in {Short, Fork}}
  \union {Worker(Backward(Seeded), Bound(0, 0, 0)), Worker(Forward(Seeded), Bound(1, 0, 0))}
  \union {Task(k, g, "none", "none", Bound(1, 0, 0)) : k \in {"executor", "dry"}, g \in Shuffled}
  \union {Quiet(k, Backward(Seeded)) : k \in {"executor", "dry"}}
  \union {Quiet("executor", Unhandled), Quiet("dry", Unhandled)}
  \union {Task("dry", Short, "retry", "retry", Bound(1, 0, 0)),
          Task("dry", Unhandled, "cancel", "enqueue", Bound(0, 0, 0))}
  \union {Quiet("dry", g) : g \in Small \union Odd}
McCancel == {Task("dry", Short, "cancel", "none", Bound(0, 0, 0))}

(* The starts of the versions part. *)
Hand(op, f, vers, g) == [op |-> op, flow |-> f, version |-> vers, graph |-> g, copy |-> f2,
                            key |-> "key", config |-> "config"]
Prepare(vers, config) == [Hand("prepare", f1, vers, Blank) EXCEPT !.config = config]
Line == Graph(Placed(<<0, 1, 2>>), <<<<"source", "stt">>, <<"stt", "review">>>>)
Twice == Graph(Placed(<<0, 1, 2>>), <<<<"source", "stt">>, <<"source", "stt">>, <<"stt", "review">>>>)
Stored == [flow |-> f1, number |-> 1, status |-> "active", nodes |-> Line.nodes, edges |-> Line.edges]
Start(owner, b1, b2, b3) ==
  [flows |-> (f1 :> [status |-> "active", owner |-> owner, current |-> v0])
             @@ (f2 :> [status |-> "none", owner |-> "workspace", current |-> Nobody]),
   versions |-> (v0 :> Stored) @@ (v1 :> NoVersion) @@ (v2 :> NoVersion),
   asks |-> (a1 :> b1) @@ (a2 :> b2) @@ (a3 :> b3)]
Create(vers, g) == Hand("create", f1, vers, g)
Clone == Hand("clone", f1, v2, Blank)
Activate(vers) == Hand("activate", f1, vers, Blank)
Archive == Hand("archive", f1, v0, Blank)
McStarts ==
  {Start("workspace", Create(v1, Line), b, c) : b \in {Clone, Create(v2, Twice), Prepare(v1, "config")},
                                                c \in {Activate(v1), Archive}}
  \union {Start("workspace", Create(v1, g), Clone, Activate(v0)) : g \in Odd \union {Twice}}
  \union {Start(o, Clone, Archive, Activate(v0)) : o \in {"workspace", "system"}}
  \union {Start("system", Prepare(v0, "config"), Prepare(n, c), Prepare(v0, "config")) :
            n \in {v0, v1}, c \in {"config", "other"}}

McOne == {Start("workspace", Archive, Activate(v0), Clone)}
McHash == [t \in {t1, t2}, n \in {w1} |-> IF t = t1 THEN 65535 ELSE 40]
=============================================================================
