-------------------------- MODULE WorkflowVersions --------------------------
(***************************************************************************)
(* Workflow definitions and their versions (workflow/routes.ts), and the   *)
(* preparation of executions from a version (prepare-service.ts).  No      *)
(* route uses a transaction: a version, its nodes and its edges are        *)
(* written row by row while other calls read them, and a call may break    *)
(* off between two rows.                                                   *)
(***************************************************************************)
EXTENDS WorkflowGraphs

CONSTANTS Authors,    \* calls of the routes and of the preparation
          Flows,      \* ids of workflow definitions
          Versions,   \* ids of versions
          MaxFailures \* bound of the model: statements that fail

VARIABLES flow,      \* workflow_definitions
          version,   \* workflow_versions, with the rows of nodes and edges
          snapshot,  \* the snapshots, with the execution made from each
          call,      \* each call: what it asks, how far it is, what it read
          failures

versionVars == <<flow, version, snapshot, call, failures>>

Nobody == "none"
Blank == [nodes |-> <<>>, edges |-> <<>>]
NoVersion == [flow |-> Nobody, number |-> 0, status |-> "none", nodes |-> <<>>, edges |-> <<>>]

Ask(c) == call[c].ask
Working(c, op, at) == Ask(c).op = op /\ call[c].at = at
Goes(c, at) == call' = [call EXCEPT ![c].at = at]
OpenFlow(f) == flow[f].status = "active" /\ flow[f].owner = "workspace"
NumbersOf(f) == {version[v].number : v \in {w \in Versions : version[w].flow = f}}
Rows(v) == [nodes |-> version[v].nodes, edges |-> version[v].edges]

(* A statement of the call fails: it answers an error, its rows stay.      *)
Fails(c) ==
  /\ call[c].at \notin {"new", "answered", "refused", "failed"}
  /\ failures < MaxFailures
  /\ failures' = failures + 1
  /\ Goes(c, "failed")
  /\ UNCHANGED <<flow, version, snapshot>>

-----------------------------------------------------------------------------
(* POST .../versions: validate, take the next number, then insert.         *)
CreateVersion(c) ==
  /\ Working(c, "create", "new")
  /\ IF OpenFlow(Ask(c).flow) /\ Valid(Ask(c).graph)
       THEN LET taken == NumbersOf(Ask(c).flow) IN
            call' = [call EXCEPT ![c].at = "insert", ![c].graph = Ask(c).graph,
              ![c].number = 1 + (IF taken = {} THEN 0
                                 ELSE CHOOSE n \in taken : \A m \in taken : m <= n)]
       ELSE Goes(c, "refused")
  /\ UNCHANGED <<flow, version, snapshot, failures>>

(* POST .../clone: the current version, its nodes, its edges, one query    *)
(* after the other; what was read must pass the validator.                 *)
ReadCurrent(c) ==
  LET f == Ask(c).flow IN
  /\ Working(c, "clone", "new")
  /\ IF flow[f].status = "active" /\ flow[f].current # Nobody
       THEN call' = [call EXCEPT ![c].at = "nodes", ![c].source = flow[f].current]
       ELSE Goes(c, "refused")
  /\ UNCHANGED <<flow, version, snapshot, failures>>

ReadNodes(c) ==
  /\ Ask(c).op \in {"clone", "prepare"} /\ call[c].at = "nodes"
  /\ call' = [call EXCEPT ![c].at = "edges", ![c].graph.nodes = version[call[c].source].nodes]
  /\ UNCHANGED <<flow, version, snapshot, failures>>

ReadEdges_Unchecked(c) ==   \* mutant: the clone of what was read, whatever it is
  LET edges == version[call[c].source].edges IN
  /\ Ask(c).op \in {"clone", "prepare"} /\ call[c].at = "edges"
  /\ call' = [call EXCEPT ![c].graph.edges = edges,
                          ![c].at = IF Ask(c).op = "prepare" THEN "look" ELSE "define"]
  /\ UNCHANGED <<flow, version, snapshot, failures>>
ReadEdges(c) ==
  LET read == [nodes |-> call[c].graph.nodes, edges |-> version[call[c].source].edges] IN
  /\ Ask(c).op \in {"clone", "prepare"} /\ call[c].at = "edges"
  /\ call' = [call EXCEPT ![c].graph = read,
                          ![c].at = CASE Ask(c).op = "prepare" -> "look"
                                      [] Ask(c).op = "clone" /\ Valid(read) -> "define"
                                      [] OTHER -> "refused"]
  /\ UNCHANGED <<flow, version, snapshot, failures>>

InsertFlow(c) ==
  /\ Working(c, "clone", "define")
  /\ flow' = [flow EXCEPT ![Ask(c).copy] =
                [status |-> "active", owner |-> "workspace", current |-> Nobody]]
  /\ call' = [call EXCEPT ![c].at = "insert", ![c].number = 1]
  /\ UNCHANGED <<version, snapshot, failures>>

(* UNIQUE (workflow_definition_id, version_number) *)
FlowWritten(c) == IF Ask(c).op = "clone" THEN Ask(c).copy ELSE Ask(c).flow
NewVersion(c) == [NoVersion EXCEPT !.flow = FlowWritten(c), !.number = call[c].number,
                    !.status = IF Ask(c).op = "clone" THEN "active" ELSE "draft"]
InsertVersion(c) ==
  /\ Ask(c).op \in {"create", "clone"} /\ call[c].at = "insert"
  /\ IF call[c].number \in NumbersOf(FlowWritten(c))
       THEN UNCHANGED version /\ Goes(c, "failed")
       ELSE /\ version' = [version EXCEPT ![Ask(c).version] = NewVersion(c)]
            /\ Goes(c, IF Ask(c).op = "clone" THEN "point" ELSE "rows")
  /\ UNCHANGED <<flow, snapshot, failures>>

PointAtClone(c) ==
  /\ Working(c, "clone", "point")
  /\ flow' = [flow EXCEPT ![Ask(c).copy].current = Ask(c).version]
  /\ Goes(c, "rows")
  /\ UNCHANGED <<version, snapshot, failures>>

(* The next node, or when all are there the next edge; UNIQUE (version,     *)
(* from, to) refuses an edge that is given twice.                           *)
InsertRow(c) ==
  LET v == Ask(c).version
      n == Len(version[v].nodes)
      m == Len(version[v].edges)
      g == call[c].graph
  IN  /\ Ask(c).op \in {"create", "clone"} /\ call[c].at = "rows"
      /\ \/ /\ n < Len(g.nodes)
            /\ version' = [version EXCEPT ![v].nodes = Append(@, g.nodes[n + 1])]
            /\ UNCHANGED call
         \/ /\ n = Len(g.nodes) /\ m < Len(g.edges)
            /\ IF g.edges[m + 1] \in Members(version[v].edges)
                 THEN UNCHANGED version /\ Goes(c, "failed")
                 ELSE /\ version' = [version EXCEPT ![v].edges = Append(@, g.edges[m + 1])]
                      /\ UNCHANGED call
         \/ /\ n = Len(g.nodes) /\ m = Len(g.edges)
            /\ UNCHANGED version /\ Goes(c, "answered")
      /\ UNCHANGED <<flow, snapshot, failures>>

(* POST .../activate: any version of the definition, in two statements.     *)
ActivateVersion(c) ==
  LET v == Ask(c).version IN
  \/ /\ Working(c, "activate", "new")
     /\ IF OpenFlow(Ask(c).flow) /\ version[v].flow = Ask(c).flow
          THEN version' = [version EXCEPT ![v].status = "active"] /\ Goes(c, "point")
          ELSE UNCHANGED version /\ Goes(c, "refused")
     /\ UNCHANGED <<flow, snapshot, failures>>
  \/ /\ Working(c, "activate", "point")
     /\ flow' = [flow EXCEPT ![Ask(c).flow].current = v]
     /\ Goes(c, "answered")
     /\ UNCHANGED <<version, snapshot, failures>>

ArchiveFlow(c) ==
  /\ Working(c, "archive", "new")
  /\ IF OpenFlow(Ask(c).flow)
       THEN flow' = [flow EXCEPT ![Ask(c).flow].status = "archived"] /\ Goes(c, "answered")
       ELSE UNCHANGED flow /\ Goes(c, "refused")
  /\ UNCHANGED <<version, snapshot, failures>>

-----------------------------------------------------------------------------
(* prepareWorkflowExecution.  Membership, project, template and asset are   *)
(* accepted.  The checksum of a snapshot stands for the version and the     *)
(* configuration asked for.                                                 *)
Intent(c) == <<call[c].source, Ask(c).config>>
SnapshotsAt(key) == {s \in snapshot : s.key = key}

ReadVersion(c) ==
  /\ Working(c, "prepare", "new")
  /\ IF version[Ask(c).version].flow # Nobody
       THEN call' = [call EXCEPT ![c].at = "nodes", ![c].source = Ask(c).version]
       ELSE Goes(c, "refused")
  /\ UNCHANGED <<flow, version, snapshot, failures>>

LookUpSnapshot_AnyIntent(c) ==   \* mutant: the key alone decides
  /\ Working(c, "prepare", "look")
  /\ IF SnapshotsAt(Ask(c).key) = {} THEN Goes(c, "persist")
     ELSE LET s == CHOOSE t \in SnapshotsAt(Ask(c).key) : TRUE IN
          call' = [call EXCEPT ![c].at = "answered", ![c].exec = s.exec]
  /\ UNCHANGED <<flow, version, snapshot, failures>>
LookUpSnapshot(c) ==
  /\ Working(c, "prepare", "look")
  /\ IF SnapshotsAt(Ask(c).key) = {} THEN Goes(c, "persist")
     ELSE LET s == CHOOSE t \in SnapshotsAt(Ask(c).key) : TRUE IN
          IF s.intent = Intent(c)
            THEN call' = [call EXCEPT ![c].at = "answered", ![c].exec = s.exec]
            ELSE Goes(c, "refused")
  /\ UNCHANGED <<flow, version, snapshot, failures>>

(* The unique index on the key of the workspace. *)
PersistSnapshot(c) ==
  /\ Working(c, "prepare", "persist")
  /\ IF SnapshotsAt(Ask(c).key) # {} THEN UNCHANGED snapshot /\ Goes(c, "failed")
     ELSE /\ snapshot' = snapshot \union
               {[key |-> Ask(c).key, intent |-> Intent(c), by |-> c,
                 graph |-> call[c].graph, exec |-> Nobody, rows |-> {}]}
          /\ Goes(c, "execution")
  /\ UNCHANGED <<flow, version, failures>>

(* The execution, prepared, in mode dry_run; then its node rows, pending.   *)
PersistExecution(c) ==
  LET own == CHOOSE s \in snapshot : s.by = c IN
  \/ /\ Working(c, "prepare", "execution")
     /\ snapshot' = (snapshot \ {own}) \union {[own EXCEPT !.exec = c]}
     /\ Goes(c, "node rows")
     /\ UNCHANGED <<flow, version, failures>>
  \/ /\ Working(c, "prepare", "node rows")
     /\ snapshot' = (snapshot \ {own}) \union {[own EXCEPT !.rows = KeysOf(own.graph)]}
     /\ call' = [call EXCEPT ![c].at = "answered", ![c].exec = c]
     /\ UNCHANGED <<flow, version, failures>>

-----------------------------------------------------------------------------
VersionsInit(start) ==
  /\ flow = start.flows
  /\ version = start.versions
  /\ snapshot = {}
  /\ call = [c \in Authors |-> [ask |-> start.asks[c], at |-> "new", graph |-> Blank,
                                number |-> 0, source |-> Nobody, exec |-> Nobody]]
  /\ failures = 0

VersionsNext ==
  \E c \in Authors :
     \/ CreateVersion(c) \/ ReadCurrent(c) \/ ReadNodes(c) \/ ReadEdges(c) \/ InsertFlow(c)
     \/ InsertVersion(c) \/ PointAtClone(c) \/ InsertRow(c) \/ ActivateVersion(c) \/ ArchiveFlow(c)
     \/ ReadVersion(c) \/ LookUpSnapshot(c) \/ PersistSnapshot(c) \/ PersistExecution(c)
     \/ Fails(c)

VersionsTypeOK ==
  /\ \A f \in Flows : /\ flow[f].status \in {"none", "active", "archived"}
                      /\ flow[f].current \in Versions \union {Nobody}
  /\ \A v \in Versions : /\ version[v].flow \in Flows \union {Nobody}
                         /\ version[v].status \in {"none", "draft", "active"}
  /\ \A u, v \in Versions : version[u].flow = version[v].flow /\ version[u].number = version[v].number
                             => u = v \/ version[u].flow = Nobody
  /\ \A s \in snapshot : s.exec \in Authors \union {Nobody} /\ s.rows \subseteq KeysOf(s.graph)

(* A version whose creation or cloning was answered holds a graph that     *)
(* passes the validator, although its rows were written one by one and the *)
(* clone's were read while another call was still writing its source.      *)
AnsweredIsValid ==
  \A c \in Authors :
     Ask(c).op \in {"create", "clone"} /\ call[c].at = "answered" => Valid(Rows(Ask(c).version))

(* One execution for each idempotency key: two preparations answered under *)
(* one key asked for the same, and name the same execution unless the      *)
(* first broke off before it made one; that one has its snapshot.          *)
KeyNamesOneExecution ==
  /\ \A s, t \in snapshot : s.key = t.key => s = t
  /\ \A c, d \in Authors :
        /\ Ask(c).op = "prepare" /\ call[c].at = "answered"
        /\ Ask(d).op = "prepare" /\ call[d].at = "answered"
        /\ Ask(c).key = Ask(d).key
        => /\ Intent(c) = Intent(d)
           /\ Nobody \in {call[c].exec, call[d].exec} \/ call[c].exec = call[d].exec
=============================================================================
