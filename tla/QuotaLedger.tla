---------------------------- MODULE QuotaLedger ----------------------------
(***************************************************************************)
(* What the publishing subsystem promises about a project's daily quota: a  *)
(* job first holds one operation, and what it holds is either given back or *)
(* spent, once. PublishingJobs implements this ledger with two tables, the  *)
(* reservations and the usage records, that several processes write.        *)
(***************************************************************************)
EXTENDS Naturals, FiniteSets

CONSTANTS Jobs, Projects, ProjectOf, DailyOps

VARIABLES held, spent

Of(p, S) == {j \in S : ProjectOf[j] = p}

Init == held = {} /\ spent = {}

(* An unspent job may hold again after it gave back. *)
Hold(j) ==
  /\ j \notin held \union spent
  /\ DailyOps = 0 \/ Cardinality(Of(ProjectOf[j], held)) +
                     Cardinality(Of(ProjectOf[j], spent)) < DailyOps
  /\ held' = held \union {j}
  /\ UNCHANGED spent

GiveBack(j) ==
  /\ j \in held
  /\ held' = held \ {j}
  /\ UNCHANGED spent

Spend(j) ==
  /\ j \in held
  /\ held' = held \ {j}
  /\ spent' = spent \union {j}

Next == \E j \in Jobs : Hold(j) \/ GiveBack(j) \/ Spend(j)

Spec == Init /\ [][Next]_<<held, spent>>
=============================================================================
