---------------------------- MODULE MCPublishing ----------------------------
EXTENDS PublishingJobs, TLC

CONSTANTS j1, j2, w1, w2, p1

(* Every job shares the global scope and belongs to project p1. *)
McScopesOf  == [j \in Jobs |-> {"global"}]
McLimit     == [s \in Scopes |-> 1]
McProjectOf == [j \in Jobs |-> p1]
Symm        == Permutations(Jobs) \union Permutations(Workers)
=============================================================================
