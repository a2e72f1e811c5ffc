------------------------------- MODULE MCMedia -------------------------------
EXTENDS MediaPreprocess, TLC

CONSTANTS i1, i2, o1, o2

(* Two completions of one upload, one operation on an asset that is deleted *)
(* or completed again, two operations that contend.                         *)
McScenarios == {{i1, i2, "delete", "cancel"}, {i1, o1, "delete", "cancel"},
                {i1, i2, o1}, {i1, o1, o2, "cancel"}}
Symm == Permutations(Ingests) \union Permutations(Ops)
=============================================================================
