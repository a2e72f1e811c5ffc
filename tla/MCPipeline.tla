----------------------------- MODULE MCPipeline -----------------------------
EXTENDS ContentPipeline, TLC

CONSTANTS r1, r2

Alone == r1 :> r1 @@ r2 :> r2
Chain == r1 :> r1 @@ r2 :> r1
Case(k1, k2, c1, c2, f, same) ==
  [kind |-> r1 :> k1 @@ r2 :> k2, cost |-> r1 :> c1 @@ r2 :> c2, from |-> f,
   key |-> IF same THEN [r \in Runs |-> r1] ELSE [r \in Runs |-> r]]

(* Two runs of each pipeline that contend for the budget, one that exceeds  *)
(* the per-run limit, two with one key; and the chains translation - speech *)
(* and speech - video.                                                      *)
McCases ==
  {Case(k, k, 2, 2, Alone, FALSE) : k \in Kinds}
  \union {Case("translation", "translation", 1, 3, Alone, FALSE),
          Case("translation", "translation", 1, 1, Alone, TRUE),
          Case("translation", "tts", 1, 1, Chain, FALSE),
          Case("tts", "render", 1, 1, Chain, FALSE)}
Symm == Permutations(Runs)
=============================================================================
