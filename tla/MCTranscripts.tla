---------------------------- MODULE MCTranscripts ----------------------------
EXTENDS Transcriptions, TLC

CONSTANTS p1, p2, t1, t2, t3, s1, s2

McTrackKey == [j \in Jobs |-> IF j \in Parses THEN "attached" ELSE "generated"]
McRunKey == [r \in Transcripts |-> IF r = t3 THEN "other profile" ELSE "profile"]

(* One track attached again; one run requested again; two runs that make    *)
(* the same track; one run over media of one, two and three segments.       *)
Case(S, d, requests, pool) == [jobs |-> S, duration |-> d, may |-> requests, pool |-> pool]
McScenarios == {
  Case({p1, p2}, 4, {"delete track", "delete asset"}, {s1}),
  Case({t1, t2}, 4, {"cancel"}, Sessions),
  Case({t1, t3}, 4, {"delete track"}, Sessions),
  Case({t1}, 11, {"cancel", "delete asset", "delete track"}, {s1}),
  Case({t1}, 18, {}, {s1})}
McLock == {Case({t1}, 4, {}, Sessions)}
Symm == Permutations(Parses) \union Permutations({t1, t2}) \union Permutations(Sessions)
=============================================================================
