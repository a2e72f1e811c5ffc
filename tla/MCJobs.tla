------------------------------- MODULE MCJobs -------------------------------
EXTENDS JobLifecycle, TLC

CONSTANTS j1, j2, w1, w2

Symm == Permutations(Jobs) \union Permutations(Workers)
=============================================================================
