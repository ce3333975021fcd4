---------------------------- MODULE MCWorkerLanes ----------------------------
EXTENDS WorkerLanes, TLC

CONSTANTS j1, j2, l1, l2

Symmetry == Permutations(Jobs) \cup Permutations(Lanes)
==============================================================================
