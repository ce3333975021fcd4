--------------------------- MODULE MCSearchDocSync ---------------------------
EXTENDS SearchDocSync, TLC

CONSTANTS d1, r1, r2, q1, q2, w1

Symmetry == Permutations(Requests)
=============================================================================
