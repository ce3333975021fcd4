----------------------------- MODULE MCJobStore -----------------------------
EXTENDS JobStore, TLC

CONSTANTS w1, w2, k1, k2, j1, j2, r1, r2

Terms(kinds, delayed, priorities) ==
    [kind : kinds, delayed : delayed, priority : priorities]
OneAsk == Terms({k1}, {FALSE}, {2})
\* An urgent job that can wait, a less urgent one wanted now, and another kind.
MixedTerms ==
    Terms({k1}, {FALSE}, {3}) \cup Terms({k1}, {TRUE}, {1}) \cup Terms({k2}, {FALSE}, {2})

AllHandle == [w \in Workers |-> Kinds]
OldHandles == [w \in Workers |-> IF w = w1 THEN {k1} ELSE Kinds]

Symmetry == Permutations(Jobs) \cup Permutations(Requests)
=============================================================================
