--------------------------- MODULE MCResourceRuns ---------------------------
(* Instances of ResourceRuns for TLC. *)
EXTENDS ResourceRuns, TLC

CONSTANTS w1, w2

Symmetry == Permutations(Workers)

=============================================================================
