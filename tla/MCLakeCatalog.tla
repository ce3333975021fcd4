--------------------------- MODULE MCLakeCatalog ---------------------------
(* The instance of LakeCatalog for TLC. *)
EXTENDS LakeCatalog

CONSTANTS w1, w2

=============================================================================
