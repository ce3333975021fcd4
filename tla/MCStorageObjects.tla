-------------------------- MODULE MCStorageObjects --------------------------
(* Instances of StorageObjects for TLC. *)
EXTENDS StorageObjects, TLC

CONSTANT w1


=============================================================================
