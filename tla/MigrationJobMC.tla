--------------------------- MODULE MigrationJobMC ---------------------------
(* The pods of MigrationJob are interchangeable: their slots carry no order. *)
EXTENDS MigrationJob, TLC

PodSymmetry == Permutations(Pods)
=============================================================================
