-------------------------- MODULE PrepareRemovalMC --------------------------
(* One claim with a disk and a file system of its own, one with a disk alone. *)
EXTENDS PrepareRemoval, TLC

CONSTANTS d1, d2, f1, c1, c2

MCOwner == d1 :> c1 @@ d2 :> c2 @@ f1 :> c1
=============================================================================
