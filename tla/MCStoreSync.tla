------------------------------ MODULE MCStoreSync ------------------------------
(* Small instances of StoreSync for TLC. *)
EXTENDS StoreSync, TLC

SyncSymmetry == Permutations(Machines)
=============================================================================
