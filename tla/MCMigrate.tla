------------------------------ MODULE MCMigrate ------------------------------
(* A small instance of Migrate. *)
EXTENDS Migrate, TLC
=============================================================================
