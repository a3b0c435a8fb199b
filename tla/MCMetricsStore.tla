---------------------------- MODULE MCMetricsStore ----------------------------
(* Small instances of MetricsStore for TLC. *)
EXTENDS MetricsStore, TLC

StoreSymmetry == Permutations(Messages) \cup Permutations(Procs)
=============================================================================
