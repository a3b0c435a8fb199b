--------------------------- MODULE MCMetricsOutbox ---------------------------
(* Small instances of MetricsOutbox for TLC. *)
EXTENDS MetricsOutbox, TLC

ProcSymmetry == Permutations(Procs)
EventSymmetry == Permutations(Events)
AllSymmetry == ProcSymmetry \cup EventSymmetry
=============================================================================
