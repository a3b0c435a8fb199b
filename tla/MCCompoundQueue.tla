--------------------------- MODULE MCCompoundQueue ---------------------------
(* Small instances of CompoundQueue for TLC. *)
EXTENDS CompoundQueue, TLC

CONSTANTS s1, s2, a, b

WorkerSymmetry == Permutations(Workers)

\* UUIDs: every session has its own short id.
MCDistinctIds == [s \in Sessions |-> IF s = s1 THEN a ELSE b]
\* Codex: the stem is rollout-<date>-<uuid>, its first eight characters constant.
MCSameId == [s \in Sessions |-> a]
=============================================================================
