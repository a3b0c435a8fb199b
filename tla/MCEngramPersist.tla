--------------------------- MODULE MCEngramPersist ---------------------------
(* Small instances of EngramPersist for TLC. *)
EXTENDS EngramPersist, TLC

RunSymmetry == Permutations(Runs)

\* One decision was there before the shared cursor, saved by both profiles.
MCInitLines == [k \in Kinds |-> IF k = "decision" THEN 1 ELSE 0]
MCOldCursors == {MCInitLines, ZeroOffsets}
MCNoCursors == {}
MCZeroOffsets == ZeroOffsets
\* The store's copy, written by another machine that had mirrored the line.
MCForeignCursor == MCInitLines
=============================================================================
