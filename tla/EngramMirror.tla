---------------------------- MODULE EngramMirror ----------------------------
(***************************************************************************)
(* What the engram-persist Stop hook promises, without cursors, runs or    *)
(* retries: Engram (or the quarantine sidecar) receives the lines of each  *)
(* memory journal in journal order, at least once, and no line is passed   *)
(* over.  ADR-029 calls this the deterministic mirror.                      *)
(***************************************************************************)
EXTENDS Naturals, Sequences

CONSTANTS Kinds,      \* the two journals, decisions.jsonl and failures.jsonl
          MaxLines    \* bound on the lines of a journal

VARIABLES journal,    \* journal[k]: the class of every complete line
          mirrored    \* mirrored[k]: lines in the database or the sidecar

vars == <<journal, mirrored>>

LineClasses == {"good", "poison", "malformed"}

\* A line needs no mirroring when it cannot be decoded as JSON.
Settled(k, i) == i \in mirrored[k] \/ journal[k][i] = "malformed"

Init ==
    /\ journal \in [Kinds -> Seq({"good"})]
    /\ \A k \in Kinds : Len(journal[k]) <= MaxLines
    /\ \E done \in [Kinds -> 0 .. MaxLines] :
          /\ \A k \in Kinds : done[k] <= Len(journal[k])
          /\ mirrored = [k \in Kinds |-> 1 .. done[k]]

\* The compound-loop worker finishes one more line.
AppendLine(k, class) ==
    /\ Len(journal[k]) < MaxLines
    /\ journal' = [journal EXCEPT ![k] = Append(@, class)]
    /\ UNCHANGED mirrored

\* Line i reaches the mirror only after every line before it has.
MirrorLine(k, i) ==
    /\ i \in 1 .. Len(journal[k])
    /\ i \notin mirrored[k]
    /\ journal[k][i] # "malformed"
    /\ \A j \in 1 .. i - 1 : Settled(k, j)
    /\ mirrored' = [mirrored EXCEPT ![k] = @ \cup {i}]
    /\ UNCHANGED journal

Next == \E k \in Kinds :
            \/ \E class \in LineClasses : AppendLine(k, class)
            \/ \E i \in 1 .. MaxLines : MirrorLine(k, i)

Spec == Init /\ [][Next]_vars
=============================================================================
