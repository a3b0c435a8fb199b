------------------------------ MODULE MCMemoryDir ------------------------------
(* A small instance of MemoryDir: two profiles share the directory, and the  *)
(* second session repeats an insight of the first.                           *)
EXTENDS MemoryDir, TLC

CONSTANTS s1, s2, w1, w2, h1, h2

MCOwner == s1 :> w1 @@ s2 :> w2
Says(h, d, m) == [insight |-> h, dispatch |-> d, marker |-> m]
MCText ==
    s1 :> <<Says(h1, TRUE, TRUE), Says(h2, FALSE, FALSE)>> @@ s2 :> <<Says(h1, FALSE, TRUE)>>
=============================================================================
