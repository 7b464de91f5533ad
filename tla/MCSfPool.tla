------------------------------ MODULE MCSfPool ------------------------------
(* Streams and buffer sizes for TLC. *)
EXTENDS SfPool, TLC

CONSTANTS w1, w2, w3, r1

OneAndTwo == [f \in Stream |-> IF f \in {w1, r1} THEN 2 ELSE 1]

\* w2 and w3 are both new at the start and have buffers of the same size.
Alike == Permutations({w2, w3})
=============================================================================
