----------------------------- MODULE MCSfRecord -----------------------------
(* Instances of SfRecord for TLC.                                           *)
EXTENDS SfRecord

\* A byte and the separator.
MCByte == {1, 2}
MCKinds == {"file", "pipe"}
\* Nothing, within the buffer, beyond it, and at least some.
MCBlocks == {-2, 0, 1, 3}
=============================================================================
