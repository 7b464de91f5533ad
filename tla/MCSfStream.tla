----------------------------- MODULE MCSfStream -----------------------------
(* Small instances of SfStream: bytes are 0, 1 and 2.                        *)
EXTENDS SfStream

MCByte == 0 .. 2

\* A write of one byte, and one of three that does not fit a buffer of two.
MCPayloads == {<<1>>, <<2, 1, 2, 1, 2>>}

MCInitial == {<<1, 2, 1>>}

AllOps == {"write", "putc", "read", "getc", "seek", "sync", "purge", "tell", "size"}
=============================================================================
