----------------------------- MODULE MCSfKinds ------------------------------
(***************************************************************************)
(* The kinds of stream that SfStream on a buffer is not: streams in memory *)
(* (SfTemp), a stream without a buffer, and one written in pages of zeros. *)
(* The initial state picks the kind; each is to be a file all the same.    *)
(***************************************************************************)
EXTENDS SfTemp

VARIABLES fsize, synced, data, hole, flag, pc, all, ok  \* what SfTemp has no use for

ownOfTemp   == <<mem, size, locked, pend>>
ownOfStream == <<fsize, synced, data, hole, flag, pc, all, ok>>

MCByte == {0, 1, 2}
MCPayloads == {<<1>>, <<1, 2, 1>>}
\* Memory that grows, application buffers, and temporary streams.
MCOrigins == {<<"grow", 2>>, <<"fixed", 3>>, <<"fixedw", 3>>, <<"temp", 2>>, <<"temp", 3>>}

\* Every byte goes to the kernel at once, which may do anything but hang.
Unbuffered == INSTANCE SfStream WITH
    Page <- 2, Size <- 0, Blksz <- 0, Grain <- 8, MaxPos <- 5, Initial <- {<<1, 2, 1>>},
    Payloads <- {<<1>>, <<2, 1, 2, 1, 2>>}, MaxRead <- 5,
    Ops <- {"write", "putc", "read", "getc", "seek", "sync", "purge", "tell", "size"},
    Faults <- {"writefail", "readfail", "shortread", "shortwrite"}

\* Pages of zeros (of two bytes) are seeked over, in a new and in an old file.
Zeros == INSTANCE SfStream WITH
    Page <- 2, Size <- 4, Blksz <- 2, Grain <- 8, MaxPos <- 9, Initial <- {<<>>, <<1, 2, 1>>},
    Payloads <- {<<1>>, <<1, 1>>, <<0, 0, 2>>, <<0, 0, 0, 0>>}, MaxRead <- 5,
    Ops <- {"write", "putc", "sync"}, Faults <- {"shortwrite"}

AllVars == <<vars, ownOfStream>>
OfMemory == kind \notin {"unbuffered", "zeros"}

NoTemp == mem = 0 /\ size = 0 /\ locked = 0 /\ pend = 0
NoStream ==
  /\ fsize = 0 /\ synced = 0 /\ data = 0 /\ hole = 0
  /\ flag = 0 /\ pc = 0 /\ all = 0 /\ ok = 0

AllInit ==
  \/ Init /\ NoStream
  \/ kind = "unbuffered" /\ Unbuffered!Init /\ NoTemp
  \/ kind = "zeros" /\ Zeros!Init /\ NoTemp

UnbufferedNext == kind = "unbuffered" /\ Unbuffered!Next /\ UNCHANGED <<kind, ownOfTemp>>
ZerosNext      == kind = "zeros" /\ Zeros!Next /\ UNCHANGED <<kind, ownOfTemp>>
MemoryNext     == OfMemory /\ Next /\ UNCHANGED ownOfStream

AllNext == MemoryNext \/ UnbufferedNext \/ ZerosNext
AllSpec == AllInit /\ [][AllNext]_AllVars

\* Whatever its kind, a stream is a file (SfFile): the bytes of a write are
\* accepted in order at one position and read back from it, when the memory
\* grows or becomes a file, when nothing is buffered and every write may be
\* short, and when zeros are left out of the file.
KindsAreFiles ==
  /\ OfMemory => File!Init
  /\ kind = "unbuffered" => Unbuffered!File!Init
  /\ kind = "zeros" => Zeros!File!Init
  /\ [][OfMemory => File!Next \/ UNCHANGED File!vars]_AllVars
  /\ [][kind = "unbuffered" => Unbuffered!File!Next \/ UNCHANGED Unbuffered!File!vars]_AllVars
  /\ [][kind = "zeros" => Zeros!File!Next \/ UNCHANGED Zeros!File!vars]_AllVars
=============================================================================
