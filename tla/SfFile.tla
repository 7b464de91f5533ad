------------------------------- MODULE SfFile -------------------------------
(***************************************************************************)
(* What a stream opened for reading and writing on a regular file promises *)
(* its caller, whatever it buffers: one file content, one position, bytes  *)
(* accepted in order by a write, handed out from the position by a read,   *)
(* and a seek that goes where it was asked to go.  The disk may lag behind *)
(* the content; a byte of the disk is only ever replaced by the byte the   *)
(* content has there.  SfStream (the buffered code) implements this.       *)
(***************************************************************************)
EXTENDS Integers, Sequences

CONSTANTS Byte,     \* the values of a byte
          Zero,     \* the byte 0
          MaxPos,   \* bound: positions of the file are 0 .. MaxPos
          Payloads  \* bound: what the application writes

VARIABLES content,  \* the bytes of the file as the application sees them
          len,      \* the length of the file as the application sees it
          pos,      \* the position of the next byte read or written
          disk,     \* the bytes the kernel has
          dlen,     \* the length the kernel has
          call,     \* the call being executed, "none" between calls
          src, off, \* write: the bytes to write and how many were accepted
          got,      \* read: the bytes handed out so far
          whence, amt, \* seek: the origin and displacement; read: the count
          ret       \* the result of the last call

vars == <<content, len, pos, disk, dlen, call, src, off, got, whence, amt, ret>>

fileVars == <<content, len, pos, disk, dlen>>
argVars  == <<call, src, whence, amt>>

Index == 0 .. MaxPos - 1

Init ==
  /\ disk \in [Index -> Byte] /\ dlen \in 0 .. MaxPos
  /\ \A i \in Index : i >= dlen => disk[i] = Zero
  /\ content = disk /\ len = dlen /\ pos = 0
  /\ call = "none" /\ src = <<>> /\ off = 0 /\ got = <<>>
  /\ whence = "set" /\ amt = 0 /\ ret = 0

\* The application makes a call.
Call ==
  /\ call = "none"
  /\ call' \in {"write", "putc", "read", "getc", "seek", "sync", "purge", "tell", "size", "resize"}
  /\ src' \in {<<>>} \cup Payloads
  /\ off' = 0 /\ got' = <<>> /\ ret' = 0
  /\ whence' \in {"set", "cur", "end"} /\ amt' \in Int
  /\ UNCHANGED fileVars

\* The disk catches up with the content at any number of places.
WritesBack(new) ==
  /\ \A i \in Index : disk'[i] \in {disk[i], new[i]}
  /\ dlen' >= dlen

\* The next k bytes of a write are accepted at the position.
Put(k) ==
  /\ call \in {"write", "putc"} /\ off + k <= Len(src)
  /\ content' = [i \in Index |-> IF i \in pos .. pos + k - 1
                                   THEN src[off + 1 + i - pos] ELSE content[i]]
  /\ len' = IF pos + k > len THEN pos + k ELSE len
  /\ pos' = pos + k /\ off' = off + k
  /\ WritesBack(content') /\ dlen' <= len'
  /\ UNCHANGED <<argVars, got, ret>>

\* The next k bytes of the file are handed to a reader.
Get(k) ==
  /\ call \in {"read", "getc"} /\ Len(got) + k <= amt /\ pos + k <= len
  /\ got' = got \o [j \in 1 .. k |-> content[pos + j - 1]]
  /\ pos' = pos + k
  /\ UNCHANGED <<argVars, content, len, disk, dlen, off, ret>>

\* Buffered bytes reach the disk, in any call; nothing else changes.
WriteBack ==
  /\ call # "none"
  /\ WritesBack(content) /\ dlen' <= len
  /\ UNCHANGED <<argVars, content, len, pos, src, off, got, ret>>

\* The results a call may return without moving the position.
Results ==
  CASE call = "write" -> {off}
    [] call = "putc"  -> {IF off = 1 THEN 1 ELSE -1}
    [] call \in {"read", "getc"} -> {IF Len(got) = 0 THEN -1 ELSE Len(got), Len(got)}
    [] call = "sync"  -> {0, -1}
    [] call = "tell"  -> {pos}
    [] OTHER -> {}

Return ==
  /\ call # "none"
  /\ call' = "none" /\ src' = <<>> /\ off' = 0 /\ got' = <<>>
  /\ whence' = "set" /\ amt' = 0

ReturnResult == Return /\ ret' \in Results /\ UNCHANGED fileVars

\* sfsize: at least what the file holds (SfStream says when it is more).
ReturnSize == Return /\ call = "size" /\ ret' >= len /\ UNCHANGED fileVars

\* A seek lands exactly where it was asked to, or fails and moves nothing.
Target == amt + (CASE whence = "set" -> 0 [] whence = "cur" -> pos [] whence = "end" -> len)

ReturnSeek ==
  /\ Return /\ call = "seek"
  /\ \/ Target >= 0 /\ pos' = Target /\ ret' = Target
     \/ ret' < 0 /\ pos' = pos
  /\ UNCHANGED <<content, len, disk, dlen>>

\* A purge forgets what the disk does not have, and the position with it.
ReturnPurge ==
  /\ Return /\ call = "purge" /\ ret' = 0
  /\ content' = disk /\ len' = dlen /\ pos' \in 0 .. pos
  /\ UNCHANGED <<disk, dlen>>

\* sfresize cuts the content off or adds zeros; the position stays.
ReturnResize ==
  /\ Return /\ call = "resize"
  /\ \/ /\ ret' = 0 /\ len' = amt /\ pos' = pos
        /\ content' = [i \in Index |-> IF i < amt /\ i < len THEN content[i] ELSE Zero]
        /\ disk' = content' /\ dlen' = len'
     \/ ret' = -1 /\ UNCHANGED fileVars

\* A stream that a failing call left locked refuses every call.
ReturnRefused == Return /\ ret' = -1 /\ off = 0 /\ got = <<>> /\ UNCHANGED fileVars

Next ==
  \/ Call \/ WriteBack
  \/ \E k \in 1 .. MaxPos : Put(k) \/ Get(k)
  \/ ReturnResult \/ ReturnSize \/ ReturnSeek \/ ReturnPurge \/ ReturnResize \/ ReturnRefused

Spec == Init /\ [][Next]_vars
=============================================================================
