----------------------------- MODULE SfChannel ------------------------------
(***************************************************************************)
(* A stream and the discipline its I/O goes through.  Below the discipline *)
(* is a file of the system (raw) or other streams (parts): the shadow of a *)
(* seekable pipe, the parent of substreams, the streams of a union, the    *)
(* stream that is teed to.  A call of the application is one call of the   *)
(* discipline's function; the buffer of the stream is left out.            *)
(***************************************************************************)
EXTENDS Integers, Sequences, FiniteSetsExt, SequencesExt

CONSTANTS
    Starts,     \* the initial states: kind, raw, parts, d, at
    Counts,     \* bound: how much a call asks for
    Data,       \* bound: what a call writes
    Targets,    \* bound: where a call seeks to
    MaxLength   \* bound: of a file that is written

VARIABLES
    kind,       \* the discipline
    raw,        \* data and at: the file of the system; least: see Raw
    parts,      \* data, at and eof of each stream
    d,          \* the private state of the discipline
    at,         \* where each user stands, or Open
    broken,     \* a call of the system has failed
    last        \* the last call

vars == <<kind, raw, parts, d, at, broken, last>>

Open == -1
Users == {0, 1, 2}      \* the application's stream is 1

Least(a, b) == IF a < b THEN a ELSE b

(* How many bytes a read of n from the file of the system gives: at least  *)
(* raw.least, as long as there are as many.                                *)
Left == Len(raw.data) - raw.at
Raw(n) == Least(raw.least, Least(n, Left)) .. Least(n, Left)
RawBytes(k) == SubSeq(raw.data, raw.at + 1, raw.at + k)

(* A read of a stream: all there is, up to n, and the flag when it ends.   *)
PartBytes(s, n) == SubSeq(s.data, s.at + 1, Least(s.at + n, Len(s.data)))
PartRead(s, n) ==
    LET k == Len(PartBytes(s, n)) IN [s EXCEPT !.at = @ + k, !.eof = k < n]
PartSeek(s, p) == [s EXCEPT !.at = p, !.eof = FALSE]
PartWrite(s, b) ==
    [s EXCEPT !.data = SubSeq(@, 1, s.at) \o b \o SubSeq(@, s.at + Len(b) + 1, Len(@)),
              !.at = @ + Len(b)]

(* The result of a call of user u.                                         *)
ReadGives(u, n, bytes) ==
    /\ last' = [op |-> "read", user |-> u, n |-> n, ret |-> Len(bytes), data |-> bytes]
    /\ at' = [at EXCEPT ![u] = IF @ = Open THEN Open ELSE @ + Len(bytes)]
WriteGives(u, b, k) ==
    /\ last' = [op |-> "write", user |-> u, n |-> Len(b), ret |-> k, data |-> b]
    /\ at' = [at EXCEPT ![u] = @ + k]
SeekGives(u, whence, p, ret, left) ==       \* left: the place after a failure
    /\ last' = [op |-> "seek", user |-> u, whence |-> whence, n |-> p, ret |-> ret, data |-> << >>]
    /\ at' = [at EXCEPT ![u] = IF ret < 0 THEN left ELSE ret]

Init ==
    /\ \E s \in Starts :
           kind = s.kind /\ raw = s.raw /\ parts = s.parts /\ d = s.d /\ at = s.at
    /\ broken = FALSE
    /\ last = [op |-> "none"]
=============================================================================
