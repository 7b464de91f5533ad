---------------------------- MODULE SfdcStreams -----------------------------
(***************************************************************************)
(* The disciplines that go through other streams: a pipe made seekable by  *)
(* a shadow of what was read, a sequence of streams read as one, windows   *)
(* of a parent stream as streams, and a stream that is teed to another.    *)
(***************************************************************************)
EXTENDS SfChannel

-----------------------------------------------------------------------------
(* sfdcseekable: parts[1] is the shadow, d.eof says the pipe has ended.    *)
Shadow == parts[1]
Extent == Len(Shadow.data)

ShadowRead(n) ==
    /\ d.eof \/ Shadow.at + n <= Extent
    /\ ReadGives(1, n, PartBytes(Shadow, n))
    /\ parts' = <<PartRead(Shadow, n)>>
    /\ UNCHANGED <<raw, d, broken>>

SkCount(n) == n - (Extent - Shadow.at)

PipeRead(n) ==
    /\ ~d.eof /\ Shadow.at + n > Extent
    /\ \E k \in Raw(SkCount(n)) :
           /\ ReadGives(1, n, PartBytes(Shadow, n) \o RawBytes(k))
           /\ raw' = [raw EXCEPT !.at = @ + k]
           /\ parts' = <<[data |-> Shadow.data \o RawBytes(k), at |-> Extent + k, eof |-> FALSE]>>
           /\ d' = [eof |-> k = 0]
    /\ UNCHANGED broken

PipeFails(n) ==
    /\ ~d.eof /\ ~broken /\ Shadow.at + n > Extent
    /\ ReadGives(1, n, PartBytes(Shadow, n))
    /\ parts' = <<PartSeek(Shadow, Extent)>>
    /\ d' = [eof |-> TRUE]
    /\ broken' = TRUE
    /\ UNCHANGED raw

(* The seek starts at the end of the shadow, and stays there if it fails.  *)
(* Up to a place not read yet the pipe is read, which may end or fail.     *)
SkRefused(whence, p) ==
    /\ parts' = <<PartSeek(Shadow, Extent)>>
    /\ SeekGives(1, whence, p, -1, Open)
    /\ UNCHANGED <<raw, d, broken>>

SkBehind(whence, p, goal) ==
    /\ parts' = <<PartSeek(Shadow, goal)>>
    /\ SeekGives(1, whence, p, goal, Open)
    /\ UNCHANGED <<raw, d, broken>>

SkAhead(whence, p, goal) ==
    LET more == goal - Extent
    IN  \E k \in 0 .. Least(more, Left) :
            /\ k = Least(more, Left) \/ ~broken
            /\ broken' = (broken \/ k < Least(more, Left))
            /\ raw' = [raw EXCEPT !.at = @ + k]
            /\ parts' = <<[data |-> Shadow.data \o RawBytes(k), at |-> Extent + k, eof |-> FALSE]>>
            /\ d' = [eof |-> k < more]
            /\ SeekGives(1, whence, p, IF k < more THEN -1 ELSE goal, Open)

SkSeek(whence, p) ==
    LET goal == IF whence = "set" THEN p ELSE p + Extent
    IN  IF goal < 0 \/ (goal > Extent /\ d.eof) THEN SkRefused(whence, p)
        ELSE IF goal > Extent THEN SkAhead(whence, p, goal)
        ELSE SkBehind(whence, p, goal)

SeekableNew == [eof |-> FALSE]

SeekableStep ==
    /\ kind = "seekable" /\ UNCHANGED kind
    /\ \/ \E n \in Counts : ShadowRead(n) \/ PipeRead(n) \/ PipeFails(n)
       \/ \E p \in Targets, w \in {"set", "end"} : SkSeek(w, p)

-----------------------------------------------------------------------------
(* sfdcunion: d.c is the stream in work, d.here the place, d.lower where   *)
(* each stream starts.  A read goes on in the next stream when one ends.   *)
RECURSIVE UnRead(_, _, _, _)
UnRead(ps, c, m, got) ==
    LET b == PartBytes(ps[c], m)
        qs == [ps EXCEPT ![c] = PartRead(@, m)]
    IN  IF (b = << >> /\ c = Len(ps)) \/ Len(b) = m THEN [parts |-> qs, c |-> c, data |-> got \o b]
        ELSE UnRead(qs, IF qs[c].eof /\ c < Len(ps) THEN c + 1 ELSE c, m - Len(b), got \o b)

UnionRead(n) ==
    LET r == UnRead(parts, d.c, n, << >>)
    IN  /\ parts' = r.parts
        /\ d' = [d EXCEPT !.c = r.c, !.here = @ + Len(r.data)]
        /\ ReadGives(1, n, r.data)

(* How much there is in a stream, and before it.                           *)
Size(i) == Len(parts[i].data) - d.lower[i]
Before(i) == FoldFunctionOnSet(+, 0, [j \in DOMAIN parts |-> Size(j)], 1 .. i - 1)

(* The stream a place is in, the last one for a place after them all.      *)
Holder(p) == CHOOSE i \in DOMAIN parts :
    /\ i < Len(parts) => p < Before(i) + Size(i)
    /\ \A j \in 1 .. i - 1 : p >= Before(j) + Size(j)

(* mutant: the streams after the one that holds the place are left alone   *)
RewoundNot(i, s) ==
    [j \in DOMAIN parts |-> IF j = i THEN PartSeek(parts[j], s) ELSE parts[j]]
Rewound(i, s) ==
    [j \in DOMAIN parts |->
       IF j < i THEN parts[j] ELSE PartSeek(parts[j], IF j = i THEN s ELSE d.lower[j])]

UnionSeek(whence, p) ==
    LET goal == IF whence = "set" THEN p ELSE p + Before(Len(parts)) + Size(Len(parts))
        i == Holder(goal)
    IN  IF goal < 0 THEN SeekGives(1, whence, p, -1, at[1]) /\ UNCHANGED <<parts, d>>
        ELSE /\ parts' = Rewound(i, goal - Before(i) + d.lower[i])
             /\ d' = [d EXCEPT !.c = i, !.here = goal]
             /\ SeekGives(1, whence, p, goal, Open)

UnionNew(ps) == [c |-> 1, here |-> 0, lower |-> [i \in DOMAIN ps |-> ps[i].at]]

UnionStep ==
    /\ kind = "union" /\ UNCHANGED kind
    /\ \/ \E n \in Counts : UnionRead(n)
       \/ \E p \in Targets, w \in {"set", "end"} : UnionSeek(w, p)
    /\ UNCHANGED <<raw, broken>>

-----------------------------------------------------------------------------
(* sfdcsubstream: parts[1] is the parent, whose user is 0; users 1 and 2   *)
(* have windows of it.  d[u] = [offset, extent, here], extent Open if the  *)
(* window has no end.  Where a window stands is what the memory of the     *)
(* discipline held before (here is not set), until the first seek.         *)
Parent == parts[1]
SubCount(u, n) ==
    IF d[u].extent # Open /\ n > d[u].extent - d[u].here THEN d[u].extent - d[u].here ELSE n

Back(s) == PartSeek(s, Parent.at)

SubRead(u, n) ==
    LET s == PartSeek(Parent, d[u].offset + d[u].here)
        m == SubCount(u, n)
        b == PartBytes(s, m)
    IN  IF m <= 0 THEN ReadGives(u, n, << >>) /\ UNCHANGED <<parts, d>>
        ELSE /\ parts' = <<Back(PartRead(s, m))>>
             /\ d' = [d EXCEPT ![u].here = @ + Len(b)]
             /\ ReadGives(u, n, b)

(* The parent may write a part, and the file may be full.                  *)
SubWrite(u, b) ==
    LET s == PartSeek(Parent, d[u].offset + d[u].here)
        m == SubCount(u, Len(b))
    IN  IF m <= 0 THEN WriteGives(u, b, 0) /\ UNCHANGED <<parts, d, broken>>
        ELSE \E k \in (IF broken THEN {m} ELSE 0 .. m) :
               /\ s.at <= Len(s.data) /\ s.at + k <= MaxLength
               /\ broken' = (broken \/ k < m)
               /\ parts' = <<Back(PartWrite(s, SubSeq(b, 1, k)))>>
               /\ d' = [d EXCEPT ![u].here = @ + k]
               /\ WriteGives(u, b, k)

SubSeek(u, whence, p) ==
    LET end == IF d[u].extent # Open THEN d[u].extent ELSE Len(Parent.data) - d[u].offset
        goal == IF whence = "set" THEN p ELSE p + end
    IN  IF goal < 0 \/ (d[u].extent # Open /\ goal >= d[u].extent)
        THEN SeekGives(u, whence, p, -1, at[u]) /\ UNCHANGED d
        ELSE SeekGives(u, whence, p, goal, Open) /\ d' = [d EXCEPT ![u].here = goal]

ParentRead(n) == ReadGives(0, n, PartBytes(Parent, n)) /\ parts' = <<PartRead(Parent, n)>>
ParentSeek(p) == SeekGives(0, "set", p, p, Open) /\ parts' = <<PartSeek(Parent, p)>>

SubNew(offset, extent, memory) == [offset |-> offset, extent |-> extent, here |-> memory]

SubstreamStep ==
    /\ kind = "substream" /\ UNCHANGED kind
    /\ \/ \E u \in {1, 2}, n \in Counts : SubRead(u, n) /\ UNCHANGED broken
       \/ \E u \in {1, 2}, b \in Data : at[u] # Open /\ SubWrite(u, b)
       \/ \E u \in {1, 2}, w \in {"set", "end"}, p \in Targets :
            SubSeek(u, w, p) /\ UNCHANGED <<parts, broken>>
       \/ \E n \in Counts : ParentRead(n) /\ UNCHANGED <<d, broken>>
       \/ \E p \in Targets : p <= Len(Parent.data) /\ p >= 0 /\ ParentSeek(p) /\ UNCHANGED <<d, broken>>
    /\ UNCHANGED raw

-----------------------------------------------------------------------------
(* sfdctee: what is written goes to parts[1] first, until that fails once; *)
(* d.status is the flag.  A write of the stream itself may be short.       *)
(* mutant: a short write to the tee is not a failure                       *)
TeeFailsAtNone(k, n) == k = 0
TeeFails(k, n) == k # n

TeeWrite(b) ==
    \E j \in 1 .. Len(b) :
    /\ Len(raw.data) + j <= MaxLength
    /\ \E k \in (IF d.status = 0 THEN 0 .. Len(b) ELSE {0}) :
           /\ parts' = <<PartWrite(parts[1], SubSeq(b, 1, k))>>
           /\ d' = [status |-> IF d.status = 0 /\ ~TeeFails(k, Len(b)) THEN 0 ELSE -1]
    /\ raw' = [raw EXCEPT !.data = @ \o SubSeq(b, 1, j), !.at = @ + j]
    /\ WriteGives(1, b, j)

TeeNew == [status |-> 0]

TeeStep ==
    /\ kind = "tee" /\ UNCHANGED kind
    /\ \E b \in Data : TeeWrite(b)
    /\ UNCHANGED broken
=============================================================================
