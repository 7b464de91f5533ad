------------------------------ MODULE SfRecord ------------------------------
(***************************************************************************)
(* Records, reservations and push back on a read stream: sfgetr hands out  *)
(* a record inside the buffer or gathers it in the reserve buffer f->rsrv, *)
(* sfreserve lends the buffer (SF_PEEK) or reads into f->rsrv, sfungetc    *)
(* stacks a stream of pushed back bytes on top.  The stream reads a file   *)
(* that may grow, or a pipe shared with other readers (SF_SHARE), where    *)
(* sfpkrd looks at the bytes and takes a record at a time.                 *)
(***************************************************************************)
EXTENDS Integers, Sequences

CONSTANTS Byte, Sep, Nul,
          Kinds,      \* what the stream reads: a subset of {"file", "pipe"}
          BufSize,    \* f->size
          MaxInput,   \* bound: the bytes of the file or the pipe
          MaxBack,    \* bound: the bytes pushed back
          Blocks,     \* bound: the sizes sfreserve is asked for
          Ops         \* the calls the application makes

ASSUME BytesAssumption == Sep \in Byte /\ Byte \subseteq Int
ASSUME SizesAssumption ==
  /\ Kinds \subseteq {"file", "pipe"} /\ BufSize \in Nat \ {0}
  /\ MaxInput \in Nat /\ MaxBack \in Nat /\ Blocks \subseteq Int

VARIABLES kind, input,     \* what is read, and the bytes the kernel still has
          data, next,      \* the bytes from f->data to f->endb, and f->next
          stacked, pushed, \* whether the stream of pushed back bytes is on top, and its bytes
          undo,            \* SF_GETR: a null byte stands for the separator before next
          lent,            \* SF_PEEK: "none", "record" (with SF_GETR) or "block"
          pkrd,            \* SF_PKRD: the buffer was peeked, the kernel still has its bytes
          broken,          \* f->rsrv when its slen is negative
          val,             \* f->val after a call that failed
          op, how, want, part, now, side, \* the call, its arguments and progress
          out, ok          \* its result

kernel == <<kind, input>>
buffer == <<data, next, stacked, pushed, undo>>
lending == <<lent, pkrd>>
call == <<op, how, want, part, now, side>>
vars == <<kernel, buffer, lending, broken, val, call, out, ok>>

First(s, k) == SubSeq(s, 1, k)
After(s, k) == SubSeq(s, k + 1, Len(s))
Least(a, b) == IF a < b THEN a ELSE b
Abs(n) == IF n < 0 THEN -n ELSE n
Complete(s) == s # <<>> /\ s[Len(s)] = Sep

\* The bytes from f->next to f->endb of the stream on top.
Available == IF stacked THEN pushed ELSE After(data, next)

\* f->next moves over k of them.
Pass(k) ==
  IF stacked THEN pushed' = After(pushed, k) /\ UNCHANGED next ELSE next' = next + k /\ UNCHANGED pushed

----------------------------------------------------------------------------
(* The calls.                                                              *)

Arguments(o, h, w) ==
  /\ op = "none" /\ op' = o /\ how' = h /\ want' = w
  /\ part' = <<>> /\ now' = -1 /\ side' = FALSE

\* SF_LASTR is for after a call that failed.
Call ==
  /\ \/ \E h \in {"plain", "string", "lock"} : "getr" \in Ops /\ Arguments("getr", h, 0)
     \/ \E h \in {"plain", "lock"}, w \in Blocks :
          "reserve" \in Ops /\ (h = "lock" => w >= 0) /\ Arguments("reserve", h, w)
     \/ \E w \in {1, BufSize + 1} : "read" \in Ops /\ Arguments("read", "plain", w)
     \/ \E c \in Byte : "unget" \in Ops /\ Len(pushed) < MaxBack /\ Arguments("unget", "plain", c)
     \/ \E o \in {"last", "lastblock"} : ~ok /\ lent = "none" /\ Arguments(o, "plain", 0)
     \/ \E w \in 0 .. Len(out) :
          lent # "none" /\ (lent = "record" => w = 0) /\ Arguments("release", "plain", w)
  /\ out' = (IF lent = "none" THEN <<>> ELSE out) /\ ok' = TRUE
  /\ val' = (IF op' \in {"last", "lastblock"} THEN val ELSE 0)
  /\ UNCHANGED <<kernel, buffer, lending, broken>>

Return(o, success) ==
  /\ op' = "none" /\ how' = "plain" /\ want' = 0 /\ part' = <<>> /\ now' = -1 /\ side' = FALSE
  /\ out' = o /\ ok' = success

\* _sfmode: a stream whose buffer is lent is frozen ...
Refused ==
  /\ lent # "none" /\ op \notin {"none", "release"} /\ Return(out, FALSE)
  /\ UNCHANGED <<kernel, buffer, lending, broken, val>>

\* ... and a separator that was overwritten is put back first.
PutBack ==
  /\ undo /\ lent = "none" /\ op \notin {"none", "release"}
  /\ undo' = FALSE /\ data' = [data EXCEPT ![next] = Sep]
  /\ UNCHANGED <<kernel, next, stacked, pushed, lending, broken, val, call, out, ok>>

Ready(o) == op = o /\ lent = "none" /\ ~undo

----------------------------------------------------------------------------
(* Filling the buffer (sffilbuf, sfrd, sfpkrd).                            *)

\* sfgetr has not found the end of its record.
Getting == Ready("getr") /\ ~Complete(part)

\* What a read of at most n bytes can give.
Counts(n) == IF n = 0 \/ input = <<>> THEN {0} ELSE 1 .. Least(n, Len(input))

\* Mutant of UpToSep: the peek takes all there is.
UpToAll(n) == Counts(n)

\* sfpkrd with a separator: nothing is taken past the first one.
UpToSep(n) == {k \in Counts(n) : \A i \in 1 .. k - 1 : input[i] # Sep}

\* The stream of pushed back bytes is empty: it is popped and closed, and the
\* fill goes on below, for a record up to the separator as before.
Pop ==
  /\ stacked /\ pushed = <<>> /\ Getting
  /\ stacked' = FALSE
  /\ UNCHANGED <<kernel, data, next, pushed, undo, lending, broken, val, call, out, ok>>

\* A read of k bytes behind the bytes kept.
Fill(keep, k) == data' = keep \o First(input, k) /\ next' = 0 /\ input' = After(input, k)

Empty == ~stacked /\ Available = <<>>
Nothing == Available = <<>> /\ After(data, next) = <<>> /\ input = <<>>

\* A fill that finds nothing has popped what was pushed back, and left the buffer empty.
Drained == data' = <<>> /\ next' = 0 /\ stacked' = FALSE

----------------------------------------------------------------------------
(* sfgetr.                                                                 *)

GetrFill ==
  /\ Getting /\ Empty /\ input # <<>>
  /\ \E k \in IF kind = "pipe" THEN UpToSep(BufSize) ELSE Counts(BufSize) : Fill(<<>>, k)
  /\ UNCHANGED <<kind, stacked, pushed, undo, lending, broken, val, call, out, ok>>

\* Up to the separator, or everything there is.
RecordEnd ==
  LET ends == {i \in 1 .. Len(Available) : Available[i] = Sep}
  IN  IF ends = {} THEN Len(Available) ELSE CHOOSE i \in ends : \A j \in ends : i <= j

\* Mutant of InBuffer: the end of a record gathered in f->rsrv is handed out in place.
InBufferEnd == Available[RecordEnd] = Sep /\ ~(how = "string" /\ stacked)

\* A record that is whole in the buffer stays there, except a string among
\* pushed back bytes; any other is gathered in f->rsrv.
InBuffer == part = <<>> /\ Available[RecordEnd] = Sep /\ ~(how = "string" /\ stacked)

GetrTake ==
  /\ Getting /\ Available # <<>>
  /\ part' = (IF InBuffer THEN <<>> ELSE part) \o First(Available, RecordEnd)
  /\ side' = ~InBuffer /\ broken' = (IF InBuffer THEN broken ELSE <<>>)
  /\ Pass(RecordEnd)
  /\ UNCHANGED <<kernel, data, stacked, undo, lending, val, op, how, want, now, out, ok>>

\* SF_STRING replaces the separator, in the buffer until the next call.
GetrDone ==
  /\ Ready("getr") /\ Complete(part)
  /\ Return(IF how = "string" THEN [part EXCEPT ![Len(part)] = Nul] ELSE part, TRUE)
  /\ undo' = (how = "string" /\ ~side)
  /\ data' = IF how = "string" /\ ~side THEN [data EXCEPT ![next] = Nul] ELSE data
  /\ lent' = (IF how = "lock" THEN "record" ELSE "none")
  /\ UNCHANGED <<kernel, next, stacked, pushed, pkrd, broken, val>>

\* The end: what was gathered waits for SF_LASTR.
GetrFail ==
  /\ Getting /\ Empty /\ input = <<>> /\ Return(<<>>, FALSE)
  /\ broken' = IF part = <<>> THEN broken ELSE part
  /\ val' = Len(part) /\ data' = <<>> /\ next' = 0
  /\ UNCHANGED <<kernel, stacked, pushed, undo, lending>>

GetrLast ==
  /\ Ready("last") /\ Return(broken, broken # <<>>) /\ val' = 0 /\ broken' = <<>>
  /\ UNCHANGED <<kernel, buffer, lending>>

----------------------------------------------------------------------------
(* sfread, also into f->rsrv for sfreserve.                                *)

Need == Abs(want) - Len(part)
Reading == (Ready("read") \/ (Ready("reserve") /\ side)) /\ Need > 0

ReadCopy ==
  /\ Reading /\ Available # <<>>
  /\ LET k == Least(Need, Len(Available)) IN part' = part \o First(Available, k) /\ Pass(k)
  /\ UNCHANGED <<kernel, data, stacked, undo, lending, broken, val, op, how, want, now, side, out, ok>>

\* Straight to the caller: what fills the buffer, and all of a shared pipe.
Direct == Need >= BufSize \/ kind = "pipe"

ReadDirect ==
  /\ Reading /\ Empty /\ input # <<>> /\ Direct
  /\ \E k \in Counts(Need) : part' = part \o First(input, k) /\ input' = After(input, k)
  /\ data' = <<>> /\ next' = 0
  /\ UNCHANGED <<kind, stacked, pushed, undo, lending, broken, val, op, how, want, now, side, out, ok>>

ReadFill ==
  /\ Reading /\ Empty /\ input # <<>> /\ ~Direct
  /\ \E k \in Counts(BufSize) : Fill(<<>>, k)
  /\ UNCHANGED <<kind, stacked, pushed, undo, lending, broken, val, call, out, ok>>

\* Pushed back bytes are used up: sffilbuf pops them and, if nothing is left
\* below, fills the buffer in the same call, from a shared pipe as well.
ReadPop ==
  /\ Ready("read") /\ Need > 0 /\ stacked /\ pushed = <<>> /\ stacked' = FALSE
  /\ \/ After(data, next) # <<>> /\ UNCHANGED <<input, data, next>>
     \/ /\ After(data, next) = <<>> /\ input # <<>>
        /\ \E k \in Counts(BufSize) : Fill(<<>>, k)
  /\ UNCHANGED <<kind, pushed, undo, lending, broken, val, call, out, ok>>

Ended == Need = 0 \/ Nothing

ReadDone ==
  /\ Ready("read") /\ Ended /\ Return(part, TRUE)
  /\ IF Need = 0 THEN UNCHANGED <<data, next, stacked>> ELSE Drained
  /\ UNCHANGED <<kernel, pushed, undo, lending, broken, val>>

----------------------------------------------------------------------------
(* sfreserve.                                                              *)

Reserving == Ready("reserve") /\ ~side
Have == Len(Available)

\* No I/O for the state of the buffer; otherwise until there is enough, or no
\* progress, or something if that is all the lock asks for.
Enough ==
  \/ want = 0 /\ how = "lock"
  \/ Have > 0 /\ Have >= Abs(want)
  \/ now >= 0 /\ (Have >= Abs(want) \/ Have = now \/ (how = "lock" /\ Have > 0))

\* How much is asked of sffilbuf beyond what there is.
Asked ==
  LET more == Abs(want) - Have
  IN  IF want = 0 THEN -1 ELSE IF how # "lock" /\ want < 0 /\ more < BufSize - Have THEN BufSize - Have ELSE more

Peeks == how = "lock" /\ kind = "pipe" /\ ~stacked

\* sffilbuf keeps the unread bytes, moved to the front if there is no room.
Kept == IF Asked > BufSize - Len(data) THEN After(data, next) ELSE data
Room == BufSize - Len(IF After(data, next) = <<>> THEN <<>> ELSE Kept)
Limit == IF kind = "pipe" /\ Asked > 0 THEN Least(Room, Asked) ELSE Room

\* After a pop what lies below may be enough; pushed back bytes are never added to.
Idle ==
  \/ pushed # <<>> /\ stacked
  \/ stacked /\ After(data, next) # <<>> /\ Asked <= Len(data) - next
  \/ Peeks /\ Have > 0

ReserveIdle ==
  /\ Reserving /\ ~Enough /\ Idle
  /\ now' = Have /\ stacked' = (pushed # <<>> /\ stacked)
  /\ UNCHANGED <<kernel, data, next, pushed, undo, lending, broken, val, op, how, want, part, side, out, ok>>

ReserveFill ==
  /\ Reserving /\ ~Enough /\ ~Idle /\ ~Peeks
  /\ now' = Have /\ stacked' = FALSE
  /\ \E k \in Counts(Limit) :
       IF After(data, next) = <<>> THEN Fill(<<>>, k)
       ELSE IF Asked > BufSize - Len(data) THEN Fill(Kept, k)
       ELSE data' = data \o First(input, k) /\ input' = After(input, k) /\ UNCHANGED next
  /\ UNCHANGED <<kind, pushed, undo, lending, broken, val, op, how, want, part, side, out, ok>>

\* A shared pipe is peeked; if there is too little the buffer forgets it.
ReservePeek ==
  /\ Reserving /\ ~Enough /\ ~Idle /\ Peeks
  /\ stacked' = FALSE /\ next' = 0
  /\ \E k \in Counts(Limit) :
       IF k > 0 /\ k >= Abs(want)
       THEN data' = First(input, k) /\ pkrd' = TRUE /\ now' = Have
       ELSE data' = <<>> /\ pkrd' = FALSE /\ now' = 0
  /\ UNCHANGED <<kernel, pushed, undo, lent, broken, val, op, how, want, part, side, out, ok>>

\* Too much for the buffer: f->rsrv is read into.
ReserveSide ==
  /\ Reserving /\ Enough /\ ~stacked /\ how # "lock" /\ Have < Abs(want) /\ Abs(want) > BufSize
  /\ side' = TRUE /\ broken' = <<>>
  /\ UNCHANGED <<kernel, buffer, lending, val, op, how, want, part, now, out, ok>>

\* What a block that is not lent takes from the stream.
Taken == IF want >= 0 THEN want ELSE Have

Obtained == IF want = 0 THEN how = "lock" \/ Have > 0 ELSE Have >= Abs(want)

ReserveBlock ==
  /\ Reserving /\ Enough /\ Obtained /\ Return(Available, TRUE)
  /\ IF how = "lock" THEN lent' = (IF Have = 0 THEN "record" ELSE "block") /\ UNCHANGED <<next, pushed>>
     ELSE Pass(Taken) /\ UNCHANGED lent
  /\ UNCHANGED <<kernel, data, stacked, undo, pkrd, broken, val>>

ReserveFail ==
  /\ Reserving /\ Enough /\ ~Obtained /\ (stacked \/ how = "lock" \/ Abs(want) <= BufSize)
  /\ Return(<<>>, FALSE) /\ val' = Have
  /\ UNCHANGED <<kernel, buffer, lending, broken>>

SideDone ==
  /\ Ready("reserve") /\ side /\ Ended
  /\ IF Need = 0 THEN Return(part, TRUE) /\ UNCHANGED <<broken, val, data, next, stacked>>
                 ELSE Return(<<>>, FALSE) /\ broken' = part /\ val' = Len(part) /\ Drained
  /\ UNCHANGED <<kernel, pushed, undo, lending>>

\* SF_LASTR: what the last call found and left in the buffer, or in f->rsrv.
ReserveLast ==
  /\ op = "lastblock" /\ val' = 0
  /\ IF Have > 0 /\ Have = val
     THEN Return(Available, TRUE) /\ Pass(Have) /\ UNCHANGED broken
     ELSE Return(broken, broken # <<>>) /\ broken' = <<>>
          /\ UNCHANGED <<next, pushed>>
  /\ UNCHANGED <<kernel, data, stacked, undo, lending>>

----------------------------------------------------------------------------
(* Giving back a lent buffer, and pushing back a byte.                     *)

\* sfread reads what was peeked now.
ReleasePeeked ==
  /\ op = "release" /\ lent = "block" /\ pkrd
  /\ Return(First(input, want), TRUE)
  /\ data' = First(input, want) /\ next' = want /\ input' = After(input, want)
  /\ lent' = "none" /\ pkrd' = FALSE
  /\ UNCHANGED <<kind, stacked, pushed, undo, broken, val>>

Release ==
  /\ op = "release" /\ lent # "none" /\ ~pkrd /\ lent' = "none"
  /\ Return(First(Available, want), TRUE) /\ Pass(want)
  /\ UNCHANGED <<kernel, data, stacked, undo, pkrd, broken, val>>

\* A byte that is the one before is backed over; any other is stacked.
Unget ==
  /\ Ready("unget") /\ Return(<<>>, TRUE)
  /\ IF ~stacked /\ next > 0 /\ data[next] = want
     THEN next' = next - 1 /\ UNCHANGED <<stacked, pushed>>
     ELSE stacked' = TRUE /\ pushed' = <<want>> \o pushed /\ UNCHANGED next
  /\ UNCHANGED <<kernel, data, undo, lending, broken, val>>

----------------------------------------------------------------------------

\* Another process adds to the file.
Grow ==
  /\ kind = "file" /\ Len(part) + Len(data) - next + Len(input) < MaxInput
  /\ \E c \in Byte : input' = input \o <<c>>
  /\ UNCHANGED <<kind, buffer, lending, broken, val, call, out, ok>>

Init ==
  /\ kind \in Kinds /\ input \in UNION {[1 .. n -> Byte] : n \in 0 .. MaxInput}
  /\ data = <<>> /\ next = 0 /\ stacked = FALSE /\ pushed = <<>> /\ undo = FALSE
  /\ lent = "none" /\ pkrd = FALSE /\ broken = <<>> /\ val = 0
  /\ op = "none" /\ how = "plain" /\ want = 0 /\ part = <<>> /\ now = -1 /\ side = FALSE
  /\ out = <<>> /\ ok = TRUE

Step ==
  \/ Refused \/ PutBack \/ Pop
  \/ GetrFill \/ GetrTake \/ GetrDone \/ GetrFail \/ GetrLast
  \/ ReadCopy \/ ReadDirect \/ ReadFill \/ ReadPop \/ ReadDone
  \/ ReserveIdle \/ ReserveFill \/ ReservePeek \/ ReserveSide \/ ReserveBlock \/ ReserveFail \/ SideDone
  \/ ReserveLast \/ ReleasePeeked \/ Release \/ Unget

Next == Call \/ Grow \/ Step
Spec == Init /\ [][Next]_vars

----------------------------------------------------------------------------
(* Properties.                                                             *)

Rest == (IF stacked THEN pushed ELSE <<>>) \o (IF pkrd THEN <<>> ELSE After(data, next)) \o input

Reader == INSTANCE SfReader WITH rest <- Rest, lent <- lent # "none"

\* sfgetr, sfreserve, sfread and sfungetc share one sequence of bytes: nothing
\* is lost, repeated or reordered when a record runs over the buffer, a block
\* is lent and given back, or pushed back bytes come in between.
ImplementsReader == Reader!Spec

\* On a shared pipe a record takes nothing after its separator, a read no more
\* than it asked for and a lent block nothing before it is given back, so that
\* the next process finds the rest (sfpkrd).  The exception of the code: where
\* pushed back bytes end, the read that pops them fills a buffer, and so does
\* the reservation.
LeavesRest ==
  [][kind = "pipe" /\ input' # input =>
       LET k == Len(input) - Len(input')
       IN  /\ op = "getr" => \A i \in 1 .. k - 1 : input[i] # Sep
           /\ op = "read" => k <= Need \/ (stacked /\ pushed = <<>> /\ k <= BufSize)
           /\ op = "reserve" => how # "lock" \/ stacked]_vars

=============================================================================
