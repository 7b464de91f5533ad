----------------------------- MODULE SfSession -----------------------------
(***************************************************************************)
(* The life of two streams, one that reads a file or a pipe ("src") and    *)
(* one that writes a file ("dst"): they are opened, given other buffers,   *)
(* disciplines and descriptors, moved from one to the other, closed, and   *)
(* cleaned up at exit (_sfopen.c, sfnew.c, sfdisc.c, sfraise.c, sfsetbuf.c,*)
(* sfsetfd.c, sfmove.c, sfputr.c, sfnputc.c, sfclose.c, sfmode.c:42-141).  *)
(*                                                                         *)
(* A discipline may do I/O: a byte that passes it is marked with it.  The  *)
(* handler of a discipline may refuse an event, stop it, or change the     *)
(* stack of disciplines under it.                                          *)
(***************************************************************************)
EXTENDS Integers, Sequences, SequencesExt, FiniteSetsExt

CONSTANTS
    Setups,     \* [discs: discipline -> [io, on, act], seek: src is a file, len of its text
                \*  (0: no src), room of dst, most: bytes ever written to it (0: no dst),
                \*  old: the length of its file or -1, exit: an exit function is registered
                \*  before the first stream ("early") or some time ("late")]
    Size,       \* of the buffers at first
    Modes,      \* modes dst is opened with
    Sizes,      \* sizes of writes, reads and moves
    BufSizes,   \* sizes of other buffers
    Habits      \* "full": disciplines change though what is buffered cannot be
                \* saved; "mute": though nothing but handlers changes

VARIABLES
    set,        \* the setup
    st,         \* the streams
    given,      \* bytes that reads and moves took from src
    accepted,   \* bytes written to dst, marked with the disciplines then on it
    exits,      \* functions to run at exit, the last registered first
    exiting,    \* _Sfexiting
    phase,      \* "runs", "exits", "function" (one of those) and "over"
    told        \* the streams whose disciplines just heard an event to the end

vars == <<set, st, given, accepted, exits, exiting, phase, told>>

-----------------------------------------------------------------------------
(* The letters of a mode, and what they ask of the stream and of open().   *)
Letter(t, c) ==
    CASE c = "w" -> [flags |-> t.flags \cup {"write"},
                     open |-> t.open \cup {"wronly", "creat"} \cup
                              (IF "read" \in t.flags THEN {} ELSE {"trunc"})]
      [] c = "a" -> [flags |-> t.flags \cup {"write", "append"},
                     open |-> t.open \cup {"wronly", "append", "creat"}]
      [] c = "r" -> [t EXCEPT !.flags = @ \cup {"read"}]
      [] c = "x" -> [t EXCEPT !.open = @ \cup {"excl"}]
      [] c = "+" -> [t EXCEPT !.flags = IF @ = {} THEN @ ELSE @ \cup {"read", "write"}]
SfType(mode) ==
    LET t == FoldLeft(Letter, [flags |-> {}, open |-> {}], mode)
    IN  [flags |-> t.flags,
         open |-> (IF "creat" \in t.open THEN t.open ELSE t.open \ {"excl"}) \
                  (IF {"read", "write"} \subseteq t.flags THEN {"wronly"} ELSE {})]

(* A stream: what it is doing, its buffer and the room it thinks that has, *)
(* its disciplines from the top, and the file: what dst has written, how   *)
(* far src has read.  heard is what handlers were told in this call.       *)
New(name, at, flags) ==
    [name |-> name, at |-> at, flags |-> flags, pooled |-> FALSE, buf |-> << >>,
     size |-> Size, lim |-> Size, stack |-> << >>, out |-> << >>, off |-> 0, heard |-> << >>]
Writes(s) == s.name = "dst"

Disc(d) == set.discs[d]
Marks(s) == SelectSeq(s.stack, LAMBDA d : Disc(d).io)
Marked(s, bytes) == [i \in DOMAIN bytes |-> <<bytes[i], Marks(s)>>]
Text(s, from, to) == [i \in 1 .. to - from |-> <<from + i, Marks(s)>>]
TopIo(s) == Head(Marks(s) \o <<"none">>)
Top(s) == Head(s.stack \o <<"none">>)
Least(a, b) == IF a < b THEN a ELSE b
Drop(q, k) == SubSeq(q, k + 1, Len(q))

(* The kernel: dst takes what there is room for, src gives what is left.   *)
Taken(s, n) == Least(n, set.room - Len(s.out))
KWrite(s, bytes) == [s EXCEPT !.out = @ \o Marked(s, SubSeq(bytes, 1, Taken(s, Len(bytes))))]
KRead(s, n) == Text(s, s.off, s.off + Least(n, set.len - s.off))

FlushBuf(s) == [KWrite(s, s.buf) EXCEPT !.buf = Drop(s.buf, Taken(s, Len(s.buf)))]
(* Unread bytes go back to a file; those of a pipe are gone.               *)
EmptiedHere(s) == [s EXCEPT !.buf = << >>]
Emptied(s) == [s EXCEPT !.buf = << >>, !.off = IF set.seek THEN @ - Len(s.buf) ELSE @]

(* The size a new buffer gets: none for writing once the process cleaned   *)
(* up. A stream opened for both is in read mode before its first use.      *)
Sized(s, size) ==
    IF ~Writes(s) THEN IF size = 0 THEN 1 ELSE size
    ELSE IF exiting /\ (s.at = "open" \/ "read" \notin s.flags) THEN 0
    ELSE size
Fitted(s, size) == [s EXCEPT !.at = "open", !.size = Sized(s, size), !.lim = Sized(s, size)]

-----------------------------------------------------------------------------
(* Every call first sees to the mode: the handler of the top discipline is *)
(* asked about a frozen stream, a new one joins the pool (_sfmode) ...     *)
Acts(d, event) == Disc(d).on = event
Hear(s, d, event) == [s EXCEPT !.heard = Append(@, <<d, event, d \in ToSet(s.stack)>>)]
Quiet(s) == [s EXCEPT !.heard = << >>]
Ready(s) ==
    IF s.at \in {"init", "open"} THEN [s |-> [s EXCEPT !.pooled = TRUE], ok |-> TRUE]
    ELSE IF s.stack = << >> THEN [s |-> s, ok |-> FALSE]
    ELSE LET h == Hear(s, Top(s), "locked")
         IN  IF Acts(Top(s), "locked") /\ Disc(Top(s)).act = "thaw"
             THEN [s |-> [h EXCEPT !.at = "init", !.pooled = TRUE], ok |-> TRUE]
             ELSE [s |-> h, ok |-> FALSE]
(* ... and gets its buffer before the first read or write.                 *)
Access(s) ==
    LET r == Ready(Quiet(s))
    IN  IF r.ok /\ r.s.at = "init" THEN [r EXCEPT !.s = Fitted(@, r.s.size)] ELSE r

-----------------------------------------------------------------------------
(* sfdisc.  The buffer is written out or given back and is then empty in   *)
(* any case; a write stream that had bytes in it has no room any more ...  *)
SettledUnsaved(s) == IF Writes(s) THEN [s EXCEPT !.buf = << >>] ELSE Emptied(s)
Settled(s) ==
    IF ~Writes(s) THEN Emptied(s)
    ELSE IF s.buf = << >> THEN s
    ELSE [FlushBuf(s) EXCEPT !.buf = << >>, !.lim = 0]
(* ... until a change of the discipline that does I/O gives it a new one.  *)
Refit(old, s) == IF TopIo(old) = TopIo(s) THEN s ELSE Fitted(s, s.size)

(* What the handler of d makes of an event: <0, 0 or >0.                   *)
Verdict(d, event) ==
    IF ~Acts(d, event) THEN 0
    ELSE CASE Disc(d).act = "refuse" -> -1 [] Disc(d).act = "hold" -> 1 [] OTHER -> 0

PopDisc(s) ==
    LET r == Ready(s)
        b == Settled(r.s)
        h == Hear(b, Top(s), "pop")
    IN  IF ~r.ok THEN r.s
        ELSE IF s.stack = << >> THEN b
        ELSE IF Verdict(Top(s), "pop") < 0 THEN h
        ELSE Refit(s, [h EXCEPT !.stack = Tail(@)])

(* The top discipline is asked, and the next one should it pop itself.     *)
RECURSIVE Asked(_)
Asked(s) ==
    IF s.stack = << >> THEN [s |-> s, ok |-> TRUE]
    ELSE LET h == Hear(s, Top(s), "push")
         IN  IF Verdict(Top(s), "push") < 0 THEN [s |-> h, ok |-> FALSE]
             ELSE IF Acts(Top(s), "push") /\ Disc(Top(s)).act = "leave" THEN Asked(PopDisc(h))
             ELSE [s |-> h, ok |-> TRUE]
PushOn(a, s, d) ==
    IF ~a.ok \/ d \in ToSet(a.s.stack) THEN a.s
    ELSE Refit(s, [a.s EXCEPT !.stack = <<d>> \o @])
PushDisc(s, d) ==
    LET r == Ready(s) IN IF r.ok THEN PushOn(Asked(Settled(r.s)), r.s, d) ELSE r.s

(* sfraise: down the stack, which a handler may change under it: a handler *)
(* that clears pops whatever is on the stack.                              *)
RECURSIVE PopAll(_)
PopAll(s) == IF s.stack = << >> \/ PopDisc(s).stack = s.stack THEN s ELSE PopAll(PopDisc(s))
Changed(s, d, event) ==
    IF ~Acts(d, event) THEN s
    ELSE CASE Disc(d).act = "leave" -> IF Top(s) = d THEN PopDisc(s) ELSE s
           [] Disc(d).act = "clear" -> PopAll(s)
           [] OTHER -> s
NextUpAsIs(s, next) == next
NextUp(s, next) == IF next \in ToSet(s.stack) THEN next ELSE IF next = "none" THEN next ELSE Top(s)
Below(s, d) ==
    LET i == CHOOSE j \in DOMAIN s.stack : s.stack[j] = d
    IN  IF \E j \in DOMAIN s.stack : s.stack[j] = d /\ j < Len(s.stack) THEN s.stack[i + 1] ELSE "none"
Without(s, d, event) == IF event = "final" THEN [s EXCEPT !.stack = Tail(@)] ELSE s
RECURSIVE RaiseFrom(_, _, _), RaiseOn(_, _, _, _)
RaiseOn(s, d, next, event) ==
    IF Verdict(d, event) # 0 THEN [s |-> s, ret |-> Verdict(d, event)]
    ELSE RaiseFrom(s, NextUp(s, next), event)
RaiseFrom(s, d, event) ==
    IF d = "none" THEN [s |-> s, ret |-> 0]
    ELSE RaiseOn(Changed(Hear(Without(s, d, event), d, event), d, event), d, Below(s, d), event)
Raise(s, event) == RaiseFrom(s, Top(s), event)

-----------------------------------------------------------------------------
(* sfwrite: through the buffer, or past it when it is empty.               *)
Room(s) == s.lim - Len(s.buf)
RECURSIVE WriteFrom(_, _)
WriteFrom(s0, bytes) ==
    LET s == IF Room(s0) <= 0 /\ s0.buf # << >> THEN FlushBuf(s0) ELSE s0
        direct == s.buf = << >> /\ Len(bytes) >= s.size
        k == IF direct THEN Taken(s, Len(bytes)) ELSE Least(Room(s), Len(bytes))
        w == IF direct THEN KWrite(s, bytes) ELSE [s EXCEPT !.buf = @ \o SubSeq(bytes, 1, k)]
    IN  IF bytes = << >> \/ k <= 0 THEN [s |-> s, left |-> Len(bytes)]
        ELSE WriteFrom(w, Drop(bytes, k))

(* sfputr: pieces as the buffer has room; when there is none at all the    *)
(* rest goes through sfwrite.  It takes the -1 of a flush that fails for   *)
(* room: left is then -1, and what follows depends on how it was compiled. *)
RECURSIVE PutrFrom(_, _)
PutrFrom(s0, bytes) ==
    LET s == IF Room(s0) <= 0 THEN FlushBuf(s0) ELSE s0
        k == Least(Room(s), Len(bytes))
    IN  IF bytes = << >> THEN [s |-> s0, left |-> 0]
        ELSE IF Room(s) > 0 THEN PutrFrom([s EXCEPT !.buf = @ \o SubSeq(bytes, 1, k)], Drop(bytes, k))
        ELSE IF s.buf = << >> THEN WriteFrom(s, bytes)
        ELSE [s |-> s, left |-> -1]

(* sfnputc: into the buffer if all fits, else through sfwrite; a newline   *)
(* that fits goes out.                                                     *)
NputcFrom(s, bytes, newline) ==
    IF Room(s) < Len(bytes) THEN WriteFrom(s, bytes)
    ELSE LET w == [s EXCEPT !.buf = @ \o bytes]
         IN  [s |-> IF newline THEN FlushBuf(w) ELSE w, left |-> 0]

(* sfread: n bytes, past the buffer when they are as many as it holds.     *)
RECURSIVE ReadFrom(_, _, _)
ReadFrom(s, n, bytes) ==
    LET k == Least(n, Len(s.buf))
        more == KRead(s, IF n - k >= s.size - s.size \div 8 THEN n - k ELSE s.size)
        r == [s EXCEPT !.buf = Drop(@, k), !.off = IF n = k THEN @ ELSE @ + Len(more)]
        got == bytes \o SubSeq(s.buf, 1, k)
    IN  IF n = k \/ more = << >> THEN [s |-> r, bytes |-> got]
        ELSE ReadFrom([r EXCEPT !.buf = more], n - k, got)

(* sfmove, n bytes or all (-1): block by block, read into the buffer of    *)
(* dst or into one of its own (n or what the file has left), or into src's *)
(* buffer.  What cannot be written goes back to a file.                    *)
Wanted(r, n) == IF n >= 0 THEN n ELSE IF set.seek THEN set.len - r.off ELSE r.size
Past(r, w, n) ==
    /\ r.buf = << >> /\ (n < 0 \/ set.seek)
    /\ Wanted(r, n) <= Room(w) \/ Wanted(r, n) > r.size
Amount(r, w, n) == IF n < 0 /\ Wanted(r, n) <= Room(w) THEN Room(w) ELSE Wanted(r, n)
Block(r, w, n) ==
    IF r.buf # << >> THEN r.buf ELSE KRead(r, IF Past(r, w, n) THEN Amount(r, w, n) ELSE r.size)
Took(r, block, k) == [r EXCEPT !.off = IF r.buf = << >> THEN @ + Len(block) ELSE @, !.buf = Drop(block, k)]
Back(r, k) == IF set.seek /\ k > 0 THEN [r EXCEPT !.buf = << >>, !.off = @ - Len(r.buf) - k] ELSE r
Placed(w, bytes) ==
    IF Len(bytes) <= Room(w) THEN [s |-> [w EXCEPT !.buf = @ \o bytes], left |-> 0] ELSE WriteFrom(w, bytes)
Moved(r, w, bytes) == [r |-> r, w |-> w, bytes |-> bytes]
RECURSIVE MoveFrom(_, _, _, _), MoveOn(_, _, _, _, _), MoveBlock(_, _, _, _, _)
MoveFrom(r, w, n, moved) ==
    IF n = 0 THEN Moved(r, w, moved)
    ELSE IF Room(w) > 0 \/ w.buf = << >> THEN MoveOn(r, w, n, moved, Block(r, w, n))
    ELSE IF Taken(w, 1) = 0 THEN Moved(r, w, moved)
    ELSE MoveOn(r, FlushBuf(w), n, moved, Block(r, FlushBuf(w), n))
MoveOn(r, w, n, moved, block) ==
    IF block = << >> THEN Moved(r, w, moved)
    ELSE LET k == IF n < 0 THEN Len(block) ELSE Least(n, Len(block))
         IN  MoveBlock(Took(r, block, k), Placed(w, SubSeq(block, 1, k)), IF n < 0 THEN n ELSE n - k,
                       moved, SubSeq(block, 1, k))
MoveBlock(r, p, n, moved, bytes) ==
    LET done == moved \o SubSeq(bytes, 1, Len(bytes) - p.left)
    IN  IF p.left > 0 THEN Moved(Back(r, p.left), p.s, done) ELSE MoveFrom(r, p.s, n, done)
(* Without a dst a file is sought, and a pipe read and forgotten.          *)
RECURSIVE Skipped(_, _)
Skipped(r, n) ==
    IF n = 0 THEN r
    ELSE IF n \in 0 .. Len(r.buf) THEN [r EXCEPT !.buf = Drop(@, n)]
    ELSE IF set.seek THEN [r EXCEPT !.buf = << >>, !.off = IF n < 0 THEN set.len ELSE @ - Len(r.buf) + n]
    ELSE LET block == IF r.buf # << >> THEN r.buf ELSE KRead(r, r.size)
             k == IF n < 0 THEN Len(block) ELSE Least(n, Len(block))
         IN  IF block = << >> THEN r ELSE Skipped(Took(r, block, k), IF n < 0 THEN n ELSE n - k)
-----------------------------------------------------------------------------
Init ==
    /\ set \in Setups
    /\ st = [n \in {"src", "dst"} |-> New(n, IF n = "src" /\ set.len > 0 THEN "init" ELSE "none", {"read"})]
    /\ given = << >> /\ accepted = << >>
    /\ exits = IF set.exit = "early" THEN <<"function">> ELSE << >>
    /\ exiting = FALSE /\ phase = "runs"
    /\ told = {}

(* The first stream of the pool registers the clean-up.                    *)
Registered(streams) ==
    IF (\E n \in DOMAIN streams : streams[n].pooled) /\ ~exiting /\ "cleanup" \notin ToSet(exits)
    THEN <<"cleanup">> \o exits ELSE exits
CallTold(streams, heard) ==
    /\ st' = streams
    /\ told' = heard
    /\ exits' = Registered(streams)
    /\ UNCHANGED <<set, exiting, phase>>
Call(streams) == CallTold(streams, {})
With(n, s) == [m \in DOMAIN st |-> IF m = n THEN s ELSE Quiet(st[m])]

Running == phase \in {"runs", "function"}
Usable(n) == Running /\ st[n].at \in {"init", "open", "frozen"}

(* What is written: the next bytes of the application.                     *)
Fresh(n) == [i \in 1 .. n |-> <<Len(accepted) + i, << >>>>]
Accepting(s, bytes, left) ==
    accepted' = accepted \o Marked(s, SubSeq(bytes, 1, Len(bytes) - left)) /\ UNCHANGED given
Writing(n, p) ==
    /\ Accepting(Access(st.dst).s, Fresh(n), p.left)
    /\ Call(With("dst", p.s))
Refused(n) ==
    /\ ~Access(st[n]).ok
    /\ Call(With(n, Access(st[n]).s))
    /\ UNCHANGED <<given, accepted>>

Write(n) ==
    /\ Usable("dst") /\ Len(accepted) + n <= set.most
    /\ \/ Refused("dst")
       \/ Access(st.dst).ok /\ Writing(n, WriteFrom(Access(st.dst).s, Fresh(n)))
Putr(n) ==
    /\ Usable("dst") /\ Len(accepted) + n <= set.most
    /\ \/ Refused("dst")
       \/ /\ Access(st.dst).ok
          /\ PutrFrom(Access(st.dst).s, Fresh(n)).left >= 0
          /\ Writing(n, PutrFrom(Access(st.dst).s, Fresh(n)))
Nputc(n, newline) ==
    /\ Usable("dst") /\ Len(accepted) + n <= set.most
    /\ \/ Refused("dst")
       \/ Access(st.dst).ok /\ Writing(n, NputcFrom(Access(st.dst).s, Fresh(n), newline))

Giving(bytes) == given' = given \o [i \in DOMAIN bytes |-> bytes[i][1]]
Read(n) ==
    /\ Usable("src")
    /\ \/ Refused("src")
       \/ /\ Access(st.src).ok
          /\ LET r == ReadFrom(Access(st.src).s, n, << >>)
             IN  /\ Giving(r.bytes)
                 /\ Call(With("src", r.s))
          /\ UNCHANGED accepted

(* A move: from a pipe only what dst has room for, since what dst refuses  *)
(* is gone then.                                                           *)
Moving(r, w, n) ==
    LET m == MoveFrom(r, w, n, << >>)
    IN  /\ Giving(m.bytes)
        /\ accepted' = accepted \o Marked(w, m.bytes)
        /\ Call([src |-> m.r, dst |-> m.w])
Move(n) ==
    /\ Usable("src") /\ Usable("dst")
    /\ Len(accepted) + set.len - Len(given) <= set.most
    /\ set.seek \/ Len(st.dst.out) + Len(st.dst.buf) + set.len - Len(given) <= set.room
    /\ \/ Refused("src")
       \/ /\ Access(st.src).ok /\ ~Access(st.dst).ok
          /\ Call([src |-> Access(st.src).s, dst |-> Access(st.dst).s])
          /\ UNCHANGED <<given, accepted>>
       \/ /\ Access(st.src).ok /\ Access(st.dst).ok
          /\ Moving(Access(st.src).s, Access(st.dst).s, n)
Skip(n) ==
    /\ Usable("src") /\ n <= set.len - Len(given)
    /\ \/ Refused("src")
       \/ /\ Access(st.src).ok
          /\ Call(With("src", Skipped(Access(st.src).s, n)))
          /\ LET k == IF n < 0 THEN set.len - Len(given) ELSE n
             IN  given' = given \o [i \in 1 .. k |-> Len(given) + i]
          /\ UNCHANGED accepted

-----------------------------------------------------------------------------
(* Disciplines change when what is buffered can be saved, and the buffer   *)
(* of dst stays of use.                                                    *)
Calm(n) ==
    \/ "full" \in Habits
    \/ IF n = "dst" THEN Len(st.dst.out) + Len(st.dst.buf) <= set.room
       ELSE set.seek \/ st.src.buf = << >>
Kept(n, s) == n = "dst" /\ st.dst.lim > 0 /\ s.lim = 0 => (s.size = 0 \/ "mute" \in Habits)
Changing(n, s) ==
    /\ Kept(n, s)
    /\ Call(With(n, s))
    /\ UNCHANGED <<given, accepted>>

Push(n, d) ==
    /\ Usable(n) /\ Calm(n)
    /\ \A m \in {"src", "dst"} \ {n} : d \notin ToSet(st[m].stack)
    /\ Changing(n, PushDisc(Quiet(st[n]), d))
Pop(n) ==
    /\ Usable(n) /\ Calm(n)
    /\ Changing(n, PopDisc(Quiet(st[n])))
Told(s) == LET r == Ready(Quiet(s)) IN IF r.ok THEN Raise(r.s, "user") ELSE [s |-> r.s, ret |-> -1]
RaiseUser(n) ==
    /\ Usable(n) /\ Calm(n)
    /\ Kept(n, Told(st[n]).s)
    /\ CallTold(With(n, Told(st[n]).s), IF Told(st[n]).ret = 0 THEN {n} ELSE {})
    /\ UNCHANGED <<given, accepted>>
RaiseAll ==
    /\ Running /\ Calm("src") /\ Calm("dst")
    /\ LET in == {n \in {"src", "dst"} : st[n].pooled}
           new == [n \in {"src", "dst"} |-> IF n \in in THEN Told(st[n]).s ELSE Quiet(st[n])]
       IN  /\ Kept("dst", new.dst)
           /\ CallTold(new, {n \in in : Told(st[n]).ret = 0})
    /\ UNCHANGED <<given, accepted>>

(* sfsetbuf and sfsetfd write out or give back what is buffered, or fail.  *)
Synced(s) == IF Writes(s) THEN FlushBuf(s) ELSE IF set.seek THEN Emptied(s) ELSE s
SetBuf(n, size) ==
    /\ Usable(n) /\ (n = "src" => Calm("src"))
    /\ LET r == Ready(Quiet(st[n]))
           s == Synced(r.s)
       IN  IF ~r.ok THEN Changing(n, r.s)
           ELSE IF Writes(s) /\ s.buf # << >> THEN Changing(n, s)
           ELSE Changing(n, Fitted([s EXCEPT !.buf = << >>], size))
Freeze(n) ==
    /\ Usable(n) /\ st[n].at # "frozen"
    /\ LET s == Synced(Ready(Quiet(st[n])).s)
       IN  IF s.buf # << >> THEN Changing(n, s)
           ELSE Changing(n, [s EXCEPT !.at = "frozen"])
(* A stream gets its descriptor back, or another one for the same file.    *)
Restore(n) ==
    /\ Running /\ st[n].at = "frozen"
    /\ Changing(n, [Quiet(st[n]) EXCEPT !.at = "init"])
Renumber(n) ==
    /\ Usable(n) /\ st[n].at # "frozen"
    /\ Changing(n, Ready(Quiet(st[n])).s)

-----------------------------------------------------------------------------
(* sfopen: a new stream, other flags for an old one, another file for it.  *)
Old == [i \in 1 .. set.old |-> <<<<0, << >>>>, << >>>>]
Open(mode) ==
    /\ Running /\ st.dst.at = "none" /\ set.most > 0
    /\ LET t == SfType(mode)
           old == IF "trunc" \in t.open \/ set.old < 0 THEN << >> ELSE Old
       IN  IF "excl" \in t.open /\ set.old >= 0
           THEN Call(With("dst", Quiet(st.dst))) /\ UNCHANGED <<given, accepted>>
           ELSE /\ Call(With("dst", [New("dst", "init", t.flags) EXCEPT !.out = old]))
                /\ accepted' = old /\ UNCHANGED given
Reflag(mode) ==
    /\ Usable("dst")
    /\ LET s == Quiet(st.dst)
           kept == IF SfType(mode).flags \cap {"read", "write"} = {} THEN s.flags ELSE s.flags \ {"read", "write"}
       IN  IF s.at = "open" THEN Changing("dst", FlushBuf(s))
           ELSE Changing("dst", [s EXCEPT !.flags = kept \cup SfType(mode).flags])
Reopen(mode) ==
    /\ Usable("dst") /\ "trunc" \in SfType(mode).open
    /\ LET r == Ready(Quiet(st.dst))
           s == Raise(FlushBuf(r.s), "new").s
       IN  IF ~r.ok THEN Changing("dst", r.s)
           ELSE IF s.buf # << >> THEN Changing("dst", [s EXCEPT !.at = "lost", !.pooled = FALSE])
           ELSE Changing("dst", [s EXCEPT !.at = "init", !.flags = SfType(mode).flags])

(* sfclose: a handler that objects to the closing keeps the stream open.   *)
Closed(s, synced) ==
    Raise([s EXCEPT !.at = IF synced THEN "closed" ELSE "lost", !.pooled = FALSE], "final").s
Close(n) ==
    /\ Usable(n)
    /\ LET s == IF st[n].at = "open" THEN Synced(Quiet(st[n])) ELSE Quiet(st[n])
           c == Raise(s, "closing")
       IN  Changing(n, IF c.ret # 0 THEN c.s ELSE Closed(c.s, ~Writes(c.s) \/ c.s.buf = << >>))

-----------------------------------------------------------------------------
(* exit: the functions registered with atexit, the last one first.         *)
AtExit ==
    /\ phase = "runs" /\ set.exit = "late" /\ "function" \notin ToSet(exits)
    /\ exits' = <<"function">> \o exits
    /\ UNCHANGED <<set, st, given, accepted, exiting, phase, told>>
Exit ==
    /\ phase = "runs" /\ phase' = "exits"
    /\ UNCHANGED <<set, st, given, accepted, exits, exiting, told>>
Return ==
    /\ phase = "function" /\ phase' = "exits"
    /\ UNCHANGED <<set, st, given, accepted, exits, exiting, told>>
UnbufferedNot(s) == s
Unbuffered(s) ==
    IF Writes(s) /\ s.pooled /\ s.buf = << >>
    THEN [s EXCEPT !.at = IF @ = "frozen" THEN @ ELSE "open", !.size = 0, !.lim = 0] ELSE s
CleanedUp(s) ==
    IF ~s.pooled THEN s
    ELSE Unbuffered(Raise(IF s.at = "open" THEN Synced(Quiet(s)) ELSE Quiet(s), "atexit").s)
AtExitNext ==
    /\ phase = "exits" /\ exits # << >>
    /\ exits' = Tail(exits)
    /\ IF Head(exits) = "cleanup"
       THEN /\ st' = [n \in {"src", "dst"} |-> CleanedUp(st[n])]
            /\ exiting' = TRUE
            /\ told' = {}
            /\ UNCHANGED phase
       ELSE phase' = "function" /\ UNCHANGED <<st, exiting, told>>
    /\ UNCHANGED <<set, given, accepted>>
Over ==
    /\ phase = "exits" /\ exits = << >> /\ phase' = "over"
    /\ UNCHANGED <<set, st, given, accepted, exits, exiting, told>>

Next ==
    \/ \E n \in Sizes : Write(n) \/ Putr(n) \/ Nputc(n, TRUE) \/ Nputc(n, FALSE) \/ Read(n)
    \/ \E n \in Sizes \cup {-1} : Move(n) \/ Skip(n)
    \/ \E n \in {"src", "dst"} :
         \/ Pop(n) \/ RaiseUser(n) \/ Freeze(n) \/ Restore(n) \/ Renumber(n) \/ Close(n)
         \/ \E d \in DOMAIN set.discs : Push(n, d)
         \/ \E size \in BufSizes : SetBuf(n, size)
    \/ \E mode \in Modes : Open(mode) \/ Reflag(mode) \/ Reopen(mode)
    \/ RaiseAll \/ AtExit \/ Exit \/ Return \/ AtExitNext \/ Over
Spec == Init /\ [][Next]_vars

-----------------------------------------------------------------------------
(* What was written is in the file or in the buffer, in order, and passed  *)
(* the disciplines that were on the stream when it was written, whatever   *)
(* was pushed and popped between; it is lost only when the close that lost *)
(* it failed (sfdisc.c:35-42, sfclose.c:43-46).                            *)
NothingLost ==
    CASE st.dst.at \in {"none", "lost"} -> TRUE
      [] st.dst.at = "closed" -> accepted = st.dst.out
      [] OTHER -> accepted = st.dst.out \o Marked(st.dst, st.dst.buf)

(* What was read follows the text, what is buffered is what comes next and *)
(* passed the disciplines that are on the stream now, and a closed stream  *)
(* leaves the offset of its file where reading ended.                      *)
InPlace ==
    /\ given = [i \in 1 .. Len(given) |-> i]
    /\ st.src.at # "closed" => st.src.buf = Text(st.src, Len(given), st.src.off)
    /\ st.src.at = "closed" /\ set.seek => st.src.off = Len(given)

(* An event is told to disciplines of the stack, whatever handlers do to   *)
(* it, to none twice, and if no handler stops it to all that stay there; a *)
(* closed stream told each of its disciplines first that it was closing    *)
(* (sfraise.c:61-81).                                                      *)
Times(s, d, event) == Cardinality({i \in DOMAIN s.heard : s.heard[i][1] = d /\ s.heard[i][2] = event})
EventsRight ==
    \A n \in {"src", "dst"} : LET s == st[n] IN
        /\ \A i \in DOMAIN s.heard : s.heard[i][2] # "final" => s.heard[i][3]
        /\ \A d \in DOMAIN set.discs, e \in {"user", "closing", "final", "atexit"} : Times(s, d, e) <= 1
        /\ n \in told => \A d \in ToSet(s.stack) : Times(s, d, "user") = 1
        /\ \A d \in DOMAIN set.discs : Times(s, d, "final") <= Times(s, d, "closing")
        /\ s.at = "closed" => s.stack = << >>

(* Once the process is over all that was written is in the file if it has  *)
(* room, whichever exit functions wrote after the clean-up (sfmode.c:54,   *)
(* 73-80, sfsetbuf.c:93-97).                                               *)
ExitComplete ==
    phase = "over" /\ st.dst.at \notin {"none", "lost"} /\ Len(st.dst.out) < set.room => accepted = st.dst.out
=============================================================================
