---------------------------- MODULE SfCoprocess ----------------------------
(***************************************************************************)
(* Streams that talk to a process through two pipes (sfpopen.c, the        *)
(* coprocess parts of sfmode.c, sfrd.c, sfset.c, sfpoll.c and sfclose.c):  *)
(* one stream that both reads and writes ("rw"), a stream for each         *)
(* direction ("pair"), or an unbuffered one behind the discipline that     *)
(* filters another stream (sfdcfilter.c, "filter").                        *)
(*                                                                         *)
(* A call of the application is a list of steps.  A step waits where the   *)
(* system call it stands for waits, while the process and a second one     *)
(* started later go on.  Bytes are numbered in the order of their sending. *)
(***************************************************************************)
EXTENDS Integers, Sequences, SequencesExt, FiniteSetsExt

CONSTANTS
    Setups,     \* [setup, kind of the process, size of the buffers, own SIGPIPE handler]
    PipeSize,   \* bytes a pipe holds
    Most,       \* bytes ever sent
    Window,     \* bytes the application sends ahead of what it has read
    Sizes,      \* sizes of reads and writes
    FilterSizes,\* sizes of reads from a filter
    Chunk       \* bytes of raw data the filter takes at a time (4096)

ASSUME SetupsAssumption ==
    Setups \subseteq [setup : {"rw", "pair", "filter"}, kind : {"each", "all", "twice", "early", "missing"},
                      size : Nat, own : BOOLEAN]
ASSUME SizesAssumption ==
    /\ PipeSize \in Nat \ {0} /\ Most \in Nat /\ Window \in Nat /\ Chunk \in Nat \ {0}
    /\ Sizes \subseteq Nat /\ FilterSizes \subseteq Nat \ {0}

VARIABLES
    how,        \* the setup
    ends,       \* who holds which end of the pipes
    out, in,    \* what is in the pipes to and from the process
    first,      \* the process: where it is, what it took and has not given yet, all it gave
    second,     \* the second process, and whether its stream is open
    st,         \* the streams
    sig,        \* the SIGPIPE handler and _Sfsigp
    sent, got,  \* bytes accepted by writes; bytes that reads returned
    raw, chunk, \* the filter's file, and what it has taken of it (Done after its end)
    call, todo  \* the call that runs or ran last, and its steps to come

vars == <<how, ends, out, in, first, second, st, sig, sent, got, raw, chunk, call, todo>>

Done == <<-1>>
NoPipe == "none"
Names == IF how.setup = "pair" THEN {"w", "r"} ELSE {"f"}
Upto(n) == [i \in 1 .. n |-> i]

(* What the process answers to what it took.                               *)
Answer(kind, s) ==
    CASE kind \in {"each", "all"} -> s
      [] kind = "twice" -> [i \in 1 .. 2 * Len(s) |-> s[(i + 1) \div 2]]
      [] kind = "early" -> SubSeq(s, 1, Min({1, Len(s)}))
      [] kind = "missing" -> << >>

(* After fork each side closes the ends it does not use; until the process *)
(* does, it holds them all.                                                *)
Forked == [outR |-> {"first"}, outW |-> {"app", "first"},
           inR |-> {"app", "first"}, inW |-> {"first"}]
Unneeded == {"outW", "inR"}
(* A process started later holds what the application holds, until exec    *)
(* closes what is marked for it.                                           *)
Inherited == [e \in DOMAIN ends |-> ends[e] \cup (IF "app" \in ends[e] THEN {"second"} ELSE {})]
KeptUnmarked(e) == ends[e] \cap {"second"}
KeptByExec(e) == {}
Dropped(es, who, which) == [e \in DOMAIN es |-> IF e \in which THEN es[e] \ {who} ELSE es[e]]

(* SIGPIPE is ignored while a stream that writes to a process is open,     *)
(* unless the application has a handler of its own.                        *)
Guarded(s) == [handler |-> IF s.handler = "default" THEN "ignored" ELSE s.handler, open |-> s.open + 1]
UnguardedAtOnce(s) ==
    [handler |-> IF s.handler = "ignored" THEN "default" ELSE s.handler, open |-> Max({s.open - 1, 0})]
Unguarded(s) ==
    [handler |-> IF s.open <= 1 /\ s.handler = "ignored" THEN "default" ELSE s.handler,
     open |-> Max({s.open - 1, 0})]

New(size) ==
    [mode |-> "read", flags |-> {"read", "write"}, data |-> << >>, size |-> size,
     file |-> "in", aux |-> "out", saved |-> << >>, open |-> TRUE]
OneWay(m, size) ==
    [New(size) EXCEPT !.mode = m, !.flags = {m}, !.file = IF m = "read" THEN "in" ELSE "out", !.aux = NoPipe]

Init ==
    /\ how \in Setups
    /\ ends = Forked
    /\ out = << >> /\ in = << >>
    /\ first = [at |-> "forked", took |-> << >>, held |-> << >>, gave |-> << >>]
    /\ second = [at |-> "none", open |-> FALSE]
    /\ st = IF how.setup = "pair"
            THEN [n \in {"w", "r"} |-> OneWay(IF n = "w" THEN "write" ELSE "read", how.size)]
            ELSE [n \in {"f"} |-> New(how.size)]
    /\ LET start == [handler |-> IF how.own THEN "own" ELSE "default", open |-> 0]
       IN  sig = IF how.setup = "pair" THEN start ELSE Guarded(start)
    /\ sent = 0 /\ got = << >>
    /\ raw = IF how.setup = "filter" THEN Upto(Most) ELSE << >>
    /\ chunk = << >>
    /\ call = [op |-> "none", s |-> "f", n |-> 0, ret |-> 0, err |-> FALSE, ready |-> {}]
    /\ todo = << >>

-----------------------------------------------------------------------------
(* The process.                                                            *)
FirstStart ==
    /\ first.at = "forked"
    /\ first' = [first EXCEPT !.at = IF how.kind = "missing" THEN "gone" ELSE "runs"]
    /\ ends' = Dropped(ends, "first", IF how.kind = "missing" THEN DOMAIN ends ELSE Unneeded)
    /\ UNCHANGED <<out, in>>
FirstTake ==
    /\ first.at = "runs" /\ out # << >>
    /\ how.kind = "all" \/ (first.held = << >> /\ (how.kind = "early" => first.took = << >>))
    /\ LET t == Append(first.took, Head(out))
       IN  first' = [first EXCEPT !.took = t,
                        !.held = @ \o SubSeq(Answer(how.kind, t), Len(Answer(how.kind, first.took)) + 1,
                                             Len(Answer(how.kind, t)))]
    /\ out' = Tail(out)
    /\ UNCHANGED <<in, ends>>
AtEnd == out = << >> /\ ends["outW"] = {}
FirstGive ==
    /\ first.at = "runs" /\ first.held # << >>
    /\ how.kind = "all" => AtEnd
    /\ IF ends["inR"] = {}
       THEN /\ first' = [first EXCEPT !.at = "gone"]
            /\ ends' = Dropped(ends, "first", DOMAIN ends)
            /\ UNCHANGED in
       ELSE /\ Len(in) < PipeSize
            /\ in' = Append(in, Head(first.held))
            /\ first' = [first EXCEPT !.held = Tail(@), !.gave = Append(@, Head(first.held))]
            /\ UNCHANGED ends
    /\ UNCHANGED out
FirstExit ==
    /\ first.at = "runs" /\ first.held = << >>
    /\ AtEnd \/ (how.kind = "early" /\ first.took # << >>)
    /\ first' = [first EXCEPT !.at = "gone"]
    /\ ends' = Dropped(ends, "first", DOMAIN ends)
    /\ UNCHANGED <<out, in>>
First ==
    /\ FirstStart \/ FirstTake \/ FirstGive \/ FirstExit
    /\ UNCHANGED <<how, second, st, sig, sent, got, raw, chunk, call, todo>>

SecondStart ==
    /\ second.at = "forked"
    /\ second' = [second EXCEPT !.at = "runs"]
    /\ ends' = [e \in DOMAIN ends |-> (ends[e] \ {"second"}) \cup KeptByExec(e)]
SecondExit(any) ==
    /\ second.at = "runs" /\ (any \/ ~second.open)
    /\ second' = [second EXCEPT !.at = "gone"]
    /\ ends' = Dropped(ends, "second", DOMAIN ends)
Second(any) ==
    /\ SecondStart \/ SecondExit(any)
    /\ UNCHANGED <<how, out, in, first, st, sig, sent, got, raw, chunk, call, todo>>

-----------------------------------------------------------------------------
(* Steps of a call.                                                        *)
Step(k) == todo # << >> /\ Head(todo)[1] = k
S == Head(todo)[2]          \* the step's stream
N == Head(todo)[3]          \* and its number of bytes, or its mode
Then(steps) == todo' = steps \o Tail(todo)
Return(r) == todo' = << >> /\ call' = [call EXCEPT !.ret = r, !.err = FALSE]
Passed == IF call.n > 0 THEN call.n ELSE -1

Capacity(s) == IF s.size = 0 /\ s.mode = "read" THEN 1 ELSE s.size
Pipes == <<ends, out, in, first>>
Rest == <<how, second, sig, raw, chunk>>

(* One byte into a pipe; without a reader there is SIGPIPE, then an error. *)
Room(s) == s.file = "out" /\ ends["outR"] # {} /\ Len(out) < PipeSize
Broken(s) == s.file # "out" \/ ends["outR"] = {}
Killed(s) == s.file = "out" /\ sig.handler = "default"

(* _sfpmode: unread bytes are put aside while the stream writes, and the   *)
(* descriptors change places.                                              *)
Swapped(s) == IF s.aux = NoPipe THEN s ELSE [s EXCEPT !.file = s.aux, !.aux = s.file]
SavedNot(s) == [Swapped(s) EXCEPT !.data = << >>, !.mode = "write"]
Saved(s) == [Swapped(s) EXCEPT !.saved = s.data, !.data = << >>, !.mode = "write"]
Restored(s) ==
    LET cap == IF s.size = 0 THEN 1 ELSE s.size
    IN  [Swapped(s) EXCEPT !.data = SubSeq(s.saved, 1, Min({cap, Len(s.saved)})),
                           !.saved = << >>, !.mode = "read"]

(* _sfmode: what is unwritten goes out before the stream reads.            *)
Mode ==
    /\ Step("mode")
    /\ LET s == st[S]
       IN  \/ /\ s.mode = N \/ (N \in s.flags /\ ~call.err /\ (N = "read" => s.data = << >>))
              /\ st' = [st EXCEPT ![S] = IF s.mode = N THEN s
                                         ELSE IF N = "read" THEN Restored(s) ELSE Saved(s)]
              /\ Then(<< >>) /\ UNCHANGED call
           \/ /\ s.mode # N /\ N \in s.flags /\ ~call.err /\ N = "read" /\ s.data # << >>
              /\ Then(<<<<"flush", S, 0>>, Head(todo)>>) /\ UNCHANGED <<st, call>>
           \/ /\ s.mode # N /\ (N \notin s.flags \/ call.err)
              /\ Return(Passed) /\ UNCHANGED st
    /\ UNCHANGED <<Pipes, Rest, sent, got>>

(* sfset ignores what came of its switch of modes.                         *)
Try ==
    /\ Step("try")
    /\ LET s == st[S]
           wanted == s.mode # N /\ N \in s.flags /\ ~call.err
       IN  \/ /\ wanted /\ N = "read" /\ s.data # << >>
              /\ Then(<<<<"flush", S, 0>>, Head(todo)>>) /\ UNCHANGED <<st, call>>
           \/ /\ wanted => N = "write" \/ s.data = << >>
              /\ st' = [st EXCEPT ![S] = IF ~wanted THEN s
                                         ELSE IF N = "read" THEN Restored(s) ELSE Saved(s)]
              /\ Then(<< >>) /\ call' = [call EXCEPT !.err = FALSE]
    /\ UNCHANGED <<Pipes, Rest, sent, got>>

(* _sfflsbuf: all of the buffer, however long the pipe makes it wait.      *)
Flush ==
    /\ Step("flush")
    /\ LET s == st[S]
       IN  \/ /\ s.data = << >>
              /\ Then(<< >>) /\ UNCHANGED <<st, out, call>>
           \/ /\ s.data # << >> /\ Room(s)
              /\ out' = Append(out, Head(s.data))
              /\ st' = [st EXCEPT ![S].data = Tail(@)]
              /\ UNCHANGED <<todo, call>>
           \/ /\ s.data # << >> /\ Broken(s)
              /\ IF Killed(s) THEN todo' = << >> /\ call' = [call EXCEPT !.op = "killed"]
                 ELSE Then(<< >>) /\ call' = [call EXCEPT !.err = TRUE]
              /\ UNCHANGED <<st, out>>
    /\ UNCHANGED <<ends, in, first, Rest, sent, got>>

(* sfwrite: N bytes through the buffer, or past an empty one.              *)
Put ==
    /\ Step("put")
    /\ LET s == st[S]
           k == Min({s.size - Len(s.data), N})
       IN  \/ /\ N > 0 /\ k = 0 /\ s.data # << >> /\ ~call.err
              /\ Then(<<<<"flush", S, 0>>, Head(todo)>>)
              /\ UNCHANGED <<st, call, sent>>
           \/ /\ N > 0 /\ s.data = << >> /\ N >= s.size /\ ~call.err
              /\ Then(<<<<"direct", S, N>>>>)
              /\ UNCHANGED <<st, call, sent>>
           \/ /\ N > 0 /\ k > 0 /\ ~(s.data = << >> /\ N >= s.size)
              /\ st' = [st EXCEPT ![S].data = @ \o [i \in 1 .. k |-> sent + i]]
              /\ sent' = sent + k /\ call' = [call EXCEPT !.n = @ + k]
              /\ Then(<<<<"put", S, N - k>>>>)
           \/ /\ N = 0 \/ call.err
              /\ Return(call.n) /\ UNCHANGED <<st, sent>>
    /\ UNCHANGED <<Pipes, Rest, got>>

(* write(2) of bytes that are not in the buffer.                           *)
Direct ==
    /\ Step("direct")
    /\ LET s == st[S]
       IN  \/ /\ N > 0 /\ Room(s)
              /\ out' = Append(out, sent + 1) /\ sent' = sent + 1
              /\ call' = [call EXCEPT !.n = @ + 1]
              /\ Then(<<<<"direct", S, N - 1>>>>)
           \/ /\ N > 0 /\ Broken(s)
              /\ IF Killed(s) THEN todo' = << >> /\ call' = [call EXCEPT !.op = "killed"]
                 ELSE Return(IF call.n > 0 THEN call.n ELSE 0)
              /\ UNCHANGED <<out, sent>>
           \/ /\ N = 0 /\ Return(call.n) /\ UNCHANGED <<out, sent>>
    /\ UNCHANGED <<ends, in, first, st, Rest, got>>

(* sfread: what is in the buffer, and then more until there are N bytes.   *)
Get ==
    /\ Step("get")
    /\ LET s == st[S]
           k == Min({Len(s.data), N})
           cap == Capacity(s)
       IN  \/ /\ k > 0
              /\ got' = got \o SubSeq(s.data, 1, k)
              /\ st' = [st EXCEPT ![S].data = SubSeq(s.data, k + 1, Len(s.data))]
              /\ call' = [call EXCEPT !.n = @ + k]
              /\ Then(<<<<"get", S, N - k>>>>)
           \/ /\ k = 0 /\ N > 0
              /\ Then(<<<<"wrsync", S, 0>>,
                        IF N >= cap - cap \div 8 THEN <<"take", S, N>> ELSE <<"fill", S, cap>>,
                        <<"get", S, N>>>>)
              /\ UNCHANGED <<st, got, call>>
           \/ /\ N = 0 /\ Return(call.n) /\ UNCHANGED <<st, got>>
    /\ UNCHANGED <<Pipes, Rest, sent>>

(* _sfwrsync: before a read that may wait, what streams hold goes out.     *)
Pending == {n \in Names : st[n].mode = "write" /\ st[n].open /\ st[n].data # << >>}
WrSync ==
    /\ Step("wrsync")
    /\ Then(SetToSeq({<<"flush", n, 0>> : n \in Pending}))
    /\ UNCHANGED <<Pipes, Rest, st, sent, got, call>>

(* read(2), into the buffer or past it; 0 at the end.                      *)
Arrived(n) == SubSeq(in, 1, Min({n, Len(in)}))
Ended(s) == s.file # "in" \/ (in = << >> /\ ends["inW"] = {})
ReadIn ==
    /\ Step("fill") \/ Step("take")
    /\ LET s == st[S]
           b == Arrived(N)
       IN  \/ /\ s.file = "in" /\ in # << >>
              /\ in' = SubSeq(in, Len(b) + 1, Len(in))
              /\ IF Step("fill")
                 THEN /\ st' = [st EXCEPT ![S].data = b]
                      /\ Then(<< >>) /\ UNCHANGED <<got, call>>
                 ELSE /\ got' = got \o b
                      /\ call' = [call EXCEPT !.n = @ + Len(b)]
                      /\ todo' = <<<<"get", S, N - Len(b)>>>>
                      /\ UNCHANGED st
           \/ /\ Ended(s) /\ Return(call.n) /\ UNCHANGED <<in, st, got>>
    /\ UNCHANGED <<ends, out, first, Rest, sent>>

(* sfpoll of one stream; N milliseconds, or -1 for as long as it takes.    *)
RdReadyBuffer(s) == s.mode = "read" /\ s.data # << >>
RdReady(s) == IF s.mode = "read" THEN s.data # << >> ELSE s.saved # << >>
WrReady(s) == s.mode # "write" \/ s.data = << >>
Free == Len(out) < PipeSize
Status(s) ==
    s.flags \cap ((IF RdReady(s) \/ in # << >> THEN {"read"} ELSE {}) \cup
                  (IF WrReady(s) \/ Free THEN {"write"} ELSE {}))
AtOnce(s) ==
    s.flags = s.flags \cap ((IF RdReady(s) THEN {"read"} ELSE {}) \cup (IF WrReady(s) THEN {"write"} ELSE {}))
Event(s) ==
    \/ "write" \in s.flags /\ ~WrReady(s) /\ Free
    \/ s.mode = "write" /\ ends["outR"] = {}
    \/ "read" \in s.flags /\ ~RdReady(s) /\ (in # << >> \/ ends["inW"] = {})
Poll ==
    /\ Step("poll")
    /\ N = 0 \/ AtOnce(st[S]) \/ Event(st[S])
    /\ todo' = << >> /\ call' = [call EXCEPT !.ready = Status(st[S])]
    /\ UNCHANGED <<Pipes, Rest, st, sent, got>>

(* sfclose: both descriptors, and then the process.                        *)
EndOf(file) == IF file = "out" THEN "outW" ELSE "inR"
Descriptors(s) == {EndOf(e) : e \in {s.file, s.aux} \ {NoPipe}}
Shut ==
    /\ Step("shut")
    /\ ends' = Dropped(ends, "app", Descriptors(st[S]))
    /\ st' = [st EXCEPT ![S].open = FALSE]
    /\ IF how.setup = "pair" THEN Return(IF call.err THEN -1 ELSE 0)
       ELSE Then(<<<<"wait", S, 0>>>>) /\ UNCHANGED call
    /\ UNCHANGED <<out, in, first, Rest, sent, got>>
Wait ==
    /\ Step("wait")
    /\ (IF S = "g" THEN second.at ELSE first.at) = "gone"
    /\ sig' = Unguarded(sig)
    /\ Return(IF call.err THEN -1 ELSE 0)
    /\ UNCHANGED <<Pipes, how, second, raw, chunk, st, sent, got>>

-----------------------------------------------------------------------------
(* filterread: raw data goes down one pipe, what the filter made of it is  *)
(* read from the other.                                                    *)
Turned(s, m) == IF s.mode = m THEN s ELSE IF m = "read" THEN Restored(s) ELSE Saved(s)
ClosedAsIs(s) == {EndOf(s.file)}
Closed(s) == {EndOf(Turned(s, "write").file)}
Refill ==
    /\ Step("refill")
    /\ IF chunk = << >> /\ raw = << >>
       THEN /\ chunk' = Done /\ raw' = raw
            /\ ends' = Dropped(ends, "app", Closed(st[S]))
            /\ st' = [st EXCEPT ![S] = Turned(@, "read")]
       ELSE /\ chunk' = IF chunk = << >> THEN SubSeq(raw, 1, Min({Chunk, Len(raw)})) ELSE chunk
            /\ raw' = IF chunk = << >> THEN SubSeq(raw, Len(chunk') + 1, Len(raw)) ELSE raw
            /\ st' = [st EXCEPT ![S] = Turned(@, IF chunk' = Done THEN "read" ELSE "write")]
            /\ UNCHANGED ends
    /\ Then(<<<<IF chunk' = Done THEN "await" ELSE "send", S, N>>>>)
    /\ UNCHANGED <<out, in, first, how, second, sig, sent, got, call>>

(* An empty buffer is taken for a pipe that is ready: this write waits.    *)
Send ==
    /\ Step("send")
    /\ \/ /\ chunk # << >> /\ Room(st[S])
          /\ out' = Append(out, Head(chunk)) /\ chunk' = Tail(chunk) /\ sent' = sent + 1
          /\ UNCHANGED <<todo, call>>
       \/ /\ chunk # << >> /\ Broken(st[S])
          /\ Return(0) /\ UNCHANGED <<out, chunk, sent>>
       \/ /\ chunk = << >>
          /\ Then(<<<<"await", S, N>>>>) /\ UNCHANGED <<out, chunk, sent, call>>
    /\ UNCHANGED <<ends, in, first, how, second, sig, raw, st, got>>

(* A millisecond while there is raw data, then more of it is sent.         *)
Await ==
    /\ Step("await")
    /\ \/ /\ in # << >> \/ (chunk = Done /\ ends["inW"] = {})
          /\ st' = [st EXCEPT ![S] = Turned(@, "read")]
          /\ Then(<<<<"pull", S, N>>>>)
       \/ /\ in = << >> /\ chunk # Done
          /\ Then(<<<<"refill", S, N>>>>) /\ UNCHANGED st
    /\ UNCHANGED <<Pipes, Rest, sent, got, call>>
Pull ==
    /\ Step("pull")
    /\ got' = got \o Arrived(N) /\ in' = SubSeq(in, Len(Arrived(N)) + 1, Len(in))
    /\ Return(Len(Arrived(N)))
    /\ UNCHANGED <<ends, out, first, Rest, st, sent>>

-----------------------------------------------------------------------------
(* The calls of the application.                                           *)
Idle == todo = << >> /\ call.op # "killed"
Begin(op, s, steps) ==
    /\ Idle /\ todo' = steps
    /\ call' = [op |-> op, s |-> s, n |-> 0, ret |-> 0, err |-> FALSE, ready |-> {}]
    /\ UNCHANGED <<Pipes, how, raw, chunk, sent, got>>

(* Requests out and not answered yet; a read asks for no more than comes.  *)
Awaited == sent - Len(got)
Comes(n) ==
    CASE how.kind = "each" -> n <= Awaited \/ (how.setup = "pair" /\ ~st["w"].open)
      [] how.kind = "all"  -> ~st["w"].open
      [] how.kind = "early" -> sent > 0
      [] OTHER             -> TRUE

SfWrite(s, n) ==
    /\ how.setup # "filter" /\ st[s].open /\ s # "r"
    /\ sent + n <= Most /\ Awaited + n <= Window
    /\ Begin("write", s, <<<<"mode", s, "write">>, <<"put", s, n>>>>)
    /\ UNCHANGED <<st, second, sig>>
SfRead(s, n) ==
    /\ how.setup # "filter" /\ st[s].open /\ s # "w" /\ Comes(n)
    /\ Begin("read", s, <<<<"mode", s, "read">>, <<"get", s, n>>>>)
    /\ UNCHANGED <<st, second, sig>>
Other(m) == IF m = "read" THEN "write" ELSE "read"
SfSet(s, m, on) ==
    /\ how.setup = "rw" /\ st[s].open
    /\ LET to == IF on THEN st[s].flags \cup {m} ELSE st[s].flags \ {m}
       IN  st' = [st EXCEPT ![s].flags = IF to = {} THEN @ ELSE to]
    /\ Begin("set", s, <<<<"try", s, IF on THEN m ELSE Other(m)>>>>)
    /\ UNCHANGED <<second, sig>>
SfPoll(s, tm) ==
    /\ how.setup = "rw" /\ st[s].open
    /\ tm < 0 => AtOnce(st[s]) \/ Comes(1)
    /\ Begin("poll", s, <<<<"poll", s, tm>>>>)
    /\ UNCHANGED <<st, second, sig>>
SfClose(s) ==
    /\ st[s].open /\ (s = "r" => ~st["w"].open)
    /\ Begin("close", s, (IF st[s].mode = "write" THEN <<<<"flush", s, 0>>>> ELSE << >>) \o <<<<"shut", s, 0>>>>)
    /\ UNCHANGED <<st, second, sig>>
FilterRead(n) ==
    /\ how.setup = "filter" /\ st["f"].open
    /\ Begin("filter", "f", <<<<"refill", "f", n>>>>)
    /\ UNCHANGED <<st, second, sig>>

(* A second process, that takes all it is sent.                            *)
OpenSecond ==
    /\ how.setup = "rw" /\ second.at = "none" /\ Idle
    /\ second' = [at |-> "forked", open |-> TRUE]
    /\ ends' = Inherited
    /\ sig' = Guarded(sig)
    /\ call' = [call EXCEPT !.op = "open", !.s = "g"]
    /\ UNCHANGED <<out, in, first, how, raw, chunk, st, sent, got, todo>>
WriteSecond ==
    /\ second.open /\ Idle
    /\ call' = [call EXCEPT !.op = IF second.at = "gone" /\ sig.handler = "default" THEN "killed" ELSE "write",
                            !.s = "g"]
    /\ UNCHANGED <<Pipes, Rest, st, sent, got, todo>>
CloseSecond ==
    /\ second.open /\ Begin("close", "g", <<<<"wait", "g", 0>>>>)
    /\ second' = [second EXCEPT !.open = FALSE]
    /\ UNCHANGED <<st, sig>>

Calls ==
    \/ \E s \in Names, n \in Sizes : SfWrite(s, n) \/ SfRead(s, n)
    \/ \E s \in Names, m \in {"read", "write"}, on \in BOOLEAN : SfSet(s, m, on)
    \/ \E s \in Names, tm \in {0, -1} : SfPoll(s, tm)
    \/ \E s \in Names : SfClose(s)
    \/ \E n \in FilterSizes : FilterRead(n)
    \/ OpenSecond \/ WriteSecond \/ CloseSecond
Steps ==
    \/ Mode \/ Try \/ Flush \/ Put \/ Direct \/ Get \/ WrSync \/ ReadIn \/ Poll \/ Shut \/ Wait
    \/ Refill \/ Send \/ Await \/ Pull

Next == Calls \/ Steps \/ First \/ Second(TRUE)

(* The system runs the processes and what the application has called; how  *)
(* soon a call follows, and whether the second process ends early, is open.*)
Fairness == WF_vars(Steps) /\ WF_vars(First) /\ WF_vars(Second(FALSE))
Spec == Init /\ [][Next]_vars /\ Fairness

-----------------------------------------------------------------------------
(* Every byte written is on its way, once and in order, and so is every    *)
(* byte of the answer, through switches of mode at any time (sfmode.c:     *)
(* 463-478, 521-549).                                                      *)
Writer == IF how.setup = "pair" THEN st["w"] ELSE st["f"]
Reader == IF how.setup = "pair" THEN st["r"] ELSE st["f"]
Unwritten == IF Writer.mode = "write" THEN Writer.data ELSE << >>
Unread == Reader.saved \o (IF Reader.mode = "read" THEN Reader.data ELSE << >>)
InOrder ==
    /\ first.took \o out \o Unwritten = Upto(sent)
    /\ first.gave = got \o Unread \o in

(* The filter's end of file comes after all of its answer                  *)
(* (sfdcfilter.c:32-76).                                                   *)
FilterComplete ==
    how.setup = "filter" /\ how.kind \in {"each", "all"} /\ call.op = "filter" /\ todo = << >> /\ call.ret = 0
      => got = Answer(how.kind, Upto(Most))

(* No write to a process that is gone kills the application while a stream *)
(* to a process is open, whichever of them is closed first; after the last *)
(* the handler is what it was (sfmode.c:213-224, 265-275).                 *)
Protected ==
    /\ call.op # "killed"
    /\ (sig.handler = "default") <=> (sig.open = 0 /\ ~how.own)

(* sfpoll says what there is: bytes to read wherever they are kept, room   *)
(* for what is unwritten (sfpoll.c:30-37).                                 *)
PollRight ==
    [][Step("poll") /\ todo' = << >> =>
         /\ ("read" \in call'.ready) <=> ("read" \in Reader.flags /\ Unread \o in # << >>)
         /\ ("write" \in call'.ready) <=>
               ("write" \in Writer.flags /\ (Unwritten = << >> \/ Len(out) < PipeSize))]_vars

(* Every call returns, whatever the order in which the two sides run: no   *)
(* read waits for an answer to what the application still holds            *)
(* (sfrd.c:203-207), no close for a process that waits for the end of its  *)
(* input (sfpopen.c:206-213, 230-235).                                     *)
CallsReturn == []<>(todo = << >>)
=============================================================================
