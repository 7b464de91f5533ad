------------------------- MODULE SfCoprocessProofs -------------------------
(***************************************************************************)
(* Theorems about SfCoprocess: the bytes of both directions keep their     *)
(* order, the filter's end of file is the end of its answer, no write to a *)
(* process that is gone kills the application, and sfpoll is right.        *)
(***************************************************************************)
EXTENDS SfCoprocess, FiniteSetTheorems, SequenceTheorems, TLAPS

----------------------------------------------------------------------------
(* Types, and what a stream looks like in each of its modes.               *)

Actors == {"app", "first", "second"}
Ends == {"outR", "outW", "inR", "inW"}
Modes == {"read", "write"}
Bytes == Seq(Nat)
Streams ==
  [mode : Modes, flags : SUBSET Modes, data : Bytes, size : {how.size},
   file : {"in", "out"}, aux : {"in", "out", NoPipe}, saved : Bytes, open : BOOLEAN]

TypeInv ==
  /\ how \in Setups
  /\ ends \in [Ends -> SUBSET Actors]
  /\ out \in Bytes /\ in \in Bytes /\ got \in Bytes /\ raw \in Bytes /\ sent \in Nat
  /\ first \in [at : {"forked", "runs", "gone"}, took : Bytes, held : Bytes, gave : Bytes]
  /\ second \in [at : {"none", "forked", "runs", "gone"}, open : BOOLEAN]
  /\ st \in [Names -> Streams]
  /\ sig \in [handler : {"own", "ignored", "default"}, open : Nat]
  /\ chunk \in Bytes \cup {Done}
  /\ call \in [op : {"none", "killed", "write", "read", "set", "poll", "close", "filter", "open"},
               s : {"f", "g", "w", "r"}, n : Nat, ret : Int, err : BOOLEAN, ready : SUBSET Modes]

\* What fits the buffer of a stream that reads.
Fits(d) == Len(d) <= IF how.size = 0 THEN 1 ELSE how.size

\* The descriptor of the mode is the stream's file; bytes are put aside only
\* while it writes; a filter's stream keeps none.
StreamInv ==
  \A n \in Names :
    LET s == st[n] IN
    /\ s.file = IF s.mode = "read" THEN "in" ELSE "out"
    /\ s.aux = IF how.setup = "pair" THEN NoPipe ELSE IF s.mode = "read" THEN "out" ELSE "in"
    /\ how.setup = "pair" => s.mode = (IF n = "w" THEN "write" ELSE "read") /\ s.flags = {s.mode}
    /\ s.mode = "read" => s.saved = << >> /\ Fits(s.data)
    /\ s.mode = "write" => Len(s.data) <= s.size /\ Fits(s.saved)
    /\ s.mode = "write" /\ how.setup = "pair" => s.saved = << >>
    /\ how.setup = "filter" => s.data = << >> /\ s.saved = << >>

----------------------------------------------------------------------------
(* The steps to come of a call.                                            *)

Writes(s, n) ==
  \/ todo = <<<<"mode", s, "write">>, <<"put", s, n>>>>
  \/ st[s].mode = "write" /\ todo = <<<<"put", s, n>>>>
  \/ st[s].mode = "write" /\ todo = <<<<"flush", s, 0>>, <<"put", s, n>>>>
  \/ st[s].mode = "write" /\ st[s].data = << >> /\ todo = <<<<"direct", s, n>>>>
Writing ==
  /\ how.setup # "filter"
  /\ \E s \in Names \ {"r"}, n \in Nat : st[s].open /\ Writes(s, n)

Inputs(s, n) == {<<"take", s, n>>, <<"fill", s, Capacity(st[s])>>}
Reads(s, n) ==
  \/ todo = <<<<"mode", s, "read">>, <<"get", s, n>>>>
  \/ st[s].mode = "write" /\ todo = <<<<"flush", s, 0>>, <<"mode", s, "read">>, <<"get", s, n>>>>
  \/ st[s].mode = "read" /\ todo = <<<<"get", s, n>>>>
  \/ /\ st[s].mode = "read" /\ st[s].data = << >>
     /\ \E x \in Inputs(s, n) :
          \/ todo = <<<<"wrsync", s, 0>>, x, <<"get", s, n>>>>
          \/ todo = <<x, <<"get", s, n>>>>
          \/ /\ how.setup = "pair" /\ st["w"].open
             /\ todo = <<<<"flush", "w", 0>>, x, <<"get", s, n>>>>
Reading ==
  /\ how.setup # "filter"
  /\ \E s \in Names \ {"w"}, n \in Nat : st[s].open /\ Reads(s, n)

Turns(m, tm) ==
  \/ todo = <<<<"try", "f", m>>>>
  \/ st["f"].mode = "write" /\ todo = <<<<"flush", "f", 0>>, <<"try", "f", "read">>>>
  \/ todo = <<<<"poll", "f", tm>>>>
Turning ==
  /\ how.setup = "rw" /\ st["f"].open
  /\ \E m \in {"read", "write"}, tm \in {0, -1} : Turns(m, tm)

Closes(s) ==
  /\ st[s].open /\ (s = "r" => ~ st["w"].open)
  /\ \/ st[s].mode = "write" /\ todo = <<<<"flush", s, 0>>, <<"shut", s, 0>>>>
     \/ todo = <<<<"shut", s, 0>>>>
Waits ==
  \/ how.setup # "pair" /\ ~ st["f"].open /\ todo = <<<<"wait", "f", 0>>>>
  \/ how.setup = "rw" /\ ~ second.open /\ second.at # "none" /\ todo = <<<<"wait", "g", 0>>>>
Closing == call.op = "close" /\ (Waits \/ \E s \in Names : Closes(s))

\* A filter reads once there is something to read, or nothing can come.
Filters(n) ==
  \/ todo = <<<<"refill", "f", n>>>>
  \/ todo = <<<<"send", "f", n>>>> /\ st["f"].mode = "write" /\ chunk # Done
  \/ todo = <<<<"await", "f", n>>>>
  \/ /\ todo = <<<<"pull", "f", n>>>> /\ st["f"].mode = "read"
     /\ in # << >> \/ (chunk = Done /\ ends["inW"] = {})
Filtering ==
  /\ how.setup = "filter" /\ st["f"].open /\ call.op = "filter"
  /\ \E n \in FilterSizes : Filters(n)

PlanInv ==
  todo # << >> => call.op # "killed" /\ (Writing \/ Reading \/ Turning \/ Closing \/ Filtering)

----------------------------------------------------------------------------
(* The ends of the pipes, the handler and the filter.                      *)

EndsInv ==
  /\ first.at # "gone" => "first" \in ends["outR"] /\ "first" \in ends["inW"]
  /\ first.at = "gone" => \A e \in Ends : "first" \notin ends[e]
  /\ first.at # "forked" => "first" \notin ends["outW"] /\ "first" \notin ends["inR"]
  /\ "app" \notin ends["outR"] /\ "app" \notin ends["inW"]
  /\ second.at # "forked" => \A e \in Ends : "second" \notin ends[e]
  /\ \A e \in {"outR", "inW"} : "second" \notin ends[e]
  /\ how.setup # "rw" => second.at = "none"
  /\ second.at = "none" => ~ second.open
  /\ how.setup = "pair" => /\ "app" \in ends["outW"] <=> st["w"].open
                           /\ "app" \in ends["inR"] <=> st["r"].open
                           /\ st["w"].open => st["r"].open
  /\ how.setup # "pair" => /\ "app" \in ends["inR"] <=> st["f"].open
                           /\ "app" \in ends["outW"] <=> st["f"].open /\ chunk # Done
  /\ chunk # << >> \/ raw # << >> => how.setup = "filter"

Ours(b) == IF b THEN 1 ELSE 0
SigInv ==
  /\ sig.open = IF how.setup = "pair" THEN 0
                ELSE Ours(st["f"].open \/ todo = <<<<"wait", "f", 0>>>>)
                     + Ours(second.open \/ todo = <<<<"wait", "g", 0>>>>)
  /\ sig.handler = IF how.own THEN "own" ELSE IF sig.open = 0 THEN "default" ELSE "ignored"
  /\ call.op # "killed"

Copies == how.kind \in {"each", "all"}
FilterInv ==
  /\ how.setup = "filter" =>
       IF chunk = Done THEN raw = << >> /\ sent = Most
       ELSE chunk \o raw = [i \in 1 .. Most - sent |-> sent + i] /\ sent <= Most
  /\ Copies => first.gave \o first.held = first.took
  /\ Copies /\ first.at = "gone" =>
       IF how.setup = "pair" THEN ~ st["w"].open
       ELSE st["f"].open => first.held = << >> /\ out = << >> /\ chunk = Done

\* A stream of a pair is not opened by sfpopen, so nothing guards SIGPIPE for it
\* (sfmode.c:211): its process must read its input to the end.
Paired == \A h \in Setups : h.setup = "pair" => h.kind \in {"each", "all"}

----------------------------------------------------------------------------
(* Short sequences.                                                        *)

LEMMA Tuples ==
  ASSUME NEW a, NEW b
  PROVE  /\ << >> \o <<a>> = <<a>> /\ << >> \o <<a, b>> = <<a, b>> /\ <<a>> \o <<b>> = <<a, b>>
<1>1. << >> \o <<a>> = <<a>> /\ << >> \o <<a, b>> = <<a, b>>
  OBVIOUS
<1>2. <<a>> \o <<b>> = <<a, b>>
  <2>1. <<a>> \in Seq({a, b}) /\ <<b>> \in Seq({a, b}) /\ <<a, b>> \in Seq({a, b})
    OBVIOUS
  <2>2. Len(<<a>> \o <<b>>) = Len(<<a, b>>) /\ <<a>> \o <<b>> \in Seq({a, b})
    BY <2>1, ConcatProperties
  <2>3. \A i \in 1 .. Len(<<a, b>>) : (<<a>> \o <<b>>)[i] = <<a, b>>[i]
    BY <2>1, ConcatProperties
  <2> QED BY <2>1, <2>2, <2>3, SeqEqual
<1> QED BY <1>1, <1>2

LEMMA Joins ==
  ASSUME NEW a, NEW b, NEW c
  PROVE  <<a, b>> \o <<c>> = <<a, b, c>> /\ <<a>> \o <<b, c>> = <<a, b, c>>
<1>1. <<a, b>> \o <<c>> = <<a, b, c>>
  <2>1. <<a, b>> \in Seq({a, b, c}) /\ <<c>> \in Seq({a, b, c}) /\ <<a, b, c>> \in Seq({a, b, c})
    OBVIOUS
  <2>2. Len(<<a, b>> \o <<c>>) = Len(<<a, b, c>>) /\ <<a, b>> \o <<c>> \in Seq({a, b, c})
    BY <2>1, ConcatProperties
  <2>3. \A i \in 1 .. Len(<<a, b, c>>) : (<<a, b>> \o <<c>>)[i] = <<a, b, c>>[i]
    BY <2>1, ConcatProperties
  <2> QED BY <2>1, <2>2, <2>3, SeqEqual
<1>2. <<a>> \o <<b, c>> = <<a, b, c>>
  <2>1. <<a>> \in Seq({a, b, c}) /\ <<b, c>> \in Seq({a, b, c}) /\ <<a, b, c>> \in Seq({a, b, c})
    OBVIOUS
  <2>2. Len(<<a>> \o <<b, c>>) = Len(<<a, b, c>>) /\ <<a>> \o <<b, c>> \in Seq({a, b, c})
    BY <2>1, ConcatProperties
  <2>3. \A i \in 1 .. Len(<<a, b, c>>) : (<<a>> \o <<b, c>>)[i] = <<a, b, c>>[i]
    BY <2>1, ConcatProperties
  <2> QED BY <2>1, <2>2, <2>3, SeqEqual
<1> QED BY <1>1, <1>2

LEMMA AtPut ==
  ASSUME PlanInv, Step("put")
  PROVE  \E s \in Names \ {"r"}, n \in Nat :
           /\ todo = <<<<"put", s, n>>>> /\ S = s /\ N = n /\ Tail(todo) = << >>
           /\ how.setup # "filter" /\ st[s].open /\ st[s].mode = "write"
<1>1. Writing \/ Reading \/ Turning \/ Closing \/ Filtering
  BY DEF PlanInv, Step
<1>2. CASE Writing
  <2>1. PICK s \in Names \ {"r"}, n \in Nat : st[s].open /\ Writes(s, n)
    BY <1>2 DEF Writing
  <2>2. todo = <<<<"put", s, n>>>> /\ st[s].mode = "write"
    BY <2>1 DEF Writes, Inputs, Step
  <2>3. how.setup # "filter"
    BY <1>2 DEF Writing
  <2>4. S = s /\ N = n /\ Tail(todo) = << >>
    BY <2>2 DEF S, N, Inputs, Step
  <2> QED BY <2>1, <2>2, <2>3, <2>4
<1>3. CASE Reading
  <2>1. PICK s \in Names \ {"w"}, n \in Nat : st[s].open /\ Reads(s, n)
    BY <1>3 DEF Reading
  <2> QED BY <2>1 DEF Reads, Inputs, Step
<1>4. CASE Turning
  <2>1. PICK m \in {"read", "write"}, tm \in {0, -1} : Turns(m, tm)
    BY <1>4 DEF Turning
  <2> QED BY <2>1 DEF Turns, Inputs, Step
<1>5. CASE Closing
  BY <1>5 DEF Closing, Closes, Waits, Step
<1>6. CASE Filtering
  <2>1. PICK n \in FilterSizes : Filters(n)
    BY <1>6 DEF Filtering
  <2> QED BY <2>1 DEF Filters, Inputs, Step
<1> QED BY <1>1, <1>2, <1>3, <1>4, <1>5, <1>6

LEMMA AtDirect ==
  ASSUME PlanInv, Step("direct")
  PROVE  \E s \in Names \ {"r"}, n \in Nat :
           /\ todo = <<<<"direct", s, n>>>> /\ S = s /\ N = n /\ Tail(todo) = << >>
           /\ how.setup # "filter" /\ st[s].open /\ st[s].mode = "write" /\ st[s].data = << >>
<1>1. Writing \/ Reading \/ Turning \/ Closing \/ Filtering
  BY DEF PlanInv, Step
<1>2. CASE Writing
  <2>1. PICK s \in Names \ {"r"}, n \in Nat : st[s].open /\ Writes(s, n)
    BY <1>2 DEF Writing
  <2>2. todo = <<<<"direct", s, n>>>> /\ st[s].mode = "write" /\ st[s].data = << >>
    BY <2>1 DEF Writes, Inputs, Step
  <2>3. how.setup # "filter"
    BY <1>2 DEF Writing
  <2>4. S = s /\ N = n /\ Tail(todo) = << >>
    BY <2>2 DEF S, N, Inputs, Step
  <2> QED BY <2>1, <2>2, <2>3, <2>4
<1>3. CASE Reading
  <2>1. PICK s \in Names \ {"w"}, n \in Nat : st[s].open /\ Reads(s, n)
    BY <1>3 DEF Reading
  <2> QED BY <2>1 DEF Reads, Inputs, Step
<1>4. CASE Turning
  <2>1. PICK m \in {"read", "write"}, tm \in {0, -1} : Turns(m, tm)
    BY <1>4 DEF Turning
  <2> QED BY <2>1 DEF Turns, Inputs, Step
<1>5. CASE Closing
  BY <1>5 DEF Closing, Closes, Waits, Step
<1>6. CASE Filtering
  <2>1. PICK n \in FilterSizes : Filters(n)
    BY <1>6 DEF Filtering
  <2> QED BY <2>1 DEF Filters, Inputs, Step
<1> QED BY <1>1, <1>2, <1>3, <1>4, <1>5, <1>6

LEMMA AtGet ==
  ASSUME PlanInv, Step("get")
  PROVE  \E s \in Names \ {"w"}, n \in Nat :
           /\ todo = <<<<"get", s, n>>>> /\ S = s /\ N = n /\ Tail(todo) = << >>
           /\ how.setup # "filter" /\ st[s].open /\ st[s].mode = "read"
<1>1. Writing \/ Reading \/ Turning \/ Closing \/ Filtering
  BY DEF PlanInv, Step
<1>2. CASE Writing
  <2>1. PICK s \in Names \ {"r"}, n \in Nat : st[s].open /\ Writes(s, n)
    BY <1>2 DEF Writing
  <2> QED BY <2>1 DEF Writes, Inputs, Step
<1>3. CASE Reading
  <2>1. PICK s \in Names \ {"w"}, n \in Nat : st[s].open /\ Reads(s, n)
    BY <1>3 DEF Reading
  <2>2. todo = <<<<"get", s, n>>>> /\ st[s].mode = "read"
    BY <2>1 DEF Reads, Inputs, Step
  <2>3. how.setup # "filter"
    BY <1>3 DEF Reading
  <2>4. S = s /\ N = n /\ Tail(todo) = << >>
    BY <2>2 DEF S, N, Inputs, Step
  <2> QED BY <2>1, <2>2, <2>3, <2>4
<1>4. CASE Turning
  <2>1. PICK m \in {"read", "write"}, tm \in {0, -1} : Turns(m, tm)
    BY <1>4 DEF Turning
  <2> QED BY <2>1 DEF Turns, Inputs, Step
<1>5. CASE Closing
  BY <1>5 DEF Closing, Closes, Waits, Step
<1>6. CASE Filtering
  <2>1. PICK n \in FilterSizes : Filters(n)
    BY <1>6 DEF Filtering
  <2> QED BY <2>1 DEF Filters, Inputs, Step
<1> QED BY <1>1, <1>2, <1>3, <1>4, <1>5, <1>6

LEMMA AtWrSync ==
  ASSUME PlanInv, Step("wrsync")
  PROVE  \E s \in Names \ {"w"}, n \in Nat :
           /\ how.setup # "filter" /\ st[s].open /\ st[s].mode = "read" /\ st[s].data = << >>
           /\ \E x \in Inputs(s, n) : Tail(todo) = <<x, <<"get", s, n>>>>
<1>1. Writing \/ Reading \/ Turning \/ Closing \/ Filtering
  BY DEF PlanInv, Step
<1>2. CASE Writing
  <2>1. PICK s \in Names \ {"r"}, n \in Nat : st[s].open /\ Writes(s, n)
    BY <1>2 DEF Writing
  <2> QED BY <2>1 DEF Writes, Inputs, Step
<1>3. CASE Reading
  <2>1. PICK s \in Names \ {"w"}, n \in Nat : st[s].open /\ Reads(s, n)
    BY <1>3 DEF Reading
  <2>2. /\ st[s].mode = "read" /\ st[s].data = << >>
        /\ \E x \in Inputs(s, n) : todo = <<<<"wrsync", s, 0>>, x, <<"get", s, n>>>>
    BY <2>1 DEF Reads, Inputs, Step
  <2>3. how.setup # "filter"
    BY <1>3 DEF Reading
  <2>4. \E x \in Inputs(s, n) : Tail(todo) = <<x, <<"get", s, n>>>>
    BY <2>2 DEF S, N, Inputs, Step
  <2> QED BY <2>1, <2>2, <2>3, <2>4
<1>4. CASE Turning
  <2>1. PICK m \in {"read", "write"}, tm \in {0, -1} : Turns(m, tm)
    BY <1>4 DEF Turning
  <2> QED BY <2>1 DEF Turns, Inputs, Step
<1>5. CASE Closing
  BY <1>5 DEF Closing, Closes, Waits, Step
<1>6. CASE Filtering
  <2>1. PICK n \in FilterSizes : Filters(n)
    BY <1>6 DEF Filtering
  <2> QED BY <2>1 DEF Filters, Inputs, Step
<1> QED BY <1>1, <1>2, <1>3, <1>4, <1>5, <1>6

LEMMA AtReadIn ==
  ASSUME PlanInv, Step("fill") \/ Step("take")
  PROVE  \E s \in Names \ {"w"}, n \in Nat :
           /\ how.setup # "filter" /\ st[s].open /\ st[s].mode = "read" /\ st[s].data = << >>
           /\ S = s /\ Tail(todo) = <<<<"get", s, n>>>>
           /\ (Step("take") /\ N = n) \/ (Step("fill") /\ N = Capacity(st[s]))
<1>1. Writing \/ Reading \/ Turning \/ Closing \/ Filtering
  BY DEF PlanInv, Step
<1>2. CASE Writing
  <2>1. PICK s \in Names \ {"r"}, n \in Nat : st[s].open /\ Writes(s, n)
    BY <1>2 DEF Writing
  <2> QED BY <2>1 DEF Writes, Inputs, Step
<1>3. CASE Reading
  <2>1. PICK s \in Names \ {"w"}, n \in Nat : st[s].open /\ Reads(s, n)
    BY <1>3 DEF Reading
  <2>2. st[s].mode = "read" /\ st[s].data = << >> /\ \E x \in Inputs(s, n) : todo = <<x, <<"get", s, n>>>>
    BY <2>1 DEF Reads, Inputs, Step
  <2>3. how.setup # "filter"
    BY <1>3 DEF Reading
  <2>4. /\ S = s /\ Tail(todo) = <<<<"get", s, n>>>>
        /\ (Step("take") /\ N = n) \/ (Step("fill") /\ N = Capacity(st[s]))
    BY <2>2 DEF S, N, Inputs, Step
  <2> QED BY <2>1, <2>2, <2>3, <2>4
<1>4. CASE Turning
  <2>1. PICK m \in {"read", "write"}, tm \in {0, -1} : Turns(m, tm)
    BY <1>4 DEF Turning
  <2> QED BY <2>1 DEF Turns, Inputs, Step
<1>5. CASE Closing
  BY <1>5 DEF Closing, Closes, Waits, Step
<1>6. CASE Filtering
  <2>1. PICK n \in FilterSizes : Filters(n)
    BY <1>6 DEF Filtering
  <2> QED BY <2>1 DEF Filters, Inputs, Step
<1> QED BY <1>1, <1>2, <1>3, <1>4, <1>5, <1>6

LEMMA AtTry ==
  ASSUME PlanInv, Step("try")
  PROVE  /\ how.setup = "rw" /\ st["f"].open /\ S = "f" /\ Tail(todo) = << >>
         /\ N \in {"read", "write"} /\ todo = <<<<"try", "f", N>>>>
<1>1. Writing \/ Reading \/ Turning \/ Closing \/ Filtering
  BY DEF PlanInv, Step
<1>2. CASE Writing
  <2>1. PICK s \in Names \ {"r"}, n \in Nat : st[s].open /\ Writes(s, n)
    BY <1>2 DEF Writing
  <2> QED BY <2>1 DEF Writes, Inputs, Step
<1>3. CASE Reading
  <2>1. PICK s \in Names \ {"w"}, n \in Nat : st[s].open /\ Reads(s, n)
    BY <1>3 DEF Reading
  <2> QED BY <2>1 DEF Reads, Inputs, Step
<1>4. CASE Turning
  <2>1. PICK m \in {"read", "write"}, tm \in {0, -1} : Turns(m, tm)
    BY <1>4 DEF Turning
  <2>2. todo = <<<<"try", "f", m>>>>
    BY <2>1 DEF Turns, Inputs, Step
  <2>3. how.setup = "rw" /\ st["f"].open
    BY <1>4 DEF Turning
  <2>4. S = "f" /\ N = m /\ Tail(todo) = << >>
    BY <2>2 DEF S, N, Inputs
  <2> QED BY <2>1, <2>2, <2>3, <2>4
<1>5. CASE Closing
  BY <1>5 DEF Closing, Closes, Waits, Step
<1>6. CASE Filtering
  <2>1. PICK n \in FilterSizes : Filters(n)
    BY <1>6 DEF Filtering
  <2> QED BY <2>1 DEF Filters, Inputs, Step
<1> QED BY <1>1, <1>2, <1>3, <1>4, <1>5, <1>6

LEMMA AtPoll ==
  ASSUME PlanInv, Step("poll")
  PROVE  how.setup = "rw" /\ st["f"].open /\ S = "f"
<1>1. Writing \/ Reading \/ Turning \/ Closing \/ Filtering
  BY DEF PlanInv, Step
<1>2. CASE Writing
  <2>1. PICK s \in Names \ {"r"}, n \in Nat : st[s].open /\ Writes(s, n)
    BY <1>2 DEF Writing
  <2> QED BY <2>1 DEF Writes, Inputs, Step
<1>3. CASE Reading
  <2>1. PICK s \in Names \ {"w"}, n \in Nat : st[s].open /\ Reads(s, n)
    BY <1>3 DEF Reading
  <2> QED BY <2>1 DEF Reads, Inputs, Step
<1>4. CASE Turning
  <2>1. PICK m \in {"read", "write"}, tm \in {0, -1} : Turns(m, tm)
    BY <1>4 DEF Turning
  <2>2. todo = <<<<"poll", "f", tm>>>>
    BY <2>1 DEF Turns, Inputs, Step
  <2>3. how.setup = "rw" /\ st["f"].open
    BY <1>4 DEF Turning
  <2>4. S = "f"
    BY <2>2 DEF S, N, Inputs
  <2> QED BY <2>1, <2>2, <2>3, <2>4
<1>5. CASE Closing
  BY <1>5 DEF Closing, Closes, Waits, Step
<1>6. CASE Filtering
  <2>1. PICK n \in FilterSizes : Filters(n)
    BY <1>6 DEF Filtering
  <2> QED BY <2>1 DEF Filters, Inputs, Step
<1> QED BY <1>1, <1>2, <1>3, <1>4, <1>5, <1>6

LEMMA AtShut ==
  ASSUME PlanInv, Step("shut")
  PROVE  \E s \in Names :
           /\ st[s].open /\ (s = "r" => ~ st["w"].open)
           /\ todo = <<<<"shut", s, 0>>>> /\ S = s /\ Tail(todo) = << >> /\ call.op = "close"
<1>1. Writing \/ Reading \/ Turning \/ Closing \/ Filtering
  BY DEF PlanInv, Step
<1>2. CASE Writing
  <2>1. PICK s \in Names \ {"r"}, n \in Nat : st[s].open /\ Writes(s, n)
    BY <1>2 DEF Writing
  <2> QED BY <2>1 DEF Writes, Inputs, Step
<1>3. CASE Reading
  <2>1. PICK s \in Names \ {"w"}, n \in Nat : st[s].open /\ Reads(s, n)
    BY <1>3 DEF Reading
  <2> QED BY <2>1 DEF Reads, Inputs, Step
<1>4. CASE Turning
  <2>1. PICK m \in {"read", "write"}, tm \in {0, -1} : Turns(m, tm)
    BY <1>4 DEF Turning
  <2> QED BY <2>1 DEF Turns, Inputs, Step
<1>5. CASE Closing
  <2>1. PICK s \in Names : Closes(s) /\ call.op = "close"
    BY <1>5 DEF Closing, Waits, Step
  <2>2. todo = <<<<"shut", s, 0>>>>
    BY <2>1 DEF Closes, Step
  <2>3. S = s /\ Tail(todo) = << >>
    BY <2>2 DEF S, N
  <2> QED BY <2>1, <2>2, <2>3 DEF Closes
<1>6. CASE Filtering
  <2>1. PICK n \in FilterSizes : Filters(n)
    BY <1>6 DEF Filtering
  <2> QED BY <2>1 DEF Filters, Inputs, Step
<1> QED BY <1>1, <1>2, <1>3, <1>4, <1>5, <1>6

LEMMA AtRefill ==
  ASSUME PlanInv, Step("refill")
  PROVE  \E n \in FilterSizes :
           /\ todo = <<<<"refill", "f", n>>>> /\ S = "f" /\ N = n /\ Tail(todo) = << >>
           /\ how.setup = "filter" /\ st["f"].open /\ call.op = "filter"
<1>1. Writing \/ Reading \/ Turning \/ Closing \/ Filtering
  BY DEF PlanInv, Step
<1>2. CASE Writing
  <2>1. PICK s \in Names \ {"r"}, n \in Nat : st[s].open /\ Writes(s, n)
    BY <1>2 DEF Writing
  <2> QED BY <2>1 DEF Writes, Inputs, Step
<1>3. CASE Reading
  <2>1. PICK s \in Names \ {"w"}, n \in Nat : st[s].open /\ Reads(s, n)
    BY <1>3 DEF Reading
  <2> QED BY <2>1 DEF Reads, Inputs, Step
<1>4. CASE Turning
  <2>1. PICK m \in {"read", "write"}, tm \in {0, -1} : Turns(m, tm)
    BY <1>4 DEF Turning
  <2> QED BY <2>1 DEF Turns, Inputs, Step
<1>5. CASE Closing
  BY <1>5 DEF Closing, Closes, Waits, Step
<1>6. CASE Filtering
  <2>1. PICK n \in FilterSizes : Filters(n)
    BY <1>6 DEF Filtering
  <2>2. todo = <<<<"refill", "f", n>>>>
    BY <2>1 DEF Filters, Inputs, Step
  <2>3. how.setup = "filter" /\ st["f"].open /\ call.op = "filter"
    BY <1>6 DEF Filtering
  <2>4. S = "f" /\ N = n /\ Tail(todo) = << >>
    BY <2>2 DEF S, N, Inputs
  <2> QED BY <2>1, <2>2, <2>3, <2>4
<1> QED BY <1>1, <1>2, <1>3, <1>4, <1>5, <1>6

LEMMA AtSend ==
  ASSUME PlanInv, Step("send")
  PROVE  \E n \in FilterSizes :
           /\ todo = <<<<"send", "f", n>>>> /\ S = "f" /\ N = n /\ Tail(todo) = << >>
           /\ how.setup = "filter" /\ st["f"].open /\ call.op = "filter" /\ st["f"].mode = "write" /\ chunk # Done
<1>1. Writing \/ Reading \/ Turning \/ Closing \/ Filtering
  BY DEF PlanInv, Step
<1>2. CASE Writing
  <2>1. PICK s \in Names \ {"r"}, n \in Nat : st[s].open /\ Writes(s, n)
    BY <1>2 DEF Writing
  <2> QED BY <2>1 DEF Writes, Inputs, Step
<1>3. CASE Reading
  <2>1. PICK s \in Names \ {"w"}, n \in Nat : st[s].open /\ Reads(s, n)
    BY <1>3 DEF Reading
  <2> QED BY <2>1 DEF Reads, Inputs, Step
<1>4. CASE Turning
  <2>1. PICK m \in {"read", "write"}, tm \in {0, -1} : Turns(m, tm)
    BY <1>4 DEF Turning
  <2> QED BY <2>1 DEF Turns, Inputs, Step
<1>5. CASE Closing
  BY <1>5 DEF Closing, Closes, Waits, Step
<1>6. CASE Filtering
  <2>1. PICK n \in FilterSizes : Filters(n)
    BY <1>6 DEF Filtering
  <2>2. todo = <<<<"send", "f", n>>>> /\ st["f"].mode = "write" /\ chunk # Done
    BY <2>1 DEF Filters, Inputs, Step
  <2>3. how.setup = "filter" /\ st["f"].open /\ call.op = "filter"
    BY <1>6 DEF Filtering
  <2>4. S = "f" /\ N = n /\ Tail(todo) = << >>
    BY <2>2 DEF S, N, Inputs
  <2> QED BY <2>1, <2>2, <2>3, <2>4
<1> QED BY <1>1, <1>2, <1>3, <1>4, <1>5, <1>6

LEMMA AtAwait ==
  ASSUME PlanInv, Step("await")
  PROVE  \E n \in FilterSizes :
           /\ todo = <<<<"await", "f", n>>>> /\ S = "f" /\ N = n /\ Tail(todo) = << >>
           /\ how.setup = "filter" /\ st["f"].open /\ call.op = "filter"
<1>1. Writing \/ Reading \/ Turning \/ Closing \/ Filtering
  BY DEF PlanInv, Step
<1>2. CASE Writing
  <2>1. PICK s \in Names \ {"r"}, n \in Nat : st[s].open /\ Writes(s, n)
    BY <1>2 DEF Writing
  <2> QED BY <2>1 DEF Writes, Inputs, Step
<1>3. CASE Reading
  <2>1. PICK s \in Names \ {"w"}, n \in Nat : st[s].open /\ Reads(s, n)
    BY <1>3 DEF Reading
  <2> QED BY <2>1 DEF Reads, Inputs, Step
<1>4. CASE Turning
  <2>1. PICK m \in {"read", "write"}, tm \in {0, -1} : Turns(m, tm)
    BY <1>4 DEF Turning
  <2> QED BY <2>1 DEF Turns, Inputs, Step
<1>5. CASE Closing
  BY <1>5 DEF Closing, Closes, Waits, Step
<1>6. CASE Filtering
  <2>1. PICK n \in FilterSizes : Filters(n)
    BY <1>6 DEF Filtering
  <2>2. todo = <<<<"await", "f", n>>>>
    BY <2>1 DEF Filters, Inputs, Step
  <2>3. how.setup = "filter" /\ st["f"].open /\ call.op = "filter"
    BY <1>6 DEF Filtering
  <2>4. S = "f" /\ N = n /\ Tail(todo) = << >>
    BY <2>2 DEF S, N, Inputs
  <2> QED BY <2>1, <2>2, <2>3, <2>4
<1> QED BY <1>1, <1>2, <1>3, <1>4, <1>5, <1>6

LEMMA AtPull ==
  ASSUME PlanInv, Step("pull")
  PROVE  \E n \in FilterSizes :
           /\ todo = <<<<"pull", "f", n>>>> /\ S = "f" /\ N = n /\ Tail(todo) = << >>
           /\ how.setup = "filter" /\ st["f"].open /\ call.op = "filter" /\ st["f"].mode = "read"
           /\ in # << >> \/ (chunk = Done /\ ends["inW"] = {})
<1>1. Writing \/ Reading \/ Turning \/ Closing \/ Filtering
  BY DEF PlanInv, Step
<1>2. CASE Writing
  <2>1. PICK s \in Names \ {"r"}, n \in Nat : st[s].open /\ Writes(s, n)
    BY <1>2 DEF Writing
  <2> QED BY <2>1 DEF Writes, Inputs, Step
<1>3. CASE Reading
  <2>1. PICK s \in Names \ {"w"}, n \in Nat : st[s].open /\ Reads(s, n)
    BY <1>3 DEF Reading
  <2> QED BY <2>1 DEF Reads, Inputs, Step
<1>4. CASE Turning
  <2>1. PICK m \in {"read", "write"}, tm \in {0, -1} : Turns(m, tm)
    BY <1>4 DEF Turning
  <2> QED BY <2>1 DEF Turns, Inputs, Step
<1>5. CASE Closing
  BY <1>5 DEF Closing, Closes, Waits, Step
<1>6. CASE Filtering
  <2>1. PICK n \in FilterSizes : Filters(n)
    BY <1>6 DEF Filtering
  <2>2. /\ todo = <<<<"pull", "f", n>>>> /\ st["f"].mode = "read"
        /\ in # << >> \/ (chunk = Done /\ ends["inW"] = {})
    BY <2>1 DEF Filters, Inputs, Step
  <2>3. how.setup = "filter" /\ st["f"].open /\ call.op = "filter"
    BY <1>6 DEF Filtering
  <2>4. S = "f" /\ N = n /\ Tail(todo) = << >>
    BY <2>2 DEF S, N, Inputs
  <2> QED BY <2>1, <2>2, <2>3, <2>4
<1> QED BY <1>1, <1>2, <1>3, <1>4, <1>5, <1>6

LEMMA AtWait ==
  ASSUME PlanInv, Step("wait")
  PROVE  /\ call.op = "close"
         /\ \/ how.setup # "pair" /\ ~ st["f"].open /\ todo = <<<<"wait", "f", 0>>>> /\ S = "f"
            \/ how.setup = "rw" /\ ~ second.open /\ second.at # "none" /\ todo = <<<<"wait", "g", 0>>>> /\ S = "g"
<1>1. Writing \/ Reading \/ Turning \/ Closing \/ Filtering
  BY DEF PlanInv, Step
<1>2. CASE Writing
  <2>1. PICK s \in Names \ {"r"}, n \in Nat : st[s].open /\ Writes(s, n)
    BY <1>2 DEF Writing
  <2> QED BY <2>1 DEF Writes, Inputs, Step
<1>3. CASE Reading
  <2>1. PICK s \in Names \ {"w"}, n \in Nat : st[s].open /\ Reads(s, n)
    BY <1>3 DEF Reading
  <2> QED BY <2>1 DEF Reads, Inputs, Step
<1>4. CASE Turning
  <2>1. PICK m \in {"read", "write"}, tm \in {0, -1} : Turns(m, tm)
    BY <1>4 DEF Turning
  <2> QED BY <2>1 DEF Turns, Inputs, Step
<1>5. CASE Closing
  BY <1>5 DEF Closing, Closes, Waits, Step, S
<1>6. CASE Filtering
  <2>1. PICK n \in FilterSizes : Filters(n)
    BY <1>6 DEF Filtering
  <2> QED BY <2>1 DEF Filters, Inputs, Step
<1> QED BY <1>1, <1>2, <1>3, <1>4, <1>5, <1>6

LEMMA AtMode ==
  ASSUME PlanInv, Step("mode")
  PROVE  \E s \in Names, n \in Nat :
           /\ how.setup # "filter" /\ st[s].open /\ S = s
           /\ \/ s # "r" /\ N = "write" /\ todo = <<<<"mode", s, "write">>, <<"put", s, n>>>> /\ Tail(todo) = <<<<"put", s, n>>>>
              \/ s # "w" /\ N = "read" /\ todo = <<<<"mode", s, "read">>, <<"get", s, n>>>> /\ Tail(todo) = <<<<"get", s, n>>>>
<1>1. Writing \/ Reading \/ Turning \/ Closing \/ Filtering
  BY DEF PlanInv, Step
<1>2. CASE Writing
  <2>1. PICK s \in Names \ {"r"}, n \in Nat : st[s].open /\ Writes(s, n)
    BY <1>2 DEF Writing
  <2>2. todo = <<<<"mode", s, "write">>, <<"put", s, n>>>>
    BY <2>1 DEF Writes, Step
  <2>3. S = s /\ N = "write" /\ Tail(todo) = <<<<"put", s, n>>>>
    BY <2>2 DEF S, N
  <2> QED BY <1>2, <2>1, <2>2, <2>3 DEF Writing
<1>3. CASE Reading
  <2>1. PICK s \in Names \ {"w"}, n \in Nat : st[s].open /\ Reads(s, n)
    BY <1>3 DEF Reading
  <2>2. todo = <<<<"mode", s, "read">>, <<"get", s, n>>>>
    BY <2>1 DEF Reads, Inputs, Step
  <2>3. S = s /\ N = "read" /\ Tail(todo) = <<<<"get", s, n>>>>
    BY <2>2 DEF S, N
  <2> QED BY <1>3, <2>1, <2>2, <2>3 DEF Reading
<1>4. CASE Turning
  <2>1. PICK m \in {"read", "write"}, tm \in {0, -1} : Turns(m, tm)
    BY <1>4 DEF Turning
  <2> QED BY <2>1 DEF Turns, Inputs, Step
<1>5. CASE Closing
  <2>1. PICK s \in Names : Closes(s) /\ call.op = "close"
    BY <1>5 DEF Closing, Waits, Step
  <2> QED BY <2>1 DEF Closes, Inputs, Step
<1>6. CASE Filtering
  <2>1. PICK n \in FilterSizes : Filters(n)
    BY <1>6 DEF Filtering
  <2> QED BY <2>1 DEF Filters, Inputs, Step
<1> QED BY <1>1, <1>2, <1>3, <1>4, <1>5, <1>6

LEMMA AtFlush ==
  ASSUME PlanInv, StreamInv, Step("flush")
  PROVE  S \in Names /\ st[S].open /\ st[S].mode = "write"
<1>1. Writing \/ Reading \/ Turning \/ Closing \/ Filtering
  BY DEF PlanInv, Step
<1>2. CASE Writing
  <2>1. PICK s \in Names \ {"r"}, n \in Nat : st[s].open /\ Writes(s, n)
    BY <1>2 DEF Writing
  <2> QED BY <2>1 DEF Writes, Step, S
<1>3. CASE Reading
  <2>1. PICK s \in Names \ {"w"}, n \in Nat : st[s].open /\ Reads(s, n)
    BY <1>3 DEF Reading
  <2>2. \/ st[s].mode = "write" /\ todo = <<<<"flush", s, 0>>, <<"mode", s, "read">>, <<"get", s, n>>>>
        \/ /\ how.setup = "pair" /\ st["w"].open
           /\ \E x \in Inputs(s, n) : todo = <<<<"flush", "w", 0>>, x, <<"get", s, n>>>>
    BY <2>1 DEF Reads, Inputs, Step
  <2>3. CASE how.setup = "pair" /\ st["w"].open /\ S = "w"
    BY <2>3 DEF StreamInv, Names
  <2> QED BY <2>1, <2>2, <2>3 DEF S
<1>4. CASE Turning
  <2>1. PICK m \in {"read", "write"}, tm \in {0, -1} : Turns(m, tm)
    BY <1>4 DEF Turning
  <2>2. st["f"].mode = "write" /\ todo = <<<<"flush", "f", 0>>, <<"try", "f", "read">>>>
    BY <2>1 DEF Turns, Step
  <2> QED BY <1>4, <2>2 DEF Turning, S, Names
<1>5. CASE Closing
  <2>1. PICK s \in Names : Closes(s) /\ call.op = "close"
    BY <1>5 DEF Closing, Waits, Step
  <2> QED BY <2>1 DEF Closes, Step, S
<1>6. CASE Filtering
  <2>1. PICK n \in FilterSizes : Filters(n)
    BY <1>6 DEF Filtering
  <2> QED BY <2>1 DEF Filters, Step
<1> QED BY <1>1, <1>2, <1>3, <1>4, <1>5, <1>6

----------------------------------------------------------------------------
(* Bytes that move from one sequence to the next.                          *)

LEMMA Least ==
  ASSUME NEW a \in Int, NEW b \in Int
  PROVE  Min({a, b}) = (IF a <= b THEN a ELSE b) /\ Max({a, b}) = (IF a <= b THEN b ELSE a)
<1>1. \E x \in {a, b} : \A y \in {a, b} : x <= y
  OBVIOUS
<1>2. \E x \in {a, b} : \A y \in {a, b} : x >= y
  OBVIOUS
<1>3. Min({a, b}) \in {a, b} /\ \A y \in {a, b} : Min({a, b}) <= y
  BY <1>1 DEF Min
<1>4. Max({a, b}) \in {a, b} /\ \A y \in {a, b} : Max({a, b}) >= y
  BY <1>2 DEF Max
<1> QED BY <1>3, <1>4

\* The bytes sent so far, numbered.
LEMMA Numbered ==
  ASSUME NEW n \in Nat, NEW k \in Nat
  PROVE  /\ Upto(n) \in Bytes /\ Len(Upto(n)) = n
         /\ [i \in 1 .. k |-> n + i] \in Bytes /\ Len([i \in 1 .. k |-> n + i]) = k
         /\ Upto(n) \o [i \in 1 .. k |-> n + i] = Upto(n + k)
         /\ Append(Upto(n), n + 1) = Upto(n + 1)
<1> DEFINE more == [i \in 1 .. k |-> n + i]
<1>1. Upto(n) \in Bytes /\ Len(Upto(n)) = n /\ \A i \in 1 .. n : Upto(n)[i] = i
  BY DEF Upto, Bytes
<1>2. more \in Bytes /\ Len(more) = k /\ \A i \in 1 .. k : more[i] = n + i
  BY DEF Bytes
<1>3. Upto(n + k) \in Bytes /\ Len(Upto(n + k)) = n + k /\ \A i \in 1 .. n + k : Upto(n + k)[i] = i
  BY DEF Upto, Bytes
<1>4. Upto(n + 1) \in Bytes /\ Len(Upto(n + 1)) = n + 1 /\ \A i \in 1 .. n + 1 : Upto(n + 1)[i] = i
  BY DEF Upto, Bytes
<1>5. Upto(n) \o more = Upto(n + k)
  <2> HIDE DEF more
  <2>1. /\ Upto(n) \o more \in Bytes /\ Len(Upto(n) \o more) = n + k
        /\ \A i \in 1 .. n + k : (Upto(n) \o more)[i] = IF i <= n THEN Upto(n)[i] ELSE more[i - n]
    <3>1. /\ Upto(n) \o more \in Bytes /\ Len(Upto(n) \o more) = Len(Upto(n)) + Len(more)
          /\ \A i \in 1 .. Len(Upto(n)) + Len(more) :
               (Upto(n) \o more)[i] = IF i <= Len(Upto(n)) THEN Upto(n)[i] ELSE more[i - Len(Upto(n))]
      BY <1>1, <1>2, ConcatProperties DEF Bytes
    <3> QED BY <3>1, <1>1, <1>2
  <2>2. \A i \in 1 .. n + k : (Upto(n) \o more)[i] = i
    BY <2>1, <1>1, <1>2
  <2> QED BY <2>1, <2>2, <1>3, SeqEqual DEF Bytes
<1>6. Append(Upto(n), n + 1) = Upto(n + 1)
  <2>1. /\ Append(Upto(n), n + 1) \in Bytes /\ Len(Append(Upto(n), n + 1)) = n + 1
        /\ \A i \in 1 .. n : Append(Upto(n), n + 1)[i] = Upto(n)[i]
        /\ Append(Upto(n), n + 1)[n + 1] = n + 1
    BY <1>1, AppendProperties DEF Bytes
  <2>2. \A i \in 1 .. n + 1 : Append(Upto(n), n + 1)[i] = i
    BY <2>1, <1>1
  <2> QED BY <2>1, <2>2, <1>4, SeqEqual DEF Bytes
<1> QED BY <1>1, <1>2, <1>5, <1>6

\* The first of one becomes the last of the other.
LEMMA MoveOne ==
  ASSUME NEW s \in Bytes, NEW t \in Bytes, t # << >>
  PROVE  /\ Head(t) \in Nat /\ Tail(t) \in Bytes /\ Append(s, Head(t)) \in Bytes
         /\ Append(s, Head(t)) \o Tail(t) = s \o t
         /\ Len(Tail(t)) = Len(t) - 1 /\ Len(t) > 0
         /\ Len(Append(s, Head(t))) = Len(s) + 1
<1>1. Head(t) \in Nat /\ Tail(t) \in Bytes /\ Len(Tail(t)) = Len(t) - 1 /\ \A i \in 1 .. Len(Tail(t)) : Tail(t)[i] = t[i + 1]
  BY HeadTailProperties DEF Bytes
<1>2. /\ Append(s, Head(t)) \in Bytes /\ Len(Append(s, Head(t))) = Len(s) + 1
      /\ \A i \in 1 .. Len(s) : Append(s, Head(t))[i] = s[i]
      /\ Append(s, Head(t))[Len(s) + 1] = Head(t)
  BY <1>1, AppendProperties DEF Bytes
<1>3. Len(t) \in Nat /\ Len(s) \in Nat /\ Len(t) > 0 /\ Head(t) = t[1]
  BY EmptySeq, LenProperties DEF Bytes
<1>4. Append(s, Head(t)) = s \o <<Head(t)>> /\ <<Head(t)>> \in Bytes
  BY <1>1, AppendIsConcat DEF Bytes
<1>5. t = <<Head(t)>> \o Tail(t)
  <2>1. /\ <<Head(t)>> \o Tail(t) \in Bytes /\ Len(<<Head(t)>> \o Tail(t)) = Len(t)
        /\ \A i \in 1 .. Len(t) : (<<Head(t)>> \o Tail(t))[i] = IF i <= 1 THEN <<Head(t)>>[i] ELSE Tail(t)[i - 1]
    BY <1>1, <1>3, <1>4, ConcatProperties DEF Bytes
  <2>2. \A i \in 1 .. Len(t) : (<<Head(t)>> \o Tail(t))[i] = t[i]
    BY <2>1, <1>1, <1>3
  <2> QED BY <2>1, <2>2, SeqEqual DEF Bytes
<1>6. (s \o <<Head(t)>>) \o Tail(t) = s \o (<<Head(t)>> \o Tail(t))
  BY <1>1, <1>4, ConcatAssociative DEF Bytes
<1> QED BY <1>1, <1>2, <1>3, <1>4, <1>5, <1>6

\* A sequence cut in two.
LEMMA Cut ==
  ASSUME NEW s \in Bytes, NEW k \in Nat, k <= Len(s)
  PROVE  /\ SubSeq(s, 1, k) \in Bytes /\ SubSeq(s, k + 1, Len(s)) \in Bytes
         /\ Len(SubSeq(s, 1, k)) = k /\ Len(SubSeq(s, k + 1, Len(s))) = Len(s) - k
         /\ SubSeq(s, 1, k) \o SubSeq(s, k + 1, Len(s)) = s
<1>1. Len(s) \in Nat /\ \A i \in 1 .. Len(s) : s[i] \in Nat
  BY LenProperties, ElementOfSeq DEF Bytes
<1>2. SubSeq(s, 1, k) \in Bytes /\ Len(SubSeq(s, 1, k)) = k
  BY <1>1, SubSeqProperties DEF Bytes
<1>3. SubSeq(s, k + 1, Len(s)) \in Bytes /\ Len(SubSeq(s, k + 1, Len(s))) = Len(s) - k
  BY <1>1, SubSeqProperties DEF Bytes
<1>4. SubSeq(s, 1, k) \o SubSeq(s, k + 1, Len(s)) = SubSeq(s, 1, Len(s))
  <2>1. 1 \in 1 .. Len(s) + 1 /\ k \in 1 - 1 .. Len(s) /\ Len(s) \in k .. Len(s)
    BY <1>1
  <2> QED BY <2>1, ConcatAdjacentSubSeq DEF Bytes
<1> QED BY <1>2, <1>3, <1>4, SubSeqFull DEF Bytes

LEMMA Concat ==
  ASSUME NEW s \in Bytes, NEW t \in Bytes
  PROVE  /\ s \o t \in Bytes /\ Len(s \o t) = Len(s) + Len(t)
         /\ s \o << >> = s /\ << >> \o s = s /\ << >> \in Bytes
         /\ s \o t = << >> <=> s = << >> /\ t = << >>
         /\ Len(s) \in Nat /\ (s = << >> <=> Len(s) = 0)
<1>1. s \o t \in Bytes /\ Len(s \o t) = Len(s) + Len(t)
  BY ConcatProperties DEF Bytes
<1>2. s \o << >> = s /\ << >> \o s = s /\ << >> \in Bytes
  BY ConcatEmptySeq, EmptySeq DEF Bytes
<1>3. s \o t = << >> <=> s = << >> /\ t = << >>
  BY ConcatEqualIffEmpty DEF Bytes
<1>4. Len(s) \in Nat /\ (s = << >> <=> Len(s) = 0)
  BY EmptySeq, LenProperties DEF Bytes
<1> QED BY <1>1, <1>2, <1>3, <1>4

LEMMA Regroup ==
  ASSUME NEW s \in Bytes, NEW t \in Bytes, NEW u \in Bytes
  PROVE  (s \o t) \o u = s \o (t \o u)
  BY ConcatAssociative DEF Bytes

LEMMA Extend ==
  ASSUME NEW s \in Bytes, NEW t \in Bytes, NEW x \in Nat
  PROVE  /\ Append(t, x) \in Bytes /\ Append(t, x) # << >> /\ Len(Append(t, x)) = Len(t) + 1
         /\ Append(s \o t, x) = s \o Append(t, x)
         /\ Append(t, x) = t \o <<x>> /\ <<x>> \in Bytes
<1>1. s \o t \in Bytes /\ <<x>> \in Bytes
  BY ConcatProperties DEF Bytes
<1>2. Append(s \o t, x) = (s \o t) \o <<x>> /\ Append(t, x) = t \o <<x>>
  BY <1>1, AppendIsConcat DEF Bytes
<1>3. (s \o t) \o <<x>> = s \o (t \o <<x>>)
  BY <1>1, ConcatAssociative DEF Bytes
<1>4. Append(t, x) \in Bytes /\ Append(t, x) # << >> /\ Len(Append(t, x)) = Len(t) + 1
  BY AppendProperties DEF Bytes
<1> QED BY <1>1, <1>2, <1>3, <1>4

\* A process answers bytes with bytes.
LEMMA Answers ==
  ASSUME NEW kind \in {"each", "all", "twice", "early", "missing"}, NEW s \in Bytes
  PROVE  Answer(kind, s) \in Bytes /\ (kind \in {"each", "all"} => Answer(kind, s) = s)
<1>1. Len(s) \in Nat /\ \A i \in 1 .. Len(s) : s[i] \in Nat
  BY LenProperties, ElementOfSeq DEF Bytes
<1>2. CASE kind \in {"each", "all"}
  BY <1>2 DEF Answer
<1>3. CASE kind = "twice"
  <2>1. \A i \in 1 .. 2 * Len(s) : (i + 1) \div 2 \in 1 .. Len(s)
    BY <1>1
  <2>2. [i \in 1 .. 2 * Len(s) |-> s[(i + 1) \div 2]] \in Seq(Nat)
    BY <1>1, <2>1
  <2> QED BY <1>3, <2>2 DEF Answer, Bytes
<1>4. CASE kind = "early"
  <2>1. Min({1, Len(s)}) \in Nat /\ Min({1, Len(s)}) <= Len(s)
    BY <1>1, Least
  <2> QED BY <1>4, <2>1, Cut DEF Answer
<1>5. CASE kind = "missing"
  BY <1>5 DEF Answer, Bytes
<1> QED BY <1>2, <1>3, <1>4, <1>5

----------------------------------------------------------------------------
(* The invariant, and what leaves it alone.                                *)

IInv == TypeInv /\ StreamInv /\ PlanInv /\ EndsInv /\ FilterInv /\ InOrder /\ FilterComplete

\* Steps of the processes leave the plan of the call alone.
LEMMA PlanStays ==
  ASSUME PlanInv, UNCHANGED <<how, st, todo, call, chunk>>,
         in # << >> \/ (chunk = Done /\ ends["inW"] = {}) => in' # << >> \/ (chunk = Done /\ ends'["inW"] = {}),
         second'.open = second.open, second.at # "none" => second'.at # "none"
  PROVE  PlanInv'
<1>1. ASSUME Writing PROVE Writing'
  BY <1>1 DEF Writing, Writes, Names
<1>2. ASSUME Reading PROVE Reading'
  BY <1>2 DEF Reading, Reads, Inputs, Capacity, Names
<1>3. ASSUME Turning PROVE Turning'
  BY <1>3 DEF Turning, Turns
<1>4. ASSUME Closing PROVE Closing'
  BY <1>4 DEF Closing, Closes, Waits, Names
<1>5. ASSUME Filtering PROVE Filtering'
  BY <1>5 DEF Filtering, Filters
<1> QED BY <1>1, <1>2, <1>3, <1>4, <1>5 DEF PlanInv

\* What is in the pipes and the process, and in the streams.
LEMMA Contents ==
  ASSUME TypeInv
  PROVE  /\ Writer \in Streams /\ Reader \in Streams
         /\ Unwritten \in Bytes /\ Unread \in Bytes
         /\ out \in Bytes /\ in \in Bytes /\ got \in Bytes /\ sent \in Nat
         /\ first.took \in Bytes /\ first.held \in Bytes /\ first.gave \in Bytes
<1>1. Writer \in Streams /\ Reader \in Streams
  BY DEF TypeInv, Writer, Reader, Names
<1>2. Unwritten \in Bytes
  BY <1>1 DEF Unwritten, Streams, Bytes
<1>3. (IF Reader.mode = "read" THEN Reader.data ELSE << >>) \in Bytes
  BY <1>1 DEF Streams, Bytes
<1>4. Unread \in Bytes
  BY <1>1, <1>3, Concat DEF Unread, Streams
<1> QED BY <1>1, <1>2, <1>4 DEF TypeInv

----------------------------------------------------------------------------
(* The processes.                                                          *)

LEMMA FirstStarts ==
  ASSUME IInv, FirstStart, UNCHANGED <<how, second, st, sig, sent, got, raw, chunk, call, todo>>
  PROVE  IInv'
<1>0. TypeInv /\ StreamInv /\ PlanInv /\ EndsInv /\ FilterInv /\ InOrder /\ FilterComplete
  BY DEF IInv
<1>1. /\ first.at = "forked" /\ out' = out /\ in' = in
      /\ first' = [first EXCEPT !.at = IF how.kind = "missing" THEN "gone" ELSE "runs"]
      /\ ends' = Dropped(ends, "first", IF how.kind = "missing" THEN DOMAIN ends ELSE Unneeded)
  BY DEF FirstStart
<1>2. TypeInv'
  BY <1>0, <1>1 DEF TypeInv, Dropped, Names, Streams, Unneeded, Ends, Actors
<1>3. StreamInv'
  BY <1>0 DEF StreamInv, Names, Fits
<1>4. PlanInv'
  <2>1. ends["inW"] # {}
    BY <1>0, <1>1 DEF EndsInv
  <2> QED BY <2>1, <1>0, <1>1, PlanStays
<1>5. EndsInv'
  BY <1>0, <1>1 DEF EndsInv, Dropped, Unneeded, TypeInv, Ends, Names
<1>6. FilterInv' /\ FilterComplete'
  BY <1>0, <1>1 DEF FilterInv, FilterComplete, Copies, TypeInv
<1>7. InOrder'
  BY <1>0, <1>1 DEF InOrder, Unwritten, Unread, Writer, Reader, TypeInv
<1> QED BY <1>2, <1>3, <1>4, <1>5, <1>6, <1>7 DEF IInv

LEMMA FirstTakes ==
  ASSUME IInv, FirstTake, UNCHANGED <<how, second, st, sig, sent, got, raw, chunk, call, todo>>
  PROVE  IInv'
<1>0. TypeInv /\ StreamInv /\ PlanInv /\ EndsInv /\ FilterInv /\ InOrder /\ FilterComplete
  BY DEF IInv
<1> DEFINE t == Append(first.took, Head(out))
           more == SubSeq(Answer(how.kind, t), Len(Answer(how.kind, first.took)) + 1, Len(Answer(how.kind, t)))
<1>1. /\ first.at = "runs" /\ out # << >> /\ out' = Tail(out) /\ in' = in /\ ends' = ends
      /\ first' = [first EXCEPT !.took = t, !.held = @ \o more]
  BY DEF FirstTake
<1>a. how.kind \in {"each", "all", "twice", "early", "missing"}
  BY <1>0, SetupsAssumption DEF TypeInv
<1>b. /\ t \in Bytes /\ Tail(out) \in Bytes /\ t \o Tail(out) = first.took \o out /\ Head(out) \in Nat
      /\ Len(t) = Len(first.took) + 1
  BY <1>0, <1>1, Contents, MoveOne
<1>c. Answer(how.kind, t) \in Bytes /\ Answer(how.kind, first.took) \in Bytes
  BY <1>0, <1>a, <1>b, Contents, Answers
<1>d. more \in Bytes
  <2> HIDE DEF t
  <2>1. /\ Len(Answer(how.kind, t)) \in Nat /\ Len(Answer(how.kind, first.took)) \in Nat
        /\ \A i \in 1 .. Len(Answer(how.kind, t)) : Answer(how.kind, t)[i] \in Nat
    BY <1>c, LenProperties, ElementOfSeq DEF Bytes
  <2> QED BY <2>1, SubSeqProperties DEF Bytes
<1>e. first.held \o more \in Bytes
  BY <1>0, <1>d, Contents, Concat
<1> HIDE DEF more
<1>f. first' \in [at : {"forked", "runs", "gone"}, took : Bytes, held : Bytes, gave : Bytes]
      /\ first'.took = t /\ first'.held = first.held \o more /\ first'.gave = first.gave /\ first'.at = first.at
  BY <1>0, <1>1, <1>b, <1>e DEF TypeInv
<1> HIDE DEF t
<1>2. TypeInv'
  BY <1>0, <1>1, <1>b, <1>f DEF TypeInv, Names, Streams
<1>3. StreamInv'
  BY <1>0 DEF StreamInv, Names, Fits
<1>4. PlanInv'
  BY <1>0, <1>1, PlanStays
<1>5. EndsInv'
  BY <1>0, <1>1, <1>f DEF EndsInv, Names
<1>6. FilterInv'
  <2>1. Copies => first'.gave \o first'.held = first'.took
    <3> SUFFICES ASSUME Copies PROVE first.gave \o (first.held \o more) = t
      BY <1>f
    <3>1. Answer(how.kind, t) = t /\ Answer(how.kind, first.took) = first.took
      BY <1>0, <1>b, <1>a, Contents, Answers DEF Copies
    <3>2. more = <<Head(out)>>
      <4>1. Len(first.took) \in Nat /\ t[Len(first.took) + 1] = Head(out) /\ Len(t) = Len(first.took) + 1
        BY <1>0, <1>b, Contents, AppendProperties, LenProperties DEF t, Bytes
      <4>2. more \in Bytes /\ Len(more) = 1 /\ more[1] = Head(out)
        <5>1. more = SubSeq(t, Len(first.took) + 1, Len(first.took) + 1)
          BY <3>1, <4>1 DEF more
        <5>2. \A i \in Len(first.took) + 1 .. Len(first.took) + 1 : t[i] \in Nat
          BY <4>1, <1>b
        <5> QED BY <5>1, <5>2, <4>1, SubSeqProperties DEF Bytes
      <4>3. <<Head(out)>> \in Bytes /\ Len(<<Head(out)>>) = 1 /\ <<Head(out)>>[1] = Head(out)
        BY <1>b DEF Bytes
      <4> QED BY <4>2, <4>3, SeqEqual DEF Bytes
    <3>3. first.gave \o first.held = first.took
      BY <1>0 DEF FilterInv
    <3>4. first.gave \in Bytes /\ first.held \in Bytes /\ first.took \in Bytes /\ <<Head(out)>> \in Bytes
      BY <1>0, <1>d, <3>2, Contents
    <3>5. first.gave \o (first.held \o <<Head(out)>>) = (first.gave \o first.held) \o <<Head(out)>>
      BY <3>4, Regroup
    <3>6. t = first.took \o <<Head(out)>>
      BY <1>b, <3>4, Extend DEF t
    <3> QED BY <3>2, <3>3, <3>5, <3>6
  <2> QED BY <1>0, <1>1, <1>f, <2>1 DEF FilterInv, Copies
<1>7. InOrder' /\ FilterComplete'
  <2>1. Unwritten' = Unwritten /\ Unread' = Unread
    BY DEF Unwritten, Unread, Writer, Reader
  <2> QED BY <1>0, <1>1, <1>b, <1>f, <2>1 DEF InOrder, FilterComplete
<1> QED BY <1>2, <1>3, <1>4, <1>5, <1>6, <1>7 DEF IInv

LEMMA FirstGives ==
  ASSUME IInv, FirstGive, UNCHANGED <<how, second, st, sig, sent, got, raw, chunk, call, todo>>
  PROVE  IInv'
<1>0. TypeInv /\ StreamInv /\ PlanInv /\ EndsInv /\ FilterInv /\ InOrder /\ FilterComplete
  BY DEF IInv
<1>1. first.at = "runs" /\ first.held # << >> /\ out' = out /\ (how.kind = "all" => AtEnd)
  BY DEF FirstGive
<1>2. CASE ends["inR"] = {}
  <2>1. first' = [first EXCEPT !.at = "gone"] /\ ends' = Dropped(ends, "first", DOMAIN ends) /\ in' = in
    BY <1>2 DEF FirstGive
  <2>2. TypeInv'
    BY <1>0, <1>1, <2>1 DEF TypeInv, Dropped, Names, Streams, Ends, Actors
  <2>3. StreamInv'
    BY <1>0 DEF StreamInv, Names, Fits
  <2>4. ends["inW"] # {}
    BY <1>0, <1>1 DEF EndsInv
  <2>5. PlanInv'
    BY <2>4, <1>0, <1>1, <2>1, PlanStays
  <2>6. EndsInv'
    BY <1>0, <1>1, <2>1 DEF EndsInv, Dropped, TypeInv, Ends, Names
  <2>7. IF how.setup = "pair" THEN ~ st["w"].open ELSE ~ st["f"].open
    BY <1>0, <1>2 DEF EndsInv, TypeInv, Names, Streams
  <2>8. FilterInv'
    BY <1>0, <1>1, <2>1, <2>7 DEF FilterInv, Copies, TypeInv
  <2>9. InOrder' /\ FilterComplete'
    BY <1>0, <1>1, <2>1 DEF InOrder, FilterComplete, Unwritten, Unread, Writer, Reader, TypeInv
  <2> QED BY <2>2, <2>3, <2>5, <2>6, <2>8, <2>9 DEF IInv
<1>3. CASE ends["inR"] # {}
  <2>1. /\ in' = Append(in, Head(first.held)) /\ ends' = ends
        /\ first' = [first EXCEPT !.held = Tail(@), !.gave = Append(@, Head(first.held))]
    BY <1>3 DEF FirstGive
  <2>a. first.held \in Bytes /\ first.gave \in Bytes /\ in \in Bytes /\ got \o Unread \in Bytes
    BY <1>0, Contents, Concat
  <2>b. /\ Head(first.held) \in Nat /\ Tail(first.held) \in Bytes /\ Append(first.gave, Head(first.held)) \in Bytes
        /\ Append(first.gave, Head(first.held)) \o Tail(first.held) = first.gave \o first.held
    BY <1>1, <2>a, MoveOne
  <2>c. in' \in Bytes /\ in' # << >> /\ Append((got \o Unread) \o in, Head(first.held)) = (got \o Unread) \o in'
    <3> DEFINE p == got \o Unread
               x == Head(first.held)
    <3>1. p \in Bytes /\ in \in Bytes /\ x \in Nat
      BY <2>a, <2>b
    <3> HIDE DEF p, x
    <3>2. Append(in, x) \in Bytes /\ Append(in, x) # << >> /\ Append(p \o in, x) = p \o Append(in, x)
      BY <3>1, Extend
    <3> QED BY <3>2, <2>1 DEF p, x
  <2>d. /\ first' \in [at : {"forked", "runs", "gone"}, took : Bytes, held : Bytes, gave : Bytes]
        /\ first'.took = first.took /\ first'.held = Tail(first.held) /\ first'.at = first.at
        /\ first'.gave = Append(first.gave, Head(first.held))
    BY <1>0, <1>1, <2>b, <2>1 DEF TypeInv
  <2>2. TypeInv'
    BY <1>0, <1>1, <2>1, <2>c, <2>d DEF TypeInv, Names, Streams
  <2>3. StreamInv'
    BY <1>0 DEF StreamInv, Names, Fits
  <2>5. PlanInv'
    BY <2>c, <1>0, PlanStays
  <2>6. EndsInv'
    BY <1>0, <2>1, <2>d DEF EndsInv, Names
  <2>8. FilterInv'
    BY <1>0, <1>1, <2>b, <2>d DEF FilterInv, Copies
  <2>9. InOrder' /\ FilterComplete'
    <3>1. Unwritten' = Unwritten /\ Unread' = Unread
      BY DEF Unwritten, Unread, Writer, Reader
    <3> QED BY <1>0, <1>1, <2>b, <2>c, <2>d, <3>1 DEF InOrder, FilterComplete
  <2> QED BY <2>2, <2>3, <2>5, <2>6, <2>8, <2>9 DEF IInv
<1> QED BY <1>2, <1>3

LEMMA FirstExits ==
  ASSUME IInv, FirstExit, UNCHANGED <<how, second, st, sig, sent, got, raw, chunk, call, todo>>
  PROVE  IInv'
<1>0. TypeInv /\ StreamInv /\ PlanInv /\ EndsInv /\ FilterInv /\ InOrder /\ FilterComplete
  BY DEF IInv
<1>1. /\ first.at = "runs" /\ first.held = << >> /\ out' = out /\ in' = in
      /\ AtEnd \/ (how.kind = "early" /\ first.took # << >>)
      /\ first' = [first EXCEPT !.at = "gone"] /\ ends' = Dropped(ends, "first", DOMAIN ends)
  BY DEF FirstExit
<1>2. TypeInv'
  BY <1>0, <1>1 DEF TypeInv, Dropped, Names, Streams, Ends, Actors
<1>3. StreamInv'
  BY <1>0 DEF StreamInv, Names, Fits
<1>4. ends["inW"] # {}
  BY <1>0, <1>1 DEF EndsInv
<1>5. PlanInv'
  BY <1>4, <1>0, <1>1, PlanStays
<1>6. EndsInv'
  BY <1>0, <1>1 DEF EndsInv, Dropped, TypeInv, Ends, Names
<1>7. Copies => out = << >> /\ IF how.setup = "pair" THEN ~ st["w"].open ELSE st["f"].open => chunk = Done
  BY <1>0, <1>1 DEF EndsInv, AtEnd, Copies, TypeInv, Names, Streams
<1>8. FilterInv'
  BY <1>0, <1>1, <1>7 DEF FilterInv, Copies, TypeInv
<1>9. InOrder' /\ FilterComplete'
  BY <1>0, <1>1 DEF InOrder, FilterComplete, Unwritten, Unread, Writer, Reader, TypeInv
<1> QED BY <1>2, <1>3, <1>5, <1>6, <1>8, <1>9 DEF IInv

LEMMA FirstInv ==
  ASSUME IInv, First
  PROVE  IInv'
BY FirstStarts, FirstTakes, FirstGives, FirstExits DEF First

LEMMA SecondInv ==
  ASSUME IInv, Second(TRUE)
  PROVE  IInv'
<1>0. TypeInv /\ StreamInv /\ PlanInv /\ EndsInv /\ FilterInv /\ InOrder /\ FilterComplete
  BY DEF IInv
<1>1. /\ UNCHANGED <<how, out, in, first, st, sig, sent, got, raw, chunk, call, todo>>
      /\ second.at # "none" /\ second'.open = second.open /\ second'.at \in {"runs", "gone"}
      /\ second' \in [at : {"none", "forked", "runs", "gone"}, open : BOOLEAN]
  BY <1>0 DEF Second, SecondStart, SecondExit, TypeInv
<1>2. ends' = [e \in DOMAIN ends |-> ends[e] \ {"second"}]
  BY DEF Second, SecondStart, SecondExit, KeptByExec, Dropped
<1>3. TypeInv'
  BY <1>0, <1>1, <1>2 DEF TypeInv, Names, Streams, Ends, Actors
<1>4. StreamInv'
  BY <1>0, <1>1 DEF StreamInv, Names, Fits
<1>5. PlanInv'
  <2>1. ends["inW"] = {} => ends'["inW"] = {}
    BY <1>0, <1>2 DEF TypeInv, Ends
  <2> QED BY <2>1, <1>0, <1>1, PlanStays
<1>6. EndsInv'
  BY <1>0, <1>1, <1>2 DEF EndsInv, TypeInv, Ends, Names
<1>7. FilterInv' /\ FilterComplete' /\ InOrder'
  BY <1>0, <1>1 DEF FilterInv, FilterComplete, Copies, InOrder, Unwritten, Unread, Writer, Reader
<1> QED BY <1>3, <1>4, <1>5, <1>6, <1>7 DEF IInv

----------------------------------------------------------------------------
(* The calls.                                                              *)

LEMMA Begins ==
  ASSUME IInv, NEW op \in {"write", "read", "set", "poll", "close", "filter"}, NEW s \in {"f", "g", "w", "r"},
         NEW steps, Begin(op, s, steps), steps # << >>, UNCHANGED <<second, sig>>, TypeInv', StreamInv', PlanInv',
         \A n \in Names : /\ st'[n].open = st[n].open /\ st'[n].mode = st[n].mode
                          /\ st'[n].data = st[n].data /\ st'[n].saved = st[n].saved
  PROVE  IInv'
<1>0. TypeInv /\ StreamInv /\ PlanInv /\ EndsInv /\ FilterInv /\ InOrder /\ FilterComplete
  BY DEF IInv
<1>1. UNCHANGED <<how, ends, out, in, first, second, sig, raw, chunk, sent, got>> /\ todo' = steps
  BY DEF Begin, Pipes
<1>2. EndsInv'
  BY <1>0, <1>1 DEF EndsInv, Names
<1>3. FilterInv'
  BY <1>0, <1>1 DEF FilterInv, Copies, Names
<1>4. FilterComplete'
  BY <1>1 DEF FilterComplete
<1>5. InOrder'
  BY <1>0, <1>1 DEF InOrder, Unwritten, Unread, Writer, Reader, Names
<1> QED BY <1>2, <1>3, <1>4, <1>5 DEF IInv

\* What a call does to the types.
LEMMA BeginTypes ==
  ASSUME TypeInv, NEW op \in {"write", "read", "set", "poll", "close", "filter"}, NEW s \in {"f", "g", "w", "r"},
         NEW steps, Begin(op, s, steps), UNCHANGED sig, st' \in [Names -> Streams],
         second' \in [at : {"none", "forked", "runs", "gone"}, open : BOOLEAN]
  PROVE  TypeInv' /\ call'.op = op
<1>1. UNCHANGED <<how, ends, out, in, first, sig, raw, chunk, sent, got>>
      /\ call' = [op |-> op, s |-> s, n |-> 0, ret |-> 0, err |-> FALSE, ready |-> {}]
  BY DEF Begin, Pipes
<1>2. call' \in [op : {"none", "killed", "write", "read", "set", "poll", "close", "filter", "open"},
                 s : {"f", "g", "w", "r"}, n : Nat, ret : Int, err : BOOLEAN, ready : SUBSET Modes]
  BY <1>1
<1> QED BY <1>1, <1>2 DEF TypeInv, Names, Streams

LEMMA WriteBegins ==
  ASSUME IInv, NEW s \in Names, NEW n \in Sizes, SfWrite(s, n)
  PROVE  IInv'
<1> DEFINE steps == <<<<"mode", s, "write">>, <<"put", s, n>>>>
<1>1. /\ how.setup # "filter" /\ st[s].open /\ s # "r" /\ Begin("write", s, steps) /\ UNCHANGED <<st, second, sig>>
      /\ todo' = steps /\ how' = how /\ s \in {"f", "g", "w", "r"} /\ steps # << >>
  BY DEF SfWrite, Begin, Names
<1>2. TypeInv' /\ call'.op = "write"
  BY <1>1, BeginTypes DEF IInv, TypeInv
<1>3. StreamInv'
  BY <1>1 DEF IInv, StreamInv, Names, Fits
<1>4. PlanInv'
  <2>1. n \in Nat
    BY SizesAssumption
  <2>2. Writing'
    BY <1>1, <2>1 DEF Writing, Writes, Names
  <2> QED BY <1>2, <2>2 DEF PlanInv
<1> HIDE DEF steps
<1> QED BY <1>1, <1>2, <1>3, <1>4, Begins

LEMMA ReadBegins ==
  ASSUME IInv, NEW s \in Names, NEW n \in Sizes, SfRead(s, n)
  PROVE  IInv'
<1> DEFINE steps == <<<<"mode", s, "read">>, <<"get", s, n>>>>
<1>1. /\ how.setup # "filter" /\ st[s].open /\ s # "w" /\ Begin("read", s, steps) /\ UNCHANGED <<st, second, sig>>
      /\ todo' = steps /\ how' = how /\ s \in {"f", "g", "w", "r"} /\ steps # << >>
  BY DEF SfRead, Begin, Names
<1>2. TypeInv' /\ call'.op = "read"
  BY <1>1, BeginTypes DEF IInv, TypeInv
<1>3. StreamInv'
  BY <1>1 DEF IInv, StreamInv, Names, Fits
<1>4. PlanInv'
  <2>1. n \in Nat
    BY SizesAssumption
  <2>2. Reading'
    BY <1>1, <2>1 DEF Reading, Reads, Names
  <2> QED BY <1>2, <2>2 DEF PlanInv
<1> HIDE DEF steps
<1> QED BY <1>1, <1>2, <1>3, <1>4, Begins

LEMMA SetBegins ==
  ASSUME IInv, NEW s \in Names, NEW m \in {"read", "write"}, NEW on \in BOOLEAN, SfSet(s, m, on)
  PROVE  IInv'
<1> DEFINE to == IF on THEN st[s].flags \cup {m} ELSE st[s].flags \ {m}
           mode == IF on THEN m ELSE Other(m)
           steps == <<<<"try", s, mode>>>>
<1>1. /\ how.setup = "rw" /\ st[s].open /\ Begin("set", s, steps) /\ UNCHANGED <<second, sig>>
      /\ todo' = steps /\ how' = how /\ s \in {"f", "g", "w", "r"} /\ steps # << >> /\ s = "f"
      /\ st' = [st EXCEPT ![s].flags = IF to = {} THEN @ ELSE to]
  BY DEF SfSet, Begin, Names
<1>2. st[s] \in Streams /\ st \in [Names -> Streams]
  BY DEF IInv, TypeInv
<1>3. (IF to = {} THEN st[s].flags ELSE to) \in SUBSET Modes
  BY <1>2 DEF Streams, Modes
<1>4. st' \in [Names -> Streams] /\ \A n \in Names : st'[n] = [st[n] EXCEPT !.flags = st'[n].flags]
  BY <1>1, <1>2, <1>3 DEF Streams
<1>5. TypeInv' /\ call'.op = "set"
  BY <1>1, <1>4, BeginTypes DEF IInv, TypeInv
<1>6. \A n \in Names : /\ st'[n].open = st[n].open /\ st'[n].mode = st[n].mode
                       /\ st'[n].data = st[n].data /\ st'[n].saved = st[n].saved
                       /\ st'[n].file = st[n].file /\ st'[n].aux = st[n].aux /\ st'[n].size = st[n].size
  BY <1>2, <1>4 DEF Streams
<1>7. StreamInv'
  BY <1>1, <1>6 DEF IInv, StreamInv, Names, Fits
<1>8. PlanInv'
  <2>1. mode \in {"read", "write"} /\ 0 \in {0, -1}
    BY DEF Other
  <2> HIDE DEF mode
  <2>2. Turning'
    BY <1>1, <1>6, <2>1 DEF Turning, Turns, Names
  <2> QED BY <1>5, <2>2 DEF PlanInv
<1> HIDE DEF steps
<1> QED BY <1>1, <1>5, <1>6, <1>7, <1>8, Begins

LEMMA PollBegins ==
  ASSUME IInv, NEW s \in Names, NEW tm \in {0, -1}, SfPoll(s, tm)
  PROVE  IInv'
<1> DEFINE steps == <<<<"poll", s, tm>>>>
<1>1. /\ how.setup = "rw" /\ st[s].open /\ Begin("poll", s, steps) /\ UNCHANGED <<st, second, sig>>
      /\ todo' = steps /\ how' = how /\ s \in {"f", "g", "w", "r"} /\ steps # << >> /\ s = "f"
  BY DEF SfPoll, Begin, Names
<1>2. TypeInv' /\ call'.op = "poll"
  BY <1>1, BeginTypes DEF IInv, TypeInv
<1>3. StreamInv'
  BY <1>1 DEF IInv, StreamInv, Names, Fits
<1>4. PlanInv'
  <2>1. Turning'
    BY <1>1 DEF Turning, Turns
  <2> QED BY <1>2, <2>1 DEF PlanInv
<1> HIDE DEF steps
<1> QED BY <1>1, <1>2, <1>3, <1>4, Begins

LEMMA CloseBegins ==
  ASSUME IInv, NEW s \in Names, SfClose(s)
  PROVE  IInv'
<1> DEFINE steps == (IF st[s].mode = "write" THEN <<<<"flush", s, 0>>>> ELSE << >>) \o <<<<"shut", s, 0>>>>
<1>1. /\ st[s].open /\ (s = "r" => ~ st["w"].open) /\ Begin("close", s, steps) /\ UNCHANGED <<st, second, sig>>
      /\ todo' = steps /\ how' = how /\ s \in {"f", "g", "w", "r"}
  BY DEF SfClose, Begin, Names
<1>2. steps = IF st[s].mode = "write" THEN <<<<"flush", s, 0>>, <<"shut", s, 0>>>> ELSE <<<<"shut", s, 0>>>>
  <2>1. /\ <<<<"flush", s, 0>>>> \o <<<<"shut", s, 0>>>> = <<<<"flush", s, 0>>, <<"shut", s, 0>>>>
        /\ << >> \o <<<<"shut", s, 0>>>> = <<<<"shut", s, 0>>>>
    <3> DEFINE a == <<"flush", s, 0>>
               b == <<"shut", s, 0>>
    <3> HIDE DEF a, b
    <3>1. <<a>> \o <<b>> = <<a, b>> /\ << >> \o <<b>> = <<b>>
      BY Tuples
    <3> QED BY <3>1 DEF a, b
  <2> QED BY <2>1
<1> HIDE DEF steps
<1>3. steps # << >>
  BY <1>2
<1>4. TypeInv' /\ call'.op = "close"
  BY <1>1, BeginTypes DEF IInv, TypeInv
<1>5. StreamInv'
  BY <1>1 DEF IInv, StreamInv, Names, Fits
<1>6. PlanInv'
  <2>1. Closing'
    BY <1>1, <1>2, <1>4 DEF Closing, Closes, Names
  <2> QED BY <1>4, <2>1 DEF PlanInv
<1> QED BY <1>1, <1>3, <1>4, <1>5, <1>6, Begins

LEMMA FilterBegins ==
  ASSUME IInv, NEW n \in FilterSizes, FilterRead(n)
  PROVE  IInv'
<1> DEFINE steps == <<<<"refill", "f", n>>>>
<1>1. /\ how.setup = "filter" /\ st["f"].open /\ Begin("filter", "f", steps) /\ UNCHANGED <<st, second, sig>>
      /\ todo' = steps /\ how' = how /\ steps # << >>
  BY DEF FilterRead, Begin
<1>2. TypeInv' /\ call'.op = "filter"
  BY <1>1, BeginTypes DEF IInv, TypeInv
<1>3. StreamInv'
  BY <1>1 DEF IInv, StreamInv, Names, Fits
<1>4. PlanInv'
  <2>1. Filtering'
    BY <1>1, <1>2 DEF Filtering, Filters
  <2> QED BY <1>2, <2>1 DEF PlanInv
<1> HIDE DEF steps
<1> QED BY <1>1, <1>2, <1>3, <1>4, Begins

LEMMA SecondOpens ==
  ASSUME IInv, OpenSecond
  PROVE  IInv'
<1>0. TypeInv /\ StreamInv /\ PlanInv /\ EndsInv /\ FilterInv /\ InOrder /\ FilterComplete
  BY DEF IInv
<1>1. /\ how.setup = "rw" /\ second.at = "none" /\ todo = << >> /\ todo' = << >> /\ ends' = Inherited
      /\ second' = [at |-> "forked", open |-> TRUE] /\ sig' = Guarded(sig)
      /\ call' = [call EXCEPT !.op = "open", !.s = "g"]
      /\ UNCHANGED <<out, in, first, how, raw, chunk, st, sent, got>>
  BY DEF OpenSecond, Idle
<1>2. ends' \in [Ends -> SUBSET Actors]
      /\ \A e \in Ends : ends'[e] = ends[e] \cup (IF "app" \in ends[e] THEN {"second"} ELSE {})
  BY <1>0, <1>1 DEF Inherited, TypeInv, Ends, Actors
<1>3. TypeInv'
  <2>1. sig' \in [handler : {"own", "ignored", "default"}, open : Nat]
    BY <1>0, <1>1 DEF Guarded, TypeInv
  <2>2. call' \in [op : {"none", "killed", "write", "read", "set", "poll", "close", "filter", "open"},
                   s : {"f", "g", "w", "r"}, n : Nat, ret : Int, err : BOOLEAN, ready : SUBSET Modes]
    BY <1>0, <1>1 DEF TypeInv
  <2> QED BY <1>0, <1>1, <1>2, <2>1, <2>2 DEF TypeInv, Names, Streams
<1>4. StreamInv'
  BY <1>0, <1>1 DEF StreamInv, Names, Fits
<1>5. PlanInv'
  BY <1>1 DEF PlanInv
<1>6. EndsInv'
  BY <1>0, <1>1, <1>2 DEF EndsInv, Names, Ends
<1>7. FilterInv' /\ FilterComplete' /\ InOrder'
  BY <1>0, <1>1 DEF FilterInv, FilterComplete, Copies, InOrder, Unwritten, Unread, Writer, Reader
<1> QED BY <1>3, <1>4, <1>5, <1>6, <1>7 DEF IInv

LEMMA SecondIsWritten ==
  ASSUME IInv, WriteSecond
  PROVE  IInv'
<1>0. TypeInv /\ StreamInv /\ PlanInv /\ EndsInv /\ FilterInv /\ InOrder /\ FilterComplete
  BY DEF IInv
<1>1. /\ second.open /\ todo = << >> /\ todo' = << >>
      /\ UNCHANGED <<ends, out, in, first, how, second, sig, raw, chunk, st, sent, got>>
      /\ call' \in {[call EXCEPT !.op = "killed", !.s = "g"], [call EXCEPT !.op = "write", !.s = "g"]}
  BY DEF WriteSecond, Idle, Pipes, Rest
<1>2. how.setup # "filter"
  BY <1>0, <1>1 DEF EndsInv
<1>3. TypeInv'
  <2>2. call' \in [op : {"none", "killed", "write", "read", "set", "poll", "close", "filter", "open"},
                   s : {"f", "g", "w", "r"}, n : Nat, ret : Int, err : BOOLEAN, ready : SUBSET Modes]
    BY <1>0, <1>1 DEF TypeInv
  <2> QED BY <1>0, <1>1, <2>2 DEF TypeInv, Names, Streams
<1>4. StreamInv' /\ PlanInv' /\ EndsInv'
  BY <1>0, <1>1 DEF StreamInv, Names, Fits, PlanInv, EndsInv
<1>5. FilterInv' /\ FilterComplete' /\ InOrder'
  BY <1>0, <1>1, <1>2 DEF FilterInv, FilterComplete, Copies, InOrder, Unwritten, Unread, Writer, Reader
<1> QED BY <1>3, <1>4, <1>5 DEF IInv

LEMMA SecondCloses ==
  ASSUME IInv, CloseSecond
  PROVE  IInv'
<1>0. TypeInv /\ StreamInv /\ PlanInv /\ EndsInv /\ FilterInv /\ InOrder /\ FilterComplete
  BY DEF IInv
<1> DEFINE steps == <<<<"wait", "g", 0>>>>
<1>1. /\ second.open /\ Begin("close", "g", steps) /\ second' = [second EXCEPT !.open = FALSE]
      /\ UNCHANGED <<st, sig>> /\ todo' = steps /\ how' = how /\ steps # << >>
  BY DEF CloseSecond, Begin
<1>2. /\ how.setup = "rw" /\ second.at # "none"
      /\ second' \in [at : {"none", "forked", "runs", "gone"}, open : BOOLEAN]
      /\ second'.at = second.at /\ ~ second'.open
  BY <1>0, <1>1 DEF EndsInv, TypeInv
<1>3. TypeInv' /\ call'.op = "close"
  BY <1>0, <1>1, <1>2, BeginTypes DEF TypeInv
<1>4. StreamInv'
  BY <1>0, <1>1 DEF StreamInv, Names, Fits
<1>5. PlanInv'
  <2>1. Closing'
    BY <1>1, <1>2, <1>3 DEF Closing, Waits
  <2> QED BY <1>3, <2>1 DEF PlanInv
<1> HIDE DEF steps
<1>6. UNCHANGED <<how, ends, out, in, first, sig, raw, chunk, sent, got, st>>
  BY <1>1 DEF Begin, Pipes
<1>7. EndsInv'
  BY <1>0, <1>2, <1>6 DEF EndsInv, Names
<1>8. FilterInv' /\ FilterComplete' /\ InOrder'
  <2>1. FilterInv' /\ InOrder'
    BY <1>0, <1>6 DEF FilterInv, Copies, InOrder, Unwritten, Unread, Writer, Reader
  <2>2. FilterComplete'
    BY <1>1 DEF FilterComplete
  <2> QED BY <2>1, <2>2
<1> QED BY <1>3, <1>4, <1>5, <1>7, <1>8 DEF IInv

LEMMA CallsInv ==
  ASSUME IInv, Calls
  PROVE  IInv'
BY WriteBegins, ReadBegins, SetBegins, PollBegins, CloseBegins, FilterBegins, SecondOpens, SecondIsWritten,
   SecondCloses DEF Calls

----------------------------------------------------------------------------
(* The steps of a call.                                                    *)

\* The ends stay as they are while nothing is closed.
LEMMA EndsStay ==
  ASSUME EndsInv, UNCHANGED <<how, ends, first, second, chunk, raw>>, \A n \in Names : st'[n].open = st[n].open
  PROVE  EndsInv'
BY DEF EndsInv, Names

\* Bytes only go to a process that is there.
LEMMA Present ==
  ASSUME TypeInv, EndsInv, ends["outR"] # {}
  PROVE  first.at # "gone"
BY DEF TypeInv, EndsInv, Ends, Actors

LEMMA FilterStays ==
  ASSUME FilterInv, how.setup # "filter" \/ UNCHANGED sent, UNCHANGED <<how, first, chunk, raw>>,
         out' = out \/ first.at # "gone", \A n \in Names : st'[n].open = st[n].open
  PROVE  FilterInv'
BY DEF FilterInv, Copies, Names

\* The type of a call after a step.
CallType ==
  [op : {"none", "killed", "write", "read", "set", "poll", "close", "filter", "open"},
   s : {"f", "g", "w", "r"}, n : Nat, ret : Int, err : BOOLEAN, ready : SUBSET Modes]

LEMMA TypesStay ==
  ASSUME TypeInv, UNCHANGED <<how, second, sig, raw, chunk, ends, first>>,
         st' \in [Names -> Streams], call' \in CallType, out' \in Bytes, in' \in Bytes, got' \in Bytes, sent' \in Nat
  PROVE  TypeInv'
BY DEF TypeInv, CallType, Names, Streams

\* Turning a stream around moves no byte out of the order.
LEMMA Turning1 ==
  ASSUME TypeInv, StreamInv, how.setup # "pair", NEW m \in Modes, how' = how,
         m = "read" => st["f"].mode = "read" \/ st["f"].data = << >>,
         st' = [st EXCEPT !["f"] = Turned(@, m)]
  PROVE  /\ st' \in [Names -> Streams] /\ StreamInv' /\ Names = {"f"}
         /\ st'["f"].mode = m /\ st'["f"].open = st["f"].open
         /\ Unwritten' = Unwritten /\ Unread' = Unread
<1>1. Names = {"f"} /\ st \in [Names -> Streams] /\ st["f"] \in Streams
  BY DEF TypeInv, Names
<1>2. how.setup \in {"rw", "filter"} /\ how.size \in Nat
  BY SetupsAssumption DEF TypeInv
<1> DEFINE s == st["f"]
<1>3. /\ s.file = (IF s.mode = "read" THEN "in" ELSE "out") /\ s.aux = (IF s.mode = "read" THEN "out" ELSE "in")
      /\ s.mode = "read" => s.saved = << >> /\ Fits(s.data)
      /\ s.mode = "write" => Len(s.data) <= s.size /\ Fits(s.saved)
      /\ how.setup = "filter" => s.data = << >> /\ s.saved = << >>
      /\ s.size = how.size /\ s.mode \in Modes /\ s.data \in Bytes /\ s.saved \in Bytes
  BY <1>1, <1>2 DEF StreamInv, Streams
<1>4. CASE s.mode = m
  <2>1. st' = st
    BY <1>1, <1>4 DEF Turned
  <2>2. StreamInv'
    BY <2>1 DEF StreamInv, Names, Fits
  <2>3. Unwritten' = Unwritten /\ Unread' = Unread
    BY <2>1 DEF Unwritten, Unread, Writer, Reader
  <2> QED BY <1>1, <1>4, <2>1, <2>2, <2>3
<1>5. CASE s.mode # m /\ m = "write"
  <2>1. st'["f"] = [s EXCEPT !.file = "out", !.aux = "in", !.saved = s.data, !.data = << >>, !.mode = "write"]
    BY <1>1, <1>3, <1>5 DEF Turned, Saved, Swapped, NoPipe, Modes, Streams
  <2>2. << >> \in Bytes /\ Len(<< >>) = 0
    BY DEF Bytes
  <2>3. st'["f"] \in Streams /\ st' \in [Names -> Streams]
    <3>1. st'["f"] \in Streams
      BY <1>1, <1>3, <2>1, <2>2 DEF Streams, Modes
    <3>2. st' = [st EXCEPT !["f"] = st'["f"]]
      BY <1>1
    <3> QED BY <1>1, <3>1, <3>2
  <2>4. /\ st'["f"].mode = "write" /\ st'["f"].file = "out" /\ st'["f"].aux = "in" /\ st'["f"].open = s.open
        /\ st'["f"].saved = s.data /\ st'["f"].data = << >> /\ st'["f"].size = s.size
    BY <1>1, <2>1 DEF Streams
  <2>5. StreamInv'
    <3>1. Fits(s.data) /\ s.saved = << >>
      BY <1>3, <1>5 DEF Modes
    <3> QED BY <1>1, <1>2, <1>3, <2>2, <2>4, <3>1 DEF StreamInv, Names, Fits
  <2>6. Unwritten' = << >> /\ Unwritten = << >>
    BY <1>2, <1>3, <1>5, <2>4 DEF Unwritten, Writer, Modes
  <2>7. Unread' = Unread
    <3>1. Unread = << >> \o s.data
      BY <1>2, <1>3, <1>5 DEF Unread, Reader, Modes
    <3>2. Unread' = s.data \o << >>
      BY <1>2, <2>4 DEF Unread, Reader
    <3> QED BY <1>3, <3>1, <3>2, Concat
  <2> QED BY <1>1, <1>5, <2>3, <2>4, <2>5, <2>6, <2>7
<1>6. CASE s.mode # m /\ m = "read"
  <2> DEFINE cap == IF s.size = 0 THEN 1 ELSE s.size
             back == SubSeq(s.saved, 1, Min({cap, Len(s.saved)}))
  <2>1. st'["f"] = [s EXCEPT !.file = "in", !.aux = "out", !.data = back, !.saved = << >>, !.mode = "read"]
    BY <1>1, <1>3, <1>6 DEF Turned, Restored, Swapped, NoPipe, Modes, Streams
  <2>2. << >> \in Bytes /\ Len(<< >>) = 0
    BY DEF Bytes
  <2>a. s.mode = "write" /\ s.data = << >> /\ Fits(s.saved)
    BY <1>3, <1>6 DEF Modes
  <2>b. back = s.saved
    <3>1. Len(s.saved) \in Nat /\ Len(s.saved) <= cap /\ cap \in Nat
      BY <1>2, <1>3, <2>a, Concat DEF Fits
    <3>2. Min({cap, Len(s.saved)}) = Len(s.saved)
      BY <3>1, Least
    <3> QED BY <1>3, <3>2, SubSeqFull DEF Bytes
  <2> HIDE DEF back, cap
  <2>3. st'["f"] \in Streams /\ st' \in [Names -> Streams]
    BY <1>1, <1>3, <2>1, <2>2, <2>b DEF Streams, Modes
  <2>4. /\ st'["f"].mode = "read" /\ st'["f"].file = "in" /\ st'["f"].aux = "out" /\ st'["f"].open = s.open
        /\ st'["f"].saved = << >> /\ st'["f"].data = s.saved /\ st'["f"].size = s.size
    BY <1>1, <2>1, <2>b DEF Streams
  <2>5. StreamInv'
    BY <1>1, <1>2, <1>3, <2>2, <2>4, <2>a DEF StreamInv, Names, Fits
  <2>6. Unwritten' = << >> /\ Unwritten = << >>
    BY <1>2, <1>3, <2>a, <2>4 DEF Unwritten, Writer
  <2>7. Unread' = Unread
    <3>1. Unread = s.saved \o << >>
      BY <1>2, <2>a DEF Unread, Reader
    <3>2. Unread' = << >> \o s.saved
      BY <1>2, <2>4 DEF Unread, Reader
    <3> QED BY <1>3, <3>1, <3>2, Concat
  <2> QED BY <1>1, <1>6, <2>3, <2>4, <2>5, <2>6, <2>7
<1> QED BY <1>3, <1>4, <1>5, <1>6 DEF Modes

LEMMA Returns ==
  ASSUME TypeInv, NEW r \in Int, Return(r)
  PROVE  call' \in CallType /\ call'.op = call.op /\ call'.ret = r /\ todo' = << >> /\ PlanInv'
BY DEF TypeInv, Return, CallType, PlanInv

\* A stream of a pair keeps its mode; the other setups have one stream.
LEMMA OneMode ==
  ASSUME TypeInv, StreamInv, NEW s \in Names
  PROVE  /\ how.setup = "pair" => st[s].mode = (IF s = "w" THEN "write" ELSE "read") /\ s \in {"w", "r"}
                                  /\ st[s].flags = {st[s].mode}
         /\ how.setup # "pair" => s = "f" /\ Names = {"f"}
         /\ st[s] \in Streams
BY DEF TypeInv, StreamInv, Names

LEMMA ModeInv ==
  ASSUME IInv, Mode
  PROVE  IInv'
<1>0. TypeInv /\ StreamInv /\ PlanInv /\ EndsInv /\ FilterInv /\ InOrder /\ FilterComplete
  BY DEF IInv
<1>1. Step("mode") /\ UNCHANGED <<ends, out, in, first, how, second, sig, raw, chunk, sent, got>>
  BY DEF Mode, Pipes, Rest
<1>2. PICK s \in Names, n \in Nat :
        /\ how.setup # "filter" /\ st[s].open /\ S = s
        /\ \/ s # "r" /\ N = "write" /\ todo = <<<<"mode", s, "write">>, <<"put", s, n>>>> /\ Tail(todo) = <<<<"put", s, n>>>>
           \/ s # "w" /\ N = "read" /\ todo = <<<<"mode", s, "read">>, <<"get", s, n>>>> /\ Tail(todo) = <<<<"get", s, n>>>>
  BY <1>0, <1>1, AtMode
<1>3. N \in Modes /\ call.op # "killed" /\ todo # << >> /\ call \in CallType
  BY <1>0, <1>1, <1>2 DEF Modes, PlanInv, Step, TypeInv, CallType
<1>4. SUFFICES ASSUME st' \in [Names -> Streams], call' \in CallType, StreamInv', PlanInv',
                      Unwritten' = Unwritten, Unread' = Unread, \A m \in Names : st'[m].open = st[m].open
               PROVE  IInv'
  <2>1. CASE /\ st[s].mode = N \/ (N \in st[s].flags /\ ~call.err /\ (N = "read" => st[s].data = << >>))
             /\ st' = [st EXCEPT ![S] = IF st[s].mode = N THEN st[s]
                                        ELSE IF N = "read" THEN Restored(st[s]) ELSE Saved(st[s])]
             /\ Then(<< >>) /\ UNCHANGED call
    <3>1. st' = [st EXCEPT ![s] = Turned(@, N)]
      BY <1>2, <2>1 DEF Turned
    <3>2. /\ st' \in [Names -> Streams] /\ StreamInv' /\ Unwritten' = Unwritten /\ Unread' = Unread
          /\ st'[s].mode = N /\ \A m \in Names : st'[m].open = st[m].open
      <4>1. CASE how.setup = "pair"
        <5>1. st[s].mode = N
          BY <1>0, <1>2, <2>1, <4>1, OneMode
        <5>2. st' = st
          BY <1>0, <3>1, <5>1 DEF Turned, TypeInv
        <5> QED BY <1>0, <1>1, <5>1, <5>2 DEF TypeInv, StreamInv, Names, Fits, Unwritten, Unread, Writer, Reader
      <4>2. CASE how.setup # "pair"
        <5>1. s = "f" /\ Names = {"f"}
          BY <1>0, <4>2, OneMode
        <5>2. N = "read" => st["f"].mode = "read" \/ st["f"].data = << >>
          BY <2>1, <5>1
        <5> QED BY <1>0, <1>1, <1>3, <3>1, <4>2, <5>1, <5>2, Turning1
      <4> QED BY <4>1, <4>2
    <3>3. todo' = Tail(todo)
      <4>1. CASE s # "r" /\ N = "write" /\ Tail(todo) = <<<<"put", s, n>>>>
        BY <2>1, <4>1, Tuples DEF Then
      <4>2. CASE s # "w" /\ N = "read" /\ Tail(todo) = <<<<"get", s, n>>>>
        BY <2>1, <4>2, Tuples DEF Then
      <4> QED BY <1>2, <4>1, <4>2
    <3>4. PlanInv'
      <4>1. CASE s # "r" /\ N = "write" /\ Tail(todo) = <<<<"put", s, n>>>>
        <5>1. Writing'
          BY <1>1, <1>2, <3>2, <3>3, <4>1 DEF Writing, Writes, Names
        <5> QED BY <1>3, <2>1, <5>1 DEF PlanInv
      <4>2. CASE s # "w" /\ N = "read" /\ Tail(todo) = <<<<"get", s, n>>>>
        <5>1. Reading'
          BY <1>1, <1>2, <3>2, <3>3, <4>2 DEF Reading, Reads, Names
        <5> QED BY <1>3, <2>1, <5>1 DEF PlanInv
      <4> QED BY <1>2, <4>1, <4>2
    <3> QED BY <1>3, <1>4, <2>1, <3>2, <3>4
  <2>2. CASE /\ st[s].mode # N /\ N \in st[s].flags /\ ~call.err /\ N = "read" /\ st[s].data # << >>
             /\ Then(<<<<"flush", S, 0>>, Head(todo)>>) /\ UNCHANGED <<st, call>>
    <3>1. /\ s # "w" /\ todo = <<<<"mode", s, "read">>, <<"get", s, n>>>> /\ Tail(todo) = <<<<"get", s, n>>>>
          /\ Head(todo) = <<"mode", s, "read">>
      BY <1>2, <2>2
    <3>2. todo' = <<<<"flush", s, 0>>, <<"mode", s, "read">>, <<"get", s, n>>>>
      <4> DEFINE a == <<"flush", s, 0>>
                 b == <<"mode", s, "read">>
                 c == <<"get", s, n>>
      <4>1. todo' = <<a, b>> \o <<c>>
        BY <1>2, <2>2, <3>1 DEF Then
      <4> HIDE DEF a, b, c
      <4>2. <<a, b>> \o <<c>> = <<a, b, c>>
        BY Joins
      <4> QED BY <4>1, <4>2 DEF a, b, c
    <3>3. st[s].mode = "write"
      BY <1>0, <1>3, <2>2, OneMode DEF Streams, Modes
    <3>4. Reading'
      BY <1>1, <1>2, <2>2, <3>1, <3>2, <3>3 DEF Reading, Reads, Names
    <3>5. PlanInv'
      BY <1>3, <2>2, <3>4 DEF PlanInv
    <3> QED BY <1>0, <1>1, <1>3, <1>4, <2>2, <3>5
            DEF TypeInv, StreamInv, Names, Streams, Fits, Unwritten, Unread, Writer, Reader
  <2>3. CASE st[s].mode # N /\ (N \notin st[s].flags \/ call.err) /\ Return(Passed) /\ UNCHANGED st
    <3>1. Passed \in Int
      BY <1>3 DEF Passed, CallType
    <3>2. call' \in CallType /\ PlanInv'
      BY <1>0, <2>3, <3>1, Returns
    <3> QED BY <1>0, <1>1, <1>4, <2>3, <3>2
            DEF TypeInv, StreamInv, Names, Streams, Fits, Unwritten, Unread, Writer, Reader
  <2> QED BY <1>2, <2>1, <2>2, <2>3 DEF Mode
<1>5. TypeInv'
  BY <1>0, <1>1, <1>4, TypesStay DEF TypeInv
<1>6. EndsInv' /\ FilterInv'
  BY <1>0, <1>1, <1>4, EndsStay, FilterStays
<1>7. InOrder' /\ FilterComplete'
  BY <1>0, <1>1, <1>2, <1>4 DEF InOrder, FilterComplete
<1> QED BY <1>4, <1>5, <1>6, <1>7 DEF IInv

LEMMA TryInv ==
  ASSUME IInv, Try
  PROVE  IInv'
<1>0. TypeInv /\ StreamInv /\ PlanInv /\ EndsInv /\ FilterInv /\ InOrder /\ FilterComplete
  BY DEF IInv
<1>1. Step("try") /\ UNCHANGED <<ends, out, in, first, how, second, sig, raw, chunk, sent, got>>
  BY DEF Try, Pipes, Rest
<1>2. /\ how.setup = "rw" /\ st["f"].open /\ S = "f" /\ Tail(todo) = << >>
      /\ N \in {"read", "write"} /\ todo = <<<<"try", "f", N>>>> /\ Names = {"f"}
  BY <1>0, <1>1, AtTry DEF Names
<1>3. N \in Modes /\ call.op # "killed" /\ todo # << >> /\ call \in CallType /\ << >> \o << >> = << >>
  BY <1>0, <1>1, <1>2 DEF Modes, PlanInv, Step, TypeInv, CallType
<1> DEFINE wanted == st["f"].mode # N /\ N \in st["f"].flags /\ ~call.err
<1>4. SUFFICES ASSUME st' \in [Names -> Streams], call' \in CallType, StreamInv', PlanInv',
                      Unwritten' = Unwritten, Unread' = Unread, \A m \in Names : st'[m].open = st[m].open
               PROVE  IInv'
  <2>1. CASE /\ wanted /\ N = "read" /\ st["f"].data # << >>
             /\ Then(<<<<"flush", S, 0>>, Head(todo)>>) /\ UNCHANGED <<st, call>>
    <3>1. todo' = <<<<"flush", "f", 0>>, <<"try", "f", "read">>>>
      <4> DEFINE a == <<"flush", "f", 0>>
                 b == <<"try", "f", "read">>
      <4>1. <<a, b>> \in Seq({a, b})
        OBVIOUS
      <4>2. todo' = <<a, b>> \o << >>
        BY <1>2, <2>1 DEF Then
      <4> HIDE DEF a, b
      <4>3. <<a, b>> \o << >> = <<a, b>>
        BY <4>1, ConcatEmptySeq
      <4> QED BY <4>2, <4>3 DEF a, b
    <3>2. st["f"].mode = "write"
      BY <1>0, <1>2, <2>1 DEF TypeInv, Streams, Modes
    <3>3. PlanInv'
      <4>1. 0 \in {0, -1}
        OBVIOUS
      <4>2. Turning'
        BY <1>1, <1>2, <2>1, <3>1, <3>2, <4>1 DEF Turning, Turns
      <4> QED BY <1>3, <2>1, <4>2 DEF PlanInv
    <3> QED BY <1>0, <1>1, <1>3, <1>4, <2>1, <3>3
            DEF TypeInv, StreamInv, Names, Streams, Fits, Unwritten, Unread, Writer, Reader
  <2>2. CASE /\ wanted => N = "write" \/ st["f"].data = << >>
             /\ st' = [st EXCEPT ![S] = IF ~wanted THEN st["f"]
                                        ELSE IF N = "read" THEN Restored(st["f"]) ELSE Saved(st["f"])]
             /\ Then(<< >>) /\ call' = [call EXCEPT !.err = FALSE]
    <3>1. todo' = << >> /\ call' \in CallType
      BY <1>2, <1>3, <2>2 DEF Then, CallType
    <3>2. PlanInv'
      BY <3>1 DEF PlanInv
    <3>3. CASE ~wanted
      <4>1. st' = st
        BY <1>0, <1>2, <2>2, <3>3 DEF TypeInv
      <4> QED BY <1>0, <1>1, <1>4, <3>1, <3>2, <4>1
              DEF TypeInv, StreamInv, Names, Streams, Fits, Unwritten, Unread, Writer, Reader
    <3>4. CASE wanted
      <4>1. st' = [st EXCEPT !["f"] = Turned(@, N)]
        BY <1>2, <2>2, <3>4 DEF Turned
      <4>2. N = "read" => st["f"].mode = "read" \/ st["f"].data = << >>
        BY <2>2, <3>4
      <4>3. how.setup # "pair"
        BY <1>2
      <4> QED BY <1>0, <1>1, <1>2, <1>3, <1>4, <3>1, <3>2, <4>1, <4>2, <4>3, Turning1
    <3> QED BY <3>3, <3>4
  <2> QED BY <1>2, <2>1, <2>2 DEF Try
<1>5. TypeInv'
  BY <1>0, <1>1, <1>4, TypesStay DEF TypeInv
<1>6. EndsInv' /\ FilterInv'
  BY <1>0, <1>1, <1>4, EndsStay, FilterStays
<1>7. InOrder' /\ FilterComplete'
  BY <1>0, <1>1, <1>2, <1>4 DEF InOrder, FilterComplete
<1> QED BY <1>4, <1>5, <1>6, <1>7 DEF IInv

\* What follows a flush.
LEMMA Flushed ==
  ASSUME PlanInv, Step("flush"), UNCHANGED <<how, st, second, chunk>>, Then(<< >>), call'.op = call.op
  PROVE  PlanInv' /\ todo' # << >>
<1>1. Writing \/ Reading \/ Turning \/ Closing \/ Filtering
  BY DEF PlanInv, Step
<1>a. call.op # "killed"
  BY DEF PlanInv, Step
<1>2. CASE Writing
  <2>1. PICK s \in Names \ {"r"}, n \in Nat : st[s].open /\ Writes(s, n)
    BY <1>2 DEF Writing
  <2>2. st[s].mode = "write" /\ todo = <<<<"flush", s, 0>>, <<"put", s, n>>>>
    BY <2>1 DEF Writes, Step
  <2>3. todo' = <<<<"put", s, n>>>>
    BY <2>2, Tuples DEF Then
  <2>4. Writing'
    BY <1>2, <2>1, <2>2, <2>3 DEF Writing, Writes, Names
  <2> QED BY <1>a, <2>3, <2>4 DEF PlanInv
<1>3. CASE Reading
  <2>1. PICK s \in Names \ {"w"}, n \in Nat : st[s].open /\ Reads(s, n)
    BY <1>3 DEF Reading
  <2>2. CASE st[s].mode = "write" /\ todo = <<<<"flush", s, 0>>, <<"mode", s, "read">>, <<"get", s, n>>>>
    <3>1. todo' = <<<<"mode", s, "read">>, <<"get", s, n>>>>
      BY <2>2, Tuples DEF Then
    <3>2. Reading'
      BY <1>3, <2>1, <2>2, <3>1 DEF Reading, Reads, Names
    <3> QED BY <1>a, <3>1, <3>2 DEF PlanInv
  <2>3. CASE /\ how.setup = "pair" /\ st["w"].open /\ st[s].mode = "read" /\ st[s].data = << >>
             /\ \E x \in Inputs(s, n) : todo = <<<<"flush", "w", 0>>, x, <<"get", s, n>>>>
    <3>1. PICK x \in Inputs(s, n) : todo = <<<<"flush", "w", 0>>, x, <<"get", s, n>>>>
      BY <2>3
    <3>2. todo' = <<x, <<"get", s, n>>>>
      BY <3>1, Tuples DEF Then
    <3>3. Reads(s, n)' /\ s \in Names' /\ st'[s].open
      BY <2>1, <2>3, <3>2 DEF Reads, Inputs, Capacity, Names
    <3>4. Reading'
      BY <1>3, <3>3 DEF Reading
    <3> QED BY <1>a, <3>2, <3>4 DEF PlanInv
  <2> QED BY <2>1, <2>2, <2>3 DEF Reads, Inputs, Step
<1>4. CASE Turning
  <2>1. PICK m \in {"read", "write"}, tm \in {0, -1} : Turns(m, tm)
    BY <1>4 DEF Turning
  <2>2. st["f"].mode = "write" /\ todo = <<<<"flush", "f", 0>>, <<"try", "f", "read">>>>
    BY <2>1 DEF Turns, Step
  <2>3. todo' = <<<<"try", "f", "read">>>>
    BY <2>2, Tuples DEF Then
  <2>4. Turning'
    BY <1>4, <2>1, <2>3 DEF Turning, Turns
  <2> QED BY <1>a, <2>3, <2>4 DEF PlanInv
<1>5. CASE Closing
  <2>1. PICK s \in Names : Closes(s) /\ call.op = "close"
    BY <1>5 DEF Closing, Waits, Step
  <2>2. todo = <<<<"flush", s, 0>>, <<"shut", s, 0>>>>
    BY <2>1 DEF Closes, Step
  <2>3. todo' = <<<<"shut", s, 0>>>>
    BY <2>2, Tuples DEF Then
  <2>4. Closing'
    BY <2>1, <2>3 DEF Closing, Closes, Names
  <2> QED BY <1>a, <2>3, <2>4 DEF PlanInv
<1>6. CASE Filtering
  <2>1. PICK n \in FilterSizes : Filters(n)
    BY <1>6 DEF Filtering
  <2> QED BY <2>1 DEF Filters, Step
<1> QED BY <1>1, <1>2, <1>3, <1>4, <1>5, <1>6

\* A byte that leaves the buffer changes nothing of the plan.
LEMMA Flushing ==
  ASSUME PlanInv, StreamInv, Step("flush"), UNCHANGED <<how, second, chunk, todo, call>>,
         \A n \in Names : /\ st'[n].mode = st[n].mode /\ st'[n].open = st[n].open /\ st'[n].size = st[n].size
                          /\ n # S => st'[n].data = st[n].data
  PROVE  PlanInv'
<1>1. Writing \/ Reading \/ Turning \/ Closing \/ Filtering
  BY DEF PlanInv, Step
<1>a. call.op # "killed"
  BY DEF PlanInv, Step
<1>2. CASE Writing
  <2>1. PICK s \in Names \ {"r"}, n \in Nat : st[s].open /\ Writes(s, n)
    BY <1>2 DEF Writing
  <2>2. st[s].mode = "write" /\ todo = <<<<"flush", s, 0>>, <<"put", s, n>>>>
    BY <2>1 DEF Writes, Step
  <2>3. Writing'
    BY <1>2, <2>1, <2>2 DEF Writing, Writes, Names
  <2> QED BY <1>a, <2>3 DEF PlanInv
<1>3. CASE Reading
  <2>1. PICK s \in Names \ {"w"}, n \in Nat : st[s].open /\ Reads(s, n)
    BY <1>3 DEF Reading
  <2>2. CASE st[s].mode = "write" /\ todo = <<<<"flush", s, 0>>, <<"mode", s, "read">>, <<"get", s, n>>>>
    <3>1. Reading'
      BY <1>3, <2>1, <2>2 DEF Reading, Reads, Names
    <3> QED BY <1>a, <3>1 DEF PlanInv
  <2>3. CASE /\ how.setup = "pair" /\ st["w"].open /\ st[s].mode = "read" /\ st[s].data = << >>
             /\ \E x \in Inputs(s, n) : todo = <<<<"flush", "w", 0>>, x, <<"get", s, n>>>>
    <3>1. S = "w" /\ s # "w" /\ "w" \in Names
      BY <2>1, <2>3 DEF S, Names
    <3>2. st'[s].data = << >> /\ st'[s].mode = "read" /\ st'[s].open /\ st'["w"].open /\ Capacity(st'[s]) = Capacity(st[s])
      BY <2>1, <2>3, <3>1 DEF Capacity
    <3>3. Reads(s, n)' /\ s \in Names'
      BY <2>1, <2>3, <3>2 DEF Reads, Inputs, Names
    <3>4. Reading'
      BY <1>3, <2>1, <3>2, <3>3 DEF Reading
    <3> QED BY <1>a, <3>4 DEF PlanInv
  <2> QED BY <2>1, <2>2, <2>3 DEF Reads, Inputs, Step
<1>4. CASE Turning
  <2>1. "f" \in Names
    BY <1>4 DEF Turning, Names
  <2>2. Turning'
    BY <1>4, <2>1 DEF Turning, Turns
  <2> QED BY <1>a, <2>2 DEF PlanInv
<1>5. CASE Closing
  <2>1. PICK s \in Names : Closes(s) /\ call.op = "close"
    BY <1>5 DEF Closing, Waits, Step
  <2>2. Closing'
    BY <2>1 DEF Closing, Closes, Names
  <2> QED BY <1>a, <2>2 DEF PlanInv
<1>6. CASE Filtering
  <2>1. PICK n \in FilterSizes : Filters(n)
    BY <1>6 DEF Filtering
  <2> QED BY <2>1 DEF Filters, Step
<1> QED BY <1>1, <1>2, <1>3, <1>4, <1>5, <1>6

LEMMA FlushInv ==
  ASSUME IInv, Flush
  PROVE  IInv'
<1>0. TypeInv /\ StreamInv /\ PlanInv /\ EndsInv /\ FilterInv /\ InOrder /\ FilterComplete
  BY DEF IInv
<1>1. Step("flush") /\ UNCHANGED <<ends, in, first, how, second, sig, raw, chunk, sent, got>>
  BY DEF Flush, Rest
<1>2. S \in Names /\ st[S].open /\ st[S].mode = "write" /\ st[S] \in Streams /\ st \in [Names -> Streams]
  BY <1>0, <1>1, AtFlush DEF TypeInv
<1>3. call \in CallType /\ call.op # "killed" /\ todo # << >>
  BY <1>0, <1>1 DEF TypeInv, CallType, PlanInv, Step
<1>4. CASE /\ st[S].data # << >> /\ Room(st[S]) /\ out' = Append(out, Head(st[S].data))
           /\ st' = [st EXCEPT ![S].data = Tail(@)] /\ UNCHANGED <<todo, call>>
  <2>1. st[S].data \in Bytes /\ out \in Bytes /\ first.took \in Bytes
    BY <1>0, <1>2, Contents DEF Streams
  <2>2. /\ Head(st[S].data) \in Nat /\ Tail(st[S].data) \in Bytes /\ out' \in Bytes
        /\ out' \o Tail(st[S].data) = out \o st[S].data
        /\ Len(Tail(st[S].data)) = Len(st[S].data) - 1
    BY <1>4, <2>1, MoveOne
  <2>3. /\ st' \in [Names -> Streams]
        /\ \A n \in Names : /\ st'[n].mode = st[n].mode /\ st'[n].open = st[n].open /\ st'[n].size = st[n].size
                            /\ st'[n].file = st[n].file /\ st'[n].aux = st[n].aux /\ st'[n].flags = st[n].flags
                            /\ st'[n].saved = st[n].saved
                            /\ st'[n].data = IF n = S THEN Tail(st[S].data) ELSE st[n].data
    <3> DEFINE x == S
    <3>1. x \in Names /\ st' = [st EXCEPT ![x] = [st[x] EXCEPT !.data = Tail(st[x].data)]]
      BY <1>2, <1>4
    <3> HIDE DEF x
    <3>2. [st[x] EXCEPT !.data = Tail(st[x].data)] \in Streams
      BY <1>2, <2>2, <3>1 DEF Streams, x
    <3>3. /\ st' \in [Names -> Streams]
          /\ \A n \in Names : st'[n] = IF n = x THEN [st[x] EXCEPT !.data = Tail(st[x].data)] ELSE st[n]
      BY <1>2, <3>1, <3>2
    <3>4. st[x] \in Streams
      BY <1>2, <3>1
    <3> QED BY <3>1, <3>3, <3>4 DEF Streams, x
  <2>4. TypeInv'
    BY <1>0, <1>1, <1>3, <1>4, <2>2, <2>3, TypesStay DEF TypeInv
  <2>5. StreamInv'
    <3>1. Len(Tail(st[S].data)) <= Len(st[S].data)
      BY <2>1, <2>2, Concat
    <3>2. Len(st[S].data) \in Nat /\ Len(Tail(st[S].data)) \in Nat /\ how.size \in Nat /\ st[S].size = how.size
      BY <1>0, <1>2, <2>1, <2>2, Concat, SetupsAssumption DEF TypeInv, Streams
    <3>3. ~ (how.setup = "filter")
      BY <1>0, <1>2, <1>4 DEF StreamInv
    <3>4. \A n \in Names : /\ Len(st'[n].data) \in Nat /\ Len(st[n].data) \in Nat
                            /\ Len(st'[n].data) <= Len(st[n].data)
      <4>1. \A n \in Names : Len(st[n].data) \in Nat
        BY <1>2, Concat DEF Streams
      <4>2. ASSUME NEW n \in Names
            PROVE  Len(st'[n].data) \in Nat /\ Len(st'[n].data) <= Len(st[n].data)
        <5>1. CASE n = S
          BY <2>3, <3>1, <3>2, <5>1
        <5>2. CASE n # S
          BY <2>3, <4>1, <5>2
        <5> QED BY <5>1, <5>2
      <4> QED BY <4>1, <4>2
    <3>5. \A n \in Names : how.size \in Nat /\ st[n].size = how.size
      BY <1>2, <3>2 DEF Streams
    <3>6. how' = how /\ Names' = Names
      BY <1>1 DEF Names
    <3>7. \A n \in Names :
            /\ st'[n].file = (IF st'[n].mode = "read" THEN "in" ELSE "out")
            /\ st'[n].aux = IF how.setup = "pair" THEN NoPipe ELSE IF st'[n].mode = "read" THEN "out" ELSE "in"
            /\ how.setup = "pair" => st'[n].mode = (IF n = "w" THEN "write" ELSE "read") /\ st'[n].flags = {st'[n].mode}
            /\ st'[n].mode = "write" /\ how.setup = "pair" => st'[n].saved = << >>
      BY <1>0, <2>3 DEF StreamInv
    <3>8. \A n \in Names :
            /\ st'[n].mode = "read" => st'[n].saved = << >> /\ Fits(st'[n].data)
            /\ st'[n].mode = "write" => Len(st'[n].data) <= st'[n].size /\ Fits(st'[n].saved)
      BY <1>0, <2>3, <3>4, <3>5 DEF StreamInv, Fits
    <3> QED BY <3>3, <3>6, <3>7, <3>8 DEF StreamInv, Fits
  <2>6. PlanInv'
    BY <1>0, <1>1, <1>4, <2>3, Flushing
  <2>7. first.at # "gone"
    BY <1>0, <1>4, Present DEF Room
  <2>8. EndsInv' /\ FilterInv'
    BY <1>0, <1>1, <2>3, <2>7, EndsStay, FilterStays
  <2>9. InOrder'
    <3>1. IF how.setup = "pair" THEN S = "w" ELSE S = "f"
      BY <1>0, <1>2, OneMode
    <3>2. Unwritten = st[S].data /\ Unwritten' = Tail(st[S].data)
      BY <1>1, <1>2, <2>3, <3>1 DEF Unwritten, Writer, Names
    <3>3. Unread' = Unread
      BY <1>1, <1>2, <2>3, <3>1 DEF Unread, Reader, Names
    <3>4. (first.took \o out') \o Tail(st[S].data) = first.took \o (out' \o Tail(st[S].data))
      BY <2>1, <2>2, Regroup
    <3>5. (first.took \o out) \o st[S].data = first.took \o (out \o st[S].data)
      BY <2>1, Regroup
    <3> QED BY <1>0, <1>1, <2>2, <3>2, <3>3, <3>4, <3>5 DEF InOrder
  <2>10. FilterComplete'
    BY <1>3, <1>4 DEF FilterComplete
  <2> QED BY <2>4, <2>5, <2>6, <2>8, <2>9, <2>10 DEF IInv
<1>5. ASSUME UNCHANGED <<st, out>>, call' \in CallType, PlanInv', call'.op = "killed" \/ todo' # << >>
      PROVE  IInv'
  <2>1. TypeInv'
    BY <1>0, <1>1, <1>2, <1>5, TypesStay DEF TypeInv
  <2>2. StreamInv'
    BY <1>0, <1>1, <1>5 DEF StreamInv, Names, Fits
  <2>3. EndsInv' /\ FilterInv'
    BY <1>0, <1>1, <1>5, EndsStay, FilterStays
  <2>4. InOrder' /\ FilterComplete'
    BY <1>0, <1>1, <1>5 DEF InOrder, FilterComplete, Unwritten, Unread, Writer, Reader
  <2> QED BY <1>5, <2>1, <2>2, <2>3, <2>4 DEF IInv
<1>6. CASE UNCHANGED <<st, out>> /\ Then(<< >>) /\ call' \in {call, [call EXCEPT !.err = TRUE]}
  <2>1. call' \in CallType /\ call'.op = call.op
    BY <1>3, <1>6 DEF CallType
  <2>2. PlanInv' /\ todo' # << >>
    BY <1>0, <1>1, <1>6, <2>1, Flushed
  <2> QED BY <1>5, <1>6, <2>1, <2>2
<1>7. CASE UNCHANGED <<st, out>> /\ todo' = << >> /\ call' = [call EXCEPT !.op = "killed"]
  <2>1. call' \in CallType /\ call'.op = "killed"
    BY <1>3, <1>7 DEF CallType
  <2>2. PlanInv'
    BY <1>7 DEF PlanInv
  <2> QED BY <1>5, <1>7, <2>1, <2>2
<1> QED BY <1>4, <1>6, <1>7 DEF Flush

\* A stream whose data changes keeps its mode and its place among the pipes.
LEMMA DataChanges ==
  ASSUME StreamInv, st \in [Names -> Streams], how' = how, how.setup # "filter", NEW s \in Names, NEW d \in Bytes,
         st' = [st EXCEPT ![s].data = d],
         st[s].mode = "read" => Fits(d), st[s].mode = "write" => Len(d) <= how.size
  PROVE  /\ st' \in [Names -> Streams] /\ StreamInv'
         /\ \A n \in Names : /\ st'[n].mode = st[n].mode /\ st'[n].open = st[n].open /\ st'[n].size = st[n].size
                             /\ st'[n].saved = st[n].saved
                             /\ st'[n].data = IF n = s THEN d ELSE st[n].data
<1>1. st' = [st EXCEPT ![s] = [st[s] EXCEPT !.data = d]]
  OBVIOUS
<1>2. [st[s] EXCEPT !.data = d] \in Streams
  BY DEF Streams
<1>3. st' \in [Names -> Streams] /\ \A n \in Names : st'[n] = IF n = s THEN [st[s] EXCEPT !.data = d] ELSE st[n]
  BY <1>1, <1>2
<1>4. \A n \in Names : /\ st'[n].mode = st[n].mode /\ st'[n].open = st[n].open /\ st'[n].size = st[n].size
                       /\ st'[n].file = st[n].file /\ st'[n].aux = st[n].aux /\ st'[n].flags = st[n].flags
                       /\ st'[n].saved = st[n].saved /\ st[n].size = how.size
                       /\ st'[n].data = IF n = s THEN d ELSE st[n].data
  BY <1>3 DEF Streams
<1>5. Names' = Names
  BY DEF Names
<1>6. \A n \in Names : /\ st[n].mode = "read" => Fits(st'[n].data)
                       /\ st[n].mode = "write" => Len(st'[n].data) <= how.size
  BY <1>4 DEF StreamInv
<1> QED BY <1>3, <1>4, <1>5, <1>6 DEF StreamInv, Fits

LEMMA PutInv ==
  ASSUME IInv, Put
  PROVE  IInv'
<1>0. TypeInv /\ StreamInv /\ PlanInv /\ EndsInv /\ FilterInv /\ InOrder /\ FilterComplete
  BY DEF IInv
<1>1. Step("put") /\ UNCHANGED <<ends, out, in, first, how, second, sig, raw, chunk, got>>
  BY DEF Put, Pipes, Rest
<1>2. PICK s \in Names \ {"r"}, n \in Nat :
        /\ todo = <<<<"put", s, n>>>> /\ S = s /\ N = n /\ Tail(todo) = << >>
        /\ how.setup # "filter" /\ st[s].open /\ st[s].mode = "write"
  BY <1>0, <1>1, AtPut
<1>3. /\ call \in CallType /\ call.op # "killed" /\ todo # << >> /\ Head(todo) = <<"put", s, n>>
      /\ st[s] \in Streams /\ st \in [Names -> Streams] /\ st[s].data \in Bytes /\ st[s].size = how.size
      /\ how.size \in Nat /\ sent \in Nat /\ Len(st[s].data) \in Nat /\ Len(st[s].data) <= how.size
      /\ out \in Bytes /\ first.took \in Bytes
  <2>1. st[s] \in Streams /\ st \in [Names -> Streams]
    BY <1>0, <1>2 DEF TypeInv
  <2>2. Len(st[s].data) <= st[s].size /\ st[s].data \in Bytes /\ st[s].size = how.size
    BY <1>0, <1>2, <2>1 DEF StreamInv, Streams
  <2>3. Len(st[s].data) \in Nat
    BY <2>2, Concat
  <2> QED BY <1>0, <1>1, <1>2, <2>1, <2>2, <2>3, SetupsAssumption, Contents DEF TypeInv, CallType, PlanInv, Step
<1>4. IF how.setup = "pair" THEN s = "w" ELSE s = "f"
  BY <1>0, <1>2, OneMode
<1> DEFINE k == Min({st[s].size - Len(st[s].data), n})
<1>5. /\ k = (IF st[s].size - Len(st[s].data) <= n THEN st[s].size - Len(st[s].data) ELSE n)
      /\ k \in Nat /\ n - k \in Nat /\ Len(st[s].data) + k <= how.size
  <2> DEFINE room == st[s].size - Len(st[s].data)
  <2>1. room \in Nat /\ room = how.size - Len(st[s].data) /\ k = Min({room, n}) /\ n \in Nat
    BY <1>3
  <2> HIDE DEF room, k
  <2>2. k = IF room <= n THEN room ELSE n
    BY <2>1, Least
  <2>3. k \in Nat /\ n - k \in Nat /\ Len(st[s].data) + k <= how.size
    BY <1>3, <2>1, <2>2
  <2> QED BY <2>2, <2>3 DEF room
<1> HIDE DEF k
<1>6. ASSUME UNCHANGED <<st, sent>>, call' \in CallType, PlanInv' PROVE IInv'
  <2>1. TypeInv'
    BY <1>0, <1>1, <1>3, <1>6, TypesStay DEF TypeInv
  <2>2. StreamInv'
    BY <1>0, <1>1, <1>6 DEF StreamInv, Names, Fits
  <2>3. EndsInv' /\ FilterInv'
    BY <1>0, <1>1, <1>6, EndsStay, FilterStays
  <2>4. InOrder' /\ FilterComplete'
    BY <1>0, <1>1, <1>2, <1>6 DEF InOrder, FilterComplete, Unwritten, Unread, Writer, Reader
  <2> QED BY <1>6, <2>1, <2>2, <2>3, <2>4 DEF IInv
<1>7. CASE Then(<<<<"flush", S, 0>>, Head(todo)>>) /\ UNCHANGED <<st, call, sent>>
  <2>1. todo' = <<<<"flush", s, 0>>, <<"put", s, n>>>>
    <3> DEFINE a == <<"flush", s, 0>>
               b == <<"put", s, n>>
    <3>1. <<a, b>> \in Seq({a, b})
      OBVIOUS
    <3>2. todo' = <<a, b>> \o << >>
      BY <1>2, <1>3, <1>7 DEF Then
    <3> HIDE DEF a, b
    <3>3. <<a, b>> \o << >> = <<a, b>>
      BY <3>1, ConcatEmptySeq
    <3> QED BY <3>2, <3>3 DEF a, b
  <2>2. Writing'
    BY <1>1, <1>2, <1>7, <2>1 DEF Writing, Writes, Names
  <2> QED BY <1>3, <1>6, <1>7, <2>2 DEF PlanInv
<1>8. CASE st[s].data = << >> /\ Then(<<<<"direct", S, N>>>>) /\ UNCHANGED <<st, call, sent>>
  <2>1. todo' = <<<<"direct", s, n>>>>
    BY <1>2, <1>8 DEF Then
  <2>2. Writing'
    BY <1>1, <1>2, <1>8, <2>1 DEF Writing, Writes, Names
  <2> QED BY <1>3, <1>6, <1>8, <2>2 DEF PlanInv
<1>9. CASE Return(call.n) /\ UNCHANGED <<st, sent>>
  <2>1. call.n \in Int
    BY <1>3 DEF CallType
  <2> QED BY <1>0, <1>6, <1>9, <2>1, Returns
<1>10. CASE /\ k > 0
            /\ st' = [st EXCEPT ![S].data = @ \o [i \in 1 .. k |-> sent + i]]
            /\ sent' = sent + k /\ call' = [call EXCEPT !.n = @ + k]
            /\ Then(<<<<"put", S, N - k>>>>)
  <2> DEFINE more == [i \in 1 .. k |-> sent + i]
             d == st[s].data \o more
  <2>1. more \in Bytes /\ Len(more) = k /\ Upto(sent) \o more = Upto(sent + k)
    BY <1>3, <1>5, Numbered
  <2> HIDE DEF more
  <2>2. d \in Bytes /\ Len(d) = Len(st[s].data) + k
    BY <1>3, <2>1, Concat
  <2>3. st' = [st EXCEPT ![s].data = d]
    BY <1>2, <1>10 DEF more
  <2> HIDE DEF d
  <2>4. st[s].mode # "read" /\ Len(d) <= how.size /\ how' = how /\ s \in Names
    BY <1>1, <1>2, <1>3, <1>5, <2>2
  <2>5. /\ st' \in [Names -> Streams] /\ StreamInv'
        /\ \A m \in Names : /\ st'[m].mode = st[m].mode /\ st'[m].open = st[m].open /\ st'[m].size = st[m].size
                            /\ st'[m].saved = st[m].saved
                            /\ st'[m].data = IF m = s THEN d ELSE st[m].data
    <3>1. StreamInv /\ st \in [Names -> Streams] /\ how' = how /\ how.setup # "filter" /\ s \in Names
      BY <1>0, <1>2, <1>3, <2>4
    <3>2. d \in Bytes /\ st' = [st EXCEPT ![s].data = d] /\ st[s].mode # "read" /\ Len(d) <= how.size
      BY <2>2, <2>3, <2>4
    <3> QED BY <3>1, <3>2, DataChanges
  <2>6. call' \in CallType /\ call'.op = call.op /\ sent' \in Nat
    <3>1. call.n + k \in Nat /\ sent + k \in Nat
      <4>1. call.n \in Nat /\ sent \in Nat
        BY <1>3 DEF CallType
      <4>2. k \in Nat
        BY <1>5
      <4> QED BY <4>1, <4>2
    <3> QED BY <1>3, <1>10, <3>1 DEF CallType
  <2>7. TypeInv'
    BY <1>0, <1>1, <2>5, <2>6, TypesStay DEF TypeInv
  <2>8. PlanInv'
    <3>1. todo' = <<<<"put", s, n - k>>>>
      BY <1>2, <1>10 DEF Then
    <3>2. Writing'
      BY <1>1, <1>2, <1>5, <2>5, <3>1 DEF Writing, Writes, Names
    <3> QED BY <1>3, <2>6, <3>2 DEF PlanInv
  <2>9. EndsInv' /\ FilterInv'
    BY <1>0, <1>1, <1>2, <2>5, EndsStay, FilterStays
  <2>10. InOrder'
    <3>1. Unwritten = st[s].data /\ Unwritten' = d /\ Unread' = Unread
      BY <1>1, <1>2, <1>4, <2>5 DEF Unwritten, Writer, Unread, Reader, Names
    <3>2. first.took \o out \in Bytes
      BY <1>3, Concat
    <3>3. ((first.took \o out) \o st[s].data) \o more = (first.took \o out) \o d
      BY <1>3, <2>1, <3>2, Regroup DEF d
    <3>4. (first.took \o out) \o st[s].data = Upto(sent)
      BY <1>0, <3>1 DEF InOrder
    <3> QED BY <1>0, <1>1, <1>10, <2>1, <3>1, <3>3, <3>4 DEF InOrder
  <2>11. FilterComplete'
    BY <1>1, <1>2 DEF FilterComplete
  <2> QED BY <2>5, <2>7, <2>8, <2>9, <2>10, <2>11 DEF IInv
<1> QED BY <1>2, <1>7, <1>8, <1>9, <1>10 DEF Put, k

\* A step that leaves the streams and the bytes where they are.
LEMMA StepStays ==
  ASSUME IInv, UNCHANGED <<ends, out, in, first, how, second, sig, raw, chunk, st, sent, got>>,
         call' \in CallType, PlanInv', FilterComplete'
  PROVE  IInv'
<1>1. TypeInv'
  BY TypesStay DEF IInv, TypeInv
<1>2. StreamInv'
  BY DEF IInv, StreamInv, Names, Fits
<1>3. EndsInv' /\ FilterInv'
  BY EndsStay, FilterStays DEF IInv
<1>4. InOrder'
  BY DEF IInv, InOrder, Unwritten, Unread, Writer, Reader
<1> QED BY <1>1, <1>2, <1>3, <1>4 DEF IInv

LEMMA DirectInv ==
  ASSUME IInv, Direct
  PROVE  IInv'
<1>0. TypeInv /\ StreamInv /\ PlanInv /\ EndsInv /\ FilterInv /\ InOrder /\ FilterComplete
  BY DEF IInv
<1>1. Step("direct") /\ UNCHANGED <<ends, in, first, st, how, second, sig, raw, chunk, got>>
  BY DEF Direct, Rest
<1>2. PICK s \in Names \ {"r"}, n \in Nat :
        /\ todo = <<<<"direct", s, n>>>> /\ S = s /\ N = n /\ Tail(todo) = << >>
        /\ how.setup # "filter" /\ st[s].open /\ st[s].mode = "write" /\ st[s].data = << >>
  BY <1>0, <1>1, AtDirect
<1>3. /\ call \in CallType /\ call.n \in Nat /\ call.op # "killed"
      /\ sent \in Nat /\ out \in Bytes /\ first.took \in Bytes
  BY <1>0, <1>1, Contents DEF TypeInv, CallType, PlanInv, Step
<1>4. IF how.setup = "pair" THEN s = "w" ELSE s = "f"
  BY <1>0, <1>2, OneMode
<1>5. FilterComplete'
  BY <1>1, <1>2 DEF FilterComplete
<1>6. CASE /\ N > 0 /\ Room(st[S]) /\ out' = Append(out, sent + 1) /\ sent' = sent + 1
           /\ call' = [call EXCEPT !.n = @ + 1] /\ Then(<<<<"direct", S, N - 1>>>>)
  <2> DEFINE x == sent + 1
  <2>a. x \in Nat /\ call.n + 1 \in Nat
    BY <1>3
  <2>b. out' = Append(out, x) /\ sent' = x
    BY <1>6
  <2> HIDE DEF x
  <2>c. Append(out, x) \in Bytes /\ Append(first.took \o out, x) = first.took \o Append(out, x)
    BY <1>3, <2>a, Extend
  <2>1. out' \in Bytes /\ sent' \in Nat
    BY <2>a, <2>b, <2>c
  <2>2. call' \in CallType /\ call'.op = call.op
    BY <1>3, <1>6, <2>a DEF CallType
  <2>3. TypeInv'
    BY <1>0, <1>1, <2>1, <2>2, TypesStay DEF TypeInv
  <2>4. StreamInv'
    BY <1>0, <1>1 DEF StreamInv, Names, Fits
  <2>5. PlanInv'
    <3>1. todo' = <<<<"direct", s, n - 1>>>> /\ n - 1 \in Nat
      BY <1>2, <1>6 DEF Then
    <3>2. Writing'
      BY <1>1, <1>2, <3>1 DEF Writing, Writes, Names
    <3> QED BY <1>3, <2>2, <3>2 DEF PlanInv
  <2>6. first.at # "gone"
    BY <1>0, <1>6, Present DEF Room
  <2>7. EndsInv' /\ FilterInv'
    BY <1>0, <1>1, <1>2, <2>6, EndsStay, FilterStays
  <2>8. InOrder'
    <3>1. Unwritten = << >> /\ Unwritten' = << >> /\ Unread' = Unread
      BY <1>1, <1>2, <1>4 DEF Unwritten, Writer, Unread, Reader, Names
    <3>2. first.took \o out \in Bytes /\ first.took \o out' \in Bytes
      BY <1>3, <2>1, Concat
    <3>3. first.took \o out = Upto(sent)
      BY <1>0, <3>1, <3>2, Concat DEF InOrder
    <3>4. first.took \o out' = Append(first.took \o out, sent + 1)
      BY <2>b, <2>c DEF x
    <3>5. first.took \o out' = Upto(sent + 1)
      BY <1>3, <3>3, <3>4, Numbered
    <3>6. (first.took \o out') \o Unwritten' = Upto(sent')
      BY <1>6, <3>1, <3>2, <3>5, Concat
    <3> QED BY <1>0, <1>1, <3>1, <3>6 DEF InOrder
  <2> QED BY <1>5, <2>3, <2>4, <2>5, <2>7, <2>8 DEF IInv
<1>7. CASE UNCHANGED <<out, sent>> /\ todo' = << >> /\ call' = [call EXCEPT !.op = "killed"]
  <2>1. call' \in CallType
    BY <1>3, <1>7 DEF CallType
  <2>2. PlanInv'
    BY <1>7 DEF PlanInv
  <2> QED BY <1>1, <1>5, <1>7, <2>1, <2>2, StepStays
<1>8. ASSUME UNCHANGED <<out, sent>>, NEW r \in {call.n, 0}, Return(r) PROVE IInv'
  <2>1. r \in Int
    BY <1>3, <1>8
  <2>2. call' \in CallType /\ PlanInv'
    BY <1>0, <1>8, <2>1, Returns
  <2> QED BY <1>1, <1>5, <1>8, <2>2, StepStays
<1>9. \/ /\ N > 0 /\ Room(st[S]) /\ out' = Append(out, sent + 1) /\ sent' = sent + 1
         /\ call' = [call EXCEPT !.n = @ + 1] /\ Then(<<<<"direct", S, N - 1>>>>)
      \/ UNCHANGED <<out, sent>> /\ todo' = << >> /\ call' = [call EXCEPT !.op = "killed"]
      \/ UNCHANGED <<out, sent>> /\ Return(call.n)
      \/ UNCHANGED <<out, sent>> /\ Return(0)
  BY DEF Direct
<1> QED BY <1>6, <1>7, <1>8, <1>9

LEMMA GetInv ==
  ASSUME IInv, Get
  PROVE  IInv'
<1>0. TypeInv /\ StreamInv /\ PlanInv /\ EndsInv /\ FilterInv /\ InOrder /\ FilterComplete
  BY DEF IInv
<1>1. Step("get") /\ UNCHANGED <<ends, out, in, first, how, second, sig, raw, chunk, sent>>
  BY DEF Get, Pipes, Rest
<1>2. PICK s \in Names \ {"w"}, n \in Nat :
        /\ todo = <<<<"get", s, n>>>> /\ S = s /\ N = n /\ Tail(todo) = << >>
        /\ how.setup # "filter" /\ st[s].open /\ st[s].mode = "read"
  BY <1>0, <1>1, AtGet
<1>3. /\ call \in CallType /\ call.n \in Nat /\ call.op # "killed" /\ Head(todo) = <<"get", s, n>>
      /\ st[s] \in Streams /\ st \in [Names -> Streams] /\ st[s].data \in Bytes
      /\ how.size \in Nat /\ Len(st[s].data) \in Nat /\ Fits(st[s].data) /\ st[s].saved = << >>
      /\ got \in Bytes /\ in \in Bytes
  <2>1. st[s] \in Streams /\ st \in [Names -> Streams]
    BY <1>0, <1>2 DEF TypeInv
  <2>2. Fits(st[s].data) /\ st[s].saved = << >> /\ st[s].data \in Bytes
    BY <1>0, <1>2, <2>1 DEF StreamInv, Streams
  <2>3. Len(st[s].data) \in Nat
    BY <2>2, Concat
  <2> QED BY <1>0, <1>1, <1>2, <2>1, <2>2, <2>3, SetupsAssumption DEF TypeInv, CallType, PlanInv, Step
<1>4. IF how.setup = "pair" THEN s = "r" ELSE s = "f"
  BY <1>0, <1>2, OneMode
<1>5. FilterComplete'
  BY <1>1, <1>2 DEF FilterComplete
<1> DEFINE k == Min({Len(st[s].data), n})
<1>6. k = (IF Len(st[s].data) <= n THEN Len(st[s].data) ELSE n) /\ k \in Nat /\ k <= Len(st[s].data) /\ n - k \in Nat
  BY <1>3, Least
<1> HIDE DEF k
<1>7. CASE /\ k > 0 /\ got' = got \o SubSeq(st[s].data, 1, k)
           /\ st' = [st EXCEPT ![S].data = SubSeq(st[s].data, k + 1, Len(st[s].data))]
           /\ call' = [call EXCEPT !.n = @ + k] /\ Then(<<<<"get", S, N - k>>>>)
  <2> DEFINE b == SubSeq(st[s].data, 1, k)
             d == SubSeq(st[s].data, k + 1, Len(st[s].data))
  <2>1. b \in Bytes /\ d \in Bytes /\ b \o d = st[s].data /\ Len(d) = Len(st[s].data) - k
    BY <1>3, <1>6, Cut
  <2>2. got' = got \o b /\ st' = [st EXCEPT ![s].data = d]
    BY <1>2, <1>7
  <2> HIDE DEF b, d
  <2>3. got' \in Bytes
    BY <1>3, <2>1, <2>2, Concat
  <2>4. st[s].mode # "write" /\ Fits(d) /\ how' = how /\ s \in Names
    <3>1. Len(d) <= Len(st[s].data) /\ Len(d) \in Nat
      <4>1. Len(d) = Len(st[s].data) - k
        BY <2>1
      <4>2. Len(st[s].data) \in Nat
        BY <1>3
      <4>3. k \in Nat /\ k <= Len(st[s].data)
        BY <1>6
      <4> QED BY <4>1, <4>2, <4>3
    <3>2. Fits(d)
      BY <1>3, <3>1 DEF Fits
    <3> QED BY <1>1, <1>2, <3>2
  <2>5. /\ st' \in [Names -> Streams] /\ StreamInv'
        /\ \A m \in Names : /\ st'[m].mode = st[m].mode /\ st'[m].open = st[m].open /\ st'[m].size = st[m].size
                            /\ st'[m].saved = st[m].saved
                            /\ st'[m].data = IF m = s THEN d ELSE st[m].data
    <3>1. d \in Bytes /\ st \in [Names -> Streams] /\ how.setup # "filter" /\ StreamInv
      BY <1>0, <1>2, <1>3, <2>1
    <3>2. st' = [st EXCEPT ![s].data = d]
      BY <2>2
    <3> QED BY <2>4, <3>1, <3>2, DataChanges
  <2>6. call' \in CallType /\ call'.op = call.op
    <3>1. call.n + k \in Nat
      BY <1>3, <1>6
    <3> QED BY <1>3, <1>7, <3>1 DEF CallType
  <2>7. TypeInv'
    BY <1>0, <1>1, <2>3, <2>5, <2>6, TypesStay DEF TypeInv
  <2>8. PlanInv'
    <3>1. todo' = <<<<"get", s, n - k>>>>
      BY <1>2, <1>7 DEF Then
    <3>2. Reading'
      BY <1>1, <1>2, <1>6, <2>5, <3>1 DEF Reading, Reads, Names
    <3> QED BY <1>3, <2>6, <3>2 DEF PlanInv
  <2>9. EndsInv' /\ FilterInv'
    BY <1>0, <1>1, <1>2, <2>5, EndsStay, FilterStays
  <2>10. InOrder'
    <3>1. Unwritten' = Unwritten
      BY <1>1, <1>2, <1>4, <2>5 DEF Unwritten, Writer, Names
    <3>2. Unread = << >> \o st[s].data /\ Unread' = << >> \o d
      BY <1>1, <1>2, <1>3, <1>4, <2>5 DEF Unread, Reader, Names
    <3>3. Unread = st[s].data /\ Unread' = d
      BY <1>3, <2>1, <3>2, Concat
    <3>4. (got \o b) \o d = got \o (b \o d)
      BY <1>3, <2>1, Regroup
    <3>5. got' \o Unread' = got \o Unread
      BY <2>1, <2>2, <3>3, <3>4
    <3> QED BY <1>0, <1>1, <3>1, <3>5 DEF InOrder
  <2> QED BY <1>5, <2>5, <2>7, <2>8, <2>9, <2>10 DEF IInv
<1>8. CASE /\ k = 0 /\ n > 0 /\ UNCHANGED <<st, got, call>>
           /\ \E x \in Inputs(s, n) : Then(<<<<"wrsync", s, 0>>, x, <<"get", s, n>>>>)
  <2>1. PICK x \in Inputs(s, n) : Then(<<<<"wrsync", s, 0>>, x, <<"get", s, n>>>>)
    BY <1>8
  <2>2. todo' = <<<<"wrsync", s, 0>>, x, <<"get", s, n>>>>
    <3> DEFINE a == <<"wrsync", s, 0>>
               c == <<"get", s, n>>
    <3>1. <<a, x, c>> \in Seq({a, x, c})
      OBVIOUS
    <3>2. todo' = <<a, x, c>> \o << >>
      BY <1>2, <2>1 DEF Then
    <3> HIDE DEF a, c
    <3>3. <<a, x, c>> \o << >> = <<a, x, c>>
      BY <3>1, ConcatEmptySeq
    <3> QED BY <3>2, <3>3 DEF a, c
  <2>3. st[s].data = << >>
    BY <1>3, <1>6, <1>8, Concat
  <2>4. Reads(s, n)' /\ s \in Names'
    BY <1>1, <1>2, <1>8, <2>2, <2>3 DEF Reads, Inputs, Capacity, Names
  <2>5. Reading'
    BY <1>1, <1>2, <1>8, <2>4 DEF Reading
  <2>6. PlanInv'
    BY <1>3, <1>8, <2>5 DEF PlanInv
  <2> QED BY <1>1, <1>3, <1>5, <1>8, <2>6, StepStays
<1>9. CASE Return(call.n) /\ UNCHANGED <<st, got>>
  <2>1. call' \in CallType /\ PlanInv'
    BY <1>0, <1>3, <1>9, Returns
  <2> QED BY <1>1, <1>5, <1>9, <2>1, StepStays
<1>10. Get => \/ /\ k > 0 /\ got' = got \o SubSeq(st[s].data, 1, k)
                 /\ st' = [st EXCEPT ![S].data = SubSeq(st[s].data, k + 1, Len(st[s].data))]
                 /\ call' = [call EXCEPT !.n = @ + k] /\ Then(<<<<"get", S, N - k>>>>)
              \/ /\ k = 0 /\ n > 0 /\ UNCHANGED <<st, got, call>>
                 /\ \E x \in Inputs(s, n) : Then(<<<<"wrsync", s, 0>>, x, <<"get", s, n>>>>)
              \/ Return(call.n) /\ UNCHANGED <<st, got>>
  BY <1>2, <1>3 DEF Get, k, Inputs
<1> QED BY <1>7, <1>8, <1>9, <1>10

\* A set of at most one element as a sequence.
LEMMA Listed ==
  ASSUME NEW x
  PROVE  SetToSeq({}) = << >> /\ SetToSeq({x}) = <<x>>
<1>1. SetToSeq({}) = << >>
  <2>1. Cardinality({}) = 0
    BY FS_EmptySet
  <2>2. \A f \in [1 .. 0 -> {}] : f = << >>
    <3>1. \A f \in [1 .. 0 -> {}] : f \in Seq(Nat) /\ Len(f) = 0
      OBVIOUS
    <3> QED BY <3>1, EmptySeq
  <2>3. << >> \in [1 .. 0 -> {}] /\ IsInjective(<< >>)
    BY DEF IsInjective
  <2> QED BY <2>1, <2>2, <2>3 DEF SetToSeq
<1>2. SetToSeq({x}) = <<x>>
  <2>1. Cardinality({x}) = 1
    BY FS_Singleton
  <2>2. \A f \in [1 .. 1 -> {x}] : f = <<x>>
    OBVIOUS
  <2>3. <<x>> \in [1 .. 1 -> {x}] /\ IsInjective(<<x>>)
    BY DEF IsInjective
  <2> QED BY <2>1, <2>2, <2>3 DEF SetToSeq
<1> QED BY <1>1, <1>2

\* Of the streams with something to write, a read may find only w.
LEMMA PendingIs ==
  ASSUME IInv, WrSync
  PROVE  Pending = {} \/ (how.setup = "pair" /\ st["w"].open /\ Pending = {"w"})
<1>0. TypeInv /\ StreamInv /\ PlanInv /\ EndsInv /\ FilterInv
  BY DEF IInv
<1>1. Step("wrsync")
  BY DEF WrSync
<1>2. PICK s \in Names \ {"w"}, n \in Nat :
        how.setup # "filter" /\ st[s].open /\ st[s].mode = "read" /\ st[s].data = << >>
  BY <1>0, <1>1, AtWrSync
<1>3. CASE how.setup = "pair"
  <2>1. Names = {"w", "r"} /\ s = "r" /\ st["r"].mode = "read"
    BY <1>2, <1>3 DEF Names
  <2> QED BY <1>3, <2>1 DEF Pending
<1>4. CASE how.setup # "pair"
  <2>1. Names = {"f"} /\ st["f"].mode = "read"
    BY <1>2, <1>4 DEF Names
  <2> QED BY <2>1 DEF Pending
<1> QED BY <1>3, <1>4

LEMMA WrSyncInv ==
  ASSUME IInv, WrSync
  PROVE  IInv'
<1>0. TypeInv /\ StreamInv /\ PlanInv /\ EndsInv /\ FilterInv /\ InOrder /\ FilterComplete
  BY DEF IInv
<1>1. /\ Step("wrsync") /\ Then(SetToSeq({<<"flush", n, 0>> : n \in Pending}))
      /\ UNCHANGED <<ends, out, in, first, how, second, sig, raw, chunk, st, sent, got, call>>
  BY DEF WrSync, Pipes, Rest
<1>2. PICK s \in Names \ {"w"}, n \in Nat :
        /\ how.setup # "filter" /\ st[s].open /\ st[s].mode = "read" /\ st[s].data = << >>
        /\ \E x \in Inputs(s, n) : Tail(todo) = <<x, <<"get", s, n>>>>
  BY <1>0, <1>1, AtWrSync
<1>3. PICK x \in Inputs(s, n) : Tail(todo) = <<x, <<"get", s, n>>>>
  BY <1>2
<1>4. call \in CallType /\ call.op # "killed"
  BY <1>0, <1>1 DEF TypeInv, CallType, PlanInv, Step
<1>5. FilterComplete'
  BY <1>1, <1>2 DEF FilterComplete
<1>6. Pending = {} \/ (how.setup = "pair" /\ st["w"].open /\ Pending = {"w"})
  BY PendingIs
<1> DEFINE a == <<"flush", "w", 0>>
           c == <<"get", s, n>>
<1>7. CASE Pending = {}
  <2>1. {<<"flush", m, 0>> : m \in Pending} = {}
    BY <1>7
  <2>2. todo' = << >> \o <<x, c>>
    BY <1>1, <1>3, <2>1, Listed DEF Then
  <2> HIDE DEF c
  <2>3. << >> \o <<x, c>> = <<x, c>>
    BY Tuples
  <2>4. todo' = <<x, <<"get", s, n>>>>
    BY <2>2, <2>3 DEF c
  <2>5. Reads(s, n)' /\ s \in Names'
    BY <1>1, <1>2, <1>3, <2>4 DEF Reads, Inputs, Capacity, Names
  <2>6. Reading'
    BY <1>1, <1>2, <2>5 DEF Reading
  <2>7. PlanInv'
    BY <1>1, <1>4, <2>6 DEF PlanInv
  <2> QED BY <1>1, <1>4, <1>5, <2>7, StepStays
<1>8. CASE how.setup = "pair" /\ st["w"].open /\ Pending = {"w"}
  <2>1. {<<"flush", m, 0>> : m \in Pending} = {a}
    BY <1>8
  <2> HIDE DEF a
  <2>2. todo' = <<a>> \o <<x, c>>
    BY <1>1, <1>3, <2>1, Listed DEF Then
  <2> HIDE DEF c
  <2>3. <<a>> \o <<x, c>> = <<a, x, c>>
    BY Joins
  <2>4. todo' = <<<<"flush", "w", 0>>, x, <<"get", s, n>>>>
    BY <2>2, <2>3 DEF a, c
  <2>5. Reads(s, n)' /\ s \in Names'
    BY <1>1, <1>2, <1>3, <1>8, <2>4 DEF Reads, Inputs, Capacity, Names
  <2>6. Reading'
    BY <1>1, <1>2, <2>5 DEF Reading
  <2>7. PlanInv'
    BY <1>1, <1>4, <2>6 DEF PlanInv
  <2> QED BY <1>1, <1>4, <1>5, <2>7, StepStays
<1> QED BY <1>6, <1>7, <1>8

\* Bytes that arrive leave the pipe.
LEMMA Arrives ==
  ASSUME in \in Bytes, NEW n \in Nat
  PROVE  /\ Arrived(n) \in Bytes /\ SubSeq(in, Len(Arrived(n)) + 1, Len(in)) \in Bytes
         /\ Len(Arrived(n)) \in Nat /\ Len(Arrived(n)) <= n /\ (in # << >> /\ n > 0 => Len(Arrived(n)) > 0)
         /\ Arrived(n) \o SubSeq(in, Len(Arrived(n)) + 1, Len(in)) = in
         /\ in = << >> => Arrived(n) = << >>
<1> DEFINE k == Min({n, Len(in)})
<1>1. Len(in) \in Nat /\ (in = << >> <=> Len(in) = 0)
  BY Concat
<1>2. k = (IF n <= Len(in) THEN n ELSE Len(in))
  BY <1>1, Least
<1>3. k \in Nat /\ k <= Len(in) /\ k <= n /\ (in # << >> /\ n > 0 => k > 0)
  BY <1>1, <1>2
<1>4. Arrived(n) = SubSeq(in, 1, k)
  BY DEF Arrived
<1> HIDE DEF k
<1>5. /\ SubSeq(in, 1, k) \in Bytes /\ SubSeq(in, k + 1, Len(in)) \in Bytes /\ Len(SubSeq(in, 1, k)) = k
      /\ SubSeq(in, 1, k) \o SubSeq(in, k + 1, Len(in)) = in
  BY <1>3, Cut
<1>6. in = << >> => Arrived(n) = << >>
  <2>1. Len(Arrived(n)) = 0 <=> Arrived(n) = << >>
    BY <1>4, <1>5, Concat
  <2> QED BY <1>1, <1>3, <1>4, <1>5, <2>1
<1> QED BY <1>3, <1>4, <1>5, <1>6

LEMMA ReadInInv ==
  ASSUME IInv, ReadIn
  PROVE  IInv'
<1>0. TypeInv /\ StreamInv /\ PlanInv /\ EndsInv /\ FilterInv /\ InOrder /\ FilterComplete
  BY DEF IInv
<1>1. (Step("fill") \/ Step("take")) /\ UNCHANGED <<ends, out, first, how, second, sig, raw, chunk, sent>>
  BY DEF ReadIn, Rest
<1>2. PICK s \in Names \ {"w"}, n \in Nat :
        /\ how.setup # "filter" /\ st[s].open /\ st[s].mode = "read" /\ st[s].data = << >>
        /\ S = s /\ Tail(todo) = <<<<"get", s, n>>>>
        /\ (Step("take") /\ N = n) \/ (Step("fill") /\ N = Capacity(st[s]))
  BY <1>0, <1>1, AtReadIn
<1>3. /\ call \in CallType /\ call.n \in Nat /\ call.op # "killed"
      /\ st[s] \in Streams /\ st \in [Names -> Streams] /\ st[s].saved = << >> /\ st[s].size = how.size
      /\ how.size \in Nat /\ got \in Bytes /\ in \in Bytes
  <2>1. st[s] \in Streams /\ st \in [Names -> Streams]
    BY <1>0, <1>2 DEF TypeInv
  <2>2. st[s].saved = << >> /\ st[s].size = how.size
    BY <1>0, <1>2, <2>1 DEF StreamInv, Streams
  <2> QED BY <1>0, <1>1, <2>1, <2>2, SetupsAssumption DEF TypeInv, CallType, PlanInv, Step
<1>4. IF how.setup = "pair" THEN s = "r" ELSE s = "f"
  BY <1>0, <1>2, OneMode
<1>5. FilterComplete'
  BY <1>1, <1>2 DEF FilterComplete
<1>6. N \in Nat /\ (Step("fill") => N <= IF how.size = 0 THEN 1 ELSE how.size)
  <2>1. CASE Step("take") /\ N = n
    BY <2>1 DEF Step
  <2>2. CASE Step("fill") /\ N = Capacity(st[s])
    BY <1>2, <1>3, <2>2 DEF Capacity
  <2> QED BY <1>2, <2>1, <2>2
<1> DEFINE b == Arrived(N)
           rest == SubSeq(in, Len(b) + 1, Len(in))
<1>7. b \in Bytes /\ rest \in Bytes /\ Len(b) \in Nat /\ Len(b) <= N /\ b \o rest = in
  BY <1>3, <1>6, Arrives
<1>8. Unread = << >>
  <2>1. Unread = << >> \o << >>
    BY <1>2, <1>3, <1>4 DEF Unread, Reader
  <2> QED BY <2>1, Concat DEF Bytes
<1> HIDE DEF b, rest
<1>9. CASE /\ Step("fill") /\ in' = rest /\ st' = [st EXCEPT ![S].data = b] /\ Then(<< >>) /\ UNCHANGED <<got, call>>
  <2>1. /\ b \in Bytes /\ st \in [Names -> Streams] /\ how.setup # "filter" /\ StreamInv /\ how' = how
        /\ st' = [st EXCEPT ![s].data = b] /\ st[s].mode # "write" /\ Fits(b) /\ s \in Names
    <3>1. Fits(b)
      <4>1. how.size \in Nat /\ N \in Nat /\ Len(b) \in Nat
        BY <1>3, <1>6, <1>7
      <4> QED BY <1>6, <1>7, <1>9, <4>1 DEF Fits
    <3> QED BY <1>0, <1>1, <1>2, <1>3, <1>7, <1>9, <3>1
  <2>2. /\ st' \in [Names -> Streams] /\ StreamInv'
        /\ \A m \in Names : /\ st'[m].mode = st[m].mode /\ st'[m].open = st[m].open /\ st'[m].size = st[m].size
                            /\ st'[m].saved = st[m].saved
                            /\ st'[m].data = IF m = s THEN b ELSE st[m].data
    BY <2>1, DataChanges
  <2>3. TypeInv'
    BY <1>0, <1>1, <1>3, <1>7, <1>9, <2>2, TypesStay DEF TypeInv
  <2>4. PlanInv'
    <3>1. todo' = <<<<"get", s, n>>>>
      BY <1>2, <1>9, Tuples DEF Then
    <3>2. Reading'
      BY <1>1, <1>2, <2>2, <3>1 DEF Reading, Reads, Names
    <3> QED BY <1>3, <1>9, <3>2 DEF PlanInv
  <2>5. EndsInv' /\ FilterInv'
    BY <1>0, <1>1, <2>2, EndsStay, FilterStays
  <2>6. InOrder'
    <3>1. Unwritten' = Unwritten
      BY <1>1, <1>2, <1>4, <2>2 DEF Unwritten, Writer, Names
    <3>2. Unread' = << >> \o b
      BY <1>1, <1>2, <1>3, <1>4, <2>2 DEF Unread, Reader, Names
    <3>3. Unread' = b /\ got \o << >> = got
      BY <1>3, <1>7, <3>2, Concat
    <3>4. (got \o b) \o rest = got \o (b \o rest)
      BY <1>3, <1>7, Regroup
    <3> QED BY <1>0, <1>1, <1>7, <1>8, <1>9, <3>1, <3>3, <3>4 DEF InOrder
  <2> QED BY <1>5, <2>2, <2>3, <2>4, <2>5, <2>6 DEF IInv
<1>10. CASE /\ Step("take") /\ N = n /\ in' = rest /\ got' = got \o b /\ call' = [call EXCEPT !.n = @ + Len(b)]
            /\ todo' = <<<<"get", S, N - Len(b)>>>> /\ UNCHANGED st
  <2>1. call' \in CallType /\ call'.op = call.op
    <3>1. call.n + Len(b) \in Nat
      BY <1>3, <1>7
    <3> QED BY <1>3, <1>10, <3>1 DEF CallType
  <2>2. got' \in Bytes
    BY <1>3, <1>7, <1>10, Concat
  <2>3. TypeInv'
    BY <1>0, <1>1, <1>3, <1>7, <1>10, <2>1, <2>2, TypesStay DEF TypeInv
  <2>4. StreamInv'
    BY <1>0, <1>1, <1>10 DEF StreamInv, Names, Fits
  <2>5. PlanInv'
    <3>1. todo' = <<<<"get", s, n - Len(b)>>>> /\ n - Len(b) \in Nat
      BY <1>2, <1>7, <1>10
    <3>2. Reading'
      BY <1>1, <1>2, <1>10, <3>1 DEF Reading, Reads, Names
    <3> QED BY <1>3, <2>1, <3>2 DEF PlanInv
  <2>6. EndsInv' /\ FilterInv'
    BY <1>0, <1>1, <1>10, EndsStay, FilterStays
  <2>7. InOrder'
    <3>1. Unwritten' = Unwritten /\ Unread' = Unread
      BY <1>1, <1>10 DEF Unwritten, Writer, Unread, Reader
    <3>2. got \o << >> = got /\ (got \o b) \o << >> = got \o b
      BY <1>3, <1>10, <2>2, Concat
    <3>3. (got \o b) \o rest = got \o (b \o rest)
      BY <1>3, <1>7, Regroup
    <3> QED BY <1>0, <1>1, <1>7, <1>8, <1>10, <3>1, <3>2, <3>3 DEF InOrder
  <2> QED BY <1>5, <2>3, <2>4, <2>5, <2>6, <2>7 DEF IInv
<1>11. CASE Return(call.n) /\ UNCHANGED <<in, st, got>>
  <2>1. call' \in CallType /\ PlanInv'
    BY <1>0, <1>3, <1>11, Returns
  <2> QED BY <1>1, <1>5, <1>11, <2>1, StepStays
<1> QED BY <1>2, <1>9, <1>10, <1>11 DEF ReadIn, b, rest

LEMMA PollInv ==
  ASSUME IInv, Poll
  PROVE  IInv'
<1>0. TypeInv /\ StreamInv /\ PlanInv /\ EndsInv /\ FilterInv /\ InOrder /\ FilterComplete
  BY DEF IInv
<1>1. /\ Step("poll") /\ todo' = << >> /\ call' = [call EXCEPT !.ready = Status(st[S])]
      /\ UNCHANGED <<ends, out, in, first, how, second, sig, raw, chunk, st, sent, got>>
  BY DEF Poll, Pipes, Rest
<1>2. how.setup = "rw" /\ S = "f" /\ st["f"] \in Streams
  BY <1>0, <1>1, AtPoll DEF TypeInv, Names
<1>3. Status(st[S]) \in SUBSET Modes
  BY <1>2 DEF Status, Streams
<1>4. call' \in CallType
  BY <1>0, <1>1, <1>3 DEF TypeInv, CallType
<1>5. PlanInv' /\ FilterComplete'
  BY <1>1, <1>2 DEF PlanInv, FilterComplete
<1> QED BY <1>1, <1>4, <1>5, StepStays

LEMMA ShutInv ==
  ASSUME IInv, Shut
  PROVE  IInv'
<1>0. TypeInv /\ StreamInv /\ PlanInv /\ EndsInv /\ FilterInv /\ InOrder /\ FilterComplete
  BY DEF IInv
<1>1. /\ Step("shut") /\ ends' = Dropped(ends, "app", Descriptors(st[S])) /\ st' = [st EXCEPT ![S].open = FALSE]
      /\ UNCHANGED <<out, in, first, how, second, sig, raw, chunk, sent, got>>
  BY DEF Shut, Rest
<1>2. PICK s \in Names :
        /\ st[s].open /\ (s = "r" => ~ st["w"].open)
        /\ todo = <<<<"shut", s, 0>>>> /\ S = s /\ Tail(todo) = << >> /\ call.op = "close"
  BY <1>0, <1>1, AtShut
<1>3. call \in CallType /\ st \in [Names -> Streams] /\ st[s] \in Streams /\ ends \in [Ends -> SUBSET Actors]
  BY <1>0, <1>2 DEF TypeInv, CallType
<1>4. Descriptors(st[s]) = IF how.setup = "pair" THEN IF s = "w" THEN {"outW"} ELSE {"inR"} ELSE {"outW", "inR"}
  <2>1. CASE how.setup = "pair"
    <3>1. st[s].file = (IF s = "w" THEN "out" ELSE "in") /\ st[s].aux = NoPipe
      BY <1>0, <1>2, <2>1 DEF StreamInv
    <3> QED BY <2>1, <3>1 DEF Descriptors, EndOf, NoPipe
  <2>2. CASE how.setup # "pair"
    <3>1. {st[s].file, st[s].aux} \ {NoPipe} = {"in", "out"}
      BY <1>0, <1>2, <2>2 DEF StreamInv, NoPipe
    <3> QED BY <2>2, <3>1 DEF Descriptors, EndOf
  <2> QED BY <2>1, <2>2
<1>5. /\ st' \in [Names -> Streams]
      /\ \A n \in Names : /\ st'[n].mode = st[n].mode /\ st'[n].size = st[n].size /\ st'[n].flags = st[n].flags
                          /\ st'[n].file = st[n].file /\ st'[n].aux = st[n].aux
                          /\ st'[n].saved = st[n].saved /\ st'[n].data = st[n].data
                          /\ st'[n].open = IF n = s THEN FALSE ELSE st[n].open
  BY <1>1, <1>2, <1>3 DEF Streams
<1>6. ends' \in [Ends -> SUBSET Actors]
      /\ \A e \in Ends : ends'[e] = IF e \in Descriptors(st[s]) THEN ends[e] \ {"app"} ELSE ends[e]
  BY <1>1, <1>2, <1>3 DEF Dropped
<1>7. call' \in CallType /\ call'.op = "close" /\ PlanInv'
  <2>1. CASE how.setup = "pair"
    <3>1. Return(IF call.err THEN -1 ELSE 0)
      BY <2>1 DEF Shut
    <3>2. (IF call.err THEN -1 ELSE 0) \in Int
      OBVIOUS
    <3> QED BY <1>0, <1>2, <3>1, <3>2, Returns
  <2>2. CASE how.setup # "pair"
    <3>1. todo' = <<<<"wait", s, 0>>>> /\ call' = call
      BY <1>2, <2>2 DEF Shut, Then
    <3>2. s = "f"
      BY <2>2 DEF Names
    <3>3. Closing'
      BY <1>1, <1>2, <1>5, <2>2, <3>1, <3>2 DEF Closing, Waits
    <3> QED BY <1>2, <1>3, <3>1, <3>3 DEF PlanInv
  <2> QED BY <2>1, <2>2
<1>8. TypeInv'
  BY <1>0, <1>1, <1>5, <1>6, <1>7 DEF TypeInv, CallType, Names, Streams
<1>9. StreamInv'
  BY <1>0, <1>1, <1>5 DEF StreamInv, Names, Fits
<1>10. EndsInv'
  <2>1. CASE how.setup = "pair"
    <3>1. Names = {"w", "r"} /\ Names' = {"w", "r"}
      BY <1>1, <2>1 DEF Names
    <3> QED BY <1>0, <1>1, <1>2, <1>4, <1>5, <1>6, <2>1, <3>1 DEF EndsInv, Ends
  <2>2. CASE how.setup # "pair"
    <3>1. Names = {"f"} /\ s = "f"
      BY <1>2, <2>2 DEF Names
    <3> QED BY <1>0, <1>1, <1>2, <1>4, <1>5, <1>6, <2>2, <3>1 DEF EndsInv, Ends
  <2> QED BY <2>1, <2>2
<1>11. FilterInv'
  BY <1>0, <1>1, <1>5 DEF FilterInv, Copies, Names
<1>12. InOrder'
  <2>1. Unwritten' = Unwritten
    BY <1>1, <1>5 DEF Unwritten, Writer, Names
  <2>2. Unread' = Unread
    <3>1. Reader'.mode = Reader.mode /\ Reader'.data = Reader.data /\ Reader'.saved = Reader.saved
      BY <1>1, <1>5 DEF Reader, Names
    <3> QED BY <3>1 DEF Unread
  <2> QED BY <1>0, <1>1, <2>1, <2>2 DEF InOrder
<1>13. FilterComplete'
  BY <1>7 DEF FilterComplete
<1> QED BY <1>7, <1>8, <1>9, <1>10, <1>11, <1>12, <1>13 DEF IInv

LEMMA WaitInv ==
  ASSUME IInv, Wait
  PROVE  IInv'
<1>0. TypeInv /\ StreamInv /\ PlanInv /\ EndsInv /\ FilterInv /\ InOrder /\ FilterComplete
  BY DEF IInv
<1>1. /\ Step("wait") /\ sig' = Unguarded(sig) /\ Return(IF call.err THEN -1 ELSE 0)
      /\ UNCHANGED <<ends, out, in, first, how, second, raw, chunk, st, sent, got>>
  BY DEF Wait, Pipes
<1>2. call.op = "close"
  BY <1>0, <1>1, AtWait
<1>3. call' \in CallType /\ call'.op = "close" /\ PlanInv'
  <2>1. (IF call.err THEN -1 ELSE 0) \in Int
    OBVIOUS
  <2> QED BY <1>0, <1>1, <1>2, <2>1, Returns
<1>4. sig' \in [handler : {"own", "ignored", "default"}, open : Nat]
  <2>1. sig.open - 1 \in Int /\ Max({sig.open - 1, 0}) \in Nat
    <3>1. sig.open \in Nat
      BY <1>0 DEF TypeInv
    <3> DEFINE x == sig.open - 1
    <3>2. x \in Int
      BY <3>1
    <3> HIDE DEF x
    <3>3. Max({x, 0}) \in Nat
      BY <3>2, Least
    <3> QED BY <3>2, <3>3 DEF x
  <2> QED BY <1>0, <1>1, <2>1 DEF Unguarded, TypeInv
<1>5. TypeInv'
  BY <1>0, <1>1, <1>3, <1>4 DEF TypeInv, CallType, Names, Streams
<1>6. StreamInv' /\ EndsInv' /\ FilterInv' /\ InOrder'
  <2>1. StreamInv'
    BY <1>0, <1>1 DEF StreamInv, Names, Fits
  <2>2. EndsInv'
    BY <1>0, <1>1 DEF EndsInv, Names
  <2>3. FilterInv'
    BY <1>0, <1>1 DEF FilterInv, Copies
  <2>4. InOrder'
    BY <1>0, <1>1 DEF InOrder, Unwritten, Unread, Writer, Reader
  <2> QED BY <2>1, <2>2, <2>3, <2>4
<1>7. FilterComplete'
  BY <1>3 DEF FilterComplete
<1> QED BY <1>3, <1>5, <1>6, <1>7 DEF IInv

----------------------------------------------------------------------------
(* The steps of a filter.                                                  *)

\* The end of the raw data is no data.
LEMMA DoneIsNoData ==
  /\ \A c \in Bytes : c # Done
  /\ Done # << >> /\ << >> \in Bytes
<1>1. ASSUME NEW c \in Bytes PROVE c # Done
  <2>1. \A i \in 1 .. Len(c) : c[i] \in Nat
    BY ElementOfSeq DEF Bytes
  <2> QED BY <2>1 DEF Done
<1>2. << >> \in Bytes
  BY DEF Bytes
<1>3. Done # << >>
  BY DEF Done
<1> QED BY <1>1, <1>2, <1>3

\* What a filter's stream holds: nothing.
LEMMA NothingHeld ==
  ASSUME StreamInv, how.setup = "filter"
  PROVE  Unwritten = << >> /\ Unread = << >>
<1>1. st["f"].data = << >> /\ st["f"].saved = << >>
  BY DEF StreamInv, Names
<1>2. << >> \o << >> = << >>
  BY Concat DEF Bytes
<1> QED BY <1>1, <1>2 DEF Unwritten, Unread, Writer, Reader

\* The number that is sent next is the first of the chunk.
LEMMA NextSent ==
  ASSUME NEW n \in Nat, NEW m \in Nat, n <= m, NEW c \in Bytes, NEW r \in Bytes, c # << >>,
         c \o r = [i \in 1 .. m - n |-> n + i]
  PROVE  /\ Head(c) = n + 1 /\ Tail(c) \in Bytes /\ n + 1 <= m
         /\ Tail(c) \o r = [i \in 1 .. m - (n + 1) |-> n + 1 + i]
<1>1. m - n \in Nat
  OBVIOUS
<1> DEFINE all == [i \in 1 .. m - n |-> n + i]
           more == [i \in 1 .. m - (n + 1) |-> n + 1 + i]
<1>2. all \in Bytes /\ Len(all) = m - n
  BY <1>1, Numbered
<1>3. /\ Len(c) \in Nat /\ Len(r) \in Nat /\ Len(c) > 0 /\ c \o r \in Bytes /\ Len(c \o r) = Len(c) + Len(r)
      /\ \A i \in 1 .. Len(c) + Len(r) : (c \o r)[i] = IF i <= Len(c) THEN c[i] ELSE r[i - Len(c)]
      /\ Head(c) = c[1]
  <2>1. Len(c) \in Nat /\ Len(r) \in Nat /\ Len(c) > 0 /\ Head(c) = c[1]
    BY EmptySeq, LenProperties DEF Bytes
  <2>2. /\ c \o r \in Bytes /\ Len(c \o r) = Len(c) + Len(r)
        /\ \A i \in 1 .. Len(c) + Len(r) : (c \o r)[i] = IF i <= Len(c) THEN c[i] ELSE r[i - Len(c)]
    BY ConcatProperties DEF Bytes
  <2> QED BY <2>1, <2>2
<1>4. Len(c) + Len(r) = m - n /\ \A i \in 1 .. m - n : (c \o r)[i] = n + i
  BY <1>2, <1>3
<1>5. Head(c) = n + 1 /\ n + 1 <= m
  <2>1. 1 \in 1 .. m - n /\ 1 <= Len(c)
    BY <1>3, <1>4
  <2> QED BY <1>3, <1>4, <2>1
<1>6. /\ Tail(c) \in Bytes /\ Len(Tail(c)) = Len(c) - 1
      /\ \A i \in 1 .. Len(Tail(c)) : Tail(c)[i] = c[i + 1]
  BY HeadTailProperties DEF Bytes
<1>7. m - (n + 1) \in Nat /\ n + 1 \in Nat
  BY <1>5
<1>8. more \in Bytes /\ Len(more) = m - (n + 1) /\ \A i \in 1 .. m - (n + 1) : more[i] = n + 1 + i
  <2> DEFINE k == n + 1
             j == m - (n + 1)
  <2>1. k \in Nat /\ j \in Nat
    BY <1>7
  <2> HIDE DEF k, j
  <2>2. [i \in 1 .. j |-> k + i] \in Bytes /\ Len([i \in 1 .. j |-> k + i]) = j
    BY <2>1, Numbered
  <2> QED BY <2>2 DEF k, j
<1>9. /\ Tail(c) \o r \in Bytes /\ Len(Tail(c) \o r) = m - (n + 1)
      /\ \A i \in 1 .. m - (n + 1) : (Tail(c) \o r)[i] = IF i <= Len(c) - 1 THEN Tail(c)[i] ELSE r[i - (Len(c) - 1)]
  <2>1. /\ Tail(c) \o r \in Bytes /\ Len(Tail(c) \o r) = Len(Tail(c)) + Len(r)
        /\ \A i \in 1 .. Len(Tail(c)) + Len(r) :
             (Tail(c) \o r)[i] = IF i <= Len(Tail(c)) THEN Tail(c)[i] ELSE r[i - Len(Tail(c))]
    BY <1>6, ConcatProperties DEF Bytes
  <2>2. Len(Tail(c)) + Len(r) = m - (n + 1)
    BY <1>3, <1>4, <1>6
  <2> QED BY <1>6, <2>1, <2>2
<1>10. \A i \in 1 .. m - (n + 1) : (Tail(c) \o r)[i] = more[i]
  <2> SUFFICES ASSUME NEW i \in 1 .. m - (n + 1) PROVE (Tail(c) \o r)[i] = n + 1 + i
    BY <1>8
  <2>1. i + 1 \in 1 .. m - n /\ (c \o r)[i + 1] = n + (i + 1)
    BY <1>4, <1>7
  <2>2. (Tail(c) \o r)[i] = (c \o r)[i + 1]
    <3>1. CASE i <= Len(c) - 1
      <4>1. (Tail(c) \o r)[i] = Tail(c)[i]
        BY <1>9, <3>1
      <4>2. i \in 1 .. Len(Tail(c)) /\ i + 1 <= Len(c)
        BY <1>3, <1>6, <3>1
      <4>3. Tail(c)[i] = c[i + 1]
        BY <1>6, <4>2
      <4>4. (c \o r)[i + 1] = c[i + 1]
        BY <1>3, <1>4, <2>1, <4>2
      <4> QED BY <4>1, <4>3, <4>4
    <3>2. CASE ~ (i <= Len(c) - 1)
      <4>1. (Tail(c) \o r)[i] = r[i - (Len(c) - 1)]
        BY <1>9, <3>2
      <4>2. (c \o r)[i + 1] = r[(i + 1) - Len(c)]
        BY <1>3, <1>4, <2>1, <3>2
      <4>3. i - (Len(c) - 1) = (i + 1) - Len(c)
        BY <1>3
      <4> QED BY <4>1, <4>2, <4>3
    <3> QED BY <3>1, <3>2
  <2> QED BY <2>1, <2>2
<1> HIDE DEF more
<1>11. Tail(c) \o r = more
  BY <1>8, <1>9, <1>10, SeqEqual DEF Bytes
<1> QED BY <1>5, <1>6, <1>11 DEF more

LEMMA RefillInv ==
  ASSUME IInv, Refill
  PROVE  IInv'
<1>0. TypeInv /\ StreamInv /\ PlanInv /\ EndsInv /\ FilterInv /\ InOrder /\ FilterComplete
  BY DEF IInv
<1>1. Step("refill") /\ UNCHANGED <<out, in, first, how, second, sig, sent, got, call>>
  BY DEF Refill
<1>2. PICK n \in FilterSizes :
        /\ todo = <<<<"refill", "f", n>>>> /\ S = "f" /\ N = n /\ Tail(todo) = << >>
        /\ how.setup = "filter" /\ st["f"].open /\ call.op = "filter"
  BY <1>0, <1>1, AtRefill
<1>3. /\ call \in CallType /\ st \in [Names -> Streams] /\ st["f"] \in Streams /\ ends \in [Ends -> SUBSET Actors]
      /\ chunk \in Bytes \cup {Done} /\ raw \in Bytes /\ sent \in Nat /\ Names = {"f"} /\ st["f"].data = << >>
  <2>1. Names = {"f"}
    BY <1>2 DEF Names
  <2> QED BY <1>0, <1>2, <2>1 DEF TypeInv, CallType, StreamInv
<1> DEFINE m == IF chunk' = Done THEN "read" ELSE "write"
           k == Min({Chunk, Len(raw)})
<1>4. m \in Modes /\ (m = "read" => st["f"].mode = "read" \/ st["f"].data = << >>)
  BY <1>3 DEF Modes
<1>5. SUFFICES ASSUME st' = [st EXCEPT !["f"] = Turned(@, m)], chunk' \in Bytes \cup {Done}, raw' \in Bytes,
                      ends' \in [Ends -> SUBSET Actors], EndsInv', FilterInv'
               PROVE  IInv'
  <2>1. CASE /\ chunk = << >> /\ raw = << >> /\ chunk' = Done /\ raw' = raw
             /\ ends' = Dropped(ends, "app", Closed(st["f"])) /\ st' = [st EXCEPT !["f"] = Turned(@, "read")]
    <3>1. Closed(st["f"]) = {"outW"}
      <4>1. Turned(st["f"], "write").file = "out"
        <5>1. CASE st["f"].mode = "write"
          BY <1>0, <1>3, <5>1 DEF StreamInv, Turned
        <5>2. CASE st["f"].mode = "read"
          <6>1. st["f"].aux = "out" /\ st["f"].aux # NoPipe
            BY <1>0, <1>2, <1>3, <5>2 DEF StreamInv, NoPipe
          <6> QED BY <1>3, <5>2, <6>1 DEF Turned, Saved, Swapped, Streams
        <5> QED BY <1>3, <5>1, <5>2 DEF Streams, Modes
      <4> QED BY <4>1 DEF Closed, EndOf
    <3>2. ends' \in [Ends -> SUBSET Actors]
          /\ \A e \in Ends : ends'[e] = IF e = "outW" THEN ends[e] \ {"app"} ELSE ends[e]
      BY <1>3, <2>1, <3>1 DEF Dropped
    <3>3. st' = [st EXCEPT !["f"] = Turned(@, m)]
      BY <2>1
    <3>4. st'["f"].open = st["f"].open
      BY <1>0, <1>1, <1>2, <1>4, <3>3, Turning1
    <3>5. EndsInv'
      BY <1>0, <1>1, <1>2, <2>1, <3>2, <3>4 DEF EndsInv, Ends
    <3>6. sent = Most
      <4>1. << >> \o << >> = [i \in 1 .. Most - sent |-> sent + i] /\ sent <= Most
        BY <1>0, <1>2, <2>1, DoneIsNoData DEF FilterInv
      <4>2. Most - sent \in Nat /\ Most \in Nat
        BY <1>3, <4>1, SizesAssumption
      <4> DEFINE j == Most - sent
      <4> HIDE DEF j
      <4>3. j \in Nat => Len([i \in 1 .. j |-> sent + i]) = j
        BY <1>3, Numbered
      <4>4. << >> \o << >> = << >> /\ Len(<< >>) = 0
        BY DoneIsNoData, Concat
      <4>5. Most - sent = 0
        BY <4>1, <4>2, <4>3, <4>4 DEF j
      <4> QED BY <1>3, <4>2, <4>5
    <3>7. FilterInv'
      <4>1. Copies => first.at # "gone"
        BY <1>0, <1>2, <2>1, DoneIsNoData DEF FilterInv
      <4>2. Copies' = Copies
        BY <1>1 DEF Copies
      <4> QED BY <1>0, <1>1, <1>2, <2>1, <3>6, <4>1, <4>2 DEF FilterInv
    <3>8. raw' \in Bytes /\ chunk' \in Bytes \cup {Done}
      BY <1>3, <2>1
    <3> QED BY <1>5, <3>2, <3>3, <3>5, <3>7, <3>8
  <2>2. CASE /\ ~ (chunk = << >> /\ raw = << >>)
             /\ chunk' = (IF chunk = << >> THEN SubSeq(raw, 1, k) ELSE chunk)
             /\ raw' = (IF chunk = << >> THEN SubSeq(raw, Len(chunk') + 1, Len(raw)) ELSE raw)
             /\ st' = [st EXCEPT !["f"] = Turned(@, m)] /\ ends' = ends
    <3>1. /\ chunk' \in Bytes \cup {Done} /\ raw' \in Bytes /\ (chunk' = Done <=> chunk = Done)
          /\ chunk = Done => raw' = raw
          /\ chunk # Done => chunk' \o raw' = chunk \o raw
      <4>1. CASE chunk # << >>
        BY <1>3, <2>2, <4>1
      <4>2. CASE chunk = << >>
        <5>1. Len(raw) \in Nat /\ Chunk \in Nat
          BY <1>3, Concat, SizesAssumption
        <5>2. k \in Nat /\ k <= Len(raw)
          <6>1. k = IF Chunk <= Len(raw) THEN Chunk ELSE Len(raw)
            BY <5>1, Least
          <6> QED BY <5>1, <6>1
        <5> HIDE DEF k
        <5>3. /\ SubSeq(raw, 1, k) \in Bytes /\ SubSeq(raw, k + 1, Len(raw)) \in Bytes /\ Len(SubSeq(raw, 1, k)) = k
              /\ SubSeq(raw, 1, k) \o SubSeq(raw, k + 1, Len(raw)) = raw
          BY <1>3, <5>2, Cut
        <5>4. chunk' = SubSeq(raw, 1, k) /\ raw' = SubSeq(raw, k + 1, Len(raw))
          BY <2>2, <4>2, <5>3
        <5>5. << >> \o raw = raw
          BY <1>3, Concat
        <5> QED BY <4>2, <5>3, <5>4, <5>5, DoneIsNoData
      <4> QED BY <4>1, <4>2
    <3>2. st'["f"].open = st["f"].open
      BY <1>0, <1>1, <1>2, <1>4, <2>2, Turning1
    <3>3. EndsInv'
      BY <1>0, <1>1, <1>2, <2>2, <3>1, <3>2 DEF EndsInv, Ends
    <3>4. FilterInv'
      <4>1. Copies' = Copies
        BY <1>1 DEF Copies
      <4> QED BY <1>0, <1>1, <1>2, <2>2, <3>1, <3>2, <4>1 DEF FilterInv
    <3> QED BY <1>3, <1>5, <2>2, <3>1, <3>3, <3>4
  <2> QED BY <1>2, <2>1, <2>2 DEF Refill
<1>6. /\ st' \in [Names -> Streams] /\ StreamInv' /\ st'["f"].mode = m /\ st'["f"].open = st["f"].open
      /\ Unwritten' = Unwritten /\ Unread' = Unread
  BY <1>0, <1>1, <1>2, <1>4, <1>5, Turning1
<1>7. TypeInv'
  BY <1>0, <1>1, <1>5, <1>6 DEF TypeInv, Names, Streams
<1>8. todo' = IF chunk' = Done THEN <<<<"await", "f", n>>>> ELSE <<<<"send", "f", n>>>>
  <2>1. todo' = <<<<IF chunk' = Done THEN "await" ELSE "send", "f", n>>>> \o << >>
    BY <1>2 DEF Refill, Then
  <2> DEFINE a == <<IF chunk' = Done THEN "await" ELSE "send", "f", n>>
  <2>2. <<a>> \in Seq({a})
    OBVIOUS
  <2>3. todo' = <<a>>
    <3>1. todo' = <<a>> \o << >>
      BY <2>1
    <3> HIDE DEF a
    <3> QED BY <2>2, <3>1, ConcatEmptySeq
  <2> QED BY <2>3
<1>9. PlanInv'
  <2>1. Filtering'
    BY <1>1, <1>2, <1>6, <1>8 DEF Filtering, Filters
  <2> QED BY <1>1, <1>2, <2>1 DEF PlanInv
<1>10. InOrder' /\ FilterComplete'
  <2>1. todo' # << >>
    BY <1>8
  <2> QED BY <1>0, <1>1, <1>6, <2>1 DEF InOrder, FilterComplete
<1> QED BY <1>5, <1>6, <1>7, <1>9, <1>10 DEF IInv

LEMMA SendInv ==
  ASSUME IInv, Send
  PROVE  IInv'
<1>0. TypeInv /\ StreamInv /\ PlanInv /\ EndsInv /\ FilterInv /\ InOrder /\ FilterComplete
  BY DEF IInv
<1>1. Step("send") /\ UNCHANGED <<ends, in, first, how, second, sig, raw, st, got>>
  BY DEF Send
<1>2. PICK n \in FilterSizes :
        /\ todo = <<<<"send", "f", n>>>> /\ S = "f" /\ N = n /\ Tail(todo) = << >>
        /\ how.setup = "filter" /\ st["f"].open /\ call.op = "filter" /\ st["f"].mode = "write" /\ chunk # Done
  BY <1>0, <1>1, AtSend
<1>3. /\ call \in CallType /\ chunk \in Bytes /\ raw \in Bytes /\ sent \in Nat /\ Most \in Nat
      /\ out \in Bytes /\ first.took \in Bytes /\ sent <= Most
      /\ chunk \o raw = [i \in 1 .. Most - sent |-> sent + i]
  BY <1>0, <1>2, Contents, SizesAssumption DEF TypeInv, CallType, FilterInv
<1>4. CASE /\ chunk # << >> /\ Room(st["f"]) /\ out' = Append(out, Head(chunk)) /\ chunk' = Tail(chunk)
           /\ sent' = sent + 1 /\ UNCHANGED <<todo, call>>
  <2> DEFINE x == sent + 1
  <2>1. /\ Head(chunk) = x /\ chunk' \in Bytes /\ x <= Most /\ x \in Nat
        /\ chunk' \o raw = [i \in 1 .. Most - x |-> x + i]
    BY <1>3, <1>4, NextSent
  <2>2. out' = Append(out, x) /\ sent' = x
    BY <1>4, <2>1
  <2>3. Append(Upto(sent), x) = Upto(x)
    BY <1>3, Numbered
  <2> HIDE DEF x
  <2>4. Append(out, x) \in Bytes /\ Append(first.took \o out, x) = first.took \o Append(out, x)
    BY <1>3, <2>1, Extend
  <2>5. TypeInv'
    BY <1>0, <1>1, <1>4, <2>1, <2>2, <2>4 DEF TypeInv, Names, Streams
  <2>6. StreamInv'
    BY <1>0, <1>1 DEF StreamInv, Names, Fits
  <2>7. chunk' # Done
    BY <2>1, DoneIsNoData
  <2>8. PlanInv'
    <3>1. Filtering'
      BY <1>1, <1>2, <1>4, <2>7 DEF Filtering, Filters
    <3> QED BY <1>2, <1>4, <3>1 DEF PlanInv
  <2>9. EndsInv'
    BY <1>0, <1>1, <1>2, <2>7 DEF EndsInv, Names
  <2>10. FilterInv'
    <3>1. first.at # "gone"
      BY <1>0, <1>4, Present DEF Room
    <3>2. Copies' = Copies
      BY <1>1 DEF Copies
    <3> QED BY <1>0, <1>1, <2>1, <2>2, <2>7, <3>1, <3>2 DEF FilterInv
  <2>11. InOrder'
    <3>1. Unwritten = << >> /\ Unwritten' = << >> /\ Unread' = Unread
      BY <1>0, <1>1, <1>2, <2>6, NothingHeld DEF Unread, Reader, Unwritten, Writer
    <3>2. first.took \o out \in Bytes /\ first.took \o Append(out, x) \in Bytes
      BY <1>3, <2>4, Concat
    <3>3. first.took \o out = Upto(sent)
      <4>1. (first.took \o out) \o << >> = Upto(sent)
        BY <1>0, <3>1 DEF InOrder
      <4> QED BY <3>2, <4>1, Concat
    <3>4. (first.took \o Append(out, x)) \o << >> = Upto(x)
      <4>1. first.took \o Append(out, x) = Upto(x)
        BY <2>3, <2>4, <3>3
      <4> QED BY <3>2, <4>1, Concat
    <3>5. (first'.took \o out') \o Unwritten' = Upto(sent')
      BY <1>1, <2>2, <3>1, <3>4
    <3> QED BY <1>0, <1>1, <3>1, <3>5 DEF InOrder
  <2>12. FilterComplete'
    BY <1>2, <1>4 DEF FilterComplete
  <2> QED BY <2>5, <2>6, <2>8, <2>9, <2>10, <2>11, <2>12 DEF IInv
<1>5. CASE chunk # << >> /\ Broken(st["f"]) /\ Return(0) /\ UNCHANGED <<out, chunk, sent>>
  <2>1. call' \in CallType /\ PlanInv'
    BY <1>0, <1>5, Returns
  <2>2. first.at = "gone"
    <3>1. st["f"].file = "out"
      BY <1>0, <1>2 DEF StreamInv, Names
    <3> QED BY <1>0, <1>5, <3>1 DEF Broken, EndsInv
  <2>3. how.kind \notin {"each", "all"}
    BY <1>0, <1>2, <2>2 DEF FilterInv, Copies
  <2>4. FilterComplete'
    BY <1>1, <2>3 DEF FilterComplete
  <2> QED BY <1>1, <1>5, <2>1, <2>4, StepStays
<1>6. CASE chunk = << >> /\ Then(<<<<"await", "f", n>>>>) /\ UNCHANGED <<out, chunk, sent, call>>
  <2>1. todo' = <<<<"await", "f", n>>>>
    BY <1>2, <1>6 DEF Then
  <2>2. Filtering'
    BY <1>1, <1>2, <1>6, <2>1 DEF Filtering, Filters
  <2>3. PlanInv' /\ FilterComplete'
    BY <1>2, <1>6, <2>1, <2>2 DEF PlanInv, FilterComplete
  <2> QED BY <1>1, <1>3, <1>6, <2>3, StepStays
<1> QED BY <1>2, <1>4, <1>5, <1>6 DEF Send

LEMMA AwaitInv ==
  ASSUME IInv, Await
  PROVE  IInv'
<1>0. TypeInv /\ StreamInv /\ PlanInv /\ EndsInv /\ FilterInv /\ InOrder /\ FilterComplete
  BY DEF IInv
<1>1. Step("await") /\ UNCHANGED <<ends, out, in, first, how, second, sig, raw, chunk, sent, got, call>>
  BY DEF Await, Pipes, Rest
<1>2. PICK n \in FilterSizes :
        /\ todo = <<<<"await", "f", n>>>> /\ S = "f" /\ N = n /\ Tail(todo) = << >>
        /\ how.setup = "filter" /\ st["f"].open /\ call.op = "filter"
  BY <1>0, <1>1, AtAwait
<1>3. call \in CallType /\ out \in Bytes /\ in \in Bytes /\ got \in Bytes /\ sent \in Nat
  BY <1>0 DEF TypeInv, CallType
<1>4. CASE /\ in # << >> \/ (chunk = Done /\ ends["inW"] = {})
           /\ st' = [st EXCEPT !["f"] = Turned(@, "read")] /\ Then(<<<<"pull", "f", n>>>>)
  <2>1. st["f"].data = << >> /\ "read" \in Modes
    BY <1>0, <1>2 DEF StreamInv, Names, Modes
  <2>2. /\ st' \in [Names -> Streams] /\ StreamInv' /\ st'["f"].mode = "read" /\ st'["f"].open = st["f"].open
        /\ Unwritten' = Unwritten /\ Unread' = Unread /\ Names = {"f"}
    BY <1>0, <1>1, <1>2, <1>4, <2>1, Turning1
  <2>3. TypeInv'
    BY <1>0, <1>1, <1>3, <2>2, TypesStay
  <2>4. todo' = <<<<"pull", "f", n>>>>
    BY <1>2, <1>4 DEF Then
  <2>5. PlanInv'
    <3>1. Filtering'
      BY <1>1, <1>2, <1>4, <2>2, <2>4 DEF Filtering, Filters
    <3> QED BY <1>1, <1>2, <3>1 DEF PlanInv
  <2>6. EndsInv' /\ FilterInv'
    BY <1>0, <1>1, <2>2, EndsStay, FilterStays
  <2>7. InOrder' /\ FilterComplete'
    BY <1>0, <1>1, <2>2, <2>4 DEF InOrder, FilterComplete
  <2> QED BY <2>2, <2>3, <2>5, <2>6, <2>7 DEF IInv
<1>5. CASE Then(<<<<"refill", "f", n>>>>) /\ UNCHANGED st
  <2>1. todo' = <<<<"refill", "f", n>>>>
    BY <1>2, <1>5 DEF Then
  <2>2. Filtering'
    BY <1>1, <1>2, <1>5, <2>1 DEF Filtering, Filters
  <2>3. PlanInv' /\ FilterComplete'
    BY <1>1, <1>2, <2>1, <2>2 DEF PlanInv, FilterComplete
  <2> QED BY <1>1, <1>3, <1>5, <2>3, StepStays
<1> QED BY <1>2, <1>4, <1>5 DEF Await

LEMMA PullInv ==
  ASSUME IInv, Pull
  PROVE  IInv'
<1>0. TypeInv /\ StreamInv /\ PlanInv /\ EndsInv /\ FilterInv /\ InOrder /\ FilterComplete
  BY DEF IInv
<1> DEFINE b == Arrived(N)
           rest == SubSeq(in, Len(b) + 1, Len(in))
<1>1. /\ Step("pull") /\ UNCHANGED <<ends, out, first, how, second, sig, raw, chunk, st, sent>>
      /\ got' = got \o b /\ in' = rest /\ Return(Len(b))
  BY DEF Pull, Rest
<1>2. PICK n \in FilterSizes :
        /\ todo = <<<<"pull", "f", n>>>> /\ S = "f" /\ N = n /\ Tail(todo) = << >>
        /\ how.setup = "filter" /\ st["f"].open /\ call.op = "filter" /\ st["f"].mode = "read"
        /\ in # << >> \/ (chunk = Done /\ ends["inW"] = {})
  BY <1>0, <1>1, AtPull
<1>3. N \in Nat /\ N > 0 /\ in \in Bytes /\ got \in Bytes /\ out \in Bytes /\ sent \in Nat
  BY <1>0, <1>2, SizesAssumption DEF TypeInv
<1>4. /\ b \in Bytes /\ rest \in Bytes /\ b \o rest = in /\ Len(b) \in Nat /\ (in # << >> => Len(b) > 0)
      /\ in = << >> => b = << >>
  BY <1>3, Arrives
<1> HIDE DEF b, rest
<1>5. call' \in CallType /\ call'.op = call.op /\ call'.ret = Len(b) /\ PlanInv'
  BY <1>0, <1>1, <1>4, Returns
<1>6. got' \in Bytes
  BY <1>1, <1>3, <1>4, Concat
<1>7. TypeInv'
  BY <1>0, <1>1, <1>3, <1>4, <1>5, <1>6, TypesStay DEF TypeInv
<1>8. StreamInv'
  BY <1>0, <1>1 DEF StreamInv, Names, Fits
<1>9. EndsInv' /\ FilterInv'
  BY <1>0, <1>1, EndsStay, FilterStays
<1>10. Unwritten = << >> /\ Unread = << >> /\ Unwritten' = << >> /\ Unread' = << >>
  <2>1. Unwritten = << >> /\ Unread = << >>
    BY <1>0, <1>2, NothingHeld
  <2>2. Unwritten' = Unwritten /\ Unread' = Unread
    BY <1>1 DEF Unwritten, Writer, Unread, Reader
  <2> QED BY <2>1, <2>2
<1>11. got \o << >> = got /\ got' \o << >> = got'
  BY <1>3, <1>6, Concat
<1>12. InOrder'
  <2>1. (got \o b) \o rest = got \o (b \o rest)
    BY <1>3, <1>4, Regroup
  <2> QED BY <1>0, <1>1, <1>4, <1>10, <1>11, <2>1 DEF InOrder
<1>13. FilterComplete'
  <2> SUFFICES ASSUME how.kind \in {"each", "all"}, Len(b) = 0
               PROVE  got' = Answer(how.kind, Upto(Most))
    BY <1>1, <1>5 DEF FilterComplete
  <2>1. in = << >> /\ chunk = Done /\ first.at = "gone"
    BY <1>0, <1>2, <1>4 DEF EndsInv
  <2>2. first.held = << >> /\ out = << >> /\ sent = Most /\ first.gave \o first.held = first.took
    BY <1>0, <1>2, <2>1 DEF FilterInv, Copies
  <2>3. first.took \in Bytes /\ first.gave \in Bytes
    BY <1>0, Contents
  <2>4. first.took = Upto(Most)
    <3>1. first.took \o << >> = first.took
      BY <2>3, Concat
    <3> QED BY <1>0, <1>10, <2>2, <3>1 DEF InOrder
  <2>5. first.gave = first.took
    BY <2>2, <2>3, Concat
  <2>6. first.gave = got
    BY <1>0, <1>10, <1>11, <2>1 DEF InOrder
  <2>7. got' = got
    BY <1>1, <1>4, <1>11, <2>1
  <2>8. Answer(how.kind, Upto(Most)) = Upto(Most)
    BY DEF Answer
  <2> QED BY <2>4, <2>5, <2>6, <2>7, <2>8
<1> QED BY <1>5, <1>7, <1>8, <1>9, <1>12, <1>13 DEF IInv

LEMMA StepsInv ==
  ASSUME IInv, Steps
  PROVE  IInv'
BY ModeInv, TryInv, FlushInv, PutInv, DirectInv, GetInv, WrSyncInv, ReadInInv, PollInv, ShutInv, WaitInv,
   RefillInv, SendInv, AwaitInv, PullInv DEF Steps

----------------------------------------------------------------------------
(* The invariant is inductive.                                             *)

LEMMA IInvInit ==
  ASSUME Init
  PROVE  IInv
<1>1. /\ how \in Setups /\ ends = Forked /\ out = << >> /\ in = << >> /\ sent = 0 /\ got = << >> /\ chunk = << >>
      /\ first = [at |-> "forked", took |-> << >>, held |-> << >>, gave |-> << >>]
      /\ second = [at |-> "none", open |-> FALSE] /\ todo = << >>
      /\ call = [op |-> "none", s |-> "f", n |-> 0, ret |-> 0, err |-> FALSE, ready |-> {}]
      /\ raw = IF how.setup = "filter" THEN Upto(Most) ELSE << >>
  BY DEF Init
<1>2. how.size \in Nat /\ how.setup \in {"rw", "pair", "filter"} /\ how.own \in BOOLEAN /\ Most \in Nat
  BY <1>1, SetupsAssumption, SizesAssumption
<1>3. << >> \in Bytes /\ Len(<< >>) = 0 /\ << >> \o << >> = << >>
  BY Concat DEF Bytes
<1>4. \A n \in Names :
        /\ st[n].mode = (IF how.setup = "pair" /\ n = "w" THEN "write" ELSE "read")
        /\ st[n].flags = (IF how.setup = "pair" THEN {st[n].mode} ELSE {"read", "write"})
        /\ st[n].data = << >> /\ st[n].saved = << >> /\ st[n].size = how.size /\ st[n].open
        /\ st[n].file = (IF st[n].mode = "read" THEN "in" ELSE "out")
        /\ st[n].aux = (IF how.setup = "pair" THEN NoPipe ELSE IF st[n].mode = "read" THEN "out" ELSE "in")
  BY <1>2 DEF Init, Names, New, OneWay
<1>5. st \in [Names -> Streams]
  <2>1. CASE how.setup = "pair"
    <3>1. OneWay("write", how.size) \in Streams /\ OneWay("read", how.size) \in Streams
      BY <1>2, <1>3 DEF OneWay, New, Streams, Modes
    <3> QED BY <2>1, <3>1 DEF Init, Names
  <2>2. CASE how.setup # "pair"
    <3>1. New(how.size) \in Streams
      BY <1>2, <1>3 DEF New, Streams, Modes
    <3> QED BY <2>2, <3>1 DEF Init, Names
  <2> QED BY <2>1, <2>2
<1>6. Upto(Most) \in Bytes /\ Upto(0) = << >>
  <2>1. Upto(0) = << >>
    <3>1. Upto(0) \in Bytes /\ Len(Upto(0)) = 0
      BY Numbered
    <3> QED BY <3>1, Concat
  <2> QED BY <1>2, <2>1, Numbered
<1>7. TypeInv
  <2>1. ends \in [Ends -> SUBSET Actors]
    BY <1>1 DEF Forked, Ends, Actors
  <2>2. sig \in [handler : {"own", "ignored", "default"}, open : Nat]
    BY <1>2 DEF Init, Guarded
  <2>3. call \in CallType
    BY <1>1 DEF CallType
  <2> QED BY <1>1, <1>2, <1>3, <1>5, <1>6, <2>1, <2>2, <2>3 DEF TypeInv, CallType
<1>8. StreamInv
  <2> SUFFICES ASSUME NEW n \in Names
               PROVE  /\ st[n].file = IF st[n].mode = "read" THEN "in" ELSE "out"
                      /\ st[n].aux = IF how.setup = "pair" THEN NoPipe ELSE IF st[n].mode = "read" THEN "out" ELSE "in"
                      /\ how.setup = "pair" => st[n].mode = (IF n = "w" THEN "write" ELSE "read")
                                               /\ st[n].flags = {st[n].mode}
                      /\ st[n].mode = "read" => st[n].saved = << >> /\ Fits(st[n].data)
                      /\ st[n].mode = "write" => Len(st[n].data) <= st[n].size /\ Fits(st[n].saved)
                      /\ st[n].mode = "write" /\ how.setup = "pair" => st[n].saved = << >>
                      /\ how.setup = "filter" => st[n].data = << >> /\ st[n].saved = << >>
    BY DEF StreamInv
  <2>1. Fits(<< >>) /\ Len(<< >>) <= how.size
    BY <1>2, <1>3 DEF Fits
  <2> QED BY <1>4, <2>1
<1>9. PlanInv /\ FilterComplete
  BY <1>1 DEF PlanInv, FilterComplete
<1>10. EndsInv
  <2>1. /\ ends["outR"] = {"first"} /\ ends["outW"] = {"app", "first"}
        /\ ends["inR"] = {"app", "first"} /\ ends["inW"] = {"first"}
        /\ first.at = "forked" /\ second.at = "none" /\ ~ second.open /\ chunk # Done
        /\ chunk # << >> \/ raw # << >> => how.setup = "filter"
    BY <1>1, <1>3, DoneIsNoData DEF Forked
  <2>2. CASE how.setup = "pair"
    <3>1. st["w"].open /\ st["r"].open
      BY <1>4, <2>2 DEF Names
    <3> QED BY <2>1, <2>2, <3>1 DEF EndsInv, Ends
  <2>3. CASE how.setup # "pair"
    <3>1. st["f"].open
      BY <1>4, <2>3 DEF Names
    <3> QED BY <2>1, <2>3, <3>1 DEF EndsInv, Ends
  <2> QED BY <2>2, <2>3
<1>11. FilterInv
  <2>1. how.setup = "filter" => chunk \o raw = [i \in 1 .. Most - sent |-> sent + i]
    <3> SUFFICES ASSUME how.setup = "filter" PROVE << >> \o Upto(Most) = [i \in 1 .. Most - 0 |-> 0 + i]
      BY <1>1
    <3>1. << >> \o Upto(Most) = Upto(Most)
      BY <1>6, Concat
    <3>2. [i \in 1 .. Most - 0 |-> 0 + i] = Upto(Most)
      BY <1>2 DEF Upto
    <3> QED BY <3>1, <3>2
  <2> QED BY <1>1, <1>2, <1>3, <2>1, DoneIsNoData DEF FilterInv, Copies
<1>12. InOrder
  <2>1. Unwritten = << >> /\ Unread = << >>
    <3>1. Writer.data = << >> /\ Reader.data = << >> /\ Reader.saved = << >>
      BY <1>4 DEF Writer, Reader, Names
    <3> QED BY <1>3, <3>1 DEF Unwritten, Unread
  <2> QED BY <1>1, <1>3, <1>6, <2>1 DEF InOrder
<1> QED BY <1>7, <1>8, <1>9, <1>10, <1>11, <1>12 DEF IInv

\* The invariant holds after every step.
THEOREM Inductive ==
  ASSUME IInv, [Next]_vars
  PROVE  IInv'
<1>1. CASE Calls
  BY <1>1, CallsInv
<1>2. CASE Steps
  BY <1>2, StepsInv
<1>3. CASE First
  BY <1>3, FirstInv
<1>4. CASE Second(TRUE)
  BY <1>4, SecondInv
<1>5. CASE UNCHANGED vars
  <2>1. TypeInv' /\ StreamInv' /\ EndsInv' /\ FilterInv'
    BY <1>5 DEF vars, IInv, TypeInv, StreamInv, EndsInv, FilterInv, Names, Streams, Fits, Copies
  <2>2. PlanInv'
    BY <1>5, PlanStays DEF vars, IInv
  <2>3. InOrder' /\ FilterComplete'
    BY <1>5 DEF vars, IInv, InOrder, FilterComplete, Unwritten, Unread, Writer, Reader
  <2> QED BY <2>1, <2>2, <2>3 DEF IInv
<1> QED BY <1>1, <1>2, <1>3, <1>4, <1>5 DEF Next

\* The invariant holds in every state: types, the shape of a call's steps, who
\* holds which end of a pipe, the order of the bytes and the filter's rest.
THEOREM IInvAlways == Spec => []IInv
<1>1. Init => IInv
  BY IInvInit
<1>2. IInv /\ [Next]_vars => IInv'
  BY Inductive
<1> QED BY <1>1, <1>2, PTL DEF Spec

\* Every byte written is on its way, once and in order, and so is every byte
\* of the answer, whatever the setup, the process and the sizes
\* (sfmode.c:463-478, 521-549).
THEOREM InOrderAlways == Spec => []InOrder
<1>1. IInv => InOrder
  BY DEF IInv
<1> QED BY <1>1, IInvAlways, PTL

\* A filter that copies has given its whole answer when a read of it returns
\* the end of the file (sfdcfilter.c:32-76).
THEOREM FilterCompleteAlways == Spec => []FilterComplete
<1>1. IInv => FilterComplete
  BY DEF IInv
<1> QED BY <1>1, IInvAlways, PTL

----------------------------------------------------------------------------
(* sfpoll.                                                                 *)

\* What sfpoll says of a stream is what there is in its buffers and the
\* pipes, in every mode (sfpoll.c:30-37).
THEOREM PollRightAlways == Spec => PollRight
<1> DEFINE Right ==
      /\ ("read" \in call'.ready) <=> ("read" \in Reader.flags /\ Unread \o in # << >>)
      /\ ("write" \in call'.ready) <=>
            ("write" \in Writer.flags /\ (Unwritten = << >> \/ Len(out) < PipeSize))
<1>1. ASSUME IInv, Poll PROVE Right
  <2>0. TypeInv /\ StreamInv /\ PlanInv
    BY <1>1 DEF IInv
  <2>1. how.setup = "rw" /\ S = "f" /\ st["f"] \in Streams /\ in \in Bytes
    BY <1>1, <2>0, AtPoll DEF Poll, TypeInv, Names
  <2>2. call'.ready = Status(st["f"])
    BY <1>1, <2>0, <2>1 DEF Poll, TypeInv
  <2>3. Reader = st["f"] /\ Writer = st["f"]
    BY <2>1 DEF Reader, Writer
  <2> DEFINE s == st["f"]
  <2>4. /\ s.mode \in Modes /\ s.data \in Bytes /\ s.saved \in Bytes /\ s.flags \in SUBSET Modes
        /\ s.mode = "read" => s.saved = << >>
    BY <2>0, <2>1 DEF Streams, StreamInv, Names
  <2>5. Unread # << >> <=> RdReady(s)
    <3>1. CASE s.mode = "read"
      <4>1. Unread = << >> \o s.data
        BY <2>3, <2>4, <3>1 DEF Unread
      <4> QED BY <2>4, <3>1, <4>1, Concat DEF RdReady
    <3>2. CASE s.mode = "write"
      <4>1. Unread = s.saved \o << >>
        BY <2>3, <3>2 DEF Unread
      <4> QED BY <2>4, <3>2, <4>1, Concat DEF RdReady
    <3> QED BY <2>4, <3>1, <3>2 DEF Modes
  <2>6. Unread \o in # << >> <=> RdReady(s) \/ in # << >>
    <3>1. Unread \in Bytes
      BY <2>0, Contents
    <3>2. Unread \o in = << >> <=> Unread = << >> /\ in = << >>
      BY <2>1, <3>1, Concat
    <3> QED BY <2>5, <3>2
  <2>7. Unwritten = << >> <=> WrReady(s)
    BY <2>3, <2>4 DEF Unwritten, WrReady
  <2>8. "read" \in Status(s) <=> ("read" \in s.flags /\ (RdReady(s) \/ in # << >>))
    BY DEF Status
  <2>9. "write" \in Status(s) <=> ("write" \in s.flags /\ (WrReady(s) \/ Len(out) < PipeSize))
    BY DEF Status, Free
  <2> QED BY <2>2, <2>3, <2>6, <2>7, <2>8, <2>9
<1>2. ASSUME IInv, [Next]_vars, Step("poll"), todo' = << >> PROVE Poll
  <2>1. todo # << >> /\ Head(todo)[1] = "poll"
    BY <1>2 DEF Step
  <2>2. CASE Calls
    BY <2>1, <2>2 DEF Calls, SfWrite, SfRead, SfSet, SfPoll, SfClose, FilterRead, Begin, Idle, OpenSecond,
       WriteSecond, CloseSecond
  <2>3. CASE Steps
    BY <2>1, <2>3 DEF Steps, Step, Mode, Try, Flush, Put, Direct, Get, WrSync, ReadIn, Shut, Wait, Refill, Send,
       Await, Pull
  <2>4. CASE First \/ Second(TRUE) \/ UNCHANGED vars
    BY <1>2, <2>1, <2>4 DEF First, Second, vars
  <2> QED BY <1>2, <2>2, <2>3, <2>4 DEF Next
<1>3. IInv /\ [Next]_vars => [Step("poll") /\ todo' = << >> => Right]_vars
  BY <1>1, <1>2
<1> QED BY <1>3, IInvAlways, PTL DEF Spec, PollRight

----------------------------------------------------------------------------
(* The SIGPIPE handler.  The streams of a pair are not opened by sfpopen    *)
(* and leave it alone (sfmode.c:211): their process has to read its input   *)
(* to the end.                                                              *)

\* No stream waits for its process.
Quiet == \A x \in {"f", "g"} : todo # <<<<"wait", x, 0>>>>

LEMMA SigStays ==
  ASSUME SigInv, UNCHANGED <<how, sig>>, second'.open = second.open, \A n \in Names : st'[n].open = st[n].open,
         Quiet, Quiet', call'.op # "killed"
  PROVE  SigInv'
BY DEF SigInv, Quiet, Ours, Names

\* The steps of the processes and the calls.
LEMMA ProcessesLeaveSig ==
  ASSUME IInv, SigInv, First \/ Second(TRUE)
  PROVE  SigInv'
<1>1. UNCHANGED <<how, sig, st, todo, call>> /\ second'.open = second.open
  BY DEF First, Second, SecondStart, SecondExit, IInv, TypeInv
<1> QED BY <1>1 DEF SigInv

LEMMA CallsLeaveSig ==
  ASSUME IInv, SigInv, Calls
  PROVE  SigInv'
<1>0. TypeInv /\ EndsInv
  BY DEF IInv
<1>1. ASSUME NEW op \in {"write", "read", "set", "poll", "close", "filter"}, NEW s \in {"f", "g", "w", "r"}, NEW steps,
             Begin(op, s, steps), UNCHANGED <<sig, second>>, \A n \in Names : st'[n].open = st[n].open,
             \A x \in {"f", "g"} : steps # <<<<"wait", x, 0>>>>
      PROVE  SigInv'
  <2>1. UNCHANGED how /\ Quiet /\ Quiet' /\ call'.op # "killed"
    BY <1>1 DEF Begin, Idle, Quiet
  <2> QED BY <1>1, <2>1, SigStays
<1>2. ASSUME NEW s \in Names, NEW n \in Sizes, SfWrite(s, n) PROVE SigInv'
  <2>1. /\ Begin("write", s, <<<<"mode", s, "write">>, <<"put", s, n>>>>) /\ UNCHANGED <<st, second, sig>>
        /\ s \in {"f", "g", "w", "r"}
    BY <1>2 DEF SfWrite, Names
  <2>2. \A x \in {"f", "g"} : <<<<"mode", s, "write">>, <<"put", s, n>>>> # <<<<"wait", x, 0>>>>
    OBVIOUS
  <2> QED BY <1>1, <2>1, <2>2
<1>3. ASSUME NEW s \in Names, NEW n \in Sizes, SfRead(s, n) PROVE SigInv'
  <2>1. /\ Begin("read", s, <<<<"mode", s, "read">>, <<"get", s, n>>>>) /\ UNCHANGED <<st, second, sig>>
        /\ s \in {"f", "g", "w", "r"}
    BY <1>3 DEF SfRead, Names
  <2>2. \A x \in {"f", "g"} : <<<<"mode", s, "read">>, <<"get", s, n>>>> # <<<<"wait", x, 0>>>>
    OBVIOUS
  <2> QED BY <1>1, <2>1, <2>2
<1>4. ASSUME NEW s \in Names, NEW m \in {"read", "write"}, NEW on \in BOOLEAN, SfSet(s, m, on) PROVE SigInv'
  <2> DEFINE mode == IF on THEN m ELSE Other(m)
  <2>1. /\ Begin("set", s, <<<<"try", s, mode>>>>) /\ UNCHANGED <<second, sig>>
        /\ s \in {"f", "g", "w", "r"} /\ \A n \in Names : st'[n].open = st[n].open
    BY <1>0, <1>4 DEF SfSet, Names, TypeInv, Streams
  <2>2. \A x \in {"f", "g"} : <<<<"try", s, mode>>>> # <<<<"wait", x, 0>>>>
    OBVIOUS
  <2> QED BY <1>1, <2>1, <2>2
<1>5. ASSUME NEW s \in Names, NEW tm \in {0, -1}, SfPoll(s, tm) PROVE SigInv'
  <2>1. /\ Begin("poll", s, <<<<"poll", s, tm>>>>) /\ UNCHANGED <<st, second, sig>>
        /\ s \in {"f", "g", "w", "r"}
    BY <1>5 DEF SfPoll, Names
  <2>2. \A x \in {"f", "g"} : <<<<"poll", s, tm>>>> # <<<<"wait", x, 0>>>>
    OBVIOUS
  <2> QED BY <1>1, <2>1, <2>2
<1>6. ASSUME NEW s \in Names, SfClose(s) PROVE SigInv'
  <2> DEFINE steps == (IF st[s].mode = "write" THEN <<<<"flush", s, 0>>>> ELSE << >>) \o <<<<"shut", s, 0>>>>
  <2>1. Begin("close", s, steps) /\ UNCHANGED <<st, second, sig>> /\ s \in {"f", "g", "w", "r"}
    BY <1>6 DEF SfClose, Names
  <2>2. \A x \in {"f", "g"} : steps # <<<<"wait", x, 0>>>>
    <3>1. CASE st[s].mode = "write"
      <4>1. steps = <<<<"flush", s, 0>>>> \o <<<<"shut", s, 0>>>>
        BY <3>1
      <4> HIDE DEF steps
      <4> QED BY <4>1
    <3>2. CASE st[s].mode # "write"
      <4>1. steps = << >> \o <<<<"shut", s, 0>>>>
        BY <3>2
      <4> HIDE DEF steps
      <4> QED BY <4>1
    <3> QED BY <3>1, <3>2
  <2> HIDE DEF steps
  <2> QED BY <1>1, <2>1, <2>2
<1>7. ASSUME NEW n \in FilterSizes, FilterRead(n) PROVE SigInv'
  <2>1. Begin("filter", "f", <<<<"refill", "f", n>>>>) /\ UNCHANGED <<st, second, sig>>
    BY <1>7 DEF FilterRead
  <2>2. \A x \in {"f", "g"} : <<<<"refill", "f", n>>>> # <<<<"wait", x, 0>>>>
    OBVIOUS
  <2> QED BY <1>1, <2>1, <2>2
<1>8. CASE OpenSecond
  <2>1. /\ how.setup = "rw" /\ ~ second.open /\ second'.open /\ todo = << >> /\ todo' = << >> /\ sig' = Guarded(sig)
        /\ how' = how /\ st' = st /\ call'.op = "open"
    BY <1>0, <1>8 DEF OpenSecond, Idle, EndsInv, TypeInv
  <2>2. sig.open \in Nat /\ sig'.open = sig.open + 1
        /\ sig'.handler = IF sig.handler = "default" THEN "ignored" ELSE sig.handler
    BY <1>0, <2>1 DEF Guarded, TypeInv
  <2> QED BY <2>1, <2>2 DEF SigInv, Ours
<1>9. CASE WriteSecond
  <2>1. second.open /\ todo = << >> /\ UNCHANGED <<how, st, second, sig, todo>>
    BY <1>9 DEF WriteSecond, Idle, Rest
  <2>2. how.setup = "rw"
    BY <1>0, <2>1 DEF EndsInv
  <2>3. sig.handler # "default"
    BY <2>1, <2>2 DEF SigInv, Ours
  <2>4. call'.op = "write"
    BY <1>0, <1>9, <2>3 DEF WriteSecond, TypeInv
  <2> QED BY <2>1, <2>4 DEF SigInv
<1>10. CASE CloseSecond
  <2>1. /\ second.open /\ ~ second'.open /\ todo = << >> /\ todo' = <<<<"wait", "g", 0>>>>
        /\ UNCHANGED <<how, st, sig>> /\ call'.op = "close"
    BY <1>0, <1>10 DEF CloseSecond, Begin, Idle, TypeInv
  <2>2. <<<<"wait", "g", 0>>>> # <<<<"wait", "f", 0>>>>
    OBVIOUS
  <2> QED BY <2>1, <2>2 DEF SigInv, Ours
<1> QED BY <1>2, <1>3, <1>4, <1>5, <1>6, <1>7, <1>8, <1>9, <1>10 DEF Calls

\* A write to a process that is gone finds the signal ignored.
LEMMA NoneKilled ==
  ASSUME IInv, SigInv, Paired, NEW s \in Names, st[s].open, st[s].mode = "write", Broken(st[s])
  PROVE  ~ Killed(st[s])
<1>0. TypeInv /\ StreamInv /\ EndsInv /\ FilterInv
  BY DEF IInv
<1>1. CASE how.setup = "pair"
  <2>1. s = "w"
    BY <1>0, <1>1, OneMode
  <2>2. Copies
    BY <1>0, <1>1 DEF Paired, TypeInv, Copies
  <2>3. st[s].file = "out"
    BY <1>0 DEF StreamInv
  <2>4. first.at = "gone"
    BY <1>0, <2>3 DEF Broken, EndsInv
  <2> QED BY <1>0, <1>1, <2>1, <2>2, <2>4 DEF FilterInv
<1>2. CASE how.setup # "pair"
  <2>1. s = "f"
    BY <1>0, <1>2, OneMode
  <2>2. sig.open # 0
    BY <1>2, <2>1 DEF SigInv, Ours
  <2> QED BY <2>2 DEF SigInv, Killed
<1> QED BY <1>1, <1>2

\* A flush is never the last step before a wait.
LEMMA AfterFlush ==
  ASSUME PlanInv, Step("flush"), Then(<< >>)
  PROVE  Quiet'
<1>1. Writing \/ Reading \/ Turning \/ Closing \/ Filtering
  BY DEF PlanInv, Step
<1>2. CASE Writing
  <2>1. PICK s \in Names \ {"r"}, n \in Nat : st[s].open /\ Writes(s, n)
    BY <1>2 DEF Writing
  <2>2. todo = <<<<"flush", s, 0>>, <<"put", s, n>>>>
    BY <2>1 DEF Writes, Step
  <2> QED BY <2>2 DEF Then, Quiet
<1>3. CASE Reading
  <2>1. PICK s \in Names \ {"w"}, n \in Nat : st[s].open /\ Reads(s, n)
    BY <1>3 DEF Reading
  <2>2. CASE todo = <<<<"flush", s, 0>>, <<"mode", s, "read">>, <<"get", s, n>>>>
    BY <2>2 DEF Then, Quiet
  <2>3. CASE \E x \in Inputs(s, n) : todo = <<<<"flush", "w", 0>>, x, <<"get", s, n>>>>
    BY <2>3 DEF Then, Quiet
  <2> QED BY <2>1, <2>2, <2>3 DEF Reads, Inputs, Step
<1>4. CASE Turning
  <2>1. PICK m \in {"read", "write"}, tm \in {0, -1} : Turns(m, tm)
    BY <1>4 DEF Turning
  <2>2. todo = <<<<"flush", "f", 0>>, <<"try", "f", "read">>>>
    BY <2>1 DEF Turns, Step
  <2> QED BY <2>2 DEF Then, Quiet
<1>5. CASE Closing
  <2>1. PICK s \in Names : Closes(s)
    BY <1>5 DEF Closing, Waits, Step
  <2>2. todo = <<<<"flush", s, 0>>, <<"shut", s, 0>>>>
    BY <2>1 DEF Closes, Step
  <2> QED BY <2>2 DEF Then, Quiet
<1>6. CASE Filtering
  <2>1. PICK n \in FilterSizes : Filters(n)
    BY <1>6 DEF Filtering
  <2> QED BY <2>1 DEF Filters, Step
<1> QED BY <1>1, <1>2, <1>3, <1>4, <1>5, <1>6

\* Turning a stream around leaves it open or closed.
LEMMA TurnedOpen ==
  ASSUME NEW s \in Streams
  PROVE  Restored(s).open = s.open /\ Saved(s).open = s.open
BY DEF Restored, Saved, Swapped, Streams

\* Steps put before the end of a plan do not wait for a process.
LEMMA QuietOne ==
  ASSUME NEW a, a[1] # "wait", Tail(todo) = << >>, Then(<<a>>)
  PROVE  Quiet'
<1>1. Head(<<a>> \o << >>) = a
  OBVIOUS
<1>2. Head(todo') = a
  BY <1>1 DEF Then
<1> SUFFICES ASSUME NEW x, todo' = <<<<"wait", x, 0>>>>
             PROVE  FALSE
  BY DEF Quiet
<1> DEFINE y == <<"wait", x, 0>>
<1>3. todo' = <<y>> /\ y[1] = "wait"
  OBVIOUS
<1> HIDE DEF y
<1>4. Head(<<y>>) = y
  OBVIOUS
<1> QED BY <1>2, <1>3, <1>4

LEMMA QuietTwo ==
  ASSUME NEW a, NEW b, a[1] # "wait", Tail(todo) = << >>, Then(<<a, b>>)
  PROVE  Quiet'
<1>1. Head(<<a, b>> \o << >>) = a
  OBVIOUS
<1> QED BY <1>1 DEF Then, Quiet

LEMMA QuietMore ==
  ASSUME NEW a, NEW b, NEW c, NEW d, Tail(todo) = <<c>> \/ Tail(todo) = <<d>>, Then(<<a, b>>)
  PROVE  Quiet'
<1>1. \A x, y : <<a, b>> \o <<x>> # <<y>>
  <2> SUFFICES ASSUME NEW x, NEW y PROVE <<a, b>> \o <<x>> # <<y>>
    OBVIOUS
  <2>1. <<a, b>> \in Seq({a, b, x}) /\ <<x>> \in Seq({a, b, x}) /\ Len(<<a, b>>) = 2 /\ Len(<<x>>) = 1
    OBVIOUS
  <2>2. Len(<<a, b>> \o <<x>>) = 3
    BY <2>1, ConcatProperties
  <2>3. Len(<<y>>) = 1
    OBVIOUS
  <2> QED BY <2>2, <2>3
<1>2. \A y : todo' # <<y>>
  BY <1>1 DEF Then
<1> QED BY <1>2 DEF Quiet

LEMMA QuietThree ==
  ASSUME NEW a, NEW b, NEW c, Tail(todo) = << >>, Then(<<a, b, c>>)
  PROVE  Quiet'
<1>1. \A y : <<a, b, c>> \o << >> # <<y>>
  OBVIOUS
<1>2. \A y : todo' # <<y>>
  BY <1>1 DEF Then
<1> QED BY <1>2 DEF Quiet

LEMMA StepsLeaveSig ==
  ASSUME IInv, SigInv, Paired, Steps
  PROVE  SigInv'
<1>0. TypeInv /\ StreamInv /\ PlanInv /\ EndsInv
  BY DEF IInv
<1>1. call.op # "killed" /\ call \in CallType /\ st \in [Names -> Streams] /\ sig.open \in Nat
  BY <1>0 DEF SigInv, TypeInv, CallType
<1>2. ASSUME UNCHANGED <<how, sig, second>>, \A n \in Names : st'[n].open = st[n].open,
             todo # << >>, Head(todo)[1] # "wait", Quiet', call'.op = call.op
      PROVE  SigInv'
  <2>1. Quiet
    BY <1>2 DEF Quiet
  <2> QED BY <1>1, <1>2, <2>1, SigStays
<1>a. S \in Names => st[S] \in Streams
  BY <1>1
<1>3. ASSUME NEW r, Return(r) PROVE Quiet' /\ call'.op = call.op
  BY <1>1, <1>3 DEF Return, Quiet, CallType
<1>4. CASE Mode
  <2>1. /\ Step("mode") /\ UNCHANGED <<how, sig, second>>
        /\ st' = st \/ \E t \in {st[S], Restored(st[S]), Saved(st[S])} : st' = [st EXCEPT ![S] = t]
    BY <1>4 DEF Mode, Rest
  <2>2. PICK s \in Names, n \in Nat :
          /\ S = s
          /\ Tail(todo) = <<<<"put", s, n>>>> \/ Tail(todo) = <<<<"get", s, n>>>>
    BY <1>0, <2>1, AtMode
  <2>3. \A m \in Names : st'[m].open = st[m].open
    BY <1>1, <1>a, <2>1, <2>2, TurnedOpen DEF Streams
  <2>4. Quiet' /\ call'.op = call.op
    <3>1. CASE Then(<< >>) /\ UNCHANGED call
      BY <2>2, <3>1 DEF Then, Quiet
    <3>2. CASE Then(<<<<"flush", S, 0>>, Head(todo)>>) /\ UNCHANGED call
      <4> DEFINE a == <<"flush", S, 0>>
                 b == Head(todo)
      <4>1. Then(<<a, b>>)
        BY <3>2
      <4> HIDE DEF a, b
      <4>2. Quiet'
        BY <2>2, <4>1, QuietMore
      <4> QED BY <3>2, <4>2
    <3> QED BY <1>3, <1>4, <3>1, <3>2 DEF Mode
  <2> QED BY <1>2, <2>1, <2>3, <2>4 DEF Step
<1>5. CASE Try
  <2>1. /\ Step("try") /\ UNCHANGED <<how, sig, second>>
        /\ st' = st \/ \E t \in {st[S], Restored(st[S]), Saved(st[S])} : st' = [st EXCEPT ![S] = t]
        /\ call' = call \/ call' = [call EXCEPT !.err = FALSE]
        /\ Then(<< >>) \/ Then(<<<<"flush", S, 0>>, Head(todo)>>)
    BY <1>5 DEF Try, Rest
  <2>2. S = "f" /\ Tail(todo) = << >> /\ "f" \in Names
    BY <1>0, <2>1, AtTry DEF Names
  <2>3. \A n \in Names : st'[n].open = st[n].open
    BY <1>1, <1>a, <2>1, <2>2, TurnedOpen DEF Streams
  <2>4. Quiet'
    <3>1. CASE Then(<< >>)
      BY <2>2, <3>1 DEF Then, Quiet
    <3>2. CASE Then(<<<<"flush", S, 0>>, Head(todo)>>)
      <4> DEFINE a == <<"flush", S, 0>>
      <4>1. a[1] # "wait" /\ Then(<<a, Head(todo)>>)
        BY <3>2
      <4> HIDE DEF a
      <4> QED BY <2>2, <4>1, QuietTwo
    <3> QED BY <2>1, <3>1, <3>2
  <2>5. call'.op = call.op
    BY <1>1, <2>1 DEF CallType
  <2> QED BY <1>2, <2>1, <2>3, <2>4, <2>5 DEF Step
<1>6. CASE Flush
  <2>1. Step("flush") /\ UNCHANGED <<how, sig, second>>
    BY <1>6 DEF Flush, Rest
  <2>2. S \in Names /\ st[S].open /\ st[S].mode = "write" /\ st[S] \in Streams
    BY <1>0, <1>1, <2>1, AtFlush
  <2>3. CASE Then(<< >>) /\ st' = st /\ (call' = call \/ call' = [call EXCEPT !.err = TRUE])
    <3>1. Quiet'
      BY <1>0, <2>1, <2>3, AfterFlush
    <3>2. call'.op = call.op
      BY <1>1, <2>3 DEF CallType
    <3> QED BY <1>2, <2>1, <2>3, <3>1, <3>2 DEF Step
  <2>4. CASE st' = [st EXCEPT ![S].data = Tail(@)] /\ UNCHANGED <<todo, call>>
    <3>1. \A n \in Names : st'[n].open = st[n].open
      BY <1>1, <2>2, <2>4 DEF Streams
    <3>2. Quiet'
      BY <2>1, <2>4 DEF Quiet, Step
    <3> QED BY <1>2, <2>1, <2>4, <3>1, <3>2 DEF Step
  <2>5. ~ (Broken(st[S]) /\ Killed(st[S]))
    <3> DEFINE s == S
    <3>1. s \in Names /\ st[s].open /\ st[s].mode = "write"
      BY <2>2
    <3> HIDE DEF s
    <3>2. Broken(st[s]) => ~ Killed(st[s])
      BY <3>1, NoneKilled
    <3> QED BY <3>2 DEF s
  <2> QED BY <1>6, <2>3, <2>4, <2>5 DEF Flush
<1>7. CASE Put
  <2>1. /\ Step("put") /\ UNCHANGED <<how, sig, second>>
        /\ st' = st \/ \E d : st' = [st EXCEPT ![S].data = d]
    BY <1>7 DEF Put, Rest
  <2>2. S \in Names /\ Tail(todo) = << >>
    BY <1>0, <2>1, AtPut
  <2>3. \A n \in Names : st'[n].open = st[n].open
    BY <1>1, <2>1, <2>2 DEF Streams
  <2>4. Quiet' /\ call'.op = call.op
    <3>1. CASE Then(<<<<"flush", S, 0>>, Head(todo)>>) /\ UNCHANGED call
      <4> DEFINE a == <<"flush", S, 0>>
      <4>1. a[1] # "wait" /\ Then(<<a, Head(todo)>>)
        BY <3>1
      <4> HIDE DEF a
      <4> QED BY <2>2, <3>1, <4>1, QuietTwo
    <3>2. CASE Then(<<<<"direct", S, N>>>>) /\ UNCHANGED call
      <4> DEFINE a == <<"direct", S, N>>
      <4>1. a[1] # "wait" /\ Then(<<a>>)
        BY <3>2
      <4> HIDE DEF a
      <4> QED BY <2>2, <3>2, <4>1, QuietOne
    <3>3. ASSUME NEW k, call' = [call EXCEPT !.n = @ + k], Then(<<<<"put", S, N - k>>>>)
          PROVE  Quiet' /\ call'.op = call.op
      <4> DEFINE a == <<"put", S, N - k>>
      <4>1. a[1] # "wait" /\ Then(<<a>>)
        BY <3>3
      <4>2. call'.op = call.op
        BY <1>1, <3>3 DEF CallType
      <4> HIDE DEF a
      <4> QED BY <2>2, <4>1, <4>2, QuietOne
    <3> QED BY <1>3, <1>7, <3>1, <3>2, <3>3 DEF Put
  <2> QED BY <1>2, <2>1, <2>3, <2>4 DEF Step
<1>8. CASE Direct
  <2>1. Step("direct") /\ UNCHANGED <<how, sig, second, st>>
    BY <1>8 DEF Direct, Rest
  <2>2. PICK s \in Names : S = s /\ Tail(todo) = << >> /\ st[s].open /\ st[s].mode = "write"
    BY <1>0, <2>1, AtDirect
  <2>3. Broken(st[s]) => ~ Killed(st[s])
    BY <2>2, NoneKilled
  <2>4. CASE call' = [call EXCEPT !.n = @ + 1] /\ Then(<<<<"direct", S, N - 1>>>>)
    <3>1. Quiet' /\ call'.op = call.op
      <4> DEFINE a == <<"direct", S, N - 1>>
      <4>1. a[1] # "wait" /\ Then(<<a>>)
        BY <2>4
      <4>2. call'.op = call.op
        BY <1>1, <2>4 DEF CallType
      <4> HIDE DEF a
      <4> QED BY <2>2, <4>1, <4>2, QuietOne
    <3> QED BY <1>2, <2>1, <3>1 DEF Step
  <2>5. CASE \E r : Return(r)
    BY <1>2, <1>3, <2>1, <2>5 DEF Step
  <2> QED BY <1>8, <2>2, <2>3, <2>4, <2>5 DEF Direct
<1>9. CASE Get
  <2>1. /\ Step("get") /\ UNCHANGED <<how, sig, second>>
        /\ st' = st \/ \E d : st' = [st EXCEPT ![S].data = d]
    BY <1>9 DEF Get, Rest
  <2>2. S \in Names /\ Tail(todo) = << >>
    BY <1>0, <2>1, AtGet
  <2>3. \A n \in Names : st'[n].open = st[n].open
    BY <1>1, <2>1, <2>2 DEF Streams
  <2>4. Quiet' /\ call'.op = call.op
    <3>1. ASSUME NEW k, call' = [call EXCEPT !.n = @ + k], Then(<<<<"get", S, N - k>>>>)
          PROVE  Quiet' /\ call'.op = call.op
      <4> DEFINE a == <<"get", S, N - k>>
      <4>1. a[1] # "wait" /\ Then(<<a>>)
        BY <3>1
      <4>2. call'.op = call.op
        BY <1>1, <3>1 DEF CallType
      <4> HIDE DEF a
      <4> QED BY <2>2, <4>1, <4>2, QuietOne
    <3>2. ASSUME NEW x, call' = call, Then(<<<<"wrsync", S, 0>>, x, <<"get", S, N>>>>)
          PROVE  Quiet' /\ call'.op = call.op
      <4> DEFINE a == <<"wrsync", S, 0>>
                 c == <<"get", S, N>>
      <4>1. Then(<<a, x, c>>)
        BY <3>2
      <4> HIDE DEF a, c
      <4>2. Quiet'
        BY <2>2, <4>1, QuietThree
      <4> QED BY <3>2, <4>2
    <3> QED BY <1>3, <1>9, <3>1, <3>2 DEF Get
  <2> QED BY <1>2, <2>1, <2>3, <2>4 DEF Step
<1>10. CASE WrSync
  <2>1. /\ Step("wrsync") /\ UNCHANGED <<how, sig, second, st, call>>
        /\ Then(SetToSeq({<<"flush", n, 0>> : n \in Pending}))
    BY <1>10 DEF WrSync, Rest
  <2>2. PICK s \in Names, n \in Nat : \E x \in Inputs(s, n) : Tail(todo) = <<x, <<"get", s, n>>>>
    BY <1>0, <2>1, AtWrSync
  <2>3. PICK x : Tail(todo) = <<x, <<"get", s, n>>>>
    BY <2>2
  <2> DEFINE c == <<"get", s, n>>
             q == SetToSeq({<<"flush", m, 0>> : m \in Pending})
  <2>4. todo' = q \o <<x, c>>
    BY <2>1, <2>3 DEF Then
  <2>5. \E m : q = << >> \/ q = <<m>>
    <3>1. CASE Pending = {}
      <4>1. {<<"flush", m, 0>> : m \in Pending} = {}
        BY <3>1
      <4> QED BY <4>1, Listed
    <3>2. CASE Pending = {"w"}
      <4> DEFINE z == <<"flush", "w", 0>>
      <4>1. {<<"flush", m, 0>> : m \in Pending} = {z}
        BY <3>2
      <4> HIDE DEF z
      <4> QED BY <4>1, Listed
    <3> QED BY <3>1, <3>2, <1>10, PendingIs
  <2>6. Quiet'
    <3> HIDE DEF c, q
    <3>1. \A m, y : << >> \o <<x, c>> # <<y>> /\ <<m>> \o <<x, c>> # <<y>>
      OBVIOUS
    <3>2. \A y : todo' # <<y>>
      BY <2>4, <2>5, <3>1
    <3> QED BY <3>2 DEF Quiet
  <2> QED BY <1>2, <2>1, <2>6 DEF Step
<1>11. CASE ReadIn
  <2>1. /\ Step("fill") \/ Step("take")
        /\ UNCHANGED <<how, sig, second>>
        /\ st' = st \/ \E d : st' = [st EXCEPT ![S].data = d]
    BY <1>11 DEF ReadIn, Rest
  <2>2. PICK s \in Names, n \in Nat : S = s /\ Tail(todo) = <<<<"get", s, n>>>>
    BY <1>0, <2>1, AtReadIn
  <2>3. \A m \in Names : st'[m].open = st[m].open
    BY <1>1, <2>1, <2>2 DEF Streams
  <2>4. Quiet' /\ call'.op = call.op
    <3>1. CASE Then(<< >>) /\ UNCHANGED call
      BY <2>2, <3>1 DEF Then, Quiet
    <3>2. CASE \E k : call' = [call EXCEPT !.n = @ + k] /\ todo' = <<<<"get", S, N - k>>>>
      BY <1>1, <3>2 DEF Quiet, CallType
    <3> QED BY <1>3, <1>11, <3>1, <3>2 DEF ReadIn
  <2>5. todo # << >> /\ Head(todo)[1] # "wait"
    BY <2>1 DEF Step
  <2> QED BY <1>2, <2>1, <2>3, <2>4, <2>5
<1>12. CASE Poll
  <2>1. Step("poll") /\ UNCHANGED <<how, sig, second, st>> /\ todo' = << >> /\ call'.op = call.op
    BY <1>1, <1>12 DEF Poll, Rest, CallType
  <2> QED BY <1>2, <2>1 DEF Step, Quiet
<1>13. CASE Shut
  <2>1. /\ Step("shut") /\ UNCHANGED <<how, sig, second>> /\ st' = [st EXCEPT ![S].open = FALSE]
        /\ todo # << >> /\ Head(todo)[1] = "shut"
    BY <1>13 DEF Shut, Rest, Step
  <2>2. PICK s \in Names : S = s /\ Tail(todo) = << >> /\ st[s].open
    BY <1>0, <2>1, AtShut
  <2>3. CASE how.setup = "pair"
    <3>1. todo' = << >> /\ call'.op = call.op
      BY <1>1, <1>13, <2>3 DEF Shut, Return, CallType
    <3>2. ~ second.open
      BY <1>0, <2>3 DEF EndsInv
    <3> QED BY <1>1, <2>1, <2>3, <3>1, <3>2 DEF SigInv
  <2>4. CASE how.setup # "pair"
    <3>1. s = "f" /\ todo' = <<<<"wait", "f", 0>>>> /\ call' = call
      <4>1. s = "f"
        BY <2>2, <2>4 DEF Names
      <4> DEFINE a == <<"wait", s, 0>>
      <4>2. todo' = <<a>> \o << >> /\ call' = call
        BY <1>13, <2>2, <2>4 DEF Shut, Then
      <4>3. <<a>> \o << >> = <<a>>
        <5> HIDE DEF a
        <5>1. <<a>> \in Seq({a})
          OBVIOUS
        <5> QED BY <5>1, ConcatEmptySeq
      <4> QED BY <4>1, <4>2, <4>3
    <3>2. <<<<"wait", "g", 0>>>> # <<<<"wait", "f", 0>>>>
      OBVIOUS
    <3>3. ~ st'["f"].open /\ st["f"].open
      BY <1>1, <2>1, <2>2, <3>1 DEF Streams
    <3> QED BY <2>1, <2>4, <3>1, <3>2, <3>3 DEF SigInv, Ours
  <2> QED BY <2>3, <2>4
<1>14. CASE Wait
  <2>1. /\ Step("wait") /\ UNCHANGED <<how, second, st>> /\ sig' = Unguarded(sig) /\ todo' = << >> /\ call'.op = call.op
    BY <1>1, <1>14 DEF Wait, Return, CallType
  <2>2. /\ how.setup # "pair"
        /\ \/ ~ st["f"].open /\ todo = <<<<"wait", "f", 0>>>>
           \/ ~ second.open /\ todo = <<<<"wait", "g", 0>>>>
    BY <1>0, <2>1, AtWait
  <2>3. <<<<"wait", "g", 0>>>> # <<<<"wait", "f", 0>>>>
    OBVIOUS
  <2>4. sig.open = Ours(st'["f"].open) + Ours(second'.open) + 1
    BY <2>1, <2>2, <2>3 DEF SigInv, Ours
  <2>5. sig'.open = sig.open - 1
        /\ sig'.handler = IF sig.open <= 1 /\ sig.handler = "ignored" THEN "default" ELSE sig.handler
    <3> DEFINE x == sig.open - 1
    <3>1. x \in Int /\ x >= 0
      BY <2>4 DEF Ours
    <3>2. sig' = [handler |-> IF sig.open <= 1 /\ sig.handler = "ignored" THEN "default" ELSE sig.handler,
                  open |-> Max({x, 0})]
      BY <2>1 DEF Unguarded
    <3> HIDE DEF x
    <3>3. Max({x, 0}) = x
      BY <3>1, Least
    <3> QED BY <3>2, <3>3 DEF x
  <2>6. sig'.open = Ours(st'["f"].open \/ todo' = <<<<"wait", "f", 0>>>>)
                    + Ours(second'.open \/ todo' = <<<<"wait", "g", 0>>>>)
    BY <2>1, <2>4, <2>5 DEF Ours
  <2>7. sig'.handler = IF how.own THEN "own" ELSE IF sig'.open = 0 THEN "default" ELSE "ignored"
    <3>1. sig.open \in Nat /\ sig.open >= 1
      BY <1>1, <2>4 DEF Ours
    <3>2. sig.handler = IF how.own THEN "own" ELSE "ignored"
      BY <3>1 DEF SigInv
    <3> QED BY <2>5, <3>1, <3>2
  <2> QED BY <1>1, <2>1, <2>2, <2>6, <2>7 DEF SigInv
<1>15. CASE Refill
  <2>1. Step("refill") /\ UNCHANGED <<how, sig, second, call>>
    BY <1>15 DEF Refill
  <2>2. Tail(todo) = << >> /\ how.setup = "filter"
    BY <1>0, <2>1, AtRefill
  <2>3. \A n \in Names : st'[n].open = st[n].open
    <3>1. S = "f" /\ "f" \in Names
      BY <1>0, <2>1, <2>2, AtRefill DEF Names
    <3>2. \E t \in {st[S], Restored(st[S]), Saved(st[S])} : st' = [st EXCEPT ![S] = t]
      BY <1>15 DEF Refill, Turned
    <3> QED BY <1>1, <1>a, <3>1, <3>2, TurnedOpen DEF Streams
  <2>4. Quiet'
    <3> DEFINE a == <<IF chunk' = Done THEN "await" ELSE "send", S, N>>
    <3>1. a[1] # "wait" /\ Then(<<a>>)
      BY <1>15 DEF Refill
    <3> HIDE DEF a
    <3> QED BY <2>2, <3>1, QuietOne
  <2> QED BY <1>2, <2>1, <2>3, <2>4 DEF Step
<1>16. CASE Send
  <2>1. Step("send") /\ UNCHANGED <<how, sig, second, st>>
    BY <1>16 DEF Send
  <2>2. Tail(todo) = << >>
    BY <1>0, <2>1, AtSend
  <2>3. Quiet' /\ call'.op = call.op
    <3>1. CASE UNCHANGED <<todo, call>>
      BY <2>1, <3>1 DEF Quiet, Step
    <3>2. CASE Then(<<<<"await", S, N>>>>) /\ UNCHANGED call
      <4> DEFINE a == <<"await", S, N>>
      <4>1. a[1] # "wait" /\ Then(<<a>>)
        BY <3>2
      <4> HIDE DEF a
      <4> QED BY <2>2, <3>2, <4>1, QuietOne
    <3> QED BY <1>3, <1>16, <3>1, <3>2 DEF Send
  <2> QED BY <1>2, <2>1, <2>3 DEF Step
<1>17. CASE Await
  <2>1. Step("await") /\ UNCHANGED <<how, sig, second, call>>
    BY <1>17 DEF Await, Rest
  <2>2. Tail(todo) = << >> /\ S = "f" /\ "f" \in Names
    BY <1>0, <2>1, AtAwait DEF Names
  <2>3. \A n \in Names : st'[n].open = st[n].open
    <3>1. st' = st \/ \E t \in {st[S], Restored(st[S])} : st' = [st EXCEPT ![S] = t]
      BY <1>17 DEF Await, Turned
    <3> QED BY <1>1, <1>a, <2>2, <3>1, TurnedOpen DEF Streams
  <2>4. Quiet'
    <3> DEFINE a == <<"pull", S, N>>
               b == <<"refill", S, N>>
    <3>1. a[1] # "wait" /\ b[1] # "wait" /\ (Then(<<a>>) \/ Then(<<b>>))
      BY <1>17 DEF Await
    <3> HIDE DEF a, b
    <3> QED BY <2>2, <3>1, QuietOne
  <2> QED BY <1>2, <2>1, <2>3, <2>4 DEF Step
<1>18. CASE Pull
  <2>1. Step("pull") /\ UNCHANGED <<how, sig, second, st>>
    BY <1>18 DEF Pull, Rest
  <2>2. Quiet' /\ call'.op = call.op
    BY <1>3, <1>18 DEF Pull
  <2> QED BY <1>2, <2>1, <2>2 DEF Step
<1> QED BY <1>4, <1>5, <1>6, <1>7, <1>8, <1>9, <1>10, <1>11, <1>12, <1>13, <1>14, <1>15, <1>16, <1>17, <1>18 DEF Steps

LEMMA SigInvInit ==
  ASSUME Init
  PROVE  SigInv
<1>1. /\ how \in Setups /\ second.open = FALSE /\ todo = << >> /\ call.op = "none"
      /\ how.setup # "pair" => st["f"].open
  BY DEF Init, New
<1>2. how.own \in BOOLEAN
  BY <1>1, SetupsAssumption
<1> QED BY <1>1, <1>2 DEF Init, SigInv, Ours, Guarded

\* No write to a process that is gone kills the application, and the handler
\* is what it was once the last stream to a process is closed, provided the
\* process of a pair reads to the end of its input (sfmode.c:213-224,
\* 265-275).
THEOREM ProtectedAlways ==
  ASSUME Paired
  PROVE  Spec => []Protected
<1>1. Init => IInv /\ SigInv
  BY IInvInit, SigInvInit
<1>2. IInv /\ SigInv /\ [Next]_vars => (IInv /\ SigInv)'
  <2> SUFFICES ASSUME IInv, SigInv, [Next]_vars PROVE IInv' /\ SigInv'
    OBVIOUS
  <2>1. IInv'
    BY Inductive
  <2>2. CASE UNCHANGED vars
    BY <2>1, <2>2 DEF vars, SigInv, Ours
  <2> QED BY <2>1, <2>2, ProcessesLeaveSig, CallsLeaveSig, StepsLeaveSig DEF Next
<1>3. IInv /\ SigInv => Protected
  <2> SUFFICES ASSUME IInv, SigInv PROVE Protected
    OBVIOUS
  <2>1. how.own \in BOOLEAN
    BY SetupsAssumption DEF IInv, TypeInv
  <2> QED BY <2>1 DEF SigInv, Protected
<1> QED BY <1>1, <1>2, <1>3, PTL DEF Spec
=============================================================================
