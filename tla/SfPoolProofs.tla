---------------------------- MODULE SfPoolProofs ----------------------------
(***************************************************************************)
(* Theorems about SfPool: the lists of pools stay right, no byte is lost   *)
(* or overtaken, and sfsync(NULL) leaves nothing buffered, whatever the    *)
(* streams, the sizes of their buffers, the calls and the failures, if the *)
(* application joins no pool by a stream that a failed call has left out   *)
(* of it.                                                                  *)
(***************************************************************************)
EXTENDS SfPool, FiniteSetTheorems, SequenceTheorems, WellFoundedInduction, TLAPS

\* sfpool(f, pf) is not called with a pf that names a pool but is not in it.
\* A failed sfpool leaves such a stream (sfpool.c:322 after sfmode.c:121), and
\* the pool it names may be free.
CarefulCall ==
  \A f, pf \in Stream, m \in Modes : CallPool(f, pf, m) => (pool[pf] \in Pool => Listed(pf))
Careful == [][CarefulCall]_vars

----------------------------------------------------------------------------
(* The invariant of the lists.                                             *)

AllPools == Pool \cup {Main}

TypeInv ==
  /\ pool \in [Stream -> AllPools \cup {None}] /\ list \in [AllPools -> Seq(Stream)]
  /\ room \in [AllPools -> Nat] /\ kind \in [Pool -> {"none", "avail", "plain", "share"}]
  /\ status \in [Stream -> {"fresh", "open", "closed"}]
  /\ pooled \subseteq Stream /\ stray \subseteq Stream
  /\ \A p \in AllPools : Len(list[p]) <= room[p]

\* A list names a stream once, and its streams name it.
NamesInv ==
  /\ \A p \in AllPools : IsInjective(list[p]) /\ \A f \in Members(p) : pool[f] = p
  /\ \A f \in Stream : status[f] # "open" => pool[f] = None

\* SF_POOL: never on a head, and on all others but those left half-way and the
\* one that is about to go to the head.
MarksInv ==
  /\ \A f \in pooled : pool[f] \in Pool /\ Listed(f) /\ f # HeadOf(pool[f])
  /\ \A p \in Pool : \A f \in Members(p) \ (pooled \cup stray) : f = HeadOf(p) \/ todo = <<<<"front", f>>>>

\* An open stream is in a list unless its call is about to put it there.
Between(f) == ~Idle /\ Head(todo)[1] \in {"append", "newpool", "closed"} /\ Head(todo)[2] = f
ListedInv == \A f \in Open \ stray : Listed(f) \/ Between(f)

\* A free pool is empty, and a pool has two streams unless the second is about
\* to join it or could not.
Halfway(p) ==
  \/ \E f \in Stream : todo = <<<<"append", f, p>>, <<"front", f>>>>
  \/ \E f \in stray : pool[f] = p /\ ~Listed(f)
PoolsInv ==
  \A p \in Pool : list[p] # <<>> =>
    kind[p] \in {"plain", "share"} /\ (Len(list[p]) >= 2 \/ Halfway(p))

\* What the calls on one stream have left to do.
OwnPlan(f) ==
  \/ todo \in {<<<<"mode", f>>, <<"put", f>>>>, <<<<"mode", f>>, <<"get", f>>>>,
               <<<<"mode", f>>, <<"sync", f>>>>, <<<<"mode", f>>, <<"delete", f>>>>}
  \/ todo \in {<<<<"get", f>>>>, <<<<"sync", f>>>>, <<<<"delete", f>>>>}
  \/ todo = <<<<"put", f>>>> /\ f \notin pooled

MovePlan(f) ==
  \/ todo = <<<<"leave", f>>, <<"append", f, Main>>>>
  \/ pool[f] = None /\ todo = <<<<"append", f, Main>>>>

ClosePlan(f) ==
  \/ todo \in {<<<<"mode", f>>, <<"sync", f>>, <<"leave", f>>, <<"closed", f>>>>,
               <<<<"sync", f>>, <<"leave", f>>, <<"closed", f>>>>, <<<<"leave", f>>, <<"closed", f>>>>}
  \/ /\ ~Listed(f) /\ pool[f] \notin Pool
     /\ todo \in {<<<<"mode", f>>, <<"sync", f>>, <<"closed", f>>>>,
                  <<<<"sync", f>>, <<"closed", f>>>>, <<<<"closed", f>>>>}

\* sfpool(f, pf): f is to join the pool of pf, or a new one.
Joins(f, pf) ==
  {<<"append", f, p>> : p \in {q \in Pool : pf \in Members(q) /\ pool[f] # q}}
    \cup {<<"newpool", f, pf, m>> : m \in IF pool[pf] \in Pool THEN {} ELSE Modes}

PoolPlan(f, pf) ==
  \/ /\ pool[pf] \in Pool => Listed(pf)
     /\ \E m \in Modes :
          todo \in {<<<<"mode", f>>, <<"mode", pf>>, <<"pool", f, pf, m>>>>,
                    <<<<"mode", pf>>, <<"pool", f, pf, m>>>>, <<<<"pool", f, pf, m>>>>}
  \/ \E x \in Joins(f, pf) :
       \/ todo \in {<<<<"clean", f>>, <<"leave", f>>, x, <<"front", f>>>>,
                    <<<<"leave", f>>, x, <<"front", f>>>>}
       \/ pool[f] = None /\ todo = <<x, <<"front", f>>>>
  \/ todo = <<<<"front", f>>>> /\ pool[f] \in Pool /\ Listed(f)

\* sfsync(NULL).
AllPlan ==
  /\ todo \in Seq({"sync"} \X (Stream \cup {None}) \cup {<<"end", None>>})
  /\ \A i \in DOMAIN todo : todo[i][1] = "end" <=> i = Len(todo)

PlanInv ==
  \/ todo = <<>> \/ AllPlan
  \/ \E f \in Open : OwnPlan(f) \/ MovePlan(f) \/ ClosePlan(f)
  \/ \E f, pf \in Open : f # pf /\ PoolPlan(f, pf)

ListInv == TypeInv /\ NamesInv /\ MarksInv /\ ListedInv /\ PoolsInv /\ PlanInv

----------------------------------------------------------------------------
(* The invariant of the bytes.                                             *)

\* f is about to go to the head of a pool that shares one buffer's data.
Coming(f) ==
  \/ \E p \in Pool :
       /\ kind[p] = "share"
       /\ todo \in {<<<<"leave", f>>, <<"append", f, p>>, <<"front", f>>>>, <<<<"append", f, p>>, <<"front", f>>>>}
  \/ \E pf \in Stream :
       todo \in {<<<<"leave", f>>, <<"newpool", f, pf, "share">>, <<"front", f>>>>,
                 <<<<"newpool", f, pf, "share">>, <<"front", f>>>>}
  \/ todo = <<<<"front", f>>>> /\ kind[pool[f]] = "share"

\* A stream that is behind the head has nothing in its buffer, nor has one that
\* will take over the data of a head.
EmptyInv == \A f \in Stream : f \in pooled \/ Coming(f) => buf[f] = <<>>

Increasing(s) == \A i, j \in DOMAIN s : i < j => s[i] < s[j]

\* Each accepted byte is written, or lost, or waits in the buffer of one stream.
Waits(f) == ToSet(buf[f])
Gone == ToSet(out) \cup lost
BytesInv ==
  /\ by \in Seq(Stream) /\ out \in Seq(1 .. Len(by)) /\ lost \subseteq 1 .. Len(by)
  /\ buf \in [Stream -> Seq(1 .. Len(by))] /\ \A f \in Stream : Increasing(buf[f])
  /\ IsInjective(out) /\ ToSet(out) \cap lost = {}
  /\ \A f \in Stream : Waits(f) \cap Gone = {}
  /\ \A f, g \in Stream : f # g => Waits(f) \cap Waits(g) = {}
  /\ \A i \in 1 .. Len(by) : i \in Gone \/ \E f \in Stream : i \in Waits(f)

\* sfsync(NULL) that has met no error has still to visit each open stream that
\* has bytes to write.
Remains(f) == \E i \in DOMAIN todo : todo[i] = <<"sync", f>>
SyncedInv == AllPlan /\ todo # <<>> /\ ok => \A f \in Open \ stray : buf[f] = <<>> \/ Remains(f)

\* The bytes put in pool p by its streams; those of them that wait in a stream
\* of p wait at its head, with all that were put after them. Only a shared pool
\* has bytes wait in another stream than the one that accepted them.
Held(p) == {i \in mine : by[i] \in Members(p) \ stray}
SerialInv ==
  /\ \A i \in mine : i \in 1 .. Len(by) /\ pool[by[i]] \in Pool
  /\ \A p \in Pool, f \in Stream : \A i \in Held(p) \cap Waits(f) : by[i] # f => kind[p] = "share"
  /\ \A p \in Pool : \A f \in Members(p) : \A i \in Held(p) \cap Waits(f) :
       f = HeadOf(p) /\ \A j \in Held(p) : i < j => j \in Waits(f)

----------------------------------------------------------------------------
(* The operators on lists.                                                 *)

\* Leaving a list keeps the others in it, and the head if another leaves.
LEMMA WithoutIs ==
  ASSUME NEW S, NEW s \in Seq(S), IsInjective(s), NEW f \in ToSet(s)
  PROVE  /\ Without(s, f) \in Seq(S) /\ Len(Without(s, f)) = Len(s) - 1
         /\ IsInjective(Without(s, f)) /\ ToSet(Without(s, f)) = ToSet(s) \ {f}
         /\ s[1] # f => Without(s, f)[1] = s[1]
<1> DEFINE n == CHOOSE i \in DOMAIN s : s[i] = f
           w == [i \in 1 .. Len(s) - 1 |-> IF i < n THEN s[i] ELSE s[i + 1]]
<1>1. Len(s) \in Nat /\ DOMAIN s = 1 .. Len(s) /\ \A i \in 1 .. Len(s) : s[i] \in S
  OBVIOUS
<1>2. n \in 1 .. Len(s) /\ s[n] = f
  BY <1>1 DEF ToSet
<1>3. Without(s, f) = w
  BY DEF Without
<1> HIDE DEF n
<1>4. Len(s) - 1 \in Nat /\ \A i \in 1 .. Len(s) - 1 : w[i] \in S
  BY <1>1, <1>2
<1>5. w \in Seq(S) /\ Len(w) = Len(s) - 1 /\ DOMAIN w = 1 .. Len(s) - 1
  BY <1>4
<1>6. IsInjective(w)
  <2> SUFFICES ASSUME NEW i \in 1 .. Len(s) - 1, NEW j \in 1 .. Len(s) - 1, w[i] = w[j]
               PROVE  i = j
    BY <1>5 DEF IsInjective
  <2>1. \A a, b \in 1 .. Len(s) : s[a] = s[b] => a = b
    BY <1>1 DEF IsInjective
  <2> QED BY <1>1, <1>2, <2>1
<1>7. ToSet(w) = ToSet(s) \ {f}
  <2>1. ASSUME NEW i \in 1 .. Len(s) - 1 PROVE w[i] \in ToSet(s) \ {f}
    <3>1. \A a, b \in 1 .. Len(s) : s[a] = s[b] => a = b
      BY <1>1 DEF IsInjective
    <3>2. i \in 1 .. Len(s) /\ i + 1 \in 1 .. Len(s) /\ (i < n => i # n) /\ (~(i < n) => i + 1 # n)
      BY <1>1, <1>2
    <3> QED BY <1>1, <1>2, <3>1, <3>2 DEF ToSet
  <2>2. ASSUME NEW i \in 1 .. Len(s), s[i] # f PROVE \E j \in 1 .. Len(s) - 1 : w[j] = s[i]
    <3>1. CASE i < n
      <4>1. i \in 1 .. Len(s) - 1
        BY <1>1, <1>2, <3>1
      <4> QED BY <3>1, <4>1
    <3>2. CASE ~(i < n)
      <4>1. i - 1 \in 1 .. Len(s) - 1 /\ ~(i - 1 < n) /\ (i - 1) + 1 = i
        BY <1>1, <1>2, <2>2, <3>2
      <4> QED BY <4>1
    <3> QED BY <3>1, <3>2
  <2>3. ToSet(w) = {w[i] : i \in 1 .. Len(s) - 1} /\ ToSet(s) = {s[i] : i \in 1 .. Len(s)}
    BY <1>1, <1>5 DEF ToSet
  <2> HIDE DEF w
  <2>4. ToSet(w) \subseteq ToSet(s) \ {f}
    BY <2>1, <2>3
  <2>5. ToSet(s) \ {f} \subseteq ToSet(w)
    BY <2>2, <2>3
  <2> QED BY <2>4, <2>5
<1>8. s[1] # f => w[1] = s[1]
  <2>1. s[1] # f => 1 < n /\ 1 \in 1 .. Len(s) - 1
    BY <1>1, <1>2
  <2> QED BY <2>1
<1> QED BY <1>3, <1>5, <1>6, <1>7, <1>8

\* A stream that goes to the head changes places.
LEMMA SwappedIs ==
  ASSUME NEW S, NEW s \in Seq(S), IsInjective(s), NEW f \in ToSet(s)
  PROVE  /\ Swapped(s, f) \in Seq(S) /\ Len(Swapped(s, f)) = Len(s) /\ s # <<>>
         /\ IsInjective(Swapped(s, f)) /\ ToSet(Swapped(s, f)) = ToSet(s) /\ Swapped(s, f)[1] = f
<1> DEFINE w == [i \in 1 .. Len(s) |-> IF i = 1 THEN f ELSE IF s[i] = f THEN s[1] ELSE s[i]]
<1>1. Len(s) \in Nat /\ DOMAIN s = 1 .. Len(s) /\ \A i \in 1 .. Len(s) : s[i] \in S
  OBVIOUS
<1>2. PICK n \in 1 .. Len(s) : s[n] = f
  BY <1>1 DEF ToSet
<1>3. Swapped(s, f) = w /\ 1 \in 1 .. Len(s)
  BY <1>1, <1>2 DEF Swapped
<1>4. \A a, b \in 1 .. Len(s) : s[a] = s[b] => a = b
  BY <1>1 DEF IsInjective
<1>5. w \in Seq(S) /\ Len(w) = Len(s) /\ DOMAIN w = 1 .. Len(s) /\ w[1] = f
  <2>1. \A i \in 1 .. Len(s) : w[i] \in S
    BY <1>1, <1>2, <1>3
  <2> QED BY <1>1, <1>3, <2>1
<1>6. \A i \in 1 .. Len(s) : w[i] = IF i = 1 THEN s[n] ELSE IF i = n THEN s[1] ELSE s[i]
  BY <1>2, <1>4
<1>7. IsInjective(w)
  <2> SUFFICES ASSUME NEW i \in 1 .. Len(s), NEW j \in 1 .. Len(s), w[i] = w[j]
               PROVE  i = j
    BY <1>5 DEF IsInjective
  <2> HIDE DEF w
  <2> QED BY <1>2, <1>3, <1>4, <1>6
<1>8. ToSet(w) = ToSet(s)
  <2>1. ToSet(w) = {w[i] : i \in 1 .. Len(s)} /\ ToSet(s) = {s[i] : i \in 1 .. Len(s)}
    BY <1>1, <1>5 DEF ToSet
  <2> HIDE DEF w
  <2>2. \A i \in 1 .. Len(s) : \E j \in 1 .. Len(s) : w[i] = s[j]
    BY <1>2, <1>3, <1>6
  <2>3. \A i \in 1 .. Len(s) : \E j \in 1 .. Len(s) : s[i] = w[j]
    <3> SUFFICES ASSUME NEW i \in 1 .. Len(s) PROVE \E j \in 1 .. Len(s) : s[i] = w[j]
      OBVIOUS
    <3>1. CASE i = 1
      BY <1>2, <1>3, <1>6, <3>1
    <3>2. CASE i = n
      BY <1>2, <1>3, <1>6, <3>2
    <3>3. CASE i # 1 /\ i # n
      BY <1>6, <3>3
    <3> QED BY <3>1, <3>2, <3>3
  <2>4. {w[i] : i \in 1 .. Len(s)} \subseteq {s[i] : i \in 1 .. Len(s)}
    BY <2>2
  <2>5. {s[i] : i \in 1 .. Len(s)} \subseteq {w[i] : i \in 1 .. Len(s)}
    BY <2>3
  <2> QED BY <2>1, <2>4, <2>5
<1> QED BY <1>1, <1>3, <1>5, <1>7, <1>8

\* A stream that joins a list comes last.
LEMMA AppendIs ==
  ASSUME NEW S, NEW s \in Seq(S), IsInjective(s), NEW f \in S, f \notin ToSet(s)
  PROVE  /\ Append(s, f) \in Seq(S) /\ Len(Append(s, f)) = Len(s) + 1
         /\ IsInjective(Append(s, f)) /\ ToSet(Append(s, f)) = ToSet(s) \cup {f}
         /\ s # <<>> => Append(s, f)[1] = s[1]
<1> DEFINE w == Append(s, f)
<1>1. Len(s) \in Nat /\ DOMAIN s = 1 .. Len(s) /\ \A i \in 1 .. Len(s) : s[i] \in S
  OBVIOUS
<1>2. /\ w \in Seq(S) /\ Len(w) = Len(s) + 1 /\ DOMAIN w = 1 .. Len(s) + 1
      /\ \A i \in 1 .. Len(s) + 1 : w[i] = IF i = Len(s) + 1 THEN f ELSE s[i]
  BY <1>1
<1>3. \A i \in 1 .. Len(s) : s[i] # f
  BY <1>1 DEF ToSet
<1>4. ToSet(w) = {w[i] : i \in 1 .. Len(s) + 1} /\ ToSet(s) = {s[i] : i \in 1 .. Len(s)}
  BY <1>1, <1>2 DEF ToSet
<1> HIDE DEF w
<1>5. IsInjective(w)
  <2> SUFFICES ASSUME NEW i \in 1 .. Len(s) + 1, NEW j \in 1 .. Len(s) + 1, w[i] = w[j]
               PROVE  i = j
    BY <1>2 DEF IsInjective
  <2>1. \A a, b \in 1 .. Len(s) : s[a] = s[b] => a = b
    BY <1>1 DEF IsInjective
  <2> QED BY <1>1, <1>2, <1>3, <2>1
<1>6. ToSet(w) = ToSet(s) \cup {f}
  <2>1. \A i \in 1 .. Len(s) : i \in 1 .. Len(s) + 1 /\ w[i] = s[i]
    BY <1>1, <1>2
  <2>2. Len(s) + 1 \in 1 .. Len(s) + 1 /\ w[Len(s) + 1] = f
    BY <1>1, <1>2
  <2>3. \A i \in 1 .. Len(s) + 1 : i = Len(s) + 1 \/ i \in 1 .. Len(s)
    BY <1>1
  <2> QED BY <1>2, <1>4, <2>1, <2>2, <2>3
<1>7. s # <<>> => 1 \in 1 .. Len(s)
  BY <1>1
<1> QED BY <1>1, <1>2, <1>5, <1>6, <1>7 DEF w

\* Two short sequences, one after the other.
LEMMA OneAndOne ==
  ASSUME NEW a, NEW b
  PROVE  <<a>> \o <<b>> = <<a, b>>
<1>1. <<a>> \in Seq({a, b}) /\ <<b>> \in Seq({a, b}) /\ <<a, b>> \in Seq({a, b})
  OBVIOUS
<1>2. Len(<<a>> \o <<b>>) = Len(<<a, b>>) /\ <<a>> \o <<b>> \in Seq({a, b})
  BY <1>1, ConcatProperties
<1>3. \A i \in 1 .. Len(<<a, b>>) : (<<a>> \o <<b>>)[i] = <<a, b>>[i]
  BY <1>1, ConcatProperties
<1> QED BY <1>1, <1>2, <1>3, SeqEqual

LEMMA TwoAndOne ==
  ASSUME NEW a, NEW b, NEW c
  PROVE  <<a, b>> \o <<c>> = <<a, b, c>>
<1>1. <<a, b>> \in Seq({a, b, c}) /\ <<c>> \in Seq({a, b, c}) /\ <<a, b, c>> \in Seq({a, b, c})
  OBVIOUS
<1>2. Len(<<a, b>> \o <<c>>) = Len(<<a, b, c>>) /\ <<a, b>> \o <<c>> \in Seq({a, b, c})
  BY <1>1, ConcatProperties
<1>3. \A i \in 1 .. Len(<<a, b, c>>) : (<<a, b>> \o <<c>>)[i] = <<a, b, c>>[i]
  BY <1>1, ConcatProperties
<1> QED BY <1>1, <1>2, <1>3, SeqEqual

LEMMA OneAndThree ==
  ASSUME NEW a, NEW b, NEW c, NEW d
  PROVE  <<a>> \o <<b, c, d>> = <<a, b, c, d>>
<1> DEFINE S == {a, b, c, d}
<1>1. <<a>> \in Seq(S) /\ <<b, c, d>> \in Seq(S) /\ <<a, b, c, d>> \in Seq(S)
  OBVIOUS
<1>2. Len(<<a>> \o <<b, c, d>>) = Len(<<a, b, c, d>>) /\ <<a>> \o <<b, c, d>> \in Seq(S)
  BY <1>1, ConcatProperties
<1>3. \A i \in 1 .. Len(<<a, b, c, d>>) : (<<a>> \o <<b, c, d>>)[i] = <<a, b, c, d>>[i]
  BY <1>1, ConcatProperties
<1> QED BY <1>1, <1>2, <1>3, SeqEqual

LEMMA ThreeAndOne ==
  ASSUME NEW a, NEW b, NEW c, NEW d
  PROVE  <<a, b, c>> \o <<d>> = <<a, b, c, d>>
<1> DEFINE S == {a, b, c, d}
<1>1. <<a, b, c>> \in Seq(S) /\ <<d>> \in Seq(S) /\ <<a, b, c, d>> \in Seq(S)
  OBVIOUS
<1>2. Len(<<a, b, c>> \o <<d>>) = Len(<<a, b, c, d>>) /\ <<a, b, c>> \o <<d>> \in Seq(S)
  BY <1>1, ConcatProperties
<1>3. \A i \in 1 .. Len(<<a, b, c, d>>) : (<<a, b, c>> \o <<d>>)[i] = <<a, b, c, d>>[i]
  BY <1>1, ConcatProperties
<1> QED BY <1>1, <1>2, <1>3, SeqEqual

----------------------------------------------------------------------------
(* What is left of a call after a step.                                    *)

LEMMA FirstIs ==
  ASSUME NEW a, NEW t, t = <<a>>
  PROVE  t # <<>> /\ Head(t) = a
OBVIOUS

LEMMA FirstOfTwo ==
  ASSUME NEW a, NEW b, NEW t, t = <<a, b>>
  PROVE  t # <<>> /\ Head(t) = a
OBVIOUS

LEMMA Tails ==
  /\ \A a : Tail(<<a>>) = <<>>
  /\ \A a, b : Tail(<<a, b>>) = <<b>>
  /\ \A a, b, c : Tail(<<a, b, c>>) = <<b, c>>
  /\ \A a, b, c, d : Tail(<<a, b, c, d>>) = <<b, c, d>>
OBVIOUS

LEMMA AllHead ==
  ASSUME AllPlan, ~Idle
  PROVE  /\ Head(todo)[1] \in {"sync", "end"}
         /\ todo' = Tail(todo) => AllPlan'
<1> DEFINE S == {"sync"} \X (Stream \cup {None}) \cup {<<"end", None>>}
<1>1. todo \in Seq(S) /\ todo # <<>> /\ \A i \in DOMAIN todo : todo[i][1] = "end" <=> i = Len(todo)
  BY DEF AllPlan, Idle
<1>2. \A x \in S : x[1] \in {"sync", "end"}
  OBVIOUS
<1>3. ASSUME todo' = Tail(todo) PROVE AllPlan'
  <2> HIDE DEF S
  <2>1. /\ Tail(todo) \in Seq(S) /\ Len(Tail(todo)) = Len(todo) - 1
        /\ \A i \in 1 .. Len(Tail(todo)) : Tail(todo)[i] = todo[i + 1]
    BY <1>1, HeadTailProperties
  <2>2. Len(todo) \in Nat /\ DOMAIN todo = 1 .. Len(todo) /\ DOMAIN Tail(todo) = 1 .. Len(todo) - 1
    BY <1>1, <2>1
  <2>3. \A i \in 1 .. Len(todo) - 1 : i + 1 \in 1 .. Len(todo) /\ (i + 1 = Len(todo) <=> i = Len(todo) - 1)
    BY <2>2
  <2>4. \A i \in DOMAIN Tail(todo) : Tail(todo)[i][1] = "end" <=> i = Len(Tail(todo))
    BY <1>1, <2>1, <2>2, <2>3
  <2> QED BY <1>3, <2>1, <2>4 DEF AllPlan, S
<1> HIDE DEF S
<1>4. Head(todo) \in S
  BY <1>1
<1> QED BY <1>2, <1>3, <1>4

\* After _sfmode of a stream, which is then at its head.
LEMMA ModePlan ==
  ASSUME TypeInv, PlanInv, NEW f \in Stream, Doing("mode", f), todo' = Tail(todo), UNCHANGED <<pool, status>>,
         \A p \in AllPools : Members(p)' = Members(p), f \notin pooled'
  PROVE  PlanInv'
<1>1. todo # <<>> /\ Head(todo)[1] = "mode" /\ Head(todo)[2] = f
  BY DEF Doing, Idle
<1>2. ~ AllPlan
  BY <1>1, AllHead DEF Idle
<1>3. Open' = Open /\ \A g \in Stream : Listed(g)' <=> Listed(g)
  BY DEF Open, Listed, TypeInv, AllPools
<1>4. ASSUME NEW g \in Open, OwnPlan(g) \/ MovePlan(g) \/ ClosePlan(g) PROVE PlanInv'
  <2>1. CASE OwnPlan(g)
    <3>1. g = f
      BY <1>1, <2>1 DEF OwnPlan
    <3>2. PICK x \in {<<"put", f>>, <<"get", f>>, <<"sync", f>>, <<"delete", f>>} : todo = <<<<"mode", f>>, x>>
      BY <1>1, <2>1, <3>1 DEF OwnPlan
    <3>3. todo' = <<x>>
      BY <3>2, Tails
    <3>4. OwnPlan(g)'
      BY <3>1, <3>2, <3>3 DEF OwnPlan
    <3> QED BY <1>3, <3>4 DEF PlanInv
  <2>2. CASE MovePlan(g)
    BY <1>1, <2>2 DEF MovePlan
  <2>3. CASE ClosePlan(g)
    <3>1. CASE todo = <<<<"mode", g>>, <<"sync", g>>, <<"leave", g>>, <<"closed", g>>>>
      <4>1. todo' = <<<<"sync", g>>, <<"leave", g>>, <<"closed", g>>>>
        BY <3>1, Tails
      <4> QED BY <1>3, <4>1 DEF ClosePlan, PlanInv
    <3>2. CASE ~Listed(g) /\ pool[g] \notin Pool /\ todo = <<<<"mode", g>>, <<"sync", g>>, <<"closed", g>>>>
      <4>1. todo' = <<<<"sync", g>>, <<"closed", g>>>>
        BY <3>2, Tails
      <4>2. ~Listed(g)' /\ pool'[g] \notin Pool
        BY <1>3, <3>2 DEF Open
      <4> QED BY <1>3, <4>1, <4>2 DEF ClosePlan, PlanInv
    <3> QED BY <1>1, <2>3, <3>1, <3>2 DEF ClosePlan
  <2> QED BY <1>4, <2>1, <2>2, <2>3
<1>5. ASSUME NEW g \in Open, NEW pf \in Open, g # pf, PoolPlan(g, pf) PROVE PlanInv'
  <2>1. PICK m \in Modes : /\ \/ todo = <<<<"mode", g>>, <<"mode", pf>>, <<"pool", g, pf, m>>>>
                              \/ todo = <<<<"mode", pf>>, <<"pool", g, pf, m>>>>
                           /\ pool[pf] \in Pool => Listed(pf)
    BY <1>1, <1>5 DEF PoolPlan, Joins
  <2>2. \/ todo' = <<<<"mode", pf>>, <<"pool", g, pf, m>>>>
        \/ todo' = <<<<"pool", g, pf, m>>>>
    <3> DEFINE x == <<"mode", g>>
               y == <<"mode", pf>>
               z == <<"pool", g, pf, m>>
    <3>1. todo = <<x, y, z>> \/ todo = <<y, z>>
      BY <2>1
    <3>2. CASE todo = <<x, y, z>>
      <4> HIDE DEF x, y, z
      <4>1. todo' = <<y, z>>
        BY <3>2
      <4> QED BY <4>1 DEF y, z
    <3>3. CASE todo = <<y, z>>
      <4> HIDE DEF x, y, z
      <4>1. todo' = <<z>>
        BY <3>3
      <4> QED BY <4>1 DEF z
    <3> QED BY <3>1, <3>2, <3>3
  <2>3. PoolPlan(g, pf)'
    BY <1>3, <2>1, <2>2 DEF PoolPlan, Open
  <2> QED BY <1>3, <1>5, <2>3 DEF PlanInv
<1> QED BY <1>1, <1>2, <1>4, <1>5 DEF PlanInv

\* After sfsync of a stream.
LEMMA SyncPlan ==
  ASSUME PlanInv, NEW f \in Stream \cup {None}, Doing("sync", f) \/ Doing("clean", f), todo' = Tail(todo), UNCHANGED lists
  PROVE  PlanInv'
<1>1. todo # <<>> /\ Head(todo)[1] \in {"sync", "clean"} /\ Head(todo)[2] = f
  BY DEF Doing, Idle
<1>2. CASE AllPlan
  BY <1>1, <1>2, AllHead DEF Idle, PlanInv
<1>3. Open' = Open /\ UNCHANGED <<pool, list, pooled>> /\ \A g \in Stream : Listed(g)' <=> Listed(g)
  BY DEF Open, Listed, lists, Members
<1>4. ASSUME NEW g \in Open, OwnPlan(g) \/ MovePlan(g) \/ ClosePlan(g) PROVE PlanInv'
  <2>1. CASE OwnPlan(g)
    <3>1. todo' = <<>>
      BY <1>1, <2>1 DEF OwnPlan
    <3> QED BY <3>1 DEF PlanInv
  <2>2. CASE MovePlan(g)
    BY <1>1, <2>2 DEF MovePlan
  <2>3. CASE ClosePlan(g)
    <3>1. CASE todo = <<<<"sync", g>>, <<"leave", g>>, <<"closed", g>>>>
      <4>1. todo' = <<<<"leave", g>>, <<"closed", g>>>>
        BY <3>1, Tails
      <4> QED BY <1>3, <4>1 DEF ClosePlan, PlanInv
    <3>2. CASE ~Listed(g) /\ pool[g] \notin Pool /\ todo = <<<<"sync", g>>, <<"closed", g>>>>
      <4>1. todo' = <<<<"closed", g>>>>
        BY <3>2, Tails
      <4>2. ~Listed(g)' /\ pool'[g] \notin Pool
        BY <1>3, <3>2 DEF Open
      <4> QED BY <1>3, <4>1, <4>2 DEF ClosePlan, PlanInv
    <3> QED BY <1>1, <2>3, <3>1, <3>2 DEF ClosePlan
  <2> QED BY <1>4, <2>1, <2>2, <2>3
<1>5. ASSUME NEW g \in Open, NEW pf \in Open, g # pf, PoolPlan(g, pf) PROVE PlanInv'
  <2>1. PICK x \in Joins(g, pf) : todo = <<<<"clean", g>>, <<"leave", g>>, x, <<"front", g>>>>
    BY <1>1, <1>5 DEF PoolPlan, Joins
  <2>2. todo' = <<<<"leave", g>>, x, <<"front", g>>>>
    BY <2>1
  <2>3. x \in Joins(g, pf)'
    BY <1>3 DEF Joins, Members
  <2>4. PoolPlan(g, pf)'
    BY <1>3, <2>2, <2>3 DEF PoolPlan
  <2> QED BY <1>3, <1>5, <2>4 DEF PlanInv
<1> QED BY <1>1, <1>2, <1>4, <1>5 DEF PlanInv

LEMMA HeadIsIn ==
  ASSUME NEW S, NEW s \in Seq(S), s # <<>>
  PROVE  s[1] \in ToSet(s)
<1>1. Len(s) \in Nat /\ DOMAIN s = 1 .. Len(s) /\ 1 \in 1 .. Len(s)
  OBVIOUS
<1> QED BY <1>1 DEF ToSet

LEMMA RangeIn ==
  ASSUME NEW S, NEW s \in Seq(S)
  PROVE  ToSet(s) \subseteq S
BY DEF ToSet

LEMMA MembersAre ==
  ASSUME TypeInv, NEW p \in AllPools
  PROVE  /\ list[p] \in Seq(Stream) /\ Members(p) \subseteq Stream
         /\ list[p] # <<>> => HeadOf(p) \in Members(p)
         /\ Members(p) # {} => list[p] # <<>>
<1>1. list[p] \in Seq(Stream)
  BY DEF TypeInv
<1>2. Len(list[p]) \in Nat /\ DOMAIN list[p] = 1 .. Len(list[p]) /\ \A i \in 1 .. Len(list[p]) : list[p][i] \in Stream
  BY <1>1
<1>3. list[p] # <<>> => 1 \in 1 .. Len(list[p])
  BY <1>1, <1>2
<1>4. list[p] = <<>> => Members(p) = {}
  BY DEF Members, ToSet
<1> QED BY <1>1, <1>2, <1>3, <1>4 DEF Members, ToSet, HeadOf

----------------------------------------------------------------------------
(* The steps that change no list.                                          *)

\* The invariant but for what is left of the call.
Lists == TypeInv /\ NamesInv /\ MarksInv /\ ListedInv /\ PoolsInv

LEMMA ListsStay ==
  ASSUME Lists, UNCHANGED lists, stray \subseteq stray', stray' \subseteq Stream,
         Idle \/ Head(todo)[1] \notin {"append", "newpool", "closed"},
         \A f \in Stream : todo = <<<<"front", f>>>> => f \in stray' \/ f = HeadOf(pool[f])
  PROVE  Lists'
<1>1. /\ UNCHANGED <<pool, list, room, kind, status, pooled>>
      /\ Open' = Open /\ \A f \in Stream : Listed(f)' <=> Listed(f)
  BY DEF lists, Open, Listed, Members
<1>2. TypeInv'
  BY <1>1 DEF Lists, TypeInv
<1>3. NamesInv'
  BY <1>1 DEF Lists, NamesInv, Members
<1>4. MarksInv'
  <2>1. ASSUME NEW p \in Pool, NEW f \in Members(p) \ (pooled \cup stray')
        PROVE  f = HeadOf(p)
    <3>1. f \in Stream /\ f \notin stray /\ pool[f] = p
      BY <2>1, MembersAre DEF Lists, NamesInv, AllPools
    <3>2. f = HeadOf(p) \/ todo = <<<<"front", f>>>>
      BY <2>1, <3>1 DEF Lists, MarksInv
    <3> QED BY <2>1, <3>1, <3>2
  <2> QED BY <1>1, <2>1 DEF Lists, MarksInv, Members, HeadOf, Listed
<1>5. ListedInv'
  <2>1. \A f \in Stream : ~ Between(f)
    BY DEF Between
  <2>2. \A f \in Open \ stray' : f \in Stream /\ Listed(f)
    BY <2>1 DEF Lists, ListedInv, Open
  <2> QED BY <1>1, <2>2 DEF ListedInv
<1>6. PoolsInv'
  <2>1. ASSUME NEW p \in Pool, Halfway(p) PROVE Halfway(p)'
    <3>1. \A f \in Stream : todo # <<<<"append", f, p>>, <<"front", f>>>>
      BY DEF Idle
    <3>2. PICK f \in stray : pool[f] = p /\ ~Listed(f)
      BY <2>1, <3>1 DEF Halfway
    <3>3. f \in stray' /\ pool'[f] = p /\ ~Listed(f)'
      BY <1>1, <3>2 DEF Lists, TypeInv
    <3> QED BY <3>3 DEF Halfway
  <2> QED BY <1>1, <2>1 DEF Lists, PoolsInv
<1> QED BY <1>2, <1>3, <1>4, <1>5, <1>6 DEF Lists

LEMMA Whole == ListInv <=> Lists /\ PlanInv
BY DEF ListInv, Lists

\* A call that has a stream to bring to the head does nothing more.
LEMMA FrontPlan ==
  ASSUME PlanInv, NEW f \in Stream, Doing("front", f)
  PROVE  todo = <<<<"front", f>>>> /\ f \in Open /\ pool[f] \in Pool /\ Listed(f)
<1>1. todo # <<>> /\ Head(todo)[1] = "front" /\ Head(todo)[2] = f
  BY DEF Doing, Idle
<1>2. ~ AllPlan
  BY <1>1, AllHead DEF Idle
<1>3. ASSUME NEW g \in Open PROVE ~ OwnPlan(g) /\ ~ MovePlan(g) /\ ~ ClosePlan(g)
  BY <1>1 DEF OwnPlan, MovePlan, ClosePlan
<1>4. PICK g \in Open, pf \in Open : PoolPlan(g, pf)
  BY <1>1, <1>2, <1>3 DEF PlanInv
<1>5. todo = <<<<"front", g>>>> /\ pool[g] \in Pool /\ Listed(g)
  BY <1>1, <1>4 DEF PoolPlan, Joins
<1> QED BY <1>1, <1>4, <1>5

LEMMA FrontFailsKeeps ==
  ASSUME ListInv, NEW f \in Stream, FrontFails(f)
  PROVE  ListInv'
<1>1. UNCHANGED lists /\ todo' = <<>> /\ stray' = IF Doing("front", f) THEN stray \cup {f} ELSE stray
  BY DEF FrontFails, Return
<1>2. Doing("mode", f) \/ Doing("front", f)
  BY DEF FrontFails, Moving
<1>3. \A g \in Stream : todo = <<<<"front", g>>>> => g \in stray'
  BY <1>1, <1>2 DEF Doing
<1>4. Head(todo)[1] \in {"mode", "front"}
  BY <1>2 DEF Doing
<1>5. stray \subseteq stray' /\ stray' \subseteq Stream
  BY <1>1 DEF ListInv, TypeInv
<1>6. Lists'
  BY <1>1, <1>3, <1>4, <1>5, Whole, ListsStay
<1>7. PlanInv'
  BY <1>1 DEF PlanInv
<1> QED BY <1>6, <1>7, Whole DEF ListInv, Lists

LEMMA InFrontKeeps ==
  ASSUME ListInv, NEW f \in Stream, InFront(f)
  PROVE  ListInv'
<1>1. /\ UNCHANGED lists /\ UNCHANGED stray /\ todo' = Tail(todo) /\ ~ Moving(f)
      /\ Doing("mode", f) \/ Doing("front", f)
  BY DEF InFront, Done, marks
<1>2. Head(todo)[1] \in {"mode", "front"}
  BY <1>1 DEF Doing
<1>3. \A g \in Stream : todo = <<<<"front", g>>>> => g = HeadOf(pool[g])
  BY <1>1 DEF Moving, Doing
<1>4. stray \subseteq stray' /\ stray' \subseteq Stream
  BY <1>1 DEF ListInv, TypeInv
<1>5. Lists'
  BY <1>1, <1>2, <1>3, <1>4, Whole, ListsStay
<1>6. CASE Doing("mode", f)
  <2>1. UNCHANGED <<pool, status>> /\ (\A p \in AllPools : Members(p)' = Members(p)) /\ f \notin pooled'
    BY <1>1, <1>6 DEF lists, Members, Moving
  <2>2. PlanInv'
    BY <1>1, <1>6, <2>1, ModePlan DEF ListInv
  <2> QED BY <1>5, <2>2 DEF ListInv, Lists
<1>7. CASE Doing("front", f)
  <2>a. todo = <<<<"front", f>>>>
    BY <1>7, FrontPlan DEF ListInv
  <2>b. Tail(todo) = <<>>
    BY <2>a
  <2>1. todo' = <<>>
    BY <1>1, <2>b
  <2>2. PlanInv'
    BY <2>1 DEF PlanInv
  <2> QED BY <1>5, <2>2 DEF ListInv, Lists
<1> QED BY <1>1, <1>6, <1>7

\* A step that changes no list and is the last of its call, or repeats it.
LEMMA LastStep ==
  ASSUME ListInv, UNCHANGED lists, UNCHANGED stray, todo' \in {<<>>, todo},
         Idle \/ Head(todo)[1] \notin {"append", "newpool", "closed", "front"}
  PROVE  ListInv'
<1>1. \A f \in Stream : todo # <<<<"front", f>>>>
  BY DEF Idle
<1>2. Lists'
  BY <1>1, Whole, ListsStay DEF Lists, TypeInv
<1>3. PlanInv'
  <2>1. CASE todo' = <<>>
    BY <2>1 DEF PlanInv
  <2>2. CASE todo' = todo
    <3>1. UNCHANGED <<pool, list, pooled, status, todo>> /\ Open' = Open /\ \A f \in Stream : Listed(f)' <=> Listed(f)
      BY <2>2 DEF lists, Open, Listed, Members
    <3>2. AllPlan' <=> AllPlan
      BY <3>1 DEF AllPlan
    <3>3. ASSUME NEW f \in Open PROVE (OwnPlan(f) \/ MovePlan(f) \/ ClosePlan(f)) => (OwnPlan(f) \/ MovePlan(f) \/ ClosePlan(f))'
      BY <3>1 DEF OwnPlan, MovePlan, ClosePlan, Open
    <3>4. ASSUME NEW f \in Open, NEW pf \in Open PROVE PoolPlan(f, pf) => PoolPlan(f, pf)'
      BY <3>1 DEF PoolPlan, Joins, Members, Open
    <3> QED BY <3>1, <3>2, <3>3, <3>4 DEF PlanInv, ListInv
  <2> QED BY <2>1, <2>2
<1> QED BY <1>2, <1>3 DEF ListInv, Lists

LEMMA LastKeeps ==
  ASSUME ListInv, NEW f, Put(f) \/ PutFlush(f) \/ Get(f) \/ LeaveFails(f) \/ End
  PROVE  ListInv'
<1>1. UNCHANGED lists /\ UNCHANGED stray
  BY DEF Put, PutFlush, Get, LeaveFails, End, marks
<1>2. todo' \in {<<>>, todo}
  BY DEF Put, PutFlush, Get, LeaveFails, End, Return
<1>3. Head(todo)[1] \in {"put", "get", "leave", "end"}
  BY DEF Put, PutFlush, Get, LeaveFails, End, Doing
<1> QED BY <1>1, <1>2, <1>3, LastStep

LEMMA SyncKeeps ==
  ASSUME ListInv, NEW f \in Stream \cup {None}, Sync(f) \/ SyncFails(f) \/ PassOver
  PROVE  ListInv'
<1>1. UNCHANGED lists /\ UNCHANGED stray
  BY DEF Sync, SyncFails, PassOver, marks
<1>2. PICK g \in Stream \cup {None} : Doing("sync", g) \/ Doing("clean", g)
  BY DEF Sync, SyncFails, PassOver, Syncing
<1>3. todo' = Tail(todo) \/ todo' = <<>>
  BY DEF Sync, SyncFails, PassOver, Done, Return
<1>4. Head(todo)[1] \in {"sync", "clean"}
  BY <1>2 DEF Doing
<1>5. CASE todo' = <<>>
  BY <1>1, <1>4, <1>5, LastStep
<1>6. CASE todo' = Tail(todo)
  <2>1. PlanInv'
    BY <1>1, <1>2, <1>6, SyncPlan DEF ListInv
  <2>2. \A h \in Stream : todo # <<<<"front", h>>>>
    BY <1>4
  <2>3. Lists'
    BY <1>1, <1>4, <2>2, Whole, ListsStay DEF Lists, TypeInv
  <2> QED BY <2>1, <2>3 DEF ListInv, Lists
<1> QED BY <1>3, <1>5, <1>6

LEMMA PoolingKeeps ==
  ASSUME ListInv, NEW f \in Stream, NEW pf \in Stream, NEW m \in Modes, Pooling(f, pf, m)
  PROVE  ListInv'
<1>1. /\ UNCHANGED lists /\ UNCHANGED stray
      /\ Doing("pool", f) /\ Head(todo)[3] = pf /\ Head(todo)[4] = m
  BY DEF Pooling, marks
<1>2. Head(todo)[1] = "pool" /\ Head(todo)[2] = f /\ todo # <<>>
  BY <1>1 DEF Doing, Idle
<1>3. CASE todo' = <<>>
  BY <1>1, <1>2, <1>3, LastStep
<1>4. CASE todo' # <<>>
  <2> DEFINE mode == IF pool[pf] \in Pool THEN kind[pool[pf]] ELSE m
  <2>1. todo' = JoinSteps(f, pf, mode) /\ ~ (pool[f] = pool[pf] /\ pool[f] # Main)
    BY <1>4 DEF Pooling, Return, Expand
  <2>2. ~ AllPlan
    BY <1>2, AllHead DEF Idle
  <2>3. ASSUME NEW g \in Open PROVE ~ OwnPlan(g) /\ ~ MovePlan(g) /\ ~ ClosePlan(g)
    BY <1>2 DEF OwnPlan, MovePlan, ClosePlan
  <2>4. PICK g \in Open, pg \in Open : g # pg /\ PoolPlan(g, pg)
    BY <1>2, <2>2, <2>3 DEF PlanInv, ListInv
  <2>5. PICK n \in Modes : todo = <<<<"pool", g, pg, n>>>> /\ (pool[pg] \in Pool => Listed(pg))
    BY <1>2, <2>4 DEF PoolPlan, Joins
  <2>6. g = f /\ pg = pf
    BY <1>1, <1>2, <2>5
  <2> DEFINE x == IF pool[pf] \in Pool THEN <<"append", f, pool[pf]>> ELSE <<"newpool", f, pf, mode>>
             c == <<"clean", f>>
             l == <<"leave", f>>
             w == <<"front", f>>
  <2>7. x \in Joins(f, pf)
    <3>1. CASE pool[pf] \in Pool
      <4>1. pf \in Members(pool[pf]) /\ pool[f] # pool[pf]
        BY <2>1, <2>5, <2>6, <3>1, NamesAssumption DEF Listed
      <4> QED BY <3>1, <4>1 DEF Joins
    <3>2. CASE pool[pf] \notin Pool
      BY <3>2 DEF Joins
    <3> QED BY <3>1, <3>2
  <2>8. todo' = <<c, l, x, w>> \/ todo' = <<l, x, w>>
    <3> HIDE DEF x, c, l, w
    <3>1. todo' = (IF mode = "share" THEN <<c>> ELSE <<>>) \o <<l, x, w>>
      BY <2>1 DEF JoinSteps, x, c, l, w
    <3>2. <<c>> \o <<l, x, w>> = <<c, l, x, w>>
      BY OneAndThree
    <3>3. <<>> \o <<l, x, w>> = <<l, x, w>>
      OBVIOUS
    <3> QED BY <3>1, <3>2, <3>3
  <2>9. Open' = Open /\ UNCHANGED <<pool, list>> /\ x \in Joins(f, pf)'
    <3> HIDE DEF x
    <3> QED BY <1>1, <2>7 DEF Joins, Members, lists, Open
  <2>10. PoolPlan(f, pf)'
    <3> HIDE DEF x
    <3> QED BY <2>8, <2>9 DEF PoolPlan, c, l, w
  <2>11. PlanInv'
    BY <2>4, <2>6, <2>9, <2>10 DEF PlanInv
  <2>12. \A h \in Stream : todo # <<<<"front", h>>>>
    BY <1>2
  <2>13. Lists'
    BY <1>1, <1>2, <2>12, Whole, ListsStay DEF Lists, TypeInv
  <2> QED BY <2>11, <2>13 DEF ListInv, Lists
<1> QED BY <1>3, <1>4

LEMMA DeletingKeeps ==
  ASSUME ListInv, NEW f \in Stream, Deleting(f)
  PROVE  ListInv'
<1>1. UNCHANGED lists /\ UNCHANGED stray /\ Doing("delete", f)
  BY DEF Deleting, marks
<1>2. Head(todo)[1] = "delete" /\ Head(todo)[2] = f /\ todo # <<>>
  BY <1>1 DEF Doing, Idle
<1>3. CASE todo' = <<>>
  BY <1>1, <1>2, <1>3, LastStep
<1>4. CASE todo' # <<>>
  <2>1. todo' = <<<<"leave", f>>, <<"append", f, Main>>>>
    BY <1>4 DEF Deleting, Return, Expand
  <2>2. ~ AllPlan
    BY <1>2, AllHead DEF Idle
  <2>3. ASSUME NEW g \in Open, NEW pg \in Open PROVE ~ MovePlan(g) /\ ~ ClosePlan(g) /\ ~ PoolPlan(g, pg)
    BY <1>2 DEF PoolPlan, MovePlan, ClosePlan, Joins
  <2>4. PICK g \in Open : OwnPlan(g)
    BY <1>2, <2>2, <2>3 DEF PlanInv, ListInv
  <2>5. g = f
    BY <1>2, <2>4 DEF OwnPlan
  <2>6. Open' = Open /\ MovePlan(f)'
    BY <1>1, <2>1 DEF MovePlan, Open, lists
  <2>7. PlanInv'
    BY <2>4, <2>5, <2>6 DEF PlanInv
  <2>8. \A h \in Stream : todo # <<<<"front", h>>>>
    BY <1>2
  <2>9. Lists'
    BY <1>1, <1>2, <2>8, Whole, ListsStay DEF Lists, TypeInv
  <2> QED BY <2>7, <2>9 DEF ListInv, Lists
<1> QED BY <1>3, <1>4

\* The calls.
LEMMA CallLists ==
  ASSUME ListInv, Idle, UNCHANGED lists, UNCHANGED stray
  PROVE  Lists' /\ UNCHANGED <<pool, list, pooled>> /\ Open' = Open /\ \A f \in Stream : Listed(f)' <=> Listed(f)
<1>1. \A h \in Stream : todo # <<<<"front", h>>>>
  BY DEF Idle
<1>2. Lists'
  BY <1>1, Whole, ListsStay DEF Lists, TypeInv
<1> QED BY <1>2 DEF lists, Open, Listed, Members

LEMMA CallOwnKeeps ==
  ASSUME ListInv, NEW f \in Open, CallWrite(f) \/ CallRead(f) \/ CallSync(f) \/ CallDelete(f)
  PROVE  ListInv'
<1>1. UNCHANGED lists /\ UNCHANGED stray /\ Idle
  BY DEF CallWrite, CallRead, CallSync, CallDelete, Start, marks
<1>2. PICK x \in {<<"put", f>>, <<"get", f>>, <<"sync", f>>, <<"delete", f>>} : todo' = Use(f) \o <<x>>
  BY DEF CallWrite, CallRead, CallSync, CallDelete, Start
<1>3. \/ todo' = <<x>> /\ f \notin pooled
      \/ todo' = <<<<"mode", f>>, x>>
  <2> DEFINE y == <<"mode", f>>
  <2>1. \/ Use(f) = <<>> /\ f \notin pooled
        \/ Use(f) = <<y>>
    BY DEF Use, Ready
  <2> HIDE DEF y
  <2>2. <<>> \o <<x>> = <<x>> /\ <<y>> \o <<x>> = <<y, x>>
    BY OneAndOne
  <2>3. (todo' = <<x>> /\ f \notin pooled) \/ todo' = <<y, x>>
    BY <1>2, <2>1, <2>2
  <2> QED BY <2>3 DEF y
<1>4. OwnPlan(f)'
  BY <1>1, <1>3, CallLists DEF OwnPlan
<1>5. PlanInv'
  BY <1>1, <1>4, CallLists DEF PlanInv
<1> QED BY <1>1, <1>5, CallLists DEF ListInv, Lists

LEMMA CallCloseKeeps ==
  ASSUME ListInv, NEW f \in Open, CallClose(f)
  PROVE  ListInv'
<1>1. UNCHANGED lists /\ UNCHANGED stray /\ Idle
  BY DEF CallClose, Start, marks
<1> DEFINE m == <<"mode", f>>
           s == <<"sync", f>>
           l == <<"leave", f>>
           c == <<"closed", f>>
<1>2. \/ todo' \in {<<m, s, l, c>>, <<s, l, c>>}
      \/ ~ Listed(f) /\ pool[f] \notin Pool /\ todo' \in {<<m, s, c>>, <<s, c>>}
  <2>1. Use(f) = <<>> \/ Use(f) = <<m>>
    BY DEF Use
  <2>2. LeaveAny(f) = <<l>> \/ (LeaveAny(f) = <<>> /\ ~ Listed(f) /\ pool[f] \notin Pool)
    BY DEF LeaveAny
  <2> HIDE DEF m, s, l, c
  <2>3. todo' = Use(f) \o <<s>> \o LeaveAny(f) \o <<c>>
    BY DEF CallClose, Start, s, c
  <2>4. <<m>> \o <<s>> \o <<l>> \o <<c>> = <<m, s, l, c>>
    <3>1. <<m>> \o <<s>> = <<m, s>>
      BY OneAndOne
    <3>2. <<m, s>> \o <<l>> = <<m, s, l>>
      BY TwoAndOne
    <3>3. <<m, s, l>> \o <<c>> = <<m, s, l, c>>
      BY ThreeAndOne
    <3> QED BY <3>1, <3>2, <3>3
  <2>5. <<>> \o <<s>> = <<s>>
    OBVIOUS
  <2>6. <<m>> \o <<s>> \o <<>> = <<m, s>> /\ <<s>> \o <<>> = <<s>>
    <3>1. <<m, s>> \o <<>> = <<m, s>>
      OBVIOUS
    <3>2. <<s>> \o <<>> = <<s>>
      OBVIOUS
    <3>3. <<m>> \o <<s>> = <<m, s>>
      BY OneAndOne
    <3> QED BY <3>1, <3>2, <3>3
  <2>7. <<s>> \o <<l>> \o <<c>> = <<s, l, c>> /\ <<m, s>> \o <<c>> = <<m, s, c>> /\ <<s>> \o <<c>> = <<s, c>>
    <3>1. <<s>> \o <<l>> = <<s, l>> /\ <<s>> \o <<c>> = <<s, c>>
      BY OneAndOne
    <3>2. <<s, l>> \o <<c>> = <<s, l, c>> /\ <<m, s>> \o <<c>> = <<m, s, c>>
      BY TwoAndOne
    <3> QED BY <3>1, <3>2
  <2> QED BY <2>1, <2>2, <2>3, <2>4, <2>5, <2>6, <2>7
<1>3. ClosePlan(f)'
  BY <1>1, <1>2, CallLists DEF ClosePlan, Open
<1>4. PlanInv'
  BY <1>1, <1>3, CallLists DEF PlanInv
<1> QED BY <1>1, <1>4, CallLists DEF ListInv, Lists

LEMMA CallPoolKeeps ==
  ASSUME ListInv, NEW f \in Open, NEW pf \in Open, f # pf, NEW m \in Modes, CallPool(f, pf, m),
         pool[pf] \in Pool => Listed(pf)
  PROVE  ListInv'
<1>1. UNCHANGED lists /\ UNCHANGED stray /\ Idle
  BY DEF CallPool, Start, marks
<1> DEFINE x == <<"mode", f>>
           y == <<"mode", pf>>
           z == <<"pool", f, pf, m>>
<1>2. todo' \in {<<x, y, z>>, <<y, z>>, <<z>>}
  <2>1. UseBoth(f, pf) \in {<<>>, <<y>>, <<x, y>>}
    BY DEF Use, UseBoth
  <2> HIDE DEF x, y, z
  <2>2. todo' = UseBoth(f, pf) \o <<z>>
    BY DEF CallPool, Start, z
  <2>3. <<>> \o <<z>> = <<z>> /\ <<y>> \o <<z>> = <<y, z>> /\ <<x, y>> \o <<z>> = <<x, y, z>>
    BY OneAndOne, TwoAndOne
  <2> QED BY <2>1, <2>2, <2>3
<1>3. PoolPlan(f, pf)'
  BY <1>1, <1>2, CallLists DEF PoolPlan, Open
<1>4. PlanInv'
  BY <1>1, <1>3, CallLists DEF PlanInv
<1> QED BY <1>1, <1>4, CallLists DEF ListInv, Lists

\* The streams sfsync(NULL) visits: those of &_Sfpool, then the heads.
LEMMA VisitedIs ==
  ASSUME ListInv
  PROVE  /\ Visited \in Seq(Stream \cup {None}) /\ Len(list[Main]) \in Nat /\ Pools \in Nat
         /\ DOMAIN list[Main] = 1 .. Len(list[Main]) /\ DOMAIN Visited = 1 .. Len(list[Main]) + Pools
         /\ \A i \in 1 .. Len(list[Main]) + Pools :
              Visited[i] = IF i <= Len(list[Main]) THEN list[Main][i]
                           ELSE [p \in Pool |-> IF list[p] = <<>> THEN None ELSE HeadOf(p)][i - Len(list[Main])]
<1> DEFINE heads == [p \in Pool |-> IF list[p] = <<>> THEN None ELSE HeadOf(p)]
<1>1. list[Main] \in Seq(Stream \cup {None})
  BY MembersAre DEF ListInv, TypeInv, AllPools
<1>2. heads \in Seq(Stream \cup {None}) /\ Len(heads) = Pools /\ Pools \in Nat
  <2>1. \A p \in Pool : heads[p] \in Stream \cup {None}
    BY MembersAre DEF ListInv, AllPools
  <2> HIDE DEF heads
  <2>2. heads \in [1 .. Pools -> Stream \cup {None}]
    BY <2>1 DEF Pool, heads
  <2> QED BY <2>2, BoundsAssumption
<1>3. Visited = list[Main] \o heads
  BY DEF Visited
<1> HIDE DEF heads
<1>4. Len(list[Main]) \in Nat /\ DOMAIN list[Main] = 1 .. Len(list[Main])
  BY <1>1
<1>5. Visited \in Seq(Stream \cup {None}) /\ Len(Visited) = Len(list[Main]) + Len(heads)
  BY <1>1, <1>2, <1>3, ConcatProperties
<1>6. DOMAIN Visited = 1 .. Len(Visited)
  BY <1>5
<1>7. \A i \in 1 .. Len(list[Main]) + Pools :
        Visited[i] = IF i <= Len(list[Main]) THEN list[Main][i] ELSE heads[i - Len(list[Main])]
  BY <1>1, <1>2, <1>3, ConcatProperties
<1> QED BY <1>2, <1>4, <1>5, <1>6, <1>7 DEF heads

LEMMA CallSyncAllKeeps ==
  ASSUME ListInv, CallSyncAll
  PROVE  ListInv' /\ AllPlan'
<1>1. UNCHANGED lists /\ UNCHANGED stray /\ Idle
  BY DEF CallSyncAll, Start, marks
<1> DEFINE S == {"sync"} \X (Stream \cup {None})
           syncs == [i \in DOMAIN Visited |-> <<"sync", Visited[i]>>]
<1>4. Visited \in Seq(Stream \cup {None})
  BY VisitedIs
<1>5. syncs \in Seq(S) /\ Len(syncs) \in Nat
  <2>1. Len(Visited) \in Nat /\ DOMAIN Visited = 1 .. Len(Visited)
    BY <1>4
  <2>2. \A i \in 1 .. Len(Visited) : Visited[i] \in Stream \cup {None}
    BY <1>4
  <2>3. syncs \in [1 .. Len(Visited) -> S]
    BY <2>1, <2>2
  <2> QED BY <2>1, <2>3
<1> HIDE DEF syncs
<1>6. todo' = syncs \o <<<<"end", None>>>>
  BY DEF CallSyncAll, Start, syncs
<1>7. AllPlan'
  <2> DEFINE T == S \cup {<<"end", None>>}
             e == <<"end", None>>
  <2>1. syncs \in Seq(T) /\ e \in T
    BY <1>5
  <2>2. \A i \in 1 .. Len(syncs) : syncs[i][1] = "sync"
    BY <1>5
  <2>3. e[1] = "end"
    OBVIOUS
  <2> HIDE DEF e, T
  <2>4. /\ todo' \in Seq(T) /\ Len(todo') = Len(syncs) + 1 /\ DOMAIN todo' = 1 .. Len(syncs) + 1
        /\ \A i \in 1 .. Len(syncs) + 1 : todo'[i] = IF i = Len(syncs) + 1 THEN e ELSE syncs[i]
    BY <1>6, <2>1, <1>5 DEF e
  <2>5. \A i \in DOMAIN todo' : todo'[i][1] = "end" <=> i = Len(todo')
    BY <1>5, <2>2, <2>3, <2>4
  <2> QED BY <2>4, <2>5 DEF AllPlan, T
<1>8. PlanInv'
  BY <1>7 DEF PlanInv
<1> QED BY <1>1, <1>7, <1>8, CallLists DEF ListInv, Lists

----------------------------------------------------------------------------
(* The steps that change lists.                                            *)

\* Only a stream that is in a pool, and not at its head, is moved to it.
LEMMA MovingIs ==
  ASSUME ListInv, NEW f \in Stream, Moving(f)
  PROVE  /\ pool[f] \in Pool /\ f \in Members(pool[f]) /\ f # HeadOf(pool[f])
         /\ list[pool[f]] # <<>> /\ HeadOf(pool[f]) \in Members(pool[f])
         /\ \A g \in Stream : todo = <<<<"front", g>>>> => g = f
<1>1. pool[f] \in Pool /\ Listed(f) /\ f # HeadOf(pool[f])
  <2>1. CASE f \in pooled
    BY <2>1 DEF ListInv, MarksInv
  <2>2. CASE Doing("front", f) /\ f # HeadOf(pool[f])
    BY <2>2, FrontPlan DEF ListInv
  <2> QED BY <2>1, <2>2 DEF Moving
<1>2. \A g \in Stream : todo = <<<<"front", g>>>> => g = f
  BY DEF Moving, Doing
<1> QED BY <1>1, <1>2, MembersAre DEF ListInv, AllPools, Listed

LEMMA ToFrontKeeps ==
  ASSUME ListInv, NEW f \in Stream, ToFront(f)
  PROVE  ListInv'
<1>0. PICK p \in Pool, h \in Stream : p = pool[f] /\ h = HeadOf(p)
  BY MovingIs, MembersAre DEF ToFront, ListInv, AllPools
<1>1. /\ Moving(f) /\ pooled' = (pooled \ {f}) \cup {h} /\ list' = [list EXCEPT ![p] = Swapped(list[p], f)]
      /\ UNCHANGED <<pool, room, kind, status, stray>> /\ todo' = Tail(todo)
  BY <1>0 DEF ToFront, Marked, Done, marks
<1>2. p \in Pool /\ f \in Members(p) /\ f # h /\ h \in Members(p) /\ p \in AllPools /\ h \in Stream
  BY <1>0, <1>1, MovingIs, MembersAre DEF ListInv, AllPools
<1>3. \A g \in Stream : todo = <<<<"front", g>>>> => g = f
  BY <1>1, MovingIs
<1>4. /\ list'[p] \in Seq(Stream) /\ Len(list'[p]) = Len(list[p]) /\ list[p] # <<>>
      /\ IsInjective(list'[p]) /\ ToSet(list'[p]) = ToSet(list[p]) /\ list'[p][1] = f
  <2>1. list[p] \in Seq(Stream) /\ IsInjective(list[p]) /\ f \in ToSet(list[p])
    BY <1>2, MembersAre DEF ListInv, NamesInv, Members
  <2>2. list'[p] = Swapped(list[p], f)
    BY <1>1, <1>2 DEF ListInv, TypeInv
  <2> QED BY <2>1, <2>2, SwappedIs
<1>5. \A q \in AllPools : q # p => list'[q] = list[q]
  BY <1>1, <1>2 DEF ListInv, TypeInv
<1>6. list' \in [AllPools -> Seq(Stream)]
  BY <1>1, <1>2, <1>4, <1>5 DEF ListInv, TypeInv
<1>7. /\ \A q \in AllPools : Members(q)' = Members(q) /\ Len(list'[q]) = Len(list[q])
      /\ \A q \in AllPools : q # p => HeadOf(q)' = HeadOf(q)
      /\ HeadOf(p)' = f
      /\ Open' = Open /\ \A g \in Stream : Listed(g)' <=> Listed(g)
  <2>1. \A q \in AllPools : Members(q)' = Members(q) /\ Len(list'[q]) = Len(list[q])
    BY <1>4, <1>5 DEF Members
  <2>2. \A g \in Stream : pool[g] \in AllPools \cup {None}
    BY DEF ListInv, TypeInv
  <2> QED BY <1>1, <1>4, <1>5, <2>1, <2>2 DEF HeadOf, Listed, Open
<1>8. TypeInv'
  BY <1>1, <1>2, <1>6, <1>7 DEF ListInv, TypeInv
<1>9. NamesInv'
  BY <1>1, <1>2, <1>4, <1>5, <1>7 DEF ListInv, NamesInv
<1>10. MarksInv'
  <2>1. ASSUME NEW g \in pooled' PROVE pool'[g] \in Pool /\ Listed(g)' /\ g # HeadOf(pool[g])'
    <3>1. g = h \/ (g \in pooled /\ g # f)
      BY <1>1, <2>1
    <3>2. CASE g = h
      <4>1. pool[h] = p
        BY <1>2 DEF ListInv, NamesInv
      <4> QED BY <1>1, <1>2, <1>4, <1>7, <3>2, <4>1, NamesAssumption DEF Listed, HeadOf
    <3>3. CASE g \in pooled /\ g # f
      <4>1. g \in Stream /\ pool[g] \in Pool /\ Listed(g) /\ g # HeadOf(pool[g]) /\ pool[g] \in AllPools
        BY <3>3 DEF ListInv, MarksInv, TypeInv, AllPools
      <4> QED BY <1>0, <1>1, <1>4, <1>5, <1>7, <3>3, <4>1 DEF HeadOf
    <3> QED BY <3>1, <3>2, <3>3
  <2>2. ASSUME NEW q \in Pool, NEW g \in Members(q)' \ (pooled' \cup stray')
        PROVE  g = HeadOf(q)'
    <3>1. q \in AllPools /\ g \in Members(q) /\ g \in Stream /\ pool[g] = q
      BY <1>7, <2>2, MembersAre DEF AllPools, ListInv, NamesInv
    <3>2. g # h /\ (g # f => g \notin pooled) /\ g \notin stray
      BY <1>1, <2>2
    <3>3. CASE g = f
      BY <1>0, <1>7, <3>1, <3>3
    <3>4. CASE g # f
      <4>1. g = HeadOf(q)
        BY <1>3, <3>1, <3>2, <3>4 DEF ListInv, MarksInv
      <4>2. q # p
        BY <1>0, <3>2, <4>1
      <4> QED BY <1>7, <3>1, <4>1, <4>2
    <3> QED BY <3>3, <3>4
  <2> QED BY <2>1, <2>2 DEF MarksInv
<1>11. todo # <<>> /\ Head(todo)[1] \in {"mode", "front"}
  BY <1>1 DEF Moving, Doing, Idle
<1>12. ListedInv'
  <2>1. \A g \in Stream : ~ Between(g)
    BY <1>11 DEF Between
  <2>2. \A g \in Open \ stray' : g \in Stream /\ Listed(g)
    BY <1>1, <2>1 DEF ListInv, ListedInv, Open
  <2> QED BY <1>7, <2>2 DEF ListedInv
<1>13. PoolsInv'
  <2>1. ASSUME NEW q \in Pool, Halfway(q) PROVE Halfway(q)'
    <3>1. PICK g \in stray : pool[g] = q /\ ~Listed(g)
      BY <1>11, <2>1 DEF Halfway
    <3>2. g \in stray' /\ pool'[g] = q /\ ~Listed(g)'
      BY <1>1, <1>7, <3>1 DEF ListInv, TypeInv
    <3> QED BY <3>2 DEF Halfway
  <2>2. ASSUME NEW q \in Pool, list'[q] # <<>> PROVE list[q] # <<>> /\ Len(list'[q]) = Len(list[q]) /\ kind'[q] = kind[q]
    BY <1>1, <1>4, <1>5, <1>7, <2>2 DEF AllPools
  <2> QED BY <2>1, <2>2 DEF ListInv, PoolsInv
<1>14. PlanInv'
  <2>1. CASE Doing("mode", f)
    <3>1. f \notin pooled'
      BY <1>1, <1>2
    <3> QED BY <1>1, <1>7, <2>1, <3>1, ModePlan DEF ListInv
  <2>2. CASE Doing("front", f)
    <3>1. todo = <<<<"front", f>>>>
      BY <2>2, FrontPlan DEF ListInv
    <3>2. Tail(todo) = <<>>
      BY <3>1
    <3>3. todo' = <<>>
      BY <1>1, <3>2
    <3> QED BY <3>3 DEF PlanInv
  <2> QED BY <1>1, <2>1, <2>2 DEF Moving
<1> QED BY <1>8, <1>9, <1>10, <1>12, <1>13, <1>14 DEF ListInv

\* An array that grows has room for one more.
LEMMA GrownIs ==
  ASSUME TypeInv, NEW p \in AllPools, NEW n \in Nat,
         n = IF Full(p) THEN Grown(p) ELSE room[p]
  PROVE  Len(list[p]) + 1 <= n
<1>1. room[p] \in Nat /\ Len(list[p]) \in Nat /\ Len(list[p]) <= room[p]
  BY DEF TypeInv
<1>2. CASE ~ Full(p)
  BY <1>1, <1>2 DEF Full
<1>3. CASE Full(p) /\ room[p] = ArrayLen
  <2>1. n = (room[p] \div 4 + 1) * 4 + 4
    BY <1>3 DEF Grown
  <2>2. (room[p] \div 4 + 1) * 4 >= room[p]
    BY <1>1
  <2> QED BY <1>1, <2>1, <2>2
<1>4. CASE Full(p) /\ room[p] # ArrayLen
  BY <1>1, <1>4 DEF Grown
<1> QED BY <1>2, <1>3, <1>4

LEMMA GrownNat ==
  ASSUME TypeInv, NEW p \in AllPools
  PROVE  (IF Full(p) THEN Grown(p) ELSE room[p]) \in Nat
<1>1. room[p] \in Nat /\ room[p] \div 4 \in Nat
  BY DEF TypeInv
<1> QED BY <1>1 DEF Grown

\* A stream that is about to be put in a list is in none.
LEMMA JoinPlan ==
  ASSUME PlanInv, NEW f \in Stream, NEW p, Doing("append", f), Head(todo)[3] = p
  PROVE  /\ f \in Open /\ pool[f] = None
         /\ \/ p = Main /\ todo = <<<<"append", f, Main>>>>
            \/ /\ p \in Pool /\ todo = <<<<"append", f, p>>, <<"front", f>>>>
               /\ \E pf \in Open : pf # f /\ pf \in Members(p)
<1>1. todo # <<>> /\ Head(todo)[1] = "append" /\ Head(todo)[2] = f
  BY DEF Doing, Idle
<1>2. ~ AllPlan
  BY <1>1, AllHead DEF Idle
<1>3. ASSUME NEW g \in Open PROVE ~ OwnPlan(g) /\ ~ ClosePlan(g)
  BY <1>1 DEF OwnPlan, ClosePlan
<1>4. CASE \E g \in Open : MovePlan(g)
  <2>1. PICK g \in Open : pool[g] = None /\ todo = <<<<"append", g, Main>>>>
    BY <1>1, <1>4 DEF MovePlan
  <2> QED BY <1>1, <2>1
<1>5. CASE \E g, pf \in Open : g # pf /\ PoolPlan(g, pf)
  <2>1. PICK g \in Open, pf \in Open : g # pf /\ PoolPlan(g, pf)
    BY <1>5
  <2>2. PICK x \in Joins(g, pf) : pool[g] = None /\ todo = <<x, <<"front", g>>>>
    BY <1>1, <2>1 DEF PoolPlan
  <2>3. x[1] = "append" /\ x[2] = f /\ x[3] = p
    BY <1>1, <2>2
  <2>4. PICK q \in Pool : pf \in Members(q) /\ x = <<"append", g, q>>
    BY <2>3 DEF Joins
  <2>5. g = f /\ q = p
    BY <2>3, <2>4
  <2> QED BY <2>1, <2>2, <2>4, <2>5
<1> QED BY <1>1, <1>2, <1>3, <1>4, <1>5 DEF PlanInv

LEMMA JoinKeeps ==
  ASSUME ListInv, NEW f \in Stream, NEW p \in AllPools, Join(f, p)
  PROVE  ListInv'
<1>1. /\ Doing("append", f) /\ Head(todo)[3] = p /\ pool' = [pool EXCEPT ![f] = p]
      /\ UNCHANGED <<kind, status, pooled>>
  BY DEF Join
<1>2. /\ f \in Open /\ pool[f] = None
      /\ \/ p = Main /\ todo = <<<<"append", f, Main>>>>
         \/ /\ p \in Pool /\ todo = <<<<"append", f, p>>, <<"front", f>>>>
            /\ \E pf \in Open : pf # f /\ pf \in Members(p)
  BY <1>1, JoinPlan DEF ListInv
<1>3. \A q \in AllPools : f \notin Members(q)
  BY <1>2, NamesAssumption DEF ListInv, NamesInv, AllPools
<1>4. f \notin pooled
  BY <1>2, NamesAssumption DEF ListInv, MarksInv
<1>5. todo # <<>> /\ Head(todo)[1] = "append" /\ Head(todo)[2] = f
  BY <1>1 DEF Doing, Idle
<1>6. (\A g \in Stream : Between(g) => g = f) /\ \A g \in Stream : todo # <<<<"front", g>>>>
  BY <1>5 DEF Between
<1>7. pool'[f] = p /\ (\A g \in Stream : g # f => pool'[g] = pool[g]) /\ Open' = Open /\ pool' \in [Stream -> AllPools \cup {None}]
  BY <1>1 DEF ListInv, TypeInv, Open
<1>8. CASE Enlist(f, p) /\ Done /\ UNCHANGED stray
  <2>1. list' = [list EXCEPT ![p] = Append(list[p], f)] /\ todo' = Tail(todo) /\ UNCHANGED stray
    BY <1>8 DEF Enlist, Done
  <2>2. room' = [room EXCEPT ![p] = IF Full(p) THEN Grown(p) ELSE room[p]]
    BY <1>8 DEF Enlist
  <2>3. list[p] \in Seq(Stream) /\ IsInjective(list[p]) /\ f \notin ToSet(list[p]) /\ list \in [AllPools -> Seq(Stream)]
    BY <1>3, MembersAre DEF ListInv, NamesInv, Members, TypeInv
  <2>4. /\ list'[p] \in Seq(Stream) /\ Len(list'[p]) = Len(list[p]) + 1 /\ IsInjective(list'[p])
        /\ ToSet(list'[p]) = ToSet(list[p]) \cup {f} /\ (list[p] # <<>> => list'[p][1] = list[p][1])
    BY <2>1, <2>3, AppendIs
  <2>5. \A q \in AllPools : q # p => list'[q] = list[q]
    BY <2>1, <2>3
  <2>6. list' \in [AllPools -> Seq(Stream)]
    BY <2>1, <2>3, <2>4
  <2>7. \A q \in AllPools : Members(q)' = IF q = p THEN Members(p) \cup {f} ELSE Members(q)
    BY <2>4, <2>5 DEF Members
  <2>8. TypeInv'
    <3>1. room' \in [AllPools -> Nat] /\ Len(list[p]) + 1 <= room'[p] /\ \A q \in AllPools : q # p => room'[q] = room[q]
      <4>1. (IF Full(p) THEN Grown(p) ELSE room[p]) \in Nat /\ room \in [AllPools -> Nat]
        BY GrownNat DEF ListInv, TypeInv
      <4>2. room' \in [AllPools -> Nat] /\ room'[p] = IF Full(p) THEN Grown(p) ELSE room[p]
        BY <2>2, <4>1
      <4>3. Len(list[p]) + 1 <= room'[p]
        BY <4>2, GrownIs DEF ListInv
      <4> QED BY <2>2, <4>1, <4>2, <4>3
    <3>2. \A q \in AllPools : Len(list'[q]) <= room'[q]
      BY <2>4, <2>5, <3>1 DEF ListInv, TypeInv
    <3> QED BY <1>1, <1>7, <2>1, <2>6, <3>1, <3>2 DEF ListInv, TypeInv
  <2>9. NamesInv'
    <3>1. ASSUME NEW q \in AllPools, NEW g \in Members(q)' PROVE pool'[g] = q
      BY <1>3, <1>7, <2>7, <3>1, MembersAre DEF ListInv, NamesInv
    <3>2. ASSUME NEW q \in AllPools PROVE IsInjective(list'[q])
      BY <2>4, <2>5 DEF ListInv, NamesInv
    <3>3. \A g \in Stream : status'[g] # "open" => pool'[g] = None
      BY <1>1, <1>2, <1>7 DEF ListInv, NamesInv, Open
    <3> QED BY <3>1, <3>2, <3>3 DEF NamesInv
  <2>10. \A g \in Stream : g # f /\ Listed(g) => Listed(g)' /\ (pool[g] = p => list[p] # <<>>)
    <3>1. \A g \in Stream : pool[g] \in AllPools \cup {None}
      BY DEF ListInv, TypeInv
    <3> QED BY <1>7, <2>7, <3>1, MembersAre DEF Listed, ListInv
  <2>11. Listed(f)'
    BY <1>7, <2>7, NamesAssumption DEF Listed, AllPools
  <2>12. \A q \in AllPools : list[q] # <<>> => list'[q] # <<>> /\ HeadOf(q)' = HeadOf(q)
    <3>1. \A q \in AllPools : list'[q] \in Seq(Stream) /\ list[q] \in Seq(Stream)
      BY <2>3, <2>6
    <3>2. list'[p] # <<>>
      BY <2>4, <3>1
    <3> QED BY <2>4, <2>5, <3>2 DEF HeadOf
  <2>13. MarksInv'
    <3>1. ASSUME NEW g \in pooled PROVE pool'[g] \in Pool /\ Listed(g)' /\ g # HeadOf(pool[g])' /\ pool'[g] = pool[g]
      <4>1. g \in Stream /\ pool[g] \in Pool /\ Listed(g) /\ g # HeadOf(pool[g]) /\ pool[g] \in AllPools
        BY DEF ListInv, MarksInv, TypeInv, AllPools
      <4>2. g # f /\ list[pool[g]] # <<>>
        BY <1>4, <4>1, MembersAre DEF Listed, ListInv
      <4> QED BY <1>7, <2>10, <2>12, <4>1, <4>2 DEF HeadOf
    <3>2. ASSUME NEW q \in Pool, NEW g \in Members(q)' \ (pooled' \cup stray')
          PROVE  g = HeadOf(q)' \/ todo' = <<<<"front", g>>>>
      <4>1. CASE g = f
        <5>1. p = q /\ p \in Pool /\ todo = <<<<"append", f, p>>, <<"front", f>>>>
          BY <1>2, <1>3, <2>7, <4>1, NamesAssumption DEF AllPools
        <5> QED BY <2>1, <4>1, <5>1
      <4>2. CASE g # f
        <5>1. q \in AllPools /\ g \in Members(q) /\ g \in Stream /\ g \notin pooled \cup stray
          BY <1>1, <2>1, <2>7, <3>2, <4>2, MembersAre DEF AllPools, ListInv
        <5>2. g = HeadOf(q) /\ list[q] # <<>>
          BY <1>6, <5>1, MembersAre DEF ListInv, MarksInv
        <5> QED BY <2>12, <5>1, <5>2
      <4> QED BY <4>1, <4>2
    <3> QED BY <1>1, <3>1, <3>2 DEF MarksInv, HeadOf
  <2>14. ListedInv'
    <3>1. \A g \in Open \ stray : g \in Stream /\ (Listed(g) \/ g = f)
      BY <1>6 DEF ListInv, ListedInv, Open
    <3> QED BY <1>7, <2>1, <2>10, <2>11, <3>1 DEF ListedInv
  <2>15. PoolsInv'
    <3>1. ASSUME NEW q \in Pool, list'[q] # <<>> PROVE kind'[q] \in {"plain", "share"} /\ (Len(list'[q]) >= 2 \/ Halfway(q)')
      <4>1. CASE q = p
        <5>1. list[p] # <<>> /\ Len(list[p]) \in Nat /\ Len(list[p]) # 0
          <6>1. Members(p) # {}
            BY <1>2, <4>1, NamesAssumption
          <6>2. list[p] # <<>> /\ list[p] \in Seq(Stream)
            BY <6>1, MembersAre DEF ListInv
          <6> QED BY <6>2
        <5> QED BY <1>1, <2>4, <4>1, <5>1 DEF ListInv, PoolsInv
      <4>2. CASE q # p
        <5>1. q \in AllPools /\ list'[q] = list[q]
          BY <2>5, <4>2 DEF AllPools
        <5>2. ASSUME Halfway(q) PROVE Halfway(q)'
          <6>1. \A g \in Stream : todo # <<<<"append", g, q>>, <<"front", g>>>>
            BY <1>1, <4>2
          <6>2. PICK g \in stray : pool[g] = q /\ ~Listed(g)
            BY <5>2, <6>1 DEF Halfway
          <6>3. g \in Stream /\ g # f
            BY <1>2, <6>2, NamesAssumption DEF ListInv, TypeInv
          <6>4. pool'[g] = q /\ ~Listed(g)' /\ g \in stray'
            BY <1>7, <2>1, <2>7, <4>2, <5>1, <6>2, <6>3 DEF Listed
          <6> QED BY <6>4 DEF Halfway
        <5> QED BY <1>1, <3>1, <5>1, <5>2 DEF ListInv, PoolsInv
      <4> QED BY <4>1, <4>2
    <3> QED BY <3>1 DEF PoolsInv
  <2>16. PlanInv'
    <3>1. CASE p = Main /\ todo = <<<<"append", f, Main>>>>
      <4>1. todo' = <<>>
        BY <2>1, <3>1
      <4> QED BY <4>1 DEF PlanInv
    <3>2. CASE p \in Pool /\ todo = <<<<"append", f, p>>, <<"front", f>>>>
      <4>1. PICK pf \in Open : pf # f
        BY <1>2, <3>2, NamesAssumption
      <4>2. todo' = <<<<"front", f>>>>
        BY <2>1, <3>2
      <4>3. PoolPlan(f, pf)'
        BY <1>7, <2>11, <3>2, <4>2 DEF PoolPlan
      <4> QED BY <1>2, <1>7, <4>1, <4>3 DEF PlanInv
    <3> QED BY <1>2, <3>1, <3>2
  <2> QED BY <2>8, <2>9, <2>13, <2>14, <2>15, <2>16 DEF ListInv
<1>9. CASE NotEnlisted(p) /\ stray' = stray \cup {f} /\ Return(FALSE)
  <2>1. UNCHANGED <<list, room>> /\ stray' = stray \cup {f} /\ todo' = <<>> /\ \A q : Members(q)' = Members(q)
    BY <1>9 DEF NotEnlisted, Return, Members
  <2>2. TypeInv'
    BY <1>1, <1>7, <2>1 DEF ListInv, TypeInv
  <2>3. NamesInv'
    <3>1. ASSUME NEW q \in AllPools, NEW g \in Members(q) PROVE pool'[g] = q
      BY <1>3, <1>7, <3>1, MembersAre DEF ListInv, NamesInv
    <3>2. \A g \in Stream : status'[g] # "open" => pool'[g] = None
      BY <1>1, <1>2, <1>7 DEF ListInv, NamesInv, Open
    <3> QED BY <2>1, <3>1, <3>2 DEF ListInv, NamesInv
  <2>4. \A g \in Stream : g # f => (Listed(g)' <=> Listed(g)) /\ pool'[g] = pool[g]
    BY <1>7, <2>1 DEF Listed, Members
  <2>5. MarksInv'
    <3>1. ASSUME NEW g \in pooled PROVE pool'[g] = pool[g] /\ Listed(g)'
      BY <1>4, <2>4 DEF ListInv, MarksInv, TypeInv
    <3>2. ASSUME NEW q \in Pool, NEW g \in Members(q) \ (pooled \cup stray') PROVE g = HeadOf(q)
      <4>1. q \in AllPools /\ g \in Stream /\ g \notin stray
        BY <2>1, <3>2, MembersAre DEF ListInv, AllPools
      <4> QED BY <1>6, <3>2, <4>1 DEF ListInv, MarksInv
    <3> QED BY <1>1, <2>1, <3>1, <3>2 DEF ListInv, MarksInv, HeadOf, Members
  <2>6. ListedInv'
    <3>1. \A g \in Open \ stray' : g \in Stream /\ g # f /\ Listed(g)
      BY <1>6, <2>1 DEF ListInv, ListedInv, Open
    <3> QED BY <1>7, <2>4, <3>1 DEF ListedInv
  <2>7. PoolsInv'
    <3>1. ASSUME NEW q \in Pool, Halfway(q) PROVE Halfway(q)'
      <4>1. CASE q = p
        <5>1. f \in stray' /\ pool'[f] = q /\ ~Listed(f)'
          BY <1>3, <1>7, <2>1, <4>1 DEF Listed, Members
        <5> QED BY <5>1 DEF Halfway
      <4>2. CASE q # p
        <5>1. \A g \in Stream : todo # <<<<"append", g, q>>, <<"front", g>>>>
          BY <1>1, <4>2
        <5>2. PICK g \in stray : pool[g] = q /\ ~Listed(g)
          BY <3>1, <5>1 DEF Halfway
        <5>3. g \in Stream /\ g # f
          BY <1>2, <5>2, NamesAssumption DEF ListInv, TypeInv
        <5>4. pool'[g] = q /\ ~Listed(g)' /\ g \in stray'
          BY <2>1, <2>4, <5>2, <5>3
        <5> QED BY <5>4 DEF Halfway
      <4> QED BY <4>1, <4>2
    <3> QED BY <1>1, <2>1, <3>1 DEF ListInv, PoolsInv
  <2>8. PlanInv'
    BY <2>1 DEF PlanInv
  <2> QED BY <2>2, <2>3, <2>5, <2>6, <2>7, <2>8 DEF ListInv
<1> QED BY <1>8, <1>9 DEF Join

\* A stream that leaves a pool is put in a list next, or closed.
LEMMA LeavePlan ==
  ASSUME PlanInv, NEW f \in Stream, Doing("leave", f), todo' = Tail(todo)
  PROVE  /\ f \in Open
         /\ \/ todo' = <<<<"append", f, Main>>>> \/ todo' = <<<<"closed", f>>>>
            \/ \E pf \in Open : pf # f /\ \E x \in Joins(f, pf) : todo' = <<x, <<"front", f>>>>
<1>1. todo # <<>> /\ Head(todo)[1] = "leave" /\ Head(todo)[2] = f
  BY DEF Doing, Idle
<1>2. ~ AllPlan
  BY <1>1, AllHead DEF Idle
<1>3. ASSUME NEW g \in Open PROVE ~ OwnPlan(g)
  BY <1>1 DEF OwnPlan
<1>4. CASE \E g \in Open : MovePlan(g)
  <2>1. PICK g \in Open : todo = <<<<"leave", g>>, <<"append", g, Main>>>>
    BY <1>1, <1>4 DEF MovePlan
  <2>2. todo' = <<<<"append", g, Main>>>>
    BY <2>1
  <2> QED BY <1>1, <2>1, <2>2
<1>5. CASE \E g \in Open : ClosePlan(g)
  <2>1. PICK g \in Open : todo = <<<<"leave", g>>, <<"closed", g>>>>
    BY <1>1, <1>5 DEF ClosePlan
  <2>2. todo' = <<<<"closed", g>>>>
    BY <2>1
  <2> QED BY <1>1, <2>1, <2>2
<1>6. CASE \E g, pf \in Open : g # pf /\ PoolPlan(g, pf)
  <2>1. PICK g \in Open, pf \in Open : g # pf /\ PoolPlan(g, pf)
    BY <1>6
  <2>2. \A x \in Joins(g, pf) : x[1] # "leave"
    BY DEF Joins
  <2>3. PICK x \in Joins(g, pf) : todo = <<<<"leave", g>>, x, <<"front", g>>>>
    BY <1>1, <2>1, <2>2 DEF PoolPlan
  <2>4. g = f
    BY <1>1, <2>3
  <2>5. todo' = <<x, <<"front", f>>>>
    BY <2>3, <2>4
  <2> QED BY <2>1, <2>3, <2>4, <2>5
<1> QED BY <1>1, <1>2, <1>3, <1>4, <1>5, <1>6 DEF PlanInv

LEMMA JoinsAre ==
  ASSUME NEW f, NEW pf, NEW x \in Joins(f, pf)
  PROVE  x[1] \in {"append", "newpool"} /\ x[2] = f
BY DEF Joins

\* What remains of the call after _sfpdelete of f.
LEMMA LeftPlan ==
  ASSUME PlanInv, NEW f \in Stream, Doing("leave", f), todo' = Tail(todo), pool'[f] = None, ~ Listed(f)', UNCHANGED status,
         \A pf \in Stream : pf # f =>
           /\ \A q \in Pool : pf \in Members(q) /\ pool[f] # q => pf \in Members(q)'
           /\ pool[pf] \notin Pool => pool'[pf] \notin Pool
  PROVE  PlanInv' /\ Between(f)'
<1>1. f \in Open /\ Open' = Open
  BY LeavePlan DEF Open
<1>2. CASE todo' = <<<<"append", f, Main>>>>
  <2>1. MovePlan(f)'
    BY <1>2 DEF MovePlan
  <2>2. todo' # <<>> /\ Head(todo') = <<"append", f, Main>>
    BY <1>2, FirstIs
  <2>3. Between(f)'
    BY <2>2 DEF Between, Idle
  <2> QED BY <1>1, <2>1, <2>3 DEF PlanInv
<1>3. CASE todo' = <<<<"closed", f>>>>
  <2>1. ClosePlan(f)'
    BY <1>3, NamesAssumption DEF ClosePlan
  <2>2. todo' # <<>> /\ Head(todo') = <<"closed", f>>
    BY <1>3, FirstIs
  <2>3. Between(f)'
    BY <2>2 DEF Between, Idle
  <2> QED BY <1>1, <2>1, <2>3 DEF PlanInv
<1>4. CASE \E pf \in Open : pf # f /\ \E x \in Joins(f, pf) : todo' = <<x, <<"front", f>>>>
  <2>0. PICK pf \in Open : pf # f /\ \E x \in Joins(f, pf) : todo' = <<x, <<"front", f>>>>
    BY <1>4
  <2>1. PICK x \in Joins(f, pf) : pf # f /\ todo' = <<x, <<"front", f>>>>
    BY <2>0
  <2>2. pf \in Stream
    BY DEF Open
  <2>3. x \in Joins(f, pf)'
    <3>1. CASE \E q \in Pool : pf \in Members(q) /\ pool[f] # q /\ x = <<"append", f, q>>
      <4>1. PICK q \in Pool : pf \in Members(q) /\ pool[f] # q /\ x = <<"append", f, q>>
        BY <3>1
      <4>2. pf \in Members(q)' /\ pool'[f] # q
        BY <2>1, <2>2, <4>1, NamesAssumption
      <4> QED BY <4>1, <4>2 DEF Joins
    <3>2. CASE pool[pf] \notin Pool /\ \E m \in Modes : x = <<"newpool", f, pf, m>>
      <4>1. pool'[pf] \notin Pool
        BY <2>1, <2>2, <3>2
      <4> QED BY <3>2, <4>1 DEF Joins
    <3> QED BY <3>1, <3>2 DEF Joins
  <2>4. PoolPlan(f, pf)'
    BY <2>1, <2>3 DEF PoolPlan
  <2>5. todo' # <<>> /\ Head(todo') = x
    BY <2>1, FirstOfTwo
  <2>6. Between(f)'
    BY <2>5, JoinsAre DEF Between, Idle
  <2> QED BY <1>1, <2>1, <2>4, <2>6 DEF PlanInv
<1> QED BY <1>2, <1>3, <1>4, LeavePlan

LEMMA LeaveKeeps ==
  ASSUME ListInv, NEW f \in Stream, Leave(f)
  PROVE  ListInv'
<1>1. Doing("leave", f) /\ Listed(f) /\ todo # <<>> /\ Head(todo)[1] = "leave" /\ todo' = Tail(todo)
  BY DEF Leave, Doing, Idle, Done
<1>2. PICK p \in AllPools : p = pool[f] /\ f \in Members(p)
  BY <1>1 DEF Listed, ListInv, TypeInv
<1>3. PICK rest \in Seq(Stream) :
        /\ rest = Without(list[p], f) /\ Len(rest) = Len(list[p]) - 1 /\ IsInjective(rest)
        /\ ToSet(rest) = Members(p) \ {f} /\ (HeadOf(p) # f => rest[1] = HeadOf(p))
  <2>1. list[p] \in Seq(Stream) /\ IsInjective(list[p]) /\ f \in ToSet(list[p])
    BY <1>2, MembersAre DEF ListInv, NamesInv, Members
  <2> QED BY <2>1, WithoutIs DEF HeadOf, Members
<1>4. /\ p = Main \/ Len(rest) # 1
      /\ list' = [list EXCEPT ![p] = rest]
      /\ kind' = IF p # Main /\ rest = <<>> THEN [kind EXCEPT ![p] = "avail"] ELSE kind
      /\ pooled' = pooled \ ({f} \cup (IF p # Main /\ rest # <<>> THEN {rest[1]} ELSE {}))
      /\ pool' = [pool EXCEPT ![f] = None] /\ stray' = stray \ {f} /\ UNCHANGED <<room, status>>
  BY <1>2, <1>3 DEF Leave
<1>5. list'[p] = rest /\ (\A q \in AllPools : q # p => list'[q] = list[q]) /\ list' \in [AllPools -> Seq(Stream)]
  BY <1>4 DEF ListInv, TypeInv
<1>6. /\ pool'[f] = None /\ (\A g \in Stream : g # f => pool'[g] = pool[g])
      /\ Open' = Open /\ pool' \in [Stream -> AllPools \cup {None}]
  BY <1>4 DEF ListInv, TypeInv, Open
<1>7. \A q \in AllPools : f \notin Members(q)' /\ \A g \in Stream : g # f => (g \in Members(q)' <=> g \in Members(q))
  BY <1>2, <1>3, <1>5, MembersAre DEF ListInv, NamesInv, Members
<1>8. /\ ~ Listed(f)'
      /\ \A g \in Stream : g # f => (Listed(g)' <=> Listed(g))
  BY <1>6, <1>7 DEF Listed, ListInv, TypeInv
<1>9. \A g \in Stream : ~ Between(g)
  BY <1>1 DEF Between
<1>10. PlanInv' /\ Between(f)'
  <2>1. ASSUME NEW pf \in Stream, pf # f
        PROVE  /\ \A q \in Pool : pf \in Members(q) /\ pool[f] # q => pf \in Members(q)'
               /\ pool[pf] \notin Pool => pool'[pf] \notin Pool
    BY <1>6, <1>7, <2>1 DEF AllPools
  <2> QED BY <1>1, <1>4, <1>6, <1>8, <2>1, LeftPlan DEF ListInv
<1>11. TypeInv'
  <2>1. kind' \in [Pool -> {"none", "avail", "plain", "share"}]
    BY <1>2, <1>4 DEF ListInv, TypeInv, AllPools
  <2>2. \A q \in AllPools : Len(list'[q]) <= room'[q]
    <3>1. Len(list[p]) \in Nat /\ room[p] \in Nat /\ Len(list[p]) <= room[p]
      BY MembersAre DEF ListInv, TypeInv
    <3> QED BY <1>3, <1>4, <1>5, <3>1 DEF ListInv, TypeInv
  <2> QED BY <1>4, <1>5, <1>6, <2>1, <2>2 DEF ListInv, TypeInv
<1>12. NamesInv'
  <2>1. ASSUME NEW q \in AllPools, NEW g \in Members(q)' PROVE pool'[g] = q
    <3>1. list'[q] \in Seq(Stream) /\ g \in Stream /\ g # f
      <4>1. list'[q] \in Seq(Stream) /\ Members(q)' = ToSet(list'[q])
        BY <1>5 DEF Members
      <4>2. ToSet(list'[q]) \subseteq Stream
        BY <4>1 DEF ToSet
      <4> QED BY <1>7, <2>1, <4>1, <4>2
    <3> QED BY <1>6, <1>7, <2>1, <3>1 DEF ListInv, NamesInv
  <2>2. ASSUME NEW q \in AllPools PROVE IsInjective(list'[q])
    BY <1>3, <1>5 DEF ListInv, NamesInv
  <2>3. \A g \in Stream : status'[g] # "open" => pool'[g] = None
    BY <1>4, <1>6 DEF ListInv, NamesInv
  <2> QED BY <2>1, <2>2, <2>3 DEF NamesInv
<1>13. MarksInv'
  <2>1. ASSUME NEW g \in pooled' PROVE pool'[g] \in Pool /\ Listed(g)' /\ g # HeadOf(pool[g])' /\ pool'[g] = pool[g]
    <3>1. g \in pooled /\ g \in Stream /\ g # f /\ pool[g] \in Pool /\ Listed(g) /\ g # HeadOf(pool[g]) /\ pool[g] \in AllPools
      BY <1>4, <2>1 DEF ListInv, MarksInv, TypeInv, AllPools
    <3>2. pool'[g] = pool[g] /\ Listed(g)'
      BY <1>6, <1>8, <3>1
    <3>3. CASE pool[g] # p
      BY <1>5, <3>1, <3>2, <3>3 DEF HeadOf
    <3>4. CASE pool[g] = p
      <4>1. p # Main
        BY <3>1, <3>4, NamesAssumption
      <4>2. g \in ToSet(rest)
        BY <1>3, <3>1, <3>4 DEF Listed
      <4>3. rest # <<>>
        BY <4>2 DEF ToSet
      <4>4. g # rest[1]
        BY <1>4, <2>1, <4>1, <4>3
      <4> QED BY <1>5, <3>1, <3>2, <3>4, <4>4 DEF HeadOf
    <3> QED BY <3>3, <3>4
  <2>2. ASSUME NEW q \in Pool, NEW g \in Members(q)' \ (pooled' \cup stray')
        PROVE  g = HeadOf(q)'
    <3>1. q \in AllPools /\ list'[q] \in Seq(Stream)
      BY <1>5 DEF AllPools
    <3>2. Members(q)' \subseteq Stream
      BY <3>1 DEF Members, ToSet
    <3>3. g \in Stream /\ g # f /\ g \in Members(q) /\ g \notin stray /\ pool[g] = q
      BY <1>4, <1>7, <2>2, <3>1, <3>2 DEF ListInv, NamesInv
    <3>4. g \notin pooled => g = HeadOf(q)
      <4>1. todo # <<<<"front", g>>>>
        BY <1>1
      <4> QED BY <3>3, <4>1 DEF ListInv, MarksInv
    <3>5. CASE q # p
      <4>1. g \notin pooled
        <5>1. p # Main /\ rest # <<>> => rest[1] \in Members(p)
          <6>1. rest # <<>> => rest[1] \in ToSet(rest)
            BY <1>3, HeadIsIn
          <6> QED BY <1>3, <6>1
        <5>2. p # Main /\ rest # <<>> => pool[rest[1]] = p
          BY <5>1 DEF ListInv, NamesInv
        <5> QED BY <1>4, <2>2, <3>3, <3>5, <5>2
      <4> QED BY <1>5, <3>1, <3>4, <3>5, <4>1 DEF HeadOf
    <3>6. CASE q = p
      <4>1. g \in ToSet(rest) /\ p # Main
        BY <1>3, <3>3, <3>6, NamesAssumption
      <4>2. g = HeadOf(p) \/ g = rest[1]
        <5>1. CASE g \notin pooled
          BY <3>4, <3>6, <5>1
        <5>2. CASE g \in pooled
          BY <1>4, <2>2, <3>3, <5>2
        <5> QED BY <5>1, <5>2
      <4>3. g = rest[1]
        BY <1>3, <3>3, <4>2
      <4> QED BY <1>5, <3>6, <4>3 DEF HeadOf
    <3> QED BY <3>5, <3>6
  <2> QED BY <2>1, <2>2 DEF MarksInv, HeadOf
<1>14. ListedInv'
  <2>1. \A g \in Open \ stray : g \in Stream /\ Listed(g)
    BY <1>9 DEF ListInv, ListedInv, Open
  <2> QED BY <1>4, <1>6, <1>8, <1>10, <2>1 DEF ListedInv
<1>15. PoolsInv'
  <2>1. ASSUME NEW q \in Pool, list'[q] # <<>> PROVE kind'[q] \in {"plain", "share"} /\ (Len(list'[q]) >= 2 \/ Halfway(q)')
    <3>1. CASE q = p
      <4>1. rest # <<>> /\ p # Main
        <5>1. p # Main
          BY <3>1, NamesAssumption
        <5> QED BY <1>5, <2>1, <3>1, <5>1
      <4>5. Len(rest) \in Nat
        OBVIOUS
      <4>6. Len(rest) # 0
        BY <4>1
      <4>2. list[p] # <<>>
        BY <1>2, MembersAre DEF ListInv
      <4>3. kind'[p] = kind[p] /\ kind[p] \in {"plain", "share"}
        BY <1>4, <3>1, <4>1, <4>2 DEF ListInv, PoolsInv
      <4>4. Len(rest) # 1
        BY <1>4, <4>1
      <4>7. Len(rest) >= 2
        <5> DEFINE n == Len(rest)
        <5> HIDE DEF n
        <5>1. n \in Nat
          BY <4>5 DEF n
        <5>2. n # 0
          BY <4>6 DEF n
        <5>3. n # 1
          BY <4>4 DEF n
        <5>4. n >= 2
          BY <5>1, <5>2, <5>3
        <5> QED BY <5>4 DEF n
      <4> QED BY <1>5, <3>1, <4>3, <4>7
    <3>2. CASE q # p
      <4>1. list'[q] = list[q] /\ kind'[q] = kind[q]
        BY <1>4, <1>5, <3>2 DEF AllPools, ListInv, TypeInv
      <4>2. ASSUME Halfway(q) PROVE Halfway(q)'
        <5>1. PICK g \in stray : pool[g] = q /\ ~Listed(g)
          BY <1>1, <4>2 DEF Halfway
        <5>2. g \in Stream /\ g # f
          BY <1>2, <3>2, <5>1 DEF ListInv, TypeInv
        <5>3. pool'[g] = q /\ ~Listed(g)' /\ g \in stray'
          BY <1>4, <1>6, <1>8, <5>1, <5>2
        <5> QED BY <5>3 DEF Halfway
      <4> QED BY <2>1, <4>1, <4>2 DEF ListInv, PoolsInv
    <3> QED BY <3>1, <3>2
  <2> QED BY <2>1 DEF PoolsInv
<1> QED BY <1>10, <1>11, <1>12, <1>13, <1>14, <1>15 DEF ListInv

LEMMA DissolveKeeps ==
  ASSUME ListInv, NEW f \in Stream, Dissolve(f)
  PROVE  ListInv'
<1>1. /\ Doing("leave", f) /\ Listed(f) /\ todo # <<>> /\ Head(todo)[1] = "leave" /\ todo' = Tail(todo)
      /\ pool[f] # Main /\ UNCHANGED status
  BY DEF Dissolve, Doing, Idle, Done
<1>2. PICK p \in Pool : p = pool[f] /\ f \in Members(p)
  BY <1>1 DEF Listed, ListInv, TypeInv, AllPools
<1>3. PICK g \in Stream :
        /\ Members(p) = {f, g} /\ g # f
        /\ list'[p] = <<>> /\ kind' = [kind EXCEPT ![p] = "avail"] /\ pooled' = pooled \ {f, g}
        /\ pool' = [pool EXCEPT ![f] = None, ![g] = Main]
        /\ \/ /\ list' = [list EXCEPT ![p] = <<>>, ![Main] = Append(list[Main], g)]
              /\ room' = [room EXCEPT ![Main] = IF Full(Main) THEN Grown(Main) ELSE room[Main]]
              /\ stray' = stray \ {f, g}
           \/ list' = [list EXCEPT ![p] = <<>>] /\ stray' = (stray \ {f}) \cup {g} /\ UNCHANGED room
  <2> DEFINE rest == Without(list[p], f)
  <2>1. /\ rest \in Seq(Stream) /\ ToSet(rest) = Members(p) \ {f} /\ Len(rest) = 1
    <3>1. list[p] \in Seq(Stream) /\ IsInjective(list[p]) /\ f \in ToSet(list[p])
      BY <1>2, MembersAre DEF ListInv, NamesInv, Members, AllPools
    <3>2. Len(rest) = 1
      BY <1>2 DEF Dissolve
    <3> QED BY <3>1, <3>2, WithoutIs DEF Members
  <2> DEFINE g == rest[1]
  <2>2. ToSet(rest) = {g} /\ g \in Stream
    <3> HIDE DEF rest
    <3>1. DOMAIN rest = {1}
      BY <2>1
    <3>2. 1 \in 1 .. Len(rest)
      BY <2>1
    <3> QED BY <2>1, <3>1, <3>2 DEF ToSet
  <2>3. p # Main /\ p \in AllPools /\ Main \in AllPools
    BY NamesAssumption DEF AllPools
  <2>4. /\ kind' = [kind EXCEPT ![p] = "avail"] /\ pooled' = pooled \ {f, g}
        /\ pool' = [pool EXCEPT ![f] = None, ![g] = Main]
        /\ \/ /\ list' = [list EXCEPT ![p] = <<>>, ![Main] = Append(list[Main], g)]
              /\ room' = [room EXCEPT ![Main] = IF Full(Main) THEN Grown(Main) ELSE room[Main]]
              /\ stray' = stray \ {f, g}
           \/ list' = [list EXCEPT ![p] = <<>>] /\ stray' = (stray \ {f}) \cup {g} /\ UNCHANGED room
    BY <1>2, <2>3 DEF Dissolve, ListInv, TypeInv
  <2>5. list'[p] = <<>>
    BY <2>3, <2>4 DEF ListInv, TypeInv
  <2>6. Members(p) = {f, g} /\ g # f
    BY <1>2, <2>1, <2>2
  <2> HIDE DEF g
  <2> QED BY <2>2, <2>4, <2>5, <2>6
<1>4. p # Main /\ p \in AllPools /\ Main \in AllPools /\ pool[f] = p /\ pool[g] = p /\ g \notin Members(Main)
  BY <1>2, <1>3, NamesAssumption DEF AllPools, ListInv, NamesInv
<1>5. list[Main] \in Seq(Stream) /\ IsInjective(list[Main]) /\ g \notin ToSet(list[Main]) /\ Len(list[Main]) \in Nat
  BY <1>4, MembersAre DEF ListInv, NamesInv, Members
<1>6. \/ /\ list'[Main] = Append(list[Main], g) /\ stray' = stray \ {f, g}
         /\ room' = [room EXCEPT ![Main] = IF Full(Main) THEN Grown(Main) ELSE room[Main]]
      \/ list'[Main] = list[Main] /\ stray' = (stray \ {f}) \cup {g} /\ UNCHANGED room
  BY <1>3, <1>4 DEF ListInv, TypeInv
<1>7. \A q \in AllPools : q # p /\ q # Main => list'[q] = list[q]
  BY <1>3, <1>4 DEF ListInv, TypeInv
<1>8. /\ list'[Main] \in Seq(Stream) /\ IsInjective(list'[Main]) /\ Len(list'[Main]) <= room'[Main]
      /\ \A x \in Stream : x # g => (x \in Members(Main)' <=> x \in Members(Main))
      /\ g \in Members(Main)' \/ g \in stray'
  <2>0. Len(list[Main]) <= room[Main]
    BY <1>4 DEF ListInv, TypeInv
  <2>1. CASE list'[Main] = Append(list[Main], g) /\ room' = [room EXCEPT ![Main] = IF Full(Main) THEN Grown(Main) ELSE room[Main]]
    <3>1. /\ list'[Main] \in Seq(Stream) /\ IsInjective(list'[Main]) /\ Len(list'[Main]) = Len(list[Main]) + 1
          /\ ToSet(list'[Main]) = ToSet(list[Main]) \cup {g}
      BY <1>3, <1>5, <2>1, AppendIs
    <3>2. room'[Main] = IF Full(Main) THEN Grown(Main) ELSE room[Main]
      BY <1>4, <2>1 DEF ListInv, TypeInv
    <3>3. room'[Main] \in Nat
      BY <1>4, <3>2, GrownNat DEF ListInv
    <3>4. Len(list[Main]) + 1 <= room'[Main]
      BY <1>4, <3>2, <3>3, GrownIs DEF ListInv
    <3> QED BY <3>1, <3>4 DEF Members
  <2>2. CASE list'[Main] = list[Main] /\ stray' = (stray \ {f}) \cup {g} /\ UNCHANGED room
    BY <1>5, <2>0, <2>2 DEF Members
  <2> QED BY <1>6, <2>1, <2>2
<1>9. list' \in [AllPools -> Seq(Stream)] /\ \A q \in AllPools : list'[q] \in Seq(Stream) /\ IsInjective(list'[q])
  <2>1. DOMAIN list' = AllPools /\ list' = [q \in AllPools |-> list'[q]]
    BY <1>3 DEF ListInv, TypeInv
  <2>2. \A q \in AllPools : list'[q] \in Seq(Stream) /\ IsInjective(list'[q])
    <3>1. <<>> \in Seq(Stream) /\ IsInjective(<<>>)
      BY DEF IsInjective
    <3> QED BY <1>3, <1>7, <1>8, <3>1 DEF ListInv, TypeInv, NamesInv
  <2> QED BY <2>1, <2>2
<1>10. \A q \in AllPools : \A x \in Stream :
         x \in Members(q)' <=> IF x = f THEN FALSE ELSE IF x = g THEN q = Main /\ g \in Members(Main)' ELSE x \in Members(q)
  <2>1. Members(p)' = {}
    BY <1>3 DEF Members, ToSet
  <2>2. \A q \in AllPools : q # p /\ q # Main => Members(q)' = Members(q)
    BY <1>7 DEF Members
  <2>3. \A q \in AllPools : q # p => f \notin Members(q) /\ g \notin Members(q)
    BY <1>4 DEF ListInv, NamesInv
  <2> QED BY <1>3, <1>4, <1>8, <2>1, <2>2, <2>3
<1>11. /\ pool'[f] = None /\ pool'[g] = Main /\ (\A x \in Stream : x \notin {f, g} => pool'[x] = pool[x])
       /\ Open' = Open /\ pool' \in [Stream -> AllPools \cup {None}]
  BY <1>1, <1>3, <1>4 DEF ListInv, TypeInv, Open
<1>12. /\ ~ Listed(f)'
       /\ Listed(g)' \/ g \in stray'
       /\ \A x \in Stream : x \notin {f, g} => (Listed(x)' <=> Listed(x))
  <2>1. \A x \in Stream : pool[x] \in AllPools \cup {None}
    BY DEF ListInv, TypeInv
  <2> QED BY <1>8, <1>10, <1>11, <2>1, NamesAssumption DEF Listed
<1>13. PlanInv' /\ Between(f)'
  <2>1. ASSUME NEW pf \in Stream, pf # f
        PROVE  /\ \A q \in Pool : pf \in Members(q) /\ pool[f] # q => pf \in Members(q)'
               /\ pool[pf] \notin Pool => pool'[pf] \notin Pool
    <3>1. ASSUME NEW q \in Pool, pf \in Members(q), pool[f] # q PROVE pf \in Members(q)'
      <4>1. q \in AllPools /\ pool[pf] = q
        BY <3>1 DEF AllPools, ListInv, NamesInv
      <4> QED BY <1>4, <1>10, <2>1, <3>1, <4>1
    <3>2. pool[pf] \notin Pool => pool'[pf] \notin Pool
      BY <1>4, <1>11, <2>1
    <3> QED BY <3>1, <3>2
  <2> QED BY <1>1, <1>11, <1>12, <2>1, LeftPlan DEF ListInv
<1>14. TypeInv'
  <2>1. kind' \in [Pool -> {"none", "avail", "plain", "share"}]
    BY <1>3 DEF ListInv, TypeInv
  <2>2. pooled' \subseteq Stream /\ stray' \subseteq Stream
    BY <1>3, <1>6 DEF ListInv, TypeInv
  <2>3. room' \in [AllPools -> Nat] /\ \A q \in AllPools : q # Main => room'[q] = room[q]
    <3>1. (IF Full(Main) THEN Grown(Main) ELSE room[Main]) \in Nat
      BY <1>4, GrownNat DEF ListInv
    <3> HIDE DEF Full, Grown
    <3> QED BY <1>6, <3>1 DEF ListInv, TypeInv
  <2>4. \A q \in AllPools : Len(list'[q]) <= room'[q]
    <3>1. ASSUME NEW q \in AllPools PROVE Len(list'[q]) <= room'[q]
      <4>1. CASE q = Main
        BY <1>8, <4>1
      <4>2. CASE q = p
        <5>1. room[p] \in Nat /\ room'[p] = room[p] /\ Len(list'[p]) = 0
          BY <1>3, <1>4, <2>3 DEF ListInv, TypeInv
        <5> QED BY <4>2, <5>1
      <4>3. CASE q # Main /\ q # p
        BY <1>7, <2>3, <4>3 DEF ListInv, TypeInv
      <4> QED BY <4>1, <4>2, <4>3
    <3> QED BY <3>1
  <2> QED BY <1>1, <1>9, <1>11, <2>1, <2>2, <2>3, <2>4 DEF ListInv, TypeInv
<1>15. \A q \in AllPools : Members(q)' \subseteq Stream
  BY <1>9 DEF Members, ToSet
<1>16. NamesInv'
  <2>1. ASSUME NEW q \in AllPools, NEW x \in Members(q)' PROVE pool'[x] = q
    <3>1. x \in Stream /\ x # f
      BY <1>10, <1>15, <2>1
    <3> QED BY <1>10, <1>11, <2>1, <3>1 DEF ListInv, NamesInv
  <2>2. \A x \in Stream : status'[x] # "open" => pool'[x] = None
    <3>1. status[g] = "open"
      BY <1>3, <1>4, NamesAssumption DEF ListInv, NamesInv, AllPools
    <3> QED BY <1>1, <1>11, <3>1 DEF ListInv, NamesInv
  <2> QED BY <1>9, <2>1, <2>2 DEF NamesInv
<1>17. MarksInv'
  <2>1. ASSUME NEW x \in pooled' PROVE pool'[x] \in Pool /\ Listed(x)' /\ x # HeadOf(pool[x])' /\ pool'[x] = pool[x]
    <3>1. x \in Stream /\ x \notin {f, g} /\ pool[x] \in Pool /\ Listed(x) /\ x # HeadOf(pool[x]) /\ pool[x] \in AllPools
      BY <1>3, <2>1 DEF ListInv, MarksInv, TypeInv, AllPools
    <3>2. pool'[x] = pool[x] /\ Listed(x)'
      BY <1>11, <1>12, <3>1
    <3>3. pool[x] # p /\ pool[x] # Main
      BY <1>3, <3>1, NamesAssumption DEF Listed
    <3> QED BY <1>7, <3>1, <3>2, <3>3 DEF HeadOf
  <2>2. ASSUME NEW q \in Pool, NEW x \in Members(q)' \ (pooled' \cup stray')
        PROVE  x = HeadOf(q)'
    <3>1. q \in AllPools /\ q # Main
      BY NamesAssumption DEF AllPools
    <3>2. x \in Stream /\ x \notin {f, g} /\ x \in Members(q)
      BY <1>10, <1>15, <2>2, <3>1
    <3>3. x \notin pooled /\ x \notin stray /\ q # p
      BY <1>3, <1>6, <2>2, <3>2
    <3>4. x = HeadOf(q)
      <4>1. todo # <<<<"front", x>>>>
        BY <1>1
      <4> QED BY <3>2, <3>3, <4>1 DEF ListInv, MarksInv
    <3> QED BY <1>7, <3>1, <3>3, <3>4 DEF HeadOf
  <2> QED BY <2>1, <2>2 DEF MarksInv, HeadOf
<1>18. ListedInv'
  <2>1. \A x \in Stream : ~ Between(x)
    BY <1>1 DEF Between
  <2>2. \A x \in Open \ stray : x \in Stream /\ Listed(x)
    BY <2>1 DEF ListInv, ListedInv, Open
  <2>3. ASSUME NEW x \in Open \ stray' PROVE Listed(x)' \/ Between(x)'
    <3>1. x \in Stream
      BY DEF Open
    <3>2. CASE x \in {f, g}
      BY <1>12, <1>13, <2>3, <3>2
    <3>3. CASE x \notin {f, g}
      <4>1. x \notin stray
        BY <1>6, <2>3, <3>3
      <4> QED BY <1>12, <2>2, <3>1, <3>3, <4>1
    <3> QED BY <3>2, <3>3
  <2> QED BY <1>11, <2>3 DEF ListedInv
<1>19. PoolsInv'
  <2>1. ASSUME NEW q \in Pool, list'[q] # <<>> PROVE kind'[q] \in {"plain", "share"} /\ (Len(list'[q]) >= 2 \/ Halfway(q)')
    <3>1. q \in AllPools /\ q # Main /\ q # p
      BY <1>3, <2>1, NamesAssumption DEF AllPools
    <3>2. list'[q] = list[q] /\ kind'[q] = kind[q]
      BY <1>3, <1>7, <3>1 DEF ListInv, TypeInv
    <3>3. ASSUME Halfway(q) PROVE Halfway(q)'
      <4>1. PICK x \in stray : pool[x] = q /\ ~Listed(x)
        BY <1>1, <3>3 DEF Halfway
      <4>2. x \in Stream /\ x \notin {f, g}
        BY <1>4, <3>1, <4>1 DEF ListInv, TypeInv
      <4>3. pool'[x] = q /\ ~Listed(x)' /\ x \in stray'
        BY <1>6, <1>11, <1>12, <4>1, <4>2
      <4> QED BY <4>3 DEF Halfway
    <3> QED BY <2>1, <3>2, <3>3 DEF ListInv, PoolsInv
  <2> QED BY <2>1 DEF PoolsInv
<1> QED BY <1>13, <1>14, <1>16, <1>17, <1>18, <1>19 DEF ListInv

----------------------------------------------------------------------------
(* newpool.                                                                *)

\* A set of numbers has a least one: the intervals below its members are
\* finite sets, which strict inclusion orders well.
LEMMA LeastNumber ==
  ASSUME NEW N, N \subseteq Nat, N # {}
  PROVE  \E s \in N : \A r \in N : s <= r
<1> DEFINE Below == {1 .. s : s \in N}
<1>1. IsWellFoundedOn(StrictSubsetOrdering(Nat), FiniteSubsetsOf(Nat))
  BY FS_StrictSubsetOrderingWellFounded
<1>2. Below \subseteq FiniteSubsetsOf(Nat)
  <2>1. \A s \in N : IsFiniteSet(1 .. s) /\ 1 .. s \subseteq Nat
    BY FS_Interval
  <2> QED BY <2>1 DEF FiniteSubsetsOf
<1>3. Below # {}
  OBVIOUS
<1>4. PICK b \in Below : \A c \in Below : ~ (<<c, b>> \in StrictSubsetOrdering(Nat))
  <2> HIDE DEF Below
  <2> QED BY <1>1, <1>2, <1>3, WFMin
<1>5. PICK s \in N : b = 1 .. s
  OBVIOUS
<1>6. ASSUME NEW r \in N, r < s PROVE FALSE
  <2>1. 1 .. r \subseteq 1 .. s /\ s \in 1 .. s /\ s \notin 1 .. r
    BY <1>6
  <2>2. 1 .. r \in SUBSET Nat /\ 1 .. s \in SUBSET Nat /\ 1 .. r # 1 .. s
    BY <2>1
  <2>3. <<1 .. r, 1 .. s>> \in StrictSubsetOrdering(Nat)
    BY <2>1, <2>2, Zenon DEF StrictSubsetOrdering
  <2> QED BY <1>4, <1>5, <2>3
<1>7. \A r \in N : r \in Nat /\ s \in Nat /\ ~(r < s)
  BY <1>6
<1> QED BY <1>7


\* newpool finds a pool when one is not in use.
LEMMA FreshIs ==
  ASSUME Unused # {}
  PROVE  Fresh \in Unused
<1> DEFINE A == {p \in Unused : kind[p] = "avail"}
           First(p) == \A q \in Unused : IF kind[p] = kind[q] THEN p <= q ELSE kind[p] = "avail"
<1>1. Unused \subseteq Nat /\ \A p \in Unused : kind[p] \in {"avail", "none"}
  BY DEF Unused, Pool
<1>2. \E p \in Unused : First(p)
  <2>1. CASE A # {}
    <3>1. PICK p \in A : \A q \in A : p <= q
      BY <1>1, <2>1, LeastNumber
    <3> QED BY <3>1
  <2>2. CASE A = {}
    <3>1. PICK p \in Unused : \A q \in Unused : p <= q
      BY <1>1, LeastNumber
    <3> QED BY <1>1, <2>2, <3>1
  <2> QED BY <2>1, <2>2
<1> QED BY <1>2 DEF Fresh

LEMMA NewPlan ==
  ASSUME PlanInv, NEW f \in Stream, NEW pf, Doing("newpool", f), Head(todo)[3] = pf
  PROVE  /\ f \in Open /\ pf \in Open /\ f # pf /\ pool[f] = None /\ pool[pf] \notin Pool
         /\ Tail(todo) = <<<<"front", f>>>> /\ todo = <<<<"newpool", f, pf, Head(todo)[4]>>, <<"front", f>>>>
<1>1. todo # <<>> /\ Head(todo)[1] = "newpool" /\ Head(todo)[2] = f
  BY DEF Doing, Idle
<1>2. ~ AllPlan
  BY <1>1, AllHead DEF Idle
<1>3. ASSUME NEW g \in Open PROVE ~ OwnPlan(g) /\ ~ MovePlan(g) /\ ~ ClosePlan(g)
  BY <1>1 DEF OwnPlan, MovePlan, ClosePlan
<1>4. PICK g \in Open, h \in Open : g # h /\ PoolPlan(g, h)
  BY <1>1, <1>2, <1>3 DEF PlanInv
<1>5. PICK x \in Joins(g, h) : pool[g] = None /\ todo = <<x, <<"front", g>>>>
  BY <1>1, <1>4 DEF PoolPlan
<1>6. x[1] = "newpool" /\ x[2] = f /\ x[3] = pf
  BY <1>1, <1>5
<1>7. pool[h] \notin Pool /\ \E m \in Modes : x = <<"newpool", g, h, m>>
  BY <1>6 DEF Joins
<1>8. g = f /\ h = pf
  BY <1>6, <1>7
<1>9. Tail(todo) = <<<<"front", g>>>>
  BY <1>5
<1>10. todo = <<<<"newpool", f, pf, Head(todo)[4]>>, <<"front", f>>>>
  <2>1. PICK m \in Modes : x = <<"newpool", f, pf, m>>
    BY <1>7, <1>8
  <2>2. Head(todo) = x
    BY <1>5
  <2>3. Head(todo)[4] = m
    BY <2>1, <2>2
  <2> QED BY <1>5, <1>8, <2>1, <2>3
<1> QED BY <1>4, <1>5, <1>7, <1>8, <1>9, <1>10

LEMMA NewPoolFails ==
  ASSUME ListInv, NEW f \in Stream, Head(todo)[1] = "newpool", Head(todo)[2] = f, todo # <<>>,
         UNCHANGED <<pool, list, room, status, pooled>>, stray' = stray \cup {f}, todo' = <<>>,
         kind' \in [Pool -> {"none", "avail", "plain", "share"}], \A p \in Pool : list[p] # <<>> => kind'[p] = kind[p]
  PROVE  ListInv'
<1>1. Open' = Open /\ (\A g \in Stream : Listed(g)' <=> Listed(g)) /\ \A q \in AllPools : Members(q)' = Members(q) /\ HeadOf(q)' = HeadOf(q)
  BY DEF Open, Listed, Members, HeadOf
<1>2. TypeInv'
  BY DEF ListInv, TypeInv
<1>3. NamesInv'
  BY <1>1 DEF ListInv, NamesInv
<1>4. MarksInv'
  <2>1. \A g \in Stream : todo # <<<<"front", g>>>>
    OBVIOUS
  <2>2. ASSUME NEW q \in Pool, NEW g \in Members(q) \ (pooled \cup stray') PROVE g = HeadOf(q)
    <3>1. g \in Stream /\ g \notin stray
      BY <2>2, MembersAre DEF ListInv, AllPools
    <3> QED BY <2>1, <2>2, <3>1 DEF ListInv, MarksInv
  <2> QED BY <1>1, <2>2 DEF ListInv, MarksInv, HeadOf, Members, Listed
<1>5. ListedInv'
  <2>1. \A g \in Stream : Between(g) => g = f
    BY DEF Between
  <2>2. \A g \in Open \ stray' : g \in Stream /\ Listed(g)
    BY <2>1 DEF ListInv, ListedInv, Open
  <2> QED BY <1>1, <2>2 DEF ListedInv
<1>6. PoolsInv'
  <2>1. ASSUME NEW q \in Pool, Halfway(q) PROVE Halfway(q)'
    <3>1. PICK g \in stray : pool[g] = q /\ ~Listed(g)
      BY <2>1 DEF Halfway
    <3>2. g \in stray' /\ pool'[g] = q /\ ~Listed(g)'
      BY <1>1, <3>1 DEF ListInv, TypeInv
    <3> QED BY <3>2 DEF Halfway
  <2> QED BY <1>1, <2>1 DEF ListInv, PoolsInv
<1>7. PlanInv'
  BY DEF PlanInv
<1> QED BY <1>2, <1>3, <1>4, <1>5, <1>6, <1>7 DEF ListInv

LEMMA NewPoolKeeps ==
  ASSUME ListInv, NEW f \in Stream, NEW pf \in Stream, NEW m \in {"plain", "share"}, NewPool(f, pf, m)
  PROVE  ListInv'
<1>1. Doing("newpool", f) /\ Head(todo)[3] = pf /\ UNCHANGED <<status, pooled>>
  BY DEF NewPool
<1>2. /\ f \in Open /\ pf \in Open /\ f # pf /\ pool[f] = None /\ pool[pf] \notin Pool
      /\ Tail(todo) = <<<<"front", f>>>>
  BY <1>1, NewPlan DEF ListInv
<1>3. todo # <<>> /\ Head(todo)[1] = "newpool" /\ Head(todo)[2] = f
  BY <1>1 DEF Doing, Idle
<1>4. \A p \in Unused : p \in Pool /\ list[p] = <<>>
  BY DEF Unused, ListInv, PoolsInv
<1>5. CASE /\ stray' = stray \cup {f} /\ todo' = <<>> /\ UNCHANGED <<pool, list, room>>
           /\ UNCHANGED kind \/ (Unused # {} /\ kind' = [kind EXCEPT ![Fresh] = m])
  <2>1. /\ kind' \in [Pool -> {"none", "avail", "plain", "share"}]
        /\ \A p \in Pool : list[p] # <<>> => kind'[p] = kind[p]
    <3>1. CASE UNCHANGED kind
      BY <3>1 DEF ListInv, TypeInv
    <3>2. CASE Unused # {} /\ kind' = [kind EXCEPT ![Fresh] = m]
      <4>1. Fresh \in Pool /\ list[Fresh] = <<>>
        BY <1>4, <3>2, FreshIs
      <4> QED BY <3>2, <4>1 DEF ListInv, TypeInv
    <3> QED BY <1>5, <3>1, <3>2
  <2> QED BY <1>1, <1>3, <1>5, <2>1, NewPoolFails
<1>6. CASE /\ Unused # {} /\ kind' = [kind EXCEPT ![Fresh] = m] /\ Listed(pf)
           /\ pool' = [pool EXCEPT ![pf] = Fresh]
           /\ list' = [list EXCEPT ![Main] = Without(list[Main], pf), ![Fresh] = <<pf>>]
           /\ room' = [room EXCEPT ![Fresh] = ArrayLen]
           /\ todo' = <<<<"append", f, Fresh>>>> \o Tail(todo) /\ UNCHANGED stray
  <2>1. PICK p \in Pool : p = Fresh /\ list[p] = <<>>
    BY <1>4, <1>6, FreshIs
  <2>2. p # Main /\ p \in AllPools /\ Main \in AllPools /\ pool[pf] = Main /\ pf \in Members(Main)
    BY <1>2, <1>6, NamesAssumption DEF AllPools, ListInv, TypeInv, Listed
  <2>3. PICK rest \in Seq(Stream) :
          /\ rest = Without(list[Main], pf) /\ Len(rest) = Len(list[Main]) - 1 /\ IsInjective(rest)
          /\ ToSet(rest) = Members(Main) \ {pf}
    <3>1. list[Main] \in Seq(Stream) /\ IsInjective(list[Main]) /\ pf \in ToSet(list[Main])
      BY <2>2, MembersAre DEF ListInv, NamesInv, Members
    <3> QED BY <3>1, WithoutIs DEF Members
  <2>4. /\ list'[Main] = rest /\ list'[p] = <<pf>> /\ \A q \in AllPools : q # p /\ q # Main => list'[q] = list[q]
    BY <1>6, <2>1, <2>2, <2>3 DEF ListInv, TypeInv
  <2>5. <<pf>> \in Seq(Stream) /\ IsInjective(<<pf>>) /\ ToSet(<<pf>>) = {pf} /\ Len(<<pf>>) = 1
    BY DEF IsInjective, ToSet
  <2>6. list' \in [AllPools -> Seq(Stream)] /\ \A q \in AllPools : IsInjective(list'[q])
    <3>1. list' = [list EXCEPT ![Main] = rest, ![p] = <<pf>>]
      BY <1>6, <2>1, <2>3
    <3>2. list' \in [AllPools -> Seq(Stream)]
      BY <2>5, <3>1 DEF ListInv, TypeInv
    <3> QED BY <2>3, <2>4, <2>5, <3>2 DEF ListInv, NamesInv
  <2>7. /\ Members(p)' = {pf} /\ Members(Main)' = Members(Main) \ {pf} /\ Members(p) = {}
        /\ \A q \in AllPools : q # p /\ q # Main => Members(q)' = Members(q)
    <3>1. Members(p) = {}
      BY <2>1 DEF Members, ToSet
    <3> QED BY <2>3, <2>4, <2>5, <3>1 DEF Members
  <2>8. /\ pool'[pf] = p /\ (\A g \in Stream : g # pf => pool'[g] = pool[g])
        /\ Open' = Open /\ pool' \in [Stream -> AllPools \cup {None}]
    BY <1>1, <1>6, <2>1, <2>2 DEF ListInv, TypeInv, Open
  <2>9. Listed(pf)' /\ \A g \in Stream : g # pf => (Listed(g)' <=> Listed(g))
    <3>1. \A g \in Stream : pool[g] \in AllPools \cup {None} /\ (pool[g] = p => g \notin Members(p))
      BY <2>7 DEF ListInv, TypeInv
    <3>2. \A g \in Stream : g # pf => pool[g] # p \/ (~Listed(g) /\ ~Listed(g)')
      BY <2>7, <2>8, <3>1 DEF Listed
    <3>3. Listed(pf)'
      BY <2>7, <2>8, NamesAssumption DEF Listed
    <3> QED BY <2>7, <2>8, <3>1, <3>2, <3>3 DEF Listed
  <2>10. \A q \in AllPools : Members(q)' \subseteq Stream
    BY <2>6 DEF Members, ToSet
  <2>11. TypeInv'
    <3>1. kind' \in [Pool -> {"none", "avail", "plain", "share"}]
      BY <1>6, <2>1 DEF ListInv, TypeInv
    <3>2. room' = [room EXCEPT ![p] = ArrayLen] /\ ArrayLen \in Nat /\ ArrayLen >= 1
      BY <1>6, <2>1, BoundsAssumption
    <3>3. room' \in [AllPools -> Nat] /\ room'[p] = ArrayLen /\ \A q \in AllPools : q # p => room'[q] = room[q]
      BY <2>2, <3>2 DEF ListInv, TypeInv
    <3>4. ASSUME NEW q \in AllPools PROVE Len(list'[q]) <= room'[q]
      <4>1. CASE q = p
        BY <2>4, <2>5, <3>2, <3>3, <4>1
      <4>2. CASE q = Main
        <5>1. Len(list[Main]) \in Nat /\ room[Main] \in Nat /\ Len(list[Main]) <= room[Main]
          BY <2>2, MembersAre DEF ListInv, TypeInv
        <5>2. Len(list'[Main]) = Len(list[Main]) - 1 /\ room'[Main] = room[Main]
          BY <2>2, <2>3, <2>4, <3>3
        <5> QED BY <4>2, <5>1, <5>2
      <4>3. CASE q # p /\ q # Main
        BY <2>4, <3>3, <4>3 DEF ListInv, TypeInv
      <4> QED BY <4>1, <4>2, <4>3
    <3> QED BY <1>1, <1>6, <2>6, <2>8, <3>1, <3>3, <3>4 DEF ListInv, TypeInv
  <2>12. NamesInv'
    <3>1. ASSUME NEW q \in AllPools, NEW g \in Members(q)' PROVE pool'[g] = q
      <4>1. g \in Stream
        BY <2>10
      <4>2. CASE q = p
        BY <2>7, <2>8, <3>1, <4>2
      <4>3. CASE q # p
        <5>1. g \in Members(q) /\ (q = Main => g # pf)
          BY <2>7, <3>1, <4>3
        <5>2. pool[g] = q /\ g # pf
          BY <2>2, <5>1 DEF ListInv, NamesInv
        <5> QED BY <2>8, <4>1, <5>2
      <4> QED BY <4>2, <4>3
    <3>2. \A g \in Stream : status'[g] # "open" => pool'[g] = None
      BY <1>1, <1>2, <2>8 DEF ListInv, NamesInv, Open
    <3> QED BY <2>6, <3>1, <3>2 DEF NamesInv
  <2>13. MarksInv'
    <3>1. ASSUME NEW g \in pooled PROVE pool'[g] \in Pool /\ Listed(g)' /\ g # HeadOf(pool[g])' /\ pool'[g] = pool[g]
      <4>1. g \in Stream /\ pool[g] \in Pool /\ Listed(g) /\ g # HeadOf(pool[g]) /\ pool[g] \in AllPools
        BY <3>1 DEF ListInv, MarksInv, TypeInv, AllPools
      <4>2. g # pf /\ pool[g] # Main
        BY <1>2, <4>1, NamesAssumption
      <4>3. pool[g] # p
        BY <2>7, <4>1 DEF Listed
      <4> QED BY <2>4, <2>8, <2>9, <4>1, <4>2, <4>3 DEF HeadOf
    <3>2. ASSUME NEW q \in Pool, NEW g \in Members(q)' \ (pooled' \cup stray')
          PROVE  g = HeadOf(q)'
      <4>1. q \in AllPools /\ q # Main
        BY NamesAssumption DEF AllPools
      <4>2. CASE q = p
        BY <2>4, <2>7, <3>2, <4>2 DEF HeadOf
      <4>3. CASE q # p
        <5>1. g \in Members(q) /\ g \notin pooled \cup stray /\ g \in Stream
          BY <1>1, <1>6, <2>7, <2>10, <3>2, <4>1, <4>3
        <5>2. todo # <<<<"front", g>>>>
          BY <1>3
        <5>3. g = HeadOf(q)
          BY <5>1, <5>2 DEF ListInv, MarksInv
        <5> QED BY <2>4, <4>1, <4>3, <5>3 DEF HeadOf
      <4> QED BY <4>2, <4>3
    <3> QED BY <1>1, <3>1, <3>2 DEF MarksInv, HeadOf
  <2> DEFINE a == <<"append", f, p>>
             w == <<"front", f>>
  <2>14. todo' = <<a, w>>
    <3>1. Tail(todo) = <<w>>
      BY <1>2
    <3>2. todo' = <<a>> \o Tail(todo)
      BY <1>6, <2>1
    <3> HIDE DEF a, w
    <3> QED BY <3>1, <3>2, OneAndOne
  <2>15. ListedInv'
    <3>1. Between(f)'
      <4> HIDE DEF a, w
      <4>1. todo' # <<>> /\ Head(todo') = a
        BY <2>14, FirstOfTwo
      <4> QED BY <4>1 DEF Between, Idle, a
    <3>2. ASSUME NEW g \in Open \ stray, g # f PROVE Listed(g)'
      <4>1. ~ Between(g) /\ g \in Stream
        BY <1>3, <3>2 DEF Between, Open
      <4>2. Listed(g)
        BY <3>2, <4>1 DEF ListInv, ListedInv
      <4> QED BY <2>9, <4>1, <4>2
    <3> QED BY <1>6, <2>8, <3>1, <3>2 DEF ListedInv
  <2>16. PoolsInv'
    <3>1. ASSUME NEW q \in Pool, list'[q] # <<>> PROVE kind'[q] \in {"plain", "share"} /\ (Len(list'[q]) >= 2 \/ Halfway(q)')
      <4>1. CASE q = p
        <5>1. Halfway(p)'
          BY <2>14 DEF Halfway
        <5>2. kind'[p] = m
          BY <1>6, <2>1 DEF ListInv, TypeInv
        <5> QED BY <4>1, <5>1, <5>2
      <4>2. CASE q # p
        <5>1. q \in AllPools /\ q # Main
          BY NamesAssumption DEF AllPools
        <5>2. list'[q] = list[q] /\ kind'[q] = kind[q]
          BY <1>6, <2>1, <2>4, <4>2, <5>1 DEF ListInv, TypeInv
        <5>3. ASSUME Halfway(q) PROVE Halfway(q)'
          <6>1. PICK g \in stray : pool[g] = q /\ ~Listed(g)
            BY <1>3, <5>3 DEF Halfway
          <6>2. g \in Stream /\ g # pf
            BY <2>2, <5>1, <6>1 DEF ListInv, TypeInv
          <6>3. pool'[g] = q /\ ~Listed(g)' /\ g \in stray'
            BY <1>6, <2>8, <2>9, <6>1, <6>2
          <6> QED BY <6>3 DEF Halfway
        <5> QED BY <3>1, <5>2, <5>3 DEF ListInv, PoolsInv
      <4> QED BY <4>1, <4>2
    <3> QED BY <3>1 DEF PoolsInv
  <2>17. PlanInv'
    <3>1. a \in Joins(f, pf)'
      <4>1. pf \in Members(p)' /\ pool'[f] # p
        BY <1>2, <2>7, <2>8, NamesAssumption
      <4> QED BY <4>1 DEF Joins
    <3>2. pool'[f] = None
      BY <1>2, <2>8
    <3>3. PoolPlan(f, pf)'
      <4> HIDE DEF a
      <4> QED BY <2>14, <3>1, <3>2 DEF PoolPlan
    <3> QED BY <1>2, <2>8, <3>3 DEF PlanInv
  <2> QED BY <2>11, <2>12, <2>13, <2>15, <2>16, <2>17 DEF ListInv
<1> QED BY <1>5, <1>6 DEF NewPool, Return, Expand

----------------------------------------------------------------------------
(* A stream comes and goes.                                                *)

LEMMA ClosedPlan ==
  ASSUME PlanInv, NEW f \in Stream, Doing("closed", f)
  PROVE  ~ Listed(f) /\ pool[f] \notin Pool
<1>1. todo # <<>> /\ Head(todo)[1] = "closed" /\ Head(todo)[2] = f
  BY DEF Doing, Idle
<1>2. ~ AllPlan
  BY <1>1, AllHead DEF Idle
<1>3. ASSUME NEW g \in Open, NEW h \in Open PROVE ~ OwnPlan(g) /\ ~ MovePlan(g) /\ ~ PoolPlan(g, h)
  <2>1. \A x \in Joins(g, h) : x[1] # "closed"
    BY DEF Joins
  <2> QED BY <1>1, <2>1 DEF OwnPlan, MovePlan, PoolPlan
<1>4. PICK g \in Open : ClosePlan(g)
  BY <1>1, <1>2, <1>3 DEF PlanInv
<1>5. ~Listed(g) /\ pool[g] \notin Pool /\ todo = <<<<"closed", g>>>>
  BY <1>1, <1>4 DEF ClosePlan
<1> QED BY <1>1, <1>5

LEMMA ClosedKeeps ==
  ASSUME ListInv, NEW f \in Stream, Closed(f)
  PROVE  ListInv'
<1>1. /\ Doing("closed", f) /\ todo # <<>> /\ Head(todo)[1] = "closed" /\ Head(todo)[2] = f /\ todo' = <<>>
      /\ status' = [status EXCEPT ![f] = "closed"] /\ pool' = [pool EXCEPT ![f] = None]
      /\ stray' = stray \ {f} /\ UNCHANGED <<list, room, kind, pooled>>
  BY DEF Closed, Doing, Idle, Return
<1>2. ~ Listed(f) /\ pool[f] \notin Pool
  BY <1>1, ClosedPlan DEF ListInv
<1>3. \A q \in AllPools : f \notin Members(q) /\ Members(q)' = Members(q) /\ HeadOf(q)' = HeadOf(q)
  BY <1>1, <1>2, NamesAssumption DEF ListInv, NamesInv, Listed, Members, HeadOf, AllPools
<1>4. /\ pool'[f] = None /\ (\A g \in Stream : g # f => pool'[g] = pool[g])
      /\ Open' = Open \ {f} /\ pool' \in [Stream -> AllPools \cup {None}]
  BY <1>1 DEF ListInv, TypeInv, Open
<1>5. \A g \in Stream : g # f => (Listed(g)' <=> Listed(g))
  BY <1>1, <1>4 DEF Listed, Members
<1>6. TypeInv'
  BY <1>1, <1>4 DEF ListInv, TypeInv
<1>7. NamesInv'
  <2>1. ASSUME NEW q \in AllPools, NEW g \in Members(q) PROVE pool'[g] = q
    BY <1>3, <1>4, <2>1, MembersAre DEF ListInv, NamesInv
  <2>2. \A g \in Stream : status'[g] # "open" => pool'[g] = None
    BY <1>1, <1>4 DEF ListInv, NamesInv, TypeInv
  <2> QED BY <1>1, <1>3, <2>1, <2>2 DEF ListInv, NamesInv
<1>8. MarksInv'
  <2>1. ASSUME NEW g \in pooled PROVE pool'[g] = pool[g] /\ Listed(g)'
    BY <1>2, <1>4, <1>5 DEF ListInv, MarksInv, TypeInv
  <2>2. ASSUME NEW q \in Pool, NEW g \in Members(q) \ (pooled \cup stray') PROVE g = HeadOf(q)
    <3>1. q \in AllPools /\ g \in Stream /\ g # f /\ g \notin stray
      BY <1>1, <1>3, <2>2, MembersAre DEF ListInv, AllPools
    <3> QED BY <1>1, <2>2, <3>1 DEF ListInv, MarksInv
  <2> QED BY <1>1, <2>1, <2>2 DEF ListInv, MarksInv, HeadOf, Members
<1>9. ListedInv'
  <2>1. \A g \in Open \ stray : g # f => g \in Stream /\ Listed(g)
    BY <1>1 DEF ListInv, ListedInv, Open, Between
  <2> QED BY <1>1, <1>4, <1>5, <2>1 DEF ListedInv
<1>10. PoolsInv'
  <2>1. ASSUME NEW q \in Pool, Halfway(q) PROVE Halfway(q)'
    <3>1. PICK g \in stray : pool[g] = q /\ ~Listed(g)
      BY <1>1, <2>1 DEF Halfway
    <3>2. g \in Stream /\ g # f
      BY <1>2, <3>1 DEF ListInv, TypeInv
    <3>3. pool'[g] = q /\ ~Listed(g)' /\ g \in stray'
      BY <1>1, <1>4, <1>5, <3>1, <3>2
    <3> QED BY <3>3 DEF Halfway
  <2> QED BY <1>1, <2>1 DEF ListInv, PoolsInv
<1>11. PlanInv'
  BY <1>1 DEF PlanInv
<1> QED BY <1>6, <1>7, <1>8, <1>9, <1>10, <1>11 DEF ListInv

LEMMA CallOpenKeeps ==
  ASSUME ListInv, NEW f \in Stream, CallOpen(f)
  PROVE  ListInv'
<1> DEFINE a == <<"append", f, Main>>
<1>1. /\ todo = <<>> /\ status[f] = "fresh" /\ status' = [status EXCEPT ![f] = "open"]
      /\ todo' = <<a>> /\ UNCHANGED <<pool, list, room, kind, pooled, stray>>
  BY DEF CallOpen, Idle, marks
<1>2. pool[f] = None /\ Open' = Open \cup {f} /\ \A g \in Stream : Listed(g)' <=> Listed(g)
  BY <1>1 DEF ListInv, NamesInv, TypeInv, Open, Listed, Members
<1>3. Between(f)'
  <2> HIDE DEF a
  <2>1. todo' # <<>> /\ Head(todo') = a
    BY <1>1, FirstIs
  <2> QED BY <2>1 DEF Between, Idle, a
<1>4. TypeInv'
  BY <1>1 DEF ListInv, TypeInv
<1>5. NamesInv'
  BY <1>1, <1>2 DEF ListInv, NamesInv, TypeInv, Members
<1>6. MarksInv'
  BY <1>1, <1>2 DEF ListInv, MarksInv, Members, HeadOf, Listed
<1>7. ListedInv'
  <2>1. \A g \in Open \ stray : g \in Stream /\ Listed(g)
    BY <1>1 DEF ListInv, ListedInv, Open, Between, Idle
  <2> QED BY <1>1, <1>2, <1>3, <2>1 DEF ListedInv
<1>8. PoolsInv'
  <2>1. ASSUME NEW q \in Pool, Halfway(q) PROVE Halfway(q)'
    <3>1. PICK g \in stray : pool[g] = q /\ ~Listed(g)
      BY <1>1, <2>1 DEF Halfway
    <3>2. g \in stray' /\ pool'[g] = q /\ ~Listed(g)'
      BY <1>1, <1>2, <3>1 DEF ListInv, TypeInv
    <3> QED BY <3>2 DEF Halfway
  <2> QED BY <1>1, <2>1 DEF ListInv, PoolsInv
<1>9. MovePlan(f)'
  BY <1>1, <1>2 DEF MovePlan
<1>10. PlanInv'
  BY <1>2, <1>9 DEF PlanInv
<1> QED BY <1>4, <1>5, <1>6, <1>7, <1>8, <1>10 DEF ListInv

----------------------------------------------------------------------------

LEMMA ListInvInit == Init => ListInv
<1> SUFFICES ASSUME Init PROVE ListInv
  OBVIOUS
<1>1. /\ pool = [f \in Stream |-> IF f \in AtStart THEN Main ELSE None]
      /\ list = [p \in AllPools |-> IF p = Main THEN InMain ELSE <<>>]
      /\ room = [p \in AllPools |-> ArrayLen] /\ kind = [p \in Pool |-> "none"]
      /\ status = [f \in Stream |-> IF f \in AtStart THEN "open" ELSE "fresh"]
      /\ pooled = {} /\ stray = {} /\ todo = <<>>
  BY DEF Init, AllPools
<1>2. Main \in AllPools /\ Main \notin Pool /\ None # Main
  BY NamesAssumption DEF AllPools
<1>3. /\ InMain \in Seq(Stream) /\ Len(InMain) <= ArrayLen /\ IsInjective(InMain) /\ ToSet(InMain) = AtStart
  <2> DEFINE n == Cardinality(AtStart)
  <2>1. n \in Nat /\ ExistsBijection(1 .. n, AtStart)
    BY StreamsAssumption, FS_CardinalityType
  <2>2. \E s \in [1 .. n -> AtStart] : IsInjective(s)
    BY <2>1 DEF ExistsBijection, Bijection, Injection
  <2>3. InMain \in [1 .. n -> AtStart] /\ IsInjective(InMain)
    BY <2>2 DEF InMain, SetToSeq
  <2>4. Len(InMain) = n
    BY <2>1, <2>3
  <2>5. InMain \in Injection(1 .. n, AtStart)
    BY <2>3 DEF Injection
  <2>6. Cardinality(1 .. n) = n
    BY <2>1, FS_Interval
  <2>7. InMain \in Surjection(1 .. n, AtStart)
    BY <2>5, <2>6, StreamsAssumption, FS_Injection
  <2>8. ToSet(InMain) = AtStart
    BY <2>3, <2>7 DEF Surjection, ToSet
  <2>9. InMain \in Seq(Stream)
    BY <2>1, <2>3, StreamsAssumption
  <2> QED BY <2>3, <2>4, <2>8, <2>9, BoundsAssumption
<1>4. /\ list[Main] = InMain /\ \A p \in AllPools : p # Main => list[p] = <<>>
  BY <1>1, <1>2
<1>5. Members(Main) = AtStart /\ \A p \in AllPools : p # Main => Members(p) = {}
  BY <1>3, <1>4 DEF Members, ToSet
<1>6. TypeInv
  <2>1. list \in [AllPools -> Seq(Stream)] /\ room \in [AllPools -> Nat] /\ \A p \in AllPools : Len(list[p]) <= room[p]
    <3>1. <<>> \in Seq(Stream) /\ Len(<<>>) = 0 /\ ArrayLen \in Nat
      BY BoundsAssumption
    <3>2. \A p \in AllPools : list[p] \in Seq(Stream) /\ room[p] = ArrayLen /\ Len(list[p]) <= ArrayLen
      BY <1>1, <1>3, <1>4, <3>1
    <3> QED BY <1>1, <3>1, <3>2
  <2> QED BY <1>1, <1>2, <2>1, StreamsAssumption DEF TypeInv
<1>7. NamesInv
  <2>1. \A p \in AllPools : IsInjective(list[p])
    BY <1>3, <1>4 DEF IsInjective
  <2>2. \A p \in AllPools : \A f \in Members(p) : pool[f] = p
    BY <1>1, <1>5, StreamsAssumption
  <2> QED BY <1>1, <2>1, <2>2 DEF NamesInv
<1>8. MarksInv
  BY <1>1, <1>2, <1>5 DEF MarksInv, AllPools
<1>9. ListedInv
  BY <1>1, <1>2, <1>5, StreamsAssumption DEF ListedInv, Listed, Open
<1>10. PoolsInv
  BY <1>2, <1>4 DEF PoolsInv, AllPools
<1>11. PlanInv
  BY <1>1 DEF PlanInv
<1> QED BY <1>6, <1>7, <1>8, <1>9, <1>10, <1>11 DEF ListInv

LEMMA ListInvNext == ListInv /\ [Next]_vars /\ [CarefulCall]_vars => ListInv'
<1> SUFFICES ASSUME ListInv, [Next]_vars, [CarefulCall]_vars PROVE ListInv'
  OBVIOUS
<1>1. CASE UNCHANGED vars
  <2>1. UNCHANGED <<pool, list, room, kind, status, pooled, stray, todo>>
    BY <1>1 DEF vars, lists, marks
  <2>2. Open' = Open /\ (\A f : Members(f)' = Members(f)) /\ \A f : Listed(f)' <=> Listed(f)
    BY <2>1 DEF Open, Members, Listed
  <2>3. TypeInv' /\ NamesInv' /\ MarksInv'
    BY <2>1, <2>2 DEF ListInv, TypeInv, NamesInv, MarksInv, HeadOf, Members, Listed
  <2>4. ListedInv' /\ PoolsInv'
    BY <2>1, <2>2 DEF ListInv, ListedInv, PoolsInv, Between, Halfway, Idle
  <2>5. AllPlan' <=> AllPlan
    BY <2>1 DEF AllPlan
  <2>6. \A f \in Open : (OwnPlan(f)' <=> OwnPlan(f)) /\ (MovePlan(f)' <=> MovePlan(f)) /\ (ClosePlan(f)' <=> ClosePlan(f))
    BY <2>1, <2>2 DEF OwnPlan, MovePlan, ClosePlan
  <2>7. \A f, pf \in Open : PoolPlan(f, pf)' <=> PoolPlan(f, pf)
    BY <2>1, <2>2 DEF PoolPlan, Joins
  <2>8. PlanInv'
    BY <2>1, <2>2, <2>5, <2>6, <2>7 DEF ListInv, PlanInv
  <2> QED BY <2>3, <2>4, <2>8 DEF ListInv
<1>2. CASE Call /\ CarefulCall
  <2>1. Open \subseteq Stream
    BY DEF Open
  <2> QED BY <1>2, <2>1, CallSyncAllKeeps, CallOpenKeeps, CallOwnKeeps, CallCloseKeeps, CallPoolKeeps
          DEF Call, CarefulCall
<1>3. CASE Step
  <2>1. ASSUME NEW f \in Stream, Sync(f) \/ SyncFails(f) PROVE ListInv'
    BY <2>1, SyncKeeps
  <2>2. ASSUME PassOver PROVE ListInv'
    <3>1. Sync(None) \/ SyncFails(None) \/ PassOver
      BY <2>2
    <3> QED BY <3>1, SyncKeeps
  <2>3. ASSUME NEW f \in Stream, NEW p \in Pool \cup {Main}, Join(f, p) PROVE ListInv'
    BY <2>3, JoinKeeps DEF AllPools
  <2>4. ASSUME NEW f \in Stream,
               ToFront(f) \/ FrontFails(f) \/ InFront(f) \/ Leave(f) \/ Dissolve(f) \/ LeaveFails(f)
                 \/ Put(f) \/ PutFlush(f) \/ Get(f) \/ Deleting(f) \/ Closed(f)
        PROVE ListInv'
    BY <2>4, ToFrontKeeps, FrontFailsKeeps, InFrontKeeps, LeaveKeeps, DissolveKeeps, LastKeeps, DeletingKeeps, ClosedKeeps
  <2>5. ASSUME End PROVE ListInv'
    BY <2>5, LastKeeps
  <2> QED BY <1>3, <2>1, <2>2, <2>3, <2>4, <2>5, NewPoolKeeps, PoolingKeeps DEF Step
<1> QED BY <1>1, <1>2, <1>3 DEF Next

LEMMA ListInvAlways == Spec /\ Careful => []ListInv
<1> QED BY ListInvInit, ListInvNext, PTL DEF Spec, Careful

LEMMA ListInvConsistent == ListInv => ListsConsistent
<1> SUFFICES ASSUME ListInv, Idle PROVE ListsConsistent
  BY DEF ListsConsistent
<1>1. todo = <<>> /\ \A f \in Stream : todo # <<<<"front", f>>>> /\ ~ Between(f)
  BY DEF Idle, Between
<1> DEFINE used == {q \in Pool : list[q] # <<>>}
           behind == UNION {Members(p) \ {HeadOf(p)} : p \in used}
<1>2. \A p \in AllPools : IsInjective(list[p]) /\ \A f \in Members(p) : pool[f] = p
  BY DEF ListInv, NamesInv
<1>3. \A f \in Open \ stray : Listed(f)
  BY <1>1 DEF ListInv, ListedInv, Open
<1>4. pooled \subseteq behind
  <2>1. ASSUME NEW f \in pooled PROVE \E p \in used : f \in Members(p) \ {HeadOf(p)}
    <3>1. pool[f] \in Pool /\ f \in Members(pool[f]) /\ f # HeadOf(pool[f])
      BY DEF ListInv, MarksInv, Listed
    <3>2. list[pool[f]] # <<>>
      BY <3>1, MembersAre DEF ListInv, AllPools
    <3> QED BY <3>1, <3>2
  <2> HIDE DEF used
  <2> QED BY <2>1
<1>5. behind \subseteq pooled \cup stray
  <2>1. ASSUME NEW p \in used, NEW f \in Members(p) \ {HeadOf(p)} PROVE f \in pooled \cup stray
    <3>1. f \in Stream
      BY MembersAre DEF ListInv, AllPools
    <3> QED BY <1>1, <2>1, <3>1 DEF ListInv, MarksInv
  <2> HIDE DEF used
  <2> QED BY <2>1
<1>6. stray = {} => \A p \in Pool : list[p] # <<>> => kind[p] \in {"plain", "share"} /\ Len(list[p]) >= 2
  <2>1. stray = {} => \A p \in Pool : ~ Halfway(p)
    BY <1>1 DEF Halfway
  <2> QED BY <2>1 DEF ListInv, PoolsInv
<1>7. pooled \cup stray = stray \cup behind
  BY <1>4, <1>5
<1> QED BY <1>2, <1>3, <1>6, <1>7 DEF ListsConsistent, AllPools

\* Between calls every open stream is listed once, in the pool it names, and
\* SF_POOL marks exactly those that are not at the head of theirs; the streams
\* that a failed call left half-way are excepted (_sfphead, _sfpdelete,
\* _sfsetpool). It holds whatever fails, for any number of streams and pools.
THEOREM ListsConsistentAlways == Spec /\ Careful => []ListsConsistent
<1> QED BY ListInvAlways, ListInvConsistent, PTL

----------------------------------------------------------------------------
(* Buffers.                                                                *)

\* A sequence in order falls into two with no element in common.
LEMMA SplitIs ==
  ASSUME NEW S, S \subseteq Nat, NEW s \in Seq(S), Increasing(s), NEW j \in 0 .. Len(s)
  PROVE  /\ SubSeq(s, 1, j) \in Seq(S) /\ SubSeq(s, j + 1, Len(s)) \in Seq(S)
         /\ IsInjective(SubSeq(s, 1, j)) /\ Increasing(SubSeq(s, j + 1, Len(s)))
         /\ ToSet(SubSeq(s, 1, j)) \cup ToSet(SubSeq(s, j + 1, Len(s))) = ToSet(s)
         /\ ToSet(SubSeq(s, 1, j)) \cap ToSet(SubSeq(s, j + 1, Len(s))) = {}
         /\ \A x \in ToSet(SubSeq(s, 1, j)), y \in ToSet(SubSeq(s, j + 1, Len(s))) : x < y
<1> DEFINE a == SubSeq(s, 1, j)
           b == SubSeq(s, j + 1, Len(s))
<1>1. Len(s) \in Nat /\ DOMAIN s = 1 .. Len(s) /\ \A i \in 1 .. Len(s) : s[i] \in S
  OBVIOUS
<1>2. \A i, k \in 1 .. Len(s) : i < k => s[i] < s[k]
  BY <1>1 DEF Increasing
<1>3. a \in Seq(S) /\ Len(a) = j /\ DOMAIN a = 1 .. j /\ \A i \in 1 .. j : a[i] = s[i]
  <2>1. \A i \in 1 .. j : s[i] \in S
    BY <1>1
  <2>2. a \in Seq(S) /\ Len(a) = IF 1 <= j THEN j - 1 + 1 ELSE 0
    BY <2>1, <1>1, SubSeqProperties
  <2>3. \A i \in 1 .. j - 1 + 1 : a[i] = s[1 + i - 1]
    BY <2>1, <1>1, SubSeqProperties
  <2>4. Len(a) = j
    BY <1>1, <2>2
  <2> QED BY <1>1, <2>2, <2>3, <2>4
<1>4. b \in Seq(S) /\ DOMAIN b = 1 .. Len(s) - j /\ \A i \in 1 .. Len(s) - j : b[i] = s[j + i]
  <2>1. \A i \in j + 1 .. Len(s) : s[i] \in S
    BY <1>1
  <2>2. b \in Seq(S) /\ Len(b) = IF j + 1 <= Len(s) THEN Len(s) - (j + 1) + 1 ELSE 0
    BY <2>1, <1>1, SubSeqProperties
  <2>3. \A i \in 1 .. Len(s) - (j + 1) + 1 : b[i] = s[(j + 1) + i - 1]
    BY <2>1, <1>1, SubSeqProperties
  <2>4. Len(b) = Len(s) - j
    <3>1. j + 1 <= Len(s) \/ Len(s) = j
      <4> DEFINE l == Len(s)
      <4>1. l \in Nat /\ j \in 0 .. l
        BY <1>1
      <4> HIDE DEF l
      <4>2. j + 1 <= l \/ l = j
        BY <4>1
      <4> QED BY <4>2 DEF l
    <3>2. j + 1 <= Len(s) => Len(s) - (j + 1) + 1 = Len(s) - j
      BY <1>1
    <3>3. Len(s) = j => ~ (j + 1 <= Len(s)) /\ Len(s) - j = 0
      BY <1>1
    <3> QED BY <2>2, <3>1, <3>2, <3>3
  <2>5. Len(s) - (j + 1) + 1 = Len(s) - j /\ \A i \in 1 .. Len(s) - j : (j + 1) + i - 1 = j + i
    BY <1>1
  <2>6. \A i \in 1 .. Len(s) - j : b[i] = s[j + i]
    BY <2>3, <2>5
  <2>7. DOMAIN b = 1 .. Len(s) - j
    BY <2>2, <2>4
  <2> QED BY <2>2, <2>6, <2>7
<1> HIDE DEF a, b
<1>5. IsInjective(a)
  <2> SUFFICES ASSUME NEW i \in 1 .. j, NEW k \in 1 .. j, a[i] = a[k] PROVE i = k
    BY <1>3 DEF IsInjective
  <2>0. i \in 1 .. Len(s) /\ k \in 1 .. Len(s)
    BY <1>1
  <2>a. s[i] \in S /\ s[i] = s[k]
    BY <1>1, <1>3, <2>0
  <2>1. i \in 1 .. Len(s) /\ k \in 1 .. Len(s) /\ s[i] = s[k] /\ s[i] \in Nat
    BY <2>0, <2>a
  <2>2. ~ (i < k) /\ ~ (k < i)
    BY <1>2, <2>1
  <2> QED BY <2>2
<1>6. Increasing(b)
  <2> SUFFICES ASSUME NEW i \in 1 .. Len(s) - j, NEW k \in 1 .. Len(s) - j, i < k PROVE b[i] < b[k]
    BY <1>4 DEF Increasing
  <2>1. j + i \in 1 .. Len(s) /\ j + k \in 1 .. Len(s) /\ j + i < j + k
    BY <1>1
  <2> QED BY <1>2, <1>4, <2>1
<1>7. /\ ToSet(s) = {s[i] : i \in 1 .. Len(s)} /\ ToSet(a) = {a[i] : i \in 1 .. j}
      /\ ToSet(b) = {b[i] : i \in 1 .. Len(s) - j}
  BY <1>1, <1>3, <1>4 DEF ToSet
<1>8. ToSet(a) \subseteq ToSet(s)
  <2>1. \A i \in 1 .. j : i \in 1 .. Len(s)
    BY <1>1
  <2> QED BY <1>3, <1>7, <2>1
<1>9. ToSet(b) \subseteq ToSet(s)
  <2>1. \A i \in 1 .. Len(s) - j : j + i \in 1 .. Len(s)
    BY <1>1
  <2> QED BY <1>4, <1>7, <2>1
<1>10. ToSet(s) \subseteq ToSet(a) \cup ToSet(b)
  <2>1. ASSUME NEW i \in 1 .. Len(s), i > j PROVE i - j \in 1 .. Len(s) - j /\ j + (i - j) = i
    BY <1>1, <2>1
  <2>2. ASSUME NEW i \in 1 .. Len(s), i > j PROVE \E k \in 1 .. Len(s) - j : s[i] = b[k]
    <3>1. i - j \in 1 .. Len(s) - j /\ b[i - j] = s[i]
      BY <1>4, <2>1, <2>2
    <3> QED BY <3>1
  <2>3. ASSUME NEW i \in 1 .. Len(s), ~ (i > j) PROVE \E k \in 1 .. j : s[i] = a[k]
    <3>1. i \in 1 .. j
      BY <1>1, <2>3
    <3> QED BY <1>3, <3>1
  <2> QED BY <1>7, <2>2, <2>3
<1>11. ASSUME NEW x \in ToSet(a), NEW y \in ToSet(b) PROVE x < y /\ x \in Nat
  <2>1. PICK i \in 1 .. j : x = s[i]
    BY <1>3, <1>7
  <2>2. PICK k \in 1 .. Len(s) - j : y = s[j + k]
    BY <1>4, <1>7
  <2>3. i \in 1 .. Len(s) /\ j + k \in 1 .. Len(s) /\ i < j + k
    BY <1>1
  <2>4. s[i] < s[j + k] /\ s[i] \in Nat
    BY <1>1, <1>2, <2>3
  <2> QED BY <2>1, <2>2, <2>4
<1>12. ToSet(a) \cap ToSet(b) = {}
  <2>1. ASSUME NEW x \in ToSet(a), x \in ToSet(b) PROVE FALSE
    <3>1. x < x /\ x \in Nat
      BY <1>11, <2>1
    <3> QED BY <3>1
  <2> QED BY <2>1
<1> QED BY <1>3, <1>4, <1>5, <1>6, <1>8, <1>9, <1>10, <1>11, <1>12 DEF a, b

LEMMA ConcatIs ==
  ASSUME NEW S, NEW s \in Seq(S), NEW t \in Seq(S), IsInjective(s), IsInjective(t), ToSet(s) \cap ToSet(t) = {}
  PROVE  s \o t \in Seq(S) /\ IsInjective(s \o t) /\ ToSet(s \o t) = ToSet(s) \cup ToSet(t)
<1> DEFINE u == s \o t
<1>1. /\ Len(s) \in Nat /\ DOMAIN s = 1 .. Len(s) /\ Len(t) \in Nat /\ DOMAIN t = 1 .. Len(t)
      /\ u \in Seq(S) /\ Len(u) = Len(s) + Len(t)
  BY ConcatProperties
<1>2. DOMAIN u = 1 .. Len(s) + Len(t)
  BY <1>1
<1>3. \A i \in 1 .. Len(s) + Len(t) : u[i] = IF i <= Len(s) THEN s[i] ELSE t[i - Len(s)]
  BY ConcatProperties
<1> HIDE DEF u
<1>4. /\ ToSet(s) = {s[i] : i \in 1 .. Len(s)} /\ ToSet(t) = {t[i] : i \in 1 .. Len(t)}
      /\ ToSet(u) = {u[i] : i \in 1 .. Len(s) + Len(t)}
  BY <1>1, <1>2 DEF ToSet
<1>5. \A i \in 1 .. Len(s) + Len(t) : /\ i <= Len(s) => i \in 1 .. Len(s)
                                      /\ ~ (i <= Len(s)) => i - Len(s) \in 1 .. Len(t)
  BY <1>1
<1>6. \A i \in 1 .. Len(s) : i \in 1 .. Len(s) + Len(t) /\ u[i] = s[i]
  <2>1. \A i \in 1 .. Len(s) : i \in 1 .. Len(s) + Len(t) /\ i <= Len(s)
    BY <1>1
  <2> QED BY <1>3, <2>1
<1>7. \A i \in 1 .. Len(t) : Len(s) + i \in 1 .. Len(s) + Len(t) /\ u[Len(s) + i] = t[i]
  <2>1. \A i \in 1 .. Len(t) : Len(s) + i \in 1 .. Len(s) + Len(t) /\ ~ (Len(s) + i <= Len(s)) /\ (Len(s) + i) - Len(s) = i
    BY <1>1
  <2> QED BY <1>3, <2>1
<1>8. ToSet(u) \subseteq ToSet(s) \cup ToSet(t)
  BY <1>3, <1>4, <1>5
<1>9. ToSet(s) \cup ToSet(t) \subseteq ToSet(u)
  BY <1>4, <1>6, <1>7
<1>10. IsInjective(u)
  <2> SUFFICES ASSUME NEW i \in 1 .. Len(s) + Len(t), NEW k \in 1 .. Len(s) + Len(t), u[i] = u[k] PROVE i = k
    BY <1>2 DEF IsInjective
  <2>1. \A a, b \in 1 .. Len(s) : s[a] = s[b] => a = b
    BY <1>1 DEF IsInjective
  <2>2. \A a, b \in 1 .. Len(t) : t[a] = t[b] => a = b
    BY <1>1 DEF IsInjective
  <2>3. \A a \in 1 .. Len(s), b \in 1 .. Len(t) : s[a] # t[b]
    BY <1>4
  <2>4. CASE i <= Len(s) /\ k <= Len(s)
    BY <1>3, <1>5, <2>1, <2>4
  <2>5. CASE ~ (i <= Len(s)) /\ ~ (k <= Len(s))
    <3>1. i - Len(s) = k - Len(s)
      BY <1>3, <1>5, <2>2, <2>5
    <3> QED BY <1>1, <3>1
  <2>6. CASE i <= Len(s) /\ ~ (k <= Len(s))
    BY <1>3, <1>5, <2>3, <2>6
  <2>7. CASE ~ (i <= Len(s)) /\ k <= Len(s)
    BY <1>3, <1>5, <2>3, <2>7
  <2> QED BY <2>4, <2>5, <2>6, <2>7
<1> QED BY <1>1, <1>8, <1>9, <1>10 DEF u

\* The first bytes of h are written, and the others stay or go to the empty
\* buffer of f.
LEMMA MoveBytes ==
  ASSUME BytesInv, NEW h \in Stream, NEW f \in Stream, f = h \/ buf[f] = <<>>, NEW j \in 0 .. Len(buf[h]),
         out' = out \o SubSeq(buf[h], 1, j),
         buf' = [buf EXCEPT ![h] = <<>>, ![f] = SubSeq(buf[h], j + 1, Len(buf[h]))], UNCHANGED <<by, lost>>
  PROVE  BytesInv'
<1> DEFINE n == Len(by)
           a == SubSeq(buf[h], 1, j)
           b == SubSeq(buf[h], j + 1, Len(buf[h]))
<1>1. n \in Nat /\ buf[h] \in Seq(1 .. n) /\ Increasing(buf[h]) /\ n' = n
  BY DEF BytesInv
<1>0. a = SubSeq(buf[h], 1, j) /\ b = SubSeq(buf[h], j + 1, Len(buf[h]))
  OBVIOUS
<1>3. out' = out \o a /\ buf' = [buf EXCEPT ![h] = <<>>, ![f] = b]
  OBVIOUS
<1> HIDE DEF a, b
<1>2. /\ a \in Seq(1 .. n) /\ b \in Seq(1 .. n) /\ IsInjective(a) /\ Increasing(b)
      /\ ToSet(a) \cup ToSet(b) = Waits(h) /\ ToSet(a) \cap ToSet(b) = {}
  <2> DEFINE s == buf[h]
             S == 1 .. n
  <2> HIDE DEF n
  <2>1. s \in Seq(S) /\ Increasing(s) /\ j \in 0 .. Len(s) /\ S \subseteq Nat
    BY <1>1
  <2>2. a = SubSeq(s, 1, j) /\ b = SubSeq(s, j + 1, Len(s))
    BY <1>0
  <2> HIDE DEF s, S
  <2>3. /\ a \in Seq(S) /\ b \in Seq(S) /\ IsInjective(a) /\ Increasing(b)
        /\ ToSet(a) \cup ToSet(b) = ToSet(s) /\ ToSet(a) \cap ToSet(b) = {}
    <3>1. /\ SubSeq(s, 1, j) \in Seq(S) /\ SubSeq(s, j + 1, Len(s)) \in Seq(S)
          /\ IsInjective(SubSeq(s, 1, j)) /\ Increasing(SubSeq(s, j + 1, Len(s)))
          /\ ToSet(SubSeq(s, 1, j)) \cup ToSet(SubSeq(s, j + 1, Len(s))) = ToSet(s)
          /\ ToSet(SubSeq(s, 1, j)) \cap ToSet(SubSeq(s, j + 1, Len(s))) = {}
      BY <2>1, SplitIs
    <3> QED BY <2>2, <3>1
  <2> QED BY <2>3 DEF Waits, s, S
<1>4. out' \in Seq(1 .. n) /\ IsInjective(out') /\ ToSet(out') = ToSet(out) \cup ToSet(a)
  <2>1. ToSet(out) \cap ToSet(a) = {}
    BY <1>2 DEF BytesInv, Gone
  <2>2. out \in Seq(1 .. n) /\ IsInjective(out)
    BY DEF BytesInv
  <2> DEFINE S == 1 .. n
  <2>3. out \in Seq(S) /\ a \in Seq(S) /\ IsInjective(a)
    BY <1>2, <2>2
  <2> HIDE DEF n, S
  <2>4. out \o a \in Seq(S) /\ IsInjective(out \o a) /\ ToSet(out \o a) = ToSet(out) \cup ToSet(a)
    BY <2>1, <2>2, <2>3, ConcatIs
  <2> QED BY <1>3, <2>4 DEF S
<1>5. /\ <<>> \in Seq(1 .. n) /\ Increasing(<<>>) /\ ToSet(<<>>) = {}
  BY DEF Increasing, ToSet
<1>6. /\ buf'[f] = b /\ (h # f => buf'[h] = <<>>)
      /\ \A g \in Stream : g # f /\ g # h => buf'[g] = buf[g]
  BY <1>3 DEF BytesInv
<1>7. buf' \in [Stream -> Seq(1 .. n)] /\ \A g \in Stream : Increasing(buf'[g])
  <2>1. buf' \in [Stream -> Seq(1 .. n)]
    BY <1>2, <1>3, <1>5 DEF BytesInv
  <2>2. \A g \in Stream : Increasing(buf'[g])
    BY <1>2, <1>5, <1>6 DEF BytesInv
  <2> QED BY <2>1, <2>2
<1>8. /\ Waits(f)' = ToSet(b) /\ (h # f => Waits(h)' = {} /\ Waits(f) = {})
      /\ (\A g \in Stream : g # f /\ g # h => Waits(g)' = Waits(g)) /\ Gone' = Gone \cup ToSet(a)
  BY <1>4, <1>5, <1>6 DEF Waits, Gone
<1>9. /\ by' \in Seq(Stream) /\ out' \in Seq(1 .. Len(by')) /\ lost' \subseteq 1 .. Len(by')
      /\ buf' \in [Stream -> Seq(1 .. Len(by'))]
  BY <1>4, <1>7 DEF BytesInv
<1>10. ToSet(out') \cap lost' = {}
  BY <1>2, <1>4 DEF BytesInv, Gone
<1>11. \A g \in Stream : Waits(g)' \cap Gone' = {}
  <2>1. ASSUME NEW g \in Stream PROVE Waits(g)' \cap Gone' = {}
    <3>1. Waits(h) \cap Gone = {} /\ Waits(g) \cap Gone = {} /\ (g # h => Waits(g) \cap Waits(h) = {})
      BY DEF BytesInv
    <3> QED BY <1>2, <1>8, <3>1
  <2> QED BY <2>1
<1>12. \A g, k \in Stream : g # k => Waits(g)' \cap Waits(k)' = {}
  <2>1. ASSUME NEW g \in Stream, NEW k \in Stream, g # k PROVE Waits(g)' \cap Waits(k)' = {}
    <3>1. /\ Waits(g) \cap Waits(k) = {} /\ (g # h => Waits(g) \cap Waits(h) = {})
          /\ (k # h => Waits(k) \cap Waits(h) = {})
      BY <2>1 DEF BytesInv
    <3> QED BY <1>2, <1>8, <2>1, <3>1
  <2> QED BY <2>1
<1>13. \A i \in 1 .. Len(by') : i \in Gone' \/ \E g \in Stream : i \in Waits(g)'
  <2>1. ASSUME NEW i \in 1 .. Len(by) PROVE i \in Gone' \/ \E g \in Stream : i \in Waits(g)'
    <3>1. CASE i \in Gone
      BY <1>8, <3>1
    <3>2. CASE i \notin Gone
      <4>1. PICK g \in Stream : i \in Waits(g)
        BY <3>2 DEF BytesInv
      <4>2. CASE g = h
        BY <1>2, <1>8, <4>1, <4>2
      <4>3. CASE g # h
        BY <1>8, <4>1, <4>3
      <4> QED BY <4>2, <4>3
    <3> QED BY <3>1, <3>2
  <2> QED BY <2>1
<1> QED BY <1>4, <1>7, <1>9, <1>10, <1>11, <1>12, <1>13 DEF BytesInv

LEMMA PutBytes ==
  ASSUME BytesInv, NEW f \in Stream, by' = Append(by, f),
         buf' = [buf EXCEPT ![f] = Append(buf[f], Len(by) + 1)], UNCHANGED <<out, lost>>
  PROVE  BytesInv'
<1> DEFINE n == Len(by)
           s == buf[f]
           t == Append(s, n + 1)
<1>1. n \in Nat /\ s \in Seq(1 .. n) /\ Increasing(s)
  BY DEF BytesInv
<1>a. by' \in Seq(Stream) /\ Len(by') = n + 1
  BY DEF BytesInv
<1> HIDE DEF n
<1>2. /\ by' \in Seq(Stream) /\ Len(by') = n + 1 /\ 1 .. n \subseteq 1 .. n + 1
      /\ 1 .. n + 1 = (1 .. n) \cup {n + 1} /\ n + 1 \notin 1 .. n
  BY <1>1, <1>a
<1>3. t \in Seq(1 .. n + 1) /\ Increasing(t) /\ ToSet(t) = ToSet(s) \cup {n + 1}
  <2> HIDE DEF s
  <2>1. Len(s) \in Nat /\ DOMAIN s = 1 .. Len(s) /\ \A i \in 1 .. Len(s) : s[i] \in 1 .. n
    BY <1>1
  <2>2. n + 1 \in 1 .. n + 1 /\ s \in Seq(1 .. n + 1)
    BY <1>1, <1>2, SeqMonotonic
  <2>3. /\ t \in Seq(1 .. n + 1) /\ DOMAIN t = 1 .. Len(s) + 1
        /\ \A i \in 1 .. Len(s) + 1 : t[i] = IF i = Len(s) + 1 THEN n + 1 ELSE s[i]
    BY <2>1, <2>2
  <2>4. /\ ToSet(s) = {s[i] : i \in 1 .. Len(s)} /\ ToSet(t) = {t[i] : i \in 1 .. Len(s) + 1}
    BY <2>1, <2>3 DEF ToSet
  <2> HIDE DEF t
  <2>5. Increasing(t)
    <3> SUFFICES ASSUME NEW i \in 1 .. Len(s) + 1, NEW k \in 1 .. Len(s) + 1, i < k PROVE t[i] < t[k]
      BY <2>3 DEF Increasing
    <3>1. i \in 1 .. Len(s) /\ t[i] = s[i] /\ s[i] \in 1 .. n
      BY <2>1, <2>3
    <3>2. CASE k = Len(s) + 1
      <4>1. t[k] = n + 1
        BY <2>3, <3>2
      <4> QED BY <1>1, <3>1, <4>1
    <3>3. CASE k # Len(s) + 1
      <4> DEFINE l == Len(s)
      <4>1. l \in Nat /\ k \in 1 .. l + 1 /\ k # l + 1
        BY <2>1, <3>3
      <4>2. t[k] = s[k]
        BY <2>3, <3>3
      <4>3. k \in 1 .. l
        <5> HIDE DEF l
        <5> QED BY <4>1
      <4> QED BY <1>1, <2>1, <3>1, <4>2, <4>3 DEF Increasing
    <3> QED BY <3>2, <3>3
  <2>6. \A i \in 1 .. Len(s) : i \in 1 .. Len(s) + 1 /\ i # Len(s) + 1
    BY <2>1
  <2>7. Len(s) + 1 \in 1 .. Len(s) + 1 /\ \A i \in 1 .. Len(s) + 1 : i = Len(s) + 1 \/ i \in 1 .. Len(s)
    BY <2>1
  <2> QED BY <2>3, <2>4, <2>5, <2>6, <2>7
<1>4. buf' = [buf EXCEPT ![f] = t]
  BY DEF n
<1> HIDE DEF t
<1>5. buf'[f] = t /\ \A g \in Stream : g # f => buf'[g] = buf[g]
  BY <1>4 DEF BytesInv
<1>6. /\ Waits(f)' = Waits(f) \cup {n + 1} /\ (\A g \in Stream : g # f => Waits(g)' = Waits(g)) /\ Gone' = Gone
  BY <1>3, <1>5 DEF Waits, Gone
<1>7. \A g \in Stream : buf[g] \in Seq(1 .. n + 1) /\ Waits(g) \subseteq 1 .. n
  <2>1. \A g \in Stream : buf[g] \in Seq(1 .. n)
    BY DEF BytesInv, n
  <2>2. \A g \in Stream : buf[g] \in Seq(1 .. n + 1)
    BY <1>2, <2>1, SeqMonotonic
  <2>3. \A g \in Stream : ToSet(buf[g]) \subseteq 1 .. n
    BY <2>1, RangeIn
  <2> QED BY <2>2, <2>3 DEF Waits
<1>8. /\ buf' \in [Stream -> Seq(1 .. n + 1)] /\ \A g \in Stream : Increasing(buf'[g])
  <2>1. \A g \in Stream : buf'[g] \in Seq(1 .. n + 1) /\ Increasing(buf'[g])
    BY <1>3, <1>5, <1>7 DEF BytesInv
  <2>2. DOMAIN buf' = Stream /\ buf' = [g \in Stream |-> buf'[g]]
    BY <1>4 DEF BytesInv
  <2> QED BY <2>1, <2>2
<1>9. out' \in Seq(1 .. n + 1) /\ lost' \subseteq 1 .. n + 1 /\ Gone \subseteq 1 .. n
  <2>1. out \in Seq(1 .. n) /\ lost \subseteq 1 .. n
    BY DEF BytesInv, n
  <2>2. out \in Seq(1 .. n + 1)
    BY <1>2, <2>1, SeqMonotonic
  <2>3. ToSet(out) \subseteq 1 .. n
    BY <2>1, RangeIn
  <2> QED BY <1>2, <2>1, <2>2, <2>3 DEF Gone
<1>10. \A g \in Stream : Waits(g)' \cap Gone' = {}
  <2>1. ASSUME NEW g \in Stream PROVE Waits(g)' \cap Gone' = {}
    <3>1. Waits(g) \cap Gone = {}
      BY DEF BytesInv
    <3> QED BY <1>2, <1>6, <1>9, <3>1
  <2> QED BY <2>1
<1>11. \A g, k \in Stream : g # k => Waits(g)' \cap Waits(k)' = {}
  <2>1. ASSUME NEW g \in Stream, NEW k \in Stream, g # k PROVE Waits(g)' \cap Waits(k)' = {}
    <3>1. Waits(g) \cap Waits(k) = {} /\ Waits(g) \subseteq 1 .. n /\ Waits(k) \subseteq 1 .. n
      BY <1>7, <2>1 DEF BytesInv
    <3> QED BY <1>2, <1>6, <2>1, <3>1
  <2> QED BY <2>1
<1>12. \A i \in 1 .. n + 1 : i \in Gone' \/ \E g \in Stream : i \in Waits(g)'
  <2>1. ASSUME NEW i \in 1 .. n PROVE i \in Gone' \/ \E g \in Stream : i \in Waits(g)'
    <3>1. i \in Gone \/ \E g \in Stream : i \in Waits(g)
      BY DEF BytesInv, n
    <3> QED BY <1>6, <3>1
  <2> QED BY <1>2, <1>6, <2>1
<1>13. IsInjective(out') /\ ToSet(out') \cap lost' = {}
  BY DEF BytesInv
<1> QED BY <1>2, <1>8, <1>9, <1>10, <1>11, <1>12, <1>13 DEF BytesInv

LEMMA CloseBytes ==
  ASSUME BytesInv, NEW f \in Stream, lost' = lost \cup Waits(f), buf' = [buf EXCEPT ![f] = <<>>],
         UNCHANGED <<by, out>>
  PROVE  BytesInv'
<1>1. <<>> \in Seq(1 .. Len(by)) /\ Increasing(<<>>) /\ ToSet(<<>>) = {}
  BY DEF Increasing, ToSet
<1>2. buf'[f] = <<>> /\ (\A g \in Stream : g # f => buf'[g] = buf[g]) /\ buf' \in [Stream -> Seq(1 .. Len(by))]
  BY <1>1 DEF BytesInv
<1>3. Waits(f)' = {} /\ (\A g \in Stream : g # f => Waits(g)' = Waits(g)) /\ Gone' = Gone \cup Waits(f)
  BY <1>1, <1>2 DEF Waits, Gone
<1>4. \A g \in Stream : Increasing(buf'[g])
  BY <1>1, <1>2 DEF BytesInv
<1>5. Waits(f) \subseteq 1 .. Len(by)
  BY DEF BytesInv, Waits, ToSet
<1>6. lost' \subseteq 1 .. Len(by) /\ ToSet(out) \cap lost' = {}
  BY <1>5 DEF BytesInv, Gone
<1>7. \A g \in Stream : Waits(g)' \cap Gone' = {}
  <2>1. ASSUME NEW g \in Stream PROVE Waits(g)' \cap Gone' = {}
    <3>1. Waits(g) \cap Gone = {} /\ (g # f => Waits(g) \cap Waits(f) = {})
      BY DEF BytesInv
    <3> QED BY <1>3, <3>1
  <2> QED BY <2>1
<1>8. \A g, k \in Stream : g # k => Waits(g)' \cap Waits(k)' = {}
  <2>1. ASSUME NEW g \in Stream, NEW k \in Stream, g # k PROVE Waits(g)' \cap Waits(k)' = {}
    <3>1. Waits(g) \cap Waits(k) = {}
      BY <2>1 DEF BytesInv
    <3> QED BY <1>3, <2>1, <3>1
  <2> QED BY <2>1
<1>9. \A i \in 1 .. Len(by) : i \in Gone' \/ \E g \in Stream : i \in Waits(g)'
  <2>1. ASSUME NEW i \in 1 .. Len(by) PROVE i \in Gone' \/ \E g \in Stream : i \in Waits(g)'
    <3>1. i \in Gone \/ \E g \in Stream : i \in Waits(g)
      BY DEF BytesInv
    <3> QED BY <1>3, <3>1
  <2> QED BY <2>1
<1> QED BY <1>2, <1>4, <1>6, <1>7, <1>8, <1>9 DEF BytesInv

----------------------------------------------------------------------------
(* Which streams have an empty buffer.                                     *)

\* Only what is left of sfpool makes a stream come to the head.
LEMMA ComingIs ==
  ASSUME NEW g \in Stream, Coming(g)
  PROVE  /\ todo # <<>> /\ Len(todo) \in 1 .. 3 /\ todo[Len(todo)] = <<"front", g>>
         /\ Head(todo)[1] \in {"leave", "append", "newpool", "front"} /\ Head(todo)[2] = g
<1>1. CASE \E p \in Pool : todo = <<<<"leave", g>>, <<"append", g, p>>, <<"front", g>>>>
  BY <1>1
<1>2. CASE \E p \in Pool : todo = <<<<"append", g, p>>, <<"front", g>>>>
  BY <1>2
<1>3. CASE \E pf \in Stream : todo = <<<<"leave", g>>, <<"newpool", g, pf, "share">>, <<"front", g>>>>
  BY <1>3
<1>4. CASE \E pf \in Stream : todo = <<<<"newpool", g, pf, "share">>, <<"front", g>>>>
  BY <1>4
<1>5. CASE todo = <<<<"front", g>>>>
  BY <1>5
<1> QED BY <1>1, <1>2, <1>3, <1>4, <1>5 DEF Coming

\* The same of the next state.
LEMMA ComingNext ==
  ASSUME NEW g \in Stream, Coming(g)'
  PROVE  /\ todo' # <<>> /\ Len(todo') \in 1 .. 3 /\ todo'[Len(todo')] = <<"front", g>>
         /\ Head(todo')[1] \in {"leave", "append", "newpool", "front"} /\ Head(todo')[2] = g
<1>1. CASE \E p \in Pool : todo' = <<<<"leave", g>>, <<"append", g, p>>, <<"front", g>>>>
  BY <1>1
<1>2. CASE \E p \in Pool : todo' = <<<<"append", g, p>>, <<"front", g>>>>
  BY <1>2
<1>3. CASE \E pf \in Stream : todo' = <<<<"leave", g>>, <<"newpool", g, pf, "share">>, <<"front", g>>>>
  BY <1>3
<1>4. CASE \E pf \in Stream : todo' = <<<<"newpool", g, pf, "share">>, <<"front", g>>>>
  BY <1>4
<1>5. CASE todo' = <<<<"front", g>>>>
  BY <1>5
<1> QED BY <1>1, <1>2, <1>3, <1>4, <1>5 DEF Coming

LEMMA Lasts ==
  /\ \A a : <<a>>[Len(<<a>>)] = a
  /\ \A a, b : <<a, b>>[Len(<<a, b>>)] = b
  /\ \A a, b, c : <<a, b, c>>[Len(<<a, b, c>>)] = c
OBVIOUS

LEMMA AllNotComing ==
  ASSUME AllPlan', NEW g \in Stream
  PROVE  ~ Coming(g)'
<1> SUFFICES ASSUME Coming(g)' PROVE FALSE
  OBVIOUS
<1>1. todo' # <<>> /\ Head(todo')[1] \in {"leave", "append", "newpool", "front"}
  BY ComingNext
<1> DEFINE S == {"sync"} \X (Stream \cup {None}) \cup {<<"end", None>>}
<1>2. todo' \in Seq(S) /\ \A x \in S : x[1] \in {"sync", "end"}
  BY DEF AllPlan
<1> HIDE DEF S
<1>3. Head(todo') \in S
  BY <1>1, <1>2
<1> QED BY <1>1, <1>2, <1>3

\* A stream is coming after a step only if its call was under way before.
LEMMA NextComing ==
  ASSUME PlanInv, todo # <<>>, todo' = Tail(todo), NEW g \in Stream, Coming(g)'
  PROVE  /\ g \in Open
         /\ \/ Doing("clean", g)
            \/ \E pf \in Open : \E x \in Joins(g, pf) :
                 \/ todo = <<<<"leave", g>>, x, <<"front", g>>>>
                 \/ todo = <<x, <<"front", g>>>>
<1>1. /\ todo' # <<>> /\ Head(todo')[1] \in {"leave", "append", "newpool", "front"} /\ Head(todo')[2] = g
      /\ todo'[Len(todo')] = <<"front", g>>
  BY ComingNext
<1>2. ~ AllPlan
  <2>1. ASSUME AllPlan PROVE FALSE
    <3>1. AllPlan'
      BY <2>1, AllHead DEF Idle
    <3> QED BY <3>1, AllNotComing
  <2> QED BY <2>1
<1>3. ASSUME NEW k \in Open, OwnPlan(k) \/ MovePlan(k) \/ ClosePlan(k) PROVE FALSE
  <2>1. CASE OwnPlan(k)
    <3> DEFINE m == <<"mode", k>>
               X == {<<"put", k>>, <<"get", k>>, <<"sync", k>>, <<"delete", k>>}
    <3>1. \E x \in X : todo = <<m, x>> \/ todo = <<x>>
      BY <2>1 DEF OwnPlan
    <3>2. \A x \in X : x[1] # "front"
      OBVIOUS
    <3> HIDE DEF m, X
    <3>3. PICK x \in X : todo = <<m, x>> \/ todo = <<x>>
      BY <3>1
    <3>4. todo' = <<x>> \/ todo' = <<>>
      BY <3>3, Tails
    <3>5. todo'[Len(todo')] = x
      BY <1>1, <3>4, Lasts
    <3> QED BY <1>1, <3>2, <3>5
  <2>2. CASE MovePlan(k)
    <3> DEFINE l == <<"leave", k>>
               a == <<"append", k, Main>>
    <3>1. todo = <<l, a>> \/ todo = <<a>>
      BY <2>2 DEF MovePlan
    <3>2. a[1] # "front"
      OBVIOUS
    <3> HIDE DEF l, a
    <3>3. todo' = <<a>> \/ todo' = <<>>
      BY <3>1, Tails
    <3>4. todo'[Len(todo')] = a
      BY <1>1, <3>3, Lasts
    <3> QED BY <1>1, <3>2, <3>4
  <2>3. CASE ClosePlan(k)
    <3> DEFINE m == <<"mode", k>>
               s == <<"sync", k>>
               l == <<"leave", k>>
               c == <<"closed", k>>
    <3>1. todo \in {<<m, s, l, c>>, <<s, l, c>>, <<l, c>>, <<m, s, c>>, <<s, c>>, <<c>>}
      BY <2>3 DEF ClosePlan
    <3>2. c[1] # "front"
      OBVIOUS
    <3> HIDE DEF m, s, l, c
    <3>a. todo = <<m, s, l, c>> => todo' = <<s, l, c>>
      BY Tails
    <3>b. todo = <<s, l, c>> => todo' = <<l, c>>
      BY Tails
    <3>c. todo = <<m, s, c>> => todo' = <<s, c>>
      BY Tails
    <3>d. (todo = <<l, c>> \/ todo = <<s, c>>) => todo' = <<c>>
      BY Tails
    <3>e. todo = <<c>> => todo' = <<>>
      BY Tails
    <3>3. todo' = <<s, l, c>> \/ todo' = <<l, c>> \/ todo' = <<c>> \/ todo' = <<s, c>>
      BY <1>1, <3>1, <3>a, <3>b, <3>c, <3>d, <3>e
    <3>4. todo'[Len(todo')] = c
      <4>1. <<s, l, c>>[Len(<<s, l, c>>)] = c
        OBVIOUS
      <4>2. <<l, c>>[Len(<<l, c>>)] = c /\ <<s, c>>[Len(<<s, c>>)] = c /\ <<c>>[Len(<<c>>)] = c
        OBVIOUS
      <4> QED BY <3>3, <4>1, <4>2
    <3> QED BY <1>1, <3>2, <3>4
  <2> QED BY <1>3, <2>1, <2>2, <2>3
<1>4. PICK k \in Open, pf \in Open : PoolPlan(k, pf)
  BY <1>2, <1>3 DEF PlanInv
<1>5. CASE \E m \in Modes : todo \in {<<<<"mode", k>>, <<"mode", pf>>, <<"pool", k, pf, m>>>>,
                    <<<<"mode", pf>>, <<"pool", k, pf, m>>>>, <<<<"pool", k, pf, m>>>>}
  <2>1. PICK m \in Modes : todo \in {<<<<"mode", k>>, <<"mode", pf>>, <<"pool", k, pf, m>>>>,
                    <<<<"mode", pf>>, <<"pool", k, pf, m>>>>, <<<<"pool", k, pf, m>>>>}
    BY <1>5
  <2> DEFINE x == <<"mode", k>>
             y == <<"mode", pf>>
             z == <<"pool", k, pf, m>>
  <2>2. todo \in {<<x, y, z>>, <<y, z>>, <<z>>} /\ z[1] # "front"
    BY <2>1
  <2> HIDE DEF x, y, z
  <2>a. todo = <<x, y, z>> => todo' = <<y, z>>
    BY Tails
  <2>b. todo = <<y, z>> => todo' = <<z>>
    BY Tails
  <2>c. todo = <<z>> => todo' = <<>>
    BY Tails
  <2>3. todo' = <<y, z>> \/ todo' = <<z>>
    BY <1>1, <2>2, <2>a, <2>b, <2>c
  <2>4. todo'[Len(todo')] = z
    <3>1. <<y, z>>[Len(<<y, z>>)] = z /\ <<z>>[Len(<<z>>)] = z
      OBVIOUS
    <3> QED BY <2>3, <3>1
  <2> QED BY <1>1, <2>2, <2>4
<1>6. CASE \E x \in Joins(k, pf) :
             \/ todo = <<<<"clean", k>>, <<"leave", k>>, x, <<"front", k>>>>
             \/ todo = <<<<"leave", k>>, x, <<"front", k>>>>
             \/ todo = <<x, <<"front", k>>>>
  <2>1. PICK x \in Joins(k, pf) :
             \/ todo = <<<<"clean", k>>, <<"leave", k>>, x, <<"front", k>>>>
             \/ todo = <<<<"leave", k>>, x, <<"front", k>>>>
             \/ todo = <<x, <<"front", k>>>>
    BY <1>6
  <2> DEFINE c == <<"clean", k>>
             l == <<"leave", k>>
             w == <<"front", k>>
  <2>2. todo \in {<<c, l, x, w>>, <<l, x, w>>, <<x, w>>}
    BY <2>1
  <2>3. /\ todo = <<c, l, x, w>> => todo' = <<l, x, w>>
        /\ todo = <<l, x, w>> => todo' = <<x, w>>
        /\ todo = <<x, w>> => todo' = <<w>>
    <3> HIDE DEF c, l, w
    <3>1. ASSUME todo = <<c, l, x, w>> PROVE todo' = <<l, x, w>>
      BY <3>1, Tails
    <3>2. ASSUME todo = <<l, x, w>> PROVE todo' = <<x, w>>
      BY <3>2, Tails
    <3>3. ASSUME todo = <<x, w>> PROVE todo' = <<w>>
      BY <3>3, Tails
    <3> QED BY <3>1, <3>2, <3>3
  <2>4. w = <<"front", g>>
    <3> HIDE DEF c, l, w
    <3>1. todo' = <<l, x, w>> \/ todo' = <<x, w>> \/ todo' = <<w>>
      BY <2>2, <2>3
    <3>2. todo'[Len(todo')] = w
      <4>1. <<l, x, w>>[Len(<<l, x, w>>)] = w
        OBVIOUS
      <4>2. <<x, w>>[Len(<<x, w>>)] = w /\ <<w>>[Len(<<w>>)] = w
        OBVIOUS
      <4> QED BY <3>1, <4>1, <4>2
    <3> QED BY <1>1, <3>2
  <2>5. k = g
    BY <2>4
  <2>6. todo = <<c, l, x, w>> => Doing("clean", g)
    BY <2>5 DEF Doing, Idle
  <2> QED BY <2>1, <2>5, <2>6
<1>7. CASE todo = <<<<"front", k>>>>
  <2>1. todo' = <<>>
    BY <1>7
  <2> QED BY <1>1, <2>1
<1> QED BY <1>4, <1>5, <1>6, <1>7 DEF PoolPlan

LEMMA LastOf ==
  ASSUME NEW S, NEW s \in Seq(S), NEW x \in S
  PROVE  (s \o <<x>>)[Len(s \o <<x>>)] = x
<1>1. <<x>> \in Seq(S) /\ Len(<<x>>) = 1 /\ <<x>>[1] = x /\ Len(s) \in Nat
  OBVIOUS
<1>2. Len(s \o <<x>>) = Len(s) + 1
  BY <1>1
<1>3. (s \o <<x>>)[Len(s) + 1] = x
  BY <1>1
<1> QED BY <1>2, <1>3

\* What the invariant needs of a step that leaves the call with nothing more
\* for a stream at the head of a shared pool.
LEMMA EmptyStep ==
  ASSUME EmptyInv,
         \A g \in Stream : g \in pooled' \/ Coming(g)' =>
           buf'[g] = <<>> \/ (buf'[g] = buf[g] /\ (g \in pooled \/ Coming(g)))
  PROVE  EmptyInv'
BY DEF EmptyInv

\* The steps that change no list and the buffer of at most one stream, which
\* is not behind a head.
LEMMA EmptyStays ==
  ASSUME EmptyInv, UNCHANGED pooled, NEW f, f \in pooled => buf'[f] = <<>>,
         \A g \in Stream : g # f => buf'[g] = buf[g],
         \A g \in Stream : Coming(g)' => g # f /\ Coming(g)
  PROVE  EmptyInv'
BY EmptyStep

LEMMA PutPlan ==
  ASSUME PlanInv, NEW f \in Stream, Doing("put", f)
  PROVE  todo = <<<<"put", f>>>> /\ f \notin pooled
<1>1. todo # <<>> /\ Head(todo)[1] = "put" /\ Head(todo)[2] = f
  BY DEF Doing, Idle
<1>2. ~ AllPlan
  BY <1>1, AllHead DEF Idle
<1>3. ASSUME NEW g \in Open PROVE ~ MovePlan(g) /\ ~ ClosePlan(g)
  BY <1>1 DEF MovePlan, ClosePlan
<1>4. ASSUME NEW g \in Open, NEW pf \in Open PROVE ~ PoolPlan(g, pf)
  BY <1>1 DEF PoolPlan, Joins
<1>5. PICK g \in Open : OwnPlan(g)
  BY <1>1, <1>2, <1>3, <1>4 DEF PlanInv
<1>6. todo = <<<<"put", g>>>> /\ g \notin pooled
  BY <1>1, <1>5 DEF OwnPlan
<1> QED BY <1>1, <1>6

\* What is at the head of a pool is not behind it.
LEMMA HeadNotPooled ==
  ASSUME ListInv, NEW p \in Pool, HeadOf(p) \in Members(p)
  PROVE  HeadOf(p) \notin pooled
BY DEF ListInv, MarksInv, NamesInv, AllPools

\* A step that is not of sfpool, or its last: no stream is coming after it.
LEMMA NoneComing ==
  ASSUME PlanInv, todo # <<>>, Head(todo)[1] \notin {"clean", "leave", "append", "newpool"}, todo' = Tail(todo),
         NEW g \in Stream
  PROVE  ~ Coming(g)'
<1> SUFFICES ASSUME Coming(g)' PROVE FALSE
  OBVIOUS
<1>1. \A pf : \A x \in Joins(g, pf) : x[1] \in {"append", "newpool"}
  BY JoinsAre
<1>2. ~ Doing("clean", g)
  BY DEF Doing
<1>3. PICK pf \in Open : \E x \in Joins(g, pf) :
        todo = <<<<"leave", g>>, x, <<"front", g>>>> \/ todo = <<x, <<"front", g>>>>
  BY <1>2, NextComing
<1>4. PICK x \in Joins(g, pf) : todo = <<<<"leave", g>>, x, <<"front", g>>>> \/ todo = <<x, <<"front", g>>>>
  BY <1>3
<1>5. Head(todo) = <<"leave", g>> \/ Head(todo) = x
  BY <1>4
<1> QED BY <1>1, <1>5

LEMMA FrontFailsEmpty ==
  ASSUME ListInv, EmptyInv, buf \in [Stream -> Seq(Nat)], NEW f \in Stream, FrontFails(f)
  PROVE  EmptyInv'
<1>1. Moving(f) /\ todo' = <<>> /\ UNCHANGED pooled
  BY DEF FrontFails, Return, lists
<1>2. PICK h \in Stream : h = HeadOf(pool[f]) /\ h \notin pooled
  BY <1>1, MovingIs, MembersAre, HeadNotPooled DEF ListInv, AllPools
<1>3. \A g \in Stream : g # h => buf'[g] = buf[g]
  BY <1>2 DEF FrontFails
<1>4. \A g \in Stream : ~ Coming(g)'
  BY <1>1, ComingNext
<1> QED BY <1>1, <1>2, <1>3, <1>4, EmptyStays

LEMMA ToFrontEmpty ==
  ASSUME ListInv, EmptyInv, buf \in [Stream -> Seq(Nat)], NEW f \in Stream, ToFront(f)
  PROVE  EmptyInv'
<1>1. Moving(f) /\ todo' = Tail(todo)
  BY DEF ToFront, Done
<1>2. PICK h \in Stream : h = HeadOf(pool[f]) /\ h # f
  BY <1>1, MovingIs, MembersAre DEF ListInv, AllPools
<1>3. /\ pooled' = (pooled \ {f}) \cup {h} /\ buf'[h] = <<>>
      /\ \A g \in Stream : g # h /\ g # f => buf'[g] = buf[g]
  BY <1>2 DEF ToFront, Marked
<1>4. todo # <<>> /\ Head(todo)[1] \in {"mode", "front"}
  BY <1>1 DEF Moving, Doing, Idle
<1>5. \A g \in Stream : ~ Coming(g)'
  BY <1>1, <1>4, NoneComing DEF ListInv
<1>6. f \notin pooled'
  BY <1>2, <1>3
<1>7. \A g \in Stream : g \in pooled' => buf'[g] = <<>> \/ (buf'[g] = buf[g] /\ g \in pooled)
  BY <1>3, <1>6
<1> QED BY <1>5, <1>7, EmptyStep

\* With one step to do before it, f is coming to a pool it joins or makes.
LEMMA ComingTwo ==
  ASSUME NEW g \in Stream, NEW x, todo' = <<x, <<"front", g>>>>, Coming(g)'
  PROVE  \/ \E p \in Pool : kind'[p] = "share" /\ x = <<"append", g, p>>
         \/ \E pf \in Stream : x = <<"newpool", g, pf, "share">>
<1> DEFINE w == <<"front", g>>
           l == <<"leave", g>>
<1>0. todo' = <<x, w>>
  OBVIOUS
<1>1. \/ \E p \in Pool : kind'[p] = "share" /\ todo' \in {<<l, <<"append", g, p>>, w>>, <<<<"append", g, p>>, w>>}
      \/ \E pf \in Stream : todo' \in {<<l, <<"newpool", g, pf, "share">>, w>>, <<<<"newpool", g, pf, "share">>, w>>}
      \/ todo' = <<w>>
  BY DEF Coming
<1> HIDE DEF w, l
<1>2. CASE \E p \in Pool : kind'[p] = "share" /\ todo' \in {<<l, <<"append", g, p>>, w>>, <<<<"append", g, p>>, w>>}
  <2>1. PICK p \in Pool : kind'[p] = "share" /\ todo' \in {<<l, <<"append", g, p>>, w>>, <<<<"append", g, p>>, w>>}
    BY <1>2
  <2> DEFINE y == <<"append", g, p>>
  <2>2. todo' = <<l, y, w>> \/ todo' = <<y, w>>
    BY <2>1
  <2>3. x = y
    <3> HIDE DEF y
    <3> QED BY <1>0, <2>2
  <2> QED BY <2>1, <2>3
<1>3. CASE \E pf \in Stream : todo' \in {<<l, <<"newpool", g, pf, "share">>, w>>, <<<<"newpool", g, pf, "share">>, w>>}
  <2>1. PICK pf \in Stream : todo' \in {<<l, <<"newpool", g, pf, "share">>, w>>, <<<<"newpool", g, pf, "share">>, w>>}
    BY <1>3
  <2> DEFINE y == <<"newpool", g, pf, "share">>
  <2>2. todo' = <<l, y, w>> \/ todo' = <<y, w>>
    BY <2>1
  <2>3. x = y
    <3> HIDE DEF y
    <3> QED BY <1>0, <2>2
  <2> QED BY <2>1, <2>3
<1>4. CASE todo' = <<w>>
  BY <1>0, <1>4
<1> QED BY <1>1, <1>2, <1>3, <1>4

\* After _sfpdelete a stream is coming only if it was before.
LEMMA LeavingEmpty ==
  ASSUME PlanInv, EmptyInv, NEW f, Doing("leave", f), todo' = Tail(todo), UNCHANGED buf, pooled' \subseteq pooled,
         \A p \in Pool : kind'[p] = "share" => kind[p] = "share"
  PROVE  EmptyInv'
<1>1. todo # <<>> /\ Head(todo)[1] = "leave"
  BY DEF Doing, Idle
<1>2. ASSUME NEW g \in Stream, Coming(g)' PROVE Coming(g)
  <2>1. ~ Doing("clean", g)
    BY <1>1 DEF Doing
  <2>2. PICK pf \in Open : \E x \in Joins(g, pf) :
          todo = <<<<"leave", g>>, x, <<"front", g>>>> \/ todo = <<x, <<"front", g>>>>
    BY <1>1, <1>2, <2>1, NextComing
  <2>3. PICK x \in Joins(g, pf) : todo = <<<<"leave", g>>, x, <<"front", g>>>> \/ todo = <<x, <<"front", g>>>>
    BY <2>2
  <2>4. todo = <<x, <<"front", g>>>> => Head(todo) = x
    OBVIOUS
  <2>5. todo = <<<<"leave", g>>, x, <<"front", g>>>>
    BY <1>1, <2>3, <2>4, JoinsAre
  <2>6. todo' = <<x, <<"front", g>>>>
    BY <2>5, Tails
  <2>7. \/ \E p \in Pool : kind'[p] = "share" /\ x = <<"append", g, p>>
        \/ \E h \in Stream : x = <<"newpool", g, h, "share">>
    BY <1>2, <2>6, ComingTwo
  <2>8. CASE \E p \in Pool : kind'[p] = "share" /\ x = <<"append", g, p>>
    BY <2>5, <2>8 DEF Coming
  <2>9. CASE \E h \in Stream : x = <<"newpool", g, h, "share">>
    BY <2>5, <2>9 DEF Coming
  <2> QED BY <2>7, <2>8, <2>9
<1> QED BY <1>2, EmptyStep

LEMMA LeaveEmpty ==
  ASSUME ListInv, EmptyInv, NEW f \in Stream, Leave(f) \/ Dissolve(f)
  PROVE  EmptyInv'
<1>1. Doing("leave", f) /\ todo' = Tail(todo) /\ UNCHANGED buf
  BY DEF Leave, Dissolve, Done, data
<1>2. pooled' \subseteq pooled
  BY DEF Leave, Dissolve
<1>3. \A p \in Pool : kind'[p] = "share" => kind[p] = "share"
  <2>1. UNCHANGED kind \/ \E q : kind' = [kind EXCEPT ![q] = "avail"]
    BY DEF Leave, Dissolve
  <2> QED BY <2>1 DEF ListInv, TypeInv
<1> QED BY <1>1, <1>2, <1>3, LeavingEmpty DEF ListInv

\* A step that changes neither lists nor buffers and is the last of its call,
\* repeats it, or is not of sfpool.
LEMMA StillEmpty ==
  ASSUME EmptyInv, PlanInv, UNCHANGED <<pool, pooled, kind, buf>>,
         todo' \in {<<>>, todo} \/ (todo # <<>> /\ Head(todo)[1] \in {"mode", "front", "sync", "end"} /\ todo' = Tail(todo))
  PROVE  EmptyInv'
<1>1. CASE todo' = <<>>
  <2>1. \A g \in Stream : ~ Coming(g)'
    BY <1>1, ComingNext
  <2> QED BY <2>1, EmptyStep
<1>2. CASE todo' = todo
  <2>1. \A g \in Stream : Coming(g)' => Coming(g)
    BY <1>2 DEF Coming
  <2> QED BY <2>1, EmptyStep
<1>3. CASE todo # <<>> /\ Head(todo)[1] \in {"mode", "front", "sync", "end"} /\ todo' = Tail(todo)
  <2>1. \A g \in Stream : ~ Coming(g)'
    BY <1>3, NoneComing
  <2> QED BY <2>1, EmptyStep
<1> QED BY <1>1, <1>2, <1>3

LEMMA OtherEmpty ==
  ASSUME ListInv, EmptyInv, NEW f, InFront(f) \/ LeaveFails(f) \/ Get(f) \/ PassOver \/ End
  PROVE  EmptyInv'
<1>1. UNCHANGED <<pool, pooled, kind, buf>>
  BY DEF InFront, LeaveFails, Get, PassOver, End, lists, data
<1>2. CASE LeaveFails(f) \/ Get(f) \/ End
  <2>1. todo' = <<>>
    BY <1>2 DEF LeaveFails, Get, End, Return
  <2> QED BY <1>1, <2>1, StillEmpty DEF ListInv
<1>3. CASE InFront(f) \/ PassOver
  <2>1. todo # <<>> /\ Head(todo)[1] \in {"mode", "front", "sync"} /\ todo' = Tail(todo)
    BY <1>3 DEF InFront, PassOver, Done, Doing, Idle
  <2> QED BY <1>1, <2>1, StillEmpty DEF ListInv
<1> QED BY <1>2, <1>3

LEMMA PutEmpty ==
  ASSUME ListInv, EmptyInv, buf \in [Stream -> Seq(Nat)], NEW f \in Stream, Put(f) \/ PutFlush(f)
  PROVE  EmptyInv'
<1>1. Doing("put", f) /\ UNCHANGED pooled /\ todo' \in {<<>>, todo} /\ \A g \in Stream : g # f => buf'[g] = buf[g]
  BY DEF Put, PutFlush, Return, lists
<1>2. f \notin pooled /\ todo = <<<<"put", f>>>>
  BY <1>1, PutPlan DEF ListInv
<1>3. \A g \in Stream : ~ Coming(g)'
  <2> SUFFICES ASSUME NEW g \in Stream, Coming(g)' PROVE FALSE
    OBVIOUS
  <2>1. todo' = todo /\ Head(todo) = <<"put", f>>
    BY <1>1, <1>2, ComingNext
  <2> QED BY <2>1, ComingNext
<1> QED BY <1>1, <1>2, <1>3, EmptyStays

LEMMA SyncEmpty ==
  ASSUME ListInv, EmptyInv, buf \in [Stream -> Seq(Nat)], NEW f \in Stream, Sync(f) \/ SyncFails(f)
  PROVE  EmptyInv'
<1>1. UNCHANGED pooled /\ \A g \in Stream : g # f => buf'[g] = buf[g]
  BY DEF Sync, SyncFails, lists
<1>2. f \in pooled => buf'[f] = <<>>
  <2>1. CASE Sync(f)
    BY <2>1 DEF Sync
  <2>2. CASE SyncFails(f)
    <3>1. PICK j \in 0 .. Len(buf[f]) - 1 : TRUE
      BY <2>2 DEF SyncFails
    <3>2. buf[f] # <<>>
      BY <3>1
    <3> QED BY <3>2 DEF EmptyInv
  <2> QED BY <2>1, <2>2
<1>3. todo # <<>> /\ Head(todo)[2] = f
  BY DEF Sync, SyncFails, Syncing, Doing, Idle
<1>4. CASE todo' = <<>>
  <2>1. \A g \in Stream : ~ Coming(g)'
    BY <1>4, ComingNext
  <2> QED BY <1>1, <1>2, <2>1, EmptyStays
<1>5. CASE todo' = Tail(todo) /\ Head(todo)[1] = "sync"
  <2>1. \A g \in Stream : ~ Coming(g)'
    BY <1>3, <1>5, NoneComing DEF ListInv
  <2> QED BY <1>1, <1>2, <2>1, EmptyStays
<1>6. CASE todo' = Tail(todo) /\ Head(todo)[1] = "clean" /\ Sync(f)
  <2>1. buf'[f] = <<>>
    BY <1>6 DEF Sync
  <2>2. ASSUME NEW g \in Stream, g # f, Coming(g)' PROVE FALSE
    <3>1. ~ Doing("clean", g)
      BY <1>3, <2>2 DEF Doing
    <3>2. PICK pf \in Open : \E x \in Joins(g, pf) :
            todo = <<<<"leave", g>>, x, <<"front", g>>>> \/ todo = <<x, <<"front", g>>>>
      BY <1>3, <1>6, <2>2, <3>1, NextComing DEF ListInv
    <3>3. PICK x \in Joins(g, pf) : todo = <<<<"leave", g>>, x, <<"front", g>>>> \/ todo = <<x, <<"front", g>>>>
      BY <3>2
    <3>4. Head(todo) = <<"leave", g>> \/ Head(todo) = x
      BY <3>3
    <3> QED BY <1>6, <3>4, JoinsAre
  <2>3. \A g \in Stream : g \in pooled' \/ Coming(g)' =>
           buf'[g] = <<>> \/ (buf'[g] = buf[g] /\ g \in pooled)
    BY <1>1, <2>1, <2>2
  <2> QED BY <2>3, EmptyStep
<1>7. \/ todo' = <<>>
      \/ todo' = Tail(todo) /\ Head(todo)[1] = "sync"
      \/ todo' = Tail(todo) /\ Head(todo)[1] = "clean" /\ Sync(f)
  BY DEF Sync, SyncFails, Syncing, Doing, Done, Return
<1> QED BY <1>4, <1>5, <1>6, <1>7

\* The last step but the move to the head has been made.
LEMMA ComingOne ==
  ASSUME NEW f, todo' = <<<<"front", f>>>>, NEW g \in Stream, Coming(g)'
  PROVE  g = f /\ kind'[pool'[g]] = "share"
<1> DEFINE w == <<"front", g>>
           l == <<"leave", g>>
           v == <<"front", f>>
<1>0. todo' = <<v>>
  OBVIOUS
<1>1. Len(todo') = 1 /\ todo'[Len(todo')] = v
  <2> HIDE DEF v
  <2> QED BY <1>0
<1>2. g = f
  BY <1>1, ComingNext
<1>3. ASSUME NEW x PROVE todo' # <<l, x, w>> /\ todo' # <<x, w>>
  <2> HIDE DEF v, l, w
  <2> QED BY <1>0
<1>4. (\A p : todo' \notin {<<l, <<"append", g, p>>, w>>, <<<<"append", g, p>>, w>>}) 
      /\ \A pf : todo' \notin {<<l, <<"newpool", g, pf, "share">>, w>>, <<<<"newpool", g, pf, "share">>, w>>}
  <2> HIDE DEF v, l, w
  <2> QED BY <1>3
<1>5. kind'[pool'[g]] = "share"
  <2>1. \/ \E p \in Pool : todo' \in {<<l, <<"append", g, p>>, w>>, <<<<"append", g, p>>, w>>}
        \/ \E pf \in Stream : todo' \in {<<l, <<"newpool", g, pf, "share">>, w>>, <<<<"newpool", g, pf, "share">>, w>>}
        \/ kind'[pool'[g]] = "share"
    BY DEF Coming
  <2> HIDE DEF v, l, w
  <2> QED BY <1>4, <2>1
<1> QED BY <1>2, <1>5

LEMMA JoinEmpty ==
  ASSUME ListInv, EmptyInv, NEW f \in Stream, NEW p \in AllPools, Join(f, p)
  PROVE  EmptyInv'
<1>1. /\ Doing("append", f) /\ Head(todo)[3] = p /\ pool'[f] = p /\ UNCHANGED <<kind, pooled, buf>>
      /\ todo' = Tail(todo) \/ todo' = <<>>
  BY DEF Join, Done, Return, data, ListInv, TypeInv
<1>2. CASE todo' = <<>>
  <2>1. \A g \in Stream : ~ Coming(g)'
    BY <1>2, ComingNext
  <2> QED BY <1>1, <2>1, EmptyStep
<1>3. CASE todo' = Tail(todo) /\ p = Main /\ todo = <<<<"append", f, Main>>>>
  <2>1. todo' = <<>>
    BY <1>3, Tails
  <2> QED BY <1>2, <2>1
<1>4. CASE todo' = Tail(todo) /\ p \in Pool /\ todo = <<<<"append", f, p>>, <<"front", f>>>>
  <2>1. todo' = <<<<"front", f>>>>
    BY <1>4, Tails
  <2>2. ASSUME NEW g \in Stream, Coming(g)' PROVE Coming(g)
    <3>1. g = f /\ kind[p] = "share"
      BY <1>1, <2>1, <2>2, ComingOne
    <3> QED BY <1>4, <3>1 DEF Coming
  <2> QED BY <1>1, <2>2, EmptyStep
<1> QED BY <1>1, <1>2, <1>3, <1>4, JoinPlan DEF ListInv

LEMMA NewPoolEmpty ==
  ASSUME ListInv, EmptyInv, NEW f \in Stream, NEW pf \in Stream, NEW m \in {"plain", "share"}, NewPool(f, pf, m)
  PROVE  EmptyInv'
<1>1. /\ Doing("newpool", f) /\ Head(todo)[3] = pf /\ Head(todo)[4] = m /\ UNCHANGED <<pooled, buf>>
      /\ \/ todo' = <<>>
         \/ /\ todo' = <<<<"append", f, Fresh>>>> \o Tail(todo) /\ kind' = [kind EXCEPT ![Fresh] = m]
            /\ Unused # {}
  BY DEF NewPool, Expand, Return, data
<1>2. CASE todo' = <<>>
  <2>1. \A g \in Stream : ~ Coming(g)'
    BY <1>2, ComingNext
  <2> QED BY <1>1, <2>1, EmptyStep
<1>3. CASE /\ todo' = <<<<"append", f, Fresh>>>> \o Tail(todo) /\ kind' = [kind EXCEPT ![Fresh] = m]
           /\ Unused # {}
  <2>1. todo = <<<<"newpool", f, pf, m>>, <<"front", f>>>>
    BY <1>1, NewPlan DEF ListInv
  <2>2. todo' = <<<<"append", f, Fresh>>, <<"front", f>>>>
    <3> DEFINE a == <<"append", f, Fresh>>
               w == <<"front", f>>
    <3>1. todo' = <<a>> \o <<w>>
      BY <1>3, <2>1
    <3> HIDE DEF a, w
    <3>2. todo' = <<a, w>>
      BY <3>1, OneAndOne
    <3> QED BY <3>2 DEF a, w
  <2>3. Fresh \in Pool
    BY <1>3, FreshIs DEF Unused
  <2>4. ASSUME NEW g \in Stream, Coming(g)' PROVE Coming(g)
    <3>1. g = f
      BY <2>2, <2>4, ComingNext
    <3>2. \/ \E p \in Pool : kind'[p] = "share" /\ <<"append", f, Fresh>> = <<"append", g, p>>
          \/ \E h \in Stream : <<"append", f, Fresh>> = <<"newpool", g, h, "share">>
      <4> DEFINE x == <<"append", f, Fresh>>
      <4>1. todo' = <<x, <<"front", g>>>>
        BY <2>2, <3>1
      <4> HIDE DEF x
      <4>2. \/ \E p \in Pool : kind'[p] = "share" /\ x = <<"append", g, p>>
            \/ \E h \in Stream : x = <<"newpool", g, h, "share">>
        BY <2>4, <4>1, ComingTwo
      <4> QED BY <4>2 DEF x
    <3>3. kind'[Fresh] = "share"
      BY <3>2
    <3>4. m = "share"
      BY <1>3, <2>3, <3>3 DEF ListInv, TypeInv
    <3> QED BY <2>1, <3>1, <3>4 DEF Coming
  <2> QED BY <1>1, <2>4, EmptyStep
<1> QED BY <1>1, <1>2, <1>3

LEMMA PoolingEmpty ==
  ASSUME ListInv, EmptyInv, NEW f \in Stream, NEW pf \in Stream, NEW m \in Modes, Pooling(f, pf, m)
  PROVE  EmptyInv'
<1> DEFINE mode == IF pool[pf] \in Pool THEN kind[pool[pf]] ELSE m
<1>1. UNCHANGED <<pool, pooled, kind, buf>> /\ (todo' = <<>> \/ todo' = JoinSteps(f, pf, mode))
  BY DEF Pooling, Return, Expand, lists, data
<1>2. CASE todo' = <<>>
  BY <1>1, <1>2, StillEmpty DEF ListInv
<1>3. CASE todo' = JoinSteps(f, pf, mode)
  <2> DEFINE x == IF pool[pf] \in Pool THEN <<"append", f, pool[pf]>> ELSE <<"newpool", f, pf, mode>>
             c == <<"clean", f>>
             l == <<"leave", f>>
             w == <<"front", f>>
  <2>1. (mode = "share" /\ todo' = <<c, l, x, w>>) \/ (mode # "share" /\ todo' = <<l, x, w>>)
    <3> HIDE DEF x, c, l, w, mode
    <3>1. todo' = (IF mode = "share" THEN <<c>> ELSE <<>>) \o <<l, x, w>>
      BY <1>3 DEF JoinSteps, x, c, l, w, mode
    <3>2. <<c>> \o <<l, x, w>> = <<c, l, x, w>>
      BY OneAndThree
    <3>3. <<>> \o <<l, x, w>> = <<l, x, w>>
      OBVIOUS
    <3> QED BY <3>1, <3>2, <3>3
  <2>2. ASSUME NEW g \in Stream, Coming(g)' PROVE FALSE
    <3>1. mode # "share" /\ todo' = <<l, x, w>>
      <4>1. Len(todo') \in 1 .. 3
        BY <2>2, ComingNext
      <4>2. Len(<<c, l, x, w>>) = 4
        OBVIOUS
      <4> HIDE DEF x, c, l, w, mode
      <4> QED BY <2>1, <4>1, <4>2
    <3>2. Head(todo') = l /\ g = f
      <4> HIDE DEF x, w, mode
      <4>1. Head(todo') = l
        BY <3>1
      <4> QED BY <2>2, <4>1, ComingNext
    <3>3. \/ \E p \in Pool : kind[p] = "share" /\ x = <<"append", g, p>>
          \/ \E h \in Stream : x = <<"newpool", g, h, "share">>
      <4> HIDE DEF x, mode
      <4>1. CASE \E p \in Pool : /\ kind'[p] = "share"
                                 /\ todo' \in {<<<<"leave", g>>, <<"append", g, p>>, <<"front", g>>>>,
                                               <<<<"append", g, p>>, <<"front", g>>>>}
        <5>1. PICK p \in Pool : /\ kind'[p] = "share"
                                /\ todo' \in {<<<<"leave", g>>, <<"append", g, p>>, <<"front", g>>>>,
                                              <<<<"append", g, p>>, <<"front", g>>>>}
          BY <4>1
        <5> DEFINE y == <<"append", g, p>>
        <5>2. todo' = <<l, y, w>> \/ todo' = <<y, w>>
          BY <3>2, <5>1
        <5>3. x = y
          <6> HIDE DEF y, l, w
          <6> QED BY <3>1, <5>2
        <5> QED BY <1>1, <5>1, <5>3
      <4>2. CASE \E h \in Stream : todo' \in {<<<<"leave", g>>, <<"newpool", g, h, "share">>, <<"front", g>>>>,
                                              <<<<"newpool", g, h, "share">>, <<"front", g>>>>}
        <5>1. PICK h \in Stream : todo' \in {<<<<"leave", g>>, <<"newpool", g, h, "share">>, <<"front", g>>>>,
                                             <<<<"newpool", g, h, "share">>, <<"front", g>>>>}
          BY <4>2
        <5> DEFINE y == <<"newpool", g, h, "share">>
        <5>2. todo' = <<l, y, w>> \/ todo' = <<y, w>>
          BY <3>2, <5>1
        <5>3. x = y
          <6> HIDE DEF y, l, w
          <6> QED BY <3>1, <5>2
        <5> QED BY <5>3
      <4>3. CASE todo' = <<<<"front", g>>>>
        <5>1. Head(todo') = <<"front", g>>
          BY <4>3
        <5> QED BY <3>2, <5>1
      <4> QED BY <2>2, <4>1, <4>2, <4>3 DEF Coming
    <3>4. CASE pool[pf] \in Pool
      <4>1. x = <<"append", f, pool[pf]>> /\ mode = kind[pool[pf]]
        BY <3>4
      <4> HIDE DEF x, mode
      <4> QED BY <3>1, <3>3, <4>1
    <3>5. CASE pool[pf] \notin Pool
      <4>1. x = <<"newpool", f, pf, mode>>
        BY <3>5
      <4> HIDE DEF x, mode
      <4> QED BY <3>1, <3>3, <4>1
    <3> QED BY <3>4, <3>5
  <2> QED BY <1>1, <2>2, EmptyStep
<1> QED BY <1>1, <1>2, <1>3

LEMMA DeletingEmpty ==
  ASSUME ListInv, EmptyInv, NEW f \in Stream, Deleting(f)
  PROVE  EmptyInv'
<1>1. /\ UNCHANGED <<pool, pooled, kind, buf>>
      /\ todo' = <<>> \/ todo' = <<<<"leave", f>>, <<"append", f, Main>>>>
  BY DEF Deleting, Return, Expand, lists, data
<1>2. ASSUME NEW g \in Stream, Coming(g)' PROVE FALSE
  <2> DEFINE l == <<"leave", f>>
             a == <<"append", f, Main>>
  <2>1. todo' = <<>> \/ todo' = <<l, a>>
    BY <1>1
  <2>2. todo'[Len(todo')] = a
    <3> HIDE DEF l, a
    <3>1. todo' # <<>>
      BY <1>2, ComingNext
    <3>2. <<l, a>>[Len(<<l, a>>)] = a
      OBVIOUS
    <3> QED BY <2>1, <3>1, <3>2
  <2> QED BY <1>2, <2>2, ComingNext
<1> QED BY <1>1, <1>2, EmptyStep

LEMMA ClosedEmpty ==
  ASSUME ListInv, EmptyInv, buf \in [Stream -> Seq(Nat)], NEW f \in Stream, Closed(f)
  PROVE  EmptyInv'
<1>1. UNCHANGED pooled /\ todo' = <<>> /\ buf' = [buf EXCEPT ![f] = <<>>]
  BY DEF Closed, Return
<1>2. \A g \in Stream : ~ Coming(g)'
  BY <1>1, ComingNext
<1> QED BY <1>1, <1>2, EmptyStays

\* The last step of a call is neither of sfpool nor of sfsync(NULL).
LEMMA CallLast ==
  ASSUME Call, ~ CallSyncAll
  PROVE  todo'[Len(todo')][1] \notin {"front", "end"}
<1>2. CASE \E f \in Stream : CallOpen(f)
  <2>1. PICK f \in Stream : todo' = <<<<"append", f, Main>>>>
    BY <1>2 DEF CallOpen
  <2> DEFINE a == <<"append", f, Main>>
  <2>2. todo' = <<>> \o <<a>> /\ a[1] \notin {"front", "end"}
    BY <2>1
  <2>3. <<>> \in Seq({a})
    OBVIOUS
  <2> HIDE DEF a
  <2> QED BY <2>2, <2>3, LastOf
<1>3. CASE \E f \in Open : CallWrite(f) \/ CallRead(f) \/ CallSync(f) \/ CallDelete(f)
  <2>1. PICK f \in Open : CallWrite(f) \/ CallRead(f) \/ CallSync(f) \/ CallDelete(f)
    BY <1>3
  <2>2. PICK x \in {<<"put", f>>, <<"get", f>>, <<"sync", f>>, <<"delete", f>>} : todo' = Use(f) \o <<x>>
    BY <2>1 DEF CallWrite, CallRead, CallSync, CallDelete, Start
  <2> DEFINE m == <<"mode", f>>
             S == {m, x}
  <2>3. Use(f) = <<>> \/ Use(f) = <<m>>
    BY DEF Use
  <2>a. m \in S /\ x \in S /\ x[1] \notin {"front", "end"}
    BY <2>2
  <2> HIDE DEF m, S
  <2>4. Use(f) \in Seq(S)
    <3>1. <<>> \in Seq(S) /\ <<m>> \in Seq(S)
      BY <2>a
    <3> QED BY <2>3, <3>1
  <2> QED BY <2>2, <2>4, <2>a, LastOf
<1>4. CASE \E f \in Open : CallClose(f)
  <2>1. PICK f \in Open : CallClose(f)
    BY <1>4
  <2> DEFINE m == <<"mode", f>>
             s == <<"sync", f>>
             l == <<"leave", f>>
             c == <<"closed", f>>
             S == {m, s, l, c}
  <2>2. (Use(f) = <<>> \/ Use(f) = <<m>>) /\ (LeaveAny(f) = <<l>> \/ LeaveAny(f) = <<>>)
    BY DEF Use, LeaveAny
  <2>3. todo' = Use(f) \o <<s>> \o LeaveAny(f) \o <<c>> /\ c[1] \notin {"front", "end"}
    BY <2>1 DEF CallClose, Start
  <2>a. m \in S /\ s \in S /\ l \in S /\ c \in S
    OBVIOUS
  <2> HIDE DEF m, s, l, c, S
  <2>b. <<>> \in Seq(S) /\ <<m>> \in Seq(S) /\ <<s>> \in Seq(S) /\ <<l>> \in Seq(S)
    BY <2>a
  <2>4. Use(f) \in Seq(S) /\ LeaveAny(f) \in Seq(S) /\ <<s>> \in Seq(S) /\ c \in S
    BY <2>2, <2>a, <2>b
  <2>5. Use(f) \o <<s>> \o LeaveAny(f) \in Seq(S)
    BY <2>4
  <2> QED BY <2>3, <2>4, <2>5, LastOf
<1>5. CASE \E f, pf \in Open, m \in Modes : CallPool(f, pf, m)
  <2>1. PICK f \in Open, pf \in Open, n \in Modes : CallPool(f, pf, n)
    BY <1>5
  <2> DEFINE x == <<"mode", f>>
             y == <<"mode", pf>>
             z == <<"pool", f, pf, n>>
             S == {x, y, z}
  <2>2. UseBoth(f, pf) \in {<<>>, <<y>>, <<x, y>>}
    BY DEF Use, UseBoth
  <2>3. todo' = UseBoth(f, pf) \o <<z>> /\ z[1] \notin {"front", "end"}
    BY <2>1 DEF CallPool, Start
  <2>a. x \in S /\ y \in S /\ z \in S
    OBVIOUS
  <2> HIDE DEF x, y, z, S
  <2>b. <<>> \in Seq(S) /\ <<y>> \in Seq(S) /\ <<x, y>> \in Seq(S)
    BY <2>a
  <2>4. UseBoth(f, pf) \in Seq(S) /\ z \in S
    BY <2>2, <2>a, <2>b
  <2> QED BY <2>3, <2>4, LastOf
<1> QED BY <1>2, <1>3, <1>4, <1>5 DEF Call

LEMMA CallsEmpty ==
  ASSUME ListInv, EmptyInv, Call
  PROVE  EmptyInv'
<1>1. UNCHANGED <<pooled, buf>>
  BY DEF Call, CallSyncAll, CallOpen, CallWrite, CallRead, CallSync, CallClose, CallDelete, CallPool,
         Start, lists, data
<1>2. ASSUME NEW g \in Stream, Coming(g)' PROVE FALSE
  <2>1. CASE CallSyncAll
    BY <1>2, <2>1, CallSyncAllKeeps, AllNotComing
  <2>2. CASE ~ CallSyncAll
    BY <1>2, <2>2, CallLast, ComingNext
  <2> QED BY <2>1, <2>2
<1> QED BY <1>1, <1>2, EmptyStep

LEMMA EmptyNext ==
  ASSUME ListInv, EmptyInv, buf \in [Stream -> Seq(Nat)], [Next]_vars
  PROVE  EmptyInv'
<1>1. CASE UNCHANGED vars
  <2>1. UNCHANGED <<pool, pooled, kind, buf, todo>>
    BY <1>1 DEF vars, lists, data
  <2> QED BY <2>1, StillEmpty DEF ListInv
<1>2. CASE Step
  <2>1. ASSUME NEW f \in Stream,
               ToFront(f) \/ FrontFails(f) \/ InFront(f) \/ Leave(f) \/ Dissolve(f) \/ LeaveFails(f)
                 \/ Put(f) \/ PutFlush(f) \/ Get(f) \/ Sync(f) \/ SyncFails(f) \/ Deleting(f) \/ Closed(f)
        PROVE EmptyInv'
    BY <2>1, ToFrontEmpty, FrontFailsEmpty, OtherEmpty, LeaveEmpty, PutEmpty, SyncEmpty, DeletingEmpty, ClosedEmpty
  <2>2. ASSUME PassOver \/ End PROVE EmptyInv'
    BY <2>2, OtherEmpty
  <2>3. ASSUME NEW f \in Stream, NEW p \in AllPools, Join(f, p) PROVE EmptyInv'
    BY <2>3, JoinEmpty
  <2> QED BY <1>2, <2>1, <2>2, <2>3, NewPoolEmpty, PoolingEmpty DEF Step, AllPools
<1> QED BY <1>1, <1>2, CallsEmpty DEF Next

----------------------------------------------------------------------------
(* No byte is lost.                                                        *)

LEMMA BufferIs ==
  ASSUME BytesInv, NEW f \in Stream
  PROVE  /\ buf[f] \in Seq(1 .. Len(by)) /\ Len(buf[f]) \in Nat
         /\ SubSeq(buf[f], Len(buf[f]) + 1, Len(buf[f])) = <<>>
<1>1. buf[f] \in Seq(1 .. Len(by))
  BY DEF BytesInv
<1> QED BY <1>1

\* A stream that is given the data of a head had none.
LEMMA TakerEmpty ==
  ASSUME ListInv, EmptyInv, NEW f \in Stream, Moving(f), kind[pool[f]] = "share"
  PROVE  buf[f] = <<>>
<1>1. CASE f \in pooled
  BY <1>1 DEF EmptyInv
<1>2. CASE Doing("front", f)
  BY <1>2, FrontPlan DEF EmptyInv, Coming, ListInv
<1> QED BY <1>1, <1>2 DEF Moving

LEMMA ExcessIs ==
  ASSUME BytesInv, NEW h \in Stream, NEW f \in Stream
  PROVE  Excess(h, f) \in 0 .. Len(buf[h])
<1>1. Len(buf[h]) \in Nat /\ Cap[f] \in Nat
  BY BufferIs, BoundsAssumption
<1> QED BY <1>1 DEF Excess

LEMMA ToFrontBytes ==
  ASSUME ListInv, EmptyInv, BytesInv, NEW f \in Stream, ToFront(f)
  PROVE  BytesInv'
<1>1. Moving(f) /\ UNCHANGED <<by, lost>>
  BY DEF ToFront
<1>2. PICK h \in Stream : h = HeadOf(pool[f]) /\ h # f
  BY <1>1, MovingIs, MembersAre DEF ListInv, AllPools
<1>3. PICK j \in 0 .. Len(buf[h]) : j = Excess(h, f)
  BY ExcessIs
<1>4. /\ out' = out \o SubSeq(buf[h], 1, j)
      /\ buf' = [buf EXCEPT ![h] = <<>>, ![f] = IF kind[pool[f]] = "share" THEN SubSeq(buf[h], j + 1, Len(buf[h])) ELSE buf[f]]
  BY <1>2, <1>3 DEF ToFront, Wrote, Handed, Kept, BytesInv
<1>5. CASE kind[pool[f]] = "share"
  <2>1. buf[f] = <<>>
    BY <1>1, <1>5, TakerEmpty
  <2>2. buf' = [buf EXCEPT ![h] = <<>>, ![f] = SubSeq(buf[h], j + 1, Len(buf[h]))]
    BY <1>4, <1>5
  <2> QED BY <1>1, <1>4, <2>1, <2>2, MoveBytes
<1>6. CASE kind[pool[f]] # "share"
  <2>1. j = Len(buf[h])
    BY <1>3, <1>6 DEF Excess
  <2>2. SubSeq(buf[h], j + 1, Len(buf[h])) = <<>>
    BY <2>1, BufferIs
  <2>3. buf' = [buf EXCEPT ![h] = <<>>, ![h] = SubSeq(buf[h], j + 1, Len(buf[h]))]
    BY <1>2, <1>4, <1>6, <2>2 DEF BytesInv
  <2> QED BY <1>1, <1>4, <2>3, MoveBytes
<1> QED BY <1>5, <1>6

\* The first bytes of f are written.
LEMMA WroteBytes ==
  ASSUME BytesInv, NEW f \in Stream, NEW j \in 0 .. Len(buf[f]), Wrote(f, j),
         buf' = [buf EXCEPT ![f] = Kept(f, j)], UNCHANGED <<by, lost>>
  PROVE  BytesInv'
<1>1. out' = out \o SubSeq(buf[f], 1, j)
  BY DEF Wrote
<1>2. buf' = [buf EXCEPT ![f] = <<>>, ![f] = SubSeq(buf[f], j + 1, Len(buf[f]))]
  BY DEF Kept, BytesInv
<1> QED BY <1>1, <1>2, MoveBytes

LEMMA FlushBytes ==
  ASSUME ListInv, BytesInv, NEW f \in Stream, FrontFails(f) \/ PutFlush(f) \/ Sync(f) \/ SyncFails(f)
  PROVE  BytesInv'
<1>1. UNCHANGED <<by, lost>>
  BY DEF FrontFails, PutFlush, Sync, SyncFails
<1>2. CASE FrontFails(f)
  <2>1. PICK h \in Stream : h = HeadOf(pool[f])
    BY <1>2, MovingIs, MembersAre DEF FrontFails, ListInv, AllPools
  <2>2. PICK j \in 0 .. Excess(h, f) - 1 : Wrote(h, j) /\ buf' = [buf EXCEPT ![h] = Kept(h, j)]
    BY <1>2, <2>1 DEF FrontFails
  <2>3. j \in 0 .. Len(buf[h])
    BY ExcessIs, BufferIs
  <2> QED BY <1>1, <2>2, <2>3, WroteBytes
<1>3. CASE PutFlush(f)
  <2>1. PICK j \in 0 .. Cap[f] : Wrote(f, j) /\ buf' = [buf EXCEPT ![f] = Kept(f, j)]
    BY <1>3 DEF PutFlush
  <2>2. j \in 0 .. Len(buf[f])
    BY <1>3 DEF PutFlush
  <2> QED BY <1>1, <2>1, <2>2, WroteBytes
<1>4. CASE Sync(f)
  <2>1. Wrote(f, Len(buf[f])) /\ buf' = [buf EXCEPT ![f] = <<>>]
    BY <1>4 DEF Sync
  <2>2. Kept(f, Len(buf[f])) = <<>> /\ Len(buf[f]) \in 0 .. Len(buf[f])
    BY BufferIs DEF Kept
  <2>3. buf' = [buf EXCEPT ![f] = Kept(f, Len(buf[f]))]
    BY <2>1, <2>2
  <2> QED BY <1>1, <2>1, <2>2, <2>3, WroteBytes
<1>5. CASE SyncFails(f)
  <2>1. PICK j \in 0 .. Len(buf[f]) - 1 : Wrote(f, j) /\ buf' = [buf EXCEPT ![f] = Kept(f, j)]
    BY <1>5 DEF SyncFails
  <2>2. j \in 0 .. Len(buf[f])
    BY BufferIs
  <2> QED BY <1>1, <2>1, <2>2, WroteBytes
<1> QED BY <1>2, <1>3, <1>4, <1>5

LEMMA SameBytes ==
  ASSUME BytesInv, UNCHANGED <<by, out, lost, buf>>
  PROVE  BytesInv'
BY DEF BytesInv, Waits, Gone

LEMMA BytesNext ==
  ASSUME ListInv, EmptyInv, BytesInv, [Next]_vars
  PROVE  BytesInv'
<1>1. CASE UNCHANGED vars \/ Call
  <2>1. UNCHANGED <<by, out, lost, buf>>
    BY <1>1 DEF vars, Call, CallSyncAll, CallOpen, CallWrite, CallRead, CallSync, CallClose, CallDelete, CallPool,
                Start, data, past
  <2> QED BY <2>1, SameBytes
<1>2. CASE Step
  <2>1. ASSUME NEW f \in Stream, ToFront(f) PROVE BytesInv'
    BY <2>1, ToFrontBytes
  <2>2. ASSUME NEW f \in Stream, FrontFails(f) \/ PutFlush(f) \/ Sync(f) \/ SyncFails(f) PROVE BytesInv'
    BY <2>2, FlushBytes
  <2>3. ASSUME NEW f \in Stream, Put(f) PROVE BytesInv'
    <3>1. by' = Append(by, f) /\ buf' = [buf EXCEPT ![f] = Append(buf[f], Len(by) + 1)] /\ UNCHANGED <<out, lost>>
      BY <2>3 DEF Put
    <3> QED BY <3>1, PutBytes
  <2>4. ASSUME NEW f \in Stream, Closed(f) PROVE BytesInv'
    <3>1. lost' = lost \cup Waits(f) /\ buf' = [buf EXCEPT ![f] = <<>>] /\ UNCHANGED <<by, out>>
      BY <2>4 DEF Closed, Waits
    <3> QED BY <3>1, CloseBytes
  <2>5. ASSUME NEW f \in Stream, InFront(f) \/ Leave(f) \/ Dissolve(f) \/ LeaveFails(f) \/ Get(f) \/ Deleting(f)
        PROVE BytesInv'
    <3>1. UNCHANGED <<by, out, lost, buf>>
      BY <2>5 DEF InFront, Leave, Dissolve, LeaveFails, Get, Deleting, data, past
    <3> QED BY <3>1, SameBytes
  <2>6. ASSUME PassOver \/ End PROVE BytesInv'
    BY <2>6, SameBytes DEF PassOver, End, data, past
  <2>7. ASSUME NEW f \in Stream, NEW p \in Pool \cup {Main}, Join(f, p) PROVE BytesInv'
    BY <2>7, SameBytes DEF Join, data, past
  <2>8. ASSUME NEW f \in Stream, NEW pf \in Stream, NEW m, NewPool(f, pf, m) \/ Pooling(f, pf, m) PROVE BytesInv'
    BY <2>8, SameBytes DEF NewPool, Pooling, data, past
  <2> QED BY <1>2, <2>1, <2>2, <2>3, <2>4, <2>5, <2>6, <2>7, <2>8 DEF Step
<1> QED BY <1>1, <1>2 DEF Next

LEMMA BytesInit == Init => EmptyInv /\ BytesInv
<1> SUFFICES ASSUME Init PROVE EmptyInv /\ BytesInv
  OBVIOUS
<1>1. by = <<>> /\ out = <<>> /\ lost = {} /\ \A f \in Stream : buf[f] = <<>>
  BY DEF Init
<1>2. buf \in [Stream -> Seq(1 .. Len(by))] /\ by \in Seq(Stream) /\ out \in Seq(1 .. Len(by))
  BY <1>1 DEF Init
<1>3. ToSet(<<>>) = {} /\ Increasing(<<>>) /\ IsInjective(<<>>)
  BY DEF ToSet, Increasing, IsInjective
<1>4. 1 .. Len(by) = {}
  BY <1>1
<1> QED BY <1>1, <1>2, <1>3, <1>4 DEF EmptyInv, BytesInv, Waits, Gone

LEMMA BuffersTyped == BytesInv => buf \in [Stream -> Seq(Nat)]
<1> SUFFICES ASSUME BytesInv PROVE buf \in [Stream -> Seq(Nat)]
  OBVIOUS
<1>1. 1 .. Len(by) \subseteq Nat
  BY DEF BytesInv
<1>2. \A f \in Stream : buf[f] \in Seq(Nat)
  BY <1>1, SeqMonotonic DEF BytesInv
<1> QED BY <1>2 DEF BytesInv

LEMMA BytesAlways == Spec /\ Careful => [](EmptyInv /\ BytesInv)
<1>1. ListInv /\ EmptyInv /\ BytesInv /\ [Next]_vars => EmptyInv' /\ BytesInv'
  BY EmptyNext, BytesNext, BuffersTyped
<1> QED BY <1>1, ListInvAlways, BytesInit, PTL DEF Spec

LEMMA BytesInvNothingLost == BytesInv => NothingLost
<1> SUFFICES ASSUME BytesInv PROVE NothingLost
  OBVIOUS
<1>1. ASSUME NEW i \in 1 .. Len(by)
      PROVE  Cardinality({f \in Stream : i \in ToSet(buf[f])})
               + (IF i \in ToSet(out) THEN 1 ELSE 0) + (IF i \in lost THEN 1 ELSE 0) = 1
  <2> DEFINE W == {f \in Stream : i \in ToSet(buf[f])}
  <2>1. CASE i \in Gone
    <3>1. W = {}
      BY <2>1 DEF BytesInv, Waits
    <3>2. Cardinality(W) = 0
      BY <3>1, FS_EmptySet
    <3>3. (i \in ToSet(out) /\ i \notin lost) \/ (i \notin ToSet(out) /\ i \in lost)
      BY <2>1 DEF BytesInv, Gone
    <3> QED BY <3>2, <3>3
  <2>2. CASE i \notin Gone
    <3>1. PICK f \in Stream : i \in Waits(f)
      BY <2>2 DEF BytesInv
    <3>2. W = {f}
      BY <3>1 DEF BytesInv, Waits
    <3>3. Cardinality(W) = 1
      BY <3>2, FS_Singleton
    <3>4. i \notin ToSet(out) /\ i \notin lost
      BY <2>2 DEF Gone
    <3> QED BY <3>3, <3>4
  <2> QED BY <2>1, <2>2
<1>2. \A f \in Stream : \A i, j \in DOMAIN buf[f] : i < j => buf[f][i] < buf[f][j]
  BY DEF BytesInv, Increasing
<1> QED BY <1>1, <1>2 DEF NothingLost, BytesInv

\* A byte that sfputc accepted is written once, or waits in one buffer, or was
\* in a stream that could not be synced when it was closed: no change of the
\* head, no pool that is joined, left or dissolved and no failed write drops or
\* repeats one (_sfphead, _sfflsbuf, sfsync, sfclose).
THEOREM NothingLostAlways == Spec /\ Careful => []NothingLost
<1> QED BY BytesAlways, BytesInvNothingLost, PTL

----------------------------------------------------------------------------
(* sfsync(NULL).                                                           *)

LEMMA AllIs ==
  ASSUME AllPlan, todo # <<>>
  PROVE  /\ Len(todo) \in Nat \ {0} /\ DOMAIN todo = 1 .. Len(todo) /\ Head(todo) = todo[1]
         /\ Len(Tail(todo)) = Len(todo) - 1 /\ DOMAIN Tail(todo) = 1 .. Len(todo) - 1
         /\ \A i \in 1 .. Len(todo) - 1 : Tail(todo)[i] = todo[i + 1]
         /\ Head(todo)[1] \in {"sync", "end"}
<1> DEFINE S == {"sync"} \X (Stream \cup {None}) \cup {<<"end", None>>}
<1>1. todo \in Seq(S) /\ \A x \in S : x[1] \in {"sync", "end"}
  BY DEF AllPlan
<1> HIDE DEF S
<1>2. Head(todo) \in S
  BY <1>1
<1>3. /\ Len(todo) \in Nat \ {0} /\ DOMAIN todo = 1 .. Len(todo) /\ Head(todo) = todo[1]
      /\ Len(Tail(todo)) = Len(todo) - 1
  BY <1>1
<1>4. /\ Tail(todo) \in Seq(S)
      /\ \A i \in 1 .. Len(Tail(todo)) : Tail(todo)[i] = todo[i + 1]
  BY <1>1, HeadTailProperties
<1> QED BY <1>1, <1>2, <1>3, <1>4

LEMMA AllNext ==
  ASSUME AllPlan', todo' # <<>>
  PROVE  Head(todo')[1] \in {"sync", "end"} /\ todo'[Len(todo')][1] = "end"
<1> DEFINE S == {"sync"} \X (Stream \cup {None}) \cup {<<"end", None>>}
<1>1. /\ todo' \in Seq(S) /\ \A x \in S : x[1] \in {"sync", "end"}
      /\ \A i \in DOMAIN todo' : todo'[i][1] = "end" <=> i = Len(todo')
  BY DEF AllPlan
<1> HIDE DEF S
<1>2. Head(todo') \in S /\ Len(todo') \in DOMAIN todo'
  BY <1>1
<1> QED BY <1>1, <1>2

\* What another call has left to do does not become a plan of sfsync(NULL).
LEMMA OthersTail ==
  ASSUME PlanInv, ~ AllPlan, todo # <<>>, todo' = Tail(todo), todo' # <<>>
  PROVE  ~ AllPlan'
<1> SUFFICES ASSUME AllPlan' PROVE FALSE
  OBVIOUS
<1>1. todo' # <<>> /\ Head(todo')[1] \in {"sync", "end"} /\ todo'[Len(todo')][1] = "end"
  BY AllNext
<1>2. ASSUME NEW k \in Open, OwnPlan(k) \/ MovePlan(k) \/ ClosePlan(k) PROVE FALSE
  <2>1. CASE OwnPlan(k)
    <3> DEFINE m == <<"mode", k>>
               X == {<<"put", k>>, <<"get", k>>, <<"sync", k>>, <<"delete", k>>}
    <3>1. \E x \in X : todo = <<m, x>> \/ todo = <<x>>
      BY <2>1 DEF OwnPlan
    <3>2. \A x \in X : x[1] # "end"
      OBVIOUS
    <3> HIDE DEF m, X
    <3>3. PICK x \in X : todo = <<m, x>> \/ todo = <<x>>
      BY <3>1
    <3>4. todo' = <<x>> \/ todo' = <<>>
      BY <3>3, Tails
    <3>5. todo'[Len(todo')] = x
      BY <1>1, <3>4, Lasts
    <3> QED BY <1>1, <3>2, <3>5
  <2>2. CASE MovePlan(k)
    <3> DEFINE l == <<"leave", k>>
               a == <<"append", k, Main>>
    <3>1. todo = <<l, a>> \/ todo = <<a>>
      BY <2>2 DEF MovePlan
    <3>2. a[1] # "end"
      OBVIOUS
    <3> HIDE DEF l, a
    <3>3. todo' = <<a>> \/ todo' = <<>>
      BY <3>1, Tails
    <3>4. todo'[Len(todo')] = a
      BY <1>1, <3>3, Lasts
    <3> QED BY <1>1, <3>2, <3>4
  <2>3. CASE ClosePlan(k)
    <3> DEFINE m == <<"mode", k>>
               s == <<"sync", k>>
               l == <<"leave", k>>
               c == <<"closed", k>>
    <3>1. todo \in {<<m, s, l, c>>, <<s, l, c>>, <<l, c>>, <<m, s, c>>, <<s, c>>, <<c>>}
      BY <2>3 DEF ClosePlan
    <3>2. c[1] # "end"
      OBVIOUS
    <3> HIDE DEF m, s, l, c
    <3>3. todo = <<m, s, l, c>> => todo' = <<s, l, c>>
      BY Tails
    <3>4. todo = <<s, l, c>> => todo' = <<l, c>>
      BY Tails
    <3>5. todo = <<m, s, c>> => todo' = <<s, c>>
      BY Tails
    <3>6. (todo = <<l, c>> \/ todo = <<s, c>>) => todo' = <<c>>
      BY Tails
    <3>7. todo = <<c>> => todo' = <<>>
      BY Tails
    <3>8. todo' = <<s, l, c>> \/ todo' = <<l, c>> \/ todo' = <<c>> \/ todo' = <<s, c>>
      BY <1>1, <3>1, <3>3, <3>4, <3>5, <3>6, <3>7
    <3>9. todo'[Len(todo')] = c
      <4>1. <<s, l, c>>[Len(<<s, l, c>>)] = c
        OBVIOUS
      <4>2. <<l, c>>[Len(<<l, c>>)] = c /\ <<s, c>>[Len(<<s, c>>)] = c /\ <<c>>[Len(<<c>>)] = c
        OBVIOUS
      <4> QED BY <3>8, <4>1, <4>2
    <3> QED BY <1>1, <3>2, <3>9
  <2> QED BY <1>2, <2>1, <2>2, <2>3
<1>3. PICK k \in Open, pf \in Open : PoolPlan(k, pf)
  BY <1>2 DEF PlanInv
<1>4. CASE todo = <<<<"front", k>>>>
  BY <1>1, <1>4, Tails
<1>5. CASE \E m \in Modes : todo \in {<<<<"mode", k>>, <<"mode", pf>>, <<"pool", k, pf, m>>>>,
                    <<<<"mode", pf>>, <<"pool", k, pf, m>>>>, <<<<"pool", k, pf, m>>>>}
  <2>1. PICK m \in Modes : todo \in {<<<<"mode", k>>, <<"mode", pf>>, <<"pool", k, pf, m>>>>,
                    <<<<"mode", pf>>, <<"pool", k, pf, m>>>>, <<<<"pool", k, pf, m>>>>}
    BY <1>5
  <2> DEFINE x == <<"mode", k>>
             y == <<"mode", pf>>
             z == <<"pool", k, pf, m>>
  <2>2. todo = <<x, y, z>> \/ todo = <<y, z>> \/ todo = <<z>>
    BY <2>1
  <2>3. y[1] = "mode" /\ z[1] = "pool"
    OBVIOUS
  <2> HIDE DEF x, y, z
  <2>4. todo' = <<y, z>> \/ todo' = <<z>>
    <3>1. todo = <<x, y, z>> => todo' = <<y, z>>
      BY Tails
    <3>2. todo = <<y, z>> => todo' = <<z>>
      BY Tails
    <3>3. todo = <<z>> => todo' = <<>>
      BY Tails
    <3> QED BY <1>1, <2>2, <3>1, <3>2, <3>3
  <2>5. Head(todo') = y \/ Head(todo') = z
    <3>1. Head(<<y, z>>) = y /\ Head(<<z>>) = z
      OBVIOUS
    <3> QED BY <2>4, <3>1
  <2> QED BY <1>1, <2>3, <2>5
<1>6. CASE \E x \in Joins(k, pf) :
             \/ todo = <<<<"clean", k>>, <<"leave", k>>, x, <<"front", k>>>>
             \/ todo = <<<<"leave", k>>, x, <<"front", k>>>>
             \/ todo = <<x, <<"front", k>>>>
  <2>1. PICK x \in Joins(k, pf) :
             \/ todo = <<<<"clean", k>>, <<"leave", k>>, x, <<"front", k>>>>
             \/ todo = <<<<"leave", k>>, x, <<"front", k>>>>
             \/ todo = <<x, <<"front", k>>>>
    BY <1>6
  <2> DEFINE c == <<"clean", k>>
             l == <<"leave", k>>
             w == <<"front", k>>
  <2>2. todo = <<c, l, x, w>> \/ todo = <<l, x, w>> \/ todo = <<x, w>>
    BY <2>1
  <2>3. l[1] = "leave" /\ w[1] = "front" /\ x[1] \in {"append", "newpool"}
    BY JoinsAre
  <2> HIDE DEF c, l, w
  <2>4. Head(todo') \in {l, x, w}
    <3>1. todo = <<c, l, x, w>> => todo' = <<l, x, w>>
      BY Tails
    <3>2. todo = <<l, x, w>> => todo' = <<x, w>>
      BY Tails
    <3>3. todo = <<x, w>> => todo' = <<w>>
      BY Tails
    <3>4. Head(<<l, x, w>>) = l /\ Head(<<x, w>>) = x /\ Head(<<w>>) = w
      OBVIOUS
    <3> QED BY <2>2, <3>1, <3>2, <3>3, <3>4
  <2> QED BY <1>1, <2>3, <2>4
<1> QED BY <1>3, <1>4, <1>5, <1>6 DEF PoolPlan

\* sfsync(NULL) starts by listing all open streams but those behind a head,
\* which have nothing to write.
LEMMA VisitedHas ==
  ASSUME ListInv, EmptyInv, Idle, NEW f \in Open \ stray
  PROVE  buf[f] = <<>> \/ \E i \in DOMAIN Visited : Visited[i] = f
<1> DEFINE heads == [p \in Pool |-> IF list[p] = <<>> THEN None ELSE HeadOf(p)]
<1>2. Pools \in Nat
  BY VisitedIs
<1>3. /\ Len(list[Main]) \in Nat /\ DOMAIN list[Main] = 1 .. Len(list[Main])
      /\ DOMAIN Visited = 1 .. Len(list[Main]) + Pools
  BY VisitedIs
<1>4. \A i \in 1 .. Len(list[Main]) + Pools :
        Visited[i] = IF i <= Len(list[Main]) THEN list[Main][i] ELSE heads[i - Len(list[Main])]
  BY VisitedIs
<1>5. f \in Stream /\ Listed(f) /\ pool[f] \in AllPools /\ f \in Members(pool[f])
  <2>1. ~ Between(f) /\ f \in Stream
    BY DEF Between, Open
  <2> QED BY <2>1, NamesAssumption DEF ListInv, ListedInv, Listed, TypeInv
<1>6. CASE pool[f] = Main
  <2>1. PICK i \in 1 .. Len(list[Main]) : list[Main][i] = f
    BY <1>3, <1>5, <1>6 DEF Members, ToSet
  <2>2. i \in 1 .. Len(list[Main]) + Pools /\ i <= Len(list[Main])
    BY <1>2, <1>3
  <2> QED BY <1>3, <1>4, <2>1, <2>2
<1>7. CASE pool[f] \in Pool
  <2>1. CASE f \in pooled
    BY <1>5, <2>1 DEF EmptyInv
  <2>2. CASE f \notin pooled
    <3>1. PICK p \in 1 .. Pools : p = pool[f]
      BY <1>7 DEF Pool
    <3>2. f = HeadOf(p) /\ list[p] # <<>>
      <4>1. todo # <<<<"front", f>>>>
        BY DEF Idle
      <4> QED BY <1>5, <2>2, <3>1, <4>1, MembersAre DEF ListInv, MarksInv, Pool, AllPools
    <3>3. heads[p] = f
      BY <3>2 DEF Pool
    <3> HIDE DEF heads
    <3>4. /\ Len(list[Main]) + p \in 1 .. Len(list[Main]) + Pools /\ ~ (Len(list[Main]) + p <= Len(list[Main]))
          /\ (Len(list[Main]) + p) - Len(list[Main]) = p
      BY <1>2, <1>3
    <3>5. Visited[Len(list[Main]) + p] = f
      BY <1>4, <3>3, <3>4
    <3> QED BY <1>3, <3>4, <3>5
  <2> QED BY <2>1, <2>2
<1> QED BY <1>5, <1>6, <1>7 DEF AllPools

LEMMA CallSyncAllSynced ==
  ASSUME ListInv, EmptyInv, CallSyncAll
  PROVE  SyncedInv'
<1> DEFINE syncs == [i \in DOMAIN Visited |-> <<"sync", Visited[i]>>]
           e == <<"end", None>>
<1>1. Idle /\ todo' = syncs \o <<e>> /\ UNCHANGED <<buf, stray, status>>
  BY DEF CallSyncAll, Start, lists, data, marks
<1>2. Open' = Open
  BY <1>1 DEF Open
<1>3. ASSUME NEW i \in DOMAIN Visited PROVE i \in DOMAIN todo' /\ todo'[i] = <<"sync", Visited[i]>>
  <2> DEFINE n == Len(list[Main]) + Pools
             S == {"sync"} \X (Stream \cup {None})
  <2>1. DOMAIN Visited = 1 .. n /\ n \in Nat /\ \A k \in 1 .. n : Visited[k] \in Stream \cup {None}
    BY VisitedIs
  <2> HIDE DEF n
  <2>2. syncs \in [1 .. n -> S]
    BY <2>1
  <2>3. syncs[i] = <<"sync", Visited[i]>>
    OBVIOUS
  <2> HIDE DEF syncs, e
  <2> DEFINE T == S \cup {e}
  <2>4. syncs \in Seq(T) /\ <<e>> \in Seq(T) /\ Len(syncs) = n /\ Len(<<e>>) = 1
    <3> HIDE DEF S
    <3>1. syncs \in [1 .. n -> T] /\ e \in T
      BY <2>2
    <3> HIDE DEF T
    <3> QED BY <2>1, <3>1
  <2> HIDE DEF T
  <2>5. todo' \in Seq(T) /\ Len(todo') = n + 1
    BY <1>1, <2>4, ConcatProperties
  <2>6. i \in 1 .. n + 1 /\ i <= n
    BY <2>1
  <2>7. DOMAIN todo' = 1 .. n + 1
    BY <2>5
  <2>8. todo'[i] = syncs[i]
    <3>1. i \in 1 .. Len(syncs) + Len(<<e>>) /\ i <= Len(syncs)
      BY <2>4, <2>6
    <3> QED BY <1>1, <2>4, <3>1, ConcatProperties
  <2> QED BY <2>3, <2>6, <2>7, <2>8
<1>4. ASSUME NEW f \in Open \ stray PROVE buf[f] = <<>> \/ Remains(f)'
  <2>1. CASE buf[f] = <<>>
    BY <2>1
  <2>2. CASE \E i \in DOMAIN Visited : Visited[i] = f
    <3>1. PICK i \in DOMAIN Visited : Visited[i] = f
      BY <2>2
    <3>2. i \in DOMAIN todo' /\ todo'[i] = <<"sync", f>>
      BY <1>3, <3>1
    <3> QED BY <3>2 DEF Remains
  <2> QED BY <1>1, <2>1, <2>2, VisitedHas
<1> QED BY <1>1, <1>2, <1>4 DEF SyncedInv

\* Each of the other steps either is none of sfsync(NULL) or does what is next.
LEMMA StepSynced ==
  ASSUME ListInv, SyncedInv, buf \in [Stream -> Seq(Nat)], NEW f \in Stream \cup {None},
         AllPlan, Doing("sync", f), todo' = Tail(todo), UNCHANGED <<status, stray>>,
         (ok' = ok /\ \A g \in Stream : buf'[g] = IF g = f THEN <<>> ELSE buf[g]) \/ ok' = FALSE
  PROVE  SyncedInv'
<1>1. todo # <<>> /\ Head(todo)[1] = "sync" /\ Head(todo)[2] = f
  BY DEF Doing, Idle
<1>2. Open' = Open
  BY DEF Open
<1> SUFFICES ASSUME ok', ok' = ok, \A g \in Stream : buf'[g] = IF g = f THEN <<>> ELSE buf[g],
                    NEW g \in Open \ stray
             PROVE  buf'[g] = <<>> \/ Remains(g)'
  BY <1>2 DEF SyncedInv
<1>3. CASE g = f
  BY <1>3 DEF Open
<1>4. CASE buf[g] = <<>>
  BY <1>4 DEF Open
<1>5. CASE g # f /\ buf[g] # <<>>
  <2>1. Remains(g)
    BY <1>1, <1>5 DEF SyncedInv
  <2>2. PICK i \in 1 .. Len(todo) : todo[i] = <<"sync", g>>
    BY <1>1, <2>1, AllIs DEF Remains
  <2>3. todo[i][2] = g /\ Head(todo) = todo[1]
    BY <1>1, <2>2, AllIs
  <2>4. i # 1
    BY <1>1, <1>5, <2>3
  <2> DEFINE l == Len(todo)
  <2>5. l \in Nat \ {0} /\ i \in 1 .. l /\ DOMAIN Tail(todo) = 1 .. l - 1 /\ \A k \in 1 .. l - 1 : Tail(todo)[k] = todo[k + 1]
    BY <1>1, AllIs
  <2> HIDE DEF l
  <2>6. i - 1 \in 1 .. l - 1 /\ (i - 1) + 1 = i
    BY <2>4, <2>5
  <2>7. i - 1 \in DOMAIN todo' /\ todo'[i - 1] = <<"sync", g>>
    BY <2>2, <2>5, <2>6
  <2> QED BY <2>7 DEF Remains
<1> QED BY <1>3, <1>4, <1>5

LEMMA SyncedNext ==
  ASSUME ListInv, EmptyInv, SyncedInv, buf \in [Stream -> Seq(Nat)], [Next]_vars
  PROVE  SyncedInv'
<1>1. CASE UNCHANGED vars
  BY <1>1 DEF vars, lists, data, marks, SyncedInv, AllPlan, Open, Remains
<1>2. CASE CallSyncAll
  BY <1>2, CallSyncAllSynced
<1>3. CASE Call /\ ~ CallSyncAll
  <2>1. ~ (AllPlan' /\ todo' # <<>>)
    BY <1>3, CallLast, AllNext
  <2> QED BY <2>1 DEF SyncedInv
<1>4. CASE Step
  <2>1. SUFFICES ASSUME AllPlan', todo' # <<>> PROVE SyncedInv'
    BY DEF SyncedInv
  <2>2. Head(todo')[1] \in {"sync", "end"}
    BY <2>1, AllNext
  <2>3. todo # <<>>
    BY <1>4 DEF Step, ToFront, FrontFails, InFront, Moving, Leave, Dissolve, LeaveFails, Put, PutFlush, Get, Sync,
            SyncFails, Syncing, Deleting, Closed, PassOver, End, Join, NewPool, Pooling, Doing, Idle
  <2>4. ASSUME NEW f \in Stream, Sync(f) PROVE SyncedInv'
    <3>1. /\ todo' = Tail(todo) /\ UNCHANGED <<status, stray, ok>> /\ buf' = [buf EXCEPT ![f] = <<>>]
          /\ Syncing(f)
      BY <2>4 DEF Sync, Done, lists, marks
    <3>2. AllPlan
      BY <2>1, <2>3, <3>1, OthersTail DEF ListInv
    <3>3. Doing("sync", f)
      BY <2>3, <3>1, <3>2, AllIs DEF Syncing, Doing
    <3> QED BY <3>1, <3>2, <3>3, StepSynced
  <2>5. ASSUME NEW f \in Stream, SyncFails(f) PROVE SyncedInv'
    <3>1. todo' = Tail(todo) /\ UNCHANGED <<status, stray>> /\ Doing("sync", f) /\ ok' = FALSE
      BY <2>1, <2>5 DEF SyncFails, Return, lists, marks
    <3> QED BY <3>1 DEF SyncedInv
  <2>6. ASSUME PassOver PROVE SyncedInv'
    <3>1. todo' = Tail(todo) /\ UNCHANGED <<status, stray, ok, buf>> /\ Doing("sync", None)
      BY <2>6 DEF PassOver, Done, lists, data, marks
    <3>2. AllPlan
      BY <2>1, <2>3, <3>1, OthersTail DEF ListInv
    <3> QED BY <3>1, <3>2, StepSynced, NamesAssumption
  <2>7. ASSUME NEW f \in Stream, ToFront(f) \/ InFront(f) \/ Leave(f) \/ Dissolve(f) PROVE FALSE
    <3>1. todo' = Tail(todo) /\ Head(todo)[1] \in {"mode", "front", "leave"}
      BY <2>7 DEF ToFront, InFront, Moving, Leave, Dissolve, Doing, Done
    <3> QED BY <2>1, <2>3, <3>1, OthersTail, AllIs DEF ListInv
  <2>8. ASSUME NEW f \in Stream, NEW p \in AllPools, Join(f, p) PROVE FALSE
    <3>1. todo' = Tail(todo) /\ Head(todo)[1] = "append"
      BY <2>1, <2>8 DEF Join, Doing, Done, Return
    <3> QED BY <2>1, <2>3, <3>1, OthersTail, AllIs DEF ListInv
  <2>9. ASSUME NEW f \in Stream, FrontFails(f) \/ LeaveFails(f) \/ Put(f) \/ Get(f) \/ Closed(f) PROVE FALSE
    BY <2>1, <2>9 DEF FrontFails, LeaveFails, Put, Get, Closed, Return
  <2>10. ASSUME NEW f \in Stream, PutFlush(f) PROVE FALSE
    <3>1. todo' = todo /\ Head(todo)[1] = "put"
      BY <2>1, <2>10 DEF PutFlush, Return, Doing
    <3> QED BY <2>2, <3>1
  <2>11. ASSUME NEW f \in Stream, Deleting(f) PROVE FALSE
    <3>1. todo' = <<<<"leave", f>>, <<"append", f, Main>>>>
      BY <2>1, <2>11 DEF Deleting, Return, Expand
    <3>2. Head(todo') = <<"leave", f>>
      BY <3>1
    <3> QED BY <2>2, <3>2
  <2>12. ASSUME NEW f \in Stream, NEW pf \in Stream, NEW m, NewPool(f, pf, m) PROVE FALSE
    <3> DEFINE a == <<"append", f, Fresh>>
               w == <<"front", f>>
    <3>1. todo' = <<a>> \o Tail(todo) /\ Doing("newpool", f) /\ Head(todo)[3] = pf
      BY <2>1, <2>12 DEF NewPool, Return, Expand
    <3>2. todo' = <<a>> \o <<w>>
      BY <3>1, NewPlan DEF ListInv
    <3>3. a[1] = "append"
      OBVIOUS
    <3> HIDE DEF a, w
    <3>4. Head(todo') = a
      BY <3>2, OneAndOne
    <3> QED BY <2>2, <3>3, <3>4
  <2>13. ASSUME NEW f \in Stream, NEW pf \in Stream, NEW m \in Modes, Pooling(f, pf, m) PROVE FALSE
    <3> DEFINE mode == IF pool[pf] \in Pool THEN kind[pool[pf]] ELSE m
               x == IF pool[pf] \in Pool THEN <<"append", f, pool[pf]>> ELSE <<"newpool", f, pf, mode>>
               c == <<"clean", f>>
               l == <<"leave", f>>
               w == <<"front", f>>
    <3>1. todo' = JoinSteps(f, pf, mode)
      BY <2>1, <2>13 DEF Pooling, Return, Expand
    <3>2. c[1] = "clean" /\ l[1] = "leave"
      OBVIOUS
    <3> HIDE DEF x, c, l, w, mode
    <3>3. todo' = (IF mode = "share" THEN <<c>> ELSE <<>>) \o <<l, x, w>>
      BY <3>1 DEF JoinSteps, x, c, l, w, mode
    <3>4. <<c>> \o <<l, x, w>> = <<c, l, x, w>> /\ <<>> \o <<l, x, w>> = <<l, x, w>>
      BY OneAndThree
    <3>5. Head(<<c, l, x, w>>) = c /\ Head(<<l, x, w>>) = l
      OBVIOUS
    <3>6. Head(todo') \in {c, l}
      BY <3>3, <3>4, <3>5
    <3> QED BY <2>2, <3>2, <3>6
  <2>14. CASE \E f \in Stream :
                ToFront(f) \/ FrontFails(f) \/ InFront(f) \/ Leave(f) \/ Dissolve(f) \/ LeaveFails(f)
                  \/ Put(f) \/ PutFlush(f) \/ Get(f) \/ Sync(f) \/ SyncFails(f) \/ Deleting(f) \/ Closed(f)
    BY <2>14, <2>4, <2>5, <2>7, <2>9, <2>10, <2>11
  <2>15. CASE PassOver \/ End
    <3>1. End => todo' = <<>>
      BY DEF End, Return
    <3> QED BY <2>1, <2>6, <2>15, <3>1
  <2>16. CASE \E f \in Stream, p \in Pool \cup {Main} : Join(f, p)
    BY <2>16, <2>8 DEF AllPools
  <2>17. CASE \E f, pf \in Stream, m \in {"plain", "share"} : NewPool(f, pf, m)
    BY <2>17, <2>12
  <2>18. CASE \E f, pf \in Stream, m \in Modes : Pooling(f, pf, m)
    BY <2>18, <2>13
  <2> QED BY <1>4, <2>14, <2>15, <2>16, <2>17, <2>18 DEF Step
<1> QED BY <1>1, <1>2, <1>3, <1>4 DEF Next

\* When sfsync(NULL) ends, nothing is left to visit.
LEMMA EndSynced ==
  ASSUME ListInv, SyncedInv, [Next]_vars, Doing("end", None), ok'
  PROVE  \A f \in Open \ stray : buf[f] = <<>>
<1>1. todo # <<>> /\ Head(todo)[1] = "end"
  BY DEF Doing, Idle
<1>2. ok
  <2>1. CASE UNCHANGED vars
    BY <2>1 DEF vars
  <2>2. CASE Call
    BY <1>1, <2>2 DEF Call, CallSyncAll, CallOpen, CallWrite, CallRead, CallSync, CallClose, CallDelete, CallPool,
                      Start, Idle
  <2>3. CASE Step
    <3>1. End
      BY <1>1, <2>3 DEF Step, ToFront, FrontFails, InFront, Moving, Leave, Dissolve, LeaveFails, Put, PutFlush, Get,
            Sync, SyncFails, Syncing, Deleting, Closed, PassOver, Join, NewPool, Pooling, Doing
    <3> QED BY <3>1 DEF End, Return
  <2> QED BY <2>1, <2>2, <2>3 DEF Next
<1>3. AllPlan
  <2>1. ASSUME NEW f \in Open PROVE ~ OwnPlan(f) /\ ~ MovePlan(f) /\ ~ ClosePlan(f)
    BY <1>1 DEF OwnPlan, MovePlan, ClosePlan
  <2>2. ASSUME NEW f \in Open, NEW pf \in Open PROVE ~ PoolPlan(f, pf)
    BY <1>1 DEF PoolPlan, Joins
  <2> QED BY <1>1, <2>1, <2>2 DEF ListInv, PlanInv
<1>4. DOMAIN todo = {1}
  <2>1. Len(todo) \in Nat \ {0} /\ DOMAIN todo = 1 .. Len(todo) /\ Head(todo) = todo[1]
    BY <1>1, <1>3, AllIs
  <2>2. 1 \in DOMAIN todo
    BY <2>1
  <2>3. Len(todo) = 1
    BY <1>1, <1>3, <2>1, <2>2 DEF AllPlan
  <2> QED BY <2>1, <2>3
<1>5. \A f \in Stream : ~ Remains(f)
  <2>1. Head(todo) = todo[1]
    BY <1>1, <1>3, AllIs
  <2> QED BY <1>1, <1>4, <2>1 DEF Remains
<1> QED BY <1>1, <1>2, <1>3, <1>5 DEF SyncedInv, Open

\* When sfsync(NULL) returns 0 no stream has a byte to write, unless a call left
\* it half-way: it visits the streams of &_Sfpool and the heads of the others,
\* and nothing is behind a head (sfsync.c:17-41, _sfphead).
THEOREM SyncAllDurableAlways == Spec /\ Careful => SyncAllDurable
<1>1. Init => SyncedInv
  BY DEF Init, SyncedInv
<1>2. ListInv /\ EmptyInv /\ BytesInv /\ SyncedInv /\ [Next]_vars => SyncedInv'
  BY SyncedNext, BuffersTyped
<1>3. ListInv /\ SyncedInv /\ [Next]_vars =>
        [Doing("end", None) /\ ok' => \A f \in Open \ stray : buf[f] = <<>>]_vars
  BY EndSynced
<1> QED BY <1>1, <1>2, <1>3, ListInvAlways, BytesAlways, PTL DEF Spec, SyncAllDurable

----------------------------------------------------------------------------
(* The order of a pool's output.                                           *)

\* The bytes and the streams of a pool become fewer at most, its head stays if
\* bytes wait in it, and a buffer loses bytes only at its front.
LEMMA SerialKeeps ==
  ASSUME SerialInv, UNCHANGED by, mine' \subseteq mine, \A i \in mine' : pool'[by[i]] \in Pool,
         \A p \in Pool : Members(p)' \subseteq Stream /\ Held(p)' \subseteq Held(p),
         \A p \in Pool : Held(p)' # {} => kind'[p] = kind[p],
         \A p \in Pool : \A f \in Members(p)' : Held(p)' \cap Waits(f)' # {} =>
           f \in Members(p) /\ (f = HeadOf(p) => f = HeadOf(p)'),
         \A f \in Stream : Waits(f)' \subseteq Waits(f) /\ \A i \in Waits(f)', j \in Waits(f) : i < j => j \in Waits(f)'
  PROVE  SerialInv'
<1>1. \A i \in mine' : i \in 1 .. Len(by') /\ pool'[by'[i]] \in Pool
  BY DEF SerialInv
<1>2. ASSUME NEW p \in Pool, NEW f \in Stream, NEW i \in Held(p)' \cap Waits(f)', by'[i] # f PROVE kind'[p] = "share"
  <2>1. i \in Held(p) \cap Waits(f) /\ by[i] # f /\ kind'[p] = kind[p]
    BY <1>2
  <2> QED BY <2>1 DEF SerialInv
<1>3. ASSUME NEW p \in Pool, NEW f \in Members(p)', NEW i \in Held(p)' \cap Waits(f)'
      PROVE  f = HeadOf(p)' /\ \A j \in Held(p)' : i < j => j \in Waits(f)'
  <2>1. f \in Stream /\ f \in Members(p) /\ (f = HeadOf(p) => f = HeadOf(p)') /\ i \in Held(p) \cap Waits(f)
    BY <1>3
  <2>2. f = HeadOf(p) /\ \A j \in Held(p) : i < j => j \in Waits(f)
    BY <2>1 DEF SerialInv
  <2>3. ASSUME NEW j \in Held(p)', i < j PROVE j \in Waits(f)'
    BY <1>3, <2>1, <2>2, <2>3
  <2> QED BY <2>1, <2>2, <2>3
<1> QED BY <1>1, <1>2, <1>3 DEF SerialInv

\* A step that changes no pool, and writes the first bytes of h at most.
LEMMA TrimSerial ==
  ASSUME TypeInv, SerialInv, BytesInv, UNCHANGED <<by, list, kind, pool, mine>>, stray \subseteq stray',
         NEW h \in Stream, NEW j \in 0 .. Len(buf[h]), buf' = [buf EXCEPT ![h] = Kept(h, j)]
  PROVE  SerialInv'
<1>1. \A p \in Pool : Members(p)' = Members(p) /\ HeadOf(p)' = HeadOf(p) /\ Members(p) \subseteq Stream
  BY MembersAre DEF Members, HeadOf, AllPools
<1>2. \A p \in Pool : Held(p)' \subseteq Held(p)
  BY <1>1 DEF Held
<1>3. ASSUME NEW f \in Stream
      PROVE  Waits(f)' \subseteq Waits(f) /\ \A i \in Waits(f)', k \in Waits(f) : i < k => k \in Waits(f)'
  <2>1. CASE f # h
    <3>1. buf'[f] = buf[f]
      BY <2>1 DEF BytesInv
    <3> QED BY <3>1 DEF Waits
  <2>2. CASE f = h
    <3> DEFINE s == buf[h]
               N == 1 .. Len(by)
               a == SubSeq(s, 1, j)
               b == SubSeq(s, j + 1, Len(s))
    <3>1. N \subseteq Nat /\ s \in Seq(N) /\ Increasing(s) /\ buf'[h] = b
      BY DEF BytesInv, Kept
    <3> HIDE DEF s, N
    <3>2. j \in 0 .. Len(s)
      BY DEF s
    <3>3. /\ ToSet(a) \cup ToSet(b) = ToSet(s) /\ \A x \in ToSet(a), y \in ToSet(b) : x < y
          /\ a \in Seq(N) /\ b \in Seq(N)
      BY <3>1, <3>2, SplitIs
    <3>4. ToSet(a) \subseteq Nat /\ ToSet(b) \subseteq Nat
      BY <3>1, <3>3, RangeIn
    <3> HIDE DEF a, b
    <3>5. ASSUME NEW i \in ToSet(b), NEW k \in ToSet(s), i < k PROVE k \in ToSet(b)
      <4>1. CASE k \in ToSet(a)
        <5>1. k < i /\ k \in Nat /\ i \in Nat
          BY <3>3, <3>4, <4>1
        <5> QED BY <3>5, <5>1
      <4> QED BY <3>3, <4>1
    <3>6. Waits(f)' = ToSet(b) /\ Waits(f) = ToSet(s)
      BY <2>2, <3>1 DEF Waits, s
    <3> QED BY <3>3, <3>5, <3>6
  <2> QED BY <2>1, <2>2
<1>4. \A i \in mine' : pool'[by[i]] \in Pool
  BY DEF SerialInv
<1> QED BY <1>1, <1>2, <1>3, <1>4, SerialKeeps

\* A step that changes no byte and no stream of a pool.
LEMMA SameSerial ==
  ASSUME TypeInv, SerialInv, UNCHANGED <<by, list, kind, pool, mine, buf>>, stray \subseteq stray'
  PROVE  SerialInv'
<1>1. \A p \in Pool : Members(p)' = Members(p) /\ HeadOf(p)' = HeadOf(p) /\ Members(p) \subseteq Stream
  BY MembersAre DEF Members, HeadOf, AllPools
<1>2. \A p \in Pool : Held(p)' \subseteq Held(p)
  BY <1>1 DEF Held
<1>3. \A f \in Stream : Waits(f)' = Waits(f)
  BY DEF Waits
<1>4. \A i \in mine' : pool'[by[i]] \in Pool
  BY DEF SerialInv
<1> QED BY <1>1, <1>2, <1>3, <1>4, SerialKeeps

\* A stream in no pool has put no byte in one.
LEMMA NotMine ==
  ASSUME SerialInv, NEW f, pool[f] \notin Pool
  PROVE  \A i \in mine : by[i] # f
BY DEF SerialInv

\* The pools of the streams that put bytes in them, when other streams move.
LEMMA MineStays ==
  ASSUME TypeInv, BytesInv, SerialInv, mine' \subseteq mine,
         \A x \in Stream : (\E i \in mine' : by[i] = x) => pool'[x] = pool[x]
  PROVE  \A i \in mine' : pool'[by[i]] \in Pool
<1> SUFFICES ASSUME NEW i \in mine' PROVE pool'[by[i]] \in Pool
  OBVIOUS
<1>1. i \in 1 .. Len(by) /\ pool[by[i]] \in Pool
  BY DEF SerialInv
<1>2. by[i] \in Stream
  BY <1>1 DEF BytesInv
<1> QED BY <1>1, <1>2

LEMMA JoinSerial ==
  ASSUME ListInv, EmptyInv, BytesInv, SerialInv, NEW f \in Stream, NEW p \in AllPools, Join(f, p)
  PROVE  SerialInv'
<1>1. /\ Doing("append", f) /\ Head(todo)[3] = p /\ UNCHANGED <<kind, by, buf, mine>>
      /\ pool' = [pool EXCEPT ![f] = p] /\ stray \subseteq stray'
  BY DEF Join, data, past
<1>2. /\ pool[f] = None
      /\ \/ p = Main
         \/ /\ p \in Pool /\ todo = <<<<"append", f, p>>, <<"front", f>>>>
            /\ \E pf \in Open : pf # f /\ pf \in Members(p)
  BY <1>1, JoinPlan DEF ListInv
<1>3. \A i \in mine : by[i] # f
  BY <1>2, NotMine, NamesAssumption
<1>4. \A i \in mine' : pool'[by[i]] \in Pool
  <2>1. \A x \in Stream : x # f => pool'[x] = pool[x]
    BY <1>1
  <2> QED BY <1>1, <1>3, <2>1, MineStays DEF ListInv
<1>5. list'[p] \in {list[p], Append(list[p], f)} /\ \A q \in AllPools : q # p => list'[q] = list[q]
  BY DEF Join, Enlist, NotEnlisted, ListInv, TypeInv
<1>6. /\ list[p] \in Seq(Stream) /\ IsInjective(list[p]) /\ f \notin ToSet(list[p])
  BY <1>2, MembersAre, NamesAssumption DEF ListInv, NamesInv, Members, AllPools
<1>7. /\ Members(p)' \subseteq Members(p) \cup {f} /\ f \notin Members(p)
      /\ list[p] # <<>> => HeadOf(p)' = HeadOf(p)
  <2>1. CASE list'[p] = list[p]
    BY <1>6, <2>1 DEF Members, HeadOf
  <2>2. CASE list'[p] = Append(list[p], f)
    BY <1>6, <2>2, AppendIs DEF Members, HeadOf
  <2> QED BY <1>5, <2>1, <2>2
<1>8. \A q \in AllPools : q # p => Members(q)' = Members(q) /\ HeadOf(q)' = HeadOf(q)
  BY <1>5 DEF Members, HeadOf
<1>9. \A q \in Pool : Members(q) \subseteq Stream
  BY MembersAre DEF ListInv, AllPools
<1>10. \A q \in Pool : Members(q)' \subseteq Stream /\ Held(q)' \subseteq Held(q)
  BY <1>1, <1>3, <1>7, <1>8, <1>9 DEF Held, AllPools
<1>11. ASSUME NEW q \in Pool, NEW g \in Members(q)', Held(q)' \cap Waits(g)' # {}
       PROVE  g \in Members(q) /\ (g = HeadOf(q) => g = HeadOf(q)')
  <2>1. CASE q # p
    BY <1>8, <1>11, <2>1 DEF AllPools
  <2>2. CASE q = p
    <3>1. /\ todo = <<<<"append", f, p>>, <<"front", f>>>>
          /\ \E pf \in Open : pf # f /\ pf \in Members(p)
      BY <1>2, <2>2, NamesAssumption
    <3>2. list[p] # <<>>
      BY <3>1 DEF Members, ToSet
    <3>3. g # f
      <4>1. SUFFICES ASSUME g = f PROVE FALSE
        OBVIOUS
      <4>2. PICK i \in Held(p) \cap Waits(f) : TRUE
        BY <1>1, <1>10, <1>11, <2>2, <4>1 DEF Waits
      <4>3. kind[p] = "share"
        BY <1>3, <2>2, <4>2 DEF SerialInv, Held
      <4>4. buf[f] = <<>>
        BY <2>2, <3>1, <4>3 DEF EmptyInv, Coming
      <4> QED BY <4>2, <4>4 DEF Waits, ToSet
    <3> QED BY <1>7, <1>11, <2>2, <3>2, <3>3
  <2> QED BY <2>1, <2>2
<1>12. \A g \in Stream : Waits(g)' = Waits(g)
  BY <1>1 DEF Waits
<1> QED BY <1>1, <1>4, <1>10, <1>11, <1>12, SerialKeeps

LEMMA LeaveSerial ==
  ASSUME ListInv, BytesInv, SerialInv, NEW f \in Stream, Leave(f)
  PROVE  SerialInv'
<1>1. PICK p \in AllPools : p = pool[f] /\ f \in Members(p)
  BY DEF Leave, Listed, ListInv, TypeInv
<1>2. PICK rest \in Seq(Stream) :
        /\ rest = Without(list[p], f) /\ ToSet(rest) = Members(p) \ {f} /\ (HeadOf(p) # f => rest[1] = HeadOf(p))
  <2>1. list[p] \in Seq(Stream) /\ IsInjective(list[p]) /\ f \in ToSet(list[p])
    BY <1>1, MembersAre DEF ListInv, NamesInv, Members
  <2> QED BY <2>1, WithoutIs DEF HeadOf, Members
<1>3. /\ list' = [list EXCEPT ![p] = rest]
      /\ kind' = IF p # Main /\ rest = <<>> THEN [kind EXCEPT ![p] = "avail"] ELSE kind
      /\ pool' = [pool EXCEPT ![f] = None] /\ stray' = stray \ {f} /\ mine' = ByOthers({f}) /\ UNCHANGED <<by, buf>>
  BY <1>1, <1>2 DEF Leave, data, past
<1>4. list'[p] = rest /\ \A q \in AllPools : q # p => list'[q] = list[q]
  BY <1>3 DEF ListInv, TypeInv
<1>5. /\ Members(p)' = Members(p) \ {f} /\ (HeadOf(p) # f => HeadOf(p)' = HeadOf(p))
      /\ \A q \in AllPools : q # p => Members(q)' = Members(q) /\ HeadOf(q)' = HeadOf(q)
  BY <1>2, <1>4 DEF Members, HeadOf
<1>6. \A q \in Pool : Members(q) \subseteq Stream
  BY MembersAre DEF ListInv, AllPools
<1>7. \A q \in AllPools : f \notin Members(q)'
  BY <1>1, <1>5 DEF ListInv, NamesInv
<1>8. mine' = {i \in mine : by[i] # f}
  BY <1>3 DEF ByOthers
<1>9. \A i \in mine' : pool'[by[i]] \in Pool
  <2>1. \A x \in Stream : x # f => pool'[x] = pool[x]
    BY <1>3 DEF ListInv, TypeInv
  <2>2. mine' \subseteq mine /\ \A i \in mine' : by[i] # f
    BY <1>8
  <2> QED BY <2>1, <2>2, MineStays DEF ListInv
<1>10. \A q \in Pool : Members(q)' \subseteq Stream /\ Held(q)' \subseteq Held(q)
  BY <1>3, <1>5, <1>6, <1>8 DEF Held, AllPools
<1>11. ASSUME NEW q \in Pool, Held(q)' # {} PROVE kind'[q] = kind[q]
  <2>1. CASE q = p /\ rest = <<>>
    <3>1. Members(q)' = {}
      BY <1>4, <2>1 DEF Members, ToSet
    <3> QED BY <1>11, <3>1 DEF Held
  <2>2. CASE ~ (q = p /\ rest = <<>>)
    BY <1>3, <2>2
  <2> QED BY <2>1, <2>2
<1>12. \A q \in Pool : \A g \in Members(q)' : g \in Members(q) /\ (g = HeadOf(q) => g = HeadOf(q)')
  BY <1>5, <1>7 DEF AllPools
<1>13. \A g \in Stream : Waits(g)' = Waits(g)
  BY <1>3 DEF Waits
<1> QED BY <1>3, <1>8, <1>9, <1>10, <1>11, <1>12, <1>13, SerialKeeps

LEMMA DissolveSerial ==
  ASSUME ListInv, BytesInv, SerialInv, NEW f \in Stream, Dissolve(f)
  PROVE  SerialInv'
<1>1. PICK p \in Pool : p = pool[f] /\ f \in Members(p)
  BY DEF Dissolve, Listed, ListInv, TypeInv, AllPools
<1>2. PICK g \in Members(p) :
        /\ kind' = [kind EXCEPT ![p] = "avail"] /\ pool' = [pool EXCEPT ![f] = None, ![g] = Main]
        /\ stray \ {f, g} \subseteq stray' /\ mine' = ByOthers(Members(p)) /\ UNCHANGED <<by, buf>>
        /\ list'[p] = <<>> /\ \A q \in Pool : q # p => list'[q] = list[q]
  <2> DEFINE rest == Without(list[p], f)
             g == rest[1]
  <2>1. rest \in Seq(Stream) /\ ToSet(rest) = Members(p) \ {f} /\ Len(rest) = 1
    <3>1. list[p] \in Seq(Stream) /\ IsInjective(list[p]) /\ f \in ToSet(list[p])
      BY <1>1, MembersAre DEF ListInv, NamesInv, Members, AllPools
    <3>2. Len(rest) = 1
      BY <1>1 DEF Dissolve
    <3> QED BY <3>1, <3>2, WithoutIs DEF Members
  <2>2. g \in Members(p)
    <3> HIDE DEF rest
    <3>1. 1 \in 1 .. Len(rest)
      BY <2>1
    <3> QED BY <2>1, <3>1 DEF ToSet
  <2>3. p # Main
    BY NamesAssumption
  <2>4. /\ kind' = [kind EXCEPT ![p] = "avail"] /\ pool' = [pool EXCEPT ![f] = None, ![g] = Main]
        /\ mine' = ByOthers(Members(p)) /\ UNCHANGED <<by, buf>>
        /\ \/ list' = [list EXCEPT ![p] = <<>>, ![Main] = Append(list[Main], g)] /\ stray' = stray \ {f, g}
           \/ list' = [list EXCEPT ![p] = <<>>] /\ stray' = (stray \ {f}) \cup {g}
    BY <1>1, <2>3 DEF Dissolve, ListInv, TypeInv, data, past
  <2> HIDE DEF g
  <2>5. stray \ {f, g} \subseteq stray'
    BY <2>4
  <2>6. list'[p] = <<>> /\ \A q \in Pool : q # p => list'[q] = list[q]
    BY <2>3, <2>4, NamesAssumption DEF ListInv, TypeInv, AllPools
  <2> QED BY <2>2, <2>4, <2>5, <2>6
<1>3. /\ Members(p)' = {} /\ \A q \in Pool : q # p => Members(q)' = Members(q) /\ HeadOf(q)' = HeadOf(q)
  BY <1>2 DEF Members, HeadOf, ToSet
<1>4. \A q \in Pool : Members(q) \subseteq Stream
  BY MembersAre DEF ListInv, AllPools
<1>5. mine' = {i \in mine : by[i] \notin Members(p)}
  BY <1>2 DEF ByOthers
<1>6. \A i \in mine' : pool'[by[i]] \in Pool
  <2>1. \A x \in Stream : x # f /\ x # g => pool'[x] = pool[x]
    BY <1>2 DEF ListInv, TypeInv
  <2>2. mine' \subseteq mine /\ \A i \in mine' : by[i] # f /\ by[i] # g
    BY <1>1, <1>2, <1>5
  <2> QED BY <2>1, <2>2, MineStays DEF ListInv
<1>7. \A q \in Pool : q # p => f \notin Members(q) /\ g \notin Members(q)
  BY <1>1, <1>2 DEF ListInv, NamesInv, AllPools
<1>8. \A q \in Pool : Members(q)' \subseteq Stream /\ Held(q)' \subseteq Held(q)
  BY <1>2, <1>3, <1>4, <1>5, <1>7 DEF Held
<1>9. \A q \in Pool : Held(q)' # {} => kind'[q] = kind[q]
  BY <1>2, <1>3 DEF Held
<1>10. \A q \in Pool : \A x \in Members(q)' : x \in Members(q) /\ (x = HeadOf(q) => x = HeadOf(q)')
  BY <1>3
<1>11. \A x \in Stream : Waits(x)' = Waits(x)
  BY <1>2 DEF Waits
<1> QED BY <1>2, <1>5, <1>6, <1>8, <1>9, <1>10, <1>11, SerialKeeps

LEMMA NewPoolSerial ==
  ASSUME ListInv, BytesInv, SerialInv, NEW f \in Stream, NEW pf \in Stream, NEW m \in {"plain", "share"},
         NewPool(f, pf, m)
  PROVE  SerialInv'
<1>1. Doing("newpool", f) /\ Head(todo)[3] = pf /\ UNCHANGED <<by, buf, mine>> /\ stray \subseteq stray'
  BY DEF NewPool, data, past
<1>2. pool[pf] \notin Pool
  BY <1>1, NewPlan DEF ListInv
<1>3. \A i \in mine : by[i] # pf
  BY <1>2, NotMine
<1>4. \A p \in Unused : p \in Pool /\ list[p] = <<>>
  BY DEF Unused, ListInv, PoolsInv
<1>5. ASSUME NEW p \in Pool
      PROVE  /\ list'[p] = list[p] \/ list'[p] = <<pf>>
             /\ kind'[p] = kind[p] \/ list[p] = <<>>
             /\ list[p] # <<>> => list'[p] = list[p]
  <2>1. CASE UNCHANGED <<list, kind>>
    BY <2>1
  <2>2. CASE Unused # {} /\ kind' = [kind EXCEPT ![Fresh] = m] /\ UNCHANGED list
    BY <1>4, <2>2, FreshIs DEF ListInv, TypeInv
  <2>3. CASE /\ Unused # {} /\ kind' = [kind EXCEPT ![Fresh] = m]
             /\ list' = [list EXCEPT ![Main] = Without(list[Main], pf), ![Fresh] = <<pf>>]
    <3>1. Fresh \in Pool /\ list[Fresh] = <<>> /\ p # Main /\ p \in AllPools
      BY <1>4, <2>3, FreshIs, NamesAssumption DEF AllPools
    <3>2. list'[p] = IF p = Fresh THEN <<pf>> ELSE list[p]
      BY <2>3, <3>1 DEF ListInv, TypeInv
    <3>3. kind'[p] = kind[p] \/ p = Fresh
      BY <2>3
    <3> QED BY <3>1, <3>2, <3>3
  <2> QED BY <2>1, <2>2, <2>3 DEF NewPool
<1>6. \A x \in Stream : x # pf => pool'[x] = pool[x]
  <2>1. UNCHANGED pool \/ pool' = [pool EXCEPT ![pf] = Fresh]
    BY DEF NewPool
  <2> QED BY <2>1 DEF ListInv, TypeInv
<1>7. ASSUME NEW p \in Pool
      PROVE  /\ list[p] = <<>> => Members(p)' \subseteq {pf}
             /\ list[p] # <<>> => Members(p)' = Members(p) /\ HeadOf(p)' = HeadOf(p)
             /\ Members(p)' \subseteq Stream
  <2>1. ToSet(<<pf>>) = {pf} /\ ToSet(<<>>) = {} /\ Members(p) \subseteq Stream
    BY MembersAre DEF ToSet, ListInv, AllPools
  <2> QED BY <1>5, <2>1 DEF Members, HeadOf
<1>8. \A p \in Pool : list[p] = <<>> => Held(p)' = {}
  BY <1>1, <1>3, <1>7 DEF Held
<1>9. \A p \in Pool : Members(p)' \subseteq Stream /\ Held(p)' \subseteq Held(p)
  BY <1>1, <1>7, <1>8 DEF Held
<1>10. \A p \in Pool : Held(p)' # {} => kind'[p] = kind[p]
  BY <1>5, <1>8
<1>11. \A p \in Pool : \A g \in Members(p)' : Held(p)' # {} => g \in Members(p) /\ (g = HeadOf(p) => g = HeadOf(p)')
  BY <1>7, <1>8
<1>12. \A x \in Stream : Waits(x)' = Waits(x)
  BY <1>1 DEF Waits
<1>13. \A i \in mine' : pool'[by[i]] \in Pool
  BY <1>1, <1>3, <1>6, MineStays DEF ListInv
<1> QED BY <1>1, <1>9, <1>10, <1>11, <1>12, <1>13, SerialKeeps

\* A stream that accepts a byte in a pool is at the head.
LEMMA PutAtHead ==
  ASSUME ListInv, NEW f \in Stream, Doing("put", f), NEW p \in Pool, f \in Members(p) \ stray
  PROVE  f = HeadOf(p)
<1>1. todo = <<<<"put", f>>>> /\ f \notin pooled
  BY PutPlan DEF ListInv
<1>2. \A g : todo # <<<<"front", g>>>>
  BY <1>1
<1> QED BY <1>1, <1>2 DEF ListInv, MarksInv

LEMMA PutSerial ==
  ASSUME ListInv, BytesInv, SerialInv, NEW f \in Stream, Put(f)
  PROVE  SerialInv'
<1> DEFINE n == Len(by) + 1
<1>1. /\ Doing("put", f) /\ by' = Append(by, f) /\ buf' = [buf EXCEPT ![f] = Append(buf[f], n)]
      /\ mine' = IF pool[f] \in Pool THEN mine \cup {n} ELSE mine
      /\ UNCHANGED <<pool, list, kind, stray>>
  BY DEF Put, lists
<1>2. n \in Nat /\ Len(by) \in Nat /\ by \in Seq(Stream)
  BY DEF BytesInv
<1>3. Len(by') = n /\ by'[n] = f /\ \A i \in 1 .. Len(by) : by'[i] = by[i]
  BY <1>1, <1>2
<1>4. /\ \A i \in mine : i \in 1 .. Len(by) /\ i < n /\ by'[i] = by[i] /\ i # n /\ i \in Nat
      /\ \A g \in Stream : n \notin Waits(g)
  <2>1. \A i \in 1 .. Len(by) : i < n /\ i # n /\ i \in Nat
    BY <1>2
  <2>2. \A g \in Stream : Waits(g) \subseteq 1 .. Len(by)
    BY RangeIn DEF BytesInv, Waits
  <2> QED BY <1>3, <2>1, <2>2 DEF SerialInv
<1>5. Waits(f)' = Waits(f) \cup {n} /\ \A g \in Stream : g # f => Waits(g)' = Waits(g)
  <2>1. buf'[f] = Append(buf[f], n) /\ (\A g \in Stream : g # f => buf'[g] = buf[g]) /\ buf[f] \in Seq(Nat)
    BY <1>1, BuffersTyped DEF BytesInv
  <2>2. ToSet(Append(buf[f], n)) = ToSet(buf[f]) \cup {n}
    <3> HIDE DEF n
    <3> DEFINE s == buf[f]
    <3> HIDE DEF s
    <3>1. s \in Seq(Nat) /\ n \in Nat
      BY <1>2, <2>1 DEF s
    <3>2. /\ Len(s) \in Nat /\ DOMAIN s = 1 .. Len(s) /\ DOMAIN Append(s, n) = 1 .. Len(s) + 1
          /\ Append(s, n)[Len(s) + 1] = n /\ \A i \in 1 .. Len(s) : Append(s, n)[i] = s[i]
      BY <3>1
    <3>3. \A i \in 1 .. Len(s) + 1 : i = Len(s) + 1 \/ i \in 1 .. Len(s)
      BY <3>2
    <3>4. 1 .. Len(s) \subseteq 1 .. Len(s) + 1 /\ Len(s) + 1 \in 1 .. Len(s) + 1
      BY <3>2
    <3>5. ToSet(Append(s, n)) = ToSet(s) \cup {n}
      BY <3>2, <3>3, <3>4 DEF ToSet
    <3> QED BY <3>5 DEF s
  <2> QED BY <2>1, <2>2 DEF Waits
<1> HIDE DEF n
<1>6. \A p \in Pool : Members(p)' = Members(p) /\ HeadOf(p)' = HeadOf(p) /\ Members(p) \subseteq Stream
  BY <1>1, MembersAre DEF Members, HeadOf, ListInv, AllPools
<1>7. ASSUME NEW p \in Pool, NEW i \in Held(p)'
      PROVE  (i # n /\ i \in Held(p)) \/ (i = n /\ f \in Members(p) \ stray)
  <2>1. i \in mine' /\ by'[i] \in Members(p) \ stray
    BY <1>1, <1>6, <1>7 DEF Held
  <2>2. i \in mine \/ i = n
    BY <1>1, <2>1
  <2> QED BY <1>3, <1>4, <2>1, <2>2 DEF Held
<1>8. \A i \in mine' : i \in 1 .. Len(by') /\ pool'[by'[i]] \in Pool
  <2>1. ASSUME NEW i \in mine PROVE i \in 1 .. Len(by') /\ pool'[by'[i]] \in Pool
    <3>1. i \in 1 .. Len(by) /\ pool[by[i]] \in Pool
      BY DEF SerialInv
    <3>2. i \in 1 .. n
      BY <1>2, <1>4, <3>1
    <3> QED BY <1>1, <1>3, <1>4, <3>1, <3>2
  <2>2. n \in 1 .. n
    BY <1>2, <1>4 DEF n
  <2> QED BY <1>1, <1>3, <2>1, <2>2
<1>9. ASSUME NEW p \in Pool, NEW g \in Stream, NEW i \in Held(p)' \cap Waits(g)', by'[i] # g PROVE kind'[p] = "share"
  <2>1. i # n
    BY <1>3, <1>4, <1>5, <1>9
  <2>2. i \in Held(p) \cap Waits(g) /\ i \in mine
    BY <1>5, <1>7, <1>9, <2>1 DEF Held
  <2> QED BY <1>1, <1>4, <1>9, <2>2 DEF SerialInv
<1>10. ASSUME NEW p \in Pool, NEW g \in Members(p)', NEW i \in Held(p)' \cap Waits(g)'
       PROVE  g = HeadOf(p)' /\ \A j \in Held(p)' : i < j => j \in Waits(g)'
  <2>1. g \in Members(p) /\ g \in Stream /\ HeadOf(p)' = HeadOf(p)
    BY <1>6, <1>10
  <2>2. f \in Members(p) \ stray => f = HeadOf(p)
    BY <1>1, PutAtHead
  <2>3. CASE i = n
    <3>1. g = f /\ f = HeadOf(p)
      BY <1>4, <1>5, <1>7, <1>10, <2>1, <2>2, <2>3
    <3>2. \A j \in Held(p)' : ~ (n < j)
      <4>1. \A j \in Held(p)' : j = n \/ (j < n /\ j \in Nat)
        BY <1>4, <1>7 DEF Held
      <4> QED BY <1>2, <4>1 DEF n
    <3> QED BY <2>1, <2>3, <3>1, <3>2
  <2>4. CASE i # n
    <3>1. i \in Held(p) \cap Waits(g)
      BY <1>5, <1>7, <1>10, <2>1, <2>4
    <3>2. g = HeadOf(p) /\ \A j \in Held(p) : i < j => j \in Waits(g)
      BY <2>1, <3>1 DEF SerialInv
    <3>3. ASSUME NEW j \in Held(p)', i < j PROVE j \in Waits(g)'
      <4>1. CASE j = n
        BY <1>5, <1>7, <2>2, <3>2, <3>3, <4>1
      <4>2. CASE j # n
        BY <1>5, <1>7, <2>1, <3>2, <3>3, <4>2
      <4> QED BY <4>1, <4>2
    <3> QED BY <2>1, <3>2, <3>3
  <2> QED BY <2>3, <2>4
<1> QED BY <1>8, <1>9, <1>10 DEF SerialInv

\* The head hands its data over, or has written it.
LEMMA ToFrontSerial ==
  ASSUME ListInv, EmptyInv, BytesInv, SerialInv, NEW f \in Stream, ToFront(f)
  PROVE  SerialInv'
<1>1. Moving(f) /\ UNCHANGED <<by, pool, kind, mine, stray>>
  BY DEF ToFront, marks
<1>2. PICK p \in Pool : p = pool[f] /\ f \in Members(p)
  BY <1>1, MovingIs
<1>3. PICK h \in Stream : h = HeadOf(p) /\ h # f /\ h \in Members(p)
  BY <1>1, <1>2, MovingIs, MembersAre DEF ListInv, AllPools
<1>4. PICK j \in 0 .. Len(buf[h]) : j = Excess(h, f)
  BY ExcessIs
<1>5. /\ list' = [list EXCEPT ![p] = Swapped(list[p], f)]
      /\ buf' = [buf EXCEPT ![h] = <<>>, ![f] = IF kind[p] = "share" THEN SubSeq(buf[h], j + 1, Len(buf[h])) ELSE buf[f]]
  BY <1>2, <1>3, <1>4 DEF ToFront, Handed, Kept, BytesInv, ListInv, TypeInv, AllPools
<1>6. /\ Members(p)' = Members(p) /\ HeadOf(p)' = f
      /\ \A q \in Pool : q # p => Members(q)' = Members(q) /\ HeadOf(q)' = HeadOf(q)
  <2>1. list[p] \in Seq(Stream) /\ IsInjective(list[p]) /\ f \in ToSet(list[p])
    BY <1>2, MembersAre DEF ListInv, NamesInv, Members, AllPools
  <2>2. ToSet(Swapped(list[p], f)) = ToSet(list[p]) /\ Swapped(list[p], f)[1] = f
    BY <2>1, SwappedIs
  <2>3. list'[p] = Swapped(list[p], f) /\ \A q \in Pool : q # p => list'[q] = list[q]
    BY <1>5 DEF ListInv, TypeInv, AllPools
  <2> QED BY <2>2, <2>3 DEF Members, HeadOf
<1>7. \A q \in Pool : Members(q)' = Members(q) /\ Held(q)' = Held(q) /\ Members(q) \subseteq Stream
  <2>1. \A q \in Pool : Members(q)' = Members(q) /\ Members(q) \subseteq Stream
    BY <1>6, MembersAre DEF ListInv, AllPools
  <2> QED BY <1>1, <2>1 DEF Held
<1>8. /\ Waits(h)' = {} /\ \A g \in Stream : g # f /\ g # h => Waits(g)' = Waits(g)
      /\ Waits(f)' = IF kind[p] = "share" THEN ToSet(SubSeq(buf[h], j + 1, Len(buf[h]))) ELSE Waits(f)
  <2>1. /\ buf'[h] = <<>> /\ \A g \in Stream : g # f /\ g # h => buf'[g] = buf[g]
        /\ buf'[f] = IF kind[p] = "share" THEN SubSeq(buf[h], j + 1, Len(buf[h])) ELSE buf[f]
    BY <1>3, <1>5 DEF BytesInv
  <2> QED BY <2>1 DEF Waits, ToSet
<1>9. \A i \in mine' : pool'[by[i]] \in Pool
  BY <1>1 DEF SerialInv
<1>10. CASE kind[p] # "share"
  <2>1. \A g \in Stream : Waits(g)' \subseteq Waits(g) /\ \A i \in Waits(g)', k \in Waits(g) : i < k => k \in Waits(g)'
    BY <1>8, <1>10
  <2>2. ASSUME NEW q \in Pool, NEW g \in Members(q)', Held(q)' \cap Waits(g)' # {}
        PROVE  g \in Members(q) /\ (g = HeadOf(q) => g = HeadOf(q)')
    <3>1. g # h
      BY <1>8, <2>2
    <3> QED BY <1>3, <1>6, <1>7, <2>2, <3>1
  <2>3. \A q \in Pool : Members(q)' \subseteq Stream /\ Held(q)' \subseteq Held(q) /\ kind'[q] = kind[q]
    BY <1>1, <1>7
  <2> QED BY <1>1, <1>9, <2>1, <2>2, <2>3, SerialKeeps
<1>11. CASE kind[p] = "share"
  <2> DEFINE N == 1 .. Len(by)
             s == buf[h]
             a == SubSeq(s, 1, j)
             b == SubSeq(s, j + 1, Len(s))
  <2>1. /\ ToSet(b) \subseteq Waits(h) /\ Waits(f)' = ToSet(b)
        /\ \A i \in ToSet(b), k \in Waits(h) : i < k => k \in ToSet(b)
    <3>1. N \subseteq Nat /\ s \in Seq(N) /\ Increasing(s)
      BY DEF BytesInv
    <3>2. Waits(h) = ToSet(s) /\ Waits(f)' = ToSet(b)
      BY <1>8, <1>11 DEF Waits
    <3> HIDE DEF s, N
    <3>3. j \in 0 .. Len(s)
      BY DEF s
    <3>4. /\ ToSet(a) \cup ToSet(b) = ToSet(s) /\ \A x \in ToSet(a), y \in ToSet(b) : x < y
          /\ a \in Seq(N) /\ b \in Seq(N)
      BY <3>1, <3>3, SplitIs
    <3>5. ToSet(a) \subseteq Nat /\ ToSet(b) \subseteq Nat
      BY <3>1, <3>4, RangeIn
    <3> HIDE DEF a, b
    <3>6. ASSUME NEW i \in ToSet(b), NEW k \in ToSet(s), i < k PROVE k \in ToSet(b)
      <4>1. CASE k \in ToSet(a)
        <5>1. k < i /\ k \in Nat /\ i \in Nat
          BY <3>4, <3>5, <4>1
        <5> QED BY <3>6, <5>1
      <4> QED BY <3>4, <4>1
    <3> QED BY <3>2, <3>4, <3>6
  <2> HIDE DEF a, b, s, N
  <2>2. ASSUME NEW q \in Pool, NEW g \in Stream, NEW i \in Held(q)' \cap Waits(g)', by'[i] # g PROVE kind'[q] = "share"
    <3>1. i \in Held(q) /\ i \in mine /\ by[i] \in Members(q)
      BY <1>7, <2>2 DEF Held
    <3>2. CASE g = f
      <4>1. i \in Waits(h)
        BY <2>1, <2>2, <3>2
      <4>2. q # p => by[i] # h
        BY <1>3, <3>1 DEF ListInv, NamesInv, AllPools
      <4> QED BY <1>1, <1>11, <3>1, <4>1, <4>2 DEF SerialInv
    <3>3. CASE g # f
      <4>1. i \in Waits(g) /\ by[i] # g
        BY <1>1, <1>8, <2>2, <3>3
      <4> QED BY <1>1, <3>1, <4>1 DEF SerialInv
    <3> QED BY <3>2, <3>3
  <2>3. ASSUME NEW q \in Pool, NEW g \in Members(q)', NEW i \in Held(q)' \cap Waits(g)'
        PROVE  g = HeadOf(q)' /\ \A k \in Held(q)' : i < k => k \in Waits(g)'
    <3>1. g \in Members(q) /\ g \in Stream /\ i \in Held(q) /\ Held(q)' = Held(q)
      BY <1>7, <2>3
    <3>2. g # h
      BY <1>8, <2>3
    <3>3. CASE g = f
      <4>1. q = p
        BY <1>2, <3>1, <3>3 DEF ListInv, NamesInv, AllPools
      <4>2. i \in ToSet(b) /\ i \in Waits(h)
        BY <2>1, <2>3, <3>3
      <4>3. \A k \in Held(p) : i < k => k \in Waits(h)
        BY <1>3, <3>1, <4>1, <4>2 DEF SerialInv
      <4> QED BY <1>6, <2>1, <3>1, <3>3, <4>1, <4>2, <4>3
    <3>4. CASE g # f
      <4>1. Waits(g)' = Waits(g)
        BY <1>8, <3>1, <3>2, <3>4
      <4>2. g = HeadOf(q) /\ \A k \in Held(q) : i < k => k \in Waits(g)
        BY <2>3, <3>1, <4>1 DEF SerialInv
      <4>3. q # p
        BY <1>3, <3>2, <4>2
      <4> QED BY <1>6, <3>1, <4>1, <4>2, <4>3
    <3> QED BY <3>3, <3>4
  <2>4. \A i \in mine' : i \in 1 .. Len(by') /\ pool'[by'[i]] \in Pool
    BY <1>1 DEF SerialInv
  <2> QED BY <2>2, <2>3, <2>4 DEF SerialInv
<1> QED BY <1>10, <1>11

LEMMA ClosedSerial ==
  ASSUME ListInv, BytesInv, SerialInv, NEW f \in Stream, Closed(f)
  PROVE  SerialInv'
<1>1. /\ Doing("closed", f) /\ UNCHANGED <<list, kind, by, mine>> /\ stray' = stray \ {f}
      /\ pool' = [pool EXCEPT ![f] = None] /\ buf' = [buf EXCEPT ![f] = <<>>]
  BY DEF Closed
<1>2. ~ Listed(f) /\ pool[f] \notin Pool
  BY <1>1, ClosedPlan DEF ListInv
<1>3. \A p \in Pool : f \notin Members(p)
  BY <1>2 DEF ListInv, NamesInv, AllPools
<1>4. \A p \in Pool : Members(p)' = Members(p) /\ HeadOf(p)' = HeadOf(p) /\ Members(p) \subseteq Stream
  BY <1>1, MembersAre DEF Members, HeadOf, ListInv, AllPools
<1>5. \A p \in Pool : Members(p)' \subseteq Stream /\ Held(p)' \subseteq Held(p) /\ kind'[p] = kind[p]
  BY <1>1, <1>3, <1>4 DEF Held
<1>6. \A i \in mine' : pool'[by[i]] \in Pool
  <2>1. \A x \in Stream : x # f => pool'[x] = pool[x]
    BY <1>1 DEF ListInv, TypeInv
  <2>2. \A i \in mine : by[i] # f
    BY <1>2, NotMine
  <2> QED BY <1>1, <2>1, <2>2, MineStays DEF ListInv
<1>7. \A g \in Stream : Waits(g)' \subseteq Waits(g) /\ \A i \in Waits(g)', j \in Waits(g) : i < j => j \in Waits(g)'
  <2>1. buf'[f] = <<>> /\ \A g \in Stream : g # f => buf'[g] = buf[g]
    BY <1>1 DEF BytesInv
  <2>2. Waits(f)' = {} /\ \A g \in Stream : g # f => Waits(g)' = Waits(g)
    BY <2>1 DEF Waits, ToSet
  <2> QED BY <2>2
<1> QED BY <1>1, <1>4, <1>5, <1>6, <1>7, SerialKeeps

LEMMA FlushSerial ==
  ASSUME ListInv, BytesInv, SerialInv, NEW f \in Stream, FrontFails(f) \/ PutFlush(f) \/ Sync(f) \/ SyncFails(f)
  PROVE  SerialInv'
<1>1. UNCHANGED <<by, list, kind, pool, mine>> /\ stray \subseteq stray'
  BY DEF FrontFails, PutFlush, Sync, SyncFails, lists, marks
<1>2. \E h \in Stream : \E j \in 0 .. Len(buf[h]) : buf' = [buf EXCEPT ![h] = Kept(h, j)]
  <2>1. CASE FrontFails(f)
    <3>1. PICK h \in Stream : h = HeadOf(pool[f])
      BY <2>1, MovingIs, MembersAre DEF FrontFails, ListInv, AllPools
    <3>2. PICK j \in 0 .. Excess(h, f) - 1 : buf' = [buf EXCEPT ![h] = Kept(h, j)]
      BY <2>1, <3>1 DEF FrontFails
    <3>3. j \in 0 .. Len(buf[h])
      BY ExcessIs, BufferIs
    <3> QED BY <3>2, <3>3
  <2>2. CASE PutFlush(f)
    <3>1. PICK j \in 0 .. Cap[f] : buf' = [buf EXCEPT ![f] = Kept(f, j)]
      BY <2>2 DEF PutFlush
    <3>2. j \in 0 .. Len(buf[f])
      BY <2>2 DEF PutFlush
    <3> QED BY <3>1, <3>2
  <2>3. CASE Sync(f)
    <3>1. Kept(f, Len(buf[f])) = <<>> /\ Len(buf[f]) \in 0 .. Len(buf[f])
      BY BufferIs DEF Kept
    <3>2. buf' = [buf EXCEPT ![f] = Kept(f, Len(buf[f]))]
      BY <2>3, <3>1 DEF Sync
    <3> QED BY <3>1, <3>2
  <2>4. CASE SyncFails(f)
    <3>1. PICK j \in 0 .. Len(buf[f]) - 1 : buf' = [buf EXCEPT ![f] = Kept(f, j)]
      BY <2>4 DEF SyncFails
    <3>2. j \in 0 .. Len(buf[f])
      BY BufferIs
    <3> QED BY <3>1, <3>2
  <2> QED BY <2>1, <2>2, <2>3, <2>4
<1> QED BY <1>1, <1>2, TrimSerial DEF ListInv

LEMMA SerialNext ==
  ASSUME ListInv, EmptyInv, BytesInv, SerialInv, [Next]_vars
  PROVE  SerialInv'
<1> USE DEF lists, data, past, marks
<1>1. CASE UNCHANGED vars \/ Call
  <2>1. UNCHANGED <<by, list, kind, pool, mine, buf, stray>>
    BY <1>1 DEF vars, Call, CallSyncAll, CallOpen, CallWrite, CallRead, CallSync, CallClose, CallDelete, CallPool, Start
  <2> QED BY <2>1, SameSerial DEF ListInv
<1>2. CASE Step
  <2>1. ASSUME NEW f \in Stream, ToFront(f) \/ Put(f) \/ Closed(f) PROVE SerialInv'
    BY <2>1, ToFrontSerial, PutSerial, ClosedSerial
  <2>2. ASSUME NEW f \in Stream, FrontFails(f) \/ PutFlush(f) \/ Sync(f) \/ SyncFails(f) PROVE SerialInv'
    BY <2>2, FlushSerial
  <2>3. ASSUME NEW f \in Stream, Leave(f) \/ Dissolve(f) PROVE SerialInv'
    BY <2>3, LeaveSerial, DissolveSerial
  <2>4. ASSUME NEW f \in Stream, InFront(f) \/ LeaveFails(f) \/ Get(f) \/ Deleting(f) PROVE SerialInv'
    <3>1. UNCHANGED <<by, list, kind, pool, mine, buf, stray>>
      BY <2>4 DEF InFront, LeaveFails, Get, Deleting
    <3> QED BY <3>1, SameSerial DEF ListInv
  <2>5. ASSUME PassOver \/ End PROVE SerialInv'
    BY <2>5, SameSerial DEF PassOver, End, ListInv
  <2>6. ASSUME NEW f \in Stream, NEW p \in Pool \cup {Main}, Join(f, p) PROVE SerialInv'
    BY <2>6, JoinSerial DEF AllPools
  <2>7. ASSUME NEW f \in Stream, NEW pf \in Stream, NEW m \in {"plain", "share"}, NewPool(f, pf, m) PROVE SerialInv'
    BY <2>7, NewPoolSerial
  <2>8. ASSUME NEW f \in Stream, NEW pf \in Stream, NEW m, Pooling(f, pf, m) PROVE SerialInv'
    BY <2>8, SameSerial DEF Pooling, ListInv
  <2> QED BY <1>2, <2>1, <2>2, <2>3, <2>4, <2>5, <2>6, <2>7, <2>8 DEF Step
<1> QED BY <1>1, <1>2 DEF Next

LEMMA SerialInvSerial == ListInv /\ BytesInv /\ SerialInv => Serial
<1> SUFFICES ASSUME ListInv, BytesInv, SerialInv, NEW p \in Pool, NEW f \in Members(p) \ stray,
                    NEW i \in ToSet(buf[f]), NEW j \in ToSet(out),
                    i < j, {i, j} \subseteq mine, {by[i], by[j]} \subseteq Members(p) \ stray
             PROVE  FALSE
  BY DEF Serial
<1>0. f \in Stream
  BY MembersAre DEF ListInv, AllPools
<1>1. i \in Held(p) \cap Waits(f) /\ j \in Held(p)
  BY DEF Held, Waits
<1>2. j \in Waits(f)
  BY <1>1 DEF SerialInv
<1> QED BY <1>0, <1>2 DEF BytesInv, Gone

\* A pool serializes its output: no byte is written before one that a stream of
\* the pool accepted earlier and that still waits in the pool (_sfphead,
\* _sfsetpool, sfputc; "Pool not serializing output", tpool.c).
THEOREM SerialAlways == Spec /\ Careful => []Serial
<1>1. Init => SerialInv
  <2> SUFFICES ASSUME Init PROVE SerialInv
    OBVIOUS
  <2>1. mine = {} /\ \A p \in Pool : Held(p) = {}
    BY DEF Init, Held
  <2> QED BY <2>1 DEF SerialInv
<1>2. ListInv /\ EmptyInv /\ BytesInv /\ SerialInv /\ [Next]_vars => SerialInv'
  BY SerialNext
<1> QED BY <1>1, <1>2, ListInvAlways, BytesAlways, SerialInvSerial, PTL DEF Spec
=============================================================================
