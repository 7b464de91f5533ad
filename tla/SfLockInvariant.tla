-------------------------- MODULE SfLockInvariant --------------------------
(***************************************************************************)
(* The invariant of SfLock for any threads, streams, stacks and calls of a *)
(* careful application, and what has to be shown of a step that keeps it:  *)
(* the steps that are left at each place of a call, the locks, mutexes and *)
(* streams they account for, and the threads that do not move.             *)
(***************************************************************************)
EXTENDS SfLock, FiniteSetTheorems, SequenceTheorems, WellFoundedInduction, TLAPS

Pool == ToSet(PoolOrder)

\* The application avoids what no call protects it from (Habits = {}); one
\* thread only calls on the streams of the pool, and nothing but I/O; neither a
\* standard stream nor one of the pool is pushed on another.
MayPool(t) == \E c \in Calls[t] : c[2] \in Pool
Careful ==
  /\ Habits = {}
  /\ \A t, u \in Thread : MayPool(t) /\ MayPool(u) => t = u
  /\ \A t \in Thread : \A c \in Calls[t] :
       /\ c[2] \in Pool => c[1] = "io"
       /\ c[1] = "stack" => c[3] \notin Std \cup Pool /\ c[2] # c[3]

\* The streams have an order in which sfstack locks them.
IsRank(r) == \E N \in Nat : r \in [Stream -> 0 .. N]
Ordered == \E r : /\ IsRank(r)
                  /\ \A t \in Thread : \A c \in Calls[t] : c[1] = "stack" => r[c[2]] < r[c[3]]
Rank == CHOOSE r : /\ IsRank(r)
                   /\ \A t \in Thread : \A c \in Calls[t] : c[1] = "stack" => r[c[2]] < r[c[3]]

----------------------------------------------------------------------------
(* The places of a call: the steps that are left, by what it has done.  f  *)
(* is its stream, g the other one, n the place of f in the pool.           *)

Then(s, r) == <<s>> \o r

UnlockF(f) == Then(<<"unlock", f>>, <<>>)
UnlockFG(f, g) == Then(<<"unlock", f>>, UnlockF(g))
Io4(f) == Then(<<"leave", f>>, UnlockF(f))
Io3(f) == Then(<<"enter", f>>, Io4(f))
J4(f) == Then(<<"clrmtx", f>>, <<>>)
J3(f) == Then(<<"unlock", f>>, J4(f))
Pop3(f) == Then(<<"pop", f>>, UnlockF(f))
Sp2(f, g) == Then(<<"swapped", f, g>>, UnlockFG(f, g))
Cl3(f) == Then(<<"closing", f>>, UnlockF(f))
K2(f) == Then(<<"final", f>>, <<>>)
N11(f, g) == Then(<<"final", g>>, Cl3(f))
N9(f, g) == Then(<<"closing", g>>, Then(<<"unlock", g>>, Cl3(f)))
N8(f, g) == Then(<<"check", g>>, N9(f, g))
N7(f, g) == Then(<<"lock", g>>, N8(f, g))
N6(f, g) == Then(<<"unlock", g>>, N7(f, g))
N5(f, g) == Then(<<"unlock", f>>, N6(f, g))
N4(f, g) == Then(<<"swapped", f, g>>, N5(f, g))
N2(f, g) == Then(<<"pop", f>>, Then(<<"unlock", f>>, N7(f, g)))
St5(f, g) == Then(<<"stack", f, g>>, UnlockFG(f, g))
St4(f, g) == Then(<<"check", g>>, St5(f, g))
St3(f, g) == Then(<<"check", f>>, St4(f, g))
P8(f) == Then(<<"drop", PoolMutex>>, Io3(f))
P7(f, g, n) == Then(<<"swaphead", f, n, g>>, P8(f))
P6(f, g, n) == Then(<<"touch", g>>, P7(f, g, n))
P5(f, g, n) == Then(<<"unlock", g>>, P6(f, g, n))
P4(f, g, n) == Then(<<"untouch", g>>, P5(f, g, n))
P2(f, n) == Then(<<"head", f, n>>, P8(f))

Two ==   \* places with two streams
  {"sp1", "sp2", "uu10", "uu11", "uu01", "x3", "n1", "n2", "n3", "n4", "n5", "n6", "n8", "n9", "n10",
   "n11", "st2", "st3", "st4", "st5", "st6", "st7", "p3", "p4", "p5", "p6", "p7"}
Label ==
  Two \cup {"idle", "io2", "io3", "io4", "u1", "u0", "j2", "j3", "j4", "pop2", "pop3", "cl2", "cl3", "k1", "k2",
            "p1", "p2", "p8", "pf"}

Plan(l, f, g, n) ==
  CASE l = "idle" -> <<>>
    [] l = "io2"  -> Then(<<"check", f>>, Io3(f))
    [] l = "io3"  -> Io3(f)
    [] l = "io4"  -> Io4(f)
    [] l = "u1"   -> UnlockF(f)
    [] l = "u0"   -> UnlockF(f)
    [] l = "j2"   -> Then(<<"clear", f>>, J3(f))
    [] l = "j3"   -> J3(f)
    [] l = "j4"   -> J4(f)
    [] l = "pop2" -> Then(<<"check", f>>, Pop3(f))
    [] l = "pop3" -> Pop3(f)
    [] l = "sp1"  -> Then(<<"swap", f, g>>, Sp2(f, g))
    [] l = "sp2"  -> Sp2(f, g)
    [] l = "uu10" -> UnlockFG(f, g)
    [] l = "uu11" -> UnlockFG(f, g)
    [] l = "uu01" -> UnlockFG(g, f)
    [] l = "x3"   -> Then(<<"unlock", f>>, UnlockFG(g, f))
    [] l = "cl2"  -> Then(<<"check", f>>, Cl3(f))
    [] l = "cl3"  -> Cl3(f)
    [] l = "k1"   -> Then(<<"clr", f>>, K2(f))
    [] l = "k2"   -> K2(f)
    [] l = "n1"   -> Then(<<"check", f>>, N2(f, g))
    [] l = "n2"   -> N2(f, g)
    [] l = "n3"   -> Then(<<"swap", f, g>>, N4(f, g))
    [] l = "n4"   -> N4(f, g)
    [] l = "n5"   -> N5(f, g)
    [] l = "n6"   -> N6(f, g)
    [] l = "n8"   -> N8(f, g)
    [] l = "n9"   -> N9(f, g)
    [] l = "n10"  -> Then(<<"clr", g>>, N11(f, g))
    [] l = "n11"  -> N11(f, g)
    [] l = "st2"  -> Then(<<"lock", g>>, St3(f, g))
    [] l = "st3"  -> St3(f, g)
    [] l = "st4"  -> St4(f, g)
    [] l = "st5"  -> St5(f, g)
    [] l = "st6"  -> Then(<<"swap", f, g>>, Sp2(f, g))
    [] l = "st7"  -> Sp2(f, g)
    [] l = "p1"   -> Then(<<"take", PoolMutex>>, P2(f, n))
    [] l = "p2"   -> P2(f, n)
    [] l = "p3"   -> Then(<<"touch", g>>, P4(f, g, n))
    [] l = "p4"   -> P4(f, g, n)
    [] l = "p5"   -> P5(f, g, n)
    [] l = "p6"   -> P6(f, g, n)
    [] l = "p7"   -> P7(f, g, n)
    [] l = "p8"   -> P8(f)
    [] l = "pf"   -> Then(<<"drop", PoolMutex>>, UnlockF(f))

\* In front of some there is the lock of a stream (sfmutex), at one of its phases.
Entry == {"idle", "io2", "j2", "pop2", "cl2", "st2", "st3", "n1", "n8", "p3"}
Phase == {"on", "lock", "lib", "make", "drop", "take"}
Place == [ph : Phase, l : Label, f : Stream, g : Stream, n : Nat, m : Mutex]
Asked(p) == IF p.l \in {"st3", "n8", "p3"} THEN p.g ELSE p.f

Left(p) ==
  LET x == Asked(p)  rest == Plan(p.l, p.f, p.g, p.n)
  IN  CASE p.ph = "on"   -> rest
        [] p.ph = "lock" -> Then(<<"lock", x>>, rest)
        [] p.ph = "lib"  -> Then(<<"take", LibMutex>>, Then(<<"make", x>>, Then(<<"drop", LibMutex>>, Then(<<"lock", x>>, rest))))
        [] p.ph = "make" -> Then(<<"make", x>>, Then(<<"drop", LibMutex>>, Then(<<"lock", x>>, rest)))
        [] p.ph = "drop" -> Then(<<"drop", LibMutex>>, Then(<<"lock", x>>, rest))
        [] p.ph = "take" -> Then(<<"take", p.m>>, rest)

----------------------------------------------------------------------------
(* What a place says of its thread.                                        *)

\* How often the call has locked its streams.
CountF(l) ==
  IF l \in {"j2", "j3", "n1", "n2", "n3", "n4", "n5", "x3"} THEN 2
  ELSE IF l \in {"idle", "u0", "k2"} THEN 0 ELSE 1
CountG(l) ==
  IF l \in {"uu11", "n8", "n9", "n10", "st3", "st4", "st5", "st6", "st7", "p3", "p4", "p5"} THEN 1 ELSE 0
Count(p, x) ==
  (IF x = p.f THEN CountF(p.l) ELSE 0) + (IF x = p.g THEN CountG(p.l) ELSE 0)
    - (IF p.ph # "on" /\ x = Asked(p) THEN 1 ELSE 0)

Own(t, m) == IF m # None /\ holder[m] = t THEN depth[m] ELSE 0
Engaged(t, x) == Using(t, x) \/ held[t][x] > 0
\* Is about to give x back, and then done with it.
Leaves(t, x) == todo[t] = UnlockF(x) /\ held[t][x] = 0 /\ Own(t, mtx[x]) > 0

At(t, p) ==
  /\ todo[t] = Left(p)
  /\ p.ph # "on" => p.l \in Entry
  /\ p.l = "st2" => p.ph # "on"
  /\ p.l \in Two => p.f # p.g

LocksAt(t, p) ==
  /\ \A x \in Stream : held[t][x] + Count(p, x) = Own(t, mtx[x])
  /\ Own(t, LibMutex) = IF p.ph \in {"make", "drop"} THEN 1 ELSE 0
  /\ Own(t, PoolMutex) = IF p.l \in {"p2", "p3", "p4", "p5", "p6", "p7", "p8", "pf"} THEN 1 ELSE 0

MutexAt(t, p) ==
  /\ p.ph \in {"lib", "make"} => mtx[Asked(p)] = None
  /\ p.ph \in {"drop", "take"} => mtx[Asked(p)] # None
  /\ p.ph = "take" => p.m = mtx[Asked(p)]
  /\ p.l = "k2" /\ p.f \notin Std => mtx[p.f] = None
  /\ p.l = "n11" /\ p.g \notin Std => mtx[p.g] = None

PushAt(p) ==
  /\ p.l \notin {"idle", "u1"} => ~Pushed(p.f)
  /\ p.l \in {"uu10", "n5", "n6", "n8", "n9", "n10", "n11", "st2", "st3", "st4", "st5", "st6", "st7"} => ~Pushed(p.g)
  /\ p.l \in {"sp1", "sp2", "n1", "n2", "n3", "n4", "x3", "uu01"} => push[p.f] = p.g
  /\ p.l = "uu11" /\ Pushed(p.g) => push[p.f] = p.g
  /\ p.l \in {"n5", "n6", "n8", "n9", "n10", "n11", "st6", "st7"} => push[p.g] = None

TouchAt(t, p) ==
  \A x \in Stream : t \in touch[x] <=>
    \/ x = p.f /\ p.l \in {"io4", "sp2", "n4", "st7", "k1", "k2"}
    \/ x = p.g /\ p.l \in {"sp2", "n4", "st7", "n10", "n11", "p4", "p7"}

Open0(x) == mode[x] \cap {"avail", "freed"} = {}
ModeAt(p) ==
  /\ p.l \in {"io3", "io4", "j2", "pop3", "sp1", "sp2", "cl3", "n1", "n2", "n3", "n4", "n5", "n6", "n8", "n9",
              "n10", "n11", "st4", "st5", "st6", "st7"} => Open0(p.f)
  /\ p.l \in {"n9", "st5", "st6", "st7"} => Open0(p.g)
  /\ p.l \in {"k1", "k2"} => mode[p.f] = {"avail", "lock"}
  /\ p.l \in {"n10", "n11"} => mode[p.g] = {"avail", "lock"}

HeldAt(t, p) ==
  /\ p.l \notin {"idle", "u0", "u1", "uu11"} \/ (p.l = "idle" /\ p.ph # "on")
       => \A x \in Stream : held[t][x] > 0 => x = p.f
  /\ p.l = "u0" => held[t][p.f] = 0

PoolAt(t, p) ==
  /\ p.f \in Pool /\ (p.l # "idle" \/ p.ph # "on")
       => MayPool(t) /\ p.l \in {"io2", "io3", "io4", "u1", "p1", "p2", "p3", "p4", "p5", "p6", "p7", "p8", "pf"}
  /\ p.l \in {"p1", "p2", "p3", "p4", "p5", "p6", "p7", "p8", "pf"} => p.f \in Pool
  /\ p.l \in {"p1", "p2", "p3", "p4", "p5", "p6", "p7"} => p.n \in DOMAIN order /\ p.n # 1 /\ order[p.n] = p.f
  /\ p.l \in {"p3", "p4", "p5", "p6", "p7"} => order[1] = p.g
  /\ p.l \in Two \ {"p3", "p4", "p5", "p6", "p7"} => p.g \notin Pool
  /\ p.l \in Two \ {"p3", "p4", "p5", "p6", "p7", "uu11"} => p.g \notin Std

RankAt(p) ==
  Ordered /\ p.l \in {"st2", "st3", "st4", "st5", "st6", "st7", "n1", "n2", "n3", "n4", "n5", "n6", "n8"} => Rank[p.f] < Rank[p.g]

Nested == {"n1", "n2", "n3", "n4", "n5", "n6", "n8", "n9", "n10", "n11"}
AloneAt(t, p) ==
  \A u \in Thread \ {t} :
    /\ p.l \in Nested \cup {"cl2", "cl3", "k1", "k2"} /\ p.f \notin Std => ~Engaged(u, p.f)
    /\ p.l \in Nested => (Engaged(u, p.g) => Leaves(u, p.g))
    /\ p.l \in {"st2", "st3", "st4", "st5", "st6", "st7"} => ~Engaged(u, p.g)

Facts(t, p) ==
  /\ At(t, p) /\ LocksAt(t, p) /\ MutexAt(t, p) /\ PushAt(p) /\ TouchAt(t, p) /\ ModeAt(p)
  /\ HeldAt(t, p) /\ PoolAt(t, p) /\ RankAt(p) /\ AloneAt(t, p)
ThreadInv == \A t \in Thread : \E p \in Place : Facts(t, p)

----------------------------------------------------------------------------
(* What holds of mutexes and streams.                                      *)

TypeInv ==
  /\ holder \in [Mutex -> Thread \cup {None}] /\ depth \in [Mutex -> Nat]
  /\ \A m \in Mutex : holder[m] = None <=> depth[m] = 0
  /\ mtx \in [Stream -> Mutex \cup {None}] /\ push \in [Stream -> Stream \cup {None}]
  /\ mode \in [Stream -> SUBSET {"lock", "push", "pool", "avail", "freed"}]
  /\ touch \in [Stream -> SUBSET Thread] /\ held \in [Thread -> [Stream -> Nat]]
  /\ DOMAIN todo = Thread

MutexInv ==
  /\ \A x \in Stream : mtx[x] \in {x, None} \cup Spare
  /\ \A x, y \in Stream : mtx[x] # None /\ mtx[x] = mtx[y] => x = y
  /\ \A m \in Mutex : holder[m] # None => m \in {PoolMutex, LibMutex} \/ \E x \in Stream : mtx[x] = m
  /\ \A x \in Stream : \A t, u \in Thread : mtx[x] = None /\ Engaged(t, x) /\ Engaged(u, x) => t = u

\* A stream is under one other, which all above it have below them.
PushInv ==
  /\ \A x, y \in Stream : push[x] # None /\ push[x] = push[y] => x = y
  /\ \A x \in Stream : Pushed(x) =>
       /\ x \notin Std \cup Pool /\ mtx[x] # None /\ Open0(x)
       /\ \A t \in Thread : held[t][x] = 0
  /\ \A x \in Stream : "push" \in mode[x] => Pushed(x)
  /\ \A x \in Stream : Pushed(x) /\ "push" \notin mode[x] =>
       \E t \in Thread, f \in Stream : todo[t] # <<>> /\ Head(todo[t]) \in {<<"swap", f, x>>, <<"swapped", f, x>>}

Height(h) == h \in [Stream -> Nat] /\ \A x \in Stream : push[x] # None => h[push[x]] < h[x]
Base(b) ==
  /\ b \in [Stream -> Stream]
  /\ \A x \in Stream : push[x] # None => b[push[x]] = b[x]
  /\ \A x \in Stream : ~Pushed(x) => b[x] = x
  /\ Ordered => \A x \in Stream : b[x] # x => Rank[b[x]] < Rank[x]
StackInv == (\E h : Height(h)) /\ (\E b : Base(b))

\* A stream that is locked is in use, and by one thread.
LockInv ==
  /\ \A x \in Stream : \A t, u \in touch[x] : t = u
  /\ \A x \in Stream : "lock" \in mode[x] => touch[x] # {} \/ \E t \in Thread : \E i \in DOMAIN todo[t] :
       todo[t][i] = <<"clear", x>> \/ (todo[t][i][1] = "swaphead" /\ todo[t][i][4] = x)

FreedInv ==
  \A x \in Stream : "freed" \in mode[x] => x \in Heap /\ ~Pushed(x) /\ \A t \in Thread : ~Engaged(t, x)

PoolInv ==
  /\ order \in Seq(Pool) /\ order # <<>>
  /\ \A i, j \in DOMAIN order : order[i] = order[j] => i = j
  /\ \A x \in Pool : Open0(x) /\ \A t \in Thread : held[t][x] = 0

SysInv == TypeInv /\ MutexInv /\ PushInv /\ StackInv /\ LockInv /\ FreedInv /\ PoolInv
LocksInv == SysInv /\ ThreadInv

----------------------------------------------------------------------------
(* Lists of steps.                                                         *)

IsSeq(r) == \E S : r \in Seq(S)

\* A list with a step in front.
LEMMA ThenIs ==
  ASSUME NEW s, NEW r, IsSeq(r)
  PROVE  /\ IsSeq(Then(s, r)) /\ Then(s, r) # <<>> /\ Head(Then(s, r)) = s /\ Tail(Then(s, r)) = r
         /\ Len(r) \in Nat /\ Len(Then(s, r)) = Len(r) + 1 /\ DOMAIN r = 1 .. Len(r)
         /\ DOMAIN Then(s, r) = 1 .. Len(r) + 1
         /\ Then(s, r)[1] = s /\ \A i \in 1 .. Len(r) : Then(s, r)[i + 1] = r[i]
<1>1. PICK S0 : r \in Seq(S0)
  BY DEF IsSeq
<1> DEFINE S == S0 \cup {s}
<1>2. r \in Seq(S) /\ <<s>> \in Seq(S) /\ Len(<<s>>) = 1 /\ <<s>>[1] = s
  BY <1>1
<1> HIDE DEF S
<1>3. <<s>> \o r \in Seq(S) /\ Len(<<s>> \o r) = Len(r) + 1 /\ Len(r) \in Nat
  BY <1>2
<1>4. (<<s>> \o r)[1] = s /\ \A i \in 1 .. Len(r) : (<<s>> \o r)[i + 1] = r[i]
  BY <1>2, <1>3
<1> DEFINE q == <<s>> \o r
<1>5. q \in Seq(S) /\ Len(q) = Len(r) + 1 /\ q[1] = s /\ \A i \in 1 .. Len(r) : q[i + 1] = r[i]
  BY <1>3, <1>4
<1>6. q = Then(s, r)
  BY DEF Then
<1> HIDE DEF q
<1>7. q # <<>> /\ Head(q) = s
  BY <1>3, <1>5
<1>8. Tail(q) = r
  <2>1. Tail(q) \in Seq(S) /\ Len(Tail(q)) = Len(r)
    BY <1>3, <1>5, <1>7
  <2>2. \A i \in 1 .. Len(r) : Tail(q)[i] = r[i]
    BY <1>3, <1>5, <1>7, <2>1
  <2> QED BY <1>2, <2>1, <2>2
<1> QED BY <1>2, <1>3, <1>5, <1>6, <1>7, <1>8 DEF IsSeq

LEMMA EmptyIs == IsSeq(<<>>) /\ DOMAIN <<>> = {} /\ Len(<<>>) = 0
<1>1. <<>> \in Seq({})
  OBVIOUS
<1> QED BY <1>1 DEF IsSeq

\* What the steps of a list name, unfreeze, end (sfclose) and push.
NamesOf(s) == {s[j] : j \in 2 .. Len(s)}
UsesOf(r) == UNION {NamesOf(r[i]) : i \in DOMAIN r}
ClearOf(s) == {x \in Stream : s = <<"clear", x>> \/ (s[1] = "swaphead" /\ s[4] = x)}
ClearsOf(r) == UNION {ClearOf(r[i]) : i \in DOMAIN r}
Has(r, s) == \E i \in DOMAIN r : r[i] = s

LEMMA ThenHas ==
  ASSUME NEW s, NEW r, IsSeq(r)
  PROVE  /\ UsesOf(Then(s, r)) = NamesOf(s) \cup UsesOf(r)
         /\ ClearsOf(Then(s, r)) = ClearOf(s) \cup ClearsOf(r)
         /\ Has(Then(s, r), s) /\ \A d : Has(r, d) => Has(Then(s, r), d)
<1> DEFINE q == Then(s, r)  k == Len(r)
<1>1. k \in Nat /\ DOMAIN r = 1 .. k /\ DOMAIN q = 1 .. k + 1 /\ q[1] = s /\ \A i \in 1 .. k : q[i + 1] = r[i]
  BY ThenIs
<1> HIDE DEF q, k
<1>2. \A i \in DOMAIN q : i = 1 \/ (i - 1 \in DOMAIN r /\ q[i] = r[i - 1])
  BY <1>1
<1>3. 1 \in DOMAIN q /\ \A i \in DOMAIN r : i + 1 \in DOMAIN q /\ q[i + 1] = r[i]
  BY <1>1
<1>4. UsesOf(q) = NamesOf(s) \cup UsesOf(r)
  BY <1>1, <1>2, <1>3 DEF UsesOf
<1>5. ClearsOf(q) = ClearOf(s) \cup ClearsOf(r)
  BY <1>1, <1>2, <1>3 DEF ClearsOf
<1>6. Has(q, s) /\ \A d : Has(r, d) => Has(q, d)
  BY <1>1, <1>2, <1>3 DEF Has
<1> QED BY <1>4, <1>5, <1>6 DEF q

LEMMA EmptyHas == UsesOf(<<>>) = {} /\ ClearsOf(<<>>) = {}
  BY EmptyIs DEF UsesOf, ClearsOf

\* A list with one more step, by how much the step names.
LEMMA OneMore ==
  ASSUME NEW op, NEW a, NEW r, IsSeq(r), op \notin {"clear", "swaphead"}
  PROVE  /\ IsSeq(Then(<<op, a>>, r)) /\ UsesOf(Then(<<op, a>>, r)) = {a} \cup UsesOf(r)
         /\ ClearsOf(Then(<<op, a>>, r)) = ClearsOf(r)
<1>1. Len(<<op, a>>) = 2 /\ <<op, a>>[1] = op /\ <<op, a>>[2] = a
  OBVIOUS
<1>2. 2 .. 2 = {2}
  OBVIOUS
<1>3. NamesOf(<<op, a>>) = {a}
  BY <1>1, <1>2 DEF NamesOf
<1>4. ClearOf(<<op, a>>) = {}
  BY <1>1 DEF ClearOf
<1> DEFINE s == <<op, a>>
<1>5. NamesOf(s) = {a} /\ ClearOf(s) = {}
  BY <1>3, <1>4
<1> HIDE DEF s
<1>6. IsSeq(Then(s, r)) /\ UsesOf(Then(s, r)) = {a} \cup UsesOf(r) /\ ClearsOf(Then(s, r)) = ClearsOf(r)
  <2>1. IsSeq(Then(s, r))
    BY ThenIs
  <2>2. UsesOf(Then(s, r)) = NamesOf(s) \cup UsesOf(r) /\ ClearsOf(Then(s, r)) = ClearOf(s) \cup ClearsOf(r)
    BY ThenHas
  <2> QED BY <1>5, <2>1, <2>2
<1> QED BY <1>6 DEF s

LEMMA ClearMore ==
  ASSUME NEW a \in Stream, NEW r, IsSeq(r)
  PROVE  /\ IsSeq(Then(<<"clear", a>>, r)) /\ UsesOf(Then(<<"clear", a>>, r)) = {a} \cup UsesOf(r)
         /\ ClearsOf(Then(<<"clear", a>>, r)) = {a} \cup ClearsOf(r)
<1>1. Len(<<"clear", a>>) = 2 /\ <<"clear", a>>[1] = "clear" /\ <<"clear", a>>[2] = a
  OBVIOUS
<1>2. 2 .. 2 = {2}
  OBVIOUS
<1>3. NamesOf(<<"clear", a>>) = {a}
  BY <1>1, <1>2 DEF NamesOf
<1>4. ClearOf(<<"clear", a>>) = {a}
  BY <1>1 DEF ClearOf
<1> DEFINE s == <<"clear", a>>
<1>5. NamesOf(s) = {a} /\ ClearOf(s) = {a}
  BY <1>3, <1>4
<1> HIDE DEF s
<1>6. IsSeq(Then(s, r)) /\ UsesOf(Then(s, r)) = {a} \cup UsesOf(r) /\ ClearsOf(Then(s, r)) = {a} \cup ClearsOf(r)
  <2>1. IsSeq(Then(s, r))
    BY ThenIs
  <2>2. UsesOf(Then(s, r)) = NamesOf(s) \cup UsesOf(r) /\ ClearsOf(Then(s, r)) = ClearOf(s) \cup ClearsOf(r)
    BY ThenHas
  <2> QED BY <1>5, <2>1, <2>2
<1> QED BY <1>6 DEF s

LEMMA TwoMore ==
  ASSUME NEW op, NEW a, NEW b, NEW r, IsSeq(r), op # "swaphead"
  PROVE  /\ IsSeq(Then(<<op, a, b>>, r)) /\ UsesOf(Then(<<op, a, b>>, r)) = {a, b} \cup UsesOf(r)
         /\ ClearsOf(Then(<<op, a, b>>, r)) = ClearsOf(r)
<1>1. Len(<<op, a, b>>) = 3 /\ <<op, a, b>>[1] = op /\ <<op, a, b>>[2] = a /\ <<op, a, b>>[3] = b
  OBVIOUS
<1>2. 2 .. 3 = {2, 3}
  OBVIOUS
<1>3. NamesOf(<<op, a, b>>) = {a, b}
  BY <1>1, <1>2 DEF NamesOf
<1>4. \A x : <<op, a, b>> # <<"clear", x>>
  BY <1>1
<1>5. ClearOf(<<op, a, b>>) = {}
  BY <1>1, <1>4 DEF ClearOf
<1> DEFINE s == <<op, a, b>>
<1>6. NamesOf(s) = {a, b} /\ ClearOf(s) = {}
  BY <1>3, <1>5
<1> HIDE DEF s
<1>7. IsSeq(Then(s, r)) /\ UsesOf(Then(s, r)) = {a, b} \cup UsesOf(r) /\ ClearsOf(Then(s, r)) = ClearsOf(r)
  <2>1. IsSeq(Then(s, r))
    BY ThenIs
  <2>2. UsesOf(Then(s, r)) = NamesOf(s) \cup UsesOf(r) /\ ClearsOf(Then(s, r)) = ClearOf(s) \cup ClearsOf(r)
    BY ThenHas
  <2> QED BY <1>6, <2>1, <2>2
<1> QED BY <1>7 DEF s

LEMMA SwapMore ==
  ASSUME NEW a, NEW b, NEW c \in Stream, NEW r, IsSeq(r)
  PROVE  /\ IsSeq(Then(<<"swaphead", a, b, c>>, r)) /\ UsesOf(Then(<<"swaphead", a, b, c>>, r)) = {a, b, c} \cup UsesOf(r)
         /\ ClearsOf(Then(<<"swaphead", a, b, c>>, r)) = {c} \cup ClearsOf(r)
<1> DEFINE s == <<"swaphead", a, b, c>>
<1>1. Len(s) = 4 /\ s[1] = "swaphead" /\ s[2] = a /\ s[3] = b /\ s[4] = c
  OBVIOUS
<1>2. 2 .. 4 = {2, 3, 4}
  OBVIOUS
<1>3. NamesOf(s) = {a, b, c}
  BY <1>1, <1>2 DEF NamesOf
<1>4. \A x : s # <<"clear", x>>
  BY <1>1
<1> HIDE DEF s
<1>5. ClearOf(s) = {c}
  BY <1>1, <1>4 DEF ClearOf
<1>6. IsSeq(Then(s, r)) /\ UsesOf(Then(s, r)) = {a, b, c} \cup UsesOf(r) /\ ClearsOf(Then(s, r)) = {c} \cup ClearsOf(r)
  <2>1. IsSeq(Then(s, r))
    BY ThenIs
  <2>2. UsesOf(Then(s, r)) = NamesOf(s) \cup UsesOf(r) /\ ClearsOf(Then(s, r)) = ClearOf(s) \cup ClearsOf(r)
    BY ThenHas
  <2> QED BY <1>3, <1>5, <2>1, <2>2
<1> QED BY <1>6 DEF s

----------------------------------------------------------------------------
(* What the steps that are left name.                                      *)

\* Each list of steps that a call can have left.
ListsAre(f, g, n) ==
  /\ IsSeq(UnlockF(f)) /\ UsesOf(UnlockF(f)) = {f} /\ ClearsOf(UnlockF(f)) = {}
  /\ IsSeq(UnlockF(g)) /\ UsesOf(UnlockF(g)) = {g} /\ ClearsOf(UnlockF(g)) = {}
  /\ IsSeq(UnlockFG(f, g)) /\ UsesOf(UnlockFG(f, g)) = {f, g} /\ ClearsOf(UnlockFG(f, g)) = {}
  /\ IsSeq(UnlockFG(g, f)) /\ UsesOf(UnlockFG(g, f)) = {f, g} /\ ClearsOf(UnlockFG(g, f)) = {}
  /\ IsSeq(Io4(f)) /\ UsesOf(Io4(f)) = {f} /\ ClearsOf(Io4(f)) = {}
  /\ IsSeq(Io3(f)) /\ UsesOf(Io3(f)) = {f} /\ ClearsOf(Io3(f)) = {}
  /\ IsSeq(J4(f)) /\ UsesOf(J4(f)) = {f} /\ ClearsOf(J4(f)) = {}
  /\ IsSeq(J3(f)) /\ UsesOf(J3(f)) = {f} /\ ClearsOf(J3(f)) = {}
  /\ IsSeq(Pop3(f)) /\ UsesOf(Pop3(f)) = {f} /\ ClearsOf(Pop3(f)) = {}
  /\ IsSeq(Sp2(f, g)) /\ UsesOf(Sp2(f, g)) = {f, g} /\ ClearsOf(Sp2(f, g)) = {}
  /\ IsSeq(Cl3(f)) /\ UsesOf(Cl3(f)) = {f} /\ ClearsOf(Cl3(f)) = {}
  /\ IsSeq(K2(f)) /\ UsesOf(K2(f)) = {f} /\ ClearsOf(K2(f)) = {}
  /\ IsSeq(N11(f, g)) /\ UsesOf(N11(f, g)) = {f, g} /\ ClearsOf(N11(f, g)) = {}
  /\ IsSeq(Then(<<"unlock", g>>, Cl3(f))) /\ UsesOf(Then(<<"unlock", g>>, Cl3(f))) = {f, g} /\ ClearsOf(Then(<<"unlock", g>>, Cl3(f))) = {}
  /\ IsSeq(N9(f, g)) /\ UsesOf(N9(f, g)) = {f, g} /\ ClearsOf(N9(f, g)) = {}
  /\ IsSeq(N8(f, g)) /\ UsesOf(N8(f, g)) = {f, g} /\ ClearsOf(N8(f, g)) = {}
  /\ IsSeq(N7(f, g)) /\ UsesOf(N7(f, g)) = {f, g} /\ ClearsOf(N7(f, g)) = {}
  /\ IsSeq(N6(f, g)) /\ UsesOf(N6(f, g)) = {f, g} /\ ClearsOf(N6(f, g)) = {}
  /\ IsSeq(N5(f, g)) /\ UsesOf(N5(f, g)) = {f, g} /\ ClearsOf(N5(f, g)) = {}
  /\ IsSeq(N4(f, g)) /\ UsesOf(N4(f, g)) = {f, g} /\ ClearsOf(N4(f, g)) = {}
  /\ IsSeq(Then(<<"unlock", f>>, N7(f, g))) /\ UsesOf(Then(<<"unlock", f>>, N7(f, g))) = {f, g} /\ ClearsOf(Then(<<"unlock", f>>, N7(f, g))) = {}
  /\ IsSeq(N2(f, g)) /\ UsesOf(N2(f, g)) = {f, g} /\ ClearsOf(N2(f, g)) = {}
  /\ IsSeq(St5(f, g)) /\ UsesOf(St5(f, g)) = {f, g} /\ ClearsOf(St5(f, g)) = {}
  /\ IsSeq(St4(f, g)) /\ UsesOf(St4(f, g)) = {f, g} /\ ClearsOf(St4(f, g)) = {}
  /\ IsSeq(St3(f, g)) /\ UsesOf(St3(f, g)) = {f, g} /\ ClearsOf(St3(f, g)) = {}
  /\ IsSeq(P8(f)) /\ UsesOf(P8(f)) = {f, PoolMutex} /\ ClearsOf(P8(f)) = {}
  /\ IsSeq(P7(f, g, n)) /\ UsesOf(P7(f, g, n)) = {f, g, n, PoolMutex} /\ ClearsOf(P7(f, g, n)) = {g}
  /\ IsSeq(P6(f, g, n)) /\ UsesOf(P6(f, g, n)) = {f, g, n, PoolMutex} /\ ClearsOf(P6(f, g, n)) = {g}
  /\ IsSeq(P5(f, g, n)) /\ UsesOf(P5(f, g, n)) = {f, g, n, PoolMutex} /\ ClearsOf(P5(f, g, n)) = {g}
  /\ IsSeq(P4(f, g, n)) /\ UsesOf(P4(f, g, n)) = {f, g, n, PoolMutex} /\ ClearsOf(P4(f, g, n)) = {g}
  /\ IsSeq(P2(f, n)) /\ UsesOf(P2(f, n)) = {f, n, PoolMutex} /\ ClearsOf(P2(f, n)) = {}
  /\ IsSeq(Then(<<"check", f>>, Io3(f))) /\ UsesOf(Then(<<"check", f>>, Io3(f))) = {f} /\ ClearsOf(Then(<<"check", f>>, Io3(f))) = {}
  /\ IsSeq(Then(<<"clear", f>>, J3(f))) /\ UsesOf(Then(<<"clear", f>>, J3(f))) = {f} /\ ClearsOf(Then(<<"clear", f>>, J3(f))) = {f}
  /\ IsSeq(Then(<<"check", f>>, Pop3(f))) /\ UsesOf(Then(<<"check", f>>, Pop3(f))) = {f} /\ ClearsOf(Then(<<"check", f>>, Pop3(f))) = {}
  /\ IsSeq(Then(<<"swap", f, g>>, Sp2(f, g))) /\ UsesOf(Then(<<"swap", f, g>>, Sp2(f, g))) = {f, g} /\ ClearsOf(Then(<<"swap", f, g>>, Sp2(f, g))) = {}
  /\ IsSeq(Then(<<"unlock", f>>, UnlockFG(g, f))) /\ UsesOf(Then(<<"unlock", f>>, UnlockFG(g, f))) = {f, g} /\ ClearsOf(Then(<<"unlock", f>>, UnlockFG(g, f))) = {}
  /\ IsSeq(Then(<<"check", f>>, Cl3(f))) /\ UsesOf(Then(<<"check", f>>, Cl3(f))) = {f} /\ ClearsOf(Then(<<"check", f>>, Cl3(f))) = {}
  /\ IsSeq(Then(<<"clr", f>>, K2(f))) /\ UsesOf(Then(<<"clr", f>>, K2(f))) = {f} /\ ClearsOf(Then(<<"clr", f>>, K2(f))) = {}
  /\ IsSeq(Then(<<"check", f>>, N2(f, g))) /\ UsesOf(Then(<<"check", f>>, N2(f, g))) = {f, g} /\ ClearsOf(Then(<<"check", f>>, N2(f, g))) = {}
  /\ IsSeq(Then(<<"swap", f, g>>, N4(f, g))) /\ UsesOf(Then(<<"swap", f, g>>, N4(f, g))) = {f, g} /\ ClearsOf(Then(<<"swap", f, g>>, N4(f, g))) = {}
  /\ IsSeq(Then(<<"clr", g>>, N11(f, g))) /\ UsesOf(Then(<<"clr", g>>, N11(f, g))) = {f, g} /\ ClearsOf(Then(<<"clr", g>>, N11(f, g))) = {}
  /\ IsSeq(Then(<<"lock", g>>, St3(f, g))) /\ UsesOf(Then(<<"lock", g>>, St3(f, g))) = {f, g} /\ ClearsOf(Then(<<"lock", g>>, St3(f, g))) = {}
  /\ IsSeq(Then(<<"take", PoolMutex>>, P2(f, n))) /\ UsesOf(Then(<<"take", PoolMutex>>, P2(f, n))) = {f, n, PoolMutex} /\ ClearsOf(Then(<<"take", PoolMutex>>, P2(f, n))) = {}
  /\ IsSeq(Then(<<"touch", g>>, P4(f, g, n))) /\ UsesOf(Then(<<"touch", g>>, P4(f, g, n))) = {f, g, n, PoolMutex} /\ ClearsOf(Then(<<"touch", g>>, P4(f, g, n))) = {g}
  /\ IsSeq(Then(<<"drop", PoolMutex>>, UnlockF(f))) /\ UsesOf(Then(<<"drop", PoolMutex>>, UnlockF(f))) = {f, PoolMutex} /\ ClearsOf(Then(<<"drop", PoolMutex>>, UnlockF(f))) = {}

LEMMA Lists == \A f, g \in Stream : \A n : ListsAre(f, g, n)
<1> SUFFICES ASSUME NEW f \in Stream, NEW g \in Stream, NEW n PROVE ListsAre(f, g, n)
  OBVIOUS
<1>1. IsSeq(UnlockF(f)) /\ UsesOf(UnlockF(f)) = {f} /\ ClearsOf(UnlockF(f)) = {}
  BY EmptyIs, OneMore, EmptyHas DEF UnlockF
<1>2. IsSeq(UnlockF(g)) /\ UsesOf(UnlockF(g)) = {g} /\ ClearsOf(UnlockF(g)) = {}
  BY EmptyIs, OneMore, EmptyHas DEF UnlockF
<1>3. IsSeq(UnlockFG(f, g)) /\ UsesOf(UnlockFG(f, g)) = {f, g} /\ ClearsOf(UnlockFG(f, g)) = {}
  BY <1>2, OneMore DEF UnlockFG
<1>4. IsSeq(UnlockFG(g, f)) /\ UsesOf(UnlockFG(g, f)) = {f, g} /\ ClearsOf(UnlockFG(g, f)) = {}
  BY <1>1, OneMore DEF UnlockFG
<1>5. IsSeq(Io4(f)) /\ UsesOf(Io4(f)) = {f} /\ ClearsOf(Io4(f)) = {}
  BY <1>1, OneMore DEF Io4
<1>6. IsSeq(Io3(f)) /\ UsesOf(Io3(f)) = {f} /\ ClearsOf(Io3(f)) = {}
  BY <1>5, OneMore DEF Io3
<1>7. IsSeq(J4(f)) /\ UsesOf(J4(f)) = {f} /\ ClearsOf(J4(f)) = {}
  BY EmptyIs, OneMore, EmptyHas DEF J4
<1>8. IsSeq(J3(f)) /\ UsesOf(J3(f)) = {f} /\ ClearsOf(J3(f)) = {}
  BY <1>7, OneMore DEF J3
<1>9. IsSeq(Pop3(f)) /\ UsesOf(Pop3(f)) = {f} /\ ClearsOf(Pop3(f)) = {}
  BY <1>1, OneMore DEF Pop3
<1>10. IsSeq(Sp2(f, g)) /\ UsesOf(Sp2(f, g)) = {f, g} /\ ClearsOf(Sp2(f, g)) = {}
  BY <1>3, TwoMore DEF Sp2
<1>11. IsSeq(Cl3(f)) /\ UsesOf(Cl3(f)) = {f} /\ ClearsOf(Cl3(f)) = {}
  BY <1>1, OneMore DEF Cl3
<1>12. IsSeq(K2(f)) /\ UsesOf(K2(f)) = {f} /\ ClearsOf(K2(f)) = {}
  BY EmptyIs, OneMore, EmptyHas DEF K2
<1>13. IsSeq(N11(f, g)) /\ UsesOf(N11(f, g)) = {f, g} /\ ClearsOf(N11(f, g)) = {}
  BY <1>11, OneMore DEF N11
<1>14. IsSeq(Then(<<"unlock", g>>, Cl3(f))) /\ UsesOf(Then(<<"unlock", g>>, Cl3(f))) = {f, g} /\ ClearsOf(Then(<<"unlock", g>>, Cl3(f))) = {}
  BY <1>11, OneMore
<1>15. IsSeq(N9(f, g)) /\ UsesOf(N9(f, g)) = {f, g} /\ ClearsOf(N9(f, g)) = {}
  BY <1>14, OneMore DEF N9
<1>16. IsSeq(N8(f, g)) /\ UsesOf(N8(f, g)) = {f, g} /\ ClearsOf(N8(f, g)) = {}
  BY <1>15, OneMore DEF N8
<1>17. IsSeq(N7(f, g)) /\ UsesOf(N7(f, g)) = {f, g} /\ ClearsOf(N7(f, g)) = {}
  BY <1>16, OneMore DEF N7
<1>18. IsSeq(N6(f, g)) /\ UsesOf(N6(f, g)) = {f, g} /\ ClearsOf(N6(f, g)) = {}
  BY <1>17, OneMore DEF N6
<1>19. IsSeq(N5(f, g)) /\ UsesOf(N5(f, g)) = {f, g} /\ ClearsOf(N5(f, g)) = {}
  BY <1>18, OneMore DEF N5
<1>20. IsSeq(N4(f, g)) /\ UsesOf(N4(f, g)) = {f, g} /\ ClearsOf(N4(f, g)) = {}
  BY <1>19, TwoMore DEF N4
<1>21. IsSeq(Then(<<"unlock", f>>, N7(f, g))) /\ UsesOf(Then(<<"unlock", f>>, N7(f, g))) = {f, g} /\ ClearsOf(Then(<<"unlock", f>>, N7(f, g))) = {}
  BY <1>17, OneMore
<1>22. IsSeq(N2(f, g)) /\ UsesOf(N2(f, g)) = {f, g} /\ ClearsOf(N2(f, g)) = {}
  BY <1>21, OneMore DEF N2
<1>23. IsSeq(St5(f, g)) /\ UsesOf(St5(f, g)) = {f, g} /\ ClearsOf(St5(f, g)) = {}
  BY <1>3, TwoMore DEF St5
<1>24. IsSeq(St4(f, g)) /\ UsesOf(St4(f, g)) = {f, g} /\ ClearsOf(St4(f, g)) = {}
  BY <1>23, OneMore DEF St4
<1>25. IsSeq(St3(f, g)) /\ UsesOf(St3(f, g)) = {f, g} /\ ClearsOf(St3(f, g)) = {}
  BY <1>24, OneMore DEF St3
<1>26. IsSeq(P8(f)) /\ UsesOf(P8(f)) = {f, PoolMutex} /\ ClearsOf(P8(f)) = {}
  BY <1>6, OneMore DEF P8
<1>27. IsSeq(P7(f, g, n)) /\ UsesOf(P7(f, g, n)) = {f, g, n, PoolMutex} /\ ClearsOf(P7(f, g, n)) = {g}
  BY <1>26, SwapMore DEF P7
<1>28. IsSeq(P6(f, g, n)) /\ UsesOf(P6(f, g, n)) = {f, g, n, PoolMutex} /\ ClearsOf(P6(f, g, n)) = {g}
  BY <1>27, OneMore DEF P6
<1>29. IsSeq(P5(f, g, n)) /\ UsesOf(P5(f, g, n)) = {f, g, n, PoolMutex} /\ ClearsOf(P5(f, g, n)) = {g}
  BY <1>28, OneMore DEF P5
<1>30. IsSeq(P4(f, g, n)) /\ UsesOf(P4(f, g, n)) = {f, g, n, PoolMutex} /\ ClearsOf(P4(f, g, n)) = {g}
  BY <1>29, OneMore DEF P4
<1>31. IsSeq(P2(f, n)) /\ UsesOf(P2(f, n)) = {f, n, PoolMutex} /\ ClearsOf(P2(f, n)) = {}
  BY <1>26, TwoMore DEF P2
<1>32. IsSeq(Then(<<"check", f>>, Io3(f))) /\ UsesOf(Then(<<"check", f>>, Io3(f))) = {f} /\ ClearsOf(Then(<<"check", f>>, Io3(f))) = {}
  BY <1>6, OneMore
<1>33. IsSeq(Then(<<"clear", f>>, J3(f))) /\ UsesOf(Then(<<"clear", f>>, J3(f))) = {f} /\ ClearsOf(Then(<<"clear", f>>, J3(f))) = {f}
  BY <1>8, ClearMore
<1>34. IsSeq(Then(<<"check", f>>, Pop3(f))) /\ UsesOf(Then(<<"check", f>>, Pop3(f))) = {f} /\ ClearsOf(Then(<<"check", f>>, Pop3(f))) = {}
  BY <1>9, OneMore
<1>35. IsSeq(Then(<<"swap", f, g>>, Sp2(f, g))) /\ UsesOf(Then(<<"swap", f, g>>, Sp2(f, g))) = {f, g} /\ ClearsOf(Then(<<"swap", f, g>>, Sp2(f, g))) = {}
  BY <1>10, TwoMore
<1>36. IsSeq(Then(<<"unlock", f>>, UnlockFG(g, f))) /\ UsesOf(Then(<<"unlock", f>>, UnlockFG(g, f))) = {f, g} /\ ClearsOf(Then(<<"unlock", f>>, UnlockFG(g, f))) = {}
  BY <1>4, OneMore
<1>37. IsSeq(Then(<<"check", f>>, Cl3(f))) /\ UsesOf(Then(<<"check", f>>, Cl3(f))) = {f} /\ ClearsOf(Then(<<"check", f>>, Cl3(f))) = {}
  BY <1>11, OneMore
<1>38. IsSeq(Then(<<"clr", f>>, K2(f))) /\ UsesOf(Then(<<"clr", f>>, K2(f))) = {f} /\ ClearsOf(Then(<<"clr", f>>, K2(f))) = {}
  BY <1>12, OneMore
<1>39. IsSeq(Then(<<"check", f>>, N2(f, g))) /\ UsesOf(Then(<<"check", f>>, N2(f, g))) = {f, g} /\ ClearsOf(Then(<<"check", f>>, N2(f, g))) = {}
  BY <1>22, OneMore
<1>40. IsSeq(Then(<<"swap", f, g>>, N4(f, g))) /\ UsesOf(Then(<<"swap", f, g>>, N4(f, g))) = {f, g} /\ ClearsOf(Then(<<"swap", f, g>>, N4(f, g))) = {}
  BY <1>20, TwoMore
<1>41. IsSeq(Then(<<"clr", g>>, N11(f, g))) /\ UsesOf(Then(<<"clr", g>>, N11(f, g))) = {f, g} /\ ClearsOf(Then(<<"clr", g>>, N11(f, g))) = {}
  BY <1>13, OneMore
<1>42. IsSeq(Then(<<"lock", g>>, St3(f, g))) /\ UsesOf(Then(<<"lock", g>>, St3(f, g))) = {f, g} /\ ClearsOf(Then(<<"lock", g>>, St3(f, g))) = {}
  BY <1>25, OneMore
<1>43. IsSeq(Then(<<"swap", f, g>>, Sp2(f, g))) /\ UsesOf(Then(<<"swap", f, g>>, Sp2(f, g))) = {f, g} /\ ClearsOf(Then(<<"swap", f, g>>, Sp2(f, g))) = {}
  BY <1>10, TwoMore
<1>44. IsSeq(Then(<<"take", PoolMutex>>, P2(f, n))) /\ UsesOf(Then(<<"take", PoolMutex>>, P2(f, n))) = {f, n, PoolMutex} /\ ClearsOf(Then(<<"take", PoolMutex>>, P2(f, n))) = {}
  BY <1>31, OneMore
<1>45. IsSeq(Then(<<"touch", g>>, P4(f, g, n))) /\ UsesOf(Then(<<"touch", g>>, P4(f, g, n))) = {f, g, n, PoolMutex} /\ ClearsOf(Then(<<"touch", g>>, P4(f, g, n))) = {g}
  BY <1>30, OneMore
<1>46. IsSeq(Then(<<"drop", PoolMutex>>, UnlockF(f))) /\ UsesOf(Then(<<"drop", PoolMutex>>, UnlockF(f))) = {f, PoolMutex} /\ ClearsOf(Then(<<"drop", PoolMutex>>, UnlockF(f))) = {}
  BY <1>1, OneMore
<1> QED
  BY <1>1, <1>2, <1>3, <1>4, <1>5, <1>6, <1>7, <1>8, <1>9, <1>10, <1>11, <1>12, <1>13, <1>14, <1>15, <1>16, <1>17, <1>18, <1>19, <1>20, <1>21, <1>22, <1>23, <1>24, <1>25, <1>26, <1>27, <1>28, <1>29, <1>30, <1>31, <1>32, <1>33, <1>34, <1>35, <1>36, <1>37, <1>38, <1>39, <1>40, <1>41, <1>42, <1>43, <1>44, <1>45, <1>46 DEF ListsAre

\* The list of each place.
PlansAre(f, g, n) ==
  /\ Plan("idle", f, g, n) = <<>>
  /\ Plan("io2", f, g, n) = Then(<<"check", f>>, Io3(f))
  /\ Plan("io3", f, g, n) = Io3(f)
  /\ Plan("io4", f, g, n) = Io4(f)
  /\ Plan("u1", f, g, n) = UnlockF(f)
  /\ Plan("u0", f, g, n) = UnlockF(f)
  /\ Plan("j2", f, g, n) = Then(<<"clear", f>>, J3(f))
  /\ Plan("j3", f, g, n) = J3(f)
  /\ Plan("j4", f, g, n) = J4(f)
  /\ Plan("pop2", f, g, n) = Then(<<"check", f>>, Pop3(f))
  /\ Plan("pop3", f, g, n) = Pop3(f)
  /\ Plan("sp1", f, g, n) = Then(<<"swap", f, g>>, Sp2(f, g))
  /\ Plan("sp2", f, g, n) = Sp2(f, g)
  /\ Plan("uu10", f, g, n) = UnlockFG(f, g)
  /\ Plan("uu11", f, g, n) = UnlockFG(f, g)
  /\ Plan("uu01", f, g, n) = UnlockFG(g, f)
  /\ Plan("x3", f, g, n) = Then(<<"unlock", f>>, UnlockFG(g, f))
  /\ Plan("cl2", f, g, n) = Then(<<"check", f>>, Cl3(f))
  /\ Plan("cl3", f, g, n) = Cl3(f)
  /\ Plan("k1", f, g, n) = Then(<<"clr", f>>, K2(f))
  /\ Plan("k2", f, g, n) = K2(f)
  /\ Plan("n1", f, g, n) = Then(<<"check", f>>, N2(f, g))
  /\ Plan("n2", f, g, n) = N2(f, g)
  /\ Plan("n3", f, g, n) = Then(<<"swap", f, g>>, N4(f, g))
  /\ Plan("n4", f, g, n) = N4(f, g)
  /\ Plan("n5", f, g, n) = N5(f, g)
  /\ Plan("n6", f, g, n) = N6(f, g)
  /\ Plan("n8", f, g, n) = N8(f, g)
  /\ Plan("n9", f, g, n) = N9(f, g)
  /\ Plan("n10", f, g, n) = Then(<<"clr", g>>, N11(f, g))
  /\ Plan("n11", f, g, n) = N11(f, g)
  /\ Plan("st2", f, g, n) = Then(<<"lock", g>>, St3(f, g))
  /\ Plan("st3", f, g, n) = St3(f, g)
  /\ Plan("st4", f, g, n) = St4(f, g)
  /\ Plan("st5", f, g, n) = St5(f, g)
  /\ Plan("st6", f, g, n) = Then(<<"swap", f, g>>, Sp2(f, g))
  /\ Plan("st7", f, g, n) = Sp2(f, g)
  /\ Plan("p1", f, g, n) = Then(<<"take", PoolMutex>>, P2(f, n))
  /\ Plan("p2", f, g, n) = P2(f, n)
  /\ Plan("p3", f, g, n) = Then(<<"touch", g>>, P4(f, g, n))
  /\ Plan("p4", f, g, n) = P4(f, g, n)
  /\ Plan("p5", f, g, n) = P5(f, g, n)
  /\ Plan("p6", f, g, n) = P6(f, g, n)
  /\ Plan("p7", f, g, n) = P7(f, g, n)
  /\ Plan("p8", f, g, n) = P8(f)
  /\ Plan("pf", f, g, n) = Then(<<"drop", PoolMutex>>, UnlockF(f))

LEMMA Plans == \A f, g, n : PlansAre(f, g, n)
<1> SUFFICES ASSUME NEW f, NEW g, NEW n PROVE PlansAre(f, g, n)
  OBVIOUS
<1>1. Plan("idle", f, g, n) = <<>>
  BY DEF Plan
<1>2. Plan("io2", f, g, n) = Then(<<"check", f>>, Io3(f))
  BY DEF Plan
<1>3. Plan("io3", f, g, n) = Io3(f)
  BY DEF Plan
<1>4. Plan("io4", f, g, n) = Io4(f)
  BY DEF Plan
<1>5. Plan("u1", f, g, n) = UnlockF(f)
  BY DEF Plan
<1>6. Plan("u0", f, g, n) = UnlockF(f)
  BY DEF Plan
<1>7. Plan("j2", f, g, n) = Then(<<"clear", f>>, J3(f))
  BY DEF Plan
<1>8. Plan("j3", f, g, n) = J3(f)
  BY DEF Plan
<1>9. Plan("j4", f, g, n) = J4(f)
  BY DEF Plan
<1>10. Plan("pop2", f, g, n) = Then(<<"check", f>>, Pop3(f))
  BY DEF Plan
<1>11. Plan("pop3", f, g, n) = Pop3(f)
  BY DEF Plan
<1>12. Plan("sp1", f, g, n) = Then(<<"swap", f, g>>, Sp2(f, g))
  BY DEF Plan
<1>13. Plan("sp2", f, g, n) = Sp2(f, g)
  BY DEF Plan
<1>14. Plan("uu10", f, g, n) = UnlockFG(f, g)
  BY DEF Plan
<1>15. Plan("uu11", f, g, n) = UnlockFG(f, g)
  BY DEF Plan
<1>16. Plan("uu01", f, g, n) = UnlockFG(g, f)
  BY DEF Plan
<1>17. Plan("x3", f, g, n) = Then(<<"unlock", f>>, UnlockFG(g, f))
  BY DEF Plan
<1>18. Plan("cl2", f, g, n) = Then(<<"check", f>>, Cl3(f))
  BY DEF Plan
<1>19. Plan("cl3", f, g, n) = Cl3(f)
  BY DEF Plan
<1>20. Plan("k1", f, g, n) = Then(<<"clr", f>>, K2(f))
  BY DEF Plan
<1>21. Plan("k2", f, g, n) = K2(f)
  BY DEF Plan
<1>22. Plan("n1", f, g, n) = Then(<<"check", f>>, N2(f, g))
  BY DEF Plan
<1>23. Plan("n2", f, g, n) = N2(f, g)
  BY DEF Plan
<1>24. Plan("n3", f, g, n) = Then(<<"swap", f, g>>, N4(f, g))
  BY DEF Plan
<1>25. Plan("n4", f, g, n) = N4(f, g)
  BY DEF Plan
<1>26. Plan("n5", f, g, n) = N5(f, g)
  BY DEF Plan
<1>27. Plan("n6", f, g, n) = N6(f, g)
  BY DEF Plan
<1>28. Plan("n8", f, g, n) = N8(f, g)
  BY DEF Plan
<1>29. Plan("n9", f, g, n) = N9(f, g)
  BY DEF Plan
<1>30. Plan("n10", f, g, n) = Then(<<"clr", g>>, N11(f, g))
  BY DEF Plan
<1>31. Plan("n11", f, g, n) = N11(f, g)
  BY DEF Plan
<1>32. Plan("st2", f, g, n) = Then(<<"lock", g>>, St3(f, g))
  BY DEF Plan
<1>33. Plan("st3", f, g, n) = St3(f, g)
  BY DEF Plan
<1>34. Plan("st4", f, g, n) = St4(f, g)
  BY DEF Plan
<1>35. Plan("st5", f, g, n) = St5(f, g)
  BY DEF Plan
<1>36. Plan("st6", f, g, n) = Then(<<"swap", f, g>>, Sp2(f, g))
  BY DEF Plan
<1>37. Plan("st7", f, g, n) = Sp2(f, g)
  BY DEF Plan
<1>38. Plan("p1", f, g, n) = Then(<<"take", PoolMutex>>, P2(f, n))
  BY DEF Plan
<1>39. Plan("p2", f, g, n) = P2(f, n)
  BY DEF Plan
<1>40. Plan("p3", f, g, n) = Then(<<"touch", g>>, P4(f, g, n))
  BY DEF Plan
<1>41. Plan("p4", f, g, n) = P4(f, g, n)
  BY DEF Plan
<1>42. Plan("p5", f, g, n) = P5(f, g, n)
  BY DEF Plan
<1>43. Plan("p6", f, g, n) = P6(f, g, n)
  BY DEF Plan
<1>44. Plan("p7", f, g, n) = P7(f, g, n)
  BY DEF Plan
<1>45. Plan("p8", f, g, n) = P8(f)
  BY DEF Plan
<1>46. Plan("pf", f, g, n) = Then(<<"drop", PoolMutex>>, UnlockF(f))
  BY DEF Plan
<1> QED
  BY <1>1, <1>2, <1>3, <1>4, <1>5, <1>6, <1>7, <1>8, <1>9, <1>10, <1>11, <1>12, <1>13, <1>14, <1>15, <1>16, <1>17, <1>18, <1>19, <1>20, <1>21, <1>22, <1>23, <1>24, <1>25, <1>26, <1>27, <1>28, <1>29, <1>30, <1>31, <1>32, <1>33, <1>34, <1>35, <1>36, <1>37, <1>38, <1>39, <1>40, <1>41, <1>42, <1>43, <1>44, <1>45, <1>46 DEF PlansAre

LEMMA PlanUses ==
  ASSUME NEW l \in Label, NEW f \in Stream, NEW g \in Stream, NEW n \in Nat
  PROVE  /\ IsSeq(Plan(l, f, g, n))
         /\ \A x \in Stream : x \in UsesOf(Plan(l, f, g, n)) <=> (x = f /\ l # "idle") \/ (x = g /\ l \in Two)
         /\ ClearsOf(Plan(l, f, g, n)) =
              IF l = "j2" THEN {f} ELSE IF l \in {"p3", "p4", "p5", "p6", "p7"} THEN {g} ELSE {}
<1> DEFINE Uses(s) == \A x \in Stream : x \in s <=> (x = f /\ l # "idle") \/ (x = g /\ l \in Two)
           Clears(s) == s = IF l = "j2" THEN {f} ELSE IF l \in {"p3", "p4", "p5", "p6", "p7"} THEN {g} ELSE {}
           r == Plan(l, f, g, n)
<1> SUFFICES IsSeq(r) /\ Uses(UsesOf(r)) /\ Clears(ClearsOf(r))
  OBVIOUS
<1>0. n \notin Stream /\ PoolMutex \notin Stream
  BY NamesAssumption
<1>a. PlansAre(f, g, n)
  BY Plans
<1>b. ListsAre(f, g, n)
  BY Lists
<1>1. CASE l = "idle"
  <2>1. r = <<>>
    BY <1>1, <1>a DEF PlansAre
  <2>2. IsSeq(<<>>) /\ UsesOf(<<>>) = {} /\ ClearsOf(<<>>) = {}
    BY EmptyIs, EmptyHas
  <2> QED BY <1>0, <1>1, <2>1, <2>2 DEF Two
<1>2. CASE l = "io2"
  <2>1. r = Then(<<"check", f>>, Io3(f))
    BY <1>2, <1>a DEF PlansAre
  <2>2. IsSeq(Then(<<"check", f>>, Io3(f))) /\ UsesOf(Then(<<"check", f>>, Io3(f))) = {f} /\ ClearsOf(Then(<<"check", f>>, Io3(f))) = {}
    BY <1>b DEF ListsAre
  <2> QED BY <1>0, <1>2, <2>1, <2>2 DEF Two
<1>3. CASE l = "io3"
  <2>1. r = Io3(f)
    BY <1>3, <1>a DEF PlansAre
  <2>2. IsSeq(Io3(f)) /\ UsesOf(Io3(f)) = {f} /\ ClearsOf(Io3(f)) = {}
    BY <1>b DEF ListsAre
  <2> QED BY <1>0, <1>3, <2>1, <2>2 DEF Two
<1>4. CASE l = "io4"
  <2>1. r = Io4(f)
    BY <1>4, <1>a DEF PlansAre
  <2>2. IsSeq(Io4(f)) /\ UsesOf(Io4(f)) = {f} /\ ClearsOf(Io4(f)) = {}
    BY <1>b DEF ListsAre
  <2> QED BY <1>0, <1>4, <2>1, <2>2 DEF Two
<1>5. CASE l = "u1"
  <2>1. r = UnlockF(f)
    BY <1>5, <1>a DEF PlansAre
  <2>2. IsSeq(UnlockF(f)) /\ UsesOf(UnlockF(f)) = {f} /\ ClearsOf(UnlockF(f)) = {}
    BY <1>b DEF ListsAre
  <2> QED BY <1>0, <1>5, <2>1, <2>2 DEF Two
<1>6. CASE l = "u0"
  <2>1. r = UnlockF(f)
    BY <1>6, <1>a DEF PlansAre
  <2>2. IsSeq(UnlockF(f)) /\ UsesOf(UnlockF(f)) = {f} /\ ClearsOf(UnlockF(f)) = {}
    BY <1>b DEF ListsAre
  <2> QED BY <1>0, <1>6, <2>1, <2>2 DEF Two
<1>7. CASE l = "j2"
  <2>1. r = Then(<<"clear", f>>, J3(f))
    BY <1>7, <1>a DEF PlansAre
  <2>2. IsSeq(Then(<<"clear", f>>, J3(f))) /\ UsesOf(Then(<<"clear", f>>, J3(f))) = {f} /\ ClearsOf(Then(<<"clear", f>>, J3(f))) = {f}
    BY <1>b DEF ListsAre
  <2> QED BY <1>0, <1>7, <2>1, <2>2 DEF Two
<1>8. CASE l = "j3"
  <2>1. r = J3(f)
    BY <1>8, <1>a DEF PlansAre
  <2>2. IsSeq(J3(f)) /\ UsesOf(J3(f)) = {f} /\ ClearsOf(J3(f)) = {}
    BY <1>b DEF ListsAre
  <2> QED BY <1>0, <1>8, <2>1, <2>2 DEF Two
<1>9. CASE l = "j4"
  <2>1. r = J4(f)
    BY <1>9, <1>a DEF PlansAre
  <2>2. IsSeq(J4(f)) /\ UsesOf(J4(f)) = {f} /\ ClearsOf(J4(f)) = {}
    BY <1>b DEF ListsAre
  <2> QED BY <1>0, <1>9, <2>1, <2>2 DEF Two
<1>10. CASE l = "pop2"
  <2>1. r = Then(<<"check", f>>, Pop3(f))
    BY <1>10, <1>a DEF PlansAre
  <2>2. IsSeq(Then(<<"check", f>>, Pop3(f))) /\ UsesOf(Then(<<"check", f>>, Pop3(f))) = {f} /\ ClearsOf(Then(<<"check", f>>, Pop3(f))) = {}
    BY <1>b DEF ListsAre
  <2> QED BY <1>0, <1>10, <2>1, <2>2 DEF Two
<1>11. CASE l = "pop3"
  <2>1. r = Pop3(f)
    BY <1>11, <1>a DEF PlansAre
  <2>2. IsSeq(Pop3(f)) /\ UsesOf(Pop3(f)) = {f} /\ ClearsOf(Pop3(f)) = {}
    BY <1>b DEF ListsAre
  <2> QED BY <1>0, <1>11, <2>1, <2>2 DEF Two
<1>12. CASE l = "sp1"
  <2>1. r = Then(<<"swap", f, g>>, Sp2(f, g))
    BY <1>12, <1>a DEF PlansAre
  <2>2. IsSeq(Then(<<"swap", f, g>>, Sp2(f, g))) /\ UsesOf(Then(<<"swap", f, g>>, Sp2(f, g))) = {f, g} /\ ClearsOf(Then(<<"swap", f, g>>, Sp2(f, g))) = {}
    BY <1>b DEF ListsAre
  <2> QED BY <1>0, <1>12, <2>1, <2>2 DEF Two
<1>13. CASE l = "sp2"
  <2>1. r = Sp2(f, g)
    BY <1>13, <1>a DEF PlansAre
  <2>2. IsSeq(Sp2(f, g)) /\ UsesOf(Sp2(f, g)) = {f, g} /\ ClearsOf(Sp2(f, g)) = {}
    BY <1>b DEF ListsAre
  <2> QED BY <1>0, <1>13, <2>1, <2>2 DEF Two
<1>14. CASE l = "uu10"
  <2>1. r = UnlockFG(f, g)
    BY <1>14, <1>a DEF PlansAre
  <2>2. IsSeq(UnlockFG(f, g)) /\ UsesOf(UnlockFG(f, g)) = {f, g} /\ ClearsOf(UnlockFG(f, g)) = {}
    BY <1>b DEF ListsAre
  <2> QED BY <1>0, <1>14, <2>1, <2>2 DEF Two
<1>15. CASE l = "uu11"
  <2>1. r = UnlockFG(f, g)
    BY <1>15, <1>a DEF PlansAre
  <2>2. IsSeq(UnlockFG(f, g)) /\ UsesOf(UnlockFG(f, g)) = {f, g} /\ ClearsOf(UnlockFG(f, g)) = {}
    BY <1>b DEF ListsAre
  <2> QED BY <1>0, <1>15, <2>1, <2>2 DEF Two
<1>16. CASE l = "uu01"
  <2>1. r = UnlockFG(g, f)
    BY <1>16, <1>a DEF PlansAre
  <2>2. IsSeq(UnlockFG(g, f)) /\ UsesOf(UnlockFG(g, f)) = {f, g} /\ ClearsOf(UnlockFG(g, f)) = {}
    BY <1>b DEF ListsAre
  <2> QED BY <1>0, <1>16, <2>1, <2>2 DEF Two
<1>17. CASE l = "x3"
  <2>1. r = Then(<<"unlock", f>>, UnlockFG(g, f))
    BY <1>17, <1>a DEF PlansAre
  <2>2. IsSeq(Then(<<"unlock", f>>, UnlockFG(g, f))) /\ UsesOf(Then(<<"unlock", f>>, UnlockFG(g, f))) = {f, g} /\ ClearsOf(Then(<<"unlock", f>>, UnlockFG(g, f))) = {}
    BY <1>b DEF ListsAre
  <2> QED BY <1>0, <1>17, <2>1, <2>2 DEF Two
<1>18. CASE l = "cl2"
  <2>1. r = Then(<<"check", f>>, Cl3(f))
    BY <1>18, <1>a DEF PlansAre
  <2>2. IsSeq(Then(<<"check", f>>, Cl3(f))) /\ UsesOf(Then(<<"check", f>>, Cl3(f))) = {f} /\ ClearsOf(Then(<<"check", f>>, Cl3(f))) = {}
    BY <1>b DEF ListsAre
  <2> QED BY <1>0, <1>18, <2>1, <2>2 DEF Two
<1>19. CASE l = "cl3"
  <2>1. r = Cl3(f)
    BY <1>19, <1>a DEF PlansAre
  <2>2. IsSeq(Cl3(f)) /\ UsesOf(Cl3(f)) = {f} /\ ClearsOf(Cl3(f)) = {}
    BY <1>b DEF ListsAre
  <2> QED BY <1>0, <1>19, <2>1, <2>2 DEF Two
<1>20. CASE l = "k1"
  <2>1. r = Then(<<"clr", f>>, K2(f))
    BY <1>20, <1>a DEF PlansAre
  <2>2. IsSeq(Then(<<"clr", f>>, K2(f))) /\ UsesOf(Then(<<"clr", f>>, K2(f))) = {f} /\ ClearsOf(Then(<<"clr", f>>, K2(f))) = {}
    BY <1>b DEF ListsAre
  <2> QED BY <1>0, <1>20, <2>1, <2>2 DEF Two
<1>21. CASE l = "k2"
  <2>1. r = K2(f)
    BY <1>21, <1>a DEF PlansAre
  <2>2. IsSeq(K2(f)) /\ UsesOf(K2(f)) = {f} /\ ClearsOf(K2(f)) = {}
    BY <1>b DEF ListsAre
  <2> QED BY <1>0, <1>21, <2>1, <2>2 DEF Two
<1>22. CASE l = "n1"
  <2>1. r = Then(<<"check", f>>, N2(f, g))
    BY <1>22, <1>a DEF PlansAre
  <2>2. IsSeq(Then(<<"check", f>>, N2(f, g))) /\ UsesOf(Then(<<"check", f>>, N2(f, g))) = {f, g} /\ ClearsOf(Then(<<"check", f>>, N2(f, g))) = {}
    BY <1>b DEF ListsAre
  <2> QED BY <1>0, <1>22, <2>1, <2>2 DEF Two
<1>23. CASE l = "n2"
  <2>1. r = N2(f, g)
    BY <1>23, <1>a DEF PlansAre
  <2>2. IsSeq(N2(f, g)) /\ UsesOf(N2(f, g)) = {f, g} /\ ClearsOf(N2(f, g)) = {}
    BY <1>b DEF ListsAre
  <2> QED BY <1>0, <1>23, <2>1, <2>2 DEF Two
<1>24. CASE l = "n3"
  <2>1. r = Then(<<"swap", f, g>>, N4(f, g))
    BY <1>24, <1>a DEF PlansAre
  <2>2. IsSeq(Then(<<"swap", f, g>>, N4(f, g))) /\ UsesOf(Then(<<"swap", f, g>>, N4(f, g))) = {f, g} /\ ClearsOf(Then(<<"swap", f, g>>, N4(f, g))) = {}
    BY <1>b DEF ListsAre
  <2> QED BY <1>0, <1>24, <2>1, <2>2 DEF Two
<1>25. CASE l = "n4"
  <2>1. r = N4(f, g)
    BY <1>25, <1>a DEF PlansAre
  <2>2. IsSeq(N4(f, g)) /\ UsesOf(N4(f, g)) = {f, g} /\ ClearsOf(N4(f, g)) = {}
    BY <1>b DEF ListsAre
  <2> QED BY <1>0, <1>25, <2>1, <2>2 DEF Two
<1>26. CASE l = "n5"
  <2>1. r = N5(f, g)
    BY <1>26, <1>a DEF PlansAre
  <2>2. IsSeq(N5(f, g)) /\ UsesOf(N5(f, g)) = {f, g} /\ ClearsOf(N5(f, g)) = {}
    BY <1>b DEF ListsAre
  <2> QED BY <1>0, <1>26, <2>1, <2>2 DEF Two
<1>27. CASE l = "n6"
  <2>1. r = N6(f, g)
    BY <1>27, <1>a DEF PlansAre
  <2>2. IsSeq(N6(f, g)) /\ UsesOf(N6(f, g)) = {f, g} /\ ClearsOf(N6(f, g)) = {}
    BY <1>b DEF ListsAre
  <2> QED BY <1>0, <1>27, <2>1, <2>2 DEF Two
<1>28. CASE l = "n8"
  <2>1. r = N8(f, g)
    BY <1>28, <1>a DEF PlansAre
  <2>2. IsSeq(N8(f, g)) /\ UsesOf(N8(f, g)) = {f, g} /\ ClearsOf(N8(f, g)) = {}
    BY <1>b DEF ListsAre
  <2> QED BY <1>0, <1>28, <2>1, <2>2 DEF Two
<1>29. CASE l = "n9"
  <2>1. r = N9(f, g)
    BY <1>29, <1>a DEF PlansAre
  <2>2. IsSeq(N9(f, g)) /\ UsesOf(N9(f, g)) = {f, g} /\ ClearsOf(N9(f, g)) = {}
    BY <1>b DEF ListsAre
  <2> QED BY <1>0, <1>29, <2>1, <2>2 DEF Two
<1>30. CASE l = "n10"
  <2>1. r = Then(<<"clr", g>>, N11(f, g))
    BY <1>30, <1>a DEF PlansAre
  <2>2. IsSeq(Then(<<"clr", g>>, N11(f, g))) /\ UsesOf(Then(<<"clr", g>>, N11(f, g))) = {f, g} /\ ClearsOf(Then(<<"clr", g>>, N11(f, g))) = {}
    BY <1>b DEF ListsAre
  <2> QED BY <1>0, <1>30, <2>1, <2>2 DEF Two
<1>31. CASE l = "n11"
  <2>1. r = N11(f, g)
    BY <1>31, <1>a DEF PlansAre
  <2>2. IsSeq(N11(f, g)) /\ UsesOf(N11(f, g)) = {f, g} /\ ClearsOf(N11(f, g)) = {}
    BY <1>b DEF ListsAre
  <2> QED BY <1>0, <1>31, <2>1, <2>2 DEF Two
<1>32. CASE l = "st2"
  <2>1. r = Then(<<"lock", g>>, St3(f, g))
    BY <1>32, <1>a DEF PlansAre
  <2>2. IsSeq(Then(<<"lock", g>>, St3(f, g))) /\ UsesOf(Then(<<"lock", g>>, St3(f, g))) = {f, g} /\ ClearsOf(Then(<<"lock", g>>, St3(f, g))) = {}
    BY <1>b DEF ListsAre
  <2> QED BY <1>0, <1>32, <2>1, <2>2 DEF Two
<1>33. CASE l = "st3"
  <2>1. r = St3(f, g)
    BY <1>33, <1>a DEF PlansAre
  <2>2. IsSeq(St3(f, g)) /\ UsesOf(St3(f, g)) = {f, g} /\ ClearsOf(St3(f, g)) = {}
    BY <1>b DEF ListsAre
  <2> QED BY <1>0, <1>33, <2>1, <2>2 DEF Two
<1>34. CASE l = "st4"
  <2>1. r = St4(f, g)
    BY <1>34, <1>a DEF PlansAre
  <2>2. IsSeq(St4(f, g)) /\ UsesOf(St4(f, g)) = {f, g} /\ ClearsOf(St4(f, g)) = {}
    BY <1>b DEF ListsAre
  <2> QED BY <1>0, <1>34, <2>1, <2>2 DEF Two
<1>35. CASE l = "st5"
  <2>1. r = St5(f, g)
    BY <1>35, <1>a DEF PlansAre
  <2>2. IsSeq(St5(f, g)) /\ UsesOf(St5(f, g)) = {f, g} /\ ClearsOf(St5(f, g)) = {}
    BY <1>b DEF ListsAre
  <2> QED BY <1>0, <1>35, <2>1, <2>2 DEF Two
<1>36. CASE l = "st6"
  <2>1. r = Then(<<"swap", f, g>>, Sp2(f, g))
    BY <1>36, <1>a DEF PlansAre
  <2>2. IsSeq(Then(<<"swap", f, g>>, Sp2(f, g))) /\ UsesOf(Then(<<"swap", f, g>>, Sp2(f, g))) = {f, g} /\ ClearsOf(Then(<<"swap", f, g>>, Sp2(f, g))) = {}
    BY <1>b DEF ListsAre
  <2> QED BY <1>0, <1>36, <2>1, <2>2 DEF Two
<1>37. CASE l = "st7"
  <2>1. r = Sp2(f, g)
    BY <1>37, <1>a DEF PlansAre
  <2>2. IsSeq(Sp2(f, g)) /\ UsesOf(Sp2(f, g)) = {f, g} /\ ClearsOf(Sp2(f, g)) = {}
    BY <1>b DEF ListsAre
  <2> QED BY <1>0, <1>37, <2>1, <2>2 DEF Two
<1>38. CASE l = "p1"
  <2>1. r = Then(<<"take", PoolMutex>>, P2(f, n))
    BY <1>38, <1>a DEF PlansAre
  <2>2. IsSeq(Then(<<"take", PoolMutex>>, P2(f, n))) /\ UsesOf(Then(<<"take", PoolMutex>>, P2(f, n))) = {f, n, PoolMutex} /\ ClearsOf(Then(<<"take", PoolMutex>>, P2(f, n))) = {}
    BY <1>b DEF ListsAre
  <2> QED BY <1>0, <1>38, <2>1, <2>2 DEF Two
<1>39. CASE l = "p2"
  <2>1. r = P2(f, n)
    BY <1>39, <1>a DEF PlansAre
  <2>2. IsSeq(P2(f, n)) /\ UsesOf(P2(f, n)) = {f, n, PoolMutex} /\ ClearsOf(P2(f, n)) = {}
    BY <1>b DEF ListsAre
  <2> QED BY <1>0, <1>39, <2>1, <2>2 DEF Two
<1>40. CASE l = "p3"
  <2>1. r = Then(<<"touch", g>>, P4(f, g, n))
    BY <1>40, <1>a DEF PlansAre
  <2>2. IsSeq(Then(<<"touch", g>>, P4(f, g, n))) /\ UsesOf(Then(<<"touch", g>>, P4(f, g, n))) = {f, g, n, PoolMutex} /\ ClearsOf(Then(<<"touch", g>>, P4(f, g, n))) = {g}
    BY <1>b DEF ListsAre
  <2> QED BY <1>0, <1>40, <2>1, <2>2 DEF Two
<1>41. CASE l = "p4"
  <2>1. r = P4(f, g, n)
    BY <1>41, <1>a DEF PlansAre
  <2>2. IsSeq(P4(f, g, n)) /\ UsesOf(P4(f, g, n)) = {f, g, n, PoolMutex} /\ ClearsOf(P4(f, g, n)) = {g}
    BY <1>b DEF ListsAre
  <2> QED BY <1>0, <1>41, <2>1, <2>2 DEF Two
<1>42. CASE l = "p5"
  <2>1. r = P5(f, g, n)
    BY <1>42, <1>a DEF PlansAre
  <2>2. IsSeq(P5(f, g, n)) /\ UsesOf(P5(f, g, n)) = {f, g, n, PoolMutex} /\ ClearsOf(P5(f, g, n)) = {g}
    BY <1>b DEF ListsAre
  <2> QED BY <1>0, <1>42, <2>1, <2>2 DEF Two
<1>43. CASE l = "p6"
  <2>1. r = P6(f, g, n)
    BY <1>43, <1>a DEF PlansAre
  <2>2. IsSeq(P6(f, g, n)) /\ UsesOf(P6(f, g, n)) = {f, g, n, PoolMutex} /\ ClearsOf(P6(f, g, n)) = {g}
    BY <1>b DEF ListsAre
  <2> QED BY <1>0, <1>43, <2>1, <2>2 DEF Two
<1>44. CASE l = "p7"
  <2>1. r = P7(f, g, n)
    BY <1>44, <1>a DEF PlansAre
  <2>2. IsSeq(P7(f, g, n)) /\ UsesOf(P7(f, g, n)) = {f, g, n, PoolMutex} /\ ClearsOf(P7(f, g, n)) = {g}
    BY <1>b DEF ListsAre
  <2> QED BY <1>0, <1>44, <2>1, <2>2 DEF Two
<1>45. CASE l = "p8"
  <2>1. r = P8(f)
    BY <1>45, <1>a DEF PlansAre
  <2>2. IsSeq(P8(f)) /\ UsesOf(P8(f)) = {f, PoolMutex} /\ ClearsOf(P8(f)) = {}
    BY <1>b DEF ListsAre
  <2> QED BY <1>0, <1>45, <2>1, <2>2 DEF Two
<1>46. CASE l = "pf"
  <2>1. r = Then(<<"drop", PoolMutex>>, UnlockF(f))
    BY <1>46, <1>a DEF PlansAre
  <2>2. IsSeq(Then(<<"drop", PoolMutex>>, UnlockF(f))) /\ UsesOf(Then(<<"drop", PoolMutex>>, UnlockF(f))) = {f, PoolMutex} /\ ClearsOf(Then(<<"drop", PoolMutex>>, UnlockF(f))) = {}
    BY <1>b DEF ListsAre
  <2> QED BY <1>0, <1>46, <2>1, <2>2 DEF Two
<1> QED
  BY <1>1, <1>2, <1>3, <1>4, <1>5, <1>6, <1>7, <1>8, <1>9, <1>10, <1>11, <1>12, <1>13, <1>14, <1>15, <1>16, <1>17, <1>18, <1>19, <1>20, <1>21, <1>22, <1>23, <1>24, <1>25, <1>26, <1>27, <1>28, <1>29, <1>30, <1>31, <1>32, <1>33, <1>34, <1>35, <1>36, <1>37, <1>38, <1>39, <1>40, <1>41, <1>42, <1>43, <1>44, <1>45, <1>46 DEF Label, Two

\* The first step of each list, and the others.
HeadsAre(f, g, n) ==
  /\ Plan("io2", f, g, n) # <<>> /\ Head(Plan("io2", f, g, n)) = <<"check", f>> /\ Tail(Plan("io2", f, g, n)) = Io3(f)
  /\ Plan("io3", f, g, n) # <<>> /\ Head(Plan("io3", f, g, n)) = <<"enter", f>> /\ Tail(Plan("io3", f, g, n)) = Io4(f)
  /\ Plan("io4", f, g, n) # <<>> /\ Head(Plan("io4", f, g, n)) = <<"leave", f>> /\ Tail(Plan("io4", f, g, n)) = UnlockF(f)
  /\ Plan("u1", f, g, n) # <<>> /\ Head(Plan("u1", f, g, n)) = <<"unlock", f>> /\ Tail(Plan("u1", f, g, n)) = <<>>
  /\ Plan("u0", f, g, n) # <<>> /\ Head(Plan("u0", f, g, n)) = <<"unlock", f>> /\ Tail(Plan("u0", f, g, n)) = <<>>
  /\ Plan("j2", f, g, n) # <<>> /\ Head(Plan("j2", f, g, n)) = <<"clear", f>> /\ Tail(Plan("j2", f, g, n)) = J3(f)
  /\ Plan("j3", f, g, n) # <<>> /\ Head(Plan("j3", f, g, n)) = <<"unlock", f>> /\ Tail(Plan("j3", f, g, n)) = J4(f)
  /\ Plan("j4", f, g, n) # <<>> /\ Head(Plan("j4", f, g, n)) = <<"clrmtx", f>> /\ Tail(Plan("j4", f, g, n)) = <<>>
  /\ Plan("pop2", f, g, n) # <<>> /\ Head(Plan("pop2", f, g, n)) = <<"check", f>> /\ Tail(Plan("pop2", f, g, n)) = Pop3(f)
  /\ Plan("pop3", f, g, n) # <<>> /\ Head(Plan("pop3", f, g, n)) = <<"pop", f>> /\ Tail(Plan("pop3", f, g, n)) = UnlockF(f)
  /\ Plan("sp1", f, g, n) # <<>> /\ Head(Plan("sp1", f, g, n)) = <<"swap", f, g>> /\ Tail(Plan("sp1", f, g, n)) = Sp2(f, g)
  /\ Plan("sp2", f, g, n) # <<>> /\ Head(Plan("sp2", f, g, n)) = <<"swapped", f, g>> /\ Tail(Plan("sp2", f, g, n)) = UnlockFG(f, g)
  /\ Plan("uu10", f, g, n) # <<>> /\ Head(Plan("uu10", f, g, n)) = <<"unlock", f>> /\ Tail(Plan("uu10", f, g, n)) = UnlockF(g)
  /\ Plan("uu11", f, g, n) # <<>> /\ Head(Plan("uu11", f, g, n)) = <<"unlock", f>> /\ Tail(Plan("uu11", f, g, n)) = UnlockF(g)
  /\ Plan("uu01", f, g, n) # <<>> /\ Head(Plan("uu01", f, g, n)) = <<"unlock", g>> /\ Tail(Plan("uu01", f, g, n)) = UnlockF(f)
  /\ Plan("x3", f, g, n) # <<>> /\ Head(Plan("x3", f, g, n)) = <<"unlock", f>> /\ Tail(Plan("x3", f, g, n)) = UnlockFG(g, f)
  /\ Plan("cl2", f, g, n) # <<>> /\ Head(Plan("cl2", f, g, n)) = <<"check", f>> /\ Tail(Plan("cl2", f, g, n)) = Cl3(f)
  /\ Plan("cl3", f, g, n) # <<>> /\ Head(Plan("cl3", f, g, n)) = <<"closing", f>> /\ Tail(Plan("cl3", f, g, n)) = UnlockF(f)
  /\ Plan("k1", f, g, n) # <<>> /\ Head(Plan("k1", f, g, n)) = <<"clr", f>> /\ Tail(Plan("k1", f, g, n)) = K2(f)
  /\ Plan("k2", f, g, n) # <<>> /\ Head(Plan("k2", f, g, n)) = <<"final", f>> /\ Tail(Plan("k2", f, g, n)) = <<>>
  /\ Plan("n1", f, g, n) # <<>> /\ Head(Plan("n1", f, g, n)) = <<"check", f>> /\ Tail(Plan("n1", f, g, n)) = N2(f, g)
  /\ Plan("n2", f, g, n) # <<>> /\ Head(Plan("n2", f, g, n)) = <<"pop", f>> /\ Tail(Plan("n2", f, g, n)) = Then(<<"unlock", f>>, N7(f, g))
  /\ Plan("n3", f, g, n) # <<>> /\ Head(Plan("n3", f, g, n)) = <<"swap", f, g>> /\ Tail(Plan("n3", f, g, n)) = N4(f, g)
  /\ Plan("n4", f, g, n) # <<>> /\ Head(Plan("n4", f, g, n)) = <<"swapped", f, g>> /\ Tail(Plan("n4", f, g, n)) = N5(f, g)
  /\ Plan("n5", f, g, n) # <<>> /\ Head(Plan("n5", f, g, n)) = <<"unlock", f>> /\ Tail(Plan("n5", f, g, n)) = N6(f, g)
  /\ Plan("n6", f, g, n) # <<>> /\ Head(Plan("n6", f, g, n)) = <<"unlock", g>> /\ Tail(Plan("n6", f, g, n)) = N7(f, g)
  /\ Plan("n8", f, g, n) # <<>> /\ Head(Plan("n8", f, g, n)) = <<"check", g>> /\ Tail(Plan("n8", f, g, n)) = N9(f, g)
  /\ Plan("n9", f, g, n) # <<>> /\ Head(Plan("n9", f, g, n)) = <<"closing", g>> /\ Tail(Plan("n9", f, g, n)) = Then(<<"unlock", g>>, Cl3(f))
  /\ Plan("n10", f, g, n) # <<>> /\ Head(Plan("n10", f, g, n)) = <<"clr", g>> /\ Tail(Plan("n10", f, g, n)) = N11(f, g)
  /\ Plan("n11", f, g, n) # <<>> /\ Head(Plan("n11", f, g, n)) = <<"final", g>> /\ Tail(Plan("n11", f, g, n)) = Cl3(f)
  /\ Plan("st2", f, g, n) # <<>> /\ Head(Plan("st2", f, g, n)) = <<"lock", g>> /\ Tail(Plan("st2", f, g, n)) = St3(f, g)
  /\ Plan("st3", f, g, n) # <<>> /\ Head(Plan("st3", f, g, n)) = <<"check", f>> /\ Tail(Plan("st3", f, g, n)) = St4(f, g)
  /\ Plan("st4", f, g, n) # <<>> /\ Head(Plan("st4", f, g, n)) = <<"check", g>> /\ Tail(Plan("st4", f, g, n)) = St5(f, g)
  /\ Plan("st5", f, g, n) # <<>> /\ Head(Plan("st5", f, g, n)) = <<"stack", f, g>> /\ Tail(Plan("st5", f, g, n)) = UnlockFG(f, g)
  /\ Plan("st6", f, g, n) # <<>> /\ Head(Plan("st6", f, g, n)) = <<"swap", f, g>> /\ Tail(Plan("st6", f, g, n)) = Sp2(f, g)
  /\ Plan("st7", f, g, n) # <<>> /\ Head(Plan("st7", f, g, n)) = <<"swapped", f, g>> /\ Tail(Plan("st7", f, g, n)) = UnlockFG(f, g)
  /\ Plan("p1", f, g, n) # <<>> /\ Head(Plan("p1", f, g, n)) = <<"take", PoolMutex>> /\ Tail(Plan("p1", f, g, n)) = P2(f, n)
  /\ Plan("p2", f, g, n) # <<>> /\ Head(Plan("p2", f, g, n)) = <<"head", f, n>> /\ Tail(Plan("p2", f, g, n)) = P8(f)
  /\ Plan("p3", f, g, n) # <<>> /\ Head(Plan("p3", f, g, n)) = <<"touch", g>> /\ Tail(Plan("p3", f, g, n)) = P4(f, g, n)
  /\ Plan("p4", f, g, n) # <<>> /\ Head(Plan("p4", f, g, n)) = <<"untouch", g>> /\ Tail(Plan("p4", f, g, n)) = P5(f, g, n)
  /\ Plan("p5", f, g, n) # <<>> /\ Head(Plan("p5", f, g, n)) = <<"unlock", g>> /\ Tail(Plan("p5", f, g, n)) = P6(f, g, n)
  /\ Plan("p6", f, g, n) # <<>> /\ Head(Plan("p6", f, g, n)) = <<"touch", g>> /\ Tail(Plan("p6", f, g, n)) = P7(f, g, n)
  /\ Plan("p7", f, g, n) # <<>> /\ Head(Plan("p7", f, g, n)) = <<"swaphead", f, n, g>> /\ Tail(Plan("p7", f, g, n)) = P8(f)
  /\ Plan("p8", f, g, n) # <<>> /\ Head(Plan("p8", f, g, n)) = <<"drop", PoolMutex>> /\ Tail(Plan("p8", f, g, n)) = Io3(f)
  /\ Plan("pf", f, g, n) # <<>> /\ Head(Plan("pf", f, g, n)) = <<"drop", PoolMutex>> /\ Tail(Plan("pf", f, g, n)) = UnlockF(f)

LEMMA Heads == \A f, g \in Stream : \A n : HeadsAre(f, g, n)
<1> SUFFICES ASSUME NEW f \in Stream, NEW g \in Stream, NEW n PROVE HeadsAre(f, g, n)
  OBVIOUS
<1>a. PlansAre(f, g, n)
  BY Plans
<1>b. ListsAre(f, g, n)
  BY Lists
<1>1. Plan("io2", f, g, n) # <<>> /\ Head(Plan("io2", f, g, n)) = <<"check", f>> /\ Tail(Plan("io2", f, g, n)) = Io3(f)
  <2>1. Plan("io2", f, g, n) = Then(<<"check", f>>, Io3(f))
    BY <1>a DEF PlansAre
  <2>2. IsSeq(Io3(f))
    BY <1>b DEF ListsAre
  <2> QED BY <2>1, <2>2, ThenIs
<1>2. Plan("io3", f, g, n) # <<>> /\ Head(Plan("io3", f, g, n)) = <<"enter", f>> /\ Tail(Plan("io3", f, g, n)) = Io4(f)
  <2>1. Plan("io3", f, g, n) = Then(<<"enter", f>>, Io4(f))
    BY <1>a DEF PlansAre, Io3
  <2>2. IsSeq(Io4(f))
    BY <1>b DEF ListsAre
  <2> QED BY <2>1, <2>2, ThenIs
<1>3. Plan("io4", f, g, n) # <<>> /\ Head(Plan("io4", f, g, n)) = <<"leave", f>> /\ Tail(Plan("io4", f, g, n)) = UnlockF(f)
  <2>1. Plan("io4", f, g, n) = Then(<<"leave", f>>, UnlockF(f))
    BY <1>a DEF PlansAre, Io4
  <2>2. IsSeq(UnlockF(f))
    BY <1>b DEF ListsAre
  <2> QED BY <2>1, <2>2, ThenIs
<1>4. Plan("u1", f, g, n) # <<>> /\ Head(Plan("u1", f, g, n)) = <<"unlock", f>> /\ Tail(Plan("u1", f, g, n)) = <<>>
  <2>1. Plan("u1", f, g, n) = Then(<<"unlock", f>>, <<>>)
    BY <1>a DEF PlansAre, UnlockF
  <2>2. IsSeq(<<>>)
    BY EmptyIs
  <2> QED BY <2>1, <2>2, ThenIs
<1>5. Plan("u0", f, g, n) # <<>> /\ Head(Plan("u0", f, g, n)) = <<"unlock", f>> /\ Tail(Plan("u0", f, g, n)) = <<>>
  <2>1. Plan("u0", f, g, n) = Then(<<"unlock", f>>, <<>>)
    BY <1>a DEF PlansAre, UnlockF
  <2>2. IsSeq(<<>>)
    BY EmptyIs
  <2> QED BY <2>1, <2>2, ThenIs
<1>6. Plan("j2", f, g, n) # <<>> /\ Head(Plan("j2", f, g, n)) = <<"clear", f>> /\ Tail(Plan("j2", f, g, n)) = J3(f)
  <2>1. Plan("j2", f, g, n) = Then(<<"clear", f>>, J3(f))
    BY <1>a DEF PlansAre
  <2>2. IsSeq(J3(f))
    BY <1>b DEF ListsAre
  <2> QED BY <2>1, <2>2, ThenIs
<1>7. Plan("j3", f, g, n) # <<>> /\ Head(Plan("j3", f, g, n)) = <<"unlock", f>> /\ Tail(Plan("j3", f, g, n)) = J4(f)
  <2>1. Plan("j3", f, g, n) = Then(<<"unlock", f>>, J4(f))
    BY <1>a DEF PlansAre, J3
  <2>2. IsSeq(J4(f))
    BY <1>b DEF ListsAre
  <2> QED BY <2>1, <2>2, ThenIs
<1>8. Plan("j4", f, g, n) # <<>> /\ Head(Plan("j4", f, g, n)) = <<"clrmtx", f>> /\ Tail(Plan("j4", f, g, n)) = <<>>
  <2>1. Plan("j4", f, g, n) = Then(<<"clrmtx", f>>, <<>>)
    BY <1>a DEF PlansAre, J4
  <2>2. IsSeq(<<>>)
    BY EmptyIs
  <2> QED BY <2>1, <2>2, ThenIs
<1>9. Plan("pop2", f, g, n) # <<>> /\ Head(Plan("pop2", f, g, n)) = <<"check", f>> /\ Tail(Plan("pop2", f, g, n)) = Pop3(f)
  <2>1. Plan("pop2", f, g, n) = Then(<<"check", f>>, Pop3(f))
    BY <1>a DEF PlansAre
  <2>2. IsSeq(Pop3(f))
    BY <1>b DEF ListsAre
  <2> QED BY <2>1, <2>2, ThenIs
<1>10. Plan("pop3", f, g, n) # <<>> /\ Head(Plan("pop3", f, g, n)) = <<"pop", f>> /\ Tail(Plan("pop3", f, g, n)) = UnlockF(f)
  <2>1. Plan("pop3", f, g, n) = Then(<<"pop", f>>, UnlockF(f))
    BY <1>a DEF PlansAre, Pop3
  <2>2. IsSeq(UnlockF(f))
    BY <1>b DEF ListsAre
  <2> QED BY <2>1, <2>2, ThenIs
<1>11. Plan("sp1", f, g, n) # <<>> /\ Head(Plan("sp1", f, g, n)) = <<"swap", f, g>> /\ Tail(Plan("sp1", f, g, n)) = Sp2(f, g)
  <2>1. Plan("sp1", f, g, n) = Then(<<"swap", f, g>>, Sp2(f, g))
    BY <1>a DEF PlansAre
  <2>2. IsSeq(Sp2(f, g))
    BY <1>b DEF ListsAre
  <2> QED BY <2>1, <2>2, ThenIs
<1>12. Plan("sp2", f, g, n) # <<>> /\ Head(Plan("sp2", f, g, n)) = <<"swapped", f, g>> /\ Tail(Plan("sp2", f, g, n)) = UnlockFG(f, g)
  <2>1. Plan("sp2", f, g, n) = Then(<<"swapped", f, g>>, UnlockFG(f, g))
    BY <1>a DEF PlansAre, Sp2
  <2>2. IsSeq(UnlockFG(f, g))
    BY <1>b DEF ListsAre
  <2> QED BY <2>1, <2>2, ThenIs
<1>13. Plan("uu10", f, g, n) # <<>> /\ Head(Plan("uu10", f, g, n)) = <<"unlock", f>> /\ Tail(Plan("uu10", f, g, n)) = UnlockF(g)
  <2>1. Plan("uu10", f, g, n) = Then(<<"unlock", f>>, UnlockF(g))
    BY <1>a DEF PlansAre, UnlockFG
  <2>2. IsSeq(UnlockF(g))
    BY <1>b DEF ListsAre
  <2> QED BY <2>1, <2>2, ThenIs
<1>14. Plan("uu11", f, g, n) # <<>> /\ Head(Plan("uu11", f, g, n)) = <<"unlock", f>> /\ Tail(Plan("uu11", f, g, n)) = UnlockF(g)
  <2>1. Plan("uu11", f, g, n) = Then(<<"unlock", f>>, UnlockF(g))
    BY <1>a DEF PlansAre, UnlockFG
  <2>2. IsSeq(UnlockF(g))
    BY <1>b DEF ListsAre
  <2> QED BY <2>1, <2>2, ThenIs
<1>15. Plan("uu01", f, g, n) # <<>> /\ Head(Plan("uu01", f, g, n)) = <<"unlock", g>> /\ Tail(Plan("uu01", f, g, n)) = UnlockF(f)
  <2>1. Plan("uu01", f, g, n) = Then(<<"unlock", g>>, UnlockF(f))
    BY <1>a DEF PlansAre, UnlockFG
  <2>2. IsSeq(UnlockF(f))
    BY <1>b DEF ListsAre
  <2> QED BY <2>1, <2>2, ThenIs
<1>16. Plan("x3", f, g, n) # <<>> /\ Head(Plan("x3", f, g, n)) = <<"unlock", f>> /\ Tail(Plan("x3", f, g, n)) = UnlockFG(g, f)
  <2>1. Plan("x3", f, g, n) = Then(<<"unlock", f>>, UnlockFG(g, f))
    BY <1>a DEF PlansAre
  <2>2. IsSeq(UnlockFG(g, f))
    BY <1>b DEF ListsAre
  <2> QED BY <2>1, <2>2, ThenIs
<1>17. Plan("cl2", f, g, n) # <<>> /\ Head(Plan("cl2", f, g, n)) = <<"check", f>> /\ Tail(Plan("cl2", f, g, n)) = Cl3(f)
  <2>1. Plan("cl2", f, g, n) = Then(<<"check", f>>, Cl3(f))
    BY <1>a DEF PlansAre
  <2>2. IsSeq(Cl3(f))
    BY <1>b DEF ListsAre
  <2> QED BY <2>1, <2>2, ThenIs
<1>18. Plan("cl3", f, g, n) # <<>> /\ Head(Plan("cl3", f, g, n)) = <<"closing", f>> /\ Tail(Plan("cl3", f, g, n)) = UnlockF(f)
  <2>1. Plan("cl3", f, g, n) = Then(<<"closing", f>>, UnlockF(f))
    BY <1>a DEF PlansAre, Cl3
  <2>2. IsSeq(UnlockF(f))
    BY <1>b DEF ListsAre
  <2> QED BY <2>1, <2>2, ThenIs
<1>19. Plan("k1", f, g, n) # <<>> /\ Head(Plan("k1", f, g, n)) = <<"clr", f>> /\ Tail(Plan("k1", f, g, n)) = K2(f)
  <2>1. Plan("k1", f, g, n) = Then(<<"clr", f>>, K2(f))
    BY <1>a DEF PlansAre
  <2>2. IsSeq(K2(f))
    BY <1>b DEF ListsAre
  <2> QED BY <2>1, <2>2, ThenIs
<1>20. Plan("k2", f, g, n) # <<>> /\ Head(Plan("k2", f, g, n)) = <<"final", f>> /\ Tail(Plan("k2", f, g, n)) = <<>>
  <2>1. Plan("k2", f, g, n) = Then(<<"final", f>>, <<>>)
    BY <1>a DEF PlansAre, K2
  <2>2. IsSeq(<<>>)
    BY EmptyIs
  <2> QED BY <2>1, <2>2, ThenIs
<1>21. Plan("n1", f, g, n) # <<>> /\ Head(Plan("n1", f, g, n)) = <<"check", f>> /\ Tail(Plan("n1", f, g, n)) = N2(f, g)
  <2>1. Plan("n1", f, g, n) = Then(<<"check", f>>, N2(f, g))
    BY <1>a DEF PlansAre
  <2>2. IsSeq(N2(f, g))
    BY <1>b DEF ListsAre
  <2> QED BY <2>1, <2>2, ThenIs
<1>22. Plan("n2", f, g, n) # <<>> /\ Head(Plan("n2", f, g, n)) = <<"pop", f>> /\ Tail(Plan("n2", f, g, n)) = Then(<<"unlock", f>>, N7(f, g))
  <2>1. Plan("n2", f, g, n) = Then(<<"pop", f>>, Then(<<"unlock", f>>, N7(f, g)))
    BY <1>a DEF PlansAre, N2
  <2>2. IsSeq(Then(<<"unlock", f>>, N7(f, g)))
    BY <1>b DEF ListsAre
  <2> QED BY <2>1, <2>2, ThenIs
<1>23. Plan("n3", f, g, n) # <<>> /\ Head(Plan("n3", f, g, n)) = <<"swap", f, g>> /\ Tail(Plan("n3", f, g, n)) = N4(f, g)
  <2>1. Plan("n3", f, g, n) = Then(<<"swap", f, g>>, N4(f, g))
    BY <1>a DEF PlansAre
  <2>2. IsSeq(N4(f, g))
    BY <1>b DEF ListsAre
  <2> QED BY <2>1, <2>2, ThenIs
<1>24. Plan("n4", f, g, n) # <<>> /\ Head(Plan("n4", f, g, n)) = <<"swapped", f, g>> /\ Tail(Plan("n4", f, g, n)) = N5(f, g)
  <2>1. Plan("n4", f, g, n) = Then(<<"swapped", f, g>>, N5(f, g))
    BY <1>a DEF PlansAre, N4
  <2>2. IsSeq(N5(f, g))
    BY <1>b DEF ListsAre
  <2> QED BY <2>1, <2>2, ThenIs
<1>25. Plan("n5", f, g, n) # <<>> /\ Head(Plan("n5", f, g, n)) = <<"unlock", f>> /\ Tail(Plan("n5", f, g, n)) = N6(f, g)
  <2>1. Plan("n5", f, g, n) = Then(<<"unlock", f>>, N6(f, g))
    BY <1>a DEF PlansAre, N5
  <2>2. IsSeq(N6(f, g))
    BY <1>b DEF ListsAre
  <2> QED BY <2>1, <2>2, ThenIs
<1>26. Plan("n6", f, g, n) # <<>> /\ Head(Plan("n6", f, g, n)) = <<"unlock", g>> /\ Tail(Plan("n6", f, g, n)) = N7(f, g)
  <2>1. Plan("n6", f, g, n) = Then(<<"unlock", g>>, N7(f, g))
    BY <1>a DEF PlansAre, N6
  <2>2. IsSeq(N7(f, g))
    BY <1>b DEF ListsAre
  <2> QED BY <2>1, <2>2, ThenIs
<1>27. Plan("n8", f, g, n) # <<>> /\ Head(Plan("n8", f, g, n)) = <<"check", g>> /\ Tail(Plan("n8", f, g, n)) = N9(f, g)
  <2>1. Plan("n8", f, g, n) = Then(<<"check", g>>, N9(f, g))
    BY <1>a DEF PlansAre, N8
  <2>2. IsSeq(N9(f, g))
    BY <1>b DEF ListsAre
  <2> QED BY <2>1, <2>2, ThenIs
<1>28. Plan("n9", f, g, n) # <<>> /\ Head(Plan("n9", f, g, n)) = <<"closing", g>> /\ Tail(Plan("n9", f, g, n)) = Then(<<"unlock", g>>, Cl3(f))
  <2>1. Plan("n9", f, g, n) = Then(<<"closing", g>>, Then(<<"unlock", g>>, Cl3(f)))
    BY <1>a DEF PlansAre, N9
  <2>2. IsSeq(Then(<<"unlock", g>>, Cl3(f)))
    BY <1>b DEF ListsAre
  <2> QED BY <2>1, <2>2, ThenIs
<1>29. Plan("n10", f, g, n) # <<>> /\ Head(Plan("n10", f, g, n)) = <<"clr", g>> /\ Tail(Plan("n10", f, g, n)) = N11(f, g)
  <2>1. Plan("n10", f, g, n) = Then(<<"clr", g>>, N11(f, g))
    BY <1>a DEF PlansAre
  <2>2. IsSeq(N11(f, g))
    BY <1>b DEF ListsAre
  <2> QED BY <2>1, <2>2, ThenIs
<1>30. Plan("n11", f, g, n) # <<>> /\ Head(Plan("n11", f, g, n)) = <<"final", g>> /\ Tail(Plan("n11", f, g, n)) = Cl3(f)
  <2>1. Plan("n11", f, g, n) = Then(<<"final", g>>, Cl3(f))
    BY <1>a DEF PlansAre, N11
  <2>2. IsSeq(Cl3(f))
    BY <1>b DEF ListsAre
  <2> QED BY <2>1, <2>2, ThenIs
<1>31. Plan("st2", f, g, n) # <<>> /\ Head(Plan("st2", f, g, n)) = <<"lock", g>> /\ Tail(Plan("st2", f, g, n)) = St3(f, g)
  <2>1. Plan("st2", f, g, n) = Then(<<"lock", g>>, St3(f, g))
    BY <1>a DEF PlansAre
  <2>2. IsSeq(St3(f, g))
    BY <1>b DEF ListsAre
  <2> QED BY <2>1, <2>2, ThenIs
<1>32. Plan("st3", f, g, n) # <<>> /\ Head(Plan("st3", f, g, n)) = <<"check", f>> /\ Tail(Plan("st3", f, g, n)) = St4(f, g)
  <2>1. Plan("st3", f, g, n) = Then(<<"check", f>>, St4(f, g))
    BY <1>a DEF PlansAre, St3
  <2>2. IsSeq(St4(f, g))
    BY <1>b DEF ListsAre
  <2> QED BY <2>1, <2>2, ThenIs
<1>33. Plan("st4", f, g, n) # <<>> /\ Head(Plan("st4", f, g, n)) = <<"check", g>> /\ Tail(Plan("st4", f, g, n)) = St5(f, g)
  <2>1. Plan("st4", f, g, n) = Then(<<"check", g>>, St5(f, g))
    BY <1>a DEF PlansAre, St4
  <2>2. IsSeq(St5(f, g))
    BY <1>b DEF ListsAre
  <2> QED BY <2>1, <2>2, ThenIs
<1>34. Plan("st5", f, g, n) # <<>> /\ Head(Plan("st5", f, g, n)) = <<"stack", f, g>> /\ Tail(Plan("st5", f, g, n)) = UnlockFG(f, g)
  <2>1. Plan("st5", f, g, n) = Then(<<"stack", f, g>>, UnlockFG(f, g))
    BY <1>a DEF PlansAre, St5
  <2>2. IsSeq(UnlockFG(f, g))
    BY <1>b DEF ListsAre
  <2> QED BY <2>1, <2>2, ThenIs
<1>35. Plan("st6", f, g, n) # <<>> /\ Head(Plan("st6", f, g, n)) = <<"swap", f, g>> /\ Tail(Plan("st6", f, g, n)) = Sp2(f, g)
  <2>1. Plan("st6", f, g, n) = Then(<<"swap", f, g>>, Sp2(f, g))
    BY <1>a DEF PlansAre
  <2>2. IsSeq(Sp2(f, g))
    BY <1>b DEF ListsAre
  <2> QED BY <2>1, <2>2, ThenIs
<1>36. Plan("st7", f, g, n) # <<>> /\ Head(Plan("st7", f, g, n)) = <<"swapped", f, g>> /\ Tail(Plan("st7", f, g, n)) = UnlockFG(f, g)
  <2>1. Plan("st7", f, g, n) = Then(<<"swapped", f, g>>, UnlockFG(f, g))
    BY <1>a DEF PlansAre, Sp2
  <2>2. IsSeq(UnlockFG(f, g))
    BY <1>b DEF ListsAre
  <2> QED BY <2>1, <2>2, ThenIs
<1>37. Plan("p1", f, g, n) # <<>> /\ Head(Plan("p1", f, g, n)) = <<"take", PoolMutex>> /\ Tail(Plan("p1", f, g, n)) = P2(f, n)
  <2>1. Plan("p1", f, g, n) = Then(<<"take", PoolMutex>>, P2(f, n))
    BY <1>a DEF PlansAre
  <2>2. IsSeq(P2(f, n))
    BY <1>b DEF ListsAre
  <2> QED BY <2>1, <2>2, ThenIs
<1>38. Plan("p2", f, g, n) # <<>> /\ Head(Plan("p2", f, g, n)) = <<"head", f, n>> /\ Tail(Plan("p2", f, g, n)) = P8(f)
  <2>1. Plan("p2", f, g, n) = Then(<<"head", f, n>>, P8(f))
    BY <1>a DEF PlansAre, P2
  <2>2. IsSeq(P8(f))
    BY <1>b DEF ListsAre
  <2> QED BY <2>1, <2>2, ThenIs
<1>39. Plan("p3", f, g, n) # <<>> /\ Head(Plan("p3", f, g, n)) = <<"touch", g>> /\ Tail(Plan("p3", f, g, n)) = P4(f, g, n)
  <2>1. Plan("p3", f, g, n) = Then(<<"touch", g>>, P4(f, g, n))
    BY <1>a DEF PlansAre
  <2>2. IsSeq(P4(f, g, n))
    BY <1>b DEF ListsAre
  <2> QED BY <2>1, <2>2, ThenIs
<1>40. Plan("p4", f, g, n) # <<>> /\ Head(Plan("p4", f, g, n)) = <<"untouch", g>> /\ Tail(Plan("p4", f, g, n)) = P5(f, g, n)
  <2>1. Plan("p4", f, g, n) = Then(<<"untouch", g>>, P5(f, g, n))
    BY <1>a DEF PlansAre, P4
  <2>2. IsSeq(P5(f, g, n))
    BY <1>b DEF ListsAre
  <2> QED BY <2>1, <2>2, ThenIs
<1>41. Plan("p5", f, g, n) # <<>> /\ Head(Plan("p5", f, g, n)) = <<"unlock", g>> /\ Tail(Plan("p5", f, g, n)) = P6(f, g, n)
  <2>1. Plan("p5", f, g, n) = Then(<<"unlock", g>>, P6(f, g, n))
    BY <1>a DEF PlansAre, P5
  <2>2. IsSeq(P6(f, g, n))
    BY <1>b DEF ListsAre
  <2> QED BY <2>1, <2>2, ThenIs
<1>42. Plan("p6", f, g, n) # <<>> /\ Head(Plan("p6", f, g, n)) = <<"touch", g>> /\ Tail(Plan("p6", f, g, n)) = P7(f, g, n)
  <2>1. Plan("p6", f, g, n) = Then(<<"touch", g>>, P7(f, g, n))
    BY <1>a DEF PlansAre, P6
  <2>2. IsSeq(P7(f, g, n))
    BY <1>b DEF ListsAre
  <2> QED BY <2>1, <2>2, ThenIs
<1>43. Plan("p7", f, g, n) # <<>> /\ Head(Plan("p7", f, g, n)) = <<"swaphead", f, n, g>> /\ Tail(Plan("p7", f, g, n)) = P8(f)
  <2>1. Plan("p7", f, g, n) = Then(<<"swaphead", f, n, g>>, P8(f))
    BY <1>a DEF PlansAre, P7
  <2>2. IsSeq(P8(f))
    BY <1>b DEF ListsAre
  <2> QED BY <2>1, <2>2, ThenIs
<1>44. Plan("p8", f, g, n) # <<>> /\ Head(Plan("p8", f, g, n)) = <<"drop", PoolMutex>> /\ Tail(Plan("p8", f, g, n)) = Io3(f)
  <2>1. Plan("p8", f, g, n) = Then(<<"drop", PoolMutex>>, Io3(f))
    BY <1>a DEF PlansAre, P8
  <2>2. IsSeq(Io3(f))
    BY <1>b DEF ListsAre
  <2> QED BY <2>1, <2>2, ThenIs
<1>45. Plan("pf", f, g, n) # <<>> /\ Head(Plan("pf", f, g, n)) = <<"drop", PoolMutex>> /\ Tail(Plan("pf", f, g, n)) = UnlockF(f)
  <2>1. Plan("pf", f, g, n) = Then(<<"drop", PoolMutex>>, UnlockF(f))
    BY <1>a DEF PlansAre
  <2>2. IsSeq(UnlockF(f))
    BY <1>b DEF ListsAre
  <2> QED BY <2>1, <2>2, ThenIs
<1> QED
  BY <1>1, <1>2, <1>3, <1>4, <1>5, <1>6, <1>7, <1>8, <1>9, <1>10, <1>11, <1>12, <1>13, <1>14, <1>15, <1>16, <1>17, <1>18, <1>19, <1>20, <1>21, <1>22, <1>23, <1>24, <1>25, <1>26, <1>27, <1>28, <1>29, <1>30, <1>31, <1>32, <1>33, <1>34, <1>35, <1>36, <1>37, <1>38, <1>39, <1>40, <1>41, <1>42, <1>43, <1>44, <1>45 DEF HeadsAre

\* The operation of the first step.
OpOf(l) ==
  CASE l \in {"io2", "pop2", "cl2", "n1", "n8", "st3", "st4"} -> "check"
    [] l \in {"io3"} -> "enter"
    [] l \in {"io4"} -> "leave"
    [] l \in {"u1", "u0", "j3", "uu10", "uu11", "uu01", "x3", "n5", "n6", "p5"} -> "unlock"
    [] l \in {"j2"} -> "clear"
    [] l \in {"j4"} -> "clrmtx"
    [] l \in {"pop3", "n2"} -> "pop"
    [] l \in {"sp1", "n3", "st6"} -> "swap"
    [] l \in {"sp2", "n4", "st7"} -> "swapped"
    [] l \in {"cl3", "n9"} -> "closing"
    [] l \in {"k1", "n10"} -> "clr"
    [] l \in {"k2", "n11"} -> "final"
    [] l \in {"st2"} -> "lock"
    [] l \in {"st5"} -> "stack"
    [] l \in {"p1"} -> "take"
    [] l \in {"p2"} -> "head"
    [] l \in {"p3", "p6"} -> "touch"
    [] l \in {"p4"} -> "untouch"
    [] l \in {"p7"} -> "swaphead"
    [] l \in {"p8", "pf"} -> "drop"
    [] l = "idle" -> "none"

LEMMA HeadOps ==
  ASSUME NEW l \in Label, l # "idle", NEW f \in Stream, NEW g \in Stream, NEW n
  PROVE  Plan(l, f, g, n) # <<>> /\ Head(Plan(l, f, g, n))[1] = OpOf(l)
<1>a. HeadsAre(f, g, n)
  BY Heads
<1>1. CASE l = "io2"
  <2>1. Plan("io2", f, g, n) # <<>> /\ Head(Plan("io2", f, g, n)) = <<"check", f>>
    BY <1>a DEF HeadsAre
  <2>2. OpOf("io2") = "check"
    BY DEF OpOf
  <2> QED BY <1>1, <2>1, <2>2
<1>2. CASE l = "io3"
  <2>1. Plan("io3", f, g, n) # <<>> /\ Head(Plan("io3", f, g, n)) = <<"enter", f>>
    BY <1>a DEF HeadsAre
  <2>2. OpOf("io3") = "enter"
    BY DEF OpOf
  <2> QED BY <1>2, <2>1, <2>2
<1>3. CASE l = "io4"
  <2>1. Plan("io4", f, g, n) # <<>> /\ Head(Plan("io4", f, g, n)) = <<"leave", f>>
    BY <1>a DEF HeadsAre
  <2>2. OpOf("io4") = "leave"
    BY DEF OpOf
  <2> QED BY <1>3, <2>1, <2>2
<1>4. CASE l = "u1"
  <2>1. Plan("u1", f, g, n) # <<>> /\ Head(Plan("u1", f, g, n)) = <<"unlock", f>>
    BY <1>a DEF HeadsAre
  <2>2. OpOf("u1") = "unlock"
    BY DEF OpOf
  <2> QED BY <1>4, <2>1, <2>2
<1>5. CASE l = "u0"
  <2>1. Plan("u0", f, g, n) # <<>> /\ Head(Plan("u0", f, g, n)) = <<"unlock", f>>
    BY <1>a DEF HeadsAre
  <2>2. OpOf("u0") = "unlock"
    BY DEF OpOf
  <2> QED BY <1>5, <2>1, <2>2
<1>6. CASE l = "j2"
  <2>1. Plan("j2", f, g, n) # <<>> /\ Head(Plan("j2", f, g, n)) = <<"clear", f>>
    BY <1>a DEF HeadsAre
  <2>2. OpOf("j2") = "clear"
    BY DEF OpOf
  <2> QED BY <1>6, <2>1, <2>2
<1>7. CASE l = "j3"
  <2>1. Plan("j3", f, g, n) # <<>> /\ Head(Plan("j3", f, g, n)) = <<"unlock", f>>
    BY <1>a DEF HeadsAre
  <2>2. OpOf("j3") = "unlock"
    BY DEF OpOf
  <2> QED BY <1>7, <2>1, <2>2
<1>8. CASE l = "j4"
  <2>1. Plan("j4", f, g, n) # <<>> /\ Head(Plan("j4", f, g, n)) = <<"clrmtx", f>>
    BY <1>a DEF HeadsAre
  <2>2. OpOf("j4") = "clrmtx"
    BY DEF OpOf
  <2> QED BY <1>8, <2>1, <2>2
<1>9. CASE l = "pop2"
  <2>1. Plan("pop2", f, g, n) # <<>> /\ Head(Plan("pop2", f, g, n)) = <<"check", f>>
    BY <1>a DEF HeadsAre
  <2>2. OpOf("pop2") = "check"
    BY DEF OpOf
  <2> QED BY <1>9, <2>1, <2>2
<1>10. CASE l = "pop3"
  <2>1. Plan("pop3", f, g, n) # <<>> /\ Head(Plan("pop3", f, g, n)) = <<"pop", f>>
    BY <1>a DEF HeadsAre
  <2>2. OpOf("pop3") = "pop"
    BY DEF OpOf
  <2> QED BY <1>10, <2>1, <2>2
<1>11. CASE l = "sp1"
  <2>1. Plan("sp1", f, g, n) # <<>> /\ Head(Plan("sp1", f, g, n)) = <<"swap", f, g>>
    BY <1>a DEF HeadsAre
  <2>2. OpOf("sp1") = "swap"
    BY DEF OpOf
  <2> QED BY <1>11, <2>1, <2>2
<1>12. CASE l = "sp2"
  <2>1. Plan("sp2", f, g, n) # <<>> /\ Head(Plan("sp2", f, g, n)) = <<"swapped", f, g>>
    BY <1>a DEF HeadsAre
  <2>2. OpOf("sp2") = "swapped"
    BY DEF OpOf
  <2> QED BY <1>12, <2>1, <2>2
<1>13. CASE l = "uu10"
  <2>1. Plan("uu10", f, g, n) # <<>> /\ Head(Plan("uu10", f, g, n)) = <<"unlock", f>>
    BY <1>a DEF HeadsAre
  <2>2. OpOf("uu10") = "unlock"
    BY DEF OpOf
  <2> QED BY <1>13, <2>1, <2>2
<1>14. CASE l = "uu11"
  <2>1. Plan("uu11", f, g, n) # <<>> /\ Head(Plan("uu11", f, g, n)) = <<"unlock", f>>
    BY <1>a DEF HeadsAre
  <2>2. OpOf("uu11") = "unlock"
    BY DEF OpOf
  <2> QED BY <1>14, <2>1, <2>2
<1>15. CASE l = "uu01"
  <2>1. Plan("uu01", f, g, n) # <<>> /\ Head(Plan("uu01", f, g, n)) = <<"unlock", g>>
    BY <1>a DEF HeadsAre
  <2>2. OpOf("uu01") = "unlock"
    BY DEF OpOf
  <2> QED BY <1>15, <2>1, <2>2
<1>16. CASE l = "x3"
  <2>1. Plan("x3", f, g, n) # <<>> /\ Head(Plan("x3", f, g, n)) = <<"unlock", f>>
    BY <1>a DEF HeadsAre
  <2>2. OpOf("x3") = "unlock"
    BY DEF OpOf
  <2> QED BY <1>16, <2>1, <2>2
<1>17. CASE l = "cl2"
  <2>1. Plan("cl2", f, g, n) # <<>> /\ Head(Plan("cl2", f, g, n)) = <<"check", f>>
    BY <1>a DEF HeadsAre
  <2>2. OpOf("cl2") = "check"
    BY DEF OpOf
  <2> QED BY <1>17, <2>1, <2>2
<1>18. CASE l = "cl3"
  <2>1. Plan("cl3", f, g, n) # <<>> /\ Head(Plan("cl3", f, g, n)) = <<"closing", f>>
    BY <1>a DEF HeadsAre
  <2>2. OpOf("cl3") = "closing"
    BY DEF OpOf
  <2> QED BY <1>18, <2>1, <2>2
<1>19. CASE l = "k1"
  <2>1. Plan("k1", f, g, n) # <<>> /\ Head(Plan("k1", f, g, n)) = <<"clr", f>>
    BY <1>a DEF HeadsAre
  <2>2. OpOf("k1") = "clr"
    BY DEF OpOf
  <2> QED BY <1>19, <2>1, <2>2
<1>20. CASE l = "k2"
  <2>1. Plan("k2", f, g, n) # <<>> /\ Head(Plan("k2", f, g, n)) = <<"final", f>>
    BY <1>a DEF HeadsAre
  <2>2. OpOf("k2") = "final"
    BY DEF OpOf
  <2> QED BY <1>20, <2>1, <2>2
<1>21. CASE l = "n1"
  <2>1. Plan("n1", f, g, n) # <<>> /\ Head(Plan("n1", f, g, n)) = <<"check", f>>
    BY <1>a DEF HeadsAre
  <2>2. OpOf("n1") = "check"
    BY DEF OpOf
  <2> QED BY <1>21, <2>1, <2>2
<1>22. CASE l = "n2"
  <2>1. Plan("n2", f, g, n) # <<>> /\ Head(Plan("n2", f, g, n)) = <<"pop", f>>
    BY <1>a DEF HeadsAre
  <2>2. OpOf("n2") = "pop"
    BY DEF OpOf
  <2> QED BY <1>22, <2>1, <2>2
<1>23. CASE l = "n3"
  <2>1. Plan("n3", f, g, n) # <<>> /\ Head(Plan("n3", f, g, n)) = <<"swap", f, g>>
    BY <1>a DEF HeadsAre
  <2>2. OpOf("n3") = "swap"
    BY DEF OpOf
  <2> QED BY <1>23, <2>1, <2>2
<1>24. CASE l = "n4"
  <2>1. Plan("n4", f, g, n) # <<>> /\ Head(Plan("n4", f, g, n)) = <<"swapped", f, g>>
    BY <1>a DEF HeadsAre
  <2>2. OpOf("n4") = "swapped"
    BY DEF OpOf
  <2> QED BY <1>24, <2>1, <2>2
<1>25. CASE l = "n5"
  <2>1. Plan("n5", f, g, n) # <<>> /\ Head(Plan("n5", f, g, n)) = <<"unlock", f>>
    BY <1>a DEF HeadsAre
  <2>2. OpOf("n5") = "unlock"
    BY DEF OpOf
  <2> QED BY <1>25, <2>1, <2>2
<1>26. CASE l = "n6"
  <2>1. Plan("n6", f, g, n) # <<>> /\ Head(Plan("n6", f, g, n)) = <<"unlock", g>>
    BY <1>a DEF HeadsAre
  <2>2. OpOf("n6") = "unlock"
    BY DEF OpOf
  <2> QED BY <1>26, <2>1, <2>2
<1>27. CASE l = "n8"
  <2>1. Plan("n8", f, g, n) # <<>> /\ Head(Plan("n8", f, g, n)) = <<"check", g>>
    BY <1>a DEF HeadsAre
  <2>2. OpOf("n8") = "check"
    BY DEF OpOf
  <2> QED BY <1>27, <2>1, <2>2
<1>28. CASE l = "n9"
  <2>1. Plan("n9", f, g, n) # <<>> /\ Head(Plan("n9", f, g, n)) = <<"closing", g>>
    BY <1>a DEF HeadsAre
  <2>2. OpOf("n9") = "closing"
    BY DEF OpOf
  <2> QED BY <1>28, <2>1, <2>2
<1>29. CASE l = "n10"
  <2>1. Plan("n10", f, g, n) # <<>> /\ Head(Plan("n10", f, g, n)) = <<"clr", g>>
    BY <1>a DEF HeadsAre
  <2>2. OpOf("n10") = "clr"
    BY DEF OpOf
  <2> QED BY <1>29, <2>1, <2>2
<1>30. CASE l = "n11"
  <2>1. Plan("n11", f, g, n) # <<>> /\ Head(Plan("n11", f, g, n)) = <<"final", g>>
    BY <1>a DEF HeadsAre
  <2>2. OpOf("n11") = "final"
    BY DEF OpOf
  <2> QED BY <1>30, <2>1, <2>2
<1>31. CASE l = "st2"
  <2>1. Plan("st2", f, g, n) # <<>> /\ Head(Plan("st2", f, g, n)) = <<"lock", g>>
    BY <1>a DEF HeadsAre
  <2>2. OpOf("st2") = "lock"
    BY DEF OpOf
  <2> QED BY <1>31, <2>1, <2>2
<1>32. CASE l = "st3"
  <2>1. Plan("st3", f, g, n) # <<>> /\ Head(Plan("st3", f, g, n)) = <<"check", f>>
    BY <1>a DEF HeadsAre
  <2>2. OpOf("st3") = "check"
    BY DEF OpOf
  <2> QED BY <1>32, <2>1, <2>2
<1>33. CASE l = "st4"
  <2>1. Plan("st4", f, g, n) # <<>> /\ Head(Plan("st4", f, g, n)) = <<"check", g>>
    BY <1>a DEF HeadsAre
  <2>2. OpOf("st4") = "check"
    BY DEF OpOf
  <2> QED BY <1>33, <2>1, <2>2
<1>34. CASE l = "st5"
  <2>1. Plan("st5", f, g, n) # <<>> /\ Head(Plan("st5", f, g, n)) = <<"stack", f, g>>
    BY <1>a DEF HeadsAre
  <2>2. OpOf("st5") = "stack"
    BY DEF OpOf
  <2> QED BY <1>34, <2>1, <2>2
<1>35. CASE l = "st6"
  <2>1. Plan("st6", f, g, n) # <<>> /\ Head(Plan("st6", f, g, n)) = <<"swap", f, g>>
    BY <1>a DEF HeadsAre
  <2>2. OpOf("st6") = "swap"
    BY DEF OpOf
  <2> QED BY <1>35, <2>1, <2>2
<1>36. CASE l = "st7"
  <2>1. Plan("st7", f, g, n) # <<>> /\ Head(Plan("st7", f, g, n)) = <<"swapped", f, g>>
    BY <1>a DEF HeadsAre
  <2>2. OpOf("st7") = "swapped"
    BY DEF OpOf
  <2> QED BY <1>36, <2>1, <2>2
<1>37. CASE l = "p1"
  <2>1. Plan("p1", f, g, n) # <<>> /\ Head(Plan("p1", f, g, n)) = <<"take", PoolMutex>>
    BY <1>a DEF HeadsAre
  <2>2. OpOf("p1") = "take"
    BY DEF OpOf
  <2> QED BY <1>37, <2>1, <2>2
<1>38. CASE l = "p2"
  <2>1. Plan("p2", f, g, n) # <<>> /\ Head(Plan("p2", f, g, n)) = <<"head", f, n>>
    BY <1>a DEF HeadsAre
  <2>2. OpOf("p2") = "head"
    BY DEF OpOf
  <2> QED BY <1>38, <2>1, <2>2
<1>39. CASE l = "p3"
  <2>1. Plan("p3", f, g, n) # <<>> /\ Head(Plan("p3", f, g, n)) = <<"touch", g>>
    BY <1>a DEF HeadsAre
  <2>2. OpOf("p3") = "touch"
    BY DEF OpOf
  <2> QED BY <1>39, <2>1, <2>2
<1>40. CASE l = "p4"
  <2>1. Plan("p4", f, g, n) # <<>> /\ Head(Plan("p4", f, g, n)) = <<"untouch", g>>
    BY <1>a DEF HeadsAre
  <2>2. OpOf("p4") = "untouch"
    BY DEF OpOf
  <2> QED BY <1>40, <2>1, <2>2
<1>41. CASE l = "p5"
  <2>1. Plan("p5", f, g, n) # <<>> /\ Head(Plan("p5", f, g, n)) = <<"unlock", g>>
    BY <1>a DEF HeadsAre
  <2>2. OpOf("p5") = "unlock"
    BY DEF OpOf
  <2> QED BY <1>41, <2>1, <2>2
<1>42. CASE l = "p6"
  <2>1. Plan("p6", f, g, n) # <<>> /\ Head(Plan("p6", f, g, n)) = <<"touch", g>>
    BY <1>a DEF HeadsAre
  <2>2. OpOf("p6") = "touch"
    BY DEF OpOf
  <2> QED BY <1>42, <2>1, <2>2
<1>43. CASE l = "p7"
  <2>1. Plan("p7", f, g, n) # <<>> /\ Head(Plan("p7", f, g, n)) = <<"swaphead", f, n, g>>
    BY <1>a DEF HeadsAre
  <2>2. OpOf("p7") = "swaphead"
    BY DEF OpOf
  <2> QED BY <1>43, <2>1, <2>2
<1>44. CASE l = "p8"
  <2>1. Plan("p8", f, g, n) # <<>> /\ Head(Plan("p8", f, g, n)) = <<"drop", PoolMutex>>
    BY <1>a DEF HeadsAre
  <2>2. OpOf("p8") = "drop"
    BY DEF OpOf
  <2> QED BY <1>44, <2>1, <2>2
<1>45. CASE l = "pf"
  <2>1. Plan("pf", f, g, n) # <<>> /\ Head(Plan("pf", f, g, n)) = <<"drop", PoolMutex>>
    BY <1>a DEF HeadsAre
  <2>2. OpOf("pf") = "drop"
    BY DEF OpOf
  <2> QED BY <1>45, <2>1, <2>2
<1> QED BY <1>1, <1>2, <1>3, <1>4, <1>5, <1>6, <1>7, <1>8, <1>9, <1>10, <1>11, <1>12, <1>13, <1>14, <1>15, <1>16, <1>17, <1>18, <1>19, <1>20, <1>21, <1>22, <1>23, <1>24, <1>25, <1>26, <1>27, <1>28, <1>29, <1>30, <1>31, <1>32, <1>33, <1>34, <1>35, <1>36, <1>37, <1>38, <1>39, <1>40, <1>41, <1>42, <1>43, <1>44, <1>45 DEF Label, Two

LEMMA OpLabels ==
  ASSUME NEW l \in Label
  PROVE  /\ OpOf(l) = "none" => l = "idle"
         /\ OpOf(l) = "check" => l \in {"io2", "pop2", "cl2", "n1", "n8", "st3", "st4"}
         /\ OpOf(l) = "enter" => l \in {"io3"}
         /\ OpOf(l) = "leave" => l \in {"io4"}
         /\ OpOf(l) = "unlock" => l \in {"u1", "u0", "j3", "uu10", "uu11", "uu01", "x3", "n5", "n6", "p5"}
         /\ OpOf(l) = "clear" => l \in {"j2"}
         /\ OpOf(l) = "clrmtx" => l \in {"j4"}
         /\ OpOf(l) = "pop" => l \in {"pop3", "n2"}
         /\ OpOf(l) = "swap" => l \in {"sp1", "n3", "st6"}
         /\ OpOf(l) = "swapped" => l \in {"sp2", "n4", "st7"}
         /\ OpOf(l) = "closing" => l \in {"cl3", "n9"}
         /\ OpOf(l) = "clr" => l \in {"k1", "n10"}
         /\ OpOf(l) = "final" => l \in {"k2", "n11"}
         /\ OpOf(l) = "lock" => l \in {"st2"}
         /\ OpOf(l) = "stack" => l \in {"st5"}
         /\ OpOf(l) = "take" => l \in {"p1"}
         /\ OpOf(l) = "head" => l \in {"p2"}
         /\ OpOf(l) = "touch" => l \in {"p3", "p6"}
         /\ OpOf(l) = "untouch" => l \in {"p4"}
         /\ OpOf(l) = "swaphead" => l \in {"p7"}
         /\ OpOf(l) = "drop" => l \in {"p8", "pf"}
         /\ OpOf(l) # "make"
<1>1. OpOf(l) = "none" => l = "idle"
  BY DEF OpOf, Label, Two
<1>2. OpOf(l) = "check" => l \in {"io2", "pop2", "cl2", "n1", "n8", "st3", "st4"}
  BY DEF OpOf, Label, Two
<1>3. OpOf(l) = "enter" => l \in {"io3"}
  BY DEF OpOf, Label, Two
<1>4. OpOf(l) = "leave" => l \in {"io4"}
  BY DEF OpOf, Label, Two
<1>5. OpOf(l) = "unlock" => l \in {"u1", "u0", "j3", "uu10", "uu11", "uu01", "x3", "n5", "n6", "p5"}
  BY DEF OpOf, Label, Two
<1>6. OpOf(l) = "clear" => l \in {"j2"}
  BY DEF OpOf, Label, Two
<1>7. OpOf(l) = "clrmtx" => l \in {"j4"}
  BY DEF OpOf, Label, Two
<1>8. OpOf(l) = "pop" => l \in {"pop3", "n2"}
  BY DEF OpOf, Label, Two
<1>9. OpOf(l) = "swap" => l \in {"sp1", "n3", "st6"}
  BY DEF OpOf, Label, Two
<1>10. OpOf(l) = "swapped" => l \in {"sp2", "n4", "st7"}
  BY DEF OpOf, Label, Two
<1>11. OpOf(l) = "closing" => l \in {"cl3", "n9"}
  BY DEF OpOf, Label, Two
<1>12. OpOf(l) = "clr" => l \in {"k1", "n10"}
  BY DEF OpOf, Label, Two
<1>13. OpOf(l) = "final" => l \in {"k2", "n11"}
  BY DEF OpOf, Label, Two
<1>14. OpOf(l) = "lock" => l \in {"st2"}
  BY DEF OpOf, Label, Two
<1>15. OpOf(l) = "stack" => l \in {"st5"}
  BY DEF OpOf, Label, Two
<1>16. OpOf(l) = "take" => l \in {"p1"}
  BY DEF OpOf, Label, Two
<1>17. OpOf(l) = "head" => l \in {"p2"}
  BY DEF OpOf, Label, Two
<1>18. OpOf(l) = "touch" => l \in {"p3", "p6"}
  BY DEF OpOf, Label, Two
<1>19. OpOf(l) = "untouch" => l \in {"p4"}
  BY DEF OpOf, Label, Two
<1>20. OpOf(l) = "swaphead" => l \in {"p7"}
  BY DEF OpOf, Label, Two
<1>21. OpOf(l) = "drop" => l \in {"p8", "pf"}
  BY DEF OpOf, Label, Two
<1>22. OpOf(l) # "make"
  BY DEF OpOf, Label, Two
<1> QED BY <1>1, <1>2, <1>3, <1>4, <1>5, <1>6, <1>7, <1>8, <1>9, <1>10, <1>11, <1>12, <1>13, <1>14, <1>15, <1>16, <1>17, <1>18, <1>19, <1>20, <1>21, <1>22

----------------------------------------------------------------------------
(* The place of a thread.                                                  *)

To(ph, l, f, g, n, m) == [ph |-> ph, l |-> l, f |-> f, g |-> g, n |-> n, m |-> m]

LEMMA ToIs ==
  ASSUME NEW ph, NEW l, NEW f, NEW g, NEW n, NEW m
  PROVE  LET p == To(ph, l, f, g, n, m)
         IN  /\ p.ph = ph /\ p.l = l /\ p.f = f /\ p.g = g /\ p.n = n /\ p.m = m
             /\ ph \in Phase /\ l \in Label /\ f \in Stream /\ g \in Stream /\ n \in Nat /\ m \in Mutex => p \in Place
  BY DEF To, Place

LEMMA PlaceIs ==
  ASSUME NEW p \in Place
  PROVE  /\ p.ph \in Phase /\ p.l \in Label /\ p.f \in Stream /\ p.g \in Stream /\ p.n \in Nat /\ p.m \in Mutex
         /\ Asked(p) \in Stream /\ Asked(p) \in {p.f, p.g}
  BY DEF Place, Asked

\* The steps in front of a place that is still to lock its stream.
LEMMA LeftIs ==
  ASSUME NEW p \in Place
  PROVE  LET rest == Plan(p.l, p.f, p.g, p.n)  x == Asked(p)  q == Left(p)
         IN  /\ IsSeq(q) /\ IsSeq(rest) /\ ClearsOf(q) = ClearsOf(rest) /\ \A s : Has(rest, s) => Has(q, s)
             /\ p.ph = "on" => q = rest
             /\ p.ph # "on" => q # <<>>
             /\ p.ph = "lock" => Head(q) = <<"lock", x>> /\ Tail(q) = rest
             /\ p.ph = "lib" => /\ Head(q) = <<"take", LibMutex>>
                                /\ Tail(q) = Then(<<"make", x>>, Then(<<"drop", LibMutex>>, Then(<<"lock", x>>, rest)))
             /\ p.ph = "make" => Head(q) = <<"make", x>> /\ Tail(q) = Then(<<"drop", LibMutex>>, Then(<<"lock", x>>, rest))
             /\ p.ph = "drop" => Head(q) = <<"drop", LibMutex>> /\ Tail(q) = Then(<<"lock", x>>, rest)
             /\ p.ph = "take" => Head(q) = <<"take", p.m>> /\ Tail(q) = rest
             /\ p.ph = "on" => UsesOf(q) = UsesOf(rest)
             /\ p.ph \in {"lock", "lib", "make", "drop"} => UsesOf(q) \cap Stream = ({x} \cup UsesOf(rest)) \cap Stream
             /\ p.ph = "take" => UsesOf(q) = {p.m} \cup UsesOf(rest)
<1> DEFINE rest == Plan(p.l, p.f, p.g, p.n)  x == Asked(p)  q == Left(p)
           a == Then(<<"lock", x>>, rest)  b == Then(<<"drop", LibMutex>>, a)  c == Then(<<"make", x>>, b)
           d == Then(<<"take", LibMutex>>, c)  e == Then(<<"take", p.m>>, rest)
<1>1. IsSeq(rest) /\ x \in Stream /\ LibMutex \notin Stream
  BY PlaceIs, PlanUses, NamesAssumption
<1>2. /\ p.ph = "on" => q = rest
      /\ p.ph = "lock" => q = a
      /\ p.ph = "lib" => q = d
      /\ p.ph = "make" => q = c
      /\ p.ph = "drop" => q = b
      /\ p.ph = "take" => q = e
  BY DEF Left
<1> HIDE DEF rest, x, q
<1>3. IsSeq(a) /\ UsesOf(a) = {x} \cup UsesOf(rest) /\ ClearsOf(a) = ClearsOf(rest)
  BY <1>1, OneMore
<1>4. IsSeq(e) /\ UsesOf(e) = {p.m} \cup UsesOf(rest) /\ ClearsOf(e) = ClearsOf(rest)
  BY <1>1, OneMore
<1>5. a # <<>> /\ Head(a) = <<"lock", x>> /\ Tail(a) = rest /\ \A s : Has(rest, s) => Has(a, s)
  BY <1>1, ThenIs, ThenHas
<1>6. e # <<>> /\ Head(e) = <<"take", p.m>> /\ Tail(e) = rest /\ \A s : Has(rest, s) => Has(e, s)
  BY <1>1, ThenIs, ThenHas
<1> HIDE DEF a, e
<1>7. IsSeq(b) /\ UsesOf(b) = {LibMutex} \cup UsesOf(a) /\ ClearsOf(b) = ClearsOf(a)
  BY <1>3, OneMore
<1>8. b # <<>> /\ Head(b) = <<"drop", LibMutex>> /\ Tail(b) = a /\ \A s : Has(a, s) => Has(b, s)
  BY <1>3, ThenIs, ThenHas
<1> HIDE DEF b
<1>9. IsSeq(c) /\ UsesOf(c) = {x} \cup UsesOf(b) /\ ClearsOf(c) = ClearsOf(b)
  BY <1>7, OneMore
<1>10. c # <<>> /\ Head(c) = <<"make", x>> /\ Tail(c) = b /\ \A s : Has(b, s) => Has(c, s)
  BY <1>7, ThenIs, ThenHas
<1> HIDE DEF c
<1>11. IsSeq(d) /\ UsesOf(d) = {LibMutex} \cup UsesOf(c) /\ ClearsOf(d) = ClearsOf(c)
  BY <1>9, OneMore
<1>12. d # <<>> /\ Head(d) = <<"take", LibMutex>> /\ Tail(d) = c /\ \A s : Has(c, s) => Has(d, s)
  BY <1>9, ThenIs, ThenHas
<1> HIDE DEF d
<1>13. p.ph \in Phase
  BY PlaceIs
<1>14. IsSeq(q) /\ ClearsOf(q) = ClearsOf(rest) /\ \A s : Has(rest, s) => Has(q, s)
  BY <1>1, <1>2, <1>3, <1>4, <1>5, <1>6, <1>7, <1>8, <1>9, <1>10, <1>11, <1>12, <1>13 DEF Phase
<1>15. /\ p.ph = "on" => q = rest
       /\ p.ph # "on" => q # <<>>
       /\ p.ph = "lock" => Head(q) = <<"lock", x>> /\ Tail(q) = rest
       /\ p.ph = "lib" => Head(q) = <<"take", LibMutex>> /\ Tail(q) = c
       /\ p.ph = "make" => Head(q) = <<"make", x>> /\ Tail(q) = b
       /\ p.ph = "drop" => Head(q) = <<"drop", LibMutex>> /\ Tail(q) = a
       /\ p.ph = "take" => Head(q) = <<"take", p.m>> /\ Tail(q) = rest
  BY <1>2, <1>5, <1>6, <1>8, <1>10, <1>12, <1>13 DEF Phase
<1>16. /\ p.ph = "on" => UsesOf(q) = UsesOf(rest)
       /\ p.ph = "lock" => UsesOf(q) \cap Stream = ({x} \cup UsesOf(rest)) \cap Stream
       /\ p.ph = "take" => UsesOf(q) = {p.m} \cup UsesOf(rest)
  BY <1>2, <1>3, <1>4
<1>17. p.ph \in {"lib", "make", "drop"} => UsesOf(q) \cap Stream = ({x} \cup UsesOf(rest)) \cap Stream
  <2>1. UsesOf(b) \cap Stream = ({x} \cup UsesOf(rest)) \cap Stream
    BY <1>1, <1>3, <1>7
  <2>2. UsesOf(c) \cap Stream = ({x} \cup UsesOf(rest)) \cap Stream
    BY <1>1, <1>9, <2>1
  <2>3. UsesOf(d) \cap Stream = ({x} \cup UsesOf(rest)) \cap Stream
    BY <1>1, <1>11, <2>2
  <2> QED BY <1>2, <2>1, <2>2, <2>3
<1> QED
  BY <1>1, <1>14, <1>15, <1>16, <1>17 DEF rest, x, q, a, b, c

LEMMA Names2 ==
  /\ None \notin Stream /\ None \notin Mutex /\ None \notin Thread /\ Stream \subseteq Mutex /\ Spare \subseteq Mutex
  /\ PoolMutex \in Mutex /\ LibMutex \in Mutex /\ PoolMutex \notin Stream \cup Spare /\ LibMutex \notin Stream \cup Spare
  /\ PoolMutex # LibMutex /\ Spare \cap Stream = {} /\ Pool \subseteq Heap /\ Heap \subseteq Stream /\ Std \subseteq Stream
  /\ Std \cap Heap = {} /\ Pool \subseteq Stream
<1>1. PoolMutex # LibMutex
  BY DEF PoolMutex, LibMutex
<1>2. Pool \subseteq Heap
  BY NamesAssumption DEF Pool, ToSet
<1> QED BY <1>1, <1>2, NamesAssumption DEF Mutex, Stream

LEMMA UsingIs == \A t : \A x \in Stream : Using(t, x) <=> x \in UsesOf(todo[t])
  BY DEF Using, UsesOf, NamesOf

LEMMA UsesAt ==
  ASSUME NEW t, NEW p \in Place, At(t, p)
  PROVE  \A x \in Stream : Using(t, x) <=>
           \/ x = p.f /\ (p.l # "idle" \/ p.ph \in {"lock", "lib", "make", "drop"})
           \/ x = p.g /\ p.l \in Two
           \/ x = p.m /\ p.ph = "take"
<1>1. todo[t] = Left(p) /\ (p.ph # "on" => p.l \in Entry)
  BY DEF At
<1>2. /\ p.ph \in Phase /\ p.l \in Label /\ p.f \in Stream /\ p.g \in Stream /\ p.n \in Nat
      /\ Asked(p) = IF p.l \in {"st3", "n8", "p3"} THEN p.g ELSE p.f
  BY PlaceIs DEF Asked
<1> DEFINE rest == Plan(p.l, p.f, p.g, p.n)
<1>3. \A x \in Stream : x \in UsesOf(rest) <=> (x = p.f /\ p.l # "idle") \/ (x = p.g /\ p.l \in Two)
  BY <1>2, PlanUses
<1> HIDE DEF rest
<1>4. TAKE x \in Stream
<1>5. Using(t, x) <=> x \in UsesOf(Left(p))
  BY <1>1, <1>4, UsingIs
<1>6. /\ p.ph = "on" => UsesOf(Left(p)) = UsesOf(rest)
      /\ p.ph \in {"lock", "lib", "make", "drop"} => UsesOf(Left(p)) \cap Stream = ({Asked(p)} \cup UsesOf(rest)) \cap Stream
      /\ p.ph = "take" => UsesOf(Left(p)) = {p.m} \cup UsesOf(rest)
  BY LeftIs DEF rest
<1>7. CASE p.ph = "on"
  BY <1>3, <1>5, <1>6, <1>7
<1>8. CASE p.ph \in {"lock", "lib", "make", "drop"}
  <2>1. Using(t, x) <=> x = Asked(p) \/ x \in UsesOf(rest)
    BY <1>5, <1>6, <1>8
  <2> QED BY <1>2, <1>3, <1>8, <2>1 DEF Two
<1>9. CASE p.ph = "take"
  BY <1>3, <1>5, <1>6, <1>9
<1> QED BY <1>2, <1>7, <1>8, <1>9 DEF Phase

LEMMA OwnIs ==
  ASSUME TypeInv
  PROVE  /\ \A t \in Thread : \A m \in Mutex \cup {None} : Own(t, m) \in Nat /\ (Own(t, m) > 0 <=> m # None /\ holder[m] = t)
         /\ \A t, u \in Thread : \A m \in Mutex \cup {None} : Own(t, m) > 0 /\ Own(u, m) > 0 => t = u
         /\ \A x \in Stream : mtx[x] \in Mutex \cup {None}
         /\ \A t \in Thread : \A x \in Stream : held[t][x] \in Nat
<1>1. \A m \in Mutex : depth[m] \in Nat /\ (holder[m] = None <=> depth[m] = 0)
  BY DEF TypeInv
<1>2. None \notin Thread /\ None \notin Mutex
  BY Names2
<1>3. \A t \in Thread : \A m \in Mutex \cup {None} : Own(t, m) \in Nat /\ (Own(t, m) > 0 <=> m # None /\ holder[m] = t)
  BY <1>1, <1>2 DEF Own
<1> QED BY <1>3 DEF TypeInv

\* Whose locks the call has.
LEMMA OwnsAt ==
  ASSUME TypeInv, NEW t \in Thread, NEW p \in Place, At(t, p), LocksAt(t, p)
  PROVE  /\ p.ph = "on" /\ p.l \notin {"idle", "u0", "k2"} => Own(t, mtx[p.f]) > 0
         /\ p.l \in {"j2", "n1", "st3", "n8", "p3"} => Own(t, mtx[p.f]) > 0
         /\ p.ph = "on" /\ CountG(p.l) = 1 => Own(t, mtx[p.g]) > 0
         /\ p.ph # "on" /\ p.l = "idle" => held[t][p.f] > 0
         /\ \A x \in Stream \ {p.f, p.g} : held[t][x] = Own(t, mtx[x])
<1>1. \A x \in Stream : held[t][x] \in Nat /\ Own(t, mtx[x]) \in Nat /\ held[t][x] + Count(p, x) = Own(t, mtx[x])
  BY OwnIs DEF LocksAt
<1>2. p.f \in Stream /\ p.g \in Stream
  BY PlaceIs
<1>3. CountF(p.l) \in 0 .. 2 /\ CountG(p.l) \in 0 .. 1
  BY DEF CountF, CountG
<1>4. p.ph = "on" /\ p.l \notin {"idle", "u0", "k2"} => Own(t, mtx[p.f]) > 0
  <2>1. CountF(p.l) >= 1 \/ p.l \in {"idle", "u0", "k2"}
    BY DEF CountF
  <2>2. p.ph = "on" => Count(p, p.f) >= CountF(p.l) /\ Count(p, p.f) \in Int
    BY <1>3 DEF Count
  <2> QED BY <1>1, <1>2, <1>3, <2>1, <2>2
<1>5. p.l \in {"j2", "n1", "st3", "n8", "p3"} => Own(t, mtx[p.f]) > 0
  <2>1. p.l \in {"j2", "n1"} => CountF(p.l) = 2
    BY DEF CountF
  <2>2. p.l \in {"st3", "n8", "p3"} => p.f # p.g /\ Asked(p) = p.g /\ CountF(p.l) = 1
    BY DEF At, Two, Asked, CountF
  <2>3. p.l \in {"j2", "n1", "st3", "n8", "p3"} => Count(p, p.f) >= 1 /\ Count(p, p.f) \in Int
    BY <1>3, <2>1, <2>2 DEF Count
  <2> QED BY <1>1, <1>2, <2>3
<1>6. p.ph = "on" /\ CountG(p.l) = 1 => Own(t, mtx[p.g]) > 0
  <2>1. p.ph = "on" /\ CountG(p.l) = 1 => Count(p, p.g) >= 1 /\ Count(p, p.g) \in Int
    BY <1>3 DEF Count
  <2> QED BY <1>1, <1>2, <2>1
<1>7. p.ph # "on" /\ p.l = "idle" => held[t][p.f] > 0
  <2>1. p.l = "idle" => CountF(p.l) = 0 /\ CountG(p.l) = 0 /\ Asked(p) = p.f
    BY DEF CountF, CountG, Asked
  <2>2. p.ph # "on" /\ p.l = "idle" => Count(p, p.f) = -1
    BY <2>1 DEF Count
  <2> QED BY <1>1, <1>2, <2>2
<1>8. \A x \in Stream \ {p.f, p.g} : held[t][x] = Own(t, mtx[x])
  <2>1. \A x \in Stream \ {p.f, p.g} : Count(p, x) = 0
    BY DEF Count, Asked
  <2> QED BY <1>1, <2>1
<1> QED BY <1>4, <1>5, <1>6, <1>7, <1>8

\* Which streams a thread is engaged with.
LEMMA EngagedAt ==
  ASSUME TypeInv, MutexInv, NEW t \in Thread, NEW p \in Place, At(t, p), LocksAt(t, p), MutexAt(t, p)
  PROVE  /\ p.l # "idle" \/ p.ph # "on" => Engaged(t, p.f)
         /\ p.l \in Two => Engaged(t, p.g)
         /\ \A x \in Stream : Engaged(t, x) =>
              (x = p.f /\ (p.l # "idle" \/ p.ph # "on")) \/ (x = p.g /\ p.l \in Two) \/ held[t][x] > 0
<1>1. \A x \in Stream : Using(t, x) <=>
           \/ x = p.f /\ (p.l # "idle" \/ p.ph \in {"lock", "lib", "make", "drop"})
           \/ x = p.g /\ p.l \in Two
           \/ x = p.m /\ p.ph = "take"
  BY UsesAt
<1>2. p.f \in Stream /\ p.g \in Stream /\ Asked(p) \in Stream /\ Asked(p) = IF p.l \in {"st3", "n8", "p3"} THEN p.g ELSE p.f
  BY PlaceIs DEF Asked
<1>3. p.ph = "take" => p.m \in {Asked(p)} \cup Spare
  BY <1>2 DEF MutexAt, MutexInv
<1>4. \A x \in Stream : x = p.m /\ p.ph = "take" => x = Asked(p)
  BY <1>3, Names2
<1>5. p.l # "idle" \/ p.ph # "on" => Engaged(t, p.f)
  BY <1>1, <1>2, OwnsAt DEF Engaged
<1>6. p.l \in Two => Engaged(t, p.g)
  BY <1>1, <1>2 DEF Engaged
<1>7. \A x \in Stream : Engaged(t, x) =>
        (x = p.f /\ (p.l # "idle" \/ p.ph # "on")) \/ (x = p.g /\ p.l \in Two) \/ held[t][x] > 0
  <2>1. p.l \in {"st3", "n8", "p3"} => p.l \in Two
    BY DEF Two
  <2> QED BY <1>1, <1>2, <1>4, <2>1 DEF Engaged
<1> QED BY <1>5, <1>6, <1>7

\* The step a thread is to take.
LEMMA DoingAt ==
  ASSUME NEW t, NEW p \in Place, At(t, p), NEW op, Doing(t, op)
  PROVE  \/ /\ p.ph = "on" /\ p.l # "idle" /\ OpOf(p.l) = op
            /\ Head(todo[t]) = Head(Plan(p.l, p.f, p.g, p.n)) /\ Tail(todo[t]) = Tail(Plan(p.l, p.f, p.g, p.n))
         \/ p.ph = "lock" /\ op = "lock"
         \/ p.ph \in {"lib", "take"} /\ op = "take"
         \/ p.ph = "make" /\ op = "make"
         \/ p.ph = "drop" /\ op = "drop"
<1>1. todo[t] = Left(p) /\ todo[t] # <<>> /\ Head(todo[t])[1] = op
  BY DEF At, Doing, Idle
<1>2. p.ph \in Phase /\ p.l \in Label /\ p.f \in Stream /\ p.g \in Stream /\ p.n \in Nat
  BY PlaceIs
<1>3. CASE p.ph = "on"
  <2>1. todo[t] = Plan(p.l, p.f, p.g, p.n)
    BY <1>1, <1>3, LeftIs
  <2>2. p.l # "idle"
    BY <1>1, <2>1 DEF Plan
  <2>3. Head(Plan(p.l, p.f, p.g, p.n))[1] = OpOf(p.l)
    BY <1>2, <2>2, HeadOps
  <2> QED BY <1>1, <1>3, <2>1, <2>2, <2>3
<1>4. CASE p.ph = "lock"
  <2>1. Head(Left(p)) = <<"lock", Asked(p)>>
    BY <1>4, LeftIs
  <2>2. op = "lock"
    BY <1>1, <2>1
  <2> QED BY <1>4, <2>2
<1>5. CASE p.ph = "lib"
  <2>1. Head(Left(p)) = <<"take", LibMutex>>
    BY <1>5, LeftIs
  <2>2. op = "take"
    BY <1>1, <2>1
  <2> QED BY <1>5, <2>2
<1>6. CASE p.ph = "make"
  <2>1. Head(Left(p)) = <<"make", Asked(p)>>
    BY <1>6, LeftIs
  <2>2. op = "make"
    BY <1>1, <2>1
  <2> QED BY <1>6, <2>2
<1>7. CASE p.ph = "drop"
  <2>1. Head(Left(p)) = <<"drop", LibMutex>>
    BY <1>7, LeftIs
  <2>2. op = "drop"
    BY <1>1, <2>1
  <2> QED BY <1>7, <2>2
<1>8. CASE p.ph = "take"
  <2>1. Head(Left(p)) = <<"take", p.m>>
    BY <1>8, LeftIs
  <2>2. op = "take"
    BY <1>1, <2>1
  <2> QED BY <1>8, <2>2
<1> QED BY <1>2, <1>3, <1>4, <1>5, <1>6, <1>7, <1>8 DEF Phase

LEMMA IdleAt ==
  ASSUME NEW t, NEW p \in Place, At(t, p)
  PROVE  Idle(t) <=> p.ph = "on" /\ p.l = "idle"
<1>1. todo[t] = Left(p) /\ p.ph \in Phase /\ p.l \in Label /\ p.f \in Stream /\ p.g \in Stream /\ p.n \in Nat
  BY PlaceIs DEF At
<1>2. p.ph # "on" => todo[t] # <<>>
  BY <1>1, LeftIs
<1>3. p.ph = "on" => todo[t] = Plan(p.l, p.f, p.g, p.n)
  BY <1>1, LeftIs
<1>4. p.l # "idle" => Plan(p.l, p.f, p.g, p.n) # <<>>
  BY <1>1, HeadOps
<1>5. p.l = "idle" => Plan(p.l, p.f, p.g, p.n) = <<>>
  BY DEF Plan
<1> QED BY <1>2, <1>3, <1>4, <1>5 DEF Idle

----------------------------------------------------------------------------
(* A step of one thread and the others.                                    *)

\* Only the mutexes that t has, or nobody, change hands.
Mine(t) ==
  \A m \in Mutex : \/ holder'[m] = holder[m] /\ depth'[m] = depth[m]
                   \/ holder[m] \in {None, t} /\ holder'[m] \in {None, t}
Only(t) == DOMAIN todo' = Thread /\ \A u \in Thread \ {t} : todo'[u] = todo[u] /\ held'[u] = held[u]

\* A place promises its thread that others keep off a stream.
Claims(q, x) ==
  \/ q.l \in Nested \cup {"cl2", "cl3", "k1", "k2"} /\ q.f \notin Std /\ x = q.f
  \/ q.l \in Nested \cup {"st2", "st3", "st4", "st5", "st6", "st7"} /\ x = q.g
Welcome(t, x) == \A u \in Thread \ {t} : \A q \in Place : Facts(u, q) => ~Claims(q, x)
Modest(t) == \A x \in Stream : Engaged(t, x)' => (Engaged(t, x) /\ ~Leaves(t, x)) \/ Welcome(t, x)

LEMMA OthersOwn ==
  ASSUME TypeInv, NEW t \in Thread, Mine(t), NEW u \in Thread \ {t}, NEW m \in Mutex \cup {None}
  PROVE  Own(u, m)' = Own(u, m)
  BY Names2 DEF Mine, Own

LEMMA OthersOwnAll ==
  ASSUME TypeInv, NEW t \in Thread, Mine(t), mtx' = mtx, NEW u \in Thread \ {t}, NEW x \in Stream
  PROVE  Own(u, mtx[x])' = Own(u, mtx[x])
<1>1. PICK m \in Mutex \cup {None} : m = mtx[x]
  BY OwnIs
<1>2. Own(u, m)' = Own(u, m)
  BY OthersOwn
<1> QED BY <1>1, <1>2 DEF Own

LEMMA OthersEngaged ==
  ASSUME NEW t \in Thread, Only(t), NEW u \in Thread \ {t}, NEW x \in Stream
  PROVE  Engaged(u, x)' <=> Engaged(u, x)
  BY DEF Only, Engaged, Using

LEMMA OthersLeave ==
  ASSUME TypeInv, NEW t \in Thread, Only(t), Mine(t), mtx' = mtx, NEW u \in Thread \ {t}, NEW x \in Stream, Leaves(u, x)
  PROVE  Leaves(u, x)'
<1>1. Own(u, mtx[x])' = Own(u, mtx[x])
  BY OthersOwnAll
<1> QED BY <1>1 DEF Leaves, Only

LEMMA OthersPlain ==
  ASSUME NEW t \in Thread, Only(t), NEW u \in Thread \ {t}, NEW q \in Place, At(u, q), HeldAt(u, q), RankAt(q)
  PROVE  At(u, q)' /\ HeldAt(u, q)' /\ RankAt(q)'
  BY DEF Only, At, HeldAt, RankAt

LEMMA OthersAlone ==
  ASSUME NEW t \in Thread, Only(t), Modest(t), NEW u \in Thread \ {t}, NEW q \in Place, Facts(u, q),
         \A v \in Thread \ {t} : \A x \in Stream : Leaves(v, x) => Leaves(v, x)'
  PROVE  AloneAt(u, q)'
<1>1. q.f \in Stream /\ q.g \in Stream
  BY PlaceIs
<1> SUFFICES ASSUME NEW v \in Thread \ {u}
             PROVE  /\ q.l \in Nested \cup {"cl2", "cl3", "k1", "k2"} /\ q.f \notin Std => ~Engaged(v, q.f)'
                    /\ q.l \in Nested => (Engaged(v, q.g)' => Leaves(v, q.g)')
                    /\ q.l \in {"st2", "st3", "st4", "st5", "st6", "st7"} => ~Engaged(v, q.g)'
  BY DEF AloneAt
<1>2. /\ q.l \in Nested \cup {"cl2", "cl3", "k1", "k2"} /\ q.f \notin Std => ~Engaged(v, q.f)
      /\ q.l \in Nested => (Engaged(v, q.g) => Leaves(v, q.g))
      /\ q.l \in {"st2", "st3", "st4", "st5", "st6", "st7"} => ~Engaged(v, q.g)
  BY DEF Facts, AloneAt
<1>3. CASE v = t
  <2>1. \A x \in Stream : Claims(q, x) => (Engaged(t, x)' => Engaged(t, x) /\ ~Leaves(t, x))
    BY DEF Modest, Welcome
  <2> QED BY <1>1, <1>2, <1>3, <2>1 DEF Claims
<1>4. CASE v # t
  <2>1. \A x \in Stream : Engaged(v, x)' <=> Engaged(v, x)
    BY <1>4, OthersEngaged
  <2>2. \A x \in Stream : Leaves(v, x) => Leaves(v, x)'
    BY <1>4
  <2> QED BY <1>1, <1>2, <2>1, <2>2
<1> QED BY <1>3, <1>4

LEMMA OthersLocks ==
  ASSUME TypeInv, NEW t \in Thread, Only(t), Mine(t), mtx' = mtx, NEW u \in Thread \ {t}, NEW q \in Place,
         LocksAt(u, q), MutexAt(u, q)
  PROVE  LocksAt(u, q)' /\ MutexAt(u, q)'
<1>2. \A x \in Stream : Own(u, mtx[x])' = Own(u, mtx[x])
  BY OthersOwnAll
<1>3. Own(u, LibMutex)' = Own(u, LibMutex) /\ Own(u, PoolMutex)' = Own(u, PoolMutex)
  BY OthersOwn, Names2
<1>4. held'[u] = held[u]
  BY DEF Only
<1>5. LocksAt(u, q)'
  BY <1>2, <1>3, <1>4 DEF LocksAt, Count, Asked
<1> QED BY <1>5 DEF MutexAt, Asked

LEMMA OthersPush ==
  ASSUME push' = push, NEW q \in Place, PushAt(q)
  PROVE  PushAt(q)'
  BY DEF PushAt, Pushed

LEMMA OthersPool ==
  ASSUME order' = order, NEW u \in Thread, NEW q \in Place, PoolAt(u, q)
  PROVE  PoolAt(u, q)'
  BY DEF PoolAt, MayPool

LEMMA OthersTouch ==
  ASSUME NEW t \in Thread, NEW u \in Thread \ {t}, NEW q \in Place, TouchAt(u, q),
         \A x \in Stream : touch'[x] \ {t} = touch[x] \ {t}
  PROVE  TouchAt(u, q)'
<1>1. \A x \in Stream : u \in touch'[x] <=> u \in touch[x]
  OBVIOUS
<1> QED BY <1>1 DEF TouchAt

Tame == \A x \in Stream : mode'[x] = mode[x] \/ (Open0(x)' /\ mode[x] # {"avail", "lock"})

LEMMA OthersMode ==
  ASSUME Tame, NEW q \in Place, ModeAt(q)
  PROVE  ModeAt(q)'
<1>1. q.f \in Stream /\ q.g \in Stream
  BY PlaceIs
<1>2. \A x \in Stream : (Open0(x) => Open0(x)') /\ (mode[x] = {"avail", "lock"} => mode'[x] = {"avail", "lock"})
  BY DEF Tame, Open0
<1> QED BY <1>1, <1>2 DEF ModeAt

\* A step that gives no stream another mutex, place on a stack or in the pool.
LEMMA OthersStay ==
  ASSUME TypeInv, NEW t \in Thread, Only(t), Mine(t), Modest(t), mtx' = mtx, push' = push,
         NEW u \in Thread \ {t}, NEW q \in Place, Facts(u, q),
         \A x \in Stream : touch'[x] \ {t} = touch[x] \ {t}, ModeAt(q)', PoolAt(u, q)'
  PROVE  Facts(u, q)'
<1>1. At(u, q)' /\ HeldAt(u, q)' /\ RankAt(q)'
  BY OthersPlain DEF Facts
<1>2. LocksAt(u, q)' /\ MutexAt(u, q)'
  BY OthersLocks DEF Facts
<1>3. PushAt(q)'
  BY OthersPush DEF Facts
<1>4. TouchAt(u, q)'
  BY OthersTouch DEF Facts
<1>5. AloneAt(u, q)'
  <2>1. \A v \in Thread \ {t} : \A x \in Stream : Leaves(v, x) => Leaves(v, x)'
    BY OthersLeave
  <2> QED BY <2>1, OthersAlone
<1> QED BY <1>1, <1>2, <1>3, <1>4, <1>5 DEF Facts

----------------------------------------------------------------------------
(* What a call that fails gives back.                                      *)

Gives(s) == s[1] \in {"unlock", "drop"}
\* q is what s gives back, each from its place in s.
Sel(s, q) ==
  \E at \in [1 .. Len(q) -> DOMAIN s] :
    /\ \A m, n \in 1 .. Len(q) : m < n => at[m] < at[n]
    /\ \A i \in DOMAIN s : Gives(s[i]) <=> \E n \in 1 .. Len(q) : at[n] = i
    /\ \A n \in 1 .. Len(q) : q[n] = s[at[n]]

LEMMA SelEmpty == Sel(<<>>, <<>>)
<1> DEFINE at == [n \in 1 .. 0 |-> 0]
<1>1. Len(<<>>) = 0 /\ DOMAIN <<>> = {} /\ 1 .. 0 = {}
  BY EmptyIs
<1>2. at \in [1 .. Len(<<>>) -> DOMAIN <<>>]
  BY <1>1
<1> HIDE DEF at
<1> QED BY <1>1, <1>2 DEF Sel

LEMMA SelKeep ==
  ASSUME NEW s, NEW r, NEW q, IsSeq(r), IsSeq(q), Gives(s), Sel(r, q)
  PROVE  Sel(Then(s, r), Then(s, q))
<1> DEFINE a == Then(s, r)  b == Then(s, q)  k == Len(q)  l == Len(r)
<1>1. /\ l \in Nat /\ DOMAIN r = 1 .. l /\ DOMAIN a = 1 .. l + 1 /\ a[1] = s /\ \A i \in 1 .. l : a[i + 1] = r[i]
      /\ k \in Nat /\ Len(b) = k + 1 /\ b[1] = s /\ \A i \in 1 .. k : b[i + 1] = q[i]
  BY ThenIs
<1>2. PICK at \in [1 .. k -> 1 .. l] :
        /\ \A m, n \in 1 .. k : m < n => at[m] < at[n]
        /\ \A i \in 1 .. l : Gives(r[i]) <=> \E n \in 1 .. k : at[n] = i
        /\ \A n \in 1 .. k : q[n] = r[at[n]]
  <2>1. DOMAIN r = 1 .. l
    BY <1>1
  <2> HIDE DEF l
  <2> QED BY <2>1, Zenon DEF Sel
<1> HIDE DEF a, b, k, l
<1> DEFINE bt == [n \in 1 .. k + 1 |-> IF n = 1 THEN 1 ELSE at[n - 1] + 1]
<1>3. bt \in [1 .. k + 1 -> 1 .. l + 1] /\ bt[1] = 1 /\ \A n \in 1 .. k : bt[n + 1] = at[n] + 1
  BY <1>1, <1>2
<1> HIDE DEF bt
<1>4. \A m, n \in 1 .. k + 1 : m < n => bt[m] < bt[n]
  <2> SUFFICES ASSUME NEW m \in 1 .. k + 1, NEW n \in 1 .. k + 1, m < n PROVE bt[m] < bt[n]
    OBVIOUS
  <2>1. n - 1 \in 1 .. k /\ bt[n] = at[n - 1] + 1 /\ at[n - 1] \in 1 .. l
    BY <1>1, <1>2, <1>3
  <2>2. CASE m = 1
    BY <1>1, <1>3, <2>1, <2>2
  <2>3. CASE m # 1
    <3>1. m - 1 \in 1 .. k /\ m - 1 < n - 1 /\ (m - 1) + 1 = m
      BY <1>1, <2>3
    <3>2. bt[m] = at[m - 1] + 1 /\ at[m - 1] \in 1 .. l
      BY <1>2, <1>3, <3>1
    <3>3. at[m - 1] < at[n - 1]
      BY <1>2, <2>1, <3>1
    <3> QED BY <1>1, <2>1, <3>2, <3>3
  <2> QED BY <2>2, <2>3
<1>5. \A i \in 1 .. l + 1 : Gives(a[i]) <=> \E n \in 1 .. k + 1 : bt[n] = i
  <2> SUFFICES ASSUME NEW i \in 1 .. l + 1 PROVE Gives(a[i]) <=> \E n \in 1 .. k + 1 : bt[n] = i
    OBVIOUS
  <2>1. CASE i = 1
    BY <1>1, <1>3, <2>1
  <2>2. CASE i # 1
    <3>1. i - 1 \in 1 .. l /\ a[i] = r[i - 1]
      BY <1>1, <2>2
    <3>2. (\E n \in 1 .. k + 1 : bt[n] = i) <=> \E n \in 1 .. k : at[n] = i - 1
      <4>1. \A n \in 1 .. k : n + 1 \in 1 .. k + 1 /\ bt[n + 1] = at[n] + 1 /\ at[n] \in 1 .. l
        BY <1>1, <1>2, <1>3
      <4>2. \A n \in 1 .. k + 1 : n = 1 \/ n - 1 \in 1 .. k
        BY <1>1
      <4>3. ASSUME NEW n \in 1 .. k + 1, bt[n] = i PROVE n - 1 \in 1 .. k /\ at[n - 1] = i - 1
        <5>1. n # 1
          BY <1>3, <2>2, <4>3
        <5>2. n - 1 \in 1 .. k /\ (n - 1) + 1 = n
          BY <1>1, <5>1
        <5>3. bt[n] = at[n - 1] + 1 /\ at[n - 1] \in 1 .. l
          BY <4>1, <5>2
        <5> QED BY <1>1, <4>3, <5>2, <5>3
      <4> QED BY <3>1, <4>1, <4>3
    <3> QED BY <1>2, <3>1, <3>2
  <2> QED BY <2>1, <2>2
<1>6. \A n \in 1 .. k + 1 : b[n] = a[bt[n]]
  <2> SUFFICES ASSUME NEW n \in 1 .. k + 1 PROVE b[n] = a[bt[n]]
    OBVIOUS
  <2>1. CASE n = 1
    BY <1>1, <1>3, <2>1
  <2>2. CASE n # 1
    <3>1. n - 1 \in 1 .. k /\ b[n] = q[n - 1] /\ bt[n] = at[n - 1] + 1 /\ at[n - 1] \in 1 .. l
      BY <1>1, <1>2, <1>3, <2>2
    <3> QED BY <1>1, <1>2, <3>1
  <2> QED BY <2>1, <2>2
<1>7. Sel(a, b)
  <2>1. 1 .. Len(b) = 1 .. k + 1 /\ DOMAIN a = 1 .. l + 1
    BY <1>1
  <2>2. bt \in [1 .. Len(b) -> DOMAIN a]
    BY <1>3, <2>1
  <2>3. \A m, n \in 1 .. Len(b) : m < n => bt[m] < bt[n]
    BY <1>4, <2>1
  <2>4. \A i \in DOMAIN a : Gives(a[i]) <=> \E n \in 1 .. Len(b) : bt[n] = i
    BY <1>5, <2>1
  <2>5. \A n \in 1 .. Len(b) : b[n] = a[bt[n]]
    BY <1>6, <2>1
  <2> QED BY <2>2, <2>3, <2>4, <2>5 DEF Sel
<1> QED BY <1>7 DEF a, b

LEMMA SelSkip ==
  ASSUME NEW s, NEW r, NEW q, IsSeq(r), IsSeq(q), ~Gives(s), Sel(r, q)
  PROVE  Sel(Then(s, r), q)
<1> DEFINE a == Then(s, r)  k == Len(q)  l == Len(r)
<1>1. /\ l \in Nat /\ DOMAIN r = 1 .. l /\ DOMAIN a = 1 .. l + 1 /\ a[1] = s /\ \A i \in 1 .. l : a[i + 1] = r[i]
      /\ k \in Nat
  BY ThenIs
<1>2. PICK at \in [1 .. k -> 1 .. l] :
        /\ \A m, n \in 1 .. k : m < n => at[m] < at[n]
        /\ \A i \in 1 .. l : Gives(r[i]) <=> \E n \in 1 .. k : at[n] = i
        /\ \A n \in 1 .. k : q[n] = r[at[n]]
  <2>1. DOMAIN r = 1 .. l
    BY <1>1
  <2> HIDE DEF l
  <2> QED BY <2>1, Zenon DEF Sel
<1> HIDE DEF a, k, l
<1> DEFINE bt == [n \in 1 .. k |-> at[n] + 1]
<1>3. bt \in [1 .. k -> 1 .. l + 1] /\ \A n \in 1 .. k : bt[n] = at[n] + 1 /\ at[n] \in 1 .. l
  BY <1>1, <1>2
<1> HIDE DEF bt
<1>4. \A m, n \in 1 .. k : m < n => bt[m] < bt[n]
  BY <1>1, <1>2, <1>3
<1>5. \A i \in 1 .. l + 1 : Gives(a[i]) <=> \E n \in 1 .. k : bt[n] = i
  <2> SUFFICES ASSUME NEW i \in 1 .. l + 1 PROVE Gives(a[i]) <=> \E n \in 1 .. k : bt[n] = i
    OBVIOUS
  <2>1. CASE i = 1
    BY <1>1, <1>3, <2>1
  <2>2. CASE i # 1
    <3>1. i - 1 \in 1 .. l /\ a[i] = r[i - 1]
      BY <1>1, <2>2
    <3>2. ASSUME NEW n \in 1 .. k PROVE bt[n] = i <=> at[n] = i - 1
      <4>1. bt[n] = at[n] + 1 /\ at[n] \in 1 .. l
        BY <1>3
      <4>2. at[n] \in Int /\ i \in Int
        BY <1>1, <4>1
      <4> QED BY <4>1, <4>2
    <3> QED BY <1>2, <3>1, <3>2
  <2> QED BY <2>1, <2>2
<1>6. \A n \in 1 .. k : q[n] = a[bt[n]]
  BY <1>1, <1>2, <1>3
<1>7. Sel(a, q)
  <2>1. DOMAIN a = 1 .. l + 1
    BY <1>1
  <2> USE DEF k
  <2> QED BY <1>3, <1>4, <1>5, <1>6, <2>1, Zenon DEF Sel
<1> QED BY <1>7 DEF a

LEMMA SelIs ==
  ASSUME NEW s, NEW q, IsSeq(s), IsSeq(q), Sel(s, q)
  PROVE  Releases(s) = q
<1> DEFINE back == {i \in DOMAIN s : s[i][1] \in {"unlock", "drop"}}
           Nth(n) == CHOOSE i \in back : Cardinality({j \in back : j <= i}) = n
           k == Len(q)  l == Len(s)
<1>1. k \in Nat /\ l \in Nat /\ DOMAIN s = 1 .. l /\ DOMAIN q = 1 .. k /\ q = [n \in 1 .. k |-> q[n]]
  <2>1. PICK S : q \in Seq(S)
    BY DEF IsSeq
  <2> QED BY <2>1, ThenIs
<1>2. PICK at \in [1 .. k -> 1 .. l] :
        /\ \A m, n \in 1 .. k : m < n => at[m] < at[n]
        /\ \A i \in 1 .. l : Gives(s[i]) <=> \E n \in 1 .. k : at[n] = i
        /\ \A n \in 1 .. k : q[n] = s[at[n]]
  <2>1. DOMAIN s = 1 .. l
    BY <1>1
  <2> HIDE DEF l
  <2> QED BY <2>1, Zenon DEF Sel
<1>3. \A i : i \in back <=> \E n \in 1 .. k : at[n] = i
  BY <1>1, <1>2 DEF Gives
<1> HIDE DEF back, k, l
<1>4. \A m, n \in 1 .. k : (at[m] = at[n] => m = n) /\ (at[m] <= at[n] <=> m <= n)
  BY <1>1, <1>2
<1>5. \A n \in 0 .. k : \A S : (\A i : i \in S <=> \E m \in 1 .. n : at[m] = i) => IsFiniteSet(S) /\ Cardinality(S) = n
  <2> SUFFICES ASSUME NEW n \in 0 .. k, NEW S, \A i : i \in S <=> \E m \in 1 .. n : at[m] = i
               PROVE  IsFiniteSet(S) /\ Cardinality(S) = n
    OBVIOUS
  <2> DEFINE f == [m \in 1 .. n |-> at[m]]
  <2>1. f \in Bijection(1 .. n, S)
    BY <1>1, <1>4 DEF Bijection, Injection, Surjection, IsInjective
  <2>2. IsFiniteSet(1 .. n) /\ Cardinality(1 .. n) = n
    BY <1>1, FS_Interval
  <2> QED BY <2>1, <2>2, FS_Bijection DEF ExistsBijection
<1>6. Cardinality(back) = k
  BY <1>1, <1>3, <1>5
<1>7. \A n \in 1 .. k : Cardinality({j \in back : j <= at[n]}) = n
  <2> SUFFICES ASSUME NEW n \in 1 .. k PROVE Cardinality({j \in back : j <= at[n]}) = n
    OBVIOUS
  <2>1. ASSUME NEW i PROVE i \in {j \in back : j <= at[n]} <=> \E m \in 1 .. n : at[m] = i
    <3>1. ASSUME i \in back, i <= at[n] PROVE \E m \in 1 .. n : at[m] = i
      <4>1. PICK m \in 1 .. k : at[m] = i
        BY <1>3, <3>1
      <4>2. m <= n
        BY <1>4, <3>1, <4>1
      <4> QED BY <1>1, <4>1, <4>2
    <3>2. ASSUME NEW m \in 1 .. n, at[m] = i PROVE i \in back /\ i <= at[n]
      <4>1. m \in 1 .. k /\ m <= n
        BY <1>1
      <4> QED BY <1>3, <1>4, <3>2, <4>1
    <3> QED BY <3>1, <3>2
  <2> DEFINE S == {j \in back : j <= at[n]}
  <2> HIDE DEF S
  <2>2. n \in 0 .. k /\ \A i : i \in S <=> \E m \in 1 .. n : at[m] = i
    BY <1>1, <2>1 DEF S
  <2>3. Cardinality(S) = n
    BY <1>5, <2>2
  <2> QED BY <2>3 DEF S
<1>8. \A n \in 1 .. k : Nth(n) = at[n]
  <2> SUFFICES ASSUME NEW n \in 1 .. k PROVE Nth(n) = at[n]
    OBVIOUS
  <2>1. at[n] \in back /\ Cardinality({j \in back : j <= at[n]}) = n
    BY <1>3, <1>7
  <2>2. \A i \in back : Cardinality({j \in back : j <= i}) = n => i = at[n]
    BY <1>3, <1>7
  <2> QED BY <2>1, <2>2
<1>9. Releases(s) = [n \in 1 .. Cardinality(back) |-> s[Nth(n)]]
  BY DEF Releases, back
<1>10. Releases(s) = [n \in 1 .. k |-> s[Nth(n)]]
  BY <1>6, <1>9
<1> HIDE DEF Nth
<1> QED BY <1>1, <1>2, <1>8, <1>10

\* What is given back by a call that fails, at each place where it can.
FailsAre(f, g) ==
  /\ Releases(Io3(f)) = UnlockF(f) /\ Releases(Pop3(f)) = UnlockF(f) /\ Releases(Cl3(f)) = UnlockF(f)
  /\ Releases(N2(f, g)) = Then(<<"unlock", f>>, UnlockFG(g, f)) /\ Releases(N9(f, g)) = UnlockFG(g, f)
  /\ Releases(St4(f, g)) = UnlockFG(f, g) /\ Releases(St5(f, g)) = UnlockFG(f, g)
  /\ Releases(UnlockF(f)) = UnlockF(f) /\ Releases(UnlockFG(f, g)) = UnlockFG(f, g)
  /\ Releases(Then(<<"unlock", f>>, N7(f, g))) = Then(<<"unlock", f>>, UnlockFG(g, f))
  /\ Releases(P8(f)) = Then(<<"drop", PoolMutex>>, UnlockF(f))

LEMMA Fails == \A f, g \in Stream : FailsAre(f, g)
<1> SUFFICES ASSUME NEW f \in Stream, NEW g \in Stream PROVE FailsAre(f, g)
  OBVIOUS
<1>a. ListsAre(f, g, 1)
  BY Lists
<1>b. /\ Gives(<<"unlock", f>>) /\ Gives(<<"unlock", g>>) /\ Gives(<<"drop", PoolMutex>>)
      /\ ~Gives(<<"enter", f>>) /\ ~Gives(<<"leave", f>>) /\ ~Gives(<<"pop", f>>) /\ ~Gives(<<"closing", f>>)
      /\ ~Gives(<<"closing", g>>) /\ ~Gives(<<"lock", g>>) /\ ~Gives(<<"check", g>>) /\ ~Gives(<<"stack", f, g>>)
  BY DEF Gives
<1>1. Sel(UnlockF(f), UnlockF(f)) /\ Sel(UnlockF(g), UnlockF(g)) /\ IsSeq(<<>>)
  BY <1>b, SelEmpty, SelKeep, EmptyIs DEF UnlockF
<1>2. IsSeq(UnlockF(f)) /\ IsSeq(UnlockF(g)) /\ IsSeq(UnlockFG(f, g)) /\ IsSeq(UnlockFG(g, f))
  BY <1>a DEF ListsAre
<1>3. Sel(UnlockFG(f, g), UnlockFG(f, g))
  BY <1>b, <1>1, <1>2, SelKeep DEF UnlockFG
<1>4. Sel(Io4(f), UnlockF(f)) /\ IsSeq(Io4(f)) /\ IsSeq(Io3(f))
  BY <1>a, <1>b, <1>1, <1>2, SelSkip DEF Io4, ListsAre
<1>5. Sel(Io3(f), UnlockF(f))
  BY <1>b, <1>2, <1>4, SelSkip DEF Io3
<1>6. Sel(Pop3(f), UnlockF(f)) /\ IsSeq(Pop3(f))
  BY <1>a, <1>b, <1>1, <1>2, SelSkip DEF Pop3, ListsAre
<1>7. Sel(Cl3(f), UnlockF(f)) /\ IsSeq(Cl3(f))
  BY <1>a, <1>b, <1>1, <1>2, SelSkip DEF Cl3, ListsAre
<1> DEFINE a == Then(<<"unlock", g>>, Cl3(f))
<1>8. Sel(a, UnlockFG(g, f)) /\ IsSeq(a)
  BY <1>a, <1>b, <1>2, <1>7, SelKeep DEF UnlockFG, ListsAre
<1> HIDE DEF a
<1>9. Sel(N9(f, g), UnlockFG(g, f)) /\ IsSeq(N9(f, g))
  <2>1. N9(f, g) = Then(<<"closing", g>>, a)
    BY DEF N9, a
  <2>2. IsSeq(N9(f, g))
    BY <1>a DEF ListsAre
  <2> QED BY <1>b, <1>2, <1>8, <2>1, <2>2, SelSkip
<1>10. Sel(N8(f, g), UnlockFG(g, f)) /\ IsSeq(N8(f, g))
  <2>1. IsSeq(N8(f, g))
    BY <1>a DEF ListsAre
  <2> QED BY <1>b, <1>2, <1>9, <2>1, SelSkip DEF N8
<1>11. Sel(N7(f, g), UnlockFG(g, f)) /\ IsSeq(N7(f, g))
  <2>1. IsSeq(N7(f, g))
    BY <1>a DEF ListsAre
  <2> QED BY <1>b, <1>2, <1>10, <2>1, SelSkip DEF N7
<1> DEFINE b == Then(<<"unlock", f>>, N7(f, g))  c == Then(<<"unlock", f>>, UnlockFG(g, f))
<1>12. Sel(b, c) /\ IsSeq(b) /\ IsSeq(c)
  BY <1>a, <1>b, <1>2, <1>11, SelKeep DEF ListsAre
<1> HIDE DEF b, c
<1>13. Sel(N2(f, g), c) /\ IsSeq(N2(f, g))
  <2>1. N2(f, g) = Then(<<"pop", f>>, b)
    BY DEF N2, b
  <2>2. IsSeq(N2(f, g))
    BY <1>a DEF ListsAre
  <2> QED BY <1>b, <1>12, <2>1, <2>2, SelSkip
<1>14. Sel(St5(f, g), UnlockFG(f, g)) /\ IsSeq(St5(f, g))
  <2>1. IsSeq(St5(f, g))
    BY <1>a DEF ListsAre
  <2> QED BY <1>b, <1>2, <1>3, <2>1, SelSkip DEF St5
<1>15. Sel(St4(f, g), UnlockFG(f, g)) /\ IsSeq(St4(f, g))
  <2>1. IsSeq(St4(f, g))
    BY <1>a DEF ListsAre
  <2> QED BY <1>b, <1>2, <1>14, <2>1, SelSkip DEF St4
<1> DEFINE d == Then(<<"drop", PoolMutex>>, UnlockF(f))
<1>16. Sel(P8(f), d) /\ IsSeq(P8(f)) /\ IsSeq(d)
  BY <1>a, <1>b, <1>2, <1>4, <1>5, SelKeep DEF P8, ListsAre
<1> HIDE DEF d
<1>17. /\ Releases(Io3(f)) = UnlockF(f) /\ Releases(Pop3(f)) = UnlockF(f) /\ Releases(Cl3(f)) = UnlockF(f)
       /\ Releases(UnlockF(f)) = UnlockF(f) /\ Releases(UnlockFG(f, g)) = UnlockFG(f, g)
  BY <1>1, <1>2, <1>3, <1>4, <1>5, <1>6, <1>7, SelIs
<1>18. Releases(N2(f, g)) = c /\ Releases(N9(f, g)) = UnlockFG(g, f) /\ Releases(b) = c
  BY <1>2, <1>9, <1>12, <1>13, SelIs
<1>19. Releases(St4(f, g)) = UnlockFG(f, g) /\ Releases(St5(f, g)) = UnlockFG(f, g) /\ Releases(P8(f)) = d
  BY <1>2, <1>14, <1>15, <1>16, SelIs
<1> QED BY <1>17, <1>18, <1>19 DEF FailsAre, b, c, d

----------------------------------------------------------------------------
(* What the steps that are left show to the other threads.                 *)

LEMMA HasStep ==
  ASSUME NEW s, NEW r, IsSeq(r)
  PROVE  Has(Then(s, r), s) /\ \A d : Has(r, d) => Has(Then(s, r), d)
  BY ThenHas

\* A place that claims a stream shows it by a step of sfclose or sfstack.
Shows(r, f) == Has(r, <<"closing", f>>) \/ Has(r, <<"clr", f>>) \/ Has(r, <<"final", f>>)
Pushes(r, f, g) == Has(r, <<"stack", f, g>>) \/ Has(r, <<"swap", f, g>>) \/ Has(r, <<"swapped", f, g>>)

LEMMA Signs ==
  ASSUME NEW f \in Stream, NEW g \in Stream, NEW n \in Nat
  PROVE  /\ \A l \in Nested \cup {"cl2", "cl3", "k1", "k2"} : Shows(Plan(l, f, g, n), f)
         /\ \A l \in Nested : Shows(Plan(l, f, g, n), g) \/ l \in {"n11"}
         /\ Shows(Plan("n11", f, g, n), g)
         /\ \A l \in {"st2", "st3", "st4", "st5", "st6", "st7"} : Pushes(Plan(l, f, g, n), f, g)
<1>a. ListsAre(f, g, n) /\ PlansAre(f, g, n)
  BY Lists, Plans
<1> DEFINE H(r) == Has(r, <<"closing", f>>)  G(r) == Has(r, <<"closing", g>>)
<1>1. H(Cl3(f)) /\ IsSeq(Cl3(f))
  BY <1>a, HasStep DEF Cl3, ListsAre
<1>2. H(Then(<<"unlock", g>>, Cl3(f))) /\ IsSeq(Then(<<"unlock", g>>, Cl3(f)))
  BY <1>a, <1>1, HasStep DEF ListsAre
<1>3. H(N9(f, g)) /\ G(N9(f, g)) /\ IsSeq(N9(f, g))
  BY <1>a, <1>2, HasStep DEF N9, ListsAre
<1>4. H(N8(f, g)) /\ G(N8(f, g)) /\ IsSeq(N8(f, g))
  BY <1>a, <1>3, HasStep DEF N8, ListsAre
<1>5. H(N7(f, g)) /\ G(N7(f, g)) /\ IsSeq(N7(f, g))
  BY <1>a, <1>4, HasStep DEF N7, ListsAre
<1>6. H(N6(f, g)) /\ G(N6(f, g)) /\ IsSeq(N6(f, g))
  BY <1>a, <1>5, HasStep DEF N6, ListsAre
<1>7. H(N5(f, g)) /\ G(N5(f, g)) /\ IsSeq(N5(f, g))
  BY <1>a, <1>6, HasStep DEF N5, ListsAre
<1>8. H(N4(f, g)) /\ G(N4(f, g)) /\ IsSeq(N4(f, g))
  BY <1>a, <1>7, HasStep DEF N4, ListsAre
<1>9. H(Then(<<"swap", f, g>>, N4(f, g))) /\ G(Then(<<"swap", f, g>>, N4(f, g)))
  BY <1>8, HasStep
<1>10. H(Then(<<"unlock", f>>, N7(f, g))) /\ G(Then(<<"unlock", f>>, N7(f, g))) /\ IsSeq(Then(<<"unlock", f>>, N7(f, g)))
  BY <1>a, <1>5, HasStep DEF ListsAre
<1>11. H(N2(f, g)) /\ G(N2(f, g)) /\ IsSeq(N2(f, g))
  <2> DEFINE b == Then(<<"unlock", f>>, N7(f, g))
  <2>1. N2(f, g) = Then(<<"pop", f>>, b) /\ IsSeq(N2(f, g))
    BY <1>a DEF N2, ListsAre
  <2>2. H(b) /\ G(b) /\ IsSeq(b)
    BY <1>10
  <2> HIDE DEF b
  <2> QED BY <2>1, <2>2, HasStep
<1>12. H(Then(<<"check", f>>, N2(f, g))) /\ G(Then(<<"check", f>>, N2(f, g)))
  BY <1>11, HasStep
<1>13. Has(N11(f, g), <<"final", g>>) /\ H(N11(f, g)) /\ IsSeq(N11(f, g))
  BY <1>a, <1>1, HasStep DEF N11, ListsAre
<1>14. Has(Then(<<"clr", g>>, N11(f, g)), <<"final", g>>) /\ H(Then(<<"clr", g>>, N11(f, g)))
  BY <1>13, HasStep
<1>15. H(Then(<<"check", f>>, Cl3(f)))
  BY <1>1, HasStep
<1>16. Has(K2(f), <<"final", f>>) /\ IsSeq(K2(f))
  BY <1>a, EmptyIs, HasStep DEF K2, ListsAre
<1>17. Has(Then(<<"clr", f>>, K2(f)), <<"final", f>>)
  BY <1>16, HasStep
<1> DEFINE P(r) == Pushes(r, f, g)
<1>18. P(Sp2(f, g)) /\ IsSeq(Sp2(f, g))
  BY <1>a, HasStep DEF Sp2, Pushes, ListsAre
<1>19. P(Then(<<"swap", f, g>>, Sp2(f, g)))
  BY <1>18, HasStep DEF Pushes
<1>20. Has(St5(f, g), <<"stack", f, g>>) /\ IsSeq(St5(f, g))
  BY <1>a, HasStep DEF St5, ListsAre
<1>21. Has(St4(f, g), <<"stack", f, g>>) /\ IsSeq(St4(f, g))
  BY <1>a, <1>20, HasStep DEF St4, ListsAre
<1>22. Has(St3(f, g), <<"stack", f, g>>) /\ IsSeq(St3(f, g))
  BY <1>a, <1>21, HasStep DEF St3, ListsAre
<1>23. Has(Then(<<"lock", g>>, St3(f, g)), <<"stack", f, g>>)
  BY <1>22, HasStep
<1> DEFINE R(l) == Plan(l, f, g, n)
<1>24. /\ H(R("cl2")) /\ H(R("cl3")) /\ Has(R("k1"), <<"final", f>>) /\ Has(R("k2"), <<"final", f>>)
       /\ H(R("n1")) /\ H(R("n2")) /\ H(R("n3")) /\ H(R("n4")) /\ H(R("n5")) /\ H(R("n6")) /\ H(R("n8")) /\ H(R("n9"))
       /\ H(R("n10")) /\ H(R("n11"))
  BY <1>a, <1>1, <1>3, <1>4, <1>6, <1>7, <1>8, <1>9, <1>11, <1>12, <1>13, <1>14, <1>15, <1>16, <1>17 DEF PlansAre
<1>25. /\ G(R("n1")) /\ G(R("n2")) /\ G(R("n3")) /\ G(R("n4")) /\ G(R("n5")) /\ G(R("n6")) /\ G(R("n8")) /\ G(R("n9"))
       /\ Has(R("n10"), <<"final", g>>) /\ Has(R("n11"), <<"final", g>>)
  BY <1>a, <1>3, <1>4, <1>6, <1>7, <1>8, <1>9, <1>11, <1>12, <1>13, <1>14 DEF PlansAre
<1>26. P(R("st2")) /\ P(R("st3")) /\ P(R("st4")) /\ P(R("st5")) /\ P(R("st6")) /\ P(R("st7"))
  BY <1>a, <1>18, <1>19, <1>20, <1>21, <1>22, <1>23 DEF PlansAre, Pushes
<1> HIDE DEF H, G, P, R
<1>27. \A l \in Nested \cup {"cl2", "cl3", "k1", "k2"} : H(R(l)) \/ Has(R(l), <<"final", f>>)
  BY <1>24 DEF Nested
<1>28. \A l \in Nested : G(R(l)) \/ Has(R(l), <<"final", g>>)
  BY <1>25 DEF Nested
<1>29. \A l \in {"st2", "st3", "st4", "st5", "st6", "st7"} : P(R(l))
  BY <1>26
<1> QED BY <1>25, <1>27, <1>28, <1>29 DEF H, G, P, R, Shows

LEMMA ClaimsShow ==
  ASSUME NEW t, NEW u \in Thread \ {t}, NEW q \in Place, At(u, q), NEW x \in Stream
  PROVE  /\ q.l \in Nested \cup {"cl2", "cl3", "k1", "k2"} /\ x = q.f => Closing(t, x)
         /\ q.l \in Nested /\ x = q.g => Closing(t, x)
         /\ q.l \in {"st2", "st3", "st4", "st5", "st6", "st7"} /\ x = q.g => Pushing(t, x)
<1> DEFINE r == Plan(q.l, q.f, q.g, q.n)
<1>1. q.l \in Label /\ q.f \in Stream /\ q.g \in Stream /\ q.n \in Nat
  BY PlaceIs
<1>2. \A s : Has(r, s) => Has(todo[u], s)
  BY LeftIs DEF At
<1>3. /\ q.l \in Nested \cup {"cl2", "cl3", "k1", "k2"} => Shows(r, q.f)
      /\ q.l \in Nested => Shows(r, q.g)
      /\ q.l \in {"st2", "st3", "st4", "st5", "st6", "st7"} => Pushes(r, q.f, q.g)
  BY <1>1, Signs
<1> HIDE DEF r
<1>4. Shows(r, x) => Closing(t, x)
  BY <1>2 DEF Shows, Has, Closing
<1>5. Pushes(r, q.f, x) => Pushing(t, x)
  BY <1>1, <1>2 DEF Pushes, Has, Pushing
<1> QED BY <1>3, <1>4, <1>5

LEMMA ClearsAt ==
  ASSUME NEW t, NEW p \in Place, At(t, p)
  PROVE  /\ ClearsOf(todo[t]) = IF p.l = "j2" THEN {p.f} ELSE IF p.l \in {"p3", "p4", "p5", "p6", "p7"} THEN {p.g} ELSE {}
         /\ \A x \in Stream : (\E i \in DOMAIN todo[t] :
              todo[t][i] = <<"clear", x>> \/ (todo[t][i][1] = "swaphead" /\ todo[t][i][4] = x)) <=> x \in ClearsOf(todo[t])
<1>1. p.l \in Label /\ p.f \in Stream /\ p.g \in Stream /\ p.n \in Nat
  BY PlaceIs
<1>2. ClearsOf(todo[t]) = ClearsOf(Plan(p.l, p.f, p.g, p.n))
  BY LeftIs DEF At
<1>3. ClearsOf(todo[t]) = IF p.l = "j2" THEN {p.f} ELSE IF p.l \in {"p3", "p4", "p5", "p6", "p7"} THEN {p.g} ELSE {}
  <2> DEFINE l == p.l  f == p.f  g == p.g  n == p.n
  <2>1. l \in Label /\ f \in Stream /\ g \in Stream /\ n \in Nat
    BY <1>1
  <2>2. ClearsOf(todo[t]) = ClearsOf(Plan(l, f, g, n))
    BY <1>2
  <2> HIDE DEF l, f, g, n
  <2>3. ClearsOf(todo[t]) = IF l = "j2" THEN {f} ELSE IF l \in {"p3", "p4", "p5", "p6", "p7"} THEN {g} ELSE {}
    BY <2>1, <2>2, PlanUses
  <2> QED BY <2>3 DEF l, f, g
<1>4. \A x \in Stream : (\E i \in DOMAIN todo[t] :
          todo[t][i] = <<"clear", x>> \/ (todo[t][i][1] = "swaphead" /\ todo[t][i][4] = x)) <=> x \in ClearsOf(todo[t])
  BY DEF ClearsOf, ClearOf
<1> QED BY <1>3, <1>4

----------------------------------------------------------------------------
(* A step keeps the invariant: what has to be shown for one.               *)

\* The streams a place is about.
About(p) == IF p.l = "idle" /\ p.ph = "on" THEN {} ELSE {p.f} \cup (IF p.l \in Two THEN {p.g} ELSE {})

LEMMA LeftUses ==
  ASSUME NEW p \in Place, p.ph # "on" => p.l \in Entry, p.ph = "take" => p.m \in {Asked(p)} \cup Spare
  PROVE  /\ \A x \in Stream : x \in UsesOf(Left(p)) => x \in About(p)
         /\ \A x \in Stream : x \in About(p) => x \in UsesOf(Left(p)) \/ (p.l = "idle" /\ p.ph = "take")
<1>1. /\ p.ph \in Phase /\ p.l \in Label /\ p.f \in Stream /\ p.g \in Stream /\ p.n \in Nat
      /\ Asked(p) = IF p.l \in {"st3", "n8", "p3"} THEN p.g ELSE p.f
  BY PlaceIs DEF Asked
<1> DEFINE rest == Plan(p.l, p.f, p.g, p.n)
<1>2. \A x \in Stream : x \in UsesOf(rest) <=> (x = p.f /\ p.l # "idle") \/ (x = p.g /\ p.l \in Two)
  BY <1>1, PlanUses
<1> HIDE DEF rest
<1>3. /\ p.ph = "on" => UsesOf(Left(p)) = UsesOf(rest)
      /\ p.ph \in {"lock", "lib", "make", "drop"} => UsesOf(Left(p)) \cap Stream = ({Asked(p)} \cup UsesOf(rest)) \cap Stream
      /\ p.ph = "take" => UsesOf(Left(p)) = {p.m} \cup UsesOf(rest)
  BY LeftIs DEF rest
<1>4. \A x \in Stream : x \in About(p) <=> (p.l # "idle" \/ p.ph # "on") /\ (x = p.f \/ (x = p.g /\ p.l \in Two))
  BY DEF About
<1>5. "idle" \notin Two /\ {"st3", "n8", "p3"} \subseteq Two
  BY DEF Two
<1>6. CASE p.ph = "on"
  BY <1>2, <1>3, <1>4, <1>5, <1>6
<1>7. CASE p.ph \in {"lock", "lib", "make", "drop"}
  <2>1. \A x \in Stream : x \in UsesOf(Left(p)) <=> x = Asked(p) \/ x \in UsesOf(rest)
    BY <1>3, <1>7
  <2> QED BY <1>1, <1>2, <1>4, <1>5, <1>7, <2>1
<1>8. CASE p.ph = "take"
  <2>1. \A x \in Stream : x \in UsesOf(Left(p)) <=> x = p.m \/ x \in UsesOf(rest)
    BY <1>3, <1>8
  <2>2. p.m \in Stream => p.m = Asked(p)
    BY <1>8, Names2
  <2> QED BY <1>1, <1>2, <1>4, <1>5, <1>8, <2>1, <2>2
<1> QED BY <1>1, <1>6, <1>7, <1>8 DEF Phase

LEMMA AboutAt ==
  ASSUME SysInv, NEW t \in Thread, NEW p \in Place, Facts(t, p)
  PROVE  \A x \in Stream : Engaged(t, x) <=> x \in About(p) \/ held[t][x] > 0
<1>1. \A x \in Stream : x \in About(p) <=> (p.l # "idle" \/ p.ph # "on") /\ (x = p.f \/ (x = p.g /\ p.l \in Two))
  BY DEF About
<1>2. "idle" \notin Two
  BY DEF Two
<1>3. TypeInv /\ MutexInv /\ At(t, p) /\ LocksAt(t, p) /\ MutexAt(t, p) /\ (p.ph # "on" => p.l \in Entry)
  BY DEF SysInv, Facts, At
<1>4. p.l \in Two => p.l # "idle"
  BY <1>2
<1>5. \A x \in Stream : held[t][x] > 0 => Engaged(t, x)
  BY DEF Engaged
<1> QED BY <1>1, <1>3, <1>4, <1>5, EngagedAt

\* A step of a call engages the thread with no other stream.
LEMMA NoNewUse ==
  ASSUME SysInv, NEW t \in Thread, NEW p \in Place, Facts(t, p), NEW q \in Place, todo'[t] = Left(q),
         q.ph # "on" => q.l \in Entry, q.ph = "take" => q.m \in {Asked(q)} \cup Spare, About(q) \subseteq About(p),
         \A x \in Stream : held'[t][x] > 0 => held[t][x] > 0
  PROVE  \A x \in Stream : Engaged(t, x)' => Engaged(t, x)
<1> SUFFICES ASSUME NEW x \in Stream, Engaged(t, x)' PROVE Engaged(t, x)
  OBVIOUS
<1>1. x \in UsesOf(Left(q)) \/ held'[t][x] > 0
  BY DEF Engaged, Using, UsesOf, NamesOf
<1>2. x \in About(q) \/ held'[t][x] > 0
  BY <1>1, LeftUses
<1> QED BY <1>2, AboutAt

LEMMA NotLeaving ==
  ASSUME NEW t, ~Doing(t, "unlock"), NEW x \in Stream
  PROVE  ~Leaves(t, x)
<1>1. Head(UnlockF(x)) = <<"unlock", x>> /\ UnlockF(x) # <<>>
  BY ThenIs, EmptyIs DEF UnlockF
<1>2. Head(UnlockF(x))[1] = "unlock"
  BY <1>1
<1> QED BY <1>1, <1>2 DEF Leaves, Doing, Idle

LEMMA ModestBy ==
  ASSUME NEW t \in Thread, ~Doing(t, "unlock"), \A x \in Stream : Engaged(t, x)' => Engaged(t, x)
  PROVE  Modest(t)
  BY NotLeaving DEF Modest

\* The invariants of mutexes and streams over a step of t.
Parts(t, x) ==
  todo[t] # <<>> /\ \E f \in Stream : Head(todo[t]) = <<"swap", f, x>> \/ Head(todo[t]) = <<"swapped", f, x>>
Keeps(t) ==
  /\ push' = push
  /\ order' \in Seq(Pool) /\ order' # <<>> /\ \A i, j \in DOMAIN order' : order'[i] = order'[j] => i = j
  /\ \A x \in Stream :
       /\ Pushed(x) => mtx'[x] # None
       /\ Pushed(x) \/ x \in Pool => Open0(x)' /\ (held'[t][x] > 0 => held[t][x] > 0)
       /\ "push" \in mode'[x] => "push" \in mode[x]
       /\ Pushed(x) /\ "push" \notin mode'[x] => Parts(t, x)' \/ ("push" \notin mode[x] /\ ~Parts(t, x))
       /\ touch'[x] \ {t} = touch[x] \ {t} /\ (t \in touch'[x] => t \in touch[x] \/ touch[x] = {})
       /\ "lock" \in mode'[x] => \/ t \in touch'[x] \/ x \in ClearsOf(todo'[t])
                                 \/ "lock" \in mode[x] /\ t \notin touch[x] /\ x \notin ClearsOf(todo[t])
       /\ Engaged(t, x)' => Engaged(t, x) \/ "freed" \notin mode[x]
       /\ "freed" \in mode'[x] => "freed" \in mode[x] \/ (x \in Heap /\ ~Pushed(x) /\ \A u \in Thread : ~Engaged(u, x)')

LEMMA MutexStays ==
  ASSUME SysInv, NEW t \in Thread, Only(t), mtx' = mtx,
         \A m \in Mutex : holder'[m] # None => holder[m] # None \/ m \in {PoolMutex, LibMutex} \/ \E x \in Stream : mtx[x] = m,
         \A x \in Stream : Engaged(t, x)' =>
           Engaged(t, x) \/ mtx[x] # None \/ \A u \in Thread \ {t} : ~Engaged(u, x)
  PROVE  MutexInv'
<1>1. MutexInv /\ \A u \in Thread \ {t} : \A x \in Stream : Engaged(u, x)' <=> Engaged(u, x)
  BY OthersEngaged DEF SysInv
<1>2. \A m \in Mutex : holder'[m] # None => m \in {PoolMutex, LibMutex} \/ \E x \in Stream : mtx[x] = m
  BY <1>1 DEF MutexInv
<1>3. \A x \in Stream : \A v, u \in Thread : mtx[x] = None /\ Engaged(v, x)' /\ Engaged(u, x)' => v = u
  BY <1>1 DEF MutexInv
<1> QED BY <1>1, <1>2, <1>3 DEF MutexInv

LEMMA SysStays ==
  ASSUME SysInv, NEW t \in Thread, Only(t), TypeInv', MutexInv', Keeps(t)
  PROVE  SysInv'
<1>1. TypeInv /\ MutexInv /\ PushInv /\ StackInv /\ LockInv /\ FreedInv /\ PoolInv
  BY DEF SysInv
<1>2. push' = push /\ \A u \in Thread \ {t} : todo'[u] = todo[u] /\ held'[u] = held[u]
  BY DEF Keeps, Only
<1>3. \A x \in Stream : Pushed(x)' <=> Pushed(x)
  BY <1>2 DEF Pushed
<1>4. PushInv'
  <2>1. \A x, y \in Stream : push'[x] # None /\ push'[x] = push'[y] => x = y
    BY <1>1, <1>2 DEF PushInv
  <2>2. ASSUME NEW x \in Stream, Pushed(x)
        PROVE  x \notin Std \cup Pool /\ mtx'[x] # None /\ Open0(x)' /\ \A u \in Thread : held'[u][x] = 0
    <3>1. x \notin Std \cup Pool /\ \A u \in Thread : held[u][x] = 0
      BY <1>1, <2>2 DEF PushInv
    <3>2. mtx'[x] # None /\ Open0(x)' /\ (held'[t][x] > 0 => held[t][x] > 0)
      BY <2>2 DEF Keeps
    <3>3. held'[t][x] \in Nat
      BY DEF TypeInv
    <3> QED BY <1>2, <3>1, <3>2, <3>3
  <2>3. \A x \in Stream : "push" \in mode'[x] => Pushed(x)
    BY <1>1 DEF PushInv, Keeps
  <2>4. ASSUME NEW x \in Stream, Pushed(x), "push" \notin mode'[x] PROVE \E u \in Thread : Parts(u, x)'
    <3>1. Parts(t, x)' \/ ("push" \notin mode[x] /\ ~Parts(t, x))
      BY <2>4 DEF Keeps
    <3>2. "push" \notin mode[x] => \E u \in Thread : Parts(u, x)
      BY <1>1, <2>4 DEF PushInv, Parts
    <3>3. \A u \in Thread \ {t} : Parts(u, x) => Parts(u, x)'
      BY <1>2 DEF Parts
    <3> QED BY <3>1, <3>2, <3>3
  <2>5. \A x \in Stream : (\E u \in Thread : Parts(u, x)') =>
          \E u \in Thread, f \in Stream : todo'[u] # <<>> /\ Head(todo'[u]) \in {<<"swap", f, x>>, <<"swapped", f, x>>}
    BY DEF Parts
  <2> QED BY <1>3, <2>1, <2>2, <2>3, <2>4, <2>5 DEF PushInv
<1>5. StackInv'
  BY <1>1, <1>2 DEF StackInv, Height, Base, Pushed
<1>6. LockInv'
  <2>1. ASSUME NEW x \in Stream, NEW u \in touch'[x], NEW v \in touch'[x] PROVE u = v
    <3>1. touch'[x] \ {t} = touch[x] \ {t} /\ (t \in touch'[x] => t \in touch[x] \/ touch[x] = {})
      BY DEF Keeps
    <3>2. \A r, s \in touch[x] : r = s
      BY <1>1 DEF LockInv
    <3> QED BY <2>1, <3>1, <3>2
  <2>2. ASSUME NEW x \in Stream, "lock" \in mode'[x]
        PROVE  touch'[x] # {} \/ \E u \in Thread : x \in ClearsOf(todo'[u])
    <3>1. \A u \in Thread : x \in ClearsOf(todo[u]) <=>
            \E i \in DOMAIN todo[u] : todo[u][i] = <<"clear", x>> \/ (todo[u][i][1] = "swaphead" /\ todo[u][i][4] = x)
      BY DEF ClearsOf, ClearOf
    <3>2. "lock" \in mode[x] => touch[x] # {} \/ \E u \in Thread : x \in ClearsOf(todo[u])
      BY <1>1, <3>1 DEF LockInv
    <3>3. touch'[x] \ {t} = touch[x] \ {t} /\ (\/ t \in touch'[x] \/ x \in ClearsOf(todo'[t])
                                               \/ "lock" \in mode[x] /\ t \notin touch[x] /\ x \notin ClearsOf(todo[t]))
      BY <2>2 DEF Keeps
    <3>4. \A u \in Thread \ {t} : ClearsOf(todo'[u]) = ClearsOf(todo[u])
      BY <1>2
    <3> QED BY <3>2, <3>3, <3>4
  <2>3. \A x \in Stream : \A u \in Thread : x \in ClearsOf(todo'[u]) <=>
          \E i \in DOMAIN todo'[u] : todo'[u][i] = <<"clear", x>> \/ (todo'[u][i][1] = "swaphead" /\ todo'[u][i][4] = x)
    BY DEF ClearsOf, ClearOf
  <2> QED BY <2>1, <2>2, <2>3 DEF LockInv
<1>7. FreedInv'
  <2> SUFFICES ASSUME NEW x \in Stream, "freed" \in mode'[x]
               PROVE  x \in Heap /\ ~Pushed(x) /\ \A u \in Thread : ~Engaged(u, x)'
    BY <1>3 DEF FreedInv
  <2>1. /\ "freed" \in mode[x] \/ (x \in Heap /\ ~Pushed(x) /\ \A u \in Thread : ~Engaged(u, x)')
        /\ Engaged(t, x)' => Engaged(t, x) \/ "freed" \notin mode[x]
    BY DEF Keeps
  <2>2. "freed" \in mode[x] => x \in Heap /\ ~Pushed(x) /\ \A u \in Thread : ~Engaged(u, x)
    BY <1>1 DEF FreedInv
  <2>3. \A u \in Thread \ {t} : Engaged(u, x)' <=> Engaged(u, x)
    BY OthersEngaged
  <2> QED BY <2>1, <2>2, <2>3
<1>8. PoolInv'
  <2>1. \A x \in Pool : x \in Stream
    BY Names2
  <2>2. \A x \in Pool : Open0(x)' /\ (held'[t][x] > 0 => held[t][x] > 0)
    BY <2>1 DEF Keeps
  <2>3. \A x \in Pool : held'[t][x] \in Nat /\ held[t][x] = 0
    BY <1>1, <2>1 DEF TypeInv, PoolInv
  <2>4. \A x \in Pool : \A u \in Thread : held'[u][x] = 0
    BY <1>1, <1>2, <2>2, <2>3 DEF PoolInv
  <2> QED BY <2>2, <2>4 DEF PoolInv, Keeps
<1> QED BY <1>4, <1>5, <1>6, <1>7, <1>8 DEF SysInv

LEMMA Together ==
  ASSUME LocksInv, NEW t \in Thread, SysInv', NEW p \in Place, Facts(t, p)',
         \A u \in Thread \ {t} : \A q \in Place : Facts(u, q) => Facts(u, q)'
  PROVE  LocksInv'
<1>1. \A u \in Thread : \E q \in Place : Facts(u, q)'
  BY DEF LocksInv, ThreadInv
<1> QED BY <1>1 DEF LocksInv, ThreadInv

\* The labels a call goes to with the same streams, and the stacks and the pool as they were.
Moves(l, k) ==
  \/ l = "io2" /\ k \in {"io3", "u1"}
  \/ l = "pop2" /\ k \in {"pop3", "u1"}
  \/ l = "cl2" /\ k \in {"cl3", "u1"}
  \/ l = "io3" /\ k = "io4"
  \/ l = "io4" /\ k \in {"u1"}
  \/ l = "j2" /\ k = "j3"
  \/ l = "j3" /\ k = "j4"
  \/ l \in {"u1", "u0", "j4", "k2"} /\ k = "idle"
  \/ l = "pop3" /\ k = "u1"
  \/ l = "sp1" /\ k = "sp2"
  \/ l = "cl3" /\ k = "k1"
  \/ l = "k1" /\ k = "k2"
  \/ l = "x3" /\ k = "uu01"
  \/ l = "uu01" /\ k = "u1"
  \/ l = "n1" /\ k \in {"n2", "x3"}
  \/ l = "n2" /\ k \in {"x3", "n3"}
  \/ l = "n3" /\ k = "n4"
  \/ l = "n5" /\ k = "n6"
  \/ l = "n6" /\ k = "n8"
  \/ l = "n8" /\ k = "n9"
  \/ l = "n9" /\ k = "n10"
  \/ l = "n10" /\ k = "n11"
  \/ l = "n11" /\ k = "cl3"
  \/ l = "st2" /\ k = "st3"
  \/ l = "st3" /\ k \in {"st4", "uu11"}
  \/ l = "st4" /\ k \in {"st5", "uu11"}
  \/ l = "st5" /\ k = "uu11"
  \/ l = "st6" /\ k = "st7"
  \/ l = "p1" /\ k = "p2"
  \/ l = "p2" /\ k = "pf"
  \/ l = "pf" /\ k = "u1"
  \/ l = "p3" /\ k = "p4"
  \/ l = "p4" /\ k = "p5"
  \/ l = "p5" /\ k = "p6"
  \/ l = "p6" /\ k = "p7"
  \/ l = "p8" /\ k = "io3"

Goes(p, q) ==
  /\ q.f = p.f /\ q.g = p.g /\ q.n = p.n
  /\ q.ph # "on" => q.l \in Entry
  /\ q.l = "st2" => q.ph # "on"
  /\ q.ph # "on" /\ q.l = "idle" => p.ph # "on" /\ p.l = "idle"
  /\ Moves(p.l, q.l) \/ (q.l = p.l /\ q.l # "u0" /\ (q.l = "idle" => p.ph # "on"))

LEMMA OwnMove ==
  ASSUME SysInv, NEW t \in Thread, NEW p \in Place, NEW q \in Place, Facts(t, p), Only(t), push' = push, order' = order,
         \A x \in Stream : held'[t][x] > 0 => held[t][x] > 0, \A x \in Stream : held'[t][x] \in Nat,
         Goes(p, q)
  PROVE  PushAt(q)' /\ HeldAt(t, q)' /\ PoolAt(t, q)' /\ RankAt(q)' /\ About(q) \subseteq About(p)
         /\ (q.l \in Two => q.f # q.g)
<1>1. PushAt(p) /\ HeldAt(t, p) /\ PoolAt(t, p) /\ RankAt(p) /\ (p.l \in Two => p.f # p.g) /\ p.l \in Label /\ q.l \in Label
      /\ p.f \in Stream /\ p.g \in Stream /\ (p.ph # "on" => p.l \in Entry)
  BY PlaceIs DEF Facts, At
<1>2. PushAt(q)'
  <2>1. PushAt(q)
    BY <1>1 DEF PushAt, Moves, Goes
  <2> QED BY <2>1, OthersPush
<1>3. HeldAt(t, q)'
  <2>1. q.l \notin {"idle", "u0", "u1", "uu11"} => p.l \notin {"idle", "u0", "u1", "uu11"}
    BY DEF Moves, Goes
  <2>2. q.l = "idle" /\ q.ph # "on" => p.l = "idle" /\ p.ph # "on"
    BY DEF Goes
  <2>3. q.l # "u0" /\ q.f = p.f
    BY DEF Moves, Goes
  <2> QED BY <1>1, <2>1, <2>2, <2>3 DEF HeldAt
<1>4. PoolAt(t, q)'
  <2>1. PoolAt(t, q)
    BY <1>1 DEF PoolAt, Moves, Goes, Two
  <2> QED BY <2>1, OthersPool
<1>5. RankAt(q)'
  BY <1>1 DEF RankAt, Moves, Goes
<1>6. About(q) \subseteq About(p)
  <2>1. (q.l = "idle" /\ q.ph = "on") \/ ((p.l # "idle" \/ p.ph # "on") /\ (q.l \in Two => p.l \in Two))
    BY DEF Moves, Goes, Two
  <2> QED BY <2>1 DEF About, Goes
<1>7. q.l \in Two => q.f # q.g
  BY <1>1 DEF Moves, Goes, Two
<1> QED BY <1>2, <1>3, <1>4, <1>5, <1>6, <1>7

\* What others keep off stays so.
LEMMA OwnAlone ==
  ASSUME TypeInv, NEW t \in Thread, NEW p \in Place, NEW q \in Place, AloneAt(t, p), Only(t), Goes(p, q),
         \A v \in Thread \ {t} : \A x \in Stream : Leaves(v, x) => Leaves(v, x)'
  PROVE  AloneAt(t, q)'
<1>1. p.f \in Stream /\ p.g \in Stream
  BY PlaceIs
<1>2. /\ q.l \in Nested \cup {"cl2", "cl3", "k1", "k2"} => p.l \in Nested \cup {"cl2", "cl3", "k1", "k2"}
      /\ q.l \in Nested => p.l \in Nested
      /\ q.l \in {"st2", "st3", "st4", "st5", "st6", "st7"} => p.l \in {"st2", "st3", "st4", "st5", "st6", "st7"}
  BY DEF Moves, Goes, Nested
<1>0. q.f = p.f /\ q.g = p.g
  BY DEF Goes
<1> SUFFICES ASSUME NEW u \in Thread \ {t}
             PROVE  /\ q.l \in Nested \cup {"cl2", "cl3", "k1", "k2"} /\ q.f \notin Std => ~Engaged(u, q.f)'
                    /\ q.l \in Nested => (Engaged(u, q.g)' => Leaves(u, q.g)')
                    /\ q.l \in {"st2", "st3", "st4", "st5", "st6", "st7"} => ~Engaged(u, q.g)'
  BY DEF AloneAt
<1>3. \A x \in Stream : Engaged(u, x)' <=> Engaged(u, x)
  BY OthersEngaged
<1>4. \A x \in Stream : Leaves(u, x) => Leaves(u, x)'
  OBVIOUS
<1>5. /\ p.l \in Nested \cup {"cl2", "cl3", "k1", "k2"} /\ p.f \notin Std => ~Engaged(u, p.f)
      /\ p.l \in Nested => (Engaged(u, p.g) => Leaves(u, p.g))
      /\ p.l \in {"st2", "st3", "st4", "st5", "st6", "st7"} => ~Engaged(u, p.g)
  BY DEF AloneAt
<1> QED BY <1>0, <1>1, <1>2, <1>3, <1>4, <1>5

\* The locks are the same as long as the call's count of them is.
LEMMA OwnLocks ==
  ASSUME TypeInv, NEW t \in Thread, NEW p \in Place, NEW q \in Place, LocksAt(t, p), locks' = locks, mtx' = mtx,
         held'[t] = held[t], \A x \in Stream : Count(q, x) = Count(p, x),
         q.ph \in {"make", "drop"} <=> p.ph \in {"make", "drop"},
         q.l \in {"p2", "p3", "p4", "p5", "p6", "p7", "p8", "pf"} <=> p.l \in {"p2", "p3", "p4", "p5", "p6", "p7", "p8", "pf"}
  PROVE  LocksAt(t, q)'
<1>1. \A x \in Stream : Own(t, mtx[x])' = Own(t, mtx[x])
  BY DEF Own, locks
<1>2. Own(t, LibMutex)' = Own(t, LibMutex) /\ Own(t, PoolMutex)' = Own(t, PoolMutex)
  BY DEF Own, locks
<1>3. \A x \in Stream : Count(q, x)' = Count(q, x)
  BY DEF Count, Asked
<1>4. \A x \in Stream : held'[t][x] + Count(q, x)' = Own(t, mtx[x])'
  BY <1>1, <1>3 DEF LocksAt
<1> QED BY <1>2, <1>4 DEF LocksAt

\* How often a place counts a stream.
LEMMA CountIs ==
  ASSUME NEW p \in Place
  PROVE  \A x \in Stream : /\ Count(p, x) \in Int
                           /\ Count(p, x) = (IF x = p.f THEN CountF(p.l) ELSE 0) + (IF x = p.g THEN CountG(p.l) ELSE 0)
                                              - (IF p.ph # "on" /\ x = Asked(p) THEN 1 ELSE 0)
<1>1. CountF(p.l) \in 0 .. 2 /\ CountG(p.l) \in 0 .. 1
  BY DEF CountF, CountG
<1> QED BY <1>1 DEF Count

LEMMA LockIdle ==
  ASSUME NEW t \in Thread, locks' = locks
  PROVE  Mine(t)
  BY DEF Mine, locks

\* What a place needs of the stacks, the pool, the ranks and the other threads.
Fits(t, p, q) ==
  /\ About(q) \subseteq About(p) /\ (q.l \in Two => q.f # q.g) /\ (q.ph # "on" => q.l \in Entry) /\ (q.l = "st2" => q.ph # "on")
  /\ PushAt(q)' /\ HeldAt(t, q)' /\ PoolAt(t, q)' /\ RankAt(q)' /\ AloneAt(t, q)'

LEMMA GoesFits ==
  ASSUME SysInv, NEW t \in Thread, NEW p \in Place, NEW q \in Place, Facts(t, p), Only(t), Mine(t), TypeInv',
         mtx' = mtx, push' = push, order' = order, \A x \in Stream : held'[t][x] > 0 => held[t][x] > 0, Goes(p, q)
  PROVE  Fits(t, p, q)
<1>1. TypeInv
  BY DEF SysInv
<1>2. \A x \in Stream : held'[t][x] \in Nat
  BY DEF TypeInv
<1>3. PushAt(q)' /\ HeldAt(t, q)' /\ PoolAt(t, q)' /\ RankAt(q)' /\ About(q) \subseteq About(p) /\ (q.l \in Two => q.f # q.g)
  BY <1>2, OwnMove
<1>4. \A v \in Thread \ {t} : \A x \in Stream : Leaves(v, x) => Leaves(v, x)'
  BY <1>1, OthersLeave
<1>5. AloneAt(t, q)'
  BY <1>1, <1>4, OwnAlone DEF Facts
<1> QED BY <1>3, <1>5 DEF Fits, Goes

\* A step of a call that takes up no other stream.
LEMMA StepStays ==
  ASSUME LocksInv, NEW t \in Thread, NEW p \in Place, NEW q \in Place, Facts(t, p), todo'[t] = Left(q), Fits(t, p, q),
         q.ph = "take" => q.m \in {Asked(q)} \cup Spare,
         Only(t), Mine(t), TypeInv', mtx' = mtx, push' = push, order' = order,
         \A x \in Stream : held'[t][x] > 0 => held[t][x] > 0,
         \A m \in Mutex : holder'[m] # None => holder[m] # None \/ m \in {PoolMutex, LibMutex} \/ \E x \in Stream : mtx[x] = m,
         Doing(t, "unlock") => Modest(t),
         (\A x \in Stream : Engaged(t, x)' => Engaged(t, x)) => Keeps(t),
         \A u \in Thread \ {t} : \A r \in Place : Facts(u, r) => ModeAt(r)',
         LocksAt(t, q)', MutexAt(t, q)', TouchAt(t, q)', ModeAt(q)'
  PROVE  LocksInv'
<1>1. SysInv /\ TypeInv
  BY DEF LocksInv, SysInv
<1>2. \A x \in Stream : Engaged(t, x)' => Engaged(t, x)
  BY <1>1, NoNewUse DEF Fits
<1>3. Modest(t) /\ Keeps(t)
  BY <1>2, ModestBy
<1>4. MutexInv'
  BY <1>1, <1>2, MutexStays
<1>5. SysInv'
  BY <1>1, <1>3, <1>4, SysStays
<1>6. At(t, q)'
  BY DEF At, Fits
<1>7. Facts(t, q)'
  BY <1>6 DEF Facts, Fits
<1>8. \A u \in Thread \ {t} : \A r \in Place : Facts(u, r) => Facts(u, r)'
  <2> SUFFICES ASSUME NEW u \in Thread \ {t}, NEW r \in Place, Facts(u, r) PROVE Facts(u, r)'
    OBVIOUS
  <2>1. \A x \in Stream : touch'[x] \ {t} = touch[x] \ {t}
    BY <1>3 DEF Keeps
  <2>2. PoolAt(u, r)'
    BY OthersPool DEF Facts
  <2> QED BY <1>1, <1>3, <2>1, <2>2, OthersStay
<1> QED BY <1>5, <1>7, <1>8, Together

----------------------------------------------------------------------------
(* Steps put in front of those that are left.                              *)

LEMMA ThenCat ==
  ASSUME NEW s, NEW q, NEW r, IsSeq(q), IsSeq(r)
  PROVE  Then(s, q) \o r = Then(s, q \o r) /\ IsSeq(q \o r)
<1>1. PICK A : q \in Seq(A)
  BY DEF IsSeq
<1>2. PICK B : r \in Seq(B)
  BY DEF IsSeq
<1> DEFINE S == A \cup B \cup {s}
<1>3. <<s>> \in Seq(S) /\ q \in Seq(S) /\ r \in Seq(S)
  BY <1>1, <1>2
<1> HIDE DEF S
<1>4. q \o r \in Seq(S) /\ (<<s>> \o q) \o r = <<s>> \o (q \o r)
  BY <1>3, ConcatAssociative
<1> QED BY <1>4 DEF Then, IsSeq

\* A list of steps in front of others, one by one.
LEMMA Cat1 ==
  ASSUME NEW a, NEW r, IsSeq(r)
  PROVE  <<a>> \o r = Then(a, r) /\ <<a>> = Then(a, <<>>) /\ IsSeq(<<a>>)
<1>1. <<a>> \o r = Then(a, r) /\ <<a>> = Then(a, <<>>)
  BY DEF Then
<1> QED BY <1>1, ThenIs, EmptyIs

LEMMA Pair ==
  ASSUME NEW a, NEW b
  PROVE  <<a, b>> = Then(a, <<b>>)
<1> DEFINE S == {a, b}  q == <<b>>  r == <<a, b>>  o == <<a>>
<1>1. q \in Seq(S) /\ r \in Seq(S) /\ o \in Seq(S) /\ Len(q) = 1 /\ Len(r) = 2 /\ Len(o) = 1
      /\ r[1] = a /\ r[2] = b /\ q[1] = b /\ o[1] = a
  OBVIOUS
<1> HIDE DEF S, q, r, o
<1>2. o \o q \in Seq(S) /\ Len(o \o q) = 2 /\ (o \o q)[1] = a /\ (o \o q)[2] = b
  <2>1. IsSeq(q) /\ o \o q = Then(a, q)
    BY <1>1 DEF IsSeq, Then, o
  <2>2. Then(a, q)[1] = a /\ \A i \in 1 .. 1 : Then(a, q)[i + 1] = q[i]
    BY <1>1, <2>1, ThenIs
  <2>3. 1 \in 1 .. 1 /\ 1 + 1 = 2
    OBVIOUS
  <2>4. Then(a, q)[2] = b
    BY <1>1, <2>2, <2>3
  <2>5. o \o q \in Seq(S)
    BY <1>1
  <2>6. Len(Then(a, q)) = Len(q) + 1
    BY <2>1, ThenIs
  <2>7. Len(o \o q) = 2
    BY <1>1, <2>1, <2>6
  <2> QED BY <2>1, <2>2, <2>4, <2>5, <2>7
<1> DEFINE p == o \o q
<1> HIDE DEF p
<1>3. p \in Seq(S) /\ Len(p) = 2 /\ p[1] = r[1] /\ p[2] = r[2]
  BY <1>1, <1>2 DEF p
<1>4. \A n \in 1 .. 2 : p[n] = r[n]
  BY <1>3
<1>5. o \o q = r
  BY <1>1, <1>3, <1>4 DEF p
<1> QED BY <1>5 DEF q, r, o, Then

LEMMA Cat2 ==
  ASSUME NEW a, NEW b, NEW r, IsSeq(r)
  PROVE  <<a, b>> \o r = Then(a, Then(b, r)) /\ <<a, b>> = Then(a, Then(b, <<>>)) /\ IsSeq(<<a, b>>)
<1>1. <<a, b>> = Then(a, <<b>>)
  BY Pair
<1> DEFINE t == <<b>>
<1>2. t \o r = Then(b, r) /\ t = Then(b, <<>>) /\ IsSeq(t)
  BY Cat1
<1>3. <<a, b>> = Then(a, t)
  BY <1>1
<1> HIDE DEF t
<1>4. IsSeq(t)
  BY <1>2
<1>5. IsSeq(Then(a, t)) /\ Then(a, t) \o r = Then(a, t \o r)
  BY <1>4, ThenIs, ThenCat
<1> QED BY <1>2, <1>3, <1>4, <1>5

LEMMA Cat3 ==
  ASSUME NEW a, NEW b, NEW c, NEW r, IsSeq(r)
  PROVE  <<a, b, c>> \o r = Then(a, Then(b, Then(c, r))) /\ <<a, b, c>> = Then(a, Then(b, Then(c, <<>>))) /\ IsSeq(<<a, b, c>>)
<1>1. <<a, b, c>> = Then(a, <<b, c>>)
  BY DEF Then
<1> DEFINE t == <<b, c>>
<1>2. t \o r = Then(b, Then(c, r)) /\ t = Then(b, Then(c, <<>>)) /\ IsSeq(t)
  BY Cat2
<1>3. <<a, b, c>> = Then(a, t)
  BY <1>1
<1> HIDE DEF t
<1>4. IsSeq(t)
  BY <1>2
<1>5. IsSeq(Then(a, t)) /\ Then(a, t) \o r = Then(a, t \o r)
  BY <1>4, ThenIs, ThenCat
<1> QED BY <1>2, <1>3, <1>4, <1>5

LEMMA Cat4 ==
  ASSUME NEW a, NEW b, NEW c, NEW d, NEW r, IsSeq(r)
  PROVE  <<a, b, c, d>> \o r = Then(a, Then(b, Then(c, Then(d, r)))) /\ <<a, b, c, d>> = Then(a, Then(b, Then(c, Then(d, <<>>)))) /\ IsSeq(<<a, b, c, d>>)
<1>1. <<a, b, c, d>> = Then(a, <<b, c, d>>)
  BY DEF Then
<1> DEFINE t == <<b, c, d>>
<1>2. t \o r = Then(b, Then(c, Then(d, r))) /\ t = Then(b, Then(c, Then(d, <<>>))) /\ IsSeq(t)
  BY Cat3
<1>3. <<a, b, c, d>> = Then(a, t)
  BY <1>1
<1> HIDE DEF t
<1>4. IsSeq(t)
  BY <1>2
<1>5. IsSeq(Then(a, t)) /\ Then(a, t) \o r = Then(a, t \o r)
  BY <1>4, ThenIs, ThenCat
<1> QED BY <1>2, <1>3, <1>4, <1>5

LEMMA Cat5 ==
  ASSUME NEW a, NEW b, NEW c, NEW d, NEW e, NEW r, IsSeq(r)
  PROVE  <<a, b, c, d, e>> \o r = Then(a, Then(b, Then(c, Then(d, Then(e, r))))) /\ <<a, b, c, d, e>> = Then(a, Then(b, Then(c, Then(d, Then(e, <<>>))))) /\ IsSeq(<<a, b, c, d, e>>)
<1>1. <<a, b, c, d, e>> = Then(a, <<b, c, d, e>>)
  BY DEF Then
<1> DEFINE t == <<b, c, d, e>>
<1>2. t \o r = Then(b, Then(c, Then(d, Then(e, r)))) /\ t = Then(b, Then(c, Then(d, Then(e, <<>>)))) /\ IsSeq(t)
  BY Cat4
<1>3. <<a, b, c, d, e>> = Then(a, t)
  BY <1>1
<1> HIDE DEF t
<1>4. IsSeq(t)
  BY <1>2
<1>5. IsSeq(Then(a, t)) /\ Then(a, t) \o r = Then(a, t \o r)
  BY <1>4, ThenIs, ThenCat
<1> QED BY <1>2, <1>3, <1>4, <1>5

LEMMA Cat6 ==
  ASSUME NEW a, NEW b, NEW c, NEW d, NEW e, NEW i, NEW r, IsSeq(r)
  PROVE  <<a, b, c, d, e, i>> \o r = Then(a, Then(b, Then(c, Then(d, Then(e, Then(i, r)))))) /\ <<a, b, c, d, e, i>> = Then(a, Then(b, Then(c, Then(d, Then(e, Then(i, <<>>)))))) /\ IsSeq(<<a, b, c, d, e, i>>)
<1>1. <<a, b, c, d, e, i>> = Then(a, <<b, c, d, e, i>>)
  BY DEF Then
<1> DEFINE t == <<b, c, d, e, i>>
<1>2. t \o r = Then(b, Then(c, Then(d, Then(e, Then(i, r))))) /\ t = Then(b, Then(c, Then(d, Then(e, Then(i, <<>>))))) /\ IsSeq(t)
  BY Cat5
<1>3. <<a, b, c, d, e, i>> = Then(a, t)
  BY <1>1
<1> HIDE DEF t
<1>4. IsSeq(t)
  BY <1>2
<1>5. IsSeq(Then(a, t)) /\ Then(a, t) \o r = Then(a, t \o r)
  BY <1>4, ThenIs, ThenCat
<1> QED BY <1>2, <1>3, <1>4, <1>5

LEMMA Cat7 ==
  ASSUME NEW a, NEW b, NEW c, NEW d, NEW e, NEW i, NEW j, NEW r, IsSeq(r)
  PROVE  <<a, b, c, d, e, i, j>> \o r = Then(a, Then(b, Then(c, Then(d, Then(e, Then(i, Then(j, r))))))) /\ <<a, b, c, d, e, i, j>> = Then(a, Then(b, Then(c, Then(d, Then(e, Then(i, Then(j, <<>>))))))) /\ IsSeq(<<a, b, c, d, e, i, j>>)
<1>1. <<a, b, c, d, e, i, j>> = Then(a, <<b, c, d, e, i, j>>)
  BY DEF Then
<1> DEFINE t == <<b, c, d, e, i, j>>
<1>2. t \o r = Then(b, Then(c, Then(d, Then(e, Then(i, Then(j, r)))))) /\ t = Then(b, Then(c, Then(d, Then(e, Then(i, Then(j, <<>>)))))) /\ IsSeq(t)
  BY Cat6
<1>3. <<a, b, c, d, e, i, j>> = Then(a, t)
  BY <1>1
<1> HIDE DEF t
<1>4. IsSeq(t)
  BY <1>2
<1>5. IsSeq(Then(a, t)) /\ Then(a, t) \o r = Then(a, t \o r)
  BY <1>4, ThenIs, ThenCat
<1> QED BY <1>2, <1>3, <1>4, <1>5

LEMMA Cat8 ==
  ASSUME NEW a, NEW b, NEW c, NEW d, NEW e, NEW i, NEW j, NEW k, NEW r, IsSeq(r)
  PROVE  <<a, b, c, d, e, i, j, k>> \o r = Then(a, Then(b, Then(c, Then(d, Then(e, Then(i, Then(j, Then(k, r)))))))) /\ <<a, b, c, d, e, i, j, k>> = Then(a, Then(b, Then(c, Then(d, Then(e, Then(i, Then(j, Then(k, <<>>)))))))) /\ IsSeq(<<a, b, c, d, e, i, j, k>>)
<1>1. <<a, b, c, d, e, i, j, k>> = Then(a, <<b, c, d, e, i, j, k>>)
  BY DEF Then
<1> DEFINE t == <<b, c, d, e, i, j, k>>
<1>2. t \o r = Then(b, Then(c, Then(d, Then(e, Then(i, Then(j, Then(k, r))))))) /\ t = Then(b, Then(c, Then(d, Then(e, Then(i, Then(j, Then(k, <<>>))))))) /\ IsSeq(t)
  BY Cat7
<1>3. <<a, b, c, d, e, i, j, k>> = Then(a, t)
  BY <1>1
<1> HIDE DEF t
<1>4. IsSeq(t)
  BY <1>2
<1>5. IsSeq(Then(a, t)) /\ Then(a, t) \o r = Then(a, t \o r)
  BY <1>4, ThenIs, ThenCat
<1> QED BY <1>2, <1>3, <1>4, <1>5

LEMMA Cat9 ==
  ASSUME NEW a, NEW b, NEW c, NEW d, NEW e, NEW i, NEW j, NEW k, NEW l, NEW r, IsSeq(r)
  PROVE  <<a, b, c, d, e, i, j, k, l>> \o r = Then(a, Then(b, Then(c, Then(d, Then(e, Then(i, Then(j, Then(k, Then(l, r))))))))) /\ <<a, b, c, d, e, i, j, k, l>> = Then(a, Then(b, Then(c, Then(d, Then(e, Then(i, Then(j, Then(k, Then(l, <<>>))))))))) /\ IsSeq(<<a, b, c, d, e, i, j, k, l>>)
<1>1. <<a, b, c, d, e, i, j, k, l>> = Then(a, <<b, c, d, e, i, j, k, l>>)
  BY DEF Then
<1> DEFINE t == <<b, c, d, e, i, j, k, l>>
<1>2. t \o r = Then(b, Then(c, Then(d, Then(e, Then(i, Then(j, Then(k, Then(l, r)))))))) /\ t = Then(b, Then(c, Then(d, Then(e, Then(i, Then(j, Then(k, Then(l, <<>>)))))))) /\ IsSeq(t)
  BY Cat8
<1>3. <<a, b, c, d, e, i, j, k, l>> = Then(a, t)
  BY <1>1
<1> HIDE DEF t
<1>4. IsSeq(t)
  BY <1>2
<1>5. IsSeq(Then(a, t)) /\ Then(a, t) \o r = Then(a, t \o r)
  BY <1>4, ThenIs, ThenCat
<1> QED BY <1>2, <1>3, <1>4, <1>5

----------------------------------------------------------------------------
(* Steps that leave the streams as they are.                               *)

LEMMA NotParting ==
  ASSUME NEW t, ~Doing(t, "swap"), ~Doing(t, "swapped"), NEW x
  PROVE  ~Parts(t, x)
<1> SUFFICES ASSUME Parts(t, x) PROVE FALSE
  OBVIOUS
<1>1. PICK f \in Stream : Head(todo[t]) = <<"swap", f, x>> \/ Head(todo[t]) = <<"swapped", f, x>>
  BY DEF Parts
<1>2. <<"swap", f, x>>[1] = "swap" /\ <<"swapped", f, x>>[1] = "swapped"
  OBVIOUS
<1>3. Head(todo[t])[1] = "swap" \/ Head(todo[t])[1] = "swapped"
  BY <1>1, <1>2
<1> QED BY <1>3 DEF Parts, Doing, Idle

LEMMA LeftClears ==
  ASSUME NEW q \in Place
  PROVE  ClearsOf(Left(q)) = IF q.l = "j2" THEN {q.f} ELSE IF q.l \in {"p3", "p4", "p5", "p6", "p7"} THEN {q.g} ELSE {}
<1>1. q.l \in Label /\ q.f \in Stream /\ q.g \in Stream /\ q.n \in Nat /\ ClearsOf(Left(q)) = ClearsOf(Plan(q.l, q.f, q.g, q.n))
  BY PlaceIs, LeftIs
<1> DEFINE l == q.l  f == q.f  g == q.g  n == q.n
<1>2. l \in Label /\ f \in Stream /\ g \in Stream /\ n \in Nat
  BY <1>1
<1> HIDE DEF l, f, g, n
<1>3. ClearsOf(Plan(l, f, g, n)) = IF l = "j2" THEN {f} ELSE IF l \in {"p3", "p4", "p5", "p6", "p7"} THEN {g} ELSE {}
  BY <1>2, PlanUses
<1> QED BY <1>1, <1>3 DEF l, f, g, n

LEMMA KeepsQuiet ==
  ASSUME SysInv, NEW t \in Thread, UNCHANGED streams, \A x \in Stream : held'[t][x] > 0 => held[t][x] > 0,
         \A x \in Stream : ~Parts(t, x), \A x \in Stream : x \in ClearsOf(todo[t]) => x \in ClearsOf(todo'[t]),
         \A x \in Stream : Engaged(t, x)' => Engaged(t, x)
  PROVE  Keeps(t)
<1>1. /\ mtx' = mtx /\ mode' = mode /\ push' = push /\ order' = order /\ touch' = touch
      /\ PushInv /\ PoolInv
  BY DEF streams, SysInv
<1>2. order' \in Seq(Pool) /\ order' # <<>> /\ \A i, j \in DOMAIN order' : order'[i] = order'[j] => i = j
  BY <1>1 DEF PoolInv
<1>3. \A x \in Stream : (Pushed(x) => mtx'[x] # None) /\ (Pushed(x) \/ x \in Pool => Open0(x)')
  BY <1>1 DEF PushInv, PoolInv, Open0
<1> QED BY <1>1, <1>2, <1>3 DEF Keeps

\* Such a step of a call.
Calm(p, q) ==
  \/ q.l = p.l /\ q.f = p.f /\ q.g = p.g
  \/ p.l \notin {"j2", "p3", "p4", "p5", "p6", "p7"}
  \/ p.l \in {"p3", "p4", "p5", "p6"} /\ q.l \in {"p4", "p5", "p6", "p7"} /\ q.g = p.g
LEMMA QuietTurn ==
  ASSUME LocksInv, NEW t \in Thread, NEW p \in Place, NEW q \in Place, Facts(t, p), todo'[t] = Left(q), Fits(t, p, q),
         q.ph = "take" => q.m \in {Asked(q)} \cup Spare, Calm(p, q),
         Only(t), Mine(t), TypeInv', UNCHANGED streams, \A x \in Stream : held'[t][x] > 0 => held[t][x] > 0,
         \A m \in Mutex : holder'[m] # None => holder[m] # None \/ m \in {PoolMutex, LibMutex} \/ \E x \in Stream : mtx[x] = m,
         Doing(t, "unlock") => Modest(t), ~Doing(t, "swap"), ~Doing(t, "swapped"),
         LocksAt(t, q)', MutexAt(t, q), TouchAt(t, q), ModeAt(q)
  PROVE  LocksInv'
<1>1. SysInv /\ TypeInv /\ mtx' = mtx /\ mode' = mode /\ push' = push /\ order' = order /\ touch' = touch
  BY DEF LocksInv, SysInv, streams
<1>2. MutexAt(t, q)' /\ TouchAt(t, q)' /\ ModeAt(q)'
  BY <1>1 DEF MutexAt, TouchAt, ModeAt, Open0, Asked
<1>3. \A u \in Thread \ {t} : \A r \in Place : Facts(u, r) => ModeAt(r)'
  BY <1>1 DEF Facts, ModeAt, Open0
<1>4. \A x \in Stream : x \in ClearsOf(todo[t]) => x \in ClearsOf(todo'[t])
  <2>1. ClearsOf(todo[t]) = IF p.l = "j2" THEN {p.f} ELSE IF p.l \in {"p3", "p4", "p5", "p6", "p7"} THEN {p.g} ELSE {}
    BY ClearsAt DEF Facts
  <2>2. ClearsOf(Left(q)) = IF q.l = "j2" THEN {q.f} ELSE IF q.l \in {"p3", "p4", "p5", "p6", "p7"} THEN {q.g} ELSE {}
    BY LeftClears
  <2> QED BY <2>1, <2>2 DEF Calm
<1>5. (\A x \in Stream : Engaged(t, x)' => Engaged(t, x)) => Keeps(t)
  BY <1>1, <1>4, NotParting, KeepsQuiet
<1> QED BY <1>1, <1>2, <1>3, <1>5, StepStays

\* And with the same streams.
LEMMA QuietStep ==
  ASSUME LocksInv, NEW t \in Thread, NEW p \in Place, NEW q \in Place, Facts(t, p), todo'[t] = Left(q), Goes(p, q),
         q.ph = "take" => q.m \in {Asked(q)} \cup Spare, Calm(p, q),
         Only(t), Mine(t), TypeInv', UNCHANGED streams, \A x \in Stream : held'[t][x] > 0 => held[t][x] > 0,
         \A m \in Mutex : holder'[m] # None => holder[m] # None \/ m \in {PoolMutex, LibMutex} \/ \E x \in Stream : mtx[x] = m,
         Doing(t, "unlock") => Modest(t), ~Doing(t, "swap"), ~Doing(t, "swapped"),
         LocksAt(t, q)', MutexAt(t, q), TouchAt(t, q), ModeAt(q)
  PROVE  LocksInv'
<1>1. SysInv /\ mtx' = mtx /\ push' = push /\ order' = order
  BY DEF LocksInv, streams
<1>2. Fits(t, p, q)
  BY <1>1, GoesFits
<1> QED BY <1>2, QuietTurn

----------------------------------------------------------------------------
(* sfmutex: the mutex of a stream.                                         *)

\* Leaving a place with the same label for the next phase of its lock.
Phases(p, ph, m) == To(ph, p.l, p.f, p.g, p.n, m)

LEMMA PhaseIs ==
  ASSUME NEW t, NEW p \in Place, Facts(t, p), p.ph # "on", NEW ph \in Phase, NEW m \in Mutex,
         p.l = "st2" => ph # "on"
  PROVE  LET q == Phases(p, ph, m)
         IN  /\ q \in Place /\ q.ph = ph /\ q.l = p.l /\ q.f = p.f /\ q.g = p.g /\ q.n = p.n /\ q.m = m
             /\ Asked(q) = Asked(p) /\ Plan(q.l, q.f, q.g, q.n) = Plan(p.l, p.f, p.g, p.n)
             /\ p.l # "u0" /\ Goes(p, q) /\ Calm(p, q) /\ TouchAt(t, q) /\ ModeAt(q)
<1> DEFINE q == Phases(p, ph, m)
<1>1. p.l \in Entry /\ TouchAt(t, p) /\ ModeAt(p)
  BY DEF Facts, At
<1>2. q \in Place /\ q.ph = ph /\ q.l = p.l /\ q.f = p.f /\ q.g = p.g /\ q.n = p.n /\ q.m = m
  BY PlaceIs, ToIs DEF Phases
<1> HIDE DEF q
<1>3. p.l # "u0"
  BY <1>1 DEF Entry
<1>4. Goes(p, q)
  BY <1>1, <1>2, <1>3 DEF Goes
<1>5. Calm(p, q) /\ TouchAt(t, q) /\ ModeAt(q) /\ Asked(q) = Asked(p)
  BY <1>1, <1>2 DEF Calm, TouchAt, ModeAt, Asked
<1> QED BY <1>2, <1>3, <1>4, <1>5 DEF q

LEMMA LockStep == ASSUME LocksInv, NEW t \in Thread, Lock(t) PROVE LocksInv'
<1>1. PICK p \in Place : Facts(t, p)
  BY DEF LocksInv, ThreadInv
<1>2. /\ Doing(t, "lock") /\ UNCHANGED <<locks, streams, held>>
      /\ TypeInv /\ MutexInv /\ At(t, p) /\ LocksAt(t, p) /\ MutexAt(t, p)
  BY <1>1 DEF Lock, LocksInv, SysInv, Facts
<1>3. p.ph = "lock"
  <2>1. (p.ph = "on" /\ OpOf(p.l) = "lock") \/ p.ph = "lock"
    BY <1>2, DoingAt
  <2>2. OpOf(p.l) = "lock" => p.l = "st2"
    BY PlaceIs, OpLabels
  <2> QED BY <1>2, <2>1, <2>2 DEF At
<1> DEFINE x == Asked(p)  rest == Plan(p.l, p.f, p.g, p.n)
<1>4. Head(todo[t]) = <<"lock", x>> /\ Tail(todo[t]) = rest
  BY <1>2, <1>3, LeftIs DEF At
<1>5. It(t) = x /\ x \in Stream
  BY <1>4, PlaceIs DEF It
<1>6. ~Doing(t, "unlock") /\ ~Doing(t, "swap") /\ ~Doing(t, "swapped")
  BY <1>2 DEF Doing
<1>7. locks' = locks /\ held' = held /\ UNCHANGED streams /\ TypeInv' /\ Mine(t)
  <2>1. DOMAIN todo' = Thread
    BY <1>2 DEF Lock, Instead, TypeInv
  <2> QED BY <1>2, <2>1, LockIdle DEF TypeInv, locks, streams
<1>8. \A m \in Mutex : holder'[m] # None => holder[m] # None
  BY <1>7 DEF locks
<1>9. CASE mtx[x] # None
  <2>1. PICK m \in Mutex : m = mtx[x]
    BY <1>2, <1>5, <1>9 DEF TypeInv
  <2>2. m \in {x} \cup Spare
    BY <1>2, <1>5, <1>9, <2>1 DEF MutexInv
  <2> DEFINE q == Phases(p, "take", m)
  <2>3. /\ q \in Place /\ q.ph = "take" /\ q.l = p.l /\ q.f = p.f /\ q.g = p.g /\ q.n = p.n /\ q.m = m
        /\ Asked(q) = x /\ Plan(q.l, q.f, q.g, q.n) = rest /\ Goes(p, q) /\ Calm(p, q) /\ TouchAt(t, q) /\ ModeAt(q)
    BY <1>1, <1>3, PhaseIs DEF Phase
  <2> HIDE DEF q
  <2>4. todo' = [todo EXCEPT ![t] = <<<<"take", m>>>> \o rest]
    BY <1>4, <1>5, <1>9, <2>1 DEF Lock, Instead
  <2>5. Only(t) /\ todo'[t] = Then(<<"take", m>>, rest)
    BY <1>2, <1>7, <2>4 DEF Only, TypeInv, Then
  <2>6. todo'[t] = Left(q)
    BY <2>3, <2>5 DEF Left
  <2>7. LocksAt(t, q)'
    <3>1. \A y \in Stream : Count(q, y) = Count(p, y)
      BY <1>3, <2>3 DEF Count
    <3> QED BY <1>2, <1>3, <1>7, <2>3, <3>1, OwnLocks DEF streams
  <2>8. MutexAt(t, q)
    BY <1>2, <1>3, <1>9, <2>1, <2>3 DEF MutexAt
  <2> QED BY <1>1, <1>6, <1>7, <1>8, <2>2, <2>3, <2>5, <2>6, <2>7, <2>8, QuietStep
<1>10. CASE mtx[x] = None
  <2> DEFINE q == Phases(p, "lib", LibMutex)
  <2>3. /\ q \in Place /\ q.ph = "lib" /\ q.l = p.l /\ q.f = p.f /\ q.g = p.g /\ q.n = p.n
        /\ Asked(q) = x /\ Plan(q.l, q.f, q.g, q.n) = rest /\ Goes(p, q) /\ Calm(p, q) /\ TouchAt(t, q) /\ ModeAt(q)
    BY <1>1, <1>3, PhaseIs, Names2 DEF Phase
  <2> HIDE DEF q
  <2>4. todo' = [todo EXCEPT ![t] =
          <<<<"take", LibMutex>>, <<"make", x>>, <<"drop", LibMutex>>, <<"lock", x>>>> \o rest]
    BY <1>4, <1>5, <1>10 DEF Lock, Instead
  <2>5. Only(t) /\ todo'[t] = <<<<"take", LibMutex>>, <<"make", x>>, <<"drop", LibMutex>>, <<"lock", x>>>> \o rest
    BY <1>2, <1>7, <2>4 DEF Only, TypeInv
  <2>6. todo'[t] = Left(q)
    <3>1. IsSeq(rest)
      BY LeftIs
    <3> HIDE DEF rest, x
    <3> DEFINE a == <<"take", LibMutex>>  b == <<"make", x>>  c == <<"drop", LibMutex>>  d == <<"lock", x>>
    <3> HIDE DEF a, b, c, d
    <3>2. <<a, b, c, d>> \o rest = Then(a, Then(b, Then(c, Then(d, rest))))
      BY <3>1, Cat4
    <3>9. todo'[t] = Then(a, Then(b, Then(c, Then(d, rest))))
      BY <2>5, <3>2 DEF a, b, c, d
    <3> QED BY <2>3, <3>9 DEF Left, a, b, c, d
  <2>7. LocksAt(t, q)'
    <3>1. \A y \in Stream : Count(q, y) = Count(p, y)
      BY <1>3, <2>3 DEF Count
    <3> QED BY <1>2, <1>3, <1>7, <2>3, <3>1, OwnLocks DEF streams
  <2>8. MutexAt(t, q)
    BY <1>2, <1>3, <1>10, <2>3 DEF MutexAt
  <2> QED BY <1>1, <1>6, <1>7, <1>8, <2>3, <2>5, <2>6, <2>7, <2>8, QuietStep
<1> QED BY <1>9, <1>10

=============================================================================
