---------------------------- MODULE SfLockProofs ----------------------------
(***************************************************************************)
(* Theorems about SfLock for any threads, streams, stacks and calls of a   *)
(* careful application: one thread at a time is in a stream, no threads    *)
(* wait in a circle, stacks are sound, calls leave no lock behind and      *)
(* touch no freed stream.                                                  *)
(***************************************************************************)
EXTENDS SfLockInvariant

----------------------------------------------------------------------------
(* Steps that take and give back a mutex.                                  *)

\* What vtmtxlock and vtmtxunlock do to the counts of the thread.
LEMMA TakeOwn ==
  ASSUME TypeInv, NEW t \in Thread, NEW m \in Mutex, holder[m] \in {None, t}, mtx' = mtx,
         holder' = [holder EXCEPT ![m] = t], depth' = [depth EXCEPT ![m] = @ + 1]
  PROVE  /\ Mine(t) /\ \A k \in Mutex : holder'[k] # None => holder[k] # None \/ k = m
         /\ holder' \in [Mutex -> Thread \cup {None}] /\ depth' \in [Mutex -> Nat]
         /\ \A k \in Mutex : holder'[k] = None <=> depth'[k] = 0
         /\ \A k \in Mutex : Own(t, k)' = Own(t, k) + (IF k = m THEN 1 ELSE 0)
         /\ \A x \in Stream : Own(t, mtx[x])' = Own(t, mtx[x]) + (IF mtx[x] = m THEN 1 ELSE 0)
<1>1. /\ holder \in [Mutex -> Thread \cup {None}] /\ depth \in [Mutex -> Nat] /\ None \notin Mutex /\ None \notin Thread
      /\ \A k \in Mutex : holder[k] = None <=> depth[k] = 0
  BY Names2 DEF TypeInv
<1>2. /\ holder'[m] = t /\ depth'[m] = depth[m] + 1
      /\ \A k \in Mutex \ {m} : holder'[k] = holder[k] /\ depth'[k] = depth[k]
  BY <1>1
<1>3. holder' \in [Mutex -> Thread \cup {None}] /\ depth' \in [Mutex -> Nat]
  BY <1>1
<1>4. \A k \in Mutex : holder'[k] = None <=> depth'[k] = 0
  BY <1>1, <1>2
<1>5. Mine(t) /\ \A k \in Mutex : holder'[k] # None => holder[k] # None \/ k = m
  BY <1>2 DEF Mine
<1>6. \A k \in Mutex : Own(t, k)' = Own(t, k) + (IF k = m THEN 1 ELSE 0)
  BY <1>1, <1>2 DEF Own
<1>7. \A x \in Stream : Own(t, mtx[x])' = Own(t, mtx[x]) + (IF mtx[x] = m THEN 1 ELSE 0)
  <2> SUFFICES ASSUME NEW x \in Stream PROVE Own(t, mtx[x])' = Own(t, mtx[x]) + (IF mtx[x] = m THEN 1 ELSE 0)
    OBVIOUS
  <2>1. CASE mtx[x] = None
    BY <1>1, <2>1 DEF Own
  <2>2. CASE mtx[x] # None
    <3>1. PICK k \in Mutex : k = mtx[x]
      BY <2>2 DEF TypeInv
    <3>2. Own(t, k)' = Own(t, k) + (IF k = m THEN 1 ELSE 0)
      BY <1>6
    <3> QED BY <3>1, <3>2 DEF Own
  <2> QED BY <2>1, <2>2
<1> QED BY <1>3, <1>4, <1>5, <1>6, <1>7

LEMMA DropOwn ==
  ASSUME TypeInv, NEW t \in Thread, NEW m \in Mutex, Drop(t, m), mtx' = mtx
  PROVE  /\ Mine(t) /\ \A k \in Mutex : holder'[k] # None => holder[k] # None
         /\ holder' \in [Mutex -> Thread \cup {None}] /\ depth' \in [Mutex -> Nat]
         /\ \A k \in Mutex : holder'[k] = None <=> depth'[k] = 0
         /\ \A k \in Mutex : Own(t, k)' = Own(t, k) - (IF k = m /\ Own(t, k) > 0 THEN 1 ELSE 0)
         /\ \A x \in Stream : Own(t, mtx[x])' = Own(t, mtx[x]) - (IF mtx[x] = m /\ Own(t, mtx[x]) > 0 THEN 1 ELSE 0)
<1>1. /\ holder \in [Mutex -> Thread \cup {None}] /\ depth \in [Mutex -> Nat] /\ None \notin Mutex /\ None \notin Thread
      /\ \A k \in Mutex : holder[k] = None <=> depth[k] = 0
  BY Names2 DEF TypeInv
<1>2. \/ /\ holder[m] = t /\ depth[m] # 0 /\ depth'[m] = depth[m] - 1 /\ holder'[m] = (IF depth[m] = 1 THEN None ELSE t)
         /\ \A k \in Mutex \ {m} : holder'[k] = holder[k] /\ depth'[k] = depth[k]
      \/ holder[m] # t /\ holder' = holder /\ depth' = depth
  BY <1>1 DEF Drop, locks
<1>3. holder' \in [Mutex -> Thread \cup {None}] /\ depth' \in [Mutex -> Nat]
  BY <1>1 DEF Drop, locks
<1>4. \A k \in Mutex : holder'[k] = None <=> depth'[k] = 0
  BY <1>1, <1>2
<1>5. Mine(t) /\ \A k \in Mutex : holder'[k] # None => holder[k] # None
  BY <1>1, <1>2 DEF Mine
<1>6. \A k \in Mutex : Own(t, k)' = Own(t, k) - (IF k = m /\ Own(t, k) > 0 THEN 1 ELSE 0)
  BY <1>1, <1>2 DEF Own
<1>7. \A x \in Stream : Own(t, mtx[x])' = Own(t, mtx[x]) - (IF mtx[x] = m /\ Own(t, mtx[x]) > 0 THEN 1 ELSE 0)
  <2> SUFFICES ASSUME NEW x \in Stream
               PROVE  Own(t, mtx[x])' = Own(t, mtx[x]) - (IF mtx[x] = m /\ Own(t, mtx[x]) > 0 THEN 1 ELSE 0)
    OBVIOUS
  <2>1. CASE mtx[x] = None
    BY <1>1, <2>1 DEF Own
  <2>2. CASE mtx[x] # None
    <3>1. PICK k \in Mutex : k = mtx[x]
      BY <2>2 DEF TypeInv
    <3>2. Own(t, k)' = Own(t, k) - (IF k = m /\ Own(t, k) > 0 THEN 1 ELSE 0)
      BY <1>6
    <3> QED BY <3>1, <3>2 DEF Own
  <2> QED BY <2>1, <2>2
<1> QED BY <1>3, <1>4, <1>5, <1>6, <1>7

\* The mutexes of streams are their own and not those of the pool and the library.
LEMMA MutexOf ==
  ASSUME TypeInv, MutexInv
  PROVE  /\ \A x \in Stream : mtx[x] # PoolMutex /\ mtx[x] # LibMutex
         /\ \A x, y \in Stream : mtx[x] # None /\ mtx[x] = mtx[y] => x = y
  BY Names2 DEF MutexInv

LEMMA TakeStep == ASSUME LocksInv, NEW t \in Thread, Take(t) PROVE LocksInv'
<1>1. PICK p \in Place : Facts(t, p)
  BY DEF LocksInv, ThreadInv
<1>2. /\ Doing(t, "take") /\ UNCHANGED <<streams, held>> /\ Grantable(t, It(t))
      /\ SysInv /\ TypeInv /\ MutexInv /\ At(t, p) /\ LocksAt(t, p) /\ MutexAt(t, p) /\ TouchAt(t, p) /\ ModeAt(p)
  BY <1>1 DEF Take, LocksInv, SysInv, Facts
<1>3. /\ p.ph \in Phase /\ p.l \in Label /\ p.f \in Stream /\ p.g \in Stream /\ p.n \in Nat /\ p.m \in Mutex
      /\ Asked(p) \in Stream
  BY PlaceIs
<1>4. ~Doing(t, "unlock") /\ ~Doing(t, "swap") /\ ~Doing(t, "swapped")
  BY <1>2 DEF Doing
<1>5. held' = held /\ UNCHANGED streams /\ mtx' = mtx /\ DOMAIN todo' = Thread
  BY <1>2 DEF streams, Take, Done, TypeInv
<1>6. Only(t) /\ todo'[t] = Tail(todo[t])
  BY <1>2, <1>5 DEF Take, Done, Only, TypeInv
<1>7. PICK m \in Mutex :
        /\ m = It(t)
        /\ \/ p.ph = "lib" /\ m = LibMutex
           \/ p.ph = "take" /\ m = p.m /\ m = mtx[Asked(p)]
           \/ p.ph = "on" /\ p.l = "p1" /\ m = PoolMutex
  <2>1. \/ /\ p.ph = "on" /\ p.l # "idle" /\ OpOf(p.l) = "take"
           /\ Head(todo[t]) = Head(Plan(p.l, p.f, p.g, p.n))
        \/ p.ph \in {"lib", "take"}
    BY <1>2, DoingAt
  <2>2. OpOf(p.l) = "take" => p.l = "p1"
    BY <1>3, OpLabels
  <2>3. CASE p.ph = "on"
    <3>1. HeadsAre(p.f, p.g, p.n)
      BY <1>3, Heads
    <3>2. Head(todo[t]) = <<"take", PoolMutex>>
      BY <2>1, <2>2, <2>3, <3>1 DEF HeadsAre
    <3>3. It(t) = PoolMutex
      BY <3>2 DEF It
    <3> QED BY <2>1, <2>2, <2>3, <3>3, Names2
  <2>4. CASE p.ph = "lib"
    <3>1. Head(todo[t]) = <<"take", LibMutex>>
      BY <1>2, <2>4, LeftIs DEF At
    <3>2. It(t) = LibMutex
      BY <3>1 DEF It
    <3> QED BY <2>4, <3>2, Names2
  <2>5. CASE p.ph = "take"
    <3>1. Head(todo[t]) = <<"take", p.m>>
      BY <1>2, <2>5, LeftIs DEF At
    <3>2. It(t) = p.m
      BY <3>1 DEF It
    <3>3. p.m = mtx[Asked(p)]
      BY <1>2, <2>5 DEF MutexAt
    <3> QED BY <1>3, <2>5, <3>2, <3>3
  <2> QED BY <2>1, <2>3, <2>4, <2>5
<1>8. /\ Mine(t) /\ \A k \in Mutex : holder'[k] # None => holder[k] # None \/ k = m
      /\ holder' \in [Mutex -> Thread \cup {None}] /\ depth' \in [Mutex -> Nat]
      /\ \A k \in Mutex : holder'[k] = None <=> depth'[k] = 0
      /\ \A k \in Mutex : Own(t, k)' = Own(t, k) + (IF k = m THEN 1 ELSE 0)
      /\ \A x \in Stream : Own(t, mtx[x])' = Own(t, mtx[x]) + (IF mtx[x] = m THEN 1 ELSE 0)
  <2>1. holder[m] \in {None, t}
    BY <1>2, <1>7 DEF Grantable
  <2>2. holder' = [holder EXCEPT ![m] = t] /\ depth' = [depth EXCEPT ![m] = @ + 1]
    BY <1>7 DEF Take
  <2> QED BY <1>2, <1>5, <2>1, <2>2, TakeOwn
<1>9. TypeInv'
  BY <1>2, <1>5, <1>8 DEF TypeInv, streams
<1>10. \A k \in Mutex : holder'[k] # None => holder[k] # None \/ k \in {PoolMutex, LibMutex} \/ \E x \in Stream : mtx[x] = k
  BY <1>3, <1>7, <1>8
<1>11. ASSUME NEW q \in Place, \A x \in Stream : Count(q, x) = Count(p, x) + (IF mtx[x] = m THEN 1 ELSE 0),
              q.ph \in {"make", "drop"} <=> p.ph \in {"make", "drop"} \/ m = LibMutex,
              q.l \in {"p2", "p3", "p4", "p5", "p6", "p7", "p8", "pf"}
                <=> p.l \in {"p2", "p3", "p4", "p5", "p6", "p7", "p8", "pf"} \/ m = PoolMutex,
              m = LibMutex => p.ph \notin {"make", "drop"},
              m = PoolMutex => p.l \notin {"p2", "p3", "p4", "p5", "p6", "p7", "p8", "pf"}
       PROVE  LocksAt(t, q)'
  <2>1. \A x \in Stream : Own(t, mtx[x]) \in Nat /\ held[t][x] \in Nat /\ held'[t][x] = held[t][x] /\ Count(p, x) \in Int
    BY <1>2, <1>5, OwnIs, CountIs
  <2>2. \A x \in Stream : held'[t][x] + Count(q, x)' = Own(t, mtx[x])'
    <3>1. \A x \in Stream : Count(q, x)' = Count(q, x)
      BY DEF Count, Asked
    <3>2. \A x \in Stream : held[t][x] + Count(p, x) = Own(t, mtx[x])
      BY <1>2 DEF LocksAt
    <3> QED BY <1>8, <1>11, <2>1, <3>1, <3>2
  <2>3. Own(t, LibMutex)' = IF q.ph \in {"make", "drop"} THEN 1 ELSE 0
    BY <1>2, <1>8, <1>11, Names2 DEF LocksAt
  <2>4. Own(t, PoolMutex)' = IF q.l \in {"p2", "p3", "p4", "p5", "p6", "p7", "p8", "pf"} THEN 1 ELSE 0
    BY <1>2, <1>8, <1>11, Names2 DEF LocksAt
  <2> QED BY <2>2, <2>3, <2>4 DEF LocksAt
<1>12. CASE p.ph = "lib"
  <2> DEFINE q == Phases(p, "make", LibMutex)
  <2>1. /\ q \in Place /\ q.ph = "make" /\ q.l = p.l /\ q.f = p.f /\ q.g = p.g /\ q.n = p.n
        /\ Asked(q) = Asked(p) /\ Plan(q.l, q.f, q.g, q.n) = Plan(p.l, p.f, p.g, p.n)
        /\ Goes(p, q) /\ Calm(p, q) /\ TouchAt(t, q) /\ ModeAt(q)
    BY <1>1, <1>12, PhaseIs, Names2 DEF Phase
  <2> HIDE DEF q
  <2>2. m = LibMutex /\ m # PoolMutex /\ \A x \in Stream : mtx[x] # m
    BY <1>2, <1>7, <1>12, MutexOf, Names2
  <2>3. todo'[t] = Left(q)
    BY <1>2, <1>6, <1>12, <2>1, LeftIs DEF At, Left
  <2>4. \A x \in Stream : Count(q, x) = Count(p, x)
    BY <1>12, <2>1 DEF Count
  <2>5. LocksAt(t, q)'
    BY <1>11, <1>12, <2>1, <2>2, <2>4, CountIs DEF At, Entry, Facts, LocksAt
  <2>6. MutexAt(t, q)
    BY <1>2, <1>12, <2>1 DEF MutexAt
  <2> QED BY <1>1, <1>4, <1>5, <1>6, <1>8, <1>9, <1>10, <2>1, <2>3, <2>5, <2>6, QuietStep
<1>13. CASE p.ph = "take" /\ p.l # "st2"
  <2> DEFINE q == Phases(p, "on", LibMutex)
  <2>1. /\ q \in Place /\ q.ph = "on" /\ q.l = p.l /\ q.f = p.f /\ q.g = p.g /\ q.n = p.n
        /\ Asked(q) = Asked(p) /\ Plan(q.l, q.f, q.g, q.n) = Plan(p.l, p.f, p.g, p.n)
        /\ Goes(p, q) /\ Calm(p, q) /\ TouchAt(t, q) /\ ModeAt(q)
    BY <1>1, <1>13, PhaseIs, Names2 DEF Phase
  <2> HIDE DEF q
  <2>2. m # LibMutex /\ m # PoolMutex /\ \A x \in Stream : mtx[x] = m <=> x = Asked(p)
    BY <1>2, <1>3, <1>7, <1>13, MutexOf, Names2
  <2>3. todo'[t] = Left(q)
    BY <1>2, <1>6, <1>13, <2>1, LeftIs DEF At, Left
  <2>4. \A x \in Stream : Count(q, x) = Count(p, x) + (IF mtx[x] = m THEN 1 ELSE 0)
    <3>1. CountF(p.l) \in 0 .. 2 /\ CountG(p.l) \in 0 .. 1
      BY DEF CountF, CountG
    <3> QED BY <1>13, <2>1, <2>2, <3>1 DEF Count
  <2>5. LocksAt(t, q)'
    BY <1>11, <1>13, <2>1, <2>2, <2>4
  <2>6. MutexAt(t, q)
    BY <1>2, <1>13, <2>1 DEF MutexAt
  <2> QED BY <1>1, <1>4, <1>5, <1>6, <1>8, <1>9, <1>10, <2>1, <2>3, <2>5, <2>6, QuietStep
<1>14. CASE p.ph = "take" /\ p.l = "st2"
  <2> DEFINE q == To("lock", "st3", p.f, p.g, p.n, LibMutex)
  <2>1. q \in Place /\ q.ph = "lock" /\ q.l = "st3" /\ q.f = p.f /\ q.g = p.g /\ q.n = p.n
    BY <1>3, ToIs, Names2 DEF Phase, Label, Two
  <2> HIDE DEF q
  <2>2. m # LibMutex /\ m # PoolMutex /\ \A x \in Stream : mtx[x] = m <=> x = p.f
    BY <1>2, <1>3, <1>7, <1>14, MutexOf, Names2 DEF Asked
  <2>3. todo'[t] = Left(q)
    <3>1. Tail(todo[t]) = Plan("st2", p.f, p.g, p.n)
      BY <1>2, <1>14, LeftIs DEF At
    <3>2. PlansAre(p.f, p.g, p.n)
      BY Plans
    <3>3. todo'[t] = Then(<<"lock", p.g>>, Plan("st3", p.f, p.g, p.n))
      BY <1>6, <3>1, <3>2 DEF PlansAre
    <3> QED BY <2>1, <3>3 DEF Left, Asked
  <2>4. p.f # p.g /\ Goes(p, q) /\ Calm(p, q) /\ TouchAt(t, q) /\ ModeAt(q)
    <3>1. p.f # p.g
      BY <1>2, <1>14 DEF At, Two
    <3>2. Goes(p, q)
      <4>1. Moves("st2", "st3")
        BY DEF Moves
      <4>2. q.l \in Entry /\ q.l # "st2" /\ q.l # "idle"
        BY <2>1 DEF Entry
      <4> QED BY <1>14, <2>1, <4>1, <4>2 DEF Goes
    <3>3. Calm(p, q)
      BY <1>14, <2>1 DEF Calm
    <3>4. TouchAt(t, q)
      BY <1>2, <1>14, <2>1 DEF TouchAt
    <3>5. ModeAt(q)
      BY <2>1 DEF ModeAt
    <3> QED BY <3>1, <3>2, <3>3, <3>4, <3>5
  <2>5. LocksAt(t, q)'
    <3>1. \A x \in Stream : Count(q, x) = Count(p, x) + (IF mtx[x] = m THEN 1 ELSE 0)
      BY <1>14, <2>1, <2>2, <2>4 DEF Count, CountF, CountG, Asked
    <3> QED BY <1>11, <1>14, <2>1, <2>2, <3>1
  <2>6. MutexAt(t, q)
    BY <2>1 DEF MutexAt
  <2> QED BY <1>1, <1>4, <1>5, <1>6, <1>8, <1>9, <1>10, <2>1, <2>3, <2>4, <2>5, <2>6, QuietStep
<1>15. CASE p.ph = "on"
  <2> DEFINE q == To("on", "p2", p.f, p.g, p.n, LibMutex)
  <2>1. q \in Place /\ q.ph = "on" /\ q.l = "p2" /\ q.f = p.f /\ q.g = p.g /\ q.n = p.n
    BY <1>3, ToIs, Names2 DEF Phase, Label
  <2> HIDE DEF q
  <2>2. m = PoolMutex /\ m # LibMutex /\ p.l = "p1" /\ \A x \in Stream : mtx[x] # m
    BY <1>2, <1>7, <1>15, MutexOf, Names2
  <2>3. todo'[t] = Left(q)
    <3>1. todo[t] = Plan("p1", p.f, p.g, p.n)
      BY <1>2, <1>15, <2>2, LeftIs DEF At
    <3>2. HeadsAre(p.f, p.g, p.n)
      BY <1>3, Heads
    <3>3. PlansAre(p.f, p.g, p.n)
      BY Plans
    <3>4. Tail(Plan("p1", p.f, p.g, p.n)) = P2(p.f, p.n)
      BY <3>2 DEF HeadsAre
    <3>5. Plan("p2", p.f, p.g, p.n) = P2(p.f, p.n)
      BY <3>3 DEF PlansAre
    <3> QED BY <1>6, <2>1, <3>1, <3>4, <3>5, LeftIs
  <2>4. Goes(p, q) /\ Calm(p, q) /\ TouchAt(t, q) /\ ModeAt(q)
    <3>1. Moves("p1", "p2")
      BY DEF Moves
    <3>2. Goes(p, q)
      BY <2>1, <2>2, <3>1 DEF Goes
    <3>3. Calm(p, q)
      BY <2>2 DEF Calm
    <3>4. TouchAt(t, q)
      BY <1>2, <2>1, <2>2 DEF TouchAt
    <3>5. ModeAt(q)
      BY <2>1 DEF ModeAt
    <3> QED BY <3>2, <3>3, <3>4, <3>5
  <2>5. LocksAt(t, q)'
    <3>1. \A x \in Stream : Count(q, x) = Count(p, x)
      BY <1>15, <2>1, <2>2 DEF Count, CountF, CountG
    <3> QED BY <1>11, <1>15, <2>1, <2>2, <3>1, CountIs
  <2>6. MutexAt(t, q)
    BY <2>1 DEF MutexAt
  <2> QED BY <1>1, <1>4, <1>5, <1>6, <1>8, <1>9, <1>10, <2>1, <2>3, <2>4, <2>5, <2>6, QuietStep
<1> QED BY <1>7, <1>12, <1>13, <1>14, <1>15

\* What Unlock does.
LEMMA UnlockDoes ==
  ASSUME LocksInv, NEW t \in Thread, NEW m \in Mutex \cup {None}, Unlock(t), m = IF Doing(t, "drop") THEN It(t) ELSE mtx[It(t)]
  PROVE  /\ Only(t) /\ Mine(t) /\ TypeInv' /\ UNCHANGED streams /\ mtx' = mtx /\ held' = held /\ todo'[t] = Tail(todo[t])
         /\ push' = push /\ order' = order /\ ~Doing(t, "swap") /\ ~Doing(t, "swapped")
         /\ \A k \in Mutex : holder'[k] # None => holder[k] # None
         /\ \A k \in Mutex : Own(t, k)' = Own(t, k) - (IF k = m /\ Own(t, k) > 0 THEN 1 ELSE 0)
         /\ \A x \in Stream : Own(t, mtx[x])' = Own(t, mtx[x]) - (IF mtx[x] = m /\ Own(t, mtx[x]) > 0 THEN 1 ELSE 0)
<1>1. TypeInv /\ None \notin Mutex /\ DOMAIN todo = Thread
  BY Names2 DEF LocksInv, SysInv, TypeInv
<1>2. /\ UNCHANGED streams /\ mtx' = mtx /\ push' = push /\ order' = order /\ held' = held
      /\ todo'[t] = Tail(todo[t]) /\ Only(t) /\ DOMAIN todo' = Thread
  BY <1>1 DEF Unlock, Done, streams, Only
<1>3. ~Doing(t, "swap") /\ ~Doing(t, "swapped")
  BY DEF Unlock, Doing
<1>4. /\ Mine(t) /\ \A k \in Mutex : holder'[k] # None => holder[k] # None
      /\ holder' \in [Mutex -> Thread \cup {None}] /\ depth' \in [Mutex -> Nat]
      /\ \A k \in Mutex : holder'[k] = None <=> depth'[k] = 0
      /\ \A k \in Mutex : Own(t, k)' = Own(t, k) - (IF k = m /\ Own(t, k) > 0 THEN 1 ELSE 0)
      /\ \A x \in Stream : Own(t, mtx[x])' = Own(t, mtx[x]) - (IF mtx[x] = m /\ Own(t, mtx[x]) > 0 THEN 1 ELSE 0)
  <2>1. CASE m = None
    <3>1. holder' = holder /\ depth' = depth
      BY <2>1 DEF Unlock, locks
    <3>2. \A k \in Mutex \cup {None} : Own(t, k)' = Own(t, k) /\ Own(t, k) \in Nat
      BY <1>1, <3>1, OwnIs DEF Own
    <3>3. \A x \in Stream : mtx[x] \in Mutex \cup {None} /\ Own(t, None) = 0
      BY <1>1 DEF TypeInv, Own
    <3>4. \A x \in Stream : Own(t, mtx[x])' = Own(t, mtx[x])
      BY <1>2, <3>1 DEF Own
    <3> QED BY <1>1, <2>1, <3>1, <3>2, <3>3, <3>4 DEF TypeInv, Mine
  <2>2. CASE m # None
    <3>1. m \in Mutex /\ Drop(t, m)
      BY <2>2 DEF Unlock
    <3> QED BY <1>1, <1>2, <3>1, DropOwn
  <2> QED BY <2>1, <2>2
<1>5. TypeInv'
  BY <1>1, <1>2, <1>4 DEF TypeInv, streams
<1> QED BY <1>2, <1>3, <1>4, <1>5

\* A thread that gives back its last lock of a stream is done with it.
LEMMA UnlockModest ==
  ASSUME LocksInv, NEW t \in Thread, NEW p \in Place, NEW q \in Place, Facts(t, p), Unlock(t), todo'[t] = Left(q), held' = held,
         todo'[t] = Tail(todo[t]), q.ph # "on" => q.l \in Entry, q.ph = "take" => q.m \in {Asked(q)} \cup Spare,
         About(q) \subseteq About(p)
  PROVE  Modest(t)
<1>1. \A x \in Stream : Engaged(t, x)' => Engaged(t, x)
  BY NoNewUse DEF LocksInv
<1>2. ASSUME NEW x \in Stream, Leaves(t, x) PROVE ~Engaged(t, x)'
  <2>1. Tail(todo[t]) = <<>>
    BY <1>2, ThenIs, EmptyIs DEF Leaves, UnlockF
  <2>2. held'[t][x] = 0
    BY <1>2 DEF Leaves
  <2>3. UsesOf(todo'[t]) = {}
    BY <2>1, EmptyHas
  <2>4. ~Using(t, x)'
    BY <2>1, EmptyIs DEF Using
  <2> QED BY <2>2, <2>4 DEF Engaged
<1> QED BY <1>1, <1>2 DEF Modest

LEMMA UnlockTurn ==
  ASSUME LocksInv, NEW t \in Thread, NEW p \in Place, NEW q \in Place, Facts(t, p), Unlock(t), Doing(t, "unlock"),
         Tail(todo[t]) = Left(q), Fits(t, p, q), p.ph = "on", q.ph \in {"on", "lock"}, Calm(p, q), MutexAt(t, q), TouchAt(t, q), ModeAt(q),
         NEW x \in Stream, It(t) = x,
         \A y \in Stream : Count(q, y) = Count(p, y) - (IF y = x /\ Own(t, mtx[x]) > 0 THEN 1 ELSE 0),
         q.l \in {"p2", "p3", "p4", "p5", "p6", "p7", "p8", "pf"} <=> p.l \in {"p2", "p3", "p4", "p5", "p6", "p7", "p8", "pf"}
  PROVE  LocksInv'
<1>1. TypeInv /\ MutexInv /\ LocksAt(t, p)
  BY DEF LocksInv, SysInv, Facts
<1>2. PICK m : m = mtx[x]
  OBVIOUS
<1>3. m \in Mutex \cup {None} /\ m = (IF Doing(t, "drop") THEN It(t) ELSE mtx[It(t)])
  BY <1>1, <1>2 DEF Doing, TypeInv
<1>4. /\ Only(t) /\ Mine(t) /\ TypeInv' /\ UNCHANGED streams /\ mtx' = mtx /\ held' = held /\ todo'[t] = Tail(todo[t])
      /\ ~Doing(t, "swap") /\ ~Doing(t, "swapped") /\ \A k \in Mutex : holder'[k] # None => holder[k] # None
      /\ \A k \in Mutex : Own(t, k)' = Own(t, k) - (IF k = m /\ Own(t, k) > 0 THEN 1 ELSE 0)
      /\ \A y \in Stream : Own(t, mtx[y])' = Own(t, mtx[y]) - (IF mtx[y] = m /\ Own(t, mtx[y]) > 0 THEN 1 ELSE 0)
  BY <1>3, UnlockDoes
<1>5. \A y \in Stream : (mtx[y] = m /\ Own(t, mtx[y]) > 0) <=> (y = x /\ Own(t, mtx[x]) > 0)
  <2>1. Own(t, None) = 0
    BY DEF Own
  <2> QED BY <1>1, <1>2, <2>1, MutexOf
<1>6. m # LibMutex /\ m # PoolMutex
  BY <1>1, <1>2, MutexOf
<1>7. LocksAt(t, q)'
  <2>1. \A y \in Stream : held'[t][y] + Count(q, y)' = Own(t, mtx[y])'
    <3>1. \A y \in Stream : Count(q, y)' = Count(q, y)
      BY DEF Count, Asked
    <3>2. \A y \in Stream : held[t][y] + Count(p, y) = Own(t, mtx[y])
      BY <1>1 DEF LocksAt
    <3>3. \A y \in Stream : Own(t, mtx[y]) \in Nat /\ held[t][y] \in Nat /\ Count(p, y) \in Int
      BY <1>1, OwnIs, CountIs
    <3> QED BY <1>4, <1>5, <3>1, <3>2, <3>3
  <2>2. Own(t, LibMutex)' = Own(t, LibMutex) /\ Own(t, PoolMutex)' = Own(t, PoolMutex)
    BY <1>1, <1>4, <1>6, Names2, OwnIs
  <2> QED BY <1>1, <2>1, <2>2 DEF LocksAt
<1>8. q.ph = "take" => q.m \in {Asked(q)} \cup Spare
  OBVIOUS
<1>9. Modest(t)
  BY <1>4, <1>8, UnlockModest DEF Fits
<1> QED BY <1>4, <1>7, <1>8, <1>9, QuietTurn

\* The same to a place with the same streams.
LEMMA UnlockGoes ==
  ASSUME LocksInv, NEW t \in Thread, NEW p \in Place, NEW q \in Place, Facts(t, p), Unlock(t), Doing(t, "unlock"),
         Tail(todo[t]) = Left(q), Goes(p, q), p.ph = "on", q.ph \in {"on", "lock"}, Calm(p, q), MutexAt(t, q), TouchAt(t, q), ModeAt(q),
         NEW x \in Stream, It(t) = x,
         \A y \in Stream : Count(q, y) = Count(p, y) - (IF y = x /\ Own(t, mtx[x]) > 0 THEN 1 ELSE 0),
         q.l \in {"p2", "p3", "p4", "p5", "p6", "p7", "p8", "pf"} <=> p.l \in {"p2", "p3", "p4", "p5", "p6", "p7", "p8", "pf"}
  PROVE  LocksInv'
<1>1. PICK m : m = IF Doing(t, "drop") THEN It(t) ELSE mtx[It(t)]
  OBVIOUS
<1>2. m \in Mutex \cup {None}
  BY <1>1 DEF Doing, LocksInv, SysInv, TypeInv
<1>3. Only(t) /\ Mine(t) /\ TypeInv' /\ mtx' = mtx /\ push' = push /\ order' = order /\ held' = held
  BY <1>1, <1>2, UnlockDoes
<1>4. Fits(t, p, q)
  BY <1>3, GoesFits DEF LocksInv
<1> QED BY <1>4, UnlockTurn

\* vtmtxunlock of the mutex of the pool or the library.
LEMMA DropGoes ==
  ASSUME LocksInv, NEW t \in Thread, NEW p \in Place, NEW q \in Place, Facts(t, p), Unlock(t), Doing(t, "drop"),
         Tail(todo[t]) = Left(q), Goes(p, q), q.ph \in {"on", "lock"}, Calm(p, q), MutexAt(t, q), TouchAt(t, q), ModeAt(q),
         NEW m \in {PoolMutex, LibMutex}, It(t) = m, \A y \in Stream : Count(q, y) = Count(p, y),
         m = LibMutex <=> p.ph = "drop", m = LibMutex => p.l = q.l,
         m = PoolMutex => /\ p.l \in {"p2", "p3", "p4", "p5", "p6", "p7", "p8", "pf"}
                          /\ q.l \notin {"p2", "p3", "p4", "p5", "p6", "p7", "p8", "pf"} /\ p.ph = "on"
  PROVE  LocksInv'
<1>1. TypeInv /\ MutexInv /\ LocksAt(t, p)
  BY DEF LocksInv, SysInv, Facts
<1>2. m \in Mutex \cup {None} /\ m = IF Doing(t, "drop") THEN It(t) ELSE mtx[It(t)]
  BY Names2
<1>3. /\ Only(t) /\ Mine(t) /\ TypeInv' /\ UNCHANGED streams /\ mtx' = mtx /\ held' = held /\ todo'[t] = Tail(todo[t])
      /\ push' = push /\ order' = order
      /\ ~Doing(t, "swap") /\ ~Doing(t, "swapped") /\ \A k \in Mutex : holder'[k] # None => holder[k] # None
      /\ \A k \in Mutex : Own(t, k)' = Own(t, k) - (IF k = m /\ Own(t, k) > 0 THEN 1 ELSE 0)
      /\ \A y \in Stream : Own(t, mtx[y])' = Own(t, mtx[y]) - (IF mtx[y] = m /\ Own(t, mtx[y]) > 0 THEN 1 ELSE 0)
  BY <1>2, UnlockDoes
<1>4. \A y \in Stream : mtx[y] # m
  BY <1>1, MutexOf
<1>5. LocksAt(t, q)'
  <2>1. \A y \in Stream : held'[t][y] + Count(q, y)' = Own(t, mtx[y])'
    <3>1. \A y \in Stream : Count(q, y)' = Count(q, y)
      BY DEF Count, Asked
    <3>2. \A y \in Stream : held[t][y] + Count(p, y) = Own(t, mtx[y])
      BY <1>1 DEF LocksAt
    <3>3. \A y \in Stream : Own(t, mtx[y]) \in Nat /\ held[t][y] \in Nat /\ Count(p, y) \in Int
      BY <1>1, OwnIs, CountIs
    <3> QED BY <1>3, <1>4, <3>1, <3>2, <3>3
  <2>2. Own(t, LibMutex)' = (IF m = LibMutex THEN 0 ELSE Own(t, LibMutex))
        /\ Own(t, PoolMutex)' = (IF m = PoolMutex THEN 0 ELSE Own(t, PoolMutex))
    BY <1>1, <1>3, Names2, OwnIs DEF LocksAt
  <2> QED BY <1>1, <2>1, <2>2, Names2 DEF LocksAt
<1>6. Fits(t, p, q)
  BY <1>3, GoesFits DEF LocksInv
<1>7. Doing(t, "unlock") => Modest(t)
  BY DEF Doing
<1> QED BY <1>3, <1>5, <1>6, <1>7, QuietTurn


LEMMA UnlockStep == ASSUME LocksInv, NEW t \in Thread, Unlock(t) PROVE LocksInv'
<1>1. PICK p \in Place : Facts(t, p)
  BY DEF LocksInv, ThreadInv
<1>2. /\ SysInv /\ TypeInv /\ MutexInv /\ At(t, p) /\ LocksAt(t, p) /\ MutexAt(t, p) /\ TouchAt(t, p) /\ ModeAt(p)
      /\ PushAt(p) /\ HeldAt(t, p) /\ PoolAt(t, p)
  BY <1>1 DEF LocksInv, SysInv, Facts
<1>3. /\ p.ph \in Phase /\ p.l \in Label /\ p.f \in Stream /\ p.g \in Stream /\ p.n \in Nat /\ p.m \in Mutex
      /\ Asked(p) \in Stream
  BY PlaceIs
<1>4. HeadsAre(p.f, p.g, p.n) /\ PlansAre(p.f, p.g, p.n)
  BY <1>3, Heads, Plans
<1>5. PlansAre(p.g, p.f, p.n)
  BY Plans
<1>6. /\ p.l \in Two => p.f # p.g
      /\ \A y \in Stream : held[t][y] \in Nat /\ Own(t, mtx[y]) \in Nat /\ held[t][y] + Count(p, y) = Own(t, mtx[y])
  BY <1>2, OwnIs DEF At, LocksAt
<1>7. CASE p.ph = "drop"
  <2> DEFINE q == Phases(p, "lock", LibMutex)
  <2>1. /\ q \in Place /\ q.ph = "lock" /\ q.l = p.l /\ q.f = p.f /\ q.g = p.g /\ q.n = p.n
        /\ Asked(q) = Asked(p) /\ Plan(q.l, q.f, q.g, q.n) = Plan(p.l, p.f, p.g, p.n)
        /\ Goes(p, q) /\ Calm(p, q) /\ TouchAt(t, q) /\ ModeAt(q)
    BY <1>1, <1>7, PhaseIs, Names2 DEF Phase
  <2> HIDE DEF q
  <2>2. Head(todo[t]) = <<"drop", LibMutex>> /\ Tail(todo[t]) = Left(q)
    BY <1>2, <1>7, <2>1, LeftIs DEF At, Left
  <2>3. Doing(t, "drop") /\ It(t) = LibMutex
    BY <2>2 DEF Doing, It, Unlock
  <2>4. \A y \in Stream : Count(q, y) = Count(p, y)
    BY <1>7, <2>1 DEF Count
  <2>5. MutexAt(t, q)
    BY <1>2, <1>7, <2>1 DEF MutexAt
  <2> QED BY <1>1, <1>7, <2>1, <2>2, <2>3, <2>4, <2>5, DropGoes, Names2
<1>8. p.ph # "drop" => /\ p.ph = "on" /\ todo[t] = Plan(p.l, p.f, p.g, p.n)
                       /\ p.l \in {"u1", "u0", "j3", "uu10", "uu11", "uu01", "x3", "n5", "n6", "p5", "p8", "pf"}
  <2>1. Doing(t, "unlock") \/ Doing(t, "drop")
    BY DEF Unlock
  <2>2. p.ph # "drop" => p.ph = "on" /\ OpOf(p.l) \in {"unlock", "drop"}
    BY <1>2, <2>1, DoingAt
  <2> QED BY <1>2, <1>3, <2>2, OpLabels, LeftIs DEF At
<1>9. CASE p.ph = "on" /\ p.l = "u1"
  <2> DEFINE q == To("on", "idle", p.f, p.g, p.n, LibMutex)
  <2>1. q \in Place /\ q.ph = "on" /\ q.l = "idle" /\ q.f = p.f /\ q.g = p.g /\ q.n = p.n
    BY <1>3, ToIs, Names2 DEF Phase, Label, Two
  <2> HIDE DEF q
  <2>2. todo[t] # <<>> /\ Head(todo[t]) = <<"unlock", p.f>> /\ Tail(todo[t]) = Left(q)
    <3>1. todo[t] = Plan("u1", p.f, p.g, p.n)
      BY <1>8, <1>9
    <3>2. Left(q) = Plan("idle", p.f, p.g, p.n)
      BY <2>1, LeftIs
    <3>3. Plan("u1", p.f, p.g, p.n) # <<>> /\ Head(Plan("u1", p.f, p.g, p.n)) = <<"unlock", p.f>>
          /\ Tail(Plan("u1", p.f, p.g, p.n)) = Plan("idle", p.f, p.g, p.n)
      BY <1>4, <1>5 DEF HeadsAre, PlansAre
    <3> QED BY <3>1, <3>2, <3>3
  <2>3. Doing(t, "unlock") /\ It(t) = p.f
    BY <2>2 DEF Doing, Idle, It
  <2>4. \A y \in Stream : Count(q, y) = Count(p, y) - (IF y = p.f /\ Own(t, mtx[p.f]) > 0 THEN 1 ELSE 0)
    <3>1. Own(t, mtx[p.f]) > 0
      BY <1>2, <1>9, OwnsAt
    <3> QED BY <1>9, <2>1, <3>1 DEF Count, CountF, CountG
  <2>5. Calm(p, q) /\ MutexAt(t, q) /\ TouchAt(t, q) /\ ModeAt(q)
    <3>1. Calm(p, q)
      BY <1>9, <2>1 DEF Calm
    <3>2. MutexAt(t, q)
      BY <2>1 DEF MutexAt
    <3>3. TouchAt(t, q)
      BY <1>2, <1>9, <2>1 DEF TouchAt
    <3>4. ModeAt(q)
      BY <1>2, <1>9, <2>1 DEF ModeAt
    <3> QED BY <3>1, <3>2, <3>3, <3>4
  <2>6. Goes(p, q)
    <3>1. Moves("u1", "idle")
      BY DEF Moves
    <3> QED BY <1>9, <2>1, <3>1 DEF Goes
  <2> QED BY <1>1, <1>3, <1>9, <2>1, <2>2, <2>3, <2>4, <2>5, <2>6, UnlockGoes
<1>10. CASE p.ph = "on" /\ p.l = "u0"
  <2> DEFINE q == To("on", "idle", p.f, p.g, p.n, LibMutex)
  <2>1. q \in Place /\ q.ph = "on" /\ q.l = "idle" /\ q.f = p.f /\ q.g = p.g /\ q.n = p.n
    BY <1>3, ToIs, Names2 DEF Phase, Label, Two
  <2> HIDE DEF q
  <2>2. todo[t] # <<>> /\ Head(todo[t]) = <<"unlock", p.f>> /\ Tail(todo[t]) = Left(q)
    <3>1. todo[t] = Plan("u0", p.f, p.g, p.n)
      BY <1>8, <1>10
    <3>2. Left(q) = Plan("idle", p.f, p.g, p.n)
      BY <2>1, LeftIs
    <3>3. Plan("u0", p.f, p.g, p.n) # <<>> /\ Head(Plan("u0", p.f, p.g, p.n)) = <<"unlock", p.f>>
          /\ Tail(Plan("u0", p.f, p.g, p.n)) = Plan("idle", p.f, p.g, p.n)
      BY <1>4, <1>5 DEF HeadsAre, PlansAre
    <3> QED BY <3>1, <3>2, <3>3
  <2>3. Doing(t, "unlock") /\ It(t) = p.f
    BY <2>2 DEF Doing, Idle, It
  <2>4. \A y \in Stream : Count(q, y) = Count(p, y) - (IF y = p.f /\ Own(t, mtx[p.f]) > 0 THEN 1 ELSE 0)
    <3>1. Own(t, mtx[p.f]) = 0
      <4>1. held[t][p.f] = 0
        BY <1>2, <1>10 DEF HeldAt
      <4>2. Count(p, p.f) = 0
        BY <1>3, <1>10 DEF Count, CountF, CountG
      <4> QED BY <1>3, <1>6, <4>1, <4>2
    <3> QED BY <1>10, <2>1, <3>1 DEF Count, CountF, CountG
  <2>5. Calm(p, q) /\ MutexAt(t, q) /\ TouchAt(t, q) /\ ModeAt(q)
    <3>1. Calm(p, q)
      BY <1>10, <2>1 DEF Calm
    <3>2. MutexAt(t, q)
      BY <2>1 DEF MutexAt
    <3>3. TouchAt(t, q)
      BY <1>2, <1>10, <2>1 DEF TouchAt
    <3>4. ModeAt(q)
      BY <1>2, <1>10, <2>1 DEF ModeAt
    <3> QED BY <3>1, <3>2, <3>3, <3>4
  <2>6. Goes(p, q)
    <3>1. Moves("u0", "idle")
      BY DEF Moves
    <3> QED BY <1>10, <2>1, <3>1 DEF Goes
  <2> QED BY <1>1, <1>3, <1>10, <2>1, <2>2, <2>3, <2>4, <2>5, <2>6, UnlockGoes
<1>11. CASE p.ph = "on" /\ p.l = "j3"
  <2> DEFINE q == To("on", "j4", p.f, p.g, p.n, LibMutex)
  <2>1. q \in Place /\ q.ph = "on" /\ q.l = "j4" /\ q.f = p.f /\ q.g = p.g /\ q.n = p.n
    BY <1>3, ToIs, Names2 DEF Phase, Label, Two
  <2> HIDE DEF q
  <2>2. todo[t] # <<>> /\ Head(todo[t]) = <<"unlock", p.f>> /\ Tail(todo[t]) = Left(q)
    <3>1. todo[t] = Plan("j3", p.f, p.g, p.n)
      BY <1>8, <1>11
    <3>2. Left(q) = Plan("j4", p.f, p.g, p.n)
      BY <2>1, LeftIs
    <3>3. Plan("j3", p.f, p.g, p.n) # <<>> /\ Head(Plan("j3", p.f, p.g, p.n)) = <<"unlock", p.f>>
          /\ Tail(Plan("j3", p.f, p.g, p.n)) = Plan("j4", p.f, p.g, p.n)
      BY <1>4, <1>5 DEF HeadsAre, PlansAre
    <3> QED BY <3>1, <3>2, <3>3
  <2>3. Doing(t, "unlock") /\ It(t) = p.f
    BY <2>2 DEF Doing, Idle, It
  <2>4. \A y \in Stream : Count(q, y) = Count(p, y) - (IF y = p.f /\ Own(t, mtx[p.f]) > 0 THEN 1 ELSE 0)
    <3>1. Own(t, mtx[p.f]) > 0
      BY <1>2, <1>11, OwnsAt
    <3> QED BY <1>11, <2>1, <3>1 DEF Count, CountF, CountG
  <2>5. Calm(p, q) /\ MutexAt(t, q) /\ TouchAt(t, q) /\ ModeAt(q)
    <3>1. Calm(p, q)
      BY <1>11, <2>1 DEF Calm
    <3>2. MutexAt(t, q)
      BY <2>1 DEF MutexAt
    <3>3. TouchAt(t, q)
      BY <1>2, <1>11, <2>1 DEF TouchAt
    <3>4. ModeAt(q)
      BY <1>2, <1>11, <2>1 DEF ModeAt
    <3> QED BY <3>1, <3>2, <3>3, <3>4
  <2>6. Goes(p, q)
    <3>1. Moves("j3", "j4")
      BY DEF Moves
    <3> QED BY <1>11, <2>1, <3>1 DEF Goes
  <2> QED BY <1>1, <1>3, <1>11, <2>1, <2>2, <2>3, <2>4, <2>5, <2>6, UnlockGoes
<1>12. CASE p.ph = "on" /\ p.l = "uu01"
  <2> DEFINE q == To("on", "u1", p.f, p.g, p.n, LibMutex)
  <2>1. q \in Place /\ q.ph = "on" /\ q.l = "u1" /\ q.f = p.f /\ q.g = p.g /\ q.n = p.n
    BY <1>3, ToIs, Names2 DEF Phase, Label, Two
  <2> HIDE DEF q
  <2>2. todo[t] # <<>> /\ Head(todo[t]) = <<"unlock", p.g>> /\ Tail(todo[t]) = Left(q)
    <3>1. todo[t] = Plan("uu01", p.f, p.g, p.n)
      BY <1>8, <1>12
    <3>2. Left(q) = Plan("u1", p.f, p.g, p.n)
      BY <2>1, LeftIs
    <3>3. Plan("uu01", p.f, p.g, p.n) # <<>> /\ Head(Plan("uu01", p.f, p.g, p.n)) = <<"unlock", p.g>>
          /\ Tail(Plan("uu01", p.f, p.g, p.n)) = Plan("u1", p.f, p.g, p.n)
      BY <1>4, <1>5 DEF HeadsAre, PlansAre
    <3> QED BY <3>1, <3>2, <3>3
  <2>3. Doing(t, "unlock") /\ It(t) = p.g
    BY <2>2 DEF Doing, Idle, It
  <2>4. \A y \in Stream : Count(q, y) = Count(p, y) - (IF y = p.g /\ Own(t, mtx[p.g]) > 0 THEN 1 ELSE 0)
    <3>1. Own(t, mtx[p.g]) = 0
      <4>1. p.f # p.g
        BY <1>6, <1>12 DEF Two
      <4>2. held[t][p.g] = 0
        BY <1>2, <1>3, <1>6, <1>12, <4>1 DEF HeldAt
      <4>3. Count(p, p.g) = 0
        BY <1>3, <1>12, <4>1 DEF Count, CountF, CountG
      <4> QED BY <1>3, <1>6, <4>2, <4>3
    <3>2. p.f # p.g
      BY <1>6, <1>12 DEF Two
    <3> QED BY <1>12, <2>1, <3>1, <3>2 DEF Count, CountF, CountG
  <2>5. Calm(p, q) /\ MutexAt(t, q) /\ TouchAt(t, q) /\ ModeAt(q)
    <3>1. Calm(p, q)
      BY <1>12, <2>1 DEF Calm
    <3>2. MutexAt(t, q)
      BY <2>1 DEF MutexAt
    <3>3. TouchAt(t, q)
      BY <1>2, <1>12, <2>1 DEF TouchAt
    <3>4. ModeAt(q)
      BY <1>2, <1>12, <2>1 DEF ModeAt
    <3> QED BY <3>1, <3>2, <3>3, <3>4
  <2>6. Goes(p, q)
    <3>1. Moves("uu01", "u1")
      BY DEF Moves
    <3> QED BY <1>12, <2>1, <3>1 DEF Goes
  <2> QED BY <1>1, <1>3, <1>12, <2>1, <2>2, <2>3, <2>4, <2>5, <2>6, UnlockGoes
<1>13. CASE p.ph = "on" /\ p.l = "x3"
  <2> DEFINE q == To("on", "uu01", p.f, p.g, p.n, LibMutex)
  <2>1. q \in Place /\ q.ph = "on" /\ q.l = "uu01" /\ q.f = p.f /\ q.g = p.g /\ q.n = p.n
    BY <1>3, ToIs, Names2 DEF Phase, Label, Two
  <2> HIDE DEF q
  <2>2. todo[t] # <<>> /\ Head(todo[t]) = <<"unlock", p.f>> /\ Tail(todo[t]) = Left(q)
    <3>1. todo[t] = Plan("x3", p.f, p.g, p.n)
      BY <1>8, <1>13
    <3>2. Left(q) = Plan("uu01", p.f, p.g, p.n)
      BY <2>1, LeftIs
    <3>3. Plan("x3", p.f, p.g, p.n) # <<>> /\ Head(Plan("x3", p.f, p.g, p.n)) = <<"unlock", p.f>>
          /\ Tail(Plan("x3", p.f, p.g, p.n)) = Plan("uu01", p.f, p.g, p.n)
      BY <1>4, <1>5 DEF HeadsAre, PlansAre
    <3> QED BY <3>1, <3>2, <3>3
  <2>3. Doing(t, "unlock") /\ It(t) = p.f
    BY <2>2 DEF Doing, Idle, It
  <2>4. \A y \in Stream : Count(q, y) = Count(p, y) - (IF y = p.f /\ Own(t, mtx[p.f]) > 0 THEN 1 ELSE 0)
    <3>1. Own(t, mtx[p.f]) > 0
      BY <1>2, <1>13, OwnsAt
    <3>2. p.f # p.g
      BY <1>6, <1>13 DEF Two
    <3> QED BY <1>13, <2>1, <3>1, <3>2 DEF Count, CountF, CountG
  <2>5. Calm(p, q) /\ MutexAt(t, q) /\ TouchAt(t, q) /\ ModeAt(q)
    <3>1. Calm(p, q)
      BY <1>13, <2>1 DEF Calm
    <3>2. MutexAt(t, q)
      BY <2>1 DEF MutexAt
    <3>3. TouchAt(t, q)
      BY <1>2, <1>13, <2>1 DEF TouchAt
    <3>4. ModeAt(q)
      BY <1>2, <1>13, <2>1 DEF ModeAt
    <3> QED BY <3>1, <3>2, <3>3, <3>4
  <2>6. Goes(p, q)
    <3>1. Moves("x3", "uu01")
      BY DEF Moves
    <3> QED BY <1>13, <2>1, <3>1 DEF Goes
  <2> QED BY <1>1, <1>3, <1>13, <2>1, <2>2, <2>3, <2>4, <2>5, <2>6, UnlockGoes
<1>14. CASE p.ph = "on" /\ p.l = "n5"
  <2> DEFINE q == To("on", "n6", p.f, p.g, p.n, LibMutex)
  <2>1. q \in Place /\ q.ph = "on" /\ q.l = "n6" /\ q.f = p.f /\ q.g = p.g /\ q.n = p.n
    BY <1>3, ToIs, Names2 DEF Phase, Label, Two
  <2> HIDE DEF q
  <2>2. todo[t] # <<>> /\ Head(todo[t]) = <<"unlock", p.f>> /\ Tail(todo[t]) = Left(q)
    <3>1. todo[t] = Plan("n5", p.f, p.g, p.n)
      BY <1>8, <1>14
    <3>2. Left(q) = Plan("n6", p.f, p.g, p.n)
      BY <2>1, LeftIs
    <3>3. Plan("n5", p.f, p.g, p.n) # <<>> /\ Head(Plan("n5", p.f, p.g, p.n)) = <<"unlock", p.f>>
          /\ Tail(Plan("n5", p.f, p.g, p.n)) = Plan("n6", p.f, p.g, p.n)
      BY <1>4, <1>5 DEF HeadsAre, PlansAre
    <3> QED BY <3>1, <3>2, <3>3
  <2>3. Doing(t, "unlock") /\ It(t) = p.f
    BY <2>2 DEF Doing, Idle, It
  <2>4. \A y \in Stream : Count(q, y) = Count(p, y) - (IF y = p.f /\ Own(t, mtx[p.f]) > 0 THEN 1 ELSE 0)
    <3>1. Own(t, mtx[p.f]) > 0
      BY <1>2, <1>14, OwnsAt
    <3>2. p.f # p.g
      BY <1>6, <1>14 DEF Two
    <3> QED BY <1>14, <2>1, <3>1, <3>2 DEF Count, CountF, CountG
  <2>5. Calm(p, q) /\ MutexAt(t, q) /\ TouchAt(t, q) /\ ModeAt(q)
    <3>1. Calm(p, q)
      BY <1>14, <2>1 DEF Calm
    <3>2. MutexAt(t, q)
      BY <2>1 DEF MutexAt
    <3>3. TouchAt(t, q)
      BY <1>2, <1>14, <2>1 DEF TouchAt
    <3>4. ModeAt(q)
      BY <1>2, <1>14, <2>1 DEF ModeAt
    <3> QED BY <3>1, <3>2, <3>3, <3>4
  <2>6. Goes(p, q)
    <3>1. Moves("n5", "n6")
      BY DEF Moves
    <3> QED BY <1>14, <2>1, <3>1 DEF Goes
  <2> QED BY <1>1, <1>3, <1>14, <2>1, <2>2, <2>3, <2>4, <2>5, <2>6, UnlockGoes
<1>15. CASE p.ph = "on" /\ p.l = "n6"
  <2> DEFINE q == To("lock", "n8", p.f, p.g, p.n, LibMutex)
  <2>1. q \in Place /\ q.ph = "lock" /\ q.l = "n8" /\ q.f = p.f /\ q.g = p.g /\ q.n = p.n
    BY <1>3, ToIs, Names2 DEF Phase, Label, Two
  <2> HIDE DEF q
  <2>2. todo[t] # <<>> /\ Head(todo[t]) = <<"unlock", p.g>> /\ Tail(todo[t]) = Left(q)
    <3>1. todo[t] = Plan("n6", p.f, p.g, p.n)
      BY <1>8, <1>15
    <3>2. Left(q) = Then(<<"lock", p.g>>, Plan("n8", p.f, p.g, p.n))
      BY <2>1 DEF Left, Asked
    <3>3. Plan("n6", p.f, p.g, p.n) # <<>> /\ Head(Plan("n6", p.f, p.g, p.n)) = <<"unlock", p.g>>
          /\ Tail(Plan("n6", p.f, p.g, p.n)) = Then(<<"lock", p.g>>, Plan("n8", p.f, p.g, p.n))
      BY <1>4 DEF HeadsAre, PlansAre, N7
    <3> QED BY <3>1, <3>2, <3>3
  <2>3. Doing(t, "unlock") /\ It(t) = p.g
    BY <2>2 DEF Doing, Idle, It
  <2>4. \A y \in Stream : Count(q, y) = Count(p, y) - (IF y = p.g /\ Own(t, mtx[p.g]) > 0 THEN 1 ELSE 0)
    <3>1. Own(t, mtx[p.g]) = 0
      <4>1. p.f # p.g
        BY <1>6, <1>15 DEF Two
      <4>2. held[t][p.g] = 0
        BY <1>2, <1>3, <1>6, <1>15, <4>1 DEF HeldAt
      <4>3. Count(p, p.g) = 0
        BY <1>3, <1>15, <4>1 DEF Count, CountF, CountG
      <4> QED BY <1>3, <1>6, <4>2, <4>3
    <3>2. p.f # p.g
      BY <1>6, <1>15 DEF Two
    <3> QED BY <1>15, <2>1, <3>1, <3>2 DEF Count, CountF, CountG, Asked
  <2>5. Calm(p, q) /\ MutexAt(t, q) /\ TouchAt(t, q) /\ ModeAt(q)
    <3>1. Calm(p, q)
      BY <1>15, <2>1 DEF Calm
    <3>2. MutexAt(t, q)
      BY <2>1 DEF MutexAt
    <3>3. TouchAt(t, q)
      BY <1>2, <1>15, <2>1 DEF TouchAt
    <3>4. ModeAt(q)
      BY <1>2, <1>15, <2>1 DEF ModeAt
    <3> QED BY <3>1, <3>2, <3>3, <3>4
  <2>6. Goes(p, q)
    <3>1. Moves("n6", "n8")
      BY DEF Moves
    <3> QED BY <1>15, <2>1, <3>1 DEF Goes, Entry
  <2> QED BY <1>1, <1>3, <1>15, <2>1, <2>2, <2>3, <2>4, <2>5, <2>6, UnlockGoes
<1>16. CASE p.ph = "on" /\ p.l = "p5"
  <2> DEFINE q == To("on", "p6", p.f, p.g, p.n, LibMutex)
  <2>1. q \in Place /\ q.ph = "on" /\ q.l = "p6" /\ q.f = p.f /\ q.g = p.g /\ q.n = p.n
    BY <1>3, ToIs, Names2 DEF Phase, Label, Two
  <2> HIDE DEF q
  <2>2. todo[t] # <<>> /\ Head(todo[t]) = <<"unlock", p.g>> /\ Tail(todo[t]) = Left(q)
    <3>1. todo[t] = Plan("p5", p.f, p.g, p.n)
      BY <1>8, <1>16
    <3>2. Left(q) = Plan("p6", p.f, p.g, p.n)
      BY <2>1, LeftIs
    <3>3. Plan("p5", p.f, p.g, p.n) # <<>> /\ Head(Plan("p5", p.f, p.g, p.n)) = <<"unlock", p.g>>
          /\ Tail(Plan("p5", p.f, p.g, p.n)) = Plan("p6", p.f, p.g, p.n)
      BY <1>4, <1>5 DEF HeadsAre, PlansAre
    <3> QED BY <3>1, <3>2, <3>3
  <2>3. Doing(t, "unlock") /\ It(t) = p.g
    BY <2>2 DEF Doing, Idle, It
  <2>4. \A y \in Stream : Count(q, y) = Count(p, y) - (IF y = p.g /\ Own(t, mtx[p.g]) > 0 THEN 1 ELSE 0)
    <3>1. Own(t, mtx[p.g]) > 0
      BY <1>2, <1>16, OwnsAt DEF CountG
    <3>2. p.f # p.g
      BY <1>6, <1>16 DEF Two
    <3> QED BY <1>16, <2>1, <3>1, <3>2 DEF Count, CountF, CountG
  <2>5. Calm(p, q) /\ MutexAt(t, q) /\ TouchAt(t, q) /\ ModeAt(q)
    <3>1. Calm(p, q)
      BY <1>16, <2>1 DEF Calm
    <3>2. MutexAt(t, q)
      BY <2>1 DEF MutexAt
    <3>3. TouchAt(t, q)
      BY <1>2, <1>16, <2>1 DEF TouchAt
    <3>4. ModeAt(q)
      BY <1>2, <1>16, <2>1 DEF ModeAt
    <3> QED BY <3>1, <3>2, <3>3, <3>4
  <2>6. Goes(p, q)
    <3>1. Moves("p5", "p6")
      BY DEF Moves
    <3> QED BY <1>16, <2>1, <3>1 DEF Goes
  <2> QED BY <1>1, <1>3, <1>16, <2>1, <2>2, <2>3, <2>4, <2>5, <2>6, UnlockGoes
<1>17. CASE p.ph = "on" /\ p.l = "uu10"
  <2> DEFINE q == To("on", "u0", p.g, p.f, p.n, LibMutex)
  <2>1. q \in Place /\ q.ph = "on" /\ q.l = "u0" /\ q.f = p.g /\ q.g = p.f /\ q.n = p.n
    BY <1>3, ToIs, Names2 DEF Phase, Label, Two
  <2> HIDE DEF q
  <2>2. todo[t] # <<>> /\ Head(todo[t]) = <<"unlock", p.f>> /\ Tail(todo[t]) = Left(q)
    <3>1. todo[t] = Plan("uu10", p.f, p.g, p.n)
      BY <1>8, <1>17
    <3>2. Left(q) = Plan("u0", p.g, p.f, p.n)
      BY <2>1, LeftIs
    <3>3. Plan("uu10", p.f, p.g, p.n) # <<>> /\ Head(Plan("uu10", p.f, p.g, p.n)) = <<"unlock", p.f>>
          /\ Tail(Plan("uu10", p.f, p.g, p.n)) = Plan("u0", p.g, p.f, p.n)
      BY <1>4, <1>5 DEF HeadsAre, PlansAre
    <3> QED BY <3>1, <3>2, <3>3
  <2>3. Doing(t, "unlock") /\ It(t) = p.f
    BY <2>2 DEF Doing, Idle, It
  <2>4. \A y \in Stream : Count(q, y) = Count(p, y) - (IF y = p.f /\ Own(t, mtx[p.f]) > 0 THEN 1 ELSE 0)
    <3>1. Own(t, mtx[p.f]) > 0
      BY <1>2, <1>17, OwnsAt
    <3>2. p.f # p.g
      BY <1>6, <1>17 DEF Two
    <3> QED BY <1>17, <2>1, <3>1, <3>2 DEF Count, CountF, CountG
  <2>5. Calm(p, q) /\ MutexAt(t, q) /\ TouchAt(t, q) /\ ModeAt(q)
    <3>1. Calm(p, q)
      BY <1>17, <2>1 DEF Calm
    <3>2. MutexAt(t, q)
      BY <2>1 DEF MutexAt
    <3>3. TouchAt(t, q)
      BY <1>2, <1>17, <2>1 DEF TouchAt
    <3>4. ModeAt(q)
      BY <1>2, <1>17, <2>1 DEF ModeAt
    <3> QED BY <3>1, <3>2, <3>3, <3>4
  <2>6. Fits(t, p, q)
    <3>1. About(q) \subseteq About(p) /\ q.l \notin Two
      BY <1>17, <2>1 DEF About, Two
    <3>2. PushAt(q)'
      BY <1>2, <1>17, <2>1 DEF PushAt, Pushed, Unlock, streams
    <3>3. HeldAt(t, q)'
      <4>1. p.f # p.g
        BY <1>6, <1>17 DEF Two
      <4>2. held[t][p.g] = 0
        BY <1>2, <1>3, <1>6, <1>17, <4>1 DEF HeldAt
      <4> QED BY <2>1, <4>2 DEF HeldAt, Unlock
    <3>4. PoolAt(t, q)'
      BY <1>2, <1>17, <2>1 DEF PoolAt, Two
    <3>5. RankAt(q)' /\ AloneAt(t, q)'
      BY <2>1 DEF RankAt, AloneAt, Nested
    <3> QED BY <2>1, <3>1, <3>2, <3>3, <3>4, <3>5 DEF Fits
  <2> QED BY <1>1, <1>3, <1>17, <2>1, <2>2, <2>3, <2>4, <2>5, <2>6, UnlockTurn
<1>18. CASE p.ph = "on" /\ p.l = "uu11"
  <2> DEFINE q == To("on", "u1", p.g, p.f, p.n, LibMutex)
  <2>1. q \in Place /\ q.ph = "on" /\ q.l = "u1" /\ q.f = p.g /\ q.g = p.f /\ q.n = p.n
    BY <1>3, ToIs, Names2 DEF Phase, Label, Two
  <2> HIDE DEF q
  <2>2. todo[t] # <<>> /\ Head(todo[t]) = <<"unlock", p.f>> /\ Tail(todo[t]) = Left(q)
    <3>1. todo[t] = Plan("uu11", p.f, p.g, p.n)
      BY <1>8, <1>18
    <3>2. Left(q) = Plan("u1", p.g, p.f, p.n)
      BY <2>1, LeftIs
    <3>3. Plan("uu11", p.f, p.g, p.n) # <<>> /\ Head(Plan("uu11", p.f, p.g, p.n)) = <<"unlock", p.f>>
          /\ Tail(Plan("uu11", p.f, p.g, p.n)) = Plan("u1", p.g, p.f, p.n)
      BY <1>4, <1>5 DEF HeadsAre, PlansAre
    <3> QED BY <3>1, <3>2, <3>3
  <2>3. Doing(t, "unlock") /\ It(t) = p.f
    BY <2>2 DEF Doing, Idle, It
  <2>4. \A y \in Stream : Count(q, y) = Count(p, y) - (IF y = p.f /\ Own(t, mtx[p.f]) > 0 THEN 1 ELSE 0)
    <3>1. Own(t, mtx[p.f]) > 0
      BY <1>2, <1>18, OwnsAt
    <3>2. p.f # p.g
      BY <1>6, <1>18 DEF Two
    <3> QED BY <1>18, <2>1, <3>1, <3>2 DEF Count, CountF, CountG
  <2>5. Calm(p, q) /\ MutexAt(t, q) /\ TouchAt(t, q) /\ ModeAt(q)
    <3>1. Calm(p, q)
      BY <1>18, <2>1 DEF Calm
    <3>2. MutexAt(t, q)
      BY <2>1 DEF MutexAt
    <3>3. TouchAt(t, q)
      BY <1>2, <1>18, <2>1 DEF TouchAt
    <3>4. ModeAt(q)
      BY <1>2, <1>18, <2>1 DEF ModeAt
    <3> QED BY <3>1, <3>2, <3>3, <3>4
  <2>6. Fits(t, p, q)
    <3>1. About(q) \subseteq About(p) /\ q.l \notin Two
      BY <1>18, <2>1 DEF About, Two
    <3>2. PushAt(q)'
      BY <1>2, <1>18, <2>1 DEF PushAt, Pushed, Unlock, streams
    <3>3. HeldAt(t, q)'
      BY <2>1 DEF HeldAt
    <3>4. PoolAt(t, q)'
      BY <1>2, <1>18, <2>1 DEF PoolAt, Two
    <3>5. RankAt(q)' /\ AloneAt(t, q)'
      BY <2>1 DEF RankAt, AloneAt, Nested
    <3> QED BY <2>1, <3>1, <3>2, <3>3, <3>4, <3>5 DEF Fits
  <2> QED BY <1>1, <1>3, <1>18, <2>1, <2>2, <2>3, <2>4, <2>5, <2>6, UnlockTurn
<1>19. CASE p.ph = "on" /\ p.l = "p8"
  <2> DEFINE q == To("on", "io3", p.f, p.g, p.n, LibMutex)
  <2>1. q \in Place /\ q.ph = "on" /\ q.l = "io3" /\ q.f = p.f /\ q.g = p.g /\ q.n = p.n
    BY <1>3, ToIs, Names2 DEF Phase, Label, Two
  <2> HIDE DEF q
  <2>2. todo[t] # <<>> /\ Head(todo[t]) = <<"drop", PoolMutex>> /\ Tail(todo[t]) = Left(q)
    <3>1. todo[t] = Plan("p8", p.f, p.g, p.n)
      BY <1>8, <1>19
    <3>2. Left(q) = Plan("io3", p.f, p.g, p.n)
      BY <2>1, LeftIs
    <3>3. Plan("p8", p.f, p.g, p.n) # <<>> /\ Head(Plan("p8", p.f, p.g, p.n)) = <<"drop", PoolMutex>>
          /\ Tail(Plan("p8", p.f, p.g, p.n)) = Plan("io3", p.f, p.g, p.n)
      BY <1>4 DEF HeadsAre, PlansAre
    <3> QED BY <3>1, <3>2, <3>3
  <2>3. Doing(t, "drop") /\ It(t) = PoolMutex
    BY <2>2 DEF Doing, Idle, It
  <2>4. \A y \in Stream : Count(q, y) = Count(p, y)
    BY <1>19, <2>1 DEF Count, CountF, CountG
  <2>5. Calm(p, q) /\ MutexAt(t, q) /\ TouchAt(t, q) /\ ModeAt(q)
    <3>1. Calm(p, q)
      BY <1>19, <2>1 DEF Calm
    <3>2. MutexAt(t, q)
      BY <2>1 DEF MutexAt
    <3>3. TouchAt(t, q)
      BY <1>2, <1>19, <2>1 DEF TouchAt
    <3>4. ModeAt(q)
      <4>1. Open0(p.f)
        BY <1>2, <1>19 DEF PoolAt, SysInv, PoolInv
      <4> QED BY <2>1, <4>1 DEF ModeAt
    <3> QED BY <3>1, <3>2, <3>3, <3>4
  <2>6. Goes(p, q)
    <3>1. Moves("p8", "io3")
      BY DEF Moves
    <3> QED BY <1>19, <2>1, <3>1 DEF Goes
  <2> QED BY <1>1, <1>19, <2>1, <2>2, <2>3, <2>4, <2>5, <2>6, DropGoes, Names2
<1>20. CASE p.ph = "on" /\ p.l = "pf"
  <2> DEFINE q == To("on", "u1", p.f, p.g, p.n, LibMutex)
  <2>1. q \in Place /\ q.ph = "on" /\ q.l = "u1" /\ q.f = p.f /\ q.g = p.g /\ q.n = p.n
    BY <1>3, ToIs, Names2 DEF Phase, Label, Two
  <2> HIDE DEF q
  <2>2. todo[t] # <<>> /\ Head(todo[t]) = <<"drop", PoolMutex>> /\ Tail(todo[t]) = Left(q)
    <3>1. todo[t] = Plan("pf", p.f, p.g, p.n)
      BY <1>8, <1>20
    <3>2. Left(q) = Plan("u1", p.f, p.g, p.n)
      BY <2>1, LeftIs
    <3>3. Plan("pf", p.f, p.g, p.n) # <<>> /\ Head(Plan("pf", p.f, p.g, p.n)) = <<"drop", PoolMutex>>
          /\ Tail(Plan("pf", p.f, p.g, p.n)) = Plan("u1", p.f, p.g, p.n)
      BY <1>4 DEF HeadsAre, PlansAre
    <3> QED BY <3>1, <3>2, <3>3
  <2>3. Doing(t, "drop") /\ It(t) = PoolMutex
    BY <2>2 DEF Doing, Idle, It
  <2>4. \A y \in Stream : Count(q, y) = Count(p, y)
    BY <1>20, <2>1 DEF Count, CountF, CountG
  <2>5. Calm(p, q) /\ MutexAt(t, q) /\ TouchAt(t, q) /\ ModeAt(q)
    <3>1. Calm(p, q)
      BY <1>20, <2>1 DEF Calm
    <3>2. MutexAt(t, q)
      BY <2>1 DEF MutexAt
    <3>3. TouchAt(t, q)
      BY <1>2, <1>20, <2>1 DEF TouchAt
    <3>4. ModeAt(q)
      BY <2>1 DEF ModeAt
    <3> QED BY <3>1, <3>2, <3>3, <3>4
  <2>6. Goes(p, q)
    <3>1. Moves("pf", "u1")
      BY DEF Moves
    <3> QED BY <1>20, <2>1, <3>1 DEF Goes
  <2> QED BY <1>1, <1>20, <2>1, <2>2, <2>3, <2>4, <2>5, <2>6, DropGoes, Names2
<1> QED BY <1>7, <1>8, <1>9, <1>10, <1>11, <1>12, <1>13, <1>14, <1>15, <1>16, <1>17, <1>18, <1>19, <1>20

----------------------------------------------------------------------------
(* _sfmode, sfstack and the stack of a stream to be closed: no stream and  *)
(* no mutex changes.                                                       *)

PoolLabels == {"p2", "p3", "p4", "p5", "p6", "p7", "p8", "pf"}

\* The step of a call that changes only what is left of it.
LEMMA StillType == ASSUME TypeInv, NEW t \in Thread, UNCHANGED <<locks, streams, held>>, Only(t) PROVE TypeInv' /\ Mine(t)
<1>1. holder' = holder /\ depth' = depth /\ mtx' = mtx /\ mode' = mode /\ push' = push /\ touch' = touch /\ held' = held
  BY DEF locks, streams
<1>2. Mine(t)
  BY LockIdle
<1> QED BY <1>1, <1>2 DEF TypeInv, Only

LEMMA StillTurn ==
  ASSUME LocksInv, NEW t \in Thread, NEW p \in Place, NEW q \in Place, Facts(t, p), todo'[t] = Left(q), Only(t),
         UNCHANGED <<locks, streams, held>>, p.ph = "on", q.ph = "on", Fits(t, p, q), p.l \notin {"j2", "p3", "p4", "p5", "p6", "p7"},
         ~Doing(t, "unlock"), ~Doing(t, "swap"), ~Doing(t, "swapped"), \A x \in Stream : Count(q, x) = Count(p, x),
         q.l \in PoolLabels <=> p.l \in PoolLabels, q.l \notin {"k2", "n11"}, TouchAt(t, q), ModeAt(q)
  PROVE  LocksInv'
<1>1. TypeInv /\ LocksAt(t, p)
  BY DEF LocksInv, SysInv, Facts
<1>2. TypeInv' /\ Mine(t)
  BY <1>1, StillType
<1>3. UNCHANGED streams /\ locks' = locks /\ held' = held /\ holder' = holder /\ mtx' = mtx
  BY DEF locks, streams
<1>4. LocksAt(t, q)'
  BY <1>1, <1>3, OwnLocks DEF PoolLabels
<1>5. MutexAt(t, q) /\ Calm(p, q)
  BY DEF MutexAt, Calm
<1>6. \A m \in Mutex : holder'[m] # None => holder[m] # None \/ m \in {PoolMutex, LibMutex} \/ \E x \in Stream : mtx[x] = m
  BY <1>3
<1>7. \A x \in Stream : held'[t][x] > 0 => held[t][x] > 0
  BY <1>3
<1>8. /\ q.ph = "take" => q.m \in {Asked(q)} \cup Spare
      /\ Doing(t, "unlock") => Modest(t)
  OBVIOUS
<1> QED BY <1>2, <1>3, <1>4, <1>5, <1>6, <1>7, <1>8, QuietTurn

\* What Check does, with its stream and the steps behind it.
Checks(t, f, r) ==
  /\ Only(t) /\ UNCHANGED <<locks, streams, held>> /\ ~Doing(t, "unlock") /\ ~Doing(t, "swap") /\ ~Doing(t, "swapped")
  /\ \/ todo'[t] = Releases(r)
     \/ todo'[t] = r /\ "avail" \notin mode[f]
     \/ /\ f \in Pool
        /\ \E n \in DOMAIN order : /\ n # 1 /\ order[n] = f
             /\ todo'[t] = Then(<<"take", PoolMutex>>, Then(<<"head", f, n>>, Then(<<"drop", PoolMutex>>, r)))
LEMMA CheckDoes ==
  ASSUME LocksInv, NEW t \in Thread, Check(t), NEW f \in Stream, It(t) = f, NEW r, Tail(todo[t]) = r, IsSeq(r)
  PROVE  Checks(t, f, r)
<1>1. DOMAIN todo = Thread /\ order \in Seq(Pool)
  BY DEF LocksInv, SysInv, TypeInv, PoolInv
<1>2. Only(t) /\ UNCHANGED <<locks, streams, held>> /\ ~Doing(t, "unlock") /\ ~Doing(t, "swap") /\ ~Doing(t, "swapped")
  BY <1>1 DEF Check, Only, Doing, Fail, Done, Instead, locks, streams
<1>3. \/ Fail(t) \/ (Done(t) /\ "avail" \notin mode[f])
      \/ \E n \in DOMAIN order : /\ n # 1 /\ order[n] = f
           /\ Instead(t, <<<<"take", PoolMutex>>, <<"head", f, n>>, <<"drop", PoolMutex>>>>)
  <2>1. CASE Frozen(f) \/ "avail" \in mode[f]
    BY <2>1 DEF Check
  <2>2. CASE ~(Frozen(f) \/ "avail" \in mode[f]) /\ "pool" \in mode[f] /\ \E n \in DOMAIN order : order[n] = f
    <3>1. PICK n : n = CHOOSE k \in DOMAIN order : order[k] = f
      OBVIOUS
    <3>2. n \in DOMAIN order /\ order[n] = f
      BY <2>2, <3>1
    <3>3. IF n = 1 THEN Fail(t) ELSE Instead(t, <<<<"take", PoolMutex>>, <<"head", f, n>>, <<"drop", PoolMutex>>>>)
      BY <2>2, <3>1 DEF Check
    <3> QED BY <3>2, <3>3
  <2>3. CASE ~(Frozen(f) \/ "avail" \in mode[f]) /\ ~("pool" \in mode[f] /\ \E n \in DOMAIN order : order[n] = f)
    BY <2>3 DEF Check
  <2> QED BY <2>1, <2>2, <2>3
<1>4. Fail(t) => todo'[t] = Releases(r)
  BY <1>1 DEF Fail
<1>5. Done(t) => todo'[t] = r
  BY <1>1 DEF Done
<1>6. ASSUME NEW n \in DOMAIN order, order[n] = f, Instead(t, <<<<"take", PoolMutex>>, <<"head", f, n>>, <<"drop", PoolMutex>>>>)
      PROVE  /\ f \in Pool
             /\ todo'[t] = Then(<<"take", PoolMutex>>, Then(<<"head", f, n>>, Then(<<"drop", PoolMutex>>, r)))
  <2>1. f \in Pool
    BY <1>1, <1>6
  <2>2. PICK a, b, c : a = <<"take", PoolMutex>> /\ b = <<"head", f, n>> /\ c = <<"drop", PoolMutex>>
    OBVIOUS
  <2>3. todo'[t] = <<a, b, c>> \o r
    BY <1>1, <1>6, <2>2 DEF Instead
  <2>4. <<a, b, c>> \o r = Then(a, Then(b, Then(c, r)))
    BY Cat3
  <2> QED BY <2>1, <2>2, <2>3, <2>4
<1> QED BY <1>2, <1>3, <1>4, <1>5, <1>6 DEF Checks

LEMMA CheckStep == ASSUME LocksInv, NEW t \in Thread, Check(t) PROVE LocksInv'
<1>1. PICK p \in Place : Facts(t, p)
  BY DEF LocksInv, ThreadInv
<1>2. /\ SysInv /\ TypeInv /\ FreedInv /\ At(t, p) /\ LocksAt(t, p) /\ TouchAt(t, p) /\ ModeAt(p) /\ PushAt(p) /\ HeldAt(t, p)
      /\ PoolAt(t, p) /\ MutexInv /\ MutexAt(t, p)
  BY <1>1 DEF LocksInv, SysInv, Facts
<1>3. /\ p.ph \in Phase /\ p.l \in Label /\ p.f \in Stream /\ p.g \in Stream /\ p.n \in Nat /\ p.m \in Mutex
  BY PlaceIs
<1>4. HeadsAre(p.f, p.g, p.n) /\ PlansAre(p.f, p.g, p.n) /\ ListsAre(p.f, p.g, p.n) /\ FailsAre(p.f, p.g) /\ FailsAre(p.g, p.f)
  BY <1>3, Heads, Plans, Lists, Fails
<1>5. PlansAre(p.g, p.f, p.n)
  BY Plans
<1>6. /\ p.l \in Two => p.f # p.g
      /\ p.l # "idle" => Engaged(t, p.f)
      /\ p.l \in Two => Engaged(t, p.g)
  BY <1>2, EngagedAt DEF At
<1>7. /\ p.ph = "on" /\ todo[t] = Plan(p.l, p.f, p.g, p.n)
      /\ p.l \in {"io2", "pop2", "cl2", "n1", "n8", "st3", "st4"}
  <2>1. Doing(t, "check")
    BY DEF Check
  <2>2. p.ph = "on" /\ OpOf(p.l) = "check"
    BY <1>2, <2>1, DoingAt
  <2> QED BY <1>2, <1>3, <2>2, OpLabels, LeftIs DEF At
<1>8. \A x \in Stream : Engaged(t, x) => "freed" \notin mode[x]
  BY <1>2 DEF FreedInv
<1>9. CASE p.l = "io2"
  <2>1. todo[t] # <<>> /\ Head(todo[t]) = <<"check", p.f>> /\ Tail(todo[t]) = Io3(p.f) /\ IsSeq(Io3(p.f))
    BY <1>4, <1>7, <1>9 DEF HeadsAre, ListsAre
  <2>2. It(t) = p.f
    BY <2>1 DEF It
  <2>3. /\ Only(t) /\ UNCHANGED <<locks, streams, held>> /\ ~Doing(t, "unlock") /\ ~Doing(t, "swap") /\ ~Doing(t, "swapped")
        /\ \/ todo'[t] = Releases(Io3(p.f))
           \/ todo'[t] = Io3(p.f) /\ "avail" \notin mode[p.f]
           \/ /\ p.f \in Pool
              /\ \E k \in DOMAIN order : /\ k # 1 /\ order[k] = p.f
                   /\ todo'[t] = Then(<<"take", PoolMutex>>, Then(<<"head", p.f, k>>, Then(<<"drop", PoolMutex>>, Io3(p.f))))
    <3>1. Checks(t, p.f, Io3(p.f))
      BY <1>3, <2>1, <2>2, CheckDoes
    <3> QED BY <3>1 DEF Checks
  <2>4. /\ TypeInv' /\ Mine(t) /\ mtx' = mtx /\ push' = push /\ order' = order /\ held' = held
        /\ \A y \in Stream : held'[t][y] > 0 => held[t][y] > 0
    BY <1>2, <2>3, StillType DEF streams
  <2>5. CASE todo'[t] = Io3(p.f) /\ "avail" \notin mode[p.f]
    <3> DEFINE q == To("on", "io3", p.f, p.g, p.n, LibMutex)
    <3>1. q \in Place /\ q.ph = "on" /\ q.l = "io3" /\ q.f = p.f /\ q.g = p.g /\ q.n = p.n
      BY <1>3, ToIs, Names2 DEF Phase, Label, Two
    <3> HIDE DEF q
    <3>2. todo'[t] = Left(q)
      <4>1. Plan("io3", p.f, p.g, p.n) = Io3(p.f)
        BY <1>4 DEF PlansAre
      <4> QED BY <2>5, <3>1, <4>1, LeftIs
    <3>3. Fits(t, p, q)
      <4>1. Moves("io2", "io3")
        BY DEF Moves
      <4>2. Goes(p, q)
        BY <1>9, <3>1, <4>1 DEF Goes
      <4> QED BY <1>1, <1>2, <2>3, <2>4, <3>1, <4>2, GoesFits
    <3>4. \A y \in Stream : Count(q, y) = Count(p, y)
      BY <1>7, <1>9, <3>1 DEF Count, CountF, CountG
    <3>5. TouchAt(t, q)
      BY <1>2, <1>9, <3>1 DEF TouchAt
    <3>6. ModeAt(q)
      <4>1. Open0(p.f)
        BY <1>3, <1>6, <1>8, <1>9, <2>5 DEF Open0
      <4> QED BY <1>2, <1>9, <3>1, <4>1 DEF ModeAt
    <3> QED BY <1>1, <1>7, <1>9, <2>3, <3>1, <3>2, <3>3, <3>4, <3>5, <3>6, StillTurn DEF PoolLabels
  <2>6. CASE todo'[t] = Releases(Io3(p.f))
    <3> DEFINE q == To("on", "u1", p.f, p.g, p.n, LibMutex)
    <3>1. q \in Place /\ q.ph = "on" /\ q.l = "u1" /\ q.f = p.f /\ q.g = p.g /\ q.n = p.n
      BY <1>3, ToIs, Names2 DEF Phase, Label, Two
    <3> HIDE DEF q
    <3>2. todo'[t] = Left(q)
      <4>1. Plan("u1", p.f, p.g, p.n) = Releases(Io3(p.f))
        BY <1>4, <1>5 DEF PlansAre, FailsAre
      <4> QED BY <2>6, <3>1, <4>1, LeftIs
    <3>3. Fits(t, p, q)
      <4>1. Moves("io2", "u1")
        BY DEF Moves
      <4>2. Goes(p, q)
        BY <1>9, <3>1, <4>1 DEF Goes
      <4> QED BY <1>1, <1>2, <2>3, <2>4, <3>1, <4>2, GoesFits
    <3>4. \A y \in Stream : Count(q, y) = Count(p, y)
      BY <1>7, <1>9, <3>1 DEF Count, CountF, CountG
    <3>5. TouchAt(t, q) /\ ModeAt(q)
      BY <1>2, <1>9, <3>1 DEF TouchAt, ModeAt
    <3> QED BY <1>1, <1>7, <1>9, <2>3, <3>1, <3>2, <3>3, <3>4, <3>5, StillTurn DEF PoolLabels
  <2>7. ASSUME p.f \in Pool, NEW k \in DOMAIN order, k # 1, order[k] = p.f,
               todo'[t] = Then(<<"take", PoolMutex>>, Then(<<"head", p.f, k>>, Then(<<"drop", PoolMutex>>, Io3(p.f))))
        PROVE  LocksInv'
    <3>0. k \in Nat
      BY <1>2 DEF SysInv, PoolInv
    <3> DEFINE q == To("on", "p1", p.f, p.g, k, LibMutex)
    <3>1. q \in Place /\ q.ph = "on" /\ q.l = "p1" /\ q.f = p.f /\ q.g = p.g /\ q.n = k
      BY <1>3, <3>0, ToIs, Names2 DEF Phase, Label, Two
    <3> HIDE DEF q
    <3>2. todo'[t] = Left(q)
      <4>1. PlansAre(p.f, p.g, k)
        BY Plans
      <4>2. Plan("p1", p.f, p.g, k) = Then(<<"take", PoolMutex>>, P2(p.f, k))
        BY <4>1 DEF PlansAre
      <4> QED BY <2>7, <3>1, <4>2, LeftIs DEF P2, P8
    <3>3. Fits(t, p, q)
      <4>1. About(q) = About(p) /\ q.l \notin Two
        BY <1>9, <3>1 DEF About, Two
      <4>2. PushAt(q)'
        BY <1>2, <1>9, <2>4, <3>1 DEF PushAt, Pushed
      <4>3. PoolAt(t, q)'
        BY <1>2, <1>9, <2>4, <2>7, <3>1 DEF PoolAt, Two
      <4>4. HeldAt(t, q)'
        BY <1>2, <1>9, <2>4, <3>1 DEF HeldAt
      <4>5. RankAt(q)' /\ AloneAt(t, q)'
        BY <3>1 DEF RankAt, AloneAt, Nested
      <4> QED BY <3>1, <4>1, <4>2, <4>3, <4>4, <4>5 DEF Fits
    <3>4. \A y \in Stream : Count(q, y) = Count(p, y)
      BY <1>7, <1>9, <3>1 DEF Count, CountF, CountG
    <3>5. TouchAt(t, q) /\ ModeAt(q)
      BY <1>2, <1>9, <3>1 DEF TouchAt, ModeAt
    <3> QED BY <1>1, <1>7, <1>9, <2>3, <3>1, <3>2, <3>3, <3>4, <3>5, StillTurn DEF PoolLabels
  <2> QED BY <2>3, <2>5, <2>6, <2>7
<1>10. CASE p.l = "pop2"
  <2>1. todo[t] # <<>> /\ Head(todo[t]) = <<"check", p.f>> /\ Tail(todo[t]) = Pop3(p.f) /\ IsSeq(Pop3(p.f))
    BY <1>4, <1>7, <1>10 DEF HeadsAre, ListsAre
  <2>2. It(t) = p.f
    BY <2>1 DEF It
  <2>3. /\ Only(t) /\ UNCHANGED <<locks, streams, held>> /\ ~Doing(t, "unlock") /\ ~Doing(t, "swap") /\ ~Doing(t, "swapped")
        /\ \/ todo'[t] = Releases(Pop3(p.f))
           \/ todo'[t] = Pop3(p.f) /\ "avail" \notin mode[p.f]
           \/ /\ p.f \in Pool
              /\ \E k \in DOMAIN order : /\ k # 1 /\ order[k] = p.f
                   /\ todo'[t] = Then(<<"take", PoolMutex>>, Then(<<"head", p.f, k>>, Then(<<"drop", PoolMutex>>, Pop3(p.f))))
    <3>1. Checks(t, p.f, Pop3(p.f))
      BY <1>3, <2>1, <2>2, CheckDoes
    <3> QED BY <3>1 DEF Checks
  <2>4. /\ TypeInv' /\ Mine(t) /\ mtx' = mtx /\ push' = push /\ order' = order /\ held' = held
        /\ \A y \in Stream : held'[t][y] > 0 => held[t][y] > 0
    BY <1>2, <2>3, StillType DEF streams
  <2>5. CASE todo'[t] = Pop3(p.f) /\ "avail" \notin mode[p.f]
    <3> DEFINE q == To("on", "pop3", p.f, p.g, p.n, LibMutex)
    <3>1. q \in Place /\ q.ph = "on" /\ q.l = "pop3" /\ q.f = p.f /\ q.g = p.g /\ q.n = p.n
      BY <1>3, ToIs, Names2 DEF Phase, Label, Two
    <3> HIDE DEF q
    <3>2. todo'[t] = Left(q)
      <4>1. Plan("pop3", p.f, p.g, p.n) = Pop3(p.f)
        BY <1>4 DEF PlansAre
      <4> QED BY <2>5, <3>1, <4>1, LeftIs
    <3>3. Fits(t, p, q)
      <4>1. Moves("pop2", "pop3")
        BY DEF Moves
      <4>2. Goes(p, q)
        BY <1>10, <3>1, <4>1 DEF Goes
      <4> QED BY <1>1, <1>2, <2>3, <2>4, <3>1, <4>2, GoesFits
    <3>4. \A y \in Stream : Count(q, y) = Count(p, y)
      BY <1>7, <1>10, <3>1 DEF Count, CountF, CountG
    <3>5. TouchAt(t, q)
      BY <1>2, <1>10, <3>1 DEF TouchAt
    <3>6. ModeAt(q)
      <4>1. Open0(p.f)
        BY <1>3, <1>6, <1>8, <1>10, <2>5 DEF Open0
      <4> QED BY <1>2, <1>10, <3>1, <4>1 DEF ModeAt
    <3> QED BY <1>1, <1>7, <1>10, <2>3, <3>1, <3>2, <3>3, <3>4, <3>5, <3>6, StillTurn DEF PoolLabels
  <2>6. CASE todo'[t] = Releases(Pop3(p.f))
    <3> DEFINE q == To("on", "u1", p.f, p.g, p.n, LibMutex)
    <3>1. q \in Place /\ q.ph = "on" /\ q.l = "u1" /\ q.f = p.f /\ q.g = p.g /\ q.n = p.n
      BY <1>3, ToIs, Names2 DEF Phase, Label, Two
    <3> HIDE DEF q
    <3>2. todo'[t] = Left(q)
      <4>1. Plan("u1", p.f, p.g, p.n) = Releases(Pop3(p.f))
        BY <1>4, <1>5 DEF PlansAre, FailsAre
      <4> QED BY <2>6, <3>1, <4>1, LeftIs
    <3>3. Fits(t, p, q)
      <4>1. Moves("pop2", "u1")
        BY DEF Moves
      <4>2. Goes(p, q)
        BY <1>10, <3>1, <4>1 DEF Goes
      <4> QED BY <1>1, <1>2, <2>3, <2>4, <3>1, <4>2, GoesFits
    <3>4. \A y \in Stream : Count(q, y) = Count(p, y)
      BY <1>7, <1>10, <3>1 DEF Count, CountF, CountG
    <3>5. TouchAt(t, q) /\ ModeAt(q)
      BY <1>2, <1>10, <3>1 DEF TouchAt, ModeAt
    <3> QED BY <1>1, <1>7, <1>10, <2>3, <3>1, <3>2, <3>3, <3>4, <3>5, StillTurn DEF PoolLabels
  <2>7. ASSUME p.f \in Pool, NEW k \in DOMAIN order, k # 1, order[k] = p.f,
               todo'[t] = Then(<<"take", PoolMutex>>, Then(<<"head", p.f, k>>, Then(<<"drop", PoolMutex>>, Pop3(p.f))))
        PROVE  LocksInv'
    BY <1>2, <1>10, <2>7 DEF PoolAt, Two
  <2> QED BY <2>3, <2>5, <2>6, <2>7
<1>11. CASE p.l = "cl2"
  <2>1. todo[t] # <<>> /\ Head(todo[t]) = <<"check", p.f>> /\ Tail(todo[t]) = Cl3(p.f) /\ IsSeq(Cl3(p.f))
    BY <1>4, <1>7, <1>11 DEF HeadsAre, ListsAre
  <2>2. It(t) = p.f
    BY <2>1 DEF It
  <2>3. /\ Only(t) /\ UNCHANGED <<locks, streams, held>> /\ ~Doing(t, "unlock") /\ ~Doing(t, "swap") /\ ~Doing(t, "swapped")
        /\ \/ todo'[t] = Releases(Cl3(p.f))
           \/ todo'[t] = Cl3(p.f) /\ "avail" \notin mode[p.f]
           \/ /\ p.f \in Pool
              /\ \E k \in DOMAIN order : /\ k # 1 /\ order[k] = p.f
                   /\ todo'[t] = Then(<<"take", PoolMutex>>, Then(<<"head", p.f, k>>, Then(<<"drop", PoolMutex>>, Cl3(p.f))))
    <3>1. Checks(t, p.f, Cl3(p.f))
      BY <1>3, <2>1, <2>2, CheckDoes
    <3> QED BY <3>1 DEF Checks
  <2>4. /\ TypeInv' /\ Mine(t) /\ mtx' = mtx /\ push' = push /\ order' = order /\ held' = held
        /\ \A y \in Stream : held'[t][y] > 0 => held[t][y] > 0
    BY <1>2, <2>3, StillType DEF streams
  <2>5. CASE todo'[t] = Cl3(p.f) /\ "avail" \notin mode[p.f]
    <3> DEFINE q == To("on", "cl3", p.f, p.g, p.n, LibMutex)
    <3>1. q \in Place /\ q.ph = "on" /\ q.l = "cl3" /\ q.f = p.f /\ q.g = p.g /\ q.n = p.n
      BY <1>3, ToIs, Names2 DEF Phase, Label, Two
    <3> HIDE DEF q
    <3>2. todo'[t] = Left(q)
      <4>1. Plan("cl3", p.f, p.g, p.n) = Cl3(p.f)
        BY <1>4 DEF PlansAre
      <4> QED BY <2>5, <3>1, <4>1, LeftIs
    <3>3. Fits(t, p, q)
      <4>1. Moves("cl2", "cl3")
        BY DEF Moves
      <4>2. Goes(p, q)
        BY <1>11, <3>1, <4>1 DEF Goes
      <4> QED BY <1>1, <1>2, <2>3, <2>4, <3>1, <4>2, GoesFits
    <3>4. \A y \in Stream : Count(q, y) = Count(p, y)
      BY <1>7, <1>11, <3>1 DEF Count, CountF, CountG
    <3>5. TouchAt(t, q)
      BY <1>2, <1>11, <3>1 DEF TouchAt
    <3>6. ModeAt(q)
      <4>1. Open0(p.f)
        BY <1>3, <1>6, <1>8, <1>11, <2>5 DEF Open0
      <4> QED BY <1>2, <1>11, <3>1, <4>1 DEF ModeAt
    <3> QED BY <1>1, <1>7, <1>11, <2>3, <3>1, <3>2, <3>3, <3>4, <3>5, <3>6, StillTurn DEF PoolLabels
  <2>6. CASE todo'[t] = Releases(Cl3(p.f))
    <3> DEFINE q == To("on", "u1", p.f, p.g, p.n, LibMutex)
    <3>1. q \in Place /\ q.ph = "on" /\ q.l = "u1" /\ q.f = p.f /\ q.g = p.g /\ q.n = p.n
      BY <1>3, ToIs, Names2 DEF Phase, Label, Two
    <3> HIDE DEF q
    <3>2. todo'[t] = Left(q)
      <4>1. Plan("u1", p.f, p.g, p.n) = Releases(Cl3(p.f))
        BY <1>4, <1>5 DEF PlansAre, FailsAre
      <4> QED BY <2>6, <3>1, <4>1, LeftIs
    <3>3. Fits(t, p, q)
      <4>1. Moves("cl2", "u1")
        BY DEF Moves
      <4>2. Goes(p, q)
        BY <1>11, <3>1, <4>1 DEF Goes
      <4> QED BY <1>1, <1>2, <2>3, <2>4, <3>1, <4>2, GoesFits
    <3>4. \A y \in Stream : Count(q, y) = Count(p, y)
      BY <1>7, <1>11, <3>1 DEF Count, CountF, CountG
    <3>5. TouchAt(t, q) /\ ModeAt(q)
      BY <1>2, <1>11, <3>1 DEF TouchAt, ModeAt
    <3> QED BY <1>1, <1>7, <1>11, <2>3, <3>1, <3>2, <3>3, <3>4, <3>5, StillTurn DEF PoolLabels
  <2>7. ASSUME p.f \in Pool, NEW k \in DOMAIN order, k # 1, order[k] = p.f,
               todo'[t] = Then(<<"take", PoolMutex>>, Then(<<"head", p.f, k>>, Then(<<"drop", PoolMutex>>, Cl3(p.f))))
        PROVE  LocksInv'
    BY <1>2, <1>11, <2>7 DEF PoolAt, Two
  <2> QED BY <2>3, <2>5, <2>6, <2>7
<1>12. CASE p.l = "n1"
  <2>1. todo[t] # <<>> /\ Head(todo[t]) = <<"check", p.f>> /\ Tail(todo[t]) = N2(p.f, p.g) /\ IsSeq(N2(p.f, p.g))
    BY <1>4, <1>7, <1>12 DEF HeadsAre, ListsAre
  <2>2. It(t) = p.f
    BY <2>1 DEF It
  <2>3. /\ Only(t) /\ UNCHANGED <<locks, streams, held>> /\ ~Doing(t, "unlock") /\ ~Doing(t, "swap") /\ ~Doing(t, "swapped")
        /\ \/ todo'[t] = Releases(N2(p.f, p.g))
           \/ todo'[t] = N2(p.f, p.g) /\ "avail" \notin mode[p.f]
           \/ /\ p.f \in Pool
              /\ \E k \in DOMAIN order : /\ k # 1 /\ order[k] = p.f
                   /\ todo'[t] = Then(<<"take", PoolMutex>>, Then(<<"head", p.f, k>>, Then(<<"drop", PoolMutex>>, N2(p.f, p.g))))
    <3>1. Checks(t, p.f, N2(p.f, p.g))
      BY <1>3, <2>1, <2>2, CheckDoes
    <3> QED BY <3>1 DEF Checks
  <2>4. /\ TypeInv' /\ Mine(t) /\ mtx' = mtx /\ push' = push /\ order' = order /\ held' = held
        /\ \A y \in Stream : held'[t][y] > 0 => held[t][y] > 0
    BY <1>2, <2>3, StillType DEF streams
  <2>5. CASE todo'[t] = N2(p.f, p.g) /\ "avail" \notin mode[p.f]
    <3> DEFINE q == To("on", "n2", p.f, p.g, p.n, LibMutex)
    <3>1. q \in Place /\ q.ph = "on" /\ q.l = "n2" /\ q.f = p.f /\ q.g = p.g /\ q.n = p.n
      BY <1>3, ToIs, Names2 DEF Phase, Label, Two
    <3> HIDE DEF q
    <3>2. todo'[t] = Left(q)
      <4>1. Plan("n2", p.f, p.g, p.n) = N2(p.f, p.g)
        BY <1>4 DEF PlansAre
      <4> QED BY <2>5, <3>1, <4>1, LeftIs
    <3>3. Fits(t, p, q)
      <4>1. Moves("n1", "n2")
        BY DEF Moves
      <4>2. Goes(p, q)
        BY <1>12, <3>1, <4>1 DEF Goes
      <4> QED BY <1>1, <1>2, <2>3, <2>4, <3>1, <4>2, GoesFits
    <3>4. \A y \in Stream : Count(q, y) = Count(p, y)
      BY <1>7, <1>12, <3>1 DEF Count, CountF, CountG
    <3>5. TouchAt(t, q)
      BY <1>2, <1>12, <3>1 DEF TouchAt
    <3>6. ModeAt(q)
      <4>1. Open0(p.f)
        BY <1>3, <1>6, <1>8, <1>12, <2>5 DEF Open0
      <4> QED BY <1>2, <1>12, <3>1, <4>1 DEF ModeAt
    <3> QED BY <1>1, <1>7, <1>12, <2>3, <3>1, <3>2, <3>3, <3>4, <3>5, <3>6, StillTurn DEF PoolLabels
  <2>6. CASE todo'[t] = Releases(N2(p.f, p.g))
    <3> DEFINE q == To("on", "x3", p.f, p.g, p.n, LibMutex)
    <3>1. q \in Place /\ q.ph = "on" /\ q.l = "x3" /\ q.f = p.f /\ q.g = p.g /\ q.n = p.n
      BY <1>3, ToIs, Names2 DEF Phase, Label, Two
    <3> HIDE DEF q
    <3>2. todo'[t] = Left(q)
      <4>1. Plan("x3", p.f, p.g, p.n) = Releases(N2(p.f, p.g))
        BY <1>4, <1>5 DEF PlansAre, FailsAre
      <4> QED BY <2>6, <3>1, <4>1, LeftIs
    <3>3. Fits(t, p, q)
      <4>1. Moves("n1", "x3")
        BY DEF Moves
      <4>2. Goes(p, q)
        BY <1>12, <3>1, <4>1 DEF Goes
      <4> QED BY <1>1, <1>2, <2>3, <2>4, <3>1, <4>2, GoesFits
    <3>4. \A y \in Stream : Count(q, y) = Count(p, y)
      BY <1>7, <1>12, <3>1 DEF Count, CountF, CountG
    <3>5. TouchAt(t, q) /\ ModeAt(q)
      BY <1>2, <1>12, <3>1 DEF TouchAt, ModeAt
    <3> QED BY <1>1, <1>7, <1>12, <2>3, <3>1, <3>2, <3>3, <3>4, <3>5, StillTurn DEF PoolLabels
  <2>7. ASSUME p.f \in Pool, NEW k \in DOMAIN order, k # 1, order[k] = p.f,
               todo'[t] = Then(<<"take", PoolMutex>>, Then(<<"head", p.f, k>>, Then(<<"drop", PoolMutex>>, N2(p.f, p.g))))
        PROVE  LocksInv'
    BY <1>2, <1>12, <2>7 DEF PoolAt, Two
  <2> QED BY <2>3, <2>5, <2>6, <2>7
<1>13. CASE p.l = "n8"
  <2>1. todo[t] # <<>> /\ Head(todo[t]) = <<"check", p.g>> /\ Tail(todo[t]) = N9(p.f, p.g) /\ IsSeq(N9(p.f, p.g))
    BY <1>4, <1>7, <1>13 DEF HeadsAre, ListsAre
  <2>2. It(t) = p.g
    BY <2>1 DEF It
  <2>3. /\ Only(t) /\ UNCHANGED <<locks, streams, held>> /\ ~Doing(t, "unlock") /\ ~Doing(t, "swap") /\ ~Doing(t, "swapped")
        /\ \/ todo'[t] = Releases(N9(p.f, p.g))
           \/ todo'[t] = N9(p.f, p.g) /\ "avail" \notin mode[p.g]
           \/ /\ p.g \in Pool
              /\ \E k \in DOMAIN order : /\ k # 1 /\ order[k] = p.g
                   /\ todo'[t] = Then(<<"take", PoolMutex>>, Then(<<"head", p.g, k>>, Then(<<"drop", PoolMutex>>, N9(p.f, p.g))))
    <3>1. Checks(t, p.g, N9(p.f, p.g))
      BY <1>3, <2>1, <2>2, CheckDoes
    <3> QED BY <3>1 DEF Checks
  <2>4. /\ TypeInv' /\ Mine(t) /\ mtx' = mtx /\ push' = push /\ order' = order /\ held' = held
        /\ \A y \in Stream : held'[t][y] > 0 => held[t][y] > 0
    BY <1>2, <2>3, StillType DEF streams
  <2>5. CASE todo'[t] = N9(p.f, p.g) /\ "avail" \notin mode[p.g]
    <3> DEFINE q == To("on", "n9", p.f, p.g, p.n, LibMutex)
    <3>1. q \in Place /\ q.ph = "on" /\ q.l = "n9" /\ q.f = p.f /\ q.g = p.g /\ q.n = p.n
      BY <1>3, ToIs, Names2 DEF Phase, Label, Two
    <3> HIDE DEF q
    <3>2. todo'[t] = Left(q)
      <4>1. Plan("n9", p.f, p.g, p.n) = N9(p.f, p.g)
        BY <1>4 DEF PlansAre
      <4> QED BY <2>5, <3>1, <4>1, LeftIs
    <3>3. Fits(t, p, q)
      <4>1. Moves("n8", "n9")
        BY DEF Moves
      <4>2. Goes(p, q)
        BY <1>13, <3>1, <4>1 DEF Goes
      <4> QED BY <1>1, <1>2, <2>3, <2>4, <3>1, <4>2, GoesFits
    <3>4. \A y \in Stream : Count(q, y) = Count(p, y)
      BY <1>7, <1>13, <3>1 DEF Count, CountF, CountG
    <3>5. TouchAt(t, q)
      BY <1>2, <1>13, <3>1 DEF TouchAt
    <3>6. ModeAt(q)
      <4>1. Open0(p.g)
        BY <1>3, <1>6, <1>8, <1>13, <2>5 DEF Open0, Two
      <4> QED BY <1>2, <1>13, <3>1, <4>1 DEF ModeAt
    <3> QED BY <1>1, <1>7, <1>13, <2>3, <3>1, <3>2, <3>3, <3>4, <3>5, <3>6, StillTurn DEF PoolLabels
  <2>6. CASE todo'[t] = Releases(N9(p.f, p.g))
    <3> DEFINE q == To("on", "uu11", p.g, p.f, p.n, LibMutex)
    <3>1. q \in Place /\ q.ph = "on" /\ q.l = "uu11" /\ q.f = p.g /\ q.g = p.f /\ q.n = p.n
      BY <1>3, ToIs, Names2 DEF Phase, Label, Two
    <3> HIDE DEF q
    <3>2. todo'[t] = Left(q)
      <4>1. Plan("uu11", p.g, p.f, p.n) = Releases(N9(p.f, p.g))
        BY <1>4, <1>5 DEF PlansAre, FailsAre
      <4> QED BY <2>6, <3>1, <4>1, LeftIs
    <3>3. Fits(t, p, q)
      <4>1. About(q) = About(p) /\ q.f # q.g
        BY <1>6, <1>13, <3>1 DEF About, Two
      <4>2. PushAt(q)'
        BY <1>2, <1>13, <2>4, <3>1 DEF PushAt, Pushed
      <4>3. PoolAt(t, q)'
        BY <1>2, <1>13, <2>4, <3>1 DEF PoolAt, Two
      <4>4. HeldAt(t, q)' /\ RankAt(q)' /\ AloneAt(t, q)'
        BY <3>1 DEF HeldAt, RankAt, AloneAt, Nested
      <4> QED BY <3>1, <4>1, <4>2, <4>3, <4>4 DEF Fits
    <3>4. \A y \in Stream : Count(q, y) = Count(p, y)
      BY <1>6, <1>7, <1>13, <3>1 DEF Count, CountF, CountG, Two
    <3>5. TouchAt(t, q) /\ ModeAt(q)
      BY <1>2, <1>13, <3>1 DEF TouchAt, ModeAt
    <3> QED BY <1>1, <1>7, <1>13, <2>3, <3>1, <3>2, <3>3, <3>4, <3>5, StillTurn DEF PoolLabels
  <2>7. ASSUME p.g \in Pool, NEW k \in DOMAIN order, k # 1, order[k] = p.g,
               todo'[t] = Then(<<"take", PoolMutex>>, Then(<<"head", p.g, k>>, Then(<<"drop", PoolMutex>>, N9(p.f, p.g))))
        PROVE  LocksInv'
    BY <1>2, <1>13, <2>7 DEF PoolAt, Two
  <2> QED BY <2>3, <2>5, <2>6, <2>7
<1>14. CASE p.l = "st3"
  <2>1. todo[t] # <<>> /\ Head(todo[t]) = <<"check", p.f>> /\ Tail(todo[t]) = St4(p.f, p.g) /\ IsSeq(St4(p.f, p.g))
    BY <1>4, <1>7, <1>14 DEF HeadsAre, ListsAre
  <2>2. It(t) = p.f
    BY <2>1 DEF It
  <2>3. /\ Only(t) /\ UNCHANGED <<locks, streams, held>> /\ ~Doing(t, "unlock") /\ ~Doing(t, "swap") /\ ~Doing(t, "swapped")
        /\ \/ todo'[t] = Releases(St4(p.f, p.g))
           \/ todo'[t] = St4(p.f, p.g) /\ "avail" \notin mode[p.f]
           \/ /\ p.f \in Pool
              /\ \E k \in DOMAIN order : /\ k # 1 /\ order[k] = p.f
                   /\ todo'[t] = Then(<<"take", PoolMutex>>, Then(<<"head", p.f, k>>, Then(<<"drop", PoolMutex>>, St4(p.f, p.g))))
    <3>1. Checks(t, p.f, St4(p.f, p.g))
      BY <1>3, <2>1, <2>2, CheckDoes
    <3> QED BY <3>1 DEF Checks
  <2>4. /\ TypeInv' /\ Mine(t) /\ mtx' = mtx /\ push' = push /\ order' = order /\ held' = held
        /\ \A y \in Stream : held'[t][y] > 0 => held[t][y] > 0
    BY <1>2, <2>3, StillType DEF streams
  <2>5. CASE todo'[t] = St4(p.f, p.g) /\ "avail" \notin mode[p.f]
    <3> DEFINE q == To("on", "st4", p.f, p.g, p.n, LibMutex)
    <3>1. q \in Place /\ q.ph = "on" /\ q.l = "st4" /\ q.f = p.f /\ q.g = p.g /\ q.n = p.n
      BY <1>3, ToIs, Names2 DEF Phase, Label, Two
    <3> HIDE DEF q
    <3>2. todo'[t] = Left(q)
      <4>1. Plan("st4", p.f, p.g, p.n) = St4(p.f, p.g)
        BY <1>4 DEF PlansAre
      <4> QED BY <2>5, <3>1, <4>1, LeftIs
    <3>3. Fits(t, p, q)
      <4>1. Moves("st3", "st4")
        BY DEF Moves
      <4>2. Goes(p, q)
        BY <1>14, <3>1, <4>1 DEF Goes
      <4> QED BY <1>1, <1>2, <2>3, <2>4, <3>1, <4>2, GoesFits
    <3>4. \A y \in Stream : Count(q, y) = Count(p, y)
      BY <1>7, <1>14, <3>1 DEF Count, CountF, CountG
    <3>5. TouchAt(t, q)
      BY <1>2, <1>14, <3>1 DEF TouchAt
    <3>6. ModeAt(q)
      <4>1. Open0(p.f)
        BY <1>3, <1>6, <1>8, <1>14, <2>5 DEF Open0
      <4> QED BY <1>2, <1>14, <3>1, <4>1 DEF ModeAt
    <3> QED BY <1>1, <1>7, <1>14, <2>3, <3>1, <3>2, <3>3, <3>4, <3>5, <3>6, StillTurn DEF PoolLabels
  <2>6. CASE todo'[t] = Releases(St4(p.f, p.g))
    <3> DEFINE q == To("on", "uu11", p.f, p.g, p.n, LibMutex)
    <3>1. q \in Place /\ q.ph = "on" /\ q.l = "uu11" /\ q.f = p.f /\ q.g = p.g /\ q.n = p.n
      BY <1>3, ToIs, Names2 DEF Phase, Label, Two
    <3> HIDE DEF q
    <3>2. todo'[t] = Left(q)
      <4>1. Plan("uu11", p.f, p.g, p.n) = Releases(St4(p.f, p.g))
        BY <1>4, <1>5 DEF PlansAre, FailsAre
      <4> QED BY <2>6, <3>1, <4>1, LeftIs
    <3>3. Fits(t, p, q)
      <4>1. Moves("st3", "uu11")
        BY DEF Moves
      <4>2. Goes(p, q)
        BY <1>14, <3>1, <4>1 DEF Goes
      <4> QED BY <1>1, <1>2, <2>3, <2>4, <3>1, <4>2, GoesFits
    <3>4. \A y \in Stream : Count(q, y) = Count(p, y)
      BY <1>7, <1>14, <3>1 DEF Count, CountF, CountG
    <3>5. TouchAt(t, q) /\ ModeAt(q)
      BY <1>2, <1>14, <3>1 DEF TouchAt, ModeAt
    <3> QED BY <1>1, <1>7, <1>14, <2>3, <3>1, <3>2, <3>3, <3>4, <3>5, StillTurn DEF PoolLabels
  <2>7. ASSUME p.f \in Pool, NEW k \in DOMAIN order, k # 1, order[k] = p.f,
               todo'[t] = Then(<<"take", PoolMutex>>, Then(<<"head", p.f, k>>, Then(<<"drop", PoolMutex>>, St4(p.f, p.g))))
        PROVE  LocksInv'
    BY <1>2, <1>14, <2>7 DEF PoolAt, Two
  <2> QED BY <2>3, <2>5, <2>6, <2>7
<1>15. CASE p.l = "st4"
  <2>1. todo[t] # <<>> /\ Head(todo[t]) = <<"check", p.g>> /\ Tail(todo[t]) = St5(p.f, p.g) /\ IsSeq(St5(p.f, p.g))
    BY <1>4, <1>7, <1>15 DEF HeadsAre, ListsAre
  <2>2. It(t) = p.g
    BY <2>1 DEF It
  <2>3. /\ Only(t) /\ UNCHANGED <<locks, streams, held>> /\ ~Doing(t, "unlock") /\ ~Doing(t, "swap") /\ ~Doing(t, "swapped")
        /\ \/ todo'[t] = Releases(St5(p.f, p.g))
           \/ todo'[t] = St5(p.f, p.g) /\ "avail" \notin mode[p.g]
           \/ /\ p.g \in Pool
              /\ \E k \in DOMAIN order : /\ k # 1 /\ order[k] = p.g
                   /\ todo'[t] = Then(<<"take", PoolMutex>>, Then(<<"head", p.g, k>>, Then(<<"drop", PoolMutex>>, St5(p.f, p.g))))
    <3>1. Checks(t, p.g, St5(p.f, p.g))
      BY <1>3, <2>1, <2>2, CheckDoes
    <3> QED BY <3>1 DEF Checks
  <2>4. /\ TypeInv' /\ Mine(t) /\ mtx' = mtx /\ push' = push /\ order' = order /\ held' = held
        /\ \A y \in Stream : held'[t][y] > 0 => held[t][y] > 0
    BY <1>2, <2>3, StillType DEF streams
  <2>5. CASE todo'[t] = St5(p.f, p.g) /\ "avail" \notin mode[p.g]
    <3> DEFINE q == To("on", "st5", p.f, p.g, p.n, LibMutex)
    <3>1. q \in Place /\ q.ph = "on" /\ q.l = "st5" /\ q.f = p.f /\ q.g = p.g /\ q.n = p.n
      BY <1>3, ToIs, Names2 DEF Phase, Label, Two
    <3> HIDE DEF q
    <3>2. todo'[t] = Left(q)
      <4>1. Plan("st5", p.f, p.g, p.n) = St5(p.f, p.g)
        BY <1>4 DEF PlansAre
      <4> QED BY <2>5, <3>1, <4>1, LeftIs
    <3>3. Fits(t, p, q)
      <4>1. Moves("st4", "st5")
        BY DEF Moves
      <4>2. Goes(p, q)
        BY <1>15, <3>1, <4>1 DEF Goes
      <4> QED BY <1>1, <1>2, <2>3, <2>4, <3>1, <4>2, GoesFits
    <3>4. \A y \in Stream : Count(q, y) = Count(p, y)
      BY <1>7, <1>15, <3>1 DEF Count, CountF, CountG
    <3>5. TouchAt(t, q)
      BY <1>2, <1>15, <3>1 DEF TouchAt
    <3>6. ModeAt(q)
      <4>1. Open0(p.g)
        BY <1>3, <1>6, <1>8, <1>15, <2>5 DEF Open0, Two
      <4> QED BY <1>2, <1>15, <3>1, <4>1 DEF ModeAt
    <3> QED BY <1>1, <1>7, <1>15, <2>3, <3>1, <3>2, <3>3, <3>4, <3>5, <3>6, StillTurn DEF PoolLabels
  <2>6. CASE todo'[t] = Releases(St5(p.f, p.g))
    <3> DEFINE q == To("on", "uu11", p.f, p.g, p.n, LibMutex)
    <3>1. q \in Place /\ q.ph = "on" /\ q.l = "uu11" /\ q.f = p.f /\ q.g = p.g /\ q.n = p.n
      BY <1>3, ToIs, Names2 DEF Phase, Label, Two
    <3> HIDE DEF q
    <3>2. todo'[t] = Left(q)
      <4>1. Plan("uu11", p.f, p.g, p.n) = Releases(St5(p.f, p.g))
        BY <1>4, <1>5 DEF PlansAre, FailsAre
      <4> QED BY <2>6, <3>1, <4>1, LeftIs
    <3>3. Fits(t, p, q)
      <4>1. Moves("st4", "uu11")
        BY DEF Moves
      <4>2. Goes(p, q)
        BY <1>15, <3>1, <4>1 DEF Goes
      <4> QED BY <1>1, <1>2, <2>3, <2>4, <3>1, <4>2, GoesFits
    <3>4. \A y \in Stream : Count(q, y) = Count(p, y)
      BY <1>7, <1>15, <3>1 DEF Count, CountF, CountG
    <3>5. TouchAt(t, q) /\ ModeAt(q)
      BY <1>2, <1>15, <3>1 DEF TouchAt, ModeAt
    <3> QED BY <1>1, <1>7, <1>15, <2>3, <3>1, <3>2, <3>3, <3>4, <3>5, StillTurn DEF PoolLabels
  <2>7. ASSUME p.g \in Pool, NEW k \in DOMAIN order, k # 1, order[k] = p.g,
               todo'[t] = Then(<<"take", PoolMutex>>, Then(<<"head", p.g, k>>, Then(<<"drop", PoolMutex>>, St5(p.f, p.g))))
        PROVE  LocksInv'
    BY <1>2, <1>15, <2>7 DEF PoolAt, Two
  <2> QED BY <2>3, <2>5, <2>6, <2>7
<1> QED BY <1>7, <1>9, <1>10, <1>11, <1>12, <1>13, <1>14, <1>15

LEMMA StackStep == ASSUME LocksInv, NEW t \in Thread, Stack(t) PROVE LocksInv'
<1>1. PICK p \in Place : Facts(t, p)
  BY DEF LocksInv, ThreadInv
<1>2. /\ SysInv /\ TypeInv /\ At(t, p) /\ LocksAt(t, p) /\ TouchAt(t, p) /\ ModeAt(p) /\ PushAt(p) /\ HeldAt(t, p)
      /\ PoolAt(t, p) /\ AloneAt(t, p)
  BY <1>1 DEF LocksInv, SysInv, Facts
<1>3. /\ p.ph \in Phase /\ p.l \in Label /\ p.f \in Stream /\ p.g \in Stream /\ p.n \in Nat /\ p.m \in Mutex
  BY PlaceIs
<1>4. HeadsAre(p.f, p.g, p.n) /\ PlansAre(p.f, p.g, p.n) /\ ListsAre(p.f, p.g, p.n) /\ FailsAre(p.f, p.g)
  BY <1>3, Heads, Plans, Lists, Fails
<1>5. p.ph = "on" /\ p.l = "st5" /\ todo[t] = Plan("st5", p.f, p.g, p.n) /\ p.f # p.g
  <2>1. Doing(t, "stack")
    BY DEF Stack
  <2>2. p.ph = "on" /\ OpOf(p.l) = "stack"
    BY <1>2, <2>1, DoingAt
  <2>3. p.l = "st5"
    BY <1>3, <2>2, OpLabels
  <2> QED BY <1>2, <2>2, <2>3, LeftIs DEF At, Two
<1>6. todo[t] # <<>> /\ Head(todo[t]) = <<"stack", p.f, p.g>> /\ Tail(todo[t]) = UnlockFG(p.f, p.g) /\ IsSeq(UnlockFG(p.f, p.g))
  BY <1>4, <1>5 DEF HeadsAre, ListsAre
<1>7. It(t) = p.f /\ Head(todo[t])[3] = p.g
  BY <1>6 DEF It
<1>8. Only(t) /\ UNCHANGED <<locks, streams, held>> /\ ~Doing(t, "unlock") /\ ~Doing(t, "swap") /\ ~Doing(t, "swapped")
  <2>1. DOMAIN todo = Thread
    BY <1>2 DEF TypeInv
  <2> QED BY <2>1 DEF Stack, Only, Doing, Fail, Instead, locks, streams
<1>9. /\ TypeInv' /\ Mine(t) /\ mtx' = mtx /\ push' = push /\ order' = order /\ held' = held
      /\ \A y \in Stream : held'[t][y] > 0 => held[t][y] > 0
  BY <1>2, <1>8, StillType DEF streams
<1>10. CASE push[p.g] # None
  <2> DEFINE q == To("on", "uu11", p.f, p.g, p.n, LibMutex)
  <2>1. q \in Place /\ q.ph = "on" /\ q.l = "uu11" /\ q.f = p.f /\ q.g = p.g /\ q.n = p.n
    BY <1>3, ToIs, Names2 DEF Phase, Label, Two
  <2> HIDE DEF q
  <2>2. todo'[t] = Left(q)
    <3>1. todo'[t] = Releases(UnlockFG(p.f, p.g))
      BY <1>2, <1>6, <1>7, <1>10 DEF Stack, Fail, TypeInv
    <3>2. Plan("uu11", p.f, p.g, p.n) = Releases(UnlockFG(p.f, p.g))
      BY <1>4 DEF PlansAre, FailsAre
    <3> QED BY <2>1, <3>1, <3>2, LeftIs
  <2>3. Fits(t, p, q)
    <3>1. Moves("st5", "uu11")
      BY DEF Moves
    <3>2. Goes(p, q)
      BY <1>5, <2>1, <3>1 DEF Goes
    <3> QED BY <1>1, <1>2, <1>8, <1>9, <2>1, <3>2, GoesFits
  <2>4. \A y \in Stream : Count(q, y) = Count(p, y)
    BY <1>5, <2>1 DEF Count, CountF, CountG
  <2>5. TouchAt(t, q) /\ ModeAt(q)
    BY <1>2, <1>5, <2>1 DEF TouchAt, ModeAt
  <2> QED BY <1>1, <1>5, <1>8, <2>1, <2>2, <2>3, <2>4, <2>5, StillTurn DEF PoolLabels
<1>11. CASE push[p.g] = None
  <2> DEFINE q == To("on", "st6", p.f, p.g, p.n, LibMutex)
  <2>1. q \in Place /\ q.ph = "on" /\ q.l = "st6" /\ q.f = p.f /\ q.g = p.g /\ q.n = p.n
    BY <1>3, ToIs, Names2 DEF Phase, Label, Two
  <2> HIDE DEF q
  <2>2. todo'[t] = Left(q)
    <3>1. PICK a, b, r : a = <<"swap", p.f, p.g>> /\ b = <<"swapped", p.f, p.g>> /\ r = UnlockFG(p.f, p.g)
      OBVIOUS
    <3>2. todo'[t] = <<a, b>> \o r
      BY <1>2, <1>6, <1>7, <1>11, <3>1 DEF Stack, Instead, TypeInv
    <3>3. <<a, b>> \o r = Then(a, Then(b, r))
      <4>1. IsSeq(r)
        BY <1>6, <3>1
      <4> QED BY <4>1, Cat2
    <3>4. Plan("st6", p.f, p.g, p.n) = Then(a, Then(b, r))
      BY <1>4, <3>1 DEF PlansAre, Sp2
    <3> QED BY <2>1, <3>2, <3>3, <3>4, LeftIs
  <2>3. Fits(t, p, q)
    <3>1. About(q) = About(p) /\ q.f # q.g
      BY <1>5, <2>1 DEF About, Two
    <3>2. PushAt(q)'
      BY <1>2, <1>5, <1>9, <1>11, <2>1 DEF PushAt, Pushed
    <3>3. PoolAt(t, q)'
      BY <1>2, <1>5, <1>9, <2>1 DEF PoolAt, Two
    <3>4. HeldAt(t, q)'
      BY <1>2, <1>5, <1>9, <2>1 DEF HeldAt
    <3>5. AloneAt(t, q)'
      <4>1. \A u \in Thread \ {t} : ~Engaged(u, p.g)
        BY <1>2, <1>5 DEF AloneAt
      <4>2. \A u \in Thread \ {t} : ~Engaged(u, p.g)'
        BY <1>3, <1>8, <4>1, OthersEngaged
      <4> QED BY <2>1, <4>2 DEF AloneAt, Nested
    <3>6. RankAt(q)'
      <4>1. RankAt(p)
        BY <1>1 DEF Facts
      <4> QED BY <1>5, <2>1, <4>1 DEF RankAt
    <3> QED BY <2>1, <3>1, <3>2, <3>3, <3>4, <3>5, <3>6 DEF Fits
  <2>4. \A y \in Stream : Count(q, y) = Count(p, y)
    BY <1>5, <2>1 DEF Count, CountF, CountG
  <2>5. TouchAt(t, q) /\ ModeAt(q)
    BY <1>2, <1>5, <2>1 DEF TouchAt, ModeAt
  <2> QED BY <1>1, <1>5, <1>8, <2>1, <2>2, <2>3, <2>4, <2>5, StillTurn DEF PoolLabels
<1> QED BY <1>10, <1>11


----------------------------------------------------------------------------
(* Steps that take up another stream.                                      *)

LEMMA NewUses ==
  ASSUME NEW t \in Thread, NEW q \in Place, todo'[t] = Left(q), q.ph # "on" => q.l \in Entry,
         q.ph = "take" => q.m \in {Asked(q)} \cup Spare
  PROVE  \A x \in Stream : Engaged(t, x)' => x \in About(q) \/ held'[t][x] > 0
<1>1. \A x \in Stream : x \in UsesOf(Left(q)) => x \in About(q)
  BY LeftUses
<1>2. ASSUME NEW x \in Stream, Using(t, x)' PROVE x \in UsesOf(todo'[t])
  BY <1>2 DEF Using, UsesOf, NamesOf
<1> QED BY <1>1, <1>2 DEF Engaged

LEMMA StepTakes ==
  ASSUME LocksInv, NEW t \in Thread, NEW q \in Place, Facts(t, q)',
         Only(t), Mine(t), TypeInv', mtx' = mtx, push' = push, Modest(t), Keeps(t),
         \A m \in Mutex : holder'[m] # None => holder[m] # None \/ m \in {PoolMutex, LibMutex} \/ \E x \in Stream : mtx[x] = m,
         \A x \in Stream : Engaged(t, x)' =>
           Engaged(t, x) \/ mtx[x] # None \/ \A u \in Thread \ {t} : ~Engaged(u, x),
         \A u \in Thread \ {t} : \A r \in Place : Facts(u, r) => ModeAt(r)' /\ PoolAt(u, r)'
  PROVE  LocksInv'
<1>1. SysInv /\ TypeInv
  BY DEF LocksInv, SysInv
<1>2. MutexInv'
  BY <1>1, MutexStays
<1>3. SysInv'
  BY <1>1, <1>2, SysStays
<1>4. \A u \in Thread \ {t} : \A r \in Place : Facts(u, r) => Facts(u, r)'
  <2> SUFFICES ASSUME NEW u \in Thread \ {t}, NEW r \in Place, Facts(u, r) PROVE Facts(u, r)'
    OBVIOUS
  <2>1. \A x \in Stream : touch'[x] \ {t} = touch[x] \ {t}
    BY DEF Keeps
  <2> QED BY <1>1, <2>1, OthersStay
<1> QED BY <1>3, <1>4, Together

\* Of the stream pushed on one that a thread has locked, the others can at most
\* be about to give back the lock.
LEMMA PushedAlone ==
  ASSUME SysInv, NEW t \in Thread, NEW u \in Thread \ {t}, NEW r \in Place, Facts(u, r), NEW f \in Stream, NEW g \in Stream,
         push[f] = g, Own(t, mtx[f]) > 0
  PROVE  (Engaged(u, g) => Leaves(u, g)) /\ ~Claims(r, g)
<1>1. /\ TypeInv /\ MutexInv /\ PushInv /\ PoolInv /\ At(u, r) /\ LocksAt(u, r) /\ MutexAt(u, r) /\ PushAt(r) /\ PoolAt(u, r)
  BY DEF SysInv, Facts
<1>2. r.ph \in Phase /\ r.l \in Label /\ r.f \in Stream /\ r.g \in Stream
  BY PlaceIs
<1>3. /\ Pushed(g) /\ g # None /\ held[u][g] = 0 /\ g \notin Pool
      /\ \A x \in Stream : push[x] = g => x = f
  <2>1. Pushed(g) /\ g # None
    BY Names2 DEF Pushed
  <2> QED BY <1>1, <2>1 DEF PushInv
<1>4. Own(u, mtx[f]) = 0
  <2>1. mtx[f] \in Mutex \cup {None}
    BY <1>1 DEF TypeInv
  <2> QED BY <1>1, <2>1, OwnIs
<1>5. ~(r.g = g /\ r.l \in Two)
  <2> SUFFICES ASSUME r.g = g, r.l \in Two PROVE FALSE
    OBVIOUS
  <2>1. r.l \notin {"uu10", "n5", "n6", "n8", "n9", "n10", "n11", "st2", "st3", "st4", "st5", "st6", "st7"}
    BY <1>1, <1>3 DEF PushAt
  <2>2. r.l \notin {"p3", "p4", "p5", "p6", "p7"}
    BY <1>1, <1>3 DEF PoolAt, PoolInv
  <2>3. r.l \in {"sp1", "sp2", "n1", "n2", "n3", "n4", "x3", "uu01", "uu11"}
    BY <2>1, <2>2 DEF Two
  <2>4. r.f = f
    <3>1. push[r.f] = g
      BY <1>1, <1>3, <2>3 DEF PushAt
    <3> QED BY <1>2, <1>3, <3>1
  <2>5. Own(u, mtx[r.f]) > 0
    <3>1. r.ph = "on" \/ r.l = "n1"
      BY <1>1, <2>3 DEF At, Entry
    <3> QED BY <1>1, <2>3, <3>1, OwnsAt
  <2> QED BY <1>4, <2>4, <2>5
<1>6. r.f = g => r.l \in {"idle", "u1"}
  BY <1>1, <1>3 DEF PushAt
<1>7. ~Claims(r, g)
  BY <1>5, <1>6 DEF Claims, Nested, Two
<1>8. ASSUME Engaged(u, g) PROVE Leaves(u, g)
  <2>1. g = r.f /\ (r.l # "idle" \/ r.ph # "on")
    BY <1>1, <1>3, <1>5, <1>8, EngagedAt
  <2>2. r.l # "idle"
    <3>1. r.l = "idle" /\ r.ph # "on" => held[u][r.f] > 0
      BY <1>1, OwnsAt
    <3> QED BY <1>3, <2>1, <3>1
  <2>3. r.l = "u1" /\ r.ph = "on"
    BY <1>1, <1>6, <2>1, <2>2 DEF At, Entry
  <2>4. todo[u] = UnlockF(g)
    <3>1. PlansAre(r.f, r.g, r.n)
      BY Plans
    <3> QED BY <1>1, <2>1, <2>3, <3>1, LeftIs DEF At, PlansAre
  <2>5. Own(u, mtx[g]) > 0
    BY <1>1, <2>1, <2>3, OwnsAt
  <2> QED BY <1>3, <2>4, <2>5 DEF Leaves
<1> QED BY <1>7, <1>8

LEMMA CloseStackStep == ASSUME LocksInv, NEW t \in Thread, CloseStack(t) PROVE LocksInv'
<1>1. PICK p \in Place : Facts(t, p)
  BY DEF LocksInv, ThreadInv
<1>2. /\ SysInv /\ TypeInv /\ MutexInv /\ PushInv /\ StackInv /\ At(t, p) /\ LocksAt(t, p) /\ TouchAt(t, p) /\ ModeAt(p)
      /\ PushAt(p) /\ HeldAt(t, p) /\ PoolAt(t, p) /\ AloneAt(t, p)
  BY <1>1 DEF LocksInv, SysInv, Facts
<1>3. /\ p.ph \in Phase /\ p.l \in Label /\ p.f \in Stream /\ p.g \in Stream /\ p.n \in Nat /\ p.m \in Mutex
  BY PlaceIs
<1>4. HeadsAre(p.f, p.g, p.n) /\ PlansAre(p.f, p.g, p.n) /\ ListsAre(p.f, p.g, p.n)
  BY <1>3, Heads, Plans, Lists
<1>5. p.ph = "on" /\ p.l \in {"cl3", "n9"} /\ todo[t] = Plan(p.l, p.f, p.g, p.n)
  <2>1. Doing(t, "closing")
    BY DEF CloseStack
  <2>2. p.ph = "on" /\ OpOf(p.l) = "closing"
    BY <1>2, <2>1, DoingAt
  <2> QED BY <1>2, <1>3, <2>2, OpLabels, LeftIs DEF At
<1>6. p.l = "cl3"
  <2> SUFFICES ASSUME p.l = "n9" PROVE FALSE
    BY <1>5
  <2>1. Head(todo[t]) = <<"closing", p.g>>
    BY <1>4, <1>5 DEF HeadsAre
  <2>2. It(t) = p.g
    BY <2>1 DEF It
  <2> QED BY <1>2, <2>2 DEF CloseStack, PushAt
<1>7. Head(todo[t]) = <<"closing", p.f>> /\ Tail(todo[t]) = UnlockF(p.f) /\ IsSeq(UnlockF(p.f))
  BY <1>4, <1>5, <1>6 DEF HeadsAre, ListsAre
<1>8. It(t) = p.f
  BY <1>7 DEF It
<1>9. PICK g \in Stream : g = push[p.f]
  BY <1>2, <1>3, <1>8 DEF CloseStack, TypeInv
<1>10. Only(t) /\ UNCHANGED <<locks, streams, held>> /\ ~Doing(t, "unlock") /\ ~Doing(t, "swap") /\ ~Doing(t, "swapped")
  <2>1. DOMAIN todo = Thread
    BY <1>2 DEF TypeInv
  <2> QED BY <2>1 DEF CloseStack, Only, Doing, Instead, locks, streams
<1>11. /\ TypeInv' /\ Mine(t) /\ mtx' = mtx /\ push' = push /\ order' = order /\ held' = held /\ holder' = holder
       /\ mode' = mode /\ touch' = touch /\ locks' = locks /\ UNCHANGED streams
  BY <1>2, <1>10, StillType DEF streams, locks
<1> DEFINE q == To("lock", "n1", p.f, g, p.n, LibMutex)
<1>12. q \in Place /\ q.ph = "lock" /\ q.l = "n1" /\ q.f = p.f /\ q.g = g /\ q.n = p.n /\ Asked(q) = p.f
  BY <1>3, ToIs, Names2 DEF Phase, Label, Two, Asked
<1> HIDE DEF q
<1>13. todo'[t] = Left(q)
  <2>1. PICK a, b, c, d, e, i, j, k, l, r :
          /\ a = <<"lock", p.f>> /\ b = <<"check", p.f>> /\ c = <<"pop", p.f>> /\ d = <<"unlock", p.f>> /\ e = <<"lock", g>>
          /\ i = <<"check", g>> /\ j = <<"closing", g>> /\ k = <<"unlock", g>> /\ l = <<"closing", p.f>> /\ r = UnlockF(p.f)
    OBVIOUS
  <2>2. todo'[t] = <<a, b, c, d, e, i, j, k, l>> \o r
    BY <1>2, <1>7, <1>8, <1>9, <2>1 DEF CloseStack, Instead, TypeInv
  <2>3. IsSeq(r)
    BY <1>7, <2>1
  <2>4. todo'[t] = Then(a, Then(b, Then(c, Then(d, Then(e, Then(i, Then(j, Then(k, Then(l, r)))))))))
    BY <2>2, <2>3, Cat9
  <2>5. PlansAre(p.f, g, p.n)
    BY Plans
  <2>6. Plan("n1", p.f, g, p.n) = Then(b, Then(c, Then(d, Then(e, Then(i, Then(j, Then(k, Then(l, r))))))))
    BY <2>1, <2>5 DEF PlansAre, N2, N7, N8, N9, Cl3
  <2> QED BY <1>12, <2>1, <2>4, <2>6 DEF Left
<1>14. Pushed(g) /\ ~Pushed(p.f) /\ p.f # g /\ g \notin Std \cup Pool /\ mtx[g] # None /\ Open0(g)
  <2>1. Pushed(g) /\ ~Pushed(p.f)
    BY <1>2, <1>3, <1>6, <1>9 DEF PushAt, Pushed
  <2> QED BY <1>2, <2>1 DEF PushInv
<1>15. Own(t, mtx[p.f]) > 0
  BY <1>2, <1>5, <1>6, OwnsAt
<1>16. \A u \in Thread \ {t} : \A r \in Place : Facts(u, r) => (Engaged(u, g) => Leaves(u, g)) /\ ~Claims(r, g)
  BY <1>2, <1>3, <1>9, <1>15, PushedAlone
<1>17. /\ Welcome(t, g)
       /\ \A u \in Thread \ {t} : Engaged(u, g) => Leaves(u, g)
  BY <1>16 DEF Welcome, LocksInv, ThreadInv
<1>18. Facts(t, q)'
  <2>1. At(t, q)'
    BY <1>12, <1>13, <1>14 DEF At, Entry
  <2>2. LocksAt(t, q)'
    <3>1. \A x \in Stream : Count(q, x) = Count(p, x)
      BY <1>5, <1>6, <1>12, <1>14 DEF Count, CountF, CountG
    <3> QED BY <1>2, <1>5, <1>6, <1>11, <1>12, <3>1, OwnLocks
  <2>3. MutexAt(t, q)'
    BY <1>12 DEF MutexAt
  <2>4. PushAt(q)'
    BY <1>9, <1>11, <1>12, <1>14 DEF PushAt, Pushed
  <2>5. TouchAt(t, q)'
    BY <1>2, <1>6, <1>11, <1>12 DEF TouchAt
  <2>6. ModeAt(q)'
    BY <1>2, <1>6, <1>11, <1>12 DEF ModeAt, Open0
  <2>7. HeldAt(t, q)'
    BY <1>2, <1>6, <1>11, <1>12 DEF HeldAt
  <2>8. PoolAt(t, q)'
    BY <1>2, <1>6, <1>12, <1>14 DEF PoolAt, Two
  <2>9. RankAt(q)'
    <3>1. PICK b : Base(b)
      BY <1>2 DEF StackInv
    <3>2. b[p.f] = p.f /\ b[g] = b[p.f]
      BY <1>3, <1>9, <1>14, <3>1, Names2 DEF Base
    <3>3. Ordered => Rank[p.f] < Rank[g]
      BY <1>14, <3>1, <3>2 DEF Base
    <3> QED BY <1>12, <3>3 DEF RankAt
  <2>10. AloneAt(t, q)'
    <3>1. \A u \in Thread \ {t} : p.f \notin Std => ~Engaged(u, p.f)'
      BY <1>2, <1>3, <1>6, <1>10, OthersEngaged DEF AloneAt
    <3>2. \A u \in Thread \ {t} : Engaged(u, g)' => Leaves(u, g)'
      BY <1>2, <1>10, <1>11, <1>17, OthersEngaged, OthersLeave
    <3> QED BY <1>12, <3>1, <3>2 DEF AloneAt, Nested
  <2> QED BY <2>1, <2>2, <2>3, <2>4, <2>5, <2>6, <2>7, <2>8, <2>9, <2>10 DEF Facts
<1>19. \A x \in Stream : Engaged(t, x)' => Engaged(t, x) \/ x = g
  <2>1. \A x \in Stream : Engaged(t, x)' => x \in About(q) \/ held'[t][x] > 0
    BY <1>12, <1>13, NewUses DEF Entry
  <2>2. Engaged(t, p.f)
    BY <1>1, <1>2, <1>6, EngagedAt DEF Facts
  <2> QED BY <1>11, <1>12, <2>1, <2>2 DEF About, Engaged
<1>20. Modest(t)
  BY <1>10, <1>17, <1>19, NotLeaving DEF Modest
<1>21. Keeps(t)
  <2>1. \A x \in Stream : x \notin ClearsOf(todo[t])
    BY <1>2, <1>6, ClearsAt
  <2>2. \A x \in Stream : ~Parts(t, x)
    BY <1>10, NotParting
  <2>3. order' \in Seq(Pool) /\ order' # <<>> /\ \A i, j \in DOMAIN order' : order'[i] = order'[j] => i = j
    BY <1>2, <1>11 DEF SysInv, PoolInv
  <2>4. \A x \in Stream : (Pushed(x) => mtx'[x] # None) /\ (Pushed(x) \/ x \in Pool => Open0(x)')
    BY <1>2, <1>11 DEF SysInv, PushInv, PoolInv, Open0
  <2>5. \A x \in Stream : "lock" \in mode'[x] => t \in touch'[x] \/ ("lock" \in mode[x] /\ t \notin touch[x] /\ x \notin ClearsOf(todo[t]))
    BY <1>11, <2>1
  <2>6. \A x \in Stream : Engaged(t, x)' => Engaged(t, x) \/ "freed" \notin mode[x]
    BY <1>14, <1>19 DEF Open0
  <2> QED BY <1>11, <2>2, <2>3, <2>4, <2>5, <2>6 DEF Keeps
<1>22. \A u \in Thread \ {t} : \A r \in Place : Facts(u, r) => ModeAt(r)' /\ PoolAt(u, r)'
  BY <1>11, OthersPool DEF Facts, ModeAt, Open0
<1>23. \A x \in Stream : Engaged(t, x)' => Engaged(t, x) \/ mtx[x] # None \/ \A u \in Thread \ {t} : ~Engaged(u, x)
  BY <1>14, <1>19
<1>24. \A m \in Mutex : holder'[m] # None => holder[m] # None \/ m \in {PoolMutex, LibMutex} \/ \E x \in Stream : mtx[x] = m
  BY <1>11
<1> QED BY <1>10, <1>11, <1>12, <1>18, <1>20, <1>21, <1>22, <1>23, <1>24, StepTakes

----------------------------------------------------------------------------
(* Steps that read, write, freeze or free the streams of a call.           *)

\* Nobody else is in a stream of the pool, in one that is locked, open and not
\* pushed on another, or in one pushed on a stream that is locked.
LEMMA Untouched ==
  ASSUME LocksInv, Careful, NEW t \in Thread, NEW x \in Stream,
         \/ x \in Pool /\ MayPool(t)
         \/ x \notin Pool /\ Own(t, mtx[x]) > 0 /\ ~Pushed(x) /\ Open0(x)
         \/ \E f \in Stream : push[f] = x /\ Own(t, mtx[f]) > 0
  PROVE  touch[x] \subseteq {t}
<1>1. TypeInv /\ SysInv /\ PushInv /\ PoolInv
  BY DEF LocksInv, SysInv
<1>2. touch[x] \subseteq Thread
  BY <1>1 DEF TypeInv
<1> SUFFICES ASSUME NEW u \in Thread \ {t}, u \in touch[x] PROVE FALSE
  BY <1>2
<1>3. PICK r \in Place : Facts(u, r)
  BY DEF LocksInv, ThreadInv
<1>4. /\ At(u, r) /\ LocksAt(u, r) /\ PushAt(r) /\ TouchAt(u, r) /\ ModeAt(r) /\ PoolAt(u, r)
      /\ r.f \in Stream /\ r.g \in Stream
  BY <1>3, PlaceIs DEF Facts
<1>5. \/ x = r.f /\ r.l \in {"io4", "sp2", "n4", "st7", "k1", "k2"}
      \/ x = r.g /\ r.l \in {"sp2", "n4", "st7", "n10", "n11", "p4", "p7"}
  BY <1>4 DEF TouchAt
<1>6. r.ph = "on"
  BY <1>4, <1>5 DEF At, Entry
<1>7. CASE x \in Pool /\ MayPool(t)
  <2>1. r.f \in Pool
    BY <1>4, <1>5, <1>7 DEF PoolAt, Two
  <2>2. MayPool(u)
    BY <1>4, <1>5, <2>1 DEF PoolAt
  <2> QED BY <1>7, <2>2 DEF Careful
<1>8. CASE x \notin Pool /\ Own(t, mtx[x]) > 0 /\ ~Pushed(x) /\ Open0(x)
  <2>1. ~(x = r.g /\ r.l \in {"p4", "p7"})
    <3>1. r.l \in {"p4", "p7"} => r.g \in Pool
      BY <1>1, <1>4 DEF PoolAt, PoolInv
    <3> QED BY <1>8, <3>1
  <2>2. ~(x = r.g /\ r.l \in {"sp2", "n4"})
    BY <1>4, <1>8 DEF PushAt, Pushed
  <2>3. mode[x] # {"avail", "lock"}
    BY <1>8 DEF Open0
  <2>4. ~(x = r.f /\ r.l \in {"k1", "k2"}) /\ ~(x = r.g /\ r.l \in {"n10", "n11"})
    BY <1>4, <2>3 DEF ModeAt
  <2>5. (x = r.f /\ r.l \in {"io4", "sp2", "n4", "st7"}) \/ (x = r.g /\ r.l = "st7")
    BY <1>5, <2>1, <2>2, <2>4
  <2>6. Own(u, mtx[x]) > 0
    BY <1>1, <1>4, <1>6, <2>5, OwnsAt DEF CountG
  <2>7. mtx[x] \in Mutex \cup {None}
    BY <1>1 DEF TypeInv
  <2> QED BY <1>1, <1>8, <2>6, <2>7, OwnIs
<1>9. ASSUME NEW f \in Stream, push[f] = x, Own(t, mtx[f]) > 0 PROVE FALSE
  <2>1. (Engaged(u, x) => Leaves(u, x)) /\ ~Claims(r, x)
    BY <1>1, <1>3, <1>9, PushedAlone
  <2>2. Pushed(x) /\ x \notin Pool
    BY <1>1, <1>9 DEF Pushed, PushInv
  <2>3. x # r.f
    BY <1>4, <1>5, <2>2 DEF PushAt
  <2>4. x = r.g /\ r.l = "sp2"
    <3>1. r.l \notin {"p4", "p7"}
      BY <1>1, <1>4, <1>5, <2>2, <2>3 DEF PoolAt, PoolInv
    <3>2. r.l \notin {"n4", "n10", "n11", "st7"}
      BY <1>5, <2>1, <2>3 DEF Claims, Nested
    <3> QED BY <1>5, <2>3, <3>1, <3>2
  <2>5. push[r.f] = x
    BY <1>4, <2>4 DEF PushAt
  <2>6. r.f = f
    BY <1>1, <1>4, <1>9, <2>5, Names2 DEF PushInv
  <2>7. Own(u, mtx[f]) > 0
    BY <1>1, <1>4, <1>6, <2>4, <2>6, OwnsAt
  <2>8. mtx[f] \in Mutex \cup {None}
    BY <1>1 DEF TypeInv
  <2> QED BY <1>1, <1>9, <2>7, <2>8, OwnIs
<1> QED BY <1>7, <1>8, <1>9

\* A step leaves a stream as it was, or it opens, freezes or frees one that
\* nobody else counts on.
Same(t, x) ==
  /\ mode'[x] = mode[x] /\ touch'[x] = touch[x] /\ ~Parts(t, x)
  /\ x \in ClearsOf(todo[t]) => x \in ClearsOf(todo'[t])
Alters(t, x) ==
  /\ Pushed(x) \/ x \in Pool => Open0(x)'
  /\ "push" \in mode'[x] => "push" \in mode[x]
  /\ Pushed(x) /\ "push" \notin mode'[x] => Parts(t, x)' \/ ("push" \notin mode[x] /\ ~Parts(t, x))
  /\ touch'[x] \ {t} = touch[x] \ {t} /\ (t \in touch'[x] => t \in touch[x] \/ touch[x] = {})
  /\ "lock" \in mode'[x] => \/ t \in touch'[x] \/ x \in ClearsOf(todo'[t])
                            \/ "lock" \in mode[x] /\ t \notin touch[x] /\ x \notin ClearsOf(todo[t])
  /\ "freed" \in mode'[x] => "freed" \in mode[x] \/ (x \in Heap /\ ~Pushed(x) /\ \A u \in Thread : ~Engaged(u, x)')
Lawful(t, x) ==
  \/ mode'[x] = mode[x]
  \/ Open0(x)' /\ mode[x] # {"avail", "lock"}
  \/ Open0(x) /\ Own(t, mtx[x]) > 0
  \/ mode[x] = {"avail", "lock"} /\ t \in touch[x]

LEMMA KeepsBy ==
  ASSUME SysInv, NEW t \in Thread, \A x \in Stream : mtx'[x] = mtx[x] \/ ~Pushed(x), push' = push,
         order' \in Seq(Pool) /\ order' # <<>> /\ \A i, j \in DOMAIN order' : order'[i] = order'[j] => i = j,
         \A x \in Stream : held'[t][x] > 0 => held[t][x] > 0,
         \A x \in Stream : Engaged(t, x)' => Engaged(t, x) \/ "freed" \notin mode[x], \A x \in Stream : Same(t, x) \/ Alters(t, x)
  PROVE  Keeps(t)
<1>1. PushInv /\ PoolInv
  BY DEF SysInv
<1>3. ASSUME NEW x \in Stream
      PROVE  /\ Pushed(x) => mtx'[x] # None
             /\ Pushed(x) \/ x \in Pool => Open0(x)' /\ (held'[t][x] > 0 => held[t][x] > 0)
             /\ "push" \in mode'[x] => "push" \in mode[x]
             /\ Pushed(x) /\ "push" \notin mode'[x] => Parts(t, x)' \/ ("push" \notin mode[x] /\ ~Parts(t, x))
             /\ touch'[x] \ {t} = touch[x] \ {t} /\ (t \in touch'[x] => t \in touch[x] \/ touch[x] = {})
             /\ "lock" \in mode'[x] => \/ t \in touch'[x] \/ x \in ClearsOf(todo'[t])
                                       \/ "lock" \in mode[x] /\ t \notin touch[x] /\ x \notin ClearsOf(todo[t])
             /\ Engaged(t, x)' => Engaged(t, x) \/ "freed" \notin mode[x]
             /\ "freed" \in mode'[x] => "freed" \in mode[x] \/ (x \in Heap /\ ~Pushed(x) /\ \A u \in Thread : ~Engaged(u, x)')
  <2>1. Pushed(x) => mtx'[x] # None
    BY <1>1 DEF PushInv
  <2>2. Pushed(x) \/ x \in Pool => Open0(x)
    BY <1>1 DEF PushInv, PoolInv
  <2>3. CASE Same(t, x)
    BY <2>1, <2>2, <2>3 DEF Same, Open0
  <2>4. CASE Alters(t, x)
    BY <2>1, <2>4 DEF Alters
  <2> QED BY <2>3, <2>4
<1> QED BY <1>3 DEF Keeps

LEMMA OthersLawful ==
  ASSUME LocksInv, NEW t \in Thread, \A x \in Stream : Lawful(t, x), NEW u \in Thread \ {t}, NEW r \in Place, Facts(u, r)
  PROVE  ModeAt(r)'
<1>1. /\ TypeInv /\ LockInv /\ At(u, r) /\ LocksAt(u, r) /\ TouchAt(u, r) /\ ModeAt(r) /\ r.f \in Stream /\ r.g \in Stream
  BY PlaceIs DEF LocksInv, SysInv, Facts
<1>2. ASSUME NEW x \in Stream, Open0(x), Own(u, mtx[x]) > 0 PROVE Open0(x)'
  <2>1. mtx[x] \in Mutex \cup {None}
    BY <1>1 DEF TypeInv
  <2>2. Own(t, mtx[x]) = 0
    BY <1>1, <1>2, <2>1, OwnIs
  <2>3. mode'[x] = mode[x] \/ Open0(x)'
    BY <1>2, <2>2 DEF Lawful, Open0
  <2> QED BY <1>2, <2>3 DEF Open0
<1>3. ASSUME NEW x \in Stream, mode[x] = {"avail", "lock"}, u \in touch[x] PROVE mode'[x] = {"avail", "lock"}
  <2>1. t \notin touch[x]
    BY <1>1, <1>3 DEF LockInv
  <2> QED BY <1>3, <2>1 DEF Lawful, Open0
<1>4. r.l \in {"io3", "io4", "j2", "pop3", "sp1", "sp2", "cl3", "n1", "n2", "n3", "n4", "n5", "n6", "n8", "n9",
               "n10", "n11", "st4", "st5", "st6", "st7"} => Open0(r.f)'
  <2> SUFFICES ASSUME r.l \in {"io3", "io4", "j2", "pop3", "sp1", "sp2", "cl3", "n1", "n2", "n3", "n4", "n5", "n6", "n8", "n9",
                               "n10", "n11", "st4", "st5", "st6", "st7"} PROVE Open0(r.f)'
    OBVIOUS
  <2>1. r.ph = "on" \/ r.l \in {"j2", "n1", "n8"}
    BY <1>1 DEF At, Entry
  <2>2. Own(u, mtx[r.f]) > 0
    BY <1>1, <2>1, OwnsAt
  <2> QED BY <1>1, <1>2, <2>2 DEF ModeAt
<1>5. r.l \in {"n9", "st5", "st6", "st7"} => Open0(r.g)'
  <2> SUFFICES ASSUME r.l \in {"n9", "st5", "st6", "st7"} PROVE Open0(r.g)'
    OBVIOUS
  <2>1. r.ph = "on" /\ CountG(r.l) = 1
    BY <1>1 DEF At, Entry, CountG
  <2>2. Own(u, mtx[r.g]) > 0
    BY <1>1, <2>1, OwnsAt
  <2> QED BY <1>1, <1>2, <2>2 DEF ModeAt
<1>6. r.l \in {"k1", "k2"} => mode'[r.f] = {"avail", "lock"}
  BY <1>1, <1>3 DEF ModeAt, TouchAt
<1>7. r.l \in {"n10", "n11"} => mode'[r.g] = {"avail", "lock"}
  BY <1>1, <1>3 DEF ModeAt, TouchAt
<1> QED BY <1>4, <1>5, <1>6, <1>7 DEF ModeAt

\* A step of a call that changes no mutex, no stack and not the pool.
LEMMA StepStill ==
  ASSUME LocksInv, NEW t \in Thread, NEW p \in Place, NEW q \in Place, Facts(t, p), todo'[t] = Left(q), Only(t),
         UNCHANGED <<locks, mtx, push, order, held>>, TypeInv', ~Doing(t, "unlock"), p.ph = "on", q.ph \in {"on", "lock"},
         Goes(p, q) \/ Fits(t, p, q), \A x \in Stream : Count(q, x) = Count(p, x), q.l \in PoolLabels <=> p.l \in PoolLabels,
         q.l \notin {"k2", "n11"}, \A x \in Stream : (\A y \in Stream : Engaged(t, y)' => Engaged(t, y)) => Same(t, x) \/ Alters(t, x),
         \A x \in Stream : Lawful(t, x), TouchAt(t, q)', ModeAt(q)'
  PROVE  LocksInv'
<1>1. SysInv /\ TypeInv /\ LocksAt(t, p)
  BY DEF LocksInv, SysInv, Facts
<1>2. locks' = locks /\ mtx' = mtx /\ push' = push /\ order' = order /\ held' = held /\ holder' = holder
  BY DEF locks
<1>3. \A x \in Stream : held'[t][x] > 0 => held[t][x] > 0
  BY <1>2
<1>4. Mine(t)
  BY <1>2, LockIdle
<1>5. Fits(t, p, q)
  BY <1>1, <1>2, <1>3, <1>4, GoesFits
<1>6. LocksAt(t, q)'
  BY <1>1, <1>2, OwnLocks DEF PoolLabels
<1>7. MutexAt(t, q)'
  BY DEF MutexAt
<1>8. (\A x \in Stream : Engaged(t, x)' => Engaged(t, x)) => Keeps(t)
  <2>1. order' \in Seq(Pool) /\ order' # <<>> /\ \A i, j \in DOMAIN order' : order'[i] = order'[j] => i = j
    BY <1>1, <1>2 DEF SysInv, PoolInv
  <2> QED BY <1>1, <1>2, <1>3, <2>1, KeepsBy
<1>9. \A u \in Thread \ {t} : \A r \in Place : Facts(u, r) => ModeAt(r)'
  BY OthersLawful
<1>10. q.ph = "take" => q.m \in {Asked(q)} \cup Spare
  OBVIOUS
<1>11. \A m \in Mutex : holder'[m] # None => holder[m] # None \/ m \in {PoolMutex, LibMutex} \/ \E x \in Stream : mtx[x] = m
  BY <1>2
<1> QED BY <1>2, <1>3, <1>4, <1>5, <1>6, <1>7, <1>8, <1>9, <1>10, <1>11, StepStays


LEMMA EnterStep == ASSUME LocksInv, Careful, NEW t \in Thread, Enter(t) PROVE LocksInv'
<1>1. PICK p \in Place : Facts(t, p)
  BY DEF LocksInv, ThreadInv
<1>2. /\ SysInv /\ TypeInv /\ PushInv /\ PoolInv /\ MutexInv /\ At(t, p) /\ LocksAt(t, p) /\ MutexAt(t, p)
      /\ TouchAt(t, p) /\ ModeAt(p) /\ PushAt(p) /\ HeldAt(t, p) /\ PoolAt(t, p) /\ AloneAt(t, p)
  BY <1>1 DEF LocksInv, SysInv, Facts
<1>3. /\ p.ph \in Phase /\ p.l \in Label /\ p.f \in Stream /\ p.g \in Stream /\ p.n \in Nat /\ p.m \in Mutex
  BY PlaceIs
<1>4. HeadsAre(p.f, p.g, p.n) /\ PlansAre(p.f, p.g, p.n) /\ ListsAre(p.f, p.g, p.n)
  BY <1>3, Heads, Plans, Lists
<1>5. p.l \in Two => p.f # p.g
  BY <1>2 DEF At
<1>6. p.ph = "on" /\ todo[t] = Plan(p.l, p.f, p.g, p.n) /\ p.l \in {"io3"}
  <2>1. Doing(t, "enter")
    BY DEF Enter
  <2>2. p.ph = "on" /\ OpOf(p.l) \in {"enter"}
    BY <1>2, <2>1, DoingAt
  <2> QED BY <1>2, <1>3, <2>2, OpLabels, LeftIs DEF At
<1>7. CASE p.l = "io3"
  <2>1. todo[t] # <<>> /\ Head(todo[t]) = <<"enter", p.f>> /\ Tail(todo[t]) = Io4(p.f) /\ IsSeq(Io4(p.f))
    <3>1. Plan("io3", p.f, p.g, p.n) # <<>> /\ Head(Plan("io3", p.f, p.g, p.n)) = <<"enter", p.f>> /\ Tail(Plan("io3", p.f, p.g, p.n)) = Io4(p.f)
      <4>1. HeadsAre(p.f, p.g, p.n)
        BY <1>4
      <4> QED BY <4>1 DEF HeadsAre
    <3>2. IsSeq(Io4(p.f))
      BY <1>4, EmptyIs DEF ListsAre
    <3> QED BY <1>6, <1>7, <3>1, <3>2
  <2>2. It(t) = p.f /\ Head(todo[t])[1] = "enter"
    BY <2>1 DEF It
  <2>3. /\ Only(t) /\ UNCHANGED <<locks, mtx, push, order, held>> /\ ~Doing(t, "unlock") /\ ~Doing(t, "swap") /\ ~Doing(t, "swapped")
    <3>1. DOMAIN todo = Thread
      BY <1>2 DEF TypeInv
    <3>2. ~Doing(t, "unlock") /\ ~Doing(t, "swap") /\ ~Doing(t, "swapped")
      BY <2>2 DEF Doing
    <3>3. UNCHANGED <<locks, mtx, push, order, held>> /\ Only(t)
      BY <3>1 DEF Enter, Done, Only, Untouching, Touching
    <3> QED BY <3>2, <3>3
  <2>4. /\ mode'[p.f] = mode[p.f] \cup {"lock"} /\ touch'[p.f] = touch[p.f] \cup {t}
        /\ \A y \in Stream : y # p.f => mode'[y] = mode[y] /\ touch'[y] = touch[y]
        /\ mode' \in [Stream -> SUBSET {"lock", "push", "pool", "avail", "freed"}] /\ touch' \in [Stream -> SUBSET Thread]
    BY <1>2, <1>3, <2>2 DEF Enter, TypeInv, Touching, Untouching, Doing
  <2>5. TypeInv'
    BY <1>2, <2>3, <2>4 DEF TypeInv, locks, Only
  <2> DEFINE q == To("on", "io4", p.f, p.g, p.n, LibMutex)
  <2>10. q \in Place /\ q.ph = "on" /\ q.l = "io4" /\ q.f = p.f /\ q.g = p.g /\ q.n = p.n
    BY <1>3, ToIs, Names2 DEF Phase, Label, Two
  <2> HIDE DEF q
  <2>11. todo'[t] = Left(q)
    <3>1. todo'[t] = Io4(p.f)
      BY <1>2, <2>1 DEF Enter, Done, TypeInv
    <3>2. Plan("io4", p.f, p.g, p.n) = Io4(p.f)
      BY <1>4 DEF PlansAre
    <3> QED BY <2>10, <3>1, <3>2, LeftIs
  <2>12. Goes(p, q)
    <3>1. Moves("io3", "io4")
      BY DEF Moves
    <3> QED BY <1>7, <2>10, <3>1 DEF Goes
  <2>13. \A y \in Stream : Count(q, y) = Count(p, y)
    BY <1>5, <1>6, <1>7, <2>10 DEF Count, CountF, CountG, Two
  <2>14. ClearsOf(todo[t]) = IF p.l = "j2" THEN {p.f} ELSE IF p.l \in {"p3", "p4", "p5", "p6", "p7"} THEN {p.g} ELSE {}
    BY <1>2, ClearsAt
  <2>15. ClearsOf(todo'[t]) = IF q.l = "j2" THEN {q.f} ELSE IF q.l \in {"p3", "p4", "p5", "p6", "p7"} THEN {q.g} ELSE {}
    BY <2>10, <2>11, LeftClears
  <2>16. \A y \in Stream : y # p.f => Same(t, y)
    <3>1. \A y \in Stream : ~Parts(t, y)
      BY <2>3, NotParting
    <3> QED BY <1>7, <2>4, <2>10, <2>14, <2>15, <3>1 DEF Same
  <2>17. (\A y \in Stream : Engaged(t, y)' => Engaged(t, y)) => Alters(t, p.f)
    <3>1. ~Pushed(p.f) /\ Open0(p.f) /\ Own(t, mtx[p.f]) > 0 /\ (p.f \in Pool => MayPool(t))
      BY <1>2, <1>6, <1>7, OwnsAt DEF PushAt, ModeAt, PoolAt
    <3>2. touch[p.f] \subseteq {t}
      BY <1>3, <3>1, Untouched
    <3> QED BY <2>4, <3>1, <3>2 DEF Alters, Open0
  <2>18. \A y \in Stream : Lawful(t, y)
    BY <1>2, <1>3, <1>7, <2>4 DEF Lawful, ModeAt, Open0
  <2>19. TouchAt(t, q)'
    BY <1>2, <1>3, <1>5, <1>7, <2>4, <2>10 DEF TouchAt, Two
  <2>20. ModeAt(q)'
    BY <1>2, <1>3, <1>7, <2>4, <2>10 DEF ModeAt, Open0
  <2> QED BY <1>1, <1>6, <1>7, <2>3, <2>5, <2>10, <2>11, <2>12, <2>13, <2>16, <2>17, <2>18, <2>19, <2>20, StepStill DEF PoolLabels
<1> QED BY <1>6, <1>7

LEMMA LeaveStep == ASSUME LocksInv, Careful, NEW t \in Thread, Leave(t) PROVE LocksInv'
<1>1. PICK p \in Place : Facts(t, p)
  BY DEF LocksInv, ThreadInv
<1>2. /\ SysInv /\ TypeInv /\ PushInv /\ PoolInv /\ MutexInv /\ At(t, p) /\ LocksAt(t, p) /\ MutexAt(t, p)
      /\ TouchAt(t, p) /\ ModeAt(p) /\ PushAt(p) /\ HeldAt(t, p) /\ PoolAt(t, p) /\ AloneAt(t, p)
  BY <1>1 DEF LocksInv, SysInv, Facts
<1>3. /\ p.ph \in Phase /\ p.l \in Label /\ p.f \in Stream /\ p.g \in Stream /\ p.n \in Nat /\ p.m \in Mutex
  BY PlaceIs
<1>4. HeadsAre(p.f, p.g, p.n) /\ PlansAre(p.f, p.g, p.n) /\ ListsAre(p.f, p.g, p.n)
  BY <1>3, Heads, Plans, Lists
<1>5. p.l \in Two => p.f # p.g
  BY <1>2 DEF At
<1>6. p.ph = "on" /\ todo[t] = Plan(p.l, p.f, p.g, p.n) /\ p.l \in {"io4"}
  <2>1. Doing(t, "leave")
    BY DEF Leave
  <2>2. p.ph = "on" /\ OpOf(p.l) \in {"leave"}
    BY <1>2, <2>1, DoingAt
  <2> QED BY <1>2, <1>3, <2>2, OpLabels, LeftIs DEF At
<1>7. CASE p.l = "io4"
  <2>1. todo[t] # <<>> /\ Head(todo[t]) = <<"leave", p.f>> /\ Tail(todo[t]) = UnlockF(p.f) /\ IsSeq(UnlockF(p.f))
    <3>1. Plan("io4", p.f, p.g, p.n) # <<>> /\ Head(Plan("io4", p.f, p.g, p.n)) = <<"leave", p.f>> /\ Tail(Plan("io4", p.f, p.g, p.n)) = UnlockF(p.f)
      <4>1. HeadsAre(p.f, p.g, p.n)
        BY <1>4
      <4> QED BY <4>1 DEF HeadsAre
    <3>2. IsSeq(UnlockF(p.f))
      BY <1>4, EmptyIs DEF ListsAre
    <3> QED BY <1>6, <1>7, <3>1, <3>2
  <2>2. It(t) = p.f /\ Head(todo[t])[1] = "leave"
    BY <2>1 DEF It
  <2>3. /\ Only(t) /\ UNCHANGED <<locks, mtx, push, order, held>> /\ ~Doing(t, "unlock") /\ ~Doing(t, "swap") /\ ~Doing(t, "swapped")
    <3>1. DOMAIN todo = Thread
      BY <1>2 DEF TypeInv
    <3>2. ~Doing(t, "unlock") /\ ~Doing(t, "swap") /\ ~Doing(t, "swapped")
      BY <2>2 DEF Doing
    <3>3. UNCHANGED <<locks, mtx, push, order, held>> /\ Only(t)
      BY <3>1 DEF Leave, Done, Only, Untouching, Touching
    <3> QED BY <3>2, <3>3
  <2>4. /\ mode'[p.f] = mode[p.f] \ {"lock"} /\ touch'[p.f] = touch[p.f] \ {t}
        /\ \A y \in Stream : y # p.f => mode'[y] = mode[y] /\ touch'[y] = touch[y]
        /\ mode' \in [Stream -> SUBSET {"lock", "push", "pool", "avail", "freed"}] /\ touch' \in [Stream -> SUBSET Thread]
    BY <1>2, <1>3, <2>2 DEF Leave, TypeInv, Touching, Untouching, Doing
  <2>5. TypeInv'
    BY <1>2, <2>3, <2>4 DEF TypeInv, locks, Only
  <2> DEFINE q == To("on", "u1", p.f, p.g, p.n, LibMutex)
  <2>10. q \in Place /\ q.ph = "on" /\ q.l = "u1" /\ q.f = p.f /\ q.g = p.g /\ q.n = p.n
    BY <1>3, ToIs, Names2 DEF Phase, Label, Two
  <2> HIDE DEF q
  <2>11. todo'[t] = Left(q)
    <3>1. todo'[t] = UnlockF(p.f)
      BY <1>2, <2>1 DEF Leave, Done, TypeInv
    <3>2. Plan("u1", p.f, p.g, p.n) = UnlockF(p.f)
      BY <1>4 DEF PlansAre
    <3> QED BY <2>10, <3>1, <3>2, LeftIs
  <2>12. Goes(p, q)
    <3>1. Moves("io4", "u1")
      BY DEF Moves
    <3> QED BY <1>7, <2>10, <3>1 DEF Goes
  <2>13. \A y \in Stream : Count(q, y) = Count(p, y)
    BY <1>5, <1>6, <1>7, <2>10 DEF Count, CountF, CountG, Two
  <2>14. ClearsOf(todo[t]) = IF p.l = "j2" THEN {p.f} ELSE IF p.l \in {"p3", "p4", "p5", "p6", "p7"} THEN {p.g} ELSE {}
    BY <1>2, ClearsAt
  <2>15. ClearsOf(todo'[t]) = IF q.l = "j2" THEN {q.f} ELSE IF q.l \in {"p3", "p4", "p5", "p6", "p7"} THEN {q.g} ELSE {}
    BY <2>10, <2>11, LeftClears
  <2>16. \A y \in Stream : y # p.f => Same(t, y)
    <3>1. \A y \in Stream : ~Parts(t, y)
      BY <2>3, NotParting
    <3> QED BY <1>7, <2>4, <2>10, <2>14, <2>15, <3>1 DEF Same
  <2>17. (\A y \in Stream : Engaged(t, y)' => Engaged(t, y)) => Alters(t, p.f)
    <3>1. ~Pushed(p.f) /\ Open0(p.f)
      BY <1>2, <1>7 DEF PushAt, ModeAt
    <3> QED BY <2>4, <3>1 DEF Alters, Open0
  <2>18. \A y \in Stream : Lawful(t, y)
    BY <1>2, <1>3, <1>7, <2>4 DEF Lawful, ModeAt, Open0
  <2>19. TouchAt(t, q)'
    BY <1>2, <1>3, <1>5, <1>7, <2>4, <2>10 DEF TouchAt, Two
  <2>20. ModeAt(q)'
    BY <1>2, <1>3, <1>7, <2>4, <2>10 DEF ModeAt, Open0
  <2> QED BY <1>1, <1>6, <1>7, <2>3, <2>5, <2>10, <2>11, <2>12, <2>13, <2>16, <2>17, <2>18, <2>19, <2>20, StepStill DEF PoolLabels
<1> QED BY <1>6, <1>7

LEMMA JumpStep == ASSUME LocksInv, Careful, NEW t \in Thread, Jump(t) PROVE LocksInv'
<1>1. PICK p \in Place : Facts(t, p)
  BY DEF LocksInv, ThreadInv
<1>2. /\ SysInv /\ TypeInv /\ PushInv /\ PoolInv /\ MutexInv /\ At(t, p) /\ LocksAt(t, p) /\ MutexAt(t, p)
      /\ TouchAt(t, p) /\ ModeAt(p) /\ PushAt(p) /\ HeldAt(t, p) /\ PoolAt(t, p) /\ AloneAt(t, p)
  BY <1>1 DEF LocksInv, SysInv, Facts
<1>3. /\ p.ph \in Phase /\ p.l \in Label /\ p.f \in Stream /\ p.g \in Stream /\ p.n \in Nat /\ p.m \in Mutex
  BY PlaceIs
<1>4. HeadsAre(p.f, p.g, p.n) /\ PlansAre(p.f, p.g, p.n) /\ ListsAre(p.f, p.g, p.n)
  BY <1>3, Heads, Plans, Lists
<1>5. p.l \in Two => p.f # p.g
  BY <1>2 DEF At
<1>6. p.ph = "on" /\ todo[t] = Plan(p.l, p.f, p.g, p.n) /\ p.l \in {"io4"}
  <2>1. Doing(t, "leave")
    BY DEF Jump
  <2>2. p.ph = "on" /\ OpOf(p.l) \in {"leave"}
    BY <1>2, <2>1, DoingAt
  <2> QED BY <1>2, <1>3, <2>2, OpLabels, LeftIs DEF At
<1>7. CASE p.l = "io4"
  <2>1. todo[t] # <<>> /\ Head(todo[t]) = <<"leave", p.f>> /\ Tail(todo[t]) = UnlockF(p.f) /\ IsSeq(UnlockF(p.f))
    <3>1. Plan("io4", p.f, p.g, p.n) # <<>> /\ Head(Plan("io4", p.f, p.g, p.n)) = <<"leave", p.f>> /\ Tail(Plan("io4", p.f, p.g, p.n)) = UnlockF(p.f)
      <4>1. HeadsAre(p.f, p.g, p.n)
        BY <1>4
      <4> QED BY <4>1 DEF HeadsAre
    <3>2. IsSeq(UnlockF(p.f))
      BY <1>4, EmptyIs DEF ListsAre
    <3> QED BY <1>6, <1>7, <3>1, <3>2
  <2>2. It(t) = p.f /\ Head(todo[t])[1] = "leave"
    BY <2>1 DEF It
  <2>3. /\ Only(t) /\ UNCHANGED <<locks, mtx, push, order, held>> /\ ~Doing(t, "unlock") /\ ~Doing(t, "swap") /\ ~Doing(t, "swapped")
    <3>1. DOMAIN todo = Thread
      BY <1>2 DEF TypeInv
    <3>2. ~Doing(t, "unlock") /\ ~Doing(t, "swap") /\ ~Doing(t, "swapped")
      BY <2>2 DEF Doing
    <3>3. UNCHANGED <<locks, mtx, push, order, held>> /\ Only(t)
      BY <3>1 DEF Jump, Done, Only, Untouching, Touching
    <3> QED BY <3>2, <3>3
  <2>4. /\ mode'[p.f] = mode[p.f] /\ touch'[p.f] = touch[p.f] \ {t}
        /\ \A y \in Stream : y # p.f => mode'[y] = mode[y] /\ touch'[y] = touch[y]
        /\ mode' \in [Stream -> SUBSET {"lock", "push", "pool", "avail", "freed"}] /\ touch' \in [Stream -> SUBSET Thread]
    BY <1>2, <1>3, <2>2 DEF Jump, TypeInv, Touching, Untouching, Doing
  <2>5. TypeInv'
    BY <1>2, <2>3, <2>4 DEF TypeInv, locks, Only
  <2> DEFINE q == To("lock", "j2", p.f, p.g, p.n, LibMutex)
  <2>10. q \in Place /\ q.ph = "lock" /\ q.l = "j2" /\ q.f = p.f /\ q.g = p.g /\ q.n = p.n
    BY <1>3, ToIs, Names2 DEF Phase, Label, Two
  <2> HIDE DEF q
  <2>11. todo'[t] = Left(q)
    <3>1. PICK a, b, e, d : a = <<"lock", p.f>> /\ b = <<"clear", p.f>> /\ e = <<"unlock", p.f>> /\ d = <<"clrmtx", p.f>>
      OBVIOUS
    <3>2. todo'[t] = <<a, b, e, d>>
      BY <1>2, <2>2, <3>1 DEF Jump, TypeInv
    <3>3. <<a, b, e, d>> = Then(a, Then(b, Then(e, Then(d, <<>>))))
      <4>1. IsSeq(<<>>)
        BY EmptyIs
      <4>2. PICK r : r = <<a, b, e, d>> \o <<>>
        OBVIOUS
      <4> QED BY <4>1, <4>2, Cat4
    <3>4. Plan("j2", p.f, p.g, p.n) = Then(b, Then(e, Then(d, <<>>)))
      BY <1>4, <3>1 DEF PlansAre, J3, J4
    <3> QED BY <2>10, <3>1, <3>2, <3>3, <3>4 DEF Left, Asked
  <2>12. Fits(t, p, q)
    <3>1. About(q) = About(p) /\ q.l \notin Two
      BY <1>7, <2>10 DEF About, Two
    <3>2. PushAt(q)' /\ HeldAt(t, q)'
      BY <1>2, <1>7, <2>3, <2>10 DEF PushAt, HeldAt, Pushed
    <3>3. p.f \notin Pool
      <4>1. <<"jump", p.f>> \in Calls[t]
        BY <2>2 DEF Jump
      <4> QED BY <4>1 DEF Careful
    <3>4. PoolAt(t, q)'
      BY <2>10, <3>3 DEF PoolAt, Two
    <3>5. RankAt(q)' /\ AloneAt(t, q)'
      BY <2>10 DEF RankAt, AloneAt, Nested
    <3> QED BY <2>10, <3>1, <3>2, <3>4, <3>5 DEF Fits, Entry
  <2>13. \A y \in Stream : Count(q, y) = Count(p, y)
    BY <1>5, <1>6, <1>7, <2>10 DEF Count, CountF, CountG, Two, Asked
  <2>14. ClearsOf(todo[t]) = IF p.l = "j2" THEN {p.f} ELSE IF p.l \in {"p3", "p4", "p5", "p6", "p7"} THEN {p.g} ELSE {}
    BY <1>2, ClearsAt
  <2>15. ClearsOf(todo'[t]) = IF q.l = "j2" THEN {q.f} ELSE IF q.l \in {"p3", "p4", "p5", "p6", "p7"} THEN {q.g} ELSE {}
    BY <2>10, <2>11, LeftClears
  <2>16. \A y \in Stream : y # p.f => Same(t, y)
    <3>1. \A y \in Stream : ~Parts(t, y)
      BY <2>3, NotParting
    <3> QED BY <1>7, <2>4, <2>10, <2>14, <2>15, <3>1 DEF Same
  <2>17. (\A y \in Stream : Engaged(t, y)' => Engaged(t, y)) => Alters(t, p.f)
    <3>1. ~Pushed(p.f) /\ Open0(p.f) /\ p.f \in ClearsOf(todo'[t])
      BY <1>2, <1>7, <2>10, <2>15 DEF PushAt, ModeAt
    <3> QED BY <2>4, <3>1 DEF Alters, Open0
  <2>18. \A y \in Stream : Lawful(t, y)
    BY <1>2, <1>3, <1>7, <2>4 DEF Lawful, ModeAt, Open0
  <2>19. TouchAt(t, q)'
    BY <1>2, <1>3, <1>5, <1>7, <2>4, <2>10 DEF TouchAt, Two
  <2>20. ModeAt(q)'
    BY <1>2, <1>3, <1>7, <2>4, <2>10 DEF ModeAt, Open0
  <2> QED BY <1>1, <1>6, <1>7, <2>3, <2>5, <2>10, <2>11, <2>12, <2>13, <2>16, <2>17, <2>18, <2>19, <2>20, StepStill DEF PoolLabels
<1> QED BY <1>6, <1>7

LEMMA ClearStep == ASSUME LocksInv, Careful, NEW t \in Thread, Clear(t) PROVE LocksInv'
<1>1. PICK p \in Place : Facts(t, p)
  BY DEF LocksInv, ThreadInv
<1>2. /\ SysInv /\ TypeInv /\ PushInv /\ PoolInv /\ MutexInv /\ At(t, p) /\ LocksAt(t, p) /\ MutexAt(t, p)
      /\ TouchAt(t, p) /\ ModeAt(p) /\ PushAt(p) /\ HeldAt(t, p) /\ PoolAt(t, p) /\ AloneAt(t, p)
  BY <1>1 DEF LocksInv, SysInv, Facts
<1>3. /\ p.ph \in Phase /\ p.l \in Label /\ p.f \in Stream /\ p.g \in Stream /\ p.n \in Nat /\ p.m \in Mutex
  BY PlaceIs
<1>4. HeadsAre(p.f, p.g, p.n) /\ PlansAre(p.f, p.g, p.n) /\ ListsAre(p.f, p.g, p.n)
  BY <1>3, Heads, Plans, Lists
<1>5. p.l \in Two => p.f # p.g
  BY <1>2 DEF At
<1>6. p.ph = "on" /\ todo[t] = Plan(p.l, p.f, p.g, p.n) /\ p.l \in {"j2"}
  <2>1. Doing(t, "clear")
    BY DEF Clear
  <2>2. p.ph = "on" /\ OpOf(p.l) \in {"clear"}
    BY <1>2, <2>1, DoingAt
  <2> QED BY <1>2, <1>3, <2>2, OpLabels, LeftIs DEF At
<1>7. CASE p.l = "j2"
  <2>1. todo[t] # <<>> /\ Head(todo[t]) = <<"clear", p.f>> /\ Tail(todo[t]) = J3(p.f) /\ IsSeq(J3(p.f))
    <3>1. Plan("j2", p.f, p.g, p.n) # <<>> /\ Head(Plan("j2", p.f, p.g, p.n)) = <<"clear", p.f>> /\ Tail(Plan("j2", p.f, p.g, p.n)) = J3(p.f)
      <4>1. HeadsAre(p.f, p.g, p.n)
        BY <1>4
      <4> QED BY <4>1 DEF HeadsAre
    <3>2. IsSeq(J3(p.f))
      BY <1>4, EmptyIs DEF ListsAre
    <3> QED BY <1>6, <1>7, <3>1, <3>2
  <2>2. It(t) = p.f /\ Head(todo[t])[1] = "clear"
    BY <2>1 DEF It
  <2>3. /\ Only(t) /\ UNCHANGED <<locks, mtx, push, order, held>> /\ ~Doing(t, "unlock") /\ ~Doing(t, "swap") /\ ~Doing(t, "swapped")
    <3>1. DOMAIN todo = Thread
      BY <1>2 DEF TypeInv
    <3>2. ~Doing(t, "unlock") /\ ~Doing(t, "swap") /\ ~Doing(t, "swapped")
      BY <2>2 DEF Doing
    <3>3. UNCHANGED <<locks, mtx, push, order, held>> /\ Only(t)
      BY <3>1 DEF Clear, Done, Only, Untouching, Touching
    <3> QED BY <3>2, <3>3
  <2>4. /\ mode'[p.f] = mode[p.f] \cap {"pool", "push"} /\ touch'[p.f] = touch[p.f]
        /\ \A y \in Stream : y # p.f => mode'[y] = mode[y] /\ touch'[y] = touch[y]
        /\ mode' \in [Stream -> SUBSET {"lock", "push", "pool", "avail", "freed"}] /\ touch' \in [Stream -> SUBSET Thread]
    <3>1. "avail" \notin mode[p.f]
      BY <1>2, <1>7 DEF ModeAt, Open0
    <3>2. /\ mode' = [mode EXCEPT ![p.f] = IF "avail" \in @ THEN @ ELSE @ \cap {"pool", "push"}]
          /\ touch' = touch
      BY <2>2 DEF Clear
    <3>3. mode \in [Stream -> SUBSET {"lock", "push", "pool", "avail", "freed"}] /\ touch \in [Stream -> SUBSET Thread]
      BY <1>2 DEF TypeInv
    <3>4. mode' = [mode EXCEPT ![p.f] = mode[p.f] \cap {"pool", "push"}]
      BY <1>3, <3>1, <3>2, <3>3
    <3> QED BY <1>3, <3>2, <3>3, <3>4
  <2>5. TypeInv'
    BY <1>2, <2>3, <2>4 DEF TypeInv, locks, Only
  <2> DEFINE q == To("on", "j3", p.f, p.g, p.n, LibMutex)
  <2>10. q \in Place /\ q.ph = "on" /\ q.l = "j3" /\ q.f = p.f /\ q.g = p.g /\ q.n = p.n
    BY <1>3, ToIs, Names2 DEF Phase, Label, Two
  <2> HIDE DEF q
  <2>11. todo'[t] = Left(q)
    <3>1. todo'[t] = J3(p.f)
      BY <1>2, <2>1 DEF Clear, Done, TypeInv
    <3>2. Plan("j3", p.f, p.g, p.n) = J3(p.f)
      BY <1>4 DEF PlansAre
    <3> QED BY <2>10, <3>1, <3>2, LeftIs
  <2>12. Goes(p, q)
    <3>1. Moves("j2", "j3")
      BY DEF Moves
    <3> QED BY <1>7, <2>10, <3>1 DEF Goes
  <2>13. \A y \in Stream : Count(q, y) = Count(p, y)
    BY <1>5, <1>6, <1>7, <2>10 DEF Count, CountF, CountG, Two
  <2>14. ClearsOf(todo[t]) = IF p.l = "j2" THEN {p.f} ELSE IF p.l \in {"p3", "p4", "p5", "p6", "p7"} THEN {p.g} ELSE {}
    BY <1>2, ClearsAt
  <2>15. ClearsOf(todo'[t]) = IF q.l = "j2" THEN {q.f} ELSE IF q.l \in {"p3", "p4", "p5", "p6", "p7"} THEN {q.g} ELSE {}
    BY <2>10, <2>11, LeftClears
  <2>16. \A y \in Stream : y # p.f => Same(t, y)
    <3>1. \A y \in Stream : ~Parts(t, y)
      BY <2>3, NotParting
    <3> QED BY <1>7, <2>4, <2>10, <2>14, <2>15, <3>1 DEF Same
  <2>17. (\A y \in Stream : Engaged(t, y)' => Engaged(t, y)) => Alters(t, p.f)
    <3>1. ~Pushed(p.f) /\ Open0(p.f)
      BY <1>2, <1>7 DEF PushAt, ModeAt
    <3> QED BY <2>4, <3>1 DEF Alters, Open0
  <2>18. \A y \in Stream : Lawful(t, y)
    BY <1>2, <1>3, <1>7, <2>4 DEF Lawful, ModeAt, Open0
  <2>19. TouchAt(t, q)'
    BY <1>2, <1>3, <1>5, <1>7, <2>4, <2>10 DEF TouchAt, Two
  <2>20. ModeAt(q)'
    BY <1>2, <1>3, <1>7, <2>4, <2>10 DEF ModeAt, Open0
  <2> QED BY <1>1, <1>6, <1>7, <2>3, <2>5, <2>10, <2>11, <2>12, <2>13, <2>16, <2>17, <2>18, <2>19, <2>20, StepStill DEF PoolLabels
<1> QED BY <1>6, <1>7

LEMMA TouchStep == ASSUME LocksInv, Careful, NEW t \in Thread, Touch(t) PROVE LocksInv'
<1>1. PICK p \in Place : Facts(t, p)
  BY DEF LocksInv, ThreadInv
<1>2. /\ SysInv /\ TypeInv /\ PushInv /\ PoolInv /\ MutexInv /\ At(t, p) /\ LocksAt(t, p) /\ MutexAt(t, p)
      /\ TouchAt(t, p) /\ ModeAt(p) /\ PushAt(p) /\ HeldAt(t, p) /\ PoolAt(t, p) /\ AloneAt(t, p)
  BY <1>1 DEF LocksInv, SysInv, Facts
<1>3. /\ p.ph \in Phase /\ p.l \in Label /\ p.f \in Stream /\ p.g \in Stream /\ p.n \in Nat /\ p.m \in Mutex
  BY PlaceIs
<1>4. HeadsAre(p.f, p.g, p.n) /\ PlansAre(p.f, p.g, p.n) /\ ListsAre(p.f, p.g, p.n)
  BY <1>3, Heads, Plans, Lists
<1>5. p.l \in Two => p.f # p.g
  BY <1>2 DEF At
<1>6. p.ph = "on" /\ todo[t] = Plan(p.l, p.f, p.g, p.n) /\ p.l \in {"p3", "p4", "p6"}
  <2>1. Doing(t, "touch") \/ Doing(t, "untouch")
    BY DEF Touch
  <2>2. p.ph = "on" /\ OpOf(p.l) \in {"touch", "untouch"}
    BY <1>2, <2>1, DoingAt
  <2> QED BY <1>2, <1>3, <2>2, OpLabels, LeftIs DEF At
<1>7. CASE p.l = "p3"
  <2>1. todo[t] # <<>> /\ Head(todo[t]) = <<"touch", p.g>> /\ Tail(todo[t]) = P4(p.f, p.g, p.n) /\ IsSeq(P4(p.f, p.g, p.n))
    <3>1. Plan("p3", p.f, p.g, p.n) # <<>> /\ Head(Plan("p3", p.f, p.g, p.n)) = <<"touch", p.g>> /\ Tail(Plan("p3", p.f, p.g, p.n)) = P4(p.f, p.g, p.n)
      <4>1. HeadsAre(p.f, p.g, p.n)
        BY <1>4
      <4> QED BY <4>1 DEF HeadsAre
    <3>2. IsSeq(P4(p.f, p.g, p.n))
      BY <1>4, EmptyIs DEF ListsAre
    <3> QED BY <1>6, <1>7, <3>1, <3>2
  <2>2. It(t) = p.g /\ Head(todo[t])[1] = "touch"
    BY <2>1 DEF It
  <2>3. /\ Only(t) /\ UNCHANGED <<locks, mtx, push, order, held>> /\ ~Doing(t, "unlock") /\ ~Doing(t, "swap") /\ ~Doing(t, "swapped")
    <3>1. DOMAIN todo = Thread
      BY <1>2 DEF TypeInv
    <3>2. ~Doing(t, "unlock") /\ ~Doing(t, "swap") /\ ~Doing(t, "swapped")
      BY <2>2 DEF Doing
    <3>3. UNCHANGED <<locks, mtx, push, order, held>> /\ Only(t)
      BY <3>1 DEF Touch, Done, Only, Untouching, Touching
    <3> QED BY <3>2, <3>3
  <2>4. /\ mode'[p.g] = mode[p.g] /\ touch'[p.g] = touch[p.g] \cup {t}
        /\ \A y \in Stream : y # p.g => mode'[y] = mode[y] /\ touch'[y] = touch[y]
        /\ mode' \in [Stream -> SUBSET {"lock", "push", "pool", "avail", "freed"}] /\ touch' \in [Stream -> SUBSET Thread]
    BY <1>2, <1>3, <2>2 DEF Touch, TypeInv, Touching, Untouching, Doing
  <2>5. TypeInv'
    BY <1>2, <2>3, <2>4 DEF TypeInv, locks, Only
  <2> DEFINE q == To("on", "p4", p.f, p.g, p.n, LibMutex)
  <2>10. q \in Place /\ q.ph = "on" /\ q.l = "p4" /\ q.f = p.f /\ q.g = p.g /\ q.n = p.n
    BY <1>3, ToIs, Names2 DEF Phase, Label, Two
  <2> HIDE DEF q
  <2>11. todo'[t] = Left(q)
    <3>1. todo'[t] = P4(p.f, p.g, p.n)
      BY <1>2, <2>1 DEF Touch, Done, TypeInv
    <3>2. Plan("p4", p.f, p.g, p.n) = P4(p.f, p.g, p.n)
      BY <1>4 DEF PlansAre
    <3> QED BY <2>10, <3>1, <3>2, LeftIs
  <2>12. Goes(p, q)
    <3>1. Moves("p3", "p4")
      BY DEF Moves
    <3> QED BY <1>7, <2>10, <3>1 DEF Goes
  <2>13. \A y \in Stream : Count(q, y) = Count(p, y)
    BY <1>5, <1>6, <1>7, <2>10 DEF Count, CountF, CountG, Two
  <2>14. ClearsOf(todo[t]) = IF p.l = "j2" THEN {p.f} ELSE IF p.l \in {"p3", "p4", "p5", "p6", "p7"} THEN {p.g} ELSE {}
    BY <1>2, ClearsAt
  <2>15. ClearsOf(todo'[t]) = IF q.l = "j2" THEN {q.f} ELSE IF q.l \in {"p3", "p4", "p5", "p6", "p7"} THEN {q.g} ELSE {}
    BY <2>10, <2>11, LeftClears
  <2>16. \A y \in Stream : y # p.g => Same(t, y)
    <3>1. \A y \in Stream : ~Parts(t, y)
      BY <2>3, NotParting
    <3> QED BY <1>7, <2>4, <2>10, <2>14, <2>15, <3>1 DEF Same
  <2>17. (\A y \in Stream : Engaged(t, y)' => Engaged(t, y)) => Alters(t, p.g)
    <3>1. p.g \in Pool /\ MayPool(t)
      BY <1>2, <1>7 DEF PoolAt, PoolInv
    <3>2. touch[p.g] \subseteq {t}
      BY <1>3, <3>1, Untouched
    <3>3. p.g \in ClearsOf(todo'[t])
      BY <2>10, <2>15
    <3>4. ~Pushed(p.g) /\ Open0(p.g)
      BY <1>2, <1>3, <3>1 DEF PushInv, PoolInv
    <3> QED BY <2>4, <3>2, <3>3, <3>4 DEF Alters, Open0
  <2>18. \A y \in Stream : Lawful(t, y)
    BY <1>2, <1>3, <1>7, <2>4 DEF Lawful, ModeAt, Open0
  <2>19. TouchAt(t, q)'
    BY <1>2, <1>3, <1>5, <1>7, <2>4, <2>10 DEF TouchAt, Two
  <2>20. ModeAt(q)'
    BY <1>2, <1>3, <1>7, <2>4, <2>10 DEF ModeAt, Open0
  <2> QED BY <1>1, <1>6, <1>7, <2>3, <2>5, <2>10, <2>11, <2>12, <2>13, <2>16, <2>17, <2>18, <2>19, <2>20, StepStill DEF PoolLabels
<1>8. CASE p.l = "p4"
  <2>1. todo[t] # <<>> /\ Head(todo[t]) = <<"untouch", p.g>> /\ Tail(todo[t]) = P5(p.f, p.g, p.n) /\ IsSeq(P5(p.f, p.g, p.n))
    <3>1. Plan("p4", p.f, p.g, p.n) # <<>> /\ Head(Plan("p4", p.f, p.g, p.n)) = <<"untouch", p.g>> /\ Tail(Plan("p4", p.f, p.g, p.n)) = P5(p.f, p.g, p.n)
      <4>1. HeadsAre(p.f, p.g, p.n)
        BY <1>4
      <4> QED BY <4>1 DEF HeadsAre
    <3>2. IsSeq(P5(p.f, p.g, p.n))
      BY <1>4, EmptyIs DEF ListsAre
    <3> QED BY <1>6, <1>8, <3>1, <3>2
  <2>2. It(t) = p.g /\ Head(todo[t])[1] = "untouch"
    BY <2>1 DEF It
  <2>3. /\ Only(t) /\ UNCHANGED <<locks, mtx, push, order, held>> /\ ~Doing(t, "unlock") /\ ~Doing(t, "swap") /\ ~Doing(t, "swapped")
    <3>1. DOMAIN todo = Thread
      BY <1>2 DEF TypeInv
    <3>2. ~Doing(t, "unlock") /\ ~Doing(t, "swap") /\ ~Doing(t, "swapped")
      BY <2>2 DEF Doing
    <3>3. UNCHANGED <<locks, mtx, push, order, held>> /\ Only(t)
      BY <3>1 DEF Touch, Done, Only, Untouching, Touching
    <3> QED BY <3>2, <3>3
  <2>4. /\ mode'[p.g] = mode[p.g] /\ touch'[p.g] = touch[p.g] \ {t}
        /\ \A y \in Stream : y # p.g => mode'[y] = mode[y] /\ touch'[y] = touch[y]
        /\ mode' \in [Stream -> SUBSET {"lock", "push", "pool", "avail", "freed"}] /\ touch' \in [Stream -> SUBSET Thread]
    BY <1>2, <1>3, <2>2 DEF Touch, TypeInv, Touching, Untouching, Doing
  <2>5. TypeInv'
    BY <1>2, <2>3, <2>4 DEF TypeInv, locks, Only
  <2> DEFINE q == To("on", "p5", p.f, p.g, p.n, LibMutex)
  <2>10. q \in Place /\ q.ph = "on" /\ q.l = "p5" /\ q.f = p.f /\ q.g = p.g /\ q.n = p.n
    BY <1>3, ToIs, Names2 DEF Phase, Label, Two
  <2> HIDE DEF q
  <2>11. todo'[t] = Left(q)
    <3>1. todo'[t] = P5(p.f, p.g, p.n)
      BY <1>2, <2>1 DEF Touch, Done, TypeInv
    <3>2. Plan("p5", p.f, p.g, p.n) = P5(p.f, p.g, p.n)
      BY <1>4 DEF PlansAre
    <3> QED BY <2>10, <3>1, <3>2, LeftIs
  <2>12. Goes(p, q)
    <3>1. Moves("p4", "p5")
      BY DEF Moves
    <3> QED BY <1>8, <2>10, <3>1 DEF Goes
  <2>13. \A y \in Stream : Count(q, y) = Count(p, y)
    BY <1>5, <1>6, <1>8, <2>10 DEF Count, CountF, CountG, Two
  <2>14. ClearsOf(todo[t]) = IF p.l = "j2" THEN {p.f} ELSE IF p.l \in {"p3", "p4", "p5", "p6", "p7"} THEN {p.g} ELSE {}
    BY <1>2, ClearsAt
  <2>15. ClearsOf(todo'[t]) = IF q.l = "j2" THEN {q.f} ELSE IF q.l \in {"p3", "p4", "p5", "p6", "p7"} THEN {q.g} ELSE {}
    BY <2>10, <2>11, LeftClears
  <2>16. \A y \in Stream : y # p.g => Same(t, y)
    <3>1. \A y \in Stream : ~Parts(t, y)
      BY <2>3, NotParting
    <3> QED BY <1>8, <2>4, <2>10, <2>14, <2>15, <3>1 DEF Same
  <2>17. (\A y \in Stream : Engaged(t, y)' => Engaged(t, y)) => Alters(t, p.g)
    <3>1. p.g \in Pool /\ MayPool(t)
      BY <1>2, <1>8 DEF PoolAt, PoolInv
    <3>2. touch[p.g] \subseteq {t}
      BY <1>3, <3>1, Untouched
    <3>3. p.g \in ClearsOf(todo'[t])
      BY <2>10, <2>15
    <3>4. ~Pushed(p.g) /\ Open0(p.g)
      BY <1>2, <1>3, <3>1 DEF PushInv, PoolInv
    <3> QED BY <2>4, <3>2, <3>3, <3>4 DEF Alters, Open0
  <2>18. \A y \in Stream : Lawful(t, y)
    BY <1>2, <1>3, <1>8, <2>4 DEF Lawful, ModeAt, Open0
  <2>19. TouchAt(t, q)'
    BY <1>2, <1>3, <1>5, <1>8, <2>4, <2>10 DEF TouchAt, Two
  <2>20. ModeAt(q)'
    BY <1>2, <1>3, <1>8, <2>4, <2>10 DEF ModeAt, Open0
  <2> QED BY <1>1, <1>6, <1>8, <2>3, <2>5, <2>10, <2>11, <2>12, <2>13, <2>16, <2>17, <2>18, <2>19, <2>20, StepStill DEF PoolLabels
<1>9. CASE p.l = "p6"
  <2>1. todo[t] # <<>> /\ Head(todo[t]) = <<"touch", p.g>> /\ Tail(todo[t]) = P7(p.f, p.g, p.n) /\ IsSeq(P7(p.f, p.g, p.n))
    <3>1. Plan("p6", p.f, p.g, p.n) # <<>> /\ Head(Plan("p6", p.f, p.g, p.n)) = <<"touch", p.g>> /\ Tail(Plan("p6", p.f, p.g, p.n)) = P7(p.f, p.g, p.n)
      <4>1. HeadsAre(p.f, p.g, p.n)
        BY <1>4
      <4> QED BY <4>1 DEF HeadsAre
    <3>2. IsSeq(P7(p.f, p.g, p.n))
      BY <1>4, EmptyIs DEF ListsAre
    <3> QED BY <1>6, <1>9, <3>1, <3>2
  <2>2. It(t) = p.g /\ Head(todo[t])[1] = "touch"
    BY <2>1 DEF It
  <2>3. /\ Only(t) /\ UNCHANGED <<locks, mtx, push, order, held>> /\ ~Doing(t, "unlock") /\ ~Doing(t, "swap") /\ ~Doing(t, "swapped")
    <3>1. DOMAIN todo = Thread
      BY <1>2 DEF TypeInv
    <3>2. ~Doing(t, "unlock") /\ ~Doing(t, "swap") /\ ~Doing(t, "swapped")
      BY <2>2 DEF Doing
    <3>3. UNCHANGED <<locks, mtx, push, order, held>> /\ Only(t)
      BY <3>1 DEF Touch, Done, Only, Untouching, Touching
    <3> QED BY <3>2, <3>3
  <2>4. /\ mode'[p.g] = mode[p.g] /\ touch'[p.g] = touch[p.g] \cup {t}
        /\ \A y \in Stream : y # p.g => mode'[y] = mode[y] /\ touch'[y] = touch[y]
        /\ mode' \in [Stream -> SUBSET {"lock", "push", "pool", "avail", "freed"}] /\ touch' \in [Stream -> SUBSET Thread]
    BY <1>2, <1>3, <2>2 DEF Touch, TypeInv, Touching, Untouching, Doing
  <2>5. TypeInv'
    BY <1>2, <2>3, <2>4 DEF TypeInv, locks, Only
  <2> DEFINE q == To("on", "p7", p.f, p.g, p.n, LibMutex)
  <2>10. q \in Place /\ q.ph = "on" /\ q.l = "p7" /\ q.f = p.f /\ q.g = p.g /\ q.n = p.n
    BY <1>3, ToIs, Names2 DEF Phase, Label, Two
  <2> HIDE DEF q
  <2>11. todo'[t] = Left(q)
    <3>1. todo'[t] = P7(p.f, p.g, p.n)
      BY <1>2, <2>1 DEF Touch, Done, TypeInv
    <3>2. Plan("p7", p.f, p.g, p.n) = P7(p.f, p.g, p.n)
      BY <1>4 DEF PlansAre
    <3> QED BY <2>10, <3>1, <3>2, LeftIs
  <2>12. Goes(p, q)
    <3>1. Moves("p6", "p7")
      BY DEF Moves
    <3> QED BY <1>9, <2>10, <3>1 DEF Goes
  <2>13. \A y \in Stream : Count(q, y) = Count(p, y)
    BY <1>5, <1>6, <1>9, <2>10 DEF Count, CountF, CountG, Two
  <2>14. ClearsOf(todo[t]) = IF p.l = "j2" THEN {p.f} ELSE IF p.l \in {"p3", "p4", "p5", "p6", "p7"} THEN {p.g} ELSE {}
    BY <1>2, ClearsAt
  <2>15. ClearsOf(todo'[t]) = IF q.l = "j2" THEN {q.f} ELSE IF q.l \in {"p3", "p4", "p5", "p6", "p7"} THEN {q.g} ELSE {}
    BY <2>10, <2>11, LeftClears
  <2>16. \A y \in Stream : y # p.g => Same(t, y)
    <3>1. \A y \in Stream : ~Parts(t, y)
      BY <2>3, NotParting
    <3> QED BY <1>9, <2>4, <2>10, <2>14, <2>15, <3>1 DEF Same
  <2>17. (\A y \in Stream : Engaged(t, y)' => Engaged(t, y)) => Alters(t, p.g)
    <3>1. p.g \in Pool /\ MayPool(t)
      BY <1>2, <1>9 DEF PoolAt, PoolInv
    <3>2. touch[p.g] \subseteq {t}
      BY <1>3, <3>1, Untouched
    <3>3. p.g \in ClearsOf(todo'[t])
      BY <2>10, <2>15
    <3>4. ~Pushed(p.g) /\ Open0(p.g)
      BY <1>2, <1>3, <3>1 DEF PushInv, PoolInv
    <3> QED BY <2>4, <3>2, <3>3, <3>4 DEF Alters, Open0
  <2>18. \A y \in Stream : Lawful(t, y)
    BY <1>2, <1>3, <1>9, <2>4 DEF Lawful, ModeAt, Open0
  <2>19. TouchAt(t, q)'
    BY <1>2, <1>3, <1>5, <1>9, <2>4, <2>10 DEF TouchAt, Two
  <2>20. ModeAt(q)'
    BY <1>2, <1>3, <1>9, <2>4, <2>10 DEF ModeAt, Open0
  <2> QED BY <1>1, <1>6, <1>9, <2>3, <2>5, <2>10, <2>11, <2>12, <2>13, <2>16, <2>17, <2>18, <2>19, <2>20, StepStill DEF PoolLabels
<1> QED BY <1>6, <1>7, <1>8, <1>9

LEMMA SwapStep == ASSUME LocksInv, Careful, NEW t \in Thread, Swap(t) PROVE LocksInv'
<1>1. PICK p \in Place : Facts(t, p)
  BY DEF LocksInv, ThreadInv
<1>2. /\ SysInv /\ TypeInv /\ PushInv /\ PoolInv /\ MutexInv /\ At(t, p) /\ LocksAt(t, p) /\ MutexAt(t, p)
      /\ TouchAt(t, p) /\ ModeAt(p) /\ PushAt(p) /\ HeldAt(t, p) /\ PoolAt(t, p) /\ AloneAt(t, p)
  BY <1>1 DEF LocksInv, SysInv, Facts
<1>3. /\ p.ph \in Phase /\ p.l \in Label /\ p.f \in Stream /\ p.g \in Stream /\ p.n \in Nat /\ p.m \in Mutex
  BY PlaceIs
<1>4. HeadsAre(p.f, p.g, p.n) /\ PlansAre(p.f, p.g, p.n) /\ ListsAre(p.f, p.g, p.n)
  BY <1>3, Heads, Plans, Lists
<1>5. p.l \in Two => p.f # p.g
  BY <1>2 DEF At
<1>6. p.ph = "on" /\ todo[t] = Plan(p.l, p.f, p.g, p.n) /\ p.l \in {"sp1", "n3", "st6"}
  <2>1. Doing(t, "swap")
    BY DEF Swap
  <2>2. p.ph = "on" /\ OpOf(p.l) \in {"swap"}
    BY <1>2, <2>1, DoingAt
  <2> QED BY <1>2, <1>3, <2>2, OpLabels, LeftIs DEF At
<1>7. CASE p.l = "sp1"
  <2>1. todo[t] # <<>> /\ Head(todo[t]) = <<"swap", p.f, p.g>> /\ Tail(todo[t]) = Sp2(p.f, p.g) /\ IsSeq(Sp2(p.f, p.g))
    <3>1. Plan("sp1", p.f, p.g, p.n) # <<>> /\ Head(Plan("sp1", p.f, p.g, p.n)) = <<"swap", p.f, p.g>> /\ Tail(Plan("sp1", p.f, p.g, p.n)) = Sp2(p.f, p.g)
      <4>1. HeadsAre(p.f, p.g, p.n)
        BY <1>4
      <4> QED BY <4>1 DEF HeadsAre
    <3>2. IsSeq(Sp2(p.f, p.g))
      BY <1>4, EmptyIs DEF ListsAre
    <3> QED BY <1>6, <1>7, <3>1, <3>2
  <2>2. It(t) = p.f /\ Head(todo[t])[1] = "swap" /\ Head(todo[t])[3] = p.g
    BY <2>1 DEF It
  <2>3. /\ Only(t) /\ UNCHANGED <<locks, mtx, push, order, held>> /\ ~Doing(t, "unlock")
    <3>1. DOMAIN todo = Thread
      BY <1>2 DEF TypeInv
    <3>2. ~Doing(t, "unlock")
      BY <2>2 DEF Doing
    <3>3. UNCHANGED <<locks, mtx, push, order, held>> /\ Only(t)
      BY <3>1 DEF Swap, Done, Only, Untouching, Touching
    <3> QED BY <3>2, <3>3
  <2>4. /\ mode'[p.f] = mode[p.f] \cup {"lock"} /\ touch'[p.f] = touch[p.f] \cup {t}
        /\ mode'[p.g] = mode[p.g] \cup {"lock"} /\ touch'[p.g] = touch[p.g] \cup {t}
        /\ \A y \in Stream : y # p.f /\ y # p.g => mode'[y] = mode[y] /\ touch'[y] = touch[y]
        /\ mode' \in [Stream -> SUBSET {"lock", "push", "pool", "avail", "freed"}] /\ touch' \in [Stream -> SUBSET Thread]
    BY <1>2, <1>3, <2>2 DEF Swap, TypeInv, Touching, Untouching, Doing
  <2>5. TypeInv'
    BY <1>2, <2>3, <2>4 DEF TypeInv, locks, Only
  <2> DEFINE q == To("on", "sp2", p.f, p.g, p.n, LibMutex)
  <2>10. q \in Place /\ q.ph = "on" /\ q.l = "sp2" /\ q.f = p.f /\ q.g = p.g /\ q.n = p.n
    BY <1>3, ToIs, Names2 DEF Phase, Label, Two
  <2> HIDE DEF q
  <2>11. todo'[t] = Left(q)
    <3>1. todo'[t] = Sp2(p.f, p.g)
      BY <1>2, <2>1 DEF Swap, Done, TypeInv
    <3>2. Plan("sp2", p.f, p.g, p.n) = Sp2(p.f, p.g)
      BY <1>4 DEF PlansAre
    <3> QED BY <2>10, <3>1, <3>2, LeftIs
  <2>12. Goes(p, q)
    <3>1. Moves("sp1", "sp2")
      BY DEF Moves
    <3> QED BY <1>7, <2>10, <3>1 DEF Goes
  <2>13. \A y \in Stream : Count(q, y) = Count(p, y)
    BY <1>5, <1>6, <1>7, <2>10 DEF Count, CountF, CountG, Two
  <2>14. ClearsOf(todo[t]) = IF p.l = "j2" THEN {p.f} ELSE IF p.l \in {"p3", "p4", "p5", "p6", "p7"} THEN {p.g} ELSE {}
    BY <1>2, ClearsAt
  <2>15. ClearsOf(todo'[t]) = IF q.l = "j2" THEN {q.f} ELSE IF q.l \in {"p3", "p4", "p5", "p6", "p7"} THEN {q.g} ELSE {}
    BY <2>10, <2>11, LeftClears
  <2>16. \A y \in Stream : y # p.f /\ y # p.g => Same(t, y)
    <3>1. \A y \in Stream : y # p.g => ~Parts(t, y)
      BY <2>1 DEF Parts
    <3> QED BY <1>7, <2>4, <2>10, <2>14, <2>15, <3>1 DEF Same
  <2>17. (\A y \in Stream : Engaged(t, y)' => Engaged(t, y)) => Alters(t, p.f)
    <3>1. ~Pushed(p.f) /\ Open0(p.f) /\ Own(t, mtx[p.f]) > 0 /\ p.f \notin Pool
      BY <1>2, <1>6, <1>7, OwnsAt DEF PushAt, ModeAt, PoolAt
    <3>2. touch[p.f] \subseteq {t}
      BY <1>3, <3>1, Untouched
    <3> QED BY <2>4, <3>1, <3>2 DEF Alters, Open0
  <2>18. (\A y \in Stream : Engaged(t, y)' => Engaged(t, y)) => Alters(t, p.g)
    <3>1. push[p.f] = p.g /\ Own(t, mtx[p.f]) > 0
      BY <1>2, <1>6, <1>7, OwnsAt DEF PushAt
    <3>2. Pushed(p.g) /\ Open0(p.g)
      BY <1>2, <1>3, <3>1 DEF PushInv, Pushed
    <3>3. touch[p.g] \subseteq {t}
      BY <1>3, <3>1, Untouched
    <3>4. Parts(t, p.g)'
      <4>1. todo'[t] # <<>> /\ Head(todo'[t]) = <<"swapped", p.f, p.g>>
        <5>1. HeadsAre(p.f, p.g, p.n)
          BY <1>4
        <5>2. Plan("sp2", p.f, p.g, p.n) # <<>> /\ Head(Plan("sp2", p.f, p.g, p.n)) = <<"swapped", p.f, p.g>>
          BY <5>1 DEF HeadsAre
        <5> QED BY <2>10, <2>11, <5>2, LeftIs
      <4> QED BY <1>3, <4>1 DEF Parts
    <3> QED BY <2>4, <3>2, <3>3, <3>4 DEF Alters, Open0
  <2>19. \A y \in Stream : Lawful(t, y)
    <3>1. Open0(p.f) /\ Open0(p.g)
      BY <1>2, <1>3, <1>7 DEF PushAt, ModeAt, PushInv, Pushed
    <3> QED BY <1>3, <2>4, <3>1 DEF Lawful, Open0
  <2>20. TouchAt(t, q)'
    BY <1>2, <1>3, <1>5, <1>7, <2>4, <2>10 DEF TouchAt, Two
  <2>21. ModeAt(q)'
    BY <1>2, <1>3, <1>7, <2>4, <2>10 DEF ModeAt, Open0
  <2> QED BY <1>1, <1>6, <1>7, <2>3, <2>5, <2>10, <2>11, <2>12, <2>13, <2>16, <2>17, <2>18, <2>19, <2>20, <2>21, StepStill DEF PoolLabels
<1>8. CASE p.l = "n3"
  <2>1. todo[t] # <<>> /\ Head(todo[t]) = <<"swap", p.f, p.g>> /\ Tail(todo[t]) = N4(p.f, p.g) /\ IsSeq(N4(p.f, p.g))
    <3>1. Plan("n3", p.f, p.g, p.n) # <<>> /\ Head(Plan("n3", p.f, p.g, p.n)) = <<"swap", p.f, p.g>> /\ Tail(Plan("n3", p.f, p.g, p.n)) = N4(p.f, p.g)
      <4>1. HeadsAre(p.f, p.g, p.n)
        BY <1>4
      <4> QED BY <4>1 DEF HeadsAre
    <3>2. IsSeq(N4(p.f, p.g))
      BY <1>4, EmptyIs DEF ListsAre
    <3> QED BY <1>6, <1>8, <3>1, <3>2
  <2>2. It(t) = p.f /\ Head(todo[t])[1] = "swap" /\ Head(todo[t])[3] = p.g
    BY <2>1 DEF It
  <2>3. /\ Only(t) /\ UNCHANGED <<locks, mtx, push, order, held>> /\ ~Doing(t, "unlock")
    <3>1. DOMAIN todo = Thread
      BY <1>2 DEF TypeInv
    <3>2. ~Doing(t, "unlock")
      BY <2>2 DEF Doing
    <3>3. UNCHANGED <<locks, mtx, push, order, held>> /\ Only(t)
      BY <3>1 DEF Swap, Done, Only, Untouching, Touching
    <3> QED BY <3>2, <3>3
  <2>4. /\ mode'[p.f] = mode[p.f] \cup {"lock"} /\ touch'[p.f] = touch[p.f] \cup {t}
        /\ mode'[p.g] = mode[p.g] \cup {"lock"} /\ touch'[p.g] = touch[p.g] \cup {t}
        /\ \A y \in Stream : y # p.f /\ y # p.g => mode'[y] = mode[y] /\ touch'[y] = touch[y]
        /\ mode' \in [Stream -> SUBSET {"lock", "push", "pool", "avail", "freed"}] /\ touch' \in [Stream -> SUBSET Thread]
    BY <1>2, <1>3, <2>2 DEF Swap, TypeInv, Touching, Untouching, Doing
  <2>5. TypeInv'
    BY <1>2, <2>3, <2>4 DEF TypeInv, locks, Only
  <2> DEFINE q == To("on", "n4", p.f, p.g, p.n, LibMutex)
  <2>10. q \in Place /\ q.ph = "on" /\ q.l = "n4" /\ q.f = p.f /\ q.g = p.g /\ q.n = p.n
    BY <1>3, ToIs, Names2 DEF Phase, Label, Two
  <2> HIDE DEF q
  <2>11. todo'[t] = Left(q)
    <3>1. todo'[t] = N4(p.f, p.g)
      BY <1>2, <2>1 DEF Swap, Done, TypeInv
    <3>2. Plan("n4", p.f, p.g, p.n) = N4(p.f, p.g)
      BY <1>4 DEF PlansAre
    <3> QED BY <2>10, <3>1, <3>2, LeftIs
  <2>12. Goes(p, q)
    <3>1. Moves("n3", "n4")
      BY DEF Moves
    <3> QED BY <1>8, <2>10, <3>1 DEF Goes
  <2>13. \A y \in Stream : Count(q, y) = Count(p, y)
    BY <1>5, <1>6, <1>8, <2>10 DEF Count, CountF, CountG, Two
  <2>14. ClearsOf(todo[t]) = IF p.l = "j2" THEN {p.f} ELSE IF p.l \in {"p3", "p4", "p5", "p6", "p7"} THEN {p.g} ELSE {}
    BY <1>2, ClearsAt
  <2>15. ClearsOf(todo'[t]) = IF q.l = "j2" THEN {q.f} ELSE IF q.l \in {"p3", "p4", "p5", "p6", "p7"} THEN {q.g} ELSE {}
    BY <2>10, <2>11, LeftClears
  <2>16. \A y \in Stream : y # p.f /\ y # p.g => Same(t, y)
    <3>1. \A y \in Stream : y # p.g => ~Parts(t, y)
      BY <2>1 DEF Parts
    <3> QED BY <1>8, <2>4, <2>10, <2>14, <2>15, <3>1 DEF Same
  <2>17. (\A y \in Stream : Engaged(t, y)' => Engaged(t, y)) => Alters(t, p.f)
    <3>1. ~Pushed(p.f) /\ Open0(p.f) /\ Own(t, mtx[p.f]) > 0 /\ p.f \notin Pool
      BY <1>2, <1>6, <1>8, OwnsAt DEF PushAt, ModeAt, PoolAt
    <3>2. touch[p.f] \subseteq {t}
      BY <1>3, <3>1, Untouched
    <3> QED BY <2>4, <3>1, <3>2 DEF Alters, Open0
  <2>18. (\A y \in Stream : Engaged(t, y)' => Engaged(t, y)) => Alters(t, p.g)
    <3>1. push[p.f] = p.g /\ Own(t, mtx[p.f]) > 0
      BY <1>2, <1>6, <1>8, OwnsAt DEF PushAt
    <3>2. Pushed(p.g) /\ Open0(p.g)
      BY <1>2, <1>3, <3>1 DEF PushInv, Pushed
    <3>3. touch[p.g] \subseteq {t}
      BY <1>3, <3>1, Untouched
    <3>4. Parts(t, p.g)'
      <4>1. todo'[t] # <<>> /\ Head(todo'[t]) = <<"swapped", p.f, p.g>>
        <5>1. HeadsAre(p.f, p.g, p.n)
          BY <1>4
        <5>2. Plan("n4", p.f, p.g, p.n) # <<>> /\ Head(Plan("n4", p.f, p.g, p.n)) = <<"swapped", p.f, p.g>>
          BY <5>1 DEF HeadsAre
        <5> QED BY <2>10, <2>11, <5>2, LeftIs
      <4> QED BY <1>3, <4>1 DEF Parts
    <3> QED BY <2>4, <3>2, <3>3, <3>4 DEF Alters, Open0
  <2>19. \A y \in Stream : Lawful(t, y)
    <3>1. Open0(p.f) /\ Open0(p.g)
      BY <1>2, <1>3, <1>8 DEF PushAt, ModeAt, PushInv, Pushed
    <3> QED BY <1>3, <2>4, <3>1 DEF Lawful, Open0
  <2>20. TouchAt(t, q)'
    BY <1>2, <1>3, <1>5, <1>8, <2>4, <2>10 DEF TouchAt, Two
  <2>21. ModeAt(q)'
    BY <1>2, <1>3, <1>8, <2>4, <2>10 DEF ModeAt, Open0
  <2> QED BY <1>1, <1>6, <1>8, <2>3, <2>5, <2>10, <2>11, <2>12, <2>13, <2>16, <2>17, <2>18, <2>19, <2>20, <2>21, StepStill DEF PoolLabels
<1>9. CASE p.l = "st6"
  <2>1. todo[t] # <<>> /\ Head(todo[t]) = <<"swap", p.f, p.g>> /\ Tail(todo[t]) = Sp2(p.f, p.g) /\ IsSeq(Sp2(p.f, p.g))
    <3>1. Plan("st6", p.f, p.g, p.n) # <<>> /\ Head(Plan("st6", p.f, p.g, p.n)) = <<"swap", p.f, p.g>> /\ Tail(Plan("st6", p.f, p.g, p.n)) = Sp2(p.f, p.g)
      <4>1. HeadsAre(p.f, p.g, p.n)
        BY <1>4
      <4> QED BY <4>1 DEF HeadsAre
    <3>2. IsSeq(Sp2(p.f, p.g))
      BY <1>4, EmptyIs DEF ListsAre
    <3> QED BY <1>6, <1>9, <3>1, <3>2
  <2>2. It(t) = p.f /\ Head(todo[t])[1] = "swap" /\ Head(todo[t])[3] = p.g
    BY <2>1 DEF It
  <2>3. /\ Only(t) /\ UNCHANGED <<locks, mtx, push, order, held>> /\ ~Doing(t, "unlock")
    <3>1. DOMAIN todo = Thread
      BY <1>2 DEF TypeInv
    <3>2. ~Doing(t, "unlock")
      BY <2>2 DEF Doing
    <3>3. UNCHANGED <<locks, mtx, push, order, held>> /\ Only(t)
      BY <3>1 DEF Swap, Done, Only, Untouching, Touching
    <3> QED BY <3>2, <3>3
  <2>4. /\ mode'[p.f] = mode[p.f] \cup {"lock"} /\ touch'[p.f] = touch[p.f] \cup {t}
        /\ mode'[p.g] = mode[p.g] \cup {"lock"} /\ touch'[p.g] = touch[p.g] \cup {t}
        /\ \A y \in Stream : y # p.f /\ y # p.g => mode'[y] = mode[y] /\ touch'[y] = touch[y]
        /\ mode' \in [Stream -> SUBSET {"lock", "push", "pool", "avail", "freed"}] /\ touch' \in [Stream -> SUBSET Thread]
    BY <1>2, <1>3, <2>2 DEF Swap, TypeInv, Touching, Untouching, Doing
  <2>5. TypeInv'
    BY <1>2, <2>3, <2>4 DEF TypeInv, locks, Only
  <2> DEFINE q == To("on", "st7", p.f, p.g, p.n, LibMutex)
  <2>10. q \in Place /\ q.ph = "on" /\ q.l = "st7" /\ q.f = p.f /\ q.g = p.g /\ q.n = p.n
    BY <1>3, ToIs, Names2 DEF Phase, Label, Two
  <2> HIDE DEF q
  <2>11. todo'[t] = Left(q)
    <3>1. todo'[t] = Sp2(p.f, p.g)
      BY <1>2, <2>1 DEF Swap, Done, TypeInv
    <3>2. Plan("st7", p.f, p.g, p.n) = Sp2(p.f, p.g)
      BY <1>4 DEF PlansAre
    <3> QED BY <2>10, <3>1, <3>2, LeftIs
  <2>12. Goes(p, q)
    <3>1. Moves("st6", "st7")
      BY DEF Moves
    <3> QED BY <1>9, <2>10, <3>1 DEF Goes
  <2>13. \A y \in Stream : Count(q, y) = Count(p, y)
    BY <1>5, <1>6, <1>9, <2>10 DEF Count, CountF, CountG, Two
  <2>14. ClearsOf(todo[t]) = IF p.l = "j2" THEN {p.f} ELSE IF p.l \in {"p3", "p4", "p5", "p6", "p7"} THEN {p.g} ELSE {}
    BY <1>2, ClearsAt
  <2>15. ClearsOf(todo'[t]) = IF q.l = "j2" THEN {q.f} ELSE IF q.l \in {"p3", "p4", "p5", "p6", "p7"} THEN {q.g} ELSE {}
    BY <2>10, <2>11, LeftClears
  <2>16. \A y \in Stream : y # p.f /\ y # p.g => Same(t, y)
    <3>1. \A y \in Stream : y # p.g => ~Parts(t, y)
      BY <2>1 DEF Parts
    <3> QED BY <1>9, <2>4, <2>10, <2>14, <2>15, <3>1 DEF Same
  <2>17. (\A y \in Stream : Engaged(t, y)' => Engaged(t, y)) => Alters(t, p.f)
    <3>1. ~Pushed(p.f) /\ Open0(p.f) /\ Own(t, mtx[p.f]) > 0 /\ p.f \notin Pool
      BY <1>2, <1>6, <1>9, OwnsAt DEF PushAt, ModeAt, PoolAt
    <3>2. touch[p.f] \subseteq {t}
      BY <1>3, <3>1, Untouched
    <3> QED BY <2>4, <3>1, <3>2 DEF Alters, Open0
  <2>18. (\A y \in Stream : Engaged(t, y)' => Engaged(t, y)) => Alters(t, p.g)
    <3>1. ~Pushed(p.g) /\ Open0(p.g) /\ Own(t, mtx[p.g]) > 0 /\ p.g \notin Pool
      BY <1>2, <1>6, <1>9, OwnsAt DEF PushAt, ModeAt, PoolAt, CountG, Two
    <3>2. touch[p.g] \subseteq {t}
      BY <1>3, <3>1, Untouched
    <3> QED BY <2>4, <3>1, <3>2 DEF Alters, Open0
  <2>19. \A y \in Stream : Lawful(t, y)
    <3>1. Open0(p.f) /\ Open0(p.g)
      BY <1>2, <1>3, <1>9 DEF PushAt, ModeAt, PushInv, Pushed
    <3> QED BY <1>3, <2>4, <3>1 DEF Lawful, Open0
  <2>20. TouchAt(t, q)'
    BY <1>2, <1>3, <1>5, <1>9, <2>4, <2>10 DEF TouchAt, Two
  <2>21. ModeAt(q)'
    BY <1>2, <1>3, <1>9, <2>4, <2>10 DEF ModeAt, Open0
  <2> QED BY <1>1, <1>6, <1>9, <2>3, <2>5, <2>10, <2>11, <2>12, <2>13, <2>16, <2>17, <2>18, <2>19, <2>20, <2>21, StepStill DEF PoolLabels
<1> QED BY <1>6, <1>7, <1>8, <1>9

LEMMA KillStep == ASSUME LocksInv, Careful, NEW t \in Thread, Kill(t) PROVE LocksInv'
<1>1. PICK p \in Place : Facts(t, p)
  BY DEF LocksInv, ThreadInv
<1>2. /\ SysInv /\ TypeInv /\ PushInv /\ PoolInv /\ MutexInv /\ At(t, p) /\ LocksAt(t, p) /\ MutexAt(t, p)
      /\ TouchAt(t, p) /\ ModeAt(p) /\ PushAt(p) /\ HeldAt(t, p) /\ PoolAt(t, p) /\ AloneAt(t, p)
  BY <1>1 DEF LocksInv, SysInv, Facts
<1>3. /\ p.ph \in Phase /\ p.l \in Label /\ p.f \in Stream /\ p.g \in Stream /\ p.n \in Nat /\ p.m \in Mutex
  BY PlaceIs
<1>4. HeadsAre(p.f, p.g, p.n) /\ PlansAre(p.f, p.g, p.n) /\ ListsAre(p.f, p.g, p.n)
  BY <1>3, Heads, Plans, Lists
<1>5. p.l \in Two => p.f # p.g
  BY <1>2 DEF At
<1>6. p.ph = "on" /\ todo[t] = Plan(p.l, p.f, p.g, p.n) /\ p.l \in {"cl3", "n9"}
  <2>1. Doing(t, "closing")
    BY DEF Kill
  <2>2. p.ph = "on" /\ OpOf(p.l) \in {"closing"}
    BY <1>2, <2>1, DoingAt
  <2> QED BY <1>2, <1>3, <2>2, OpLabels, LeftIs DEF At
<1>7. CASE p.l = "cl3"
  <2>1. todo[t] # <<>> /\ Head(todo[t]) = <<"closing", p.f>> /\ Tail(todo[t]) = UnlockF(p.f) /\ IsSeq(UnlockF(p.f))
    <3>1. Plan("cl3", p.f, p.g, p.n) # <<>> /\ Head(Plan("cl3", p.f, p.g, p.n)) = <<"closing", p.f>> /\ Tail(Plan("cl3", p.f, p.g, p.n)) = UnlockF(p.f)
      <4>1. HeadsAre(p.f, p.g, p.n)
        BY <1>4
      <4> QED BY <4>1 DEF HeadsAre
    <3>2. IsSeq(UnlockF(p.f))
      BY <1>4, EmptyIs DEF ListsAre
    <3> QED BY <1>6, <1>7, <3>1, <3>2
  <2>2. It(t) = p.f /\ Head(todo[t])[1] = "closing"
    BY <2>1 DEF It
  <2>3. /\ Only(t) /\ UNCHANGED <<locks, mtx, push, order, held>> /\ ~Doing(t, "unlock") /\ ~Doing(t, "swap") /\ ~Doing(t, "swapped")
    <3>1. DOMAIN todo = Thread
      BY <1>2 DEF TypeInv
    <3>2. ~Doing(t, "unlock") /\ ~Doing(t, "swap") /\ ~Doing(t, "swapped")
      BY <2>2 DEF Doing
    <3>3. UNCHANGED <<locks, mtx, push, order, held>> /\ Only(t)
      BY <3>1 DEF Kill, Done, Only, Untouching, Touching
    <3> QED BY <3>2, <3>3
  <2>4. /\ mode'[p.f] = {"avail", "lock"} /\ touch'[p.f] = touch[p.f] \cup {t}
        /\ \A y \in Stream : y # p.f => mode'[y] = mode[y] /\ touch'[y] = touch[y]
        /\ mode' \in [Stream -> SUBSET {"lock", "push", "pool", "avail", "freed"}] /\ touch' \in [Stream -> SUBSET Thread]
    BY <1>2, <1>3, <2>2 DEF Kill, TypeInv, Touching, Untouching, Doing
  <2>5. TypeInv'
    BY <1>2, <2>3, <2>4 DEF TypeInv, locks, Only
  <2> DEFINE q == To("on", "k1", p.f, p.g, p.n, LibMutex)
  <2>10. q \in Place /\ q.ph = "on" /\ q.l = "k1" /\ q.f = p.f /\ q.g = p.g /\ q.n = p.n
    BY <1>3, ToIs, Names2 DEF Phase, Label, Two
  <2> HIDE DEF q
  <2>11. todo'[t] = Left(q)
    <3>1. PICK a, b, r : a = <<"clr", p.f>> /\ b = <<"final", p.f>> /\ r = <<>>
      OBVIOUS
    <3>2. Tail(UnlockF(p.f)) = r /\ IsSeq(r)
      <4>1. IsSeq(r)
        BY <1>4, <3>1, EmptyIs DEF ListsAre
      <4> QED BY <3>1, <4>1, ThenIs DEF UnlockF
    <3>3. todo'[t] = <<a, b>> \o r
      BY <1>2, <2>1, <2>2, <3>1, <3>2 DEF Kill, TypeInv
    <3>4. <<a, b>> \o r = Then(a, Then(b, r))
      BY <3>2, Cat2
    <3>5. Plan("k1", p.f, p.g, p.n) = Then(a, Then(b, r))
      BY <1>4, <3>1 DEF PlansAre, K2
    <3> QED BY <2>10, <3>3, <3>4, <3>5, LeftIs
  <2>12. Goes(p, q)
    <3>1. Moves("cl3", "k1")
      BY DEF Moves
    <3> QED BY <1>7, <2>10, <3>1 DEF Goes
  <2>13. \A y \in Stream : Count(q, y) = Count(p, y)
    BY <1>5, <1>6, <1>7, <2>10 DEF Count, CountF, CountG, Two
  <2>14. ClearsOf(todo[t]) = IF p.l = "j2" THEN {p.f} ELSE IF p.l \in {"p3", "p4", "p5", "p6", "p7"} THEN {p.g} ELSE {}
    BY <1>2, ClearsAt
  <2>15. ClearsOf(todo'[t]) = IF q.l = "j2" THEN {q.f} ELSE IF q.l \in {"p3", "p4", "p5", "p6", "p7"} THEN {q.g} ELSE {}
    BY <2>10, <2>11, LeftClears
  <2>16. \A y \in Stream : y # p.f => Same(t, y)
    <3>1. \A y \in Stream : ~Parts(t, y)
      BY <2>3, NotParting
    <3> QED BY <1>7, <2>4, <2>10, <2>14, <2>15, <3>1 DEF Same
  <2>17. (\A y \in Stream : Engaged(t, y)' => Engaged(t, y)) => Alters(t, p.f)
    <3>1. ~Pushed(p.f) /\ Open0(p.f) /\ Own(t, mtx[p.f]) > 0 /\ p.f \notin Pool
      BY <1>2, <1>6, <1>7, OwnsAt DEF PushAt, ModeAt, PoolAt, CountG, Two
    <3>2. touch[p.f] \subseteq {t}
      BY <1>3, <3>1, Untouched
    <3> QED BY <2>4, <3>1, <3>2 DEF Alters, Open0
  <2>18. \A y \in Stream : Lawful(t, y)
    <3>1. Open0(p.f) /\ Own(t, mtx[p.f]) > 0
      BY <1>2, <1>6, <1>7, OwnsAt DEF ModeAt, CountG
    <3> QED BY <1>3, <2>4, <3>1 DEF Lawful
  <2>19. TouchAt(t, q)'
    BY <1>2, <1>3, <1>5, <1>7, <2>4, <2>10 DEF TouchAt, Two
  <2>20. ModeAt(q)'
    <3>1. Open0(p.f)
      BY <1>2, <1>7 DEF ModeAt
    <3> QED BY <1>3, <1>5, <1>7, <2>4, <2>10, <3>1 DEF ModeAt, Open0, Two
  <2> QED BY <1>1, <1>6, <1>7, <2>3, <2>5, <2>10, <2>11, <2>12, <2>13, <2>16, <2>17, <2>18, <2>19, <2>20, StepStill DEF PoolLabels
<1>8. CASE p.l = "n9"
  <2>1. todo[t] # <<>> /\ Head(todo[t]) = <<"closing", p.g>> /\ Tail(todo[t]) = Then(<<"unlock", p.g>>, Cl3(p.f)) /\ IsSeq(Then(<<"unlock", p.g>>, Cl3(p.f)))
    <3>1. Plan("n9", p.f, p.g, p.n) # <<>> /\ Head(Plan("n9", p.f, p.g, p.n)) = <<"closing", p.g>> /\ Tail(Plan("n9", p.f, p.g, p.n)) = Then(<<"unlock", p.g>>, Cl3(p.f))
      <4>1. HeadsAre(p.f, p.g, p.n)
        BY <1>4
      <4> QED BY <4>1 DEF HeadsAre
    <3>2. IsSeq(Then(<<"unlock", p.g>>, Cl3(p.f)))
      BY <1>4, EmptyIs DEF ListsAre
    <3> QED BY <1>6, <1>8, <3>1, <3>2
  <2>2. It(t) = p.g /\ Head(todo[t])[1] = "closing"
    BY <2>1 DEF It
  <2>3. /\ Only(t) /\ UNCHANGED <<locks, mtx, push, order, held>> /\ ~Doing(t, "unlock") /\ ~Doing(t, "swap") /\ ~Doing(t, "swapped")
    <3>1. DOMAIN todo = Thread
      BY <1>2 DEF TypeInv
    <3>2. ~Doing(t, "unlock") /\ ~Doing(t, "swap") /\ ~Doing(t, "swapped")
      BY <2>2 DEF Doing
    <3>3. UNCHANGED <<locks, mtx, push, order, held>> /\ Only(t)
      BY <3>1 DEF Kill, Done, Only, Untouching, Touching
    <3> QED BY <3>2, <3>3
  <2>4. /\ mode'[p.g] = {"avail", "lock"} /\ touch'[p.g] = touch[p.g] \cup {t}
        /\ \A y \in Stream : y # p.g => mode'[y] = mode[y] /\ touch'[y] = touch[y]
        /\ mode' \in [Stream -> SUBSET {"lock", "push", "pool", "avail", "freed"}] /\ touch' \in [Stream -> SUBSET Thread]
    BY <1>2, <1>3, <2>2 DEF Kill, TypeInv, Touching, Untouching, Doing
  <2>5. TypeInv'
    BY <1>2, <2>3, <2>4 DEF TypeInv, locks, Only
  <2> DEFINE q == To("on", "n10", p.f, p.g, p.n, LibMutex)
  <2>10. q \in Place /\ q.ph = "on" /\ q.l = "n10" /\ q.f = p.f /\ q.g = p.g /\ q.n = p.n
    BY <1>3, ToIs, Names2 DEF Phase, Label, Two
  <2> HIDE DEF q
  <2>11. todo'[t] = Left(q)
    <3>1. PICK a, b, r : a = <<"clr", p.g>> /\ b = <<"final", p.g>> /\ r = Cl3(p.f)
      OBVIOUS
    <3>2. Tail(Then(<<"unlock", p.g>>, Cl3(p.f))) = r /\ IsSeq(r)
      <4>1. IsSeq(r)
        BY <1>4, <3>1, EmptyIs DEF ListsAre
      <4> QED BY <3>1, <4>1, ThenIs
    <3>3. todo'[t] = <<a, b>> \o r
      BY <1>2, <2>1, <2>2, <3>1, <3>2 DEF Kill, TypeInv
    <3>4. <<a, b>> \o r = Then(a, Then(b, r))
      BY <3>2, Cat2
    <3>5. Plan("n10", p.f, p.g, p.n) = Then(a, Then(b, r))
      BY <1>4, <3>1 DEF PlansAre, N11
    <3> QED BY <2>10, <3>3, <3>4, <3>5, LeftIs
  <2>12. Goes(p, q)
    <3>1. Moves("n9", "n10")
      BY DEF Moves
    <3> QED BY <1>8, <2>10, <3>1 DEF Goes
  <2>13. \A y \in Stream : Count(q, y) = Count(p, y)
    BY <1>5, <1>6, <1>8, <2>10 DEF Count, CountF, CountG, Two
  <2>14. ClearsOf(todo[t]) = IF p.l = "j2" THEN {p.f} ELSE IF p.l \in {"p3", "p4", "p5", "p6", "p7"} THEN {p.g} ELSE {}
    BY <1>2, ClearsAt
  <2>15. ClearsOf(todo'[t]) = IF q.l = "j2" THEN {q.f} ELSE IF q.l \in {"p3", "p4", "p5", "p6", "p7"} THEN {q.g} ELSE {}
    BY <2>10, <2>11, LeftClears
  <2>16. \A y \in Stream : y # p.g => Same(t, y)
    <3>1. \A y \in Stream : ~Parts(t, y)
      BY <2>3, NotParting
    <3> QED BY <1>8, <2>4, <2>10, <2>14, <2>15, <3>1 DEF Same
  <2>17. (\A y \in Stream : Engaged(t, y)' => Engaged(t, y)) => Alters(t, p.g)
    <3>1. ~Pushed(p.g) /\ Open0(p.g) /\ Own(t, mtx[p.g]) > 0 /\ p.g \notin Pool
      BY <1>2, <1>6, <1>8, OwnsAt DEF PushAt, ModeAt, PoolAt, CountG, Two
    <3>2. touch[p.g] \subseteq {t}
      BY <1>3, <3>1, Untouched
    <3> QED BY <2>4, <3>1, <3>2 DEF Alters, Open0
  <2>18. \A y \in Stream : Lawful(t, y)
    <3>1. Open0(p.g) /\ Own(t, mtx[p.g]) > 0
      BY <1>2, <1>6, <1>8, OwnsAt DEF ModeAt, CountG
    <3> QED BY <1>3, <2>4, <3>1 DEF Lawful
  <2>19. TouchAt(t, q)'
    BY <1>2, <1>3, <1>5, <1>8, <2>4, <2>10 DEF TouchAt, Two
  <2>20. ModeAt(q)'
    <3>1. Open0(p.f)
      BY <1>2, <1>8 DEF ModeAt
    <3> QED BY <1>3, <1>5, <1>8, <2>4, <2>10, <3>1 DEF ModeAt, Open0, Two
  <2> QED BY <1>1, <1>6, <1>8, <2>3, <2>5, <2>10, <2>11, <2>12, <2>13, <2>16, <2>17, <2>18, <2>19, <2>20, StepStill DEF PoolLabels
<1> QED BY <1>6, <1>7, <1>8

LEMMA FinalStep == ASSUME LocksInv, Careful, NEW t \in Thread, Final(t) PROVE LocksInv'
<1>1. PICK p \in Place : Facts(t, p)
  BY DEF LocksInv, ThreadInv
<1>2. /\ SysInv /\ TypeInv /\ PushInv /\ PoolInv /\ MutexInv /\ At(t, p) /\ LocksAt(t, p) /\ MutexAt(t, p)
      /\ TouchAt(t, p) /\ ModeAt(p) /\ PushAt(p) /\ HeldAt(t, p) /\ PoolAt(t, p) /\ AloneAt(t, p)
  BY <1>1 DEF LocksInv, SysInv, Facts
<1>3. /\ p.ph \in Phase /\ p.l \in Label /\ p.f \in Stream /\ p.g \in Stream /\ p.n \in Nat /\ p.m \in Mutex
  BY PlaceIs
<1>4. HeadsAre(p.f, p.g, p.n) /\ PlansAre(p.f, p.g, p.n) /\ ListsAre(p.f, p.g, p.n)
  BY <1>3, Heads, Plans, Lists
<1>5. p.l \in Two => p.f # p.g
  BY <1>2 DEF At
<1>6. p.ph = "on" /\ todo[t] = Plan(p.l, p.f, p.g, p.n) /\ p.l \in {"k2", "n11"}
  <2>1. Doing(t, "final")
    BY DEF Final
  <2>2. p.ph = "on" /\ OpOf(p.l) \in {"final"}
    BY <1>2, <2>1, DoingAt
  <2> QED BY <1>2, <1>3, <2>2, OpLabels, LeftIs DEF At
<1>7. CASE p.l = "k2"
  <2>1. todo[t] # <<>> /\ Head(todo[t]) = <<"final", p.f>> /\ Tail(todo[t]) = <<>> /\ IsSeq(<<>>)
    <3>1. Plan("k2", p.f, p.g, p.n) # <<>> /\ Head(Plan("k2", p.f, p.g, p.n)) = <<"final", p.f>> /\ Tail(Plan("k2", p.f, p.g, p.n)) = <<>>
      <4>1. HeadsAre(p.f, p.g, p.n)
        BY <1>4
      <4> QED BY <4>1 DEF HeadsAre
    <3>2. IsSeq(<<>>)
      BY <1>4, EmptyIs DEF ListsAre
    <3> QED BY <1>6, <1>7, <3>1, <3>2
  <2>2. It(t) = p.f /\ Head(todo[t])[1] = "final"
    BY <2>1 DEF It
  <2>3. /\ Only(t) /\ UNCHANGED <<locks, mtx, push, order, held>> /\ ~Doing(t, "unlock") /\ ~Doing(t, "swap") /\ ~Doing(t, "swapped")
    <3>1. DOMAIN todo = Thread
      BY <1>2 DEF TypeInv
    <3>2. ~Doing(t, "unlock") /\ ~Doing(t, "swap") /\ ~Doing(t, "swapped")
      BY <2>2 DEF Doing
    <3>3. UNCHANGED <<locks, mtx, push, order, held>> /\ Only(t)
      BY <3>1 DEF Final, Done, Only, Untouching, Touching
    <3> QED BY <3>2, <3>3
  <2>4. /\ mode'[p.f] = (IF p.f \in Heap THEN {"freed"} ELSE {"avail"}) /\ touch'[p.f] = touch[p.f] \ {t}
        /\ \A y \in Stream : y # p.f => mode'[y] = mode[y] /\ touch'[y] = touch[y]
        /\ mode' \in [Stream -> SUBSET {"lock", "push", "pool", "avail", "freed"}] /\ touch' \in [Stream -> SUBSET Thread]
    BY <1>2, <1>3, <2>2 DEF Final, TypeInv, Touching, Untouching, Doing
  <2>5. TypeInv'
    BY <1>2, <2>3, <2>4 DEF TypeInv, locks, Only
  <2> DEFINE q == To("on", "idle", p.f, p.g, p.n, LibMutex)
  <2>10. q \in Place /\ q.ph = "on" /\ q.l = "idle" /\ q.f = p.f /\ q.g = p.g /\ q.n = p.n
    BY <1>3, ToIs, Names2 DEF Phase, Label, Two
  <2> HIDE DEF q
  <2>11. todo'[t] = Left(q)
    <3>1. todo'[t] = <<>>
      BY <1>2, <2>1 DEF Final, Done, TypeInv
    <3>2. Plan("idle", p.f, p.g, p.n) = <<>>
      BY <1>4 DEF PlansAre
    <3> QED BY <2>10, <3>1, <3>2, LeftIs
  <2>12. Goes(p, q)
    <3>1. Moves("k2", "idle")
      BY DEF Moves
    <3> QED BY <1>7, <2>10, <3>1 DEF Goes
  <2>13. \A y \in Stream : Count(q, y) = Count(p, y)
    BY <1>5, <1>6, <1>7, <2>10 DEF Count, CountF, CountG, Two
  <2>14. ClearsOf(todo[t]) = IF p.l = "j2" THEN {p.f} ELSE IF p.l \in {"p3", "p4", "p5", "p6", "p7"} THEN {p.g} ELSE {}
    BY <1>2, ClearsAt
  <2>15. ClearsOf(todo'[t]) = IF q.l = "j2" THEN {q.f} ELSE IF q.l \in {"p3", "p4", "p5", "p6", "p7"} THEN {q.g} ELSE {}
    BY <2>10, <2>11, LeftClears
  <2>16. \A y \in Stream : y # p.f => Same(t, y)
    <3>1. \A y \in Stream : ~Parts(t, y)
      BY <2>3, NotParting
    <3> QED BY <1>7, <2>4, <2>10, <2>14, <2>15, <3>1 DEF Same
  <2>17. (\A y \in Stream : Engaged(t, y)' => Engaged(t, y)) => Alters(t, p.f)
    <3>1. ~Pushed(p.f) /\ p.f \notin Pool
      BY <1>2, <1>7 DEF PushAt, PoolAt, Two
    <3>2. ASSUME p.f \in Heap PROVE \A u \in Thread : ~Engaged(u, p.f)'
      <4>1. p.f \notin Std
        BY <3>2, Names2
      <4>2. \A u \in Thread \ {t} : ~Engaged(u, p.f)
        BY <1>2, <1>3, <1>7, <4>1 DEF AloneAt
      <4>3. held[t][p.f] = 0
        <5>1. mtx[p.f] = None
          BY <1>2, <1>7, <4>1 DEF MutexAt
        <5>2. Count(p, p.f) = 0
          BY <1>3, <1>6, <1>7 DEF Count, CountF, CountG
        <5>3. Own(t, mtx[p.f]) = 0 /\ held[t][p.f] \in Nat /\ held[t][p.f] + Count(p, p.f) = Own(t, mtx[p.f])
          BY <1>2, <1>3, <5>1, OwnIs DEF LocksAt, Own
        <5> QED BY <5>2, <5>3
      <4>4. ~Engaged(t, p.f)'
        <5>1. p.f \notin About(q)
          BY <1>5, <1>7, <2>10 DEF About, Two
        <5>2. \A y \in Stream : Engaged(t, y)' => y \in About(q) \/ held'[t][y] > 0
          BY <2>10, <2>11, NewUses
        <5> QED BY <1>3, <2>3, <4>3, <5>1, <5>2
      <4> QED BY <1>3, <2>3, <4>2, <4>4, OthersEngaged
    <3> QED BY <2>4, <3>1, <3>2 DEF Alters
  <2>18. \A y \in Stream : Lawful(t, y)
    <3>1. mode[p.f] = {"avail", "lock"} /\ t \in touch[p.f]
      BY <1>2, <1>3, <1>7 DEF ModeAt, TouchAt
    <3> QED BY <1>3, <2>4, <3>1 DEF Lawful
  <2>19. TouchAt(t, q)'
    BY <1>2, <1>3, <1>5, <1>7, <2>4, <2>10 DEF TouchAt, Two
  <2>20. ModeAt(q)'
    BY <1>2, <1>3, <1>5, <1>7, <2>4, <2>10 DEF ModeAt, Open0, Two
  <2> QED BY <1>1, <1>6, <1>7, <2>3, <2>5, <2>10, <2>11, <2>12, <2>13, <2>16, <2>17, <2>18, <2>19, <2>20, StepStill DEF PoolLabels
<1>8. CASE p.l = "n11"
  <2>1. todo[t] # <<>> /\ Head(todo[t]) = <<"final", p.g>> /\ Tail(todo[t]) = Cl3(p.f) /\ IsSeq(Cl3(p.f))
    <3>1. Plan("n11", p.f, p.g, p.n) # <<>> /\ Head(Plan("n11", p.f, p.g, p.n)) = <<"final", p.g>> /\ Tail(Plan("n11", p.f, p.g, p.n)) = Cl3(p.f)
      <4>1. HeadsAre(p.f, p.g, p.n)
        BY <1>4
      <4> QED BY <4>1 DEF HeadsAre
    <3>2. IsSeq(Cl3(p.f))
      BY <1>4, EmptyIs DEF ListsAre
    <3> QED BY <1>6, <1>8, <3>1, <3>2
  <2>2. It(t) = p.g /\ Head(todo[t])[1] = "final"
    BY <2>1 DEF It
  <2>3. /\ Only(t) /\ UNCHANGED <<locks, mtx, push, order, held>> /\ ~Doing(t, "unlock") /\ ~Doing(t, "swap") /\ ~Doing(t, "swapped")
    <3>1. DOMAIN todo = Thread
      BY <1>2 DEF TypeInv
    <3>2. ~Doing(t, "unlock") /\ ~Doing(t, "swap") /\ ~Doing(t, "swapped")
      BY <2>2 DEF Doing
    <3>3. UNCHANGED <<locks, mtx, push, order, held>> /\ Only(t)
      BY <3>1 DEF Final, Done, Only, Untouching, Touching
    <3> QED BY <3>2, <3>3
  <2>4. /\ mode'[p.g] = (IF p.g \in Heap THEN {"freed"} ELSE {"avail"}) /\ touch'[p.g] = touch[p.g] \ {t}
        /\ \A y \in Stream : y # p.g => mode'[y] = mode[y] /\ touch'[y] = touch[y]
        /\ mode' \in [Stream -> SUBSET {"lock", "push", "pool", "avail", "freed"}] /\ touch' \in [Stream -> SUBSET Thread]
    BY <1>2, <1>3, <2>2 DEF Final, TypeInv, Touching, Untouching, Doing
  <2>5. TypeInv'
    BY <1>2, <2>3, <2>4 DEF TypeInv, locks, Only
  <2> DEFINE q == To("on", "cl3", p.f, p.g, p.n, LibMutex)
  <2>10. q \in Place /\ q.ph = "on" /\ q.l = "cl3" /\ q.f = p.f /\ q.g = p.g /\ q.n = p.n
    BY <1>3, ToIs, Names2 DEF Phase, Label, Two
  <2> HIDE DEF q
  <2>11. todo'[t] = Left(q)
    <3>1. todo'[t] = Cl3(p.f)
      BY <1>2, <2>1 DEF Final, Done, TypeInv
    <3>2. Plan("cl3", p.f, p.g, p.n) = Cl3(p.f)
      BY <1>4 DEF PlansAre
    <3> QED BY <2>10, <3>1, <3>2, LeftIs
  <2>12. Goes(p, q)
    <3>1. Moves("n11", "cl3")
      BY DEF Moves
    <3> QED BY <1>8, <2>10, <3>1 DEF Goes
  <2>13. \A y \in Stream : Count(q, y) = Count(p, y)
    BY <1>5, <1>6, <1>8, <2>10 DEF Count, CountF, CountG, Two
  <2>14. ClearsOf(todo[t]) = IF p.l = "j2" THEN {p.f} ELSE IF p.l \in {"p3", "p4", "p5", "p6", "p7"} THEN {p.g} ELSE {}
    BY <1>2, ClearsAt
  <2>15. ClearsOf(todo'[t]) = IF q.l = "j2" THEN {q.f} ELSE IF q.l \in {"p3", "p4", "p5", "p6", "p7"} THEN {q.g} ELSE {}
    BY <2>10, <2>11, LeftClears
  <2>16. \A y \in Stream : y # p.g => Same(t, y)
    <3>1. \A y \in Stream : ~Parts(t, y)
      BY <2>3, NotParting
    <3> QED BY <1>8, <2>4, <2>10, <2>14, <2>15, <3>1 DEF Same
  <2>17. (\A y \in Stream : Engaged(t, y)' => Engaged(t, y)) => Alters(t, p.g)
    <3>1. ~Pushed(p.g) /\ p.g \notin Pool
      BY <1>2, <1>8 DEF PushAt, PoolAt, Two
    <3>2. ASSUME p.g \in Heap PROVE \A u \in Thread : ~Engaged(u, p.g)'
      <4>1. p.g \notin Std
        BY <3>2, Names2
      <4>2. \A u \in Thread \ {t} : ~Engaged(u, p.g)
        <5>1. mtx[p.g] = None
          BY <1>2, <1>8, <4>1 DEF MutexAt
        <5>2. \A u \in Thread : ~Leaves(u, p.g)
          BY <5>1 DEF Leaves, Own
        <5> QED BY <1>2, <1>8, <5>2 DEF AloneAt, Nested
      <4>3. held[t][p.g] = 0
        <5>1. p.f # p.g /\ held[t][p.g] \in Nat
          BY <1>2, <1>3, <1>5, <1>8, OwnIs DEF Two
        <5> QED BY <1>2, <1>3, <1>8, <5>1 DEF HeldAt
      <4>4. ~Engaged(t, p.g)'
        <5>1. p.g \notin About(q)
          BY <1>5, <1>8, <2>10 DEF About, Two
        <5>2. \A y \in Stream : Engaged(t, y)' => y \in About(q) \/ held'[t][y] > 0
          BY <2>10, <2>11, NewUses
        <5> QED BY <1>3, <2>3, <4>3, <5>1, <5>2
      <4> QED BY <1>3, <2>3, <4>2, <4>4, OthersEngaged
    <3> QED BY <2>4, <3>1, <3>2 DEF Alters
  <2>18. \A y \in Stream : Lawful(t, y)
    <3>1. mode[p.g] = {"avail", "lock"} /\ t \in touch[p.g]
      BY <1>2, <1>3, <1>8 DEF ModeAt, TouchAt
    <3> QED BY <1>3, <2>4, <3>1 DEF Lawful
  <2>19. TouchAt(t, q)'
    BY <1>2, <1>3, <1>5, <1>8, <2>4, <2>10 DEF TouchAt, Two
  <2>20. ModeAt(q)'
    BY <1>2, <1>3, <1>5, <1>8, <2>4, <2>10 DEF ModeAt, Open0, Two
  <2> QED BY <1>1, <1>6, <1>8, <2>3, <2>5, <2>10, <2>11, <2>12, <2>13, <2>16, <2>17, <2>18, <2>19, <2>20, StepStill DEF PoolLabels
<1> QED BY <1>6, <1>7, <1>8

----------------------------------------------------------------------------
(* vtmtxclrlock, and the stacks that are popped.                           *)

\* What it does to the counts of the thread.
LEMMA ClearOwn ==
  ASSUME TypeInv, NEW t \in Thread, NEW f \in Stream, Cleared(t, f)
  PROVE  /\ Mine(t) /\ \A k \in Mutex : holder'[k] # None => holder[k] # None
         /\ holder' \in [Mutex -> Thread \cup {None}] /\ depth' \in [Mutex -> Nat]
         /\ \A k \in Mutex : holder'[k] = None <=> depth'[k] = 0
         /\ \A k \in Mutex : Own(t, k)' = IF k = mtx[f] THEN 0 ELSE Own(t, k)
         /\ mtx[f] # None => holder'[mtx[f]] # t
<1>1. None \notin Mutex /\ None \notin Thread /\ mtx[f] \in Mutex \cup {None}
  BY Names2 DEF TypeInv
<1>2. CASE mtx[f] # None /\ holder[mtx[f]] = t
  <2>1. /\ holder' = [holder EXCEPT ![mtx[f]] = None] /\ depth' = [depth EXCEPT ![mtx[f]] = 0]
    BY <1>2 DEF Cleared
  <2>2. PICK m \in Mutex : m = mtx[f]
    BY <1>1, <1>2
  <2>3. /\ holder \in [Mutex -> Thread \cup {None}] /\ depth \in [Mutex -> Nat]
        /\ \A k \in Mutex : holder[k] = None <=> depth[k] = 0
    BY DEF TypeInv
  <2>4. /\ holder'[m] = None /\ depth'[m] = 0 /\ \A k \in Mutex : k # m => holder'[k] = holder[k] /\ depth'[k] = depth[k]
        /\ holder' \in [Mutex -> Thread \cup {None}] /\ depth' \in [Mutex -> Nat]
    BY <2>1, <2>2, <2>3
  <2>5. Mine(t)
    BY <1>2, <2>2, <2>4 DEF Mine
  <2>6. \A k \in Mutex : Own(t, k)' = IF k = m THEN 0 ELSE Own(t, k)
    BY <1>1, <2>4 DEF Own
  <2> QED BY <1>1, <2>2, <2>3, <2>4, <2>5, <2>6
<1>3. CASE ~(mtx[f] # None /\ holder[mtx[f]] = t)
  <2>1. holder' = holder /\ depth' = depth
    BY <1>3 DEF Cleared, locks
  <2>2. \A k \in Mutex : Own(t, k)' = Own(t, k)
    BY <2>1 DEF Own
  <2>3. \A k \in Mutex : k = mtx[f] => Own(t, k) = 0
    BY <1>3 DEF Own
  <2> QED BY <1>3, <2>1, <2>2, <2>3 DEF Mine, TypeInv
<1> QED BY <1>2, <1>3

LEMMA ClearMutexStep == ASSUME LocksInv, NEW t \in Thread, ClearMutex(t) PROVE LocksInv'
<1>1. PICK p \in Place : Facts(t, p)
  BY DEF LocksInv, ThreadInv
<1>2. /\ SysInv /\ TypeInv /\ MutexInv /\ At(t, p) /\ LocksAt(t, p) /\ TouchAt(t, p) /\ ModeAt(p)
  BY <1>1 DEF LocksInv, SysInv, Facts
<1>3. /\ p.ph \in Phase /\ p.l \in Label /\ p.f \in Stream /\ p.g \in Stream /\ p.n \in Nat /\ p.m \in Mutex
  BY PlaceIs
<1>4. HeadsAre(p.f, p.g, p.n) /\ PlansAre(p.f, p.g, p.n)
  BY <1>3, Heads, Plans
<1>5. p.ph = "on" /\ p.l = "j4" /\ todo[t] = Plan(p.l, p.f, p.g, p.n)
  <2>1. Doing(t, "clrmtx")
    BY DEF ClearMutex
  <2>2. p.ph = "on" /\ OpOf(p.l) = "clrmtx"
    BY <1>2, <2>1, DoingAt
  <2> QED BY <1>2, <1>3, <2>2, OpLabels, LeftIs DEF At
<1>6. Head(todo[t]) = <<"clrmtx", p.f>> /\ Tail(todo[t]) = <<>>
  BY <1>4, <1>5 DEF HeadsAre
<1>7. It(t) = p.f /\ Head(todo[t])[1] = "clrmtx"
  BY <1>6 DEF It
<1>8. ~Doing(t, "unlock") /\ ~Doing(t, "swap") /\ ~Doing(t, "swapped")
  BY <1>7 DEF Doing
<1>9. /\ Cleared(t, p.f) /\ held' = [held EXCEPT ![t][p.f] = 0] /\ UNCHANGED streams /\ todo' = [todo EXCEPT ![t] = Tail(@)]
  BY <1>7 DEF ClearMutex, Done
<1>10. /\ Mine(t) /\ \A k \in Mutex : holder'[k] # None => holder[k] # None
       /\ holder' \in [Mutex -> Thread \cup {None}] /\ depth' \in [Mutex -> Nat]
       /\ \A k \in Mutex : holder'[k] = None <=> depth'[k] = 0
       /\ \A k \in Mutex : Own(t, k)' = IF k = mtx[p.f] THEN 0 ELSE Own(t, k)
  BY <1>2, <1>3, <1>9, ClearOwn
<1>11. /\ held' \in [Thread -> [Stream -> Nat]] /\ held'[t][p.f] = 0 /\ \A x \in Stream : x # p.f => held'[t][x] = held[t][x]
       /\ \A u \in Thread \ {t} : held'[u] = held[u] /\ todo'[u] = todo[u]
       /\ DOMAIN todo' = Thread /\ todo'[t] = <<>>
  BY <1>2, <1>3, <1>6, <1>9 DEF TypeInv
<1>12. Only(t) /\ TypeInv' /\ \A x \in Stream : held'[t][x] > 0 => held[t][x] > 0
  BY <1>2, <1>9, <1>10, <1>11 DEF Only, TypeInv, streams
<1> DEFINE q == To("on", "idle", p.f, p.g, p.n, LibMutex)
<1>13. q \in Place /\ q.ph = "on" /\ q.l = "idle" /\ q.f = p.f /\ q.g = p.g /\ q.n = p.n
  BY <1>3, ToIs, Names2 DEF Phase, Label, Two
<1> HIDE DEF q
<1>14. todo'[t] = Left(q)
  BY <1>4, <1>11, <1>13, LeftIs DEF PlansAre
<1>15. Goes(p, q) /\ Calm(p, q)
  <2>1. Moves("j4", "idle")
    BY DEF Moves
  <2> QED BY <1>5, <1>13, <2>1 DEF Goes, Calm
<1>16. LocksAt(t, q)'
  <2>1. mtx' = mtx
    BY <1>9 DEF streams
  <2>2. \A x \in Stream : Count(p, x) = (IF x = p.f THEN 1 ELSE 0) /\ Count(q, x) = 0
    BY <1>5, <1>13 DEF Count, CountF, CountG
  <2>3. /\ \A x \in Stream : mtx[x] # PoolMutex /\ mtx[x] # LibMutex
        /\ \A x, y \in Stream : mtx[x] # None /\ mtx[x] = mtx[y] => x = y
    BY <1>2, MutexOf
  <2>4. ASSUME NEW x \in Stream PROVE held'[t][x] + Count(q, x) = Own(t, mtx[x])'
    <3>1. mtx[x] \in Mutex \cup {None} /\ held'[t][x] \in Nat
      BY <1>2, <1>11 DEF TypeInv
    <3>2. CASE mtx[x] = None
      <4>1. Own(t, mtx[x]) = 0 /\ Own(t, mtx[x])' = 0
        BY <2>1, <3>2 DEF Own
      <4>2. held[t][x] + Count(p, x) = 0 /\ held[t][x] \in Nat
        BY <1>2, <4>1 DEF LocksAt, TypeInv
      <4>3. x # p.f /\ held[t][x] = 0
        BY <2>2, <4>2
      <4> QED BY <1>11, <2>2, <4>1, <4>3
    <3>3. CASE mtx[x] # None
      <4>1. PICK k \in Mutex : k = mtx[x]
        BY <3>1, <3>3
      <4>2. Own(t, mtx[x])' = Own(t, k)'
        BY <2>1, <4>1
      <4>3. x = p.f => held'[t][x] + Count(q, x) = Own(t, k)'
        <5>1. x = p.f => Own(t, k)' = 0
          BY <1>10, <4>1
        <5>2. x = p.f => held'[t][x] = 0 /\ Count(q, x) = 0
          BY <1>11, <2>2
        <5> QED BY <5>1, <5>2
      <4>4. x # p.f => held'[t][x] + Count(q, x) = Own(t, k)'
        <5>1. held[t][x] + Count(p, x) = Own(t, k) /\ held[t][x] \in Nat
          BY <1>2, <4>1 DEF LocksAt, TypeInv
        <5>2. x # p.f => k # mtx[p.f]
          BY <1>3, <2>3, <3>3, <4>1
        <5> QED BY <1>10, <1>11, <2>2, <5>1, <5>2
      <4> QED BY <4>2, <4>3, <4>4
    <3> QED BY <3>2, <3>3
  <2>5. Own(t, LibMutex)' = Own(t, LibMutex) /\ Own(t, PoolMutex)' = Own(t, PoolMutex)
    BY <1>3, <1>10, <2>3, Names2
  <2>6. Own(t, LibMutex) = 0 /\ Own(t, PoolMutex) = 0
    BY <1>2, <1>5 DEF LocksAt
  <2> QED BY <1>13, <2>4, <2>5, <2>6 DEF LocksAt
<1>17. MutexAt(t, q) /\ ModeAt(q)
  BY <1>13 DEF MutexAt, ModeAt
<1>18. TouchAt(t, q)
  BY <1>2, <1>5, <1>13 DEF TouchAt
<1> QED BY <1>1, <1>8, <1>9, <1>10, <1>12, <1>13, <1>14, <1>15, <1>16, <1>17, <1>18, QuietStep

LEMMA PopStep == ASSUME LocksInv, Careful, NEW t \in Thread, Pop(t) PROVE LocksInv'
<1>1. PICK p \in Place : Facts(t, p)
  BY DEF LocksInv, ThreadInv
<1>2. /\ SysInv /\ TypeInv /\ MutexInv /\ PushInv /\ PoolInv /\ At(t, p) /\ LocksAt(t, p) /\ TouchAt(t, p) /\ ModeAt(p)
      /\ PushAt(p) /\ HeldAt(t, p) /\ PoolAt(t, p) /\ AloneAt(t, p)
  BY <1>1 DEF LocksInv, SysInv, Facts
<1>3. /\ p.ph \in Phase /\ p.l \in Label /\ p.f \in Stream /\ p.g \in Stream /\ p.n \in Nat /\ p.m \in Mutex
  BY PlaceIs
<1>4. HeadsAre(p.f, p.g, p.n) /\ PlansAre(p.f, p.g, p.n) /\ ListsAre(p.f, p.g, p.n)
  BY <1>3, Heads, Plans, Lists
<1>5. p.ph = "on" /\ p.l \in {"pop3", "n2"} /\ todo[t] = Plan(p.l, p.f, p.g, p.n)
  <2>1. Doing(t, "pop")
    BY DEF Pop
  <2>2. p.ph = "on" /\ OpOf(p.l) = "pop"
    BY <1>2, <2>1, DoingAt
  <2> QED BY <1>2, <1>3, <2>2, OpLabels, LeftIs DEF At
<1>6. /\ Head(todo[t]) = <<"pop", p.f>>
      /\ p.l = "pop3" => Tail(todo[t]) = UnlockF(p.f)
      /\ p.l = "n2" => Tail(todo[t]) = Then(<<"unlock", p.f>>, N7(p.f, p.g))
  BY <1>4, <1>5 DEF HeadsAre
<1>7. It(t) = p.f /\ Head(todo[t])[1] = "pop"
  BY <1>6 DEF It
<1>8. ~Doing(t, "unlock") /\ ~Doing(t, "swap") /\ ~Doing(t, "swapped")
  BY <1>7 DEF Doing
<1>9. UNCHANGED <<locks, mtx, push, order, touch, held>> /\ Only(t)
  <2>1. DOMAIN todo = Thread
    BY <1>2 DEF TypeInv
  <2>2. UNCHANGED <<locks, mtx, push, order, touch, held>>
    BY DEF Pop
  <2> QED BY <2>1, <2>2 DEF Pop, Fail, Only
<1>10. /\ mtx' = mtx /\ push' = push /\ order' = order /\ touch' = touch /\ held' = held /\ locks' = locks
       /\ holder' = holder /\ depth' = depth
  BY <1>9 DEF locks
<1>11. ~Pushed(p.f) /\ Own(t, mtx[p.f]) > 0 /\ Open0(p.f)
  BY <1>2, <1>5, OwnsAt DEF PushAt, ModeAt
<1>12. ClearsOf(todo[t]) = {}
  BY <1>2, <1>5, ClearsAt
<1>13. \A x \in Stream : ~Parts(t, x)
  BY <1>8, NotParting
<1>14. CASE push[p.f] = None
  <2>1. p.l = "pop3"
    BY <1>2, <1>3, <1>5, <1>14, Names2 DEF PushAt
  <2>2. mode' = mode /\ todo'[t] = UnlockF(p.f)
    <3>1. UNCHANGED mode /\ Fail(t)
      BY <1>7, <1>14 DEF Pop
    <3>2. todo'[t] = Releases(UnlockF(p.f))
      BY <1>2, <1>6, <2>1, <3>1 DEF Fail, TypeInv
    <3>3. FailsAre(p.f, p.g)
      BY <1>3, Fails
    <3> QED BY <3>1, <3>2, <3>3 DEF FailsAre
  <2> DEFINE q == To("on", "u1", p.f, p.g, p.n, LibMutex)
  <2>3. q \in Place /\ q.ph = "on" /\ q.l = "u1" /\ q.f = p.f /\ q.g = p.g /\ q.n = p.n
    BY <1>3, ToIs, Names2 DEF Phase, Label, Two
  <2> HIDE DEF q
  <2>4. todo'[t] = Left(q)
    BY <1>4, <2>2, <2>3, LeftIs DEF PlansAre
  <2>5. Goes(p, q)
    <3>1. Moves("pop3", "u1")
      BY DEF Moves
    <3> QED BY <2>1, <2>3, <3>1 DEF Goes
  <2>6. UNCHANGED <<locks, streams, held>> /\ TypeInv' /\ Mine(t)
    <3>1. UNCHANGED <<locks, streams, held>>
      BY <1>10, <2>2 DEF streams
    <3> QED BY <1>2, <1>9, <3>1, StillType
  <2>7. Fits(t, p, q)
    <3>1. \A x \in Stream : held'[t][x] > 0 => held[t][x] > 0
      BY <1>10
    <3> QED BY <1>1, <1>2, <1>9, <1>10, <2>3, <2>5, <2>6, <3>1, GoesFits
  <2>8. \A x \in Stream : Count(q, x) = Count(p, x)
    BY <1>5, <2>1, <2>3 DEF Count, CountF, CountG
  <2>9. TouchAt(t, q) /\ ModeAt(q)
    BY <1>2, <2>1, <2>3 DEF TouchAt, ModeAt
  <2> QED BY <1>1, <1>5, <1>8, <1>9, <2>1, <2>3, <2>4, <2>6, <2>7, <2>8, <2>9, StillTurn DEF PoolLabels
<1>15. CASE push[p.f] # None
  <2>1. PICK g \in Stream : g = push[p.f]
    BY <1>2, <1>3, <1>15 DEF TypeInv
  <2>2. Pushed(g) /\ p.f # g /\ g \notin Std \cup Pool /\ mtx[g] # None /\ Open0(g)
    <3>1. Pushed(g)
      BY <1>3, <2>1 DEF Pushed
    <3> QED BY <1>2, <1>11, <2>1, <3>1 DEF PushInv
  <2>3. mode'[g] = mode[g] \ {"push"} /\ \A x \in Stream : x # g => mode'[x] = mode[x]
    <3>1. mode' = [mode EXCEPT ![g] = @ \ {"push"}]
      BY <1>7, <1>15, <2>1 DEF Pop
    <3> QED BY <1>2, <2>1, <3>1 DEF TypeInv
  <2>4. mode' \in [Stream -> SUBSET {"lock", "push", "pool", "avail", "freed"}]
    BY <1>2, <1>7, <1>15, <2>1 DEF Pop, TypeInv
  <2>5. TypeInv' /\ Mine(t)
    BY <1>2, <1>9, <1>10, <2>4, LockIdle DEF TypeInv, Only
  <2>6. \A x \in Stream : Lawful(t, x)
    BY <2>2, <2>3 DEF Lawful, Open0
  <2>7. \A u \in Thread \ {t} : \A r \in Place : Facts(u, r) => ModeAt(r)'
    BY <2>6, OthersLawful
  <2>8. \A x \in Stream : x # g => Same(t, x)
    BY <1>10, <1>12, <1>13, <2>3 DEF Same
  <2>9. Parts(t, g)' => Alters(t, g)
    BY <1>10, <1>12, <2>2, <2>3 DEF Alters, Open0
  <2>10. todo'[t] = <<<<"swap", p.f, g>>, <<"swapped", p.f, g>>, <<"unlock", p.f>>, <<"unlock", g>>>> \o Tail(Tail(todo[t]))
    BY <1>2, <1>7, <1>15, <2>1 DEF Pop, TypeInv
  <2>11. \A r : IsSeq(r) /\ Tail(Tail(todo[t])) = r =>
           todo'[t] = Then(<<"swap", p.f, g>>, Then(<<"swapped", p.f, g>>, Then(<<"unlock", p.f>>, Then(<<"unlock", g>>, r))))
    <3> SUFFICES ASSUME NEW r, IsSeq(r), Tail(Tail(todo[t])) = r
                 PROVE  todo'[t] = Then(<<"swap", p.f, g>>, Then(<<"swapped", p.f, g>>, Then(<<"unlock", p.f>>, Then(<<"unlock", g>>, r))))
      OBVIOUS
    <3>1. PICK a, b, c, d : a = <<"swap", p.f, g>> /\ b = <<"swapped", p.f, g>> /\ c = <<"unlock", p.f>> /\ d = <<"unlock", g>>
      OBVIOUS
    <3>2. todo'[t] = <<a, b, c, d>> \o r
      BY <2>10, <3>1
    <3>3. <<a, b, c, d>> \o r = Then(a, Then(b, Then(c, Then(d, r))))
      BY Cat4
    <3> QED BY <3>1, <3>2, <3>3
  <2>12. CASE p.l = "pop3"
    <3> DEFINE q == To("on", "sp1", p.f, g, p.n, LibMutex)
    <3>1. q \in Place /\ q.ph = "on" /\ q.l = "sp1" /\ q.f = p.f /\ q.g = g /\ q.n = p.n
      BY <1>3, ToIs, Names2 DEF Phase, Label, Two
    <3> HIDE DEF q
    <3>2. todo'[t] = Plan("sp1", p.f, g, p.n)
      <4>1. Tail(Tail(todo[t])) = <<>>
        <5>1. Tail(Then(<<"unlock", p.f>>, <<>>)) = <<>>
          BY EmptyIs, ThenIs
        <5> QED BY <1>6, <2>12, <5>1 DEF UnlockF
      <4>2. PlansAre(p.f, g, p.n)
        BY Plans
      <4>3. IsSeq(<<>>)
        BY EmptyIs
      <4> QED BY <2>11, <4>1, <4>2, <4>3 DEF PlansAre, Sp2, UnlockFG, UnlockF
    <3>3. todo'[t] = Left(q) /\ todo'[t] # <<>> /\ Head(todo'[t]) = <<"swap", p.f, g>>
      <4>1. HeadsAre(p.f, g, p.n)
        BY <1>3, Heads
      <4>2. Plan("sp1", p.f, g, p.n) # <<>> /\ Head(Plan("sp1", p.f, g, p.n)) = <<"swap", p.f, g>>
        BY <4>1 DEF HeadsAre
      <4> QED BY <3>1, <3>2, <4>2, LeftIs
    <3>4. Parts(t, g)'
      BY <1>3, <3>3 DEF Parts
    <3>5. \A u \in Thread \ {t} : \A r \in Place : Facts(u, r) => (Engaged(u, g) => Leaves(u, g)) /\ ~Claims(r, g)
      BY <1>2, <1>3, <1>11, <2>1, PushedAlone
    <3>6. Welcome(t, g)
      BY <3>5 DEF Welcome
    <3>7. \A x \in Stream : Engaged(t, x)' => Engaged(t, x) \/ x = g
      <4>1. \A x \in Stream : Engaged(t, x)' => x \in About(q) \/ held'[t][x] > 0
        BY <3>1, <3>3, NewUses DEF Entry
      <4>2. Engaged(t, p.f)
        BY <1>1, <1>2, <2>12, EngagedAt DEF Facts
      <4> QED BY <1>10, <3>1, <4>1, <4>2 DEF About, Engaged
    <3>8. Modest(t)
      BY <1>8, <3>6, <3>7, NotLeaving DEF Modest
    <3>9. Keeps(t)
      <4>1. order' \in Seq(Pool) /\ order' # <<>> /\ \A i, j \in DOMAIN order' : order'[i] = order'[j] => i = j
        BY <1>2, <1>10 DEF PoolInv
      <4>2. \A x \in Stream : Engaged(t, x)' => Engaged(t, x) \/ "freed" \notin mode[x]
        BY <2>2, <3>7 DEF Open0
      <4>3. \A x \in Stream : Same(t, x) \/ Alters(t, x)
        BY <2>8, <2>9, <3>4
      <4>4. \A x \in Stream : held'[t][x] > 0 => held[t][x] > 0
        BY <1>10
      <4> QED BY <1>2, <1>10, <4>1, <4>2, <4>3, <4>4, KeepsBy
    <3>10. Facts(t, q)'
      <4>1. At(t, q)'
        BY <2>2, <3>1, <3>3 DEF At, Entry
      <4>2. LocksAt(t, q)'
        <5>1. \A x \in Stream : Count(q, x) = Count(p, x)
          BY <1>5, <2>12, <3>1 DEF Count, CountF, CountG
        <5> QED BY <1>2, <1>5, <1>10, <2>12, <3>1, <5>1, OwnLocks
      <4>3. MutexAt(t, q)'
        BY <3>1 DEF MutexAt
      <4>4. PushAt(q)'
        BY <1>10, <1>11, <2>1, <3>1 DEF PushAt, Pushed
      <4>5. TouchAt(t, q)'
        BY <1>2, <1>10, <2>12, <3>1 DEF TouchAt
      <4>6. ModeAt(q)'
        BY <1>3, <1>11, <2>2, <2>3, <3>1 DEF ModeAt, Open0
      <4>7. HeldAt(t, q)'
        BY <1>2, <1>10, <2>12, <3>1 DEF HeldAt
      <4>8. PoolAt(t, q)'
        BY <1>2, <2>2, <2>12, <3>1 DEF PoolAt, Two
      <4>9. RankAt(q)' /\ AloneAt(t, q)'
        BY <3>1 DEF RankAt, AloneAt, Nested
      <4> QED BY <4>1, <4>2, <4>3, <4>4, <4>5, <4>6, <4>7, <4>8, <4>9 DEF Facts
    <3>11. \A u \in Thread \ {t} : \A r \in Place : Facts(u, r) => ModeAt(r)' /\ PoolAt(u, r)'
      BY <1>10, <2>7, OthersPool DEF Facts
    <3>12. \A x \in Stream : Engaged(t, x)' => Engaged(t, x) \/ mtx[x] # None \/ \A u \in Thread \ {t} : ~Engaged(u, x)
      BY <2>2, <3>7
    <3>13. \A m \in Mutex : holder'[m] # None => holder[m] # None \/ m \in {PoolMutex, LibMutex} \/ \E x \in Stream : mtx[x] = m
      BY <1>10
    <3> QED BY <1>9, <1>10, <2>5, <3>1, <3>8, <3>9, <3>10, <3>11, <3>12, <3>13, StepTakes
  <2>13. CASE p.l = "n2"
    <3>1. g = p.g
      BY <1>2, <2>1, <2>13 DEF PushAt
    <3> DEFINE q == To("on", "n3", p.f, p.g, p.n, LibMutex)
    <3>2. q \in Place /\ q.ph = "on" /\ q.l = "n3" /\ q.f = p.f /\ q.g = p.g /\ q.n = p.n
      BY <1>3, ToIs, Names2 DEF Phase, Label, Two
    <3> HIDE DEF q
    <3>3. todo'[t] = Plan("n3", p.f, p.g, p.n)
      <4>1. IsSeq(N7(p.f, p.g))
        BY <1>4 DEF ListsAre
      <4>2. Tail(Tail(todo[t])) = N7(p.f, p.g)
        <5>1. Tail(Then(<<"unlock", p.f>>, N7(p.f, p.g))) = N7(p.f, p.g)
          BY <4>1, ThenIs
        <5> QED BY <1>6, <2>13, <5>1
      <4>3. todo'[t] = Then(<<"swap", p.f, p.g>>, Then(<<"swapped", p.f, p.g>>, Then(<<"unlock", p.f>>, Then(<<"unlock", p.g>>, N7(p.f, p.g)))))
        BY <2>11, <3>1, <4>1, <4>2
      <4> QED BY <1>4, <4>3 DEF PlansAre, N4, N5, N6
    <3>4. todo'[t] = Left(q) /\ todo'[t] # <<>> /\ Head(todo'[t]) = <<"swap", p.f, g>>
      <4>1. HeadsAre(p.f, p.g, p.n)
        BY <1>4
      <4>2. Plan("n3", p.f, p.g, p.n) # <<>> /\ Head(Plan("n3", p.f, p.g, p.n)) = <<"swap", p.f, p.g>>
        BY <4>1 DEF HeadsAre
      <4> QED BY <3>1, <3>2, <3>3, <4>2, LeftIs
    <3>5. Parts(t, g)'
      BY <1>3, <3>4 DEF Parts
    <3>6. Goes(p, q)
      <4>1. Moves("n2", "n3")
        BY DEF Moves
      <4> QED BY <2>13, <3>2, <4>1 DEF Goes
    <3>7. \A x \in Stream : Count(q, x) = Count(p, x)
      BY <1>5, <2>13, <3>2 DEF Count, CountF, CountG
    <3>8. TouchAt(t, q)' /\ ModeAt(q)'
      BY <1>2, <1>3, <1>10, <1>11, <2>2, <2>3, <2>13, <3>1, <3>2 DEF TouchAt, ModeAt, Open0
    <3>9. \A x \in Stream : Same(t, x) \/ Alters(t, x)
      BY <2>8, <2>9, <3>5
    <3> QED BY <1>1, <1>5, <1>8, <1>9, <2>5, <2>6, <2>13, <3>2, <3>4, <3>6, <3>7, <3>8, <3>9, StepStill DEF PoolLabels
  <2> QED BY <1>5, <2>12, <2>13
<1> QED BY <1>14, <1>15

----------------------------------------------------------------------------
(* _sfphead.                                                               *)

\* Nobody else is engaged with a stream of the pool, or claims it.
LEMMA PoolAlone ==
  ASSUME SysInv, Careful, NEW t \in Thread, MayPool(t), NEW x \in Pool, NEW u \in Thread \ {t}, NEW r \in Place, Facts(u, r)
  PROVE  ~Engaged(u, x) /\ ~Claims(r, x)
<1>1. /\ TypeInv /\ MutexInv /\ PoolInv /\ At(u, r) /\ LocksAt(u, r) /\ MutexAt(u, r) /\ PoolAt(u, r)
      /\ r.ph \in Phase /\ r.l \in Label /\ r.f \in Stream /\ r.g \in Stream /\ x \in Stream
  BY PlaceIs, Names2 DEF SysInv, Facts
<1>2. ~Claims(r, x)
  BY <1>1 DEF Claims, PoolAt, Nested, Two
<1>3. ~MayPool(u)
  BY DEF Careful
<1>4. ~(x = r.f /\ (r.l # "idle" \/ r.ph # "on"))
  BY <1>1, <1>3 DEF PoolAt
<1>5. ~(x = r.g /\ r.l \in Two)
  <2> SUFFICES ASSUME x = r.g, r.l \in Two PROVE FALSE
    OBVIOUS
  <2>1. r.l \in {"p3", "p4", "p5", "p6", "p7"}
    BY <1>1 DEF PoolAt
  <2>2. r.f \in Pool /\ r.l # "idle"
    BY <1>1, <2>1 DEF PoolAt
  <2> QED BY <1>1, <1>3, <2>2 DEF PoolAt
<1>6. held[u][x] = 0
  BY <1>1 DEF PoolInv
<1>7. ~Engaged(u, x)
  BY <1>1, <1>4, <1>5, <1>6, EngagedAt
<1> QED BY <1>2, <1>7

LEMMA Head1Step == ASSUME LocksInv, Careful, NEW t \in Thread, Head1(t) PROVE LocksInv'
<1>1. PICK p \in Place : Facts(t, p)
  BY DEF LocksInv, ThreadInv
<1>2. /\ SysInv /\ TypeInv /\ MutexInv /\ PushInv /\ PoolInv /\ At(t, p) /\ LocksAt(t, p) /\ TouchAt(t, p) /\ ModeAt(p)
      /\ PushAt(p) /\ HeldAt(t, p) /\ PoolAt(t, p) /\ AloneAt(t, p)
  BY <1>1 DEF LocksInv, SysInv, Facts
<1>3. /\ p.ph \in Phase /\ p.l \in Label /\ p.f \in Stream /\ p.g \in Stream /\ p.n \in Nat /\ p.m \in Mutex
  BY PlaceIs
<1>4. HeadsAre(p.f, p.g, p.n) /\ PlansAre(p.f, p.g, p.n) /\ ListsAre(p.f, p.g, p.n)
  BY <1>3, Heads, Plans, Lists
<1>5. p.ph = "on" /\ p.l = "p2" /\ todo[t] = Plan(p.l, p.f, p.g, p.n)
  <2>1. Doing(t, "head")
    BY DEF Head1
  <2>2. p.ph = "on" /\ OpOf(p.l) = "head"
    BY <1>2, <2>1, DoingAt
  <2> QED BY <1>2, <1>3, <2>2, OpLabels, LeftIs DEF At
<1>6. Head(todo[t]) = <<"head", p.f, p.n>> /\ Tail(todo[t]) = P8(p.f)
  BY <1>4, <1>5 DEF HeadsAre
<1>7. It(t) = p.f /\ Head(todo[t])[1] = "head" /\ Head(todo[t])[3] = p.n
  BY <1>6 DEF It
<1>8. ~Doing(t, "unlock") /\ ~Doing(t, "swap") /\ ~Doing(t, "swapped")
  BY <1>7 DEF Doing
<1>9. UNCHANGED <<locks, mtx, push, order, touch, held>> /\ Only(t)
  <2>1. DOMAIN todo = Thread
    BY <1>2 DEF TypeInv
  <2>2. UNCHANGED <<locks, mtx, push, order, touch, held>>
    BY DEF Head1
  <2> QED BY <2>1, <2>2 DEF Head1, Fail, Instead, Only
<1>10. /\ mtx' = mtx /\ push' = push /\ order' = order /\ touch' = touch /\ held' = held /\ locks' = locks
       /\ holder' = holder /\ depth' = depth
  BY <1>9 DEF locks
<1>11. PICK h \in Stream : h = order[1]
  <2>1. order \in Seq(Pool) /\ order # <<>>
    BY <1>2 DEF PoolInv
  <2>2. order[1] \in Pool
    BY <2>1
  <2> QED BY <2>2, Names2
<1>12. h \in Pool /\ p.f \in Pool /\ MayPool(t) /\ p.f # h /\ p.n \in DOMAIN order /\ p.n # 1 /\ order[p.n] = p.f
  <2>1. order \in Seq(Pool) /\ order # <<>>
    BY <1>2 DEF PoolInv
  <2>2. order[1] \in Pool /\ 1 \in DOMAIN order
    BY <2>1
  <2>3. p.f \in Pool /\ MayPool(t) /\ p.n \in DOMAIN order /\ p.n # 1 /\ order[p.n] = p.f
    BY <1>2, <1>5 DEF PoolAt
  <2>4. p.f # h
    BY <1>2, <1>11, <2>2, <2>3 DEF PoolInv
  <2> QED BY <1>11, <2>2, <2>3, <2>4
<1>13. ClearsOf(todo[t]) = {}
  BY <1>2, <1>5, ClearsAt
<1>14. \A x \in Stream : ~Parts(t, x)
  BY <1>8, NotParting
<1>15. CASE Frozen(h)
  <2>1. mode' = mode /\ todo'[t] = Then(<<"drop", PoolMutex>>, UnlockF(p.f))
    <3>1. UNCHANGED mode /\ Fail(t)
      BY <1>11, <1>15 DEF Head1
    <3>2. todo'[t] = Releases(P8(p.f))
      BY <1>2, <1>6, <3>1 DEF Fail, TypeInv
    <3>3. FailsAre(p.f, p.g)
      BY <1>3, Fails
    <3>4. Releases(P8(p.f)) = Then(<<"drop", PoolMutex>>, UnlockF(p.f))
      BY <3>3 DEF FailsAre
    <3> QED BY <3>1, <3>2, <3>4
  <2> DEFINE q == To("on", "pf", p.f, p.g, p.n, LibMutex)
  <2>2. q \in Place /\ q.ph = "on" /\ q.l = "pf" /\ q.f = p.f /\ q.g = p.g /\ q.n = p.n
    BY <1>3, ToIs, Names2 DEF Phase, Label, Two
  <2> HIDE DEF q
  <2>3. todo'[t] = Left(q)
    <3>1. Plan("pf", p.f, p.g, p.n) = Then(<<"drop", PoolMutex>>, UnlockF(p.f))
      BY <1>4 DEF PlansAre
    <3> QED BY <2>1, <2>2, <3>1, LeftIs
  <2>4. Goes(p, q)
    <3>1. Moves("p2", "pf")
      BY DEF Moves
    <3> QED BY <1>5, <2>2, <3>1 DEF Goes
  <2>5. UNCHANGED <<locks, streams, held>> /\ TypeInv' /\ Mine(t)
    <3>1. UNCHANGED <<locks, streams, held>>
      BY <1>10, <2>1 DEF streams
    <3> QED BY <1>2, <1>9, <3>1, StillType
  <2>6. Fits(t, p, q)
    <3>1. \A x \in Stream : held'[t][x] > 0 => held[t][x] > 0
      BY <1>10
    <3> QED BY <1>1, <1>2, <1>9, <1>10, <2>2, <2>4, <2>5, <3>1, GoesFits
  <2>7. \A x \in Stream : Count(q, x) = Count(p, x)
    BY <1>5, <2>2 DEF Count, CountF, CountG
  <2>8. TouchAt(t, q) /\ ModeAt(q)
    BY <1>2, <1>5, <2>2 DEF TouchAt, ModeAt
  <2> QED BY <1>1, <1>5, <1>8, <1>9, <2>2, <2>3, <2>5, <2>6, <2>7, <2>8, StillTurn DEF PoolLabels
<1>16. CASE ~Frozen(h)
  <2>1. Open0(h) /\ ~Pushed(h)
    <3>1. Pushed(h) => h \notin Pool
      BY <1>2 DEF PushInv
    <3> QED BY <1>2, <1>12, <3>1 DEF PoolInv
  <2>2. /\ mode'[h] = mode[h] \cup {"lock"} /\ \A x \in Stream : x # h => mode'[x] = mode[x]
        /\ mode' \in [Stream -> SUBSET {"lock", "push", "pool", "avail", "freed"}]
    <3>1. mode' = [mode EXCEPT ![h] = @ \cup {"lock"}]
      BY <1>11, <1>16 DEF Head1
    <3> QED BY <1>2, <3>1 DEF TypeInv
  <2>3. TypeInv' /\ Mine(t)
    BY <1>2, <1>9, <1>10, <2>2, LockIdle DEF TypeInv, Only
  <2> DEFINE q == To("lock", "p3", p.f, h, p.n, LibMutex)
  <2>4. q \in Place /\ q.ph = "lock" /\ q.l = "p3" /\ q.f = p.f /\ q.g = h /\ q.n = p.n /\ Asked(q) = h
    BY <1>3, ToIs, Names2 DEF Phase, Label, Two, Asked
  <2> HIDE DEF q
  <2>5. todo'[t] = Left(q)
    <3>1. PICK a, b, c, d, e, r : /\ a = <<"lock", h>> /\ b = <<"touch", h>> /\ c = <<"untouch", h>> /\ d = <<"unlock", h>>
                                  /\ e = <<"swaphead", p.f, p.n, h>> /\ r = P8(p.f)
      OBVIOUS
    <3>2. todo'[t] = <<a, b, c, d, b, e>> \o r
      BY <1>2, <1>6, <1>7, <1>11, <1>16, <3>1 DEF Head1, Instead, TypeInv
    <3>3. IsSeq(r)
      BY <1>4, <3>1 DEF ListsAre
    <3>4. todo'[t] = Then(a, Then(b, Then(c, Then(d, Then(b, Then(e, r))))))
      BY <3>2, <3>3, Cat6
    <3>5. PlansAre(p.f, h, p.n)
      BY Plans
    <3>6. Plan("p3", p.f, h, p.n) = Then(b, Then(c, Then(d, Then(b, Then(e, r)))))
      BY <3>1, <3>5 DEF PlansAre, P4, P5, P6, P7
    <3> QED BY <2>4, <3>1, <3>4, <3>6 DEF Left
  <2>6. \A u \in Thread \ {t} : \A r \in Place : Facts(u, r) => ~Engaged(u, h) /\ ~Claims(r, h)
    BY <1>2, <1>12, PoolAlone
  <2>7. Welcome(t, h) /\ \A u \in Thread \ {t} : ~Engaged(u, h)
    BY <2>6 DEF Welcome, LocksInv, ThreadInv
  <2>8. \A x \in Stream : Engaged(t, x)' => Engaged(t, x) \/ x = h
    <3>1. \A x \in Stream : Engaged(t, x)' => x \in About(q) \/ held'[t][x] > 0
      BY <2>4, <2>5, NewUses DEF Entry
    <3>2. Engaged(t, p.f)
      BY <1>1, <1>2, <1>5, EngagedAt DEF Facts
    <3> QED BY <1>10, <2>4, <3>1, <3>2 DEF About, Engaged
  <2>9. Modest(t)
    BY <1>8, <2>7, <2>8, NotLeaving DEF Modest
  <2>10. Keeps(t)
    <3>1. order' \in Seq(Pool) /\ order' # <<>> /\ \A i, j \in DOMAIN order' : order'[i] = order'[j] => i = j
      BY <1>2, <1>10 DEF PoolInv
    <3>2. \A x \in Stream : Engaged(t, x)' => Engaged(t, x) \/ "freed" \notin mode[x]
      BY <2>1, <2>8 DEF Open0
    <3>3. \A x \in Stream : x # h => Same(t, x)
      BY <1>10, <1>13, <1>14, <2>2 DEF Same
    <3>4. h \in ClearsOf(todo'[t])
      BY <2>4, <2>5, LeftClears
    <3>5. Alters(t, h)
      BY <1>10, <2>1, <2>2, <3>4 DEF Alters, Open0
    <3>6. \A x \in Stream : held'[t][x] > 0 => held[t][x] > 0
      BY <1>10
    <3> QED BY <1>2, <1>10, <3>1, <3>2, <3>3, <3>5, <3>6, KeepsBy
  <2>11. Facts(t, q)'
    <3>1. At(t, q)'
      BY <1>12, <2>4, <2>5 DEF At, Entry
    <3>2. LocksAt(t, q)'
      <4>1. \A x \in Stream : Count(q, x) = Count(p, x)
        BY <1>5, <1>12, <2>4 DEF Count, CountF, CountG
      <4> QED BY <1>2, <1>5, <1>10, <2>4, <4>1, OwnLocks
    <3>3. MutexAt(t, q)' /\ ModeAt(q)'
      BY <2>4 DEF MutexAt, ModeAt
    <3>4. PushAt(q)'
      BY <1>2, <1>5, <1>10, <2>4 DEF PushAt, Pushed
    <3>5. TouchAt(t, q)'
      BY <1>2, <1>5, <1>10, <2>4 DEF TouchAt
    <3>6. HeldAt(t, q)'
      BY <1>2, <1>5, <1>10, <2>4 DEF HeldAt
    <3>7. PoolAt(t, q)'
      BY <1>10, <1>11, <1>12, <2>4 DEF PoolAt, Two
    <3>8. RankAt(q)' /\ AloneAt(t, q)'
      BY <2>4 DEF RankAt, AloneAt, Nested
    <3> QED BY <3>1, <3>2, <3>3, <3>4, <3>5, <3>6, <3>7, <3>8 DEF Facts
  <2>12. \A u \in Thread \ {t} : \A r \in Place : Facts(u, r) => ModeAt(r)' /\ PoolAt(u, r)'
    <3>1. \A x \in Stream : Lawful(t, x)
      BY <2>1, <2>2 DEF Lawful, Open0
    <3> QED BY <1>10, <3>1, OthersLawful, OthersPool DEF Facts
  <2>13. \A x \in Stream : Engaged(t, x)' => Engaged(t, x) \/ mtx[x] # None \/ \A u \in Thread \ {t} : ~Engaged(u, x)
    BY <2>7, <2>8
  <2>14. \A m \in Mutex : holder'[m] # None => holder[m] # None \/ m \in {PoolMutex, LibMutex} \/ \E x \in Stream : mtx[x] = m
    BY <1>10
  <2> QED BY <1>9, <1>10, <2>3, <2>4, <2>9, <2>10, <2>11, <2>12, <2>13, <2>14, StepTakes
<1> QED BY <1>15, <1>16

LEMMA SwapHeadStep == ASSUME LocksInv, Careful, NEW t \in Thread, SwapHead(t) PROVE LocksInv'
<1>1. PICK p \in Place : Facts(t, p)
  BY DEF LocksInv, ThreadInv
<1>2. /\ SysInv /\ TypeInv /\ MutexInv /\ PushInv /\ PoolInv /\ At(t, p) /\ LocksAt(t, p) /\ TouchAt(t, p) /\ ModeAt(p)
      /\ PushAt(p) /\ HeldAt(t, p) /\ PoolAt(t, p) /\ AloneAt(t, p)
  BY <1>1 DEF LocksInv, SysInv, Facts
<1>3. /\ p.ph \in Phase /\ p.l \in Label /\ p.f \in Stream /\ p.g \in Stream /\ p.n \in Nat /\ p.m \in Mutex
  BY PlaceIs
<1>4. HeadsAre(p.f, p.g, p.n) /\ PlansAre(p.f, p.g, p.n)
  BY <1>3, Heads, Plans
<1>5. p.ph = "on" /\ p.l = "p7" /\ todo[t] = Plan(p.l, p.f, p.g, p.n) /\ p.f # p.g
  <2>1. Doing(t, "swaphead")
    BY DEF SwapHead
  <2>2. p.ph = "on" /\ OpOf(p.l) = "swaphead"
    BY <1>2, <2>1, DoingAt
  <2>3. p.l = "p7"
    BY <1>3, <2>2, OpLabels
  <2> QED BY <1>2, <2>2, <2>3, LeftIs DEF At, Two
<1>6. Head(todo[t]) = <<"swaphead", p.f, p.n, p.g>> /\ Tail(todo[t]) = P8(p.f)
  BY <1>4, <1>5 DEF HeadsAre
<1>7. It(t) = p.f /\ Head(todo[t])[1] = "swaphead" /\ Head(todo[t])[3] = p.n /\ Head(todo[t])[4] = p.g
  BY <1>6 DEF It
<1>8. ~Doing(t, "unlock") /\ ~Doing(t, "swap") /\ ~Doing(t, "swapped")
  BY <1>7 DEF Doing
<1>9. UNCHANGED <<locks, mtx, push, held>> /\ Only(t)
  <2>1. DOMAIN todo = Thread
    BY <1>2 DEF TypeInv
  <2>2. UNCHANGED <<locks, mtx, push, held>>
    BY DEF SwapHead
  <2> QED BY <2>1, <2>2 DEF SwapHead, Done, Only
<1>10. /\ mtx' = mtx /\ push' = push /\ held' = held /\ locks' = locks /\ holder' = holder /\ depth' = depth
  BY <1>9 DEF locks
<1>11. /\ p.f \in Pool /\ p.g \in Pool /\ MayPool(t) /\ p.n \in DOMAIN order /\ p.n # 1 /\ order[p.n] = p.f /\ order[1] = p.g
       /\ 1 \in DOMAIN order
  <2>1. order \in Seq(Pool) /\ order # <<>>
    BY <1>2 DEF PoolInv
  <2>2. order[1] \in Pool /\ 1 \in DOMAIN order
    BY <2>1
  <2> QED BY <1>2, <1>5, <2>2 DEF PoolAt
<1>12. ClearsOf(todo[t]) = {p.g}
  BY <1>2, <1>5, ClearsAt
<1>13. \A x \in Stream : ~Parts(t, x)
  BY <1>8, NotParting
<1>14. Open0(p.f) /\ ~Pushed(p.f) /\ Open0(p.g) /\ ~Pushed(p.g)
  <2>1. \A x \in Stream : Pushed(x) => x \notin Pool
    BY <1>2 DEF PushInv
  <2> QED BY <1>2, <1>3, <1>11, <2>1 DEF PoolInv
<1>15. /\ mode'[p.f] = mode[p.f] \ {"pool"} /\ mode'[p.g] = (mode[p.g] \cup {"pool"}) \ {"lock"}
       /\ \A x \in Stream : x # p.f /\ x # p.g => mode'[x] = mode[x]
       /\ mode' \in [Stream -> SUBSET {"lock", "push", "pool", "avail", "freed"}]
  <2>1. mode' = [mode EXCEPT ![p.f] = @ \ {"pool"}, ![p.g] = (@ \cup {"pool"}) \ {"lock"}]
    BY <1>7 DEF SwapHead
  <2> QED BY <1>2, <1>3, <1>5, <2>1 DEF TypeInv
<1>16. /\ touch'[p.g] = touch[p.g] \ {t} /\ \A x \in Stream : x # p.g => touch'[x] = touch[x]
       /\ touch' \in [Stream -> SUBSET Thread]
  <2>1. Untouching(t, {p.g})
    BY <1>7 DEF SwapHead
  <2> QED BY <1>2, <1>3, <2>1 DEF TypeInv, Untouching
<1>17. order' \in Seq(Pool) /\ order' # <<>> /\ \A i, j \in DOMAIN order' : order'[i] = order'[j] => i = j
  <2>1. order' = [order EXCEPT ![p.n] = p.g, ![1] = p.f]
    BY <1>7 DEF SwapHead
  <2>2. order \in Seq(Pool) /\ order # <<>> /\ \A i, j \in DOMAIN order : order[i] = order[j] => i = j
    BY <1>2 DEF PoolInv
  <2>3. order' \in Seq(Pool) /\ order' # <<>>
    BY <1>11, <2>1, <2>2
  <2>4. DOMAIN order' = DOMAIN order
    BY <2>1
  <2>5. \A i \in DOMAIN order : order'[i] = IF i = 1 THEN p.f ELSE IF i = p.n THEN p.g ELSE order[i]
    BY <1>11, <2>1
  <2>6. \A i, j \in DOMAIN order' : order'[i] = order'[j] => i = j
    BY <1>5, <1>11, <2>2, <2>4, <2>5
  <2> QED BY <2>3, <2>6
<1>18. TypeInv' /\ Mine(t)
  BY <1>2, <1>9, <1>10, <1>15, <1>16, LockIdle DEF TypeInv, Only
<1> DEFINE q == To("on", "p8", p.f, p.g, p.n, LibMutex)
<1>19. q \in Place /\ q.ph = "on" /\ q.l = "p8" /\ q.f = p.f /\ q.g = p.g /\ q.n = p.n
  BY <1>3, ToIs, Names2 DEF Phase, Label, Two
<1> HIDE DEF q
<1>20. todo'[t] = Left(q)
  <2>1. todo'[t] = P8(p.f)
    BY <1>2, <1>6 DEF SwapHead, Done, TypeInv
  <2>2. Plan("p8", p.f, p.g, p.n) = P8(p.f)
    BY <1>4 DEF PlansAre
  <2> QED BY <1>19, <2>1, <2>2, LeftIs
<1>21. \A x \in Stream : Engaged(t, x)' => Engaged(t, x)
  <2>1. \A x \in Stream : Engaged(t, x)' => x \in About(q) \/ held'[t][x] > 0
    BY <1>19, <1>20, NewUses DEF Entry
  <2>2. Engaged(t, p.f)
    BY <1>1, <1>2, <1>5, EngagedAt DEF Facts
  <2> QED BY <1>10, <1>19, <2>1, <2>2 DEF About, Engaged, Two
<1>22. Modest(t)
  BY <1>8, <1>21, ModestBy
<1>23. Keeps(t)
  <2>1. \A x \in Stream : Engaged(t, x)' => Engaged(t, x) \/ "freed" \notin mode[x]
    BY <1>21
  <2>2. \A x \in Stream : x # p.f /\ x # p.g => Same(t, x)
    BY <1>12, <1>13, <1>15, <1>16 DEF Same
  <2>3. Alters(t, p.f)
    <3>1. t \notin touch[p.f]
      BY <1>2, <1>3, <1>5 DEF TouchAt
    <3> QED BY <1>3, <1>5, <1>12, <1>14, <1>15, <1>16, <3>1 DEF Alters, Open0
  <2>4. Alters(t, p.g)
    BY <1>3, <1>5, <1>14, <1>15, <1>16 DEF Alters, Open0
  <2>5. \A x \in Stream : held'[t][x] > 0 => held[t][x] > 0
    BY <1>10
  <2>6. \A x \in Stream : Same(t, x) \/ Alters(t, x)
    BY <2>2, <2>3, <2>4
  <2> QED BY <1>2, <1>10, <1>17, <2>1, <2>5, <2>6, KeepsBy
<1>24. Facts(t, q)'
  <2>1. At(t, q)'
    BY <1>19, <1>20 DEF At, Two
  <2>2. LocksAt(t, q)'
    <3>1. \A x \in Stream : Count(q, x) = Count(p, x)
      BY <1>5, <1>19 DEF Count, CountF, CountG
    <3> QED BY <1>2, <1>5, <1>10, <1>19, <3>1, OwnLocks
  <2>3. MutexAt(t, q)' /\ ModeAt(q)'
    BY <1>19 DEF MutexAt, ModeAt
  <2>4. PushAt(q)'
    BY <1>10, <1>14, <1>19 DEF PushAt, Pushed
  <2>5. TouchAt(t, q)'
    <3>1. \A x \in Stream : t \in touch[x] <=> x = p.g
      BY <1>2, <1>5 DEF TouchAt
    <3>2. \A x \in Stream : t \notin touch'[x]
      BY <1>3, <1>16, <3>1
    <3> QED BY <1>19, <3>2 DEF TouchAt
  <2>6. HeldAt(t, q)'
    BY <1>2, <1>5, <1>10, <1>19 DEF HeldAt
  <2>7. PoolAt(t, q)'
    BY <1>11, <1>19 DEF PoolAt, Two
  <2>8. RankAt(q)' /\ AloneAt(t, q)'
    BY <1>19 DEF RankAt, AloneAt, Nested
  <2> QED BY <2>1, <2>2, <2>3, <2>4, <2>5, <2>6, <2>7, <2>8 DEF Facts
<1>25. \A u \in Thread \ {t} : \A r \in Place : Facts(u, r) => ModeAt(r)'
  <2>1. \A x \in Stream : Lawful(t, x)
    BY <1>14, <1>15 DEF Lawful, Open0
  <2> QED BY <2>1, OthersLawful
<1>26. \A u \in Thread \ {t} : \A r \in Place : Facts(u, r) => PoolAt(u, r)'
  <2> SUFFICES ASSUME NEW u \in Thread \ {t}, NEW r \in Place, Facts(u, r) PROVE PoolAt(u, r)'
    OBVIOUS
  <2>1. PoolAt(u, r)
    BY DEF Facts
  <2>2. ~MayPool(u)
    BY <1>11 DEF Careful
  <2>3. r.l \notin {"p1", "p2", "p3", "p4", "p5", "p6", "p7"}
    BY <2>1, <2>2 DEF PoolAt
  <2> QED BY <2>1, <2>3 DEF PoolAt
<1>27. \A u \in Thread \ {t} : \A r \in Place : Facts(u, r) => ModeAt(r)' /\ PoolAt(u, r)'
  BY <1>25, <1>26
<1>28. \A x \in Stream : Engaged(t, x)' => Engaged(t, x) \/ mtx[x] # None \/ \A u \in Thread \ {t} : ~Engaged(u, x)
  BY <1>21
<1>29. \A m \in Mutex : holder'[m] # None => holder[m] # None \/ m \in {PoolMutex, LibMutex} \/ \E x \in Stream : mtx[x] = m
  BY <1>10
<1> QED BY <1>9, <1>10, <1>18, <1>19, <1>22, <1>23, <1>24, <1>27, <1>28, <1>29, StepTakes

----------------------------------------------------------------------------
(* sfswap: two streams have changed places.                                *)

LEMMA SwappedStep == ASSUME LocksInv, Careful, NEW t \in Thread, Swapped(t) PROVE LocksInv'
<1>1. PICK p \in Place : Facts(t, p)
  BY DEF LocksInv, ThreadInv
<1>2. /\ SysInv /\ TypeInv /\ MutexInv /\ PushInv /\ StackInv /\ LockInv /\ FreedInv /\ PoolInv
      /\ At(t, p) /\ LocksAt(t, p) /\ MutexAt(t, p) /\ TouchAt(t, p) /\ ModeAt(p)
      /\ PushAt(p) /\ HeldAt(t, p) /\ PoolAt(t, p) /\ AloneAt(t, p) /\ RankAt(p)
  BY <1>1 DEF LocksInv, SysInv, Facts
<1>3. /\ p.ph \in Phase /\ p.l \in Label /\ p.f \in Stream /\ p.g \in Stream /\ p.n \in Nat /\ p.m \in Mutex
  BY PlaceIs
<1>4. HeadsAre(p.f, p.g, p.n) /\ PlansAre(p.f, p.g, p.n)
  BY <1>3, Heads, Plans
<1>5. p.ph = "on" /\ p.l \in {"sp2", "n4", "st7"} /\ todo[t] = Plan(p.l, p.f, p.g, p.n) /\ p.f # p.g /\ p.l \in Two
  <2>1. Doing(t, "swapped")
    BY DEF Swapped
  <2>2. p.ph = "on" /\ OpOf(p.l) = "swapped"
    BY <1>2, <2>1, DoingAt
  <2>3. p.l \in {"sp2", "n4", "st7"}
    BY <1>3, <2>2, OpLabels
  <2> QED BY <1>2, <2>2, <2>3, LeftIs DEF At, Two
<1>6. /\ Head(todo[t]) = <<"swapped", p.f, p.g>> /\ todo[t] # <<>>
      /\ p.l \in {"sp2", "st7"} => Tail(todo[t]) = UnlockFG(p.f, p.g)
      /\ p.l = "n4" => Tail(todo[t]) = N5(p.f, p.g)
  BY <1>4, <1>5 DEF HeadsAre
<1>7. It(t) = p.f /\ Head(todo[t])[1] = "swapped" /\ Head(todo[t])[3] = p.g
  BY <1>6 DEF It
<1>8. ~Doing(t, "unlock")
  BY <1>7 DEF Doing
<1>9. UNCHANGED <<locks, mtx, order, held>> /\ Only(t)
  <2>1. DOMAIN todo = Thread
    BY <1>2 DEF TypeInv
  <2>2. UNCHANGED <<locks, mtx, order, held>>
    BY DEF Swapped
  <2> QED BY <2>1, <2>2 DEF Swapped, Done, Only
<1>10. /\ mtx' = mtx /\ order' = order /\ held' = held /\ locks' = locks /\ holder' = holder /\ depth' = depth
  BY <1>9 DEF locks
\* The streams as they are.
<1>11. /\ ~Pushed(p.f) /\ Own(t, mtx[p.f]) > 0 /\ Open0(p.f) /\ p.f \notin Pool /\ p.g \notin Pool /\ p.g \notin Std
  BY <1>2, <1>5, OwnsAt DEF PushAt, ModeAt, PoolAt
<1>12. /\ p.l # "st7" => push[p.f] = p.g /\ Pushed(p.g)
       /\ p.l = "st7" => push[p.g] = None /\ ~Pushed(p.g) /\ push[p.f] # p.g
  BY <1>2, <1>3, <1>5 DEF PushAt, Pushed
<1>13. Open0(p.g)
  BY <1>2, <1>3, <1>5, <1>12 DEF ModeAt, PushInv
<1>14. "push" \notin mode[p.f]
  BY <1>2, <1>3, <1>11 DEF PushInv
<1>15. push[p.f] # p.f /\ push[p.g] # p.g /\ push[p.g] # p.f /\ None \notin Stream /\ push \in [Stream -> Stream \cup {None}]
  <2>1. PICK h : Height(h)
    BY <1>2 DEF StackInv
  <2>2. None \notin Stream /\ push \in [Stream -> Stream \cup {None}]
    BY <1>2, Names2 DEF TypeInv
  <2> QED BY <1>3, <1>11, <2>1, <2>2 DEF Height, Pushed
<1>16. /\ push'[p.f] = IF p.l = "st7" THEN p.g ELSE push[p.g]
       /\ push'[p.g] = IF p.l = "st7" THEN push[p.f] ELSE None
       /\ \A x \in Stream : x # p.f /\ x # p.g => push'[x] = push[x]
       /\ push' \in [Stream -> Stream \cup {None}]
  <2>1. push' = [push EXCEPT ![p.f] = IF push[p.f] = p.g THEN push[p.g] ELSE p.g,
                             ![p.g] = IF push[p.f] = p.g THEN None ELSE push[p.f]]
    BY <1>7 DEF Swapped
  <2> QED BY <1>3, <1>5, <1>12, <1>15, <2>1
<1>17. /\ mode'[p.f] = mode[p.g] \ {"lock", "push"}
       /\ mode'[p.g] = (mode[p.f] \ {"lock"}) \cup (IF p.l = "st7" THEN {"push"} ELSE {})
       /\ \A x \in Stream : x # p.f /\ x # p.g => mode'[x] = mode[x]
       /\ mode' \in [Stream -> SUBSET {"lock", "push", "pool", "avail", "freed"}]
  <2>1. mode' = [mode EXCEPT ![p.f] = mode[p.g] \ {"lock", "push"},
                             ![p.g] = (mode[p.f] \ {"lock"}) \cup (IF push[p.f] = p.g THEN {} ELSE {"push"})]
    BY <1>7 DEF Swapped
  <2>2. mode \in [Stream -> SUBSET {"lock", "push", "pool", "avail", "freed"}]
    BY <1>2 DEF TypeInv
  <2> QED BY <1>3, <1>5, <1>12, <2>1, <2>2
<1>18. /\ touch'[p.f] = touch[p.f] \ {t} /\ touch'[p.g] = touch[p.g] \ {t}
       /\ \A x \in Stream : x # p.f /\ x # p.g => touch'[x] = touch[x]
       /\ touch' \in [Stream -> SUBSET Thread]
  <2>1. Untouching(t, {p.f, p.g})
    BY <1>7 DEF Swapped
  <2> QED BY <1>2, <1>3, <2>1 DEF TypeInv, Untouching
<1>19. TypeInv' /\ Mine(t)
  BY <1>2, <1>9, <1>10, <1>16, <1>17, <1>18, LockIdle DEF TypeInv, Only
<1>20. \A x \in Stream : Pushed(x)' <=> IF p.l = "st7" THEN Pushed(x) \/ x = p.g ELSE Pushed(x) /\ x # p.g
  <2> SUFFICES ASSUME NEW x \in Stream PROVE Pushed(x)' <=> IF p.l = "st7" THEN Pushed(x) \/ x = p.g ELSE Pushed(x) /\ x # p.g
    OBVIOUS
  <2>1. \A y, z \in Stream : push[y] # None /\ push[y] = push[z] => y = z
    BY <1>2 DEF PushInv
  <2>2. CASE p.l = "st7"
    <3>1. ASSUME NEW y \in Stream, push'[y] = x PROVE Pushed(x) \/ x = p.g
      BY <1>3, <1>16, <2>2, <3>1 DEF Pushed
    <3>2. ASSUME NEW y \in Stream, push[y] = x PROVE Pushed(x)'
      <4>1. y # p.g
        BY <1>12, <1>15, <2>2, <3>2
      <4>2. push'[IF y = p.f THEN p.g ELSE y] = x
        BY <1>3, <1>16, <2>2, <3>2, <4>1
      <4> QED BY <1>3, <4>2 DEF Pushed
    <3>3. Pushed(p.g)'
      BY <1>3, <1>16, <2>2 DEF Pushed
    <3> QED BY <2>2, <3>1, <3>2, <3>3 DEF Pushed
  <2>3. CASE p.l # "st7"
    <3>1. ASSUME NEW y \in Stream, push'[y] = x PROVE Pushed(x) /\ x # p.g
      <4>1. y # p.g
        BY <1>15, <1>16, <2>3, <3>1
      <4>2. CASE y = p.f
        BY <1>3, <1>15, <1>16, <2>3, <3>1, <4>2 DEF Pushed
      <4>3. CASE y # p.f
        <5>1. push[y] = x
          BY <1>16, <3>1, <4>1, <4>3
        <5>2. x # p.g
          BY <1>3, <1>12, <1>15, <2>1, <2>3, <4>3, <5>1
        <5> QED BY <5>1, <5>2 DEF Pushed
      <4> QED BY <4>2, <4>3
    <3>2. ASSUME NEW y \in Stream, push[y] = x, x # p.g PROVE Pushed(x)'
      <4>1. y # p.f
        BY <1>12, <2>3, <3>2
      <4>2. push'[IF y = p.g THEN p.f ELSE y] = x
        BY <1>3, <1>16, <2>3, <3>2, <4>1
      <4> QED BY <1>3, <4>2 DEF Pushed
    <3> QED BY <2>3, <3>1, <3>2 DEF Pushed
  <2> QED BY <2>2, <2>3
\* The place behind the step.
<1> DEFINE k == IF p.l = "sp2" THEN "uu10" ELSE IF p.l = "n4" THEN "n5" ELSE "uu11"
<1> DEFINE q == To("on", k, p.f, p.g, p.n, LibMutex)
<1>21. q \in Place /\ q.ph = "on" /\ q.f = p.f /\ q.g = p.g /\ q.n = p.n
       /\ (p.l = "sp2" => q.l = "uu10") /\ (p.l = "n4" => q.l = "n5") /\ (p.l = "st7" => q.l = "uu11")
  BY <1>3, <1>5, ToIs, Names2 DEF Phase, Label, Two
<1> HIDE DEF q, k
<1>22. todo'[t] = Left(q)
  <2>1. todo'[t] = Tail(todo[t])
    BY <1>2 DEF Swapped, Done, TypeInv
  <2>2. /\ Plan("uu10", p.f, p.g, p.n) = UnlockFG(p.f, p.g) /\ Plan("uu11", p.f, p.g, p.n) = UnlockFG(p.f, p.g)
        /\ Plan("n5", p.f, p.g, p.n) = N5(p.f, p.g)
    BY <1>4 DEF PlansAre
  <2>3. Left(q) = Plan(q.l, p.f, p.g, p.n)
    BY <1>21, LeftIs
  <2> QED BY <1>5, <1>6, <1>21, <2>1, <2>2, <2>3
<1>23. \A x \in Stream : Engaged(t, x)' => Engaged(t, x)
  <2>1. \A x \in Stream : Engaged(t, x)' => x \in About(q) \/ held'[t][x] > 0
    BY <1>21, <1>22, NewUses DEF Entry
  <2>2. Engaged(t, p.f) /\ Engaged(t, p.g)
    BY <1>1, <1>2, <1>5, EngagedAt DEF Facts
  <2> QED BY <1>10, <1>21, <2>1, <2>2 DEF About, Engaged
<1>24. Modest(t)
  BY <1>8, <1>23, ModestBy
<1>25. ClearsOf(todo[t]) = {}
  BY <1>2, <1>5, ClearsAt
\* The streams.
<1>26. PushInv'
  <2>1. \A x, y \in Stream : push'[x] # None /\ push'[x] = push'[y] => x = y
    <3>1. \A x, y \in Stream : push[x] # None /\ push[x] = push[y] => x = y
      BY <1>2 DEF PushInv
    <3>2. \A x \in Stream : push[x] = p.g => p.l # "st7"
      BY <1>3, <1>12 DEF Pushed
    <3>3. CASE p.l = "st7"
      <4> DEFINE s(x) == IF x = p.f THEN p.g ELSE IF x = p.g THEN p.f ELSE x
      <4>1. \A x \in Stream : x # p.f => push'[x] = push[s(x)] /\ s(x) \in Stream
        BY <1>3, <1>5, <1>16, <3>3
      <4>2. \A x \in Stream : x # p.f => push'[x] # p.g
        BY <3>2, <3>3, <4>1
      <4>3. \A x, y \in Stream : x # p.f /\ y # p.f /\ push'[x] # None /\ push'[x] = push'[y] => s(x) = s(y)
        BY <3>1, <4>1
      <4> QED BY <1>3, <1>16, <3>3, <4>2, <4>3
    <3>4. CASE p.l # "st7"
      <4> DEFINE s(x) == IF x = p.f THEN p.g ELSE x
      <4>1. \A x \in Stream : x # p.g => push'[x] = push[s(x)] /\ s(x) \in Stream
        BY <1>3, <1>5, <1>16, <3>4
      <4>2. \A x, y \in Stream : x # p.g /\ y # p.g /\ push'[x] # None /\ push'[x] = push'[y] => s(x) = s(y)
        BY <3>1, <4>1
      <4> QED BY <1>3, <1>16, <3>4, <4>2
    <3> QED BY <3>3, <3>4
  <2>2. ASSUME NEW x \in Stream, Pushed(x)'
        PROVE  x \notin Std \cup Pool /\ mtx'[x] # None /\ Open0(x)' /\ \A u \in Thread : held'[u][x] = 0
    <3>1. x # p.f
      BY <1>3, <1>5, <1>11, <1>20, <2>2
    <3>2. CASE x # p.g
      <4>1. Pushed(x)
        BY <1>20, <2>2, <3>2
      <4>2. x \notin Std \cup Pool /\ mtx[x] # None /\ Open0(x) /\ \A u \in Thread : held[u][x] = 0
        BY <1>2, <4>1 DEF PushInv
      <4> QED BY <1>10, <1>17, <3>1, <3>2, <4>2 DEF Open0
    <3>3. CASE x = p.g
      <4>1. p.l = "st7"
        BY <1>20, <2>2, <3>3
      <4>2. mtx[p.g] # None
        <5>1. Own(t, mtx[p.g]) > 0
          BY <1>2, <1>5, <4>1, OwnsAt DEF CountG
        <5>2. mtx[p.g] \in Mutex \cup {None}
          BY <1>2, <1>3 DEF TypeInv
        <5> QED BY <1>2, <5>1, <5>2, OwnIs
      <4>3. \A u \in Thread \ {t} : held[u][p.g] = 0
        <5>1. \A u \in Thread \ {t} : ~Engaged(u, p.g)
          BY <1>2, <4>1 DEF AloneAt
        <5>2. \A u \in Thread : held[u][p.g] \in Nat
          BY <1>2, <1>3 DEF TypeInv
        <5> QED BY <5>1, <5>2 DEF Engaged
      <4>4. held[t][p.g] = 0
        <5>1. held[t][p.g] \in Nat
          BY <1>2, <1>3 DEF TypeInv
        <5> QED BY <1>2, <1>3, <1>5, <5>1 DEF HeldAt
      <4>5. Open0(p.g)'
        BY <1>11, <1>17 DEF Open0
      <4> QED BY <1>10, <1>11, <3>3, <4>2, <4>3, <4>4, <4>5
    <3> QED BY <3>2, <3>3
  <2>3. ASSUME NEW x \in Stream, "push" \in mode'[x] PROVE Pushed(x)'
    <3>1. x # p.f
      BY <1>17, <2>3
    <3>2. x = p.g => p.l = "st7"
      BY <1>14, <1>17, <2>3
    <3>3. x # p.g => Pushed(x)
      BY <1>2, <1>17, <2>3, <3>1 DEF PushInv
    <3> QED BY <1>20, <3>2, <3>3
  <2>4. ASSUME NEW x \in Stream, Pushed(x)', "push" \notin mode'[x]
        PROVE  \E u \in Thread, f \in Stream : todo'[u] # <<>> /\ Head(todo'[u]) \in {<<"swap", f, x>>, <<"swapped", f, x>>}
    <3>1. x # p.g
      BY <1>17, <1>20, <2>4
    <3>2. x # p.f /\ Pushed(x)
      BY <1>3, <1>5, <1>11, <1>20, <2>4, <3>1
    <3>3. "push" \notin mode[x]
      BY <1>17, <2>4, <3>1, <3>2
    <3>4. PICK u \in Thread, f \in Stream : todo[u] # <<>> /\ Head(todo[u]) \in {<<"swap", f, x>>, <<"swapped", f, x>>}
      BY <1>2, <3>2, <3>3 DEF PushInv
    <3>5. u # t
      BY <1>6, <3>1, <3>4
    <3>6. todo'[u] = todo[u]
      BY <1>9, <3>5 DEF Only
    <3> QED BY <3>4, <3>6
  <2> QED BY <2>1, <2>2, <2>3, <2>4 DEF PushInv
<1>27. StackInv'
  <2>1. \E h : Height(h)'
    <3>1. PICK h : Height(h)
      BY <1>2 DEF StackInv
    <3>2. h \in [Stream -> Nat] /\ \A x \in Stream : push[x] # None => h[push[x]] < h[x]
      BY <3>1 DEF Height
    <3>3. CASE p.l # "st7"
      <4>1. push'[p.f] # None => h[push'[p.f]] < h[p.f]
        <5> SUFFICES ASSUME push[p.g] # None PROVE h[push[p.g]] < h[p.f]
          BY <1>16, <3>3
        <5>1. h[push[p.g]] < h[p.g] /\ h[p.g] < h[p.f]
          BY <1>3, <1>12, <1>15, <3>2, <3>3
        <5>2. h[push[p.g]] \in Nat /\ h[p.g] \in Nat /\ h[p.f] \in Nat
          BY <1>3, <1>15, <3>2
        <5> QED BY <5>1, <5>2
      <4>2. \A x \in Stream : push'[x] # None => h[push'[x]] < h[x]
        BY <1>16, <3>2, <3>3, <4>1
      <4>3. Height(h)'
        BY <3>2, <4>2 DEF Height
      <4> QED BY <4>3
    <3>4. CASE p.l = "st7"
      <4> DEFINE d == [x \in Stream |-> IF x = p.g THEN 2 * h[p.f] + 1 ELSE 2 * h[x] + 2]
      <4>1. d \in [Stream -> Nat] /\ \A x \in Stream : d[x] = IF x = p.g THEN 2 * h[p.f] + 1 ELSE 2 * h[x] + 2
        BY <1>3, <3>2
      <4> HIDE DEF d
      <4>2. ASSUME NEW x \in Stream, push'[x] # None PROVE d[push'[x]] < d[x]
        <5>1. CASE x = p.f
          <6>1. push'[x] = p.g /\ h[p.f] \in Nat
            BY <1>3, <1>16, <3>2, <3>4, <5>1
          <6> QED BY <1>3, <1>5, <4>1, <5>1, <6>1
        <5>2. CASE x = p.g
          <6>1. PICK y \in Stream : y = push[p.f]
            BY <1>3, <1>15, <1>16, <3>4, <4>2, <5>2
          <6>2. push'[x] = y /\ y # p.g /\ h[y] < h[p.f] /\ h[y] \in Nat /\ h[p.f] \in Nat
            BY <1>3, <1>12, <1>15, <1>16, <3>2, <3>4, <5>2, <6>1
          <6>3. d[y] = 2 * h[y] + 2 /\ d[p.g] = 2 * h[p.f] + 1
            BY <1>3, <4>1, <6>2
          <6> QED BY <5>2, <6>2, <6>3
        <5>3. CASE x # p.f /\ x # p.g
          <6>1. PICK y \in Stream : y = push[x]
            BY <1>15, <1>16, <4>2, <5>3
          <6>2. push'[x] = y /\ h[y] < h[x] /\ h[y] \in Nat /\ h[x] \in Nat
            BY <1>15, <1>16, <3>2, <5>3, <6>1
          <6>3. y # p.g
            BY <1>12, <3>4, <6>1 DEF Pushed
          <6>4. d[y] = 2 * h[y] + 2 /\ d[x] = 2 * h[x] + 2
            BY <4>1, <5>3, <6>3
          <6> QED BY <6>2, <6>4
        <5> QED BY <5>1, <5>2, <5>3
      <4>3. Height(d)'
        BY <4>1, <4>2 DEF Height
      <4> QED BY <4>3
    <3> QED BY <3>3, <3>4
  <2>2. \E b : Base(b)'
    <3>1. PICK b : Base(b)
      BY <1>2 DEF StackInv
    <3>2. /\ b \in [Stream -> Stream] /\ \A x \in Stream : push[x] # None => b[push[x]] = b[x]
          /\ \A x \in Stream : ~Pushed(x) => b[x] = x
          /\ Ordered => \A x \in Stream : b[x] # x => Rank[b[x]] < Rank[x]
      BY <3>1 DEF Base
    <3>3. b[p.f] = p.f
      BY <1>3, <1>11, <3>2
    <3> DEFINE d == [x \in Stream |-> IF x = p.g THEN IF p.l = "st7" THEN p.f ELSE p.g ELSE b[x]]
    <3>4. d \in [Stream -> Stream] /\ \A x \in Stream : d[x] = IF x = p.g THEN IF p.l = "st7" THEN p.f ELSE p.g ELSE b[x]
      BY <1>3, <3>2
    <3> HIDE DEF d
    <3>5. ASSUME NEW x \in Stream, push'[x] # None PROVE d[push'[x]] = d[x]
      <4>1. PICK y \in Stream : y = push'[x]
        BY <1>16, <3>5
      <4>2. CASE p.l = "st7"
        <5>1. CASE x = p.f
          BY <1>3, <1>5, <1>16, <3>3, <3>4, <4>2, <5>1
        <5>2. CASE x = p.g
          <6>1. y = push[p.f] /\ y # p.g
            BY <1>12, <1>16, <4>1, <4>2, <5>2
          <6>2. b[y] = p.f
            BY <1>3, <1>15, <3>2, <3>3, <6>1
          <6>3. d[y] = p.f /\ d[x] = p.f
            BY <3>4, <4>2, <5>2, <6>1, <6>2
          <6> QED BY <4>1, <6>3
        <5>3. CASE x # p.f /\ x # p.g
          <6>1. y = push[x]
            BY <1>16, <4>1, <5>3
          <6>2. y # p.g
            BY <1>12, <4>2, <6>1 DEF Pushed
          <6>3. b[y] = b[x]
            BY <1>15, <3>2, <6>1
          <6> QED BY <3>4, <4>1, <5>3, <6>2, <6>3
        <5> QED BY <5>1, <5>2, <5>3
      <4>3. CASE p.l # "st7"
        <5>1. y # p.g /\ x # p.g
          <6>1. Pushed(y)'
            BY <4>1 DEF Pushed
          <6> QED BY <1>3, <1>16, <1>20, <3>5, <4>3, <6>1
        <5>2. CASE x = p.f
          <6>1. y = push[p.g]
            BY <1>16, <4>1, <4>3, <5>2
          <6>2. b[y] = b[p.g] /\ b[p.g] = b[p.f]
            BY <1>3, <1>12, <1>15, <3>2, <4>3, <6>1
          <6> QED BY <3>4, <4>1, <5>1, <5>2, <6>2
        <5>3. CASE x # p.f
          <6>1. y = push[x]
            BY <1>16, <4>1, <5>1, <5>3
          <6>2. b[y] = b[x]
            BY <1>15, <3>2, <6>1
          <6> QED BY <3>4, <4>1, <5>1, <6>2
        <5> QED BY <5>2, <5>3
      <4> QED BY <4>2, <4>3
    <3>6. ASSUME NEW x \in Stream, ~Pushed(x)' PROVE d[x] = x
      <4>1. CASE x = p.g
        <5>1. p.l # "st7"
          BY <1>20, <3>6, <4>1
        <5> QED BY <3>4, <4>1, <5>1
      <4>2. CASE x # p.g
        <5>1. ~Pushed(x)
          BY <1>20, <3>6, <4>2
        <5> QED BY <3>2, <3>4, <4>2, <5>1
      <4> QED BY <4>1, <4>2
    <3>7. Ordered => \A x \in Stream : d[x] # x => Rank[d[x]] < Rank[x]
      <4>1. Ordered /\ p.l = "st7" => Rank[p.f] < Rank[p.g]
        BY <1>2 DEF RankAt
      <4> QED BY <3>2, <3>4, <4>1
    <3>8. Base(d)'
      BY <3>4, <3>5, <3>6, <3>7 DEF Base
    <3> QED BY <3>8
  <2> QED BY <2>1, <2>2 DEF StackInv
<1>28. LockInv'
  <2>1. ASSUME NEW x \in Stream PROVE \A u, v \in touch'[x] : u = v
    <3>1. touch'[x] \subseteq touch[x]
      BY <1>18
    <3>2. \A u, v \in touch[x] : u = v
      BY <1>2 DEF LockInv
    <3> QED BY <3>1, <3>2
  <2>2. ASSUME NEW x \in Stream, "lock" \in mode'[x]
        PROVE  touch'[x] # {} \/ \E u \in Thread : x \in ClearsOf(todo'[u])
    <3>1. x # p.f /\ x # p.g
      BY <1>17, <2>2
    <3>2. "lock" \in mode[x] /\ touch'[x] = touch[x]
      BY <1>17, <1>18, <2>2, <3>1
    <3>3. \A u \in Thread : x \in ClearsOf(todo[u]) <=>
            \E i \in DOMAIN todo[u] : todo[u][i] = <<"clear", x>> \/ (todo[u][i][1] = "swaphead" /\ todo[u][i][4] = x)
      BY DEF ClearsOf, ClearOf
    <3>4. touch[x] # {} \/ \E u \in Thread : x \in ClearsOf(todo[u])
      BY <1>2, <3>2, <3>3 DEF LockInv
    <3>5. \A u \in Thread \ {t} : ClearsOf(todo'[u]) = ClearsOf(todo[u])
      BY <1>9 DEF Only
    <3> QED BY <1>25, <3>2, <3>4, <3>5
  <2>3. \A x \in Stream : \A u \in Thread : x \in ClearsOf(todo'[u]) <=>
          \E i \in DOMAIN todo'[u] : todo'[u][i] = <<"clear", x>> \/ (todo'[u][i][1] = "swaphead" /\ todo'[u][i][4] = x)
    BY DEF ClearsOf, ClearOf
  <2> QED BY <2>1, <2>2, <2>3 DEF LockInv
<1>29. FreedInv'
  <2> SUFFICES ASSUME NEW x \in Stream, "freed" \in mode'[x]
               PROVE  x \in Heap /\ ~Pushed(x)' /\ \A u \in Thread : ~Engaged(u, x)'
    BY DEF FreedInv
  <2>1. x # p.f /\ x # p.g
    BY <1>11, <1>13, <1>17 DEF Open0
  <2>2. "freed" \in mode[x]
    BY <1>17, <2>1
  <2>3. x \in Heap /\ ~Pushed(x) /\ \A u \in Thread : ~Engaged(u, x)
    BY <1>2, <2>2 DEF FreedInv
  <2>4. \A u \in Thread \ {t} : Engaged(u, x)' <=> Engaged(u, x)
    BY <1>9, OthersEngaged
  <2> QED BY <1>20, <1>23, <2>1, <2>3, <2>4
<1>30. PoolInv'
  <2>1. \A x \in Pool : x \in Stream /\ x # p.f /\ x # p.g
    BY <1>11, Names2
  <2> QED BY <1>2, <1>10, <1>17, <2>1 DEF PoolInv, Open0
<1>31. SysInv'
  <2>1. MutexInv'
    <3>1. \A m \in Mutex : holder'[m] # None => holder[m] # None \/ m \in {PoolMutex, LibMutex} \/ \E x \in Stream : mtx[x] = m
      BY <1>10
    <3>2. \A x \in Stream : Engaged(t, x)' => Engaged(t, x) \/ mtx[x] # None \/ \A u \in Thread \ {t} : ~Engaged(u, x)
      BY <1>23
    <3> QED BY <1>2, <1>9, <1>10, <3>1, <3>2, MutexStays
  <2> QED BY <1>19, <1>26, <1>27, <1>28, <1>29, <1>30, <2>1 DEF SysInv
\* The place of the thread.
<1>32. Facts(t, q)'
  <2>1. At(t, q)'
    BY <1>5, <1>21, <1>22 DEF At
  <2>2. LocksAt(t, q)'
    <3>1. \A x \in Stream : Count(q, x) = Count(p, x)
      BY <1>5, <1>21 DEF Count, CountF, CountG
    <3> QED BY <1>2, <1>5, <1>10, <1>21, <3>1, OwnLocks
  <2>3. MutexAt(t, q)'
    BY <1>5, <1>21 DEF MutexAt
  <2>4. PushAt(q)'
    <3>1. ~Pushed(p.f)'
      BY <1>3, <1>5, <1>11, <1>20
    <3>2. p.l # "st7" => ~Pushed(p.g)' /\ push'[p.g] = None
      BY <1>3, <1>16, <1>20
    <3>3. p.l = "st7" => push'[p.f] = p.g
      BY <1>16
    <3> QED BY <1>5, <1>21, <3>1, <3>2, <3>3 DEF PushAt
  <2>5. TouchAt(t, q)'
    <3>1. \A x \in Stream : t \in touch[x] <=> x = p.f \/ x = p.g
      BY <1>2, <1>5 DEF TouchAt
    <3>2. \A x \in Stream : t \notin touch'[x]
      BY <1>3, <1>18, <3>1
    <3> QED BY <1>5, <1>21, <3>2 DEF TouchAt
  <2>6. ModeAt(q)'
    <3>1. Open0(p.f)'
      BY <1>13, <1>17 DEF Open0
    <3> QED BY <1>5, <1>21, <3>1 DEF ModeAt
  <2>7. HeldAt(t, q)'
    BY <1>2, <1>5, <1>10, <1>21 DEF HeldAt
  <2>8. PoolAt(t, q)'
    BY <1>5, <1>11, <1>21 DEF PoolAt, Two
  <2>9. RankAt(q)'
    BY <1>2, <1>5, <1>21 DEF RankAt
  <2>10. AloneAt(t, q)'
    <3>1. CASE p.l = "n4"
      <4>1. \A u \in Thread \ {t} : (p.f \notin Std => ~Engaged(u, p.f)') /\ (Engaged(u, p.g)' => Leaves(u, p.g)')
        BY <1>2, <1>3, <1>9, <1>10, <1>19, <3>1, OthersEngaged, OthersLeave DEF AloneAt, Nested
      <4> QED BY <1>21, <3>1, <4>1 DEF AloneAt
    <3>2. CASE p.l # "n4"
      BY <1>5, <1>21, <3>2 DEF AloneAt, Nested
    <3> QED BY <3>1, <3>2
  <2> QED BY <2>1, <2>2, <2>3, <2>4, <2>5, <2>6, <2>7, <2>8, <2>9, <2>10 DEF Facts
\* The others.
<1>33. \A u \in Thread \ {t} : \A r \in Place : Facts(u, r) => Facts(u, r)'
  <2> SUFFICES ASSUME NEW u \in Thread \ {t}, NEW r \in Place, Facts(u, r) PROVE Facts(u, r)'
    OBVIOUS
  <2>1. /\ At(u, r) /\ LocksAt(u, r) /\ MutexAt(u, r) /\ PushAt(r) /\ TouchAt(u, r) /\ PoolAt(u, r) /\ HeldAt(u, r)
        /\ RankAt(r) /\ AloneAt(u, r) /\ r.f \in Stream /\ r.g \in Stream /\ r.l \in Label /\ r.ph \in Phase
    BY PlaceIs DEF Facts
  <2>2. At(u, r)' /\ HeldAt(u, r)' /\ RankAt(r)'
    BY <1>9, <2>1, OthersPlain
  <2>3. LocksAt(u, r)' /\ MutexAt(u, r)'
    BY <1>2, <1>9, <1>10, <1>19, <2>1, OthersLocks
  <2>4. PoolAt(u, r)'
    BY <1>10, <2>1, OthersPool
  <2>5. TouchAt(u, r)'
    <3>1. \A x \in Stream : touch'[x] \ {t} = touch[x] \ {t}
      BY <1>18
    <3> QED BY <2>1, <3>1, OthersTouch
  <2>6. ModeAt(r)'
    <3>1. \A x \in Stream : Lawful(t, x)
      BY <1>11, <1>13, <1>17 DEF Lawful, Open0
    <3> QED BY <3>1, OthersLawful
  <2>7. AloneAt(u, r)'
    <3>1. \A v \in Thread \ {t} : \A x \in Stream : Leaves(v, x) => Leaves(v, x)'
      BY <1>2, <1>9, <1>10, <1>19, OthersLeave
    <3> QED BY <1>9, <1>24, <3>1, OthersAlone
  <2>8. Own(u, mtx[p.f]) = 0
    <3>1. mtx[p.f] \in Mutex \cup {None}
      BY <1>2, <1>3 DEF TypeInv
    <3> QED BY <1>2, <1>11, <3>1, OwnIs
  <2>9. r.l \notin {"idle", "u1"} => (p.l = "st7" => r.f # p.g)
    <3>1. r.l # "idle" => Engaged(u, r.f)
      BY <1>2, <2>1, EngagedAt
    <3>2. p.l = "st7" => ~Engaged(u, p.g)
      BY <1>2 DEF AloneAt
    <3> QED BY <3>1, <3>2
  <2>10. r.l \in Two => (p.l = "st7" => r.g # p.g)
    <3>1. r.l \in Two => Engaged(u, r.g)
      BY <1>2, <2>1, EngagedAt
    <3>2. p.l = "st7" => ~Engaged(u, p.g)
      BY <1>2 DEF AloneAt
    <3> QED BY <3>1, <3>2
  <2>11. r.l \in {"sp1", "sp2", "n1", "n2", "n3", "n4", "x3", "uu01", "uu11"} => push'[r.f] = push[r.f]
    <3> SUFFICES ASSUME r.l \in {"sp1", "sp2", "n1", "n2", "n3", "n4", "x3", "uu01", "uu11"} PROVE push'[r.f] = push[r.f]
      OBVIOUS
    <3>1. r.ph = "on" \/ r.l = "n1"
      BY <2>1 DEF At, Entry
    <3>2. Own(u, mtx[r.f]) > 0
      BY <1>2, <2>1, <3>1, OwnsAt
    <3>3. r.f # p.f
      BY <2>8, <3>2
    <3>4. r.f # p.g
      <4>1. ~Pushed(r.f)
        BY <2>1 DEF PushAt
      <4> QED BY <1>12, <2>9, <4>1
    <3> QED BY <1>16, <2>1, <3>3, <3>4
  <2>12. r.l \in {"n5", "n6", "n8", "n9", "n10", "n11", "st6", "st7"} => push'[r.g] = push[r.g]
    <3> SUFFICES ASSUME r.l \in {"n5", "n6", "n8", "n9", "n10", "n11", "st6", "st7"} PROVE push'[r.g] = push[r.g]
      OBVIOUS
    <3>1. Engaged(t, p.f) /\ Engaged(t, p.g)
      BY <1>2, <1>3, <1>5, EngagedAt
    <3>2. \A x \in Stream : ~Leaves(t, x)
      BY <1>8, NotLeaving
    <3>3. Engaged(t, r.g) => Leaves(t, r.g)
      BY <2>1 DEF AloneAt, Nested
    <3>4. r.g # p.f /\ r.g # p.g
      BY <1>3, <3>1, <3>2, <3>3
    <3> QED BY <1>16, <2>1, <3>4
  <2>13. PushAt(r)'
    <3>1. r.l \notin {"idle", "u1"} => ~Pushed(r.f)'
      BY <1>20, <2>1, <2>9 DEF PushAt
    <3>2. r.l \in {"uu10", "n5", "n6", "n8", "n9", "n10", "n11", "st2", "st3", "st4", "st5", "st6", "st7"} => ~Pushed(r.g)'
      BY <1>20, <2>1, <2>10 DEF PushAt, Two
    <3>3. r.l \in {"sp1", "sp2", "n1", "n2", "n3", "n4", "x3", "uu01"} => push'[r.f] = r.g
      BY <2>1, <2>11 DEF PushAt
    <3>4. r.l = "uu11" /\ Pushed(r.g)' => push'[r.f] = r.g
      <4>1. r.l = "uu11" /\ Pushed(r.g)' => Pushed(r.g)
        BY <1>20, <2>1, <2>10 DEF Two
      <4> QED BY <2>1, <2>11, <4>1 DEF PushAt
    <3>5. r.l \in {"n5", "n6", "n8", "n9", "n10", "n11", "st6", "st7"} => push'[r.g] = None
      BY <2>1, <2>12 DEF PushAt
    <3> QED BY <3>1, <3>2, <3>3, <3>4, <3>5 DEF PushAt
  <2> QED BY <2>2, <2>3, <2>4, <2>5, <2>6, <2>7, <2>13 DEF Facts
<1> QED BY <1>31, <1>21, <1>32, <1>33, Together

----------------------------------------------------------------------------
(* Steps that give a stream another mutex.                                 *)

LEMMA StepRemutex ==
  ASSUME LocksInv, NEW t \in Thread, NEW q \in Place, Facts(t, q)',
         Only(t), Mine(t), TypeInv', MutexInv', push' = push, Modest(t), Keeps(t),
         \A v \in Thread \ {t} : \A x \in Stream : Own(v, mtx[x])' = Own(v, mtx[x]),
         \A x \in Stream : mtx'[x] = mtx[x] \/ \A u \in Thread \ {t} : ~Engaged(u, x),
         \A u \in Thread \ {t} : \A r \in Place : Facts(u, r) => ModeAt(r)' /\ PoolAt(u, r)'
  PROVE  LocksInv'
<1>1. SysInv /\ TypeInv /\ MutexInv
  BY DEF LocksInv, SysInv
<1>2. SysInv'
  BY <1>1, SysStays
<1>3. \A u \in Thread \ {t} : \A r \in Place : Facts(u, r) => Facts(u, r)'
  <2> SUFFICES ASSUME NEW u \in Thread \ {t}, NEW r \in Place, Facts(u, r) PROVE Facts(u, r)'
    OBVIOUS
  <2>1. /\ At(u, r) /\ LocksAt(u, r) /\ MutexAt(u, r) /\ PushAt(r) /\ TouchAt(u, r) /\ HeldAt(u, r) /\ RankAt(r)
        /\ r.f \in Stream /\ r.g \in Stream /\ Asked(r) \in Stream /\ Asked(r) \in {r.f, r.g}
    BY PlaceIs DEF Facts
  <2>2. At(u, r)' /\ HeldAt(u, r)' /\ RankAt(r)'
    BY <2>1, OthersPlain
  <2>3. LocksAt(u, r)'
    <3>1. held'[u] = held[u]
      BY DEF Only
    <3>2. \A m \in Mutex : Own(u, m)' = Own(u, m)
      BY <1>1, OthersOwn
    <3>3. Own(u, LibMutex)' = Own(u, LibMutex) /\ Own(u, PoolMutex)' = Own(u, PoolMutex)
      BY <3>2, Names2
    <3> QED BY <2>1, <3>1, <3>3 DEF LocksAt
  <2>4. MutexAt(u, r)'
    <3>1. r.ph # "on" => mtx'[Asked(r)] = mtx[Asked(r)]
      <4>1. r.ph # "on" => Engaged(u, Asked(r))
        <5>1. r.l \in {"st3", "n8", "p3"} => r.l \in Two
          BY DEF Two
        <5>2. Asked(r) = r.f \/ (Asked(r) = r.g /\ r.l \in {"st3", "n8", "p3"})
          BY DEF Asked
        <5> QED BY <1>1, <2>1, <5>1, <5>2, EngagedAt
      <4> QED BY <2>1, <4>1
    <3>2. r.l = "k2" => mtx'[r.f] = mtx[r.f]
      BY <1>1, <2>1, EngagedAt
    <3>3. r.l = "n11" => mtx'[r.g] = mtx[r.g]
      <4>1. r.l = "n11" => Engaged(u, r.g)
        BY <1>1, <2>1, EngagedAt DEF Two
      <4> QED BY <2>1, <4>1
    <3> QED BY <2>1, <3>1, <3>2, <3>3 DEF MutexAt
  <2>5. PushAt(r)'
    BY <2>1, OthersPush
  <2>6. TouchAt(u, r)'
    <3>1. \A x \in Stream : touch'[x] \ {t} = touch[x] \ {t}
      BY DEF Keeps
    <3> QED BY <2>1, <3>1, OthersTouch
  <2>7. AloneAt(u, r)'
    <3>1. \A v \in Thread \ {t} : \A x \in Stream : Leaves(v, x) => Leaves(v, x)'
      BY DEF Leaves, Only
    <3> QED BY <3>1, OthersAlone
  <2>8. ModeAt(r)' /\ PoolAt(u, r)'
    OBVIOUS
  <2> QED BY <2>2, <2>3, <2>4, <2>5, <2>6, <2>7, <2>8 DEF Facts
<1> QED BY <1>2, <1>3, Together

LEMMA CloseMutexStep == ASSUME LocksInv, NEW t \in Thread, CloseMutex(t) PROVE LocksInv'
<1>1. PICK p \in Place : Facts(t, p)
  BY DEF LocksInv, ThreadInv
<1>2. /\ SysInv /\ TypeInv /\ MutexInv /\ PushInv /\ PoolInv
      /\ At(t, p) /\ LocksAt(t, p) /\ MutexAt(t, p) /\ TouchAt(t, p) /\ ModeAt(p)
      /\ PushAt(p) /\ HeldAt(t, p) /\ PoolAt(t, p) /\ AloneAt(t, p) /\ RankAt(p)
  BY <1>1 DEF LocksInv, SysInv, Facts
<1>3. /\ p.ph \in Phase /\ p.l \in Label /\ p.f \in Stream /\ p.g \in Stream /\ p.n \in Nat /\ p.m \in Mutex
  BY PlaceIs
<1>4. HeadsAre(p.f, p.g, p.n) /\ PlansAre(p.f, p.g, p.n)
  BY <1>3, Heads, Plans
<1>5. p.ph = "on" /\ p.l \in {"k1", "n10"} /\ todo[t] = Plan(p.l, p.f, p.g, p.n) /\ (p.l = "n10" => p.f # p.g)
  <2>1. Doing(t, "clr")
    BY DEF CloseMutex
  <2>2. p.ph = "on" /\ OpOf(p.l) = "clr"
    BY <1>2, <2>1, DoingAt
  <2>3. p.l \in {"k1", "n10"}
    BY <1>3, <2>2, OpLabels
  <2> QED BY <1>2, <2>2, <2>3, LeftIs DEF At, Two
<1> DEFINE c == IF p.l = "k1" THEN p.f ELSE p.g
<1>6. PICK x \in Stream : x = c
  BY <1>3
<1> HIDE DEF c
<1>7. (p.l = "k1" => x = p.f) /\ (p.l = "n10" => x = p.g)
  BY <1>6 DEF c
<1>8. /\ Head(todo[t]) = <<"clr", x>>
      /\ p.l = "k1" => Tail(todo[t]) = K2(p.f)
      /\ p.l = "n10" => Tail(todo[t]) = N11(p.f, p.g)
  BY <1>4, <1>5, <1>7 DEF HeadsAre
<1>9. It(t) = x /\ Head(todo[t])[1] = "clr"
  BY <1>8 DEF It
<1>10. ~Doing(t, "unlock") /\ ~Doing(t, "swap") /\ ~Doing(t, "swapped")
  BY <1>9 DEF Doing
<1>11. /\ Cleared(t, x) /\ held' = [held EXCEPT ![t][x] = 0] /\ todo' = [todo EXCEPT ![t] = Tail(@)]
       /\ mtx' = (IF x \in Std THEN mtx ELSE [mtx EXCEPT ![x] = None])
       /\ mode' = mode /\ push' = push /\ order' = order /\ touch' = touch
  BY <1>9 DEF CloseMutex, Done
<1>12. /\ Mine(t) /\ \A k \in Mutex : holder'[k] # None => holder[k] # None
       /\ holder' \in [Mutex -> Thread \cup {None}] /\ depth' \in [Mutex -> Nat]
       /\ \A k \in Mutex : holder'[k] = None <=> depth'[k] = 0
  BY <1>2, <1>11, ClearOwn
<1>13. /\ \A k \in Mutex : Own(t, k)' = IF k = mtx[x] THEN 0 ELSE Own(t, k)
       /\ mtx[x] # None => holder'[mtx[x]] # t
  BY <1>2, <1>11, ClearOwn
<1>14. /\ mtx' \in [Stream -> Mutex \cup {None}] /\ (x \notin Std => mtx'[x] = None)
       /\ \A y \in Stream : y # x \/ x \in Std => mtx'[y] = mtx[y]
  <2>1. mtx \in [Stream -> Mutex \cup {None}]
    BY <1>2 DEF TypeInv
  <2> QED BY <1>11, <2>1
<1>15. /\ held' \in [Thread -> [Stream -> Nat]] /\ held'[t][x] = 0 /\ \A y \in Stream : y # x => held'[t][y] = held[t][y]
       /\ \A u \in Thread \ {t} : held'[u] = held[u] /\ todo'[u] = todo[u]
       /\ DOMAIN todo' = Thread /\ todo'[t] = Tail(todo[t])
  <2>1. held \in [Thread -> [Stream -> Nat]] /\ DOMAIN todo = Thread
    BY <1>2 DEF TypeInv
  <2> QED BY <1>11, <2>1
<1>16. Only(t) /\ TypeInv'
  BY <1>2, <1>11, <1>12, <1>14, <1>15 DEF Only, TypeInv
<1>17. /\ \A y \in Stream : held'[t][y] > 0 => held[t][y] > 0
       /\ \A y \in Stream : held'[t][y] \in Nat
  <2>1. \A y \in Stream : held'[t][y] \in Nat
    BY <1>15
  <2>2. held'[t][x] = 0 /\ \A y \in Stream : y # x => held'[t][y] = held[t][y]
    BY <1>15
  <2>3. \A y \in Stream : held'[t][y] > 0 => held[t][y] > 0
    BY <2>2
  <2> QED BY <2>1, <2>3
\* Nobody else is engaged with the stream.
<1>18. Own(t, mtx[x]) > 0 /\ ~Pushed(x) /\ mtx[x] \in Mutex
  <2>1. Own(t, mtx[x]) > 0
    BY <1>2, <1>5, <1>7, OwnsAt DEF CountG
  <2>2. ~Pushed(x)
    BY <1>2, <1>5, <1>7 DEF PushAt
  <2> QED BY <1>2, <2>1, <2>2 DEF TypeInv, Own
<1>19. \A u \in Thread \ {t} : Own(u, mtx[x]) = 0
  BY <1>2, <1>18, OwnIs
<1>20. ASSUME NEW u \in Thread \ {t}, x \notin Std PROVE ~Engaged(u, x)
  <2>1. CASE p.l = "k1"
    BY <1>2, <1>7, <1>20, <2>1 DEF AloneAt
  <2>2. CASE p.l = "n10"
    <3>1. Engaged(u, x) => Leaves(u, x)
      BY <1>2, <1>7, <2>2 DEF AloneAt, Nested
    <3>2. ~Leaves(u, x)
      BY <1>19 DEF Leaves
    <3> QED BY <3>1, <3>2
  <2> QED BY <1>5, <2>1, <2>2
<1>21. \A v \in Thread \ {t} : \A y \in Stream : Own(v, mtx[y])' = Own(v, mtx[y])
  <2> SUFFICES ASSUME NEW v \in Thread \ {t}, NEW y \in Stream PROVE Own(v, mtx[y])' = Own(v, mtx[y])
    OBVIOUS
  <2>1. CASE mtx'[y] = mtx[y]
    <3>1. mtx[y] \in Mutex \cup {None}
      BY <1>2 DEF TypeInv
    <3>2. PICK m \in Mutex \cup {None} : m = mtx[y]
      BY <3>1
    <3>3. Own(v, m)' = Own(v, m)
      BY <1>2, <1>12, OthersOwn
    <3> QED BY <2>1, <3>2, <3>3
  <2>2. CASE mtx'[y] # mtx[y]
    <3>1. y = x /\ mtx'[y] = None
      BY <1>14, <2>2
    <3>2. Own(v, mtx[y])' = 0
      BY <3>1 DEF Own
    <3> QED BY <1>19, <3>1, <3>2
  <2> QED BY <2>1, <2>2
\* The place behind the step.
<1> DEFINE k == IF p.l = "k1" THEN "k2" ELSE "n11"
<1> DEFINE q == To("on", k, p.f, p.g, p.n, LibMutex)
<1>22. q \in Place /\ q.ph = "on" /\ q.f = p.f /\ q.g = p.g /\ q.n = p.n
       /\ (p.l = "k1" => q.l = "k2") /\ (p.l = "n10" => q.l = "n11")
  BY <1>3, <1>5, ToIs, Names2 DEF Phase, Label, Two
<1> HIDE DEF q, k
<1>23. todo'[t] = Left(q)
  <2>1. Plan("k2", p.f, p.g, p.n) = K2(p.f) /\ Plan("n11", p.f, p.g, p.n) = N11(p.f, p.g)
    BY <1>4 DEF PlansAre
  <2>2. Left(q) = Plan(q.l, p.f, p.g, p.n)
    BY <1>22, LeftIs
  <2> QED BY <1>5, <1>8, <1>15, <1>22, <2>1, <2>2
<1>24. Goes(p, q)
  <2>1. Moves("k1", "k2") /\ Moves("n10", "n11")
    BY DEF Moves
  <2> QED BY <1>5, <1>22, <2>1 DEF Goes
<1>25. PushAt(q)' /\ HeldAt(t, q)' /\ PoolAt(t, q)' /\ RankAt(q)' /\ About(q) \subseteq About(p) /\ (q.l \in Two => q.f # q.g)
  BY <1>1, <1>2, <1>11, <1>16, <1>17, <1>22, <1>24, OwnMove
<1>26. \A y \in Stream : Engaged(t, y)' => Engaged(t, y)
  <2>1. q.ph # "on" => q.l \in Entry
    BY <1>22
  <2>2. q.ph = "take" => q.m \in {Asked(q)} \cup Spare
    BY <1>22
  <2> QED BY <1>1, <1>2, <1>17, <1>22, <1>23, <1>25, <2>1, <2>2, NoNewUse
<1>27. Modest(t)
  BY <1>10, <1>26, ModestBy
<1>28. \A v \in Thread \ {t} : \A y \in Stream : Leaves(v, y) => Leaves(v, y)'
  BY <1>15, <1>21 DEF Leaves
<1>29. LocksAt(t, q)'
  <2>1. ASSUME NEW y \in Stream PROVE held'[t][y] + Count(q, y) = Own(t, mtx[y])'
    <3>1. CASE y = x
      <4>1. Count(q, y) = 0
        BY <1>5, <1>7, <1>22, <3>1 DEF Count, CountF, CountG
      <4>2. Own(t, mtx[y])' = 0
        <5>1. CASE x \in Std
          <6>1. PICK m \in Mutex : m = mtx[x]
            BY <1>18
          <6>2. Own(t, m)' = 0
            BY <1>13, <6>1
          <6> QED BY <1>14, <3>1, <5>1, <6>1, <6>2
        <5>2. CASE x \notin Std
          BY <1>14, <3>1, <5>2 DEF Own
        <5> QED BY <5>1, <5>2
      <4> QED BY <1>15, <3>1, <4>1, <4>2
    <3>2. CASE y # x
      <4>1. Count(q, y) = Count(p, y)
        BY <1>5, <1>7, <1>22, <3>2 DEF Count, CountF, CountG
      <4>2. Own(t, mtx[y])' = Own(t, mtx[y])
        <5>1. mtx[y] \in Mutex \cup {None} /\ mtx'[y] = mtx[y]
          BY <1>2, <1>14, <3>2 DEF TypeInv
        <5>2. CASE mtx[y] = None
          BY <5>1, <5>2 DEF Own
        <5>3. CASE mtx[y] # None
          <6>1. PICK m \in Mutex : m = mtx[y]
            BY <5>1, <5>3
          <6>2. m # mtx[x]
            BY <1>2, <3>2, <5>3, <6>1, MutexOf
          <6>3. Own(t, m)' = Own(t, m)
            BY <1>13, <6>2
          <6> QED BY <5>1, <6>1, <6>3
        <5> QED BY <5>2, <5>3
      <4>3. held[t][y] + Count(p, y) = Own(t, mtx[y])
        BY <1>2 DEF LocksAt
      <4>4. held'[t][y] = held[t][y]
        BY <1>15, <3>2
      <4> QED BY <4>1, <4>2, <4>3, <4>4
    <3> QED BY <3>1, <3>2
  <2>2. Own(t, LibMutex)' = Own(t, LibMutex) /\ Own(t, PoolMutex)' = Own(t, PoolMutex)
    <3>1. mtx[x] # PoolMutex /\ mtx[x] # LibMutex
      BY <1>2, MutexOf
    <3> QED BY <1>13, <3>1, Names2
  <2>3. Own(t, LibMutex) = 0 /\ Own(t, PoolMutex) = 0
    BY <1>2, <1>5 DEF LocksAt
  <2> QED BY <1>5, <1>22, <2>1, <2>2, <2>3 DEF LocksAt
<1>30. Facts(t, q)'
  <2>1. At(t, q)'
    BY <1>5, <1>22, <1>23, <1>25 DEF At
  <2>2. MutexAt(t, q)'
    BY <1>5, <1>7, <1>14, <1>22 DEF MutexAt
  <2>3. TouchAt(t, q)'
    BY <1>2, <1>5, <1>11, <1>22 DEF TouchAt
  <2>4. ModeAt(q)'
    BY <1>2, <1>5, <1>11, <1>22 DEF ModeAt, Open0
  <2>5. AloneAt(t, q)'
    BY <1>2, <1>16, <1>22, <1>24, <1>28, OwnAlone
  <2> QED BY <1>25, <1>29, <2>1, <2>2, <2>3, <2>4, <2>5 DEF Facts
\* The streams.
<1>31. MutexInv'
  <2>1. \A y \in Stream : mtx'[y] \in {y, None} \cup Spare
    BY <1>2, <1>14 DEF MutexInv
  <2>2. \A y, z \in Stream : mtx'[y] # None /\ mtx'[y] = mtx'[z] => y = z
    BY <1>2, <1>14 DEF MutexInv
  <2>3. ASSUME NEW m \in Mutex, holder'[m] # None PROVE m \in {PoolMutex, LibMutex} \/ \E y \in Stream : mtx'[y] = m
    <3>1. m \in {PoolMutex, LibMutex} \/ \E y \in Stream : mtx[y] = m
      BY <1>2, <1>12, <2>3 DEF MutexInv
    <3>2. m # mtx[x]
      <4>1. holder[mtx[x]] = t
        BY <1>18 DEF Own
      <4>2. holder'[mtx[x]] # t
        BY <1>13, <1>18, Names2
      <4>3. holder'[mtx[x]] \in {None, t}
        BY <1>12, <1>18, <4>1, <4>2 DEF Mine
      <4> QED BY <2>3, <4>2, <4>3
    <3> QED BY <1>14, <3>1, <3>2
  <2>4. ASSUME NEW y \in Stream, NEW v \in Thread, NEW u \in Thread, mtx'[y] = None, Engaged(v, y)', Engaged(u, y)' PROVE v = u
    <3>1. Engaged(v, y) /\ Engaged(u, y)
      BY <1>16, <1>26, <2>4, OthersEngaged
    <3>2. CASE mtx[y] = None
      BY <1>2, <3>1, <3>2 DEF MutexInv
    <3>3. CASE mtx[y] # None
      <4>1. y = x /\ x \notin Std
        BY <1>14, <2>4, <3>3
      <4> QED BY <1>20, <3>1, <4>1
    <3> QED BY <3>2, <3>3
  <2> QED BY <2>1, <2>2, <2>3, <2>4 DEF MutexInv
<1>32. Keeps(t)
  <2>1. \A y \in Stream : mtx'[y] = mtx[y] \/ ~Pushed(y)
    BY <1>14, <1>18
  <2>2. order' \in Seq(Pool) /\ order' # <<>> /\ \A i, j \in DOMAIN order' : order'[i] = order'[j] => i = j
    BY <1>2, <1>11 DEF PoolInv
  <2>3. \A y \in Stream : Same(t, y) \/ Alters(t, y)
    <3>1. ClearsOf(todo[t]) = {}
      BY <1>2, <1>5, ClearsAt
    <3>2. \A y \in Stream : ~Parts(t, y)
      BY <1>10, NotParting
    <3> QED BY <1>11, <3>1, <3>2 DEF Same
  <2>4. \A y \in Stream : Engaged(t, y)' => Engaged(t, y) \/ "freed" \notin mode[y]
    BY <1>26
  <2> QED BY <1>2, <1>11, <1>17, <2>1, <2>2, <2>3, <2>4, KeepsBy
<1>33. \A u \in Thread \ {t} : \A r \in Place : Facts(u, r) => ModeAt(r)' /\ PoolAt(u, r)'
  BY <1>11, OthersPool DEF Facts, ModeAt, Open0
<1>34. \A y \in Stream : mtx'[y] = mtx[y] \/ \A u \in Thread \ {t} : ~Engaged(u, y)
  BY <1>14, <1>20
<1> QED BY <1>11, <1>12, <1>16, <1>21, <1>22, <1>27, <1>30, <1>31, <1>32, <1>33, <1>34, StepRemutex

LEMMA MakeStep == ASSUME LocksInv, NEW t \in Thread, Make(t) PROVE LocksInv'
<1>1. PICK p \in Place : Facts(t, p)
  BY DEF LocksInv, ThreadInv
<1>2. /\ SysInv /\ TypeInv /\ MutexInv /\ PushInv /\ PoolInv
      /\ At(t, p) /\ LocksAt(t, p) /\ MutexAt(t, p) /\ TouchAt(t, p) /\ ModeAt(p)
      /\ PushAt(p) /\ HeldAt(t, p) /\ PoolAt(t, p) /\ AloneAt(t, p) /\ RankAt(p)
  BY <1>1 DEF LocksInv, SysInv, Facts
<1>3. /\ p.ph \in Phase /\ p.l \in Label /\ p.f \in Stream /\ p.g \in Stream /\ p.n \in Nat /\ p.m \in Mutex
      /\ Asked(p) \in Stream /\ Asked(p) \in {p.f, p.g}
  BY PlaceIs
<1>4. p.ph = "make"
  <2>1. Doing(t, "make")
    BY DEF Make
  <2>2. p.ph = "make" \/ OpOf(p.l) = "make"
    BY <1>2, <2>1, DoingAt
  <2> QED BY <1>3, <2>2, OpLabels
<1>5. PICK x \in Stream : x = Asked(p)
  BY <1>3
<1>6. Head(todo[t]) = <<"make", x>> /\ Tail(todo[t]) = Then(<<"drop", LibMutex>>, Then(<<"lock", x>>, Plan(p.l, p.f, p.g, p.n)))
  BY <1>2, <1>4, <1>5, LeftIs DEF At
<1>7. It(t) = x /\ Head(todo[t])[1] = "make"
  BY <1>6 DEF It
<1>8. ~Doing(t, "unlock") /\ ~Doing(t, "swap") /\ ~Doing(t, "swapped")
  BY <1>7 DEF Doing
<1>9. PICK m \in Spare \ {mtx[f] : f \in Stream} : holder[m] = None /\ mtx' = [mtx EXCEPT ![x] = m]
  BY <1>7 DEF Make
<1>10. /\ todo' = [todo EXCEPT ![t] = Tail(@)] /\ locks' = locks /\ mode' = mode /\ push' = push /\ order' = order
       /\ touch' = touch /\ held' = held
  BY DEF Make, Done
<1>11. Only(t) /\ todo'[t] = Tail(todo[t]) /\ Mine(t) /\ holder' = holder /\ depth' = depth
  <2>1. DOMAIN todo = Thread
    BY <1>2 DEF TypeInv
  <2> QED BY <1>10, <2>1, LockIdle DEF Only, locks
<1>12. /\ mtx' \in [Stream -> Mutex \cup {None}] /\ mtx'[x] = m /\ \A y \in Stream : y # x => mtx'[y] = mtx[y]
       /\ m \in Mutex /\ m # None /\ mtx[x] = None
  <2>1. mtx \in [Stream -> Mutex \cup {None}]
    BY <1>2 DEF TypeInv
  <2>2. mtx[x] = None
    BY <1>2, <1>4, <1>5 DEF MutexAt
  <2> QED BY <1>9, <2>1, <2>2, Names2
<1>13. TypeInv'
  BY <1>2, <1>10, <1>11, <1>12 DEF TypeInv, Only
<1>14. \A v \in Thread : \A y \in Stream : Own(v, mtx[y])' = Own(v, mtx[y])
  <2> SUFFICES ASSUME NEW v \in Thread, NEW y \in Stream PROVE Own(v, mtx[y])' = Own(v, mtx[y])
    OBVIOUS
  <2>1. CASE y # x
    BY <1>11, <1>12, <2>1 DEF Own
  <2>2. CASE y = x
    <3>1. v # None
      BY Names2
    <3>2. Own(v, mtx[y])' = 0
      BY <1>9, <1>11, <1>12, <2>2, <3>1 DEF Own
    <3>3. Own(v, mtx[y]) = 0
      BY <1>12, <2>2 DEF Own
    <3> QED BY <3>2, <3>3
  <2> QED BY <2>1, <2>2
<1> DEFINE q == Phases(p, "drop", LibMutex)
<1>15. /\ q \in Place /\ q.ph = "drop" /\ q.l = p.l /\ q.f = p.f /\ q.g = p.g /\ q.n = p.n
       /\ Asked(q) = x /\ Plan(q.l, q.f, q.g, q.n) = Plan(p.l, p.f, p.g, p.n) /\ Goes(p, q) /\ TouchAt(t, q) /\ ModeAt(q)
  BY <1>1, <1>4, <1>5, PhaseIs, Names2 DEF Phase
<1> HIDE DEF q
<1>16. todo'[t] = Left(q)
  BY <1>6, <1>11, <1>15 DEF Left
<1>17. \A y \in Stream : held'[t][y] \in Nat
  BY <1>2, <1>10 DEF TypeInv
<1>18. PushAt(q)' /\ HeldAt(t, q)' /\ PoolAt(t, q)' /\ RankAt(q)' /\ About(q) \subseteq About(p) /\ (q.l \in Two => q.f # q.g)
  BY <1>1, <1>2, <1>10, <1>11, <1>15, <1>17, OwnMove
<1>19. p.l \in Entry
  BY <1>2, <1>4 DEF At
<1>20. \A y \in Stream : Engaged(t, y)' => Engaged(t, y)
  BY <1>1, <1>2, <1>10, <1>15, <1>16, <1>18, <1>19, NoNewUse
<1>21. Modest(t)
  BY <1>8, <1>20, ModestBy
<1>22. \A u \in Thread \ {t} : ~Engaged(u, x)
  <2>1. Engaged(t, x)
    <3>1. p.l \in {"st3", "n8", "p3"} => p.l \in Two
      BY DEF Two
    <3>2. x = p.f \/ (x = p.g /\ p.l \in {"st3", "n8", "p3"})
      BY <1>5 DEF Asked
    <3> QED BY <1>2, <1>4, <3>1, <3>2, EngagedAt
  <2> QED BY <1>2, <1>12, <2>1 DEF MutexInv
<1>23. Facts(t, q)'
  <2>1. At(t, q)'
    BY <1>15, <1>16, <1>18, <1>19 DEF At
  <2>2. LocksAt(t, q)'
    <3>1. \A y \in Stream : Count(q, y) = Count(p, y)
      BY <1>4, <1>5, <1>15 DEF Count
    <3>2. Own(t, LibMutex)' = Own(t, LibMutex) /\ Own(t, PoolMutex)' = Own(t, PoolMutex)
      BY <1>11 DEF Own
    <3> QED BY <1>2, <1>4, <1>10, <1>14, <1>15, <3>1, <3>2 DEF LocksAt
  <2>3. MutexAt(t, q)'
    BY <1>12, <1>15, <1>19 DEF MutexAt, Entry
  <2>4. TouchAt(t, q)'
    BY <1>10, <1>15 DEF TouchAt
  <2>5. ModeAt(q)'
    BY <1>10, <1>15 DEF ModeAt, Open0
  <2>6. AloneAt(t, q)'
    <3>1. \A v \in Thread \ {t} : \A y \in Stream : Leaves(v, y) => Leaves(v, y)'
      BY <1>11, <1>14 DEF Leaves, Only
    <3> QED BY <1>2, <1>11, <1>15, <3>1, OwnAlone
  <2> QED BY <1>18, <2>1, <2>2, <2>3, <2>4, <2>5, <2>6 DEF Facts
<1>24. MutexInv'
  <2>1. \A y \in Stream : mtx'[y] \in {y, None} \cup Spare
    BY <1>2, <1>9, <1>12 DEF MutexInv
  <2>2. \A y, z \in Stream : mtx'[y] # None /\ mtx'[y] = mtx'[z] => y = z
    BY <1>2, <1>9, <1>12 DEF MutexInv
  <2>3. \A k \in Mutex : holder'[k] # None => k \in {PoolMutex, LibMutex} \/ \E y \in Stream : mtx'[y] = k
    <3> SUFFICES ASSUME NEW k \in Mutex, holder[k] # None PROVE k \in {PoolMutex, LibMutex} \/ \E y \in Stream : mtx'[y] = k
      BY <1>11
    <3>1. k \in {PoolMutex, LibMutex} \/ \E y \in Stream : mtx[y] = k
      BY <1>2 DEF MutexInv
    <3>2. k # None
      BY Names2
    <3> QED BY <1>12, <3>1, <3>2
  <2>4. \A y \in Stream : \A v, u \in Thread : mtx'[y] = None /\ Engaged(v, y)' /\ Engaged(u, y)' => v = u
    <3>1. \A y \in Stream : \A v \in Thread : Engaged(v, y)' => Engaged(v, y)
      BY <1>11, <1>20, OthersEngaged
    <3>2. \A y \in Stream : mtx'[y] = None => mtx[y] = None
      BY <1>12
    <3> QED BY <1>2, <3>1, <3>2 DEF MutexInv
  <2> QED BY <2>1, <2>2, <2>3, <2>4 DEF MutexInv
<1>25. Keeps(t)
  <2>1. \A y \in Stream : mtx'[y] = mtx[y] \/ ~Pushed(y)
    BY <1>2, <1>12 DEF PushInv
  <2>2. order' \in Seq(Pool) /\ order' # <<>> /\ \A i, j \in DOMAIN order' : order'[i] = order'[j] => i = j
    BY <1>2, <1>10 DEF PoolInv
  <2>3. \A y \in Stream : Same(t, y) \/ Alters(t, y)
    <3>1. ClearsOf(todo[t]) = ClearsOf(todo'[t])
      <4>1. At(t, q)' /\ At(t, p)
        BY <1>2, <1>23 DEF Facts
      <4>2. ClearsOf(Left(p)) = ClearsOf(Left(q))
        BY <1>15, LeftClears
      <4> QED BY <1>2, <1>16, <4>2 DEF At
    <3>2. \A y \in Stream : ~Parts(t, y)
      BY <1>8, NotParting
    <3> QED BY <1>10, <3>1, <3>2 DEF Same
  <2>4. \A y \in Stream : Engaged(t, y)' => Engaged(t, y) \/ "freed" \notin mode[y]
    BY <1>20
  <2> QED BY <1>2, <1>10, <2>1, <2>2, <2>3, <2>4, KeepsBy
<1>26. \A u \in Thread \ {t} : \A r \in Place : Facts(u, r) => ModeAt(r)' /\ PoolAt(u, r)'
  BY <1>10, OthersPool DEF Facts, ModeAt, Open0
<1>27. \A y \in Stream : mtx'[y] = mtx[y] \/ \A u \in Thread \ {t} : ~Engaged(u, y)
  BY <1>12, <1>22
<1> QED BY <1>10, <1>11, <1>13, <1>14, <1>15, <1>21, <1>23, <1>24, <1>25, <1>26, <1>27, StepRemutex

----------------------------------------------------------------------------
(* The application between two calls.                                      *)

LEMMA OpenStep == ASSUME LocksInv, NEW t \in Thread, Open(t) PROVE LocksInv'
<1>1. PICK p \in Place : Facts(t, p)
  BY DEF LocksInv, ThreadInv
<1>2. /\ SysInv /\ TypeInv /\ MutexInv /\ PushInv /\ PoolInv /\ FreedInv /\ LockInv
      /\ At(t, p) /\ LocksAt(t, p) /\ MutexAt(t, p) /\ TouchAt(t, p) /\ ModeAt(p)
      /\ PushAt(p) /\ HeldAt(t, p) /\ PoolAt(t, p) /\ AloneAt(t, p) /\ RankAt(p)
  BY <1>1 DEF LocksInv, SysInv, Facts
<1>3. p.ph = "on" /\ p.l = "idle"
  BY <1>2, IdleAt DEF Open
<1>4. todo[t] = <<>> /\ ~Doing(t, "unlock") /\ ~Doing(t, "swap") /\ ~Doing(t, "swapped")
  BY DEF Open, Idle, Doing
<1>5. PICK x \in Stream :
        /\ mode[x] \in {{"avail"}, {"freed"}} /\ ~InUse(t, x) /\ mode' = [mode EXCEPT ![x] = {}]
        /\ \/ mtx[x] # None /\ UNCHANGED mtx
           \/ mtx[x] = None /\ holder[x] = None /\ mtx' = [mtx EXCEPT ![x] = x]
  BY DEF Open
<1>6. /\ locks' = locks /\ push' = push /\ order' = order /\ touch' = touch /\ held' = held /\ todo' = todo
      /\ holder' = holder /\ depth' = depth
  BY DEF Open, locks
<1>7. Only(t) /\ Mine(t)
  BY <1>2, <1>6, LockIdle DEF Only, TypeInv
<1>8. /\ mtx' \in [Stream -> Mutex \cup {None}] /\ \A y \in Stream : y # x \/ mtx[x] # None => mtx'[y] = mtx[y]
      /\ mtx[x] = None => mtx'[x] = x /\ holder[x] = None
      /\ x # None /\ x \in Mutex
  <2>1. mtx \in [Stream -> Mutex \cup {None}]
    BY <1>2 DEF TypeInv
  <2> QED BY <1>5, <2>1, Names2
<1>9. mode'[x] = {} /\ (\A y \in Stream : y # x => mode'[y] = mode[y])
      /\ mode' \in [Stream -> SUBSET {"lock", "push", "pool", "avail", "freed"}]
  BY <1>2, <1>5 DEF TypeInv
<1>10. TypeInv'
  BY <1>2, <1>6, <1>8, <1>9 DEF TypeInv
<1>11. \A v \in Thread : \A y \in Stream : Own(v, mtx[y])' = Own(v, mtx[y])
  <2> SUFFICES ASSUME NEW v \in Thread, NEW y \in Stream PROVE Own(v, mtx[y])' = Own(v, mtx[y])
    OBVIOUS
  <2>1. CASE mtx'[y] = mtx[y]
    BY <1>6, <2>1 DEF Own
  <2>2. CASE mtx'[y] # mtx[y]
    <3>1. y = x /\ mtx[y] = None /\ mtx'[y] = x /\ holder[x] = None /\ v # None
      BY <1>8, <2>2, Names2
    <3> QED BY <1>6, <3>1 DEF Own
  <2> QED BY <2>1, <2>2
<1>12. \A y \in Stream : \A v \in Thread : Engaged(v, y)' <=> Engaged(v, y)
  BY <1>6 DEF Engaged, Using
<1>13. \A u \in Thread \ {t} : ~Engaged(u, x)
  BY <1>5 DEF InUse, Engaged
<1>14. Modest(t)
  BY <1>4, <1>12, ModestBy
<1>15. ~Pushed(x) /\ x \notin Pool
  BY <1>2, <1>5 DEF PushInv, PoolInv, Open0
<1>16. Facts(t, p)'
  <2>1. At(t, p)'
    BY <1>2, <1>6 DEF At
  <2>2. LocksAt(t, p)'
    <3>1. Own(t, LibMutex)' = Own(t, LibMutex) /\ Own(t, PoolMutex)' = Own(t, PoolMutex)
      BY <1>6 DEF Own
    <3> QED BY <1>2, <1>6, <1>11, <3>1 DEF LocksAt
  <2>3. MutexAt(t, p)' /\ PushAt(p)' /\ ModeAt(p)' /\ RankAt(p)' /\ AloneAt(t, p)'
    BY <1>3 DEF MutexAt, PushAt, ModeAt, RankAt, AloneAt, Nested
  <2>4. TouchAt(t, p)' /\ HeldAt(t, p)' /\ PoolAt(t, p)'
    BY <1>2, <1>6 DEF TouchAt, HeldAt, PoolAt
  <2> QED BY <2>1, <2>2, <2>3, <2>4 DEF Facts
<1>17. MutexInv'
  <2>1. \A y \in Stream : mtx'[y] \in {y, None} \cup Spare
    BY <1>2, <1>8 DEF MutexInv
  <2>2. ASSUME NEW y \in Stream, NEW z \in Stream, mtx'[y] # None, mtx'[y] = mtx'[z] PROVE y = z
    <3>1. Spare \cap Stream = {}
      BY Names2
    <3>2. \A w \in Stream : mtx[w] = x => w = x
      BY <1>2, <3>1, Names2 DEF MutexInv
    <3> QED BY <1>2, <1>8, <2>2, <3>2 DEF MutexInv
  <2>3. \A k \in Mutex : holder'[k] # None => k \in {PoolMutex, LibMutex} \/ \E y \in Stream : mtx'[y] = k
    <3> SUFFICES ASSUME NEW k \in Mutex, holder[k] # None PROVE k \in {PoolMutex, LibMutex} \/ \E y \in Stream : mtx'[y] = k
      BY <1>6
    <3>1. k \in {PoolMutex, LibMutex} \/ \E y \in Stream : mtx[y] = k
      BY <1>2 DEF MutexInv
    <3>2. k # None
      BY Names2
    <3> QED BY <1>8, <3>1, <3>2
  <2>4. \A y \in Stream : \A v, u \in Thread : mtx'[y] = None /\ Engaged(v, y)' /\ Engaged(u, y)' => v = u
    <3>1. \A y \in Stream : mtx'[y] = None => mtx[y] = None
      BY <1>8
    <3> QED BY <1>2, <1>12, <3>1 DEF MutexInv
  <2> QED BY <2>1, <2>2, <2>3, <2>4 DEF MutexInv
<1>18. Keeps(t)
  <2>1. \A y \in Stream : mtx'[y] = mtx[y] \/ ~Pushed(y)
    BY <1>8, <1>15
  <2>2. order' \in Seq(Pool) /\ order' # <<>> /\ \A i, j \in DOMAIN order' : order'[i] = order'[j] => i = j
    BY <1>2, <1>6 DEF PoolInv
  <2>3. \A y \in Stream : Same(t, y) \/ Alters(t, y)
    <3>1. \A y \in Stream : ~Parts(t, y)
      BY <1>4, NotParting
    <3>2. \A y \in Stream : y # x => Same(t, y)
      BY <1>6, <1>9, <3>1 DEF Same
    <3>3. Alters(t, x)
      BY <1>6, <1>9, <1>15 DEF Alters
    <3> QED BY <3>2, <3>3
  <2>4. ASSUME NEW y \in Stream, Engaged(t, y)' PROVE Engaged(t, y) \/ "freed" \notin mode[y]
    BY <1>12, <2>4
  <2> QED BY <1>2, <1>6, <2>1, <2>2, <2>3, <2>4, KeepsBy
<1>19. \A u \in Thread \ {t} : \A r \in Place : Facts(u, r) => ModeAt(r)' /\ PoolAt(u, r)'
  <2>1. \A y \in Stream : Lawful(t, y)
    BY <1>5, <1>9 DEF Lawful, Open0
  <2> QED BY <1>6, <2>1, OthersLawful, OthersPool DEF Facts
<1>20. \A y \in Stream : mtx'[y] = mtx[y] \/ \A u \in Thread \ {t} : ~Engaged(u, y)
  BY <1>8, <1>13
<1> QED BY <1>6, <1>7, <1>10, <1>11, <1>14, <1>16, <1>17, <1>18, <1>19, <1>20, StepRemutex

\* A stream that the application names for a call.
LEMMA Named ==
  ASSUME LocksInv, Careful, NEW t \in Thread, NEW x \in Stream, Names(t, x)
  PROVE  /\ "freed" \notin mode[x] /\ ~Pushed(x) /\ Welcome(t, x)
         /\ mtx[x] # None \/ \A u \in Thread \ {t} : ~Engaged(u, x)
         /\ \A g \in Stream : held[t][g] > 0 => g = x
<1>1. FreedInv
  BY DEF LocksInv, SysInv
<1>2. Habits = {}
  BY DEF Careful
<1>3. "freed" \notin mode[x]
  BY <1>1, Names2 DEF Names, FreedInv
<1>4. ~Pushed(x) /\ ~Pushing(t, x) /\ (x \in Std \/ ~Closing(t, x)) /\ (mtx[x] # None \/ ~InUse(t, x))
  BY <1>2 DEF Names
<1>5. Welcome(t, x)
  <2> SUFFICES ASSUME NEW u \in Thread \ {t}, NEW q \in Place, Facts(u, q), Claims(q, x) PROVE FALSE
    BY DEF Welcome
  <2>1. At(u, q) /\ PoolAt(u, q)
    BY DEF Facts
  <2>2. /\ q.l \in Nested \cup {"cl2", "cl3", "k1", "k2"} /\ x = q.f => Closing(t, x)
        /\ q.l \in Nested /\ x = q.g => Closing(t, x)
        /\ q.l \in {"st2", "st3", "st4", "st5", "st6", "st7"} /\ x = q.g => Pushing(t, x)
    BY <2>1, ClaimsShow
  <2>3. q.l \in Nested => q.g \notin Std
    BY <2>1 DEF PoolAt, Nested, Two
  <2> QED BY <1>4, <2>2, <2>3 DEF Claims
<1>6. mtx[x] # None \/ \A u \in Thread \ {t} : ~Engaged(u, x)
  BY <1>4 DEF InUse, Engaged
<1>7. \A g \in Stream : held[t][g] > 0 => g = x
  BY DEF Names
<1> QED BY <1>3, <1>4, <1>5, <1>6, <1>7

\* A call begins, with the lock of its first stream.
LEMMA Begins ==
  ASSUME LocksInv, Careful, NEW t \in Thread, Idle(t), UNCHANGED <<locks, streams>>, TypeInv', Only(t),
         NEW q \in Place, todo'[t] = Left(q), q.ph = "lock", q.l \in {"idle", "io2", "st2", "pop2", "cl2"}, Names(t, q.f),
         \A x \in Stream : held'[t][x] + Count(q, x) = held[t][x] /\ (held'[t][x] > 0 => x = q.f),
         q.f \in Pool => q.l = "io2" /\ MayPool(t),
         q.l = "st2" => /\ q.f # q.g /\ q.g \notin Std \cup Pool /\ Names(t, q.g) /\ \A u \in Thread \ {t} : ~Engaged(u, q.g)
                        /\ Ordered => Rank[q.f] < Rank[q.g],
         q.l = "cl2" /\ q.f \notin Std => \A u \in Thread \ {t} : ~Engaged(u, q.f)
  PROVE  LocksInv'
<1>1. PICK p \in Place : Facts(t, p)
  BY DEF LocksInv, ThreadInv
<1>2. /\ SysInv /\ TypeInv /\ PushInv /\ PoolInv /\ FreedInv
      /\ At(t, p) /\ LocksAt(t, p) /\ TouchAt(t, p)
  BY <1>1 DEF LocksInv, SysInv, Facts
<1>3. p.ph = "on" /\ p.l = "idle"
  BY <1>2, IdleAt
<1>4. q.f \in Stream /\ q.g \in Stream
  BY PlaceIs
<1>5. todo[t] = <<>> /\ \A x \in Stream : ~Parts(t, x) /\ x \notin ClearsOf(todo[t])
  BY EmptyHas DEF Idle, Parts
<1>6. /\ mtx' = mtx /\ mode' = mode /\ push' = push /\ order' = order /\ touch' = touch /\ holder' = holder /\ depth' = depth
      /\ locks' = locks
  BY DEF streams, locks
<1>7. Mine(t)
  BY <1>6, LockIdle
<1>8. About(q) = {q.f} \cup (IF q.l = "st2" THEN {q.g} ELSE {}) /\ Asked(q) = q.f /\ (q.l \in Two <=> q.l = "st2") /\ q.l \in Entry
  BY DEF About, Asked, Two, Entry
<1>9. \A x \in Stream : Engaged(t, x)' => Names(t, x)
  <2>1. \A x \in Stream : Engaged(t, x)' => x \in About(q) \/ held'[t][x] > 0
    BY <1>8, NewUses
  <2> QED BY <1>8, <2>1
<1>10. \A x \in Stream : Engaged(t, x)' =>
         "freed" \notin mode[x] /\ Welcome(t, x) /\ (mtx[x] # None \/ \A u \in Thread \ {t} : ~Engaged(u, x))
  BY <1>9, Named
<1>11. Modest(t)
  BY <1>10 DEF Modest
<1>12. Keeps(t)
  <2>1. \A x \in Stream : Pushed(x) => mtx[x] # None /\ Open0(x)
    BY <1>2 DEF PushInv
  <2>2. \A x \in Stream : x \in Pool => Open0(x)
    BY <1>2 DEF PoolInv
  <2>3. \A x \in Stream : Pushed(x) \/ x \in Pool => (held'[t][x] > 0 => held[t][x] > 0)
    <3> SUFFICES ASSUME NEW x \in Stream, Pushed(x) \/ x \in Pool, held'[t][x] > 0 PROVE held[t][x] > 0
      OBVIOUS
    <3>1. x = q.f /\ ~Pushed(q.f)
      BY <1>4, Named
    <3>2. q.l = "io2"
      BY <3>1
    <3>3. Count(q, x) = 0 \/ x = q.g
      BY <1>8, <3>1, <3>2 DEF Count, CountF, CountG
    <3>4. Count(q, x) = 0
      BY <1>8, <3>1, <3>2 DEF Count, CountF, CountG
    <3> QED BY <1>2, <3>4 DEF TypeInv
  <2>4. order' \in Seq(Pool) /\ order' # <<>> /\ \A i, j \in DOMAIN order' : order'[i] = order'[j] => i = j
    BY <1>2, <1>6 DEF PoolInv
  <2>5. ASSUME NEW x \in Stream
        PROVE  /\ Pushed(x) => mtx'[x] # None
               /\ Pushed(x) \/ x \in Pool => Open0(x)' /\ (held'[t][x] > 0 => held[t][x] > 0)
    BY <1>6, <2>1, <2>2, <2>3 DEF Open0
  <2>6. ASSUME NEW x \in Stream
        PROVE  /\ "push" \in mode'[x] => "push" \in mode[x]
               /\ Pushed(x) /\ "push" \notin mode'[x] => Parts(t, x)' \/ ("push" \notin mode[x] /\ ~Parts(t, x))
               /\ touch'[x] \ {t} = touch[x] \ {t} /\ (t \in touch'[x] => t \in touch[x] \/ touch[x] = {})
    BY <1>5, <1>6
  <2>7. ASSUME NEW x \in Stream
        PROVE  /\ "lock" \in mode'[x] => \/ t \in touch'[x] \/ x \in ClearsOf(todo'[t])
                                         \/ "lock" \in mode[x] /\ t \notin touch[x] /\ x \notin ClearsOf(todo[t])
               /\ Engaged(t, x)' => Engaged(t, x) \/ "freed" \notin mode[x]
               /\ "freed" \in mode'[x] => "freed" \in mode[x]
    BY <1>5, <1>6, <1>10
  <2> QED BY <1>6, <2>4, <2>5, <2>6, <2>7 DEF Keeps
<1>13. Facts(t, q)'
  <2>1. At(t, q)'
    BY <1>8 DEF At
  <2>2. LocksAt(t, q)'
    <3>1. \A x \in Stream : Own(t, mtx[x])' = Own(t, mtx[x])
      BY <1>6 DEF Own
    <3>2. Own(t, LibMutex)' = Own(t, LibMutex) /\ Own(t, PoolMutex)' = Own(t, PoolMutex)
      BY <1>6 DEF Own
    <3>3. \A x \in Stream : Count(p, x) = 0
      BY <1>3, PlaceIs DEF Count, CountF, CountG
    <3>4. \A x \in Stream : held[t][x] + 0 = Own(t, mtx[x])
      BY <1>2, <3>3 DEF LocksAt
    <3>5. \A x \in Stream : held[t][x] = Own(t, mtx[x])
      BY <1>2, <3>4 DEF TypeInv
    <3>6. Own(t, LibMutex) = 0 /\ Own(t, PoolMutex) = 0
      BY <1>2, <1>3 DEF LocksAt
    <3> QED BY <3>1, <3>2, <3>5, <3>6 DEF LocksAt
  <2>3. MutexAt(t, q)' /\ ModeAt(q)'
    BY DEF MutexAt, ModeAt
  <2>4. PushAt(q)'
    <3>1. ~Pushed(q.f) /\ (q.l = "st2" => ~Pushed(q.g))
      BY <1>4, Named
    <3> QED BY <1>6, <3>1 DEF PushAt, Pushed
  <2>5. TouchAt(t, q)'
    BY <1>2, <1>3, <1>6 DEF TouchAt
  <2>6. HeldAt(t, q)'
    BY DEF HeldAt
  <2>7. PoolAt(t, q)'
    BY <1>8 DEF PoolAt
  <2>8. RankAt(q)'
    BY DEF RankAt
  <2>9. AloneAt(t, q)'
    <3>1. \A u \in Thread \ {t} : \A x \in Stream : Engaged(u, x)' <=> Engaged(u, x)
      BY OthersEngaged
    <3>2. q.l \notin Nested
      BY DEF Nested
    <3> QED BY <1>4, <3>1, <3>2 DEF AloneAt
  <2> QED BY <2>1, <2>2, <2>3, <2>4, <2>5, <2>6, <2>7, <2>8, <2>9 DEF Facts
<1>14. \A u \in Thread \ {t} : \A r \in Place : Facts(u, r) => ModeAt(r)' /\ PoolAt(u, r)'
  BY <1>6, OthersPool DEF Facts, ModeAt, Open0
<1> QED BY <1>6, <1>7, <1>10, <1>11, <1>12, <1>13, <1>14, StepTakes

LEMMA CallStep == ASSUME LocksInv, Careful, NEW t \in Thread, Call(t) PROVE LocksInv'
<1>1. PICK c \in Calls[t] :
       /\ c[1] \in {"io", "stack", "pop", "close"} /\ Names(t, c[2])
       /\ c[1] = "stack" => Names(t, c[3]) /\ ~InUse(t, c[3])
       /\ c[1] = "close" /\ c[2] \notin Std => "closeused" \in Habits \/ ~InUse(t, c[2])
       /\ todo' = [todo EXCEPT ![t] = Steps(c)]
  BY DEF Call
<1>2. Idle(t) /\ UNCHANGED <<locks, streams>> /\ held' = held
  BY DEF Call
<1>3. TypeInv /\ PoolInv
  BY DEF LocksInv, SysInv
<1>4. Only(t) /\ todo'[t] = Steps(c)
  BY <1>1, <1>2, <1>3 DEF Only, TypeInv
<1>5. TypeInv'
  BY <1>2, <1>3, <1>4, StillType
<1>6. PICK f \in Stream : f = c[2]
  BY CallsAssumption
<1>7. c[1] = "stack" => c[3] \in Stream
  BY CallsAssumption
<1>8. PICK g \in Stream : c[1] = "stack" => g = c[3]
  BY <1>6, <1>7
<1>9. f \in Pool => c[1] = "io" /\ MayPool(t)
  BY <1>6 DEF Careful, MayPool
<1>10. c[1] = "stack" => g \notin Std \cup Pool /\ f # g
  BY <1>6, <1>8 DEF Careful
<1>11. c[1] = "stack" => (Ordered => Rank[f] < Rank[g])
  <2> SUFFICES ASSUME c[1] = "stack", Ordered PROVE Rank[f] < Rank[g]
    OBVIOUS
  <2> DEFINE R(r) == /\ IsRank(r)
                     /\ \A u \in Thread : \A d \in Calls[u] : d[1] = "stack" => r[d[2]] < r[d[3]]
  <2>1. \E r : R(r)
    BY DEF Ordered
  <2>2. R(CHOOSE r : R(r))
    BY <2>1
  <2>3. R(Rank)
    BY <2>2 DEF Rank
  <2> QED BY <1>6, <1>8, <2>3
<1>12. /\ c[1] = "stack" => Names(t, g) /\ \A u \in Thread \ {t} : ~Engaged(u, g)
       /\ c[1] = "close" /\ f \notin Std => \A u \in Thread \ {t} : ~Engaged(u, f)
       /\ Names(t, f)
  <2>1. Habits = {}
    BY DEF Careful
  <2>2. \A x \in Stream : ~InUse(t, x) => \A u \in Thread \ {t} : ~Engaged(u, x)
    BY DEF InUse, Engaged
  <2> QED BY <1>1, <1>6, <1>8, <2>1, <2>2
<1>13. \A x \in Stream : held[t][x] \in Nat /\ (held[t][x] > 0 => x = f)
  BY <1>3, <1>12, Named DEF TypeInv
<1> DEFINE l == IF c[1] = "io" THEN "io2" ELSE IF c[1] = "stack" THEN "st2" ELSE IF c[1] = "pop" THEN "pop2" ELSE "cl2"
           q == To("lock", l, f, g, 1, LibMutex)
<1>14. l \in Label
  BY DEF Label, Two
<1>15. q \in Place /\ q.ph = "lock" /\ q.l = l /\ q.f = f /\ q.g = g
  BY <1>14, ToIs, Names2 DEF Phase
<1>16. /\ l \in {"io2", "st2", "pop2", "cl2"} /\ (l = "io2" <=> c[1] = "io") /\ (l = "st2" <=> c[1] = "stack")
       /\ (l = "cl2" <=> c[1] = "close") /\ (l = "pop2" <=> c[1] = "pop")
  BY <1>1
<1>17. Left(q) = Then(<<"lock", f>>, Plan(l, f, g, q.n))
  BY <1>15, <1>16 DEF Left, Asked
<1> HIDE DEF l, q
<1>18. todo'[t] = Left(q)
  <2>1. CASE l = "io2"
    <3>1. Steps(c) = <<<<"lock", f>>, <<"check", f>>, <<"enter", f>>, <<"leave", f>>, <<"unlock", f>>>>
      BY <1>6, <1>16, <2>1 DEF Steps, Io
    <3>2. PICK a, b, h, d, e : a = <<"lock", f>> /\ b = <<"check", f>> /\ h = <<"enter", f>> /\ d = <<"leave", f>> /\ e = <<"unlock", f>>
      OBVIOUS
    <3>3. Steps(c) = <<a, b, h, d, e>>
      BY <3>1, <3>2
    <3>4. Steps(c) = Then(a, Then(b, Then(h, Then(d, Then(e, <<>>)))))
      BY <3>3, EmptyIs, Cat5
    <3>5. Plan(l, f, g, q.n) = Then(b, Then(h, Then(d, Then(e, <<>>))))
      BY <2>1, <3>2 DEF Plan, Io3, Io4, UnlockF
    <3> QED BY <1>4, <1>17, <3>2, <3>4, <3>5
  <2>2. CASE l = "st2"
    <3>1. Steps(c) = <<<<"lock", f>>, <<"lock", g>>, <<"check", f>>, <<"check", g>>,
                       <<"stack", f, g>>, <<"unlock", f>>, <<"unlock", g>>>>
      BY <1>6, <1>8, <1>16, <2>2 DEF Steps
    <3>2. PICK a, b, h, d, e, i, j : a = <<"lock", f>> /\ b = <<"lock", g>> /\ h = <<"check", f>> /\ d = <<"check", g>> /\ e = <<"stack", f, g>> /\ i = <<"unlock", f>> /\ j = <<"unlock", g>>
      OBVIOUS
    <3>3. Steps(c) = <<a, b, h, d, e, i, j>>
      BY <3>1, <3>2
    <3>4. Steps(c) = Then(a, Then(b, Then(h, Then(d, Then(e, Then(i, Then(j, <<>>)))))))
      BY <3>3, EmptyIs, Cat7
    <3>5. Plan(l, f, g, q.n) = Then(b, Then(h, Then(d, Then(e, Then(i, Then(j, <<>>))))))
      BY <2>2, <3>2 DEF Plan, St3, St4, St5, UnlockFG, UnlockF
    <3> QED BY <1>4, <1>17, <3>2, <3>4, <3>5
  <2>3. CASE l = "pop2"
    <3>1. Steps(c) = <<<<"lock", f>>, <<"check", f>>, <<"pop", f>>, <<"unlock", f>>>>
      BY <1>6, <1>16, <2>3 DEF Steps
    <3>2. PICK a, b, h, d : a = <<"lock", f>> /\ b = <<"check", f>> /\ h = <<"pop", f>> /\ d = <<"unlock", f>>
      OBVIOUS
    <3>3. Steps(c) = <<a, b, h, d>>
      BY <3>1, <3>2
    <3>4. Steps(c) = Then(a, Then(b, Then(h, Then(d, <<>>))))
      BY <3>3, EmptyIs, Cat4
    <3>5. Plan(l, f, g, q.n) = Then(b, Then(h, Then(d, <<>>)))
      BY <2>3, <3>2 DEF Plan, Pop3, UnlockF
    <3> QED BY <1>4, <1>17, <3>2, <3>4, <3>5
  <2>4. CASE l = "cl2"
    <3>1. Steps(c) = <<<<"lock", f>>, <<"check", f>>, <<"closing", f>>, <<"unlock", f>>>>
      BY <1>6, <1>16, <2>4 DEF Steps
    <3>2. PICK a, b, h, d : a = <<"lock", f>> /\ b = <<"check", f>> /\ h = <<"closing", f>> /\ d = <<"unlock", f>>
      OBVIOUS
    <3>3. Steps(c) = <<a, b, h, d>>
      BY <3>1, <3>2
    <3>4. Steps(c) = Then(a, Then(b, Then(h, Then(d, <<>>))))
      BY <3>3, EmptyIs, Cat4
    <3>5. Plan(l, f, g, q.n) = Then(b, Then(h, Then(d, <<>>)))
      BY <2>4, <3>2 DEF Plan, Cl3, UnlockF
    <3> QED BY <1>4, <1>17, <3>2, <3>4, <3>5
  <2> QED BY <1>16, <2>1, <2>2, <2>3, <2>4
<1>19. \A x \in Stream : held'[t][x] + Count(q, x) = held[t][x] /\ (held'[t][x] > 0 => x = q.f)
  <2>1. \A x \in Stream : Count(q, x) = 0
    BY <1>15, <1>16 DEF Count, CountF, CountG, Asked
  <2> QED BY <1>2, <1>13, <1>15, <2>1
<1>20. q.f \in Pool => q.l = "io2" /\ MayPool(t)
  BY <1>9, <1>15, <1>16
<1>21. q.l = "st2" => /\ q.f # q.g /\ q.g \notin Std \cup Pool /\ Names(t, q.g) /\ \A u \in Thread \ {t} : ~Engaged(u, q.g)
                      /\ Ordered => Rank[q.f] < Rank[q.g]
  BY <1>10, <1>11, <1>12, <1>15, <1>16
<1>22. q.l = "cl2" /\ q.f \notin Std => \A u \in Thread \ {t} : ~Engaged(u, q.f)
  BY <1>12, <1>15, <1>16
<1> QED BY <1>2, <1>4, <1>5, <1>12, <1>15, <1>16, <1>18, <1>19, <1>20, <1>21, <1>22, Begins

LEMMA HoldItStep == ASSUME LocksInv, Careful, NEW t \in Thread, HoldIt(t) PROVE LocksInv'
<1>1. PICK f \in Stream :
       /\ <<"lock", f>> \in Calls[t] /\ Names(t, f)
       /\ todo' = [todo EXCEPT ![t] = <<<<"lock", f>>>>] /\ held' = [held EXCEPT ![t][f] = @ + 1]
  BY DEF HoldIt
<1>2. Idle(t) /\ UNCHANGED <<locks, streams>>
  BY DEF HoldIt
<1>3. TypeInv /\ PoolInv
  BY DEF LocksInv, SysInv
<1>4. /\ held' \in [Thread -> [Stream -> Nat]] /\ held'[t][f] = held[t][f] + 1 /\ \A x \in Stream : held[t][x] \in Nat
      /\ \A x \in Stream : x # f => held'[t][x] = held[t][x]
      /\ \A u \in Thread : u # t => held'[u] = held[u]
  BY <1>1, <1>3 DEF TypeInv
<1>5. Only(t) /\ todo'[t] = <<<<"lock", f>>>> /\ DOMAIN todo' = Thread
  BY <1>1, <1>3, <1>4 DEF Only, TypeInv
<1>6. TypeInv'
  BY <1>2, <1>3, <1>4, <1>5 DEF TypeInv, locks, streams
<1>7. f \notin Pool
  BY <1>1 DEF Careful
<1>8. \A x \in Stream : held[t][x] > 0 => x = f
  BY <1>1, Named
<1> DEFINE q == To("lock", "idle", f, f, 1, LibMutex)
<1>9. q \in Place /\ q.ph = "lock" /\ q.l = "idle" /\ q.f = f /\ q.g = f
  BY ToIs, Names2 DEF Phase, Label
<1> HIDE DEF q
<1>10. todo'[t] = Left(q)
  <2>1. Left(q) = Then(<<"lock", f>>, <<>>)
    BY <1>9 DEF Left, Asked, Plan
  <2> QED BY <1>5, <2>1, Cat1, EmptyIs
<1>11. \A x \in Stream : held'[t][x] + Count(q, x) = held[t][x] /\ (held'[t][x] > 0 => x = q.f)
  <2>1. \A x \in Stream : Count(q, x) = IF x = f THEN 0 - 1 ELSE 0
    BY <1>9 DEF Count, CountF, CountG, Asked
  <2> QED BY <1>4, <1>8, <1>9, <2>1
<1> QED BY <1>1, <1>2, <1>5, <1>6, <1>7, <1>9, <1>10, <1>11, Begins

LEMMA LetGoStep == ASSUME LocksInv, NEW t \in Thread, LetGo(t) PROVE LocksInv'
<1>1. PICK p \in Place : Facts(t, p)
  BY DEF LocksInv, ThreadInv
<1>2. /\ SysInv /\ TypeInv /\ MutexInv /\ PushInv /\ PoolInv
      /\ At(t, p) /\ LocksAt(t, p) /\ TouchAt(t, p)
  BY <1>1 DEF LocksInv, SysInv, Facts
<1>3. p.ph = "on" /\ p.l = "idle"
  BY <1>2, IdleAt DEF LetGo
<1>4. todo[t] = <<>> /\ ~Doing(t, "unlock") /\ ~Doing(t, "swap") /\ ~Doing(t, "swapped")
  BY DEF LetGo, Idle, Doing
<1>5. PICK f \in Stream : held[t][f] > 0 /\ Drop(t, mtx[f]) /\ held' = [held EXCEPT ![t][f] = @ - 1]
  BY DEF LetGo
<1>6. mtx' = mtx /\ mode' = mode /\ push' = push /\ order' = order /\ touch' = touch /\ todo' = todo
  BY DEF LetGo, streams
<1>7. /\ held' \in [Thread -> [Stream -> Nat]] /\ held'[t][f] = held[t][f] - 1 /\ \A x \in Stream : held[t][x] \in Nat
      /\ \A x \in Stream : x # f => held'[t][x] = held[t][x]
      /\ \A u \in Thread : u # t => held'[u] = held[u]
  BY <1>2, <1>5 DEF TypeInv
<1>8. \A x \in Stream : held[t][x] = Own(t, mtx[x])
  <2>1. \A x \in Stream : Count(p, x) = 0
    BY <1>3, PlaceIs DEF Count, CountF, CountG
  <2>2. \A x \in Stream : held[t][x] + 0 = Own(t, mtx[x])
    BY <1>2, <2>1 DEF LocksAt
  <2> QED BY <1>7, <2>2
<1>9. Own(t, mtx[f]) > 0 /\ mtx[f] \in Mutex
  <2>1. Own(t, mtx[f]) > 0
    BY <1>5, <1>8
  <2>2. mtx[f] # None
    BY <2>1 DEF Own
  <2> QED BY <1>2, <2>1, <2>2 DEF TypeInv
<1>10. /\ Mine(t) /\ \A k \in Mutex : holder'[k] # None => holder[k] # None
       /\ holder' \in [Mutex -> Thread \cup {None}] /\ depth' \in [Mutex -> Nat]
       /\ \A k \in Mutex : holder'[k] = None <=> depth'[k] = 0
       /\ \A k \in Mutex : Own(t, k)' = Own(t, k) - (IF k = mtx[f] /\ Own(t, k) > 0 THEN 1 ELSE 0)
       /\ \A x \in Stream : Own(t, mtx[x])' = Own(t, mtx[x]) - (IF mtx[x] = mtx[f] /\ Own(t, mtx[x]) > 0 THEN 1 ELSE 0)
  BY <1>2, <1>5, <1>6, <1>9, DropOwn
<1>11. TypeInv' /\ Only(t)
  BY <1>2, <1>6, <1>7, <1>10 DEF TypeInv, Only
<1>12. \A x \in Stream : held'[t][x] > 0 => held[t][x] > 0
  BY <1>7
<1>13. \A x \in Stream : Engaged(t, x)' => Engaged(t, x)
  BY <1>6, <1>12 DEF Engaged, Using
<1>14. Modest(t)
  BY <1>4, <1>13, ModestBy
<1>15. Keeps(t)
  <2>1. order' \in Seq(Pool) /\ order' # <<>> /\ \A i, j \in DOMAIN order' : order'[i] = order'[j] => i = j
    BY <1>2, <1>6 DEF PoolInv
  <2>2. \A x \in Stream : Same(t, x) \/ Alters(t, x)
    BY <1>4, <1>6, NotParting DEF Same
  <2> QED BY <1>2, <1>6, <1>12, <1>13, <2>1, <2>2, KeepsBy
<1>16. Facts(t, p)'
  <2>1. At(t, p)'
    BY <1>2, <1>6 DEF At
  <2>2. LocksAt(t, p)'
    <3>1. \A x \in Stream : Own(t, mtx[x])' = held'[t][x]
      <4> SUFFICES ASSUME NEW x \in Stream PROVE Own(t, mtx[x])' = held'[t][x]
        OBVIOUS
      <4>1. CASE x = f
        BY <1>5, <1>7, <1>8, <1>10, <4>1
      <4>2. CASE x # f
        <5>1. mtx[x] # mtx[f]
          BY <1>2, <1>9, <4>2, Names2 DEF MutexInv
        <5> QED BY <1>7, <1>8, <1>10, <4>2, <5>1
      <4> QED BY <4>1, <4>2
    <3>2. \A x \in Stream : Count(p, x) = 0
      BY <1>3, PlaceIs DEF Count, CountF, CountG
    <3>3. \A x \in Stream : held'[t][x] + Count(p, x) = Own(t, mtx[x])'
      BY <1>7, <3>1, <3>2
    <3>4. mtx[f] # PoolMutex /\ mtx[f] # LibMutex
      BY <1>2, MutexOf
    <3>5. Own(t, LibMutex)' = Own(t, LibMutex) - 0 /\ Own(t, PoolMutex)' = Own(t, PoolMutex) - 0
      BY <1>10, <3>4, Names2
    <3>6. Own(t, LibMutex) = 0 /\ Own(t, PoolMutex) = 0
      BY <1>2, <1>3 DEF LocksAt
    <3> QED BY <1>3, <3>3, <3>5, <3>6 DEF LocksAt
  <2>3. MutexAt(t, p)' /\ PushAt(p)' /\ ModeAt(p)' /\ RankAt(p)' /\ AloneAt(t, p)'
    BY <1>3 DEF MutexAt, PushAt, ModeAt, RankAt, AloneAt, Nested
  <2>4. HeldAt(t, p)' /\ PoolAt(t, p)'
    BY <1>3 DEF HeldAt, PoolAt, Two
  <2>5. TouchAt(t, p)'
    BY <1>2, <1>6 DEF TouchAt
  <2> QED BY <2>1, <2>2, <2>3, <2>4, <2>5 DEF Facts
<1>17. \A u \in Thread \ {t} : \A r \in Place : Facts(u, r) => ModeAt(r)' /\ PoolAt(u, r)'
  BY <1>6, OthersPool DEF Facts, ModeAt, Open0
<1>18. /\ \A m \in Mutex : holder'[m] # None => holder[m] # None \/ m \in {PoolMutex, LibMutex} \/ \E x \in Stream : mtx[x] = m
       /\ \A x \in Stream : Engaged(t, x)' =>
            Engaged(t, x) \/ mtx[x] # None \/ \A u \in Thread \ {t} : ~Engaged(u, x)
  BY <1>10, <1>13
<1> QED BY <1>6, <1>10, <1>11, <1>14, <1>15, <1>16, <1>17, <1>18, StepTakes

----------------------------------------------------------------------------
(* The invariant, and what follows from it.                                *)

LEMMA Starts == Init => LocksInv
<1> SUFFICES ASSUME Init PROVE LocksInv
  OBVIOUS
<1>1. /\ \A x \in Stream : touch[x] = {} /\ push[x] = None /\ mtx[x] \in {x, None} /\ mode[x] \in {{}, {"pool"}}
      /\ \A m \in Mutex : holder[m] = None /\ depth[m] = 0
      /\ \A t \in Thread : todo[t] = <<>> /\ \A x \in Stream : held[t][x] = 0
      /\ order = PoolOrder
  BY Names2 DEF Init
<1>2. \A t \in Thread : \A x \in Stream : ~Using(t, x) /\ ~Engaged(t, x)
  <2>1. \A t \in Thread : \A x \in Stream : ~Using(t, x)
    BY <1>1, EmptyIs, UsingIs, EmptyHas
  <2> QED BY <1>1, <2>1 DEF Engaged
<1>3. \A x \in Stream : ~Pushed(x)
  BY <1>1, Names2 DEF Pushed
<1>4. TypeInv
  BY Names2 DEF TypeInv, Init
<1>5. MutexInv
  BY <1>1, <1>2 DEF MutexInv
<1>6. PushInv
  BY <1>1, <1>3 DEF PushInv
<1>7. StackInv
  <2>1. Height([x \in Stream |-> 0])
    BY <1>1 DEF Height
  <2>2. Base([x \in Stream |-> x])
    BY <1>1 DEF Base
  <2> QED BY <2>1, <2>2 DEF StackInv
<1>8. LockInv
  BY <1>1 DEF LockInv
<1>9. FreedInv
  BY <1>1 DEF FreedInv
<1>10. PoolOrder \in Seq(Pool) /\ Pool # {}
  <2>1. PoolOrder \in Seq(Heap) /\ PoolOrder # <<>>
    BY NamesAssumption
  <2>2. \A i \in 1 .. Len(PoolOrder) : PoolOrder[i] \in Pool
    BY <2>1 DEF Pool, ToSet
  <2>3. PoolOrder \in [1 .. Len(PoolOrder) -> Pool] /\ Len(PoolOrder) \in Nat
    BY <2>1, <2>2
  <2>4. PoolOrder \in Seq(Pool)
    BY <2>3
  <2>5. 1 \in 1 .. Len(PoolOrder)
    BY <2>1
  <2> QED BY <2>2, <2>4, <2>5
<1>11. PoolInv
  <2>1. \A i, j \in DOMAIN PoolOrder : PoolOrder[i] = PoolOrder[j] => i = j
    BY NamesAssumption DEF IsInjective
  <2>2. \A x \in Pool : Open0(x)
    BY <1>1, Names2 DEF Open0
  <2> QED BY <1>1, <1>10, <2>1, <2>2, NamesAssumption, Names2 DEF PoolInv
<1>12. ThreadInv
  <2> SUFFICES ASSUME NEW t \in Thread PROVE \E p \in Place : Facts(t, p)
    BY DEF ThreadInv
  <2>1. PICK f \in Stream : TRUE
    BY <1>10, Names2
  <2> DEFINE p == To("on", "idle", f, f, 1, LibMutex)
  <2>2. p \in Place /\ p.ph = "on" /\ p.l = "idle" /\ p.f = f /\ p.g = f
    BY ToIs, Names2 DEF Phase, Label
  <2> HIDE DEF p
  <2>3. At(t, p)
    BY <1>1, <2>2 DEF At, Left, Plan, Two
  <2>4. LocksAt(t, p)
    <3>1. \A m : m \in Mutex \cup {None} => Own(t, m) = 0
      BY <1>1, Names2 DEF Own
    <3>2. \A x \in Stream : mtx[x] \in Mutex \cup {None}
      BY <1>4 DEF TypeInv
    <3>3. \A x \in Stream : Count(p, x) = 0
      BY <2>2 DEF Count, CountF, CountG
    <3>4. Own(t, LibMutex) = 0 /\ Own(t, PoolMutex) = 0
      BY <3>1, Names2
    <3> QED BY <1>1, <2>2, <3>1, <3>2, <3>3, <3>4 DEF LocksAt
  <2>5. MutexAt(t, p) /\ PushAt(p) /\ ModeAt(p) /\ RankAt(p) /\ AloneAt(t, p)
    BY <2>2 DEF MutexAt, PushAt, ModeAt, RankAt, AloneAt, Nested
  <2>6. TouchAt(t, p) /\ HeldAt(t, p) /\ PoolAt(t, p)
    BY <1>1, <2>2 DEF TouchAt, HeldAt, PoolAt, Two
  <2> QED BY <2>2, <2>3, <2>4, <2>5, <2>6 DEF Facts
<1> QED BY <1>4, <1>5, <1>6, <1>7, <1>8, <1>9, <1>11, <1>12 DEF LocksInv, SysInv

LEMMA Stands == ASSUME LocksInv, UNCHANGED vars PROVE LocksInv'
<1>1. /\ holder' = holder /\ depth' = depth /\ mtx' = mtx /\ mode' = mode /\ push' = push /\ order' = order
      /\ touch' = touch /\ todo' = todo /\ held' = held
  BY DEF vars
<1>2. TypeInv' /\ MutexInv'
  BY <1>1 DEF LocksInv, SysInv, TypeInv, MutexInv, Engaged, Using
<1>3. PushInv' /\ LockInv'
  <2>1. PushInv /\ LockInv
    BY DEF LocksInv, SysInv
  <2>2. PushInv'
    BY <1>1, <2>1, Zenon DEF PushInv, Pushed, Open0
  <2>3. LockInv'
    BY <1>1, <2>1, ZenonT(30) DEF LockInv
  <2> QED BY <2>2, <2>3
<1>4. FreedInv' /\ PoolInv'
  BY <1>1 DEF LocksInv, SysInv, FreedInv, PoolInv, Pushed, Engaged, Using, Open0
<1>5. StackInv'
  <2>1. StackInv
    BY DEF LocksInv, SysInv
  <2> QED BY <1>1, <2>1 DEF StackInv, Height, Base, Pushed
<1>6. ThreadInv'
  <2> SUFFICES ASSUME NEW t \in Thread PROVE \E p \in Place : Facts(t, p)'
    BY DEF ThreadInv
  <2>1. PICK p \in Place : Facts(t, p)
    BY DEF LocksInv, ThreadInv
  <2>2. /\ At(t, p) /\ LocksAt(t, p) /\ MutexAt(t, p) /\ TouchAt(t, p) /\ ModeAt(p)
        /\ PushAt(p) /\ HeldAt(t, p) /\ PoolAt(t, p) /\ AloneAt(t, p) /\ RankAt(p)
    BY <2>1 DEF Facts
  <2>3. At(t, p)' /\ LocksAt(t, p)' /\ MutexAt(t, p)'
    BY <1>1, <2>2 DEF At, LocksAt, Own, MutexAt
  <2>4. PushAt(p)' /\ TouchAt(t, p)' /\ ModeAt(p)'
    BY <1>1, <2>2 DEF PushAt, Pushed, TouchAt, ModeAt, Open0
  <2>5. HeldAt(t, p)' /\ PoolAt(t, p)' /\ RankAt(p)'
    BY <1>1, <2>2 DEF HeldAt, PoolAt, RankAt
  <2>6. AloneAt(t, p)'
    BY <1>1, <2>2 DEF AloneAt, Engaged, Using, Leaves, Own
  <2> QED BY <2>3, <2>4, <2>5, <2>6 DEF Facts
<1> QED BY <1>2, <1>3, <1>4, <1>5, <1>6 DEF LocksInv, SysInv

LEMMA StepKeeps == ASSUME LocksInv, Careful, NEW t \in Thread, Step(t) PROVE LocksInv'
<1>1. CASE Lock(t) \/ Make(t) \/ Take(t) \/ Unlock(t)
  BY <1>1, LockStep, MakeStep, TakeStep, UnlockStep
<1>2. CASE Check(t) \/ Enter(t) \/ Leave(t) \/ Jump(t) \/ Clear(t) \/ ClearMutex(t)
  BY <1>2, CheckStep, EnterStep, LeaveStep, JumpStep, ClearStep, ClearMutexStep
<1>3. CASE Head1(t) \/ Touch(t) \/ SwapHead(t)
  BY <1>3, Head1Step, TouchStep, SwapHeadStep
<1>4. CASE Stack(t) \/ Pop(t) \/ Swap(t) \/ Swapped(t)
  BY <1>4, StackStep, PopStep, SwapStep, SwappedStep
<1>5. CASE CloseStack(t) \/ Kill(t) \/ CloseMutex(t) \/ Final(t)
  BY <1>5, CloseStackStep, KillStep, CloseMutexStep, FinalStep
<1> QED BY <1>1, <1>2, <1>3, <1>4, <1>5 DEF Step

LEMMA Inductive == ASSUME LocksInv, Careful, [Next]_vars PROVE LocksInv'
<1>1. CASE UNCHANGED vars
  BY <1>1, Stands
<1>2. CASE Next
  <2>1. PICK t \in Thread : Step(t) \/ Call(t) \/ HoldIt(t) \/ LetGo(t) \/ Open(t)
    BY <1>2 DEF Next
  <2> QED BY <2>1, StepKeeps, CallStep, HoldItStep, LetGoStep, OpenStep
<1> QED BY <1>1, <1>2

\* The invariant holds of every careful application.
THEOREM LocksInvariant == ASSUME Careful PROVE Spec => []LocksInv
<1>1. Init => LocksInv
  BY Starts
<1>2. LocksInv /\ [Next]_vars => LocksInv'
  BY Inductive
<1> QED BY <1>1, <1>2, PTL DEF Spec

\* A set of numbers has a least one: the intervals below its members are
\* finite sets, which strict inclusion orders well.
LEMMA LeastNumber ==
  ASSUME NEW N, N \subseteq Nat, N # {}
  PROVE  \E s \in N : \A r \in N : s <= r
<1> DEFINE Intervals == {1 .. s : s \in N}
<1>1. IsWellFoundedOn(StrictSubsetOrdering(Nat), FiniteSubsetsOf(Nat))
  BY FS_StrictSubsetOrderingWellFounded
<1>2. Intervals \subseteq FiniteSubsetsOf(Nat)
  <2>1. \A s \in N : IsFiniteSet(1 .. s) /\ 1 .. s \subseteq Nat
    BY FS_Interval
  <2> QED BY <2>1 DEF FiniteSubsetsOf
<1>3. Intervals # {}
  OBVIOUS
<1>4. PICK b \in Intervals : \A c \in Intervals : ~ (<<c, b>> \in StrictSubsetOrdering(Nat))
  <2> HIDE DEF Intervals
  <2> QED BY <1>1, <1>2, <1>3, WFMin
<1>5. PICK s \in N : b = 1 .. s
  OBVIOUS
<1>6. ASSUME NEW r \in N, r < s PROVE FALSE
  <2>1. 1 .. r \subseteq 1 .. s /\ s \in 1 .. s /\ s \notin 1 .. r
    BY <1>6
  <2>2. 1 .. r \in SUBSET Nat /\ 1 .. s \in SUBSET Nat /\ 1 .. r # 1 .. s
    BY <2>1
  <2>3. <<1 .. r, 1 .. s>> \in StrictSubsetOrdering(Nat)
    BY <2>1, <2>2, Zenon DEF StrictSubsetOrdering
  <2> QED BY <1>4, <1>5, <2>3
<1>7. \A r \in N : r \in Nat /\ s \in Nat /\ ~(r < s)
  BY <1>6
<1> QED BY <1>7

\* "A mutex lock will be used to ensure that only one thread at a time can
\* access the stream": no two threads read and write one at once.
THEOREM OneThreadAlways == ASSUME Careful PROVE Spec => []OneThread
<1>1. LocksInv => OneThread
  <2> SUFFICES ASSUME LocksInv, NEW x \in Stream PROVE Cardinality(touch[x]) <= 1
    BY DEF OneThread
  <2>1. \A t, u \in touch[x] : t = u
    BY DEF LocksInv, SysInv, LockInv
  <2>2. CASE touch[x] = {}
    BY <2>2, FS_EmptySet
  <2>3. CASE touch[x] # {}
    <3>1. PICK t : touch[x] = {t}
      BY <2>1, <2>3
    <3> QED BY <3>1, FS_Singleton
  <2> QED BY <2>2, <2>3
<1> QED BY <1>1, LocksInvariant, PTL

\* No call of any thread reads or locks a stream that was freed.
THEOREM NoFreedAlways == ASSUME Careful PROVE Spec => []NoFreed
<1>1. LocksInv => NoFreed
  BY DEF LocksInv, SysInv, FreedInv, NoFreed, Engaged
<1> QED BY <1>1, LocksInvariant, PTL

\* A stream has one stream pushed on it, which is frozen and has no other
\* below it, while nobody exchanges the two; and every stack ends.
THEOREM StackSoundAlways == ASSUME Careful PROVE Spec => []StackSound
<1>1. LocksInv => StackSound
  <2> SUFFICES ASSUME LocksInv PROVE StackSound
    OBVIOUS
  <2>1. PushInv /\ TypeInv /\ StackInv
    BY DEF LocksInv, SysInv
  <2>2. \A f, g \in Stream : push[f] # None /\ push[f] = push[g] => f = g
    BY <2>1 DEF PushInv
  <2>3. ASSUME NEW g \in Stream, touch[g] = {}, \A t \in Thread : ~(Doing(t, "swap") /\ Using(t, g))
        PROVE  "push" \in mode[g] <=> Pushed(g)
    <3> SUFFICES ASSUME Pushed(g), "push" \notin mode[g] PROVE FALSE
      BY <2>1 DEF PushInv
    <3>1. PICK t \in Thread, f \in Stream : todo[t] # <<>> /\ Head(todo[t]) \in {<<"swap", f, g>>, <<"swapped", f, g>>}
      BY <2>1 DEF PushInv
    <3>2. PICK p \in Place : Facts(t, p)
      BY DEF LocksInv, ThreadInv
    <3>3. /\ At(t, p) /\ TouchAt(t, p) /\ p.l \in Label /\ p.f \in Stream /\ p.g \in Stream /\ p.ph \in Phase
      BY <3>2, PlaceIs DEF Facts
    <3>4. Doing(t, "swap") \/ Doing(t, "swapped")
      BY <3>1 DEF Doing, Idle
    <3>5. HeadsAre(p.f, p.g, p.n)
      BY <3>3, Heads
    <3>6. p.ph = "on" /\ p.l \in {"sp1", "n3", "st6", "sp2", "n4", "st7"} /\ Head(todo[t]) = Head(Plan(p.l, p.f, p.g, p.n))
      BY <3>3, <3>4, DoingAt, OpLabels
    <3>7. p.g = g
      <4>1. Head(todo[t]) \in {<<"swap", p.f, p.g>>, <<"swapped", p.f, p.g>>}
        BY <3>5, <3>6 DEF HeadsAre
      <4> QED BY <3>1, <4>1
    <3>8. CASE p.l \in {"sp1", "n3", "st6"}
      <4>1. Doing(t, "swap")
        <5>1. OpOf(p.l) = "swap"
          BY <3>8 DEF OpOf
        <5>2. Head(Plan(p.l, p.f, p.g, p.n))[1] = OpOf(p.l)
          BY <3>3, <3>8, HeadOps
        <5> QED BY <3>1, <3>6, <5>1, <5>2 DEF Doing, Idle
      <4>2. Using(t, g)
        BY <3>3, <3>7, <3>8, UsesAt DEF Two
      <4> QED BY <2>3, <4>1, <4>2
    <3>9. CASE p.l \in {"sp2", "n4", "st7"}
      BY <2>3, <3>3, <3>7, <3>9 DEF TouchAt
    <3> QED BY <3>6, <3>8, <3>9
  <2>4. ASSUME NEW S \in (SUBSET Stream) \ {{}} PROVE \E f \in S : push[f] \notin S
    <3>1. PICK h : Height(h)
      BY <2>1 DEF StackInv
    <3>2. h \in [Stream -> Nat] /\ \A x \in Stream : push[x] # None => h[push[x]] < h[x]
      BY <3>1 DEF Height
    <3> DEFINE H == {h[x] : x \in S}
    <3>3. H \subseteq Nat /\ H # {}
      BY <2>4, <3>2
    <3>4. PICK k \in H : \A r \in H : k <= r
      <4> HIDE DEF H
      <4> QED BY <3>3, LeastNumber
    <3>5. PICK f \in S : h[f] = k
      BY <3>4
    <3>6. push[f] \notin S
      <4> SUFFICES ASSUME push[f] \in S PROVE FALSE
        OBVIOUS
      <4>1. push[f] # None /\ f \in Stream /\ push[f] \in Stream
        BY Names2
      <4>2. h[push[f]] < h[f] /\ h[f] <= h[push[f]] /\ h[f] \in Nat /\ h[push[f]] \in Nat
        BY <3>2, <3>4, <3>5, <4>1
      <4> QED BY <4>2
    <3> QED BY <3>6
  <2> QED BY <2>2, <2>3, <2>4 DEF StackSound
<1> QED BY <1>1, LocksInvariant, PTL

\* A thread between two calls has the locks the application asked for, as often,
\* and no others; and when all are, no stream is frozen.
THEOREM CallsLeaveNothingAlways == ASSUME Careful PROVE Spec => []CallsLeaveNothing
<1>1. LocksInv => CallsLeaveNothing
  <2> SUFFICES ASSUME LocksInv PROVE CallsLeaveNothing
    OBVIOUS
  <2>1. MutexInv /\ TypeInv /\ LockInv
    BY DEF LocksInv, SysInv
  <2>2. ASSUME NEW t \in Thread, Idle(t)
        PROVE  /\ Own(t, LibMutex) = 0 /\ Own(t, PoolMutex) = 0
               /\ \A x \in Stream : held[t][x] = Own(t, mtx[x]) /\ t \notin touch[x]
    <3>1. PICK p \in Place : Facts(t, p)
      BY DEF LocksInv, ThreadInv
    <3>2. At(t, p) /\ LocksAt(t, p) /\ TouchAt(t, p)
      BY <3>1 DEF Facts
    <3>3. p.ph = "on" /\ p.l = "idle"
      BY <2>2, <3>2, IdleAt
    <3>4. \A x \in Stream : Count(p, x) = 0
      BY <3>3, PlaceIs DEF Count, CountF, CountG
    <3>5. \A x \in Stream : held[t][x] + 0 = Own(t, mtx[x])
      BY <3>2, <3>4 DEF LocksAt
    <3>6. \A x \in Stream : held[t][x] \in Nat
      BY <2>1 DEF TypeInv
    <3>7. \A x \in Stream : t \notin touch[x]
      BY <3>2, <3>3 DEF TouchAt
    <3>8. Own(t, LibMutex) = 0 /\ Own(t, PoolMutex) = 0
      BY <3>2, <3>3 DEF LocksAt
    <3> QED BY <3>5, <3>6, <3>7, <3>8
  <2>3. ASSUME NEW t \in Thread, Idle(t), NEW m \in Mutex
        PROVE  (IF holder[m] = t THEN depth[m] ELSE 0)
                 = IF \E f \in Stream : mtx[f] = m /\ held[t][f] > 0
                   THEN held[t][CHOOSE f \in Stream : mtx[f] = m /\ held[t][f] > 0] ELSE 0
    <3>1. m # None /\ Own(t, m) = IF holder[m] = t THEN depth[m] ELSE 0
      BY Names2 DEF Own
    <3>2. \A x \in Stream : mtx[x] = m => held[t][x] = Own(t, m)
      BY <2>2, <2>3
    <3>3. CASE \E f \in Stream : mtx[f] = m /\ held[t][f] > 0
      <4> DEFINE g == CHOOSE f \in Stream : mtx[f] = m /\ held[t][f] > 0
      <4>1. g \in Stream /\ mtx[g] = m
        BY <3>3
      <4>2. held[t][g] = Own(t, m)
        BY <3>2, <4>1
      <4> QED BY <3>1, <3>3, <4>2
    <3>4. CASE ~ \E f \in Stream : mtx[f] = m /\ held[t][f] > 0
      <4>1. Own(t, m) \in Nat /\ (Own(t, m) > 0 => holder[m] = t)
        BY <2>1, OwnIs
      <4>2. Own(t, m) = 0
        <5> SUFFICES ASSUME Own(t, m) > 0 PROVE FALSE
          BY <4>1
        <5>1. holder[m] # None
          BY <4>1, Names2
        <5>2. m \notin {PoolMutex, LibMutex}
          BY <2>2, <2>3
        <5>3. PICK x \in Stream : mtx[x] = m
          BY <2>1, <5>1, <5>2 DEF MutexInv
        <5> QED BY <3>2, <3>4, <5>3
      <4> QED BY <3>1, <3>4, <4>2
    <3> QED BY <3>3, <3>4
  <2>4. ASSUME \A t \in Thread : Idle(t), NEW x \in Stream PROVE "lock" \notin mode[x] /\ touch[x] = {}
    <3>1. touch[x] = {}
      BY <2>1, <2>2, <2>4 DEF TypeInv
    <3>2. \A t \in Thread : DOMAIN todo[t] = {}
      BY <2>4, EmptyIs DEF Idle
    <3> QED BY <2>1, <3>1, <3>2 DEF LockInv
  <2> QED BY <2>3, <2>4 DEF CallsLeaveNothing
<1> QED BY <1>1, LocksInvariant, PTL

\* What a thread that waits asks for, and that those with the mutexes of the
\* library and of the pool do not wait.
LEMMA WaitsAt ==
  ASSUME LocksInv, Careful, NEW t \in Thread, NEW p \in Place, Facts(t, p), NEW u \in Thread, Waits(t, u)
  PROVE  /\ u # t
         /\ \/ p.ph = "lib" /\ Own(u, LibMutex) > 0
            \/ p.ph = "on" /\ p.l = "p1" /\ Own(u, PoolMutex) > 0
            \/ p.ph = "take" /\ p.l \in Entry /\ Own(u, mtx[Asked(p)]) > 0
<1>1. TypeInv /\ At(t, p) /\ MutexAt(t, p) /\ p.f \in Stream /\ p.g \in Stream /\ p.l \in Label /\ Asked(p) \in Stream
  BY PlaceIs DEF LocksInv, SysInv, Facts
<1>2. Doing(t, "take") /\ holder[It(t)] = u /\ u # t
  BY DEF Waits, Grantable
<1>3. \A m \in Mutex : holder[m] = u => Own(u, m) > 0
  <2>1. u # None
    BY Names2
  <2> QED BY <1>1, <2>1, Names2, OwnIs
<1>4. CASE p.ph = "lib"
  <2>1. It(t) = LibMutex
    <3>1. Head(todo[t]) = <<"take", LibMutex>>
      BY <1>1, <1>4, LeftIs DEF At
    <3> QED BY <3>1 DEF It
  <2> QED BY <1>2, <1>3, <1>4, <2>1, Names2
<1>5. CASE p.ph = "take"
  <2>1. It(t) = mtx[Asked(p)] /\ mtx[Asked(p)] # None
    <3>1. Head(todo[t]) = <<"take", p.m>>
      BY <1>1, <1>5, LeftIs DEF At
    <3>2. It(t) = p.m
      BY <3>1 DEF It
    <3> QED BY <1>1, <1>5, <3>2 DEF MutexAt
  <2>2. mtx[Asked(p)] \in Mutex
    BY <1>1, <2>1 DEF TypeInv
  <2> QED BY <1>1, <1>2, <1>3, <1>5, <2>1, <2>2 DEF At
<1>6. CASE p.ph = "on" /\ p.l = "p1"
  <2>1. Head(todo[t]) = <<"take", PoolMutex>>
    <3>1. HeadsAre(p.f, p.g, p.n) /\ todo[t] = Plan("p1", p.f, p.g, p.n)
      BY <1>1, <1>6, Heads, LeftIs DEF At
    <3> QED BY <3>1 DEF HeadsAre
  <2>2. It(t) = PoolMutex
    BY <2>1 DEF It
  <2> QED BY <1>2, <1>3, <1>6, <2>2, Names2
<1>7. p.ph \in {"lib", "take"} \/ (p.ph = "on" /\ p.l = "p1")
  BY <1>1, <1>2, DoingAt, OpLabels
<1> QED BY <1>2, <1>4, <1>5, <1>6, <1>7

\* What is waited for of a thread that waits itself is the mutex of a stream.
LEMMA WaitsLock ==
  ASSUME LocksInv, Careful, NEW t \in Thread, NEW p \in Place, Facts(t, p), NEW u \in Thread, Waits(t, u),
         NEW v \in Thread, Waits(u, v)
  PROVE  u # t /\ p.ph = "take" /\ p.l \in Entry /\ Own(u, mtx[Asked(p)]) > 0
<1>1. PICK q \in Place : Facts(u, q)
  BY DEF LocksInv, ThreadInv
<1>2. At(u, q) /\ LocksAt(u, q) /\ PoolAt(u, q) /\ PoolAt(t, p)
  BY <1>1 DEF Facts
<1>3. /\ u # t
      /\ \/ p.ph = "lib" /\ Own(u, LibMutex) > 0
         \/ p.ph = "on" /\ p.l = "p1" /\ Own(u, PoolMutex) > 0
         \/ p.ph = "take" /\ p.l \in Entry /\ Own(u, mtx[Asked(p)]) > 0
  BY WaitsAt
<1>4. Own(u, LibMutex) = 0
  <2>1. q.ph \in {"lib", "on", "take"}
    BY <1>1, WaitsAt
  <2> QED BY <1>2, <2>1 DEF LocksAt
<1>5. ~(p.l = "p1" /\ Own(u, PoolMutex) > 0)
  <2> SUFFICES ASSUME p.l = "p1", Own(u, PoolMutex) > 0 PROVE FALSE
    OBVIOUS
  <2>1. q.l \in {"p2", "p3", "p4", "p5", "p6", "p7", "p8", "pf"}
    BY <1>2 DEF LocksAt
  <2>2. MayPool(t) /\ MayPool(u)
    BY <1>2, <2>1 DEF PoolAt
  <2> QED BY <1>3, <2>2 DEF Careful
<1> QED BY <1>3, <1>4, <1>5

\* It comes before the one the other waits for.
LEMMA WaitsUp ==
  ASSUME LocksInv, Careful, Ordered, NEW t \in Thread, NEW p \in Place, Facts(t, p), NEW u \in Thread, Waits(t, u),
         NEW q \in Place, Facts(u, q), NEW v \in Thread, Waits(u, v), NEW w \in Thread, Waits(v, w)
  PROVE  Asked(p) \in Stream /\ Asked(q) \in Stream /\ Rank[Asked(p)] < Rank[Asked(q)]
<1>1. /\ SysInv /\ TypeInv /\ MutexInv
      /\ At(u, q) /\ LocksAt(u, q) /\ HeldAt(u, q) /\ PoolAt(u, q) /\ RankAt(q)
      /\ At(t, p) /\ LocksAt(t, p) /\ MutexAt(t, p)
  BY DEF LocksInv, SysInv, Facts
<1>2. /\ q.f \in Stream /\ q.g \in Stream /\ q.l \in Label /\ Asked(q) \in Stream /\ Asked(p) \in Stream
      /\ p.f \in Stream /\ p.g \in Stream
  BY PlaceIs
<1>3. u # t /\ p.ph = "take" /\ p.l \in Entry /\ Own(u, mtx[Asked(p)]) > 0
  BY WaitsLock
<1>4. v # u /\ q.ph = "take" /\ q.l \in Entry /\ Own(v, mtx[Asked(q)]) > 0
  BY WaitsLock
<1>5. PICK x, y \in Stream : x = Asked(p) /\ y = Asked(q)
  BY <1>2
<1>6. x # y
  <2>1. mtx[y] \in Mutex \cup {None}
    BY <1>1 DEF TypeInv
  <2>2. Own(u, mtx[x]) > 0 /\ Own(v, mtx[y]) > 0
    BY <1>3, <1>4, <1>5
  <2> QED BY <1>1, <1>4, <2>1, <2>2, OwnIs
<1>7. held[u][x] + Count(q, x) > 0 /\ held[u][x] \in Nat
  <2>1. held[u][x] + Count(q, x) = Own(u, mtx[x])
    BY <1>1 DEF LocksAt
  <2> QED BY <1>1, <1>3, <1>5, <2>1 DEF TypeInv
<1>8. held[u][x] > 0 => x = q.f
  <2>1. q.l \notin {"u0", "u1", "uu11"}
    BY <1>4 DEF Entry
  <2> QED BY <1>1, <1>4, <2>1 DEF HeldAt
<1>9. q.l \in {"st3", "n8", "p3"} /\ x = q.f
  <2>1. CASE q.l \notin {"st3", "n8", "p3"}
    <3>1. y = q.f /\ CountG(q.l) = 0
      BY <1>4, <1>5, <2>1 DEF Asked, CountG, Entry
    <3>2. held[u][x] = 0
      BY <1>6, <1>7, <1>8, <3>1
    <3>3. Count(q, x) = 0
      BY <1>5, <1>6, <3>1 DEF Count
    <3> QED BY <1>7, <3>2, <3>3
  <2>2. CASE q.l \in {"st3", "n8", "p3"}
    <3>1. y = q.g
      BY <1>5, <2>2 DEF Asked
    <3>2. x # q.f => Count(q, x) = 0
      BY <1>5, <1>6, <3>1 DEF Count
    <3> QED BY <1>7, <1>8, <2>2, <3>2
  <2> QED BY <2>1, <2>2
<1>10. y = q.g
  BY <1>5, <1>9 DEF Asked
<1>11. q.l # "p3"
  <2> SUFFICES ASSUME q.l = "p3" PROVE FALSE
    OBVIOUS
  <2>1. q.f \in Pool
    BY <1>1 DEF PoolAt
  <2>2. MayPool(u)
    BY <1>1, <2>1 DEF PoolAt
  <2>3. Engaged(t, x)
    <3>1. p.l \in {"st3", "n8", "p3"} => p.l \in Two
      BY DEF Two
    <3>2. x = p.f \/ (x = p.g /\ p.l \in {"st3", "n8", "p3"})
      BY <1>5 DEF Asked
    <3> QED BY <1>1, <1>3, <3>1, <3>2, EngagedAt
  <2>4. ~Engaged(t, x)
    BY <1>1, <1>3, <1>9, <2>1, <2>2, PoolAlone
  <2> QED BY <2>3, <2>4
<1>12. Rank[q.f] < Rank[q.g]
  BY <1>1, <1>9, <1>11 DEF RankAt
<1> QED BY <1>2, <1>5, <1>9, <1>10, <1>12

\* No threads wait for each other in a circle: of the streams they wait for,
\* one would come before all others and after another.
THEOREM NoCircleAlways == ASSUME Careful, Ordered PROVE Spec => []NoCircle
<1>1. LocksInv => NoCircle
  <2> SUFFICES ASSUME LocksInv, NEW S \in (SUBSET Thread) \ {{}}, \A t \in S : \E u \in S : Waits(t, u) PROVE FALSE
    BY DEF NoCircle
  <2>1. PICK N \in Nat : Rank \in [Stream -> 0 .. N]
    <3> DEFINE R(r) == /\ IsRank(r)
                       /\ \A u \in Thread : \A d \in Calls[u] : d[1] = "stack" => r[d[2]] < r[d[3]]
    <3>1. \E r : R(r)
      BY DEF Ordered
    <3>2. R(CHOOSE r : R(r))
      BY <3>1
    <3>3. R(Rank)
      BY <3>2 DEF Rank
    <3> QED BY <3>3 DEF IsRank
  <2> DEFINE D == {N - Rank[Asked(p)] : p \in {q \in Place : Asked(q) \in Stream /\ \E t \in S : Facts(t, q)}}
  <2>2. \A t \in S : t \in Thread /\ \E p \in Place : Facts(t, p) /\ Asked(p) \in Stream
    <3>1. \A p \in Place : Asked(p) \in Stream
      BY PlaceIs
    <3> QED BY <3>1 DEF LocksInv, ThreadInv
  <2>3. D \subseteq Nat
    BY <2>1
  <2>4. D # {}
    <3>1. PICK t \in S : TRUE
      OBVIOUS
    <3>2. PICK p \in Place : Facts(t, p) /\ Asked(p) \in Stream
      BY <2>2
    <3> QED BY <3>2
  <2>5. PICK k \in D : \A r \in D : k <= r
    <3> HIDE DEF D
    <3> QED BY <2>3, <2>4, LeastNumber
  <2>6. PICK t \in S, p \in Place : k = N - Rank[Asked(p)] /\ Asked(p) \in Stream /\ Facts(t, p)
    BY <2>5
  <2>7. PICK u \in S : Waits(t, u)
    OBVIOUS
  <2>8. PICK v \in S : Waits(u, v)
    OBVIOUS
  <2>9. PICK w \in S : Waits(v, w)
    OBVIOUS
  <2>10. PICK q \in Place : Facts(u, q) /\ Asked(q) \in Stream
    BY <2>2
  <2>11. Rank[Asked(p)] < Rank[Asked(q)]
    BY <2>2, <2>6, <2>7, <2>8, <2>9, <2>10, WaitsUp
  <2>12. N - Rank[Asked(q)] \in D
    BY <2>10
  <2>13. Rank[Asked(p)] \in 0 .. N /\ Rank[Asked(q)] \in 0 .. N /\ k <= N - Rank[Asked(q)]
    <3> HIDE DEF D
    <3> QED BY <2>1, <2>5, <2>6, <2>10, <2>12
  <2> QED BY <2>6, <2>11, <2>13
<1> QED BY <1>1, LocksInvariant, PTL

\* The application holds no more than it may, and the pool keeps its size.
BoundInv == (\A t \in Thread : \A x \in Stream : held[t][x] <= MaxHold) /\ Len(order) = Len(PoolOrder)

LEMMA BoundKept == ASSUME LocksInv, BoundInv, [Next]_vars PROVE BoundInv'
<1>1. held \in [Thread -> [Stream -> Nat]] /\ order \in Seq(Pool) /\ MaxHold \in Nat
  BY HabitsAssumption DEF LocksInv, SysInv, TypeInv, PoolInv
<1>2. held' = held /\ order' = order => BoundInv'
  BY DEF BoundInv
<1>3. CASE UNCHANGED vars
  BY <1>2, <1>3 DEF vars
<1>4. CASE Next
  <2>1. PICK t \in Thread : Step(t) \/ Call(t) \/ HoldIt(t) \/ LetGo(t) \/ Open(t)
    BY <1>4 DEF Next
  <2>2. CASE Lock(t) \/ Make(t) \/ Take(t) \/ Unlock(t) \/ Check(t) \/ Enter(t) \/ Leave(t) \/ Jump(t) \/ Clear(t)
    BY <1>2, <2>2 DEF Lock, Make, Take, Unlock, Check, Enter, Leave, Jump, Clear, streams
  <2>3. CASE Head1(t) \/ Touch(t) \/ Stack(t) \/ Pop(t) \/ Swap(t) \/ Swapped(t) \/ CloseStack(t) \/ Kill(t) \/ Final(t)
             \/ Call(t) \/ Open(t)
    BY <1>2, <2>3 DEF Head1, Touch, Stack, Pop, Swap, Swapped, CloseStack, Kill, Final, Call, Open, streams
  <2>4. CASE ClearMutex(t) \/ CloseMutex(t)
    <3>1. order' = order /\ held' = [held EXCEPT ![t][It(t)] = 0]
      BY <2>4 DEF ClearMutex, CloseMutex, streams
    <3>2. \A u \in Thread : \A x \in Stream : held'[u][x] \in {0, held[u][x]}
      BY <1>1, <3>1
    <3> QED BY <1>1, <3>1, <3>2 DEF BoundInv
  <2>5. CASE HoldIt(t)
    <3>1. PICK f \in Stream : held[t][f] < MaxHold /\ held' = [held EXCEPT ![t][f] = @ + 1]
      BY <2>5 DEF HoldIt
    <3>2. order' = order
      BY <2>5 DEF HoldIt, streams
    <3>3. \A u \in Thread : \A x \in Stream : held'[u][x] = held[u][x] \/ (u = t /\ x = f /\ held'[u][x] = held[t][f] + 1)
      BY <1>1, <3>1
    <3> QED BY <1>1, <3>1, <3>2, <3>3 DEF BoundInv
  <2>6. CASE LetGo(t)
    <3>1. PICK f \in Stream : held[t][f] > 0 /\ held' = [held EXCEPT ![t][f] = @ - 1]
      BY <2>6 DEF LetGo
    <3>2. order' = order
      BY <2>6 DEF LetGo, streams
    <3>3. \A u \in Thread : \A x \in Stream : held'[u][x] = held[u][x] \/ (u = t /\ x = f /\ held'[u][x] = held[t][f] - 1)
      BY <1>1, <3>1
    <3> QED BY <1>1, <3>1, <3>2, <3>3 DEF BoundInv
  <2>7. CASE SwapHead(t)
    <3>1. held' = held /\ Len(order') = Len(order)
      BY <1>1, <2>7 DEF SwapHead
    <3> QED BY <3>1 DEF BoundInv
  <2> QED BY <2>1, <2>2, <2>3, <2>4, <2>5, <2>6, <2>7 DEF Step
<1> QED BY <1>3, <1>4

\* Every variable keeps its range.
THEOREM TypeCorrect == ASSUME Careful PROVE Spec => []TypeOK
<1>1. Init => BoundInv
  BY HabitsAssumption DEF Init, BoundInv
<1>2. LocksInv /\ BoundInv /\ [Next]_vars => BoundInv'
  BY BoundKept
<1>3. LocksInv /\ BoundInv => TypeOK
  <2> SUFFICES ASSUME LocksInv, BoundInv PROVE TypeOK
    OBVIOUS
  <2>1. TypeInv /\ MaxHold \in Nat
    BY HabitsAssumption DEF LocksInv, SysInv
  <2>2. held \in [Thread -> [Stream -> 0 .. MaxHold]]
    BY <2>1 DEF TypeInv, BoundInv
  <2> QED BY <2>1, <2>2 DEF TypeInv, BoundInv, TypeOK
<1> QED BY <1>1, <1>2, <1>3, LocksInvariant, PTL DEF Spec

=============================================================================
