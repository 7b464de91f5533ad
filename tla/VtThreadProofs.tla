--------------------------- MODULE VtThreadProofs ---------------------------
(***************************************************************************)
(* Theorems about VtThread for any threads, handles and calls: a vtonce    *)
(* that returns finds its function run, once; an open handle is listed     *)
(* once and a closed one not at all, and no thread runs on a handle that   *)
(* says it was waited for, or that is closed.                              *)
(***************************************************************************)
EXTENDS VtThread, SequenceTheorems, FiniteSetTheorems, WellFoundedInduction, TLAPS

----------------------------------------------------------------------------
(* vtonce.                                                                 *)

OnceLabels == {"once", "func", "flag"}

\* The call a thread is in, as its place tells it.
PlaceInv(t) ==
  /\ pc[t] = "idle" <=> call[t] = "none"
  /\ pc[t] \in OnceLabels <=> call[t] = "once"
  /\ pc[t] \in {"enter", "init", "initmtx", "relock", "find", "place"} => call[t] = "open"
  /\ pc[t] \in {"lock", "unlock", "fail"} => call[t] \in {"open", "close"}
  /\ pc[t] \in {"look", "clear"} => call[t] = "close"
  /\ pc[t] \in {"create", "setid", "setrun"} => call[t] = "run"
  /\ pc[t] = "check" => call[t] \in {"open", "wait", "kill", "close"}
  /\ pc[t] \in {"join", "joined"} => call[t] \in {"open", "wait", "close"}
  /\ pc[t] = "cancel" => call[t] = "kill"
  /\ pc[t] \in {"self", "selfid"} => call[t] = "self"

\* What the control says of a thread inside vtonce.
ControlInv(t) ==
  /\ pc[t] = "func" => ctl = "running"
  /\ pc[t] = "flag" => ctl = "done"

\* One thread at most runs the function, and only while the control is
\* "running"; the control is "done" once it has run.
OnceInv ==
  /\ pc \in [Tids -> Labels] /\ call \in [Tids -> DOMAIN Start \cup {"none"}]
  /\ ctl \in {"never", "running", "done"} /\ done \in BOOLEAN
  /\ ran = IF ctl = "done" THEN 1 ELSE 0
  /\ done => ctl = "done"
  /\ \A t \in Tids : PlaceInv(t) /\ ControlInv(t)
  /\ \A t, u \in Tids : pc[t] = "func" /\ pc[u] = "func" => t = u

\* The invariant holds at the start.
LEMMA OnceInit == Init => OnceInv
  BY DEF Init, OnceInv, PlaceInv, ControlInv, Labels, OnceLabels

\* A step of t that stays outside vtonce: it goes on in its call or ends it.
Outside(t) ==
  /\ UNCHANGED control /\ pc[t] \notin OnceLabels
  /\ \/ UNCHANGED call /\ \E l \in Labels \ (OnceLabels \cup {"idle"}) : pc' = [pc EXCEPT ![t] = l]
     \/ Return(t)
  /\ PlaceInv(t)'

\* Every step but those of vtonce is one outside it.
LEMMA StepOutside ==
  ASSUME OnceInv, NEW t \in Tids, Step(t), ~Once(t), ~Func(t), ~SetDone(t)
  PROVE  Outside(t)
<1> USE DEF OnceInv, PlaceInv, Outside, Labels, OnceLabels, Goto, GotoSlot, Return, Keep, control
<1>1. ASSUME Enter(t) \/ SetInit(t) \/ InitMutex(t) \/ Lock(t) PROVE Outside(t)
  BY <1>1 DEF Enter, SetInit, InitMutex, Lock
<1>2. ASSUME FindRunning(t) \/ FindIdle(t) \/ FindEmpty(t) PROVE Outside(t)
  BY <1>2 DEF FindRunning, FindIdle, FindEmpty
<1>3. ASSUME FindGrow(t) PROVE Outside(t)
  BY <1>3 DEF FindGrow
<1>4. ASSUME Place(t) \/ PlaceFails(t) \/ Unlock(t) PROVE Outside(t)
  BY <1>4 DEF Place, PlaceFails, Unlock
<1>5. ASSUME Look(t) \/ Clear(t) PROVE Outside(t)
  BY <1>5 DEF Look, Clear
<1>6. ASSUME Create(t) \/ CreateFails(t) \/ SetId(t) \/ SetRunning(t) PROVE Outside(t)
  BY <1>6 DEF Create, CreateFails, SetId, SetRunning
<1>7. ASSUME Check(t) \/ Join(t) \/ Cancel(t) PROVE Outside(t)
  BY <1>7 DEF Check, Join, Cancel
<1>8. ASSUME Joined(t) PROVE Outside(t)
  BY <1>8 DEF Joined
<1>9. ASSUME Self(t) \/ SelfId(t) PROVE Outside(t)
  BY <1>9 DEF Self, SelfId
<1> QED BY <1>1, <1>2, <1>3, <1>4, <1>5, <1>6, <1>7, <1>8, <1>9 DEF Step

\* A step of t outside vtonce keeps the invariant.
LEMMA OutsideKeeps ==
  ASSUME OnceInv, NEW t \in Tids, Outside(t)
  PROVE  OnceInv'
<1>1. \A u \in Tids \ {t} : pc'[u] = pc[u] /\ call'[u] = call[u]
  BY DEF OnceInv, Outside, Return
<1>2. pc'[t] \notin OnceLabels
  BY DEF OnceInv, Outside, Return, OnceLabels, Labels
<1>3. \A u \in Tids : (PlaceInv(u) /\ ControlInv(u))'
  BY <1>1, <1>2 DEF OnceInv, Outside, PlaceInv, ControlInv, OnceLabels, control
<1>4. pc' \in [Tids -> Labels] /\ call' \in [Tids -> DOMAIN Start \cup {"none"}]
  BY DEF OnceInv, Outside, Return, Labels
<1>5. \A u, v \in Tids : pc'[u] = "func" /\ pc'[v] = "func" => u = v
  BY <1>1, <1>2 DEF OnceInv, OnceLabels
<1> QED BY <1>3, <1>4, <1>5 DEF OnceInv, Outside, control

\* A call of t keeps the invariant: it starts where Start says.
LEMMA CallKeeps ==
  ASSUME OnceInv, NEW t \in Tids, Call(t)
  PROVE  OnceInv'
<1>1. PICK c \in Calls[t] : call' = [call EXCEPT ![t] = c] /\ pc' = [pc EXCEPT ![t] = Start[c]]
  BY DEF Call
<1>2. c \in {"open", "run", "wait", "kill", "close", "self", "once"}
  BY CallsAssumption
<1>3. Start[c] \in Labels /\ c \in DOMAIN Start /\ UNCHANGED control /\ pc[t] = "idle"
  BY <1>2 DEF Start, Labels, Call
<1>4. Start[c] \notin {"idle", "func", "flag"} /\ (Start[c] = "once" <=> c = "once")
      /\ (Start[c] = "enter" => c = "open") /\ (Start[c] = "lock" => c = "close")
      /\ (Start[c] = "check" => c \in {"wait", "kill"}) /\ (Start[c] = "create" => c = "run")
      /\ (Start[c] = "self" => c = "self") /\ c # "none"
      /\ Start[c] \in {"enter", "create", "check", "lock", "self", "once"}
  BY <1>2 DEF Start
<1>5. \A u \in Tids \ {t} : pc'[u] = pc[u] /\ call'[u] = call[u]
  BY <1>1 DEF OnceInv
<1>6. pc'[t] = Start[c] /\ call'[t] = c
  BY <1>1 DEF OnceInv
<1>7. \A u \in Tids : (PlaceInv(u) /\ ControlInv(u))'
  BY <1>3, <1>4, <1>5, <1>6 DEF OnceInv, PlaceInv, ControlInv, OnceLabels, control
<1>8. pc' \in [Tids -> Labels] /\ call' \in [Tids -> DOMAIN Start \cup {"none"}]
  BY <1>1, <1>3 DEF OnceInv
<1>9. \A u, v \in Tids : pc'[u] = "func" /\ pc'[v] = "func" => u = v
  BY <1>4, <1>5, <1>6 DEF OnceInv
<1> QED BY <1>3, <1>7, <1>8, <1>9 DEF OnceInv, control

\* The steps of vtonce keep the invariant: pthread_once lets one thread in,
\* and the flag is set by a thread that saw the control "done".
LEMMA VtonceKeeps ==
  ASSUME OnceInv, NEW t \in Tids, Once(t) \/ Func(t) \/ SetDone(t)
  PROVE  OnceInv'
<1> USE DEF OnceInv, PlaceInv, ControlInv, OnceLabels, Labels, Goto, Return
<1>1. CASE Once(t)
  BY <1>1 DEF Once
<1>2. CASE Func(t)
  BY <1>2 DEF Func
<1>3. CASE SetDone(t)
  BY <1>3 DEF SetDone
<1> QED BY <1>1, <1>2, <1>3

\* The end of a started thread touches none of it.
LEMMA EndKeeps ==
  ASSUME OnceInv, NEW t \in Pool, End(t)
  PROVE  OnceInv'
  BY DEF OnceInv, PlaceInv, ControlInv, End, control

\* Every step keeps the invariant.
LEMMA OnceNext == OnceInv /\ [Next]_vars => OnceInv'
<1> SUFFICES ASSUME OnceInv, [Next]_vars PROVE OnceInv'
  OBVIOUS
<1>1. CASE UNCHANGED vars
  BY <1>1 DEF OnceInv, PlaceInv, ControlInv, vars, control
<1>2. ASSUME NEW t \in Tids, Call(t) PROVE OnceInv'
  BY <1>2, CallKeeps
<1>3. ASSUME NEW t \in Tids, Step(t) PROVE OnceInv'
  BY <1>3, StepOutside, OutsideKeeps, VtonceKeeps
<1>4. ASSUME NEW t \in Pool, End(t) PROVE OnceInv'
  BY <1>4, EndKeeps
<1> QED BY <1>1, <1>2, <1>3, <1>4 DEF Next

\* A step of t that ends its vtonce finds the function run.
Finds(t) == call[t] = "once" /\ pc[t] # "idle" /\ pc'[t] = "idle" => ran = 1 /\ ctl = "done"

\* Only the step of its own thread ends a vtonce, and that step has seen the
\* flag, or the control "done".
LEMMA OnceStep == OnceInv /\ [Next]_vars => \A t \in Tids : Finds(t)
<1> SUFFICES ASSUME OnceInv, [Next]_vars, NEW t \in Tids, call[t] = "once", pc[t] # "idle", pc'[t] = "idle"
             PROVE  ran = 1 /\ ctl = "done"
  BY DEF Finds
<1>1. CASE UNCHANGED vars
  BY <1>1 DEF vars
<1>2. ASSUME NEW u \in Tids, Call(u) PROVE ran = 1 /\ ctl = "done"
  <2>1. pc[u] = "idle" /\ \E l : pc' = [pc EXCEPT ![u] = l]
    BY <1>2 DEF Call
  <2> QED BY <2>1 DEF OnceInv
<1>3. ASSUME NEW u \in Tids, Step(u) PROVE ran = 1 /\ ctl = "done"
  <2>1. CASE Once(u) \/ Func(u) \/ SetDone(u)
    BY <2>1 DEF Once, Func, SetDone, Goto, Return, OnceInv, PlaceInv, ControlInv, OnceLabels
  <2>2. CASE ~(Once(u) \/ Func(u) \/ SetDone(u))
    <3>1. Outside(u)
      BY <1>3, <2>2, StepOutside
    <3>2. pc[u] \notin OnceLabels /\ \E l : pc' = [pc EXCEPT ![u] = l]
      BY <3>1 DEF Outside, Return
    <3>3. pc[t] \in OnceLabels
      BY DEF OnceInv, PlaceInv
    <3> QED BY <3>2, <3>3 DEF OnceInv
  <2> QED BY <2>1, <2>2
<1>4. ASSUME NEW u \in Pool, End(u) PROVE ran = 1 /\ ctl = "done"
  BY <1>4 DEF End
<1> QED BY <1>1, <1>2, <1>3, <1>4 DEF Next

\* A vtonce that returns finds func run to its end, and run once, for any
\* threads that call it at any time.
THEOREM OnceRight == Spec => OnceBefore
<1>1. Spec => []OnceInv
  BY OnceInit, OnceNext, PTL DEF Spec
<1>2. OnceInv /\ [Next]_vars =>
        [\A t \in Tids : call[t] = "once" /\ pc[t] # "idle" /\ pc'[t] = "idle" => ran = 1 /\ ctl = "done"]_vars
  BY OnceStep DEF Finds
<1> QED BY <1>1, <1>2, PTL DEF Spec, OnceBefore

----------------------------------------------------------------------------
(* Types.                                                                  *)

\* The types, and that vtself reads the id of a handle it found in a slot.
TypeInv ==
  /\ OnceInv /\ TypeOK
  /\ \A t \in Tids : pc[t] = "selfid" => slot[t] <= Len(list)

\* The types hold at the start.
LEMMA TypeInit == Init => TypeInv
<1> SUFFICES ASSUME Init PROVE TypeInv
  OBVIOUS
<1>1. OnceInv
  BY OnceInit
<1>2. list \in Seq(Handles \cup {None}) /\ Len(list) = 0
  BY DEF Init
<1>3. 1 \in 1 .. MaxSlots + 1
  BY SlotsAssumption
<1>4. os \in [Tids -> {"none", "run", "dying", "ended", "joined"}] /\ job \in [Tids -> Handles \cup {None}]
  BY DEF Init
<1>5. /\ running \in [Handles -> BOOLEAN] /\ waited \in [Handles -> BOOLEAN]
      /\ self \in [Handles -> Pool \cup {None}] /\ id \in [Handles -> Pool \cup {None}]
      /\ user \in [Handles -> Tids \cup {None}]
  BY DEF Init
<1>6. pc \in [Tids -> Labels] /\ call \in [Tids -> DOMAIN Start \cup {"none"}] /\ arg \in [Tids -> Handles \cup {None}]
  BY DEF Init, Labels
<1>7. slot \in [Tids -> 1 .. MaxSlots + 1]
  BY <1>3 DEF Init
<1>8. Len(list) <= MaxSlots /\ mtx \in Tids \cup {None} /\ ran \in 0 .. 1
  BY <1>2, SlotsAssumption DEF Init
<1>10. inited \in BOOLEAN /\ lib \in {"never", "running", "done"}
  BY Zenon DEF Init
<1>9. TypeOK
  BY <1>1, <1>2, <1>4, <1>5, <1>6, <1>7, <1>8, <1>10 DEF TypeOK, OnceInv
<1> QED BY <1>1, <1>9 DEF TypeInv, Init

\* A set of numbers has a least one: the intervals below its members are
\* finite sets, which strict inclusion orders well.
LEMMA LeastNumber ==
  ASSUME NEW N, N \subseteq Nat, N # {}
  PROVE  \E s \in N : \A r \in N : s <= r
<1> DEFINE Below == {1 .. s : s \in N}
<1>1. IsWellFoundedOn(StrictSubsetOrdering(Nat), FiniteSubsetsOf(Nat))
  BY FS_StrictSubsetOrderingWellFounded
<1>2. Below \subseteq FiniteSubsetsOf(Nat)
  <2>1. \A s \in N : IsFiniteSet(1 .. s) /\ 1 .. s \subseteq Nat
    BY FS_Interval
  <2> QED BY <2>1 DEF FiniteSubsetsOf
<1>3. Below # {}
  OBVIOUS
<1>4. PICK b \in Below : \A c \in Below : ~ (<<c, b>> \in StrictSubsetOrdering(Nat))
  <2> HIDE DEF Below
  <2> QED BY <1>1, <1>2, <1>3, WFMin
<1>5. PICK s \in N : b = 1 .. s
  OBVIOUS
<1>6. ASSUME NEW r \in N, r < s PROVE FALSE
  <2>1. 1 .. r \subseteq 1 .. s /\ s \in 1 .. s /\ s \notin 1 .. r
    BY <1>6
  <2>2. 1 .. r \in SUBSET Nat /\ 1 .. s \in SUBSET Nat /\ 1 .. r # 1 .. s
    BY <2>1
  <2>3. <<1 .. r, 1 .. s>> \in StrictSubsetOrdering(Nat)
    BY <2>1, <2>2, Zenon DEF StrictSubsetOrdering
  <2> QED BY <1>4, <1>5, <2>3
<1>7. \A r \in N : r \in Nat /\ s \in Nat /\ ~(r < s)
  BY <1>6
<1> QED BY <1>7

\* A set of slots has a first one.
LEMMA FirstSlot ==
  ASSUME NEW v, list \in Seq(Handles \cup {None}), Slots(v) # {}
  PROVE  First(v) \in DOMAIN list /\ list[First(v)] = v
<1>1. Slots(v) \subseteq Nat
  BY DEF Slots
<1>2. First(v) \in Slots(v)
  BY <1>1, LeastNumber DEF First
<1> QED BY <1>2 DEF Slots

\* What the types say, part by part.
PthreadTypes ==
  os \in [Tids -> {"none", "run", "dying", "ended", "joined"}] /\ job \in [Tids -> Handles \cup {None}]
LibraryTypes ==
  /\ lib \in {"never", "running", "done"} /\ inited \in BOOLEAN /\ mtx \in Tids \cup {None}
  /\ list \in Seq(Handles \cup {None}) /\ Len(list) <= MaxSlots
HandleTypes ==
  /\ running \in [Handles -> BOOLEAN] /\ waited \in [Handles -> BOOLEAN]
  /\ self \in [Handles -> Pool \cup {None}] /\ id \in [Handles -> Pool \cup {None}]
  /\ user \in [Handles -> Tids \cup {None}]
ThreadTypes == arg \in [Tids -> Handles \cup {None}] /\ slot \in [Tids -> 1 .. MaxSlots + 1]

LEMMA TypeParts ==
  TypeOK <=> /\ PthreadTypes /\ LibraryTypes /\ HandleTypes /\ ThreadTypes
             /\ ctl \in {"never", "running", "done"} /\ done \in BOOLEAN /\ ran \in 0 .. 1
             /\ pc \in [Tids -> Labels] /\ call \in [Tids -> DOMAIN Start \cup {"none"}]
  BY DEF TypeOK, PthreadTypes, LibraryTypes, HandleTypes, ThreadTypes

LEMMA TypePartsNext ==
  ASSUME PthreadTypes', LibraryTypes', HandleTypes', ThreadTypes', OnceInv'
  PROVE  TypeOK'
  BY DEF TypeOK, PthreadTypes, LibraryTypes, HandleTypes, ThreadTypes, OnceInv

\* A step leaves the state of the pthreads in its range.
LEMMA PthreadStep ==
  ASSUME PthreadTypes, ThreadTypes, NEW t \in Tids, Step(t)
  PROVE  PthreadTypes'
<1> USE DEF PthreadTypes, ThreadTypes, Keep, pthreads
<1>1. ASSUME Create(t) PROVE PthreadTypes'
  BY <1>1 DEF Create
<1>2. ASSUME Join(t) \/ Cancel(t) PROVE PthreadTypes'
  BY <1>2 DEF Join, Cancel
<1>3. ASSUME ~Create(t), ~Join(t), ~Cancel(t) PROVE UNCHANGED pthreads
  BY <1>3 DEF Step, Enter, SetInit, InitMutex, Lock, FindRunning, FindIdle, FindEmpty, FindGrow, Place, PlaceFails,
              Unlock, Look, Clear, CreateFails, SetId, SetRunning, Check, Joined, Self, SelfId, Once, Func, SetDone
<1> QED BY <1>1, <1>2, <1>3

\* A longer list holds handles or nothing, and has the slot that is new.
LEMMA Longer ==
  ASSUME list \in Seq(Handles \cup {None}), list' = list \o [i \in 1 .. Incr |-> None]
  PROVE  /\ list' \in Seq(Handles \cup {None}) /\ Len(list') = Len(list) + Incr
         /\ Len(list) + 1 \in DOMAIN list'
         /\ \A s \in DOMAIN list' : list'[s] = IF s \in DOMAIN list THEN list[s] ELSE None
<1> DEFINE more == [i \in 1 .. Incr |-> None]
<1>1. more \in Seq(Handles \cup {None}) /\ Len(more) = Incr /\ Incr \in Nat \ {0}
  BY SlotsAssumption
<1>2. Len(list) \in Nat /\ DOMAIN list = 1 .. Len(list)
  OBVIOUS
<1>3. /\ list \o more \in Seq(Handles \cup {None}) /\ Len(list \o more) = Len(list) + Len(more)
      /\ \A s \in 1 .. Len(list) + Len(more) : (list \o more)[s] = IF s <= Len(list) THEN list[s] ELSE more[s - Len(list)]
  <2> HIDE DEF more
  <2> QED BY <1>1, ConcatProperties
<1>4. DOMAIN list' = 1 .. Len(list) + Incr
  BY <1>1, <1>3
<1>5. ASSUME NEW s \in DOMAIN list', s \notin DOMAIN list PROVE list'[s] = None
  <2>1. s > Len(list) /\ s - Len(list) \in 1 .. Incr
    BY <1>1, <1>2, <1>4, <1>5
  <2> QED BY <1>1, <1>2, <1>3, <1>4, <2>1
<1>6. ASSUME NEW s \in DOMAIN list' , s \in DOMAIN list PROVE list'[s] = list[s]
  <2> HIDE DEF more
  <2> QED BY <1>1, <1>2, <1>3, <1>4, <1>6
<1> QED BY <1>1, <1>2, <1>3, <1>4, <1>5, <1>6

\* What a slot is given leaves a list of the same length.
LEMMA SlotPut ==
  ASSUME NEW v \in Handles \cup {None}, NEW s \in Nat, list \in Seq(Handles \cup {None}), list' = [list EXCEPT ![s] = v]
  PROVE  /\ list' \in Seq(Handles \cup {None}) /\ Len(list') = Len(list) /\ DOMAIN list' = DOMAIN list
         /\ \A r \in DOMAIN list : list'[r] = IF r = s THEN v ELSE list[r]
<1>1. DOMAIN list = 1 .. Len(list) /\ list = [i \in 1 .. Len(list) |-> list[i]]
  OBVIOUS
<1>2. CASE s \in 1 .. Len(list)
  BY <1>1, <1>2, ExceptSeq
<1>3. CASE s \notin 1 .. Len(list)
  <2>1. list' = [i \in 1 .. Len(list) |-> list[i]]
    <3>1. list' = [i \in DOMAIN list |-> IF i = s THEN v ELSE list[i]]
      BY Zenon
    <3>2. \A i \in DOMAIN list : i # s
      BY <1>1, <1>3
    <3> QED BY <1>1, <3>1, <3>2, Zenon
  <2>2. list' = list
    BY <1>1, <2>1
  <2> QED BY <1>1, <1>3, <2>2
<1> QED BY <1>2, <1>3

\* A step leaves the library in its range.
LEMMA LibraryStep ==
  ASSUME LibraryTypes, ThreadTypes, NEW t \in Tids, Step(t)
  PROVE  LibraryTypes' /\ Len(list) <= Len(list')
<1> USE DEF LibraryTypes, ThreadTypes, Keep, library
<1>1. ASSUME Enter(t) \/ SetInit(t) \/ InitMutex(t) \/ Lock(t) \/ Unlock(t) \/ FindRunning(t) PROVE LibraryTypes' /\ list' = list
  BY <1>1 DEF Enter, SetInit, InitMutex, Lock, Unlock, FindRunning, Free
<1>2. ASSUME FindGrow(t) PROVE LibraryTypes' /\ Len(list) <= Len(list')
  <2>1. UNCHANGED <<lib, inited, mtx>>
    BY <1>2 DEF FindGrow
  <2>2. CASE list' = list
    BY <2>1, <2>2
  <2>3. CASE list' = list \o [i \in 1 .. Incr |-> None] /\ Len(list) + Incr <= MaxSlots
    BY <2>1, <2>3, Longer, SlotsAssumption
  <2> QED BY <1>2, <2>2, <2>3 DEF FindGrow
<1>3. ASSUME Place(t) \/ Clear(t) PROVE LibraryTypes' /\ Len(list) <= Len(list')
  <2>1. PICK v \in Handles \cup {None} : list' = [list EXCEPT ![slot[t]] = v] /\ UNCHANGED <<lib, inited, mtx>>
    BY <1>3 DEF Place, Clear, Handles
  <2>2. slot[t] \in Nat
    BY SlotsAssumption
  <2>3. list' \in Seq(Handles \cup {None}) /\ Len(list') = Len(list)
    BY <2>1, <2>2, SlotPut
  <2>4. Len(list) \in Int /\ MaxSlots \in Int
    BY SlotsAssumption
  <2> QED BY <2>1, <2>3, <2>4
<1>4. ASSUME ~(Enter(t) \/ SetInit(t) \/ InitMutex(t) \/ Lock(t) \/ Unlock(t) \/ FindRunning(t)), ~FindGrow(t), ~(Place(t) \/ Clear(t))
      PROVE UNCHANGED library
  BY <1>4 DEF Step, FindIdle, FindEmpty, PlaceFails, Look, Create, CreateFails, SetId, SetRunning, Check, Join, Joined,
              Cancel, Self, SelfId, Once, Func, SetDone
<1> QED BY <1>1, <1>2, <1>3, <1>4

\* A step leaves the handles in their range.
LEMMA HandleStep ==
  ASSUME HandleTypes, ThreadTypes, NEW t \in Tids, Step(t)
  PROVE  HandleTypes'
<1> USE DEF HandleTypes, ThreadTypes, Keep, handle
<1>1. ASSUME FindGrow(t) \/ Clear(t) PROVE HandleTypes'
  BY <1>1 DEF FindGrow, Clear
<1>2. ASSUME Place(t) PROVE HandleTypes'
  BY <1>2 DEF Place
<1>3. ASSUME Create(t) PROVE HandleTypes'
  BY <1>3 DEF Create
<1>4. ASSUME SetId(t) PROVE HandleTypes'
  BY <1>4 DEF SetId
<1>5. ASSUME SetRunning(t) \/ Joined(t) \/ Cancel(t) PROVE HandleTypes'
  BY <1>5 DEF SetRunning, Joined, Cancel
<1>6. ASSUME ~(FindGrow(t) \/ Clear(t)), ~Place(t), ~Create(t), ~SetId(t), ~(SetRunning(t) \/ Joined(t) \/ Cancel(t)),
             ~PlaceFails(t), ~CreateFails(t)
      PROVE UNCHANGED handle
  BY <1>6 DEF Step, Enter, SetInit, InitMutex, Lock, FindRunning, FindIdle, FindEmpty, Unlock, Look,
              Check, Join, Self, SelfId, Once, Func, SetDone
<1>7. ASSUME PlaceFails(t) PROVE HandleTypes'
  BY <1>7 DEF PlaceFails
<1>8. ASSUME CreateFails(t) PROVE HandleTypes'
  BY <1>8 DEF CreateFails
<1> QED BY <1>1, <1>2, <1>3, <1>4, <1>5, <1>6, <1>7, <1>8

\* A step leaves the call of its thread on a handle, and a slot of the list.
LEMMA ThreadStep ==
  ASSUME LibraryTypes, ThreadTypes, NEW t \in Tids, Step(t), pc \in [Tids -> Labels],
         pc[t] = "selfid" => slot[t] <= Len(list)
  PROVE  ThreadTypes' /\ (pc'[t] = "selfid" => slot'[t] <= Len(list'))
<1> DEFINE Goal == ThreadTypes' /\ (pc'[t] = "selfid" => slot'[t] <= Len(list'))
<1>0. 1 \in 1 .. MaxSlots + 1 /\ \A s \in DOMAIN list : s \in 1 .. MaxSlots + 1 /\ s + 1 \in 1 .. MaxSlots + 1
  BY SlotsAssumption DEF LibraryTypes
<1> USE DEF ThreadTypes, Keep, Goto, Return, GotoSlot
<1>1. ASSUME Enter(t) \/ SetInit(t) \/ InitMutex(t) \/ Lock(t) \/ PlaceFails(t) \/ Unlock(t) PROVE Goal
  BY <1>0, <1>1 DEF Enter, SetInit, InitMutex, Lock, PlaceFails, Unlock
<1>2. ASSUME FindRunning(t) \/ FindIdle(t) \/ FindEmpty(t) \/ Look(t) PROVE Goal
  <2>1. \/ \E v \in Handles \cup {None} : Slots(v) # {} /\ GotoSlot(t, First(v), pc'[t])
        \/ Goto(t, "fail")
    BY <1>2 DEF FindRunning, FindIdle, FindEmpty, Look
  <2>2. pc'[t] # "selfid"
    BY <1>2 DEF FindRunning, FindIdle, FindEmpty, Look
  <2> QED BY <1>0, <2>1, <2>2, FirstSlot DEF LibraryTypes
<1>3. ASSUME FindGrow(t) PROVE Goal
  <2>1. Len(list) + Incr <= MaxSlots => Len(list) + 1 \in 1 .. MaxSlots + 1
    BY SlotsAssumption DEF LibraryTypes
  <2> QED BY <1>3, <2>1 DEF FindGrow
<1>4. ASSUME Place(t) \/ Clear(t) PROVE Goal
  BY <1>4 DEF Place, Clear, Handles
<1>5. ASSUME Create(t) \/ CreateFails(t) \/ SetId(t) \/ SetRunning(t) PROVE Goal
  BY <1>0, <1>5 DEF Create, CreateFails, SetId, SetRunning
<1>6. ASSUME Check(t) \/ Join(t) \/ Joined(t) \/ Cancel(t) PROVE Goal
  BY <1>0, <1>6 DEF Check, Join, Joined, Cancel
<1>7. ASSUME Self(t) \/ SelfId(t) PROVE Goal
  <2>0. slot[t] <= Len(list) => slot[t] \in DOMAIN list
    BY DEF LibraryTypes
  <2>1. slot[t] <= Len(list) => slot[t] + 1 \in 1 .. MaxSlots + 1 /\ list[slot[t]] \in Handles \cup {None}
    BY <1>0, <2>0 DEF LibraryTypes
  <2>2. CASE Self(t)
    BY <1>0, <2>1, <2>2 DEF Self, library
  <2>3. CASE SelfId(t)
    BY <1>0, <2>1, <2>3 DEF SelfId, library
  <2> QED BY <1>7, <2>2, <2>3
<1>8. ASSUME Once(t) \/ Func(t) \/ SetDone(t) PROVE Goal
  BY <1>0, <1>8 DEF Once, Func, SetDone
<1> QED BY <1>1, <1>2, <1>3, <1>4, <1>5, <1>6, <1>7, <1>8 DEF Step

\* A step of t leaves the place of the other threads alone.
LEMMA Others ==
  ASSUME NEW t \in Tids, Step(t), pc \in [Tids -> Labels], call \in [Tids -> DOMAIN Start \cup {"none"}], ThreadTypes
  PROVE  \A u \in Tids \ {t} : pc'[u] = pc[u] /\ call'[u] = call[u] /\ arg'[u] = arg[u] /\ slot'[u] = slot[u]
<1> USE DEF ThreadTypes, Goto, GotoSlot, Return
<1>1. ASSUME Place(t) PROVE \A u \in Tids \ {t} : pc'[u] = pc[u] /\ call'[u] = call[u] /\ arg'[u] = arg[u] /\ slot'[u] = slot[u]
  BY <1>1 DEF Place
<1>2. ASSUME Self(t) \/ SelfId(t) PROVE \A u \in Tids \ {t} : pc'[u] = pc[u] /\ call'[u] = call[u] /\ arg'[u] = arg[u] /\ slot'[u] = slot[u]
  BY <1>2 DEF Self, SelfId
<1>3. ASSUME ~Place(t), ~Self(t), ~SelfId(t)
      PROVE  Return(t) \/ (\E l : Goto(t, l)) \/ \E s, l : GotoSlot(t, s, l)
  <2> HIDE DEF Goto, GotoSlot, Return
  <2> QED BY <1>3 DEF Step, Enter, SetInit, InitMutex, Lock, FindRunning, FindIdle, FindEmpty, FindGrow, PlaceFails,
             Unlock, Look, Clear, Create, CreateFails, SetId, SetRunning, Check, Join, Joined, Cancel, Once, Func, SetDone
<1> QED BY <1>1, <1>2, <1>3

\* A call takes its arguments; it begins the use of a handle vtopen is given.
LEMMA CallTypes ==
  ASSUME TypeInv, NEW t \in Tids, Call(t)
  PROVE  TypeInv'
<1>1. PICK c \in Calls[t] : \E h \in Arguments(t, c) :
        /\ call' = [call EXCEPT ![t] = c] /\ arg' = [arg EXCEPT ![t] = h] /\ pc' = [pc EXCEPT ![t] = Start[c]]
        /\ user' = IF c = "open" /\ h # None THEN [user EXCEPT ![h] = t] ELSE user
  BY DEF Call
<1>2. c \in DOMAIN Start /\ Start[c] # "selfid"
  BY CallsAssumption DEF Start
<1>0. PICK h \in Arguments(t, c) :
        /\ call' = [call EXCEPT ![t] = c] /\ arg' = [arg EXCEPT ![t] = h] /\ pc' = [pc EXCEPT ![t] = Start[c]]
        /\ user' = IF c = "open" /\ h # None THEN [user EXCEPT ![h] = t] ELSE user
  BY <1>1
<1>3. h \in Handles \cup {None}
  BY <1>0, <1>2, CallsAssumption DEF Arguments, Mine, Handles
<1>4. OnceInv'
  BY CallKeeps DEF TypeInv
<1>5. PthreadTypes' /\ LibraryTypes' /\ UNCHANGED control /\ UNCHANGED <<list, slot>>
  BY TypeParts DEF TypeInv, PthreadTypes, LibraryTypes, Call, pthreads, library
<1>6. HandleTypes'
  BY <1>0, <1>3, TypeParts DEF TypeInv, HandleTypes, Call
<1>7. ThreadTypes'
  BY <1>0, <1>3, <1>5, TypeParts DEF TypeInv, ThreadTypes
<1>8. TypeOK'
  BY <1>4, <1>5, <1>6, <1>7, TypePartsNext
<1>9. \A u \in Tids : pc'[u] = "selfid" => pc[u] = "selfid"
  BY <1>0, <1>2, TypeParts DEF TypeInv
<1> QED BY <1>4, <1>5, <1>8, <1>9 DEF TypeInv

\* Every step keeps the types.
LEMMA TypeNext == TypeInv /\ [Next]_vars => TypeInv'
<1> SUFFICES ASSUME TypeInv, [Next]_vars PROVE TypeInv'
  OBVIOUS
<1>0. OnceInv'
  BY OnceNext DEF TypeInv
<1>1. CASE UNCHANGED vars
  <2>1. UNCHANGED <<os, job, lib, inited, mtx, list>> /\ UNCHANGED <<running, waited, self, id, user>>
        /\ UNCHANGED <<ctl, done, ran, pc, call, arg, slot>>
    BY <1>1 DEF vars, pthreads, library, handle, control
  <2>2. PthreadTypes' /\ LibraryTypes' /\ HandleTypes' /\ ThreadTypes'
    BY <2>1, TypeParts DEF TypeInv, PthreadTypes, LibraryTypes, HandleTypes, ThreadTypes
  <2>3. TypeOK'
    BY <1>0, <2>2, TypePartsNext
  <2> QED BY <1>0, <2>1, <2>3 DEF TypeInv
<1>2. ASSUME NEW t \in Tids, Call(t) PROVE TypeInv'
  BY <1>2, CallTypes
<1>3. ASSUME NEW t \in Tids, Step(t) PROVE TypeInv'
  <2>1. PthreadTypes /\ LibraryTypes /\ HandleTypes /\ ThreadTypes /\ OnceInv
    BY TypeParts DEF TypeInv
  <2>2. PthreadTypes' /\ LibraryTypes' /\ HandleTypes' /\ ThreadTypes' /\ Len(list) <= Len(list')
    BY <1>3, <2>1, PthreadStep, LibraryStep, HandleStep, ThreadStep DEF TypeInv, OnceInv
  <2>3. TypeOK'
    BY <1>0, <2>2, TypePartsNext
  <2>4. pc'[t] = "selfid" => slot'[t] <= Len(list')
    BY <1>3, <2>1, ThreadStep DEF TypeInv, OnceInv
  <2>5. ASSUME NEW u \in Tids \ {t}, pc'[u] = "selfid" PROVE slot'[u] <= Len(list')
    <3>1. pc[u] = "selfid" /\ slot'[u] = slot[u]
      BY <1>3, <2>1, <2>5, Others DEF OnceInv
    <3>2. slot[u] <= Len(list) /\ slot[u] \in Int
      BY <2>1, <3>1, SlotsAssumption DEF TypeInv, ThreadTypes
    <3>3. Len(list) \in Int /\ Len(list') \in Int
      BY <2>1, <2>2 DEF LibraryTypes
    <3> QED BY <2>2, <3>1, <3>2, <3>3
  <2> QED BY <1>0, <2>3, <2>4, <2>5 DEF TypeInv
<1>4. ASSUME NEW t \in Pool, End(t) PROVE TypeInv'
  BY <1>0, <1>4 DEF TypeInv, TypeOK, End, library, handle, control
<1> QED BY <1>1, <1>2, <1>3, <1>4 DEF Next

\* Every variable stays in its range, whatever the threads call and whenever.
THEOREM TypeCorrect == Spec => []TypeOK
<1>1. TypeInv => TypeOK
  BY DEF TypeInv
<1> QED BY <1>1, TypeInit, TypeNext, PTL DEF Spec

----------------------------------------------------------------------------
(* The mutex of the library, and who has a handle.  The application makes  *)
(* its first call before it starts another thread.                         *)

NoRace == "race" \notin Habits

\* Where a thread is inside the mutex of the library.
Inside(t) ==
  \/ pc[t] \in {"find", "place", "unlock", "fail", "look", "clear"}
  \/ call[t] = "close" /\ pc[t] \in {"check", "join", "joined"}

Early == {"enter", "init", "initmtx", "lock", "find"}

\* The handle of a call belongs to its thread, until vtclose (or a vtopen
\* that failed) has given it up; only a vtopen has none yet.
Owns(t) ==
  call[t] \in {"open", "run", "wait", "kill", "close"} =>
    /\ arg[t] = None => call[t] = "open" /\ pc[t] \in Early \cup {"place", "fail"}
    /\ arg[t] # None /\ pc[t] \notin {"unlock", "fail"} => user[arg[t]] = t

\* Until the library is initialised only the main thread has made a call, its
\* first, and nothing is listed, started or opened.
Boot ==
  /\ inited => lib # "never"
  /\ \A t \in Tids : pc[t] \in {"init", "initmtx"} => t = Main /\ lib = "running"
  /\ lib = "running" => pc[Main] \in {"init", "initmtx"}
  /\ lib # "done" =>
       /\ list = <<>>
       /\ \A t \in Tids \ {Main} : pc[t] = "idle"
       /\ \A u \in Pool : os[u] = "none"
       /\ pc[Main] \in {"idle", "enter", "init", "initmtx", "self", "selfid", "once", "func", "flag"}
       /\ \A h \in Handles : user[h] # None => call[Main] = "open" /\ arg[Main] = h

LockInv ==
  /\ TypeInv /\ Boot
  /\ \A t \in Tids : Owns(t) /\ (Inside(t) => mtx = t)

\* A step of t enters the mutex only when it gets it, and gives back no other's.
LEMMA LockStep ==
  ASSUME LockInv, NEW t \in Tids, Step(t)
  PROVE  /\ Inside(t)' => mtx' = t
         /\ \A u \in Tids \ {t} : Inside(u) => mtx' = u
<1> DEFINE Goal == (Inside(t)' => mtx' = t) /\ \A u \in Tids \ {t} : Inside(u) => mtx' = u
<1>1. /\ pc \in [Tids -> Labels] /\ call \in [Tids -> DOMAIN Start \cup {"none"}] /\ PlaceInv(t)
      /\ \A u \in Tids : u # None /\ (Inside(u) => mtx = u)
  BY IdsAssumption DEF LockInv, TypeInv, OnceInv
<1> USE <1>1 DEF Inside, PlaceInv, OnceLabels, Goto, GotoSlot, Return, Keep
<1>2. ASSUME InitMutex(t) PROVE Goal
  <2>1. \A u \in Tids \ {t} : pc[u] = "idle"
    BY <1>2 DEF LockInv, Boot, InitMutex
  <2> QED BY <1>2, <2>1 DEF InitMutex
<1>3. ASSUME Enter(t) \/ SetInit(t) PROVE Goal
  BY <1>3 DEF Enter, SetInit
<1>4. ASSUME Lock(t) \/ Unlock(t) \/ FindRunning(t) PROVE Goal
  <2>1. CASE Lock(t)
    BY <2>1 DEF Lock
  <2>2. CASE Unlock(t)
    BY <2>2 DEF Unlock, Free
  <2>3. CASE FindRunning(t)
    BY <2>3 DEF FindRunning, Free
  <2> QED BY <1>4, <2>1, <2>2, <2>3
<1>5. ASSUME FindIdle(t) \/ FindEmpty(t) \/ FindGrow(t) PROVE Goal
  BY <1>5 DEF FindIdle, FindEmpty, FindGrow, library
<1>6. ASSUME Place(t) \/ PlaceFails(t) \/ Look(t) \/ Clear(t) PROVE Goal
  BY <1>6 DEF Place, PlaceFails, Look, Clear, library
<1>7. ASSUME Create(t) \/ CreateFails(t) \/ SetId(t) \/ SetRunning(t) \/ Cancel(t) PROVE Goal
  BY <1>7 DEF Create, CreateFails, SetId, SetRunning, Cancel, library
<1>8. ASSUME Check(t) \/ Join(t) \/ Joined(t) PROVE Goal
  BY <1>8 DEF Check, Join, Joined, library
<1>9. ASSUME Self(t) \/ SelfId(t) \/ Once(t) \/ Func(t) \/ SetDone(t) PROVE Goal
  BY <1>9 DEF Self, SelfId, Once, Func, SetDone, library
<1> QED BY <1>2, <1>3, <1>4, <1>5, <1>6, <1>7, <1>8, <1>9 DEF Step

\* A step of t gives and takes only its own handles, and leaves its call on
\* one of these.
LEMMA OwnStep ==
  ASSUME LockInv, NEW t \in Tids, Step(t)
  PROVE  /\ Owns(t)'
         /\ \A h \in Handles : user'[h] = user[h] \/ (user[h] \in {None, t} /\ user'[h] \in {None, t})
<1> DEFINE Mover == \A h \in Handles : user'[h] = user[h] \/ (user[h] \in {None, t} /\ user'[h] \in {None, t})
<1>1. /\ pc \in [Tids -> Labels] /\ call \in [Tids -> DOMAIN Start \cup {"none"}] /\ PlaceInv(t) /\ Owns(t)
      /\ arg \in [Tids -> Handles \cup {None}] /\ user \in [Handles -> Tids \cup {None}]
      /\ None \notin Handles
  BY IdsAssumption, TypeParts DEF LockInv, TypeInv, OnceInv, ThreadTypes, HandleTypes
<1> USE <1>1 DEF Owns, PlaceInv, OnceLabels, Goto, GotoSlot, Return, Keep, Early
<1>3. ASSUME Enter(t) \/ SetInit(t) \/ InitMutex(t) PROVE Owns(t)' /\ Mover
  BY <1>3 DEF Enter, SetInit, InitMutex, handle
<1>4. ASSUME Lock(t) \/ Unlock(t) \/ FindRunning(t) PROVE Owns(t)' /\ Mover
  BY <1>4 DEF Lock, Unlock, FindRunning, handle
<1>5. ASSUME FindIdle(t) \/ FindEmpty(t) PROVE Owns(t)' /\ Mover
  BY <1>5 DEF FindIdle, FindEmpty, handle
<1>6. ASSUME FindGrow(t) PROVE Owns(t)' /\ Mover
  BY <1>6 DEF FindGrow
<1>7. ASSUME Place(t) PROVE Owns(t)' /\ Mover
  BY <1>7 DEF Place, Handles
<1>8. ASSUME PlaceFails(t) \/ Look(t) \/ Clear(t) PROVE Owns(t)' /\ Mover
  BY <1>8 DEF PlaceFails, Look, Clear, handle
<1>9. ASSUME Create(t) \/ CreateFails(t) \/ SetId(t) \/ SetRunning(t) \/ Cancel(t) PROVE Owns(t)' /\ Mover
  BY <1>9 DEF Create, CreateFails, SetId, SetRunning, Cancel, handle
<1>10. ASSUME Check(t) \/ Join(t) \/ Joined(t) PROVE Owns(t)' /\ Mover
  BY <1>10 DEF Check, Join, Joined, handle
<1>11. ASSUME Self(t) \/ SelfId(t) \/ Once(t) \/ Func(t) \/ SetDone(t) PROVE Owns(t)' /\ Mover
  BY <1>11 DEF Self, SelfId, Once, Func, SetDone, handle
<1> QED BY <1>3, <1>4, <1>5, <1>6, <1>7, <1>8, <1>9, <1>10, <1>11 DEF Step

\* Until the library is initialised the main thread goes on with its first call.
LEMMA BootStep ==
  ASSUME LockInv, NEW t \in Tids, Step(t)
  PROVE  Boot'
<1>1. /\ pc \in [Tids -> Labels] /\ call \in [Tids -> DOMAIN Start \cup {"none"}] /\ PlaceInv(t) /\ Boot
      /\ arg \in [Tids -> Handles \cup {None}] /\ Main \in Tids
  BY TypeParts, IdsAssumption DEF LockInv, TypeInv, OnceInv, ThreadTypes, Tids
<1>2. pc[t] # "idle"
  BY DEF Step, Enter, SetInit, InitMutex, Lock, FindRunning, FindIdle, FindEmpty, FindGrow, Place, PlaceFails, Unlock, Look, Clear,
         Create, CreateFails, SetId, SetRunning, Check, Join, Joined, Cancel, Self, SelfId, Once, Func, SetDone
<1>3. ASSUME Enter(t) \/ SetInit(t) \/ InitMutex(t) PROVE Boot'
  <2> USE <1>1, <1>2 DEF Boot, Keep, pthreads, handle, Goto, PlaceInv
  <2>1. CASE Enter(t)
    <3>1. inited \/ lib = "done" => lib = "done"
      <4>1. pc[t] = "enter" /\ lib \in {"never", "running", "done"}
        BY <2>1, TypeParts DEF Enter, LockInv, TypeInv, LibraryTypes
      <4> QED BY <4>1 DEF Enter
    <3>2. UNCHANGED <<list, os, user, call, arg, inited>>
      BY <2>1 DEF Enter
    <3>3. CASE lib = "done" /\ UNCHANGED lib /\ pc' = [pc EXCEPT ![t] = "lock"]
      BY <3>2, <3>3
    <3>4. CASE ~inited /\ lib = "never" /\ lib' = "running" /\ pc' = [pc EXCEPT ![t] = "init"]
      <4>1. t = Main /\ \A u \in Tids \ {Main} : pc'[u] = "idle"
        BY <3>4
      <4>2. pc'[Main] = "init"
        BY <3>4, <4>1
      <4> QED BY <3>2, <3>4, <4>1, <4>2
    <3> QED BY <2>1, <3>1, <3>3, <3>4 DEF Enter
  <2>2. CASE SetInit(t)
    <3>1. t = Main /\ lib = "running"
      BY <2>2 DEF SetInit
    <3>2. (\A u \in Tids \ {Main} : pc'[u] = pc[u]) /\ pc'[Main] = "initmtx"
      BY <2>2, <3>1 DEF SetInit
    <3>3. UNCHANGED <<lib, list, os, user, call, arg>>
      BY <2>2 DEF SetInit
    <3> HIDE DEF Keep, Goto, PlaceInv
    <3> QED BY <3>1, <3>2, <3>3
  <2>3. CASE InitMutex(t)
    BY <2>3 DEF InitMutex
  <2> QED BY <1>3, <2>1, <2>2, <2>3
<1>4. ASSUME Self(t) \/ SelfId(t) \/ Once(t) \/ Func(t) \/ SetDone(t) PROVE Boot'
  BY <1>1, <1>2, <1>4 DEF Boot, Self, SelfId, Once, Func, SetDone, pthreads, handle, library, Goto, GotoSlot, Return, PlaceInv, OnceLabels
<1>5. ASSUME ~(Enter(t) \/ SetInit(t) \/ InitMutex(t)), ~(Self(t) \/ SelfId(t) \/ Once(t) \/ Func(t) \/ SetDone(t)) PROVE Boot'
  <2>1. pc[t] \notin {"idle", "enter", "init", "initmtx", "self", "selfid", "once", "func", "flag"}
    BY <1>5 DEF Step, Lock, FindRunning, FindIdle, FindEmpty, FindGrow, Place, PlaceFails, Unlock, Look, Clear,
         Create, CreateFails, SetId, SetRunning, Check, Join, Joined, Cancel
  <2>2. lib = "done"
    BY <1>1, <2>1 DEF Boot
  <2>3. lib' = lib
    BY <1>5 DEF Step, Lock, FindRunning, FindIdle, FindEmpty, FindGrow, Place, PlaceFails, Unlock, Look, Clear,
         Create, CreateFails, SetId, SetRunning, Check, Join, Joined, Cancel, library
  <2>4. pc'[t] \notin {"init", "initmtx"}
    BY <1>1, <1>5 DEF Step, Lock, FindRunning, FindIdle, FindEmpty, FindGrow, Place, PlaceFails, Unlock, Look, Clear,
         Create, CreateFails, SetId, SetRunning, Check, Join, Joined, Cancel, Goto, GotoSlot, Return
  <2>5. \A u \in Tids : pc'[u] \notin {"init", "initmtx"}
    BY <1>1, <2>2, <2>4, Others, TypeParts DEF Boot, LockInv, TypeInv
  <2> QED BY <2>2, <2>3, <2>5 DEF Boot
<1> QED BY <1>3, <1>4, <1>5

\* The library, its mutex and the handles are free at the start.
LEMMA LockInit == Init => LockInv
<1> SUFFICES ASSUME Init PROVE LockInv
  OBVIOUS
<1>1. TypeInv
  BY TypeInit
<1>2. /\ lib = "never" /\ inited = FALSE /\ list = <<>> /\ \A t \in Tids : pc[t] = "idle" /\ call[t] = "none"
      /\ \A h \in Handles : user[h] = None
  BY DEF Init
<1>3. Main \in Tids /\ \A u \in Pool : os[u] = "none"
  BY IdsAssumption DEF Init, Tids
<1> QED BY <1>1, <1>2, <1>3 DEF LockInv, Boot, Owns, Inside

\* What a call takes: a handle of its own, or for vtopen one nobody has.
LEMMA CallTakes ==
  ASSUME TypeInv, NEW t \in Tids, Call(t)
  PROVE  \E c \in DOMAIN Start, h \in Handles \cup {None} :
           /\ call' = [call EXCEPT ![t] = c] /\ arg' = [arg EXCEPT ![t] = h] /\ pc' = [pc EXCEPT ![t] = Start[c]]
           /\ user' = IF c = "open" /\ h # None THEN [user EXCEPT ![h] = t] ELSE user
           /\ c = "open" => h = None \/ user[h] \in {None, t}
           /\ c \in {"run", "wait", "kill", "close"} => h # None /\ user[h] = t
           /\ c = "run" => ~running[h]
<1>1. PICK c \in Calls[t] : \E h \in Arguments(t, c) :
        /\ call' = [call EXCEPT ![t] = c] /\ arg' = [arg EXCEPT ![t] = h] /\ pc' = [pc EXCEPT ![t] = Start[c]]
        /\ user' = IF c = "open" /\ h # None THEN [user EXCEPT ![h] = t] ELSE user
  BY DEF Call
<1>2. PICK h \in Arguments(t, c) :
        /\ call' = [call EXCEPT ![t] = c] /\ arg' = [arg EXCEPT ![t] = h] /\ pc' = [pc EXCEPT ![t] = Start[c]]
        /\ user' = IF c = "open" /\ h # None THEN [user EXCEPT ![h] = t] ELSE user
  BY <1>1
<1>3. c \in {"open", "run", "wait", "kill", "close", "self", "once"} /\ c \in DOMAIN Start
  BY CallsAssumption DEF Start
<1>4. /\ h \in Handles \cup {None}
      /\ c = "open" => h = None \/ user[h] \in {None, t}
      /\ c \in {"run", "wait", "kill", "close"} => h # None /\ user[h] = t
      /\ c = "run" => ~running[h]
  BY <1>2, <1>3, IdsAssumption DEF Arguments, Mine, Handles
<1> QED BY <1>2, <1>3, <1>4

\* A call keeps the invariant: nobody but the main thread makes one before the
\* library is initialised.
LEMMA LockCall ==
  ASSUME NoRace, LockInv, NEW t \in Tids, Call(t)
  PROVE  LockInv'
<1>1. PICK c \in DOMAIN Start, h \in Handles \cup {None} :
           /\ call' = [call EXCEPT ![t] = c] /\ arg' = [arg EXCEPT ![t] = h] /\ pc' = [pc EXCEPT ![t] = Start[c]]
           /\ user' = IF c = "open" /\ h # None THEN [user EXCEPT ![h] = t] ELSE user
           /\ c = "open" => h = None \/ user[h] \in {None, t}
           /\ c \in {"run", "wait", "kill", "close"} => h # None /\ user[h] = t
  BY CallTakes DEF LockInv
<1>2. /\ pc \in [Tids -> Labels] /\ call \in [Tids -> DOMAIN Start \cup {"none"}] /\ PlaceInv(t)
      /\ arg \in [Tids -> Handles \cup {None}] /\ user \in [Handles -> Tids \cup {None}] /\ Boot
      /\ Main \in Tids /\ None \notin Handles /\ None \notin Tids
  BY TypeParts, IdsAssumption DEF LockInv, TypeInv, OnceInv, ThreadTypes, HandleTypes, Tids
<1>3. /\ c \in {"open", "run", "wait", "kill", "close", "self", "once"}
      /\ c = "open" => Start[c] = "enter"
      /\ c = "self" => Start[c] = "self"
      /\ c = "once" => Start[c] = "once"
      /\ Start[c] \in {"enter", "create", "check", "lock", "self", "once"}
      /\ Start[c] \in {"check", "enter"} => c # "close"
  BY DEF Start
<1>4. \A u \in Tids \ {t} : pc'[u] = pc[u] /\ call'[u] = call[u] /\ arg'[u] = arg[u]
  BY <1>1, <1>2
<1>5. pc'[t] = Start[c] /\ call'[t] = c /\ arg'[t] = h /\ pc[t] = "idle"
  BY <1>1, <1>2 DEF Call
<1>6. UNCHANGED <<lib, inited, list, mtx, os>>
  BY DEF Call, library, pthreads
<1>7. \A u \in Tids : Owns(u)'
  <2>1. Owns(t)'
    BY <1>1, <1>2, <1>3, <1>5 DEF Owns, Early
  <2>2. ASSUME NEW u \in Tids \ {t} PROVE Owns(u)'
    <3>1. Owns(u) /\ arg[u] \in Handles \cup {None}
      BY <1>2 DEF LockInv
    <3>2. arg[u] # None /\ user[arg[u]] = u => user'[arg[u]] = u
      BY <1>1, <1>2, <3>1
    <3> QED BY <1>4, <3>1, <3>2 DEF Owns
  <2> QED BY <2>1, <2>2
<1>8. \A u \in Tids : Inside(u)' => mtx' = u
  BY <1>3, <1>4, <1>5, <1>6 DEF LockInv, Inside
<1>9. Boot'
  <2>1. CASE lib = "done"
    BY <1>2, <1>3, <1>4, <1>5, <1>6, <2>1 DEF Boot
  <2>2. CASE lib # "done"
    <3>1. t = Main
      BY <1>2, <2>2 DEF NoRace, Boot, Call, Tids
    <3>2. \A g \in Handles : user[g] = None
      BY <1>2, <1>5, <2>2, <3>1 DEF Boot, PlaceInv
    <3>3. c \in {"open", "self", "once"}
      BY <1>1, <1>2, <1>3, <3>2
    <3>4. \A g \in Handles : user'[g] # None => c = "open" /\ h = g
      BY <1>1, <1>2, <3>2
    <3> QED BY <1>2, <1>3, <1>4, <1>5, <1>6, <2>2, <3>1, <3>3, <3>4 DEF Boot
  <2> QED BY <2>1, <2>2
<1>10. TypeInv'
  BY CallTypes DEF LockInv
<1> QED BY <1>7, <1>8, <1>9, <1>10 DEF LockInv

\* The end of a started thread touches none of it.
LEMMA LockEnd ==
  ASSUME LockInv, NEW t \in Pool, End(t)
  PROVE  LockInv'
<1>1. TypeInv'
  BY TypeNext DEF LockInv, Next
<1>2. UNCHANGED <<lib, inited, mtx, list, user, pc, call, arg>>
  BY DEF End, library, handle
<1>3. lib = "done" /\ Boot
  BY DEF LockInv, Boot, End
<1>4. Boot'
  BY <1>2, <1>3 DEF Boot
<1> QED BY <1>1, <1>2, <1>4 DEF LockInv, Owns, Inside

\* Every step keeps the invariant of the mutex.
LEMMA LockNext ==
  ASSUME NoRace, LockInv, [Next]_vars
  PROVE  LockInv'
<1>1. CASE UNCHANGED vars
  <2>1. UNCHANGED <<lib, inited, mtx, list, user, pc, call, arg, os>>
    BY <1>1 DEF vars, library, handle, pthreads
  <2>2. TypeInv'
    BY TypeNext DEF LockInv
  <2> QED BY <2>1, <2>2 DEF LockInv, Boot, Owns, Inside
<1>2. ASSUME NEW t \in Tids, Call(t) PROVE LockInv'
  BY <1>2, LockCall
<1>3. ASSUME NEW t \in Tids, Step(t) PROVE LockInv'
  <2>1. /\ pc \in [Tids -> Labels] /\ call \in [Tids -> DOMAIN Start \cup {"none"}] /\ ThreadTypes
        /\ arg \in [Tids -> Handles \cup {None}] /\ None \notin Tids
    BY TypeParts, IdsAssumption DEF LockInv, TypeInv, OnceInv, ThreadTypes
  <2>2. \A u \in Tids \ {t} : pc'[u] = pc[u] /\ call'[u] = call[u] /\ arg'[u] = arg[u]
    BY <1>3, <2>1, Others
  <2>3. TypeInv'
    BY TypeNext DEF LockInv
  <2>4. Boot'
    BY <1>3, BootStep
  <2>5. \A u \in Tids : Inside(u)' => mtx' = u
    BY <1>3, <2>2, LockStep DEF Inside
  <2>6. \A u \in Tids : Owns(u)'
    <3>1. Owns(t)'
      BY <1>3, OwnStep
    <3>2. ASSUME NEW u \in Tids \ {t} PROVE Owns(u)'
      <4>1. Owns(u) /\ arg[u] \in Handles \cup {None}
        BY <2>1 DEF LockInv
      <4>2. arg[u] # None /\ user[arg[u]] = u => user'[arg[u]] = u
        BY <1>3, <2>1, <4>1, OwnStep
      <4> QED BY <2>2, <4>1, <4>2 DEF Owns
    <3> QED BY <3>1, <3>2
  <2> QED BY <2>3, <2>4, <2>5, <2>6 DEF LockInv
<1>4. ASSUME NEW t \in Pool, End(t) PROVE LockInv'
  BY <1>4, LockEnd
<1> QED BY <1>1, <1>2, <1>3, <1>4 DEF Next

----------------------------------------------------------------------------
(* The list.                                                               *)

\* Handle h is in slot s and no other; or in none.
At(h, s) == s \in DOMAIN list /\ \A r \in DOMAIN list : list[r] = h <=> r = s
Unlisted(h) == \A r \in DOMAIN list : list[r] # h

Opening(t, h) == call[t] = "open" /\ arg[t] = h /\ pc[t] \in Early \cup {"place"}

\* A handle nobody has is in no slot; one that somebody has is in one, or is
\* being opened.
Listed(h) ==
  /\ user[h] = None => Unlisted(h)
  /\ user[h] # None => (\E s \in DOMAIN list : At(h, s)) \/ (Unlisted(h) /\ Opening(user[h], h))

\* The slot a thread remembers: free, or that of its handle.
Remembers(t) ==
  /\ pc[t] = "place" =>
       /\ slot[t] \in DOMAIN list
       /\ \/ list[slot[t]] = None /\ (arg[t] # None => Unlisted(arg[t]))
          \/ arg[t] # None /\ At(arg[t], slot[t])
  /\ call[t] = "open" /\ pc[t] \in {"check", "join", "joined", "relock"} => At(arg[t], slot[t])
  /\ call[t] = "close" /\ pc[t] \in {"check", "join", "joined", "clear"} => At(arg[t], slot[t])

ListInv ==
  /\ LockInv
  /\ \A h \in Handles : Listed(h)
  /\ \A t \in Tids : Remembers(t)

\* What is found in the list.
LEMMA FoundAt ==
  ASSUME TypeInv, NEW h \in Handles
  PROVE  /\ Slots(h) = {} <=> Unlisted(h)
         /\ \A s : At(h, s) => First(h) = s /\ Slots(h) = {s}
         /\ Listed(h) /\ Slots(h) # {} => At(h, First(h))
<1>1. Slots(h) = {} <=> Unlisted(h)
  BY DEF Slots, Unlisted
<1>2. list \in Seq(Handles \cup {None})
  BY TypeParts DEF TypeInv, LibraryTypes
<1>3. ASSUME NEW s, At(h, s) PROVE First(h) = s /\ Slots(h) = {s}
  <2>1. Slots(h) = {s}
    BY <1>3 DEF At, Slots
  <2>2. First(h) \in DOMAIN list /\ list[First(h)] = h
    BY <1>2, <2>1, FirstSlot
  <2> QED BY <1>3, <2>1, <2>2 DEF At
<1>4. Listed(h) /\ Slots(h) # {} => At(h, First(h))
  BY <1>1, <1>3 DEF Listed
<1> QED BY <1>1, <1>3, <1>4

\* What the proofs below need of the invariant.
Facts(t) ==
  /\ pc \in [Tids -> Labels] /\ call \in [Tids -> DOMAIN Start \cup {"none"}]
  /\ arg \in [Tids -> Handles \cup {None}] /\ user \in [Handles -> Tids \cup {None}]
  /\ slot \in [Tids -> 1 .. MaxSlots + 1]
  /\ list \in Seq(Handles \cup {None})
  /\ PlaceInv(t) /\ Owns(t) /\ Remembers(t) /\ (\A h \in Handles : Listed(h))
  /\ None \notin Handles /\ None \notin Tids

LEMMA ListFacts ==
  ASSUME ListInv, NEW t \in Tids
  PROVE  Facts(t)
  BY TypeParts, IdsAssumption DEF Facts, ListInv, LockInv, TypeInv, OnceInv, ThreadTypes, HandleTypes, LibraryTypes

\* A step that leaves the list and the use of handles alone.
Apart(t) == UNCHANGED <<list, user>> /\ Remembers(t)' /\ \A h \in Handles : Opening(t, h) => Opening(t, h)' \/ ~Unlisted(h)

\* Every step but those that change the list or give a handle up.
LEMMA ApartStep ==
  ASSUME ListInv, NEW t \in Tids, Step(t), ~FindGrow(t), ~Place(t), ~PlaceFails(t), ~Clear(t)
  PROVE  Apart(t)
<1>0. Facts(t)
  BY ListFacts
<1> USE <1>0 DEF Facts, Apart, Remembers, At, Unlisted, Opening, PlaceInv, OnceLabels, Goto, GotoSlot, Return, Keep, Early, Labels
<1>1. ASSUME Enter(t) \/ SetInit(t) \/ InitMutex(t) PROVE Apart(t)
  BY <1>1 DEF Enter, SetInit, InitMutex, handle
<1>2. ASSUME Lock(t) PROVE Apart(t)
  BY <1>2 DEF Lock, handle
<1>3. ASSUME FindRunning(t) \/ FindIdle(t) PROVE Apart(t)
  <2> HIDE DEF At, Unlisted, Remembers, Opening
  <2>1. /\ pc[t] = "find" /\ arg[t] # None /\ Slots(arg[t]) # {}
        /\ UNCHANGED <<list, user>>
    BY <1>3 DEF FindRunning, FindIdle, handle, library
  <2>2. PICK s : s = First(arg[t])
    OBVIOUS
  <2>3. UNCHANGED <<call, arg>> /\ pc'[t] \in {"check", "place"} /\ slot'[t] = s
    BY <1>3, <2>2 DEF FindRunning, FindIdle
  <2>7. arg[t] \in Handles /\ Listed(arg[t]) /\ TypeInv
    BY <2>1 DEF ListInv, LockInv
  <2>8. At(arg[t], s)
    BY <2>1, <2>2, <2>7, FoundAt
  <2>4. At(arg[t], s)' /\ ~Unlisted(arg[t]) /\ arg'[t] = arg[t] /\ call'[t] = "open" /\ s \in DOMAIN list
    BY <2>1, <2>3, <2>8 DEF At, Unlisted
  <2>5. Remembers(t)'
    BY <2>1, <2>3, <2>4 DEF Remembers
  <2>6. \A h \in Handles : Opening(t, h) => ~Unlisted(h)
    BY <2>4, Zenon DEF Opening
  <2> QED BY <2>1, <2>5, <2>6
<1>4. ASSUME FindEmpty(t) PROVE Apart(t)
  <2>1. First(None) \in DOMAIN list /\ list[First(None)] = None
    BY <1>4, FirstSlot DEF FindEmpty
  <2>2. arg[t] # None => Unlisted(arg[t])
    <3> HIDE DEF At, Unlisted, Remembers, Opening
    <3> QED BY <1>4, FoundAt DEF FindEmpty, ListInv, LockInv
  <2> QED BY <1>4, <2>1, <2>2 DEF FindEmpty, handle, library
<1>5. ASSUME Unlock(t) PROVE Apart(t)
  BY <1>5 DEF Unlock, handle, library
<1>6. ASSUME Look(t) PROVE Apart(t)
  <2>1. arg[t] \in Handles /\ (Slots(arg[t]) # {} => At(arg[t], First(arg[t])))
    BY <1>6, FoundAt DEF Look, ListInv, LockInv, Owns
  <2> QED BY <1>6, <2>1 DEF Look, handle, library
<1>7. ASSUME Create(t) \/ CreateFails(t) \/ SetId(t) \/ SetRunning(t) \/ Cancel(t) PROVE Apart(t)
  BY <1>7 DEF Create, CreateFails, SetId, SetRunning, Cancel, handle, library
<1>8. ASSUME Check(t) \/ Join(t) PROVE Apart(t)
  BY <1>8 DEF Check, Join, handle, library
<1>9. ASSUME Joined(t) PROVE Apart(t)
  BY <1>9 DEF Joined, handle, library
<1>10. ASSUME Self(t) \/ SelfId(t) PROVE Apart(t)
  BY <1>10 DEF Self, SelfId, handle, library
<1>11. ASSUME Once(t) \/ Func(t) \/ SetDone(t) PROVE Apart(t)
  BY <1>11 DEF Once, Func, SetDone, handle, library
<1> QED BY <1>1, <1>2, <1>3, <1>4, <1>5, <1>6, <1>7, <1>8, <1>9, <1>10, <1>11 DEF Step

\* A step leaves the slots of a handle alone.
Same(h) ==
  /\ DOMAIN list \subseteq DOMAIN list'
  /\ \A s \in DOMAIN list' : list'[s] = h <=> s \in DOMAIN list /\ list[s] = h

LEMMA SameKeeps ==
  ASSUME NEW h, Same(h)
  PROVE  /\ Unlisted(h) => Unlisted(h)'
         /\ \A s : At(h, s) => At(h, s)'
  BY DEF Same, Unlisted, At

\* A step of t leaves alone the slots of the handles of other threads, and
\* those nobody has stay out of the list.
Moves(t) ==
  /\ Remembers(t)'
  /\ \A h \in Handles :
       /\ user[h] \notin {None, t} => Same(h)
       /\ user'[h] = None => Unlisted(h)'
       /\ user'[h] = t => (\E s \in DOMAIN list' : At(h, s)') \/ (Unlisted(h)' /\ Opening(t, h)')

LEMMA GrowStep ==
  ASSUME ListInv, NEW t \in Tids, FindGrow(t)
  PROVE  Moves(t)
<1>0. Facts(t)
  BY ListFacts
<1>1. pc[t] = "find" /\ call[t] = "open" /\ (arg[t] # None => arg[t] \in Handles /\ Unlisted(arg[t]))
  BY <1>0, FoundAt DEF Facts, FindGrow, PlaceInv, ListInv, LockInv
<1>2. CASE list' = list /\ Goto(t, "fail") /\ user' = IF arg[t] # None THEN [user EXCEPT ![arg[t]] = None] ELSE user
  <2>1. Remembers(t)'
    BY <1>0, <1>1, <1>2 DEF Facts, Remembers, Goto
  <2>2. \A h \in Handles : Same(h) /\ (Unlisted(h) => Unlisted(h)')
    BY <1>2 DEF Same, Unlisted
  <2>3. ASSUME NEW h \in Handles, user'[h] = None PROVE Unlisted(h)'
    BY <1>0, <1>1, <1>2, <2>2, <2>3 DEF Facts, Listed
  <2>4. ASSUME NEW h \in Handles, user'[h] = t PROVE \E s \in DOMAIN list' : At(h, s)'
    <3>1. user[h] = t /\ h # arg[t]
      BY <1>0, <1>1, <1>2, <2>4 DEF Facts
    <3>2. PICK s \in DOMAIN list : At(h, s)
      BY <1>0, <3>1 DEF Facts, Listed, Opening
    <3> QED BY <1>2, <3>2 DEF At
  <2> QED BY <2>1, <2>2, <2>3, <2>4 DEF Moves
<1>3. CASE list' = list \o [i \in 1 .. Incr |-> None] /\ GotoSlot(t, Len(list) + 1, "place") /\ UNCHANGED user
  <2>1. /\ Len(list) + 1 \in DOMAIN list' /\ DOMAIN list \subseteq DOMAIN list' /\ Len(list) + 1 \notin DOMAIN list
        /\ \A s \in DOMAIN list' : list'[s] = IF s \in DOMAIN list THEN list[s] ELSE None
    <3>1. list \in Seq(Handles \cup {None})
      BY <1>0 DEF Facts
    <3>2. /\ list' \in Seq(Handles \cup {None}) /\ Len(list') = Len(list) + Incr
          /\ Len(list) + 1 \in DOMAIN list'
          /\ \A s \in DOMAIN list' : list'[s] = IF s \in DOMAIN list THEN list[s] ELSE None
      BY <1>3, <3>1, Longer
    <3> QED BY <3>1, <3>2, SlotsAssumption
  <2>2. \A h \in Handles : Same(h)
    BY <1>0, <2>1 DEF Same, Facts
  <2>3. Remembers(t)'
    <3>1. pc'[t] = "place" /\ slot'[t] = Len(list) + 1 /\ arg'[t] = arg[t]
      BY <1>0, <1>3 DEF Facts, GotoSlot
    <3>2. list'[Len(list) + 1] = None
      BY <2>1
    <3>3. arg'[t] # None => Unlisted(arg[t])'
      BY <1>1, <2>2, <3>1, SameKeeps
    <3>4. arg'[t] # None => \A r \in DOMAIN list' : list'[r] # arg'[t]
      BY <3>1, <3>3 DEF Unlisted
    <3> QED BY <2>1, <3>1, <3>2, <3>4 DEF Remembers, Unlisted
  <2>4. ASSUME NEW h \in Handles, user'[h] = None PROVE Unlisted(h)'
    BY <1>0, <1>3, <2>2, <2>4, SameKeeps DEF Facts, Listed
  <2>5. ASSUME NEW h \in Handles, user'[h] = t PROVE (\E s \in DOMAIN list' : At(h, s)') \/ (Unlisted(h)' /\ Opening(t, h)')
    <3>1. user[h] = t /\ t # None
      BY <1>0, <1>3, <2>5 DEF Facts
    <3>2. CASE Unlisted(h) /\ Opening(t, h)
      <4>1. Unlisted(h)'
        BY <2>2, <3>2, SameKeeps
      <4>2. Opening(t, h)'
        BY <1>0, <1>3, <3>2 DEF Facts, Opening, GotoSlot
      <4> QED BY <4>1, <4>2
    <3>3. ASSUME NEW s \in DOMAIN list, At(h, s) PROVE s \in DOMAIN list' /\ At(h, s)'
      BY <2>1, <2>2, <3>3, SameKeeps
    <3> QED BY <1>0, <3>1, <3>2, <3>3 DEF Facts, Listed
  <2> QED BY <2>2, <2>3, <2>4, <2>5 DEF Moves
<1> QED BY <1>2, <1>3 DEF FindGrow

\* Place lists its handle, in the slot it remembered.
LEMMA PlaceStep ==
  ASSUME ListInv, NEW t \in Tids, Place(t)
  PROVE  Moves(t)
<1>0. Facts(t)
  BY ListFacts
<1>1. PICK v \in IF arg[t] # None THEN {arg[t]} ELSE {h \in Heap : user[h] = None} :
        list' = [list EXCEPT ![slot[t]] = v] /\ user' = [user EXCEPT ![v] = t]
  BY DEF Place
<1>2. /\ pc[t] = "place" /\ call[t] = "open" /\ pc'[t] = "unlock"
      /\ v \in Handles /\ user[v] \in {None, t} /\ (arg[t] # None => v = arg[t]) /\ (arg[t] = None => Unlisted(v))
  BY <1>0, <1>1 DEF Facts, Place, PlaceInv, Owns, Listed, Handles
<1>3. /\ slot[t] \in DOMAIN list
      /\ \/ list[slot[t]] = None /\ Unlisted(v)
         \/ At(v, slot[t])
  BY <1>0, <1>2 DEF Facts, Remembers
<1>4. DOMAIN list' = DOMAIN list /\ \A s \in DOMAIN list : list'[s] = IF s = slot[t] THEN v ELSE list[s]
  BY <1>1, <1>3
<1>5. \A h \in Handles \ {v} : Same(h)
  BY <1>0, <1>3, <1>4 DEF Same, At, Unlisted, Facts
<1>11. slot' = slot
  BY DEF Place
<1>6. At(v, slot[t])'
  BY <1>3, <1>4, <1>11 DEF At, Unlisted
<1>7. user'[v] = t /\ t # None /\ \A h \in Handles \ {v} : user'[h] = user[h]
  BY <1>0, <1>1, <1>2 DEF Facts
<1>8. Remembers(t)'
  BY <1>2 DEF Remembers
<1>9. ASSUME NEW h \in Handles, user'[h] = None PROVE Unlisted(h)'
  BY <1>0, <1>5, <1>7, <1>9, SameKeeps DEF Facts, Listed
<1>10. ASSUME NEW h \in Handles, user'[h] = t PROVE \E s \in DOMAIN list' : At(h, s)'
  <2>1. CASE h = v
    BY <1>3, <1>4, <1>6, <1>11, <2>1 DEF At
  <2>2. CASE h # v
    <3>1. PICK s \in DOMAIN list : At(h, s)
      BY <1>0, <1>2, <1>7, <1>10, <2>2 DEF Facts, Listed, Opening
    <3> QED BY <1>4, <1>5, <2>2, <3>1, SameKeeps
  <2> QED BY <2>1, <2>2
<1> QED BY <1>2, <1>5, <1>8, <1>9, <1>10 DEF Moves

\* A PlaceFails leaves the list, and gives up only a handle that is not in it.
LEMMA PlaceFailsStep ==
  ASSUME ListInv, NEW t \in Tids, PlaceFails(t)
  PROVE  Moves(t)
<1>0. Facts(t)
  BY ListFacts
<1>1. /\ pc[t] = "place" /\ call[t] = "open" /\ pc'[t] = "fail" /\ list' = list
      /\ user' \in {user, [user EXCEPT ![arg[t]] = None]}
      /\ user' # user => arg[t] # None /\ list[slot[t]] # arg[t]
      /\ arg[t] # None /\ list[slot[t]] # arg[t] => user' = [user EXCEPT ![arg[t]] = None]
  BY <1>0 DEF Facts, PlaceFails, PlaceInv, Goto, library
<1>2. /\ arg[t] \in Handles \cup {None} /\ slot[t] \in DOMAIN list
      /\ arg[t] # None => IF list[slot[t]] = arg[t] THEN At(arg[t], slot[t]) ELSE Unlisted(arg[t])
  BY <1>0, <1>1 DEF Facts, Remembers, At
<1>3. Remembers(t)'
  BY <1>1 DEF Remembers
<1>4. \A h \in Handles : Same(h) /\ (Unlisted(h) => Unlisted(h)')
  BY <1>1 DEF Same, Unlisted
<1>5. ASSUME NEW h \in Handles, user'[h] = None PROVE Unlisted(h)'
  <2>1. user[h] = None \/ (h = arg[t] /\ Unlisted(h))
    BY <1>0, <1>1, <1>2, <1>5 DEF Facts
  <2> QED BY <1>0, <1>4, <2>1 DEF Facts, Listed
<1>6. ASSUME NEW h \in Handles, user'[h] = t PROVE \E s \in DOMAIN list' : At(h, s)'
  <2>1. user[h] = t /\ (h = arg[t] => At(h, slot[t]))
    BY <1>0, <1>1, <1>2, <1>6 DEF Facts
  <2>2. \E s \in DOMAIN list : At(h, s)
    BY <1>0, <1>2, <2>1 DEF Facts, Listed, Opening
  <2> QED BY <1>1, <2>2 DEF At
<1> QED BY <1>3, <1>4, <1>5, <1>6 DEF Moves

\* Clear takes its handle out of the list.
LEMMA ClearStep ==
  ASSUME ListInv, NEW t \in Tids, Clear(t)
  PROVE  Moves(t)
<1>0. Facts(t)
  BY ListFacts
<1>1. /\ list' = [list EXCEPT ![slot[t]] = None] /\ user' = [user EXCEPT ![arg[t]] = None]
      /\ pc[t] = "clear" /\ pc'[t] = "unlock"
  BY <1>0 DEF Clear, Goto, Facts
<1>2. call[t] = "close" /\ arg[t] \in Handles /\ At(arg[t], slot[t]) /\ user[arg[t]] = t
  BY <1>0, <1>1 DEF Facts, PlaceInv, Owns, Remembers
<1>3. DOMAIN list' = DOMAIN list /\ \A s \in DOMAIN list : list'[s] = IF s = slot[t] THEN None ELSE list[s]
  BY <1>1
<1>4. \A h \in Handles \ {arg[t]} : Same(h)
  BY <1>0, <1>2, <1>3 DEF Same, At, Facts
<1>5. Unlisted(arg[t])'
  <2>1. \A r \in DOMAIN list' : list'[r] # arg[t]
    BY <1>0, <1>2, <1>3 DEF At, Facts
  <2>2. arg' = arg
    BY DEF Clear, Goto
  <2> QED BY <2>1, <2>2 DEF Unlisted
<1>6. user'[arg[t]] = None /\ t # None /\ \A h \in Handles \ {arg[t]} : user'[h] = user[h]
  BY <1>0, <1>1, <1>2 DEF Facts
<1>7. Remembers(t)'
  BY <1>1 DEF Remembers
<1>8. ASSUME NEW h \in Handles, user'[h] = None PROVE Unlisted(h)'
  <2>1. CASE h = arg[t]
    BY <1>5, <2>1 DEF Unlisted, Clear, Goto
  <2> QED BY <1>0, <1>4, <1>6, <1>8, <2>1, SameKeeps DEF Facts, Listed
<1>9. ASSUME NEW h \in Handles, user'[h] = t PROVE \E s \in DOMAIN list' : At(h, s)'
  <2>1. user[h] = t /\ h # arg[t]
    BY <1>6, <1>9
  <2>2. PICK s \in DOMAIN list : At(h, s)
    BY <1>0, <1>1, <1>2, <2>1 DEF Facts, Listed, Opening
  <2> QED BY <1>3, <1>4, <2>1, <2>2, SameKeeps
<1> QED BY <1>2, <1>4, <1>7, <1>8, <1>9 DEF Moves

\* Every step of t moves its own handles only; and nobody else is about to
\* fill a slot when the list changes.
LEMMA ListStep ==
  ASSUME ListInv, NEW t \in Tids, Step(t)
  PROVE  Moves(t) /\ (list' = list \/ \A u \in Tids \ {t} : pc[u] # "place")
<1>0. Facts(t)
  BY ListFacts
<1>1. CASE FindGrow(t) \/ Place(t) \/ PlaceFails(t) \/ Clear(t)
  <2>1. Moves(t)
    BY <1>1, GrowStep, PlaceStep, PlaceFailsStep, ClearStep
  <2>2. Inside(t)
    BY <1>1 DEF FindGrow, Place, PlaceFails, Clear, Inside
  <2>3. \A u \in Tids \ {t} : pc[u] # "place"
    BY <2>2 DEF ListInv, LockInv, Inside
  <2> QED BY <2>1, <2>3
<1>2. CASE ~(FindGrow(t) \/ Place(t) \/ PlaceFails(t) \/ Clear(t))
  <2>1. Apart(t)
    BY <1>2, ApartStep
  <2>2. \A h \in Handles : Same(h) /\ (Unlisted(h) => Unlisted(h)') /\ \A s : At(h, s) => At(h, s)'
    BY <2>1 DEF Apart, Same, Unlisted, At
  <2>3. ASSUME NEW h \in Handles, user'[h] = None PROVE Unlisted(h)'
    BY <1>0, <2>1, <2>2, <2>3 DEF Facts, Listed, Apart
  <2>4. ASSUME NEW h \in Handles, user'[h] = t PROVE (\E s \in DOMAIN list' : At(h, s)') \/ (Unlisted(h)' /\ Opening(t, h)')
    <3>1. user[h] = t /\ t # None /\ Listed(h) /\ list' = list
      BY <1>0, <2>1, <2>4 DEF Facts, Apart
    <3> QED BY <2>1, <2>2, <3>1 DEF Listed, Apart
  <2> QED BY <2>1, <2>2, <2>3, <2>4 DEF Moves, Apart
<1> QED BY <1>1, <1>2

\* What the threads remember and the handles in the list, after a step of t.
LEMMA ListKept ==
  ASSUME ListInv, LockInv', NEW t \in Tids, Moves(t),
         list' = list \/ \A u \in Tids \ {t} : pc[u] # "place",
         \A u \in Tids \ {t} : pc'[u] = pc[u] /\ call'[u] = call[u] /\ arg'[u] = arg[u] /\ slot'[u] = slot[u],
         \A h \in Handles : user'[h] = user[h] \/ (user[h] \in {None, t} /\ user'[h] \in {None, t})
  PROVE  ListInv'
<1>1. ASSUME NEW h \in Handles PROVE Listed(h)'
  <2>1. CASE user'[h] = None
    BY <2>1 DEF Moves, Listed
  <2>2. CASE user'[h] = t
    BY <2>2 DEF Moves, Listed
  <2>3. CASE user'[h] \notin {None, t}
    <3>1. user'[h] = user[h] /\ Same(h) /\ Listed(h) /\ DOMAIN list \subseteq DOMAIN list'
      BY <2>3 DEF Moves, ListInv, Same
    <3>2. user[h] \in Tids \ {t}
      BY <2>3, <3>1, TypeParts DEF ListInv, LockInv, TypeInv, HandleTypes
    <3>3. CASE Unlisted(h) /\ Opening(user[h], h)
      <4>1. Opening(user[h], h)'
        BY <3>1, <3>2, <3>3 DEF Opening
      <4> QED BY <2>3, <3>1, <3>3, <4>1, SameKeeps DEF Listed, Opening
    <3>4. ASSUME NEW s \in DOMAIN list, At(h, s) PROVE s \in DOMAIN list' /\ At(h, s)'
      BY <3>1, <3>4, SameKeeps
    <3> QED BY <2>3, <3>1, <3>3, <3>4 DEF Listed
  <2> QED BY <2>1, <2>2, <2>3
<1>2. ASSUME NEW u \in Tids PROVE Remembers(u)'
  <2>1. CASE u = t
    BY <2>1 DEF Moves
  <2>2. CASE u # t
    <3>0. Facts(u)
      BY ListFacts
    <3>1. pc'[u] = pc[u] /\ call'[u] = call[u] /\ arg'[u] = arg[u] /\ slot'[u] = slot[u]
      BY <2>2
    <3>2. CASE pc[u] = "place"
      BY <2>2, <3>0, <3>1, <3>2 DEF Facts, Remembers, At, Unlisted
    <3>3. CASE pc[u] # "place"
      <4>1. ASSUME call[u] \in {"open", "close"}, pc[u] \in {"check", "join", "joined", "relock", "clear"}, At(arg[u], slot[u])
            PROVE  arg[u] \in Handles /\ Same(arg[u])
        <5>1. arg[u] \in Handles /\ user[arg[u]] = u
          BY <3>0, <4>1 DEF Facts, Owns, Early
        <5> QED BY <2>2, <3>0, <5>1 DEF Moves, Facts
      <4>2. ASSUME call[u] \in {"open", "close"}, pc[u] \in {"check", "join", "joined", "relock", "clear"}, At(arg[u], slot[u])
            PROVE  At(arg[u], slot[u])'
        BY <3>1, <4>1, <4>2 DEF Same, At
      <4> QED BY <3>0, <3>1, <3>3, <4>2 DEF Facts, Remembers
    <3> QED BY <3>2, <3>3
  <2> QED BY <2>1, <2>2
<1> QED BY <1>1, <1>2 DEF ListInv

\* Nothing is listed at the start.
LEMMA ListInit == Init => ListInv
<1> SUFFICES ASSUME Init PROVE ListInv
  OBVIOUS
<1>1. LockInv
  BY LockInit
<1>2. list = <<>> /\ (\A h \in Handles : user[h] = None) /\ \A t \in Tids : pc[t] = "idle"
  BY DEF Init
<1> QED BY <1>1, <1>2 DEF ListInv, Listed, Unlisted, Remembers

\* A vtopen that is given a handle begins to open it; the list waits.
LEMMA ListCall ==
  ASSUME NoRace, ListInv, NEW t \in Tids, Call(t)
  PROVE  ListInv'
<1>0. Facts(t) /\ LockInv'
  BY ListFacts, LockCall DEF ListInv
<1>1. PICK c \in DOMAIN Start, h \in Handles \cup {None} :
           /\ call' = [call EXCEPT ![t] = c] /\ arg' = [arg EXCEPT ![t] = h] /\ pc' = [pc EXCEPT ![t] = Start[c]]
           /\ user' = IF c = "open" /\ h # None THEN [user EXCEPT ![h] = t] ELSE user
           /\ c = "open" => h = None \/ user[h] \in {None, t}
  BY CallTakes DEF ListInv, LockInv
<1>2. Start[c] \notin {"place", "join", "joined", "relock", "clear"} /\ (Start[c] = "check" => c \in {"wait", "kill"})
      /\ (c = "open" => Start[c] = "enter")
  BY DEF Start
<1>3. pc'[t] = Start[c] /\ call'[t] = c /\ arg'[t] = h /\ pc[t] = "idle" /\ UNCHANGED <<list, slot>>
      /\ \A u \in Tids \ {t} : pc'[u] = pc[u] /\ call'[u] = call[u] /\ arg'[u] = arg[u]
  BY <1>0, <1>1 DEF Facts, Call, library
<1>4. ASSUME NEW g \in Handles PROVE Listed(g)'
  <2>1. \A s : At(g, s) => At(g, s)'
    BY <1>3 DEF At
  <2>2. Unlisted(g) => Unlisted(g)'
    BY <1>3 DEF Unlisted
  <2>3. Listed(g) /\ ~Opening(t, g) /\ None # t /\ user[g] \in Tids \cup {None}
    BY <1>0, <1>3 DEF Facts, Opening, Early
  <2>4. CASE user'[g] = user[g]
    <3>1. CASE user[g] = None
      BY <2>2, <2>3, <2>4, <3>1 DEF Listed
    <3>2. CASE Unlisted(g) /\ Opening(user[g], g) /\ user[g] # None
      <4>1. user[g] # t /\ user[g] \in Tids
        BY <2>3, <3>2
      <4>2. Opening(user[g], g)'
        BY <1>3, <2>4, <3>2, <4>1 DEF Opening
      <4> QED BY <2>2, <2>4, <3>2, <4>2 DEF Listed
    <3>3. CASE user[g] # None /\ \E s \in DOMAIN list : At(g, s)
      BY <1>3, <2>1, <2>4, <3>3 DEF Listed
    <3> QED BY <2>3, <3>1, <3>2, <3>3 DEF Listed
  <2>5. CASE user'[g] # user[g]
    <3>1. c = "open" /\ g = h /\ user[g] = None /\ user'[g] = t
      BY <1>0, <1>1, <2>5 DEF Facts
    <3>2. Opening(t, g)'
      BY <1>2, <1>3, <3>1 DEF Opening, Early
    <3> QED BY <2>2, <2>3, <3>1, <3>2 DEF Listed, Opening
  <2> QED BY <2>4, <2>5
<1>5. ASSUME NEW u \in Tids PROVE Remembers(u)'
  <2>1. CASE u = t
    BY <1>2, <1>3, <2>1 DEF Remembers
  <2>2. CASE u # t
    BY <1>3, <2>2 DEF ListInv, Remembers, At, Unlisted
  <2> QED BY <2>1, <2>2
<1> QED BY <1>0, <1>4, <1>5 DEF ListInv

\* Every step keeps the list right.
LEMMA ListNext ==
  ASSUME NoRace, ListInv, [Next]_vars
  PROVE  ListInv'
<1>0. LockInv'
  BY LockNext DEF ListInv
<1>1. ASSUME UNCHANGED <<list, user, pc, call, arg, slot>> PROVE ListInv'
  BY <1>0, <1>1 DEF ListInv, Listed, Remembers, At, Unlisted, Opening
<1>2. CASE UNCHANGED vars
  BY <1>1, <1>2 DEF vars, library, handle
<1>3. ASSUME NEW t \in Tids, Call(t) PROVE ListInv'
  BY <1>3, ListCall
<1>4. ASSUME NEW t \in Tids, Step(t) PROVE ListInv'
  <2>1. Moves(t) /\ (list' = list \/ \A u \in Tids \ {t} : pc[u] # "place")
    BY <1>4, ListStep
  <2>2. \A u \in Tids \ {t} : pc'[u] = pc[u] /\ call'[u] = call[u] /\ arg'[u] = arg[u] /\ slot'[u] = slot[u]
    BY <1>4, Others, TypeParts DEF ListInv, LockInv, TypeInv
  <2>3. \A h \in Handles : user'[h] = user[h] \/ (user[h] \in {None, t} /\ user'[h] \in {None, t})
    BY <1>4, OwnStep DEF ListInv
  <2> QED BY <1>0, <2>1, <2>2, <2>3, ListKept
<1>5. ASSUME NEW t \in Pool, End(t) PROVE ListInv'
  BY <1>1, <1>5 DEF End, library, handle
<1> QED BY <1>2, <1>3, <1>4, <1>5 DEF Next

\* Outside vtopen and vtclose the list holds an open handle once.
LEMMA ListedOnce == ListInv => ListExact
<1> SUFFICES ASSUME ListInv, NEW h \in Handles, ~Busy(h, {"open", "close"})
             PROVE  Cardinality(Slots(h)) = IF user[h] = None THEN 0 ELSE 1
  BY DEF ListExact
<1>1. TypeInv /\ Listed(h)
  BY DEF ListInv, LockInv
<1>2. CASE user[h] = None
  BY <1>1, <1>2, FoundAt, FS_EmptySet DEF Listed
<1>3. CASE user[h] # None
  <2>1. ~Opening(user[h], h)
    BY <1>1, <1>3, TypeParts DEF Busy, Opening, Early, TypeInv, HandleTypes
  <2>2. PICK s \in DOMAIN list : At(h, s)
    BY <1>1, <1>3, <2>1 DEF Listed
  <2>3. Slots(h) = {s}
    BY <1>1, <2>2, FoundAt
  <2> QED BY <1>3, <2>3, FS_Singleton
<1> QED BY <1>2, <1>3

\* An open handle is in exactly one slot of the list and a closed one in none,
\* whatever the other threads open, close, or wait for meanwhile, if the first
\* call is over before the process has a second thread.
THEOREM ListExactAlways ==
  ASSUME NoRace
  PROVE  Spec => []ListExact
<1>1. ListInv /\ [Next]_vars => ListInv'
  BY ListNext
<1> QED BY <1>1, ListInit, ListedOnce, PTL DEF Spec

----------------------------------------------------------------------------
(* The threads that run.                                                   *)

\* vtrun has started the thread of h and not yet said so.
Starting(t, h) == pc[t] \in {"setid", "setrun"} /\ arg[t] = h

\* A running thread is the last one started for its handle, which somebody has
\* open and which says it is running, or is about to.
Started(u) ==
  os[u] = "run" =>
    /\ job[u] \in Handles /\ self[job[u]] = u /\ user[job[u]] # None
    /\ running[job[u]] \/ Starting(user[job[u]], job[u])

\* Where the handle of a call does not say it is running.
Rests(t) ==
  pc[t] \in {"place", "relock", "clear", "create", "setid", "setrun"} /\ arg[t] # None => ~running[arg[t]]

\* The thread that was joined was the last one on its handle.
Over(t) == pc[t] = "joined" => \A u \in Pool : ~(os[u] = "run" /\ job[u] = arg[t])

RunInv ==
  /\ ListInv
  /\ \A h \in Handles : Unlisted(h) => ~running[h]
  /\ \A t \in Tids : Rests(t) /\ Over(t)
  /\ \A u \in Pool : Started(u)

RunFacts(t) ==
  /\ pc \in [Tids -> Labels] /\ call \in [Tids -> DOMAIN Start \cup {"none"}]
  /\ arg \in [Tids -> Handles \cup {None}] /\ user \in [Handles -> Tids \cup {None}]
  /\ running \in [Handles -> BOOLEAN] /\ self \in [Handles -> Pool \cup {None}]
  /\ os \in [Tids -> {"none", "run", "dying", "ended", "joined"}] /\ job \in [Tids -> Handles \cup {None}]
  /\ PlaceInv(t) /\ Owns(t) /\ Rests(t)
  /\ None \notin Handles /\ None \notin Tids /\ Pool \subseteq Tids

LEMMA RunHolds ==
  ASSUME RunInv, NEW t \in Tids
  PROVE  RunFacts(t)
<1>1. Facts(t)
  BY ListFacts DEF RunInv
<1>2. /\ running \in [Handles -> BOOLEAN] /\ self \in [Handles -> Pool \cup {None}]
      /\ os \in [Tids -> {"none", "run", "dying", "ended", "joined"}] /\ job \in [Tids -> Handles \cup {None}]
  BY TypeParts DEF RunInv, ListInv, LockInv, TypeInv, PthreadTypes, HandleTypes
<1> QED BY <1>1, <1>2 DEF Facts, RunFacts, RunInv, Tids

\* A step that touches no thread and no handle's state.
Quiet(t) ==
  /\ UNCHANGED <<os, job, running, self, user, list>> /\ Rests(t)' /\ Over(t)'
  /\ \A h \in Handles : Starting(t, h) => Starting(t, h)'

Loud(t) ==
  \/ FindGrow(t) \/ Place(t) \/ PlaceFails(t) \/ Clear(t) \/ Create(t) \/ CreateFails(t) \/ SetRunning(t)
  \/ Join(t) \/ Joined(t) \/ Cancel(t)

LEMMA QuietStep ==
  ASSUME RunInv, NEW t \in Tids, Step(t), ~Loud(t)
  PROVE  Quiet(t)
<1>0. RunFacts(t)
  BY RunHolds
<1> USE <1>0 DEF RunFacts, Quiet, Rests, Over, Starting, PlaceInv, OnceLabels, Goto, GotoSlot, Return, Keep, Loud,
              pthreads, handle, library, Labels
<1>1. ASSUME Enter(t) \/ SetInit(t) \/ InitMutex(t) PROVE Quiet(t)
  BY <1>1 DEF Enter, SetInit, InitMutex
<1>2. ASSUME Lock(t) \/ Unlock(t) PROVE Quiet(t)
  BY <1>2 DEF Lock, Unlock
<1>3. ASSUME FindRunning(t) \/ FindIdle(t) PROVE Quiet(t)
  BY <1>3 DEF FindRunning, FindIdle
<1>4. ASSUME FindEmpty(t) PROVE Quiet(t)
  <2>1. arg[t] # None => ~running[arg[t]]
    BY <1>4, FoundAt DEF FindEmpty, RunInv, ListInv, LockInv
  <2> QED BY <1>4, <2>1 DEF FindEmpty
<1>5. ASSUME Look(t) PROVE Quiet(t)
  BY <1>5 DEF Look
<1>6. ASSUME SetId(t) \/ Check(t) PROVE Quiet(t)
  BY <1>6 DEF SetId, Check
<1>7. ASSUME Self(t) \/ SelfId(t) \/ Once(t) \/ Func(t) \/ SetDone(t) PROVE Quiet(t)
  BY <1>7 DEF Self, SelfId, Once, Func, SetDone
<1> QED BY <1>1, <1>2, <1>3, <1>4, <1>5, <1>6, <1>7 DEF Step

\* A step of t starts threads on its own handles only, and leaves the state of
\* the others' handles alone.
Runs(t) ==
  /\ Rests(t)' /\ Over(t)'
  /\ \A h \in Handles :
       /\ user[h] \notin {None, t} => running'[h] = running[h] /\ self'[h] = self[h]
       /\ Unlisted(h)' => ~running'[h]
  /\ \A u \in Pool : os'[u] = "run" =>
       \/ os[u] = "run" /\ job'[u] = job[u] /\ (user[job[u]] = t => Started(u)')
       \/ job'[u] = arg[t] /\ arg[t] \in Handles /\ user[arg[t]] = t /\ Started(u)'

\* The steps of vtopen and vtclose that change the list: the handle they list,
\* give up or close is not running.
LEMMA OpenRuns ==
  ASSUME RunInv, NEW t \in Tids, FindGrow(t) \/ Place(t) \/ PlaceFails(t) \/ Clear(t)
  PROVE  Runs(t)
<1>0. RunFacts(t) /\ Moves(t) /\ Facts(t)
  BY RunHolds, GrowStep, PlaceStep, PlaceFailsStep, ClearStep, ListFacts DEF RunInv
<1>1. UNCHANGED <<os, job, self, running>> /\ pc'[t] \in {"place", "fail", "unlock"} /\ pc[t] \in {"find", "place", "clear"}
  <2>1. CASE FindGrow(t)
    BY <1>0, <2>1 DEF RunFacts, FindGrow, Goto, GotoSlot, pthreads
  <2>2. CASE Clear(t)
    BY <1>0, <2>2 DEF RunFacts, Clear, Goto, pthreads
  <2>3. CASE Place(t)
    <3>1. PICK v \in IF arg[t] # None THEN {arg[t]} ELSE {h \in Heap : user[h] = None} :
            running' = [running EXCEPT ![v] = FALSE] \/ running' = running
      BY <2>3 DEF Place
    <3>2. v \in Handles /\ ~running[v]
      <4>1. CASE arg[t] # None
        BY <1>0, <2>3, <3>1, <4>1 DEF RunFacts, Rests, Place
      <4>2. CASE arg[t] = None
        BY <1>0, <3>1, <4>2 DEF Facts, Listed, Handles, RunInv
      <4> QED BY <4>1, <4>2
    <3>3. running[v] = FALSE
      BY <1>0, <3>2 DEF RunFacts
    <3>4. running' = running
      BY <1>0, <3>1, <3>3 DEF RunFacts
    <3>5. UNCHANGED <<os, job, self>> /\ pc' = [pc EXCEPT ![t] = "unlock"] /\ pc[t] = "place"
      BY <2>3 DEF Place, pthreads
    <3> QED BY <1>0, <3>4, <3>5 DEF RunFacts
  <2>4. CASE PlaceFails(t)
    <3>1. UNCHANGED <<os, job, self>> /\ pc[t] = "place" /\ pc'[t] = "fail"
          /\ (running' = running \/ (arg[t] # None /\ running' = [running EXCEPT ![arg[t]] = FALSE]))
      BY <1>0, <2>4 DEF RunFacts, PlaceFails, Goto, pthreads
    <3>2. arg[t] # None => running[arg[t]] = FALSE
      BY <1>0, <3>1 DEF RunFacts, Rests
    <3>3. running' = running
      BY <1>0, <3>1, <3>2 DEF RunFacts
    <3> QED BY <3>1, <3>3
  <2> QED BY <2>1, <2>2, <2>3, <2>4
<1>2. \A h \in Handles : Unlisted(h) => ~running[h]
  BY DEF RunInv
<1>3. arg[t] # None => arg[t] \in Handles /\ ~running[arg[t]]
  <2>1. CASE FindGrow(t)
    BY <1>0, <1>2, <2>1, FoundAt DEF RunFacts, FindGrow, RunInv, ListInv, LockInv
  <2>2. CASE Place(t) \/ PlaceFails(t) \/ Clear(t)
    BY <1>0, <2>2 DEF RunFacts, Rests, Place, PlaceFails, Clear
  <2> QED BY <2>1, <2>2
<1>4. Rests(t)' /\ Over(t)'
  <2>1. pc'[t] = "place" => arg' = arg
    BY <1>0, <1>1 DEF FindGrow, Place, PlaceFails, Clear, Goto, GotoSlot, RunFacts
  <2> QED BY <1>1, <1>3, <2>1 DEF Rests, Over
<1>5. ASSUME NEW h \in Handles, Unlisted(h)' PROVE ~running'[h]
  <2>1. CASE user[h] \notin {None, t}
    <3>1. Unlisted(h)
      BY <1>0, <1>5, <2>1 DEF Moves, Same, Unlisted
    <3> QED BY <1>1, <1>2, <3>1
  <2>2. CASE user[h] = None
    BY <1>0, <1>1, <1>2, <2>2 DEF Facts, Listed
  <2>3. CASE user[h] = t
    <3>1. CASE h = arg[t]
      BY <1>0, <1>1, <1>3, <3>1 DEF RunFacts
    <3>2. CASE h # arg[t]
      <4>1. user'[h] = t
        BY <1>0, <2>3, <3>2 DEF FindGrow, Place, PlaceFails, Clear, Facts
      <4>2. ~Opening(t, h)'
        BY <1>0, <1>1, <3>2 DEF Opening, FindGrow, Place, PlaceFails, Clear, Goto, GotoSlot, Facts, Early
      <4>3. PICK s \in DOMAIN list' : At(h, s)'
        BY <1>0, <4>1, <4>2 DEF Moves
      <4> QED BY <1>5, <4>3 DEF At, Unlisted
    <3> QED BY <3>1, <3>2
  <2> QED BY <2>1, <2>2, <2>3
<1>6. ASSUME NEW u \in Pool, os[u] = "run", user[job[u]] = t PROVE Started(u)'
  <2>0. Started(u) /\ ~Starting(t, job[u])
    BY <1>1 DEF RunInv, Starting
  <2>3. running[job[u]] /\ job[u] \in Handles /\ self[job[u]] = u
    BY <1>6, <2>0 DEF Started
  <2>1. job[u] # arg[t]
    BY <1>0, <1>3, <2>3 DEF RunFacts
  <2>2. user'[job[u]] = t
    BY <1>0, <1>6, <2>1, <2>3 DEF FindGrow, Place, PlaceFails, Clear, Facts
  <2> QED BY <1>0, <1>1, <2>3, <2>2 DEF Started, RunFacts
<1> QED BY <1>1, <1>4, <1>5, <1>6 DEF Runs

\* vtrun starts a thread on a handle that is not running.
LEMMA CreateRuns ==
  ASSUME RunInv, NEW t \in Tids, Create(t)
  PROVE  Runs(t)
<1>0. RunFacts(t)
  BY RunHolds
<1>1. PICK w \in Pool :
        /\ os[w] # "run" /\ os' = [os EXCEPT ![w] = "run"] /\ job' = [job EXCEPT ![w] = arg[t]]
        /\ self' = [self EXCEPT ![arg[t]] = w]
  BY DEF Create
<1>2. pc[t] = "create" /\ pc'[t] = "setid" /\ UNCHANGED <<list, running, user, arg>>
  BY <1>0 DEF Create, Goto, RunFacts, library
<1>3. arg[t] \in Handles /\ user[arg[t]] = t /\ ~running[arg[t]]
  BY <1>0, <1>2 DEF RunFacts, PlaceInv, Owns, Rests
<1>4. Rests(t)' /\ Over(t)'
  BY <1>2, <1>3 DEF Rests, Over
<1>5. ASSUME NEW h \in Handles PROVE (user[h] \notin {None, t} => running'[h] = running[h] /\ self'[h] = self[h])
                                     /\ (Unlisted(h)' => ~running'[h])
  BY <1>0, <1>1, <1>2, <1>3 DEF RunFacts, RunInv, Unlisted
<1>6. Started(w)' /\ job'[w] = arg[t]
  BY <1>0, <1>1, <1>2, <1>3 DEF RunFacts, Started, Starting
<1>7. ASSUME NEW u \in Pool \ {w}, os'[u] = "run" PROVE os[u] = "run" /\ job'[u] = job[u] /\ (user[job[u]] = t => Started(u)')
  <2>1. os[u] = "run" /\ job'[u] = job[u] /\ Started(u)
    BY <1>0, <1>1, <1>7 DEF RunFacts, RunInv
  <2>2. ~Starting(t, job[u])
    BY <1>2 DEF Starting
  <2>3. ASSUME user[job[u]] = t PROVE Started(u)'
    <3>1. running[job[u]] /\ job[u] \in Handles /\ self[job[u]] = u
      BY <2>1, <2>2, <2>3 DEF Started
    <3>2. job[u] # arg[t]
      BY <1>3, <3>1
    <3>3. self'[job[u]] = u
      BY <1>0, <1>1, <3>1, <3>2 DEF RunFacts
    <3> QED BY <1>0, <1>2, <2>1, <2>3, <3>1, <3>3 DEF Started, RunFacts
  <2> QED BY <2>1, <2>3
<1> QED BY <1>3, <1>4, <1>5, <1>6, <1>7 DEF Runs

\* A vtrun that fails changes vt->self of its handle, which is not running.
LEMMA CreateFailsRuns ==
  ASSUME RunInv, NEW t \in Tids, CreateFails(t)
  PROVE  Runs(t)
<1>0. RunFacts(t)
  BY RunHolds
<1>1. /\ pc[t] = "create" /\ pc'[t] = "idle" /\ UNCHANGED <<list, running, user, os, job>>
      /\ \E u : self' = [self EXCEPT ![arg[t]] = u]
  BY <1>0 DEF CreateFails, Return, RunFacts, library, pthreads
<1>2. arg[t] \in Handles /\ user[arg[t]] = t /\ ~running[arg[t]]
  BY <1>0, <1>1 DEF RunFacts, PlaceInv, Owns, Rests
<1>3. \A h \in Handles \ {arg[t]} : self'[h] = self[h]
  BY <1>0, <1>1 DEF RunFacts
<1>4. Rests(t)' /\ Over(t)'
  BY <1>1 DEF Rests, Over
<1>5. \A h \in Handles : Unlisted(h)' => ~running'[h]
  BY <1>1 DEF RunInv, Unlisted
<1>6. ASSUME NEW u \in Pool, os[u] = "run", user[job[u]] = t PROVE Started(u)'
  <2>1. running[job[u]] /\ job[u] \in Handles /\ self[job[u]] = u /\ user[job[u]] # None
    BY <1>1, <1>6 DEF RunInv, Started, Starting
  <2>2. job[u] # arg[t]
    BY <1>2, <2>1
  <2> QED BY <1>1, <1>3, <2>1, <2>2 DEF Started
<1> QED BY <1>1, <1>2, <1>3, <1>4, <1>5, <1>6 DEF Runs

\* vtrun says that it has started the thread.
LEMMA SayRuns ==
  ASSUME RunInv, NEW t \in Tids, SetRunning(t)
  PROVE  Runs(t)
<1>0. RunFacts(t) /\ Facts(t)
  BY RunHolds, ListFacts DEF RunInv
<1>1. UNCHANGED <<list, user, job, self, os>> /\ pc[t] = "setrun" /\ pc'[t] = "idle" /\ running' = [running EXCEPT ![arg[t]] = TRUE]
  BY <1>0 DEF SetRunning, Return, library, pthreads, RunFacts
<1>2. arg[t] \in Handles /\ user[arg[t]] = t /\ ~Opening(t, arg[t])
  BY <1>0, <1>1 DEF RunFacts, PlaceInv, Owns, Opening, Early
<1>3. \A h \in Handles : running'[h] = IF h = arg[t] THEN TRUE ELSE running[h]
  BY <1>0, <1>1 DEF RunFacts
<1>4. ~Unlisted(arg[t])
  BY <1>0, <1>2 DEF Facts, Listed, At, Unlisted
<1>5. Rests(t)' /\ Over(t)'
  BY <1>1 DEF Rests, Over
<1>6. ASSUME NEW h \in Handles, Unlisted(h)' PROVE ~running'[h]
  <2>1. Unlisted(h) /\ h # arg[t]
    BY <1>1, <1>4, <1>6 DEF Unlisted
  <2> QED BY <1>3, <2>1 DEF RunInv
<1>7. ASSUME NEW u \in Pool, os'[u] = "run", user[job[u]] = t PROVE Started(u)'
  <2>1. os[u] = "run" /\ Started(u)
    BY <1>1, <1>7 DEF RunInv
  <2>2. running'[job[u]]
    BY <1>3, <1>7, <2>1 DEF Started, Starting
  <2> QED BY <1>1, <2>1, <2>2 DEF Started
<1> QED BY <1>1, <1>2, <1>3, <1>5, <1>6, <1>7 DEF Runs

\* The steps that wait for a thread and cancel it: a handle stops saying it is
\* running when its thread has ended, or is to end.
LEMMA WaitRuns ==
  ASSUME RunInv, NEW t \in Tids, Join(t) \/ Joined(t) \/ Cancel(t)
  PROVE  Runs(t)
<1>0. RunFacts(t)
  BY RunHolds
<1>1. /\ UNCHANGED <<list, user, job, self>> /\ pc[t] \in {"join", "joined", "cancel"}
      /\ \/ pc'[t] = "joined" /\ Join(t) /\ arg' = arg /\ running' = running
         \/ pc'[t] \in {"idle", "relock", "clear"} /\ ~Join(t) /\ running' = [running EXCEPT ![arg[t]] = FALSE]
            /\ (pc'[t] # "idle" => arg' = arg)
  <2>1. CASE Join(t)
    BY <1>0, <2>1 DEF Join, Goto, RunFacts, library, handle
  <2>2. CASE Joined(t)
    <3>1. pc[t] = "joined" /\ running' = [running EXCEPT ![arg[t]] = FALSE] /\ UNCHANGED <<list, user, job, self>>
      BY <2>2 DEF Joined, library, pthreads
    <3>2. ~Join(t)
      BY <3>1 DEF Join
    <3>3. pc'[t] \in {"idle", "relock", "clear"} /\ (pc'[t] # "idle" => arg' = arg)
      BY <1>0, <2>2 DEF Joined, Goto, Return, RunFacts
    <3> QED BY <3>1, <3>2, <3>3
  <2>3. CASE Cancel(t)
    BY <1>0, <2>3 DEF Cancel, Join, Return, RunFacts, library
  <2> QED BY <2>1, <2>2, <2>3
<1>2. arg[t] \in Handles /\ user[arg[t]] = t
  BY <1>0, <1>1 DEF RunFacts, PlaceInv, Owns, Early
<1>3. \A h \in Handles : running'[h] => running[h] /\ (h # arg[t] \/ Join(t))
  BY <1>0, <1>1 DEF RunFacts
<1>4. \A h \in Handles \ {arg[t]} : running'[h] = running[h]
  BY <1>0, <1>1 DEF RunFacts
<1>5. \A u \in Pool : os'[u] = "run" => os[u] = "run"
  BY <1>0 DEF RunFacts, Join, Joined, Cancel, pthreads
<1>6. ASSUME NEW u \in Pool, os'[u] = "run", job[u] = arg[t] PROVE FALSE
  <2>1. self[arg[t]] = u /\ os[u] = "run"
    BY <1>5, <1>6 DEF Started, RunInv
  <2>2. ~Join(t)
    BY <2>1 DEF Join
  <2>3. ~Cancel(t)
    BY <1>0, <1>6, <2>1 DEF Cancel, RunFacts
  <2>4. ~Joined(t)
    BY <1>6, <2>1 DEF Joined, RunInv, Over
  <2> QED BY <2>2, <2>3, <2>4
<1>7. Rests(t)' /\ Over(t)'
  <2>1. CASE pc'[t] = "joined"
    BY <1>1, <1>6, <2>1 DEF Rests, Over
  <2>2. CASE pc'[t] # "joined"
    BY <1>1, <1>2, <1>3, <2>2 DEF Rests, Over
  <2> QED BY <2>1, <2>2
<1>8. ASSUME NEW h \in Handles, Unlisted(h)' PROVE ~running'[h]
  <2>1. Unlisted(h)
    BY <1>1, <1>8 DEF Unlisted
  <2> QED BY <1>3, <2>1 DEF RunInv
<1>9. ASSUME NEW u \in Pool, os'[u] = "run", user[job[u]] = t PROVE Started(u)'
  <2>1. os[u] = "run" /\ Started(u) /\ job[u] # arg[t]
    BY <1>5, <1>6, <1>9 DEF RunInv
  <2>2. running'[job[u]]
    BY <1>1, <1>4, <1>9, <2>1 DEF Started, Starting
  <2> QED BY <1>1, <2>1, <2>2 DEF Started
<1> QED BY <1>1, <1>2, <1>4, <1>5, <1>7, <1>8, <1>9 DEF Runs

\* What a step of t leaves of the other threads and their handles.
LEMMA RunKept ==
  ASSUME RunInv, ListInv', NEW t \in Tids, Runs(t),
         \A u \in Tids \ {t} : pc'[u] = pc[u] /\ call'[u] = call[u] /\ arg'[u] = arg[u],
         \A h \in Handles : user'[h] = user[h] \/ (user[h] \in {None, t} /\ user'[h] \in {None, t})
  PROVE  RunInv'
<1>0. None # t /\ None \notin Handles
  BY IdsAssumption
<1>1. \A h \in Handles : Unlisted(h)' => ~running'[h]
  BY DEF Runs
<1>2. ASSUME NEW u \in Tids PROVE Rests(u)' /\ Over(u)'
  <2>1. CASE u = t
    BY <2>1 DEF Runs
  <2>2. CASE u # t
    <3>0. RunFacts(u) /\ Rests(u) /\ Over(u)
      BY RunHolds DEF RunInv
    <3>1. pc'[u] = pc[u] /\ call'[u] = call[u] /\ arg'[u] = arg[u]
      BY <2>2
    <3>2. pc[u] \in {"place", "relock", "clear", "create", "setid", "setrun", "joined"} /\ arg[u] # None
             => arg[u] \in Handles /\ user[arg[u]] = u
      BY <3>0 DEF RunFacts, PlaceInv, Owns
    <3>6. u # None /\ (arg[u] \in Handles /\ user[arg[u]] = u => running'[arg[u]] = running[arg[u]])
      BY <2>2, <3>0 DEF Runs, RunFacts
    <3>3. Rests(u)'
      BY <3>0, <3>1, <3>2, <3>6 DEF Rests
    <3>4. pc[u] = "joined" => arg[u] \in Handles /\ user[arg[u]] = u
      BY <3>0 DEF RunFacts, PlaceInv, Owns, Early
    <3>5. Over(u)'
      BY <2>2, <3>0, <3>1, <3>4 DEF Over, Runs
    <3> QED BY <3>3, <3>5
  <2> QED BY <2>1, <2>2
<1>3. ASSUME NEW u \in Pool PROVE Started(u)'
  <2>1. CASE os'[u] # "run"
    BY <2>1 DEF Started
  <2>2. CASE os'[u] = "run" /\ os[u] = "run" /\ job'[u] = job[u] /\ user[job[u]] # t
    <3>1. Started(u) /\ job[u] \in Handles
      BY <2>2 DEF RunInv, Started
    <3>6. RunFacts(t)
      BY RunHolds
    <3>2. user[job[u]] \notin {None, t} /\ user[job[u]] \in Tids
      BY <2>2, <3>1, <3>6 DEF Started, RunFacts
    <3>3. user'[job[u]] = user[job[u]] /\ running'[job[u]] = running[job[u]] /\ self'[job[u]] = self[job[u]]
      BY <3>1, <3>2 DEF Runs
    <3>5. running[job[u]] \/ (pc'[user'[job'[u]]] \in {"setid", "setrun"} /\ arg'[user'[job'[u]]] = job'[u])
      BY <2>2, <3>1, <3>2, <3>3 DEF Started, Starting
    <3> QED BY <2>2, <3>1, <3>2, <3>3, <3>5 DEF Started, Starting
  <2>3. CASE os'[u] = "run" /\ ~(os[u] = "run" /\ job'[u] = job[u] /\ user[job[u]] # t)
    BY <2>3 DEF Runs
  <2> QED BY <2>1, <2>2, <2>3
<1> QED BY <1>1, <1>2, <1>3 DEF RunInv

\* A quiet step of t keeps the invariant.
LEMMA QuietRuns ==
  ASSUME RunInv, NEW t \in Tids, Quiet(t)
  PROVE  Runs(t)
<1>1. UNCHANGED <<os, job, running, self, user, list>> /\ Rests(t)' /\ Over(t)'
      /\ \A h \in Handles : Starting(t, h) => Starting(t, h)'
  BY DEF Quiet
<1>2. \A h \in Handles : Unlisted(h)' => ~running'[h]
  BY <1>1 DEF RunInv, Unlisted
<1>3. ASSUME NEW u \in Pool, os[u] = "run", user[job[u]] = t PROVE Started(u)'
  <2>1. Started(u) /\ job[u] \in Handles
    BY <1>3 DEF RunInv, Started
  <2>2. Starting(t, job[u]) => (pc'[t] \in {"setid", "setrun"} /\ arg'[t] = job[u])
    BY <1>1, <2>1 DEF Starting
  <2>3. running'[job'[u]] \/ (pc'[user'[job'[u]]] \in {"setid", "setrun"} /\ arg'[user'[job'[u]]] = job'[u])
    BY <1>1, <1>3, <2>1, <2>2 DEF Started
  <2> QED BY <1>1, <1>3, <2>1, <2>3 DEF Started, Starting
<1> QED BY <1>1, <1>2, <1>3 DEF Runs

\* Nothing runs at the start.
LEMMA RunInit == Init => RunInv
<1> SUFFICES ASSUME Init PROVE RunInv
  OBVIOUS
<1>1. \A u \in Pool : os[u] = "none"
  BY IdsAssumption DEF Init, Tids
<1>2. (\A t \in Tids : pc[t] = "idle") /\ \A h \in Handles : ~running[h]
  BY DEF Init
<1> QED BY <1>1, <1>2, ListInit DEF RunInv, Rests, Over, Started

\* A call starts nothing; vtrun is called on a handle that is not running.
LEMMA RunCall ==
  ASSUME NoRace, RunInv, NEW t \in Tids, Call(t)
  PROVE  RunInv'
<1>0. RunFacts(t) /\ ListInv'
  BY RunHolds, ListCall DEF RunInv
<1>1. PICK c \in DOMAIN Start, h \in Handles \cup {None} :
           /\ call' = [call EXCEPT ![t] = c] /\ arg' = [arg EXCEPT ![t] = h] /\ pc' = [pc EXCEPT ![t] = Start[c]]
           /\ user' = IF c = "open" /\ h # None THEN [user EXCEPT ![h] = t] ELSE user
           /\ c = "open" => h = None \/ user[h] \in {None, t}
           /\ c \in {"run", "wait", "kill", "close"} => h # None /\ user[h] = t
           /\ c = "run" => ~running[h]
  BY CallTakes DEF RunInv, ListInv, LockInv
<1>2. Start[c] \notin {"place", "joined", "relock", "clear", "setid", "setrun"} /\ (Start[c] = "create" => c = "run")
  BY DEF Start
<1>3. /\ pc'[t] = Start[c] /\ arg'[t] = h /\ pc[t] = "idle" /\ UNCHANGED <<os, job, running, self, list>>
      /\ \A u \in Tids \ {t} : pc'[u] = pc[u] /\ call'[u] = call[u] /\ arg'[u] = arg[u]
  BY <1>0, <1>1 DEF RunFacts, Call, library, pthreads
<1>4. Rests(t)' /\ Over(t)'
  BY <1>1, <1>2, <1>3 DEF Rests, Over
<1>5. \A g \in Handles : user'[g] = user[g] \/ (user[g] \in {None, t} /\ user'[g] \in {None, t})
  BY <1>0, <1>1 DEF RunFacts
<1>6. \A g \in Handles : Unlisted(g)' => ~running'[g]
  BY <1>3 DEF RunInv, Unlisted
<1>7. ASSUME NEW u \in Pool, os[u] = "run", user[job[u]] = t PROVE Started(u)'
  <2>1. Started(u) /\ job[u] \in Handles /\ ~Starting(t, job[u])
    BY <1>3, <1>7 DEF RunInv, Started, Starting
  <2>2. user'[job[u]] = t /\ t # None
    BY <1>0, <1>1, <1>7, <2>1 DEF RunFacts
  <2> QED BY <1>3, <1>7, <2>1, <2>2 DEF Started
<1>8. Runs(t)
  BY <1>3, <1>4, <1>6, <1>7 DEF Runs
<1> QED BY <1>0, <1>3, <1>5, <1>8, RunKept

\* Every step keeps the invariant of the threads that run.
LEMMA RunNext ==
  ASSUME NoRace, RunInv, [Next]_vars
  PROVE  RunInv'
<1>0. ListInv'
  BY ListNext DEF RunInv
<1>1. CASE UNCHANGED vars
  <2>1. UNCHANGED <<os, job, running, self, user, list>> /\ UNCHANGED <<pc, arg>>
    BY <1>1 DEF vars, pthreads, library, handle
  <2> QED BY <1>0, <2>1 DEF RunInv, Rests, Over, Started, Starting, Unlisted
<1>2. ASSUME NEW t \in Tids, Call(t) PROVE RunInv'
  BY <1>2, RunCall
<1>3. ASSUME NEW t \in Tids, Step(t) PROVE RunInv'
  <2>1. Runs(t)
    BY <1>3, QuietStep, QuietRuns, OpenRuns, CreateRuns, CreateFailsRuns, SayRuns, WaitRuns DEF Loud
  <2>2. \A u \in Tids \ {t} : pc'[u] = pc[u] /\ call'[u] = call[u] /\ arg'[u] = arg[u]
    BY <1>3, Others, TypeParts DEF RunInv, ListInv, LockInv, TypeInv
  <2>3. \A h \in Handles : user'[h] = user[h] \/ (user[h] \in {None, t} /\ user'[h] \in {None, t})
    BY <1>3, OwnStep DEF RunInv, ListInv
  <2> QED BY <1>0, <2>1, <2>2, <2>3, RunKept
<1>4. ASSUME NEW t \in Pool, End(t) PROVE RunInv'
  <2>1. UNCHANGED <<job, running, self, user, list, pc, arg>>
    BY <1>4 DEF End, library, handle
  <2>2. \A u \in Pool : os'[u] = "run" => os[u] = "run"
    BY <1>4, RunHolds DEF End, RunFacts, Tids
  <2> QED BY <1>0, <2>1, <2>2 DEF RunInv, Rests, Over, Started, Starting, Unlisted
<1> QED BY <1>1, <1>2, <1>3, <1>4 DEF Next

\* A running thread's handle is open and, once waited for, says it runs.
LEMMA RunsOpen == RunInv => EndsBeforeClose
<1> SUFFICES ASSUME RunInv, NEW u \in Pool, os[u] = "run"
             PROVE  /\ user[job[u]] # None
                    /\ waited[job[u]] /\ ~Busy(job[u], {"run"}) => running[job[u]]
  BY DEF EndsBeforeClose
<1>1. Started(u)
  BY DEF RunInv
<1>2. CASE running[job[u]]
  BY <1>1, <1>2 DEF Started
<1>3. CASE Starting(user[job[u]], job[u])
  <2>0. RunFacts(u)
    BY RunHolds DEF Tids
  <2>1. user[job[u]] \in Tids
    BY <1>1, <2>0 DEF Started, RunFacts
  <2>2. PlaceInv(user[job[u]])
    BY <2>1, RunHolds DEF RunFacts
  <2> QED BY <1>1, <1>3, <2>1, <2>2 DEF Starting, Started, Busy, PlaceInv
<1> QED BY <1>1, <1>2, <1>3 DEF Started

\* A thread is never running, unless it was cancelled, when its handle says it
\* was waited for or is closed: vtwait, and so vtclose, sees it end.
THEOREM EndsBeforeCloseAlways ==
  ASSUME NoRace
  PROVE  Spec => []EndsBeforeClose
<1>1. RunInv /\ [Next]_vars => RunInv'
  BY RunNext
<1> QED BY <1>1, RunInit, RunsOpen, PTL DEF Spec
=============================================================================
