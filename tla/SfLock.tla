------------------------------- MODULE SfLock -------------------------------
(***************************************************************************)
(* The mutexes of streams: sfmutex and the SFMTXSTART ... SFMTXRETURN of   *)
(* every call, the calls that lock two streams (sfstack) or a pool and its *)
(* head (_sfmode, _sfphead), sfclose and sfclrlock.  All streams are       *)
(* SF_MTSAFE.  A mutex of Vthread is what RecLock promises.  Each call is  *)
(* a list of steps, a step being one operation of a mutex or the accesses  *)
(* to a stream between two of them.                                        *)
(***************************************************************************)
EXTENDS Integers, Sequences, SequencesExt, FiniteSets

CONSTANTS Thread,
          Std,          \* sfstdout and the like: never freed
          Heap,         \* streams that sfclose frees
          Bare,         \* static streams of the application, made by SFNEW without a mutex
          PoolOrder,    \* the streams of one plain pool, in their first order
          Spare,        \* mutexes vtmtxopen can make
          None,
          Calls,        \* per thread: the calls it makes, as <<name, stream>> or <<name, f1, f2>>
          MaxHold,      \* bound: sfmutex(SFMTX_LOCK) calls of a thread that it has not undone
          Habits        \* what the application does that no call protects it from

Stream == Std \cup Heap \cup Bare \cup ToSet(PoolOrder)
PoolMutex == "pool"     \* p->mutex of the pool
LibMutex == "lib"       \* _Sfmutex
Mutex == Stream \cup Spare \cup {PoolMutex, LibMutex}

ASSUME NamesAssumption ==
  /\ None \notin Stream \cup Mutex \cup Thread /\ Spare \cap Stream = {}
  /\ {PoolMutex, LibMutex} \cap (Stream \cup Spare) = {} /\ Stream \cap Nat = {}
  /\ PoolOrder \in Seq(Heap) /\ PoolOrder # <<>> /\ IsInjective(PoolOrder)
  /\ Std \cap Heap = {} /\ Bare \cap (Std \cup Heap) = {}
ASSUME CallsAssumption ==
  DOMAIN Calls = Thread /\ \A t \in Thread : \A c \in Calls[t] :
    c[1] \in {"io", "lock", "unlock", "stack", "pop", "close", "open", "jump"} /\ c[2] \in Stream
                                             /\ (c[1] = "stack" => c[3] \in Stream)
ASSUME HabitsAssumption ==  \* first calls race; a pushed stream is used; a heap stream is closed in use
  Habits \subseteq {"lazy", "pushed", "closeused"} /\ MaxHold \in Nat

VARIABLES holder, depth,   \* per mutex: its thread or None, the count
          mtx,             \* per stream: f->mutex
          mode,            \* per stream: bits of f->mode (SF_LOCK, SF_PUSH, SF_POOL, SF_AVAIL); "freed"
          push,            \* per stream: f->push
          order,           \* the array of the pool
          touch,           \* per stream: the threads that are reading or writing it
          todo,            \* per thread: the steps left of its call
          held             \* per thread and stream: locks of the application's own

vars == <<holder, depth, mtx, mode, push, order, touch, todo, held>>

locks == <<holder, depth>>
streams == <<mtx, mode, push, order, touch>>

Idle(t) == todo[t] = <<>>
Doing(t, op) == ~Idle(t) /\ Head(todo[t])[1] = op
It(t) == Head(todo[t])[2]       \* the stream or mutex of the next step

Instead(t, steps) == todo' = [todo EXCEPT ![t] = steps \o Tail(@)]
Done(t) == todo' = [todo EXCEPT ![t] = Tail(@)]

\* Mutant of Fail: the call returns at once.
FailAtOnce(t) == todo' = [todo EXCEPT ![t] = <<>>]

\* What a call still gives back, in order.
Releases(s) ==
  LET back == {i \in DOMAIN s : s[i][1] \in {"unlock", "drop"}}
      Nth(n) == CHOOSE i \in back : Cardinality({j \in back : j <= i}) = n
  IN  [n \in 1 .. Cardinality(back) |-> s[Nth(n)]]

\* A call that fails returns with SFMTXRETURN (POOLMTXRETURN inside it).
Fail(t) == todo' = [todo EXCEPT ![t] = Releases(Tail(@))]

----------------------------------------------------------------------------
(* sfmutex.                                                                *)

\* A stream without a mutex gets one, made under _Sfmutex.
Lock(t) ==
  /\ Doing(t, "lock")
  /\ LET f == It(t)
     IN  IF mtx[f] # None THEN Instead(t, <<<<"take", mtx[f]>>>>)
         ELSE Instead(t, <<<<"take", LibMutex>>, <<"make", f>>, <<"drop", LibMutex>>, <<"lock", f>>>>)
  /\ UNCHANGED <<locks, streams, held>>

Make(t) ==
  /\ Doing(t, "make")
  /\ \E m \in Spare \ {mtx[f] : f \in Stream} :
       holder[m] = None /\ mtx' = [mtx EXCEPT ![It(t)] = m]
  /\ Done(t) /\ UNCHANGED <<locks, mode, push, order, touch, held>>

\* Mutant of Grantable: a mutex is locked once.
GrantableOnce(t, m) == holder[m] = None

\* The thread can have the mutex, if it holds it already once more.
Grantable(t, m) == holder[m] \in {None, t}

\* vtmtxlock.
Take(t) ==
  /\ Doing(t, "take") /\ Grantable(t, It(t))
  /\ holder' = [holder EXCEPT ![It(t)] = t] /\ depth' = [depth EXCEPT ![It(t)] = @ + 1]
  /\ Done(t) /\ UNCHANGED <<streams, held>>

\* vtmtxunlock of a mutex that another thread holds, or nobody, does nothing.
Drop(t, m) ==
  IF holder[m] = t
  THEN /\ depth' = [depth EXCEPT ![m] = @ - 1]
       /\ holder' = IF depth[m] = 1 THEN [holder EXCEPT ![m] = None] ELSE holder
  ELSE UNCHANGED locks

Unlock(t) ==
  /\ Doing(t, "unlock") \/ Doing(t, "drop")
  /\ LET m == IF Doing(t, "drop") THEN It(t) ELSE mtx[It(t)]
     IN  IF m = None THEN UNCHANGED locks ELSE Drop(t, m)
  /\ Done(t) /\ UNCHANGED <<streams, held>>

\* vtmtxclrlock of the mutex of a stream.
Cleared(t, f) ==
  IF mtx[f] # None /\ holder[mtx[f]] = t
  THEN holder' = [holder EXCEPT ![mtx[f]] = None] /\ depth' = [depth EXCEPT ![mtx[f]] = 0]
  ELSE UNCHANGED locks

----------------------------------------------------------------------------
(* The body of a call.                                                     *)

Frozen(f) == mode[f] \cap {"lock", "push"} # {}
Touching(t, S) == touch' = [f \in Stream |-> IF f \in S THEN touch[f] \cup {t} ELSE touch[f]]
Untouching(t, S) == touch' = [f \in Stream |-> IF f \in S THEN touch[f] \ {t} ELSE touch[f]]

\* _sfmode(f,0,0): a frozen or closed stream cannot be used; one behind the
\* head of the pool is to be moved there, from the place it has now.
Check(t) ==
  /\ Doing(t, "check")
  /\ LET f == It(t)
     IN  IF Frozen(f) \/ "avail" \in mode[f] THEN Fail(t)
         ELSE IF "pool" \in mode[f] /\ \E n \in DOMAIN order : order[n] = f
         THEN LET n == CHOOSE n \in DOMAIN order : order[n] = f
              IN  IF n = 1 THEN Fail(t)
                  ELSE Instead(t, <<<<"take", PoolMutex>>, <<"head", f, n>>, <<"drop", PoolMutex>>>>)
         ELSE Done(t)
  /\ UNCHANGED <<locks, streams, held>>

\* SFLOCK(f,0), and the call goes on to read and write the stream.
Enter(t) ==
  /\ Doing(t, "enter")
  /\ mode' = [mode EXCEPT ![It(t)] = @ \cup {"lock"}] /\ Touching(t, {It(t)})
  /\ Done(t) /\ UNCHANGED <<locks, mtx, push, order, held>>

\* SFOPEN(f,0).
Leave(t) ==
  /\ Doing(t, "leave")
  /\ mode' = [mode EXCEPT ![It(t)] = @ \ {"lock"}] /\ Untouching(t, {It(t)})
  /\ Done(t) /\ UNCHANGED <<locks, mtx, push, order, held>>

\* An exception handler jumps out of the call; the application then calls
\* sfclrlock(f) and sfmutex(f,SFMTX_CLRLOCK).
Jump(t) ==
  /\ Doing(t, "leave") /\ <<"jump", It(t)>> \in Calls[t]
  /\ LET f == It(t)
     IN  /\ Untouching(t, {f})
         /\ todo' = [todo EXCEPT ![t] = <<<<"lock", f>>, <<"clear", f>>, <<"unlock", f>>, <<"clrmtx", f>>>>]
  /\ UNCHANGED <<locks, mtx, mode, push, order, held>>

Clear(t) ==
  /\ Doing(t, "clear")
  /\ mode' = [mode EXCEPT ![It(t)] = IF "avail" \in @ THEN @ ELSE @ \cap {"pool", "push"}]
  /\ Done(t) /\ UNCHANGED <<locks, mtx, push, order, touch, held>>

ClearMutex(t) ==
  /\ Doing(t, "clrmtx") /\ Cleared(t, It(t)) /\ held' = [held EXCEPT ![t][It(t)] = 0]
  /\ Done(t) /\ UNCHANGED streams

----------------------------------------------------------------------------
(* _sfphead: f changes places with the head h of the pool, which is synced *)
(* first under its own mutex.                                              *)

Head1(t) ==
  /\ Doing(t, "head")
  /\ LET f == It(t)  n == Head(todo[t])[3]  h == order[1]
     IN  IF Frozen(h) THEN Fail(t) /\ UNCHANGED mode
         ELSE /\ mode' = [mode EXCEPT ![h] = @ \cup {"lock"}]
              /\ Instead(t, <<<<"lock", h>>, <<"touch", h>>, <<"untouch", h>>, <<"unlock", h>>,
                              <<"touch", h>>, <<"swaphead", f, n, h>>>>)
  /\ UNCHANGED <<locks, mtx, push, order, touch, held>>

\* sfsync(h) and the reset of its pointers.
Touch(t) ==
  /\ (Doing(t, "touch") /\ Touching(t, {It(t)})) \/ (Doing(t, "untouch") /\ Untouching(t, {It(t)}))
  /\ Done(t) /\ UNCHANGED <<locks, mtx, mode, push, order, held>>

SwapHead(t) ==
  /\ Doing(t, "swaphead")
  /\ LET f == It(t)  n == Head(todo[t])[3]  h == Head(todo[t])[4]
     IN  /\ order' = [order EXCEPT ![n] = h, ![1] = f]
         /\ mode' = [mode EXCEPT ![f] = @ \ {"pool"}, ![h] = (@ \cup {"pool"}) \ {"lock"}]
         /\ Untouching(t, {h})
  /\ Done(t) /\ UNCHANGED <<locks, mtx, push, held>>

----------------------------------------------------------------------------
(* sfstack and sfswap.                                                     *)

\* sfstack(f1,f2): f2 must have nothing pushed on it.
Stack(t) ==
  /\ Doing(t, "stack")
  /\ LET f1 == It(t)  f2 == Head(todo[t])[3]
     IN  IF push[f2] # None THEN Fail(t) ELSE Instead(t, <<<<"swap", f1, f2>>, <<"swapped", f1, f2>>>>)
  /\ UNCHANGED <<locks, streams, held>>

\* sfstack(f1,NULL) exposes f2 = f1->push, whose mutex it has not locked but unlocks.
Pop(t) ==
  /\ Doing(t, "pop")
  /\ LET f1 == It(t)  f2 == push[f1]
     IN  IF f2 = None THEN Fail(t) /\ UNCHANGED mode
         ELSE /\ mode' = [mode EXCEPT ![f2] = @ \ {"push"}]
              /\ todo' = [todo EXCEPT ![t] = <<<<"swap", f1, f2>>, <<"swapped", f1, f2>>, <<"unlock", f1>>,
                                               <<"unlock", f2>>>> \o Tail(Tail(@))]
  /\ UNCHANGED <<locks, mtx, push, order, touch, held>>

\* sfswap locks both; a pushed stream is not exchanged.
Swap(t) ==
  /\ Doing(t, "swap")
  /\ LET S == {It(t), Head(todo[t])[3]}
     IN  /\ mode' = [f \in Stream |-> IF f \in S THEN mode[f] \cup {"lock"} ELSE mode[f]]
         /\ Touching(t, S)
  /\ Done(t) /\ UNCHANGED <<locks, mtx, push, order, held>>

\* Mutant of Swapped: the stream just popped stays named.
SwappedNamed(t) ==
  /\ Doing(t, "swapped")
  /\ LET f1 == It(t)  f2 == Head(todo[t])[3]
         popped == push[f1] = f2
     IN  /\ push' = [push EXCEPT ![f1] = f2, ![f2] = IF popped THEN None ELSE push[f1]]
         /\ mode' = [mode EXCEPT ![f1] = mode[f2] \ {"lock", "push"},
                                 ![f2] = (mode[f1] \ {"lock"}) \cup (IF popped THEN {} ELSE {"push"})]
         /\ Untouching(t, {f1, f2})
  /\ Done(t) /\ UNCHANGED <<locks, mtx, order, held>>

\* The images, with push and mode, have changed places; the mutexes are put
\* back. A stream that names itself is the one just popped.
Swapped(t) ==
  /\ Doing(t, "swapped")
  /\ LET f1 == It(t)  f2 == Head(todo[t])[3]
         popped == push[f1] = f2
     IN  /\ push' = [push EXCEPT ![f1] = IF popped THEN push[f2] ELSE f2, ![f2] = IF popped THEN None ELSE push[f1]]
         /\ mode' = [mode EXCEPT ![f1] = mode[f2] \ {"lock", "push"},
                                 ![f2] = (mode[f1] \ {"lock"}) \cup (IF popped THEN {} ELSE {"push"})]
         /\ Untouching(t, {f1, f2})
  /\ Done(t) /\ UNCHANGED <<locks, mtx, order, held>>

----------------------------------------------------------------------------
(* sfclose.                                                                *)

\* What is pushed is popped and closed first.
CloseStack(t) ==
  /\ Doing(t, "closing") /\ push[It(t)] # None
  /\ LET f == It(t)  g == push[f]
     IN  Instead(t, <<<<"lock", f>>, <<"check", f>>, <<"pop", f>>, <<"unlock", f>>, <<"lock", g>>,
                      <<"check", g>>, <<"closing", g>>, <<"unlock", g>>, <<"closing", f>>>>)
  /\ UNCHANGED <<locks, streams, held>>

\* Then the stream is synced and killed, out of its pool. The mutex is not
\* unlocked but cleared.
Kill(t) ==
  /\ Doing(t, "closing") /\ push[It(t)] = None
  /\ mode' = [mode EXCEPT ![It(t)] = {"avail", "lock"}] /\ Touching(t, {It(t)})
  /\ todo' = [todo EXCEPT ![t] = <<<<"clr", It(t)>>, <<"final", It(t)>>>> \o Tail(Tail(@))]
  /\ UNCHANGED <<locks, mtx, push, order, held>>

\* The mutex is cleared, however often it is locked; only sfstdin, sfstdout
\* and sfstderr keep theirs.
CloseMutex(t) ==
  /\ Doing(t, "clr")
  /\ LET f == It(t)
     IN  /\ Cleared(t, f)
         /\ mtx' = IF f \in Std THEN mtx ELSE [mtx EXCEPT ![f] = None]
         /\ held' = [held EXCEPT ![t][f] = 0]
  /\ Done(t) /\ UNCHANGED <<mode, push, order, touch>>

\* Mutant of Final: the standard streams are freed as well.
FinalFrees(t) ==
  /\ Doing(t, "final")
  /\ mode' = [mode EXCEPT ![It(t)] = IF It(t) \in Heap \cup Std THEN {"freed"} ELSE {"avail"}]
  /\ Untouching(t, {It(t)})
  /\ Done(t) /\ UNCHANGED <<locks, mtx, push, order, held>>

\* free(f), or f is available again.
Final(t) ==
  /\ Doing(t, "final")
  /\ mode' = [mode EXCEPT ![It(t)] = IF It(t) \in Heap THEN {"freed"} ELSE {"avail"}]
  /\ Untouching(t, {It(t)})
  /\ Done(t) /\ UNCHANGED <<locks, mtx, push, order, held>>

----------------------------------------------------------------------------
(* The application.                                                        *)

Using(t, f) == \E i \in DOMAIN todo[t] : f \in {todo[t][i][j] : j \in 2 .. Len(todo[t][i])}
InUse(t, f) == \E u \in Thread \ {t} : Using(u, f) \/ held[u][f] > 0

\* Is pushed on a stream; a thread is pushing it.
Pushed(f) == \E g \in Stream : push[g] = f
Pushing(t, f) ==
  \E u \in Thread \ {t} : \E i \in DOMAIN todo[u] :
    todo[u][i] \in {"stack", "swap", "swapped"} \X Stream \X {f}

\* Another thread is in sfclose(f).
Closing(t, f) ==
  \E u \in Thread \ {t} : \E i \in DOMAIN todo[u] : todo[u][i] \in {"closing", "clr", "final"} \X {f}

\* A thread names a stream that is open (or a standard one), not pushed on
\* another, and while it holds one by sfmutex it calls only on that.
Names(t, f) ==
  /\ f \in Std \/ mode[f] \cap {"freed", "avail"} = {}
  /\ f \in Std \/ "closeused" \in Habits \/ ~Closing(t, f)
  /\ "pushed" \in Habits \/ ~(Pushed(f) \/ Pushing(t, f))
  /\ "lazy" \in Habits \/ mtx[f] # None \/ ~InUse(t, f)
  /\ \A g \in Stream : held[t][g] > 0 => g = f

\* Mutant of Io: the mutex is given back once the mode is checked.
IoUnlocked(f) == <<<<"lock", f>>, <<"check", f>>, <<"unlock", f>>, <<"enter", f>>, <<"leave", f>>>>

\* A call on one stream.
Io(f) == <<<<"lock", f>>, <<"check", f>>, <<"enter", f>>, <<"leave", f>>, <<"unlock", f>>>>

Steps(c) ==
  LET f == c[2]
  IN  CASE c[1] = "io"    -> Io(f)
        [] c[1] = "stack" -> <<<<"lock", f>>, <<"lock", c[3]>>, <<"check", f>>, <<"check", c[3]>>,
                               <<"stack", f, c[3]>>, <<"unlock", f>>, <<"unlock", c[3]>>>>
        [] c[1] = "pop"   -> <<<<"lock", f>>, <<"check", f>>, <<"pop", f>>, <<"unlock", f>>>>
        [] c[1] = "close" -> <<<<"lock", f>>, <<"check", f>>, <<"closing", f>>, <<"unlock", f>>>>

Call(t) ==
  /\ Idle(t)
  /\ \E c \in Calls[t] :
       /\ c[1] \in {"io", "stack", "pop", "close"} /\ Names(t, c[2])
       /\ c[1] = "stack" => Names(t, c[3]) /\ ~InUse(t, c[3])
       /\ c[1] = "close" /\ c[2] \notin Std => "closeused" \in Habits \/ ~InUse(t, c[2])
       /\ todo' = [todo EXCEPT ![t] = Steps(c)]
  /\ UNCHANGED <<locks, streams, held>>

\* sfmutex of the application: it releases what it has locked.
HoldIt(t) ==
  /\ Idle(t)
  /\ \E f \in Stream :
       /\ <<"lock", f>> \in Calls[t] /\ Names(t, f) /\ held[t][f] < MaxHold
       /\ todo' = [todo EXCEPT ![t] = <<<<"lock", f>>>>] /\ held' = [held EXCEPT ![t][f] = @ + 1]
  /\ UNCHANGED <<locks, streams>>

LetGo(t) ==
  /\ Idle(t)
  /\ \E f \in Stream :
       /\ held[t][f] > 0 /\ Drop(t, mtx[f]) /\ held' = [held EXCEPT ![t][f] = @ - 1]
  /\ UNCHANGED <<streams, todo>>

\* sfopen (sfnew) of a closed standard stream, or of a new one where a freed
\* one was; nobody else is in a call on it.
Open(t) ==
  /\ Idle(t)
  /\ \E f \in Stream :
       /\ <<"open", f>> \in Calls[t] /\ mode[f] \in {{"avail"}, {"freed"}} /\ ~InUse(t, f)
       /\ mode' = [mode EXCEPT ![f] = {}]
       /\ \/ mtx[f] # None /\ UNCHANGED mtx
          \/ mtx[f] = None /\ holder[f] = None /\ mtx' = [mtx EXCEPT ![f] = f]
  /\ UNCHANGED <<locks, push, order, touch, todo, held>>

Init ==
  /\ holder = [m \in Mutex |-> None] /\ depth = [m \in Mutex |-> 0]
  /\ mtx = [f \in Stream |-> IF f \in Bare THEN None ELSE f]
  /\ mode = [f \in Stream |-> IF f \in ToSet(Tail(PoolOrder)) THEN {"pool"} ELSE {}]
  /\ push = [f \in Stream |-> None] /\ order = PoolOrder
  /\ touch = [f \in Stream |-> {}] /\ todo = [t \in Thread |-> <<>>]
  /\ held = [t \in Thread |-> [f \in Stream |-> 0]]

Step(t) ==
  \/ Lock(t) \/ Make(t) \/ Take(t) \/ Unlock(t)
  \/ Check(t) \/ Enter(t) \/ Leave(t) \/ Jump(t) \/ Clear(t) \/ ClearMutex(t)
  \/ Head1(t) \/ Touch(t) \/ SwapHead(t)
  \/ Stack(t) \/ Pop(t) \/ Swap(t) \/ Swapped(t)
  \/ CloseStack(t) \/ Kill(t) \/ CloseMutex(t) \/ Final(t)

Next == \E t \in Thread : Step(t) \/ Call(t) \/ HoldIt(t) \/ LetGo(t) \/ Open(t)

Spec == Init /\ [][Next]_vars

----------------------------------------------------------------------------
(* Properties.                                                             *)

\* Every variable keeps its range; a mutex has a holder when its count is not 0.
TypeOK ==
  /\ holder \in [Mutex -> Thread \cup {None}] /\ depth \in [Mutex -> Nat]
  /\ \A m \in Mutex : holder[m] = None <=> depth[m] = 0
  /\ mtx \in [Stream -> Mutex \cup {None}] /\ push \in [Stream -> Stream \cup {None}]
  /\ mode \in [Stream -> SUBSET {"lock", "push", "pool", "avail", "freed"}]
  /\ touch \in [Stream -> SUBSET Thread] /\ held \in [Thread -> [Stream -> 0 .. MaxHold]]
  /\ Len(order) = Len(PoolOrder)

\* "A mutex lock will be used to ensure that only one thread at a time can
\* access the stream" (sfio.3, SF_MTSAFE): two threads never read and write
\* the same stream at once, whatever was stacked, popped, closed or moved.
OneThread == \A f \in Stream : Cardinality(touch[f]) <= 1

\* The threads that wait for a mutex, and the threads they wait for.
Waits(t, u) == Doing(t, "take") /\ ~Grantable(t, It(t)) /\ holder[It(t)] = u

\* No threads wait for each other in a circle, nor one for itself: sfstack
\* locks two streams, sfclose those pushed on its own, and a pool's mutex is
\* held while the head's is asked for.
NoCircle ==
  \A S \in (SUBSET Thread) \ {{}} : \E t \in S : \A u \in S : ~Waits(t, u)

\* A stream names the stream pushed on it, which is frozen (SF_PUSH) and named
\* by no other; a stack ends.
StackSound ==
  LET still == {f \in Stream : touch[f] = {} /\ \A t \in Thread : ~(Doing(t, "swap") /\ Using(t, f))}
  IN  /\ \A f, g \in Stream : push[f] # None /\ push[f] = push[g] => f = g
      /\ \A g \in still : "push" \in mode[g] <=> Pushed(g)
      /\ \A S \in (SUBSET Stream) \ {{}} : \E f \in S : push[f] \notin S

\* A thread between two calls holds the locks the application asked for, as
\* often, and no others; and no stream stays frozen by a call that is over.
CallsLeaveNothing ==
  /\ \A t \in Thread : Idle(t) => \A m \in Mutex :
       (IF holder[m] = t THEN depth[m] ELSE 0)
         = IF \E f \in Stream : mtx[f] = m /\ held[t][f] > 0
           THEN held[t][CHOOSE f \in Stream : mtx[f] = m /\ held[t][f] > 0] ELSE 0
  /\ (\A t \in Thread : Idle(t)) => \A f \in Stream : "lock" \notin mode[f] /\ touch[f] = {}

\* No call reads or locks a stream after it is freed.
NoFreed ==
  \A t \in Thread : \A f \in Stream : "freed" \in mode[f] => ~(~Idle(t) /\ Using(t, f))
=============================================================================
