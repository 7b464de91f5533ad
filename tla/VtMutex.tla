------------------------------ MODULE VtMutex ------------------------------
(***************************************************************************)
(* The recursive mutex of Vthread, built on a pthread mutex, a count and   *)
(* an owner that are plain memory: vtmtxlock, vtmtxtrylock, vtmtxunlock    *)
(* and vtmtxclrlock in the three variants the build selects.               *)
(*   errorcheck: pthread_mutex_lock tells a thread it already owns it      *)
(*   recursive:  the pthread mutex counts for itself                       *)
(*   generic:    pthread_mutex_trylock, then a look at the owner           *)
(* A step of a thread is one operation of the pthread mutex or one access  *)
(* to count or owner: other threads run in between.  The error field is    *)
(* left out (a failing call returns -1), as are Windows and old HP-UX.     *)
(***************************************************************************)
EXTENDS Integers

CONSTANTS Threads,
          None,         \* no thread
          Opener,       \* the thread that called vtmtxopen, maybe not one of them
          Variants,     \* which code the build may select
          Calls,        \* per variant: the calls the threads make
          Disciplined,  \* the variants whose threads only unlock and clear what they hold
          Callers,      \* bound: per variant, the threads that call
          MaxDepth      \* bound: locks a thread nests

ASSUME ThreadsAssumption == None \notin Threads
ASSUME VariantsAssumption == Variants \subseteq {"errorcheck", "recursive", "generic"}
ASSUME CallsAssumption == Calls \in [Variants -> SUBSET {"lock", "trylock", "unlock", "clrlock"}]
ASSUME BoundsAssumption ==
  MaxDepth \in Nat /\ Disciplined \subseteq Variants /\ Callers \in [Variants -> SUBSET Threads]

VARIABLES variant,        \* the build; no step changes it
          holder, depth,  \* the pthread mutex: who holds it, how often
          count, owner,   \* mtx->count and mtx->owner
          pc, call, ret,  \* per thread: where it is, in which call, its last result
          held            \* per thread: the locks the results of its calls grant it

mutex  == <<holder, depth, count, owner>>
client == <<call, ret, held>>
vars   == <<variant, mutex, pc, client>>

----------------------------------------------------------------------------
(* The client's side of a call.                                            *)

Goto(t, l) == pc' = [pc EXCEPT ![t] = l] /\ UNCHANGED <<variant, client>>

Locking(t) == call[t] \in {"lock", "trylock"}

\* The locks a call that returned 0 leaves t with.
Granted(t) ==
  CASE Locking(t) -> held[t] + 1
    [] call[t] = "unlock" -> IF held[t] > 0 THEN held[t] - 1 ELSE 0
    [] call[t] = "clrlock" -> 0

Return(t, r) ==
  /\ pc' = [pc EXCEPT ![t] = "idle"] /\ ret' = [ret EXCEPT ![t] = r]
  /\ held' = [held EXCEPT ![t] = IF r = 0 THEN Granted(t) ELSE @]
  /\ UNCHANGED <<variant, call>>

Call(t) ==
  /\ pc[t] = "idle" /\ t \in Callers[variant]
  /\ \E c \in Calls[variant] :
       /\ c \in {"lock", "trylock"} => held[t] < MaxDepth
       /\ c \in {"unlock", "clrlock"} => (variant \in Disciplined => held[t] > 0)
       /\ call' = [call EXCEPT ![t] = c]
  /\ pc' = [pc EXCEPT ![t] = "enter"]
  /\ UNCHANGED <<variant, mutex, ret, held>>

----------------------------------------------------------------------------
(* The pthread mutex.                                                      *)

\* Taken: by a thread that finds it free, or again where it is recursive.
Take(t) ==
  /\ holder = None \/ (variant = "recursive" /\ holder = t)
  /\ holder' = t /\ depth' = depth + 1
  /\ UNCHANGED <<count, owner>>

\* One pthread_mutex_unlock.  Of a mutex held by another thread it is an
\* error that does nothing, except where nothing checks the holder.
Drop(t) ==
  \/ /\ holder = t /\ depth' = depth - 1
     /\ holder' = (IF depth = 1 THEN None ELSE holder)
  \/ holder # t /\ UNCHANGED <<holder, depth>>
  \/ variant = "generic" /\ holder \notin {t, None} /\ holder' = None /\ depth' = 0

\* The calls that use pthread_mutex_trylock.
Tries(t) == variant = "generic" \/ call[t] = "trylock"

----------------------------------------------------------------------------
(* The body of a call.                                                     *)

\* The first pthread operation succeeds, or a blocking one does later.
Enter(t) == pc[t] = "enter" /\ Take(t) /\ Goto(t, "got")

\* It reports EDEADLK (a relock of an error checking mutex) or EBUSY.
Refused(t) ==
  /\ pc[t] = "enter"
  /\ holder # None /\ ~(variant = "recursive" /\ holder = t)
  /\ Tries(t) \/ (variant = "errorcheck" /\ holder = t)
  /\ IF variant = "recursive" THEN Return(t, -1) ELSE Goto(t, "check")
  /\ UNCHANGED mutex

\* Mutant of Check: a thread that finds the mutex taken spins, its own included.
CheckSpins(t) == pc[t] = "check" /\ Goto(t, "enter") /\ UNCHANGED mutex

\* Mutant of Check: vtmtxtrylock goes on like vtmtxlock.
CheckWaits(t) ==
  /\ pc[t] = "check"
  /\ IF owner = t THEN Goto(t, "again")
     ELSE IF variant = "generic" /\ Locking(t) THEN Goto(t, "wait")
     ELSE Return(t, -1)
  /\ UNCHANGED mutex

\* pthread_equal(pthread_self(), mtx->owner): is it mine already?
Check(t) ==
  /\ pc[t] = "check"
  /\ IF owner = t THEN Goto(t, "again")
     ELSE IF variant = "generic" /\ call[t] = "lock" THEN Goto(t, "wait")
     ELSE Return(t, -1)
  /\ UNCHANGED mutex

\* The generic vtmtxlock gives up asking and blocks.
Wait(t) == pc[t] = "wait" /\ Take(t) /\ Goto(t, "got")

\* Mutant of Again: a relock starts the count over.
AgainFromOne(t) ==
  /\ pc[t] = "again"
  /\ \/ Locking(t) /\ count' = 1 /\ Return(t, 0)
     \/ call[t] = "unlock" /\ count > 1 /\ count' = count - 1 /\ Return(t, 0)
     \/ call[t] = "unlock" /\ count <= 1 /\ count' = 0 /\ Goto(t, "drop")
     \/ call[t] = "clrlock" /\ count' = 0 /\ Goto(t, "drop")
  /\ UNCHANGED <<holder, depth, owner>>

\* Mutant of Again: every unlock releases the mutex.
AgainReleases(t) ==
  /\ pc[t] = "again"
  /\ \/ Locking(t) /\ count' = count + 1 /\ Return(t, 0)
     \/ call[t] = "unlock" /\ count' = count - 1 /\ Goto(t, "drop")
     \/ call[t] = "clrlock" /\ count' = 0 /\ Goto(t, "drop")
  /\ UNCHANGED <<holder, depth, owner>>

\* A thread that owns it counts, and releases it when the count is spent.
Again(t) ==
  /\ pc[t] = "again"
  /\ \/ Locking(t) /\ count' = count + 1 /\ Return(t, 0)
     \/ call[t] = "unlock" /\ count > 1 /\ count' = count - 1 /\ Return(t, 0)
     \/ call[t] = "unlock" /\ count <= 1 /\ count' = 0 /\ Goto(t, "drop")
     \/ call[t] = "clrlock" /\ count' = 0 /\ Goto(t, "drop")
  /\ UNCHANGED <<holder, depth, owner>>

\* The mutex was free: a lock sets the count to one, and a thread that came
\* to unlock or clear a free mutex sets it to zero; then the owner.
GotCount(t) ==
  /\ pc[t] = "got" /\ variant # "recursive"
  /\ count' = (IF Locking(t) THEN 1 ELSE 0)
  /\ Goto(t, "own")
  /\ UNCHANGED <<holder, depth, owner>>

\* Mutant of SetOwner: a lock ends like an unlock, by releasing the mutex.
SetOwnerDrops(t) ==
  pc[t] = "own" /\ owner' = t /\ Goto(t, "drop") /\ UNCHANGED <<holder, depth, count>>

SetOwner(t) ==
  /\ pc[t] = "own" /\ owner' = t
  /\ IF Locking(t) THEN Return(t, 0) ELSE Goto(t, "drop")
  /\ UNCHANGED <<holder, depth, count>>

\* The recursive variant only counts; its unlock takes the mutex to look at
\* the count, and then releases it twice.
GotRecursive(t) ==
  /\ pc[t] = "got" /\ variant = "recursive"
  /\ \/ Locking(t) /\ count' = (IF count <= 0 THEN 1 ELSE count + 1) /\ Return(t, 0)
     \/ call[t] = "unlock" /\ count > 0 /\ count' = count - 1 /\ Goto(t, "drop2")
     \/ call[t] = "unlock" /\ count <= 0 /\ UNCHANGED count /\ Goto(t, "fail")
     \/ call[t] = "clrlock" /\ UNCHANGED count /\ Goto(t, "clear")
  /\ UNCHANGED <<holder, depth, owner>>

DropOne(t) == pc[t] = "drop2" /\ Drop(t) /\ Goto(t, "drop") /\ UNCHANGED <<count, owner>>

\* vtmtxclrlock unlocks once for every count, and counts down after each.
ClearOne(t) ==
  /\ pc[t] = "clear" /\ count > 0 /\ Drop(t) /\ Goto(t, "uncount")
  /\ UNCHANGED <<count, owner>>

Uncount(t) ==
  /\ pc[t] = "uncount" /\ count' = count - 1 /\ Goto(t, "clear")
  /\ UNCHANGED <<holder, depth, owner>>

ClearDone(t) ==
  /\ pc[t] = "clear" /\ count <= 0 /\ count' = 0 /\ Goto(t, "drop")
  /\ UNCHANGED <<holder, depth, owner>>

\* The last pthread_mutex_unlock of a call that succeeds, or fails.
Leave(t) ==
  /\ \/ pc[t] = "drop" /\ Return(t, 0)
     \/ pc[t] = "fail" /\ Return(t, -1)
  /\ Drop(t) /\ UNCHANGED <<count, owner>>

----------------------------------------------------------------------------
(* vtmtxopen(mtx, VT_INIT) leaves the opener's name in the owner field.    *)

Init ==
  /\ variant \in Variants /\ holder = None /\ depth = 0 /\ count = 0 /\ owner = Opener
  /\ pc = [t \in Threads |-> "idle"] /\ call = [t \in Threads |-> "lock"]
  /\ ret = [t \in Threads |-> 0] /\ held = [t \in Threads |-> 0]

Step(t) ==
  \/ Enter(t) \/ Refused(t) \/ Check(t) \/ Wait(t) \/ Again(t) \/ GotCount(t) \/ SetOwner(t)
  \/ GotRecursive(t) \/ DropOne(t) \/ ClearOne(t) \/ Uncount(t) \/ ClearDone(t) \/ Leave(t)

Next == \E t \in Threads : Call(t) \/ Step(t)

Spec == Init /\ [][Next]_vars

\* A thread inside a call runs; nothing makes a thread call.
FairSpec == Spec /\ \A t \in Threads : WF_vars(Step(t))

----------------------------------------------------------------------------
(* Properties.                                                             *)

Labels == {"idle", "enter", "check", "wait", "again", "got", "own", "drop2", "clear", "uncount", "drop", "fail"}

\* Every variable stays in its range.
TypeOK ==
  /\ variant \in Variants
  /\ holder \in Threads \cup {None} /\ depth \in Nat /\ count \in Nat /\ owner \in Threads \cup {Opener}
  /\ pc \in [Threads -> Labels] /\ call \in [Threads -> {"lock", "trylock", "unlock", "clrlock"}]
  /\ ret \in [Threads -> {0, -1}] /\ held \in [Threads -> Nat]

\* Two threads are never both granted the lock (unless nothing checks who
\* unlocks it).
MutualExclusion ==
  variant # "generic" => \A t, u \in Threads : held[t] > 0 /\ held[u] > 0 => t = u

\* Between its calls the thread that was granted the lock really has the
\* pthread mutex, is its recorded owner where one is recorded, and the count
\* is the number of unlocks it owes.
CountIsDepth ==
  \A t \in Threads :
    variant # "generic" /\ held[t] > 0 /\ pc[t] = "idle" =>
      /\ holder = t /\ count = held[t]
      /\ IF variant = "recursive" THEN depth = held[t] ELSE depth = 1 /\ owner = t

\* The locks granted by a build that keeps its promise under misuse.
Promised == [t \in Threads |-> IF variant = "generic" THEN 0 ELSE held[t]]

Lock == INSTANCE RecLock WITH held <- Promised

\* The mutex implements the recursive lock the manual describes.
ImplementsLock == Lock!Spec

\* Neither a call by the thread that holds the lock nor a vtmtxtrylock, whoever
\* holds the lock and whatever it does with it, ever blocks.
NeverBlocks ==
  \A t \in Threads :
    (pc[t] # "idle" /\ (call[t] = "trylock" \/ (variant # "generic" /\ held[t] > 0)))
      ~> (pc[t] = "idle")

=============================================================================
