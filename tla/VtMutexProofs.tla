---------------------------- MODULE VtMutexProofs ----------------------------
(***************************************************************************)
(* On a recursive pthread mutex, and on an error checking one as long as   *)
(* vtmtxtrylock is not used (it looks at an owner that other threads       *)
(* change), the mutex of Vthread is a recursive lock, for any set of       *)
(* threads, disciplined or not.                                            *)
(***************************************************************************)
EXTENDS VtMutex, TLAPS

\* The build whose pthread mutex tells a relock, and callers that block.
Detecting == variant = "errorcheck" /\ variant \in Variants /\ "trylock" \notin Calls[variant]

Types ==
  /\ holder \in Threads \cup {None} /\ depth \in Int /\ count \in Int
  /\ pc \in [Threads -> {"idle", "enter", "check", "again", "got", "own", "drop"}]
  /\ call \in [Threads -> {"lock", "unlock", "clrlock"}]
  /\ held \in [Threads -> Nat]

\* Where a thread that holds the pthread mutex is, and what it has there.
HolderInv(t) ==
  \/ pc[t] \in {"idle", "enter", "check", "again"} /\ held[t] > 0 /\ count = held[t] /\ owner = t
  \/ pc[t] = "got" /\ held[t] = 0
  \/ pc[t] = "own" /\ held[t] = 0 /\ (call[t] = "lock" => count = 1)
  \/ pc[t] = "drop" /\ call[t] \in {"unlock", "clrlock"} /\ (call[t] = "unlock" => held[t] <= 1)

\* A thread that does not hold it has nothing, and may be waiting for it.
ThreadInv(t) ==
  IF holder = t THEN depth = 1 /\ HolderInv(t) ELSE pc[t] \in {"idle", "enter"} /\ held[t] = 0

IInv ==
  /\ Types
  /\ holder = None => depth = 0
  /\ \A t \in Threads : ThreadInv(t)

\* The build that counts twice: the pthread mutex for itself, and mtx->count.
Recursive == variant = "recursive" /\ variant \in Variants

RecTypes ==
  /\ holder \in Threads \cup {None} /\ depth \in Int /\ count \in Int
  /\ pc \in [Threads -> {"idle", "enter", "got", "drop2", "clear", "uncount", "drop", "fail"}]
  /\ call \in [Threads -> {"lock", "trylock", "unlock", "clrlock"}]
  /\ held \in [Threads -> Nat]

\* Where a thread that holds that pthread mutex is, and how far the two counts
\* and the locks it was granted have drifted apart there.
RecPlace(t) ==
  \/ pc[t] \in {"idle", "enter"} /\ held[t] > 0 /\ depth = held[t] /\ count = held[t]
  \/ pc[t] = "got" /\ depth = held[t] + 1 /\ count = held[t]
  \/ pc[t] = "drop2" /\ call[t] = "unlock" /\ held[t] > 0 /\ depth = held[t] + 1 /\ count = held[t] - 1
  \/ pc[t] = "drop" /\ call[t] = "unlock" /\ held[t] > 0 /\ depth = held[t] /\ count = held[t] - 1
  \/ pc[t] = "fail" /\ held[t] = 0 /\ depth = 1 /\ count = 0
  \/ pc[t] = "clear" /\ call[t] = "clrlock" /\ count >= 0 /\ depth = count + 1
  \/ pc[t] = "uncount" /\ call[t] = "clrlock" /\ count > 0 /\ depth = count
  \/ pc[t] = "drop" /\ call[t] = "clrlock" /\ depth = 1 /\ count = 0

RecThread(t) ==
  IF holder = t THEN RecPlace(t) ELSE pc[t] \in {"idle", "enter"} /\ held[t] = 0

RecInv ==
  /\ RecTypes
  /\ holder = None => depth = 0 /\ count = 0
  /\ \A t \in Threads : RecThread(t)

----------------------------------------------------------------------------
(* The steps of one thread seen from the others.                           *)

\* What a step of t leaves of the other threads' own state.
Others(t) ==
  \A u \in Threads \ {t} : pc'[u] = pc[u] /\ call'[u] = call[u] /\ held'[u] = held[u]

\* A thread that neither holds the mutex nor gets it is not disturbed.
LEMMA OthersInv ==
  ASSUME IInv, NEW t \in Threads, Others(t),
         \/ holder' = holder /\ depth' = depth /\ count' = count /\ owner' = owner
         \/ holder \in {t, None} /\ holder' \in {t, None}
  PROVE  \A u \in Threads \ {t} : ThreadInv(u)'
<1>1. SUFFICES ASSUME NEW u \in Threads \ {t}
               PROVE  ThreadInv(u)'
  OBVIOUS
<1>2. u # t /\ u # None /\ ThreadInv(u) /\ pc'[u] = pc[u] /\ call'[u] = call[u] /\ held'[u] = held[u]
  BY ThreadsAssumption DEF IInv, Others
<1>3. CASE holder' = holder /\ depth' = depth /\ count' = count /\ owner' = owner
  BY <1>2, <1>3 DEF ThreadInv, HolderInv
<1>4. CASE holder \in {t, None} /\ holder' \in {t, None}
  BY <1>2, <1>4 DEF ThreadInv
<1>5. QED
  BY <1>3, <1>4

\* So a step keeps the invariant if it keeps the types and the thread's part.
LEMMA StepFrame ==
  ASSUME IInv, NEW t \in Threads, Others(t), Types', ThreadInv(t)', holder' = None => depth' = 0,
         \/ holder' = holder /\ depth' = depth /\ count' = count /\ owner' = owner
         \/ holder \in {t, None} /\ holder' \in {t, None}
  PROVE  IInv'
<1>1. \A u \in Threads \ {t} : ThreadInv(u)'
  BY OthersInv
<1>2. \A u \in Threads : ThreadInv(u)'
  BY <1>1
<1>3. QED
  BY <1>2 DEF IInv

\* A thread that goes to another point of its call.
LEMMA GotoEffect ==
  ASSUME IInv \/ RecInv, NEW t \in Threads, NEW l, Goto(t, l)
  PROVE  Others(t) /\ pc' = [pc EXCEPT ![t] = l] /\ pc'[t] = l /\ call' = call /\ held' = held
BY DEF IInv, Types, RecInv, RecTypes, Goto, Others, client

\* A thread whose call returns.
LEMMA ReturnEffect ==
  ASSUME IInv \/ RecInv, NEW t \in Threads, NEW r \in {0, -1}, Return(t, r)
  PROVE  /\ Others(t) /\ pc' = [pc EXCEPT ![t] = "idle"] /\ pc'[t] = "idle" /\ call' = call
         /\ held' \in [Threads -> Nat]
         /\ r = 0 => held' = [held EXCEPT ![t] = Granted(t)] /\ held'[t] = Granted(t)
         /\ r = -1 => held' = held
<1>1. Granted(t) \in Nat
  <2>1. call[t] \in {"lock", "trylock", "unlock", "clrlock"} /\ held[t] \in Nat
    BY DEF IInv, Types, RecInv, RecTypes
  <2>2. QED
    BY <2>1 DEF Granted, Locking
<1>2. /\ pc' = [pc EXCEPT ![t] = "idle"] /\ call' = call
      /\ held' = [held EXCEPT ![t] = IF r = 0 THEN Granted(t) ELSE held[t]]
  BY DEF Return
<1>3. held \in [Threads -> Nat] /\ pc'[t] = "idle" /\ Others(t)
  BY <1>2 DEF IInv, Types, RecInv, RecTypes, Others
<1>4. CASE r = 0
  <2>1. held' = [held EXCEPT ![t] = Granted(t)]
    BY <1>2, <1>4
  <2>2. held' \in [Threads -> Nat] /\ held'[t] = Granted(t)
    BY <1>1, <1>3, <2>1
  <2>3. QED
    BY <1>2, <1>3, <1>4, <2>1, <2>2
<1>5. CASE r = -1
  <2>1. r # 0 /\ held' = [held EXCEPT ![t] = held[t]]
    BY <1>2, <1>5
  <2>2. held' = held
    BY <1>3, <2>1
  <2>3. QED
    BY <1>2, <1>3, <1>5, <2>1, <2>2
<1>6. QED
  BY <1>4, <1>5

----------------------------------------------------------------------------
(* One lemma per action.                                                   *)

LEMMA CallInv == ASSUME Detecting, IInv, NEW t \in Threads, Call(t) PROVE IInv'
<1>1. PICK c \in Calls[variant] : call' = [call EXCEPT ![t] = c]
  BY DEF Call
<1>2. /\ pc[t] = "idle" /\ pc' = [pc EXCEPT ![t] = "enter"] /\ held' = held
      /\ holder' = holder /\ depth' = depth /\ count' = count /\ owner' = owner
  BY DEF Call, mutex
<1>3. c \in {"lock", "unlock", "clrlock"}
  BY <1>1, CallsAssumption DEF Detecting
<1>4. Others(t) /\ Types' /\ pc'[t] = "enter"
  BY <1>1, <1>2, <1>3 DEF IInv, Types, Others
<1>5. ThreadInv(t)'
  BY <1>2, <1>4 DEF IInv, ThreadInv, HolderInv
<1>6. holder' = None => depth' = 0
  BY <1>2 DEF IInv
<1>7. QED
  BY <1>2, <1>4, <1>5, <1>6, StepFrame

LEMMA EnterInv == ASSUME Detecting, IInv, NEW t \in Threads, Enter(t) PROVE IInv'
<1>1. /\ holder = None /\ holder' = t /\ depth' = depth + 1 /\ count' = count /\ owner' = owner
      /\ pc[t] = "enter" /\ Goto(t, "got")
  BY DEF Enter, Take, Detecting
<1>2. Others(t) /\ pc' = [pc EXCEPT ![t] = "got"] /\ pc'[t] = "got" /\ call' = call /\ held' = held
  BY <1>1, GotoEffect
<1>3. held[t] = 0 /\ depth = 0
  BY <1>1, ThreadsAssumption DEF IInv, ThreadInv
<1>4. depth' = 1
  BY <1>1, <1>3
<1>5. Types'
  BY <1>1, <1>2, <1>4 DEF IInv, Types
<1>6. ThreadInv(t)'
  BY <1>1, <1>2, <1>3, <1>4 DEF ThreadInv, HolderInv
<1>7. holder' # None
  BY <1>1, ThreadsAssumption
<1>8. QED
  BY <1>1, <1>2, <1>5, <1>6, <1>7, StepFrame

LEMMA RefusedInv == ASSUME Detecting, IInv, NEW t \in Threads, Refused(t) PROVE IInv'
<1>1. call[t] \in {"lock", "unlock", "clrlock"}
  BY DEF IInv, Types
<1>2. ~Tries(t)
  BY <1>1 DEF Tries, Detecting
<1>3. holder = t /\ pc[t] = "enter" /\ Goto(t, "check")
  BY <1>2 DEF Refused, Detecting
<1>4. holder' = holder /\ depth' = depth /\ count' = count /\ owner' = owner
  BY DEF Refused, mutex
<1>5. Others(t) /\ pc' = [pc EXCEPT ![t] = "check"] /\ pc'[t] = "check" /\ call' = call /\ held' = held
  BY <1>3, GotoEffect
<1>6. Types' /\ (holder' = None => depth' = 0)
  BY <1>4, <1>5 DEF IInv, Types
<1>7. ThreadInv(t)'
  BY <1>3, <1>4, <1>5 DEF IInv, ThreadInv, HolderInv
<1>8. QED
  BY <1>4, <1>5, <1>6, <1>7, StepFrame

\* The owner finds itself in mtx->owner: the check never fails.
LEMMA CheckStep ==
  ASSUME Detecting, IInv, NEW t \in Threads, Check(t)
  PROVE  holder = t /\ pc[t] = "check" /\ Goto(t, "again") /\ UNCHANGED mutex
<1>1. pc[t] = "check" /\ ThreadInv(t)
  BY DEF Check, IInv
<1>2. holder = t /\ owner = t
  BY <1>1 DEF ThreadInv, HolderInv
<1>3. QED
  BY <1>1, <1>2 DEF Check

LEMMA CheckInv == ASSUME Detecting, IInv, NEW t \in Threads, Check(t) PROVE IInv'
<1>1. holder = t /\ pc[t] = "check" /\ Goto(t, "again")
  BY CheckStep
<1>2. holder' = holder /\ depth' = depth /\ count' = count /\ owner' = owner
  BY CheckStep DEF mutex
<1>3. Others(t) /\ pc' = [pc EXCEPT ![t] = "again"] /\ pc'[t] = "again" /\ call' = call /\ held' = held
  BY <1>1, GotoEffect
<1>4. Types' /\ (holder' = None => depth' = 0)
  BY <1>2, <1>3 DEF IInv, Types
<1>5. ThreadInv(t)'
  BY <1>1, <1>2, <1>3 DEF IInv, ThreadInv, HolderInv
<1>6. QED
  BY <1>2, <1>3, <1>4, <1>5, StepFrame

LEMMA AgainInv == ASSUME Detecting, IInv, NEW t \in Threads, Again(t) PROVE IInv'
<1>1. pc[t] = "again" /\ holder' = holder /\ depth' = depth /\ owner' = owner
  BY DEF Again
<1>2. holder = t /\ depth = 1 /\ held[t] > 0 /\ count = held[t] /\ owner = t /\ t # None
  BY <1>1, ThreadsAssumption DEF IInv, ThreadInv, HolderInv
<1>3. held[t] \in Nat /\ count \in Int /\ call[t] \in {"lock", "unlock", "clrlock"}
  BY DEF IInv, Types
<1>4. CASE Locking(t) /\ count' = count + 1 /\ Return(t, 0)
  <2>1. Others(t) /\ pc' = [pc EXCEPT ![t] = "idle"] /\ pc'[t] = "idle" /\ call' = call
        /\ held' \in [Threads -> Nat] /\ held'[t] = Granted(t)
    BY <1>4, ReturnEffect
  <2>2. call[t] = "lock"
    BY <1>3, <1>4 DEF Locking
  <2>3. Granted(t) = held[t] + 1
    BY <2>2 DEF Granted, Locking
  <2>4. held[t] + 1 \in Int /\ held[t] + 1 > 0
    BY <1>2, <1>3
  <2>5. held'[t] = held[t] + 1 /\ count' = held[t] + 1 /\ held[t] + 1 > 0 /\ count' \in Int
    BY <1>2, <1>4, <2>1, <2>3, <2>4
  <2>6. Types'
    BY <1>1, <2>1, <2>5 DEF IInv, Types
  <2>7. ThreadInv(t)'
    BY <1>1, <1>2, <2>1, <2>5 DEF ThreadInv, HolderInv
  <2>8. QED
    BY <1>1, <1>2, <2>1, <2>6, <2>7, StepFrame
<1>5. CASE call[t] = "unlock" /\ count > 1 /\ count' = count - 1 /\ Return(t, 0)
  <2>1. Others(t) /\ pc' = [pc EXCEPT ![t] = "idle"] /\ pc'[t] = "idle" /\ call' = call
        /\ held' \in [Threads -> Nat] /\ held'[t] = Granted(t)
    BY <1>5, ReturnEffect
  <2>2. held'[t] = held[t] - 1 /\ count' = held[t] - 1 /\ held[t] - 1 > 0 /\ count' \in Int
    BY <1>2, <1>3, <1>5, <2>1 DEF Granted, Locking
  <2>3. Types'
    BY <1>1, <2>1, <2>2 DEF IInv, Types
  <2>4. ThreadInv(t)'
    BY <1>1, <1>2, <2>1, <2>2 DEF ThreadInv, HolderInv
  <2>5. QED
    BY <1>1, <1>2, <2>1, <2>3, <2>4, StepFrame
<1>6. CASE /\ (call[t] = "unlock" /\ count <= 1) \/ call[t] = "clrlock"
           /\ count' = 0 /\ Goto(t, "drop")
  <2>1. Others(t) /\ pc' = [pc EXCEPT ![t] = "drop"] /\ pc'[t] = "drop" /\ call' = call /\ held' = held
    BY <1>6, GotoEffect
  <2>2. Types'
    BY <1>1, <1>6, <2>1 DEF IInv, Types
  <2>3. call[t] \in {"unlock", "clrlock"} /\ (call[t] = "unlock" => held[t] <= 1)
    BY <1>2, <1>6
  <2>4. ThreadInv(t)'
    BY <1>1, <1>2, <2>1, <2>3 DEF ThreadInv, HolderInv
  <2>5. QED
    BY <1>1, <1>2, <2>1, <2>2, <2>4, StepFrame
<1>7. QED
  BY <1>4, <1>5, <1>6 DEF Again

LEMMA GotCountInv == ASSUME Detecting, IInv, NEW t \in Threads, GotCount(t) PROVE IInv'
<1>1. /\ pc[t] = "got" /\ holder' = holder /\ depth' = depth /\ owner' = owner
      /\ count' = (IF Locking(t) THEN 1 ELSE 0) /\ Goto(t, "own")
  BY DEF GotCount
<1>2. holder = t /\ depth = 1 /\ held[t] = 0 /\ t # None
  BY <1>1, ThreadsAssumption DEF IInv, ThreadInv, HolderInv
<1>3. Others(t) /\ pc' = [pc EXCEPT ![t] = "own"] /\ pc'[t] = "own" /\ call' = call /\ held' = held
  BY <1>1, GotoEffect
<1>4. Types'
  BY <1>1, <1>3 DEF IInv, Types
<1>5. call[t] = "lock" => count' = 1
  BY <1>1 DEF Locking
<1>6. ThreadInv(t)'
  BY <1>1, <1>2, <1>3, <1>5 DEF ThreadInv, HolderInv
<1>7. QED
  BY <1>1, <1>2, <1>3, <1>4, <1>6, StepFrame

LEMMA SetOwnerInv == ASSUME Detecting, IInv, NEW t \in Threads, SetOwner(t) PROVE IInv'
<1>1. /\ pc[t] = "own" /\ holder' = holder /\ depth' = depth /\ count' = count /\ owner' = t
  BY DEF SetOwner
<1>2. holder = t /\ depth = 1 /\ held[t] = 0 /\ (call[t] = "lock" => count = 1) /\ t # None
  BY <1>1, ThreadsAssumption DEF IInv, ThreadInv, HolderInv
<1>3. call[t] \in {"lock", "unlock", "clrlock"}
  BY DEF IInv, Types
<1>4. CASE Locking(t)
  <2>1. Return(t, 0) /\ call[t] = "lock"
    BY <1>3, <1>4 DEF SetOwner, Locking
  <2>2. Others(t) /\ pc' = [pc EXCEPT ![t] = "idle"] /\ pc'[t] = "idle" /\ call' = call
        /\ held' \in [Threads -> Nat] /\ held'[t] = Granted(t)
    BY <2>1, ReturnEffect
  <2>3. held'[t] = 1 /\ count' = 1
    BY <1>1, <1>2, <1>4, <2>1, <2>2 DEF Granted
  <2>4. Types'
    BY <1>1, <2>2 DEF IInv, Types
  <2>5. ThreadInv(t)'
    BY <1>1, <1>2, <2>2, <2>3 DEF ThreadInv, HolderInv
  <2>6. QED
    BY <1>1, <1>2, <2>2, <2>4, <2>5, StepFrame
<1>5. CASE ~Locking(t)
  <2>1. Goto(t, "drop") /\ call[t] \in {"unlock", "clrlock"}
    BY <1>3, <1>5 DEF SetOwner, Locking
  <2>2. Others(t) /\ pc' = [pc EXCEPT ![t] = "drop"] /\ pc'[t] = "drop" /\ call' = call /\ held' = held
    BY <2>1, GotoEffect
  <2>3. Types'
    BY <1>1, <2>2 DEF IInv, Types
  <2>4. ThreadInv(t)'
    BY <1>1, <1>2, <2>1, <2>2 DEF ThreadInv, HolderInv
  <2>5. QED
    BY <1>1, <1>2, <2>2, <2>3, <2>4, StepFrame
<1>6. QED
  BY <1>4, <1>5

\* The last unlock of the pthread mutex leaves a thread that holds nothing.
LEMMA LeaveStep ==
  ASSUME Detecting, IInv, NEW t \in Threads, Leave(t)
  PROVE  /\ holder = t /\ pc[t] = "drop" /\ Return(t, 0) /\ Granted(t) = 0
         /\ holder' = None /\ depth' = 0 /\ count' = count /\ owner' = owner
<1>1. pc[t] = "drop" /\ Return(t, 0)
  BY DEF Leave, IInv, Types
<1>2. /\ holder = t /\ depth = 1 /\ call[t] \in {"unlock", "clrlock"} /\ (call[t] = "unlock" => held[t] <= 1)
      /\ held[t] \in Nat
  BY <1>1 DEF IInv, Types, ThreadInv, HolderInv
<1>3. Granted(t) = 0
  BY <1>2 DEF Granted, Locking
<1>4. holder' = None /\ depth' = depth - 1 /\ count' = count /\ owner' = owner
  BY <1>2 DEF Leave, Drop, Detecting
<1>5. QED
  BY <1>1, <1>2, <1>3, <1>4

LEMMA LeaveInv == ASSUME Detecting, IInv, NEW t \in Threads, Leave(t) PROVE IInv'
<1>1. /\ holder = t /\ Return(t, 0) /\ Granted(t) = 0
      /\ holder' = None /\ depth' = 0 /\ count' = count /\ owner' = owner
  BY LeaveStep
<1>2. Others(t) /\ pc' = [pc EXCEPT ![t] = "idle"] /\ pc'[t] = "idle" /\ call' = call
      /\ held' \in [Threads -> Nat] /\ held'[t] = 0
  BY <1>1, ReturnEffect
<1>3. Types'
  BY <1>1, <1>2 DEF IInv, Types
<1>4. ThreadInv(t)'
  BY <1>1, <1>2, ThreadsAssumption DEF ThreadInv
<1>5. QED
  BY <1>1, <1>2, <1>3, <1>4, StepFrame

\* The code of the other variants is not reached.
LEMMA OtherVariants ==
  ASSUME Detecting, IInv, NEW t \in Threads
  PROVE  ~(Wait(t) \/ GotRecursive(t) \/ DropOne(t) \/ ClearOne(t) \/ Uncount(t) \/ ClearDone(t))
BY DEF Detecting, IInv, Types, Wait, GotRecursive, DropOne, ClearOne, Uncount, ClearDone

----------------------------------------------------------------------------
(* The recursive build.                                                    *)

\* A step keeps the invariant if it keeps the types and the thread's part.
LEMMA RecFrame ==
  ASSUME RecInv, NEW t \in Threads, Others(t), RecTypes', RecThread(t)',
         holder' = None => depth' = 0 /\ count' = 0,
         \/ holder' = holder /\ depth' = depth /\ count' = count
         \/ holder \in {t, None} /\ holder' \in {t, None}
  PROVE  RecInv'
<1>1. ASSUME NEW u \in Threads \ {t} PROVE RecThread(u)'
  <2>1. u # t /\ u # None /\ RecThread(u) /\ pc'[u] = pc[u] /\ call'[u] = call[u] /\ held'[u] = held[u]
    BY ThreadsAssumption DEF RecInv, Others
  <2>2. CASE holder' = holder /\ depth' = depth /\ count' = count
    BY <2>1, <2>2 DEF RecThread, RecPlace
  <2>3. CASE holder \in {t, None} /\ holder' \in {t, None}
    BY <2>1, <2>3 DEF RecThread
  <2>4. QED
    BY <2>2, <2>3
<1>2. \A u \in Threads : RecThread(u)'
  BY <1>1
<1>3. QED
  BY <1>2 DEF RecInv

\* A thread in the middle of a call has the pthread mutex.
LEMMA RecHolds ==
  ASSUME RecInv, NEW t \in Threads, pc[t] \notin {"idle", "enter"}
  PROVE  holder = t /\ t # None /\ RecPlace(t)
BY ThreadsAssumption DEF RecInv, RecThread

\* One unlock by the thread that has it: free at the last.
LEMMA RecDrop ==
  ASSUME Recursive, NEW t \in Threads, holder = t, Drop(t)
  PROVE  depth' = depth - 1 /\ holder' = IF depth = 1 THEN None ELSE t
BY DEF Drop, Recursive

LEMMA RecCall == ASSUME Recursive, RecInv, NEW t \in Threads, Call(t) PROVE RecInv'
<1>1. PICK c \in Calls[variant] : call' = [call EXCEPT ![t] = c]
  BY DEF Call
<1>2. /\ pc[t] = "idle" /\ pc' = [pc EXCEPT ![t] = "enter"] /\ held' = held
      /\ holder' = holder /\ depth' = depth /\ count' = count
  BY DEF Call, mutex
<1>3. c \in {"lock", "trylock", "unlock", "clrlock"}
  BY CallsAssumption DEF Recursive
<1>4. Others(t) /\ RecTypes' /\ pc'[t] = "enter"
  BY <1>1, <1>2, <1>3 DEF RecInv, RecTypes, Others
<1>5. RecThread(t)'
  BY <1>2, <1>4 DEF RecInv, RecThread, RecPlace
<1>6. holder' = None => depth' = 0 /\ count' = 0
  BY <1>2 DEF RecInv
<1>7. QED
  BY <1>2, <1>4, <1>5, <1>6, RecFrame

LEMMA RecEnter == ASSUME Recursive, RecInv, NEW t \in Threads, Enter(t) PROVE RecInv'
<1>1. /\ holder \in {t, None} /\ holder' = t /\ depth' = depth + 1 /\ count' = count
      /\ pc[t] = "enter" /\ Goto(t, "got")
  BY DEF Enter, Take
<1>2. Others(t) /\ pc' = [pc EXCEPT ![t] = "got"] /\ pc'[t] = "got" /\ call' = call /\ held' = held
  BY <1>1, GotoEffect
<1>3. depth = held[t] /\ count = held[t]
  BY <1>1, ThreadsAssumption DEF RecInv, RecThread, RecPlace
<1>4. RecTypes'
  BY <1>1, <1>2 DEF RecInv, RecTypes
<1>5. depth' = held'[t] + 1 /\ count' = held'[t]
  BY <1>1, <1>2, <1>3
<1>6. RecThread(t)' /\ holder' # None
  BY <1>1, <1>2, <1>5, ThreadsAssumption DEF RecThread, RecPlace
<1>7. QED
  BY <1>1, <1>2, <1>4, <1>6, RecFrame

\* vtmtxtrylock finds that another thread has it.
LEMMA RecRefused == ASSUME Recursive, RecInv, NEW t \in Threads, Refused(t) PROVE RecInv'
<1>1. /\ pc[t] = "enter" /\ holder # t /\ Return(t, -1)
      /\ holder' = holder /\ depth' = depth /\ count' = count
  BY DEF Refused, Recursive, mutex
<1>2. Others(t) /\ pc' = [pc EXCEPT ![t] = "idle"] /\ pc'[t] = "idle" /\ call' = call /\ held' = held
  BY <1>1, ReturnEffect
<1>3. RecTypes' /\ RecThread(t)' /\ (holder' = None => depth' = 0 /\ count' = 0)
  BY <1>1, <1>2 DEF RecInv, RecTypes, RecThread
<1>4. QED
  BY <1>1, <1>2, <1>3, RecFrame

LEMMA RecGot == ASSUME Recursive, RecInv, NEW t \in Threads, GotRecursive(t) PROVE RecInv'
<1>1. pc[t] = "got" /\ holder' = holder /\ depth' = depth
  BY DEF GotRecursive
<1>2. holder = t /\ t # None /\ depth = held[t] + 1 /\ count = held[t]
  BY <1>1, RecHolds DEF RecPlace
<1>3. held[t] \in Nat /\ call[t] \in {"lock", "trylock", "unlock", "clrlock"}
  BY DEF RecInv, RecTypes
<1>4. CASE Locking(t) /\ count' = (IF count <= 0 THEN 1 ELSE count + 1) /\ Return(t, 0)
  <2>1. Others(t) /\ pc' = [pc EXCEPT ![t] = "idle"] /\ pc'[t] = "idle" /\ call' = call
        /\ held' \in [Threads -> Nat] /\ held'[t] = Granted(t)
    BY <1>4, ReturnEffect
  <2>2. Granted(t) = held[t] + 1
    BY <1>3, <1>4 DEF Granted, Locking
  <2>3. count' = held[t] + 1
    BY <1>2, <1>3, <1>4
  <2>4. held'[t] > 0 /\ depth' = held'[t] /\ count' = held'[t] /\ count' \in Int
    BY <1>1, <1>2, <1>3, <2>1, <2>2, <2>3
  <2>5. RecTypes'
    BY <1>1, <2>1, <2>4 DEF RecInv, RecTypes
  <2>6. RecThread(t)'
    BY <1>1, <1>2, <2>1, <2>4 DEF RecThread, RecPlace
  <2>7. QED
    BY <1>1, <1>2, <2>1, <2>5, <2>6, RecFrame
<1>5. CASE call[t] = "unlock" /\ count > 0 /\ count' = count - 1 /\ Goto(t, "drop2")
  <2>1. Others(t) /\ pc' = [pc EXCEPT ![t] = "drop2"] /\ pc'[t] = "drop2" /\ call' = call /\ held' = held
    BY <1>5, GotoEffect
  <2>2. held'[t] > 0 /\ depth' = held'[t] + 1 /\ count' = held'[t] - 1 /\ count' \in Int
    BY <1>1, <1>2, <1>3, <1>5, <2>1
  <2>3. RecTypes'
    BY <1>1, <2>1, <2>2 DEF RecInv, RecTypes
  <2>4. RecThread(t)'
    BY <1>1, <1>2, <1>5, <2>1, <2>2 DEF RecThread, RecPlace
  <2>5. QED
    BY <1>1, <1>2, <2>1, <2>3, <2>4, RecFrame
<1>6. CASE call[t] = "unlock" /\ count <= 0 /\ count' = count /\ Goto(t, "fail")
  <2>1. Others(t) /\ pc' = [pc EXCEPT ![t] = "fail"] /\ pc'[t] = "fail" /\ call' = call /\ held' = held
    BY <1>6, GotoEffect
  <2>2. held'[t] = 0 /\ depth' = 1 /\ count' = 0
    BY <1>1, <1>2, <1>3, <1>6, <2>1
  <2>3. RecTypes'
    BY <1>1, <2>1, <2>2 DEF RecInv, RecTypes
  <2>4. RecThread(t)'
    BY <1>1, <1>2, <2>1, <2>2 DEF RecThread, RecPlace
  <2>5. QED
    BY <1>1, <1>2, <2>1, <2>3, <2>4, RecFrame
<1>7. CASE call[t] = "clrlock" /\ count' = count /\ Goto(t, "clear")
  <2>1. Others(t) /\ pc' = [pc EXCEPT ![t] = "clear"] /\ pc'[t] = "clear" /\ call' = call /\ held' = held
    BY <1>7, GotoEffect
  <2>2. count' >= 0 /\ depth' = count' + 1
    BY <1>1, <1>2, <1>3, <1>7
  <2>3. RecTypes'
    BY <1>1, <1>7, <2>1 DEF RecInv, RecTypes
  <2>4. RecThread(t)'
    BY <1>1, <1>2, <1>7, <2>1, <2>2 DEF RecThread, RecPlace
  <2>5. QED
    BY <1>1, <1>2, <2>1, <2>3, <2>4, RecFrame
<1>8. QED
  BY <1>4, <1>5, <1>6, <1>7 DEF GotRecursive

LEMMA RecDropOne == ASSUME Recursive, RecInv, NEW t \in Threads, DropOne(t) PROVE RecInv'
<1>1. pc[t] = "drop2" /\ Drop(t) /\ Goto(t, "drop") /\ count' = count
  BY DEF DropOne
<1>2. holder = t /\ t # None /\ call[t] = "unlock" /\ held[t] > 0 /\ depth = held[t] + 1 /\ count = held[t] - 1
  BY <1>1, RecHolds DEF RecPlace
<1>3. held[t] \in Nat
  BY DEF RecInv, RecTypes
<1>4. depth' = held[t] /\ holder' = t
  BY <1>1, <1>2, <1>3, RecDrop
<1>5. Others(t) /\ pc' = [pc EXCEPT ![t] = "drop"] /\ pc'[t] = "drop" /\ call' = call /\ held' = held
  BY <1>1, GotoEffect
<1>6. RecTypes'
  BY <1>1, <1>3, <1>4, <1>5 DEF RecInv, RecTypes
<1>7. RecThread(t)'
  BY <1>1, <1>2, <1>4, <1>5 DEF RecThread, RecPlace
<1>8. QED
  BY <1>2, <1>4, <1>5, <1>6, <1>7, RecFrame

\* vtmtxclrlock has one more to unlock than the count it still shows.
LEMMA RecClearOne == ASSUME Recursive, RecInv, NEW t \in Threads, ClearOne(t) PROVE RecInv'
<1>1. pc[t] = "clear" /\ count > 0 /\ Drop(t) /\ Goto(t, "uncount") /\ count' = count
  BY DEF ClearOne
<1>2. holder = t /\ t # None /\ call[t] = "clrlock" /\ depth = count + 1
  BY <1>1, RecHolds DEF RecPlace
<1>3. count \in Int
  BY DEF RecInv, RecTypes
<1>4. depth' = count /\ holder' = t
  BY <1>1, <1>2, <1>3, RecDrop
<1>5. Others(t) /\ pc' = [pc EXCEPT ![t] = "uncount"] /\ pc'[t] = "uncount" /\ call' = call /\ held' = held
  BY <1>1, GotoEffect
<1>6. RecTypes'
  BY <1>1, <1>3, <1>4, <1>5 DEF RecInv, RecTypes
<1>7. RecThread(t)'
  BY <1>1, <1>2, <1>4, <1>5 DEF RecThread, RecPlace
<1>8. QED
  BY <1>2, <1>4, <1>5, <1>6, <1>7, RecFrame

LEMMA RecUncount == ASSUME Recursive, RecInv, NEW t \in Threads, Uncount(t) PROVE RecInv'
<1>1. pc[t] = "uncount" /\ count' = count - 1 /\ Goto(t, "clear") /\ holder' = holder /\ depth' = depth
  BY DEF Uncount
<1>2. holder = t /\ t # None /\ call[t] = "clrlock" /\ count > 0 /\ depth = count
  BY <1>1, RecHolds DEF RecPlace
<1>3. count \in Int
  BY DEF RecInv, RecTypes
<1>4. count' \in Int /\ count' >= 0 /\ depth' = count' + 1
  BY <1>1, <1>2, <1>3
<1>5. Others(t) /\ pc' = [pc EXCEPT ![t] = "clear"] /\ pc'[t] = "clear" /\ call' = call /\ held' = held
  BY <1>1, GotoEffect
<1>6. RecTypes'
  BY <1>1, <1>4, <1>5 DEF RecInv, RecTypes
<1>7. RecThread(t)'
  BY <1>1, <1>2, <1>4, <1>5 DEF RecThread, RecPlace
<1>8. QED
  BY <1>1, <1>2, <1>5, <1>6, <1>7, RecFrame

LEMMA RecClearDone == ASSUME Recursive, RecInv, NEW t \in Threads, ClearDone(t) PROVE RecInv'
<1>1. /\ pc[t] = "clear" /\ count <= 0 /\ count' = 0 /\ Goto(t, "drop")
      /\ holder' = holder /\ depth' = depth
  BY DEF ClearDone
<1>2. holder = t /\ t # None /\ call[t] = "clrlock" /\ count >= 0 /\ depth = count + 1
  BY <1>1, RecHolds DEF RecPlace
<1>3. count \in Int
  BY DEF RecInv, RecTypes
<1>4. depth' = 1
  BY <1>1, <1>2, <1>3
<1>5. Others(t) /\ pc' = [pc EXCEPT ![t] = "drop"] /\ pc'[t] = "drop" /\ call' = call /\ held' = held
  BY <1>1, GotoEffect
<1>6. RecTypes'
  BY <1>1, <1>5 DEF RecInv, RecTypes
<1>7. RecThread(t)'
  BY <1>1, <1>2, <1>4, <1>5 DEF RecThread, RecPlace
<1>8. QED
  BY <1>1, <1>2, <1>5, <1>6, <1>7, RecFrame

\* The last unlock of a call, and what the call leaves its thread with.
LEMMA RecLeaveStep ==
  ASSUME Recursive, RecInv, NEW t \in Threads, Leave(t)
  PROVE  /\ holder = t /\ depth' = depth - 1 /\ count' = count /\ held[t] \in Nat
         /\ holder' = IF depth = 1 THEN None ELSE t
         /\ \/ Return(t, 0) /\ Granted(t) = depth - 1 /\ count = depth - 1 /\ depth >= 1
            \/ Return(t, -1) /\ held[t] = 0 /\ depth = 1 /\ count = 0
<1>1. pc[t] \in {"drop", "fail"} /\ Drop(t) /\ count' = count
  BY DEF Leave
<1>2. holder = t /\ RecPlace(t)
  BY <1>1, RecHolds
<1>3. depth' = depth - 1 /\ holder' = IF depth = 1 THEN None ELSE t
  BY <1>1, <1>2, RecDrop
<1>4. held[t] \in Nat
  BY DEF RecInv, RecTypes
<1>5. CASE pc[t] = "fail"
  BY <1>1, <1>2, <1>3, <1>4, <1>5 DEF Leave, RecPlace
<1>6. CASE pc[t] = "drop"
  <2>1. Return(t, 0)
    BY <1>6 DEF Leave
  <2>2. \/ call[t] = "unlock" /\ held[t] > 0 /\ depth = held[t] /\ count = held[t] - 1
        \/ call[t] = "clrlock" /\ depth = 1 /\ count = 0
    BY <1>2, <1>6 DEF RecPlace
  <2>3. Granted(t) = depth - 1 /\ count = depth - 1 /\ depth >= 1
    BY <1>4, <2>2 DEF Granted, Locking
  <2>4. QED
    BY <1>1, <1>2, <1>3, <1>4, <2>1, <2>3
<1>7. QED
  BY <1>1, <1>5, <1>6

LEMMA RecLeave == ASSUME Recursive, RecInv, NEW t \in Threads, Leave(t) PROVE RecInv'
<1>1. /\ holder = t /\ depth' = depth - 1 /\ count' = count /\ held[t] \in Nat
      /\ holder' = IF depth = 1 THEN None ELSE t
      /\ \/ Return(t, 0) /\ Granted(t) = depth - 1 /\ count = depth - 1 /\ depth >= 1
         \/ Return(t, -1) /\ held[t] = 0 /\ depth = 1 /\ count = 0
  BY RecLeaveStep
<1>2. depth \in Int /\ count \in Int /\ t # None
  BY ThreadsAssumption DEF RecInv, RecTypes
<1>3. /\ Others(t) /\ pc' = [pc EXCEPT ![t] = "idle"] /\ pc'[t] = "idle" /\ call' = call
      /\ held' \in [Threads -> Nat] /\ held'[t] = depth - 1 /\ count = depth - 1 /\ depth >= 1
  <2>1. CASE Return(t, 0) /\ Granted(t) = depth - 1 /\ count = depth - 1 /\ depth >= 1
    BY <2>1, ReturnEffect
  <2>2. CASE Return(t, -1) /\ held[t] = 0 /\ depth = 1 /\ count = 0
    <3>1. /\ Others(t) /\ pc' = [pc EXCEPT ![t] = "idle"] /\ pc'[t] = "idle" /\ call' = call
          /\ held' \in [Threads -> Nat] /\ held' = held
      BY <2>2, ReturnEffect
    <3>2. QED
      BY <2>2, <3>1
  <2>3. QED
    BY <1>1, <2>1, <2>2
<1>4. RecTypes'
  BY <1>1, <1>2, <1>3 DEF RecInv, RecTypes
<1>5. CASE depth = 1
  <2>1. holder' = None /\ depth' = 0 /\ count' = 0 /\ held'[t] = 0
    BY <1>1, <1>2, <1>3, <1>5
  <2>2. RecThread(t)'
    BY <1>2, <1>3, <2>1 DEF RecThread
  <2>3. QED
    BY <1>1, <1>3, <1>4, <2>1, <2>2, RecFrame
<1>6. CASE depth # 1
  <2>1. holder' = t /\ held'[t] > 0 /\ depth' = held'[t] /\ count' = held'[t]
    BY <1>1, <1>2, <1>3, <1>6
  <2>2. RecThread(t)'
    BY <1>3, <2>1 DEF RecThread, RecPlace
  <2>3. QED
    BY <1>1, <1>2, <1>3, <1>4, <2>1, <2>2, RecFrame
<1>7. QED
  BY <1>5, <1>6

\* The code of the other builds is not reached.
LEMMA RecOthers ==
  ASSUME Recursive, RecInv, NEW t \in Threads
  PROVE  ~(Check(t) \/ Wait(t) \/ Again(t) \/ GotCount(t) \/ SetOwner(t))
BY DEF Recursive, RecInv, RecTypes, Check, Wait, Again, GotCount, SetOwner

----------------------------------------------------------------------------
(* The theorems.                                                           *)

\* The application makes no trylock in the errorcheck build.
Blocking == "errorcheck" \in Variants => "trylock" \notin Calls["errorcheck"]

\* What each build keeps.  Nothing is claimed of the generic one.
BuildInv ==
  /\ variant \in Variants
  /\ variant = "errorcheck" => IInv
  /\ variant = "recursive" => RecInv

LEMMA InitInv == ASSUME Init PROVE BuildInv
<1>1. IInv
  BY ThreadsAssumption DEF Init, IInv, Types, ThreadInv
<1>2. RecInv
  BY ThreadsAssumption DEF Init, RecInv, RecTypes, RecThread
<1>3. QED
  BY <1>1, <1>2 DEF Init, BuildInv

LEMMA StepInv == ASSUME Detecting, IInv, NEW t \in Threads, Call(t) \/ Step(t) PROVE IInv'
BY CallInv, EnterInv, RefusedInv, CheckInv, AgainInv, GotCountInv, SetOwnerInv, LeaveInv, OtherVariants
   DEF Step

LEMMA RecStepInv == ASSUME Recursive, RecInv, NEW t \in Threads, Call(t) \/ Step(t) PROVE RecInv'
BY RecCall, RecEnter, RecRefused, RecGot, RecDropOne, RecClearOne, RecUncount, RecClearDone, RecLeave, RecOthers
   DEF Step

LEMMA StutterInv ==
  ASSUME UNCHANGED vars PROVE (IInv => IInv') /\ (RecInv => RecInv')
<1>1. UNCHANGED <<holder, depth, count, owner, pc, call, held>>
  BY DEF vars, mutex, client
<1>2. ASSUME IInv PROVE IInv'
  <2>1. Types' /\ (holder' = None => depth' = 0)
    BY <1>1, <1>2 DEF IInv, Types
  <2>2. ASSUME NEW t \in Threads PROVE ThreadInv(t)'
    BY <1>1, <1>2 DEF IInv, ThreadInv, HolderInv
  <2>3. QED
    BY <2>1, <2>2 DEF IInv
<1>3. ASSUME RecInv PROVE RecInv'
  <2>1. RecTypes' /\ (holder' = None => depth' = 0 /\ count' = 0)
    BY <1>1, <1>3 DEF RecInv, RecTypes
  <2>2. ASSUME NEW t \in Threads PROVE RecThread(t)'
    BY <1>1, <1>3 DEF RecInv, RecThread, RecPlace
  <2>3. QED
    BY <2>1, <2>2 DEF RecInv
<1>4. QED
  BY <1>2, <1>3

\* No step changes the build.
LEMMA SameBuild == ASSUME [Next]_vars PROVE variant' = variant
<1>1. ASSUME NEW t \in Threads, Call(t) \/ Step(t) PROVE variant' = variant
  <2>1. ASSUME NEW l, Goto(t, l) PROVE variant' = variant
    BY <2>1 DEF Goto
  <2>2. ASSUME NEW r, Return(t, r) PROVE variant' = variant
    BY <2>2 DEF Return
  <2>3. CASE Call(t)
    BY <2>3 DEF Call
  <2>4. CASE Enter(t) \/ Refused(t) \/ Check(t) \/ Wait(t) \/ Again(t)
    BY <2>1, <2>2, <2>4 DEF Enter, Refused, Check, Wait, Again
  <2>5. CASE GotCount(t) \/ SetOwner(t) \/ GotRecursive(t) \/ DropOne(t)
    BY <2>1, <2>2, <2>5 DEF GotCount, SetOwner, GotRecursive, DropOne
  <2>6. CASE ClearOne(t) \/ Uncount(t) \/ ClearDone(t) \/ Leave(t)
    BY <2>1, <2>2, <2>6 DEF ClearOne, Uncount, ClearDone, Leave
  <2>7. QED
    BY <1>1, <2>3, <2>4, <2>5, <2>6 DEF Step
<1>2. QED
  BY <1>1 DEF Next, vars

LEMMA NextInv == ASSUME Blocking, BuildInv, [Next]_vars PROVE BuildInv'
<1>1. variant' = variant
  BY SameBuild
<1>2. ASSUME variant = "errorcheck" PROVE IInv'
  <2>1. Detecting /\ IInv
    BY <1>2 DEF Detecting, Blocking, BuildInv
  <2>2. QED
    BY <2>1, StepInv, StutterInv DEF Next
<1>3. ASSUME variant = "recursive" PROVE RecInv'
  <2>1. Recursive /\ RecInv
    BY <1>3 DEF Recursive, BuildInv
  <2>2. QED
    BY <2>1, RecStepInv, StutterInv DEF Next
<1>4. QED
  BY <1>1, <1>2, <1>3 DEF BuildInv

THEOREM Inductive == ASSUME Blocking PROVE Spec => []BuildInv
<1>1. Init => BuildInv
  BY InitInv
<1>2. BuildInv /\ [Next]_vars => BuildInv'
  BY NextInv
<1>3. QED
  BY <1>1, <1>2, PTL DEF Spec

\* Two threads are never both granted the lock.
THEOREM Exclusion == ASSUME Blocking PROVE Spec => []MutualExclusion
<1>1. BuildInv => MutualExclusion
  BY VariantsAssumption DEF BuildInv, IInv, ThreadInv, RecInv, RecThread, MutualExclusion
<1>2. QED
  BY <1>1, Inductive, PTL

\* The count is the number of unlocks the owner owes, and in the recursive
\* build the pthread mutex itself agrees with it.
THEOREM Counting == ASSUME Blocking PROVE Spec => []CountIsDepth
<1>1. ASSUME IInv, variant = "errorcheck" PROVE CountIsDepth
  BY <1>1 DEF IInv, ThreadInv, HolderInv, CountIsDepth
<1>2. ASSUME RecInv, variant = "recursive" PROVE CountIsDepth
  <2>1. ASSUME NEW t \in Threads, held[t] > 0, pc[t] = "idle"
        PROVE  holder = t /\ count = held[t] /\ depth = held[t]
    BY <1>2, <2>1 DEF RecInv, RecThread, RecPlace
  <2>2. QED
    BY <1>2, <2>1 DEF CountIsDepth
<1>3. variant = "generic" => CountIsDepth
  BY DEF CountIsDepth
<1>4. BuildInv => CountIsDepth
  BY <1>1, <1>2, <1>3, VariantsAssumption DEF BuildInv
<1>5. QED
  BY <1>4, Inductive, PTL

----------------------------------------------------------------------------
(* The refinement: every step grants, gives back or leaves the locks alone.*)

\* In these builds what is promised is what is held.
LEMMA PromisedIsHeld ==
  ASSUME variant # "generic", held \in [Threads -> Nat]
  PROVE  Promised = held
BY DEF Promised

\* Only the thread that has the pthread mutex returns 0 from a call.
LEMMA ReturnRefines ==
  ASSUME IInv \/ RecInv, Promised = held, Promised' = held',
         NEW t \in Threads, holder = t, Return(t, 0)
  PROVE  Lock!Next
<1>1. held' = [held EXCEPT ![t] = Granted(t)]
  BY ReturnEffect
<1>2. call[t] \in {"lock", "trylock", "unlock", "clrlock"} /\ held \in [Threads -> Nat]
  BY DEF IInv, Types, RecInv, RecTypes
<1>3. CASE Locking(t)
  <2>1. held' = [held EXCEPT ![t] = held[t] + 1]
    BY <1>1, <1>3 DEF Granted, Locking
  <2>2. \A u \in Threads \ {t} : held[u] = 0
    BY DEF IInv, ThreadInv, RecInv, RecThread
  <2>3. Lock!Grant(t)
    BY <2>1, <2>2 DEF Lock!Grant
  <2>4. QED
    BY <2>3 DEF Lock!Next
<1>4. CASE call[t] = "unlock" /\ held[t] > 0
  <2>1. held' = [held EXCEPT ![t] = held[t] - 1]
    BY <1>1, <1>4 DEF Granted, Locking
  <2>2. Lock!GiveBack(t)
    BY <1>4, <2>1 DEF Lock!GiveBack
  <2>3. QED
    BY <2>2 DEF Lock!Next
<1>5. CASE call[t] = "clrlock" \/ (call[t] = "unlock" /\ ~(held[t] > 0))
  <2>1. Granted(t) = 0
    BY <1>5 DEF Granted, Locking
  <2>2. Lock!GiveAllBack(t)
    BY <1>1, <2>1 DEF Lock!GiveAllBack
  <2>3. QED
    BY <2>2 DEF Lock!Next
<1>6. QED
  BY <1>2, <1>3, <1>4, <1>5 DEF Locking

LEMMA StepRefines ==
  ASSUME Detecting, IInv, Promised = held, Promised' = held', NEW t \in Threads, Call(t) \/ Step(t)
  PROVE  Lock!Next \/ held' = held
<1>1. CASE Call(t) \/ Enter(t) \/ GotCount(t)
  BY <1>1 DEF Call, Enter, GotCount, Goto, client
<1>2. CASE Refused(t)
  BY <1>2 DEF Refused, Goto, client, Detecting
<1>3. CASE Check(t)
  BY <1>3, CheckStep DEF Goto, client
<1>4. CASE Again(t)
  <2>1. holder = t
    BY <1>4 DEF Again, IInv, ThreadInv
  <2>2. Return(t, 0) \/ held' = held
    BY <1>4 DEF Again, Goto, client
  <2>3. QED
    BY <2>1, <2>2, ReturnRefines
<1>5. CASE SetOwner(t)
  <2>1. holder = t
    BY <1>5 DEF SetOwner, IInv, ThreadInv
  <2>2. Return(t, 0) \/ held' = held
    BY <1>5 DEF SetOwner, Goto, client
  <2>3. QED
    BY <2>1, <2>2, ReturnRefines
<1>6. CASE Leave(t)
  BY <1>6, LeaveStep, ReturnRefines
<1>7. QED
  BY <1>1, <1>2, <1>3, <1>4, <1>5, <1>6, OtherVariants DEF Step

LEMMA RecStepRefines ==
  ASSUME Recursive, RecInv, Promised = held, Promised' = held', NEW t \in Threads, Call(t) \/ Step(t)
  PROVE  Lock!Next \/ held' = held
<1>1. CASE Call(t) \/ Enter(t) \/ DropOne(t) \/ ClearOne(t) \/ Uncount(t) \/ ClearDone(t)
  BY <1>1 DEF Call, Enter, DropOne, ClearOne, Uncount, ClearDone, Goto, client
<1>2. CASE Refused(t)
  <2>1. Return(t, -1)
    BY <1>2 DEF Refused, Recursive
  <2>2. QED
    BY <2>1, ReturnEffect
<1>3. CASE GotRecursive(t)
  <2>1. holder = t
    BY <1>3, RecHolds DEF GotRecursive
  <2>2. Return(t, 0) \/ held' = held
    BY <1>3 DEF GotRecursive, Goto, client
  <2>3. QED
    BY <2>1, <2>2, ReturnRefines
<1>4. CASE Leave(t)
  <2>1. holder = t /\ (Return(t, 0) \/ Return(t, -1))
    BY <1>4, RecLeaveStep
  <2>2. Return(t, -1) => held' = held
    BY ReturnEffect
  <2>3. QED
    BY <2>1, <2>2, ReturnRefines
<1>5. QED
  BY <1>1, <1>2, <1>3, <1>4, RecOthers DEF Step

\* The mutex implements the recursive lock the manual describes.
THEOREM Refinement == ASSUME Blocking PROVE Spec => ImplementsLock
<1>1. Init => Lock!Init
  BY DEF Init, Lock!Init, Promised
<1>2. BuildInv /\ BuildInv' /\ [Next]_vars => [Lock!Next]_Promised
  <2>1. SUFFICES ASSUME BuildInv, BuildInv', [Next]_vars
                 PROVE  Lock!Next \/ Promised' = Promised
    OBVIOUS
  <2>2. variant' = variant
    BY <2>1, SameBuild
  <2>3. CASE variant = "generic"
    BY <2>2, <2>3 DEF Promised
  <2>4. ASSUME variant # "generic", held \in [Threads -> Nat], held' \in [Threads -> Nat]
        PROVE  Promised = held /\ Promised' = held'
    BY <2>2, <2>4, PromisedIsHeld DEF Promised
  <2>5. CASE variant = "errorcheck"
    <3>1. Detecting /\ IInv /\ IInv'
      BY <2>1, <2>2, <2>5 DEF BuildInv, Detecting, Blocking
    <3>2. Promised = held /\ Promised' = held'
      BY <2>4, <2>5, <3>1 DEF IInv, Types
    <3>3. QED
      BY <2>1, <3>1, <3>2, StepRefines DEF Next, vars, client
  <2>6. CASE variant = "recursive"
    <3>1. Recursive /\ RecInv /\ RecInv'
      BY <2>1, <2>2, <2>6 DEF BuildInv, Recursive
    <3>2. Promised = held /\ Promised' = held'
      BY <2>4, <2>6, <3>1 DEF RecInv, RecTypes
    <3>3. QED
      BY <2>1, <3>1, <3>2, RecStepRefines DEF Next, vars, client
  <2>7. QED
    BY <2>1, <2>3, <2>5, <2>6, VariantsAssumption DEF BuildInv
<1>3. QED
  BY <1>1, <1>2, Inductive, PTL DEF Spec, Lock!Spec, ImplementsLock

=============================================================================
