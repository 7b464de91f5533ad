------------------------------ MODULE VtThread ------------------------------
(***************************************************************************)
(* The threads of Vthread: handles in a list that a library mutex          *)
(* protects (vtopen, vtclose), the pthreads started on them (vtrun,        *)
(* vtwait, vtkill), finding oneself (vtself), and the library's own        *)
(* initialisation (VTONCE, _vtonce) and vtonce.  pthread_create, _join,    *)
(* _cancel and _once are external.  A step is one operation of the mutex   *)
(* or of pthreads, or the accesses to the list or to one handle between    *)
(* two of them.                                                            *)
(***************************************************************************)
EXTENDS Integers, Sequences, FiniteSets

CONSTANTS Callers,     \* threads that exist from the start
          Main,        \* the caller that makes the process's first call
          Pool,        \* the ids of the threads that vtrun starts
          Heap,        \* handles malloc can give
          Static,      \* handles in memory of the application
          None,        \* NULL, and no thread
          Incr,        \* slots the list grows by (8 in the code)
          MaxSlots,    \* bound: slots the list has room for before malloc fails
          Calls,       \* per thread: the calls it makes
          Habits       \* what the application or the system may do besides

Tids == Callers \cup Pool
Handles == Heap \cup Static

ASSUME IdsAssumption ==
  Main \in Callers /\ Callers \cap Pool = {} /\ Heap \cap Static = {} /\ None \notin Tids \cup Handles
ASSUME CallsAssumption ==
  Calls \in [Tids -> SUBSET {"open", "run", "wait", "kill", "close", "self", "once"}]
ASSUME HabitsAssumption ==  \* first calls race; ids of joined threads come again; malloc, pthread_create fail
  Habits \subseteq {"race", "reuse", "nomem", "nothread"}
ASSUME SlotsAssumption == Incr \in Nat \ {0} /\ MaxSlots \in Nat

VARIABLES os, job,               \* pthreads: state of each id, the handle it runs for
          lib, inited, mtx,      \* _Vtonce.once, _Vtinit, the holder of _Vtmutex
          list,                  \* _Vtlist: NULL or a handle per slot
          running, waited,       \* per handle: VT_RUNNING, VT_WAITED
          self, id,              \* per handle: vt->self, vt->id
          user,                  \* per handle: the thread that has it open, or None
          ctl, done, ran,        \* an application's Vtonce_t: once, done; runs of func
          pc, call, arg, slot    \* per thread: where it is; its call, handle, slot

pthreads == <<os, job>>
library  == <<lib, inited, mtx, list>>
handle   == <<running, waited, self, id, user>>
control  == <<ctl, done, ran>>
vars == <<pthreads, library, handle, control, pc, call, arg, slot>>

----------------------------------------------------------------------------
(* The application.  It uses a handle only between its vtopen and its      *)
(* vtclose, from the thread that opened it, and runs it when it is not     *)
(* running.                                                                *)

Goto(t, l) == pc' = [pc EXCEPT ![t] = l] /\ UNCHANGED <<call, arg, slot>>

\* The call is over; the result tells the application nothing but what
\* user, running and job say.
Return(t) ==
  /\ pc' = [pc EXCEPT ![t] = "idle"] /\ call' = [call EXCEPT ![t] = "none"]
  /\ arg' = [arg EXCEPT ![t] = None] /\ slot' = [slot EXCEPT ![t] = 1]

\* First steps of a call: vtopen makes sure of the library, vtclose locks.
Start == [open |-> "enter", run |-> "create", wait |-> "check", kill |-> "check", close |-> "lock",
          self |-> "self", once |-> "once"]

Mine(t) == {h \in Handles : user[h] = t}

\* What a thread may pass to a call.
Arguments(t, c) ==
  CASE c = "open"  -> {None} \cup Mine(t) \cup {h \in Static : user[h] = None}
    [] c = "run"   -> {h \in Mine(t) : ~running[h]}
    [] c \in {"wait", "kill", "close"} -> Mine(t)
    [] c \in {"self", "once"} -> {None}

Call(t) ==
  /\ pc[t] = "idle" /\ os[t] = "run"
  /\ t \in Callers \ {Main} => lib = "done" \/ "race" \in Habits
  /\ \E c \in Calls[t] : \E h \in Arguments(t, c) :
       /\ call' = [call EXCEPT ![t] = c] /\ arg' = [arg EXCEPT ![t] = h]
       /\ pc' = [pc EXCEPT ![t] = Start[c]]
       /\ user' = IF c = "open" /\ h # None THEN [user EXCEPT ![h] = t] ELSE user
  /\ UNCHANGED <<pthreads, library, running, waited, self, id, control, slot>>

\* A started thread returns from its function, or acts on a cancellation:
\* when it runs its own code, or waits in pthread_join.
End(t) ==
  /\ (os[t] = "run" /\ pc[t] = "idle") \/ (os[t] = "dying" /\ pc[t] \in {"idle", "join"})
  /\ os' = [os EXCEPT ![t] = "ended"]
  /\ UNCHANGED <<job, library, handle, control, pc, call, arg, slot>>

----------------------------------------------------------------------------
(* VTONCE and _vtonce.                                                     *)

Keep == UNCHANGED <<pthreads, handle, control>>

\* VTONCE: a thread that sees _Vtinit goes on; pthread_once lets one thread
\* run _vtonce, and the others wait until it has.
Enter(t) ==
  /\ pc[t] = "enter"
  /\ \/ (inited \/ lib = "done") /\ UNCHANGED lib /\ Goto(t, "lock")
     \/ ~inited /\ lib = "never" /\ lib' = "running" /\ Goto(t, "init")
  /\ UNCHANGED <<inited, mtx, list>> /\ Keep

SetInit(t) ==
  /\ pc[t] = "init" /\ inited' = TRUE /\ Goto(t, "initmtx")
  /\ UNCHANGED <<lib, mtx, list>> /\ Keep

\* vtmtxopen(_Vtmutex, VT_INIT): whoever has locked it meanwhile is forgotten.
InitMutex(t) ==
  /\ pc[t] = "initmtx" /\ mtx' = None /\ lib' = "done" /\ Goto(t, "lock")
  /\ UNCHANGED <<inited, list>> /\ Keep

----------------------------------------------------------------------------
(* vtopen and vtclose.                                                     *)

Free(t) == mtx' = IF mtx = t THEN None ELSE mtx

Lock(t) ==
  /\ pc[t] \in {"lock", "relock"} /\ mtx = None /\ mtx' = t
  /\ Goto(t, IF pc[t] = "relock" THEN "place" ELSE IF call[t] = "open" THEN "find" ELSE "look")
  /\ UNCHANGED <<lib, inited, list>> /\ Keep

\* The slots that hold v; a handle is looked for from the first one on.
Slots(v) == {s \in DOMAIN list : list[s] = v}
First(v) == CHOOSE s \in Slots(v) : \A r \in Slots(v) : s <= r

GotoSlot(t, s, l) ==
  /\ slot' = [slot EXCEPT ![t] = s] /\ pc' = [pc EXCEPT ![t] = l] /\ UNCHANGED <<call, arg>>

\* A running handle is waited for without the mutex; its slot is remembered.
FindRunning(t) ==
  /\ pc[t] = "find" /\ arg[t] # None /\ Slots(arg[t]) # {} /\ running[arg[t]]
  /\ GotoSlot(t, First(arg[t]), "check") /\ Free(t)
  /\ UNCHANGED <<lib, inited, list>> /\ Keep

FindIdle(t) ==
  /\ pc[t] = "find" /\ arg[t] # None /\ Slots(arg[t]) # {} /\ ~running[arg[t]]
  /\ GotoSlot(t, First(arg[t]), "place")
  /\ UNCHANGED library /\ Keep

FindEmpty(t) ==
  /\ pc[t] = "find" /\ (arg[t] = None \/ Slots(arg[t]) = {}) /\ Slots(None) # {}
  /\ GotoSlot(t, First(None), "place")
  /\ UNCHANGED library /\ Keep

\* No slot is free: the list is copied into a longer one.
FindGrow(t) ==
  /\ pc[t] = "find" /\ (arg[t] = None \/ Slots(arg[t]) = {}) /\ Slots(None) = {}
  /\ \/ /\ Len(list) + Incr <= MaxSlots
        /\ list' = list \o [i \in 1 .. Incr |-> None]
        /\ GotoSlot(t, Len(list) + 1, "place") /\ UNCHANGED user
     \/ /\ Len(list) + Incr > MaxSlots \/ "nomem" \in Habits
        /\ UNCHANGED list /\ Goto(t, "fail")
        /\ user' = IF arg[t] # None THEN [user EXCEPT ![arg[t]] = None] ELSE user
  /\ UNCHANGED <<lib, inited, mtx, pthreads, running, waited, self, id, control>>

\* The handle is initialised (a new one, or VT_INIT) and listed.
Place(t) ==
  /\ pc[t] = "place"
  /\ \E v \in IF arg[t] # None THEN {arg[t]} ELSE {h \in Heap : user[h] = None} :
       /\ list' = [list EXCEPT ![slot[t]] = v]
       /\ user' = [user EXCEPT ![v] = t]
       /\ \/ waited' = [waited EXCEPT ![v] = FALSE] /\ running' = [running EXCEPT ![v] = FALSE]
          \/ arg[t] # None /\ v \in {list[s] : s \in DOMAIN list} /\ UNCHANGED <<waited, running>>
       /\ arg' = [arg EXCEPT ![t] = v]
  /\ pc' = [pc EXCEPT ![t] = "unlock"] /\ UNCHANGED <<call, slot>>
  /\ UNCHANGED <<pthreads, lib, inited, mtx, self, id, control>>

\* No memory for a new handle, or for the attributes of one given with VT_INIT,
\* which is not waited for any more and stays where it is listed.
PlaceFails(t) ==
  /\ pc[t] = "place" /\ Goto(t, "fail") /\ UNCHANGED <<pthreads, library, self, id, control>>
  /\ LET v == arg[t]
     IN  \/ v = None /\ ("nomem" \in Habits \/ \A h \in Heap : user[h] # None)
            /\ UNCHANGED <<running, waited, user>>
         \/ v # None /\ "nomem" \in Habits
            /\ running' = [running EXCEPT ![v] = FALSE] /\ waited' = [waited EXCEPT ![v] = FALSE]
            /\ user' = IF list[slot[t]] = v THEN user ELSE [user EXCEPT ![v] = None]

Unlock(t) ==
  /\ Free(t)
  /\ pc[t] \in {"unlock", "fail"} /\ Return(t)
  /\ UNCHANGED <<lib, inited, list>> /\ Keep

\* Mutant of Look: vtclose polls VT_RUNNING, which only a vtwait clears.
LookPolls(t) ==
  /\ pc[t] = "look"
  /\ IF Slots(arg[t]) = {} THEN Goto(t, "fail")
     ELSE GotoSlot(t, First(arg[t]), IF running[arg[t]] THEN "look" ELSE "clear")
  /\ UNCHANGED library /\ Keep

\* vtclose looks for the handle, waits for it with the mutex locked, unlists
\* and frees it.
Look(t) ==
  /\ pc[t] = "look"
  /\ IF Slots(arg[t]) = {} THEN Goto(t, "fail")
     ELSE GotoSlot(t, First(arg[t]), IF running[arg[t]] THEN "check" ELSE "clear")
  /\ UNCHANGED library /\ Keep

\* Mutant of Clear: the slot keeps the handle that is closed.
ClearNot(t) ==
  /\ pc[t] = "clear" /\ user' = [user EXCEPT ![arg[t]] = None] /\ Goto(t, "unlock")
  /\ UNCHANGED <<pthreads, library, running, waited, self, id, control>>

Clear(t) ==
  /\ pc[t] = "clear"
  /\ list' = [list EXCEPT ![slot[t]] = None]
  /\ user' = [user EXCEPT ![arg[t]] = None]
  /\ Goto(t, "unlock")
  /\ UNCHANGED <<pthreads, lib, inited, mtx, running, waited, self, id, control>>

----------------------------------------------------------------------------
(* vtrun, vtwait and vtkill.                                               *)

\* pthread_create: the thread runs before vt->id and VT_RUNNING say so.
Create(t) ==
  /\ pc[t] = "create"
  /\ \E u \in Pool :
       /\ os[u] = "none" \/ (os[u] = "joined" /\ "reuse" \in Habits)
       /\ os' = [os EXCEPT ![u] = "run"] /\ job' = [job EXCEPT ![u] = arg[t]]
       /\ self' = [self EXCEPT ![arg[t]] = u]
  /\ Goto(t, "setid")
  /\ UNCHANGED <<library, running, waited, id, user, control>>

\* The id is set all the same, to what pthread_create has left in vt->self.
CreateFails(t) ==
  /\ pc[t] = "create"
  /\ "nothread" \in Habits \/ \A u \in Pool : os[u] # "none" /\ ~(os[u] = "joined" /\ "reuse" \in Habits)
  /\ \E u \in {self[arg[t]], None} : self' = [self EXCEPT ![arg[t]] = u] /\ id' = [id EXCEPT ![arg[t]] = u]
  /\ Return(t)
  /\ UNCHANGED <<pthreads, library, running, waited, user, control>>

SetId(t) ==
  /\ pc[t] = "setid" /\ id' = [id EXCEPT ![arg[t]] = self[arg[t]]] /\ Goto(t, "setrun")
  /\ UNCHANGED <<pthreads, library, running, waited, self, user, control>>

SetRunning(t) ==
  /\ pc[t] = "setrun" /\ running' = [running EXCEPT ![arg[t]] = TRUE] /\ Return(t)
  /\ UNCHANGED <<pthreads, library, waited, self, id, user, control>>

\* vtwait and vtkill do nothing unless VT_RUNNING; vtwait is also called by
\* vtopen (without the mutex) and by vtclose (with it).
Check(t) ==
  /\ pc[t] = "check"
  /\ IF running[arg[t]] THEN Goto(t, IF call[t] = "kill" THEN "cancel" ELSE "join")
     ELSE IF call[t] = "close" THEN Goto(t, "fail") ELSE Return(t)
  /\ UNCHANGED <<pthreads, library, handle, control>>

\* Mutant of Join: it does not wait for the thread to end.
JoinNow(t) ==
  /\ pc[t] = "join"
  /\ Goto(t, "joined")
  /\ UNCHANGED <<pthreads, library, handle, control>>

\* pthread_join returns when the thread has ended.
Join(t) ==
  /\ pc[t] = "join"
  /\ os[self[arg[t]]] = "ended"
  /\ os' = [os EXCEPT ![self[arg[t]]] = "joined"] /\ Goto(t, "joined")
  /\ UNCHANGED <<job, library, handle, control>>

Joined(t) ==
  /\ pc[t] = "joined"
  /\ running' = [running EXCEPT ![arg[t]] = FALSE] /\ waited' = [waited EXCEPT ![arg[t]] = TRUE]
  /\ \/ call[t] = "wait" /\ Return(t)
     \/ call[t] = "open" /\ Goto(t, "relock")
     \/ call[t] = "close" /\ Goto(t, "clear")
  /\ UNCHANGED <<pthreads, library, self, id, user, control>>

\* pthread_cancel: a request; nobody will wait for the thread.
Cancel(t) ==
  /\ pc[t] = "cancel"
  /\ LET u == self[arg[t]] IN os' = IF os[u] = "run" THEN [os EXCEPT ![u] = "dying"] ELSE os
  /\ running' = [running EXCEPT ![arg[t]] = FALSE] /\ Return(t)
  /\ UNCHANGED <<job, library, waited, self, id, user, control>>

----------------------------------------------------------------------------
(* vtself and vtonce.                                                      *)

\* vtself walks the list without the mutex: it reads a slot ...
Self(t) ==
  /\ pc[t] = "self"
  /\ \/ slot[t] > Len(list) /\ Return(t)
     \/ slot[t] <= Len(list) /\ list[slot[t]] = None /\ GotoSlot(t, slot[t] + 1, "self")
     \/ /\ slot[t] <= Len(list) /\ list[slot[t]] # None
        /\ arg' = [arg EXCEPT ![t] = list[slot[t]]] /\ pc' = [pc EXCEPT ![t] = "selfid"]
        /\ UNCHANGED <<call, slot>>
  /\ UNCHANGED <<pthreads, library, handle, control>>

\* ... and then the id of the handle it found there.
SelfId(t) ==
  /\ pc[t] = "selfid"
  /\ IF id[arg[t]] = t THEN Return(t) ELSE GotoSlot(t, slot[t] + 1, "self")
  /\ UNCHANGED <<pthreads, library, handle, control>>

\* Mutant of Once: the flag is set before the function has run.
OnceEarly(t) ==
  /\ pc[t] = "once"
  /\ \/ (done \/ ctl = "done") /\ Return(t) /\ UNCHANGED <<ctl, ran, done>>
     \/ ~done /\ ctl = "never" /\ ctl' = "running" /\ done' = TRUE /\ Goto(t, "func") /\ UNCHANGED ran
  /\ UNCHANGED <<pthreads, library, handle>>

\* vtonce returns if the flag is set; pthread_once runs func or waits for it.
Once(t) ==
  /\ pc[t] = "once"
  /\ \/ done /\ Return(t) /\ UNCHANGED ctl
     \/ ~done /\ ctl = "done" /\ Goto(t, "flag") /\ UNCHANGED ctl
     \/ ~done /\ ctl = "never" /\ ctl' = "running" /\ Goto(t, "func")
  /\ UNCHANGED <<pthreads, library, handle, done, ran>>

Func(t) ==
  /\ pc[t] = "func" /\ ran' = ran + 1 /\ ctl' = "done" /\ Goto(t, "flag")
  /\ UNCHANGED <<pthreads, library, handle, done>>

SetDone(t) ==
  /\ pc[t] = "flag" /\ done' = TRUE /\ Return(t)
  /\ UNCHANGED <<pthreads, library, handle, ctl, ran>>

----------------------------------------------------------------------------

Init ==
  /\ os = [t \in Tids |-> IF t \in Callers THEN "run" ELSE "none"] /\ job = [t \in Tids |-> None]
  /\ lib = "never" /\ inited = FALSE /\ mtx = None /\ list = <<>>
  /\ running = [h \in Handles |-> FALSE] /\ waited = running
  /\ self = [h \in Handles |-> None] /\ id = self /\ user = self
  /\ ctl = "never" /\ done = FALSE /\ ran = 0
  /\ pc = [t \in Tids |-> "idle"] /\ call = [t \in Tids |-> "none"] /\ arg = [t \in Tids |-> None]
  /\ slot = [t \in Tids |-> 1]

Step(t) ==
  \/ Enter(t) \/ SetInit(t) \/ InitMutex(t) \/ Lock(t) \/ FindRunning(t) \/ FindIdle(t) \/ FindEmpty(t)
  \/ FindGrow(t) \/ Place(t) \/ PlaceFails(t) \/ Unlock(t) \/ Look(t) \/ Clear(t)
  \/ Create(t) \/ CreateFails(t) \/ SetId(t) \/ SetRunning(t) \/ Check(t) \/ Join(t) \/ Joined(t) \/ Cancel(t)
  \/ Self(t) \/ SelfId(t) \/ Once(t) \/ Func(t) \/ SetDone(t)

Next == (\E t \in Tids : Call(t) \/ Step(t)) \/ (\E t \in Pool : End(t))

Spec == Init /\ [][Next]_vars

\* Threads run, and what the application starts comes to an end.
FairSpec == Spec /\ (\A t \in Tids : WF_vars(Step(t))) /\ (\A t \in Pool : SF_vars(End(t)))

----------------------------------------------------------------------------
(* Properties.                                                             *)

Labels == {"idle", "enter", "init", "initmtx", "lock", "relock", "find", "place", "unlock", "fail", "look",
           "clear", "create", "setid", "setrun", "check", "join", "joined", "cancel", "self", "selfid",
           "once", "func", "flag"}

\* Every variable stays in its range; func of a vtonce runs at most once.
TypeOK ==
  /\ os \in [Tids -> {"none", "run", "dying", "ended", "joined"}] /\ job \in [Tids -> Handles \cup {None}]
  /\ lib \in {"never", "running", "done"} /\ inited \in BOOLEAN /\ mtx \in Tids \cup {None}
  /\ list \in Seq(Handles \cup {None}) /\ Len(list) <= MaxSlots
  /\ running \in [Handles -> BOOLEAN] /\ waited \in [Handles -> BOOLEAN]
  /\ self \in [Handles -> Pool \cup {None}] /\ id \in [Handles -> Pool \cup {None}]
  /\ user \in [Handles -> Tids \cup {None}]
  /\ ctl \in {"never", "running", "done"} /\ done \in BOOLEAN /\ ran \in 0 .. 1
  /\ pc \in [Tids -> Labels] /\ call \in [Tids -> DOMAIN Start \cup {"none"}] /\ arg \in [Tids -> Handles \cup {None}]
  /\ slot \in [Tids -> 1 .. MaxSlots + 1]

\* The calls under way on a handle.
Busy(h, calls) == \E t \in Tids : pc[t] # "idle" /\ call[t] \in calls /\ arg[t] = h

\* An open handle is in exactly one slot and a closed one in none, whatever
\* the other threads open, close, or wait for meanwhile (vtopen.c:28).
ListExact ==
  \A h \in Handles :
    ~Busy(h, {"open", "close"}) => Cardinality(Slots(h)) = IF user[h] = None THEN 0 ELSE 1

\* A thread is never running, unless it was cancelled, when its handle says it
\* was waited for, or is closed (and may be freed): vtclose waits for the end.
EndsBeforeClose ==
  \A u \in Pool : os[u] = "run" =>
    /\ user[job[u]] # None
    /\ waited[job[u]] /\ ~Busy(job[u], {"run"}) => running[job[u]]

\* A vtonce that returns 0 finds func run to its end.
OnceBefore ==
  [][\A t \in Tids : call[t] = "once" /\ pc[t] # "idle" /\ pc'[t] = "idle" => ran = 1 /\ ctl = "done"]_vars

\* The thread that a vtclose waits for with the mutex locked waits for the mutex.
Crossed(t) == pc[t] = "join" /\ self[arg[t]] \in Tids /\ pc[self[arg[t]]] \in {"lock", "relock"}

\* Whoever has the mutex of the library gives it back, whatever the threads do
\* that it waits for, unless one of them needs the mutex (vtclose.c:34).
MutexGivenBack == \A t \in Tids : (mtx = t) ~> (mtx # t \/ Crossed(t))

=============================================================================
