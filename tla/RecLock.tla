------------------------------- MODULE RecLock -------------------------------
(***************************************************************************)
(* What the mutex of Vthread promises: "only this thread can relock the    *)
(* mutex as many times as desired".  held[t] is how many locks thread t    *)
(* has been granted and not given back; a grant needs everybody else to    *)
(* hold none.  VtMutex (the code) implements this.                         *)
(***************************************************************************)
EXTENDS Naturals

CONSTANT Threads

VARIABLE held

Init == held = [t \in Threads |-> 0]

Grant(t) ==
  /\ \A u \in Threads \ {t} : held[u] = 0
  /\ held' = [held EXCEPT ![t] = @ + 1]

GiveBack(t) == held[t] > 0 /\ held' = [held EXCEPT ![t] = @ - 1]

GiveAllBack(t) == held' = [held EXCEPT ![t] = 0]

Next == \E t \in Threads : Grant(t) \/ GiveBack(t) \/ GiveAllBack(t)

Spec == Init /\ [][Next]_held
=============================================================================
