------------------------------ MODULE MCSfLock ------------------------------
(* Instances of SfLock for TLC.                                             *)
EXTENDS SfLock
CONSTANTS a, b, c, o, h1, h2, s1, x, y

MCPool == <<x, y>>

Common == {<<"io", o>>, <<"close", o>>, <<"io", h1>>, <<"stack", h1, h2>>, <<"pop", h1>>}

\* a also uses the pool and the streams one at a time, b stacks and closes, c
\* holds a stream and jumps out of calls. The two streams of a stack come in one order.
MCCalls ==
  [t \in Thread |->
     CASE t = a -> Common \cup {<<"open", o>>, <<"io", s1>>, <<"io", x>>, <<"io", y>>}
       [] t = b -> Common \cup {<<"stack", o, h2>>, <<"pop", o>>, <<"io", s1>>, <<"close", h1>>, <<"open", h1>>, <<"open", h2>>}
       [] t = c -> {<<"io", o>>, <<"io", h1>>, <<"io", h2>>, <<"lock", h1>>, <<"jump", h1>>}]

PoolCalls == [t \in Thread |-> {<<"io", x>>, <<"io", y>>}]
=============================================================================
