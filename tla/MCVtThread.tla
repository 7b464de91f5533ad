----------------------------- MODULE MCVtThread -----------------------------
(* Small instances of VtThread.                                              *)
EXTENDS VtThread

\* The main thread, a thread beside it, and the threads these start, which have
\* handles of their own.
MCCalls ==
  [t \in Tids |-> IF t = Main THEN {"open", "run", "wait", "kill", "close"}
                  ELSE IF t \in Callers THEN {"open", "close", "once"} ELSE {"open", "close", "self", "once"}]
=============================================================================
