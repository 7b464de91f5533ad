----------------------------- MODULE MCVtMutex -----------------------------
(* Small instances of VtMutex: the three builds, with three threads.         *)
EXTENDS VtMutex

AllVariants == {"errorcheck", "recursive", "generic"}
AllCalls == {"lock", "trylock", "unlock", "clrlock"}

\* Every call; but a trylock of the errorcheck build is not safe: it reads owner unlocked.
MCCalls == [v \in Variants |-> IF v = "errorcheck" THEN AllCalls \ {"trylock"} ELSE AllCalls]

\* Two threads are enough where nothing checks the holder.
MCCallers ==
  [v \in Variants |-> IF v = "generic" THEN {Opener, CHOOSE t \in Threads : t # Opener} ELSE Threads]

=============================================================================
