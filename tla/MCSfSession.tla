---------------------------- MODULE MCSfSession ----------------------------
(***************************************************************************)
(* The setups: disciplines that do I/O and ones that only hear events, and *)
(* handlers of each kind.                                                  *)
(***************************************************************************)
EXTENDS SfSession, TLC

D(io, on, act) == [io |-> io, on |-> on, act |-> act]
Plain == D(TRUE, "nothing", "none")
Setup(discs, seek, len, room, most, old, exit) ==
    [discs |-> discs, seek |-> seek, len |-> len, room |-> room, most |-> most, old |-> old, exit |-> exit]
One(a) == "a" :> a
Two(a, b) == ("a" :> a) @@ ("b" :> b)
MCSetups ==
    {Setup(Two(Plain, D(FALSE, "atexit", "leave")), TRUE, 0, 9, 3, -1, "early"),
     Setup(Two(D(TRUE, "user", "clear"), D(TRUE, "pop", "refuse")), TRUE, 0, 9, 3, 1, "late"),
     Setup(Two(D(FALSE, "closing", "hold"), D(TRUE, "push", "refuse")), TRUE, 0, 2, 3, -1, "early"),
     Setup(Two(D(TRUE, "push", "leave"), D(TRUE, "locked", "thaw")), TRUE, 3, 0, 0, -1, "late"),
     Setup(Two(D(TRUE, "user", "refuse"), D(FALSE, "user", "leave")), FALSE, 3, 0, 0, -1, "early"),
     Setup(Two(D(TRUE, "user", "clear"), D(FALSE, "atexit", "leave")), TRUE, 3, 0, 0, -1, "late"),
     Setup(One(Plain), TRUE, 2, 2, 2, 1, "none"),
     Setup(One(Plain), FALSE, 2, 9, 2, -1, "none")}
MCModes == {<<"w">>, <<"a">>, <<"w", "x">>}

MCReadWrite == {<<"w", "+">>}
=============================================================================
