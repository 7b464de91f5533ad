--------------------------- MODULE MCSfCoprocess ---------------------------
(***************************************************************************)
(* The setups: buffered and unbuffered streams, processes of each kind.    *)
(***************************************************************************)
EXTENDS SfCoprocess, TLC

Setup(s, ks, sizes, own) == {[setup |-> s, kind |-> k, size |-> z, own |-> own] : k \in ks, z \in sizes}
MCSetups ==
    Setup("rw", {"each", "early", "missing"}, {0, 2}, FALSE) \cup
    Setup("rw", {"each"}, {2}, TRUE) \cup
    Setup("pair", {"each", "all"}, {2}, FALSE) \cup
    Setup("filter", {"each", "all", "early"}, {0}, FALSE)
=============================================================================
