------------------------------ MODULE SfSource ------------------------------
(***************************************************************************)
(* What a stream with a discipline is to its application: a text, each of  *)
(* whose users reads and writes a window of it from a position of its own. *)
(* A read gives the next bytes, at least one before the end of the window; *)
(* a seek gives the position it went to.  After a seek that failed the     *)
(* position is what it was, or open until the next that succeeds; after a  *)
(* failure below, a read may give nothing.                                 *)
(***************************************************************************)
EXTENDS Integers, Sequences

CONSTANTS Users, Open

VARIABLES
    text,       \* what there is to read
    window,     \* [user -> [lo, hi]], hi Open for a window without an end
    at,         \* [user -> position in its window, or Open]
    broken,     \* something below has failed
    last        \* the last call: user, op, n, ret, data

vars == <<text, window, at, broken, last>>

First(u) == window[u].lo + at[u]
End(u) == IF window[u].hi = Open \/ window[u].hi > Len(text) THEN Len(text) ELSE window[u].hi

Init == at \in [Users -> {0, Open}] /\ broken = FALSE /\ last.op = "none"

Read(u) ==
    /\ last'.op = "read" /\ last'.user = u
    /\ last'.ret = Len(last'.data)
    /\ at[u] # Open =>
         /\ last'.ret <= last'.n
         /\ last'.ret > 0 => First(u) + last'.ret <= End(u)
         /\ last'.data = SubSeq(text, First(u) + 1, First(u) + last'.ret)
         /\ last'.ret = 0 => last'.n = 0 \/ First(u) >= End(u) \/ broken'
    /\ at' = [at EXCEPT ![u] = IF @ = Open THEN Open ELSE @ + last'.ret]
    /\ UNCHANGED <<text, window>>

(* k bytes are written, over what is there or at the end.                  *)
Write(u) ==
    /\ last'.op = "write" /\ last'.user = u
    /\ LET k == last'.ret
           i == First(u)
       IN  /\ k \in 0 .. Len(last'.data)
           /\ window[u].hi # Open => i + k <= window[u].hi
           /\ text' = SubSeq(text, 1, i) \o SubSeq(last'.data, 1, k)
                        \o SubSeq(text, i + k + 1, Len(text))
           /\ at' = [at EXCEPT ![u] = @ + k]
    /\ UNCHANGED window

Seek(u) ==
    /\ last'.op = "seek" /\ last'.user = u
    /\ at' = [at EXCEPT ![u] = last'.ret] \/ (last'.ret < 0 /\ at' \in {at, [at EXCEPT ![u] = Open]})
    /\ last'.whence = "set" /\ last'.ret >= 0 => last'.ret = last'.n
    /\ UNCHANGED <<text, window>>

Next == (broken => broken') /\ \E u \in Users : Read(u) \/ Write(u) \/ Seek(u)

Spec == Init /\ [][Next]_vars
=============================================================================
