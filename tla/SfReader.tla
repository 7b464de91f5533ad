------------------------------ MODULE SfReader ------------------------------
(***************************************************************************)
(* What the reading calls of a stream promise together: one sequence of    *)
(* bytes to come, from which records, reads and reservations take from the *)
(* front, to which sfungetc puts back, and which a lent buffer leaves as   *)
(* it is until it is given back.  SfRecord (the buffers) implements this.  *)
(***************************************************************************)
EXTENDS Integers, Sequences

CONSTANTS Byte,  \* the values of a byte
          Sep,   \* the record separator
          Nul    \* the null byte that can replace it

VARIABLES rest,    \* the bytes to come
          op, how, \* the call and its kind; "none" between calls
          want,    \* how many bytes it asks for (negative: at least that many)
          part,    \* the bytes the call has taken so far
          broken,  \* the incomplete record or block an earlier call took
          lent,    \* whether a buffer is lent to the application
          out, ok  \* what the last call returned

vars == <<rest, op, how, want, part, broken, lent, out, ok>>

First(s, k) == SubSeq(s, 1, k)
After(s, k) == SubSeq(s, k + 1, Len(s))
Abs(n) == IF n < 0 THEN -n ELSE n
IsRecord(s) == s # <<>> /\ s[Len(s)] = Sep /\ \A i \in 1 .. Len(s) - 1 : s[i] # Sep
Unbroken(s) == \A i \in 1 .. Len(s) : s[i] # Sep
AsString(s) == [s EXCEPT ![Len(s)] = Nul]

Init ==
  /\ rest \in Seq(Byte)
  /\ op = "none" /\ how = "plain" /\ want = 0 /\ part = <<>> /\ broken = <<>> /\ lent = FALSE
  /\ out = <<>> /\ ok = TRUE

\* Someone writes to the file or the pipe.
Grow ==
  /\ \E c \in Byte : rest' = rest \o <<c>>
  /\ UNCHANGED <<op, how, want, part, broken, lent, out, ok>>

Call ==
  /\ op = "none" /\ op' \in {"getr", "reserve", "read", "release", "unget", "last", "lastblock"}
  /\ how' \in {"plain", "string", "lock"} /\ want' \in Int
  /\ out' = (IF lent THEN out ELSE <<>>) /\ ok' \in BOOLEAN
  /\ UNCHANGED <<rest, part, broken, lent>>

\* What an earlier call left incomplete may be forgotten by a later one.
Forget == broken' \in {broken, <<>>}
Drop == op \in {"getr", "reserve"} /\ Forget /\ UNCHANGED <<rest, op, how, want, part, lent, out, ok>>

\* The next k bytes: a record stops at its separator, a read at its count.
Take(k) ==
  /\ op \in {"getr", "read", "reserve"} /\ k <= Len(rest)
  /\ part' = part \o First(rest, k) /\ rest' = After(rest, k)
  /\ op = "getr" => IsRecord(part') \/ Unbroken(part')
  /\ op # "getr" => Len(part') <= Abs(want)
  /\ Forget /\ UNCHANGED <<op, how, want, lent, out, ok>>

Return(o, success) ==
  /\ op' = "none" /\ how' = "plain" /\ want' = 0 /\ part' = <<>> /\ out' = o /\ ok' = success

\* A whole record, lent if the application asked to lock it.
ReturnRecord ==
  /\ op = "getr" /\ IsRecord(part)
  /\ Return(IF how = "string" THEN AsString(part) ELSE part, TRUE) /\ lent' = (how = "lock")
  /\ UNCHANGED <<rest, broken>>

\* No record: everything to come was taken and waits for SF_LASTR.
ReturnBroken ==
  /\ op = "getr" /\ rest = <<>> /\ Unbroken(part) /\ Return(<<>>, FALSE)
  /\ broken' = IF part = <<>> THEN broken ELSE part
  /\ UNCHANGED <<rest, lent>>

\* A read is short only at the end.
ReturnRead ==
  /\ op = "read" /\ (Len(part) = want \/ rest = <<>>) /\ Return(part, TRUE)
  /\ UNCHANGED <<rest, broken, lent>>

\* A block of at least |want| bytes: taken, or lent and left to come.
ReturnBlock ==
  /\ op = "reserve" /\ Return(out', TRUE) /\ UNCHANGED broken
  /\ \E k \in 0 .. Len(rest) : out' = part \o First(rest, k)
  /\ Len(out') >= Abs(want)
  /\ \/ how = "lock" /\ part = <<>> /\ lent' = TRUE /\ UNCHANGED rest
     \/ /\ how # "lock" /\ lent' = lent
        /\ rest' = After(rest, (IF want < 0 THEN Len(out') ELSE want) - Len(part))

\* Not enough: nothing is taken, or what was taken waits for SF_LASTR.
ReturnNoBlock ==
  /\ op = "reserve" /\ Return(<<>>, FALSE)
  /\ broken' = IF part = <<>> THEN broken ELSE part
  /\ UNCHANGED <<rest, lent>>

\* What an earlier call took, or what it found and left.
ReturnLast ==
  /\ op \in {"last", "lastblock"} /\ UNCHANGED lent
  /\ \/ Return(broken, broken # <<>>) /\ broken' = <<>> /\ UNCHANGED rest
     \/ /\ op = "lastblock" /\ UNCHANGED broken
        /\ \E k \in 1 .. Len(rest) : Return(First(rest, k), TRUE) /\ rest' = After(rest, k)

\* A lent block is given back and its first bytes taken.
ReturnRelease ==
  /\ op = "release" /\ lent /\ want <= Len(out) /\ want <= Len(rest)
  /\ Return(First(rest, want), TRUE) /\ rest' = After(rest, want)
  /\ lent' = FALSE /\ UNCHANGED broken

ReturnUnget ==
  /\ op = "unget" /\ Return(<<>>, TRUE) /\ rest' = <<want>> \o rest /\ UNCHANGED <<broken, lent>>

\* Every other call is refused while a block is lent.
Refuse == lent /\ op # "none" /\ Return(out, FALSE) /\ UNCHANGED <<rest, broken, lent>>

Next ==
  \/ Grow \/ Call \/ \E k \in 1 .. Len(rest) : Take(k)
  \/ Drop \/ ReturnRecord \/ ReturnBroken \/ ReturnRead \/ ReturnBlock \/ ReturnNoBlock
  \/ ReturnLast \/ ReturnRelease \/ ReturnUnget \/ Refuse

Spec == Init /\ [][Next]_vars
=============================================================================
