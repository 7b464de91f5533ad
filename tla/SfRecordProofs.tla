--------------------------- MODULE SfRecordProofs ---------------------------
(***************************************************************************)
(* Theorems about SfRecord for any bytes, buffer size, input and calls:    *)
(* the reading calls implement SfReader, one sequence of bytes to come,    *)
(* and a read of a shared pipe leaves the rest to the next process.        *)
(***************************************************************************)
EXTENDS SfRecord, SequenceTheorems, FiniteSetTheorems, WellFoundedInduction, TLAPS

----------------------------------------------------------------------------
(* The invariant.                                                          *)

Sym == Byte \cup {Nul}

TypeInv ==
  /\ kind \in {"file", "pipe"} /\ input \in Seq(Sym)
  /\ data \in Seq(Sym) /\ next \in 0 .. Len(data)
  /\ stacked \in BOOLEAN /\ pushed \in Seq(Sym) /\ undo \in BOOLEAN
  /\ lent \in {"none", "record", "block"} /\ pkrd \in BOOLEAN /\ broken \in Seq(Sym)
  /\ op \in {"none", "getr", "reserve", "read", "release", "unget", "last", "lastblock"}
  /\ how \in {"plain", "string", "lock"} /\ want \in Int
  /\ part \in Seq(Sym) /\ now \in Int /\ side \in BOOLEAN
  /\ out \in Seq(Sym) /\ ok \in BOOLEAN

\* A part of a record ends with the separator or has none.
PartInv ==
  /\ op = "none" => part = <<>>
  /\ op = "getr" => Reader!IsRecord(part) \/ Reader!Unbroken(part)
  /\ op \in {"read", "reserve"} => Len(part) <= Abs(want)
  /\ op = "reserve" /\ ~side => part = <<>>

\* What the arguments of a call can be.
ArgumentInv ==
  /\ op = "read" => want >= 0
  /\ op = "reserve" /\ side => how # "lock" /\ broken = <<>>
  /\ op = "unget" => want \in Byte
  /\ op = "release" => lent # "none" /\ want \in 0 .. Len(out) /\ (lent = "record" => want = 0)
  /\ op \in {"last", "lastblock"} => lent = "none"

\* A lent block is what the stream has, and no pushed back bytes lie below the top.
BufferInv ==
  /\ lent = "block" => out = Available
  /\ ~stacked => pushed = <<>>

\* What was peeked is what the kernel still has; it satisfies the call, and is lent.
PeekInv ==
  pkrd => /\ kind = "pipe" /\ ~stacked /\ next = 0 /\ Len(data) \in 1 .. Len(input)
          /\ data = First(input, Len(data))
          /\ \/ lent = "block"
             \/ /\ op = "reserve" /\ ~side /\ how = "lock" /\ lent = "none"
                /\ Len(data) >= Abs(want) /\ ~undo

RecordInv == TypeInv /\ PartInv /\ ArgumentInv /\ BufferInv /\ PeekInv

----------------------------------------------------------------------------
(* Sequences cut in two.                                                   *)

\* A sequence is its first bytes and those after them.
LEMMA Cut ==
  ASSUME NEW S, NEW s \in Seq(S), NEW k \in 0 .. Len(s)
  PROVE  /\ First(s, k) \in Seq(S) /\ Len(First(s, k)) = k
         /\ After(s, k) \in Seq(S) /\ Len(After(s, k)) = Len(s) - k
         /\ \A i \in 1 .. k : First(s, k)[i] = s[i]
         /\ \A i \in 1 .. Len(s) - k : After(s, k)[i] = s[k + i]
         /\ First(s, k) \o After(s, k) = s
<1>1. Len(s) \in Nat /\ \A i \in 1 .. Len(s) : s[i] \in S
  BY LenProperties, ElementOfSeq
<1>2. \A i \in 1 .. k : s[i] \in S
  BY <1>1
<1>3. First(s, k) \in Seq(S) /\ Len(First(s, k)) = k /\ \A i \in 1 .. k : First(s, k)[i] = s[i]
  <2>1. /\ SubSeq(s, 1, k) \in Seq(S) /\ Len(SubSeq(s, 1, k)) = IF 1 <= k THEN k - 1 + 1 ELSE 0
        /\ \A i \in 1 .. k - 1 + 1 : SubSeq(s, 1, k)[i] = s[1 + i - 1]
    BY <1>1, <1>2, SubSeqProperties
  <2> QED BY <1>1, <2>1 DEF First
<1>4. /\ After(s, k) \in Seq(S) /\ Len(After(s, k)) = Len(s) - k
      /\ \A i \in 1 .. Len(s) - k : After(s, k)[i] = s[k + i]
  <2>1. \A i \in k + 1 .. Len(s) : s[i] \in S
    BY <1>1
  <2>2. /\ SubSeq(s, k + 1, Len(s)) \in Seq(S)
        /\ Len(SubSeq(s, k + 1, Len(s))) = IF k + 1 <= Len(s) THEN Len(s) - (k + 1) + 1 ELSE 0
        /\ \A i \in 1 .. Len(s) - (k + 1) + 1 : SubSeq(s, k + 1, Len(s))[i] = s[k + 1 + i - 1]
    BY <1>1, <2>1, SubSeqProperties
  <2> QED BY <1>1, <2>2 DEF After
<1>5. First(s, k) \o After(s, k) = s
  <2> DEFINE t == First(s, k) \o After(s, k)
  <2>1. /\ t \in Seq(S) /\ Len(t) = k + (Len(s) - k)
        /\ \A i \in 1 .. k + (Len(s) - k) : t[i] = IF i <= k THEN First(s, k)[i] ELSE After(s, k)[i - k]
    BY <1>3, <1>4, ConcatProperties
  <2>2. Len(t) = Len(s) /\ \A i \in 1 .. Len(t) : t[i] = s[i]
    BY <1>1, <1>3, <1>4, <2>1
  <2> QED BY <2>1, <2>2, SeqEqual
<1> QED BY <1>3, <1>4, <1>5

\* Cutting in the first of two sequences.
LEMMA CutConcat ==
  ASSUME NEW S, NEW s \in Seq(S), NEW t \in Seq(S), NEW k \in 0 .. Len(s)
  PROVE  /\ k \in 0 .. Len(s \o t)
         /\ First(s \o t, k) = First(s, k) /\ After(s \o t, k) = After(s, k) \o t
<1>1. /\ s \o t \in Seq(S) /\ Len(s \o t) = Len(s) + Len(t) /\ Len(s) \in Nat /\ Len(t) \in Nat
      /\ \A i \in 1 .. Len(s) + Len(t) : (s \o t)[i] = IF i <= Len(s) THEN s[i] ELSE t[i - Len(s)]
  BY ConcatProperties, LenProperties
<1>2. k \in 0 .. Len(s \o t)
  BY <1>1
<1>3. First(s \o t, k) = First(s, k)
  <2>1. /\ First(s \o t, k) \in Seq(S) /\ Len(First(s \o t, k)) = k
        /\ \A i \in 1 .. k : First(s \o t, k)[i] = (s \o t)[i]
    BY <1>1, <1>2, Cut
  <2>2. First(s, k) \in Seq(S) /\ Len(First(s, k)) = k /\ \A i \in 1 .. k : First(s, k)[i] = s[i]
    BY Cut
  <2>3. \A i \in 1 .. k : First(s \o t, k)[i] = First(s, k)[i]
    BY <1>1, <2>1, <2>2
  <2> QED BY <2>1, <2>2, <2>3, SeqEqual
<1>4. After(s \o t, k) = After(s, k) \o t
  <2>1. /\ After(s \o t, k) \in Seq(S) /\ Len(After(s \o t, k)) = Len(s \o t) - k
        /\ \A i \in 1 .. Len(s \o t) - k : After(s \o t, k)[i] = (s \o t)[k + i]
    BY <1>1, <1>2, Cut
  <2>2. /\ After(s, k) \in Seq(S) /\ Len(After(s, k)) = Len(s) - k
        /\ \A i \in 1 .. Len(s) - k : After(s, k)[i] = s[k + i]
    BY Cut
  <2>3. /\ After(s, k) \o t \in Seq(S) /\ Len(After(s, k) \o t) = Len(s) - k + Len(t)
        /\ \A i \in 1 .. Len(s) - k + Len(t) :
             (After(s, k) \o t)[i] = IF i <= Len(s) - k THEN After(s, k)[i] ELSE t[i - (Len(s) - k)]
    <3> HIDE DEF After
    <3> DEFINE a == After(s, k)
    <3>1. a \in Seq(S) /\ Len(a) = Len(s) - k
      BY <2>2
    <3>2. /\ a \o t \in Seq(S) /\ Len(a \o t) = Len(a) + Len(t)
          /\ \A i \in 1 .. Len(a) + Len(t) : (a \o t)[i] = IF i <= Len(a) THEN a[i] ELSE t[i - Len(a)]
      <4> HIDE DEF a
      <4> QED BY <3>1, ConcatProperties
    <3> QED BY <3>1, <3>2
  <2>4. \A i \in 1 .. Len(s) - k + Len(t) : After(s \o t, k)[i] = (After(s, k) \o t)[i]
    <3> SUFFICES ASSUME NEW i \in 1 .. Len(s) - k + Len(t) PROVE After(s \o t, k)[i] = (After(s, k) \o t)[i]
      OBVIOUS
    <3>1. After(s \o t, k)[i] = (s \o t)[k + i] /\ k + i \in 1 .. Len(s) + Len(t)
      BY <1>1, <2>1
    <3>2. CASE i <= Len(s) - k
      BY <1>1, <2>2, <2>3, <3>1, <3>2
    <3>3. CASE ~ (i <= Len(s) - k)
      <4>1. k + i - Len(s) = i - (Len(s) - k)
        BY <1>1
      <4> QED BY <1>1, <2>3, <3>1, <3>3, <4>1
    <3> QED BY <3>2, <3>3
  <2>5. Len(s \o t) - k = Len(s) - k + Len(t)
    BY <1>1
  <2>6. \A i \in 1 .. Len(After(s \o t, k)) : After(s \o t, k)[i] = (After(s, k) \o t)[i]
    BY <2>1, <2>4, <2>5
  <2> QED BY <2>1, <2>3, <2>5, <2>6, SeqEqual
<1> QED BY <1>2, <1>3, <1>4

\* Cutting nothing, and everything.
LEMMA CutEnds ==
  ASSUME NEW S, NEW s \in Seq(S)
  PROVE  /\ First(s, 0) = <<>> /\ After(s, 0) = s
         /\ First(s, Len(s)) = s /\ After(s, Len(s)) = <<>>
<1>1. Len(s) \in Nat
  BY LenProperties
<1>2. First(s, 0) = <<>> /\ After(s, Len(s)) = <<>>
  BY <1>1, SubSeqEmpty DEF First, After
<1>3. First(s, Len(s)) = s /\ After(s, 0) = s
  BY <1>1, SubSeqFull DEF First, After
<1> QED BY <1>2, <1>3

\* Cutting twice is cutting once.
LEMMA CutTwice ==
  ASSUME NEW S, NEW s \in Seq(S), NEW n \in 0 .. Len(s), NEW k \in 0 .. Len(s) - n
  PROVE  n + k \in 0 .. Len(s) /\ After(After(s, n), k) = After(s, n + k)
<1>1. Len(s) \in Nat
  BY LenProperties
<1>2. n + k \in 0 .. Len(s)
  BY <1>1
<1>3. /\ After(s, n) \in Seq(S) /\ Len(After(s, n)) = Len(s) - n
      /\ \A i \in 1 .. Len(s) - n : After(s, n)[i] = s[n + i]
  BY Cut
<1>4. /\ After(s, n + k) \in Seq(S) /\ Len(After(s, n + k)) = Len(s) - (n + k)
      /\ \A i \in 1 .. Len(s) - (n + k) : After(s, n + k)[i] = s[n + k + i]
  BY <1>2, Cut
<1>5. /\ After(After(s, n), k) \in Seq(S) /\ Len(After(After(s, n), k)) = Len(s) - n - k
      /\ \A i \in 1 .. Len(s) - n - k : After(After(s, n), k)[i] = After(s, n)[k + i]
  <2> DEFINE a == After(s, n)
  <2>1. a \in Seq(S) /\ Len(a) = Len(s) - n
    BY <1>3
  <2> HIDE DEF a
  <2>2. k \in 0 .. Len(a)
    BY <2>1
  <2>3. /\ After(a, k) \in Seq(S) /\ Len(After(a, k)) = Len(a) - k
        /\ \A i \in 1 .. Len(a) - k : After(a, k)[i] = a[k + i]
    BY <2>1, <2>2, Cut
  <2> QED BY <2>1, <2>3 DEF a
<1>6. \A i \in 1 .. Len(s) - n - k : After(After(s, n), k)[i] = After(s, n + k)[i]
  <2> SUFFICES ASSUME NEW i \in 1 .. Len(s) - n - k PROVE After(After(s, n), k)[i] = After(s, n + k)[i]
    OBVIOUS
  <2>1. k + i \in 1 .. Len(s) - n /\ i \in 1 .. Len(s) - (n + k) /\ n + (k + i) = n + k + i
    BY <1>1
  <2>2. After(After(s, n), k)[i] = s[n + (k + i)]
    BY <1>3, <1>5, <2>1
  <2>3. After(s, n + k)[i] = s[n + k + i]
    BY <1>4, <2>1
  <2> QED BY <2>1, <2>2, <2>3
<1>7. Len(s) - n - k = Len(s) - (n + k)
  BY <1>1
<1> QED BY <1>2, <1>4, <1>5, <1>6, <1>7, SeqEqual

\* A byte that is overwritten does not change what comes after it.
LEMMA AfterWrite ==
  ASSUME NEW S, NEW s \in Seq(S), NEW n \in 0 .. Len(s), NEW e \in S
  PROVE  /\ [s EXCEPT ![n] = e] \in Seq(S) /\ Len([s EXCEPT ![n] = e]) = Len(s)
         /\ After([s EXCEPT ![n] = e], n) = After(s, n)
<1> DEFINE w == [s EXCEPT ![n] = e]
<1>1. Len(s) \in Nat /\ DOMAIN s = 1 .. Len(s)
  BY LenProperties
<1>2. w \in Seq(S) /\ Len(w) = Len(s) /\ \A i \in n + 1 .. Len(s) : w[i] = s[i]
  <2>1. CASE n = 0
    <3>1. w = s
      BY <1>1, <2>1
    <3> QED BY <3>1
  <2>2. CASE n \in 1 .. Len(s)
    BY <1>1, <2>2, ExceptSeq
  <2> QED BY <1>1, <2>1, <2>2
<1>3. After(w, n) = After(s, n)
  <2> HIDE DEF w
  <2>1. /\ After(s, n) \in Seq(S) /\ Len(After(s, n)) = Len(s) - n
        /\ \A i \in 1 .. Len(s) - n : After(s, n)[i] = s[n + i]
    BY Cut
  <2>2. /\ After(w, n) \in Seq(S) /\ Len(After(w, n)) = Len(s) - n
        /\ \A i \in 1 .. Len(s) - n : After(w, n)[i] = w[n + i]
    <3>1. w \in Seq(S) /\ n \in 0 .. Len(w)
      BY <1>2
    <3>2. /\ After(w, n) \in Seq(S) /\ Len(After(w, n)) = Len(w) - n
          /\ \A i \in 1 .. Len(w) - n : After(w, n)[i] = w[n + i]
      BY <3>1, Cut
    <3> QED BY <1>2, <3>2
  <2>3. \A i \in 1 .. Len(s) - n : After(w, n)[i] = After(s, n)[i]
    BY <1>1, <1>2, <2>1, <2>2
  <2> QED BY <2>1, <2>2, <2>3, SeqEqual
<1> QED BY <1>2, <1>3

----------------------------------------------------------------------------
(* The bytes to come.                                                      *)

\* What is to come behind the bytes of the stream on top.
Below == IF stacked THEN After(data, next) \o input ELSE input

\* The parts of the stream are sequences.
LEMMA Parts ==
  ASSUME TypeInv
  PROVE  /\ Available \in Seq(Sym) /\ Len(Available) \in Nat /\ Below \in Seq(Sym)
         /\ After(data, next) \in Seq(Sym) /\ Len(After(data, next)) = Len(data) - next
         /\ Len(input) \in Nat /\ Len(data) \in Nat /\ Len(part) \in Nat /\ Len(out) \in Nat
         /\ <<>> \in Seq(Sym) /\ Len(<<>>) = 0
<1>1. After(data, next) \in Seq(Sym) /\ Len(After(data, next)) = Len(data) - next
  BY Cut DEF TypeInv
<1>2. Available \in Seq(Sym)
  BY <1>1 DEF Available, TypeInv
<1>3. After(data, next) \o input \in Seq(Sym)
  BY <1>1, ConcatProperties DEF TypeInv
<1>4. Below \in Seq(Sym)
  BY <1>3 DEF Below, TypeInv
<1>5. \A s \in Seq(Sym) : Len(s) \in Nat
  BY LenProperties
<1>6. <<>> \in Seq(Sym) /\ Len(<<>>) = 0
  BY EmptySeq
<1> QED BY <1>1, <1>2, <1>4, <1>5, <1>6 DEF TypeInv

\* Nothing peeked: the bytes on top and those below are what is to come.
LEMMA RestTop ==
  ASSUME TypeInv, ~pkrd
  PROVE  Rest = Available \o Below
<1>1. /\ After(data, next) \in Seq(Sym) /\ pushed \in Seq(Sym) /\ input \in Seq(Sym)
  BY Parts DEF TypeInv
<1>2. <<>> \o After(data, next) = After(data, next)
  BY <1>1, ConcatEmptySeq
<1>3. (pushed \o After(data, next)) \o input = pushed \o (After(data, next) \o input)
  BY <1>1, ConcatAssociative
<1>4. CASE stacked
  <2>1. Rest = (pushed \o After(data, next)) \o input /\ Available = pushed /\ Below = After(data, next) \o input
    BY <1>4 DEF Rest, Available, Below
  <2> QED BY <1>3, <2>1
<1>5. CASE ~stacked
  <2>1. Rest = (<<>> \o After(data, next)) \o input /\ Available = After(data, next) /\ Below = input
    BY <1>5 DEF Rest, Available, Below
  <2> QED BY <1>2, <2>1
<1> QED BY <1>4, <1>5

\* Peeked bytes are the first of what the kernel still has.
LEMMA RestPeeked ==
  ASSUME TypeInv, PeekInv, pkrd
  PROVE  Rest = input /\ Available = data /\ data = First(input, Len(data)) /\ Len(data) \in 1 .. Len(input)
<1>1. ~stacked /\ next = 0 /\ data = First(input, Len(data)) /\ Len(data) \in 1 .. Len(input)
  BY DEF PeekInv
<1>2. Rest = (<<>> \o <<>>) \o input /\ Available = After(data, 0)
  BY <1>1 DEF Rest, Available
<1>3. <<>> \o <<>> = <<>> /\ <<>> \o input = input
  BY Parts, ConcatEmptySeq DEF TypeInv
<1>4. After(data, 0) = data
  BY CutEnds DEF TypeInv
<1> QED BY <1>1, <1>2, <1>3, <1>4

\* What is available comes first.
LEMMA RestFirst ==
  ASSUME TypeInv, PeekInv
  PROVE  /\ Rest \in Seq(Sym) /\ Len(Available) \in 0 .. Len(Rest)
         /\ First(Rest, Len(Available)) = Available
<1>1. CASE pkrd
  <2>1. Rest = input /\ Available = data /\ data = First(input, Len(data)) /\ Len(data) \in 1 .. Len(input)
    BY <1>1, RestPeeked
  <2> QED BY <2>1, Parts DEF TypeInv
<1>2. CASE ~pkrd
  <2>1. Rest = Available \o Below
    BY <1>2, RestTop
  <2>2. Available \in Seq(Sym) /\ Below \in Seq(Sym) /\ Len(Available) \in Nat
    BY Parts
  <2>3. Available \o Below \in Seq(Sym)
    BY <2>2, ConcatProperties
  <2>4. Len(Available) \in 0 .. Len(Available)
    BY <2>2
  <2>5. /\ Len(Available) \in 0 .. Len(Available \o Below)
        /\ First(Available \o Below, Len(Available)) = First(Available, Len(Available))
    BY <2>2, <2>4, CutConcat
  <2>6. First(Available, Len(Available)) = Available
    BY <2>2, CutEnds
  <2> QED BY <2>1, <2>3, <2>5, <2>6
<1> QED BY <1>1, <1>2

\* f->next moves over bytes that are available.
LEMMA PassRest ==
  ASSUME TypeInv, ~pkrd, NEW k \in 0 .. Len(Available), Pass(k),
         input' = input, data' = data, stacked' = stacked, pkrd' = pkrd
  PROVE  /\ k \in 0 .. Len(Rest) /\ First(Rest, k) = First(Available, k) /\ Rest' = After(Rest, k)
         /\ Available' = After(Available, k)
         /\ next' \in 0 .. Len(data) /\ pushed' \in Seq(Sym) /\ (pushed = <<>> => (~stacked => pushed' = <<>>))
<1>1. /\ Available \in Seq(Sym) /\ Below \in Seq(Sym) /\ Rest = Available \o Below
      /\ pushed \in Seq(Sym) /\ data \in Seq(Sym) /\ input \in Seq(Sym) /\ next \in 0 .. Len(data) /\ Len(data) \in Nat
  BY Parts, RestTop DEF TypeInv
<1>2. k \in 0 .. Len(Rest) /\ First(Rest, k) = First(Available, k) /\ After(Rest, k) = After(Available, k) \o Below
  BY <1>1, CutConcat
<1>3. CASE stacked
  <2>1. pushed' = After(pushed, k) /\ next' = next /\ Available = pushed
    BY <1>3 DEF Pass, Available
  <2>2. pushed' \in Seq(Sym)
    BY <1>1, <2>1, Cut
  <2>3. Rest' = (pushed' \o After(data, next)) \o input /\ Below = After(data, next) \o input
    BY <1>3, <2>1 DEF Rest, Below
  <2>4. (pushed' \o After(data, next)) \o input = pushed' \o (After(data, next) \o input)
    <3>1. pushed' \in Seq(Sym) /\ After(data, next) \in Seq(Sym) /\ input \in Seq(Sym)
      BY <1>1, <2>2, Parts
    <3> QED BY <3>1, ConcatAssociative
  <2>5. Available' = pushed'
    BY <1>3 DEF Available
  <2> QED BY <1>1, <1>2, <1>3, <2>1, <2>2, <2>3, <2>4, <2>5
<1>4. CASE ~stacked
  <2>1. next' = next + k /\ pushed' = pushed /\ Available = After(data, next) /\ k \in 0 .. Len(data) - next
    BY <1>4, Parts DEF Pass, Available
  <2>2. next' \in 0 .. Len(data) /\ After(After(data, next), k) = After(data, next')
    BY <1>1, <2>1, CutTwice
  <2>3. Rest' = (<<>> \o After(data, next')) \o input /\ Below = input
    BY <1>4, <2>1 DEF Rest, Below
  <2>4. <<>> \o After(data, next') = After(data, next')
    BY <1>1, <2>2, Cut, ConcatEmptySeq
  <2>5. Available' = After(data, next')
    BY <1>4 DEF Available
  <2> QED BY <1>1, <1>2, <1>4, <2>1, <2>2, <2>3, <2>4, <2>5
<1> QED BY <1>3, <1>4 DEF TypeInv

\* A read of k bytes that keeps those unread changes nothing to come.
LEMMA FillRest ==
  ASSUME TypeInv, ~pkrd, pkrd' = pkrd, stacked => pushed = <<>>, stacked' \in {stacked, FALSE},
         pushed' = pushed, NEW k \in 0 .. Len(input), Fill(After(data, next), k)
  PROVE  /\ Rest' = Rest /\ data' \in Seq(Sym) /\ next' = 0 /\ input' \in Seq(Sym)
         /\ Len(input') = Len(input) - k
<1> DEFINE rest == After(data, next)
           got == First(input, k)
<1>1. rest \in Seq(Sym) /\ input \in Seq(Sym) /\ Len(data) \in Nat
  BY Parts DEF TypeInv
<1>2. /\ got \in Seq(Sym) /\ After(input, k) \in Seq(Sym) /\ got \o After(input, k) = input
      /\ Len(After(input, k)) = Len(input) - k
  BY <1>1, Cut
<1>3. data' = rest \o got /\ next' = 0 /\ input' = After(input, k)
  BY DEF Fill
<1> HIDE DEF rest, got
<1>4. data' \in Seq(Sym)
  BY <1>1, <1>2, <1>3, ConcatProperties
<1>5. After(data', next') = data'
  BY <1>3, <1>4, CutEnds
<1>6. Rest' = (<<>> \o data') \o input'
  <2>1. (IF stacked THEN pushed ELSE <<>>)' = <<>>
    <3>1. stacked' => pushed' = <<>>
      BY DEF TypeInv
    <3> QED BY <3>1
  <2>2. (IF pkrd THEN <<>> ELSE After(data, next))' = data'
    BY <1>5
  <2> QED BY <2>1, <2>2 DEF Rest
<1>7. <<>> \o data' = data'
  BY <1>4, ConcatEmptySeq
<1>8. (rest \o got) \o After(input, k) = rest \o (got \o After(input, k))
  <2> DEFINE left == After(input, k)
  <2>1. rest \in Seq(Sym) /\ got \in Seq(Sym) /\ left \in Seq(Sym)
    BY <1>1, <1>2
  <2> HIDE DEF left
  <2>2. (rest \o got) \o left = rest \o (got \o left)
    BY <2>1, ConcatAssociative
  <2> QED BY <2>2 DEF left
<1>9. Rest' = rest \o input
  BY <1>2, <1>3, <1>6, <1>7, <1>8
<1>10. Rest = (<<>> \o rest) \o input
  BY DEF Rest, rest
<1>11. <<>> \o rest = rest
  BY <1>1, ConcatEmptySeq
<1> QED BY <1>2, <1>3, <1>4, <1>9, <1>10, <1>11

\* A read of k bytes behind those in the buffer changes nothing to come.
LEMMA GrowRest ==
  ASSUME TypeInv, ~pkrd, pkrd' = pkrd, stacked => pushed = <<>>, stacked' \in {stacked, FALSE},
         pushed' = pushed, NEW k \in 0 .. Len(input),
         data' = data \o First(input, k), next' = next, input' = After(input, k)
  PROVE  /\ Rest' = Rest /\ data' \in Seq(Sym) /\ next' \in 0 .. Len(data') /\ input' \in Seq(Sym)
         /\ Len(input') = Len(input) - k
<1> DEFINE rest == After(data, next)
           got == First(input, k)
<1>1. rest \in Seq(Sym) /\ data \in Seq(Sym) /\ input \in Seq(Sym) /\ Len(data) \in Nat /\ next \in 0 .. Len(data)
  BY Parts DEF TypeInv
<1>2. /\ got \in Seq(Sym) /\ input' \in Seq(Sym) /\ got \o input' = input /\ Len(input') = Len(input) - k
  BY <1>1, Cut
<1>3. data' = data \o got
  OBVIOUS
<1> HIDE DEF got
<1>4. /\ data' \in Seq(Sym) /\ next' \in 0 .. Len(data') /\ After(data', next') = rest \o got
  <2>1. data \o got \in Seq(Sym)
    BY <1>1, <1>2, ConcatProperties
  <2>2. next \in 0 .. Len(data \o got) /\ After(data \o got, next) = After(data, next) \o got
    BY <1>1, <1>2, CutConcat
  <2> QED BY <1>3, <2>1, <2>2
<1> HIDE DEF rest
<1>5. rest \o got \in Seq(Sym) /\ <<>> \o (rest \o got) = rest \o got
  <2>1. rest \o got \in Seq(Sym)
    BY <1>1, <1>2, ConcatProperties
  <2> DEFINE both == rest \o got
  <2> HIDE DEF both
  <2>2. both \in Seq(Sym) => <<>> \o both = both
    BY ConcatEmptySeq
  <2> QED BY <2>1, <2>2 DEF both
<1>6. Rest' = (<<>> \o (rest \o got)) \o input'
  <2>1. (IF stacked THEN pushed ELSE <<>>)' = <<>>
    <3>1. stacked' => pushed' = <<>>
      BY DEF TypeInv
    <3> QED BY <3>1
  <2>2. (IF pkrd THEN <<>> ELSE After(data, next))' = rest \o got
    BY <1>4
  <2> QED BY <2>1, <2>2 DEF Rest
<1>7. (rest \o got) \o input' = rest \o (got \o input')
  <2>1. rest \in Seq(Sym) /\ got \in Seq(Sym) /\ input' \in Seq(Sym)
    BY <1>1, <1>2
  <2> QED BY <2>1, ConcatAssociative
<1>8. Rest = (<<>> \o rest) \o input
  BY DEF Rest, rest
<1>9. <<>> \o rest = rest
  BY <1>1, ConcatEmptySeq
<1> QED BY <1>2, <1>4, <1>5, <1>6, <1>7, <1>8, <1>9

\* What a read can give is there.
LEMMA CountsThere ==
  ASSUME TypeInv, NEW n \in Int, NEW k \in Counts(n)
  PROVE  k \in 0 .. Len(input) /\ (n > 0 /\ input # <<>> => k \in 1 .. n)
<1>1. Len(input) \in Nat /\ (input # <<>> => Len(input) > 0)
  BY EmptySeq, Parts DEF TypeInv
<1>2. CASE n = 0 \/ input = <<>>
  BY <1>1, <1>2 DEF Counts
<1>3. CASE ~(n = 0 \/ input = <<>>)
  BY <1>1, <1>3 DEF Counts, Least
<1> QED BY <1>2, <1>3

\* A set of numbers has a least one: the intervals below its members are
\* finite sets, which strict inclusion orders well.
LEMMA LeastNumber ==
  ASSUME NEW N, N \subseteq Nat, N # {}
  PROVE  \E s \in N : \A r \in N : s <= r
<1> DEFINE Intervals == {1 .. s : s \in N}
<1>1. IsWellFoundedOn(StrictSubsetOrdering(Nat), FiniteSubsetsOf(Nat))
  BY FS_StrictSubsetOrderingWellFounded
<1>2. Intervals \subseteq FiniteSubsetsOf(Nat)
  <2>1. \A s \in N : IsFiniteSet(1 .. s) /\ 1 .. s \subseteq Nat
    BY FS_Interval
  <2> QED BY <2>1 DEF FiniteSubsetsOf
<1>3. Intervals # {}
  OBVIOUS
<1>4. PICK b \in Intervals : \A c \in Intervals : ~ (<<c, b>> \in StrictSubsetOrdering(Nat))
  <2> HIDE DEF Intervals
  <2> QED BY <1>1, <1>2, <1>3, WFMin
<1>5. PICK s \in N : b = 1 .. s
  OBVIOUS
<1>6. ASSUME NEW r \in N, r < s PROVE FALSE
  <2>1. 1 .. r \subseteq 1 .. s /\ s \in 1 .. s /\ s \notin 1 .. r
    BY <1>6
  <2>2. 1 .. r \in SUBSET Nat /\ 1 .. s \in SUBSET Nat /\ 1 .. r # 1 .. s
    BY <2>1
  <2>3. <<1 .. r, 1 .. s>> \in StrictSubsetOrdering(Nat)
    BY <2>1, <2>2, Zenon DEF StrictSubsetOrdering
  <2> QED BY <1>4, <1>5, <2>3
<1>7. \A r \in N : r \in Nat /\ s \in Nat /\ ~(r < s)
  BY <1>6
<1> QED BY <1>7

\* The end of a record, or of what is available.
LEMMA RecordEndThere ==
  ASSUME TypeInv, Available # <<>>
  PROVE  /\ RecordEnd \in 1 .. Len(Available)
         /\ \A i \in 1 .. RecordEnd - 1 : Available[i] # Sep
         /\ RecordEnd # Len(Available) => Available[RecordEnd] = Sep
<1> DEFINE ends == {i \in 1 .. Len(Available) : Available[i] = Sep}
<1>1. Len(Available) \in Nat /\ Len(Available) > 0
  BY Parts, EmptySeq
<1>2. CASE ends = {}
  <2>1. RecordEnd = Len(Available)
    BY <1>2 DEF RecordEnd
  <2> QED BY <1>1, <1>2, <2>1
<1>3. CASE ends # {}
  <2>1. \E i \in ends : \A j \in ends : i <= j
    <3>1. ends \subseteq Nat
      BY <1>1
    <3> HIDE DEF ends
    <3> QED BY <1>3, <3>1, LeastNumber
  <2>2. RecordEnd = CHOOSE i \in ends : \A j \in ends : i <= j
    BY <1>3 DEF RecordEnd
  <2>3. RecordEnd \in ends /\ \A j \in ends : RecordEnd <= j
    BY <2>1, <2>2
  <2>4. \A i \in 1 .. RecordEnd - 1 : Available[i] # Sep
    BY <1>1, <2>3
  <2> QED BY <1>1, <2>3, <2>4
<1> QED BY <1>2, <1>3

----------------------------------------------------------------------------
(* Each step keeps the invariant, and is a step of the reader or none.     *)

ReaderStep == [Reader!Next]_(Reader!vars)

\* A step that changes nothing the reader has.
LEMMA Stutters ==
  ASSUME Rest' = Rest, UNCHANGED <<op, how, want, part, broken, lent, out, ok>>
  PROVE  ReaderStep
BY DEF ReaderStep, Reader!vars

\* Nothing is peeked while a call other than sfreserve or a release goes on.
LEMMA NotPeeked ==
  ASSUME RecordInv, op # "reserve" \/ ~Reserving \/ ~Enough, lent # "block"
  PROVE  ~pkrd
<1> SUFFICES ASSUME pkrd PROVE FALSE
  OBVIOUS
<1>1. /\ op = "reserve" /\ ~side /\ how = "lock" /\ lent = "none" /\ ~undo
      /\ Len(data) >= Abs(want) /\ Len(data) \in 1 .. Len(input)
  BY DEF RecordInv, PeekInv
<1>2. Available = data
  BY RestPeeked DEF RecordInv
<1>3. Reserving
  BY <1>1 DEF Reserving, Ready
<1>4. Enough
  BY <1>1, <1>2, Parts DEF Enough, Have, RecordInv
<1> QED BY <1>1, <1>3, <1>4

\* A call that returns.
LEMMA Returned ==
  ASSUME NEW o \in Seq(Sym), NEW success \in BOOLEAN, Return(o, success)
  PROVE  /\ op' = "none" /\ how' = "plain" /\ want' = 0 /\ part' = <<>> /\ now' = -1 /\ side' = FALSE
         /\ out' = o /\ ok' = success /\ part' \in Seq(Sym)
         /\ side' \in BOOLEAN /\ ok' \in BOOLEAN
         /\ PartInv' /\ ArgumentInv'
         /\ Reader!Return(o, success)
<1>1. /\ op' = "none" /\ how' = "plain" /\ want' = 0 /\ part' = <<>> /\ now' = -1 /\ side' = FALSE
      /\ out' = o /\ ok' = success
  BY DEF Return
<1>2. part' \in Seq(Sym) /\ side' \in BOOLEAN /\ ok' \in BOOLEAN
  BY <1>1, EmptySeq
<1>3. PartInv'
  BY <1>1 DEF PartInv
<1>4. ArgumentInv'
  BY <1>1 DEF ArgumentInv
<1>5. Reader!Return(o, success)
  BY <1>1 DEF Reader!Return
<1> QED BY <1>1, <1>2, <1>3, <1>4, <1>5

\* A call starts.
LEMMA CallStep ==
  ASSUME RecordInv, Call
  PROVE  RecordInv' /\ ReaderStep
<1>1. /\ op = "none" /\ part' = <<>> /\ now' = -1 /\ side' = FALSE /\ ok' = TRUE
      /\ out' = IF lent = "none" THEN <<>> ELSE out
      /\ UNCHANGED <<kind, input, data, next, stacked, pushed, undo, lent, pkrd, broken>>
  BY DEF Call, Arguments, kernel, buffer, lending
<1>2. /\ op' \in {"getr", "reserve", "read", "release", "unget", "last", "lastblock"}
      /\ how' \in {"plain", "string", "lock"} /\ want' \in Int
  <2>1. Blocks \subseteq Int /\ BufSize \in Int /\ Byte \subseteq Int /\ Len(out) \in Nat
    BY SizesAssumption, BytesAssumption, Parts DEF RecordInv
  <2> QED BY <2>1 DEF Call, Arguments
<1>3. Available' = Available /\ Rest' = Rest
  BY <1>1 DEF Available, Rest
<1>4. <<>> \in Seq(Sym) /\ Len(<<>>) = 0
  BY EmptySeq
<1>5. TypeInv'
  <2>1. side' \in BOOLEAN /\ ok' \in BOOLEAN
    BY <1>1
  <2>3. now' \in Int
    BY <1>1
  <2>2. out' \in Seq(Sym) /\ part' \in Seq(Sym)
    BY <1>1, <1>4 DEF RecordInv, TypeInv
  <2> QED BY <1>1, <1>2, <2>1, <2>2, <2>3 DEF RecordInv, TypeInv
<1>6. PartInv'
  <2>1. Reader!Unbroken(<<>>)
    BY <1>4 DEF Reader!Unbroken
  <2>2. \A n \in Int : Len(<<>>) <= Abs(n)
    BY <1>4 DEF Abs
  <2> QED BY <1>1, <1>2, <2>1, <2>2 DEF PartInv
<1>7. ArgumentInv'
  <2>1. op' = "read" => want' >= 0
    BY SizesAssumption DEF Call, Arguments
  <2>2. op' = "unget" => want' \in Byte
    BY DEF Call, Arguments
  <2>3. op' = "release" => lent' # "none" /\ want' \in 0 .. Len(out') /\ (lent' = "record" => want' = 0)
    BY <1>1 DEF Call, Arguments
  <2>4. op' \in {"last", "lastblock"} => lent' = "none"
    BY <1>1 DEF Call, Arguments
  <2> QED BY <1>1, <2>1, <2>2, <2>3, <2>4 DEF ArgumentInv
<1>8. BufferInv'
  BY <1>1, <1>3 DEF RecordInv, BufferInv
<1>9. PeekInv'
  BY <1>1 DEF RecordInv, PeekInv
<1>10. ReaderStep
  <2>1. Reader!Call
    <3>1. out' = (IF lent # "none" THEN out ELSE <<>>) /\ (lent # "none")' = (lent # "none")
      BY <1>1
    <3>2. part' = part
      BY <1>1 DEF RecordInv, PartInv
    <3> QED BY <1>1, <1>2, <1>3, <3>1, <3>2 DEF Reader!Call
  <2> QED BY <2>1 DEF ReaderStep, Reader!Next
<1> QED BY <1>5, <1>6, <1>7, <1>8, <1>9, <1>10 DEF RecordInv

\* The file grows.
LEMMA GrowStep ==
  ASSUME RecordInv, Grow
  PROVE  RecordInv' /\ ReaderStep
<1>1. /\ kind = "file"
      /\ UNCHANGED <<kind, data, next, stacked, pushed, undo, lent, pkrd, broken, op, how, want, part, now, side, out, ok>>
  BY DEF Grow, buffer, lending, call
<1>2. PICK c \in Byte : input' = input \o <<c>>
  BY DEF Grow
<1>3. ~pkrd /\ ~pkrd'
  BY <1>1 DEF RecordInv, PeekInv
<1>4. <<c>> \in Seq(Sym) /\ input' \in Seq(Sym)
  <2>1. <<c>> \in Seq(Sym)
    BY DEF Sym
  <2> QED BY <1>2, <2>1, ConcatProperties DEF RecordInv, TypeInv
<1>5. Available' = Available
  BY <1>1 DEF Available
<1>6. TypeInv'
  BY <1>1, <1>4 DEF RecordInv, TypeInv
<1>7. PartInv' /\ ArgumentInv' /\ BufferInv' /\ PeekInv'
  BY <1>1, <1>3, <1>5 DEF RecordInv, PartInv, ArgumentInv, BufferInv, PeekInv
<1>8. Rest' = Rest \o <<c>>
  <2> DEFINE top == (IF stacked THEN pushed ELSE <<>>) \o After(data, next)
  <2>1. top \in Seq(Sym)
    <3>1. (IF stacked THEN pushed ELSE <<>>) \in Seq(Sym) /\ After(data, next) \in Seq(Sym)
      BY Parts DEF RecordInv, TypeInv
    <3> QED BY <3>1, ConcatProperties
  <2>2. Rest = top \o input /\ Rest' = top \o (input \o <<c>>)
    BY <1>1, <1>2, <1>3 DEF Rest
  <2> HIDE DEF top
  <2>3. input \in Seq(Sym)
    BY DEF RecordInv, TypeInv
  <2> QED BY <1>4, <2>1, <2>2, <2>3, ConcatAssociative
<1>9. ReaderStep
  <2>1. Reader!Grow
    BY <1>1, <1>8 DEF Reader!Grow
  <2> QED BY <2>1 DEF ReaderStep, Reader!Next
<1> QED BY <1>6, <1>7, <1>9 DEF RecordInv

\* A call is refused.
LEMMA RefusedStep ==
  ASSUME RecordInv, Refused
  PROVE  RecordInv' /\ ReaderStep
<1>1. /\ lent # "none" /\ op # "none" /\ op # "release" /\ Return(out, FALSE)
      /\ UNCHANGED <<kind, input, data, next, stacked, pushed, undo, lent, pkrd, broken>>
  BY DEF Refused, kernel, buffer, lending
<1>2. out \in Seq(Sym)
  BY DEF RecordInv, TypeInv
<1>3. /\ op' = "none" /\ how' = "plain" /\ want' = 0 /\ now' = -1 /\ side' = FALSE
      /\ out' = out /\ ok' = FALSE /\ part' \in Seq(Sym) /\ side' \in BOOLEAN /\ ok' \in BOOLEAN /\ PartInv' /\ ArgumentInv' /\ Reader!Return(out, FALSE)
  BY <1>1, <1>2, Returned
<1>4. Available' = Available /\ Rest' = Rest
  BY <1>1 DEF Available, Rest
<1>5. TypeInv'
  BY <1>1, <1>3 DEF RecordInv, TypeInv
<1>6. BufferInv' /\ PeekInv'
  BY <1>1, <1>3, <1>4 DEF RecordInv, BufferInv, PeekInv, TypeInv
<1>7. Reader!Refuse
  BY <1>1, <1>3, <1>4 DEF Reader!Refuse
<1> QED BY <1>3, <1>5, <1>6, <1>7 DEF RecordInv, ReaderStep, Reader!Next

\* The separator is put back.
LEMMA PutBackStep ==
  ASSUME RecordInv, PutBack
  PROVE  RecordInv' /\ ReaderStep
<1>1. /\ undo /\ lent = "none" /\ undo' = FALSE /\ data' = [data EXCEPT ![next] = Sep]
      /\ UNCHANGED <<kind, input, next, stacked, pushed, lent, pkrd, broken, op, how, want, part, now, side, out, ok>>
  BY DEF PutBack, kernel, lending, call
<1>2. ~pkrd
  BY <1>1 DEF RecordInv, PeekInv
<1>3. Sep \in Sym
  BY BytesAssumption DEF Sym
<1>4. data' \in Seq(Sym) /\ Len(data') = Len(data) /\ After(data', next) = After(data, next)
  BY <1>1, <1>3, AfterWrite DEF RecordInv, TypeInv
<1>5. Available' = Available /\ Rest' = Rest
  BY <1>1, <1>2, <1>4 DEF Available, Rest
<1>6. TypeInv'
  BY <1>1, <1>4 DEF RecordInv, TypeInv
<1>7. PartInv' /\ ArgumentInv' /\ BufferInv' /\ PeekInv'
  BY <1>1, <1>2, <1>5 DEF RecordInv, PartInv, ArgumentInv, BufferInv, PeekInv
<1> QED BY <1>1, <1>5, <1>6, <1>7, Stutters DEF RecordInv

\* The stream of pushed back bytes is popped.
LEMMA PopStep ==
  ASSUME RecordInv, Pop
  PROVE  RecordInv' /\ ReaderStep
<1>1. /\ stacked /\ pushed = <<>> /\ ~stacked' /\ stacked' \in BOOLEAN /\ lent = "none"
      /\ op # "reserve" \/ side
      /\ UNCHANGED <<kind, input, data, next, pushed, undo, lent, pkrd, broken, op, how, want, part, now, side, out, ok>>
  BY DEF Pop, kernel, lending, call, Getting, Ready
<1>2. Rest' = Rest
  BY <1>1 DEF Rest
<1>3. TypeInv'
  BY <1>1 DEF RecordInv, TypeInv
<1>4. PartInv' /\ ArgumentInv' /\ BufferInv'
  BY <1>1 DEF RecordInv, PartInv, ArgumentInv, BufferInv
<1>5. PeekInv'
  BY <1>1 DEF RecordInv, PeekInv
<1> QED BY <1>1, <1>2, <1>3, <1>4, <1>5, Stutters DEF RecordInv

----------------------------------------------------------------------------
(* sfgetr.                                                                 *)

\* The parts of the stream in a state of the invariant, and the numbers.
LEMMA Numbers ==
  ASSUME RecordInv
  PROVE  /\ BufSize \in Nat /\ BufSize > 0 /\ Len(part) \in Nat /\ Abs(want) \in Nat /\ Need \in Int
         /\ Have \in Nat /\ Asked \in Int /\ Room \in Int /\ Limit \in Int
         /\ Len(Kept) \in Nat
<1>1. BufSize \in Nat /\ BufSize > 0 /\ want \in Int
  BY SizesAssumption DEF RecordInv, TypeInv
<1>2. Len(part) \in Nat /\ Have \in Nat /\ Len(data) \in Nat /\ Len(After(data, next)) \in Nat
  BY Parts DEF Have, RecordInv, TypeInv
<1>3. Abs(want) \in Nat
  BY <1>1 DEF Abs
<1>4. Need \in Int
  BY <1>2, <1>3 DEF Need
<1>5. Asked \in Int
  BY <1>1, <1>2, <1>3 DEF Asked
<1>6. Len(Kept) \in Nat
  BY <1>2 DEF Kept
<1>7. Room \in Int
  <2>1. Len(<<>>) = 0
    BY Parts DEF RecordInv
  <2> QED BY <1>1, <1>6, <2>1 DEF Room
<1>8. Limit \in Int
  BY <1>5, <1>7 DEF Limit, Least
<1> QED BY <1>1, <1>2, <1>3, <1>4, <1>5, <1>6, <1>7, <1>8

\* The buffer is empty.
LEMMA Emptied ==
  ASSUME RecordInv, Empty, ~pkrd
  PROVE  /\ ~stacked /\ pushed = <<>> /\ After(data, next) = <<>> /\ Available = <<>> /\ Rest = input
<1>1. ~stacked /\ Available = <<>> /\ After(data, next) = <<>>
  BY DEF Empty, Available
<1>2. Rest = <<>> \o input
  BY <1>1, RestTop DEF Below, RecordInv
<1>3. <<>> \o input = input
  BY ConcatEmptySeq DEF RecordInv, TypeInv
<1> QED BY <1>1, <1>2, <1>3 DEF RecordInv, BufferInv

\* The buffer is filled, in a call that is not a reservation.
LEMMA Filled ==
  ASSUME RecordInv, Empty, ~pkrd, NEW n \in Int, NEW k \in Counts(n), Fill(<<>>, k),
         UNCHANGED <<kind, stacked, pushed, undo, lent, pkrd, broken, op, how, want, part, now, side, out, ok>>,
         lent = "none"
  PROVE  RecordInv' /\ ReaderStep
<1>1. stacked = FALSE /\ pushed = <<>> /\ After(data, next) = <<>>
  BY Emptied DEF RecordInv, TypeInv
<1>2. k \in 0 .. Len(input)
  BY CountsThere DEF RecordInv
<1>3. /\ Rest' = Rest /\ data' \in Seq(Sym) /\ next' = 0 /\ input' \in Seq(Sym)
  BY <1>1, <1>2, FillRest DEF RecordInv
<1>4. Len(data') \in Nat
  BY <1>3, LenProperties
<1>5. TypeInv'
  BY <1>3, <1>4 DEF RecordInv, TypeInv
<1>6. PartInv' /\ ArgumentInv' /\ BufferInv' /\ PeekInv'
  BY <1>1 DEF RecordInv, PartInv, ArgumentInv, BufferInv, PeekInv
<1> QED BY <1>3, <1>5, <1>6, Stutters DEF RecordInv

LEMMA GetrFillStep ==
  ASSUME RecordInv, GetrFill
  PROVE  RecordInv' /\ ReaderStep
<1>1. /\ Empty /\ lent = "none" /\ op = "getr"
      /\ UNCHANGED <<kind, stacked, pushed, undo, lent, pkrd, broken, op, how, want, part, now, side, out, ok>>
  BY DEF GetrFill, Getting, Ready, lending, call
<1>2. PICK k \in (IF kind = "pipe" THEN UpToSep(BufSize) ELSE Counts(BufSize)) : Fill(<<>>, k)
  BY DEF GetrFill
<1>3. k \in Counts(BufSize) /\ BufSize \in Int
  BY Numbers DEF UpToSep
<1>4. ~pkrd
  BY <1>1, NotPeeked
<1> QED BY <1>1, <1>2, <1>3, <1>4, Filled

\* Up to the separator is taken.
LEMMA GetrTakeStep ==
  ASSUME RecordInv, GetrTake
  PROVE  RecordInv' /\ ReaderStep
<1> DEFINE e == RecordEnd
           got == First(Available, e)
<1>1. /\ lent = "none" /\ op = "getr" /\ ~Complete(part) /\ Available # <<>>
      /\ part' = (IF InBuffer THEN <<>> ELSE part) \o got
      /\ broken' = (IF InBuffer THEN broken ELSE <<>>) /\ Pass(e)
      /\ UNCHANGED <<kind, input, data, stacked, undo, lent, pkrd, op, how, want, now, out, ok>>
  BY DEF GetrTake, Getting, Ready, lending, kernel
<1>2. ~pkrd
  BY <1>1, NotPeeked
<1>3. /\ e \in 1 .. Len(Available) /\ \A i \in 1 .. e - 1 : Available[i] # Sep
      /\ e # Len(Available) => Available[e] = Sep
  BY <1>1, RecordEndThere DEF RecordInv
<1>4. Available \in Seq(Sym) /\ Len(Available) \in Nat
  BY Parts DEF RecordInv
<1>5. /\ got \in Seq(Sym) /\ Len(got) = e /\ \A i \in 1 .. e : got[i] = Available[i]
  BY <1>3, <1>4, Cut
<1>6. /\ e \in 0 .. Len(Rest) /\ First(Rest, e) = got /\ Rest' = After(Rest, e)
      /\ next' \in 0 .. Len(data) /\ pushed' \in Seq(Sym) /\ (pushed = <<>> => (~stacked => pushed' = <<>>))
  <2>1. e \in 0 .. Len(Available)
    BY <1>3
  <2> QED BY <1>1, <1>2, <2>1, PassRest DEF RecordInv
<1>7. part' = part \o got
  <2>1. InBuffer => part = <<>>
    BY DEF InBuffer
  <2> QED BY <1>1, <2>1
<1>8. part \in Seq(Sym) /\ Reader!Unbroken(part)
  <2>1. Reader!IsRecord(part) => Complete(part)
    BY DEF Reader!IsRecord, Complete
  <2> QED BY <1>1, <2>1 DEF RecordInv, PartInv, TypeInv
<1> HIDE DEF e, got
<1>9. /\ part' \in Seq(Sym) /\ Len(part') = Len(part) + e /\ Len(part) \in Nat
      /\ \A i \in 1 .. Len(part) + e : part'[i] = IF i <= Len(part) THEN part[i] ELSE got[i - Len(part)]
  <2>1. /\ part \o got \in Seq(Sym) /\ Len(part \o got) = Len(part) + Len(got)
        /\ \A i \in 1 .. Len(part) + Len(got) :
             (part \o got)[i] = IF i <= Len(part) THEN part[i] ELSE got[i - Len(part)]
    BY <1>5, <1>8, ConcatProperties
  <2>2. Len(part) \in Nat
    BY <1>8, LenProperties
  <2> QED BY <1>5, <1>7, <2>1, <2>2
<1>10. \A i \in 1 .. Len(part') - 1 : part'[i] # Sep
  <2> SUFFICES ASSUME NEW i \in 1 .. Len(part') - 1 PROVE part'[i] # Sep
    OBVIOUS
  <2>1. CASE i <= Len(part)
    BY <1>3, <1>4, <1>8, <1>9, <2>1 DEF Reader!Unbroken
  <2>2. CASE ~(i <= Len(part))
    <3>1. i - Len(part) \in 1 .. e - 1
      BY <1>3, <1>4, <1>9, <2>2
    <3> QED BY <1>3, <1>4, <1>5, <1>9, <2>2, <3>1
  <2> QED BY <2>1, <2>2
<1>11. Reader!IsRecord(part') \/ Reader!Unbroken(part')
  <2>1. part' # <<>> /\ Len(part') \in Nat /\ Len(part') > 0
    BY <1>3, <1>4, <1>9, EmptySeq
  <2>2. CASE part'[Len(part')] = Sep
    BY <1>10, <2>1, <2>2 DEF Reader!IsRecord
  <2>3. CASE part'[Len(part')] # Sep
    <3>1. \A i \in 1 .. Len(part') : part'[i] # Sep
      BY <1>10, <2>1, <2>3
    <3> QED BY <3>1 DEF Reader!Unbroken
  <2> QED BY <2>2, <2>3
<1>12. /\ side' \in BOOLEAN /\ broken' \in Seq(Sym)
  BY <1>1, Parts DEF GetrTake, RecordInv, TypeInv
<1>13. TypeInv'
  BY <1>1, <1>6, <1>9, <1>12 DEF RecordInv, TypeInv
<1>14. PartInv' /\ ArgumentInv'
  BY <1>1, <1>11 DEF PartInv, ArgumentInv
<1>15. BufferInv' /\ PeekInv'
  BY <1>1, <1>2, <1>6 DEF RecordInv, BufferInv, PeekInv
<1>16. Reader!Take(e)
  <2>1. e <= Len(Rest)
    BY <1>6
  <2>2. part' = part \o Reader!First(Rest, e) /\ Rest' = Reader!After(Rest, e)
    BY <1>6, <1>7 DEF Reader!First, Reader!After, First, After
  <2>3. Reader!Forget
    BY <1>1 DEF Reader!Forget
  <2> QED BY <1>1, <1>11, <2>1, <2>2, <2>3 DEF Reader!Take
<1>17. ReaderStep
  <2>1. e \in 1 .. Len(Rest)
    BY <1>3, <1>4, <1>6
  <2> QED BY <1>16, <2>1 DEF ReaderStep, Reader!Next
<1> QED BY <1>13, <1>14, <1>15, <1>17 DEF RecordInv

\* A record is handed out.
LEMMA GetrDoneStep ==
  ASSUME RecordInv, GetrDone
  PROVE  RecordInv' /\ ReaderStep
<1> DEFINE o == IF how = "string" THEN [part EXCEPT ![Len(part)] = Nul] ELSE part
<1>1. /\ lent = "none" /\ op = "getr" /\ Complete(part) /\ Return(o, TRUE)
      /\ undo' = (how = "string" /\ ~side) /\ lent' = (IF how = "lock" THEN "record" ELSE "none")
      /\ data' = (IF how = "string" /\ ~side THEN [data EXCEPT ![next] = Nul] ELSE data)
      /\ UNCHANGED <<kind, input, next, stacked, pushed, pkrd, broken>>
  BY DEF GetrDone, Ready, kernel
<1>2. ~pkrd
  BY <1>1, NotPeeked
<1>3. part \in Seq(Sym) /\ data \in Seq(Sym) /\ Nul \in Sym /\ next \in 0 .. Len(data) /\ Len(part) \in Nat
  BY Parts DEF RecordInv, TypeInv, Sym
<1>4. Reader!IsRecord(part)
  <2>1. part # <<>> /\ part[Len(part)] = Sep
    BY <1>1 DEF Complete
  <2>2. Len(part) \in 1 .. Len(part)
    BY <1>3, <2>1, EmptySeq
  <2> QED BY <1>1, <2>1, <2>2 DEF RecordInv, PartInv, Reader!Unbroken
<1>5. o \in Seq(Sym) /\ o = IF how = "string" THEN Reader!AsString(part) ELSE part
  <2>1. [part EXCEPT ![Len(part)] = Nul] \in Seq(Sym)
    <3>1. Len(part) \in 0 .. Len(part)
      BY <1>3
    <3> QED BY <1>3, <3>1, AfterWrite
  <2> QED BY <1>3, <2>1 DEF Reader!AsString
<1>6. data' \in Seq(Sym) /\ Len(data') = Len(data) /\ After(data', next) = After(data, next)
  BY <1>1, <1>3, AfterWrite
<1> HIDE DEF o
<1>7. /\ op' = "none" /\ how' = "plain" /\ want' = 0 /\ now' = -1 /\ side' = FALSE
      /\ out' = o /\ ok' = TRUE /\ part' \in Seq(Sym) /\ side' \in BOOLEAN /\ ok' \in BOOLEAN
      /\ PartInv' /\ ArgumentInv' /\ Reader!Return(o, TRUE)
  BY <1>1, <1>5, Returned
<1>8. Rest' = Rest
  BY <1>1, <1>2, <1>6 DEF Rest
<1>9. TypeInv'
  <2>1. undo' \in BOOLEAN /\ lent' \in {"none", "record", "block"}
    BY <1>1
  <2> QED BY <1>1, <1>5, <1>6, <1>7, <2>1 DEF RecordInv, TypeInv
<1>10. BufferInv' /\ PeekInv'
  BY <1>1, <1>2 DEF RecordInv, BufferInv, PeekInv
<1>11. Reader!ReturnRecord
  <2>1. (lent # "none")' = (how = "lock")
    BY <1>1
  <2> QED BY <1>1, <1>4, <1>5, <1>7, <1>8, <2>1 DEF Reader!ReturnRecord
<1> QED BY <1>7, <1>9, <1>10, <1>11 DEF RecordInv, ReaderStep, Reader!Next

\* There is no record.
LEMMA GetrFailStep ==
  ASSUME RecordInv, GetrFail
  PROVE  RecordInv' /\ ReaderStep
<1>1. /\ lent = "none" /\ op = "getr" /\ ~Complete(part) /\ Empty /\ input = <<>> /\ Return(<<>>, FALSE)
      /\ broken' = (IF part = <<>> THEN broken ELSE part) /\ data' = <<>> /\ next' = 0
      /\ UNCHANGED <<kind, input, stacked, pushed, undo, lent, pkrd>>
  BY DEF GetrFail, Getting, Ready, kernel, lending
<1>2. ~pkrd
  BY <1>1, NotPeeked
<1>3. <<>> \in Seq(Sym) /\ Len(<<>>) = 0 /\ broken' \in Seq(Sym) /\ After(<<>>, 0) = <<>>
  BY <1>1, EmptySeq, CutEnds DEF RecordInv, TypeInv
<1>4. /\ op' = "none" /\ how' = "plain" /\ want' = 0 /\ now' = -1 /\ side' = FALSE
      /\ out' = <<>> /\ ok' = FALSE /\ part' \in Seq(Sym) /\ side' \in BOOLEAN /\ ok' \in BOOLEAN
      /\ PartInv' /\ ArgumentInv' /\ Reader!Return(<<>>, FALSE)
  BY <1>1, <1>3, Returned
<1>5. Rest = <<>> /\ Rest' = <<>>
  <2>1. Rest = input /\ ~stacked
    BY <1>1, <1>2, Emptied
  <2>2. Rest' = (<<>> \o <<>>) \o <<>>
    BY <1>1, <1>2, <1>3, <2>1 DEF Rest
  <2>3. <<>> \o <<>> = <<>>
    BY <1>3, ConcatEmptySeq
  <2> QED BY <1>1, <2>1, <2>2, <2>3
<1>6. TypeInv'
  BY <1>1, <1>3, <1>4 DEF RecordInv, TypeInv
<1>7. BufferInv' /\ PeekInv'
  BY <1>1, <1>2 DEF RecordInv, BufferInv, PeekInv
<1>8. Reader!Unbroken(part)
  <2>1. Reader!IsRecord(part) => Complete(part)
    BY DEF Reader!IsRecord, Complete
  <2> QED BY <1>1, <2>1 DEF RecordInv, PartInv
<1>9. Reader!ReturnBroken
  BY <1>1, <1>4, <1>5, <1>8 DEF Reader!ReturnBroken
<1> QED BY <1>4, <1>6, <1>7, <1>9 DEF RecordInv, ReaderStep, Reader!Next

\* What was gathered is asked for.
LEMMA GetrLastStep ==
  ASSUME RecordInv, GetrLast
  PROVE  RecordInv' /\ ReaderStep
<1>1. /\ op = "last" /\ lent = "none" /\ Return(broken, broken # <<>>) /\ broken' = <<>>
      /\ UNCHANGED <<kind, input, data, next, stacked, pushed, undo, lent, pkrd>>
  BY DEF GetrLast, Ready, kernel, buffer, lending
<1>2. ~pkrd
  BY <1>1, NotPeeked
<1>3. broken \in Seq(Sym) /\ (broken # <<>>) \in BOOLEAN /\ broken' \in Seq(Sym)
  BY <1>1, EmptySeq DEF RecordInv, TypeInv
<1>4. /\ op' = "none" /\ how' = "plain" /\ want' = 0 /\ now' = -1 /\ side' = FALSE
      /\ out' = broken /\ part' \in Seq(Sym) /\ side' \in BOOLEAN /\ ok' \in BOOLEAN
      /\ PartInv' /\ ArgumentInv' /\ Reader!Return(broken, broken # <<>>)
  BY <1>1, <1>3, Returned
<1>5. Rest' = Rest
  BY <1>1 DEF Rest
<1>6. TypeInv'
  BY <1>1, <1>3, <1>4 DEF RecordInv, TypeInv
<1>7. BufferInv' /\ PeekInv'
  BY <1>1, <1>2 DEF RecordInv, BufferInv, PeekInv
<1>8. Reader!ReturnLast
  BY <1>1, <1>4, <1>5 DEF Reader!ReturnLast
<1> QED BY <1>4, <1>6, <1>7, <1>8 DEF RecordInv, ReaderStep, Reader!Next

----------------------------------------------------------------------------
(* sfread.                                                                 *)

\* k bytes to come are taken by a read, or a reservation that reads.
LEMMA Reads ==
  ASSUME RecordInv, Reading, NEW k \in 1 .. Len(Rest), k <= Need,
         part' = part \o First(Rest, k), Rest' = After(Rest, k),
         UNCHANGED <<lent, broken, op, how, want, now, side, out, ok>>
  PROVE  part' \in Seq(Sym) /\ PartInv' /\ ArgumentInv' /\ ReaderStep
<1>1. op \in {"read", "reserve"} /\ (op = "reserve" => side) /\ lent = "none"
  BY DEF Reading, Ready
<1>2. Rest \in Seq(Sym) /\ part \in Seq(Sym) /\ Len(part) \in Nat /\ Abs(want) \in Nat
  BY RestFirst, Numbers DEF RecordInv, TypeInv
<1>3. Len(Rest) \in Nat
  BY <1>2, LenProperties
<1>4. First(Rest, k) \in Seq(Sym) /\ Len(First(Rest, k)) = k
  <2>1. k \in 0 .. Len(Rest)
    BY <1>3
  <2> QED BY <1>2, <2>1, Cut
<1>5. part' \in Seq(Sym) /\ Len(part') = Len(part) + k
  BY <1>2, <1>4, ConcatProperties
<1>6. Len(part') <= Abs(want) /\ Abs(want') = Abs(want)
  BY <1>2, <1>3, <1>5 DEF Need
<1>7. PartInv' /\ ArgumentInv'
  BY <1>1, <1>6 DEF RecordInv, PartInv, ArgumentInv
<1>8. Reader!Take(k)
  <2>1. Len(part') <= Reader!Abs(want)
    BY <1>6 DEF Reader!Abs, Abs
  <2>2. part' = part \o Reader!First(Rest, k) /\ Rest' = Reader!After(Rest, k)
    BY DEF Reader!First, Reader!After, First, After
  <2>3. Reader!Forget
    BY DEF Reader!Forget
  <2> QED BY <1>1, <2>1, <2>2, <2>3 DEF Reader!Take
<1> QED BY <1>5, <1>7, <1>8 DEF ReaderStep, Reader!Next

\* Bytes of the buffer are copied.
LEMMA ReadCopyStep ==
  ASSUME RecordInv, ReadCopy
  PROVE  RecordInv' /\ ReaderStep
<1> DEFINE k == Least(Need, Len(Available))
<1>1. /\ Reading /\ Need > 0 /\ Available # <<>> /\ part' = part \o First(Available, k) /\ Pass(k)
      /\ UNCHANGED <<kind, input, data, stacked, undo, lent, pkrd, broken, op, how, want, now, side, out, ok>>
  BY DEF ReadCopy, Reading, lending, kernel
<1>2. lent = "none" /\ (op = "read" \/ (op = "reserve" /\ side))
  BY <1>1 DEF Reading, Ready
<1>3. ~pkrd
  BY <1>2, NotPeeked DEF Reserving
<1>4. k \in 1 .. Len(Available) /\ k <= Need /\ Len(Available) \in Nat
  BY <1>1, Numbers, Parts, EmptySeq DEF RecordInv, Least
<1>5. /\ k \in 0 .. Len(Rest) /\ First(Rest, k) = First(Available, k) /\ Rest' = After(Rest, k)
      /\ next' \in 0 .. Len(data) /\ pushed' \in Seq(Sym) /\ (pushed = <<>> => (~stacked => pushed' = <<>>))
  <2>1. k \in 0 .. Len(Available)
    BY <1>4
  <2> HIDE DEF k
  <2> QED BY <1>1, <1>3, <2>1, PassRest DEF RecordInv
<1> HIDE DEF k
<1>6. k \in 1 .. Len(Rest)
  BY <1>4, <1>5
<1>7. part' \in Seq(Sym) /\ PartInv' /\ ArgumentInv' /\ ReaderStep
  BY <1>1, <1>4, <1>5, <1>6, Reads
<1>8. TypeInv'
  BY <1>1, <1>5, <1>7 DEF RecordInv, TypeInv
<1>9. BufferInv' /\ PeekInv'
  BY <1>1, <1>2, <1>3, <1>5 DEF RecordInv, BufferInv, PeekInv
<1> QED BY <1>7, <1>8, <1>9 DEF RecordInv

\* Bytes are read to where the application wants them.
LEMMA ReadDirectStep ==
  ASSUME RecordInv, ReadDirect
  PROVE  RecordInv' /\ ReaderStep
<1>1. /\ Reading /\ Need > 0 /\ Empty /\ input # <<>> /\ data' = <<>> /\ next' = 0
      /\ UNCHANGED <<kind, stacked, pushed, undo, lent, pkrd, broken, op, how, want, now, side, out, ok>>
  BY DEF ReadDirect, Reading, lending
<1>2. PICK k \in Counts(Need) : part' = part \o First(input, k) /\ input' = After(input, k)
  BY DEF ReadDirect
<1>3. lent = "none" /\ (op = "read" \/ (op = "reserve" /\ side))
  BY <1>1 DEF Reading, Ready
<1>4. ~pkrd
  BY <1>3, NotPeeked DEF Reserving
<1>5. ~stacked /\ Rest = input /\ input \in Seq(Sym) /\ Len(input) \in Nat
  BY <1>1, <1>4, Emptied, Parts DEF RecordInv, TypeInv
<1>6. k \in 1 .. Len(Rest) /\ k <= Need
  <2>1. k \in 0 .. Len(input) /\ k \in 1 .. Need
    BY <1>1, Numbers, CountsThere DEF RecordInv
  <2> QED BY <1>5, <2>1
<1>7. <<>> \in Seq(Sym) /\ Len(<<>>) = 0 /\ After(<<>>, 0) = <<>> /\ input' \in Seq(Sym)
  <2>1. k \in 0 .. Len(input)
    BY <1>5, <1>6
  <2> QED BY <1>2, <1>5, <2>1, Cut, EmptySeq, CutEnds
<1>8. Rest' = After(Rest, k)
  <2>1. Rest' = (<<>> \o <<>>) \o input'
    BY <1>1, <1>4, <1>5, <1>7 DEF Rest
  <2>2. <<>> \o <<>> = <<>> /\ <<>> \o input' = input'
    BY <1>7, ConcatEmptySeq
  <2> QED BY <1>2, <1>5, <2>1, <2>2
<1>9. part' \in Seq(Sym) /\ PartInv' /\ ArgumentInv' /\ ReaderStep
  BY <1>1, <1>2, <1>5, <1>6, <1>8, Reads
<1>10. TypeInv'
  BY <1>1, <1>7, <1>9 DEF RecordInv, TypeInv
<1>11. BufferInv' /\ PeekInv'
  BY <1>1, <1>3, <1>4, <1>5 DEF RecordInv, BufferInv, PeekInv
<1> QED BY <1>9, <1>10, <1>11 DEF RecordInv

LEMMA ReadFillStep ==
  ASSUME RecordInv, ReadFill
  PROVE  RecordInv' /\ ReaderStep
<1>1. /\ Reading /\ Empty
      /\ UNCHANGED <<kind, stacked, pushed, undo, lent, pkrd, broken, op, how, want, part, now, side, out, ok>>
  BY DEF ReadFill, lending, call
<1>2. PICK k \in Counts(BufSize) : Fill(<<>>, k)
  BY DEF ReadFill
<1>3. lent = "none" /\ (op = "read" \/ (op = "reserve" /\ side))
  BY <1>1 DEF Reading, Ready
<1>4. ~pkrd
  BY <1>3, NotPeeked DEF Reserving
<1>5. BufSize \in Int
  BY Numbers
<1> QED BY <1>1, <1>2, <1>3, <1>4, <1>5, Filled

\* Pushed back bytes are popped, and what is below is there or read.
LEMMA ReadPopStep ==
  ASSUME RecordInv, ReadPop
  PROVE  RecordInv' /\ ReaderStep
<1>1. /\ op = "read" /\ lent = "none" /\ stacked /\ pushed = <<>> /\ stacked' = FALSE
      /\ UNCHANGED <<kind, pushed, undo, lent, pkrd, broken, op, how, want, part, now, side, out, ok>>
  BY DEF ReadPop, Ready, lending, call
<1>2. ~pkrd
  BY <1>1, NotPeeked
<1>3. Rest' = Rest /\ data' \in Seq(Sym) /\ next' \in 0 .. Len(data') /\ input' \in Seq(Sym)
  <2>1. CASE UNCHANGED <<input, data, next>>
    BY <1>1, <2>1 DEF Rest, RecordInv, TypeInv
  <2>2. CASE After(data, next) = <<>> /\ \E k \in Counts(BufSize) : Fill(<<>>, k)
    <3>1. PICK k \in Counts(BufSize) : Fill(<<>>, k)
      BY <2>2
    <3>2. BufSize \in Int /\ k \in 0 .. Len(input)
      BY <3>1, Numbers, CountsThere DEF RecordInv
    <3>3. Rest' = Rest /\ data' \in Seq(Sym) /\ next' = 0 /\ input' \in Seq(Sym)
      BY <1>1, <1>2, <2>2, <3>1, <3>2, FillRest DEF RecordInv
    <3> QED BY <3>3, LenProperties
  <2> QED BY <2>1, <2>2 DEF ReadPop
<1>4. TypeInv'
  BY <1>1, <1>3 DEF RecordInv, TypeInv
<1>5. PartInv' /\ ArgumentInv' /\ BufferInv' /\ PeekInv'
  BY <1>1, <1>2 DEF RecordInv, PartInv, ArgumentInv, BufferInv, PeekInv
<1> QED BY <1>1, <1>3, <1>4, <1>5, Stutters DEF RecordInv

\* A fill that finds nothing pops and empties what is empty already.
LEMMA DrainedRest ==
  ASSUME RecordInv, ~pkrd, Nothing, Drained, UNCHANGED <<input, pushed, pkrd>>
  PROVE  Rest = <<>> /\ Rest' = <<>> /\ data' = <<>> /\ next' \in 0 .. Len(data') /\ pushed = <<>>
<1>1. pushed = <<>> /\ After(data, next) = <<>> /\ input = <<>>
  BY DEF Nothing, Available, RecordInv, BufferInv
<1>2. <<>> \o <<>> = <<>>
  BY Parts, ConcatEmptySeq DEF RecordInv
<1>3. Rest = (<<>> \o <<>>) \o <<>>
  BY <1>1 DEF Rest
<1>4. data' = <<>> /\ next' = 0 /\ After(<<>>, 0) = <<>> /\ Len(<<>>) = 0
  BY Parts, CutEnds DEF Drained, RecordInv
<1>5. Rest' = (<<>> \o <<>>) \o <<>>
  BY <1>1, <1>4 DEF Rest, Drained
<1> QED BY <1>1, <1>2, <1>3, <1>4, <1>5

\* A call that ends has what it asked for, or nothing is to come.
LEMMA EndedReads ==
  ASSUME RecordInv, Ended, ~pkrd
  PROVE  (Need = 0 /\ Len(part) = Abs(want)) \/ Rest = <<>>
<1>1. CASE Need = 0
  BY <1>1, Numbers DEF Need
<1>2. CASE Nothing
  <2>1. pushed = <<>> /\ After(data, next) = <<>> /\ input = <<>>
    BY <1>2 DEF Nothing, Available, RecordInv, BufferInv
  <2>2. <<>> \o <<>> = <<>>
    BY Parts, ConcatEmptySeq DEF RecordInv
  <2> QED BY <2>1, <2>2 DEF Rest
<1> QED BY <1>1, <1>2 DEF Ended

LEMMA ReadDoneStep ==
  ASSUME RecordInv, ReadDone
  PROVE  RecordInv' /\ ReaderStep
<1>1. /\ op = "read" /\ lent = "none" /\ Ended /\ Return(part, TRUE)
      /\ IF Need = 0 THEN UNCHANGED <<data, next, stacked>> ELSE Drained
      /\ UNCHANGED <<kind, input, pushed, undo, lent, pkrd, broken>>
  BY DEF ReadDone, Ready, kernel, lending
<1>2. ~pkrd
  BY <1>1, NotPeeked
<1>3. part \in Seq(Sym)
  BY DEF RecordInv, TypeInv
<1>4. /\ op' = "none" /\ how' = "plain" /\ want' = 0 /\ now' = -1 /\ side' = FALSE
      /\ out' = part /\ part' \in Seq(Sym) /\ side' \in BOOLEAN /\ ok' \in BOOLEAN
      /\ PartInv' /\ ArgumentInv' /\ Reader!Return(part, TRUE)
  BY <1>1, <1>3, Returned
<1>5. /\ Rest' = Rest /\ data' \in Seq(Sym) /\ next' \in 0 .. Len(data') /\ stacked' \in BOOLEAN
      /\ ~stacked' => pushed = <<>>
  <2>1. CASE Need = 0
    BY <1>1, <2>1 DEF Rest, RecordInv, TypeInv, BufferInv
  <2>2. CASE Need # 0
    BY <1>1, <1>2, <2>2, DrainedRest, EmptySeq DEF Ended, Drained
  <2> QED BY <2>1, <2>2
<1>6. TypeInv'
  BY <1>1, <1>3, <1>4, <1>5 DEF RecordInv, TypeInv
<1>7. BufferInv' /\ PeekInv'
  BY <1>1, <1>2, <1>5 DEF RecordInv, BufferInv, PeekInv
<1>8. Len(part) = want \/ Rest = <<>>
  <2>1. Abs(want) = want
    BY <1>1 DEF RecordInv, TypeInv, ArgumentInv, Abs
  <2> QED BY <1>1, <1>2, <2>1, EndedReads
<1>9. Reader!ReturnRead
  BY <1>1, <1>4, <1>5, <1>8 DEF Reader!ReturnRead
<1> QED BY <1>4, <1>6, <1>7, <1>9 DEF RecordInv, ReaderStep, Reader!Next

----------------------------------------------------------------------------
(* sfreserve.                                                              *)

\* A reservation that has not enough yet.
LEMMA Wants ==
  ASSUME RecordInv, Reserving, ~Enough
  PROVE  op = "reserve" /\ ~side /\ lent = "none" /\ ~undo /\ part = <<>> /\ ~pkrd
<1>1. op = "reserve" /\ ~side /\ lent = "none" /\ ~undo
  BY DEF Reserving, Ready
<1> QED BY <1>1, NotPeeked DEF RecordInv, PartInv

LEMMA ReserveIdleStep ==
  ASSUME RecordInv, ReserveIdle
  PROVE  RecordInv' /\ ReaderStep
<1>1. /\ Reserving /\ ~Enough /\ now' = Have /\ stacked' = (pushed # <<>> /\ stacked)
      /\ UNCHANGED <<kind, input, data, next, pushed, undo, lent, pkrd, broken, op, how, want, part, side, out, ok>>
  BY DEF ReserveIdle, kernel, lending
<1>2. op = "reserve" /\ ~side /\ lent = "none" /\ ~pkrd
  BY <1>1, Wants
<1>3. Rest' = Rest
  BY <1>1 DEF Rest
<1>4. stacked' \in BOOLEAN /\ now' \in Int
  BY <1>1, Numbers
<1>5. TypeInv'
  BY <1>1, <1>4 DEF RecordInv, TypeInv
<1>6. PartInv' /\ ArgumentInv'
  BY <1>1 DEF RecordInv, PartInv, ArgumentInv
<1>7. BufferInv' /\ PeekInv'
  BY <1>1, <1>2 DEF RecordInv, BufferInv, PeekInv
<1> QED BY <1>1, <1>3, <1>5, <1>6, <1>7, Stutters DEF RecordInv

\* Bytes are read behind those there are.
LEMMA ReserveFillStep ==
  ASSUME RecordInv, ReserveFill
  PROVE  RecordInv' /\ ReaderStep
<1>1. /\ Reserving /\ ~Enough /\ ~Idle /\ now' = Have /\ stacked' = FALSE
      /\ UNCHANGED <<kind, pushed, undo, lent, pkrd, broken, op, how, want, part, side, out, ok>>
  BY DEF ReserveFill, lending
<1>2. PICK k \in Counts(Limit) :
        IF After(data, next) = <<>> THEN Fill(<<>>, k)
        ELSE IF Asked > BufSize - Len(data) THEN Fill(Kept, k)
        ELSE data' = data \o First(input, k) /\ input' = After(input, k) /\ UNCHANGED next
  BY DEF ReserveFill
<1>3. op = "reserve" /\ ~side /\ lent = "none" /\ ~pkrd
  BY <1>1, Wants
<1>4. stacked => pushed = <<>>
  BY <1>1 DEF Idle
<1>5. k \in 0 .. Len(input)
  BY Numbers, CountsThere DEF RecordInv
<1>6. Rest' = Rest /\ data' \in Seq(Sym) /\ next' \in 0 .. Len(data') /\ input' \in Seq(Sym)
  <2>1. CASE Fill(After(data, next), k)
    <3>1. Rest' = Rest /\ data' \in Seq(Sym) /\ next' = 0 /\ input' \in Seq(Sym)
      BY <1>1, <1>3, <1>4, <1>5, <2>1, FillRest DEF RecordInv
    <3> QED BY <3>1, LenProperties
  <2>2. CASE data' = data \o First(input, k) /\ input' = After(input, k) /\ UNCHANGED next
    BY <1>1, <1>3, <1>4, <1>5, <2>2, GrowRest DEF RecordInv
  <2>3. Asked > BufSize - Len(data) => Kept = After(data, next)
    BY DEF Kept
  <2> QED BY <1>2, <2>1, <2>2, <2>3
<1>7. TypeInv'
  <2>1. stacked' \in BOOLEAN
    BY <1>1
  <2>2. now' \in Int
    BY <1>1, Numbers
  <2> QED BY <1>1, <1>6, <2>1, <2>2 DEF RecordInv, TypeInv
<1>8. PartInv' /\ ArgumentInv'
  BY <1>1 DEF RecordInv, PartInv, ArgumentInv
<1>9. BufferInv' /\ PeekInv'
  BY <1>1, <1>3, <1>4 DEF RecordInv, BufferInv, PeekInv
<1> QED BY <1>1, <1>6, <1>7, <1>8, <1>9, Stutters DEF RecordInv

\* The bytes of a shared pipe are looked at.
LEMMA ReservePeekStep ==
  ASSUME RecordInv, ReservePeek
  PROVE  RecordInv' /\ ReaderStep
<1>1. /\ Reserving /\ ~Enough /\ ~Idle /\ Peeks /\ stacked' = FALSE /\ next' = 0
      /\ UNCHANGED <<kind, input, pushed, undo, lent, broken, op, how, want, part, side, out, ok>>
  BY DEF ReservePeek, kernel
<1>2. PICK k \in Counts(Limit) :
        IF k > 0 /\ k >= Abs(want)
        THEN data' = First(input, k) /\ pkrd' = TRUE /\ now' = Have
        ELSE data' = <<>> /\ pkrd' = FALSE /\ now' = 0
  BY DEF ReservePeek
<1>3. op = "reserve" /\ ~side /\ lent = "none" /\ ~undo /\ ~pkrd
  BY <1>1, Wants
<1>4. how = "lock" /\ kind = "pipe" /\ ~stacked
  BY <1>1 DEF Peeks
<1>5. Available = <<>> /\ After(data, next) = <<>> /\ pushed = <<>>
  <2>1. Have = 0
    BY <1>1, Numbers DEF Idle
  <2>2. Available = <<>>
    BY <2>1, Parts, EmptySeq DEF Have, RecordInv
  <2> QED BY <1>4, <2>2 DEF Available, RecordInv, BufferInv
<1>6. k \in 0 .. Len(input) /\ input \in Seq(Sym) /\ Len(input) \in Nat
  BY Numbers, CountsThere, Parts DEF RecordInv, TypeInv
<1>7. First(input, k) \in Seq(Sym) /\ Len(First(input, k)) = k /\ <<>> \in Seq(Sym) /\ Len(<<>>) = 0
  BY <1>6, Cut, EmptySeq
<1>8. data' \in Seq(Sym) /\ next' \in 0 .. Len(data') /\ pkrd' \in BOOLEAN /\ now' \in Int
  <2>1. pkrd' \in BOOLEAN
    BY <1>2
  <2>2. now' \in Int
    BY <1>2, Numbers
  <2>3. data' \in {First(input, k), <<>>}
    BY <1>2
  <2>4. data' \in Seq(Sym) /\ Len(data') \in Nat
    <3>1. data' \in Seq(Sym)
      BY <1>7, <2>3
    <3> QED BY <3>1, LenProperties
  <2> QED BY <1>1, <2>1, <2>2, <2>4
<1>9. Rest = input
  BY <1>3, <1>4, <1>5, Emptied DEF Empty
<1>10. Rest' = input
  <2>1. After(<<>>, 0) = <<>>
    BY <1>7, CutEnds
  <2>2. (IF pkrd THEN <<>> ELSE After(data, next))' = <<>>
    BY <1>1, <1>2, <2>1
  <2>3. Rest' = (<<>> \o <<>>) \o input
    BY <1>1, <2>2 DEF Rest
  <2>4. <<>> \o <<>> = <<>> /\ <<>> \o input = input
    BY <1>6, <1>7, ConcatEmptySeq
  <2> QED BY <2>3, <2>4
<1>11. TypeInv'
  <2>1. stacked' \in BOOLEAN
    BY <1>1
  <2> QED BY <1>1, <1>8, <2>1 DEF RecordInv, TypeInv
<1>12. PartInv' /\ ArgumentInv'
  BY <1>1 DEF RecordInv, PartInv, ArgumentInv
<1>13. BufferInv'
  BY <1>1, <1>3, <1>5 DEF BufferInv
<1>14. PeekInv'
  <2> SUFFICES ASSUME pkrd' PROVE PeekInv'
    BY DEF PeekInv
  <2>1. k > 0 /\ k >= Abs(want) /\ data' = First(input, k)
    BY <1>2
  <2>2. Len(data') = k /\ k \in 1 .. Len(input) /\ data' = First(input, Len(data')) /\ Abs(want') = Abs(want)
    BY <1>1, <1>6, <1>7, <2>1
  <2> QED BY <1>1, <1>3, <1>4, <2>1, <2>2 DEF PeekInv
<1> QED BY <1>1, <1>9, <1>10, <1>11, <1>12, <1>13, <1>14, Stutters DEF RecordInv

\* A reservation that goes on in f->rsrv forgets what lay there.
LEMMA ReserveSideStep ==
  ASSUME RecordInv, ReserveSide
  PROVE  RecordInv' /\ ReaderStep
<1>1. /\ Reserving /\ how # "lock" /\ side' = TRUE /\ broken' = <<>>
      /\ UNCHANGED <<kind, input, data, next, stacked, pushed, undo, lent, pkrd, op, how, want, part, now, out, ok>>
  BY DEF ReserveSide, kernel, buffer, lending
<1>2. op = "reserve" /\ lent = "none"
  BY <1>1 DEF Reserving, Ready
<1>3. ~pkrd
  BY <1>1, <1>2 DEF RecordInv, PeekInv
<1>4. Rest' = Rest
  BY <1>1 DEF Rest
<1>5. broken' \in Seq(Sym) /\ side' \in BOOLEAN
  BY <1>1, EmptySeq
<1>6. TypeInv'
  BY <1>1, <1>5 DEF RecordInv, TypeInv
<1>7. PartInv' /\ ArgumentInv' /\ BufferInv' /\ PeekInv'
  BY <1>1, <1>2, <1>3 DEF RecordInv, PartInv, ArgumentInv, BufferInv, PeekInv
<1>8. Reader!Drop
  BY <1>1, <1>2, <1>4 DEF Reader!Drop, Reader!Forget
<1> QED BY <1>6, <1>7, <1>8 DEF RecordInv, ReaderStep, Reader!Next

\* A block is handed out, or lent.
LEMMA ReserveBlockStep ==
  ASSUME RecordInv, ReserveBlock
  PROVE  RecordInv' /\ ReaderStep
<1>1. /\ Reserving /\ Obtained /\ Return(Available, TRUE)
      /\ IF how = "lock" THEN lent' = (IF Have = 0 THEN "record" ELSE "block") /\ UNCHANGED <<next, pushed>>
         ELSE Pass(Taken) /\ UNCHANGED lent
      /\ UNCHANGED <<kind, input, data, stacked, undo, pkrd, broken>>
  BY DEF ReserveBlock, kernel
<1>2. op = "reserve" /\ ~side /\ lent = "none" /\ part = <<>>
  BY <1>1 DEF Reserving, Ready, RecordInv, PartInv
<1>3. Available \in Seq(Sym) /\ Have = Len(Available) /\ Have \in Nat /\ want \in Int
  BY Parts, Numbers DEF RecordInv, TypeInv, Have
<1>4. /\ op' = "none" /\ how' = "plain" /\ want' = 0 /\ now' = -1 /\ side' = FALSE
      /\ out' = Available /\ part' \in Seq(Sym) /\ side' \in BOOLEAN /\ ok' \in BOOLEAN
      /\ PartInv' /\ ArgumentInv' /\ Reader!Return(Available, TRUE) /\ Reader!Return(out', TRUE)
  <2>1. TRUE \in BOOLEAN
    OBVIOUS
  <2>2. out' = Available
    BY <1>1 DEF Return
  <2> QED BY <1>1, <1>3, <2>1, <2>2, Returned
<1>5. Rest \in Seq(Sym) /\ Have \in 0 .. Len(Rest) /\ First(Rest, Have) = Available
  BY <1>3, RestFirst DEF RecordInv
<1>6. <<>> \o Available = Available
  BY <1>3, ConcatEmptySeq
<1>7. \E k \in 0 .. Len(Rest) : out' = part \o Reader!First(Rest, k)
  <2>1. Reader!First(Rest, Have) = Available
    BY <1>5 DEF First, Reader!First
  <2>2. out' = part \o Reader!First(Rest, Have)
    BY <1>2, <1>4, <1>6, <2>1
  <2> QED BY <1>5, <2>2
<1>8. Len(out') >= Reader!Abs(want)
  BY <1>1, <1>3, <1>4 DEF Obtained, Abs, Reader!Abs
<1>9. CASE how = "lock"
  <2>1. lent' = (IF Have = 0 THEN "record" ELSE "block") /\ next' = next /\ pushed' = pushed
    BY <1>1, <1>9
  <2>2. Rest' = Rest /\ Available' = Available
    BY <1>1, <2>1 DEF Rest, Available
  <2>3. TypeInv'
    <3>1. lent' \in {"none", "record", "block"}
      BY <2>1
    <3> QED BY <1>1, <1>3, <1>4, <2>1, <3>1 DEF RecordInv, TypeInv
  <2>4. BufferInv'
    BY <1>1, <1>4, <2>1, <2>2 DEF RecordInv, BufferInv
  <2>5. PeekInv'
    <3>1. pkrd => lent' = "block"
      <4>1. pkrd => Available = data /\ Len(data) \in 1 .. Len(input)
        BY RestPeeked DEF RecordInv
      <4> QED BY <1>3, <2>1, <4>1, Parts DEF RecordInv
    <3> QED BY <1>1, <2>1, <3>1 DEF RecordInv, PeekInv
  <2>6. Reader!ReturnBlock
    <3>1. (lent # "none")' = TRUE
      BY <2>1
    <3> QED BY <1>1, <1>2, <1>4, <1>7, <1>8, <1>9, <2>2, <3>1 DEF Reader!ReturnBlock
  <2> QED BY <1>4, <2>3, <2>4, <2>5, <2>6 DEF RecordInv, ReaderStep, Reader!Next
<1>10. CASE how # "lock"
  <2>1. ~pkrd /\ Pass(Taken) /\ lent' = lent
    BY <1>1, <1>2, <1>10 DEF RecordInv, PeekInv
  <2>2. Taken \in 0 .. Len(Available) /\ Taken = (IF want < 0 THEN Have ELSE want)
    BY <1>1, <1>3 DEF Taken, Obtained, Abs
  <2>3. /\ Rest' = After(Rest, Taken)
        /\ next' \in 0 .. Len(data) /\ pushed' \in Seq(Sym) /\ (pushed = <<>> => (~stacked => pushed' = <<>>))
    BY <1>1, <2>1, <2>2, PassRest DEF RecordInv
  <2>4. TypeInv'
    BY <1>1, <1>3, <1>4, <2>1, <2>3 DEF RecordInv, TypeInv
  <2>5. BufferInv' /\ PeekInv'
    BY <1>1, <1>2, <2>1, <2>3 DEF RecordInv, BufferInv, PeekInv
  <2>6. Reader!ReturnBlock
    <3>1. Len(part) = 0
      BY <1>2, EmptySeq
    <3>2. (IF want < 0 THEN Len(out') ELSE want) - Len(part) = Taken
      BY <1>3, <1>4, <2>2, <3>1
    <3>3. Rest' = Reader!After(Rest, (IF want < 0 THEN Len(out') ELSE want) - Len(part))
      BY <2>3, <3>2 DEF After, Reader!After
    <3>4. (lent # "none")' = (lent # "none")
      BY <2>1
    <3> QED BY <1>1, <1>2, <1>4, <1>7, <1>8, <1>10, <3>3, <3>4 DEF Reader!ReturnBlock
  <2> QED BY <1>4, <2>4, <2>5, <2>6 DEF RecordInv, ReaderStep, Reader!Next
<1> QED BY <1>9, <1>10

\* There is no such block.
LEMMA ReserveFailStep ==
  ASSUME RecordInv, ReserveFail
  PROVE  RecordInv' /\ ReaderStep
<1>1. /\ Reserving /\ Enough /\ ~Obtained /\ Return(<<>>, FALSE)
      /\ UNCHANGED <<kind, input, data, next, stacked, pushed, undo, lent, pkrd, broken>>
  BY DEF ReserveFail, kernel, buffer, lending
<1>2. op = "reserve" /\ ~side /\ lent = "none" /\ part = <<>> /\ ~undo
  BY <1>1 DEF Reserving, Ready, RecordInv, PartInv
<1>3. ~pkrd
  <2> SUFFICES ASSUME pkrd PROVE FALSE
    OBVIOUS
  <2>1. how = "lock" /\ Len(data) >= Abs(want)
    BY <1>2 DEF RecordInv, PeekInv
  <2>2. Available = data
    BY RestPeeked DEF RecordInv
  <2> QED BY <1>1, <2>1, <2>2 DEF Obtained, Have
<1>4. <<>> \in Seq(Sym) /\ FALSE \in BOOLEAN
  BY EmptySeq
<1>5. /\ op' = "none" /\ how' = "plain" /\ want' = 0 /\ now' = -1 /\ side' = FALSE
      /\ out' = <<>> /\ part' \in Seq(Sym) /\ side' \in BOOLEAN /\ ok' \in BOOLEAN
      /\ PartInv' /\ ArgumentInv' /\ Reader!Return(<<>>, FALSE)
  BY <1>1, <1>4, Returned
<1>6. Rest' = Rest
  BY <1>1 DEF Rest
<1>7. TypeInv'
  BY <1>1, <1>4, <1>5 DEF RecordInv, TypeInv
<1>8. BufferInv' /\ PeekInv'
  BY <1>1, <1>2, <1>3 DEF RecordInv, BufferInv, PeekInv
<1>9. Reader!ReturnNoBlock
  BY <1>1, <1>2, <1>5, <1>6 DEF Reader!ReturnNoBlock
<1> QED BY <1>5, <1>7, <1>8, <1>9 DEF RecordInv, ReaderStep, Reader!Next

\* What was read into f->rsrv is the block, or waits there.
LEMMA SideDoneStep ==
  ASSUME RecordInv, SideDone
  PROVE  RecordInv' /\ ReaderStep
<1>1. /\ op = "reserve" /\ side /\ lent = "none" /\ Ended
      /\ IF Need = 0 THEN Return(part, TRUE) /\ UNCHANGED <<broken, val, data, next, stacked>>
                     ELSE Return(<<>>, FALSE) /\ broken' = part /\ val' = Len(part) /\ Drained
      /\ UNCHANGED <<kind, input, pushed, undo, lent, pkrd>>
  BY DEF SideDone, Ready, kernel, lending
<1>2. ~pkrd
  BY <1>1 DEF RecordInv, PeekInv
<1>3. part \in Seq(Sym) /\ <<>> \in Seq(Sym) /\ how # "lock" /\ broken = <<>> /\ want \in Int /\ Len(part) \in Nat
  BY <1>1, EmptySeq, Parts DEF RecordInv, ArgumentInv, TypeInv
<1>4. /\ Rest' = Rest /\ data' \in Seq(Sym) /\ next' \in 0 .. Len(data') /\ stacked' \in BOOLEAN
      /\ ~stacked' => pushed = <<>>
  <2>1. CASE Need = 0
    BY <1>1, <2>1 DEF Rest, RecordInv, TypeInv, BufferInv
  <2>2. CASE Need # 0
    BY <1>1, <1>2, <2>2, DrainedRest, EmptySeq DEF Ended, Drained
  <2> QED BY <2>1, <2>2
<1>5. Rest \in Seq(Sym) /\ Len(Rest) \in Nat
  BY RestFirst, LenProperties DEF RecordInv
<1>6. BufferInv' /\ PeekInv'
  BY <1>1, <1>2, <1>4 DEF RecordInv, BufferInv, PeekInv
<1>7. CASE Need = 0
  <2>1. Return(part, TRUE) /\ broken' = broken /\ Len(part) = Abs(want)
    <3>1. Len(part) = Abs(want)
      BY <1>7, Numbers DEF Need
    <3> QED BY <1>1, <1>7, <3>1
  <2>2. /\ op' = "none" /\ how' = "plain" /\ want' = 0 /\ now' = -1 /\ side' = FALSE
        /\ out' = part /\ part' \in Seq(Sym) /\ side' \in BOOLEAN /\ ok' \in BOOLEAN
        /\ PartInv' /\ ArgumentInv' /\ Reader!Return(part, TRUE) /\ Reader!Return(out', TRUE)
    <3>1. TRUE \in BOOLEAN
      OBVIOUS
    <3>2. out' = part
      BY <2>1 DEF Return
    <3> QED BY <1>3, <2>1, <3>1, <3>2, Returned
  <2>3. TypeInv'
    BY <1>1, <1>3, <1>4, <2>1, <2>2 DEF RecordInv, TypeInv
  <2>4. Reader!First(Rest, 0) = <<>> /\ Reader!After(Rest, 0) = Rest
    BY <1>5, CutEnds DEF First, After, Reader!First, Reader!After
  <2>5. \E k \in 0 .. Len(Rest) : out' = part \o Reader!First(Rest, k)
    <3>1. part \o <<>> = part
      BY <1>3, ConcatEmptySeq
    <3>2. out' = part \o Reader!First(Rest, 0)
      BY <2>2, <2>4, <3>1
    <3>3. 0 \in 0 .. Len(Rest)
      BY <1>5
    <3> QED BY <3>2, <3>3
  <2>6. Len(out') >= Reader!Abs(want)
    BY <1>3, <2>1, <2>2 DEF Abs, Reader!Abs
  <2>7. Rest' = Reader!After(Rest, (IF want < 0 THEN Len(out') ELSE want) - Len(part))
    <3>1. (IF want < 0 THEN Len(out') ELSE want) - Len(part) = 0
      BY <1>3, <2>1, <2>2 DEF Abs
    <3> QED BY <1>4, <2>4, <3>1
  <2>8. Reader!ReturnBlock
    <3>1. (lent # "none")' = (lent # "none")
      BY <1>1
    <3> QED BY <1>1, <1>3, <2>1, <2>2, <2>5, <2>6, <2>7, <3>1 DEF Reader!ReturnBlock
  <2> QED BY <1>6, <2>2, <2>3, <2>8 DEF RecordInv, ReaderStep, Reader!Next
<1>8. CASE Need # 0
  <2>1. Return(<<>>, FALSE) /\ broken' = part /\ FALSE \in BOOLEAN
    BY <1>1, <1>8
  <2>2. /\ op' = "none" /\ how' = "plain" /\ want' = 0 /\ now' = -1 /\ side' = FALSE
        /\ out' = <<>> /\ part' \in Seq(Sym) /\ side' \in BOOLEAN /\ ok' \in BOOLEAN
        /\ PartInv' /\ ArgumentInv' /\ Reader!Return(<<>>, FALSE)
    BY <1>3, <2>1, Returned
  <2>3. TypeInv'
    BY <1>1, <1>3, <1>4, <2>1, <2>2 DEF RecordInv, TypeInv
  <2>4. Reader!ReturnNoBlock
    BY <1>1, <1>3, <1>4, <2>1, <2>2 DEF Reader!ReturnNoBlock
  <2> QED BY <1>6, <2>2, <2>3, <2>4 DEF RecordInv, ReaderStep, Reader!Next
<1> QED BY <1>7, <1>8

\* SF_LASTR: what is left in the buffer is taken, or what waits in f->rsrv.
LEMMA ReserveLastStep ==
  ASSUME RecordInv, ReserveLast
  PROVE  RecordInv' /\ ReaderStep
<1>1. /\ op = "lastblock"
      /\ IF Have > 0 /\ Have = val
         THEN Return(Available, TRUE) /\ Pass(Have) /\ UNCHANGED broken
         ELSE Return(broken, broken # <<>>) /\ broken' = <<>> /\ UNCHANGED <<next, pushed>>
      /\ UNCHANGED <<kind, input, data, stacked, undo, lent, pkrd>>
  BY DEF ReserveLast, kernel, lending
<1>2. lent = "none" /\ ~pkrd
  BY <1>1 DEF RecordInv, ArgumentInv, PeekInv
<1>3. /\ Available \in Seq(Sym) /\ Have = Len(Available) /\ Have \in Nat
      /\ <<>> \in Seq(Sym) /\ broken \in Seq(Sym) /\ (broken # <<>>) \in BOOLEAN /\ TRUE \in BOOLEAN
  BY Parts, Numbers, EmptySeq DEF RecordInv, TypeInv, Have
<1>4. CASE Have > 0 /\ Have = val
  <2>1. Return(Available, TRUE) /\ Pass(Have) /\ broken' = broken
    BY <1>1, <1>4
  <2>2. /\ op' = "none" /\ how' = "plain" /\ want' = 0 /\ now' = -1 /\ side' = FALSE
        /\ out' = Available /\ part' \in Seq(Sym) /\ side' \in BOOLEAN /\ ok' \in BOOLEAN
        /\ PartInv' /\ ArgumentInv' /\ Reader!Return(Available, TRUE)
    BY <1>3, <2>1, Returned
  <2>3. /\ Have \in 0 .. Len(Rest) /\ First(Rest, Have) = First(Available, Have) /\ Rest' = After(Rest, Have)
        /\ next' \in 0 .. Len(data) /\ pushed' \in Seq(Sym) /\ (pushed = <<>> => (~stacked => pushed' = <<>>))
    <3>1. Have \in 0 .. Len(Available)
      BY <1>3
    <3> QED BY <1>1, <1>2, <2>1, <3>1, PassRest DEF RecordInv
  <2>4. First(Available, Have) = Available
    BY <1>3, CutEnds
  <2>5. TypeInv'
    BY <1>1, <1>3, <2>1, <2>2, <2>3 DEF RecordInv, TypeInv
  <2>6. BufferInv' /\ PeekInv'
    BY <1>1, <1>2, <2>3 DEF RecordInv, BufferInv, PeekInv
  <2>7. Reader!ReturnLast
    <3>1. Have \in 1 .. Len(Rest)
      BY <1>3, <1>4, <2>3
    <3>2. Reader!Return(Reader!First(Rest, Have), TRUE) /\ Rest' = Reader!After(Rest, Have)
      BY <2>2, <2>3, <2>4 DEF First, After, Reader!First, Reader!After
    <3> QED BY <1>1, <2>1, <3>1, <3>2 DEF Reader!ReturnLast
  <2> QED BY <2>2, <2>5, <2>6, <2>7 DEF RecordInv, ReaderStep, Reader!Next
<1>5. CASE ~(Have > 0 /\ Have = val)
  <2>1. Return(broken, broken # <<>>) /\ broken' = <<>> /\ next' = next /\ pushed' = pushed
    BY <1>1, <1>5
  <2>2. /\ op' = "none" /\ how' = "plain" /\ want' = 0 /\ now' = -1 /\ side' = FALSE
        /\ out' = broken /\ part' \in Seq(Sym) /\ side' \in BOOLEAN /\ ok' \in BOOLEAN
        /\ PartInv' /\ ArgumentInv' /\ Reader!Return(broken, broken # <<>>)
    BY <1>3, <2>1, Returned
  <2>3. Rest' = Rest
    BY <1>1, <2>1 DEF Rest
  <2>4. TypeInv'
    BY <1>1, <1>3, <2>1, <2>2 DEF RecordInv, TypeInv
  <2>5. BufferInv' /\ PeekInv'
    BY <1>1, <1>2, <2>1 DEF RecordInv, BufferInv, PeekInv
  <2>6. Reader!ReturnLast
    BY <1>1, <2>1, <2>2, <2>3 DEF Reader!ReturnLast
  <2> QED BY <2>2, <2>4, <2>5, <2>6 DEF RecordInv, ReaderStep, Reader!Next
<1> QED BY <1>4, <1>5

----------------------------------------------------------------------------
(* Giving back, and pushing back.                                          *)

\* What was peeked is read when it is given back.
LEMMA ReleasePeekedStep ==
  ASSUME RecordInv, ReleasePeeked
  PROVE  RecordInv' /\ ReaderStep
<1>1. /\ op = "release" /\ lent = "block" /\ pkrd /\ Return(First(input, want), TRUE)
      /\ data' = First(input, want) /\ next' = want /\ input' = After(input, want)
      /\ lent' = "none" /\ pkrd' = FALSE
      /\ UNCHANGED <<kind, stacked, pushed, undo, broken>>
  BY DEF ReleasePeeked
<1>2. /\ Rest = input /\ Available = data /\ Len(data) \in 1 .. Len(input) /\ ~stacked
      /\ input \in Seq(Sym) /\ Len(input) \in Nat
  BY <1>1, RestPeeked, Parts DEF RecordInv, PeekInv, TypeInv
<1>3. want \in 0 .. Len(out) /\ out = Available
  BY <1>1 DEF RecordInv, ArgumentInv, BufferInv
<1>4. want \in 0 .. Len(input) /\ want <= Len(out) /\ want <= Len(Rest)
  BY <1>2, <1>3
<1>5. First(input, want) \in Seq(Sym) /\ Len(First(input, want)) = want /\ After(input, want) \in Seq(Sym)
  BY <1>2, <1>4, Cut
<1>6. /\ op' = "none" /\ how' = "plain" /\ want' = 0 /\ now' = -1 /\ side' = FALSE
      /\ out' = First(input, want) /\ part' \in Seq(Sym) /\ side' \in BOOLEAN /\ ok' \in BOOLEAN
      /\ PartInv' /\ ArgumentInv' /\ Reader!Return(First(input, want), TRUE)
  <2>1. TRUE \in BOOLEAN
    OBVIOUS
  <2> QED BY <1>1, <1>5, <2>1, Returned
<1>7. Rest' = After(Rest, want)
  <2>1. After(data', next') = <<>>
    BY <1>1, <1>5, CutEnds
  <2>2. Rest' = (<<>> \o <<>>) \o After(input, want)
    BY <1>1, <1>2, <2>1 DEF Rest
  <2>3. <<>> \o <<>> = <<>> /\ <<>> \o After(input, want) = After(input, want)
    BY <1>5, EmptySeq, ConcatEmptySeq
  <2> QED BY <1>2, <2>2, <2>3
<1>8. TypeInv'
  <2>1. next' \in 0 .. Len(data')
    BY <1>1, <1>4, <1>5
  <2>2. pkrd' \in BOOLEAN
    BY <1>1
  <2> QED BY <1>1, <1>5, <1>6, <2>1, <2>2 DEF RecordInv, TypeInv
<1>9. BufferInv' /\ PeekInv'
  BY <1>1 DEF RecordInv, BufferInv, PeekInv
<1>10. Reader!ReturnRelease
  <2>1. Reader!Return(Reader!First(Rest, want), TRUE) /\ Rest' = Reader!After(Rest, want)
    BY <1>2, <1>6, <1>7 DEF First, After, Reader!First, Reader!After
  <2> QED BY <1>1, <1>4, <2>1 DEF Reader!ReturnRelease
<1> QED BY <1>6, <1>8, <1>9, <1>10 DEF RecordInv, ReaderStep, Reader!Next

\* A block, or a record, is given back.
LEMMA ReleaseStep ==
  ASSUME RecordInv, Release
  PROVE  RecordInv' /\ ReaderStep
<1>1. /\ op = "release" /\ lent # "none" /\ ~pkrd /\ lent' = "none"
      /\ Return(First(Available, want), TRUE) /\ Pass(want)
      /\ UNCHANGED <<kind, input, data, stacked, undo, pkrd, broken>>
  BY DEF Release, kernel
<1>2. Available \in Seq(Sym) /\ Len(Available) \in Nat /\ Len(out) \in Nat
  BY Parts DEF RecordInv
<1>3. want \in 0 .. Len(Available) /\ want \in 0 .. Len(out)
  <2>1. want \in 0 .. Len(out) /\ (lent = "record" => want = 0) /\ (lent = "block" => out = Available)
    BY <1>1 DEF RecordInv, ArgumentInv, BufferInv
  <2> QED BY <1>1, <1>2, <2>1 DEF RecordInv, TypeInv
<1>4. /\ want \in 0 .. Len(Rest) /\ First(Rest, want) = First(Available, want) /\ Rest' = After(Rest, want)
      /\ next' \in 0 .. Len(data) /\ pushed' \in Seq(Sym) /\ (pushed = <<>> => (~stacked => pushed' = <<>>))
  BY <1>1, <1>3, PassRest DEF RecordInv
<1>5. First(Available, want) \in Seq(Sym)
  BY <1>2, <1>3, Cut
<1>6. /\ op' = "none" /\ how' = "plain" /\ want' = 0 /\ now' = -1 /\ side' = FALSE
      /\ out' = First(Available, want) /\ part' \in Seq(Sym) /\ side' \in BOOLEAN /\ ok' \in BOOLEAN
      /\ PartInv' /\ ArgumentInv' /\ Reader!Return(First(Available, want), TRUE)
  <2>1. TRUE \in BOOLEAN
    OBVIOUS
  <2> QED BY <1>1, <1>5, <2>1, Returned
<1>7. TypeInv'
  BY <1>1, <1>4, <1>5, <1>6 DEF RecordInv, TypeInv
<1>8. BufferInv' /\ PeekInv'
  BY <1>1, <1>4 DEF RecordInv, BufferInv, PeekInv
<1>9. Reader!ReturnRelease
  <2>1. Reader!Return(Reader!First(Rest, want), TRUE) /\ Rest' = Reader!After(Rest, want)
    BY <1>4, <1>6 DEF First, After, Reader!First, Reader!After
  <2>2. want <= Len(out) /\ want <= Len(Rest)
    BY <1>3, <1>4
  <2>3. (lent # "none")' = FALSE
    BY <1>1
  <2> QED BY <1>1, <2>1, <2>2, <2>3 DEF Reader!ReturnRelease
<1> QED BY <1>6, <1>7, <1>8, <1>9 DEF RecordInv, ReaderStep, Reader!Next

\* A byte is backed over, or stacked.
LEMMA UngetStep ==
  ASSUME RecordInv, Unget
  PROVE  RecordInv' /\ ReaderStep
<1>1. /\ op = "unget" /\ lent = "none" /\ Return(<<>>, TRUE)
      /\ IF ~stacked /\ next > 0 /\ data[next] = want
         THEN next' = next - 1 /\ UNCHANGED <<stacked, pushed>>
         ELSE stacked' = TRUE /\ pushed' = <<want>> \o pushed /\ UNCHANGED next
      /\ UNCHANGED <<kind, input, data, undo, lent, pkrd, broken>>
  BY DEF Unget, Ready, kernel, lending
<1>2. ~pkrd
  BY <1>1, NotPeeked
<1>3. /\ <<>> \in Seq(Sym) /\ want \in Sym /\ data \in Seq(Sym) /\ input \in Seq(Sym) /\ pushed \in Seq(Sym)
      /\ next \in 0 .. Len(data) /\ Len(data) \in Nat /\ After(data, next) \in Seq(Sym)
  BY <1>1, EmptySeq, Parts DEF RecordInv, ArgumentInv, TypeInv, Sym
<1>4. <<want>> \in Seq(Sym) /\ Len(<<want>>) = 1 /\ <<want>>[1] = want
  BY <1>3
<1>5. /\ op' = "none" /\ how' = "plain" /\ want' = 0 /\ now' = -1 /\ side' = FALSE
      /\ out' = <<>> /\ part' \in Seq(Sym) /\ side' \in BOOLEAN /\ ok' \in BOOLEAN
      /\ PartInv' /\ ArgumentInv' /\ Reader!Return(<<>>, TRUE)
  <2>1. TRUE \in BOOLEAN
    OBVIOUS
  <2> QED BY <1>1, <1>3, <2>1, Returned
<1>6. /\ next' \in 0 .. Len(data) /\ stacked' \in BOOLEAN /\ pushed' \in Seq(Sym) /\ (~stacked' => pushed' = <<>>)
      /\ Rest' = <<want>> \o Rest
  <2>1. CASE ~stacked /\ next > 0 /\ data[next] = want
    <3>1. next' = next - 1 /\ ~stacked' /\ pushed' = pushed /\ pushed = <<>> /\ next - 1 \in 0 .. Len(data)
      BY <1>1, <1>3, <2>1 DEF RecordInv, BufferInv, TypeInv
    <3>2. After(data, next - 1) = <<want>> \o After(data, next)
      <4> DEFINE a == After(data, next - 1)
      <4>1. /\ a \in Seq(Sym) /\ Len(a) = Len(data) - (next - 1)
            /\ \A i \in 1 .. Len(data) - (next - 1) : a[i] = data[next - 1 + i]
        BY <1>3, <3>1, Cut
      <4> HIDE DEF a
      <4>2. 1 \in 0 .. Len(a) /\ next - 1 + 1 = next /\ a[1] = want
        BY <1>3, <2>1, <4>1
      <4>3. First(a, 1) \o After(a, 1) = a /\ First(a, 1) \in Seq(Sym) /\ Len(First(a, 1)) = 1 /\ First(a, 1)[1] = a[1]
        <5>1. /\ First(a, 1) \o After(a, 1) = a /\ First(a, 1) \in Seq(Sym) /\ Len(First(a, 1)) = 1
              /\ \A i \in 1 .. 1 : First(a, 1)[i] = a[i]
          BY <4>1, <4>2, Cut
        <5> QED BY <5>1
      <4>4. First(a, 1) = <<want>>
        <5>1. \A i \in 1 .. Len(First(a, 1)) : First(a, 1)[i] = <<want>>[i]
          BY <1>4, <4>2, <4>3
        <5> QED BY <1>4, <4>3, <5>1, SeqEqual
      <4>5. After(a, 1) = After(data, next)
        <5>1. 1 \in 0 .. Len(data) - (next - 1)
          BY <1>3, <3>1
        <5>2. After(After(data, next - 1), 1) = After(data, next - 1 + 1)
          BY <1>3, <3>1, <5>1, CutTwice
        <5> QED BY <4>2, <5>2 DEF a
      <4> QED BY <4>3, <4>4, <4>5 DEF a
    <3>3. Rest = After(data, next) \o input
      BY <1>2, <2>1, RestTop DEF RecordInv, Available, Below
    <3>4. Rest' = (<<>> \o After(data, next - 1)) \o input
      BY <1>1, <1>2, <3>1 DEF Rest
    <3>5. <<>> \o After(data, next - 1) = After(data, next - 1)
      BY <1>3, <3>1, Cut, ConcatEmptySeq
    <3>6. (<<want>> \o After(data, next)) \o input = <<want>> \o (After(data, next) \o input)
      BY <1>3, <1>4, ConcatAssociative
    <3>7. stacked' \in BOOLEAN
      BY <1>1, <2>1 DEF RecordInv, TypeInv
    <3>8. Rest' = <<want>> \o Rest
      BY <3>2, <3>3, <3>4, <3>5, <3>6
    <3> QED BY <1>3, <3>1, <3>7, <3>8
  <2>2. CASE ~(~stacked /\ next > 0 /\ data[next] = want)
    <3>1. stacked' = TRUE /\ pushed' = <<want>> \o pushed /\ next' = next
      BY <1>1, <2>2
    <3>2. pushed' \in Seq(Sym)
      BY <1>3, <1>4, <3>1, ConcatProperties
    <3>3. Rest = (pushed \o After(data, next)) \o input
      <4>1. (IF stacked THEN pushed ELSE <<>>) = pushed
        BY DEF RecordInv, BufferInv
      <4> QED BY <1>2, <4>1 DEF Rest
    <3>4. Rest' = ((<<want>> \o pushed) \o After(data, next)) \o input
      BY <1>1, <1>2, <3>1 DEF Rest
    <3>5. (<<want>> \o pushed) \o After(data, next) = <<want>> \o (pushed \o After(data, next))
      BY <1>3, <1>4, ConcatAssociative
    <3>6. pushed \o After(data, next) \in Seq(Sym)
      BY <1>3, ConcatProperties
    <3>7. (<<want>> \o (pushed \o After(data, next))) \o input = <<want>> \o ((pushed \o After(data, next)) \o input)
      <4> DEFINE top == pushed \o After(data, next)
      <4>1. top \in Seq(Sym) /\ input \in Seq(Sym) /\ <<want>> \in Seq(Sym)
        BY <1>3, <1>4, <3>6
      <4> HIDE DEF top
      <4>2. (<<want>> \o top) \o input = <<want>> \o (top \o input)
        BY <4>1, ConcatAssociative
      <4> QED BY <4>2 DEF top
    <3>8. stacked' \in BOOLEAN
      BY <3>1
    <3> QED BY <1>3, <3>1, <3>2, <3>3, <3>4, <3>5, <3>7, <3>8
  <2> QED BY <2>1, <2>2
<1>7. TypeInv'
  BY <1>1, <1>3, <1>5, <1>6 DEF RecordInv, TypeInv
<1>8. BufferInv' /\ PeekInv'
  BY <1>1, <1>2, <1>6 DEF BufferInv, PeekInv
<1>9. Reader!ReturnUnget
  <2>1. (lent # "none")' = (lent # "none")
    BY <1>1
  <2> QED BY <1>1, <1>5, <1>6, <2>1 DEF Reader!ReturnUnget
<1> QED BY <1>5, <1>7, <1>8, <1>9 DEF RecordInv, ReaderStep, Reader!Next

----------------------------------------------------------------------------
(* The theorems.                                                           *)

\* The invariant holds at the start, where the reader starts too.
LEMMA RecordInit == Init => RecordInv /\ Reader!Init
<1> SUFFICES ASSUME Init PROVE RecordInv /\ Reader!Init
  OBVIOUS
<1>1. /\ data = <<>> /\ next = 0 /\ stacked = FALSE /\ pushed = <<>> /\ undo = FALSE
      /\ lent = "none" /\ pkrd = FALSE /\ broken = <<>> /\ val = 0
      /\ op = "none" /\ how = "plain" /\ want = 0 /\ part = <<>> /\ now = -1 /\ side = FALSE
      /\ out = <<>> /\ ok = TRUE /\ kind \in {"file", "pipe"}
  BY SizesAssumption DEF Init
<1>2. input \in Seq(Byte) /\ input \in Seq(Sym)
  <2>1. PICK n \in 0 .. MaxInput : input \in [1 .. n -> Byte]
    BY DEF Init
  <2>2. n \in Nat /\ Byte \subseteq Sym
    BY SizesAssumption DEF Sym
  <2> QED BY <2>1, <2>2, SeqDef
<1>3. <<>> \in Seq(Sym) /\ Len(<<>>) = 0
  BY EmptySeq
<1>4. now \in Int
  BY <1>1
<1>5. TypeInv
  <2>1. /\ stacked \in BOOLEAN /\ undo \in BOOLEAN /\ pkrd \in BOOLEAN /\ side \in BOOLEAN /\ ok \in BOOLEAN
    BY <1>1
  <2>2. next \in 0 .. Len(data) /\ want \in Int
    BY <1>1, <1>3
  <2> QED BY <1>1, <1>2, <1>3, <1>4, <2>1, <2>2 DEF TypeInv
<1>6. PartInv /\ ArgumentInv /\ BufferInv /\ PeekInv
  BY <1>1 DEF PartInv, ArgumentInv, BufferInv, PeekInv
<1>7. Rest = input
  <2>1. Rest = (<<>> \o After(<<>>, 0)) \o input
    BY <1>1 DEF Rest
  <2>2. After(<<>>, 0) = <<>> /\ <<>> \o <<>> = <<>> /\ <<>> \o input = input
    BY <1>2, <1>3, CutEnds, ConcatEmptySeq
  <2> QED BY <2>1, <2>2
<1>8. Reader!Init
  <2>1. (lent # "none") = FALSE
    BY <1>1
  <2> QED BY <1>1, <1>2, <1>7, <2>1 DEF Reader!Init
<1> QED BY <1>5, <1>6, <1>8 DEF RecordInv

\* Every step keeps the invariant, and is a step of the reader or none.
LEMMA RecordNext == RecordInv /\ [Next]_vars => RecordInv' /\ ReaderStep
<1> SUFFICES ASSUME RecordInv, [Next]_vars PROVE RecordInv' /\ ReaderStep
  OBVIOUS
<1>1. CASE Call
  BY <1>1, CallStep
<1>2. CASE Grow
  BY <1>2, GrowStep
<1>3. CASE Refused
  BY <1>3, RefusedStep
<1>4. CASE PutBack
  BY <1>4, PutBackStep
<1>5. CASE Pop
  BY <1>5, PopStep
<1>6. CASE GetrFill
  BY <1>6, GetrFillStep
<1>7. CASE GetrTake
  BY <1>7, GetrTakeStep
<1>8. CASE GetrDone
  BY <1>8, GetrDoneStep
<1>9. CASE GetrFail
  BY <1>9, GetrFailStep
<1>10. CASE GetrLast
  BY <1>10, GetrLastStep
<1>11. CASE ReadCopy
  BY <1>11, ReadCopyStep
<1>12. CASE ReadDirect
  BY <1>12, ReadDirectStep
<1>13. CASE ReadFill
  BY <1>13, ReadFillStep
<1>14. CASE ReadDone
  BY <1>14, ReadDoneStep
<1>15. CASE ReserveIdle
  BY <1>15, ReserveIdleStep
<1>16. CASE ReserveFill
  BY <1>16, ReserveFillStep
<1>17. CASE ReservePeek
  BY <1>17, ReservePeekStep
<1>18. CASE ReserveSide
  BY <1>18, ReserveSideStep
<1>19. CASE ReserveBlock
  BY <1>19, ReserveBlockStep
<1>20. CASE ReserveFail
  BY <1>20, ReserveFailStep
<1>21. CASE SideDone
  BY <1>21, SideDoneStep
<1>22. CASE ReserveLast
  BY <1>22, ReserveLastStep
<1>23. CASE ReleasePeeked
  BY <1>23, ReleasePeekedStep
<1>24. CASE Release
  BY <1>24, ReleaseStep
<1>25. CASE Unget
  BY <1>25, UngetStep
<1>27. CASE ReadPop
  BY <1>27, ReadPopStep
<1>26. CASE UNCHANGED vars
  <2>1. UNCHANGED <<kind, input, data, next, stacked, pushed, undo, lent, pkrd, broken,
                    op, how, want, part, now, side, out, ok>>
    BY <1>26 DEF vars, kernel, buffer, lending, call
  <2>2. Rest' = Rest /\ Available' = Available
    BY <2>1 DEF Rest, Available
  <2>3. RecordInv'
    BY <2>1, <2>2 DEF RecordInv, TypeInv, PartInv, ArgumentInv, BufferInv, PeekInv
  <2> QED BY <2>1, <2>2, <2>3, Stutters
<1> QED
  BY <1>1, <1>2, <1>3, <1>4, <1>5, <1>6, <1>7, <1>8, <1>9, <1>10, <1>11, <1>12, <1>13, <1>14, <1>15, <1>16,
     <1>17, <1>18, <1>19, <1>20, <1>21, <1>22, <1>23, <1>24, <1>25, <1>26, <1>27 DEF Next, Step

\* The reading calls implement SfReader: one sequence of bytes to come, of
\* which none is lost, repeated or reordered by buffering, lending, pushing
\* back or peeking.
THEOREM RecordImplements == Spec => ImplementsReader
<1>1. Init => RecordInv /\ Reader!Init
  BY RecordInit
<1>2. RecordInv /\ [Next]_vars => RecordInv' /\ [Reader!Next]_(Reader!vars)
  BY RecordNext DEF ReaderStep
<1> QED BY <1>1, <1>2, PTL DEF Spec, ImplementsReader, Reader!Spec

\* Only these steps take bytes from a shared pipe.
LEMMA LeavesRestStep ==
  ASSUME RecordInv, Next, kind = "pipe", input' # input
  PROVE  LET k == Len(input) - Len(input')
         IN  /\ op = "getr" => \A i \in 1 .. k - 1 : input[i] # Sep
             /\ op = "read" => k <= Need \/ (stacked /\ pushed = <<>> /\ k <= BufSize)
             /\ op = "reserve" => how # "lock" \/ stacked
<1> DEFINE k == Len(input) - Len(input')
           Goal == /\ op = "getr" => \A i \in 1 .. k - 1 : input[i] # Sep
                   /\ op = "read" => k <= Need \/ (stacked /\ pushed = <<>> /\ k <= BufSize)
                   /\ op = "reserve" => how # "lock" \/ stacked
<1>1. input \in Seq(Sym) /\ Len(input) \in Nat
  BY Parts DEF RecordInv, TypeInv
<1>2. \A n \in 0 .. Len(input) : input' = After(input, n) => k = n
  <2> SUFFICES ASSUME NEW n \in 0 .. Len(input), input' = After(input, n) PROVE k = n
    OBVIOUS
  <2>1. Len(input') = Len(input) - n
    BY <1>1, Cut
  <2> QED BY <1>1, <2>1
<1>3. CASE GetrFill
  <2>1. op = "getr"
    BY <1>3 DEF GetrFill, Getting, Ready
  <2>2. PICK n \in UpToSep(BufSize) : Fill(<<>>, n)
    BY <1>3 DEF GetrFill
  <2>3. n \in 0 .. Len(input) /\ \A i \in 1 .. n - 1 : input[i] # Sep
    BY <2>2, Numbers, CountsThere DEF UpToSep, RecordInv
  <2>4. k = n
    BY <1>2, <2>2, <2>3 DEF Fill
  <2> QED BY <2>1, <2>3, <2>4
<1>4. CASE ReadDirect
  <2>1. Reading /\ Need > 0 /\ input # <<>>
    BY <1>4 DEF ReadDirect, Reading
  <2>2. PICK n \in Counts(Need) : input' = After(input, n)
    BY <1>4 DEF ReadDirect
  <2>3. n \in 0 .. Len(input) /\ n \in 1 .. Need
    BY <2>1, <2>2, Numbers, CountsThere DEF RecordInv
  <2>4. k = n /\ k <= Need
    BY <1>2, <2>2, <2>3, Numbers
  <2>5. op = "read" \/ (op = "reserve" /\ how # "lock")
    BY <2>1 DEF Reading, Ready, RecordInv, ArgumentInv
  <2> QED BY <2>4, <2>5
<1>5. CASE ReadFill
  BY <1>5 DEF ReadFill, Direct
<1>6. CASE ReserveFill
  <2>1. op = "reserve" /\ ~Peeks
    BY <1>6 DEF ReserveFill, Reserving, Ready
  <2> QED BY <2>1 DEF Peeks
<1>7. CASE ReleasePeeked
  BY <1>7 DEF ReleasePeeked
<1>8. CASE Grow
  BY <1>8 DEF Grow
<1>10. CASE ReadPop
  <2>1. op = "read" /\ stacked /\ pushed = <<>> /\ BufSize > 0 /\ BufSize \in Nat
    BY <1>10, Numbers DEF ReadPop, Ready
  <2>2. PICK n \in Counts(BufSize) : Fill(<<>>, n) /\ input # <<>>
    BY <1>10 DEF ReadPop
  <2>3. n \in 0 .. Len(input) /\ n \in 1 .. BufSize
    BY <2>1, <2>2, CountsThere DEF RecordInv
  <2>4. k = n /\ k <= BufSize
    BY <1>2, <2>1, <2>2, <2>3 DEF Fill
  <2> QED BY <2>1, <2>4
<1>9. CASE ~(GetrFill \/ ReadDirect \/ ReadFill \/ ReadPop \/ ReserveFill \/ ReleasePeeked \/ Grow)
  BY <1>9 DEF Next, Step, kernel, Call, Refused, PutBack, Pop, GetrTake, GetrDone, GetrFail, GetrLast, ReadCopy,
       ReadDone, ReserveIdle, ReservePeek, ReserveSide, ReserveBlock, ReserveFail, SideDone, ReserveLast, Release, Unget
<1> QED BY <1>3, <1>4, <1>5, <1>6, <1>7, <1>8, <1>9, <1>10

\* On a shared pipe a record takes nothing after its separator, a read no more
\* than it asked for unless it pops pushed back bytes, and then no more than a
\* buffer, and a lent block nothing before it is given back.
THEOREM RecordLeavesRest == Spec => LeavesRest
<1> DEFINE Leaves ==
      kind = "pipe" /\ input' # input =>
        LET k == Len(input) - Len(input')
        IN  /\ op = "getr" => \A i \in 1 .. k - 1 : input[i] # Sep
            /\ op = "read" => k <= Need \/ (stacked /\ pushed = <<>> /\ k <= BufSize)
            /\ op = "reserve" => how # "lock" \/ stacked
<1>1. Init => RecordInv
  BY RecordInit
<1>2. RecordInv /\ [Next]_vars => RecordInv'
  BY RecordNext
<1>3. RecordInv /\ [Next]_vars => [Leaves]_vars
  BY LeavesRestStep
<1> HIDE DEF Leaves
<1>4. Spec => [][Leaves]_vars
  BY <1>1, <1>2, <1>3, PTL DEF Spec
<1> QED BY <1>4 DEF LeavesRest, Leaves

\* The types, the lent block and the peeked bytes are as the invariant says.
THEOREM RecordInvariant == Spec => []RecordInv
<1>1. Init => RecordInv
  BY RecordInit
<1>2. RecordInv /\ [Next]_vars => RecordInv'
  BY RecordNext
<1> QED BY <1>1, <1>2, PTL DEF Spec

=============================================================================
