------------------------------ MODULE SfNumber ------------------------------
(***************************************************************************)
(* The portable numbers: an unsigned value is coded in groups of UBits     *)
(* bits, most significant first, each but the last marked by SF_MORE; a    *)
(* signed value has one bit less in the last group, where its sign is; a   *)
(* value of a known range takes as many whole bytes as the range; a        *)
(* fraction is its signs, its exponent and its mantissa, least significant *)
(* group first.  Values have LongBits bits.                                *)
(***************************************************************************)
EXTENDS Integers, Sequences, SequencesExt

CONSTANTS UBits, BBits, LongBits, MaxGroups

More == 2 ^ UBits
Sign == 2 ^ (UBits - 1)
Byte == 2 ^ BBits
ULong == 2 ^ LongBits
Magnitude(v) == IF v < 0 THEN -v ELSE v

(* The groups of v with SF_MORE on every one.                              *)
RECURSIVE Groups(_)
Groups(v) == IF v = 0 THEN << >> ELSE Append(Groups(v \div More), (v % More) + More)

CodeU(v) == Append(Groups(v \div More), v % More)
(* mutant: the magnitude of a negative value instead of its complement     *)
CodeLPlain(v) ==
    Append(Groups(Magnitude(v) \div Sign), (Magnitude(v) % Sign) + (IF v < 0 THEN Sign ELSE 0))
CodeL(v) ==
    LET m == IF v < 0 THEN -(v + 1) ELSE v
    IN  Append(Groups(m \div Sign), (m % Sign) + (IF v < 0 THEN Sign ELSE 0))

RECURSIVE CodeM(_, _)
CodeM(v, m) ==
    IF m < Byte THEN <<v % Byte>>
    ELSE Append(CodeM(v \div Byte, m \div Byte), v % Byte)

(* num / den as mantissa * 2^exp with the mantissa in [1/2, 1).            *)
RECURSIVE Frexp(_, _)
Frexp(n, d) ==
    IF n >= d THEN LET r == Frexp(n, 2 * d) IN [r EXCEPT !.exp = @ + 1]
    ELSE IF 2 * n < d THEN LET r == Frexp(2 * n, d) IN [r EXCEPT !.exp = @ - 1]
    ELSE [num |-> n, den |-> d, exp |-> 0]
Split(n, d) == IF n = 0 THEN [num |-> 0, den |-> 1, exp |-> 0] ELSE Frexp(n, d)

RECURSIVE Mantissa(_, _, _)
Mantissa(n, d, k) ==
    LET g == (n * More) \div d
        f == (n * More) % d
    IN  IF f = 0 \/ k = 1 THEN <<g>> ELSE Append(Mantissa(f, d, k - 1), g)

CodeD(num, den) ==
    LET r == Split(Magnitude(num), den)
        signs == (IF num < 0 THEN 1 ELSE 0) + (IF r.exp < 0 THEN 2 ELSE 0)
        m == Mantissa(r.num, r.den, MaxGroups)
    IN  <<signs>> \o CodeU(Magnitude(r.exp))
          \o [i \in DOMAIN m |-> IF i = Len(m) THEN m[i] ELSE m[i] + More]

(* One byte more of a number: the value so far and whether it is complete. *)
TakeU(v, c) == [v |-> ((v * More) + (c % More)) % ULong, done |-> c < More]
AsSigned(v) == IF v >= ULong \div 2 THEN v - ULong ELSE v
TakeL(v, c) ==
    IF c >= More THEN TakeU(v, c)
    ELSE LET m == AsSigned(((v * Sign) + (c % Sign)) % ULong)
         IN  [v |-> IF c >= Sign THEN -m - 1 ELSE m, done |-> TRUE]
TakeM(v, c, m) == [v |-> (v * Byte + c) % ULong, done |-> m < Byte]
TakeD(f, c) == [num |-> f.num + (c % More) * f.den, den |-> f.den * More, done |-> c < More]

(* The value of a fraction from its signs, its exponent and its mantissa.  *)
JoinD(signs, exp, f) ==
    LET n == IF signs % 2 = 1 THEN -f.num ELSE f.num
    IN  IF signs >= 2 THEN [num |-> n, den |-> f.den * 2 ^ exp]
        ELSE [num |-> n * 2 ^ exp, den |-> f.den]
=============================================================================
