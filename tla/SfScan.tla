------------------------------- MODULE SfScan -------------------------------
(***************************************************************************)
(* How sfvscanf converts the input for one pattern.  A scan is at pos in   *)
(* the input, the character inp last read or -1 at the end, with width     *)
(* characters left to the field.  A pattern reads one character too many   *)
(* and puts it back if the field had room for it.  A number is the value   *)
(* modulo the bits of its type, a fraction a pair num / den.               *)
(***************************************************************************)
EXTENDS Integers, Sequences

CONSTANTS
    Bits,       \* [char, short, int, long |-> number of bits]
    Thousand    \* the thousands separator of the locale, or 0 for none

MaxWidth == 1000
Blank == {9, 10, 11, 12, 13, 32}

Get(in, s) == IF s.pos <= Len(in) THEN [s EXCEPT !.pos = @ + 1, !.inp = in[s.pos]]
              ELSE [s EXCEPT !.inp = -1]
Unget(s) == [s EXCEPT !.pos = @ - 1]
(* --width > 0 && SFgetc(f,inp) >= 0                                       *)
Step(in, s) == IF s.width > 1 THEN Get(in, [s EXCEPT !.width = @ - 1])
               ELSE [s EXCEPT !.width = @ - 1]
Going(s) == s.width > 0 /\ s.inp >= 0

(* The value of a digit in the tables for bases up to 36 and up to 64.     *)
Value36(c) ==
    IF c \in 48 .. 57 THEN c - 48
    ELSE IF c \in 97 .. 122 THEN c - 87
    ELSE IF c \in 65 .. 90 THEN c - 55
    ELSE IF c = 64 THEN 62 ELSE IF c = 95 THEN 63 ELSE 64
Value(base, c) ==
    IF base > 36 /\ c \in 65 .. 90 THEN c - 29 ELSE Value36(c)

RECURSIVE SkipBlanks(_, _)
SkipBlanks(in, s) == LET t == Get(in, s) IN IF t.inp \in Blank THEN SkipBlanks(in, t) ELSE t

(* What a conversion comes to: "ok", "pop" when the input does not match   *)
(* (the format that holds this one goes on), "done" at the end of input.   *)
Failed(s) == [s |-> s, end |-> "pop", val |-> 0]
Ended(s) == [s |-> s, end |-> "done", val |-> 0]
Scanned(s, v) == [s |-> s, end |-> "ok", val |-> v]

(* The digits of a base other than 10.                                     *)
Top == 2 ^ Bits["long"]
RECURSIVE Convert(_, _, _, _)
Convert(in, s, base, v) ==
    LET u == (v * base + Value(base, s.inp)) % Top
        t == Step(in, s)
    IN  IF Going(t) /\ Value(base, t.inp) < base THEN Convert(in, t, base, u) ELSE Scanned(t, u)

(* Digits of base 10, in groups of three after a first separator.  sep     *)
(* says that one was seen, n counts the digits since.                      *)
RECURSIVE Ten(_, _, _, _, _)
Ten(in, s, v, n, sep) ==
    LET digit == s.inp \in 48 .. 57
        group == s.inp = Thousand /\ (IF sep THEN n = 3 ELSE n <= 3)
        u == IF digit THEN (v * 10 + s.inp - 48) % Top ELSE v
        k == IF digit THEN n + 1 ELSE 0
        t == Step(in, s)
    IN  IF ~digit /\ ~group THEN IF n > 0 \/ sep THEN Scanned(s, v) ELSE Failed(Unget(s))
        ELSE IF Going(t) THEN Ten(in, t, u, k, sep \/ group)
        ELSE Scanned(t, u)

Hex(in, s) ==
    LET a == IF s.inp = 48 THEN Step(in, s) ELSE s
        b == IF s.inp = 48 /\ Going(a) /\ a.inp \in {88, 120} THEN Step(in, a) ELSE a
    IN  IF Value36(s.inp) >= 16 THEN Failed(Unget(s))
        ELSE IF b.inp >= 0 /\ Value36(b.inp) < 16 THEN Convert(in, b, 16, 0)
        ELSE Scanned(b, 0)

Based(in, s, base) ==
    IF base \notin 2 .. 64 \/ Value(base, s.inp) >= base THEN Failed(Unget(s))
    ELSE Convert(in, s, base, 0)

(* %i also reads 0 and 0x numbers and base#value.                          *)
SelfBased(in, s, p) ==
    LET r == Ten(in, s, 0, 0, FALSE)
        t == Step(in, r.s)
    IN  IF r.end # "ok" \/ p.conv # "i" \/ r.s.inp # 35 \/ "#" \in p.flags THEN r
        ELSE IF r.val \notin 2 .. 64 THEN Failed(r.s)
        ELSE IF Going(t) /\ Value(r.val, t.inp) < r.val THEN Convert(in, t, r.val, 0)
        ELSE Scanned(t, 0)

Peeked(in, s) == s.width > 1 /\ s.pos <= Len(in) /\ in[s.pos] \in {88, 120}
IntBase(in, s, p) ==
    CASE p.conv = "o" -> 8
      [] p.conv \in {"x", "X"} -> 16
      [] p.conv = "i" /\ s.inp = 48 -> IF Peeked(in, s) THEN 16 ELSE 8
      [] OTHER -> p.base

RECURSIVE SkipSign(_, _)
SkipSign(in, s) ==
    LET t == Step(in, s) IN IF Going(t) /\ t.inp \in Blank THEN SkipSign(in, t) ELSE t

Cut(p, v) ==
    LET bits == Bits[p.size]
        u == v % 2 ^ bits
    IN  IF p.conv \in {"d", "i"} /\ u >= 2 ^ (bits - 1) THEN u - 2 ^ bits ELSE u

ScanInt(in, s0, p) ==
    LET minus == s0.inp = 45
        s == IF s0.inp \in {43, 45} THEN SkipSign(in, s0) ELSE s0
        base == IntBase(in, s, p)
        r == IF base = 16 THEN Hex(in, s)
             ELSE IF base = 10 THEN SelfBased(in, s, p) ELSE Based(in, s, base)
    IN  IF minus /\ p.conv \notin {"d", "i"} THEN Failed(Unget(s0))
        ELSE IF s.inp < 0 THEN Ended(s)
        ELSE IF r.end # "ok" THEN r
        ELSE Scanned(r.s, Cut(p, IF minus THEN -r.val ELSE r.val))

(* The decimal and hexadecimal fractions of _sfdscan, which knows only c,  *)
(* 0 at the end of the input or of the field.                              *)
Next(in, s) ==
    IF s.width = 0 \/ s.pos > Len(in) THEN [s EXCEPT !.inp = -1]
    ELSE [s EXCEPT !.pos = @ + 1, !.inp = in[s.pos], !.width = @ - 1]
After(in, s, set) == IF s.inp \in set THEN Next(in, s) ELSE s
Decimals == 48 .. 57
Point == 46
Suffix == {70, 76, 102, 108}

RECURSIVE Skipped(_, _)
Skipped(in, s) == IF s.inp = 48 THEN Skipped(in, Next(in, s)) ELSE s

RECURSIVE Whole(_, _, _)
Whole(in, s, v) ==
    IF s.inp \in Decimals THEN Whole(in, Next(in, s), 10 * v + s.inp - 48)
    ELSE [s |-> s, val |-> v]

(* mark \in marks, a sign and digits: an exponent, with the suffix.        *)
Power(in, s, marks) ==
    LET a == Next(in, s)
        r == Whole(in, After(in, a, {43, 45}), 0)
    IN  IF s.inp \notin marks THEN [s |-> After(in, s, Suffix), val |-> 0]
        ELSE [s |-> After(in, r.s, Suffix), val |-> IF a.inp = 45 THEN -r.val ELSE r.val]

Scaled(n, b, e) == IF e >= 0 THEN [num |-> n * b ^ e, den |-> 1] ELSE [num |-> n, den |-> b ^ (-e)]

(* acc: the value n of the digits, how many, how many before the point     *)
(* (-1 without one), whether the point may still come, and the number of   *)
(* digits at the last separator (0 without one).                           *)
RECURSIVE DigitsOf(_, _, _)
DigitsOf(in, s, acc) ==
    CASE s.inp \in Decimals ->
           DigitsOf(in, Next(in, s), [acc EXCEPT !.n = 10 * @ + s.inp - 48, !.digits = @ + 1])
      [] s.inp \notin Decimals /\ ~(acc.sep > 0 /\ acc.digits - acc.sep # 3) /\ s.inp = Point /\ acc.point ->
           DigitsOf(in, Next(in, s), [acc EXCEPT !.sep = 0, !.point = FALSE, !.fraction = acc.digits])
      [] s.inp = Thousand /\ ~(acc.sep > 0 /\ acc.digits - acc.sep # 3) /\ acc.digits > 0 ->
           DigitsOf(in, Next(in, s), [acc EXCEPT !.sep = acc.digits])
      [] OTHER -> [s |-> s, acc |-> acc]

RECURSIVE HexDigits(_, _, _)
HexDigits(in, s, acc) ==
    CASE s.inp >= 0 /\ Value36(s.inp) < 16 ->
           HexDigits(in, Next(in, s), [acc EXCEPT !.n = 16 * @ + Value36(s.inp), !.digits = @ + 1])
      [] s.inp = Point /\ acc.point ->
           HexDigits(in, Next(in, s), [acc EXCEPT !.point = FALSE, !.fraction = acc.digits])
      [] OTHER -> [s |-> s, acc |-> acc]

Start == [n |-> 0, digits |-> 0, fraction |-> -1, point |-> TRUE, sep |-> 0]
After0(acc) == IF acc.fraction >= 0 THEN acc.digits - acc.fraction ELSE 0
Signed(minus, q) == IF minus THEN [q EXCEPT !.num = -@] ELSE q

ScanFloat(in, s0) ==
    LET a == Next(in, s0)
        b == After(in, a, {43, 45})
        c == IF b.inp = 48 THEN Next(in, b) ELSE b
        hex == b.inp = 48 /\ c.inp \in {88, 120}
        r == IF hex THEN HexDigits(in, Next(in, c), Start)
             ELSE DigitsOf(in, Skipped(in, c), Start)
        e == Power(in, r.s, IF hex THEN {80, 112} ELSE {69, 101})
    IN  IF b.inp \notin Decimals \union {Point}
        THEN Failed(IF b.inp >= 0 THEN Unget(b) ELSE b)
        ELSE Scanned(e.s, Signed(a.inp = 45,
                IF hex THEN Scaled(r.acc.n, 2, e.val - 4 * After0(r.acc))
                ELSE Scaled(r.acc.n, 10, e.val - After0(r.acc))))

(* %s, %c and %[: the characters read, of which limit are kept.            *)
RECURSIVE Letters(_, _, _, _)
Letters(in, s, stop, text) ==
    LET t == Step(in, s)
    IN  IF s.inp \in stop THEN [s |-> s, text |-> text]
        ELSE IF Going(t) THEN Letters(in, t, stop, Append(text, s.inp))
        ELSE [s |-> t, text |-> Append(text, s.inp)]

ScanText(in, s, p) ==
    LET stop == CASE p.conv = "s" -> Blank [] p.conv = "c" -> {}
                  [] OTHER -> IF p.no THEN p.set ELSE (0 .. 255) \ p.set
        r == Letters(in, s, stop, << >>)
        limit == IF p.limit < 0 THEN MaxWidth ELSE IF p.conv = "c" THEN p.limit ELSE p.limit - 1
    IN  IF p.conv = "[" /\ r.text = << >> /\ "#" \notin p.flags THEN Failed(Unget(r.s))
        ELSE Scanned(r.s, IF Len(r.text) <= limit THEN r.text ELSE SubSeq(r.text, 1, limit))

(* One pattern: the first character, the conversion, and the lookahead     *)
(* given back.                                                             *)
Texts == {"s", "c", "["}
Floats == {"e", "f", "g", "a"}
ScanOne(in, pos, width, p) ==
    LET w == IF width > 0 THEN width ELSE IF p.conv = "c" THEN 1 ELSE MaxWidth
        s0 == [pos |-> pos, inp |-> -1, width |-> w]
        s == IF p.conv \in {"c", "["} THEN Get(in, s0) ELSE SkipBlanks(in, s0)
        r == CASE p.conv \in Texts -> ScanText(in, s, p)
               [] p.conv \in Floats -> ScanFloat(in, Unget(s))
               [] OTHER -> ScanInt(in, s, p)
    IN  IF s.inp < 0 THEN Ended(s)
        ELSE IF r.end = "ok" /\ r.s.width > 0 /\ r.s.inp >= 0 THEN [r EXCEPT !.s = Unget(@)]
        ELSE r
=============================================================================
