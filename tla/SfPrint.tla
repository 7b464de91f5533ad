------------------------------ MODULE SfPrint ------------------------------
(***************************************************************************)
(* How sfvprintf shows one argument: the flags of a pattern, the bits the  *)
(* argument is cut to, its digits in a base, the decimal digits of a       *)
(* fraction, and the padding of the field.  A character is its ASCII code, *)
(* a pattern a record (the application wrote it, so it is well formed):    *)
(*   conv, flags (in the order written), size, width, precis, base, pos    *)
(* with Unset where the pattern says nothing and Star where the number is  *)
(* an argument.  The widths of the integer types are scaled down.          *)
(***************************************************************************)
EXTENDS Integers, Sequences, SequencesExt

CONSTANTS
    Bits,       \* [char, short, int, long |-> number of bits]
    Thousand,   \* the thousands separator of the locale, or 0 for none
    MaxZeros    \* zeros that fit in the conversion buffer

Unset == -1
Star == -2

Pow(b, n) == b ^ n
Larger(a, b) == IF a > b THEN a ELSE b
Smaller(a, b) == IF a < b THEN a ELSE b

Space == 32    Hash == 35    Plus == 43    Minus == 45    Dot == 46
Zero == 48     Backslash == 92

Copies(c, n) == [i \in 1 .. Larger(n, 0) |-> c]

(* The digits: 0-9, a-z, A-Z, @ and _.                                     *)
Digit(n) == IF n < 10 THEN Zero + n
            ELSE IF n < 36 THEN 87 + n
            ELSE IF n < 62 THEN 29 + n
            ELSE IF n = 62 THEN 64 ELSE 95
Upper(c) == IF c \in 97 .. 122 THEN c - 32 ELSE c

RECURSIVE Digits(_, _)
Digits(v, b) == IF v < b THEN <<v>> ELSE Append(Digits(v \div b, b), v % b)

Codes(ds) == [i \in DOMAIN ds |-> Digit(ds[i])]

(* One flag character; '-' wins over 0, '+' over blank.                    *)
AddFlag(F, c) ==
    CASE c = "-" -> (F \ {"zero"}) \union {"left"}
      [] c = "0" -> IF "left" \in F THEN F ELSE F \union {"zero"}
      [] c = " " -> IF "sign" \in F THEN F ELSE F \union {"blank"}
      [] c = "+" -> (F \ {"blank"}) \union {"sign"}
      [] c = "#" -> F \union {"alter"}
      [] c = "'" -> IF Thousand > 0 THEN F \union {"thousand"} ELSE F

Flags(p) == FoldLeft(AddFlag, {}, p.flags)

Ints == {"d", "i", "u", "o", "x", "X"}
Floats == {"e", "E", "f", "g", "G", "a", "A"}
Signed(conv) == conv \in {"d", "i"}

(* The bits of an argument that its type keeps.                            *)
Unsigned(v, bits) == v % Pow(2, bits)
Wrap(v, bits) ==
    LET u == Unsigned(v, bits)
    IN  IF u >= Pow(2, bits - 1) THEN u - Pow(2, bits) ELSE u
Cut(p, v) == IF Signed(p.conv) THEN Wrap(v, Bits[p.size]) ELSE Unsigned(v, Bits[p.size])

Base(p, base) ==
    CASE p.conv = "o" -> 8
      [] p.conv \in {"x", "X"} -> 16
      [] OTHER -> IF base \in 2 .. 64 THEN base ELSE 10

(* The magnitude in base b.  The least number of the type has no negative  *)
(* of its own: its last digit is taken first.                              *)
Magnitude(v, bits, b) ==
    LET high == Pow(2, bits - 1)
    IN  IF v = -high
        THEN Append(Digits(high \div b, b), high - (high \div b) * b)
        ELSE Digits(IF v < 0 THEN -v ELSE v, b)

RECURSIVE Grouped(_)
Grouped(s) == IF Len(s) <= 3 THEN s
              ELSE Grouped(SubSeq(s, 1, Len(s) - 3)) \o <<Thousand>>
                     \o SubSeq(s, Len(s) - 2, Len(s))

(* What is laid out in a field: the text, the zeros still to put before an *)
(* integer or after a fraction, the exponent, and the flags.               *)
Part(F, text, zeros, tail) == [flags |-> F, text |-> text, zeros |-> zeros, tail |-> tail]

Prefixed(p, F, b, width, dotted, s) ==
    LET hex == p.conv \in {"x", "X"}
        signs == IF F \intersect {"minus", "sign"} # {} THEN 1 ELSE 0
        lead == IF hex THEN 2 ELSE IF ~dotted THEN width ELSE IF b < 10 THEN 2 ELSE 3
        fill == IF width > 0 /\ "zero" \in F
                THEN Copies(Zero, width - (lead + signs + Len(s))) ELSE << >>
    IN  IF hex THEN <<Zero, IF p.conv = "X" THEN 88 ELSE 120>> \o fill \o s
        ELSE IF dotted THEN Codes(Digits(b, 10)) \o <<Hash>> \o fill \o s
        ELSE fill \o s

IntPart(p, F0, width, precis, base, a) ==
    LET v == Cut(p, a)
        b == Base(p, base)
        F1 == IF Signed(p.conv) THEN F0 ELSE F0 \ {"sign", "blank"}
        F == IF v < 0 THEN F1 \union {"minus"} ELSE F1
        ds == Codes(Magnitude(v, Larger(Bits[p.size], Bits["int"]), b))
        cased == IF p.conv = "X" THEN [i \in DOMAIN ds |-> Upper(ds[i])] ELSE ds
        grouped == IF b = 10 /\ "thousand" \in F THEN Grouped(cased) ELSE cased
        short == precis - Len(grouped)
        room == precis > 0 /\ short < MaxZeros
        text == (IF room THEN Copies(Zero, short) ELSE << >>) \o grouped
    IN  IF v = 0 /\ precis = 0 THEN Part(F1, << >>, 0, << >>)
        ELSE Part(F,
                  IF "alter" \notin F THEN text
                  ELSE IF p.conv = "o" THEN (IF text[1] = Zero THEN text ELSE <<Zero>> \o text)
                  ELSE Prefixed(p, F, b, width, p.base # Unset, text),
                  IF precis > 0 /\ ~room THEN short ELSE 0,
                  << >>)

(* The decimal digits of the fraction n / d: a first digit that is not 0   *)
(* with %e, the integer part and want digits with %f, one more to round    *)
(* by, which is dropped.  %f of a number under 1 that rounds up to 1 with  *)
(* no digit after the point loses its only digit.                          *)
RECURSIVE Fraction(_, _, _)
Fraction(n, d, k) ==
    IF k <= 0 THEN << >> ELSE <<(10 * n) \div d>> \o Fraction((10 * n) % d, d, k - 1)

RECURSIVE Leading(_, _)
Leading(n, d) == IF 10 * n >= d THEN 0 ELSE 1 + Leading(10 * n, d)

RECURSIVE Carry(_)
Carry(ds) ==
    IF ds = << >> THEN <<1>>
    ELSE IF Last(ds) < 9 THEN Append(Front(ds), Last(ds) + 1)
    ELSE Append(Carry(Front(ds)), 0)

Rounded(ds, decpt, efmt) ==
    LET kept == Front(ds)
        up == Carry(kept)
    IN  IF Last(ds) < 5 THEN [digits |-> kept, decpt |-> decpt]
        ELSE IF Len(up) = Len(kept) THEN [digits |-> up, decpt |-> decpt]
        ELSE IF efmt THEN [digits |-> Front(up), decpt |-> decpt + 1]
        ELSE [digits |-> IF kept = << >> THEN <<0>> ELSE up, decpt |-> decpt + 1]

Cvt(n, d, want, efmt) ==
    LET whole == IF n >= d THEN Digits(n \div d, 10) ELSE << >>
        f == n % d
        skip == IF efmt /\ whole = << >> THEN Leading(f, d) ELSE 0
        decpt == Len(whole) - skip
        more == (IF efmt \/ decpt <= 0 THEN 1 ELSE decpt + 1) - Len(whole) + want
    IN  IF n = 0 THEN [digits |-> <<0>>, decpt |-> 0]
        ELSE Rounded(SubSeq(whole, 1, Smaller(Len(whole), Len(whole) + more))
                       \o Fraction(f * Pow(10, skip), d, more), decpt, efmt)

(* The digits of %a: the magnitude as 1.xxx in base 16, not rounded.       *)
RECURSIVE Halved(_, _)
Halved(n, d) == IF n >= 2 * d THEN 1 + Halved(n, 2 * d)
                ELSE IF n < d THEN Halved(2 * n, d) - 1 ELSE 0
RECURSIVE HexFraction(_, _, _)
HexFraction(n, d, k) ==
    IF k <= 0 THEN << >> ELSE <<(16 * n) \div d>> \o HexFraction((16 * n) % d, d, k - 1)
CvtHex(n, d, want) ==
    LET e == Halved(n, d)
        m == IF e >= 0 THEN [n |-> n, d |-> d * Pow(2, e)] ELSE [n |-> n * Pow(2, -e), d |-> d]
    IN  IF n = 0 THEN [digits |-> <<0>>, decpt |-> 0]
        ELSE [digits |-> <<1>> \o HexFraction(m.n % m.d, m.d, want), decpt |-> e + 1]

Exponent(mark, n, decpt) ==
    LET e == IF n = 0 THEN 0 ELSE IF decpt > 0 THEN decpt - 1 ELSE 1 - decpt
    IN  <<mark, IF decpt > 0 \/ n = 0 THEN Plus ELSE Minus>>
          \o (IF e < 10 THEN <<Zero>> ELSE << >>) \o Codes(Digits(e, 10))

Point(F, precis) == IF precis > 0 \/ "alter" \in F THEN <<Dot>> ELSE << >>
Take(s, n) == SubSeq(s, 1, Smaller(Len(s), Larger(n, 0)))
Drop(s, n) == SubSeq(s, n + 1, Len(s))

EForm(F, lead, c, n, precis, mark) ==
    LET rest == Take(Tail(c.digits), precis)
    IN  Part(F, lead \o <<Digit(Head(c.digits))>> \o Point(F, precis) \o Codes(rest),
             Larger(precis - Len(rest), 0), Exponent(mark, n, c.decpt))

FForm(F, c, precis) ==
    LET whole == Codes(Take(c.digits, c.decpt))
        zeros == Smaller(Larger(-c.decpt, 0), Larger(precis, 0))
        left == precis - Larger(-c.decpt, 0)
        rest == Take(Drop(c.digits, Len(whole)), left)
    IN  Part(F, (IF whole = << >> THEN <<Zero>>
                 ELSE IF c.decpt > 3 /\ "thousand" \in F THEN Grouped(whole) ELSE whole)
                  \o Point(F, precis) \o Copies(Zero, zeros) \o Codes(rest),
             Larger(left - Len(rest), 0), << >>)

(* %g is %e or %f by the exponent, without the zeros at the end.           *)
RECURSIVE Zapped(_, _)
Zapped(ds, n) == IF n > 1 /\ ds[n] = 0 THEN Zapped(ds, n - 1) ELSE n

GForm(F, conv, n, d, precis) ==
    LET want == IF precis = 0 THEN 1 ELSE precis
        c0 == Cvt(n, d, want, TRUE)
        c == IF n = 0 THEN [c0 EXCEPT !.decpt = 1] ELSE c0
        shown == IF "alter" \in F THEN want ELSE Zapped(c.digits, Smaller(Len(c.digits), want))
    IN  IF c.decpt < -3 \/ c.decpt > want
        THEN EForm(F, << >>, c, n, shown - 1, IF conv = "G" THEN 69 ELSE 101)
        ELSE FForm(F, c, shown - c.decpt)

FloatPart(p, F0, precis0, a) ==
    LET n == IF a.num < 0 THEN -a.num ELSE a.num
        precis == IF precis0 >= 0 THEN precis0 ELSE IF p.conv \in {"a", "A"} THEN 12 ELSE 6
        F == F0 \union {"float"} \union (IF a.num < 0 THEN {"minus"} ELSE {})
    IN  CASE p.conv \in {"e", "E"} ->
               EForm(F, << >>, Cvt(n, a.den, precis + 1, TRUE), n, precis,
                     IF p.conv = "E" THEN 69 ELSE 101)
          [] p.conv = "f" -> FForm(F, Cvt(n, a.den, precis, FALSE), precis)
          [] p.conv \in {"g", "G"} -> GForm(F, p.conv, n, a.den, precis)
          [] p.conv \in {"a", "A"} ->
               EForm(F, <<Zero, IF p.conv = "A" THEN 88 ELSE 120>>,
                     CvtHex(n, a.den, precis), n, precis, IF p.conv = "A" THEN 80 ELSE 112)

(* The pieces a pattern puts out, each with the way it is written.  A      *)
(* prefix goes before zeros and after blanks; a pattern without flags and  *)
(* width puts out its text and nothing else.                               *)
Write(s) == IF s = << >> THEN << >> ELSE <<[how |-> "write", text |-> s]>>
Pad(c, n) == IF n <= 0 THEN << >> ELSE <<[how |-> "pad", text |-> Copies(c, n)]>>
Char(c) == <<[how |-> "char", text |-> <<c>>]>>

(* mutant: the sign has no place in the field                              *)
GapUnsigned(width, prefix, part) ==
    Larger(width - (Len(part.text) + part.zeros + Len(part.tail)), 0)
Gap(width, prefix, part) ==
    Larger(width - (Len(prefix) + Len(part.text) + part.zeros + Len(part.tail)), 0)

Layout(p, width, part) ==
    LET F == part.flags
        prefix == IF "minus" \in F THEN <<Minus>> ELSE IF "sign" \in F THEN <<Plus>>
                  ELSE IF "blank" \in F THEN <<Space>> ELSE << >>
        gap == Gap(width, prefix, part)
        inner == gap > 0 /\ "zero" \notin F /\ "left" \notin F
        isFloat == "float" \in F
    IN  IF F = {} /\ p.size = "int" /\ width <= 0 THEN Write(part.text)
        ELSE (IF prefix # << >> /\ ~inner THEN Char(prefix[1]) ELSE << >>)
               \o (IF "left" \in F THEN << >> ELSE Pad(IF "zero" \in F THEN Zero ELSE Space, gap))
               \o (IF isFloat THEN << >> ELSE Pad(Zero, part.zeros))
               \o Write((IF inner THEN prefix ELSE << >>) \o part.text)
               \o (IF isFloat THEN Pad(Zero, part.zeros) ELSE << >>)
               \o Write(part.tail)
               \o (IF "left" \in F THEN Pad(Space, gap) ELSE << >>)

(* %s: a string, or with a base the strings of a list with the base        *)
(* between them; each is cut to the size and the precision and padded.     *)
OneString(F, size, width, precis, s) ==
    LET cut == IF size >= 0 THEN Smaller(size, Len(s)) ELSE Len(s)
        n == IF precis >= 0 THEN Smaller(precis, cut) ELSE cut
        gap == width - n
    IN  (IF "left" \in F THEN << >> ELSE Pad(Space, gap)) \o Write(Take(s, n))
          \o (IF "left" \in F THEN Pad(Space, gap) ELSE << >>)

RECURSIVE Listed(_, _)
Listed(parts, sep) ==
    IF parts = << >> THEN << >>
    ELSE Head(parts) \o (IF Len(parts) > 1 /\ sep > 0 THEN Char(sep) ELSE << >>)
           \o Listed(Tail(parts), sep)

StringPart(F, size, width, precis, base, a) ==
    IF base < 0 THEN OneString(F, size, width, precis, a.str)
    ELSE Listed([i \in DOMAIN a.list |-> OneString(F, size, width, precis, a.list[i])], base)

(* %c: a character, or with a base those of a string; each is repeated,    *)
(* and with # shown as C writes it.                                        *)
Printable(c) == c \in 32 .. 126
Escaped(c) ==
    IF Printable(c) /\ c # Backslash THEN <<c>>
    ELSE <<Backslash>> \o
         (CASE c = 7 -> <<97>> [] c = 11 -> <<118>> [] c = 27 -> <<69>> [] c = 8 -> <<98>>
            [] c = 12 -> <<102>> [] c = 10 -> <<110>> [] c = 13 -> <<114>> [] c = 9 -> <<116>>
            [] c = Backslash -> <<Backslash>>
            [] OTHER -> <<Zero + ((c \div 64) % 4), Zero + ((c \div 8) % 8), Zero + (c % 8)>>)

OneChar(F, width, precis, c) ==
    LET times == IF precis <= 0 THEN 1 ELSE precis
        s == IF "alter" \in F THEN Escaped(c) ELSE <<c>>
        gap == width - times * Len(s)
        body == IF "alter" \in F THEN FlattenSeq([i \in 1 .. times |-> Write(s)]) ELSE Pad(c, times)
    IN  (IF "left" \in F THEN << >> ELSE Pad(Space, gap)) \o body
          \o (IF "left" \in F THEN Pad(Space, gap) ELSE << >>)

CharPart(F, width, precis, base, a) ==
    IF base < 0 THEN OneChar(F, width, precis, a.chr)
    ELSE Listed([i \in DOMAIN a.str |-> OneChar(F, width, precis, a.str[i])], base)

(* All a pattern puts out for argument a, the numbers of Star known.       *)
Pieces(p, F, size, width, precis, base, a) ==
    CASE p.conv \in Ints -> Layout(p, width, IntPart(p, F, width, precis, base, a.int))
      [] p.conv \in Floats -> Layout(p, width, FloatPart(p, F, precis, a))
      [] p.conv = "s" -> StringPart(F, size, width, precis, base, a)
      [] p.conv = "c" -> CharPart(F, width, precis, base, a)
=============================================================================
