------------------------------ MODULE MCSfText ------------------------------
(***************************************************************************)
(* The calls for TLC: one directive of every kind on values at the edges   *)
(* of its type, and formats that mix directives, text, numbers of the      *)
(* pattern taken from arguments, pos$, %n, %! and portable numbers.        *)
(***************************************************************************)
EXTENDS SfText

MCBits == [char |-> 4, short |-> 5, int |-> 6, long |-> 12]

(* Patterns, directives and what scanning them gives.                      *)
P0 == [conv |-> "d", flags |-> << >>, size |-> "int", width |-> Unset, precis |-> Unset,
       base |-> Unset, limit |-> Unset, pos |-> -1, set |-> {}, no |-> FALSE]
Dir(p) == [kind |-> "dir", p |-> p, skip |-> FALSE]
At1(n, p) == Dir([p EXCEPT !.pos = n])
Conv(c) == [P0 EXCEPT !.conv = c]
Exactly(v) == [kind |-> "is", val |-> v]
To(i) == [place |-> i]
Num(v) == [int |-> v]

Task(form, args, reform, dests, want) ==
    [form |-> form, args |-> args, reform |-> reform, dests |-> dests, want |-> want,
     plain |-> TRUE, whole |-> TRUE]

FlagSets == {<< >>, <<"-">>, <<"0">>, <<"+">>, <<" ">>, <<"#">>, <<"'">>, <<"+", "0">>,
             <<"#", "0">>, <<"-", "#">>, <<" ", "0">>, <<"-", "+">>}
Edge(bits, signed) ==
    IF signed THEN {-(2 ^ (bits - 1)), -1, 0, 1, 2 ^ (bits - 1) - 1} ELSE {0, 1, 2 ^ bits - 1}

Blanks1 == [kind |-> "blank", stop |-> -1]
Exact(i, v) == [k \in {i} |-> Exactly(v)]
Has(p, c) == c \in Range(p.flags)

(* What is printed of an integer is read back by the same conversion, or,  *)
(* when it shows its base, by %i.  Zero with precision 0 shows nothing.    *)
IntPatterns ==
    {p \in [conv : Ints, flags : FlagSets, size : DOMAIN MCBits, width : {Unset, 5},
            precis : {Unset, 0, 3}, base : {Unset, 2, 36, 64}, limit : {Unset}, pos : {-1},
            set : {{}}, no : {FALSE}] :
       /\ p.base # Unset => p.conv \in {"d", "u"} /\ p.precis # 0
       /\ p.conv \in {"i", "X"} => p.size = "int"
       /\ p.size \in {"char", "short"} => p.width = Unset /\ Len(p.flags) < 2}
IntBack(p) ==
    IF Has(p, "#") /\ p.conv = "d" /\ p.base # Unset
    THEN [p EXCEPT !.conv = "i", !.base = Unset, !.width = Unset, !.flags = << >>]
    ELSE [p EXCEPT !.width = Unset, !.flags = << >>,
                   !.conv = IF @ = "i" /\ (p.precis > 0 \/ Has(p, "0")) THEN "d" ELSE @]
IntTask(p, v, arg) ==
    LET readable == ~(p.precis = 0 /\ v = 0) /\ ~(Has(p, "#") /\ p.conv = "u" /\ p.base # Unset)
        one == Task(<<Dir(p)>>, <<Num(arg)>>, <<Dir(IntBack(p)), Blanks1>>, <<To(1)>>, Exact(1, v))
    IN  IF readable THEN one
        ELSE [one EXCEPT !.reform = << >>, !.want = << >>, !.whole = FALSE]
IntTasks ==
    UNION {{IntTask(p, v, v + k) : v \in Edge(MCBits[p.size], p.conv \in {"d", "i"}),
                                   k \in {0, IF p.flags = << >> THEN 2 ^ MCBits[p.size] ELSE 0}} :
             p \in IntPatterns}

(* Fractions: %f is within half a unit of its last digit, %e and %g within *)
(* half a unit of theirs, %a within one; with 6 digits they are exact.      *)
Q(n, d) == [num |-> n, den |-> d]
Values == {Q(0, 1), Q(3, 2), Q(-5, 4), Q(1, 8), Q(7, 8), Q(999, 1), Q(-1, 64), Q(1999, 2)}
FloatPatterns ==
    {p \in [conv : Floats, flags : {<< >>, <<"-">>, <<"0">>, <<"+">>, <<"#">>, <<"'">>, <<" ", "0">>}, size : {"int"}, width : {Unset, 9},
            precis : {Unset, 0, 1, 3}, base : {Unset}, limit : {Unset}, pos : {-1},
            set : {{}}, no : {FALSE}] :
       /\ p.conv \in {"a", "A"} => p.precis # Unset
       /\ p.conv \in {"E", "G", "A"} => p.width = Unset}
Lower(conv) == CASE conv = "E" -> "e" [] conv = "G" -> "g" [] conv = "A" -> "a" [] OTHER -> conv
Near(a, un, ud) == [kind |-> "near", num |-> a.num, den |-> a.den, un |-> un, ud |-> ud]
Want(p, a) ==
    LET d == p.precis
        m == IF a.num < 0 THEN -a.num ELSE a.num
    IN  CASE a.num = 0 \/ d = Unset -> Near(a, 1, 0)
          [] p.conv = "f" -> Near(a, 2 * 10 ^ d, 1)
          [] p.conv \in {"e", "E"} -> Near(a, 2 * 10 ^ d * a.den, m)
          [] p.conv \in {"g", "G"} -> Near(a, 2 * 10 ^ (IF d > 0 THEN d - 1 ELSE 0) * a.den, m)
          [] p.conv \in {"a", "A"} -> Near(a, 16 ^ d * a.den, m)
FloatTasks ==
    {LET one == Task(<<Dir(p)>>, <<a>>, <<Dir([P0 EXCEPT !.conv = Lower(p.conv)]), Blanks1>>,
                     <<To(1)>>, [k \in {1} |-> Want(p, a)])
     IN  IF p.conv \in {"a", "A"} /\ Has(p, "0") /\ p.width # Unset
         THEN [one EXCEPT !.reform = << >>, !.want = << >>, !.whole = FALSE] ELSE one :
       p \in FloatPatterns, a \in Values}
(* %.0f of a number under 1 that rounds up shows 0; zeros before 0x.       *)
Shows0(t) == t.form[1].p.conv = "f" /\ t.form[1].p.precis = 0 /\ t.args[1] = Q(7, 8)

(* Strings and characters.                                                 *)
ABCD == <<97, 98, 99, 100>>
StringTasks ==
    {LET p == [P0 EXCEPT !.conv = "s", !.flags = f, !.width = w, !.precis = d, !.limit = l]
         kept == Take(ABCD, Smaller(IF d < 0 THEN 4 ELSE d, IF l < 0 THEN 4 ELSE l))
     IN  Task(<<Dir(p)>>, <<[str |-> ABCD]>>,
              <<Dir([P0 EXCEPT !.conv = "s", !.limit = m, !.width = 4]), Blanks1>>, <<To(1)>>,
              Exact(1, Take(kept, IF m < 0 THEN 4 ELSE m - 1))) :
       f \in {<< >>, <<"-">>}, w \in {Unset, 6}, d \in {Unset, 3}, l \in {Unset, 2}, m \in {Unset, 3}}
CharTasks ==
    {LET p == [P0 EXCEPT !.conv = "c", !.flags = f, !.width = w, !.precis = d]
         times == IF d <= 0 THEN 1 ELSE d
     IN  Task(<<Dir(p)>>, <<[chr |-> c]>>,
              <<Blanks1, Dir([P0 EXCEPT !.conv = "c", !.width = times]), Blanks1>>, <<To(1)>>,
              Exact(1, Copies(c, times))) :
       f \in {<< >>, <<"-">>}, w \in {Unset, 5}, d \in {Unset, 0, 2}, c \in {65}}
EscapeTasks ==
    {[Task(<<Dir([P0 EXCEPT !.conv = "c", !.flags = <<"#">>, !.width = 3])>>, <<[chr |-> c]>>,
           << >>, << >>, << >>) EXCEPT !.whole = FALSE] : c \in {7, 8, 10, 65, 92, 200}}

(* Formats of several items.                                               *)
Txt(t) == [kind |-> "text", text |-> t]
Chr(c) == [kind |-> "char", c |-> c]
CountItem == [kind |-> "count"]
EnvItem == [kind |-> "env"]
Skip(p) == [Dir(p) EXCEPT !.skip = TRUE]
Coded(c) == [kind |-> "number", code |-> c, max |-> 500]
EnvArg(form, args) ==
    [form |-> form, args |-> args, ext |-> "plain", keep |-> FALSE, value |-> [int |-> 7, place |-> 9],
     text |-> <<88, 89>>]
D == Conv("d")
Long == [D EXCEPT !.size = "long"]
Semi == <<59>>

Mixed == {
    \* the numbers of a pattern are arguments, before the one it shows
    Task(<<Dir([D EXCEPT !.width = Star, !.precis = Star]), Txt(Semi), Dir(D)>>,
         <<Num(-5), Num(3), Num(7), Num(-9)>>,
         <<Dir(D), Blanks1, Chr(59), Dir([D EXCEPT !.width = 2])>>, <<To(1), To(2)>>,
         (1 :> Exactly(7)) @@ (2 :> Exactly(-9))),
    \* pos$ in any order, twice, with a number of the pattern, then the next
    Task(<<At1(1, [D EXCEPT !.width = StarAt(0)]), Txt(Semi), Dir(Long)>>,
         <<Num(4), Num(9), Num(1500)>>,
         <<At1(1, D), Chr(59), At1(0, Long)>>, <<To(1), To(2)>>,
         (2 :> Exactly(9)) @@ (1 :> Exactly(1500))),
    Task(<<At1(1, D), Txt(Semi), At1(0, D), Txt(Semi), At1(1, D)>>, <<Num(4), Num(-9)>>,
         <<Dir(D), Chr(59), Dir(D), Chr(59), Dir(D)>>, <<To(1), To(2), To(3)>>,
         (1 :> Exactly(-9)) @@ (2 :> Exactly(4)) @@ (3 :> Exactly(-9))),
    \* %n on both sides, and an item that is skipped
    Task(<<Dir(D), CountItem, Txt(Semi), Dir(D)>>, <<Num(31), To(5), Num(-32)>>,
         <<Skip(D), CountItem, Chr(59), Dir(D)>>, <<To(6), To(1)>>,
         (1 :> Exactly(-32)) @@ (5 :> Exactly(2)) @@ (6 :> Exactly(2))),
    \* a list of strings, read by a class of characters
    Task(<<Dir([P0 EXCEPT !.conv = "s", !.base = 59])>>, <<[list |-> <<<<97>>, <<98, 99>>>>]>>,
         <<Dir([P0 EXCEPT !.conv = "[", !.set = {59}, !.no = TRUE]), Chr(59), Dir(Conv("s"))>>,
         <<To(1), To(2)>>, (1 :> Exactly(<<97>>)) @@ (2 :> Exactly(<<98, 99>>))),
    \* an environment in the middle, and one within it
    Task(<<Txt(Semi), EnvItem, Txt(Semi), Dir(D)>>,
         <<EnvArg(<<Dir(D), EnvItem, Txt(Semi)>>, <<Num(1), EnvArg(<<Txt(Semi), Dir(D)>>, <<Num(2)>>)>>), Num(3)>>,
         <<Chr(59), EnvItem, Chr(59), Dir(D)>>,
         <<EnvArg(<<Dir(D), Chr(59), Dir(D), Chr(59)>>, <<To(1), To(2)>>), To(3)>>,
         (1 :> Exactly(1)) @@ (2 :> Exactly(2)) @@ (3 :> Exactly(3))),
    \* pos$ after an environment
    Task(<<EnvItem, Txt(Semi), At1(2, D), Txt(Semi), At1(1, D)>>,
         <<EnvArg(<<Dir(D)>>, <<Num(1)>>), Num(2), Num(3)>>,
         <<Dir(D), Chr(59), Dir(D), Chr(59), Dir(D)>>, <<To(1), To(2), To(3)>>,
         (1 :> Exactly(1)) @@ (2 :> Exactly(3)) @@ (3 :> Exactly(2))),
    \* the function of the last environment gives the values
    Task(<<Dir(D), Txt(Semi), EnvItem>>,
         <<Num(1), [EnvArg(<<Dir([D EXCEPT !.width = Star])>>, << >>) EXCEPT !.ext = "value"]>>,
         <<Dir(D), Chr(59), EnvItem>>,
         <<To(1), [EnvArg(<<Dir(D)>>, << >>) EXCEPT !.ext = "value"]>>,
         (1 :> Exactly(1)) @@ (9 :> Exactly(7))),
    \* a newline is any white space
    Task(<<Dir(D), Txt(<<32, 10, 32>>), Dir(D)>>, <<Num(1), Num(2)>>,
         <<Dir(D), [Blanks1 EXCEPT !.stop = 10], Dir(D)>>, <<To(1), To(2)>>,
         (1 :> Exactly(1)) @@ (2 :> Exactly(2)))}

CodedTasks ==
    {Task(<<Coded("u"), Coded("l"), Coded("m"), Coded("l")>>, <<Num(u), Num(l), [int |-> m, max |-> 500], Num(-l - 1)>>,
          <<Coded("u"), Coded("l"), Coded("m"), Coded("l")>>, <<To(1), To(2), To(3), To(4)>>,
          (1 :> Exactly(u)) @@ (2 :> Exactly(l)) @@ (3 :> Exactly(m)) @@ (4 :> Exactly(-l - 1))) :
       u \in {0, 7, 8, 511, 4095}, l \in {0, 3, 4, 31, 32, 2047}, m \in {0, 15, 16, 500}}
FractionTasks ==
    {Task(<<Coded("d"), Coded("d")>>, <<a, b>>, <<Coded("d"), Coded("d")>>, <<To(1), To(2)>>,
          (1 :> Near(a, 1, 0)) @@ (2 :> Near(b, 1, 0))) :
       a \in Values, b \in Values}

(* Environments that are ended early, refuse it, change the function of    *)
(* the one in work, or print and read themselves.                          *)
Odd(form, args, reform, dests) ==
    [Task(form, args, reform, dests, << >>) EXCEPT !.plain = FALSE, !.whole = FALSE]
Env1(ext, keep) == [EnvArg(<<Dir(D), Dir(D)>>, <<Num(1), Num(2)>>) EXCEPT !.ext = ext, !.keep = keep]
Own1 == [EnvArg(None, << >>) EXCEPT !.ext = "own"]
OddTasks ==
    {Odd(<<Dir(D), EnvItem, Txt(Semi), Dir(D), Dir(D)>>, <<Num(1), e, Num(2), Num(3)>>,
         <<Dir(D), EnvItem, Chr(59), Dir(D)>>, <<To(1), f, To(2), To(3)>>) :
       e \in {Env1("stop", k) : k \in BOOLEAN} \union {Own1, [Own1 EXCEPT !.ext = "null"],
                                                        [Own1 EXCEPT !.ext = "stop"]},
       f \in {Own1, [Own1 EXCEPT !.ext = "null"], [Own1 EXCEPT !.ext = "plain"],
              [Own1 EXCEPT !.ext = "stop"]}} \union
    {Odd(<<EnvItem, Dir(D), EnvItem, Dir(D), EnvItem, Dir(D)>>,
         <<e, Num(1), [Own1 EXCEPT !.ext = "plain"], Num(2), e, Num(3)>>, << >>, << >>) :
       e \in {[Own1 EXCEPT !.ext = "plain", !.keep = k] : k \in BOOLEAN}} \union
    {Odd(<<EnvItem, Dir(D), EnvItem, Dir(D)>>, <<Own1, [Own1 EXCEPT !.ext = "plain"], Num(2)>>,
         << >>, << >>)} \union
    {Odd(<<EnvItem, EnvItem, At1(3, D), Dir(D)>>, <<Env1("plain", FALSE), Env1("plain", FALSE), Num(1), Num(2), Num(3)>>,
         << >>, << >>)}

MCTasks ==
    IntTasks \union {t \in FloatTasks : ~Shows0(t)} \union StringTasks \union CharTasks
      \union EscapeTasks \union Mixed \union CodedTasks \union FractionTasks \union OddTasks

(* An environment whose function gives values, and a directive after it.   *)
AfterEnv ==
    {Task(<<EnvItem, Txt(Semi), Dir(D)>>, <<[Env1("value", FALSE) EXCEPT !.args = << >>], Num(1)>>,
          << >>, << >>, << >>)}
(* A long named by pos$ and a string after it.                             *)
LongFirst ==
    {Task(<<At1(0, Long), Txt(Semi), At1(1, Conv("s"))>>, <<Num(1500), [str |-> ABCD]>>,
          << >>, << >>, << >>)}
TwoPlaces ==
    {Task(<<Dir(D), Txt(Semi), Dir(D)>>, <<Num(1), Num(2)>>,
          <<At1(0, D), Chr(59), At1(1, D)>>, <<To(1), To(2)>>, << >>)}
=============================================================================
