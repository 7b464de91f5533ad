------------------------------- MODULE SfText -------------------------------
(***************************************************************************)
(* A format printed by sfvprintf, or numbers put in their portable code,   *)
(* and what was printed scanned back by sfvscanf or sfgetu and the like.   *)
(*                                                                         *)
(* A format is a sequence of items, an argument list a sequence: numbers,  *)
(* strings, formatting environments (%!), and for scanning the names of    *)
(* the places to assign.  Both functions keep the rest of the format, the  *)
(* rest of the arguments, the position table fp (None without pos$), the   *)
(* last argument used and the extension function of the environment; %!    *)
(* puts them on a stack.  What a directive prints goes to the buffer if    *)
(* there is room, and otherwise through a call that may fail.              *)
(***************************************************************************)
EXTENDS SfPrint

CONSTANTS
    UBits, BBits, LongBits, MaxGroups,   \* of the portable numbers
    Tasks,      \* the calls: how, form, args, and reform and dests to scan
    BufSize,    \* free bytes in the buffer of the stream
    MaxFails    \* calls on the stream that may fail

S == INSTANCE SfScan
N == INSTANCE SfNumber

None == << >>

VARIABLES
    task,       \* the calls that are made
    pc, phase,  \* where the call is; "print" or "scan"
    env,        \* form, args, oform, oargs, argn, fp of the format in work
    ft,         \* the environment whose extension function is used, or None
    stk,        \* the stack of %!
    pend, room, out, fails,     \* what is still to print, the buffer, the text
    fields,     \* the directives printed, with their text
    nout,       \* n_output of sfvprintf
    pos, inp,   \* the place in the input and the last character read
    num,        \* the portable number being read
    got,        \* what was assigned: [place |-> value]
    nin         \* n_assign of sfvscanf

vars == <<task, pc, phase, env, ft, stk, pend, room, out, fails, fields, nout,
          pos, inp, num, got, nin>>
printVars == <<pend, room, out, fails, fields, nout>>
scanVars == <<pos, inp, num, got, nin>>

EnvOf(form, args) ==
    [form |-> form, args |-> args, oform |-> form, oargs |-> args, argn |-> -1, fp |-> None]
NoNum == [v |-> 0, at |-> 0, signs |-> 0, exp |-> 0, mant |-> [num |-> 0, den |-> 1]]

Init ==
    /\ task \in Tasks
    /\ pc = "next" /\ phase = "print"
    /\ env = EnvOf(task.form, task.args)
    /\ ft = None /\ stk = << >>
    /\ pend = << >> /\ room = BufSize /\ out = << >> /\ fails = 0
    /\ fields = << >> /\ nout = 0
    /\ pos = 1 /\ inp = -1 /\ num = NoNum /\ got = << >> /\ nin = 0

-----------------------------------------------------------------------------
(* Arguments.  A number of a pattern is written, or Star, the next         *)
(* argument, or StarAt(n), argument n.  A reference takes the argument it  *)
(* names, or the one after the last one taken.                             *)
StarAt(n) == -10 - n
IsStar(x) == x = Star \/ x <= -10
Ref(at, fmt, size) == [at |-> at, fmt |-> fmt, size |-> size]
StarRefs(p) ==
    LET stars == SelectSeq(<<p.width, p.precis, p.base, p.limit>>, IsStar)
    IN  [i \in DOMAIN stars |->
           Ref(IF stars[i] = Star THEN -1 ELSE -stars[i] - 10, ".", "none")]
Refs(item) ==
    CASE item.kind = "dir" /\ item.skip -> StarRefs(item.p)
      [] item.kind = "dir" /\ ~item.skip ->
           Append(StarRefs(item.p),
                  Ref(item.p.pos, item.p.conv, IF item.p.conv \in Ints THEN item.p.size ELSE "none"))
      [] item.kind \in {"env", "count"} -> <<Ref(-1, item.kind, "none")>>
      [] OTHER -> << >>
AllRefs(form) == FlattenSeq([i \in DOMAIN form |-> Refs(form[i])])

FP_SET(at, argn) == IF at < 0 THEN argn + 1 ELSE at

(* sffmtpos: the table of the arguments a format names, None when it names *)
(* none.  The first reference to an argument says what it is; a number is  *)
(* fetched by the size of the last directive of the format, whatever its   *)
(* own: of a long fetched as an int the high half is not set.              *)
Dollar(form) == \E r \in Range(AllRefs(form)) : r.at >= 0
RECURSIVE Positions(_, _, _, _)
Positions(refs, argn, last, tab) ==
    IF refs = << >> THEN [last |-> last, tab |-> tab]
    ELSE LET r == Head(refs)
             n == FP_SET(r.at, argn)
         IN  Positions(Tail(refs), n, IF r.fmt = "." THEN last ELSE r.size,
                       IF n \in DOMAIN tab THEN tab
                       ELSE [i \in DOMAIN tab \union {n} |-> IF i = n THEN r ELSE tab[i]])

(* mutant: a long is fetched as an int whatever the last size              *)
FetchedNarrow(r, last, arg) ==
    IF phase = "print" /\ r.size = "long" THEN [arg EXCEPT !.int = Unsigned(@, Bits["int"])] ELSE arg
Fetched(r, last, arg) ==
    IF phase = "print" /\ r.size = "long" /\ last # "long"
    THEN [arg EXCEPT !.int = Unsigned(@, Bits["int"])] ELSE arg
sffmtpos(form, args) ==
    LET t == Positions(AllRefs(form), -1, "none", << >>)
    IN  IF ~Dollar(form) THEN None
        ELSE [n \in 0 .. Len(args) - 1 |->
                IF n \in DOMAIN t.tab
                THEN [fmt |-> t.tab[n].fmt, size |-> t.tab[n].size,
                      arg |-> Fetched(t.tab[n], t.last, args[n + 1])]
                ELSE [fmt |-> "d", size |-> "none", arg |-> args[n + 1]]]

(* The state after taking one argument: a = [env, arg].                    *)
Fp(e, at) == IF at >= 0 /\ e.fp = None THEN sffmtpos(e.oform, e.oargs) ELSE e.fp
Take1(e, at) ==
    LET fp == Fp(e, at)
        n == FP_SET(at, e.argn)
    IN  IF fp = None
        THEN [env |-> [e EXCEPT !.argn = n, !.args = Tail(@)], arg |-> Head(e.args)]
        ELSE [env |-> [e EXCEPT !.argn = n, !.fp = fp], arg |-> fp[n].arg]

(* The argument of a reference, from the extension function if it gives    *)
(* values, and the numbers of a pattern in the order they are written.     *)
Ext == IF ft = None THEN "plain" ELSE ft.ext
Gives == Ext = "value"
Taken(e, at) ==
    IF Gives /\ Fp(e, at) = None THEN [env |-> [e EXCEPT !.argn = FP_SET(at, @)], arg |-> ft.value]
    ELSE Take1(e, at)

RECURSIVE Resolve(_, _, _)
Resolve(e, xs, vs) ==
    IF xs = << >> THEN [env |-> e, v |-> vs]
    ELSE IF IsStar(Head(xs))
    THEN LET t == Taken(e, IF Head(xs) = Star THEN -1 ELSE -Head(xs) - 10)
         IN  Resolve(t.env, Tail(xs), Append(vs, t.arg.int))
    ELSE Resolve(e, Tail(xs), Append(vs, Head(xs)))
Named(r) == [env |-> r.env, width |-> r.v[1], precis |-> r.v[2], base |-> r.v[3], limit |-> r.v[4]]
Numbers(e, p) == Named(Resolve(e, <<p.width, p.precis, p.base, p.limit>>, << >>))

Item == Head(env.form)
Joined(pieces) == FlattenSeq([i \in DOMAIN pieces |-> pieces[i].text])
Rest(e) == [e EXCEPT !.form = Tail(@)]
At(kind) == pc = "next" /\ env.form # << >> /\ Item.kind = kind

-----------------------------------------------------------------------------
(* Printing *)
Printing(kind) == phase = "print" /\ At(kind)

Text ==
    /\ Printing("text")
    /\ pend' = Write(Item.text)
    /\ env' = Rest(env) /\ pc' = "emit"
    /\ UNCHANGED <<task, phase, ft, stk, room, out, fails, fields, nout, scanVars>>

(* A negative width is a flag and a width.  The environment's function may *)
(* print 2 bytes itself, give the value, or end the environment.           *)
Shown(p, k, arg) ==
    LET F == IF IsStar(p.width) /\ k.width < 0 THEN (Flags(p) \ {"zero"}) \union {"left"}
             ELSE Flags(p)
        width == IF IsStar(p.width) /\ k.width < 0 THEN -k.width ELSE k.width
    IN  [p |-> p, F |-> F, width |-> width, precis |-> k.precis, base |-> k.base,
         limit |-> k.limit, arg |-> arg,
         pieces |-> Pieces(p, F, k.limit, width, k.precis, k.base, arg)]

PutOwn(e) ==
    /\ env' = Rest([e EXCEPT !.argn = FP_SET(Item.p.pos, @)])
    /\ pend' = << >> /\ out' = out \o ft.text /\ nout' = nout + Len(ft.text)
    /\ UNCHANGED fields
Put(e, f) ==
    /\ env' = Rest(e) /\ pend' = f.pieces /\ fields' = Append(fields, f)
    /\ UNCHANGED <<out, nout>>

(* The size of an argument found in the table is the size it was given     *)
(* there; otherwise the directive tells.                                   *)
SizeOf(fp, n) == IF fp # None /\ Item.p.conv \in Ints THEN fp[n].size ELSE Item.p.size
Sized(size) == [Item.p EXCEPT !.size = IF size = "none" THEN "int" ELSE size]
PutArgument(k, t) ==
    Put(t.env, Shown(Sized(SizeOf(t.env.fp, t.env.argn)), k, t.arg))
PutDirective(k) ==
    IF Ext = "own" /\ Fp(k.env, Item.p.pos) = None THEN PutOwn(k.env)
    ELSE PutArgument(k, Taken(k.env, Item.p.pos))

Directive ==
    /\ Printing("dir") /\ Ext # "stop"
    /\ PutDirective(Numbers(env, Item.p))
    /\ pc' = "emit"
    /\ UNCHANGED <<task, phase, ft, stk, room, fails, scanVars>>

(* %n: the count so far is assigned.                                       *)
Count ==
    /\ Printing("count")
    /\ LET t == Take1(env, -1)
       IN  /\ env' = Rest(t.env)
           /\ got' = [i \in DOMAIN got \union {t.arg.place} |-> IF i = t.arg.place THEN nout ELSE got[i]]
    /\ UNCHANGED <<task, pc, phase, ft, stk, printVars, pos, inp, num, nin>>

(* sfputu, sfputl, sfputm and sfputd.                                      *)
CodeOf(item, a) ==
    CASE item.code = "u" -> N!CodeU(a.int) [] item.code = "l" -> N!CodeL(a.int)
      [] item.code = "m" -> N!CodeM(a.int, a.max) [] item.code = "d" -> N!CodeD(a.num, a.den)
Number ==
    /\ Printing("number")
    /\ pend' = Write(CodeOf(Item, Head(env.args)))
    /\ env' = Rest([env EXCEPT !.args = Tail(@)])
    /\ pc' = "emit"
    /\ UNCHANGED <<task, phase, ft, stk, room, out, fails, fields, nout, scanVars>>

(* A piece that the buffer has room for, and one that goes the hard way:   *)
(* k of its bytes are accepted, all of them unless the stream fails.  Of a *)
(* run of padding one byte is counted.                                     *)
Emit ==
    /\ pc = "emit" /\ pend # << >> /\ Len(Head(pend).text) <= room
    /\ out' = out \o Head(pend).text
    /\ room' = room - Len(Head(pend).text)
    /\ nout' = nout + Len(Head(pend).text)
    /\ pend' = Tail(pend)
    /\ UNCHANGED <<task, pc, phase, env, ft, stk, fails, fields, scanVars>>

Counted(piece, k) == IF k = 0 THEN 0 ELSE IF piece.how = "pad" THEN 1 ELSE k

EmitHard ==
    /\ pc = "emit" /\ pend # << >> /\ Len(Head(pend).text) > room
    /\ \E k \in 0 .. Len(Head(pend).text) :
           /\ out' = out \o SubSeq(Head(pend).text, 1, k)
           /\ nout' = nout + Counted(Head(pend), k)
           /\ IF k = Len(Head(pend).text)
              THEN pend' = Tail(pend) /\ UNCHANGED <<pc, fails>>
              ELSE fails < MaxFails /\ pend' = << >> /\ pc' = "done" /\ fails' = fails + 1
    /\ room' \in {0, BufSize}
    /\ UNCHANGED <<task, phase, env, ft, stk, fields, scanVars>>

Emitted ==
    /\ pc = "emit" /\ pend = << >>
    /\ pc' = "next"
    /\ UNCHANGED <<task, phase, env, ft, stk, printVars, scanVars>>

-----------------------------------------------------------------------------
(* Environments, in both functions *)

(* %!: a null argument pops; an environment without a format changes the   *)
(* function of the one in work, which may refuse; any other is stacked.    *)
(* The frame keeps the format in work and the new environment.             *)
Event(f) == f.keep
Environment ==
    /\ At("env")
    /\ LET e == [env EXCEPT !.fp = sffmtpos(env.oform, env.oargs)]
           t == Take1(env, -1)
           f == t.arg
       IN  IF env.fp # None
           THEN pc' = "pop" /\ env' = Rest(t.env) /\ UNCHANGED <<ft, stk>>
           ELSE IF f.ext = "null"
           THEN /\ env' = Rest(t.env)
                /\ pc' = (IF phase = "print" THEN "pop" ELSE "next")
                /\ UNCHANGED <<ft, stk>>
           ELSE IF f.form = None /\ ft # None
           THEN /\ env' = Rest(t.env) /\ pc' = "next"
                /\ IF Event(ft) THEN UNCHANGED <<ft, stk>>
                   ELSE ft' = f /\ stk' = [stk EXCEPT ![Len(stk)].ft = f]
           ELSE /\ pc' = "next" /\ ft' = f
                /\ LET now == [Rest(t.env) EXCEPT !.fp = e.fp]
                   IN  /\ stk' = Append(stk, [env |-> now, formed |-> f.form # None, ft |-> f])
                       /\ env' = IF f.form = None THEN now ELSE EnvOf(f.form, f.args)
    /\ UNCHANGED <<task, phase, printVars, scanVars>>

NoMemory ==
    /\ At("env") /\ env.fp = None /\ fails < MaxFails
    /\ LET t == Take1(env, -1)
       IN  t.arg.ext # "null" /\ (t.arg.form # None \/ ft = None)
    /\ fails' = fails + 1 /\ pc' = "done"
    /\ UNCHANGED <<task, phase, env, ft, stk, pend, room, out, fields, nout, scanVars>>

(* The function of the environment ends it.                                *)
Stopped ==
    /\ At("dir") /\ Ext = "stop"
    /\ env' = Rest([env EXCEPT !.argn = FP_SET(Item.p.pos, @)])
    /\ pc' = "pop"
    /\ UNCHANGED <<task, phase, ft, stk, printVars, scanVars>>

FormEnds ==
    /\ pc = "next" /\ env.form = << >>
    /\ pc' = "pop"
    /\ UNCHANGED <<task, phase, env, ft, stk, printVars, scanVars>>

(* One turn of pop_fmt.  An environment with a rest of format may refuse.  *)
(* After an environment stacked without a format, form is NULL.            *)
(* mutant: the environment is asked whether anything is left or not        *)
PopRefused ==
    /\ pc = "pop" /\ stk # << >> /\ env.form # << >> /\ Event(Last(stk).ft)
    /\ pc' = "next" /\ env' = [env EXCEPT !.fp = None]
    /\ UNCHANGED <<task, phase, ft, stk, printVars, scanVars>>

Restored == Last(stk).env
Pop ==
    /\ pc = "pop" /\ stk # << >> /\ (env.form = << >> \/ ~Event(Last(stk).ft))
    /\ stk' = Front(stk)
    /\ ft' = Last(stk).ft
    /\ env' = IF Last(stk).formed THEN Restored ELSE [env EXCEPT !.form = << >>, !.fp = None]
    /\ pc' = IF Last(stk).formed /\ Restored.form # << >> THEN "next" ELSE "pop"
    /\ UNCHANGED <<task, phase, printVars, scanVars>>

PopLast ==
    /\ pc = "pop" /\ stk = << >>
    /\ pc' = "done"
    /\ UNCHANGED <<task, phase, env, ft, stk, printVars, scanVars>>

(* The end of a call: what is left of the stack is dropped; what was       *)
(* printed is scanned.                                                     *)
Done ==
    /\ pc = "done"
    /\ stk' = << >> /\ ft' = None
    /\ IF phase = "print"
       THEN /\ phase' = "scan" /\ pc' = "next"
            /\ env' = EnvOf(task.reform, task.dests)
            /\ UNCHANGED nin
       ELSE /\ pc' = "over"
            /\ nin' = IF nin = 0 /\ inp < 0 THEN -1 ELSE nin
            /\ UNCHANGED <<phase, env>>
    /\ UNCHANGED <<task, printVars, pos, inp, num, got>>

-----------------------------------------------------------------------------
(* Scanning *)
Scanning(kind) == phase = "scan" /\ At(kind)
Assign(place, v) == [i \in DOMAIN got \union {place} |-> IF i = place THEN v ELSE got[i]]

(* White space of a format matches any; a newline of it, on a line         *)
(* buffered stream, up to a newline.                                       *)
RECURSIVE Blanks(_, _)
Blanks(p, stop) ==
    IF p > Len(out) THEN [pos |-> p, inp |-> -1]
    ELSE IF out[p] = stop THEN [pos |-> p + 1, inp |-> stop]
    ELSE IF out[p] \notin S!Blank THEN [pos |-> p, inp |-> out[p]]
    ELSE Blanks(p + 1, stop)
BlankItem ==
    /\ Scanning("blank")
    /\ LET r == Blanks(pos, Item.stop) IN pos' = r.pos /\ inp' = r.inp
    /\ env' = Rest(env)
    /\ UNCHANGED <<task, pc, phase, ft, stk, printVars, num, got, nin>>

CharItem ==
    /\ Scanning("char")
    /\ inp' = (IF pos <= Len(out) THEN out[pos] ELSE -1)
    /\ pos' = (IF inp' = Item.c THEN pos + 1 ELSE pos)
    /\ pc' = (IF inp' = Item.c THEN pc ELSE IF inp' < 0 THEN "done" ELSE "pop")
    /\ env' = Rest(env)
    /\ UNCHANGED <<task, phase, ft, stk, printVars, num, got, nin>>

(* A directive with * assigns nothing and takes no argument.  With a table *)
(* of positions the argument is counted when it is found, and again when   *)
(* it is assigned.                                                         *)
ScanPattern(p, k, size) ==
    [p EXCEPT !.base = IF k.base = Unset THEN 10 ELSE Larger(k.base, 0), !.flags = Range(@),
              !.limit = k.limit, !.size = IF size = "none" THEN "int" ELSE size]
Found(fp, n) == IF fp # None THEN n + 1 ELSE n
Scanned(t, r) ==
    /\ env' = Rest(t.env)
    /\ pos' = r.s.pos /\ inp' = r.s.inp
    /\ pc' = (IF r.end = "ok" THEN pc ELSE r.end)
    /\ IF r.end = "ok"
       THEN got' = Assign(t.arg.place, r.val) /\ nin' = Found(t.env.fp, nin) + 1
       ELSE nin' = Found(t.env.fp, nin) /\ UNCHANGED got
ScanSkip(k, r) ==
    /\ env' = Rest([k.env EXCEPT !.argn = FP_SET(Item.p.pos, @)])
    /\ pos' = r.s.pos /\ inp' = r.s.inp
    /\ pc' = (IF r.end = "ok" THEN pc ELSE r.end)
    /\ UNCHANGED <<got, nin>>
ScanNumber(k, size) == S!ScanOne(out, pos, Larger(k.width, 0), ScanPattern(Item.p, k, size))
ScanArgument(k, t) ==
    Scanned(t, ScanNumber(k, IF t.env.fp # None THEN t.env.fp[t.env.argn].size ELSE Item.p.size))
ScanAny(k) ==
    IF Item.skip THEN ScanSkip(k, ScanNumber(k, Item.p.size))
    ELSE ScanArgument(k, Taken(k.env, Item.p.pos))

ScanDirective ==
    /\ Scanning("dir") /\ Ext \notin {"stop", "own"}
    /\ ScanAny(Numbers(env, Item.p))
    /\ UNCHANGED <<task, phase, ft, stk, printVars, num>>

(* The function of the environment reads the text it printed.              *)
ScanOwn ==
    /\ Scanning("dir") /\ Ext = "own"
    /\ pos' = pos + Smaller(Len(ft.text), Len(out) + 1 - pos)
    /\ env' = Rest([env EXCEPT !.argn = FP_SET(Item.p.pos, @)])
    /\ nin' = (IF pos' > pos THEN nin + 1 ELSE nin)
    /\ pc' = (IF pos' > pos THEN pc ELSE "pop")
    /\ UNCHANGED <<task, phase, ft, stk, printVars, inp, num, got>>

(* %n: how much was read.                                                  *)
ScanCount ==
    /\ Scanning("count")
    /\ LET t == Take1(env, -1)
       IN  /\ env' = Rest(t.env)
           /\ got' = Assign(t.arg.place, pos - 1)
           /\ nin' = (IF t.env.fp # None THEN nin + 1 ELSE nin)
    /\ UNCHANGED <<task, pc, phase, ft, stk, printVars, pos, inp, num>>

(* sfgetu, sfgetl, sfgetm and sfgetd, a byte at a time.  At the end of the *)
(* input the value is -1, scaled by the exponent and sign read so far.     *)
Taken1(c) ==
    CASE Item.code = "u" -> N!TakeU(num.v, c)
      [] Item.code = "l" -> N!TakeL(num.v, c)
      [] Item.code = "m" -> N!TakeM(num.v, c, Item.max \div N!Byte ^ num.at)
Place == Head(env.args).place
NumberRead(v) ==
    /\ got' = Assign(Place, v)
    /\ num' = NoNum
    /\ env' = Rest([env EXCEPT !.args = Tail(@)])

NumberByte ==
    /\ Scanning("number") /\ Item.code # "d" /\ pos <= Len(out)
    /\ pos' = pos + 1
    /\ LET r == Taken1(out[pos])
       IN  IF r.done THEN NumberRead(r.v)
           ELSE num' = [num EXCEPT !.v = r.v, !.at = @ + 1] /\ UNCHANGED <<env, got>>
    /\ UNCHANGED <<task, pc, phase, ft, stk, printVars, inp, nin>>

FractionByte ==
    /\ Scanning("number") /\ Item.code = "d" /\ pos <= Len(out)
    /\ pos' = pos + 1
    /\ LET c == out[pos]
           u == N!TakeU(num.exp, c)
           f == N!TakeD(num.mant, c)
       IN  CASE num.at = 0 -> num' = [num EXCEPT !.signs = c, !.at = 1] /\ UNCHANGED <<env, got>>
             [] num.at = 1 ->
                  num' = [num EXCEPT !.exp = u.v, !.at = IF u.done THEN 2 ELSE 1] /\ UNCHANGED <<env, got>>
             [] num.at > 1 ->
                  IF c >= N!More
                  THEN num' = [num EXCEPT !.mant = [num |-> f.num, den |-> f.den]] /\ UNCHANGED <<env, got>>
                  ELSE NumberRead(N!JoinD(num.signs, num.exp, f))
    /\ UNCHANGED <<task, pc, phase, ft, stk, printVars, inp, nin>>

NumberEnds ==
    /\ Scanning("number") /\ pos > Len(out)
    /\ NumberRead(IF Item.code = "d" /\ num.at > 1
                  THEN N!JoinD(num.signs, num.exp, [num |-> -1, den |-> 1]) ELSE -1)
    /\ UNCHANGED <<task, pc, phase, ft, stk, printVars, pos, inp, nin>>

-----------------------------------------------------------------------------
Step ==
    \/ Text \/ Directive \/ Count \/ Number \/ Emit
    \/ EmitHard \/ Emitted
    \/ Environment \/ NoMemory \/ Stopped \/ FormEnds \/ PopRefused \/ Pop \/ PopLast \/ Done
    \/ BlankItem \/ CharItem \/ ScanDirective \/ ScanOwn \/ ScanCount
    \/ NumberByte \/ FractionByte \/ NumberEnds

Over == pc = "over" /\ UNCHANGED vars
Next == Step \/ Over
Spec == Init /\ [][Next]_vars

-----------------------------------------------------------------------------
(* What the format asks for, by the manual: each directive shows the       *)
(* argument it names, or the one after the last one used, in the type it   *)
(* names; an environment is a format of its own, whose function, if it     *)
(* gives values, is asked in it and nowhere else.                          *)
Nth(at, used) == IF at < 0 THEN used + 1 ELSE at
StarAtOf(x, used) ==
    IF ~IsStar(x) THEN used ELSE Nth(IF x = Star THEN -1 ELSE -x - 10, used)

RECURSIVE Asked(_, _, _, _)
Asked(form, args, used, f) ==
    IF form = << >> THEN << >>
    ELSE LET item == Head(form)
             p == item.p
             next == args[used + 2]
             w == StarAtOf(p.width, used)
             d == StarAtOf(p.precis, w)
             b == StarAtOf(p.base, d)
             l == StarAtOf(p.limit, b)
             n == Nth(p.pos, l)
             Arg(i) == IF f # None THEN f.value ELSE args[i + 1]
             Num(x, i) == IF IsStar(x) THEN Arg(i).int ELSE x
             k == [width |-> Num(p.width, w), precis |-> Num(p.precis, d),
                   base |-> Num(p.base, b), limit |-> Num(p.limit, l)]
         IN  CASE item.kind = "text" -> item.text \o Asked(Tail(form), args, used, f)
               [] item.kind = "count" -> Asked(Tail(form), args, used + 1, f)
               [] item.kind = "number" ->
                    CodeOf(item, next) \o Asked(Tail(form), args, used + 1, f)
               [] item.kind = "env" ->
                    Asked(next.form, next.args, -1, IF next.ext = "value" THEN next ELSE None)
                      \o Asked(Tail(form), args, used + 1, f)
               [] item.kind = "dir" ->
                    Joined(Shown(p, k, Arg(n)).pieces) \o Asked(Tail(form), args, n, f)

(* A printed format is what it asks for, unless the stream failed; then it *)
(* is a part of it.                                                        *)
Printed == pc = "done" /\ phase = "print"
AsAsked ==
    Printed /\ task.plain =>
        LET asked == Asked(task.form, task.args, -1, None)
        IN  IF fails = 0 THEN out = asked ELSE IsPrefix(out, asked)

(* A field is as wide as asked, or as long as what it shows if that is     *)
(* longer, with what it shows to the left or to the right; the zeros that  *)
(* fill it stand after the sign.  A string shows at most precis            *)
(* characters.                                                             *)
Trim(s) == SelectSeq(s, LAMBDA c : c # Space)
Field(f) ==
    LET text == Joined(f.pieces)
        shown == Trim(text)
        content == IF f.p.conv = "s" /\ f.base < 0
                   THEN Take(f.arg.str, Smaller(IF f.precis < 0 THEN Len(text) ELSE f.precis,
                                                IF f.limit < 0 THEN Len(text) ELSE f.limit))
                   ELSE shown
        n == Len(text)
    IN  /\ n >= f.width
        /\ n > f.width =>
             n = Len(content) \/ (n = Len(content) + 1 /\ "blank" \in f.F /\ Head(text) = Space)
        /\ IsPrefix(content, text) \/ IsSuffix(content, text)
        /\ "left" \in f.F /\ n > Len(content) => Last(text) = Space
        /\ f.p.conv \in Ints \union Floats =>
             \A i \in 2 .. Len(shown) : shown[i] \in {Plus, Minus} => shown[i - 1] \notin 48 .. 57
FitsField ==
    \A i \in DOMAIN fields :
        ~(fields[i].p.conv \in {"s", "c"} /\ fields[i].base >= 0) => Field(fields[i])

(* What was printed is read back: every place has its value, a fraction    *)
(* within un / ud of the last digit, and  all of it was read.              *)
Abs(x) == IF x < 0 THEN -x ELSE x
Close(v, w) ==
    IF w.kind = "near" THEN Abs(v.num * w.den - w.num * v.den) * w.un <= w.ud * v.den * w.den
    ELSE v = w.val
ReadsBack ==
    pc = "over" /\ fails = 0 /\ task.plain =>
        /\ DOMAIN got = DOMAIN task.want
        /\ \A i \in DOMAIN task.want : Close(got[i], task.want[i])
        /\ task.whole => pos = Len(out) + 1

=============================================================================
