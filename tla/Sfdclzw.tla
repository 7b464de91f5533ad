------------------------------ MODULE Sfdclzw -------------------------------
(***************************************************************************)
(* The discipline that reads what compress(1) wrote.  A byte has Width     *)
(* bits (8 in the code); the sizes that follow from that are derived as    *)
(* they are there.  The calls of the system give all there is.             *)
(***************************************************************************)
EXTENDS SfChannel

CONSTANTS
    Width,      \* bits of a byte
    Magic       \* the first two bytes of a compressed file

Literals == 2^Width
CodeClear == Literals
CodeFirst == Literals + 1
InitBits == Width + 1
MaxCode(n) == 2^n - 1
Ended == -1         \* no code

(* The third byte of the header: flags for blocks and the widest code.     *)
BlockMask == 128
Blocks(byte) == byte >= BlockMask
MaxBits(byte) == byte % 32

-----------------------------------------------------------------------------
(* peek: count bytes of the file, or as many as there are.                 *)
Taken(s, count) == SubSeq(raw.data, s.at + 1, Least(s.at + count, Len(raw.data)))

RECURSIVE Value(_)
Value(bytes) == IF bytes = << >> THEN 0 ELSE Head(bytes) + Literals * Value(Tail(bytes))

WidthCleared(s) == InitBits

(* getcode: codes come in groups, nbits bytes at a time; a group is left   *)
(* when it is used up, when codes get wider and when the table is cleared. *)
Wider(s) ==
    LET n == s.nbits + 1
    IN  [s EXCEPT !.nbits = n, !.maxcode = IF n = s.maxbits THEN 2^s.maxbits ELSE MaxCode(n)]
Narrow(s) ==
    [s EXCEPT !.nbits = WidthCleared(s), !.maxcode = MaxCode(WidthCleared(s)), !.clear = FALSE]
Refilled(s) ==
    LET b == Taken(s, s.nbits)
    IN  IF b = << >> THEN [s EXCEPT !.code = Ended, !.gsize = 0]
        ELSE [s EXCEPT !.at = @ + Len(b), !.gbuf = Value(b), !.goff = 0,
                       !.gsize = Len(b) * Width - (s.nbits - 1)]
NextInGroup(s) ==
    IF s.code = Ended THEN s
    ELSE [s EXCEPT !.code = (s.gbuf \div 2^s.goff) % 2^s.nbits, !.goff = @ + s.nbits]

GetCode(s0) ==
    LET s == [s0 EXCEPT !.code = 0]
        grow == s.free > s.maxcode
        t == IF grow THEN Wider(s) ELSE s
    IN  IF grow /\ t.nbits > s.maxbits THEN [t EXCEPT !.code = Ended]
        ELSE IF s.clear THEN NextInGroup(Refilled(Narrow(t)))
        ELSE IF grow \/ s.goff >= s.gsize THEN NextInGroup(Refilled(t))
        ELSE NextInGroup(s)

-----------------------------------------------------------------------------
(* The bytes of a code, the last first: the table has the prefix and the   *)
(* last byte of each code.                                                 *)
RECURSIVE Backwards(_, _)
Backwards(tab, code) ==
    IF code < Literals THEN <<code>>
    ELSE <<tab[code].suffix>> \o Backwards(tab, tab[code].prefix)

Unknown(s) == s.code >= s.free

Expanded(s) ==
    LET bytes == IF Unknown(s) THEN <<s.fin>> \o Backwards(s.tab, s.old)
                 ELSE Backwards(s.tab, s.code)
    IN  [s EXCEPT !.incode = s.code, !.stack = bytes, !.fin = bytes[Len(bytes)]]

Cleared(s) == GetCode([s EXCEPT !.clear = TRUE, !.free = CodeFirst - 1])

Entered(s) ==
    IF s.free >= 2^s.maxbits THEN s
    ELSE [s EXCEPT !.tab[s.free] = [prefix |-> s.old, suffix |-> s.fin], !.free = @ + 1]

(* The loop of lzwRead: a code is expanded on the stack, the stack goes to *)
(* the reader as far as there is room, what is new enters the table.       *)
RECURSIVE Emit(_, _, _)
Emit(s, n, out) ==
    LET t == IF s.stack # << >> THEN s
             ELSE IF s.code = CodeClear /\ s.block THEN Cleared(s) ELSE s
        e == IF s.stack # << >> THEN s ELSE IF t.code = Ended THEN t ELSE Expanded(t)
        k == Least(n - Len(out), Len(e.stack))
        given == out \o Reverse(SubSeq(e.stack, Len(e.stack) - k + 1, Len(e.stack)))
        left == [e EXCEPT !.stack = SubSeq(@, 1, Len(@) - k)]
        rest == GetCode([Entered(left) EXCEPT !.old = left.incode])
    IN  IF s.stack = << >> /\ t.code = Ended THEN [s |-> t, data |-> out]
        ELSE IF left.stack # << >> THEN [s |-> left, data |-> given]
        ELSE IF rest.code = Ended THEN [s |-> rest, data |-> given]
        ELSE Emit(rest, n, given)

Opened(s, byte) ==
    [s EXCEPT !.init = 1, !.at = @ + 3, !.maxbits = MaxBits(byte), !.block = Blocks(byte),
              !.nbits = InitBits, !.maxcode = MaxCode(InitBits),
              !.free = IF Blocks(byte) THEN CodeFirst ELSE Literals]

Started(s0, n) ==
    LET s == GetCode(s0)
        t == GetCode([s EXCEPT !.fin = s.code, !.old = s.code])
    IN  IF s.code = Ended THEN [s |-> [s EXCEPT !.fin = Ended, !.old = Ended], data |-> << >>]
        ELSE IF t.code = Ended THEN [s |-> t, data |-> <<s.code>>]
        ELSE Emit(t, n, <<s.code>>)

LzwRead(n) ==
    LET h == Taken(d, 3)
        bad == Len(h) < 3 \/ SubSeq(h, 1, 2) # Magic \/ MaxBits(h[3]) > 2 * Width
        r == IF d.init < 0 THEN [s |-> d, data |-> << >>]
             ELSE IF d.init > 0 THEN Emit(d, n, << >>)
             ELSE IF bad THEN [s |-> [d EXCEPT !.init = -1], data |-> << >>]
             ELSE Started(Opened(d, h[3]), n)
    IN  /\ d' = r.s
        /\ ReadGives(1, n, r.data)
        /\ broken' = (broken \/ r.s.init < 0)

LzwStep ==
    /\ kind = "lzw" /\ UNCHANGED kind
    /\ \/ \E n \in Counts : LzwRead(n)
       \/ SeekGives(1, "set", 0, -1, at[1]) /\ UNCHANGED <<d, broken>>
    /\ UNCHANGED <<raw, parts>>

(* sfdclzw: nothing read, nothing in the table.                            *)
LzwNew ==
    [init |-> 0, at |-> 0, nbits |-> 0, maxbits |-> 0, block |-> FALSE, maxcode |-> 0, free |-> 0,
     clear |-> FALSE, fin |-> 0, stack |-> << >>, code |-> 0, old |-> 0, incode |-> 0,
     goff |-> 0, gsize |-> 0, gbuf |-> 0,
     tab |-> [c \in 0 .. 2^(2 * Width) - 1 |-> [prefix |-> 0, suffix |-> 0]]]
=============================================================================
