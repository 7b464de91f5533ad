--------------------------- MODULE MCSfDiscipline ---------------------------
(***************************************************************************)
(* The disciplines, each alone on a stream: the files they read, what they *)
(* stand for, and the calls of the application.                            *)
(***************************************************************************)
EXTENDS SfdcStreams, Sfdclzw, Sfdcdos, SfStdio, TLC

Regular(bytes) == [data |-> bytes, at |-> 0, least |-> 99]
Part(bytes, p) == [data |-> bytes, at |-> p, eof |-> FALSE]
Start(k, r, ps, s) == [kind |-> k, raw |-> r, parts |-> ps, d |-> s, at |-> [u \in Users |-> 0]]
NoFile == Regular(<< >>)

Pipes ==
    {Start("seekable", [Regular(<<1, 2, 3, 4>>) EXCEPT !.least = 1], <<Part(<< >>, 0)>>, SeekableNew)}

\* A union of streams that start anywhere and may be empty.
Union1 == <<Part(<<1, 2>>, 0), Part(<<9, 3, 4>>, 1), Part(<<5>>, 0)>>
Union2 == <<Part(<<9>>, 1), Part(<< >>, 0), Part(<<1, 2>>, 0)>>
Unions ==
    {Start("union", NoFile, ps, UnionNew(ps)) : ps \in {Union1, Union2}}

\* A window in the middle and one without an end; both stand anywhere.
Windows ==
    {[Start("substream", NoFile, <<Part(<<1, 2, 3>>, 0)>>,
            <<SubNew(1, 2, h), SubNew(2, Open, h)>>)
        EXCEPT !.at = [u \in Users |-> IF u = 0 THEN 0 ELSE Open]] : h \in {0, 1}}

Tees == {Start("tee", NoFile, <<Part(<< >>, 0)>>, TeeNew)}

\* Texts of lines, each byte known by its place.
Pieces == {<<1>>, <<CR, LF>>, <<LF>>}
Texts == UNION {{FlattenSeq(s) : s \in [1 .. k -> Pieces]} : k \in 1 .. 4} \cup
         {<<1, 2, 3, CR, LF, 4, CR, LF, CR, LF, 5, 6, 7, CR, LF, 8>>,
          <<CR, LF, 1, CR, LF, 2, CR, LF, 3, CR, LF, 4>>}
Numbered(t) == [i \in DOMAIN t |-> IF t[i] = 1 THEN i ELSE t[i]]
DosFiles == {Start("dos", Regular(Numbered(t)), << >>, DosNew) : t \in Texts}

-----------------------------------------------------------------------------
(* compress(1): the longest known string goes out as a code and, with the  *)
(* byte after it, into the table; all is forgotten after every nth code.   *)
Known(table, w) == Len(w) = 1 \/ \E i \in DOMAIN table : table[i] = w
CodeOf(table, w) ==
    IF Len(w) = 1 THEN w[1] ELSE CodeFirst - 1 + CHOOSE i \in DOMAIN table : table[i] = w

RECURSIVE Encode(_, _, _, _, _)
Encode(text, w, table, widest, n) ==
    IF text = << >> THEN IF w = << >> THEN << >> ELSE <<CodeOf(table, w)>>
    ELSE LET v == Append(w, Head(text))
             c == CodeOf(table, w)
             more == IF CodeFirst + Len(table) < 2^widest THEN Append(table, v) ELSE table
         IN  IF Known(table, v) THEN Encode(Tail(text), v, table, widest, n)
             ELSE IF n > 0 /\ Len(table) + 1 = n
             THEN <<c, CodeClear>> \o Encode(Tail(text), <<Head(text)>>, << >>, widest, n)
             ELSE <<c>> \o Encode(Tail(text), <<Head(text)>>, more, widest, n)

\* Codes go out in groups of Width codes (8 of them in a byte of 8 bits); a
\* group is filled up when codes get wider and after the table is cleared.
Bytes(v, k) == [i \in 1 .. k |-> (v \div Literals^(i - 1)) % Literals]
RECURSIVE Grouped(_, _, _, _, _)
Grouped(codes, group, bits, free, widest) ==
    LET Sum[i \in 0 .. Len(group)] == IF i = 0 THEN 0 ELSE Sum[i - 1] + group[i] * 2^((i - 1) * bits)
        whole == Bytes(Sum[Len(group)], bits)
        part == Bytes(Sum[Len(group)], (Len(group) * bits + Width - 1) \div Width)
    IN  IF codes = << >> THEN part
        ELSE IF group # << >> /\ group[Len(group)] = CodeClear
        THEN whole \o Grouped(codes, << >>, InitBits, CodeFirst - 1, widest)
        ELSE IF bits < widest /\ free > MaxCode(bits)
        THEN (IF group = << >> THEN << >> ELSE whole) \o Grouped(codes, << >>, bits + 1, free, widest)
        ELSE IF Len(group) = Width
        THEN whole \o Grouped(codes, << >>, bits, free, widest)
        ELSE Grouped(Tail(codes), Append(group, Head(codes)), bits, free + 1, widest)

Compress(text, widest, n) ==
    Magic \o <<BlockMask + widest>> \o
    Grouped(Encode(text, << >>, << >>, widest, n), << >>, InitBits, CodeFirst - 1, widest)

Alternating(n) == [i \in 1 .. n |-> (i \div 2) % 2]
Plain == UNION {[1 .. k -> {0, 3}] : k \in 0 .. 5} \cup
         {[i \in 1 .. 14 |-> 1], Alternating(12), [i \in 1 .. 30 |-> ((i * i) \div 3) % 4]}
Archives ==
    [bytes \in {Compress(t, b, n) : t \in Plain, b \in {4}, n \in {0, 2, 6}} |->
       CHOOSE t \in Plain : \E n \in {0, 2, 6} : Compress(t, 4, n) = bytes]
BadArchives == {<< >>, <<31, 157>>, <<0, 0, 132, 1>>, <<31, 157, 128 + 20, 1>>}
Compressed ==
    {Start("lzw", Regular(b), << >>, LzwNew) : b \in DOMAIN Archives \cup BadArchives}

-----------------------------------------------------------------------------
\* Two FILEs: one that has the buffer or is shared, to read and write, and one
\* that is shared and only read.  Their addresses fall in one bucket.
MCBucket(f) == f % 2
StdioFiles ==
    {[Start("stdio", NoFile, << >>, StdioNew({1, 2}, <<<<1, LF, 3>>, <<4>>>>, <<how \cup {"seek", "buffer", "write"}, {"threads"}>>))
        EXCEPT !.at = [u \in Users |-> 0]] : how \in {{}, {"threads"}}}

\* A text whose lines end in the middle of the buffers.
MCStarts == StdioFiles \cup Pipes \cup Unions \cup Windows \cup Tees \cup DosFiles \cup Compressed
MCCounts == {1, 2, 3, 5}
MCTargets == {-1, 0, 1, 2, 3, 5, 8}
MCData == {<<6, 7>>}
MCMagic == <<31, 157>>

Next == SeekableStep \/ UnionStep \/ SubstreamStep \/ TeeStep \/ LzwStep \/ DosStep \/ StdioStep
Spec == Init /\ [][Next]_vars

(* What there is to read, and where each user's window is in it.           *)
Lower(ps, s) == FlattenSeq([i \in DOMAIN ps |-> SubSeq(ps[i].data, s.lower[i] + 1, Len(ps[i].data))])
Text ==
    CASE kind = "seekable"  -> raw.data
      [] kind = "union"     -> Lower(parts, d)
      [] kind = "substream" -> Parent.data
      [] kind = "tee"       -> raw.data
      [] kind = "stdio"     -> Content(Stream[1]) \o Content(Stream[2])
      [] kind = "dos"       -> WithoutCr(raw.data)
      [] kind = "lzw"       -> IF raw.data \in DOMAIN Archives THEN Archives[raw.data] ELSE << >>
Window ==
    [u \in Users |->
       IF kind = "substream" /\ u # 0
       THEN [lo |-> d[u].offset,
             hi |-> IF d[u].extent = Open THEN Open ELSE d[u].offset + d[u].extent]
       ELSE IF kind = "stdio" /\ u = 1 THEN [lo |-> 0, hi |-> Len(Stream[1].disk)]
       ELSE IF kind = "stdio" /\ u = 2 THEN [lo |-> Len(Stream[1].disk), hi |-> Open]
       ELSE [lo |-> 0, hi |-> Open]]

(* Whatever the discipline, the calls of the application read and write    *)
(* one text, each at the place where its last call left it.                *)
Source == INSTANCE SfSource WITH text <- Text, window <- Window
ImplementsSource == Source!Spec

(* As long as no write to the tee was short, all that went out is in it,   *)
(* in the same order (what was written again after a short write as well). *)
Follows(s, t) ==
    LET Reach[i \in 0 .. Len(s)] ==
            IF i = 0 THEN 0
            ELSE IF Reach[i - 1] > Len(t) THEN Len(t) + 1
            ELSE Min({j \in Reach[i - 1] + 1 .. Len(t) : t[j] = s[i]} \cup {Len(t) + 1})
    IN  Reach[Len(s)] <= Len(t)
TeeHasAll == kind = "tee" /\ d.status = 0 => Follows(raw.data, parts[1].data)
=============================================================================
