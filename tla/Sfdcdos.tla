------------------------------ MODULE Sfdcdos -------------------------------
(***************************************************************************)
(* The discipline that reads a text whose lines end in CR LF as if they    *)
(* ended in LF.  Two offsets are kept: logical (l...), without the CRs,    *)
(* and physical (p...); a table maps places of the one to the other.  The  *)
(* file is a regular one, and each CR of it is followed by LF.             *)
(***************************************************************************)
EXTENDS SfChannel

CONSTANTS
    BufSize,    \* of the stream, which a seek reads into
    Chunk,      \* CHUNK, how far the entries of the table are apart
    CR, LF,
    Habits      \* "split": a block may end in the first CR LF of the file,
                \* "toend": the application seeks to where the file ends,
                \* "stale", "beyond": and to where a block ends without CR LF, which
                \* looks at bytes of an earlier block, or at none of dp->buff's

NoMap == << >>      \* maptable is not there yet

-----------------------------------------------------------------------------
(* Where the first CR LF of a block is; the place of the sentinel if none  *)
(* ends in it.                                                             *)
CrLfs(b) == {i \in 1 .. Len(b) - 1 : b[i] = CR /\ b[i + 1] = LF}
WithoutCr(b) == SelectSeq(b, LAMBDA c : c # CR)

(* addmapping, when the farthest place read so far lies well behind the    *)
(* last entry of the table.                                                *)
Mapped(s) ==
    IF s.lhere <= s.lmax THEN s
    ELSE [s EXCEPT !.lmax = s.lhere, !.pmax = s.phere,
                   !.map = IF s.map # NoMap /\ s.lhere > s.map[Len(s.map)].l + Chunk
                           THEN Append(@, [p |-> s.phere, l |-> s.lhere]) ELSE @]

Count(b) == Len(b) - (IF b[Len(b)] = CR THEN 1 ELSE 0)

(* What is kept of a block in dp->buff: the bytes from its first CR on, of *)
(* which the last is by then the sentinel unless they end in CR LF; behind *)
(* them is what an earlier block left there.                               *)
Sentinel(b) == IF Len(b) - 1 \in CrLfs(b) THEN b ELSE [b EXCEPT ![Len(b)] = CR]
Saved(b, first) == SubSeq(Sentinel(b), first + 1, Len(b))
Behind(s, n) == LET old == s.buff \o s.rest IN SubSeq(old, n + 1, Len(old))

(* A block of two bytes or more: the CRs go, the rest moves up.            *)
Packed(s, b) ==
    LET n == Count(b)
        first == Min(CrLfs(b))
        shown == WithoutCr(b)
    IN  IF CrLfs(b) = {}
        THEN [s |-> Mapped([s EXCEPT !.lhere = @ + n, !.skip = Len(b),
                                     !.begin = IF s.map = NoMap THEN @ + n ELSE @]),
              data |-> shown]
        ELSE LET start == s.begin + first - 1
             IN  [s |-> Mapped([s EXCEPT
                          !.lhere = @ + Len(shown), !.skip = first - 1,
                          !.buff = Saved(b, first), !.rest = Behind(s, Len(b) - first),
                          !.begin = IF s.map = NoMap THEN start ELSE @,
                          !.map = IF @ = NoMap THEN <<[p |-> start + 1, l |-> start]>> ELSE @]),
                  data |-> shown]

(* dos_read: a block of one byte is given as it is, and when it is a CR    *)
(* the next is read over it.  s has the place in the file (at) as well.    *)
RECURSIVE DosRead(_, _)
DosRead(s, size) ==
    LET b == SubSeq(raw.data, s.at + 1, Least(s.at + size, Len(raw.data)))
        t == [s EXCEPT !.at = @ + Len(b), !.plast = s.phere, !.phere = @ + Len(b),
                       !.llast = s.lhere]
    IN  IF b = << >> THEN [s |-> s, data |-> b]
        ELSE IF Len(b) > 1 THEN Packed(t, b)
        ELSE IF b[1] # CR THEN [s |-> [t EXCEPT !.lhere = @ + 1], data |-> b]
        ELSE DosRead(t, size)

-----------------------------------------------------------------------------
(* getmapping: the last entry that is not past a logical place.            *)
Past(entry, offset) == entry.l > offset

Mapping(s, offset) ==
    IF offset <= s.begin THEN [p |-> offset, l |-> offset]
    ELSE s.map[Max({1} \cup {i \in 1 .. Len(s.map) : \A j \in 2 .. i : ~Past(s.map[j], offset)})]

(* cur_offset: the physical place of a logical place in the last block, by *)
(* the bytes kept from its first CR on.  A sentinel is taken for a CR, and *)
(* the byte behind it may be one that an earlier block left (s.rest), or   *)
(* not be in dp->buff at all and be LF or not (beyond).                    *)
RECURSIVE CrsBefore(_, _, _)
CrsBefore(buff, n, i) ==
    IF n = 0 \/ i >= Len(buff) THEN 0
    ELSE IF buff[i] = CR /\ buff[i + 1] = LF THEN 1 + CrsBefore(buff, n, i + 1)
    ELSE CrsBefore(buff, n - 1, i + 1)

FirstCr == 1

CurOffset(s, offset, beyond) ==
    LET n == offset - s.llast
    IN  s.plast + n +
        (IF n > s.skip THEN FirstCr + CrsBefore(s.buff \o s.rest \o beyond, n - s.skip, 1) ELSE 0)

(* Whether it looks behind the bytes that were kept.                       *)
LooksBehind(s, offset) ==
    /\ s.buff # << >> /\ s.buff[Len(s.buff)] = CR
    /\ offset - s.llast - s.skip >= Len(s.buff) - Cardinality(CrLfs(s.buff))

RECURSIVE ReadUntil(_, _)
ReadUntil(s, offset) ==
    LET r == DosRead(s, BufSize).s
    IN  IF s.lhere >= offset \/ r = s THEN s ELSE ReadUntil(r, offset)

From(s, entry) == DosRead([s EXCEPT !.at = entry.p, !.phere = entry.p, !.lhere = entry.l], BufSize).s

(* The end of a seek to a place in the last block.                         *)
Placed(s, p) ==
    /\ LooksBehind(s, p) => (IF s.rest # << >> THEN "stale" ELSE "beyond") \in Habits
    /\ \E beyond \in {<< >>, <<LF>>} :
         LET physical == CurOffset(s, p, beyond)
         IN  d' = [s EXCEPT !.at = physical, !.phere = physical, !.lhere = p]

(* A seek back from the end is tried again as one to where it is.          *)
DosSeek(whence, p) ==
    IF whence = "set"
    THEN /\ Placed(ReadUntil(IF p < d.llast \/ p > d.lhere THEN From(d, Mapping(d, p)) ELSE d, p), p)
         /\ SeekGives(1, whence, p, p, Open)
    ELSE LET s == ReadUntil(From(d, [p |-> d.plast, l |-> d.llast]), Len(raw.data) + 1)
         IN  /\ IF p < 0 THEN Placed(s, s.lhere) ELSE d' = s
             /\ SeekGives(1, whence, p, IF p < 0 THEN s.lhere ELSE s.lhere + p, Open)

InFirst(s) == s.map = NoMap /\ s.at \in DOMAIN raw.data /\ raw.data[s.at] = CR

DosStep ==
    /\ kind = "dos" /\ UNCHANGED kind
    /\ \/ \E n \in Counts \ {1} :
            LET r == DosRead(d, n)
            IN  /\ InFirst(r.s) => "split" \in Habits
                /\ d' = r.s /\ ReadGives(1, n, r.data)
       \/ \E w \in {"set", "end"}, p \in Targets :
            /\ d.map # NoMap
            /\ w = "set" => /\ p >= 0 /\ p <= Len(WithoutCr(raw.data))
                            /\ p = Len(WithoutCr(raw.data)) => "toend" \in Habits
            /\ w = "end" => p <= 0
            /\ DosSeek(w, p)
    /\ UNCHANGED <<raw, parts, broken>>

(* sfdcdos: all zero.                                                      *)
DosNew ==
    [at |-> 0, map |-> NoMap, lhere |-> 0, llast |-> 0, lmax |-> 0, pmax |-> 0, phere |-> 0,
     plast |-> 0, begin |-> 0, skip |-> 0, buff |-> << >>, rest |-> << >>]
=============================================================================
