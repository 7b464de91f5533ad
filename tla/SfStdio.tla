------------------------------ MODULE SfStdio -------------------------------
(***************************************************************************)
(* The binary emulation of Stdio: a FILE stands for a stream.  A table of  *)
(* buckets leads from the FILE to its stream.  A stream that is not shared *)
(* by threads gives its buffer to the FILE, so that the macros getc() and  *)
(* putc() of the C library work on it without a call; it takes the buffer  *)
(* back, and learns how far they went, at the next call of either library. *)
(***************************************************************************)
EXTENDS SfChannel

CONSTANTS Address,      \* bound: where a FILE may be
          Bucket(_),    \* STDINDEX
          Newline,      \* the byte that ends a line
          StdioSize     \* the size of the buffer of a stream

None == -1

(* A stream: its mode, whether FILE has the buffer (fast), where in the    *)
(* file the buffer begins, the buffer and the place in it, and the two     *)
(* pointers of its FILE; what the program does with it; the bytes on disk. *)
Stream == d.stream
Table == d.table        \* [bucket -> sequence of FILE and stream]
Files == d.file         \* [user -> its FILE, or None]
InUse == {Files[u] : u \in DOMAIN Files} \ {None}

Overlay(disk, p, bytes) ==
    [i \in DOMAIN disk |-> IF i \in p + 1 .. p + Len(bytes) THEN bytes[i - p] ELSE disk[i]]

(* How far the application has come in the buffer, and in the file.        *)
Reached(s) == IF s.rp # None THEN s.rp ELSE IF s.wp # None THEN s.wp ELSE s.next
Content(s) == IF s.mode = "write" THEN Overlay(s.disk, s.base, SubSeq(s.buf, 1, Reached(s))) ELSE s.disk

-----------------------------------------------------------------------------
(* _sfstdsync                                                              *)
TakenBack(s) ==
    LET p == IF s.wp # None THEN s.wp ELSE s.rp
    IN  [s EXCEPT !.next = IF p \in s.next .. Len(s.buf) THEN p ELSE @,
                  !.rp = None, !.wp = None, !.fast = FALSE]

(* What the stream does below, see SfStream.                               *)
Here(s) == s.base + s.next
Flushed(s) ==
    IF s.mode # "write" THEN s
    ELSE [s EXCEPT !.disk = Overlay(@, s.base, SubSeq(s.buf, 1, s.next)), !.base = @ + s.next, !.next = 0]
Empty(n) == [i \in 1 .. n |-> 0]
InMode(s0, m) ==
    LET s == Flushed(TakenBack(s0))
    IN  IF s.mode = m THEN TakenBack(s0)
        ELSE [s EXCEPT !.mode = m, !.base = @ + s.next, !.next = 0,
                       !.buf = IF m = "write" THEN Empty(s.size) ELSE << >>]
Filled(s) ==
    LET p == s.base + s.next
        n == IF s.size = 0 THEN 1 ELSE s.size
    IN  IF s.next < Len(s.buf) THEN s
        ELSE [s EXCEPT !.base = p, !.next = 0, !.buf = SubSeq(s.disk, p + 1, Least(p + n, Len(s.disk)))]

RECURSIVE Read(_, _, _)
Read(s0, n, got) ==
    LET s == Filled(InMode(s0, "read"))
        k == Least(n, Len(s.buf) - s.next)
    IN  IF k = 0 THEN [stream |-> s, data |-> got]
        ELSE Read([s EXCEPT !.next = @ + k], n - k, got \o SubSeq(s.buf, s.next + 1, s.next + k))

RECURSIVE Written(_, _)
Written(s0, bytes) ==
    LET m == InMode(s0, "write")
        s == IF m.next = Len(m.buf) THEN Flushed(m) ELSE m
    IN  IF bytes = << >> THEN m
        ELSE Written(IF s.buf = << >>
                     THEN [s EXCEPT !.disk = Overlay(@, s.base, <<Head(bytes)>>), !.base = @ + 1]
                     ELSE [s EXCEPT !.buf[s.next + 1] = Head(bytes), !.next = @ + 1], Tail(bytes))

Sought(s0, p) ==
    LET s == Flushed(TakenBack(s0))
    IN  IF s.mode = "init" THEN [s EXCEPT !.base = p]
        ELSE IF s.mode = "read" /\ p - s.base \in 0 .. Len(s.buf) THEN [s EXCEPT !.next = p - s.base]
        ELSE [s EXCEPT !.base = p, !.next = 0, !.buf = IF s.mode = "read" THEN << >> ELSE @]

-----------------------------------------------------------------------------
(* _sfstream: the entry found goes to the front of its bucket.             *)
IndexOf(f) == CHOOSE i \in DOMAIN Table[Bucket(f)] : Table[Bucket(f)][i].f = f
Listed(f) == \E i \in DOMAIN Table[Bucket(f)] : Table[Bucket(f)][i].f = f
EntryOf(f) == Table[Bucket(f)][IndexOf(f)]
Without(f) == [Table EXCEPT ![Bucket(f)] = RemoveAt(@, IndexOf(f))]
InFront(t, f, u) == [t EXCEPT ![Bucket(f)] = <<[f |-> f, stream |-> u]>> \o @]
Friend(u) == EntryOf(Files[u]).stream
Found(u) == InFront(Without(Files[u]), Files[u], Friend(u))

Has(u) == Files[u] # None
May(u, how) == how \in Stream[u].may

(* A call of user u by its FILE leaves its stream as s.                    *)
Leaves(u, s) == d' = [d EXCEPT !.table = Found(u), !.stream[Friend(u)] = s]

(* _filbuf, _flsbuf: after the byte the FILE may have the buffer, unless   *)
(* threads share it, or it writes lines.                                   *)
Given(s) == IF "threads" \in s.may \/ (s.mode # "read" /\ s.line) THEN s ELSE
    IF s.mode = "read" THEN [s EXCEPT !.fast = TRUE, !.rp = s.next]
    ELSE [s EXCEPT !.fast = TRUE, !.wp = s.next]

Getc(u) ==
    LET s == Stream[u]
        r == Read(Stream[Friend(u)], 1, << >>)
    IN  /\ Has(u)
        /\ IF s.rp # None /\ s.rp < Len(s.buf)      \* the macro alone
           THEN /\ d' = [d EXCEPT !.stream[u].rp = @ + 1]
                /\ ReadGives(u, 1, <<s.buf[s.rp + 1]>>)
           ELSE /\ Leaves(u, IF r.data = << >> THEN r.stream ELSE Given(r.stream))
                /\ ReadGives(u, 1, r.data)

Putc(u, b) ==
    LET s == Stream[u]
    IN  /\ Has(u) /\ May(u, "write")
        /\ IF s.wp # None /\ s.wp < Len(s.buf)
           THEN d' = [d EXCEPT !.stream[u].buf[s.wp + 1] = b, !.stream[u].wp = @ + 1]
           ELSE Leaves(u, Given(Written(Stream[Friend(u)], <<b>>)))
        /\ WriteGives(u, <<b>>, 1)

Fread(u, n) ==      \* fread, getw, fscanf
    LET r == Read(Stream[Friend(u)], n, << >>)
    IN  Has(u) /\ Leaves(u, r.stream) /\ ReadGives(u, n, r.data)

Fgetc(u) == Fread(u, 1)

Fwrite(u, bytes) == \* fwrite, putw, fputs, puts, printf
    /\ Has(u) /\ May(u, "write")
    /\ Leaves(u, Written(Stream[Friend(u)], bytes)) /\ WriteGives(u, bytes, Len(bytes))

Fputc(u, b) == Fwrite(u, <<b>>)

(* fgets: n - 1 bytes at most, none after the end of the line.             *)
LineCount(s, n) ==
    LET p == s.base + Reached(s)
        ends == {k \in 1 .. n - 1 : p + k \in DOMAIN s.disk /\ Content(s)[p + k] = Newline}
    IN  IF ends = {} THEN n - 1 ELSE Min(ends)
Fgets(u, n) ==
    LET k == LineCount(Stream[Friend(u)], n)
        r == Read(Stream[Friend(u)], k, << >>)
    IN  Has(u) /\ Leaves(u, r.stream) /\ ReadGives(u, k, r.data)

(* ungetc of the byte that was read last, which is still in the buffer.    *)
Ungetc(u) ==
    LET s == TakenBack(Stream[Friend(u)])
    IN  /\ Has(u) /\ s.mode = "read" /\ s.next > 0
        /\ Leaves(u, [s EXCEPT !.next = @ - 1]) /\ SeekGives(u, "set", at[u] - 1, Here(s) - 1, Open)

(* fseek, rewind, fsetpos; ftell and fgetpos are a seek to where one is.   *)
Fseek(u, p) == Has(u) /\ Leaves(u, Sought(Stream[Friend(u)], p)) /\ SeekGives(u, "set", p, p, Open)
Ftell(u) ==
    LET s == TakenBack(Stream[Friend(u)])
    IN  Has(u) /\ Leaves(u, Sought(s, Here(s))) /\ SeekGives(u, "set", at[u], Here(s), Open)

(* fflush: what was read ahead is given up as well.                        *)
Fflush(u) ==
    LET s == Flushed(TakenBack(Stream[Friend(u)]))
    IN  /\ Has(u)
        /\ Leaves(u, IF s.mode = "read" THEN [s EXCEPT !.base = Here(s), !.next = 0, !.buf = << >>] ELSE s)
        /\ UNCHANGED <<at, last>>

(* setvbuf, and setbuf ("size"); what was read ahead is given up.          *)
Sized(s0, n) ==
    LET s == Flushed(s0)
    IN  IF s.mode = "write" THEN [s EXCEPT !.size = n, !.buf = Empty(n)]
        ELSE IF s.mode = "read" THEN [s EXCEPT !.size = n, !.base = Here(s), !.next = 0, !.buf = << >>]
        ELSE [s EXCEPT !.size = n]
Setvbuf(u, type) ==
    LET s == TakenBack(Stream[Friend(u)])
    IN  /\ Has(u) /\ Leaves(u, CASE type = "line" -> [s EXCEPT !.line = TRUE]
                                 [] type = "none" -> [Sized(s, 0) EXCEPT !.line = FALSE]
                                 [] type = "size" -> Sized(s, StdioSize)
                                 [] type = "full" -> [Sized(s, StdioSize) EXCEPT !.line = FALSE])
        /\ UNCHANGED <<at, last>>
-----------------------------------------------------------------------------
(* The same stream used by the functions of Sfio, which go by its mode.    *)
Sfgetc(u) ==
    LET r == Read(Stream[u], 1, << >>)
    IN  Has(u) /\ d' = [d EXCEPT !.stream[u] = r.stream] /\ ReadGives(u, 1, r.data)
Sfputc(u, b) ==
    /\ Has(u) /\ May(u, "write")
    /\ d' = [d EXCEPT !.stream[u] = Written(@, <<b>>)] /\ WriteGives(u, <<b>>, 1)
Sftell(u) ==
    LET s == TakenBack(Stream[u])
    IN  Has(u) /\ d' = [d EXCEPT !.stream[u] = s] /\ SeekGives(u, "set", at[u], Here(s), Open)

-----------------------------------------------------------------------------
(* fopen, fdopen, popen, tmpfile: the new FILE goes in front (_sfinit).    *)
Fresh(s) == [s EXCEPT !.mode = "init", !.base = 0, !.next = 0, !.buf = << >>, !.rp = None, !.wp = None,
                       !.fast = FALSE, !.line = FALSE, !.size = StdioSize]
Fopen(u) ==
    /\ Files[u] = None /\ ~d.lost[u]
    /\ \E f \in Address \ (InUse \cup d.gone) :
           d' = [d EXCEPT !.file[u] = f, !.table = InFront(Table, f, u), !.stream[u] = Fresh(@)]
    /\ SeekGives(u, "set", 0, 0, Open)

(* fclose, pclose: what is buffered goes to the file, the FILE to free().  *)
Closed(s) == [Fresh(Flushed(TakenBack(s))) EXCEPT !.mode = "closed"]
(* mutant: the FILE is freed while the table still leads from it           *)
UnmappedNot(t, f) == t
Unmapped(t, f) == [t EXCEPT ![Bucket(f)] = SelectSeq(@, LAMBDA e : e.f # f)]
Fclose(u) ==
    /\ Has(u)
    /\ d' = [d EXCEPT !.table = Unmapped(Found(u), Files[u]), !.file[u] = None,
                      !.stream[Friend(u)] = Closed(@)]
    /\ UNCHANGED <<at, last>>

(* freopen takes the FILE out of the table first; when there is no such    *)
(* file the stream stays as it is, but nothing leads to it, and no free()  *)
(* follows.                                                                *)
Freopen(u) ==
    /\ Has(u)
    /\ d' = [d EXCEPT !.table = InFront(Unmapped(Found(u), Files[u]), Files[u], Friend(u)),
                      !.stream[Friend(u)] = Fresh(Closed(@))]
    /\ SeekGives(u, "set", 0, 0, Open)
FreopenFails(u) ==
    /\ Has(u)
    /\ d' = [d EXCEPT !.table = Unmapped(Found(u), Files[u]), !.file[u] = None, !.lost[u] = TRUE,
                      !.gone = @ \cup {Files[u]}, !.stream[Friend(u)] = TakenBack(@)]
    /\ UNCHANGED <<at, last>>

-----------------------------------------------------------------------------
Fits(u, k) == at[u] + k <= Len(Stream[u].disk)     \* bound: files do not grow

StdioNew(users, disk, may) ==
    [table |-> [b \in {Bucket(f) : f \in Address} |-> << >>],
     file |-> [u \in users |-> None], lost |-> [u \in users |-> FALSE], gone |-> {},
     stream |-> [u \in users |->
        [mode |-> "closed", base |-> 0, next |-> 0, buf |-> << >>, rp |-> None, wp |-> None, fast |-> FALSE,
         line |-> FALSE, size |-> StdioSize, may |-> may[u], disk |-> disk[u]]]]

StdioStep ==
    /\ kind = "stdio" /\ UNCHANGED <<kind, raw, parts, broken>>
    /\ \E u \in DOMAIN Stream :
       \/ Getc(u) \/ Fgetc(u) \/ Fread(u, 2) \/ Fgets(u, 3) \/ Ungetc(u) \/ Ftell(u) \/ Fflush(u) \/ Sfgetc(u) \/ Sftell(u)
       \/ \E b \in Data : Fits(u, 1)
                           /\ (Putc(u, Head(b)) \/ Sfputc(u, Head(b)) \/ Fputc(u, Head(b)))
       \/ \E p \in Targets : May(u, "seek") /\ p \in 0 .. Len(Stream[u].disk) /\ Fseek(u, p)
       \/ \E type \in {"line", "none", "full", "size"} : May(u, "buffer") /\ Setvbuf(u, type)
       \/ Fopen(u) \/ Fclose(u) \/ Freopen(u) \/ FreopenFails(u)

(* Each FILE the program has leads to its stream, and nothing else does.   *)
TableRight ==
    kind = "stdio" =>
        /\ \A u \in DOMAIN Files : Files[u] # None => Listed(Files[u]) /\ EntryOf(Files[u]).stream = u
        /\ \A b \in DOMAIN Table : \A i \in DOMAIN Table[b] :
               Table[b][i].f \in InUse /\ \A j \in DOMAIN Table[b] : Table[b][j].f = Table[b][i].f => i = j
=============================================================================
