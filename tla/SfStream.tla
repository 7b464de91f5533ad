------------------------------ MODULE SfStream ------------------------------
(***************************************************************************)
(* One sfio stream opened for reading and writing on a regular file: the   *)
(* buffer, the three file positions the library keeps in agreement (the    *)
(* kernel's offset, f->here and the position the caller sees), the switch  *)
(* between READ and WRITE mode, and the kernel underneath.                 *)
(* No pool, stack, discipline, mmap, SF_SHARE, SF_APPENDWR, SF_LINE or     *)
(* SF_WHOLE.  A step is the code between two points where the outcome of   *)
(* a system call is chosen, so short and failing I/O fall everywhere.      *)
(* EINTR is a retry of the same system call and is left out.               *)
(***************************************************************************)
EXTENDS Integers, Sequences

CONSTANTS Byte, Zero,
          Page,      \* _Sfpage, the unit of a hole
          Size,      \* f->size, the buffer; 0 is an unbuffered stream
          Blksz,     \* f->blksz, what a back seek aligns to
          Grain,     \* SF_GRAIN, above which I/O may bypass the buffer
          MaxPos,    \* bound: positions of the file are 0 .. MaxPos
          Initial,   \* bound: the contents the file may have when opened
          Payloads,  \* bound: what the application writes
          MaxRead,   \* bound: what it reads at once
          Ops,       \* the calls this application makes
          Faults     \* the kernel outcomes that may occur

ASSUME BytesAssumption == Zero \in Byte
ASSUME SizesAssumption ==
  /\ Page \in Nat /\ Page >= 2 /\ Size \in Nat /\ Blksz \in Nat
  /\ Grain \in Nat \ {0} /\ MaxPos \in Nat /\ MaxRead \in Nat
ASSUME PayloadsAssumption == Payloads \subseteq Seq(Byte) \ {<<>>}
ASSUME InitialAssumption == Initial \subseteq Seq(Byte)

VARIABLES file, fsize, fpos,                 \* the kernel: bytes, length, offset
          mode, synced, data, next, endb,    \* the stream: mode and buffer
          here, extent, hole, flag,          \* f->here, f->extent, SF_HOLE, SF_EOF/SF_ERROR
          op, src, off, got, whence, amt,    \* the call: arguments and progress
          pc, all, ok, ret                   \* the call: where it is, SF_RV, rv, result

kernel == <<file, fsize, fpos>>
buffer == <<mode, synced, data, next, endb>>
stream == <<buffer, here, extent, hole>>
args   == <<op, src, whence, amt>>
vars   == <<kernel, stream, flag, args, off, got, pc, all, ok, ret>>

----------------------------------------------------------------------------
(* The buffer. Bytes past the valid ones are junk nobody reads: kept Zero. *)

Smaller(a, b) == IF a < b THEN a ELSE b
Larger(a, b)  == IF a > b THEN a ELSE b

\* f->size in READ mode: an unbuffered stream reads through f->tiny[1].
ReadCap == IF Size = 0 THEN 1 ELSE Size

Index == 0 .. MaxPos - 1
Room  == 0 .. ReadCap - 1

\* A buffer holding the first n bytes of b.
Holding(b, n) == [i \in Room |-> IF i < n THEN b[i] ELSE Zero]
Blank == [i \in Room |-> Zero]

Unread  == endb - next
Pending == IF mode = "WRITE" THEN next ELSE 0

\* SFDIRECT: requests that bypass an empty buffer of the given size.
Direct(n, size) == n >= size \/ (n >= Grain /\ n >= size \div 16)

\* Mutant of Rest: a retry after a short write starts over.
RestFromStart == [i \in 0 .. Len(src) - off - 1 |-> src[1 + i]]

\* The application's bytes still to be written, indexed from 0.
Rest == [i \in 0 .. Len(src) - off - 1 |-> src[off + 1 + i]]

----------------------------------------------------------------------------
(* sfwr, sfoutput and sfrd: the system calls that move bytes.              *)

\* Where the whole pages of zeros start among n bytes of b.
ZeroPages(b, n) ==
  {s \in 0 .. n - Page : s % Page = 0 /\ \A j \in s .. s + Page - 1 : b[j] = Zero}

\* Mutant of HoleBytes: zero pages are skipped over existing data too.
HoleBytesAnywhere(b, n) ==
  IF n >= Page /\ here % Page = 0
  THEN UNION {s .. s + Page - 1 : s \in ZeroPages(b, n)}
  ELSE {}

\* The bytes of the whole zero pages sfoutput seeks over instead of writing.
\* (It looks at a page int by int: b is taken to be int-aligned.)
HoleBytes(b, n) ==
  IF n >= Page /\ here = extent /\ here % Page = 0
  THEN UNION {s .. s + Page - 1 : s \in ZeroPages(b, n)}
  ELSE {}

\* How many of n bytes one sfwr may accept: all, or fewer, ending in a page
\* that is written and not seeked over.
WrCounts(b, n) ==
  {w \in 1 .. n : w = n \/ ("shortwrite" \in Faults /\ w \notin HoleBytes(b, n))}

\* sfwr accepts the first w of the n bytes of b.
SfWr(b, n, w) ==
  LET holes   == HoleBytes(b, n)
      written == (0 .. w - 1) \ holes
      top     == CHOOSE i \in written : \A j \in written : j <= i
  IN  /\ file' = [i \in Index |-> IF i - fpos \in written THEN b[i - fpos] ELSE file[i]]
      /\ fsize' = IF written = {} THEN fsize ELSE Larger(fsize, fpos + top + 1)
      /\ fpos' = fpos + w
      /\ here' = here + w
      /\ extent' = Larger(extent, here + w)
      /\ hole' = (w - 1 \in holes)
      /\ flag' = "none"

\* How many bytes one sfrd at the kernel offset p may return, up to n.
RdCounts(p, n) ==
  LET most == Smaller(n, fsize - p)
  IN  (IF most > 0 THEN {most} ELSE {0})
        \cup (IF "shortread" \in Faults THEN 1 .. most ELSE {})
        \cup (IF "readfail" \in Faults THEN {0} ELSE {})

\* What the exception code leaves in f->flags after a read of r bytes at p.
RdFlag(p, r) ==
  IF r > 0 THEN {"none"}
  ELSE (IF fsize <= p THEN {"eof"} ELSE {}) \cup (IF "readfail" \in Faults THEN {"error"} ELSE {})

----------------------------------------------------------------------------
(* _sfmode: switching between READ and WRITE.                              *)

\* Mutant of ToWrite: f->here is corrected and the kernel's offset is not.
ToWriteNoSeek ==
  /\ mode' = "WRITE" /\ synced' = FALSE /\ next' = 0 /\ endb' = Size /\ data' = Blank
  /\ here' = (IF synced THEN here ELSE here - Unread)
  /\ UNCHANGED <<kernel, extent, hole>>

\* READ (synced or not) to WRITE: give back what was read ahead.
ToWrite ==
  /\ mode' = "WRITE" /\ synced' = FALSE /\ next' = 0 /\ endb' = Size /\ data' = Blank
  /\ LET p == IF synced THEN here ELSE here - Unread
     IN  IF ~synced /\ Unread > 0 THEN here' = p /\ fpos' = p ELSE UNCHANGED <<here, fpos>>
  /\ UNCHANGED <<file, fsize, extent, hole>>

\* WRITE to READ, after the buffer was flushed: the buffer is reset.
ToRead ==
  /\ mode' = "READ" /\ synced' = FALSE /\ next' = 0 /\ endb' = 0 /\ data' = Blank
  /\ UNCHANGED <<kernel, here, extent, hole>>

\* Mutant of Unsync: the buffer is used again where the sync left the offset.
UnsyncInPlace ==
  /\ mode = "READ" /\ synced /\ synced' = FALSE
  /\ UNCHANGED <<kernel, mode, data, next, endb, here, extent, hole>>

\* A synced READ stream goes back to where its buffered data ends.
Unsync ==
  /\ mode = "READ" /\ synced
  /\ here' = here + Unread /\ fpos' = here + Unread /\ synced' = FALSE
  /\ UNCHANGED <<file, fsize, mode, data, next, endb, extent, hole>>

\* The body of a call that first undoes a sync.
Resync(o) ==
  /\ op \in o /\ pc = "loop" /\ Unsync
  /\ UNCHANGED <<flag, args, off, got, pc, all, ok, ret>>

----------------------------------------------------------------------------
(* The application makes one call at a time and waits for it.              *)

\* The caller's position and the length it sees; with them the calls are
\* kept inside the bound.
CurPos == IF mode = "WRITE" THEN fpos + next ELSE IF synced THEN fpos ELSE fpos - Unread
CurLen == Larger(fsize, IF Pending > 0 \/ hole THEN fpos + Pending ELSE 0)

Begin(o, b, w, n) ==
  /\ op = "none" /\ o \in Ops
  /\ op' = o /\ src' = b /\ whence' = w /\ amt' = n
  /\ off' = 0 /\ got' = <<>> /\ pc' = "loop" /\ ok' = TRUE /\ all' = FALSE /\ ret' = 0
  /\ UNCHANGED <<kernel, stream, flag>>

Return(r) ==
  /\ op' = "none" /\ src' = <<>> /\ off' = 0 /\ got' = <<>> /\ whence' = "set" /\ amt' = 0
  /\ pc' = "idle" /\ all' = FALSE /\ ok' = TRUE /\ ret' = r

CallWrite == \E b \in Payloads : CurPos + Len(b) <= MaxPos /\ Begin("write", b, "set", 0)
CallPutc  == \E b \in Payloads : Len(b) = 1 /\ CurPos < MaxPos /\ Begin("putc", b, "set", 0)
CallRead  == \E n \in 1 .. MaxRead : Begin("read", <<>>, "set", n)
CallGetc  == Begin("getc", <<>>, "set", 1)
CallSeek  ==
  \E w \in {"set", "cur", "end"}, n \in -1 .. MaxPos :
    /\ n + (CASE w = "set" -> 0 [] w = "cur" -> CurPos [] w = "end" -> CurLen) <= MaxPos
    /\ Begin("seek", <<>>, w, n)
CallOther == \E o \in {"sync", "purge", "tell", "size"} : Begin(o, <<>>, "set", 0)

----------------------------------------------------------------------------
(* sfwrite and sfputc.                                                     *)

Writing == op \in {"write", "putc"} /\ pc = "loop" /\ off < Len(src)

WriteSwitch ==
  /\ Writing /\ mode = "READ" /\ ToWrite
  /\ UNCHANGED <<flag, args, off, got, pc, all, ok, ret>>

\* No room left: _sfflsbuf without SF_RV, so one write is enough.
WriteFlush ==
  /\ Writing /\ mode = "WRITE" /\ next = Size /\ next > 0
  /\ pc' = "flush"
  /\ UNCHANGED <<kernel, stream, flag, args, off, got, all, ok, ret>>

\* sfputc stores its byte whenever there is a buffer; sfwrite may bypass it.
Bypass == next = 0 /\ (Size = 0 \/ (op = "write" /\ Direct(Len(src) - off, Size)))

WriteDirect ==
  /\ Writing /\ mode = "WRITE" /\ Bypass
  /\ \E w \in WrCounts(Rest, Len(src) - off) :
       SfWr(Rest, Len(src) - off, w) /\ off' = off + w
  /\ UNCHANGED <<buffer, args, got, pc, all, ok, ret>>

\* What a failed write returns: sfwrite counts, sfputc does not.
Short == IF op = "putc" THEN -1 ELSE off

WriteDirectFail ==
  /\ Writing /\ mode = "WRITE" /\ Bypass /\ "writefail" \in Faults
  /\ flag' = "error" /\ Return(Short)
  /\ UNCHANGED <<kernel, stream>>

WriteCopy ==
  /\ Writing /\ mode = "WRITE" /\ next < Size /\ ~Bypass
  /\ LET w == Smaller(Size - next, Len(src) - off)
     IN  /\ data' = [i \in Room |-> IF i \in next .. next + w - 1 THEN Rest[i - next] ELSE data[i]]
         /\ next' = next + w /\ off' = off + w
  /\ UNCHANGED <<kernel, mode, synced, endb, here, extent, hole, flag, args, got, pc, all, ok, ret>>

WriteDone ==
  /\ op \in {"write", "putc"} /\ pc = "loop" /\ off = Len(src) /\ Return(off)
  /\ UNCHANGED <<kernel, stream, flag>>

----------------------------------------------------------------------------
(* _sfflsbuf(f,-1): write the buffer out.  SF_RV (all) asks for the whole  *)
(* buffer, and SFISALL clears it when it is read: the second write of a    *)
(* flush no longer knows.                                                  *)

\* Where a flush goes on, by the call it serves and whether it failed.
ResumeWrite == op \in {"write", "putc"} /\ pc' = "loop" /\ UNCHANGED <<args, off, got, all, ok, ret>>
ResumeRead  == op \in {"read", "getc"} /\ pc' = "toread" /\ UNCHANGED <<args, off, got, all, ok, ret>>
ResumeSync(done) ==
  op \in {"sync", "seek"} /\ pc' = "hole" /\ ok' = done /\ UNCHANGED <<args, off, got, all, ret>>
GiveUp == \/ op \in {"write", "putc"} /\ Return(Short)
          \/ op \in {"read", "getc"} /\ Return(-1)

\* Mutant of Resume: a write goes on after a failed flush.
ResumeAnyway(done) ==
  ResumeSync(done) \/ ResumeWrite \/ (done /\ ResumeRead) \/ (~done /\ op \in {"read", "getc"} /\ GiveUp)

Resume(done) ==
  ResumeSync(done) \/ (done /\ (ResumeWrite \/ ResumeRead)) \/ (~done /\ GiveUp)

FlushAgain == pc' = "flush" /\ all' = FALSE /\ UNCHANGED <<args, off, got, ok, ret>>

Flush ==
  /\ pc = "flush"
  /\ \E w \in WrCounts(data, next) :
       /\ SfWr(data, next, w)
       /\ data' = Holding([i \in Room |-> IF i + w \in Room THEN data[i + w] ELSE Zero], next - w)
       /\ next' = next - w
       /\ IF all /\ w < next THEN FlushAgain ELSE Resume(TRUE)
  /\ UNCHANGED <<mode, synced, endb>>

FlushFail ==
  /\ pc = "flush" /\ "writefail" \in Faults
  /\ flag' = "error" /\ Resume(FALSE)
  /\ UNCHANGED <<kernel, stream>>

----------------------------------------------------------------------------
(* sfread and sfgetc.                                                      *)

Reading == op \in {"read", "getc"} /\ pc = "loop"

\* Leaving WRITE mode flushes the buffer once, without SF_RV.
ReadFlush ==
  /\ Reading /\ mode = "WRITE" /\ next > 0
  /\ pc' = "flush"
  /\ UNCHANGED <<kernel, stream, flag, args, off, got, all, ok, ret>>

ReadSwitch ==
  /\ op \in {"read", "getc"} /\ mode = "WRITE"
  /\ pc = "toread" \/ (pc = "loop" /\ next = 0)
  /\ ToRead /\ pc' = "loop"
  /\ UNCHANGED <<flag, args, off, got, all, ok, ret>>

ReadUnsync == Resync({"read", "getc"})

\* Bytes the call still wants.
Wanted == amt - Len(got)

ReadCopy ==
  /\ Reading /\ mode = "READ" /\ ~synced /\ Unread > 0 /\ Wanted > 0
  /\ LET r == Smaller(Unread, Wanted)
     IN  /\ got' = got \o [j \in 1 .. r |-> data[next + j - 1]]
         /\ next' = next + r
  /\ UNCHANGED <<kernel, mode, synced, data, endb, here, extent, hole, flag, args, off, pc, all, ok, ret>>

\* sfrd moved r bytes from the kernel: the offset and f->here follow.
Advance(r) ==
  /\ fpos' = fpos + r /\ here' = here + r
  /\ extent' = IF r > 0 THEN Larger(extent, here + r) ELSE extent
  /\ flag' \in RdFlag(fpos, r)
  /\ UNCHANGED <<file, fsize, hole>>

Empty == Reading /\ mode = "READ" /\ ~synced /\ Unread = 0 /\ Wanted > 0

ReadResult == IF op = "getc" THEN -1 ELSE Len(got)

\* End of file or an error: the call returns what it has.
Exhausted(r) == r = 0 /\ Return(ReadResult)
Continue     == UNCHANGED <<args, off, pc, all, ok, ret>>

\* Straight to the caller: for large requests, and for requests that are
\* nearly what would be read into the buffer, which f->iosz may have lowered.
ReadDirect ==
  /\ Empty /\ op = "read"
  /\ \/ Direct(Wanted, ReadCap)
     \/ \E io \in Wanted .. ReadCap :
          io - (io \div 8) <= Wanted /\ (io = ReadCap \/ (Blksz > 0 /\ io % Blksz = 0))
  /\ \E r \in RdCounts(fpos, Wanted) :
       /\ Advance(r)
       /\ \/ Exhausted(r)
          \/ r > 0 /\ got' = got \o [j \in 1 .. r |-> file[fpos + j - 1]] /\ Continue
  /\ next' = 0 /\ endb' = 0 /\ data' = Blank
  /\ UNCHANGED <<mode, synced>>

\* Through the buffer (_sffilbuf), unless the request must bypass it.
ReadFill ==
  /\ Empty
  /\ op = "read" => ~Direct(Wanted, ReadCap) /\ ReadCap - (ReadCap \div 8) > Wanted
  /\ \E r \in RdCounts(fpos, ReadCap) :
       /\ Advance(r)
       /\ next' = 0 /\ endb' = r
       /\ data' = Holding([i \in Room |-> IF i < r THEN file[fpos + i] ELSE Zero], r)
       /\ \/ Exhausted(r)
          \/ r > 0 /\ Continue /\ UNCHANGED got
  /\ UNCHANGED <<mode, synced>>

ReadDone ==
  /\ Reading /\ mode = "READ" /\ ~synced /\ Wanted = 0 /\ Return(Len(got))
  /\ UNCHANGED <<kernel, stream, flag>>

----------------------------------------------------------------------------
(* sfsync, also called by sfseek when a WRITE buffer is not empty.         *)

SyncRead ==
  /\ op = "sync" /\ pc = "loop" /\ mode = "READ" /\ pc' = "done"
  /\ IF ~synced /\ Unread > 0
       THEN here' = here - Unread /\ fpos' = here - Unread /\ synced' = TRUE
       ELSE UNCHANGED <<here, fpos, synced>>
  /\ UNCHANGED <<file, fsize, mode, data, next, endb, extent, hole, flag, args, off, got, all, ok, ret>>

SyncWrite ==
  /\ op = "sync" /\ pc = "loop" /\ mode = "WRITE"
  /\ IF next > 0 THEN pc' = "flush" /\ all' = TRUE ELSE pc' = "hole" /\ UNCHANGED all
  /\ UNCHANGED <<kernel, stream, flag, args, off, got, ok, ret>>

\* "realize a previously created hole of 0's": seek back one byte, write a 0.
\* The seek moves the kernel's offset only; the write moves f->here too.
SyncHole ==
  /\ pc = "hole" /\ hole' = FALSE /\ pc' = "done"
  /\ IF hole /\ fpos > 0
       THEN \/ /\ file' = [i \in Index |-> IF i = fpos - 1 THEN Zero ELSE file[i]]
               /\ fsize' = Larger(fsize, fpos) /\ fpos' = fpos
               /\ here' = here + 1 /\ extent' = Larger(extent, here + 1) /\ flag' = "none"
            \/ /\ "writefail" \in Faults /\ fpos' = fpos - 1 /\ flag' = "error"
               /\ UNCHANGED <<file, fsize, here, extent>>
       ELSE UNCHANGED <<kernel, here, extent, flag>>
  /\ UNCHANGED <<buffer, args, off, got, all, ok, ret>>

\* Mutant of SyncDone: the failure of the flush is forgotten.
SyncDoneBlind ==
  /\ op = "sync" /\ pc = "done" /\ Return(0)
  /\ UNCHANGED <<kernel, stream, flag>>

SyncDone ==
  /\ op = "sync" /\ pc = "done" /\ Return(IF ok THEN 0 ELSE -1)
  /\ UNCHANGED <<kernel, stream, flag>>

----------------------------------------------------------------------------
(* sfseek.                                                                 *)

SeekUnsync == Resync({"seek"})

\* Mutant of SeekBase: SEEK_CUR counts from what was read ahead.
SeekBaseAhead == CASE whence = "set" -> 0
                   [] whence = "cur" -> here + (IF mode = "WRITE" THEN next ELSE 0)
                   [] whence = "end" -> fsize

\* The position and end a seek counts from: all in terms of f->here.
SeekBase == CASE whence = "set" -> 0
              [] whence = "cur" -> here + (IF mode = "WRITE" THEN next ELSE -Unread)
              [] whence = "end" -> fsize

\* A WRITE stream that is already there keeps its buffer.
SeekStay == mode = "WRITE" /\ whence # "end" /\ SeekBase + amt = here + next

SeekStart ==
  /\ op = "seek" /\ pc = "loop" /\ ~synced
  /\ flag' = "none"
  /\ \/ SeekStay /\ Return(here + next)
     \/ /\ ~SeekStay
        /\ IF Pending > 0 THEN pc' = "flush" /\ all' = TRUE ELSE pc' = "seek" /\ UNCHANGED all
        /\ UNCHANGED <<args, off, got, ok, ret>>
  /\ UNCHANGED <<kernel, stream>>

\* A seek whose sync failed gives up.
SeekSynced ==
  /\ op = "seek" /\ pc = "done"
  /\ \/ ok /\ pc' = "seek" /\ UNCHANGED <<args, off, got, all, ok, ret>>
     \/ ~ok /\ Return(-1)
  /\ UNCHANGED <<kernel, stream, flag>>

\* lseek and newpos: any WRITE stream, and SEEK_END in either mode.
SeekHard ==
  /\ op = "seek" /\ pc = "seek" /\ (mode = "WRITE" \/ whence = "end")
  /\ LET p == amt + (IF whence = "cur" THEN here ELSE SeekBase)
     IN  IF p < 0
           THEN Return(-1) /\ flag' = "error" /\ UNCHANGED <<fpos, next, endb, data, here>>
           ELSE /\ fpos' = (IF whence = "end" \/ p # here THEN p ELSE fpos)
                /\ next' = 0 /\ endb' = (IF mode = "WRITE" THEN Size ELSE 0) /\ data' = Blank
                /\ here' = p /\ Return(p) /\ UNCHANGED flag
  /\ UNCHANGED <<file, fsize, mode, synced, extent, hole>>

SoftTarget == SeekBase + amt

\* The target is in the buffer: only f->next moves.
InBuffer == SoftTarget <= here /\ SoftTarget >= here - endb

SeekNear ==
  /\ op = "seek" /\ pc = "seek" /\ mode = "READ" /\ whence # "end" /\ InBuffer
  /\ next' = endb - (here - SoftTarget)
  /\ fpos' = (IF whence = "cur" /\ amt = 0 THEN here ELSE fpos)
  /\ Return(SoftTarget)
  /\ UNCHANGED <<file, fsize, mode, synced, data, endb, here, extent, hole, flag>>

SeekNegative ==
  /\ op = "seek" /\ pc = "seek" /\ mode = "READ" /\ whence # "end" /\ ~InBuffer
  /\ SoftTarget < 0 /\ Return(SoftTarget)
  /\ UNCHANGED <<kernel, stream, flag>>

\* Where the kernel is sent to reach p from s.  Which start is taken depends
\* on f->lpos; either may be.
SeekStarts(p, s) ==
  (IF ReadCap > Blksz /\ p + Blksz > s THEN {Larger(0, s - ReadCap)} ELSE {})
    \cup (IF Blksz > 0 /\ ReadCap >= 2 * Blksz
           THEN {r \in 0 .. p : r % Blksz = 0 /\ p - r < Blksz} ELSE {p})

\* The buffer is dropped, the kernel sent to r <= p, and a read made to cover
\* the bytes from r to p; if it does not, the kernel is sent to p.
SeekFar ==
  /\ op = "seek" /\ pc = "seek" /\ mode = "READ" /\ whence # "end" /\ ~InBuffer
  /\ SoftTarget >= 0
  /\ LET p == SoftTarget
         s == here - Unread
     IN  \E r \in SeekStarts(p, s) :
           LET at == IF r # here THEN r ELSE fpos
           IN  \/ /\ r >= p
                  /\ fpos' = at /\ here' = r /\ next' = 0 /\ endb' = 0 /\ data' = Blank
                  /\ UNCHANGED <<extent, flag>>
               \/ /\ r < p
                  /\ \E k \in RdCounts(at, ReadCap) :
                       /\ flag' \in RdFlag(at, k)
                       /\ extent' = (IF k > 0 THEN Larger(extent, r + k) ELSE extent)
                       /\ IF p <= r + k
                            THEN /\ fpos' = at + k /\ here' = r + k
                                 /\ next' = p - r /\ endb' = k
                                 /\ data' = Holding([i \in Room |-> IF i < k THEN file[at + i] ELSE Zero], k)
                            ELSE /\ fpos' = p /\ here' = p
                                 /\ next' = 0 /\ endb' = 0 /\ data' = Blank
  /\ Return(SoftTarget)
  /\ UNCHANGED <<file, fsize, mode, synced, hole>>

----------------------------------------------------------------------------
(* sfpurge, sftell and sfsize.                                             *)

\* A synced READ stream has its data junked by _sfmode(f,mode|SF_SYNCED).
Purge ==
  /\ op = "purge" /\ pc = "loop" /\ Return(0)
  /\ next' = 0 /\ endb' = (IF mode = "WRITE" THEN Size ELSE 0) /\ data' = Blank /\ synced' = FALSE
  /\ IF mode = "READ" /\ ~synced /\ Unread > 0
       THEN here' = here - Unread /\ fpos' = here - Unread
       ELSE UNCHANGED <<here, fpos>>
  /\ UNCHANGED <<file, fsize, mode, extent, hole, flag>>

TellUnsync == Resync({"tell", "size"})

Tell ==
  /\ op = "tell" /\ pc = "loop" /\ ~synced
  /\ Return(here + (IF mode = "WRITE" THEN next ELSE -Unread))
  /\ UNCHANGED <<kernel, stream, flag>>

\* f->extent is first raised to f->here, data or no data in between.
FileSize ==
  /\ op = "size" /\ pc = "loop" /\ ~synced
  /\ extent' = Larger(extent, here)
  /\ Return(IF mode = "WRITE" THEN Larger(extent', here + next) ELSE extent')
  /\ UNCHANGED <<kernel, buffer, here, hole, flag>>

----------------------------------------------------------------------------
(* The stream as sfopen(0,name,"r+") and the first sfsetbuf leave it.      *)

Init ==
  /\ \E c \in Initial :
       /\ Len(c) <= MaxPos
       /\ file = [i \in Index |-> IF i < Len(c) THEN c[i + 1] ELSE Zero]
       /\ fsize = Len(c) /\ extent = Len(c)
  /\ fpos = 0 /\ here = 0 /\ hole = FALSE /\ flag = "none"
  /\ mode = "READ" /\ synced = FALSE /\ next = 0 /\ endb = 0 /\ data = Blank
  /\ op = "none" /\ src = <<>> /\ off = 0 /\ got = <<>> /\ whence = "set" /\ amt = 0
  /\ pc = "idle" /\ all = FALSE /\ ok = TRUE /\ ret = 0

Calls == CallWrite \/ CallPutc \/ CallRead \/ CallGetc \/ CallSeek \/ CallOther

Step ==
  \/ WriteSwitch \/ WriteFlush \/ WriteDirect \/ WriteDirectFail \/ WriteCopy \/ WriteDone
  \/ Flush \/ FlushFail
  \/ ReadFlush \/ ReadSwitch \/ ReadUnsync \/ ReadCopy \/ ReadDirect \/ ReadFill \/ ReadDone
  \/ SyncRead \/ SyncWrite \/ SyncHole \/ SyncDone
  \/ SeekUnsync \/ SeekStart \/ SeekSynced \/ SeekHard \/ SeekNear \/ SeekNegative \/ SeekFar
  \/ Purge \/ TellUnsync \/ Tell \/ FileSize

Next == Calls \/ Step

Spec == Init /\ [][Next]_vars

\* The calling thread runs the code of a call it made; nothing makes it call.
FairSpec == Spec /\ WF_vars(Step)

----------------------------------------------------------------------------
(* Properties.                                                             *)

\* Every variable stays in its range.
TypeOK ==
  /\ file \in [Index -> Byte] /\ fsize \in 0 .. MaxPos /\ fpos \in 0 .. MaxPos
  /\ mode \in {"READ", "WRITE"} /\ synced \in BOOLEAN /\ data \in [Room -> Byte]
  /\ next \in 0 .. ReadCap /\ endb \in 0 .. ReadCap
  /\ here \in Nat /\ extent \in Nat /\ hole \in BOOLEAN /\ flag \in {"none", "eof", "error"}
  /\ op \in {"none"} \cup Ops /\ src \in Seq(Byte) /\ off \in 0 .. Len(src) /\ got \in Seq(Byte)
  /\ whence \in {"set", "cur", "end"} /\ amt \in Int
  /\ pc \in {"idle", "loop", "flush", "toread", "hole", "done", "seek"}
  /\ all \in BOOLEAN /\ ok \in BOOLEAN /\ ret \in Int

\* f->here is where the kernel's offset is, at every point of every call: all
\* the arithmetic on f->here in sfseek, sftell, sfsync and _sfmode relies on it.
PositionsAgree == here = fpos

\* What is buffered for reading is what the file has there, so a seek inside
\* the buffer, a mode switch or a sync never exposes a byte of another place.
BufferCoherent ==
  mode = "READ" =>
    LET base == IF synced THEN here - next ELSE here - endb
    IN  /\ next <= endb /\ base >= 0 /\ (endb > 0 => base + endb <= fsize)
        /\ \A i \in 0 .. endb - 1 : data[i] = file[base + i]

\* A sfsync that reports success leaves no byte of the stream in the buffer,
\* no unrealized hole, and the kernel's offset at the position of the stream.
SyncDurable ==
  [][(op = "sync" /\ op' = "none" /\ ret' = 0) =>
       (Pending' = 0 /\ ~hole' /\ fpos' = CurPos')]_vars

\* The file as the application sees it: the disk with the pending bytes on top.
Content ==
  [i \in Index |-> IF mode = "WRITE" /\ i \in fpos .. fpos + next - 1 THEN data[i - fpos] ELSE file[i]]

File == INSTANCE SfFile WITH content <- Content, len <- CurLen, pos <- CurPos,
                             disk <- file, dlen <- fsize, call <- op

\* The stream implements SfFile: whatever is buffered, bytes are accepted in
\* order at the position, and read back from the position.
ImplementsFile == File!Spec

\* Every call returns, whatever the kernel answers.
CallsReturn == (op # "none") ~> (op = "none")

----------------------------------------------------------------------------
(* What the manual says and the code does not do.                          *)

=============================================================================
