------------------------------- MODULE SfTemp -------------------------------
(***************************************************************************)
(* A stream in memory (SF_STRING) and what sftmp makes of it: a buffer     *)
(* that grows with realloc, that is the application's and cannot grow, or  *)
(* that turns into a temporary file when it must grow or get a discipline. *)
(* Its length is f->extent, brought up to date by SFSTRSIZE only.          *)
(* As a file the stream is SfStream's: here it keeps the kernel's offset,  *)
(* f->here and the bytes of a WRITE buffer, and reads do not read ahead.   *)
(***************************************************************************)
EXTENDS Integers, Sequences, SequencesExt

CONSTANTS Byte, Zero,
          Junk,      \* what fresh memory holds
          Grain,     \* SF_GRAIN, what the size of a grown buffer is a multiple of
          Origins,   \* bound: how the stream may be opened, as <<kind, size>>
          MaxPos,    \* bound: positions the application asks for
          MaxSize,   \* bound: bytes of memory
          Payloads,  \* bound: what it writes
          Ops,       \* the calls it makes
          Faults     \* what may fail, and the calls the library answers wrongly

ASSUME BytesAssumption == Zero \in Byte /\ Junk \notin Byte
ASSUME SizesAssumption ==
  /\ Grain \in Nat \ {0} /\ MaxPos \in Nat /\ MaxSize >= MaxPos
  /\ Origins \subseteq {"grow", "temp", "fixed", "fixedw"} \X (1 .. MaxSize)
ASSUME PayloadsAssumption == Payloads \subseteq Seq(Byte) \ {<<>>}
ASSUME FaultsAssumption ==
  Faults \subseteq {"nomem", "nofile", "farseek", "farread", "shrink"}

VARIABLES kind,                  \* how it was opened; "file" once it is one
          mode, mem, size,       \* SF_READ or SF_WRITE, f->data, f->size
          next, endb,            \* as offsets from f->data
          here, extent,          \* f->here, f->extent
          locked,                \* SF_LOCK left by a call that is over
          file, fpos, pend,      \* as a file: its bytes, the offset, the bytes buffered
          op, src, off, got, whence, amt, ret   \* the call, its arguments and progress

memory == <<mem, size>>
string == <<mode, memory, next, endb, here, extent>>
asFile == <<file, fpos, pend>>
args   == <<op, src, whence, amt>>
vars   == <<kind, string, locked, asFile, args, off, got, ret>>

Index == 0 .. MaxSize - 1
Smaller(a, b) == IF a < b THEN a ELSE b
Larger(a, b)  == IF a > b THEN a ELSE b

----------------------------------------------------------------------------
(* Length and size.                                                        *)

\* SFSTRSIZE: f->here and f->extent follow a position that has passed here.
CurHere   == Larger(next, here)
CurExtent == IF next > here THEN Larger(next, extent) ELSE extent
StrSize   == here' = CurHere /\ extent' = CurExtent

\* The size _sfexcept gives a buffer that should hold need bytes.
Grown(need) ==
  LET more == IF need - size > 0 THEN need - size ELSE Grain
  IN  ((size + more + Grain - 1) \div Grain) * Grain

\* realloc: the bytes stay, the rest is junk; endb is the end of the memory,
\* whatever the mode.
Extend(need) ==
  /\ kind = "grow" /\ Grown(need) <= MaxSize
  /\ size' = Grown(need) /\ endb' = Grown(need)

\* _sfexcept gives up: no memory, a buffer of the application, or no file.
CannotGrow == kind \in {"fixed", "fixedw"} \/ (kind = "grow" /\ "nomem" \in Faults)
NoTempFile == kind = "temp" /\ "nofile" \in Faults

\* memclear from offset a to offset b.
Cleared(m, a, b) == [i \in Index |-> IF i \in a .. b - 1 THEN Zero ELSE m[i]]

----------------------------------------------------------------------------
(* _tmpexcept: the stream becomes a file.                                  *)

Overlay(s, p, b) ==
  [i \in 1 .. IF b = <<>> THEN Len(s) ELSE Larger(Len(s), p + Len(b)) |->
     IF i \in p + 1 .. p + Len(b) THEN b[i - p] ELSE IF i <= Len(s) THEN s[i] ELSE Zero]

\* Mutant of Image: the file gets what f->extent says without SFSTRSIZE.
ImageStale == [i \in 1 .. extent |-> mem[i - 1]]

\* What the new file is written: the bytes up to the extent.
Image == [i \in 1 .. CurExtent |-> mem[i - 1]]

\* The bytes are written to a new stream (past its buffer if they are many),
\* which then goes to where the old one was; a write buffer stays if it ends there.
BecomeFile ==
  /\ kind = "temp" /\ kind' = "file"
  /\ \/ CurExtent = next /\ file' = <<>> /\ pend' = Image /\ here' = 0 /\ fpos' = 0
     \/ file' = Image /\ pend' = <<>> /\ here' = next /\ fpos' = next
  /\ mode' = "WRITE" /\ mem' = [i \in Index |-> Junk] /\ size' = 0 /\ next' = 0 /\ endb' = 0 /\ extent' = 0

----------------------------------------------------------------------------
(* The calls.                                                              *)

Arguments(o, s, w, n) ==
  /\ op' = o /\ src' = s /\ whence' = w /\ amt' = n
  /\ off' = 0 /\ got' = <<>> /\ ret' = 0

CurPos == IF kind = "file" THEN here + Len(pend) ELSE next
CurLen == IF kind = "file" THEN Len(Overlay(file, fpos, pend)) ELSE CurExtent

Goal(w, n) == n + (CASE w = "set" -> 0 [] w = "cur" -> CurPos [] w = "end" -> CurLen)
Rounded(n) == ((n + Grain - 1) \div Grain) * Grain
Shrinks(n) == kind \in {"grow", "temp"} /\ next <= n /\ n <= CurExtent /\ Rounded(n) < size

\* The seeks and the resizes the library answers for a stream in memory, and
\* with a habit in Faults some that it answers wrongly.  A place before the
\* start is asked for ever of memory that lseek cannot refuse.
Seekable(t) ==
  /\ t < 0 => kind \in {"temp", "file"}
  /\ kind = "grow" /\ mode = "READ" /\ t > size => "farread" \in Faults
  /\ kind = "temp" /\ t > size => "farseek" \in Faults
Resizable(n) ==
  /\ Shrinks(n) => "shrink" \in Faults
  /\ kind = "temp" => n <= CurExtent

Call ==
  /\ op = "none"
  /\ \/ \E s \in Payloads : "write" \in Ops /\ CurPos + Len(s) <= MaxPos /\ Arguments("write", s, "set", 0)
     \/ \E n \in 1 .. 3 : "read" \in Ops /\ Arguments("read", <<>>, "set", n)
     \/ \E n \in 0 .. MaxPos : "resize" \in Ops /\ Resizable(n) /\ Arguments("resize", <<>>, "set", n)
     \/ \E w \in {"set", "cur", "end"}, n \in -1 .. MaxPos :
          /\ "seek" \in Ops /\ (w # "set" => n \in {-1, 1}) /\ Goal(w, n) <= MaxPos /\ Seekable(Goal(w, n))
          /\ Arguments("seek", <<>>, w, n)
     \/ \E o \in {"tell", "size", "sync"} \cap Ops : Arguments(o, <<>>, "set", 0)
  /\ UNCHANGED <<kind, string, locked, asFile>>

Ready(o) == op = o /\ ~locked
InMemory == kind # "file"

Return(r) ==
  /\ op' = "none" /\ src' = <<>> /\ off' = 0 /\ got' = <<>> /\ whence' = "set" /\ amt' = 0 /\ ret' = r

\* _sfmode: a stream that another call left locked cannot be used.
Refused ==
  /\ locked /\ op # "none" /\ Return(-1)
  /\ UNCHANGED <<kind, string, locked, asFile>>

----------------------------------------------------------------------------
(* sfwrite.                                                                *)

Left == Len(src) - off
Writing == Ready("write") /\ Left > 0
Progress(k) == off' = off + k /\ UNCHANGED <<args, got, ret, locked>>

\* _sfmode to SF_WRITE: the whole memory is the buffer.
WriteSwitch ==
  /\ Writing /\ InMemory /\ mode = "READ" /\ mode' = "WRITE" /\ endb' = size
  /\ Progress(0) /\ UNCHANGED <<kind, memory, next, here, extent, asFile>>

WriteCopy ==
  /\ Writing /\ InMemory /\ mode = "WRITE" /\ endb > next
  /\ LET k == Smaller(endb - next, Left)
     IN  /\ mem' = [i \in Index |-> IF i \in next .. next + k - 1 THEN src[off + 1 + i - next] ELSE mem[i]]
         /\ next' = next + k /\ Progress(k)
  /\ UNCHANGED <<kind, mode, size, endb, here, extent, asFile>>

Full == Writing /\ InMemory /\ mode = "WRITE" /\ endb = next

WriteExtend ==
  /\ Full /\ Extend(Left + next) /\ Progress(0)
  /\ UNCHANGED <<kind, mode, mem, next, here, extent, asFile>>

WriteBecome == Full /\ BecomeFile /\ Progress(0)

\* No forward progress: the call returns what it wrote.
WriteFails ==
  /\ Full /\ (CannotGrow \/ NoTempFile) /\ Return(off)
  /\ UNCHANGED <<kind, string, locked, asFile>>

WriteFile ==
  /\ Writing /\ kind = "file" /\ pend' = pend \o SubSeq(src, off + 1, Len(src)) /\ Progress(Left)
  /\ UNCHANGED <<kind, string, file, fpos>>

WriteDone ==
  /\ Ready("write") /\ Left = 0 /\ Return(off)
  /\ UNCHANGED <<kind, string, locked, asFile>>

----------------------------------------------------------------------------
(* sfread.                                                                 *)

Reading == Ready("read") /\ got = <<>>

\* A stream opened only for writing.
ReadRefused ==
  /\ Reading /\ kind = "fixedw" /\ Return(-1) /\ UNCHANGED <<kind, string, locked, asFile>>

ReadSwitch ==
  /\ Reading /\ InMemory /\ kind # "fixedw" /\ mode = "WRITE"
  /\ StrSize /\ mode' = "READ" /\ endb' = CurExtent
  /\ UNCHANGED <<kind, memory, next, locked, asFile, args, off, got, ret>>

ReadCopy ==
  /\ Reading /\ InMemory /\ mode = "READ" /\ endb > next
  /\ LET k == Smaller(endb - next, amt)
     IN  got' = [j \in 1 .. k |-> mem[next + j - 1]] /\ next' = next + k
  /\ UNCHANGED <<kind, mode, memory, endb, here, extent, locked, asFile, args, off, ret>>

\* The write buffer is flushed when a call needs it empty, or it is full.
Flush ==
  /\ op # "none" /\ kind = "file" /\ pend # <<>>
  /\ file' = Overlay(file, fpos, pend) /\ fpos' = fpos + Len(pend) /\ here' = here + Len(pend) /\ pend' = <<>>
  /\ UNCHANGED <<kind, mode, memory, next, endb, extent, locked, args, off, got, ret>>

ReadFile ==
  /\ Reading /\ kind = "file" /\ pend = <<>> /\ fpos < Len(file)
  /\ LET k == Smaller(Len(file) - fpos, amt)
     IN  got' = SubSeq(file, fpos + 1, fpos + k) /\ fpos' = fpos + k /\ here' = here + k
  /\ UNCHANGED <<kind, mode, memory, next, endb, extent, locked, file, pend, args, off, ret>>

AtEnd == IF InMemory THEN mode = "READ" /\ endb <= next ELSE pend = <<>> /\ fpos >= Len(file)

ReadDone ==
  /\ Ready("read") /\ (got # <<>> \/ AtEnd) /\ Return(Len(got))
  /\ UNCHANGED <<kind, string, locked, asFile>>

----------------------------------------------------------------------------
(* sfseek, sftell, sfsize, sfdisc.                                         *)

Target == Goal(whence, amt)
Seeking == Ready("seek") /\ InMemory

\* A seek past the end clears the bytes it skips and leaves the length.
SeekInside ==
  /\ Seeking /\ Target \in 0 .. size
  /\ next' = Target /\ here' = Target /\ extent' = CurExtent
  /\ mem' = Cleared(mem, CurExtent, Target)
  /\ Return(Target) /\ UNCHANGED <<kind, mode, size, endb, locked, asFile>>

\* A seek past the memory: sfsk extends it and sfseek looks again.
SeekExtend ==
  /\ Seeking /\ Target > size
  /\ Extend(Target) /\ StrSize
  /\ UNCHANGED <<kind, mode, mem, next, locked, asFile, args, off, got, ret>>

SeekFails ==
  /\ Seeking /\ Target > size /\ (CannotGrow \/ NoTempFile) /\ StrSize /\ Return(-1)
  /\ UNCHANGED <<kind, mode, memory, next, endb, locked, asFile>>

\* A place before the start is lseek's to refuse: the stream becomes a file.
SeekBefore ==
  /\ Seeking /\ Target < 0 /\ BecomeFile /\ Return(-1) /\ UNCHANGED locked

SeekFile ==
  /\ Ready("seek") /\ kind = "file" /\ pend = <<>>
  /\ IF Target < 0 THEN Return(-1) /\ UNCHANGED <<fpos, here>>
     ELSE Return(Target) /\ fpos' = Target /\ here' = Target
  /\ UNCHANGED <<kind, mode, memory, next, endb, extent, locked, file, pend>>

Tell == Ready("tell") /\ Return(CurPos) /\ UNCHANGED <<kind, string, locked, asFile>>

FileSize ==
  /\ Ready("size") /\ Return(CurLen)
  /\ IF InMemory THEN StrSize ELSE UNCHANGED <<here, extent>>
  /\ UNCHANGED <<kind, mode, memory, next, endb, locked, asFile>>

\* sfdisc: a temporary stream is a file before it gets a discipline.
SyncBecome == Ready("sync") /\ BecomeFile /\ Return(0) /\ UNCHANGED locked

SyncFails ==
  /\ Ready("sync") /\ NoTempFile /\ Return(-1) /\ UNCHANGED <<kind, string, locked, asFile>>

Sync ==
  /\ Ready("sync") /\ kind # "temp" /\ (kind = "file" => pend = <<>>) /\ Return(0)
  /\ UNCHANGED <<kind, string, locked, asFile>>

----------------------------------------------------------------------------
(* sfresize.                                                               *)

\* Shorter: the bytes cut off are cleared. Memory that is given back (never of
\* a buffer the position is past) is still counted by next and endb.
ResizeShorter ==
  /\ Ready("resize") /\ InMemory /\ CurExtent >= amt
  /\ mode' = "WRITE" /\ here' = CurHere /\ extent' = amt
  /\ endb' = IF mode = "READ" THEN size ELSE endb
  /\ size' = IF Shrinks(amt) THEN Rounded(amt) ELSE size
  /\ mem' = Cleared(mem, amt, IF Shrinks(amt) THEN Rounded(amt) ELSE CurExtent)
  /\ Return(0) /\ UNCHANGED <<kind, next, locked, asFile>>

\* Longer: more memory is asked for, though there may be enough.
ResizeLonger ==
  /\ Ready("resize") /\ InMemory /\ CurExtent < amt /\ Extend(amt)
  /\ mode' = "WRITE" /\ here' = CurHere /\ extent' = amt
  /\ mem' = Cleared(mem, CurExtent, amt)
  /\ Return(0) /\ UNCHANGED <<kind, next, locked, asFile>>

\* The error return leaves the stream locked.
ResizeFails ==
  /\ Ready("resize") /\ InMemory /\ CurExtent < amt /\ CannotGrow
  /\ mode' = "WRITE" /\ StrSize /\ endb' = IF mode = "READ" THEN size ELSE endb
  /\ locked' = TRUE /\ Return(-1) /\ UNCHANGED <<kind, memory, next, asFile>>

ResizeFile ==
  /\ Ready("resize") /\ kind = "file" /\ pend = <<>>
  /\ file' = [i \in 1 .. amt |-> IF i <= Len(file) THEN file[i] ELSE Zero]
  /\ Return(0) /\ UNCHANGED <<kind, string, locked, fpos, pend>>

----------------------------------------------------------------------------

\* sfsetbuf and _sfmode: an application's buffer that is readable is all
\* content; memory of the library's own is empty.
Init ==
  /\ \E o \in Origins : kind = o[1] /\ size = IF o[1] = "grow" THEN Grain ELSE o[2]
  /\ mem = [i \in Index |-> IF i < size /\ kind = "fixed" THEN Zero ELSE Junk]
  /\ mode = IF kind = "fixedw" THEN "WRITE" ELSE "READ"
  /\ next = 0 /\ here = 0 /\ extent = IF kind = "fixed" THEN size ELSE 0
  /\ endb = IF kind \in {"fixed", "fixedw"} THEN size ELSE 0
  /\ locked = FALSE /\ file = <<>> /\ fpos = 0 /\ pend = <<>>
  /\ op = "none" /\ src = <<>> /\ off = 0 /\ got = <<>> /\ whence = "set" /\ amt = 0 /\ ret = 0

Step ==
  \/ Refused \/ WriteSwitch \/ WriteCopy \/ WriteExtend \/ WriteBecome \/ WriteFails \/ WriteFile \/ WriteDone
  \/ ReadRefused \/ ReadSwitch \/ ReadCopy \/ Flush \/ ReadFile \/ ReadDone
  \/ SeekInside \/ SeekExtend \/ SeekFails \/ SeekBefore \/ SeekFile
  \/ Tell \/ FileSize \/ SyncBecome \/ SyncFails \/ Sync
  \/ ResizeShorter \/ ResizeLonger \/ ResizeFails \/ ResizeFile

Next == Call \/ Step
Spec == Init /\ [][Next]_vars

----------------------------------------------------------------------------
(* Properties.                                                             *)

Content ==
  [i \in 0 .. MaxPos - 1 |->
     IF kind = "file"
     THEN LET f == Overlay(file, fpos, pend) IN IF i < Len(f) THEN f[i + 1] ELSE Zero
     ELSE IF i < CurExtent THEN mem[i] ELSE Zero]

File == INSTANCE SfFile WITH content <- Content, len <- CurLen, pos <- CurPos,
                             disk <- Content, dlen <- CurLen, call <- op

=============================================================================
