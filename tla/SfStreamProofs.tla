--------------------------- MODULE SfStreamProofs ---------------------------
(***************************************************************************)
(* For an application whose writes hold no zero byte (so that no write     *)
(* leaves a hole; realizing one moves f->here too little), whatever the    *)
(* sizes, the calls it makes and the kernel's answers: f->here is the      *)
(* kernel's offset and the read buffer is the file, between any two steps. *)
(***************************************************************************)
EXTENDS SfStream, SequenceTheorems, TLAPS

\* No write holds a zero byte.
NoZero == \A b \in Payloads : \A i \in 1 .. Len(b) : b[i] # Zero

\* The kernel and the stream between two steps: in their ranges, agreeing on
\* the position, coherent, and without a hole or a zero byte to make one of.
StreamType ==
  /\ file \in [Index -> Byte] /\ fsize \in 0 .. MaxPos /\ fpos \in 0 .. MaxPos
  /\ mode \in {"READ", "WRITE"} /\ synced \in BOOLEAN /\ data \in [Room -> Byte]
  /\ next \in 0 .. ReadCap /\ endb \in 0 .. ReadCap
  /\ here \in Nat /\ extent \in Nat /\ flag \in {"none", "eof", "error"}

StreamInv ==
  /\ StreamType /\ PositionsAgree /\ BufferCoherent /\ hole = FALSE
  /\ mode = "WRITE" => /\ ~synced /\ next <= Size /\ endb = Size
                        /\ \A i \in 0 .. next - 1 : data[i] # Zero
  /\ CurPos \in 0 .. MaxPos

\* Where a seek was asked to go.
SeekGoal ==
  amt + (CASE whence = "set" -> 0 [] whence = "cur" -> CurPos [] whence = "end" -> CurLen)

\* The call: its arguments, the mode each point of it runs in, and that the
\* caller asked for nothing outside the bound.
CallType ==
  /\ op \in {"none"} \cup Ops /\ src \in Seq(Byte) /\ off \in 0 .. Len(src) /\ got \in Seq(Byte)
  /\ whence \in {"set", "cur", "end"} /\ amt \in Int
  /\ pc \in {"idle", "loop", "flush", "toread", "hole", "done", "seek"}
  /\ all \in BOOLEAN /\ ok \in BOOLEAN /\ ret \in Int

CallInv ==
  /\ CallType
  /\ \A i \in 1 .. Len(src) : src[i] # Zero
  /\ pc \in {"flush", "toread", "hole"} => mode = "WRITE"
  /\ op = "seek" /\ pc \in {"done", "seek"} => ~synced
  /\ op \in {"write", "putc"} => CurPos + Len(src) - off <= MaxPos
  /\ op = "seek" => SeekGoal <= MaxPos
  /\ op \in {"read", "getc"} => Len(got) <= amt /\ amt \in Nat

IInv == StreamInv /\ CallInv

----------------------------------------------------------------------------
(* What the system calls do when there is no hole.                         *)

\* Bytes that are not zero hold no page of zeros: sfoutput skips nothing.
LEMMA NoHoles ==
  ASSUME NEW n \in Nat, NEW b, \A i \in 0 .. n - 1 : b[i] # Zero
  PROVE  HoleBytes(b, n) = {}
<1>1. ASSUME NEW s \in ZeroPages(b, n)
      PROVE  FALSE
  BY <1>1, SizesAssumption, s \in 0 .. n - 1, s \in s .. s + Page - 1 DEF ZeroPages
<1>2. QED
  BY <1>1 DEF HoleBytes

\* The last of the first w bytes is at w - 1.
LEMMA LastByte ==
  ASSUME NEW w \in Nat \ {0}
  PROVE  (CHOOSE i \in 0 .. w - 1 : \A j \in 0 .. w - 1 : j <= i) = w - 1
OBVIOUS

\* Without holes, sfwr moves the file's end, the kernel's offset and f->here
\* by the bytes it accepted.
LEMMA WrEffect ==
  ASSUME StreamType, PositionsAgree,
         NEW b, NEW n \in Nat, NEW w \in 1 .. n, fpos + n <= MaxPos,
         \A i \in 0 .. n - 1 : b[i] \in Byte /\ b[i] # Zero,
         SfWr(b, n, w)
  PROVE  /\ file' \in [Index -> Byte]
         /\ fsize' = Larger(fsize, fpos + w) /\ fpos' = fpos + w /\ here' = here + w
         /\ extent' \in Nat /\ hole' = FALSE /\ flag' = "none"
<1>   DEFINE W == (0 .. w - 1) \ HoleBytes(b, n)
            T == CHOOSE i \in W : \A j \in W : j <= i
<1>1. HoleBytes(b, n) = {}
  BY NoHoles
<1>2. W = 0 .. w - 1 /\ W # {}
  BY <1>1
<1>3. T = w - 1
  <2>1. w \in Nat \ {0}
    OBVIOUS
  <2>2. QED
    BY <1>2, <2>1, LastByte
<1>4. /\ file' = [i \in Index |-> IF i - fpos \in W THEN b[i - fpos] ELSE file[i]]
      /\ fsize' = IF W = {} THEN fsize ELSE Larger(fsize, fpos + T + 1)
      /\ fpos' = fpos + w /\ here' = here + w /\ extent' = Larger(extent, here + w)
      /\ hole' = (w - 1 \in HoleBytes(b, n)) /\ flag' = "none"
  BY DEF SfWr
<1>   HIDE DEF W, T
<1>5. fsize' = Larger(fsize, fpos + w)
  <2>1. fpos + T + 1 = fpos + w
    BY <1>3 DEF StreamType
  <2>2. QED
    BY <1>2, <1>4, <2>1
<1>6. file' \in [Index -> Byte]
  <2>1. SUFFICES ASSUME NEW i \in Index
                 PROVE  (IF i - fpos \in W THEN b[i - fpos] ELSE file[i]) \in Byte
    BY <1>4
  <2>2. QED
    BY <1>2 DEF StreamType, Index
<1>7. extent' \in Nat
  BY <1>4 DEF StreamType, Larger
<1>8. hole' = FALSE
  <2>1. (w - 1 \in HoleBytes(b, n)) = FALSE
    BY <1>1
  <2>2. hole' = (w - 1 \in HoleBytes(b, n))
    BY <1>4
  <2>3. QED
    BY <2>1, <2>2
<1>9. QED
  BY <1>4, <1>5, <1>6, <1>7, <1>8, Zenon

----------------------------------------------------------------------------
(* Frames: what leaves one half of the invariant alone.                    *)

\* A call that returns has nothing left to promise.
LEMMA ReturnInv ==
  ASSUME NEW r \in Int, Return(r)
  PROVE  CallInv'
<1>1. CallType'
  <2>1. src' \in Seq(Byte) /\ Len(src') = 0
    BY DEF Return
  <2>2. got' \in Seq(Byte)
    BY DEF Return
  <2>3. all' \in BOOLEAN /\ ok' \in BOOLEAN
    BY DEF Return
  <2>4. op' \in {"none"} \cup Ops /\ whence' \in {"set", "cur", "end"} /\ amt' \in Int
         /\ pc' \in {"idle", "loop", "flush", "toread", "hole", "done", "seek"}
         /\ ret' \in Int /\ off' = 0
    BY DEF Return
  <2>5. QED
    BY <2>1, <2>2, <2>3, <2>4 DEF CallType
<1>2. (\A i \in 1 .. Len(src) : src[i] # Zero)'
  BY DEF Return
<1>3. QED
  BY <1>1, <1>2 DEF Return, CallInv

LEMMA StreamFrame ==
  ASSUME StreamInv, UNCHANGED <<kernel, stream>>, flag' \in {"none", "eof", "error"}
  PROVE  StreamInv' /\ CurPos' = CurPos /\ CurLen' = CurLen
BY DEF StreamInv, StreamType, kernel, stream, buffer, PositionsAgree, BufferCoherent, CurPos, CurLen, Pending, Unread

----------------------------------------------------------------------------
(* The invariant is inductive: one lemma for the calls and one per action. *)

\* A call starts with arguments inside the bound and an untouched stream.
LEMMA CallsInv ==
  ASSUME NoZero, IInv, Calls
  PROVE  IInv'
<1>1. ASSUME NEW o \in Ops, NEW b \in {<<>>} \cup Payloads, NEW w \in {"set", "cur", "end"},
             NEW n \in Int, Begin(o, b, w, n),
             o \in {"write", "putc"} => CurPos + Len(b) <= MaxPos,
             o = "seek" => n + (CASE w = "set" -> 0 [] w = "cur" -> CurPos [] w = "end" -> CurLen) <= MaxPos,
             o \in {"read", "getc"} => n \in Nat
      PROVE  IInv'
  <2>1. StreamInv' /\ CurPos' = CurPos /\ CurLen' = CurLen
    BY <1>1, StreamFrame DEF Begin, IInv, StreamInv, StreamType
  <2>2. b \in Seq(Byte) /\ \A i \in 1 .. Len(b) : b[i] # Zero
    <3>1. CASE b = <<>>
      BY <3>1
    <3>2. CASE b \in Payloads
      BY <3>2, PayloadsAssumption DEF NoZero
    <3>3. QED
      BY <3>1, <3>2
  <2>3. src' = b /\ off' = 0 /\ got' = <<>> /\ op' = o /\ whence' = w /\ amt' = n /\ pc' = "loop"
    BY <1>1 DEF Begin
  <2>4. CallType'
    <3>1. off' \in 0 .. Len(src')
      BY <2>2, <2>3
    <3>2. got' \in Seq(Byte) /\ Len(got') = 0
      BY <1>1 DEF Begin
    <3>3. all' \in BOOLEAN /\ ok' \in BOOLEAN
      BY <1>1 DEF Begin
    <3>4. ret' \in Int
      BY <1>1 DEF Begin
    <3>5. QED
      BY <1>1, <2>2, <2>3, <3>1, <3>2, <3>3, <3>4 DEF CallType
  <2>5. op' \in {"write", "putc"} => CurPos' + Len(src') - off' <= MaxPos
    BY <1>1, <2>1, <2>2, <2>3, SizesAssumption DEF StreamInv
  <2>6. op' = "seek" => SeekGoal' <= MaxPos
    BY <1>1, <2>1, <2>3 DEF SeekGoal
  <2>7. op' \in {"read", "getc"} => Len(got') <= amt' /\ amt' \in Nat
    BY <1>1, <2>3
  <2>8. QED
    BY <2>1, <2>2, <2>3, <2>4, <2>5, <2>6, <2>7 DEF IInv, CallInv
<1>2. CASE CallWrite
  <2>1. PICK b \in Payloads : CurPos + Len(b) <= MaxPos /\ Begin("write", b, "set", 0)
    BY <1>2 DEF CallWrite
  <2>2. "write" \in Ops
    BY <2>1 DEF Begin
  <2>3. QED
    BY <1>1, <2>1, <2>2
<1>3. CASE CallPutc
  <2>1. PICK b \in Payloads : Len(b) = 1 /\ CurPos < MaxPos /\ Begin("putc", b, "set", 0)
    BY <1>3 DEF CallPutc
  <2>2. "putc" \in Ops
    BY <2>1 DEF Begin
  <2>3. CurPos + Len(b) <= MaxPos
    BY <2>1, SizesAssumption DEF IInv, StreamInv
  <2>4. Begin("putc", b, "set", 0)
    BY <2>1
  <2>5. QED
    BY <1>1, <2>2, <2>3, <2>4
<1>4. CASE CallRead
  <2>1. PICK n \in 1 .. MaxRead : Begin("read", <<>>, "set", n)
    BY <1>4 DEF CallRead
  <2>2. "read" \in Ops /\ n \in Nat /\ n \in Int
    BY <2>1, SizesAssumption DEF Begin
  <2>3. QED
    BY <1>1, <2>1, <2>2
<1>5. CASE CallGetc
  <2>1. "getc" \in Ops /\ Begin("getc", <<>>, "set", 1)
    BY <1>5 DEF CallGetc, Begin
  <2>2. QED
    BY <1>1, <2>1
<1>6. CASE CallSeek
  <2>1. PICK w \in {"set", "cur", "end"}, n \in -1 .. MaxPos :
          /\ n + (CASE w = "set" -> 0 [] w = "cur" -> CurPos [] w = "end" -> CurLen) <= MaxPos
          /\ Begin("seek", <<>>, w, n)
    BY <1>6 DEF CallSeek
  <2>2. "seek" \in Ops /\ n \in Int
    BY <2>1, SizesAssumption DEF Begin
  <2>3. QED
    BY <1>1, <2>1, <2>2
<1>7. CASE CallOther
  <2>1. PICK o \in {"sync", "purge", "tell", "size"} : Begin(o, <<>>, "set", 0)
    BY <1>7 DEF CallOther
  <2>2. o \in Ops /\ 0 \in Int
    BY <2>1 DEF Begin
  <2>3. QED
    BY <1>1, <2>1, <2>2
<1>8. QED
  BY <1>2, <1>3, <1>4, <1>5, <1>6, <1>7 DEF Calls

\* The steps that only return.
LEMMA QuietReturnInv ==
  ASSUME IInv, NEW r \in Int, Return(r), UNCHANGED <<kernel, stream>>, flag' \in {"none", "eof", "error"}
  PROVE  IInv'
BY ReturnInv, StreamFrame DEF IInv

\* The steps that only go to another point of the call.
LEMMA GotoInv ==
  ASSUME IInv, UNCHANGED <<kernel, stream>>, flag' \in {"none", "eof", "error"},
         UNCHANGED <<args, off, got, ret>>, all' \in BOOLEAN, ok' \in BOOLEAN,
         pc' \in {"idle", "loop", "flush", "toread", "hole", "done", "seek"},
         pc' \in {"flush", "toread", "hole"} => mode = "WRITE",
         op = "seek" /\ pc' \in {"done", "seek"} => ~synced
  PROVE  IInv'
<1>1. StreamInv' /\ CurPos' = CurPos /\ CurLen' = CurLen
  BY StreamFrame DEF IInv
<1>2. /\ mode' = mode /\ synced' = synced /\ op' = op /\ src' = src /\ whence' = whence /\ amt' = amt
      /\ off' = off /\ got' = got /\ ret' = ret
  BY DEF stream, buffer, args
<1>3. SeekGoal' = SeekGoal
  BY <1>1, <1>2 DEF SeekGoal
<1>4. CallType'
  BY <1>2 DEF IInv, CallInv, CallType
<1>5. QED
  BY <1>1, <1>2, <1>3, <1>4 DEF IInv, CallInv

LEMMA WriteDirectFailInv == ASSUME IInv, WriteDirectFail PROVE IInv'
<1>1. Short \in Int
  BY DEF IInv, CallInv, CallType, Short
<1>2. Return(Short) /\ UNCHANGED <<kernel, stream>> /\ flag' \in {"none", "eof", "error"}
  BY DEF WriteDirectFail, IInv, StreamInv, StreamType
<1>3. QED
  BY <1>1, <1>2, QuietReturnInv

LEMMA WriteDoneInv == ASSUME IInv, WriteDone PROVE IInv'
<1>1. off \in Int
  BY DEF IInv, CallInv, CallType
<1>2. Return(off) /\ UNCHANGED <<kernel, stream>> /\ flag' \in {"none", "eof", "error"}
  BY DEF WriteDone, IInv, StreamInv, StreamType
<1>3. QED
  BY <1>1, <1>2, QuietReturnInv

LEMMA ReadDoneInv == ASSUME IInv, ReadDone PROVE IInv'
<1>1. Len(got) \in Int
  BY DEF IInv, CallInv, CallType
<1>2. Return(Len(got)) /\ UNCHANGED <<kernel, stream>> /\ flag' \in {"none", "eof", "error"}
  BY DEF ReadDone, IInv, StreamInv, StreamType
<1>3. QED
  BY <1>1, <1>2, QuietReturnInv

LEMMA SyncDoneInv == ASSUME IInv, SyncDone PROVE IInv'
<1>1. (IF ok THEN 0 ELSE -1) \in Int
  BY DEF IInv, CallInv, CallType
<1>2. Return((IF ok THEN 0 ELSE -1)) /\ UNCHANGED <<kernel, stream>> /\ flag' \in {"none", "eof", "error"}
  BY DEF SyncDone, IInv, StreamInv, StreamType
<1>3. QED
  BY <1>1, <1>2, QuietReturnInv

\* The target of a seek is a number.
LEMMA SoftTargetInt == ASSUME IInv PROVE SoftTarget \in Int
<1>1. amt \in Int /\ whence \in {"set", "cur", "end"}
  BY DEF IInv, CallInv, CallType
<1>2. fsize \in Int /\ here \in Int /\ next \in Int /\ endb \in Int
  BY SizesAssumption DEF IInv, StreamInv, StreamType, ReadCap
<1>3. QED
  BY <1>1, <1>2 DEF SoftTarget, SeekBase, Unread

LEMMA SeekNegativeInv == ASSUME IInv, SeekNegative PROVE IInv'
<1>1. SoftTarget \in Int
  BY SoftTargetInt
<1>2. Return(SoftTarget) /\ UNCHANGED <<kernel, stream>> /\ flag' \in {"none", "eof", "error"}
  BY DEF SeekNegative, IInv, StreamInv, StreamType
<1>3. QED
  BY <1>1, <1>2, QuietReturnInv

LEMMA TellInv == ASSUME IInv, Tell PROVE IInv'
<1>1. (here + (IF mode = "WRITE" THEN next ELSE -Unread)) \in Int
  BY SizesAssumption DEF IInv, StreamInv, StreamType, Unread, ReadCap
<1>2. /\ Return(here + (IF mode = "WRITE" THEN next ELSE -Unread)) /\ UNCHANGED <<kernel, stream>>
      /\ flag' \in {"none", "eof", "error"}
  BY DEF Tell, IInv, StreamInv, StreamType
<1>3. QED
  BY <1>1, <1>2, QuietReturnInv

LEMMA WriteFlushInv == ASSUME IInv, WriteFlush PROVE IInv'
BY GotoInv DEF WriteFlush, Writing, IInv, StreamInv, StreamType, CallInv, CallType

LEMMA ReadFlushInv == ASSUME IInv, ReadFlush PROVE IInv'
BY GotoInv DEF ReadFlush, Reading, IInv, StreamInv, StreamType, CallInv, CallType

LEMMA SyncWriteInv == ASSUME IInv, SyncWrite PROVE IInv'
BY GotoInv DEF SyncWrite,  IInv, StreamInv, StreamType, CallInv, CallType

\* A step inside a call, that may move the stream but not the caller's goal.
LEMMA CallFrame ==
  ASSUME IInv, UNCHANGED <<args, ret>>, off' \in 0 .. Len(src), got' \in Seq(Byte),
         all' \in BOOLEAN, ok' \in BOOLEAN,
         pc' \in {"idle", "loop", "flush", "toread", "hole", "done", "seek"},
         pc' \in {"flush", "toread", "hole"} => mode' = "WRITE",
         op = "seek" /\ pc' \in {"done", "seek"} => ~synced',
         op \in {"write", "putc"} => CurPos' + Len(src) - off' <= MaxPos,
         op = "seek" => CurPos' = CurPos /\ CurLen' = CurLen,
         op \in {"read", "getc"} => Len(got') <= amt
  PROVE  CallInv'
<1>1. op' = op /\ src' = src /\ whence' = whence /\ amt' = amt /\ ret' = ret
  BY DEF args
<1>2. op = "seek" => SeekGoal' = SeekGoal
  BY <1>1 DEF SeekGoal
<1>3. CallType'
  BY <1>1 DEF IInv, CallInv, CallType
<1>4. QED
  BY <1>1, <1>2, <1>3 DEF IInv, CallInv

\* Where a READ stream is: what it read ahead ends at the kernel's offset.
LEMMA ReadPlace ==
  ASSUME StreamInv, mode = "READ"
  PROVE  /\ next <= endb /\ Unread \in 0 .. ReadCap /\ Unread = endb - next /\ CurPos \in 0 .. MaxPos
         /\ ~synced => CurPos = here - Unread /\ here - endb >= 0
         /\ synced => CurPos = here /\ here + Unread <= MaxPos /\ here - next >= 0
         /\ CurLen = fsize /\ fpos = here /\ ReadCap \in Nat
BY SizesAssumption
   DEF StreamInv, StreamType, PositionsAgree, BufferCoherent, CurPos, CurLen, Unread, Pending, ReadCap, Larger

\* Where a WRITE stream is: its pending bytes start at the kernel's offset.
LEMMA WritePlace ==
  ASSUME StreamInv, mode = "WRITE"
  PROVE  /\ ~synced /\ next \in Nat /\ next <= Size /\ endb = Size /\ Size <= ReadCap /\ ReadCap \in Nat
         /\ here = fpos /\ fpos \in Nat /\ CurPos = fpos + next /\ CurPos <= MaxPos /\ MaxPos \in Nat
         /\ fsize \in 0 .. MaxPos /\ extent \in Nat /\ file \in [Index -> Byte] /\ data \in [Room -> Byte]
         /\ \A i \in 0 .. next - 1 : data[i] # Zero
<1>1. /\ next \in 0 .. ReadCap /\ here = fpos /\ fpos \in 0 .. MaxPos
      /\ fsize \in 0 .. MaxPos /\ extent \in Nat /\ file \in [Index -> Byte] /\ data \in [Room -> Byte]
  BY DEF StreamInv, StreamType, PositionsAgree
<1>2. ~synced /\ next <= Size /\ endb = Size /\ \A i \in 0 .. next - 1 : data[i] # Zero
  BY DEF StreamInv
<1>3. Size <= ReadCap /\ ReadCap \in Nat /\ MaxPos \in Nat
  BY SizesAssumption DEF ReadCap
<1>4. CurPos = fpos + next /\ CurPos \in 0 .. MaxPos
  BY DEF CurPos, StreamInv
<1>5. QED
  BY <1>1, <1>2, <1>3, <1>4

\* A step that empties the buffer at a place of the file.
LEMMA EmptyStream ==
  ASSUME StreamInv, NEW p \in 0 .. MaxPos, NEW x \in Nat, NEW f \in {"none", "eof", "error"},
         NEW m \in {"READ", "WRITE"}, mode' = m, ~synced', synced' \in BOOLEAN,
         next' = 0, data' = Blank, endb' = IF m = "WRITE" THEN Size ELSE 0,
         file' = file, fsize' = fsize, fpos' = p, here' = p, extent' = x, hole' = hole, flag' = f
  PROVE  StreamInv' /\ CurPos' = p
<1>1. data' \in [Room -> Byte]
  BY BytesAssumption DEF Blank
<1>2. hole' = FALSE
  BY DEF StreamInv
<1>3. next' \in 0 .. ReadCap /\ endb' \in 0 .. ReadCap /\ here' \in Nat
  BY SizesAssumption DEF ReadCap
<1>4. StreamType'
  BY <1>1, <1>3 DEF StreamInv, StreamType
<1>5. CurPos' = p
  BY SizesAssumption DEF CurPos, Unread
<1>6. BufferCoherent'
  BY SizesAssumption DEF BufferCoherent
<1>7. PositionsAgree'
  BY DEF PositionsAgree
<1>8. CASE m = "READ"
  BY <1>2, <1>4, <1>5, <1>6, <1>7, <1>8 DEF StreamInv
<1>9. CASE m = "WRITE"
  <2>1. ~synced' /\ next' <= Size /\ endb' = Size /\ 0 .. next' - 1 = {}
    BY <1>9, SizesAssumption
  <2>2. QED
    BY <1>2, <1>4, <1>5, <1>6, <1>7, <2>1 DEF StreamInv
<1>10. QED
  BY <1>8, <1>9

LEMMA WriteSwitchInv == ASSUME IInv, WriteSwitch PROVE IInv' /\ CurPos' = CurPos
<1>1. /\ mode = "READ" /\ op \in {"write", "putc"}
      /\ mode' = "WRITE" /\ synced' = FALSE /\ next' = 0 /\ endb' = Size /\ data' = Blank
      /\ file' = file /\ fsize' = fsize /\ extent' = extent /\ hole' = hole /\ flag' = flag
      /\ UNCHANGED <<args, off, got, pc, all, ok, ret>>
  BY DEF WriteSwitch, ToWrite, Writing
<1>2. here' = CurPos /\ fpos' = CurPos
  <2>1. StreamInv /\ here \in Nat
    BY DEF IInv, StreamInv, StreamType
  <2>2. /\ CurPos = IF synced THEN here ELSE here - Unread
        /\ fpos = here /\ Unread \in Nat /\ here - Unread \in Int
    BY <1>1, <2>1, ReadPlace
  <2>3. CASE ~synced /\ Unread > 0
    BY <2>2, <2>3 DEF WriteSwitch, ToWrite
  <2>4. CASE synced \/ Unread = 0
    <3>1. here' = here /\ fpos' = fpos
      BY <2>4 DEF WriteSwitch, ToWrite
    <3>2. CurPos = here
      BY <2>1, <2>2, <2>4
    <3>3. QED
      BY <2>2, <3>1, <3>2
  <2>5. QED
    BY <2>2, <2>3, <2>4
<1>3. CurPos' = CurPos
  BY <1>1, <1>2, ReadPlace DEF CurPos, IInv
<1>4. StreamInv'
  <2>1. StreamInv /\ CurPos \in 0 .. MaxPos /\ extent \in Nat /\ flag \in {"none", "eof", "error"}
    BY DEF IInv, StreamInv, StreamType
  <2>2. synced' \in BOOLEAN /\ ~synced'
    BY <1>1
  <2>3. QED
    BY <1>1, <1>2, <2>1, <2>2, EmptyStream
<1>5. CallInv'
  BY <1>1, <1>3, CallFrame DEF IInv, CallInv, CallType, WriteSwitch, Writing
<1>6. QED
  BY <1>3, <1>4, <1>5 DEF IInv

LEMMA ReadSwitchInv == ASSUME IInv, ReadSwitch PROVE IInv'
<1>1. /\ op \in {"read", "getc"} /\ mode = "WRITE" /\ pc' = "loop"
      /\ mode' = "READ" /\ synced' = FALSE /\ next' = 0 /\ endb' = 0 /\ data' = Blank
      /\ UNCHANGED <<file, fsize, fpos, here, extent, hole, flag, args, off, got, all, ok, ret>>
  BY DEF ReadSwitch, ToRead, kernel
<1>2. StreamInv'
  <2>1. StreamInv /\ fpos \in 0 .. MaxPos /\ here = fpos /\ extent \in Nat /\ flag \in {"none", "eof", "error"}
    BY DEF IInv, StreamInv, StreamType, PositionsAgree
  <2>2. synced' \in BOOLEAN /\ ~synced' /\ fpos' = fpos /\ here' = fpos
    BY <1>1, <2>1
  <2>3. QED
    BY <1>1, <2>1, <2>2, EmptyStream
<1>3. CallInv'
  BY <1>1, CallFrame DEF IInv, CallInv, CallType
<1>4. QED
  BY <1>2, <1>3 DEF IInv

\* Going back to the end of the buffered data keeps the caller's place.
LEMMA UnsyncStream ==
  ASSUME StreamInv, Unsync, flag' = flag
  PROVE  StreamInv' /\ CurPos' = CurPos /\ CurLen' = CurLen
<1>1. /\ mode = "READ" /\ synced /\ ~synced' /\ synced' \in BOOLEAN /\ hole' = FALSE
      /\ UNCHANGED <<file, fsize, mode, data, next, endb, extent>>
      /\ here' = here + Unread /\ fpos' = here + Unread
  BY DEF Unsync, StreamInv
<1>2. /\ Unread \in Nat /\ here \in Nat /\ here + Unread \in 0 .. MaxPos /\ Unread = endb - next
      /\ next \in Nat /\ endb \in Nat /\ here - next >= 0
  <2>1. Unread \in 0 .. ReadCap /\ Unread = endb - next /\ here + Unread <= MaxPos /\ here - next >= 0
        /\ ReadCap \in Nat
    BY <1>1, ReadPlace
  <2>2. here \in Nat /\ next \in 0 .. ReadCap /\ endb \in 0 .. ReadCap
    BY DEF StreamInv, StreamType
  <2>3. QED
    BY <2>1, <2>2, SizesAssumption
<1>3. StreamType'
  BY <1>1, <1>2 DEF StreamInv, StreamType
<1>4. here' - endb' = here - next
  BY <1>1, <1>2
<1>5. BufferCoherent'
  BY <1>1, <1>2, <1>4 DEF StreamInv, BufferCoherent
<1>6. CurPos' = CurPos
  <2>1. CurPos = here
    BY <1>1, ReadPlace
  <2>2. CurPos' = fpos' - (endb' - next')
    BY <1>1 DEF CurPos, Unread
  <2>3. QED
    BY <1>1, <1>2, <2>1, <2>2
<1>7. CurLen' = CurLen
  BY <1>1 DEF CurLen, Pending, StreamInv
<1>8. QED
  BY <1>1, <1>3, <1>5, <1>6, <1>7 DEF StreamInv, PositionsAgree

LEMMA ResyncInv == ASSUME IInv, NEW o, Resync(o) PROVE IInv'
<1>1. UNCHANGED <<flag, args, off, got, pc, all, ok, ret>> /\ pc = "loop" /\ Unsync
  BY DEF Resync
<1>2. StreamInv' /\ CurPos' = CurPos /\ CurLen' = CurLen
  BY <1>1, UnsyncStream DEF IInv
<1>3. CallInv'
  BY <1>1, <1>2, CallFrame DEF IInv, CallInv, CallType
<1>4. QED
  BY <1>2, <1>3 DEF IInv

LEMMA SyncHoleInv == ASSUME IInv, SyncHole PROVE IInv'
<1>1. hole = FALSE /\ hole' = FALSE
  BY DEF IInv, StreamInv, SyncHole
<1>2. ~hole
  BY <1>1
<1>3. UNCHANGED <<kernel, here, extent, flag>> /\ UNCHANGED buffer
  BY <1>2 DEF SyncHole
<1>4. UNCHANGED <<kernel, stream>>
  BY <1>1, <1>3 DEF stream
<1>5. flag' \in {"none", "eof", "error"} /\ all' \in BOOLEAN /\ ok' \in BOOLEAN /\ pc' = "done"
      /\ UNCHANGED <<args, off, got, ret>>
  BY <1>3 DEF SyncHole, IInv, StreamInv, StreamType, CallInv, CallType
<1>6. op = "seek" => ~synced
  BY DEF SyncHole, IInv, StreamInv, CallInv
<1>7. QED
  BY <1>4, <1>5, <1>6, GotoInv

LEMMA SeekStartInv == ASSUME IInv, SeekStart PROVE IInv'
<1>1. flag' \in {"none", "eof", "error"} /\ UNCHANGED <<kernel, stream>> /\ ~synced
  BY DEF SeekStart
<1>2. CASE Return(here + next)
  <2>1. here + next \in Int
    BY SizesAssumption DEF IInv, StreamInv, StreamType, ReadCap
  <2>2. QED
    BY <1>1, <1>2, <2>1, QuietReturnInv
<1>3. CASE ~SeekStay /\ Pending > 0
  <2>1. pc' = "flush" /\ all' \in BOOLEAN /\ ok' \in BOOLEAN /\ UNCHANGED <<args, off, got, ret>>
    BY <1>3 DEF SeekStart, Return, IInv, CallInv, CallType, args
  <2>2. mode = "WRITE"
    BY <1>3 DEF Pending
  <2>3. QED
    BY <1>1, <2>1, <2>2, GotoInv
<1>4. CASE ~SeekStay /\ ~(Pending > 0)
  <2>1. pc' = "seek" /\ all' \in BOOLEAN /\ ok' \in BOOLEAN /\ UNCHANGED <<args, off, got, ret>>
    BY <1>4 DEF SeekStart, Return, IInv, CallInv, CallType, args
  <2>2. QED
    BY <1>1, <2>1, GotoInv
<1>5. QED
  BY <1>2, <1>3, <1>4 DEF SeekStart

LEMMA SeekSyncedInv == ASSUME IInv, SeekSynced PROVE IInv'
<1>1. flag' \in {"none", "eof", "error"} /\ UNCHANGED <<kernel, stream>> /\ ~synced
  BY DEF SeekSynced, IInv, StreamInv, StreamType, CallInv
<1>2. CASE Return(-1)
  BY <1>1, <1>2, QuietReturnInv
<1>3. CASE ok /\ pc' = "seek" /\ UNCHANGED <<args, off, got, all, ok, ret>>
  <2>1. pc' = "seek" /\ all' \in BOOLEAN /\ ok' \in BOOLEAN /\ UNCHANGED <<args, off, got, ret>>
    BY <1>3 DEF IInv, CallInv, CallType
  <2>2. QED
    BY <1>1, <2>1, GotoInv
<1>4. QED
  BY <1>2, <1>3 DEF SeekSynced

LEMMA SyncReadInv == ASSUME IInv, SyncRead PROVE IInv' /\ CurPos' = CurPos
<1>1. /\ op = "sync" /\ mode = "READ" /\ pc' = "done"
      /\ UNCHANGED <<file, fsize, mode, data, next, endb, extent, hole, flag, args, off, got, all, ok, ret>>
  BY DEF SyncRead
<1>2. StreamInv
  BY DEF IInv
<1>3. CASE ~(~synced /\ Unread > 0)
  <2>1. UNCHANGED <<here, fpos, synced>>
    BY <1>3 DEF SyncRead
  <2>2. flag' \in {"none", "eof", "error"} /\ all' \in BOOLEAN /\ ok' \in BOOLEAN
    BY <1>1 DEF IInv, StreamInv, StreamType, CallInv, CallType
  <2>3. UNCHANGED <<kernel, stream>>
    BY <1>1, <2>1 DEF kernel, stream, buffer
  <2>4. CurPos' = CurPos
    BY <1>1, <2>1 DEF CurPos, Unread
  <2>5. QED
    BY <1>1, <2>2, <2>3, <2>4, GotoInv
<1>4. CASE ~synced /\ Unread > 0
  <2>1. here' = here - Unread /\ fpos' = here - Unread /\ synced' = TRUE
    BY <1>4 DEF SyncRead
  <2>2. synced' /\ synced' \in BOOLEAN /\ hole' = FALSE
    BY <1>1, <1>2, <2>1 DEF StreamInv
  <2>3. /\ next <= endb /\ Unread \in 0 .. ReadCap /\ Unread = endb - next /\ CurPos \in 0 .. MaxPos
        /\ CurPos = here - Unread /\ here - endb >= 0 /\ ReadCap \in Nat
    BY <1>1, <1>2, <1>4, ReadPlace
  <2>4. here' = CurPos /\ fpos' = CurPos
    BY <2>1, <2>3
  <2>5. StreamType'
    BY <1>1, <1>2, <2>2, <2>3, <2>4 DEF StreamInv, StreamType
  <2>6. CurPos' = CurPos
    BY <1>1, <2>2, <2>4 DEF CurPos
  <2>7. here' - next' = here - endb
    BY <1>1, <2>1, <2>3 DEF IInv, StreamInv, StreamType
  <2>8. BufferCoherent'
    BY <1>1, <1>2, <1>4, <2>2, <2>7 DEF StreamInv, BufferCoherent
  <2>9. StreamInv'
    BY <1>1, <2>2, <2>3, <2>4, <2>5, <2>6, <2>8 DEF StreamInv, PositionsAgree
  <2>10. CallInv'
    BY <1>1, CallFrame DEF IInv, CallInv, CallType
  <2>11. QED
    BY <2>6, <2>9, <2>10 DEF IInv
<1>5. QED
  BY <1>3, <1>4

LEMMA FileSizeInv == ASSUME IInv, FileSize PROVE IInv'
<1>1. /\ file' = file /\ fsize' = fsize /\ fpos' = fpos /\ mode' = mode /\ synced' = synced
      /\ data' = data /\ next' = next /\ endb' = endb /\ here' = here /\ hole' = hole /\ flag' = flag
      /\ extent' = Larger(extent, here)
  BY DEF FileSize, kernel, buffer
<1>2. extent' \in Nat
  BY <1>1 DEF IInv, StreamInv, StreamType, Larger
<1>3. StreamInv'
  BY <1>1, <1>2
     DEF IInv, StreamInv, StreamType, PositionsAgree, BufferCoherent, CurPos, Unread
<1>4. (IF mode = "WRITE" THEN Larger(extent', here + next) ELSE extent') \in Int
  BY <1>1, <1>2, SizesAssumption DEF IInv, StreamInv, StreamType, Larger, ReadCap
<1>5. Return(IF mode = "WRITE" THEN Larger(extent', here + next) ELSE extent')
  BY DEF FileSize
<1>6. QED
  BY <1>3, <1>4, <1>5, ReturnInv DEF IInv

LEMMA PurgeInv == ASSUME IInv, Purge PROVE IInv' /\ CurPos' \in 0 .. CurPos
<1>1. /\ next' = 0 /\ endb' = (IF mode = "WRITE" THEN Size ELSE 0) /\ data' = Blank /\ synced' = FALSE
      /\ file' = file /\ fsize' = fsize /\ mode' = mode /\ extent' = extent /\ hole' = hole /\ flag' = flag
      /\ Return(0)
  BY DEF Purge
<1>2. synced' \in BOOLEAN /\ ~synced' /\ StreamInv
  BY <1>1 DEF IInv
<1>3. extent \in Nat /\ flag \in {"none", "eof", "error"} /\ mode \in {"READ", "WRITE"}
      /\ fpos \in 0 .. MaxPos /\ here = fpos
  BY <1>2 DEF StreamInv, StreamType, PositionsAgree
<1>4. StreamInv' /\ CurPos' \in 0 .. CurPos
  <2>1. CASE mode = "READ" /\ ~synced /\ Unread > 0
    <3>1. here' = here - Unread /\ fpos' = here - Unread
      BY <2>1 DEF Purge
    <3>2. CurPos = here - Unread /\ CurPos \in 0 .. MaxPos
      BY <1>2, <2>1, ReadPlace
    <3>3. here' = CurPos /\ fpos' = CurPos
      BY <3>1, <3>2
    <3>4. QED
      BY <1>1, <1>2, <1>3, <3>2, <3>3, EmptyStream
  <2>2. CASE ~(mode = "READ" /\ ~synced /\ Unread > 0)
    <3>1. here' = fpos /\ fpos' = fpos
      BY <1>3, <2>2 DEF Purge
    <3>2. StreamInv' /\ CurPos' = fpos
      BY <1>1, <1>2, <1>3, <3>1, EmptyStream
    <3>3. fpos \in 0 .. CurPos
      <4>1. CASE mode = "WRITE"
        BY <1>2, <1>3, <4>1, WritePlace
      <4>2. CASE mode = "READ"
        BY <1>2, <1>3, <2>2, <4>2, ReadPlace
      <4>3. QED
        BY <1>3, <4>1, <4>2
    <3>4. QED
      BY <3>2, <3>3
  <2>3. QED
    BY <2>1, <2>2
<1>5. CallInv'
  BY <1>1, ReturnInv
<1>6. QED
  BY <1>4, <1>5 DEF IInv

\* What a read returns lies inside the file.
LEMMA RdBound ==
  ASSUME fsize \in 0 .. MaxPos, NEW p \in 0 .. MaxPos, NEW n \in Nat, NEW r \in RdCounts(p, n)
  PROVE  r \in 0 .. n /\ (r > 0 => p + r <= fsize) /\ p + r \in 0 .. MaxPos
BY SizesAssumption DEF RdCounts, Smaller

LEMMA RdFlagType ==
  ASSUME NEW p, NEW r, NEW f \in RdFlag(p, r)
  PROVE  f \in {"none", "eof", "error"}
BY DEF RdFlag

\* A step that fills the buffer with k bytes of the file at p, i of them consumed.
LEMMA FilledStream ==
  ASSUME StreamInv, mode = "READ", ~synced, ~synced', synced' \in BOOLEAN,
         NEW k \in 0 .. ReadCap, NEW p \in 0 .. MaxPos, p + k <= MaxPos, k > 0 => p + k <= fsize,
         NEW i \in 0 .. k, NEW x \in Nat, NEW f \in {"none", "eof", "error"},
         mode' = mode, next' = i, endb' = k,
         data' = Holding([j \in Room |-> IF j < k THEN file[p + j] ELSE Zero], k),
         file' = file, fsize' = fsize, fpos' = p + k, here' = p + k, extent' = x, hole' = hole, flag' = f
  PROVE  StreamInv' /\ CurPos' = p + i
<1>0. ReadCap \in Nat /\ MaxPos \in Nat
  BY SizesAssumption DEF ReadCap
<1>1. file \in [Index -> Byte] /\ fsize \in 0 .. MaxPos
  BY DEF StreamInv, StreamType
<1>2. \A j \in 0 .. k - 1 : p + j \in Index /\ j \in Room
  BY <1>0, <1>1 DEF Index, Room
<1>3. data' = [j \in Room |-> IF j < k THEN file[p + j] ELSE Zero]
  BY DEF Holding
<1>4. data' \in [Room -> Byte]
  <2>1. SUFFICES ASSUME NEW j \in Room
                 PROVE  (IF j < k THEN file[p + j] ELSE Zero) \in Byte
    BY <1>3
  <2>2. CASE j < k
    <3>1. p + j \in Index
      BY <1>0, <1>2, <2>2 DEF Room
    <3>2. QED
      BY <1>1, <2>2, <3>1
  <2>3. CASE ~(j < k)
    BY <2>3, BytesAssumption
  <2>4. QED
    BY <2>2, <2>3
<1>5. \A j \in 0 .. k - 1 : data'[j] = file[p + j]
  BY <1>0, <1>2, <1>3
<1>6. p + k \in 0 .. MaxPos /\ i \in 0 .. ReadCap /\ p + k - k = p /\ p + k - (k - i) = p + i
      /\ p + i \in 0 .. MaxPos /\ p + k \in Nat /\ p >= 0 /\ i <= k
  BY <1>0
<1>7. hole' = FALSE
  BY DEF StreamInv
<1>8. StreamType'
  BY <1>4, <1>6, <1>7 DEF StreamInv, StreamType
<1>9. CurPos' = p + i
  BY <1>6 DEF CurPos, Unread
<1>10. BufferCoherent'
  BY <1>5, <1>6 DEF BufferCoherent
<1>11. PositionsAgree'
  BY DEF PositionsAgree
<1>12. QED
  BY <1>6, <1>7, <1>8, <1>9, <1>10, <1>11 DEF StreamInv

\* A seek that asks the kernel ends where it was asked to go, or moves nothing.
LEMMA SeekHardInv ==
  ASSUME IInv, SeekHard
  PROVE  LET p == amt + (IF whence = "cur" THEN here ELSE SeekBase)
         IN  /\ IInv' /\ p \in Int
             /\ p < 0 => Return(-1) /\ UNCHANGED <<kernel, stream>>
             /\ ~(p < 0) => Return(p) /\ CurPos' = p /\ next' = 0
<1>   DEFINE p == amt + (IF whence = "cur" THEN here ELSE SeekBase)
<1>1. StreamInv /\ op = "seek" /\ ~synced /\ (mode = "WRITE" \/ whence = "end")
  BY DEF IInv, SeekHard, CallInv
<1>2. /\ fsize \in 0 .. MaxPos /\ fpos \in 0 .. MaxPos /\ here = fpos /\ extent \in Nat /\ next \in Nat
      /\ flag \in {"none", "eof", "error"} /\ mode \in {"READ", "WRITE"} /\ MaxPos \in Nat
      /\ synced \in BOOLEAN /\ hole = FALSE
  BY <1>1, SizesAssumption DEF StreamInv, StreamType, PositionsAgree, ReadCap
<1>3. amt \in Int /\ SeekGoal <= MaxPos /\ whence \in {"set", "cur", "end"}
  BY <1>1 DEF IInv, CallInv, CallType
<1>4. p \in Int /\ p <= MaxPos
  <2>1. CASE whence = "set"
    BY <1>2, <1>3, <2>1 DEF SeekGoal, SeekBase
  <2>2. CASE whence = "cur"
    <3>1. mode = "WRITE" /\ CurPos = fpos + next
      BY <1>1, <2>2 DEF CurPos
    <3>2. SeekGoal = amt + (fpos + next) /\ p = amt + fpos
      BY <1>2, <2>2, <3>1 DEF SeekGoal
    <3>3. QED
      BY <1>2, <1>3, <3>2
  <2>3. CASE whence = "end"
    <3>1. CurLen \in Int /\ CurLen >= fsize
      BY <1>2 DEF CurLen, Larger, Pending
    <3>2. SeekGoal = amt + CurLen /\ p = amt + fsize
      BY <2>3 DEF SeekGoal, SeekBase
    <3>3. QED
      BY <1>2, <1>3, <3>1, <3>2
  <2>4. QED
    BY <1>3, <2>1, <2>2, <2>3
<1>5. UNCHANGED <<file, fsize, mode, synced, extent, hole>>
  BY DEF SeekHard
<1>6. CASE p < 0
  <2>1. Return(-1) /\ flag' = "error" /\ UNCHANGED <<fpos, next, endb, data, here>>
    BY <1>6 DEF SeekHard
  <2>2. UNCHANGED <<kernel, stream>>
    BY <1>5, <2>1 DEF kernel, stream, buffer
  <2>3. flag' \in {"none", "eof", "error"} /\ -1 \in Int
    BY <2>1
  <2>4. IInv'
    BY <2>1, <2>2, <2>3, QuietReturnInv
  <2>5. QED
    BY <1>4, <1>6, <2>1, <2>2, <2>4, Zenon
<1>7. CASE ~(p < 0)
  <2>1. /\ fpos' = (IF whence = "end" \/ p # here THEN p ELSE fpos)
        /\ next' = 0 /\ endb' = (IF mode = "WRITE" THEN Size ELSE 0) /\ data' = Blank
        /\ here' = p /\ Return(p) /\ flag' = flag
    BY <1>7 DEF SeekHard
  <2>2. fpos' = p /\ p \in 0 .. MaxPos
    BY <1>2, <1>4, <1>7, <2>1
  <2>3. ~synced' /\ synced' \in BOOLEAN
    BY <1>1, <1>2, <1>5
  <2>   HIDE DEF p
  <2>4. StreamInv' /\ CurPos' = p
    BY <1>1, <1>2, <1>5, <2>1, <2>2, <2>3, EmptyStream
  <2>5. CallInv'
    BY <1>4, <2>1, ReturnInv
  <2>6. IInv'
    BY <2>4, <2>5 DEF IInv
  <2>   USE DEF p
  <2>7. QED
    BY <1>4, <1>7, <2>1, <2>4, <2>6, Zenon
<1>8. QED
  BY <1>6, <1>7

\* A seek inside the buffer ends where it was asked to go.
LEMMA SeekNearInv ==
  ASSUME IInv, SeekNear
  PROVE  IInv' /\ CurPos' = SoftTarget /\ SoftTarget \in 0 .. MaxPos
<1>1. StreamInv /\ op = "seek" /\ mode = "READ" /\ ~synced /\ InBuffer
  BY DEF IInv, SeekNear, CallInv
<1>2. /\ here \in Nat /\ endb \in 0 .. ReadCap /\ here - endb >= 0 /\ here = fpos /\ ReadCap \in Nat
      /\ fpos \in 0 .. MaxPos /\ MaxPos \in Nat /\ hole = FALSE /\ synced \in BOOLEAN
  <2>1. here - endb >= 0 /\ here = fpos /\ ReadCap \in Nat
    BY <1>1, ReadPlace
  <2>2. here \in Nat /\ endb \in 0 .. ReadCap /\ fpos \in 0 .. MaxPos /\ hole = FALSE /\ synced \in BOOLEAN
    BY <1>1 DEF StreamInv, StreamType
  <2>3. QED
    BY <2>1, <2>2, SizesAssumption
<1>3. SoftTarget \in Int
  BY SoftTargetInt
<1>4. /\ SoftTarget \in 0 .. MaxPos /\ endb - (here - SoftTarget) \in 0 .. endb
      /\ fpos - (endb - (endb - (here - SoftTarget))) = SoftTarget
  BY <1>1, <1>2, <1>3 DEF InBuffer
<1>5. /\ next' = endb - (here - SoftTarget) /\ Return(SoftTarget)
      /\ UNCHANGED <<file, fsize, mode, synced, data, endb, here, extent, hole, flag>>
  BY DEF SeekNear
<1>6. fpos' = fpos
  BY <1>2 DEF SeekNear
<1>7. hole' = FALSE /\ ~synced' /\ synced' \in BOOLEAN
  BY <1>1, <1>2, <1>5
<1>8. next' \in 0 .. ReadCap /\ next' <= endb'
  BY <1>2, <1>4, <1>5
<1>9. StreamType'
  BY <1>1, <1>5, <1>6, <1>7, <1>8 DEF StreamInv, StreamType
<1>10. BufferCoherent'
  BY <1>1, <1>5, <1>7, <1>8 DEF StreamInv, BufferCoherent
<1>11. CurPos' = SoftTarget
  <2>1. CurPos' = fpos - (endb - (endb - (here - SoftTarget)))
    BY <1>1, <1>5, <1>6, <1>7 DEF CurPos, Unread
  <2>2. QED
    BY <1>4, <2>1
<1>12. StreamInv'
  BY <1>1, <1>4, <1>5, <1>6, <1>7, <1>9, <1>10, <1>11 DEF StreamInv, PositionsAgree
<1>13. CallInv'
  BY <1>3, <1>5, ReturnInv
<1>14. QED
  BY <1>4, <1>11, <1>12, <1>13 DEF IInv

\* A far seek never sends the kernel past its target first.
LEMMA SeekStartBound ==
  ASSUME NEW p \in 0 .. MaxPos, NEW s \in 0 .. MaxPos, NEW r \in SeekStarts(p, s)
  PROVE  r \in 0 .. p
<1>1. ReadCap \in Nat /\ MaxPos \in Nat /\ Blksz \in Nat
  BY SizesAssumption DEF ReadCap
<1>2. CASE ReadCap > Blksz /\ p + Blksz > s /\ r = Larger(0, s - ReadCap)
  BY <1>1, <1>2 DEF Larger
<1>3. CASE r = p
  BY <1>1, <1>3
<1>4. CASE r \in 0 .. p
  BY <1>4
<1>5. (ReadCap > Blksz /\ p + Blksz > s /\ r = Larger(0, s - ReadCap)) \/ r = p \/ r \in 0 .. p
  BY DEF SeekStarts
<1>6. QED
  BY <1>2, <1>3, <1>4, <1>5

\* A far seek ends where it was asked to go.
LEMMA SeekFarInv ==
  ASSUME IInv, SeekFar
  PROVE  IInv' /\ CurPos' = SoftTarget /\ SoftTarget \in 0 .. MaxPos /\ extent' >= extent
<1>1. StreamInv /\ op = "seek" /\ mode = "READ" /\ ~synced /\ whence # "end" /\ SoftTarget >= 0
  BY DEF IInv, SeekFar, CallInv
<1>2. /\ fsize \in 0 .. MaxPos /\ fpos \in 0 .. MaxPos /\ here = fpos /\ extent \in Nat
      /\ flag \in {"none", "eof", "error"} /\ MaxPos \in Nat /\ ReadCap \in Nat /\ synced \in BOOLEAN
  BY <1>1, SizesAssumption DEF StreamInv, StreamType, PositionsAgree, ReadCap
<1>3. CurPos = here - Unread /\ CurPos \in 0 .. MaxPos
  BY <1>1, ReadPlace
<1>4. SoftTarget \in 0 .. MaxPos
  <2>1. SeekGoal <= MaxPos /\ amt \in Int /\ whence \in {"set", "cur", "end"}
    BY <1>1 DEF IInv, CallInv, CallType
  <2>2. CASE whence = "set"
    BY <1>1, <1>2, <2>1, <2>2 DEF SeekGoal, SoftTarget, SeekBase
  <2>3. CASE whence = "cur"
    <3>1. SoftTarget = CurPos + amt /\ SeekGoal = amt + CurPos
      <4>1. here + (-Unread) = here - Unread
        BY <1>1, <1>2, ReadPlace
      <4>2. QED
        BY <1>1, <1>3, <2>3, <4>1 DEF SeekGoal, SoftTarget, SeekBase
    <3>2. QED
      BY <1>1, <1>2, <1>3, <2>1, <3>1
  <2>4. QED
    BY <1>1, <2>1, <2>2, <2>3
<1>5. /\ UNCHANGED <<file, fsize, mode, synced, hole>> /\ Return(SoftTarget)
  BY DEF SeekFar
<1>6. ~synced' /\ synced' \in BOOLEAN /\ mode \in {"READ", "WRITE"} /\ mode' = mode
      /\ file' = file /\ fsize' = fsize /\ hole' = hole
  BY <1>1, <1>2, <1>5
<1>7. PICK r \in SeekStarts(SoftTarget, here - Unread) :
        LET at == IF r # here THEN r ELSE fpos
        IN  \/ /\ r >= SoftTarget
               /\ fpos' = at /\ here' = r /\ next' = 0 /\ endb' = 0 /\ data' = Blank
               /\ UNCHANGED <<extent, flag>>
            \/ /\ r < SoftTarget
               /\ \E k \in RdCounts(at, ReadCap) :
                    /\ flag' \in RdFlag(at, k)
                    /\ extent' = (IF k > 0 THEN Larger(extent, r + k) ELSE extent)
                    /\ IF SoftTarget <= r + k
                         THEN /\ fpos' = at + k /\ here' = r + k
                              /\ next' = SoftTarget - r /\ endb' = k
                              /\ data' = Holding([i \in Room |-> IF i < k THEN file[at + i] ELSE Zero], k)
                         ELSE /\ fpos' = SoftTarget /\ here' = SoftTarget
                              /\ next' = 0 /\ endb' = 0 /\ data' = Blank
  BY Zenon DEF SeekFar
<1>8. r \in 0 .. SoftTarget /\ r \in 0 .. MaxPos
  <2>1. r \in 0 .. SoftTarget
    BY <1>3, <1>4, <1>7, SeekStartBound
  <2>2. QED
    BY <1>2, <1>4, <2>1
<1>9. (IF r # here THEN r ELSE fpos) = r
  BY <1>2
<1>10. CASE /\ r = SoftTarget /\ fpos' = r /\ here' = r /\ next' = 0 /\ endb' = 0 /\ data' = Blank
            /\ extent' = extent /\ flag' = flag
  <2>1. StreamInv' /\ CurPos' = r
    BY <1>1, <1>2, <1>6, <1>8, <1>10, EmptyStream
  <2>2. extent' >= extent
    BY <1>2, <1>10
  <2>3. QED
    BY <1>4, <1>5, <1>10, <2>1, <2>2, ReturnInv DEF IInv
<1>11. ASSUME NEW k \in RdCounts(r, ReadCap), r < SoftTarget,
              flag' \in RdFlag(r, k),
              extent' = (IF k > 0 THEN Larger(extent, r + k) ELSE extent),
              IF SoftTarget <= r + k
                THEN /\ fpos' = r + k /\ here' = r + k
                     /\ next' = SoftTarget - r /\ endb' = k
                     /\ data' = Holding([i \in Room |-> IF i < k THEN file[r + i] ELSE Zero], k)
                ELSE /\ fpos' = SoftTarget /\ here' = SoftTarget
                     /\ next' = 0 /\ endb' = 0 /\ data' = Blank
       PROVE  IInv' /\ CurPos' = SoftTarget /\ extent' >= extent
  <2>1. k \in 0 .. ReadCap /\ (k > 0 => r + k <= fsize) /\ r + k \in 0 .. MaxPos /\ r + k <= MaxPos
    BY <1>2, <1>8, <1>11, RdBound
  <2>2. PICK f : f = flag' /\ f \in {"none", "eof", "error"}
    BY <1>11, RdFlagType
  <2>3. PICK x \in Nat : extent' = x
    BY <1>2, <1>11, <2>1 DEF Larger
  <2>4. StreamInv' /\ CurPos' = SoftTarget
    <3>1. CASE SoftTarget <= r + k
      <4>1. SoftTarget - r \in 0 .. k /\ r + (SoftTarget - r) = SoftTarget
        BY <1>4, <1>8, <1>11, <2>1, <3>1
      <4>2. /\ fpos' = r + k /\ here' = r + k /\ next' = SoftTarget - r /\ endb' = k
            /\ data' = Holding([i \in Room |-> IF i < k THEN file[r + i] ELSE Zero], k)
        BY <1>11, <3>1
      <4>3. StreamInv' /\ CurPos' = r + (SoftTarget - r)
        BY <1>1, <1>6, <1>8, <2>1, <2>2, <2>3, <4>1, <4>2, FilledStream
      <4>4. QED
        BY <4>1, <4>3
    <3>2. CASE ~(SoftTarget <= r + k)
      <4>1. fpos' = SoftTarget /\ here' = SoftTarget /\ next' = 0 /\ endb' = 0 /\ data' = Blank
        BY <1>11, <3>2
      <4>2. QED
        BY <1>1, <1>4, <1>6, <2>2, <2>3, <4>1, EmptyStream
    <3>3. QED
      BY <3>1, <3>2
  <2>5. extent' >= extent
    BY <1>2, <1>11, <2>1 DEF Larger
  <2>6. QED
    BY <1>4, <1>5, <2>4, <2>5, ReturnInv DEF IInv
<1>12. r >= SoftTarget => r = SoftTarget
  BY <1>4, <1>8
<1>13. QED
  BY <1>4, <1>7, <1>9, <1>10, <1>11, <1>12

\* A read hands out more bytes.
LEMMA MoreGot ==
  ASSUME NEW s \in Seq(Byte), NEW r \in Nat, NEW t \in [1 .. r -> Byte]
  PROVE  s \o t \in Seq(Byte) /\ Len(s \o t) = Len(s) + r
<1>1. t \in Seq(Byte) /\ Len(t) = r
  OBVIOUS
<1>2. QED
  BY <1>1

LEMMA ReadCopyInv ==
  ASSUME IInv, ReadCopy
  PROVE  IInv' /\ CurPos' = CurPos + Smaller(Unread, Wanted)
<1>   DEFINE r == Smaller(Unread, Wanted)
            t == [j \in 1 .. r |-> data[next + j - 1]]
<1>1. /\ StreamInv /\ op \in {"read", "getc"} /\ mode = "READ" /\ ~synced /\ Unread > 0 /\ Wanted > 0
      /\ pc = "loop"
      /\ got' = got \o t /\ next' = next + r
      /\ UNCHANGED <<kernel, mode, synced, data, endb, here, extent, hole, flag, args, off, pc, all, ok, ret>>
  BY DEF IInv, ReadCopy, Reading
<1>2. /\ next <= endb /\ Unread \in Nat /\ Unread = endb - next /\ here - endb >= 0
      /\ CurPos = here - Unread /\ fpos = here /\ ReadCap \in Nat
  BY <1>1, ReadPlace
<1>3. /\ next \in 0 .. ReadCap /\ endb \in 0 .. ReadCap /\ data \in [Room -> Byte] /\ here \in 0 .. MaxPos
      /\ MaxPos \in Nat /\ hole = FALSE /\ synced \in BOOLEAN
  BY <1>1, <1>2, SizesAssumption DEF StreamInv, StreamType
<1>4. got \in Seq(Byte) /\ amt \in Nat /\ Len(got) \in Nat /\ Wanted = amt - Len(got)
  BY <1>1 DEF IInv, CallInv, CallType, Wanted
<1>5. r \in Nat /\ r <= Unread /\ r <= Wanted
  BY <1>1, <1>2, <1>4 DEF Smaller
<1>   HIDE DEF r
<1>6. t \in [1 .. r -> Byte]
  <2>1. \A j \in 1 .. r : next + j - 1 \in Room
    BY <1>2, <1>3, <1>5 DEF Room
  <2>2. QED
    BY <1>3, <2>1
<1>   HIDE DEF t
<1>7. got' \in Seq(Byte) /\ Len(got') <= amt
  <2>1. got \o t \in Seq(Byte) /\ Len(got \o t) = Len(got) + r
    BY <1>4, <1>5, <1>6, MoreGot
  <2>2. QED
    BY <1>1, <1>4, <1>5, <2>1
<1>8. next + r \in 0 .. ReadCap /\ next + r <= endb
  BY <1>2, <1>3, <1>5
<1>9. UNCHANGED <<file, fsize, fpos>>
  BY <1>1 DEF kernel
<1>10. hole' = FALSE /\ ~synced' /\ synced' \in BOOLEAN
  BY <1>1, <1>3
<1>11. StreamType'
  BY <1>1, <1>8, <1>9 DEF StreamInv, StreamType
<1>12. BufferCoherent'
  BY <1>1, <1>8, <1>9 DEF StreamInv, BufferCoherent
<1>13. CurPos' = here - (endb - (next + r)) /\ here - (endb - (next + r)) \in 0 .. MaxPos
  <2>1. CurPos' = here - (endb - (next + r))
    BY <1>1, <1>2, <1>9 DEF CurPos, Unread
  <2>2. QED
    BY <1>2, <1>3, <1>8, <2>1
<1>14. StreamInv'
  BY <1>1, <1>9, <1>10, <1>11, <1>12, <1>13 DEF StreamInv, PositionsAgree
<1>15. CallInv'
  BY <1>1, <1>7, CallFrame DEF IInv, CallInv, CallType
<1>16. here - (endb - (next + r)) = CurPos + r
  BY <1>2, <1>3, <1>5
<1>17. QED
  BY <1>13, <1>14, <1>15, <1>16 DEF IInv, r

\* What both ways of asking the kernel for more bytes start from.
LEMMA EmptyPlace ==
  ASSUME IInv, Empty
  PROVE  /\ StreamInv /\ mode = "READ" /\ ~synced /\ op \in {"read", "getc"} /\ pc = "loop"
         /\ file \in [Index -> Byte] /\ fsize \in 0 .. MaxPos /\ fpos \in 0 .. MaxPos /\ here = fpos
         /\ extent \in Nat /\ ReadCap \in Nat /\ MaxPos \in Nat
         /\ got \in Seq(Byte) /\ amt \in Nat /\ Wanted \in Nat /\ Wanted = amt - Len(got)
         /\ ReadResult \in Int
<1>1. StreamInv /\ mode = "READ" /\ ~synced /\ op \in {"read", "getc"} /\ pc = "loop" /\ Wanted > 0
  BY DEF IInv, Empty, Reading
<1>2. /\ file \in [Index -> Byte] /\ fsize \in 0 .. MaxPos /\ fpos \in 0 .. MaxPos /\ here = fpos
      /\ extent \in Nat
  BY <1>1 DEF StreamInv, StreamType, PositionsAgree
<1>3. ReadCap \in Nat /\ MaxPos \in Nat
  BY SizesAssumption DEF ReadCap
<1>4. got \in Seq(Byte) /\ amt \in Nat
  BY <1>1 DEF IInv, CallInv, CallType
<1>5. Wanted \in Nat /\ Wanted = amt - Len(got) /\ ReadResult \in Int
  BY <1>1, <1>4 DEF Wanted, ReadResult
<1>6. QED
  BY <1>1, <1>2, <1>3, <1>4, <1>5

LEMMA ReadFillInv == ASSUME IInv, ReadFill PROVE IInv'
<1>1. Empty
  BY DEF ReadFill
<1>2. /\ StreamInv /\ mode = "READ" /\ ~synced /\ op \in {"read", "getc"} /\ pc = "loop"
      /\ file \in [Index -> Byte] /\ fsize \in 0 .. MaxPos /\ fpos \in 0 .. MaxPos /\ here = fpos
      /\ extent \in Nat /\ ReadCap \in Nat /\ MaxPos \in Nat /\ ReadResult \in Int
  BY <1>1, EmptyPlace
<1>3. PICK r \in RdCounts(fpos, ReadCap) :
        /\ Advance(r)
        /\ next' = 0 /\ endb' = r
        /\ data' = Holding([i \in Room |-> IF i < r THEN file[fpos + i] ELSE Zero], r)
        /\ \/ Exhausted(r)
           \/ r > 0 /\ Continue /\ UNCHANGED got
  BY DEF ReadFill
<1>4. r \in 0 .. ReadCap /\ (r > 0 => fpos + r <= fsize) /\ fpos + r \in 0 .. MaxPos /\ fpos + r <= MaxPos
  BY <1>2, <1>3, RdBound
<1>5. /\ fpos' = fpos + r /\ here' = fpos + r /\ extent' = IF r > 0 THEN Larger(extent, fpos + r) ELSE extent
      /\ flag' \in RdFlag(fpos, r) /\ file' = file /\ fsize' = fsize /\ hole' = hole
      /\ mode' = mode /\ synced' = synced
  BY <1>2, <1>3 DEF Advance, ReadFill
<1>6. PICK f : f = flag' /\ f \in {"none", "eof", "error"}
  BY <1>5, RdFlagType
<1>7. PICK x \in Nat : extent' = x
  BY <1>2, <1>4, <1>5 DEF Larger
<1>8. ~synced' /\ synced' \in BOOLEAN
  BY <1>2, <1>5 DEF StreamInv, StreamType
<1>9. StreamInv' /\ CurPos' = fpos + 0
  <2>1. 0 \in 0 .. r
    BY <1>4
  <2>2. QED
    BY <1>2, <1>3, <1>4, <1>5, <1>6, <1>7, <1>8, <2>1, FilledStream
<1>10. CASE Exhausted(r)
  BY <1>2, <1>9, <1>10, ReturnInv DEF Exhausted, IInv
<1>11. CASE Continue /\ got' = got
  <2>1. CallInv'
    BY <1>2, <1>11, CallFrame DEF IInv, CallInv, CallType, Continue
  <2>2. QED
    BY <1>9, <2>1 DEF IInv
<1>12. QED
  BY <1>3, <1>10, <1>11

LEMMA ReadDirectInv == ASSUME IInv, ReadDirect PROVE IInv'
<1>1. Empty
  BY DEF ReadDirect
<1>2. /\ StreamInv /\ mode = "READ" /\ ~synced /\ op \in {"read", "getc"} /\ pc = "loop"
      /\ file \in [Index -> Byte] /\ fsize \in 0 .. MaxPos /\ fpos \in 0 .. MaxPos /\ here = fpos
      /\ extent \in Nat /\ MaxPos \in Nat /\ ReadResult \in Int
      /\ got \in Seq(Byte) /\ amt \in Nat /\ Wanted \in Nat /\ Wanted = amt - Len(got)
  BY <1>1, EmptyPlace
<1>3. PICK r \in RdCounts(fpos, Wanted) :
        /\ Advance(r)
        /\ \/ Exhausted(r)
           \/ r > 0 /\ got' = got \o [j \in 1 .. r |-> file[fpos + j - 1]] /\ Continue
  BY DEF ReadDirect
<1>4. r \in 0 .. Wanted /\ (r > 0 => fpos + r <= fsize) /\ fpos + r \in 0 .. MaxPos
  BY <1>2, <1>3, RdBound
<1>5. /\ fpos' = fpos + r /\ here' = fpos + r /\ extent' = IF r > 0 THEN Larger(extent, fpos + r) ELSE extent
      /\ flag' \in RdFlag(fpos, r) /\ file' = file /\ fsize' = fsize /\ hole' = hole
      /\ mode' = mode /\ synced' = synced /\ next' = 0 /\ endb' = 0 /\ data' = Blank
  BY <1>2, <1>3 DEF Advance, ReadDirect
<1>6. PICK f : f = flag' /\ f \in {"none", "eof", "error"}
  BY <1>5, RdFlagType
<1>7. PICK x \in Nat : extent' = x
  BY <1>2, <1>4, <1>5 DEF Larger
<1>8. ~synced' /\ synced' \in BOOLEAN /\ mode \in {"READ", "WRITE"}
  BY <1>2, <1>5 DEF StreamInv, StreamType
<1>9. StreamInv'
  BY <1>2, <1>4, <1>5, <1>6, <1>7, <1>8, EmptyStream
<1>10. CASE Exhausted(r)
  BY <1>2, <1>9, <1>10, ReturnInv DEF Exhausted, IInv
<1>11. CASE r > 0 /\ got' = got \o [j \in 1 .. r |-> file[fpos + j - 1]] /\ Continue
  <2>   DEFINE t == [j \in 1 .. r |-> file[fpos + j - 1]]
  <2>1. t \in [1 .. r -> Byte]
    <3>1. \A j \in 1 .. r : fpos + j - 1 \in Index
      BY <1>2, <1>4, <1>11 DEF Index
    <3>2. QED
      BY <1>2, <3>1
  <2>2. got \o t \in Seq(Byte) /\ Len(got \o t) = Len(got) + r
    <3>1. r \in Nat
      BY <1>2, <1>4
    <3>   HIDE DEF t
    <3>2. QED
      BY <1>2, <2>1, <3>1, MoreGot
  <2>3. got' = got \o t
    BY <1>11
  <2>   HIDE DEF t
  <2>4. got' \in Seq(Byte) /\ Len(got') <= amt
    BY <1>2, <1>4, <2>2, <2>3
  <2>5. CallInv'
    BY <1>2, <1>11, <2>4, CallFrame DEF IInv, CallInv, CallType, Continue
  <2>6. QED
    BY <1>9, <2>5 DEF IInv
<1>12. QED
  BY <1>3, <1>10, <1>11

\* What is left of a write holds no zero byte.
LEMMA RestBytes ==
  ASSUME IInv
  PROVE  /\ Len(src) - off \in Nat /\ off \in Nat /\ Len(src) \in Nat
         /\ \A i \in 0 .. Len(src) - off - 1 : Rest[i] \in Byte /\ Rest[i] # Zero
<1>1. src \in Seq(Byte) /\ off \in 0 .. Len(src) /\ \A i \in 1 .. Len(src) : src[i] # Zero
  BY DEF IInv, CallInv, CallType
<1>2. Len(src) \in Nat /\ off \in Nat /\ off <= Len(src)
  BY <1>1
<1>3. ASSUME NEW i \in 0 .. Len(src) - off - 1
      PROVE  Rest[i] \in Byte /\ Rest[i] # Zero
  <2>1. Rest[i] = src[off + 1 + i] /\ off + 1 + i \in 1 .. Len(src)
    BY <1>2, <1>3 DEF Rest
  <2>2. QED
    BY <1>1, <2>1
<1>4. QED
  BY <1>2, <1>3

\* A step that leaves n bytes pending at p in a WRITE stream.
LEMMA PendingStream ==
  ASSUME StreamInv, mode = "WRITE", mode' = mode, synced' = synced, endb' = endb,
         NEW n \in 0 .. Size, NEW p \in Nat, p + n <= MaxPos, NEW x \in Nat,
         NEW f \in {"none", "eof", "error"}, NEW e \in 0 .. MaxPos,
         NEW d \in [Room -> Byte], \A i \in 0 .. n - 1 : d[i] # Zero,
         file' \in [Index -> Byte], fsize' = e, fpos' = p, here' = p, extent' = x, hole' = FALSE,
         flag' = f, next' = n, data' = d
  PROVE  StreamInv' /\ CurPos' = p + n /\ CurLen' = Larger(e, IF n > 0 THEN p + n ELSE 0)
<1>1. ~synced /\ endb = Size /\ endb \in 0 .. ReadCap /\ synced \in BOOLEAN /\ Size <= ReadCap
      /\ ReadCap \in Nat /\ MaxPos \in Nat /\ Size \in Nat
  BY WritePlace, SizesAssumption DEF StreamInv, StreamType
<1>2. p \in 0 .. MaxPos /\ n \in 0 .. ReadCap /\ p + n \in 0 .. MaxPos /\ n <= Size
  BY <1>1
<1>3. ~synced' /\ synced' \in BOOLEAN
  BY <1>1
<1>4. StreamType'
  BY <1>1, <1>2, <1>3 DEF StreamType
<1>5. CurPos' = p + n
  BY DEF CurPos
<1>6. CurLen' = Larger(e, IF n > 0 THEN p + n ELSE 0)
  <2>1. ~hole' /\ Pending' = n
    BY DEF Pending
  <2>2. CurLen' = Larger(fsize', IF Pending' > 0 \/ hole' THEN fpos' + Pending' ELSE 0)
    BY DEF CurLen, Larger
  <2>3. QED
    BY <2>1, <2>2
<1>7. PositionsAgree' /\ BufferCoherent'
  BY DEF PositionsAgree, BufferCoherent
<1>8. QED
  BY <1>1, <1>2, <1>3, <1>4, <1>5, <1>6, <1>7 DEF StreamInv

LEMMA WriteDirectInv == ASSUME IInv, WriteDirect PROVE IInv'
<1>1. StreamInv /\ mode = "WRITE" /\ op \in {"write", "putc"} /\ pc = "loop" /\ off < Len(src) /\ next = 0
  BY DEF IInv, WriteDirect, Writing, Bypass
<1>   DEFINE n == Len(src) - off
<1>2. n \in Nat /\ off \in Nat /\ Len(src) \in Nat /\ \A i \in 0 .. n - 1 : Rest[i] \in Byte /\ Rest[i] # Zero
  BY RestBytes
<1>3. PICK w \in WrCounts(Rest, n) : SfWr(Rest, n, w) /\ off' = off + w
  BY DEF WriteDirect
<1>4. w \in 1 .. n
  BY <1>3 DEF WrCounts
<1>5. /\ here = fpos /\ fpos \in Nat /\ CurPos = fpos + next /\ MaxPos \in Nat /\ fsize \in 0 .. MaxPos
      /\ data \in [Room -> Byte]
  BY <1>1, WritePlace
<1>6. fpos + n <= MaxPos
  <2>1. CurPos + Len(src) - off <= MaxPos
    BY <1>1 DEF IInv, CallInv
  <2>2. QED
    BY <1>1, <1>2, <1>5, <2>1
<1>7. /\ file' \in [Index -> Byte]
      /\ fsize' = Larger(fsize, fpos + w) /\ fpos' = fpos + w /\ here' = here + w
      /\ extent' \in Nat /\ hole' = FALSE /\ flag' = "none"
  <2>1. StreamType /\ PositionsAgree
    BY <1>1 DEF StreamInv
  <2>   HIDE DEF n
  <2>2. QED
    BY <1>2, <1>3, <1>4, <1>6, <2>1, WrEffect
<1>8. fpos + w \in Nat /\ fpos + w + 0 <= MaxPos /\ off + w \in 0 .. Len(src)
      /\ Larger(fsize, fpos + w) \in 0 .. MaxPos /\ fpos + w + Len(src) - (off + w) <= MaxPos
  BY <1>2, <1>4, <1>5, <1>6 DEF Larger
<1>9. UNCHANGED <<buffer, args, got, pc, all, ok, ret>> /\ mode' = mode /\ synced' = synced /\ data' = data
      /\ next' = 0 /\ endb' = endb
  BY <1>1 DEF WriteDirect, buffer
<1>10. PICK x \in Nat : extent' = x
  BY <1>7
<1>11. 0 \in 0 .. Size /\ \A i \in 0 .. 0 - 1 : data[i] # Zero
  BY SizesAssumption
<1>12. StreamInv' /\ CurPos' = fpos + w + 0
  BY <1>1, <1>5, <1>7, <1>8, <1>9, <1>10, <1>11, PendingStream
<1>13. CallInv'
  <2>1. off' \in 0 .. Len(src) /\ CurPos' + Len(src) - off' <= MaxPos
    BY <1>2, <1>3, <1>4, <1>5, <1>8, <1>12
  <2>2. QED
    BY <1>1, <1>9, <2>1, CallFrame DEF IInv, CallInv, CallType
<1>14. QED
  BY <1>12, <1>13 DEF IInv

LEMMA WriteCopyInv == ASSUME IInv, WriteCopy PROVE IInv'
<1>   DEFINE n == Len(src) - off
            w == Smaller(Size - next, n)
            d == [i \in Room |-> IF i \in next .. next + w - 1 THEN Rest[i - next] ELSE data[i]]
<1>1. /\ StreamInv /\ mode = "WRITE" /\ op \in {"write", "putc"} /\ pc = "loop" /\ off < Len(src) /\ next < Size
      /\ data' = d /\ next' = next + w /\ off' = off + w
      /\ UNCHANGED <<kernel, mode, synced, endb, here, extent, hole, flag, args, got, pc, all, ok, ret>>
  BY DEF IInv, WriteCopy, Writing
<1>2. n \in Nat /\ off \in Nat /\ Len(src) \in Nat /\ \A i \in 0 .. n - 1 : Rest[i] \in Byte /\ Rest[i] # Zero
  BY RestBytes
<1>3. /\ here = fpos /\ fpos \in Nat /\ CurPos = fpos + next /\ MaxPos \in Nat /\ fsize \in 0 .. MaxPos
      /\ data \in [Room -> Byte] /\ next \in Nat /\ Size <= ReadCap /\ ReadCap \in Nat
      /\ extent \in Nat /\ file \in [Index -> Byte] /\ \A i \in 0 .. next - 1 : data[i] # Zero
  BY <1>1, WritePlace
<1>4. w \in 1 .. n /\ next + w \in 0 .. Size
  <2>1. n > 0 /\ Size - next > 0 /\ Size \in Nat /\ Size - next \in Nat
    BY <1>1, <1>2, <1>3, SizesAssumption
  <2>   HIDE DEF n
  <2>2. w \in 1 .. n /\ w <= Size - next
    BY <1>2, <2>1 DEF Smaller
  <2>   HIDE DEF w
  <2>3. QED
    BY <1>2, <1>3, <2>1, <2>2
<1>   HIDE DEF w
<1>5. ASSUME NEW i \in Room
      PROVE  /\ d[i] \in Byte
             /\ i \in 0 .. next + w - 1 => d[i] # Zero
  <2>1. i \in Nat /\ d[i] = IF i \in next .. next + w - 1 THEN Rest[i - next] ELSE data[i]
    BY <1>3 DEF Room
  <2>2. CASE i \in next .. next + w - 1
    <3>1. i - next \in 0 .. n - 1 /\ d[i] = Rest[i - next]
      BY <1>2, <1>3, <1>4, <2>1, <2>2
    <3>   HIDE DEF n, d
    <3>2. QED
      BY <1>2, <3>1
  <2>3. CASE ~(i \in next .. next + w - 1)
    <3>1. d[i] = data[i] /\ (i \in 0 .. next + w - 1 => i \in 0 .. next - 1)
      BY <1>3, <1>4, <2>1, <2>3
    <3>   HIDE DEF n, d
    <3>2. QED
      BY <1>3, <3>1
  <2>4. QED
    BY <2>2, <2>3
<1>6. d \in [Room -> Byte] /\ \A i \in 0 .. next + w - 1 : d[i] # Zero
  <2>1. \A i \in 0 .. next + w - 1 : i \in Room
    BY <1>3, <1>4, SizesAssumption DEF Room
  <2>2. DOMAIN d = Room /\ d = [i \in Room |-> d[i]]
    OBVIOUS
  <2>   HIDE DEF d
  <2>3. QED
    BY <1>5, <2>1, <2>2
<1>   HIDE DEF d
<1>7. CurPos + n <= MaxPos
  <2>1. CurPos + Len(src) - off <= MaxPos
    BY <1>1 DEF IInv, CallInv
  <2>2. QED
    BY <1>2, <1>3, <2>1
<1>8. /\ fpos + (next + w) <= MaxPos /\ off + w \in 0 .. Len(src)
      /\ fpos + (next + w) + Len(src) - (off + w) <= MaxPos
  BY <1>2, <1>3, <1>4, <1>7
<1>9. file' = file /\ fsize' = fsize /\ fpos' = fpos /\ here' = fpos /\ extent' = extent
  BY <1>1, <1>3 DEF kernel
<1>10. hole' = FALSE /\ flag \in {"none", "eof", "error"} /\ flag' = flag
       /\ mode' = mode /\ synced' = synced /\ endb' = endb
  BY <1>1 DEF StreamInv, StreamType
<1>11. file' \in [Index -> Byte]
  BY <1>3, <1>9
<1>12. StreamInv' /\ CurPos' = fpos + (next + w)
  <2>1. StreamInv /\ mode = "WRITE" /\ data' = d /\ next' = next + w
    BY <1>1
  <2>   DEFINE m == next + w
  <2>2. m \in 0 .. Size /\ fpos + m <= MaxPos /\ next' = m /\ \A i \in 0 .. m - 1 : d[i] # Zero
    BY <1>3, <1>4, <1>6, <1>8, <2>1
  <2>   HIDE DEF m
  <2>3. StreamInv' /\ CurPos' = fpos + m
    BY <1>3, <1>6, <1>9, <1>10, <1>11, <2>1, <2>2, PendingStream
  <2>4. QED
    BY <2>3 DEF m
<1>13. CallInv'
  <2>1. off' \in 0 .. Len(src) /\ CurPos' + Len(src) - off' <= MaxPos
    BY <1>1, <1>2, <1>3, <1>4, <1>8, <1>12
  <2>2. QED
    BY <1>1, <2>1, CallFrame DEF IInv, CallInv, CallType
<1>14. QED
  BY <1>12, <1>13 DEF IInv

\* Where a flush goes on keeps the call's promises.
LEMMA ResumeInv ==
  ASSUME IInv, StreamInv', NEW done \in BOOLEAN, Resume(done), mode = "WRITE", mode' = mode, synced' = synced,
         CurPos' = CurPos, op = "seek" => CurLen' = CurLen
  PROVE  CallInv'
<1>1. CASE ResumeSync(done)
  <2>1. pc' = "hole" /\ UNCHANGED <<args, off, got, all, ret>> /\ ok' \in BOOLEAN /\ op \in {"sync", "seek"}
    BY <1>1 DEF ResumeSync
  <2>2. QED
    BY <2>1, CallFrame DEF IInv, CallInv, CallType
<1>2. CASE ResumeWrite
  <2>1. pc' = "loop" /\ UNCHANGED <<args, off, got, all, ok, ret>> /\ op \in {"write", "putc"}
    BY <1>2 DEF ResumeWrite
  <2>2. QED
    BY <2>1, CallFrame DEF IInv, CallInv, CallType
<1>3. CASE ResumeRead
  <2>1. pc' = "toread" /\ UNCHANGED <<args, off, got, all, ok, ret>> /\ op \in {"read", "getc"}
    BY <1>3 DEF ResumeRead
  <2>2. QED
    BY <2>1, CallFrame DEF IInv, CallInv, CallType
<1>4. CASE GiveUp
  <2>1. Short \in Int
    BY DEF IInv, CallInv, CallType, Short
  <2>2. QED
    BY <1>4, <2>1, ReturnInv DEF GiveUp
<1>5. QED
  BY <1>1, <1>2, <1>3, <1>4 DEF Resume

LEMMA FlushFailInv == ASSUME IInv, FlushFail PROVE IInv'
<1>1. UNCHANGED <<kernel, stream>> /\ flag' \in {"none", "eof", "error"} /\ Resume(FALSE)
  BY DEF FlushFail
<1>2. StreamInv' /\ CurPos' = CurPos /\ CurLen' = CurLen
  BY <1>1, StreamFrame DEF IInv
<1>3. mode = "WRITE" /\ mode' = mode /\ synced' = synced
  BY <1>1 DEF FlushFail, IInv, CallInv, stream, buffer
<1>4. CallInv'
  BY <1>1, <1>2, <1>3, ResumeInv
<1>5. QED
  BY <1>2, <1>4 DEF IInv

LEMMA FlushInv == ASSUME IInv, Flush PROVE IInv'
<1>1. StreamInv /\ mode = "WRITE" /\ pc = "flush"
  BY DEF IInv, Flush, CallInv
<1>2. /\ here = fpos /\ fpos \in Nat /\ CurPos = fpos + next /\ CurPos <= MaxPos /\ MaxPos \in Nat
      /\ fsize \in 0 .. MaxPos /\ data \in [Room -> Byte] /\ next \in Nat /\ next <= Size /\ Size <= ReadCap
      /\ ReadCap \in Nat /\ ~synced /\ \A i \in 0 .. next - 1 : data[i] # Zero
  BY <1>1, WritePlace
<1>3. PICK w \in WrCounts(data, next) :
        /\ SfWr(data, next, w)
        /\ data' = Holding([i \in Room |-> IF i + w \in Room THEN data[i + w] ELSE Zero], next - w)
        /\ next' = next - w
        /\ IF all /\ w < next THEN FlushAgain ELSE Resume(TRUE)
  BY DEF Flush
<1>4. mode' = mode /\ synced' = synced /\ endb' = endb
  BY DEF Flush
<1>5. w \in 1 .. next
  BY <1>3 DEF WrCounts
<1>   DEFINE d == [i \in Room |-> IF i < next - w THEN data[i + w] ELSE Zero]
<1>6. \A i \in 0 .. next - 1 : i \in Room
  BY <1>2, SizesAssumption DEF Room
<1>7. data' = d
  <2>1. \A i \in Room : i < next - w => i + w \in Room
    BY <1>2, <1>5, SizesAssumption DEF Room
  <2>2. QED
    BY <1>3, <2>1 DEF Holding
<1>8. ASSUME NEW i \in Room
      PROVE  d[i] \in Byte /\ (i < next - w => d[i] # Zero)
  <2>1. CASE i < next - w
    <3>1. d[i] = data[i + w] /\ i + w \in 0 .. next - 1
      BY <1>2, <1>5, <2>1 DEF Room
    <3>   HIDE DEF d
    <3>2. QED
      BY <1>2, <1>6, <3>1
  <2>2. CASE ~(i < next - w)
    BY <2>2, BytesAssumption
  <2>3. QED
    BY <2>1, <2>2
<1>9. d \in [Room -> Byte] /\ \A i \in 0 .. (next - w) - 1 : d[i] # Zero
  <2>1. \A i \in 0 .. (next - w) - 1 : i \in Room /\ i < next - w
    BY <1>2, <1>5, <1>6
  <2>2. d = [i \in Room |-> d[i]]
    OBVIOUS
  <2>   HIDE DEF d
  <2>3. QED
    BY <1>8, <2>1, <2>2
<1>   HIDE DEF d
<1>10. \A i \in 0 .. next - 1 : data[i] \in Byte /\ data[i] # Zero
  BY <1>2, <1>6
<1>11. /\ file' \in [Index -> Byte]
       /\ fsize' = Larger(fsize, fpos + w) /\ fpos' = fpos + w /\ here' = here + w
       /\ extent' \in Nat /\ hole' = FALSE /\ flag' = "none"
  <2>1. StreamType /\ PositionsAgree /\ fpos + next <= MaxPos
    BY <1>1, <1>2 DEF StreamInv
  <2>2. QED
    BY <1>2, <1>3, <1>5, <1>10, <2>1, WrEffect
<1>12. PICK x \in Nat : extent' = x
  BY <1>11
<1>13. /\ next - w \in 0 .. Size /\ fpos + w \in Nat /\ fpos + w + (next - w) <= MaxPos
       /\ fpos + w + (next - w) = CurPos /\ Larger(fsize, fpos + w) \in 0 .. MaxPos
  BY <1>2, <1>5, SizesAssumption DEF Larger
<1>14. /\ StreamInv' /\ CurPos' = fpos + w + (next - w)
       /\ CurLen' = Larger(Larger(fsize, fpos + w), IF next - w > 0 THEN fpos + w + (next - w) ELSE 0)
  BY <1>1, <1>2, <1>3, <1>4, <1>7, <1>9, <1>11, <1>12, <1>13, PendingStream
<1>15. CurPos' = CurPos
  BY <1>13, <1>14
<1>16. CurLen' = CurLen
  <2>1. CurLen = Larger(fsize, fpos + next)
    <3>1. next > 0 /\ Pending = next
      BY <1>1, <1>2, <1>5 DEF Pending
    <3>2. QED
      BY <1>1, <1>2, <3>1 DEF CurLen, StreamInv
  <2>2. Larger(Larger(fsize, fpos + w), IF next - w > 0 THEN fpos + w + (next - w) ELSE 0)
          = Larger(fsize, fpos + next)
    BY <1>2, <1>5 DEF Larger
  <2>3. QED
    BY <1>14, <2>1, <2>2
<1>17. CASE Resume(TRUE)
  <2>1. CallInv'
    BY <1>1, <1>4, <1>14, <1>15, <1>16, <1>17, ResumeInv
  <2>2. QED
    BY <1>14, <2>1 DEF IInv
<1>18. CASE FlushAgain
  <2>1. pc' = "flush" /\ all' = FALSE /\ UNCHANGED <<args, off, got, ok, ret>>
    BY <1>18 DEF FlushAgain
  <2>2. all' \in BOOLEAN /\ ok' \in BOOLEAN /\ mode' = "WRITE"
    BY <1>1, <1>4, <2>1 DEF IInv, CallInv, CallType
  <2>3. CallInv'
    BY <1>1, <1>15, <1>16, <2>1, <2>2, CallFrame DEF IInv, CallInv, CallType
  <2>4. QED
    BY <1>14, <2>3 DEF IInv
<1>19. QED
  BY <1>3, <1>17, <1>18

----------------------------------------------------------------------------
(* The theorems.                                                           *)

LEMMA InitInv == ASSUME Init PROVE IInv
<1>1. PICK c \in Initial :
        /\ Len(c) <= MaxPos
        /\ file = [i \in Index |-> IF i < Len(c) THEN c[i + 1] ELSE Zero]
        /\ fsize = Len(c) /\ extent = Len(c)
  BY DEF Init
<1>2. c \in Seq(Byte) /\ Len(c) \in Nat /\ Len(c) \in 0 .. MaxPos /\ MaxPos \in Nat
  BY <1>1, InitialAssumption, SizesAssumption
<1>3. file \in [Index -> Byte]
  <2>1. SUFFICES ASSUME NEW i \in Index
                 PROVE  (IF i < Len(c) THEN c[i + 1] ELSE Zero) \in Byte
    BY <1>1
  <2>2. CASE i < Len(c)
    BY <1>2, <2>2 DEF Index
  <2>3. CASE ~(i < Len(c))
    BY <2>3, BytesAssumption
  <2>4. QED
    BY <2>2, <2>3
<1>4. /\ fpos = 0 /\ here = 0 /\ hole = FALSE /\ flag = "none"
      /\ mode = "READ" /\ ~synced /\ synced \in BOOLEAN /\ next = 0 /\ endb = 0 /\ data = Blank
  BY DEF Init
<1>5. data \in [Room -> Byte]
  BY <1>4, BytesAssumption DEF Blank
<1>6. StreamType
  BY <1>1, <1>2, <1>3, <1>4, <1>5, SizesAssumption DEF StreamType, ReadCap
<1>7. CurPos = 0 /\ PositionsAgree /\ BufferCoherent
  BY <1>4 DEF CurPos, Unread, PositionsAgree, BufferCoherent
<1>8. StreamInv
  BY <1>2, <1>4, <1>6, <1>7 DEF StreamInv
<1>9. /\ op = "none" /\ src = <<>> /\ off = 0 /\ got = <<>> /\ whence = "set" /\ amt = 0
      /\ pc = "idle" /\ all \in BOOLEAN /\ ok \in BOOLEAN /\ ret = 0
  BY DEF Init
<1>10. CallInv
  BY <1>9 DEF CallInv, CallType
<1>11. QED
  BY <1>8, <1>10 DEF IInv

\* Every step of the stream keeps the invariant.
LEMMA StepInv == ASSUME IInv, Step PROVE IInv'
<1>1. WriteSwitch \/ WriteFlush \/ WriteDirect \/ WriteDirectFail \/ WriteCopy \/ WriteDone => IInv'
  BY WriteSwitchInv, WriteFlushInv, WriteDirectInv, WriteDirectFailInv, WriteCopyInv, WriteDoneInv
<1>2. Flush \/ FlushFail => IInv'
  BY FlushInv, FlushFailInv
<1>3. ReadFlush \/ ReadSwitch \/ ReadUnsync \/ ReadCopy \/ ReadDirect \/ ReadFill \/ ReadDone => IInv'
  BY ReadFlushInv, ReadSwitchInv, ResyncInv, ReadCopyInv, ReadDirectInv, ReadFillInv, ReadDoneInv DEF ReadUnsync
<1>4. SyncRead \/ SyncWrite \/ SyncHole \/ SyncDone => IInv'
  BY SyncReadInv, SyncWriteInv, SyncHoleInv, SyncDoneInv
<1>5. SeekUnsync \/ SeekStart \/ SeekSynced \/ SeekHard \/ SeekNear \/ SeekNegative \/ SeekFar => IInv'
  BY ResyncInv, SeekStartInv, SeekSyncedInv, SeekHardInv, SeekNearInv, SeekNegativeInv, SeekFarInv DEF SeekUnsync
<1>6. Purge \/ TellUnsync \/ Tell \/ FileSize => IInv'
  BY PurgeInv, ResyncInv, TellInv, FileSizeInv DEF TellUnsync
<1>7. QED
  BY <1>1, <1>2, <1>3, <1>4, <1>5, <1>6 DEF Step

LEMMA StutterInv == ASSUME IInv, UNCHANGED vars PROVE IInv'
<1>1. /\ UNCHANGED <<kernel, stream>> /\ UNCHANGED <<args, off, got, ret>> /\ all' = all /\ ok' = ok /\ pc' = pc
      /\ flag' = flag
  BY DEF vars
<1>2. flag' \in {"none", "eof", "error"} /\ all' \in BOOLEAN /\ ok' \in BOOLEAN
      /\ pc' \in {"idle", "loop", "flush", "toread", "hole", "done", "seek"}
      /\ (pc' \in {"flush", "toread", "hole"} => mode = "WRITE")
      /\ (op = "seek" /\ pc' \in {"done", "seek"} => ~synced)
  BY <1>1 DEF IInv, StreamInv, StreamType, CallInv, CallType
<1>3. QED
  BY <1>1, <1>2, GotoInv

\* The invariant holds in every reachable state.
THEOREM Inductive == ASSUME NoZero PROVE Spec => []IInv
<1>1. Init => IInv
  BY InitInv
<1>2. IInv /\ [Next]_vars => IInv'
  BY CallsInv, StepInv, StutterInv DEF Next
<1>3. QED
  BY <1>1, <1>2, PTL DEF Spec

\* Type correctness: every variable stays in its range, for every buffer size,
\* every file and every outcome of the system calls.
THEOREM TypeCorrect == ASSUME NoZero PROVE Spec => []TypeOK
<1>1. IInv => TypeOK
  <2>1. ASSUME IInv PROVE TypeOK
    <3>1. hole \in BOOLEAN
      BY <2>1 DEF IInv, StreamInv
    <3>2. QED
      BY <2>1, <3>1 DEF IInv, StreamInv, StreamType, CallInv, CallType, TypeOK
  <2>2. QED
    BY <2>1
<1>2. QED
  BY <1>1, Inductive, PTL

\* f->here is the kernel's offset between any two steps of any call, so the
\* arithmetic of sfseek, sftell, sfsync and _sfmode on f->here is about the
\* place the next read or write of the kernel will use.
THEOREM PositionsAgreeAlways == ASSUME NoZero PROVE Spec => []PositionsAgree
<1>1. IInv => PositionsAgree
  BY DEF IInv, StreamInv
<1>2. QED
  BY <1>1, Inductive, PTL

\* The bytes buffered for reading are the bytes of the file at their place,
\* after any mix of seeks, mode switches, syncs, short reads and failures.
THEOREM BufferCoherentAlways == ASSUME NoZero PROVE Spec => []BufferCoherent
<1>1. IInv => BufferCoherent
  BY DEF IInv, StreamInv
<1>2. QED
  BY <1>1, Inductive, PTL

----------------------------------------------------------------------------
(* SfStream implements SfFile: for an application whose writes hold no     *)
(* zero byte, on a kernel that writes whole or not at all, every step of   *)
(* the buffered stream is a step of the file it promises, or none.  Short  *)
(* reads, failing reads and failing writes are included.                   *)

\* A system call that writes writes everything, or fails.
WholeWrites == "shortwrite" \notin Faults

\* What the call knows of the buffer and of its arguments.
Progress ==
  /\ extent >= fsize
  /\ op = "putc" => Len(src) = 1
  /\ op = "getc" => amt = 1
  /\ pc = "flush" /\ op \in {"write", "putc"} => off < Len(src)
  /\ op \in {"read", "getc"} /\ mode = "WRITE" => got = <<>>
  /\ pc = "toread" => next = 0
  /\ pc \in {"hole", "done"} /\ ok => Pending = 0
  /\ pc = "seek" => Pending = 0
  /\ pc = "done" /\ op = "sync" /\ ok => fpos = CurPos

\* The invariant of this module.
FullInv == IInv /\ Progress

----------------------------------------------------------------------------
(* The progress of a call.                                                 *)

\* A call that returned knows nothing.
LEMMA ReturnProgress ==
  ASSUME NEW r, Return(r), extent' >= fsize'
  PROVE  Progress'
BY DEF Return, Progress

\* A call that starts.
LEMMA CallsProgress ==
  ASSUME FullInv, Calls
  PROVE  Progress'
<1>1. UNCHANGED <<kernel, stream>> /\ pc' = "loop" /\ got' = <<>>
  BY DEF Calls, CallWrite, CallPutc, CallRead, CallGetc, CallSeek, CallOther, Begin
<1>2. op' = "putc" => Len(src') = 1
  BY DEF Calls, CallWrite, CallPutc, CallRead, CallGetc, CallSeek, CallOther, Begin
<1>3. op' = "getc" => amt' = 1
  BY DEF Calls, CallWrite, CallPutc, CallRead, CallGetc, CallSeek, CallOther, Begin
<1>4. extent' >= fsize'
  BY <1>1 DEF FullInv, Progress, kernel, stream
<1>5. QED
  BY <1>1, <1>2, <1>3, <1>4 DEF Progress

\* A step inside a call that leaves the buffer and the kernel alone.
LEMMA GotoProgress ==
  ASSUME FullInv, UNCHANGED <<kernel, stream>>, UNCHANGED <<args, off, got>>,
         pc' = "flush" => op \notin {"write", "putc"} \/ off < Len(src),
         pc' = "toread" => next = 0,
         pc' \in {"hole", "done"} /\ ok' => Pending = 0,
         pc' = "seek" => Pending = 0,
         pc' = "done" /\ op = "sync" /\ ok' => fpos = CurPos
  PROVE  Progress'
BY DEF FullInv, Progress, kernel, stream, buffer, args, Pending, CurPos, Unread


\* A step inside the loop of a call.
LEMMA LoopProgress ==
  ASSUME FullInv, UNCHANGED args, pc' = "loop", extent' >= fsize',
         mode' = "READ" \/ op \in {"write", "putc"}
  PROVE  Progress'
BY DEF FullInv, Progress, args

\* The types the steps below compare numbers of.
LEMMA Lengths ==
  ASSUME FullInv
  PROVE  /\ fsize \in Nat /\ extent \in Nat /\ extent >= fsize /\ fpos \in Nat /\ here \in Nat
         /\ next \in Nat /\ endb \in Nat /\ \A x \in Int : Larger(extent, x) >= fsize
BY SizesAssumption DEF FullInv, Progress, IInv, StreamInv, StreamType, ReadCap, Larger

----------------------------------------------------------------------------
(* What is written.                                                        *)

\* Without holes a write puts its bytes where the kernel is, and no other.
LEMMA WrBytes ==
  ASSUME StreamType, PositionsAgree,
         NEW b, NEW n \in Nat, NEW w \in 1 .. n, fpos + n <= MaxPos,
         \A i \in 0 .. n - 1 : b[i] \in Byte /\ b[i] # Zero,
         SfWr(b, n, w)
  PROVE  /\ file' = [i \in Index |-> IF i - fpos \in 0 .. w - 1 THEN b[i - fpos] ELSE file[i]]
         /\ extent' = Larger(extent, fpos + w)
<1>1. HoleBytes(b, n) = {}
  BY NoHoles
<1>2. (0 .. w - 1) \ HoleBytes(b, n) = 0 .. w - 1
  BY <1>1
<1>3. here = fpos
  BY DEF PositionsAgree
<1>4. file' = [i \in Index |-> IF i - fpos \in (0 .. w - 1) \ HoleBytes(b, n) THEN b[i - fpos] ELSE file[i]]
      /\ extent' = Larger(extent, here + w)
  BY DEF SfWr
<1>5. QED
  BY <1>2, <1>3, <1>4, Zenon

\* A kernel that writes whole leaves no choice of how much.
LEMMA WholeCount ==
  ASSUME WholeWrites, NEW b, NEW n \in Nat, NEW w \in WrCounts(b, n)
  PROVE  w = n /\ n > 0
BY DEF WrCounts, WholeWrites

\* The write of a WRITE stream with an empty buffer.
LEMMA DirectEffect ==
  ASSUME WholeWrites, IInv, WriteDirect
  PROVE  LET n == Len(src) - off
         IN  /\ n \in Nat \ {0} /\ next = 0 /\ next' = 0 /\ mode = "WRITE" /\ mode' = "WRITE"
             /\ file' = [i \in Index |-> IF i - fpos \in 0 .. n - 1 THEN Rest[i - fpos] ELSE file[i]]
             /\ extent' = Larger(extent, fpos + n) /\ fsize' = Larger(fsize, fpos + n)
             /\ fpos' = fpos + n /\ off' = off + n /\ hole' = FALSE
             /\ fpos + n <= MaxPos
             /\ UNCHANGED <<args, got, pc, all, ok, ret>>
<1>1. StreamInv /\ mode = "WRITE" /\ op \in {"write", "putc"} /\ off < Len(src) /\ next = 0
  BY DEF IInv, WriteDirect, Writing, Bypass
<1>   DEFINE n == Len(src) - off
<1>2. n \in Nat /\ off \in Nat /\ Len(src) \in Nat /\ \A i \in 0 .. n - 1 : Rest[i] \in Byte /\ Rest[i] # Zero
  BY RestBytes
<1>3. PICK w \in WrCounts(Rest, n) : SfWr(Rest, n, w) /\ off' = off + w
  BY DEF WriteDirect
<1>4. UNCHANGED <<args, got, pc, all, ok, ret>> /\ mode' = mode /\ next' = next
  BY DEF WriteDirect, buffer
<1>5. here = fpos /\ fpos \in Nat /\ CurPos = fpos + next /\ MaxPos \in Nat
  BY <1>1, WritePlace
<1>6. fpos + n <= MaxPos
  <2>1. CurPos + Len(src) - off <= MaxPos
    BY <1>1 DEF IInv, CallInv
  <2>2. QED
    BY <1>1, <1>2, <1>5, <2>1
<1>7. StreamType /\ PositionsAgree
  BY <1>1 DEF StreamInv
<1>   HIDE DEF n
<1>8. w = n /\ n > 0 /\ w \in 1 .. n
  BY <1>2, <1>3, WholeCount
<1>9. fsize' = Larger(fsize, fpos + w) /\ fpos' = fpos + w /\ hole' = FALSE
  BY <1>2, <1>3, <1>6, <1>7, <1>8, WrEffect
<1>10. /\ file' = [i \in Index |-> IF i - fpos \in 0 .. w - 1 THEN Rest[i - fpos] ELSE file[i]]
       /\ extent' = Larger(extent, fpos + w)
  BY <1>2, <1>3, <1>6, <1>7, <1>8, WrBytes
<1>11. n \in Nat \ {0} /\ mode' = "WRITE" /\ next' = 0
  BY <1>1, <1>2, <1>4, <1>8
<1>   USE DEF n
<1>12. QED
  BY <1>1, <1>3, <1>4, <1>6, <1>8, <1>9, <1>10, <1>11, Zenon

\* A flush writes the whole buffer out and the call goes on.
LEMMA FlushEffect ==
  ASSUME WholeWrites, IInv, Flush
  PROVE  /\ next \in Nat \ {0} /\ next' = 0 /\ mode = "WRITE" /\ mode' = "WRITE"
         /\ file' = [i \in Index |-> IF i - fpos \in 0 .. next - 1 THEN data[i - fpos] ELSE file[i]]
         /\ extent' = Larger(extent, fpos + next) /\ fsize' = Larger(fsize, fpos + next)
         /\ fpos' = fpos + next /\ fpos + next <= MaxPos /\ hole' = FALSE
         /\ Resume(TRUE)
<1>1. StreamInv /\ mode = "WRITE"
  BY DEF IInv, Flush, CallInv
<1>2. /\ here = fpos /\ fpos \in Nat /\ CurPos = fpos + next /\ CurPos <= MaxPos /\ MaxPos \in Nat
      /\ data \in [Room -> Byte] /\ next \in Nat /\ next <= Size /\ Size <= ReadCap
      /\ ReadCap \in Nat /\ \A i \in 0 .. next - 1 : data[i] # Zero
  BY <1>1, WritePlace
<1>3. PICK w \in WrCounts(data, next) :
        /\ SfWr(data, next, w)
        /\ next' = next - w
        /\ IF all /\ w < next THEN FlushAgain ELSE Resume(TRUE)
  BY DEF Flush
<1>4. w = next /\ next > 0 /\ w \in 1 .. next /\ ~(w < next)
  BY <1>2, <1>3, WholeCount
<1>5. \A i \in 0 .. next - 1 : data[i] \in Byte /\ data[i] # Zero
  BY <1>2, SizesAssumption DEF Room
<1>6. StreamType /\ PositionsAgree /\ fpos + next <= MaxPos
  BY <1>1, <1>2 DEF StreamInv
<1>7. fsize' = Larger(fsize, fpos + w) /\ fpos' = fpos + w /\ hole' = FALSE
  BY <1>2, <1>3, <1>4, <1>5, <1>6, WrEffect
<1>8. /\ file' = [i \in Index |-> IF i - fpos \in 0 .. w - 1 THEN data[i - fpos] ELSE file[i]]
      /\ extent' = Larger(extent, fpos + w)
  BY <1>2, <1>3, <1>4, <1>5, <1>6, WrBytes
<1>9. next' = 0 /\ next \in Nat \ {0}
  BY <1>2, <1>3, <1>4
<1>10. mode' = "WRITE"
  BY <1>1 DEF Flush
<1>11. Resume(TRUE)
  BY <1>3, <1>4
<1>12. QED
  BY <1>1, <1>4, <1>6, <1>7, <1>8, <1>9, <1>10, <1>11, Zenon

----------------------------------------------------------------------------
(* What the calls know is kept by every step.                              *)

\* The steps that only return.
LEMMA QuietReturnProgress ==
  ASSUME FullInv, NEW r, Return(r), UNCHANGED <<kernel, stream>>
  PROVE  Progress'
<1>1. extent' >= fsize'
  BY DEF FullInv, Progress, kernel, stream
<1>2. QED
  BY <1>1, ReturnProgress

LEMMA WriteProgress ==
  ASSUME WholeWrites, FullInv,
         WriteSwitch \/ WriteFlush \/ WriteDirect \/ WriteDirectFail \/ WriteCopy \/ WriteDone
  PROVE  Progress'
<1>1. CASE WriteSwitch
  BY <1>1, Lengths, LoopProgress DEF WriteSwitch, Writing, ToWrite, args
<1>2. CASE WriteFlush
  BY <1>2, GotoProgress DEF WriteFlush, Writing
<1>3. CASE WriteDirect
  <2>1. /\ fsize' = Larger(fsize, fpos + (Len(src) - off)) /\ extent' = Larger(extent, fpos + (Len(src) - off))
        /\ UNCHANGED <<args, pc>> /\ Len(src) - off \in Nat
    BY <1>3, DirectEffect DEF FullInv
  <2>2. extent' >= fsize'
    BY <2>1, Lengths DEF Larger
  <2>3. QED
    BY <1>3, <2>1, <2>2, LoopProgress DEF WriteDirect, Writing
<1>4. CASE WriteDirectFail
  BY <1>4, QuietReturnProgress DEF WriteDirectFail
<1>5. CASE WriteCopy
  BY <1>5, Lengths, LoopProgress DEF WriteCopy, Writing, kernel
<1>6. CASE WriteDone
  BY <1>6, QuietReturnProgress DEF WriteDone
<1>7. QED
  BY <1>1, <1>2, <1>3, <1>4, <1>5, <1>6

LEMMA FlushProgress == ASSUME WholeWrites, FullInv, Flush PROVE Progress'
<1>1. /\ next' = 0 /\ mode' = "WRITE" /\ mode = "WRITE" /\ next \in Nat
      /\ fsize' = Larger(fsize, fpos + next) /\ extent' = Larger(extent, fpos + next) /\ Resume(TRUE)
  BY FlushEffect DEF FullInv
<1>2. extent' >= fsize'
  BY <1>1, Lengths DEF Larger
<1>3. Pending' = 0
  BY <1>1 DEF Pending
<1>4. CASE ResumeSync(TRUE)
  <2>1. op \in {"sync", "seek"} /\ pc' = "hole" /\ UNCHANGED args
    BY <1>4 DEF ResumeSync
  <2>2. QED
    BY <1>2, <1>3, <2>1 DEF Progress, args
<1>5. CASE ResumeWrite
  BY <1>2, <1>5, LoopProgress DEF ResumeWrite
<1>6. CASE ResumeRead
  <2>1. op \in {"read", "getc"} /\ pc' = "toread" /\ UNCHANGED <<args, got>> /\ got = <<>>
    BY <1>1, <1>6 DEF ResumeRead, FullInv, Progress
  <2>2. QED
    BY <1>1, <1>2, <2>1 DEF Progress, args, FullInv
<1>7. QED
  BY <1>1, <1>4, <1>5, <1>6 DEF Resume

LEMMA FlushFailProgress == ASSUME FullInv, FlushFail PROVE Progress'
<1>1. UNCHANGED <<kernel, stream>> /\ Resume(FALSE)
  BY DEF FlushFail
<1>2. CASE ResumeSync(FALSE)
  <2>1. pc' = "hole" /\ ok' = FALSE /\ UNCHANGED <<args, off, got>>
    BY <1>2 DEF ResumeSync
  <2>2. ~ok'
    BY <2>1
  <2>3. QED
    BY <1>1, <2>1, <2>2, GotoProgress
<1>3. CASE GiveUp
  BY <1>1, <1>3, QuietReturnProgress DEF GiveUp
<1>4. QED
  BY <1>1, <1>2, <1>3 DEF Resume

LEMMA ReadProgress ==
  ASSUME FullInv,
         ReadFlush \/ ReadSwitch \/ ReadCopy \/ ReadDirect \/ ReadFill \/ ReadDone
  PROVE  Progress'
<1>1. CASE ReadFlush
  BY <1>1, GotoProgress DEF ReadFlush, Reading
<1>2. CASE ReadSwitch
  BY <1>2, Lengths, LoopProgress DEF ReadSwitch, ToRead, kernel
<1>3. CASE ReadCopy
  BY <1>3, Lengths, LoopProgress DEF ReadCopy, Reading, kernel
<1>4. CASE ReadDirect
  <2>1. PICK r \in RdCounts(fpos, Wanted) :
          Advance(r) /\ (Exhausted(r) \/ Continue)
    BY <1>4 DEF ReadDirect
  <2>2. Empty /\ mode' = mode /\ fsize' = fsize /\ extent' = IF r > 0 THEN Larger(extent, here + r) ELSE extent
    BY <1>4, <2>1 DEF ReadDirect, Advance
  <2>3. r \in Int
    <3>1. fsize \in 0 .. MaxPos /\ fpos \in 0 .. MaxPos /\ Wanted \in Nat /\ ReadCap \in Nat
      BY <2>2, EmptyPlace DEF FullInv
    <3>2. QED
      BY <2>1, <3>1, RdBound
  <2>4. extent' >= fsize'
    BY <2>2, <2>3, Lengths
  <2>5. QED
    BY <2>1, <2>2, <2>4, LoopProgress, ReturnProgress DEF Exhausted, Continue, Empty, Reading
<1>5. CASE ReadFill
  <2>1. PICK r \in RdCounts(fpos, ReadCap) :
          Advance(r) /\ (Exhausted(r) \/ Continue)
    BY <1>5 DEF ReadFill
  <2>2. Empty /\ mode' = mode /\ fsize' = fsize /\ extent' = IF r > 0 THEN Larger(extent, here + r) ELSE extent
    BY <1>5, <2>1 DEF ReadFill, Advance
  <2>3. r \in Int
    <3>1. fsize \in 0 .. MaxPos /\ fpos \in 0 .. MaxPos /\ Wanted \in Nat /\ ReadCap \in Nat
      BY <2>2, EmptyPlace DEF FullInv
    <3>2. QED
      BY <2>1, <3>1, RdBound
  <2>4. extent' >= fsize'
    BY <2>2, <2>3, Lengths
  <2>5. QED
    BY <2>1, <2>2, <2>4, LoopProgress, ReturnProgress DEF Exhausted, Continue, Empty, Reading
<1>6. CASE ReadDone
  BY <1>6, QuietReturnProgress DEF ReadDone
<1>7. QED
  BY <1>1, <1>2, <1>3, <1>4, <1>5, <1>6

LEMMA ResyncProgress == ASSUME FullInv, NEW o, Resync(o) PROVE Progress'
BY Lengths, LoopProgress DEF Resync, Unsync

LEMMA SyncReadProgress == ASSUME FullInv, SyncRead PROVE Progress'
<1>1. /\ op = "sync" /\ mode = "READ" /\ pc' = "done" /\ UNCHANGED <<mode, next, endb, fsize, extent, args, ok>>
  BY DEF SyncRead
<1>2. fpos' = CurPos'
  <2>1. CASE ~synced /\ Unread > 0
    BY <1>1, <2>1 DEF SyncRead, CurPos
  <2>2. CASE ~(~synced /\ Unread > 0)
    <3>1. fpos' = fpos /\ synced' = synced
      BY <2>2 DEF SyncRead
    <3>2. Unread \in Nat /\ fpos \in Nat /\ Unread' = Unread
      BY <1>1, ReadPlace, Lengths, SizesAssumption DEF FullInv, IInv, Unread, ReadCap
    <3>3. QED
      BY <1>1, <2>2, <3>1, <3>2 DEF CurPos
  <2>3. QED
    BY <2>1, <2>2
<1>3. Pending' = 0 /\ extent' >= fsize'
  BY <1>1, Lengths DEF Pending
<1>4. QED
  BY <1>1, <1>2, <1>3 DEF Progress, args

LEMMA SyncProgress ==
  ASSUME FullInv, SyncRead \/ SyncWrite \/ SyncHole \/ SyncDone
  PROVE  Progress'
<1>1. CASE SyncRead
  BY <1>1, SyncReadProgress
<1>2. CASE SyncWrite
  <2>1. op = "sync" /\ mode = "WRITE" /\ UNCHANGED <<kernel, stream>> /\ UNCHANGED <<args, off, got>>
    BY <1>2 DEF SyncWrite
  <2>2. next > 0 \/ next = 0
    BY Lengths
  <2>3. pc' = "flush" \/ (pc' = "hole" /\ Pending = 0)
    BY <1>2, <2>1, <2>2 DEF SyncWrite, Pending
  <2>4. QED
    BY <2>1, <2>3, GotoProgress
<1>3. CASE SyncHole
  <2>1. hole = FALSE /\ hole' = FALSE /\ mode = "WRITE" /\ pc = "hole" /\ pc' = "done"
    BY <1>3 DEF FullInv, IInv, StreamInv, CallInv, SyncHole
  <2>2. UNCHANGED <<kernel, stream>> /\ UNCHANGED <<args, off, got, ok>>
    <3>1. ~hole
      BY <2>1
    <3>2. QED
      BY <1>3, <2>1, <3>1 DEF SyncHole, stream
  <2>3. ok => Pending = 0 /\ fpos = CurPos
    BY <2>1, Lengths DEF FullInv, Progress, Pending, CurPos
  <2>4. QED
    BY <2>1, <2>2, <2>3, GotoProgress
<1>4. CASE SyncDone
  BY <1>4, QuietReturnProgress DEF SyncDone
<1>5. QED
  BY <1>1, <1>2, <1>3, <1>4

LEMMA SeekProgress ==
  ASSUME FullInv, SeekStart \/ SeekSynced \/ SeekHard \/ SeekNear \/ SeekNegative \/ SeekFar
  PROVE  Progress'
<1>1. CASE SeekStart
  <2>1. op = "seek" /\ UNCHANGED <<kernel, stream>>
    BY <1>1 DEF SeekStart
  <2>2. CASE Return(here + next)
    BY <2>1, <2>2, QuietReturnProgress
  <2>3. CASE ~Return(here + next)
    <3>1. UNCHANGED <<args, off, got>> /\ (IF Pending > 0 THEN pc' = "flush" ELSE pc' = "seek")
      BY <1>1, <2>3 DEF SeekStart
    <3>2. Pending > 0 \/ Pending = 0
      BY Lengths DEF Pending
    <3>3. QED
      BY <2>1, <3>1, <3>2, GotoProgress
  <2>4. QED
    BY <2>2, <2>3
<1>2. CASE SeekSynced
  <2>1. UNCHANGED <<kernel, stream>> /\ pc = "done"
    BY <1>2 DEF SeekSynced
  <2>2. CASE Return(-1)
    BY <2>1, <2>2, QuietReturnProgress
  <2>3. CASE ok /\ pc' = "seek" /\ UNCHANGED <<args, off, got, all, ok, ret>>
    <3>1. Pending = 0
      BY <2>1, <2>3 DEF FullInv, Progress
    <3>2. QED
      BY <2>1, <2>3, <3>1, GotoProgress
  <2>4. QED
    BY <1>2, <2>2, <2>3 DEF SeekSynced
<1>3. CASE SeekHard
  <2>1. UNCHANGED <<fsize, extent>> /\ \E r : Return(r)
    BY <1>3, Zenon DEF SeekHard
  <2>2. QED
    BY <2>1, Lengths, ReturnProgress
<1>4. CASE SeekNear
  BY <1>4, Lengths, ReturnProgress DEF SeekNear
<1>5. CASE SeekNegative
  BY <1>5, QuietReturnProgress DEF SeekNegative
<1>6. CASE SeekFar
  <2>1. Return(SoftTarget) /\ fsize' = fsize
    BY <1>6 DEF SeekFar
  <2>2. extent' >= extent
    BY <1>6, SeekFarInv DEF FullInv
  <2>3. extent' >= fsize'
    <3>1. IInv'
      BY <1>6, SeekFarInv DEF FullInv
    <3>2. extent' \in Nat
      BY <3>1 DEF IInv, StreamInv, StreamType
    <3>3. QED
      BY <2>1, <2>2, <3>2, Lengths
  <2>4. QED
    BY <2>1, <2>3, ReturnProgress
<1>7. QED
  BY <1>1, <1>2, <1>3, <1>4, <1>5, <1>6

LEMMA OtherProgress ==
  ASSUME FullInv, Purge \/ Tell \/ FileSize
  PROVE  Progress'
<1>1. CASE Purge
  BY <1>1, Lengths, ReturnProgress DEF Purge
<1>2. CASE Tell
  BY <1>2, QuietReturnProgress DEF Tell
<1>3. CASE FileSize
  BY <1>3, Lengths, ReturnProgress DEF FileSize, kernel
<1>4. QED
  BY <1>1, <1>2, <1>3

\* The invariant with what the calls know is inductive.
LEMMA FullStep ==
  ASSUME NoZero, WholeWrites, FullInv, [Next]_vars
  PROVE  FullInv'
<1>1. IInv'
  BY CallsInv, StepInv, StutterInv DEF Next, FullInv
<1>2. Calls => Progress'
  BY CallsProgress
<1>3. ASSUME Step
      PROVE  Progress'
  <2>1. WriteSwitch \/ WriteFlush \/ WriteDirect \/ WriteDirectFail \/ WriteCopy \/ WriteDone => Progress'
    BY WriteProgress
  <2>2. Flush \/ FlushFail => Progress'
    BY FlushProgress, FlushFailProgress
  <2>3. ReadFlush \/ ReadSwitch \/ ReadUnsync \/ ReadCopy \/ ReadDirect \/ ReadFill \/ ReadDone => Progress'
    BY ReadProgress, ResyncProgress DEF ReadUnsync
  <2>4. SyncRead \/ SyncWrite \/ SyncHole \/ SyncDone => Progress'
    BY SyncProgress
  <2>5. SeekUnsync \/ SeekStart \/ SeekSynced \/ SeekHard \/ SeekNear \/ SeekNegative \/ SeekFar => Progress'
    BY SeekProgress, ResyncProgress DEF SeekUnsync
  <2>6. Purge \/ TellUnsync \/ Tell \/ FileSize => Progress'
    BY OtherProgress, ResyncProgress DEF TellUnsync
  <2>7. QED
    BY <1>3, <2>1, <2>2, <2>3, <2>4, <2>5, <2>6 DEF Step
<1>4. UNCHANGED vars => Progress'
  BY DEF vars, kernel, stream, buffer, args, FullInv, Progress, Pending, CurPos, Unread
<1>5. QED
  BY <1>1, <1>2, <1>3, <1>4 DEF Next, FullInv

LEMMA InitFull == ASSUME Init PROVE FullInv
<1>1. PICK c \in Initial : fsize = Len(c) /\ extent = Len(c)
  BY DEF Init
<1>2. Len(c) \in Nat
  BY InitialAssumption
<1>3. Progress
  BY <1>1, <1>2 DEF Init, Progress
<1>4. QED
  BY <1>3, InitInv DEF FullInv

----------------------------------------------------------------------------
(* The file an application sees does not change when nothing moves.        *)

LEMMA QuietFile ==
  ASSUME UNCHANGED <<kernel, stream>>
  PROVE  Content' = Content /\ CurLen' = CurLen /\ CurPos' = CurPos /\ file' = file /\ fsize' = fsize
BY DEF kernel, stream, buffer, Content, CurLen, CurPos, Pending, Unread

LEMMA Stutter ==
  ASSUME UNCHANGED <<kernel, stream>>, UNCHANGED <<args, off, got, ret>>
  PROVE  UNCHANGED File!vars
BY QuietFile DEF args, File!vars

LEMMA Returns ==
  ASSUME NEW r, Return(r), UNCHANGED <<kernel, stream>>, op # "none", r \in File!Results
  PROVE  File!Next
<1>1. File!ReturnResult
  BY QuietFile DEF Return, File!ReturnResult, File!Return, File!fileVars
<1>2. QED
  BY <1>1 DEF File!Next

\* With nothing pending the application sees the disk.
LEMMA Drained ==
  ASSUME StreamInv, Pending = 0
  PROVE  Content = file /\ CurLen = fsize
<1>1. file \in [Index -> Byte] /\ fpos \in Nat /\ next \in Nat /\ fsize \in Nat /\ hole = FALSE
  BY SizesAssumption DEF StreamInv, StreamType, ReadCap
<1>2. CurLen = fsize
  BY <1>1 DEF CurLen, Larger
<1>3. \A i \in Index : ~(mode = "WRITE" /\ i \in fpos .. fpos + next - 1)
  <2>1. (mode = "WRITE" => next = 0) /\ \A i \in Index : i \in Int
    BY SizesAssumption DEF Pending, Index
  <2>2. QED
    BY <1>1, <2>1
<1>4. Content = [i \in Index |-> file[i]]
  BY <1>3 DEF Content
<1>5. QED
  BY <1>1, <1>2, <1>4

LEMMA DrainedNext ==
  ASSUME StreamInv', Pending' = 0
  PROVE  Content' = file' /\ CurLen' = fsize'
<1>1. file' \in [Index -> Byte] /\ fpos' \in Nat /\ next' \in Nat /\ fsize' \in Nat /\ hole' = FALSE
  BY SizesAssumption DEF StreamInv, StreamType, ReadCap
<1>2. CurLen' = fsize'
  BY <1>1 DEF CurLen, Larger
<1>3. \A i \in Index : ~(mode' = "WRITE" /\ i \in fpos' .. fpos' + next' - 1)
  <2>1. (mode' = "WRITE" => next' = 0) /\ \A i \in Index : i \in Int
    BY SizesAssumption DEF Pending, Index
  <2>2. QED
    BY <1>1, <2>1
<1>4. Content' = [i \in Index |-> file'[i]]
  BY <1>3 DEF Content
<1>5. QED
  BY <1>1, <1>2, <1>4

\* A step between two points where nothing is pending.
LEMMA SameFile ==
  ASSUME StreamInv, StreamInv', Pending = 0, Pending' = 0, file' = file, fsize' = fsize
  PROVE  Content' = Content /\ CurLen' = CurLen
BY Drained, DrainedNext

\* A step that neither writes, nor moves, nor returns.
LEMMA SilentStep ==
  ASSUME Content' = Content, CurLen' = CurLen, CurPos' = CurPos, file' = file, fsize' = fsize,
         UNCHANGED <<args, off, got, ret>>
  PROVE  [File!Next]_(File!vars)
BY DEF args, File!vars

LEMMA QuietStep ==
  ASSUME UNCHANGED <<kernel, stream>>, UNCHANGED <<args, off, got, ret>>
  PROVE  [File!Next]_(File!vars)
BY Stutter

----------------------------------------------------------------------------
(* Every step is one of the file, or none.                                 *)

LEMMA CallsImplement == ASSUME FullInv, Calls PROVE File!Next
<1>1. /\ op = "none" /\ UNCHANGED <<kernel, stream>>
      /\ off' = 0 /\ got' = <<>> /\ ret' = 0
  BY DEF Calls, CallWrite, CallPutc, CallRead, CallGetc, CallSeek, CallOther, Begin
<1>2. op' \in {"write", "putc", "read", "getc", "seek", "sync", "purge", "tell", "size", "resize"}
  BY DEF Calls, CallWrite, CallPutc, CallRead, CallGetc, CallSeek, CallOther, Begin
<1>3. src' \in {<<>>} \cup Payloads
  BY DEF Calls, CallWrite, CallPutc, CallRead, CallGetc, CallSeek, CallOther, Begin
<1>4. whence' \in {"set", "cur", "end"} /\ amt' \in Int
  BY SizesAssumption DEF Calls, CallWrite, CallPutc, CallRead, CallGetc, CallSeek, CallOther, Begin
<1>5. File!Call
  BY <1>1, <1>2, <1>3, <1>4, QuietFile DEF File!Call, File!fileVars
<1>6. QED
  BY <1>5 DEF File!Next

\* The bytes of a write that pass the buffer by.
LEMMA WriteDirectImplements == ASSUME WholeWrites, FullInv, FullInv', WriteDirect PROVE File!Next
<1>   DEFINE n == Len(src) - off
<1>1. /\ n \in Nat \ {0} /\ next = 0 /\ next' = 0 /\ mode = "WRITE" /\ mode' = "WRITE"
      /\ file' = [i \in Index |-> IF i - fpos \in 0 .. n - 1 THEN Rest[i - fpos] ELSE file[i]]
      /\ fsize' = Larger(fsize, fpos + n)
      /\ fpos' = fpos + n /\ off' = off + n
      /\ fpos + n <= MaxPos
      /\ UNCHANGED <<args, got, pc, all, ok, ret>>
  BY DirectEffect DEF FullInv
<1>2. StreamInv /\ StreamInv' /\ Pending = 0 /\ Pending' = 0
  BY <1>1 DEF FullInv, IInv, Pending
<1>3. Content = file /\ CurLen = fsize /\ Content' = file' /\ CurLen' = fsize'
  BY <1>2, Drained, DrainedNext
<1>4. CurPos = fpos /\ CurPos' = fpos + n /\ fpos \in Nat /\ fsize \in Nat /\ MaxPos \in Nat
  <2>1. fpos \in Nat /\ fsize \in Nat /\ MaxPos \in Nat
    BY <1>1, <1>2, WritePlace
  <2>2. CurPos = fpos + 0 /\ CurPos' = fpos + n + 0 /\ n \in Nat
    BY <1>1 DEF CurPos
  <2>   HIDE DEF n
  <2>3. QED
    BY <2>1, <2>2
<1>5. off \in Nat /\ Len(src) \in Nat /\ op \in {"write", "putc"}
  BY RestBytes DEF FullInv, WriteDirect, Writing
<1>6. Content' = [i \in Index |-> IF i \in CurPos .. CurPos + n - 1
                                   THEN src[off + 1 + i - CurPos] ELSE Content[i]]
  <2>1. ASSUME NEW i \in Index
        PROVE  (IF i - fpos \in 0 .. n - 1 THEN Rest[i - fpos] ELSE file[i])
                 = (IF i \in fpos .. fpos + n - 1 THEN src[off + 1 + i - fpos] ELSE file[i])
    <3>1. i \in Int
      BY DEF Index
    <3>2. CASE i - fpos \in 0 .. n - 1
      <4>1. i \in fpos .. fpos + n - 1 /\ off + 1 + (i - fpos) = off + 1 + i - fpos
        BY <1>1, <1>4, <1>5, <3>1, <3>2
      <4>2. Rest[i - fpos] = src[off + 1 + (i - fpos)]
        BY <3>2 DEF Rest
      <4>3. QED
        BY <3>2, <4>1, <4>2
    <3>3. CASE ~(i - fpos \in 0 .. n - 1)
      <4>1. ~(i \in fpos .. fpos + n - 1)
        BY <1>1, <1>4, <3>1, <3>3
      <4>2. QED
        BY <3>3, <4>1
    <3>4. QED
      BY <3>2, <3>3
  <2>   HIDE DEF n
  <2>2. QED
    BY <1>1, <1>3, <1>4, <2>1
<1>7. /\ CurLen' = IF CurPos + n > CurLen THEN CurPos + n ELSE CurLen
      /\ fsize' >= fsize /\ fsize' <= CurLen'
  <2>   HIDE DEF n
  <2>1. QED
    BY <1>1, <1>3, <1>4 DEF Larger
<1>8. File!WritesBack(Content')
  BY <1>3, <1>7 DEF File!WritesBack
<1>9. off + n <= Len(src) /\ n \in 1 .. MaxPos
  BY <1>1, <1>4, <1>5
<1>   HIDE DEF n
<1>10. File!Put(n)
  BY <1>1, <1>4, <1>5, <1>6, <1>7, <1>8, <1>9 DEF File!Put, File!argVars, args, Index, File!Index
<1>11. QED
  BY <1>9, <1>10 DEF File!Next

\* The bytes of a write that enter the buffer.
LEMMA WriteCopyImplements == ASSUME FullInv, FullInv', WriteCopy PROVE File!Next
<1>   DEFINE w == Smaller(Size - next, Len(src) - off)
<1>1. /\ StreamInv /\ StreamInv' /\ mode = "WRITE" /\ mode' = mode /\ op \in {"write", "putc"} /\ off < Len(src)
      /\ next < Size
      /\ data' = [i \in Room |-> IF i \in next .. next + w - 1 THEN Rest[i - next] ELSE data[i]]
      /\ next' = next + w /\ off' = off + w
      /\ file' = file /\ fsize' = fsize /\ fpos' = fpos /\ UNCHANGED <<args, got, ret>>
  BY DEF WriteCopy, Writing, kernel, FullInv, IInv
<1>2. off \in Nat /\ Len(src) \in Nat
  BY RestBytes DEF FullInv
<1>3. /\ fpos \in Nat /\ fsize \in Nat /\ MaxPos \in Nat /\ next \in Nat /\ Size <= ReadCap /\ ReadCap \in Nat
      /\ CurPos = fpos + next
  BY <1>1, WritePlace
<1>4. w \in Nat \ {0} /\ next + w <= Size /\ off + w <= Len(src)
  BY <1>1, <1>2, <1>3, SizesAssumption DEF Smaller
<1>   HIDE DEF w
<1>5. CurPos' = CurPos + w /\ CurPos' <= MaxPos /\ w \in 1 .. MaxPos
  <2>1. CurPos' = fpos + (next + w) /\ CurPos' \in 0 .. MaxPos
    BY <1>1 DEF CurPos, StreamInv
  <2>2. QED
    BY <1>3, <1>4, <2>1
<1>6. CurLen' = IF CurPos + w > CurLen THEN CurPos + w ELSE CurLen
  <2>1. hole = FALSE /\ hole' = FALSE /\ Pending = next /\ Pending' = next + w
    BY <1>1 DEF StreamInv, Pending
  <2>2. CurLen = Larger(fsize, IF next > 0 THEN fpos + next ELSE 0)
        /\ CurLen' = Larger(fsize, IF next + w > 0 THEN fpos + (next + w) ELSE 0)
    BY <1>1, <2>1 DEF CurLen
  <2>3. QED
    BY <1>3, <1>4, <2>2 DEF Larger
<1>7. CurLen' >= fsize
  <2>1. CurLen >= fsize /\ CurLen \in Int
    BY <1>1, <1>3 DEF CurLen, Larger, Pending, StreamInv
  <2>2. QED
    BY <1>3, <1>4, <1>6, <2>1
<1>8. ASSUME NEW i \in Index
      PROVE  (IF i \in fpos .. fpos + next + w - 1 THEN data'[i - fpos] ELSE file[i])
               = (IF i \in CurPos .. CurPos + w - 1 THEN src[off + 1 + i - CurPos]
                  ELSE IF i \in fpos .. fpos + next - 1 THEN data[i - fpos] ELSE file[i])
  <2>1. i \in Int
    BY <1>3 DEF Index
  <2>2. CASE i \in CurPos .. CurPos + w - 1
    <3>1. /\ i \in fpos .. fpos + next + w - 1 /\ i - fpos \in next .. next + w - 1 /\ i - fpos \in Room
          /\ (i - fpos) - next \in 0 .. Len(src) - off - 1
          /\ off + 1 + ((i - fpos) - next) = off + 1 + i - CurPos
      BY <1>2, <1>3, <1>4, <2>1, <2>2, SizesAssumption DEF Room
    <3>2. data'[i - fpos] = Rest[(i - fpos) - next]
      BY <1>1, <3>1
    <3>3. Rest[(i - fpos) - next] = src[off + 1 + ((i - fpos) - next)]
      BY <3>1 DEF Rest
    <3>4. QED
      BY <2>2, <3>1, <3>2, <3>3
  <2>3. CASE i \in fpos .. fpos + next - 1
    <3>1. /\ i \in fpos .. fpos + next + w - 1 /\ ~(i - fpos \in next .. next + w - 1) /\ i - fpos \in Room
          /\ ~(i \in CurPos .. CurPos + w - 1)
      BY <1>3, <1>4, <2>1, <2>3, SizesAssumption DEF Room
    <3>2. data'[i - fpos] = data[i - fpos]
      BY <1>1, <3>1
    <3>3. QED
      BY <2>3, <3>1, <3>2
  <2>4. CASE ~(i \in fpos .. fpos + next + w - 1)
    <3>1. ~(i \in CurPos .. CurPos + w - 1) /\ ~(i \in fpos .. fpos + next - 1)
      BY <1>3, <1>4, <2>1, <2>4
    <3>2. QED
      BY <2>4, <3>1
  <2>5. QED
    BY <1>3, <1>4, <2>1, <2>2, <2>3, <2>4
<1>9. Content' = [i \in Index |-> IF i \in CurPos .. CurPos + w - 1
                                   THEN src[off + 1 + i - CurPos] ELSE Content[i]]
  <2>1. Content' = [i \in Index |-> IF i \in fpos .. fpos + next + w - 1 THEN data'[i - fpos] ELSE file[i]]
    <3>1. fpos + (next + w) - 1 = fpos + next + w - 1
      BY <1>3, <1>4
    <3>2. QED
      BY <1>1, <3>1 DEF Content
  <2>2. \A i \in Index : Content[i] = IF i \in fpos .. fpos + next - 1 THEN data[i - fpos] ELSE file[i]
    BY <1>1 DEF Content
  <2>3. QED
    BY <1>8, <2>1, <2>2
<1>10. File!WritesBack(Content') /\ fsize' <= CurLen'
  BY <1>1, <1>3, <1>7 DEF File!WritesBack
<1>11. File!Put(w)
  BY <1>1, <1>4, <1>5, <1>6, <1>9, <1>10 DEF File!Put, File!argVars, args, Index, File!Index
<1>12. QED
  BY <1>5, <1>11 DEF File!Next

\* A flush puts on the disk what the application sees already.
LEMMA FlushImplements == ASSUME WholeWrites, FullInv, FullInv', Flush PROVE File!Next
<1>1. /\ next \in Nat \ {0} /\ next' = 0 /\ mode = "WRITE" /\ mode' = "WRITE"
      /\ file' = [i \in Index |-> IF i - fpos \in 0 .. next - 1 THEN data[i - fpos] ELSE file[i]]
      /\ fsize' = Larger(fsize, fpos + next) /\ fpos' = fpos + next /\ Resume(TRUE)
  BY FlushEffect DEF FullInv
<1>2. StreamInv /\ StreamInv' /\ Pending = next /\ Pending' = 0
  BY <1>1 DEF FullInv, IInv, Pending
<1>3. fpos \in Nat /\ fsize \in Nat /\ MaxPos \in Nat
  BY <1>1, <1>2, WritePlace
<1>4. CurPos' = CurPos
  <2>1. CurPos = fpos + next /\ CurPos' = fpos + next + 0
    BY <1>1 DEF CurPos
  <2>2. QED
    BY <1>1, <1>3, <2>1
<1>5. CurLen = fsize' /\ CurLen' = fsize' /\ fsize' >= fsize
  <2>1. CurLen = Larger(fsize, fpos + next)
    BY <1>1, <1>2 DEF CurLen, StreamInv
  <2>2. QED
    BY <1>1, <1>2, <1>3, <2>1, DrainedNext DEF Larger
<1>6. Content = file' /\ Content' = file'
  <2>1. \A i \in Index : i - fpos \in 0 .. next - 1 <=> i \in fpos .. fpos + next - 1
    BY <1>1, <1>3 DEF Index
  <2>2. Content = [i \in Index |-> IF i \in fpos .. fpos + next - 1 THEN data[i - fpos] ELSE file[i]]
    BY <1>1 DEF Content
  <2>3. Content = file'
    BY <1>1, <2>1, <2>2
  <2>4. QED
    BY <1>2, <2>3, DrainedNext
<1>7. op # "none" /\ UNCHANGED <<args, off, got, ret>>
  BY <1>1 DEF Resume, ResumeSync, ResumeWrite, ResumeRead
<1>8. fsize' \in Int
  BY <1>1, <1>3 DEF Larger
<1>9. File!WriteBack
  BY <1>4, <1>5, <1>6, <1>7, <1>8 DEF File!WriteBack, File!WritesBack, File!argVars, args
<1>10. QED
  BY <1>9 DEF File!Next

\* What a call may return.
LEMMA ResultsOf ==
  /\ op = "write" => File!Results = {off}
  /\ op = "putc" => File!Results = {IF off = 1 THEN 1 ELSE -1}
  /\ op \in {"read", "getc"} => File!Results = {IF Len(got) = 0 THEN -1 ELSE Len(got), Len(got)}
  /\ op = "sync" => File!Results = {0, -1}
  /\ op = "tell" => File!Results = {CurPos}
BY DEF File!Results

\* A write that gives up returns what it counted.
LEMMA ShortResult ==
  ASSUME FullInv, op \in {"write", "putc"}, off < Len(src)
  PROVE  Short \in File!Results
<1>1. CASE op = "write"
  BY <1>1, ResultsOf DEF Short
<1>2. CASE op = "putc"
  <2>1. Len(src) = 1 /\ off \in Nat
    BY <1>2, RestBytes DEF FullInv, Progress
  <2>2. off # 1
    BY <2>1
  <2>3. QED
    BY <1>2, <2>2, ResultsOf DEF Short
<1>3. QED
  BY <1>1, <1>2

\* A read that gives up with nothing returns -1.
LEMMA NothingRead ==
  ASSUME op \in {"read", "getc"}, got = <<>>
  PROVE  -1 \in File!Results
BY ResultsOf

LEMMA WriteImplements ==
  ASSUME WholeWrites, FullInv, FullInv',
         WriteSwitch \/ WriteFlush \/ WriteDirect \/ WriteDirectFail \/ WriteCopy \/ WriteDone
  PROVE  [File!Next]_(File!vars)
<1>1. CASE WriteSwitch
  <2>1. /\ StreamInv /\ StreamInv' /\ mode = "READ" /\ mode' = "WRITE" /\ next' = 0
        /\ file' = file /\ fsize' = fsize /\ UNCHANGED <<args, off, got, ret>>
    BY <1>1 DEF WriteSwitch, ToWrite, FullInv, IInv
  <2>2. Content' = Content /\ CurLen' = CurLen
    BY <2>1, SameFile DEF Pending
  <2>3. CurPos' = CurPos
    BY <1>1, WriteSwitchInv DEF FullInv
  <2>4. QED
    BY <2>1, <2>2, <2>3, SilentStep
<1>2. CASE WriteFlush
  BY <1>2, QuietStep DEF WriteFlush
<1>3. CASE WriteDirect
  BY <1>3, WriteDirectImplements
<1>4. CASE WriteDirectFail
  <2>1. Return(Short) /\ UNCHANGED <<kernel, stream>> /\ op \in {"write", "putc"} /\ off < Len(src)
    BY <1>4 DEF WriteDirectFail, Writing
  <2>2. QED
    BY <2>1, ShortResult, Returns
<1>5. CASE WriteCopy
  BY <1>5, WriteCopyImplements
<1>6. CASE WriteDone
  <2>1. Return(off) /\ UNCHANGED <<kernel, stream>> /\ op \in {"write", "putc"} /\ off = Len(src)
    BY <1>6 DEF WriteDone
  <2>2. op = "putc" => off = 1
    BY <2>1 DEF FullInv, Progress
  <2>3. off \in File!Results
    BY <2>1, <2>2, ResultsOf
  <2>4. QED
    BY <2>1, <2>3, Returns
<1>7. QED
  BY <1>1, <1>2, <1>3, <1>4, <1>5, <1>6

LEMMA FlushFailImplements == ASSUME FullInv, FlushFail PROVE [File!Next]_(File!vars)
<1>1. UNCHANGED <<kernel, stream>> /\ Resume(FALSE) /\ pc = "flush" /\ mode = "WRITE"
  BY DEF FlushFail, FullInv, IInv, CallInv
<1>2. CASE ResumeSync(FALSE)
  BY <1>1, <1>2, QuietStep DEF ResumeSync
<1>3. CASE op \in {"write", "putc"} /\ Return(Short)
  <2>1. off < Len(src)
    BY <1>1, <1>3 DEF FullInv, Progress
  <2>2. QED
    BY <1>1, <1>3, <2>1, ShortResult, Returns
<1>4. CASE op \in {"read", "getc"} /\ Return(-1)
  <2>1. got = <<>>
    BY <1>1, <1>4 DEF FullInv, Progress
  <2>2. QED
    BY <1>1, <1>4, <2>1, NothingRead, Returns
<1>5. QED
  BY <1>1, <1>2, <1>3, <1>4 DEF Resume, GiveUp

\* Bytes handed to a reader move the position past them and nothing else.
LEMMA Hands ==
  ASSUME StreamInv, StreamInv', mode = "READ", mode' = "READ", op \in {"read", "getc"},
         NEW r \in Nat \ {0}, Len(got) + r <= amt, CurPos \in Nat, CurPos + r <= fsize, CurPos' = CurPos + r,
         got' = got \o [j \in 1 .. r |-> file[CurPos + j - 1]],
         file' = file, fsize' = fsize, UNCHANGED <<args, off, ret>>
  PROVE  File!Next
<1>1. Pending = 0 /\ Pending' = 0
  BY DEF Pending
<1>2. Content = file /\ CurLen = fsize /\ Content' = file /\ CurLen' = fsize
  BY <1>1, Drained, DrainedNext
<1>3. fsize \in 0 .. MaxPos
  BY DEF StreamInv, StreamType
<1>4. File!Get(r)
  BY <1>2 DEF File!Get, File!argVars, args
<1>5. r \in 1 .. MaxPos
  BY <1>3, SizesAssumption
<1>6. QED
  BY <1>4, <1>5 DEF File!Next

\* What was buffered is what the file has at the position.
LEMMA ReadCopyImplements == ASSUME FullInv, FullInv', ReadCopy PROVE File!Next
<1>   DEFINE r == Smaller(Unread, Wanted)
<1>1. /\ StreamInv /\ StreamInv' /\ op \in {"read", "getc"} /\ mode = "READ" /\ mode' = "READ" /\ ~synced
      /\ Unread > 0 /\ Wanted > 0
      /\ got' = got \o [j \in 1 .. r |-> data[next + j - 1]]
      /\ file' = file /\ fsize' = fsize /\ UNCHANGED <<args, off, ret>>
  BY DEF ReadCopy, Reading, kernel, FullInv, IInv
<1>2. CurPos' = CurPos + r
  BY ReadCopyInv DEF FullInv
<1>3. /\ next <= endb /\ Unread \in Nat /\ Unread = endb - next /\ CurPos = here - Unread /\ CurPos \in Nat
      /\ here - endb >= 0 /\ ReadCap \in Nat
  BY <1>1, ReadPlace
<1>4. next \in Nat /\ endb \in Nat /\ here \in Nat /\ fsize \in Nat
  BY <1>1, <1>3 DEF StreamInv, StreamType
<1>5. Wanted = amt - Len(got) /\ amt \in Nat /\ Len(got) \in Nat
  BY <1>1 DEF Wanted, FullInv, IInv, CallInv, CallType
<1>6. r \in Nat \ {0} /\ r <= Unread /\ Len(got) + r <= amt
  BY <1>1, <1>3, <1>5 DEF Smaller
<1>   HIDE DEF r
<1>7. here <= fsize /\ \A i \in 0 .. endb - 1 : data[i] = file[here - endb + i]
  <2>1. endb > 0 /\ here - endb + endb = here
    BY <1>1, <1>3, <1>4
  <2>2. QED
    BY <1>1, <2>1 DEF StreamInv, BufferCoherent
<1>8. CurPos + r <= fsize
  BY <1>3, <1>4, <1>6, <1>7
<1>9. \A j \in 1 .. r : data[next + j - 1] = file[CurPos + j - 1]
  <2>1. ASSUME NEW j \in 1 .. r
        PROVE  next + j - 1 \in 0 .. endb - 1 /\ here - endb + (next + j - 1) = CurPos + j - 1
    BY <1>3, <1>4, <1>6
  <2>2. QED
    BY <1>7, <2>1
<1>10. got' = got \o [j \in 1 .. r |-> file[CurPos + j - 1]]
  <2>1. [j \in 1 .. r |-> data[next + j - 1]] = [j \in 1 .. r |-> file[CurPos + j - 1]]
    BY <1>9
  <2>2. QED
    BY <1>1, <2>1
<1>11. QED
  BY <1>1, <1>2, <1>3, <1>6, <1>8, <1>10, Hands

\* A read that found nothing returns what it has.
LEMMA ExhaustedImplements ==
  ASSUME FullInv, FullInv', Empty, NEW r, r = 0, Advance(r), Exhausted(r), mode' = mode,
         CurPos' = CurPos
  PROVE  File!Next
<1>1. /\ StreamInv /\ StreamInv' /\ mode = "READ" /\ mode' = "READ" /\ op \in {"read", "getc"}
      /\ file' = file /\ fsize' = fsize /\ Return(ReadResult)
  BY DEF Empty, Reading, Advance, Exhausted, FullInv, IInv
<1>2. Content' = Content /\ CurLen' = CurLen
  BY <1>1, SameFile DEF Pending
<1>3. ReadResult \in File!Results
  <2>1. CASE op = "read"
    BY <2>1, ResultsOf DEF ReadResult
  <2>2. CASE op = "getc"
    <3>1. amt = 1 /\ amt - Len(got) > 0 /\ Len(got) \in Nat
      BY <2>2 DEF Empty, Wanted, FullInv, Progress, IInv, CallInv, CallType
    <3>2. Len(got) = 0
      BY <3>1
    <3>3. QED
      BY <2>2, <3>2, ResultsOf DEF ReadResult
  <2>3. QED
    BY <1>1, <2>1, <2>2
<1>4. File!ReturnResult
  BY <1>1, <1>2, <1>3 DEF Return, File!ReturnResult, File!Return, File!fileVars
<1>5. QED
  BY <1>4 DEF File!Next

\* Straight from the kernel, at the position.
LEMMA ReadDirectImplements == ASSUME FullInv, FullInv', ReadDirect PROVE File!Next
<1>1. Empty /\ next' = 0 /\ endb' = 0 /\ mode' = mode /\ synced' = synced
  BY DEF ReadDirect
<1>2. /\ StreamInv /\ StreamInv' /\ mode = "READ" /\ ~synced /\ op \in {"read", "getc"}
      /\ fsize \in 0 .. MaxPos /\ fpos \in 0 .. MaxPos /\ here = fpos /\ MaxPos \in Nat
      /\ got \in Seq(Byte) /\ amt \in Nat /\ Wanted \in Nat /\ Wanted = amt - Len(got)
  BY <1>1, EmptyPlace DEF FullInv, IInv
<1>3. PICK r \in RdCounts(fpos, Wanted) :
        /\ Advance(r)
        /\ \/ Exhausted(r)
           \/ r > 0 /\ got' = got \o [j \in 1 .. r |-> file[fpos + j - 1]] /\ Continue
  BY DEF ReadDirect
<1>4. r \in 0 .. Wanted /\ (r > 0 => fpos + r <= fsize)
  BY <1>2, <1>3, RdBound
<1>5. CurPos = fpos /\ CurPos' = fpos + r
  <2>1. Unread = 0 /\ CurPos = fpos - Unread /\ CurPos' = (fpos + r) - (0 - 0)
    BY <1>1, <1>2, <1>3 DEF Empty, CurPos, Unread, Advance
  <2>2. QED
    BY <1>2, <1>4, <2>1
<1>6. CASE Exhausted(r)
  <2>1. r = 0 /\ CurPos' = CurPos
    BY <1>2, <1>5, <1>6 DEF Exhausted
  <2>2. QED
    BY <1>1, <1>3, <1>6, <2>1, ExhaustedImplements
<1>7. CASE r > 0 /\ got' = got \o [j \in 1 .. r |-> file[fpos + j - 1]] /\ Continue
  <2>1. /\ r \in Nat \ {0} /\ Len(got) + r <= amt /\ CurPos \in Nat /\ CurPos + r <= fsize
        /\ got' = got \o [j \in 1 .. r |-> file[CurPos + j - 1]]
    BY <1>2, <1>4, <1>5, <1>7
  <2>2. file' = file /\ fsize' = fsize /\ UNCHANGED <<args, off, ret>> /\ mode' = "READ"
    BY <1>1, <1>2, <1>3, <1>7 DEF Advance, Continue
  <2>3. QED
    BY <1>2, <1>5, <2>1, <2>2, Hands
<1>8. QED
  BY <1>3, <1>6, <1>7

\* Filling the buffer does not show.
LEMMA ReadFillImplements == ASSUME FullInv, FullInv', ReadFill PROVE [File!Next]_(File!vars)
<1>1. Empty /\ mode' = mode /\ synced' = synced
  BY DEF ReadFill
<1>2. /\ StreamInv /\ StreamInv' /\ mode = "READ" /\ ~synced /\ op \in {"read", "getc"}
      /\ fsize \in 0 .. MaxPos /\ fpos \in 0 .. MaxPos /\ ReadCap \in Nat
  BY <1>1, EmptyPlace DEF FullInv, IInv
<1>3. PICK r \in RdCounts(fpos, ReadCap) :
        /\ Advance(r) /\ next' = 0 /\ endb' = r
        /\ Exhausted(r) \/ (Continue /\ UNCHANGED got)
  BY DEF ReadFill
<1>4. r \in Nat
  BY <1>2, <1>3, RdBound
<1>5. CurPos' = CurPos
  <2>1. Unread = 0 /\ CurPos = fpos - Unread /\ CurPos' = (fpos + r) - (r - 0)
    BY <1>1, <1>2, <1>3 DEF Empty, CurPos, Unread, Advance
  <2>2. QED
    BY <1>2, <1>4, <2>1
<1>6. CASE Exhausted(r)
  <2>1. r = 0
    BY <1>6 DEF Exhausted
  <2>2. QED
    BY <1>1, <1>3, <1>5, <1>6, <2>1, ExhaustedImplements
<1>7. CASE Continue /\ UNCHANGED got
  <2>1. file' = file /\ fsize' = fsize /\ UNCHANGED <<args, off, got, ret>> /\ mode' = "READ"
    BY <1>1, <1>2, <1>3, <1>7 DEF Advance, Continue
  <2>2. Content' = Content /\ CurLen' = CurLen
    BY <1>2, <2>1, SameFile DEF Pending
  <2>3. QED
    BY <1>5, <2>1, <2>2, SilentStep
<1>8. QED
  BY <1>3, <1>6, <1>7

LEMMA ResyncImplements == ASSUME FullInv, FullInv', NEW o, Resync(o) PROVE [File!Next]_(File!vars)
<1>1. /\ StreamInv /\ StreamInv' /\ mode = "READ" /\ mode' = "READ" /\ file' = file /\ fsize' = fsize
      /\ Unsync /\ flag' = flag /\ UNCHANGED <<args, off, got, ret>>
  BY DEF Resync, Unsync, FullInv, IInv
<1>2. Content' = Content /\ CurLen' = CurLen
  BY <1>1, SameFile DEF Pending
<1>3. CurPos' = CurPos
  BY <1>1, UnsyncStream
<1>4. QED
  BY <1>1, <1>2, <1>3, SilentStep

LEMMA ReadImplements ==
  ASSUME FullInv, FullInv',
         ReadFlush \/ ReadSwitch \/ ReadUnsync \/ ReadCopy \/ ReadDirect \/ ReadFill \/ ReadDone
  PROVE  [File!Next]_(File!vars)
<1>1. CASE ReadFlush
  BY <1>1, QuietStep DEF ReadFlush
<1>2. CASE ReadSwitch
  <2>1. /\ StreamInv /\ StreamInv' /\ mode = "WRITE" /\ mode' = "READ" /\ next' = 0 /\ endb' = 0 /\ next = 0
        /\ synced' = FALSE
        /\ file' = file /\ fsize' = fsize /\ fpos' = fpos /\ UNCHANGED <<args, off, got, ret>>
    BY <1>2 DEF ReadSwitch, ToRead, FullInv, IInv, Progress, kernel
  <2>2. Content' = Content /\ CurLen' = CurLen
    BY <2>1, SameFile DEF Pending
  <2>3. CurPos' = CurPos
    <3>1. CurPos = fpos + 0 /\ CurPos' = fpos - (0 - 0) /\ fpos \in Nat
      BY <2>1, WritePlace DEF CurPos, Unread
    <3>2. QED
      BY <3>1
  <2>4. QED
    BY <2>1, <2>2, <2>3, SilentStep
<1>3. CASE ReadUnsync
  BY <1>3, ResyncImplements DEF ReadUnsync
<1>4. CASE ReadCopy
  BY <1>4, ReadCopyImplements
<1>5. CASE ReadDirect
  BY <1>5, ReadDirectImplements
<1>6. CASE ReadFill
  BY <1>6, ReadFillImplements
<1>7. CASE ReadDone
  <2>1. op \in {"read", "getc"} /\ UNCHANGED <<kernel, stream>> /\ Return(Len(got))
    BY <1>7 DEF ReadDone, Reading
  <2>2. QED
    BY <2>1, ResultsOf, Returns
<1>8. QED
  BY <1>1, <1>2, <1>3, <1>4, <1>5, <1>6, <1>7

LEMMA SyncImplements ==
  ASSUME FullInv, FullInv', SyncRead \/ SyncWrite \/ SyncHole \/ SyncDone
  PROVE  [File!Next]_(File!vars)
<1>1. CASE SyncRead
  <2>1. /\ StreamInv /\ StreamInv' /\ mode = "READ" /\ mode' = "READ"
        /\ file' = file /\ fsize' = fsize /\ UNCHANGED <<args, off, got, ret>>
    BY <1>1 DEF SyncRead, FullInv, IInv
  <2>2. Content' = Content /\ CurLen' = CurLen
    BY <2>1, SameFile DEF Pending
  <2>3. CurPos' = CurPos
    BY <1>1, SyncReadInv DEF FullInv
  <2>4. QED
    BY <2>1, <2>2, <2>3, SilentStep
<1>2. CASE SyncWrite
  BY <1>2, QuietStep DEF SyncWrite
<1>3. CASE SyncHole
  <2>1. hole = FALSE /\ hole' = FALSE
    BY <1>3 DEF FullInv, IInv, StreamInv, SyncHole
  <2>2. ~hole
    BY <2>1
  <2>3. UNCHANGED <<kernel, stream>> /\ UNCHANGED <<args, off, got, ret>>
    BY <1>3, <2>1, <2>2 DEF SyncHole, stream
  <2>4. QED
    BY <2>3, QuietStep
<1>4. CASE SyncDone
  <2>1. op = "sync" /\ UNCHANGED <<kernel, stream>> /\ Return(IF ok THEN 0 ELSE -1)
    BY <1>4 DEF SyncDone
  <2>2. (IF ok THEN 0 ELSE -1) \in File!Results
    BY <2>1, ResultsOf
  <2>3. QED
    BY <2>1, <2>2, Returns
<1>5. QED
  BY <1>1, <1>2, <1>3, <1>4

\* A seek returns where it went, or a failure that moved nothing.
LEMMA SeekReturns ==
  ASSUME op = "seek", NEW r, Return(r),
         Content' = Content, CurLen' = CurLen, file' = file, fsize' = fsize,
         \/ SeekGoal >= 0 /\ CurPos' = SeekGoal /\ r = SeekGoal
         \/ r < 0 /\ CurPos' = CurPos
  PROVE  File!Next
<1>1. File!Target = SeekGoal
  BY DEF File!Target, SeekGoal
<1>2. File!ReturnSeek
  BY <1>1 DEF File!ReturnSeek, File!Return, Return
<1>3. QED
  BY <1>2 DEF File!Next

\* In a READ stream that is not synced, and when nothing is pending, the
\* places the code computes from f->here are those of the caller.
LEMMA SoftGoal ==
  ASSUME FullInv, op = "seek", mode = "READ", ~synced, whence # "end"
  PROVE  SoftTarget = SeekGoal
<1>1. StreamInv /\ amt \in Int /\ whence \in {"set", "cur", "end"}
  BY DEF FullInv, IInv, CallInv, CallType
<1>2. CurPos = here - Unread /\ here \in Nat /\ Unread \in Int /\ CurPos \in Int
  <2>1. CurPos = here - Unread /\ here \in Nat
    BY <1>1, ReadPlace, Lengths
  <2>2. Unread \in Int /\ CurPos \in Int
    BY <1>1, Lengths, SizesAssumption DEF Unread, StreamInv
  <2>3. QED
    BY <2>1, <2>2
<1>3. CASE whence = "set"
  BY <1>1, <1>3 DEF SoftTarget, SeekGoal, SeekBase
<1>4. CASE whence = "cur"
  <2>1. SoftTarget = here + (-Unread) + amt /\ SeekGoal = amt + CurPos
    BY <1>4 DEF SoftTarget, SeekGoal, SeekBase
  <2>2. QED
    BY <1>1, <1>2, <2>1
<1>5. QED
  BY <1>1, <1>3, <1>4

LEMMA HardGoal ==
  ASSUME FullInv, SeekHard
  PROVE  amt + (IF whence = "cur" THEN here ELSE SeekBase) = SeekGoal
<1>1. StreamInv /\ amt \in Int /\ whence \in {"set", "cur", "end"} /\ Pending = 0 /\ (mode = "WRITE" \/ whence = "end")
  BY DEF FullInv, IInv, CallInv, CallType, Progress, SeekHard
<1>2. CurLen = fsize
  BY <1>1, Drained
<1>3. CASE whence = "set"
  BY <1>3 DEF SeekGoal, SeekBase
<1>4. CASE whence = "end"
  BY <1>2, <1>4 DEF SeekGoal, SeekBase
<1>5. CASE whence = "cur"
  <2>1. mode = "WRITE" /\ next = 0 /\ here = fpos /\ fpos \in Nat /\ CurPos = fpos + next
    BY <1>1, <1>5, WritePlace DEF Pending
  <2>2. QED
    BY <1>5, <2>1 DEF SeekGoal
<1>6. QED
  BY <1>1, <1>3, <1>4, <1>5

LEMMA SeekStartImplements == ASSUME FullInv, SeekStart PROVE [File!Next]_(File!vars)
<1>1. op = "seek" /\ UNCHANGED <<kernel, stream>>
  BY DEF SeekStart
<1>2. CASE SeekStay /\ Return(here + next)
  <2>1. StreamInv /\ mode = "WRITE" /\ whence # "end" /\ SeekBase + amt = here + next /\ amt \in Int
        /\ whence \in {"set", "cur", "end"}
    BY <1>2 DEF SeekStay, FullInv, IInv, CallInv, CallType
  <2>2. here = fpos /\ fpos \in Nat /\ next \in Nat /\ CurPos = fpos + next
    BY <2>1, WritePlace
  <2>3. SeekGoal = here + next
    <3>1. CASE whence = "set"
      BY <2>1, <2>2, <3>1 DEF SeekGoal, SeekBase
    <3>2. CASE whence = "cur"
      <4>1. SeekBase = here + next /\ SeekGoal = amt + CurPos
        BY <2>1, <3>2 DEF SeekGoal, SeekBase
      <4>2. QED
        BY <2>1, <2>2, <4>1
    <3>3. QED
      BY <2>1, <3>1, <3>2
  <2>4. SeekGoal >= 0 /\ CurPos' = SeekGoal
    BY <1>1, <2>2, <2>3, QuietFile
  <2>5. QED
    BY <1>1, <1>2, <2>3, <2>4, QuietFile, SeekReturns
<1>3. CASE UNCHANGED <<args, off, got, ok, ret>>
  BY <1>1, <1>3, QuietStep
<1>4. QED
  BY <1>2, <1>3 DEF SeekStart

LEMMA SeekSyncedImplements == ASSUME FullInv, SeekSynced PROVE [File!Next]_(File!vars)
<1>1. op = "seek" /\ UNCHANGED <<kernel, stream>>
  BY DEF SeekSynced
<1>2. CASE UNCHANGED <<args, off, got, all, ok, ret>>
  BY <1>1, <1>2, QuietStep
<1>3. CASE Return(-1)
  <2>1. -1 < 0
    OBVIOUS
  <2>2. QED
    BY <1>1, <1>3, <2>1, QuietFile, SeekReturns
<1>4. QED
  BY <1>2, <1>3 DEF SeekSynced

LEMMA SeekHardImplements == ASSUME FullInv, FullInv', SeekHard PROVE File!Next
<1>   DEFINE p == amt + (IF whence = "cur" THEN here ELSE SeekBase)
<1>1. /\ p \in Int
      /\ p < 0 => Return(-1) /\ UNCHANGED <<kernel, stream>>
      /\ ~(p < 0) => Return(p) /\ CurPos' = p /\ next' = 0
  BY SeekHardInv DEF FullInv
<1>2. p = SeekGoal
  BY HardGoal
<1>3. op = "seek" /\ file' = file /\ fsize' = fsize /\ Pending = 0 /\ StreamInv /\ StreamInv'
  BY DEF SeekHard, FullInv, Progress, IInv
<1>   HIDE DEF p
<1>4. CASE p < 0
  <2>1. -1 < 0
    OBVIOUS
  <2>2. QED
    BY <1>1, <1>3, <1>4, <2>1, QuietFile, SeekReturns
<1>5. CASE ~(p < 0)
  <2>1. Pending' = 0
    BY <1>1, <1>5 DEF Pending
  <2>2. Content' = Content /\ CurLen' = CurLen
    BY <1>3, <2>1, SameFile
  <2>3. SeekGoal >= 0 /\ CurPos' = SeekGoal
    BY <1>1, <1>2, <1>5
  <2>4. QED
    BY <1>1, <1>2, <1>3, <1>5, <2>2, <2>3, SeekReturns
<1>6. QED
  BY <1>4, <1>5

LEMMA SeekSoftImplements ==
  ASSUME FullInv, FullInv', SeekNear \/ SeekNegative \/ SeekFar
  PROVE  File!Next
<1>1. /\ op = "seek" /\ mode = "READ" /\ ~synced /\ whence # "end" /\ file' = file /\ fsize' = fsize /\ mode' = mode
      /\ StreamInv /\ StreamInv' /\ Return(SoftTarget)
  BY DEF SeekNear, SeekNegative, SeekFar, FullInv, IInv, CallInv, kernel, stream, buffer
<1>2. SoftTarget = SeekGoal
  BY <1>1, SoftGoal
<1>3. Content' = Content /\ CurLen' = CurLen
  BY <1>1, SameFile DEF Pending
<1>4. CASE SeekNear \/ SeekFar
  <2>1. CurPos' = SoftTarget /\ SoftTarget \in 0 .. MaxPos
    BY <1>4, SeekNearInv, SeekFarInv DEF FullInv
  <2>2. SeekGoal >= 0
    BY <1>2, <2>1
  <2>3. QED
    BY <1>1, <1>2, <1>3, <2>1, <2>2, SeekReturns
<1>5. CASE SeekNegative
  <2>1. SoftTarget < 0 /\ UNCHANGED <<kernel, stream>>
    BY <1>5 DEF SeekNegative
  <2>2. QED
    BY <1>1, <1>3, <2>1, QuietFile, SeekReturns
<1>6. QED
  BY <1>4, <1>5

LEMMA SeekImplements ==
  ASSUME FullInv, FullInv',
         SeekUnsync \/ SeekStart \/ SeekSynced \/ SeekHard \/ SeekNear \/ SeekNegative \/ SeekFar
  PROVE  [File!Next]_(File!vars)
BY ResyncImplements, SeekStartImplements, SeekSyncedImplements, SeekHardImplements, SeekSoftImplements DEF SeekUnsync

LEMMA PurgeImplements == ASSUME FullInv, FullInv', Purge PROVE File!Next
<1>1. /\ op = "purge" /\ Return(0) /\ next' = 0 /\ file' = file /\ fsize' = fsize /\ StreamInv'
  BY DEF Purge, FullInv, IInv
<1>2. Content' = file /\ CurLen' = fsize
  BY <1>1, DrainedNext DEF Pending
<1>3. CurPos' \in 0 .. CurPos
  BY PurgeInv DEF FullInv
<1>4. File!ReturnPurge
  BY <1>1, <1>2, <1>3 DEF File!ReturnPurge, File!Return, Return
<1>5. QED
  BY <1>4 DEF File!Next

LEMMA TellImplements == ASSUME FullInv, Tell PROVE File!Next
<1>1. /\ op = "tell" /\ ~synced /\ StreamInv /\ mode \in {"READ", "WRITE"} /\ UNCHANGED <<kernel, stream>>
      /\ Return(here + (IF mode = "WRITE" THEN next ELSE -Unread))
  BY DEF Tell, FullInv, IInv, StreamInv, StreamType
<1>2. here + (IF mode = "WRITE" THEN next ELSE -Unread) = CurPos
  <2>1. CASE mode = "WRITE"
    BY <1>1, <2>1, WritePlace
  <2>2. CASE mode = "READ"
    <3>1. CurPos = here - Unread /\ here \in Int /\ Unread \in Int
      BY <1>1, <2>2, ReadPlace, Lengths
    <3>2. QED
      BY <2>2, <3>1
  <2>3. QED
    BY <1>1, <2>1, <2>2
<1>3. QED
  BY <1>1, <1>2, ResultsOf, Returns

LEMMA FileSizeImplements == ASSUME FullInv, FullInv', FileSize PROVE File!Next
<1>1. /\ op = "size" /\ mode' = mode /\ file' = file /\ fsize' = fsize /\ fpos' = fpos /\ here' = here
      /\ synced' = synced /\ data' = data /\ next' = next /\ endb' = endb /\ hole' = hole
      /\ extent' = Larger(extent, here)
      /\ Return(IF mode = "WRITE" THEN Larger(extent', here + next) ELSE extent')
  BY DEF FileSize, kernel, buffer
<1>2. Content' = Content /\ CurLen' = CurLen /\ CurPos' = CurPos
  BY <1>1 DEF Content, CurLen, CurPos, Pending, Unread
<1>3. StreamInv /\ mode \in {"READ", "WRITE"} /\ hole = FALSE /\ here = fpos
  BY DEF FullInv, IInv, StreamInv, StreamType, PositionsAgree
<1>4. fpos \in Nat /\ next \in Nat /\ fsize \in Nat /\ extent' \in Nat /\ extent' >= fsize
  <2>1. fpos \in Nat /\ next \in Nat /\ fsize \in Nat /\ here \in Nat /\ extent \in Nat /\ extent >= fsize
    BY Lengths
  <2>2. QED
    BY <1>1, <2>1 DEF Larger
<1>5. (IF mode = "WRITE" THEN Larger(extent', here + next) ELSE extent') >= CurLen
  <2>1. CASE mode = "WRITE"
    <3>1. CurLen = Larger(fsize, IF next > 0 THEN fpos + next ELSE 0)
      BY <1>3, <2>1 DEF CurLen, Pending
    <3>2. QED
      BY <1>3, <1>4, <2>1, <3>1 DEF Larger
  <2>2. CASE mode = "READ"
    <3>1. CurLen = fsize
      BY <1>3, <2>2, Drained DEF Pending
    <3>2. QED
      BY <1>4, <2>2, <3>1
  <2>3. QED
    BY <1>3, <2>1, <2>2
<1>6. File!ReturnSize
  BY <1>1, <1>2, <1>5 DEF File!ReturnSize, File!Return, File!fileVars, Return
<1>7. QED
  BY <1>6 DEF File!Next

\* Every step of the stream is a step of the file, or changes nothing of it.
LEMMA StepImplements ==
  ASSUME WholeWrites, FullInv, FullInv', [Next]_vars
  PROVE  [File!Next]_(File!vars)
<1>1. Calls => [File!Next]_(File!vars)
  BY CallsImplement
<1>2. ASSUME Step
      PROVE  [File!Next]_(File!vars)
  <2>1. WriteSwitch \/ WriteFlush \/ WriteDirect \/ WriteDirectFail \/ WriteCopy \/ WriteDone
          => [File!Next]_(File!vars)
    BY WriteImplements
  <2>2. Flush \/ FlushFail => [File!Next]_(File!vars)
    BY FlushImplements, FlushFailImplements
  <2>3. ReadFlush \/ ReadSwitch \/ ReadUnsync \/ ReadCopy \/ ReadDirect \/ ReadFill \/ ReadDone
          => [File!Next]_(File!vars)
    BY ReadImplements
  <2>4. SyncRead \/ SyncWrite \/ SyncHole \/ SyncDone => [File!Next]_(File!vars)
    BY SyncImplements
  <2>5. SeekUnsync \/ SeekStart \/ SeekSynced \/ SeekHard \/ SeekNear \/ SeekNegative \/ SeekFar
          => [File!Next]_(File!vars)
    BY SeekImplements
  <2>6. Purge \/ TellUnsync \/ Tell \/ FileSize => [File!Next]_(File!vars)
    BY PurgeImplements, ResyncImplements, TellImplements, FileSizeImplements DEF TellUnsync
  <2>7. QED
    BY <1>2, <2>1, <2>2, <2>3, <2>4, <2>5, <2>6 DEF Step
<1>3. UNCHANGED vars => [File!Next]_(File!vars)
  BY QuietStep DEF vars
<1>4. QED
  BY <1>1, <1>2, <1>3 DEF Next

LEMMA InitImplements == ASSUME Init PROVE File!Init
<1>1. PICK c \in Initial :
        /\ Len(c) <= MaxPos
        /\ file = [i \in Index |-> IF i < Len(c) THEN c[i + 1] ELSE Zero]
        /\ fsize = Len(c)
  BY DEF Init
<1>2. FullInv /\ StreamInv /\ Pending = 0
  BY InitFull DEF Init, Pending, FullInv, IInv
<1>3. Content = file /\ CurLen = fsize /\ file \in [Index -> Byte] /\ fsize \in 0 .. MaxPos
  BY <1>2, Drained DEF StreamInv, StreamType
<1>4. \A i \in Index : i >= fsize => file[i] = Zero
  <2>1. \A i \in Index : i \in Int
    BY SizesAssumption DEF Index
  <2>2. QED
    BY <1>1, <1>3, <2>1
<1>5. CurPos = 0
  BY DEF Init, CurPos, Unread
<1>6. QED
  BY <1>3, <1>4, <1>5 DEF Init, File!Init, File!Index, Index

----------------------------------------------------------------------------
(* The theorems.                                                           *)

\* The invariant, with what each call knows of its buffer, holds always.
THEOREM FullInductive == ASSUME NoZero, WholeWrites PROVE Spec => []FullInv
<1>1. Init => FullInv
  BY InitFull
<1>2. FullInv /\ [Next]_vars => FullInv'
  BY FullStep
<1>3. QED
  BY <1>1, <1>2, PTL DEF Spec

\* Only SyncDone returns from a sfsync.
LEMMA SyncReturns ==
  ASSUME FullInv, Step, op = "sync", op' = "none"
  PROVE  SyncDone
<1>1. ~(WriteSwitch \/ WriteFlush \/ WriteDirect \/ WriteDirectFail \/ WriteCopy \/ WriteDone)
  BY DEF WriteSwitch, WriteFlush, WriteDirect, WriteDirectFail, WriteCopy, WriteDone, Writing
<1>2. ~(Flush \/ FlushFail)
  BY DEF Flush, FlushFail, FlushAgain, Resume, ResumeSync, ResumeWrite, ResumeRead, GiveUp, args
<1>3. ~(ReadFlush \/ ReadSwitch \/ ReadUnsync \/ ReadCopy \/ ReadDirect \/ ReadFill \/ ReadDone)
  BY DEF ReadFlush, ReadSwitch, ReadUnsync, ReadCopy, ReadDirect, ReadFill, ReadDone, Reading, Empty, Resync
<1>4. ~(SyncRead \/ SyncWrite \/ SyncHole)
  BY DEF SyncRead, SyncWrite, SyncHole, args
<1>5. ~(SeekUnsync \/ SeekStart \/ SeekSynced \/ SeekHard \/ SeekNear \/ SeekNegative \/ SeekFar)
  BY DEF SeekUnsync, SeekStart, SeekSynced, SeekHard, SeekNear, SeekNegative, SeekFar, Resync
<1>6. ~(Purge \/ TellUnsync \/ Tell \/ FileSize)
  BY DEF Purge, TellUnsync, Tell, FileSize, Resync
<1>7. QED
  BY <1>1, <1>2, <1>3, <1>4, <1>5, <1>6 DEF Step

LEMMA SyncStep ==
  ASSUME FullInv, FullInv', Next, op = "sync", op' = "none", ret' = 0
  PROVE  Pending' = 0 /\ ~hole' /\ fpos' = CurPos'
<1>1. Step
  BY DEF Next, Calls, CallWrite, CallPutc, CallRead, CallGetc, CallSeek, CallOther, Begin
<1>2. SyncDone
  BY <1>1, SyncReturns
<1>3. UNCHANGED <<kernel, stream>> /\ pc = "done" /\ ret' = IF ok THEN 0 ELSE -1
  BY <1>2 DEF SyncDone, Return
<1>4. ok
  BY <1>3
<1>5. Pending = 0 /\ fpos = CurPos /\ hole' = FALSE
  BY <1>3, <1>4 DEF FullInv, Progress, IInv, StreamInv
<1>6. Pending' = Pending /\ fpos' = fpos /\ CurPos' = CurPos
  BY <1>3, QuietFile DEF kernel, stream, buffer, Pending
<1>7. QED
  BY <1>5, <1>6

\* A sfsync that reports success leaves nothing in the buffer and the kernel at
\* the caller's position, after any earlier failures and short reads, for
\* every size of the buffer: whoever inherits the descriptor goes on from there.
THEOREM SyncDurableAlways == ASSUME NoZero, WholeWrites PROVE Spec => SyncDurable
<1>1. FullInv /\ FullInv' /\ [Next]_vars
        => [(op = "sync" /\ op' = "none" /\ ret' = 0) =>
               (Pending' = 0 /\ ~hole' /\ fpos' = CurPos')]_vars
  BY SyncStep
<1>2. Spec => []FullInv
  BY FullInductive
<1>3. QED
  BY <1>1, <1>2, PTL DEF Spec, SyncDurable

\* The buffered stream is the file SfFile promises: whatever the sizes, the
\* calls and the failures, a write is accepted in order at the position, a read
\* hands out the bytes written there, and a seek lands where it was asked to.
THEOREM Refinement == ASSUME NoZero, WholeWrites PROVE Spec => ImplementsFile
<1>1. Init => File!Init
  BY InitImplements
<1>2. FullInv /\ FullInv' /\ [Next]_vars => [File!Next]_(File!vars)
  BY StepImplements
<1>3. Spec => []FullInv
  BY FullInductive
<1>4. QED
  BY <1>1, <1>2, <1>3, PTL DEF Spec, ImplementsFile, File!Spec

=============================================================================
