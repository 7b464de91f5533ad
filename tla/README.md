# Verification of sfio and vthread

TLA+ models of the stream library sfio (`src/src/lib/sfio`) and of the thread
library it locks with (`src/src/lib/vthread`), TLC runs of them, and theorems
checked by TLAPS. File names below are those of these two directories; the
manual pages are `sfio.3` and `src/src/man/man3/vthread.3`.

Contents: 1 the system; 2 the modules; 3 the runs; 4 fairness; 5 proofs;
6 disagreements between the code and what it promises; 7 what is not modelled;
8 what comes next.

## 1. The system

sfio replaces stdio: a stream (`Sfio_t`) is a buffer over a file descriptor, a
string, or a function (a discipline). A call works on the buffer and calls the
kernel through a few internal functions.

| part | state it keeps | operations | how it interacts | what makes it correct |
|---|---|---|---|---|
| stream I/O core (`sfwrite`, `sfread`, `_sfflsbuf`, `_sffilbuf`, `_sfmode`, `sfwr`, `sfrd`, `sfsk`, `sfsync`, `sfseek`, `sfpurge`, `sftell`, `sfsize`) | mode, `data`, `next`, `endb`, `here`, `extent`, SF_HOLE, SF_EOF/SF_ERROR | the calls | every call goes through `_sfmode` first and ends in `sfwr`, `sfrd` or `sfsk` | a stream is a file with one position, whatever the buffer holds |
| string and temporary streams (`sftmp`, `sfresize`, `_sfexcept`) | a buffer that grows | the same calls | a temporary stream turns into a file when it overflows | the same |
| reservation, records, push back (`sfreserve`, `sfgetr`, `sfungetc`, `sfpkrd`) | SF_PEEK, SF_GETR, `f->rsrv`, the stacked stream | | a following call releases the buffer that was lent | every byte is taken once, in order |
| pools (`sfpool`, `sfmode.c:42-230`) | lists of streams, the head first | join, leave, move to the head | only the head has buffered data; `_sfmode` moves a stream to the head before it works | the output leaves in the order it was written |
| stacks (`sfstack`, `sfswap`) | `push` | push, pop | a stream and its top are swapped in place | a stack ends, each stream is in one |
| stream locking (`sfmutex`, `SFMTXSTART`, `sfclrlock`) | `f->mutex` | lock, try, unlock, clear | every call on a stream; built on vthread | one thread in a stream, no circle of waiting |
| vthread mutex (`vtmtx*.c`) | pthread mutex, `count`, `owner` | lock, trylock, unlock, clrlock | three variants selected by the build | a recursive lock |
| vthread threads (`vtopen`, `vtrun`, `vtwait`, `vtkill`, `vtclose`, `vtself`, `vtonce`) | list of handles, state bits | | pthreads; the library's mutex | the list is exact, a handle outlives its thread, a function runs once |
| open, close, exit (`sfnew`, `_sfopen`, `sfsetbuf`, `sfsetfd`, `sfclose`, the clean-up of `sfmode.c`), disciplines (`sfdisc`, `sfraise`) | stream structures, stacks of disciplines | | `atexit` syncs and unbuffers; events run handlers of the application | what was accepted reaches its file, through the disciplines of its time |
| moving and polling (`sfmove`, `sfpoll`) | | | pairs and sets of streams | |
| coprocesses (`sfpopen`, `_sfpmode`, `sfdcfilter`) | saved read data, second descriptor, SIGPIPE count | | mode switch swaps descriptors; a process at the other end | nothing lost, nobody waits for ever |
| disciplines (`Sfio_dc`) | private state per stream | read, write, seek, events | go through other streams | the application sees one text |
| portable numbers (`sfputu` ... `sfgetd`), formatting (`sfvprintf`, `sfvscanf`, `sfcvt`, `sfstrtof.h`, `sftable`) | environments of a format | | the stream's buffer and its failures | what is printed has the form asked for and reads back |
| stdio emulation (`Stdio_b`) | the table from FILE to stream, pointers of the FILE | all of stdio | the macros of the C library work on the stream's buffer | a FILE and its stream are one file |

What is hard. One stream has three notions of position (the kernel's offset,
`here`, and what the caller sees), which its modes relate in different ways, and
I/O can be short or fail between any two updates. Locks are taken in pairs, made
lazily, and freed with the structure they guard. Two pipes and a process can each wait for the
other. Handlers change the stack of disciplines that is being walked. At exit
streams are used before, in and after the clean-up. `PROJECT.json` lists each hazard
at its line, with the properties that watch it.

## 2. Modules

| modules | what they are | composed with |
|---|---|---|
| `SfFile` | abstract: a file with one content and one position, and a disk that lags behind | refined by `SfStream`, `SfTemp` |
| `SfStream` (`MCSfStream`, `SfStreamProofs`) | the stream I/O core over a kernel file | |
| `SfTemp` | streams in memory and temporary streams | |
| `MCSfKinds` | `SfTemp` and two more instances of `SfStream` under one initial choice | `SfTemp`, `SfStream` |
| `RecLock` | abstract: the recursive lock the manual describes | refined by `VtMutex` |
| `VtMutex` (`MCVtMutex`, `VtMutexProofs`) | the vthread mutex, three variants | |
| `VtThread` (`MCVtThread`, `VtThreadProofs`) | handles and threads | its mutex is what `RecLock` promises |
| `SfLock` (`MCSfLock`, `SfLockInvariant`, `SfLockProofs`) | mutexes of streams, stacks, closing, the lock of a pool | the same |
| `SfPool` (`MCSfPool`, `SfPoolProofs`) | pools of streams | |
| `SfReader` | abstract: one sequence of bytes to come | refined by `SfRecord` |
| `SfRecord` (`MCSfRecord`, `SfRecordProofs`) | records, reads, reservation, push back | |
| `SfPrint`, `SfScan`, `SfNumber` | what one directive prints, what one pattern scans, the codes of portable numbers: pure functions | used by `SfText` |
| `SfText` (`MCSfText`) | the walk over a format, its arguments and environments, printed and scanned back | |
| `SfSource` | abstract: a text with windows and positions | refined by all disciplines and by `SfStdio` |
| `SfChannel` | a stream, its discipline, and what is below | extended by the next four |
| `SfdcStreams`, `Sfdclzw`, `Sfdcdos`, `SfStdio` | seekable, union, substream and tee; LZW; DOS text; the stdio emulation | `MCSfDiscipline` |
| `SfCoprocess` (`MCSfCoprocess`, `SfCoprocessProofs`) | streams on a process, `sfpoll`, the filter discipline | |
| `SfSession` (`MCSfSession`) | the life of two streams: open, buffers, disciplines, moving, close, exit | |

An `MC` module holds the small instances for TLC; `PROJECT.json` maps each definition
to the lines it stands for.

### SfStream

The variables are the kernel's file (`file`, `fsize`, `fpos`), the stream's
fields under their names in the code (`next` and `endb` are offsets from
`f->data`; `mode` and `synced` are the SF_READ, SF_WRITE and SF_SYNCED bits;
`hole` is SF_HOLE; `flag` is SF_EOF or SF_ERROR) and the call in progress
(`op`, its arguments, `pc`). The application makes one call at a time. A step is
the code between two points where the outcome of a system call is chosen:
`WriteDirect`, `Flush`, `ReadDirect`, `ReadFill`, `SeekFar` and `SyncHole`
choose how much the kernel did, or that it failed; the other actions are the
code between. `_sfmode` is `ToWrite`, `ToRead` and `Unsync`; `sfsync` is
`SyncRead`, `SyncWrite`, `Flush`, `SyncHole` and `SyncDone`, which `sfseek` shares
when it syncs a WRITE buffer. Choices the code makes from fields the model does
not keep (`f->iosz`, `f->lpos`) are left open: either branch may be taken.

Abstracted: EINTR (the same system call again), `errno`, notification. Bytes in
the buffer that are not valid are kept zero. A page of zeros is recognised when
the buffer is int-aligned, as the library's own buffers are.

`SfStream` implements `SfFile` (property `ImplementsFile`, with `Content` and
`CurPos` as the mapping): the bytes written are accepted in order at one
position, reads return the bytes of the content at that position, a seek goes
where it was asked or fails and moves nothing, and the disk only ever gets bytes
of the content.

### SfTemp and MCSfKinds

`SfTemp` is the same interface on memory: a string stream whose buffer grows by
`Grain`, an application's buffer that cannot, and a temporary stream that becomes a
file (`BecomeFile`, `WriteBecome`, `SyncBecome`) when it has to grow beyond its
limit. `extent` and `here` follow the position only when SFSTRSIZE is evaluated (`StrSize`), as in the
code, so `CurExtent` is what a caller would be told. `nomem` and `nofile` let
realloc and the temporary file fail. `MCSfKinds` picks one of the kinds in its initial state and asks of
each what `SfFile` says (`KindsAreFiles`); the unbuffered stream and the stream
of zero pages are instances of `SfStream`.

### SfPool

`pool`, `list`, `room` and `kind` are `f->pool` and the fields `sf`, `s_sf` and
`mode` of a pool, `pooled` the streams with SF_POOL. A writer has the bytes in
its buffer (`buf`), a reader its positions (`rd`). A call is a list of internal
functions to run (`todo`); each is an action: `ToFront`, `FrontFails` and
`InFront` are `_sfphead` as `_sfmode` or `sfpool` call it, `Leave`, `Dissolve` and
`LeaveFails` are `_sfpdelete`, `Join` is `_sfsetpool`, `NewPool` is `newpool` with
the move of the other stream, `Sync` and `SyncFails` are `sfsync`, `Put`,
`PutFlush` and `Get` are `sfputc` and `sfgetc`. `Pooling` decides what `sfpool` does; `PassOver` is
the step of `sfsync(NULL)` over a pool that has no stream.

A byte is named by the order in which it was accepted; `by`, `out`, `lost` and
`given` remember where the bytes went, `mine` which were accepted in the pool
their stream is in. `stray` holds the streams that a call
left half-way: the manual says nothing of them, and the code leaves them in a
list without being the head or the mark, or in no list (section 6).

### VtMutex

`holder` and `depth` are the pthread mutex (external), `count` and `owner` the
plain fields. Each pthread operation and each access to a field is a step.
`held[t]` is what the results of its calls entitle thread `t` to, the variable of
`RecLock`. `Enter`, `Refused` and `Wait` are the first pthread operation of a
call; `Check` compares the owner; `Again` is the path of a thread that owns the
mutex; `GotCount` and `SetOwner` that of one that found it free; the remaining
actions are the recursive variant and the last unlock. Threads may misuse the
mutex unless `Disciplined`. `pthread_mutex_unlock` of a mutex another thread holds
is an error without effect, and in the generic build undefined: it may also
release it.

### VtThread

A handle has the fields of `Vthread_t` (`running`, `waited`, `self`, `id`), the
library its list, its mutex and its once control. A thread goes through the labels of
the call it makes (`pc`): `vtopen` is `FindRunning`, `FindIdle`, `FindEmpty` and `FindGrow` (a slot), then `Place`
or `PlaceFails` (no handle, or no attributes for it); `vtclose` is `Look`, `Join`, `Joined` and `Clear` under the
mutex; `vtrun` is the creation, which sets the id even when it fails, and the two fields written after it; `vtself` walks the
list without the mutex. `End` is the end of a started thread. `user` records who opened
a handle, for `ListExact` and `EndsBeforeClose`.

### SfLock

A call is a list of steps (`todo`), one for each operation of a mutex and for the accesses
between two: `Take`, `Drop`, `Io` (the thread is in the stream from its start to its
end), `Swapped` (the two streams exchange their contents while their mutexes stay),
`Final` (sfclose frees), `Fail` (a frozen stream refuses, and of the steps left only those
that give back what was locked stay, `Releases`). `Make` creates `f->mutex` (`sfmutex.c:27-33`). `jump` is a
longjmp out of a call, after which the application calls `sfclrlock`.

### SfRecord

`data` and `next` are the buffer and the place in it, `pushed` the stacked stream of `sfungetc`,
`lent` who has the buffer, `pkrd` that it holds bytes the kernel still has,
`broken` a record that was cut off. `ReadPop` is the fill that finds
the pushed back bytes used up: it pops them and, with nothing left below, reads a buffer in the same call (`sfread.c:110`). `sfgetr`, `sfread` and `sfreserve` are loops, each turn an
action (`GetrFill`, `GetrTake`, ...). `Grow` is another process that writes. The
mapping to `SfReader` puts the pushed back bytes, the buffer and the input in one
sequence (`Rest`), with the bytes a call has gathered on its side in `part`.

### SfText, SfPrint, SfScan, SfNumber

A character is its code and a directive a record: parsing a format is given, its
meaning is modelled. `Fetched` takes the argument, cut to its type; `Digits`, `Gap`
and `Content` make the field as `sfvprintf` does, with the integer types scaled to
4, 5, 6 and 12 bits; `Emit` puts it into the buffer or, without room, through a call that can
fail. `%!` pushes an environment, whose extension function can print or give a
value. `SfScan` reads back character by character with the width counted as in the
code. `SfNumber` codes integers in groups of 3 (unsigned, signed) and 4 bits.

### SfChannel and the disciplines, SfStdio

`raw` is the file below, `parts` the streams a discipline goes through, `d` its
private state, `at` where each user of the stream stands. A call of the application is
one call of the discipline's function, and a raw read may be short. `SfdcStreams` has
seekable (`PipeRead`, `ShadowRead`, the seeks), union, substream and tee; `Sfdclzw` unpacks
codes with a byte of 2 bits, `Sfdcdos` removes carriage returns and keeps its
map; `buff` is the copy of the last block, with the sentinel that stands for its last byte
(`Sentinel`), and `rest` what an earlier block left behind it, which a seek can look at (`LooksBehind`).

`SfStdio` keeps for each stream whether the FILE has its buffer (`fast`) and the
FILE's two pointers (`rp`, `wp`); `TakenBack` is `_sfstdsync`. `Getc` and `Putc`
are the macros of the C library with `_filbuf` and `_flsbuf` behind them; the others
are the functions of stdio, and `Sfgetc`, `Sfputc` and `Sftell` calls of sfio
on the same stream. The table is a sequence per bucket; `Found` moves an entry to
the front. Only Linux's pointers (read and write) are modelled.

### SfCoprocess

`ends` says who holds which end of the two pipes, `first` is the process (what it
took and has not given), `second` one that is started later and inherits what is
not closed on exec. A call is a list of steps that wait where a system call waits.
`Saved` and `Restored` are the data kept across a mode switch, `RdReady` the macro of
`sfpoll`, `Closed` and `Unguarded` what the end of a stream does to its pipes
and to SIGPIPE. Bytes are numbered in the order they were sent, so `InOrder` compares
what came back.

### SfSession

`st` has for the reading and the writing stream the buffer, the stack of disciplines, the
mode, the descriptor and whether the clean-up has seen it. A discipline that does I/O
marks the bytes that pass it; one with a handler refuses an event, stops it, or clears,
leaves or thaws (`act`). `Settled` is the sync before the stack changes, `NextUp` the
next discipline `sfraise` goes to, `Emptied` what `sfmove` does with the source's buffer,
`Unbuffered` the last part of `sfsetbuf`. The process ends with exit functions that
run before or after the clean-up, in each of which the application may still open and
write.

## 3. Runs

| run | what it shows | bounds |
|---|---|---|
| `stream_core` | `PositionsAgree`, `BufferCoherent`, `SyncDurable`, `ImplementsFile`, `CallsReturn` with failing writes and reads and short reads | buffer 4, block 2, file of up to 6 bytes, at first of 3; writes of 1 and 5 bytes, reads of up to 5, seeks from -1 to 6 |
| `kinds` | `KindsAreFiles` for memory that grows (by 2), application memory of 3, temporary streams of 2 and 3; an unbuffered stream with every kernel outcome; zero pages with short writes | positions up to 5, memory up to 8; file up to 5; buffer 4, page 2, file up to 9, only writes |
| `mutex` | `MutualExclusion`, `CountIsDepth`, `ImplementsLock`, `NeverBlocks` for the three builds | 3 threads (2 in the generic build), 2 locks deep |
| `threads` | `ListExact`, `EndsBeforeClose`, `OnceBefore`, `MutexGivenBack` | two callers and one started thread that opens, closes and looks itself up but starts none, one handle of the heap and one of the application, a list that grows from 0 to 2 slots; malloc, pthread_attr_init and pthread_create may fail |
| `lock` | `OneThread`, `NoCircle`, `StackSound`, `CallsLeaveNothing`, `NoFreed` | 3 threads, a standard stream, two that are opened and freed, one without a mutex, a pool of two |
| `pool` | `ListsConsistent`, `NothingLost`, `Serial`, `SyncAllDurable` | at most three streams of three writers (buffers 2, 1, 1) and a reader, 2 pools of 2 streams before their array grows, 2 bytes, one failure; `w2` and `w3` are symmetric |
| `records` | `ImplementsReader`, `LeavesRest` | buffer 2, input of 3, 1 byte pushed back, reservations of -2, 0, 1 and 3 |
| `formats` | `AsAsked`, `FitsField`, `ReadsBack` | some 4,000 directives: each conversion with values at the ends of its type, twelve sets of flags, widths, precisions and bases, and formats that mix them; buffer 4, one failing call |
| `disciplines` | `TeeHasAll`, `TableRight`, `ImplementsSource` | texts of up to 16 bytes, raw reads of any length for pipes, calls of 1, 2, 3 and 5 bytes; two FILEs in one bucket, buffer 2 |
| `filter` | `InOrder`, `FilterComplete`, `Protected`, `PollRight`, `CallsReturn` | pipes of 2, 5 bytes sent, buffers 0 and 2; a process that answers each byte, one that waits for the end, one that ends early, one that is missing |
| `session` | `NothingLost`, `InPlace`, `EventsRight`, `ExitComplete` | eight setups of disciplines, handlers, files, pipes and exit functions; buffers 0 and 2, up to 3 bytes, files with room for 2 or more |
| `exit_rdwr` | violates `ExitComplete` (section 6) | the same setups, streams opened "w+" |

Why these bounds are enough. A buffer of 4 is filled, partly filled, bypassed (by 5
bytes) and wraps into the middle of a block; a file of 6 is longer than the buffer, so a seek
back reads part of it. Two locks deep tells a relock from a first lock; three threads are a holder, one that
waits, and one that comes in between. In a pool, two bytes overflow a smaller
buffer and can be out of order. A record of 3 bytes runs over a buffer of 2. A pipe of 2
is full while the sender has more, and the window of 5 is what the two pipes and the process can
hold at a time, so the sender waits exactly if nobody reads. Two disciplines are the least in which one
handler changes what is under another. No counter grows with the length of a run
except those the bounds name.

Deadlock is checked in `stream_core`, `kinds`, `mutex`, `pool`, `records` and
`formats`; in `lock`, `filter`, `session` and `disciplines` the process may have made all its calls (all streams
closed; the process over; the text at its end), and in `threads` a `vtclose` can stop for
ever (section 6). `NoCircle`, `CallsReturn` and `MutexGivenBack` say there what deadlock would: the last excepts
only the thread that waits for the mutex its own joiner has (`Crossed`).

Domains. A run leaves out what the code is known to get wrong, one condition in a guard or
constant each, named with the disagreement in section 6 it belongs to: the sets `Faults` and
`Habits` list them, and `Calls` those of the threads. `pool` excepts the streams in `stray`.

## 4. Fairness

`SfStream`: the thread that made a call runs it (`WF_vars(Step)`); nothing makes it
call. `VtMutex`, `VtThread`: each thread inside a call runs (`WF_vars(Step(t))`),
which a pthread scheduler gives; a thread blocked in `pthread_mutex_lock` or in
`pthread_join` has no enabled step. A started thread ends (`SF_vars(End(t))`): its function
is the application's, and `MutexGivenBack` cannot hold without it because `vtclose`
joins while it holds the mutex. `SfCoprocess`: the caller's steps, the process, and the second process's end
once its input ended (`Fairness`): a process that is never scheduled would stop anything.
No fairness is asked of the kernel's outcomes: `CallsReturn` of `SfStream` holds even if
every read is short and every write fails. Starvation of a waiting locker is possible
and nothing is claimed about it. The other modules are checked for safety only.

## 5. Proofs

`SfStreamProofs`: for every buffer size, block size, content, set of calls and
kernel outcome (short writes included), and every set of payloads without a zero
byte (`NoZero`), `Spec` implies `[]TypeOK`, `[]PositionsAgree` and
`[]BufferCoherent`. The three are not inductive: whether the buffer matches the
file after a step depends on the mode, the point of the call and where the caller
asked to go. `IInv` adds `StreamInv` (no hole; a WRITE buffer is not synced and has
no zero byte; the caller's position is within the bound) and `CallInv` (the mode
each point of a call runs in; the rest of a write fits; the target of a seek is
within the bound). One lemma per action keeps it; `Inductive` joins them.
`NoZero` is needed: realizing a hole breaks `PositionsAgree`.

Further in the module, under `NoZero` and `WholeWrites` (every fault but a short write)
`Spec` implies `SyncDurable` and `ImplementsFile`, the refinement of `SfFile`.
`FullInv` adds to `IInv` what a call knows of the caller's position and of its own
bytes between two steps: where a write has got to, what a read has taken, where a seek
goes. Each step is then shown to be a step of `SfFile` or a stutter, one lemma per
action. `WholeWrites` is needed: after a short write the buffer keeps bytes that the
position has passed (section 6).

`VtMutexProofs`: for any set of threads, disciplined or not, if the errorcheck build
makes no trylock (`Blocking`), `Spec` implies `[]MutualExclusion`, `[]CountIsDepth`
and `ImplementsLock`. The initial state picks the build; of the generic one the three
properties claim nothing (its unlock checks no holder), so the content is in the other two. Errorcheck,
`IInv`: without the pthread mutex a thread is idle or entering and has nothing; with
it, it is where `HolderInv` lists, and past `got` the owner is itself. Recursive,
`RecInv`: `RecPlace` says at each place of a call how far the pthread count,
`mtx->count` and the locks granted have drifted apart: the unlock takes the mutex once
more to look at the count, and `vtmtxclrlock` unlocks before it counts down. A step
disturbs only the thread that makes it (`OthersInv`, `RecFrame`), so each action's
lemma is about one thread. `StepRefines` and `RecStepRefines` map each return to a
grant or a giving back. `Blocking` is needed: a trylock of the errorcheck build breaks
exclusion (section 6).

`VtThreadProofs`: for any threads, handles, calls and habits, `Spec` implies
`OnceBefore`: whoever returns from vtonce finds the function run, once. `OnceInv` adds what
the place of a thread says of its call (a thread is at one of the three places of
`vtonce` exactly while it is in it), of the control (`ControlInv`: "running" while it runs the
function, "done" when it sets the flag), and that one thread at most runs the function.
Every other step is shown to stay outside (`StepOutside`) and so to keep it (`OutsideKeeps`).
The second half of the module: for any threads, handles, slots and habits `Spec` implies `[]TypeOK`;
under `NoRace` also `[]ListExact` and `[]EndsBeforeClose`. `NoRace` says that the first
call is over before another thread calls: `_Vtinit` is set before the mutex of the
library is made (section 6), and without the mutex two threads change the list at once. The
invariant is built in layers, each kept with the help of those before: `TypeInv`;
`LockInv` (a thread at a place between lock and unlock holds the library's mutex, and
owns the handle it closes or waits for); `ListInv` (each handle is in one slot, or in none and
closed, or the holder of the mutex remembers that it is about to put it in or
take it out); `RunInv` (a thread that runs is the one its handle names, and was not waited for).

`SfCoprocessProofs`: for every set of setups, pipe size, buffer size, number of bytes
and order of the answers, `Spec` implies `[]InOrder`, `[]FilterComplete` and
`PollRight`. `IInv` adds to the first two `StreamInv` (a mode has its descriptor; only a stream
that writes has data put aside), `PlanInv` (the shapes of the steps that are left,
with the mode and the buffer each needs), `EndsInv` (who holds which end, by how far the
processes are) and `FilterInv` (the filter's chunk and the rest of its text, and that a process that is gone had
given all). `Protected` needs one layer more, `SigInv` (the count of guarded
streams), and one hypothesis, `Paired`: a process that only a pair of streams talks to reads to the
end of its input, because nothing guards a stream that `sfpopen` did not open.

`SfPoolProofs`: for any streams, sizes of buffers and of arrays, calls, modes and failures, `Spec`
with `Careful` implies `[]ListsConsistent`, `[]NothingLost`, `[]Serial` and `SyncAllDurable`.
`Careful` says that `sfpool(f, pf)` is not called with a `pf` that names a pool which does not list
it. Only a failed `sfpool` leaves such a stream; the pool it names can be freed, and without
`Careful` a stream can join it then (section 6); the run `pool` is too small for that. The lists are
only right between calls, so the invariant says what each step may rely on, in layers, each kept
with the help of those before. `ListInv` has the shapes of the steps that are left (`PlanInv`), and
what they promise: an open stream that no list has is about to be put in one (`ListedInv`), a pool
of one is about to get its second (`PoolsInv`), SF_POOL is on all but the head and the stream that
goes there (`MarksInv`). `EmptyInv`: a stream behind the head has no bytes, nor has one that will
take over the data of a head (`Coming`). `BytesInv`: each accepted byte is written, lost, or in one
buffer, each buffer in order. `SyncedInv`: `sfsync(NULL)`, if it has met no error, has still to
visit every stream with bytes. `SerialInv`: the bytes put in a pool that still wait in it wait at
its head, with all that were put after them, and only in a shared pool with another stream than
their own. One lemma per action and layer; `WithoutIs`, `SwappedIs`, `SplitIs` and `ConcatIs` are
about the lists and buffers.

`SfRecordProofs`: for any source, buffer size, bytes and calls, `Spec` implies `ImplementsReader` (the
detailed reader is the abstract `SfReader`) and `LeavesRest`. No hypothesis is needed. `LeavesRest` has the
code's own exception in it: the read that uses up pushed back bytes takes up to a buffer from a
shared pipe, not what it was asked for (section 6); every other read keeps to what was asked. The
invariant is in layers: `PartInv` (what each place of a call knows: what it counts, that the record
buffer and the stream buffer are not used at once), `ArgumentInv` (the call is the one that was
asked for), `BufferInv` (the buffer, with what `sfungetc` put before it, is what comes next; a
block lent by `sfreserve` is the front of it) and `PeekInv` (peeked bytes are the first the kernel still has).
What is left to read is then one sequence, buffer before kernel, and each action's lemma shows
at once that the layers are kept and that the step is one of `SfReader`'s, or a stutter.

`SfLockProofs`, with the invariant and what is common to the steps in `SfLockInvariant`: for any threads, streams, stacks and calls, `Spec` implies `[]OneThread`,
`[]StackSound`, `[]CallsLeaveNothing`, `[]NoFreed` and `[]TypeOK` if the application is `Careful`, and
`[]NoCircle` if besides `sfstack` locks its pairs in one order (`Ordered`; two threads that stack
`f` on `g` and `g` on `f` do wait for each other). `Careful` is: no habit that
section 6 names; the streams of the pool are used by one thread, for I/O alone (with two, `OneThread` fails,
section 6); a standard stream, which anyone may close at any time, and a stream of the pool
are not pushed on another. The run `lock` is an instance. The invariant `LocksInv` has one half
about threads: each is at one of some 50 places of a call (`Plan`, with the phases of the lock of a stream
that may have no mutex yet in front), and a place says how often the call has locked its
streams (`LocksAt`), what is pushed on what (`PushAt`), whom it touches, what is open,
and which streams nobody else is engaged with (`AloneAt`). The other half is about the
streams: a stack has a height and a base (`StackInv`); a mutex belongs to one stream
(`MutexInv`); who freezes a stream is in it (`LockInv`). `AloneAt` is what makes it inductive: `sfclose`
and `sfstack` pass from one stream to the next through moments without a lock, and only the rules of
the application keep the others off. A step leaves the places of the others as they are (`OthersStay`),
so each action's lemma is about one thread. For `NoCircle` a thread that is waited for and waits has locked a
stream before the one it asks for, so of the streams waited for one would have no rank.

Only model-checked: liveness (`CallsReturn`, `NeverBlocks`, `MutexGivenBack`) and the properties of `SfText`,
`MCSfDiscipline`, `SfStdio` and `SfSession`, whose modules use recursive operators, which are
beyond the prover; `kinds`; and `SfPool` and `SfLock` without their `Careful`.

## 6. Disagreements between the code and what it promises

### Shown by a run

`exit_rdwr`: `sfsetbuf.c:94` drops the buffer of a stream used after the clean-up
at exit only if the stream is in write mode. A stream opened "w+" starts in read mode, gets a
buffer, and what an exit function writes to it is lost, though the comment above the line says
"don't allow write buffering any more".

### Met while modelling, and left out of what the passing runs ask

Each was found by TLC under a configuration or a property like the ones here, or by reading, and those
of behaviour were confirmed with the library. In brackets: what keeps them out of a run.

Streams
- `sfsync.c:112`: SF_HOLE survives a seek, and the sync then writes a 0 over data. After a sync that
  realizes a hole `f->here` is one too large; if that write fails the kernel's offset is one too
  small. [`kinds`: a stream with holes is only written]
- `sfflsbuf.c:73`: SFISALL clears SF_RV when the loop first reads it, so after two short writes
  `sfsync` returns 0 with bytes buffered; `sfflsbuf.c:75` says "save unwritten data, then resume".
  [`stream_core`: writes are whole or fail]
- `sfmode.c:464`: a short write in the flush before a switch to reading loses the rest. [the same]
- `sfsize` after a seek past the end returns the position (`SfFile` promises at least the length).
- Temporary stream: a seek past the memory returns the new position but stays (`sfio.3:797-799`); `sfresize`
  past the memory sets the extent of a file that is not longer; `_tmpexcept` ignores what its
  `sfwrite` returns (`sftmp.c:330-333`). [`farseek`]
- String stream: a negative seek on one without a discipline loops for ever; after growing, a seek past the
  memory in read mode exposes junk; `sfpurge` after a seek past the end loses bytes; shrinking
  reallocates the buffer and leaves `endb` and `next` in the old one (`sfresize.c:30`); a failing `sfresize` leaves SF_LOCK
  (`sfresize.c:40`; modelled, as `locked`). [`farread`, `shrink`]
- `sfmove` to a full device unbuffered returns 10 though 0 bytes moved (`sfmove.c:184-193`);
  `sfmove(r, NULL, 1000, -1)` on 10 bytes returns 1000. [`session` does not look at the return]
- `sfgetr.c:99-119`: when the reserve buffer cannot grow, bytes are lost, or NULL is used with SF_STRING;
  `sfreserve` cannot reserve across pushed back bytes. [memory does not fail there]
- A read that finds the pushed back bytes used up fills the buffer from a shared pipe: `sfread` calls `_sffilbuf(f, -1)`
  (`sfread.c:110`), which keeps to an amount only if it is given one (`sffilbuf.c:72-73`). `sfio.3:413`: "each reading
  operation only reads the requested amount". [in `records` this happens; `LeavesRest` excepts it, up to one buffer]

Locks and threads
- `vtmtxtrylock.c:58` (and the generic `vtmtxlock`): when pthread says EBUSY the caller is compared with an
  owner field that still names an earlier owner; that thread is granted the lock together with the holder,
  against `vthread.3:184`. An unlock of a free mutex by another than its owner returns 0. [`mutex`:
  the errorcheck build without trylock]
- `vtmtxopen.c:27` sets `_Vtinit` before the mutex is made. [`race`] `vtself` reads the list without the mutex;
  `vtkill` clears VT_RUNNING, so `vtclose` frees a handle whose thread still runs. A thread
  cancelled in the join of its own `vtclose` leaves the mutex locked. [started threads start none]
- `vtclose.c:34` joins the thread of its handle with the library's mutex locked. If that thread opens or closes a
  handle before it ends, both wait for ever; `vthread.3:121` says that "closing is done only after execution finishes"
  and forbids the thread no call. [in `threads` this happens; `MutexGivenBack` excepts it, as `Crossed`, and no other case]
- `sfmutex.c:27`: two threads can each make a mutex for a stream without one. [`lazy`] `sfstack.c:44`: a
  call that waits for a stream goes on in another after a push. [`pushed`] `sfclose.c:122`: the
  mutex is freed under a waiter. [`closeused`] Each breaks `OneThread` or `NoFreed`.
- `sfpool.c:136`: the head of a pool is taken from a thread that is inside it: with `Calls <- PoolCalls` in
  `lock`, `OneThread` fails (`sfio.3:442-443`).
- `sfpool.c:136` also resets `next` but not `endb` of a read stream: it gives the same bytes again, and its position
  moves on by as many (`sfio.3:1640`). [`pool` asks nothing of what is read]
- When the last step of `sfpool(f, pf)` fails, `f` is in the new pool, not at its head, not marked,
  with data, and `sfsync(NULL)` never writes it. When the array of the pool cannot grow, `f->pool` names a
  pool that does not list `f`; that pool can be freed and a stream that then joins `f` is in a free
  pool. [`stray`]
- `sfclose.c:33-37` pushes a popped stream again after a failed close; `sfnew` reopens a standard stream
  without its lock.

Open, close, exit, disciplines of the application
- `sfdisc.c:41` empties the buffer even when the sync failed: SF_DBUFFER (`sfio.3:1793-1798`) is never raised,
  and data is lost. [`full`] A push or pop that is refused, with data buffered, leaves the buffer
  without room: later writes return 0. [`mute`]
- Bytes a handler writes at SF_ATEXIT are never flushed. A handler that answers SF_CLOSING with a number
  keeps the stream open; `sfio.3:615-616` and `sfio.3:1785` say different things of the return.
- `sfputr.c:27` takes the -1 of a failed flush for room: on a full device it never returns. [`Putr` has room]
- Reopening while the old file cannot be synced kills the stream; `sfopen(f, same file, "w")` truncates before the
  old buffer is written; `sfsetbuf` on an unseekable read stream drops what was read ahead.

Coprocesses
- `sfdcfilter.c:55`: the write that a comment calls non-blocking blocks when the pipe has less room than
  the chunk, while the process waits for its output to be read: both stop. [`filter`: a chunk
  fits the pipe] A process that exits early makes the filter return 0 with output unread (57-60).
  `sfdcfilter.c:43` closes a descriptor that `sfclose` closes again.
- `sfpopen` closes both ends twice on an error; `sfopen`'s argument list is built wrong (`sfpopen.c:64-68`).
- `sfpoll` without a limit blocks though a stream is ready when others are not (`sfpoll.c:77-116`,
  `sfio.3:1607-1630`), and passes entries it did not fill (102-108). [one stream that is not ready at a time]

Disciplines of the library
- substream never sets `here` (171-177) and computes the extent of a window from it; it refuses a seek to
  the end of its window; writes before the first seek go elsewhere.
- tee writes bytes twice when the main write is short. LZW: a short raw read cuts a group of codes; a full
  table of 9 bits stops. DOS: a block that ends in the CR of its first line (143-151), a CR without LF, a read of one byte,
  a seek to exactly the end (305-313), and a seek from the end by a negative offset (319-323)
  give wrong places or bytes. After a block that does not end in CR LF, `cur_offset` takes the sentinel at the end
  of its copy for a CR and looks at the byte behind it (`sfdcdos.c:241`), which an earlier, longer block left there or
  which was never allocated: in `123CRLF4CRLFCRLF567CRLF8` read 5, read 5, seek to 5, read 2, read 3, seek to 8
  goes to place 12 of the file, not to 11 (`Habits` of "stale" shows it). [`split`, `toend`, `stale`, `beyond`; raw reads of LZW are whole; each CR precedes LF]

Formatting
- `sfvprintf.c:118`: padding that does not fit the buffer counts as 1: `%20d` returns 2 (`sfio.3:1195`).
- `%1$ld %2$d` takes arguments of the wrong size (`sftable.c:404-410`); `%.12000d` ignores its precision (1142); `%.0f` of 0.7
  prints 0; `%#x` of 0 prints 0x0; `%012.1a` pads before the 0x.
- `sfulen(2^40)` is 5, `sfputu` writes 6. `sfdlen` takes the length of a negative exponent as unsigned. `sfgetd` at an end of file in the mantissa returns -1, scaled.
- `sfscanf`: positions count twice (`sfvscanf.c:652`); `%*d` with positions shifts them; the separator of
  thousands is read as part of a number when it is also the separator of fields; `sfdscan` without width left takes one character more.
- The extension function of a popped environment is still used (`sfvprintf.c:601`, `sfio.3:949-957`);
  popping one pushed without a format ends the format; NULL for `%!` is ignored when scanning.
  The tasks `AfterEnv`, `LongFirst` and `TwoPlaces` of `MCSfText` show the first two and the positions.

Stdio emulation
- `fclose(stdin)` makes every later call initialise the standard FILEs again (`stdstream.c:137`, 146): their
  entries double, their flags and unsynced bytes are lost. [standard FILEs are not modelled]
- `_stdstream` frees the FILE and returns it when `_sfinit` fails (285-288); an `fclose` whose `sfclose` fails
  after freeing the stream leaves the FILE mapped. A failing `freopen` leaves the stream open and
  the FILE unfreed (modelled: `FreopenFails`); `freopen(NULL)` uses an uninitialised variable.

## 7. Not modelled

- mmap, SF_APPENDWR, SF_LINE, SF_WHOLE and `sfset`; several processes on one descriptor of a file (`sfrd.c:211`).
- Two threads in `newpool` (`sfpool.c:43`); frozen or read/write streams in pools.
- Where a temporary file is made and removed; memory failing in records; reservation for writing.
- Wide and multibyte characters, `%p`, infinities, long double, overflow of fractions, an extension function
  with its own pattern `( )`; a position together with an extension or `%!`.
- gzip (zlib does the work), direct I/O (SGI), the slow discipline (it sleeps).
- The program executed by `sfpopen` and the shell; `popen` of stdio; `sfpoll` with a limit, `sfmove` by records.
- The source emulation of stdio, the generator `Sfstdio.c`, the standard FILEs, error flags.
- Windows and Sys V code, `iffe`, makefiles and tests.
- Files have one writer and do not fail to seek; return values are modelled where a property is
  about them.

Liveness of the modules not named in section 4 holds only as absence of deadlock. Formats and
codes have no theorems: their functions are recursive.

## 8. Next

Proofs: the pools and the streams without `Careful` and `NoZero`. Models: several processes on one descriptor, and `SF_LINE`.
