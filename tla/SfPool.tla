------------------------------- MODULE SfPool -------------------------------
(***************************************************************************)
(* Pools of streams: sfpool, the move to the head that every I/O call      *)
(* makes first, the deletion of a stream, sfclose and sfsync(NULL), for    *)
(* streams that only write or only read, used by one thread.               *)
(* A call is a list of steps still to do; a step is one internal function. *)
(* Left out: streams stacked or reserved (SFFROZEN), disciplines, line     *)
(* buffering, seeks that fail, requests of more than one byte, and a sync  *)
(* that stops short without an error (SfStream has it).                    *)
(***************************************************************************)
EXTENDS Integers, FiniteSets, Sequences, SequencesExt

CONSTANTS Writers, Readers,
          Main,      \* &_Sfpool, the pool of the streams that are in no other
          None,      \* the null pointer
          Cap,       \* f->size of each stream
          ArrayLen,  \* the length of p->array
          FileLen,   \* the length of the files that are read
          AtStart,   \* the streams open at the start
          MaxOpen,   \* bound: how many streams are ever opened
          Pools,     \* bound: how many pools are allocated
          MaxBytes,  \* bound: the bytes the application writes or reads
          Modes,     \* bound: the modes it gives to sfpool
          Faults,    \* the failures that may occur
          MaxFaults  \* bound: how many do

Stream == Writers \cup Readers
Pool   == 1 .. Pools

ASSUME StreamsAssumption ==
  Writers \cap Readers = {} /\ AtStart \subseteq Stream /\ IsFiniteSet(AtStart)
ASSUME NamesAssumption ==
  Main \notin Pool /\ None \notin Pool /\ Main # None /\ None \notin Stream
ASSUME BoundsAssumption ==
  /\ Cap \in [Stream -> Nat \ {0}] /\ ArrayLen \in Nat \ {0, 1}
  /\ Cardinality(AtStart) <= ArrayLen /\ FileLen \in Nat /\ Pools \in Nat /\ MaxBytes \in Nat

VARIABLES pool, list, room, kind,  \* f->pool; the streams, s_sf and mode of each pool
          status, pooled,          \* fresh, open or closed; the streams with SF_POOL
          buf, rd,                 \* the bytes a writer has buffered; a reader's state
          by, out, lost, given,    \* history: who accepted each byte; bytes written, lost, read
          faults,                  \* history: how many failures there were
          mine, stray,             \* history: bytes put in a pool; streams left half-way
          todo, ok                 \* the call: the steps left, and its rv

lists == <<pool, list, room, kind, status, pooled>>
data  == <<buf, rd>>
past  == <<by, out, lost, given>>
marks == <<mine, stray>>
vars  == <<lists, data, past, faults, marks, todo, ok>>

----------------------------------------------------------------------------
(* Calls and their steps. A byte is named by its place in by.              *)

\* The call of the system or the allocator fails, or does not.
Fails(what) == what \in Faults /\ faults < MaxFaults /\ faults' = faults + 1
Works == UNCHANGED faults

Idle == todo = <<>>
Doing(what, f) == ~Idle /\ Head(todo)[1] = what /\ Head(todo)[2] = f
Done == todo' = Tail(todo) /\ UNCHANGED ok
Return(r) == todo' = <<>> /\ ok' = r
Expand(steps) == todo' = steps /\ UNCHANGED ok

Start(steps) == Works /\ Idle /\ todo' = steps /\ ok' = TRUE /\ UNCHANGED <<lists, data, past, marks>>

\* In list s, what comes after f moves down by one place.
Without(s, f) ==
  LET n == CHOOSE n \in DOMAIN s : s[n] = f
  IN  [i \in 1 .. Len(s) - 1 |-> IF i < n THEN s[i] ELSE s[i + 1]]

Members(p) == ToSet(list[p])
Listed(f) == pool[f] # None /\ f \in Members(pool[f])
HeadOf(p) == list[p][1]

\* The first j bytes buffered by f reach the kernel.
Wrote(f, j) == out' = out \o SubSeq(buf[f], 1, j)
Kept(f, j)  == SubSeq(buf[f], j + 1, Len(buf[f]))

----------------------------------------------------------------------------
(* A reader: the kernel's offset, f->here, the place in the file its       *)
(* buffer was read from, f->next, f->endb and SF_SYNCED.                   *)

NewReader == [at |-> 0, here |-> 0, base |-> 0, next |-> 0, endb |-> 0, synced |-> FALSE]

\* sfsync: the kernel goes back to the logical position.
Synced(r) ==
  LET p == r.here - (r.endb - r.next)
  IN  IF r.synced \/ r.next = r.endb THEN r
      ELSE [r EXCEPT !.at = p, !.here = p, !.synced = TRUE]

\* _sfmode: the kernel goes forward to the end of the buffer.
Unsynced(r) ==
  LET p == r.here + (r.endb - r.next)
  IN  IF r.synced THEN [r EXCEPT !.at = p, !.here = p, !.synced = FALSE] ELSE r

\* The next k bytes of the file fill the buffer.
Filled(r, k) ==
  [r EXCEPT !.base = r.at, !.at = @ + k, !.here = @ + k, !.next = 0, !.endb = k]

\* How many bytes a read for f finds.
Found(f) == LET left == FileLen - rd[f].at
            IN  IF left <= 0 THEN 0 ELSE IF left < Cap[f] THEN left ELSE Cap[f]

----------------------------------------------------------------------------
(* _sfphead: f becomes the head of its pool.                               *)

\* The bytes of the head h that must be written before f takes its place.
Excess(h, f) ==
  IF kind[pool[f]] # "share" THEN Len(buf[h])
  ELSE IF Len(buf[h]) > Cap[f] THEN Len(buf[h]) - Cap[f] ELSE 0

\* Mutant of Handed: the front of the data moves, which was just written.
HandedFront(h, f) == SubSeq(buf[h], 1, Len(buf[h]) - Excess(h, f))

\* The bytes of h that move into the buffer of f, replacing what is there.
Handed(h, f) == Kept(h, Excess(h, f))

\* Mutant of Swapped: the old head is overwritten.
SwappedOver(s, f) == [s EXCEPT ![1] = f]

\* In list s, f and the head change places.
Swapped(s, f) == [i \in DOMAIN s |-> IF i = 1 THEN f ELSE IF s[i] = f THEN s[1] ELSE s[i]]

\* Mutant of Marked: the old head is not marked.
MarkedNot(f, h) == pooled \ {f}

\* SF_POOL says which streams are not at the head.
Marked(f, h) == (pooled \ {f}) \cup {h}

\* A demoted reader forgets how far its buffer was used, but not the buffer.
Demoted(r) == [Synced(r) EXCEPT !.next = 0]

Moving(f) == (Doing("mode", f) /\ f \in pooled) \/ (Doing("front", f) /\ f # HeadOf(pool[f]))

\* The head is synced, or in a shared pool hands its data over, and makes way.
ToFront(f) ==
  /\ Moving(f)
  /\ LET p == pool[f]  h == HeadOf(p)
     IN  /\ Wrote(h, Excess(h, f))
         /\ buf' = [buf EXCEPT ![h] = <<>>, ![f] = IF kind[p] = "share" THEN Handed(h, f) ELSE @]
         /\ rd' = [r \in Readers |-> IF r = h THEN Demoted(rd[r])
                                     ELSE IF r = f THEN Unsynced(rd[r]) ELSE rd[r]]
         /\ list' = [list EXCEPT ![p] = Swapped(@, f)]
         /\ pooled' = Marked(f, h)
  /\ Done /\ Works
  /\ UNCHANGED <<pool, room, kind, status, by, lost, given, marks>>

\* A write stops early: the head keeps the rest and its place, the call fails.
FrontFails(f) ==
  /\ Moving(f) /\ Fails("writefail")
  /\ LET h == HeadOf(pool[f])
     IN  \E j \in 0 .. Excess(h, f) - 1 :
           Wrote(h, j) /\ buf' = [buf EXCEPT ![h] = Kept(h, j)]
  /\ stray' = IF Doing("front", f) THEN stray \cup {f} ELSE stray
  /\ Return(FALSE)
  /\ UNCHANGED <<lists, rd, by, lost, given, mine>>

\* A stream not marked SF_POOL, or at the head. _sfmode makes a synced one usable.
InFront(f) ==
  /\ (Doing("mode", f) \/ Doing("front", f)) /\ ~Moving(f)
  /\ rd' = [r \in Readers |-> IF r = f THEN Unsynced(rd[r]) ELSE rd[r]]
  /\ Done /\ Works /\ UNCHANGED <<lists, buf, past, marks>>

----------------------------------------------------------------------------
(* _sfsetpool, _sfpdelete and newpool.                                     *)

Full(p) == Len(list[p]) >= room[p]
Grown(p) == (IF room[p] = ArrayLen THEN (room[p] \div 4 + 1) * 4 ELSE room[p]) + 4

\* f goes to the end of p, in an array that grows when it is full.
Enlist(f, p) ==
  /\ list' = [list EXCEPT ![p] = Append(@, f)]
  /\ room' = [room EXCEPT ![p] = IF Full(p) THEN Grown(p) ELSE @] /\ Works

\* The array cannot grow: f names the pool p, which does not list it.
NotEnlisted(p) == Full(p) /\ Fails("nomem") /\ UNCHANGED <<list, room>>

\* _sfsetpool(f) for f->pool = p.
Join(f, p) ==
  /\ Doing("append", f) /\ Head(todo)[3] = p
  /\ pool' = [pool EXCEPT ![f] = p]
  /\ \/ Enlist(f, p) /\ Done /\ UNCHANGED stray
     \/ NotEnlisted(p) /\ stray' = stray \cup {f} /\ Return(FALSE)
  /\ UNCHANGED <<kind, status, pooled, data, past, mine>>

ByOthers(S) == {i \in mine : by[i] \notin S}

\* _sfpdelete from &_Sfpool, and from a pool that keeps two streams or none.
Leave(f) ==
  /\ Doing("leave", f) /\ Listed(f)
  /\ LET p == pool[f]  rest == Without(list[p], f)
     IN  /\ p = Main \/ Len(rest) # 1
         /\ list' = [list EXCEPT ![p] = rest]
         /\ kind' = IF p # Main /\ rest = <<>> THEN [kind EXCEPT ![p] = "avail"] ELSE kind
         /\ pooled' = pooled \ ({f} \cup (IF p # Main /\ rest # <<>> THEN {rest[1]} ELSE {}))
  /\ pool' = [pool EXCEPT ![f] = None]
  /\ stray' = stray \ {f} /\ mine' = ByOthers({f})
  /\ Done /\ Works /\ UNCHANGED <<room, status, data, past>>

\* _sfpdelete of the last stream but one: the other, g, goes to &_Sfpool too.
Dissolve(f) ==
  /\ Doing("leave", f) /\ Listed(f) /\ pool[f] # Main
  /\ LET p == pool[f]  rest == Without(list[p], f)  g == rest[1]
     IN  /\ Len(rest) = 1
         /\ pool' = [pool EXCEPT ![f] = None, ![g] = Main]
         /\ kind' = [kind EXCEPT ![p] = "avail"]
         /\ pooled' = pooled \ {f, g}
         /\ \/ /\ list' = [list EXCEPT ![p] = <<>>, ![Main] = Append(@, g)]
               /\ room' = [room EXCEPT ![Main] = IF Full(Main) THEN Grown(Main) ELSE @]
               /\ stray' = stray \ {f, g} /\ Works
            \/ /\ Full(Main) /\ Fails("nomem")
               /\ list' = [list EXCEPT ![p] = <<>>]
               /\ stray' = (stray \ {f}) \cup {g} /\ UNCHANGED room
  /\ mine' = ByOthers(Members(pool[f]))
  /\ Done /\ UNCHANGED <<status, data, past>>

\* _sfpmove finds no pool, or a pool that does not list f.
LeaveFails(f) ==
  /\ Doing("leave", f) /\ ~Listed(f)
  /\ Return(FALSE) /\ Works /\ UNCHANGED <<lists, data, past, marks>>

Unused == {p \in Pool : kind[p] \in {"avail", "none"}}

\* The pool newpool finds: the first free one, or one it allocates.
Fresh == CHOOSE p \in Unused : \A q \in Unused :
           IF kind[p] = kind[q] THEN p <= q ELSE kind[p] = "avail"

\* Making a pool of pf for f to join: newpool, and pf leaves &_Sfpool. A free
\* pool is taken to be empty.
NewPool(f, pf, mode) ==
  /\ Doing("newpool", f) /\ Head(todo)[3] = pf /\ Head(todo)[4] = mode
  /\ \/ /\ Unused # {} /\ Works /\ kind' = [kind EXCEPT ![Fresh] = mode]
        /\ \/ /\ Listed(pf)
              /\ pool' = [pool EXCEPT ![pf] = Fresh]
              /\ list' = [list EXCEPT ![Main] = Without(@, pf), ![Fresh] = <<pf>>]
              /\ room' = [room EXCEPT ![Fresh] = ArrayLen]
              /\ Expand(<<<<"append", f, Fresh>>>> \o Tail(todo)) /\ UNCHANGED stray
           \/ /\ ~Listed(pf) /\ stray' = stray \cup {f}
              /\ Return(FALSE) /\ UNCHANGED <<pool, list, room>>
     \/ /\ Fails("nomem") /\ \A p \in Unused : kind[p] = "none"
        /\ stray' = stray \cup {f}
        /\ Return(FALSE) /\ UNCHANGED <<pool, list, room, kind>>
  /\ UNCHANGED <<status, pooled, data, past, mine>>

----------------------------------------------------------------------------
(* _sfflsbuf, _sffilbuf and sfsync of one stream, at the head of its pool.  *)

\* sfputc of a byte that fits the buffer.
Put(f) ==
  /\ Doing("put", f) /\ Len(buf[f]) < Cap[f]
  /\ by' = Append(by, f)
  /\ buf' = [buf EXCEPT ![f] = Append(@, Len(by) + 1)]
  /\ mine' = IF pool[f] \in Pool THEN mine \cup {Len(by) + 1} ELSE mine
  /\ Return(TRUE) /\ Works /\ UNCHANGED <<lists, rd, out, lost, given, stray>>

\* The buffer is full and flushed, wholly, partly or not at all.
PutFlush(f) ==
  /\ Doing("put", f) /\ Len(buf[f]) = Cap[f]
  /\ \E j \in 0 .. Cap[f] :
       /\ IF j < Cap[f] THEN Fails("writefail") ELSE Works
       /\ Wrote(f, j) /\ buf' = [buf EXCEPT ![f] = Kept(f, j)]
       /\ IF j = 0 THEN Return(FALSE) ELSE UNCHANGED <<todo, ok>>
  /\ UNCHANGED <<lists, rd, by, lost, given, marks>>

\* sfgetc, filling the buffer first when it is empty.
Get(f) ==
  /\ Doing("get", f)
  /\ LET r == rd[f]
         s == IF r.next < r.endb THEN r ELSE Filled(r, Found(f))
     IN  IF s.next < s.endb
         THEN /\ given' = [given EXCEPT ![f] = Append(@, s.base + s.next)]
              /\ rd' = [rd EXCEPT ![f] = [s EXCEPT !.next = @ + 1]]
              /\ Return(TRUE)
         ELSE rd' = [rd EXCEPT ![f] = s] /\ Return(FALSE) /\ UNCHANGED given
  /\ Works /\ UNCHANGED <<lists, buf, by, out, lost, marks>>

Syncing(f) == Doing("sync", f) \/ Doing("clean", f)

\* sfsync(f): everything f has buffered is written, or read back.
Sync(f) ==
  /\ Syncing(f)
  /\ Wrote(f, Len(buf[f])) /\ buf' = [buf EXCEPT ![f] = <<>>]
  /\ rd' = [r \in Readers |-> IF r = f THEN Synced(rd[r]) ELSE rd[r]]
  /\ Done /\ Works /\ UNCHANGED <<lists, by, lost, given, marks>>

\* sfsync(f) fails: the rest stays; sfsync(NULL) and sfclose go on with rv = -1.
SyncFails(f) ==
  /\ Syncing(f) /\ Fails("writefail")
  /\ \E j \in 0 .. Len(buf[f]) - 1 : Wrote(f, j) /\ buf' = [buf EXCEPT ![f] = Kept(f, j)]
  /\ \/ Doing("clean", f) /\ Return(FALSE)
     \/ Doing("sync", f) /\ todo' = Tail(todo) /\ ok' = FALSE
  /\ UNCHANGED <<lists, rd, by, lost, given, marks>>

----------------------------------------------------------------------------
(* sfpool after both streams are usable, and sfclose after the sync.       *)

\* What sfpool does to make f join the pool of pf, or a new one.
JoinSteps(f, pf, mode) ==
  (IF mode = "share" THEN <<<<"clean", f>>>> ELSE <<>>)
    \o << <<"leave", f>>,
          IF pool[pf] \in Pool THEN <<"append", f, pool[pf]>> ELSE <<"newpool", f, pf, mode>>,
          <<"front", f>> >>

\* sfpool: nothing to do, refused, or under way. A pool keeps its mode.
Pooling(f, pf, m) ==
  /\ Doing("pool", f) /\ Head(todo)[3] = pf /\ Head(todo)[4] = m
  /\ LET mode == IF pool[pf] \in Pool THEN kind[pool[pf]] ELSE m
     IN  IF pool[f] = pool[pf] /\ pool[f] # Main THEN Return(TRUE)
         ELSE IF mode = "share" /\ ~{f, pf} \subseteq Writers THEN Return(FALSE)
         ELSE Expand(JoinSteps(f, pf, mode))
  /\ Works /\ UNCHANGED <<lists, data, past, marks>>

\* sfpool(f, NULL): only a stream of a pool can be deleted from it.
Deleting(f) ==
  /\ Doing("delete", f)
  /\ IF pool[f] \in {None, Main} THEN Return(FALSE)
     ELSE Expand(<<<<"leave", f>>, <<"append", f, Main>>>>)
  /\ Works /\ UNCHANGED <<lists, data, past, marks>>

\* The stream is gone, with what the sync could not write.
Closed(f) ==
  /\ Doing("closed", f)
  /\ status' = [status EXCEPT ![f] = "closed"] /\ pool' = [pool EXCEPT ![f] = None]
  /\ lost' = lost \cup ToSet(buf[f]) /\ buf' = [buf EXCEPT ![f] = <<>>]
  /\ stray' = stray \ {f}
  /\ rd' = [r \in Readers |-> IF r = f THEN NewReader ELSE rd[r]]
  /\ Return(ok) /\ Works /\ UNCHANGED <<list, room, kind, pooled, by, out, given, mine>>

\* sfsync(NULL) passes over a pool that has no stream.
PassOver == Doing("sync", None) /\ Done /\ Works /\ UNCHANGED <<lists, data, past, marks>>

\* sfsync(NULL) returns its rv.
End == Doing("end", None) /\ Return(ok) /\ Works /\ UNCHANGED <<lists, data, past, marks>>

----------------------------------------------------------------------------
(* The calls.                                                              *)

Open == {f \in Stream : status[f] = "open"}

\* f->mode is SF_READ or SF_WRITE alone; if not, _sfmode is called. (sfsync and
\* sfclose leave a synced reader alone, which comes to the same.)
Ready(f) == f \notin pooled /\ (f \in Readers => ~rd[f].synced)
Use(f) == IF Ready(f) THEN <<>> ELSE <<<<"mode", f>>>>

\* Using f can take a pool's head from pf.
UseBoth(f, pf) == IF Ready(f) THEN Use(pf) ELSE <<<<"mode", f>>, <<"mode", pf>>>>

\* sfclose: a stream in no pool, or not listed in &_Sfpool, has none to leave.
LeaveAny(f) == IF Listed(f) \/ pool[f] \in Pool THEN <<<<"leave", f>>>> ELSE <<>>

\* The first use of a new stream puts it in &_Sfpool.
CallOpen(f) ==
  /\ Idle /\ status[f] = "fresh" /\ Cardinality({g \in Stream : status[g] # "fresh"}) < MaxOpen
  /\ status' = [status EXCEPT ![f] = "open"]
  /\ todo' = <<<<"append", f, Main>>>> /\ ok' = TRUE
  /\ Works /\ UNCHANGED <<pool, list, room, kind, pooled, data, past, marks>>

\* The bytes the application has written or read, which MaxBytes bounds.
Moved == Len(by) + MapThenSumSet(LAMBDA r : Len(given[r]), Readers)

CallWrite(f) == Moved < MaxBytes /\ Start(Use(f) \o <<<<"put", f>>>>)
CallRead(f)  == Moved < MaxBytes /\ Start(Use(f) \o <<<<"get", f>>>>)
CallSync(f)  == Start(Use(f) \o <<<<"sync", f>>>>)
CallClose(f) ==
  Start(Use(f) \o <<<<"sync", f>>>> \o LeaveAny(f) \o <<<<"closed", f>>>>)
CallDelete(f) == Start(Use(f) \o <<<<"delete", f>>>>)
CallPool(f, pf, m) ==
  (pool[pf] \in Pool \/ Unused # {}) /\ Start(UseBoth(f, pf) \o <<<<"pool", f, pf, m>>>>)

\* Mutant of Visited: the heads of the pools are not visited.
VisitedMain == list[Main]

\* The streams sfsync(NULL) visits: all of &_Sfpool, the heads of the others.
Visited == list[Main] \o [p \in Pool |-> IF list[p] = <<>> THEN None ELSE HeadOf(p)]

CallSyncAll == Start([i \in DOMAIN Visited |-> <<"sync", Visited[i]>>] \o <<<<"end", None>>>>)

----------------------------------------------------------------------------

InMain == SetToSeq(AtStart)

Init ==
  /\ pool = [f \in Stream |-> IF f \in AtStart THEN Main ELSE None]
  /\ list = [p \in Pool \cup {Main} |-> IF p = Main THEN InMain ELSE <<>>]
  /\ room = [p \in Pool \cup {Main} |-> ArrayLen]
  /\ kind = [p \in Pool |-> "none"]
  /\ status = [f \in Stream |-> IF f \in AtStart THEN "open" ELSE "fresh"]
  /\ pooled = {} /\ buf = [f \in Stream |-> <<>>] /\ rd = [f \in Readers |-> NewReader]
  /\ by = <<>> /\ out = <<>> /\ lost = {} /\ given = [f \in Readers |-> <<>>]
  /\ faults = 0 /\ mine = {} /\ stray = {}
  /\ todo = <<>> /\ ok = TRUE

Call ==
  \/ CallSyncAll
  \/ \E f \in Stream : CallOpen(f)
  \/ \E f \in Open \cap Writers : CallWrite(f)
  \/ \E f \in Open \cap Readers : CallRead(f)
  \/ \E f \in Open : CallSync(f) \/ CallClose(f) \/ CallDelete(f)
  \/ \E f, pf \in Open, m \in Modes : f # pf /\ CallPool(f, pf, m)

Step ==
  \/ \E f \in Stream :
       \/ ToFront(f) \/ FrontFails(f) \/ InFront(f)
       \/ Leave(f) \/ Dissolve(f) \/ LeaveFails(f)
       \/ Put(f) \/ PutFlush(f) \/ Get(f) \/ Sync(f) \/ SyncFails(f)
       \/ Deleting(f) \/ Closed(f)
  \/ PassOver \/ End
  \/ \E f \in Stream, p \in Pool \cup {Main} : Join(f, p)
  \/ \E f, pf \in Stream, m \in {"plain", "share"} : NewPool(f, pf, m)
  \/ \E f, pf \in Stream, m \in Modes : Pooling(f, pf, m)

Next == Call \/ Step

Spec == Init /\ [][Next]_vars

----------------------------------------------------------------------------
(* Properties.                                                             *)

\* Every variable keeps its range, and no buffer holds more than its size.
TypeOK ==
  /\ pool \in [Stream -> Pool \cup {Main, None}] /\ pooled \subseteq Stream
  /\ list \in [Pool \cup {Main} -> Seq(Stream)] /\ room \in [Pool \cup {Main} -> Nat]
  /\ kind \in [Pool -> {"none", "avail", "plain", "share"}]
  /\ status \in [Stream -> {"fresh", "open", "closed"}] /\ stray \subseteq Stream
  /\ \A f \in Stream : buf[f] \in Seq(1 .. Len(by)) /\ Len(buf[f]) <= Cap[f]
  /\ \A f \in Readers : rd[f].next \in 0 .. rd[f].endb /\ rd[f].endb <= Cap[f]
  /\ \A p \in Pool \cup {Main} : Len(list[p]) <= room[p]

\* Between calls every open stream is listed once, in the pool it names, and
\* SF_POOL marks exactly those that are not at the head of theirs; a pool that
\* is not free has two streams. Streams that a failed call left half-way are
\* excepted (_sfphead, _sfpdelete, _sfsetpool).
ListsConsistent ==
  Idle =>
    /\ \A p \in Pool \cup {Main} : IsInjective(list[p])
    /\ \A p \in Pool \cup {Main} : \A f \in Members(p) : pool[f] = p
    /\ \A f \in Open \ stray : Listed(f)
    /\ pooled \cup stray = stray \cup
         UNION {Members(p) \ {HeadOf(p)} : p \in {q \in Pool : list[q] # <<>>}}
    /\ stray = {} => \A p \in Pool :
         list[p] # <<>> => kind[p] \in {"plain", "share"} /\ Len(list[p]) >= 2

\* A byte that sfputc accepted is written once, or waits once, or was in a
\* stream that could not be synced when it was closed; each buffer is in order.
NothingLost ==
  /\ IsInjective(out)
  /\ \A i \in 1 .. Len(by) :
       Cardinality({f \in Stream : i \in ToSet(buf[f])})
         + (IF i \in ToSet(out) THEN 1 ELSE 0) + (IF i \in lost THEN 1 ELSE 0) = 1
  /\ \A f \in Stream : \A i, j \in DOMAIN buf[f] : i < j => buf[f][i] < buf[f][j]

\* A pool serializes its output ("Pool not serializing output", tpool.c): while
\* a byte that one of its streams accepted waits in the pool, no byte that
\* another accepted later has been written.
Serial ==
  \A p \in Pool : \A f \in Members(p) \ stray : \A i \in ToSet(buf[f]) :
    \A j \in ToSet(out) :
      ~ /\ i < j /\ {i, j} \subseteq mine
        /\ {by[i], by[j]} \subseteq Members(p) \ stray

\* When sfsync(NULL) returns 0 no stream has a byte to write, unless a call
\* left it half-way.
SyncAllDurable ==
  [][Doing("end", None) /\ ok' => \A f \in Open \ stray : buf[f] = <<>>]_vars

=============================================================================
