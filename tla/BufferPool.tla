------------------------------ MODULE BufferPool ------------------------------
(***************************************************************************)
(* The buffer manager: an ARC cache with resident pages in T1 and T2 and   *)
(* ghosts in B1 and B2, whose lists are linked through the cache entries,  *)
(* with the page table, the stack of free buffers, the I/O flag of an      *)
(* entry and the file. A worker gets or extends a page, uses it and gives  *)
(* the pin back.                                                           *)
(*                                                                         *)
(* The build is the release one: assertions are not evaluated. Entries,    *)
(* buffers and pages are numbered from 1 and 0 is nullptr. cache.fault is  *)
(* the end of the process (a null pointer is followed, a division by 0).   *)
(* A step is what happens between two points where the worker may wait or  *)
(* where another one can act on the entry it holds no lock on.             *)
(***************************************************************************)
EXTENDS Integers, Sequences

CONSTANTS
  Workers, NoWorker,
  PoolSizes,   \* the values of _npages
  MaxPages,    \* bound: pages of the relation
  Starts,      \* [file, calls]: the pages of the file when the server starts, and the
               \* bound: calls of GetBuffer and ExtendRelation from there on
  MaxVersion,  \* bound: times that a page is written
  Width,       \* sizes and P are unsigned, this stands for 2^32
  IoFails      \* whether reads and writes of the file may fail

ASSUME PoolAssumption ==
  /\ NoWorker \notin Workers /\ IoFails \in BOOLEAN /\ {MaxPages, MaxVersion, Width} \subseteq Nat
  /\ PoolSizes \subseteq Nat \ {0} /\ \A n \in PoolSizes : 2 * n < Width
  /\ \E n \in PoolSizes : \A m \in PoolSizes : m <= n
  /\ Starts \subseteq [file : 0..MaxPages, calls : Nat]

VARIABLES
  npages,     \* _npages
  cache,      \* [ent |-> the entries, list |-> the lists, fault |-> BOOLEAN]
  map,        \* _map: page -> entry or 0
  P,          \* the target size of T1
  bufs,       \* _buffers: [version, next]
  freeHead,   \* the head of _freeBuffers
  listLatch, mapLatch, pageLatch,   \* who holds a latch
  disk,       \* the version of each page of the file; a sequence
  latest,     \* the version last written by any worker
  hist,       \* what went wrong so far, see NoHistory
  pc, loc, calls

data == <<disk, latest, hist>>
latches == <<listLatch, mapLatch, pageLatch>>
vars == <<npages, cache, map, P, bufs, freeHead, latches, data, pc, loc, calls>>

MaxPool == CHOOSE n \in PoolSizes : \A m \in PoolSizes : m <= n
Entries == 1..(2 * MaxPool)
Buffers == 1..MaxPool
Pages == 1..MaxPages
Lists == {"T1", "T2", "B1", "B2", "Free"}

\* CacheEntryFlags and the fields of CacheEntry. Dirty and IoError are one bit.
NewEntry == [tag |-> 0, refs |-> 0, locked |-> FALSE, tagValid |-> FALSE,
             top |-> FALSE, freq |-> FALSE, io |-> FALSE, dirty |-> FALSE,
             valid |-> FALSE, buf |-> 0, prev |-> 0, next |-> 0]

NoOp == [op |-> "none", page |-> 0, ent |-> 0, it |-> 0, list |-> "Free", ret |-> "evict",
         t1 |-> 0, b1 |-> 0, p |-> 0, fq |-> FALSE, buf |-> 0, next |-> 0]

\* What the code did so far that it should not have done; no step looks at it.
\* unmarked: pages changed by callers that do not call MarkDirty. raced: pages that
\* two calls of ExtendRelation took for new, or that came into the file otherwise.
\* torn: entries that were not their user's alone any more: cleared while pinned,
\* taken while in the page table or taken already, or forgotten for another entry.
\* dropped: pages of torn entries, pages that left their buffer or the page table
\* dirty, and pages written to the file without ever having been read from it.
\* aba: a worker exchanged the head of the free buffers for a successor that it
\* did not have any more.
NoHistory == [unmarked |-> {}, raced |-> {}, dropped |-> {}, torn |-> {}, aba |-> FALSE]

-----------------------------------------------------------------------------
(* CacheEntryList                                                           *)

Size(c, l) == c.list[l].size

\* Entries are put at the head; links left from another list are kept.
InsertMRU(c, l, e) ==
  LET h == c.list[l].head IN
  IF Size(c, l) = 0
    THEN [c EXCEPT !.list[l] = [head |-> e, tail |-> e, size |-> 1]]
  ELSE IF h = 0
    THEN [c EXCEPT !.fault = TRUE]
    ELSE [c EXCEPT !.ent = [@ EXCEPT ![h].prev = e, ![e].next = h],
                   !.list[l] = [@ EXCEPT !.head = e, !.size = (Size(c, l) + 1) % Width]]

\* An empty list makes RemoveEntry throw.
CanRemove(c, l) == Size(c, l) > 0

RemoveEntry(c, l, e) ==
  LET prev == c.ent[e].prev
      next == c.ent[e].next
      linked == [x \in Entries |->
        IF x = e THEN [c.ent[x] EXCEPT !.prev = 0, !.next = 0]
        ELSE [c.ent[x] EXCEPT !.next = IF x = prev THEN next ELSE @,
                              !.prev = IF x = next THEN prev ELSE @]]
      rest == IF c.list[l].head = e THEN [c.list[l] EXCEPT !.head = next]
              ELSE IF c.list[l].tail = e THEN [c.list[l] EXCEPT !.tail = prev]
              ELSE c.list[l]
  IN IF Size(c, l) = 1
       THEN [c EXCEPT !.list[l] = [head |-> 0, tail |-> 0, size |-> 0],
                      !.ent[e] = [@ EXCEPT !.prev = 0, !.next = 0]]
       ELSE [c EXCEPT !.ent = linked, !.list[l] = [rest EXCEPT !.size = Size(c, l) - 1]]

\* Mutant: a signed size.
PoppedSigned(c, e) ==
  LET r == RemoveEntry(c, "Free", e) IN [r EXCEPT !.list["Free"].size = @ - 1]

\* PopTail takes one off the size that RemoveEntry has taken one off.
Popped(c, e) ==
  LET r == RemoveEntry(c, "Free", e)
  IN [r EXCEPT !.list["Free"].size = (@ + Width - 1) % Width]

MoveMRU(c, l, e) == IF Size(c, l) = 1 THEN c ELSE InsertMRU(RemoveEntry(c, l, e), l, e)

\* TearDown: State.store(0). The links and the buffer pointer stay.
TearDown(c, e) ==
  [c EXCEPT !.ent[e] = [NewEntry EXCEPT !.tag = c.ent[e].tag, !.buf = c.ent[e].buf,
                                        !.prev = c.ent[e].prev, !.next = c.ent[e].next]]

Pin(c, e) == [c EXCEPT !.ent[e].refs = @ + 1]
\* A count below 0 would borrow from the flags of the word: the model ends there.
Unpin(c, e) == IF c.ent[e].refs = 0 THEN [c EXCEPT !.fault = TRUE] ELSE [c EXCEPT !.ent[e].refs = @ - 1]

-----------------------------------------------------------------------------
(* Steps of a worker                                                        *)

At(w, label) == ~cache.fault /\ pc[w] = label
Go(w, label) == pc' = [pc EXCEPT ![w] = label]
Ent(w) == cache.ent[loc[w].ent]
It(w) == cache.ent[loc[w].it]
Unheld(latch, x) == latch[x] = NoWorker
Take(latch, x, w) == [latch EXCEPT ![x] = w]
Drop(latch, x) == [latch EXCEPT ![x] = NoWorker]
DropAll(latch, w) == [x \in DOMAIN latch |-> IF latch[x] = w THEN NoWorker ELSE latch[x]]
Mapped(t) == t # 0 /\ map[t] # 0
PartitionFree(t) == t # 0 => mapLatch[t] = NoWorker
Unmap(t) == [p \in Pages |-> IF p = t THEN 0 ELSE map[p]]

\* History: the entries es are torn.
Hurt(es) ==
  [hist EXCEPT !.torn = @ \cup es,
               !.dropped = @ \cup {p \in Pages : map[p] \in es} \cup {cache.ent[e].tag : e \in es}]

\* History: the page of entry e leaves the page table, which may have another
\* entry for it; es are torn besides.
Forgotten(e, es) ==
  LET t == cache.ent[e].tag
      h == Hurt(es \cup (IF Mapped(t) THEN {map[t]} \ {e} ELSE {}))
  IN IF cache.ent[e].dirty THEN [h EXCEPT !.dropped = @ \cup {t}] ELSE h

\* History: a worker has taken the entry e that another one has taken already.
TakenTwice(w, e) ==
  IF \E v \in Workers \ {w} : loc[v].ent = e /\ pc[v] \in {"tearDown", "setup", "insert"} THEN {e} ELSE {}

\* RelFile::Write at the end of the file makes it longer.
Written(d, t, v) == IF t > Len(d) THEN Append(d, v) ELSE [d EXCEPT ![t] = v]
Fault == cache' = [cache EXCEPT !.fault = TRUE]

\* The call is over: by return or by an exception. An exception unwinds the
\* latches, not the pins ("TODO", BufferManager.cpp:462) and not entry locks.
Over(w, label) ==
  /\ Go(w, label)
  /\ listLatch' = DropAll(listLatch, w)
  /\ mapLatch' = DropAll(mapLatch, w)
  /\ pageLatch' = DropAll(pageLatch, w)
Throw(w) == Over(w, "idle") /\ loc' = [loc EXCEPT ![w] = NoOp]

\* The locals that outlive a helper function.
Kept(w) == [NoOp EXCEPT !.op = loc[w].op, !.page = loc[w].page, !.ent = loc[w].ent]

\* What a step of the cache logic leaves alone.
Rest == UNCHANGED <<npages, data, calls>>

Init ==
  /\ npages \in PoolSizes
  \* the constructor puts every entry and every buffer on its free list
  /\ cache = [ent |-> [e \in Entries |->
                 [NewEntry EXCEPT !.prev = IF e < 2 * npages THEN e + 1 ELSE 0,
                                  !.next = IF e <= 2 * npages THEN e - 1 ELSE 0]],
              list |-> [l \in Lists |-> IF l = "Free"
                          THEN [head |-> 2 * npages, tail |-> 1, size |-> 2 * npages]
                          ELSE [head |-> 0, tail |-> 0, size |-> 0]],
              fault |-> FALSE]
  /\ map = [p \in Pages |-> 0] /\ P = 0
  /\ bufs = [b \in Buffers |-> [version |-> 0, next |-> b - 1]]
  /\ freeHead = npages
  /\ listLatch = [l \in Lists |-> NoWorker] /\ mapLatch = [p \in Pages |-> NoWorker]
  /\ pageLatch = [b \in Buffers |-> NoWorker]
  /\ \E s \in Starts : disk = [p \in 1..s.file |-> 0] /\ calls = s.calls
  /\ latest = [p \in Pages |-> 0] /\ hist = NoHistory
  /\ pc = [w \in Workers |-> "idle"] /\ loc = [w \in Workers |-> NoOp]

\* A worker asks for a page that the file has, or for a new page.
StartGet(w) ==
  /\ At(w, "idle") /\ calls > 0 /\ calls' = calls - 1
  /\ \E p \in DOMAIN disk : loc' = [loc EXCEPT ![w] = [NoOp EXCEPT !.op = "get", !.page = p]]
  /\ Go(w, "lookup")
  /\ UNCHANGED <<npages, cache, map, P, bufs, freeHead, latches, data>>

StartExtend(w) ==
  /\ At(w, "idle") /\ calls > 0 /\ calls' = calls - 1
  /\ Len(disk) < MaxPages
  /\ loc' = [loc EXCEPT ![w] = [NoOp EXCEPT !.op = "extend"]]
  /\ Go(w, "pre1")
  /\ UNCHANGED <<npages, cache, map, P, bufs, freeHead, latches, data>>

\* GetBuffer, and once more when evictCacheEntry found nothing: an entry that is
\* in the page table is pinned under the latch of its partition. The second time
\* that latch is kept until GetBuffer returns.
Lookup(w) ==
  LET e == map[loc[w].page] IN
  /\ At(w, "lookup") \/ At(w, "again")
  /\ Unheld(mapLatch, loc[w].page)
  /\ \/ /\ e # 0 /\ Go(w, "hit")
        /\ cache' = Pin(cache, e) /\ loc' = [loc EXCEPT ![w].ent = e]
        /\ mapLatch' = IF pc[w] = "again" THEN Take(mapLatch, loc[w].page, w) ELSE mapLatch
        /\ UNCHANGED <<listLatch, pageLatch>>
     \/ e = 0 /\ pc[w] = "lookup" /\ Go(w, "pre1") /\ UNCHANGED <<cache, loc, latches>>
     \/ e = 0 /\ pc[w] = "again" /\ Throw(w) /\ UNCHANGED cache
  /\ UNCHANGED <<map, P, bufs, freeHead>> /\ Rest

-----------------------------------------------------------------------------
(* preinsertCleanup                                                         *)

\* The latches of B1 and then of T1, for their sizes; B2 and T2 likewise.
LatchGhosts(w) ==
  /\ \/ At(w, "pre1") /\ Unheld(listLatch, "B1") /\ listLatch' = Take(listLatch, "B1", w) /\ Go(w, "pre2")
     \/ At(w, "pre3") /\ Unheld(listLatch, "B2") /\ listLatch' = Take(listLatch, "B2", w) /\ Go(w, "pre4")
  /\ UNCHANGED <<cache, map, P, bufs, freeHead, mapLatch, pageLatch, loc>> /\ Rest

RecencySizes(w) ==
  LET t1 == Size(cache, "T1")
      b1 == Size(cache, "B1") IN
  /\ At(w, "pre2") /\ Unheld(listLatch, "T1")
  /\ listLatch' = Drop(listLatch, "B1")
  /\ \/ /\ (t1 + b1) % Width >= npages /\ t1 < npages /\ Go(w, "forget")
        /\ loc' = [loc EXCEPT ![w].list = "B1"]
     \/ /\ (t1 + b1) % Width >= npages /\ t1 >= npages /\ Go(w, "vacate")
        /\ loc' = [loc EXCEPT ![w].list = "T1", ![w].ret = "evict"]
     \/ /\ (t1 + b1) % Width < npages /\ Go(w, "pre3")
        /\ loc' = [loc EXCEPT ![w].t1 = t1, ![w].b1 = b1]
  /\ UNCHANGED <<cache, map, P, bufs, freeHead, mapLatch, pageLatch>> /\ Rest

FrequencySizes(w) ==
  LET sum == (loc[w].t1 + loc[w].b1 + Size(cache, "T2") + Size(cache, "B2")) % Width IN
  /\ At(w, "pre4") /\ Unheld(listLatch, "T2")
  /\ listLatch' = Drop(listLatch, "B2")
  /\ \/ sum < npages /\ Go(w, "evict") /\ loc' = [loc EXCEPT ![w] = Kept(w)]
     \/ /\ sum >= npages /\ sum # 2 * npages /\ Go(w, "adjust")
        /\ loc' = [loc EXCEPT ![w] = [Kept(w) EXCEPT !.p = P]]
     \/ sum = 2 * npages /\ Go(w, "forget") /\ loc' = [loc EXCEPT ![w] = [Kept(w) EXCEPT !.list = "B2"]]
  /\ UNCHANGED <<cache, map, P, bufs, freeHead, mapLatch, pageLatch>> /\ Rest

\* forgetAnyEntry latches the list and walks it from its tail.
ForgetStart(w) ==
  /\ At(w, "forget") /\ Unheld(listLatch, loc[w].list)
  /\ listLatch' = Take(listLatch, loc[w].list, w)
  /\ loc' = [loc EXCEPT ![w].it = cache.list[loc[w].list].tail]
  /\ Go(w, "forgetScan")
  /\ UNCHANGED <<cache, map, P, bufs, freeHead, mapLatch, pageLatch>> /\ Rest

\* An entry that nobody pins leaves the page table. It stays in its list.
ForgetScan(w) ==
  LET e == loc[w].it
      t == It(w).tag IN
  /\ At(w, "forgetScan")
  /\ \/ /\ e = 0 /\ Go(w, "adjust")
        /\ listLatch' = DropAll(listLatch, w)
        /\ loc' = [loc EXCEPT ![w] = [Kept(w) EXCEPT !.p = P]]
        /\ UNCHANGED <<map, mapLatch, pageLatch, hist>>
     \/ /\ e # 0 /\ It(w).refs # 0
        /\ loc' = [loc EXCEPT ![w].it = It(w).prev]
        /\ UNCHANGED <<map, latches, pc, hist>>
     \/ /\ e # 0 /\ It(w).refs = 0 /\ PartitionFree(t) /\ ~Mapped(t)
        /\ Throw(w) /\ UNCHANGED <<map, hist>>
     \/ /\ e # 0 /\ It(w).refs = 0 /\ PartitionFree(t) /\ Mapped(t)
        /\ map' = Unmap(t) /\ hist' = Forgotten(e, {}) /\ Go(w, "forgetFree")
        /\ UNCHANGED <<latches, loc>>
  /\ UNCHANGED <<cache, P, bufs, freeHead>>
  /\ UNCHANGED <<npages, disk, latest, calls>>

ForgetFree(w) ==
  /\ At(w, "forgetFree") /\ Unheld(listLatch, "Free")
  /\ cache' = InsertMRU(cache, "Free", loc[w].it)
  /\ listLatch' = DropAll(listLatch, w)
  /\ loc' = [loc EXCEPT ![w] = [Kept(w) EXCEPT !.p = P]]
  /\ Go(w, "adjust")
  /\ UNCHANGED <<map, P, bufs, freeHead, mapLatch, pageLatch>> /\ Rest

-----------------------------------------------------------------------------
(* adjust and tryVacateEntry                                                *)

\* The list to take a page from; its latch is taken later.
Adjust(w) ==
  LET t1 == Size(cache, "T1")
      recency == t1 > 0 /\ (t1 > loc[w].p \/ (t1 = loc[w].p /\ loc[w].fq)) IN
  /\ At(w, "adjust") /\ Unheld(listLatch, "T1")
  /\ loc' = [loc EXCEPT ![w].list = IF recency THEN "T1" ELSE "T2"]
  /\ Go(w, "vacate")
  /\ UNCHANGED <<cache, map, P, bufs, freeHead, latches>> /\ Rest

VacateStart(w) ==
  /\ At(w, "vacate") /\ Unheld(listLatch, loc[w].list)
  /\ listLatch' = Take(listLatch, loc[w].list, w)
  /\ loc' = [loc EXCEPT ![w].it = cache.list[loc[w].list].tail]
  /\ Go(w, "vacScan")
  /\ UNCHANGED <<cache, map, P, bufs, freeHead, mapLatch, pageLatch>> /\ Rest

\* The walk ends, goes past a pinned entry, or pins an entry to vacate it.
VacateScan(w) ==
  /\ At(w, "vacScan")
  /\ \/ /\ loc[w].it = 0 /\ Go(w, loc[w].ret)
        /\ listLatch' = DropAll(listLatch, w)
        /\ loc' = [loc EXCEPT ![w] = [Kept(w) EXCEPT !.fq = loc[w].fq]]
        /\ UNCHANGED cache
     \/ /\ loc[w].it # 0 /\ ~It(w).locked /\ It(w).refs > 0
        /\ loc' = [loc EXCEPT ![w].it = It(w).prev]
        /\ UNCHANGED <<cache, listLatch, pc>>
     \/ /\ loc[w].it # 0 /\ ~It(w).locked /\ It(w).refs = 0
        /\ cache' = Pin(cache, loc[w].it) /\ Go(w, "flush")
        /\ UNCHANGED <<listLatch, loc>>
  /\ UNCHANGED <<map, P, bufs, freeHead, mapLatch, pageLatch>> /\ Rest

\* FlushBuffer: an entry that is not dirty needs no I/O (ShouldStartIO).
Flush(w) ==
  /\ At(w, "flush") /\ ~It(w).locked /\ ~It(w).io
  /\ \/ ~It(w).dirty /\ Go(w, "vacCheck") /\ UNCHANGED cache
     \/ /\ It(w).dirty /\ Go(w, "flushIO")
        /\ cache' = [cache EXCEPT !.ent[loc[w].it].io = TRUE]
  /\ UNCHANGED <<map, P, bufs, freeHead, latches, loc>> /\ Rest

\* Mutant: the file is synced but not written.
FlushWriteSkipped(w) ==
  /\ At(w, "flushIO") /\ It(w).buf # 0 /\ Unheld(pageLatch, It(w).buf)
  /\ pageLatch' = Take(pageLatch, It(w).buf, w) /\ Go(w, "flushEnd")
  /\ UNCHANGED <<cache, map, P, bufs, freeHead, listLatch, mapLatch, loc>> /\ Rest

\* The page latch is taken, the page written and synced...
FlushWrite(w) ==
  LET b == It(w).buf
      t == It(w).tag IN
  /\ At(w, "flushIO")
  /\ \/ b = 0 /\ Fault /\ UNCHANGED <<pageLatch, disk, hist, pc>>
     \/ /\ b # 0 /\ Unheld(pageLatch, b)
        /\ pageLatch' = Take(pageLatch, b, w)
        /\ \/ /\ disk' = Written(disk, t, bufs[b].version) /\ Go(w, "flushEnd")
              /\ hist' = [hist EXCEPT !.raced = IF t > Len(disk) THEN @ \cup {Len(disk) + 1} ELSE @,
                                      !.dropped = IF It(w).valid THEN @ ELSE @ \cup {t}]
           \/ IoFails /\ Go(w, "flushFailed") /\ UNCHANGED <<disk, hist>>
        /\ UNCHANGED cache
  /\ UNCHANGED <<map, P, bufs, freeHead, listLatch, mapLatch, loc>>
  /\ UNCHANGED <<npages, latest, calls>>

\* ... TerminateBufferIO: IoError is the bit of Dirty.
Terminated(e, ok) ==
  [cache EXCEPT !.ent[e] = [@ EXCEPT !.io = FALSE, !.dirty = ~ok, !.valid = ok \/ cache.ent[e].valid]]

FlushEnd(w) ==
  /\ At(w, "flushEnd") \/ At(w, "flushFailed")
  /\ ~It(w).locked
  /\ \/ /\ pc[w] = "flushEnd" /\ Go(w, "vacCheck")
        /\ cache' = Terminated(loc[w].it, TRUE)
        /\ pageLatch' = DropAll(pageLatch, w)
        /\ UNCHANGED <<listLatch, mapLatch, loc>>
     \/ pc[w] = "flushFailed" /\ Throw(w) /\ cache' = Terminated(loc[w].it, FALSE)
  /\ UNCHANGED <<map, P, bufs, freeHead>> /\ Rest

\* Somebody pinned the entry meanwhile: it is left, with this worker's pin.
GhostList(w) == IF loc[w].list = "T2" THEN "B2" ELSE "B1"

VacateCheck(w) ==
  /\ At(w, "vacCheck") /\ ~It(w).locked
  /\ \/ /\ It(w).refs # 1 /\ Go(w, "vacScan")
        /\ loc' = [loc EXCEPT ![w].it = It(w).prev] /\ UNCHANGED listLatch
     \/ /\ It(w).refs = 1 /\ Unheld(listLatch, GhostList(w)) /\ Go(w, "vacLock")
        /\ listLatch' = Take(listLatch, GhostList(w), w) /\ UNCHANGED loc
  /\ UNCHANGED <<cache, map, P, bufs, freeHead, mapLatch, pageLatch>> /\ Rest

\* Mutant: the pins are not counted again under the lock of the ghost list.
VacateLockBlind(w) ==
  /\ At(w, "vacLock") /\ ~It(w).locked /\ Go(w, "ghostify")
  /\ cache' = [cache EXCEPT !.ent[loc[w].it].locked = TRUE]
  /\ UNCHANGED <<map, P, bufs, freeHead, latches, loc>> /\ Rest

VacateLock(w) ==
  /\ At(w, "vacLock") /\ ~It(w).locked
  /\ \/ /\ It(w).refs # 1 /\ Go(w, "vacScan")
        /\ loc' = [loc EXCEPT ![w].it = It(w).prev]
        /\ listLatch' = Drop(listLatch, GhostList(w)) /\ UNCHANGED cache
     \/ /\ It(w).refs = 1 /\ Go(w, "ghostify")
        /\ cache' = [cache EXCEPT !.ent[loc[w].it].locked = TRUE]
        /\ UNCHANGED <<listLatch, loc>>
  /\ UNCHANGED <<map, P, bufs, freeHead, mapLatch, pageLatch>> /\ Rest

\* The entry gives its buffer up and becomes a ghost. It is not taken out of
\* the T list, whose links it shares.
Ghostify(w) ==
  LET e == loc[w].it
      c == [Unpin(cache, e) EXCEPT !.ent[e] =
              [@ EXCEPT !.buf = 0, !.top = FALSE, !.freq = (loc[w].list = "T2"), !.locked = FALSE]] IN
  /\ At(w, "ghostify")
  /\ cache' = InsertMRU(c, GhostList(w), e)
  /\ listLatch' = Drop(listLatch, GhostList(w))
  /\ loc' = [loc EXCEPT ![w].buf = It(w).buf]
  /\ Go(w, "addFree")
  /\ hist' = IF It(w).dirty THEN [hist EXCEPT !.dropped = @ \cup {It(w).tag}] ELSE hist
  /\ UNCHANGED <<map, P, bufs, freeHead, mapLatch, pageLatch>>
  /\ UNCHANGED <<npages, disk, latest, calls>>

\* LinkedList::Add
AddFree(w) ==
  LET b == loc[w].buf IN
  /\ At(w, "addFree")
  /\ \/ /\ b = 0 /\ Fault /\ UNCHANGED <<bufs, freeHead, listLatch, pc, loc>>
     \/ /\ b # 0 /\ bufs' = [bufs EXCEPT ![b].next = freeHead] /\ freeHead' = b
        /\ listLatch' = DropAll(listLatch, w)
        /\ loc' = [loc EXCEPT ![w] = [Kept(w) EXCEPT !.fq = loc[w].fq]] /\ Go(w, loc[w].ret)
        /\ UNCHANGED cache
  /\ UNCHANGED <<map, P, mapLatch, pageLatch>> /\ Rest

-----------------------------------------------------------------------------
(* evictCacheEntry                                                          *)

\* The free list first, then B1, then B2, each from its tail.
EvictStart(w) ==
  /\ At(w, "evict") /\ Unheld(listLatch, "Free")
  /\ listLatch' = Take(listLatch, "Free", w)
  /\ loc' = [loc EXCEPT ![w].it = cache.list["Free"].tail]
  /\ Go(w, "popScan")
  /\ UNCHANGED <<cache, map, P, bufs, freeHead, mapLatch, pageLatch>> /\ Rest

\* PopTail. RemoveEntry throws with the entry locked when the size says empty.
PopTail(w) ==
  /\ At(w, "popScan")
  /\ \/ /\ loc[w].it = 0 /\ Go(w, "evictGhost")
        /\ loc' = [loc EXCEPT ![w] = [Kept(w) EXCEPT !.list = "B1"]]
        /\ listLatch' = DropAll(listLatch, w)
        /\ UNCHANGED <<cache, mapLatch, pageLatch, hist>>
     \/ /\ loc[w].it # 0 /\ ~It(w).locked /\ It(w).refs # 0
        /\ loc' = [loc EXCEPT ![w].it = It(w).prev]
        /\ UNCHANGED <<cache, latches, pc, hist>>
     \/ /\ loc[w].it # 0 /\ ~It(w).locked /\ It(w).refs = 0 /\ ~CanRemove(cache, "Free")
        /\ cache' = [cache EXCEPT !.ent[loc[w].it].locked = TRUE] /\ Throw(w) /\ UNCHANGED hist
     \/ /\ loc[w].it # 0 /\ ~It(w).locked /\ It(w).refs = 0 /\ CanRemove(cache, "Free")
        /\ cache' = Popped(cache, loc[w].it)
        /\ loc' = [loc EXCEPT ![w] = [Kept(w) EXCEPT !.ent = loc[w].it]] /\ Go(w, "tearDown")
        /\ hist' = Hurt(IF \E p \in Pages : map[p] = loc[w].it THEN {loc[w].it}
                        ELSE TakenTwice(w, loc[w].it))
        /\ UNCHANGED latches
  /\ UNCHANGED <<map, P, bufs, freeHead>>
  /\ UNCHANGED <<npages, disk, latest, calls>>

EvictGhostStart(w) ==
  /\ At(w, "evictGhost") /\ Unheld(listLatch, loc[w].list)
  /\ listLatch' = Take(listLatch, loc[w].list, w)
  /\ loc' = [loc EXCEPT ![w].it = cache.list[loc[w].list].tail]
  /\ Go(w, "evictScan")
  /\ UNCHANGED <<cache, map, P, bufs, freeHead, mapLatch, pageLatch>> /\ Rest

EvictScan(w) ==
  LET e == loc[w].it
      t == It(w).tag
      l == loc[w].list IN
  /\ At(w, "evictScan")
  /\ \/ /\ e = 0 /\ listLatch' = DropAll(listLatch, w)
        /\ \/ l = "B1" /\ Go(w, "evictGhost") /\ loc' = [loc EXCEPT ![w].list = "B2"]
           \/ l = "B2" /\ Go(w, "setup") /\ loc' = [loc EXCEPT ![w] = Kept(w)]
        /\ UNCHANGED <<cache, map, mapLatch, pageLatch, hist>>
     \/ /\ e # 0 /\ ~It(w).locked /\ It(w).refs # 0
        /\ loc' = [loc EXCEPT ![w].it = It(w).prev]
        /\ UNCHANGED <<cache, map, latches, pc, hist>>
     \/ /\ e # 0 /\ ~It(w).locked /\ It(w).refs = 0 /\ PartitionFree(t)
        /\ ~(Mapped(t) /\ CanRemove(cache, l))
        /\ map' = Unmap(t) /\ hist' = Forgotten(e, {}) /\ Throw(w) /\ UNCHANGED cache
     \/ /\ e # 0 /\ ~It(w).locked /\ It(w).refs = 0 /\ PartitionFree(t)
        /\ Mapped(t) /\ CanRemove(cache, l)
        /\ map' = Unmap(t) /\ hist' = Forgotten(e, TakenTwice(w, e))
        /\ cache' = RemoveEntry(cache, l, e)
        /\ listLatch' = DropAll(listLatch, w)
        /\ loc' = [loc EXCEPT ![w] = [Kept(w) EXCEPT !.ent = e]] /\ Go(w, "tearDown")
        /\ UNCHANGED <<mapLatch, pageLatch>>
  /\ UNCHANGED <<P, bufs, freeHead>>
  /\ UNCHANGED <<npages, disk, latest, calls>>

\* "Entry not in any list and accessed only by us" (BufferManager.cpp:195); it
\* may still be in a T list, where another worker can pin it.
Torn(w) == Hurt(IF Ent(w).refs = 0 THEN {} ELSE {loc[w].ent})

\* History: the page t gets a torn entry.
Blemished(h, e, t) == [h EXCEPT !.dropped = IF e \in h.torn THEN @ \cup {t} ELSE @]

ClearEntry(w) ==
  /\ At(w, "tearDown") /\ Go(w, "setup")
  /\ cache' = TearDown(cache, loc[w].ent) /\ hist' = Torn(w)
  /\ listLatch' = DropAll(listLatch, w)
  /\ UNCHANGED <<map, P, bufs, freeHead, mapLatch, pageLatch, loc>>
  /\ UNCHANGED <<npages, disk, latest, calls>>

-----------------------------------------------------------------------------
(* The rest of GetBuffer and ExtendRelation: the new entry                  *)

\* GetBuffer prepares its entry before it is in the page table.
PrepareEntry(w) ==
  LET e == loc[w].ent IN
  /\ At(w, "setup") /\ loc[w].op = "get"
  /\ \/ e = 0 /\ Go(w, "again") /\ UNCHANGED <<cache, hist>>
     \/ /\ e # 0 /\ Go(w, "insert") /\ hist' = Blemished(Torn(w), e, loc[w].page)
        /\ cache' = [TearDown(cache, e) EXCEPT !.ent[e] = [@ EXCEPT !.tag = loc[w].page, !.tagValid = TRUE]]
  /\ UNCHANGED <<map, P, bufs, freeHead, latches, loc>>
  /\ UNCHANGED <<npages, disk, latest, calls>>

\* ExtendRelation takes the number of pages of the file for the new page.
CountPages(w) ==
  /\ At(w, "setup") /\ loc[w].op = "extend"
  /\ \/ loc[w].ent = 0 /\ Throw(w)
     \/ /\ loc[w].ent # 0 /\ Len(disk) < MaxPages
        /\ loc' = [loc EXCEPT ![w].page = Len(disk) + 1] /\ Go(w, "insert")
        /\ UNCHANGED latches
  /\ UNCHANGED <<cache, map, P, bufs, freeHead>> /\ Rest

\* The entry enters the page table and is pinned, under the partition's latch;
\* or another worker was first: its entry is pinned and this one given back.
InsertEntry(w) ==
  LET e == loc[w].ent
      t == loc[w].page
      x == map[t]
      get == loc[w].op = "get"
      raced == [hist EXCEPT !.raced = IF ~get /\ (x # 0 \/ t <= Len(disk)) THEN @ \cup {t} ELSE @] IN
  /\ At(w, "insert") /\ Unheld(mapLatch, t)
  /\ \/ /\ x = 0 /\ map' = [map EXCEPT ![t] = e]
        /\ cache' = [cache EXCEPT !.ent[e] =
                        [@ EXCEPT !.refs = Ent(w).refs + 1, !.top = Ent(w).top \/ get, !.tag = t, !.tagValid = TRUE]]
        /\ mapLatch' = Take(mapLatch, t, w) /\ Go(w, "loadFree")
        /\ hist' = Blemished(raced, e, t) /\ UNCHANGED loc
     \/ /\ x # 0 /\ cache' = Pin(cache, x)
        /\ loc' = [loc EXCEPT ![w].ent = x, ![w].it = e] /\ Go(w, "giveBack")
        /\ hist' = raced /\ UNCHANGED <<map, mapLatch>>
  /\ UNCHANGED <<P, bufs, freeHead, listLatch, pageLatch>>
  /\ UNCHANGED <<npages, disk, latest, calls>>

\* LinkedList::Get: the head and its successor are read, then exchanged.
LoadFree(w) ==
  /\ At(w, "loadFree")
  /\ \/ /\ freeHead = 0 /\ map' = Unmap(loc[w].page)
        /\ mapLatch' = Drop(mapLatch, loc[w].page)
        /\ loc' = [loc EXCEPT ![w].it = loc[w].ent, ![w].ent = 0] /\ Go(w, "giveBack")
     \/ /\ freeHead # 0 /\ Go(w, "takeFree")
        /\ loc' = [loc EXCEPT ![w].buf = freeHead, ![w].next = bufs[freeHead].next]
        /\ UNCHANGED <<map, mapLatch>>
  /\ UNCHANGED <<cache, P, bufs, freeHead, listLatch, pageLatch>> /\ Rest

\* Mutant: the head is replaced without comparing it.
TakeFreeBlind(w) ==
  LET e == loc[w].ent IN
  /\ At(w, "takeFree") /\ freeHead' = loc[w].next
  /\ loc' = [loc EXCEPT ![w].buf = 0, ![w].next = 0]
  /\ ~Ent(w).locked /\ Go(w, IF loc[w].op = "get" THEN "toT1" ELSE "toT1first")
  /\ cache' = [cache EXCEPT !.ent[e] = [@ EXCEPT !.buf = loc[w].buf, !.locked = (loc[w].op = "get")]]
  /\ mapLatch' = IF loc[w].op = "get" THEN Drop(mapLatch, loc[w].page) ELSE mapLatch
  /\ UNCHANGED <<map, P, bufs, listLatch, pageLatch>> /\ Rest

\* With its buffer the entry is locked before the latch of the table is let go.
TakeFree(w) ==
  LET e == loc[w].ent IN
  /\ At(w, "takeFree")
  /\ \/ freeHead # loc[w].buf /\ Go(w, "loadFree") /\ UNCHANGED <<cache, freeHead, mapLatch, loc, hist>>
     \/ /\ freeHead = loc[w].buf /\ freeHead' = loc[w].next
        /\ hist' = [hist EXCEPT !.aba = @ \/ loc[w].next # bufs[freeHead].next]
        /\ loc' = [loc EXCEPT ![w].buf = 0, ![w].next = 0]
        /\ \/ /\ loc[w].op = "get" /\ ~Ent(w).locked /\ Go(w, "toT1")
              /\ cache' = [cache EXCEPT !.ent[e] = [@ EXCEPT !.buf = loc[w].buf, !.locked = TRUE]]
              /\ mapLatch' = Drop(mapLatch, loc[w].page)
           \/ /\ loc[w].op = "extend" /\ Go(w, "toT1first")
              /\ cache' = [cache EXCEPT !.ent[e].buf = loc[w].buf]
              /\ UNCHANGED mapLatch
  /\ UNCHANGED <<map, P, bufs, listLatch, pageLatch>>
  /\ UNCHANGED <<npages, disk, latest, calls>>

\* No buffer, or another worker's entry: the entry goes to the free list as it
\* is. Without a buffer the call throws.
GiveBack(w) ==
  /\ At(w, "giveBack") /\ Unheld(listLatch, "Free")
  /\ cache' = InsertMRU(cache, "Free", loc[w].it)
  /\ \/ loc[w].ent = 0 /\ Throw(w)
     \/ /\ loc[w].ent # 0 /\ Go(w, IF loc[w].op = "get" THEN "hit" ELSE "extendHit")
        /\ loc' = [loc EXCEPT ![w] = Kept(w)] /\ UNCHANGED latches
  /\ UNCHANGED <<map, P, bufs, freeHead>> /\ Rest

\* ExtendRelation puts the entry into T1 twice, first under the table's latch.
FirstToT1(w) ==
  LET e == loc[w].ent
      c == InsertMRU(cache, "T1", e) IN
  /\ At(w, "toT1first") /\ Unheld(listLatch, "T1") /\ ~Ent(w).locked
  /\ cache' = [c EXCEPT !.ent[e] = [@ EXCEPT !.top = TRUE, !.locked = TRUE]]
  /\ mapLatch' = Drop(mapLatch, loc[w].page)
  /\ Go(w, "toT1")
  /\ UNCHANGED <<map, P, bufs, freeHead, listLatch, pageLatch, loc>> /\ Rest

ToT1(w) ==
  LET e == loc[w].ent
      c == InsertMRU(cache, "T1", e) IN
  /\ At(w, "toT1") /\ Unheld(listLatch, "T1")
  /\ cache' = [c EXCEPT !.ent[e] = [@ EXCEPT !.top = TRUE, !.locked = FALSE]]
  /\ Go(w, IF loc[w].op = "get" THEN "data" ELSE "extendIO")
  /\ UNCHANGED <<map, P, bufs, freeHead, latches, loc>> /\ Rest

-----------------------------------------------------------------------------
(* handleCacheHit and handleGhostHit                                        *)

\* The entry's lock is awaited, for the worker that is inserting it.
Hit(w) ==
  /\ At(w, "hit") /\ ~Ent(w).locked
  /\ Go(w, IF ~Ent(w).top THEN "ghostHit" ELSE IF Ent(w).freq THEN "hitT2" ELSE "hitT1")
  /\ loc' = [loc EXCEPT ![w].fq = ~Ent(w).top /\ Ent(w).freq]
  /\ UNCHANGED <<cache, map, P, bufs, freeHead, latches>> /\ Rest

\* ExtendRelation does not wait for it.
ExtendHit(w) ==
  /\ At(w, "extendHit") /\ Go(w, IF Ent(w).top THEN "extendAgain" ELSE "ghostHit")
  /\ loc' = [loc EXCEPT ![w].fq = ~Ent(w).top /\ Ent(w).freq]
  /\ UNCHANGED <<cache, map, P, bufs, freeHead, latches>> /\ Rest

\* A second hit moves the page from T1 to T2, also when another hit has moved
\* it already; further hits move it to the head of T2.
CacheHit(w) ==
  LET e == loc[w].ent
      c == InsertMRU(RemoveEntry(cache, "T1", e), "T2", e)
      moved == \/ pc[w] = "hitT2"
               \/ ~Ent(w).top /\ Ent(w).freq
      l == IF moved THEN "T2" ELSE "T1"
      throws == ~CanRemove(cache, l) IN
  /\ (At(w, "hitT1") /\ Unheld(listLatch, "T1")) \/ At(w, "hitT2")
  /\ Unheld(listLatch, "T2") /\ ~Ent(w).locked
  /\ \/ throws /\ cache' = [cache EXCEPT !.ent[e].locked = TRUE] /\ Throw(w)
     \/ /\ ~throws /\ Go(w, "data")
        /\ cache' = IF moved THEN MoveMRU(cache, "T2", e) ELSE [c EXCEPT !.ent[e].freq = TRUE]
        /\ UNCHANGED <<latches, loc>>
  /\ UNCHANGED <<map, P, bufs, freeHead>> /\ Rest

\* The sizes of the ghost lists, and the quotient of them that P is moved by.
GhostSizes(w) ==
  LET b1 == Size(cache, "B1")
      b2 == Size(cache, "B2")
      zero == IF loc[w].fq THEN b1 < b2 /\ b1 = 0 ELSE b2 < b1 /\ b2 = 0
      delta == IF loc[w].fq THEN (IF b1 >= b2 THEN 1 ELSE b2 \div b1)
                            ELSE (IF b2 >= b1 THEN 1 ELSE b1 \div b2)
      up == (P + delta) % Width IN
  /\ At(w, "ghostHit") /\ Unheld(listLatch, "B1") /\ Unheld(listLatch, "B2")
  /\ \/ zero /\ Fault /\ UNCHANGED <<P, loc, pc>>
     \/ /\ ~zero /\ UNCHANGED cache
        /\ P' = IF loc[w].fq THEN (IF up < npages THEN up ELSE npages)
                             ELSE (P + Width - delta) % Width
        /\ loc' = [loc EXCEPT ![w].p = P, ![w].ret = "ghostMove"] /\ Go(w, "adjust")
  /\ UNCHANGED <<map, bufs, freeHead, latches>> /\ Rest

\* The ghost moves to T2. It gets no buffer. The lists are exchanged: an entry
\* of B2 is taken out of B1 and the other way round.
GhostMove(w) ==
  LET e == loc[w].ent
      l == IF loc[w].fq THEN "B1" ELSE "B2"
      same == ~Ent(w).top /\ Ent(w).freq = loc[w].fq
      c == InsertMRU(RemoveEntry(cache, l, e), "T2", e)
      next == IF loc[w].op = "get" THEN "data" ELSE "extendAgain" IN
  /\ At(w, "ghostMove") /\ Unheld(listLatch, l) /\ Unheld(listLatch, "T2") /\ ~Ent(w).locked
  /\ \/ ~same /\ Go(w, next) /\ loc' = [loc EXCEPT ![w] = Kept(w)] /\ UNCHANGED <<cache, latches>>
     \/ /\ same /\ ~CanRemove(cache, l) /\ Throw(w)
        /\ cache' = [cache EXCEPT !.ent[e].locked = TRUE]
     \/ /\ same /\ CanRemove(cache, l) /\ Go(w, next)
        /\ cache' = [c EXCEPT !.ent[e] = [@ EXCEPT !.top = TRUE, !.freq = TRUE]]
        /\ loc' = [loc EXCEPT ![w] = Kept(w)] /\ UNCHANGED latches
  /\ UNCHANGED <<map, P, bufs, freeHead>> /\ Rest

-----------------------------------------------------------------------------
(* Input                                                                    *)

\* Mutant: ShouldStartIO does not wait for the I/O in progress.
StartReadAtOnce(w) ==
  /\ At(w, "data") /\ ~Ent(w).valid /\ ~Ent(w).locked /\ Go(w, "readIO")
  /\ cache' = [cache EXCEPT !.ent[loc[w].ent].io = TRUE]
  /\ UNCHANGED <<map, P, bufs, freeHead, latches, loc>> /\ Rest

\* ReadBuffer and ShouldStartIO(true): a valid page needs no read; somebody
\* else's I/O is awaited.
StartRead(w) ==
  /\ At(w, "data")
  /\ \/ Ent(w).valid /\ Over(w, "hold") /\ UNCHANGED cache
     \/ /\ ~Ent(w).valid /\ ~Ent(w).locked /\ ~Ent(w).io /\ Go(w, "readIO")
        /\ cache' = [cache EXCEPT !.ent[loc[w].ent].io = TRUE]
        /\ UNCHANGED latches
  /\ UNCHANGED <<map, P, bufs, freeHead, loc>> /\ Rest

\* The page is read under its latch. ExtendRelation writes zeroes instead, to
\* the file and to the buffer: a new version of the page.
ReadPage(w) ==
  LET b == Ent(w).buf
      t == loc[w].page IN
  /\ At(w, "readIO")
  /\ \/ b = 0 /\ Fault /\ UNCHANGED <<bufs, pageLatch, data, pc>>
     \/ /\ b # 0 /\ Unheld(pageLatch, b)
        /\ pageLatch' = Take(pageLatch, b, w)
        /\ \/ /\ loc[w].op = "get" /\ Ent(w).tag \in DOMAIN disk /\ Go(w, "readEnd")
              /\ bufs' = [bufs EXCEPT ![b].version = disk[Ent(w).tag]]
              /\ UNCHANGED data
           \/ /\ loc[w].op = "extend" /\ Go(w, "readEnd")
              /\ latest' = [latest EXCEPT ![t] = @ + 1]
              /\ bufs' = [bufs EXCEPT ![b].version = latest'[t]]
              /\ disk' = Written(disk, t, latest'[t])
              /\ hist' = [hist EXCEPT !.raced = IF map[t] = loc[w].ent THEN @ ELSE @ \cup {t}]
           \/ /\ IoFails \/ (loc[w].op = "get" /\ Ent(w).tag > Len(disk))
              /\ Go(w, "readFailed") /\ UNCHANGED <<bufs, data>>
        /\ UNCHANGED cache
  /\ UNCHANGED <<map, P, freeHead, listLatch, mapLatch, loc>> /\ UNCHANGED <<npages, calls>>

ReadEnd(w) ==
  /\ At(w, "readEnd") \/ At(w, "readFailed")
  /\ ~Ent(w).locked
  /\ \/ /\ pc[w] = "readEnd" /\ Over(w, "hold") /\ cache' = Terminated(loc[w].ent, TRUE)
        /\ UNCHANGED loc
     \/ pc[w] = "readFailed" /\ Throw(w) /\ cache' = Terminated(loc[w].ent, FALSE)
  /\ UNCHANGED <<map, P, bufs, freeHead>> /\ Rest

\* ExtendRelation: "Only 1 worker can invoke extend, so this call must succeed"
\* (688); the result is not used.
ExtendIO(w) ==
  /\ At(w, "extendIO") /\ ~Ent(w).locked /\ ~Ent(w).io /\ Go(w, "readIO")
  /\ cache' = [cache EXCEPT !.ent[loc[w].ent].io = @ \/ ~Ent(w).valid]
  /\ UNCHANGED <<map, P, bufs, freeHead, latches, loc>> /\ Rest

\* The page of an extension that failed, or of another worker, is not valid any
\* more; then its I/O is started.
Invalidate(w) ==
  /\ At(w, "extendAgain") /\ ~Ent(w).locked /\ Go(w, "extendStart")
  /\ cache' = [cache EXCEPT !.ent[loc[w].ent].valid = FALSE]
  /\ UNCHANGED <<map, P, bufs, freeHead, latches, loc>> /\ Rest

ExtendStart(w) ==
  /\ At(w, "extendStart") /\ ~Ent(w).locked /\ ~Ent(w).io
  /\ \/ Ent(w).valid /\ Go(w, "extendAgain") /\ UNCHANGED cache
     \/ /\ ~Ent(w).valid /\ Go(w, "readIO")
        /\ cache' = [cache EXCEPT !.ent[loc[w].ent].io = TRUE]
  /\ UNCHANGED <<map, P, bufs, freeHead, latches, loc>> /\ Rest

-----------------------------------------------------------------------------
(* The user of the page                                                     *)

\* A change under the page latch. UPDATE calls MarkDirty, INSERT does not.
WritePage(w) ==
  LET b == Ent(w).buf
      t == loc[w].page IN
  /\ At(w, "hold")
  /\ \/ b = 0 /\ Fault /\ UNCHANGED <<bufs, latest, hist>>
     \/ /\ b # 0 /\ Unheld(pageLatch, b) /\ latest[t] < MaxVersion
        /\ latest' = [latest EXCEPT ![t] = @ + 1]
        /\ bufs' = [bufs EXCEPT ![b].version = latest'[t]]
        /\ \/ cache' = [cache EXCEPT !.ent[loc[w].ent].dirty = TRUE] /\ UNCHANGED hist
           \/ hist' = [hist EXCEPT !.unmarked = @ \cup {t}] /\ UNCHANGED cache
  /\ UNCHANGED <<npages, map, P, freeHead, latches, disk, pc, loc, calls>>

ReturnBuffer(w) ==
  /\ At(w, "hold") /\ Go(w, "idle")
  /\ cache' = Unpin(cache, loc[w].ent)
  /\ loc' = [loc EXCEPT ![w] = NoOp]
  /\ UNCHANGED <<map, P, bufs, freeHead, latches>> /\ Rest

Next == \E w \in Workers :
  \/ StartGet(w) \/ StartExtend(w) \/ Lookup(w)
  \/ LatchGhosts(w) \/ RecencySizes(w) \/ FrequencySizes(w)
  \/ ForgetStart(w) \/ ForgetScan(w) \/ ForgetFree(w)
  \/ Adjust(w) \/ VacateStart(w) \/ VacateScan(w) \/ Flush(w) \/ FlushWrite(w) \/ FlushEnd(w)
  \/ VacateCheck(w) \/ VacateLock(w) \/ Ghostify(w) \/ AddFree(w)
  \/ EvictStart(w) \/ PopTail(w) \/ EvictGhostStart(w) \/ EvictScan(w) \/ ClearEntry(w)
  \/ PrepareEntry(w) \/ CountPages(w) \/ InsertEntry(w) \/ LoadFree(w) \/ TakeFree(w)
  \/ GiveBack(w) \/ FirstToT1(w) \/ ToT1(w)
  \/ Hit(w) \/ ExtendHit(w) \/ CacheHit(w) \/ GhostSizes(w) \/ GhostMove(w)
  \/ StartRead(w) \/ ReadPage(w) \/ ReadEnd(w) \/ ExtendIO(w) \/ Invalidate(w) \/ ExtendStart(w)
  \/ WritePage(w) \/ ReturnBuffer(w)

Spec == Init /\ [][Next]_vars

-----------------------------------------------------------------------------
(* Properties                                                               *)

\* Pointers stay within the pool; sizes and P are unsigned.
TypeOK ==
  /\ P \in 0..(Width - 1) /\ freeHead \in Buffers \cup {0} /\ cache.fault \in BOOLEAN
  /\ cache.ent \in [Entries ->
       [tag : Pages \cup {0}, refs : Nat, locked : BOOLEAN, tagValid : BOOLEAN,
        top : BOOLEAN, freq : BOOLEAN, io : BOOLEAN, dirty : BOOLEAN, valid : BOOLEAN,
        buf : Buffers \cup {0}, prev : Entries \cup {0}, next : Entries \cup {0}]]
  /\ cache.list \in [Lists ->
       [head : Entries \cup {0}, tail : Entries \cup {0}, size : 0..(Width - 1)]]
  /\ map \in [Pages -> Entries \cup {0}]
  /\ bufs \in [Buffers -> [version : Nat, next : Buffers \cup {0}]]
  /\ listLatch \in [Lists -> Workers \cup {NoWorker}]
  /\ mapLatch \in [Pages -> Workers \cup {NoWorker}]
  /\ pageLatch \in [Buffers -> Workers \cup {NoWorker}]

\* IoInProgress is a lock (CacheEntry.cpp:111, "Grab the lock (IoInProgress flag)
\* first"): at most one worker reads, writes or extends the page of an entry, and
\* the flag is set exactly while one does. Pages that two extensions raced for
\* and torn entries (see NoHistory) are excepted.
IoExclusive ==
  \A e \in Entries : cache.ent[e].tag \notin hist.raced /\ e \notin hist.torn =>
    LET doing == {w \in Workers :
          \/ loc[w].ent = e /\ pc[w] \in {"readIO", "readEnd", "readFailed"}
          \/ loc[w].it = e /\ pc[w] \in {"flushIO", "flushEnd", "flushFailed"}} IN
    /\ \A v, w \in doing : v = w
    /\ cache.ent[e].io <=> doing # {}

\* "pin ensures that no-one will evict this entry" (BufferManager.cpp:566): from
\* the return of GetBuffer or ExtendRelation to ReturnBuffer the entry is counted
\* as pinned, stays the page table's entry for the page and keeps its buffer,
\* whatever vacates, evicts and forgets meanwhile. Torn entries (see NoHistory)
\* are excepted.
PinnedStays ==
  [][\A w \in Workers :
       LET e == loc'[w].ent IN
       (pc'[w] = "hold" /\ e \notin hist'.torn) =>
         /\ cache'.ent[e].refs > 0
         /\ cache'.ent[e].tag = loc'[w].page /\ map'[loc'[w].page] = e
         /\ pc[w] = "hold" => cache'.ent[e].buf = cache.ent[e].buf]_vars

\* The user of a page sees the last change made to it, through any number of
\* evictions and reads. The ways in which the code loses a change are excepted
\* (see NoHistory): a caller that does not mark the page dirty, two extensions that
\* take the same page, a page that leaves its buffer or the page table dirty, a page
\* written that was never read, a torn entry, a buffer handed out twice.
ReadsLatest ==
  \A w \in Workers :
    LET e == loc[w].ent
        t == loc[w].page IN
    (/\ pc[w] = "hold" /\ cache.ent[e].buf # 0
     /\ t \notin hist.unmarked \cup hist.raced \cup hist.dropped /\ ~hist.aba)
      => bufs[cache.ent[e].buf].version = latest[t]

\* A buffer belongs to one entry: the lock-free stack of free buffers ("Concurrent
\* linked list implemented using atomic operations", LinkedList.hpp:20) hands none
\* out twice, also when entries are cleared under a pin. Get reads the successor
\* before it exchanges the head, which is not enough when the head was taken and
\* given back in between: that exchange is excepted.
OneOwner ==
  ~hist.aba => \A d, e \in Entries :
    d # e /\ cache.ent[d].buf # 0 => cache.ent[d].buf # cache.ent[e].buf
=============================================================================
