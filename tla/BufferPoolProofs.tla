--------------------------- MODULE BufferPoolProofs ---------------------------
(***************************************************************************)
(* Proofs about BufferPool, for any number of workers, any pool, any       *)
(* number of pages and calls and any failures of the file. In three        *)
(* layers, each on top of the one before: pointers stay within the pool    *)
(* and a buffer belongs to one entry (PoolInv); pins are counted, a pinned *)
(* entry stays and the I/O flag is a lock (UseInv); the user of a page     *)
(* reads its last version (DataInv).                                       *)
(***************************************************************************)
EXTENDS BufferPool, SequenceTheorems, FiniteSetTheorems, TLAPS

-----------------------------------------------------------------------------
(* The inductive invariant                                                  *)

Ptr == Entries \cup {0}
BufPtr == Buffers \cup {0}
EntryType ==
  [tag : Pages \cup {0}, refs : Nat, locked : BOOLEAN, tagValid : BOOLEAN,
   top : BOOLEAN, freq : BOOLEAN, io : BOOLEAN, dirty : BOOLEAN, valid : BOOLEAN,
   buf : BufPtr, prev : Ptr, next : Ptr]
ListType == [head : Ptr, tail : Ptr, size : 0..(Width - 1)]
CacheType == [ent : [Entries -> EntryType], list : [Lists -> ListType], fault : BOOLEAN]
HistType == [unmarked : SUBSET Nat, raced : SUBSET Nat, dropped : SUBSET Nat, torn : SUBSET Nat,
             aba : BOOLEAN]
LocType ==
  [op : {"none", "get", "extend"}, page : Pages \cup {0}, ent : Ptr, it : Ptr, list : Lists,
   ret : {"evict", "ghostMove"}, t1 : 0..(Width - 1), b1 : 0..(Width - 1), p : 0..(Width - 1),
   fq : BOOLEAN, buf : BufPtr, next : BufPtr]

StoreTypes ==
  /\ npages \in PoolSizes /\ P \in 0..(Width - 1)
  /\ map \in [Pages -> Ptr] /\ freeHead \in BufPtr
  /\ bufs \in [Buffers -> [version : Nat, next : BufPtr]]
  /\ disk \in Seq(Nat) /\ Len(disk) <= MaxPages /\ latest \in [Pages -> Nat] /\ hist \in HistType

LatchTypes ==
  /\ listLatch \in [Lists -> Workers \cup {NoWorker}]
  /\ mapLatch \in [Pages -> Workers \cup {NoWorker}]
  /\ pageLatch \in [Buffers -> Workers \cup {NoWorker}]

Labels ==
  {"idle", "lookup", "again", "pre1", "pre2", "pre3", "pre4", "forget", "forgetScan", "forgetFree",
   "adjust", "vacate", "vacScan", "flush", "flushIO", "flushEnd", "flushFailed", "vacCheck", "vacLock",
   "ghostify", "addFree", "evict", "popScan", "evictGhost", "evictScan", "tearDown", "setup", "insert",
   "loadFree", "takeFree", "giveBack", "toT1first", "toT1", "hit", "extendHit", "hitT1", "hitT2",
   "ghostHit", "ghostMove", "data", "extendIO", "extendAgain", "extendStart", "readIO", "readEnd",
   "readFailed", "hold"}

\* Where a call goes on with an entry, and where it goes on with a page.
WithEnt == {"insert", "loadFree", "takeFree", "toT1first", "toT1", "hit", "extendHit", "hitT1", "hitT2",
            "ghostHit", "ghostMove", "data", "extendIO", "extendAgain", "extendStart",
            "readIO", "readEnd", "readFailed", "hold"}
WithIt == {"forgetFree", "flush", "flushIO", "flushEnd", "flushFailed", "vacCheck", "vacLock",
           "ghostify", "giveBack"}

\* Where a call goes on in tryVacateEntry, which also the ghost hit calls.
Vacating == {"adjust", "vacate", "vacScan", "flush", "flushIO", "flushEnd", "flushFailed", "vacCheck",
             "vacLock", "ghostify", "addFree", "ghostMove"}

LocGood(label, r) ==
  /\ label \in WithEnt \cup {"tearDown"} \/ r.ret = "ghostMove" => r.ent # 0
  /\ label \in WithEnt \cup {"lookup", "again", "giveBack"} \/ r.ret = "ghostMove" \/ r.op = "get"
       => r.page # 0
  /\ label \in WithIt => r.it # 0
  /\ label = "takeFree" => r.buf # 0
  /\ r.ret = "ghostMove" => label \in Vacating

Locals ==
  /\ pc \in [Workers -> Labels] /\ loc \in [Workers -> LocType]
  /\ \A w \in Workers : LocGood(pc[w], loc[w])

\* A worker has a buffer that it is going to put on the stack.
Carries(w, b) == pc[w] = "addFree" /\ loc[w].buf = b

\* The stack of free buffers, from its head.
Stack(s, k) ==
  /\ k \in Nat /\ s \in [1..k -> Buffers]
  /\ \A i, j \in 1..k : s[i] = s[j] => i = j
  /\ freeHead = IF k = 0 THEN 0 ELSE s[1]
  /\ \A i \in 1..k : bufs[s[i]].next = IF i = k THEN 0 ELSE s[i + 1]
  /\ \A i \in 1..k : /\ \A e \in Entries : cache.ent[e].buf # s[i]
                     /\ \A w \in Workers : ~Carries(w, s[i])

\* A buffer is free, or it is an entry's, or a worker carries it.
Owners ==
  /\ \E s, k : Stack(s, k)
  /\ \A d, e \in Entries : d # e /\ cache.ent[d].buf # 0 => cache.ent[d].buf # cache.ent[e].buf
  /\ \A b \in Buffers, w \in Workers : Carries(w, b) =>
       /\ \A e \in Entries : cache.ent[e].buf # b
       /\ \A v \in Workers : Carries(v, b) => v = w

PoolInv == StoreTypes /\ LatchTypes /\ cache \in CacheType /\ Locals /\ (~hist.aba => Owners)

-----------------------------------------------------------------------------
(* The pool and its lists                                                   *)

\* The largest pool.
LEMMA PoolBounds ==
  /\ MaxPool \in Nat \ {0} /\ 2 * MaxPool < Width /\ Width \in Nat /\ Width > 0 /\ MaxPages \in Nat
  /\ \A n \in PoolSizes : n \in Nat \ {0} /\ n <= MaxPool
  /\ 0 \notin Entries /\ 0 \notin Buffers /\ 0 \notin Pages
<1>1. MaxPool \in PoolSizes /\ \A m \in PoolSizes : m <= MaxPool
  BY PoolAssumption, Zenon DEF MaxPool
<1>. QED
  BY <1>1, PoolAssumption DEF Entries, Buffers, Pages

\* Another state of an entry.
LEMMA EntrySet ==
  ASSUME NEW c \in CacheType, NEW e \in Entries, NEW r \in EntryType, r.buf = c.ent[e].buf
  PROVE  /\ [c EXCEPT !.ent[e] = r] \in CacheType
         /\ \A x \in Entries : [c EXCEPT !.ent[e] = r].ent[x].buf = c.ent[x].buf
  BY DEF CacheType

\* Fields of an entry.
LEMMA EntryFields ==
  ASSUME NEW c \in CacheType, NEW e \in Entries
  PROVE  /\ c.ent[e] \in EntryType /\ c.ent[e].tag \in Pages \cup {0} /\ c.ent[e].refs \in Nat
         /\ c.ent[e].locked \in BOOLEAN /\ c.ent[e].io \in BOOLEAN /\ c.ent[e].dirty \in BOOLEAN
         /\ c.ent[e].valid \in BOOLEAN /\ c.ent[e].top \in BOOLEAN /\ c.ent[e].freq \in BOOLEAN
         /\ c.ent[e].buf \in BufPtr /\ c.ent[e].prev \in Ptr /\ c.ent[e].next \in Ptr
BY DEF CacheType, EntryType

\* Fields of a list.
LEMMA ListFields ==
  ASSUME NEW c \in CacheType, NEW l \in Lists
  PROVE  /\ c.list[l] \in ListType /\ c.list[l].head \in Ptr /\ c.list[l].tail \in Ptr
         /\ c.list[l].size \in 0..(Width - 1) /\ Size(c, l) \in 0..(Width - 1)
BY DEF CacheType, ListType, Size

\* Another cache of the same type, with the buffers where they were.
Same(c, d) == d \in CacheType /\ \A x \in Entries : d.ent[x].buf = c.ent[x].buf

\* InsertMRU
LEMMA InsertSame ==
  ASSUME NEW c \in CacheType, NEW l \in Lists, NEW e \in Entries
  PROVE  Same(c, InsertMRU(c, l, e))
<1>. DEFINE h == c.list[l].head
<1>0. h \in Ptr /\ Size(c, l) \in 0..(Width - 1) /\ 0 \notin Entries
  BY ListFields, PoolBounds
<1>1. CASE Size(c, l) = 0
  BY <1>1, PoolBounds DEF InsertMRU, ListType, Ptr, CacheType, Same
<1>2. CASE Size(c, l) # 0 /\ h = 0
  BY <1>2 DEF InsertMRU, CacheType, Same
<1>3. CASE Size(c, l) # 0 /\ h # 0
  <2>. DEFINE r1 == [c.ent[h] EXCEPT !.prev = e]
              f1 == [c.ent EXCEPT ![h] = r1]
              r2 == [f1[e] EXCEPT !.next = h]
              f2 == [f1 EXCEPT ![e] = r2]
              m == [c.list[l] EXCEPT !.head = e, !.size = (Size(c, l) + 1) % Width]
  <2>2. InsertMRU(c, l, e) = [c EXCEPT !.ent = f2, !.list[l] = m]
    BY <1>3 DEF InsertMRU
  <2>3. h \in Entries /\ c.ent \in [Entries -> EntryType]
    BY <1>3, <1>0 DEF Ptr, CacheType
  <2>4. r1 \in EntryType /\ r1.buf = c.ent[h].buf
    BY <2>3 DEF EntryType, Ptr
  <2>. HIDE DEF r1
  <2>5. f1 \in [Entries -> EntryType] /\ \A x \in Entries : f1[x].buf = c.ent[x].buf
    BY <2>3, <2>4
  <2>. HIDE DEF f1
  <2>6. r2 \in EntryType /\ r2.buf = c.ent[e].buf
    BY <2>3, <2>5, SMTT(30) DEF EntryType, Ptr
  <2>. HIDE DEF r2
  <2>7. f2 \in [Entries -> EntryType] /\ \A x \in Entries : f2[x].buf = c.ent[x].buf
    BY <2>5, <2>6
  <2>8. (Size(c, l) + 1) % Width \in 0..(Width - 1)
    BY <1>0, PoolBounds
  <2>9. m \in ListType
    BY <2>8, ListFields DEF ListType, Ptr, Size
  <2>. HIDE DEF f2, m
  <2>10. [c EXCEPT !.ent = f2, !.list[l] = m] \in CacheType /\ [c EXCEPT !.ent = f2, !.list[l] = m].ent = f2
    BY <2>7, <2>9 DEF CacheType
  <2>. QED
    BY <2>2, <2>7, <2>10 DEF Same
<1>. QED
  BY <1>1, <1>2, <1>3

\* RemoveEntry, when the list does not say that it is empty.
LEMMA RemoveSame ==
  ASSUME NEW c \in CacheType, NEW l \in Lists, NEW e \in Entries, CanRemove(c, l)
  PROVE  /\ Same(c, RemoveEntry(c, l, e))
         /\ RemoveEntry(c, l, e).list[l].size = Size(c, l) - 1
<1>. DEFINE prev == c.ent[e].prev
            next == c.ent[e].next
            linked == [x \in Entries |->
              IF x = e THEN [c.ent[x] EXCEPT !.prev = 0, !.next = 0]
              ELSE [c.ent[x] EXCEPT !.next = IF x = prev THEN next ELSE @,
                                    !.prev = IF x = next THEN prev ELSE @]]
            rest == IF c.list[l].head = e THEN [c.list[l] EXCEPT !.head = next]
                    ELSE IF c.list[l].tail = e THEN [c.list[l] EXCEPT !.tail = prev]
                    ELSE c.list[l]
            m == [rest EXCEPT !.size = Size(c, l) - 1]
            r == [c.ent[e] EXCEPT !.prev = 0, !.next = 0]
            empty == [head |-> 0, tail |-> 0, size |-> 0]
<1>0. /\ Size(c, l) \in 1..(Width - 1) /\ 0 \in Ptr /\ prev \in Ptr /\ next \in Ptr
      /\ c.list[l] \in ListType /\ c.ent \in [Entries -> EntryType] /\ c.ent[e] \in EntryType
  BY ListFields, EntryFields, PoolBounds DEF CanRemove, Ptr, CacheType
<1>1. CASE Size(c, l) = 1
  <2>1. RemoveEntry(c, l, e) = [c EXCEPT !.list[l] = empty, !.ent[e] = r]
    BY <1>1 DEF RemoveEntry
  <2>2. empty \in ListType /\ empty.size = 0
    BY PoolBounds DEF ListType, Ptr
  <2>3. r \in EntryType /\ r.buf = c.ent[e].buf
    BY <1>0 DEF EntryType, Ptr
  <2>. HIDE DEF r, empty
  <2>4. [c EXCEPT !.list[l] = empty] \in CacheType
        /\ [c EXCEPT !.list[l] = empty].ent = c.ent /\ [c EXCEPT !.list[l] = empty].list[l] = empty
    BY <2>2 DEF CacheType
  <2>. DEFINE d == [c EXCEPT !.list[l] = empty]
  <2>5. RemoveEntry(c, l, e) = [d EXCEPT !.ent[e] = r]
    BY <2>1
  <2>. HIDE DEF d
  <2>6. d \in CacheType /\ d.ent = c.ent /\ d.list[l] = empty
    BY <2>4 DEF d
  <2>7. [d EXCEPT !.ent[e] = r].list = d.list
    BY <2>6 DEF CacheType
  <2>. QED
    BY <1>1, <2>2, <2>3, <2>5, <2>6, <2>7, EntrySet DEF Same
<1>2. CASE Size(c, l) # 1
  <2>1. RemoveEntry(c, l, e) = [c EXCEPT !.ent = linked, !.list[l] = m]
    BY <1>2 DEF RemoveEntry
  <2>2. \A x \in Entries : c.ent[x] \in EntryType
    BY <1>0
  <2>3. linked \in [Entries -> EntryType] /\ \A x \in Entries : linked[x].buf = c.ent[x].buf
    BY <1>0, <2>2, ZenonT(60) DEF EntryType
  <2>4. rest \in ListType
    BY <1>0 DEF ListType
  <2>. HIDE DEF rest
  <2>5. m \in ListType /\ m.size = Size(c, l) - 1
    BY <1>0, <2>4, PoolBounds DEF ListType
  <2>. HIDE DEF linked, m
  <2>6. /\ [c EXCEPT !.ent = linked, !.list[l] = m] \in CacheType
        /\ [c EXCEPT !.ent = linked, !.list[l] = m].ent = linked
        /\ [c EXCEPT !.ent = linked, !.list[l] = m].list[l] = m
    BY <2>3, <2>5 DEF CacheType
  <2>. QED
    BY <2>1, <2>3, <2>5, <2>6 DEF Same
<1>. QED
  BY <1>1, <1>2

\* PopTail
LEMMA PoppedSame ==
  ASSUME NEW c \in CacheType, NEW e \in Entries, CanRemove(c, "Free")
  PROVE  Same(c, Popped(c, e))
<1>. DEFINE r == RemoveEntry(c, "Free", e)
            n == (r.list["Free"].size + Width - 1) % Width
<1>1. Same(c, r) /\ "Free" \in Lists
  BY RemoveSame DEF Lists
<1>2. Popped(c, e) = [r EXCEPT !.list["Free"].size = n]
  BY DEF Popped
<1>. HIDE DEF r
<1>3. r \in CacheType /\ r.list["Free"] \in ListType /\ r.list["Free"].size \in 0..(Width - 1)
  BY <1>1, ListFields DEF Same
<1>4. n \in 0..(Width - 1)
  BY <1>3, PoolBounds
<1>. HIDE DEF n
<1>5. [r EXCEPT !.list["Free"].size = n] \in CacheType /\ [r EXCEPT !.list["Free"].size = n].ent = r.ent
  BY <1>1, <1>3, <1>4 DEF CacheType, ListType
<1>. QED
  BY <1>1, <1>2, <1>5 DEF Same

\* MoveMRU
LEMMA MoveSame ==
  ASSUME NEW c \in CacheType, NEW l \in Lists, NEW e \in Entries, CanRemove(c, l)
  PROVE  Same(c, MoveMRU(c, l, e))
  BY RemoveSame, InsertSame DEF Same, MoveMRU

\* Pin, Unpin and TearDown
LEMMA PinSame ==
  ASSUME NEW c \in CacheType, NEW e \in Entries
  PROVE  Same(c, Pin(c, e)) /\ Same(c, Unpin(c, e)) /\ Same(c, TearDown(c, e))
<1>0. c.ent[e] \in EntryType /\ c.ent[e].refs \in Nat
  BY EntryFields
<1>. DEFINE up == [c.ent[e] EXCEPT !.refs = @ + 1]
            down == [c.ent[e] EXCEPT !.refs = @ - 1]
            clear == [NewEntry EXCEPT !.tag = c.ent[e].tag, !.buf = c.ent[e].buf,
                                      !.prev = c.ent[e].prev, !.next = c.ent[e].next]
<1>1. Same(c, Pin(c, e))
  <2>1. up \in EntryType /\ up.buf = c.ent[e].buf
    BY <1>0 DEF EntryType
  <2>2. Pin(c, e) = [c EXCEPT !.ent[e] = up]
    BY DEF Pin
  <2>. HIDE DEF up
  <2>. QED
    BY <2>1, <2>2, EntrySet DEF Same
<1>2. Same(c, Unpin(c, e))
  <2>1. CASE c.ent[e].refs = 0
    BY <2>1 DEF Unpin, Same, CacheType
  <2>2. CASE c.ent[e].refs # 0
    <3>1. down \in EntryType /\ down.buf = c.ent[e].buf
      BY <1>0, <2>2 DEF EntryType
    <3>2. Unpin(c, e) = [c EXCEPT !.ent[e] = down]
      BY <2>2 DEF Unpin
    <3>. HIDE DEF down
    <3>. QED
      BY <3>1, <3>2, EntrySet DEF Same
  <2>. QED
    BY <2>1, <2>2
<1>3. Same(c, TearDown(c, e))
  <2>1. clear \in EntryType /\ clear.buf = c.ent[e].buf
    BY <1>0 DEF EntryType, NewEntry
  <2>2. TearDown(c, e) = [c EXCEPT !.ent[e] = clear]
    BY DEF TearDown
  <2>. HIDE DEF clear
  <2>. QED
    BY <2>1, <2>2, EntrySet DEF Same
<1>. QED
  BY <1>1, <1>2, <1>3

-----------------------------------------------------------------------------
(* What a step leaves typed                                                 *)

\* The worker w goes on at a label with its locals.
Moves(w) ==
  /\ pc' \in [Workers -> Labels] /\ loc' \in [Workers -> LocType]
  /\ \A v \in Workers \ {w} : pc'[v] = pc[v] /\ loc'[v] = loc[v]
  /\ LocGood(pc'[w], loc'[w]) /\ pc[w] # "addFree" /\ pc'[w] # "addFree"

\* Free buffers stay as they are.
Quiet == /\ freeHead' = freeHead /\ hist'.aba = hist.aba
         /\ \A b \in Buffers : bufs'[b].next = bufs[b].next

Effect(w) == StoreTypes' /\ Quiet /\ LatchTypes' /\ Same(cache, cache') /\ Moves(w)

\* The fields of the locals of a worker.
LEMMA LocFields ==
  ASSUME Locals, NEW w \in Workers
  PROVE  /\ loc[w] \in LocType /\ loc[w].op \in {"none", "get", "extend"} /\ loc[w].page \in Pages \cup {0}
         /\ loc[w].ent \in Ptr /\ loc[w].it \in Ptr /\ loc[w].list \in Lists
         /\ loc[w].ret \in {"evict", "ghostMove"} /\ loc[w].t1 \in 0..(Width - 1)
         /\ loc[w].b1 \in 0..(Width - 1) /\ loc[w].p \in 0..(Width - 1) /\ loc[w].fq \in BOOLEAN
         /\ loc[w].buf \in BufPtr /\ loc[w].next \in BufPtr
         /\ pc[w] \in Labels /\ LocGood(pc[w], loc[w])
  BY DEF Locals, LocType

\* Locals at the start of a call.
LEMMA NoOpType == NoOp \in LocType
BY PoolBounds DEF NoOp, LocType, Ptr, BufPtr, Lists

\* Locals after a helper function.
LEMMA KeptType ==
  ASSUME Locals, NEW w \in Workers
  PROVE  /\ Kept(w) \in LocType /\ Kept(w).op = loc[w].op /\ Kept(w).page = loc[w].page
         /\ Kept(w).ent = loc[w].ent /\ Kept(w).it = 0 /\ Kept(w).ret = "evict"
  BY LocFields, NoOpType DEF Kept, LocType, NoOp

\* The latches after a step: taken, let go, or let go with all others of the worker.
LEMMA LatchesTyped ==
  ASSUME LatchTypes, NEW w \in Workers,
         \/ listLatch' = listLatch \/ listLatch' = DropAll(listLatch, w)
         \/ \E x : listLatch' = Take(listLatch, x, w)
         \/ \E x : listLatch' = Drop(listLatch, x),
         \/ mapLatch' = mapLatch \/ mapLatch' = DropAll(mapLatch, w)
         \/ \E x : mapLatch' = Take(mapLatch, x, w)
         \/ \E x : mapLatch' = Drop(mapLatch, x),
         \/ pageLatch' = pageLatch \/ pageLatch' = DropAll(pageLatch, w)
         \/ \E x : pageLatch' = Take(pageLatch, x, w)
  PROVE  LatchTypes'
  BY DEF LatchTypes, Take, Drop, DropAll

\* The steps after which the stores are as they were.
LEMMA StoresStay ==
  ASSUME StoreTypes, UNCHANGED <<npages, map, P, bufs, freeHead, data>>
  PROVE  StoreTypes' /\ Quiet
BY DEF StoreTypes, Quiet, data

-----------------------------------------------------------------------------
(* Each step                                                                *)

Typed == StoreTypes /\ LatchTypes /\ cache \in CacheType /\ Locals

\* A worker that goes on somewhere.
LEMMA Going ==
  ASSUME Locals, NEW w \in Workers, NEW l \in Labels, NEW r \in LocType, LocGood(l, r),
         pc' = [pc EXCEPT ![w] = l], loc' = [loc EXCEPT ![w] = r], pc[w] # "addFree", l # "addFree"
  PROVE  Moves(w)
BY DEF Moves, Locals

\* A worker that stays where it is, with other locals, or goes on with the same ones.
LEMMA Staying ==
  ASSUME Locals, NEW w \in Workers, NEW r \in LocType, LocGood(pc[w], r),
         pc' = pc, loc' = [loc EXCEPT ![w] = r], pc[w] # "addFree"
  PROVE  Moves(w)
BY DEF Moves, Locals

LEMMA GoingOn ==
  ASSUME Locals, NEW w \in Workers, NEW l \in Labels, LocGood(l, loc[w]),
         pc' = [pc EXCEPT ![w] = l], loc' = loc, pc[w] # "addFree", l # "addFree"
  PROVE  Moves(w)
BY DEF Moves, Locals

\* StartGet and StartExtend
LEMMA StartEffect ==
  ASSUME Typed, NEW w \in Workers, StartGet(w) \/ StartExtend(w)
  PROVE  Effect(w)
<1>0. Locals /\ UNCHANGED <<npages, cache, map, P, bufs, freeHead, latches, data>>
  BY DEF StartGet, StartExtend, Typed
<1>1. CASE StartGet(w)
  <2>1. PICK p \in DOMAIN disk : loc' = [loc EXCEPT ![w] = [NoOp EXCEPT !.op = "get", !.page = p]]
    BY <1>1 DEF StartGet
  <2>. DEFINE r == [NoOp EXCEPT !.op = "get", !.page = p]
  <2>2. p \in Pages
    BY PoolBounds DEF Typed, StoreTypes, Pages
  <2>3. r \in LocType /\ LocGood("lookup", r)
    BY <2>2, NoOpType, PoolBounds DEF LocType, LocGood, NoOp, WithEnt, WithIt, Vacating
  <2>4. pc' = [pc EXCEPT ![w] = "lookup"] /\ loc' = [loc EXCEPT ![w] = r] /\ pc[w] = "idle"
    BY <1>1, <2>1 DEF StartGet, Go, At
  <2>. HIDE DEF r
  <2>5. Moves(w)
    BY <1>0, <2>3, <2>4, Going DEF Labels
  <2>. QED
    BY <1>0, <2>5, LatchesTyped, StoresStay DEF Effect, Typed, Same, latches
<1>2. CASE StartExtend(w)
  <2>. DEFINE r == [NoOp EXCEPT !.op = "extend"]
  <2>1. r \in LocType /\ LocGood("pre1", r)
    BY NoOpType DEF LocType, LocGood, NoOp, WithEnt, WithIt, Vacating
  <2>2. pc' = [pc EXCEPT ![w] = "pre1"] /\ loc' = [loc EXCEPT ![w] = r] /\ pc[w] = "idle"
    BY <1>2 DEF StartExtend, Go, At
  <2>. HIDE DEF r
  <2>3. Moves(w)
    BY <1>0, <2>1, <2>2, Going DEF Labels
  <2>. QED
    BY <1>0, <2>3, LatchesTyped, StoresStay DEF Effect, Typed, Same, latches
<1>. QED
  BY <1>1, <1>2

\* LatchGhosts
LEMMA LatchGhostsEffect ==
  ASSUME Typed, NEW w \in Workers, LatchGhosts(w)
  PROVE  Effect(w)
<1>1. Locals /\ UNCHANGED <<npages, cache, map, P, bufs, freeHead, data>>
  BY DEF LatchGhosts, Typed, Rest
<1>2. LatchTypes'
  BY LatchesTyped DEF LatchGhosts, Typed
<1>3. Moves(w)
  BY <1>1, LocFields, GoingOn DEF LatchGhosts, Go, At, LocGood, WithEnt, WithIt, Vacating, Labels
<1>. QED
  BY <1>1, <1>2, <1>3, StoresStay DEF Effect, Typed, Same

\* RecencySizes
LEMMA RecencySizesEffect ==
  ASSUME Typed, NEW w \in Workers, RecencySizes(w)
  PROVE  Effect(w)
<1>0. /\ Locals /\ UNCHANGED <<npages, cache, map, P, bufs, freeHead, data>> /\ pc[w] = "pre2"
      /\ LocGood("pre2", loc[w])
  BY LocFields DEF RecencySizes, Typed, Rest, At
<1>1. LatchTypes'
  BY LatchesTyped DEF RecencySizes, Typed
<1>. DEFINE t1 == Size(cache, "T1")
            b1 == Size(cache, "B1")
            r1 == [loc[w] EXCEPT !.list = "B1"]
            r2 == [loc[w] EXCEPT !.list = "T1", !.ret = "evict"]
            r3 == [loc[w] EXCEPT !.t1 = t1, !.b1 = b1]
<1>2. t1 \in 0..(Width - 1) /\ b1 \in 0..(Width - 1)
  BY ListFields DEF Typed, Lists
<1>3. \/ loc' = [loc EXCEPT ![w] = r1] /\ pc' = [pc EXCEPT ![w] = "forget"]
      \/ loc' = [loc EXCEPT ![w] = r2] /\ pc' = [pc EXCEPT ![w] = "vacate"]
      \/ loc' = [loc EXCEPT ![w] = r3] /\ pc' = [pc EXCEPT ![w] = "pre3"]
  BY DEF RecencySizes, Go
<1>. HIDE DEF t1, b1
<1>4. r1 \in LocType /\ LocGood("forget", r1)
  BY <1>0, LocFields DEF LocType, Lists, LocGood, WithEnt, WithIt, Vacating
<1>5. r2 \in LocType /\ LocGood("vacate", r2)
  BY <1>0, LocFields, ZenonT(60) DEF LocType, Lists, LocGood, WithEnt, WithIt, Vacating
<1>6. r3 \in LocType /\ LocGood("pre3", r3)
  BY <1>0, <1>2, LocFields, ZenonT(30) DEF LocType, LocGood, WithEnt, WithIt, Vacating
<1>. HIDE DEF r1, r2, r3
<1>7. Moves(w)
  BY <1>0, <1>3, <1>4, <1>5, <1>6, Going DEF Labels
<1>. QED
  BY <1>0, <1>1, <1>7, StoresStay DEF Effect, Typed, Same

\* FrequencySizes
LEMMA FrequencySizesEffect ==
  ASSUME Typed, NEW w \in Workers, FrequencySizes(w)
  PROVE  Effect(w)
<1>0. /\ Locals /\ UNCHANGED <<npages, cache, map, P, bufs, freeHead, data>> /\ pc[w] = "pre4"
      /\ LocGood("pre4", loc[w]) /\ P \in 0..(Width - 1)
  BY LocFields DEF FrequencySizes, Typed, Rest, At, StoreTypes
<1>1. LatchTypes'
  BY LatchesTyped DEF FrequencySizes, Typed
<1>. DEFINE k == Kept(w)
            r1 == [k EXCEPT !.p = P]
            r2 == [k EXCEPT !.list = "B2"]
<1>2. /\ k \in LocType /\ k.op = loc[w].op /\ k.page = loc[w].page
      /\ k.ent = loc[w].ent /\ k.it = 0 /\ k.ret = "evict"
  BY <1>0, KeptType
<1>3. \/ loc' = [loc EXCEPT ![w] = k] /\ pc' = [pc EXCEPT ![w] = "evict"]
      \/ loc' = [loc EXCEPT ![w] = r1] /\ pc' = [pc EXCEPT ![w] = "adjust"]
      \/ loc' = [loc EXCEPT ![w] = r2] /\ pc' = [pc EXCEPT ![w] = "forget"]
  BY DEF FrequencySizes, Go
<1>. HIDE DEF k
<1>4. LocGood("evict", k)
  BY <1>0, <1>2 DEF LocGood, WithEnt, WithIt, Vacating
<1>5. r1 \in LocType /\ LocGood("adjust", r1)
  BY <1>0, <1>2 DEF LocType, LocGood, WithEnt, WithIt, Vacating
<1>6. r2 \in LocType /\ LocGood("forget", r2)
  BY <1>0, <1>2 DEF LocType, Lists, LocGood, WithEnt, WithIt, Vacating
<1>. HIDE DEF r1, r2
<1>7. Moves(w)
  BY <1>0, <1>2, <1>3, <1>4, <1>5, <1>6, Going DEF Labels
<1>. QED
  BY <1>0, <1>1, <1>7, StoresStay DEF Effect, Typed, Same

\* ForgetStart, VacateStart, EvictStart and EvictGhostStart: the walk begins at a tail.
LEMMA WalkEffect ==
  ASSUME Typed, NEW w \in Workers,
         ForgetStart(w) \/ VacateStart(w) \/ EvictStart(w) \/ EvictGhostStart(w)
  PROVE  Effect(w)
<1>0. Locals /\ UNCHANGED <<npages, cache, map, P, bufs, freeHead, data>>
  BY DEF ForgetStart, VacateStart, EvictStart, EvictGhostStart, Typed, Rest
<1>1. LatchTypes'
  BY LatchesTyped DEF ForgetStart, VacateStart, EvictStart, EvictGhostStart, Typed
<1>2. PICK x \in Ptr : loc' = [loc EXCEPT ![w].it = x]
  BY <1>0, LocFields, ListFields DEF Lists, Typed, ForgetStart, VacateStart, EvictStart, EvictGhostStart
<1>. DEFINE r == [loc[w] EXCEPT !.it = x]
<1>3. PICK l \in {"forgetScan", "vacScan", "popScan", "evictScan"} :
        /\ pc' = [pc EXCEPT ![w] = l] /\ pc[w] \in {"forget", "vacate", "evict", "evictGhost"}
        /\ pc[w] = "vacate" <=> l = "vacScan"
  BY DEF ForgetStart, VacateStart, EvictStart, EvictGhostStart, Go, At
<1>4. r \in LocType /\ LocGood(l, r)
  BY <1>0, <1>3, LocFields DEF LocType, LocGood, WithEnt, WithIt, Vacating
<1>5. loc' = [loc EXCEPT ![w] = r]
  BY <1>2
<1>. HIDE DEF r
<1>6. Moves(w)
  BY <1>0, <1>3, <1>4, <1>5, Going DEF Labels
<1>. QED
  BY <1>0, <1>1, <1>6, StoresStay DEF Effect, Typed, Same

\* Adjust
LEMMA AdjustEffect ==
  ASSUME Typed, NEW w \in Workers, Adjust(w)
  PROVE  Effect(w)
<1>0. Locals /\ UNCHANGED <<npages, cache, map, P, bufs, freeHead, data, latches>>
  BY DEF Adjust, Typed, Rest
<1>1. PICK x \in {"T1", "T2"} : loc' = [loc EXCEPT ![w].list = x]
  BY DEF Adjust
<1>. DEFINE r == [loc[w] EXCEPT !.list = x]
<1>2. r \in LocType /\ LocGood("vacate", r)
  BY <1>0, LocFields DEF LocType, Lists, LocGood, WithEnt, WithIt, Vacating, Adjust, At
<1>3. /\ loc' = [loc EXCEPT ![w] = r] /\ pc' = [pc EXCEPT ![w] = "vacate"] /\ pc[w] = "adjust"
  BY <1>1 DEF Adjust, Go, At
<1>. HIDE DEF r
<1>4. Moves(w)
  BY <1>0, <1>2, <1>3, Going DEF Labels
<1>. QED
  BY <1>0, <1>4, LatchesTyped, StoresStay DEF Effect, Typed, Same, latches

\* VacateCheck
LEMMA VacateCheckEffect ==
  ASSUME Typed, NEW w \in Workers, VacateCheck(w)
  PROVE  Effect(w)
<1>0. /\ Locals /\ UNCHANGED <<npages, cache, map, P, bufs, freeHead, data>> /\ pc[w] = "vacCheck"
      /\ LocGood("vacCheck", loc[w])
  BY LocFields DEF VacateCheck, Typed, Rest, At
<1>1. LatchTypes'
  BY LatchesTyped DEF VacateCheck, Typed
<1>. DEFINE r == [loc[w] EXCEPT !.it = It(w).prev]
<1>2. loc[w].it \in Entries
  BY <1>0, LocFields DEF LocGood, WithIt, Ptr
<1>3. It(w).prev \in Ptr
  BY <1>2, EntryFields DEF It, Typed
<1>4. r \in LocType /\ LocGood("vacScan", r)
  BY <1>0, <1>3, LocFields DEF LocType, LocGood, WithEnt, WithIt, Vacating
<1>5. \/ loc' = [loc EXCEPT ![w] = r] /\ pc' = [pc EXCEPT ![w] = "vacScan"]
      \/ loc' = loc /\ pc' = [pc EXCEPT ![w] = "vacLock"]
  BY DEF VacateCheck, Go
<1>. HIDE DEF r
<1>6. LocGood("vacLock", loc[w])
  BY <1>0 DEF LocGood, WithEnt, WithIt, Vacating
<1>7. Moves(w)
  BY <1>0, <1>4, <1>5, <1>6, Going, GoingOn DEF Labels
<1>. QED
  BY <1>0, <1>1, <1>7, StoresStay DEF Effect, Typed, Same

\* CountPages
LEMMA CountPagesEffect ==
  ASSUME Typed, NEW w \in Workers, CountPages(w)
  PROVE  Effect(w)
<1>0. /\ Locals /\ UNCHANGED <<npages, cache, map, P, bufs, freeHead, data>> /\ pc[w] = "setup"
      /\ LocGood("setup", loc[w])
  BY LocFields DEF CountPages, Typed, Rest, At
<1>1. LatchTypes'
  BY LatchesTyped DEF CountPages, Typed, Throw, Over, latches
<1>. DEFINE r == [loc[w] EXCEPT !.page = Len(disk) + 1]
<1>2. LocGood("idle", NoOp) /\ NoOp \in LocType
  BY NoOpType DEF LocGood, NoOp, WithEnt, WithIt, Vacating
<1>3. CASE loc[w].ent # 0 /\ Len(disk) < MaxPages
  <2>1. Len(disk) + 1 \in Pages /\ Len(disk) + 1 # 0
    BY <1>3, PoolBounds DEF Typed, StoreTypes, Pages
  <2>2. r \in LocType /\ LocGood("insert", r)
    BY <1>0, <1>3, <2>1, LocFields DEF LocType, LocGood, WithEnt, WithIt, Vacating
  <2>3. loc' = [loc EXCEPT ![w] = r] /\ pc' = [pc EXCEPT ![w] = "insert"]
    BY <1>3 DEF CountPages, Go
  <2>. HIDE DEF r
  <2>4. Moves(w)
    BY <1>0, <2>2, <2>3, Going DEF Labels
  <2>. QED
    BY <1>0, <1>1, <2>4, StoresStay DEF Effect, Typed, Same
<1>4. CASE Throw(w)
  <2>1. Moves(w)
    BY <1>0, <1>2, <1>4, Going DEF Labels, Throw, Over, Go
  <2>. QED
    BY <1>0, <1>1, <2>1, StoresStay DEF Effect, Typed, Same
<1>. QED
  BY <1>3, <1>4 DEF CountPages

\* Hit and ExtendHit
LEMMA HitEffect ==
  ASSUME Typed, NEW w \in Workers, Hit(w) \/ ExtendHit(w)
  PROVE  Effect(w)
<1>0. Locals /\ UNCHANGED <<npages, cache, map, P, bufs, freeHead, data, latches>>
  BY DEF Hit, ExtendHit, Typed, Rest
<1>1. PICK x \in BOOLEAN : loc' = [loc EXCEPT ![w].fq = x]
  BY DEF Hit, ExtendHit
<1>2. PICK l \in {"ghostHit", "hitT1", "hitT2", "extendAgain"} :
        pc' = [pc EXCEPT ![w] = l] /\ pc[w] \in {"hit", "extendHit"}
  BY DEF Hit, ExtendHit, Go, At
<1>. DEFINE r == [loc[w] EXCEPT !.fq = x]
<1>3. r \in LocType /\ LocGood(l, r)
  BY <1>0, <1>2, LocFields DEF LocType, LocGood, WithEnt, WithIt, Vacating
<1>4. loc' = [loc EXCEPT ![w] = r]
  BY <1>1
<1>. HIDE DEF r
<1>5. Moves(w)
  BY <1>0, <1>2, <1>3, <1>4, Going DEF Labels
<1>. QED
  BY <1>0, <1>5, LatchesTyped, StoresStay DEF Effect, Typed, Same, latches

\* A flag of an entry, and two changes in a row.
LEMMA FlagSame ==
  ASSUME NEW c \in CacheType, NEW e \in Entries, NEW b \in BOOLEAN
  PROVE  /\ Same(c, [c EXCEPT !.ent[e].io = b]) /\ Same(c, [c EXCEPT !.ent[e].locked = b])
         /\ Same(c, [c EXCEPT !.ent[e].dirty = b]) /\ Same(c, [c EXCEPT !.ent[e].valid = b])
         /\ Same(c, [c EXCEPT !.ent[e].freq = b])
<1>0. c.ent[e] \in EntryType
  BY EntryFields
<1>. DEFINE r1 == [c.ent[e] EXCEPT !.io = b]
            r2 == [c.ent[e] EXCEPT !.locked = b]
            r3 == [c.ent[e] EXCEPT !.dirty = b]
            r4 == [c.ent[e] EXCEPT !.valid = b]
            r5 == [c.ent[e] EXCEPT !.freq = b]
<1>1. /\ r1 \in EntryType /\ r1.buf = c.ent[e].buf /\ r2 \in EntryType /\ r2.buf = c.ent[e].buf
      /\ r3 \in EntryType /\ r3.buf = c.ent[e].buf /\ r4 \in EntryType /\ r4.buf = c.ent[e].buf
      /\ r5 \in EntryType /\ r5.buf = c.ent[e].buf
  BY <1>0 DEF EntryType
<1>2. /\ [c EXCEPT !.ent[e].io = b] = [c EXCEPT !.ent[e] = r1]
      /\ [c EXCEPT !.ent[e].locked = b] = [c EXCEPT !.ent[e] = r2]
      /\ [c EXCEPT !.ent[e].dirty = b] = [c EXCEPT !.ent[e] = r3]
      /\ [c EXCEPT !.ent[e].valid = b] = [c EXCEPT !.ent[e] = r4]
      /\ [c EXCEPT !.ent[e].freq = b] = [c EXCEPT !.ent[e] = r5]
  OBVIOUS
<1>. HIDE DEF r1, r2, r3, r4, r5
<1>3. Same(c, [c EXCEPT !.ent[e].io = b]) /\ Same(c, [c EXCEPT !.ent[e].locked = b])
  BY <1>1, <1>2, EntrySet DEF Same
<1>4. Same(c, [c EXCEPT !.ent[e].dirty = b]) /\ Same(c, [c EXCEPT !.ent[e].valid = b])
  BY <1>1, <1>2, EntrySet DEF Same
<1>5. Same(c, [c EXCEPT !.ent[e].freq = b])
  BY <1>1, <1>2, EntrySet DEF Same
<1>. QED
  BY <1>3, <1>4, <1>5

\* The end of the process.
LEMMA FaultSame ==
  ASSUME NEW c \in CacheType
  PROVE  Same(c, c) /\ Same(c, [c EXCEPT !.fault = TRUE])
BY DEF Same, CacheType

\* The end of a call.
LEMMA ThrowMoves ==
  ASSUME Locals, LatchTypes, NEW w \in Workers, Throw(w), pc[w] # "addFree"
  PROVE  Moves(w) /\ LatchTypes'
<1>1. LocGood("idle", NoOp) /\ NoOp \in LocType
  BY NoOpType DEF LocGood, NoOp, WithEnt, WithIt, Vacating
<1>2. Moves(w)
  BY <1>1, Going DEF Labels, Throw, Over, Go
<1>. QED
  BY <1>2, LatchesTyped DEF Throw, Over

\* Lookup
LEMMA LookupEffect ==
  ASSUME Typed, NEW w \in Workers, Lookup(w)
  PROVE  Effect(w)
<1>. DEFINE e == map[loc[w].page]
            r == [loc[w] EXCEPT !.ent = e]
<1>0. /\ Locals /\ LatchTypes /\ UNCHANGED <<npages, map, P, bufs, freeHead, data>>
      /\ pc[w] \in {"lookup", "again"} /\ LocGood(pc[w], loc[w]) /\ cache \in CacheType
  BY LocFields DEF Lookup, Typed, Rest, At
<1>1. loc[w].page \in Pages
  BY <1>0, LocFields DEF LocGood
<1>2. e \in Ptr
  BY <1>1 DEF Typed, StoreTypes
<1>3. CASE /\ e # 0 /\ Go(w, "hit") /\ cache' = Pin(cache, e) /\ loc' = [loc EXCEPT ![w].ent = e]
           /\ mapLatch' = IF pc[w] = "again" THEN Take(mapLatch, loc[w].page, w) ELSE mapLatch
           /\ UNCHANGED <<listLatch, pageLatch>>
  <2>1. r \in LocType /\ LocGood("hit", r)
    BY <1>0, <1>1, <1>2, <1>3, LocFields, PoolBounds DEF LocType, LocGood, WithEnt, WithIt, Vacating
  <2>2. LatchTypes'
    BY <1>0, <1>3, LatchesTyped
  <2>3. Same(cache, cache')
    BY <1>0, <1>2, <1>3, PinSame DEF Ptr
  <2>4. loc' = [loc EXCEPT ![w] = r] /\ pc' = [pc EXCEPT ![w] = "hit"]
    BY <1>3 DEF Go
  <2>. HIDE DEF r
  <2>5. Moves(w)
    BY <1>0, <2>1, <2>4, Going DEF Labels
  <2>. QED
    BY <1>0, <2>2, <2>3, <2>5, StoresStay DEF Effect, Typed
<1>4. CASE Go(w, "pre1") /\ UNCHANGED <<cache, loc, latches>>
  <2>1. Moves(w)
    BY <1>0, <1>4, GoingOn DEF Go, LocGood, WithEnt, WithIt, Vacating, Labels
  <2>. QED
    BY <1>0, <1>4, <2>1, LatchesTyped, StoresStay, FaultSame DEF Effect, Typed, latches
<1>5. CASE Throw(w) /\ UNCHANGED cache
  BY <1>0, <1>5, ThrowMoves, StoresStay, FaultSame DEF Effect, Typed
<1>. QED
  BY <1>3, <1>4, <1>5 DEF Lookup

\* A page leaves the page table.
LEMMA UnmapType ==
  ASSUME StoreTypes
  PROVE  \A t : Unmap(t) \in [Pages -> Ptr]
BY DEF Unmap, StoreTypes, Ptr

\* The steps that only change the page table of the stores.
LEMMA StoresMapped ==
  ASSUME StoreTypes, UNCHANGED <<npages, P, bufs, freeHead, data>>,
         map' = map \/ (\E t : map' = Unmap(t))
  PROVE  StoreTypes' /\ Quiet
<1>1. map' \in [Pages -> Ptr]
  BY UnmapType DEF StoreTypes
<1>. QED
  BY <1>1 DEF StoreTypes, Quiet, data

\* The history after entries are torn.
LEMMA HurtFields ==
  ASSUME StoreTypes, cache \in CacheType, NEW es \in SUBSET Entries
  PROVE  /\ Hurt(es) \in HistType /\ Hurt(es).aba = hist.aba
         /\ Hurt(es).unmarked = hist.unmarked /\ Hurt(es).raced = hist.raced
         /\ Hurt(es).torn = hist.torn \cup es
         /\ Hurt(es).dropped = hist.dropped \cup {p \in Pages : map[p] \in es}
                                  \cup {cache.ent[e].tag : e \in es}
<1>. DEFINE tn == hist.torn \cup es
            dr == hist.dropped \cup {p \in Pages : map[p] \in es} \cup {cache.ent[e].tag : e \in es}
<1>1. hist \in HistType
  BY DEF StoreTypes
<1>2. \A e \in es : cache.ent[e].tag \in Nat
  BY EntryFields DEF Pages
<1>3. {p \in Pages : map[p] \in es} \in SUBSET Nat
  BY DEF Pages
<1>4. dr \in SUBSET Nat
  BY <1>1, <1>2, <1>3 DEF HistType
<1>5. tn \in SUBSET Nat
  <2>1. es \subseteq Nat
    BY DEF Entries
  <2>. QED
    BY <1>1, <2>1 DEF HistType
<1>6. Hurt(es) = [hist EXCEPT !.torn = tn, !.dropped = dr]
  BY DEF Hurt
<1>. HIDE DEF tn, dr
<1>7. /\ Hurt(es) \in HistType /\ Hurt(es).aba = hist.aba /\ Hurt(es).torn = tn /\ Hurt(es).dropped = dr
      /\ Hurt(es).unmarked = hist.unmarked /\ Hurt(es).raced = hist.raced
  BY <1>1, <1>4, <1>5, <1>6 DEF HistType
<1>. QED
  BY <1>7 DEF tn, dr

\* The history after a page has left the page table.
LEMMA ForgottenFields ==
  ASSUME StoreTypes, cache \in CacheType, NEW e \in Entries, NEW es \in SUBSET Entries
  PROVE  LET t == cache.ent[e].tag
             gone == IF Mapped(t) THEN {map[t]} \ {e} ELSE {}
             h == Forgotten(e, es) IN
         /\ h \in HistType /\ h.aba = hist.aba /\ h.unmarked = hist.unmarked /\ h.raced = hist.raced
         /\ gone \in SUBSET Entries
         /\ h.torn = hist.torn \cup es \cup gone
         /\ Hurt(es \cup gone).dropped \subseteq h.dropped
         /\ cache.ent[e].dirty => t \in h.dropped
<1>. DEFINE t == cache.ent[e].tag
            gone == IF Mapped(t) THEN {map[t]} \ {e} ELSE {}
            h == Hurt(es \cup gone)
            d == h.dropped \cup {t}
<1>1. t \in Pages \cup {0}
  BY EntryFields
<1>2. gone \in SUBSET Entries
  BY <1>1 DEF StoreTypes, Mapped, Ptr
<1>3. es \cup gone \in SUBSET Entries
  BY <1>2
<1>4. Forgotten(e, es) = IF cache.ent[e].dirty THEN [h EXCEPT !.dropped = d] ELSE h
  BY DEF Forgotten
<1>. HIDE DEF gone
<1>5. /\ h \in HistType /\ h.aba = hist.aba /\ h.unmarked = hist.unmarked /\ h.raced = hist.raced
      /\ h.torn = hist.torn \cup es \cup gone
  BY <1>3, HurtFields
<1>. HIDE DEF h
<1>6. d \in SUBSET Nat /\ h.dropped \subseteq d /\ t \in d
  BY <1>1, <1>5 DEF HistType, Pages
<1>. HIDE DEF d
<1>7. LET g == [h EXCEPT !.dropped = d] IN
      /\ g \in HistType /\ g.aba = h.aba /\ g.unmarked = h.unmarked /\ g.raced = h.raced
      /\ g.torn = h.torn /\ g.dropped = d
  BY <1>5, <1>6 DEF HistType
<1>8. LET g == Forgotten(e, es) IN
      /\ g \in HistType /\ g.aba = hist.aba /\ g.unmarked = hist.unmarked /\ g.raced = hist.raced
      /\ g.torn = hist.torn \cup es \cup gone /\ h.dropped \subseteq g.dropped
      /\ cache.ent[e].dirty => t \in g.dropped
  BY <1>4, <1>5, <1>6, <1>7
<1>. QED
  BY <1>2, <1>8 DEF h, gone

\* An entry that is taken twice.
LEMMA TwiceTyped ==
  ASSUME NEW w \in Workers, NEW e \in Entries
  PROVE  TakenTwice(w, e) \in SUBSET Entries
BY DEF TakenTwice

\* The steps that only change the page table and the history of the stores.
LEMMA HistStores ==
  ASSUME StoreTypes, UNCHANGED <<npages, P, bufs, freeHead, disk, latest>>,
         map' = map \/ (\E t : map' = Unmap(t)), hist' \in HistType, hist'.aba = hist.aba
  PROVE  StoreTypes' /\ Quiet
<1>1. map' \in [Pages -> Ptr]
  BY UnmapType DEF StoreTypes
<1>. QED
  BY <1>1 DEF StoreTypes, Quiet

\* ForgetScan
LEMMA ForgetScanEffect ==
  ASSUME Typed, NEW w \in Workers, ForgetScan(w)
  PROVE  Effect(w)
<1>. DEFINE k == [Kept(w) EXCEPT !.p = P]
            r == [loc[w] EXCEPT !.it = It(w).prev]
<1>0. /\ Locals /\ LatchTypes /\ cache \in CacheType /\ UNCHANGED <<cache, npages, P, bufs, freeHead, disk, latest>>
      /\ pc[w] = "forgetScan" /\ LocGood("forgetScan", loc[w]) /\ loc[w].it \in Ptr
      /\ P \in 0..(Width - 1)
  BY LocFields DEF ForgetScan, Typed, At, StoreTypes
<1>1. StoreTypes' /\ Quiet
  <2>1. CASE UNCHANGED <<map, hist>>
    BY <1>0, <2>1, StoresMapped DEF Typed, data
  <2>2. CASE loc[w].it # 0 /\ map' = Unmap(It(w).tag) /\ hist' = Forgotten(loc[w].it, {})
    BY <1>0, <2>2, ForgottenFields, HistStores DEF Typed, Ptr
  <2>. QED
    BY <2>1, <2>2 DEF ForgetScan
<1>2. CASE /\ Go(w, "adjust") /\ listLatch' = DropAll(listLatch, w)
           /\ loc' = [loc EXCEPT ![w] = k] /\ UNCHANGED <<map, mapLatch, pageLatch>>
  <2>1. k \in LocType /\ LocGood("adjust", k)
    BY <1>0, KeptType DEF LocType, LocGood, WithEnt, WithIt, Vacating
  <2>. HIDE DEF k
  <2>2. Moves(w)
    BY <1>0, <1>2, <2>1, Going DEF Labels, Go
  <2>3. LatchTypes'
    BY <1>0, <1>2, LatchesTyped
  <2>. QED
    BY <1>0, <1>1, <2>2, <2>3, FaultSame DEF Effect
<1>3. CASE loc[w].it # 0 /\ loc' = [loc EXCEPT ![w].it = It(w).prev] /\ UNCHANGED <<map, latches, pc>>
  <2>1. r \in LocType /\ LocGood("forgetScan", r)
    BY <1>0, <1>3, LocFields, EntryFields DEF LocType, LocGood, WithEnt, WithIt, Vacating, Ptr, It
  <2>2. loc' = [loc EXCEPT ![w] = r]
    BY <1>3
  <2>. HIDE DEF r
  <2>3. Moves(w)
    BY <1>0, <1>3, <2>1, <2>2, Staying
  <2>. QED
    BY <1>0, <1>1, <1>3, <2>3, LatchesTyped, FaultSame DEF Effect, latches
<1>4. CASE Throw(w)
  BY <1>0, <1>1, <1>4, ThrowMoves, FaultSame DEF Effect
<1>5. CASE loc[w].it # 0 /\ Go(w, "forgetFree") /\ UNCHANGED <<latches, loc>>
  <2>1. Moves(w)
    BY <1>0, <1>5, GoingOn DEF Go, LocGood, WithEnt, WithIt, Vacating, Labels
  <2>. QED
    BY <1>0, <1>1, <1>5, <2>1, LatchesTyped, FaultSame DEF Effect, latches
<1>. QED
  BY <1>2, <1>3, <1>4, <1>5 DEF ForgetScan

\* ForgetFree
LEMMA ForgetFreeEffect ==
  ASSUME Typed, NEW w \in Workers, ForgetFree(w)
  PROVE  Effect(w)
<1>. DEFINE k == [Kept(w) EXCEPT !.p = P]
<1>0. /\ Locals /\ cache \in CacheType /\ UNCHANGED <<npages, map, P, bufs, freeHead, data>>
      /\ pc[w] = "forgetFree" /\ LocGood("forgetFree", loc[w]) /\ P \in 0..(Width - 1)
  BY LocFields DEF ForgetFree, Typed, Rest, At, StoreTypes
<1>1. LatchTypes'
  BY LatchesTyped DEF ForgetFree, Typed
<1>2. Same(cache, cache')
  BY <1>0, LocFields, InsertSame DEF ForgetFree, LocGood, WithIt, Ptr, Lists
<1>3. k \in LocType /\ LocGood("adjust", k)
  BY <1>0, KeptType DEF LocType, LocGood, WithEnt, WithIt, Vacating
<1>4. pc' = [pc EXCEPT ![w] = "adjust"] /\ loc' = [loc EXCEPT ![w] = k]
  BY DEF ForgetFree, Go
<1>. HIDE DEF k
<1>5. Moves(w)
  BY <1>0, <1>3, <1>4, Going DEF Labels
<1>. QED
  BY <1>0, <1>1, <1>2, <1>5, StoresStay DEF Effect, Typed

\* VacateScan
LEMMA VacateScanEffect ==
  ASSUME Typed, NEW w \in Workers, VacateScan(w)
  PROVE  Effect(w)
<1>. DEFINE k == [Kept(w) EXCEPT !.fq = loc[w].fq]
            r == [loc[w] EXCEPT !.it = It(w).prev]
<1>0. /\ Locals /\ LatchTypes /\ cache \in CacheType /\ UNCHANGED <<npages, map, P, bufs, freeHead, data>>
      /\ pc[w] = "vacScan" /\ LocGood("vacScan", loc[w]) /\ loc[w].it \in Ptr
  BY LocFields DEF VacateScan, Typed, Rest, At
<1>1. StoreTypes' /\ Quiet
  BY <1>0, StoresStay DEF Typed
<1>2. LatchTypes'
  BY LatchesTyped DEF VacateScan, Typed
<1>3. CASE Go(w, loc[w].ret) /\ loc' = [loc EXCEPT ![w] = k] /\ UNCHANGED cache
  <2>1. k \in LocType /\ LocGood(loc[w].ret, k) /\ loc[w].ret \in {"evict", "ghostMove"}
    BY <1>0, LocFields, KeptType DEF LocType, LocGood, WithEnt, WithIt, Vacating
  <2>. HIDE DEF k
  <2>2. Moves(w)
    BY <1>0, <1>3, <2>1, Going, ZenonT(30) DEF Labels, Go
  <2>. QED
    BY <1>0, <1>1, <1>2, <1>3, <2>2, FaultSame DEF Effect
<1>4. CASE loc[w].it # 0 /\ loc' = [loc EXCEPT ![w].it = It(w).prev] /\ UNCHANGED <<cache, listLatch, pc>>
  <2>1. r \in LocType /\ LocGood("vacScan", r)
    BY <1>0, <1>4, LocFields, EntryFields DEF LocType, LocGood, WithEnt, WithIt, Vacating, Ptr, It
  <2>2. loc' = [loc EXCEPT ![w] = r]
    BY <1>4
  <2>. HIDE DEF r
  <2>3. Moves(w)
    BY <1>0, <1>4, <2>1, <2>2, Staying
  <2>. QED
    BY <1>0, <1>1, <1>2, <1>4, <2>3, FaultSame DEF Effect
<1>5. CASE loc[w].it # 0 /\ cache' = Pin(cache, loc[w].it) /\ Go(w, "flush") /\ UNCHANGED <<listLatch, loc>>
  <2>1. Moves(w)
    BY <1>0, <1>5, GoingOn DEF Go, LocGood, WithEnt, WithIt, Vacating, Labels
  <2>2. Same(cache, cache')
    BY <1>0, <1>5, PinSame DEF Ptr
  <2>. QED
    BY <1>1, <1>2, <2>1, <2>2 DEF Effect
<1>. QED
  BY <1>3, <1>4, <1>5 DEF VacateScan

\* Flush
LEMMA FlushEffect ==
  ASSUME Typed, NEW w \in Workers, Flush(w)
  PROVE  Effect(w)
<1>0. /\ Locals /\ LatchTypes /\ cache \in CacheType
      /\ UNCHANGED <<npages, map, P, bufs, freeHead, data, latches, loc>>
      /\ pc[w] = "flush" /\ LocGood("flush", loc[w]) /\ loc[w].it \in Entries
  BY LocFields DEF Flush, Typed, Rest, At, LocGood, WithIt, Ptr
<1>1. StoreTypes' /\ Quiet /\ LatchTypes'
  BY <1>0, StoresStay, LatchesTyped DEF Typed, latches
<1>2. Same(cache, cache')
  BY <1>0, FlagSame, FaultSame DEF Flush
<1>3. PICK l \in {"vacCheck", "flushIO"} : pc' = [pc EXCEPT ![w] = l]
  BY DEF Flush, Go
<1>4. Moves(w)
  BY <1>0, <1>3, GoingOn DEF LocGood, WithEnt, WithIt, Vacating, Labels
<1>. QED
  BY <1>1, <1>2, <1>4 DEF Effect

\* A page is written to the file.
LEMMA WrittenType ==
  ASSUME NEW d \in Seq(Nat), Len(d) <= MaxPages, NEW t \in Pages \cup {0}, NEW v \in Nat
  PROVE  Written(d, t, v) \in Seq(Nat) /\ Len(Written(d, t, v)) <= MaxPages
<1>0. MaxPages \in Nat /\ t \in Nat /\ t <= MaxPages
  BY PoolBounds DEF Pages
<1>1. CASE t > Len(d)
  BY <1>1, <1>0 DEF Written
<1>2. CASE ~(t > Len(d))
  <2>1. Written(d, t, v) = [d EXCEPT ![t] = v]
    BY <1>2 DEF Written
  <2>2. CASE t \in 1..Len(d)
    BY <2>1, <2>2, ExceptSeq
  <2>3. CASE t \notin 1..Len(d)
    BY LenProperties, <2>3, <2>1
  <2>. QED
    BY <2>2, <2>3
<1>. QED
  BY <1>1, <1>2

\* FlushWrite
LEMMA FlushWriteEffect ==
  ASSUME Typed, NEW w \in Workers, FlushWrite(w)
  PROVE  Effect(w)
<1>. DEFINE b == It(w).buf
<1>0. /\ Locals /\ LatchTypes /\ cache \in CacheType
      /\ UNCHANGED <<npages, map, P, bufs, freeHead, latest, listLatch, mapLatch, loc>>
      /\ pc[w] = "flushIO" /\ LocGood("flushIO", loc[w]) /\ loc[w].it \in Entries
  BY LocFields DEF FlushWrite, Typed, At, LocGood, WithIt, Ptr
<1>1. LatchTypes'
  BY LatchesTyped DEF FlushWrite, Typed
<1>2. Same(cache, cache')
  BY <1>0, FaultSame DEF FlushWrite, Fault
<1>3. disk' \in Seq(Nat) /\ Len(disk') <= MaxPages
  <2>1. disk \in Seq(Nat) /\ Len(disk) <= MaxPages
    BY DEF Typed, StoreTypes
  <2>2. CASE b # 0 /\ disk' = Written(disk, It(w).tag, bufs[b].version)
    BY <1>0, <2>2, EntryFields, <2>1, WrittenType DEF It, BufPtr, Typed, StoreTypes
  <2>3. CASE disk' = disk
    BY <2>1, <2>3
  <2>. QED
    BY <2>2, <2>3 DEF FlushWrite
<1>4. StoreTypes' /\ Quiet
  <2>1. hist' \in HistType /\ hist'.aba = hist.aba
    <3>1. hist \in HistType /\ It(w).tag \in Nat /\ Len(disk) + 1 \in Nat
      <4>1. It(w).tag \in Pages \cup {0}
        BY <1>0, EntryFields DEF It
      <4>2. hist \in HistType /\ disk \in Seq(Nat)
        BY DEF Typed, StoreTypes
      <4>. QED
        BY <4>1, <4>2, LenProperties DEF Pages
    <3>2. CASE UNCHANGED hist
      BY <3>1, <3>2
    <3>3. CASE ~UNCHANGED hist
      <4>1. PICK ra \in {hist.raced, hist.raced \cup {Len(disk) + 1}},
                 dr \in {hist.dropped, hist.dropped \cup {It(w).tag}} :
              hist' = [hist EXCEPT !.raced = ra, !.dropped = dr]
        BY <3>3, Zenon DEF FlushWrite
      <4>2. ra \in SUBSET Nat /\ dr \in SUBSET Nat
        BY <3>1, <4>1 DEF HistType
      <4>. QED
        BY <3>1, <4>1, <4>2 DEF HistType
    <3>. QED
      BY <3>2, <3>3
  <2>. QED
    BY <1>0, <1>3, <2>1 DEF StoreTypes, Quiet, Typed
<1>5. Moves(w)
  <2>1. CASE pc' = pc
    BY <1>0, <2>1 DEF Moves, Locals
  <2>2. CASE Go(w, "flushEnd") \/ Go(w, "flushFailed")
    BY <1>0, <2>2, GoingOn DEF Go, LocGood, WithEnt, WithIt, Vacating, Labels
  <2>. QED
    BY <2>1, <2>2 DEF FlushWrite
<1>. QED
  BY <1>1, <1>2, <1>4, <1>5 DEF Effect

\* TerminateBufferIO
LEMMA TerminatedSame ==
  ASSUME cache \in CacheType, NEW e \in Entries, NEW ok \in BOOLEAN
  PROVE  Same(cache, Terminated(e, ok))
<1>. DEFINE d == ~ok
            v == ok \/ cache.ent[e].valid
            r == [cache.ent[e] EXCEPT !.io = FALSE, !.dirty = d, !.valid = v]
<1>1. Terminated(e, ok) = [cache EXCEPT !.ent[e] = r]
  BY DEF Terminated
<1>2. d \in BOOLEAN /\ v \in BOOLEAN
  BY Zenon
<1>. HIDE DEF d, v
<1>3. r \in EntryType /\ r.buf = cache.ent[e].buf
  BY <1>2, EntryFields, ZenonT(60) DEF EntryType
<1>. HIDE DEF r
<1>. QED
  BY <1>1, <1>3, EntrySet DEF Same

\* FlushEnd
LEMMA FlushEndEffect ==
  ASSUME Typed, NEW w \in Workers, FlushEnd(w)
  PROVE  Effect(w)
<1>0. /\ Locals /\ LatchTypes /\ cache \in CacheType
      /\ UNCHANGED <<npages, map, P, bufs, freeHead, data>>
      /\ pc[w] \in {"flushEnd", "flushFailed"} /\ LocGood(pc[w], loc[w]) /\ loc[w].it \in Entries
  BY LocFields DEF FlushEnd, Typed, Rest, At, LocGood, WithIt, Ptr
<1>1. StoreTypes' /\ Quiet
  BY <1>0, StoresStay DEF Typed
<1>2. Same(cache, cache')
  BY <1>0, TerminatedSame DEF FlushEnd
<1>3. CASE /\ Go(w, "vacCheck") /\ pageLatch' = DropAll(pageLatch, w)
           /\ UNCHANGED <<listLatch, mapLatch, loc>>
  <2>1. Moves(w)
    BY <1>0, <1>3, GoingOn DEF Go, LocGood, WithEnt, WithIt, Vacating, Labels
  <2>2. LatchTypes'
    BY <1>0, <1>3, LatchesTyped
  <2>. QED
    BY <1>1, <1>2, <2>1, <2>2 DEF Effect
<1>4. CASE Throw(w)
  BY <1>0, <1>1, <1>2, <1>4, ThrowMoves DEF Effect
<1>. QED
  BY <1>3, <1>4 DEF FlushEnd

\* VacateLock
LEMMA VacateLockEffect ==
  ASSUME Typed, NEW w \in Workers, VacateLock(w)
  PROVE  Effect(w)
<1>. DEFINE r == [loc[w] EXCEPT !.it = It(w).prev]
<1>0. /\ Locals /\ LatchTypes /\ cache \in CacheType
      /\ UNCHANGED <<npages, map, P, bufs, freeHead, data>>
      /\ pc[w] = "vacLock" /\ LocGood("vacLock", loc[w]) /\ loc[w].it \in Entries
  BY LocFields DEF VacateLock, Typed, Rest, At, LocGood, WithIt, Ptr
<1>1. StoreTypes' /\ Quiet
  BY <1>0, StoresStay DEF Typed
<1>2. LatchTypes'
  BY LatchesTyped DEF VacateLock, Typed
<1>3. Same(cache, cache')
  BY <1>0, FlagSame, FaultSame DEF VacateLock
<1>4. r \in LocType /\ LocGood("vacScan", r)
  BY <1>0, LocFields, EntryFields DEF LocType, LocGood, WithEnt, WithIt, Vacating, It
<1>5. \/ loc' = [loc EXCEPT ![w] = r] /\ pc' = [pc EXCEPT ![w] = "vacScan"]
      \/ loc' = loc /\ pc' = [pc EXCEPT ![w] = "ghostify"]
  BY DEF VacateLock, Go
<1>. HIDE DEF r
<1>6. LocGood("ghostify", loc[w])
  BY <1>0 DEF LocGood, WithEnt, WithIt, Vacating
<1>7. Moves(w)
  BY <1>0, <1>4, <1>5, <1>6, Going, GoingOn DEF Labels
<1>. QED
  BY <1>1, <1>2, <1>3, <1>7 DEF Effect

\* PopTail
LEMMA PopTailEffect ==
  ASSUME Typed, NEW w \in Workers, PopTail(w)
  PROVE  Effect(w)
<1>. DEFINE k1 == [Kept(w) EXCEPT !.list = "B1"]
            k2 == [Kept(w) EXCEPT !.ent = loc[w].it]
            r == [loc[w] EXCEPT !.it = It(w).prev]
<1>0. /\ Locals /\ LatchTypes /\ cache \in CacheType
      /\ UNCHANGED <<npages, map, P, bufs, freeHead, disk, latest>>
      /\ pc[w] = "popScan" /\ LocGood("popScan", loc[w]) /\ loc[w].it \in Ptr
  BY LocFields DEF PopTail, Typed, At
<1>1. StoreTypes' /\ Quiet
  <2>1. CASE UNCHANGED hist
    BY <1>0, <2>1, StoresStay DEF Typed, data
  <2>2. CASE ~UNCHANGED hist
    <3>1. loc[w].it # 0 /\ hist' = Hurt(IF \E p \in Pages : map[p] = loc[w].it THEN {loc[w].it}
                                        ELSE TakenTwice(w, loc[w].it))
      BY <2>2, Zenon DEF PopTail
    <3>2. PICK es : /\ es \in SUBSET Entries /\ hist' = Hurt(es)
      BY <1>0, <3>1, TwiceTyped, Zenon DEF Ptr
    <3>3. hist' \in HistType /\ hist'.aba = hist.aba
      BY <3>2, HurtFields DEF Typed
    <3>. QED
      BY <1>0, <3>3, HistStores DEF Typed
  <2>. QED
    BY <2>1, <2>2
<1>2. CASE /\ Go(w, "evictGhost") /\ loc' = [loc EXCEPT ![w] = k1] /\ listLatch' = DropAll(listLatch, w)
           /\ UNCHANGED <<cache, mapLatch, pageLatch>>
  <2>1. k1 \in LocType /\ LocGood("evictGhost", k1)
    BY <1>0, KeptType DEF LocType, LocGood, WithEnt, WithIt, Vacating, Lists
  <2>. HIDE DEF k1
  <2>2. Moves(w)
    BY <1>0, <1>2, <2>1, Going DEF Labels, Go
  <2>3. LatchTypes'
    BY <1>0, <1>2, LatchesTyped
  <2>. QED
    BY <1>0, <1>1, <1>2, <2>2, <2>3, FaultSame DEF Effect
<1>3. CASE loc[w].it # 0 /\ loc' = [loc EXCEPT ![w].it = It(w).prev] /\ UNCHANGED <<cache, latches, pc>>
  <2>1. r \in LocType /\ LocGood("popScan", r)
    BY <1>0, <1>3, LocFields, EntryFields DEF LocType, LocGood, WithEnt, WithIt, Vacating, Ptr, It
  <2>2. loc' = [loc EXCEPT ![w] = r]
    BY <1>3
  <2>. HIDE DEF r
  <2>3. Moves(w)
    BY <1>0, <1>3, <2>1, <2>2, Staying
  <2>. QED
    BY <1>0, <1>1, <1>3, <2>3, LatchesTyped, FaultSame DEF Effect, latches
<1>4. CASE loc[w].it # 0 /\ cache' = [cache EXCEPT !.ent[loc[w].it].locked = TRUE] /\ Throw(w)
  <2>1. Same(cache, cache')
    BY <1>0, <1>4, FlagSame DEF Ptr
  <2>. QED
    BY <1>0, <1>1, <1>4, <2>1, ThrowMoves DEF Effect
<1>5. CASE /\ loc[w].it # 0 /\ CanRemove(cache, "Free") /\ cache' = Popped(cache, loc[w].it)
           /\ loc' = [loc EXCEPT ![w] = k2] /\ Go(w, "tearDown") /\ UNCHANGED latches
  <2>1. Same(cache, cache')
    BY <1>0, <1>5, PoppedSame DEF Ptr
  <2>2. k2 \in LocType /\ LocGood("tearDown", k2)
    BY <1>0, <1>5, KeptType DEF LocType, LocGood, WithEnt, WithIt, Vacating
  <2>. HIDE DEF k2
  <2>3. Moves(w)
    BY <1>0, <1>5, <2>2, Going DEF Labels, Go
  <2>. QED
    BY <1>0, <1>1, <1>5, <2>1, <2>3, LatchesTyped DEF Effect, latches
<1>. QED
  BY <1>2, <1>3, <1>4, <1>5 DEF PopTail

\* EvictScan
LEMMA EvictScanEffect ==
  ASSUME Typed, NEW w \in Workers, EvictScan(w)
  PROVE  Effect(w)
<1>. DEFINE e == loc[w].it
            k == [Kept(w) EXCEPT !.ent = e]
            r1 == [loc[w] EXCEPT !.list = "B2"]
            r2 == [loc[w] EXCEPT !.it = It(w).prev]
<1>0. /\ Locals /\ LatchTypes /\ cache \in CacheType
      /\ UNCHANGED <<npages, P, bufs, freeHead, disk, latest>>
      /\ pc[w] = "evictScan" /\ LocGood("evictScan", loc[w]) /\ e \in Ptr /\ loc[w].list \in Lists
  BY LocFields DEF EvictScan, Typed, At
<1>1. StoreTypes' /\ Quiet
  <2>1. CASE UNCHANGED <<map, hist>>
    BY <1>0, <2>1, StoresMapped DEF Typed, data
  <2>2. CASE e # 0 /\ map' = Unmap(It(w).tag) /\ (hist' = Forgotten(e, {}) \/ hist' = Forgotten(e, TakenTwice(w, e)))
    <3>1. PICK es \in SUBSET Entries : hist' = Forgotten(e, es)
      BY <1>0, <2>2, TwiceTyped, Zenon DEF Ptr
    <3>2. hist' \in HistType /\ hist'.aba = hist.aba
      BY <1>0, <2>2, <3>1, ForgottenFields DEF Typed, Ptr
    <3>. QED
      BY <1>0, <2>2, <3>2, HistStores DEF Typed
  <2>. QED
    BY <2>1, <2>2, Zenon DEF EvictScan
<1>2. CASE /\ listLatch' = DropAll(listLatch, w) /\ UNCHANGED <<cache, map, mapLatch, pageLatch>>
           /\ \/ Go(w, "evictGhost") /\ loc' = [loc EXCEPT ![w].list = "B2"]
              \/ Go(w, "setup") /\ loc' = [loc EXCEPT ![w] = Kept(w)]
  <2>1. LatchTypes'
    BY <1>0, <1>2, LatchesTyped
  <2>2. CASE Go(w, "evictGhost") /\ loc' = [loc EXCEPT ![w].list = "B2"]
    <3>1. r1 \in LocType /\ LocGood("evictGhost", r1)
      BY <1>0, LocFields DEF LocType, LocGood, WithEnt, WithIt, Vacating, Lists
    <3>2. loc' = [loc EXCEPT ![w] = r1]
      BY <2>2
    <3>. HIDE DEF r1
    <3>3. Moves(w)
      BY <1>0, <2>2, <3>1, <3>2, Going DEF Labels, Go
    <3>. QED
      BY <1>0, <1>1, <1>2, <2>1, <3>3, FaultSame DEF Effect
  <2>3. CASE Go(w, "setup") /\ loc' = [loc EXCEPT ![w] = Kept(w)]
    <3>1. Kept(w) \in LocType /\ LocGood("setup", Kept(w))
      BY <1>0, KeptType DEF LocGood, WithEnt, WithIt, Vacating
    <3>2. Moves(w)
      BY <1>0, <2>3, <3>1, Going DEF Labels, Go
    <3>. QED
      BY <1>0, <1>1, <1>2, <2>1, <3>2, FaultSame DEF Effect
  <2>. QED
    BY <1>2, <2>2, <2>3
<1>3. CASE e # 0 /\ loc' = [loc EXCEPT ![w].it = It(w).prev] /\ UNCHANGED <<cache, map, latches, pc>>
  <2>1. r2 \in LocType /\ LocGood("evictScan", r2)
    BY <1>0, <1>3, LocFields, EntryFields DEF LocType, LocGood, WithEnt, WithIt, Vacating, Ptr, It
  <2>2. loc' = [loc EXCEPT ![w] = r2]
    BY <1>3
  <2>. HIDE DEF r2
  <2>3. Moves(w)
    BY <1>0, <1>3, <2>1, <2>2, Staying
  <2>. QED
    BY <1>0, <1>1, <1>3, <2>3, LatchesTyped, FaultSame DEF Effect, latches
<1>4. CASE Throw(w) /\ UNCHANGED cache
  BY <1>0, <1>1, <1>4, ThrowMoves, FaultSame DEF Effect
<1>5. CASE /\ e # 0 /\ CanRemove(cache, loc[w].list) /\ cache' = RemoveEntry(cache, loc[w].list, e)
           /\ listLatch' = DropAll(listLatch, w)
           /\ loc' = [loc EXCEPT ![w] = k] /\ Go(w, "tearDown") /\ UNCHANGED <<mapLatch, pageLatch>>
  <2>1. Same(cache, cache')
    BY <1>0, <1>5, RemoveSame DEF Ptr
  <2>2. k \in LocType /\ LocGood("tearDown", k)
    BY <1>0, <1>5, KeptType DEF LocType, LocGood, WithEnt, WithIt, Vacating
  <2>3. LatchTypes'
    BY <1>0, <1>5, LatchesTyped
  <2>. HIDE DEF k
  <2>4. Moves(w)
    BY <1>0, <1>5, <2>2, Going DEF Labels, Go
  <2>. QED
    BY <1>1, <2>1, <2>3, <2>4 DEF Effect
<1>. QED
  BY <1>2, <1>3, <1>4, <1>5 DEF EvictScan

\* The history after an entry was cleared, and after it was given to a page.
LEMMA TornFields ==
  ASSUME Typed, NEW w \in Workers, loc[w].ent \in Entries, NEW t \in Pages
  PROVE  /\ Torn(w) \in HistType /\ Torn(w).aba = hist.aba
         /\ LET h == Blemished(Torn(w), loc[w].ent, t) IN h \in HistType /\ h.aba = hist.aba
<1>. DEFINE h == Torn(w)
<1>1. h \in HistType /\ h.aba = hist.aba
  BY HurtFields DEF Torn, Typed
<1>. HIDE DEF h
<1>2. PICK dr \in {h.dropped, h.dropped \cup {t}} : Blemished(h, loc[w].ent, t) = [h EXCEPT !.dropped = dr]
  BY DEF Blemished
<1>3. dr \in SUBSET Nat
  BY <1>1, <1>2 DEF HistType, Pages
<1>. QED
  BY <1>1, <1>2, <1>3 DEF HistType, h

\* ClearEntry
LEMMA ClearEntryEffect ==
  ASSUME Typed, NEW w \in Workers, ClearEntry(w)
  PROVE  Effect(w)
<1>0. /\ Locals /\ LatchTypes /\ cache \in CacheType
      /\ UNCHANGED <<npages, map, P, bufs, freeHead, disk, latest, loc>>
      /\ pc[w] = "tearDown" /\ LocGood("tearDown", loc[w]) /\ loc[w].ent \in Entries
  BY LocFields DEF ClearEntry, Typed, At, LocGood, Ptr
<1>1. StoreTypes' /\ Quiet
  BY <1>0, LocFields, HurtFields, HistStores DEF ClearEntry, Torn, Typed
<1>2. LatchTypes'
  BY LatchesTyped DEF ClearEntry, Typed
<1>3. Same(cache, cache')
  BY <1>0, PinSame DEF ClearEntry
<1>4. Moves(w)
  BY <1>0, GoingOn DEF ClearEntry, Go, LocGood, WithEnt, WithIt, Vacating, Labels
<1>. QED
  BY <1>1, <1>2, <1>3, <1>4 DEF Effect

\* PrepareEntry
LEMMA PrepareEntryEffect ==
  ASSUME Typed, NEW w \in Workers, PrepareEntry(w)
  PROVE  Effect(w)
<1>. DEFINE e == loc[w].ent
            c == TearDown(cache, e)
            r == [c.ent[e] EXCEPT !.tag = loc[w].page, !.tagValid = TRUE]
<1>0. /\ Locals /\ LatchTypes /\ cache \in CacheType
      /\ UNCHANGED <<npages, map, P, bufs, freeHead, disk, latest, loc, latches>>
      /\ pc[w] = "setup" /\ LocGood("setup", loc[w]) /\ e \in Ptr /\ loc[w].op = "get"
      /\ loc[w].page \in Pages
  BY LocFields DEF PrepareEntry, Typed, At, LocGood
<1>1. LatchTypes'
  BY <1>0, LatchesTyped DEF latches
<1>2. CASE Go(w, "again") /\ UNCHANGED <<cache, hist>>
  <2>1. Moves(w)
    BY <1>0, <1>2, GoingOn DEF Go, LocGood, WithEnt, WithIt, Vacating, Labels
  <2>. QED
    BY <1>0, <1>1, <1>2, <2>1, StoresStay, FaultSame DEF Effect, Typed, data
<1>3. CASE /\ e # 0 /\ Go(w, "insert") /\ hist' = Blemished(Torn(w), e, loc[w].page) /\ cache' = [c EXCEPT !.ent[e] = r]
  <2>1. e \in Entries
    BY <1>0, <1>3 DEF Ptr
  <2>2. StoreTypes' /\ Quiet
    BY <1>0, <1>3, <2>1, TornFields, HistStores DEF Typed
  <2>3. Same(cache, c)
    BY <1>0, <2>1, PinSame
  <2>. HIDE DEF c
  <2>4. c.ent[e] \in EntryType
    BY <2>1, <2>3, EntryFields DEF Same
  <2>5. r \in EntryType /\ r.buf = c.ent[e].buf
    BY <1>0, <2>4 DEF EntryType
  <2>. HIDE DEF r
  <2>6. Same(cache, cache')
    BY <1>3, <2>1, <2>3, <2>5, EntrySet DEF Same
  <2>7. Moves(w)
    BY <1>0, <1>3, GoingOn DEF Go, LocGood, WithEnt, WithIt, Vacating, Labels
  <2>. QED
    BY <1>1, <2>2, <2>6, <2>7 DEF Effect
<1>. QED
  BY <1>2, <1>3 DEF PrepareEntry

\* InsertEntry
LEMMA InsertEntryEffect ==
  ASSUME Typed, NEW w \in Workers, InsertEntry(w)
  PROVE  Effect(w)
<1>. DEFINE e == loc[w].ent
            t == loc[w].page
            x == map[t]
            get == loc[w].op = "get"
            top == Ent(w).top \/ get
            n == Ent(w).refs + 1
            r == [cache.ent[e] EXCEPT !.refs = n, !.top = top, !.tag = t, !.tagValid = TRUE]
            k == [loc[w] EXCEPT !.ent = x, !.it = e]
<1>0. /\ Locals /\ LatchTypes /\ cache \in CacheType
      /\ UNCHANGED <<P, bufs, freeHead, listLatch, pageLatch, npages, disk, latest>>
      /\ pc[w] = "insert" /\ LocGood("insert", loc[w]) /\ e \in Entries /\ t \in Pages
  BY LocFields DEF InsertEntry, Typed, At, LocGood, WithEnt, Ptr
<1>1. hist' \in HistType /\ hist'.aba = hist.aba
  <2>1. hist \in HistType /\ t \in Nat
    BY <1>0 DEF Typed, StoreTypes, Pages
  <2>2. PICK s \in {hist.raced, hist.raced \cup {t}}, dr \in {hist.dropped, hist.dropped \cup {t}} :
          hist' = [hist EXCEPT !.raced = s, !.dropped = dr]
    <3>1. PICK s \in {hist.raced, hist.raced \cup {t}} :
            hist' = [hist EXCEPT !.raced = s] \/ hist' = Blemished([hist EXCEPT !.raced = s], e, t)
      BY Zenon DEF InsertEntry
    <3>2. [hist EXCEPT !.raced = s] = [hist EXCEPT !.raced = s, !.dropped = hist.dropped]
      BY <2>1 DEF HistType
    <3>3. \E dr \in {hist.dropped, hist.dropped \cup {t}} :
            Blemished([hist EXCEPT !.raced = s], e, t) = [hist EXCEPT !.raced = s, !.dropped = dr]
      BY <2>1 DEF HistType, Blemished
    <3>. QED
      BY <3>1, <3>2, <3>3
  <2>3. s \in SUBSET Nat /\ dr \in SUBSET Nat
    BY <2>1, <2>2 DEF HistType
  <2>. QED
    BY <2>1, <2>2, <2>3 DEF HistType
<1>2. CASE /\ map' = [map EXCEPT ![t] = e] /\ mapLatch' = Take(mapLatch, t, w) /\ Go(w, "loadFree")
           /\ cache' = [cache EXCEPT !.ent[e] = r] /\ UNCHANGED loc
  <2>1. StoreTypes' /\ Quiet
    BY <1>0, <1>1, <1>2 DEF StoreTypes, Quiet, Typed, Ptr
  <2>2. LatchTypes'
    BY <1>0, <1>2, LatchesTyped
  <2>3. top \in BOOLEAN /\ n \in Nat /\ cache.ent[e] \in EntryType
    BY <1>0, EntryFields DEF Ent
  <2>. HIDE DEF top, n
  <2>4. r \in EntryType /\ r.buf = cache.ent[e].buf
    BY <1>0, <2>3 DEF EntryType
  <2>. HIDE DEF r
  <2>5. Same(cache, cache')
    BY <1>0, <1>2, <2>4, EntrySet DEF Same
  <2>6. Moves(w)
    BY <1>0, <1>2, GoingOn DEF Go, LocGood, WithEnt, WithIt, Vacating, Labels
  <2>. QED
    BY <2>1, <2>2, <2>5, <2>6 DEF Effect
<1>3. CASE /\ x # 0 /\ cache' = Pin(cache, x)
           /\ loc' = [loc EXCEPT ![w].ent = x, ![w].it = e] /\ Go(w, "giveBack")
           /\ UNCHANGED <<map, mapLatch>>
  <2>1. StoreTypes' /\ Quiet
    BY <1>0, <1>1, <1>3 DEF StoreTypes, Quiet, Typed
  <2>2. LatchTypes'
    BY <1>0, <1>3, LatchesTyped
  <2>3. x \in Entries
    BY <1>0, <1>3 DEF Typed, StoreTypes, Ptr
  <2>4. Same(cache, cache')
    BY <1>0, <1>3, <2>3, PinSame
  <2>5. k \in LocType /\ LocGood("giveBack", k)
    BY <1>0, <2>3, LocFields, PoolBounds, ZenonT(30) DEF LocType, LocGood, WithEnt, WithIt, Vacating, Ptr
  <2>6. loc' = [loc EXCEPT ![w] = k]
    BY <1>3
  <2>. HIDE DEF k
  <2>7. Moves(w)
    BY <1>0, <1>3, <2>5, <2>6, Going DEF Labels, Go
  <2>. QED
    BY <2>1, <2>2, <2>4, <2>7 DEF Effect
<1>. QED
  BY <1>2, <1>3 DEF InsertEntry

\* LoadFree
LEMMA LoadFreeEffect ==
  ASSUME Typed, NEW w \in Workers, LoadFree(w)
  PROVE  Effect(w)
<1>. DEFINE r1 == [loc[w] EXCEPT !.it = loc[w].ent, !.ent = 0]
            r2 == [loc[w] EXCEPT !.buf = freeHead, !.next = bufs[freeHead].next]
<1>0. /\ Locals /\ LatchTypes /\ cache \in CacheType
      /\ UNCHANGED <<cache, P, bufs, freeHead, listLatch, pageLatch, npages, data>>
      /\ pc[w] = "loadFree" /\ LocGood("loadFree", loc[w]) /\ freeHead \in BufPtr
  BY LocFields DEF LoadFree, Typed, Rest, At, StoreTypes
<1>1. StoreTypes' /\ Quiet
  BY <1>0, StoresMapped DEF LoadFree, Typed
<1>2. LatchTypes'
  BY <1>0, LatchesTyped DEF LoadFree
<1>3. CASE loc' = [loc EXCEPT ![w].it = loc[w].ent, ![w].ent = 0] /\ Go(w, "giveBack")
  <2>1. r1 \in LocType /\ LocGood("giveBack", r1)
    BY <1>0, LocFields, ZenonT(30) DEF LocType, LocGood, WithEnt, WithIt, Vacating, Ptr
  <2>2. loc' = [loc EXCEPT ![w] = r1]
    BY <1>3
  <2>. HIDE DEF r1
  <2>3. Moves(w)
    BY <1>0, <1>3, <2>1, <2>2, Going DEF Labels, Go
  <2>. QED
    BY <1>0, <1>1, <1>2, <2>3, FaultSame DEF Effect
<1>4. CASE /\ freeHead # 0 /\ Go(w, "takeFree")
           /\ loc' = [loc EXCEPT ![w].buf = freeHead, ![w].next = bufs[freeHead].next]
  <2>1. bufs[freeHead].next \in BufPtr
    BY <1>0, <1>4 DEF Typed, StoreTypes, BufPtr
  <2>2. r2 \in LocType /\ LocGood("takeFree", r2)
    BY <1>0, <1>4, <2>1, LocFields, ZenonT(40) DEF LocType, LocGood, WithEnt, WithIt, Vacating
  <2>3. loc' = [loc EXCEPT ![w] = r2]
    BY <1>4
  <2>. HIDE DEF r2
  <2>4. Moves(w)
    BY <1>0, <1>4, <2>2, <2>3, Going DEF Labels, Go
  <2>. QED
    BY <1>0, <1>1, <1>2, <2>4, FaultSame DEF Effect
<1>. QED
  BY <1>3, <1>4 DEF LoadFree

\* GiveBack
LEMMA GiveBackEffect ==
  ASSUME Typed, NEW w \in Workers, GiveBack(w)
  PROVE  Effect(w)
<1>0. /\ Locals /\ LatchTypes /\ cache \in CacheType
      /\ UNCHANGED <<P, bufs, freeHead, map, npages, data>>
      /\ pc[w] = "giveBack" /\ LocGood("giveBack", loc[w]) /\ loc[w].it \in Entries
  BY LocFields DEF GiveBack, Typed, Rest, At, LocGood, WithIt, Ptr
<1>1. StoreTypes' /\ Quiet
  BY <1>0, StoresStay DEF Typed
<1>2. Same(cache, cache')
  BY <1>0, InsertSame DEF GiveBack, Lists
<1>3. CASE Throw(w)
  BY <1>0, <1>1, <1>2, <1>3, ThrowMoves DEF Effect
<1>4. CASE /\ loc[w].ent # 0 /\ Go(w, IF loc[w].op = "get" THEN "hit" ELSE "extendHit")
           /\ loc' = [loc EXCEPT ![w] = Kept(w)] /\ UNCHANGED latches
  <2>1. PICK l \in {"hit", "extendHit"} : pc' = [pc EXCEPT ![w] = l] /\ (l = "hit" => loc[w].op = "get")
    BY <1>4 DEF Go
  <2>2. Kept(w) \in LocType /\ LocGood(l, Kept(w))
    BY <1>0, <1>4, KeptType DEF LocGood, WithEnt, WithIt, Vacating
  <2>3. Moves(w)
    BY <1>0, <1>4, <2>1, <2>2, Going, ZenonT(30) DEF Labels
  <2>. QED
    BY <1>0, <1>1, <1>2, <1>4, <2>3, LatchesTyped DEF Effect, latches
<1>. QED
  BY <1>3, <1>4 DEF GiveBack

\* Two flags of an entry.
LEMMA TopSame ==
  ASSUME NEW c \in CacheType, NEW e \in Entries, NEW b \in BOOLEAN
  PROVE  /\ Same(c, [c EXCEPT !.ent[e] = [@ EXCEPT !.top = TRUE, !.locked = b]])
         /\ Same(c, [c EXCEPT !.ent[e] = [@ EXCEPT !.top = TRUE, !.freq = b]])
<1>0. c.ent[e] \in EntryType
  BY EntryFields
<1>. DEFINE r1 == [c.ent[e] EXCEPT !.top = TRUE, !.locked = b]
            r2 == [c.ent[e] EXCEPT !.top = TRUE, !.freq = b]
<1>1. r1 \in EntryType /\ r1.buf = c.ent[e].buf /\ r2 \in EntryType /\ r2.buf = c.ent[e].buf
  BY <1>0 DEF EntryType
<1>2. /\ [c EXCEPT !.ent[e] = [@ EXCEPT !.top = TRUE, !.locked = b]] = [c EXCEPT !.ent[e] = r1]
      /\ [c EXCEPT !.ent[e] = [@ EXCEPT !.top = TRUE, !.freq = b]] = [c EXCEPT !.ent[e] = r2]
  OBVIOUS
<1>. HIDE DEF r1, r2
<1>. QED
  BY <1>1, <1>2, EntrySet DEF Same

\* FirstToT1 and ToT1
LEMMA ToT1Effect ==
  ASSUME Typed, NEW w \in Workers, FirstToT1(w) \/ ToT1(w)
  PROVE  Effect(w)
<1>. DEFINE e == loc[w].ent
            c == InsertMRU(cache, "T1", e)
<1>0. /\ Locals /\ LatchTypes /\ cache \in CacheType
      /\ UNCHANGED <<P, bufs, freeHead, map, npages, data, loc>>
      /\ pc[w] \in {"toT1first", "toT1"} /\ LocGood(pc[w], loc[w]) /\ e \in Entries
  BY LocFields DEF FirstToT1, ToT1, Typed, Rest, At, LocGood, WithEnt, Ptr
<1>1. StoreTypes' /\ Quiet
  BY <1>0, StoresStay DEF Typed
<1>2. LatchTypes'
  BY <1>0, LatchesTyped DEF FirstToT1, ToT1, latches
<1>3. PICK b \in BOOLEAN : cache' = [c EXCEPT !.ent[e] = [@ EXCEPT !.top = TRUE, !.locked = b]]
  BY DEF FirstToT1, ToT1
<1>4. Same(cache, c) /\ c \in CacheType
  BY <1>0, InsertSame DEF Lists, Same
<1>. HIDE DEF c
<1>5. Same(cache, cache')
  <2>1. Same(c, cache')
    BY <1>0, <1>3, <1>4, TopSame
  <2>. QED
    BY <1>4, <2>1 DEF Same
<1>6. PICK l \in {"toT1", "data", "extendIO"} : pc' = [pc EXCEPT ![w] = l]
  BY DEF FirstToT1, ToT1, Go
<1>7. Moves(w)
  BY <1>0, <1>6, GoingOn, ZenonT(40) DEF LocGood, WithEnt, WithIt, Vacating, Labels
<1>. QED
  BY <1>1, <1>2, <1>5, <1>7 DEF Effect

\* CacheHit
LEMMA CacheHitEffect ==
  ASSUME Typed, NEW w \in Workers, CacheHit(w)
  PROVE  Effect(w)
<1>. DEFINE e == loc[w].ent
            c1 == RemoveEntry(cache, "T1", e)
            c == InsertMRU(c1, "T2", e)
<1>0. /\ Locals /\ LatchTypes /\ cache \in CacheType
      /\ UNCHANGED <<P, bufs, freeHead, map, npages, data>>
      /\ pc[w] \in {"hitT1", "hitT2"} /\ LocGood(pc[w], loc[w]) /\ e \in Entries
      /\ "T1" \in Lists /\ "T2" \in Lists
  BY LocFields DEF CacheHit, Typed, Rest, At, LocGood, WithEnt, Ptr, Lists
<1>1. StoreTypes' /\ Quiet
  BY <1>0, StoresStay DEF Typed
<1>2. CASE cache' = [cache EXCEPT !.ent[e].locked = TRUE] /\ Throw(w)
  <2>1. Same(cache, cache')
    BY <1>0, <1>2, FlagSame
  <2>. QED
    BY <1>0, <1>1, <1>2, <2>1, ThrowMoves DEF Effect
<1>3. CASE /\ Go(w, "data") /\ UNCHANGED <<latches, loc>>
           /\ \/ CanRemove(cache, "T2") /\ cache' = MoveMRU(cache, "T2", e)
              \/ CanRemove(cache, "T1") /\ cache' = [c EXCEPT !.ent[e].freq = TRUE]
  <2>1. Same(cache, cache')
    <3>1. CASE CanRemove(cache, "T2") /\ cache' = MoveMRU(cache, "T2", e)
      BY <1>0, <3>1, MoveSame
    <3>2. CASE CanRemove(cache, "T1") /\ cache' = [c EXCEPT !.ent[e].freq = TRUE]
      <4>1. Same(cache, c1)
        BY <1>0, <3>2, RemoveSame
      <4>. HIDE DEF c1
      <4>2. Same(c1, c) /\ c \in CacheType
        BY <1>0, <4>1, InsertSame DEF Same
      <4>. HIDE DEF c
      <4>3. Same(c, cache')
        BY <1>0, <3>2, <4>2, FlagSame
      <4>. QED
        BY <4>1, <4>2, <4>3 DEF Same
    <3>. QED
      BY <1>3, <3>1, <3>2
  <2>2. Moves(w)
    BY <1>0, <1>3, GoingOn DEF Go, LocGood, WithEnt, WithIt, Vacating, Labels
  <2>. QED
    BY <1>0, <1>1, <1>3, <2>1, <2>2, LatchesTyped DEF Effect, latches
<1>. QED
  BY <1>2, <1>3 DEF CacheHit

\* GhostSizes
LEMMA GhostSizesEffect ==
  ASSUME Typed, NEW w \in Workers, GhostSizes(w)
  PROVE  Effect(w)
<1>. DEFINE b1 == Size(cache, "B1")
            b2 == Size(cache, "B2")
            delta == IF loc[w].fq THEN (IF b1 >= b2 THEN 1 ELSE b2 \div b1)
                                  ELSE (IF b2 >= b1 THEN 1 ELSE b1 \div b2)
            up == (P + delta) % Width
            r == [loc[w] EXCEPT !.p = P, !.ret = "ghostMove"]
<1>0. /\ Locals /\ LatchTypes /\ cache \in CacheType
      /\ UNCHANGED <<map, bufs, freeHead, latches, npages, data>>
      /\ pc[w] = "ghostHit" /\ LocGood("ghostHit", loc[w]) /\ P \in 0..(Width - 1)
      /\ b1 \in 0..(Width - 1) /\ b2 \in 0..(Width - 1) /\ npages \in 0..(Width - 1)
  <2>1. "B1" \in Lists /\ "B2" \in Lists
    BY DEF Lists
  <2>2. b1 \in 0..(Width - 1) /\ b2 \in 0..(Width - 1)
    BY <2>1, ListFields DEF Typed
  <2>. HIDE DEF b1, b2
  <2>3. npages \in 0..(Width - 1) /\ P \in 0..(Width - 1)
    BY PoolBounds DEF Typed, StoreTypes
  <2>. QED
    BY <2>2, <2>3, LocFields DEF GhostSizes, Typed, Rest, At
<1>1. LatchTypes'
  BY <1>0, LatchesTyped DEF latches
<1>2. CASE Fault /\ UNCHANGED <<P, loc, pc>>
  <2>1. Moves(w)
    BY <1>0, <1>2 DEF Moves, Locals
  <2>2. StoreTypes' /\ Quiet
    BY <1>0, <1>2, StoresStay DEF Typed
  <2>. QED
    BY <1>0, <1>1, <1>2, <2>1, <2>2, FaultSame DEF Effect, Fault
<1>3. CASE /\ P' = IF loc[w].fq THEN (IF up < npages THEN up ELSE npages)
                                ELSE (P + Width - delta) % Width
           /\ UNCHANGED cache /\ Go(w, "adjust")
           /\ loc' = [loc EXCEPT ![w].p = P, ![w].ret = "ghostMove"]
           /\ ~(IF loc[w].fq THEN b1 < b2 /\ b1 = 0 ELSE b2 < b1 /\ b2 = 0)
  <2>. HIDE DEF b1, b2
  <2>1. delta \in Nat
    <3>1. CASE loc[w].fq
      BY <1>0, <1>3, <3>1, PoolBounds
    <3>2. CASE ~loc[w].fq
      BY <1>0, <1>3, <3>2, PoolBounds
    <3>. QED
      BY <3>1, <3>2
  <2>. HIDE DEF delta
  <2>2. up \in 0..(Width - 1) /\ (P + Width - delta) % Width \in 0..(Width - 1)
    BY <1>0, <2>1, PoolBounds
  <2>. HIDE DEF up
  <2>3. P' \in 0..(Width - 1)
    BY <1>0, <1>3, <2>2
  <2>4. StoreTypes' /\ Quiet
    BY <1>0, <2>3 DEF StoreTypes, Quiet, Typed, data
  <2>5. r \in LocType /\ LocGood("adjust", r)
    BY <1>0, LocFields DEF LocType, LocGood, WithEnt, WithIt, Vacating
  <2>6. loc' = [loc EXCEPT ![w] = r]
    BY <1>3
  <2>. HIDE DEF r
  <2>7. Moves(w)
    BY <1>0, <1>3, <2>5, <2>6, Going DEF Labels, Go
  <2>. QED
    BY <1>0, <1>1, <1>3, <2>4, <2>7, FaultSame DEF Effect
<1>. QED
  BY <1>2, <1>3 DEF GhostSizes

\* GhostMove
LEMMA GhostMoveEffect ==
  ASSUME Typed, NEW w \in Workers, GhostMove(w)
  PROVE  Effect(w)
<1>. DEFINE e == loc[w].ent
            l == IF loc[w].fq THEN "B1" ELSE "B2"
            c1 == RemoveEntry(cache, l, e)
            c == InsertMRU(c1, "T2", e)
            next == IF loc[w].op = "get" THEN "data" ELSE "extendAgain"
<1>0. /\ Locals /\ LatchTypes /\ cache \in CacheType
      /\ UNCHANGED <<P, bufs, freeHead, map, npages, data>>
      /\ pc[w] = "ghostMove" /\ LocGood("ghostMove", loc[w]) /\ e \in Entries
      /\ l \in Lists /\ "T2" \in Lists
  BY LocFields, ZenonT(30) DEF GhostMove, Typed, Rest, At, LocGood, WithEnt, Ptr, Lists
<1>1. StoreTypes' /\ Quiet
  BY <1>0, StoresStay DEF Typed
<1>2. next \in {"data", "extendAgain"} /\ next \in Labels
  BY DEF Labels
<1>3. Kept(w) \in LocType /\ LocGood(next, Kept(w))
  BY <1>0, KeptType DEF LocGood, WithEnt, WithIt, Vacating
<1>4. CASE cache' = [cache EXCEPT !.ent[e].locked = TRUE] /\ Throw(w)
  <2>1. Same(cache, cache')
    BY <1>0, <1>4, FlagSame
  <2>. QED
    BY <1>0, <1>1, <1>4, <2>1, ThrowMoves DEF Effect
<1>5. CASE /\ Go(w, next) /\ loc' = [loc EXCEPT ![w] = Kept(w)] /\ UNCHANGED latches
           /\ \/ UNCHANGED cache
              \/ /\ CanRemove(cache, l)
                 /\ cache' = [c EXCEPT !.ent[e] = [@ EXCEPT !.top = TRUE, !.freq = TRUE]]
  <2>. HIDE DEF next, l
  <2>1. Same(cache, cache')
    <3>1. CASE UNCHANGED cache
      BY <1>0, <3>1, FaultSame
    <3>2. CASE /\ CanRemove(cache, l)
               /\ cache' = [c EXCEPT !.ent[e] = [@ EXCEPT !.top = TRUE, !.freq = TRUE]]
      <4>1. Same(cache, c1)
        BY <1>0, <3>2, RemoveSame
      <4>. HIDE DEF c1
      <4>2. Same(c1, c) /\ c \in CacheType
        BY <1>0, <4>1, InsertSame DEF Same
      <4>. HIDE DEF c
      <4>3. Same(c, cache')
        BY <1>0, <3>2, <4>2, TopSame
      <4>. QED
        BY <4>1, <4>2, <4>3 DEF Same
    <3>. QED
      BY <1>5, <3>1, <3>2
  <2>2. pc' = [pc EXCEPT ![w] = next] /\ next # "addFree"
    BY <1>2, <1>5 DEF Go
  <2>3. Moves(w)
    BY <1>0, <1>2, <1>3, <1>5, <2>2, Going
  <2>. QED
    BY <1>0, <1>1, <1>5, <2>1, <2>3, LatchesTyped DEF Effect, latches
<1>. QED
  BY <1>4, <1>5 DEF GhostMove

\* StartRead
LEMMA StartReadEffect ==
  ASSUME Typed, NEW w \in Workers, StartRead(w)
  PROVE  Effect(w)
<1>0. /\ Locals /\ LatchTypes /\ cache \in CacheType
      /\ UNCHANGED <<P, bufs, freeHead, map, npages, data, loc>>
      /\ pc[w] = "data" /\ LocGood("data", loc[w]) /\ loc[w].ent \in Entries
  BY LocFields DEF StartRead, Typed, Rest, At, LocGood, WithEnt, Ptr
<1>1. StoreTypes' /\ Quiet
  BY <1>0, StoresStay DEF Typed
<1>2. LatchTypes'
  BY <1>0, LatchesTyped DEF StartRead, Over, latches
<1>3. Same(cache, cache')
  BY <1>0, FlagSame, FaultSame DEF StartRead
<1>4. PICK l \in {"hold", "readIO"} : pc' = [pc EXCEPT ![w] = l]
  BY DEF StartRead, Over, Go
<1>5. Moves(w)
  BY <1>0, <1>4, GoingOn DEF LocGood, WithEnt, WithIt, Vacating, Labels
<1>. QED
  BY <1>1, <1>2, <1>3, <1>5 DEF Effect

\* ReadPage
LEMMA ReadPageEffect ==
  ASSUME Typed, NEW w \in Workers, ReadPage(w)
  PROVE  Effect(w)
<1>. DEFINE b == Ent(w).buf
            t == loc[w].page
<1>0. /\ Locals /\ LatchTypes /\ cache \in CacheType
      /\ UNCHANGED <<map, P, freeHead, listLatch, mapLatch, loc, npages>>
      /\ pc[w] = "readIO" /\ LocGood("readIO", loc[w]) /\ loc[w].ent \in Entries /\ t \in Pages
  BY LocFields DEF ReadPage, Typed, At, LocGood, WithEnt, Ptr
<1>1. LatchTypes'
  BY <1>0, LatchesTyped DEF ReadPage
<1>2. Same(cache, cache')
  BY <1>0, FaultSame DEF ReadPage, Fault
<1>3. Moves(w)
  <2>1. CASE pc' = pc
    BY <1>0, <2>1 DEF Moves, Locals
  <2>2. CASE Go(w, "readEnd") \/ Go(w, "readFailed")
    BY <1>0, <2>2, GoingOn DEF Go, LocGood, WithEnt, WithIt, Vacating, Labels
  <2>. QED
    BY <2>1, <2>2 DEF ReadPage
<1>4. StoreTypes' /\ Quiet
  <2>0. StoreTypes /\ b \in BufPtr /\ Ent(w).tag \in Pages \cup {0}
    BY <1>0, EntryFields DEF Typed, Ent
  <2>1. CASE UNCHANGED <<bufs, data>>
    BY <1>0, <2>0, <2>1, StoresStay
  <2>2. CASE /\ b # 0 /\ Ent(w).tag \in DOMAIN disk
             /\ bufs' = [bufs EXCEPT ![b].version = disk[Ent(w).tag]] /\ UNCHANGED data
    <3>1. b \in Buffers
      BY <2>0, <2>2 DEF BufPtr
    <3>2. disk[Ent(w).tag] \in Nat
      BY <2>0, <2>2, ElementOfSeq, LenProperties DEF StoreTypes
    <3>3. bufs' \in [Buffers -> [version : Nat, next : BufPtr]] /\ \A x \in Buffers : bufs'[x].next = bufs[x].next
      BY <2>0, <2>2, <3>1, <3>2 DEF StoreTypes
    <3>. QED
      BY <1>0, <2>0, <2>2, <3>3 DEF StoreTypes, Quiet, data
  <2>3. CASE /\ b # 0 /\ latest' = [latest EXCEPT ![t] = @ + 1]
             /\ bufs' = [bufs EXCEPT ![b].version = latest'[t]]
             /\ disk' = Written(disk, t, latest'[t])
             /\ hist' = [hist EXCEPT !.raced = IF map[t] = loc[w].ent THEN @ ELSE @ \cup {t}]
    <3>1. b \in Buffers
      BY <2>0, <2>3 DEF BufPtr
    <3>2. latest' \in [Pages -> Nat] /\ latest'[t] \in Nat
      BY <1>0, <2>0, <2>3 DEF StoreTypes
    <3>3. disk' \in Seq(Nat) /\ Len(disk') <= MaxPages
      BY <1>0, <2>0, <2>3, <3>2, WrittenType DEF StoreTypes
    <3>4. bufs' \in [Buffers -> [version : Nat, next : BufPtr]] /\ \A x \in Buffers : bufs'[x].next = bufs[x].next
      BY <2>0, <2>3, <3>1, <3>2 DEF StoreTypes
    <3>5. hist' \in HistType /\ hist'.aba = hist.aba
      <4>1. hist \in HistType /\ t \in Nat
        BY <1>0, <2>0 DEF StoreTypes, Pages
      <4>2. PICK s \in {hist.raced, hist.raced \cup {t}} : hist' = [hist EXCEPT !.raced = s]
        BY <2>3
      <4>3. s \in SUBSET Nat
        BY <4>1, <4>2 DEF HistType
      <4>. QED
        BY <4>1, <4>2, <4>3 DEF HistType
    <3>. QED
      BY <1>0, <2>0, <3>2, <3>3, <3>4, <3>5 DEF StoreTypes, Quiet
  <2>. QED
    BY <2>1, <2>2, <2>3 DEF ReadPage
<1>. QED
  BY <1>1, <1>2, <1>3, <1>4 DEF Effect

\* ReadEnd
LEMMA ReadEndEffect ==
  ASSUME Typed, NEW w \in Workers, ReadEnd(w)
  PROVE  Effect(w)
<1>0. /\ Locals /\ LatchTypes /\ cache \in CacheType
      /\ UNCHANGED <<P, bufs, freeHead, map, npages, data>>
      /\ pc[w] \in {"readEnd", "readFailed"} /\ LocGood(pc[w], loc[w]) /\ loc[w].ent \in Entries
  BY LocFields DEF ReadEnd, Typed, Rest, At, LocGood, WithEnt, Ptr
<1>1. StoreTypes' /\ Quiet
  BY <1>0, StoresStay DEF Typed
<1>2. Same(cache, cache')
  BY <1>0, TerminatedSame DEF ReadEnd
<1>3. CASE Over(w, "hold") /\ UNCHANGED loc
  <2>1. Moves(w)
    BY <1>0, <1>3, GoingOn DEF Over, Go, LocGood, WithEnt, WithIt, Vacating, Labels
  <2>2. LatchTypes'
    BY <1>0, <1>3, LatchesTyped DEF Over
  <2>. QED
    BY <1>1, <1>2, <2>1, <2>2 DEF Effect
<1>4. CASE Throw(w)
  BY <1>0, <1>1, <1>2, <1>4, ThrowMoves DEF Effect
<1>. QED
  BY <1>3, <1>4 DEF ReadEnd

\* ExtendIO, Invalidate and ExtendStart
LEMMA ExtendEffect ==
  ASSUME Typed, NEW w \in Workers, ExtendIO(w) \/ Invalidate(w) \/ ExtendStart(w)
  PROVE  Effect(w)
<1>0. /\ Locals /\ LatchTypes /\ cache \in CacheType
      /\ UNCHANGED <<P, bufs, freeHead, map, npages, data, loc, latches>>
      /\ pc[w] \in {"extendIO", "extendAgain", "extendStart"} /\ LocGood(pc[w], loc[w])
      /\ loc[w].ent \in Entries
  BY LocFields DEF ExtendIO, Invalidate, ExtendStart, Typed, Rest, At, LocGood, WithEnt, Ptr
<1>1. StoreTypes' /\ Quiet /\ LatchTypes'
  BY <1>0, StoresStay, LatchesTyped DEF Typed, latches
<1>2. Same(cache, cache')
  <2>1. CASE ExtendIO(w)
    <3>. DEFINE v == Ent(w).io \/ ~Ent(w).valid
    <3>1. cache' = [cache EXCEPT !.ent[loc[w].ent].io = v]
      BY <2>1 DEF ExtendIO, Ent
    <3>2. v \in BOOLEAN
      BY Zenon
    <3>. HIDE DEF v
    <3>. QED
      BY <1>0, <3>1, <3>2, FlagSame
  <2>2. CASE Invalidate(w)
    BY <1>0, <2>2, FlagSame DEF Invalidate
  <2>3. CASE ExtendStart(w)
    BY <1>0, <2>3, FlagSame, FaultSame DEF ExtendStart
  <2>. QED
    BY <2>1, <2>2, <2>3
<1>3. PICK l \in {"readIO", "extendStart", "extendAgain"} : pc' = [pc EXCEPT ![w] = l]
  BY DEF ExtendIO, Invalidate, ExtendStart, Go
<1>4. Moves(w)
  BY <1>0, <1>3, GoingOn, ZenonT(30) DEF LocGood, WithEnt, WithIt, Vacating, Labels
<1>. QED
  BY <1>1, <1>2, <1>4 DEF Effect

\* WritePage
LEMMA WritePageEffect ==
  ASSUME Typed, NEW w \in Workers, WritePage(w)
  PROVE  Effect(w)
<1>. DEFINE b == Ent(w).buf
            t == loc[w].page
<1>0. /\ Locals /\ LatchTypes /\ cache \in CacheType /\ StoreTypes
      /\ UNCHANGED <<npages, map, P, freeHead, latches, disk, pc, loc>>
      /\ pc[w] = "hold" /\ LocGood("hold", loc[w]) /\ loc[w].ent \in Entries /\ t \in Pages
      /\ b \in BufPtr
  BY LocFields, EntryFields, ZenonT(30) DEF WritePage, Typed, At, LocGood, WithEnt, Ptr, Ent
<1>1. LatchTypes'
  BY <1>0, LatchesTyped DEF latches
<1>2. Same(cache, cache')
  <2>1. CASE cache' = [cache EXCEPT !.ent[loc[w].ent].dirty = TRUE]
    BY <1>0, <2>1, FlagSame
  <2>2. CASE UNCHANGED cache \/ Fault
    BY <1>0, <2>2, FaultSame DEF Fault
  <2>. QED
    BY <2>1, <2>2 DEF WritePage
<1>3. Moves(w)
  BY <1>0 DEF Moves, Locals
<1>4. StoreTypes' /\ Quiet
  <2>1. CASE UNCHANGED <<bufs, latest, hist>>
    BY <1>0, <2>1, StoresStay DEF data
  <2>2. CASE /\ b # 0 /\ latest' = [latest EXCEPT ![t] = @ + 1]
             /\ bufs' = [bufs EXCEPT ![b].version = latest'[t]]
             /\ UNCHANGED hist \/ hist' = [hist EXCEPT !.unmarked = @ \cup {t}]
    <3>1. b \in Buffers /\ t \in Nat
      BY <1>0, <2>2 DEF BufPtr, Pages
    <3>2. latest' \in [Pages -> Nat] /\ latest'[t] \in Nat
      BY <1>0, <2>2 DEF StoreTypes
    <3>3. bufs' \in [Buffers -> [version : Nat, next : BufPtr]] /\ \A x \in Buffers : bufs'[x].next = bufs[x].next
      BY <1>0, <2>2, <3>1, <3>2, ZenonT(60) DEF StoreTypes
    <3>4. hist' \in HistType /\ hist'.aba = hist.aba
      <4>1. hist \in HistType /\ hist.unmarked \in SUBSET Nat
        BY <1>0 DEF StoreTypes, HistType
      <4>2. PICK s \in SUBSET Nat : UNCHANGED hist \/ hist' = [hist EXCEPT !.unmarked = s]
        BY <2>2, <3>1, <4>1
      <4>. QED
        BY <4>1, <4>2 DEF HistType
    <3>. QED
      BY <1>0, <3>2, <3>3, <3>4 DEF StoreTypes, Quiet
  <2>. QED
    BY <2>1, <2>2 DEF WritePage
<1>. QED
  BY <1>1, <1>2, <1>3, <1>4 DEF Effect

\* ReturnBuffer
LEMMA ReturnBufferEffect ==
  ASSUME Typed, NEW w \in Workers, ReturnBuffer(w)
  PROVE  Effect(w)
  BY LocFields, StoresStay, LatchesTyped, PinSame, NoOpType, Going DEF ReturnBuffer, Typed, Rest, At,
     LocGood, WithEnt, Ptr, latches, NoOp, WithIt, Vacating, Go, Labels, Effect

-----------------------------------------------------------------------------
(* The owners of the buffers                                                *)

\* A step with an effect keeps the types...
LEMMA EffectTyped ==
  ASSUME Typed, NEW w \in Workers, Effect(w)
  PROVE  Typed'
<1>1. Locals'
  <2>1. pc' \in [Workers -> Labels] /\ loc' \in [Workers -> LocType]
    BY DEF Effect, Moves
  <2>2. ASSUME NEW v \in Workers
        PROVE  LocGood(pc'[v], loc'[v])
    <3>1. CASE v = w
      BY <3>1 DEF Effect, Moves
    <3>2. CASE v # w
      BY <3>2 DEF Effect, Moves, Typed, Locals
    <3>. QED
      BY <3>1, <3>2
  <2>. QED
    BY <2>1, <2>2 DEF Locals
<1>. QED
  BY <1>1 DEF Typed, Effect, Same

\* ... and the owners.
LEMMA EffectOwners ==
  ASSUME Owners, NEW w \in Workers, Effect(w)
  PROVE  Owners'
<1>1. \A v \in Workers : \A b : Carries(v, b)' <=> Carries(v, b)
  BY DEF Effect, Moves, Carries
<1>2. \A e \in Entries : cache'.ent[e].buf = cache.ent[e].buf
  BY DEF Effect, Same
<1>3. freeHead' = freeHead /\ \A b \in Buffers : bufs'[b].next = bufs[b].next
  BY DEF Effect, Quiet
<1>4. PICK s, k : Stack(s, k)
  BY DEF Owners
<1>5. Stack(s, k)'
  BY <1>4, <1>3, <1>1, <1>2 DEF Stack
<1>6. \A d, e \in Entries : d # e /\ cache'.ent[d].buf # 0 => cache'.ent[d].buf # cache'.ent[e].buf
  BY <1>2 DEF Owners
<1>7. \A b \in Buffers, v \in Workers : Carries(v, b)' =>
        /\ \A e \in Entries : cache'.ent[e].buf # b
        /\ \A u \in Workers : Carries(u, b)' => u = v
  BY <1>1, <1>2 DEF Owners
<1>. QED
  BY <1>5, <1>6, <1>7 DEF Owners

LEMMA EffectKeeps ==
  ASSUME PoolInv, NEW w \in Workers, Effect(w)
  PROVE  PoolInv'
  BY EffectTyped, EffectOwners DEF PoolInv, Typed, Effect, Quiet

\* The types after a step of one worker.
LEMMA MovedLocals ==
  ASSUME Locals, NEW w \in Workers, NEW l \in Labels, NEW r \in LocType, LocGood(l, r),
         pc' = [pc EXCEPT ![w] = l], loc' = [loc EXCEPT ![w] = r]
  PROVE  Locals'
  BY DEF Locals

\* LinkedList::Add
LEMMA AddFreeKeeps ==
  ASSUME PoolInv, NEW w \in Workers, AddFree(w)
  PROVE  PoolInv'
<1>. DEFINE b == loc[w].buf
            k0 == [Kept(w) EXCEPT !.fq = loc[w].fq]
<1>0. /\ Typed /\ Locals /\ LatchTypes /\ cache \in CacheType /\ StoreTypes
      /\ UNCHANGED <<map, P, mapLatch, pageLatch, npages, data>>
      /\ pc[w] = "addFree" /\ LocGood("addFree", loc[w]) /\ b \in BufPtr /\ freeHead \in BufPtr
  BY LocFields DEF AddFree, PoolInv, Typed, Rest, At, StoreTypes
<1>1. LatchTypes'
  BY <1>0, LatchesTyped DEF AddFree
<1>2. CASE Fault /\ UNCHANGED <<bufs, freeHead, listLatch, pc, loc>>
  <2>1. StoreTypes' /\ Locals' /\ hist' = hist
    BY <1>0, <1>2, StoresStay DEF Locals, data
  <2>2. Same(cache, cache')
    BY <1>0, <1>2, FaultSame DEF Fault
  <2>3. ASSUME Owners
        PROVE  Owners'
    <3>1. PICK s, k : Stack(s, k)
      BY <2>3 DEF Owners
    <3>2. Stack(s, k)'
      BY <1>2, <2>2, <3>1 DEF Stack, Carries, Same
    <3>3. \A d, e \in Entries : d # e /\ cache'.ent[d].buf # 0 => cache'.ent[d].buf # cache'.ent[e].buf
      BY <2>2, <2>3 DEF Owners, Same
    <3>4. \A x \in Buffers, v \in Workers : Carries(v, x)' =>
            /\ \A e \in Entries : cache'.ent[e].buf # x
            /\ \A u \in Workers : Carries(u, x)' => u = v
      BY <1>2, <2>2, <2>3 DEF Owners, Same, Carries
    <3>. QED
      BY <3>2, <3>3, <3>4 DEF Owners
  <2>. QED
    BY <1>1, <2>1, <2>2, <2>3 DEF PoolInv, Same
<1>3. CASE /\ b # 0 /\ bufs' = [bufs EXCEPT ![b].next = freeHead] /\ freeHead' = b
           /\ loc' = [loc EXCEPT ![w] = k0] /\ Go(w, loc[w].ret) /\ UNCHANGED cache
  <2>1. b \in Buffers
    BY <1>0, <1>3 DEF BufPtr
  <2>2. k0 \in LocType /\ LocGood(loc[w].ret, k0) /\ loc[w].ret \in {"evict", "ghostMove"}
    BY <1>0, LocFields, KeptType DEF LocType, LocGood, WithEnt, WithIt, Vacating
  <2>. HIDE DEF k0
  <2>3. Locals'
    <3>1. loc[w].ret \in Labels
      BY <2>2 DEF Labels
    <3>. QED
      BY <1>0, <1>3, <2>2, <3>1, MovedLocals DEF Go
  <2>4. StoreTypes' /\ hist' = hist
    BY <1>0, <1>3, <2>1 DEF StoreTypes, data, BufPtr
  <2>5. ASSUME Owners
        PROVE  Owners'
    <3>0. PICK n \in Buffers : n = b
      BY <2>1
    <3>1. PICK s, k : Stack(s, k)
      BY <2>5 DEF Owners
    <3>2. /\ k \in Nat /\ s \in [1..k -> Buffers] /\ \A i, j \in 1..k : s[i] = s[j] => i = j
          /\ freeHead = IF k = 0 THEN 0 ELSE s[1]
      BY <3>1 DEF Stack
    <3>3. Carries(w, n) /\ \A i \in 1..k : s[i] # n
      BY <1>0, <3>0, <3>1 DEF Stack, Carries
    <3>4. \A v \in Workers, x \in Buffers : Carries(v, x)' => Carries(v, x) /\ v # w
      BY <1>0, <1>3, <2>2 DEF Carries, Go, Locals
    <3>. DEFINE s2 == [i \in 1..(k + 1) |-> IF i = 1 THEN n ELSE s[i - 1]]
    <3>5. k + 1 \in Nat /\ s2 \in [1..(k + 1) -> Buffers]
      BY <3>2
    <3>6. \A i, j \in 1..(k + 1) : s2[i] = s2[j] => i = j
      BY <3>2, <3>3
    <3>7. freeHead' = s2[1]
      BY <1>3, <3>0, <3>2
    <3>8. ASSUME NEW i \in 1..(k + 1)
          PROVE  bufs'[s2[i]].next = IF i = k + 1 THEN 0 ELSE s2[i + 1]
      <4>1. CASE i = 1
        BY <1>0, <1>3, <3>0, <4>1, <3>2 DEF StoreTypes
      <4>2. CASE i # 1
        <5>1. i - 1 \in 1..k /\ s2[i] = s[i - 1] /\ (i # k + 1 => s2[i + 1] = s[i])
          BY <3>2, <4>2
        <5>2. bufs'[s[i - 1]] = bufs[s[i - 1]]
          BY <1>3, <3>0, <3>3, <5>1
        <5>3. bufs[s[i - 1]].next = IF i - 1 = k THEN 0 ELSE s[(i - 1) + 1]
          BY <3>1, <5>1 DEF Stack
        <5>. QED
          BY <3>2, <4>2, <5>1, <5>2, <5>3
      <4>. QED
        BY <4>1, <4>2
    <3>9. ASSUME NEW i \in 1..(k + 1)
          PROVE  /\ \A e \in Entries : cache'.ent[e].buf # s2[i]
                 /\ \A v \in Workers : ~Carries(v, s2[i])'
      <4>1. CASE i = 1
        <5>1. s2[i] = n
          BY <4>1
        <5>. QED
          BY <1>3, <2>5, <3>3, <3>4, <5>1 DEF Owners
      <4>2. CASE i # 1
        BY <3>2, <4>2, <1>3, <3>1, <3>4 DEF Stack
      <4>. QED
        BY <4>1, <4>2
    <3>. HIDE DEF s2
    <3>10. Stack(s2, k + 1)'
      BY <3>2, <3>5, <3>6, <3>7, <3>8, <3>9 DEF Stack
    <3>11. \A d, e \in Entries : d # e /\ cache'.ent[d].buf # 0 => cache'.ent[d].buf # cache'.ent[e].buf
      BY <1>3, <2>5 DEF Owners
    <3>12. \A x \in Buffers, v \in Workers : Carries(v, x)' =>
             /\ \A e \in Entries : cache'.ent[e].buf # x
             /\ \A u \in Workers : Carries(u, x)' => u = v
      BY <1>3, <2>5, <3>4 DEF Owners
    <3>. QED
      BY <3>10, <3>11, <3>12 DEF Owners
  <2>. QED
    BY <1>0, <1>1, <1>3, <2>3, <2>4, <2>5 DEF PoolInv
<1>. QED
  BY <1>2, <1>3 DEF AddFree

\* An entry without its buffer.
GhostOf(c, e, b) ==
  [c EXCEPT !.ent[e] = [@ EXCEPT !.buf = 0, !.top = FALSE, !.freq = b, !.locked = FALSE]]

LEMMA GhostEntry ==
  ASSUME NEW c \in CacheType, NEW e \in Entries, NEW b \in BOOLEAN
  PROVE  /\ GhostOf(c, e, b) \in CacheType /\ GhostOf(c, e, b).ent[e].buf = 0
         /\ \A x \in Entries \ {e} : GhostOf(c, e, b).ent[x] = c.ent[x]
<1>. DEFINE r == [c.ent[e] EXCEPT !.buf = 0, !.top = FALSE, !.freq = b, !.locked = FALSE]
<1>0. c.ent[e] \in EntryType /\ c.ent \in [Entries -> EntryType]
  BY EntryFields DEF CacheType
<1>1. r \in EntryType /\ r.buf = 0
  BY <1>0 DEF EntryType, BufPtr
<1>2. GhostOf(c, e, b) = [c EXCEPT !.ent[e] = r]
  BY DEF GhostOf
<1>. HIDE DEF r
<1>3. [c.ent EXCEPT ![e] = r] \in [Entries -> EntryType] /\ [c.ent EXCEPT ![e] = r][e] = r
      /\ \A x \in Entries \ {e} : [c.ent EXCEPT ![e] = r][x] = c.ent[x]
  BY <1>0, <1>1
<1>4. GhostOf(c, e, b).ent = [c.ent EXCEPT ![e] = r] /\ GhostOf(c, e, b) \in CacheType
  BY <1>2, <1>3 DEF CacheType
<1>. QED
  BY <1>1, <1>3, <1>4

\* tryVacateEntry gives the buffer of an entry up.
LEMMA GhostifyKeeps ==
  ASSUME PoolInv, NEW w \in Workers, Ghostify(w)
  PROVE  PoolInv'
<1>. DEFINE e == loc[w].it
            fq == loc[w].list = "T2"
            u == Unpin(cache, e)
            c == GhostOf(u, e, fq)
            r == [loc[w] EXCEPT !.buf = It(w).buf]
<1>0. /\ Typed /\ Locals /\ LatchTypes /\ cache \in CacheType /\ StoreTypes
      /\ UNCHANGED <<map, P, bufs, freeHead, mapLatch, pageLatch, npages, disk, latest>>
      /\ pc[w] = "ghostify" /\ LocGood("ghostify", loc[w]) /\ e \in Entries
  BY LocFields DEF Ghostify, PoolInv, Typed, At, LocGood, WithIt, Ptr
<1>1. LatchTypes'
  BY <1>0, LatchesTyped DEF Ghostify
<1>2. It(w).buf \in BufPtr /\ It(w).tag \in Pages \cup {0} /\ cache.ent[e].buf = It(w).buf
  BY <1>0, EntryFields DEF It
<1>3. r \in LocType /\ LocGood("addFree", r) /\ r.buf = It(w).buf
  BY <1>0, <1>2, LocFields DEF LocType, LocGood, WithEnt, WithIt, Vacating
<1>4. pc' = [pc EXCEPT ![w] = "addFree"] /\ loc' = [loc EXCEPT ![w] = r]
  BY DEF Ghostify, Go
<1>. HIDE DEF r
<1>5. Locals'
  BY <1>0, <1>3, <1>4, MovedLocals DEF Labels
<1>6. hist' \in HistType /\ hist'.aba = hist.aba
  <2>1. hist \in HistType /\ hist.dropped \in SUBSET Nat /\ It(w).tag \in Nat
    BY <1>0, <1>2 DEF StoreTypes, HistType, Pages
  <2>2. PICK s \in SUBSET Nat : hist' = hist \/ hist' = [hist EXCEPT !.dropped = s]
    BY <2>1 DEF Ghostify
  <2>. QED
    BY <2>1, <2>2 DEF HistType
<1>7. StoreTypes'
  BY <1>0, <1>6 DEF StoreTypes
<1>8. /\ cache' \in CacheType /\ cache'.ent[e].buf = 0
      /\ \A x \in Entries \ {e} : cache'.ent[x].buf = cache.ent[x].buf
  <2>0. cache' = InsertMRU(c, GhostList(w), e)
    BY Zenon DEF Ghostify, GhostOf
  <2>1. Same(cache, u) /\ u \in CacheType
    BY <1>0, PinSame DEF Same
  <2>. HIDE DEF u
  <2>2. fq \in BOOLEAN
    OBVIOUS
  <2>. HIDE DEF fq
  <2>3. c \in CacheType /\ c.ent[e].buf = 0 /\ \A x \in Entries \ {e} : c.ent[x] = u.ent[x]
    BY <1>0, <2>1, <2>2, GhostEntry
  <2>. HIDE DEF c
  <2>4. Same(c, cache')
    BY <1>0, <2>0, <2>3, InsertSame DEF GhostList, Lists
  <2>. QED
    BY <1>0, <2>1, <2>3, <2>4 DEF Same
<1>9. ASSUME Owners
      PROVE  Owners'
  <2>0. PICK b \in BufPtr : b = cache.ent[e].buf
    BY <1>2
  <2>1. PICK s, k : Stack(s, k)
    BY <1>9 DEF Owners
  <2>2. \A v \in Workers : \A x : Carries(v, x)' <=> IF v = w THEN x = b ELSE Carries(v, x)
    BY <1>0, <1>2, <1>3, <1>4, <2>0 DEF Carries, Locals
  <2>3. /\ k \in Nat /\ s \in [1..k -> Buffers] /\ \A i, j \in 1..k : s[i] = s[j] => i = j
        /\ freeHead' = (IF k = 0 THEN 0 ELSE s[1])
        /\ \A i \in 1..k : bufs'[s[i]].next = IF i = k THEN 0 ELSE s[i + 1]
    BY <1>0, <2>1 DEF Stack
  <2>4. ASSUME NEW i \in 1..k
        PROVE  /\ \A x \in Entries : cache'.ent[x].buf # s[i]
               /\ \A v \in Workers : ~Carries(v, s[i])'
    BY <1>0, <2>0, <2>1, PoolBounds, <1>8, <2>2 DEF Stack
  <2>5. Stack(s, k)'
    BY <2>3, <2>4 DEF Stack
  <2>6. \A d, x \in Entries : d # x /\ cache'.ent[d].buf # 0 => cache'.ent[d].buf # cache'.ent[x].buf
    BY <1>0, <1>8, <1>9 DEF Owners
  <2>7. \A x \in Buffers, v \in Workers : Carries(v, x)' =>
          /\ \A y \in Entries : cache'.ent[y].buf # x
          /\ \A z \in Workers : Carries(z, x)' => z = v
    <3>1. ASSUME NEW x \in Buffers, NEW v \in Workers, Carries(v, x)'
          PROVE  /\ \A y \in Entries : cache'.ent[y].buf # x
                 /\ \A z \in Workers : Carries(z, x)' => z = v
      <4>0. x # 0
        BY PoolBounds
      <4>1. CASE v = w
        BY <2>2, <3>1, <4>1, <1>0, <1>9, <2>0, <1>8, <4>0 DEF Owners
      <4>2. CASE v # w
        BY <2>2, <3>1, <4>2, <1>0, <1>9, <2>0, <1>8, <4>0 DEF Owners
      <4>. QED
        BY <4>1, <4>2
    <3>. QED
      BY <3>1
  <2>. QED
    BY <2>5, <2>6, <2>7 DEF Owners
<1>. QED
  BY <1>1, <1>5, <1>6, <1>7, <1>8, <1>9 DEF PoolInv

\* LinkedList::Get
LEMMA TakeFreeKeeps ==
  ASSUME PoolInv, NEW w \in Workers, TakeFree(w)
  PROVE  PoolInv'
<1>. DEFINE e == loc[w].ent
            r == [loc[w] EXCEPT !.buf = 0, !.next = 0]
<1>0. /\ Typed /\ Locals /\ LatchTypes /\ cache \in CacheType /\ StoreTypes
      /\ UNCHANGED <<map, P, bufs, listLatch, pageLatch, npages, disk, latest>>
      /\ pc[w] = "takeFree" /\ LocGood("takeFree", loc[w]) /\ e \in Entries /\ loc[w].buf \in Buffers
      /\ loc[w].next \in BufPtr
  BY LocFields DEF TakeFree, PoolInv, Typed, At, LocGood, WithEnt, Ptr, BufPtr
<1>1. LatchTypes'
  BY <1>0, LatchesTyped DEF TakeFree
<1>2. CASE Go(w, "loadFree") /\ UNCHANGED <<cache, freeHead, mapLatch, loc, hist>>
  <2>1. Moves(w)
    BY <1>0, <1>2, GoingOn DEF Go, LocGood, WithEnt, WithIt, Vacating, Labels
  <2>2. Effect(w)
    BY <1>0, <1>1, <1>2, <2>1, StoresStay, FaultSame DEF Effect, data
  <2>. QED
    BY <2>2, EffectKeeps
<1>3. CASE freeHead = loc[w].buf /\ freeHead' = loc[w].next
  <2>1. /\ hist' = [hist EXCEPT !.aba = (hist.aba \/ loc[w].next # bufs[freeHead].next)]
        /\ loc' = [loc EXCEPT ![w] = r]
    BY <1>3 DEF TakeFree
  <2>2. PICK l \in {"toT1", "toT1first"} : pc' = [pc EXCEPT ![w] = l] /\ l \in Labels
    BY <1>3 DEF TakeFree, Go, Labels
  <2>3. r \in LocType /\ LocGood(l, r)
    BY <1>0, LocFields, ZenonT(30) DEF LocType, LocGood, WithEnt, WithIt, Vacating, BufPtr
  <2>. HIDE DEF r
  <2>4. Locals'
    BY <1>0, <2>1, <2>2, <2>3, MovedLocals
  <2>5. /\ hist' \in HistType /\ hist.aba \in BOOLEAN
        /\ ~hist'.aba => ~hist.aba /\ loc[w].next = bufs[freeHead].next
    <3>. DEFINE x == hist.aba \/ loc[w].next # bufs[freeHead].next
    <3>1. x \in BOOLEAN
      BY Zenon
    <3>2. hist' = [hist EXCEPT !.aba = x] /\ hist \in HistType
      BY <1>0, <2>1 DEF StoreTypes
    <3>3. ~x => ~hist.aba /\ loc[w].next = bufs[freeHead].next
      BY Zenon
    <3>. HIDE DEF x
    <3>4. hist' \in HistType /\ hist'.aba = x /\ hist.aba \in BOOLEAN
      BY <3>1, <3>2 DEF HistType
    <3>. QED
      BY <3>3, <3>4
  <2>6. StoreTypes'
    BY <1>0, <1>3, <2>5 DEF StoreTypes
  <2>7. /\ cache' \in CacheType /\ cache'.ent[e].buf = loc[w].buf
        /\ \A x \in Entries \ {e} : cache'.ent[x] = cache.ent[x]
    <3>. DEFINE r1 == [cache.ent[e] EXCEPT !.buf = loc[w].buf, !.locked = TRUE]
                r2 == [cache.ent[e] EXCEPT !.buf = loc[w].buf]
    <3>1. cache' = [cache EXCEPT !.ent[e] = r1] \/ cache' = [cache EXCEPT !.ent[e] = r2]
      BY <1>3 DEF TakeFree
    <3>2. cache.ent \in [Entries -> EntryType] /\ cache.ent[e] \in EntryType
      BY <1>0, EntryFields DEF CacheType
    <3>3. r1 \in EntryType /\ r1.buf = loc[w].buf /\ r2 \in EntryType /\ r2.buf = loc[w].buf
      BY <1>0, <3>2 DEF EntryType, BufPtr
    <3>. HIDE DEF r1, r2
    <3>4. PICK q \in EntryType : q.buf = loc[w].buf /\ cache' = [cache EXCEPT !.ent[e] = q]
      BY <3>1, <3>3
    <3>5. [cache.ent EXCEPT ![e] = q] \in [Entries -> EntryType] /\ [cache.ent EXCEPT ![e] = q][e] = q
          /\ \A x \in Entries \ {e} : [cache.ent EXCEPT ![e] = q][x] = cache.ent[x]
      BY <1>0, <3>2
    <3>6. cache'.ent = [cache.ent EXCEPT ![e] = q] /\ cache' \in CacheType
      BY <1>0, <3>4, <3>5 DEF CacheType
    <3>. QED
      BY <3>4, <3>5, <3>6
  <2>8. ASSUME Owners, loc[w].next = bufs[freeHead].next
        PROVE  Owners'
    <3>0. PICK b \in Buffers : b = loc[w].buf
      BY <1>0
    <3>1. PICK s, k : Stack(s, k)
      BY <2>8 DEF Owners
    <3>2. /\ k \in Nat /\ s \in [1..k -> Buffers] /\ \A i, j \in 1..k : s[i] = s[j] => i = j
          /\ k # 0 /\ s[1] = b
      BY <1>0, <1>3, <3>0, <3>1, PoolBounds DEF Stack
    <3>3. freeHead' = IF k = 1 THEN 0 ELSE s[2]
      BY <3>1, <3>2, <1>3, <2>8, <3>0 DEF Stack
    <3>4. \A v \in Workers : \A x : Carries(v, x)' <=> Carries(v, x)
      BY <1>0, <2>1, <2>2, <2>3 DEF Carries, Locals
    <3>5. (\A x \in Entries : cache.ent[x].buf # b) /\ \A v \in Workers : ~Carries(v, b)
      BY <3>1, <3>2 DEF Stack
    <3>. DEFINE s2 == [i \in 1..(k - 1) |-> s[i + 1]]
    <3>6. k - 1 \in Nat /\ s2 \in [1..(k - 1) -> Buffers] /\ \A i, j \in 1..(k - 1) : s2[i] = s2[j] => i = j
      BY <3>2
    <3>7. freeHead' = IF k - 1 = 0 THEN 0 ELSE s2[1]
      BY <3>2, <3>3
    <3>8. ASSUME NEW i \in 1..(k - 1)
          PROVE  /\ bufs'[s2[i]].next = IF i = k - 1 THEN 0 ELSE s2[i + 1]
                 /\ \A x \in Entries : cache'.ent[x].buf # s2[i]
                 /\ \A v \in Workers : ~Carries(v, s2[i])'
      BY <3>2, <1>0, <3>1, <2>7, <3>0, <3>4 DEF Stack
    <3>. HIDE DEF s2
    <3>9. Stack(s2, k - 1)'
      BY <3>6, <3>7, <3>8 DEF Stack
    <3>10. \A d, x \in Entries : d # x /\ cache'.ent[d].buf # 0 => cache'.ent[d].buf # cache'.ent[x].buf
      BY <1>0, <2>7, <2>8, <3>0, <3>5 DEF Owners
    <3>11. \A x \in Buffers, v \in Workers : Carries(v, x)' =>
             /\ \A y \in Entries : cache'.ent[y].buf # x
             /\ \A z \in Workers : Carries(z, x)' => z = v
      BY <2>7, <2>8, <3>0, <3>4, <3>5 DEF Owners
    <3>. QED
      BY <3>9, <3>10, <3>11 DEF Owners
  <2>. QED
    BY <1>1, <2>4, <2>5, <2>6, <2>7, <2>8 DEF PoolInv
<1>. QED
  BY <1>2, <1>3 DEF TakeFree

-----------------------------------------------------------------------------
(* The theorems                                                             *)

LEMMA InitPool ==
  ASSUME Init
  PROVE  PoolInv
<1>0. /\ npages \in Nat \ {0} /\ npages <= MaxPool /\ MaxPool \in Nat /\ Width \in Nat
      /\ 2 * MaxPool < Width /\ MaxPages \in Nat
  BY PoolBounds DEF Init
<1>1. StoreTypes
  <2>1. PICK s \in Starts : disk = [p \in 1..s.file |-> 0]
    BY DEF Init
  <2>2. s.file \in Nat /\ s.file <= MaxPages
    BY <1>0, PoolAssumption
  <2>3. disk \in Seq(Nat) /\ Len(disk) <= MaxPages
    <3>1. PICK n \in Nat : n = s.file
      BY <2>2
    <3>2. disk = [p \in 1..n |-> 0] /\ n <= MaxPages
      BY <2>1, <2>2, <3>1
    <3>3. [p \in 1..n |-> 0] \in Seq(Nat) /\ Len([p \in 1..n |-> 0]) = n
      OBVIOUS
    <3>. QED
      BY <3>2, <3>3, Zenon
  <2>4. bufs \in [Buffers -> [version : Nat, next : BufPtr]]
    <3>1. bufs = [b \in Buffers |-> [version |-> 0, next |-> b - 1]]
      BY DEF Init
    <3>2. \A b \in Buffers : b - 1 \in BufPtr
      BY <1>0 DEF Buffers, BufPtr
    <3>. QED
      BY <3>1, <3>2
  <2>5. hist \in HistType
    BY DEF Init, NoHistory, HistType
  <2>6. npages \in PoolSizes /\ P \in 0..(Width - 1) /\ freeHead \in BufPtr
    <3>1. npages \in PoolSizes /\ P = 0 /\ freeHead = npages
      BY DEF Init
    <3>2. npages \in BufPtr /\ 0 \in 0..(Width - 1)
      BY <1>0 DEF BufPtr, Buffers
    <3>. QED
      BY <3>1, <3>2
  <2>7. map \in [Pages -> Ptr] /\ latest \in [Pages -> Nat]
    BY DEF Init, Ptr
  <2>. QED
    BY <2>3, <2>4, <2>5, <2>6, <2>7 DEF StoreTypes
<1>2. LatchTypes
  BY DEF Init, LatchTypes
<1>3. cache \in CacheType /\ \A e \in Entries : cache.ent[e].buf = 0
  <2>. DEFINE f == [e \in Entries |->
                      [NewEntry EXCEPT !.prev = IF e < 2 * npages THEN e + 1 ELSE 0,
                                       !.next = IF e <= 2 * npages THEN e - 1 ELSE 0]]
              g == [l \in Lists |-> IF l = "Free"
                      THEN [head |-> 2 * npages, tail |-> 1, size |-> 2 * npages]
                      ELSE [head |-> 0, tail |-> 0, size |-> 0]]
  <2>1. cache = [ent |-> f, list |-> g, fault |-> FALSE]
    BY DEF Init
  <2>2. ASSUME NEW e \in Entries
        PROVE  f[e] \in EntryType /\ f[e].buf = 0
    <3>. DEFINE p == IF e < 2 * npages THEN e + 1 ELSE 0
                n == IF e <= 2 * npages THEN e - 1 ELSE 0
    <3>1. p \in Ptr /\ n \in Ptr
      BY <1>0 DEF Ptr, Entries
    <3>2. f[e] = [NewEntry EXCEPT !.prev = p, !.next = n]
      OBVIOUS
    <3>. HIDE DEF p, n, f
    <3>3. NewEntry \in EntryType /\ NewEntry.buf = 0
      BY DEF NewEntry, EntryType, BufPtr, Ptr
    <3>. QED
      BY <3>1, <3>2, <3>3 DEF EntryType
  <2>3. f \in [Entries -> EntryType]
    BY <2>2
  <2>4. g \in [Lists -> ListType]
    BY <1>0 DEF ListType, Ptr, Entries
  <2>. HIDE DEF f, g
  <2>. QED
    BY <2>1, <2>2, <2>3, <2>4 DEF CacheType
<1>4. Locals
  BY NoOpType DEF Init, Locals, Labels, LocGood, NoOp, WithEnt, WithIt, Vacating
<1>5. Owners
  <2>. DEFINE s == [i \in 1..npages |-> npages + 1 - i]
  <2>0. bufs = [b \in Buffers |-> [version |-> 0, next |-> b - 1]] /\ freeHead = npages
        /\ \A v \in Workers : \A b : ~Carries(v, b)
    BY DEF Init, Carries
  <2>1. s \in [1..npages -> Buffers] /\ \A i, j \in 1..npages : s[i] = s[j] => i = j
    BY <1>0 DEF Buffers
  <2>2. \A i \in 1..npages : bufs[s[i]].next = IF i = npages THEN 0 ELSE s[i + 1]
    <3>1. ASSUME NEW i \in 1..npages
          PROVE  bufs[s[i]].next = IF i = npages THEN 0 ELSE s[i + 1]
      BY <2>0, <2>1, <1>0
    <3>. QED
      BY <3>1
  <2>3. freeHead = IF npages = 0 THEN 0 ELSE s[1]
    BY <1>0, <2>0
  <2>4. \A i \in 1..npages : s[i] # 0
    BY <2>1, PoolBounds
  <2>. HIDE DEF s
  <2>5. Stack(s, npages)
    BY <1>0, <1>3, <2>0, <2>1, <2>2, <2>3, <2>4 DEF Stack
  <2>. QED
    BY <1>3, <2>0, <2>5 DEF Owners
<1>. QED
  BY <1>1, <1>2, <1>3, <1>4, <1>5 DEF PoolInv

LEMMA NextPool ==
  ASSUME PoolInv, [Next]_vars
  PROVE  PoolInv'
<1>1. CASE UNCHANGED vars
  <2>1. Typed'
    BY <1>1 DEF PoolInv, Typed, StoreTypes, LatchTypes, Locals, vars, data, latches
  <2>2. Owners => Owners'
    BY <1>1 DEF Owners, Stack, Carries, vars
  <2>. QED
    BY <1>1, <2>1, <2>2 DEF PoolInv, Typed, vars, data
<1>2. ASSUME NEW w \in Workers,
             \/ StartGet(w) \/ StartExtend(w) \/ Lookup(w)
             \/ LatchGhosts(w) \/ RecencySizes(w) \/ FrequencySizes(w)
             \/ ForgetStart(w) \/ ForgetScan(w) \/ ForgetFree(w)
             \/ Adjust(w) \/ VacateStart(w) \/ VacateScan(w) \/ Flush(w) \/ FlushWrite(w) \/ FlushEnd(w)
             \/ VacateCheck(w) \/ VacateLock(w)
      PROVE  PoolInv'
  <2>1. Typed
    BY DEF PoolInv, Typed
  <2>2. Effect(w)
    BY <1>2, <2>1, StartEffect, LookupEffect, LatchGhostsEffect, RecencySizesEffect, FrequencySizesEffect,
       WalkEffect, ForgetScanEffect, ForgetFreeEffect, AdjustEffect, VacateScanEffect, FlushEffect,
       FlushWriteEffect, FlushEndEffect, VacateCheckEffect, VacateLockEffect
  <2>. QED
    BY <2>2, EffectKeeps
<1>3. ASSUME NEW w \in Workers,
             \/ EvictStart(w) \/ PopTail(w) \/ EvictGhostStart(w) \/ EvictScan(w) \/ ClearEntry(w)
             \/ PrepareEntry(w) \/ CountPages(w) \/ InsertEntry(w) \/ LoadFree(w)
             \/ GiveBack(w) \/ FirstToT1(w) \/ ToT1(w)
      PROVE  PoolInv'
  <2>1. Typed
    BY DEF PoolInv, Typed
  <2>2. Effect(w)
    BY <1>3, <2>1, WalkEffect, PopTailEffect, EvictScanEffect, ClearEntryEffect, PrepareEntryEffect,
       CountPagesEffect, InsertEntryEffect, LoadFreeEffect, GiveBackEffect, ToT1Effect
  <2>. QED
    BY <2>2, EffectKeeps
<1>4. ASSUME NEW w \in Workers,
             \/ Hit(w) \/ ExtendHit(w) \/ CacheHit(w) \/ GhostSizes(w) \/ GhostMove(w)
             \/ StartRead(w) \/ ReadPage(w) \/ ReadEnd(w) \/ ExtendIO(w) \/ Invalidate(w) \/ ExtendStart(w)
             \/ WritePage(w) \/ ReturnBuffer(w)
      PROVE  PoolInv'
  <2>1. Typed
    BY DEF PoolInv, Typed
  <2>2. Effect(w)
    BY <1>4, <2>1, HitEffect, CacheHitEffect, GhostSizesEffect, GhostMoveEffect, StartReadEffect,
       ReadPageEffect, ReadEndEffect, ExtendEffect, WritePageEffect, ReturnBufferEffect
  <2>. QED
    BY <2>2, EffectKeeps
<1>5. ASSUME NEW w \in Workers, Ghostify(w) \/ AddFree(w) \/ TakeFree(w)
      PROVE  PoolInv'
  BY <1>5, GhostifyKeeps, AddFreeKeeps, TakeFreeKeeps
<1>. QED
  BY <1>1, <1>2, <1>3, <1>4, <1>5, Zenon DEF Next

\* The inductive invariant: the types of the stores, the latches, the cache and the
\* locals, with an entry or a page where a call needs one; and, until Get (LinkedList.hpp)
\* exchanges the head for a stale successor, the stack of free buffers and its owners.
THEOREM PoolInvariant == Spec => []PoolInv
<1>1. Init => PoolInv
  BY InitPool
<1>2. PoolInv /\ [Next]_vars => PoolInv'
  BY NextPool
<1>. QED
  BY <1>1, <1>2, PTL DEF Spec

\* Pointers stay within the pool and the sizes and P unsigned (CacheEntryList,
\* BufferManager), for any pool and any number of workers.
THEOREM PoolTypes == Spec => []TypeOK
<1>1. PoolInv => TypeOK
  BY DEF PoolInv, StoreTypes, LatchTypes, CacheType, EntryType, ListType, Ptr, BufPtr, TypeOK
<1>. QED
  BY <1>1, PoolInvariant, PTL

\* The lock-free stack of free buffers (LinkedList.hpp:20) hands no buffer out
\* twice, until Get exchanges the head for a successor that it does not have any
\* more: also when entries are cleared while they are pinned.
THEOREM BufferOneOwner == Spec => []OneOwner
<1>1. PoolInv => OneOwner
  BY DEF PoolInv, Owners, OneOwner
<1>. QED
  BY <1>1, PoolInvariant, PTL

-----------------------------------------------------------------------------
(* Who uses an entry                                                        *)

\* Where a call has taken an entry out of the lists and not yet put it into the
\* page table; where tryVacateEntry has pinned an entry; where the entry is in the
\* page table under the latch of its partition.
Takers == {"tearDown", "setup", "insert"}
Flushing == {"flush", "flushIO", "flushEnd", "flushFailed", "vacCheck", "vacLock", "ghostify"}
Inserting == {"loadFree", "takeFree", "toT1first"}

\* Where a call reads or writes the page, and where the entry was not locked by
\* another worker when the call got there.
Reading == {"readIO", "readEnd", "readFailed"}
Writing == {"flushIO", "flushEnd", "flushFailed"}
Using == {"hitT1", "hitT2", "data", "toT1", "extendIO", "extendStart", "hold"} \cup Reading

\* Where an extension that is alone with its page has not yet written it.
Creating == Inserting \cup {"toT1", "extendIO", "readIO"}

\* Where a call has no entry.
Empty == {"idle", "lookup", "again", "pre1", "pre2", "pre3", "pre4", "forget", "forgetScan", "forgetFree",
          "evict", "popScan", "evictGhost", "evictScan"}

IsPin(w, e) == loc[w].ent = e /\ pc[w] \notin Takers
IsVac(w, e) == loc[w].it = e /\ pc[w] \in Flushing
IsTaker(w, e) == loc[w].ent = e /\ pc[w] \in Takers
Does(w, e) == \/ loc[w].ent = e /\ pc[w] \in Reading
              \/ loc[w].it = e /\ pc[w] \in Writing
Creates(w, e) == loc[w].ent = e /\ loc[w].op = "extend" /\ loc[w].page \notin hist.raced /\ pc[w] \in Creating
EntPins(e) == {w \in Workers : IsPin(w, e)}
VacPins(e) == {w \in Workers : IsVac(w, e)}

\* Nothing is in the entry's buffer, and nobody puts something there.
Clean(e) == /\ ~cache.ent[e].valid /\ ~cache.ent[e].dirty /\ ~cache.ent[e].io
            /\ \A w \in Workers : ~Does(w, e)

\* What a call has at its label: the operation, the page, no entry, the latch of the
\* page's partition, a page that another extension has been faster with.
Role(w) ==
  /\ loc[w].op = "none" => pc[w] = "idle"
  /\ pc[w] \in {"lookup", "again", "hit", "hitT1", "hitT2", "data"} => loc[w].op = "get"
  /\ pc[w] \in {"toT1first", "extendIO", "extendHit", "extendAgain", "extendStart"} => loc[w].op = "extend"
  /\ loc[w].op = "get" => loc[w].page <= Len(disk)
  /\ loc[w].page <= Len(disk) + 1
  /\ pc[w] \in Empty \/ (pc[w] \in Vacating \ {"ghostMove"} /\ loc[w].ret = "evict") => loc[w].ent = 0
  /\ pc[w] \in Inserting => mapLatch[loc[w].page] = w /\ map[loc[w].page] = loc[w].ent
  /\ loc[w].op = "extend" /\ loc[w].ent # 0 /\ pc[w] \notin Takers \cup Creating \cup Reading \cup {"hold"}
       => loc[w].page \in hist.raced

\* The pins of an entry are counted.
PinOK(e) == /\ IsFiniteSet(EntPins(e)) /\ IsFiniteSet(VacPins(e))
            /\ Cardinality(EntPins(e)) + Cardinality(VacPins(e)) <= cache.ent[e].refs

\* An entry is taken by one worker, is in no list of the page table then, and is empty
\* once it has been cleared.
TakenOK(e) == \A w \in Workers : IsTaker(w, e) =>
  /\ \A v \in Workers : IsTaker(v, e) => v = w
  /\ \A p \in Pages : map[p] # e
  /\ pc[w] # "tearDown" => Clean(e)

\* The page table has the entry for its page only, and has it for the page of every pin.
MapOK(e) == /\ \A p \in Pages : map[p] = e => cache.ent[e].tag = p
            /\ \A w \in Workers : IsPin(w, e) => loc[w].page \in Pages /\ map[loc[w].page] = e

\* Until the latch of the partition is let go the new entry is its worker's alone.
InsertOK(e) == \A w \in Workers : loc[w].ent = e /\ pc[w] \in Inserting =>
  Clean(e) /\ \A v \in Workers : IsPin(v, e) => v = w

\* So is the entry of an extension, until the page has been written.
CreateOK(e) == \A w \in Workers : Creates(w, e) =>
  /\ loc[w].page = Len(disk) + 1 /\ ~cache.ent[e].valid
  /\ \A v \in Workers : IsPin(v, e) => v = w
  /\ pc[w] # "readIO" => Clean(e)

\* The I/O flag is a lock.
IoOK(e) == cache.ent[e].tag \notin hist.raced =>
  /\ \A v, w \in Workers : Does(v, e) /\ Does(w, e) => v = w
  /\ cache.ent[e].io <=> \E w \in Workers : Does(w, e)

\* While an entry is made a ghost it is locked, nobody else vacates it, and the
\* workers that have pinned it wait.
LockOK(e) == \A w \in Workers : loc[w].it = e /\ pc[w] = "ghostify" =>
  /\ cache.ent[e].locked
  /\ \A v \in Workers : IsVac(v, e) => v = w
  /\ \A v \in Workers : IsPin(v, e) => pc[v] \notin Using

EntryOK(e) == PinOK(e) /\ TakenOK(e) /\ MapOK(e) /\ InsertOK(e) /\ CreateOK(e) /\ IoOK(e) /\ LockOK(e)
UseInv == (\A w \in Workers : Role(w)) /\ \A e \in Entries \ hist.torn : EntryOK(e)

-----------------------------------------------------------------------------
(* Steps that leave an entry alone                                          *)

Others(w) == \A v \in Workers \ {w} : pc'[v] = pc[v] /\ loc'[v] = loc[v]

\* The step gives the worker nothing of the entry that it did not have.
NoMore(w, e) ==
  /\ IsPin(w, e)' => IsPin(w, e) /\ loc'[w].page = loc[w].page
  /\ IsVac(w, e)' => IsVac(w, e)
  /\ IsTaker(w, e)' => IsTaker(w, e) /\ (pc'[w] # "tearDown" => pc[w] # "tearDown")
  /\ Does(w, e)' <=> Does(w, e)
  /\ loc'[w].ent = e /\ pc'[w] \in Inserting => loc[w].ent = e /\ pc[w] \in Inserting
  /\ Creates(w, e)' => Creates(w, e) /\ (pc'[w] # "readIO" => pc[w] # "readIO")

\* The step leaves the entry its page and what is in its buffer; it may take the page
\* from it, or take it out of the page table when nobody has pinned it.
Alone(e) ==
  /\ cache'.ent[e].tag = cache.ent[e].tag
  /\ cache'.ent[e].io = cache.ent[e].io /\ cache'.ent[e].dirty = cache.ent[e].dirty
  /\ cache'.ent[e].valid => cache.ent[e].valid
  /\ \A p \in Pages : map'[p] = e => map[p] = e
  /\ (\A p \in Pages : map[p] = e => map'[p] = e) \/ \A v \in Workers : ~IsPin(v, e)'
  /\ hist.raced \subseteq hist'.raced
  /\ Len(disk') = Len(disk) \/ \A v \in Workers : ~Creates(v, e)'

\* The step respects the count and the lock of the entry.
Respects(w, e) ==
  /\ cache'.ent[e].refs = cache.ent[e].refs
  /\ cache.ent[e].locked => cache'.ent[e].locked
  /\ ~(loc'[w].it = e /\ pc'[w] = "ghostify")
  /\ loc'[w].ent = e /\ pc'[w] \in Using => (loc[w].ent = e /\ pc[w] \in Using) \/ ~cache.ent[e].locked

\* Fewer pins are counted as before.
LEMMA FewerPins ==
  ASSUME NEW S, NEW T, NEW S1 \in SUBSET S, NEW T1 \in SUBSET T, NEW n,
         IsFiniteSet(S), IsFiniteSet(T), n \in Nat, Cardinality(S) + Cardinality(T) <= n
  PROVE  /\ IsFiniteSet(S1) /\ IsFiniteSet(T1) /\ Cardinality(S1) + Cardinality(T1) <= n
  BY FS_Subset, FS_CardinalityType

\* The relations of the other workers to an entry.
LEMMA OthersSame ==
  ASSUME NEW w \in Workers, NEW e \in Entries, Others(w), hist.raced \subseteq hist'.raced
  PROVE  \A v \in Workers \ {w} :
           /\ IsPin(v, e)' <=> IsPin(v, e)
           /\ IsVac(v, e)' <=> IsVac(v, e)
           /\ IsTaker(v, e)' <=> IsTaker(v, e)
           /\ Does(v, e)' <=> Does(v, e)
           /\ Creates(v, e)' => Creates(v, e)
BY Zenon DEF Others, IsPin, IsVac, IsTaker, Does, Creates

\* A step that leaves the entry its page, but for its count and its lock.
LEMMA AloneMost ==
  ASSUME NEW w \in Workers, NEW e \in Entries, EntryOK(e), Others(w), NoMore(w, e), Alone(e)
  PROVE  TakenOK(e)' /\ MapOK(e)' /\ InsertOK(e)' /\ CreateOK(e)' /\ IoOK(e)'
<1>0. \A v \in Workers :
        /\ IsPin(v, e)' => IsPin(v, e) /\ loc'[v].page = loc[v].page
        /\ IsVac(v, e)' => IsVac(v, e)
        /\ IsTaker(v, e)' => IsTaker(v, e) /\ (pc'[v] # "tearDown" => pc[v] # "tearDown")
        /\ Does(v, e)' <=> Does(v, e)
        /\ loc'[v].ent = e /\ pc'[v] \in Inserting => loc[v].ent = e /\ pc[v] \in Inserting
        /\ Creates(v, e)' => Creates(v, e) /\ (pc'[v] # "readIO" => pc[v] # "readIO")
  <2>. SUFFICES ASSUME NEW v \in Workers
                PROVE  /\ IsPin(v, e)' => IsPin(v, e) /\ loc'[v].page = loc[v].page
                       /\ IsVac(v, e)' => IsVac(v, e)
                       /\ IsTaker(v, e)' => IsTaker(v, e) /\ (pc'[v] # "tearDown" => pc[v] # "tearDown")
                       /\ Does(v, e)' <=> Does(v, e)
                       /\ loc'[v].ent = e /\ pc'[v] \in Inserting => loc[v].ent = e /\ pc[v] \in Inserting
                       /\ Creates(v, e)' => Creates(v, e) /\ (pc'[v] # "readIO" => pc[v] # "readIO")
    OBVIOUS
  <2>1. CASE v = w
    BY <2>1, Zenon DEF NoMore
  <2>2. CASE v # w
    BY <2>2, OthersSame DEF Others, Alone
  <2>. QED
    BY <2>1, <2>2
<1>2. Clean(e) => Clean(e)'
  BY <1>0, Zenon DEF Clean, Alone
<1>3. TakenOK(e)'
  BY <1>0, <1>2, Zenon DEF TakenOK, EntryOK, Alone
<1>4. MapOK(e)'
  BY <1>0 DEF MapOK, EntryOK, Alone
<1>5. InsertOK(e)'
  BY <1>0, <1>2, Zenon DEF InsertOK, EntryOK
<1>6. CreateOK(e)'
  <2>. SUFFICES ASSUME NEW v \in Workers, Creates(v, e)'
                PROVE  /\ loc'[v].page = Len(disk') + 1 /\ ~cache'.ent[e].valid
                       /\ \A u \in Workers : IsPin(u, e)' => u = v
                       /\ pc'[v] # "readIO" => Clean(e)'
    BY DEF CreateOK
  <2>1. Creates(v, e) /\ Len(disk') = Len(disk) /\ (pc'[v] # "readIO" => pc[v] # "readIO")
    BY <1>0, Zenon DEF Alone
  <2>2. IsPin(v, e)'
    BY DEF Creates, IsPin, Creating, Inserting, Takers
  <2>3. loc'[v].page = loc[v].page
    BY <1>0, <2>2
  <2>4. /\ loc[v].page = Len(disk) + 1 /\ ~cache.ent[e].valid
        /\ \A u \in Workers : IsPin(u, e) => u = v
        /\ pc[v] # "readIO" => Clean(e)
    BY <2>1, Zenon DEF CreateOK, EntryOK
  <2>. QED
    BY <1>0, <1>2, <2>1, <2>3, <2>4, Zenon DEF Alone
<1>7. IoOK(e)'
  BY <1>0 DEF Alone, IoOK, EntryOK
<1>. QED
  BY <1>3, <1>4, <1>5, <1>6, <1>7

-----------------------------------------------------------------------------
(* Steps on an entry                                                        *)

\* Nobody has pinned an entry whose count is 0.
LEMMA NoPins ==
  ASSUME NEW e \in Entries, PinOK(e), cache.ent[e].refs = 0
  PROVE  \A v \in Workers : ~IsPin(v, e) /\ ~IsVac(v, e) /\ ~Does(v, e)
  BY FS_CardinalityType, FS_EmptySet DEF PinOK, EntPins, VacPins, IsPin, IsVac, Does, Reading, Writing,
     Takers, Flushing

\* The only pin is the one of the worker that vacates.
LEMMA OnePin ==
  ASSUME NEW e \in Entries, PinOK(e), cache.ent[e].refs = 1, NEW w \in Workers, IsVac(w, e)
  PROVE  \A v \in Workers : ~IsPin(v, e) /\ (IsVac(v, e) => v = w)
<1>1. /\ IsFiniteSet(EntPins(e)) /\ IsFiniteSet(VacPins(e))
      /\ Cardinality(EntPins(e)) + Cardinality(VacPins(e)) <= 1
  BY DEF PinOK
<1>2. w \in VacPins(e)
  BY DEF VacPins
<1>3. /\ IsFiniteSet(VacPins(e) \ {w}) /\ Cardinality(VacPins(e) \ {w}) = Cardinality(VacPins(e)) - 1
  BY <1>1, <1>2, FS_RemoveElement
<1>4. /\ Cardinality(EntPins(e)) \in Nat /\ Cardinality(VacPins(e)) \in Nat
      /\ Cardinality(VacPins(e) \ {w}) \in Nat
  BY <1>1, <1>3, FS_CardinalityType
<1>5. Cardinality(EntPins(e)) = 0 /\ Cardinality(VacPins(e) \ {w}) = 0
  BY <1>1, <1>3, <1>4
<1>6. EntPins(e) = {} /\ VacPins(e) \ {w} = {}
  BY <1>1, <1>3, <1>5, FS_EmptySet
<1>. QED
  BY <1>6 DEF EntPins, VacPins

\* A pin is counted.
LEMMA PinPositive ==
  ASSUME NEW e \in Entries, PinOK(e), cache \in CacheType, NEW w \in Workers, IsPin(w, e) \/ IsVac(w, e)
  PROVE  cache.ent[e].refs \in Nat /\ cache.ent[e].refs > 0
  BY EntryFields, NoPins

\* One more pin, and one less.
LEMMA MorePins ==
  ASSUME NEW S, NEW T, NEW x, NEW n \in Nat, IsFiniteSet(S), IsFiniteSet(T),
         Cardinality(S) + Cardinality(T) <= n
  PROVE  /\ IsFiniteSet(S \cup {x}) /\ IsFiniteSet(T \cup {x})
         /\ Cardinality(S \cup {x}) + Cardinality(T) <= n + 1
         /\ Cardinality(S) + Cardinality(T \cup {x}) <= n + 1
<1>1. /\ IsFiniteSet(S \cup {x}) /\ IsFiniteSet(T \cup {x})
      /\ Cardinality(S \cup {x}) = IF x \in S THEN Cardinality(S) ELSE Cardinality(S) + 1
      /\ Cardinality(T \cup {x}) = IF x \in T THEN Cardinality(T) ELSE Cardinality(T) + 1
  BY FS_AddElement
<1>2. Cardinality(S) \in Nat /\ Cardinality(T) \in Nat
  BY FS_CardinalityType
<1>. QED
  BY <1>1, <1>2

LEMMA LessPins ==
  ASSUME NEW S, NEW T, NEW x, NEW n \in Nat, IsFiniteSet(S), IsFiniteSet(T),
         Cardinality(S) + Cardinality(T) <= n
  PROVE  /\ IsFiniteSet(S \ {x}) /\ IsFiniteSet(T \ {x})
         /\ x \in S => n - 1 \in Nat /\ Cardinality(S \ {x}) + Cardinality(T) <= n - 1
         /\ x \in T => n - 1 \in Nat /\ Cardinality(S) + Cardinality(T \ {x}) <= n - 1
<1>1. /\ IsFiniteSet(S \ {x}) /\ IsFiniteSet(T \ {x})
      /\ Cardinality(S \ {x}) = IF x \in S THEN Cardinality(S) - 1 ELSE Cardinality(S)
      /\ Cardinality(T \ {x}) = IF x \in T THEN Cardinality(T) - 1 ELSE Cardinality(T)
  BY FS_RemoveElement
<1>2. /\ Cardinality(S) \in Nat /\ Cardinality(T) \in Nat
      /\ Cardinality(S \ {x}) \in Nat /\ Cardinality(T \ {x}) \in Nat
  BY <1>1, FS_CardinalityType
<1>. QED
  BY <1>1, <1>2

\* The counts after a step that changes the relation of one worker to the entry.
LEMMA PinsStay ==
  ASSUME NEW w \in Workers, NEW e \in Entries, PinOK(e), cache \in CacheType, Others(w),
         cache'.ent[e].refs = cache.ent[e].refs, IsPin(w, e)' => IsPin(w, e), IsVac(w, e)' => IsVac(w, e)
  PROVE  PinOK(e)'
<1>1. PICK S1 : S1 = EntPins(e)'
  OBVIOUS
<1>2. PICK T1 : T1 = VacPins(e)'
  OBVIOUS
<1>3. S1 \in SUBSET EntPins(e) /\ T1 \in SUBSET VacPins(e)
  BY <1>1, <1>2, Zenon DEF EntPins, VacPins, IsPin, IsVac, Others
<1>4. cache.ent[e].refs \in Nat
  BY EntryFields
<1>5. /\ IsFiniteSet(EntPins(e)) /\ IsFiniteSet(VacPins(e))
      /\ Cardinality(EntPins(e)) + Cardinality(VacPins(e)) <= cache.ent[e].refs
  BY DEF PinOK
<1>6. IsFiniteSet(S1) /\ IsFiniteSet(T1) /\ Cardinality(S1) + Cardinality(T1) <= cache.ent[e].refs
  BY <1>3, <1>4, <1>5, FewerPins
<1>. QED
  BY <1>1, <1>2, <1>6 DEF PinOK

LEMMA PinsUp ==
  ASSUME NEW w \in Workers, NEW e \in Entries, PinOK(e), cache \in CacheType, Others(w),
         cache'.ent[e].refs = cache.ent[e].refs + 1,
         (IsPin(w, e)' => IsPin(w, e)) \/ (IsVac(w, e)' => IsVac(w, e))
  PROVE  PinOK(e)'
<1>1. PICK S1 : S1 = EntPins(e)'
  OBVIOUS
<1>2. PICK T1 : T1 = VacPins(e)'
  OBVIOUS
<1>3. \/ S1 \subseteq EntPins(e) \cup {w} /\ T1 \subseteq VacPins(e)
      \/ S1 \subseteq EntPins(e) /\ T1 \subseteq VacPins(e) \cup {w}
  BY <1>1, <1>2 DEF EntPins, VacPins, IsPin, IsVac, Others
<1>4. cache.ent[e].refs \in Nat
  BY EntryFields
<1>5. /\ IsFiniteSet(EntPins(e)) /\ IsFiniteSet(VacPins(e))
      /\ Cardinality(EntPins(e)) + Cardinality(VacPins(e)) <= cache.ent[e].refs
  BY DEF PinOK
<1>6. IsFiniteSet(S1) /\ IsFiniteSet(T1) /\ Cardinality(S1) + Cardinality(T1) <= cache.ent[e].refs + 1
  <2>1. /\ IsFiniteSet(EntPins(e) \cup {w}) /\ IsFiniteSet(VacPins(e) \cup {w})
        /\ Cardinality(EntPins(e) \cup {w}) + Cardinality(VacPins(e)) <= cache.ent[e].refs + 1
        /\ Cardinality(EntPins(e)) + Cardinality(VacPins(e) \cup {w}) <= cache.ent[e].refs + 1
    BY <1>4, <1>5, MorePins
  <2>2. cache.ent[e].refs + 1 \in Nat
    BY <1>4
  <2>3. CASE S1 \subseteq EntPins(e) \cup {w} /\ T1 \subseteq VacPins(e)
    BY <1>5, <2>1, <2>2, <2>3, FewerPins
  <2>4. CASE S1 \subseteq EntPins(e) /\ T1 \subseteq VacPins(e) \cup {w}
    BY <1>5, <2>1, <2>2, <2>4, FewerPins
  <2>. QED
    BY <1>3, <2>3, <2>4
<1>. QED
  BY <1>1, <1>2, <1>6 DEF PinOK

LEMMA PinsDown ==
  ASSUME NEW w \in Workers, NEW e \in Entries, PinOK(e), cache \in CacheType, Others(w),
         cache'.ent[e].refs = cache.ent[e].refs - 1, IsPin(w, e)' => IsPin(w, e), IsVac(w, e)' => IsVac(w, e),
         (IsPin(w, e) /\ ~IsPin(w, e)') \/ (IsVac(w, e) /\ ~IsVac(w, e)')
  PROVE  PinOK(e)'
<1>1. PICK S1 : S1 = EntPins(e)'
  OBVIOUS
<1>2. PICK T1 : T1 = VacPins(e)'
  OBVIOUS
<1>3. \/ w \in EntPins(e) /\ S1 \subseteq EntPins(e) \ {w} /\ T1 \subseteq VacPins(e)
      \/ w \in VacPins(e) /\ S1 \subseteq EntPins(e) /\ T1 \subseteq VacPins(e) \ {w}
  BY <1>1, <1>2 DEF EntPins, VacPins, IsPin, IsVac, Others
<1>4. cache.ent[e].refs \in Nat
  BY EntryFields
<1>5. /\ IsFiniteSet(EntPins(e)) /\ IsFiniteSet(VacPins(e))
      /\ Cardinality(EntPins(e)) + Cardinality(VacPins(e)) <= cache.ent[e].refs
  BY DEF PinOK
<1>6. IsFiniteSet(S1) /\ IsFiniteSet(T1) /\ Cardinality(S1) + Cardinality(T1) <= cache.ent[e].refs - 1
  <2>1. /\ IsFiniteSet(EntPins(e) \ {w}) /\ IsFiniteSet(VacPins(e) \ {w})
        /\ w \in EntPins(e) => /\ cache.ent[e].refs - 1 \in Nat
                               /\ Cardinality(EntPins(e) \ {w}) + Cardinality(VacPins(e)) <= cache.ent[e].refs - 1
        /\ w \in VacPins(e) => /\ cache.ent[e].refs - 1 \in Nat
                               /\ Cardinality(EntPins(e)) + Cardinality(VacPins(e) \ {w}) <= cache.ent[e].refs - 1
    BY <1>4, <1>5, LessPins
  <2>3. CASE w \in EntPins(e) /\ S1 \subseteq EntPins(e) \ {w} /\ T1 \subseteq VacPins(e)
    BY <1>5, <2>1, <2>3, FewerPins
  <2>4. CASE w \in VacPins(e) /\ S1 \subseteq EntPins(e) /\ T1 \subseteq VacPins(e) \ {w}
    BY <1>5, <2>1, <2>4, FewerPins
  <2>. QED
    BY <1>3, <2>3, <2>4
<1>. QED
  BY <1>1, <1>2, <1>6 DEF PinOK

\* The lock of an entry that another worker makes a ghost is respected.
LEMMA LockStays ==
  ASSUME NEW w \in Workers, NEW e \in Entries, LockOK(e), Others(w),
         cache.ent[e].locked => cache'.ent[e].locked, IsVac(w, e)' => IsVac(w, e),
         ~(loc'[w].it = e /\ pc'[w] = "ghostify"),
         IsPin(w, e)' /\ pc'[w] \in Using => IsPin(w, e) /\ pc[w] \in Using
  PROVE  LockOK(e)'
<1>. SUFFICES ASSUME NEW u \in Workers, loc'[u].it = e, pc'[u] = "ghostify"
              PROVE  /\ cache'.ent[e].locked
                     /\ \A v \in Workers : IsVac(v, e)' => v = u
                     /\ \A v \in Workers : IsPin(v, e)' => pc'[v] \notin Using
  BY Zenon DEF LockOK
<1>1. u # w /\ loc[u].it = e /\ pc[u] = "ghostify"
  BY Zenon DEF Others
<1>2. /\ cache.ent[e].locked
      /\ \A v \in Workers : IsVac(v, e) => v = u
      /\ \A v \in Workers : IsPin(v, e) => pc[v] \notin Using
  BY <1>1, Zenon DEF LockOK
<1>3. \A v \in Workers \ {w} : IsVac(v, e)' = IsVac(v, e) /\ IsPin(v, e)' = IsPin(v, e) /\ pc'[v] = pc[v]
  BY Zenon DEF Others, IsVac, IsPin
<1>. QED
  BY <1>2, <1>3, Zenon

\* A step that leaves the entry alone.
LEMMA AloneKeeps ==
  ASSUME NEW w \in Workers, NEW e \in Entries, EntryOK(e), cache \in CacheType,
         Others(w), NoMore(w, e), Alone(e), Respects(w, e)
  PROVE  EntryOK(e)'
<1>1. TakenOK(e)' /\ MapOK(e)' /\ InsertOK(e)' /\ CreateOK(e)' /\ IoOK(e)'
  BY AloneMost
<1>2. PinOK(e)'
  BY PinsStay DEF EntryOK, NoMore, Respects
<1>3. LockOK(e)'
  <2>. SUFFICES ASSUME NEW u \in Workers, loc'[u].it = e, pc'[u] = "ghostify"
                PROVE  /\ cache'.ent[e].locked
                       /\ \A v \in Workers : IsVac(v, e)' => v = u
                       /\ \A v \in Workers : IsPin(v, e)' => pc'[v] \notin Using
    BY Zenon DEF LockOK
  <2>1. cache.ent[e].locked
    BY Zenon DEF Others, Respects, LockOK, EntryOK
  <2>2. IsPin(w, e)' /\ pc'[w] \in Using => IsPin(w, e) /\ pc[w] \in Using
    BY <2>1, Zenon DEF IsPin, Respects, NoMore
  <2>3. LockOK(e)'
    BY <2>2, LockStays DEF EntryOK, NoMore, Respects
  <2>. QED
    BY <2>3, Zenon DEF LockOK
<1>. QED
  BY <1>1, <1>2, <1>3 DEF EntryOK

\* The page table, the file and what happened stay.
Unmoved == map' = map /\ disk' = disk /\ hist' = hist

\* A worker that has pinned an entry that is in the page table: the entry is not taken,
\* and nobody is inserting or creating it but that worker.
LEMMA PinnedAlone ==
  ASSUME NEW w \in Workers, NEW e \in Entries, EntryOK(e), IsPin(w, e)
  PROVE  /\ \A v \in Workers : ~IsTaker(v, e)
         /\ \A v \in Workers : loc[v].ent = e /\ pc[v] \in Inserting => v = w
         /\ \A v \in Workers : Creates(v, e) => v = w
BY Zenon DEF EntryOK, TakenOK, MapOK, InsertOK, CreateOK

\* Lookup and InsertEntry: an entry of the page table is pinned. Its partition is
\* not latched, and the page is in the file or raced for.
LEMMA PinKeeps ==
  ASSUME NEW w \in Workers, NEW e \in Entries, EntryOK(e), cache \in CacheType, Others(w),
         \A v \in Workers : Role(v),
         map' = map, disk' = disk, hist.raced \subseteq hist'.raced, disk \in Seq(Nat),
         cache'.ent[e] = [cache.ent[e] EXCEPT !.refs = @ + 1],
         NEW t \in Pages, map[t] = e, mapLatch[t] = NoWorker, t <= Len(disk) \/ t \in hist'.raced,
         loc'[w].ent = e, loc'[w].page = t, pc[w] \in {"lookup", "again", "insert"}, pc'[w] \in {"hit", "giveBack"}
  PROVE  EntryOK(e)'
<1>0. /\ cache'.ent[e].refs = cache.ent[e].refs + 1 /\ cache'.ent[e].tag = cache.ent[e].tag
      /\ cache'.ent[e].io = cache.ent[e].io /\ cache'.ent[e].dirty = cache.ent[e].dirty
      /\ cache'.ent[e].valid = cache.ent[e].valid /\ cache'.ent[e].locked = cache.ent[e].locked
  <2>1. cache.ent[e] \in EntryType
    BY EntryFields
  <2>. QED
    BY <2>1 DEF EntryType
<1>1. /\ ~IsVac(w, e)' /\ ~IsTaker(w, e)' /\ ~Does(w, e)' /\ ~Creates(w, e)' /\ pc'[w] \notin Using
      /\ pc'[w] \notin Inserting /\ pc'[w] # "ghostify"
  BY DEF IsVac, IsTaker, Does, Creates, Creating, Inserting, Takers, Flushing, Reading, Writing, Using
<1>2. \A v \in Workers \ {w} :
        /\ IsPin(v, e)' <=> IsPin(v, e)
        /\ IsVac(v, e)' <=> IsVac(v, e)
        /\ IsTaker(v, e)' <=> IsTaker(v, e)
        /\ Does(v, e)' <=> Does(v, e)
        /\ Creates(v, e)' => Creates(v, e)
        /\ pc'[v] = pc[v] /\ loc'[v] = loc[v]
  BY OthersSame DEF Others
<1>3. cache.ent[e].tag = t
  BY DEF EntryOK, MapOK
<1>4. \A v \in Workers : ~IsTaker(v, e)
  BY DEF EntryOK, TakenOK
<1>5. \A v \in Workers : ~(loc[v].ent = e /\ pc[v] \in Inserting)
  <2>. SUFFICES ASSUME NEW v \in Workers, loc[v].ent = e, pc[v] \in Inserting PROVE FALSE
    OBVIOUS
  <2>1. mapLatch[loc[v].page] = v
    BY DEF Role
  <2>2. loc[v].page \in Pages /\ map[loc[v].page] = e
    <3>1. IsPin(v, e)
      BY DEF IsPin, Inserting, Takers
    <3>. QED
      BY <3>1 DEF EntryOK, MapOK
  <2>3. loc[v].page = t
    BY <1>3, <2>2 DEF EntryOK, MapOK
  <2>. QED
    BY <2>1, <2>3, PoolAssumption
<1>6. \A v \in Workers \ {w} : ~Creates(v, e)'
  <2>. SUFFICES ASSUME NEW v \in Workers \ {w}, Creates(v, e)' PROVE FALSE
    OBVIOUS
  <2>1. Creates(v, e)
    BY <1>2
  <2>2. IsPin(v, e)
    BY <2>1 DEF Creates, IsPin, Creating, Inserting, Takers
  <2>3. loc[v].page \in Pages /\ map[loc[v].page] = e
    BY <2>2 DEF EntryOK, MapOK
  <2>4. loc[v].page = t
    BY <1>3, <2>3 DEF EntryOK, MapOK
  <2>5. t = Len(disk) + 1
    BY <2>1, <2>4 DEF EntryOK, CreateOK
  <2>6. t \notin hist'.raced
    BY <1>2, <2>4 DEF Creates
  <2>. QED
    BY <2>5, <2>6, LenProperties DEF Pages
<1>7. PinOK(e)'
  BY <1>0, <1>1, PinsUp DEF EntryOK
<1>8. TakenOK(e)'
  BY <1>1, <1>2, <1>4, Zenon DEF TakenOK
<1>9. MapOK(e)'
  BY <1>0, <1>2, Zenon DEF MapOK, EntryOK
<1>10. InsertOK(e)'
  BY <1>1, <1>2, <1>5, Zenon DEF InsertOK
<1>11. CreateOK(e)'
  BY <1>1, <1>6, Zenon DEF CreateOK
<1>12. IoOK(e)'
  <2>2. ~Does(w, e)
    BY DEF Does, Reading, Writing
  <2>. QED
    BY <1>0, <1>1, <1>2, <2>2, Zenon DEF IoOK, EntryOK
<1>13. LockOK(e)'
  BY <1>0, <1>1, <1>2, Zenon DEF LockOK, EntryOK
<1>. QED
  BY <1>7, <1>8, <1>9, <1>10, <1>11, <1>12, <1>13 DEF EntryOK

\* VacateScan: an entry that nobody has pinned is pinned to be vacated.
LEMMA VacPinKeeps ==
  ASSUME NEW w \in Workers, NEW e \in Entries, EntryOK(e), cache \in CacheType, Others(w), Unmoved,
         cache.ent[e].refs = 0, cache'.ent[e] = [cache.ent[e] EXCEPT !.refs = @ + 1],
         loc' = loc, pc[w] = "vacScan", pc'[w] = "flush"
  PROVE  EntryOK(e)'
<1>0. /\ cache'.ent[e].refs = cache.ent[e].refs + 1 /\ cache'.ent[e].tag = cache.ent[e].tag
      /\ cache'.ent[e].io = cache.ent[e].io /\ cache'.ent[e].dirty = cache.ent[e].dirty
      /\ cache'.ent[e].valid = cache.ent[e].valid /\ cache'.ent[e].locked = cache.ent[e].locked
  <2>1. cache.ent[e] \in EntryType
    BY EntryFields
  <2>. QED
    BY <2>1 DEF EntryType
<1>1. /\ IsPin(w, e)' <=> IsPin(w, e)
      /\ IsTaker(w, e)' <=> IsTaker(w, e)
      /\ ~Does(w, e)' /\ ~Does(w, e) /\ ~Creates(w, e)' /\ pc'[w] \notin Inserting /\ pc'[w] # "ghostify"
      /\ pc'[w] \notin Takers
  BY DEF IsPin, IsTaker, Does, Creates, Creating, Inserting, Takers, Reading, Writing
<1>2. \A v \in Workers \ {w} :
        /\ IsPin(v, e)' <=> IsPin(v, e)
        /\ IsVac(v, e)' <=> IsVac(v, e)
        /\ IsTaker(v, e)' <=> IsTaker(v, e)
        /\ Does(v, e)' <=> Does(v, e)
        /\ Creates(v, e)' => Creates(v, e)
        /\ pc'[v] = pc[v] /\ loc'[v] = loc[v]
  BY OthersSame DEF Others, Unmoved
<1>3. \A v \in Workers : ~IsPin(v, e) /\ ~IsVac(v, e) /\ ~Does(v, e)
  BY NoPins DEF EntryOK
<1>4. Clean(e) => Clean(e)'
  BY <1>0, <1>1, <1>2, <1>3, Zenon DEF Clean
<1>5. \A v \in Workers : ~IsPin(v, e)'
  BY <1>1, <1>2, <1>3, Zenon
<1>7. PinOK(e)'
  BY <1>0, <1>1, PinsUp DEF EntryOK
<1>8. TakenOK(e)'
  BY <1>1, <1>2, <1>4 DEF IsTaker, Unmoved, TakenOK, EntryOK
<1>9. MapOK(e)'
  BY <1>0, <1>5, Zenon DEF MapOK, EntryOK, Unmoved
<1>10. InsertOK(e)'
  BY <1>5 DEF InsertOK, IsPin, Inserting, Takers
<1>11. CreateOK(e)'
  BY <1>5 DEF CreateOK, Creates, IsPin, Creating, Inserting, Takers
<1>12. IoOK(e)'
  BY <1>0, <1>1, <1>2, <1>3, Zenon DEF IoOK, EntryOK, Unmoved
<1>13. LockOK(e)'
  BY <1>1, <1>2, <1>3 DEF IsVac, Flushing, LockOK
<1>. QED
  BY <1>7, <1>8, <1>9, <1>10, <1>11, <1>12, <1>13 DEF EntryOK

\* ShouldStartIO: the flag is set where it was not. A flush starts for a dirty page; an
\* extension sets the flag, or its page was raced for.
LEMMA StartIoKeeps ==
  ASSUME NEW w \in Workers, NEW e \in Entries, EntryOK(e), cache \in CacheType, Others(w), Unmoved, Role(w),
         NEW b \in BOOLEAN, cache'.ent[e] = [cache.ent[e] EXCEPT !.io = b], ~cache.ent[e].io,
         loc' = loc,
         \/ /\ loc[w].ent = e /\ pc'[w] = "readIO" /\ b = TRUE
            /\ pc[w] = "data" \/ (pc[w] = "extendStart" /\ loc[w].page \in hist.raced)
         \/ loc[w].ent = e /\ pc'[w] = "readIO" /\ pc[w] = "extendIO" /\ b = ~cache.ent[e].valid
         \/ loc[w].it = e /\ pc[w] = "flush" /\ pc'[w] = "flushIO" /\ b = TRUE /\ cache.ent[e].dirty
  PROVE  EntryOK(e)'
<1>0. /\ cache'.ent[e].refs = cache.ent[e].refs /\ cache'.ent[e].tag = cache.ent[e].tag
      /\ cache'.ent[e].io = b /\ cache'.ent[e].dirty = cache.ent[e].dirty
      /\ cache'.ent[e].valid = cache.ent[e].valid /\ cache'.ent[e].locked = cache.ent[e].locked
  <2>1. cache.ent[e] \in EntryType
    BY EntryFields
  <2>. QED
    BY <2>1 DEF EntryType
<1>1. /\ IsPin(w, e)' <=> IsPin(w, e)
      /\ IsVac(w, e)' <=> IsVac(w, e)
      /\ ~IsTaker(w, e)' /\ Does(w, e)' /\ ~Does(w, e) /\ pc'[w] \notin Inserting /\ pc'[w] # "ghostify"
      /\ loc'[w] = loc[w] /\ (loc[w].ent = e /\ pc'[w] \in Using => pc[w] \in Using)
  BY DEF IsPin, IsVac, IsTaker, Does, Inserting, Takers, Reading, Writing, Flushing, Using
<1>2. \A v \in Workers \ {w} :
        /\ IsPin(v, e)' <=> IsPin(v, e)
        /\ IsVac(v, e)' <=> IsVac(v, e)
        /\ IsTaker(v, e)' <=> IsTaker(v, e)
        /\ Does(v, e)' <=> Does(v, e)
        /\ Creates(v, e)' => Creates(v, e)
        /\ pc'[v] = pc[v] /\ loc'[v] = loc[v]
  BY OthersSame DEF Others, Unmoved
<1>3. IsPin(w, e) \/ cache.ent[e].dirty
  BY DEF IsPin, Takers
<1>5. \A v \in Workers : IsTaker(v, e) => pc[v] = "tearDown"
  BY PinnedAlone, <1>3 DEF EntryOK, TakenOK, Clean
<1>6. \A v \in Workers : ~(loc[v].ent = e /\ pc[v] \in Inserting)
  <2>1. CASE IsPin(w, e)
    BY <2>1, PinnedAlone DEF Inserting
  <2>2. CASE cache.ent[e].dirty
    BY <2>2, Zenon DEF EntryOK, InsertOK, Clean
  <2>. QED
    BY <1>3, <2>1, <2>2
<1>7. \A v \in Workers \ {w} : Creates(v, e) => pc[v] = "readIO" /\ ~IsPin(w, e)
  BY PinnedAlone, <1>3 DEF EntryOK, CreateOK, Clean
<1>8. PinOK(e)'
  BY <1>0, <1>1, PinsStay DEF EntryOK
<1>9. TakenOK(e)'
  BY <1>1, <1>2, <1>5 DEF Unmoved, TakenOK, EntryOK
<1>10. MapOK(e)'
  BY <1>0, <1>1, <1>2, Zenon DEF MapOK, EntryOK, Unmoved
<1>11. InsertOK(e)'
  BY <1>1, <1>2, <1>6, Zenon DEF InsertOK
<1>12. CreateOK(e)'
  <2>. SUFFICES ASSUME NEW v \in Workers, Creates(v, e)'
                PROVE  /\ loc'[v].page = Len(disk') + 1 /\ ~cache'.ent[e].valid
                       /\ \A u \in Workers : IsPin(u, e)' => u = v
                       /\ pc'[v] # "readIO" => Clean(e)'
    BY DEF CreateOK
  <2>1. Creates(v, e) /\ pc'[v] = "readIO"
    <3>1. CASE v = w
      BY <3>1, <1>1 DEF Creates, Unmoved, Creating, Inserting, Role
    <3>2. CASE v # w
      BY <1>2, <1>7, <3>2
    <3>. QED
      BY <3>1, <3>2
  <2>2. /\ loc[v].page = Len(disk) + 1 /\ ~cache.ent[e].valid
        /\ \A u \in Workers : IsPin(u, e) => u = v
    BY <2>1, Zenon DEF CreateOK, EntryOK
  <2>3. loc'[v] = loc[v] /\ disk' = disk
    BY DEF Unmoved
  <2>. QED
    BY <1>0, <1>1, <1>2, <2>1, <2>2, <2>3, Zenon
<1>13. IoOK(e)'
  <2>. SUFFICES ASSUME cache.ent[e].tag \notin hist.raced
                PROVE  /\ \A u, v \in Workers : Does(u, e)' /\ Does(v, e)' => u = v
                       /\ cache'.ent[e].io <=> \E v \in Workers : Does(v, e)'
    BY <1>0, Zenon DEF IoOK, Unmoved
  <2>1. \A v \in Workers : ~Does(v, e)
    BY Zenon DEF IoOK, EntryOK
  <2>2. b = TRUE
    <3>1. CASE pc[w] = "extendIO"
      BY <3>1 DEF IsPin, Takers, Role, EntryOK, MapOK, Creates, Creating, CreateOK
    <3>. QED
      BY <3>1
  <2>3. cache'.ent[e].io
    BY <1>0, <2>2
  <2>. QED
    BY <1>1, <1>2, <2>1, <2>3, Zenon
<1>14. LockOK(e)'
  BY <1>1, <1>0, LockStays DEF IsPin, EntryOK
<1>. QED
  BY <1>8, <1>9, <1>10, <1>11, <1>12, <1>13, <1>14 DEF EntryOK

\* TerminateBufferIO: the one worker that reads or writes the page ends it.
LEMMA EndIoKeeps ==
  ASSUME NEW w \in Workers, NEW e \in Entries, EntryOK(e), cache \in CacheType, Others(w), Unmoved,
         cache'.ent[e].refs = cache.ent[e].refs, cache'.ent[e].tag = cache.ent[e].tag,
         cache'.ent[e].locked = cache.ent[e].locked, ~cache'.ent[e].io,
         Does(w, e), pc'[w] \in {"vacCheck", "hold", "idle"},
         IsPin(w, e)' => IsPin(w, e) /\ loc'[w].page = loc[w].page, IsVac(w, e)' => IsVac(w, e),
         IsPin(w, e)' /\ pc'[w] \in Using => IsPin(w, e) /\ pc[w] \in Using
  PROVE  EntryOK(e)'
<1>1. /\ ~IsTaker(w, e)' /\ ~Does(w, e)' /\ ~Creates(w, e)' /\ pc'[w] \notin Inserting /\ pc'[w] # "ghostify"
  BY DEF IsTaker, Does, Creates, Creating, Inserting, Takers, Reading, Writing
<1>2. \A v \in Workers \ {w} :
        /\ IsPin(v, e)' <=> IsPin(v, e)
        /\ IsVac(v, e)' <=> IsVac(v, e)
        /\ IsTaker(v, e)' <=> IsTaker(v, e)
        /\ Does(v, e)' <=> Does(v, e)
        /\ Creates(v, e)' => Creates(v, e)
        /\ pc'[v] = pc[v] /\ loc'[v] = loc[v]
  BY OthersSame DEF Others, Unmoved
<1>3. ~Clean(e)
  BY DEF Clean
<1>4. \A v \in Workers \ {w} : ~Creates(v, e)
  <2>. SUFFICES ASSUME NEW v \in Workers \ {w}, Creates(v, e) PROVE FALSE
    OBVIOUS
  <2>1. pc[v] = "readIO"
    BY <1>3, Zenon DEF EntryOK, CreateOK
  <2>2. Does(v, e) /\ IsPin(v, e)
    BY <2>1 DEF Creates, Does, IsPin, Reading, Takers
  <2>3. loc[v].page = cache.ent[e].tag
    BY <2>2 DEF EntryOK, MapOK
  <2>4. cache.ent[e].tag \notin hist.raced
    BY <2>3 DEF Creates
  <2>. QED
    BY <2>2, <2>4, Zenon DEF EntryOK, IoOK
<1>5. PinOK(e)'
  BY PinsStay DEF EntryOK
<1>6. TakenOK(e)'
  BY <1>1, <1>2, <1>3 DEF Unmoved, TakenOK, EntryOK
<1>7. MapOK(e)'
  BY <1>2, Zenon DEF MapOK, EntryOK, Unmoved
<1>8. InsertOK(e)'
  BY <1>1, <1>2, <1>3, Zenon DEF InsertOK, EntryOK
<1>9. CreateOK(e)'
  BY <1>1, <1>2, <1>4, Zenon DEF CreateOK
<1>10. IoOK(e)'
  BY <1>1, <1>2, Zenon DEF IoOK, EntryOK, Unmoved
<1>11. LockOK(e)'
  BY <1>1, LockStays DEF EntryOK
<1>. QED
  BY <1>5, <1>6, <1>7, <1>8, <1>9, <1>10, <1>11 DEF EntryOK

\* VacateLock: the entry whose only pin is the worker's own is locked.
LEMMA VacLockKeeps ==
  ASSUME NEW w \in Workers, NEW e \in Entries, EntryOK(e), cache \in CacheType, Others(w),
         cache.ent[e].refs = 1, cache'.ent[e].refs = 1, cache'.ent[e].locked, IsVac(w, e),
         pc'[w] = "ghostify", NoMore(w, e), Alone(e)
  PROVE  EntryOK(e)'
<1>1. TakenOK(e)' /\ MapOK(e)' /\ InsertOK(e)' /\ CreateOK(e)' /\ IoOK(e)'
  BY AloneMost
<1>2. PinOK(e)'
  BY PinsStay DEF EntryOK, NoMore
<1>3. \A v \in Workers : ~IsPin(v, e) /\ (IsVac(v, e) => v = w)
  BY OnePin DEF EntryOK
<1>4. \A v \in Workers : ~IsPin(v, e)' /\ (IsVac(v, e)' => v = w)
  BY <1>3, Zenon DEF Others, IsPin, IsVac, NoMore
<1>5. \A v \in Workers : loc'[v].it = e /\ pc'[v] = "ghostify" => IsVac(v, e)'
  BY DEF IsVac, Flushing
<1>6. LockOK(e)'
  BY <1>4, <1>5, Zenon DEF LockOK
<1>. QED
  BY <1>1, <1>2, <1>6 DEF EntryOK

\* Ghostify: the worker unlocks the entry and gives its pin back; nobody else is making
\* the entry a ghost.
LEMMA GhostKeeps ==
  ASSUME NEW w \in Workers, NEW e \in Entries, EntryOK(e), cache \in CacheType, Others(w),
         cache'.ent[e].refs = cache.ent[e].refs - 1, IsVac(w, e), ~IsVac(w, e)',
         pc[w] = "ghostify", NoMore(w, e), Alone(e)
  PROVE  EntryOK(e)'
<1>1. TakenOK(e)' /\ MapOK(e)' /\ InsertOK(e)' /\ CreateOK(e)' /\ IoOK(e)'
  BY AloneMost
<1>2. PinOK(e)'
  BY PinsDown DEF EntryOK, NoMore
<1>3. \A v \in Workers : IsVac(v, e) => v = w
  BY Zenon DEF EntryOK, LockOK, IsVac
<1>4. \A v \in Workers : ~IsVac(v, e)'
  BY <1>3, Zenon DEF Others, IsVac
<1>5. \A v \in Workers : loc'[v].it = e /\ pc'[v] = "ghostify" => IsVac(v, e)'
  BY DEF IsVac, Flushing
<1>6. LockOK(e)'
  BY <1>4, <1>5, Zenon DEF LockOK
<1>. QED
  BY <1>1, <1>2, <1>6 DEF EntryOK

\* ToT1: the worker that has the entry unlocks it; nobody is making it a ghost.
LEMMA UnlockKeeps ==
  ASSUME NEW w \in Workers, NEW e \in Entries, EntryOK(e), cache \in CacheType, Others(w),
         cache'.ent[e].refs = cache.ent[e].refs, IsPin(w, e), pc[w] \in Using, pc'[w] # "ghostify",
         NoMore(w, e), Alone(e)
  PROVE  EntryOK(e)'
  BY AloneMost, PinsStay DEF EntryOK, NoMore, LockOK, Others

\* ReturnBuffer: the pin is given back.
LEMMA ReturnKeeps ==
  ASSUME NEW w \in Workers, NEW e \in Entries, EntryOK(e), cache \in CacheType, Others(w),
         cache'.ent[e].refs = cache.ent[e].refs - 1, cache'.ent[e].locked = cache.ent[e].locked,
         IsPin(w, e), pc'[w] = "idle", loc'[w].ent # e, NoMore(w, e), Alone(e)
  PROVE  EntryOK(e)'
  BY AloneMost, PinsDown, LockStays DEF IsPin, IsVac, Flushing, EntryOK

\* WritePage: the user of the page marks it dirty.
LEMMA WriteKeeps ==
  ASSUME NEW w \in Workers, NEW e \in Entries, EntryOK(e), cache \in CacheType, pc' = pc, loc' = loc,
         map' = map, disk' = disk, hist'.raced = hist.raced, IsPin(w, e), pc[w] = "hold",
         cache'.ent[e].refs = cache.ent[e].refs, cache'.ent[e].tag = cache.ent[e].tag,
         cache'.ent[e].locked = cache.ent[e].locked, cache'.ent[e].io = cache.ent[e].io
  PROVE  EntryOK(e)'
<1>0. Others(w)
  BY DEF Others
<1>1. \A v \in Workers :
        /\ IsPin(v, e)' <=> IsPin(v, e)
        /\ IsVac(v, e)' <=> IsVac(v, e)
        /\ IsTaker(v, e)' <=> IsTaker(v, e)
        /\ Does(v, e)' <=> Does(v, e)
        /\ Creates(v, e)' <=> Creates(v, e)
  BY Zenon DEF IsPin, IsVac, IsTaker, Does, Creates
<1>2. /\ \A v \in Workers : ~IsTaker(v, e)
      /\ \A v \in Workers : loc[v].ent = e /\ pc[v] \in Inserting => v = w
      /\ \A v \in Workers : Creates(v, e) => v = w
  BY PinnedAlone
<1>3. pc[w] \notin Inserting /\ ~Creates(w, e)
  BY DEF Creates, Creating, Inserting
<1>4. PinOK(e)'
  BY <1>0, <1>1, PinsStay DEF EntryOK
<1>5. TakenOK(e)'
  BY <1>1, <1>2, Zenon DEF TakenOK
<1>6. MapOK(e)'
  BY <1>1, Zenon DEF MapOK, EntryOK
<1>7. InsertOK(e)'
  BY <1>2, <1>3, Zenon DEF InsertOK
<1>8. CreateOK(e)'
  BY <1>1, <1>2, <1>3, Zenon DEF CreateOK
<1>9. IoOK(e)'
  BY <1>1, Zenon DEF IoOK, EntryOK
<1>10. LockOK(e)'
  BY <1>1, Zenon DEF LockOK, EntryOK
<1>. QED
  BY <1>4, <1>5, <1>6, <1>7, <1>8, <1>9, <1>10 DEF EntryOK

\* PopTail and EvictScan take an entry that nobody has pinned, and that is in the page
\* table no more; ClearEntry and PrepareEntry clear it.
LEMMA TakeKeeps ==
  ASSUME NEW w \in Workers, NEW e \in Entries, EntryOK(e), cache \in CacheType, Others(w),
         hist.raced \subseteq hist'.raced,
         cache.ent[e].refs = 0, cache'.ent[e].refs = 0, loc'[w].ent = e, pc'[w] \in Takers,
         \A p \in Pages : map'[p] # e, \A v \in Workers \ {w} : ~IsTaker(v, e),
         ~cache'.ent[e].io \/ (cache'.ent[e].io = cache.ent[e].io /\ cache'.ent[e].tag = cache.ent[e].tag),
         pc'[w] # "tearDown" => ~cache'.ent[e].valid /\ ~cache'.ent[e].dirty /\ ~cache'.ent[e].io
  PROVE  EntryOK(e)'
<1>1. \A v \in Workers : ~IsPin(v, e) /\ ~IsVac(v, e) /\ ~Does(v, e)
  BY NoPins DEF EntryOK
<1>2. ~IsPin(w, e)' /\ ~IsVac(w, e)' /\ ~Does(w, e)'
  BY DEF IsPin, IsVac, Does, Takers, Flushing, Reading, Writing
<1>3. \A v \in Workers : ~IsPin(v, e)' /\ ~IsVac(v, e)' /\ ~Does(v, e)'
  BY <1>1, <1>2, OthersSame
<1>4. \A v \in Workers : IsTaker(v, e)' => v = w
  BY OthersSame
<1>5. PinOK(e)'
  BY <1>2, PinsStay DEF EntryOK
<1>6. TakenOK(e)'
  BY <1>3, <1>4, Zenon DEF TakenOK, Clean
<1>7. MapOK(e)'
  BY <1>3, Zenon DEF MapOK
<1>8. InsertOK(e)'
  BY <1>3 DEF InsertOK, IsPin, Inserting, Takers
<1>9. CreateOK(e)'
  BY <1>3 DEF CreateOK, Creates, IsPin, Creating, Inserting, Takers
<1>10. IoOK(e)'
  BY <1>1, <1>3 DEF EntryOK, IoOK
<1>11. LockOK(e)'
  BY <1>3 DEF LockOK, IsVac, Flushing
<1>. QED
  BY <1>5, <1>6, <1>7, <1>8, <1>9, <1>10, <1>11 DEF EntryOK

\* InsertEntry: the cleared entry enters the page table and is pinned.
LEMMA InsertKeeps ==
  ASSUME NEW w \in Workers, NEW e \in Entries, EntryOK(e), cache \in CacheType, Others(w), Role(w),
         disk \in Seq(Nat), disk' = disk, loc' = loc, hist.raced \subseteq hist'.raced,
         NEW t \in Pages, loc[w].page = t, loc[w].ent = e, pc[w] = "insert", pc'[w] = "loadFree",
         map \in [Pages -> Ptr], map' = [map EXCEPT ![t] = e],
         loc[w].op = "extend" /\ t <= Len(disk) => t \in hist'.raced,
         cache'.ent[e].refs = cache.ent[e].refs + 1, cache'.ent[e].tag = t,
         cache'.ent[e].locked = cache.ent[e].locked, cache'.ent[e].io = cache.ent[e].io,
         cache'.ent[e].dirty = cache.ent[e].dirty, cache'.ent[e].valid = cache.ent[e].valid
  PROVE  EntryOK(e)'
<1>1. IsTaker(w, e)
  BY DEF IsTaker, Takers
<1>2. /\ \A v \in Workers : IsTaker(v, e) => v = w
      /\ \A p \in Pages : map[p] # e
      /\ Clean(e)
  BY <1>1, Zenon DEF EntryOK, TakenOK
<1>3. \A v \in Workers : ~IsPin(v, e)
  BY <1>2, Zenon DEF EntryOK, MapOK
<1>4. \A v \in Workers \ {w} :
        /\ ~IsPin(v, e)'
        /\ IsVac(v, e)' <=> IsVac(v, e)
        /\ ~IsTaker(v, e)'
        /\ ~Does(v, e)'
  BY <1>2, <1>3, OthersSame DEF Clean
<1>5. /\ IsPin(w, e)' /\ ~IsVac(w, e)' /\ ~IsTaker(w, e)' /\ ~Does(w, e)' /\ pc'[w] # "ghostify"
      /\ pc'[w] \in Inserting /\ pc'[w] \notin Using
  BY DEF IsPin, IsVac, IsTaker, Does, Takers, Flushing, Reading, Writing, Inserting, Using
<1>6. \A p \in Pages : map'[p] = e <=> p = t
  BY <1>2
<1>7. Clean(e)'
  BY <1>2, <1>4, <1>5, Zenon DEF Clean
<1>8. PinOK(e)'
  BY <1>5, PinsUp DEF EntryOK
<1>9. TakenOK(e)'
  BY <1>4, <1>5, Zenon DEF TakenOK
<1>10. MapOK(e)'
  BY <1>4, <1>6, Zenon DEF MapOK
<1>11. InsertOK(e)'
  BY <1>4, <1>7 DEF IsPin, Inserting, Takers, InsertOK
<1>12. CreateOK(e)'
  <2>. SUFFICES ASSUME NEW v \in Workers, Creates(v, e)'
                PROVE  /\ loc'[v].page = Len(disk') + 1 /\ ~cache'.ent[e].valid
                       /\ \A u \in Workers : IsPin(u, e)' => u = v
                       /\ pc'[v] # "readIO" => Clean(e)'
    BY DEF CreateOK
  <2>1. IsPin(v, e)'
    BY DEF Creates, IsPin, Creating, Inserting, Takers
  <2>2. v = w
    BY <1>4, <2>1
  <2>3. loc[w].op = "extend" /\ t \notin hist'.raced
    BY <2>2 DEF Creates
  <2>4. t <= Len(disk) + 1 /\ Len(disk) \in Nat /\ ~(t <= Len(disk))
    BY <2>3, LenProperties DEF Role
  <2>5. t = Len(disk) + 1
    BY <2>4 DEF Pages
  <2>. QED
    BY <1>4, <1>7, <2>2, <2>5, Zenon DEF Clean
<1>13. IoOK(e)'
  BY <1>7, Zenon DEF IoOK, Clean
<1>14. LockOK(e)'
  BY <1>5, LockStays DEF EntryOK
<1>. QED
  BY <1>8, <1>9, <1>10, <1>11, <1>12, <1>13, <1>14 DEF EntryOK

-----------------------------------------------------------------------------
(* Steps on the lists                                                       *)

\* The same entry but for its place in the lists, and the same entries.
Alike(r, s) == /\ s.tag = r.tag /\ s.refs = r.refs /\ s.locked = r.locked
               /\ s.io = r.io /\ s.dirty = r.dirty /\ s.valid = r.valid
Core(c, d) == \A x \in Entries : Alike(c.ent[x], d.ent[x])

\* InsertMRU
LEMMA InsertCore ==
  ASSUME NEW c \in CacheType, NEW l \in Lists, NEW e \in Entries
  PROVE  Core(c, InsertMRU(c, l, e))
<1>. DEFINE h == c.list[l].head
<1>0. h \in Ptr /\ 0 \notin Entries /\ c.ent \in [Entries -> EntryType]
  BY ListFields, PoolBounds DEF CacheType
<1>1. CASE Size(c, l) = 0
  BY <1>1 DEF InsertMRU, CacheType, Core, Alike
<1>2. CASE Size(c, l) # 0 /\ h = 0
  <2>1. InsertMRU(c, l, e).ent = c.ent
    BY <1>2 DEF InsertMRU, CacheType
  <2>. QED
    BY <2>1 DEF Core, Alike
<1>3. CASE Size(c, l) # 0 /\ h # 0
  <2>. DEFINE r1 == [c.ent[h] EXCEPT !.prev = e]
              f1 == [c.ent EXCEPT ![h] = r1]
              r2 == [f1[e] EXCEPT !.next = h]
              f2 == [f1 EXCEPT ![e] = r2]
              m == [c.list[l] EXCEPT !.head = e, !.size = (Size(c, l) + 1) % Width]
  <2>2. InsertMRU(c, l, e) = [c EXCEPT !.ent = f2, !.list[l] = m]
    BY <1>3 DEF InsertMRU
  <2>3. h \in Entries
    BY <1>3, <1>0 DEF Ptr
  <2>4. r1 \in EntryType /\ Alike(c.ent[h], r1)
    BY <1>0, <2>3 DEF EntryType, Ptr, Alike
  <2>. HIDE DEF r1
  <2>5. f1 \in [Entries -> EntryType] /\ \A x \in Entries : Alike(c.ent[x], f1[x])
    BY <1>0, <2>3, <2>4 DEF Alike
  <2>. HIDE DEF f1
  <2>6. Alike(f1[e], r2)
    <3>1. f1[e] \in EntryType
      BY <2>5
    <3>. QED
      BY <3>1 DEF EntryType, Alike
  <2>. HIDE DEF r2
  <2>7. \A x \in Entries : Alike(c.ent[x], f2[x])
    BY <2>5, <2>6 DEF Alike
  <2>. HIDE DEF f2, m
  <2>8. [c EXCEPT !.ent = f2, !.list[l] = m].ent = f2
    BY DEF CacheType
  <2>. QED
    BY <2>2, <2>7, <2>8 DEF Core
<1>. QED
  BY <1>1, <1>2, <1>3

\* RemoveEntry
LEMMA RemoveCore ==
  ASSUME NEW c \in CacheType, NEW l \in Lists, NEW e \in Entries
  PROVE  Core(c, RemoveEntry(c, l, e))
<1>. DEFINE prev == c.ent[e].prev
            next == c.ent[e].next
            linked == [x \in Entries |->
              IF x = e THEN [c.ent[x] EXCEPT !.prev = 0, !.next = 0]
              ELSE [c.ent[x] EXCEPT !.next = IF x = prev THEN next ELSE @,
                                    !.prev = IF x = next THEN prev ELSE @]]
            rest == IF c.list[l].head = e THEN [c.list[l] EXCEPT !.head = next]
                    ELSE IF c.list[l].tail = e THEN [c.list[l] EXCEPT !.tail = prev]
                    ELSE c.list[l]
            m == [rest EXCEPT !.size = Size(c, l) - 1]
            r == [c.ent[e] EXCEPT !.prev = 0, !.next = 0]
            empty == [head |-> 0, tail |-> 0, size |-> 0]
<1>0. \A x \in Entries : c.ent[x] \in EntryType
  BY EntryFields
<1>1. CASE Size(c, l) = 1
  <2>1. RemoveEntry(c, l, e) = [c EXCEPT !.list[l] = empty, !.ent[e] = r]
    BY <1>1 DEF RemoveEntry
  <2>2. Alike(c.ent[e], r)
    BY <1>0 DEF EntryType, Alike
  <2>. HIDE DEF r, empty
  <2>3. RemoveEntry(c, l, e).ent = [c.ent EXCEPT ![e] = r]
    BY <2>1 DEF CacheType
  <2>. QED
    BY <2>2, <2>3 DEF Core, CacheType, Alike
<1>2. CASE Size(c, l) # 1
  <2>1. RemoveEntry(c, l, e) = [c EXCEPT !.ent = linked, !.list[l] = m]
    BY <1>2 DEF RemoveEntry
  <2>3. \A x \in Entries : Alike(c.ent[x], linked[x])
    <3>. SUFFICES ASSUME NEW x \in Entries PROVE Alike(c.ent[x], linked[x])
      OBVIOUS
    <3>1. c.ent[x] \in EntryType
      BY <1>0
    <3>2. \/ linked[x] = [c.ent[x] EXCEPT !.prev = 0, !.next = 0]
          \/ linked[x] = [c.ent[x] EXCEPT !.next = IF x = prev THEN next ELSE @,
                                          !.prev = IF x = next THEN prev ELSE @]
      BY Zenon
    <3>. QED
      BY <3>1, <3>2, Zenon DEF EntryType, Alike
  <2>. HIDE DEF linked, m
  <2>4. [c EXCEPT !.ent = linked, !.list[l] = m].ent = linked
    BY DEF CacheType
  <2>. QED
    BY <2>1, <2>3, <2>4 DEF Core
<1>. QED
  BY <1>1, <1>2

\* Two steps on the lists.
LEMMA CoreTrans ==
  ASSUME NEW c, NEW d, NEW f, Core(c, d), Core(d, f)
  PROVE  Core(c, f)
BY DEF Core, Alike

\* PopTail and MoveMRU
LEMMA PoppedCore ==
  ASSUME NEW c \in CacheType, NEW e \in Entries, CanRemove(c, "Free")
  PROVE  Core(c, Popped(c, e))
<1>. DEFINE r == RemoveEntry(c, "Free", e)
            n == (r.list["Free"].size + Width - 1) % Width
<1>1. Core(c, r) /\ r \in CacheType
  BY RemoveSame, RemoveCore DEF Lists, Same
<1>2. Popped(c, e) = [r EXCEPT !.list["Free"].size = n]
  BY DEF Popped
<1>. HIDE DEF r, n
<1>3. Popped(c, e).ent = r.ent
  BY <1>1, <1>2 DEF CacheType
<1>. QED
  BY <1>1, <1>3 DEF Core

LEMMA MoveCore ==
  ASSUME NEW c \in CacheType, NEW l \in Lists, NEW m \in Lists, NEW e \in Entries, CanRemove(c, l)
  PROVE  /\ Core(c, MoveMRU(c, l, e))
         /\ InsertMRU(RemoveEntry(c, l, e), m, e) \in CacheType
         /\ Core(c, InsertMRU(RemoveEntry(c, l, e), m, e))
<1>1. RemoveEntry(c, l, e) \in CacheType /\ Core(c, RemoveEntry(c, l, e))
  BY RemoveSame, RemoveCore DEF Same
<1>2. PICK d \in CacheType : d = RemoveEntry(c, l, e)
  BY <1>1
<1>3. Core(d, InsertMRU(d, l, e)) /\ Core(d, InsertMRU(d, m, e)) /\ InsertMRU(d, m, e) \in CacheType
  BY InsertCore, InsertSame DEF Same
<1>4. Core(c, InsertMRU(d, l, e)) /\ Core(c, InsertMRU(d, m, e))
  BY <1>1, <1>2, <1>3, CoreTrans
<1>5. Core(c, c)
  BY DEF Core, Alike
<1>. QED
  BY <1>2, <1>3, <1>4, <1>5 DEF MoveMRU

\* A step that changes one entry, after a step on the lists.
LEMMA OneEntry ==
  ASSUME NEW d \in CacheType, Core(cache, d), NEW e \in Entries, NEW r, cache' = [d EXCEPT !.ent[e] = r]
  PROVE  cache'.ent[e] = r /\ \A x \in Entries \ {e} : Alike(cache.ent[x], cache'.ent[x])
  BY DEF CacheType, Core

-----------------------------------------------------------------------------
(* A step of a worker                                                       *)

\* The step leaves alone the partitions that others have latched.
Latched(w) == \A p \in Pages : mapLatch[p] \notin {w, NoWorker} => mapLatch'[p] = mapLatch[p] /\ map'[p] = map[p]

\* Pages are not taken from the file, and what happened is not forgotten.
Grows == Len(disk) <= Len(disk') /\ hist.raced \subseteq hist'.raced /\ hist.torn \subseteq hist'.torn

Onward(w) == Others(w) /\ Latched(w) /\ Grows /\ Role(w)'

\* What the others have stays.
LEMMA OthersRole ==
  ASSUME Typed, disk' \in Seq(Nat), NEW w \in Workers, Others(w), Latched(w), Grows,
         NEW v \in Workers \ {w}, Role(v)
  PROVE  Role(v)'
<1>1. pc'[v] = pc[v] /\ loc'[v] = loc[v]
  BY DEF Others
<1>2. /\ Len(disk) \in Nat /\ Len(disk') \in Nat /\ Len(disk) <= Len(disk')
      /\ hist.raced \subseteq hist'.raced
  BY LenProperties DEF Typed, StoreTypes, Grows
<1>3. loc[v].page \in Pages \cup {0} /\ LocGood(pc[v], loc[v])
  BY LocFields DEF Typed
<1>4. loc[v].page \in Nat
  BY <1>3 DEF Pages
<1>5. pc[v] \in Inserting => mapLatch'[loc[v].page] = v /\ map'[loc[v].page] = loc[v].ent
  <2>. SUFFICES ASSUME pc[v] \in Inserting
                PROVE  mapLatch'[loc[v].page] = v /\ map'[loc[v].page] = loc[v].ent
    OBVIOUS
  <2>1. loc[v].page \in Pages
    BY <1>3 DEF LocGood, WithEnt, Inserting
  <2>2. mapLatch[loc[v].page] = v /\ map[loc[v].page] = loc[v].ent
    BY DEF Role
  <2>3. v # NoWorker
    BY PoolAssumption
  <2>. QED
    BY <2>1, <2>2, <2>3 DEF Latched
<1>6. /\ loc[v].op = "get" => loc[v].page <= Len(disk')
      /\ loc[v].page <= Len(disk') + 1
  BY <1>2, <1>4 DEF Role
<1>. QED
  BY <1>1, <1>2, <1>5, <1>6, Zenon DEF Role

\* The invariant after a step.
LEMMA Assemble ==
  ASSUME UseInv, Typed, disk' \in Seq(Nat), NEW w \in Workers, Onward(w),
         \A e \in Entries \ hist'.torn : EntryOK(e)'
  PROVE  UseInv'
  BY OthersRole DEF UseInv, Onward

\* A step that leaves every entry alone.
LEMMA AllAlone ==
  ASSUME UseInv, Typed, disk' \in Seq(Nat), NEW w \in Workers, Onward(w),
         \A e \in Entries \ hist'.torn : NoMore(w, e) /\ Alone(e) /\ Respects(w, e)
  PROVE  UseInv'
  BY AloneKeeps, Assemble DEF UseInv, Onward, Grows, Typed

\* An entry that the step leaves as it is.
LEMMA AlikeAlone ==
  ASSUME NEW e \in Entries, Alike(cache.ent[e], cache'.ent[e]), map' = map, Len(disk') = Len(disk),
         hist.raced \subseteq hist'.raced
  PROVE  Alone(e) /\ cache'.ent[e].refs = cache.ent[e].refs /\ (cache'.ent[e].locked <=> cache.ent[e].locked)
BY Zenon DEF Alike, Alone

\* Labels where a call has no more than the pin of an entry.
Plain == {"idle", "lookup", "again", "pre1", "pre2", "pre3", "pre4", "forget", "forgetScan", "forgetFree",
          "adjust", "vacate", "vacScan", "addFree", "evict", "popScan", "evictGhost", "evictScan",
          "giveBack", "hit", "extendHit", "ghostHit", "ghostMove", "extendAgain"}

\* A step to such a label.
LEMMA PlainMove ==
  ASSUME NEW w \in Workers, pc'[w] \in Plain, pc[w] \notin Reading \cup Writing,
         \/ loc'[w].ent = 0
         \/ pc[w] \notin Takers /\ loc'[w].ent = loc[w].ent /\ loc'[w].page = loc[w].page
  PROVE  \A e \in Entries :
           /\ NoMore(w, e)
           /\ pc'[w] # "ghostify" /\ pc'[w] \notin Using
<1>. SUFFICES ASSUME NEW e \in Entries
              PROVE  NoMore(w, e) /\ pc'[w] # "ghostify" /\ pc'[w] \notin Using
  OBVIOUS
<1>1. /\ pc'[w] \notin Takers /\ pc'[w] \notin Flushing /\ pc'[w] \notin Reading /\ pc'[w] \notin Writing
      /\ pc'[w] \notin Inserting /\ pc'[w] \notin Creating /\ pc'[w] \notin Using /\ pc'[w] # "ghostify"
  BY DEF Plain, Takers, Flushing, Reading, Writing, Inserting, Creating, Using
<1>2. /\ ~IsVac(w, e)' /\ ~IsTaker(w, e)' /\ ~Does(w, e)' /\ ~Does(w, e) /\ ~Creates(w, e)'
  BY <1>1 DEF IsVac, IsTaker, Does, Creates
<1>3. IsPin(w, e)' => IsPin(w, e) /\ loc'[w].page = loc[w].page
  BY <1>1, PoolBounds DEF IsPin
<1>. QED
  BY <1>1, <1>2, <1>3 DEF NoMore

LEMMA PlainKeeps ==
  ASSUME UseInv, Typed, NEW w \in Workers, Onward(w), Core(cache, cache'), map' = map, disk' = disk,
         pc'[w] \in Plain, pc[w] \notin Reading \cup Writing,
         \/ loc'[w].ent = 0
         \/ pc[w] \notin Takers /\ loc'[w].ent = loc[w].ent /\ loc'[w].page = loc[w].page
  PROVE  UseInv'
  BY PlainMove, AlikeAlone, AllAlone DEF Core, Onward, Grows, Respects, Typed, StoreTypes

\* Steps that leave the page table, the file and what happened.
Still(w) == /\ map' = map /\ disk' = disk /\ hist'.raced = hist.raced /\ hist'.torn = hist.torn
            /\ mapLatch' = mapLatch \/ mapLatch' = DropAll(mapLatch, w)

LEMMA StillGrows ==
  ASSUME Typed, NEW w \in Workers, Still(w)
  PROVE  Latched(w) /\ Grows /\ disk' \in Seq(Nat)
  BY LenProperties DEF Typed, LatchTypes, StoreTypes, Still, DropAll, Latched, Grows

\* An exception: the call has nothing any more.
LEMMA IdleRole ==
  ASSUME NEW w \in Workers, disk' \in Seq(Nat), pc'[w] = "idle", loc'[w] = NoOp
  PROVE  Role(w)'
  BY LenProperties DEF NoOp, Role, Inserting, Vacating, Empty

LEMMA Throws ==
  ASSUME UseInv, Typed, NEW w \in Workers, Others(w), Still(w), Core(cache, cache'),
         pc[w] \notin Reading \cup Writing, pc'[w] = "idle", loc'[w] = NoOp
  PROVE  UseInv'
  BY StillGrows, IdleRole, PlainKeeps DEF Onward, NoOp, Plain, Still

\* A step between labels where the call has no more than a pin.
LEMMA PlainStep ==
  ASSUME UseInv, Typed, NEW w \in Workers, Others(w), Still(w), Core(cache, cache'),
         pc[w] \in (Plain \ {"idle"}) \cup (Flushing \ Writing), pc'[w] \in Plain,
         loc'[w].op = loc[w].op, loc'[w].page = loc[w].page, loc'[w].ent = loc[w].ent,
         pc'[w] \in {"lookup", "again", "hit"} => loc[w].op = "get",
         pc'[w] \in {"extendHit", "extendAgain"} => loc[w].op = "extend",
         pc'[w] \in Empty \/ (pc'[w] \in Vacating \ {"ghostMove"} /\ loc'[w].ret = "evict") => loc[w].ent = 0
  PROVE  UseInv'
<1>1. Latched(w) /\ Grows /\ disk' \in Seq(Nat)
  BY StillGrows
<1>2. Role(w)
  BY DEF UseInv
<1>3. /\ pc[w] \notin Takers \cup Creating \cup Reading \cup {"hold"} /\ pc[w] \notin Reading \cup Writing
      /\ pc'[w] \notin Inserting /\ pc'[w] \notin {"hitT1", "hitT2", "data", "toT1first", "extendIO", "extendStart"}
  BY DEF Plain, Takers, Creating, Inserting, Reading, Flushing, Writing
<1>4. Role(w)'
  BY <1>2, <1>3 DEF Role, Still, Plain, Flushing
<1>5. Onward(w)
  BY <1>1, <1>4 DEF Onward
<1>. QED
  BY <1>3, <1>5, PlainKeeps DEF Still

\* The entries of a cache that stays.
LEMMA CoreSame == cache' = cache => Core(cache, cache')
BY DEF Core, Alike

LEMMA CoreRefl == Core(cache, cache)
BY DEF Core, Alike

\* The locals after the helper functions.
LEMMA LocalsStay ==
  ASSUME Locals, NEW w \in Workers, NEW r \in LocType,
         r.op = loc[w].op, r.page = loc[w].page, r.ent = loc[w].ent, loc' = [loc EXCEPT ![w] = r]
  PROVE  loc'[w].op = loc[w].op /\ loc'[w].page = loc[w].page /\ loc'[w].ent = loc[w].ent /\ loc'[w] = r
BY DEF Locals

\* preinsertCleanup
LEMMA LatchGhostsUse ==
  ASSUME UseInv, Typed, NEW w \in Workers, LatchGhosts(w)
  PROVE  UseInv'
  BY LatchGhostsEffect, CoreSame, PlainStep DEF Effect, Moves, Others, LatchGhosts, Rest, data, Still,
     UseInv, Typed, Locals, At, Go, Role, Empty, Plain

LEMMA RecencySizesUse ==
  ASSUME UseInv, Typed, NEW w \in Workers, RecencySizes(w)
  PROVE  UseInv'
<1>1. Others(w)
  BY RecencySizesEffect, Zenon DEF Effect, Moves, Others
<1>2. Still(w) /\ Core(cache, cache')
  BY CoreSame DEF RecencySizes, Rest, data, Still
<1>3. Role(w) /\ pc \in [Workers -> Labels] /\ loc \in [Workers -> LocType]
  BY DEF UseInv, Typed, Locals
<1>4. pc[w] = "pre2" /\ pc'[w] \in {"forget", "vacate", "pre3"}
  BY <1>3 DEF RecencySizes, At, Go
<1>5. loc'[w].op = loc[w].op /\ loc'[w].page = loc[w].page /\ loc'[w].ent = loc[w].ent
  BY <1>3 DEF RecencySizes, LocType
<1>6. loc[w].ent = 0
  BY <1>3, <1>4 DEF Role, Empty
<1>. QED
  BY <1>1, <1>2, <1>4, <1>5, <1>6, PlainStep DEF Plain

LEMMA FrequencySizesUse ==
  ASSUME UseInv, Typed, NEW w \in Workers, FrequencySizes(w)
  PROVE  UseInv'
<1>1. Others(w)
  BY FrequencySizesEffect, Zenon DEF Effect, Moves, Others
<1>2. Still(w) /\ Core(cache, cache')
  BY CoreSame DEF FrequencySizes, Rest, data, Still
<1>3. Role(w) /\ pc \in [Workers -> Labels] /\ loc \in [Workers -> LocType]
  BY DEF UseInv, Typed, Locals
<1>4. pc[w] = "pre4" /\ pc'[w] \in {"forget", "adjust", "evict"}
  BY <1>3 DEF FrequencySizes, At, Go
<1>5. loc'[w].op = loc[w].op /\ loc'[w].page = loc[w].page /\ loc'[w].ent = loc[w].ent
  BY KeptType, <1>3 DEF Typed, FrequencySizes, LocType
<1>6. loc[w].ent = 0
  BY <1>3, <1>4 DEF Role, Empty
<1>. QED
  BY <1>1, <1>2, <1>4, <1>5, <1>6, PlainStep DEF Plain

\* A step that changes one entry.
LEMMA OneKeeps ==
  ASSUME UseInv, Typed, disk' \in Seq(Nat), NEW w \in Workers, Onward(w), NEW x,
         \A e \in Entries \ (hist'.torn \cup {x}) : NoMore(w, e) /\ Alone(e) /\ Respects(w, e),
         x \in Entries \ hist'.torn => EntryOK(x)'
  PROVE  UseInv'
<1>1. \A e \in Entries \ hist'.torn : EntryOK(e) /\ Others(w) /\ cache \in CacheType
  BY DEF UseInv, Onward, Grows, Typed
<1>2. ASSUME NEW e \in Entries \ hist'.torn PROVE EntryOK(e)'
  BY <1>1, AloneKeeps
<1>. QED
  BY <1>2, Assemble

\* The start of GetBuffer and ExtendRelation
LEMMA StartUse ==
  ASSUME UseInv, Typed, NEW w \in Workers, StartGet(w) \/ StartExtend(w)
  PROVE  UseInv'
<1>1. Others(w)
  BY StartEffect, Zenon DEF Effect, Moves, Others
<1>2. Still(w) /\ Core(cache, cache')
  BY CoreSame DEF StartGet, StartExtend, data, latches, Still
<1>3. Latched(w) /\ Grows /\ disk' \in Seq(Nat) /\ disk' = disk
  BY <1>2, StillGrows DEF Still
<1>4. pc \in [Workers -> Labels] /\ loc \in [Workers -> LocType] /\ Len(disk) \in Nat
  BY LenProperties DEF Typed, Locals, StoreTypes
<1>5. pc[w] = "idle" /\ pc'[w] \in {"lookup", "pre1"} /\ (pc'[w] = "lookup" => StartGet(w))
  BY <1>4 DEF StartGet, StartExtend, At, Go
<1>6. CASE StartGet(w)
  <2>1. PICK p \in DOMAIN disk : loc' = [loc EXCEPT ![w] = [NoOp EXCEPT !.op = "get", !.page = p]]
    BY <1>6 DEF StartGet
  <2>2. loc'[w].op = "get" /\ loc'[w].page = p /\ loc'[w].ent = 0 /\ pc'[w] = "lookup"
    BY <1>4, <1>6, <2>1, NoOpType DEF StartGet, Go, NoOp
  <2>3. p \in Nat /\ p <= Len(disk)
    BY DEF Typed, StoreTypes
  <2>4. Role(w)'
    BY <1>3, <1>4, <2>2, <2>3 DEF Role, Inserting, Vacating
  <2>. QED
    BY <1>1, <1>2, <1>3, <1>5, <2>2, <2>4, PlainKeeps DEF Onward, Still, Plain, Reading, Writing
<1>7. CASE StartExtend(w)
  <2>1. loc'[w].op = "extend" /\ loc'[w].page = 0 /\ loc'[w].ent = 0 /\ pc'[w] = "pre1"
    BY <1>4, <1>7 DEF StartExtend, Go, NoOp
  <2>2. Role(w)'
    BY <1>3, <1>4, <2>1 DEF Role, Inserting, Vacating
  <2>. QED
    BY <1>1, <1>2, <1>3, <1>5, <2>1, <2>2, PlainKeeps DEF Onward, Still, Plain, Reading, Writing
<1>. QED
  BY <1>6, <1>7

\* The walks through the lists start
LEMMA WalkUse ==
  ASSUME UseInv, Typed, NEW w \in Workers,
         ForgetStart(w) \/ VacateStart(w) \/ EvictStart(w) \/ EvictGhostStart(w)
  PROVE  UseInv'
<1>1. Others(w)
  BY WalkEffect, Zenon DEF Effect, Moves, Others
<1>2. Still(w) /\ Core(cache, cache')
  BY CoreSame DEF ForgetStart, VacateStart, EvictStart, EvictGhostStart, Rest, data, Still
<1>3. Role(w) /\ pc \in [Workers -> Labels] /\ loc \in [Workers -> LocType]
  BY DEF UseInv, Typed, Locals
<1>4. \/ pc[w] = "forget" /\ pc'[w] = "forgetScan"
      \/ pc[w] = "vacate" /\ pc'[w] = "vacScan"
      \/ pc[w] = "evict" /\ pc'[w] = "popScan"
      \/ pc[w] = "evictGhost" /\ pc'[w] = "evictScan"
  BY <1>3 DEF ForgetStart, VacateStart, EvictStart, EvictGhostStart, At, Go
<1>5. /\ loc'[w].op = loc[w].op /\ loc'[w].page = loc[w].page /\ loc'[w].ent = loc[w].ent
      /\ loc'[w].ret = loc[w].ret
  BY <1>3 DEF ForgetStart, VacateStart, EvictStart, EvictGhostStart, LocType
<1>6. pc'[w] \in Empty \/ (pc'[w] \in Vacating \ {"ghostMove"} /\ loc'[w].ret = "evict") => loc[w].ent = 0
  BY <1>3, <1>4, <1>5 DEF Role, Empty, Vacating
<1>. QED
  BY <1>1, <1>2, <1>4, <1>5, <1>6, PlainStep DEF Plain

\* adjust
LEMMA AdjustUse ==
  ASSUME UseInv, Typed, NEW w \in Workers, Adjust(w)
  PROVE  UseInv'
<1>1. Others(w)
  BY AdjustEffect, Zenon DEF Effect, Moves, Others
<1>2. Still(w) /\ Core(cache, cache')
  BY CoreSame DEF Adjust, Rest, data, latches, Still
<1>3. Role(w) /\ pc \in [Workers -> Labels] /\ loc \in [Workers -> LocType]
  BY DEF UseInv, Typed, Locals
<1>4. pc[w] = "adjust" /\ pc'[w] = "vacate"
  BY <1>3 DEF Adjust, At, Go
<1>5. /\ loc'[w].op = loc[w].op /\ loc'[w].page = loc[w].page /\ loc'[w].ent = loc[w].ent
      /\ loc'[w].ret = loc[w].ret
  BY <1>3 DEF Adjust, LocType
<1>6. loc'[w].ret = "evict" => loc[w].ent = 0
  BY <1>3, <1>4, <1>5 DEF Role, Vacating
<1>7. pc'[w] \notin Empty
  BY <1>4 DEF Empty
<1>. QED
  BY <1>1, <1>2, <1>4, <1>5, <1>6, <1>7, PlainStep DEF Plain

\* forgetAnyEntry puts the entry on the free list
LEMMA ForgetFreeUse ==
  ASSUME UseInv, Typed, NEW w \in Workers, ForgetFree(w)
  PROVE  UseInv'
<1>1. Others(w)
  BY ForgetFreeEffect, Zenon DEF Effect, Moves, Others
<1>2. Still(w)
  BY DEF ForgetFree, Rest, data, Still
<1>3. Role(w) /\ pc \in [Workers -> Labels] /\ loc \in [Workers -> LocType]
  BY DEF UseInv, Typed, Locals
<1>4. pc[w] = "forgetFree" /\ pc'[w] = "adjust"
  BY <1>3 DEF ForgetFree, At, Go
<1>5. loc'[w].op = loc[w].op /\ loc'[w].page = loc[w].page /\ loc'[w].ent = loc[w].ent
  BY KeptType, <1>3 DEF Typed, ForgetFree, LocType
<1>6. loc[w].ent = 0
  BY <1>3, <1>4 DEF Role, Empty
<1>7. Core(cache, cache')
  <2>1. loc[w].it \in Entries
    BY <1>4, LocFields DEF Typed, LocGood, WithIt, Ptr
  <2>. QED
    BY <2>1, InsertCore DEF ForgetFree, Typed, Lists
<1>. QED
  BY <1>1, <1>2, <1>4, <1>5, <1>6, <1>7, PlainStep DEF Plain

\* The end of the process, and steps that leave worker, latches and page table as they are.
LEMMA NothingMoves ==
  ASSUME UseInv, Typed, NEW w \in Workers, pc' = pc, loc' = loc, map' = map, mapLatch' = mapLatch, disk' = disk,
         hist'.raced = hist.raced, hist'.torn = hist.torn, Core(cache, cache')
  PROVE  UseInv'
<1>1. Still(w) /\ Others(w)
  BY DEF Still, Others
<1>2. Latched(w) /\ Grows /\ disk' \in Seq(Nat)
  BY <1>1, StillGrows
<1>3. Role(w)'
  <2>1. Role(w)
    BY DEF UseInv
  <2>. QED
    BY <2>1, Zenon DEF Role
<1>4. \A e \in Entries : Alone(e) /\ cache'.ent[e].refs = cache.ent[e].refs
                          /\ (cache'.ent[e].locked <=> cache.ent[e].locked)
  BY AlikeAlone DEF Core
<1>5. ASSUME NEW e \in Entries \ hist'.torn PROVE EntryOK(e)'
  BY <1>5, <1>1, <1>4, AloneMost, PinsStay DEF UseInv, NoMore, IsPin, IsVac, IsTaker, Does, Creates,
     EntryOK, Typed, LockOK
<1>. QED
  BY <1>1, <1>2, <1>3, <1>5, Assemble DEF Onward

LEMMA FaultUse ==
  ASSUME UseInv, Typed, NEW w \in Workers, pc' = pc, loc' = loc, map' = map, mapLatch' = mapLatch, disk' = disk,
         hist'.raced = hist.raced, hist'.torn = hist.torn, Fault
  PROVE  UseInv'
<1>1. Core(cache, cache')
  BY DEF Core, Alike, Fault, Typed, CacheType
<1>. QED
  BY <1>1, NothingMoves

\* An entry that nobody has pinned leaves the page table, for its own page.
LEMMA UnmapAlone ==
  ASSUME UseInv, Typed, NEW w \in Workers, Others(w), NEW e \in Entries, cache.ent[e].refs = 0,
         map' = Unmap(cache.ent[e].tag), disk' = disk, hist.raced \subseteq hist'.raced,
         hist.torn \subseteq hist'.torn,
         Mapped(cache.ent[e].tag) => {map[cache.ent[e].tag]} \ {e} \subseteq hist'.torn,
         NEW x \in Entries \ hist'.torn, Alike(cache.ent[x], cache'.ent[x]), NoMore(w, x)
  PROVE  Alone(x)
<1>. DEFINE t == cache.ent[e].tag
<1>1. map \in [Pages -> Ptr] /\ 0 \notin Entries /\ 0 \notin Pages
  BY PoolBounds DEF Typed, StoreTypes
<1>2. \A p \in Pages : map'[p] = IF p = t THEN 0 ELSE map[p]
  BY <1>1 DEF Unmap
<1>3. \A p \in Pages : map'[p] = x => map[p] = x
  BY <1>1, <1>2
<1>4. (\A p \in Pages : map[p] = x => map'[p] = x) \/ \A v \in Workers : ~IsPin(v, x)'
  <2>1. CASE \A p \in Pages : map[p] = x => p # t
    BY <1>2, <2>1
  <2>2. CASE \E p \in Pages : map[p] = x /\ p = t
    BY <1>1, <2>2, NoPins DEF Mapped, UseInv, EntryOK, Others, IsPin, NoMore
  <2>. QED
    BY <2>1, <2>2
<1>. QED
  BY <1>3, <1>4, Zenon DEF Alone, Alike

\* The latches of the others when a page leaves the table.
LEMMA UnmapLatched ==
  ASSUME Typed, NEW w \in Workers, NEW t, PartitionFree(t) \/ mapLatch[t] = w, map' = Unmap(t),
         disk' = disk, hist.raced \subseteq hist'.raced, hist.torn \subseteq hist'.torn,
         \/ mapLatch' = mapLatch \/ mapLatch' = DropAll(mapLatch, w)
         \/ mapLatch[t] = w /\ mapLatch' = Drop(mapLatch, t)
  PROVE  Latched(w) /\ Grows /\ disk' \in Seq(Nat)
  BY LenProperties, PoolBounds DEF Typed, LatchTypes, StoreTypes, DropAll, Drop, PartitionFree, Unmap,
     Latched, Grows

\* What is torn when a page leaves the table.
LEMMA ForgottenTears ==
  ASSUME Typed, NEW e \in Entries, NEW es \in SUBSET Entries, hist' = Forgotten(e, es)
  PROVE  /\ hist'.raced = hist.raced /\ hist.torn \subseteq hist'.torn /\ es \subseteq hist'.torn
         /\ Mapped(cache.ent[e].tag) => {map[cache.ent[e].tag]} \ {e} \subseteq hist'.torn
<1>. DEFINE t == cache.ent[e].tag
            gone == IF Mapped(t) THEN {map[t]} \ {e} ELSE {}
<1>1. Forgotten(e, es).raced = hist.raced /\ Forgotten(e, es).torn = hist.torn \cup es \cup gone
  BY ForgottenFields, Zenon DEF Typed
<1>2. Mapped(t) => gone = {map[t]} \ {e}
  OBVIOUS
<1>. HIDE DEF gone
<1>. QED
  BY <1>1, <1>2

\* forgetAnyEntry
LEMMA ForgetScanUse ==
  ASSUME UseInv, Typed, NEW w \in Workers, ForgetScan(w)
  PROVE  UseInv'
<1>. DEFINE e == loc[w].it
            t == It(w).tag
<1>1. Others(w)
  BY ForgetScanEffect, Zenon DEF Effect, Moves, Others
<1>2. cache' = cache /\ disk' = disk /\ Core(cache, cache')
  BY CoreSame DEF ForgetScan
<1>3. Role(w) /\ pc \in [Workers -> Labels] /\ loc \in [Workers -> LocType] /\ pc[w] = "forgetScan"
  BY DEF UseInv, Typed, Locals, ForgetScan, At
<1>4. loc[w].ent = 0 /\ e \in Ptr
  BY <1>3 DEF Role, Empty, LocType
<1>5. CASE e = 0
  BY <1>2, <1>3, <1>5, KeptType, <1>1, <1>4, PlainStep DEF Still, ForgetScan, Go, Typed, LocType, Plain
<1>6. CASE e # 0 /\ It(w).refs # 0
  BY <1>2, <1>6, <1>3, <1>1, <1>4, PlainStep DEF Still, ForgetScan, latches, LocType, Plain
<1>7. CASE e # 0 /\ It(w).refs = 0 /\ ~Mapped(t)
  BY <1>7, <1>2, <1>3, <1>1, Throws DEF ForgetScan, Still, Throw, Over, Go, Reading, Writing
<1>8. CASE e # 0 /\ It(w).refs = 0 /\ Mapped(t)
  <2>1. /\ map' = Unmap(t) /\ hist' = Forgotten(e, {}) /\ pc' = [pc EXCEPT ![w] = "forgetFree"]
        /\ mapLatch' = mapLatch /\ loc' = loc /\ PartitionFree(t)
    BY <1>8, Zenon DEF ForgetScan, Go, latches
  <2>2. e \in Entries /\ pc'[w] = "forgetFree"
    BY <1>3, <1>4, <1>8, <2>1 DEF Ptr
  <2>3. /\ hist'.raced = hist.raced /\ hist.torn \subseteq hist'.torn
        /\ {map[t]} \ {e} \subseteq hist'.torn
    BY <1>8, <2>1, <2>2, ForgottenTears DEF It
  <2>4. Latched(w) /\ Grows /\ disk' \in Seq(Nat)
    BY <1>2, <2>1, <2>3, UnmapLatched
  <2>5. Role(w)'
    BY <1>2, <1>3, <1>4, <2>1, <2>2, <2>3 DEF Role, Inserting, Vacating
  <2>6. \A x \in Entries : NoMore(w, x) /\ pc'[w] # "ghostify" /\ pc'[w] \notin Using
    BY <1>3, <1>4, <2>1, <2>2, PlainMove DEF Plain, Reading, Writing
  <2>7. \A x \in Entries \ hist'.torn : Alone(x)
    BY <1>1, <1>2, <1>8, <2>1, <2>2, <2>3, <2>6, UnmapAlone DEF It, Core
  <2>8. \A x \in Entries \ hist'.torn : NoMore(w, x) /\ Alone(x) /\ Respects(w, x)
    BY <1>2, <2>6, <2>7, Zenon DEF Respects
  <2>. QED
    BY <1>1, <2>4, <2>5, <2>8, AllAlone DEF Onward
<1>. QED
  BY <1>5, <1>6, <1>7, <1>8

\* In tryVacateEntry, from the pin to the ghost.
LEMMA VacateMove ==
  ASSUME UseInv, Typed, NEW w \in Workers, Still(w), mapLatch' = mapLatch, loc' = loc,
         pc[w] \in Flushing \cup {"vacScan"}, pc'[w] \in Flushing
  PROVE  /\ Role(w)'
         /\ \A e \in Entries : \/ loc[w].it = e
                               \/ NoMore(w, e) /\ pc'[w] \notin Using /\ ~(loc'[w].it = e /\ pc'[w] = "ghostify")
<1>1. Role(w)
  BY DEF UseInv
<1>2. /\ pc[w] \in Vacating \ {"ghostMove"} /\ pc[w] \notin Takers \cup Creating \cup Reading \cup {"hold"}
      /\ pc'[w] \in Vacating \ {"ghostMove"} /\ pc[w] # "idle"
      /\ pc'[w] \notin Takers \cup Creating \cup Reading \cup Inserting \cup Empty \cup Using
      /\ pc'[w] \notin {"lookup", "again", "hit", "hitT1", "hitT2", "data", "toT1first", "extendIO",
                        "extendHit", "extendAgain", "extendStart"}
  BY DEF Flushing, Vacating, Takers, Creating, Reading, Inserting, Empty, Using
<1>3. Role(w)'
  BY <1>1, <1>2, Zenon DEF Role, Still
<1>4. ASSUME NEW e \in Entries, loc[w].it # e
      PROVE  NoMore(w, e)
  BY <1>2, <1>4 DEF NoMore, IsPin, IsVac, IsTaker, Does, Creates
<1>. QED
  BY <1>2, <1>3, <1>4

\* A step that leaves the entry as it is.
LEMMA VacateStep ==
  ASSUME UseInv, Typed, NEW w \in Workers, Others(w), Still(w), mapLatch' = mapLatch, loc' = loc,
         Core(cache, cache'), pc[w] \in {"flush", "vacCheck"}, pc'[w] \in {"vacCheck", "vacLock"}
  PROVE  UseInv'
<1>1. Latched(w) /\ Grows /\ disk' \in Seq(Nat)
  BY StillGrows
<1>2. /\ Role(w)'
      /\ \A e \in Entries : \/ loc[w].it = e
                            \/ NoMore(w, e) /\ pc'[w] \notin Using /\ ~(loc'[w].it = e /\ pc'[w] = "ghostify")
  BY VacateMove DEF Flushing
<1>3. \A e \in Entries : NoMore(w, e)
  BY DEF NoMore, IsPin, IsVac, IsTaker, Does, Creates, Takers, Flushing, Reading, Writing, Inserting, Creating
<1>4. \A e \in Entries : Alone(e) /\ cache'.ent[e].refs = cache.ent[e].refs
                          /\ (cache'.ent[e].locked <=> cache.ent[e].locked)
  BY <1>1, AlikeAlone DEF Core, Grows, Still
<1>5. pc'[w] \notin Using /\ pc'[w] # "ghostify"
  BY DEF Using, Reading
<1>6. \A e \in Entries : NoMore(w, e) /\ Alone(e) /\ Respects(w, e)
  BY <1>3, <1>4, <1>5, Zenon DEF Respects
<1>. QED
  BY <1>1, <1>2, <1>6, AllAlone DEF Onward

\* A step that changes the entry.
LEMMA VacateOne ==
  ASSUME UseInv, Typed, NEW w \in Workers, Others(w), Still(w), mapLatch' = mapLatch, loc' = loc,
         pc[w] \in Flushing \cup {"vacScan"}, pc'[w] \in Flushing,
         \A x \in Entries \ {loc[w].it} : Alike(cache.ent[x], cache'.ent[x]),
         loc[w].it \in Entries \ hist'.torn => EntryOK(loc[w].it)'
  PROVE  UseInv'
<1>1. Latched(w) /\ Grows /\ disk' \in Seq(Nat)
  BY StillGrows
<1>2. /\ Role(w)'
      /\ \A e \in Entries : \/ loc[w].it = e
                            \/ NoMore(w, e) /\ pc'[w] \notin Using /\ ~(loc'[w].it = e /\ pc'[w] = "ghostify")
  BY VacateMove
<1>3. PICK y : y = loc[w].it
  OBVIOUS
<1>4. \A e \in Entries \ {y} : Alone(e) /\ cache'.ent[e].refs = cache.ent[e].refs
                          /\ (cache'.ent[e].locked <=> cache.ent[e].locked)
  BY <1>1, <1>3, AlikeAlone DEF Grows, Still
<1>5. \A e \in Entries \ {y} : NoMore(w, e) /\ Alone(e) /\ Respects(w, e)
  BY <1>2, <1>3, <1>4, Zenon DEF Respects
<1>6. y \in Entries \ hist'.torn => EntryOK(y)'
  BY <1>3
<1>. QED
  BY <1>1, <1>2, <1>5, <1>6, OneKeeps DEF Onward

\* tryVacateEntry pins an entry
LEMMA VacateScanUse ==
  ASSUME UseInv, Typed, NEW w \in Workers, VacateScan(w)
  PROVE  UseInv'
<1>. DEFINE e == loc[w].it
<1>1. Others(w)
  BY VacateScanEffect, Zenon DEF Effect, Moves, Others
<1>2. Still(w) /\ mapLatch' = mapLatch
  BY DEF VacateScan, Rest, data, Still
<1>3. /\ Role(w) /\ pc \in [Workers -> Labels] /\ loc \in [Workers -> LocType] /\ pc[w] = "vacScan"
      /\ cache \in CacheType
  BY DEF UseInv, Typed, Locals, VacateScan, At
<1>4. /\ loc[w].ret = "evict" => loc[w].ent = 0
      /\ loc[w].ret \in {"evict", "ghostMove"} /\ e \in Ptr
  BY <1>3 DEF Role, Vacating, LocType
<1>5. CASE e = 0
  BY <1>3, <1>5, KeptType, <1>4, <1>1, <1>2, PlainStep, CoreSame DEF VacateScan, Go, Typed, LocType,
     Empty, Vacating, Plain
<1>6. CASE e # 0 /\ It(w).refs # 0
  BY <1>6, <1>3, <1>1, <1>2, <1>4, PlainStep, CoreSame DEF VacateScan, LocType, Empty, Plain
<1>7. CASE e # 0 /\ It(w).refs = 0
  <2>1. cache' = Pin(cache, e) /\ pc' = [pc EXCEPT ![w] = "flush"] /\ loc' = loc /\ e \in Entries
    BY <1>3, <1>4, <1>7 DEF VacateScan, Go, Ptr
  <2>2. PICK d \in Entries : d = e
    BY <2>1
  <2>3. cache' = [cache EXCEPT !.ent[d] = [cache.ent[d] EXCEPT !.refs = @ + 1]]
    BY <2>1, <2>2, Zenon DEF Pin
  <2>4. /\ cache'.ent[d] = [cache.ent[d] EXCEPT !.refs = @ + 1]
        /\ \A x \in Entries \ {d} : Alike(cache.ent[x], cache'.ent[x])
    BY <1>3, <2>3, CoreRefl, OneEntry
  <2>5. d \in Entries \ hist'.torn => EntryOK(d)'
    BY <1>3, <1>7, <2>1, <2>2, <1>1, <2>4, VacPinKeeps DEF VacateScan, Rest, data, Unmoved, It, UseInv
  <2>6. pc'[w] \in Flushing
    BY <1>3, <2>1 DEF Flushing
  <2>. QED
    BY <1>1, <1>2, <1>3, <2>1, <2>2, <2>4, <2>5, <2>6, VacateOne
<1>. QED
  BY <1>5, <1>6, <1>7

\* ShouldStartIO for a flush
LEMMA FlushUse ==
  ASSUME UseInv, Typed, NEW w \in Workers, Flush(w)
  PROVE  UseInv'
<1>1. Others(w)
  BY FlushEffect, Zenon DEF Effect, Moves, Others
<1>2. Still(w) /\ mapLatch' = mapLatch /\ loc' = loc /\ Unmoved
  BY DEF Flush, Rest, data, latches, Still, Unmoved
<1>3. Role(w) /\ pc \in [Workers -> Labels] /\ pc[w] = "flush" /\ cache \in CacheType /\ loc[w].it \in Entries
  BY LocFields DEF UseInv, Typed, Locals, Flush, At, LocGood, WithIt, Ptr
<1>4. CASE ~It(w).dirty
  <2>1. cache' = cache /\ pc'[w] = "vacCheck"
    BY <1>3, <1>4 DEF Flush, Go
  <2>. QED
    BY <1>1, <1>2, <1>3, <2>1, CoreSame, VacateStep
<1>5. CASE It(w).dirty
  <2>1. cache' = [cache EXCEPT !.ent[loc[w].it].io = TRUE] /\ pc'[w] = "flushIO" /\ ~It(w).io
    BY <1>3, <1>5 DEF Flush, Go
  <2>2. PICK d \in Entries : d = loc[w].it
    BY <1>3
  <2>3. cache' = [cache EXCEPT !.ent[d] = [cache.ent[d] EXCEPT !.io = TRUE]]
    BY <2>1, <2>2, Zenon
  <2>4. /\ cache'.ent[d] = [cache.ent[d] EXCEPT !.io = TRUE]
        /\ \A x \in Entries \ {d} : Alike(cache.ent[x], cache'.ent[x])
    BY <1>3, <2>3, CoreRefl, OneEntry
  <2>5. d \in Entries \ hist'.torn => EntryOK(d)'
    <3>1. ~cache.ent[d].io /\ cache.ent[d].dirty /\ hist' = hist
      BY <1>2, <1>5, <2>1, <2>2 DEF It, Unmoved
    <3>. QED
      BY <1>1, <1>2, <1>3, <2>1, <2>2, <2>4, <3>1, StartIoKeeps DEF UseInv
  <2>. QED
    BY <1>1, <1>2, <1>3, <2>1, <2>2, <2>4, <2>5, VacateOne DEF Flushing
<1>. QED
  BY <1>4, <1>5

\* What a write does to the length of the file.
LEMMA WrittenLen ==
  ASSUME NEW d \in Seq(Nat), NEW t \in Pages \cup {0}, NEW v \in Nat
  PROVE  Len(Written(d, t, v)) = IF t > Len(d) THEN Len(d) + 1 ELSE Len(d)
<1>0. t \in Nat
  BY DEF Pages
<1>1. CASE t > Len(d)
  BY <1>1 DEF Written
<1>2. CASE ~(t > Len(d))
  <2>1. Written(d, t, v) = [d EXCEPT ![t] = v]
    BY <1>2 DEF Written
  <2>2. CASE t \in 1..Len(d)
    BY <1>2, <2>1, <2>2, ExceptSeq
  <2>3. CASE t \notin 1..Len(d)
    BY LenProperties, <2>3, <1>2, <2>1
  <2>. QED
    BY <2>2, <2>3
<1>. QED
  BY <1>1, <1>2

\* The page is written and synced
LEMMA FlushWriteUse ==
  ASSUME UseInv, Typed, NEW w \in Workers, FlushWrite(w)
  PROVE  UseInv'
<1>. DEFINE b == It(w).buf
            t == It(w).tag
<1>1. Others(w) /\ disk' \in Seq(Nat)
  BY FlushWriteEffect, Zenon DEF Effect, Moves, Others, StoreTypes
<1>2. map' = map /\ mapLatch' = mapLatch /\ loc' = loc
  BY DEF FlushWrite
<1>3. /\ Role(w) /\ pc \in [Workers -> Labels] /\ pc[w] = "flushIO" /\ cache \in CacheType
      /\ loc[w].it \in Entries /\ disk \in Seq(Nat) /\ hist \in HistType
      /\ bufs \in [Buffers -> [version : Nat, next : BufPtr]]
  BY LocFields DEF UseInv, Typed, Locals, StoreTypes, FlushWrite, At, LocGood, WithIt, Ptr
<1>4. CASE b = 0
  BY <1>2, <1>4, FaultUse DEF FlushWrite
<1>5. CASE b # 0
  <2>1. cache' = cache /\ pc'[w] \in {"flushEnd", "flushFailed"}
    BY <1>3, <1>5 DEF FlushWrite, Go
  <2>2. /\ hist.raced \subseteq hist'.raced /\ hist'.torn = hist.torn
        /\ \/ Len(disk') = Len(disk)
           \/ Len(disk') = Len(disk) + 1 /\ Len(disk) + 1 \in hist'.raced
    <3>1. CASE UNCHANGED <<disk, hist>>
      BY <3>1
    <3>2. CASE ~UNCHANGED <<disk, hist>>
      <4>1. /\ disk' = Written(disk, t, bufs[b].version)
            /\ hist' = [hist EXCEPT !.raced = IF t > Len(disk) THEN @ \cup {Len(disk) + 1} ELSE @,
                                    !.dropped = IF It(w).valid THEN @ ELSE @ \cup {t}]
        BY <1>5, <3>2, Zenon DEF FlushWrite
      <4>2. t \in Pages \cup {0} /\ b \in Buffers
        BY <1>3, <1>5, EntryFields DEF It, BufPtr
      <4>3. bufs[b].version \in Nat
        BY <1>3, <4>2
      <4>4. Len(disk') = IF t > Len(disk) THEN Len(disk) + 1 ELSE Len(disk)
        BY <1>3, <4>1, <4>2, <4>3, WrittenLen
      <4>5. /\ hist'.raced = IF t > Len(disk) THEN hist.raced \cup {Len(disk) + 1} ELSE hist.raced
            /\ hist'.torn = hist.torn
        BY <1>3, <4>1, Zenon DEF HistType
      <4>. QED
        BY <4>4, <4>5
    <3>. QED
      BY <3>1, <3>2
  <2>3. Len(disk) \in Nat /\ Len(disk') \in Nat /\ Len(disk) <= Len(disk')
    BY <1>1, <1>3, <2>2, LenProperties
  <2>4. Latched(w) /\ Grows
    BY <1>2, <2>2, <2>3 DEF Latched, Grows
  <2>5. Role(w)'
    BY LocFields, <1>3, <2>3, <2>2, <1>2, <2>1 DEF Typed, Pages, Role, Vacating, Takers, Creating,
       Inserting, Reading, Empty
  <2>6. \A x \in Entries : NoMore(w, x)
    BY <1>2, <1>3, <2>1, <2>2
    DEF NoMore, IsPin, IsVac, IsTaker, Does, Creates, Takers, Flushing, Reading, Writing, Inserting, Creating
  <2>7. ASSUME NEW x \in Entries \ hist'.torn
        PROVE  NoMore(w, x) /\ Alone(x) /\ Respects(w, x)
    <3>1. Len(disk') = Len(disk) \/ \A v \in Workers : ~Creates(v, x)'
      <4>1. SUFFICES ASSUME Len(disk) + 1 \in hist'.raced, NEW v \in Workers, Creates(v, x)'
                     PROVE  FALSE
        BY <2>2
      <4>2. Creates(v, x) /\ loc[v].page \notin hist'.raced
        BY <1>1, <1>2, <1>3, <2>1, <4>1, OthersSame, <2>6, <2>2 DEF NoMore, Creates
      <4>3. loc[v].page = Len(disk) + 1
        BY <2>2, <2>7, <4>2 DEF UseInv, EntryOK, CreateOK
      <4>. QED
        BY <4>1, <4>2, <4>3
    <3>2. Alone(x)
      BY <1>2, <2>1, <2>2, <3>1, Zenon DEF Alone
    <3>3. Respects(w, x)
      BY <1>2, <2>1 DEF Respects, Using, Reading
    <3>. QED
      BY <2>6, <3>2, <3>3
  <2>. QED
    BY <1>1, <2>4, <2>5, <2>7, AllAlone DEF Onward
<1>. QED
  BY <1>4, <1>5

\* TerminateBufferIO
LEMMA TerminatedEntry ==
  ASSUME cache \in CacheType, NEW e \in Entries, NEW ok \in BOOLEAN, cache' = Terminated(e, ok)
  PROVE  /\ \A x \in Entries \ {e} : Alike(cache.ent[x], cache'.ent[x])
         /\ cache'.ent[e].refs = cache.ent[e].refs /\ cache'.ent[e].tag = cache.ent[e].tag
         /\ cache'.ent[e].locked = cache.ent[e].locked /\ ~cache'.ent[e].io
<1>. DEFINE r == [cache.ent[e] EXCEPT !.io = FALSE, !.dirty = ~ok, !.valid = ok \/ cache.ent[e].valid]
<1>1. cache' = [cache EXCEPT !.ent[e] = r]
  BY DEF Terminated
<1>2. /\ r.refs = cache.ent[e].refs /\ r.tag = cache.ent[e].tag
      /\ r.locked = cache.ent[e].locked /\ r.io = FALSE
  BY EntryFields, Zenon DEF EntryType
<1>. HIDE DEF r
<1>3. cache'.ent[e] = r /\ \A x \in Entries \ {e} : Alike(cache.ent[x], cache'.ent[x])
  BY <1>1, CoreRefl, OneEntry
<1>. QED
  BY <1>2, <1>3

LEMMA FlushEndUse ==
  ASSUME UseInv, Typed, NEW w \in Workers, FlushEnd(w)
  PROVE  UseInv'
<1>1. Others(w)
  BY FlushEndEffect, Zenon DEF Effect, Moves, Others
<1>2. Still(w) /\ Unmoved
  BY DEF FlushEnd, Throw, Over, Rest, data, Still, Unmoved
<1>3. /\ Role(w) /\ pc \in [Workers -> Labels] /\ loc \in [Workers -> LocType]
      /\ pc[w] \in {"flushEnd", "flushFailed"} /\ cache \in CacheType
  BY DEF UseInv, Typed, Locals, FlushEnd, At
<1>4. PICK d \in Entries : d = loc[w].it
  BY <1>3, LocFields DEF Typed, LocGood, WithIt, Ptr
<1>5. Does(w, d)
  BY <1>3, <1>4 DEF Does, Writing
<1>6. cache' = Terminated(d, pc[w] = "flushEnd")
  BY <1>3, <1>4 DEF FlushEnd
<1>7. /\ \A x \in Entries \ {d} : Alike(cache.ent[x], cache'.ent[x])
      /\ cache'.ent[d].refs = cache.ent[d].refs /\ cache'.ent[d].tag = cache.ent[d].tag
      /\ cache'.ent[d].locked = cache.ent[d].locked /\ ~cache'.ent[d].io
  BY <1>3, <1>6, TerminatedEntry
<1>8. CASE pc[w] = "flushEnd"
  <2>1. pc'[w] = "vacCheck" /\ loc' = loc /\ mapLatch' = mapLatch
    BY <1>3, <1>8 DEF FlushEnd, Go
  <2>2. d \in Entries \ hist'.torn => EntryOK(d)'
    BY <1>3, <2>1, <1>1, <1>2, <1>5, <1>7, EndIoKeeps DEF IsPin, IsVac, Flushing, Takers, Using,
       Reading, UseInv, Unmoved
  <2>. QED
    BY <1>1, <1>2, <1>3, <1>4, <1>7, <2>1, <2>2, VacateOne DEF Flushing
<1>9. CASE pc[w] = "flushFailed"
  <2>1. pc'[w] = "idle" /\ loc'[w] = NoOp
    BY <1>3, <1>9 DEF FlushEnd, Throw, Over, Go
  <2>2. loc'[w].ent = 0 /\ loc'[w].it = 0
    BY <2>1 DEF NoOp
  <2>3. Latched(w) /\ Grows /\ disk' \in Seq(Nat)
    BY <1>2, StillGrows
  <2>4. Role(w)'
    BY <2>1, <2>3, IdleRole
  <2>5. d \in Entries \ hist'.torn => EntryOK(d)'
    <3>1. ~IsPin(w, d)' /\ ~IsVac(w, d)'
      BY <2>2, PoolBounds DEF IsPin, IsVac
    <3>. QED
      BY <1>1, <1>2, <1>3, <1>5, <1>7, <2>1, <3>1, EndIoKeeps DEF UseInv, Unmoved
  <2>6. ASSUME NEW x \in Entries \ {d}
        PROVE  NoMore(w, x) /\ Alone(x) /\ Respects(w, x)
    BY <1>3, <1>4, <2>1, <2>2, PoolBounds, <1>2, <1>7, AlikeAlone DEF NoMore, IsPin, IsVac, IsTaker,
       Does, Creates, Reading, Unmoved, Using, Respects
  <2>. QED
    BY <1>1, <2>3, <2>4, <2>5, <2>6, OneKeeps DEF Onward
<1>. QED
  BY <1>3, <1>8, <1>9

\* The pins are counted
LEMMA VacateCheckUse ==
  ASSUME UseInv, Typed, NEW w \in Workers, VacateCheck(w)
  PROVE  UseInv'
<1>1. Others(w)
  BY VacateCheckEffect, Zenon DEF Effect, Moves, Others
<1>2. Still(w) /\ mapLatch' = mapLatch /\ Core(cache, cache')
  BY CoreSame DEF VacateCheck, Rest, data, Still
<1>3. Role(w) /\ pc \in [Workers -> Labels] /\ loc \in [Workers -> LocType] /\ pc[w] = "vacCheck"
  BY DEF UseInv, Typed, Locals, VacateCheck, At
<1>4. CASE It(w).refs # 1
  <2>1. pc'[w] = "vacScan" /\ loc' = [loc EXCEPT ![w].it = It(w).prev]
    BY <1>3, <1>4 DEF VacateCheck, Go
  <2>2. /\ loc'[w].op = loc[w].op /\ loc'[w].page = loc[w].page /\ loc'[w].ent = loc[w].ent
        /\ loc'[w].ret = loc[w].ret
    BY <1>3, <2>1 DEF LocType
  <2>3. pc'[w] \notin Empty /\ (loc'[w].ret = "evict" => loc[w].ent = 0)
    BY <1>3, <2>1, <2>2 DEF Empty, Role, Vacating
  <2>. QED
    BY <1>1, <1>2, <1>3, <2>1, <2>2, <2>3, PlainStep DEF Plain, Flushing, Writing
<1>5. CASE It(w).refs = 1
  <2>1. pc'[w] = "vacLock" /\ loc' = loc
    BY <1>3, <1>5 DEF VacateCheck, Go
  <2>. QED
    BY <1>1, <1>2, <1>3, <2>1, VacateStep
<1>. QED
  BY <1>4, <1>5

\* ... and counted again before the entry is locked
LEMMA VacateLockUse ==
  ASSUME UseInv, Typed, NEW w \in Workers, VacateLock(w)
  PROVE  UseInv'
<1>1. Others(w)
  BY VacateLockEffect, Zenon DEF Effect, Moves, Others
<1>2. Still(w) /\ mapLatch' = mapLatch /\ Unmoved
  BY DEF VacateLock, Rest, data, Still, Unmoved
<1>3. /\ Role(w) /\ pc \in [Workers -> Labels] /\ loc \in [Workers -> LocType] /\ pc[w] = "vacLock"
      /\ cache \in CacheType
  BY DEF UseInv, Typed, Locals, VacateLock, At
<1>4. CASE It(w).refs # 1
  <2>1. pc'[w] = "vacScan" /\ loc' = [loc EXCEPT ![w].it = It(w).prev] /\ cache' = cache
    BY <1>3, <1>4 DEF VacateLock, Go
  <2>2. /\ loc'[w].op = loc[w].op /\ loc'[w].page = loc[w].page /\ loc'[w].ent = loc[w].ent
        /\ loc'[w].ret = loc[w].ret
    BY <1>3, <2>1 DEF LocType
  <2>3. pc'[w] \notin Empty /\ (loc'[w].ret = "evict" => loc[w].ent = 0)
    BY <1>3, <2>1, <2>2 DEF Empty, Role, Vacating
  <2>. QED
    BY <1>1, <1>2, <1>3, <2>1, <2>2, <2>3, CoreSame, PlainStep DEF Plain, Flushing, Writing
<1>5. CASE It(w).refs = 1
  <2>1. pc'[w] = "ghostify" /\ loc' = loc /\ cache' = [cache EXCEPT !.ent[loc[w].it].locked = TRUE]
    BY <1>3, <1>5 DEF VacateLock, Go
  <2>2. PICK d \in Entries : d = loc[w].it
    BY <1>3, LocFields DEF Typed, LocGood, WithIt, Ptr
  <2>3. cache' = [cache EXCEPT !.ent[d] = [cache.ent[d] EXCEPT !.locked = TRUE]]
    BY <2>1, <2>2, Zenon
  <2>4. /\ cache'.ent[d] = [cache.ent[d] EXCEPT !.locked = TRUE]
        /\ \A x \in Entries \ {d} : Alike(cache.ent[x], cache'.ent[x])
    BY <1>3, <2>3, CoreRefl, OneEntry
  <2>5. d \in Entries \ hist'.torn => EntryOK(d)'
    <3>1. /\ cache'.ent[d].refs = cache.ent[d].refs /\ cache'.ent[d].locked
          /\ cache'.ent[d].tag = cache.ent[d].tag /\ cache'.ent[d].io = cache.ent[d].io
          /\ cache'.ent[d].dirty = cache.ent[d].dirty /\ cache'.ent[d].valid = cache.ent[d].valid
      BY <1>3, EntryFields, <2>4 DEF EntryType
    <3>2. Alone(d)
      BY <1>2, <3>1, Zenon DEF Alone, Unmoved
    <3>3. NoMore(w, d) /\ IsVac(w, d)
      BY <1>2, <1>3, <2>1, <2>2
      DEF NoMore, IsPin, IsVac, IsTaker, Does, Creates, Takers, Flushing, Reading, Writing, Inserting, Creating
    <3>4. cache.ent[d].refs = 1 /\ hist' = hist
      BY <1>2, <1>5, <2>2 DEF It, Unmoved
    <3>. QED
      BY <1>1, <1>3, <2>1, <3>1, <3>2, <3>3, <3>4, VacLockKeeps DEF UseInv
  <2>. QED
    BY <1>1, <1>2, <1>3, <2>1, <2>2, <2>4, <2>5, VacateOne DEF Flushing
<1>. QED
  BY <1>4, <1>5

\* The entry after it was made a ghost.
LEMMA GhostCore ==
  ASSUME cache \in CacheType, NEW e \in Entries, NEW b \in BOOLEAN, NEW l \in Lists,
         cache' = InsertMRU(GhostOf(Unpin(cache, e), e, b), l, e)
  PROVE  /\ \A x \in Entries \ {e} : Alike(cache.ent[x], cache'.ent[x])
         /\ cache.ent[e].refs # 0 => cache'.ent[e].refs = cache.ent[e].refs - 1
         /\ cache'.ent[e].tag = cache.ent[e].tag /\ cache'.ent[e].io = cache.ent[e].io
         /\ cache'.ent[e].dirty = cache.ent[e].dirty /\ cache'.ent[e].valid = cache.ent[e].valid
<1>1. PICK u \in CacheType : u = Unpin(cache, e)
  BY PinSame DEF Same
<1>2. /\ \A x \in Entries \ {e} : Alike(cache.ent[x], u.ent[x])
      /\ cache.ent[e].refs # 0 => u.ent[e].refs = cache.ent[e].refs - 1
      /\ u.ent[e].tag = cache.ent[e].tag /\ u.ent[e].io = cache.ent[e].io
      /\ u.ent[e].dirty = cache.ent[e].dirty /\ u.ent[e].valid = cache.ent[e].valid
  <2>1. CASE cache.ent[e].refs = 0
    BY <1>1, <2>1 DEF Unpin, CacheType, Alike
  <2>2. CASE cache.ent[e].refs # 0
    <3>. DEFINE r == [cache.ent[e] EXCEPT !.refs = @ - 1]
    <3>1. u = [cache EXCEPT !.ent[e] = r]
      BY <1>1, <2>2 DEF Unpin
    <3>2. /\ r.refs = cache.ent[e].refs - 1 /\ r.tag = cache.ent[e].tag /\ r.io = cache.ent[e].io
          /\ r.dirty = cache.ent[e].dirty /\ r.valid = cache.ent[e].valid
      BY EntryFields DEF EntryType
    <3>. HIDE DEF r
    <3>3. u.ent[e] = r /\ \A x \in Entries \ {e} : u.ent[x] = cache.ent[x]
      BY <3>1 DEF CacheType
    <3>. QED
      BY <3>2, <3>3 DEF Alike
  <2>. QED
    BY <2>1, <2>2
<1>3. PICK c \in CacheType : c = GhostOf(u, e, b)
  BY <1>1, GhostEntry
<1>4. /\ \A x \in Entries \ {e} : c.ent[x] = u.ent[x]
      /\ c.ent[e].refs = u.ent[e].refs /\ c.ent[e].tag = u.ent[e].tag /\ c.ent[e].io = u.ent[e].io
      /\ c.ent[e].dirty = u.ent[e].dirty /\ c.ent[e].valid = u.ent[e].valid
  <2>. DEFINE r == [u.ent[e] EXCEPT !.buf = 0, !.top = FALSE, !.freq = b, !.locked = FALSE]
  <2>1. c = [u EXCEPT !.ent[e] = r]
    BY <1>3 DEF GhostOf
  <2>2. /\ r.refs = u.ent[e].refs /\ r.tag = u.ent[e].tag /\ r.io = u.ent[e].io
        /\ r.dirty = u.ent[e].dirty /\ r.valid = u.ent[e].valid
    BY EntryFields DEF EntryType
  <2>. HIDE DEF r
  <2>3. c.ent[e] = r /\ \A x \in Entries \ {e} : c.ent[x] = u.ent[x]
    BY <2>1 DEF CacheType
  <2>. QED
    BY <2>2, <2>3
<1>5. PICK f : f = cache'
  OBVIOUS
<1>6. Core(c, f)
  BY <1>1, <1>3, <1>5, InsertCore
<1>. QED
  BY <1>2, <1>4, <1>5, <1>6 DEF Core, Alike

\* tryVacateEntry gives up the buffer of the entry
LEMMA GhostifyUse ==
  ASSUME UseInv, Typed, NEW w \in Workers, Ghostify(w)
  PROVE  UseInv'
<1>2. map' = map /\ disk' = disk /\ mapLatch' = mapLatch
  BY DEF Ghostify
<1>3. /\ Role(w) /\ pc \in [Workers -> Labels] /\ loc \in [Workers -> LocType] /\ pc[w] = "ghostify"
      /\ cache \in CacheType /\ hist \in HistType
  BY DEF UseInv, Typed, Locals, StoreTypes, Ghostify, At
<1>4. pc' = [pc EXCEPT ![w] = "addFree"] /\ loc' = [loc EXCEPT ![w].buf = It(w).buf]
  BY DEF Ghostify, Go
<1>5. Others(w)
  BY <1>3, <1>4 DEF Others
<1>6. /\ loc'[w].op = loc[w].op /\ loc'[w].page = loc[w].page /\ loc'[w].ent = loc[w].ent
      /\ loc'[w].ret = loc[w].ret /\ loc'[w].it = loc[w].it /\ pc'[w] = "addFree"
  BY <1>3, <1>4 DEF LocType
<1>7. hist'.raced = hist.raced /\ hist'.torn = hist.torn
  BY <1>3 DEF Ghostify, HistType
<1>8. Latched(w) /\ Grows /\ disk' \in Seq(Nat) /\ Still(w)
  BY <1>2, <1>7, StillGrows DEF Still
<1>9. Role(w)'
  BY <1>3, <1>2, <1>6, <1>7 DEF Role, Vacating, Takers, Creating, Inserting, Reading, Empty
<1>10. PICK d \in Entries : d = loc[w].it
  BY <1>3, LocFields DEF Typed, LocGood, WithIt, Ptr
<1>11. /\ \A x \in Entries \ {d} : Alike(cache.ent[x], cache'.ent[x])
       /\ cache.ent[d].refs # 0 => cache'.ent[d].refs = cache.ent[d].refs - 1
       /\ cache'.ent[d].tag = cache.ent[d].tag /\ cache'.ent[d].io = cache.ent[d].io
       /\ cache'.ent[d].dirty = cache.ent[d].dirty /\ cache'.ent[d].valid = cache.ent[d].valid
  <2>1. PICK b \in BOOLEAN : b = (loc[w].list = "T2")
    OBVIOUS
  <2>2. cache' = InsertMRU(GhostOf(Unpin(cache, d), d, b), GhostList(w), d)
    BY <1>10, <2>1, Zenon DEF Ghostify, GhostOf
  <2>3. GhostList(w) \in Lists
    BY DEF GhostList, Lists
  <2>. QED
    BY <1>3, <2>2, <2>3, GhostCore
<1>12. \A x \in Entries : NoMore(w, x)
  BY <1>3, <1>6, <1>7
  DEF NoMore, IsPin, IsVac, IsTaker, Does, Creates, Takers, Flushing, Reading, Writing, Inserting, Creating
<1>13. d \in Entries \ hist'.torn => EntryOK(d)'
  <2>. SUFFICES ASSUME d \notin hist'.torn PROVE EntryOK(d)'
    OBVIOUS
  <2>1. EntryOK(d)
    BY <1>7 DEF UseInv
  <2>2. IsVac(w, d) /\ ~IsVac(w, d)'
    BY <1>3, <1>6, <1>10 DEF IsVac, Flushing
  <2>3. cache.ent[d].refs # 0
    BY <1>3, <2>1, <2>2, PinPositive DEF EntryOK
  <2>4. Alone(d)
    BY <1>2, <1>7, <1>11, Zenon DEF Alone
  <2>. QED
    BY <1>3, <1>5, <1>11, <1>12, <2>1, <2>2, <2>3, <2>4, GhostKeeps
<1>14. ASSUME NEW x \in Entries \ {d}
       PROVE  Alone(x) /\ Respects(w, x)
  BY <1>2, <1>7, <1>11, AlikeAlone, <1>6 DEF Using, Reading, Respects
<1>. QED
  BY <1>5, <1>8, <1>9, <1>12, <1>13, <1>14, OneKeeps DEF Onward

\* LinkedList::Add
LEMMA AddFreeUse ==
  ASSUME UseInv, Typed, NEW w \in Workers, AddFree(w)
  PROVE  UseInv'
<1>2. map' = map /\ disk' = disk /\ mapLatch' = mapLatch /\ hist' = hist /\ Still(w)
  BY DEF AddFree, Rest, data, Still
<1>3. Role(w) /\ pc \in [Workers -> Labels] /\ loc \in [Workers -> LocType] /\ pc[w] = "addFree"
  BY DEF UseInv, Typed, Locals, AddFree, At
<1>4. CASE loc[w].buf = 0
  BY <1>2, <1>4, FaultUse DEF AddFree
<1>5. CASE loc[w].buf # 0
  <2>1. /\ pc' = [pc EXCEPT ![w] = loc[w].ret] /\ cache' = cache
        /\ loc' = [loc EXCEPT ![w] = [Kept(w) EXCEPT !.fq = loc[w].fq]]
    BY <1>5 DEF AddFree, Go
  <2>2. Others(w) /\ pc'[w] = loc[w].ret
    BY <1>3, <2>1 DEF Others
  <2>3. /\ Kept(w) \in LocType /\ Kept(w).op = loc[w].op /\ Kept(w).page = loc[w].page
        /\ Kept(w).ent = loc[w].ent
    BY KeptType DEF Typed
  <2>4. loc'[w].op = loc[w].op /\ loc'[w].page = loc[w].page /\ loc'[w].ent = loc[w].ent
    BY <1>3, <2>1, <2>3 DEF LocType
  <2>5. /\ loc[w].ret = "evict" => loc[w].ent = 0
        /\ loc[w].ret \in {"evict", "ghostMove"}
    BY <1>3 DEF Role, Vacating, LocType
  <2>6. pc'[w] \in Empty \/ pc'[w] \in Vacating \ {"ghostMove"} => loc[w].ent = 0
    BY <2>2, <2>5 DEF Empty, Vacating
  <2>. QED
    BY <1>2, <1>3, <2>1, <2>2, <2>4, <2>5, <2>6, CoreSame, PlainStep DEF Plain
<1>. QED
  BY <1>4, <1>5

\* RemoveEntry throws: the entry stays locked.
LEMMA LockThrows ==
  ASSUME UseInv, Typed, NEW w \in Workers, Others(w), Still(w), NEW d \in Entries,
         cache' = [cache EXCEPT !.ent[d].locked = TRUE],
         pc[w] \notin Reading \cup Writing, pc'[w] = "idle", loc'[w] = NoOp
  PROVE  UseInv'
<1>1. Latched(w) /\ Grows /\ disk' \in Seq(Nat)
  BY StillGrows
<1>2. Onward(w)
  BY <1>1, IdleRole DEF Onward
<1>3. loc'[w].ent = 0 /\ pc'[w] \in Plain
  BY DEF NoOp, Plain
<1>4. \A x \in Entries : NoMore(w, x) /\ pc'[w] # "ghostify" /\ pc'[w] \notin Using
  BY <1>3, PlainMove
<1>5. cache' = [cache EXCEPT !.ent[d] = [cache.ent[d] EXCEPT !.locked = TRUE]] /\ cache \in CacheType
  BY Zenon DEF Typed
<1>6. /\ cache'.ent[d] = [cache.ent[d] EXCEPT !.locked = TRUE]
      /\ \A x \in Entries \ {d} : Alike(cache.ent[x], cache'.ent[x])
  BY <1>5, CoreRefl, OneEntry
<1>7. /\ cache'.ent[d].refs = cache.ent[d].refs /\ cache'.ent[d].locked
      /\ cache'.ent[d].tag = cache.ent[d].tag /\ cache'.ent[d].io = cache.ent[d].io
      /\ cache'.ent[d].dirty = cache.ent[d].dirty /\ cache'.ent[d].valid = cache.ent[d].valid
  <2>1. cache.ent[d] \in EntryType
    BY <1>5, EntryFields
  <2>. QED
    BY <1>6, <2>1 DEF EntryType
<1>8. ASSUME NEW x \in Entries PROVE Alone(x) /\ Respects(w, x)
  <2>1. CASE x = d
    BY <1>1, <1>4, <1>7, <2>1, Zenon DEF Alone, Respects, Still
  <2>2. CASE x # d
    BY <1>6, <2>2, AlikeAlone, <1>4 DEF Still, Respects
  <2>. QED
    BY <2>1, <2>2
<1>. QED
  BY <1>1, <1>2, <1>4, <1>8, AllAlone

\* A worker takes an entry that nobody has pinned.
LEMMA TakeUse ==
  ASSUME UseInv, Typed, NEW w \in Workers, Others(w), Latched(w), Grows, disk' = disk,
         NEW d \in Entries, cache.ent[d].refs = 0, Core(cache, cache'),
         pc[w] \in {"popScan", "evictScan"}, pc'[w] = "tearDown",
         loc'[w].op = loc[w].op, loc'[w].page = loc[w].page, loc'[w].ent = d,
         \A x \in Entries \ hist'.torn : x # d => (NoMore(w, x) => Alone(x)),
         d \notin hist'.torn => (\A p \in Pages : map'[p] # d) /\ \A v \in Workers \ {w} : ~IsTaker(v, d)
  PROVE  UseInv'
<1>1. Role(w) /\ loc[w].ent = 0 /\ disk' \in Seq(Nat) /\ cache \in CacheType
  BY DEF UseInv, Role, Empty, Typed, StoreTypes
<1>2. Role(w)'
  BY <1>1 DEF Role, Inserting, Empty, Vacating, Takers
<1>3. \A x \in Entries : x # d => NoMore(w, x) /\ Respects(w, x)
  <2>1. \A x \in Entries : x # d => NoMore(w, x)
    BY <1>1, PoolBounds DEF NoMore, IsPin, IsVac, IsTaker, Does, Creates, Flushing, Writing, Reading
  <2>2. pc'[w] \notin Using /\ pc'[w] # "ghostify"
    BY DEF Using, Reading
  <2>. QED
    BY <2>1, <2>2, Zenon DEF Respects, Core, Alike
<1>4. ASSUME d \notin hist'.torn PROVE EntryOK(d)'
  BY <1>4, <1>1, TakeKeeps DEF UseInv, Grows, Core, Takers, Alike
<1>5. \A x \in Entries \ (hist'.torn \cup {d}) : NoMore(w, x) /\ Alone(x) /\ Respects(w, x)
  BY <1>3
<1>. QED
  BY <1>1, <1>2, <1>4, <1>5, OneKeeps DEF Onward

\* PopTail
LEMMA PopTailUse ==
  ASSUME UseInv, Typed, NEW w \in Workers, PopTail(w)
  PROVE  UseInv'
<1>. DEFINE e == loc[w].it
<1>1. Others(w)
  BY PopTailEffect, Zenon DEF Effect, Moves, Others
<1>2. map' = map /\ disk' = disk
  BY DEF PopTail
<1>3. /\ Role(w) /\ pc \in [Workers -> Labels] /\ loc \in [Workers -> LocType] /\ pc[w] = "popScan"
      /\ cache \in CacheType
  BY DEF UseInv, Typed, Locals, PopTail, At
<1>4. /\ loc[w].ent = 0 /\ e \in Ptr
      /\ Kept(w) \in LocType /\ Kept(w).op = loc[w].op /\ Kept(w).page = loc[w].page
      /\ Kept(w).ent = loc[w].ent
  BY <1>3, KeptType DEF Role, Empty, LocType, Typed
<1>5. CASE e = 0
  BY <1>2, <1>3, <1>5, <1>4, <1>1, CoreSame, PlainStep DEF PopTail, Go, Still, LocType, Plain
<1>6. CASE e # 0 /\ It(w).refs # 0
  BY <1>2, <1>6, <1>3, <1>1, <1>4, CoreSame, PlainStep DEF PopTail, Still, latches, LocType, Plain
<1>7. CASE e # 0 /\ It(w).refs = 0 /\ ~CanRemove(cache, "Free")
  BY <1>7, <1>2, <1>3, <1>4, <1>1, LockThrows DEF PopTail, Still, Throw, Over, Go, Ptr, Reading, Writing
<1>8. CASE e # 0 /\ It(w).refs = 0 /\ CanRemove(cache, "Free")
  <2>1. /\ cache' = Popped(cache, e) /\ loc' = [loc EXCEPT ![w] = [Kept(w) EXCEPT !.ent = e]]
        /\ pc' = [pc EXCEPT ![w] = "tearDown"] /\ mapLatch' = mapLatch
        /\ hist' = Hurt(IF \E p \in Pages : map[p] = e THEN {e} ELSE TakenTwice(w, e))
    BY <1>8, Zenon DEF PopTail, Go, latches
  <2>2. PICK d \in Entries : d = e
    BY <1>4, <1>8 DEF Ptr
  <2>3. PICK es \in SUBSET Entries : es = IF \E p \in Pages : map[p] = d THEN {d} ELSE TakenTwice(w, d)
    BY TwiceTyped
  <2>4. hist'.raced = hist.raced /\ hist'.torn = hist.torn \cup es
    <3>1. hist' = Hurt(es)
      BY <2>1, <2>2, <2>3, Zenon
    <3>. QED
      BY <1>3, <3>1, HurtFields DEF Typed
  <2>5. Core(cache, cache') /\ cache.ent[d].refs = 0
    BY <1>3, <1>8, <2>1, <2>2, PoppedCore DEF It
  <2>6. /\ pc'[w] = "tearDown" /\ loc'[w].op = loc[w].op /\ loc'[w].page = loc[w].page
        /\ loc'[w].ent = d
    BY <1>3, <1>4, <2>1, <2>2 DEF LocType
  <2>7. Latched(w) /\ Grows
    <3>1. Len(disk) \in Nat
      BY LenProperties DEF Typed, StoreTypes
    <3>2. Grows
      BY <1>2, <2>4, <3>1 DEF Grows
    <3>. QED
      BY <1>2, <2>1, <3>2, Zenon DEF Latched
  <2>8. \A x \in Entries : Alone(x)
    BY <1>2, <2>4, <2>5, AlikeAlone DEF Core
  <2>9. d \notin hist'.torn => (\A p \in Pages : map'[p] # d) /\ \A v \in Workers \ {w} : ~IsTaker(v, d)
    BY <1>2, <2>3, <2>4 DEF TakenTwice, IsTaker, Takers
  <2>. QED
    BY <1>1, <1>2, <1>3, <2>5, <2>6, <2>7, <2>8, <2>9, TakeUse
<1>. QED
  BY <1>5, <1>6, <1>7, <1>8

\* evictCacheEntry on B1 and B2
LEMMA EvictScanUse ==
  ASSUME UseInv, Typed, NEW w \in Workers, EvictScan(w)
  PROVE  UseInv'
<1>. DEFINE e == loc[w].it
            t == It(w).tag
            l == loc[w].list
<1>1. Others(w)
  BY EvictScanEffect, Zenon DEF Effect, Moves, Others
<1>2. disk' = disk
  BY DEF EvictScan
<1>3. /\ Role(w) /\ pc \in [Workers -> Labels] /\ loc \in [Workers -> LocType] /\ pc[w] = "evictScan"
      /\ cache \in CacheType
  BY DEF UseInv, Typed, Locals, EvictScan, At
<1>4. /\ loc[w].ent = 0 /\ e \in Ptr /\ l \in Lists
      /\ Kept(w) \in LocType /\ Kept(w).op = loc[w].op /\ Kept(w).page = loc[w].page
      /\ Kept(w).ent = loc[w].ent
  BY <1>3, KeptType DEF Role, Empty, LocType, Typed
<1>5. CASE e = 0
  <2>1. map' = map /\ cache' = cache /\ hist' = hist /\ mapLatch' = mapLatch
    BY <1>5, Zenon DEF EvictScan
  <2>2. Still(w) /\ Core(cache, cache')
    BY <1>2, <2>1, CoreSame DEF Still
  <2>3. CASE l = "B1"
    BY <1>3, <1>5, <2>3, <1>1, <1>4, <2>2, PlainStep DEF EvictScan, Go, LocType, Plain
  <2>4. CASE l # "B1"
    <3>1. pc'[w] = "setup" /\ loc' = [loc EXCEPT ![w] = Kept(w)]
      BY <1>3, <1>5, <2>4 DEF EvictScan, Go
    <3>2. loc'[w].op = loc[w].op /\ loc'[w].page = loc[w].page /\ loc'[w].ent = 0
      BY <1>3, <1>4, <3>1 DEF LocType
    <3>3. Latched(w) /\ Grows /\ disk' \in Seq(Nat)
      BY <2>2, StillGrows
    <3>4. Role(w)'
      BY <1>2, <1>3, <2>1, <3>1, <3>2 DEF Role, Inserting, Vacating, Empty, Takers
    <3>5. \A x \in Entries : NoMore(w, x) /\ Respects(w, x)
      BY PoolBounds, <1>3, <3>1, <3>2, <2>1 DEF Flushing, Reading, Writing, NoMore, IsPin, IsVac,
         IsTaker, Does, Creates, Respects
    <3>6. \A x \in Entries : Alone(x)
      BY <1>2, <2>1, <2>2, AlikeAlone DEF Core
    <3>. QED
      BY <1>1, <3>3, <3>4, <3>5, <3>6, AllAlone DEF Onward
  <2>. QED
    BY <2>3, <2>4
<1>6. CASE e # 0 /\ It(w).refs # 0
  BY <1>2, <1>6, <1>3, <1>1, <1>4, CoreSame, PlainStep DEF EvictScan, Still, latches, LocType, Plain
<1>7. CASE e # 0 /\ It(w).refs = 0 /\ ~(Mapped(t) /\ CanRemove(cache, l))
  <2>1. /\ map' = Unmap(t) /\ hist' = Forgotten(e, {}) /\ Throw(w) /\ cache' = cache /\ PartitionFree(t)
    BY <1>7, Zenon DEF EvictScan
  <2>2. e \in Entries /\ pc'[w] = "idle" /\ loc'[w] = NoOp /\ mapLatch' = DropAll(mapLatch, w)
    BY <1>3, <1>4, <1>7, <2>1 DEF Ptr, Throw, Over, Go
  <2>3. /\ hist'.raced = hist.raced /\ hist.torn \subseteq hist'.torn
        /\ Mapped(t) => {map[t]} \ {e} \subseteq hist'.torn
    BY <2>1, <2>2, ForgottenTears DEF It
  <2>4. Latched(w) /\ Grows /\ disk' \in Seq(Nat)
    BY <1>2, <2>1, <2>2, <2>3, UnmapLatched
  <2>5. Role(w)'
    BY <2>2, <2>4, IdleRole
  <2>6. \A x \in Entries : NoMore(w, x) /\ pc'[w] # "ghostify" /\ pc'[w] \notin Using
    <3>1. loc'[w].ent = 0
      BY <2>2 DEF NoOp
    <3>. QED
      BY <1>3, <2>2, <3>1, PlainMove DEF Plain, Reading, Writing
  <2>7. \A x \in Entries \ hist'.torn : Alone(x)
    BY <1>1, <1>2, <1>7, <2>1, <2>2, <2>3, <2>6, CoreSame, UnmapAlone DEF It, Core
  <2>8. \A x \in Entries \ hist'.torn : NoMore(w, x) /\ Alone(x) /\ Respects(w, x)
    BY <2>1, <2>6, <2>7, Zenon DEF Respects
  <2>. QED
    BY <1>1, <2>4, <2>5, <2>8, AllAlone DEF Onward
<1>8. CASE e # 0 /\ It(w).refs = 0 /\ Mapped(t) /\ CanRemove(cache, l)
  <2>1. /\ map' = Unmap(t) /\ hist' = Forgotten(e, TakenTwice(w, e)) /\ PartitionFree(t)
        /\ cache' = RemoveEntry(cache, l, e) /\ mapLatch' = mapLatch
        /\ loc' = [loc EXCEPT ![w] = [Kept(w) EXCEPT !.ent = e]] /\ pc' = [pc EXCEPT ![w] = "tearDown"]
    BY <1>8, Zenon DEF EvictScan, Go
  <2>2. PICK d \in Entries : d = e
    BY <1>4, <1>8 DEF Ptr
  <2>3. /\ hist'.raced = hist.raced /\ hist.torn \subseteq hist'.torn
        /\ TakenTwice(w, d) \subseteq hist'.torn /\ {map[t]} \ {d} \subseteq hist'.torn
    BY <1>3, <1>8, <2>1, <2>2, TwiceTyped, ForgottenTears DEF It
  <2>4. Latched(w) /\ Grows /\ disk' \in Seq(Nat)
    BY <1>2, <2>1, <2>3, UnmapLatched
  <2>5. Core(cache, cache') /\ cache.ent[d].refs = 0 /\ cache.ent[d].tag = t
    BY <1>3, <1>4, <1>8, <2>1, <2>2, RemoveCore DEF It
  <2>6. /\ pc'[w] = "tearDown" /\ loc'[w].op = loc[w].op /\ loc'[w].page = loc[w].page
        /\ loc'[w].ent = d
    BY <1>3, <1>4, <2>1, <2>2 DEF LocType
  <2>7. \A x \in Entries \ hist'.torn : NoMore(w, x) => Alone(x)
    BY <1>1, <1>2, <2>1, <2>3, <2>5, UnmapAlone DEF Core
  <2>8. ASSUME d \notin hist'.torn
        PROVE  (\A p \in Pages : map'[p] # d) /\ \A v \in Workers \ {w} : ~IsTaker(v, d)
    BY <2>3, <2>5, <2>8, <2>1, PoolBounds DEF UseInv, EntryOK, MapOK, Unmap, TakenTwice, IsTaker, Takers
  <2>. QED
    BY <1>1, <1>2, <1>3, <2>4, <2>5, <2>6, <2>7, <2>8, TakeUse
<1>. QED
  BY <1>5, <1>6, <1>7, <1>8

\* The entry of a worker that has taken it is cleared.
LEMMA ClearUse ==
  ASSUME UseInv, Typed, NEW w \in Workers, Others(w), map' = map, disk' = disk, mapLatch' = mapLatch,
         NEW e \in Entries, loc' = loc, loc[w].ent = e, pc[w] \in Takers, pc'[w] \in {"setup", "insert"},
         hist'.raced = hist.raced, hist'.torn = hist.torn \cup (IF cache.ent[e].refs = 0 THEN {} ELSE {e}),
         \A x \in Entries \ {e} : Alike(cache.ent[x], cache'.ent[x]),
         cache'.ent[e].refs = 0, ~cache'.ent[e].valid, ~cache'.ent[e].dirty, ~cache'.ent[e].io
  PROVE  UseInv'
<1>1. Grows /\ Latched(w) /\ disk' \in Seq(Nat)
  BY LenProperties DEF Typed, StoreTypes, Grows, Latched
<1>2. Role(w)'
  <2>1. Role(w) /\ e # 0
    BY PoolBounds DEF UseInv
  <2>. QED
    BY <2>1 DEF Role, Inserting, Vacating, Empty, Takers
<1>3. \A x \in Entries : x # e => NoMore(w, x) /\ Respects(w, x)
  BY DEF Flushing, Writing, Takers, NoMore, IsPin, IsVac, IsTaker, Does, Creates, Respects, Alike
<1>4. \A x \in Entries : x # e => Alone(x)
  BY AlikeAlone
<1>5. ASSUME e \notin hist'.torn PROVE EntryOK(e)'
  BY <1>5, TakeKeeps DEF UseInv, IsTaker, EntryOK, TakenOK, Takers, Typed
<1>. QED
  BY <1>1, <1>2, <1>3, <1>4, <1>5, OneKeeps DEF Onward

LEMMA TornUse ==
  ASSUME Typed, NEW w \in Workers, NEW e \in Entries, loc[w].ent = e, NEW t
  PROVE  LET h == Blemished(Torn(w), e, t) IN
         /\ Torn(w).raced = hist.raced
         /\ Torn(w).torn = hist.torn \cup (IF cache.ent[e].refs = 0 THEN {} ELSE {e})
         /\ h.raced = Torn(w).raced /\ h.torn = Torn(w).torn
<1>1. PICK es \in SUBSET Entries : es = IF cache.ent[e].refs = 0 THEN {} ELSE {e}
  OBVIOUS
<1>2. Torn(w) = Hurt(es)
  BY <1>1, Zenon DEF Torn, Ent
<1>3. Torn(w) \in HistType /\ Torn(w).raced = hist.raced /\ Torn(w).torn = hist.torn \cup es
  BY <1>2, HurtFields DEF Typed
<1>4. PICK g \in HistType : g = Torn(w)
  BY <1>3
<1>5. Blemished(g, e, t).raced = g.raced /\ Blemished(g, e, t).torn = g.torn
  BY DEF Blemished, HistType
<1>. QED
  BY <1>1, <1>3, <1>4, <1>5, Zenon

LEMMA ClearEntryUse ==
  ASSUME UseInv, Typed, NEW w \in Workers, ClearEntry(w)
  PROVE  UseInv'
<1>1. Others(w)
  BY ClearEntryEffect, Zenon DEF Effect, Moves, Others
<1>2. pc \in [Workers -> Labels] /\ pc[w] = "tearDown" /\ cache \in CacheType /\ loc[w].ent \in Entries
  BY LocFields DEF Typed, Locals, ClearEntry, At, LocGood, Ptr
<1>3. PICK e \in Entries : e = loc[w].ent
  BY <1>2
<1>4. /\ map' = map /\ disk' = disk /\ mapLatch' = mapLatch /\ loc' = loc /\ pc'[w] = "setup"
      /\ hist' = Torn(w) /\ cache' = TearDown(cache, e)
  BY <1>2, <1>3 DEF ClearEntry, Go
<1>5. /\ hist'.raced = hist.raced
      /\ hist'.torn = hist.torn \cup (IF cache.ent[e].refs = 0 THEN {} ELSE {e})
  BY <1>3, <1>4, TornUse, Zenon
<1>6. PICK r : r = [NewEntry EXCEPT !.tag = cache.ent[e].tag, !.buf = cache.ent[e].buf,
                                    !.prev = cache.ent[e].prev, !.next = cache.ent[e].next]
  OBVIOUS
<1>7. cache' = [cache EXCEPT !.ent[e] = r]
  BY <1>4, <1>6, Zenon DEF TearDown
<1>8. cache'.ent[e] = r /\ \A x \in Entries \ {e} : Alike(cache.ent[x], cache'.ent[x])
  BY <1>2, <1>7, CoreRefl, OneEntry
<1>9. r.refs = 0 /\ ~r.valid /\ ~r.dirty /\ ~r.io
  BY <1>6 DEF NewEntry
<1>. QED
  BY <1>1, <1>2, <1>3, <1>4, <1>5, <1>8, <1>9, ClearUse DEF Takers

\* GetBuffer: the entry is prepared, or there is none.
LEMMA PrepareEntryUse ==
  ASSUME UseInv, Typed, NEW w \in Workers, PrepareEntry(w)
  PROVE  UseInv'
<1>1. Others(w)
  BY PrepareEntryEffect, Zenon DEF Effect, Moves, Others
<1>2. /\ Role(w) /\ pc \in [Workers -> Labels] /\ pc[w] = "setup" /\ cache \in CacheType /\ loc[w].ent \in Ptr
      /\ loc[w].op = "get"
  BY LocFields DEF Typed, Locals, PrepareEntry, At, UseInv
<1>3. map' = map /\ disk' = disk /\ mapLatch' = mapLatch /\ loc' = loc
  BY DEF PrepareEntry, latches
<1>4. CASE loc[w].ent = 0
  BY <1>2, <1>4, <1>3, StillGrows, CoreSame, <1>1, PlainKeeps DEF PrepareEntry, Go, Still, Role,
     Inserting, Onward, Plain, Reading, Writing
<1>5. CASE loc[w].ent # 0
  <2>1. PICK e \in Entries : e = loc[w].ent
    BY <1>2, <1>5 DEF Ptr
  <2>2. PICK t : t = loc[w].page
    OBVIOUS
  <2>3. PICK r : r = [NewEntry EXCEPT !.tag = cache.ent[e].tag, !.buf = cache.ent[e].buf,
                                      !.prev = cache.ent[e].prev, !.next = cache.ent[e].next]
    OBVIOUS
  <2>4. PICK c \in CacheType : c = TearDown(cache, e)
    BY <1>2, PinSame DEF Same
  <2>5. /\ pc'[w] = "insert" /\ hist' = Blemished(Torn(w), e, t)
        /\ cache' = [c EXCEPT !.ent[e] = [@ EXCEPT !.tag = t, !.tagValid = TRUE]]
    BY <1>2, <1>5, <2>1, <2>2, <2>4 DEF PrepareEntry, Go
  <2>6. /\ hist'.raced = hist.raced
        /\ hist'.torn = hist.torn \cup (IF cache.ent[e].refs = 0 THEN {} ELSE {e})
    BY <2>1, <2>5, TornUse, Zenon
  <2>7. c = [cache EXCEPT !.ent[e] = r]
    BY <2>3, <2>4, Zenon DEF TearDown
  <2>8. c.ent[e] = r /\ \A x \in Entries \ {e} : c.ent[x] = cache.ent[x]
    BY <1>2, <2>7 DEF CacheType
  <2>9. cache'.ent[e] = [r EXCEPT !.tag = t, !.tagValid = TRUE] /\ \A x \in Entries \ {e} : cache'.ent[x] = c.ent[x]
    BY <2>5, <2>8 DEF CacheType
  <2>10. cache'.ent[e].refs = 0 /\ ~cache'.ent[e].valid /\ ~cache'.ent[e].dirty /\ ~cache'.ent[e].io
    BY <2>3, <2>9 DEF NewEntry
  <2>11. \A x \in Entries \ {e} : Alike(cache.ent[x], cache'.ent[x])
    BY <2>8, <2>9 DEF Alike
  <2>. QED
    BY <1>1, <1>2, <1>3, <2>1, <2>5, <2>6, <2>10, <2>11, ClearUse DEF Takers
<1>. QED
  BY <1>4, <1>5

\* ExtendRelation: the pages of the file are counted.
LEMMA CountPagesUse ==
  ASSUME UseInv, Typed, NEW w \in Workers, CountPages(w)
  PROVE  UseInv'
<1>1. Others(w)
  BY CountPagesEffect, Zenon DEF Effect, Moves, Others
<1>2. /\ Role(w) /\ pc \in [Workers -> Labels] /\ loc \in [Workers -> LocType] /\ pc[w] = "setup"
      /\ loc[w].op = "extend"
  BY DEF Typed, Locals, CountPages, At, UseInv
<1>3. map' = map /\ disk' = disk /\ hist' = hist /\ cache' = cache
  BY DEF CountPages, Rest, data
<1>4. CASE loc[w].ent = 0
  <2>1. Throw(w)
    BY <1>4 DEF CountPages
  <2>2. Still(w) /\ pc'[w] = "idle" /\ loc'[w] = NoOp
    BY <1>2, <1>3, <2>1 DEF Still, Throw, Over, Go
  <2>. QED
    BY <1>1, <1>2, <1>3, <2>2, CoreSame, Throws DEF Reading, Writing
<1>5. CASE loc[w].ent # 0
  <2>1. pc'[w] = "insert" /\ loc' = [loc EXCEPT ![w].page = Len(disk) + 1] /\ mapLatch' = mapLatch
    BY <1>2, <1>5 DEF CountPages, Go, latches
  <2>2. Still(w)
    BY <1>3, <2>1 DEF Still
  <2>3. Latched(w) /\ Grows /\ disk' \in Seq(Nat)
    BY <2>2, StillGrows
  <2>4. /\ loc'[w].op = "extend" /\ loc'[w].ent = loc[w].ent /\ loc'[w].page = Len(disk) + 1
        /\ loc'[w].it = loc[w].it
    BY <1>2, <2>1 DEF LocType
  <2>5. Len(disk) \in Nat
    BY <1>3, <2>3, LenProperties
  <2>6. Role(w)'
    BY <1>3, <2>1, <2>4, <2>5 DEF Role, Inserting, Vacating, Empty, Takers
  <2>7. \A x \in Entries : NoMore(w, x) /\ Respects(w, x)
    BY <1>2, <2>1, <2>4, <1>3 DEF Takers, Flushing, Reading, Writing, Inserting, Creating, Using,
       NoMore, IsPin, IsVac, IsTaker, Does, Creates, Respects
  <2>8. \A x \in Entries : Alone(x)
    BY <1>3, CoreSame, AlikeAlone DEF Core
  <2>. QED
    BY <1>1, <2>3, <2>6, <2>7, <2>8, AllAlone DEF Onward
<1>. QED
  BY <1>4, <1>5

\* A worker pins an entry of the page table.
LEMMA PinUse ==
  ASSUME UseInv, Typed, NEW w \in Workers, Others(w), Latched(w), Grows, Role(w)', map' = map, disk' = disk,
         NEW e \in Entries, cache' = Pin(cache, e), NEW t \in Pages, map[t] = e, mapLatch[t] = NoWorker,
         t <= Len(disk) \/ t \in hist'.raced, loc'[w].ent = e, loc'[w].page = t,
         pc[w] \in {"lookup", "again", "insert"}, pc'[w] \in {"hit", "giveBack"}
  PROVE  UseInv'
<1>1. cache \in CacheType /\ disk \in Seq(Nat) /\ (\A v \in Workers : Role(v)) /\ hist.raced \subseteq hist'.raced
  BY DEF Typed, StoreTypes, UseInv, Grows
<1>2. PICK r : r = [cache.ent[e] EXCEPT !.refs = @ + 1]
  OBVIOUS
<1>3. cache' = [cache EXCEPT !.ent[e] = r]
  BY <1>2, Zenon DEF Pin
<1>4. cache'.ent[e] = r /\ \A x \in Entries \ {e} : Alike(cache.ent[x], cache'.ent[x])
  BY <1>1, <1>3, CoreRefl, OneEntry
<1>5. ASSUME e \notin hist'.torn PROVE EntryOK(e)'
  <2>1. EntryOK(e)
    BY <1>5 DEF UseInv, Grows
  <2>. QED
    BY <1>1, <1>2, <1>4, <2>1, PinKeeps
<1>6. \A x \in Entries : x # e => NoMore(w, x) /\ Respects(w, x)
  BY <1>4 DEF Takers, Flushing, Reading, Writing, Using, NoMore, IsPin, IsVac, IsTaker, Does, Creates,
     Respects, Alike
<1>7. \A x \in Entries : x # e => Alone(x)
  BY <1>1, <1>4, AlikeAlone
<1>. QED
  BY <1>1, <1>5, <1>6, <1>7, OneKeeps DEF Onward

\* GetBuffer
LEMMA LookupUse ==
  ASSUME UseInv, Typed, NEW w \in Workers, Lookup(w)
  PROVE  UseInv'
<1>1. Others(w)
  BY LookupEffect, Zenon DEF Effect, Moves, Others
<1>2. /\ Role(w) /\ pc \in [Workers -> Labels] /\ loc \in [Workers -> LocType]
      /\ pc[w] \in {"lookup", "again"} /\ map \in [Pages -> Ptr]
      /\ mapLatch \in [Pages -> Workers \cup {NoWorker}]
  BY DEF Typed, Locals, Lookup, At, UseInv, StoreTypes, LatchTypes
<1>3. map' = map /\ disk' = disk /\ hist' = hist
  BY DEF Lookup, Rest, data
<1>4. PICK t \in Pages : t = loc[w].page
  BY <1>2, LocFields DEF Typed, LocGood, Locals
<1>5. mapLatch[t] = NoWorker /\ loc[w].op = "get" /\ t <= Len(disk) /\ loc[w].ent = 0
  BY <1>2, <1>4 DEF Lookup, Unheld, Role, Empty
<1>6. CASE map[t] # 0
  <2>1. /\ cache' = Pin(cache, map[t]) /\ loc' = [loc EXCEPT ![w].ent = map[t]]
        /\ mapLatch' = IF pc[w] = "again" THEN Take(mapLatch, t, w) ELSE mapLatch
        /\ pc' = [pc EXCEPT ![w] = "hit"]
    BY <1>4, <1>6, Zenon DEF Lookup, Go
  <2>2. PICK e \in Entries : e = map[t]
    BY <1>2, <1>6 DEF Ptr
  <2>3. loc'[w].op = "get" /\ loc'[w].page = t /\ loc'[w].ent = e /\ pc'[w] = "hit"
    BY <1>2, <1>4, <1>5, <2>1, <2>2 DEF LocType
  <2>4. Grows
    BY <1>3, LenProperties DEF Grows, Typed, StoreTypes
  <2>5. Latched(w)
    BY <1>2, <1>3, <1>5, <2>1 DEF Latched, Take
  <2>6. Role(w)'
    BY <1>2, <1>3, <1>4, <1>5, <2>3 DEF Role, Inserting, Vacating, Empty
  <2>. QED
    BY <1>1, <1>2, <1>3, <1>5, <2>1, <2>2, <2>3, <2>4, <2>5, <2>6, PinUse
<1>7. CASE map[t] = 0 /\ pc[w] = "lookup"
  BY <1>4, <1>7, <1>2, <1>3, CoreSame, <1>1, <1>5, PlainStep DEF Lookup, Go, latches, Still, Plain
<1>8. CASE map[t] = 0 /\ pc[w] = "again"
  <2>1. Throw(w) /\ cache' = cache
    BY <1>4, <1>8 DEF Lookup
  <2>2. Still(w) /\ pc'[w] = "idle" /\ loc'[w] = NoOp
    BY <1>2, <1>3, <2>1 DEF Still, Throw, Over, Go
  <2>. QED
    BY <1>1, <1>2, <2>1, <2>2, CoreSame, Throws DEF Reading, Writing
<1>. QED
  BY <1>2, <1>6, <1>7, <1>8

\* The new entry enters the page table, or another one has been there first.
LEMMA InsertEntryUse ==
  ASSUME UseInv, Typed, NEW w \in Workers, InsertEntry(w)
  PROVE  UseInv'
<1>. DEFINE get == loc[w].op = "get"
<1>1. Others(w)
  BY InsertEntryEffect, Zenon DEF Effect, Moves, Others
<1>2. /\ Role(w) /\ pc \in [Workers -> Labels] /\ loc \in [Workers -> LocType] /\ pc[w] = "insert"
      /\ map \in [Pages -> Ptr] /\ mapLatch \in [Pages -> Workers \cup {NoWorker}] /\ cache \in CacheType
      /\ disk \in Seq(Nat) /\ hist \in HistType /\ Len(disk) \in Nat
  BY LenProperties DEF Typed, Locals, InsertEntry, At, UseInv, StoreTypes, LatchTypes
<1>3. disk' = disk
  BY DEF InsertEntry
<1>4. loc[w].page \in Pages /\ loc[w].ent \in Entries
  BY <1>2, LocFields DEF Typed, LocGood, WithEnt, Ptr
<1>5. PICK t \in Pages : t = loc[w].page
  BY <1>4
<1>6. PICK e \in Entries : e = loc[w].ent
  BY <1>4
<1>7. PICK x : x = map[t]
  OBVIOUS
<1>8. PICK h : h = [hist EXCEPT !.raced = IF ~get /\ (x # 0 \/ t <= Len(disk)) THEN @ \cup {t} ELSE @]
  OBVIOUS
<1>9. /\ h.torn = hist.torn /\ hist.raced \subseteq h.raced
      /\ ~get /\ (x # 0 \/ t <= Len(disk)) => t \in h.raced
  BY <1>2, <1>8 DEF HistType
<1>10. mapLatch[t] = NoWorker
  BY <1>5 DEF InsertEntry, Unheld
<1>11. CASE x = 0
  <2>1. /\ map' = [map EXCEPT ![t] = e]
        /\ cache' = [cache EXCEPT !.ent[e] = [@ EXCEPT !.refs = Ent(w).refs + 1, !.top = Ent(w).top \/ get,
                                                        !.tag = t, !.tagValid = TRUE]]
        /\ mapLatch' = Take(mapLatch, t, w) /\ pc' = [pc EXCEPT ![w] = "loadFree"]
        /\ hist' = Blemished(h, e, t) /\ loc' = loc
    BY <1>5, <1>6, <1>7, <1>8, <1>11, Zenon DEF InsertEntry, Go
  <2>2. PICK r : r = [cache.ent[e] EXCEPT !.refs = Ent(w).refs + 1, !.top = Ent(w).top \/ get,
                                          !.tag = t, !.tagValid = TRUE]
    OBVIOUS
  <2>3. cache' = [cache EXCEPT !.ent[e] = r]
    BY <2>1, <2>2, Zenon
  <2>4. cache'.ent[e] = r /\ \A y \in Entries \ {e} : Alike(cache.ent[y], cache'.ent[y])
    BY <1>2, <2>3, CoreRefl, OneEntry
  <2>5. cache.ent[e] \in EntryType
    BY <1>2, EntryFields
  <2>6. /\ r.refs = cache.ent[e].refs + 1 /\ r.tag = t /\ r.locked = cache.ent[e].locked
        /\ r.io = cache.ent[e].io /\ r.dirty = cache.ent[e].dirty /\ r.valid = cache.ent[e].valid
    BY <1>6, <2>2, <2>5 DEF EntryType, Ent
  <2>7. hist'.torn = hist.torn /\ hist.raced \subseteq hist'.raced
        /\ (~get /\ t <= Len(disk) => t \in hist'.raced)
    BY <1>2, <1>8, <2>1, <1>9 DEF HistType, Pages, Blemished
  <2>8. pc'[w] = "loadFree" /\ mapLatch'[t] = w /\ map'[t] = e
    BY <1>2, <2>1 DEF Take
  <2>9. Grows
    BY <1>2, <1>3, <2>7 DEF Grows
  <2>10. \A p \in Pages : p # t => map'[p] = map[p] /\ mapLatch'[p] = mapLatch[p]
    BY <1>2, <2>1 DEF Take
  <2>11. Latched(w)
    BY <1>10, <2>10 DEF Latched
  <2>12. Role(w)'
    BY <1>2, <1>3, <1>5, <1>6, <2>1, <2>8 DEF Role, Inserting, Vacating, Empty, Takers, Creating
  <2>13. \A y \in Entries : y # e => NoMore(w, y) /\ Respects(w, y)
    BY <1>2, <2>8, <1>6, <2>1, <2>4 DEF Takers, Flushing, Reading, Writing, Using, NoMore, IsPin, IsVac,
       IsTaker, Does, Creates, Respects, Alike
  <2>14. \A y \in Entries : y # e => Alone(y)
    <3>1. \A y \in Entries : y # e => \A p \in Pages : map'[p] = y <=> map[p] = y
      BY <1>7, <1>11, <2>8, <2>10, PoolBounds
    <3>. QED
      BY <1>3, <2>4, <2>7, <3>1, Zenon DEF Alone, Alike
  <2>15. ASSUME e \notin hist'.torn PROVE EntryOK(e)'
    <3>1. EntryOK(e)
      BY <2>7, <2>15 DEF UseInv
    <3>. QED
      BY <1>1, <1>2, <1>3, <1>5, <1>6, <2>1, <2>4, <2>6, <2>7, <2>8, <3>1, InsertKeeps
  <2>16. disk' \in Seq(Nat)
    BY <1>2, <1>3
  <2>. QED
    BY <1>1, <2>9, <2>11, <2>12, <2>13, <2>14, <2>15, <2>16, OneKeeps DEF Onward
<1>12. CASE x # 0
  <2>1. /\ cache' = Pin(cache, x) /\ loc' = [loc EXCEPT ![w].ent = x, ![w].it = e]
        /\ pc' = [pc EXCEPT ![w] = "giveBack"] /\ hist' = h /\ map' = map /\ mapLatch' = mapLatch
    BY <1>5, <1>6, <1>7, <1>8, <1>12, Zenon DEF InsertEntry, Go
  <2>2. x \in Entries
    BY <1>2, <1>7, <1>12 DEF Ptr
  <2>3. loc'[w].op = loc[w].op /\ loc'[w].page = t /\ loc'[w].ent = x /\ pc'[w] = "giveBack"
    BY <1>2, <1>5, <2>1 DEF LocType
  <2>4. Grows /\ Latched(w)
    <3>1. Grows
      BY <1>2, <1>3, <1>9, <2>1 DEF Grows
    <3>. QED
      BY <2>1, <3>1, Zenon DEF Latched
  <2>5. t <= Len(disk) \/ t \in hist'.raced
    BY <1>2, <1>5, <1>9, <1>12, <2>1 DEF Role
  <2>6. Role(w)'
    BY <1>2, <1>3, <1>5, <1>9, <1>12, <2>1, <2>3 DEF Role, Inserting, Vacating, Empty
  <2>. QED
    BY <1>1, <1>2, <1>3, <1>7, <1>10, <2>1, <2>2, <2>3, <2>4, <2>5, <2>6, PinUse
<1>. QED
  BY <1>11, <1>12

\* A step of a call with its entry, where no I/O begins or ends.
LEMMA UserMove ==
  ASSUME NEW w \in Workers, loc'[w].op = loc[w].op, loc'[w].page = loc[w].page, loc'[w].ent = loc[w].ent,
         pc[w] \notin Takers \cup Reading \cup Writing, pc'[w] \notin Takers \cup Reading \cup Flushing,
         pc'[w] \in Inserting => pc[w] \in Inserting, pc'[w] \in Creating => pc[w] \in Creating,
         hist.raced \subseteq hist'.raced
  PROVE  \A x \in Entries : NoMore(w, x) /\ pc'[w] # "ghostify"
  BY DEF Writing, Flushing, Reading, NoMore, IsPin, IsVac, IsTaker, Does, Creates

LEMMA UserStep ==
  ASSUME UseInv, Typed, NEW w \in Workers, Others(w), Still(w), Core(cache, cache'), Role(w)',
         loc'[w].op = loc[w].op, loc'[w].page = loc[w].page, loc'[w].ent = loc[w].ent,
         pc[w] \notin Takers \cup Reading \cup Writing, pc'[w] \notin Takers \cup Reading \cup Flushing,
         pc'[w] \in Inserting => pc[w] \in Inserting, pc'[w] \in Creating => pc[w] \in Creating,
         pc'[w] \in Using => pc[w] \in Using \/ ~cache.ent[loc[w].ent].locked
  PROVE  UseInv'
  BY StillGrows, UserMove, AlikeAlone, AllAlone DEF Grows, Still, Core, Respects, Alike, Onward

\* LinkedList::Get
LEMMA LoadFreeUse ==
  ASSUME UseInv, Typed, NEW w \in Workers, LoadFree(w)
  PROVE  UseInv'
<1>1. Others(w)
  BY LoadFreeEffect, Zenon DEF Effect, Moves, Others
<1>2. /\ Role(w) /\ pc \in [Workers -> Labels] /\ loc \in [Workers -> LocType] /\ pc[w] = "loadFree"
      /\ map \in [Pages -> Ptr] /\ loc[w].op # "none"
  BY DEF Typed, Locals, LoadFree, At, UseInv, StoreTypes, Role
<1>3. disk' = disk /\ hist' = hist /\ cache' = cache
  BY DEF LoadFree, Rest, data
<1>4. loc[w].page \in Pages /\ loc[w].ent \in Entries
  BY <1>2, LocFields DEF Typed, LocGood, WithEnt, Ptr
<1>5. PICK t \in Pages : t = loc[w].page
  BY <1>4
<1>6. PICK e \in Entries : e = loc[w].ent
  BY <1>4
<1>7. mapLatch[t] = w /\ map[t] = e
  BY <1>2, <1>5, <1>6 DEF Role, Inserting
<1>8. CASE freeHead = 0
  <2>1. /\ map' = Unmap(t) /\ mapLatch' = Drop(mapLatch, t)
        /\ loc' = [loc EXCEPT ![w].it = e, ![w].ent = 0] /\ pc' = [pc EXCEPT ![w] = "giveBack"]
    BY <1>5, <1>6, <1>8, Zenon DEF LoadFree, Go
  <2>2. loc'[w].op = loc[w].op /\ loc'[w].page = t /\ loc'[w].ent = 0 /\ pc'[w] = "giveBack"
    BY <1>2, <1>5, <2>1 DEF LocType
  <2>3. Latched(w) /\ Grows /\ disk' \in Seq(Nat)
    BY <1>3, <1>7, <2>1, UnmapLatched
  <2>4. Role(w)'
    BY <1>2, <1>3, <1>5, <2>2 DEF Role, Inserting, Vacating
  <2>5. \A x \in Entries : NoMore(w, x) /\ pc'[w] # "ghostify" /\ pc'[w] \notin Using
    BY <1>2, <2>2, PlainMove DEF Plain, Reading, Writing
  <2>6. \A p \in Pages : map'[p] = IF p = t THEN 0 ELSE map[p]
    BY <2>1, Zenon DEF Unmap
  <2>7. ASSUME NEW x \in Entries \ hist'.torn PROVE Alone(x)
    <3>1. \A p \in Pages : map'[p] = x => map[p] = x
      BY <2>6, PoolBounds
    <3>2. CASE x # e
      BY <1>7, <2>6, <3>2, <1>3, <3>1 DEF Alone
    <3>3. CASE x = e
      <4>1. \A v \in Workers : IsPin(v, e) => v = w
        BY <1>2, <1>3, <1>6, <2>7, <3>3 DEF UseInv, EntryOK, InsertOK, Inserting
      <4>2. \A v \in Workers : ~IsPin(v, e)'
        BY <2>2, PoolBounds, <1>1, <4>1 DEF IsPin, Others
      <4>. QED
        BY <1>3, <3>1, <3>3, <4>2, Zenon DEF Alone
    <3>. QED
      BY <3>2, <3>3
  <2>8. \A x \in Entries : Respects(w, x)
    BY <1>3, <2>5, Zenon DEF Respects
  <2>. QED
    BY <1>1, <2>3, <2>4, <2>5, <2>7, <2>8, AllAlone DEF Onward
<1>9. CASE freeHead # 0
  <2>1. /\ map' = map /\ mapLatch' = mapLatch /\ pc' = [pc EXCEPT ![w] = "takeFree"]
        /\ loc' = [loc EXCEPT ![w].buf = freeHead, ![w].next = bufs[freeHead].next]
    BY <1>9, Zenon DEF LoadFree, Go
  <2>2. /\ loc'[w].op = loc[w].op /\ loc'[w].page = loc[w].page /\ loc'[w].ent = loc[w].ent
        /\ pc'[w] = "takeFree"
    BY <1>2, <2>1 DEF LocType
  <2>3. Still(w) /\ Core(cache, cache')
    BY <1>3, <2>1, CoreSame DEF Still
  <2>4. Role(w)'
    BY <1>2, <1>3, <2>1, <2>2 DEF Role, Inserting, Creating, Empty, Vacating
  <2>. QED
    BY <1>1, <1>2, <2>2, <2>3, <2>4, UserStep
       DEF Takers, Reading, Writing, Flushing, Inserting, Creating, Using
<1>. QED
  BY <1>8, <1>9

\* The new entry is locked and the latch of its partition let go.
LEMMA LockUse ==
  ASSUME UseInv, Typed, NEW w \in Workers, Others(w), map' = map, disk' = disk,
         hist'.raced = hist.raced, hist'.torn = hist.torn,
         mapLatch' = Drop(mapLatch, loc[w].page), NEW e \in Entries, e = loc[w].ent,
         loc'[w].op = loc[w].op, loc'[w].page = loc[w].page, loc'[w].ent = loc[w].ent,
         pc[w] \in Inserting, pc'[w] = "toT1",
         \A x \in Entries \ {e} : Alike(cache.ent[x], cache'.ent[x]),
         ~cache.ent[e].locked,
         cache'.ent[e].tag = cache.ent[e].tag, cache'.ent[e].refs = cache.ent[e].refs,
         cache'.ent[e].io = cache.ent[e].io, cache'.ent[e].dirty = cache.ent[e].dirty,
         cache'.ent[e].valid = cache.ent[e].valid
  PROVE  UseInv'
<1>1. /\ Role(w) /\ mapLatch \in [Pages -> Workers \cup {NoWorker}]
      /\ Len(disk) \in Nat /\ disk \in Seq(Nat)
  BY LenProperties DEF UseInv, Typed, StoreTypes, LatchTypes
<1>2. mapLatch[loc[w].page] = w
  BY <1>1 DEF Role
<1>3. Grows /\ Latched(w) /\ disk' \in Seq(Nat)
  BY <1>1, <1>2 DEF Grows, Latched, Drop
<1>4. Role(w)'
  BY <1>1 DEF Role, Inserting, Creating, Empty, Vacating
<1>5. \A x \in Entries : NoMore(w, x) /\ pc'[w] # "ghostify"
  BY <1>3, UserMove DEF Grows, Takers, Reading, Writing, Flushing, Inserting, Creating
<1>6. \A x \in Entries : Alone(x)
  BY <1>3, AlikeAlone DEF Alone, Grows
<1>7. \A x \in Entries : Respects(w, x)
  BY <1>5 DEF Respects, Alike
<1>. QED
  BY <1>3, <1>4, <1>5, <1>6, <1>7, AllAlone DEF Onward

\* With its buffer the entry goes on to T1.
LEMMA TakeFreeUse ==
  ASSUME UseInv, Typed, NEW w \in Workers, TakeFree(w)
  PROVE  UseInv'
<1>1. /\ Role(w) /\ pc \in [Workers -> Labels] /\ loc \in [Workers -> LocType] /\ pc[w] = "takeFree"
      /\ loc[w].op # "none" /\ cache \in CacheType /\ hist \in HistType
  BY DEF Typed, Locals, TakeFree, At, UseInv, StoreTypes, Role
<1>2. disk' = disk /\ map' = map
  BY DEF TakeFree
<1>3. PICK e \in Entries : e = loc[w].ent
  BY <1>1, LocFields DEF Typed, LocGood, WithEnt, Ptr
<1>4. cache.ent[e] \in EntryType
  BY <1>1, EntryFields
<1>5. CASE freeHead # loc[w].buf
  BY <1>5, <1>1, <1>2, CoreSame, UserStep DEF TakeFree, Go, Still, Others, Role, Inserting, Creating,
     Empty, Vacating, Takers, Reading, Writing, Flushing, Using
<1>6. CASE freeHead = loc[w].buf
  <2>1. /\ hist' = [hist EXCEPT !.aba = @ \/ loc[w].next # bufs[freeHead].next]
        /\ loc' = [loc EXCEPT ![w].buf = 0, ![w].next = 0]
    BY <1>6, Zenon DEF TakeFree
  <2>2. hist'.raced = hist.raced /\ hist'.torn = hist.torn
    BY <1>1, <2>1 DEF HistType
  <2>3. loc'[w].op = loc[w].op /\ loc'[w].page = loc[w].page /\ loc'[w].ent = loc[w].ent
    BY <1>1, <2>1 DEF LocType
  <2>4. CASE loc[w].op = "get"
    <3>1. /\ ~Ent(w).locked /\ pc' = [pc EXCEPT ![w] = "toT1"] /\ mapLatch' = Drop(mapLatch, loc[w].page)
          /\ cache' = [cache EXCEPT !.ent[e] = [@ EXCEPT !.buf = loc[w].buf, !.locked = TRUE]]
      BY <1>3, <1>6, <2>4 DEF TakeFree, Go
    <3>2. PICK r : r = [cache.ent[e] EXCEPT !.buf = loc[w].buf, !.locked = TRUE]
      OBVIOUS
    <3>3. cache' = [cache EXCEPT !.ent[e] = r]
      BY <3>1, <3>2, Zenon
    <3>4. cache'.ent[e] = r /\ \A x \in Entries \ {e} : Alike(cache.ent[x], cache'.ent[x])
      BY <1>1, <3>3, CoreRefl, OneEntry
    <3>5. /\ r.tag = cache.ent[e].tag /\ r.refs = cache.ent[e].refs /\ r.io = cache.ent[e].io
          /\ r.dirty = cache.ent[e].dirty /\ r.valid = cache.ent[e].valid
      BY <1>4, <3>2 DEF EntryType
    <3>6. Others(w) /\ pc'[w] = "toT1" /\ ~cache.ent[e].locked
      BY <1>1, <1>3, <2>1, <3>1 DEF Others, Ent
    <3>. QED
      BY <1>1, <1>2, <1>3, <2>2, <2>3, <3>1, <3>4, <3>5, <3>6, LockUse DEF Inserting
  <2>5. CASE loc[w].op # "get"
    <3>1. /\ pc' = [pc EXCEPT ![w] = "toT1first"] /\ mapLatch' = mapLatch /\ loc[w].op = "extend"
          /\ cache' = [cache EXCEPT !.ent[e].buf = loc[w].buf]
      BY <1>3, <1>6, <2>5 DEF TakeFree, Go
    <3>2. PICK r : r = [cache.ent[e] EXCEPT !.buf = loc[w].buf]
      OBVIOUS
    <3>3. cache' = [cache EXCEPT !.ent[e] = r]
      BY <3>1, <3>2, Zenon
    <3>4. cache'.ent[e] = r /\ \A x \in Entries \ {e} : Alike(cache.ent[x], cache'.ent[x])
      BY <1>1, <3>3, CoreRefl, OneEntry
    <3>5. Alike(cache.ent[e], r)
      BY <1>4, <3>2 DEF EntryType, Alike
    <3>6. Core(cache, cache')
      BY <3>4, <3>5 DEF Core
    <3>7. Others(w) /\ pc'[w] = "toT1first" /\ Still(w)
      BY <1>1, <1>2, <2>1, <2>2, <3>1 DEF Others, Still
    <3>8. Role(w)'
      BY <1>1, <1>2, <2>2, <2>3, <3>1, <3>7 DEF Role, Inserting, Creating, Empty, Vacating
    <3>. QED
      BY <1>1, <2>3, <3>6, <3>7, <3>8, UserStep
         DEF Takers, Reading, Writing, Flushing, Inserting, Creating, Using
  <2>. QED
    BY <2>4, <2>5
<1>. QED
  BY <1>5, <1>6

\* An entry goes to the free list.
LEMMA GiveBackUse ==
  ASSUME UseInv, Typed, NEW w \in Workers, GiveBack(w)
  PROVE  UseInv'
<1>1. Others(w)
  BY GiveBackEffect, Zenon DEF Effect, Moves, Others
<1>2. /\ Role(w) /\ pc \in [Workers -> Labels] /\ loc \in [Workers -> LocType] /\ pc[w] = "giveBack"
      /\ loc[w].op \in {"get", "extend"} /\ loc[w].it \in Entries /\ cache \in CacheType
  BY LocFields DEF Typed, Locals, GiveBack, At, UseInv, Role, LocGood, WithIt, Ptr
<1>3. map' = map /\ disk' = disk /\ hist' = hist
  BY DEF GiveBack, Rest, data
<1>4. Core(cache, cache')
  BY <1>2, InsertCore DEF GiveBack, Lists
<1>5. CASE loc[w].ent = 0
  <2>1. Throw(w)
    BY <1>5 DEF GiveBack
  <2>2. Still(w) /\ pc'[w] = "idle" /\ loc'[w] = NoOp
    BY <1>2, <1>3, <2>1 DEF Still, Throw, Over, Go
  <2>. QED
    BY <1>1, <1>2, <1>4, <2>2, Throws DEF Reading, Writing
<1>6. CASE loc[w].ent # 0
  BY <1>6, <1>2, KeptType, <1>3, <1>1, <1>4, PlainStep DEF GiveBack, Go, latches, Typed, Still, Empty,
     Vacating, Plain
<1>. QED
  BY <1>5, <1>6

\* T1, under the lock of the entry
LEMMA FirstToT1Use ==
  ASSUME UseInv, Typed, NEW w \in Workers, FirstToT1(w)
  PROVE  UseInv'
<1>1. Others(w)
  BY ToT1Effect, Zenon DEF Effect, Moves, Others
<1>2. /\ Role(w) /\ pc \in [Workers -> Labels] /\ pc[w] = "toT1first" /\ cache \in CacheType
  BY DEF Typed, Locals, FirstToT1, At, UseInv
<1>3. PICK e \in Entries : e = loc[w].ent
  BY <1>2, LocFields DEF Typed, LocGood, WithEnt, Ptr
<1>4. PICK c \in CacheType : c = InsertMRU(cache, "T1", e) /\ Core(cache, c)
  BY <1>2, InsertSame, InsertCore DEF Same, Lists
<1>5. /\ map' = map /\ disk' = disk /\ hist' = hist /\ mapLatch' = Drop(mapLatch, loc[w].page) /\ loc' = loc
      /\ pc'[w] = "toT1" /\ ~cache.ent[e].locked
      /\ cache' = [c EXCEPT !.ent[e] = [@ EXCEPT !.top = TRUE, !.locked = TRUE]]
  BY <1>2, <1>3, <1>4 DEF FirstToT1, Rest, data, Go, Ent
<1>6. PICK r : r = [c.ent[e] EXCEPT !.top = TRUE, !.locked = TRUE]
  OBVIOUS
<1>7. cache' = [c EXCEPT !.ent[e] = r]
  BY <1>5, <1>6, Zenon
<1>8. cache'.ent[e] = r /\ \A x \in Entries \ {e} : Alike(cache.ent[x], cache'.ent[x])
  BY <1>4, <1>7, OneEntry
<1>9. c.ent[e] \in EntryType /\ Alike(cache.ent[e], c.ent[e])
  BY <1>4, EntryFields DEF Core
<1>10. /\ r.tag = cache.ent[e].tag /\ r.refs = cache.ent[e].refs /\ r.io = cache.ent[e].io
       /\ r.dirty = cache.ent[e].dirty /\ r.valid = cache.ent[e].valid
  BY <1>6, <1>9 DEF EntryType, Alike
<1>. QED
  BY <1>1, <1>2, <1>3, <1>5, <1>8, <1>10, LockUse DEF Inserting

\* T1; the entry is unlocked
LEMMA ToT1Use ==
  ASSUME UseInv, Typed, NEW w \in Workers, ToT1(w)
  PROVE  UseInv'
<1>1. Others(w)
  BY ToT1Effect, Zenon DEF Effect, Moves, Others
<1>2. /\ Role(w) /\ pc \in [Workers -> Labels] /\ pc[w] = "toT1" /\ cache \in CacheType
      /\ loc[w].op \in {"get", "extend"}
  BY LocFields DEF Typed, Locals, ToT1, At, UseInv, Role
<1>3. PICK e \in Entries : e = loc[w].ent
  BY <1>2, LocFields DEF Typed, LocGood, WithEnt, Ptr
<1>4. PICK c \in CacheType : c = InsertMRU(cache, "T1", e) /\ Core(cache, c)
  BY <1>2, InsertSame, InsertCore DEF Same, Lists
<1>5. /\ map' = map /\ disk' = disk /\ hist' = hist /\ mapLatch' = mapLatch /\ loc' = loc
      /\ pc'[w] = IF loc[w].op = "get" THEN "data" ELSE "extendIO"
      /\ cache' = [c EXCEPT !.ent[e] = [@ EXCEPT !.top = TRUE, !.locked = FALSE]]
  BY <1>2, <1>3, <1>4 DEF ToT1, Rest, data, Go, latches
<1>6. PICK r : r = [c.ent[e] EXCEPT !.top = TRUE, !.locked = FALSE]
  OBVIOUS
<1>7. cache' = [c EXCEPT !.ent[e] = r]
  BY <1>5, <1>6, Zenon
<1>8. cache'.ent[e] = r /\ \A x \in Entries \ {e} : Alike(cache.ent[x], cache'.ent[x])
  BY <1>4, <1>7, OneEntry
<1>9. c.ent[e] \in EntryType /\ Alike(cache.ent[e], c.ent[e])
  BY <1>4, EntryFields DEF Core
<1>10. /\ r.tag = cache.ent[e].tag /\ r.refs = cache.ent[e].refs /\ r.io = cache.ent[e].io
       /\ r.dirty = cache.ent[e].dirty /\ r.valid = cache.ent[e].valid
  BY <1>6, <1>9 DEF EntryType, Alike
<1>11. Still(w) /\ Latched(w) /\ Grows /\ disk' \in Seq(Nat)
  BY <1>5, StillGrows DEF Still
<1>12. Role(w)'
  BY <1>2, <1>5 DEF Role, Inserting, Creating, Empty, Vacating
<1>13. \A x \in Entries : NoMore(w, x) /\ pc'[w] # "ghostify"
  BY <1>2, <1>5, UserMove DEF Takers, Reading, Writing, Flushing, Inserting, Creating
<1>14. \A x \in Entries : x # e => Alone(x) /\ Respects(w, x)
  BY <1>5, <1>8, AlikeAlone, <1>3, <1>13 DEF Respects, Alike
<1>15. ASSUME e \notin hist'.torn PROVE EntryOK(e)'
  <2>1. EntryOK(e)
    BY <1>5, <1>15 DEF UseInv
  <2>2. Alone(e)
    BY <1>5, <1>8, <1>10, Zenon DEF Alone
  <2>3. IsPin(w, e) /\ pc[w] \in Using
    BY <1>2, <1>3 DEF IsPin, Takers, Using
  <2>. QED
    BY <1>1, <1>2, <1>8, <1>10, <1>13, <2>1, <2>2, <2>3, UnlockKeeps
<1>. QED
  BY <1>1, <1>11, <1>12, <1>13, <1>14, <1>15, OneKeeps DEF Onward

\* handleCacheHit
LEMMA HitUse ==
  ASSUME UseInv, Typed, NEW w \in Workers, Hit(w) \/ ExtendHit(w)
  PROVE  UseInv'
<1>1. Others(w)
  BY HitEffect, Zenon DEF Effect, Moves, Others
<1>2. /\ Role(w) /\ pc \in [Workers -> Labels] /\ loc \in [Workers -> LocType]
      /\ loc[w].ent # 0
  BY LocFields DEF Typed, Locals, UseInv, Hit, ExtendHit, At, LocGood, WithEnt
<1>3. Still(w) /\ Core(cache, cache')
  BY CoreSame DEF Still, Hit, ExtendHit, Rest, data, latches
<1>4. \/ /\ pc[w] = "hit" /\ pc'[w] \in {"ghostHit", "hitT1", "hitT2"} /\ loc[w].op = "get"
         /\ ~cache.ent[loc[w].ent].locked
      \/ pc[w] = "extendHit" /\ pc'[w] \in {"ghostHit", "extendAgain"} /\ loc[w].op = "extend"
  BY <1>2 DEF Hit, ExtendHit, At, Go, Ent, Role
<1>5. loc'[w].op = loc[w].op /\ loc'[w].page = loc[w].page /\ loc'[w].ent = loc[w].ent
  BY <1>2 DEF Hit, ExtendHit, LocType
<1>6. Role(w)'
  BY <1>2, <1>3, <1>4, <1>5 DEF Role, Still, Inserting, Creating, Empty, Vacating, Takers, Reading
<1>. QED
  BY <1>1, <1>3, <1>4, <1>5, <1>6, UserStep
     DEF Takers, Reading, Writing, Flushing, Inserting, Creating, Using

LEMMA CacheHitUse ==
  ASSUME UseInv, Typed, NEW w \in Workers, CacheHit(w)
  PROVE  UseInv'
<1>. DEFINE moved == pc[w] = "hitT2" \/ (~Ent(w).top /\ Ent(w).freq)
            l == IF moved THEN "T2" ELSE "T1"
<1>1. Others(w)
  BY CacheHitEffect, Zenon DEF Effect, Moves, Others
<1>2. /\ Role(w) /\ pc \in [Workers -> Labels] /\ pc[w] \in {"hitT1", "hitT2"} /\ cache \in CacheType
      /\ loc[w].op = "get"
  BY DEF Typed, Locals, UseInv, CacheHit, At, Role
<1>3. map' = map /\ disk' = disk /\ hist' = hist
  BY DEF CacheHit, Rest, data
<1>4. PICK e \in Entries : e = loc[w].ent
  BY <1>2, LocFields DEF Typed, LocGood, WithEnt, Ptr
<1>5. CASE ~CanRemove(cache, l)
  BY <1>4, <1>5, <1>2, <1>3, <1>1, LockThrows DEF CacheHit, Still, Throw, Over, Go, Typed, Locals,
     Reading, Writing
<1>6. CASE CanRemove(cache, l)
  <2>1. /\ pc' = [pc EXCEPT ![w] = "data"] /\ mapLatch' = mapLatch /\ loc' = loc
        /\ cache' = IF moved THEN MoveMRU(cache, "T2", e)
                    ELSE [InsertMRU(RemoveEntry(cache, "T1", e), "T2", e) EXCEPT !.ent[e].freq = TRUE]
    BY <1>4, <1>6, Zenon DEF CacheHit, Go, latches
  <2>2. Core(cache, cache')
    <3>1. CASE moved
      BY <1>2, <1>6, <2>1, <3>1, MoveCore DEF Lists
    <3>2. CASE ~moved
      <4>1. PICK c \in CacheType : c = InsertMRU(RemoveEntry(cache, "T1", e), "T2", e) /\ Core(cache, c)
        BY <1>2, <1>6, <3>2, MoveCore DEF Lists
      <4>2. PICK r : r = [c.ent[e] EXCEPT !.freq = TRUE]
        OBVIOUS
      <4>3. cache' = [c EXCEPT !.ent[e] = r]
        BY <2>1, <3>2, <4>1, <4>2, Zenon
      <4>4. cache'.ent[e] = r /\ \A x \in Entries \ {e} : Alike(cache.ent[x], cache'.ent[x])
        BY <4>1, <4>3, OneEntry
      <4>5. c.ent[e] \in EntryType /\ Alike(cache.ent[e], c.ent[e])
        BY <4>1, EntryFields DEF Core
      <4>6. Alike(cache.ent[e], r)
        BY <4>2, <4>5 DEF EntryType, Alike
      <4>. QED
        BY <4>4, <4>6 DEF Core
    <3>. QED
      BY <3>1, <3>2
  <2>3. Still(w) /\ pc'[w] = "data"
    BY <1>2, <1>3, <2>1 DEF Still
  <2>4. Role(w)'
    BY <1>2, <1>3, <2>1, <2>3 DEF Role, Inserting, Creating, Empty, Vacating, Takers, Reading
  <2>. QED
    BY <1>1, <1>2, <2>1, <2>2, <2>3, <2>4, UserStep
       DEF Takers, Reading, Writing, Flushing, Inserting, Creating, Using
<1>. QED
  BY <1>5, <1>6

\* handleGhostHit
LEMMA GhostSizesUse ==
  ASSUME UseInv, Typed, NEW w \in Workers, GhostSizes(w)
  PROVE  UseInv'
<1>1. Others(w)
  BY GhostSizesEffect, Zenon DEF Effect, Moves, Others
<1>2. /\ Role(w) /\ pc \in [Workers -> Labels] /\ loc \in [Workers -> LocType] /\ pc[w] = "ghostHit"
  BY DEF Typed, Locals, UseInv, GhostSizes, At
<1>3. map' = map /\ disk' = disk /\ hist' = hist /\ mapLatch' = mapLatch
  BY DEF GhostSizes, Rest, data, latches
<1>4. \/ Fault /\ loc' = loc /\ pc' = pc
      \/ /\ cache' = cache /\ loc' = [loc EXCEPT ![w].p = P, ![w].ret = "ghostMove"]
         /\ pc' = [pc EXCEPT ![w] = "adjust"]
  BY Zenon DEF GhostSizes, Go
<1>5. CASE Fault /\ loc' = loc /\ pc' = pc
  BY <1>3, <1>5, FaultUse
<1>6. CASE /\ cache' = cache /\ loc' = [loc EXCEPT ![w].p = P, ![w].ret = "ghostMove"]
           /\ pc' = [pc EXCEPT ![w] = "adjust"]
  BY <1>2, <1>6, <1>3, CoreSame, <1>1, PlainStep DEF LocType, Still, Empty, Plain
<1>. QED
  BY <1>4, <1>5, <1>6

LEMMA GhostMoveUse ==
  ASSUME UseInv, Typed, NEW w \in Workers, GhostMove(w)
  PROVE  UseInv'
<1>. DEFINE l == IF loc[w].fq THEN "B1" ELSE "B2"
            same == ~Ent(w).top /\ Ent(w).freq = loc[w].fq
            next == IF loc[w].op = "get" THEN "data" ELSE "extendAgain"
<1>1. Others(w)
  BY GhostMoveEffect, Zenon DEF Effect, Moves, Others
<1>2. /\ Role(w) /\ pc \in [Workers -> Labels] /\ pc[w] = "ghostMove" /\ cache \in CacheType
      /\ loc[w].op \in {"get", "extend"} /\ loc \in [Workers -> LocType] /\ l \in Lists
  BY LocFields DEF Typed, Locals, UseInv, GhostMove, At, Role, Lists
<1>3. map' = map /\ disk' = disk /\ hist' = hist
  BY DEF GhostMove, Rest, data
<1>4. PICK e \in Entries : e = loc[w].ent
  BY <1>2, LocFields DEF Typed, LocGood, WithEnt, Ptr
<1>5. ~cache.ent[e].locked /\ e # 0
  BY <1>4, PoolBounds DEF GhostMove, Ent
<1>6. CASE same /\ ~CanRemove(cache, l)
  BY <1>4, <1>6, <1>2, <1>3, <1>1, LockThrows DEF GhostMove, Still, Throw, Over, Go, Reading, Writing
<1>7. CASE ~(same /\ ~CanRemove(cache, l))
  <2>1. /\ pc' = [pc EXCEPT ![w] = next] /\ mapLatch' = mapLatch /\ loc' = [loc EXCEPT ![w] = Kept(w)]
        /\ \/ ~same /\ cache' = cache
           \/ /\ same /\ CanRemove(cache, l)
              /\ cache' = [InsertMRU(RemoveEntry(cache, l, e), "T2", e) EXCEPT
                             !.ent[e] = [@ EXCEPT !.top = TRUE, !.freq = TRUE]]
    BY <1>4, <1>7, Zenon DEF GhostMove, Go, latches
  <2>2. Core(cache, cache')
    <3>1. CASE ~same
      BY <2>1, <3>1, CoreSame
    <3>2. CASE same
      <4>1. PICK c \in CacheType : c = InsertMRU(RemoveEntry(cache, l, e), "T2", e) /\ Core(cache, c)
        BY <1>2, <1>7, <3>2, MoveCore DEF Lists
      <4>2. PICK r : r = [c.ent[e] EXCEPT !.top = TRUE, !.freq = TRUE]
        OBVIOUS
      <4>3. cache' = [c EXCEPT !.ent[e] = r]
        BY <2>1, <3>2, <4>1, <4>2, Zenon
      <4>4. cache'.ent[e] = r /\ \A x \in Entries \ {e} : Alike(cache.ent[x], cache'.ent[x])
        BY <4>1, <4>3, OneEntry
      <4>5. c.ent[e] \in EntryType /\ Alike(cache.ent[e], c.ent[e])
        BY <4>1, EntryFields DEF Core
      <4>6. Alike(cache.ent[e], r)
        BY <4>2, <4>5 DEF EntryType, Alike
      <4>. QED
        BY <4>4, <4>6 DEF Core
    <3>. QED
      BY <3>1, <3>2
  <2>3. /\ Still(w) /\ loc'[w].op = loc[w].op /\ loc'[w].page = loc[w].page /\ loc'[w].ent = loc[w].ent
        /\ pc'[w] = next
    BY <1>2, <1>3, <2>1, KeptType DEF Still, Typed
  <2>4. Role(w)'
    BY <1>2, <1>3, <1>4, <1>5, <2>3 DEF Role, Inserting, Creating, Empty, Vacating, Takers, Reading
  <2>. QED
    BY <1>1, <1>2, <1>4, <1>5, <2>2, <2>3, <2>4, UserStep
       DEF Takers, Reading, Writing, Flushing, Inserting, Creating, Using
<1>. QED
  BY <1>6, <1>7

\* ShouldStartIO by a call that reads or extends.
LEMMA StartIoUse ==
  ASSUME UseInv, Typed, NEW w \in Workers, Others(w), Unmoved, mapLatch' = mapLatch, loc' = loc,
         NEW e \in Entries, e = loc[w].ent, NEW b \in BOOLEAN,
         cache' = [cache EXCEPT !.ent[e].io = b], ~cache.ent[e].io, ~cache.ent[e].locked, pc'[w] = "readIO",
         \/ b = TRUE /\ (pc[w] = "data" \/ (pc[w] = "extendStart" /\ loc[w].page \in hist.raced))
         \/ pc[w] = "extendIO" /\ b = ~cache.ent[e].valid
  PROVE  UseInv'
<1>1. Role(w) /\ cache \in CacheType /\ pc[w] \in {"data", "extendStart", "extendIO"}
  BY DEF UseInv, Typed
<1>2. PICK r : r = [cache.ent[e] EXCEPT !.io = b]
  OBVIOUS
<1>3. cache' = [cache EXCEPT !.ent[e] = r]
  BY <1>2, Zenon
<1>4. cache'.ent[e] = r /\ \A x \in Entries \ {e} : Alike(cache.ent[x], cache'.ent[x])
  BY <1>1, <1>3, CoreRefl, OneEntry
<1>5. Still(w) /\ Latched(w) /\ Grows /\ disk' \in Seq(Nat)
  BY StillGrows DEF Still, Unmoved
<1>6. Role(w)'
  BY <1>1 DEF Role, Unmoved, Inserting, Creating, Empty, Vacating, Takers, Reading
<1>7. ASSUME e \notin hist'.torn PROVE EntryOK(e)'
  <2>1. EntryOK(e)
    BY <1>7 DEF UseInv, Unmoved
  <2>. QED
    BY <1>1, <1>2, <1>4, <2>1, StartIoKeeps
<1>8. \A x \in Entries : x # e => NoMore(w, x) /\ Alone(x) /\ Respects(w, x)
  <2>1. /\ pc'[w] \notin Takers \cup Flushing \cup Writing \cup {"ghostify"} /\ pc[w] \notin Writing
    BY <1>1 DEF Takers, Flushing, Writing
  <2>2. \A x \in Entries : x # e => NoMore(w, x)
    BY <2>1, Zenon DEF NoMore, IsPin, IsVac, IsTaker, Does, Creates
  <2>3. \A x \in Entries : x # e => Alone(x)
    BY <1>4, AlikeAlone DEF Unmoved
  <2>4. pc'[w] # "ghostify" /\ loc'[w].ent = e
    BY <2>1
  <2>5. ASSUME NEW x \in Entries, x # e PROVE Respects(w, x)
    BY <1>4, <2>5, <2>4 DEF Respects, Alike
  <2>. QED
    BY <2>2, <2>3, <2>5
<1>. QED
  BY <1>5, <1>6, <1>7, <1>8, OneKeeps DEF Onward

LEMMA StartReadUse ==
  ASSUME UseInv, Typed, NEW w \in Workers, StartRead(w)
  PROVE  UseInv'
<1>1. Others(w)
  BY StartReadEffect, Zenon DEF Effect, Moves, Others
<1>2. /\ Role(w) /\ pc \in [Workers -> Labels] /\ pc[w] = "data" /\ cache \in CacheType /\ loc[w].op = "get"
  BY DEF Typed, Locals, UseInv, StartRead, At, Role
<1>3. map' = map /\ disk' = disk /\ hist' = hist /\ loc' = loc
  BY DEF StartRead, Rest, data
<1>4. PICK e \in Entries : e = loc[w].ent
  BY <1>2, LocFields DEF Typed, LocGood, WithEnt, Ptr
<1>5. CASE Ent(w).valid
  <2>1. Over(w, "hold") /\ cache' = cache
    BY <1>5 DEF StartRead
  <2>2. Still(w) /\ Core(cache, cache') /\ pc'[w] = "hold"
    BY <1>2, <1>3, <2>1, CoreSame DEF Still, Over, Go
  <2>3. Role(w)'
    BY <1>2, <1>3, <2>2 DEF Role, Inserting, Empty, Vacating
  <2>. QED
    BY <1>1, <1>2, <1>3, <2>2, <2>3, UserStep
       DEF Takers, Reading, Writing, Flushing, Inserting, Creating, Using
<1>6. CASE ~Ent(w).valid
  BY <1>2, <1>4, <1>6, <1>1, <1>3, StartIoUse DEF StartRead, Ent, Go, latches, Unmoved
<1>. QED
  BY <1>5, <1>6

\* The extension that starts its I/O.
LEMMA ExtendIOUse ==
  ASSUME UseInv, Typed, NEW w \in Workers, ExtendIO(w)
  PROVE  UseInv'
<1>1. Others(w)
  BY ExtendEffect, Zenon DEF Effect, Moves, Others
<1>2. pc \in [Workers -> Labels] /\ pc[w] = "extendIO" /\ cache \in CacheType
  BY DEF Typed, Locals, ExtendIO, At
<1>3. map' = map /\ disk' = disk /\ hist' = hist /\ loc' = loc /\ mapLatch' = mapLatch
  BY DEF ExtendIO, Rest, data, latches
<1>4. PICK e \in Entries : e = loc[w].ent
  BY <1>2, LocFields DEF Typed, LocGood, WithEnt, Ptr
<1>5. cache.ent[e].valid \in BOOLEAN
  BY <1>2, EntryFields
<1>6. /\ ~cache.ent[e].locked /\ ~cache.ent[e].io /\ pc'[w] = "readIO"
      /\ cache' = [cache EXCEPT !.ent[e].io = @ \/ ~cache.ent[e].valid]
  BY <1>2, <1>4 DEF ExtendIO, Ent, Go
<1>7. PICK b \in BOOLEAN : b = ~cache.ent[e].valid
  BY <1>5
<1>8. (cache.ent[e].io \/ ~cache.ent[e].valid) = b
  BY <1>5, <1>6, <1>7
<1>9. cache' = [cache EXCEPT !.ent[e].io = b]
  BY <1>6, <1>8, Zenon
<1>. QED
  BY <1>1, <1>2, <1>3, <1>4, <1>6, <1>7, <1>9, StartIoUse DEF Unmoved

LEMMA InvalidateUse ==
  ASSUME UseInv, Typed, NEW w \in Workers, Invalidate(w)
  PROVE  UseInv'
<1>1. Others(w)
  BY ExtendEffect, Zenon DEF Effect, Moves, Others
<1>2. Role(w) /\ pc \in [Workers -> Labels] /\ pc[w] = "extendAgain" /\ cache \in CacheType
  BY DEF Typed, Locals, Invalidate, At, UseInv
<1>3. map' = map /\ disk' = disk /\ hist' = hist /\ loc' = loc /\ mapLatch' = mapLatch
  BY DEF Invalidate, Rest, data, latches
<1>4. PICK e \in Entries : e = loc[w].ent
  BY <1>2, LocFields DEF Typed, LocGood, WithEnt, Ptr
<1>5. /\ ~cache.ent[e].locked /\ pc'[w] = "extendStart"
      /\ cache' = [cache EXCEPT !.ent[e].valid = FALSE]
  BY <1>2, <1>4 DEF Invalidate, Ent, Go
<1>6. PICK r : r = [cache.ent[e] EXCEPT !.valid = FALSE]
  OBVIOUS
<1>7. cache' = [cache EXCEPT !.ent[e] = r]
  BY <1>5, <1>6, Zenon
<1>8. cache'.ent[e] = r /\ \A x \in Entries \ {e} : Alike(cache.ent[x], cache'.ent[x])
  BY <1>2, <1>7, CoreRefl, OneEntry
<1>9. /\ r.tag = cache.ent[e].tag /\ r.refs = cache.ent[e].refs /\ r.io = cache.ent[e].io
      /\ r.dirty = cache.ent[e].dirty /\ r.locked = cache.ent[e].locked /\ ~r.valid
  <2>1. cache.ent[e] \in EntryType
    BY <1>2, EntryFields
  <2>. QED
    BY <1>6, <2>1 DEF EntryType
<1>10. Still(w) /\ Latched(w) /\ Grows /\ disk' \in Seq(Nat)
  BY <1>3, StillGrows DEF Still
<1>11. Role(w)'
  BY <1>2, <1>3, <1>5 DEF Role, Inserting, Creating, Empty, Vacating, Takers, Reading
<1>12. \A x \in Entries : NoMore(w, x) /\ pc'[w] # "ghostify"
  BY <1>2, <1>3, <1>5, UserMove DEF Takers, Reading, Writing, Flushing, Inserting, Creating
<1>13. Alone(e) /\ Respects(w, e)
  BY <1>3, <1>5, <1>8, <1>9, <1>12, Zenon DEF Alone, Respects
<1>14. \A x \in Entries : x # e => Alone(x) /\ Respects(w, x)
  BY <1>3, <1>8, AlikeAlone, <1>4, <1>12 DEF Respects, Alike
<1>. QED
  BY <1>1, <1>10, <1>11, <1>12, <1>13, <1>14, AllAlone DEF Onward

LEMMA ExtendStartUse ==
  ASSUME UseInv, Typed, NEW w \in Workers, ExtendStart(w)
  PROVE  UseInv'
<1>1. Others(w)
  BY ExtendEffect, Zenon DEF Effect, Moves, Others
<1>2. /\ Role(w) /\ pc \in [Workers -> Labels] /\ pc[w] = "extendStart" /\ cache \in CacheType
      /\ loc[w].op = "extend"
  BY DEF Typed, Locals, ExtendStart, At, UseInv, Role
<1>3. map' = map /\ disk' = disk /\ hist' = hist /\ loc' = loc /\ mapLatch' = mapLatch
  BY DEF ExtendStart, Rest, data, latches
<1>4. PICK e \in Entries : e = loc[w].ent
  BY <1>2, LocFields DEF Typed, LocGood, WithEnt, Ptr
<1>5. loc[w].page \in hist.raced
  <2>1. e # 0
    BY PoolBounds
  <2>. QED
    BY <1>2, <1>4, <2>1 DEF Role, Inserting, Creating, Takers, Reading
<1>6. CASE Ent(w).valid
  <2>1. cache' = cache /\ pc'[w] = "extendAgain"
    BY <1>2, <1>6 DEF ExtendStart, Go
  <2>2. Still(w) /\ Core(cache, cache')
    BY <1>3, <2>1, CoreSame DEF Still
  <2>3. Role(w)'
    BY <1>2, <1>3, <1>5, <2>1 DEF Role, Inserting, Empty, Vacating
  <2>. QED
    BY <1>1, <1>2, <1>3, <2>1, <2>2, <2>3, UserStep
       DEF Takers, Reading, Writing, Flushing, Inserting, Creating, Using
<1>7. CASE ~Ent(w).valid
  BY <1>2, <1>4, <1>7, <1>1, <1>3, <1>5, StartIoUse DEF ExtendStart, Ent, Go, Unmoved
<1>. QED
  BY <1>6, <1>7

\* The end of the I/O
LEMMA ReadEndUse ==
  ASSUME UseInv, Typed, NEW w \in Workers, ReadEnd(w)
  PROVE  UseInv'
<1>1. Others(w)
  BY ReadEndEffect, Zenon DEF Effect, Moves, Others
<1>2. /\ Role(w) /\ pc \in [Workers -> Labels] /\ loc \in [Workers -> LocType]
      /\ pc[w] \in {"readEnd", "readFailed"} /\ cache \in CacheType
  BY DEF Typed, Locals, ReadEnd, At, UseInv
<1>3. map' = map /\ disk' = disk /\ hist' = hist
  BY DEF ReadEnd, Rest, data
<1>4. PICK e \in Entries : e = loc[w].ent
  BY <1>2, LocFields DEF Typed, LocGood, WithEnt, Ptr
<1>5. PICK ok \in BOOLEAN : ok = (pc[w] = "readEnd")
  OBVIOUS
<1>6. cache' = Terminated(e, ok) /\ Still(w)
  BY <1>2, <1>3, <1>4, <1>5 DEF ReadEnd, Still, Over, Throw
<1>7. \/ pc'[w] = "hold" /\ loc' = loc
      \/ pc'[w] = "idle" /\ loc'[w] = NoOp
  BY <1>2 DEF ReadEnd, Over, Throw, Go
<1>8. Latched(w) /\ Grows /\ disk' \in Seq(Nat)
  BY <1>6, StillGrows
<1>9. Role(w)'
  BY <1>2, <1>3, <1>8, IdleRole, <1>7 DEF Role, Inserting, Empty, Vacating
<1>10. /\ \A x \in Entries \ {e} : Alike(cache.ent[x], cache'.ent[x])
       /\ cache'.ent[e].refs = cache.ent[e].refs /\ cache'.ent[e].tag = cache.ent[e].tag
       /\ cache'.ent[e].locked = cache.ent[e].locked /\ ~cache'.ent[e].io
  BY <1>2, <1>6, TerminatedEntry
<1>11. /\ pc[w] \in Using /\ pc[w] \in Reading /\ pc[w] \notin Takers \cup Flushing \cup Writing
       /\ pc'[w] \notin Takers \cup Flushing \cup Reading \cup Writing \cup Inserting \cup Creating \cup {"ghostify"}
  BY <1>2, <1>7 DEF Using, Reading, Takers, Flushing, Writing, Inserting, Creating
<1>12. /\ \A x \in Entries : loc'[w].ent = x => loc[w].ent = x /\ loc'[w].page = loc[w].page
  BY <1>7, PoolBounds DEF NoOp
<1>13. ASSUME e \notin hist'.torn PROVE EntryOK(e)'
  BY <1>3, <1>13, <1>4, <1>11, <1>12, <1>1, <1>2, <1>7, <1>10, EndIoKeeps DEF UseInv, Does, IsPin,
     IsVac, Unmoved
<1>14. \A x \in Entries : x # e => NoMore(w, x) /\ Alone(x) /\ Respects(w, x)
  BY <1>4, <1>11, <1>12, <1>3, <1>10, AlikeAlone DEF NoMore, IsPin, IsVac, IsTaker, Does, Creates,
     Respects, Alike
<1>. QED
  BY <1>1, <1>8, <1>9, <1>13, <1>14, OneKeeps DEF Onward

\* The user of the page
LEMMA WritePageUse ==
  ASSUME UseInv, Typed, NEW w \in Workers, WritePage(w)
  PROVE  UseInv'
<1>1. /\ Role(w) /\ pc[w] = "hold" /\ cache \in CacheType /\ hist \in HistType
  BY DEF Typed, StoreTypes, WritePage, At, UseInv
<1>2. map' = map /\ disk' = disk /\ mapLatch' = mapLatch /\ pc' = pc /\ loc' = loc
  BY DEF WritePage, latches
<1>3. PICK e \in Entries : e = loc[w].ent
  BY <1>1, LocFields DEF Typed, LocGood, WithEnt, Ptr
<1>4. \/ Fault /\ hist' = hist
      \/ cache' = [cache EXCEPT !.ent[e].dirty = TRUE] /\ hist' = hist
      \/ hist' = [hist EXCEPT !.unmarked = @ \cup {loc[w].page}] /\ cache' = cache
  BY <1>3, Zenon DEF WritePage
<1>5. hist'.raced = hist.raced /\ hist'.torn = hist.torn
  BY <1>1, <1>4 DEF HistType
<1>6. CASE Fault
  BY <1>2, <1>5, <1>6, FaultUse
<1>7. CASE cache' = cache
  BY <1>2, <1>5, <1>7, CoreSame, NothingMoves
<1>8. CASE cache' = [cache EXCEPT !.ent[e].dirty = TRUE]
  <2>1. PICK r : r = [cache.ent[e] EXCEPT !.dirty = TRUE]
    OBVIOUS
  <2>2. cache' = [cache EXCEPT !.ent[e] = r]
    BY <1>8, <2>1, Zenon
  <2>3. cache'.ent[e] = r /\ \A x \in Entries \ {e} : Alike(cache.ent[x], cache'.ent[x])
    BY <1>1, <2>2, CoreRefl, OneEntry
  <2>4. /\ r.tag = cache.ent[e].tag /\ r.refs = cache.ent[e].refs /\ r.io = cache.ent[e].io
        /\ r.locked = cache.ent[e].locked
    <3>1. cache.ent[e] \in EntryType
      BY <1>1, EntryFields
    <3>. QED
      BY <2>1, <3>1 DEF EntryType
  <2>5. Still(w) /\ Latched(w) /\ Grows /\ disk' \in Seq(Nat) /\ Others(w)
    BY <1>2, <1>5, StillGrows DEF Still, Others
  <2>6. Role(w)'
    BY <1>1, <1>2, <1>5, Zenon DEF Role
  <2>7. ASSUME e \notin hist'.torn PROVE EntryOK(e)'
    <3>1. EntryOK(e)
      BY <1>5, <2>7 DEF UseInv
    <3>2. IsPin(w, e)
      BY <1>1, <1>3 DEF IsPin, Takers
    <3>. QED
      BY <1>1, <1>2, <1>5, <2>3, <2>4, <3>1, <3>2, WriteKeeps
  <2>8. \A x \in Entries : x # e => NoMore(w, x) /\ Alone(x) /\ Respects(w, x)
    BY <1>2, <1>5, <2>3, AlikeAlone, <1>1 DEF NoMore, IsPin, IsVac, IsTaker, Does, Creates, Respects,
       Alike
  <2>. QED
    BY <2>5, <2>6, <2>7, <2>8, OneKeeps DEF Onward
<1>. QED
  BY <1>4, <1>6, <1>7, <1>8

LEMMA ReturnBufferUse ==
  ASSUME UseInv, Typed, NEW w \in Workers, ReturnBuffer(w)
  PROVE  UseInv'
<1>1. Others(w)
  BY ReturnBufferEffect, Zenon DEF Effect, Moves, Others
<1>2. /\ Role(w) /\ pc \in [Workers -> Labels] /\ loc \in [Workers -> LocType] /\ pc[w] = "hold"
      /\ cache \in CacheType
  BY DEF Typed, Locals, ReturnBuffer, At, UseInv
<1>3. PICK e \in Entries : e = loc[w].ent
  BY <1>2, LocFields DEF Typed, LocGood, WithEnt, Ptr
<1>4. /\ map' = map /\ disk' = disk /\ hist' = hist /\ mapLatch' = mapLatch /\ pc'[w] = "idle"
      /\ loc'[w] = NoOp /\ cache' = Unpin(cache, e)
  BY <1>2, <1>3 DEF ReturnBuffer, Rest, data, latches, Go
<1>5. Still(w) /\ Latched(w) /\ Grows /\ disk' \in Seq(Nat)
  BY <1>4, StillGrows DEF Still
<1>6. Role(w)'
  BY <1>4, <1>5, IdleRole
<1>7. loc'[w].ent = 0
  BY <1>4 DEF NoOp
<1>8. \A x \in Entries : NoMore(w, x) /\ pc'[w] # "ghostify" /\ pc'[w] \notin Using
  BY <1>2, <1>4, <1>7, PlainMove DEF Plain, Reading, Writing
<1>9. PICK r : r = [cache.ent[e] EXCEPT !.refs = @ - 1]
  OBVIOUS
<1>10. cache' = IF cache.ent[e].refs = 0 THEN [cache EXCEPT !.fault = TRUE] ELSE [cache EXCEPT !.ent[e] = r]
  BY <1>4, <1>9, Zenon DEF Unpin
<1>11. \A x \in Entries \ {e} : Alike(cache.ent[x], cache'.ent[x])
  <2>1. CASE cache.ent[e].refs = 0
    <3>1. cache'.ent = cache.ent
      BY <1>2, <1>10, <2>1 DEF CacheType
    <3>. QED
      BY <3>1 DEF Alike
  <2>2. CASE cache.ent[e].refs # 0
    BY <1>2, <1>10, <2>2, CoreRefl, OneEntry
  <2>. QED
    BY <2>1, <2>2
<1>12. ASSUME e \notin hist'.torn PROVE EntryOK(e)'
  <2>1. EntryOK(e)
    BY <1>4, <1>12 DEF UseInv
  <2>2. IsPin(w, e)
    BY <1>2, <1>3 DEF IsPin, Takers
  <2>3. cache.ent[e].refs \in Nat /\ cache.ent[e].refs # 0
    BY <1>2, <2>1, <2>2, PinPositive DEF EntryOK
  <2>4. cache'.ent[e] = r
    BY <1>2, <1>10, <2>3, CoreRefl, OneEntry
  <2>5. /\ r.tag = cache.ent[e].tag /\ r.refs = cache.ent[e].refs - 1 /\ r.io = cache.ent[e].io
        /\ r.locked = cache.ent[e].locked /\ r.valid = cache.ent[e].valid /\ r.dirty = cache.ent[e].dirty
    <3>1. cache.ent[e] \in EntryType
      BY <1>2, EntryFields
    <3>. QED
      BY <1>9, <3>1 DEF EntryType
  <2>6. Alone(e)
    BY <1>4, <2>4, <2>5, Zenon DEF Alone
  <2>7. loc'[w].ent # e
    BY <1>7, PoolBounds
  <2>. QED
    BY <1>1, <1>2, <1>4, <1>8, <2>1, <2>2, <2>4, <2>5, <2>6, <2>7, ReturnKeeps
<1>13. \A x \in Entries : x # e => Alone(x) /\ Respects(w, x)
  BY <1>4, <1>11, AlikeAlone, <1>8 DEF Respects, Alike
<1>. QED
  BY <1>1, <1>5, <1>6, <1>8, <1>12, <1>13, OneKeeps DEF Onward

\* The page is read, or the file extended.
LEMMA ReadPageUse ==
  ASSUME UseInv, Typed, NEW w \in Workers, ReadPage(w)
  PROVE  UseInv'
<1>. DEFINE b == Ent(w).buf
<1>1. Others(w) /\ disk' \in Seq(Nat)
  BY ReadPageEffect, Zenon DEF Effect, Moves, Others, StoreTypes
<1>2. map' = map /\ mapLatch' = mapLatch /\ loc' = loc
  BY DEF ReadPage
<1>3. /\ Role(w) /\ pc \in [Workers -> Labels] /\ pc[w] = "readIO" /\ hist \in HistType
      /\ disk \in Seq(Nat) /\ Len(disk) \in Nat /\ latest \in [Pages -> Nat] /\ loc[w].op # "none"
  BY LenProperties DEF UseInv, Typed, Locals, StoreTypes, ReadPage, At, Role
<1>4. PICK e \in Entries : e = loc[w].ent
  BY <1>3, LocFields DEF Typed, LocGood, WithEnt, Ptr
<1>5. PICK t \in Pages : t = loc[w].page
  BY <1>3, LocFields DEF Typed, LocGood, WithEnt
<1>6. t \in Nat
  BY DEF Pages
<1>7. CASE b = 0
  BY <1>2, <1>7, FaultUse DEF ReadPage, data
<1>8. CASE b # 0
  <2>1. cache' = cache /\ pc'[w] \in {"readEnd", "readFailed"}
    BY <1>3, <1>8 DEF ReadPage, Go
  <2>2. /\ hist.raced \subseteq hist'.raced /\ hist'.torn = hist.torn
        /\ \/ Len(disk') = Len(disk)
           \/ /\ Len(disk') = Len(disk) + 1 /\ t = Len(disk) + 1
              /\ map[t] = e \/ t \in hist'.raced
    <3>1. CASE UNCHANGED data
      BY <3>1 DEF data
    <3>2. CASE ~UNCHANGED data
      <4>1. /\ latest' = [latest EXCEPT ![t] = @ + 1] /\ disk' = Written(disk, t, latest'[t])
            /\ hist' = [hist EXCEPT !.raced = IF map[t] = e THEN @ ELSE @ \cup {t}]
        BY <1>4, <1>5, <1>8, <3>2, Zenon DEF ReadPage
      <4>2. PICK v \in Nat : v = latest'[t]
        BY <1>3, <4>1
      <4>3. Len(disk') = IF t > Len(disk) THEN Len(disk) + 1 ELSE Len(disk)
        BY <1>3, <4>1, <4>2, WrittenLen
      <4>4. /\ hist'.raced = (IF map[t] = e THEN hist.raced ELSE hist.raced \cup {t})
            /\ hist'.torn = hist.torn
        BY <1>3, <4>1, Zenon DEF HistType
      <4>5. t <= Len(disk) + 1
        BY <1>3, <1>5 DEF Role
      <4>. QED
        BY <1>3, <1>6, <4>3, <4>4, <4>5
    <3>. QED
      BY <3>1, <3>2
  <2>3. Len(disk') \in Nat /\ Len(disk) <= Len(disk')
    BY <1>1, <1>3, <2>2, LenProperties
  <2>4. Latched(w) /\ Grows
    BY <1>2, <2>2, <2>3 DEF Latched, Grows
  <2>5. Role(w)'
    <3>1. (loc[w].op = "get" => t <= Len(disk')) /\ t <= Len(disk') + 1
      BY <1>3, <1>5, <1>6, <2>3 DEF Role
    <3>. QED
      BY <1>2, <1>3, <1>5, <2>1, <3>1 DEF Role, Inserting, Empty, Vacating, Reading
  <2>6. \A x \in Entries : NoMore(w, x)
    BY <1>3, <2>1, <1>2 DEF Takers, Flushing, Reading, Writing, Inserting, Creating, NoMore, IsPin,
       IsVac, IsTaker, Does, Creates
  <2>7. ASSUME NEW x \in Entries \ hist'.torn PROVE Alone(x)
    <3>1. ASSUME Len(disk') = Len(disk) + 1, t = Len(disk) + 1, map[t] = e \/ t \in hist'.raced,
                 NEW v \in Workers, Creates(v, x)'
          PROVE  FALSE
      <4>1. pc'[w] \notin Creating
        BY <2>1 DEF Creating, Inserting
      <4>2. v # w
        BY <3>1, <4>1, Zenon DEF Creates
      <4>3. Creates(v, x) /\ loc[v].page \notin hist'.raced
        BY <1>1, <2>2, <3>1, <4>2, Zenon DEF Others, Creates
      <4>4. EntryOK(x)
        BY <2>2 DEF UseInv
      <4>5. loc[v].page = t /\ \A u \in Workers : IsPin(u, x) => u = v
        BY <3>1, <4>3, <4>4 DEF EntryOK, CreateOK
      <4>6. IsPin(v, x)
        BY <4>3 DEF Creates, IsPin, Creating, Inserting, Takers
      <4>7. map[t] = x
        BY <4>4, <4>5, <4>6, Zenon DEF EntryOK, MapOK
      <4>8. x = e
        BY <3>1, <4>3, <4>5, <4>7
      <4>9. IsPin(w, x)
        BY <1>3, <1>4, <4>8 DEF IsPin, Takers
      <4>. QED
        BY <4>2, <4>5, <4>9
    <3>2. Len(disk') = Len(disk) \/ \A v \in Workers : ~Creates(v, x)'
      BY <2>2, <3>1
    <3>. QED
      BY <1>2, <2>1, <2>2, <3>2, Zenon DEF Alone
  <2>8. \A x \in Entries : Respects(w, x)
    BY <1>3, <2>1, <1>2 DEF Using, Reading, Respects
  <2>. QED
    BY <1>1, <2>4, <2>5, <2>6, <2>7, <2>8, AllAlone DEF Onward
<1>. QED
  BY <1>7, <1>8

-----------------------------------------------------------------------------
(* The specification                                                        *)

LEMMA InitUse ==
  ASSUME Init
  PROVE  UseInv
<1>1. disk \in Seq(Nat) /\ Len(disk) \in Nat
  BY InitPool, LenProperties DEF PoolInv, StoreTypes
<1>2. ASSUME NEW w \in Workers
      PROVE  pc[w] = "idle" /\ loc[w].op = "none" /\ loc[w].page = 0 /\ loc[w].ent = 0 /\ loc[w].it = 0
  BY DEF Init, NoOp
<1>3. ASSUME NEW w \in Workers PROVE Role(w)
  BY <1>1, <1>2 DEF Inserting, Role
<1>4. ASSUME NEW e \in Entries PROVE EntryOK(e)
  <2>1. /\ \A p \in Pages : map[p] # e
        /\ cache.ent[e].refs = 0 /\ cache.ent[e].io = FALSE
    BY PoolBounds DEF Init, NewEntry
  <2>2. \A w \in Workers : loc[w].ent # e /\ loc[w].it # e
    BY <1>2, PoolBounds
  <2>3. \A w \in Workers : ~IsPin(w, e) /\ ~IsVac(w, e) /\ ~IsTaker(w, e) /\ ~Does(w, e) /\ ~Creates(w, e)
    BY <2>2, Zenon DEF IsPin, IsVac, IsTaker, Does, Creates
  <2>4. PinOK(e)
    BY <2>3, <2>1, FS_EmptySet DEF EntPins, VacPins, PinOK
  <2>5. TakenOK(e) /\ MapOK(e) /\ CreateOK(e)
    BY <2>1, <2>3, Zenon DEF TakenOK, MapOK, CreateOK
  <2>6. InsertOK(e) /\ LockOK(e)
    BY <2>2, Zenon DEF InsertOK, LockOK
  <2>7. IoOK(e)
    BY <2>1, <2>3, Zenon DEF IoOK
  <2>. QED
    BY <2>4, <2>5, <2>6, <2>7 DEF EntryOK
<1>. QED
  BY <1>3, <1>4 DEF UseInv

LEMMA NextUse ==
  ASSUME PoolInv, UseInv, [Next]_vars
  PROVE  UseInv'
<1>0. Typed
  BY DEF PoolInv, Typed
<1>1. CASE UNCHANGED vars
  <2>1. pc' = pc /\ loc' = loc /\ map' = map /\ mapLatch' = mapLatch /\ disk' = disk /\ hist' = hist /\ cache' = cache
    BY <1>1 DEF vars, data, latches
  <2>2. \A w \in Workers : Role(w)'
    BY <2>1, Zenon DEF UseInv, Role
  <2>3. ASSUME NEW e \in Entries \ hist'.torn PROVE EntryOK(e)'
    <3>1. EntryOK(e)
      BY <2>1 DEF UseInv
    <3>2. PinOK(e)'
      BY <2>1, <3>1, Zenon DEF EntryOK, PinOK, EntPins, VacPins, IsPin, IsVac
    <3>3. TakenOK(e)' /\ MapOK(e)'
      BY <2>1, <3>1, Zenon DEF EntryOK, TakenOK, MapOK, IsTaker, IsPin, Clean, Does
    <3>4. InsertOK(e)'
      BY <2>1, <3>1, Zenon DEF EntryOK, InsertOK, IsPin, Clean, Does
    <3>5. CreateOK(e)'
      BY <2>1, <3>1, Zenon DEF EntryOK, CreateOK, Creates, IsPin, Clean, Does
    <3>6. IoOK(e)' /\ LockOK(e)'
      BY <2>1, <3>1, Zenon DEF EntryOK, IoOK, LockOK, Does, IsVac, IsPin
    <3>. QED
      BY <3>2, <3>3, <3>4, <3>5, <3>6, Zenon DEF EntryOK
  <2>. QED
    BY <2>2, <2>3, Zenon DEF UseInv
<1>2. ASSUME NEW w \in Workers,
             \/ StartGet(w) \/ StartExtend(w) \/ Lookup(w)
             \/ LatchGhosts(w) \/ RecencySizes(w) \/ FrequencySizes(w)
             \/ ForgetStart(w) \/ ForgetScan(w) \/ ForgetFree(w)
             \/ Adjust(w) \/ VacateStart(w) \/ VacateScan(w) \/ Flush(w) \/ FlushWrite(w) \/ FlushEnd(w)
             \/ VacateCheck(w) \/ VacateLock(w) \/ Ghostify(w) \/ AddFree(w)
      PROVE  UseInv'
  BY <1>0, <1>2, StartUse, LookupUse, LatchGhostsUse, RecencySizesUse, FrequencySizesUse, WalkUse,
     ForgetScanUse, ForgetFreeUse, AdjustUse, VacateScanUse, FlushUse, FlushWriteUse, FlushEndUse,
     VacateCheckUse, VacateLockUse, GhostifyUse, AddFreeUse
<1>3. ASSUME NEW w \in Workers,
             \/ EvictStart(w) \/ PopTail(w) \/ EvictGhostStart(w) \/ EvictScan(w) \/ ClearEntry(w)
             \/ PrepareEntry(w) \/ CountPages(w) \/ InsertEntry(w) \/ LoadFree(w) \/ TakeFree(w)
             \/ GiveBack(w) \/ FirstToT1(w) \/ ToT1(w)
      PROVE  UseInv'
  BY <1>0, <1>3, WalkUse, PopTailUse, EvictScanUse, ClearEntryUse, PrepareEntryUse, CountPagesUse,
     InsertEntryUse, LoadFreeUse, TakeFreeUse, GiveBackUse, FirstToT1Use, ToT1Use
<1>4. ASSUME NEW w \in Workers,
             \/ Hit(w) \/ ExtendHit(w) \/ CacheHit(w) \/ GhostSizes(w) \/ GhostMove(w)
             \/ StartRead(w) \/ ReadPage(w) \/ ReadEnd(w) \/ ExtendIO(w) \/ Invalidate(w) \/ ExtendStart(w)
             \/ WritePage(w) \/ ReturnBuffer(w)
      PROVE  UseInv'
  BY <1>0, <1>4, HitUse, CacheHitUse, GhostSizesUse, GhostMoveUse, StartReadUse, ReadPageUse, ReadEndUse,
     ExtendIOUse, InvalidateUse, ExtendStartUse, WritePageUse, ReturnBufferUse
<1>. QED
  BY <1>1, <1>2, <1>3, <1>4, Zenon DEF Next

\* Who uses an entry that is not torn: its pins are counted, it is taken by one worker
\* and out of the page table then (evictCacheEntry), the page table has it for its page
\* and for the page of every pin, a new entry is its worker's alone until the latch of
\* its partition is let go, and the I/O flag and the entry lock are locks.
THEOREM UseInvariant == Spec => []UseInv
<1>1. Init => UseInv
  BY InitUse
<1>2. PoolInv /\ UseInv /\ [Next]_vars => UseInv'
  BY NextUse
<1>. QED
  BY <1>1, <1>2, PoolInvariant, PTL DEF Spec

\* IoInProgress is a lock (CacheEntry.cpp:111): at most one worker reads, writes or
\* extends the page of an entry, and the flag is set exactly while one does, for any
\* pool, any number of workers and any failures of the file.
THEOREM IoIsExclusive == Spec => []IoExclusive
<1>1. UseInv => IoExclusive
  BY Zenon DEF UseInv, EntryOK, IoOK, Does, Reading, Writing, IoExclusive
<1>. QED
  BY <1>1, UseInvariant, PTL

\* What a pinned entry has, in a state.
Held == \A w \in Workers : pc[w] = "hold" /\ loc[w].ent \notin hist.torn =>
  /\ cache.ent[loc[w].ent].refs > 0
  /\ cache.ent[loc[w].ent].tag = loc[w].page /\ map[loc[w].page] = loc[w].ent

LEMMA UseHeld == PoolInv /\ UseInv => Held
<1>. SUFFICES ASSUME PoolInv, UseInv, NEW w \in Workers, pc[w] = "hold", loc[w].ent \notin hist.torn
              PROVE  /\ cache.ent[loc[w].ent].refs > 0
                     /\ cache.ent[loc[w].ent].tag = loc[w].page /\ map[loc[w].page] = loc[w].ent
  BY Zenon DEF Held
<1>1. cache \in CacheType /\ loc[w].ent \in Entries
  BY LocFields DEF PoolInv, LocGood, WithEnt, Ptr
<1>2. PICK e \in Entries : e = loc[w].ent
  BY <1>1
<1>3. EntryOK(e) /\ IsPin(w, e)
  BY <1>2 DEF UseInv, IsPin, Takers
<1>4. cache.ent[e].refs > 0
  BY <1>1, <1>3, PinPositive DEF EntryOK
<1>5. loc[w].page \in Pages /\ map[loc[w].page] = e /\ cache.ent[e].tag = loc[w].page
  BY <1>3 DEF EntryOK, MapOK
<1>. QED
  BY <1>2, <1>4, <1>5

\* A step by any worker leaves a pinned entry its buffer.
LEMMA BufferStays ==
  ASSUME PoolInv, UseInv, Next, NEW w \in Workers, pc[w] = "hold", pc'[w] = "hold",
         loc'[w].ent \notin hist'.torn
  PROVE  cache'.ent[loc'[w].ent].buf = cache.ent[loc'[w].ent].buf
<1>1. Typed /\ cache \in CacheType /\ loc[w].ent \in Entries /\ pc \in [Workers -> Labels]
      /\ loc \in [Workers -> LocType] /\ hist \in HistType
  BY LocFields DEF PoolInv, Typed, LocGood, WithEnt, Ptr, Locals, StoreTypes
<1>2. PICK v \in Workers :
        \/ Effect(v) /\ (v # w \/ WritePage(v) \/ pc'[v] # "hold")
        \/ Ghostify(v) \/ TakeFree(v) \/ AddFree(v)
  <2>1. PICK v \in Workers :
             \/ StartGet(v) \/ StartExtend(v) \/ Lookup(v)
             \/ LatchGhosts(v) \/ RecencySizes(v) \/ FrequencySizes(v)
             \/ ForgetStart(v) \/ ForgetScan(v) \/ ForgetFree(v)
             \/ Adjust(v) \/ VacateStart(v) \/ VacateScan(v) \/ Flush(v) \/ FlushWrite(v) \/ FlushEnd(v)
             \/ VacateCheck(v) \/ VacateLock(v) \/ Ghostify(v) \/ AddFree(v)
             \/ EvictStart(v) \/ PopTail(v) \/ EvictGhostStart(v) \/ EvictScan(v) \/ ClearEntry(v)
             \/ PrepareEntry(v) \/ CountPages(v) \/ InsertEntry(v) \/ LoadFree(v) \/ TakeFree(v)
             \/ GiveBack(v) \/ FirstToT1(v) \/ ToT1(v)
             \/ Hit(v) \/ ExtendHit(v) \/ CacheHit(v) \/ GhostSizes(v) \/ GhostMove(v)
             \/ StartRead(v) \/ ReadPage(v) \/ ReadEnd(v) \/ ExtendIO(v) \/ Invalidate(v) \/ ExtendStart(v)
             \/ WritePage(v) \/ ReturnBuffer(v)
    BY Zenon DEF Next
  <2>2. Effect(v) \/ Ghostify(v) \/ TakeFree(v) \/ AddFree(v)
    BY <1>1, <2>1, StartEffect, LookupEffect, LatchGhostsEffect, RecencySizesEffect, FrequencySizesEffect,
       WalkEffect, ForgetScanEffect, ForgetFreeEffect, AdjustEffect, VacateScanEffect, FlushEffect,
       FlushWriteEffect, FlushEndEffect, VacateCheckEffect, VacateLockEffect,
       PopTailEffect, EvictScanEffect, ClearEntryEffect, PrepareEntryEffect,
       CountPagesEffect, InsertEntryEffect, LoadFreeEffect, GiveBackEffect, ToT1Effect,
       HitEffect, CacheHitEffect, GhostSizesEffect, GhostMoveEffect, StartReadEffect,
       ReadPageEffect, ReadEndEffect, ExtendEffect, WritePageEffect, ReturnBufferEffect
  <2>3. v = w => WritePage(v) \/ ReturnBuffer(v)
    BY <2>1 DEF StartGet, StartExtend, Lookup, LatchGhosts, RecencySizes, FrequencySizes, ForgetStart,
       ForgetScan, ForgetFree, Adjust, VacateStart, VacateScan, Flush, FlushWrite, FlushEnd, VacateCheck,
       VacateLock, Ghostify, AddFree, EvictStart, PopTail, EvictGhostStart, EvictScan, ClearEntry,
       PrepareEntry, CountPages, InsertEntry, LoadFree, TakeFree, GiveBack, FirstToT1, ToT1, Hit, ExtendHit,
       CacheHit, GhostSizes, GhostMove, StartRead, ReadPage, ReadEnd, ExtendIO, Invalidate, ExtendStart, At
  <2>4. ReturnBuffer(v) => pc'[v] = "idle"
    BY <1>1 DEF ReturnBuffer, Go
  <2>. QED
    BY <2>2, <2>3, <2>4
<1>3. CASE Effect(v) /\ (v # w \/ WritePage(v) \/ pc'[v] # "hold")
  <2>1. loc'[w].ent \in Entries
    BY <1>3, <1>1 DEF Effect, Moves, WritePage
  <2>. QED
    BY <1>3, <2>1 DEF Effect, Same
<1>4. PICK e \in Entries : e = loc[w].ent
  BY <1>1
<1>5. IsPin(w, e)
  BY <1>4 DEF IsPin, Takers
<1>6. CASE Ghostify(v)
  <2>1. pc[v] = "ghostify" /\ loc[v].it \in Entries
    BY <1>1, <1>6, LocFields DEF Ghostify, At, LocGood, WithIt, Ptr, Typed
  <2>2. PICK d \in Entries : d = loc[v].it
    BY <2>1
  <2>3. loc'[w].ent = e /\ hist'.torn = hist.torn
    BY <1>1, <1>4, <1>6, <2>1 DEF Ghostify, LocType, HistType
  <2>4. e # d
    <3>1. EntryOK(e)
      BY <2>3 DEF UseInv
    <3>. QED
      BY <1>5, <2>1, <2>2, <3>1 DEF EntryOK, LockOK, Using
  <2>. QED
    <3>1. PICK g \in CacheType : g = Unpin(cache, d) /\ \A x \in Entries : g.ent[x].buf = cache.ent[x].buf
      BY <1>1, PinSame DEF Same
    <3>2. PICK b \in BOOLEAN : b = (loc[v].list = "T2")
      OBVIOUS
    <3>3. PICK c \in CacheType : c = GhostOf(g, d, b) /\ \A x \in Entries \ {d} : c.ent[x] = g.ent[x]
      BY GhostEntry
    <3>4. cache' = InsertMRU(c, GhostList(v), d)
      BY <1>6, <2>2, <3>1, <3>2, <3>3, Zenon DEF Ghostify, GhostOf
    <3>5. GhostList(v) \in Lists
      BY DEF GhostList, Lists
    <3>6. cache'.ent[e].buf = c.ent[e].buf
      BY <3>4, <3>5, InsertSame DEF Same
    <3>. QED
      BY <2>3, <2>4, <3>1, <3>3, <3>6
<1>7. CASE TakeFree(v)
  <2>1. pc[v] = "takeFree" /\ loc[v].ent \in Entries
    BY <1>1, <1>7, LocFields DEF TakeFree, At, LocGood, WithEnt, Ptr, Typed
  <2>2. PICK d \in Entries : d = loc[v].ent
    BY <2>1
  <2>3. v # w
    BY <2>1
  <2>4. loc'[w].ent = e /\ hist'.torn = hist.torn
    BY <1>1, <1>4, <1>7, <2>3 DEF TakeFree, HistType
  <2>5. e # d
    <3>1. EntryOK(e)
      BY <2>4 DEF UseInv
    <3>. QED
      BY <1>5, <2>1, <2>2, <2>3, <3>1 DEF EntryOK, InsertOK, Inserting
  <2>6. \/ cache' = cache
        \/ cache' = [cache EXCEPT !.ent[d] = [@ EXCEPT !.buf = loc[v].buf, !.locked = TRUE]]
        \/ cache' = [cache EXCEPT !.ent[d].buf = loc[v].buf]
    BY <1>7, <2>2, Zenon DEF TakeFree
  <2>. QED
    BY <1>1, <2>4, <2>5, <2>6 DEF CacheType
<1>8. CASE AddFree(v)
  BY <1>8, <1>1, <1>4 DEF AddFree, At, Fault, CacheType
<1>. QED
  BY <1>2, <1>3, <1>6, <1>7, <1>8

\* "pin ensures that no-one will evict this entry" (BufferManager.cpp:566): from the
\* return of GetBuffer or ExtendRelation to ReturnBuffer the entry is pinned, is the
\* page table's entry for the page and keeps its buffer, for any pool and any workers.
THEOREM PinnedEntryStays == Spec => PinnedStays
<1>. DEFINE Stays ==
       \A w \in Workers :
         LET e == loc'[w].ent IN
         (pc'[w] = "hold" /\ e \notin hist'.torn) =>
           /\ cache'.ent[e].refs > 0
           /\ cache'.ent[e].tag = loc'[w].page /\ map'[loc'[w].page] = e
           /\ pc[w] = "hold" => cache'.ent[e].buf = cache.ent[e].buf
<1>1. PoolInv /\ UseInv /\ Held' /\ [Next]_vars => [Stays]_vars
  <2>. SUFFICES ASSUME PoolInv, UseInv, Held', Next
                PROVE  Stays
    BY Zenon
  <2>1. ASSUME NEW w \in Workers, pc'[w] = "hold", loc'[w].ent \notin hist'.torn
        PROVE  /\ cache'.ent[loc'[w].ent].refs > 0
               /\ cache'.ent[loc'[w].ent].tag = loc'[w].page /\ map'[loc'[w].page] = loc'[w].ent
               /\ pc[w] = "hold" => cache'.ent[loc'[w].ent].buf = cache.ent[loc'[w].ent].buf
    BY <2>1, BufferStays DEF Held
  <2>. QED
    BY <2>1, Zenon
<1>2. PoolInv /\ UseInv => Held
  BY UseHeld
<1>3. Spec => [][Stays]_vars
  BY <1>1, <1>2, PoolInvariant, UseInvariant, PTL DEF Spec
<1>. QED
  BY <1>3, Zenon DEF PinnedStays

-----------------------------------------------------------------------------
(* What is in the buffers                                                   *)

\* Nothing went wrong with the page.
Sound(h, t) == t \notin h.unmarked \cup h.raced \cup h.dropped /\ ~h.aba

\* The pages of torn entries are given up.
TornOK(e) == e \in hist.torn =>
  /\ cache.ent[e].tag \in hist.dropped \cup {0}
  /\ \A p \in Pages : map[p] = e => p \in hist.dropped
  /\ \A w \in Workers : IsPin(w, e) => loc[w].page \in hist.dropped

\* A dirty entry is the page table's entry for its page; what is written is dirty.
DirtyOK(e) == e \notin hist.torn =>
  /\ cache.ent[e].dirty /\ Sound(hist, cache.ent[e].tag) => cache.ent[e].tag \in Pages /\ map[cache.ent[e].tag] = e
  /\ cache.ent[e].tag \notin hist.raced =>
       \A w \in Workers : loc[w].it = e /\ pc[w] \in Writing => cache.ent[e].dirty

\* A valid buffer has the last version of the page, and the file has it unless the
\* buffer is dirty.
PageOK(t) == Sound(hist, t) =>
  LET r == cache.ent[map[t]] IN
  /\ map[t] # 0 /\ r.valid => t \in DOMAIN disk /\ (r.buf # 0 => bufs[r.buf].version = latest[t])
  /\ t \in DOMAIN disk => disk[t] = latest[t] \/ (map[t] # 0 /\ r.valid /\ r.dirty /\ r.buf # 0)

\* The user of a page has a valid one; what is read is not valid before it has been read.
CallOK(w) == Sound(hist, loc[w].page) =>
  LET r == cache.ent[loc[w].ent]
      t == loc[w].page IN
  /\ pc[w] = "hold" => r.valid /\ t \in DOMAIN disk
  /\ pc[w] \in Reading => ~r.valid
  /\ pc[w] = "readEnd" => t \in DOMAIN disk /\ (r.buf # 0 => bufs[r.buf].version = latest[t])

\* What has been written is not changed before the end of the I/O.
FlushOK(w) ==
  LET r == cache.ent[loc[w].it] IN
  pc[w] = "flushEnd" /\ loc[w].it \notin hist.torn /\ Sound(hist, r.tag) =>
    /\ r.tag \in DOMAIN disk /\ disk[r.tag] = latest[r.tag]
    /\ r.valid /\ r.buf # 0 /\ pageLatch[r.buf] = w

DataInv == /\ \A e \in Entries : TornOK(e) /\ DirtyOK(e)
           /\ \A t \in Pages : PageOK(t)
           /\ \A w \in Workers : CallOK(w) /\ FlushOK(w)

\* An entry that keeps what is in its buffer.
Fixed(e) == /\ cache'.ent[e].tag = cache.ent[e].tag /\ cache'.ent[e].dirty = cache.ent[e].dirty
            /\ cache'.ent[e].valid = cache.ent[e].valid /\ cache'.ent[e].buf = cache.ent[e].buf

\* A page that keeps its versions, unless it is given up.
Kind(p) == /\ map'[p] = map[p]
           /\ Sound(hist', p) => latest'[p] = latest[p] /\ (p \in DOMAIN disk' <=> p \in DOMAIN disk)
           /\ Sound(hist', p) /\ p \in DOMAIN disk => disk'[p] = disk[p]

\* What happened is not forgotten.
HistGrows == /\ hist.unmarked \subseteq hist'.unmarked /\ hist.raced \subseteq hist'.raced
             /\ hist.dropped \subseteq hist'.dropped /\ hist.torn \subseteq hist'.torn
             /\ hist.aba => hist'.aba

\* A step of a worker that touches the entries D, the page t, if it is one, and the
\* buffers of the entries D.
Frame(w, D, t) ==
  /\ Others(w) /\ HistGrows
  /\ \A x \in Entries \ D : Fixed(x) /\ (x \in hist'.torn => x \in hist.torn)
  /\ \A p \in Pages \ {t} : Kind(p)
  /\ \A b \in Buffers : bufs'[b].version = bufs[b].version \/ \E d \in D : cache.ent[d].buf = b
  /\ \A b \in Buffers : pageLatch[b] \notin {w, NoWorker} => pageLatch'[b] = pageLatch[b]
  /\ t \in Pages => map'[t] \in D \cup {0, map[t]}
  /\ t \in Pages /\ Sound(hist', t) => map[t] \in D \cup {0}
  /\ \A d \in D : d \notin hist.torn /\ Sound(hist', cache.ent[d].tag)
       => cache.ent[d].tag = t \/ \A p \in Pages : map[p] # d

LEMMA SoundBack ==
  ASSUME HistGrows, NEW t, Sound(hist', t)
  PROVE  Sound(hist, t)
BY DEF HistGrows, Sound

\* The entry of a page with which nothing went wrong.
LEMMA SoundMap ==
  ASSUME UseInv, DataInv, NEW t \in Pages, Sound(hist, t), NEW e \in Entries, map[t] = e
  PROVE  e \notin hist.torn /\ EntryOK(e) /\ cache.ent[e].tag = t
  BY DEF DataInv, TornOK, Sound, UseInv, EntryOK, MapOK

LEMMA SoundPin ==
  ASSUME UseInv, DataInv, NEW w \in Workers, NEW e \in Entries, IsPin(w, e), Sound(hist, loc[w].page)
  PROVE  /\ e \notin hist.torn /\ EntryOK(e) /\ loc[w].page \in Pages
         /\ map[loc[w].page] = e /\ cache.ent[e].tag = loc[w].page
  BY DEF DataInv, TornOK, Sound, UseInv, EntryOK, MapOK

\* A user or a reader has pinned its entry.
LEMMA UserPins ==
  ASSUME Typed, NEW w \in Workers, pc[w] \in Reading \cup {"hold"}
  PROVE  loc[w].ent \in Entries /\ IsPin(w, loc[w].ent)
<1>1. loc[w].ent \in Entries
  BY LocFields DEF Typed, LocGood, WithEnt, Ptr, Reading
<1>. QED
  BY <1>1 DEF IsPin, Takers, Reading

\* One buffer, one entry.
LEMMA OneBuffer ==
  ASSUME PoolInv, NEW t, Sound(hist, t), NEW d \in Entries, NEW e \in Entries, d # e, cache.ent[e].buf # 0
  PROVE  cache.ent[d].buf # cache.ent[e].buf
BY DEF PoolInv, Owners, Sound

\* The pages that the step does not touch.
LEMMA FramePages ==
  ASSUME PoolInv, UseInv, DataInv, NEW w \in Workers, NEW D \in SUBSET Entries, NEW t, Frame(w, D, t),
         NEW p \in Pages, p # t
  PROVE  PageOK(p)'
<1>. SUFFICES ASSUME Sound(hist', p)
              PROVE  LET r == cache'.ent[map'[p]] IN
                     /\ map'[p] # 0 /\ r.valid
                          => p \in DOMAIN disk' /\ (r.buf # 0 => bufs'[r.buf].version = latest'[p])
                     /\ p \in DOMAIN disk'
                          => disk'[p] = latest'[p] \/ (map'[p] # 0 /\ r.valid /\ r.dirty /\ r.buf # 0)
  BY Zenon DEF PageOK
<1>1. Sound(hist, p) /\ Kind(p)
  BY SoundBack DEF Frame
<1>2. /\ latest'[p] = latest[p] /\ map'[p] = map[p] /\ (p \in DOMAIN disk' <=> p \in DOMAIN disk)
      /\ p \in DOMAIN disk => disk'[p] = disk[p]
  BY <1>1 DEF Kind
<1>3. PageOK(p)
  BY DEF DataInv
<1>4. CASE map[p] = 0
  BY <1>1, <1>2, <1>3, <1>4, Zenon DEF PageOK
<1>5. CASE map[p] # 0
  <2>1. PICK e \in Entries : e = map[p]
    BY <1>5 DEF PoolInv, StoreTypes, Ptr
  <2>2. e \notin hist.torn /\ cache.ent[e].tag = p
    BY <1>1, <2>1, SoundMap
  <2>3. e \notin D
    BY <2>1, <2>2 DEF Frame
  <2>4. Fixed(e)
    BY <2>3 DEF Frame
  <2>5. cache.ent[e].buf # 0 => bufs'[cache.ent[e].buf].version = bufs[cache.ent[e].buf].version
    <3>1. cache.ent[e].buf \in BufPtr
      BY EntryFields DEF PoolInv
    <3>2. ASSUME cache.ent[e].buf # 0, NEW d \in D PROVE cache.ent[d].buf # cache.ent[e].buf
      BY <1>1, <2>3, <3>2, OneBuffer
    <3>. QED
      BY <3>1, <3>2 DEF Frame, BufPtr
  <2>. QED
    BY <1>1, <1>2, <1>3, <2>1, <2>4, <2>5, Zenon DEF PageOK, Fixed
<1>. QED
  BY <1>4, <1>5

\* The calls of the others for other pages.
LEMMA FrameCalls ==
  ASSUME PoolInv, UseInv, DataInv, NEW w \in Workers, NEW D \in SUBSET Entries, NEW t, Frame(w, D, t),
         NEW v \in Workers \ {w}, loc[v].page # t
  PROVE  CallOK(v)'
<1>1. pc'[v] = pc[v] /\ loc'[v] = loc[v] /\ CallOK(v)
  BY DEF Frame, Others, DataInv
<1>2. CASE pc[v] \notin Reading \cup {"hold"} \/ ~Sound(hist', loc[v].page)
  BY <1>2, <1>1 DEF Reading, CallOK, Sound
<1>3. CASE pc[v] \in Reading \cup {"hold"} /\ Sound(hist', loc[v].page)
  <2>1. PICK e \in Entries : e = loc[v].ent /\ IsPin(v, e)
    BY <1>3, UserPins DEF PoolInv, Typed
  <2>2. PICK p : p = loc[v].page
    OBVIOUS
  <2>3. Sound(hist', p) /\ Sound(hist, p)
    BY <1>3, <2>2, SoundBack DEF Frame
  <2>4. e \notin hist.torn /\ cache.ent[e].tag = p /\ p \in Pages /\ map[p] = e
    BY <2>1, <2>2, <2>3, SoundPin
  <2>5. e \notin D
    BY <2>2, <2>3, <2>4 DEF Frame
  <2>6. Fixed(e) /\ Kind(p)
    BY <2>2, <2>4, <2>5 DEF Frame
  <2>7. cache.ent[e].buf # 0 => bufs'[cache.ent[e].buf].version = bufs[cache.ent[e].buf].version
    <3>1. cache.ent[e].buf \in BufPtr
      BY EntryFields DEF PoolInv
    <3>2. ASSUME cache.ent[e].buf # 0, NEW d \in D PROVE cache.ent[d].buf # cache.ent[e].buf
      BY <2>3, <2>5, <3>2, OneBuffer
    <3>. QED
      BY <3>1, <3>2 DEF Frame, BufPtr
  <2>. QED
    BY <1>1, <2>1, <2>2, <2>3, <2>6, <2>7, Zenon DEF CallOK, Fixed, Kind
<1>. QED
  BY <1>2, <1>3

\* The flushes of the others of other entries.
LEMMA FrameFlushes ==
  ASSUME PoolInv, UseInv, DataInv, NEW w \in Workers, NEW D \in SUBSET Entries, NEW t, Frame(w, D, t),
         NEW v \in Workers \ {w}, loc[v].it \notin D
  PROVE  FlushOK(v)'
<1>1. pc'[v] = pc[v] /\ loc'[v] = loc[v] /\ FlushOK(v)
  BY DEF Frame, Others, DataInv
<1>2. CASE pc[v] # "flushEnd"
  BY <1>1, <1>2, Zenon DEF FlushOK
<1>3. CASE pc[v] = "flushEnd"
  <2>1. loc[v].it \in Entries
    BY <1>3, LocFields DEF PoolInv, Typed, LocGood, WithIt, Ptr
  <2>2. PICK e \in Entries : e = loc[v].it
    BY <2>1
  <2>3. Fixed(e) /\ (e \in hist.torn <=> e \in hist'.torn)
    BY <2>2 DEF Frame, HistGrows
  <2>4. PICK p : p = cache.ent[e].tag
    OBVIOUS
  <2>5. CASE e \notin hist.torn /\ Sound(hist', p)
    <3>1. Sound(hist, p)
      BY <2>5, SoundBack DEF Frame
    <3>2. p \in DOMAIN disk /\ disk[p] = latest[p] /\ cache.ent[e].valid /\ cache.ent[e].buf # 0
          /\ pageLatch[cache.ent[e].buf] = v
      BY <1>1, <1>3, <2>2, <2>4, <2>5, <3>1, Zenon DEF FlushOK
    <3>3. DirtyOK(e)
      BY DEF DataInv
    <3>4. p \notin hist.raced
      BY <3>1 DEF Sound
    <3>5. cache.ent[e].dirty
      BY <1>3, <2>2, <2>4, <2>5, <3>3, <3>4 DEF DirtyOK, Writing
    <3>6. p \in Pages /\ map[p] = e
      BY <2>4, <2>5, <3>1, <3>3, <3>5 DEF DirtyOK
    <3>7. p # t
      BY <2>2, <2>5, <3>6, PoolBounds DEF Frame
    <3>8. Kind(p)
      BY <3>6, <3>7 DEF Frame
    <3>9. cache.ent[e].buf \in Buffers
      BY <3>2, EntryFields DEF PoolInv, BufPtr
    <3>10. pageLatch'[cache.ent[e].buf] = v
      BY <3>2, <3>9, PoolAssumption DEF Frame
    <3>11. p \in DOMAIN disk' /\ disk'[p] = latest'[p]
      BY <2>5, <3>2, <3>8 DEF Kind
    <3>12. /\ cache'.ent[e].tag = p /\ cache'.ent[e].valid /\ cache'.ent[e].buf # 0
           /\ pageLatch'[cache'.ent[e].buf] = v
      BY <2>3, <2>4, <3>2, <3>10 DEF Fixed
    <3>. QED
      BY <1>1, <2>2, <3>11, <3>12, Zenon DEF FlushOK
  <2>6. CASE ~(e \notin hist.torn /\ Sound(hist', p))
    BY <1>1, <2>2, <2>3, <2>4, <2>6, Zenon DEF FlushOK, Fixed, Sound
  <2>. QED
    BY <2>5, <2>6
<1>. QED
  BY <1>2, <1>3

\* The worker pins no torn entry, but for a page that is given up, and begins no write.
Attached(w, x) ==
  /\ x \in hist.torn /\ IsPin(w, x)' => loc'[w].page \in hist'.dropped
  /\ loc'[w].it = x /\ pc'[w] \in Writing => loc[w].it = x /\ pc[w] \in Writing

\* The entries that the step does not touch.
LEMMA FrameEntries ==
  ASSUME PoolInv, UseInv, DataInv, NEW w \in Workers, NEW D \in SUBSET Entries, NEW t, Frame(w, D, t),
         NEW x \in Entries \ D, Attached(w, x)
  PROVE  TornOK(x)' /\ DirtyOK(x)'
<1>1. Fixed(x) /\ (x \in hist'.torn <=> x \in hist.torn) /\ TornOK(x) /\ DirtyOK(x)
  BY DEF Frame, HistGrows, DataInv
<1>2. \A p \in Pages : map'[p] = x => map[p] = x
  BY PoolBounds DEF Frame, Kind
<1>3. ASSUME x \in hist.torn, NEW v \in Workers, IsPin(v, x)' PROVE loc'[v].page \in hist'.dropped
  <2>1. CASE v = w
    BY <1>3, <2>1 DEF Attached
  <2>2. CASE v # w
    BY <1>3, <2>2, <1>1 DEF Frame, Others, IsPin, TornOK, HistGrows
  <2>. QED
    BY <2>1, <2>2
<1>4. TornOK(x)'
  <2>1. ASSUME x \in hist.torn
        PROVE  /\ cache'.ent[x].tag \in hist'.dropped \cup {0}
               /\ \A p \in Pages : map'[p] = x => p \in hist'.dropped
               /\ \A v \in Workers : IsPin(v, x)' => loc'[v].page \in hist'.dropped
    BY <1>1, <1>2, <1>3, <2>1 DEF TornOK, Fixed, Frame, HistGrows
  <2>. QED
    BY <1>1, <2>1, Zenon DEF TornOK
<1>5. ASSUME x \notin hist.torn, cache.ent[x].dirty, Sound(hist', cache.ent[x].tag)
      PROVE  cache.ent[x].tag \in Pages /\ map'[cache.ent[x].tag] = x
  <2>1. PICK p : p = cache.ent[x].tag
    OBVIOUS
  <2>2. Sound(hist', p) /\ Sound(hist, p)
    BY <1>5, <2>1, SoundBack DEF Frame
  <2>3. p \in Pages /\ map[p] = x
    BY <1>1, <1>5, <2>1, <2>2 DEF DirtyOK
  <2>4. p # t
    BY <2>2, <2>3, PoolBounds DEF Frame
  <2>5. Kind(p)
    BY <2>3, <2>4 DEF Frame
  <2>. QED
    BY <2>1, <2>3, <2>5 DEF Kind
<1>6. ASSUME x \notin hist.torn, cache.ent[x].tag \notin hist'.raced, NEW v \in Workers,
             loc'[v].it = x, pc'[v] \in Writing
      PROVE  cache.ent[x].dirty
  BY <1>6, <1>1 DEF Frame, Others, Attached, HistGrows, DirtyOK
<1>7. DirtyOK(x)'
  BY <1>1, <1>5, <1>6, Zenon DEF DirtyOK, Fixed, Sound
<1>. QED
  BY <1>4, <1>7

\* A worker that neither uses nor reads a page, and one that has written none.
LEMMA NoCall ==
  ASSUME NEW w \in Workers, pc'[w] \notin Reading \cup {"hold"}
  PROVE  CallOK(w)'
  BY DEF Reading, CallOK

LEMMA NoFlush ==
  ASSUME NEW w \in Workers, pc'[w] # "flushEnd"
  PROVE  FlushOK(w)'
BY Zenon DEF FlushOK

\* A step keeps the invariant when it does so for what it touches.
LEMMA FrameAll ==
  ASSUME PoolInv, UseInv, DataInv, NEW w \in Workers, NEW D \in SUBSET Entries, NEW t, Frame(w, D, t),
         \A x \in Entries \ D : Attached(w, x),
         \A d \in D : TornOK(d)' /\ DirtyOK(d)',
         t \in Pages => PageOK(t)', CallOK(w)', FlushOK(w)',
         \A v \in Workers \ {w} : t \in Pages /\ loc[v].page = t /\ pc[v] \in Reading \cup {"hold"} => CallOK(v)',
         \A v \in Workers \ {w} : loc[v].it \in D /\ pc[v] = "flushEnd" => FlushOK(v)'
  PROVE  DataInv'
<1>1. \A e \in Entries : TornOK(e)' /\ DirtyOK(e)'
  BY FrameEntries
<1>2. \A p \in Pages : PageOK(p)'
  BY FramePages
<1>3. ASSUME NEW v \in Workers PROVE CallOK(v)'
  <2>1. CASE v = w
    BY <2>1
  <2>2. CASE v # w /\ pc[v] \notin Reading \cup {"hold"}
    <3>1. pc'[v] = pc[v]
      BY <2>2 DEF Frame, Others
    <3>. QED
      BY <2>2, <3>1, NoCall
  <2>3. CASE v # w /\ pc[v] \in Reading \cup {"hold"}
    <3>1. loc[v].page \in Pages
      BY <2>3, LocFields DEF PoolInv, Locals, LocGood, WithEnt, Reading
    <3>. QED
      BY <2>3, <3>1, FrameCalls
  <2>. QED
    BY <2>1, <2>2, <2>3
<1>4. ASSUME NEW v \in Workers PROVE FlushOK(v)'
  <2>1. CASE v = w
    BY <2>1
  <2>2. CASE v # w /\ pc[v] # "flushEnd"
    <3>1. pc'[v] = pc[v]
      BY <2>2 DEF Frame, Others
    <3>. QED
      BY <2>2, <3>1, NoFlush
  <2>3. CASE v # w /\ pc[v] = "flushEnd"
    BY <2>3, FrameFlushes
  <2>. QED
    BY <2>1, <2>2, <2>3
<1>. QED
  BY <1>1, <1>2, <1>3, <1>4, Zenon DEF DataInv

-----------------------------------------------------------------------------
(* Steps that leave the buffers                                             *)

\* Nothing is written, read or taken out of the page table.
Calm(w) == /\ map' = map /\ disk' = disk /\ latest' = latest /\ HistGrows /\ hist'.torn = hist.torn
           /\ \A b \in Buffers : bufs'[b].version = bufs[b].version
           /\ pageLatch' = pageLatch \/ pageLatch' = DropAll(pageLatch, w)

\* The worker neither uses nor reads nor writes a page.
Away(w) == pc'[w] \notin Reading \cup Writing \cup {"hold"}

\* It has no entry, the one it had, or the page table's one for its page.
Holds(w) == \/ pc'[w] \in Takers \/ loc'[w].ent = 0
            \/ pc[w] \notin Takers /\ loc'[w].ent = loc[w].ent /\ loc'[w].page = loc[w].page
            \/ loc'[w].page \in Pages /\ map[loc'[w].page] = loc'[w].ent

LEMMA HoldsAttached ==
  ASSUME DataInv, NEW w \in Workers, Away(w), Holds(w), HistGrows, NEW x \in Entries
  PROVE  Attached(w, x)
<1>1. x # 0 /\ TornOK(x)
  BY PoolBounds DEF DataInv
<1>2. ASSUME x \in hist.torn, IsPin(w, x)' PROVE loc'[w].page \in hist'.dropped
  BY <1>2, <1>1 DEF IsPin, TornOK, HistGrows, Holds
<1>3. pc'[w] \notin Writing
  BY DEF Away
<1>. QED
  BY <1>2, <1>3 DEF Attached

\* The latches of the others.
LEMMA LatchesStay ==
  ASSUME LatchTypes, NEW w \in Workers, pageLatch' = pageLatch \/ pageLatch' = DropAll(pageLatch, w)
  PROVE  \A b \in Buffers : pageLatch[b] \notin {w, NoWorker} => pageLatch'[b] = pageLatch[b]
BY DEF LatchTypes, DropAll

LEMMA CalmKeeps ==
  ASSUME PoolInv, UseInv, DataInv, NEW w \in Workers, Others(w), Calm(w), \A x \in Entries : Fixed(x),
         Away(w), Holds(w)
  PROVE  DataInv'
<1>1. \A b \in Buffers : pageLatch[b] \notin {w, NoWorker} => pageLatch'[b] = pageLatch[b]
  BY LatchesStay DEF PoolInv, Calm
<1>2. \A p \in Pages : Kind(p)
  BY DEF Calm, Kind
<1>3. Frame(w, {}, 0)
  BY <1>1, <1>2, PoolBounds DEF Frame, Calm
<1>4. \A x \in Entries : Attached(w, x)
  BY HoldsAttached DEF Calm
<1>5. pc'[w] \notin Reading \cup {"hold"} /\ pc'[w] # "flushEnd"
  BY DEF Away, Writing
<1>6. CallOK(w)' /\ FlushOK(w)'
  BY <1>5, NoCall, NoFlush
<1>. QED
  BY <1>3, <1>4, <1>6, FrameAll, PoolBounds

\* The entries of a cache that stays, of one whose lists have changed, and of one
\* with another entry.
LEMMA FixedSame == cache'.ent = cache.ent => \A x \in Entries : Fixed(x)
BY DEF Fixed

LEMMA FixedCore == Core(cache, cache') /\ Same(cache, cache') => \A x \in Entries : Fixed(x)
BY DEF Fixed, Core, Alike, Same

LEMMA FixedOne ==
  ASSUME NEW d \in CacheType, Core(cache, d), NEW e \in Entries, NEW r, cache' = [d EXCEPT !.ent[e] = r],
         r.tag = d.ent[e].tag, r.dirty = d.ent[e].dirty, r.valid = d.ent[e].valid, Same(cache, cache')
  PROVE  \A x \in Entries : Fixed(x)
  BY OneEntry DEF Fixed, Core, Alike, Same

\* The end of the process, and a step that is none.
LEMMA FaultData ==
  ASSUME DataInv, cache'.ent = cache.ent, pc' = pc, loc' = loc, map' = map, disk' = disk, latest' = latest,
         hist' = hist, bufs' = bufs, pageLatch' = pageLatch
  PROVE  DataInv'
<1>1. \A e \in Entries : TornOK(e)' /\ DirtyOK(e)'
  BY Zenon DEF DataInv, TornOK, DirtyOK, IsPin, Sound
<1>2. \A t \in Pages : PageOK(t)'
  BY Zenon DEF DataInv, PageOK, Sound
<1>3. \A w \in Workers : CallOK(w)' /\ FlushOK(w)'
  BY Zenon DEF DataInv, CallOK, FlushOK, Sound
<1>. QED
  BY <1>1, <1>2, <1>3, Zenon DEF DataInv

LEMMA FaultEnts == ASSUME cache \in CacheType, Fault PROVE cache'.ent = cache.ent
BY DEF Fault, CacheType

LEMMA CalmRest ==
  ASSUME NEW w \in Workers, map' = map, Rest, bufs' = bufs,
         pageLatch' = pageLatch \/ pageLatch' = DropAll(pageLatch, w)
  PROVE  Calm(w)
BY DEF Calm, Rest, data, HistGrows

\* The worker goes on with the entry that it has, or without one.
LEMMA CalmSame ==
  ASSUME PoolInv, UseInv, DataInv, NEW w \in Workers, Others(w), Calm(w), cache' = cache, Away(w), Holds(w)
  PROVE  DataInv'
BY FixedSame, CalmKeeps

LEMMA CalmCore ==
  ASSUME PoolInv, UseInv, DataInv, NEW w \in Workers, Others(w), Calm(w), Core(cache, cache'),
         Same(cache, cache'), Away(w), Holds(w)
  PROVE  DataInv'
BY FixedCore, CalmKeeps

\* An exception
LEMMA ThrowAway ==
  ASSUME PoolInv, NEW w \in Workers, Throw(w)
  PROVE  Away(w) /\ Holds(w) /\ pageLatch' = DropAll(pageLatch, w)
  BY DEF Throw, Over, Go, PoolInv, Locals, NoOp, Away, Holds, Reading, Writing

LEMMA PoolTyped == PoolInv => Typed /\ Locals /\ pc \in [Workers -> Labels] /\ loc \in [Workers -> LocType]
BY DEF PoolInv, Typed, Locals

\* The start of GetBuffer and ExtendRelation
LEMMA StartData ==
  ASSUME PoolInv, UseInv, DataInv, NEW w \in Workers, StartGet(w) \/ StartExtend(w)
  PROVE  DataInv'
<1>1. Others(w)
  BY PoolTyped, StartEffect, Zenon DEF Effect, Moves, Others
<1>2. Calm(w) /\ cache' = cache
  BY DEF StartGet, StartExtend, Calm, data, latches, HistGrows
<1>3. pc'[w] \in {"lookup", "pre1"}
  BY PoolTyped DEF StartGet, StartExtend, Go
<1>4. loc'[w].ent = 0
  BY PoolTyped DEF StartGet, NoOp, StartExtend
<1>. QED
  BY <1>1, <1>2, <1>3, <1>4, CalmSame DEF Away, Holds, Reading, Writing

\* preinsertCleanup
LEMMA SizesData ==
  ASSUME PoolInv, UseInv, DataInv, NEW w \in Workers,
         LatchGhosts(w) \/ RecencySizes(w) \/ FrequencySizes(w)
  PROVE  DataInv'
<1>1. Others(w)
  BY PoolTyped, LatchGhostsEffect, RecencySizesEffect, FrequencySizesEffect, Zenon DEF Effect, Moves, Others
<1>2. Calm(w) /\ cache' = cache
  BY CalmRest DEF LatchGhosts, RecencySizes, FrequencySizes
<1>3. pc'[w] \in {"pre2", "pre4", "forget", "vacate", "pre3", "evict", "adjust"} /\ pc[w] \notin Takers
  BY PoolTyped DEF LatchGhosts, RecencySizes, FrequencySizes, Go, At, Takers
<1>4. loc'[w].ent = loc[w].ent /\ loc'[w].page = loc[w].page
  <2>1. Kept(w) \in LocType /\ Kept(w).page = loc[w].page /\ Kept(w).ent = loc[w].ent
    BY PoolTyped, KeptType
  <2>2. CASE LatchGhosts(w)
    BY <2>2 DEF LatchGhosts
  <2>3. CASE RecencySizes(w)
    BY <2>3, PoolTyped DEF RecencySizes, LocType
  <2>4. CASE FrequencySizes(w)
    <3>1. loc \in [Workers -> LocType]
      BY PoolTyped
    <3>. QED
      BY <2>1, <2>4, <3>1 DEF FrequencySizes, LocType
  <2>. QED
    BY <2>2, <2>3, <2>4
<1>. QED
  BY <1>1, <1>2, <1>3, <1>4, CalmSame DEF Away, Holds, Reading, Writing

\* The walks through the lists start; adjust; handleCacheHit begins
LEMMA WalkData ==
  ASSUME PoolInv, UseInv, DataInv, NEW w \in Workers,
         \/ ForgetStart(w) \/ VacateStart(w) \/ EvictStart(w) \/ EvictGhostStart(w) \/ Adjust(w)
         \/ Hit(w) \/ ExtendHit(w) \/ VacateCheck(w)
  PROVE  DataInv'
<1>1. Others(w)
  BY PoolTyped, WalkEffect, AdjustEffect, HitEffect, VacateCheckEffect, Zenon DEF Effect, Moves, Others
<1>2. Calm(w) /\ cache' = cache
  BY CalmRest DEF ForgetStart, VacateStart, EvictStart, EvictGhostStart, Adjust, Hit, ExtendHit, VacateCheck, latches
<1>3. /\ pc'[w] \in {"forgetScan", "vacScan", "popScan", "evictScan", "vacate", "ghostHit", "hitT1", "hitT2",
                     "extendAgain", "vacLock"}
      /\ pc[w] \notin Takers
  BY PoolTyped DEF ForgetStart, VacateStart, EvictStart, EvictGhostStart, Adjust, Hit, ExtendHit, VacateCheck,
     Go, At, Takers
<1>4. loc'[w].ent = loc[w].ent /\ loc'[w].page = loc[w].page
  BY PoolTyped DEF ForgetStart, VacateStart, EvictStart, EvictGhostStart, Adjust, Hit, ExtendHit, VacateCheck, LocType
<1>. QED
  BY <1>1, <1>2, <1>3, <1>4, CalmSame DEF Away, Holds, Reading, Writing

\* forgetAnyEntry and the worker without a buffer: an entry goes to the free list
LEMMA FreeData ==
  ASSUME PoolInv, UseInv, DataInv, NEW w \in Workers, ForgetFree(w) \/ GiveBack(w)
  PROVE  DataInv'
<1>1. Others(w) /\ Same(cache, cache')
  BY PoolTyped, ForgetFreeEffect, GiveBackEffect, Zenon DEF Effect, Moves, Others
<1>2. pc[w] \in {"forgetFree", "giveBack"} /\ pc[w] \notin Takers
  BY DEF ForgetFree, GiveBack, At, Takers
<1>3. cache \in CacheType /\ loc[w].it \in Entries
  BY <1>2, PoolTyped, LocFields DEF Typed, Locals, LocGood, WithIt, Ptr
<1>4. Core(cache, cache')
  BY <1>3, InsertCore DEF ForgetFree, GiveBack, Lists
<1>5. Calm(w) /\ Away(w) /\ Holds(w)
  <2>1. Kept(w) \in LocType /\ Kept(w).page = loc[w].page /\ Kept(w).ent = loc[w].ent
    BY PoolTyped, KeptType
  <2>2. CASE ForgetFree(w)
    <3>1. pc'[w] = "adjust" /\ loc'[w].ent = loc[w].ent /\ loc'[w].page = loc[w].page
      BY <2>2, PoolTyped, <2>1 DEF ForgetFree, Go, LocType
    <3>2. Calm(w)
      BY <2>2, CalmRest DEF ForgetFree
    <3>. QED
      BY <1>2, <3>1, <3>2 DEF Away, Holds, Reading, Writing
  <2>3. CASE GiveBack(w) /\ loc[w].ent = 0
    BY <2>3, ThrowAway, CalmRest DEF GiveBack
  <2>4. CASE GiveBack(w) /\ loc[w].ent # 0
    BY <2>1, <2>4, PoolTyped, CalmRest, <1>2 DEF GiveBack, Go, LocType, latches, Away, Holds, Reading,
       Writing
  <2>. QED
    BY <2>2, <2>3, <2>4
<1>. QED
  BY <1>1, <1>4, <1>5, CalmCore

\* Pins and entry locks are not seen in the buffers.
LEMMA PinFixed ==
  ASSUME cache \in CacheType, NEW e \in Entries, Same(cache, cache'),
         \/ cache' = Pin(cache, e) \/ cache' = Unpin(cache, e)
         \/ cache' = [cache EXCEPT !.ent[e].locked = TRUE]
  PROVE  \A x \in Entries : Fixed(x)
<1>0. cache.ent[e] \in EntryType
  BY EntryFields
<1>1. CASE cache'.ent = cache.ent
  BY <1>1, FixedSame
<1>2. CASE cache'.ent # cache.ent
  <2>1. PICK r : /\ \/ r = [cache.ent[e] EXCEPT !.refs = @ + 1] \/ r = [cache.ent[e] EXCEPT !.refs = @ - 1]
                    \/ r = [cache.ent[e] EXCEPT !.locked = TRUE]
                 /\ cache' = [cache EXCEPT !.ent[e] = r]
    <3>1. CASE cache' = Pin(cache, e)
      BY <3>1, Zenon DEF Pin
    <3>2. CASE cache' = Unpin(cache, e)
      BY <1>2, <3>2 DEF Unpin, CacheType
    <3>3. CASE cache' = [cache EXCEPT !.ent[e].locked = TRUE]
      BY <3>3, Zenon
    <3>. QED
      BY <3>1, <3>2, <3>3
  <2>2. r.tag = cache.ent[e].tag /\ r.dirty = cache.ent[e].dirty /\ r.valid = cache.ent[e].valid
    BY <1>0, <2>1 DEF EntryType
  <2>. QED
    BY <2>1, <2>2, CoreRefl, FixedOne
<1>. QED
  BY <1>1, <1>2

\* tryVacateEntry
LEMMA VacateScanData ==
  ASSUME PoolInv, UseInv, DataInv, NEW w \in Workers, VacateScan(w)
  PROVE  DataInv'
<1>1. Others(w) /\ Same(cache, cache')
  BY PoolTyped, VacateScanEffect, Zenon DEF Effect, Moves, Others
<1>2. Calm(w) /\ pc[w] = "vacScan" /\ pc[w] \notin Takers /\ cache \in CacheType
  BY CalmRest DEF VacateScan, At, Takers, PoolInv
<1>3. loc[w].it \in Ptr /\ loc[w].ret \in {"evict", "ghostMove"}
  BY PoolTyped, LocFields
<1>4. \A x \in Entries : Fixed(x)
  <2>1. CASE cache' = cache
    BY <2>1, FixedSame
  <2>2. CASE cache' # cache
    BY <1>3, <2>2, <1>1, <1>2, PinFixed DEF VacateScan, Ptr
  <2>. QED
    BY <2>1, <2>2
<1>5. pc'[w] \in {"evict", "ghostMove", "vacScan", "flush"}
  BY <1>2, <1>3, PoolTyped DEF VacateScan, Go
<1>6. loc'[w].ent = loc[w].ent /\ loc'[w].page = loc[w].page
  BY PoolTyped, KeptType DEF VacateScan, LocType
<1>. QED
  BY <1>1, <1>2, <1>4, <1>5, <1>6, CalmKeeps DEF Away, Holds, Reading, Writing

LEMMA VacateLockData ==
  ASSUME PoolInv, UseInv, DataInv, NEW w \in Workers, VacateLock(w)
  PROVE  DataInv'
<1>1. Others(w) /\ Same(cache, cache')
  BY PoolTyped, VacateLockEffect, Zenon DEF Effect, Moves, Others
<1>2. Calm(w) /\ pc[w] = "vacLock" /\ pc[w] \notin Takers /\ cache \in CacheType
  BY CalmRest DEF VacateLock, At, Takers, PoolInv
<1>3. loc[w].it \in Entries
  BY <1>2, PoolTyped, LocFields DEF Locals, LocGood, WithIt, Ptr
<1>4. \A x \in Entries : Fixed(x)
  BY <1>1, <1>2, <1>3, FixedSame, PinFixed DEF VacateLock
<1>5. pc'[w] \in {"vacScan", "ghostify"} /\ loc'[w].ent = loc[w].ent /\ loc'[w].page = loc[w].page
  BY <1>2, PoolTyped DEF VacateLock, Go, LocType
<1>. QED
  BY <1>1, <1>2, <1>4, <1>5, CalmKeeps DEF Away, Holds, Reading, Writing

\* LinkedList::Add
LEMMA AddFreeData ==
  ASSUME PoolInv, UseInv, DataInv, NEW w \in Workers, AddFree(w)
  PROVE  DataInv'
<1>1. /\ pc[w] = "addFree" /\ pc[w] \notin Takers /\ cache \in CacheType /\ loc[w].ret \in {"evict", "ghostMove"}
      /\ bufs \in [Buffers -> [version : Nat, next : BufPtr]]
  BY PoolTyped, LocFields DEF AddFree, At, Takers, PoolInv, StoreTypes
<1>2. map' = map /\ pageLatch' = pageLatch /\ Rest
  BY DEF AddFree
<1>3. CASE loc[w].buf = 0
  <2>1. Fault /\ bufs' = bufs /\ pc' = pc /\ loc' = loc
    BY <1>3 DEF AddFree
  <2>. QED
    BY <1>1, <1>2, <2>1, FaultEnts, FaultData DEF Rest, data
<1>4. CASE loc[w].buf # 0
  <2>1. /\ pc' = [pc EXCEPT ![w] = loc[w].ret] /\ cache' = cache
        /\ loc' = [loc EXCEPT ![w] = [Kept(w) EXCEPT !.fq = loc[w].fq]]
        /\ bufs' = [bufs EXCEPT ![loc[w].buf].next = freeHead]
    BY <1>4 DEF AddFree, Go
  <2>2. Others(w) /\ pc'[w] = loc[w].ret
    BY <2>1, PoolTyped DEF Others
  <2>3. Kept(w) \in LocType /\ Kept(w).page = loc[w].page /\ Kept(w).ent = loc[w].ent
        /\ loc \in [Workers -> LocType]
    BY PoolTyped, KeptType
  <2>4. loc'[w].ent = loc[w].ent /\ loc'[w].page = loc[w].page
    BY <2>1, <2>3 DEF LocType
  <2>5. \A b \in Buffers : bufs'[b].version = bufs[b].version
    BY <1>1, <2>1
  <2>6. Calm(w)
    BY <1>2, <2>5 DEF Calm, Rest, data, HistGrows
  <2>. QED
    BY <1>1, <2>1, <2>2, <2>4, <2>6, CalmSame DEF Away, Holds, Reading, Writing
<1>. QED
  BY <1>3, <1>4

\* GetBuffer
LEMMA LookupData ==
  ASSUME PoolInv, UseInv, DataInv, NEW w \in Workers, Lookup(w)
  PROVE  DataInv'
<1>1. Others(w) /\ Same(cache, cache')
  BY PoolTyped, LookupEffect, Zenon DEF Effect, Moves, Others
<1>2. /\ pc[w] \in {"lookup", "again"} /\ pc[w] \notin Takers /\ cache \in CacheType
      /\ map \in [Pages -> Ptr] /\ map' = map /\ bufs' = bufs /\ Rest
  BY DEF Lookup, At, Takers, PoolInv, StoreTypes
<1>3. PICK t \in Pages : t = loc[w].page
  BY <1>2, PoolTyped, LocFields DEF Locals, LocGood
<1>4. CASE map[t] # 0
  BY <1>3, <1>4, <1>2, PoolTyped, <1>1, PinFixed, CalmRest, CalmKeeps DEF Lookup, Go, Ptr, LocType,
     Away, Holds, Reading, Writing
<1>5. CASE map[t] = 0 /\ pc[w] = "lookup"
  <2>1. cache' = cache /\ pageLatch' = pageLatch /\ loc' = loc /\ pc'[w] = "pre1"
    BY <1>3, <1>5, PoolTyped DEF Lookup, Go, latches
  <2>. QED
    BY <1>1, <1>2, <2>1, CalmRest, CalmSame DEF Away, Holds, Reading, Writing
<1>6. CASE map[t] = 0 /\ pc[w] = "again"
  <2>1. Throw(w) /\ cache' = cache
    BY <1>3, <1>6 DEF Lookup
  <2>. QED
    BY <1>1, <1>2, <2>1, ThrowAway, CalmRest, CalmSame
<1>. QED
  BY <1>2, <1>4, <1>5, <1>6

\* ExtendRelation: the pages of the file are counted.
LEMMA CountPagesData ==
  ASSUME PoolInv, UseInv, DataInv, NEW w \in Workers, CountPages(w)
  PROVE  DataInv'
<1>1. Others(w)
  BY PoolTyped, CountPagesEffect, Zenon DEF Effect, Moves, Others
<1>2. map' = map /\ bufs' = bufs /\ Rest /\ cache' = cache
  BY DEF CountPages
<1>3. CASE loc[w].ent = 0
  <2>1. Throw(w)
    BY <1>3 DEF CountPages
  <2>. QED
    BY <1>1, <1>2, <2>1, ThrowAway, CalmRest, CalmSame
<1>4. CASE loc[w].ent # 0
  <2>1. pc'[w] = "insert" /\ pageLatch' = pageLatch
    BY <1>4, PoolTyped DEF CountPages, Go, latches
  <2>2. Away(w) /\ Holds(w)
    BY <2>1 DEF Away, Holds, Reading, Writing, Takers
  <2>. QED
    BY <1>1, <1>2, <2>1, <2>2, CalmRest, CalmSame
<1>. QED
  BY <1>3, <1>4

\* T1
LEMMA ToT1Data ==
  ASSUME PoolInv, UseInv, DataInv, NEW w \in Workers, FirstToT1(w) \/ ToT1(w)
  PROVE  DataInv'
<1>1. Others(w) /\ Same(cache, cache')
  BY PoolTyped, ToT1Effect, Zenon DEF Effect, Moves, Others
<1>2. pc[w] \in {"toT1first", "toT1"} /\ cache \in CacheType
  BY DEF FirstToT1, ToT1, At, PoolInv
<1>3. PICK e \in Entries : e = loc[w].ent
  BY <1>2, PoolTyped, LocFields DEF Locals, LocGood, WithEnt, Ptr
<1>4. PICK c \in CacheType : c = InsertMRU(cache, "T1", e) /\ Core(cache, c)
  BY <1>2, InsertSame, InsertCore DEF Same, Lists
<1>5. PICK r : /\ \/ r = [c.ent[e] EXCEPT !.top = TRUE, !.locked = TRUE]
                  \/ r = [c.ent[e] EXCEPT !.top = TRUE, !.locked = FALSE]
               /\ cache' = [c EXCEPT !.ent[e] = r]
  BY <1>3, <1>4 DEF FirstToT1, ToT1
<1>6. r.tag = c.ent[e].tag /\ r.dirty = c.ent[e].dirty /\ r.valid = c.ent[e].valid
  <2>1. c.ent[e] \in EntryType
    BY <1>4, EntryFields
  <2>. QED
    BY <1>5, <2>1 DEF EntryType
<1>7. \A x \in Entries : Fixed(x)
  BY <1>1, <1>4, <1>5, <1>6, FixedOne
<1>8. /\ map' = map /\ bufs' = bufs /\ Rest /\ pageLatch' = pageLatch /\ loc' = loc
      /\ pc'[w] \in {"toT1", "data", "extendIO"}
  BY <1>2, PoolTyped DEF FirstToT1, ToT1, Go, latches
<1>9. Calm(w) /\ Away(w) /\ Holds(w)
  BY <1>2, <1>8, CalmRest DEF Away, Holds, Reading, Writing, Takers
<1>. QED
  BY <1>1, <1>7, <1>9, CalmKeeps

\* A flag of an entry, after a step on the lists
LEMMA CacheHitData ==
  ASSUME PoolInv, UseInv, DataInv, NEW w \in Workers, CacheHit(w)
  PROVE  DataInv'
<1>. DEFINE moved == pc[w] = "hitT2" \/ (~Ent(w).top /\ Ent(w).freq)
            l == IF moved THEN "T2" ELSE "T1"
<1>1. Others(w) /\ Same(cache, cache')
  BY PoolTyped, CacheHitEffect, Zenon DEF Effect, Moves, Others
<1>2. /\ pc[w] \in {"hitT1", "hitT2"} /\ cache \in CacheType /\ map' = map /\ bufs' = bufs /\ Rest
  BY DEF CacheHit, At, PoolInv
<1>3. PICK e \in Entries : e = loc[w].ent
  BY <1>2, PoolTyped, LocFields DEF Locals, LocGood, WithEnt, Ptr
<1>4. CASE ~CanRemove(cache, l)
  BY <1>3, <1>4, <1>1, <1>2, PinFixed, ThrowAway, CalmRest, CalmKeeps DEF CacheHit
<1>5. CASE CanRemove(cache, l)
  <2>1. /\ pc' = [pc EXCEPT ![w] = "data"] /\ pageLatch' = pageLatch /\ loc' = loc
        /\ cache' = IF moved THEN MoveMRU(cache, "T2", e)
                    ELSE [InsertMRU(RemoveEntry(cache, "T1", e), "T2", e) EXCEPT !.ent[e].freq = TRUE]
    BY <1>3, <1>5, Zenon DEF CacheHit, Go, latches
  <2>2. \A x \in Entries : Fixed(x)
    <3>1. CASE moved
      <4>1. Core(cache, cache')
        BY <1>2, <1>5, <2>1, <3>1, MoveCore DEF Lists
      <4>. QED
        BY <1>1, <4>1, FixedCore
    <3>2. CASE ~moved
      <4>1. PICK c \in CacheType : c = InsertMRU(RemoveEntry(cache, "T1", e), "T2", e) /\ Core(cache, c)
        BY <1>2, <1>5, <3>2, MoveCore DEF Lists
      <4>2. PICK r : r = [c.ent[e] EXCEPT !.freq = TRUE]
        OBVIOUS
      <4>3. cache' = [c EXCEPT !.ent[e] = r]
        BY <2>1, <3>2, <4>1, <4>2, Zenon
      <4>4. c.ent[e] \in EntryType
        BY <4>1, EntryFields
      <4>5. r.tag = c.ent[e].tag /\ r.dirty = c.ent[e].dirty /\ r.valid = c.ent[e].valid
        BY <4>2, <4>4 DEF EntryType
      <4>. QED
        BY <1>1, <4>1, <4>3, <4>5, FixedOne
    <3>. QED
      BY <3>1, <3>2
  <2>3. pc'[w] = "data"
    BY <2>1, PoolTyped
  <2>4. Calm(w) /\ Away(w) /\ Holds(w)
    BY <1>2, <2>1, <2>3, CalmRest DEF Away, Holds, Reading, Writing, Takers
  <2>. QED
    BY <1>1, <2>2, <2>4, CalmKeeps
<1>. QED
  BY <1>4, <1>5

\* handleGhostHit
LEMMA GhostSizesData ==
  ASSUME PoolInv, UseInv, DataInv, NEW w \in Workers, GhostSizes(w)
  PROVE  DataInv'
<1>1. Others(w)
  BY PoolTyped, GhostSizesEffect, Zenon DEF Effect, Moves, Others
<1>2. /\ pc[w] = "ghostHit" /\ cache \in CacheType /\ map' = map /\ bufs' = bufs /\ Rest
      /\ pageLatch' = pageLatch
  BY DEF GhostSizes, At, PoolInv, latches
<1>3. \/ Fault /\ loc' = loc /\ pc' = pc
      \/ /\ cache' = cache /\ loc' = [loc EXCEPT ![w].p = P, ![w].ret = "ghostMove"]
         /\ pc' = [pc EXCEPT ![w] = "adjust"]
  BY Zenon DEF GhostSizes, Go
<1>4. CASE Fault /\ loc' = loc /\ pc' = pc
  BY <1>2, <1>4, FaultEnts, FaultData DEF Rest, data
<1>5. CASE /\ cache' = cache /\ loc' = [loc EXCEPT ![w].p = P, ![w].ret = "ghostMove"]
           /\ pc' = [pc EXCEPT ![w] = "adjust"]
  BY <1>5, PoolTyped, <1>2, CalmRest, <1>1, CalmSame DEF LocType, Away, Holds, Reading, Writing, Takers
<1>. QED
  BY <1>3, <1>4, <1>5

LEMMA GhostMoveData ==
  ASSUME PoolInv, UseInv, DataInv, NEW w \in Workers, GhostMove(w)
  PROVE  DataInv'
<1>. DEFINE l == IF loc[w].fq THEN "B1" ELSE "B2"
            same == ~Ent(w).top /\ Ent(w).freq = loc[w].fq
            next == IF loc[w].op = "get" THEN "data" ELSE "extendAgain"
<1>1. Others(w) /\ Same(cache, cache')
  BY PoolTyped, GhostMoveEffect, Zenon DEF Effect, Moves, Others
<1>2. /\ pc[w] = "ghostMove" /\ cache \in CacheType /\ map' = map /\ bufs' = bufs /\ Rest
  BY DEF GhostMove, At, PoolInv
<1>3. PICK e \in Entries : e = loc[w].ent
  BY <1>2, PoolTyped, LocFields DEF Locals, LocGood, WithEnt, Ptr
<1>4. CASE same /\ ~CanRemove(cache, l)
  BY <1>3, <1>4, <1>1, <1>2, PinFixed, ThrowAway, CalmRest, CalmKeeps DEF GhostMove
<1>5. CASE ~(same /\ ~CanRemove(cache, l))
  <2>1. /\ pc' = [pc EXCEPT ![w] = next] /\ pageLatch' = pageLatch /\ loc' = [loc EXCEPT ![w] = Kept(w)]
        /\ \/ ~same /\ cache' = cache
           \/ /\ same /\ CanRemove(cache, l)
              /\ cache' = [InsertMRU(RemoveEntry(cache, l, e), "T2", e) EXCEPT
                             !.ent[e] = [@ EXCEPT !.top = TRUE, !.freq = TRUE]]
    BY <1>3, <1>5, Zenon DEF GhostMove, Go, latches
  <2>2. \A x \in Entries : Fixed(x)
    <3>1. CASE ~same
      BY <2>1, <3>1, FixedSame
    <3>2. CASE same
      <4>1. PICK c \in CacheType : c = InsertMRU(RemoveEntry(cache, l, e), "T2", e) /\ Core(cache, c)
        BY <1>2, <1>5, <3>2, MoveCore DEF Lists
      <4>2. PICK r : r = [c.ent[e] EXCEPT !.top = TRUE, !.freq = TRUE]
        OBVIOUS
      <4>3. cache' = [c EXCEPT !.ent[e] = r]
        BY <2>1, <3>2, <4>1, <4>2, Zenon
      <4>4. c.ent[e] \in EntryType
        BY <4>1, EntryFields
      <4>5. r.tag = c.ent[e].tag /\ r.dirty = c.ent[e].dirty /\ r.valid = c.ent[e].valid
        BY <4>2, <4>4 DEF EntryType
      <4>. QED
        BY <1>1, <4>1, <4>3, <4>5, FixedOne
    <3>. QED
      BY <3>1, <3>2
  <2>3. pc'[w] \in {"data", "extendAgain"} /\ loc'[w].page = loc[w].page /\ loc'[w].ent = loc[w].ent
    BY <2>1, PoolTyped, KeptType
  <2>4. Calm(w) /\ Away(w) /\ Holds(w)
    BY <1>2, <2>1, <2>3, CalmRest DEF Away, Holds, Reading, Writing, Takers
  <2>. QED
    BY <1>1, <2>2, <2>4, CalmKeeps
<1>. QED
  BY <1>4, <1>5

\* ReturnBuffer
LEMMA ReturnBufferData ==
  ASSUME PoolInv, UseInv, DataInv, NEW w \in Workers, ReturnBuffer(w)
  PROVE  DataInv'
<1>1. Others(w) /\ Same(cache, cache')
  BY PoolTyped, ReturnBufferEffect, Zenon DEF Effect, Moves, Others
<1>2. /\ pc[w] = "hold" /\ cache \in CacheType /\ map' = map /\ bufs' = bufs /\ Rest /\ pageLatch' = pageLatch
  BY DEF ReturnBuffer, At, PoolInv, latches
<1>3. PICK e \in Entries : e = loc[w].ent
  BY <1>2, PoolTyped, LocFields DEF Locals, LocGood, WithEnt, Ptr
<1>4. cache' = Unpin(cache, e) /\ pc'[w] = "idle" /\ loc'[w].ent = 0
  BY <1>3, PoolTyped DEF ReturnBuffer, Go, NoOp
<1>5. \A x \in Entries : Fixed(x)
  BY <1>1, <1>2, <1>4, PinFixed
<1>6. Calm(w) /\ Away(w) /\ Holds(w)
  BY <1>2, <1>4, CalmRest DEF Away, Holds, Reading, Writing
<1>. QED
  BY <1>1, <1>5, <1>6, CalmKeeps

-----------------------------------------------------------------------------
(* Steps that tear entries or take them out of the page table               *)

\* The pages of the entries es are given up.
Tears(es) == /\ hist'.torn = hist.torn \cup es /\ hist.dropped \subseteq hist'.dropped
             /\ \A e \in es : /\ cache.ent[e].tag \in hist'.dropped
                              /\ \A p \in Pages : map[p] = e => p \in hist'.dropped

LEMMA HurtTears ==
  ASSUME PoolInv, NEW es \in SUBSET Entries, hist'.torn = hist.torn \cup es,
         Hurt(es).dropped \subseteq hist'.dropped
  PROVE  Tears(es)
  BY HurtFields DEF PoolInv, Tears

LEMMA TornKeeps ==
  ASSUME UseInv, DataInv, NEW w \in Workers, Others(w), NEW es, Tears(es), NEW d \in Entries,
         \/ cache'.ent[d].tag = cache.ent[d].tag
         \/ d \in hist'.torn => cache'.ent[d].tag \in hist'.dropped,
         \A p \in Pages : map'[p] = d => map[p] = d, ~IsPin(w, d)'
  PROVE  TornOK(d)'
<1>. SUFFICES ASSUME d \in hist'.torn
              PROVE  /\ cache'.ent[d].tag \in hist'.dropped \cup {0}
                     /\ \A p \in Pages : map'[p] = d => p \in hist'.dropped
                     /\ \A v \in Workers : IsPin(v, d)' => loc'[v].page \in hist'.dropped
  BY Zenon DEF TornOK
<1>1. \A v \in Workers : IsPin(v, d)' => IsPin(v, d) /\ loc'[v].page = loc[v].page
  BY Zenon DEF Others, IsPin
<1>2. CASE d \in hist.torn
  <2>1. TornOK(d)
    BY DEF DataInv
  <2>. QED
    BY <1>1, <1>2, <2>1 DEF TornOK, Tears
<1>3. CASE d \notin hist.torn
  BY <1>3, <1>1 DEF Tears, UseInv, EntryOK, MapOK
<1>. QED
  BY <1>2, <1>3

\* The worker has no pin after the step and does not write.
LEMMA LooseAttached ==
  ASSUME NEW w \in Workers, Away(w), loc'[w].ent = 0 \/ pc'[w] \in Takers
  PROVE  \A x \in Entries : Attached(w, x) /\ ~IsPin(w, x)'
  BY PoolBounds DEF Away, IsPin, Attached

\* An entry that nobody has pinned leaves the page table, for its own page.
LEMMA UnmapData ==
  ASSUME PoolInv, UseInv, DataInv, NEW w \in Workers, Others(w), NEW e \in Entries, NEW es \in SUBSET {e},
         cache.ent[e].refs = 0, map' = Unmap(cache.ent[e].tag), hist' = Forgotten(e, es),
         bufs' = bufs, disk' = disk, latest' = latest,
         pageLatch' = pageLatch \/ pageLatch' = DropAll(pageLatch, w),
         \A x \in Entries : Fixed(x), Away(w), loc'[w].ent = 0 \/ pc'[w] \in Takers
  PROVE  DataInv'
<1>1. PICK t : t = cache.ent[e].tag
  OBVIOUS
<1>2. PICK gone : gone = IF Mapped(t) THEN {map[t]} \ {e} ELSE {}
  OBVIOUS
<1>3. PICK D : D = {e} \cup gone
  OBVIOUS
<1>4. es \in SUBSET Entries /\ t \in Pages \cup {0} /\ map \in [Pages -> Ptr]
  BY <1>1, EntryFields DEF PoolInv, StoreTypes
<1>5. /\ hist'.aba = hist.aba /\ hist'.unmarked = hist.unmarked /\ hist'.raced = hist.raced
      /\ gone \in SUBSET Entries /\ hist'.torn = hist.torn \cup es \cup gone
      /\ Hurt(es \cup gone).dropped \subseteq hist'.dropped
      /\ cache.ent[e].dirty => t \in hist'.dropped
  BY <1>1, <1>2, <1>4, ForgottenFields, Zenon DEF PoolInv
<1>6. PICK ts \in SUBSET Entries : ts = es \cup gone
  BY <1>4, <1>5
<1>7. Tears(ts)
  BY <1>5, <1>6, HurtTears
<1>8. D \in SUBSET Entries /\ ts \subseteq D
  BY <1>3, <1>5, <1>6
<1>9. HistGrows
  BY <1>5, <1>7 DEF HistGrows, Tears
<1>10. \A p \in Pages : map'[p] = IF p = t THEN 0 ELSE map[p]
  BY <1>1, Zenon DEF Unmap
<1>11. \A p \in Pages : p # t => Kind(p)
  BY <1>10 DEF Kind
<1>12. t \in Pages => map[t] \in {0, e} \cup gone
  BY <1>2, PoolBounds DEF Mapped
<1>13. \A d \in gone : cache.ent[d].tag \in hist'.dropped /\ t \in hist'.dropped
  <2>. SUFFICES ASSUME NEW d \in gone PROVE cache.ent[d].tag \in hist'.dropped /\ t \in hist'.dropped
    OBVIOUS
  <2>1. t \in Pages /\ map[t] = d
    BY <1>2, <1>4 DEF Mapped
  <2>. QED
    BY <1>6, <1>7, <2>1 DEF Tears
<1>14. \A b \in Buffers : pageLatch[b] \notin {w, NoWorker} => pageLatch'[b] = pageLatch[b]
  BY LatchesStay DEF PoolInv
<1>15. Frame(w, D, t)
  BY <1>6, <1>7, <1>8, <1>3, <1>10, <1>12, <1>1, <1>13, <1>9, <1>11, <1>14 DEF Tears, Sound, Frame
<1>16. \A x \in Entries : Attached(w, x) /\ ~IsPin(w, x)'
  BY LooseAttached
<1>17. pc'[w] \notin Reading \cup {"hold"} /\ pc'[w] # "flushEnd" /\ pc'[w] \notin Writing
  BY DEF Away, Writing
<1>18. \A p \in Pages, d \in Entries : map'[p] = d => map[p] = d
  BY <1>10, PoolBounds
<1>19. \A d \in D : TornOK(d)'
  BY <1>7, <1>8, <1>16, <1>18, TornKeeps DEF Fixed
<1>20. \A d \in D : d \notin hist'.torn => d = e
  BY <1>3, <1>6, <1>7 DEF Tears
<1>21. ASSUME e \notin hist'.torn PROVE \A v \in Workers : ~IsPin(v, e) /\ ~IsVac(v, e)
  <2>1. EntryOK(e)
    BY <1>7, <1>21 DEF UseInv, Tears
  <2>. QED
    BY <2>1, NoPins DEF EntryOK
<1>22. \A d \in D : DirtyOK(d)'
  <2>. SUFFICES ASSUME NEW d \in D, d \notin hist'.torn PROVE DirtyOK(d)'
    BY Zenon DEF DirtyOK
  <2>1. d = e /\ Fixed(e)
    BY <1>20
  <2>2. ~(cache'.ent[e].dirty /\ Sound(hist', cache'.ent[e].tag))
    BY <1>1, <1>5, <2>1 DEF Fixed, Sound
  <2>3. \A v \in Workers : ~(loc[v].it = e /\ pc[v] \in Writing)
    BY <1>21, <2>1 DEF IsVac, Writing, Flushing
  <2>4. \A v \in Workers : ~(loc'[v].it = e /\ pc'[v] \in Writing)
    BY <1>17, <2>3, Zenon DEF Others
  <2>. QED
    BY <2>1, <2>2, <2>4, Zenon DEF DirtyOK, Sound
<1>23. ASSUME t \in Pages, Sound(hist', t) PROVE Sound(hist, t) /\ map[t] \in {0, e} /\ ~cache.ent[e].dirty
  <2>1. gone = {}
    BY <1>13, <1>23 DEF Sound
  <2>. QED
    BY <1>5, <1>9, <1>12, <1>23, <2>1, SoundBack DEF Sound
<1>24. t \in Pages => PageOK(t)'
  <2>. SUFFICES ASSUME t \in Pages, t \in DOMAIN disk, Sound(hist', t) PROVE disk[t] = latest[t]
    BY <1>10 DEF PageOK
  <2>1. PageOK(t)
    BY DEF DataInv
  <2>2. 0 # e
    BY PoolBounds
  <2>. QED
    BY <1>23, <2>1, <2>2, Zenon DEF PageOK
<1>25. ASSUME NEW v \in Workers \ {w}, t \in Pages, loc[v].page = t, pc[v] \in Reading \cup {"hold"}
       PROVE  CallOK(v)'
  <2>1. CASE ~Sound(hist', t)
    <3>1. loc'[v].page = t
      BY <1>25, Zenon DEF Others
    <3>. QED
      BY <2>1, <3>1, Zenon DEF CallOK, Sound
  <2>2. CASE Sound(hist', t)
    <3>1. PICK x \in Entries : x = loc[v].ent /\ IsPin(v, x)
      BY <1>25, PoolTyped, UserPins
    <3>2. x \notin hist.torn /\ map[t] = x
      BY <1>23, <1>25, <2>2, <3>1, SoundPin
    <3>3. x = e
      BY <1>23, <1>25, <2>2, <3>2, PoolBounds
    <3>4. EntryOK(e)
      BY <3>2, <3>3 DEF UseInv
    <3>. QED
      BY <3>1, <3>3, <3>4, NoPins DEF EntryOK
  <2>. QED
    BY <2>1, <2>2
<1>26. ASSUME NEW v \in Workers \ {w}, loc[v].it \in D, pc[v] = "flushEnd" PROVE FlushOK(v)'
  <2>1. loc'[v].it = loc[v].it
    BY Zenon DEF Others
  <2>2. CASE loc[v].it \in hist'.torn
    BY <2>1, <2>2, Zenon DEF FlushOK
  <2>3. CASE loc[v].it \notin hist'.torn
    <3>1. loc[v].it = e
      BY <1>20, <1>26, <2>3
    <3>. QED
      BY <1>21, <1>26, <2>3, <3>1 DEF IsVac, Flushing
  <2>. QED
    BY <2>2, <2>3
<1>27. CallOK(w)' /\ FlushOK(w)'
  BY <1>17, NoCall, NoFlush
<1>. QED
  BY <1>8, <1>15, <1>16, <1>19, <1>22, <1>24, <1>25, <1>26, <1>27, FrameAll

\* A torn entry is taken or cleared.
LEMMA TearData ==
  ASSUME PoolInv, UseInv, DataInv, NEW w \in Workers, Others(w), HistGrows, NEW e \in Entries,
         NEW es \in SUBSET {e}, Tears(es), e \in hist'.torn, map' = map, bufs' = bufs, disk' = disk,
         latest' = latest, pageLatch' = pageLatch, \A x \in Entries \ {e} : Fixed(x),
         \/ cache'.ent[e].tag = cache.ent[e].tag
         \/ e \in hist'.torn => cache'.ent[e].tag \in hist'.dropped,
         Away(w), loc'[w].ent = 0 \/ pc'[w] \in Takers
  PROVE  DataInv'
<1>1. \A x \in Entries : Attached(w, x) /\ ~IsPin(w, x)'
  BY LooseAttached
<1>2. pc'[w] \notin Reading \cup {"hold"} /\ pc'[w] # "flushEnd"
  BY DEF Away, Writing
<1>3. CallOK(w)' /\ FlushOK(w)'
  BY <1>2, NoCall, NoFlush
<1>4. Frame(w, {e}, 0)
  BY PoolBounds DEF Kind, Tears, Sound, Frame
<1>5. TornOK(e)'
  BY <1>1, TornKeeps
<1>6. DirtyOK(e)'
  BY Zenon DEF DirtyOK
<1>7. ASSUME NEW v \in Workers \ {w}, loc[v].it \in {e}, pc[v] = "flushEnd" PROVE FlushOK(v)'
  <2>1. loc'[v].it = e
    BY <1>7, Zenon DEF Others
  <2>. QED
    BY <2>1, Zenon DEF FlushOK
<1>. QED
  BY <1>1, <1>3, <1>4, <1>5, <1>6, <1>7, PoolBounds, FrameAll

\* forgetAnyEntry
LEMMA ForgetScanData ==
  ASSUME PoolInv, UseInv, DataInv, NEW w \in Workers, ForgetScan(w)
  PROVE  DataInv'
<1>. DEFINE t == It(w).tag
<1>1. Others(w)
  BY PoolTyped, ForgetScanEffect, Zenon DEF Effect, Moves, Others
<1>2. /\ cache' = cache /\ bufs' = bufs /\ disk' = disk /\ latest' = latest /\ npages' = npages /\ calls' = calls
      /\ pc[w] = "forgetScan"
  BY DEF ForgetScan, At
<1>3. loc[w].ent = 0 /\ loc[w].it \in Ptr
  BY <1>2, PoolTyped, LocFields DEF UseInv, Role, Empty
<1>4. CASE loc[w].it = 0
  BY <1>4, PoolBounds, PoolTyped, KeptType, <1>3, <1>2, <1>1, CalmRest, CalmSame DEF ForgetScan, Go,
     LocType, Rest, data, Away, Holds, Reading, Writing
<1>5. CASE loc[w].it # 0 /\ It(w).refs # 0
  BY <1>5, <1>3, PoolTyped, <1>2, <1>1, CalmRest, CalmSame DEF ForgetScan, latches, LocType, Rest, data,
     Away, Holds, Reading, Writing
<1>6. CASE loc[w].it # 0 /\ It(w).refs = 0 /\ ~Mapped(t)
  BY <1>6, <1>2, <1>1, ThrowAway, CalmRest, CalmSame DEF ForgetScan, Rest, data
<1>7. CASE loc[w].it # 0 /\ It(w).refs = 0 /\ Mapped(t)
  <2>1. PICK e \in Entries : e = loc[w].it
    BY <1>3, <1>7 DEF Ptr
  <2>2. /\ map' = Unmap(cache.ent[e].tag) /\ hist' = Forgotten(e, {}) /\ pc' = [pc EXCEPT ![w] = "forgetFree"]
        /\ pageLatch' = pageLatch /\ loc' = loc /\ cache.ent[e].refs = 0
    BY <1>7, <2>1, Zenon DEF ForgetScan, Go, latches, It
  <2>3. pc'[w] = "forgetFree" /\ loc'[w].ent = 0
    BY <1>3, <2>2, PoolTyped
  <2>4. Away(w) /\ \A x \in Entries : Fixed(x)
    BY <1>2, <2>3, FixedSame DEF Away, Reading, Writing
  <2>. QED
    BY <1>1, <1>2, <2>2, <2>3, <2>4, UnmapData
<1>. QED
  BY <1>4, <1>5, <1>6, <1>7

\* PopTail
LEMMA PopTailData ==
  ASSUME PoolInv, UseInv, DataInv, NEW w \in Workers, PopTail(w)
  PROVE  DataInv'
<1>1. Others(w) /\ Same(cache, cache')
  BY PoolTyped, PopTailEffect, Zenon DEF Effect, Moves, Others
<1>2. /\ map' = map /\ bufs' = bufs /\ disk' = disk /\ latest' = latest /\ npages' = npages /\ calls' = calls
      /\ pc[w] = "popScan" /\ cache \in CacheType
  BY DEF PopTail, At, PoolInv
<1>3. loc[w].ent = 0 /\ loc[w].it \in Ptr
  BY <1>2, PoolTyped, LocFields DEF UseInv, Role, Empty
<1>4. CASE loc[w].it = 0
  BY <1>4, PoolBounds, PoolTyped, KeptType, <1>3, <1>2, <1>1, CalmRest, CalmSame DEF PopTail, Go,
     LocType, Rest, data, Away, Holds, Reading, Writing
<1>5. CASE loc[w].it # 0 /\ It(w).refs # 0
  BY <1>5, <1>3, PoolTyped, <1>2, <1>1, CalmRest, CalmSame DEF PopTail, latches, LocType, Rest, data,
     Away, Holds, Reading, Writing
<1>6. CASE loc[w].it # 0 /\ It(w).refs = 0 /\ ~CanRemove(cache, "Free")
  BY <1>6, <1>3, <1>1, <1>2, PinFixed, ThrowAway, CalmRest, CalmKeeps DEF PopTail, Ptr, Rest, data
<1>7. CASE loc[w].it # 0 /\ It(w).refs = 0 /\ CanRemove(cache, "Free")
  <2>1. PICK e \in Entries : e = loc[w].it
    BY <1>3, <1>7 DEF Ptr
  <2>2. PICK es \in SUBSET Entries : es = IF \E p \in Pages : map[p] = e THEN {e} ELSE TakenTwice(w, e)
    BY TwiceTyped
  <2>3. /\ cache' = Popped(cache, e) /\ loc' = [loc EXCEPT ![w] = [Kept(w) EXCEPT !.ent = e]]
        /\ pc' = [pc EXCEPT ![w] = "tearDown"] /\ pageLatch' = pageLatch /\ hist' = Hurt(es)
    BY <1>7, <2>1, <2>2, Zenon DEF PopTail, Go, latches
  <2>4. es = {} \/ es = {e}
    BY <2>2 DEF TakenTwice
  <2>5. /\ hist'.aba = hist.aba /\ hist'.unmarked = hist.unmarked /\ hist'.raced = hist.raced
        /\ hist'.torn = hist.torn \cup es
    BY <2>3, HurtFields DEF PoolInv
  <2>6. Tears(es)
    BY <2>3, <2>5, HurtTears
  <2>7. HistGrows
    BY <2>5, <2>6 DEF HistGrows, Tears
  <2>8. Core(cache, cache') /\ pc'[w] = "tearDown"
    BY <1>2, <1>7, <2>3, PoppedCore, PoolTyped
  <2>9. Away(w) /\ pc'[w] \in Takers /\ \A x \in Entries : Fixed(x)
    BY <1>1, <2>8, FixedCore DEF Away, Takers, Reading, Writing
  <2>10. CASE es = {}
    <3>1. Calm(w)
      BY <1>2, <2>3, <2>5, <2>7, <2>10 DEF Calm
    <3>. QED
      BY <1>1, <2>9, <3>1, CalmKeeps DEF Holds
  <2>11. CASE es = {e}
    BY <2>5, <2>9, <2>11, <1>1, <1>2, <2>3, <2>6, <2>7, TearData DEF Fixed
  <2>. QED
    BY <2>4, <2>10, <2>11
<1>. QED
  BY <1>4, <1>5, <1>6, <1>7

\* evictCacheEntry on B1 and B2
LEMMA EvictScanData ==
  ASSUME PoolInv, UseInv, DataInv, NEW w \in Workers, EvictScan(w)
  PROVE  DataInv'
<1>. DEFINE t == It(w).tag
            l == loc[w].list
<1>1. Others(w) /\ Same(cache, cache')
  BY PoolTyped, EvictScanEffect, Zenon DEF Effect, Moves, Others
<1>2. /\ bufs' = bufs /\ disk' = disk /\ latest' = latest /\ npages' = npages /\ calls' = calls
      /\ pc[w] = "evictScan" /\ cache \in CacheType
  BY DEF EvictScan, At, PoolInv
<1>3. loc[w].ent = 0 /\ loc[w].it \in Ptr /\ l \in Lists
  BY <1>2, PoolTyped, LocFields DEF UseInv, Role, Empty
<1>4. Kept(w) \in LocType /\ Kept(w).ent = loc[w].ent /\ loc \in [Workers -> LocType]
  BY PoolTyped, KeptType
<1>5. CASE loc[w].it = 0
  BY <1>5, <1>3, <1>4, PoolTyped, <1>2, <1>1, CalmRest, CalmSame DEF EvictScan, Go, LocType, Rest, data,
     Away, Holds, Reading, Writing
<1>6. CASE loc[w].it # 0 /\ It(w).refs # 0
  BY <1>6, <1>3, PoolTyped, <1>2, <1>1, CalmRest, CalmSame DEF EvictScan, latches, LocType, Rest, data,
     Away, Holds, Reading, Writing
<1>7. CASE loc[w].it # 0 /\ It(w).refs = 0 /\ ~(Mapped(t) /\ CanRemove(cache, l))
  <2>1. PICK e \in Entries : e = loc[w].it
    BY <1>3, <1>7 DEF Ptr
  <2>2. /\ map' = Unmap(cache.ent[e].tag) /\ hist' = Forgotten(e, {}) /\ Throw(w) /\ cache' = cache
        /\ cache.ent[e].refs = 0
    BY <1>7, <2>1, Zenon DEF EvictScan, It
  <2>3. Away(w) /\ pageLatch' = DropAll(pageLatch, w) /\ loc'[w].ent = 0 /\ \A x \in Entries : Fixed(x)
    BY <2>2, PoolTyped, ThrowAway, FixedSame DEF Throw, NoOp
  <2>. QED
    BY <1>1, <1>2, <2>2, <2>3, UnmapData
<1>8. CASE loc[w].it # 0 /\ It(w).refs = 0 /\ Mapped(t) /\ CanRemove(cache, l)
  <2>1. PICK e \in Entries : e = loc[w].it
    BY <1>3, <1>8 DEF Ptr
  <2>2. PICK es \in SUBSET {e} : es = TakenTwice(w, e)
    BY DEF TakenTwice
  <2>3. /\ map' = Unmap(cache.ent[e].tag) /\ hist' = Forgotten(e, es) /\ cache.ent[e].refs = 0
        /\ cache' = RemoveEntry(cache, l, e) /\ pageLatch' = pageLatch
        /\ pc' = [pc EXCEPT ![w] = "tearDown"]
    BY <1>8, <2>1, <2>2, Zenon DEF EvictScan, Go, It
  <2>4. Core(cache, cache') /\ pc'[w] = "tearDown"
    BY <1>2, <1>3, <1>8, <2>3, RemoveCore, PoolTyped
  <2>5. Away(w) /\ pc'[w] \in Takers /\ \A x \in Entries : Fixed(x)
    BY <1>1, <2>4, FixedCore DEF Away, Takers, Reading, Writing
  <2>. QED
    BY <1>1, <1>2, <2>3, <2>5, UnmapData
<1>. QED
  BY <1>5, <1>6, <1>7, <1>8

\* The entry of a worker that has taken it is cleared.
LEMMA ClearData ==
  ASSUME PoolInv, UseInv, DataInv, NEW w \in Workers, Others(w), NEW e \in Entries, loc' = loc, loc[w].ent = e,
         pc[w] \in Takers, pc'[w] \in {"setup", "insert"}, map' = map, bufs' = bufs, disk' = disk,
         latest' = latest, pageLatch' = pageLatch, HistGrows,
         Tears(IF cache.ent[e].refs = 0 THEN {} ELSE {e}),
         \A x \in Entries \ {e} : Alike(cache.ent[x], cache'.ent[x]), Same(cache, cache'),
         \/ cache'.ent[e].tag = cache.ent[e].tag
         \/ e \in hist'.torn => cache'.ent[e].tag \in hist'.dropped,
         ~cache'.ent[e].dirty
  PROVE  DataInv'
<1>1. PICK es \in SUBSET {e} : es = IF cache.ent[e].refs = 0 THEN {} ELSE {e}
  OBVIOUS
<1>2. Tears(es)
  BY <1>1, Zenon
<1>3. \A x \in Entries \ {e} : Fixed(x)
  BY DEF Alike, Same, Fixed
<1>4. Away(w) /\ pc'[w] \in Takers
  BY DEF Away, Takers, Reading, Writing
<1>5. CASE e \in hist'.torn
  BY <1>2, <1>3, <1>4, <1>5, TearData
<1>6. CASE e \notin hist'.torn
  <2>1. e \notin hist.torn /\ cache.ent[e].refs = 0 /\ hist'.torn = hist.torn
    BY <1>1, <1>2, <1>6 DEF Tears
  <2>2. EntryOK(e)
    BY <2>1 DEF UseInv
  <2>3. \A v \in Workers : ~IsPin(v, e) /\ ~IsVac(v, e)
    BY <2>1, <2>2, NoPins DEF EntryOK
  <2>4. \A p \in Pages : map[p] # e
    BY <2>2, Zenon DEF EntryOK, TakenOK, IsTaker
  <2>5. \A x \in Entries : Attached(w, x) /\ ~IsPin(w, x)'
    BY <1>4, LooseAttached
  <2>6. pc'[w] \notin Reading \cup {"hold"} /\ pc'[w] # "flushEnd" /\ pc'[w] \notin Writing
    BY <1>4 DEF Away, Writing
  <2>7. CallOK(w)' /\ FlushOK(w)'
    BY <2>6, NoCall, NoFlush
  <2>8. Frame(w, {e}, 0)
    <3>1. \A p \in Pages : Kind(p)
      BY DEF Kind
    <3>. QED
      BY <1>3, <2>1, <2>4, <3>1, PoolBounds DEF Frame
  <2>9. TornOK(e)'
    BY <1>6, Zenon DEF TornOK
  <2>10. \A v \in Workers : ~(loc[v].it = e /\ pc[v] \in Writing)
    BY <2>3 DEF IsVac, Writing, Flushing
  <2>11. \A v \in Workers : ~(loc'[v].it = e /\ pc'[v] \in Writing)
    BY <2>6, <2>10, Zenon DEF Others
  <2>12. DirtyOK(e)'
    BY <2>11, Zenon DEF DirtyOK
  <2>13. \A v \in Workers : ~(loc[v].it \in {e} /\ pc[v] = "flushEnd")
    BY <2>10 DEF Writing
  <2>. QED
    BY <2>5, <2>7, <2>8, <2>9, <2>12, <2>13, PoolBounds, FrameAll
<1>. QED
  BY <1>5, <1>6

\* The history of a step that clears the entry.
LEMMA TornTears ==
  ASSUME PoolInv, NEW w \in Workers, NEW e \in Entries, loc[w].ent = e, NEW t,
         hist' = Torn(w) \/ hist' = Blemished(Torn(w), e, t)
  PROVE  /\ HistGrows /\ Tears(IF cache.ent[e].refs = 0 THEN {} ELSE {e})
         /\ hist' = Blemished(Torn(w), e, t) => (e \in hist'.torn => t \in hist'.dropped)
<1>1. PICK es \in SUBSET Entries : es = IF cache.ent[e].refs = 0 THEN {} ELSE {e}
  OBVIOUS
<1>2. Torn(w) = Hurt(es)
  BY <1>1, Zenon DEF Torn, Ent
<1>3. PICK g \in HistType : g = Torn(w) /\ g = Hurt(es)
  BY <1>2, HurtFields DEF PoolInv
<1>4. /\ g.aba = hist.aba /\ g.unmarked = hist.unmarked /\ g.raced = hist.raced /\ g.torn = hist.torn \cup es
  BY <1>3, HurtFields DEF PoolInv
<1>5. PICK h : h = Blemished(g, e, t)
  OBVIOUS
<1>6. /\ h.aba = g.aba /\ h.unmarked = g.unmarked /\ h.raced = g.raced /\ h.torn = g.torn
      /\ g.dropped \subseteq h.dropped /\ (e \in g.torn => t \in h.dropped)
  BY <1>3, <1>5 DEF Blemished, HistType
<1>7. hist' = g \/ hist' = h
  BY <1>3, <1>5, Zenon
<1>8. /\ hist'.aba = hist.aba /\ hist'.unmarked = hist.unmarked /\ hist'.raced = hist.raced
      /\ hist'.torn = hist.torn \cup es /\ g.dropped \subseteq hist'.dropped
  BY <1>4, <1>6, <1>7
<1>9. Tears(es)
  BY <1>3, <1>8, HurtTears
<1>10. HistGrows
  BY <1>8, <1>9 DEF HistGrows, Tears
<1>11. hist' = Blemished(Torn(w), e, t) => (e \in hist'.torn => t \in hist'.dropped)
  BY <1>3, <1>5, <1>6, Zenon
<1>. QED
  BY <1>1, <1>9, <1>10, <1>11, Zenon

LEMMA ClearEntryData ==
  ASSUME PoolInv, UseInv, DataInv, NEW w \in Workers, ClearEntry(w)
  PROVE  DataInv'
<1>1. Others(w) /\ Same(cache, cache')
  BY PoolTyped, ClearEntryEffect, Zenon DEF Effect, Moves, Others
<1>2. pc[w] = "tearDown" /\ cache \in CacheType
  BY DEF ClearEntry, At, PoolInv
<1>3. PICK e \in Entries : e = loc[w].ent
  BY <1>2, PoolTyped, LocFields DEF Locals, LocGood, Ptr
<1>4. /\ map' = map /\ bufs' = bufs /\ disk' = disk /\ latest' = latest /\ pageLatch' = pageLatch /\ loc' = loc
      /\ pc'[w] = "setup" /\ hist' = Torn(w) /\ cache' = TearDown(cache, e)
  BY <1>3, PoolTyped DEF ClearEntry, Go
<1>5. HistGrows /\ Tears(IF cache.ent[e].refs = 0 THEN {} ELSE {e})
  BY <1>3, <1>4, TornTears, Zenon
<1>6. PICK r : r = [NewEntry EXCEPT !.tag = cache.ent[e].tag, !.buf = cache.ent[e].buf,
                                    !.prev = cache.ent[e].prev, !.next = cache.ent[e].next]
  OBVIOUS
<1>7. cache' = [cache EXCEPT !.ent[e] = r]
  BY <1>4, <1>6, Zenon DEF TearDown
<1>8. cache'.ent[e] = r /\ \A x \in Entries \ {e} : Alike(cache.ent[x], cache'.ent[x])
  BY <1>2, <1>7, CoreRefl, OneEntry
<1>9. cache'.ent[e].tag = cache.ent[e].tag /\ ~cache'.ent[e].dirty
  BY <1>6, <1>8 DEF NewEntry
<1>. QED
  BY <1>1, <1>2, <1>3, <1>4, <1>5, <1>8, <1>9, ClearData DEF Takers

\* GetBuffer: the entry is prepared, or there is none.
LEMMA PrepareEntryData ==
  ASSUME PoolInv, UseInv, DataInv, NEW w \in Workers, PrepareEntry(w)
  PROVE  DataInv'
<1>1. Others(w) /\ Same(cache, cache')
  BY PoolTyped, PrepareEntryEffect, Zenon DEF Effect, Moves, Others
<1>2. pc[w] = "setup" /\ cache \in CacheType /\ loc[w].ent \in Ptr
  BY PoolTyped, LocFields DEF PrepareEntry, At, PoolInv
<1>3. /\ map' = map /\ bufs' = bufs /\ disk' = disk /\ latest' = latest /\ pageLatch' = pageLatch /\ loc' = loc
      /\ npages' = npages /\ calls' = calls
  BY DEF PrepareEntry, latches
<1>4. CASE loc[w].ent = 0
  <2>1. pc'[w] = "again" /\ cache' = cache /\ hist' = hist
    BY <1>4, PoolTyped DEF PrepareEntry, Go
  <2>2. Rest /\ Away(w) /\ Holds(w)
    BY <1>3, <1>4, <2>1 DEF Rest, data, Away, Holds, Reading, Writing
  <2>. QED
    BY <1>1, <1>3, <2>1, <2>2, CalmRest, CalmSame
<1>5. CASE loc[w].ent # 0
  <2>1. PICK e \in Entries : e = loc[w].ent
    BY <1>2, <1>5 DEF Ptr
  <2>2. PICK t : t = loc[w].page
    OBVIOUS
  <2>3. PICK r : r = [NewEntry EXCEPT !.tag = cache.ent[e].tag, !.buf = cache.ent[e].buf,
                                      !.prev = cache.ent[e].prev, !.next = cache.ent[e].next]
    OBVIOUS
  <2>4. PICK c \in CacheType : c = TearDown(cache, e)
    BY <1>2, PinSame DEF Same
  <2>5. /\ pc'[w] = "insert" /\ hist' = Blemished(Torn(w), e, t)
        /\ cache' = [c EXCEPT !.ent[e] = [@ EXCEPT !.tag = t, !.tagValid = TRUE]]
    BY <1>5, <2>1, <2>2, <2>4, PoolTyped DEF PrepareEntry, Go
  <2>6. /\ HistGrows /\ Tears(IF cache.ent[e].refs = 0 THEN {} ELSE {e})
        /\ e \in hist'.torn => t \in hist'.dropped
    BY <2>1, <2>5, TornTears, Zenon
  <2>7. c = [cache EXCEPT !.ent[e] = r]
    BY <2>3, <2>4, Zenon DEF TearDown
  <2>8. c.ent[e] = r /\ \A x \in Entries \ {e} : c.ent[x] = cache.ent[x]
    BY <1>2, <2>7 DEF CacheType
  <2>9. cache'.ent[e] = [r EXCEPT !.tag = t, !.tagValid = TRUE] /\ \A x \in Entries \ {e} : cache'.ent[x] = c.ent[x]
    BY <2>5, <2>8 DEF CacheType
  <2>10. cache'.ent[e].tag = t /\ ~cache'.ent[e].dirty
    BY <2>3, <2>9 DEF NewEntry
  <2>11. \A x \in Entries \ {e} : Alike(cache.ent[x], cache'.ent[x])
    BY <2>8, <2>9 DEF Alike
  <2>. QED
    BY <1>1, <1>2, <1>3, <2>1, <2>5, <2>6, <2>10, <2>11, ClearData DEF Takers
<1>. QED
  BY <1>4, <1>5

\* A page that no entry has, or that is given up, has no user.
LEMMA NoUser ==
  ASSUME PoolInv, UseInv, DataInv, NEW w \in Workers, Others(w), HistGrows, NEW t \in Pages,
         map[t] = 0 \/ ~Sound(hist', t), NEW v \in Workers \ {w}, loc[v].page = t,
         pc[v] \in Reading \cup {"hold"}
  PROVE  CallOK(v)'
<1>1. CASE ~Sound(hist', t)
  <2>1. loc'[v].page = t
    BY Zenon DEF Others
  <2>. QED
    BY <1>1, <2>1, Zenon DEF CallOK, Sound
<1>2. CASE map[t] = 0 /\ Sound(hist', t)
  <2>1. PICK x \in Entries : x = loc[v].ent /\ IsPin(v, x)
    BY PoolTyped, UserPins
  <2>2. map[t] = x
    BY <1>2, <2>1, SoundBack, SoundPin
  <2>. QED
    BY <1>2, <2>2, PoolBounds
<1>. QED
  BY <1>1, <1>2

\* The flush of a torn entry.
LEMMA TornFlush ==
  ASSUME NEW w \in Workers, Others(w), NEW v \in Workers \ {w}, loc[v].it \in hist'.torn
  PROVE  FlushOK(v)'
<1>1. loc'[v].it = loc[v].it
  BY Zenon DEF Others
<1>. QED
  BY <1>1, Zenon DEF FlushOK

\* An empty entry is not written.
LEMMA CleanFlush ==
  ASSUME NEW e, Clean(e), NEW v \in Workers, loc[v].it = e, pc[v] \in Writing
  PROVE  FALSE
BY DEF Clean, Does

LEMMA CleanDirty ==
  ASSUME NEW w \in Workers, Others(w), NEW e \in Entries, Clean(e), ~cache'.ent[e].dirty, pc'[w] \notin Writing
  PROVE  DirtyOK(e)'
  BY CleanFlush DEF Others, DirtyOK

\* The new entry enters the page table, or another one has been there first.
LEMMA InsertEntryData ==
  ASSUME PoolInv, UseInv, DataInv, NEW w \in Workers, InsertEntry(w)
  PROVE  DataInv'
<1>. DEFINE get == loc[w].op = "get"
<1>1. Others(w) /\ Same(cache, cache')
  BY PoolTyped, InsertEntryEffect, Zenon DEF Effect, Moves, Others
<1>2. /\ pc[w] = "insert" /\ cache \in CacheType /\ hist \in HistType /\ map \in [Pages -> Ptr]
      /\ bufs' = bufs /\ disk' = disk /\ latest' = latest /\ pageLatch' = pageLatch
  BY DEF InsertEntry, At, PoolInv, StoreTypes
<1>3. loc[w].page \in Pages /\ loc[w].ent \in Entries
  BY <1>2, PoolTyped, LocFields DEF Locals, LocGood, WithEnt, Ptr
<1>4. PICK t \in Pages : t = loc[w].page
  BY <1>3
<1>5. PICK e \in Entries : e = loc[w].ent
  BY <1>3
<1>6. PICK x : x = map[t]
  OBVIOUS
<1>7. PICK h : h = [hist EXCEPT !.raced = IF ~get /\ (x # 0 \/ t <= Len(disk)) THEN @ \cup {t} ELSE @]
  OBVIOUS
<1>8. /\ h \in HistType /\ h.torn = hist.torn /\ hist.raced \subseteq h.raced /\ h.dropped = hist.dropped
      /\ h.unmarked = hist.unmarked /\ h.aba = hist.aba
  BY <1>2, <1>7 DEF HistType, Pages
<1>9. CASE x = 0
  <2>1. /\ map' = [map EXCEPT ![t] = e]
        /\ cache' = [cache EXCEPT !.ent[e] = [@ EXCEPT !.refs = Ent(w).refs + 1, !.top = Ent(w).top \/ get,
                                                        !.tag = t, !.tagValid = TRUE]]
        /\ pc' = [pc EXCEPT ![w] = "loadFree"] /\ hist' = Blemished(h, e, t) /\ loc' = loc
    BY <1>4, <1>5, <1>6, <1>7, <1>9, Zenon DEF InsertEntry, Go
  <2>2. PICK r : r = [cache.ent[e] EXCEPT !.refs = Ent(w).refs + 1, !.top = Ent(w).top \/ get,
                                          !.tag = t, !.tagValid = TRUE]
    OBVIOUS
  <2>3. cache' = [cache EXCEPT !.ent[e] = r]
    BY <2>1, <2>2, Zenon
  <2>4. cache'.ent[e] = r /\ \A y \in Entries \ {e} : Alike(cache.ent[y], cache'.ent[y])
    BY <1>2, <2>3, CoreRefl, OneEntry
  <2>5. cache.ent[e] \in EntryType
    BY <1>2, EntryFields
  <2>6. r.tag = t /\ r.dirty = cache.ent[e].dirty /\ r.valid = cache.ent[e].valid
    BY <2>2, <2>5 DEF EntryType
  <2>7. /\ HistGrows /\ hist'.torn = hist.torn /\ (e \in hist.torn => t \in hist'.dropped)
    BY <1>8, <2>1 DEF HistGrows, Blemished, HistType
  <2>8. /\ pc'[w] = "loadFree" /\ \A p \in Pages : map'[p] = IF p = t THEN e ELSE map[p]
    BY <1>2, <2>1, PoolTyped
  <2>9. /\ pc'[w] \notin Reading \cup {"hold"} /\ pc'[w] # "flushEnd" /\ pc'[w] \notin Writing
    BY <2>8 DEF Reading, Writing
  <2>10. CallOK(w)' /\ FlushOK(w)'
    BY <2>9, NoCall, NoFlush
  <2>11. ASSUME e \notin hist.torn PROVE Clean(e) /\ \A p \in Pages : map[p] # e
    BY <2>11, <1>2, <1>5 DEF UseInv, IsTaker, Takers, EntryOK, TakenOK
  <2>12. Frame(w, {e}, t)
    BY <1>1, <2>4, <1>2, <2>8, <1>6, <1>9, <2>7, <2>11 DEF Fixed, Alike, Same, Kind, Frame
  <2>13. \A y \in Entries \ {e} : Attached(w, y)
    BY <1>5, <2>1, <2>9, Zenon DEF Attached, IsPin
  <2>14. TornOK(e)'
    <3>. SUFFICES ASSUME e \in hist'.torn
                  PROVE  /\ cache'.ent[e].tag \in hist'.dropped \cup {0}
                         /\ \A p \in Pages : map'[p] = e => p \in hist'.dropped
                         /\ \A v \in Workers : IsPin(v, e)' => loc'[v].page \in hist'.dropped
      BY Zenon DEF TornOK
    <3>1. TornOK(e) /\ e \in hist.torn /\ t \in hist'.dropped
      BY <2>7 DEF DataInv
    <3>2. \A v \in Workers \ {w} : IsPin(v, e)' => IsPin(v, e) /\ loc'[v].page = loc[v].page
      BY <1>1, Zenon DEF Others, IsPin
    <3>3. loc'[w].page = t
      BY <1>4, <2>1
    <3>. QED
      BY <2>4, <2>6, <2>7, <2>8, <3>1, <3>2, <3>3 DEF TornOK, HistGrows
  <2>15. DirtyOK(e)'
    BY <2>7, <1>1, <2>4, <2>6, <2>9, <2>11, CleanDirty DEF DirtyOK, Clean
  <2>16. PageOK(t)'
    <3>. SUFFICES ASSUME Sound(hist', t)
                  PROVE  ~cache'.ent[map'[t]].valid /\ (t \in DOMAIN disk => disk[t] = latest[t])
      BY <1>2, Zenon DEF PageOK
    <3>1. Sound(hist, t) /\ e \notin hist.torn /\ PageOK(t)
      BY <2>7, SoundBack DEF Sound, DataInv
    <3>2. ~cache.ent[e].valid
      BY <2>11, <3>1 DEF Clean
    <3>3. t \in DOMAIN disk => disk[t] = latest[t]
      BY <1>6, <1>9, <3>1, Zenon DEF PageOK
    <3>. QED
      BY <2>4, <2>6, <2>8, <3>2, <3>3
  <2>17. \A v \in Workers \ {w} : loc[v].page = t /\ pc[v] \in Reading \cup {"hold"} => CallOK(v)'
    BY <1>1, <1>6, <1>9, <2>7, NoUser
  <2>18. ASSUME NEW v \in Workers \ {w}, loc[v].it \in {e}, pc[v] = "flushEnd" PROVE FlushOK(v)'
    BY <1>1, <2>7, <2>18, TornFlush, <2>11, CleanFlush DEF Writing
  <2>. QED
    BY <2>10, <2>12, <2>13, <2>14, <2>15, <2>16, <2>17, <2>18, FrameAll
<1>10. CASE x # 0
  <2>1. /\ cache' = Pin(cache, x) /\ loc' = [loc EXCEPT ![w].ent = x, ![w].it = e]
        /\ pc' = [pc EXCEPT ![w] = "giveBack"] /\ hist' = h /\ map' = map
    BY <1>4, <1>5, <1>6, <1>7, <1>10, Zenon DEF InsertEntry, Go
  <2>2. x \in Entries
    BY <1>2, <1>6, <1>10 DEF Ptr
  <2>3. loc'[w].page = t /\ loc'[w].ent = x /\ pc'[w] = "giveBack"
    BY <1>4, <2>1, PoolTyped DEF LocType
  <2>4. Calm(w)
    BY <1>2, <1>8, <2>1 DEF Calm, HistGrows
  <2>5. \A y \in Entries : Fixed(y)
    BY <1>1, <1>2, <2>1, <2>2, PinFixed
  <2>6. Away(w) /\ Holds(w)
    BY <1>6, <2>3 DEF Away, Holds, Reading, Writing
  <2>. QED
    BY <1>1, <2>4, <2>5, <2>6, CalmKeeps
<1>. QED
  BY <1>9, <1>10

\* LinkedList::Get
LEMMA LoadFreeData ==
  ASSUME PoolInv, UseInv, DataInv, NEW w \in Workers, LoadFree(w)
  PROVE  DataInv'
<1>1. Others(w)
  BY PoolTyped, LoadFreeEffect, Zenon DEF Effect, Moves, Others
<1>2. /\ pc[w] = "loadFree" /\ map \in [Pages -> Ptr] /\ Role(w)
      /\ bufs' = bufs /\ Rest /\ pageLatch' = pageLatch /\ cache' = cache
  BY DEF LoadFree, At, PoolInv, StoreTypes, UseInv
<1>3. disk' = disk /\ latest' = latest /\ hist' = hist
  BY <1>2 DEF Rest, data
<1>4. loc[w].page \in Pages /\ loc[w].ent \in Entries
  BY <1>2, PoolTyped, LocFields DEF Locals, LocGood, WithEnt, Ptr
<1>5. PICK t \in Pages : t = loc[w].page
  BY <1>4
<1>6. PICK e \in Entries : e = loc[w].ent
  BY <1>4
<1>7. map[t] = e
  BY <1>2, <1>5, <1>6 DEF Role, Inserting
<1>8. CASE freeHead = 0
  <2>1. /\ map' = Unmap(t) /\ loc' = [loc EXCEPT ![w].it = e, ![w].ent = 0] /\ pc' = [pc EXCEPT ![w] = "giveBack"]
    BY <1>5, <1>6, <1>8, Zenon DEF LoadFree, Go
  <2>2. loc'[w].ent = 0 /\ pc'[w] = "giveBack"
    BY <2>1, PoolTyped DEF LocType
  <2>3. Away(w)
    BY <2>2 DEF Away, Reading, Writing
  <2>4. \A x \in Entries : Attached(w, x) /\ ~IsPin(w, x)'
    BY <2>2, <2>3, LooseAttached
  <2>5. pc'[w] \notin Reading \cup {"hold"} /\ pc'[w] # "flushEnd" /\ pc'[w] \notin Writing
    BY <2>3 DEF Away, Writing
  <2>6. CallOK(w)' /\ FlushOK(w)'
    BY <2>5, NoCall, NoFlush
  <2>7. \A p \in Pages : map'[p] = IF p = t THEN 0 ELSE map[p]
    BY <2>1, Zenon DEF Unmap
  <2>8. HistGrows /\ Tears({})
    BY <1>3 DEF HistGrows, Tears
  <2>9. ASSUME e \notin hist.torn
        PROVE  Clean(e) /\ cache.ent[e].tag = t /\ \A v \in Workers : IsPin(v, e) => v = w
    BY <2>9, <1>2, <1>6, <1>7 DEF UseInv, EntryOK, InsertOK, Inserting, MapOK
  <2>10. Frame(w, {e}, t)
    BY <1>2, FixedSame, <1>3, <2>7, <1>1, <1>7, <2>8, <2>9 DEF Kind, Frame
  <2>11. TornOK(e)'
    BY <2>7, PoolBounds, <1>1, <1>2, <2>4, <2>8, TornKeeps
  <2>12. DirtyOK(e)'
    <3>1. CASE e \in hist.torn
      BY <1>3, <3>1, Zenon DEF DirtyOK
    <3>2. CASE e \notin hist.torn
      <4>1. Clean(e) /\ ~cache'.ent[e].dirty
        BY <1>2, <2>9, <3>2 DEF Clean
      <4>. QED
        BY <1>1, <2>5, <4>1, CleanDirty
    <3>. QED
      BY <3>1, <3>2
  <2>13. PageOK(t)'
    <3>. SUFFICES ASSUME t \in DOMAIN disk, Sound(hist, t) PROVE disk[t] = latest[t]
      <4>1. map'[t] = 0
        BY <2>7
      <4>. QED
        BY <1>3, <4>1, Zenon DEF PageOK
    <3>1. e \notin hist.torn /\ PageOK(t)
      BY <1>7, SoundMap DEF DataInv
    <3>2. ~cache.ent[e].valid
      BY <2>9, <3>1 DEF Clean
    <3>. QED
      BY <1>7, <3>1, <3>2, Zenon DEF PageOK
  <2>14. ASSUME NEW v \in Workers \ {w}, loc[v].page = t, pc[v] \in Reading \cup {"hold"} PROVE CallOK(v)'
    <3>1. CASE ~Sound(hist', t)
      BY <1>1, <2>8, <2>14, <3>1, NoUser
    <3>2. CASE Sound(hist', t)
      <4>1. PICK x \in Entries : x = loc[v].ent /\ IsPin(v, x)
        BY <2>14, PoolTyped, UserPins
      <4>2. x \notin hist.torn /\ map[t] = x
        BY <1>3, <2>14, <3>2, <4>1, SoundPin
      <4>. QED
        BY <1>7, <2>9, <2>14, <4>1, <4>2
    <3>. QED
      BY <3>1, <3>2
  <2>15. ASSUME NEW v \in Workers \ {w}, loc[v].it \in {e}, pc[v] = "flushEnd" PROVE FlushOK(v)'
    BY <1>1, <1>3, <2>15, TornFlush, <2>9, CleanFlush DEF Writing
  <2>. QED
    BY <2>4, <2>6, <2>10, <2>11, <2>12, <2>13, <2>14, <2>15, FrameAll
<1>9. CASE freeHead # 0
  BY <1>9, PoolTyped, <1>1, <1>2, CalmRest, CalmSame DEF LoadFree, Go, LocType, Away, Holds, Reading,
     Writing, Takers
<1>. QED
  BY <1>8, <1>9

-----------------------------------------------------------------------------
(* Steps on the entry of a page                                             *)

\* What a page's entry, its users and its writers have to do with its versions.
VersionOK(e, t) ==
  LET r == cache.ent[e] IN
  /\ r.valid => t \in DOMAIN disk /\ (r.buf # 0 => bufs[r.buf].version = latest[t])
  /\ t \in DOMAIN disk => disk[t] = latest[t] \/ (r.valid /\ r.dirty /\ r.buf # 0)

UserOK(v, e, t) == loc[v].ent = e /\ loc[v].page = t =>
  LET r == cache.ent[e] IN
  /\ pc[v] = "hold" => r.valid /\ t \in DOMAIN disk
  /\ pc[v] \in Reading => ~r.valid
  /\ pc[v] = "readEnd" => t \in DOMAIN disk /\ (r.buf # 0 => bufs[r.buf].version = latest[t])

WriterOK(v, e, t) == loc[v].it = e /\ pc[v] = "flushEnd" =>
  LET r == cache.ent[e] IN
  /\ t \in DOMAIN disk /\ disk[t] = latest[t]
  /\ r.valid /\ r.buf # 0 /\ pageLatch[r.buf] = v

Good(e, t) == VersionOK(e, t) /\ \A v \in Workers : UserOK(v, e, t) /\ WriterOK(v, e, t)

\* A page with which nothing went wrong, and its entry.
Serves(e, t) == t \in Pages /\ map[t] = e /\ cache.ent[e].tag = t /\ e \notin hist.torn /\ Sound(hist, t)

LEMMA ServesGood ==
  ASSUME DataInv, NEW e \in Entries, NEW t, Serves(e, t)
  PROVE  Good(e, t)
<1>1. t \in Pages /\ map[t] = e /\ cache.ent[e].tag = t /\ e \notin hist.torn /\ Sound(hist, t) /\ e # 0
  BY PoolBounds DEF Serves
<1>2. PageOK(t)
  BY <1>1 DEF DataInv
<1>3. VersionOK(e, t)
  BY <1>1, <1>2, Zenon DEF PageOK, VersionOK
<1>4. ASSUME NEW v \in Workers PROVE UserOK(v, e, t) /\ WriterOK(v, e, t)
  BY <1>1 DEF DataInv, CallOK, UserOK, FlushOK, WriterOK
<1>. QED
  BY <1>3, <1>4 DEF Good

\* A step of a worker that touches one entry, its buffer and its page.
Touches(w, e) ==
  /\ Others(w) /\ HistGrows /\ hist'.torn = hist.torn /\ map' = map
  /\ \A x \in Entries \ {e} : Fixed(x)
  /\ cache'.ent[e].tag = cache.ent[e].tag
  /\ \A p \in Pages : map[p] # e => Kind(p)
  /\ \A b \in Buffers : bufs'[b].version = bufs[b].version \/ cache.ent[e].buf = b
  /\ \A b \in Buffers : pageLatch[b] \notin {w, NoWorker} => pageLatch'[b] = pageLatch[b]
  /\ loc'[w].ent = 0 \/ (pc[w] \notin Takers /\ loc'[w].ent = loc[w].ent /\ loc'[w].page = loc[w].page)
  /\ pc'[w] \in Reading \cup {"hold"} => loc'[w].ent = e
  /\ pc'[w] \in Writing => loc'[w].it = e

\* Such a step keeps the invariant when it does so for the page that the entry serves.
LEMMA TouchKeeps ==
  ASSUME PoolInv, UseInv, DataInv, NEW w \in Workers, NEW e \in Entries, Touches(w, e), DirtyOK(e)',
         \A p \in Pages : Serves(e, p) /\ Sound(hist', p) /\ Good(e, p) => Good(e, p)'
  PROVE  DataInv'
<1>1. Others(w) /\ HistGrows /\ hist'.torn = hist.torn /\ map' = map
  BY DEF Touches
<1>2. \A x \in Entries : IsPin(w, x)' => IsPin(w, x) /\ loc'[w].page = loc[w].page
  BY PoolBounds, Zenon DEF Touches, IsPin
<1>3. ASSUME NEW p \in Pages, map[p] = e, ~Serves(e, p) \/ ~Sound(hist', p) PROVE ~Sound(hist', p)
  <2>1. SUFFICES ASSUME Sound(hist', p) PROVE Serves(e, p)
    BY <1>3
  <2>2. Sound(hist, p)
    BY <1>1, <2>1, SoundBack
  <2>3. e \notin hist.torn /\ cache.ent[e].tag = p
    BY <1>3, <2>2, SoundMap
  <2>. QED
    BY <1>3, <2>2, <2>3 DEF Serves
<1>4. \A p \in Pages : ~(Serves(e, p) /\ Sound(hist', p)) => Kind(p)
  BY <1>1, <1>3 DEF Kind, Touches
<1>5. \A p \in Pages : Serves(e, p) /\ Sound(hist', p) => Good(e, p)'
  BY ServesGood
<1>6. ASSUME NEW v \in Workers, pc'[v] \in Reading \cup {"hold"}, loc'[v].ent = e, IsPin(v, e),
             loc'[v].page = loc[v].page
      PROVE  CallOK(v)'
  <2>1. PICK p : p = loc[v].page
    OBVIOUS
  <2>2. CASE ~Sound(hist', p)
    BY <1>6, <2>1, <2>2, Zenon DEF CallOK, Sound
  <2>3. CASE Sound(hist', p)
    BY <1>1, <2>3, SoundBack, <1>6, <2>1, SoundPin, <1>5 DEF Serves, Good, CallOK, UserOK
  <2>. QED
    BY <2>2, <2>3
<1>7. ASSUME NEW v \in Workers, pc'[v] = "flushEnd", loc'[v].it = e PROVE FlushOK(v)'
  <2>1. PICK p : p = cache.ent[e].tag
    OBVIOUS
  <2>2. cache'.ent[e].tag = p
    BY <2>1 DEF Touches
  <2>3. CASE e \in hist'.torn \/ ~Sound(hist', p)
    BY <1>7, <2>2, <2>3, Zenon DEF FlushOK, Sound
  <2>4. CASE e \notin hist'.torn /\ Sound(hist', p)
    <3>1. Sound(hist, p) /\ p \notin hist'.raced
      BY <1>1, <2>4, SoundBack DEF Sound
    <3>2. pc'[v] \in Writing
      BY <1>7 DEF Writing
    <3>3. cache'.ent[e].dirty
      BY <1>7, <2>2, <2>4, <3>1, <3>2, Zenon DEF DirtyOK
    <3>4. p \in Pages /\ map'[p] = e
      BY <2>2, <2>4, <3>3, Zenon DEF DirtyOK, Sound
    <3>5. Serves(e, p)
      BY <1>1, <2>1, <2>4, <3>1, <3>4 DEF Serves
    <3>6. WriterOK(v, e, p)'
      BY <1>5, <2>4, <3>4, <3>5 DEF Good
    <3>. QED
      BY <1>7, <2>2, <3>6, Zenon DEF FlushOK, WriterOK
  <2>. QED
    BY <2>3, <2>4
<1>8. CallOK(w)'
  <2>1. CASE pc'[w] \in Reading \cup {"hold"}
    BY <2>1, <1>2, <1>6 DEF Touches, Takers, Reading, IsPin
  <2>2. CASE pc'[w] \notin Reading \cup {"hold"}
    BY <2>2, NoCall
  <2>. QED
    BY <2>1, <2>2
<1>9. FlushOK(w)'
  BY <1>7, NoFlush DEF Touches, Writing
<1>10. \A x \in Entries : x \in hist.torn /\ IsPin(w, x)' => loc'[w].page \in hist'.dropped
  BY <1>1, <1>2 DEF DataInv, TornOK, HistGrows
<1>11. \A x \in Entries \ {e} : Attached(w, x)
  BY <1>10 DEF Attached, Touches
<1>12. TornOK(e)'
  <2>1. \A v \in Workers : IsPin(v, e)' => IsPin(v, e) /\ loc'[v].page = loc[v].page
    BY <1>1, <1>2, Zenon DEF Others, IsPin
  <2>2. TornOK(e)
    BY DEF DataInv
  <2>3. ASSUME e \in hist.torn
        PROVE  /\ cache'.ent[e].tag \in hist'.dropped \cup {0}
               /\ \A p \in Pages : map'[p] = e => p \in hist'.dropped
               /\ \A v \in Workers : IsPin(v, e)' => loc'[v].page \in hist'.dropped
    BY <1>1, <2>1, <2>2, <2>3 DEF TornOK, HistGrows, Touches
  <2>. QED
    BY <1>1, <2>3, Zenon DEF TornOK
<1>13. PICK t : \/ t \in Pages /\ Serves(e, t) /\ Sound(hist', t)
                \/ t = 0 /\ \A p \in Pages : ~(Serves(e, p) /\ Sound(hist', p))
  OBVIOUS
<1>14. 0 \notin Pages /\ \A p \in Pages : p # t => ~(Serves(e, p) /\ Sound(hist', p))
  BY <1>13 DEF Serves, Pages
<1>15. Frame(w, {e}, t)
  <2>1. \A x \in Entries \ {e} : Fixed(x) /\ (x \in hist'.torn => x \in hist.torn)
    BY <1>1 DEF Touches
  <2>2. \A p \in Pages \ {t} : Kind(p)
    BY <1>4, <1>14
  <2>3. t \in Pages => map'[t] = e /\ map[t] = e
    BY <1>1, <1>13, <1>14 DEF Serves
  <2>4. ASSUME e \notin hist.torn, Sound(hist', cache.ent[e].tag)
        PROVE  cache.ent[e].tag = t \/ \A p \in Pages : map[p] # e
    <3>1. SUFFICES ASSUME NEW p \in Pages, map[p] = e PROVE cache.ent[e].tag = t
      OBVIOUS
    <3>2. EntryOK(e)
      BY <2>4 DEF UseInv
    <3>3. cache.ent[e].tag = p
      BY <3>1, <3>2 DEF EntryOK, MapOK
    <3>4. Serves(e, p)
      BY <1>1, <2>4, <3>1, <3>3, SoundBack DEF Serves
    <3>. QED
      BY <1>14, <2>4, <3>3, <3>4
  <2>. QED
    BY <1>1, <2>1, <2>2, <2>3, <2>4 DEF Frame, Touches
<1>16. t \in Pages => PageOK(t)'
  <2>. SUFFICES ASSUME t \in Pages PROVE PageOK(t)'
    OBVIOUS
  <2>1. VersionOK(e, t)' /\ map'[t] = e
    BY <1>1, <1>5, <1>13, <1>14 DEF Good, Serves
  <2>. QED
    BY <2>1, PoolBounds, Zenon DEF PageOK, VersionOK
<1>17. ASSUME NEW v \in Workers \ {w}, t \in Pages, loc[v].page = t, pc[v] \in Reading \cup {"hold"}
       PROVE  CallOK(v)'
  <2>1. pc'[v] = pc[v] /\ loc'[v] = loc[v]
    BY <1>1, <1>17 DEF Others
  <2>2. PICK x \in Entries : x = loc[v].ent /\ IsPin(v, x)
    BY <1>17, PoolTyped, UserPins
  <2>3. map[t] = e /\ Sound(hist, t)
    BY <1>13, <1>14, <1>17 DEF Serves
  <2>4. x = e
    BY <1>17, <2>2, <2>3, SoundPin
  <2>. QED
    BY <1>6, <1>17, <2>1, <2>2, <2>4
<1>18. ASSUME NEW v \in Workers \ {w}, loc[v].it \in {e}, pc[v] = "flushEnd" PROVE FlushOK(v)'
  BY <1>1, <1>18, <1>7 DEF Others
<1>. QED
  BY <1>8, <1>9, <1>11, <1>12, <1>15, <1>16, <1>17, <1>18, FrameAll

\* The page keeps its versions and the entry what is in its buffer.
LEMMA GoodStays ==
  ASSUME PoolInv, NEW w \in Workers, Others(w), NEW e \in Entries, NEW t \in Pages, Good(e, t), Fixed(e),
         disk' = disk, latest' = latest, bufs' = bufs, UserOK(w, e, t)', WriterOK(w, e, t)',
         \A b \in Buffers : pageLatch[b] \notin {w, NoWorker} => pageLatch'[b] = pageLatch[b]
  PROVE  Good(e, t)'
<1>1. VersionOK(e, t)'
  BY Zenon DEF Good, VersionOK, Fixed
<1>2. ASSUME NEW v \in Workers \ {w} PROVE UserOK(v, e, t)' /\ WriterOK(v, e, t)'
  BY <1>2, EntryFields, PoolAssumption DEF Others, Good, UserOK, Fixed, PoolInv, BufPtr, WriterOK
<1>. QED
  BY <1>1, <1>2 DEF Good

\* A worker that has nothing to do with the page any more.
LEMMA Gone ==
  ASSUME NEW w \in Workers, NEW e, NEW t, pc'[w] \notin Reading \cup {"hold"}, pc'[w] # "flushEnd"
  PROVE  UserOK(w, e, t)' /\ WriterOK(w, e, t)'
  BY DEF Reading, UserOK, WriterOK

\* What is dirty stays so, and nothing else is going to be written.
LEMMA DirtyStays ==
  ASSUME DataInv, NEW w \in Workers, Others(w), HistGrows, hist'.torn = hist.torn, map' = map,
         NEW e \in Entries, cache'.ent[e].tag = cache.ent[e].tag, cache'.ent[e].dirty = cache.ent[e].dirty,
         loc'[w].it = e /\ pc'[w] \in Writing => cache.ent[e].dirty \/ (loc[w].it = e /\ pc[w] \in Writing)
  PROVE  DirtyOK(e)'
<1>1. DirtyOK(e)
  BY DEF DataInv
<1>2. ASSUME e \notin hist.torn, cache.ent[e].dirty, Sound(hist', cache.ent[e].tag)
      PROVE  cache.ent[e].tag \in Pages /\ map[cache.ent[e].tag] = e
  <2>1. PICK p : p = cache.ent[e].tag
    OBVIOUS
  <2>2. Sound(hist, p)
    BY <1>2, <2>1, SoundBack
  <2>. QED
    BY <1>1, <1>2, <2>1, <2>2 DEF DirtyOK
<1>3. ASSUME e \notin hist.torn, cache.ent[e].tag \notin hist'.raced, NEW v \in Workers,
             loc'[v].it = e, pc'[v] \in Writing
      PROVE  cache.ent[e].dirty
  BY <1>3, <1>1 DEF Others, HistGrows, DirtyOK
<1>. QED
  BY <1>2, <1>3, Zenon DEF DirtyOK, Sound

\* One more flag of the entry of a worker is set, or none; the pages stay.
LEMMA FlagData ==
  ASSUME PoolInv, UseInv, DataInv, NEW w \in Workers, Others(w), NEW e \in Entries, \A x \in Entries : Fixed(x),
         map' = map, bufs' = bufs, disk' = disk, latest' = latest, hist' = hist, loc' = loc, pc[w] \notin Takers,
         pageLatch' = pageLatch \/ pageLatch' = DropAll(pageLatch, w),
         pc'[w] \in Reading \cup {"hold"} => loc[w].ent = e,
         pc'[w] \in Writing => loc[w].it = e /\ cache.ent[e].dirty, pc'[w] # "flushEnd",
         \A t \in Pages : Serves(e, t) /\ Good(e, t) => UserOK(w, e, t)'
  PROVE  DataInv'
<1>1. HistGrows /\ \A p \in Pages : Kind(p)
  BY DEF HistGrows, Kind
<1>2. \A b \in Buffers : pageLatch[b] \notin {w, NoWorker} => pageLatch'[b] = pageLatch[b]
  BY LatchesStay DEF PoolInv
<1>3. Touches(w, e)
  BY <1>1, <1>2 DEF Touches, Fixed
<1>4. DirtyOK(e)'
  BY <1>1, DirtyStays DEF Fixed
<1>5. ASSUME NEW t \in Pages, Serves(e, t), Good(e, t) PROVE Good(e, t)'
  BY <1>5, <1>2, GoodStays DEF WriterOK
<1>. QED
  BY <1>3, <1>4, <1>5, TouchKeeps

\* A field of an entry that has nothing to do with its page is set.
LEMMA IoFixed ==
  ASSUME PoolInv, NEW e \in Entries, NEW b, cache' = [cache EXCEPT !.ent[e].io = b], Same(cache, cache')
  PROVE  \A x \in Entries : Fixed(x)
<1>1. PICK r : r = [cache.ent[e] EXCEPT !.io = b]
  OBVIOUS
<1>2. cache' = [cache EXCEPT !.ent[e] = r]
  BY <1>1, Zenon
<1>3. cache \in CacheType /\ cache.ent[e] \in EntryType
  BY EntryFields DEF PoolInv
<1>4. r.tag = cache.ent[e].tag /\ r.dirty = cache.ent[e].dirty /\ r.valid = cache.ent[e].valid
  BY <1>1, <1>3 DEF EntryType
<1>. QED
  BY <1>2, <1>3, <1>4, CoreRefl, FixedOne

\* ShouldStartIO for a flush
LEMMA FlushData ==
  ASSUME PoolInv, UseInv, DataInv, NEW w \in Workers, Flush(w)
  PROVE  DataInv'
<1>1. Others(w) /\ Same(cache, cache')
  BY PoolTyped, FlushEffect, Zenon DEF Effect, Moves, Others
<1>2. /\ map' = map /\ bufs' = bufs /\ disk' = disk /\ latest' = latest /\ hist' = hist /\ loc' = loc
      /\ pageLatch' = pageLatch /\ pc[w] = "flush"
  BY DEF Flush, Rest, data, latches, At
<1>3. PICK e \in Entries : e = loc[w].it
  BY <1>2, PoolTyped, LocFields DEF LocGood, Locals, WithIt, Ptr
<1>4. \/ cache' = cache /\ pc'[w] = "vacCheck"
      \/ cache.ent[e].dirty /\ cache' = [cache EXCEPT !.ent[e].io = TRUE] /\ pc'[w] = "flushIO"
  BY <1>3, PoolTyped DEF Flush, Go, It
<1>5. \A x \in Entries : Fixed(x)
  BY <1>1, <1>4, FixedSame, IoFixed
<1>6. /\ pc[w] \notin Takers /\ pc'[w] \notin Reading \cup {"hold"} /\ pc'[w] # "flushEnd"
      /\ pc'[w] \in Writing => cache.ent[e].dirty
  BY <1>2, <1>4 DEF Takers, Reading, Writing
<1>7. \A t \in Pages : UserOK(w, e, t)'
  BY <1>6, Gone
<1>. QED
  BY <1>1, <1>2, <1>3, <1>5, <1>6, <1>7, FlagData

\* ReadBuffer
LEMMA StartReadData ==
  ASSUME PoolInv, UseInv, DataInv, NEW w \in Workers, StartRead(w)
  PROVE  DataInv'
<1>1. Others(w) /\ Same(cache, cache')
  BY PoolTyped, StartReadEffect, Zenon DEF Effect, Moves, Others
<1>2. /\ map' = map /\ bufs' = bufs /\ disk' = disk /\ latest' = latest /\ hist' = hist /\ loc' = loc
      /\ pc[w] = "data" /\ Role(w) /\ disk \in Seq(Nat)
      /\ pageLatch' = pageLatch \/ pageLatch' = DropAll(pageLatch, w)
  BY DEF StartRead, Rest, data, latches, At, Over, UseInv, PoolInv, StoreTypes
<1>3. PICK e \in Entries : e = loc[w].ent
  BY <1>2, PoolTyped, LocFields DEF LocGood, Locals, WithEnt, Ptr
<1>4. \/ cache' = cache /\ pc'[w] = "hold" /\ cache.ent[e].valid
      \/ ~cache.ent[e].valid /\ cache' = [cache EXCEPT !.ent[e].io = TRUE] /\ pc'[w] = "readIO"
  BY <1>3, PoolTyped DEF StartRead, Go, Ent, Over
<1>5. \A x \in Entries : Fixed(x)
  BY <1>1, <1>4, FixedSame, IoFixed
<1>6. loc[w].page \in Pages /\ loc[w].page <= Len(disk)
  BY <1>2, PoolTyped, LocFields DEF LocGood, Locals, WithEnt, Role
<1>7. loc[w].page \in DOMAIN disk
  BY <1>2, <1>6 DEF Pages
<1>8. /\ pc[w] \notin Takers /\ pc'[w] # "flushEnd" /\ pc'[w] \notin Writing
      /\ pc'[w] = "hold" => cache'.ent[e].valid
      /\ pc'[w] \in Reading => ~cache'.ent[e].valid
      /\ pc'[w] # "readEnd"
  BY <1>2, <1>4, <1>5 DEF Takers, Writing, Reading, Fixed
<1>9. \A t \in Pages : UserOK(w, e, t)'
  BY <1>2, <1>7, <1>8, Zenon DEF UserOK
<1>. QED
  BY <1>1, <1>2, <1>3, <1>5, <1>8, <1>9, FlagData

\* ExtendRelation: the I/O of the new page, and of a page that another extension made
LEMMA ExtendIOData ==
  ASSUME PoolInv, UseInv, DataInv, NEW w \in Workers, ExtendIO(w) \/ ExtendStart(w)
  PROVE  DataInv'
<1>1. Others(w) /\ Same(cache, cache')
  BY PoolTyped, ExtendEffect, Zenon DEF Effect, Moves, Others
<1>2. /\ map' = map /\ bufs' = bufs /\ disk' = disk /\ latest' = latest /\ hist' = hist /\ loc' = loc
      /\ pc[w] \in {"extendIO", "extendStart"} /\ Role(w) /\ pageLatch' = pageLatch
  BY DEF ExtendIO, ExtendStart, Rest, data, latches, At, UseInv
<1>3. PICK e \in Entries : e = loc[w].ent
  BY <1>2, PoolTyped, LocFields DEF LocGood, Locals, WithEnt, Ptr
<1>4. \/ cache' = cache /\ pc'[w] = "extendAgain"
      \/ /\ pc'[w] = "readIO" /\ (pc[w] = "extendIO" \/ ~cache.ent[e].valid)
         /\ \E b : cache' = [cache EXCEPT !.ent[e].io = b]
  BY <1>3, PoolTyped DEF ExtendIO, ExtendStart, Go, Ent, At
<1>5. \A x \in Entries : Fixed(x)
  BY <1>1, <1>4, FixedSame, IoFixed
<1>6. pc[w] \notin Takers /\ pc'[w] # "flushEnd" /\ pc'[w] \notin Writing /\ pc'[w] # "hold" /\ pc'[w] # "readEnd"
  BY <1>2, <1>4 DEF Takers, Writing, Reading
<1>7. ASSUME NEW t \in Pages, Serves(e, t), loc[w].page = t, pc[w] = "extendIO" PROVE ~cache.ent[e].valid
  <2>1. EntryOK(e) /\ t \notin hist.raced
    BY <1>7 DEF UseInv, Serves, Sound
  <2>2. Creates(w, e)
    BY <1>2, <1>3, <1>7, <2>1 DEF Creates, Creating, Role
  <2>. QED
    BY <2>1, <2>2 DEF EntryOK, CreateOK
<1>8. ASSUME NEW t \in Pages, Serves(e, t) PROVE UserOK(w, e, t)'
  <2>1. CASE pc'[w] = "extendAgain"
    BY <2>1, Gone DEF Reading
  <2>2. CASE pc'[w] = "readIO" /\ loc[w].page = t
    <3>1. ~cache'.ent[e].valid
      BY <1>4, <1>5, <1>7, <1>8, <2>2 DEF Fixed
    <3>. QED
      BY <1>6, <3>1, Zenon DEF UserOK
  <2>3. CASE pc'[w] = "readIO" /\ loc[w].page # t
    BY <1>2, <2>3, Zenon DEF UserOK
  <2>. QED
    BY <1>4, <2>1, <2>2, <2>3
<1>. QED
  BY <1>1, <1>2, <1>3, <1>5, <1>6, <1>8, FlagData

\* A page that another extension made is not valid any more.
LEMMA InvalidateData ==
  ASSUME PoolInv, UseInv, DataInv, NEW w \in Workers, Invalidate(w)
  PROVE  DataInv'
<1>1. Others(w) /\ Same(cache, cache')
  BY PoolTyped, ExtendEffect, Zenon DEF Effect, Moves, Others
<1>2. /\ map' = map /\ bufs' = bufs /\ disk' = disk /\ latest' = latest /\ hist' = hist /\ loc' = loc
      /\ pc[w] = "extendAgain" /\ Role(w) /\ pageLatch' = pageLatch /\ pc'[w] = "extendStart" /\ cache \in CacheType
  BY PoolTyped DEF Invalidate, Rest, data, latches, At, Go, UseInv, PoolInv
<1>3. PICK e \in Entries : e = loc[w].ent
  BY <1>2, PoolTyped, LocFields DEF LocGood, Locals, WithEnt, Ptr
<1>4. PICK r : r = [cache.ent[e] EXCEPT !.valid = FALSE]
  OBVIOUS
<1>5. cache' = [cache EXCEPT !.ent[e] = r]
  BY <1>3, <1>4, Zenon DEF Invalidate
<1>6. cache'.ent[e] = r /\ \A x \in Entries \ {e} : Alike(cache.ent[x], cache'.ent[x])
  BY <1>2, <1>5, CoreRefl, OneEntry
<1>7. r.tag = cache.ent[e].tag /\ r.dirty = cache.ent[e].dirty
  <2>1. cache.ent[e] \in EntryType
    BY <1>2, EntryFields
  <2>. QED
    BY <1>4, <2>1 DEF EntryType
<1>8. \A x \in Entries \ {e} : Fixed(x)
  BY <1>1, <1>6 DEF Fixed, Alike, Same
<1>9. /\ pc[w] \notin Takers /\ pc'[w] \notin Reading \cup {"hold"} /\ pc'[w] \notin Writing
  BY <1>2 DEF Takers, Reading, Writing
<1>10. HistGrows /\ \A p \in Pages : Kind(p)
  BY <1>2 DEF HistGrows, Kind
<1>11. Touches(w, e)
  BY <1>1, <1>2, <1>6, <1>7, <1>8, <1>9, <1>10 DEF Touches
<1>12. DirtyOK(e)'
  BY <1>1, <1>2, <1>6, <1>7, <1>9, <1>10, DirtyStays
<1>13. loc[w].page \in hist.raced
  BY <1>2, <1>3, PoolBounds DEF Role, Takers, Creating, Inserting, Reading
<1>14. \A p \in Pages : ~Serves(e, p)
  <2>. SUFFICES ASSUME NEW p \in Pages, Serves(e, p) PROVE FALSE
    OBVIOUS
  <2>1. EntryOK(e) /\ IsPin(w, e) /\ p \notin hist.raced
    BY <1>3, <1>9 DEF UseInv, Serves, Sound, IsPin
  <2>2. loc[w].page = p
    BY <2>1 DEF EntryOK, MapOK, Serves
  <2>. QED
    BY <1>13, <2>1, <2>2
<1>. QED
  BY <1>11, <1>12, <1>14, TouchKeeps

\* What TerminateBufferIO does to what is in the buffer.
LEMMA TerminatedFields ==
  ASSUME cache \in CacheType, NEW e \in Entries, NEW ok \in BOOLEAN, cache' = Terminated(e, ok)
  PROVE  cache'.ent[e].dirty = ~ok /\ cache'.ent[e].valid = (ok \/ cache.ent[e].valid)
<1>1. PICK d : d = ~ok
  OBVIOUS
<1>2. PICK g : g = (ok \/ cache.ent[e].valid)
  OBVIOUS
<1>3. PICK r : r = [cache.ent[e] EXCEPT !.io = FALSE, !.dirty = d, !.valid = g]
  OBVIOUS
<1>4. cache' = [cache EXCEPT !.ent[e] = r]
  BY <1>1, <1>2, <1>3, Zenon DEF Terminated
<1>5. cache'.ent[e] = r
  BY <1>4, CoreRefl, OneEntry
<1>6. cache.ent[e] \in EntryType
  BY EntryFields
<1>7. r.dirty = d /\ r.valid = g
  BY <1>3, <1>6 DEF EntryType
<1>. QED
  BY <1>1, <1>2, <1>5, <1>7, Zenon

\* One worker at a time reads or writes a page.
LEMMA IoAlone ==
  ASSUME UseInv, NEW e \in Entries, e \notin hist.torn, cache.ent[e].tag \notin hist.raced,
         NEW v \in Workers, NEW w \in Workers, Does(v, e), Does(w, e)
  PROVE  v = w
<1>1. EntryOK(e)
  BY DEF UseInv
<1>. QED
  BY <1>1 DEF EntryOK, IoOK

\* The end of the I/O of an entry.
LEMMA EndData ==
  ASSUME PoolInv, UseInv, DataInv, NEW w \in Workers, Others(w), NEW e \in Entries, Does(w, e),
         NEW ok \in BOOLEAN, cache' = Terminated(e, ok), Same(cache, cache'),
         map' = map, bufs' = bufs, disk' = disk, latest' = latest, hist' = hist,
         pageLatch' = pageLatch \/ pageLatch' = DropAll(pageLatch, w), pc[w] \notin Takers,
         loc'[w].ent = 0 \/ loc' = loc, pc'[w] \notin Reading \cup Writing,
         pc'[w] = "hold" => loc' = loc /\ loc[w].ent = e,
         cache'.ent[e].dirty /\ e \notin hist.torn /\ Sound(hist, cache.ent[e].tag)
           => cache.ent[e].tag \in Pages /\ map[cache.ent[e].tag] = e,
         \A t \in Pages : Serves(e, t) /\ Good(e, t) => VersionOK(e, t)' /\ UserOK(w, e, t)' /\ (cache.ent[e].valid => cache'.ent[e].valid)
  PROVE  DataInv'
<1>1. HistGrows /\ \A p \in Pages : Kind(p)
  BY DEF HistGrows, Kind
<1>2. \A b \in Buffers : pageLatch[b] \notin {w, NoWorker} => pageLatch'[b] = pageLatch[b]
  BY LatchesStay DEF PoolInv
<1>3. cache \in CacheType
  BY DEF PoolInv
<1>4. (\A x \in Entries \ {e} : Alike(cache.ent[x], cache'.ent[x])) /\ cache'.ent[e].tag = cache.ent[e].tag
  BY <1>3, TerminatedEntry
<1>5. \A x \in Entries \ {e} : Fixed(x)
  BY <1>4 DEF Fixed, Alike, Same
<1>6. Touches(w, e)
  BY <1>1, <1>2, <1>4, <1>5 DEF Touches
<1>7. ASSUME e \notin hist.torn, cache.ent[e].tag \notin hist.raced, NEW v \in Workers
      PROVE  ~(loc'[v].it = e /\ pc'[v] \in Writing)
  <2>1. SUFFICES ASSUME v # w, loc[v].it = e, pc[v] \in Writing PROVE FALSE
    BY Zenon DEF Others
  <2>2. Does(v, e)
    BY <2>1 DEF Does
  <2>. QED
    BY <1>7, <2>1, <2>2, IoAlone
<1>8. DirtyOK(e)'
  BY <1>4, <1>7, Zenon DEF DirtyOK, Sound
<1>9. ASSUME NEW t \in Pages, Serves(e, t), Good(e, t) PROVE Good(e, t)'
  <2>1. e \notin hist.torn /\ cache.ent[e].tag \notin hist.raced
    BY <1>9 DEF Serves, Sound
  <2>2. VersionOK(e, t)' /\ UserOK(w, e, t)' /\ (cache.ent[e].valid => cache'.ent[e].valid)
    BY <1>9
  <2>3. WriterOK(w, e, t)'
    <3>1. pc'[w] # "flushEnd"
      BY DEF Writing
    <3>. QED
      BY <3>1, Zenon DEF WriterOK
  <2>4. ASSUME NEW v \in Workers \ {w} PROVE UserOK(v, e, t)' /\ WriterOK(v, e, t)'
    BY <1>9, <2>1, <2>4, IoAlone, <2>2 DEF Others, Good, Does, Reading, Writing, UserOK, WriterOK
  <2>. QED
    BY <2>2, <2>3, <2>4 DEF Good
<1>. QED
  BY <1>6, <1>8, <1>9, TouchKeeps

\* The end of a flush
LEMMA FlushEndData ==
  ASSUME PoolInv, UseInv, DataInv, NEW w \in Workers, FlushEnd(w)
  PROVE  DataInv'
<1>1. Others(w) /\ Same(cache, cache')
  BY PoolTyped, FlushEndEffect, Zenon DEF Effect, Moves, Others
<1>2. /\ map' = map /\ bufs' = bufs /\ disk' = disk /\ latest' = latest /\ hist' = hist
      /\ pc[w] \in {"flushEnd", "flushFailed"} /\ cache \in CacheType /\ pageLatch' = DropAll(pageLatch, w)
  BY DEF FlushEnd, Rest, data, At, PoolInv, Throw, Over
<1>3. PICK e \in Entries : e = loc[w].it
  BY <1>2, PoolTyped, LocFields DEF LocGood, Locals, WithIt, Ptr
<1>4. Does(w, e) /\ pc[w] \notin Takers /\ pc[w] \in Writing
  BY <1>2, <1>3 DEF Does, Writing, Takers
<1>5. PICK ok \in BOOLEAN : ok = (pc[w] = "flushEnd")
  OBVIOUS
<1>6. cache' = Terminated(e, ok)
  BY <1>2, <1>3, <1>5 DEF FlushEnd
<1>7. cache'.ent[e].dirty = ~ok /\ cache'.ent[e].valid = (ok \/ cache.ent[e].valid) /\ cache'.ent[e].buf = cache.ent[e].buf
  BY <1>1, <1>2, <1>6, TerminatedFields DEF Same
<1>8. (loc'[w].ent = 0 \/ loc' = loc) /\ pc'[w] \in {"vacCheck", "idle"}
  <2>1. CASE pc[w] = "flushEnd"
    BY <2>1, PoolTyped DEF FlushEnd, Go
  <2>2. CASE pc[w] = "flushFailed"
    <3>1. Throw(w)
      BY <2>2 DEF FlushEnd
    <3>. QED
      BY <3>1, PoolTyped DEF Throw, Over, Go, NoOp
  <2>. QED
    BY <1>2, <2>1, <2>2
<1>9. pc'[w] \notin Reading \cup Writing /\ pc'[w] # "hold" /\ pc'[w] # "flushEnd"
  BY <1>8 DEF Reading, Writing
<1>10. e \notin hist.torn /\ cache.ent[e].tag \notin hist.raced => cache.ent[e].dirty
  BY <1>3, <1>4 DEF DataInv, DirtyOK
<1>11. e \notin hist.torn /\ Sound(hist, cache.ent[e].tag) => cache.ent[e].tag \in Pages /\ map[cache.ent[e].tag] = e
  BY <1>10 DEF Sound, DataInv, DirtyOK
<1>12. ASSUME NEW t \in Pages, Serves(e, t), Good(e, t)
       PROVE  VersionOK(e, t)' /\ UserOK(w, e, t)' /\ (cache.ent[e].valid => cache'.ent[e].valid)
  <2>1. UserOK(w, e, t)'
    BY <1>9, Gone
  <2>2. VersionOK(e, t) /\ WriterOK(w, e, t) /\ cache.ent[e].dirty
    BY <1>10, <1>12 DEF Good, Serves, Sound
  <2>3. CASE ok
    BY <1>3, <1>5, <2>2, <2>3, <1>2, <1>7, <2>1 DEF WriterOK, VersionOK
  <2>4. CASE ~ok
    BY <1>2, <1>7, <2>4, EntryFields, <2>2, <2>1 DEF VersionOK
  <2>. QED
    BY <2>3, <2>4
<1>. QED
  BY <1>1, <1>2, <1>4, <1>6, <1>8, <1>9, <1>11, <1>12, EndData

\* The end of a read
LEMMA ReadEndData ==
  ASSUME PoolInv, UseInv, DataInv, NEW w \in Workers, ReadEnd(w)
  PROVE  DataInv'
<1>1. Others(w) /\ Same(cache, cache')
  BY PoolTyped, ReadEndEffect, Zenon DEF Effect, Moves, Others
<1>2. /\ map' = map /\ bufs' = bufs /\ disk' = disk /\ latest' = latest /\ hist' = hist
      /\ pc[w] \in {"readEnd", "readFailed"} /\ cache \in CacheType /\ pageLatch' = DropAll(pageLatch, w)
  BY DEF ReadEnd, Rest, data, At, PoolInv, Throw, Over
<1>3. PICK e \in Entries : e = loc[w].ent
  BY <1>2, PoolTyped, LocFields DEF LocGood, Locals, WithEnt, Ptr
<1>4. Does(w, e) /\ pc[w] \notin Takers /\ pc[w] \in Reading /\ IsPin(w, e)
  BY <1>2, <1>3 DEF Does, Reading, Takers, IsPin
<1>5. PICK ok \in BOOLEAN : ok = (pc[w] = "readEnd")
  OBVIOUS
<1>6. cache' = Terminated(e, ok)
  BY <1>2, <1>3, <1>5 DEF ReadEnd
<1>7. cache'.ent[e].dirty = ~ok /\ cache'.ent[e].valid = (ok \/ cache.ent[e].valid) /\ cache'.ent[e].buf = cache.ent[e].buf
  BY <1>1, <1>2, <1>6, TerminatedFields DEF Same
<1>8. \/ ok /\ loc' = loc /\ pc'[w] = "hold"
      \/ ~ok /\ loc'[w].ent = 0 /\ pc'[w] = "idle"
  <2>1. CASE pc[w] = "readEnd"
    BY <1>5, <2>1, PoolTyped DEF ReadEnd, Go, Over
  <2>2. CASE pc[w] = "readFailed"
    <3>1. Throw(w)
      BY <2>2 DEF ReadEnd
    <3>. QED
      BY <1>5, <2>2, <3>1, PoolTyped DEF Throw, Over, Go, NoOp
  <2>. QED
    BY <1>2, <2>1, <2>2
<1>9. pc'[w] \notin Reading \cup Writing /\ pc'[w] # "flushEnd" /\ pc'[w] # "readEnd"
  BY <1>8 DEF Reading, Writing
<1>10. ASSUME e \notin hist.torn
       PROVE  loc[w].page \in Pages /\ map[loc[w].page] = e /\ cache.ent[e].tag = loc[w].page
  <2>1. EntryOK(e)
    BY <1>10 DEF UseInv
  <2>. QED
    BY <1>4, <2>1 DEF EntryOK, MapOK
<1>11. ASSUME NEW t \in Pages, Serves(e, t), Good(e, t)
       PROVE  VersionOK(e, t)' /\ UserOK(w, e, t)' /\ (cache.ent[e].valid => cache'.ent[e].valid)
  <2>1. VersionOK(e, t) /\ UserOK(w, e, t) /\ loc[w].page = t
    BY <1>10, <1>11 DEF Good, Serves
  <2>2. ~cache.ent[e].valid
    BY <1>3, <1>4, <2>1, Zenon DEF UserOK
  <2>3. t \in DOMAIN disk => disk[t] = latest[t]
    BY <2>1, <2>2, Zenon DEF VersionOK
  <2>4. CASE ok
    BY <1>3, <1>5, <2>1, <2>4, <1>2, <1>7, <2>3, <1>9, <2>2 DEF UserOK, VersionOK
  <2>5. CASE ~ok
    BY <1>7, <2>2, <2>5, <1>2, <2>3, <1>8, <1>9, Gone DEF VersionOK
  <2>. QED
    BY <2>4, <2>5
<1>. QED
  BY <1>1, <1>2, <1>3, <1>4, <1>6, <1>8, <1>9, <1>10, <1>11, EndData

\* The entry gives its buffer up: the file has what was in it, or the page is given up.
LEMMA GhostifyData ==
  ASSUME PoolInv, UseInv, DataInv, NEW w \in Workers, Ghostify(w)
  PROVE  DataInv'
<1>1. /\ map' = map /\ bufs' = bufs /\ disk' = disk /\ latest' = latest /\ pageLatch' = pageLatch
      /\ pc[w] = "ghostify" /\ cache \in CacheType /\ hist \in HistType
  BY DEF Ghostify, At, PoolInv, StoreTypes
<1>2. pc' = [pc EXCEPT ![w] = "addFree"] /\ loc' = [loc EXCEPT ![w].buf = It(w).buf]
  BY DEF Ghostify, Go
<1>3. /\ Others(w) /\ loc'[w].page = loc[w].page /\ loc'[w].ent = loc[w].ent /\ pc'[w] = "addFree"
  BY <1>2, PoolTyped DEF LocType, Others
<1>4. PICK e \in Entries : e = loc[w].it
  BY <1>1, PoolTyped, LocFields DEF LocGood, Locals, WithIt, Ptr
<1>5. PICK b \in BOOLEAN : b = (loc[w].list = "T2")
  OBVIOUS
<1>6. GhostList(w) \in Lists
  BY DEF GhostList, Lists
<1>7. cache' = InsertMRU(GhostOf(Unpin(cache, e), e, b), GhostList(w), e)
  BY <1>4, <1>5, Zenon DEF Ghostify, GhostOf
<1>8. /\ \A x \in Entries \ {e} : Alike(cache.ent[x], cache'.ent[x])
      /\ cache'.ent[e].tag = cache.ent[e].tag
      /\ cache'.ent[e].dirty = cache.ent[e].dirty /\ cache'.ent[e].valid = cache.ent[e].valid
  BY <1>1, <1>6, <1>7, GhostCore
<1>9. cache'.ent[e].buf = 0 /\ \A x \in Entries \ {e} : cache'.ent[x].buf = cache.ent[x].buf
  <2>1. PICK g \in CacheType : g = Unpin(cache, e) /\ \A x \in Entries : g.ent[x].buf = cache.ent[x].buf
    BY <1>1, PinSame DEF Same
  <2>2. PICK c \in CacheType : c = GhostOf(g, e, b) /\ c.ent[e].buf = 0 /\ \A x \in Entries \ {e} : c.ent[x] = g.ent[x]
    BY GhostEntry
  <2>3. cache' = InsertMRU(c, GhostList(w), e)
    BY <1>7, <2>1, <2>2
  <2>4. \A x \in Entries : cache'.ent[x].buf = c.ent[x].buf
    BY <1>6, <2>3, InsertSame DEF Same
  <2>. QED
    BY <2>1, <2>2, <2>4
<1>10. /\ HistGrows /\ hist'.torn = hist.torn
       /\ cache.ent[e].dirty => cache.ent[e].tag \in hist'.dropped
  BY <1>1, <1>4 DEF Ghostify, HistGrows, HistType, It
<1>11. pc[w] \notin Takers /\ pc'[w] \notin Reading \cup {"hold"} /\ pc'[w] \notin Writing /\ pc'[w] # "flushEnd"
  BY <1>1, <1>3 DEF Takers, Reading, Writing
<1>12. Touches(w, e)
  BY <1>8, <1>9, <1>1, <1>3, <1>10, <1>11 DEF Fixed, Alike, Kind, Touches
<1>13. DirtyOK(e)'
  BY <1>1, <1>3, <1>8, <1>10, <1>11, DirtyStays
<1>14. ASSUME NEW t \in Pages, Serves(e, t), Sound(hist', t), Good(e, t) PROVE Good(e, t)'
  <2>1. EntryOK(e) /\ cache.ent[e].tag = t /\ VersionOK(e, t)
    BY <1>14 DEF UseInv, Serves, Good
  <2>2. ~cache.ent[e].dirty
    BY <1>10, <1>14, <2>1 DEF Sound
  <2>3. VersionOK(e, t)'
    BY <1>1, <1>8, <1>9, <2>1, <2>2, Zenon DEF VersionOK
  <2>4. UserOK(w, e, t)' /\ WriterOK(w, e, t)'
    BY <1>11, Gone
  <2>5. ASSUME NEW v \in Workers \ {w} PROVE UserOK(v, e, t)' /\ WriterOK(v, e, t)'
    BY <1>1, <1>4, <2>1, <2>5, <1>3 DEF EntryOK, LockOK, IsPin, IsVac, Using, Takers, Flushing, Reading,
       Others, UserOK, WriterOK
  <2>. QED
    BY <2>3, <2>4, <2>5 DEF Good
<1>. QED
  BY <1>12, <1>13, <1>14, TouchKeeps

\* A new entry gets its buffer, in which nothing is yet.
LEMMA TakeFreeData ==
  ASSUME PoolInv, UseInv, DataInv, NEW w \in Workers, TakeFree(w)
  PROVE  DataInv'
<1>1. /\ pc[w] = "takeFree" /\ cache \in CacheType /\ hist \in HistType
      /\ map' = map /\ bufs' = bufs /\ disk' = disk /\ latest' = latest /\ pageLatch' = pageLatch
  BY DEF TakeFree, At, PoolInv, StoreTypes
<1>2. PICK e \in Entries : e = loc[w].ent
  BY <1>1, PoolTyped, LocFields DEF LocGood, Locals, WithEnt, Ptr
<1>3. CASE freeHead # loc[w].buf
  BY <1>3, PoolTyped, <1>1, CalmSame DEF TakeFree, Go, Others, Calm, HistGrows, Away, Holds, Reading,
     Writing, Takers
<1>4. CASE freeHead = loc[w].buf
  <2>1. /\ hist' = [hist EXCEPT !.aba = @ \/ loc[w].next # bufs[freeHead].next]
        /\ loc' = [loc EXCEPT ![w].buf = 0, ![w].next = 0]
    BY <1>4, Zenon DEF TakeFree
  <2>2. PICK a : a = (hist.aba \/ loc[w].next # bufs[freeHead].next)
    OBVIOUS
  <2>3. hist' = [hist EXCEPT !.aba = a]
    BY <2>1, <2>2, Zenon
  <2>4. HistGrows /\ hist'.torn = hist.torn
    BY <1>1, <2>2, <2>3 DEF HistGrows, HistType
  <2>5. loc'[w].page = loc[w].page /\ loc'[w].ent = loc[w].ent
    BY <2>1, PoolTyped DEF LocType
  <2>6. /\ pc' = [pc EXCEPT ![w] = "toT1"] \/ pc' = [pc EXCEPT ![w] = "toT1first"]
        /\ \/ cache' = [cache EXCEPT !.ent[e] = [@ EXCEPT !.buf = loc[w].buf, !.locked = TRUE]]
           \/ cache' = [cache EXCEPT !.ent[e].buf = loc[w].buf]
    BY <1>2, <1>4 DEF TakeFree, Go
  <2>7. Others(w) /\ pc'[w] \in {"toT1", "toT1first"}
    BY <2>1, <2>6, PoolTyped DEF Others
  <2>8. cache.ent[e] \in EntryType
    BY <1>1, EntryFields
  <2>9. PICK r : /\ cache' = [cache EXCEPT !.ent[e] = r] /\ r.tag = cache.ent[e].tag
                 /\ r.dirty = cache.ent[e].dirty /\ r.valid = cache.ent[e].valid
    <3>1. CASE cache' = [cache EXCEPT !.ent[e] = [@ EXCEPT !.buf = loc[w].buf, !.locked = TRUE]]
      <4>1. PICK r : r = [cache.ent[e] EXCEPT !.buf = loc[w].buf, !.locked = TRUE]
        OBVIOUS
      <4>2. cache' = [cache EXCEPT !.ent[e] = r]
        BY <3>1, <4>1, Zenon
      <4>3. r.tag = cache.ent[e].tag /\ r.dirty = cache.ent[e].dirty /\ r.valid = cache.ent[e].valid
        BY <2>8, <4>1 DEF EntryType
      <4>. QED
        BY <4>2, <4>3
    <3>2. CASE cache' = [cache EXCEPT !.ent[e].buf = loc[w].buf]
      <4>1. PICK r : r = [cache.ent[e] EXCEPT !.buf = loc[w].buf]
        OBVIOUS
      <4>2. cache' = [cache EXCEPT !.ent[e] = r]
        BY <3>2, <4>1, Zenon
      <4>3. r.tag = cache.ent[e].tag /\ r.dirty = cache.ent[e].dirty /\ r.valid = cache.ent[e].valid
        BY <2>8, <4>1 DEF EntryType
      <4>. QED
        BY <4>2, <4>3
    <3>. QED
      BY <2>6, <3>1, <3>2
  <2>10. cache'.ent[e] = r /\ \A x \in Entries \ {e} : cache'.ent[x] = cache.ent[x]
    BY <1>1, <2>9 DEF CacheType
  <2>11. /\ pc[w] \notin Takers /\ pc[w] \in Inserting
         /\ pc'[w] \notin Reading \cup {"hold"} /\ pc'[w] \notin Writing /\ pc'[w] # "flushEnd"
    BY <1>1, <2>7 DEF Takers, Reading, Writing, Inserting
  <2>12. Touches(w, e)
    BY <2>10, <1>1, <2>4, <2>5, <2>7, <2>9, <2>11 DEF Fixed, Kind, Touches
  <2>13. DirtyOK(e)'
    BY <1>1, <2>4, <2>7, <2>9, <2>10, <2>11, DirtyStays
  <2>14. ASSUME NEW t \in Pages, Serves(e, t), Good(e, t) PROVE Good(e, t)'
    <3>1. EntryOK(e) /\ VersionOK(e, t)
      BY <2>14 DEF UseInv, Serves, Good
    <3>2. Clean(e) /\ \A v \in Workers : IsPin(v, e) => v = w
      BY <1>2, <2>11, <3>1 DEF EntryOK, InsertOK
    <3>3. ~cache.ent[e].valid /\ \A v \in Workers : ~Does(v, e)
      BY <3>2 DEF Clean
    <3>4. VersionOK(e, t)'
      BY <1>1, <2>9, <2>10, <3>1, <3>3, Zenon DEF VersionOK
    <3>5. UserOK(w, e, t)' /\ WriterOK(w, e, t)'
      BY <2>11, Gone
    <3>6. ASSUME NEW v \in Workers \ {w} PROVE UserOK(v, e, t)' /\ WriterOK(v, e, t)'
      BY <3>2, <3>3, <3>6, <2>7 DEF IsPin, Does, Takers, Writing, Reading, Others, UserOK, WriterOK
    <3>. QED
      BY <3>4, <3>5, <3>6 DEF Good
  <2>. QED
    BY <2>12, <2>13, <2>14, TouchKeeps
<1>. QED
  BY <1>3, <1>4

\* What is in the file after a write.
LEMMA WrittenAt ==
  ASSUME NEW d \in Seq(Nat), NEW t \in Nat, NEW v \in Nat, NEW f, f = Written(d, t, v)
  PROVE  /\ \A p : p # t /\ (p # Len(d) + 1 \/ t <= Len(d))
                     => (p \in DOMAIN f <=> p \in DOMAIN d) /\ (p \in DOMAIN d => f[p] = d[p])
         /\ t \in 1..(Len(d) + 1) => t \in DOMAIN f /\ f[t] = v
<1>1. DOMAIN d = 1..Len(d) /\ Len(d) \in Nat
  BY LenProperties
<1>2. CASE t > Len(d)
  BY <1>2, <1>1 DEF Written
<1>3. CASE ~(t > Len(d))
  BY <1>3, <1>1 DEF Written
<1>. QED
  BY <1>2, <1>3

\* The latch of a page that nobody has is taken.
LEMMA TakeStays ==
  ASSUME LatchTypes, NEW w \in Workers, NEW b \in Buffers, Unheld(pageLatch, b), pageLatch' = Take(pageLatch, b, w)
  PROVE  pageLatch'[b] = w /\ \A x \in Buffers : pageLatch[x] \notin {w, NoWorker} => pageLatch'[x] = pageLatch[x]
BY DEF LatchTypes, Unheld, Take

\* A page is written to the file.
LEMMA FlushWriteData ==
  ASSUME PoolInv, UseInv, DataInv, NEW w \in Workers, FlushWrite(w)
  PROVE  DataInv'
<1>1. Others(w)
  BY PoolTyped, FlushWriteEffect, Zenon DEF Effect, Moves, Others
<1>2. /\ map' = map /\ bufs' = bufs /\ latest' = latest /\ loc' = loc /\ pc[w] = "flushIO"
      /\ cache \in CacheType /\ hist \in HistType /\ disk \in Seq(Nat)
      /\ bufs \in [Buffers -> [version : Nat, next : BufPtr]] /\ LatchTypes
  BY DEF FlushWrite, At, PoolInv, StoreTypes
<1>3. PICK e \in Entries : e = loc[w].it
  BY <1>2, PoolTyped, LocFields DEF LocGood, Locals, WithIt, Ptr
<1>4. PICK b : b = cache.ent[e].buf
  OBVIOUS
<1>5. PICK t : t = cache.ent[e].tag
  OBVIOUS
<1>6. t \in Nat /\ t \in Pages \cup {0} /\ b \in BufPtr
  BY <1>2, <1>4, <1>5, EntryFields DEF Pages
<1>7. CASE b = 0
  BY <1>3, <1>4, <1>7, <1>2, FaultEnts, FaultData DEF FlushWrite, It
<1>8. CASE b # 0
  <2>1. /\ Unheld(pageLatch, b) /\ pageLatch' = Take(pageLatch, b, w) /\ cache' = cache
        /\ \/ /\ disk' = Written(disk, t, bufs[b].version) /\ pc' = [pc EXCEPT ![w] = "flushEnd"]
              /\ hist' = [hist EXCEPT !.raced = IF t > Len(disk) THEN @ \cup {Len(disk) + 1} ELSE @,
                                      !.dropped = IF cache.ent[e].valid THEN @ ELSE @ \cup {t}]
           \/ pc' = [pc EXCEPT ![w] = "flushFailed"] /\ disk' = disk /\ hist' = hist
    BY <1>3, <1>4, <1>5, <1>8, Zenon DEF FlushWrite, It, Go
  <2>2. b \in Buffers /\ bufs[b].version \in Nat
    BY <1>2, <1>6, <1>8 DEF BufPtr
  <2>3. pageLatch'[b] = w /\ \A x \in Buffers : pageLatch[x] \notin {w, NoWorker} => pageLatch'[x] = pageLatch[x]
    BY <1>2, <2>1, <2>2, TakeStays
  <2>4. \A x \in Entries : Fixed(x)
    BY <2>1, FixedSame
  <2>5. pc'[w] \in {"flushEnd", "flushFailed"}
    BY <2>1, PoolTyped
  <2>6. pc[w] \notin Takers /\ pc[w] \in Writing /\ pc'[w] \notin Reading \cup {"hold"} /\ Does(w, e)
    BY <1>2, <1>3, <2>5 DEF Takers, Writing, Reading, Does
  <2>7. CASE pc' = [pc EXCEPT ![w] = "flushFailed"] /\ disk' = disk /\ hist' = hist
    <3>1. HistGrows /\ \A p \in Pages : Kind(p)
      BY <1>2, <2>7 DEF HistGrows, Kind
    <3>2. pc'[w] # "flushEnd"
      BY <2>7, PoolTyped
    <3>3. Touches(w, e)
      BY <1>1, <1>2, <1>3, <2>3, <2>4, <2>6, <2>7, <3>1 DEF Touches, Fixed
    <3>4. DirtyOK(e)'
      BY <1>1, <1>2, <1>3, <2>1, <2>6, <2>7, <3>1, DirtyStays
    <3>5. ASSUME NEW p \in Pages, Good(e, p) PROVE Good(e, p)'
      <4>1. UserOK(w, e, p)' /\ WriterOK(w, e, p)'
        BY <2>6, <3>2, Gone
      <4>. QED
        BY <1>1, <1>2, <2>3, <2>4, <2>7, <3>5, <4>1, GoodStays
    <3>. QED
      BY <3>3, <3>4, <3>5, TouchKeeps
  <2>8. CASE /\ disk' = Written(disk, t, bufs[b].version) /\ pc' = [pc EXCEPT ![w] = "flushEnd"]
             /\ hist' = [hist EXCEPT !.raced = IF t > Len(disk) THEN @ \cup {Len(disk) + 1} ELSE @,
                                     !.dropped = IF cache.ent[e].valid THEN @ ELSE @ \cup {t}]
    <3>1. /\ HistGrows /\ hist'.torn = hist.torn /\ (t > Len(disk) => Len(disk) + 1 \in hist'.raced)
          /\ ~cache.ent[e].valid => t \in hist'.dropped
      BY <1>2, <2>8 DEF HistGrows, HistType
    <3>2. pc'[w] = "flushEnd" /\ Len(disk) \in Nat /\ DOMAIN disk = 1..Len(disk)
      BY <1>2, <2>8, PoolTyped, LenProperties
    <3>3. PICK f : f = disk'
      OBVIOUS
    <3>4. /\ \A p : p # t /\ (p # Len(disk) + 1 \/ t <= Len(disk))
                      => (p \in DOMAIN f <=> p \in DOMAIN disk) /\ (p \in DOMAIN disk => f[p] = disk[p])
          /\ t \in 1..(Len(disk) + 1) => t \in DOMAIN f /\ f[t] = bufs[b].version
      BY <1>2, <1>6, <2>2, <2>8, <3>3, WrittenAt
    <3>5. Sound(hist, t) /\ t \in Pages => map[t] = e
      <4>. SUFFICES ASSUME Sound(hist, t), t \in Pages PROVE map[t] = e
        OBVIOUS
      <4>1. TornOK(e) /\ DirtyOK(e) /\ t # 0 /\ t \notin hist.raced /\ t \notin hist.dropped
        BY PoolBounds DEF DataInv, Sound
      <4>2. e \notin hist.torn
        BY <1>5, <4>1 DEF TornOK
      <4>3. cache.ent[e].dirty
        BY <1>3, <1>5, <2>6, <4>1, <4>2 DEF DirtyOK
      <4>. QED
        BY <1>5, <4>1, <4>2, <4>3 DEF DirtyOK
    <3>6. ASSUME NEW p \in Pages, map[p] # e PROVE Kind(p)
      <4>1. CASE ~Sound(hist', p)
        BY <1>2, <4>1 DEF Kind
      <4>2. CASE Sound(hist', p)
        <5>1. Sound(hist, p) /\ p \notin hist'.raced
          BY <3>1, <4>2, SoundBack DEF Sound
        <5>2. p # t
          BY <3>5, <3>6, <5>1
        <5>3. p # Len(disk) + 1 \/ t <= Len(disk)
          BY <1>6, <3>1, <3>2, <5>1
        <5>. QED
          BY <1>2, <3>3, <3>4, <5>2, <5>3 DEF Kind
      <4>. QED
        BY <4>1, <4>2
    <3>7. Touches(w, e)
      BY <1>1, <1>2, <1>3, <2>3, <2>4, <2>6, <3>1, <3>6 DEF Touches, Fixed
    <3>8. DirtyOK(e)'
      BY <1>1, <1>2, <1>3, <2>1, <2>6, <3>1, DirtyStays
    <3>9. ASSUME NEW p \in Pages, Serves(e, p), Sound(hist', p), Good(e, p) PROVE Good(e, p)'
      <4>1. p = t /\ e \notin hist.torn /\ cache.ent[e].tag \notin hist.raced
        BY <1>5, <3>9 DEF Serves, Sound
      <4>2. cache.ent[e].valid
        BY <3>1, <3>9, <4>1 DEF Sound
      <4>3. p \in DOMAIN disk /\ bufs[b].version = latest[p]
        BY <1>4, <1>8, <3>9, <4>2, Zenon DEF Good, VersionOK
      <4>4. p \in DOMAIN f /\ f[p] = latest[p]
        BY <3>2, <3>4, <4>1, <4>3
      <4>5. p \in DOMAIN disk' /\ disk'[p] = latest'[p]
        BY <1>2, <3>3, <4>4
      <4>6. VersionOK(e, p)'
        BY <1>2, <2>1, <3>9, <4>5, Zenon DEF Good, VersionOK
      <4>7. WriterOK(w, e, p)'
        BY <1>4, <1>8, <2>1, <2>3, <4>2, <4>5, Zenon DEF WriterOK
      <4>8. UserOK(w, e, p)'
        BY <3>2 DEF Reading, UserOK
      <4>9. ASSUME NEW v \in Workers \ {w} PROVE UserOK(v, e, p)' /\ WriterOK(v, e, p)'
        BY <1>1, <2>6, <3>9, <4>1, <4>9, IoAlone, <1>2, <2>1, <4>5 DEF Others, Good, Does, Writing,
           UserOK, WriterOK
      <4>. QED
        BY <4>6, <4>7, <4>8, <4>9 DEF Good
    <3>. QED
      BY <3>7, <3>8, <3>9, TouchKeeps
  <2>. QED
    BY <2>1, <2>7, <2>8
<1>. QED
  BY <1>7, <1>8

\* The user changes the page.
LEMMA WritePageData ==
  ASSUME PoolInv, UseInv, DataInv, NEW w \in Workers, WritePage(w)
  PROVE  DataInv'
<1>1. /\ pc[w] = "hold" /\ cache \in CacheType /\ hist \in HistType /\ latest \in [Pages -> Nat]
      /\ bufs \in [Buffers -> [version : Nat, next : BufPtr]] /\ LatchTypes
  BY DEF WritePage, At, PoolInv, StoreTypes
<1>2. /\ map' = map /\ disk' = disk /\ pageLatch' = pageLatch /\ pc' = pc /\ loc' = loc
  BY DEF WritePage, latches
<1>3. PICK e \in Entries : e = loc[w].ent
  BY <1>1, PoolTyped, LocFields DEF LocGood, Locals, WithEnt, Ptr
<1>4. PICK t \in Pages : t = loc[w].page
  BY <1>1, PoolTyped, LocFields DEF LocGood, Locals, WithEnt
<1>5. PICK b \in BufPtr : b = cache.ent[e].buf
  BY <1>1, EntryFields
<1>6. CASE b = 0
  <2>1. Fault /\ bufs' = bufs /\ latest' = latest /\ hist' = hist
    BY <1>3, <1>5, <1>6 DEF WritePage, Ent
  <2>. QED
    BY <1>1, <1>2, <2>1, FaultEnts, FaultData
<1>7. CASE b # 0
  <2>1. /\ Unheld(pageLatch, b) /\ latest' = [latest EXCEPT ![t] = @ + 1]
        /\ bufs' = [bufs EXCEPT ![b].version = latest'[t]]
        /\ \/ cache' = [cache EXCEPT !.ent[e].dirty = TRUE] /\ hist' = hist
           \/ hist' = [hist EXCEPT !.unmarked = @ \cup {t}] /\ cache' = cache
    BY <1>3, <1>4, <1>5, <1>7, Zenon DEF WritePage, Ent
  <2>2. b \in Buffers
    BY <1>7 DEF BufPtr
  <2>3. bufs'[b].version = latest'[t] /\ \A x \in Buffers : x # b => bufs'[x].version = bufs[x].version
    <3>1. PICK n : n = latest'[t]
      OBVIOUS
    <3>2. bufs' = [bufs EXCEPT ![b].version = n]
      BY <2>1, <3>1
    <3>. QED
      BY <1>1, <2>2, <3>1, <3>2
  <2>4. \A p \in Pages : p # t => latest'[p] = latest[p]
    BY <1>1, <2>1
  <2>5. HistGrows /\ hist'.torn = hist.torn
    BY <1>1, <2>1 DEF HistGrows, HistType
  <2>6. IsPin(w, e) /\ pc[w] \notin Takers /\ pc[w] \notin Writing /\ pc[w] \notin Reading
    BY <1>1, <1>3 DEF IsPin, Takers, Writing, Reading
  <2>7. ASSUME e \notin hist.torn PROVE map[t] = e /\ cache.ent[e].tag = t
    <3>1. EntryOK(e)
      BY <2>7 DEF UseInv
    <3>. QED
      BY <1>4, <2>6, <3>1 DEF EntryOK, MapOK
  <2>8. PICK r \in EntryType : r = [cache.ent[e] EXCEPT !.dirty = TRUE]
    <3>1. cache.ent[e] \in EntryType
      BY <1>1, EntryFields
    <3>. QED
      BY <3>1 DEF EntryType
  <2>9. /\ cache'.ent[e].tag = cache.ent[e].tag /\ cache'.ent[e].valid = cache.ent[e].valid /\ cache'.ent[e].buf = b
        /\ \A x \in Entries \ {e} : cache'.ent[x] = cache.ent[x]
        /\ \/ cache'.ent[e].dirty /\ hist' = hist
           \/ cache'.ent[e].dirty = cache.ent[e].dirty /\ t \in hist'.unmarked
    <3>1. CASE cache' = [cache EXCEPT !.ent[e].dirty = TRUE] /\ hist' = hist
      <4>1. cache' = [cache EXCEPT !.ent[e] = r]
        BY <2>8, <3>1, Zenon
      <4>2. cache'.ent[e] = r /\ \A x \in Entries \ {e} : cache'.ent[x] = cache.ent[x]
        BY <1>1, <4>1 DEF CacheType
      <4>3. r.tag = cache.ent[e].tag /\ r.valid = cache.ent[e].valid /\ r.buf = b /\ r.dirty
        BY <1>1, EntryFields, <1>5, <2>8 DEF EntryType
      <4>. QED
        BY <3>1, <4>2, <4>3
    <3>2. CASE hist' = [hist EXCEPT !.unmarked = @ \cup {t}] /\ cache' = cache
      BY <1>1, <1>5, <3>2 DEF HistType
    <3>. QED
      BY <2>1, <3>1, <3>2
  <2>10. ASSUME NEW p \in Pages, map[p] # e PROVE Kind(p)
    <3>1. CASE p # t
      BY <1>2, <2>4, <3>1 DEF Kind
    <3>2. CASE p = t
      BY <1>4, <2>6, <2>10, <3>2, SoundPin, <2>5, SoundBack, <1>2 DEF Kind
    <3>. QED
      BY <3>1, <3>2
  <2>11. Others(w) /\ \A x \in Entries \ {e} : Fixed(x)
    BY <1>2, <2>9 DEF Others, Fixed
  <2>12. Touches(w, e)
    BY <1>5, <2>3, <1>2, <1>3, <2>5, <2>6, <2>9, <2>10, <2>11 DEF Touches
  <2>13. DirtyOK(e)'
    BY <1>2, <2>5, <2>6, <2>9, <2>11, DirtyStays, <2>7 DEF DirtyOK
  <2>14. ASSUME NEW p \in Pages, Serves(e, p), Sound(hist', p), Good(e, p) PROVE Good(e, p)'
    <3>1. p = t
      BY <2>7, <2>14 DEF Serves
    <3>2. cache'.ent[e].dirty
      BY <2>9, <2>14, <3>1 DEF Sound
    <3>3. cache.ent[e].valid /\ p \in DOMAIN disk
      BY <1>1, <1>3, <1>4, <2>14, <3>1, Zenon DEF Good, UserOK
    <3>4. cache'.ent[e].valid /\ cache'.ent[e].buf # 0 /\ bufs'[cache'.ent[e].buf].version = latest'[p]
      BY <1>7, <2>3, <2>9, <3>1, <3>3
    <3>5. VersionOK(e, p)'
      BY <1>2, <3>2, <3>3, <3>4, Zenon DEF VersionOK
    <3>6. ASSUME NEW v \in Workers PROVE UserOK(v, e, p)' /\ WriterOK(v, e, p)'
      <4>1. UserOK(v, e, p) /\ WriterOK(v, e, p) /\ NoWorker \notin Workers
        BY <2>14, PoolAssumption DEF Good
      <4>2. loc[v].ent = e /\ loc[v].page = p => pc[v] \notin Reading
        BY <3>3, <4>1, Zenon DEF UserOK
      <4>3. loc[v].ent = e /\ loc[v].page = p => pc[v] \notin Reading /\ pc[v] # "readEnd"
        BY <4>2 DEF Reading
      <4>4. UserOK(v, e, p)'
        BY <1>2, <3>3, <3>4, <4>3, Zenon DEF UserOK
      <4>5. pageLatch[b] # v
        BY <2>1, <4>1 DEF Unheld
      <4>6. ~(loc[v].it = e /\ pc[v] = "flushEnd")
        BY <1>5, <4>1, <4>5, Zenon DEF WriterOK
      <4>7. WriterOK(v, e, p)'
        BY <1>2, <4>6, Zenon DEF WriterOK
      <4>. QED
        BY <4>4, <4>7
    <3>. QED
      BY <3>5, <3>6 DEF Good
  <2>. QED
    BY <2>12, <2>13, <2>14, TouchKeeps
<1>. QED
  BY <1>6, <1>7

\* The page is read, or the file extended: the others neither use nor read nor write it.
LEMMA ReadGood ==
  ASSUME UseInv, NEW w \in Workers, Others(w), NEW e \in Entries, NEW t \in Pages, Serves(e, t), Good(e, t),
         Does(w, e), ~cache.ent[e].valid, cache' = cache, pc'[w] # "hold", pc'[w] # "flushEnd",
         t \in DOMAIN disk' => disk'[t] = latest'[t],
         pc'[w] = "readEnd" => t \in DOMAIN disk' /\ bufs'[cache.ent[e].buf].version = latest'[t]
  PROVE  Good(e, t)'
<1>1. VersionOK(e, t)'
  BY Zenon DEF VersionOK
<1>2. UserOK(w, e, t)' /\ WriterOK(w, e, t)'
  BY Zenon DEF UserOK, WriterOK
<1>3. ASSUME NEW v \in Workers \ {w} PROVE UserOK(v, e, t)' /\ WriterOK(v, e, t)'
  BY <1>3, IoAlone DEF Others, Good, Serves, Sound, Does, Reading, Writing, UserOK, WriterOK
<1>. QED
  BY <1>1, <1>2, <1>3 DEF Good

LEMMA ReadPageData ==
  ASSUME PoolInv, UseInv, DataInv, NEW w \in Workers, ReadPage(w)
  PROVE  DataInv'
<1>1. Others(w)
  BY PoolTyped, ReadPageEffect, Zenon DEF Effect, Moves, Others
<1>2. /\ map' = map /\ loc' = loc /\ pc[w] = "readIO" /\ Role(w)
      /\ cache \in CacheType /\ hist \in HistType /\ disk \in Seq(Nat) /\ latest \in [Pages -> Nat]
      /\ bufs \in [Buffers -> [version : Nat, next : BufPtr]] /\ LatchTypes
  BY DEF ReadPage, At, PoolInv, StoreTypes, UseInv
<1>3. PICK e \in Entries : e = loc[w].ent
  BY <1>2, PoolTyped, LocFields DEF LocGood, Locals, WithEnt, Ptr
<1>4. PICK t \in Pages : t = loc[w].page
  BY <1>2, PoolTyped, LocFields DEF LocGood, Locals, WithEnt
<1>5. PICK b \in BufPtr : b = cache.ent[e].buf
  BY <1>2, EntryFields
<1>6. CASE b = 0
  BY <1>3, <1>5, <1>6, <1>2, FaultEnts, FaultData DEF ReadPage, Ent, data
<1>7. CASE b # 0
  <2>1. /\ Unheld(pageLatch, b) /\ pageLatch' = Take(pageLatch, b, w) /\ cache' = cache
        /\ \/ /\ cache.ent[e].tag \in DOMAIN disk /\ pc' = [pc EXCEPT ![w] = "readEnd"]
              /\ bufs' = [bufs EXCEPT ![b].version = disk[cache.ent[e].tag]] /\ UNCHANGED data
           \/ /\ pc' = [pc EXCEPT ![w] = "readEnd"]
              /\ latest' = [latest EXCEPT ![t] = @ + 1]
              /\ bufs' = [bufs EXCEPT ![b].version = latest'[t]]
              /\ disk' = Written(disk, t, latest'[t])
              /\ hist' = [hist EXCEPT !.raced = IF map[t] = e THEN @ ELSE @ \cup {t}]
           \/ pc' = [pc EXCEPT ![w] = "readFailed"] /\ bufs' = bufs /\ UNCHANGED data
    BY <1>3, <1>4, <1>5, <1>7, Zenon DEF ReadPage, Ent, Go
  <2>2. b \in Buffers
    BY <1>7 DEF BufPtr
  <2>3. \A x \in Buffers : pageLatch[x] \notin {w, NoWorker} => pageLatch'[x] = pageLatch[x]
    BY <1>2, <2>1, <2>2, TakeStays
  <2>4. \A x \in Entries : Fixed(x)
    BY <2>1, FixedSame
  <2>5. pc'[w] \in {"readEnd", "readFailed"}
    BY <2>1, PoolTyped
  <2>6. /\ pc[w] \notin Takers /\ pc'[w] \notin Writing /\ pc'[w] # "flushEnd" /\ pc'[w] # "hold"
        /\ pc[w] \in Reading /\ Does(w, e) /\ IsPin(w, e)
    BY <1>2, <1>3, <2>5 DEF Takers, Writing, Reading, Does, IsPin
  <2>7. ASSUME NEW p \in Pages, Serves(e, p) PROVE p = t
    <3>1. EntryOK(e)
      BY <2>7 DEF UseInv, Serves
    <3>. QED
      BY <1>4, <2>6, <2>7, <3>1 DEF EntryOK, MapOK, Serves
  <2>8. ASSUME NEW p \in Pages, Serves(e, p), Good(e, p)
        PROVE  ~cache.ent[e].valid /\ (p \in DOMAIN disk => disk[p] = latest[p])
    BY <2>7, <2>8, <1>3, <1>4, <2>6 DEF Good, UserOK, VersionOK
  <2>9. ASSUME HistGrows, hist'.torn = hist.torn, \A p \in Pages : map[p] # e => Kind(p),
               \A x \in Buffers : x # b => bufs'[x].version = bufs[x].version,
               \A p \in Pages : Serves(e, p) /\ Sound(hist', p) /\ Good(e, p) => Good(e, p)'
        PROVE  DataInv'
    BY <1>5, <2>9, <1>1, <1>2, <1>3, <2>3, <2>4, <2>6, <2>1, DirtyStays, TouchKeeps DEF Touches, Fixed
  <2>10. CASE pc' = [pc EXCEPT ![w] = "readFailed"] /\ bufs' = bufs /\ UNCHANGED data
    <3>1. disk' = disk /\ latest' = latest /\ hist' = hist /\ pc'[w] # "readEnd"
      BY <2>10, PoolTyped DEF data
    <3>2. HistGrows /\ \A p \in Pages : Kind(p)
      BY <1>2, <3>1 DEF HistGrows, Kind
    <3>3. ASSUME NEW p \in Pages, Serves(e, p), Good(e, p) PROVE Good(e, p)'
      BY <1>1, <2>1, <2>6, <2>8, <3>1, <3>3, ReadGood
    <3>. QED
      BY <2>9, <2>10, <3>1, <3>2, <3>3
  <2>11. CASE /\ cache.ent[e].tag \in DOMAIN disk /\ pc' = [pc EXCEPT ![w] = "readEnd"]
              /\ bufs' = [bufs EXCEPT ![b].version = disk[cache.ent[e].tag]] /\ UNCHANGED data
    <3>1. disk' = disk /\ latest' = latest /\ hist' = hist
      BY <2>11 DEF data
    <3>2. HistGrows /\ \A p \in Pages : Kind(p)
      BY <1>2, <3>1 DEF HistGrows, Kind
    <3>3. /\ bufs'[b].version = disk[cache.ent[e].tag]
          /\ \A x \in Buffers : x # b => bufs'[x].version = bufs[x].version
      BY <1>2, <2>2, <2>11
    <3>4. ASSUME NEW p \in Pages, Serves(e, p), Good(e, p) PROVE Good(e, p)'
      BY <2>8, <3>4, <1>5, <2>11, <3>1, <3>3, <1>1, <2>1, <2>6, ReadGood DEF Serves
    <3>. QED
      BY <2>9, <3>1, <3>2, <3>3, <3>4
  <2>12. CASE /\ pc' = [pc EXCEPT ![w] = "readEnd"]
              /\ latest' = [latest EXCEPT ![t] = @ + 1]
              /\ bufs' = [bufs EXCEPT ![b].version = latest'[t]]
              /\ disk' = Written(disk, t, latest'[t])
              /\ hist' = [hist EXCEPT !.raced = IF map[t] = e THEN @ ELSE @ \cup {t}]
    <3>1. HistGrows /\ hist'.torn = hist.torn /\ (map[t] # e => t \in hist'.raced)
      BY <1>2, <2>12 DEF HistGrows, HistType
    <3>2. PICK n \in Nat : n = latest'[t]
      BY <1>2, <2>12
    <3>3. bufs'[b].version = n /\ \A x \in Buffers : x # b => bufs'[x].version = bufs[x].version
      BY <2>12, <3>2, <1>2, <2>2
    <3>4. \A p \in Pages : p # t => latest'[p] = latest[p]
      BY <1>2, <2>12
    <3>5. PICK f : f = disk'
      OBVIOUS
    <3>6. f = Written(disk, t, n) /\ t \in Nat /\ t >= 1
      BY <2>12, <3>2, <3>5 DEF Pages
    <3>7. /\ \A p : p # t /\ (p # Len(disk) + 1 \/ t <= Len(disk))
                      => (p \in DOMAIN f <=> p \in DOMAIN disk) /\ (p \in DOMAIN disk => f[p] = disk[p])
          /\ t \in 1..(Len(disk) + 1) => t \in DOMAIN f /\ f[t] = n
      BY <1>2, <3>6, WrittenAt
    <3>8. t <= Len(disk) + 1 /\ Len(disk) \in Nat
      BY <1>2, <1>4, LenProperties DEF Role
    <3>9. t \in DOMAIN f /\ f[t] = n
      BY <3>6, <3>7, <3>8
    <3>10. \A p : p # t => (p \in DOMAIN f <=> p \in DOMAIN disk) /\ (p \in DOMAIN disk => f[p] = disk[p])
      BY <3>6, <3>8, <3>7
    <3>11. ASSUME NEW p \in Pages, map[p] # e PROVE Kind(p)
      <4>1. CASE p = t
        BY <3>1, <3>11, <4>1, <1>2 DEF Sound, Kind
      <4>2. CASE p # t
        BY <1>2, <3>4, <3>5, <3>10, <4>2 DEF Kind
      <4>. QED
        BY <4>1, <4>2
    <3>12. ASSUME NEW p \in Pages, Serves(e, p), Good(e, p) PROVE Good(e, p)'
      BY <2>7, <2>8, <3>12, <1>5, <3>2, <3>3, <3>5, <3>9, <1>1, <2>1, <2>6, ReadGood
    <3>. QED
      BY <2>9, <3>1, <3>3, <3>11, <3>12
  <2>. QED
    BY <2>1, <2>10, <2>11, <2>12
<1>. QED
  BY <1>6, <1>7

-----------------------------------------------------------------------------
(* The specification, and what is in the buffers                            *)

LEMMA InitData ==
  ASSUME Init
  PROVE  DataInv
<1>1. /\ hist = NoHistory /\ map = [p \in Pages |-> 0] /\ latest = [p \in Pages |-> 0]
      /\ pc = [w \in Workers |-> "idle"] /\ loc = [w \in Workers |-> NoOp]
  BY DEF Init
<1>2. PICK s \in Starts : disk = [p \in 1..s.file |-> 0]
  BY DEF Init
<1>3. ASSUME NEW e \in Entries PROVE TornOK(e) /\ DirtyOK(e)
  <2>1. cache.ent[e].dirty = FALSE
    BY DEF Init, NewEntry
  <2>2. hist.torn = {} /\ \A w \in Workers : loc[w].it # e
    BY <1>1, PoolBounds DEF NoHistory, NoOp
  <2>. QED
    BY <2>1, <2>2, Zenon DEF TornOK, DirtyOK
<1>4. ASSUME NEW t \in Pages PROVE PageOK(t)
  BY <1>1, <1>2 DEF PageOK
<1>5. ASSUME NEW w \in Workers PROVE CallOK(w) /\ FlushOK(w)
  BY <1>1 DEF Reading, CallOK, FlushOK
<1>. QED
  BY <1>3, <1>4, <1>5 DEF DataInv

LEMMA NextData ==
  ASSUME PoolInv, UseInv, DataInv, [Next]_vars
  PROVE  DataInv'
<1>1. CASE UNCHANGED vars
  BY <1>1, FaultData DEF vars, data, latches
<1>2. ASSUME NEW w \in Workers,
             \/ StartGet(w) \/ StartExtend(w) \/ Lookup(w)
             \/ LatchGhosts(w) \/ RecencySizes(w) \/ FrequencySizes(w)
             \/ ForgetStart(w) \/ ForgetScan(w) \/ ForgetFree(w)
             \/ Adjust(w) \/ VacateStart(w) \/ VacateScan(w) \/ Flush(w) \/ FlushWrite(w) \/ FlushEnd(w)
             \/ VacateCheck(w) \/ VacateLock(w) \/ Ghostify(w) \/ AddFree(w)
      PROVE  DataInv'
  BY <1>2, StartData, LookupData, SizesData, WalkData, ForgetScanData, FreeData, VacateScanData, FlushData,
     FlushWriteData, FlushEndData, VacateLockData, GhostifyData, AddFreeData
<1>3. ASSUME NEW w \in Workers,
             \/ EvictStart(w) \/ PopTail(w) \/ EvictGhostStart(w) \/ EvictScan(w) \/ ClearEntry(w)
             \/ PrepareEntry(w) \/ CountPages(w) \/ InsertEntry(w) \/ LoadFree(w) \/ TakeFree(w)
             \/ GiveBack(w) \/ FirstToT1(w) \/ ToT1(w)
      PROVE  DataInv'
  BY <1>3, WalkData, PopTailData, EvictScanData, ClearEntryData, PrepareEntryData, CountPagesData,
     InsertEntryData, LoadFreeData, TakeFreeData, FreeData, ToT1Data
<1>4. ASSUME NEW w \in Workers,
             \/ Hit(w) \/ ExtendHit(w) \/ CacheHit(w) \/ GhostSizes(w) \/ GhostMove(w)
             \/ StartRead(w) \/ ReadPage(w) \/ ReadEnd(w) \/ ExtendIO(w) \/ Invalidate(w) \/ ExtendStart(w)
             \/ WritePage(w) \/ ReturnBuffer(w)
      PROVE  DataInv'
  BY <1>4, WalkData, CacheHitData, GhostSizesData, GhostMoveData, StartReadData, ReadPageData, ReadEndData,
     ExtendIOData, InvalidateData, WritePageData, ReturnBufferData
<1>. QED
  BY <1>1, <1>2, <1>3, <1>4, Zenon DEF Next

\* What is in the buffers and in the file: a valid buffer has the last version of its
\* page and the file has it too unless the buffer is dirty; the user of a page has a
\* valid one, what is read is not valid before, and what has been written does not
\* change before the end of the I/O.
THEOREM DataInvariant == Spec => []DataInv
<1>1. Init => DataInv
  BY InitData
<1>2. PoolInv /\ UseInv /\ DataInv /\ [Next]_vars => DataInv'
  BY NextData
<1>. QED
  BY <1>1, <1>2, PoolInvariant, UseInvariant, PTL DEF Spec

\* The user of a page that GetBuffer or ExtendRelation returned sees the last change
\* made to it, through any number of flushes, evictions and reads, for any pool, any
\* number of workers and any failures of the file; the ways in which the code loses a
\* change are excepted.
THEOREM UsersReadLatest == Spec => []ReadsLatest
<1>1. PoolInv /\ UseInv /\ DataInv => ReadsLatest
  <2>. SUFFICES ASSUME PoolInv, UseInv, DataInv, NEW w \in Workers, pc[w] = "hold",
                       cache.ent[loc[w].ent].buf # 0, Sound(hist, loc[w].page)
                PROVE  bufs[cache.ent[loc[w].ent].buf].version = latest[loc[w].page]
    BY Zenon DEF ReadsLatest, Sound
  <2>1. PICK e \in Entries : e = loc[w].ent /\ IsPin(w, e)
    BY PoolTyped, UserPins
  <2>2. PICK t : t = loc[w].page
    OBVIOUS
  <2>3. t \in Pages /\ map[t] = e /\ e # 0
    BY <2>1, <2>2, SoundPin, PoolBounds
  <2>4. PageOK(t) /\ CallOK(w)
    BY <2>3 DEF DataInv
  <2>5. cache.ent[e].valid
    BY <2>1, <2>4, Zenon DEF CallOK
  <2>. QED
    BY <2>1, <2>2, <2>3, <2>4, <2>5, Zenon DEF PageOK
<1>. QED
  BY <1>1, PoolInvariant, UseInvariant, DataInvariant, PTL

=============================================================================
