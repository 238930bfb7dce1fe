# A TLA+ model of mimidb

mimidb is a small multi-user SQL server: one thread per connection, row versions
kept with an undo log, snapshots by commit sequence number (CSN), a buffer pool
and a home-made light-weight latch under all of it. This directory holds TLA+
modules that model it from the latch to the sessions and their clients, the
configurations under which TLC checks them, and proofs checked by TLAPS. Paths below
are relative to `src/src/server/`; `PROJECT.json` gives the exact lines behind every definition.

## The system

| Part | State | Operations | Hard because |
|------|-------|------------|--------------|
| `lock/` LWLatch, LockList, WorkerLock | a 32-bit word (count, three flags), a list of waiting workers, a semaphore and a lock state per worker | Lock, Unlock; inside: attemptLock, queueSelf, dequeueSelf, wakeup | lock-free word, list lock inside it, sleep and wakeup races, spurious wakeups |
| `trans/` TransactionManager, Transaction, Snapshot | `_csn`, `_xid`, `_history` (status or CSN per xid), `_xidToWorker`, a slot per worker; per transaction a latch, a snapshot, an undo log | begin, new statement, commit, abort, status of a transaction, wait for its end | CSN taken outside the critical sections, slots read without the mutex, three-phase commit status |
| `storage/undo/` UndoLog, VirtualUndoLog | an append-only file, a list of USNs per transaction | insert record, undo all backwards, read record | records of all transactions interleave |
| `storage/wal/` WriteAheadLog, `storage/io/` File | an append-only file, the flushed position | write record, flush up to an LSN | cut writes, crashes between a write and its sync |
| `storage/buffer/` BufferManager, CacheEntry, `adt/` | hash table of cache entries, four ARC lists, a lock-free stack of buffers, state word per entry (pins, I/O flags) | get, return, extend, evict, read and write a page | pins against eviction, I/O in progress, several latches at once |
| `access/heap/` HeapTable, HeapTableScan, HeapPage, undo records | pages of items and row versions | insert, update, delete, scan, apply undo | readers walk undo chains while writers wait, re-lock and write |
| `access/tuple/` TupleSerializer | none | serialize and parse rows | null bitmaps, widths, lengths |
| `libmimi` MimiClient | a socket | send and receive a packet | partial sends and receives, a peer that goes away at any byte |
| `executor/`, `planner/`, `parser/` | the plan of one statement | run a plan node over a scan | single-threaded |
| `worker/`, `main.cpp`, `client` | a busy flag and a thread per worker, `MyTransaction` per thread | accept, start a session, execute a statement, answer, end | errors and disconnects between any two packets |
| `db/`, `cluster_state`, `logger`, `Settings` | constant tables, start-up wiring | | not concurrent |

The heap calls the transaction manager for visibility and to wait for another
writer; the transaction manager calls the undo log, which calls the heap back to
apply a record; everything sits on LWLatch. The handler of a session drives it
all through two thread-local variables, `MyWorker` and `MyTransaction`.

What makes each part correct: the latch excludes, and whom it wakes gets going; a snapshot
always gives the same answer and shows exactly what had committed; a scan returns
the rows of its snapshot (those of the first page: run `heap_scan`); an aborted transaction leaves nothing behind; rows and
line pointers of a page never overlap; a waiting writer goes on when, and only when,
the other transaction has ended; a pinned page stays and its user sees the last
change; a record of a log reads back as it was written; a packet arrives whole
and once; client and server agree on which query an answer is for and on whether
a transaction is open. `PROJECT.json` lists the hazards line by line.

## Modules

* `Latch` - what a caller relies on: a reader-writer latch as one variable.
* `LWLatch` - `lock/LWLatch.cpp` at the grain of its atomic accesses. The word is
  split in its fields (`lockCount`, `listLocked`, `unlockWaiter`, `hasWaiters`);
  the linked list is a sequence. Locals of the functions are per-worker variables
  and `pc` says where in the code a worker is. Accesses that only one worker can
  make (under the list lock, or on a WorkerLock nobody else can find) are merged
  with the next visible one.
* `TransactionManager` - `trans/`, with the undo log and the two places of the
  heap that ask for a status (`tuple_is_visible`, `wait_tnx_end`). A critical
  section under `_mutex` is one step, which `LWLatch` justifies: it grants the
  latch to one worker at a time, in either mode. Accesses outside a critical
  section (the CSN counter, the slots) are steps of their own. `UndoAllRecords`
  undoes one record a step, and may throw at any of them: the transaction is then
  in progress again, what was undone stays undone, and it may go on, COMMIT or
  ROLLBACK once more (`failed`). `verdict`, `committedAt` and `stmtStart` are
  observations that no step depends on.
* `Transactions` - what the transaction manager promises: a status per
  transaction that changes in one step, and snapshots that divide the committed
  ones by CSN. `TransactionManager` implements it, under the mapping `Status`:
  a transaction has committed once it has its CSN, because nobody can read its
  status between that and the publication.
* `Heap` - row versions, on top of `Transactions`: statements of concurrent
  transactions, pages of items, undo records with the older versions, scans that
  follow them, writers that wait for each other, rollback record by record. A
  page access under its latch is a step; what happens between an unlock and the
  next lock (`lock.Release()`, the wait, `lock.Lock()`) is several. A row's
  contents are the USN that wrote them. Assertions are off (a Release build).
* `HeapPage` - the space of pages: `lower`, `upper`, line pointers and extents in
  units of any size, the search for a page with room, extending the table,
  inserting, updating to a longer row. The contents of rows are `Heap`'s. The
  step of `ExtendRelation` that a second worker can overtake, between the page
  count and the zeroing, is split. An insert whose padding has no room lands on the
  line pointers; what is read there afterwards is not represented, and behaviours
  end with it (`overrun`). `newLock` of a repeated search keeps the latch of one page.
* `BufferPool` - `storage/buffer/` and `adt/`: an entry is a record of its state
  word and its links, a list is a head, a tail and a counter, so that what the
  code does to the links (and gets wrong) is what the model does. `disk`, the
  buffers and `latest` hold versions of pages. `cache.fault` is the end of the
  process. `hist` collects the entries and pages to which something happened that
  the properties except; no step looks at it. `unmarked`: the caller changed the page
  and did not mark it dirty. `raced`: two extensions took the same page. `torn`: the
  entry stopped being its user's alone: it was cleared under a pin, taken while the
  page table had it or another worker had taken it, or forgotten for another entry
  of its page. `dropped`: the pages of torn entries, pages that left the buffer or the
  page table dirty, and pages written that were never read. `aba`: the head of the
  free buffers was exchanged after it had been taken and given back. The exceptions
  for `torn` are what the broken lists do: a ghost is not taken out of its T list,
  `ForgetFree` leaves the entry in its B list, and the walk of `PopTail` past a pinned
  free entry follows `prev` into whatever list that link is from, so that it can take
  an entry that the page table still has. Three workers, a pool of four, seven pages
  and one failed flush get there; the run below is too small for it.
* `Sessions` - `main.cpp`, `worker/` and the client's `main.cpp`: the accept queue,
  a thread per worker, explicit and implicit transactions, errors at every point
  of a statement, the answer packet by packet, clients that leave or are killed,
  the end of the server. Which transactions have changed the common rows is all
  that is left of the heap, because statements wait for it. A thread about to take a
  latch may never get it (`Stall`): that stands for the mutex lost at
  `TransactionManager.cpp:34`, the wakeup lost at `LWLatch.cpp:230` and the latch of
  its own page at `HeapTable.cpp:234`.
* `PacketChannel` - what one direction of a connection promises: packets are
  delivered in order, once, and the end is never announced too early.
* `Wire` - `libmimi`: the bytes of each packet, `sendBuffer` and `recvBuffer` with
  pieces of any size, the receiver as the automaton of `ReceivePacket`. Numbers
  keep a width, with smaller bytes.
* `TupleFormat` - `access/tuple/` and `HeapTupleSerializer` as functions: bitmap,
  attributes by value, by reference and of variable length, the tuple header.
  `Serializable` is what `TupleSerializer.cpp:44` asserts of a row: no value of
  variable length is empty. It is an assumption of `Logs` about its rows, so nothing
  is claimed of rows with empty strings.
* `Logs` - the undo log and the WAL as files of cells (a header field is a cell):
  format, write, sync, return of the number, WAL record, each of which may fail
  or be followed by a crash. `undoDisk` is what a crash leaves.
* `MC*` - symmetry, packets, rows and descriptors for TLC. `*Proofs` - the theorems.

## Runs

Passing:

* `latch_safety`: three workers, both modes, all interleavings (125,598 states).
  Three is what it takes for a holder, a worker between its two attempts and a
  sleeper with a pending wakeup at once. Checks exclusion, `HasWaiters` against
  the list, the membership of the lists, conservation of semaphore tokens, and
  that `LWLatch` implements `Latch`.
* `trans_safety`: two workers, three transactions, two undo records, ROLLBACKs that
  throw at any record. Three transactions let a worker run two while another's
  snapshot lives; two undo records are needed for order, for the command id and for
  a ROLLBACK that stops in the middle. A marked transaction has lost every change;
  one that commits after a failed ROLLBACK has lost some of them, and
  `AbortedUndone` says that there is no other way.
* `trans_wait`: one session that goes away with its transaction open (`MaxOrphans`
  bounds them: such a transaction is one of three) and ROLLBACKs that throw. Under
  weak fairness of the running threads a waiter sees the end of the transaction,
  unless a session left that one open, and goes on once the other one ends; when
  its ROLLBACK throws, the waiter waits on.
* `heap_rows`: three transactions, three undo records, two pages of two rows, every
  kind of statement, rows that move within their page. A SELECT returns rows of its
  snapshot only and misses none of the page that it begins with (moved rows are left
  out); whether it goes on to the next page is left to `heap_scan`. An
  abort restores the page, a statement changes no row twice, undo chains go back in
  time.
* `heap_conflicts`: four transactions on one row: one that inserted it, and three
  writers, which is what it takes for one to wait, one to be waited for and one
  to slip in between; the first one inserts the row, the others update or delete
  it. Updates are lost, and an undo fails, through that only, apart from the rows
  that such a failed undo left half-way.
* `page_space`: three workers, two pages of 10 units (two rows), rows of 2 units and
  of 3, which are padded to 4, longer rows and their rollback: all of them find the
  same room, two extend the table at once, one keeps a latch while it searches, and
  a row of 3 meets a room of exactly 4, one too few with its line pointer and its
  padding. Up to there nothing collides, and there `lower` passes `upper` by less
  than the alignment.
* `buffer_pool`: two workers, a pool of two buffers and four entries, three pages,
  six calls from an empty file, five from one with a page and three from one with two,
  one change of a page, failing I/O: enough for every list to be vacated, for ghost
  hits, for two workers on the same page during its eviction, and for a change to be
  lost. Larger pools and more changes are left to the proofs. The I/O flag excludes, a pinned page stays in its buffer, a buffer has
  one owner, and a user sees the last change.
* `sessions`: two clients of two queries each, two workers beside the master's, one
  row per statement; one client sends all kinds of queries, the other those that
  transactions meet by (`MCSessions`). Weak fairness of the threads of the workers
  that serve, as long as they are not stuck on a latch, of the accepting thread and
  of a client that waits; nobody has to send or to leave. One thread may get stuck
  (`MaxStuck`) while the others go on. Answers
  stay in step with queries; a thread is in a transaction only if its client was told
  so, and leaves one unasked only with an error; and a client waits for ever only on
  a refused connection, a transaction that stays open, or its thread's latch.
* `wire`: three packets out of one or two of each type, a connection that holds
  four bytes (less than a header), close and reset between any two bytes. `Wire`
  implements `PacketChannel`, with its delivery under fairness of the receiving loop.
* `logs`: two workers, two changes out of four, one failed call or cut write (at
  any byte), one crash (losing any suffix). The descriptor has an attribute of
  each kind and its bitmap two bytes; numbers are negative and too wide. Every
  record whose write took all its bytes reads back, with its tuple; a cut one gets a
  number all the same (`File.cpp:44`, `UndoLog.cpp:93-99`) and is excepted. The WAL
  since it was opened can be walked. Two changes suffice for a record after a torn, cut or given-up one.

The violations are disagreements between the code and its own comments
(`PROJECT.json`, "findings"):

* `trans_leaked_mutex`: `lock.release()` disowns the mutex instead of unlocking it.
* `heap_scan`: the NULL at the end of the first page (`HeapTableScan.cpp:180`) is
  "NULL if end of scan" (`HeapTableScan.hpp:30`) to the caller, although the scan is
  to include the last page (lines 15-16).

Deadlock is not checked: a bounded number of transactions, undo records, queries
and pages runs out, writers wait for each other without detection, latches of the
buffer pool are taken in different orders, and LWLatch can lose a wakeup.

The models reproduce more of what the code does against its own text. These
states are reachable in them and no run is kept for them:

* `lock/`: `wakeup()` clears `UnlockWaiter` also when the list was empty
  (`LWLatch.cpp:230`); only a woken worker sets it again, so a worker that queues
  itself afterwards sleeps for ever, against the comment at line 162. The assertion at `LWLatch.cpp:271` reads the word again after the
  release and can fail; the `std::binary_semaphore` of a worker is initially 1 and
  reaches 2; shared locks exclude each other (`LWLatch.cpp:50`), although lines
  24-25 only mean an exclusive lock to exclude them.
* `trans/`: a session that ends with an open transaction leaves it in its worker's
  slot. The next session commits it without having begun it, or begins another
  one over it: it is destroyed with its latch held (`LWLatch.cpp:283` asserts the
  contrary) and its waiters go on while it is still in progress, which `WaitedEnded`
  excepts, for that transaction only. A ROLLBACK that throws half-way leaves its
  transaction in progress and its latch held, and a COMMIT then keeps what was not
  undone.
* `access/heap/`: after its wait an UPDATE or DELETE locks the page again and
  overwrites what a third transaction committed meanwhile (`HeapTable.cpp:218`,
  against lines 202-203; `LostOnlyClobbered` says it is the only way to lose an
  update beside a failed ROLLBACK). The undo of such an overwritten change throws half-way (`UndoApplierVisitor.cpp:60-63`); the xid to wait for is
  read after the unlock (`HeapTable.cpp:216-217`), so a writer may be refused for a
  row that is as it was; a snapshot older than the move of a row finds no version
  of it (`HeapTableScan.cpp:105-107`); a row is stored without the USN of its undo record
  (`HeapTable.cpp:112` and `137`).
* Page space: the room asked for leaves out the padding (`HeapTable.cpp:115`, against
  line 77), so an insert can overwrite line pointers; a moved row lies in what the header
  calls free space and is overwritten by the next one (`HeapTable.cpp:285-305`);
  the assertion at `HeapTable.cpp:106` is the wrong way round; the search for a
  longer row waits for the latch of its own page (`HeapTable.cpp:234`).
* `storage/buffer/`: `LinkedList::Get` has the ABA problem (`LinkedList.hpp:48`): with
  three buffers and four calls a worker exchanges a head that came back, and the
  stack then begins with a buffer in use, which the next one is given too (`OneOwner`
  excepts it, and says that there is no other way). Nothing keeps two workers from extending the table to the same
  page, which the second one zeroes (`BufferManager.cpp:634`, against 688). The free
  list is counted down twice (61-64); an extension puts its entry into T1 twice, so
  it links to itself (672-685); a vacated entry stays in its T list (449), a
  forgotten one in its B list (231); a ghost hit divides by the size of a list that
  may be empty (340, 343), updates B1 for B2 (356-362) and gets no buffer (594); an
  eviction that gives up keeps its pin (414, 462); `IoError` and `Dirty` are one bit
  (`CacheEntry.hpp:32`, 38); the bucket latch and the list latches are taken in both
  orders (242-243 and 419, 638 and 673); an entry is cleared under a pin
  (195-197, 484); a page changed after its flush is given up (412-423).
* `worker/`: a transaction with a failed statement commits, although
  `Handler.cpp:325` says that all errors abort it; `TransactionAgrees` takes no side.
  COMMIT without BEGIN follows a
  null pointer, or commits what an earlier session of the worker left open; a packet
  to a client that is gone raises SIGPIPE, which ends the server; a rollback that
  throws in the guard's destructor does too; when all workers are busy the accepted
  socket is forgotten (`main.cpp:94`) and its client waits for ever; CommandComplete
  of an implicit transaction is sent before its commit (`Handler.cpp:284-286`).
* `storage/`: a short `pwrite` is taken for a whole one (`File.cpp:44`), and the undo
  record it cut is given a number. `WriteAheadLog::Flush` returns when the log is not
  flushed far enough (line 44), and `HeapTable` writes past `Transaction::WriteWAL`,
  so the LSN that a commit would flush is never valid: no commit syncs the WAL. The
  WAL header lacks the type of the record, the insert record the table, and
  `UpdateTuple` passes the new place for the old one (`HeapTable.cpp:266`). Torn
  tails are not cut off at start. A number too wide for its attribute is stored
  modulo its width.

## Proofs

`LWLatchProofs` proves, for any finite set of workers, every safety property of
`latch_safety` and the refinement `Spec => ImplementsLatch`. None of them is
inductive alone; `IndInv` adds that the list lock bit is set exactly while one
worker is inside it, that the count is the value of the only holder, where a
worker can be given the lists it is in, and that it counts at most one spurious
wakeup. The last one comes from the token sum: beside its initial token a worker
has at most the one of a pending wakeup.

`TransactionManagerProofs` proves every safety property of `trans_safety` for any
workers and any bounds, and `WaitedEnded` likewise, with sessions that go away and
ROLLBACKs that throw. The argument: slots are disjoint and the
status of a transaction follows the place of its owner (`OwnerInv`, `StatusInv`);
a fetched CSN is unique before it is published (`CsnInv`); a transaction hidden
from a snapshot while uncommitted can only commit with a CSN at or above it,
because it was marked Committing before it fetched one (`SnapshotInv`); the undo
log of a transaction is exactly its part of the undo file, in order (`UndoLogInv`),
an abort has undone all of it behind the record it has come to (`LeftInv`), and what
is undone belongs to a transaction that aborts, has aborted, or whose ROLLBACK threw
(`UndoneInv`); a transaction that is in progress and was not left open is found in
the table, in its worker's slot, with its latch held (`WaitInv`).

Last, it proves that `TransactionManager` implements `Transactions`:
`CommitCsn` is its `Commit`, `AbortMark` its `Abort`, `EndClear` its `Forget`, the
first `BeginNewStatement` its `TakeSnapshot`, `BeginRegister` its `Begin`; all
other steps, the publication of a CSN included, leave `Status` as it is. It needs
`IndInv` in both states: slots are disjoint, so at most one worker publishes a
CSN for a transaction.

`HeapPageProofs` proves the properties of `page_space` for any number of workers
and pages, any page size, alignment and row sizes. The invariant: until an insert
overruns its page, `lower <= upper`, `lower` counts the items, and inserted rows are
stacked from the end of the page with the last one at `upper`, moved rows or not; the
page a worker goes back to after it released a latch still exists (`LocalInv`). An
insert either has room for its padding too (`InsertedGood`) or overruns by less than
the alignment (`InsertedOver`), because `MaxAlign` adds less than that
(`AlignBounds`).

`SessionsProofs` proves `InStep` and `TransactionAgrees` for any clients, workers,
queries and rows. Neither says where an answer comes from, so `SessionInv` follows
the dialogue of each client: it rests, its query is in the socket, a thread works
on it, or the answer lies in the socket behind its rows (`Dialogue`), and in each
of them what the client will believe once it has read everything is what the
thread knows of its transaction. Beside it: a client has one thread (`Wiring`), the
transaction of a thread is the one in its worker's slot and in no other (`Slots`),
and the guard of an implicit transaction lives where the code has it (`Threads`).

`HeapProofs` proves, for any number of transactions, pages, rows and undo records,
`TypeOK`, `ChainDescends`, `AbortRestores`, `ChangedOnce`, `LostOnlyClobbered`,
`UndoFailsClobbered` and `SelectExact`. The invariant `HeapInv` has three layers:

* `Base`, true of all rows: types; a status and a snapshot for each place of a
  transaction (`Lives`); an undo log is the transaction's part of the records
  (`Logs`); the tuple at a place and the one that a record keeps belong to the row
  and were made by an older record of it (`Placed`, `Records`), which gives
  `ChainDescends`; what a statement has changed lies behind its scan (`Behind`).
* `Clean`, of the rows that no waiter overwrote blindly: records keep committed or
  own versions (`KeepsCommitted`); the version of its own that a statement goes to
  change is the one on the page (`OwnOnTop`), hence `ChangedOnce`; a committed
  transaction left one version at a place, so the comparison of xids in
  `HeapTable.cpp` is as good as one of versions (`XidTells`, theorem `HeapXids`);
  later records of a transaction keep its earlier versions (`Nested`), and a
  ROLLBACK that goes backwards finds on the page what it wrote there
  (`ChangesKept`), hence `UndoFailsClobbered`, and leaves nothing that it passed
  (`UndoneGone`, `Restored`), hence `AbortRestores`.
* `InSight` and `LastOnTop`, of those that no failed ROLLBACK left half-way
  either: of two changes that stand the later one was made in sight of the
  earlier, because the page shows the last change that stands and a writer must
  see that one. `LostOnlyClobbered` is `InSight` for committed changes.

The search along the undo records is a recursive function; that it ends, and with
what, is proved by the least counterexample over the USNs (`SearchEnds`,
`SearchFinds`).

`SelectExact` needs `ReadInv` beside it: a tuple carries the number of the record
that made it and is marked deleted if that was a DELETE (`Named`); only the new
place of a move dies (`MovedDead`); and what a SELECT has returned so far are, of
the places its scan has passed, the versions it must see (`Selects`). The argument
has two halves. The last change of a row that stands is on the page and each record
keeps the last one before it (`LastOnTop`), so the search goes back over all
changes one after the other and stops at the last that belongs to the snapshot
(`SearchExact`, `VersionExact`). And the answer to "does this change belong to the
snapshot" stays the same while others insert, commit and undo (`BelongsSame`,
`NewNotBelongs`), so neither what the scan has passed nor what is ahead of it
changes under it.

`BufferPoolProofs` proves all five properties of the run for any number of workers,
any pool, any file, any number of calls and any failures of I/O, in three layers.
`TypeOK` and `OneOwner` follow from `PoolInv`, which has two parts. That no pointer
leaves the pool needs to know at which label a call has an entry, a page, a buffer
(`LocGood`), because the ARC lists are broken in several ways and nothing can be
said of what their links lead to; `Effect` is what every step does to the
ownership of buffers: nothing, but for three of them. `Owners` says that the free
buffers are a sequence without repetition linked by `next`, that no entry has one
of them or one of another entry's, and that a buffer on its way to the stack is
nobody else's (`Carries`). `Ghostify`, `AddFree` and `TakeFree` move a buffer along;
a successful exchange of the head takes the top off the sequence exactly if the
successor that was read before is still its successor, which is what `hist.aba`
records.

`IoExclusive` and `PinnedStays` follow from `UseInv`, about the users of the entries
that are not torn. The lists do not matter here: an entry is reached from the page
table or taken off a list, and it is a step's own check (the pin count, the page
table, the entry lock) that makes it the worker's. `Role` says what a call has at its
label. For an entry: its pins, those of callers and those of workers that vacate it,
are counted (`PinOK`); one worker takes it, outside the page table, and it is empty
once cleared (`TakenOK`); the page table has it for its page only and for the page of
every pin (`MapOK`); a new entry is its worker's alone until the latch of the
partition is let go (`InsertOK`), that of an extension until the page is written
(`CreateOK`); the I/O flag is set exactly while one worker reads or writes (`IoOK`);
while an entry is made a ghost it is locked and those who have pinned it wait
(`LockOK`). `CreateOK` is what `IoOK` needs: an extension goes on to its I/O
whether or not it got the flag ("this call must succeed"), which is right because the
entry is not valid and it is alone with it: its page is behind the end of the file.

`ReadsLatest` follows from `DataInv`, about the pages with which nothing went wrong
(`Sound`). A valid buffer has the last version, and the file has it too unless the
buffer is dirty (`PageOK`); a user's buffer is valid, and one that is being read is
not (`CallOK`); what a flush has written is not changed before the I/O ends, because
it holds the page latch (`FlushOK`); a dirty entry is the page table's entry for its
page (`DirtyOK`); torn entries have only pages that were given up (`TornOK`). The
argument for a step is a frame: it touches one entry, its buffer and its page
(`Frame`), a buffer has one owner by `OneOwner` and a page one entry by `MapOK`, and
what is left is the page of that entry.

`LogsProofs` proves `LogsReadBack` for any workers and changes, and for any number
of changes, failures and crashes, under the premise `RowsReadBack`: a single row,
serialized, is read back as it was stored. That is the contract of `TupleFormat`,
an induction over the attributes and bits; `MCLogs` states it of its rows as an
assumption that TLC evaluates. The invariant: a record with a number lies in the
undo file and, up to `undoSize`, on the disk, so that a torn write behind it leaves
it alone (`Kept`); between the write and the number only the holder of the latch is
behind the end (`Writing`); the records of the WAL are a chain, each of them where
the one before ends (`WalInv`). The lemmas below it say what a write keeps and that
the fields of a record are parsed out of its bytes (`PwriteKeeps`, `UndoBytes`).

`WireProofs` proves the safety half of `ImplementsChannel` (`WireDelivers`) for any
packets, any number of them and any capacity: `SendSome` that empties the buffer is
`Send` of `PacketChannel`, the last piece of a payload `Deliver`, the end of the
stream between two packets `End`, an exception `Fail`, and every other step leaves
the channel as it is. The premise `PacketsReadBack` is about a packet by itself: its
buffer is a type, a length and a payload from which it is read back; `MCWire` states
it of its packets as an assumption that TLC evaluates. The invariant: what the
receiver has of a packet, what is in the connection and what the sender has left
are, one after the other, the end of the buffers of all packets, and the receiver is
at the start of a packet's type, length or payload and asks for exactly that
(`Position`, `Reading`). So none of the checks of `ReceivePacket` throws while the
stream goes on (`WireReads`), and when it ends before a type everything sent in full
is received (`EndOfStream`). That each of them is received in the end is the fairness
of the run.

Assumptions: the set of workers is finite (latch), `NoWorker` is no worker, the
bounds and sizes are naturals, and a page has room for its header. Liveness is
only model-checked; the prover does not handle fairness. That the bytes of one
packet and of one row are read back (`PacketsReadBack`, `TupleFormat`) is induction
over their strings and attributes and stays with TLC.

## Not modelled

In `Heap`: an update that moves a row to another page (its search is in
`HeapPage`, and it never ends if the old page comes first); where a row goes on a
page with a moved row, whose space is given out twice (`loose` pages take no more
rows); implicit transactions, which are in `Sessions`; the race of a scan with the
initialization of a new page. In `HeapPage`: all of `ExtendRelation` but the page
number and the zeroes (the rest is in `BufferPool`), and what follows an insert onto
line pointers. In `BufferPool`: more
than one relation. In `Logs`: `Flush`, which no path
reaches with a valid LSN, redo, which the code does not have, and the reading of
undo records by an abort, which is `GetRecord` followed by a step of `Heap`.

Weak memory: every atomic access of the latch uses sequentially consistent
operations in the code, and the models interleave. Torn reads of the shared
pointer in a slot are undefined behaviour; the model gives the old or the new
value. `TransactionManager` takes `_mutex` as a latch that is eventually granted
unless a reader leaked it; that LWLatch can lose a wakeup is left to `LWLatch`, for
which no liveness is stated for that reason, and to the stuck threads of `Sessions`.
Parsing, planning, expressions, formatting, logging, start-up and the client's input are sequential
code without state to protect; `Sessions` has the places where they fail.

## Plan

Done: `LWLatch`, `TransactionManager`, `Transactions`, `HeapPage`, `Heap`,
`Sessions`, `BufferPool`, `Logs` and `Wire` with proofs: every safety property
that a run shows to hold, or its counterpart for the specification without fairness.
Open: the linked list under LWLatch as a refinement of a sequence.
