--------------------------------- MODULE Heap ---------------------------------
(***************************************************************************)
(* Row versions (access/heap): INSERT, UPDATE, DELETE and SELECT of the    *)
(* one table by concurrent transactions, each run by its own worker, the   *)
(* undo records that hold the older versions, and ROLLBACK.                *)
(*                                                                         *)
(* A page access under the page's lock is one step. The answers that a     *)
(* snapshot gives during a page's scan do not change (TransactionManager), *)
(* so GetNextTuple is one step too. Assertions are off, as in a Release    *)
(* build: with them searchPageFreeSpace fails on every new page.           *)
(***************************************************************************)
EXTENDS Transactions, Sequences, FiniteSetsExt

CONSTANTS
  Kinds,      \* the kinds of statement that clients send
  RowsPerPage,   \* bound: rows that fit on a page
  MaxPages,   \* bound: pages of the table
  MaxUsn,     \* bound: undo records written
  Moves       \* whether an update may need more room than the row has

ASSUME HeapAssumption ==
  /\ Kinds \subseteq {"insert", "update", "delete", "select"}
  /\ {MaxPages, MaxUsn} \subseteq Nat /\ RowsPerPage \in Nat \ {0} /\ Moves \in BOOLEAN

InvalidUsn == 0

VARIABLES
  \* The table: pages of items, an item being [dead, tup]. A tuple is
  \* [xid, undo, deleted, val], with val naming the version by its USN.
  pages,
  loose,     \* pages with a moved row in space that their header counts as free
  undo,      \* UndoLog: the records [xid, type, old, new, tup] by USN
  \* Per transaction: VirtualUndoLog::_history, the snapshot's command id, the
  \* kind of its statement and where it is in it
  undoLog, snapCid, op, pc,
  \* HeapTableScan::_tupleId, the tuple GetNextTuple returned, the xid waited
  \* for, the records UndoAllRecords has still to undo
  pos, cur, waitFor, left,
  \* Observations: the row (by the USN of its insert) that each USN wrote; rows
  \* that a waiter overwrote with a version it had not seen; the versions that a
  \* SELECT returned; the transactions with a failed ROLLBACK
  rowOf, clobbered, seen, failed

scanVars  == <<op, pos, cur, seen>>
storeVars == <<pages, loose, undo, undoLog, rowOf, clobbered>>
vars == <<transVars, storeVars, scanVars, snapCid, pc, waitFor, left, failed>>

NoTuple == [xid |-> 0, undo |-> 0, deleted |-> FALSE, val |-> 0]
NoTid == <<0, 0>>
NoScanned == [tid |-> NoTid, tup |-> NoTuple]

Item(tid) == pages[tid[1]][tid[2]]
Tuple(x, u, d, v) == [xid |-> x, undo |-> u, deleted |-> d, val |-> v]
Goto(x, from, to) == pc[x] = from /\ pc' = [pc EXCEPT ![x] = to]

Init ==
  /\ TransInit
  /\ pages = <<>> /\ loose = {} /\ undo = <<>> /\ rowOf = <<>> /\ clobbered = {}
  /\ undoLog = [x \in Xids |-> <<>>]
  /\ snapCid = [x \in Xids |-> InvalidUsn]
  /\ op = [x \in Xids |-> "none"] /\ pc = [x \in Xids |-> "none"]
  /\ pos = [x \in Xids |-> NoTid]
  /\ cur = [x \in Xids |-> NoScanned]
  /\ waitFor = [x \in Xids |-> 0] /\ left = [x \in Xids |-> 0]
  /\ seen = [x \in Xids |-> {}] /\ failed = {}

-----------------------------------------------------------------------------
(* Transactions and statements                                              *)

\* Identifiers are handed out in order.
BeginTransaction(x) ==
  /\ \A y \in 1..(x - 1) : status[y] # InvalidCsn
  /\ Begin(x) /\ Goto(x, "none", "idle")
  /\ UNCHANGED <<storeVars, scanVars, snapCid, waitFor, left, failed>>

\* Mutant: one row too many.
HasRoomFull(p) == Len(pages[p]) <= RowsPerPage /\ p \notin loose

HasRoom(p) == Len(pages[p]) < RowsPerPage /\ p \notin loose

\* searchPageFreeSpace: the first page with room, else a new one.
FreePage ==
  LET fits == {p \in DOMAIN pages : HasRoom(p)} IN
  IF fits = {} THEN Len(pages) + 1 ELSE Min(fits)

\* BeginNewStatement, then the plan node's Start, which begins its scan. Within
\* the bounds, an INSERT is sent while there is room for a row.
StartStatement(x, kind) ==
  /\ kind = "insert" => FreePage <= MaxPages /\ Len(undo) < MaxUsn
  /\ Goto(x, "idle", IF kind = "insert" THEN "insert" ELSE "scan")
  /\ \/ TakeSnapshot(x) /\ UNCHANGED snapCid
     \/ /\ snapCsn[x] # InvalidCsn
        /\ snapCid' = [snapCid EXCEPT ![x] =
                         IF undoLog[x] = <<>> THEN @ ELSE undoLog[x][Len(undoLog[x])] + 1]
        /\ UNCHANGED transVars
  /\ op' = [op EXCEPT ![x] = kind]
  /\ pos' = [pos EXCEPT ![x] = IF pages = <<>> \/ kind = "insert" THEN NoTid ELSE <<1, 1>>]
  /\ seen' = [seen EXCEPT ![x] = {}]
  /\ UNCHANGED <<storeVars, cur, waitFor, left, failed>>

\* The plan node's End. What a SELECT returned is kept to be looked at.
EndStatement(x) ==
  /\ op' = [op EXCEPT ![x] = IF @ = "select" THEN @ ELSE "none"]
  /\ pos' = [pos EXCEPT ![x] = NoTid]
  /\ cur' = [cur EXCEPT ![x] = NoScanned]
  /\ UNCHANGED seen

\* The undo log, the command id and the statement go with the transaction.
Finish(x) ==
  /\ op' = [op EXCEPT ![x] = "none"]
  /\ seen' = [seen EXCEPT ![x] = {}]
  /\ undoLog' = [undoLog EXCEPT ![x] = <<>>]
  /\ snapCid' = [snapCid EXCEPT ![x] = InvalidUsn]
  /\ UNCHANGED <<pos, cur>>

CommitTransaction(x) ==
  /\ Goto(x, "idle", "ended") /\ Commit(x) /\ Finish(x)
  /\ UNCHANGED <<pages, loose, undo, rowOf, clobbered, waitFor, left, failed>>

-----------------------------------------------------------------------------
(* INSERT                                                                   *)

\* VirtualUndoLog::InsertRecord: the record gets the next USN. row is the row
\* it changes.
InsertRecord(x, type, old, new, tup, row) ==
  /\ Len(undo) < MaxUsn
  /\ undo' = Append(undo, [xid |-> x, type |-> type, old |-> old, new |-> new, tup |-> tup])
  /\ undoLog' = [undoLog EXCEPT ![x] = Append(@, Len(undo) + 1)]
  /\ rowOf' = Append(rowOf, row)

\* The tuple is serialized before its undo record exists, and it is that
\* serialization that goes to the page: its header has no USN.
OnPageUndo(usn) == InvalidUsn

\* InsertTuple for one of the rows of the statement.
InsertTuple(x) ==
  LET usn == Len(undo) + 1
      p == FreePage
      item == [dead |-> FALSE, tup |-> Tuple(x, OnPageUndo(usn), FALSE, usn)]
      tid == <<p, IF p > Len(pages) THEN 1 ELSE Len(pages[p]) + 1>>
  IN
  /\ \/ Goto(x, "insert", "insert") /\ UNCHANGED scanVars
     \/ Goto(x, "insert", "idle") /\ EndStatement(x)
  /\ p <= MaxPages
  /\ InsertRecord(x, "Delete", tid, tid, NoTuple, usn)
  /\ pages' = IF p > Len(pages) THEN Append(pages, <<item>>)
              ELSE [pages EXCEPT ![p] = Append(@, item)]
  /\ UNCHANGED <<transVars, snapCid, waitFor, left, failed, loose, clobbered>>

-----------------------------------------------------------------------------
(* Scans                                                                    *)

\* Mutant: a statement sees its own changes.
TupleVisibleOwn(x, t) == IF t.xid = x THEN TRUE ELSE Visible(status[t.xid], x)

\* tuple_is_visible
TupleVisible(x, t) ==
  IF t.xid = x THEN t.undo < snapCid[x] ELSE Visible(status[t.xid], x)

\* Mutant: an older version is returned without a look at its transaction.
FindVersionAny(x, usn) ==
  IF usn = InvalidUsn \/ undo[usn].type = "Delete" \/ undo[usn].old # undo[usn].new
  THEN NoTuple ELSE undo[usn].tup

\* find_visible_tuple_page: the chain of undo records, until a visible version,
\* the insert of the row or a move.
FindVersion(x, usn) ==
  LET find[u \in 0..Len(undo)] ==
        IF u = InvalidUsn \/ undo[u].type = "Delete" \/ undo[u].old # undo[u].new THEN NoTuple
        ELSE IF TupleVisible(x, undo[u].tup) THEN undo[u].tup
        ELSE find[undo[u].tup.undo]
  IN find[usn]

\* The version of an item that the transaction's statement sees, if any.
Version(x, item) ==
  IF item.dead THEN NoTuple
  ELSE IF TupleVisible(x, item.tup)
       THEN IF item.tup.deleted THEN NoTuple ELSE item.tup
       ELSE FindVersion(x, item.tup.undo)

\* GetNextTuple: the next item of the page with a visible version. SELECT
\* returns it to the client; UPDATE and DELETE go on to change it if it meets
\* their condition.
GetNextTuple(x) ==
  LET p == pos[x][1]
      hits == {i \in DOMAIN pages[p] : i >= pos[x][2] /\ Version(x, pages[p][i]) # NoTuple}
      i == Min(hits)
      t == Version(x, pages[p][i])
  IN
  /\ pc[x] = "scan" /\ pos[x] # NoTid /\ hits # {}
  /\ pos' = [pos EXCEPT ![x] = <<p, i + 1>>]
  /\ \/ /\ op[x] = "select" /\ Goto(x, "scan", "scan")
        /\ seen' = [seen EXCEPT ![x] = @ \cup {t.val}]
        /\ UNCHANGED cur
     \/ /\ op[x] # "select"
        /\ \E qual \in BOOLEAN :
             /\ Goto(x, "scan", IF qual THEN "write" ELSE "scan")
             /\ cur' = IF qual THEN [cur EXCEPT ![x] = [tid |-> <<p, i>>, tup |-> t]] ELSE cur
        /\ UNCHANGED seen
  /\ UNCHANGED <<transVars, storeVars, op, snapCid, waitFor, left, failed>>

\* No item is left on the page, or the table was empty: NULL is returned, the
\* plan node takes it for the end of the scan and the statement ends (EndScan).
GetNoTuple(x) ==
  /\ Goto(x, "scan", "idle")
  /\ pos[x] # NoTid =>
       \A i \in DOMAIN pages[pos[x][1]] :
         i >= pos[x][2] => Version(x, pages[pos[x][1]][i]) = NoTuple
  /\ EndStatement(x)
  /\ UNCHANGED <<transVars, storeVars, snapCid, waitFor, left, failed>>

-----------------------------------------------------------------------------
(* UPDATE and DELETE                                                        *)

OldItem(x) == Item(cur[x].tid)
Put(ps, tid, t) == [ps EXCEPT ![tid[1]][tid[2]].tup = t]

\* Mutant: the undo record keeps the new version.
UpdateInPlaceNew(x) ==
  LET tid == cur[x].tid  usn == Len(undo) + 1 IN
  /\ op[x] = "update"
  /\ InsertRecord(x, "Update", tid, tid, Tuple(x, usn, FALSE, usn), rowOf[OldItem(x).tup.val])
  /\ pages' = Put(pages, tid, Tuple(x, usn, FALSE, usn))
  /\ UNCHANGED loose

\* The new version overwrites the old one; the undo record keeps what was
\* scanned.
UpdateInPlace(x) ==
  LET tid == cur[x].tid  usn == Len(undo) + 1 IN
  /\ op[x] = "update"
  /\ InsertRecord(x, "Update", tid, tid, cur[x].tup, rowOf[OldItem(x).tup.val])
  /\ pages' = Put(pages, tid, Tuple(x, usn, FALSE, usn))
  /\ UNCHANGED loose

\* The new version is longer: it becomes the last item of the page.
UpdateMoved(x) ==
  LET tid == cur[x].tid  p == tid[1]  usn == Len(undo) + 1
      new == <<p, Len(pages[p]) + 1>>
      moved == [dead |-> FALSE, tup |-> Tuple(x, usn, FALSE, usn)]
  IN
  /\ Moves /\ op[x] = "update" /\ HasRoom(p)
  /\ InsertRecord(x, "Update", tid, new, cur[x].tup, rowOf[OldItem(x).tup.val])
  /\ pages' = [Put(pages, tid, Tuple(x, usn, TRUE, OldItem(x).tup.val))
                 EXCEPT ![p] = Append(@, moved)]
  /\ loose' = loose \cup {p}

\* The header is overwritten; the undo record keeps the tuple on the page.
DeleteTuple(x) ==
  LET tid == cur[x].tid  t == OldItem(x).tup  usn == Len(undo) + 1 IN
  /\ op[x] = "delete"
  /\ InsertRecord(x, "Insert", tid, tid, t, rowOf[t.val])
  /\ pages' = Put(pages, tid, Tuple(x, usn, TRUE, t.val))
  /\ UNCHANGED loose

ChangeTuple(x) ==
  /\ UpdateInPlace(x) \/ UpdateMoved(x) \/ DeleteTuple(x)
  /\ cur' = [cur EXCEPT ![x] = NoScanned]
  /\ UNCHANGED <<transVars, op, pos, seen, snapCid, waitFor, left, failed>>

\* Mutant: the version on the page is not compared with the scanned one.
NeverModified(x) == TRUE

\* "it's enough to check only tuple XID" (HeapTable.cpp:208)
NotModified(x) == OldItem(x).tup.xid = cur[x].tup.xid

WriteNow(x) ==
  /\ Goto(x, "write", "scan") /\ NotModified(x)
  /\ ChangeTuple(x) /\ UNCHANGED clobbered

\* The page lock is released before the wait...
WriteConflict(x) ==
  /\ Goto(x, "write", "reread") /\ ~NotModified(x)
  /\ UNCHANGED <<transVars, storeVars, scanVars, snapCid, waitFor, left, failed>>

\* ... and the xid to wait for is read from the page without it.
RereadXid(x) ==
  /\ Goto(x, "reread", "wait")
  /\ waitFor' = [waitFor EXCEPT ![x] = OldItem(x).tup.xid]
  /\ UNCHANGED <<transVars, storeVars, scanVars, snapCid, left, failed>>

\* wait_tnx_end returns if the other transaction has aborted...
WaitAborted(x) ==
  /\ Goto(x, "wait", "relock") /\ status[waitFor[x]] = AbortedCsn
  /\ waitFor' = [waitFor EXCEPT ![x] = 0]
  /\ UNCHANGED <<transVars, storeVars, scanVars, snapCid, left, failed>>

\* ... and throws if it has committed; the statement ends, the transaction of a
\* client that sent BEGIN does not.
WaitCommitted(x) ==
  /\ Goto(x, "wait", "idle") /\ IsNormal(status[waitFor[x]])
  /\ waitFor' = [waitFor EXCEPT ![x] = 0]
  /\ EndStatement(x)
  /\ UNCHANGED <<transVars, storeVars, snapCid, left, failed>>

\* The page is locked again and the tuple is changed, whatever it is by now.
WriteRelocked(x) ==
  /\ Goto(x, "relock", "scan")
  /\ ChangeTuple(x)
  /\ clobbered' = IF OldItem(x).tup = cur[x].tup THEN clobbered
                  ELSE clobbered \cup {rowOf[OldItem(x).tup.val]}

-----------------------------------------------------------------------------
(* ROLLBACK                                                                 *)

Rollback(x) ==
  /\ Goto(x, "idle", "undo")
  /\ left' = [left EXCEPT ![x] = Len(undoLog[x])]
  /\ UNCHANGED <<transVars, storeVars, scanVars, snapCid, waitFor, failed>>

\* Whether UndoApplierVisitor throws.
UndoThrows(usn) ==
  LET r == undo[usn] IN
  r.type = "Update" /\ (Item(r.old).tup.undo # usn \/ Item(r.new).tup.undo # usn)

\* Mutant: the new location of a moved row stays in use.
AppliedUndoKeeping(usn) ==
  LET r == undo[usn] IN
  IF Item(r.old).tup.undo # usn THEN pages ELSE Put(pages, r.old, r.tup)

\* UndoApplierVisitor: the pages with the record's change taken back, if the
\* change is still there. The item of an inserted or of a moved row dies.
AppliedUndo(usn) ==
  LET r == undo[usn]
      Kill(ps) == [ps EXCEPT ![r.new[1]][r.new[2]].dead = TRUE]
  IN
  IF Item(r.old).tup.undo # usn THEN pages
  ELSE IF r.type = "Delete" THEN Kill(pages)
  ELSE IF r.new = r.old THEN Put(pages, r.old, r.tup)
  ELSE Kill(Put(pages, r.old, r.tup))

\* UndoAllRecords: one record, the last first.
UndoRecord(x) ==
  LET usn == undoLog[x][left[x]] IN
  /\ pc[x] = "undo" /\ left[x] > 0 /\ ~UndoThrows(usn)
  /\ pages' = AppliedUndo(usn)
  /\ left' = [left EXCEPT ![x] = @ - 1]
  /\ UNCHANGED <<transVars, scanVars, snapCid, waitFor, failed, loose, undo, undoLog, rowOf, clobbered, pc>>

\* The exception leaves the transaction in progress, its log as it was.
UndoFails(x) ==
  /\ Goto(x, "undo", "idle") /\ left[x] > 0 /\ UndoThrows(undoLog[x][left[x]])
  /\ failed' = failed \cup {x}
  /\ left' = [left EXCEPT ![x] = 0]
  /\ UNCHANGED <<transVars, storeVars, scanVars, snapCid, waitFor>>

RollbackEnds(x) ==
  /\ Goto(x, "undo", "ended") /\ left[x] = 0
  /\ Abort(x) /\ Finish(x)
  /\ UNCHANGED <<pages, loose, undo, rowOf, clobbered, waitFor, left, failed>>

-----------------------------------------------------------------------------

Write(x) ==
  \/ WriteNow(x) \/ WriteConflict(x) \/ RereadXid(x) \/ WaitAborted(x) \/ WaitCommitted(x)
  \/ WriteRelocked(x)

Next ==
  \E x \in Xids :
    \/ BeginTransaction(x) \/ CommitTransaction(x)
    \/ \E kind \in Kinds : StartStatement(x, kind)
    \/ InsertTuple(x) \/ GetNextTuple(x) \/ GetNoTuple(x) \/ Write(x)
    \/ Rollback(x) \/ UndoRecord(x) \/ UndoFails(x) \/ RollbackEnds(x)

Spec == Init /\ [][Next]_vars

-----------------------------------------------------------------------------
(* Properties                                                               *)

Usns == DOMAIN undo

\* The types of the table, the undo log and the locals.
TypeOK ==
  LET Tids == (0..MaxPages) \X (0..RowsPerPage)
      Tuples == [xid : 0..MaxXid, undo : 0..MaxUsn, deleted : BOOLEAN, val : 0..MaxUsn]
  IN
  /\ pages \in Seq(Seq([dead : BOOLEAN, tup : Tuples])) /\ loose \subseteq DOMAIN pages
  /\ undo \in Seq([xid : Xids, type : {"Delete", "Update", "Insert"}, old : Tids, new : Tids,
                   tup : Tuples])
  /\ undoLog \in [Xids -> Seq(1..MaxUsn)] /\ snapCid \in [Xids -> 0..(MaxUsn + 1)]
  /\ op \in [Xids -> Kinds \cup {"none"}]
  /\ pc \in [Xids -> {"none", "idle", "insert", "scan", "write", "reread", "wait", "relock",
                      "undo", "ended"}]
  /\ cur \in [Xids -> [tid : Tids, tup : Tuples]]
  /\ waitFor \in [Xids -> 0..MaxXid] /\ left \in [Xids -> 0..MaxUsn]
  /\ rowOf \in Seq(1..MaxUsn) /\ Len(rowOf) = Len(undo) /\ clobbered \subseteq 1..MaxUsn

\* Whether a change belongs to the database that the statement of x must see:
\* the committed transactions below its snapshot and its own earlier statements.
Belongs(x, usn) ==
  IF undo[usn].xid = x THEN usn < snapCid[x] ELSE Visible(status[undo[usn].xid], x)

\* The versions it must see: of each row the last change, unless that is a delete.
Expected(x) ==
  {u \in Usns : /\ Belongs(x, u) /\ undo[u].type # "Insert"
                /\ \A v \in Usns : rowOf[v] = rowOf[u] /\ Belongs(x, v) => v <= u}

\* The rows that an update moved: the old place of such a row is a deleted version
\* behind a record that the search does not follow (HeapTableScan.cpp:107).
MovedRows ==
  {rowOf[u] : u \in {v \in Usns : undo[v].type = "Update" /\ undo[v].old # undo[v].new}}

\* The rows that a ROLLBACK left half undone.
HalfUndone == {rowOf[u] : u \in {v \in Usns : undo[v].xid \in failed}}

\* The versions that a finished SELECT is held to: rows that were moved themselves,
\* rows that a waiter overwrote blindly and rows of a failed ROLLBACK are left out.
Followed == {u \in Usns : rowOf[u] \notin clobbered \cup MovedRows \cup HalfUndone}

Selected(x) == pc[x] = "idle" /\ op[x] = "select"

\* A SELECT returns rows of its snapshot only, in the version of its snapshot, and
\* misses none on the page that its scan begins with, whatever is inserted, changed,
\* moved, committed and undone between its reads (GetNextTuple).
SelectExact ==
  \A x \in Xids : Selected(x) =>
    /\ seen[x] \cap Followed \subseteq Expected(x)
    /\ {u \in Expected(x) \cap Followed : undo[u].old[1] = 1} \subseteq seen[x]

\* "Tuple or NULL if end of scan" (HeapTableScan.hpp:30) and "Number of last page we
\* want to observe (including)" (HeapTableScan.hpp:15): a SELECT returns the rows of its
\* snapshot on every page.
SelectComplete ==
  \A x \in Xids : Selected(x) => Expected(x) \cap Followed \subseteq seen[x]

\* "First we must check that old tuple was not concurrently modified. If so
\* throw error - we can not proceed due to concurrent access"
\* (HeapTable.cpp:202-203): of two committed changes of a row the later one
\* was made by a transaction whose snapshot has the earlier one.
LostUpdates ==
  {v \in Usns : \E u \in 1..(v - 1) :
     LET y == undo[u].xid  x == undo[v].xid IN
     /\ rowOf[u] = rowOf[v] /\ y # x
     /\ IsNormal(status[x]) /\ IsNormal(status[y]) /\ ~Visible(status[y], x)}

\* Only a row that a waiter overwrote blindly, or one of a transaction that
\* commits after a failed ROLLBACK, can lose an update.
LostOnlyClobbered == \A v \in LostUpdates : rowOf[v] \in clobbered \cup HalfUndone

\* "aborted transaction must undo all it's changes before marked aborted"
\* (HeapTable.cpp:182): no live item shows a change of an aborted transaction,
\* except for the rows it inserted, which stay on the page in its name.
AbortRestores ==
  \A p \in DOMAIN pages : \A i \in DOMAIN pages[p] :
    LET item == pages[p][i]  IN
    ~item.dead /\ status[item.tup.xid] = AbortedCsn /\ rowOf[item.tup.val] \notin clobbered
      => item.tup.undo = InvalidUsn /\ rowOf[item.tup.val] = item.tup.val

\* A statement changes a row once, although its scan may meet the new version
\* at a later place of the page. A row that a waiter overwrote blindly may have
\* two live places.
ChangedOnce ==
  \A x \in Xids : pc[x] \in {"scan", "write"} =>
    \A u, v \in Usns :
      /\ undo[u].xid = x /\ undo[v].xid = x /\ rowOf[u] = rowOf[v]
      /\ u >= snapCid[x] /\ v >= snapCid[x] /\ rowOf[u] \notin clobbered
      => u = v

\* Undo records point to older records, so that the search for a visible
\* version comes to an end.
ChainDescends ==
  /\ \A u \in Usns : undo[u].tup.undo < u
  /\ \A p \in DOMAIN pages : \A i \in DOMAIN pages[p] : pages[p][i].tup.undo \in {InvalidUsn} \cup Usns

\* An undo that failed met a row overwritten blindly, or one it had undone.
UndoFailsClobbered ==
  [][\A x \in Xids : pc[x] = "undo" /\ pc'[x] = "idle" /\ x \notin failed =>
       rowOf[undoLog[x][left[x]]] \in clobbered]_vars
=============================================================================
