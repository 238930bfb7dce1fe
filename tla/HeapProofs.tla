------------------------------ MODULE HeapProofs ------------------------------
(***************************************************************************)
(* Proofs about Heap: whatever the number of transactions, of pages, of    *)
(* rows and of undo records, rows that no waiter overwrote blindly keep    *)
(* what the comments of HeapTable.cpp promise.                             *)
(***************************************************************************)
EXTENDS Heap, WellFoundedInduction, NaturalsInduction, TLAPS

(***************************************************************************)
(* Vocabulary.                                                             *)
(***************************************************************************)

\* The places of the table that hold an item.
PlacesOf(ps) == {t \in (1..MaxPages) \X (1..RowsPerPage) :
                   t[1] \in DOMAIN ps /\ t[2] \in DOMAIN ps[t[1]]}
Places == PlacesOf(pages)

\* The row that a place holds: a place is never used for another one.
Row(t) == rowOf[Item(t).tup.val]

\* The record of the change that made a tuple. The tuple of an INSERT has no USN.
Maker(tup) == IF tup.undo = InvalidUsn THEN tup.val ELSE tup.undo

Moved(u) == undo[u].old # undo[u].new
Spots(u) == {undo[u].old, undo[u].new}

\* The row left the place, or never came to stay.
Gone(t) == \/ Item(t).dead
           \/ LET u == Item(t).tup.undo IN u # InvalidUsn /\ Moved(u) /\ undo[u].old = t

Writing  == {"write", "reread", "wait", "relock"}
Scanning == Writing \cup {"scan"}

\* The records that a ROLLBACK has still to undo.
Pending(x) == {undoLog[x][j] : j \in 1..left[x]}

\* A record that has not been undone.
Stands(u) == LET y == undo[u].xid IN
  status[y] # AbortedCsn /\ (pc[y] = "undo" => u \in Pending(y))

\* A record by a transaction of another xid than that of the tuple it keeps.
Foreign(u) == undo[u].type # "Delete" /\ undo[u].tup.xid # undo[u].xid

-----------------------------------------------------------------------------
(* The inductive invariant                                                  *)

Tuples == [xid : 0..MaxXid, undo : 0..MaxUsn, deleted : BOOLEAN, val : 0..MaxUsn]
Items == [dead : BOOLEAN, tup : Tuples]
Tables == {ps \in Seq(Seq(Items)) :
             Len(ps) <= MaxPages /\ \A p \in DOMAIN ps : Len(ps[p]) <= RowsPerPage}

\* What TypeOK leaves open.
Shape ==
  /\ status \in [Xids -> Nat] /\ nextCsn \in Nat /\ snapCsn \in [Xids -> Nat]
  /\ pages \in Tables
  /\ Len(undo) <= MaxUsn
  /\ pos \in [Xids -> Nat \X Nat]
  /\ \A x \in Xids : pos[x] # NoTid => pos[x][1] \in DOMAIN pages /\ pos[x][2] > 0
  /\ \A x \in Xids : left[x] <= Len(undoLog[x]) /\ (pc[x] # "undo" => left[x] = 0)

\* Where a transaction is, its status and its snapshot.
Lives ==
  /\ nextCsn >= MinCsn
  /\ \A x \in Xids :
       /\ pc[x] = "none" <=> status[x] = InvalidCsn
       /\ pc[x] = "ended" <=> status[x] = AbortedCsn \/ IsNormal(status[x])
       /\ pc[x] \notin {"none", "ended"} => status[x] = InProgressCsn
       /\ pc[x] \in Scanning \cup {"insert"} => snapCsn[x] # InvalidCsn
       /\ snapCsn[x] <= nextCsn
       /\ IsNormal(status[x]) => status[x] < nextCsn /\ snapCsn[x] <= status[x]

\* The undo log of a transaction in progress has its records, in order.
Logs ==
  /\ \A u \in Usns : LET x == undo[u].xid IN
       /\ status[x] # InvalidCsn /\ snapCsn[x] # InvalidCsn
       /\ status[x] = InProgressCsn => \E i \in DOMAIN undoLog[x] : undoLog[x][i] = u
  /\ \A x \in Xids : \A i \in DOMAIN undoLog[x] :
       /\ undoLog[x][i] \in Usns /\ undo[undoLog[x][i]].xid = x
       /\ \A j \in 1..(i - 1) : undoLog[x][j] < undoLog[x][i]

\* A tuple that is or was at a place: its row, and the record that made it.
TupleAt(t, tup) ==
  /\ tup \in Tuples /\ tup.xid \in Xids /\ tup.val \in Usns /\ tup.undo \in {InvalidUsn} \cup Usns
  /\ rowOf[tup.val] = Row(t)
  /\ LET m == Maker(tup) IN
     /\ undo[m].xid = tup.xid /\ rowOf[m] = Row(t) /\ t \in Spots(m)
     /\ undo[m].type = "Delete" <=> tup.undo = InvalidUsn
     /\ Moved(m) /\ t = undo[m].old => tup.deleted

Placed == \A t \in Places : TupleAt(t, Item(t).tup)

\* A record: its places, its row and the tuple it keeps.
RecordOK(u) ==
  /\ Spots(u) \subseteq Places /\ \A t \in Spots(u) : Row(t) = rowOf[u]
  /\ rowOf[u] <= u
  /\ undo[u].type # "Update" => ~Moved(u)
  /\ undo[u].type = "Delete" => rowOf[u] = u
  /\ undo[u].type # "Delete" => TupleAt(undo[u].old, undo[u].tup) /\ Maker(undo[u].tup) < u
  /\ undo[u].tup.undo < u

Records == \A u \in Usns : RecordOK(u)

\* The place of an insert and the new place of a move were not in use.
Fresh ==
  \A v \in Usns : undo[v].type = "Delete" \/ Moved(v) =>
    \A u \in 1..(v - 1) : undo[v].new \notin Spots(u)

\* The tuple that a scan returned is one of its place, and visible.
Scanned ==
  \A x \in Xids : pc[x] \in Writing =>
    /\ cur[x].tid \in Places /\ ~Item(cur[x].tid).dead
    /\ TupleAt(cur[x].tid, cur[x].tup) /\ TupleVisible(x, cur[x].tup)
    /\ cur[x].tid[1] = pos[x][1] /\ cur[x].tid[2] < pos[x][2]

\* What a statement changed is behind its scan.
Behind ==
  \A x \in Xids : pc[x] \in Scanning =>
    \A u \in Usns : undo[u].xid = x /\ u >= snapCid[x] =>
      undo[u].type # "Delete" /\ undo[u].old[1] = pos[x][1] /\ undo[u].old[2] < pos[x][2]

\* Until its transaction commits, the new place of a move is its own.
NewPlaceOwned ==
  \A w \in Usns : Moved(w) /\ ~IsNormal(status[undo[w].xid]) =>
    /\ \A v \in Usns : undo[w].new \in Spots(v) => undo[v].xid = undo[w].xid
    /\ \A x \in Xids : pc[x] \in Writing /\ cur[x].tid = undo[w].new => x = undo[w].xid

Universal == Shape /\ Lives /\ Logs /\ Placed /\ Records /\ Fresh /\ Scanned /\ Behind /\ NewPlaceOwned

\* Records keep versions that were committed, or the transaction's own.
KeepsCommitted ==
  \A u \in Usns : undo[u].type # "Delete" /\ rowOf[u] \notin clobbered =>
    /\ Foreign(u) => IsNormal(status[undo[u].tup.xid])
    /\ ~undo[u].tup.deleted

\* A version of its own that a statement goes to change is the one on the page.
OwnOnTop ==
  \A x \in Xids : pc[x] \in Writing /\ Row(cur[x].tid) \notin clobbered =>
    /\ ~cur[x].tup.deleted
    /\ cur[x].tup.xid = x => Item(cur[x].tid).tup = cur[x].tup

\* A committed transaction left one version at a place: the tuple on the page, the
\* records of other transactions and the scans tell its versions by the xid.
XidTells ==
  /\ \A v \in Usns : Foreign(v) /\ rowOf[v] \notin clobbered =>
       /\ Item(undo[v].old).tup.xid = undo[v].tup.xid => Item(undo[v].old).tup = undo[v].tup
       /\ \A w \in Usns : Foreign(w) /\ undo[w].old = undo[v].old /\ undo[w].tup.xid = undo[v].tup.xid
            => undo[w].tup = undo[v].tup
  /\ \A x \in Xids : pc[x] \in Writing /\ Row(cur[x].tid) \notin clobbered /\ cur[x].tup.xid # x =>
       /\ Item(cur[x].tid).tup.xid = cur[x].tup.xid => Item(cur[x].tid).tup = cur[x].tup
       /\ \A v \in Usns : Foreign(v) /\ undo[v].old = cur[x].tid /\ undo[v].tup.xid = cur[x].tup.xid
            => undo[v].tup = cur[x].tup

\* The new place of a move dies when the move is undone.
DeadUndone ==
  \A u \in Usns : Moved(u) /\ rowOf[u] \notin clobbered /\ Item(undo[u].new).dead =>
    Item(undo[u].old).tup.undo # u

\* A row lives at one place.
OneLive ==
  \A s, t \in Places : s # t /\ Row(s) = Row(t) /\ Row(s) \notin clobbered => Gone(s) \/ Gone(t)

\* What a transaction changed and did not undo is its own.
ChangesKept ==
  \A u \in Usns : LET x == undo[u].xid IN
    /\ undo[u].type # "Delete" /\ rowOf[u] \notin clobbered /\ status[x] = InProgressCsn
    /\ \/ x \notin failed /\ (pc[x] = "undo" => u \in Pending(x))
       \/ pc[x] \in Scanning /\ u >= snapCid[x]
    => \A t \in Spots(u) : ~Item(t).dead /\ Item(t).tup.xid = x /\ Item(t).tup.undo >= u

\* The second record of a transaction at a place keeps the version of the first.
Nested ==
  \A v \in Usns : LET x == undo[v].xid IN
    undo[v].type # "Delete" /\ rowOf[v] \notin clobbered /\ x \notin failed =>
      \A u \in 1..(v - 1) :
        undo[u].xid = x /\ undo[u].type # "Delete" /\ undo[v].old \in Spots(u) =>
          undo[v].tup.xid = x /\ undo[v].tup.undo >= u

\* A ROLLBACK leaves nothing behind that it has passed.
UndoneGone ==
  \A x \in Xids : pc[x] = "undo" =>
    \A t \in Places : LET tup == Item(t).tup IN
      ~Item(t).dead /\ Row(t) \notin clobbered /\ tup.xid = x /\ tup.undo # InvalidUsn =>
        tup.undo \in Pending(x)

\* What an aborted transaction left on the pages are the rows it inserted.
Restored ==
  \A t \in Places : LET tup == Item(t).tup IN
    ~Item(t).dead /\ status[tup.xid] = AbortedCsn /\ Row(t) \notin clobbered => tup.undo = InvalidUsn

\* ChangedOnce, during the waits too.
OncePerStatement ==
  \A x \in Xids : pc[x] \in Scanning =>
    \A u, v \in Usns :
      /\ undo[u].xid = x /\ undo[v].xid = x /\ rowOf[u] = rowOf[v]
      /\ u >= snapCid[x] /\ v >= snapCid[x] /\ rowOf[u] \notin clobbered
      => u = v

Intact(r) == r \notin clobbered \cup HalfUndone

\* Of two standing changes of a row, the later one was made in sight of the earlier.
InSight ==
  \A v \in Usns : \A u \in 1..(v - 1) :
    rowOf[u] = rowOf[v] /\ Intact(rowOf[v]) /\ undo[u].xid # undo[v].xid /\ Stands(u) /\ Stands(v)
      => Visible(status[undo[u].xid], undo[v].xid)

\* The page shows the last of the standing changes, a record keeps the last before it.
LastOnTop ==
  /\ \A t \in Places : ~Gone(t) /\ Intact(Row(t)) =>
       \A u \in Usns : rowOf[u] = Row(t) /\ Stands(u) => u <= Maker(Item(t).tup)
  /\ \A v \in Usns : Stands(v) /\ Intact(rowOf[v]) =>
       \A u \in 1..(v - 1) : rowOf[u] = rowOf[v] /\ Stands(u) => u <= Maker(undo[v].tup)

\* What < on the naturals means to the theorems on well-founded relations.
LEMMA LessRelation == \A x, y \in Nat : <<y, x>> \in OpToRel(<, Nat) <=> y < x
<1>. SUFFICES ASSUME NEW x \in Nat, NEW y \in Nat PROVE <<y, x>> \in OpToRel(<, Nat) <=> y < x
  BY Zenon
<1>1. <<y, x>> \in Nat \X Nat /\ <<y, x>>[1] = y /\ <<y, x>>[2] = x
  OBVIOUS
<1>2. <<y, x>> \in OpToRel(<, Nat) <=> <<y, x>>[1] < <<y, x>>[2]
  BY <1>1, Zenon DEF OpToRel
<1>. QED
  BY <1>1, <1>2, Zenon

\* A set of naturals that is not empty has a least element, which Min returns.
LEMMA LeastNatural ==
  ASSUME NEW T, T \subseteq Nat, T # {}
  PROVE  Min(T) \in T /\ \A y \in T : Min(T) <= y
<1>1. IsWellFoundedOn(OpToRel(<, Nat), Nat)
  BY NatLessThanWellFounded, Zenon
<1>2. PICK x \in T : \A y \in T : <<y, x>> \notin OpToRel(<, Nat)
  BY <1>1, WFMin, Zenon
<1>3. \A y \in T : ~(y < x)
  BY <1>2, LessRelation, Zenon
<1>4. \A y \in T : x <= y
  BY <1>3, SMT
<1>. QED
  BY <1>4, Zenon DEF Min

-----------------------------------------------------------------------------
(* The version that a statement sees                                        *)

\* Sequences, element by element.
LEMMA SeqElem == ASSUME NEW S, NEW s \in Seq(S) PROVE
  /\ Len(s) \in Nat /\ DOMAIN s = 1..Len(s)
  /\ \A i \in 1..Len(s) : s[i] \in S
  OBVIOUS

\* A longer sequence.
LEMMA SeqAppend == ASSUME NEW S, NEW s \in Seq(S), NEW e \in S PROVE
  /\ Append(s, e) \in Seq(S) /\ Len(Append(s, e)) = Len(s) + 1
  /\ Append(s, e)[Len(s) + 1] = e /\ \A i \in 1..Len(s) : Append(s, e)[i] = s[i]
  /\ DOMAIN Append(s, e) = 1..(Len(s) + 1)
  OBVIOUS

\* The types of the undo log and of the table.
LEMMA UndoTypes ==
  ASSUME TypeOK
  PROVE  /\ Len(undo) \in Nat /\ Usns = 1..Len(undo) /\ Len(rowOf) = Len(undo)
         /\ undo \in Seq([xid : Xids, type : {"Delete", "Update", "Insert"},
              old : (0..MaxPages) \X (0..RowsPerPage), new : (0..MaxPages) \X (0..RowsPerPage), tup : Tuples])
         /\ \A u \in Usns :
              /\ undo[u].xid \in Xids /\ undo[u].type \in {"Delete", "Update", "Insert"}
              /\ undo[u].tup \in Tuples /\ undo[u].tup.undo \in Nat
              /\ undo[u].old \in (0..MaxPages) \X (0..RowsPerPage)
              /\ undo[u].new \in (0..MaxPages) \X (0..RowsPerPage)
         /\ rowOf \in Seq(1..MaxUsn) /\ \A u \in Usns : rowOf[u] \in 1..MaxUsn
<1>. DEFINE Tids == (0..MaxPages) \X (0..RowsPerPage)
            R == [xid : Xids, type : {"Delete", "Update", "Insert"}, old : Tids, new : Tids, tup : Tuples]
<1>1. undo \in Seq(R) /\ rowOf \in Seq(1..MaxUsn) /\ Len(rowOf) = Len(undo)
  BY DEF TypeOK, Tuples
<1>. HIDE DEF R
<1>2. Len(undo) \in Nat /\ Usns = 1..Len(undo) /\ \A u \in Usns : undo[u] \in R
  BY <1>1, SeqElem DEF Usns
<1>3. \A u \in Usns : rowOf[u] \in 1..MaxUsn
  BY <1>1, <1>2, SeqElem
<1>. USE DEF R
<1>4. \A u \in Usns : undo[u].tup \in Tuples /\ undo[u].tup.undo \in Nat
  BY <1>2 DEF Tuples
<1>. QED
  BY <1>1, <1>2, <1>3, <1>4

\* The numbers of the records.
LEMMA UsnTypes ==
  ASSUME TypeOK
  PROVE  /\ Len(undo) \in Nat /\ Usns = 1..Len(undo) /\ Len(rowOf) = Len(undo)
         /\ \A u \in Usns : undo[u].xid \in Xids /\ undo[u].tup.undo \in Nat /\ rowOf[u] \in Nat
<1>1. /\ Len(undo) \in Nat /\ Usns = 1..Len(undo) /\ Len(rowOf) = Len(undo)
      /\ \A u \in Usns : undo[u].xid \in Xids /\ undo[u].tup.undo \in Nat /\ rowOf[u] \in 1..MaxUsn
  BY UndoTypes
<1>. QED
  BY <1>1

\* The search of find_visible_tuple_page comes to an end: FindVersion is the
\* function that its equation describes.
LEMMA SearchEnds ==
  ASSUME TypeOK, Records, NEW x
  PROVE  \E f :
    /\ \A u \in 0..Len(undo) :
         f[u] = IF u = InvalidUsn \/ undo[u].type = "Delete" \/ undo[u].old # undo[u].new THEN NoTuple
                ELSE IF TupleVisible(x, undo[u].tup) THEN undo[u].tup
                ELSE f[undo[u].tup.undo]
    /\ \A usn : FindVersion(x, usn) = f[usn]
<1>. DEFINE Body(f, u) ==
       IF u = InvalidUsn \/ undo[u].type = "Delete" \/ undo[u].old # undo[u].new THEN NoTuple
       ELSE IF TupleVisible(x, undo[u].tup) THEN undo[u].tup
       ELSE f[undo[u].tup.undo]
            T == {n \in 0..Len(undo) : ~ \E f : f = [u \in 0..n |-> Body(f, u)]}
<1>1. Len(undo) \in Nat /\ \A u \in 1..Len(undo) : undo[u].tup.undo \in 0..(u - 1)
  <2>1. \A u \in Usns : undo[u].tup.undo < u
    BY DEF Records, RecordOK
  <2>. QED
    BY <2>1, UsnTypes
<1>2. T = {}
  <2>. SUFFICES ASSUME T # {} PROVE FALSE
    OBVIOUS
  <2>1. T \subseteq Nat
    BY <1>1
  <2>2. PICK n \in T : \A k \in T : n <= k
    BY <2>1, LeastNatural
  <2>3. n \in 0..Len(undo) /\ ~ \E f : f = [u \in 0..n |-> Body(f, u)]
    OBVIOUS
  <2>6. \A k \in 0..Len(undo) : k \notin T => \E f : f = [u \in 0..k |-> Body(f, u)]
    OBVIOUS
  <2>. HIDE DEF T
  <2>4. CASE n = 0
    <3>. DEFINE f == [u \in 0..0 |-> NoTuple]
    <3>1. \A u \in 0..0 : u = InvalidUsn
      BY DEF InvalidUsn
    <3>2. \A u \in 0..0 : Body(f, u) = NoTuple
      BY <3>1, Zenon
    <3>3. [u \in 0..0 |-> Body(f, u)] = [u \in 0..0 |-> NoTuple]
      BY <3>2, Zenon
    <3>. QED
      BY <3>3, <2>3, <2>4, Zenon
  <2>5. CASE n # 0
    <3>1. n - 1 \in 0..Len(undo) /\ n - 1 \notin T /\ n \in Nat
      BY <2>2, <2>3, <2>5, <1>1
    <3>2. PICK g : g = [u \in 0..(n - 1) |-> Body(g, u)]
      BY <3>1, <2>6, Zenon
    <3>. DEFINE f == [u \in 0..n |-> IF u = n THEN Body(g, n) ELSE g[u]]
    <3>3. \A u \in 0..n : u # InvalidUsn => undo[u].tup.undo \in 0..(n - 1) /\ f[undo[u].tup.undo] = g[undo[u].tup.undo]
      BY <1>1, <2>3, <3>1 DEF InvalidUsn
    <3>4. \A u \in 0..n : Body(f, u) = Body(g, u)
      BY <3>3
    <3>7. \A u \in 0..n : u = n \/ u \in 0..(n - 1)
      BY <3>1
    <3>8. \A u \in 0..(n - 1) : g[u] = Body(g, u)
      BY <3>2, Zenon
    <3>5. \A u \in 0..n : f[u] = Body(g, u)
      BY <3>7, <3>8, Zenon
    <3>6. f = [u \in 0..n |-> Body(f, u)]
      BY <3>4, <3>5
    <3>. QED
      BY <3>6, <2>3
  <2>. QED
    BY <2>4, <2>5
<1>3. \E f : f = [u \in 0..Len(undo) |-> Body(f, u)]
  BY <1>1, <1>2, SMTT(30)
<1>. DEFINE find == CHOOSE f : f = [u \in 0..Len(undo) |-> Body(f, u)]
<1>4. find = [u \in 0..Len(undo) |-> Body(find, u)]
  BY <1>3, Zenon
<1>5. \A usn : FindVersion(x, usn) = find[usn]
  BY Zenon DEF FindVersion
<1>6. \A u \in 0..Len(undo) : find[u] = Body(find, u)
  BY <1>4, Zenon
<1>. QED
  BY <1>5, <1>6, Zenon

\* What the search returns: a visible version that a record of the place keeps,
\* behind a change that is not visible.
LEMMA SearchFinds ==
  ASSUME TypeOK, Records, NEW x, NEW usn \in 0..Len(undo), FindVersion(x, usn) # NoTuple
  PROVE  /\ usn # InvalidUsn /\ ~Moved(usn)
         /\ \E u \in Usns :
              /\ FindVersion(x, usn) = undo[u].tup /\ TupleVisible(x, undo[u].tup)
              /\ undo[u].type # "Delete" /\ ~Moved(u) /\ undo[u].old = undo[usn].old
              /\ u = usn \/ ~Belongs(x, u)
<1>1. PICK f :
        /\ \A u \in 0..Len(undo) :
             f[u] = IF u = InvalidUsn \/ undo[u].type = "Delete" \/ undo[u].old # undo[u].new THEN NoTuple
                    ELSE IF TupleVisible(x, undo[u].tup) THEN undo[u].tup
                    ELSE f[undo[u].tup.undo]
        /\ \A n : FindVersion(x, n) = f[n]
  BY SearchEnds, ZenonT(30)
<1>. DEFINE Good(n) == f[n] # NoTuple =>
              /\ n # InvalidUsn /\ undo[n].old = undo[n].new
              /\ \E u \in Usns :
                   /\ f[n] = undo[u].tup /\ TupleVisible(x, undo[u].tup)
                   /\ undo[u].type # "Delete" /\ undo[u].old = undo[u].new /\ undo[u].old = undo[n].old
                   /\ u = n \/ ~Belongs(x, u)
            T == {n \in 0..Len(undo) : ~Good(n)}
<1>2. T = {}
  <2>. SUFFICES ASSUME T # {} PROVE FALSE
    OBVIOUS
  <2>1. T \subseteq Nat
    BY UsnTypes
  <2>2. PICK n \in T : \A k \in T : n <= k
    BY <2>1, LeastNatural
  <2>3. n \in 0..Len(undo) /\ ~Good(n) /\ n \in Nat
    BY <2>1
  <2>4. \A k \in 0..Len(undo) : k < n => Good(k)
    <3>. HIDE DEF T, Good
    <3>1. \A k \in T : k \in Nat /\ n <= k
      BY <2>1, <2>2
    <3>2. \A k \in T : ~(k < n)
      BY <2>3, <3>1
    <3>3. \A k \in 0..Len(undo) : k \notin T => Good(k)
      BY DEF T
    <3>. QED
      BY <3>2, <3>3
  <2>. HIDE DEF T
  <2>5. /\ f[n] # NoTuple /\ n # InvalidUsn /\ undo[n].type # "Delete" /\ undo[n].old = undo[n].new
        /\ n \in Usns
    BY <2>3, <1>1, UsnTypes DEF InvalidUsn
  <2>6. CASE TupleVisible(x, undo[n].tup)
    BY <2>3, <2>5, <2>6, <1>1
  <2>7. CASE ~TupleVisible(x, undo[n].tup)
    <3>. DEFINE k == undo[n].tup.undo
    <3>1. f[n] = f[k]
      BY <2>3, <2>5, <2>7, <1>1
    <3>2. k \in 0..Len(undo) /\ k < n /\ TupleAt(undo[n].old, undo[n].tup)
      BY <2>3, <2>5, UsnTypes DEF Records, RecordOK
    <3>3. Good(k) /\ f[k] # NoTuple
      BY <3>1, <3>2, <2>4, <2>5
    <3>4. k # InvalidUsn /\ k \in Usns
      BY <3>3, <3>2, UsnTypes DEF InvalidUsn
    <3>5. undo[k].xid = undo[n].tup.xid /\ undo[n].old \in Spots(k)
      BY <3>2, <3>4 DEF TupleAt, Maker
    <3>6. undo[k].old = undo[n].old
      BY <3>5, <3>3 DEF Spots
    <3>7. ~Belongs(x, k)
      BY <2>7, <3>5 DEF Belongs, TupleVisible
    <3>8. Good(n)
      <4>1. PICK u \in Usns :
              /\ f[k] = undo[u].tup /\ TupleVisible(x, undo[u].tup)
              /\ undo[u].type # "Delete" /\ undo[u].old = undo[u].new /\ undo[u].old = undo[k].old
              /\ u = k \/ ~Belongs(x, u)
        BY <3>3
      <4>. QED
        BY <4>1, <3>1, <3>6, <3>7, <2>5
    <3>. QED
      BY <3>8, <2>3
  <2>. QED
    BY <2>6, <2>7
<1>3. Good(usn) /\ f[usn] # NoTuple
  BY <1>1, <1>2
<1>4. FindVersion(x, usn) = f[usn]
  BY <1>1
<1>. QED
  BY <1>3, <1>4 DEF Moved

\* The version of an item that a statement sees: the tuple on the page, or one that
\* a record of the place keeps behind a change that is not visible.
LEMMA VersionFound ==
  ASSUME TypeOK, Records, Placed, NEW x, NEW t \in Places, Version(x, Item(t)) # NoTuple
  PROVE  LET V == Version(x, Item(t)) IN
         /\ ~Item(t).dead /\ TupleVisible(x, V)
         /\ \/ V = Item(t).tup /\ ~Item(t).tup.deleted
            \/ \E u \in Usns :
                 /\ V = undo[u].tup /\ undo[u].type # "Delete" /\ ~Moved(u) /\ undo[u].old = t
                 /\ ~Belongs(x, u)
<1>. DEFINE top == Item(t).tup
<1>1. ~Item(t).dead
  BY Zenon DEF Version
<1>2. CASE TupleVisible(x, top)
  BY <1>1, <1>2, Zenon DEF Version
<1>3. CASE ~TupleVisible(x, top)
  <2>1. Version(x, Item(t)) = FindVersion(x, top.undo)
    BY <1>1, <1>3, Zenon DEF Version
  <2>2. TupleAt(t, top) /\ top.undo \in 0..Len(undo)
    BY UsnTypes DEF Placed, TupleAt, InvalidUsn
  <2>3. PICK u \in Usns :
          /\ FindVersion(x, top.undo) = undo[u].tup /\ TupleVisible(x, undo[u].tup)
          /\ undo[u].type # "Delete" /\ ~Moved(u) /\ undo[u].old = undo[top.undo].old
          /\ u = top.undo \/ ~Belongs(x, u)
    BY <2>1, <2>2, SearchFinds
  <2>4. top.undo # InvalidUsn /\ ~Moved(top.undo)
    BY <2>1, <2>2, SearchFinds
  <2>5. undo[top.undo].xid = top.xid /\ t \in Spots(top.undo)
    BY <2>2, <2>4 DEF TupleAt, Maker
  <2>6. undo[u].old = t
    BY <2>3, <2>4, <2>5 DEF Spots, Moved
  <2>7. ~Belongs(x, top.undo)
    BY <1>3, <2>5 DEF Belongs, TupleVisible
  <2>. QED
    BY <1>1, <2>1, <2>3, <2>6, <2>7
<1>. QED
  BY <1>2, <1>3

-----------------------------------------------------------------------------
(* Changes of the table, place by place                                     *)

\* An element of a sequence is replaced.
LEMMA SeqUpdate == ASSUME NEW S, NEW s \in Seq(S), NEW i \in 1..Len(s), NEW e \in S PROVE
  /\ [s EXCEPT ![i] = e] \in Seq(S)
  /\ DOMAIN [s EXCEPT ![i] = e] = DOMAIN s /\ Len([s EXCEPT ![i] = e]) = Len(s)
  /\ \A j \in DOMAIN s : j # i => [s EXCEPT ![i] = e][j] = s[j]
  /\ [s EXCEPT ![i] = e][i] = e
  OBVIOUS

\* The pages of a table.
LEMMA TablePages ==
  ASSUME NEW ps \in Tables
  PROVE  /\ ps \in Seq(Seq(Items)) /\ Len(ps) \in Nat /\ Len(ps) <= MaxPages /\ DOMAIN ps = 1..Len(ps)
         /\ MaxPages \in Nat /\ RowsPerPage \in Nat /\ RowsPerPage > 0
         /\ \A p \in DOMAIN ps : /\ ps[p] \in Seq(Items) /\ Len(ps[p]) \in Nat /\ Len(ps[p]) <= RowsPerPage
                                 /\ DOMAIN ps[p] = 1..Len(ps[p])
                                 /\ \A i \in DOMAIN ps[p] : ps[p][i] \in Items /\ <<p, i>> \in PlacesOf(ps)
         /\ \A t \in PlacesOf(ps) : /\ t[1] \in DOMAIN ps /\ t[2] \in DOMAIN ps[t[1]] /\ t = <<t[1], t[2]>>
                                    /\ t[1] \in Nat /\ t[2] \in Nat /\ ps[t[1]][t[2]] \in Items
<1>1. ps \in Seq(Seq(Items)) /\ Len(ps) <= MaxPages /\ \A p \in DOMAIN ps : Len(ps[p]) <= RowsPerPage
  BY Zenon DEF Tables
<1>2. MaxPages \in Nat /\ RowsPerPage \in Nat /\ RowsPerPage > 0
  BY HeapAssumption
<1>3. Len(ps) \in Nat /\ DOMAIN ps = 1..Len(ps) /\ \A p \in DOMAIN ps : ps[p] \in Seq(Items)
  BY <1>1, SeqElem, Zenon
<1>4. \A p \in DOMAIN ps : /\ Len(ps[p]) \in Nat /\ DOMAIN ps[p] = 1..Len(ps[p])
                           /\ \A i \in DOMAIN ps[p] : ps[p][i] \in Items
  BY <1>3, SeqElem, Zenon
<1>5. \A p \in DOMAIN ps : \A i \in DOMAIN ps[p] : <<p, i>> \in PlacesOf(ps)
  BY <1>1, <1>2, <1>3, <1>4 DEF PlacesOf
<1>6. \A t \in PlacesOf(ps) : /\ t[1] \in DOMAIN ps /\ t[2] \in DOMAIN ps[t[1]] /\ t = <<t[1], t[2]>>
                              /\ t[1] \in Nat /\ t[2] \in Nat
  BY <1>2, <1>3 DEF PlacesOf
<1>. QED
  BY <1>1, <1>2, <1>3, <1>4, <1>5, <1>6

\* Tables that differ in the item of place t, and in one more item at place t.
ReplacedAt(ps, qs, t, it) ==
  /\ qs \in Tables /\ PlacesOf(qs) = PlacesOf(ps) /\ Len(qs) = Len(ps)
  /\ \A p \in DOMAIN ps : Len(qs[p]) = Len(ps[p])
  /\ qs[t[1]][t[2]] = it
  /\ \A s \in PlacesOf(ps) : s # t => qs[s[1]][s[2]] = ps[s[1]][s[2]]

AddedAt(ps, qs, t, it) ==
  /\ qs \in Tables /\ PlacesOf(qs) = PlacesOf(ps) \cup {t} /\ t \notin PlacesOf(ps)
  /\ qs[t[1]][t[2]] = it
  /\ \A s \in PlacesOf(ps) : qs[s[1]][s[2]] = ps[s[1]][s[2]]

\* The item of one place is replaced.
LEMMA ItemReplaced ==
  ASSUME NEW ps \in Tables, NEW t \in PlacesOf(ps), NEW it \in Items
  PROVE  ReplacedAt(ps, [ps EXCEPT ![t[1]][t[2]] = it], t, it)
<1>. DEFINE p == t[1]  i == t[2]  page == [ps[p] EXCEPT ![i] = it]
            qs == [ps EXCEPT ![t[1]][t[2]] = it]
<1>1. p \in 1..Len(ps) /\ ps[p] \in Seq(Items) /\ i \in 1..Len(ps[p]) /\ ps \in Seq(Seq(Items))
  BY TablePages
<1>2. qs = [ps EXCEPT ![p] = page]
  BY Zenon
<1>3. /\ page \in Seq(Items) /\ DOMAIN page = DOMAIN ps[p] /\ Len(page) = Len(ps[p]) /\ page[i] = it
      /\ \A j \in DOMAIN ps[p] : j # i => page[j] = ps[p][j]
  BY <1>1, SeqUpdate
<1>. HIDE DEF page, qs
<1>4. /\ qs \in Seq(Seq(Items)) /\ DOMAIN qs = DOMAIN ps /\ Len(qs) = Len(ps) /\ qs[p] = page
      /\ \A j \in DOMAIN ps : j # p => qs[j] = ps[j]
  BY <1>1, <1>2, <1>3, SeqUpdate
<1>5. \A j \in DOMAIN ps : DOMAIN qs[j] = DOMAIN ps[j] /\ Len(qs[j]) = Len(ps[j])
  BY <1>3, <1>4
<1>6. qs \in Tables
  BY <1>4, <1>5 DEF Tables
<1>7. PlacesOf(qs) = PlacesOf(ps)
  BY <1>4, <1>5 DEF PlacesOf
<1>8. \A s \in PlacesOf(ps) : s # t => qs[s[1]][s[2]] = ps[s[1]][s[2]]
  <2>. SUFFICES ASSUME NEW s \in PlacesOf(ps), s # t PROVE qs[s[1]][s[2]] = ps[s[1]][s[2]]
    OBVIOUS
  <2>1. s[1] \in DOMAIN ps /\ s[2] \in DOMAIN ps[s[1]] /\ s = <<s[1], s[2]>> /\ t = <<t[1], t[2]>>
    BY TablePages
  <2>2. CASE s[1] # p
    BY <2>1, <2>2, <1>4
  <2>3. CASE s[1] = p
    <3>1. s[2] # i
      BY <2>1, <2>3
    <3>. QED
      BY <2>1, <2>3, <3>1, <1>3, <1>4
  <2>. QED
    BY <2>2, <2>3
<1>. QED
  BY <1>3, <1>4, <1>5, <1>6, <1>7, <1>8 DEF ReplacedAt, qs

\* A page gets one more item.
LEMMA ItemAdded ==
  ASSUME NEW ps \in Tables, NEW p \in DOMAIN ps, Len(ps[p]) < RowsPerPage, NEW it \in Items
  PROVE  LET qs == [ps EXCEPT ![p] = Append(@, it)] IN
         AddedAt(ps, qs, <<p, Len(ps[p]) + 1>>, it) /\ Len(qs) = Len(ps)
<1>. DEFINE n == Len(ps[p]) + 1  page == Append(ps[p], it)  new == <<p, n>>
            qs == [ps EXCEPT ![p] = Append(@, it)]
<1>1. /\ p \in 1..Len(ps) /\ ps[p] \in Seq(Items) /\ ps \in Seq(Seq(Items)) /\ n \in Nat /\ n <= RowsPerPage
      /\ Len(ps) \in Nat /\ p <= MaxPages /\ DOMAIN ps[p] = 1..(n - 1) /\ n - 1 \in Nat
      /\ RowsPerPage \in Nat /\ MaxPages \in Nat
  BY TablePages
<1>2. qs = [ps EXCEPT ![p] = page]
  BY Zenon
<1>3. /\ page \in Seq(Items) /\ DOMAIN page = 1..n /\ Len(page) = n /\ page[n] = it
      /\ \A j \in DOMAIN ps[p] : page[j] = ps[p][j]
  BY <1>1, SeqAppend
<1>. HIDE DEF page, qs
<1>4. /\ qs \in Seq(Seq(Items)) /\ DOMAIN qs = DOMAIN ps /\ Len(qs) = Len(ps) /\ qs[p] = page
      /\ \A j \in DOMAIN ps : j # p => qs[j] = ps[j]
  BY <1>1, <1>2, <1>3, SeqUpdate
<1>5. qs \in Tables
  <2>1. \A j \in DOMAIN qs : Len(qs[j]) <= RowsPerPage
    BY <1>1, <1>3, <1>4, TablePages
  <2>2. Len(qs) <= MaxPages
    BY <1>4, TablePages
  <2>. QED
    BY <1>4, <2>1, <2>2 DEF Tables
<1>6. PlacesOf(qs) = PlacesOf(ps) \cup {new} /\ new \notin PlacesOf(ps)
  <2>. HIDE DEF n
  <2>1. new \in (1..MaxPages) \X (1..RowsPerPage) /\ new[1] = p /\ new[2] = n
    BY <1>1 DEF n
  <2>2. new \in PlacesOf(qs) /\ new \notin PlacesOf(ps)
    BY <2>1, <1>1, <1>3, <1>4 DEF PlacesOf
  <2>3. \A s \in PlacesOf(ps) : s \in PlacesOf(qs)
    <3>1. \A j \in DOMAIN ps : DOMAIN ps[j] \subseteq DOMAIN qs[j]
      <4>1. 1..(n - 1) \subseteq 1..n
        BY <1>1
      <4>2. DOMAIN ps[p] \subseteq DOMAIN qs[p]
        BY <4>1, <1>1, <1>3, <1>4, Zenon
      <4>. QED
        BY <4>2, <1>4
    <3>. QED
      BY <3>1, <1>4 DEF PlacesOf
  <2>4. ASSUME NEW s \in PlacesOf(qs), s \notin PlacesOf(ps) PROVE s = new
    <3>1. s \in (1..MaxPages) \X (1..RowsPerPage) /\ s[1] \in DOMAIN qs /\ s[2] \in DOMAIN qs[s[1]]
      BY DEF PlacesOf
    <3>2. s = <<s[1], s[2]>> /\ s[2] \in Int
      BY <3>1, <1>1
    <3>3. s[1] \notin DOMAIN ps \/ s[2] \notin DOMAIN ps[s[1]]
      BY <2>4, <3>1 DEF PlacesOf
    <3>4. s[1] = p
      BY <3>1, <3>3, <1>4
    <3>5. s[2] = n
      BY <3>1, <3>2, <3>3, <3>4, <1>1, <1>3, <1>4
    <3>. QED
      BY <3>2, <3>4, <3>5 DEF n
  <2>. QED
    BY <2>2, <2>3, <2>4
<1>7. \A s \in PlacesOf(ps) : qs[s[1]][s[2]] = ps[s[1]][s[2]]
  <2>1. \A s \in PlacesOf(ps) : s[1] \in DOMAIN ps /\ s[2] \in DOMAIN ps[s[1]]
    BY TablePages
  <2>2. \A j \in DOMAIN ps : \A k \in DOMAIN ps[j] : qs[j][k] = ps[j][k]
    BY <1>3, <1>4
  <2>. QED
    BY <2>1, <2>2
<1>. QED
  BY <1>3, <1>4, <1>5, <1>6, <1>7 DEF AddedAt, qs

\* The table gets one more page, with an item.
LEMMA PageAdded ==
  ASSUME NEW ps \in Tables, Len(ps) < MaxPages, NEW it \in Items
  PROVE  LET qs == Append(ps, <<it>>) IN
         AddedAt(ps, qs, <<Len(ps) + 1, 1>>, it) /\ Len(qs) = Len(ps) + 1
<1>. DEFINE n == Len(ps) + 1  page == <<it>>  new == <<n, 1>>
            qs == Append(ps, page)
<1>1. /\ ps \in Seq(Seq(Items)) /\ n \in Nat /\ n <= MaxPages /\ n - 1 \in Nat /\ DOMAIN ps = 1..(n - 1)
      /\ RowsPerPage \in Nat /\ RowsPerPage > 0 /\ MaxPages \in Nat
  BY TablePages
<1>2. page \in Seq(Items) /\ Len(page) = 1 /\ DOMAIN page = 1..1 /\ page[1] = it
  OBVIOUS
<1>. HIDE DEF page
<1>3. /\ qs \in Seq(Seq(Items)) /\ DOMAIN qs = 1..n /\ Len(qs) = n /\ qs[n] = page
      /\ \A j \in DOMAIN ps : qs[j] = ps[j]
  BY <1>1, <1>2, SeqAppend
<1>. HIDE DEF n, qs
<1>4. qs \in Tables
  <2>1. \A j \in DOMAIN qs : j = n \/ j \in DOMAIN ps
    BY <1>1, <1>3
  <2>2. \A j \in DOMAIN qs : Len(qs[j]) <= RowsPerPage
    <3>1. \A j \in DOMAIN ps : Len(ps[j]) <= RowsPerPage
      BY TablePages
    <3>2. Len(qs[n]) <= RowsPerPage
      <4>1. Len(qs[n]) = 1
        BY <1>2, <1>3
      <4>. QED
        BY <4>1, <1>1
    <3>. QED
      BY <2>1, <3>1, <3>2, <1>3
  <2>. QED
    BY <2>2, <1>1, <1>3 DEF Tables
<1>5. PlacesOf(qs) = PlacesOf(ps) \cup {new} /\ new \notin PlacesOf(ps)
  <2>1. new \in (1..MaxPages) \X (1..RowsPerPage) /\ new[1] = n /\ new[2] = 1
    BY <1>1 DEF n
  <2>2. new \in PlacesOf(qs) /\ new \notin PlacesOf(ps)
    BY <2>1, <1>1, <1>2, <1>3 DEF PlacesOf
  <2>3. \A s \in PlacesOf(ps) : s \in PlacesOf(qs)
    BY <1>1, <1>3 DEF PlacesOf
  <2>4. ASSUME NEW s \in PlacesOf(qs), s \notin PlacesOf(ps) PROVE s = new
    <3>1. s \in (1..MaxPages) \X (1..RowsPerPage) /\ s[1] \in DOMAIN qs /\ s[2] \in DOMAIN qs[s[1]]
      BY DEF PlacesOf
    <3>2. s = <<s[1], s[2]>> /\ s[2] \in Int
      BY <3>1, <1>1
    <3>3. s[1] = n
      BY <2>4, <3>1, <1>1, <1>3, SMTT(30) DEF PlacesOf
    <3>4. s[2] = 1
      BY <3>1, <3>3, <1>2, <1>3
    <3>. QED
      BY <3>2, <3>3, <3>4 DEF n
  <2>. QED
    BY <2>2, <2>3, <2>4
<1>6. \A s \in PlacesOf(ps) : qs[s[1]][s[2]] = ps[s[1]][s[2]]
  BY <1>3, TablePages
<1>. QED
  BY <1>2, <1>3, <1>4, <1>5, <1>6 DEF n, AddedAt, qs, page

\* The tuple of an item is replaced.
LEMMA PutOn ==
  ASSUME NEW ps \in Tables, NEW t \in PlacesOf(ps), NEW tup \in Tuples
  PROVE  ReplacedAt(ps, Put(ps, t, tup), t, [dead |-> ps[t[1]][t[2]].dead, tup |-> tup])
<1>. DEFINE old == ps[t[1]][t[2]]  it == [dead |-> old.dead, tup |-> tup]
<1>1. old \in Items
  BY TablePages
<1>. HIDE DEF old
<1>2. it \in Items /\ it = [old EXCEPT !.tup = tup]
  BY <1>1 DEF Items
<1>3. Put(ps, t, tup) = [ps EXCEPT ![t[1]][t[2]] = [old EXCEPT !.tup = tup]]
  BY Zenon DEF Put, old
<1>. HIDE DEF it
<1>4. Put(ps, t, tup) = [ps EXCEPT ![t[1]][t[2]] = it]
  BY <1>2, <1>3, Zenon
<1>5. ReplacedAt(ps, [ps EXCEPT ![t[1]][t[2]] = it], t, it)
  BY <1>2, ItemReplaced
<1>. QED
  BY <1>4, <1>5, Zenon DEF it, old

\* An item dies.
LEMMA KilledAt ==
  ASSUME NEW ps \in Tables, NEW t \in PlacesOf(ps)
  PROVE  ReplacedAt(ps, [ps EXCEPT ![t[1]][t[2]].dead = TRUE], t, [dead |-> TRUE, tup |-> ps[t[1]][t[2]].tup])
<1>. DEFINE old == ps[t[1]][t[2]]  it == [dead |-> TRUE, tup |-> old.tup]
            qs == [ps EXCEPT ![t[1]][t[2]].dead = TRUE]
<1>1. old \in Items
  BY TablePages
<1>. HIDE DEF old
<1>6. \A d \in BOOLEAN : LET new == [dead |-> d, tup |-> old.tup] IN new \in Items /\ new = [old EXCEPT !.dead = d]
  BY <1>1 DEF Items
<1>2. it \in Items /\ it = [old EXCEPT !.dead = TRUE]
  BY <1>6, Zenon
<1>3. qs = [ps EXCEPT ![t[1]][t[2]] = [old EXCEPT !.dead = TRUE]]
  BY Zenon DEF old
<1>. HIDE DEF it, qs
<1>4. qs = [ps EXCEPT ![t[1]][t[2]] = it]
  BY <1>2, <1>3, Zenon
<1>5. ReplacedAt(ps, [ps EXCEPT ![t[1]][t[2]] = it], t, it)
  BY <1>2, ItemReplaced
<1>. QED
  BY <1>4, <1>5, Zenon DEF it, old, qs

-----------------------------------------------------------------------------
(* What the steps that change the table do                                  *)

\* The undo log and the observation that goes with it.
LogTypes ==
  /\ undo \in Seq([xid : Xids, type : {"Delete", "Update", "Insert"},
       old : (0..MaxPages) \X (0..RowsPerPage), new : (0..MaxPages) \X (0..RowsPerPage), tup : Tuples])
  /\ rowOf \in Seq(1..MaxUsn) /\ Len(rowOf) = Len(undo)

\* One record more, which is number u.
RecordAdded(u) ==
  /\ LogTypes'
  /\ u = Len(undo) + 1 /\ u \in 1..MaxUsn /\ u \notin Usns /\ Usns' = Usns \cup {u} /\ Usns' = 1..u
  /\ Len(undo') = Len(undo) + 1
  /\ \A v \in Usns : undo'[v] = undo[v] /\ rowOf'[v] = rowOf[v]

\* Transaction x inserts a row at place n.
InsertEffect(x, u, n) ==
  /\ RecordAdded(u) /\ rowOf'[u] = u
  /\ undo'[u] = [xid |-> x, type |-> "Delete", old |-> n, new |-> n, tup |-> NoTuple]
  /\ undoLog' = [undoLog EXCEPT ![x] = Append(@, u)]
  /\ n \notin Places /\ Places' = Places \cup {n} /\ pages' \in Tables /\ Len(pages) <= Len(pages')
  /\ n \in Places' /\ Item(n)' = [dead |-> FALSE, tup |-> Tuple(x, InvalidUsn, FALSE, u)]
  /\ \A s \in Places : Item(s)' = Item(s)

\* Transaction x changes the row at place c, which moves to n unless n is c.
WriteEffect(x, u, c, n) ==
  /\ RecordAdded(u) /\ rowOf'[u] = Row(c)
  /\ c = cur[x].tid /\ c \in Places
  /\ /\ undo'[u].xid = x /\ undo'[u].old = c /\ undo'[u].new = n
     /\ undo'[u].type \in {"Update", "Insert"} /\ (undo'[u].type = "Insert" => n = c)
     /\ undo'[u].tup \in {cur[x].tup, Item(c).tup}
  /\ undoLog' = [undoLog EXCEPT ![x] = Append(@, u)]
  /\ n = c \/ n \notin Places
  /\ Places' = Places \cup {n} /\ pages' \in Tables /\ Len(pages') = Len(pages)
  /\ \A s \in Places : s # c => Item(s)' = Item(s)
  /\ /\ Item(c)'.dead = Item(c).dead /\ Item(c)'.tup.xid = x /\ Item(c)'.tup.undo = u
     /\ Item(c)'.tup \in Tuples /\ Item(c)'.tup.val \in {u, Item(c).tup.val}
     /\ (n # c => Item(c)'.tup.deleted)
     /\ (n = c => /\ Item(c)'.tup.deleted <=> undo'[u].type = "Insert"
                  /\ ~Item(c)'.tup.deleted => Item(c)'.tup.val = u)
  /\ n # c => n[1] = c[1] /\ Item(n)' = [dead |-> FALSE, tup |-> Tuple(x, u, FALSE, u)]

\* Record u of place o is undone; a row that moved to n is again at o.
UndoEffect(u, o, n) ==
  /\ o = undo[u].old /\ n = undo[u].new /\ undo' = undo /\ rowOf' = rowOf /\ undoLog' = undoLog
  /\ o \in Places /\ n \in Places /\ Places' = Places /\ pages' \in Tables /\ Len(pages') = Len(pages)
  /\ \A s \in Places : s \notin {o, n} => Item(s)' = Item(s)
  /\ \/ Item(o).tup.undo # u /\ undo[u].type # "Update" /\ Item(o)' = Item(o) /\ Item(n)' = Item(n)
     \/ /\ undo[u].type # "Delete" /\ Item(o).tup.undo = u
        /\ Item(o)' = [dead |-> Item(o).dead, tup |-> undo[u].tup]
        /\ n # o => Item(n).tup.undo = u /\ Item(n)' = [dead |-> TRUE, tup |-> Item(n).tup]

\* A record is written.
LEMMA RecordWritten ==
  ASSUME TypeOK, NEW x \in Xids, NEW type \in {"Delete", "Update", "Insert"},
         NEW old \in (0..MaxPages) \X (0..RowsPerPage), NEW new \in (0..MaxPages) \X (0..RowsPerPage),
         NEW tup \in Tuples, NEW row \in 1..MaxUsn, InsertRecord(x, type, old, new, tup, row)
  PROVE  /\ RecordAdded(Len(undo) + 1) /\ rowOf'[Len(undo) + 1] = row
         /\ undo'[Len(undo) + 1] = [xid |-> x, type |-> type, old |-> old, new |-> new, tup |-> tup]
         /\ undoLog' = [undoLog EXCEPT ![x] = Append(@, Len(undo) + 1)]
<1>. DEFINE Tids == (0..MaxPages) \X (0..RowsPerPage)
            R == [xid : Xids, type : {"Delete", "Update", "Insert"}, old : Tids, new : Tids, tup : Tuples]
            rec == [xid |-> x, type |-> type, old |-> old, new |-> new, tup |-> tup]
<1>1. rec \in R /\ undo \in Seq(R)
  BY UndoTypes
<1>2. /\ undo' = Append(undo, rec) /\ rowOf' = Append(rowOf, row) /\ Len(undo) < MaxUsn
      /\ undoLog' = [undoLog EXCEPT ![x] = Append(@, Len(undo) + 1)]
  BY DEF InsertRecord
<1>. HIDE DEF rec, R
<1>3. /\ Len(undo') = Len(undo) + 1 /\ undo'[Len(undo) + 1] = rec /\ DOMAIN undo' = 1..(Len(undo) + 1)
      /\ undo' \in Seq(R)
      /\ \A v \in 1..Len(undo) : undo'[v] = undo[v]
  BY <1>1, <1>2, SeqAppend
<1>4. Len(undo) \in Nat /\ Usns = 1..Len(undo) /\ Len(rowOf) = Len(undo) /\ rowOf \in Seq(1..MaxUsn)
  BY UndoTypes
<1>5. /\ rowOf'[Len(undo) + 1] = row /\ \A v \in 1..Len(undo) : rowOf'[v] = rowOf[v]
      /\ rowOf' \in Seq(1..MaxUsn) /\ Len(rowOf') = Len(rowOf) + 1
  BY <1>2, <1>4, SeqAppend
<1>6. MaxUsn \in Nat
  BY HeapAssumption
<1>8. LogTypes'
  BY <1>3, <1>4, <1>5, Zenon DEF LogTypes, R
<1>7. RecordAdded(Len(undo) + 1)
  BY <1>2, <1>3, <1>4, <1>5, <1>6, <1>8 DEF RecordAdded, Usns
<1>. QED
  BY <1>2, <1>3, <1>5, <1>7 DEF rec

\* The bounds of the types.
LEMMA Bounds ==
  /\ MaxXid \in Nat /\ MaxUsn \in Nat /\ MaxPages \in Nat /\ RowsPerPage \in Nat /\ RowsPerPage > 0
  /\ Xids = 1..MaxXid
  BY MaxXidAssumption, HeapAssumption DEF Xids

\* A place is one of the tuple ids that the records can hold.
LEMMA PlaceTid == \A t \in (1..MaxPages) \X (1..RowsPerPage) : t \in (0..MaxPages) \X (0..RowsPerPage)
  BY Bounds

\* The page that searchPageFreeSpace returns.
LEMMA FreePageFits ==
  ASSUME Shape
  PROVE  \/ FreePage = Len(pages) + 1
         \/ FreePage \in DOMAIN pages /\ HasRoom(FreePage)
<1>. DEFINE fits == {p \in DOMAIN pages : HasRoom(p)}
<1>1. CASE fits = {}
  BY <1>1 DEF FreePage
<1>2. CASE fits # {}
  <2>1. DOMAIN pages \subseteq Nat
    BY TablePages DEF Shape
  <2>2. Min(fits) \in fits
    BY <1>2, <2>1, LeastNatural
  <2>. QED
    BY <1>2, <2>2, Zenon DEF FreePage
<1>. QED
  BY <1>1, <1>2

\* InsertTuple.
LEMMA InsertDoes ==
  ASSUME TypeOK, Shape, NEW x \in Xids, InsertTuple(x)
  PROVE  \E u, n : InsertEffect(x, u, n)
<1>1. PICK u, p, n, it :
        /\ u = Len(undo) + 1 /\ p = FreePage
        /\ n = <<p, IF p > Len(pages) THEN 1 ELSE Len(pages[p]) + 1>>
        /\ it = [dead |-> FALSE, tup |-> Tuple(x, InvalidUsn, FALSE, u)]
        /\ p <= MaxPages /\ InsertRecord(x, "Delete", n, n, NoTuple, u)
        /\ pages' = IF p > Len(pages) THEN Append(pages, <<it>>) ELSE [pages EXCEPT ![p] = Append(@, it)]
  BY Zenon DEF InsertTuple, OnPageUndo
<1>2. Len(undo) \in Nat /\ Len(undo) < MaxUsn /\ u \in 1..MaxUsn
  BY <1>1, UsnTypes, Bounds DEF InsertRecord
<1>3. pages \in Tables
  BY DEF Shape
<1>4. it \in Items /\ NoTuple \in Tuples
  BY <1>1, <1>2, Bounds DEF Items, Tuples, Tuple, InvalidUsn, NoTuple
<1>5. AddedAt(pages, pages', n, it) /\ Len(pages) <= Len(pages')
  <2>1. CASE p = Len(pages) + 1
    <3>1. p > Len(pages) /\ Len(pages) < MaxPages /\ Len(pages) \in Nat
      BY <2>1, <1>1, <1>3, TablePages
    <3>2. pages' = Append(pages, <<it>>) /\ n = <<Len(pages) + 1, 1>>
      BY <3>1, <1>1, <2>1
    <3>3. AddedAt(pages, pages', n, it) /\ Len(pages') = Len(pages) + 1
      BY <3>1, <3>2, <1>3, <1>4, PageAdded, Zenon
    <3>4. Len(pages) <= Len(pages')
      BY <3>1, <3>3
    <3>. QED
      BY <3>3, <3>4
  <2>2. CASE p \in DOMAIN pages /\ HasRoom(p)
    <3>1. p <= Len(pages) /\ Len(pages[p]) < RowsPerPage
      BY <2>2, <1>3, TablePages DEF HasRoom
    <3>2. ~(p > Len(pages))
      BY <3>1, <2>2, <1>3, TablePages
    <3>3. pages' = [pages EXCEPT ![p] = Append(@, it)] /\ n = <<p, Len(pages[p]) + 1>>
      BY <3>2, <1>1, Zenon
    <3>4. AddedAt(pages, pages', n, it) /\ Len(pages') = Len(pages)
      BY <3>1, <3>3, <2>2, <1>3, <1>4, ItemAdded, Zenon
    <3>5. Len(pages) <= Len(pages')
      BY <3>4, <1>3, TablePages
    <3>. QED
      BY <3>4, <3>5
  <2>. QED
    BY <2>1, <2>2, <1>1, FreePageFits
<1>6. n \in PlacesOf(pages') /\ n \in (0..MaxPages) \X (0..RowsPerPage)
  BY <1>5, PlaceTid DEF PlacesOf, AddedAt
<1>7. /\ RecordAdded(u) /\ rowOf'[u] = u
      /\ undo'[u] = [xid |-> x, type |-> "Delete", old |-> n, new |-> n, tup |-> NoTuple]
      /\ undoLog' = [undoLog EXCEPT ![x] = Append(@, u)]
  <2>1. InsertRecord(x, "Delete", n, n, NoTuple, u) /\ u = Len(undo) + 1
    BY <1>1
  <2>. QED
    BY <2>1, <1>2, <1>4, <1>6, RecordWritten
<1>8. /\ n \notin Places /\ Places' = Places \cup {n} /\ pages' \in Tables /\ n \in Places'
      /\ Item(n)' = it /\ \A s \in Places : Item(s)' = Item(s)
  BY <1>5, <1>6, Zenon DEF Places, Item, AddedAt
<1>9. InsertEffect(x, u, n)
  BY <1>1, <1>5, <1>7, <1>8, Zenon DEF InsertEffect
<1>. QED
  BY <1>9

\* ChangeTuple.
LEMMA WriteDoes ==
  ASSUME TypeOK, Shape, Placed, Scanned, NEW x \in Xids, pc[x] \in Writing, ChangeTuple(x)
  PROVE  \E u, c, n : WriteEffect(x, u, c, n)
<1>1. PICK u, c : u = Len(undo) + 1 /\ c = cur[x].tid
  OBVIOUS
<1>2. c \in Places /\ TupleAt(c, Item(c).tup) /\ TupleAt(c, cur[x].tup) /\ pages \in Tables
  BY <1>1 DEF Scanned, Placed, Shape
<1>3. Len(undo) \in Nat /\ Usns = 1..Len(undo) /\ Len(undo) < MaxUsn /\ u \in 1..MaxUsn
  <2>1. Len(undo) < MaxUsn
    BY Zenon DEF ChangeTuple, UpdateInPlace, UpdateMoved, DeleteTuple, InsertRecord
  <2>. QED
    BY <2>1, <1>1, UsnTypes, Bounds
<1>4. /\ Item(c).tup \in Tuples /\ cur[x].tup \in Tuples /\ Item(c) \in Items
      /\ Item(c).tup.val \in Usns /\ rowOf[Item(c).tup.val] \in 1..MaxUsn /\ Row(c) \in 1..MaxUsn
  BY <1>2, UndoTypes, TablePages DEF TupleAt, Places, Item, Row
<1>5. /\ c \in (0..MaxPages) \X (0..RowsPerPage) /\ c \in PlacesOf(pages)
      /\ OldItem(x) = Item(c) /\ rowOf[OldItem(x).tup.val] = Row(c)
  BY <1>1, <1>2, PlaceTid DEF Places, PlacesOf, OldItem, Row
<1>6. Item(c).tup.val \in 0..MaxUsn /\ Item(c).dead \in BOOLEAN /\ Item(c).tup.deleted \in BOOLEAN
  BY <1>4 DEF Tuples, Items
<1>7. ASSUME NEW tup \in Tuples, pages' = Put(pages, c, tup)
      PROVE  /\ pages' \in Tables /\ Len(pages') = Len(pages) /\ Places' = Places \cup {c}
             /\ Item(c)' = [dead |-> Item(c).dead, tup |-> tup]
             /\ \A s \in Places : s # c => Item(s)' = Item(s)
  <2>1. ReplacedAt(pages, pages', c, [dead |-> Item(c).dead, tup |-> tup])
    BY <1>2, <1>5, <1>7, PutOn, Zenon DEF Item
  <2>2. Places' = Places
    BY <2>1, Zenon DEF Places, ReplacedAt
  <2>3. Places' = Places \cup {c}
    BY <1>2, <2>2
  <2>. QED
    BY <2>1, <2>3, Zenon DEF Places, Item, ReplacedAt
<1>8. CASE UpdateInPlace(x)
  <2>1. PICK tup : tup = Tuple(x, u, FALSE, u)
    OBVIOUS
  <2>2. tup \in Tuples /\ tup.xid = x /\ tup.undo = u /\ tup.val = u /\ ~tup.deleted
    BY <2>1, <1>3, Bounds DEF Tuple, Tuples
  <2>3. InsertRecord(x, "Update", c, c, cur[x].tup, Row(c)) /\ pages' = Put(pages, c, tup)
    BY <1>8, <1>1, <1>5, <2>1 DEF UpdateInPlace
  <2>4. /\ RecordAdded(u) /\ rowOf'[u] = Row(c)
        /\ undo'[u] = [xid |-> x, type |-> "Update", old |-> c, new |-> c, tup |-> cur[x].tup]
        /\ undoLog' = [undoLog EXCEPT ![x] = Append(@, u)]
    BY <2>3, <1>1, <1>4, <1>5, RecordWritten
  <2>5. /\ pages' \in Tables /\ Len(pages') = Len(pages) /\ Places' = Places \cup {c}
        /\ Item(c)' = [dead |-> Item(c).dead, tup |-> tup]
        /\ \A s \in Places : s # c => Item(s)' = Item(s)
    BY <2>2, <2>3, <1>7
  <2>6. Item(c)'.dead = Item(c).dead /\ Item(c)'.tup = tup
    BY <2>5
  <2>7. WriteEffect(x, u, c, c)
    BY <2>2, <2>4, <2>5, <2>6, <1>1, <1>2 DEF WriteEffect
  <2>. QED
    BY <2>7
<1>9. CASE DeleteTuple(x)
  <2>1. PICK tup : tup = Tuple(x, u, TRUE, Item(c).tup.val)
    OBVIOUS
  <2>2. tup \in Tuples /\ tup.xid = x /\ tup.undo = u /\ tup.val = Item(c).tup.val /\ tup.deleted
    BY <2>1, <1>3, <1>6, Bounds DEF Tuple, Tuples
  <2>3. InsertRecord(x, "Insert", c, c, Item(c).tup, Row(c)) /\ pages' = Put(pages, c, tup)
    BY <1>9, <1>1, <1>5, <2>1 DEF DeleteTuple
  <2>4. /\ RecordAdded(u) /\ rowOf'[u] = Row(c)
        /\ undo'[u] = [xid |-> x, type |-> "Insert", old |-> c, new |-> c, tup |-> Item(c).tup]
        /\ undoLog' = [undoLog EXCEPT ![x] = Append(@, u)]
    BY <2>3, <1>1, <1>4, <1>5, RecordWritten
  <2>5. /\ pages' \in Tables /\ Len(pages') = Len(pages) /\ Places' = Places \cup {c}
        /\ Item(c)' = [dead |-> Item(c).dead, tup |-> tup]
        /\ \A s \in Places : s # c => Item(s)' = Item(s)
    BY <2>2, <2>3, <1>7
  <2>6. Item(c)'.dead = Item(c).dead /\ Item(c)'.tup = tup
    BY <2>5
  <2>7. WriteEffect(x, u, c, c)
    BY <2>2, <2>4, <2>5, <2>6, <1>1, <1>2 DEF WriteEffect
  <2>. QED
    BY <2>7
<1>10. CASE UpdateMoved(x)
  <2>1. PICK p, n, tup, moved, mid :
          /\ p = c[1] /\ n = <<p, Len(pages[p]) + 1>> /\ tup = Tuple(x, u, TRUE, Item(c).tup.val)
          /\ moved = [dead |-> FALSE, tup |-> Tuple(x, u, FALSE, u)] /\ mid = Put(pages, c, tup)
    OBVIOUS
  <2>2. tup \in Tuples /\ tup.xid = x /\ tup.undo = u /\ tup.val = Item(c).tup.val /\ tup.deleted
    BY <2>1, <1>3, <1>6, Bounds DEF Tuples, Tuple
  <2>3. moved \in Items
    BY <2>1, <1>3, Bounds DEF Items, Tuples, Tuple
  <2>4. /\ InsertRecord(x, "Update", c, n, cur[x].tup, Row(c))
        /\ pages' = [mid EXCEPT ![p] = Append(@, moved)] /\ HasRoom(p)
    BY <1>10, <1>1, <1>5, <2>1, Zenon DEF UpdateMoved
  <2>5. PICK it : it = [dead |-> Item(c).dead, tup |-> tup]
    OBVIOUS
  <2>6. ReplacedAt(pages, mid, c, it)
    BY <1>2, <1>5, <2>1, <2>2, <2>5, PutOn, Zenon DEF Item
  <2>7. /\ mid \in Tables /\ PlacesOf(mid) = PlacesOf(pages) /\ Len(mid) = Len(pages)
        /\ \A q \in DOMAIN pages : Len(mid[q]) = Len(pages[q])
    BY <2>6 DEF ReplacedAt
  <2>8. p \in DOMAIN pages /\ p \in DOMAIN mid /\ Len(mid[p]) = Len(pages[p]) /\ Len(mid[p]) < RowsPerPage
    BY <1>2, <1>5, <2>1, <2>4, <2>7, TablePages DEF HasRoom
  <2>9. AddedAt(mid, pages', n, moved) /\ Len(pages') = Len(mid)
    <3>1. n = <<p, Len(mid[p]) + 1>>
      BY <2>1, <2>8
    <3>. QED
      BY <2>3, <2>4, <2>7, <2>8, <3>1, ItemAdded, Zenon
  <2>10. n \in (0..MaxPages) \X (0..RowsPerPage)
    <3>1. n \in PlacesOf(pages')
      BY <2>9 DEF AddedAt
    <3>. QED
      BY <3>1, PlaceTid DEF PlacesOf
  <2>11. /\ RecordAdded(u) /\ rowOf'[u] = Row(c)
         /\ undo'[u] = [xid |-> x, type |-> "Update", old |-> c, new |-> n, tup |-> cur[x].tup]
         /\ undoLog' = [undoLog EXCEPT ![x] = Append(@, u)]
    BY <2>4, <2>10, <1>1, <1>4, <1>5, RecordWritten
  <2>12. /\ Places' = Places \cup {n} /\ n \notin Places /\ Item(n)' = moved
         /\ Item(c)' = it /\ (\A s \in Places : s # c => Item(s)' = Item(s)) /\ pages' \in Tables
    <3>1. mid[c[1]][c[2]] = it /\ \A s \in PlacesOf(pages) : s # c => mid[s[1]][s[2]] = pages[s[1]][s[2]]
      BY <2>6, Zenon DEF ReplacedAt
    <3>2. /\ PlacesOf(pages') = PlacesOf(pages) \cup {n} /\ n \notin PlacesOf(pages) /\ pages' \in Tables
          /\ pages'[n[1]][n[2]] = moved
          /\ \A s \in PlacesOf(pages) : pages'[s[1]][s[2]] = mid[s[1]][s[2]]
      BY <2>7, <2>9, Zenon DEF AddedAt
    <3>. QED
      BY <3>1, <3>2, <1>5 DEF Places, Item
  <2>13. it.dead = Item(c).dead /\ it.tup = tup
    BY <2>5
  <2>14. n # c /\ Len(pages') = Len(pages) /\ n[1] = c[1]
    BY <2>12, <1>2, <2>7, <2>9, <2>1
  <2>15. Item(n)' = [dead |-> FALSE, tup |-> Tuple(x, u, FALSE, u)]
    BY <2>1, <2>12
  <2>16. /\ undo'[u].xid = x /\ undo'[u].old = c /\ undo'[u].new = n
         /\ undo'[u].type = "Update" /\ undo'[u].tup = cur[x].tup
    BY <2>11
  <2>17. /\ Item(c)'.dead = Item(c).dead /\ Item(c)'.tup = tup
    BY <2>12, <2>13
  <2>18. WriteEffect(x, u, c, n)
    BY <2>2, <2>11, <2>12, <2>14, <2>15, <2>16, <2>17, <1>1, <1>2, Zenon DEF WriteEffect
  <2>. QED
    BY <2>18
<1>. QED
  BY <1>8, <1>9, <1>10 DEF ChangeTuple

\* UndoRecord.
LEMMA UndoDoes ==
  ASSUME TypeOK, Shape, Logs, Placed, Records, NEW x \in Xids, UndoRecord(x)
  PROVE  \E u, o, n :
    /\ u = undoLog[x][left[x]] /\ u \in Usns /\ undo[u].xid = x /\ left[x] \in DOMAIN undoLog[x]
    /\ UndoEffect(u, o, n)
<1>1. PICK u, o, n : u = undoLog[x][left[x]] /\ o = undo[u].old /\ n = undo[u].new
  OBVIOUS
<1>2. left[x] \in DOMAIN undoLog[x]
  <2>1. left[x] \in Nat /\ undoLog[x] \in Seq(1..MaxUsn) /\ left[x] <= Len(undoLog[x]) /\ left[x] > 0
    BY Bounds DEF TypeOK, Shape, UndoRecord
  <2>2. DOMAIN undoLog[x] = 1..Len(undoLog[x]) /\ Len(undoLog[x]) \in Nat
    BY <2>1, SeqElem
  <2>. QED
    BY <2>1, <2>2
<1>3. u \in Usns /\ undo[u].xid = x
  BY <1>1, <1>2 DEF Logs
<1>4. /\ ~UndoThrows(u) /\ pages' = AppliedUndo(u)
      /\ undo' = undo /\ rowOf' = rowOf /\ undoLog' = undoLog
  BY <1>1, Zenon DEF UndoRecord
<1>5. /\ o \in Places /\ n \in Places /\ (undo[u].type # "Update" => n = o)
      /\ undo[u].type \in {"Delete", "Update", "Insert"} /\ undo[u].tup \in Tuples
  BY <1>1, <1>3, UndoTypes DEF Records, RecordOK, Spots, Moved
<1>6. undo[u].type = "Delete" => Item(o).tup.undo # u
  <2>1. TupleAt(o, Item(o).tup) /\ u # 0
    BY <1>3, <1>5, UsnTypes DEF Placed
  <2>. QED
    BY <2>1 DEF TupleAt, Maker, InvalidUsn
<1>7. undo[u].type = "Update" => Item(o).tup.undo = u /\ Item(n).tup.undo = u
  BY <1>1, <1>4 DEF UndoThrows
<1>8. pages \in Tables /\ o \in PlacesOf(pages) /\ n \in PlacesOf(pages)
  BY <1>5 DEF Shape, Places
<1>9. CASE Item(o).tup.undo # u
  <2>1. pages' = pages
    BY <1>1, <1>4, <1>9 DEF AppliedUndo
  <2>2. Places' = Places /\ \A s \in Places : Item(s)' = Item(s)
    BY <2>1 DEF Places, Item
  <2>3. UndoEffect(u, o, n)
    BY <1>1, <1>4, <1>5, <1>7, <1>8, <1>9, <2>1, <2>2 DEF UndoEffect
  <2>. QED
    BY <1>1, <1>2, <1>3, <2>3
<1>10. CASE Item(o).tup.undo = u /\ n = o
  <2>1. pages' = Put(pages, o, undo[u].tup)
    BY <1>1, <1>4, <1>6, <1>10, Zenon DEF AppliedUndo
  <2>2. ReplacedAt(pages, pages', o, [dead |-> Item(o).dead, tup |-> undo[u].tup])
    BY <2>1, <1>5, <1>8, PutOn, Zenon DEF Item
  <2>3. /\ Places' = Places /\ pages' \in Tables /\ Len(pages') = Len(pages)
        /\ Item(o)' = [dead |-> Item(o).dead, tup |-> undo[u].tup]
        /\ \A s \in Places : s # o => Item(s)' = Item(s)
    BY <2>2, Zenon DEF Places, Item, ReplacedAt
  <2>4. UndoEffect(u, o, n)
    BY <1>1, <1>4, <1>5, <1>6, <1>10, <2>3 DEF UndoEffect
  <2>. QED
    BY <1>1, <1>2, <1>3, <2>4
<1>11. CASE Item(o).tup.undo = u /\ n # o
  <2>1. PICK mid : mid = Put(pages, o, undo[u].tup)
    OBVIOUS
  <2>2. pages' = [mid EXCEPT ![n[1]][n[2]].dead = TRUE]
    BY <1>1, <1>4, <1>6, <1>11, <2>1, Zenon DEF AppliedUndo
  <2>3. ReplacedAt(pages, mid, o, [dead |-> Item(o).dead, tup |-> undo[u].tup])
    BY <2>1, <1>5, <1>8, PutOn, Zenon DEF Item
  <2>4. mid \in Tables /\ PlacesOf(mid) = PlacesOf(pages) /\ n \in PlacesOf(mid)
    BY <2>3, <1>8 DEF ReplacedAt
  <2>5. ReplacedAt(mid, pages', n, [dead |-> TRUE, tup |-> mid[n[1]][n[2]].tup])
    BY <2>2, <2>4, KilledAt, Zenon
  <2>6. mid[n[1]][n[2]] = Item(n)
    BY <2>3, <1>8, <1>11, Zenon DEF ReplacedAt, Item
  <2>7. /\ Places' = Places /\ pages' \in Tables /\ Len(pages') = Len(pages)
        /\ Item(n)' = [dead |-> TRUE, tup |-> Item(n).tup]
        /\ \A s \in Places : s # n => Item(s)' = mid[s[1]][s[2]]
    BY <2>3, <2>4, <2>5, <2>6, Zenon DEF Places, Item, ReplacedAt
  <2>8. /\ mid[o[1]][o[2]] = [dead |-> Item(o).dead, tup |-> undo[u].tup]
        /\ \A s \in Places : s # o => mid[s[1]][s[2]] = Item(s)
    BY <2>3, Zenon DEF Places, Item, ReplacedAt
  <2>9. /\ Item(o)' = [dead |-> Item(o).dead, tup |-> undo[u].tup]
        /\ \A s \in Places : s # n /\ s # o => Item(s)' = Item(s)
    BY <2>7, <2>8, <1>5, <1>11, Zenon
  <2>10. UndoEffect(u, o, n)
    BY <1>1, <1>4, <1>5, <1>6, <1>7, <1>11, <2>7, <2>9 DEF UndoEffect
  <2>. QED
    BY <1>1, <1>2, <1>3, <2>10
<1>. QED
  BY <1>9, <1>10, <1>11

\* Places, their rows and records stay what they are.
StoreGrows ==
  /\ Usns \subseteq Usns' /\ Places \subseteq Places'
  /\ \A v \in Usns : undo'[v] = undo[v] /\ rowOf'[v] = rowOf[v]
  /\ \A s \in Places : Row(s)' = Row(s)

\* A tuple that is or was at a place stays one.
LEMMA TupleStays ==
  ASSUME StoreGrows, NEW t \in Places, NEW tup, TupleAt(t, tup)
  PROVE  TupleAt(t, tup)'
<1>1. tup.val \in Usns /\ tup.undo \in {InvalidUsn} \cup Usns /\ Maker(tup) \in Usns
  BY DEF TupleAt, Maker
<1>2. /\ tup.val \in Usns' /\ tup.undo \in {InvalidUsn} \cup Usns' /\ rowOf'[tup.val] = rowOf[tup.val]
      /\ undo'[Maker(tup)] = undo[Maker(tup)] /\ rowOf'[Maker(tup)] = rowOf[Maker(tup)]
      /\ Row(t)' = Row(t)
  BY <1>1 DEF StoreGrows
<1>3. Maker(tup)' = Maker(tup)
  BY DEF Maker, InvalidUsn
<1>. QED
  BY <1>2, <1>3 DEF TupleAt, Spots, Moved, InvalidUsn

\* The places of a table with one more row or version keep their rows.
LEMMA InsertGrows ==
  ASSUME Placed, NEW x, NEW u, NEW n, InsertEffect(x, u, n)
  PROVE  StoreGrows
<1>1. \A s \in Places : Item(s).tup.val \in Usns
  BY DEF Placed, TupleAt
<1>2. \A s \in Places : Row(s)' = Row(s)
  BY <1>1 DEF InsertEffect, RecordAdded, Row
<1>. QED
  BY <1>2 DEF InsertEffect, RecordAdded, StoreGrows

\* A write leaves every place its row.
LEMMA WriteGrows ==
  ASSUME Placed, NEW x, NEW u, NEW c, NEW n, WriteEffect(x, u, c, n)
  PROVE  StoreGrows
<1>1. \A s \in Places : Item(s).tup.val \in Usns
  BY DEF Placed, TupleAt
<1>2. \A s \in Places : s # c => Row(s)' = Row(s)
  BY <1>1 DEF WriteEffect, RecordAdded, Row
<1>3. c \in Places => Row(c)' = Row(c)
  BY <1>1 DEF WriteEffect, RecordAdded, Row
<1>. QED
  BY <1>2, <1>3 DEF WriteEffect, RecordAdded, StoreGrows

\* An undo leaves every place its row.
LEMMA UndoGrows ==
  ASSUME Records, Placed, NEW u \in Usns, NEW o, NEW n, UndoEffect(u, o, n)
  PROVE  StoreGrows
<1>1. \A s \in Places : s \notin {o, n} => Row(s)' = Row(s)
  BY DEF UndoEffect, Row
<1>2. Item(o)' # Item(o) => Item(o)'.tup = undo[u].tup /\ TupleAt(o, undo[u].tup)
  BY DEF UndoEffect, Records, RecordOK
<1>3. Row(o)' = Row(o)
  <2>1. rowOf' = rowOf
    BY DEF UndoEffect
  <2>. QED
    BY <1>2, <2>1 DEF Row, TupleAt
<1>4. n # o => Row(n)' = Row(n)
  BY DEF UndoEffect, Row
<1>. QED
  BY <1>1, <1>3, <1>4 DEF UndoEffect, StoreGrows, Usns

-----------------------------------------------------------------------------
(* What the steps do to the transactions                                    *)

\* The transactions other than x.
OthersKept(x) ==
  \A y \in Xids : y # x =>
    /\ pc'[y] = pc[y] /\ cur'[y] = cur[y] /\ pos'[y] = pos[y] /\ snapCid'[y] = snapCid[y]
    /\ undoLog'[y] = undoLog[y] /\ left'[y] = left[y]
    /\ status'[y] = status[y] /\ snapCsn'[y] = snapCsn[y]

\* The parts of x that a step leaves alone.
TransKept(x) == status'[x] = status[x] /\ snapCsn'[x] = snapCsn[x] /\ nextCsn' = nextCsn
LogKept(x) == undoLog'[x] = undoLog[x] /\ left'[x] = left[x]
ScanKept(x) == pos'[x] = pos[x] /\ cur'[x] = cur[x]
StoreKept == pages' = pages /\ undo' = undo /\ rowOf' = rowOf /\ clobbered' = clobbered

\* The steps of x that leave the table alone.
Began(x) ==
  /\ pc[x] = "none" /\ pc'[x] = "idle" /\ status'[x] = InProgressCsn /\ snapCsn'[x] = snapCsn[x]
  /\ nextCsn' = nextCsn /\ snapCid'[x] = snapCid[x] /\ LogKept(x) /\ ScanKept(x) /\ failed' = failed
Started(x) ==
  /\ pc[x] = "idle" /\ pc'[x] \in {"insert", "scan"} /\ LogKept(x) /\ cur'[x] = cur[x]
  /\ status'[x] = status[x] /\ nextCsn' = nextCsn /\ failed' = failed
  /\ \/ snapCsn[x] = InvalidCsn /\ snapCsn'[x] = nextCsn /\ snapCid'[x] = snapCid[x]
     \/ /\ snapCsn[x] # InvalidCsn /\ snapCsn'[x] = snapCsn[x]
        /\ snapCid'[x] = IF undoLog[x] = <<>> THEN snapCid[x] ELSE undoLog[x][Len(undoLog[x])] + 1
  /\ (pos'[x] = NoTid \/ (pos'[x] = <<1, 1>> /\ pages # <<>>))
Committed(x) ==
  /\ pc[x] = "idle" /\ pc'[x] = "ended" /\ status[x] = InProgressCsn /\ status'[x] = nextCsn
  /\ nextCsn' = nextCsn + 1 /\ snapCsn'[x] = snapCsn[x] /\ ScanKept(x) /\ failed' = failed
  /\ undoLog'[x] = <<>> /\ left'[x] = left[x] /\ snapCid'[x] = InvalidUsn
Found(x, t) ==
  /\ pc[x] = "scan" /\ pc'[x] \in {"scan", "write"} /\ TransKept(x) /\ LogKept(x) /\ snapCid'[x] = snapCid[x]
  /\ failed' = failed
  /\ t \in Places /\ pos[x] # NoTid /\ t[1] = pos[x][1] /\ t[2] >= pos[x][2]
  /\ pos'[x] = <<t[1], t[2] + 1>> /\ Version(x, Item(t)) # NoTuple
  /\ cur'[x] = IF pc'[x] = "write" THEN [tid |-> t, tup |-> Version(x, Item(t))] ELSE cur[x]
Stopped(x) ==
  /\ pc[x] \in {"scan", "wait"} /\ pc'[x] = "idle" /\ TransKept(x) /\ LogKept(x) /\ snapCid'[x] = snapCid[x]
  /\ pos'[x] = NoTid /\ cur'[x] = NoScanned /\ failed' = failed
Waits(x) ==
  /\ pc[x] \in Writing /\ pc'[x] \in Writing /\ TransKept(x) /\ LogKept(x) /\ ScanKept(x)
  /\ snapCid'[x] = snapCid[x] /\ failed' = failed
RollsBack(x) ==
  /\ pc[x] = "idle" /\ pc'[x] = "undo" /\ TransKept(x) /\ ScanKept(x) /\ snapCid'[x] = snapCid[x]
  /\ undoLog'[x] = undoLog[x] /\ left'[x] = Len(undoLog[x]) /\ failed' = failed
GivesUp(x) ==
  /\ pc[x] = "undo" /\ pc'[x] = "idle" /\ TransKept(x) /\ ScanKept(x) /\ snapCid'[x] = snapCid[x]
  /\ undoLog'[x] = undoLog[x] /\ left'[x] = 0 /\ failed' = failed \cup {x}
RolledBack(x) ==
  /\ pc[x] = "undo" /\ pc'[x] = "ended" /\ status[x] = InProgressCsn /\ status'[x] = AbortedCsn
  /\ nextCsn' = nextCsn /\ snapCsn'[x] = snapCsn[x] /\ ScanKept(x) /\ failed' = failed
  /\ left[x] = 0 /\ left'[x] = 0 /\ undoLog'[x] = <<>> /\ snapCid'[x] = InvalidUsn

Quiet(x) ==
  /\ StoreKept /\ OthersKept(x)
  /\ \/ Began(x) \/ Started(x) \/ Committed(x) \/ (\E t : Found(x, t)) \/ Stopped(x) \/ Waits(x)
     \/ RollsBack(x) \/ GivesUp(x) \/ RolledBack(x)

\* The steps of x that change the table.
Inserted(x) ==
  /\ OthersKept(x) /\ clobbered' = clobbered /\ failed' = failed
  /\ pc[x] = "insert" /\ pc'[x] \in {"insert", "idle"} /\ TransKept(x) /\ snapCid'[x] = snapCid[x]
  /\ left'[x] = left[x] /\ (pos'[x] = pos[x] \/ pos'[x] = NoTid)
Wrote(x, c) ==
  /\ OthersKept(x) /\ failed' = failed
  /\ pc[x] \in {"write", "relock"} /\ pc'[x] = "scan" /\ TransKept(x) /\ snapCid'[x] = snapCid[x]
  /\ left'[x] = left[x] /\ pos'[x] = pos[x]
  /\ clobbered \subseteq clobbered'
  /\ Row(c) \notin clobbered' => \/ pc[x] = "write" /\ Item(c).tup.xid = cur[x].tup.xid
                                 \/ Item(c).tup = cur[x].tup
Undid(x) ==
  /\ OthersKept(x) /\ clobbered' = clobbered /\ failed' = failed
  /\ pc[x] = "undo" /\ pc'[x] = "undo" /\ TransKept(x) /\ ScanKept(x) /\ snapCid'[x] = snapCid[x]
  /\ left'[x] = left[x] - 1 /\ left[x] > 0

\* One entry of a function is replaced.
LEMMA OneEntry ==
  ASSUME NEW S, NEW f, NEW x \in S, NEW v, DOMAIN f = S
  PROVE  /\ [f EXCEPT ![x] = v][x] = v /\ \A y \in S : y # x => [f EXCEPT ![x] = v][y] = f[y]
  BY Zenon

\* The functions of the transactions.
LEMMA Functions ==
  ASSUME TypeOK, Shape
  PROVE  /\ DOMAIN pc = Xids /\ DOMAIN cur = Xids /\ DOMAIN pos = Xids /\ DOMAIN snapCid = Xids
         /\ DOMAIN undoLog = Xids /\ DOMAIN left = Xids /\ DOMAIN status = Xids /\ DOMAIN snapCsn = Xids
  BY DEF TypeOK, Shape

\* The steps that leave the table alone.
LEMMA QuietSteps ==
  ASSUME TypeOK, Shape, NEW x \in Xids,
         \/ BeginTransaction(x) \/ CommitTransaction(x) \/ \E kind \in Kinds : StartStatement(x, kind)
         \/ GetNextTuple(x) \/ GetNoTuple(x) \/ WriteConflict(x) \/ RereadXid(x) \/ WaitAborted(x)
         \/ WaitCommitted(x) \/ Rollback(x) \/ UndoFails(x) \/ RollbackEnds(x)
  PROVE  Quiet(x)
<1>. USE Functions
<1>1. CASE BeginTransaction(x)
  <2>1. StoreKept /\ OthersKept(x) /\ Began(x)
    BY <1>1 DEF BeginTransaction, Begin, Goto, storeVars, scanVars, StoreKept, OthersKept, Began, LogKept, ScanKept
  <2>. QED
    BY <2>1 DEF Quiet
<1>2. CASE CommitTransaction(x)
  <2>1. StoreKept /\ OthersKept(x) /\ Committed(x)
    BY <1>2 DEF CommitTransaction, Commit, Goto, Finish, StoreKept, OthersKept, Committed, ScanKept
  <2>. QED
    BY <2>1 DEF Quiet
<1>3. CASE \E kind \in Kinds : StartStatement(x, kind)
  <2>1. PICK kind \in Kinds : StartStatement(x, kind)
    BY <1>3
  <2>2. StoreKept /\ OthersKept(x)
    <3>1. CASE TakeSnapshot(x) /\ UNCHANGED snapCid
      BY <2>1, <3>1 DEF StartStatement, TakeSnapshot, Goto, storeVars, StoreKept, OthersKept
    <3>2. CASE UNCHANGED transVars /\ snapCid' = [snapCid EXCEPT ![x] =
                  IF undoLog[x] = <<>> THEN @ ELSE undoLog[x][Len(undoLog[x])] + 1]
      BY <2>1, <3>2 DEF StartStatement, transVars, Goto, storeVars, StoreKept, OthersKept
    <3>. QED
      BY <2>1, <3>1, <3>2, Zenon DEF StartStatement
  <2>3. /\ pc[x] = "idle" /\ pc'[x] \in {"insert", "scan"} /\ LogKept(x) /\ cur'[x] = cur[x] /\ failed' = failed
        /\ (pos'[x] = NoTid \/ (pos'[x] = <<1, 1>> /\ pages # <<>>))
    <3>1. /\ pc[x] = "idle" /\ pc' = [pc EXCEPT ![x] = IF kind = "insert" THEN "insert" ELSE "scan"]
          /\ pos' = [pos EXCEPT ![x] = IF pages = <<>> \/ kind = "insert" THEN NoTid ELSE <<1, 1>>]
          /\ UNCHANGED <<storeVars, cur, waitFor, left, failed>>
      BY <2>1, Zenon DEF StartStatement, Goto
    <3>. QED
      BY <3>1 DEF storeVars, LogKept
  <2>4. CASE TakeSnapshot(x) /\ UNCHANGED snapCid
    <3>1. snapCsn[x] = InvalidCsn /\ snapCsn'[x] = nextCsn /\ snapCid'[x] = snapCid[x] /\ status'[x] = status[x] /\ nextCsn' = nextCsn
      BY <2>4 DEF TakeSnapshot
    <3>. QED
      BY <2>2, <2>3, <3>1 DEF Quiet, Started
  <2>5. CASE UNCHANGED transVars /\ snapCsn[x] # InvalidCsn /\ snapCid' = [snapCid EXCEPT ![x] =
                  IF undoLog[x] = <<>> THEN @ ELSE undoLog[x][Len(undoLog[x])] + 1]
    <3>1. /\ snapCsn'[x] = snapCsn[x] /\ status'[x] = status[x] /\ nextCsn' = nextCsn
          /\ snapCid'[x] = IF undoLog[x] = <<>> THEN snapCid[x] ELSE undoLog[x][Len(undoLog[x])] + 1
      BY <2>5 DEF transVars
    <3>. QED
      BY <2>2, <2>3, <2>5, <3>1 DEF Quiet, Started
  <2>. QED
    BY <2>1, <2>4, <2>5, Zenon DEF StartStatement
<1>4. CASE GetNextTuple(x)
  <2>1. PICK p, i, hits :
          /\ p = pos[x][1] /\ hits = {k \in DOMAIN pages[p] : k >= pos[x][2] /\ Version(x, pages[p][k]) # NoTuple}
          /\ i = Min(hits) /\ hits # {} /\ pc[x] = "scan" /\ pos[x] # NoTid
          /\ pos' = [pos EXCEPT ![x] = <<p, i + 1>>]
          /\ \/ pc' = [pc EXCEPT ![x] = "scan"] /\ cur' = cur
             \/ \E qual \in BOOLEAN :
                  /\ pc' = [pc EXCEPT ![x] = IF qual THEN "write" ELSE "scan"]
                  /\ cur' = IF qual THEN [cur EXCEPT ![x] = [tid |-> <<p, i>>, tup |-> Version(x, pages[p][i])]]
                            ELSE cur
          /\ UNCHANGED <<transVars, storeVars, op, snapCid, waitFor, left, failed>>
    BY <1>4, Zenon DEF GetNextTuple, Goto
  <2>2. p \in DOMAIN pages /\ DOMAIN pages[p] \subseteq Nat /\ \A k \in DOMAIN pages[p] : <<p, k>> \in Places
    BY <2>1, TablePages, SMTT(30) DEF Shape, Places
  <2>3. i \in DOMAIN pages[p] /\ i >= pos[x][2] /\ Version(x, pages[p][i]) # NoTuple
    BY <2>1, <2>2, LeastNatural
  <2>4. PICK t : t = <<p, i>>
    OBVIOUS
  <2>5. t \in Places /\ t[1] = p /\ t[2] = i /\ Item(t) = pages[p][i]
    BY <2>2, <2>3, <2>4 DEF Item
  <2>6. StoreKept /\ OthersKept(x)
    <3>1. CASE cur' = cur /\ pc' = [pc EXCEPT ![x] = "scan"]
      BY <2>1, <3>1 DEF storeVars, transVars, StoreKept, OthersKept
    <3>2. CASE pc' = [pc EXCEPT ![x] = "write"] /\ cur' = [cur EXCEPT ![x] = [tid |-> <<p, i>>, tup |-> Version(x, pages[p][i])]]
      BY <2>1, <3>2 DEF storeVars, transVars, StoreKept, OthersKept
    <3>. QED
      BY <2>1, <3>1, <3>2, Zenon
  <2>7. /\ TransKept(x) /\ LogKept(x) /\ snapCid'[x] = snapCid[x] /\ failed' = failed
        /\ pos'[x] = <<t[1], t[2] + 1>>
    BY <2>1, <2>5 DEF storeVars, transVars, TransKept, LogKept
  <2>8. /\ pc'[x] \in {"scan", "write"}
        /\ cur'[x] = IF pc'[x] = "write" THEN [tid |-> t, tup |-> Version(x, Item(t))] ELSE cur[x]
    <3>1. CASE cur' = cur /\ pc' = [pc EXCEPT ![x] = "scan"]
      BY <3>1
    <3>2. CASE pc' = [pc EXCEPT ![x] = "write"] /\ cur' = [cur EXCEPT ![x] = [tid |-> <<p, i>>, tup |-> Version(x, pages[p][i])]]
      BY <3>2, <2>4, <2>5
    <3>. QED
      BY <2>1, <3>1, <3>2, Zenon
  <2>9. Found(x, t)
    BY <2>1, <2>3, <2>5, <2>7, <2>8 DEF Found
  <2>. QED
    BY <2>6, <2>9 DEF Quiet
<1>5. CASE GetNoTuple(x)
  <2>1. StoreKept /\ OthersKept(x) /\ Stopped(x)
    BY <1>5 DEF GetNoTuple, EndStatement, Goto, storeVars, transVars, StoreKept, OthersKept, Stopped, TransKept, LogKept
  <2>. QED
    BY <2>1 DEF Quiet
<1>6. CASE WriteConflict(x)
  <2>1. StoreKept /\ OthersKept(x) /\ Waits(x)
    BY <1>6 DEF WriteConflict, Goto, storeVars, transVars, scanVars, StoreKept, OthersKept, Waits, TransKept, LogKept,
                ScanKept, Writing
  <2>. QED
    BY <2>1 DEF Quiet
<1>7. CASE RereadXid(x)
  <2>1. StoreKept /\ OthersKept(x) /\ Waits(x)
    BY <1>7 DEF RereadXid, Goto, storeVars, transVars, scanVars, StoreKept, OthersKept, Waits, TransKept, LogKept,
                ScanKept, Writing
  <2>. QED
    BY <2>1 DEF Quiet
<1>8. CASE WaitAborted(x)
  <2>1. StoreKept /\ OthersKept(x) /\ Waits(x)
    BY <1>8 DEF WaitAborted, Goto, storeVars, transVars, scanVars, StoreKept, OthersKept, Waits, TransKept, LogKept,
                ScanKept, Writing
  <2>. QED
    BY <2>1 DEF Quiet
<1>9. CASE WaitCommitted(x)
  <2>1. StoreKept /\ OthersKept(x) /\ Stopped(x)
    BY <1>9 DEF WaitCommitted, EndStatement, Goto, storeVars, transVars, StoreKept, OthersKept, Stopped, TransKept, LogKept
  <2>. QED
    BY <2>1 DEF Quiet
<1>10. CASE Rollback(x)
  <2>1. StoreKept /\ OthersKept(x) /\ RollsBack(x)
    BY <1>10 DEF Rollback, Goto, storeVars, transVars, scanVars, StoreKept, OthersKept, RollsBack, TransKept, ScanKept
  <2>. QED
    BY <2>1 DEF Quiet
<1>11. CASE UndoFails(x)
  <2>1. StoreKept /\ OthersKept(x) /\ GivesUp(x)
    BY <1>11 DEF UndoFails, Goto, storeVars, transVars, scanVars, StoreKept, OthersKept, GivesUp, TransKept, ScanKept
  <2>. QED
    BY <2>1 DEF Quiet
<1>12. CASE RollbackEnds(x)
  <2>1. StoreKept /\ OthersKept(x) /\ RolledBack(x)
    BY <1>12 DEF RollbackEnds, Abort, Finish, Goto, StoreKept, OthersKept, RolledBack, ScanKept
  <2>. QED
    BY <2>1 DEF Quiet
<1>. QED
  BY <1>1, <1>2, <1>3, <1>4, <1>5, <1>6, <1>7, <1>8, <1>9, <1>10, <1>11, <1>12

\* InsertTuple, to the transactions.
LEMMA InsertLocal ==
  ASSUME TypeOK, Shape, NEW x \in Xids, InsertTuple(x), NEW u, NEW n, InsertEffect(x, u, n)
  PROVE  Inserted(x)
<1>. USE Functions
<1>1. clobbered' = clobbered /\ failed' = failed /\ UNCHANGED <<transVars, snapCid, left>>
  BY Zenon DEF InsertTuple
<1>2. undoLog' = [undoLog EXCEPT ![x] = Append(@, u)]
  BY DEF InsertEffect
<1>3. CASE Goto(x, "insert", "insert") /\ UNCHANGED scanVars
  BY <1>1, <1>2, <1>3 DEF Goto, scanVars, Inserted, OthersKept, transVars, TransKept
<1>4. CASE Goto(x, "insert", "idle") /\ EndStatement(x)
  BY <1>1, <1>2, <1>4 DEF Goto, EndStatement, Inserted, OthersKept, transVars, TransKept
<1>. QED
  BY <1>3, <1>4, Zenon DEF InsertTuple

\* WriteNow and WriteRelocked, to the transactions.
LEMMA WriteLocal ==
  ASSUME TypeOK, Shape, NEW x \in Xids, WriteNow(x) \/ WriteRelocked(x),
         NEW u, NEW c, NEW n, WriteEffect(x, u, c, n)
  PROVE  Wrote(x, c)
<1>. USE Functions
<1>1. /\ cur' = [cur EXCEPT ![x] = NoScanned]
      /\ UNCHANGED <<transVars, op, pos, seen, snapCid, waitFor, left, failed>>
  BY Zenon DEF WriteNow, WriteRelocked, ChangeTuple
<1>2. undoLog' = [undoLog EXCEPT ![x] = Append(@, u)] /\ c = cur[x].tid
  BY DEF WriteEffect
<1>3. pc[x] \in {"write", "relock"} /\ pc' = [pc EXCEPT ![x] = "scan"]
  BY DEF WriteNow, WriteRelocked, Goto
<1>4. OthersKept(x)
  BY <1>1, <1>2, <1>3 DEF OthersKept, transVars
<1>5. OldItem(x) = Item(c) /\ rowOf[OldItem(x).tup.val] = Row(c)
  BY <1>2 DEF OldItem, Row
<1>6. /\ clobbered \subseteq clobbered'
      /\ Row(c) \notin clobbered' => \/ pc[x] = "write" /\ Item(c).tup.xid = cur[x].tup.xid
                                     \/ Item(c).tup = cur[x].tup
  <2>1. CASE WriteNow(x)
    BY <2>1, <1>5 DEF WriteNow, NotModified, Goto
  <2>2. CASE WriteRelocked(x)
    BY <2>2, <1>5 DEF WriteRelocked
  <2>. QED
    BY <2>1, <2>2
<1>. QED
  BY <1>1, <1>3, <1>4, <1>6 DEF Wrote, TransKept, transVars

\* UndoRecord, to the transactions.
LEMMA UndoLocal ==
  ASSUME TypeOK, Shape, NEW x \in Xids, UndoRecord(x)
  PROVE  Undid(x)
<1>. USE Functions
<1>1. left[x] \in Nat
  BY Bounds DEF TypeOK
<1>. QED
  BY <1>1 DEF UndoRecord, Undid, OthersKept, transVars, scanVars, TransKept, ScanKept

-----------------------------------------------------------------------------
(* Places, records and rows                                                 *)

\* A record stays what it is.
LEMMA RecordStays ==
  ASSUME TypeOK, StoreGrows, NEW v \in Usns, RecordOK(v)
  PROVE  RecordOK(v)' /\ Spots(v)' = Spots(v) /\ Moved(v)' = Moved(v)
<1>1. undo'[v] = undo[v] /\ rowOf'[v] = rowOf[v]
  BY DEF StoreGrows
<1>2. Spots(v)' = Spots(v) /\ Moved(v)' = Moved(v) /\ Spots(v) \subseteq Places
  BY <1>1 DEF Spots, Moved, RecordOK
<1>3. Spots(v)' \subseteq Places' /\ \A t \in Spots(v) : Row(t)' = rowOf[v]
  BY <1>2 DEF StoreGrows, RecordOK
<1>4. undo[v].type # "Delete" => TupleAt(undo[v].old, undo[v].tup)'
  <2>1. PICK t, tup : t = undo[v].old /\ tup = undo[v].tup
    OBVIOUS
  <2>2. t \in Places
    BY <2>1, <1>2 DEF Spots
  <2>3. undo[v].type # "Delete" => TupleAt(t, tup)'
    BY <2>1, <2>2, TupleStays DEF RecordOK
  <2>. QED
    BY <2>1, <2>3, <1>1
<1>5. Maker(undo[v].tup)' = Maker(undo[v].tup)
  BY <1>1 DEF Maker, InvalidUsn
<1>. QED
  BY <1>1, <1>2, <1>3, <1>4, <1>5 DEF RecordOK

\* An inserted row.
LEMMA TableInsert ==
  ASSUME TypeOK, Placed, Records, Fresh, NEW x \in Xids, NEW u, NEW n, InsertEffect(x, u, n)
  PROVE  Placed' /\ Records' /\ Fresh'
<1>1. StoreGrows
  BY InsertGrows
<1>2. /\ u \in 1..MaxUsn /\ u = Len(undo) + 1 /\ Usns' = Usns \cup {u} /\ Usns = 1..Len(undo) /\ Len(undo) \in Nat
      /\ rowOf'[u] = u /\ u \notin Usns
  BY UsnTypes DEF InsertEffect, RecordAdded
<1>3. PICK tup : tup = Tuple(x, InvalidUsn, FALSE, u)
  OBVIOUS
<1>4. /\ tup \in Tuples /\ tup.xid = x /\ tup.undo = InvalidUsn /\ tup.val = u
      /\ Item(n)'.tup = tup /\ u # InvalidUsn
  BY <1>2, <1>3, Bounds DEF Tuples, Tuple, InvalidUsn, InsertEffect
<1>5. /\ undo'[u].xid = x /\ undo'[u].type = "Delete" /\ undo'[u].old = n /\ undo'[u].new = n
      /\ undo'[u].tup.undo = 0 /\ n \in Places' /\ n \notin Places
  BY DEF InsertEffect, NoTuple
<1>6. Row(n)' = u
  BY <1>2, <1>4 DEF Row
<1>7. Maker(tup)' = u
  BY <1>4 DEF Maker
<1>8. TupleAt(n, tup)'
  BY <1>2, <1>4, <1>5, <1>6, <1>7 DEF TupleAt, Spots, Moved
<1>9. Placed'
  <2>1. Places' = Places \cup {n} /\ \A s \in Places : Item(s)' = Item(s)
    BY DEF InsertEffect
  <2>. SUFFICES ASSUME NEW s \in Places' PROVE TupleAt(s, Item(s).tup)'
    BY DEF Placed
  <2>2. CASE s = n
    BY <2>2, <1>4, <1>8
  <2>3. CASE s \in Places
    <3>1. PICK t : t = Item(s).tup
      OBVIOUS
    <3>2. TupleAt(s, t)' /\ Item(s)'.tup = t
      BY <2>1, <2>3, <3>1, <1>1, TupleStays DEF Placed
    <3>. QED
      BY <3>2
  <2>. QED
    BY <2>1, <2>2, <2>3
<1>10. Records'
  <2>. SUFFICES ASSUME NEW v \in Usns' PROVE RecordOK(v)'
    BY DEF Records
  <2>1. CASE v \in Usns
    BY <2>1, <1>1, RecordStays DEF Records
  <2>2. CASE v = u
    <3>1. RecordOK(u)'
      BY <1>2, <1>5, <1>6 DEF RecordOK, Spots, Moved
    <3>. QED
      BY <3>1, <2>2
  <2>. QED
    BY <1>2, <2>1, <2>2
<1>11. Fresh'
  <2>. SUFFICES ASSUME NEW v \in Usns', undo'[v].type = "Delete" \/ Moved(v)', NEW w \in 1..(v - 1)
                PROVE  undo'[v].new \notin Spots(w)'
    BY DEF Fresh
  <2>1. w \in Usns /\ Spots(w)' = Spots(w) /\ Spots(w) \subseteq Places
    <3>1. w \in Usns
      BY <1>2
    <3>. QED
      BY <3>1, <1>1, RecordStays DEF Records, RecordOK
  <2>2. CASE v = u
    BY <2>1, <2>2, <1>5
  <2>3. CASE v \in Usns
    <3>1. undo'[v] = undo[v] /\ Moved(v)' = Moved(v)
      BY <2>3, <1>1, RecordStays DEF Records, StoreGrows
    <3>. QED
      BY <2>1, <2>3, <3>1 DEF Fresh
  <2>. QED
    BY <1>2, <2>2, <2>3
<1>. QED
  BY <1>9, <1>10, <1>11

\* A changed row.
LEMMA TableWrite ==
  ASSUME TypeOK, Placed, Records, Fresh, Scanned, NEW x \in Xids, pc[x] \in Writing,
         NEW u, NEW c, NEW n, WriteEffect(x, u, c, n)
  PROVE  Placed' /\ Records' /\ Fresh'
<1>1. StoreGrows
  BY WriteGrows
<1>2. /\ u \in 1..MaxUsn /\ u = Len(undo) + 1 /\ Usns' = Usns \cup {u} /\ Usns = 1..Len(undo) /\ Len(undo) \in Nat
      /\ rowOf'[u] = Row(c) /\ u \notin Usns /\ u # InvalidUsn
  BY UsnTypes DEF WriteEffect, RecordAdded, InvalidUsn
<1>3. /\ undo'[u].xid = x /\ undo'[u].old = c /\ undo'[u].new = n /\ undo'[u].type \in {"Update", "Insert"}
      /\ undo'[u].type = "Insert" => n = c
      /\ c \in Places /\ n \in Places' /\ Places' = Places \cup {n} /\ (n = c \/ n \notin Places) /\ c = cur[x].tid
      /\ \A s \in Places : s # c => Item(s)' = Item(s)
  BY DEF WriteEffect
<1>4. Row(c)' = Row(c) /\ Spots(u)' = {c, n} /\ (Moved(u)' <=> n # c)
  BY <1>1, <1>3 DEF StoreGrows, Spots, Moved
<1>5. TupleAt(c, Item(c).tup)'
  <2>1. PICK tup : tup = Item(c)'.tup
    OBVIOUS
  <2>2. /\ tup \in Tuples /\ tup.xid = x /\ tup.undo = u /\ tup.val \in {u, Item(c).tup.val}
        /\ (n # c => tup.deleted)
    BY <2>1 DEF WriteEffect
  <2>3. tup.val \in Usns' /\ rowOf'[tup.val] = Row(c)
    <3>1. Item(c).tup.val \in Usns /\ rowOf[Item(c).tup.val] = Row(c)
      BY <1>3 DEF Placed, TupleAt, Row
    <3>. QED
      BY <3>1, <2>2, <1>1, <1>2 DEF StoreGrows
  <2>4. Maker(tup)' = u
    BY <2>2, <1>2 DEF Maker
  <2>5. TupleAt(c, tup)'
    BY <2>2, <2>3, <2>4, <1>2, <1>3, <1>4, Bounds DEF TupleAt
  <2>. QED
    BY <2>1, <2>5
<1>6. n # c => TupleAt(n, Item(n).tup)' /\ Row(n)' = Row(c)
  <2>. SUFFICES ASSUME n # c PROVE TupleAt(n, Item(n).tup)' /\ Row(n)' = Row(c)
    OBVIOUS
  <2>1. PICK tup : tup = Item(n)'.tup
    OBVIOUS
  <2>2. tup = Tuple(x, u, FALSE, u)
    <3>1. PICK t : t = Tuple(x, u, FALSE, u)
      OBVIOUS
    <3>2. Item(n)' = [dead |-> FALSE, tup |-> t]
      BY <3>1, Zenon DEF WriteEffect
    <3>. QED
      BY <3>1, <3>2, <2>1
  <2>3. tup \in Tuples /\ tup.xid = x /\ tup.undo = u /\ tup.val = u
    BY <2>2, <1>2, Bounds DEF Tuples, Tuple
  <2>4. Row(n)' = Row(c)
    BY <2>1, <2>3, <1>2 DEF Row
  <2>5. Maker(tup)' = u
    BY <2>3, <1>2 DEF Maker
  <2>6. TupleAt(n, tup)'
    BY <2>3, <2>4, <2>5, <1>2, <1>3, <1>4, Bounds DEF TupleAt
  <2>. QED
    BY <2>1, <2>4, <2>6
<1>7. Placed'
  <2>. SUFFICES ASSUME NEW s \in Places' PROVE TupleAt(s, Item(s).tup)'
    BY DEF Placed
  <2>1. CASE s = c
    BY <2>1, <1>5
  <2>2. CASE s = n
    BY <2>2, <1>5, <1>6
  <2>3. CASE s \in Places /\ s # c
    <3>1. PICK t : t = Item(s).tup
      OBVIOUS
    <3>2. TupleAt(s, t)' /\ Item(s)'.tup = t
      BY <2>3, <3>1, <1>1, <1>3, TupleStays DEF Placed
    <3>. QED
      BY <3>2
  <2>. QED
    BY <1>3, <2>1, <2>2, <2>3
<1>8. RecordOK(u)'
  <2>1. PICK tup : tup = undo'[u].tup
    OBVIOUS
  <2>2. tup \in {cur[x].tup, Item(c).tup}
    BY <2>1 DEF WriteEffect
  <2>3. TupleAt(c, tup)
    BY <2>2, <1>3 DEF Placed, Scanned
  <2>4. TupleAt(c, tup)'
    BY <2>3, <1>1, <1>3, TupleStays
  <2>5. Maker(tup)' < u /\ tup.undo < u
    <3>1. Maker(tup) \in Usns /\ tup.undo \in {0} \cup Usns
      BY <2>3 DEF TupleAt, Maker, InvalidUsn
    <3>2. Maker(tup)' = Maker(tup)
      BY DEF Maker, InvalidUsn
    <3>. QED
      BY <3>1, <3>2, <1>2
  <2>6. Row(c) <= u
    <3>1. Item(c).tup.val \in Usns /\ rowOf[Item(c).tup.val] = Row(c)
      BY <1>3 DEF Placed, TupleAt, Row
    <3>2. Row(c) <= Item(c).tup.val /\ Row(c) \in Nat
      BY <3>1, UsnTypes DEF Records, RecordOK
    <3>. QED
      BY <3>1, <3>2, <1>2
  <2>7. Spots(u)' \subseteq Places' /\ \A t \in Spots(u)' : Row(t)' = Row(c)
    BY <1>3, <1>4, <1>6
  <2>8. undo'[u].type # "Update" => n = c
    BY <1>3
  <2>9. undo'[u].type # "Delete"
    BY <1>3
  <2>. QED
    BY <2>1, <2>4, <2>5, <2>6, <2>7, <2>8, <2>9, <1>2, <1>3, <1>4 DEF RecordOK
<1>9. Records'
  <2>. SUFFICES ASSUME NEW v \in Usns' PROVE RecordOK(v)'
    BY DEF Records
  <2>1. CASE v \in Usns
    BY <2>1, <1>1, RecordStays DEF Records
  <2>. QED
    BY <1>2, <2>1, <1>8
<1>10. Fresh'
  <2>. SUFFICES ASSUME NEW v \in Usns', undo'[v].type = "Delete" \/ Moved(v)', NEW w \in 1..(v - 1)
                PROVE  undo'[v].new \notin Spots(w)'
    BY DEF Fresh
  <2>1. w \in Usns /\ Spots(w)' = Spots(w) /\ Spots(w) \subseteq Places
    <3>1. w \in Usns
      BY <1>2
    <3>. QED
      BY <3>1, <1>1, RecordStays DEF Records, RecordOK
  <2>2. CASE v = u
    BY <2>1, <2>2, <1>3, <1>4
  <2>3. CASE v \in Usns
    <3>1. undo'[v] = undo[v] /\ Moved(v)' = Moved(v)
      BY <2>3, <1>1, RecordStays DEF Records, StoreGrows
    <3>. QED
      BY <2>1, <2>3, <3>1 DEF Fresh
  <2>. QED
    BY <1>2, <2>2, <2>3
<1>. QED
  BY <1>7, <1>9, <1>10

\* An undone change.
LEMMA TableUndo ==
  ASSUME TypeOK, Placed, Records, Fresh, NEW u \in Usns, NEW o, NEW n, UndoEffect(u, o, n)
  PROVE  Placed' /\ Records' /\ Fresh'
<1>1. StoreGrows
  BY UndoGrows
<1>2. Places' = Places /\ undo' = undo /\ Usns' = Usns
  BY DEF UndoEffect, Usns
<1>3. Placed'
  <2>. SUFFICES ASSUME NEW s \in Places PROVE TupleAt(s, Item(s).tup)'
    BY <1>2 DEF Placed
  <2>1. PICK tup : tup = Item(s)'.tup
    OBVIOUS
  <2>2. TupleAt(s, tup)
    <3>1. Item(s)'.tup = Item(s).tup \/ (s = o /\ Item(s)'.tup = undo[u].tup /\ undo[u].type # "Delete" /\ o = undo[u].old)
      BY DEF UndoEffect
    <3>. QED
      BY <2>1, <3>1 DEF Placed, Records, RecordOK
  <2>3. TupleAt(s, tup)'
    BY <2>2, <1>1, TupleStays
  <2>. QED
    BY <2>1, <2>3
<1>4. Records'
  <2>. SUFFICES ASSUME NEW v \in Usns PROVE RecordOK(v)'
    BY <1>2 DEF Records
  <2>. QED
    BY <1>1, RecordStays DEF Records
<1>5. Fresh'
  BY <1>2 DEF Fresh, Moved, Spots
<1>. QED
  BY <1>3, <1>4, <1>5

-----------------------------------------------------------------------------
(* Types                                                                    *)

StoreTypes ==
  /\ pages \in Tables /\ loose \subseteq DOMAIN pages /\ LogTypes /\ Len(undo) <= MaxUsn
  /\ undoLog \in [Xids -> Seq(1..MaxUsn)] /\ clobbered \subseteq 1..MaxUsn

TransTypes == status \in [Xids -> Nat] /\ nextCsn \in Nat /\ snapCsn \in [Xids -> Nat]

LocalTypes ==
  /\ snapCid \in [Xids -> 0..(MaxUsn + 1)] /\ op \in [Xids -> Kinds \cup {"none"}]
  /\ pc \in [Xids -> {"none", "idle", "insert", "scan", "write", "reread", "wait", "relock",
                      "undo", "ended"}]
  /\ cur \in [Xids -> [tid : (0..MaxPages) \X (0..RowsPerPage), tup : Tuples]]
  /\ pos \in [Xids -> Nat \X Nat]
  /\ waitFor \in [Xids -> 0..MaxXid] /\ left \in [Xids -> 0..MaxUsn]

ScansOnPages == \A x \in Xids : pos[x] # NoTid => pos[x][1] \in DOMAIN pages /\ pos[x][2] > 0
LeftInLog == \A x \in Xids : left[x] <= Len(undoLog[x]) /\ (pc[x] # "undo" => left[x] = 0)

\* The types in parts.
LEMMA TypesSplit ==
  TypeOK /\ Shape <=> StoreTypes /\ TransTypes /\ LocalTypes /\ ScansOnPages /\ LeftInLog
<1>1. TypeOK /\ Shape => StoreTypes
  BY DEF TypeOK, Shape, StoreTypes, LogTypes, Tuples
<1>2. TypeOK /\ Shape => TransTypes /\ LocalTypes /\ ScansOnPages /\ LeftInLog
  BY DEF TypeOK, Shape, TransTypes, LocalTypes, ScansOnPages, LeftInLog, Tuples
<1>3. StoreTypes /\ LocalTypes => TypeOK
  <2>1. pages \in Tables => pages \in Seq(Seq([dead : BOOLEAN, tup : Tuples]))
    BY DEF Tables, Items
  <2>. QED
    BY <2>1 DEF TypeOK, StoreTypes, LocalTypes, LogTypes, Tuples
<1>4. StoreTypes /\ TransTypes /\ LocalTypes /\ ScansOnPages /\ LeftInLog => Shape
  BY DEF Shape, StoreTypes, TransTypes, LocalTypes, ScansOnPages, LeftInLog
<1>. QED
  BY <1>1, <1>2, <1>3, <1>4

\* A transaction has no more records than there are.
LEMMA LogIsShort ==
  ASSUME StoreTypes, Logs, NEW x \in Xids
  PROVE  Len(undoLog[x]) \in 0..MaxUsn
<1>1. /\ Len(undoLog[x]) \in Nat /\ DOMAIN undoLog[x] = 1..Len(undoLog[x])
      /\ \A i \in 1..Len(undoLog[x]) : undoLog[x][i] \in 1..MaxUsn
  BY SeqElem DEF StoreTypes
<1>2. \A i \in 1..Len(undoLog[x]) : \A j \in 1..(i - 1) : undoLog[x][j] < undoLog[x][i]
  BY <1>1 DEF Logs
<1>. DEFINE T == {i \in 1..Len(undoLog[x]) : undoLog[x][i] < i}
<1>3. T = {}
  <2>. SUFFICES ASSUME T # {} PROVE FALSE
    OBVIOUS
  <2>1. T \subseteq Nat
    BY <1>1
  <2>2. PICK i \in T : \A k \in T : i <= k
    BY <2>1, LeastNatural
  <2>3. i \in 1..Len(undoLog[x]) /\ undoLog[x][i] < i /\ i \in Nat
    BY <1>1
  <2>4. i - 1 \in 1..Len(undoLog[x]) /\ i - 1 \in 1..(i - 1)
    BY <2>3, <1>1, Bounds
  <2>5. i - 1 \notin T
    BY <2>2, <2>3
  <2>6. undoLog[x][i - 1] >= i - 1
    BY <2>4, <2>5, <1>1, Bounds, SMTT(30)
  <2>7. undoLog[x][i - 1] < undoLog[x][i]
    BY <2>3, <2>4, <1>2
  <2>8. undoLog[x][i] \in Nat /\ undoLog[x][i - 1] \in Nat
    BY <2>3, <2>4, <1>1, Bounds, SMTT(30)
  <2>. HIDE DEF T
  <2>. QED
    BY <2>3, <2>6, <2>7, <2>8
<1>4. \A i \in 1..Len(undoLog[x]) : i <= MaxUsn
  <2>. SUFFICES ASSUME NEW i \in 1..Len(undoLog[x]) PROVE i <= MaxUsn
    OBVIOUS
  <2>1. ~(undoLog[x][i] < i)
    BY <1>3
  <2>2. undoLog[x][i] \in 1..MaxUsn
    BY <1>1
  <2>. QED
    BY <2>1, <2>2, <1>1, Bounds
<1>. QED
  BY <1>1, <1>4, Bounds

\* The types of what a scan and a waiter read.
LEMMA ReadTypes ==
  ASSUME TypeOK, Placed, Records, NEW x \in Xids
  PROVE  /\ \A t \in Places : Version(x, Item(t)) # NoTuple => Version(x, Item(t)) \in Tuples
         /\ Scanned /\ pc[x] \in Writing => OldItem(x).tup.xid \in 0..MaxXid
<1>1. ASSUME NEW t \in Places, Version(x, Item(t)) # NoTuple PROVE Version(x, Item(t)) \in Tuples
  <2>1. \/ Version(x, Item(t)) = Item(t).tup
        \/ \E u \in Usns : Version(x, Item(t)) = undo[u].tup
    BY <1>1, VersionFound
  <2>2. Item(t).tup \in Tuples /\ \A u \in Usns : undo[u].tup \in Tuples
    BY UndoTypes DEF Placed, TupleAt
  <2>. QED
    BY <2>1, <2>2, Zenon
<1>2. ASSUME Scanned, pc[x] \in Writing PROVE OldItem(x).tup.xid \in 0..MaxXid
  <2>1. Item(cur[x].tid).tup.xid \in Xids
    BY <1>2 DEF Scanned, Placed, TupleAt
  <2>. QED
    BY <2>1, Bounds DEF OldItem
<1>. QED
  BY <1>1, <1>2

\* The steps keep the types of the transactions.
LEMMA TransTypesKept ==
  ASSUME TransTypes, NEW x \in Xids,
         UNCHANGED transVars \/ Begin(x) \/ TakeSnapshot(x) \/ Commit(x) \/ Abort(x)
  PROVE  TransTypes'
<1>1. CASE UNCHANGED transVars
  BY <1>1 DEF TransTypes, transVars
<1>2. CASE Begin(x)
  BY <1>2 DEF TransTypes, Begin, InProgressCsn
<1>3. CASE TakeSnapshot(x)
  BY <1>3 DEF TransTypes, TakeSnapshot
<1>4. CASE Commit(x)
  BY <1>4 DEF TransTypes, Commit
<1>5. CASE Abort(x)
  BY <1>5 DEF TransTypes, Abort, AbortedCsn
<1>. QED
  BY <1>1, <1>2, <1>3, <1>4, <1>5

\* Each action does one of those.
LEMMA TransSteps ==
  ASSUME NEW x \in Xids,
         \/ BeginTransaction(x) \/ CommitTransaction(x)
         \/ \E kind \in Kinds : StartStatement(x, kind)
         \/ InsertTuple(x) \/ GetNextTuple(x) \/ GetNoTuple(x) \/ Write(x)
         \/ Rollback(x) \/ UndoRecord(x) \/ UndoFails(x) \/ RollbackEnds(x)
  PROVE  UNCHANGED transVars \/ Begin(x) \/ TakeSnapshot(x) \/ Commit(x) \/ Abort(x)
<1>1. CASE Write(x)
  BY <1>1, Zenon DEF Write, WriteNow, WriteRelocked, ChangeTuple, WriteConflict, RereadXid, WaitAborted, WaitCommitted
<1>2. CASE \E kind \in Kinds : StartStatement(x, kind)
  BY <1>2, Zenon DEF StartStatement
<1>3. CASE BeginTransaction(x) \/ CommitTransaction(x) \/ RollbackEnds(x)
  BY <1>3, Zenon DEF BeginTransaction, CommitTransaction, RollbackEnds
<1>4. CASE InsertTuple(x) \/ Rollback(x) \/ UndoRecord(x) \/ UndoFails(x)
  BY <1>4, Zenon DEF InsertTuple, Rollback, UndoRecord, UndoFails
<1>5. CASE GetNextTuple(x) \/ GetNoTuple(x)
  BY <1>5, Zenon DEF GetNextTuple, GetNoTuple
<1>. QED
  BY <1>1, <1>2, <1>3, <1>4, <1>5

\* At most the entry of x changes, to a value of the type.
Entry(f, g, x, T) == g = f \/ \E v \in T : g = [f EXCEPT ![x] = v]

Pcs == {"none", "idle", "insert", "scan", "write", "reread", "wait", "relock", "undo", "ended"}
LocalEntries(x) ==
  /\ Entry(snapCid, snapCid', x, 0..(MaxUsn + 1)) /\ Entry(op, op', x, Kinds \cup {"none"})
  /\ Entry(pc, pc', x, Pcs) /\ Entry(pos, pos', x, Nat \X Nat)
  /\ Entry(cur, cur', x, [tid : (0..MaxPages) \X (0..RowsPerPage), tup : Tuples])
  /\ Entry(waitFor, waitFor', x, 0..MaxXid) /\ Entry(left, left', x, 0..MaxUsn)

\* The types of the locals, where the new values have theirs.
LEMMA LocalTypesKept ==
  ASSUME LocalTypes, NEW x \in Xids, LocalEntries(x)
  PROVE  LocalTypes'
<1>1. ASSUME NEW f, NEW g, NEW T, f \in [Xids -> T], Entry(f, g, x, T) PROVE g \in [Xids -> T]
  <2>1. CASE g = f
    BY <1>1, <2>1
  <2>2. ASSUME NEW v \in T, g = [f EXCEPT ![x] = v] PROVE g \in [Xids -> T]
    BY <1>1, <2>2
  <2>. QED
    BY <1>1, <2>1, <2>2 DEF Entry
<1>. QED
  BY <1>1, Zenon DEF LocalTypes, LocalEntries, Pcs

\* Values of the types of the locals.
LEMMA LocalValues ==
  /\ 0 \in 0..(MaxUsn + 1) /\ "none" \in Kinds \cup {"none"} /\ NoTid \in Nat \X Nat
  /\ <<1, 1>> \in Nat \X Nat /\ 0 \in 0..MaxXid /\ 0 \in 0..MaxUsn
  /\ NoScanned \in [tid : (0..MaxPages) \X (0..RowsPerPage), tup : Tuples]
<1>1. NoTuple \in Tuples /\ NoTid \in (0..MaxPages) \X (0..RowsPerPage)
  BY Bounds DEF NoTuple, Tuples, NoTid
<1>. QED
  BY <1>1, Bounds DEF NoScanned, NoTid

\* The last record of a log that is not empty.
LEMMA LastElem == ASSUME NEW S, NEW s \in Seq(S), s # <<>> PROVE
  /\ Len(s) \in 1..Len(s) /\ Len(s) > 0 /\ s[Len(s)] \in S
  OBVIOUS

\* The command id that follows a record.
LEMMA NextCid == \A u \in 1..MaxUsn : u + 1 \in 0..(MaxUsn + 1)
  BY Bounds

\* The steps keep the types of the locals.
LEMMA LocalSteps ==
  ASSUME TypeOK, Shape, Logs, Placed, Records, Scanned, NEW x \in Xids,
         \/ BeginTransaction(x) \/ CommitTransaction(x)
         \/ \E kind \in Kinds : StartStatement(x, kind)
         \/ InsertTuple(x) \/ GetNextTuple(x) \/ GetNoTuple(x) \/ Write(x)
         \/ Rollback(x) \/ UndoRecord(x) \/ UndoFails(x) \/ RollbackEnds(x)
  PROVE  LocalEntries(x)
<1>. USE LocalValues DEF LocalEntries, Entry
<1>1. Pcs = {"none", "idle", "insert", "scan", "write", "reread", "wait", "relock", "undo", "ended"}
  BY DEF Pcs
<1>2. ASSUME EndStatement(x)
      PROVE  /\ Entry(op, op', x, Kinds \cup {"none"}) /\ Entry(pos, pos', x, Nat \X Nat)
             /\ Entry(cur, cur', x, [tid : (0..MaxPages) \X (0..RowsPerPage), tup : Tuples])
  <2>1. op[x] \in Kinds \cup {"none"}
    BY DEF TypeOK
  <2>2. Entry(op, op', x, Kinds \cup {"none"})
    BY <1>2, <2>1, Zenon DEF EndStatement
  <2>. QED
    BY <1>2, <2>2, Zenon DEF EndStatement
<1>3. ASSUME NEW a \in Pcs, NEW b \in Pcs, Goto(x, a, b) PROVE Entry(pc, pc', x, Pcs)
  BY <1>3, Zenon DEF Goto
<1>4. CASE BeginTransaction(x)
  BY <1>4, <1>1, <1>3, Zenon DEF BeginTransaction, scanVars
<1>5. CASE CommitTransaction(x)
  BY <1>5, <1>1, <1>3, Zenon DEF CommitTransaction, Finish, InvalidUsn
<1>6. CASE RollbackEnds(x)
  BY <1>6, <1>1, <1>3, Zenon DEF RollbackEnds, Finish, InvalidUsn
<1>7. CASE \E kind \in Kinds : StartStatement(x, kind)
  <2>1. PICK kind \in Kinds : StartStatement(x, kind)
    BY <1>7
  <2>2. Entry(pc, pc', x, Pcs)
    BY <2>1, <1>1, <1>3 DEF StartStatement
  <2>3. Entry(snapCid, snapCid', x, 0..(MaxUsn + 1))
    <3>1. CASE TakeSnapshot(x) /\ UNCHANGED snapCid
      BY <3>1
    <3>2. CASE snapCid' = [snapCid EXCEPT ![x] =
                             IF undoLog[x] = <<>> THEN @ ELSE undoLog[x][Len(undoLog[x])] + 1]
      <4>1. snapCid[x] \in 0..(MaxUsn + 1) /\ undoLog[x] \in Seq(1..MaxUsn)
        BY DEF TypeOK
      <4>2. CASE undoLog[x] = <<>>
        BY <3>2, <4>1, <4>2, Zenon
      <4>3. CASE undoLog[x] # <<>>
        <5>1. undoLog[x][Len(undoLog[x])] \in 1..MaxUsn
          BY <4>1, <4>3, LastElem
        <5>2. undoLog[x][Len(undoLog[x])] + 1 \in 0..(MaxUsn + 1)
          BY <5>1, NextCid
        <5>. QED
          BY <3>2, <4>3, <5>2, Zenon
      <4>. QED
        BY <4>2, <4>3
    <3>. QED
      BY <2>1, <3>1, <3>2, Zenon DEF StartStatement
  <2>4. Entry(op, op', x, Kinds \cup {"none"}) /\ Entry(pos, pos', x, Nat \X Nat)
    BY <2>1, Zenon DEF StartStatement
  <2>. QED
    BY <2>1, <2>2, <2>3, <2>4, Zenon DEF StartStatement
<1>8. CASE InsertTuple(x)
  <2>1. CASE Goto(x, "insert", "insert") /\ UNCHANGED scanVars
    BY <2>1, <1>8, <1>1, <1>3, Zenon DEF InsertTuple, scanVars
  <2>2. CASE Goto(x, "insert", "idle") /\ EndStatement(x)
    BY <2>2, <1>8, <1>1, <1>2, <1>3, Zenon DEF InsertTuple
  <2>. QED
    BY <1>8, <2>1, <2>2, Zenon DEF InsertTuple
<1>9. CASE GetNextTuple(x)
  <2>1. PICK p, i, hits, e :
          /\ p = pos[x][1] /\ hits = {k \in DOMAIN pages[p] : k >= pos[x][2] /\ Version(x, pages[p][k]) # NoTuple}
          /\ i = Min(hits) /\ hits # {} /\ pos[x] # NoTid /\ e = [tid |-> <<p, i>>, tup |-> Version(x, pages[p][i])]
          /\ pos' = [pos EXCEPT ![x] = <<p, i + 1>>]
          /\ \/ pc' = [pc EXCEPT ![x] = "scan"] /\ cur' = cur
             \/ \E qual \in BOOLEAN :
                  /\ pc' = [pc EXCEPT ![x] = IF qual THEN "write" ELSE "scan"]
                  /\ cur' = IF qual THEN [cur EXCEPT ![x] = e] ELSE cur
          /\ UNCHANGED <<transVars, storeVars, op, snapCid, waitFor, left, failed>>
    BY <1>9, Zenon DEF GetNextTuple, Goto
  <2>2. p \in DOMAIN pages /\ DOMAIN pages[p] \subseteq Nat /\ p \in Nat
    <3>2. ScansOnPages
      BY TypesSplit
    <3>1. pos[x][1] \in DOMAIN pages
      BY <2>1, <3>2, Zenon DEF ScansOnPages
    <3>4. pages \in Tables /\ p \in DOMAIN pages
      BY <2>1, <3>1, Zenon DEF Shape
    <3>3. DOMAIN pages = 1..Len(pages) /\ DOMAIN pages[p] = 1..Len(pages[p]) /\ Len(pages) \in Nat
      BY <3>4, TablePages, Zenon
    <3>. QED
      BY <3>3, <3>4
  <2>3. i \in DOMAIN pages[p] /\ Version(x, pages[p][i]) # NoTuple /\ i \in Nat
    BY <2>1, <2>2, LeastNatural
  <2>4. PICK t : t = <<p, i>>
    OBVIOUS
  <2>5. t \in Places /\ Item(t) = pages[p][i]
    BY <2>2, <2>3, <2>4, TablePages DEF Item, Shape, Places
  <2>6. Version(x, pages[p][i]) \in Tuples /\ t \in (0..MaxPages) \X (0..RowsPerPage)
    BY <2>3, <2>5, ReadTypes, PlaceTid DEF Places, PlacesOf
  <2>7. e \in [tid : (0..MaxPages) \X (0..RowsPerPage), tup : Tuples]
    BY <2>1, <2>4, <2>6
  <2>8. <<p, i + 1>> \in Nat \X Nat
    BY <2>2, <2>3
  <2>9. Entry(cur, cur', x, [tid : (0..MaxPages) \X (0..RowsPerPage), tup : Tuples]) /\ Entry(pos, pos', x, Nat \X Nat)
    BY <2>1, <2>7, <2>8, Zenon
  <2>10. Entry(pc, pc', x, Pcs)
    BY <2>1, <1>1, Zenon
  <2>. QED
    BY <2>1, <2>9, <2>10, Zenon
<1>10. CASE GetNoTuple(x)
  BY <1>10, <1>1, <1>2, <1>3, Zenon DEF GetNoTuple
<1>11. CASE Rollback(x)
  <2>1. Len(undoLog[x]) \in 0..MaxUsn
    BY LogIsShort, TypesSplit
  <2>. QED
    BY <1>11, <2>1, <1>1, <1>3, Zenon DEF Rollback, scanVars
<1>12. CASE UndoFails(x)
  BY <1>12, <1>1, <1>3, Zenon DEF UndoFails, scanVars
<1>13. CASE UndoRecord(x)
  <2>1. left[x] \in 0..MaxUsn /\ left[x] > 0
    BY <1>13 DEF UndoRecord, TypeOK
  <2>2. left[x] - 1 \in 0..MaxUsn
    BY <2>1, Bounds, SMTT(30)
  <2>. QED
    BY <1>13, <2>2, Zenon DEF UndoRecord, scanVars
<1>14. CASE WriteNow(x) \/ WriteRelocked(x)
  BY <1>14, <1>1, <1>3, Zenon DEF WriteNow, WriteRelocked, ChangeTuple
<1>15. CASE WriteConflict(x) \/ RereadXid(x) \/ WaitAborted(x)
  <2>1. CASE WriteConflict(x)
    BY <2>1, <1>1, <1>3, Zenon DEF WriteConflict, scanVars
  <2>2. CASE RereadXid(x)
    <3>1. OldItem(x).tup.xid \in 0..MaxXid
      BY <2>2, ReadTypes DEF RereadXid, Goto, Writing
    <3>. QED
      BY <2>2, <3>1, <1>1, <1>3, Zenon DEF RereadXid, scanVars
  <2>3. CASE WaitAborted(x)
    BY <2>3, <1>1, <1>3, Zenon DEF WaitAborted, scanVars
  <2>. QED
    BY <1>15, <2>1, <2>2, <2>3
<1>16. CASE WaitCommitted(x)
  BY <1>16, <1>1, <1>2, <1>3, Zenon DEF WaitCommitted
<1>. QED
  BY <1>4, <1>5, <1>6, <1>7, <1>8, <1>9, <1>10, <1>11, <1>12, <1>13, <1>14, <1>15, <1>16 DEF Write

\* The steps keep the types of the table.
LEMMA StoreSteps ==
  ASSUME TypeOK, Shape, Logs, Placed, Records, Scanned, NEW x \in Xids,
         \/ BeginTransaction(x) \/ CommitTransaction(x)
         \/ \E kind \in Kinds : StartStatement(x, kind)
         \/ InsertTuple(x) \/ GetNextTuple(x) \/ GetNoTuple(x) \/ Write(x)
         \/ Rollback(x) \/ UndoRecord(x) \/ UndoFails(x) \/ RollbackEnds(x)
  PROVE  StoreTypes' /\ Len(pages) <= Len(pages')
<1>1. StoreTypes
  BY TypesSplit
<1>2. \A ps \in Tables : Len(ps) \in Nat /\ DOMAIN ps = 1..Len(ps)
  BY TablePages
<1>3. ASSUME UNCHANGED <<pages, loose, undo, rowOf, clobbered>>,
             undoLog' = undoLog \/ undoLog' = [undoLog EXCEPT ![x] = <<>>]
      PROVE  StoreTypes' /\ Len(pages) <= Len(pages')
  <2>1. undoLog' \in [Xids -> Seq(1..MaxUsn)]
    <3>1. PICK S : S = Seq(1..MaxUsn)
      OBVIOUS
    <3>2. <<>> \in S /\ undoLog \in [Xids -> S]
      BY <3>1, <1>1 DEF StoreTypes
    <3>3. undoLog' \in [Xids -> S]
      BY <3>2, <1>3
    <3>. QED
      BY <3>1, <3>3
  <2>2. LogTypes' <=> LogTypes
    BY <1>3 DEF LogTypes
  <2>3. Len(pages) \in Nat
    BY <1>1, <1>2 DEF StoreTypes
  <2>. QED
    BY <1>1, <1>3, <2>1, <2>2, <2>3 DEF StoreTypes
<1>4. ASSUME NEW u, RecordAdded(u), undoLog' = [undoLog EXCEPT ![x] = Append(@, u)]
      PROVE  LogTypes' /\ Len(undo') <= MaxUsn /\ undoLog' \in [Xids -> Seq(1..MaxUsn)]
  <2>1. undoLog[x] \in Seq(1..MaxUsn) /\ undoLog \in [Xids -> Seq(1..MaxUsn)]
    BY <1>1 DEF StoreTypes
  <2>2. Append(undoLog[x], u) \in Seq(1..MaxUsn)
    BY <1>4, <2>1, SeqAppend DEF RecordAdded
  <2>3. undoLog' \in [Xids -> Seq(1..MaxUsn)]
    BY <1>4, <2>1, <2>2
  <2>4. Len(undo') <= MaxUsn
    BY <1>4, Bounds DEF RecordAdded
  <2>. QED
    BY <1>4, <2>3, <2>4 DEF RecordAdded
<1>5. CASE BeginTransaction(x) \/ CommitTransaction(x) \/ RollbackEnds(x) \/ Rollback(x) \/ UndoFails(x)
  BY <1>5, <1>3, Zenon DEF BeginTransaction, CommitTransaction, RollbackEnds, Rollback, UndoFails, Finish, storeVars
<1>6. CASE \E kind \in Kinds : StartStatement(x, kind)
  BY <1>6, <1>3, Zenon DEF StartStatement, storeVars
<1>7. CASE GetNextTuple(x) \/ GetNoTuple(x)
  BY <1>7, <1>3, Zenon DEF GetNextTuple, GetNoTuple, storeVars
<1>8. CASE WriteConflict(x) \/ RereadXid(x) \/ WaitAborted(x) \/ WaitCommitted(x)
  BY <1>8, <1>3, Zenon DEF WriteConflict, RereadXid, WaitAborted, WaitCommitted, storeVars
<1>9. CASE InsertTuple(x)
  <2>1. PICK u, n : InsertEffect(x, u, n)
    BY <1>9, InsertDoes
  <2>2. loose' = loose /\ clobbered' = clobbered
    BY <1>9, Zenon DEF InsertTuple
  <2>3. pages' \in Tables /\ Len(pages) <= Len(pages')
    BY <2>1 DEF InsertEffect
  <2>4. loose' \subseteq DOMAIN pages'
    BY <1>1, <1>2, <2>2, <2>3 DEF StoreTypes
  <2>5. LogTypes' /\ Len(undo') <= MaxUsn /\ undoLog' \in [Xids -> Seq(1..MaxUsn)]
    BY <2>1, <1>4, Zenon DEF InsertEffect
  <2>. QED
    BY <1>1, <2>2, <2>3, <2>4, <2>5 DEF StoreTypes
<1>10. CASE WriteNow(x) \/ WriteRelocked(x)
  <2>1. ChangeTuple(x) /\ pc[x] \in Writing
    BY <1>10, Zenon DEF WriteNow, WriteRelocked, Goto, Writing
  <2>2. PICK u, c, n : WriteEffect(x, u, c, n)
    BY <2>1, WriteDoes
  <2>3. /\ pages' \in Tables /\ Len(pages') = Len(pages) /\ c = cur[x].tid /\ c \in Places
        /\ RecordAdded(u) /\ undoLog' = [undoLog EXCEPT ![x] = Append(@, u)]
    BY <2>2, Zenon DEF WriteEffect
  <2>4. c[1] \in DOMAIN pages /\ DOMAIN pages' = DOMAIN pages /\ Len(pages) \in Nat
    BY <1>1, <1>2, <2>3 DEF StoreTypes, Places, PlacesOf
  <2>5. loose' \subseteq DOMAIN pages'
    <3>1. loose' = loose \/ loose' = loose \cup {c[1]}
      BY <2>1, <2>3, Zenon DEF ChangeTuple, UpdateInPlace, UpdateMoved, DeleteTuple
    <3>. QED
      BY <3>1, <2>4, <1>1 DEF StoreTypes
  <2>6. clobbered' \subseteq 1..MaxUsn
    <3>1. Row(c) \in 1..MaxUsn
      BY <2>3, UndoTypes DEF Row, Placed, TupleAt
    <3>2. clobbered' = clobbered \/ clobbered' = clobbered \cup {Row(c)}
      BY <1>10, <2>3, Zenon DEF WriteNow, WriteRelocked, Row, OldItem
    <3>. QED
      BY <3>1, <3>2, <1>1 DEF StoreTypes
  <2>7. LogTypes' /\ Len(undo') <= MaxUsn /\ undoLog' \in [Xids -> Seq(1..MaxUsn)]
    BY <2>3, <1>4
  <2>. QED
    BY <2>3, <2>4, <2>5, <2>6, <2>7 DEF StoreTypes
<1>11. CASE UndoRecord(x)
  <2>1. PICK u, o, n : UndoEffect(u, o, n)
    BY <1>11, UndoDoes, Zenon
  <2>2. loose' = loose /\ clobbered' = clobbered
    BY <1>11, Zenon DEF UndoRecord
  <2>3. pages' \in Tables /\ Len(pages') = Len(pages) /\ undo' = undo /\ rowOf' = rowOf /\ undoLog' = undoLog
    BY <2>1, Zenon DEF UndoEffect
  <2>4. DOMAIN pages' = DOMAIN pages /\ Len(pages) \in Nat
    BY <1>1, <1>2, <2>3 DEF StoreTypes
  <2>5. LogTypes' <=> LogTypes
    BY <2>3, Zenon DEF LogTypes
  <2>. QED
    BY <1>1, <2>2, <2>3, <2>4, <2>5 DEF StoreTypes
<1>. QED
  BY <1>5, <1>6, <1>7, <1>8, <1>9, <1>10, <1>11 DEF Write

-----------------------------------------------------------------------------
(* The steps                                                                *)

InsertedAt(x, u, n) == Inserted(x) /\ InsertEffect(x, u, n)
WroteAt(x, u, c, n) == Wrote(x, c) /\ WriteEffect(x, u, c, n)
UndidAt(x, u, o, n) ==
  /\ Undid(x) /\ u = undoLog[x][left[x]] /\ u \in Usns /\ undo[u].xid = x /\ left[x] \in DOMAIN undoLog[x]
  /\ UndoEffect(u, o, n)

Step(x) ==
  \/ Quiet(x) \/ (\E u, n : InsertedAt(x, u, n)) \/ (\E u, c, n : WroteAt(x, u, c, n))
  \/ (\E u, o, n : UndidAt(x, u, o, n))

\* Every action is one of those steps.
LEMMA StepOf ==
  ASSUME TypeOK, Shape, Logs, Placed, Records, Scanned, NEW x \in Xids,
         \/ BeginTransaction(x) \/ CommitTransaction(x)
         \/ \E kind \in Kinds : StartStatement(x, kind)
         \/ InsertTuple(x) \/ GetNextTuple(x) \/ GetNoTuple(x) \/ Write(x)
         \/ Rollback(x) \/ UndoRecord(x) \/ UndoFails(x) \/ RollbackEnds(x)
  PROVE  Step(x)
<1>1. CASE InsertTuple(x)
  BY <1>1, InsertDoes, InsertLocal, Zenon DEF InsertedAt, Step
<1>2. CASE WriteNow(x) \/ WriteRelocked(x)
  <2>1. ChangeTuple(x) /\ pc[x] \in Writing
    BY <1>2, Zenon DEF WriteNow, WriteRelocked, Goto, Writing
  <2>. QED
    BY <1>2, <2>1, WriteDoes, WriteLocal, Zenon DEF WroteAt, Step
<1>3. CASE UndoRecord(x)
  BY <1>3, UndoDoes, UndoLocal, Zenon DEF UndidAt, Step
<1>. QED
  BY <1>1, <1>2, <1>3, QuietSteps DEF Write, Step

\* The values of the locals.
LEMMA LocalValuesAt ==
  ASSUME TypeOK, Shape, NEW x \in Xids
  PROVE  /\ status[x] \in Nat /\ snapCsn[x] \in Nat /\ nextCsn \in Nat
         /\ snapCid[x] \in Nat /\ left[x] \in Nat
         /\ undoLog[x] \in Seq(1..MaxUsn) /\ Len(undoLog[x]) \in Nat /\ DOMAIN undoLog[x] = 1..Len(undoLog[x])
         /\ \A i \in DOMAIN undoLog[x] : undoLog[x][i] \in 1..MaxUsn
         /\ pos[x][1] \in Nat /\ pos[x][2] \in Nat
<1>1. status[x] \in Nat /\ snapCsn[x] \in Nat /\ nextCsn \in Nat /\ pos[x] \in Nat \X Nat
  BY DEF Shape
<1>2. snapCid[x] \in 0..(MaxUsn + 1) /\ left[x] \in 0..MaxUsn /\ undoLog[x] \in Seq(1..MaxUsn)
  BY DEF TypeOK
<1>3. /\ Len(undoLog[x]) \in Nat /\ DOMAIN undoLog[x] = 1..Len(undoLog[x])
      /\ \A i \in DOMAIN undoLog[x] : undoLog[x][i] \in 1..MaxUsn
  BY <1>2, SeqElem
<1>4. pos[x][1] \in Nat /\ pos[x][2] \in Nat
  BY <1>1
<1>5. snapCid[x] \in Nat /\ left[x] \in Nat
  BY <1>2, Bounds
<1>. QED
  BY <1>1, <1>2, <1>3, <1>4, <1>5, Zenon

\* A log that gets a record.
LEMMA LogGrows ==
  ASSUME TypeOK, Shape, NEW x \in Xids, NEW u \in 1..MaxUsn, undoLog' = [undoLog EXCEPT ![x] = Append(@, u)]
  PROVE  /\ undoLog'[x] = Append(undoLog[x], u) /\ Len(undoLog'[x]) = Len(undoLog[x]) + 1
         /\ DOMAIN undoLog'[x] = 1..(Len(undoLog[x]) + 1) /\ undoLog'[x][Len(undoLog[x]) + 1] = u
         /\ \A i \in DOMAIN undoLog[x] : undoLog'[x][i] = undoLog[x][i]
<1>1. undoLog'[x] = Append(undoLog[x], u)
  BY Functions, Zenon
<1>2. undoLog[x] \in Seq(1..MaxUsn) /\ DOMAIN undoLog[x] = 1..Len(undoLog[x])
  BY LocalValuesAt
<1>3. PICK s : s = undoLog[x] /\ s \in Seq(1..MaxUsn)
  BY <1>2
<1>4. /\ Len(Append(s, u)) = Len(s) + 1 /\ DOMAIN Append(s, u) = 1..(Len(s) + 1) /\ Append(s, u)[Len(s) + 1] = u
      /\ \A i \in 1..Len(s) : Append(s, u)[i] = s[i]
  BY <1>3, SeqAppend
<1>. QED
  BY <1>1, <1>2, <1>3, <1>4, Zenon

\* The steps keep scans and rollbacks within the table and the logs.
LEMMA BoundsKept ==
  ASSUME TypeOK, Shape, NEW x \in Xids, Step(x), Len(pages) <= Len(pages'), pages' \in Tables
  PROVE  ScansOnPages' /\ LeftInLog'
<1>. USE DEF ScanKept, LogKept, TransKept
<1>1. DOMAIN pages \subseteq DOMAIN pages' /\ (pages # <<>> => 1 \in DOMAIN pages)
  <2>1. pages \in Tables
    BY DEF Shape
  <2>2. Len(pages) \in Nat /\ DOMAIN pages = 1..Len(pages) /\ DOMAIN pages' = 1..Len(pages') /\ Len(pages') \in Nat
        /\ pages \in Seq(Seq(Items))
    BY <2>1, TablePages
  <2>3. pages # <<>> => Len(pages) > 0
    BY <2>2
  <2>. QED
    BY <2>2, <2>3
<1>2. ScansOnPages /\ LeftInLog
  BY TypesSplit
<1>3. \A y \in Xids : /\ left[y] \in Nat /\ Len(undoLog[y]) \in Nat /\ pos[y][1] \in Nat /\ pos[y][2] \in Nat
  BY LocalValuesAt
<1>4. OthersKept(x)
  BY DEF Step, Quiet, InsertedAt, Inserted, WroteAt, Wrote, UndidAt, Undid
<1>5. ASSUME NEW y \in Xids, y # x
      PROVE  /\ pos'[y] # NoTid => pos'[y][1] \in DOMAIN pages' /\ pos'[y][2] > 0
             /\ left'[y] <= Len(undoLog'[y]) /\ (pc'[y] # "undo" => left'[y] = 0)
  BY <1>1, <1>2, <1>4, <1>5 DEF ScansOnPages, LeftInLog, OthersKept
<1>6. /\ pos[x] # NoTid => pos[x][1] \in DOMAIN pages' /\ pos[x][2] > 0
      /\ left[x] <= Len(undoLog[x]) /\ (pc[x] # "undo" => left[x] = 0)
  BY <1>1, <1>2 DEF ScansOnPages, LeftInLog
<1>7. /\ pos'[x] # NoTid => pos'[x][1] \in DOMAIN pages' /\ pos'[x][2] > 0
      /\ left'[x] <= Len(undoLog'[x]) /\ (pc'[x] # "undo" => left'[x] = 0)
  <2>1. CASE Began(x) \/ Stopped(x) \/ Waits(x) \/ RollsBack(x) \/ GivesUp(x)
    BY <2>1, <1>3, <1>6 DEF Began, Stopped, Waits, RollsBack, GivesUp, Writing
  <2>2. CASE Committed(x) \/ RolledBack(x)
    <3>1. Len(undoLog'[x]) = 0
      BY <2>2 DEF Committed, RolledBack
    <3>. QED
      BY <2>2, <3>1, <1>6 DEF Committed, RolledBack
  <2>3. CASE Started(x)
    <3>1. pos'[x] = NoTid \/ (pos'[x] = <<1, 1>> /\ 1 \in DOMAIN pages')
      BY <2>3, <1>1 DEF Started
    <3>. QED
      BY <2>3, <3>1, <1>6 DEF Started
  <2>4. ASSUME NEW t, Found(x, t)
        PROVE  /\ pos'[x] # NoTid => pos'[x][1] \in DOMAIN pages' /\ pos'[x][2] > 0
               /\ left'[x] <= Len(undoLog'[x]) /\ (pc'[x] # "undo" => left'[x] = 0)
    <3>1. pos'[x][1] = pos[x][1] /\ pos'[x][2] = t[2] + 1 /\ t[2] \in Nat /\ pos[x] # NoTid
      BY <2>4, Bounds DEF Found, Places, PlacesOf
    <3>. QED
      BY <2>4, <3>1, <1>6 DEF Found
  <2>5. ASSUME NEW u, NEW n, InsertedAt(x, u, n)
        PROVE  /\ pos'[x] # NoTid => pos'[x][1] \in DOMAIN pages' /\ pos'[x][2] > 0
               /\ left'[x] <= Len(undoLog'[x]) /\ (pc'[x] # "undo" => left'[x] = 0)
    <3>1. Len(undoLog'[x]) = Len(undoLog[x]) + 1
      BY <2>5, LogGrows DEF InsertedAt, InsertEffect, RecordAdded
    <3>. QED
      BY <2>5, <3>1, <1>3, <1>6 DEF InsertedAt, Inserted
  <2>6. ASSUME NEW u, NEW c, NEW n, WroteAt(x, u, c, n)
        PROVE  /\ pos'[x] # NoTid => pos'[x][1] \in DOMAIN pages' /\ pos'[x][2] > 0
               /\ left'[x] <= Len(undoLog'[x]) /\ (pc'[x] # "undo" => left'[x] = 0)
    <3>1. Len(undoLog'[x]) = Len(undoLog[x]) + 1
      BY <2>6, LogGrows DEF WroteAt, WriteEffect, RecordAdded
    <3>. QED
      BY <2>6, <3>1, <1>3, <1>6 DEF WroteAt, Wrote
  <2>7. ASSUME NEW u, NEW o, NEW n, UndidAt(x, u, o, n)
        PROVE  /\ pos'[x] # NoTid => pos'[x][1] \in DOMAIN pages' /\ pos'[x][2] > 0
               /\ left'[x] <= Len(undoLog'[x]) /\ (pc'[x] # "undo" => left'[x] = 0)
    <3>1. undoLog' = undoLog
      BY <2>7, Zenon DEF UndidAt, UndoEffect
    <3>2. Undid(x)
      BY <2>7, Zenon DEF UndidAt
    <3>. QED
      BY <3>1, <3>2, <1>3, <1>6 DEF Undid
  <2>. QED
    BY <2>1, <2>2, <2>3, <2>4, <2>5, <2>6, <2>7 DEF Step, Quiet
<1>. QED
  BY <1>5, <1>7 DEF ScansOnPages, LeftInLog

\* The types.
LEMMA TypesStep ==
  ASSUME TypeOK, Shape, Logs, Placed, Records, Scanned, Next
  PROVE  TypeOK' /\ Shape'
<1>1. PICK x \in Xids :
         \/ BeginTransaction(x) \/ CommitTransaction(x)
         \/ \E kind \in Kinds : StartStatement(x, kind)
         \/ InsertTuple(x) \/ GetNextTuple(x) \/ GetNoTuple(x) \/ Write(x)
         \/ Rollback(x) \/ UndoRecord(x) \/ UndoFails(x) \/ RollbackEnds(x)
  BY DEF Next
<1>2. TransTypes /\ LocalTypes
  BY TypesSplit
<1>3. TransTypes'
  BY <1>1, <1>2, TransSteps, TransTypesKept
<1>4. LocalTypes'
  BY <1>1, <1>2, LocalSteps, LocalTypesKept
<1>5. StoreTypes' /\ Len(pages) <= Len(pages')
  BY <1>1, StoreSteps
<1>6. ScansOnPages' /\ LeftInLog'
  <2>1. Step(x) /\ pages' \in Tables
    BY <1>1, <1>5, StepOf DEF StoreTypes
  <2>. QED
    BY <2>1, <1>5, BoundsKept
<1>7. StoreTypes' /\ TransTypes' /\ LocalTypes' /\ ScansOnPages' /\ LeftInLog' => TypeOK' /\ Shape'
  BY TypesSplit, PTL
<1>. QED
  BY <1>3, <1>4, <1>5, <1>6, <1>7

\* A step changes one transaction.
LEMMA StepKeepsOthers ==
  ASSUME NEW x \in Xids, Step(x)
  PROVE  OthersKept(x) /\ clobbered \subseteq clobbered'
  BY DEF Step, Quiet, StoreKept, InsertedAt, Inserted, WroteAt, Wrote, UndidAt, Undid

\* Where a transaction is, its status and its snapshot.
LEMMA LivesStep ==
  ASSUME TypeOK, Shape, Lives, NEW x \in Xids, Step(x)
  PROVE  Lives'
<1>. USE DEF TransKept, InvalidCsn, InProgressCsn, AbortedCsn, MinCsn, IsNormal
<1>. DEFINE Life(p, s, n, N) ==
       /\ p = "none" <=> s = InvalidCsn
       /\ p = "ended" <=> s = AbortedCsn \/ IsNormal(s)
       /\ p \notin {"none", "ended"} => s = InProgressCsn
       /\ p \in Scanning \cup {"insert"} => n # InvalidCsn
       /\ n <= N
       /\ IsNormal(s) => s < N /\ n <= s
<1>1. /\ \A y \in Xids : status[y] \in Nat /\ snapCsn[y] \in Nat
      /\ nextCsn \in Nat /\ OthersKept(x)
  BY LocalValuesAt, StepKeepsOthers
<1>2. nextCsn >= MinCsn /\ \A y \in Xids : Life(pc[y], status[y], snapCsn[y], nextCsn)
  BY DEF Lives
<1>3. nextCsn' \in {nextCsn, nextCsn + 1} /\ Life(pc'[x], status'[x], snapCsn'[x], nextCsn')
  <2>. USE <1>1, <1>2 DEF Scanning, Writing
  <2>1. CASE Began(x)
    BY <2>1 DEF Began
  <2>2. CASE Started(x)
    BY <2>2 DEF Started
  <2>3. CASE Committed(x)
    BY <2>3 DEF Committed
  <2>4. CASE \E t : Found(x, t)
    <3>1. pc[x] = "scan" /\ pc'[x] \in {"scan", "write"} /\ TransKept(x)
      BY <2>4 DEF Found
    <3>. QED
      BY <3>1
  <2>5. CASE Stopped(x)
    BY <2>5 DEF Stopped
  <2>6. CASE Waits(x)
    BY <2>6 DEF Waits
  <2>7. CASE RollsBack(x)
    BY <2>7 DEF RollsBack
  <2>8. CASE GivesUp(x)
    BY <2>8 DEF GivesUp
  <2>9. CASE RolledBack(x)
    BY <2>9 DEF RolledBack
  <2>10. CASE Inserted(x)
    BY <2>10 DEF Inserted
  <2>11. CASE \E c : Wrote(x, c)
    <3>1. pc[x] \in {"write", "relock"} /\ pc'[x] = "scan" /\ TransKept(x)
      BY <2>11 DEF Wrote
    <3>. QED
      BY <3>1
  <2>12. CASE Undid(x)
    BY <2>12 DEF Undid
  <2>. QED
    BY <2>1, <2>2, <2>3, <2>4, <2>5, <2>6, <2>7, <2>8, <2>9, <2>10, <2>11, <2>12
       DEF Step, Quiet, InsertedAt, WroteAt, UndidAt
<1>4. ASSUME NEW y \in Xids, y # x PROVE Life(pc'[y], status'[y], snapCsn'[y], nextCsn')
  <2>1. pc'[y] = pc[y] /\ status'[y] = status[y] /\ snapCsn'[y] = snapCsn[y]
    BY <1>1, <1>4 DEF OthersKept
  <2>. QED
    BY <2>1, <1>1, <1>2, <1>3
<1>5. nextCsn' >= MinCsn
  BY <1>1, <1>2, <1>3
<1>6. \A y \in Xids : Life(pc'[y], status'[y], snapCsn'[y], nextCsn')
  BY <1>3, <1>4
<1>. QED
  BY <1>5, <1>6 DEF Lives

\* The log of a transaction.
LogOf(x) ==
  \A i \in DOMAIN undoLog[x] :
    /\ undoLog[x][i] \in Usns /\ undo[undoLog[x][i]].xid = x
    /\ \A j \in 1..(i - 1) : undoLog[x][j] < undoLog[x][i]
Logged(u) == LET x == undo[u].xid IN
  /\ status[x] # InvalidCsn /\ snapCsn[x] # InvalidCsn
  /\ status[x] = InProgressCsn => \E i \in DOMAIN undoLog[x] : undoLog[x][i] = u

\* A quiet step.
LEMMA LogsQuiet ==
  ASSUME TypeOK, Shape, Lives, Logs, NEW x \in Xids, Quiet(x)
  PROVE  Logs'
<1>1. /\ undo' = undo /\ Usns' = Usns /\ OthersKept(x) /\ nextCsn \in Nat /\ nextCsn >= MinCsn
      /\ (pc[x] \notin {"none", "ended"} => status[x] = InProgressCsn)
      /\ \A u \in Usns : undo[u].xid \in Xids
  BY LocalValuesAt, UsnTypes DEF Quiet, StoreKept, Usns, Lives
<1>2. \/ undoLog'[x] = undoLog[x] /\ (status[x] \in {InvalidCsn, InProgressCsn} => status'[x] = InProgressCsn)
         /\ (snapCsn[x] # InvalidCsn => snapCsn'[x] # InvalidCsn)
         /\ (status[x] # InvalidCsn => status'[x] = status[x])
      \/ undoLog'[x] = <<>> /\ status'[x] \notin {InProgressCsn, InvalidCsn} /\ snapCsn'[x] = snapCsn[x]
  <2>. USE <1>1 DEF TransKept, LogKept, InvalidCsn, InProgressCsn, AbortedCsn, MinCsn
  <2>1. CASE Began(x)
    BY <2>1 DEF Began, Lives
  <2>2. CASE Started(x)
    BY <2>2 DEF Started
  <2>3. CASE Committed(x)
    BY <2>3 DEF Committed
  <2>4. CASE \E t : Found(x, t)
    BY <2>4 DEF Found
  <2>5. CASE Stopped(x) \/ Waits(x)
    BY <2>5 DEF Stopped, Waits, Writing
  <2>6. CASE RollsBack(x) \/ GivesUp(x)
    BY <2>6 DEF RollsBack, GivesUp
  <2>7. CASE RolledBack(x)
    BY <2>7 DEF RolledBack
  <2>. QED
    BY <2>1, <2>2, <2>3, <2>4, <2>5, <2>6, <2>7 DEF Quiet
<1>3. ASSUME NEW y \in Xids PROVE LogOf(y)'
  <2>1. LogOf(y)
    BY DEF LogOf, Logs
  <2>2. CASE undoLog'[y] = undoLog[y]
    BY <2>1, <2>2, <1>1 DEF LogOf
  <2>3. CASE undoLog'[y] = <<>>
    BY <2>3 DEF LogOf
  <2>. QED
    BY <2>2, <2>3, <1>1, <1>2 DEF OthersKept
<1>4. ASSUME NEW u \in Usns PROVE Logged(u)'
  <2>1. Logged(u) /\ undo[u].xid \in Xids /\ undo'[u] = undo[u]
    BY <1>1 DEF Logged, Logs
  <2>2. CASE undo[u].xid = x
    BY <2>1, <2>2, <1>2 DEF Logged, InvalidCsn, InProgressCsn
  <2>3. CASE undo[u].xid # x
    BY <2>1, <2>3, <1>1 DEF Logged, OthersKept
  <2>. QED
    BY <2>2, <2>3
<1>. QED
  BY <1>1, <1>3, <1>4 DEF Logs, LogOf, Logged

\* A record is written.
LEMMA LogsRecord ==
  ASSUME TypeOK, Shape, Lives, Logs, NEW x \in Xids, OthersKept(x), TransKept(x), NEW u, RecordAdded(u),
         undoLog' = [undoLog EXCEPT ![x] = Append(@, u)], undo'[u].xid = x, pc[x] \in Writing \cup {"insert"}
  PROVE  Logs'
<1>1. /\ \A v \in Usns : undo[v].xid \in Xids /\ undo'[v] = undo[v]
      /\ Usns' = Usns \cup {u} /\ u \in 1..MaxUsn /\ u \in Nat /\ \A v \in Usns : v \in Nat /\ v < u
  BY UsnTypes DEF RecordAdded
<1>2. status[x] = InProgressCsn /\ snapCsn[x] # InvalidCsn
  BY DEF Lives, Writing, Scanning
<1>3. /\ DOMAIN undoLog'[x] = 1..(Len(undoLog[x]) + 1) /\ undoLog'[x][Len(undoLog[x]) + 1] = u
      /\ \A i \in DOMAIN undoLog[x] : undoLog'[x][i] = undoLog[x][i]
  <2>1. u \in 1..MaxUsn
    BY <1>1
  <2>2. /\ Len(undoLog'[x]) = Len(undoLog[x]) + 1
        /\ DOMAIN undoLog'[x] = 1..(Len(undoLog[x]) + 1) /\ undoLog'[x][Len(undoLog[x]) + 1] = u
        /\ \A i \in DOMAIN undoLog[x] : undoLog'[x][i] = undoLog[x][i]
    BY <2>1, LogGrows
  <2>. QED
    BY <2>2
<1>4. Len(undoLog[x]) \in Nat /\ DOMAIN undoLog[x] = 1..Len(undoLog[x])
  BY LocalValuesAt
<1>5. ASSUME NEW y \in Xids PROVE LogOf(y)'
  <2>1. LogOf(y)
    BY DEF LogOf, Logs
  <2>2. CASE y # x
    BY <2>1, <2>2, <1>1 DEF LogOf, OthersKept
  <2>3. CASE y = x
    <3>. SUFFICES ASSUME NEW i \in DOMAIN undoLog'[x]
                  PROVE  /\ undoLog'[x][i] \in Usns' /\ undo'[undoLog'[x][i]].xid = x
                         /\ \A j \in 1..(i - 1) : undoLog'[x][j] < undoLog'[x][i]
      BY <2>3 DEF LogOf
    <3>1. CASE i \in DOMAIN undoLog[x]
      <4>1. \A j \in 1..(i - 1) : j \in DOMAIN undoLog[x]
        BY <3>1, <1>4
      <4>. QED
        BY <3>1, <4>1, <2>1, <2>3, <1>1, <1>3 DEF LogOf
    <3>2. CASE i = Len(undoLog[x]) + 1
      <4>1. \A j \in 1..(i - 1) : j \in DOMAIN undoLog[x] /\ undoLog'[x][j] \in Usns
        BY <3>2, <1>3, <1>4, <2>1, <2>3 DEF LogOf
      <4>. QED
        BY <3>2, <4>1, <1>1, <1>3
    <3>. QED
      BY <3>1, <3>2, <1>3, <1>4
  <2>. QED
    BY <2>2, <2>3
<1>6. ASSUME NEW v \in Usns' PROVE Logged(v)'
  <2>1. CASE v = u
    <3>1. Len(undoLog[x]) + 1 \in DOMAIN undoLog'[x]
      BY <1>3, <1>4
    <3>. QED
      BY <2>1, <3>1, <1>2, <1>3 DEF Logged, TransKept, InvalidCsn, InProgressCsn
  <2>2. CASE v \in Usns /\ undo[v].xid = x
    <3>1. PICK i \in DOMAIN undoLog[x] : undoLog[x][i] = v
      BY <2>2, <1>2 DEF Logs
    <3>2. i \in DOMAIN undoLog'[x] /\ undoLog'[x][i] = v /\ undo'[v] = undo[v]
      BY <2>2, <3>1, <1>1, <1>3, <1>4
    <3>. QED
      BY <2>2, <3>2, <1>2 DEF Logged, TransKept, InvalidCsn, InProgressCsn
  <2>3. CASE v \in Usns /\ undo[v].xid # x
    BY <2>3, <1>1 DEF Logged, Logs, OthersKept
  <2>. QED
    BY <2>1, <2>2, <2>3, <1>1
<1>. QED
  BY <1>5, <1>6 DEF Logs, LogOf, Logged

\* The undo logs.
LEMMA LogsStep ==
  ASSUME TypeOK, Shape, Lives, Logs, NEW x \in Xids, Step(x)
  PROVE  Logs'
<1>1. CASE Quiet(x)
  BY <1>1, LogsQuiet
<1>2. ASSUME NEW u, NEW n, InsertedAt(x, u, n) PROVE Logs'
  <2>1. /\ OthersKept(x) /\ TransKept(x) /\ RecordAdded(u) /\ pc[x] \in Writing \cup {"insert"}
        /\ undoLog' = [undoLog EXCEPT ![x] = Append(@, u)]
    BY <1>2 DEF InsertedAt, Inserted, InsertEffect
  <2>2. undo'[u].xid = x
    BY <1>2 DEF InsertedAt, InsertEffect
  <2>. QED
    BY <2>1, <2>2, LogsRecord
<1>3. ASSUME NEW u, NEW c, NEW n, WroteAt(x, u, c, n) PROVE Logs'
  <2>1. /\ OthersKept(x) /\ TransKept(x) /\ RecordAdded(u) /\ pc[x] \in Writing \cup {"insert"}
        /\ undoLog' = [undoLog EXCEPT ![x] = Append(@, u)] /\ undo'[u].xid = x
    BY <1>3 DEF WroteAt, Wrote, WriteEffect, Writing
  <2>. QED
    BY <2>1, LogsRecord
<1>4. ASSUME NEW u, NEW o, NEW n, UndidAt(x, u, o, n) PROVE Logs'
  <2>1. undo' = undo /\ undoLog' = undoLog /\ Usns' = Usns
    BY <1>4 DEF UndidAt, UndoEffect, Usns
  <2>2. \A y \in Xids : status'[y] = status[y] /\ snapCsn'[y] = snapCsn[y]
    BY <1>4 DEF UndidAt, Undid, OthersKept, TransKept
  <2>3. \A v \in Usns : undo[v].xid \in Xids
    BY UsnTypes
  <2>. QED
    BY <2>1, <2>2, <2>3 DEF Logs
<1>. QED
  BY <1>1, <1>2, <1>3, <1>4 DEF Step

-----------------------------------------------------------------------------
(* Scans                                                                    *)

\* A committed transaction stays committed.
LEMMA NormalStays ==
  ASSUME TypeOK, Shape, Lives, NEW x \in Xids, Step(x), NEW z \in Xids
  PROVE  /\ IsNormal(status[z]) => status'[z] = status[z] /\ snapCsn'[z] = snapCsn[z]
         /\ IsNormal(status'[z]) => status'[z] = status[z] \/ (z = x /\ status'[z] = nextCsn)
         /\ status[z] = AbortedCsn => status'[z] = AbortedCsn
<1>. USE DEF TransKept, InvalidCsn, InProgressCsn, AbortedCsn, MinCsn, IsNormal
<1>1. OthersKept(x) /\ status[z] \in Nat /\ nextCsn \in Nat
  BY StepKeepsOthers, LocalValuesAt
<1>2. CASE z # x
  BY <1>1, <1>2 DEF OthersKept
<1>3. CASE z = x
  <2>1. /\ pc[x] = "none" <=> status[x] = InvalidCsn
        /\ pc[x] \notin {"none", "ended"} => status[x] = InProgressCsn
    BY DEF Lives
  <2>. USE <1>3, <2>1, <1>1
  <2>2. CASE Began(x) \/ Started(x) \/ Committed(x)
    BY <2>2 DEF Began, Started, Committed
  <2>3. CASE (\E t : Found(x, t)) \/ Stopped(x) \/ Waits(x)
    BY <2>3 DEF Found, Stopped, Waits
  <2>4. CASE RollsBack(x) \/ GivesUp(x) \/ RolledBack(x)
    BY <2>4 DEF RollsBack, GivesUp, RolledBack
  <2>5. CASE TransKept(x)
    BY <2>5
  <2>. QED
    BY <2>2, <2>3, <2>4, <2>5 DEF Step, Quiet, InsertedAt, Inserted, WroteAt, Wrote, UndidAt, Undid
<1>. QED
  BY <1>2, <1>3

\* A statement goes on with its snapshot and its command id.
LEMMA SnapshotStays ==
  ASSUME NEW x \in Xids, Step(x), NEW y \in Xids, pc'[y] \in Scanning, ~(y = x /\ Started(x))
  PROVE  pc[y] \in Scanning /\ snapCid'[y] = snapCid[y] /\ snapCsn'[y] = snapCsn[y]
<1>. USE DEF TransKept, Scanning, Writing
<1>1. OthersKept(x)
  BY StepKeepsOthers
<1>2. CASE y # x
  BY <1>1, <1>2 DEF OthersKept
<1>3. CASE y = x
  <2>. USE <1>3
  <2>1. CASE Began(x) \/ Committed(x) \/ Stopped(x) \/ RollsBack(x) \/ GivesUp(x) \/ RolledBack(x)
    BY <2>1 DEF Began, Committed, Stopped, RollsBack, GivesUp, RolledBack
  <2>2. CASE Waits(x)
    BY <2>2 DEF Waits
  <2>3. CASE \E t : Found(x, t)
    BY <2>3 DEF Found
  <2>4. CASE Inserted(x) \/ Undid(x)
    BY <2>4 DEF Inserted, Undid
  <2>5. CASE \E c : Wrote(x, c)
    BY <2>5 DEF Wrote
  <2>. QED
    BY <2>1, <2>2, <2>3, <2>4, <2>5 DEF Step, Quiet, InsertedAt, WroteAt, UndidAt
<1>. QED
  BY <1>2, <1>3

\* The answers of a snapshot do not change.
LEMMA VisibleSame ==
  ASSUME TypeOK, Shape, Lives, NEW x \in Xids, Step(x), NEW y \in Xids, snapCsn'[y] = snapCsn[y], NEW z \in Xids
  PROVE  Visible(status[z], y)' <=> Visible(status[z], y)
<1>1. /\ IsNormal(status[z]) => status'[z] = status[z]
      /\ IsNormal(status'[z]) => status'[z] = status[z] \/ status'[z] = nextCsn
  BY NormalStays
<1>2. snapCsn[y] <= nextCsn /\ snapCsn[y] \in Nat /\ nextCsn \in Nat /\ status[z] \in Nat
  BY LocalValuesAt DEF Lives
<1>. QED
  BY <1>1, <1>2 DEF Visible

\* The versions that a statement sees stay visible to it, and no other becomes so.
LEMMA TupleVisibleSame ==
  ASSUME TypeOK, Shape, Lives, NEW x \in Xids, Step(x), NEW y \in Xids, pc'[y] \in Scanning, ~(y = x /\ Started(x)),
         NEW tup, tup.xid \in Xids
  PROVE  TupleVisible(y, tup)' <=> TupleVisible(y, tup)
<1>1. snapCid'[y] = snapCid[y] /\ snapCsn'[y] = snapCsn[y]
  BY SnapshotStays
<1>2. Visible(status[tup.xid], y)' <=> Visible(status[tup.xid], y)
  BY <1>1, VisibleSame
<1>. QED
  BY <1>1, <1>2 DEF TupleVisible

\* The table grows with every step.
LEMMA StepGrows ==
  ASSUME TypeOK, Placed, Records, NEW x \in Xids, Step(x)
  PROVE  StoreGrows
<1>1. CASE Quiet(x)
  BY <1>1 DEF Quiet, StoreKept, StoreGrows, Usns, Places, Row, Item
<1>. QED
  BY <1>1, InsertGrows, WriteGrows, UndoGrows, Zenon DEF Step, InsertedAt, WroteAt, UndidAt

\* Places, records and rows, in every step.
LEMMA TableStep ==
  ASSUME TypeOK, Placed, Records, Fresh, Scanned, NEW x \in Xids, Step(x)
  PROVE  Placed' /\ Records' /\ Fresh'
<1>1. CASE Quiet(x)
  <2>1. pages' = pages /\ undo' = undo /\ rowOf' = rowOf
    BY <1>1 DEF Quiet, StoreKept
  <2>2. Places' = Places /\ Usns' = Usns
    BY <2>1 DEF Places, Usns
  <2>3. \A t, tup : TupleAt(t, tup)' <=> TupleAt(t, tup)
    BY <2>1, <2>2 DEF TupleAt, Row, Item, Maker, Spots, Moved, InvalidUsn
  <2>4. Placed' /\ Fresh'
    BY <2>1, <2>2, <2>3 DEF Placed, Fresh, Item, Moved, Spots
  <2>5. Records'
    BY <2>1, <2>2, <2>3 DEF Records, RecordOK, Moved, Spots, Row, Item, Maker, InvalidUsn
  <2>. QED
    BY <2>4, <2>5
<1>2. ASSUME NEW u, NEW n, InsertedAt(x, u, n) PROVE Placed' /\ Records' /\ Fresh'
  BY <1>2, TableInsert DEF InsertedAt
<1>3. ASSUME NEW u, NEW c, NEW n, WroteAt(x, u, c, n) PROVE Placed' /\ Records' /\ Fresh'
  <2>1. pc[x] \in Writing /\ WriteEffect(x, u, c, n)
    BY <1>3 DEF WroteAt, Wrote, Writing
  <2>. QED
    BY <2>1, TableWrite
<1>4. ASSUME NEW u, NEW o, NEW n, UndidAt(x, u, o, n) PROVE Placed' /\ Records' /\ Fresh'
  BY <1>4, TableUndo DEF UndidAt
<1>. QED
  BY <1>1, <1>2, <1>3, <1>4 DEF Step

\* A place that a scan holds does not die: only a ROLLBACK kills one, its own.
LEMMA PlaceLives ==
  ASSUME TypeOK, Lives, Records, NewPlaceOwned, NEW x \in Xids, Step(x), NEW y \in Xids, pc[y] \in Writing,
         NEW t \in Places, t = cur[y].tid, ~Item(t).dead
  PROVE  ~Item(t)'.dead
<1>1. t = cur[y].tid /\ t \in Places /\ ~Item(t).dead
  OBVIOUS
<1>2. CASE Quiet(x)
  BY <1>1, <1>2 DEF Quiet, StoreKept, Item
<1>3. ASSUME NEW u, NEW n, InsertedAt(x, u, n) PROVE ~Item(t)'.dead
  BY <1>1, <1>3 DEF InsertedAt, InsertEffect
<1>4. ASSUME NEW u, NEW c, NEW n, WroteAt(x, u, c, n) PROVE ~Item(t)'.dead
  <2>1. CASE t = c
    BY <1>1, <1>4, <2>1 DEF WroteAt, WriteEffect
  <2>2. CASE t # c
    <3>1. Item(t)' = Item(t)
      BY <1>1, <1>4, <2>2 DEF WroteAt, WriteEffect
    <3>. QED
      BY <1>1, <3>1
  <2>. QED
    BY <2>1, <2>2
<1>5. ASSUME NEW u, NEW o, NEW n, UndidAt(x, u, o, n) PROVE ~Item(t)'.dead
  <2>1. UndoEffect(u, o, n) /\ u \in Usns /\ undo[u].xid = x /\ pc[x] = "undo"
    BY <1>5 DEF UndidAt, Undid
  <2>2. status[x] = InProgressCsn
    BY <2>1 DEF Lives
  <2>3. n # o => t # n
    <3>1. n # o => Moved(u)
      BY <2>1 DEF UndoEffect, Moved
    <3>2. ~IsNormal(status[x])
      BY <2>2 DEF IsNormal, InProgressCsn, MinCsn
    <3>3. n # o /\ t = n => y = x
      BY <1>1, <2>1, <3>1, <3>2 DEF NewPlaceOwned, UndoEffect
    <3>. QED
      BY <2>1, <3>3 DEF Writing
  <2>4. CASE t \notin {o, n}
    BY <1>1, <2>1, <2>4 DEF UndoEffect
  <2>5. CASE t = o
    BY <1>1, <2>1, <2>5 DEF UndoEffect
  <2>. QED
    BY <2>3, <2>4, <2>5
<1>. QED
  BY <1>1, <1>2, <1>3, <1>4, <1>5 DEF Step

\* A version that the scan of x finds at t.
LEMMA FoundVersion ==
  ASSUME TypeOK, Placed, Records, NEW x \in Xids, NEW t, Found(x, t), pc'[x] \in Writing
  PROVE  /\ cur'[x].tid = t /\ cur'[x].tup = Version(x, Item(t)) /\ t \in Places /\ Version(x, Item(t)) # NoTuple
         /\ ~Item(t).dead /\ TupleVisible(x, cur'[x].tup) /\ TupleAt(t, cur'[x].tup)
         /\ \/ cur'[x].tup = Item(t).tup /\ ~Item(t).tup.deleted
            \/ \E u \in Usns :
                 /\ cur'[x].tup = undo[u].tup /\ undo[u].type # "Delete" /\ ~Moved(u) /\ undo[u].old = t
                 /\ ~Belongs(x, u)
<1>1. PICK V : V = Version(x, Item(t))
  OBVIOUS
<1>2. pc'[x] = "write"
  BY DEF Found, Writing
<1>3. cur'[x] = [tid |-> t, tup |-> V] /\ t \in Places /\ V # NoTuple
  BY <1>1, <1>2 DEF Found
<1>4. /\ ~Item(t).dead /\ TupleVisible(x, V)
      /\ \/ V = Item(t).tup /\ ~Item(t).tup.deleted
         \/ \E u \in Usns :
              /\ V = undo[u].tup /\ undo[u].type # "Delete" /\ ~Moved(u) /\ undo[u].old = t
              /\ ~Belongs(x, u)
  BY <1>1, <1>3, VersionFound
<1>5. TupleAt(t, V)
  BY <1>3, <1>4 DEF Placed, Records, RecordOK
<1>6. cur'[x].tid = t /\ cur'[x].tup = V
  BY <1>3
<1>. QED
  BY <1>1, <1>3, <1>4, <1>5, <1>6

ScannedBy(y) ==
  /\ cur[y].tid \in Places /\ ~Item(cur[y].tid).dead
  /\ TupleAt(cur[y].tid, cur[y].tup) /\ TupleVisible(y, cur[y].tup)
  /\ cur[y].tid[1] = pos[y][1] /\ cur[y].tid[2] < pos[y][2]

\* The tuple that a scan returned.
LEMMA ScannedStep ==
  ASSUME TypeOK, Shape, Lives, Placed, Records, Scanned, NewPlaceOwned, NEW x \in Xids, Step(x)
  PROVE  Scanned'
<1>. SUFFICES ASSUME NEW y \in Xids, pc'[y] \in Writing PROVE ScannedBy(y)'
  BY DEF Scanned, ScannedBy
<1>1. StoreGrows /\ OthersKept(x)
  BY StepGrows, StepKeepsOthers
<1>2. CASE y = x /\ pc[x] \notin Writing
  <2>1. PICK t : Found(x, t)
    BY <1>2 DEF Step, Quiet, InsertedAt, Inserted, WroteAt, Wrote, UndidAt, Undid, Writing, Began, Started,
       Committed, Stopped, Waits, RollsBack, GivesUp, RolledBack
  <2>2. /\ cur'[x].tid = t /\ t \in Places /\ ~Item(t).dead
        /\ TupleVisible(x, cur'[x].tup) /\ TupleAt(t, cur'[x].tup)
    BY <1>2, <2>1, FoundVersion
  <2>3. PICK tup : tup = cur'[x].tup
    OBVIOUS
  <2>4. TupleAt(t, tup)' /\ tup.xid \in Xids /\ t \in Places'
    BY <1>1, <2>2, <2>3, TupleStays DEF TupleAt, StoreGrows
  <2>5. TupleVisible(x, tup)'
    <3>1. ~Started(x)
      BY <2>1 DEF Found, Started
    <3>2. pc'[x] \in Scanning
      BY <1>2 DEF Scanning
    <3>. QED
      BY <2>2, <2>3, <2>4, <3>1, <3>2, TupleVisibleSame
  <2>6. ~Item(t)'.dead
    <3>1. pages' = pages
      BY <2>1, <1>2 DEF Step, Quiet, StoreKept, InsertedAt, Inserted, WroteAt, Wrote, UndidAt, Undid, Writing, Found
    <3>. QED
      BY <2>2, <3>1 DEF Item
  <2>7. t[1] = pos'[x][1] /\ t[2] < pos'[x][2]
    <3>1. t[2] \in Nat /\ pos'[x] = <<t[1], t[2] + 1>>
      BY <2>1, Bounds DEF Found, Places, PlacesOf
    <3>. QED
      BY <3>1
  <2>. QED
    BY <1>2, <2>2, <2>3, <2>4, <2>5, <2>6, <2>7 DEF ScannedBy
<1>3. CASE pc[y] \in Writing
  <2>1. cur'[y] = cur[y] /\ pos'[y] = pos[y]
    <3>1. CASE y # x
      BY <3>1, <1>1 DEF OthersKept
    <3>2. CASE y = x
      BY <3>2, <1>3 DEF Step, Quiet, ScanKept, InsertedAt, Inserted, WroteAt, Wrote, UndidAt, Undid, Writing, Began, Started,
         Committed, Found, Stopped, Waits, RollsBack, GivesUp, RolledBack
    <3>. QED
      BY <3>1, <3>2
  <2>2. /\ cur[y].tid \in Places /\ ~Item(cur[y].tid).dead
        /\ TupleAt(cur[y].tid, cur[y].tup) /\ TupleVisible(y, cur[y].tup)
        /\ cur[y].tid[1] = pos[y][1] /\ cur[y].tid[2] < pos[y][2]
    BY <1>3 DEF Scanned
  <2>3. PICK t, tup : t = cur[y].tid /\ tup = cur[y].tup
    OBVIOUS
  <2>4. TupleAt(t, tup)' /\ tup.xid \in Xids /\ t \in Places'
    BY <1>1, <2>2, <2>3, TupleStays DEF TupleAt, StoreGrows
  <2>5. TupleVisible(y, tup)'
    <3>1. ~(y = x /\ Started(x))
      BY <1>3 DEF Started, Writing
    <3>2. pc'[y] \in Scanning
      BY DEF Scanning
    <3>. QED
      BY <2>2, <2>3, <2>4, <3>1, <3>2, TupleVisibleSame
  <2>6. ~Item(t)'.dead
    BY <1>3, <2>2, <2>3, PlaceLives
  <2>. QED
    BY <2>1, <2>2, <2>3, <2>4, <2>5, <2>6 DEF ScannedBy
<1>. QED
  BY <1>1, <1>2, <1>3 DEF OthersKept

\* At the start of a statement all records of its transaction belong to its snapshot.
LEMMA AllBelong ==
  ASSUME TypeOK, Shape, Lives, Logs, NEW x \in Xids, Started(x), NEW u \in Usns, undo[u].xid = x
  PROVE  u < snapCid'[x]
<1>1. status[x] = InProgressCsn /\ snapCsn[x] # InvalidCsn
  BY DEF Started, Lives, Logs
<1>2. PICK i \in DOMAIN undoLog[x] : undoLog[x][i] = u
  BY <1>1 DEF Logs
<1>3. /\ undoLog[x] \in Seq(1..MaxUsn) /\ Len(undoLog[x]) \in Nat /\ DOMAIN undoLog[x] = 1..Len(undoLog[x])
      /\ \A j \in DOMAIN undoLog[x] : undoLog[x][j] \in 1..MaxUsn
  BY LocalValuesAt
<1>4. undoLog[x] # <<>>
  <2>1. Len(undoLog[x]) # 0
    BY <1>2, <1>3
  <2>. QED
    BY <2>1
<1>5. snapCid'[x] = undoLog[x][Len(undoLog[x])] + 1
  BY <1>1, <1>4 DEF Started
<1>6. i = Len(undoLog[x]) \/ undoLog[x][i] < undoLog[x][Len(undoLog[x])]
  <2>1. i \in 1..Len(undoLog[x]) /\ Len(undoLog[x]) \in DOMAIN undoLog[x]
    BY <1>2, <1>3
  <2>2. i = Len(undoLog[x]) \/ i \in 1..(Len(undoLog[x]) - 1)
    BY <2>1, <1>3
  <2>. QED
    BY <2>1, <2>2 DEF Logs
<1>7. undoLog[x][i] \in Nat /\ undoLog[x][Len(undoLog[x])] \in Nat
  BY <1>2, <1>3, Bounds
<1>. QED
  BY <1>2, <1>5, <1>6, <1>7

\* What a statement changed is behind its scan.
LEMMA BehindStep ==
  ASSUME TypeOK, Shape, Lives, Logs, Placed, Records, Scanned, Behind, NEW x \in Xids, Step(x)
  PROVE  Behind'
<1>. SUFFICES ASSUME NEW y \in Xids, pc'[y] \in Scanning, NEW u \in Usns', undo'[u].xid = y, u >= snapCid'[y]
              PROVE  undo'[u].type # "Delete" /\ undo'[u].old[1] = pos'[y][1] /\ undo'[u].old[2] < pos'[y][2]
  BY DEF Behind
<1>1. StoreGrows /\ OthersKept(x)
  BY StepGrows, StepKeepsOthers
<1>2. CASE y = x /\ Started(x)
  <2>1. u \in Usns /\ undo[u].xid = x
    BY <1>2 DEF Started, Step, Quiet, StoreKept, Usns, InsertedAt, Inserted, WroteAt, Wrote, UndidAt, Undid
  <2>2. u < snapCid'[x] /\ u \in Nat
    BY <1>2, <2>1, AllBelong, UsnTypes
  <2>3. snapCid'[x] \in Nat
    <3>1. \A i \in DOMAIN undoLog[x] : undoLog[x][i] \in Nat
      BY LocalValuesAt, Bounds
    <3>2. undoLog[x] # <<>> => Len(undoLog[x]) \in DOMAIN undoLog[x]
      BY LocalValuesAt, LastElem
    <3>3. snapCid[x] \in Nat
      BY LocalValuesAt
    <3>. QED
      BY <1>2, <3>1, <3>2, <3>3 DEF Started
  <2>. QED
    BY <1>2, <2>2, <2>3
<1>3. CASE ~(y = x /\ Started(x))
  <2>1. pc[y] \in Scanning /\ snapCid'[y] = snapCid[y]
    BY <1>3, SnapshotStays
  <2>2. CASE u \in Usns
    <3>1. /\ undo'[u] = undo[u] /\ undo[u].old[1] = pos[y][1] /\ undo[u].old[2] < pos[y][2]
          /\ undo[u].old[2] \in Nat /\ undo[u].type # "Delete"
      <4>1. undo'[u] = undo[u] /\ undo[u].xid = y
        BY <2>2, <1>1 DEF StoreGrows
      <4>2. undo[u].old \in Places
        BY <2>2 DEF Records, RecordOK, Spots
      <4>. QED
        BY <4>1, <4>2, <2>1, <2>2, Bounds DEF Behind, Places, PlacesOf
    <3>2. pos'[y] = pos[y] \/ (pos'[y][1] = pos[y][1] /\ pos[y][2] < pos'[y][2] /\ pos'[y][2] \in Nat)
      <4>1. CASE y # x
        BY <4>1, <1>1 DEF OthersKept
      <4>2. ASSUME NEW t, y = x, Found(x, t)
            PROVE  pos'[y][1] = pos[y][1] /\ pos[y][2] < pos'[y][2] /\ pos'[y][2] \in Nat
        <5>1. t[2] \in Nat /\ pos[x][2] \in Nat /\ t[1] = pos[x][1] /\ t[2] >= pos[x][2] /\ pos'[x] = <<t[1], t[2] + 1>>
          <6>1. pos[x][2] \in Nat
            BY LocalValuesAt
          <6>. QED
            BY <4>2, <6>1, Bounds DEF Found, Places, PlacesOf
        <5>. QED
          BY <4>2, <5>1
      <4>3. CASE y = x /\ ~(\E t : Found(x, t))
        BY <4>3, <1>3 DEF Scanning, Writing, ScanKept, Step, Quiet, InsertedAt, Inserted, WroteAt, Wrote, UndidAt, Undid,
           Began, Committed, Stopped, Waits, RollsBack, GivesUp, RolledBack
      <4>. QED
        BY <4>1, <4>2, <4>3
    <3>3. pos[y][2] \in Nat
      BY LocalValuesAt
    <3>. QED
      BY <3>1, <3>2, <3>3
  <2>3. CASE u \notin Usns
    <3>1. ASSUME NEW v, NEW n, InsertedAt(x, v, n) PROVE FALSE
      <4>1. undo'[v].xid = x /\ v = u /\ pc'[x] \in {"insert", "idle"}
        BY <3>1, <2>3 DEF InsertedAt, Inserted, InsertEffect, RecordAdded
      <4>. QED
        BY <4>1 DEF Scanning, Writing
    <3>2. ASSUME NEW v, NEW c, NEW n, WroteAt(x, v, c, n)
          PROVE  undo'[u].type # "Delete" /\ undo'[u].old[1] = pos'[y][1] /\ undo'[u].old[2] < pos'[y][2]
      <4>1. /\ undo'[u].xid = x /\ undo'[u].old = c /\ c = cur[x].tid /\ v = u
            /\ pc[x] \in Writing /\ pos'[x] = pos[x]
            /\ undo'[u].type \in {"Update", "Insert"}
        BY <3>2, <2>3 DEF WroteAt, Wrote, WriteEffect, RecordAdded, Writing
      <4>. QED
        BY <4>1 DEF Scanned
    <3>3. CASE Quiet(x) \/ \E v, o, n : UndidAt(x, v, o, n)
      BY <3>3, <2>3 DEF Quiet, StoreKept, UndidAt, UndoEffect, Usns
    <3>. QED
      BY <3>1, <3>2, <3>3 DEF Step
  <2>. QED
    BY <2>2, <2>3
<1>. QED
  BY <1>2, <1>3

\* Until its transaction commits, the new place of a move is its own.
LEMMA NewPlaceStep ==
  ASSUME TypeOK, Shape, Lives, Logs, Placed, Records, Scanned, NewPlaceOwned, NEW x \in Xids, Step(x)
  PROVE  NewPlaceOwned'
<1>. SUFFICES ASSUME NEW w \in Usns', Moved(w)', ~IsNormal(status'[undo'[w].xid])
              PROVE  /\ \A v \in Usns' : undo'[w].new \in Spots(v)' => undo'[v].xid = undo'[w].xid
                     /\ \A y \in Xids : pc'[y] \in Writing /\ cur'[y].tid = undo'[w].new => y = undo'[w].xid
  BY DEF NewPlaceOwned
<1>1. StoreGrows /\ OthersKept(x) /\ \A v \in Usns : undo[v].xid \in Xids
  BY StepGrows, StepKeepsOthers, UsnTypes
<1>2. \A v \in Usns : /\ undo'[v] = undo[v] /\ Spots(v)' = Spots(v) /\ Moved(v)' = Moved(v)
                      /\ undo[v].new \in Places /\ Spots(v) \subseteq Places
  BY <1>1 DEF StoreGrows, Spots, Moved, Records, RecordOK
<1>3. \A y \in Xids : pc[y] \in Writing => cur[y].tid \in Places
  BY DEF Scanned
<1>4. ASSUME NEW y \in Xids, pc'[y] \in Writing
      PROVE  \/ pc[y] \in Writing /\ cur'[y] = cur[y]
             \/ y = x /\ \E t : Found(x, t)
  <2>1. CASE y # x
    BY <2>1, <1>1, <1>4 DEF OthersKept
  <2>2. CASE y = x
    BY <2>2, <1>4 DEF Writing, ScanKept, Step, Quiet, InsertedAt, Inserted, WroteAt, Wrote, UndidAt, Undid,
       Began, Started, Committed, Stopped, Waits, RollsBack, GivesUp, RolledBack
  <2>. QED
    BY <2>1, <2>2
<1>5. CASE w \in Usns
  <2>1. /\ Moved(w) /\ ~IsNormal(status[undo[w].xid])
        /\ undo'[w] = undo[w] /\ undo[w].xid \in Xids
    BY <1>1, <1>2, <1>5, NormalStays
  <2>2. /\ \A v \in Usns : undo[w].new \in Spots(v) => undo[v].xid = undo[w].xid
        /\ \A y \in Xids : pc[y] \in Writing /\ cur[y].tid = undo[w].new => y = undo[w].xid
    BY <1>5, <2>1 DEF NewPlaceOwned
  <2>3. ASSUME NEW v \in Usns', undo[w].new \in Spots(v)' PROVE undo'[v].xid = undo[w].xid
    <3>1. CASE v \in Usns
      BY <3>1, <2>2, <2>3, <1>2
    <3>2. ASSUME v \notin Usns, NEW u, NEW n, InsertedAt(x, u, n) PROVE FALSE
      <4>1. u = v /\ undo'[u].old = n /\ undo'[u].new = n /\ n \notin Places
        BY <3>2 DEF InsertedAt, InsertEffect, RecordAdded
      <4>. QED
        BY <4>1, <2>3, <1>2, <1>5 DEF Spots
    <3>3. ASSUME v \notin Usns, NEW u, NEW c, NEW n, WroteAt(x, u, c, n) PROVE undo'[v].xid = undo[w].xid
      <4>1. /\ u = v /\ undo'[u].old = c /\ undo'[u].new = n /\ undo'[u].xid = x /\ (n = c \/ n \notin Places)
            /\ c = cur[x].tid /\ pc[x] \in Writing
        BY <3>3 DEF WroteAt, Wrote, WriteEffect, RecordAdded, Writing
      <4>2. undo[w].new = c
        BY <4>1, <2>3, <1>2, <1>5 DEF Spots
      <4>. QED
        BY <4>1, <4>2, <2>2
    <3>4. CASE Quiet(x) \/ \E u, o, n : UndidAt(x, u, o, n)
      BY <3>1, <3>4 DEF Quiet, StoreKept, UndidAt, UndoEffect, Usns
    <3>. QED
      BY <3>1, <3>2, <3>3, <3>4 DEF Step
  <2>4. ASSUME NEW y \in Xids, pc'[y] \in Writing, cur'[y].tid = undo[w].new PROVE y = undo[w].xid
    <3>1. CASE pc[y] \in Writing /\ cur'[y] = cur[y]
      BY <3>1, <2>2, <2>4
    <3>2. ASSUME NEW t, y = x, Found(x, t) PROVE y = undo[w].xid
      <4>1. /\ cur'[x].tid = t /\ TupleVisible(x, cur'[x].tup) /\ TupleAt(t, cur'[x].tup)
        BY <2>4, <3>2, FoundVersion
      <4>2. PICK tup : tup = cur'[x].tup
        OBVIOUS
      <4>3. Maker(tup) \in Usns /\ undo[Maker(tup)].xid = tup.xid /\ t \in Spots(Maker(tup))
        BY <4>1, <4>2 DEF TupleAt, Maker
      <4>4. tup.xid = undo[w].xid
        BY <4>1, <4>3, <2>2, <2>4, <3>2
      <4>. QED
        BY <4>1, <4>2, <4>4, <2>1, <3>2 DEF TupleVisible, Visible
    <3>. QED
      BY <2>4, <3>1, <3>2, <1>4
  <2>. QED
    BY <2>1, <2>3, <2>4
<1>6. CASE w \notin Usns
  <2>1. PICK u, c, n : WroteAt(x, u, c, n)
    <3>1. ASSUME NEW u, NEW n, InsertedAt(x, u, n) PROVE FALSE
      <4>1. u = w /\ undo'[u].old = n /\ undo'[u].new = n
        BY <3>1, <1>6 DEF InsertedAt, InsertEffect, RecordAdded
      <4>. QED
        BY <4>1 DEF Moved
    <3>2. CASE Quiet(x) \/ \E u, o, n : UndidAt(x, u, o, n)
      BY <1>6, <3>2 DEF Quiet, StoreKept, UndidAt, UndoEffect, Usns
    <3>. QED
      BY <3>1, <3>2 DEF Step
  <2>2. /\ u = w /\ undo'[w].old = c /\ undo'[w].new = n /\ undo'[w].xid = x /\ (n = c \/ n \notin Places)
        /\ Usns' = Usns \cup {w} /\ pc'[x] = "scan"
    BY <2>1, <1>6 DEF WroteAt, Wrote, WriteEffect, RecordAdded
  <2>3. n \notin Places
    BY <2>2 DEF Moved
  <2>4. \A v \in Usns' : n \in Spots(v)' => undo'[v].xid = x
    BY <2>2, <2>3, <1>2
  <2>5. \A y \in Xids : pc'[y] \in Writing => cur'[y].tid # n
    <3>1. \A t : ~Found(x, t) \/ pc'[x] \notin Writing
      BY <2>2 DEF Writing
    <3>. QED
      BY <3>1, <2>3, <1>3, <1>4
  <2>. QED
    BY <2>2, <2>4, <2>5
<1>. QED
  BY <1>5, <1>6

-----------------------------------------------------------------------------
(* The part of the invariant that holds for every row                       *)

Base == TypeOK /\ Universal

\* It holds at the start.
LEMMA BaseInit == Init => Base
<1>. SUFFICES ASSUME Init PROVE Base
  OBVIOUS
<1>1. /\ pages = <<>> /\ loose = {} /\ undo = <<>> /\ rowOf = <<>> /\ clobbered = {} /\ TransInit
      /\ undoLog = [x \in Xids |-> <<>>] /\ snapCid = [x \in Xids |-> InvalidUsn]
      /\ op = [x \in Xids |-> "none"] /\ pc = [x \in Xids |-> "none"] /\ pos = [x \in Xids |-> NoTid]
      /\ cur = [x \in Xids |-> NoScanned] /\ waitFor = [x \in Xids |-> 0] /\ left = [x \in Xids |-> 0]
  BY DEF Init
<1>2. Usns = {} /\ DOMAIN pages = {} /\ Places = {}
  BY <1>1 DEF Usns, Places, PlacesOf
<1>3. StoreTypes
  <2>1. \A S : <<>> \in Seq(S) /\ Len(<<>>) = 0
    OBVIOUS
  <2>2. pages \in Tables
    <3>1. Len(pages) <= MaxPages
      BY <1>1, <2>1, Bounds
    <3>2. pages \in Seq(Seq(Items))
      BY <1>1, <2>1
    <3>. QED
      BY <1>2, <3>1, <3>2 DEF Tables
  <2>3. LogTypes
    BY <1>1, <2>1, Zenon DEF LogTypes
  <2>4. undoLog \in [Xids -> Seq(1..MaxUsn)]
    BY <1>1, <2>1, Zenon
  <2>5. Len(undo) <= MaxUsn
    BY <1>1, <2>1, Bounds
  <2>. QED
    BY <1>1, <1>2, <2>2, <2>3, <2>4, <2>5 DEF StoreTypes
<1>4. TransTypes
  BY <1>1 DEF TransInit, TransTypes, InvalidCsn, MinCsn
<1>5. LocalTypes
  BY <1>1, LocalValues, Zenon DEF LocalTypes, InvalidUsn
<1>6. ScansOnPages
  BY <1>1 DEF ScansOnPages
<1>7. LeftInLog
  BY <1>1 DEF LeftInLog
<1>8. TypeOK /\ Shape
  BY <1>3, <1>4, <1>5, <1>6, <1>7, TypesSplit
<1>9. Lives
  BY <1>1 DEF Lives, TransInit, InvalidCsn, MinCsn, AbortedCsn, IsNormal, Scanning, Writing
<1>10. Logs
  BY <1>1, <1>2 DEF Logs
<1>11. \A x \in Xids : pc[x] \notin Scanning
  BY <1>1 DEF Scanning, Writing
<1>12. Placed /\ Records /\ Fresh /\ NewPlaceOwned
  BY <1>2 DEF Placed, Records, Fresh, NewPlaceOwned
<1>13. Scanned /\ Behind
  BY <1>11, <1>2 DEF Scanned, Behind, Scanning
<1>. QED
  BY <1>8, <1>9, <1>10, <1>12, <1>13 DEF Base, Universal

\* A step in which nothing changes.
LEMMA Stutter ==
  ASSUME UNCHANGED vars
  PROVE  /\ status' = status /\ nextCsn' = nextCsn /\ snapCsn' = snapCsn /\ pages' = pages /\ loose' = loose
         /\ undo' = undo /\ undoLog' = undoLog /\ rowOf' = rowOf /\ clobbered' = clobbered
         /\ op' = op /\ pos' = pos /\ cur' = cur /\ snapCid' = snapCid /\ pc' = pc /\ waitFor' = waitFor
         /\ left' = left /\ failed' = failed /\ Usns' = Usns /\ Places' = Places
         /\ \A t : Item(t)' = Item(t) /\ Row(t)' = Row(t)
         /\ \A v : Moved(v)' = Moved(v) /\ Spots(v)' = Spots(v)
         /\ \A t, tup : TupleAt(t, tup)' <=> TupleAt(t, tup)
<1>1. /\ status' = status /\ nextCsn' = nextCsn /\ snapCsn' = snapCsn /\ pages' = pages /\ loose' = loose
      /\ undo' = undo /\ undoLog' = undoLog /\ rowOf' = rowOf /\ clobbered' = clobbered
      /\ op' = op /\ pos' = pos /\ cur' = cur /\ snapCid' = snapCid /\ pc' = pc /\ waitFor' = waitFor
      /\ left' = left /\ failed' = failed
  BY DEF vars, transVars, storeVars, scanVars
<1>2. Usns' = Usns /\ Places' = Places /\ \A t : Item(t)' = Item(t)
  BY <1>1 DEF Usns, Places, Item
<1>3. \A t : Row(t)' = Row(t)
  BY <1>1, <1>2 DEF Row
<1>4. \A v : Moved(v)' = Moved(v) /\ Spots(v)' = Spots(v)
  BY <1>1 DEF Moved, Spots
<1>5. \A t, tup : TupleAt(t, tup)' <=> TupleAt(t, tup)
  BY <1>1, <1>2, <1>3, <1>4 DEF TupleAt, Maker, InvalidUsn
<1>. QED
  BY <1>1, <1>2, <1>3, <1>4, <1>5

\* Nothing changes for the invariant then.
LEMMA BaseStutter ==
  ASSUME Base, UNCHANGED vars
  PROVE  Base'
<1>. USE Stutter
<1>1. TypeOK'
  BY DEF Base, TypeOK
<1>2. Shape'
  BY DEF Base, Universal, Shape
<1>3. Lives'
  BY DEF Base, Universal, Lives
<1>4. Logs'
  BY DEF Base, Universal, Logs
<1>5. Placed' /\ Fresh'
  BY DEF Base, Universal, Placed, Fresh
<1>6. Records'
  BY DEF Base, Universal, Records, RecordOK, Maker, InvalidUsn
<1>7. Scanned' /\ Behind'
  BY DEF Base, Universal, Scanned, Behind, TupleVisible, Visible
<1>8. NewPlaceOwned'
  BY DEF Base, Universal, NewPlaceOwned
<1>. QED
  BY <1>1, <1>2, <1>3, <1>4, <1>5, <1>6, <1>7, <1>8 DEF Base, Universal

\* Every action keeps it.
LEMMA BaseNext ==
  ASSUME Base, Next
  PROVE  Base' /\ \E x \in Xids : Step(x)
<1>1. TypeOK /\ Shape /\ Lives /\ Logs /\ Placed /\ Records /\ Fresh /\ Scanned /\ Behind /\ NewPlaceOwned
  BY DEF Base, Universal
<1>2. TypeOK' /\ Shape'
  BY <1>1, TypesStep
<1>3. PICK x \in Xids : Step(x)
  BY <1>1, StepOf DEF Next
<1>4. Lives' /\ Logs'
  BY <1>1, <1>3, LivesStep, LogsStep
<1>5. Placed' /\ Records' /\ Fresh'
  BY <1>1, <1>3, TableStep
<1>6. Scanned' /\ Behind' /\ NewPlaceOwned'
  BY <1>1, <1>3, ScannedStep, BehindStep, NewPlaceStep
<1>. QED
  BY <1>2, <1>3, <1>4, <1>5, <1>6 DEF Base, Universal

-----------------------------------------------------------------------------
(* Rows that no waiter overwrote blindly                                    *)

Clean ==
  /\ KeepsCommitted /\ OwnOnTop /\ XidTells /\ DeadUndone /\ OneLive /\ ChangesKept /\ Nested
  /\ UndoneGone /\ Restored /\ OncePerStatement

\* The parts of the invariant.
LEMMA BaseParts ==
  ASSUME Base
  PROVE  /\ TypeOK /\ Shape /\ Lives /\ Logs /\ Placed /\ Records /\ Fresh /\ Scanned /\ Behind /\ NewPlaceOwned
         /\ \A u \in Usns : undo[u].xid \in Xids /\ u \in Nat /\ u > 0 /\ undo[u].tup.undo \in Nat
         /\ Usns = 1..Len(undo) /\ Len(undo) \in Nat
<1>1. TypeOK /\ Shape /\ Lives /\ Logs /\ Placed /\ Records /\ Fresh /\ Scanned /\ Behind /\ NewPlaceOwned
  BY DEF Base, Universal
<1>2. /\ \A u \in Usns : undo[u].xid \in Xids /\ undo[u].tup.undo \in Nat
      /\ Usns = 1..Len(undo) /\ Len(undo) \in Nat
  BY <1>1, UsnTypes
<1>. QED
  BY <1>1, <1>2

\* What every step leaves as it is.
LEMMA Kept ==
  ASSUME Base, NEW x \in Xids, Step(x)
  PROVE  /\ OthersKept(x) /\ clobbered \subseteq clobbered' /\ failed \subseteq failed'
         /\ Usns \subseteq Usns' /\ Places \subseteq Places' /\ \A t \in Places : Row(t)' = Row(t)
         /\ \A v \in Usns : /\ undo'[v] = undo[v] /\ rowOf'[v] = rowOf[v] /\ Spots(v)' = Spots(v)
                            /\ Moved(v)' = Moved(v) /\ (Foreign(v)' <=> Foreign(v))
                            /\ Spots(v) \subseteq Places /\ undo[v].old \in Places /\ undo[v].new \in Places
                            /\ \A t \in Spots(v) : Row(t) = rowOf[v]
<1>1. TypeOK /\ Placed /\ Records
  BY BaseParts
<1>2. StoreGrows /\ OthersKept(x) /\ clobbered \subseteq clobbered'
  BY <1>1, StepGrows, StepKeepsOthers
<1>3. failed \subseteq failed'
  BY DEF Step, Quiet, InsertedAt, Inserted, WroteAt, Wrote, UndidAt, Undid,
     Began, Started, Committed, Found, Stopped, Waits, RollsBack, GivesUp, RolledBack
<1>4. ASSUME NEW v \in Usns
      PROVE  /\ undo'[v] = undo[v] /\ rowOf'[v] = rowOf[v] /\ Spots(v)' = Spots(v)
             /\ Moved(v)' = Moved(v) /\ (Foreign(v)' <=> Foreign(v))
             /\ Spots(v) \subseteq Places /\ undo[v].old \in Places /\ undo[v].new \in Places
             /\ \A t \in Spots(v) : Row(t) = rowOf[v]
  <2>1. undo'[v] = undo[v] /\ rowOf'[v] = rowOf[v]
    BY <1>2 DEF StoreGrows
  <2>2. Spots(v) \subseteq Places /\ \A t \in Spots(v) : Row(t) = rowOf[v]
    BY <1>1 DEF Records, RecordOK
  <2>. QED
    BY <2>1, <2>2 DEF Spots, Moved, Foreign
<1>. QED
  BY <1>2, <1>3, <1>4 DEF StoreGrows

\* A transaction with a statement under way is in progress.
LEMMA InProgress ==
  ASSUME Base, NEW x \in Xids, pc[x] \notin {"none", "ended"}
  PROVE  status[x] = InProgressCsn /\ ~IsNormal(status[x]) /\ status[x] # AbortedCsn
<1>1. status[x] = InProgressCsn
  BY BaseParts DEF Lives
<1>. QED
  BY <1>1 DEF IsNormal, MinCsn, InProgressCsn, AbortedCsn

\* A quiet step leaves the table as it is.
LEMMA QuietTable ==
  ASSUME NEW x \in Xids, Quiet(x)
  PROVE  /\ pages' = pages /\ undo' = undo /\ rowOf' = rowOf /\ clobbered' = clobbered
         /\ Places' = Places /\ Usns' = Usns /\ \A t : Item(t)' = Item(t) /\ Row(t)' = Row(t) /\ Gone(t)' = Gone(t)
<1>1. pages' = pages /\ undo' = undo /\ rowOf' = rowOf /\ clobbered' = clobbered
  BY DEF Quiet, StoreKept
<1>2. Places' = Places /\ Usns' = Usns /\ \A t : Item(t)' = Item(t)
  BY <1>1 DEF Places, Usns, Item
<1>. QED
  BY <1>1, <1>2 DEF Row, Gone, Moved, InvalidUsn

\* An inserted row.
LEMMA InsertTable ==
  ASSUME Base, NEW x \in Xids, NEW u, NEW n, InsertedAt(x, u, n)
  PROVE  /\ u \notin Usns /\ Usns' = Usns \cup {u} /\ u \in Nat /\ u > 0 /\ \A v \in Usns : v < u
         /\ undo'[u].xid = x /\ undo'[u].type = "Delete" /\ undo'[u].old = n /\ undo'[u].new = n
         /\ rowOf'[u] = u /\ n \notin Places /\ Places' = Places \cup {n}
         /\ \A s \in Places : Item(s)' = Item(s)
         /\ ~Item(n)'.dead /\ Item(n)'.tup.xid = x /\ Item(n)'.tup.undo = InvalidUsn /\ Item(n)'.tup.val = u
         /\ pc[x] = "insert" /\ clobbered' = clobbered /\ failed' = failed /\ Row(n)' = u
         /\ \A s \in Places : Row(s) < u
<1>1. InsertEffect(x, u, n) /\ Inserted(x)
  BY DEF InsertedAt
<1>2. /\ u = Len(undo) + 1 /\ u \notin Usns /\ Usns' = Usns \cup {u} /\ rowOf'[u] = u
      /\ n \notin Places /\ Places' = Places \cup {n} /\ \A s \in Places : Item(s)' = Item(s)
  BY <1>1, Zenon DEF InsertEffect, RecordAdded
<1>3. u \in Nat /\ u > 0 /\ \A v \in Usns : v < u
  BY <1>2, BaseParts
<1>4. undo'[u].xid = x /\ undo'[u].type = "Delete" /\ undo'[u].old = n /\ undo'[u].new = n
  BY <1>1 DEF InsertEffect
<1>5. ~Item(n)'.dead /\ Item(n)'.tup = Tuple(x, InvalidUsn, FALSE, u)
  <2>1. PICK tup : tup = Tuple(x, InvalidUsn, FALSE, u)
    OBVIOUS
  <2>2. Item(n)' = [dead |-> FALSE, tup |-> tup]
    BY <2>1, <1>1, Zenon DEF InsertEffect
  <2>. QED
    BY <2>1, <2>2
<1>6. Item(n)'.tup.xid = x /\ Item(n)'.tup.undo = InvalidUsn /\ Item(n)'.tup.val = u
  BY <1>5 DEF Tuple
<1>7. pc[x] = "insert" /\ clobbered' = clobbered /\ failed' = failed
  BY <1>1 DEF Inserted
<1>8. Row(n)' = u
  BY <1>2, <1>6 DEF Row
<1>9. \A s \in Places : Row(s) < u
  <2>. SUFFICES ASSUME NEW s \in Places PROVE Row(s) < u
    OBVIOUS
  <2>1. Item(s).tup.val \in Usns /\ Placed /\ Records /\ TypeOK
    BY BaseParts DEF Placed, TupleAt
  <2>2. rowOf[Item(s).tup.val] <= Item(s).tup.val /\ rowOf[Item(s).tup.val] \in Nat
    BY <2>1, UsnTypes DEF Records, RecordOK
  <2>3. Item(s).tup.val < u /\ Item(s).tup.val \in Nat
    BY <2>1, <1>3, BaseParts
  <2>. QED
    BY <2>2, <2>3, <1>3 DEF Row
<1>. QED
  BY <1>2, <1>3, <1>4, <1>5, <1>6, <1>7, <1>8, <1>9

\* A changed row.
LEMMA WriteTable ==
  ASSUME Base, NEW x \in Xids, NEW u, NEW c, NEW n, WroteAt(x, u, c, n)
  PROVE  /\ u \notin Usns /\ Usns' = Usns \cup {u} /\ u \in Nat /\ u > 0 /\ \A v \in Usns : v < u
         /\ undo'[u].xid = x /\ undo'[u].type # "Delete" /\ undo'[u].old = c /\ undo'[u].new = n
         /\ undo'[u].tup \in {cur[x].tup, Item(c).tup}
         /\ rowOf'[u] = Row(c) /\ c \in Places /\ c = cur[x].tid /\ Places' = Places \cup {n} /\ (n = c \/ n \notin Places)
         /\ \A s \in Places : s # c => Item(s)' = Item(s)
         /\ Item(c)'.dead = Item(c).dead /\ Item(c)'.tup.xid = x /\ Item(c)'.tup.undo = u
         /\ n # c => ~Item(n)'.dead /\ Item(n)'.tup.xid = x /\ Item(n)'.tup.undo = u
         /\ pc[x] \in Writing /\ pc'[x] = "scan" /\ failed' = failed
         /\ Row(c)' = Row(c) /\ Row(n)' = Row(c)
         /\ Spots(u)' = {c, n} /\ (Moved(u)' <=> n # c)
<1>1. WriteEffect(x, u, c, n) /\ Wrote(x, c)
  BY DEF WroteAt
<1>2. /\ u = Len(undo) + 1 /\ u \notin Usns /\ Usns' = Usns \cup {u} /\ rowOf'[u] = Row(c)
      /\ c \in Places /\ c = cur[x].tid /\ Places' = Places \cup {n} /\ (n = c \/ n \notin Places)
      /\ \A s \in Places : s # c => Item(s)' = Item(s)
      /\ Item(c)'.dead = Item(c).dead /\ Item(c)'.tup.xid = x /\ Item(c)'.tup.undo = u
  BY <1>1, Zenon DEF WriteEffect, RecordAdded
<1>3. u \in Nat /\ u > 0 /\ \A v \in Usns : v < u
  BY <1>2, BaseParts
<1>4. /\ undo'[u].xid = x /\ undo'[u].type # "Delete" /\ undo'[u].old = c /\ undo'[u].new = n
      /\ undo'[u].tup \in {cur[x].tup, Item(c).tup}
  BY <1>1 DEF WriteEffect
<1>5. n # c => ~Item(n)'.dead /\ Item(n)'.tup.xid = x /\ Item(n)'.tup.undo = u /\ Item(n)'.tup.val = u
  <2>. SUFFICES ASSUME n # c PROVE ~Item(n)'.dead /\ Item(n)'.tup.xid = x /\ Item(n)'.tup.undo = u /\ Item(n)'.tup.val = u
    OBVIOUS
  <2>1. PICK tup : tup = Tuple(x, u, FALSE, u)
    OBVIOUS
  <2>2. Item(n)' = [dead |-> FALSE, tup |-> tup]
    BY <2>1, <1>1, Zenon DEF WriteEffect
  <2>3. ~Item(n)'.dead /\ Item(n)'.tup = tup
    BY <2>2
  <2>4. tup.xid = x /\ tup.undo = u /\ tup.val = u
    BY <2>1 DEF Tuple
  <2>. QED
    BY <2>3, <2>4
<1>6. pc[x] \in Writing /\ pc'[x] = "scan" /\ failed' = failed
  BY <1>1 DEF Wrote, Writing
<1>7. Row(c)' = Row(c)
  BY <1>1, <1>2, BaseParts, WriteGrows DEF StoreGrows
<1>8. Row(n)' = Row(c)
  <2>1. CASE n = c
    BY <2>1, <1>7
  <2>2. CASE n # c
    BY <2>2, <1>2, <1>5 DEF Row
  <2>. QED
    BY <2>1, <2>2
<1>9. Spots(u)' = {c, n} /\ (Moved(u)' <=> n # c)
  BY <1>4 DEF Spots, Moved
<1>. QED
  BY <1>2, <1>3, <1>4, <1>5, <1>6, <1>7, <1>8, <1>9

\* An undone change: the change is not there, or the version before it is back.
LEMMA UndoTable ==
  ASSUME Base, NEW x \in Xids, NEW u, NEW o, NEW n, UndidAt(x, u, o, n)
  PROVE  /\ u \in Usns /\ undo[u].xid = x /\ o = undo[u].old /\ n = undo[u].new
         /\ o \in Places /\ n \in Places /\ Row(o) = rowOf[u] /\ Row(n) = rowOf[u]
         /\ Places' = Places /\ undo' = undo /\ Usns' = Usns /\ rowOf' = rowOf
         /\ clobbered' = clobbered /\ failed' = failed /\ pc[x] = "undo" /\ pc'[x] = "undo"
         /\ \A s \in Places : s \notin {o, n} => Item(s)' = Item(s)
         /\ \/ /\ Item(o).tup.undo # u /\ n = o /\ \A s \in Places : Item(s)' = Item(s)
            \/ /\ Item(o).tup.undo = u /\ undo[u].type # "Delete" /\ Item(o).tup.xid = x
               /\ Item(o)'.dead = Item(o).dead /\ Item(o)'.tup = undo[u].tup /\ TupleAt(o, undo[u].tup)
               /\ n # o => /\ Item(n).tup.undo = u /\ Item(n).tup.xid = x
                           /\ Item(n)'.dead /\ Item(n)'.tup = Item(n).tup
<1>1. UndoEffect(u, o, n) /\ Undid(x) /\ u \in Usns /\ undo[u].xid = x
  BY DEF UndidAt
<1>2. TypeOK /\ Placed /\ Records /\ u > 0
  BY <1>1, BaseParts
<1>3. /\ o = undo[u].old /\ n = undo[u].new /\ o \in Places /\ n \in Places /\ Places' = Places
      /\ undo' = undo /\ rowOf' = rowOf
      /\ \A s \in Places : s \notin {o, n} => Item(s)' = Item(s)
  BY <1>1, Zenon DEF UndoEffect
<1>4. Usns' = Usns /\ Row(o) = rowOf[u] /\ Row(n) = rowOf[u]
  BY <1>1, <1>2, <1>3 DEF Usns, Records, RecordOK, Spots
<1>5. clobbered' = clobbered /\ failed' = failed /\ pc[x] = "undo" /\ pc'[x] = "undo"
  BY <1>1 DEF Undid
<1>6. \A s \in Places : Item(s).tup.undo = u => Item(s).tup.xid = x
  <2>. SUFFICES ASSUME NEW s \in Places, Item(s).tup.undo = u PROVE Item(s).tup.xid = x
    OBVIOUS
  <2>1. PICK tup : tup = Item(s).tup
    OBVIOUS
  <2>2. TupleAt(s, tup) /\ Maker(tup) = u
    BY <2>1, <1>2 DEF Placed, Maker, InvalidUsn
  <2>. QED
    BY <2>1, <2>2, <1>1 DEF TupleAt
<1>7. CASE Item(o).tup.undo # u /\ undo[u].type # "Update" /\ Item(o)' = Item(o) /\ Item(n)' = Item(n)
  <2>1. n = o
    BY <1>1, <1>2, <1>3, <1>7 DEF Records, RecordOK, Moved
  <2>. QED
    BY <1>1, <1>3, <1>4, <1>5, <1>7, <2>1
<1>8. CASE /\ undo[u].type # "Delete" /\ Item(o).tup.undo = u
           /\ Item(o)' = [dead |-> Item(o).dead, tup |-> undo[u].tup]
           /\ n # o => Item(n).tup.undo = u /\ Item(n)' = [dead |-> TRUE, tup |-> Item(n).tup]
  <2>1. TupleAt(o, undo[u].tup)
    BY <1>1, <1>2, <1>3, <1>8 DEF Records, RecordOK
  <2>2. Item(o)'.dead = Item(o).dead /\ Item(o)'.tup = undo[u].tup
    BY <1>8
  <2>3. n # o => Item(n)'.dead /\ Item(n)'.tup = Item(n).tup
    BY <1>8
  <2>. QED
    BY <1>1, <1>3, <1>4, <1>5, <1>6, <1>8, <2>1, <2>2, <2>3
<1>. QED
  BY <1>1, <1>7, <1>8, Zenon DEF UndoEffect

\* The comment "it's enough to check only tuple XID": a statement that changes a row
\* without a blind write finds on the page the version it scanned.
LEMMA WriteSeesTop ==
  ASSUME Base, OwnOnTop, XidTells, NEW x \in Xids, NEW u, NEW c, NEW n, WroteAt(x, u, c, n), Row(c) \notin clobbered'
  PROVE  /\ Row(c) \notin clobbered /\ Item(c).tup = cur[x].tup /\ undo'[u].tup = Item(c).tup
         /\ TupleVisible(x, Item(c).tup) /\ ~Item(c).tup.deleted /\ ~Item(c).dead /\ ~Gone(c)
         /\ TupleAt(c, Item(c).tup) /\ status[x] = InProgressCsn /\ ~IsNormal(status[x])
         /\ Item(c).tup.xid # x => IsNormal(status[Item(c).tup.xid])
<1>1. /\ c \in Places /\ c = cur[x].tid /\ pc[x] \in Writing /\ undo'[u].tup \in {cur[x].tup, Item(c).tup}
      /\ clobbered \subseteq clobbered'
      /\ Item(c).tup.xid = cur[x].tup.xid \/ Item(c).tup = cur[x].tup
  BY WriteTable DEF WroteAt, Wrote
<1>2. Row(c) \notin clobbered
  BY <1>1
<1>3. ~cur[x].tup.deleted /\ (cur[x].tup.xid = x => Item(c).tup = cur[x].tup)
  BY <1>1, <1>2 DEF OwnOnTop
<1>4. cur[x].tup.xid # x /\ Item(c).tup.xid = cur[x].tup.xid => Item(c).tup = cur[x].tup
  BY <1>1, <1>2 DEF XidTells
<1>5. Item(c).tup = cur[x].tup
  BY <1>1, <1>3, <1>4
<1>6. ~Item(c).dead /\ TupleVisible(x, cur[x].tup) /\ Placed
  BY <1>1, BaseParts DEF Scanned
<1>7. TupleAt(c, Item(c).tup)
  BY <1>1, <1>6 DEF Placed
<1>8. status[x] = InProgressCsn /\ ~IsNormal(status[x])
  BY <1>1, InProgress DEF Writing
<1>9. Item(c).tup.xid # x => IsNormal(status[Item(c).tup.xid])
  BY <1>5, <1>6 DEF TupleVisible, Visible
<1>10. ~Gone(c)
  <2>. SUFFICES ASSUME Item(c).tup.undo # InvalidUsn, Moved(Item(c).tup.undo), undo[Item(c).tup.undo].old = c
                PROVE  FALSE
    BY <1>6 DEF Gone
  <2>1. Maker(Item(c).tup) = Item(c).tup.undo
    BY DEF Maker
  <2>. QED
    BY <2>1, <1>3, <1>5, <1>7 DEF TupleAt
<1>. QED
  BY <1>1, <1>2, <1>3, <1>5, <1>6, <1>7, <1>8, <1>9, <1>10

\* Records keep versions that were committed, or the transaction's own.
LEMMA KeepsCommittedStep ==
  ASSUME Base, KeepsCommitted, OwnOnTop, XidTells, NEW x \in Xids, Step(x)
  PROVE  KeepsCommitted'
<1>. SUFFICES ASSUME NEW v \in Usns', undo'[v].type # "Delete", rowOf'[v] \notin clobbered'
              PROVE  /\ Foreign(v)' => IsNormal(status'[undo'[v].tup.xid])
                     /\ ~undo'[v].tup.deleted
  BY DEF KeepsCommitted
<1>1. \A z \in Xids : IsNormal(status[z]) => status'[z] = status[z]
  BY BaseParts, NormalStays
<1>2. CASE v \in Usns
  <2>1. undo'[v] = undo[v] /\ rowOf[v] \notin clobbered /\ (Foreign(v)' <=> Foreign(v))
    BY <1>2, Kept
  <2>2. (Foreign(v) => IsNormal(status[undo[v].tup.xid])) /\ ~undo[v].tup.deleted
    BY <1>2, <2>1 DEF KeepsCommitted
  <2>3. undo[v].tup.xid \in Xids
    BY <1>2, <2>1, BaseParts DEF Records, RecordOK, TupleAt
  <2>. QED
    BY <2>1, <2>2, <2>3, <1>1
<1>3. CASE v \notin Usns
  <2>1. ASSUME NEW u, NEW n, InsertedAt(x, u, n) PROVE FALSE
    BY <2>1, <1>3, InsertTable
  <2>2. ASSUME NEW u, NEW c, NEW n, WroteAt(x, u, c, n)
        PROVE  (Foreign(v)' => IsNormal(status'[undo'[v].tup.xid])) /\ ~undo'[v].tup.deleted
    <3>1. v = u /\ undo'[v].xid = x /\ rowOf'[v] = Row(c)
      BY <2>2, <1>3, WriteTable
    <3>2. /\ undo'[v].tup = Item(c).tup /\ ~Item(c).tup.deleted /\ TupleAt(c, Item(c).tup)
          /\ Item(c).tup.xid # x => IsNormal(status[Item(c).tup.xid])
      BY <2>2, <3>1, WriteSeesTop
    <3>3. Item(c).tup.xid \in Xids
      BY <3>2 DEF TupleAt
    <3>. QED
      BY <3>1, <3>2, <3>3, <1>1 DEF Foreign
  <2>3. CASE Quiet(x)
    BY <2>3, <1>3, QuietTable
  <2>4. ASSUME NEW u, NEW o, NEW n, UndidAt(x, u, o, n) PROVE FALSE
    BY <2>4, <1>3, UndoTable
  <2>. QED
    BY <2>1, <2>2, <2>3, <2>4 DEF Step
<1>. QED
  BY <1>2, <1>3

\* Who goes on to change a row: the scan held it already, or found it in this step.
LEMMA StillWriting ==
  ASSUME Base, NEW x \in Xids, Step(x), NEW y \in Xids, pc'[y] \in Writing
  PROVE  \/ /\ pc[y] \in Writing /\ cur'[y] = cur[y] /\ cur[y].tid \in Places
            /\ \A u, c, n : WroteAt(x, u, c, n) => y # x
            /\ \A u, o, n : UndidAt(x, u, o, n) => y # x
         \/ y = x /\ Quiet(x) /\ \E t : Found(x, t)
<1>1. OthersKept(x) /\ Scanned
  BY Kept, BaseParts
<1>2. CASE y # x
  BY <1>1, <1>2 DEF OthersKept, Scanned
<1>3. CASE y = x
  <2>1. Quiet(x)
    BY <1>3 DEF Writing, Step, InsertedAt, Inserted, WroteAt, Wrote, UndidAt, Undid
  <2>2. (\A u, c, n : ~WroteAt(x, u, c, n)) /\ \A u, o, n : ~UndidAt(x, u, o, n)
    BY <1>3 DEF WroteAt, Wrote, UndidAt, Undid, Writing
  <2>3. Waits(x) \/ \E t : Found(x, t)
    BY <1>3, <2>1 DEF Writing, Quiet, Began, Started, Committed, Stopped, RollsBack, GivesUp, RolledBack
  <2>. QED
    BY <1>1, <1>3, <2>1, <2>2, <2>3 DEF Waits, ScanKept, Scanned
<1>. QED
  BY <1>2, <1>3

\* What a scan finds of a row that nobody overwrote blindly: the version on the page,
\* or one that the record of another transaction keeps.
LEMMA FoundClean ==
  ASSUME Base, KeepsCommitted, NEW x \in Xids, NEW t, Found(x, t), pc'[x] \in Writing, Row(t) \notin clobbered
  PROVE  /\ ~cur'[x].tup.deleted
         /\ \/ cur'[x].tup = Item(t).tup
            \/ /\ cur'[x].tup.xid # x
               /\ \E u \in Usns : Foreign(u) /\ cur'[x].tup = undo[u].tup /\ undo[u].old = t
<1>1. /\ TupleVisible(x, cur'[x].tup) /\ t \in Places
      /\ \/ cur'[x].tup = Item(t).tup /\ ~Item(t).tup.deleted
         \/ \E u \in Usns :
              /\ cur'[x].tup = undo[u].tup /\ undo[u].type # "Delete" /\ ~Moved(u) /\ undo[u].old = t
              /\ ~Belongs(x, u)
  BY BaseParts, FoundVersion
<1>2. CASE cur'[x].tup = Item(t).tup /\ ~Item(t).tup.deleted
  BY <1>2
<1>3. ASSUME NEW u \in Usns, cur'[x].tup = undo[u].tup, undo[u].type # "Delete", undo[u].old = t, ~Belongs(x, u)
      PROVE  /\ ~cur'[x].tup.deleted
             /\ cur'[x].tup.xid # x /\ Foreign(u)
  <2>1. rowOf[u] = Row(t)
    BY <1>3, BaseParts DEF Records, RecordOK, Spots
  <2>2. ~undo[u].tup.deleted /\ (Foreign(u) => IsNormal(status[undo[u].tup.xid]))
    BY <1>3, <2>1 DEF KeepsCommitted
  <2>3. ~IsNormal(status[x]) /\ pc[x] = "scan" /\ t[2] >= pos[x][2]
    BY InProgress DEF Found
  <2>4. undo[u].xid # x
    <3>. SUFFICES ASSUME undo[u].xid = x PROVE FALSE
      OBVIOUS
    <3>1. u >= snapCid[x]
      <4>1. ~(u < snapCid[x])
        BY <1>3 DEF Belongs
      <4>2. u \in Nat /\ snapCid[x] \in Nat
        BY BaseParts, LocalValuesAt
      <4>. QED
        BY <4>1, <4>2
    <3>2. undo[u].old[2] < pos[x][2]
      BY <2>3, <3>1, BaseParts DEF Behind, Scanning
    <3>3. t[2] \in Nat /\ pos[x][2] \in Nat
      <4>1. pos[x][2] \in Nat
        BY BaseParts, LocalValuesAt
      <4>. QED
        BY <1>1, <4>1, Bounds DEF Places, PlacesOf
    <3>. QED
      BY <1>3, <2>3, <3>2, <3>3
  <2>5. undo[u].tup.xid # x
    BY <1>3, <2>2, <2>3, <2>4 DEF Foreign
  <2>6. Foreign(u)
    <3>. SUFFICES ASSUME undo[u].tup.xid = undo[u].xid PROVE FALSE
      BY <1>3 DEF Foreign
    <3>. QED
      BY <1>1, <1>3, <2>5 DEF TupleVisible, Belongs
  <2>. QED
    BY <1>3, <2>2, <2>5, <2>6
<1>. QED
  BY <1>1, <1>2, <1>3

\* A version of its own that a statement goes to change is the one on the page.
LEMMA OwnOnTopStep ==
  ASSUME Base, KeepsCommitted, OwnOnTop, XidTells, NEW x \in Xids, Step(x)
  PROVE  OwnOnTop'
<1>. DEFINE Own(y) == /\ ~cur[y].tup.deleted
                      /\ cur[y].tup.xid = y => Item(cur[y].tid).tup = cur[y].tup
<1>. SUFFICES ASSUME NEW y \in Xids, pc'[y] \in Writing, Row(cur[y].tid)' \notin clobbered' PROVE Own(y)'
  BY DEF OwnOnTop
<1>1. CASE y = x /\ Quiet(x) /\ \E t : Found(x, t)
  <2>1. PICK t : Found(x, t)
    BY <1>1
  <2>2. cur'[x].tid = t /\ t \in Places /\ Item(t)' = Item(t) /\ Row(t)' = Row(t) /\ clobbered' = clobbered
    BY <1>1, <2>1, BaseParts, FoundVersion, QuietTable
  <2>3. Row(t) \notin clobbered
    BY <1>1, <2>2
  <2>. QED
    BY <1>1, <2>1, <2>2, <2>3, FoundClean
<1>2. CASE /\ pc[y] \in Writing /\ cur'[y] = cur[y] /\ cur[y].tid \in Places
           /\ \A u, c, n : WroteAt(x, u, c, n) => y # x
           /\ \A u, o, n : UndidAt(x, u, o, n) => y # x
  <2>1. PICK t : t = cur[y].tid
    OBVIOUS
  <2>2. Row(t) \notin clobbered' /\ Row(t) \notin clobbered /\ t \in Places
    BY <1>2, <2>1, Kept
  <2>3. ~cur[y].tup.deleted /\ (cur[y].tup.xid = y => Item(t).tup = cur[y].tup)
    BY <1>2, <2>1, <2>2 DEF OwnOnTop
  <2>4. ~IsNormal(status[y])
    BY <1>2, InProgress DEF Writing
  <2>5. cur[y].tup.xid = y => Item(t)'.tup = Item(t).tup
    <3>. SUFFICES ASSUME cur[y].tup.xid = y, Item(t).tup = cur[y].tup PROVE Item(t)'.tup = Item(t).tup
      BY <2>3
    <3>1. CASE Quiet(x)
      BY <3>1, QuietTable
    <3>2. ASSUME NEW u, NEW n, InsertedAt(x, u, n) PROVE Item(t)'.tup = Item(t).tup
      BY <3>2, <2>2, InsertTable
    <3>3. ASSUME NEW u, NEW c, NEW n, WroteAt(x, u, c, n) PROVE Item(t)'.tup = Item(t).tup
      <4>1. CASE t = c
        <5>1. Item(c).tup.xid # x => IsNormal(status[Item(c).tup.xid])
          BY <3>3, <4>1, <2>2, WriteSeesTop
        <5>. QED
          BY <5>1, <4>1, <1>2, <2>4, <3>3
      <4>2. CASE t # c
        BY <3>3, <4>2, <2>2, WriteTable
      <4>. QED
        BY <4>1, <4>2
    <3>4. ASSUME NEW u, NEW o, NEW n, UndidAt(x, u, o, n) PROVE Item(t)'.tup = Item(t).tup
      <4>1. x # y
        BY <1>2, <3>4
      <4>. QED
        BY <3>4, <4>1, <2>2, UndoTable
    <3>. QED
      BY <3>1, <3>2, <3>3, <3>4 DEF Step
  <2>. QED
    BY <1>2, <2>1, <2>3, <2>5
<1>. QED
  BY <1>1, <1>2, StillWriting

RecordTells(v) ==
  /\ Item(undo[v].old).tup.xid = undo[v].tup.xid => Item(undo[v].old).tup = undo[v].tup
  /\ \A w \in Usns : Foreign(w) /\ undo[w].old = undo[v].old /\ undo[w].tup.xid = undo[v].tup.xid
       => undo[w].tup = undo[v].tup
ScanTells(y) ==
  /\ Item(cur[y].tid).tup.xid = cur[y].tup.xid => Item(cur[y].tid).tup = cur[y].tup
  /\ \A v \in Usns : Foreign(v) /\ undo[v].old = cur[y].tid /\ undo[v].tup.xid = cur[y].tup.xid
       => undo[v].tup = cur[y].tup

\* A version that is told by its xid is one of a committed transaction.
LEMMA ToldCommitted ==
  ASSUME Base, KeepsCommitted
  PROVE  /\ \A v \in Usns : Foreign(v) /\ rowOf[v] \notin clobbered => IsNormal(status[undo[v].tup.xid])
         /\ \A y \in Xids : pc[y] \in Writing /\ cur[y].tup.xid # y => IsNormal(status[cur[y].tup.xid])
<1>1. \A v \in Usns : Foreign(v) /\ rowOf[v] \notin clobbered => IsNormal(status[undo[v].tup.xid])
  BY DEF KeepsCommitted, Foreign
<1>2. Scanned
  BY BaseParts
<1>. QED
  BY <1>1, <1>2 DEF Scanned, TupleVisible, Visible

\* The records, when an older record of the row is told by the xid.
LEMMA RecordTellsStep ==
  ASSUME Base, KeepsCommitted, OwnOnTop, XidTells, NEW x \in Xids, Step(x),
         NEW v \in Usns', Foreign(v)', rowOf'[v] \notin clobbered'
  PROVE  RecordTells(v)'
<1>1. CASE Quiet(x)
  <2>1. /\ Usns' = Usns /\ undo' = undo /\ rowOf' = rowOf /\ clobbered' = clobbered /\ \A t : Item(t)' = Item(t)
    BY <1>1, QuietTable
  <2>2. \A w : Foreign(w)' <=> Foreign(w)
    BY <2>1 DEF Foreign
  <2>. QED
    BY <2>1, <2>2 DEF XidTells, RecordTells
<1>2. ASSUME NEW u, NEW n, InsertedAt(x, u, n) PROVE RecordTells(v)'
  <2>1. /\ undo'[u].type = "Delete" /\ Usns' = Usns \cup {u} /\ clobbered' = clobbered
        /\ \A s \in Places : Item(s)' = Item(s)
    BY <1>2, InsertTable
  <2>2. ~Foreign(u)' /\ v \in Usns /\ \A w \in Usns' : Foreign(w)' => w \in Usns
    BY <2>1 DEF Foreign
  <2>3. \A w \in Usns : undo'[w] = undo[w] /\ rowOf'[w] = rowOf[w] /\ (Foreign(w)' <=> Foreign(w)) /\ undo[w].old \in Places
    BY Kept
  <2>4. RecordTells(v)
    BY <2>1, <2>2, <2>3 DEF XidTells, RecordTells
  <2>. QED
    BY <2>1, <2>2, <2>3, <2>4 DEF RecordTells
<1>3. ASSUME NEW u, NEW c, NEW n, WroteAt(x, u, c, n) PROVE RecordTells(v)'
  <2>1. /\ Usns' = Usns \cup {u} /\ undo'[u].xid = x /\ undo'[u].old = c /\ rowOf'[u] = Row(c) /\ c \in Places
        /\ \A s \in Places : s # c => Item(s)' = Item(s)
        /\ Item(c)'.tup.xid = x
    BY <1>3, WriteTable
  <2>2. \A w \in Usns : /\ undo'[w] = undo[w] /\ rowOf'[w] = rowOf[w] /\ (Foreign(w)' <=> Foreign(w))
                        /\ undo[w].old \in Places /\ Row(undo[w].old) = rowOf[w]
                        /\ (rowOf[w] \notin clobbered' => rowOf[w] \notin clobbered)
    BY Kept DEF Spots
  <2>3. Row(c) \notin clobbered' => undo'[u].tup = Item(c).tup /\ ~IsNormal(status[x])
    BY <1>3, WriteSeesTop
  <2>4. CASE v \in Usns
    <3>1. RecordTells(v) /\ IsNormal(status[undo[v].tup.xid])
      BY <2>2, <2>4, ToldCommitted DEF XidTells, RecordTells
    <3>2. undo[v].old = c => Row(c) \notin clobbered' /\ ~IsNormal(status[x])
      BY <2>2, <2>3, <2>4
    <3>3. Item(undo[v].old)'.tup.xid = undo[v].tup.xid => Item(undo[v].old)'.tup = undo[v].tup
      <4>1. PICK t : t = undo[v].old
        OBVIOUS
      <4>2. t \in Places /\ (Item(t).tup.xid = undo[v].tup.xid => Item(t).tup = undo[v].tup) /\ undo'[v] = undo[v]
        BY <4>1, <3>1, <2>2, <2>4 DEF RecordTells
      <4>3. Item(t)'.tup.xid = undo[v].tup.xid => Item(t)'.tup = undo[v].tup
        BY <4>1, <4>2, <2>1, <3>1, <3>2
      <4>. QED
        BY <4>1, <4>2, <4>3
    <3>4. ASSUME NEW w \in Usns', Foreign(w)', undo'[w].old = undo[v].old, undo'[w].tup.xid = undo[v].tup.xid
          PROVE  undo'[w].tup = undo[v].tup
      <4>1. CASE w \in Usns
        BY <4>1, <3>1, <3>4, <2>2 DEF RecordTells
      <4>2. CASE w = u
        <5>1. undo[v].old = c /\ undo'[u].tup = Item(c).tup
          BY <4>2, <3>2, <3>4, <2>1, <2>3
        <5>. QED
          BY <4>2, <5>1, <3>1, <3>4 DEF RecordTells
      <4>. QED
        BY <4>1, <4>2, <2>1
    <3>5. undo'[v] = undo[v]
      BY <2>2, <2>4
    <3>. QED
      BY <3>3, <3>4, <3>5 DEF RecordTells
  <2>5. CASE v = u
    <3>1. Row(c) \notin clobbered' /\ undo'[u].tup = Item(c).tup /\ Item(c).tup.xid # x
      BY <2>1, <2>3, <2>5 DEF Foreign
    <3>2. ASSUME NEW w \in Usns', Foreign(w)', undo'[w].old = c, undo'[w].tup.xid = Item(c).tup.xid
          PROVE  undo'[w].tup = Item(c).tup
      <4>1. CASE w \in Usns
        <5>1. Foreign(w) /\ undo[w].old = c /\ undo[w].tup.xid = Item(c).tup.xid /\ rowOf[w] \notin clobbered
              /\ undo'[w] = undo[w]
          BY <3>1, <3>2, <4>1, <2>2
        <5>. QED
          BY <5>1, <4>1 DEF XidTells
      <4>. QED
        BY <4>1, <3>1, <2>1
    <3>. QED
      BY <2>1, <2>5, <3>1, <3>2 DEF RecordTells
  <2>. QED
    BY <2>1, <2>4, <2>5
<1>4. ASSUME NEW u, NEW o, NEW n, UndidAt(x, u, o, n) PROVE RecordTells(v)'
  <2>1. /\ Usns' = Usns /\ undo' = undo /\ rowOf' = rowOf /\ clobbered' = clobbered /\ u \in Usns
        /\ undo[u].xid = x /\ o = undo[u].old /\ Row(o) = rowOf[u] /\ pc[x] = "undo"
    BY <1>4, UndoTable
  <2>2. Foreign(v) /\ undo[v].old \in Places /\ Row(undo[v].old) = rowOf[v] /\ v \in Usns /\ rowOf[v] \notin clobbered
        /\ \A w : Foreign(w)' <=> Foreign(w)
    BY <2>1, Kept DEF Foreign, Spots
  <2>3. RecordTells(v) /\ IsNormal(status[undo[v].tup.xid])
    BY <2>2, ToldCommitted DEF XidTells, RecordTells
  <2>4. ~IsNormal(status[x])
    BY <2>1, InProgress
  <2>5. PICK t : t = undo[v].old
    OBVIOUS
  <2>6. \/ Item(t)'.tup = Item(t).tup
        \/ t = o /\ Item(t)'.tup = undo[u].tup /\ undo[u].type # "Delete"
    BY <1>4, <2>2, <2>5, UndoTable
  <2>7. Item(t)'.tup.xid = undo[v].tup.xid => Item(t)'.tup = undo[v].tup
    <3>1. CASE Item(t)'.tup = Item(t).tup
      BY <3>1, <2>3, <2>5 DEF RecordTells
    <3>2. CASE t = o /\ Item(t)'.tup = undo[u].tup /\ undo[u].type # "Delete"
      <4>1. undo[u].tup.xid = undo[v].tup.xid => Foreign(u)
        BY <3>2, <2>1, <2>3, <2>4 DEF Foreign
      <4>. QED
        BY <3>2, <4>1, <2>1, <2>3, <2>5 DEF RecordTells
    <3>. QED
      BY <3>1, <3>2, <2>6
  <2>. QED
    BY <2>1, <2>2, <2>3, <2>5, <2>7 DEF RecordTells
<1>. QED
  BY <1>1, <1>2, <1>3, <1>4 DEF Step

\* The scans.
LEMMA ScanTellsStep ==
  ASSUME Base, KeepsCommitted, OwnOnTop, XidTells, NEW x \in Xids, Step(x),
         NEW y \in Xids, pc'[y] \in Writing, Row(cur[y].tid)' \notin clobbered', cur'[y].tup.xid # y
  PROVE  ScanTells(y)'
<1>1. CASE y = x /\ Quiet(x) /\ \E t : Found(x, t)
  <2>1. PICK t : Found(x, t)
    BY <1>1
  <2>2. /\ cur'[x].tid = t /\ t \in Places /\ Item(t)' = Item(t) /\ Row(t)' = Row(t) /\ clobbered' = clobbered
        /\ Usns' = Usns /\ undo' = undo
    BY <1>1, <2>1, BaseParts, FoundVersion, QuietTable
  <2>3. Row(t) \notin clobbered /\ \A w : Foreign(w)' <=> Foreign(w)
    BY <1>1, <2>2 DEF Foreign
  <2>4. \/ cur'[x].tup = Item(t).tup
        \/ \E u \in Usns : Foreign(u) /\ cur'[x].tup = undo[u].tup /\ undo[u].old = t
    BY <1>1, <2>1, <2>3, FoundClean
  <2>5. \A v \in Usns : Foreign(v) /\ undo[v].old = t => RecordTells(v)
    <3>1. \A v \in Usns : undo[v].old = t => rowOf[v] = Row(t)
      BY BaseParts DEF Records, RecordOK, Spots
    <3>. QED
      BY <2>3, <3>1 DEF XidTells, RecordTells
  <2>6. Item(t).tup.xid = cur'[x].tup.xid => Item(t).tup = cur'[x].tup
    BY <2>4, <2>5 DEF RecordTells
  <2>7. \A v \in Usns : Foreign(v) /\ undo[v].old = t /\ undo[v].tup.xid = cur'[x].tup.xid => undo[v].tup = cur'[x].tup
    BY <2>4, <2>5 DEF RecordTells
  <2>. QED
    BY <1>1, <2>2, <2>3, <2>6, <2>7 DEF ScanTells
<1>2. CASE /\ pc[y] \in Writing /\ cur'[y] = cur[y] /\ cur[y].tid \in Places
           /\ \A u, c, n : WroteAt(x, u, c, n) => y # x
           /\ \A u, o, n : UndidAt(x, u, o, n) => y # x
  <2>1. PICK t, tup : t = cur[y].tid /\ tup = cur[y].tup
    OBVIOUS
  <2>2. Row(t) \notin clobbered' /\ Row(t) \notin clobbered /\ t \in Places
    BY <1>2, <2>1, Kept
  <2>3. /\ Item(t).tup.xid = tup.xid => Item(t).tup = tup
        /\ \A v \in Usns : Foreign(v) /\ undo[v].old = t /\ undo[v].tup.xid = tup.xid => undo[v].tup = tup
        /\ tup.xid # y /\ IsNormal(status[tup.xid])
    BY <1>2, <2>1, <2>2, ToldCommitted DEF XidTells
  <2>4. \A w \in Usns : undo'[w] = undo[w] /\ (Foreign(w)' <=> Foreign(w))
    BY Kept
  <2>. DEFINE Tells == /\ Item(t)'.tup.xid = tup.xid => Item(t)'.tup = tup
                       /\ \A v \in Usns' : Foreign(v)' /\ undo'[v].old = t /\ undo'[v].tup.xid = tup.xid
                            => undo'[v].tup = tup
  <2>5. ASSUME Quiet(x) PROVE Tells
    BY <2>5, <2>3, <2>4, QuietTable
  <2>6. ASSUME NEW u, NEW n, InsertedAt(x, u, n) PROVE Tells
    <3>1. undo'[u].type = "Delete" /\ Usns' = Usns \cup {u} /\ Item(t)' = Item(t)
      BY <2>2, <2>6, InsertTable
    <3>2. ~Foreign(u)'
      BY <3>1 DEF Foreign
    <3>. QED
      BY <3>1, <3>2, <2>3, <2>4
  <2>7. ASSUME NEW u, NEW c, NEW n, WroteAt(x, u, c, n) PROVE Tells
    <3>1. /\ Usns' = Usns \cup {u} /\ undo'[u].old = c /\ (t # c => Item(t)' = Item(t)) /\ Item(c)'.tup.xid = x
      BY <2>2, <2>7, WriteTable
    <3>2. t = c => undo'[u].tup = Item(c).tup /\ ~IsNormal(status[x])
      BY <2>2, <2>7, WriteSeesTop
    <3>3. Item(t)'.tup.xid = tup.xid => Item(t)'.tup = tup
      BY <3>1, <3>2, <2>3
    <3>4. ASSUME NEW v \in Usns', Foreign(v)', undo'[v].old = t, undo'[v].tup.xid = tup.xid PROVE undo'[v].tup = tup
      BY <3>1, <3>2, <3>4, <2>3, <2>4
    <3>. QED
      BY <3>3, <3>4
  <2>8. ASSUME NEW u, NEW o, NEW n, UndidAt(x, u, o, n) PROVE Tells
    <3>1. Usns' = Usns /\ u \in Usns /\ undo[u].xid = x /\ o = undo[u].old /\ pc[x] = "undo"
      BY <2>8, UndoTable
    <3>2. ~IsNormal(status[x])
      BY <3>1, InProgress
    <3>3. \/ Item(t)'.tup = Item(t).tup
          \/ t = o /\ Item(t)'.tup = undo[u].tup /\ undo[u].type # "Delete"
      BY <2>8, <2>2, UndoTable
    <3>4. CASE Item(t)'.tup = Item(t).tup
      BY <3>1, <3>4, <2>3, <2>4
    <3>5. CASE t = o /\ Item(t)'.tup = undo[u].tup /\ undo[u].type # "Delete"
      <4>1. undo[u].tup.xid = tup.xid => Foreign(u)
        BY <3>1, <3>2, <3>5, <2>3 DEF Foreign
      <4>. QED
        BY <3>1, <3>5, <4>1, <2>3, <2>4
    <3>. QED
      BY <3>3, <3>4, <3>5
  <2>9. Tells
    BY <2>5, <2>6, <2>7, <2>8 DEF Step
  <2>. QED
    BY <1>2, <2>1, <2>9 DEF ScanTells
<1>. QED
  BY <1>1, <1>2, StillWriting

\* The versions of a place are told by the xid.
LEMMA XidTellsStep ==
  ASSUME Base, KeepsCommitted, OwnOnTop, XidTells, NEW x \in Xids, Step(x)
  PROVE  XidTells'
<1>1. \A v \in Usns' : Foreign(v)' /\ rowOf'[v] \notin clobbered' => RecordTells(v)'
  BY RecordTellsStep
<1>2. \A y \in Xids : pc'[y] \in Writing /\ Row(cur[y].tid)' \notin clobbered' /\ cur'[y].tup.xid # y => ScanTells(y)'
  BY ScanTellsStep
<1>. QED
  BY <1>1, <1>2 DEF XidTells, RecordTells, ScanTells

\* The new place of a move dies when the move is undone.
LEMMA DeadUndoneStep ==
  ASSUME Base, KeepsCommitted, DeadUndone, NEW x \in Xids, Step(x)
  PROVE  DeadUndone'
<1>. DEFINE Dead(v) == Item(undo[v].new).dead => Item(undo[v].old).tup.undo # v
<1>. SUFFICES ASSUME NEW v \in Usns', Moved(v)', rowOf'[v] \notin clobbered' PROVE Dead(v)'
  BY DEF DeadUndone
<1>1. CASE v \in Usns
  <2>1. PICK s, t : s = undo[v].old /\ t = undo[v].new
    OBVIOUS
  <2>2. /\ undo'[v] = undo[v] /\ Moved(v) /\ rowOf[v] \notin clobbered /\ s \in Places /\ t \in Places
        /\ s # t /\ v > 0 /\ v \in Nat
    BY <1>1, <2>1, Kept, BaseParts DEF Moved
  <2>3. Item(t).dead => Item(s).tup.undo # v
    BY <1>1, <2>1, <2>2 DEF DeadUndone
  <2>4. Item(t)'.dead => Item(s)'.tup.undo # v
    <3>1. CASE Quiet(x)
      BY <3>1, <2>3, QuietTable
    <3>2. ASSUME NEW u, NEW n, InsertedAt(x, u, n) PROVE Item(t)'.dead => Item(s)'.tup.undo # v
      BY <3>2, <2>2, <2>3, InsertTable
    <3>3. ASSUME NEW u, NEW c, NEW n, WroteAt(x, u, c, n) PROVE Item(t)'.dead => Item(s)'.tup.undo # v
      <4>1. /\ \A p \in Places : Item(p)'.dead = Item(p).dead
            /\ Item(s)'.tup.undo \in {Item(s).tup.undo, u} /\ u # v
        BY <3>3, <1>1, <2>2, WriteTable
      <4>. QED
        BY <4>1, <2>2, <2>3
    <3>4. ASSUME NEW u, NEW o, NEW n, UndidAt(x, u, o, n) PROVE Item(t)'.dead => Item(s)'.tup.undo # v
      <4>1. /\ u \in Usns /\ o = undo[u].old /\ n = undo[u].new /\ Row(o) = rowOf[u] /\ o \in Places
        BY <3>4, UndoTable
      <4>2. CASE \A p \in Places : Item(p)'= Item(p)
        BY <4>2, <2>2, <2>3
      <4>3. CASE /\ undo[u].type # "Delete" /\ Item(o)'.tup = undo[u].tup /\ TupleAt(o, undo[u].tup)
                 /\ Item(o)'.dead = Item(o).dead
                 /\ n # o => Item(n)'.dead /\ Item(n)'.tup = Item(n).tup
                 /\ \A p \in Places : p \notin {o, n} => Item(p)' = Item(p)
        <5>1. ASSUME s = o PROVE undo[u].tup.undo # v
          <6>. SUFFICES ASSUME undo[u].tup.undo = v PROVE FALSE
            OBVIOUS
          <6>1. rowOf[u] = rowOf[v]
            BY <1>1, <4>1, <5>1, <2>1, Kept DEF Spots
          <6>2. ~undo[u].tup.deleted
            BY <4>1, <4>3, <6>1, <2>2 DEF KeepsCommitted
          <6>3. Maker(undo[u].tup) = v
            BY <2>2 DEF Maker, InvalidUsn
          <6>. QED
            BY <4>3, <5>1, <6>2, <6>3, <2>1, <2>2 DEF TupleAt
        <5>2. ASSUME s # o, t = n, n # o PROVE u = v
          <6>1. Fresh /\ u \in Nat /\ v \in Nat /\ Moved(u) /\ u > 0 /\ v > 0
            BY <4>1, <5>2, <1>1, BaseParts DEF Moved
          <6>2. ~(u < v) /\ ~(v < u)
            <7>1. u < v => u \in 1..(v - 1)
              BY <6>1
            <7>2. v < u => v \in 1..(u - 1)
              BY <6>1
            <7>. QED
              BY <4>1, <5>2, <1>1, <2>1, <2>2, <6>1, <7>1, <7>2 DEF Fresh, Spots
          <6>. QED
            BY <6>1, <6>2
        <5>3. CASE s = o
          BY <5>1, <5>3, <4>3
        <5>4. CASE s # o
          <6>1. Item(s)'.tup = Item(s).tup
            BY <5>4, <4>3, <2>2
          <6>2. CASE t = n /\ n # o
            BY <5>2, <5>4, <6>2, <2>1, <4>1
          <6>3. CASE t # n \/ n = o
            <7>1. Item(t)'.dead = Item(t).dead
              BY <6>3, <4>3, <2>2
            <7>. QED
              BY <6>1, <7>1, <2>3
          <6>. QED
            BY <6>2, <6>3
        <5>. QED
          BY <5>3, <5>4
      <4>. QED
        BY <3>4, <4>2, <4>3, UndoTable
    <3>. QED
      BY <3>1, <3>2, <3>3, <3>4 DEF Step
  <2>. QED
    BY <2>1, <2>2, <2>4
<1>2. CASE v \notin Usns
  <2>1. ASSUME NEW u, NEW n, InsertedAt(x, u, n) PROVE FALSE
    BY <2>1, <1>2, InsertTable DEF Moved
  <2>2. ASSUME NEW u, NEW c, NEW n, WroteAt(x, u, c, n) PROVE Dead(v)'
    <3>1. v = u /\ undo'[v].new = n /\ undo'[v].old = c /\ n # c /\ ~Item(n)'.dead
      BY <2>2, <1>2, WriteTable DEF Moved
    <3>. QED
      BY <3>1
  <2>3. CASE Quiet(x)
    BY <2>3, <1>2, QuietTable
  <2>4. ASSUME NEW u, NEW o, NEW n, UndidAt(x, u, o, n) PROVE FALSE
    BY <2>4, <1>2, UndoTable
  <2>. QED
    BY <2>1, <2>2, <2>3, <2>4 DEF Step
<1>. QED
  BY <1>1, <1>2

\* A place that the row left stays so while its item does.
LEMMA GoneStays ==
  ASSUME Base, NEW x \in Xids, Step(x), NEW s \in Places, Item(s)' = Item(s)
  PROVE  Gone(s)' <=> Gone(s)
<1>1. Item(s).tup.undo # InvalidUsn => Item(s).tup.undo \in Usns
  BY BaseParts DEF Placed, TupleAt
<1>2. \A v \in Usns : undo'[v] = undo[v] /\ Moved(v)' = Moved(v)
  BY Kept
<1>. QED
  BY <1>1, <1>2 DEF Gone, InvalidUsn

\* A row lives at one place.
LEMMA OneLiveStep ==
  ASSUME Base, OwnOnTop, XidTells, DeadUndone, OneLive, NEW x \in Xids, Step(x)
  PROVE  OneLive'
<1>. SUFFICES ASSUME NEW s \in Places', NEW t \in Places', s # t, Row(s)' = Row(t)', Row(s)' \notin clobbered'
              PROVE  Gone(s)' \/ Gone(t)'
  BY DEF OneLive
<1>1. /\ clobbered \subseteq clobbered' /\ \A p \in Places : Row(p)' = Row(p)
  BY Kept
<1>2. s \in Places /\ t \in Places => Gone(s) \/ Gone(t)
  BY <1>1 DEF OneLive
<1>3. CASE Quiet(x)
  BY <1>2, <1>3, QuietTable
<1>4. ASSUME NEW u, NEW n, InsertedAt(x, u, n) PROVE Gone(s)' \/ Gone(t)'
  <2>1. /\ Places' = Places \cup {n} /\ \A p \in Places : Item(p)' = Item(p) /\ Row(p) < u
        /\ Row(n)' = u /\ u \in Nat
    BY <1>4, InsertTable
  <2>2. s \in Places /\ t \in Places
    BY <1>1, <2>1
  <2>. QED
    BY <1>2, <2>1, <2>2, GoneStays
<1>5. ASSUME NEW u, NEW c, NEW n, WroteAt(x, u, c, n) PROVE Gone(s)' \/ Gone(t)'
  <2>1. /\ Places' = Places \cup {n} /\ c \in Places /\ Row(n)' = Row(c) /\ Row(c)' = Row(c)
        /\ (n = c \/ n \notin Places)
        /\ \A p \in Places : p # c => Item(p)' = Item(p)
        /\ Item(c)'.tup.undo = u /\ u # InvalidUsn /\ undo'[u].old = c /\ (Moved(u)' <=> n # c)
    BY <1>5, WriteTable DEF InvalidUsn
  <2>2. CASE s \notin {c, n} /\ t \notin {c, n}
    <3>1. s \in Places /\ t \in Places /\ Item(s)' = Item(s) /\ Item(t)' = Item(t)
      BY <2>1, <2>2
    <3>. QED
      BY <1>2, <3>1, GoneStays
  <2>3. CASE s \in {c, n} /\ t \in {c, n}
    <3>1. n # c /\ Gone(c)'
      BY <2>1, <2>3 DEF Gone, InvalidUsn
    <3>. QED
      BY <2>3, <3>1
  <2>4. ASSUME NEW p \in Places, p \notin {c, n}, Row(p) = Row(c), Row(c) \notin clobbered' PROVE Gone(p)'
    <3>1. ~Gone(c) /\ Row(c) \notin clobbered
      BY <1>5, <2>4, WriteSeesTop
    <3>2. Gone(p)
      BY <2>1, <2>4, <3>1 DEF OneLive
    <3>. QED
      BY <2>1, <2>4, <3>2, GoneStays
  <2>5. CASE s \in {c, n} /\ t \notin {c, n}
    <3>1. t \in Places /\ Row(t) = Row(c) /\ Row(c) \notin clobbered'
      BY <1>1, <2>1, <2>5
    <3>. QED
      BY <3>1, <2>4, <2>5
  <2>6. CASE t \in {c, n} /\ s \notin {c, n}
    <3>1. s \in Places /\ Row(s) = Row(c) /\ Row(c) \notin clobbered'
      BY <1>1, <2>1, <2>6
    <3>. QED
      BY <3>1, <2>4, <2>6
  <2>. QED
    BY <2>2, <2>3, <2>5, <2>6
<1>6. ASSUME NEW u, NEW o, NEW n, UndidAt(x, u, o, n) PROVE Gone(s)' \/ Gone(t)'
  <2>1. /\ Places' = Places /\ u \in Usns /\ o = undo[u].old /\ n = undo[u].new /\ o \in Places /\ n \in Places
        /\ Row(o) = rowOf[u] /\ Row(n) = rowOf[u] /\ clobbered' = clobbered /\ u # InvalidUsn
        /\ \A p \in Places : p \notin {o, n} => Item(p)' = Item(p)
    BY <1>6, UndoTable, BaseParts DEF InvalidUsn
  <2>2. CASE \A p \in Places : Item(p)' = Item(p)
    BY <1>2, <2>1, <2>2, GoneStays
  <2>3. CASE n = o /\ Item(o).tup.undo = u /\ Item(o)'.dead = Item(o).dead
    <3>1. Gone(o) => Gone(o)'
      BY <2>1, <2>3 DEF Gone, Moved
    <3>2. \A p \in Places : p # o => (Gone(p) => Gone(p)')
      BY <2>1, <2>3, GoneStays
    <3>. QED
      BY <1>2, <2>1, <3>1, <3>2
  <2>4. CASE /\ n # o /\ Item(o).tup.undo = u /\ Item(n).tup.undo = u /\ Item(n)'.dead
    <3>1. Gone(n)'
      BY <2>4 DEF Gone
    <3>2. ASSUME NEW p \in Places, p \notin {o, n}, Row(p) = rowOf[u], rowOf[u] \notin clobbered PROVE Gone(p)'
      <4>1. ~Item(n).dead
        BY <2>1, <2>4, <3>2 DEF DeadUndone, Moved
      <4>2. ~Gone(n)
        BY <2>1, <2>4, <4>1 DEF Gone
      <4>3. Gone(p)
        BY <2>1, <3>2, <4>2 DEF OneLive
      <4>. QED
        BY <2>1, <3>2, <4>3, GoneStays
    <3>3. CASE s = n \/ t = n
      BY <3>1, <3>3
    <3>4. CASE s = o /\ t # n
      BY <1>1, <2>1, <3>2, <3>4
    <3>5. CASE t = o /\ s # n
      BY <1>1, <2>1, <3>2, <3>5
    <3>6. CASE s \notin {o, n} /\ t \notin {o, n}
      BY <1>2, <2>1, <3>6, GoneStays
    <3>. QED
      BY <3>3, <3>4, <3>5, <3>6
  <2>. QED
    BY <1>6, <2>2, <2>3, <2>4, UndoTable
<1>. QED
  BY <1>3, <1>4, <1>5, <1>6 DEF Step

\* A transaction's change that was not undone, as far as one can tell by where it is.
NotUndone(u) == LET x == undo[u].xid IN
  /\ status[x] = InProgressCsn
  /\ \/ x \notin failed /\ (pc[x] = "undo" => u \in Pending(x))
     \/ pc[x] \in Scanning /\ u >= snapCid[x]

\* A record that a ROLLBACK has still to undo is an older one than that it undoes.
LEMMA PendingOlder ==
  ASSUME Base, NEW x \in Xids, NEW r, NEW o, NEW n, UndidAt(x, r, o, n)
  PROVE  /\ Pending(x)' \subseteq Pending(x) /\ Pending(x) \subseteq Pending(x)' \cup {r}
         /\ \A u \in Pending(x)' : u \in Usns /\ u < r
<1>. DEFINE L == undoLog[x]
            k == left[x]
<1>1. /\ k \in Nat /\ k > 0 /\ left'[x] = k - 1 /\ r = L[k] /\ k \in DOMAIN L /\ undoLog' = undoLog
  BY BaseParts, LocalValuesAt DEF UndidAt, Undid, UndoEffect
<1>2. Len(L) \in Nat /\ DOMAIN L = 1..Len(L)
  BY BaseParts, LocalValuesAt
<1>3. \A i \in DOMAIN L : L[i] \in Usns /\ \A j \in 1..(i - 1) : L[j] < L[i]
  BY BaseParts DEF Logs
<1>4. Pending(x) = {L[j] : j \in 1..k} /\ Pending(x)' = {L[j] : j \in 1..(k - 1)}
  BY <1>1 DEF Pending
<1>. HIDE DEF L, k
<1>5. \A j \in 1..k : j \in 1..(k - 1) \/ j = k
  BY <1>1
<1>6. \A j \in 1..(k - 1) : j \in 1..k /\ j \in DOMAIN L
  BY <1>1, <1>2
<1>. QED
  BY <1>1, <1>3, <1>4, <1>5, <1>6

\* No step makes such a change of one that was undone.
LEMMA NotUndoneBefore ==
  ASSUME Base, NEW x \in Xids, Step(x), NEW u \in Usns, NotUndone(u)'
  PROVE  NotUndone(u)
<1>1. PICK y : y = undo[u].xid
  OBVIOUS
<1>2. /\ y \in Xids /\ undo'[u] = undo[u] /\ OthersKept(x) /\ failed \subseteq failed' /\ Lives /\ status[y] # InvalidCsn
  BY <1>1, Kept, BaseParts DEF Logs
<1>3. /\ status'[y] = InProgressCsn
      /\ \/ y \notin failed' /\ (pc'[y] = "undo" => u \in Pending(y)')
         \/ pc'[y] \in Scanning /\ u >= snapCid'[y]
  BY <1>1, <1>2 DEF NotUndone
<1>. SUFFICES /\ status[y] = InProgressCsn
              /\ \/ y \notin failed /\ (pc[y] = "undo" => u \in Pending(y))
                 \/ pc[y] \in Scanning /\ u >= snapCid[y]
  BY <1>1 DEF NotUndone
<1>4. CASE y # x
  <2>1. /\ pc'[y] = pc[y] /\ snapCid'[y] = snapCid[y] /\ status'[y] = status[y]
        /\ undoLog'[y] = undoLog[y] /\ left'[y] = left[y]
    BY <1>2, <1>4 DEF OthersKept
  <2>2. Pending(y)' = Pending(y)
    BY <2>1 DEF Pending
  <2>. QED
    BY <1>2, <1>3, <2>1, <2>2
<1>5. CASE y = x
  <2>1. /\ pc[x] = "none" <=> status[x] = InvalidCsn
        /\ pc[x] \notin {"none", "ended"} => status[x] = InProgressCsn
    BY <1>2 DEF Lives
  <2>. USE DEF Scanning, Writing
  <2>2. CASE Quiet(x)
    <3>1. CASE Began(x)
      BY <1>2, <1>5, <2>1, <3>1 DEF Began
    <3>2. CASE Started(x)
      <4>1. u < snapCid'[x] /\ u \in Nat /\ snapCid'[x] \in Nat
        <5>1. u < snapCid'[x]
          BY <1>1, <1>5, <3>2, AllBelong, BaseParts
        <5>2. snapCid'[x] \in Nat
          <6>1. snapCid[x] \in Nat /\ \A i \in DOMAIN undoLog[x] : undoLog[x][i] \in 1..MaxUsn
            BY BaseParts, LocalValuesAt
          <6>2. undoLog[x] # <<>> => Len(undoLog[x]) \in DOMAIN undoLog[x]
            <7>1. undoLog[x] \in Seq(1..MaxUsn)
              BY BaseParts, LocalValuesAt
            <7>. QED
              BY <7>1
          <6>3. snapCid'[x] = snapCid[x] \/ \E v \in 1..MaxUsn : snapCid'[x] = v + 1
            BY <6>1, <6>2, <3>2 DEF Started
          <6>. QED
            BY <6>1, <6>3
        <5>. QED
          BY <5>1, <5>2, BaseParts
      <4>2. pc[x] = "idle" /\ ~(u >= snapCid'[x])
        BY <3>2, <4>1 DEF Started
      <4>. QED
        BY <1>2, <1>3, <1>5, <2>1, <4>2
    <3>3. CASE Committed(x)
      <4>1. nextCsn >= MinCsn /\ status'[x] = nextCsn /\ nextCsn \in Nat
        BY <3>3, <1>2, BaseParts, LocalValuesAt DEF Committed, Lives
      <4>. QED
        BY <1>3, <1>5, <4>1 DEF MinCsn, InProgressCsn
    <3>4. CASE RolledBack(x) \/ GivesUp(x)
      BY <3>4, <1>3, <1>5 DEF RolledBack, GivesUp, InProgressCsn, AbortedCsn
    <3>5. CASE RollsBack(x)
      BY <3>5, <1>2, <1>3, <1>5, <2>1 DEF RollsBack
    <3>6. CASE Stopped(x)
      BY <3>6, <1>2, <1>3, <1>5, <2>1 DEF Stopped
    <3>7. CASE Waits(x)
      BY <3>7, <1>2, <1>3, <1>5, <2>1 DEF Waits
    <3>8. CASE \E t : Found(x, t)
      <4>1. pc[x] = "scan" /\ snapCid'[x] = snapCid[x]
        BY <3>8 DEF Found
      <4>. QED
        BY <4>1, <1>2, <1>3, <1>5, <2>1
    <3>. QED
      BY <2>2, <3>1, <3>2, <3>3, <3>4, <3>5, <3>6, <3>7, <3>8 DEF Quiet
  <2>3. CASE \E v, n : InsertedAt(x, v, n)
    <3>1. pc[x] = "insert" /\ pc'[x] \in {"insert", "idle"}
      BY <2>3 DEF InsertedAt, Inserted
    <3>. QED
      BY <3>1, <1>2, <1>3, <1>5, <2>1
  <2>4. CASE \E v, c, n : WroteAt(x, v, c, n)
    <3>1. pc[x] \in {"write", "relock"} /\ snapCid'[x] = snapCid[x]
      BY <2>4 DEF WroteAt, Wrote
    <3>. QED
      BY <3>1, <1>2, <1>3, <1>5, <2>1
  <2>5. CASE \E v, o, n : UndidAt(x, v, o, n)
    <3>1. pc[x] = "undo" /\ pc'[x] = "undo"
      BY <2>5 DEF UndidAt, Undid
    <3>2. Pending(x)' \subseteq Pending(x)
      BY <2>5, PendingOlder
    <3>. QED
      BY <3>1, <3>2, <1>2, <1>3, <1>5, <2>1
  <2>. QED
    BY <2>2, <2>3, <2>4, <2>5 DEF Step
<1>. QED
  BY <1>4, <1>5

\* What a transaction changed and did not undo is its own.
LEMMA ChangesKeptStep ==
  ASSUME Base, OwnOnTop, XidTells, ChangesKept, Nested, NEW x \in Xids, Step(x)
  PROVE  ChangesKept'
<1>. SUFFICES ASSUME NEW u \in Usns', undo'[u].type # "Delete", rowOf'[u] \notin clobbered', NotUndone(u)',
                     NEW t \in Spots(u)'
              PROVE  ~Item(t)'.dead /\ Item(t)'.tup.xid = undo'[u].xid /\ Item(t)'.tup.undo >= u
  BY DEF ChangesKept, NotUndone
<1>1. CASE u \in Usns
  <2>1. PICK y : y = undo[u].xid
    OBVIOUS
  <2>2. /\ undo'[u] = undo[u] /\ t \in Spots(u) /\ t \in Places /\ Row(t) = rowOf[u]
        /\ rowOf[u] \notin clobbered' /\ rowOf[u] \notin clobbered
        /\ y \in Xids /\ u \in Nat
    BY <1>1, <2>1, Kept, BaseParts
  <2>3. NotUndone(u)
    BY <1>1, NotUndoneBefore
  <2>4. ~Item(t).dead /\ Item(t).tup.xid = y /\ Item(t).tup.undo >= u
    BY <1>1, <2>1, <2>2, <2>3 DEF ChangesKept, NotUndone
  <2>5. status[y] = InProgressCsn /\ ~IsNormal(status[y])
    BY <2>1, <2>3 DEF NotUndone, IsNormal, InProgressCsn, MinCsn
  <2>. DEFINE Goal == ~Item(t)'.dead /\ Item(t)'.tup.xid = y /\ Item(t)'.tup.undo >= u
  <2>6. ASSUME Quiet(x) PROVE Goal
    BY <2>4, <2>6, QuietTable
  <2>7. ASSUME NEW v, NEW n, InsertedAt(x, v, n) PROVE Goal
    <3>1. Item(t)' = Item(t)
      BY <2>2, <2>7, InsertTable
    <3>. QED
      BY <2>4, <3>1
  <2>8. ASSUME NEW v, NEW c, NEW n, WroteAt(x, v, c, n) PROVE Goal
    <3>1. CASE t # c
      <4>1. Item(t)' = Item(t)
        BY <2>2, <2>8, <3>1, WriteTable
      <4>. QED
        BY <2>4, <4>1
    <3>2. CASE t = c
      <4>1. Item(c).tup.xid # x => IsNormal(status[Item(c).tup.xid])
        BY <2>2, <2>8, <3>2, WriteSeesTop
      <4>2. y = x
        BY <2>4, <2>5, <3>2, <4>1
      <4>3. Item(c)'.dead = Item(c).dead /\ Item(c)'.tup.xid = x /\ Item(c)'.tup.undo = v /\ v \in Nat /\ u < v
        BY <1>1, <2>8, WriteTable
      <4>. QED
        BY <2>2, <2>4, <3>2, <4>2, <4>3
    <3>. QED
      BY <3>1, <3>2
  <2>9. ASSUME NEW r, NEW o, NEW n, UndidAt(x, r, o, n) PROVE Goal
    <3>1. CASE Item(t)' = Item(t)
      BY <2>4, <3>1
    <3>2. CASE Item(t)' # Item(t)
      <4>1. /\ t \in {o, n} /\ Item(o).tup.xid = x /\ undo[r].type # "Delete"
            /\ Item(o)'.dead = Item(o).dead /\ Item(o)'.tup = undo[r].tup
            /\ n # o => Item(n).tup.xid = x
        BY <2>2, <2>9, <3>2, UndoTable
      <4>2. y = x
        BY <2>4, <4>1
      <4>3. /\ r \in Usns /\ undo[r].xid = x /\ o = undo[r].old /\ n = undo[r].new /\ pc'[x] = "undo"
            /\ rowOf[r] = Row(t) /\ failed' = failed
        BY <2>9, <4>1, UndoTable
      <4>4. x \notin failed /\ u \in Pending(x)'
        <5>1. (x \notin failed' /\ (pc'[x] = "undo" => u \in Pending(x)')) \/ pc'[x] \in Scanning
          BY <2>1, <2>2, <4>2 DEF NotUndone
        <5>. QED
          BY <4>3, <5>1 DEF Scanning, Writing
      <4>5. u < r /\ r \in Nat
        BY <2>9, <4>3, <4>4, PendingOlder, BaseParts
      <4>6. u \in 1..(r - 1)
        BY <1>1, <2>2, <4>5, BaseParts
      <4>7. t = o
        <5>. SUFFICES ASSUME n # o, t = n PROVE FALSE
          BY <4>1
        <5>1. Moved(r) /\ Fresh
          BY <4>3, BaseParts DEF Moved
        <5>. QED
          BY <4>3, <4>6, <5>1, <2>2 DEF Fresh
      <4>8. undo[r].tup.xid = x /\ undo[r].tup.undo >= u
        BY <2>1, <2>2, <4>1, <4>2, <4>3, <4>4, <4>6, <4>7 DEF Nested
      <4>. QED
        BY <2>4, <4>1, <4>2, <4>7, <4>8
    <3>. QED
      BY <3>1, <3>2
  <2>10. Goal
    BY <2>6, <2>7, <2>8, <2>9 DEF Step
  <2>. QED
    BY <2>1, <2>2, <2>10
<1>2. CASE u \notin Usns
  <2>1. ASSUME NEW v, NEW n, InsertedAt(x, v, n) PROVE FALSE
    BY <2>1, <1>2, InsertTable
  <2>2. ASSUME NEW v, NEW c, NEW n, WroteAt(x, v, c, n)
        PROVE  ~Item(t)'.dead /\ Item(t)'.tup.xid = undo'[u].xid /\ Item(t)'.tup.undo >= u
    <3>1. /\ u = v /\ t \in {c, n} /\ rowOf'[u] = Row(c) /\ undo'[u].xid = x /\ u \in Nat
          /\ Item(c)'.dead = Item(c).dead /\ Item(c)'.tup.xid = x /\ Item(c)'.tup.undo = u
          /\ n # c => ~Item(n)'.dead /\ Item(n)'.tup.xid = x /\ Item(n)'.tup.undo = u
      BY <2>2, <1>2, WriteTable
    <3>2. ~Item(c).dead
      BY <2>2, <3>1, WriteSeesTop
    <3>. QED
      BY <3>1, <3>2
  <2>3. CASE Quiet(x)
    BY <2>3, <1>2, QuietTable
  <2>4. ASSUME NEW v, NEW o, NEW n, UndidAt(x, v, o, n) PROVE FALSE
    BY <2>4, <1>2, UndoTable
  <2>. QED
    BY <2>1, <2>2, <2>3, <2>4 DEF Step
<1>. QED
  BY <1>1, <1>2

\* The second record of a transaction at a place keeps the version of the first.
LEMMA NestedStep ==
  ASSUME Base, OwnOnTop, XidTells, ChangesKept, Nested, NEW x \in Xids, Step(x)
  PROVE  Nested'
<1>. SUFFICES ASSUME NEW v \in Usns', undo'[v].type # "Delete", rowOf'[v] \notin clobbered', undo'[v].xid \notin failed',
                     NEW u \in 1..(v - 1), undo'[u].xid = undo'[v].xid, undo'[u].type # "Delete",
                     undo'[v].old \in Spots(u)'
              PROVE  undo'[v].tup.xid = undo'[v].xid /\ undo'[v].tup.undo >= u
  BY DEF Nested
<1>1. CASE v \in Usns
  <2>1. u \in Usns
    BY <1>1, BaseParts
  <2>2. /\ undo'[v] = undo[v] /\ undo'[u] = undo[u] /\ rowOf[v] \notin clobbered /\ undo[v].xid \notin failed
        /\ Spots(u)' = Spots(u)
    BY <1>1, <2>1, Kept
  <2>. QED
    BY <1>1, <2>2 DEF Nested
<1>2. CASE v \notin Usns
  <2>1. ASSUME NEW w, NEW n, InsertedAt(x, w, n) PROVE FALSE
    BY <2>1, <1>2, InsertTable
  <2>2. ASSUME NEW w, NEW c, NEW n, WroteAt(x, w, c, n)
        PROVE  undo'[v].tup.xid = undo'[v].xid /\ undo'[v].tup.undo >= u
    <3>1. /\ v = w /\ undo'[v].old = c /\ rowOf'[v] = Row(c) /\ undo'[v].xid = x /\ v \in Nat /\ failed' = failed
          /\ Usns' = Usns \cup {v} /\ \A z \in Usns : z < v
          /\ pc[x] \in Writing
      BY <2>2, <1>2, WriteTable
    <3>2. u \in Usns
      <4>1. TypeOK /\ Len(undo) \in Nat /\ Usns = 1..Len(undo) /\ v = Len(undo) + 1
        BY <2>2, <3>1, BaseParts DEF WroteAt, WriteEffect, RecordAdded
      <4>. QED
        BY <4>1
    <3>3. undo'[u] = undo[u] /\ c \in Spots(u) /\ undo[u].xid = x /\ rowOf[u] = Row(c) /\ undo[u].type # "Delete"
      <4>1. undo'[u] = undo[u] /\ Spots(u)' = Spots(u) /\ \A t \in Spots(u) : Row(t) = rowOf[u]
        BY <3>2, Kept
      <4>. QED
        BY <3>1, <4>1
    <3>4. /\ Row(c) \notin clobbered /\ undo'[v].tup = Item(c).tup /\ status[x] = InProgressCsn
      BY <2>2, <3>1, WriteSeesTop
    <3>5. x \notin failed /\ pc[x] # "undo"
      BY <3>1 DEF Writing
    <3>6. Item(c).tup.xid = x /\ Item(c).tup.undo >= u
      BY <3>2, <3>3, <3>4, <3>5 DEF ChangesKept
    <3>. QED
      BY <3>1, <3>4, <3>6
  <2>3. CASE Quiet(x)
    BY <2>3, <1>2, QuietTable
  <2>4. ASSUME NEW w, NEW o, NEW n, UndidAt(x, w, o, n) PROVE FALSE
    BY <2>4, <1>2, UndoTable
  <2>. QED
    BY <2>1, <2>2, <2>3, <2>4 DEF Step
<1>. QED
  BY <1>1, <1>2

\* A record that is older than one of the log of a transaction in progress is before it.
LEMMA OlderPending ==
  ASSUME Base, NEW x \in Xids, NEW r, NEW o, NEW n, UndidAt(x, r, o, n), NEW w \in Usns, undo[w].xid = x, w < r
  PROVE  w \in Pending(x)'
<1>. DEFINE L == undoLog[x]
            k == left[x]
<1>1. /\ k \in Nat /\ k > 0 /\ left'[x] = k - 1 /\ r = L[k] /\ k \in DOMAIN L /\ undoLog' = undoLog /\ pc[x] = "undo"
  BY BaseParts, LocalValuesAt DEF UndidAt, Undid, UndoEffect
<1>2. Len(L) \in Nat /\ DOMAIN L = 1..Len(L) /\ \A i \in DOMAIN L : L[i] \in 1..MaxUsn
  BY BaseParts, LocalValuesAt
<1>3. \A i \in DOMAIN L : \A j \in 1..(i - 1) : L[j] < L[i]
  BY BaseParts DEF Logs
<1>4. status[x] = InProgressCsn
  BY <1>1, InProgress
<1>5. PICK i \in DOMAIN L : L[i] = w
  BY <1>4, BaseParts DEF Logs
<1>6. Pending(x)' = {L[j] : j \in 1..(k - 1)}
  BY <1>1 DEF Pending
<1>. HIDE DEF L, k
<1>7. k < i => k \in 1..(i - 1)
  BY <1>1, <1>2, <1>5
<1>8. k < i => L[k] < L[i]
  BY <1>3, <1>5, <1>7
<1>9. L[k] \in Nat /\ L[i] \in Nat
  BY <1>1, <1>2, <1>5, Bounds
<1>10. ~(k < i) /\ k # i
  BY <1>1, <1>5, <1>8, <1>9
<1>11. i \in 1..(k - 1)
  BY <1>1, <1>2, <1>5, <1>10
<1>. QED
  BY <1>5, <1>6, <1>11

\* The version that an undo puts back: of the same transaction and older, or committed.
LEMMA PutBack ==
  ASSUME Base, KeepsCommitted, NEW x \in Xids, NEW r, NEW o, NEW n, UndidAt(x, r, o, n),
         undo[r].type # "Delete", rowOf[r] \notin clobbered
  PROVE  /\ undo[r].tup.xid \in Xids
         /\ undo[r].tup.xid # x => IsNormal(status[undo[r].tup.xid])
         /\ undo[r].tup.xid = x /\ undo[r].tup.undo # InvalidUsn => undo[r].tup.undo \in Pending(x)'
<1>1. r \in Usns /\ undo[r].xid = x
  BY UndoTable
<1>2. PICK tup : tup = undo[r].tup
  OBVIOUS
<1>3. TupleAt(undo[r].old, tup) /\ tup.undo < r
  BY <1>1, <1>2, BaseParts DEF Records, RecordOK
<1>4. tup.xid # x => IsNormal(status[tup.xid])
  BY <1>1, <1>2 DEF KeepsCommitted, Foreign
<1>5. tup.undo # InvalidUsn => tup.undo \in Usns /\ undo[tup.undo].xid = tup.xid
  BY <1>3 DEF TupleAt, Maker
<1>. QED
  BY <1>2, <1>3, <1>4, <1>5, OlderPending DEF TupleAt

\* A ROLLBACK leaves nothing behind that it has passed.
LEMMA UndoneGoneStep ==
  ASSUME Base, KeepsCommitted, UndoneGone, NEW x \in Xids, Step(x)
  PROVE  UndoneGone'
<1>. SUFFICES ASSUME NEW y \in Xids, pc'[y] = "undo", NEW t \in Places', ~Item(t)'.dead, Row(t)' \notin clobbered',
                     Item(t)'.tup.xid = y, Item(t)'.tup.undo # InvalidUsn
              PROVE  Item(t)'.tup.undo \in Pending(y)'
  BY DEF UndoneGone
<1>1. OthersKept(x) /\ clobbered \subseteq clobbered' /\ (t \in Places => Row(t)' = Row(t))
  BY Kept
<1>2. ASSUME t \in Places, pc[y] = "undo", Item(t)' = Item(t) PROVE Item(t)'.tup.undo \in Pending(y)
  BY <1>1, <1>2 DEF UndoneGone
<1>3. y # x => pc[y] = "undo" /\ Pending(y)' = Pending(y)
  BY <1>1 DEF OthersKept, Pending
<1>4. CASE Quiet(x)
  <2>2. CASE y # x
    BY <1>2, <1>3, <1>4, <2>2, QuietTable
  <2>3. CASE y = x
    <3>1. RollsBack(x)
      BY <1>4, <2>3 DEF Quiet, Began, Started, Committed, Found, Stopped, Waits, Writing, GivesUp, RolledBack
    <3>2. t \in Places /\ Item(t)' = Item(t) /\ Placed /\ Logs
      BY <1>4, QuietTable, BaseParts
    <3>3. Item(t).tup.undo \in Usns /\ undo[Item(t).tup.undo].xid = x
      BY <2>3, <3>2 DEF Placed, TupleAt, Maker
    <3>4. status[x] = InProgressCsn
      BY <3>1, InProgress DEF RollsBack
    <3>5. PICK i \in DOMAIN undoLog[x] : undoLog[x][i] = Item(t).tup.undo
      BY <3>2, <3>3, <3>4 DEF Logs
    <3>6. DOMAIN undoLog[x] = 1..Len(undoLog[x])
      BY BaseParts, LocalValuesAt
    <3>. QED
      BY <2>3, <3>1, <3>2, <3>5, <3>6 DEF Pending, RollsBack
  <2>. QED
    BY <2>2, <2>3
<1>5. ASSUME NEW u, NEW n, InsertedAt(x, u, n) PROVE Item(t)'.tup.undo \in Pending(y)'
  <2>1. y # x
    BY <1>5 DEF InsertedAt, Inserted
  <2>2. t \in Places /\ Item(t)' = Item(t)
    BY <1>5, InsertTable
  <2>. QED
    BY <1>2, <1>3, <2>1, <2>2
<1>6. ASSUME NEW u, NEW c, NEW n, WroteAt(x, u, c, n) PROVE Item(t)'.tup.undo \in Pending(y)'
  <2>1. y # x
    BY <1>6 DEF WroteAt, Wrote
  <2>2. t \in Places /\ Item(t)' = Item(t)
    BY <1>6, <2>1, WriteTable
  <2>. QED
    BY <1>2, <1>3, <2>1, <2>2
<1>7. ASSUME NEW r, NEW o, NEW n, UndidAt(x, r, o, n) PROVE Item(t)'.tup.undo \in Pending(y)'
  <2>1. /\ r \in Usns /\ undo[r].xid = x /\ o = undo[r].old /\ n = undo[r].new /\ Places' = Places
        /\ Row(o) = rowOf[r] /\ Row(n) = rowOf[r] /\ clobbered' = clobbered /\ pc[x] = "undo"
    BY <1>7, UndoTable
  <2>2. CASE Item(t)' # Item(t)
    <3>1. t = o /\ Item(t)'.tup = undo[r].tup /\ undo[r].type # "Delete"
      BY <1>7, <2>1, <2>2, UndoTable
    <3>2. rowOf[r] \notin clobbered
      BY <1>1, <2>1, <3>1
    <3>3. /\ undo[r].tup.xid # x => IsNormal(status[undo[r].tup.xid])
          /\ undo[r].tup.xid = x /\ undo[r].tup.undo # InvalidUsn => undo[r].tup.undo \in Pending(x)'
      BY <1>7, <3>1, <3>2, PutBack
    <3>4. y # x => ~IsNormal(status[y])
      BY <1>3, InProgress
    <3>. QED
      BY <3>1, <3>3, <3>4
  <2>3. CASE Item(t)' = Item(t)
    <3>1. CASE y # x
      BY <1>2, <1>3, <2>1, <2>3, <3>1
    <3>2. CASE y = x
      <4>1. Item(t).tup.undo \in Pending(x) /\ Pending(x) \subseteq Pending(x)' \cup {r}
        BY <1>2, <1>7, <2>1, <2>3, <3>2, PendingOlder
      <4>2. Item(t).tup.undo # r
        <5>. SUFFICES ASSUME Item(t).tup.undo = r PROVE FALSE
          OBVIOUS
        <5>1. t \in {o, n}
          <6>1. PICK tup : tup = Item(t).tup
            OBVIOUS
          <6>2. TupleAt(t, tup) /\ Maker(tup) = r
            BY <2>1, <2>3, <6>1, BaseParts DEF Placed, Maker
          <6>. QED
            BY <2>1, <6>2 DEF TupleAt, Spots
        <5>2. undo[r].tup.undo < r /\ r \in Nat
          BY <2>1, BaseParts DEF Records, RecordOK
        <5>3. Item(o).tup.undo = r /\ Item(o)'.tup = undo[r].tup /\ (n # o => Item(n)'.dead)
          BY <1>7, <5>1, UndoTable
        <5>. QED
          BY <2>3, <5>1, <5>2, <5>3
      <4>. QED
        BY <2>3, <3>2, <4>1, <4>2
    <3>. QED
      BY <3>1, <3>2
  <2>. QED
    BY <2>2, <2>3
<1>. QED
  BY <1>4, <1>5, <1>6, <1>7 DEF Step

\* A transaction aborts when it has rolled back.
LEMMA AbortsThen ==
  ASSUME Base, NEW x \in Xids, Step(x), NEW y \in Xids, status'[y] = AbortedCsn
  PROVE  status[y] = AbortedCsn \/ (y = x /\ Quiet(x) /\ RolledBack(x))
<1>. USE DEF TransKept, InProgressCsn, AbortedCsn, MinCsn
<1>1. OthersKept(x) /\ nextCsn >= MinCsn /\ nextCsn \in Nat
  BY Kept, BaseParts, LocalValuesAt DEF Lives
<1>2. CASE y # x
  BY <1>1, <1>2 DEF OthersKept
<1>3. CASE y = x
  <2>1. CASE TransKept(x)
    BY <1>3, <2>1
  <2>2. CASE Quiet(x)
    <3>1. CASE Began(x)
      BY <1>3, <3>1 DEF Began
    <3>2. CASE Committed(x)
      BY <1>1, <1>3, <3>2 DEF Committed
    <3>3. CASE Started(x)
      BY <1>3, <3>3 DEF Started
    <3>. QED
      BY <1>3, <2>1, <2>2, <3>1, <3>2, <3>3 DEF Quiet, Found, Stopped, Waits, RollsBack, GivesUp
  <2>. QED
    BY <2>1, <2>2 DEF Step, InsertedAt, Inserted, WroteAt, Wrote, UndidAt, Undid
<1>. QED
  BY <1>2, <1>3

\* The comment "aborted transaction must undo all it's changes before marked aborted".
LEMMA RestoredStep ==
  ASSUME Base, KeepsCommitted, UndoneGone, Restored, NEW x \in Xids, Step(x)
  PROVE  Restored'
<1>. SUFFICES ASSUME NEW t \in Places', ~Item(t)'.dead, status'[Item(t)'.tup.xid] = AbortedCsn, Row(t)' \notin clobbered'
              PROVE  Item(t)'.tup.undo = InvalidUsn
  BY DEF Restored
<1>1. OthersKept(x) /\ clobbered \subseteq clobbered' /\ (t \in Places => Row(t)' = Row(t))
  BY Kept
<1>2. ASSUME t \in Places, Item(t)' = Item(t) PROVE Item(t)'.tup.undo = InvalidUsn
  <2>1. PICK y : y = Item(t).tup.xid
    OBVIOUS
  <2>2. y \in Xids
    BY <1>2, <2>1, BaseParts DEF Placed, TupleAt
  <2>3. CASE status[y] = AbortedCsn
    BY <1>1, <1>2, <2>1, <2>3 DEF Restored
  <2>4. CASE y = x /\ RolledBack(x)
    <3>1. pc[x] = "undo" /\ left[x] = 0
      BY <2>4 DEF RolledBack
    <3>2. Pending(x) = {}
      BY <3>1 DEF Pending
    <3>. QED
      BY <1>1, <1>2, <2>1, <2>4, <3>1, <3>2 DEF UndoneGone
  <2>. QED
    BY <1>2, <2>1, <2>2, <2>3, <2>4, AbortsThen
<1>3. ~Quiet(x) => status'[x] # AbortedCsn
  <2>1. ~Quiet(x) => pc[x] \notin {"none", "ended"}
    BY DEF Step, InsertedAt, Inserted, WroteAt, Wrote, UndidAt, Undid
  <2>. QED
    BY <2>1, InProgress, AbortsThen
<1>4. CASE Quiet(x)
  BY <1>2, <1>4, QuietTable
<1>5. ASSUME NEW u, NEW n, InsertedAt(x, u, n) PROVE Item(t)'.tup.undo = InvalidUsn
  BY <1>2, <1>5, InsertTable DEF InvalidUsn
<1>6. ASSUME NEW u, NEW c, NEW n, WroteAt(x, u, c, n) PROVE Item(t)'.tup.undo = InvalidUsn
  <2>1. ~Quiet(x)
    BY <1>6, WriteTable, QuietTable
  <2>2. t \in Places /\ Item(t)' = Item(t)
    BY <1>3, <1>6, <2>1, WriteTable
  <2>. QED
    BY <1>2, <2>2
<1>7. ASSUME NEW r, NEW o, NEW n, UndidAt(x, r, o, n) PROVE Item(t)'.tup.undo = InvalidUsn
  <2>1. /\ Places' = Places /\ Row(o) = rowOf[r] /\ clobbered' = clobbered
    BY <1>7, UndoTable
  <2>2. CASE Item(t)' # Item(t)
    <3>1. t = o /\ Item(t)'.tup = undo[r].tup /\ undo[r].type # "Delete"
      BY <1>7, <2>1, <2>2, UndoTable
    <3>2. /\ undo[r].tup.xid \in Xids /\ (undo[r].tup.xid # x => IsNormal(status[undo[r].tup.xid]))
      BY <1>1, <1>7, <2>1, <3>1, PutBack
    <3>3. \A y \in Xids : IsNormal(status[y]) => status'[y] = status[y]
      BY NormalStays, BaseParts
    <3>4. ~Quiet(x)
      BY <2>2, QuietTable
    <3>. QED
      BY <1>3, <3>1, <3>2, <3>3, <3>4 DEF IsNormal, MinCsn, AbortedCsn
  <2>. QED
    BY <1>2, <2>1, <2>2
<1>. QED
  BY <1>4, <1>5, <1>6, <1>7 DEF Step

\* A statement does not change a row again.
LEMMA NotAgain ==
  ASSUME Base, OwnOnTop, XidTells, OneLive, ChangesKept, OncePerStatement, NEW x \in Xids,
         NEW v, NEW c, NEW n, WroteAt(x, v, c, n), Row(c) \notin clobbered',
         NEW u \in Usns, undo[u].xid = x, rowOf[u] = Row(c), u >= snapCid[x]
  PROVE  FALSE
<1>1. pc[x] \in Writing /\ c \in Places
  BY WriteTable
<1>2. /\ Row(c) \notin clobbered /\ status[x] = InProgressCsn /\ ~Gone(c) /\ TupleVisible(x, Item(c).tup)
  BY WriteSeesTop
<1>3. undo[u].type # "Delete" /\ pc[x] \in Scanning
  BY <1>1, BaseParts DEF Behind, Scanning
<1>4. PICK s : s = undo[u].new
  OBVIOUS
<1>5. s \in Spots(u) /\ s \in Places /\ Row(s) = Row(c)
  BY <1>4, BaseParts DEF Records, RecordOK, Spots
<1>6. ~Item(s).dead /\ Item(s).tup.xid = x /\ Item(s).tup.undo >= u
  BY <1>2, <1>3, <1>5 DEF ChangesKept
<1>7. ~Gone(s)
  <2>. SUFFICES ASSUME NEW w, w = Item(s).tup.undo, w # InvalidUsn, Moved(w), undo[w].old = s PROVE FALSE
    BY <1>6 DEF Gone
  <2>1. PICK tup : tup = Item(s).tup
    OBVIOUS
  <2>2. TupleAt(s, tup) /\ Maker(tup) = w
    BY <1>5, <2>1, BaseParts DEF Placed, Maker
  <2>3. w \in Usns /\ undo[w].xid = x /\ rowOf[w] = rowOf[u]
    BY <1>5, <1>6, <2>1, <2>2 DEF TupleAt
  <2>4. w >= snapCid[x]
    <3>1. w \in Nat /\ u \in Nat /\ snapCid[x] \in Nat
      BY <2>3, BaseParts, LocalValuesAt
    <3>. QED
      BY <1>6, <3>1
  <2>5. w = u
    BY <1>2, <1>3, <2>3, <2>4 DEF OncePerStatement
  <2>. QED
    BY <1>4, <2>5 DEF Moved
<1>8. s = c
  BY <1>1, <1>2, <1>5, <1>7 DEF OneLive
<1>9. Item(c).tup.undo < snapCid[x]
  BY <1>2, <1>6, <1>8 DEF TupleVisible
<1>10. Item(c).tup.undo \in Nat /\ u \in Nat /\ snapCid[x] \in Nat
  <2>1. Item(c).tup.undo \in {InvalidUsn} \cup Usns
    BY <1>1, BaseParts DEF Placed, TupleAt
  <2>. QED
    BY <2>1, BaseParts, LocalValuesAt DEF InvalidUsn
<1>. QED
  BY <1>6, <1>8, <1>9, <1>10

\* A statement changes a row once.
LEMMA OncePerStatementStep ==
  ASSUME Base, OwnOnTop, XidTells, OneLive, ChangesKept, OncePerStatement, NEW x \in Xids, Step(x)
  PROVE  OncePerStatement'
<1>. SUFFICES ASSUME NEW y \in Xids, pc'[y] \in Scanning, NEW u \in Usns', NEW v \in Usns',
                     undo'[u].xid = y, undo'[v].xid = y, rowOf'[u] = rowOf'[v],
                     u >= snapCid'[y], v >= snapCid'[y], rowOf'[u] \notin clobbered'
              PROVE  u = v
  BY DEF OncePerStatement
<1>1. \A w \in Usns : undo'[w] = undo[w] /\ rowOf'[w] = rowOf[w] /\ clobbered \subseteq clobbered'
  BY Kept
<1>2. ~(y = x /\ Quiet(x) /\ Started(x))
  <2>. SUFFICES ASSUME y = x, Quiet(x), Started(x) PROVE FALSE
    OBVIOUS
  <2>1. u \in Usns /\ undo[u].xid = x
    BY <1>1, QuietTable
  <2>2. u < snapCid'[x]
    BY <2>1, AllBelong, BaseParts
  <2>3. u \in Nat /\ snapCid'[x] \in Nat
    <3>1. snapCid[x] \in Nat /\ undoLog[x] \in Seq(1..MaxUsn) /\ \A i \in DOMAIN undoLog[x] : undoLog[x][i] \in 1..MaxUsn
      BY BaseParts, LocalValuesAt
    <3>2. undoLog[x] # <<>> => Len(undoLog[x]) \in DOMAIN undoLog[x]
      BY <3>1
    <3>3. snapCid'[x] = snapCid[x] \/ \E w \in 1..MaxUsn : snapCid'[x] = w + 1
      BY <3>1, <3>2 DEF Started
    <3>4. u \in Nat
      BY <2>1, BaseParts
    <3>. QED
      BY <3>1, <3>3, <3>4
  <2>. QED
    BY <2>2, <2>3
<1>3. pc[y] \in Scanning /\ snapCid'[y] = snapCid[y]
  <2>1. ~Quiet(x) => ~Started(x)
    BY DEF Step, InsertedAt, Inserted, WroteAt, Wrote, Writing, UndidAt, Undid, Started
  <2>. QED
    BY <1>2, <2>1, SnapshotStays
<1>4. CASE u \in Usns /\ v \in Usns
  BY <1>1, <1>3, <1>4 DEF OncePerStatement
<1>5. CASE ~(u \in Usns /\ v \in Usns)
  <2>1. ~Quiet(x) /\ \A r, o, n : ~UndidAt(x, r, o, n)
    BY <1>5, QuietTable, UndoTable
  <2>2. \A r, n : ~InsertedAt(x, r, n)
    <3>. SUFFICES ASSUME NEW r, NEW n, InsertedAt(x, r, n) PROVE FALSE
      OBVIOUS
    <3>1. Usns' = Usns \cup {r} /\ undo'[r].xid = x
      BY InsertTable
    <3>2. y = x
      BY <1>5, <3>1
    <3>. QED
      BY <3>2 DEF InsertedAt, Inserted, Scanning, Writing
  <2>3. PICK r, c, n : WroteAt(x, r, c, n)
    BY <2>1, <2>2 DEF Step
  <2>4. Usns' = Usns \cup {r} /\ undo'[r].xid = x /\ rowOf'[r] = Row(c)
    BY <2>3, WriteTable
  <2>5. y = x /\ rowOf'[u] = Row(c) /\ rowOf'[v] = Row(c)
    BY <1>5, <2>4
  <2>6. u \notin Usns
    BY <1>1, <1>3, <2>3, <2>5, NotAgain
  <2>7. v \notin Usns
    BY <1>1, <1>3, <2>3, <2>5, NotAgain
  <2>. QED
    BY <2>4, <2>6, <2>7
<1>. QED
  BY <1>4, <1>5

\* At the start there is no row.
LEMMA CleanInit == Init => Clean
<1>. SUFFICES ASSUME Init PROVE Clean
  OBVIOUS
<1>1. undo = <<>> /\ pages = <<>> /\ pc = [x \in Xids |-> "none"]
  BY DEF Init
<1>2. Usns = {} /\ Places = {}
  BY <1>1 DEF Usns, Places, PlacesOf
<1>3. \A x \in Xids : pc[x] \notin Scanning /\ pc[x] # "undo"
  BY <1>1 DEF Scanning, Writing
<1>4. \A x \in Xids : pc[x] \notin Writing
  BY <1>3 DEF Scanning
<1>. QED
  BY <1>2, <1>3, <1>4 DEF Clean, KeepsCommitted, OwnOnTop, XidTells, DeadUndone, OneLive, ChangesKept, Nested,
     UndoneGone, Restored, OncePerStatement

\* Nothing changes in a step that changes nothing.
LEMMA CleanStutter ==
  ASSUME Clean, UNCHANGED vars
  PROVE  Clean'
<1>. USE Stutter
<1>1. (\A v : Foreign(v)' <=> Foreign(v)) /\ (\A x : Pending(x)' = Pending(x)) /\ \A t : Gone(t)' <=> Gone(t)
  BY DEF Foreign, Pending, Gone, InvalidUsn
<1>. USE <1>1
<1>2. KeepsCommitted' /\ OwnOnTop'
  BY DEF Clean, KeepsCommitted, OwnOnTop
<1>3. XidTells'
  BY DEF Clean, XidTells
<1>4. DeadUndone' /\ OneLive'
  BY DEF Clean, DeadUndone, OneLive
<1>5. ChangesKept' /\ Nested'
  BY DEF Clean, ChangesKept, Nested
<1>6. UndoneGone' /\ Restored' /\ OncePerStatement'
  BY DEF Clean, UndoneGone, Restored, OncePerStatement, InvalidUsn
<1>. QED
  BY <1>2, <1>3, <1>4, <1>5, <1>6 DEF Clean

\* Every step keeps the rows clean that no waiter overwrote blindly.
LEMMA CleanStep ==
  ASSUME Base, Clean, NEW x \in Xids, Step(x)
  PROVE  Clean'
<1>1. /\ KeepsCommitted /\ OwnOnTop /\ XidTells /\ DeadUndone /\ OneLive /\ ChangesKept /\ Nested
      /\ UndoneGone /\ Restored /\ OncePerStatement
  BY DEF Clean
<1>2. KeepsCommitted' /\ OwnOnTop' /\ XidTells'
  BY <1>1, KeepsCommittedStep, OwnOnTopStep, XidTellsStep
<1>3. DeadUndone' /\ OneLive'
  BY <1>1, DeadUndoneStep, OneLiveStep
<1>4. ChangesKept' /\ Nested'
  BY <1>1, ChangesKeptStep, NestedStep
<1>5. UndoneGone' /\ Restored' /\ OncePerStatement'
  BY <1>1, UndoneGoneStep, RestoredStep, OncePerStatementStep
<1>. QED
  BY <1>2, <1>3, <1>4, <1>5 DEF Clean

-----------------------------------------------------------------------------
(* The order of the changes of a row                                        *)

\* A row that is intact was so before.
LEMMA IntactBefore ==
  ASSUME Base, NEW x \in Xids, Step(x), NEW r, Intact(r)'
  PROVE  Intact(r) /\ r \notin clobbered /\ r \notin clobbered'
<1>1. \A v \in Usns : v \in Usns' /\ undo'[v] = undo[v] /\ rowOf'[v] = rowOf[v]
  BY Kept
<1>2. clobbered \subseteq clobbered' /\ failed \subseteq failed'
  BY Kept
<1>3. HalfUndone \subseteq HalfUndone'
  BY <1>1, <1>2 DEF HalfUndone
<1>. QED
  BY <1>2, <1>3 DEF Intact

\* A change of an intact row that stands stood before.
LEMMA StandsBefore ==
  ASSUME Base, NEW x \in Xids, Step(x), NEW u \in Usns, Intact(rowOf[u])', Stands(u)'
  PROVE  Stands(u)
<1>1. PICK y : y = undo[u].xid
  OBVIOUS
<1>2. y \in Xids /\ u \in Usns' /\ undo'[u] = undo[u] /\ rowOf'[u] = rowOf[u] /\ OthersKept(x)
  BY <1>1, Kept, BaseParts
<1>3. status'[y] # AbortedCsn /\ (pc'[y] = "undo" => u \in Pending(y)')
  BY <1>1, <1>2 DEF Stands
<1>4. status[y] # AbortedCsn
  BY <1>2, <1>3, NormalStays, BaseParts
<1>5. CASE y # x
  <2>1. pc'[y] = pc[y] /\ Pending(y)' = Pending(y)
    BY <1>2, <1>5 DEF OthersKept, Pending
  <2>. QED
    BY <1>1, <1>3, <1>4, <2>1 DEF Stands
<1>6. CASE y = x /\ pc[x] = "undo"
  <2>1. ~GivesUp(x)
    <3>. SUFFICES ASSUME x \in failed' PROVE FALSE
      BY DEF GivesUp
    <3>. QED
      BY <1>1, <1>2, <1>6 DEF Intact, HalfUndone
  <2>2. ~RolledBack(x)
    BY <1>3, <1>6 DEF RolledBack
  <2>3. PICK r, o, n : UndidAt(x, r, o, n)
    BY <1>6, <2>1, <2>2 DEF Step, Quiet, Began, Started, Committed, Found, Stopped, Waits, Writing, RollsBack,
       InsertedAt, Inserted, WroteAt, Wrote
  <2>4. pc'[x] = "undo" /\ Pending(x)' \subseteq Pending(x)
    BY <2>3, PendingOlder, UndoTable
  <2>. QED
    BY <1>1, <1>3, <1>4, <1>6, <2>4 DEF Stands
<1>7. CASE y = x /\ pc[x] # "undo"
  BY <1>1, <1>4, <1>7 DEF Stands
<1>. QED
  BY <1>5, <1>6, <1>7

\* The snapshot of a transaction that has changed something stays.
LEMMA WriterSnapshot ==
  ASSUME Base, NEW x \in Xids, Step(x), NEW z \in Xids, snapCsn[z] # InvalidCsn
  PROVE  /\ snapCsn'[z] = snapCsn[z]
         /\ \A y \in Xids : Visible(status[y], z)' <=> Visible(status[y], z)
<1>1. snapCsn'[z] = snapCsn[z]
  <2>1. CASE z # x
    BY <2>1, Kept DEF OthersKept
  <2>2. CASE z = x
    BY <2>2 DEF Step, Quiet, Began, Started, Committed, Found, Stopped, Waits, RollsBack, GivesUp, RolledBack,
       InsertedAt, Inserted, WroteAt, Wrote, UndidAt, Undid, TransKept
  <2>. QED
    BY <2>1, <2>2
<1>. QED
  BY <1>1, VisibleSame, BaseParts

\* A record before another one was there before the step.
LEMMA EarlierRecord ==
  ASSUME Base, NEW x \in Xids, Step(x), NEW v \in Usns', NEW u \in 1..(v - 1)
  PROVE  u \in Usns /\ u < v
<1>1. Usns = 1..Len(undo) /\ Len(undo) \in Nat
  BY BaseParts
<1>2. Quiet(x) => Usns' = Usns
  BY QuietTable
<1>3. ASSUME NEW w, NEW n, InsertedAt(x, w, n) PROVE Usns' = 1..(Len(undo) + 1)
  BY <1>3 DEF InsertedAt, InsertEffect, RecordAdded
<1>4. ASSUME NEW w, NEW c, NEW n, WroteAt(x, w, c, n) PROVE Usns' = 1..(Len(undo) + 1)
  BY <1>4 DEF WroteAt, WriteEffect, RecordAdded
<1>5. ASSUME NEW w, NEW o, NEW n, UndidAt(x, w, o, n) PROVE Usns' = Usns
  BY <1>5, UndoTable
<1>6. Usns' = Usns \/ Usns' = 1..(Len(undo) + 1)
  BY <1>2, <1>3, <1>4, <1>5 DEF Step
<1>. QED
  BY <1>1, <1>6

\* The changes of the row before that of the tuple on the page are in the sight of one who
\* sees that tuple.
LEMMA SeesAll ==
  ASSUME Base, InSight, LastOnTop, NEW x \in Xids, pc[x] \in Writing, NEW c \in Places, ~Gone(c), Intact(Row(c)),
         TupleVisible(x, Item(c).tup), NEW u \in Usns, rowOf[u] = Row(c), Stands(u), undo[u].xid # x
  PROVE  Visible(status[undo[u].xid], x)
<1>1. PICK m, z, y : m = Maker(Item(c).tup) /\ z = Item(c).tup.xid /\ y = undo[u].xid
  OBVIOUS
<1>2. m \in Usns /\ z \in Xids /\ undo[m].xid = z /\ rowOf[m] = Row(c) /\ y \in Xids
  <2>1. PICK tup : tup = Item(c).tup
    OBVIOUS
  <2>2. TupleAt(c, tup)
    BY <2>1, BaseParts DEF Placed
  <2>. QED
    BY <1>1, <2>1, <2>2, BaseParts DEF TupleAt, Maker
<1>3. u <= m /\ u \in Nat /\ m \in Nat /\ u > 0
  BY <1>1, <1>2, BaseParts DEF LastOnTop
<1>4. status[x] = InProgressCsn /\ pc[x] # "undo" /\ status[x] # AbortedCsn
  BY InProgress DEF Writing
<1>5. CASE z = x
  <2>1. Stands(m)
    BY <1>2, <1>4, <1>5 DEF Stands
  <2>2. u # m
    BY <1>2, <1>5
  <2>3. u \in 1..(m - 1)
    BY <1>3, <2>2
  <2>. QED
    BY <1>2, <1>5, <2>1, <2>3 DEF InSight
<1>6. CASE z # x
  <2>1. Visible(status[z], x)
    BY <1>1, <1>6 DEF TupleVisible
  <2>2. CASE y = z
    BY <1>1, <2>1, <2>2
  <2>3. CASE y # z
    <3>1. IsNormal(status[z]) /\ status[z] < snapCsn[x]
      BY <2>1 DEF Visible
    <3>2. pc[z] = "ended" /\ status[z] # AbortedCsn /\ snapCsn[z] <= status[z]
      BY <1>2, <3>1, BaseParts DEF Lives, IsNormal, MinCsn, AbortedCsn
    <3>3. Stands(m)
      BY <1>2, <3>2 DEF Stands
    <3>4. u # m
      BY <1>1, <1>2, <2>3
    <3>5. u \in 1..(m - 1)
      BY <1>3, <3>4
    <3>6. Visible(status[y], z)
      BY <1>1, <1>2, <2>3, <3>3, <3>5 DEF InSight
    <3>7. status[y] \in Nat /\ status[z] \in Nat /\ snapCsn[z] \in Nat /\ snapCsn[x] \in Nat
      BY <1>2, BaseParts, LocalValuesAt
    <3>8. status[y] < snapCsn[x]
      BY <3>1, <3>2, <3>6, <3>7 DEF Visible
    <3>. QED
      BY <1>1, <3>6, <3>8 DEF Visible
  <2>. QED
    BY <2>2, <2>3
<1>. QED
  BY <1>5, <1>6

\* Of two standing changes of a row, the later one is made in sight of the earlier.
LEMMA InSightStep ==
  ASSUME Base, OwnOnTop, XidTells, InSight, LastOnTop, NEW x \in Xids, Step(x)
  PROVE  InSight'
<1>. SUFFICES ASSUME NEW v \in Usns', NEW u \in 1..(v - 1), rowOf'[u] = rowOf'[v], Intact(rowOf[v])',
                     undo'[u].xid # undo'[v].xid, Stands(u)', Stands(v)'
              PROVE  Visible(status[undo[u].xid], undo[v].xid)'
  BY DEF InSight
<1>1. PICK r : r = rowOf'[v]
  OBVIOUS
<1>2. Intact(r)' /\ Intact(r) /\ r \notin clobbered'
  BY <1>1, IntactBefore
<1>3. u \in Usns
  BY EarlierRecord
<1>4. undo'[u] = undo[u] /\ rowOf[u] = r /\ undo[u].xid \in Xids
  BY <1>1, <1>3, Kept, BaseParts
<1>5. Stands(u)
  <2>1. Intact(rowOf[u])'
    BY <1>1, <1>2, <1>3
  <2>. QED
    BY <1>3, <2>1, StandsBefore
<1>6. CASE v \in Usns
  <2>1. undo'[v] = undo[v] /\ rowOf[v] = r /\ undo[v].xid \in Xids /\ snapCsn[undo[v].xid] # InvalidCsn
    BY <1>1, <1>6, Kept, BaseParts DEF Logs
  <2>2. Stands(v)
    BY <1>6, StandsBefore
  <2>3. Visible(status[undo[u].xid], undo[v].xid)
    BY <1>2, <1>4, <1>5, <1>6, <2>1, <2>2 DEF InSight
  <2>4. PICK y, z : y = undo[u].xid /\ z = undo[v].xid
    OBVIOUS
  <2>5. Visible(status[y], z)'
    BY <1>4, <2>1, <2>3, <2>4, WriterSnapshot
  <2>. QED
    BY <1>4, <2>1, <2>4, <2>5
<1>7. CASE v \notin Usns
  <2>1. ASSUME NEW w, NEW n, InsertedAt(x, w, n) PROVE FALSE
    <3>1. v = w /\ rowOf'[v] = v /\ v \in Nat
      BY <2>1, <1>7, InsertTable
    <3>2. rowOf[u] <= u /\ u \in Nat
      BY <1>3, BaseParts DEF Records, RecordOK
    <3>. QED
      BY <1>1, <1>4, <3>1, <3>2
  <2>2. ASSUME NEW w, NEW c, NEW n, WroteAt(x, w, c, n)
        PROVE  Visible(status[undo[u].xid], undo[v].xid)'
    <3>1. v = w /\ rowOf'[v] = Row(c) /\ undo'[v].xid = x /\ pc[x] \in Writing /\ c \in Places
      BY <2>2, <1>7, WriteTable
    <3>2. ~Gone(c) /\ TupleVisible(x, Item(c).tup)
      BY <1>1, <1>2, <2>2, <3>1, WriteSeesTop
    <3>3. PICK y : y = undo[u].xid
      OBVIOUS
    <3>4. Visible(status[y], x)
      BY <1>1, <1>2, <1>3, <1>4, <1>5, <3>1, <3>2, <3>3, SeesAll
    <3>5. snapCsn[x] # InvalidCsn
      BY <3>1, BaseParts DEF Lives, Scanning
    <3>6. Visible(status[y], x)'
      BY <1>4, <3>3, <3>4, <3>5, WriterSnapshot
    <3>. QED
      BY <1>4, <3>1, <3>3, <3>6
  <2>3. CASE Quiet(x)
    BY <2>3, <1>7, QuietTable
  <2>4. ASSUME NEW w, NEW o, NEW n, UndidAt(x, w, o, n) PROVE FALSE
    BY <2>4, <1>7, UndoTable
  <2>. QED
    BY <2>1, <2>2, <2>3, <2>4 DEF Step
<1>. QED
  BY <1>6, <1>7

\* A record keeps the last of the standing changes before it.
LEMMA LastKeptStep ==
  ASSUME Base, OwnOnTop, XidTells, InSight, LastOnTop, NEW x \in Xids, Step(x),
         NEW v \in Usns', Stands(v)', Intact(rowOf[v])', NEW u \in Usns, u < v, rowOf'[u] = rowOf'[v], Stands(u)'
  PROVE  u <= Maker(undo'[v].tup)
<1>1. PICK r : r = rowOf'[v]
  OBVIOUS
<1>2. Intact(r)' /\ Intact(r) /\ r \notin clobbered'
  BY <1>1, IntactBefore
<1>3. rowOf[u] = r /\ Intact(rowOf[u])' /\ u \in Nat /\ u > 0
  BY <1>1, <1>2, Kept, BaseParts
<1>4. Stands(u)
  BY <1>3, StandsBefore
<1>5. CASE v \in Usns
  <2>1. undo'[v] = undo[v] /\ rowOf[v] = r /\ v \in Nat
    BY <1>1, <1>5, Kept, BaseParts
  <2>2. Stands(v)
    BY <1>5, StandsBefore
  <2>3. u \in 1..(v - 1)
    BY <1>3, <2>1
  <2>. QED
    BY <1>2, <1>3, <1>4, <1>5, <2>1, <2>2, <2>3 DEF LastOnTop
<1>6. CASE v \notin Usns
  <2>1. ASSUME NEW w, NEW n, InsertedAt(x, w, n) PROVE FALSE
    <3>1. v = w /\ rowOf'[v] = v /\ v \in Nat
      BY <2>1, <1>6, InsertTable
    <3>2. rowOf[u] <= u
      BY BaseParts DEF Records, RecordOK
    <3>. QED
      BY <1>1, <1>3, <3>1, <3>2
  <2>2. ASSUME NEW w, NEW c, NEW n, WroteAt(x, w, c, n) PROVE u <= Maker(undo'[v].tup)
    <3>1. v = w /\ rowOf'[v] = Row(c) /\ c \in Places
      BY <2>2, <1>6, WriteTable
    <3>2. ~Gone(c) /\ undo'[v].tup = Item(c).tup
      BY <1>1, <1>2, <2>2, <3>1, WriteSeesTop
    <3>. QED
      BY <1>1, <1>2, <1>3, <1>4, <3>1, <3>2 DEF LastOnTop
  <2>3. CASE Quiet(x)
    BY <2>3, <1>6, QuietTable
  <2>4. ASSUME NEW w, NEW o, NEW n, UndidAt(x, w, o, n) PROVE FALSE
    BY <2>4, <1>6, UndoTable
  <2>. QED
    BY <2>1, <2>2, <2>3, <2>4 DEF Step
<1>. QED
  BY <1>5, <1>6

\* The page shows the last of the standing changes.
LEMMA LastShownStep ==
  ASSUME Base, OwnOnTop, XidTells, OneLive, InSight, LastOnTop, NEW x \in Xids, Step(x),
         NEW t \in Places', ~Gone(t)', Intact(Row(t))', NEW u \in Usns', rowOf'[u] = Row(t)', Stands(u)'
  PROVE  u <= Maker(Item(t)'.tup)
<1>1. PICK r : r = Row(t)'
  OBVIOUS
<1>2. Intact(r)' /\ Intact(r) /\ r \notin clobbered'
  BY <1>1, IntactBefore
<1>3. ASSUME u \in Usns PROVE rowOf[u] = r /\ Stands(u) /\ u \in Nat /\ u > 0
  <2>1. rowOf[u] = r /\ Intact(rowOf[u])' /\ u \in Nat /\ u > 0
    BY <1>1, <1>2, <1>3, Kept, BaseParts
  <2>. QED
    BY <1>3, <2>1, StandsBefore
<1>4. ASSUME t \in Places, Item(t)' = Item(t), u \in Usns PROVE u <= Maker(Item(t)'.tup)
  <2>1. ~Gone(t)
    BY <1>4, GoneStays
  <2>2. Row(t) = r
    BY <1>1, <1>4, Kept
  <2>. QED
    BY <1>2, <1>3, <1>4, <2>1, <2>2 DEF LastOnTop
<1>5. CASE Quiet(x)
  BY <1>4, <1>5, QuietTable
<1>6. ASSUME NEW w, NEW n, InsertedAt(x, w, n) PROVE u <= Maker(Item(t)'.tup)
  <2>1. /\ Usns' = Usns \cup {w} /\ rowOf'[w] = w /\ w \in Nat /\ Row(n)' = w /\ Places' = Places \cup {n}
        /\ Item(n)'.tup.undo = InvalidUsn /\ Item(n)'.tup.val = w
        /\ \A s \in Places : Item(s)' = Item(s) /\ Row(s) < w
        /\ \A s \in Usns : s < w
    BY <1>6, InsertTable
  <2>2. CASE t = n
    <3>1. Maker(Item(n)'.tup) = w
      BY <2>1 DEF Maker
    <3>2. u <= w
      BY <2>1, BaseParts
    <3>. QED
      BY <2>2, <3>1, <3>2
  <2>3. CASE t # n
    <3>1. t \in Places /\ Row(t)' = Row(t) /\ Row(t) < w /\ Item(t)' = Item(t)
      BY <2>1, <2>3, Kept
    <3>2. u # w
      BY <2>1, <3>1
    <3>. QED
      BY <1>4, <2>1, <3>1, <3>2
  <2>. QED
    BY <2>2, <2>3
<1>7. ASSUME NEW w, NEW c, NEW n, WroteAt(x, w, c, n) PROVE u <= Maker(Item(t)'.tup)
  <2>1. /\ Usns' = Usns \cup {w} /\ rowOf'[w] = Row(c) /\ w \in Nat /\ w > 0 /\ Places' = Places \cup {n}
        /\ c \in Places /\ Item(c)'.tup.undo = w /\ (n # c => Item(n)'.tup.undo = w)
        /\ \A s \in Places : s # c => Item(s)' = Item(s)
        /\ \A s \in Usns : s < w
    BY <1>7, WriteTable
  <2>2. CASE t \in {c, n}
    <3>1. Item(t)'.tup.undo = w
      BY <2>1, <2>2
    <3>2. Maker(Item(t)'.tup) = w
      BY <2>1, <3>1 DEF Maker, InvalidUsn
    <3>3. u <= w
      BY <2>1, BaseParts
    <3>. QED
      BY <3>2, <3>3
  <2>3. CASE t \notin {c, n}
    <3>1. t \in Places /\ Row(t) = r /\ Item(t)' = Item(t)
      BY <1>1, <2>1, <2>3, Kept
    <3>2. ~Gone(t)
      BY <3>1, GoneStays
    <3>3. u # w
      <4>. SUFFICES ASSUME u = w PROVE FALSE
        OBVIOUS
      <4>1. Row(c) = r
        BY <1>1, <2>1
      <4>2. ~Gone(c) /\ Row(c) \notin clobbered
        BY <1>2, <1>7, <4>1, WriteSeesTop
      <4>. QED
        BY <2>1, <2>3, <3>1, <3>2, <4>1, <4>2 DEF OneLive
    <3>. QED
      BY <1>4, <2>1, <3>1, <3>3
  <2>. QED
    BY <2>2, <2>3
<1>8. ASSUME NEW w, NEW o, NEW n, UndidAt(x, w, o, n) PROVE u <= Maker(Item(t)'.tup)
  <2>1. /\ w \in Usns /\ undo[w].xid = x /\ Row(o) = rowOf[w] /\ Places' = Places /\ Usns' = Usns /\ undo' = undo
        /\ pc[x] = "undo" /\ pc'[x] = "undo"
    BY <1>8, UndoTable
  <2>2. CASE Item(t)' = Item(t)
    BY <1>4, <2>1, <2>2
  <2>3. CASE Item(t)' # Item(t)
    <3>1. t = o /\ Item(t)'.tup = undo[w].tup
      <4>1. \/ t = o /\ Item(t)'.tup = undo[w].tup
            \/ Item(t)'.dead
        BY <1>8, <2>1, <2>3, UndoTable
      <4>. QED
        BY <4>1 DEF Gone
    <3>2. rowOf[w] = r
      BY <1>1, <2>1, <3>1, Kept
    <3>3. rowOf[u] = r /\ Stands(u) /\ u \in Nat /\ u > 0 /\ u \in Usns /\ w \in Nat
      BY <1>3, <2>1, BaseParts
    <3>4. status[x] = InProgressCsn /\ status[x] # AbortedCsn /\ ~IsNormal(status[x])
      BY <2>1, InProgress
    <3>5. w \in Pending(x)
      <4>1. w = undoLog[x][left[x]] /\ left[x] \in Nat /\ left[x] > 0
        BY <1>8, BaseParts, LocalValuesAt DEF UndidAt, Undid
      <4>2. left[x] \in 1..left[x]
        BY <4>1
      <4>. QED
        BY <4>1, <4>2 DEF Pending
    <3>6. Stands(w)
      BY <2>1, <3>4, <3>5 DEF Stands
    <3>7. CASE u < w
      <4>1. u \in 1..(w - 1)
        BY <3>3, <3>7
      <4>. QED
        BY <1>2, <2>1, <3>1, <3>2, <3>3, <3>6, <4>1 DEF LastOnTop
    <3>8. CASE undo[u].xid = x
      <4>1. u \in Pending(x)'
        BY <2>1, <3>8 DEF Stands
      <4>2. u < w
        BY <1>8, <4>1, PendingOlder
      <4>. QED
        BY <3>7, <4>2
    <3>9. CASE undo[u].xid # x /\ w < u
      <4>1. w \in 1..(u - 1)
        BY <3>3, <3>9, <2>1, BaseParts
      <4>2. Visible(status[x], undo[u].xid)
        BY <1>2, <2>1, <3>2, <3>3, <3>6, <3>9, <4>1 DEF InSight
      <4>. QED
        BY <3>4, <4>2 DEF Visible
    <3>. QED
      BY <2>1, <3>3, <3>7, <3>8, <3>9
  <2>. QED
    BY <2>2, <2>3
<1>. QED
  BY <1>5, <1>6, <1>7, <1>8 DEF Step

\* The last of the standing changes is on top.
LEMMA LastOnTopStep ==
  ASSUME Base, OwnOnTop, XidTells, OneLive, InSight, LastOnTop, NEW x \in Xids, Step(x)
  PROVE  LastOnTop'
<1>1. ASSUME NEW t \in Places', ~Gone(t)', Intact(Row(t))', NEW u \in Usns', rowOf'[u] = Row(t)', Stands(u)'
      PROVE  u <= Maker(Item(t).tup)'
  <2>1. Maker(Item(t).tup)' = Maker(Item(t)'.tup)
    BY DEF Maker, InvalidUsn
  <2>. QED
    BY <1>1, <2>1, LastShownStep
<1>2. ASSUME NEW v \in Usns', Stands(v)', Intact(rowOf[v])', NEW u \in 1..(v - 1), rowOf'[u] = rowOf'[v], Stands(u)'
      PROVE  u <= Maker(undo[v].tup)'
  <2>1. Maker(undo[v].tup)' = Maker(undo'[v].tup)
    BY DEF Maker, InvalidUsn
  <2>2. u \in Usns /\ u < v
    BY <1>2, EarlierRecord
  <2>. QED
    BY <1>2, <2>1, <2>2, LastKeptStep
<1>. QED
  BY <1>1, <1>2 DEF LastOnTop

-----------------------------------------------------------------------------
(* Theorems                                                                 *)

HeapInv == Base /\ Clean /\ InSight /\ LastOnTop

\* At the start there is no row.
LEMMA HeapInit == Init => HeapInv
<1>. SUFFICES ASSUME Init PROVE HeapInv
  OBVIOUS
<1>1. undo = <<>> /\ pages = <<>>
  BY DEF Init
<1>2. Usns = {} /\ Places = {}
  BY <1>1 DEF Usns, Places, PlacesOf
<1>. QED
  BY <1>2, BaseInit, CleanInit DEF HeapInv, InSight, LastOnTop

\* Nothing changes in a step that changes nothing.
LEMMA HeapStutter ==
  ASSUME HeapInv, UNCHANGED vars
  PROVE  HeapInv'
<1>. USE Stutter
<1>1. /\ \A u : Stands(u)' <=> Stands(u)
      /\ \A t : Gone(t)' <=> Gone(t)
      /\ \A r : Intact(r)' <=> Intact(r)
      /\ \A tup : Maker(tup)' = Maker(tup)
  BY DEF Stands, Pending, Gone, InvalidUsn, Intact, HalfUndone, Maker
<1>2. InSight'
  BY <1>1 DEF HeapInv, InSight, Visible
<1>3. LastOnTop'
  <2>1. \A t \in Places : ~Gone(t) /\ Intact(Row(t)) =>
          \A u \in Usns : rowOf[u] = Row(t) /\ Stands(u) => u <= Maker(Item(t).tup)
    BY DEF HeapInv, LastOnTop
  <2>2. \A v \in Usns : Stands(v) /\ Intact(rowOf[v]) =>
          \A u \in 1..(v - 1) : rowOf[u] = rowOf[v] /\ Stands(u) => u <= Maker(undo[v].tup)
    BY DEF HeapInv, LastOnTop
  <2>3. (\A t : Maker(Item(t).tup)' = Maker(Item(t).tup)) /\ \A v : Maker(undo[v].tup)' = Maker(undo[v].tup)
    BY DEF Maker, InvalidUsn
  <2>. QED
    BY <1>1, <2>1, <2>2, <2>3 DEF LastOnTop
<1>. QED
  BY <1>2, <1>3, BaseStutter, CleanStutter DEF HeapInv

\* Every action keeps the invariant.
LEMMA HeapNext ==
  ASSUME HeapInv, Next
  PROVE  HeapInv'
<1>1. Base /\ Clean /\ InSight /\ LastOnTop
  BY DEF HeapInv
<1>2. Base' /\ \E x \in Xids : Step(x)
  BY <1>1, BaseNext
<1>3. PICK x \in Xids : Step(x)
  BY <1>2
<1>4. OwnOnTop /\ XidTells /\ OneLive
  BY <1>1 DEF Clean
<1>5. Clean'
  BY <1>1, <1>3, CleanStep
<1>6. InSight' /\ LastOnTop'
  BY <1>1, <1>3, <1>4, InSightStep, LastOnTopStep
<1>. QED
  BY <1>2, <1>5, <1>6 DEF HeapInv

\* The inductive invariant: what the records and the pages say of each other, and, of the
\* rows that no waiter overwrote blindly, where their versions are and in which order
\* their changes were made.
THEOREM HeapInvariant == Spec => []HeapInv
<1>1. HeapInv /\ [Next]_vars => HeapInv'
  BY HeapNext, HeapStutter
<1>. QED
  BY HeapInit, <1>1, PTL DEF Spec

\* Type correctness of the table, the undo log and the locals.
THEOREM HeapTypes == Spec => []TypeOK
<1>1. HeapInv => TypeOK
  BY DEF HeapInv, Base
<1>. QED
  BY <1>1, HeapInvariant, PTL

\* An item of a page is at a place.
LEMMA PlaceOf ==
  ASSUME Shape, NEW p \in DOMAIN pages, NEW i \in DOMAIN pages[p]
  PROVE  <<p, i>> \in Places /\ Item(<<p, i>>) = pages[p][i]
<1>1. /\ Len(pages) \in Nat /\ Len(pages) <= MaxPages /\ DOMAIN pages = 1..Len(pages)
      /\ Len(pages[p]) \in Nat /\ Len(pages[p]) <= RowsPerPage /\ DOMAIN pages[p] = 1..Len(pages[p])
  BY TablePages DEF Shape, Tables
<1>2. p \in 1..MaxPages /\ i \in 1..RowsPerPage
  BY <1>1, Bounds
<1>. QED
  BY <1>2 DEF Places, PlacesOf, Item

\* Undo records point to older records, so that find_visible_tuple_page comes to an end.
THEOREM HeapChains == Spec => []ChainDescends
<1>1. ASSUME HeapInv PROVE ChainDescends
  <2>1. TypeOK /\ Shape /\ Placed /\ Records
    BY <1>1, BaseParts DEF HeapInv
  <2>2. \A u \in Usns : undo[u].tup.undo < u
    BY <2>1 DEF Records, RecordOK
  <2>3. ASSUME NEW p \in DOMAIN pages, NEW i \in DOMAIN pages[p] PROVE pages[p][i].tup.undo \in {InvalidUsn} \cup Usns
    <3>1. PICK t : t = <<p, i>>
      OBVIOUS
    <3>2. t \in Places /\ Item(t) = pages[p][i]
      BY <2>1, <2>3, <3>1, PlaceOf
    <3>. QED
      BY <2>1, <3>2 DEF Placed, TupleAt
  <2>. QED
    BY <2>2, <2>3 DEF ChainDescends
<1>. QED
  BY <1>1, HeapInvariant, PTL

\* "aborted transaction must undo all it's changes before marked aborted"
\* (HeapTable.cpp:182): an aborted transaction shows nothing but rows it inserted.
THEOREM HeapAborts == Spec => []AbortRestores
<1>1. ASSUME HeapInv PROVE AbortRestores
  <2>1. TypeOK /\ Shape /\ Placed /\ Records /\ Restored
    BY <1>1, BaseParts DEF HeapInv, Clean
  <2>2. ASSUME NEW p \in DOMAIN pages, NEW i \in DOMAIN pages[p], ~pages[p][i].dead,
               status[pages[p][i].tup.xid] = AbortedCsn, rowOf[pages[p][i].tup.val] \notin clobbered
        PROVE  pages[p][i].tup.undo = InvalidUsn /\ rowOf[pages[p][i].tup.val] = pages[p][i].tup.val
    <3>1. PICK t, tup : t = <<p, i>> /\ tup = Item(t).tup
      OBVIOUS
    <3>2. t \in Places /\ Item(t) = pages[p][i]
      BY <2>1, <2>2, <3>1, PlaceOf
    <3>3. tup.undo = InvalidUsn
      BY <2>1, <2>2, <3>1, <3>2 DEF Restored, Row
    <3>4. TupleAt(t, tup) /\ Maker(tup) = tup.val
      BY <2>1, <3>1, <3>2, <3>3 DEF Placed, Maker
    <3>5. tup.val \in Usns /\ undo[tup.val].type = "Delete"
      BY <3>3, <3>4 DEF TupleAt
    <3>6. rowOf[tup.val] = tup.val
      BY <2>1, <3>5 DEF Records, RecordOK
    <3>. QED
      BY <3>1, <3>2, <3>3, <3>6
  <2>. QED
    BY <2>2 DEF AbortRestores
<1>. QED
  BY <1>1, HeapInvariant, PTL

\* A statement changes a row once, although its scan may meet the new version at a later
\* place of the page.
THEOREM HeapChanges == Spec => []ChangedOnce
<1>1. HeapInv => ChangedOnce
  BY DEF HeapInv, Clean, OncePerStatement, ChangedOnce, Scanning, Writing
<1>. QED
  BY <1>1, HeapInvariant, PTL

\* "First we must check that old tuple was not concurrently modified" (HeapTable.cpp:202):
\* an update is lost only where a waiter overwrote the row blindly or a transaction
\* committed after a failed ROLLBACK.
THEOREM HeapLosesNothing == Spec => []LostOnlyClobbered
<1>1. ASSUME HeapInv PROVE LostOnlyClobbered
  <2>1. Base /\ InSight
    BY <1>1 DEF HeapInv
  <2>2. ASSUME NEW v \in Usns, NEW u \in 1..(v - 1), rowOf[u] = rowOf[v], undo[u].xid # undo[v].xid,
               IsNormal(status[undo[v].xid]), IsNormal(status[undo[u].xid]),
               ~Visible(status[undo[u].xid], undo[v].xid)
        PROVE  rowOf[v] \in clobbered \cup HalfUndone
    <3>1. u \in Usns /\ Lives
      BY <2>1, <2>2, BaseParts
    <3>2. \A w \in Usns : IsNormal(status[undo[w].xid]) => Stands(w)
      <4>. SUFFICES ASSUME NEW w \in Usns, IsNormal(status[undo[w].xid]) PROVE Stands(w)
        OBVIOUS
      <4>1. PICK y : y = undo[w].xid
        OBVIOUS
      <4>2. y \in Xids
        BY <2>1, <4>1, BaseParts
      <4>3. pc[y] = "ended" /\ status[y] # AbortedCsn
        BY <3>1, <4>1, <4>2 DEF Lives, IsNormal, MinCsn, AbortedCsn
      <4>. QED
        BY <4>1, <4>3 DEF Stands
    <3>3. Stands(u) /\ Stands(v)
      BY <2>2, <3>1, <3>2
    <3>. QED
      BY <2>1, <2>2, <3>3 DEF InSight, Intact
  <2>. QED
    BY <2>2 DEF LostOnlyClobbered, LostUpdates
<1>. QED
  BY <1>1, HeapInvariant, PTL

\* A ROLLBACK that throws met a row overwritten blindly.
LEMMA FailedUndo ==
  ASSUME HeapInv, NEW x \in Xids, UndoFails(x), x \notin failed
  PROVE  rowOf[undoLog[x][left[x]]] \in clobbered
<1>1. Base /\ ChangesKept /\ UndoneGone
  BY DEF HeapInv, Clean
<1>2. PICK r : r = undoLog[x][left[x]]
  OBVIOUS
<1>3. pc[x] = "undo" /\ left[x] > 0 /\ UndoThrows(r)
  BY <1>2 DEF UndoFails, Goto
<1>4. /\ left[x] \in Nat /\ left[x] <= Len(undoLog[x]) /\ Len(undoLog[x]) \in Nat
      /\ DOMAIN undoLog[x] = 1..Len(undoLog[x])
  BY <1>1, BaseParts, LocalValuesAt DEF Shape
<1>5. left[x] \in DOMAIN undoLog[x] /\ left[x] \in 1..left[x]
  BY <1>3, <1>4
<1>6. r \in Usns /\ undo[r].xid = x /\ \A j \in 1..(left[x] - 1) : undoLog[x][j] < r
  BY <1>1, <1>2, <1>5, BaseParts DEF Logs
<1>7. r \in Pending(x) /\ \A w \in Pending(x) : w = r \/ w < r
  <2>1. r \in Pending(x)
    BY <1>2, <1>5 DEF Pending
  <2>2. \A j \in 1..left[x] : j = left[x] \/ j \in 1..(left[x] - 1)
    BY <1>4
  <2>. QED
    BY <1>2, <1>6, <2>1, <2>2 DEF Pending
<1>8. status[x] = InProgressCsn
  BY <1>1, <1>3, InProgress
<1>9. SUFFICES ASSUME rowOf[r] \notin clobbered PROVE FALSE
  BY <1>2
<1>10. undo[r].type = "Update"
  BY <1>3 DEF UndoThrows
<1>11. ASSUME NEW t \in Spots(r) PROVE Item(t).tup.undo = r
  <2>1. ~Item(t).dead /\ Item(t).tup.xid = x /\ Item(t).tup.undo >= r
    BY <1>1, <1>6, <1>7, <1>8, <1>9, <1>10, <1>11 DEF ChangesKept
  <2>2. t \in Places /\ Row(t) = rowOf[r] /\ r \in Nat /\ r > 0
    BY <1>1, <1>6, <1>11, BaseParts DEF Records, RecordOK
  <2>3. Item(t).tup.undo \in Nat
    <3>1. Item(t).tup.undo \in {InvalidUsn} \cup Usns
      BY <1>1, <2>2, BaseParts DEF Placed, TupleAt
    <3>. QED
      BY <1>1, <3>1, BaseParts DEF InvalidUsn
  <2>4. Item(t).tup.undo # InvalidUsn
    BY <2>1, <2>2, <2>3 DEF InvalidUsn
  <2>5. Item(t).tup.undo \in Pending(x)
    BY <1>1, <1>3, <1>9, <2>1, <2>2, <2>4 DEF UndoneGone
  <2>. QED
    BY <1>7, <2>1, <2>2, <2>3, <2>5
<1>. QED
  BY <1>3, <1>11 DEF UndoThrows, Spots

\* The undo of a change never throws ("tuple modified..."), but on a row that a waiter
\* overwrote blindly or after an earlier failed ROLLBACK.
THEOREM HeapUndoes == Spec => UndoFailsClobbered
<1>. DEFINE A == \A x \in Xids : pc[x] = "undo" /\ pc'[x] = "idle" /\ x \notin failed =>
                   rowOf[undoLog[x][left[x]]] \in clobbered
<1>1. HeapInv /\ [Next]_vars => [A]_vars
  <2>. SUFFICES ASSUME HeapInv, Next, NEW x \in Xids, pc[x] = "undo", pc'[x] = "idle", x \notin failed
                PROVE  rowOf[undoLog[x][left[x]]] \in clobbered
    OBVIOUS
  <2>1. DOMAIN pc = Xids
    BY Functions, BaseParts DEF HeapInv
  <2>2. PICK z \in Xids :
          \/ BeginTransaction(z) \/ CommitTransaction(z)
          \/ \E kind \in Kinds : StartStatement(z, kind)
          \/ InsertTuple(z) \/ GetNextTuple(z) \/ GetNoTuple(z) \/ Write(z)
          \/ Rollback(z) \/ UndoRecord(z) \/ UndoFails(z) \/ RollbackEnds(z)
    BY DEF Next
  <2>3. z = x
    <3>1. Step(z)
      BY <2>2, StepOf, BaseParts DEF HeapInv
    <3>2. OthersKept(z)
      BY <3>1, StepKeepsOthers
    <3>. QED
      BY <3>2 DEF OthersKept
  <2>4. ~(BeginTransaction(x) \/ CommitTransaction(x) \/ (\E kind \in Kinds : StartStatement(x, kind)))
    BY DEF BeginTransaction, CommitTransaction, StartStatement, Goto
  <2>5. ~(InsertTuple(x) \/ GetNextTuple(x) \/ GetNoTuple(x) \/ Write(x))
    <3>1. ~InsertTuple(x) /\ ~GetNextTuple(x) /\ ~GetNoTuple(x)
      BY DEF InsertTuple, GetNextTuple, GetNoTuple, Goto
    <3>2. ~Write(x)
      BY DEF Write, WriteNow, WriteConflict, RereadXid, WaitAborted, WaitCommitted, WriteRelocked, Goto
    <3>. QED
      BY <3>1, <3>2
  <2>6. ~(Rollback(x) \/ UndoRecord(x))
    BY DEF Rollback, UndoRecord, Goto
  <2>7. ~RollbackEnds(x)
    <3>. SUFFICES ASSUME pc' = [pc EXCEPT ![x] = "ended"] PROVE FALSE
      BY Zenon DEF RollbackEnds, Goto
    <3>1. pc'[x] = "ended"
      BY <2>1, Zenon
    <3>. QED
      BY <3>1
  <2>8. UndoFails(x)
    BY <2>2, <2>3, <2>4, <2>5, <2>6, <2>7
  <2>. QED
    BY <2>8, FailedUndo
<1>. QED
  BY <1>1, HeapInvariant, PTL DEF Spec, UndoFailsClobbered

\* The version on the page is the one that the statement scanned, when it changes it without
\* a wait: "it's enough to check only tuple XID" (HeapTable.cpp:208).
XidIsEnough ==
  [][\A x \in Xids : WriteNow(x) /\ rowOf[OldItem(x).tup.val] \notin clobbered => OldItem(x).tup = cur[x].tup]_vars

\* The check of the xid alone tells every version that another transaction or the same
\* one may have put in the place of the scanned one, save after a blind write.
THEOREM HeapXids == Spec => XidIsEnough
<1>. DEFINE A == \A x \in Xids : WriteNow(x) /\ rowOf[OldItem(x).tup.val] \notin clobbered => OldItem(x).tup = cur[x].tup
<1>1. HeapInv => A
  <2>. SUFFICES ASSUME HeapInv, NEW x \in Xids, WriteNow(x), rowOf[OldItem(x).tup.val] \notin clobbered
                PROVE  OldItem(x).tup = cur[x].tup
    OBVIOUS
  <2>1. pc[x] \in Writing /\ OldItem(x).tup.xid = cur[x].tup.xid
    BY DEF WriteNow, NotModified, Goto, Writing
  <2>2. OwnOnTop /\ XidTells
    BY DEF HeapInv, Clean
  <2>. QED
    BY <2>1, <2>2 DEF OwnOnTop, XidTells, OldItem, Row
<1>. QED
  BY <1>1, HeapInvariant, PTL DEF XidIsEnough

-----------------------------------------------------------------------------
(* What a SELECT returns                                                    *)

\* A tuple is named by the record that made it, and is deleted if that is a DELETE.
NamedBy(tup) == LET m == Maker(tup) IN
  ~Moved(m) => (tup.deleted <=> undo[m].type = "Insert") /\ (~tup.deleted => tup.val = m)

Named ==
  /\ \A t \in Places : NamedBy(Item(t).tup)
  /\ \A u \in Usns : undo[u].type # "Delete" => NamedBy(undo[u].tup)
  /\ \A x \in Xids : pc[x] \in Writing => NamedBy(cur[x].tup)

\* Only the new place of a move dies: the undo of an INSERT finds no USN on the page.
MovedDead == \A t \in Places : Item(t).dead => Row(t) \in MovedRows

Whole(r) == r \notin clobbered \cup MovedRows \cup HalfUndone

\* What a SELECT has returned: of the places that its scan has passed, the last version
\* that belongs to its snapshot.
SelectOf(x) ==
  /\ pc[x] \in {"scan", "idle", "undo"} /\ seen[x] \subseteq Usns
  /\ pc[x] = "scan" => IF pos[x] = NoTid THEN \A u \in Usns : ~Belongs(x, u) ELSE pos[x][1] = 1
  /\ \A u \in Usns : Whole(rowOf[u]) =>
       (u \in seen[x] <=> /\ u \in Expected(x) /\ undo[u].old[1] = 1
                          /\ pc[x] = "scan" => undo[u].old[2] < pos[x][2])

Selects == DOMAIN seen = Xids /\ \A x \in Xids : op[x] = "select" => SelectOf(x)

\* The changes of the row at t that belong to the statement of x.
Belonging(x, t) == {u \in Usns : rowOf[u] = Row(t) /\ Belongs(x, u)}

\* A version, or none, is what the last of these changes made of the row.
Exact(x, t, w) ==
  IF w = NoTuple
  THEN \A u \in Belonging(x, t) : (\A v \in Belonging(x, t) : v <= u) => undo[u].type = "Insert"
  ELSE /\ w.val \in Belonging(x, t) /\ undo[w.val].type # "Insert" /\ undo[w.val].old = t
       /\ \A v \in Belonging(x, t) : v <= w.val

\* A tuple of a row that never moved, and the record that made it.
LEMMA MadeBy ==
  ASSUME Base, NEW x \in Xids, pc[x] = "scan", NEW t \in Places, Whole(Row(t)),
         NEW tup, TupleAt(t, tup), NamedBy(tup)
  PROVE  LET c == Maker(tup) IN
         /\ c \in Usns /\ ~Moved(c) /\ undo[c].old = t /\ rowOf[c] = Row(t) /\ undo[c].xid = tup.xid
         /\ tup.deleted <=> undo[c].type = "Insert"
         /\ ~tup.deleted => tup.val = c
         /\ undo[c].type = "Delete" <=> tup.undo = InvalidUsn
         /\ TupleVisible(x, tup) <=> Belongs(x, c)
         /\ tup # NoTuple
<1>1. PICK c : c = Maker(tup)
  OBVIOUS
<1>2. /\ c \in Usns /\ rowOf[c] = Row(t) /\ undo[c].xid = tup.xid /\ t \in Spots(c)
      /\ (undo[c].type = "Delete" <=> tup.undo = InvalidUsn)
      /\ tup.val \in Usns /\ tup.xid \in Xids
  BY <1>1 DEF TupleAt, Maker
<1>3. ~Moved(c)
  <2>1. Moved(c) => undo[c].type = "Update"
    BY <1>2, BaseParts DEF Records, RecordOK
  <2>2. Moved(c) => rowOf[c] \in MovedRows
    BY <1>2, <2>1 DEF MovedRows, Moved
  <2>. QED
    BY <1>2, <2>2 DEF Whole
<1>4. undo[c].old = t
  BY <1>2, <1>3 DEF Spots, Moved
<1>5. (tup.deleted <=> undo[c].type = "Insert") /\ (~tup.deleted => tup.val = c)
  BY <1>1, <1>3 DEF NamedBy
<1>6. TupleVisible(x, tup) <=> Belongs(x, c)
  <2>1. CASE tup.xid # x
    BY <1>2, <2>1 DEF TupleVisible, Belongs
  <2>2. CASE tup.xid = x /\ tup.undo # InvalidUsn
    <3>1. c = tup.undo
      BY <1>1, <2>2 DEF Maker
    <3>. QED
      BY <1>2, <2>2, <3>1 DEF TupleVisible, Belongs
  <2>3. CASE tup.xid = x /\ tup.undo = InvalidUsn
    <3>1. ~(c >= snapCid[x])
      BY <1>2, <2>3, BaseParts DEF Behind, Scanning
    <3>2. c \in Nat /\ c > 0 /\ snapCid[x] \in Nat
      BY <1>2, BaseParts, LocalValuesAt
    <3>3. c < snapCid[x] /\ 0 < snapCid[x]
      BY <3>1, <3>2
    <3>. QED
      BY <1>2, <2>3, <3>3 DEF TupleVisible, Belongs, InvalidUsn
  <2>. QED
    BY <2>1, <2>2, <2>3
<1>7. tup # NoTuple
  BY <1>2, BaseParts DEF NoTuple
<1>. QED
  BY <1>1, <1>2, <1>3, <1>4, <1>5, <1>6, <1>7

\* What belongs to a statement stands.
LEMMA BelongingStands ==
  ASSUME Base, NEW x \in Xids, pc[x] = "scan", NEW u \in Usns, Belongs(x, u)
  PROVE  Stands(u)
<1>1. PICK y : y = undo[u].xid /\ y \in Xids
  BY BaseParts
<1>2. CASE y = x
  BY <1>1, <1>2, InProgress DEF Stands
<1>3. CASE y # x
  <2>1. IsNormal(status[y])
    BY <1>1, <1>3 DEF Belongs, Visible
  <2>2. pc[y] = "ended" /\ status[y] # AbortedCsn
    BY <1>1, <2>1, BaseParts DEF Lives, IsNormal, MinCsn, AbortedCsn
  <2>. QED
    BY <1>1, <2>2 DEF Stands
<1>. QED
  BY <1>2, <1>3

\* With the change that a tuple was made by, the one before it stands.
LEMMA StandsBehind ==
  ASSUME Base, KeepsCommitted, NEW n \in Usns, undo[n].type # "Delete", rowOf[n] \notin clobbered, Stands(n)
  PROVE  Stands(Maker(undo[n].tup))
<1>1. PICK tup, c, y : tup = undo[n].tup /\ c = Maker(tup) /\ y = undo[n].xid
  OBVIOUS
<1>2. /\ TupleAt(undo[n].old, tup) /\ c < n /\ c \in Usns /\ undo[c].xid = tup.xid /\ y \in Xids
      /\ tup.xid \in Xids /\ n \in Nat /\ c \in Nat
  <2>1. TupleAt(undo[n].old, tup) /\ c < n
    BY <1>1, BaseParts DEF Records, RecordOK
  <2>2. c \in Usns /\ undo[c].xid = tup.xid /\ tup.xid \in Xids
    BY <1>1, <2>1 DEF TupleAt, Maker
  <2>. QED
    BY <1>1, <2>1, <2>2, BaseParts
<1>3. CASE tup.xid # y
  <2>1. IsNormal(status[tup.xid])
    BY <1>1, <1>3 DEF KeepsCommitted, Foreign
  <2>2. pc[tup.xid] = "ended" /\ status[tup.xid] # AbortedCsn
    BY <1>2, <2>1, BaseParts DEF Lives, IsNormal, MinCsn, AbortedCsn
  <2>. QED
    BY <1>1, <1>2, <2>2 DEF Stands
<1>4. CASE tup.xid = y
  <2>1. status[y] # AbortedCsn /\ (pc[y] = "undo" => n \in Pending(y))
    BY <1>1 DEF Stands
  <2>2. ASSUME pc[y] = "undo" PROVE c \in Pending(y)
    <3>. DEFINE L == undoLog[y]
                k == left[y]
    <3>1. /\ k \in Nat /\ Len(L) \in Nat /\ DOMAIN L = 1..Len(L) /\ k <= Len(L)
          /\ \A i \in DOMAIN L : L[i] \in 1..MaxUsn
      BY <1>2, BaseParts, LocalValuesAt DEF Shape
    <3>2. \A i \in DOMAIN L : \A j \in 1..(i - 1) : L[j] < L[i]
      BY <1>2, BaseParts DEF Logs
    <3>3. status[y] = InProgressCsn
      BY <1>2, <2>2, InProgress
    <3>4. PICK i \in DOMAIN L : L[i] = c
      BY <1>2, <1>4, <3>3, BaseParts DEF Logs
    <3>5. PICK j \in 1..k : L[j] = n
      BY <2>1, <2>2 DEF Pending
    <3>6. Pending(y) = {L[m] : m \in 1..k}
      BY DEF Pending
    <3>. HIDE DEF L, k
    <3>7. j \in DOMAIN L /\ i \in Nat /\ j \in Nat
      BY <3>1, <3>4, <3>5
    <3>8. j < i => L[j] < L[i]
      <4>1. j < i => j \in 1..(i - 1)
        BY <3>1, <3>4, <3>5, <3>7
      <4>. QED
        BY <3>2, <3>4, <4>1
    <3>9. i \in 1..k
      BY <1>2, <3>1, <3>4, <3>5, <3>7, <3>8
    <3>. QED
      BY <3>4, <3>6, <3>9
  <2>. QED
    BY <1>1, <1>2, <1>4, <2>1, <2>2 DEF Stands
<1>. QED
  BY <1>3, <1>4

\* A version that is not deleted, of a change to which nothing that belongs is later.
LEMMA ExactTuple ==
  ASSUME Base, NEW x \in Xids, pc[x] = "scan", NEW t \in Places, Whole(Row(t)),
         NEW tup, TupleAt(t, tup), NamedBy(tup), TupleVisible(x, tup),
         \A v \in Belonging(x, t) : v <= Maker(tup)
  PROVE  Exact(x, t, IF tup.deleted THEN NoTuple ELSE tup)
<1>1. PICK c : c = Maker(tup)
  OBVIOUS
<1>2. /\ c \in Usns /\ undo[c].old = t /\ rowOf[c] = Row(t) /\ Belongs(x, c)
      /\ (tup.deleted <=> undo[c].type = "Insert") /\ (~tup.deleted => tup.val = c) /\ tup # NoTuple
  BY <1>1, MadeBy
<1>3. c \in Belonging(x, t) /\ \A v \in Belonging(x, t) : v <= c
  BY <1>1, <1>2 DEF Belonging
<1>4. CASE tup.deleted
  <2>1. ASSUME NEW u \in Belonging(x, t), \A v \in Belonging(x, t) : v <= u PROVE u = c
    <3>1. u <= c /\ c <= u
      BY <1>3, <2>1
    <3>2. u \in Nat /\ c \in Nat
      BY <1>3, BaseParts DEF Belonging
    <3>. QED
      BY <3>1, <3>2
  <2>. QED
    BY <1>2, <1>4, <2>1 DEF Exact
<1>5. CASE ~tup.deleted
  BY <1>2, <1>3, <1>5 DEF Exact
<1>. QED
  BY <1>4, <1>5

\* Before the INSERT of the row there is no version that belongs.
LEMMA ExactNone ==
  ASSUME Base, NEW x \in Xids, pc[x] = "scan", NEW t \in Places, Whole(Row(t)),
         NEW tup, TupleAt(t, tup), NamedBy(tup), ~TupleVisible(x, tup), tup.undo = InvalidUsn,
         \A v \in Belonging(x, t) : v <= Maker(tup)
  PROVE  Exact(x, t, NoTuple)
<1>1. PICK c : c = Maker(tup)
  OBVIOUS
<1>2. c \in Usns /\ rowOf[c] = Row(t) /\ ~Belongs(x, c) /\ undo[c].type = "Delete"
  BY <1>1, MadeBy
<1>3. rowOf[c] = c
  BY <1>2, BaseParts DEF Records, RecordOK
<1>4. ASSUME NEW v \in Belonging(x, t) PROVE FALSE
  <2>1. v \in Usns /\ rowOf[v] = c /\ Belongs(x, v) /\ v <= c
    BY <1>1, <1>2, <1>3, <1>4 DEF Belonging
  <2>2. c <= v /\ v \in Nat /\ c \in Nat
    BY <1>2, <2>1, BaseParts DEF Records, RecordOK
  <2>3. v = c
    BY <2>1, <2>2
  <2>. QED
    BY <1>2, <2>1, <2>3
<1>. QED
  BY <1>4 DEF Exact

\* The search of find_visible_tuple_page, behind a change that is not visible and to which
\* nothing that belongs is later, ends at the last version that belongs.
LEMMA SearchExact ==
  ASSUME Base, KeepsCommitted, LastOnTop, Named, NEW x \in Xids, pc[x] = "scan", NEW t \in Places, Whole(Row(t)),
         NEW n \in Usns, undo[n].type # "Delete", ~Moved(n), undo[n].old = t, Stands(n), ~Belongs(x, n),
         \A v \in Belonging(x, t) : v <= n
  PROVE  Exact(x, t, FindVersion(x, n))
<1>0. TypeOK /\ Records /\ Len(undo) \in Nat /\ Usns = 1..Len(undo)
  BY BaseParts
<1>1. PICK f :
        /\ \A u \in 0..Len(undo) :
             f[u] = IF u = InvalidUsn \/ undo[u].type = "Delete" \/ undo[u].old # undo[u].new THEN NoTuple
                    ELSE IF TupleVisible(x, undo[u].tup) THEN undo[u].tup
                    ELSE f[undo[u].tup.undo]
        /\ \A m : FindVersion(x, m) = f[m]
  BY <1>0, SearchEnds, ZenonT(30)
<1>. DEFINE Good(m) ==
              undo[m].type # "Delete" /\ ~Moved(m) /\ undo[m].old = t /\ Stands(m) /\ ~Belongs(x, m)
              /\ (\A v \in Belonging(x, t) : v <= m) => Exact(x, t, f[m])
            T == {m \in Usns : ~Good(m)}
<1>2. T = {}
  <2>. SUFFICES ASSUME T # {} PROVE FALSE
    OBVIOUS
  <2>1. T \subseteq Nat
    BY <1>0
  <2>2. PICK m \in T : \A k \in T : m <= k
    BY <2>1, LeastNatural
  <2>3. m \in Usns /\ ~Good(m) /\ m \in Nat
    BY <2>1
  <2>4. \A k \in Usns : k < m => Good(k)
    <3>. HIDE DEF T, Good
    <3>1. \A k \in T : k \in Nat /\ m <= k
      BY <2>1, <2>2
    <3>2. \A k \in T : ~(k < m)
      BY <2>3, <3>1
    <3>3. \A k \in Usns : k \notin T => Good(k)
      BY DEF T
    <3>. QED
      BY <3>2, <3>3
  <2>. HIDE DEF T
  <2>5. /\ undo[m].type # "Delete" /\ ~Moved(m) /\ undo[m].old = t /\ Stands(m) /\ ~Belongs(x, m)
        /\ \A v \in Belonging(x, t) : v <= m
    BY <2>3
  <2>6. ~Exact(x, t, f[m])
    BY <2>3, <2>5
  <2>7. PICK tup, c : tup = undo[m].tup /\ c = Maker(tup)
    OBVIOUS
  <2>8. /\ TupleAt(t, tup) /\ NamedBy(tup) /\ c < m /\ rowOf[m] = Row(t)
        /\ Row(t) \notin clobbered /\ Intact(Row(t))
    <3>1. TupleAt(t, tup) /\ c < m /\ rowOf[m] = Row(t)
      BY <1>0, <2>3, <2>5, <2>7 DEF Records, RecordOK, Spots
    <3>2. NamedBy(tup)
      BY <2>3, <2>5, <2>7 DEF Named
    <3>. QED
      BY <3>1, <3>2 DEF Whole, Intact
  <2>9. c \in Usns /\ ~Moved(c) /\ undo[c].old = t /\ (TupleVisible(x, tup) <=> Belongs(x, c))
        /\ (undo[c].type = "Delete" <=> tup.undo = InvalidUsn)
    BY <2>7, <2>8, MadeBy
  <2>10. \A v \in Belonging(x, t) : v <= c
    <3>. SUFFICES ASSUME NEW v \in Belonging(x, t) PROVE v <= c
      OBVIOUS
    <3>1. v \in Usns /\ rowOf[v] = rowOf[m] /\ Belongs(x, v) /\ v <= m /\ v # m /\ v \in Nat /\ v > 0
      BY <2>5, <2>8, BaseParts DEF Belonging
    <3>2. Stands(v) /\ v \in 1..(m - 1)
      BY <2>3, <3>1, BelongingStands
    <3>. QED
      BY <2>3, <2>5, <2>7, <2>8, <3>1, <3>2 DEF LastOnTop
  <2>11. f[m] = IF TupleVisible(x, tup) THEN tup ELSE f[tup.undo]
    <3>1. m \in 0..Len(undo) /\ m # InvalidUsn /\ undo[m].old = undo[m].new
      BY <1>0, <2>3, <2>5 DEF InvalidUsn, Moved
    <3>. QED
      BY <1>1, <2>5, <2>7, <3>1, Zenon
  <2>12. CASE TupleVisible(x, tup)
    <3>1. ~tup.deleted
      BY <2>3, <2>5, <2>7, <2>8 DEF KeepsCommitted
    <3>2. Exact(x, t, tup)
      BY <2>7, <2>8, <2>10, <2>12, <3>1, ExactTuple
    <3>. QED
      BY <2>6, <2>11, <2>12, <3>2
  <2>13. CASE ~TupleVisible(x, tup) /\ tup.undo = InvalidUsn
    <3>1. f[tup.undo] = NoTuple
      BY <1>0, <1>1, <2>13 DEF InvalidUsn
    <3>2. Exact(x, t, NoTuple)
      BY <2>7, <2>8, <2>10, <2>13, ExactNone
    <3>. QED
      BY <2>6, <2>11, <2>13, <3>1, <3>2
  <2>14. CASE ~TupleVisible(x, tup) /\ tup.undo # InvalidUsn
    <3>1. c = tup.undo /\ undo[c].type # "Delete" /\ ~Belongs(x, c)
      BY <2>7, <2>9, <2>14 DEF Maker
    <3>2. Stands(c)
      BY <2>3, <2>5, <2>7, <2>8, StandsBehind
    <3>3. Good(c)
      BY <2>4, <2>8, <2>9
    <3>4. Exact(x, t, f[c])
      BY <2>9, <2>10, <3>1, <3>2, <3>3
    <3>. QED
      BY <2>6, <2>11, <2>14, <3>1, <3>4
  <2>. QED
    BY <2>12, <2>13, <2>14
<1>3. Good(n)
  BY <1>2
<1>. QED
  BY <1>1, <1>3

\* GetNextTuple sees of a row that never moved what its snapshot has of it.
LEMMA VersionExact ==
  ASSUME Base, KeepsCommitted, UndoneGone, Restored, LastOnTop, Named, MovedDead,
         NEW x \in Xids, pc[x] = "scan", NEW t \in Places, Whole(Row(t))
  PROVE  Exact(x, t, Version(x, Item(t)))
<1>1. PICK tup, c : tup = Item(t).tup /\ c = Maker(tup)
  OBVIOUS
<1>2. TupleAt(t, tup) /\ NamedBy(tup) /\ ~Item(t).dead /\ Row(t) \notin clobbered /\ Intact(Row(t))
  BY <1>1, BaseParts DEF Placed, Named, MovedDead, Whole, Intact
<1>3. c \in Usns /\ ~Moved(c) /\ undo[c].old = t /\ (TupleVisible(x, tup) <=> Belongs(x, c))
      /\ (undo[c].type = "Delete" <=> tup.undo = InvalidUsn) /\ undo[c].xid = tup.xid
  BY <1>1, <1>2, MadeBy
<1>4. ~Gone(t)
  <2>1. tup.undo # InvalidUsn => tup.undo = c
    BY <1>1 DEF Maker
  <2>. QED
    BY <1>1, <1>2, <1>3, <2>1 DEF Gone
<1>5. \A v \in Belonging(x, t) : v <= c
  BY <1>1, <1>2, <1>4, BelongingStands DEF LastOnTop, Belonging
<1>6. CASE TupleVisible(x, tup)
  <2>1. Version(x, Item(t)) = IF tup.deleted THEN NoTuple ELSE tup
    BY <1>1, <1>2, <1>6, Zenon DEF Version
  <2>. QED
    BY <1>1, <1>2, <1>5, <1>6, <2>1, ExactTuple
<1>7. CASE ~TupleVisible(x, tup)
  <2>1. Version(x, Item(t)) = FindVersion(x, tup.undo)
    BY <1>1, <1>2, <1>7, Zenon DEF Version
  <2>2. CASE tup.undo = InvalidUsn
    <3>1. FindVersion(x, tup.undo) = NoTuple
      <4>1. tup.undo \in 0..Len(undo)
        BY <2>2, BaseParts DEF InvalidUsn
      <4>. QED
        BY <2>2, <4>1, BaseParts, SearchFinds
    <3>2. Exact(x, t, NoTuple)
      BY <1>1, <1>2, <1>5, <1>7, <2>2, ExactNone
    <3>. QED
      BY <2>1, <3>1, <3>2
  <2>3. CASE tup.undo # InvalidUsn
    <3>1. c = tup.undo /\ undo[c].type # "Delete" /\ ~Belongs(x, c)
      BY <1>1, <1>3, <1>7, <2>3 DEF Maker
    <3>2. Stands(c)
      BY <1>1, <1>2, <1>3, <2>3, <3>1 DEF UndoneGone, Restored, Stands, TupleAt
    <3>3. Exact(x, t, FindVersion(x, c))
      BY <1>3, <1>5, <3>1, <3>2, SearchExact
    <3>. QED
      BY <2>1, <3>1, <3>3
  <2>. QED
    BY <2>2, <2>3
<1>. QED
  BY <1>6, <1>7

\* The name of a tuple that is or was at a place stays.
LEMMA NamedStays ==
  ASSUME Base, NEW x \in Xids, Step(x), NEW t, NEW tup, TupleAt(t, tup), NamedBy(tup)
  PROVE  NamedBy(tup)'
<1>1. Maker(tup) \in Usns /\ Maker(tup)' = Maker(tup)
  BY DEF TupleAt, Maker, InvalidUsn
<1>2. undo'[Maker(tup)] = undo[Maker(tup)]
  BY <1>1, Kept
<1>. QED
  BY <1>1, <1>2 DEF NamedBy, Moved

\* The tuples on the pages, those that records keep and those that scans returned.
LEMMA NamedStep ==
  ASSUME Base, Named, NEW x \in Xids, Step(x)
  PROVE  Named'
<1>0. Placed /\ Records /\ Scanned /\ TypeOK
  BY BaseParts
<1>1. ASSUME NEW t \in Places' PROVE NamedBy(Item(t).tup)'
  <2>1. PICK tup : tup = Item(t)'.tup
    OBVIOUS
  <2>. SUFFICES NamedBy(tup)'
    BY <2>1
  <2>2. CASE t \in Places /\ Item(t)'.tup = Item(t).tup
    BY <1>0, <2>1, <2>2, NamedStays DEF Named, Placed
  <2>3. CASE Quiet(x)
    BY <1>1, <2>2, <2>3, QuietTable
  <2>4. ASSUME NEW u, NEW n, InsertedAt(x, u, n) PROVE NamedBy(tup)'
    <3>1. CASE t = n
      <4>1. ~tup.deleted /\ tup.undo = InvalidUsn /\ tup.val = u /\ undo'[u].type = "Delete"
        <5>1. PICK new : new = Tuple(x, InvalidUsn, FALSE, u)
          OBVIOUS
        <5>2. Item(n)' = [dead |-> FALSE, tup |-> new]
          BY <2>4, <5>1, Zenon DEF InsertedAt, InsertEffect
        <5>3. tup = new
          BY <2>1, <3>1, <5>2
        <5>. QED
          BY <2>4, <5>1, <5>3, InsertTable DEF Tuple
      <4>2. Maker(tup)' = u
        BY <4>1 DEF Maker, InvalidUsn
      <4>. QED
        BY <4>1, <4>2 DEF NamedBy
    <3>2. CASE t # n
      BY <1>1, <2>2, <2>4, <3>2, InsertTable
    <3>. QED
      BY <3>1, <3>2
  <2>5. ASSUME NEW u, NEW c, NEW n, WroteAt(x, u, c, n) PROVE NamedBy(tup)'
    <3>1. /\ Places' = Places \cup {n} /\ u # InvalidUsn /\ (Moved(u)' <=> n # c) /\ Item(c)'.tup.undo = u
          /\ (n # c => Item(n)'.tup.undo = u) /\ c \in Places
          /\ \A s \in Places : s # c => Item(s)' = Item(s)
      BY <2>5, WriteTable DEF InvalidUsn
    <3>2. CASE t \in {c, n}
      <4>1. Maker(tup)' = u
        BY <2>1, <3>1, <3>2 DEF Maker, InvalidUsn
      <4>2. CASE n # c
        BY <3>1, <4>1, <4>2 DEF NamedBy
      <4>3. CASE n = c
        <5>1. (tup.deleted <=> undo'[u].type = "Insert") /\ (~tup.deleted => tup.val = u)
          BY <2>1, <2>5, <3>2, <4>3 DEF WroteAt, WriteEffect
        <5>. QED
          BY <4>1, <5>1 DEF NamedBy
      <4>. QED
        BY <4>2, <4>3
    <3>3. CASE t \notin {c, n}
      BY <1>1, <2>2, <3>1, <3>3
    <3>. QED
      BY <3>2, <3>3
  <2>6. ASSUME NEW u, NEW o, NEW n, UndidAt(x, u, o, n) PROVE NamedBy(tup)'
    <3>1. /\ Places' = Places /\ u \in Usns /\ \A s \in Places : s \notin {o, n} => Item(s)' = Item(s)
          /\ \/ n = o /\ \A s \in Places : Item(s)' = Item(s)
             \/ /\ undo[u].type # "Delete" /\ Item(o)'.tup = undo[u].tup /\ TupleAt(o, undo[u].tup)
                /\ n # o => Item(n)'.tup = Item(n).tup
      BY <2>6, UndoTable
    <3>2. CASE Item(t)'.tup = Item(t).tup
      BY <1>1, <2>2, <3>1, <3>2
    <3>3. CASE Item(t)'.tup # Item(t).tup
      <4>1. t = o /\ undo[u].type # "Delete" /\ tup = undo[u].tup /\ TupleAt(o, tup)
        BY <1>1, <2>1, <3>1, <3>3
      <4>2. NamedBy(tup)
        BY <3>1, <4>1 DEF Named
      <4>. QED
        BY <4>1, <4>2, NamedStays
    <3>. QED
      BY <3>2, <3>3
  <2>. QED
    BY <2>3, <2>4, <2>5, <2>6 DEF Step
<1>2. ASSUME NEW v \in Usns', undo'[v].type # "Delete" PROVE NamedBy(undo[v].tup)'
  <2>1. PICK tup : tup = undo'[v].tup
    OBVIOUS
  <2>. SUFFICES NamedBy(tup)'
    BY <2>1
  <2>2. CASE v \in Usns
    <3>1. undo'[v] = undo[v]
      BY <2>2, Kept
    <3>2. TupleAt(undo[v].old, tup) /\ NamedBy(tup)
      BY <1>0, <1>2, <2>1, <2>2, <3>1 DEF Named, Records, RecordOK
    <3>. QED
      BY <3>2, NamedStays
  <2>3. CASE v \notin Usns
    <3>1. Quiet(x) => FALSE
      BY <1>2, <2>3, QuietTable
    <3>2. ASSUME NEW u, NEW n, InsertedAt(x, u, n) PROVE FALSE
      BY <1>2, <2>3, <3>2, InsertTable
    <3>3. ASSUME NEW u, NEW o, NEW n, UndidAt(x, u, o, n) PROVE FALSE
      BY <1>2, <2>3, <3>3, UndoTable
    <3>4. PICK u, c, n : WroteAt(x, u, c, n)
      BY <3>1, <3>2, <3>3 DEF Step
    <3>5. tup \in {cur[x].tup, Item(c).tup} /\ c \in Places /\ c = cur[x].tid /\ pc[x] \in Writing
      BY <1>2, <2>1, <2>3, <3>4, WriteTable
    <3>6. TupleAt(c, tup) /\ NamedBy(tup)
      BY <1>0, <3>5 DEF Named, Scanned, Placed
    <3>. QED
      BY <3>6, NamedStays
  <2>. QED
    BY <2>2, <2>3
<1>3. ASSUME NEW y \in Xids, pc'[y] \in Writing PROVE NamedBy(cur[y].tup)'
  <2>1. PICK tup : tup = cur'[y].tup
    OBVIOUS
  <2>. SUFFICES NamedBy(tup)'
    BY <2>1
  <2>2. CASE pc[y] \in Writing /\ cur'[y] = cur[y]
    <3>1. TupleAt(cur[y].tid, tup) /\ NamedBy(tup)
      BY <1>0, <2>1, <2>2 DEF Named, Scanned
    <3>. QED
      BY <3>1, NamedStays
  <2>3. ASSUME NEW t, y = x, Found(x, t) PROVE NamedBy(tup)'
    <3>1. /\ TupleAt(t, tup) /\ t \in Places
          /\ \/ tup = Item(t).tup
             \/ \E u \in Usns : tup = undo[u].tup /\ undo[u].type # "Delete"
      BY <1>0, <1>3, <2>1, <2>3, FoundVersion
    <3>2. NamedBy(tup)
      BY <3>1 DEF Named
    <3>. QED
      BY <3>1, <3>2, NamedStays
  <2>. QED
    BY <1>3, <2>2, <2>3, StillWriting
<1>. QED
  BY <1>1, <1>2, <1>3 DEF Named

\* Only the new place of a move dies.
LEMMA MovedDeadStep ==
  ASSUME Base, MovedDead, NEW x \in Xids, Step(x)
  PROVE  MovedRows \subseteq MovedRows' /\ MovedDead'
<1>1. MovedRows \subseteq MovedRows'
  BY Kept DEF MovedRows
<1>2. ASSUME NEW t \in Places', Item(t)'.dead PROVE Row(t)' \in MovedRows'
  <2>1. CASE t \in Places /\ Item(t).dead
    BY <1>1, <2>1, Kept DEF MovedDead
  <2>2. CASE Quiet(x)
    BY <1>2, <2>1, <2>2, QuietTable
  <2>3. ASSUME NEW u, NEW n, InsertedAt(x, u, n) PROVE Row(t)' \in MovedRows'
    BY <1>2, <2>1, <2>3, InsertTable
  <2>4. ASSUME NEW u, NEW c, NEW n, WroteAt(x, u, c, n) PROVE Row(t)' \in MovedRows'
    BY <1>2, <2>1, <2>4, WriteTable
  <2>5. ASSUME NEW u, NEW o, NEW n, UndidAt(x, u, o, n) PROVE Row(t)' \in MovedRows'
    <3>1. /\ Places' = Places /\ u \in Usns /\ \A s \in Places : s \notin {o, n} => Item(s)' = Item(s)
          /\ o = undo[u].old /\ n = undo[u].new /\ Row(n) = rowOf[u]
          /\ (n = o /\ \A s \in Places : Item(s)' = Item(s)) \/ Item(o)'.dead = Item(o).dead
      BY <2>5, UndoTable
    <3>2. CASE t = n /\ n # o
      <4>1. undo[u].type = "Update"
        BY <3>1, <3>2, BaseParts DEF Records, RecordOK, Moved
      <4>2. Row(t) \in MovedRows
        BY <3>1, <3>2, <4>1 DEF MovedRows
      <4>. QED
        BY <1>1, <1>2, <3>1, <4>2, Kept
    <3>3. CASE ~(t = n /\ n # o)
      BY <1>2, <2>1, <3>1, <3>3
    <3>. QED
      BY <3>2, <3>3
  <2>. QED
    BY <2>2, <2>3, <2>4, <2>5 DEF Step
<1>. QED
  BY <1>1, <1>2 DEF MovedDead

\* The steps of a SELECT of x.
SelectStarts(x) ==
  /\ StoreKept /\ Started(x) /\ pc'[x] = "scan" /\ seen'[x] = {}
  /\ pos'[x] = IF pages = <<>> THEN NoTid ELSE <<1, 1>>
SelectReturns(x, t) ==
  /\ op[x] = "select" /\ StoreKept /\ Found(x, t) /\ pc'[x] = "scan"
  /\ seen'[x] = seen[x] \cup {Version(x, Item(t)).val}
  /\ \A s \in Places : s[1] = pos[x][1] /\ s[2] >= pos[x][2] /\ s[2] < t[2] => Version(x, Item(s)) = NoTuple
SelectEnds(x) ==
  /\ op[x] = "select" /\ StoreKept /\ pc[x] = "scan" /\ pc'[x] = "idle"
  /\ snapCid'[x] = snapCid[x] /\ snapCsn'[x] = snapCsn[x] /\ seen'[x] = seen[x]
  /\ pos[x] # NoTid =>
       \A s \in Places : s[1] = pos[x][1] /\ s[2] >= pos[x][2] => Version(x, Item(s)) = NoTuple
SelectRests(x) ==
  /\ op[x] = "select" /\ pc[x] \in {"idle", "undo"} /\ pc'[x] \in {"idle", "undo"} /\ seen'[x] = seen[x]
  /\ snapCid'[x] = snapCid[x] /\ snapCsn'[x] = snapCsn[x] /\ undo' = undo /\ rowOf' = rowOf

SelectEffect(x) ==
  /\ DOMAIN seen' = Xids
  /\ \A y \in Xids : y # x => op'[y] = op[y] /\ seen'[y] = seen[y]
  /\ op'[x] = "select" =>
       SelectStarts(x) \/ (\E t : SelectReturns(x, t)) \/ SelectEnds(x) \/ SelectRests(x)

\* What the actions do to the kinds of the statements and to what they returned.
LEMMA SelectSteps ==
  ASSUME TypeOK, Shape, NEW x \in Xids, DOMAIN seen = Xids,
         op[x] = "select" => pc[x] \in {"scan", "idle", "undo"},
         \/ BeginTransaction(x) \/ CommitTransaction(x)
         \/ \E kind \in Kinds : StartStatement(x, kind)
         \/ InsertTuple(x) \/ GetNextTuple(x) \/ GetNoTuple(x) \/ Write(x)
         \/ Rollback(x) \/ UndoRecord(x) \/ UndoFails(x) \/ RollbackEnds(x)
  PROVE  SelectEffect(x)
<1>0. DOMAIN op = Xids /\ DOMAIN pc = Xids /\ DOMAIN snapCid = Xids /\ DOMAIN snapCsn = Xids /\ DOMAIN pos = Xids
  BY Functions DEF TypeOK
<1>1. CASE BeginTransaction(x) /\ op[x] # "select"
  BY <1>1 DEF BeginTransaction, scanVars, SelectEffect
<1>2. CASE BeginTransaction(x) /\ op[x] = "select"
  BY <1>2 DEF BeginTransaction, Goto
<1>3. CASE CommitTransaction(x)
  <2>1. op' = [op EXCEPT ![x] = "none"] /\ seen' = [seen EXCEPT ![x] = {}]
    BY <1>3, Zenon DEF CommitTransaction, Finish
  <2>. QED
    BY <1>0, <2>1 DEF SelectEffect
<1>4. ASSUME NEW kind \in Kinds, StartStatement(x, kind) PROVE SelectEffect(x)
  <2>1. /\ op' = [op EXCEPT ![x] = kind] /\ seen' = [seen EXCEPT ![x] = {}]
        /\ pos' = [pos EXCEPT ![x] = IF pages = <<>> \/ kind = "insert" THEN NoTid ELSE <<1, 1>>]
        /\ pc[x] = "idle" /\ pc' = [pc EXCEPT ![x] = IF kind = "insert" THEN "insert" ELSE "scan"]
    BY <1>4, Zenon DEF StartStatement, Goto
  <2>2. kind = "select" => SelectStarts(x)
    <3>. SUFFICES ASSUME kind = "select" PROVE SelectStarts(x)
      OBVIOUS
    <3>1. pc'[x] = "scan" /\ seen'[x] = {} /\ pos'[x] = IF pages = <<>> THEN NoTid ELSE <<1, 1>>
      BY <1>0, <2>1
    <3>2. Quiet(x)
      BY <1>4, QuietSteps
    <3>3. StoreKept /\ Started(x)
      BY <2>1, <3>1, <3>2 DEF Quiet, Began, Committed, Found, Stopped, Waits, Writing, RollsBack, GivesUp, RolledBack
    <3>. QED
      BY <3>1, <3>3 DEF SelectStarts
  <2>3. op'[x] = kind /\ DOMAIN seen' = Xids /\ \A y \in Xids : y # x => op'[y] = op[y] /\ seen'[y] = seen[y]
    BY <1>0, <2>1
  <2>. QED
    BY <2>2, <2>3 DEF SelectEffect
<1>5. CASE InsertTuple(x)
  <2>1. pc[x] = "insert"
    BY <1>5, Zenon DEF InsertTuple, Goto
  <2>2. op[x] # "select"
    BY <2>1
  <2>3. CASE UNCHANGED scanVars
    BY <2>2, <2>3 DEF scanVars, SelectEffect
  <2>4. CASE EndStatement(x)
    BY <1>0, <2>2, <2>4 DEF EndStatement, SelectEffect
  <2>. QED
    BY <1>5, <2>3, <2>4, Zenon DEF InsertTuple
<1>6. CASE GetNextTuple(x) /\ op[x] # "select"
  <2>1. op' = op /\ seen' = seen
    BY <1>6, Zenon DEF GetNextTuple
  <2>. QED
    BY <1>6, <2>1 DEF SelectEffect
<1>7. CASE GetNextTuple(x) /\ op[x] = "select"
  <2>1. PICK p, i, hits :
          /\ p = pos[x][1] /\ hits = {k \in DOMAIN pages[p] : k >= pos[x][2] /\ Version(x, pages[p][k]) # NoTuple}
          /\ i = Min(hits) /\ hits # {} /\ pc[x] = "scan" /\ pos[x] # NoTid
          /\ pos' = [pos EXCEPT ![x] = <<p, i + 1>>] /\ pc' = [pc EXCEPT ![x] = "scan"]
          /\ seen' = [seen EXCEPT ![x] = @ \cup {Version(x, pages[p][i]).val}] /\ op' = op
    BY <1>7, Zenon DEF GetNextTuple, Goto
  <2>2. p \in DOMAIN pages /\ DOMAIN pages[p] \subseteq Nat /\ \A k \in DOMAIN pages[p] : <<p, k>> \in Places
    BY <2>1, TablePages, SMTT(30) DEF Shape, Places
  <2>3. i \in hits /\ \A k \in hits : i <= k
    BY <2>1, <2>2, LeastNatural
  <2>4. i \in DOMAIN pages[p] /\ i \in Nat
    BY <2>1, <2>2, <2>3
  <2>5. pc'[x] = "scan" /\ pos'[x] = <<p, i + 1>> /\ seen'[x] = seen[x] \cup {Version(x, pages[p][i]).val}
    BY <1>0, <2>1
  <2>6. Quiet(x)
    BY <1>7, QuietSteps
  <2>7. PICK t : Found(x, t) /\ StoreKept
    BY <2>1, <2>5, <2>6 DEF Quiet, Began, Started, Committed, Stopped, Waits, Writing, RollsBack, GivesUp, RolledBack
  <2>8. t \in Places /\ t[1] = p /\ t[2] = i /\ Item(t) = pages[p][i]
    <3>1. t \in Places /\ pos'[x] = <<t[1], t[2] + 1>>
      BY <2>7 DEF Found
    <3>2. t[2] \in Nat
      BY <3>1, Bounds DEF Places, PlacesOf
    <3>3. t[1] = p /\ t[2] = i
      BY <2>4, <2>5, <3>1, <3>2
    <3>. QED
      BY <3>1, <3>3 DEF Item
  <2>9. ASSUME NEW s \in Places, s[1] = pos[x][1], s[2] >= pos[x][2], s[2] < t[2]
        PROVE  Version(x, Item(s)) = NoTuple
    <3>1. s[2] \in DOMAIN pages[p] /\ Item(s) = pages[p][s[2]]
      BY <2>1, <2>9 DEF Places, PlacesOf, Item
    <3>2. s[2] \in Nat
      BY <2>2, <3>1
    <3>3. s[2] \notin hits
      BY <2>3, <2>4, <2>8, <2>9, <3>2
    <3>. QED
      BY <2>1, <2>9, <3>1, <3>3
  <2>10. SelectReturns(x, t)
    BY <1>7, <2>5, <2>7, <2>8, <2>9 DEF SelectReturns
  <2>11. DOMAIN seen' = Xids /\ \A y \in Xids : y # x => op'[y] = op[y] /\ seen'[y] = seen[y]
    BY <1>0, <2>1
  <2>. QED
    BY <2>10, <2>11 DEF SelectEffect
<1>8. CASE GetNoTuple(x)
  <2>1. /\ op' = [op EXCEPT ![x] = IF @ = "select" THEN @ ELSE "none"] /\ seen' = seen
        /\ pc[x] = "scan" /\ pc' = [pc EXCEPT ![x] = "idle"]
        /\ pos[x] # NoTid => \A i \in DOMAIN pages[pos[x][1]] :
                               i >= pos[x][2] => Version(x, pages[pos[x][1]][i]) = NoTuple
    BY <1>8, Zenon DEF GetNoTuple, EndStatement, Goto
  <2>2. op'[x] = "select" => op[x] = "select"
    BY <1>0, <2>1
  <2>3. op[x] = "select" => SelectEnds(x)
    <3>1. pc'[x] = "idle"
      BY <1>0, <2>1
    <3>2. Quiet(x)
      BY <1>8, QuietSteps
    <3>3. StoreKept /\ Stopped(x)
      BY <2>1, <3>1, <3>2 DEF Quiet, Began, Started, Committed, Found, Waits, Writing, RollsBack, GivesUp, RolledBack
    <3>4. ASSUME NEW s \in Places, pos[x] # NoTid, s[1] = pos[x][1], s[2] >= pos[x][2] PROVE Version(x, Item(s)) = NoTuple
      BY <2>1, <3>4 DEF Places, PlacesOf, Item
    <3>. QED
      BY <2>1, <3>1, <3>3, <3>4 DEF SelectEnds, Stopped, TransKept
  <2>4. DOMAIN seen' = Xids /\ \A y \in Xids : y # x => op'[y] = op[y] /\ seen'[y] = seen[y]
    BY <1>0, <2>1
  <2>. QED
    BY <2>2, <2>3, <2>4 DEF SelectEffect
<1>9. CASE Write(x)
  <2>1. pc[x] \in Writing
    BY <1>9, Zenon DEF Write, WriteNow, WriteConflict, RereadXid, WaitAborted, WaitCommitted, WriteRelocked, Goto, Writing
  <2>2. op[x] # "select"
    BY <2>1 DEF Writing
  <2>3. CASE WaitCommitted(x)
    <3>1. EndStatement(x)
      BY <2>3, Zenon DEF WaitCommitted
    <3>. QED
      BY <1>0, <2>2, <3>1 DEF EndStatement, SelectEffect
  <2>4. CASE ChangeTuple(x)
    BY <2>2, <2>4 DEF ChangeTuple, SelectEffect
  <2>5. CASE WriteConflict(x) \/ RereadXid(x) \/ WaitAborted(x)
    BY <2>2, <2>5 DEF WriteConflict, RereadXid, WaitAborted, scanVars, SelectEffect
  <2>. QED
    BY <1>9, <2>3, <2>4, <2>5, Zenon DEF Write, WriteNow, WriteRelocked
<1>10. CASE Rollback(x)
  <2>1. pc'[x] = "undo" /\ pc[x] = "idle"
    BY <1>0, <1>10 DEF Rollback, Goto
  <2>. QED
    BY <1>10, <2>1 DEF Rollback, scanVars, storeVars, transVars, SelectEffect, SelectRests
<1>11. CASE UndoRecord(x)
  BY <1>11 DEF UndoRecord, scanVars, transVars, SelectEffect, SelectRests
<1>12. CASE UndoFails(x)
  <2>1. pc'[x] = "idle" /\ pc[x] = "undo"
    BY <1>0, <1>12 DEF UndoFails, Goto
  <2>. QED
    BY <1>12, <2>1 DEF UndoFails, scanVars, storeVars, transVars, SelectEffect, SelectRests
<1>13. CASE RollbackEnds(x)
  <2>1. op' = [op EXCEPT ![x] = "none"] /\ seen' = [seen EXCEPT ![x] = {}]
    BY <1>13, Zenon DEF RollbackEnds, Finish
  <2>. QED
    BY <1>0, <2>1 DEF SelectEffect
<1>. QED
  BY <1>1, <1>2, <1>3, <1>4, <1>5, <1>6, <1>7, <1>8, <1>9, <1>10, <1>11, <1>12, <1>13

\* A change belongs to a statement or not, as long as its snapshot is the same.
LEMMA BelongsSame ==
  ASSUME Base, NEW x \in Xids, Step(x), NEW y \in Xids, snapCsn'[y] = snapCsn[y], snapCid'[y] = snapCid[y],
         NEW u \in Usns
  PROVE  Belongs(y, u)' <=> Belongs(y, u)
<1>1. PICK z : z = undo[u].xid /\ z \in Xids
  BY BaseParts
<1>2. undo'[u].xid = z
  BY <1>1, Kept
<1>3. Visible(status[z], y)' <=> Visible(status[z], y)
  BY <1>1, BaseParts, VisibleSame
<1>. QED
  BY <1>1, <1>2, <1>3 DEF Belongs

\* A record belongs to no other transaction while its own is in progress.
LEMMA NewNotBelongs ==
  ASSUME Base, NEW x \in Xids, Step(x), NEW y \in Xids, y # x, NEW u \in Usns', u \notin Usns
  PROVE  ~Belongs(y, u)'
<1>1. undo'[u].xid = x /\ pc[x] \in Writing \cup {"insert"} /\ status'[x] = status[x]
  <2>1. ~Quiet(x)
    BY QuietTable
  <2>2. ASSUME NEW v, NEW o, NEW n, UndidAt(x, v, o, n) PROVE FALSE
    BY <2>2, UndoTable
  <2>3. ASSUME NEW v, NEW n, InsertedAt(x, v, n)
        PROVE  undo'[u].xid = x /\ pc[x] = "insert" /\ status'[x] = status[x]
    BY <2>3, InsertTable DEF InsertedAt, Inserted, TransKept
  <2>4. ASSUME NEW v, NEW c, NEW n, WroteAt(x, v, c, n)
        PROVE  undo'[u].xid = x /\ pc[x] \in Writing /\ status'[x] = status[x]
    BY <2>4, WriteTable DEF WroteAt, Wrote, TransKept
  <2>. QED
    BY <2>1, <2>2, <2>3, <2>4 DEF Step
<1>2. ~IsNormal(status'[x])
  BY <1>1, InProgress DEF Writing
<1>. QED
  BY <1>1, <1>2 DEF Belongs, Visible

\* What a statement must see stays the same.
LEMMA ExpectedSame ==
  ASSUME Base, NEW x \in Xids, Step(x), NEW y \in Xids, snapCsn'[y] = snapCsn[y], snapCid'[y] = snapCid[y],
         y # x \/ Usns' = Usns
  PROVE  \A u \in Usns' : /\ Belongs(y, u)' <=> u \in Usns /\ Belongs(y, u)
                          /\ u \in Expected(y)' <=> u \in Usns /\ u \in Expected(y)
<1>1. Usns \subseteq Usns' /\ \A v \in Usns : undo'[v] = undo[v] /\ rowOf'[v] = rowOf[v]
  BY Kept
<1>2. \A u \in Usns' : Belongs(y, u)' <=> u \in Usns /\ Belongs(y, u)
  BY BelongsSame, NewNotBelongs
<1>3. ASSUME NEW u \in Usns' PROVE u \in Expected(y)' <=> u \in Usns /\ u \in Expected(y)
  <2>1. u \in Expected(y)' <=>
          /\ Belongs(y, u)' /\ undo'[u].type # "Insert"
          /\ \A v \in Usns' : rowOf'[v] = rowOf'[u] /\ Belongs(y, v)' => v <= u
    BY DEF Expected
  <2>. QED
    BY <1>1, <1>2, <2>1 DEF Expected
<1>. QED
  BY <1>2, <1>3

\* A row that is whole was so before.
LEMMA WholeBefore ==
  ASSUME Base, NEW x \in Xids, Step(x), MovedRows \subseteq MovedRows', NEW r, Whole(r)'
  PROVE  Whole(r)
<1>1. Intact(r)'
  BY DEF Whole, Intact
<1>2. Intact(r)
  BY <1>1, IntactBefore
<1>. QED
  BY <1>2 DEF Whole, Intact

\* What the scan finds at the places of a whole row.
LEMMA ExpectedAt ==
  ASSUME Base, NEW x, NEW t, NEW w, Exact(x, t, w)
  PROVE  /\ \A u \in Expected(x) : rowOf[u] = Row(t) => w # NoTuple /\ w.val = u
         /\ w # NoTuple => w.val \in Expected(x) /\ undo[w.val].old = t
<1>1. ASSUME NEW u \in Expected(x), rowOf[u] = Row(t) PROVE w # NoTuple /\ w.val = u
  <2>1. u \in Belonging(x, t) /\ undo[u].type # "Insert" /\ \A v \in Belonging(x, t) : v <= u
    BY <1>1 DEF Expected, Belonging
  <2>2. w # NoTuple
    BY <2>1 DEF Exact
  <2>3. w.val \in Belonging(x, t) /\ u <= w.val /\ w.val <= u
    BY <2>1, <2>2 DEF Exact
  <2>4. u \in Nat /\ w.val \in Nat
    BY <2>1, <2>3, BaseParts DEF Belonging
  <2>. QED
    BY <2>2, <2>3, <2>4
<1>2. w # NoTuple => w.val \in Expected(x) /\ undo[w.val].old = t
  BY DEF Exact, Expected, Belonging
<1>. QED
  BY <1>1, <1>2

\* What a SELECT returned and what it must return stay the same outside of its scan.
LEMMA SelectKept ==
  ASSUME Base, NEW x \in Xids, Step(x), MovedRows \subseteq MovedRows', NEW y \in Xids, SelectOf(y),
         snapCsn'[y] = snapCsn[y], snapCid'[y] = snapCid[y], seen'[y] = seen[y],
         \/ y # x
         \/ Usns' = Usns /\ pc[y] # "scan" /\ pc'[y] \in {"idle", "undo"}
  PROVE  SelectOf(y)'
<1>1. Usns \subseteq Usns' /\ \A v \in Usns : undo'[v] = undo[v] /\ rowOf'[v] = rowOf[v]
  BY Kept
<1>2. \A u \in Usns' : /\ Belongs(y, u)' <=> u \in Usns /\ Belongs(y, u)
                       /\ u \in Expected(y)' <=> u \in Usns /\ u \in Expected(y)
  BY ExpectedSame
<1>3. \/ pc'[y] = pc[y] /\ pos'[y] = pos[y]
      \/ pc[y] # "scan" /\ pc'[y] \in {"idle", "undo"}
  BY Kept DEF OthersKept
<1>4. pc'[y] \in {"scan", "idle", "undo"} /\ seen'[y] \subseteq Usns'
  BY <1>1, <1>3 DEF SelectOf
<1>5. ASSUME pc'[y] = "scan" PROVE IF pos'[y] = NoTid THEN \A u \in Usns' : ~Belongs(y, u)' ELSE pos'[y][1] = 1
  BY <1>2, <1>3, <1>5 DEF SelectOf
<1>6. ASSUME NEW u \in Usns', Whole(rowOf[u])'
      PROVE  u \in seen'[y] <=> /\ u \in Expected(y)' /\ undo'[u].old[1] = 1
                                /\ pc'[y] = "scan" => undo'[u].old[2] < pos'[y][2]
  <2>1. CASE u \notin Usns
    BY <1>2, <1>6, <2>1 DEF SelectOf
  <2>2. CASE u \in Usns
    <3>1. Whole(rowOf[u])
      BY <1>1, <1>6, <2>2, WholeBefore
    <3>. QED
      BY <1>1, <1>2, <1>3, <2>2, <3>1 DEF SelectOf
  <2>. QED
    BY <2>1, <2>2
<1>. QED
  BY <1>4, <1>5, <1>6, Zenon DEF SelectOf

\* A SELECT that starts has passed nothing.
LEMMA SelectBegins ==
  ASSUME Base, NEW x \in Xids, Step(x), SelectStarts(x)
  PROVE  SelectOf(x)'
<1>1. /\ Usns' = Usns /\ undo' = undo /\ pages' = pages
      /\ pc'[x] = "scan" /\ seen'[x] = {} /\ pos'[x] = IF pages = <<>> THEN NoTid ELSE <<1, 1>>
  BY DEF SelectStarts, StoreKept, Usns
<1>2. CASE pages = <<>>
  <2>1. Places = {}
    BY <1>2 DEF Places, PlacesOf
  <2>2. Usns = {}
    BY <2>1, Kept
  <2>. QED
    BY <1>1, <1>2, <2>2 DEF SelectOf
<1>3. CASE pages # <<>>
  <2>1. pos'[x] = <<1, 1>> /\ pos'[x] # NoTid
    BY <1>1, <1>3 DEF NoTid
  <2>2. ASSUME NEW u \in Usns PROVE ~(undo[u].old[2] < 1)
    <3>1. undo[u].old \in Places
      BY Kept
    <3>2. undo[u].old[2] \in 1..RowsPerPage
      BY <3>1 DEF Places, PlacesOf
    <3>. QED
      BY <3>2, Bounds
  <2>. QED
    BY <1>1, <2>1, <2>2 DEF SelectOf
<1>. QED
  BY <1>2, <1>3

\* A place ahead of the scan shows what is expected of it.
LEMMA AheadShown ==
  ASSUME Base, KeepsCommitted, UndoneGone, Restored, LastOnTop, Named, MovedDead,
         NEW x \in Xids, pc[x] = "scan", NEW u \in Expected(x), Whole(rowOf[u])
  PROVE  /\ undo[u].old \in Places /\ Version(x, Item(undo[u].old)) # NoTuple
         /\ Version(x, Item(undo[u].old)).val = u
         /\ undo[u].old = <<undo[u].old[1], undo[u].old[2]>> /\ undo[u].old[2] \in Nat
<1>1. PICK t : t = undo[u].old
  OBVIOUS
<1>2. u \in Usns
  BY DEF Expected
<1>3. t \in Places /\ rowOf[u] = Row(t)
  BY <1>1, <1>2, BaseParts DEF Records, RecordOK, Spots
<1>4. Exact(x, t, Version(x, Item(t)))
  BY <1>3, VersionExact
<1>5. t = <<t[1], t[2]>> /\ t[2] \in Nat
  BY <1>3, Bounds DEF Places, PlacesOf
<1>. QED
  BY <1>1, <1>3, <1>4, <1>5, ExpectedAt

\* A SELECT returns the next version of the page that it must see.
LEMMA SelectMoves ==
  ASSUME Base, KeepsCommitted, UndoneGone, Restored, LastOnTop, Named, MovedDead,
         NEW x \in Xids, Step(x), MovedRows \subseteq MovedRows', SelectOf(x), NEW t, SelectReturns(x, t)
  PROVE  SelectOf(x)'
<1>1. PICK V : V = Version(x, Item(t))
  OBVIOUS
<1>2. /\ Usns' = Usns /\ undo' = undo /\ rowOf' = rowOf /\ pc[x] = "scan" /\ pc'[x] = "scan"
      /\ seen'[x] = seen[x] \cup {V.val} /\ t \in Places /\ V # NoTuple
      /\ pos[x] # NoTid /\ t[1] = pos[x][1] /\ t[2] >= pos[x][2] /\ pos'[x] = <<t[1], t[2] + 1>>
      /\ snapCid'[x] = snapCid[x] /\ snapCsn'[x] = snapCsn[x]
  BY <1>1 DEF SelectReturns, StoreKept, Found, TransKept, Usns
<1>3. /\ pos[x][1] = 1 /\ seen[x] \subseteq Usns
      /\ \A u \in Usns : Whole(rowOf[u]) =>
           (u \in seen[x] <=> u \in Expected(x) /\ undo[u].old[1] = 1 /\ undo[u].old[2] < pos[x][2])
  BY <1>2 DEF SelectOf
<1>4. t = <<t[1], t[2]>> /\ t[2] \in Nat /\ pos[x][2] \in Nat
  <2>1. t = <<t[1], t[2]>> /\ t[2] \in Nat
    BY <1>2, Bounds DEF Places, PlacesOf
  <2>. QED
    BY <2>1, BaseParts, LocalValuesAt
<1>5. V.val \in Usns /\ rowOf[V.val] = Row(t)
  <2>1. V = Item(t).tup \/ \E u \in Usns : V = undo[u].tup /\ undo[u].type # "Delete" /\ undo[u].old = t
    BY <1>1, <1>2, BaseParts, VersionFound
  <2>2. TupleAt(t, V)
    BY <1>2, <2>1, BaseParts DEF Placed, Records, RecordOK
  <2>. QED
    BY <2>2 DEF TupleAt
<1>6. \A u \in Usns : u \in Expected(x)' <=> u \in Expected(x)
  BY <1>2, ExpectedSame
<1>7. pos'[x] # NoTid /\ pos'[x][1] = 1 /\ pos'[x][2] = t[2] + 1
  BY <1>2, <1>3, <1>4 DEF NoTid
<1>8. ASSUME NEW u \in Usns, Whole(rowOf[u])'
      PROVE  u \in seen'[x] <=> u \in Expected(x) /\ undo[u].old[1] = 1 /\ undo[u].old[2] < t[2] + 1
  <2>1. Whole(rowOf[u])
    BY <1>2, <1>8, WholeBefore
  <2>2. u \in seen[x] <=> u \in Expected(x) /\ undo[u].old[1] = 1 /\ undo[u].old[2] < pos[x][2]
    BY <1>3, <2>1
  <2>3. PICK s : s = undo[u].old
    OBVIOUS
  <2>4. s \in Places /\ s = <<s[1], s[2]>> /\ s[2] \in Nat
    <3>1. s \in Places
      BY <2>3, Kept
    <3>. QED
      BY <3>1, Bounds DEF Places, PlacesOf
  <2>5. CASE u = V.val
    <3>1. Exact(x, t, V)
      BY <1>1, <1>2, <1>5, <2>1, <2>5, VersionExact
    <3>2. u \in Expected(x) /\ s = t
      BY <1>2, <2>3, <2>5, <3>1, ExpectedAt
    <3>. QED
      BY <1>2, <1>3, <1>4, <2>3, <2>5, <3>2
  <2>6. CASE u # V.val
    <3>1. ASSUME u \in Expected(x), s[1] = 1, s[2] < t[2] + 1, ~(s[2] < pos[x][2]) PROVE FALSE
      <4>1. Version(x, Item(s)) # NoTuple /\ Version(x, Item(s)).val = u
        BY <1>2, <2>1, <2>3, <3>1, AheadShown
      <4>2. s[2] < t[2] => Version(x, Item(s)) = NoTuple
        BY <1>2, <1>3, <1>4, <2>4, <3>1 DEF SelectReturns
      <4>3. s[2] = t[2]
        BY <1>4, <2>4, <3>1, <4>1, <4>2
      <4>4. s = t
        BY <1>2, <1>3, <1>4, <2>4, <3>1, <4>3
      <4>. QED
        BY <1>1, <2>6, <4>1, <4>4
    <3>2. s[2] < pos[x][2] => s[2] < t[2] + 1
      BY <1>2, <1>4, <2>4
    <3>. QED
      BY <1>2, <2>2, <2>3, <2>6, <3>1, <3>2
  <2>. QED
    BY <2>5, <2>6
<1>. QED
  BY <1>2, <1>3, <1>5, <1>6, <1>7, <1>8, Zenon DEF SelectOf

\* A SELECT ends when the page has nothing more that it must see.
LEMMA SelectStops ==
  ASSUME Base, KeepsCommitted, UndoneGone, Restored, LastOnTop, Named, MovedDead,
         NEW x \in Xids, Step(x), MovedRows \subseteq MovedRows', SelectOf(x), SelectEnds(x)
  PROVE  SelectOf(x)'
<1>1. /\ Usns' = Usns /\ undo' = undo /\ rowOf' = rowOf /\ pc[x] = "scan" /\ pc'[x] = "idle"
      /\ seen'[x] = seen[x] /\ snapCid'[x] = snapCid[x] /\ snapCsn'[x] = snapCsn[x]
  BY DEF SelectEnds, StoreKept, Usns
<1>2. /\ seen[x] \subseteq Usns /\ IF pos[x] = NoTid THEN \A u \in Usns : ~Belongs(x, u) ELSE pos[x][1] = 1
      /\ \A u \in Usns : Whole(rowOf[u]) =>
           (u \in seen[x] <=> u \in Expected(x) /\ undo[u].old[1] = 1 /\ undo[u].old[2] < pos[x][2])
  BY <1>1 DEF SelectOf
<1>3. \A u \in Usns : u \in Expected(x)' <=> u \in Expected(x)
  BY <1>1, ExpectedSame
<1>4. ASSUME NEW u \in Usns, Whole(rowOf[u])'
      PROVE  u \in seen[x] <=> u \in Expected(x) /\ undo[u].old[1] = 1
  <2>1. Whole(rowOf[u])
    BY <1>1, <1>4, WholeBefore
  <2>2. ASSUME u \in Expected(x), undo[u].old[1] = 1 PROVE undo[u].old[2] < pos[x][2]
    <3>1. pos[x] # NoTid /\ pos[x][1] = 1
      BY <1>2, <2>2 DEF Expected
    <3>2. /\ undo[u].old \in Places /\ Version(x, Item(undo[u].old)) # NoTuple /\ undo[u].old[2] \in Nat
      BY <1>1, <2>1, <2>2, AheadShown
    <3>3. ~(undo[u].old[2] >= pos[x][2])
      BY <2>2, <3>1, <3>2 DEF SelectEnds
    <3>4. pos[x][2] \in Nat
      BY BaseParts, LocalValuesAt
    <3>. QED
      BY <3>2, <3>3, <3>4
  <2>. QED
    BY <1>2, <2>1, <2>2
<1>. QED
  BY <1>1, <1>2, <1>3, <1>4, Zenon DEF SelectOf

\* The steps of a SELECT and of the transactions beside it.
LEMMA SelectsStep ==
  ASSUME HeapInv, Named, MovedDead, Selects, NEW x \in Xids, Step(x), SelectEffect(x)
  PROVE  Selects'
<1>1. Base /\ KeepsCommitted /\ UndoneGone /\ Restored /\ LastOnTop
  BY DEF HeapInv, Clean
<1>2. MovedRows \subseteq MovedRows'
  BY <1>1, MovedDeadStep
<1>3. ASSUME NEW y \in Xids, op'[y] = "select" PROVE SelectOf(y)'
  <2>1. CASE y # x
    <3>1. op[y] = "select" /\ seen'[y] = seen[y]
      BY <1>3, <2>1 DEF SelectEffect
    <3>2. snapCsn'[y] = snapCsn[y] /\ snapCid'[y] = snapCid[y]
      BY <1>1, <2>1, Kept DEF OthersKept
    <3>. QED
      BY <1>1, <1>2, <2>1, <3>1, <3>2, SelectKept DEF Selects
  <2>2. CASE y = x /\ SelectStarts(x)
    BY <1>1, <2>2, SelectBegins
  <2>3. ASSUME NEW t, y = x, SelectReturns(x, t) PROVE SelectOf(y)'
    <3>1. SelectOf(x)
      BY <2>3 DEF SelectReturns, Selects
    <3>. QED
      BY <1>1, <1>2, <2>3, <3>1, SelectMoves
  <2>4. CASE y = x /\ SelectEnds(x)
    <3>1. SelectOf(x)
      BY <2>4 DEF SelectEnds, Selects
    <3>. QED
      BY <1>1, <1>2, <2>4, <3>1, SelectStops
  <2>5. CASE y = x /\ SelectRests(x)
    <3>1. SelectOf(x) /\ Usns' = Usns
      BY <2>5 DEF SelectRests, Selects, Usns
    <3>2. /\ snapCsn'[x] = snapCsn[x] /\ snapCid'[x] = snapCid[x] /\ seen'[x] = seen[x]
          /\ pc[x] # "scan" /\ pc'[x] \in {"idle", "undo"}
      BY <2>5 DEF SelectRests
    <3>. QED
      BY <1>1, <1>2, <2>5, <3>1, <3>2, SelectKept
  <2>. QED
    BY <1>3, <2>1, <2>2, <2>3, <2>4, <2>5 DEF SelectEffect
<1>. QED
  BY <1>3 DEF Selects, SelectEffect

\* The inductive invariant of the SELECTs, beside that of the table.
ReadInv == Named /\ MovedDead /\ Selects

\* At the start no statement has run.
LEMMA ReadInit == Init => ReadInv
<1>. SUFFICES ASSUME Init PROVE ReadInv
  OBVIOUS
<1>1. /\ pages = <<>> /\ undo = <<>> /\ seen = [x \in Xids |-> {}]
      /\ op = [x \in Xids |-> "none"] /\ pc = [x \in Xids |-> "none"]
  BY DEF Init
<1>2. Places = {} /\ Usns = {}
  BY <1>1 DEF Places, PlacesOf, Usns
<1>. QED
  BY <1>1, <1>2 DEF ReadInv, Named, MovedDead, Selects, Writing

\* Nothing changes for the SELECTs in a step that changes nothing.
LEMMA ReadStutter ==
  ASSUME ReadInv, UNCHANGED vars
  PROVE  ReadInv'
<1>. USE Stutter
<1>1. seen' = seen
  BY DEF vars, scanVars
<1>2. \A tup : NamedBy(tup)' <=> NamedBy(tup)
  BY DEF NamedBy, Maker, InvalidUsn
<1>3. MovedRows' = MovedRows /\ HalfUndone' = HalfUndone
  BY DEF MovedRows, HalfUndone
<1>4. \A r : Whole(r)' <=> Whole(r)
  BY <1>3 DEF Whole
<1>5. \A y, u : Belongs(y, u)' <=> Belongs(y, u)
  BY DEF Belongs, Visible
<1>6. \A y : Expected(y)' = Expected(y)
  BY <1>5 DEF Expected
<1>7. Named' /\ MovedDead'
  BY <1>2, <1>3 DEF ReadInv, Named, MovedDead
<1>8. \A y : SelectOf(y)' <=> SelectOf(y)
  BY <1>1, <1>4, <1>5, <1>6 DEF SelectOf
<1>9. Selects'
  BY <1>1, <1>8 DEF ReadInv, Selects
<1>. QED
  BY <1>7, <1>9 DEF ReadInv

\* Every action keeps it.
LEMMA ReadNext ==
  ASSUME HeapInv, ReadInv, Next
  PROVE  ReadInv'
<1>1. Base /\ Named /\ MovedDead /\ Selects
  BY DEF HeapInv, ReadInv
<1>2. PICK x \in Xids :
        \/ BeginTransaction(x) \/ CommitTransaction(x)
        \/ \E kind \in Kinds : StartStatement(x, kind)
        \/ InsertTuple(x) \/ GetNextTuple(x) \/ GetNoTuple(x) \/ Write(x)
        \/ Rollback(x) \/ UndoRecord(x) \/ UndoFails(x) \/ RollbackEnds(x)
  BY DEF Next
<1>3. TypeOK /\ Shape /\ Logs /\ Placed /\ Records /\ Scanned
  BY <1>1, BaseParts
<1>4. Step(x)
  BY <1>2, <1>3, StepOf
<1>5. DOMAIN seen = Xids /\ (op[x] = "select" => pc[x] \in {"scan", "idle", "undo"})
  BY <1>1 DEF Selects, SelectOf
<1>6. SelectEffect(x)
  BY <1>2, <1>3, <1>5, SelectSteps
<1>7. Named' /\ MovedDead' /\ Selects'
  BY <1>1, <1>4, <1>6, NamedStep, MovedDeadStep, SelectsStep
<1>. QED
  BY <1>7 DEF ReadInv

\* The tuples are named by the records that made them, and the SELECTs have returned what
\* they must so far.
THEOREM HeapReads == Spec => []ReadInv
<1>1. HeapInv /\ ReadInv /\ [Next]_vars => ReadInv'
  BY ReadNext, ReadStutter
<1>. QED
  BY ReadInit, HeapInvariant, <1>1, PTL DEF Spec

\* Of the rows that never moved, that no waiter overwrote blindly and that no failed
\* ROLLBACK left half undone, a SELECT returns versions of its snapshot only, and all of
\* those on the page that its scan begins with (GetNextTuple).
THEOREM HeapSelects == Spec => []SelectExact
<1>1. ASSUME ReadInv PROVE SelectExact
  <2>. SUFFICES ASSUME NEW x \in Xids, Selected(x)
                PROVE  /\ seen[x] \cap Followed \subseteq Expected(x)
                       /\ {u \in Expected(x) \cap Followed : undo[u].old[1] = 1} \subseteq seen[x]
    BY DEF SelectExact
  <2>1. SelectOf(x)
    BY <1>1 DEF ReadInv, Selects, Selected
  <2>2. \A u \in Usns : Whole(rowOf[u]) => (u \in seen[x] <=> u \in Expected(x) /\ undo[u].old[1] = 1)
    BY <2>1 DEF SelectOf, Selected
  <2>. QED
    BY <2>2 DEF Whole, Followed
<1>. QED
  BY <1>1, HeapReads, PTL
===============================================================================
