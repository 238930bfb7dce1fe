------------------------------- MODULE HeapPage -------------------------------
(***************************************************************************)
(* The space of heap pages: the line pointers that grow up from the page   *)
(* header (lower), the tuples that grow down from the end (upper), and the *)
(* search for a page with room by INSERT and by an UPDATE whose new row is *)
(* longer, with the page latches and the extension of the table's file.    *)
(*                                                                         *)
(* A page access under the page's latch is one step; xlock holds only the  *)
(* latches that stay taken between two steps. Contents of rows are in Heap.*)
(*                                                                         *)
(* Rows have any size, but the room that INSERT asks for leaves the padding*)
(* of the row out. Where only the padding was lacking, the row lands on the*)
(* line pointers: from there on bytes of rows are read as line pointers,   *)
(* which the model does not represent, and behaviours end (overrun).       *)
(***************************************************************************)
EXTENDS Integers, Sequences

CONSTANTS
  Workers, NoWorker,
  PageBytes,     \* Config::PageSize
  HeaderBytes,   \* SizeOfHeapPageHeader
  ItemBytes,     \* sizeof(ItemId)
  Align,         \* the alignment of MaxAlign
  Sizes,         \* the sizes of serialized tuples
  MaxPages,      \* bound: pages of the table
  Moves          \* whether rows are updated to longer ones

ASSUME SpaceAssumption ==
  /\ NoWorker \notin Workers /\ Moves \in BOOLEAN
  /\ {PageBytes, HeaderBytes, ItemBytes, Align} \subseteq Nat \ {0}
  /\ Sizes \subseteq Nat \ {0} /\ MaxPages \in Nat
  /\ HeaderBytes <= PageBytes

VARIABLES
  pages,    \* sequence of [lower, upper, items]; an item is [off, len, moved, dead]
  xlock,    \* the worker that keeps a page's latch, or NoWorker
  pc,
  size,     \* the size of the row to be placed
  old,      \* the page of the row that is moved, 0 for an insert
  count,    \* GetPagesCount
  at,       \* the page looked at
  overrun   \* an insert overran the line pointers of its page

locals == <<size, old, count, at>>
vars == <<pages, xlock, overrun, pc, locals>>

\* RelFile::Extend and the memset: a page of zeroes
NewPage == [lower |-> 0, upper |-> 0, items |-> <<>>]
IsNew(pg) == pg.lower = 0

\* HeapPage::Init
InitialPage == [lower |-> HeaderBytes, upper |-> PageBytes, items |-> <<>>]

\* Any number that no request exceeds: a negative difference as a size_t.
Huge == 2 * PageBytes

\* GetFreeSpace
FreeSpace(pg) == IF pg.lower <= pg.upper THEN pg.upper - pg.lower ELSE Huge

MaxAlign(n) == ((n + Align - 1) \div Align) * Align

\* What callers ask for: the tuple and its ItemId.
Required(n) == n + ItemBytes

\* That room is there, but not the padding that MaxAlign adds to the tuple.
Overruns(pg, n) == Required(n) <= FreeSpace(pg) /\ FreeSpace(pg) < Required(MaxAlign(n))

Goto(w, from, to) == pc[w] = from /\ pc' = [pc EXCEPT ![w] = to]
Unlocked(p) == xlock[p] = NoWorker
Row(off, len, moved) == [off |-> off, len |-> len, moved |-> moved, dead |-> FALSE]

Init ==
  /\ pages = <<>>
  /\ xlock = [p \in 1..MaxPages |-> NoWorker]
  /\ pc = [w \in Workers |-> "idle"]
  /\ size = [w \in Workers |-> 0] /\ old = [w \in Workers |-> 0]
  /\ count = [w \in Workers |-> 0] /\ at = [w \in Workers |-> 0]
  /\ overrun = FALSE

-----------------------------------------------------------------------------
(* searchPageFreeSpace                                                      *)

\* The search begins with the file's size.
StartSearch(w) ==
  /\ count' = [count EXCEPT ![w] = Len(pages)]
  /\ at' = [at EXCEPT ![w] = 1]

\* One page under its latch in S mode, released on the way out.
ExaminePage(w) ==
  /\ pc[w] = "search" /\ at[w] <= count[w] /\ Unlocked(at[w])
  /\ \/ /\ FreeSpace(pages[at[w]]) < Required(size[w])
        /\ at' = [at EXCEPT ![w] = @ + 1]
        /\ UNCHANGED pc
     \/ /\ FreeSpace(pages[at[w]]) >= Required(size[w])
        /\ Goto(w, "search", "place")
        /\ UNCHANGED at
  /\ UNCHANGED <<pages, xlock, overrun, size, old, count>>

\* ExtendRelation: the number of the new page is the number of pages...
ExtendCount(w) ==
  /\ Goto(w, "search", "extend") /\ at[w] > count[w]
  /\ Len(pages) < MaxPages
  /\ at' = [at EXCEPT ![w] = Len(pages) + 1]
  /\ UNCHANGED <<pages, xlock, overrun, size, old, count>>

\* ... which is then written with zeroes, in the file and in its buffer, under
\* the buffer's latch. An entry that exists already is used again.
ExtendZero(w) ==
  /\ Goto(w, "extend", "init") /\ Unlocked(at[w])
  /\ pages' = IF at[w] > Len(pages) THEN Append(pages, NewPage) ELSE [pages EXCEPT ![at[w]] = NewPage]
  /\ UNCHANGED <<xlock, overrun, locals>>

\* Mutant: a page that is in use is initialized again.
InitAlways(w) ==
  /\ Goto(w, "init", "check") /\ Unlocked(at[w])
  /\ pages' = [pages EXCEPT ![at[w]].lower = HeaderBytes, ![at[w]].upper = PageBytes]
  /\ UNCHANGED <<xlock, overrun, locals>>

\* "Someone can concurrently initialize this page" (HeapTable.cpp:100)
InitPage(w) ==
  /\ Goto(w, "init", "check") /\ Unlocked(at[w])
  /\ pages' = [pages EXCEPT ![at[w]] = IF IsNew(@) THEN InitialPage ELSE @]
  /\ UNCHANGED <<xlock, overrun, locals>>

\* The latch is taken again in S mode, for an assertion.
CheckPage(w) ==
  /\ Goto(w, "check", "place") /\ Unlocked(at[w])
  /\ UNCHANGED <<pages, xlock, overrun, locals>>

-----------------------------------------------------------------------------
(* INSERT                                                                   *)

InsertStart(w) ==
  /\ Goto(w, "idle", "search")
  /\ \E n \in Sizes : size' = [size EXCEPT ![w] = n]
  /\ StartSearch(w)
  /\ UNCHANGED <<pages, xlock, overrun, old>>

\* Mutant: upper is not lowered.
WithInsertedLoose(pg, n) ==
  [lower |-> pg.lower + ItemBytes,
   upper |-> pg.upper,
   items |-> Append(pg.items, Row(pg.upper - MaxAlign(n), n, FALSE))]

\* The page with the row: the tuple aligned below upper, its ItemId at lower.
WithInserted(pg, n) ==
  [lower |-> pg.lower + ItemBytes,
   upper |-> pg.upper - MaxAlign(n),
   items |-> Append(pg.items, Row(pg.upper - MaxAlign(n), n, FALSE))]

\* Mutant: the room is not checked again under the exclusive latch.
InsertUnchecked(w) ==
  /\ pc[w] = "place" /\ old[w] = 0 /\ Unlocked(at[w])
  /\ Goto(w, "place", "idle")
  /\ pages' = [pages EXCEPT ![at[w]] = WithInserted(@, size[w])]
  /\ overrun' = Overruns(pages[at[w]], size[w])
  /\ size' = [size EXCEPT ![w] = 0] /\ count' = [count EXCEPT ![w] = 0] /\ at' = [at EXCEPT ![w] = 0]
  /\ UNCHANGED <<xlock, old>>

\* InsertTuple: "Someone can occupy space since last lock release".
InsertRow(w) ==
  LET pg == pages[at[w]] IN
  /\ pc[w] = "place" /\ old[w] = 0 /\ Unlocked(at[w])
  /\ \/ /\ FreeSpace(pg) < Required(size[w])
        /\ Goto(w, "place", "search") /\ StartSearch(w)
        /\ UNCHANGED <<pages, overrun, size>>
     \/ /\ FreeSpace(pg) >= Required(size[w])
        /\ Goto(w, "place", "idle")
        /\ pages' = [pages EXCEPT ![at[w]] = WithInserted(pg, size[w])]
        /\ overrun' = Overruns(pg, size[w])
        /\ size' = [size EXCEPT ![w] = 0] /\ count' = [count EXCEPT ![w] = 0]
        /\ at' = [at EXCEPT ![w] = 0]
  /\ UNCHANGED <<xlock, old>>

-----------------------------------------------------------------------------
(* UPDATE to a longer row                                                   *)

\* The page with the row: the tuple ends at upper, which stays where it is.
WithMoved(pg, n) ==
  [lower |-> pg.lower + ItemBytes,
   upper |-> pg.upper,
   items |-> Append(pg.items, Row(pg.upper - n, n, TRUE))]

\* Mutant: the room for the ItemId is forgotten.
RequiredToMoveShort(n) == n

RequiredToMove(n) == n + ItemBytes

\* UpdateTuple has latched the row's page. The row goes to the same page if
\* there is room; otherwise a page is searched with the latch held.
UpdateLonger(w) ==
  \E p \in DOMAIN pages : \E n \in Sizes :
    /\ Moves /\ pc[w] = "idle" /\ Unlocked(p)
    /\ \E i \in DOMAIN pages[p].items : ~pages[p].items[i].dead /\ pages[p].items[i].len < n
    /\ \/ /\ RequiredToMove(n) <= FreeSpace(pages[p])
          /\ pages' = [pages EXCEPT ![p] = WithMoved(@, n)]
          /\ UNCHANGED <<xlock, pc, locals>>
       \/ /\ RequiredToMove(n) > FreeSpace(pages[p])
          /\ Goto(w, "idle", "search") /\ StartSearch(w)
          /\ size' = [size EXCEPT ![w] = n] /\ old' = [old EXCEPT ![w] = p]
          /\ xlock' = [xlock EXCEPT ![p] = w]
          /\ UNCHANGED pages
    /\ UNCHANGED overrun

\* The page that was found is latched too: if its room is gone by now, the next
\* search begins with both latches held, and the assignment of newLock gives this
\* one back once it has the next (BufferLock.hpp:35-49).
MoveRow(w) ==
  LET pg == pages[at[w]] IN
  /\ pc[w] = "place" /\ old[w] # 0 /\ Unlocked(at[w])
  /\ \/ /\ RequiredToMove(size[w]) <= FreeSpace(pg)
        /\ Goto(w, "place", "idle")
        /\ pages' = [pages EXCEPT ![at[w]] = WithMoved(pg, size[w])]
        /\ xlock' = [p \in 1..MaxPages |-> IF xlock[p] = w THEN NoWorker ELSE xlock[p]]
        /\ size' = [size EXCEPT ![w] = 0] /\ count' = [count EXCEPT ![w] = 0]
        /\ at' = [at EXCEPT ![w] = 0] /\ old' = [old EXCEPT ![w] = 0]
     \/ /\ RequiredToMove(size[w]) > FreeSpace(pg)
        /\ Goto(w, "place", "search") /\ StartSearch(w)
        /\ xlock' = [p \in 1..MaxPages |->
                      IF p = at[w] THEN w
                      ELSE IF xlock[p] = w /\ p # old[w] THEN NoWorker ELSE xlock[p]]
        /\ UNCHANGED <<pages, size, old>>
  /\ UNCHANGED overrun

\* ROLLBACK of a move: ItemId::setDead.
UndoMove(p) ==
  /\ Unlocked(p)
  /\ \E i \in DOMAIN pages[p].items :
       /\ pages[p].items[i].moved /\ ~pages[p].items[i].dead
       /\ pages' = [pages EXCEPT ![p].items[i] = [off |-> 0, len |-> 0, moved |-> TRUE, dead |-> TRUE]]
  /\ UNCHANGED <<xlock, overrun, pc, locals>>

-----------------------------------------------------------------------------

\* The steps of a worker that is placing a row.
Search(w) ==
  \/ ExaminePage(w) \/ ExtendCount(w) \/ ExtendZero(w) \/ InitPage(w) \/ CheckPage(w)
  \/ InsertRow(w) \/ MoveRow(w)

Next ==
  /\ ~overrun
  /\ \/ \E w \in Workers : InsertStart(w) \/ UpdateLonger(w) \/ Search(w)
     \/ \E p \in DOMAIN pages : UndoMove(p)

Spec == Init /\ [][Next]_vars

-----------------------------------------------------------------------------
(* Properties                                                               *)

\* The types of the pages, the latches and the locals; until an insert overruns
\* its page, every offset is on the page.
TypeOK ==
  /\ overrun \in BOOLEAN
  /\ ~overrun => pages \in Seq([lower : 0..PageBytes, upper : 0..PageBytes,
                                items : Seq([off : 0..PageBytes, len : 0..PageBytes,
                                             moved : BOOLEAN, dead : BOOLEAN])])
  /\ Len(pages) <= MaxPages
  /\ xlock \in [1..MaxPages -> Workers \cup {NoWorker}]
  /\ pc \in [Workers -> {"idle", "search", "extend", "init", "check", "place"}]
  /\ size \in [Workers -> Sizes \cup {0}]
  /\ old \in [Workers -> 0..MaxPages]
  /\ count \in [Workers -> 0..MaxPages]
  /\ at \in [Workers -> 0..(MaxPages + 1)]

\* However many workers found the same page to have room, the line pointers run
\* into the tuples only by the padding of one inserted row, never by more.
\* (InsertTuple asks for its room without the padding; that "freeSpace is a total
\* required size including item id and padding", HeapTable.cpp:77, is not so.)
HeaderSane ==
  \A p \in DOMAIN pages :
    pages[p].lower <= pages[p].upper + (IF overrun THEN Align - 1 ELSE 0)

\* The line pointers are the items of the page, until an insert overruns it.
ItemsCounted ==
  ~overrun =>
    \A p \in DOMAIN pages : ~IsNew(pages[p]) =>
      pages[p].lower = HeaderBytes + Len(pages[p].items) * ItemBytes

Extent(item) == item.off..(item.off + item.len - 1)

\* No two rows that INSERT placed share a byte, whatever updates to longer rows
\* and their rollbacks do to the page in between, until an insert overruns it. (A
\* row that UPDATE moved has no such promise: upper does not account for it.)
RowsDisjoint ==
  ~overrun =>
    \A p \in DOMAIN pages : \A i, j \in DOMAIN pages[p].items :
      (i # j /\ ~pages[p].items[i].moved /\ ~pages[p].items[j].moved)
        => Extent(pages[p].items[i]) \cap Extent(pages[p].items[j]) = {}

\* A row is placed clear of the line pointers, its own included, by every step but
\* the insert that lacks the room for its padding.
PlacedClear ==
  [][~overrun' =>
       \A p \in DOMAIN pages :
         LET items == pages'[p].items IN
         Len(items) > Len(pages[p].items) => items[Len(items)].off >= pages'[p].lower]_vars

-----------------------------------------------------------------------------
(* The inductive invariant, in parts                                        *)

ItemType == [off : 0..PageBytes, len : 0..PageBytes, moved : BOOLEAN, dead : BOOLEAN]
PageType == [lower : 0..PageBytes, upper : 0..PageBytes, items : Seq(ItemType)]

\* The inserted rows are stacked from the end of the page, the last one on top.
Stacked(pg) ==
  /\ \A i \in DOMAIN pg.items : ~pg.items[i].moved => pg.items[i].off >= pg.upper
  /\ \A i, j \in DOMAIN pg.items :
       (i < j /\ ~pg.items[i].moved /\ ~pg.items[j].moved)
         => pg.items[j].off + pg.items[j].len <= pg.items[i].off

GoodPage(pg) ==
  /\ pg \in PageType /\ pg.lower <= pg.upper
  /\ \/ pg = NewPage
     \/ pg.lower = HeaderBytes + Len(pg.items) * ItemBytes
  /\ Stacked(pg)

\* The pages a worker goes back to after a latch was released still exist.
LocalInv ==
  \A w \in Workers :
    /\ pc[w] # "idle" => size[w] \in Sizes
    /\ old[w] # 0 => Moves
    /\ count[w] <= Len(pages)
    /\ pc[w] = "search" => at[w] >= 1 /\ at[w] <= count[w] + 1
    /\ pc[w] = "extend" => at[w] >= 1 /\ at[w] <= Len(pages) + 1 /\ at[w] <= MaxPages
    /\ pc[w] \in {"init", "check", "place"} => at[w] \in DOMAIN pages

IndInv ==
  /\ TypeOK /\ LocalInv /\ HeaderSane
  /\ ~overrun => \A p \in DOMAIN pages : GoodPage(pages[p])
=============================================================================
