---------------------------- MODULE HeapPageProofs ----------------------------
(***************************************************************************)
(* Proofs about HeapPage, for any number of workers and pages, any page    *)
(* size and any row sizes and alignment.                                   *)
(***************************************************************************)
EXTENDS HeapPage, TLAPS

\* What the provers need to know about sequences.
LEMMA SeqElem == ASSUME NEW S, NEW s \in Seq(S) PROVE
  /\ DOMAIN s = 1..Len(s) /\ Len(s) \in Nat
  /\ \A i \in DOMAIN s : s[i] \in S
OBVIOUS

\* Append, element by element.
LEMMA SeqAppend == ASSUME NEW S, NEW s \in Seq(S), NEW e \in S PROVE
  /\ Append(s, e) \in Seq(S)
  /\ DOMAIN Append(s, e) = 1..(Len(s) + 1) /\ Len(Append(s, e)) = Len(s) + 1
  /\ \A i \in 1..Len(s) : Append(s, e)[i] = s[i]
  /\ Append(s, e)[Len(s) + 1] = e
OBVIOUS

\* An update of one element.
LEMMA SeqUpdate == ASSUME NEW S, NEW s \in Seq(S), NEW i \in DOMAIN s, NEW e \in S PROVE
  /\ [s EXCEPT ![i] = e] \in Seq(S)
  /\ DOMAIN [s EXCEPT ![i] = e] = DOMAIN s /\ Len([s EXCEPT ![i] = e]) = Len(s)
  /\ \A j \in DOMAIN s \ {i} : [s EXCEPT ![i] = e][j] = s[j]
  /\ [s EXCEPT ![i] = e][i] = e
OBVIOUS

\* The sizes are natural numbers.
LEMMA Bytes ==
  /\ PageBytes \in Nat \ {0} /\ HeaderBytes \in Nat \ {0} /\ ItemBytes \in Nat \ {0}
  /\ HeaderBytes <= PageBytes /\ MaxPages \in Nat
  /\ Sizes \subseteq Nat \ {0} /\ Align \in Nat \ {0}
BY SpaceAssumption

\* The multiple of b below a.
LEMMA DivTimes == ASSUME NEW a \in Nat, NEW b \in Nat \ {0} PROVE
  (a \div b) * b \in Nat /\ (a \div b) * b <= a /\ a < (a \div b) * b + b
OBVIOUS

\* MaxAlign adds less than the alignment.
LEMMA AlignBounds == ASSUME NEW n \in Nat PROVE
  MaxAlign(n) \in Nat /\ n <= MaxAlign(n) /\ MaxAlign(n) <= n + Align - 1
<1>1. Align \in Nat \ {0}
  BY Bytes
<1>2. PICK a : a = n + Align - 1
  OBVIOUS
<1>3. a \in Nat
  BY <1>1, <1>2
<1>4. PICK m : m = (a \div Align) * Align
  OBVIOUS
<1>5. m \in Nat /\ m <= a /\ a < m + Align
  BY <1>1, <1>3, <1>4, DivTimes
<1>6. MaxAlign(n) = m
  BY <1>2, <1>4 DEF MaxAlign
<1>. QED
  BY <1>1, <1>2, <1>5, <1>6

-----------------------------------------------------------------------------
(* Pages                                                                    *)

\* The fields of a page.
LEMMA PageFields == ASSUME NEW pg \in PageType PROVE
  /\ pg.lower \in 0..PageBytes /\ pg.upper \in 0..PageBytes /\ pg.items \in Seq(ItemType)
  /\ DOMAIN pg.items = 1..Len(pg.items) /\ Len(pg.items) \in Nat
  /\ \A i \in DOMAIN pg.items : pg.items[i] \in ItemType
<1>1. pg.lower \in 0..PageBytes /\ pg.upper \in 0..PageBytes /\ pg.items \in Seq(ItemType)
  BY DEF PageType
<1>. QED
  BY <1>1, SeqElem

\* RelFile::Extend writes a good page.
LEMMA NewGood == GoodPage(NewPage)
<1>1. <<>> \in Seq(ItemType) /\ Len(<<>>) = 0 /\ DOMAIN <<>> = {}
  OBVIOUS
<1>. QED
  BY <1>1, Bytes DEF GoodPage, NewPage, PageType, Stacked

\* HeapPage::Init makes one.
LEMMA InitialGood == GoodPage(InitialPage)
<1>1. <<>> \in Seq(ItemType) /\ Len(<<>>) = 0 /\ DOMAIN <<>> = {}
  OBVIOUS
<1>2. InitialPage \in PageType
  BY <1>1, Bytes DEF InitialPage, PageType
<1>3. InitialPage.lower = HeaderBytes + Len(InitialPage.items) * ItemBytes
  BY <1>1, Bytes DEF InitialPage
<1>4. Stacked(InitialPage)
  BY <1>1 DEF InitialPage, Stacked
<1>. QED
  BY <1>2, <1>3, <1>4, Bytes DEF GoodPage, InitialPage

\* One more line pointer.
LEMMA OneMoreItem == ASSUME NEW n \in Nat, NEW b \in Nat PROVE (n + 1) * b = n * b + b
OBVIOUS

\* InsertTuple keeps a page good when the room for the row and its padding is there.
LEMMA InsertedGood ==
  ASSUME NEW pg, GoodPage(pg), NEW n \in Sizes, FreeSpace(pg) >= Required(MaxAlign(n))
  PROVE  /\ GoodPage(WithInserted(pg, n))
         /\ Len(WithInserted(pg, n).items) = Len(pg.items) + 1
         /\ WithInserted(pg, n).items[Len(pg.items) + 1].off >= WithInserted(pg, n).lower
<1>0. PICK m : m = MaxAlign(n)
  OBVIOUS
<1>. DEFINE row == Row(pg.upper - m, n, FALSE)
<1>. DEFINE new == WithInserted(pg, n)
<1>1. pg \in PageType /\ pg.lower <= pg.upper
  BY DEF GoodPage
<1>2. /\ pg.lower \in 0..PageBytes /\ pg.upper \in 0..PageBytes /\ pg.items \in Seq(ItemType)
      /\ DOMAIN pg.items = 1..Len(pg.items) /\ Len(pg.items) \in Nat
      /\ \A i \in DOMAIN pg.items : pg.items[i] \in ItemType
  BY <1>1, PageFields
<1>3. n \in Nat /\ n > 0 /\ m \in Nat /\ n <= m
  <2>1. n \in Nat /\ n > 0
    BY Bytes
  <2>. QED
    BY <2>1, <1>0, AlignBounds
<1>4. pg.lower + ItemBytes <= pg.upper - m
  BY <1>0, <1>1, <1>2, <1>3, Bytes DEF FreeSpace, Required
<1>5. /\ new.lower = pg.lower + ItemBytes /\ new.upper = pg.upper - m
      /\ new.items = Append(pg.items, row)
      /\ new = [lower |-> new.lower, upper |-> new.upper, items |-> new.items]
  BY <1>0 DEF WithInserted
<1>6. row \in ItemType /\ row.off = pg.upper - m /\ row.len = n /\ row.moved = FALSE
  BY <1>2, <1>3, <1>4, Bytes DEF Row, ItemType
<1>. HIDE DEF row, new
<1>7. /\ new.items \in Seq(ItemType)
      /\ DOMAIN new.items = 1..(Len(pg.items) + 1) /\ Len(new.items) = Len(pg.items) + 1
      /\ \A i \in 1..Len(pg.items) : new.items[i] = pg.items[i]
      /\ new.items[Len(pg.items) + 1] = row
  BY <1>2, <1>5, <1>6, SeqAppend
<1>8. new \in PageType
  <2>0. /\ m \in Nat /\ ItemBytes \in Nat /\ PageBytes \in Nat
        /\ new.lower = pg.lower + ItemBytes /\ new.upper = pg.upper - m
    BY <1>3, <1>5, Bytes
  <2>1. new.lower \in 0..PageBytes /\ new.upper \in 0..PageBytes
    BY <1>2, <1>4, <2>0
  <2>. QED
    BY <2>1, <1>5, <1>7 DEF PageType
<1>9. new.lower = HeaderBytes + Len(new.items) * ItemBytes
  <2>1. pg # NewPage
    BY <1>3, <1>4, Bytes DEF NewPage
  <2>2. pg.lower = HeaderBytes + Len(pg.items) * ItemBytes
    BY <2>1 DEF GoodPage
  <2>3. Len(new.items) * ItemBytes = Len(pg.items) * ItemBytes + ItemBytes
    BY <1>2, <1>7, Bytes, OneMoreItem
  <2>4. Len(pg.items) * ItemBytes \in Nat /\ HeaderBytes \in Nat /\ ItemBytes \in Nat
    BY <1>2, Bytes
  <2>5. new.lower = pg.lower + ItemBytes
    BY <1>5
  <2>. DEFINE n1 == Len(pg.items) * ItemBytes
              n2 == Len(new.items) * ItemBytes
  <2>6. pg.lower = HeaderBytes + n1 /\ n2 = n1 + ItemBytes /\ n1 \in Nat
    BY <2>2, <2>3, <2>4
  <2>. HIDE DEF n1, n2
  <2>7. new.lower = HeaderBytes + n2
    BY <2>4, <2>5, <2>6
  <2>. QED
    BY <2>7 DEF n2
<1>10. Stacked(new)
  <2>1. Stacked(pg)
    BY DEF GoodPage
  <2>2. \A i \in 1..Len(pg.items) :
          /\ pg.items[i].off \in 0..PageBytes /\ pg.items[i].len \in 0..PageBytes
          /\ ~pg.items[i].moved => pg.items[i].off >= pg.upper
    BY <1>2, <2>1 DEF ItemType, Stacked
  <2>3. ASSUME NEW i \in DOMAIN new.items, ~new.items[i].moved PROVE new.items[i].off >= new.upper
    <3>1. CASE i \in 1..Len(pg.items)
      BY <3>1, <2>2, <2>3, <1>2, <1>3, <1>5, <1>7
    <3>2. CASE i = Len(pg.items) + 1
      BY <3>2, <1>2, <1>3, <1>5, <1>6, <1>7
    <3>. QED
      BY <3>1, <3>2, <1>2, <1>7
  <2>4. ASSUME NEW i \in DOMAIN new.items, NEW j \in DOMAIN new.items, i < j,
               ~new.items[i].moved, ~new.items[j].moved
        PROVE  new.items[j].off + new.items[j].len <= new.items[i].off
    <3>1. i \in 1..Len(pg.items)
      BY <2>4, <1>2, <1>7
    <3>2. CASE j \in 1..Len(pg.items)
      <4>1. new.items[i] = pg.items[i] /\ new.items[j] = pg.items[j]
        BY <3>1, <3>2, <1>7
      <4>2. pg.items[j].off + pg.items[j].len <= pg.items[i].off
        BY <4>1, <3>1, <3>2, <2>1, <2>4, <1>2 DEF Stacked
      <4>. QED
        BY <4>1, <4>2
    <3>3. CASE j = Len(pg.items) + 1
      <4>1. new.items[j] = row /\ new.items[i] = pg.items[i]
        BY <3>1, <3>3, <1>7
      <4>2. row.off + row.len <= pg.upper /\ row.off \in Int /\ row.len \in Int
        BY <1>2, <1>3, <1>6
      <4>3. pg.items[i].off >= pg.upper /\ pg.items[i].off \in Nat /\ pg.upper \in Nat
        BY <4>1, <3>1, <2>2, <2>4, <1>2, Bytes
      <4>. QED
        BY <4>1, <4>2, <4>3
    <3>. QED
      BY <3>2, <3>3, <1>2, <1>7
  <2>. QED
    BY <2>3, <2>4 DEF Stacked
<1>11. new.lower <= new.upper /\ row.off >= new.lower
  BY <1>2, <1>3, <1>4, <1>5, <1>6, Bytes
<1>. QED
  BY <1>7, <1>8, <1>9, <1>10, <1>11 DEF GoodPage, new

\* Where only the padding is lacking, the row is on the line pointers, but by no
\* more than the padding.
LEMMA InsertedOver ==
  ASSUME NEW pg, GoodPage(pg), NEW n \in Sizes, FreeSpace(pg) >= Required(n)
  PROVE  WithInserted(pg, n).lower <= WithInserted(pg, n).upper + (Align - 1)
<1>0. PICK m : m = MaxAlign(n)
  OBVIOUS
<1>1. pg.lower <= pg.upper /\ pg.lower \in Nat /\ pg.upper \in Nat
  BY PageFields, Bytes DEF GoodPage
<1>2. n \in Nat /\ m \in Nat /\ m <= n + Align - 1
  <2>1. n \in Nat
    BY Bytes
  <2>. QED
    BY <2>1, <1>0, AlignBounds
<1>3. pg.upper - pg.lower >= n + ItemBytes
  BY <1>1 DEF FreeSpace, Required
<1>4. WithInserted(pg, n).lower = pg.lower + ItemBytes /\ WithInserted(pg, n).upper = pg.upper - m
  BY <1>0 DEF WithInserted
<1>. QED
  BY <1>1, <1>2, <1>3, <1>4, Bytes

\* UpdateTuple keeps a page good when it places a longer row there.
LEMMA MovedGood ==
  ASSUME NEW pg, GoodPage(pg), NEW n \in Sizes, RequiredToMove(n) <= FreeSpace(pg)
  PROVE  /\ GoodPage(WithMoved(pg, n))
         /\ Len(WithMoved(pg, n).items) = Len(pg.items) + 1
         /\ WithMoved(pg, n).items[Len(pg.items) + 1].off >= WithMoved(pg, n).lower
<1>. DEFINE row == Row(pg.upper - n, n, TRUE)
<1>. DEFINE new == WithMoved(pg, n)
<1>1. pg \in PageType /\ pg.lower <= pg.upper
  BY DEF GoodPage
<1>2. /\ pg.lower \in 0..PageBytes /\ pg.upper \in 0..PageBytes /\ pg.items \in Seq(ItemType)
      /\ DOMAIN pg.items = 1..Len(pg.items) /\ Len(pg.items) \in Nat
  BY <1>1, PageFields
<1>3. n \in Nat /\ n > 0
  BY Bytes
<1>4. pg.lower + ItemBytes <= pg.upper - n
  BY <1>1, <1>2, <1>3, Bytes DEF FreeSpace, RequiredToMove
<1>5. /\ new.lower = pg.lower + ItemBytes /\ new.upper = pg.upper
      /\ new.items = Append(pg.items, row)
      /\ new = [lower |-> new.lower, upper |-> new.upper, items |-> new.items]
  BY DEF WithMoved
<1>6. row \in ItemType /\ row.off = pg.upper - n /\ row.moved
  BY <1>2, <1>3, <1>4, Bytes DEF Row, ItemType
<1>. HIDE DEF row, new
<1>7. /\ new.items \in Seq(ItemType) /\ Len(new.items) = Len(pg.items) + 1
      /\ DOMAIN new.items = 1..(Len(pg.items) + 1)
      /\ \A i \in 1..Len(pg.items) : new.items[i] = pg.items[i]
      /\ new.items[Len(pg.items) + 1] = row
  BY <1>2, <1>5, <1>6, SeqAppend
<1>8. new \in PageType
  <2>1. new.lower \in 0..PageBytes /\ new.upper \in 0..PageBytes
    BY <1>2, <1>3, <1>4, <1>5, Bytes
  <2>. QED
    BY <2>1, <1>5, <1>7 DEF PageType
<1>9. new.lower = HeaderBytes + Len(new.items) * ItemBytes
  <2>1. pg # NewPage
    BY <1>3, <1>4, Bytes DEF NewPage
  <2>2. pg.lower = HeaderBytes + Len(pg.items) * ItemBytes
    BY <2>1 DEF GoodPage
  <2>3. Len(new.items) * ItemBytes = Len(pg.items) * ItemBytes + ItemBytes
    BY <1>2, <1>7, Bytes, OneMoreItem
  <2>4. Len(pg.items) * ItemBytes \in Nat /\ HeaderBytes \in Nat /\ ItemBytes \in Nat
    BY <1>2, Bytes
  <2>5. new.lower = pg.lower + ItemBytes
    BY <1>5
  <2>. DEFINE n1 == Len(pg.items) * ItemBytes
              n2 == Len(new.items) * ItemBytes
  <2>6. pg.lower = HeaderBytes + n1 /\ n2 = n1 + ItemBytes /\ n1 \in Nat
    BY <2>2, <2>3, <2>4
  <2>. HIDE DEF n1, n2
  <2>7. new.lower = HeaderBytes + n2
    BY <2>4, <2>5, <2>6
  <2>. QED
    BY <2>7 DEF n2
<1>10. new.lower <= new.upper /\ row.off >= new.lower
  BY <1>2, <1>3, <1>4, <1>5, <1>6, Bytes
<1>11. Stacked(new)
  <2>1. Stacked(pg)
    BY DEF GoodPage
  <2>2. \A i \in DOMAIN new.items : ~new.items[i].moved => i \in DOMAIN pg.items /\ new.items[i] = pg.items[i]
    BY <1>2, <1>6, <1>7
  <2>. QED
    BY <2>1, <2>2, <1>5 DEF Stacked
<1>. QED
  BY <1>7, <1>8, <1>9, <1>10, <1>11 DEF GoodPage, new

\* ROLLBACK of a move keeps a page good: setDead clears one item.
LEMMA DeadGood ==
  ASSUME NEW pg, GoodPage(pg), NEW i \in DOMAIN pg.items, pg.items[i].moved,
         NEW it \in ItemType, it.moved
  PROVE  /\ GoodPage([pg EXCEPT !.items[i] = it])
         /\ Len([pg EXCEPT !.items[i] = it].items) = Len(pg.items)
<1>. DEFINE items == [pg.items EXCEPT ![i] = it]
<1>1. pg \in PageType
  BY DEF GoodPage
<1>2. pg.items \in Seq(ItemType)
  BY <1>1, PageFields
<1>3. /\ items \in Seq(ItemType) /\ Len(items) = Len(pg.items)
      /\ DOMAIN items = DOMAIN pg.items /\ items[i] = it
      /\ \A j \in DOMAIN pg.items \ {i} : items[j] = pg.items[j]
  BY <1>2, SeqUpdate
<1>. HIDE DEF items
<1>4. /\ [pg EXCEPT !.items = items] \in PageType
      /\ [pg EXCEPT !.items = items].items = items
      /\ [pg EXCEPT !.items = items].lower = pg.lower
      /\ [pg EXCEPT !.items = items].upper = pg.upper
  BY <1>1, <1>3 DEF PageType
<1>5. Stacked([pg EXCEPT !.items = items])
  <2>1. Stacked(pg)
    BY DEF GoodPage
  <2>2. \A j \in DOMAIN items : ~items[j].moved => j \in DOMAIN pg.items /\ items[j] = pg.items[j]
    BY <1>3
  <2>. QED
    BY <2>1, <2>2, <1>4 DEF Stacked
<1>6. pg # NewPage
  BY DEF NewPage
<1>7. [pg EXCEPT !.items[i] = it] = [pg EXCEPT !.items = items]
  BY DEF items
<1>. QED
  BY <1>3, <1>4, <1>5, <1>6, <1>7 DEF GoodPage

-----------------------------------------------------------------------------
(* Steps                                                                    *)

\* A row that is new on a page is clear of the line pointers.
Clear(pg, new) ==
  Len(new.items) > Len(pg.items) => new.items[Len(new.items)].off >= new.lower

\* How a step changes the pages: not at all, by a new one, one of them to another
\* good one, or one of them by an overrun. A page never loses its place.
GoodStep ==
  \/ pages' = pages
  \/ Len(pages) < MaxPages /\ pages' = Append(pages, NewPage)
  \/ \E p \in DOMAIN pages : \E pg :
       GoodPage(pg) /\ Clear(pages[p], pg) /\ pages' = [pages EXCEPT ![p] = pg]

OverStep ==
  \E p \in DOMAIN pages : \E pg :
    pg.lower <= pg.upper + (Align - 1) /\ pages' = [pages EXCEPT ![p] = pg]

PagesStep == (~overrun' /\ GoodStep) \/ (overrun' = TRUE /\ OverStep)

\* The type of the pages is that of TypeOK, before a step.
LEMMA PagesType == TypeOK /\ ~overrun => pages \in Seq(PageType)
BY DEF TypeOK, PageType, ItemType

\* The first page of an empty file, an insert, ...: what the workers' locals
\* refer to.
LEMMA LocalTypes == ASSUME TypeOK, NEW w \in Workers PROVE
  /\ pc[w] \in {"idle", "search", "extend", "init", "check", "place"}
  /\ size[w] \in Sizes \cup {0} /\ old[w] \in 0..MaxPages /\ count[w] \in 0..MaxPages
  /\ at[w] \in 0..(MaxPages + 1)
BY DEF TypeOK

\* Every step leaves good pages.
LEMMA PagesGood ==
  ASSUME IndInv, Next
  PROVE  PagesStep
<1>0. ~overrun
  BY DEF Next
<1>1. pages \in Seq(PageType) /\ DOMAIN pages = 1..Len(pages) /\ Len(pages) \in Nat
  BY <1>0, PagesType, SeqElem DEF IndInv
<1>2. \A p \in DOMAIN pages : GoodPage(pages[p])
  BY <1>0 DEF IndInv
<1>3. ASSUME NEW w \in Workers, InsertStart(w) \/ ExaminePage(w) \/ ExtendCount(w) \/ CheckPage(w)
      PROVE  GoodStep
  BY <1>3 DEF InsertStart, ExaminePage, ExtendCount, CheckPage, GoodStep
<1>4. ASSUME NEW w \in Workers, ExtendZero(w) PROVE GoodStep
  <2>1. at[w] \in 1..(Len(pages) + 1) /\ at[w] <= MaxPages /\ at[w] \in Nat
    <3>1. at[w] >= 1 /\ at[w] <= Len(pages) + 1 /\ at[w] <= MaxPages
      BY <1>4 DEF ExtendZero, Goto, IndInv, LocalInv
    <3>2. at[w] \in 0..(MaxPages + 1)
      BY LocalTypes DEF IndInv
    <3>. QED
      BY <3>1, <3>2, <1>1, Bytes
  <2>2. CASE at[w] > Len(pages)
    <3>1. pages' = Append(pages, NewPage)
      BY <2>2, <1>4 DEF ExtendZero
    <3>2. Len(pages) < MaxPages
      BY <2>1, <2>2, <1>1, Bytes
    <3>. QED
      BY <3>1, <3>2 DEF GoodStep
  <2>3. CASE ~(at[w] > Len(pages))
    <3>1. at[w] \in DOMAIN pages
      BY <2>1, <2>3, <1>1
    <3>2. pages' = [pages EXCEPT ![at[w]] = NewPage]
      BY <2>3, <1>4 DEF ExtendZero
    <3>3. Clear(pages[at[w]], NewPage)
      <4>1. Len(pages[at[w]].items) \in Nat
        BY <3>1, <1>2, PageFields DEF GoodPage
      <4>. QED
        BY <4>1 DEF Clear, NewPage
    <3>. QED
      BY <3>1, <3>2, <3>3, NewGood DEF GoodStep
  <2>. QED
    BY <2>2, <2>3
<1>5. ASSUME NEW w \in Workers, InitPage(w) PROVE GoodStep
  <2>1. at[w] \in DOMAIN pages
    BY <1>5 DEF InitPage, Goto, IndInv, LocalInv
  <2>2. PICK pg : pg = IF IsNew(pages[at[w]]) THEN InitialPage ELSE pages[at[w]]
    OBVIOUS
  <2>3. pages' = [pages EXCEPT ![at[w]] = pg]
    BY <1>5, <2>2 DEF InitPage
  <2>4. GoodPage(pg)
    BY <2>1, <2>2, <1>2, InitialGood
  <2>5. Clear(pages[at[w]], pg)
    <3>1. Len(pages[at[w]].items) \in Nat
      BY <2>1, <1>2, PageFields DEF GoodPage
    <3>2. pg.items = pages[at[w]].items \/ Len(pg.items) = 0
      BY <2>2 DEF InitialPage
    <3>. QED
      BY <3>1, <3>2 DEF Clear
  <2>. QED
    BY <2>1, <2>3, <2>4, <2>5 DEF GoodStep
<1>6. ASSUME NEW w \in Workers, InsertRow(w) PROVE PagesStep
  <2>1. at[w] \in DOMAIN pages /\ size[w] \in Sizes
    BY <1>6 DEF InsertRow, IndInv, LocalInv
  <2>2. CASE FreeSpace(pages[at[w]]) < Required(size[w]) /\ UNCHANGED <<pages, overrun>>
    BY <2>2, <1>0 DEF PagesStep, GoodStep
  <2>3. CASE /\ FreeSpace(pages[at[w]]) >= Required(size[w])
             /\ pages' = [pages EXCEPT ![at[w]] = WithInserted(pages[at[w]], size[w])]
             /\ overrun' = Overruns(pages[at[w]], size[w])
    <3>1. PICK pg : pg = pages[at[w]]
      OBVIOUS
    <3>2. PICK new : new = WithInserted(pg, size[w])
      OBVIOUS
    <3>3. pages' = [pages EXCEPT ![at[w]] = new] /\ GoodPage(pg) /\ FreeSpace(pg) >= Required(size[w])
          /\ overrun' = Overruns(pg, size[w])
      BY <2>1, <2>3, <3>1, <3>2, <1>2
    <3>4. CASE Overruns(pg, size[w])
      <4>1. new.lower <= new.upper + (Align - 1)
        BY <3>2, <3>3, <2>1, InsertedOver
      <4>. QED
        BY <4>1, <3>3, <3>4, <2>1, Zenon DEF PagesStep, OverStep
    <3>5. CASE ~Overruns(pg, size[w])
      <4>1. FreeSpace(pg) >= Required(MaxAlign(size[w]))
        <5>1. FreeSpace(pg) \in Int
          BY <3>3, PageFields, Bytes DEF FreeSpace, GoodPage, Huge
        <5>2. size[w] \in Nat /\ MaxAlign(size[w]) \in Nat
          BY <2>1, Bytes, AlignBounds
        <5>3. Required(MaxAlign(size[w])) \in Int
          BY <5>2, Bytes DEF Required
        <5>4. ~(FreeSpace(pg) < Required(MaxAlign(size[w])))
          <6>1. Required(size[w]) <= FreeSpace(pg)
            <7>1. Required(size[w]) \in Int
              BY <5>2, Bytes DEF Required
            <7>. QED
              BY <7>1, <5>1, <3>3
          <6>. QED
            BY <6>1, <3>5 DEF Overruns
        <5>. QED
          BY <5>1, <5>3, <5>4
      <4>2. GoodPage(new) /\ Clear(pg, new)
        BY <4>1, <3>2, <3>3, <2>1, InsertedGood DEF Clear
      <4>. QED
        BY <4>2, <3>1, <3>3, <3>5, <2>1, Zenon DEF PagesStep, GoodStep
    <3>. QED
      BY <3>4, <3>5
  <2>. QED
    BY <2>2, <2>3, <1>6 DEF InsertRow
<1>7. ASSUME NEW w \in Workers, UpdateLonger(w) PROVE GoodStep
  <2>1. CASE pages' = pages
    BY <2>1 DEF GoodStep
  <2>2. CASE pages' # pages
    <3>1. PICK p \in DOMAIN pages, n \in Sizes :
            /\ RequiredToMove(n) <= FreeSpace(pages[p])
            /\ pages' = [pages EXCEPT ![p] = WithMoved(@, n)]
      BY <2>2, <1>7 DEF UpdateLonger
    <3>2. GoodPage(WithMoved(pages[p], n)) /\ Clear(pages[p], WithMoved(pages[p], n))
      BY <3>1, <1>2, MovedGood DEF Clear
    <3>. QED
      BY <3>1, <3>2 DEF GoodStep
  <2>. QED
    BY <2>1, <2>2
<1>8. ASSUME NEW w \in Workers, MoveRow(w) PROVE GoodStep
  <2>1. at[w] \in DOMAIN pages /\ size[w] \in Sizes
    BY <1>8 DEF MoveRow, IndInv, LocalInv
  <2>2. CASE pages' = pages
    BY <2>2 DEF GoodStep
  <2>3. CASE pages' # pages
    <3>1. RequiredToMove(size[w]) <= FreeSpace(pages[at[w]])
          /\ pages' = [pages EXCEPT ![at[w]] = WithMoved(pages[at[w]], size[w])]
      BY <2>3, <1>8 DEF MoveRow
    <3>2. GoodPage(WithMoved(pages[at[w]], size[w])) /\ Clear(pages[at[w]], WithMoved(pages[at[w]], size[w]))
      BY <3>1, <2>1, <1>2, MovedGood DEF Clear
    <3>. QED
      BY <3>1, <3>2, <2>1 DEF GoodStep
  <2>. QED
    BY <2>2, <2>3
<1>9. ASSUME NEW p \in DOMAIN pages, UndoMove(p) PROVE GoodStep
  <2>. DEFINE it == [off |-> 0, len |-> 0, moved |-> TRUE, dead |-> TRUE]
  <2>1. PICK i \in DOMAIN pages[p].items :
          pages[p].items[i].moved /\ pages' = [pages EXCEPT ![p].items[i] = it]
    BY <1>9 DEF UndoMove
  <2>2. it \in ItemType /\ it.moved
    BY Bytes DEF ItemType
  <2>3. pages' = [pages EXCEPT ![p] = [pages[p] EXCEPT !.items[i] = it]]
    BY <2>1
  <2>. HIDE DEF it
  <2>4. /\ GoodPage([pages[p] EXCEPT !.items[i] = it])
        /\ Len([pages[p] EXCEPT !.items[i] = it].items) = Len(pages[p].items)
    BY <2>1, <2>2, <1>2, DeadGood
  <2>5. Len(pages[p].items) \in Nat
    BY <1>2, PageFields DEF GoodPage
  <2>6. Clear(pages[p], [pages[p] EXCEPT !.items[i] = it])
    BY <2>4, <2>5 DEF Clear
  <2>. QED
    BY <2>3, <2>4, <2>6 DEF GoodStep
<1>10. ASSUME NEW w \in Workers, InsertStart(w) \/ UpdateLonger(w) \/ Search(w), ~InsertRow(w)
       PROVE  overrun' = overrun
  BY <1>10 DEF InsertStart, UpdateLonger, Search, ExaminePage, ExtendCount, ExtendZero, InitPage, CheckPage,
     MoveRow
<1>11. ASSUME NEW w \in Workers, InsertStart(w) \/ UpdateLonger(w) \/ Search(w) PROVE PagesStep
  <2>1. CASE InsertRow(w)
    BY <2>1, <1>6
  <2>2. CASE ~InsertRow(w)
    <3>1. ~overrun'
      BY <2>2, <1>0, <1>10, <1>11
    <3>2. GoodStep
      BY <2>2, <1>3, <1>4, <1>5, <1>7, <1>8, <1>11 DEF Search
    <3>. QED
      BY <3>1, <3>2 DEF PagesStep
  <2>. QED
    BY <2>1, <2>2
<1>12. ASSUME NEW p \in DOMAIN pages, UndoMove(p) PROVE PagesStep
  <2>1. ~overrun'
    BY <1>12, <1>0 DEF UndoMove
  <2>. QED
    BY <2>1, <1>9, <1>12 DEF PagesStep
<1>. QED
  BY <1>11, <1>12 DEF Next

\* Whether a step overruns a page is a Boolean.
LEMMA NextFlag == ASSUME IndInv, Next PROVE overrun' \in BOOLEAN
<1>1. overrun \in BOOLEAN
  BY DEF IndInv, TypeOK
<1>2. ASSUME NEW w \in Workers, InsertRow(w) PROVE overrun' \in BOOLEAN
  BY <1>1, <1>2, Zenon DEF InsertRow, Overruns
<1>3. ASSUME NEW w \in Workers, InsertStart(w) \/ UpdateLonger(w) \/ Search(w), ~InsertRow(w)
      PROVE  overrun' = overrun
  BY <1>3 DEF InsertStart, UpdateLonger, Search, ExaminePage, ExtendCount, ExtendZero, InitPage, CheckPage,
     MoveRow
<1>4. ASSUME NEW p \in DOMAIN pages, UndoMove(p) PROVE overrun' = overrun
  BY <1>4 DEF UndoMove
<1>. QED
  BY <1>1, <1>2, <1>3, <1>4, Zenon DEF Next

\* Good pages after a step that changes them like that.
LEMMA PagesKept ==
  ASSUME IndInv, ~overrun, GoodStep
  PROVE  /\ pages' \in Seq(PageType)
         /\ Len(pages') \in Nat /\ Len(pages) <= Len(pages') /\ Len(pages') <= MaxPages
         /\ DOMAIN pages \subseteq DOMAIN pages'
         /\ \A p \in DOMAIN pages' : GoodPage(pages'[p])
         /\ \A p \in DOMAIN pages : Clear(pages[p], pages'[p])
<1>1. /\ pages \in Seq(PageType) /\ DOMAIN pages = 1..Len(pages) /\ Len(pages) \in Nat
      /\ Len(pages) <= MaxPages /\ MaxPages \in Nat
  BY PagesType, SeqElem, Bytes DEF IndInv, TypeOK
<1>2. \A p \in DOMAIN pages : GoodPage(pages[p])
  BY DEF IndInv
<1>c. \A p \in DOMAIN pages : Clear(pages[p], pages[p])
  <2>1. \A p \in DOMAIN pages : Len(pages[p].items) \in Nat
    BY <1>2, PageFields DEF GoodPage
  <2>. QED
    BY <2>1 DEF Clear
<1>3. CASE pages' = pages
  BY <1>1, <1>2, <1>3, <1>c
<1>4. CASE Len(pages) < MaxPages /\ pages' = Append(pages, NewPage)
  <2>1. NewPage \in PageType
    BY NewGood DEF GoodPage
  <2>2. /\ pages' \in Seq(PageType)
        /\ DOMAIN pages' = 1..(Len(pages) + 1) /\ Len(pages') = Len(pages) + 1
        /\ \A i \in 1..Len(pages) : pages'[i] = pages[i]
        /\ pages'[Len(pages) + 1] = NewPage
    BY <1>1, <1>4, <2>1, SeqAppend
  <2>3. \A p \in DOMAIN pages' : p \in DOMAIN pages \/ p = Len(pages) + 1
    BY <2>2, <1>1
  <2>4. \A p \in DOMAIN pages' : GoodPage(pages'[p])
    BY <2>2, <2>3, <1>1, <1>2, NewGood
  <2>5. Len(pages') \in Nat /\ Len(pages) <= Len(pages') /\ Len(pages') <= MaxPages
    BY <2>2, <1>1, <1>4
  <2>. QED
    BY <2>2, <2>4, <2>5, <1>1, <1>c
<1>5. CASE \E p \in DOMAIN pages : \E pg : GoodPage(pg) /\ Clear(pages[p], pg) /\ pages' = [pages EXCEPT ![p] = pg]
  <2>1. PICK p \in DOMAIN pages : \E pg : GoodPage(pg) /\ Clear(pages[p], pg) /\ pages' = [pages EXCEPT ![p] = pg]
    BY <1>5
  <2>2. PICK pg : GoodPage(pg) /\ Clear(pages[p], pg) /\ pages' = [pages EXCEPT ![p] = pg]
    BY <2>1
  <2>3. pg \in PageType
    BY <2>2 DEF GoodPage
  <2>4. /\ pages' \in Seq(PageType)
        /\ DOMAIN pages' = DOMAIN pages /\ Len(pages') = Len(pages)
        /\ \A j \in DOMAIN pages \ {p} : pages'[j] = pages[j]
        /\ pages'[p] = pg
    BY <1>1, <2>2, <2>3, SeqUpdate
  <2>. QED
    BY <2>2, <2>4, <1>1, <1>2, <1>c
<1>. QED
  BY <1>3, <1>4, <1>5 DEF GoodStep

\* The pages after an overrun.
LEMMA PagesOver ==
  ASSUME IndInv, ~overrun, OverStep
  PROVE  /\ Len(pages') \in Nat /\ Len(pages) <= Len(pages') /\ Len(pages') <= MaxPages
         /\ DOMAIN pages' = 1..Len(pages')
         /\ \A p \in DOMAIN pages' : pages'[p].lower <= pages'[p].upper + (Align - 1)
<1>1. /\ pages \in Seq(PageType) /\ DOMAIN pages = 1..Len(pages) /\ Len(pages) \in Nat
      /\ Len(pages) <= MaxPages
  BY PagesType, SeqElem DEF IndInv, TypeOK
<1>2. \A p \in DOMAIN pages : pages[p].lower <= pages[p].upper + (Align - 1)
  <2>1. \A p \in DOMAIN pages : GoodPage(pages[p])
    BY DEF IndInv
  <2>2. ASSUME NEW p \in DOMAIN pages PROVE pages[p].lower <= pages[p].upper + (Align - 1)
    <3>1. pages[p].lower <= pages[p].upper /\ pages[p].lower \in Nat /\ pages[p].upper \in Nat
      BY <2>1, PageFields, Bytes DEF GoodPage
    <3>. QED
      BY <3>1, Bytes
  <2>. QED
    BY <2>2
<1>3. PICK p \in DOMAIN pages : \E pg :
        pg.lower <= pg.upper + (Align - 1) /\ pages' = [pages EXCEPT ![p] = pg]
  BY DEF OverStep
<1>4. PICK pg : pg.lower <= pg.upper + (Align - 1) /\ pages' = [pages EXCEPT ![p] = pg]
  BY <1>3
<1>5. pages \in Seq(PageType \cup {pg}) /\ pg \in PageType \cup {pg}
  BY <1>1
<1>6. /\ DOMAIN pages' = DOMAIN pages /\ Len(pages') = Len(pages)
      /\ \A j \in DOMAIN pages \ {p} : pages'[j] = pages[j]
      /\ pages'[p] = pg
  BY <1>4, <1>5, SeqUpdate
<1>. QED
  BY <1>1, <1>2, <1>4, <1>6

\* The locals and the latches keep their types.
LEMMA LocalStep ==
  ASSUME IndInv, Next, Len(pages') \in Nat, Len(pages) <= Len(pages'), Len(pages') <= MaxPages,
         DOMAIN pages' = 1..Len(pages'), overrun' \in BOOLEAN, ~overrun' => pages' \in Seq(PageType)
  PROVE  TypeOK' /\ LocalInv'
<1>. DEFINE Locals(w) ==
       /\ pc'[w] \in {"idle", "search", "extend", "init", "check", "place"}
       /\ size'[w] \in Sizes \cup {0} /\ old'[w] \in 0..MaxPages /\ count'[w] \in 0..MaxPages
       /\ at'[w] \in 0..(MaxPages + 1)
       /\ pc'[w] # "idle" => size'[w] \in Sizes
       /\ old'[w] # 0 => Moves
       /\ count'[w] <= Len(pages')
       /\ pc'[w] = "search" => at'[w] >= 1 /\ at'[w] <= count'[w] + 1
       /\ pc'[w] = "extend" => at'[w] >= 1 /\ at'[w] <= Len(pages') + 1 /\ at'[w] <= MaxPages
       /\ pc'[w] \in {"init", "check", "place"} => at'[w] \in DOMAIN pages'
<1>. DEFINE Same(w) == pc'[w] = pc[w] /\ size'[w] = size[w] /\ old'[w] = old[w]
                       /\ count'[w] = count[w] /\ at'[w] = at[w]
<1>0. ~overrun
  BY DEF Next
<1>1. /\ pages \in Seq(PageType) /\ DOMAIN pages = 1..Len(pages) /\ Len(pages) \in Nat
      /\ Len(pages) <= MaxPages /\ MaxPages \in Nat /\ DOMAIN pages' = 1..Len(pages')
  BY <1>0, PagesType, SeqElem, Bytes DEF IndInv, TypeOK
<1>2. /\ xlock \in [1..MaxPages -> Workers \cup {NoWorker}]
      /\ pc \in [Workers -> {"idle", "search", "extend", "init", "check", "place"}]
      /\ size \in [Workers -> Sizes \cup {0}] /\ old \in [Workers -> 0..MaxPages]
      /\ count \in [Workers -> 0..MaxPages] /\ at \in [Workers -> 0..(MaxPages + 1)]
  BY DEF IndInv, TypeOK
<1>3. ASSUME NEW w \in Workers, Same(w) PROVE Locals(w)
  <2>1. /\ pc[w] # "idle" => size[w] \in Sizes
        /\ old[w] # 0 => Moves
        /\ count[w] <= Len(pages)
        /\ pc[w] = "search" => at[w] >= 1 /\ at[w] <= count[w] + 1
        /\ pc[w] = "extend" => at[w] >= 1 /\ at[w] <= Len(pages) + 1 /\ at[w] <= MaxPages
        /\ pc[w] \in {"init", "check", "place"} => at[w] \in DOMAIN pages
    BY DEF IndInv, LocalInv
  <2>. QED
    BY <1>1, <1>2, <1>3, <2>1
<1>4. ASSUME NEW w \in Workers, InsertStart(w) \/ UpdateLonger(w) \/ Search(w)
      PROVE  \A v \in Workers \ {w} : Same(v)
  BY <1>4, <1>2 DEF InsertStart, UpdateLonger, Search, ExaminePage, ExtendCount, ExtendZero, InitPage,
     CheckPage, InsertRow, MoveRow, StartSearch, Goto, locals
<1>5. ASSUME NEW w \in Workers, InsertStart(w) PROVE Locals(w)
  <2>1. /\ pc'[w] = "search" /\ size'[w] \in Sizes /\ old'[w] = old[w]
        /\ count'[w] = Len(pages) /\ at'[w] = 1
    BY <1>5, <1>2 DEF InsertStart, StartSearch, Goto
  <2>2. old[w] # 0 => Moves
    BY DEF IndInv, LocalInv
  <2>. QED
    BY <2>1, <2>2, <1>1, <1>2
<1>6. ASSUME NEW w \in Workers, ExaminePage(w) PROVE Locals(w)
  <2>1. pc[w] = "search" /\ at[w] <= count[w]
    BY <1>6 DEF ExaminePage
  <2>2. size'[w] = size[w] /\ old'[w] = old[w] /\ count'[w] = count[w]
    BY <1>6 DEF ExaminePage
  <2>3. \/ pc'[w] = "search" /\ at'[w] = at[w] + 1
        \/ pc'[w] = "place" /\ at'[w] = at[w]
    BY <1>6, <2>1, <1>2 DEF ExaminePage, Goto
  <2>4. size[w] \in Sizes /\ (old[w] # 0 => Moves) /\ count[w] <= Len(pages) /\ at[w] >= 1
    BY <2>1 DEF IndInv, LocalInv
  <2>. QED
    BY <2>1, <2>2, <2>3, <2>4, <1>1, <1>2
<1>7. ASSUME NEW w \in Workers, ExtendCount(w) PROVE Locals(w)
  <2>1. /\ pc[w] = "search" /\ pc'[w] = "extend" /\ at'[w] = Len(pages) + 1 /\ Len(pages) < MaxPages
        /\ size'[w] = size[w] /\ old'[w] = old[w] /\ count'[w] = count[w]
    BY <1>7, <1>2 DEF ExtendCount, Goto
  <2>2. size[w] \in Sizes /\ (old[w] # 0 => Moves) /\ count[w] <= Len(pages)
    BY <2>1 DEF IndInv, LocalInv
  <2>. QED
    BY <2>1, <2>2, <1>1, <1>2
<1>8. ASSUME NEW w \in Workers, ExtendZero(w) PROVE Locals(w)
  <2>1. /\ pc[w] = "extend" /\ pc'[w] = "init" /\ at'[w] = at[w]
        /\ size'[w] = size[w] /\ old'[w] = old[w] /\ count'[w] = count[w]
    BY <1>8, <1>2 DEF ExtendZero, Goto, locals
  <2>2. size[w] \in Sizes /\ (old[w] # 0 => Moves) /\ count[w] <= Len(pages)
        /\ at[w] >= 1 /\ at[w] <= Len(pages) + 1
    BY <2>1 DEF IndInv, LocalInv
  <2>3. at[w] <= Len(pages')
    <3>1. CASE at[w] > Len(pages)
      <4>1. pages' = Append(pages, NewPage)
        BY <3>1, <1>8 DEF ExtendZero
      <4>2. NewPage \in PageType
        BY NewGood DEF GoodPage
      <4>3. Len(pages') = Len(pages) + 1
        BY <4>1, <4>2, <1>1, SeqAppend
      <4>. QED
        BY <4>3, <2>2, <1>2
    <3>2. CASE ~(at[w] > Len(pages))
      BY <3>2, <1>1, <1>2
    <3>. QED
      BY <3>1, <3>2
  <2>. QED
    BY <2>1, <2>2, <2>3, <1>1, <1>2
<1>9. ASSUME NEW w \in Workers, InitPage(w) \/ CheckPage(w) PROVE Locals(w)
  <2>1. /\ pc[w] \in {"init", "check"} /\ pc'[w] \in {"check", "place"} /\ at'[w] = at[w]
        /\ size'[w] = size[w] /\ old'[w] = old[w] /\ count'[w] = count[w]
    BY <1>9, <1>2 DEF InitPage, CheckPage, Goto, locals
  <2>2. size[w] \in Sizes /\ (old[w] # 0 => Moves) /\ count[w] <= Len(pages) /\ at[w] \in DOMAIN pages
    BY <2>1 DEF IndInv, LocalInv
  <2>. QED
    BY <2>1, <2>2, <1>1, <1>2
<1>10. ASSUME NEW w \in Workers, InsertRow(w) PROVE Locals(w)
  <2>1. pc[w] = "place" /\ old[w] = 0 /\ old'[w] = 0
    BY <1>10 DEF InsertRow
  <2>2. \/ pc'[w] = "idle" /\ size'[w] = 0 /\ count'[w] = 0 /\ at'[w] = 0
        \/ pc'[w] = "search" /\ size'[w] = size[w] /\ count'[w] = Len(pages) /\ at'[w] = 1
    BY <1>10, <1>2 DEF InsertRow, StartSearch, Goto
  <2>3. size[w] \in Sizes
    BY <2>1 DEF IndInv, LocalInv
  <2>. QED
    BY <2>1, <2>2, <2>3, <1>1
<1>11. ASSUME NEW w \in Workers, MoveRow(w) PROVE Locals(w)
  <2>1. pc[w] = "place" /\ old[w] # 0
    BY <1>11 DEF MoveRow
  <2>2. \/ pc'[w] = "idle" /\ size'[w] = 0 /\ count'[w] = 0 /\ at'[w] = 0 /\ old'[w] = 0
        \/ /\ pc'[w] = "search" /\ size'[w] = size[w] /\ count'[w] = Len(pages) /\ at'[w] = 1
           /\ old'[w] = old[w]
    BY <1>11, <1>2 DEF MoveRow, StartSearch, Goto
  <2>3. size[w] \in Sizes /\ Moves
    BY <2>1 DEF IndInv, LocalInv
  <2>. QED
    BY <2>1, <2>2, <2>3, <1>1, <1>2
<1>12. ASSUME NEW w \in Workers, UpdateLonger(w) PROVE Locals(w)
  <2>1. CASE UNCHANGED <<pc, locals>>
    BY <2>1, <1>3 DEF locals
  <2>2. CASE ~UNCHANGED <<pc, locals>>
    <3>1. /\ Moves /\ pc'[w] = "search" /\ size'[w] \in Sizes /\ old'[w] \in DOMAIN pages
          /\ count'[w] = Len(pages) /\ at'[w] = 1
      BY <2>2, <1>12, <1>2 DEF UpdateLonger, StartSearch, Goto
    <3>. QED
      BY <3>1, <1>1
  <2>. QED
    BY <2>1, <2>2
<1>13. \A w \in Workers : Locals(w)
  <2>1. ASSUME NEW w \in Workers, InsertStart(w) \/ UpdateLonger(w) \/ Search(w)
        PROVE  \A v \in Workers : Locals(v)
    <3>1. Locals(w)
      BY <2>1, <1>5, <1>6, <1>7, <1>8, <1>9, <1>10, <1>11, <1>12 DEF Search
    <3>. HIDE DEF Locals, Same
    <3>2. \A v \in Workers \ {w} : Locals(v)
      BY <2>1, <1>3, <1>4
    <3>. QED
      BY <3>1, <3>2
  <2>2. ASSUME NEW p \in DOMAIN pages, UndoMove(p) PROVE \A v \in Workers : Locals(v)
    <3>1. \A v \in Workers : Same(v)
      BY <2>2 DEF UndoMove, locals
    <3>. HIDE DEF Locals, Same
    <3>. QED
      BY <3>1, <1>3
  <2>. HIDE DEF Locals
  <2>. QED
    BY <2>1, <2>2 DEF Next
<1>14. /\ pc' = [w \in Workers |-> pc'[w]] /\ size' = [w \in Workers |-> size'[w]]
       /\ old' = [w \in Workers |-> old'[w]] /\ count' = [w \in Workers |-> count'[w]]
       /\ at' = [w \in Workers |-> at'[w]]
  <2>. DEFINE Functions == /\ pc' = [w \in Workers |-> pc'[w]] /\ size' = [w \in Workers |-> size'[w]]
                           /\ old' = [w \in Workers |-> old'[w]] /\ count' = [w \in Workers |-> count'[w]]
                           /\ at' = [w \in Workers |-> at'[w]]
  <2>. USE <1>2 DEF StartSearch, Goto, locals
  <2>1. ASSUME NEW w \in Workers, InsertStart(w) \/ UpdateLonger(w) PROVE Functions
    BY <2>1 DEF InsertStart, UpdateLonger
  <2>2. ASSUME NEW w \in Workers, ExaminePage(w) \/ ExtendCount(w) \/ ExtendZero(w) \/ InitPage(w)
        PROVE  Functions
    BY <2>2 DEF ExaminePage, ExtendCount, ExtendZero, InitPage
  <2>3. ASSUME NEW w \in Workers, CheckPage(w) \/ InsertRow(w) \/ MoveRow(w) PROVE Functions
    BY <2>3 DEF CheckPage, InsertRow, MoveRow
  <2>4. ASSUME NEW p \in DOMAIN pages, UndoMove(p) PROVE Functions
    BY <2>4 DEF UndoMove
  <2>. HIDE DEF Functions
  <2>5. Functions
    BY <2>1, <2>2, <2>3, <2>4 DEF Next, Search
  <2>. QED
    BY <2>5 DEF Functions
<1>15. xlock' \in [1..MaxPages -> Workers \cup {NoWorker}]
  <2>1. ASSUME NEW w \in Workers, MoveRow(w) PROVE xlock' \in [1..MaxPages -> Workers \cup {NoWorker}]
    BY <2>1, <1>2 DEF MoveRow
  <2>2. ASSUME NEW w \in Workers, UpdateLonger(w) PROVE xlock' \in [1..MaxPages -> Workers \cup {NoWorker}]
    BY <2>2, <1>2 DEF UpdateLonger
  <2>3. ASSUME NEW w \in Workers, InsertStart(w) \/ Search(w), ~MoveRow(w) PROVE xlock' = xlock
    BY <2>3 DEF InsertStart, Search, ExaminePage, ExtendCount, ExtendZero, InitPage, CheckPage, InsertRow
  <2>4. ASSUME NEW p \in DOMAIN pages, UndoMove(p) PROVE xlock' = xlock
    BY <2>4 DEF UndoMove
  <2>. QED
    BY <2>1, <2>2, <2>3, <2>4, <1>2, Zenon DEF Next, Search
<1>16. TypeOK'
  BY <1>13, <1>14, <1>15 DEF TypeOK, PageType, ItemType
<1>17. LocalInv'
  BY <1>13 DEF LocalInv
<1>. QED
  BY <1>16, <1>17

-----------------------------------------------------------------------------
(* Theorems                                                                 *)

\* An empty table.
LEMMA IndInit == Init => IndInv
<1>. SUFFICES ASSUME Init PROVE IndInv
  OBVIOUS
<1>1. pages = <<>> /\ <<>> \in Seq(PageType) /\ Len(<<>>) = 0 /\ DOMAIN <<>> = {}
  BY DEF Init
<1>2. TypeOK /\ HeaderSane /\ ~overrun
  <2>1. overrun \in BOOLEAN /\ ~overrun
    BY DEF Init
  <2>2. /\ Len(pages) <= MaxPages
        /\ xlock \in [1..MaxPages -> Workers \cup {NoWorker}]
        /\ pc \in [Workers -> {"idle", "search", "extend", "init", "check", "place"}]
        /\ size \in [Workers -> Sizes \cup {0}] /\ old \in [Workers -> 0..MaxPages]
        /\ count \in [Workers -> 0..MaxPages] /\ at \in [Workers -> 0..(MaxPages + 1)]
    BY <1>1, Bytes DEF Init
  <2>3. HeaderSane
    BY <1>1, Zenon DEF HeaderSane
  <2>. QED
    BY <1>1, <2>1, <2>2, <2>3 DEF TypeOK, PageType, ItemType
<1>3. LocalInv
  <2>1. \A w \in Workers : pc[w] = "idle" /\ old[w] = 0 /\ count[w] = 0
    BY DEF Init
  <2>2. Len(pages) = 0
    <3>1. Len(<<>>) = 0
      BY <1>1
    <3>. QED
      BY <3>1, <1>1
  <2>3. \A w \in Workers : count[w] <= Len(pages)
    <3>1. 0 <= 0
      OBVIOUS
    <3>. QED
      BY <3>1, <2>1, <2>2, Zenon
  <2>. QED
    BY <2>1, <2>3, Zenon DEF LocalInv
<1>. QED
  BY <1>1, <1>2, <1>3 DEF IndInv

\* The inductive invariant: pages are good and the locals of a worker refer to
\* pages that exist; after an overrun the line pointers exceed the room by less
\* than the alignment.
THEOREM Invariance == Spec => []IndInv
<1>1. IndInv /\ [Next]_vars => IndInv'
  <2>. SUFFICES ASSUME IndInv, [Next]_vars PROVE IndInv'
    OBVIOUS
  <2>1. CASE Next
    <3>0. ~overrun
      BY <2>1 DEF Next
    <3>1. PagesStep
      BY <2>1, PagesGood
    <3>2. CASE ~overrun' /\ GoodStep
      <4>1. /\ pages' \in Seq(PageType)
            /\ Len(pages') \in Nat /\ Len(pages) <= Len(pages') /\ Len(pages') <= MaxPages
            /\ \A p \in DOMAIN pages' : GoodPage(pages'[p])
        BY <3>0, <3>2, PagesKept
      <4>2. DOMAIN pages' = 1..Len(pages')
        BY <4>1, SeqElem
      <4>3. overrun' = FALSE
        <5>1. overrun' \in BOOLEAN
          BY <2>1, NextFlag
        <5>. QED
          BY <5>1, <3>2
      <4>4. TypeOK' /\ LocalInv'
        BY <2>1, <4>1, <4>2, <4>3, LocalStep
      <4>5. HeaderSane'
        <5>1. ASSUME NEW p \in DOMAIN pages' PROVE pages'[p].lower <= pages'[p].upper + 0
          <6>1. pages'[p] \in PageType /\ pages'[p].lower <= pages'[p].upper
            BY <4>1 DEF GoodPage
          <6>2. pages'[p].lower \in Nat /\ pages'[p].upper \in Nat
            BY <6>1, Bytes DEF PageType
          <6>. QED
            BY <6>1, <6>2
        <5>. QED
          BY <5>1, <4>3 DEF HeaderSane
      <4>. QED
        BY <4>1, <4>4, <4>5 DEF IndInv
    <3>3. CASE overrun' = TRUE /\ OverStep
      <4>1. /\ Len(pages') \in Nat /\ Len(pages) <= Len(pages') /\ Len(pages') <= MaxPages
            /\ DOMAIN pages' = 1..Len(pages')
            /\ \A p \in DOMAIN pages' : pages'[p].lower <= pages'[p].upper + (Align - 1)
        BY <3>0, <3>3, PagesOver
      <4>2. TypeOK' /\ LocalInv'
        BY <2>1, <3>3, <4>1, LocalStep
      <4>3. HeaderSane'
        BY <3>3, <4>1 DEF HeaderSane
      <4>. QED
        BY <3>3, <4>2, <4>3 DEF IndInv
    <3>. QED
      BY <3>1, <3>2, <3>3 DEF PagesStep
  <2>2. CASE UNCHANGED vars
    BY <2>2 DEF vars, locals, IndInv, TypeOK, LocalInv, HeaderSane
  <2>. QED
    BY <2>1, <2>2
<1>. QED
  BY <1>1, IndInit, PTL DEF Spec

\* Offsets, lengths, latches and locals keep their types: no page number leaves
\* the table, and no offset the page until an insert overruns it.
THEOREM TypeCorrect == Spec => []TypeOK
BY Invariance, PTL DEF IndInv

\* However many workers found room on the same page, the line pointers run into
\* the rows only by the padding that InsertTuple did not ask room for.
THEOREM HeadersSane == Spec => []HeaderSane
<1>1. IndInv => HeaderSane
  BY DEF IndInv
<1>. QED
  BY <1>1, Invariance, PTL

\* lower counts the line pointers, also after two workers extended the table at
\* once (searchPageFreeSpace, ExtendRelation), until an insert overruns its page.
THEOREM CountsItems == Spec => []ItemsCounted
<1>1. IndInv => ItemsCounted
  BY DEF IndInv, GoodPage, ItemsCounted, IsNew, NewPage
<1>. QED
  BY <1>1, Invariance, PTL

\* No two inserted rows share a byte, whatever updates to longer rows and their
\* rollbacks do to the page (InsertTuple, UpdateTuple, UndoApplierVisitor), until an
\* insert overruns it.
THEOREM RowsApart == Spec => []RowsDisjoint
<1>1. IndInv => RowsDisjoint
  <2>. SUFFICES ASSUME IndInv, ~overrun, NEW p \in DOMAIN pages, NEW i \in DOMAIN pages[p].items,
                       NEW j \in DOMAIN pages[p].items, i # j,
                       ~pages[p].items[i].moved, ~pages[p].items[j].moved
                PROVE  Extent(pages[p].items[i]) \cap Extent(pages[p].items[j]) = {}
    BY DEF RowsDisjoint
  <2>1. GoodPage(pages[p])
    BY DEF IndInv
  <2>2. pages[p].items[i] \in ItemType /\ pages[p].items[j] \in ItemType /\ i \in Nat /\ j \in Nat
    BY <2>1, PageFields DEF GoodPage
  <2>3. /\ i < j => pages[p].items[j].off + pages[p].items[j].len <= pages[p].items[i].off
        /\ j < i => pages[p].items[i].off + pages[p].items[i].len <= pages[p].items[j].off
    BY <2>1 DEF GoodPage, Stacked
  <2>4. /\ pages[p].items[i].off \in Nat /\ pages[p].items[i].len \in Nat
        /\ pages[p].items[j].off \in Nat /\ pages[p].items[j].len \in Nat
    BY <2>2, Bytes DEF ItemType
  <2>. QED
    BY <2>2, <2>3, <2>4 DEF Extent
<1>. QED
  BY <1>1, Invariance, PTL

\* A row is placed clear of the line pointers, its own included, by updates to a
\* longer row and by every insert that has the room for its padding.
THEOREM PlacesClear == Spec => PlacedClear
<1>. DEFINE Placed ==
       ~overrun' => \A p \in DOMAIN pages :
         LET items == pages'[p].items IN
         Len(items) > Len(pages[p].items) => items[Len(items)].off >= pages'[p].lower
<1>1. IndInv /\ [Next]_vars => [Placed]_vars
  <2>. SUFFICES ASSUME IndInv, Next, ~overrun' PROVE Placed
    OBVIOUS
  <2>1. \A p \in DOMAIN pages : Clear(pages[p], pages'[p])
    <3>1. ~overrun /\ GoodStep
      BY PagesGood DEF Next, PagesStep
    <3>. QED
      BY <3>1, PagesKept
  <2>. QED
    BY <2>1 DEF Clear
<1>. QED
  BY <1>1, Invariance, PTL DEF Spec, PlacedClear
=============================================================================
