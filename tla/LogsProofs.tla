------------------------------ MODULE LogsProofs ------------------------------
(***************************************************************************)
(* Proofs about Logs: what a number of an undo record reads back, and how  *)
(* the WAL is chained, for any numbers of workers, changes, faults and     *)
(* crashes. That the bytes of a single row read back is a premise, which   *)
(* is about TupleFormat alone.                                             *)
(***************************************************************************)
EXTENDS Logs, SequenceTheorems, TLAPS

Bytes == Seq(Int)

\* The bytes d lie in the file behind its first at bytes.
Placed(f, at, d) == at + Len(d) <= Len(f) /\ \A i \in 1..Len(d) : f[at + i] = d[i]

-----------------------------------------------------------------------------
(* Files                                                                    *)

LEMMA ByteOf ==
  ASSUME NEW f \in Bytes
  PROVE  Len(f) \in Nat /\ \A i \in 1..Len(f) : f[i] \in Int
BY DEF Bytes

\* pwrite puts the bytes in place and keeps what lies before them.
LEMMA PwriteBytes ==
  ASSUME NEW f \in Bytes, NEW at \in Nat, NEW d \in Bytes
  PROVE  /\ Pwrite(f, at, d) \in Bytes
         /\ Placed(Pwrite(f, at, d), at, d)
         /\ Len(f) <= Len(Pwrite(f, at, d))
         /\ \A i \in 1..Len(f) : i <= at => Pwrite(f, at, d)[i] = f[i]
<1>. DEFINE n == IF at + Len(d) > Len(f) THEN at + Len(d) ELSE Len(f)
            Byte(i) == IF i > at /\ i <= at + Len(d) THEN d[i - at]
                       ELSE IF i <= Len(f) THEN f[i] ELSE 0
<1>1. /\ Len(f) \in Nat /\ \A i \in 1..Len(f) : f[i] \in Int
      /\ Len(d) \in Nat /\ \A i \in 1..Len(d) : d[i] \in Int
  BY DEF Bytes
<1>2. n \in Nat /\ n >= Len(f) /\ n >= at + Len(d)
  BY <1>1
<1>3. \A i \in 1..n : Byte(i) \in Int
  BY <1>1, <1>2
<1>4. Pwrite(f, at, d) = [i \in 1..n |-> Byte(i)]
  BY DEF Pwrite
<1>. HIDE DEF n
<1>5. Pwrite(f, at, d) \in Bytes /\ Len(Pwrite(f, at, d)) = n
  BY <1>2, <1>3, <1>4 DEF Bytes
<1>6. \A i \in 1..Len(d) : Pwrite(f, at, d)[at + i] = d[i]
  BY <1>1, <1>2, <1>4
<1>7. \A i \in 1..Len(f) : i <= at => Pwrite(f, at, d)[i] = f[i]
  BY <1>1, <1>2, <1>4
<1>. QED
  BY <1>2, <1>5, <1>6, <1>7 DEF Placed

LEMMA PwriteKeeps ==
  ASSUME NEW f \in Bytes, NEW at \in Nat, NEW d \in Bytes,
         NEW k \in Nat, NEW e \in Bytes, Placed(f, k, e), k + Len(e) <= at
  PROVE  Placed(Pwrite(f, at, d), k, e)
<1>1. Len(f) \in Nat /\ Len(e) \in Nat /\ Len(Pwrite(f, at, d)) \in Nat
  BY PwriteBytes DEF Bytes
<1>2. \A i \in 1..Len(e) : k + i \in 1..Len(f) /\ k + i <= at
  BY <1>1 DEF Placed
<1>. QED
  BY <1>1, <1>2, PwriteBytes DEF Placed

\* What lies in a file is read.
LEMMA ReadPlaced ==
  ASSUME NEW f \in Bytes, NEW at \in Nat, NEW d \in Bytes, Placed(f, at, d)
  PROVE  Read(f, at, Len(d)) = d
<1>. DEFINE s == SubSeq(f, at + 1, at + Len(d))
<1>1. Len(f) \in Nat /\ Len(d) \in Nat /\ at + Len(d) <= Len(f)
  BY DEF Bytes, Placed
<1>2. Read(f, at, Len(d)) = s
  BY <1>1 DEF Read
<1>3. \A i \in (at + 1)..(at + Len(d)) : f[i] \in Int
  BY <1>1 DEF Bytes
<1>4. /\ s \in Seq(Int) /\ Len(s) = Len(d)
      /\ \A i \in 1..Len(d) : s[i] = f[at + i]
  BY <1>1, <1>3, SubSeqProperties
<1>. HIDE DEF s
<1>. QED
  BY <1>2, <1>4, SeqEqual DEF Placed, Bytes

\* A placed sequence is its two parts, one behind the other.
LEMMA PlacedParts ==
  ASSUME NEW f, NEW at \in Nat, NEW d \in Bytes, NEW e \in Bytes, Len(f) \in Nat
  PROVE  Placed(f, at, d \o e) <=> Placed(f, at, d) /\ Placed(f, at + Len(d), e)
<1>1. /\ Len(d) \in Nat /\ Len(e) \in Nat
      /\ Len(d \o e) = Len(d) + Len(e)
      /\ \A i \in 1..(Len(d) + Len(e)) : (d \o e)[i] = IF i <= Len(d) THEN d[i] ELSE e[i - Len(d)]
  BY ConcatProperties DEF Bytes
<1>2. ASSUME Placed(f, at, d \o e) PROVE Placed(f, at, d) /\ Placed(f, at + Len(d), e)
  <2>1. ASSUME NEW i \in 1..Len(d) PROVE f[at + i] = d[i]
    <3>1. i \in 1..(Len(d) + Len(e)) /\ i <= Len(d) /\ i \in 1..Len(d \o e)
      BY <1>1
    <3>2. f[at + i] = (d \o e)[i]
      BY <1>2, <3>1 DEF Placed
    <3>. QED
      BY <1>1, <3>1, <3>2
  <2>2. ASSUME NEW i \in 1..Len(e) PROVE f[at + Len(d) + i] = e[i]
    <3>1. Len(d) + i \in 1..(Len(d) + Len(e)) /\ Len(d) + i > Len(d) /\ (Len(d) + i) - Len(d) = i
          /\ at + (Len(d) + i) = at + Len(d) + i
      BY <1>1
    <3>2. f[at + (Len(d) + i)] = (d \o e)[Len(d) + i]
      BY <1>1, <1>2, <3>1 DEF Placed
    <3>3. (d \o e)[Len(d) + i] = e[i]
      BY <1>1, <3>1
    <3>. QED
      BY <3>1, <3>2, <3>3
  <2>3. at + Len(d) <= Len(f) /\ at + Len(d) + Len(e) <= Len(f)
    BY <1>1, <1>2 DEF Placed
  <2>. QED
    BY <2>1, <2>2, <2>3 DEF Placed
<1>3. ASSUME Placed(f, at, d), Placed(f, at + Len(d), e) PROVE Placed(f, at, d \o e)
  <2>1. \A i \in 1..(Len(d) + Len(e)) : f[at + i] = (d \o e)[i]
    <3>. SUFFICES ASSUME NEW i \in 1..(Len(d) + Len(e)) PROVE f[at + i] = (d \o e)[i]
      OBVIOUS
    <3>1. CASE i <= Len(d)
      BY <1>1, <1>3, <3>1 DEF Placed
    <3>2. CASE i > Len(d)
      <4>1. i - Len(d) \in 1..Len(e) /\ at + Len(d) + (i - Len(d)) = at + i
        BY <1>1, <3>2
      <4>2. f[at + Len(d) + (i - Len(d))] = e[i - Len(d)]
        BY <1>3, <4>1 DEF Placed
      <4>. QED
        BY <1>1, <3>2, <4>1, <4>2
    <3>. QED
      BY <1>1, <3>1, <3>2
  <2>. QED
    BY <1>1, <1>3, <2>1 DEF Placed
<1>. QED
  BY <1>2, <1>3

-----------------------------------------------------------------------------
(* Records                                                                  *)

\* A change whose row reads back.
Change(c) ==
  /\ c.op \in {"insert", "update", "delete"} /\ c.tids \in Seq(Nat)
  /\ Len(c.tids) = (IF c.op = "update" THEN 2 ELSE 1)
  /\ RowReadsBack(c.row)

Record(w, c) == format_undo_record(w, UndoRecordOf(c))

\* The parts of a sequence put together.
LEMMA ConcatParts ==
  ASSUME NEW d \in Bytes, NEW e \in Bytes
  PROVE  /\ d \o e \in Bytes /\ Len(d \o e) = Len(d) + Len(e)
         /\ \A i \in 1..Len(d) : (d \o e)[i] = d[i]
         /\ SubSeq(d \o e, Len(d) + 1, Len(d \o e)) = e
<1>. DEFINE s == d \o e
            r == SubSeq(s, Len(d) + 1, Len(s))
<1>1. /\ Len(d) \in Nat /\ Len(e) \in Nat /\ s \in Bytes /\ Len(s) = Len(d) + Len(e)
      /\ \A i \in 1..(Len(d) + Len(e)) : s[i] = IF i <= Len(d) THEN d[i] ELSE e[i - Len(d)]
  BY ConcatProperties DEF Bytes
<1>. HIDE DEF s
<1>2. \A i \in (Len(d) + 1)..Len(s) : s[i] \in Int
  BY <1>1 DEF Bytes
<1>3. r \in Seq(Int) /\ Len(r) = Len(e) /\ \A i \in 1..Len(e) : r[i] = s[Len(d) + i]
  BY <1>1, <1>2, SubSeqProperties
<1>. HIDE DEF r
<1>4. ASSUME NEW i \in 1..Len(e) PROVE r[i] = e[i]
  <2>1. Len(d) + i \in 1..(Len(d) + Len(e)) /\ Len(d) + i > Len(d) /\ (Len(d) + i) - Len(d) = i
    BY <1>1
  <2>. QED
    BY <1>1, <1>3, <2>1
<1>5. r = e
  BY <1>3, <1>4, SeqEqual DEF Bytes
<1>6. \A i \in 1..Len(d) : s[i] = d[i]
  BY <1>1
<1>. QED
  BY <1>1, <1>5, <1>6 DEF s, r

\* The tuple with its header.
LEMMA HeapBytes ==
  ASSUME NEW x \in Int, NEW u \in Int, NEW row, SerializeTuple(row) \in Bytes
  PROVE  /\ SerializeHeap(x, u, row) \in Bytes
         /\ DeserializeTuple(SerializeTuple(row), HasNull(row)) = Stored(row) =>
              DeserializeHeap(SerializeHeap(x, u, row)) = [xid |-> x, undo |-> u, row |-> Stored(row)]
<1>. DEFINE flags == IF HasNull(row) THEN HasNulls ELSE 0
            h == <<x, u, flags>>
            t == SerializeTuple(row)
            b == h \o t
<1>0. HasNull(row) \in BOOLEAN
  BY Zenon DEF HasNull
<1>1. flags \in Int /\ (((flags \div HasNulls) % 2 = 1) = HasNull(row))
  <2>1. CASE HasNull(row)
    <3>1. flags = 2
      BY <2>1 DEF HasNulls
    <3>. HIDE DEF flags
    <3>2. (flags \div 2) % 2 = 1 /\ HasNulls = 2 /\ flags \in Int
      BY <3>1 DEF HasNulls
    <3>3. ((flags \div HasNulls) % 2 = 1) = TRUE
      BY <3>2
    <3>. QED
      BY <1>0, <2>1, <3>2, <3>3
  <2>2. CASE ~HasNull(row)
    <3>1. flags = 0
      BY <2>2
    <3>. HIDE DEF flags
    <3>2. (flags \div 2) % 2 # 1 /\ HasNulls = 2 /\ flags \in Int
      BY <3>1 DEF HasNulls
    <3>3. ((flags \div HasNulls) % 2 = 1) = FALSE
      BY <3>2
    <3>. QED
      BY <1>0, <2>2, <3>2, <3>3
  <2>. QED
    BY <2>1, <2>2
<1>. HIDE DEF flags
<1>2. h \in Bytes /\ Len(h) = 3 /\ h[1] = x /\ h[2] = u /\ h[3] = flags
  BY <1>1 DEF Bytes
<1>3. SerializeHeap(x, u, row) = b
  BY DEF SerializeHeap, flags
<1>. HIDE DEF h, t
<1>4. /\ b \in Bytes /\ b[1] = x /\ b[2] = u /\ b[3] = flags
      /\ SubSeq(b, 4, Len(b)) = t
  <2>1. t \in Bytes
    BY DEF t
  <2>2. /\ b \in Bytes /\ \A i \in 1..Len(h) : b[i] = h[i]
        /\ SubSeq(b, Len(h) + 1, Len(b)) = t
    BY <1>2, <2>1, ConcatParts
  <2>3. 1 \in 1..Len(h) /\ 2 \in 1..Len(h) /\ 3 \in 1..Len(h) /\ Len(h) + 1 = 4
    BY <1>2
  <2>. HIDE DEF b
  <2>4. b[1] = h[1] /\ b[2] = h[2] /\ b[3] = h[3]
    BY <2>2, <2>3
  <2>. QED
    BY <1>2, <2>2, <2>3, <2>4
<1>. HIDE DEF b
<1>5. DeserializeHeap(b) = [xid |-> x, undo |-> u, row |-> DeserializeTuple(t, HasNull(row))]
  BY <1>1, <1>4 DEF DeserializeHeap
<1>. QED
  BY <1>3, <1>4, <1>5 DEF t

\* The record of a change: what it holds, its bytes and that they are parsed.
LEMMA UndoBytes ==
  ASSUME NEW c, Change(c)
  PROVE  LET r == UndoRecordOf(c) IN
         /\ r.type \in Int /\ SerializeUndo(r) \in Bytes
         /\ ParseUndo(r.type, SerializeUndo(r)) = r
         /\ c.op # "insert" => r.data = SerializeHeap(OldXid, OldUndo, c.row)
<1>. DEFINE type == CASE c.op = "insert" -> DeleteType
                      [] c.op = "update" -> UpdateType
                      [] c.op = "delete" -> InsertType
            data == IF c.op = "insert" THEN <<>> ELSE SerializeHeap(OldXid, OldUndo, c.row)
            r == UndoRecord(type, c, data)
            d == <<Table>> \o c.tids
            b == d \o data
            n == Len(c.tids)
            Rec(places) == [table |-> b[1], tids |-> SubSeq(b, 2, 1 + places), type |-> type,
                            data |-> SubSeq(b, 2 + places, Len(b))]
<1>1. UndoRecordOf(c) = r
  <2>1. CASE c.op = "insert"
    BY <2>1 DEF UndoRecordOf, DeleteUndoRecord
  <2>2. CASE c.op = "update"
    BY <2>2 DEF UndoRecordOf, UpdateUndoRecord
  <2>3. CASE c.op = "delete"
    BY <2>3 DEF UndoRecordOf, InsertUndoRecord
  <2>. QED
    BY <2>1, <2>2, <2>3 DEF Change
<1>2. data \in Bytes
  <2>1. SerializeHeap(OldXid, OldUndo, c.row) \in Bytes
    BY HeapBytes DEF Change, RowReadsBack, Bytes, OldXid, OldUndo
  <2>2. <<>> \in Bytes
    BY DEF Bytes
  <2>. QED
    BY <2>1, <2>2
<1>3. c.tids \in Bytes /\ n \in Nat /\ Len(c.tids) = n
  BY DEF Change, Bytes
<1>4. /\ d \in Bytes /\ Len(d) = 1 + n /\ d[1] = Table
      /\ SubSeq(d, 2, Len(d)) = c.tids
  <2>1. <<Table>> \in Bytes /\ Len(<<Table>>) = 1 /\ <<Table>>[1] = Table
    BY DEF Bytes, Table
  <2>. QED
    BY <1>3, <2>1, ConcatParts
<1>. HIDE DEF d, data
<1>5. /\ b \in Bytes /\ Len(b) = Len(d) + Len(data) /\ \A i \in 1..Len(d) : b[i] = d[i]
      /\ SubSeq(b, Len(d) + 1, Len(b)) = data
  BY <1>2, <1>4, ConcatParts
<1>. HIDE DEF b
<1>6. b[1] = Table /\ SubSeq(b, 2 + n, Len(b)) = data
  <2>1. 1 \in 1..Len(d) /\ Len(d) + 1 = 2 + n
    BY <1>3, <1>4
  <2>. QED
    BY <1>4, <1>5, <2>1
<1>7. SubSeq(b, 2, 1 + n) = c.tids
  <2>. DEFINE t == SubSeq(b, 2, 1 + n)
              u == SubSeq(d, 2, 1 + n)
  <2>1. /\ Len(b) \in Nat /\ Len(data) \in Nat
        /\ \A i \in 1..Len(b) : b[i] \in Int
        /\ \A i \in 1..Len(d) : d[i] \in Int
    BY <1>2, <1>4, <1>5, ByteOf
  <2>2. \A i \in 2..(1 + n) : i \in 1..Len(d) /\ i \in 1..Len(b)
    BY <1>3, <1>4, <1>5, <2>1
  <2>3. \A i \in 2..(1 + n) : b[i] \in Int /\ d[i] \in Int /\ b[i] = d[i]
    BY <1>5, <2>1, <2>2
  <2>4. /\ t \in Seq(Int) /\ u \in Seq(Int) /\ Len(t) = n /\ Len(u) = n
        /\ \A i \in 1..n : t[i] = b[1 + i] /\ u[i] = d[1 + i]
    BY <1>3, <2>3, SubSeqProperties
  <2>5. \A i \in 1..n : b[1 + i] = d[1 + i]
    BY <1>3, <2>3
  <2>6. u = c.tids
    BY <1>3, <1>4
  <2>. HIDE DEF t, u
  <2>7. t = u
    BY <2>4, <2>5, SeqEqual
  <2>. QED
    BY <2>6, <2>7 DEF t
<1>8. Rec(n) = r
  BY <1>6, <1>7 DEF UndoRecord
<1>9. SerializeUndo(r) = b
  BY DEF SerializeUndo, UndoRecord, b, d
<1>10. ParseUndo(type, b) = Rec(n)
  <2>1. CASE c.op = "insert"
    <3>1. type = DeleteType /\ n = 1 /\ Len(b) = 2
      <4>1. data = <<>>
        BY <2>1 DEF data
      <4>. QED
        BY <2>1, <4>1, <1>4, <1>5 DEF Change
    <3>. HIDE DEF n, type
    <3>. QED
      BY <3>1 DEF ParseUndo, DeleteType, UpdateType, InsertType
  <2>2. CASE c.op = "update"
    <3>1. type = UpdateType /\ n = 2
      BY <2>2 DEF Change
    <3>. HIDE DEF n, type
    <3>. QED
      BY <3>1 DEF ParseUndo, DeleteType, UpdateType, InsertType
  <2>3. CASE c.op = "delete"
    <3>1. type = InsertType /\ n = 1
      BY <2>3 DEF Change
    <3>. HIDE DEF n, type
    <3>. QED
      BY <3>1 DEF ParseUndo, DeleteType, UpdateType, InsertType
  <2>. QED
    BY <2>1, <2>2, <2>3 DEF Change
<1>11. r.type = type /\ type \in Int /\ r.data = data
  BY DEF UndoRecord, Change, DeleteType, UpdateType, InsertType
<1>. QED
  BY <1>1, <1>5, <1>8, <1>9, <1>10, <1>11 DEF data

\* The zeros behind a record.
LEMMA PadBytes ==
  ASSUME NEW n \in Nat
  PROVE  [i \in 1..(MaxAlign(n) - n) |-> 0] \in Bytes
<1>. DEFINE m == MaxAlign(n) - n
<1>1. Alignment \in Nat /\ Alignment > 0
  BY LogsAssumption
<1>2. m \in Int
  <2>1. (n + Alignment - 1) \div Alignment \in Int
    BY <1>1
  <2>. QED
    BY <1>1, <2>1 DEF MaxAlign
<1>. HIDE DEF m
<1>3. ASSUME NEW k \in Nat PROVE [i \in 1..k |-> 0] \in Bytes
  <2>1. [i \in 1..k |-> 0] \in [1..k -> Int]
    OBVIOUS
  <2>. QED
    BY <2>1, SeqDef DEF Bytes
<1>4. \E k \in Nat : 1..m = 1..k
  <2>1. CASE m >= 0
    BY <1>2, <2>1
  <2>2. CASE m < 0
    <3>1. 1..m = 1..0
      BY <1>2, <2>2
    <3>. QED
      BY <3>1
  <2>. QED
    BY <1>2, <2>1, <2>2
<1>5. PICK k \in Nat : 1..m = 1..k
  BY <1>4
<1>. QED
  BY <1>3, <1>5 DEF m

\* A record that lies in the undo log whole is what GetRecord returns.
LEMMA RecordReadBack ==
  ASSUME NEW w \in Nat, NEW c, Change(c), NEW at \in Nat,
         undoFile \in Bytes, Placed(undoFile, at, Record(w, c))
  PROVE  GetRecord(at + 1) = UndoRecordOf(c)
<1>. DEFINE r == UndoRecordOf(c)
            body == SerializeUndo(r)
            n == Len(body)
            h == <<w, Heap, r.type, n>>
            pad == [i \in 1..(MaxAlign(n) - n) |-> 0]
<1>1. body \in Bytes /\ n \in Nat /\ r.type \in Int /\ ParseUndo(r.type, body) = r
  BY UndoBytes, ByteOf
<1>2. Record(w, c) = h \o body \o pad
  BY DEF Record, format_undo_record
<1>. HIDE DEF body, r
<1>3. h \in Bytes /\ Len(h) = 4 /\ h[2] = Heap /\ h[3] = r.type /\ h[4] = n
  BY <1>1 DEF Bytes, Heap
<1>4. pad \in Bytes
  BY <1>1, PadBytes
<1>. HIDE DEF h, pad, n
<1>5. h \o body \in Bytes
  BY <1>1, <1>3, ConcatParts
<1>6. Placed(undoFile, at, h) /\ Placed(undoFile, at + 4, body)
  <2>1. Len(undoFile) \in Nat
    BY ByteOf
  <2>2. Placed(undoFile, at, h \o body)
    BY <1>2, <1>4, <1>5, <2>1, PlacedParts
  <2>. QED
    BY <1>1, <1>3, <2>1, <2>2, PlacedParts
<1>7. Read(undoFile, at, 4) = h /\ Read(undoFile, at + 4, n) = body
  <2>1. at + 4 \in Nat /\ n = Len(body)
    BY DEF n
  <2>2. Read(undoFile, at, Len(h)) = h
    BY <1>3, <1>6, ReadPlaced
  <2>3. Read(undoFile, at + 4, Len(body)) = body
    BY <1>1, <1>6, <2>1, ReadPlaced
  <2>. QED
    BY <1>3, <2>1, <2>2, <2>3
<1>8. at + 1 - 1 = at
  OBVIOUS
<1>. QED
  BY <1>1, <1>3, <1>7, <1>8 DEF GetRecord, UndoHeaderSize, r, body, n

\* A record depends on what is changed and not on how far the change is.
LEMMA RecordOfSame ==
  ASSUME NEW c, NEW d, d.op = c.op, d.tids = c.tids, d.row = c.row, NEW w
  PROVE  Record(w, d) = Record(w, c) /\ (Change(c) => Change(d))
BY DEF Record, UndoRecordOf, DeleteUndoRecord, UpdateUndoRecord, InsertUndoRecord, UndoRecord, Change

LEMMA RecordBytes ==
  ASSUME NEW w \in Nat, NEW c, Change(c)
  PROVE  Record(w, c) \in Bytes /\ Len(Record(w, c)) \in Nat
<1>. DEFINE r == UndoRecordOf(c)
            body == SerializeUndo(r)
            n == Len(body)
            h == <<w, Heap, r.type, n>>
            pad == [i \in 1..(MaxAlign(n) - n) |-> 0]
<1>1. body \in Bytes /\ n \in Nat /\ r.type \in Int
  BY UndoBytes, ByteOf
<1>2. Record(w, c) = h \o body \o pad
  BY DEF Record, format_undo_record
<1>. HIDE DEF body, r
<1>3. h \in Bytes
  BY <1>1 DEF Bytes, Heap
<1>4. pad \in Bytes
  BY <1>1, PadBytes
<1>. HIDE DEF h, pad, n
<1>5. h \o body \in Bytes
  BY <1>1, <1>3, ConcatParts
<1>. QED
  BY <1>2, <1>4, <1>5, ConcatParts, ByteOf

LEMMA WalBytes ==
  ASSUME NEW w \in Nat, NEW c, Change(c), c.undo \in Nat
  PROVE  WalRecordOf(w, c) \in Bytes
<1>1. c.tids \in Bytes /\ <<Table>> \in Bytes
  BY DEF Change, Bytes, Table
<1>2. /\ SerializeHeap(w, None, c.row) \in Bytes
      /\ SerializeHeap(w, c.undo, c.row) \in Bytes
  BY HeapBytes DEF Change, RowReadsBack, Bytes, None
<1>3. Reverse(c.tids) \in Bytes
  <2>1. Len(c.tids) \in Nat /\ \A i \in 1..Len(c.tids) : c.tids[Len(c.tids) - i + 1] \in Int
    BY <1>1, ByteOf
  <2>. DEFINE n == Len(c.tids)
  <2>2. Reverse(c.tids) \in [1..n -> Int]
    BY <2>1 DEF Reverse
  <2>. HIDE DEF n
  <2>. QED
    BY <2>1, <2>2, SeqDef DEF Bytes, n
<1>4. CASE c.op = "insert"
  <2>1. WalRecordOf(w, c) = c.tids \o SerializeHeap(w, None, c.row)
    BY <1>4 DEF WalRecordOf, InsertHeapWALRecord
  <2>. QED
    BY <1>1, <1>2, <2>1, ConcatParts
<1>5. CASE c.op = "update"
  <2>1. WalRecordOf(w, c) = (<<Table>> \o Reverse(c.tids)) \o SerializeHeap(w, c.undo, c.row)
    BY <1>5 DEF WalRecordOf, UpdateHeapWALRecord
  <2>2. <<Table>> \o Reverse(c.tids) \in Bytes
    BY <1>1, <1>3, ConcatParts
  <2>. QED
    BY <1>2, <2>1, <2>2, ConcatParts
<1>6. CASE c.op = "delete"
  <2>1. WalRecordOf(w, c) = <<Table>> \o c.tids
    BY <1>6 DEF WalRecordOf, DeleteHeapWALRecord
  <2>. QED
    BY <1>1, <2>1, ConcatParts
<1>. QED
  BY <1>4, <1>5, <1>6 DEF Change

\* The bytes that a write takes.
LEMMA WrittenBytes ==
  ASSUME NEW d \in Bytes, NEW n \in 1..Len(d)
  PROVE  SubSeq(d, 1, n) \in Bytes /\ (n = Len(d) => SubSeq(d, 1, n) = d)
<1>1. Len(d) \in Nat /\ \A i \in 1..n : d[i] \in Int
  BY ByteOf
<1>2. SubSeq(d, 1, n) \in Bytes
  BY <1>1, SubSeqProperties DEF Bytes
<1>. QED
  BY <1>2, SubSeqFull DEF Bytes

-----------------------------------------------------------------------------
(* The inductive invariant                                                  *)

ChangeType ==
  [op : {"insert", "update", "delete"}, tids : Seq(Nat), row : {c.row : c \in Changes},
   undo : Nat, whole : BOOLEAN]

Labels == {"idle", "formatted", "written", "synced", "undoable"}

\* The record of a change lies in the undo log and on the disk, below its end.
Kept(c) ==
  /\ c.undo > 0
  /\ \E w \in Workers : /\ Placed(undoFile, c.undo - 1, Record(w, c))
                        /\ Placed(undoDisk, c.undo - 1, Record(w, c))
                        /\ c.undo - 1 + Len(Record(w, c)) <= undoSize

UndoInv ==
  /\ undoFile \in Bytes /\ undoDisk \in Bytes /\ undoSize \in Nat
  /\ issued \subseteq ChangeType
  /\ \A c \in issued : Change(c) /\ (c.whole => Kept(c))

\* One worker writes at the end of the undo log.
Writing(w) ==
  /\ pc[w] # "idle" => change[w] \in ChangeType /\ Change(change[w])
  /\ pc[w] \in {"written", "synced"} =>
       /\ undoLatch = w
       /\ change[w].whole => Placed(undoFile, undoSize, Record(w, change[w]))
  /\ pc[w] = "synced" /\ change[w].whole => Placed(undoDisk, undoSize, Record(w, change[w]))

BusyInv ==
  /\ pc \in [Workers -> Labels] /\ change \in [Workers -> ChangeType \cup {NoChange}]
  /\ \A w \in Workers : Writing(w)

\* Each record of the WAL begins where the one before ends.
LogType == [at : Nat, xid : Workers, data : Bytes, whole : BOOLEAN]
End(r) == r.at + WalHeaderSize + Len(r.data)

WalInv ==
  /\ walFile \in Bytes /\ walEnd \in Nat /\ logged \in Seq(LogType)
  /\ \A i \in 1..Len(logged) :
       /\ End(logged[i]) = IF i < Len(logged) THEN logged[i + 1].at ELSE walEnd
       /\ End(logged[i]) <= walEnd
       /\ logged[i].whole =>
            Placed(walFile, logged[i].at, WalHeader(logged[i].xid, logged[i].data) \o logged[i].data)

LogsInv == UndoInv /\ BusyInv /\ WalInv

-----------------------------------------------------------------------------
(* Steps                                                                    *)

LEMMA WorkerNumbers == None \notin Workers /\ \A w \in Workers : w \in Nat
BY LogsAssumption DEF None

LEMMA InitLogs == Init => LogsInv
<1>. SUFFICES ASSUME Init PROVE LogsInv
  OBVIOUS
<1>1. <<>> \in Bytes /\ <<>> \in Seq(LogType) /\ Len(<<>>) = 0
  BY DEF Bytes
<1>2. UndoInv
  BY <1>1 DEF Init, UndoInv
<1>3. BusyInv
  BY DEF Init, BusyInv, Writing, Labels
<1>4. WalInv
  BY <1>1 DEF Init, WalInv
<1>. QED
  BY <1>2, <1>3, <1>4 DEF LogsInv

\* The workers that a step of w leaves alone, when the undo log stays as it is or
\* w has its latch.
LEMMA OthersWriting ==
  ASSUME NEW w \in Workers, BusyInv, \A v \in Workers : v # w => pc'[v] = pc[v] /\ change'[v] = change[v],
         \/ UNCHANGED <<undoFile, undoDisk, undoSize, undoLatch>>
         \/ undoLatch \in {None, w}
  PROVE  \A v \in Workers : v # w => Writing(v)'
<1>. SUFFICES ASSUME NEW v \in Workers, v # w PROVE Writing(v)'
  OBVIOUS
<1>1. Writing(v) /\ pc'[v] = pc[v] /\ change'[v] = change[v]
  BY DEF BusyInv
<1>2. CASE UNCHANGED <<undoFile, undoDisk, undoSize, undoLatch>>
  BY <1>1, <1>2 DEF Writing
<1>3. CASE undoLatch \in {None, w}
  <2>1. pc[v] \notin {"written", "synced"}
    BY <1>1, <1>3, WorkerNumbers DEF Writing
  <2>. QED
    BY <1>1, <2>1 DEF Writing
<1>. QED
  BY <1>2, <1>3

\* A worker that stops.
LEMMA StopsWriting ==
  ASSUME NEW w \in Workers, BusyInv, Stop(w), undoLatch \in {None, w} \/ UNCHANGED undoVars
  PROVE  BusyInv'
<1>1. /\ pc' = [pc EXCEPT ![w] = "idle"] /\ change' = [change EXCEPT ![w] = NoChange]
      /\ pc \in [Workers -> Labels] /\ change \in [Workers -> ChangeType \cup {NoChange}]
  BY DEF Stop, Goto, BusyInv
<1>2. \A v \in Workers : v # w => Writing(v)'
  BY <1>1, OthersWriting DEF undoVars
<1>3. Writing(w)'
  BY <1>1 DEF Writing
<1>. QED
  BY <1>1, <1>2, <1>3 DEF BusyInv, Labels

LEMMA ChangeRowKeeps ==
  ASSUME LogsInv, NEW w \in Workers, ChangeRow(w), \A c \in Changes : RowReadsBack(c.row)
  PROVE  LogsInv'
<1>1. PICK c \in Changes : change' = [change EXCEPT ![w] =
        [op |-> c.op, tids |-> c.tids, row |-> c.row, undo |-> None, whole |-> FALSE]]
  BY DEF ChangeRow
<1>. DEFINE d == [op |-> c.op, tids |-> c.tids, row |-> c.row, undo |-> None, whole |-> FALSE]
<1>2. d \in ChangeType /\ Change(d)
  <2>1. /\ c.op \in {"insert", "update", "delete"} /\ c.tids \in Seq(Nat)
        /\ Len(c.tids) = IF c.op = "update" THEN 2 ELSE 1
    BY LogsAssumption
  <2>. QED
    BY <2>1 DEF ChangeType, Change, None
<1>. HIDE DEF d
<1>3. /\ change' = [change EXCEPT ![w] = d] /\ pc' = [pc EXCEPT ![w] = "formatted"]
      /\ UNCHANGED <<undoVars, walVars, issued>>
      /\ pc \in [Workers -> Labels] /\ change \in [Workers -> ChangeType \cup {NoChange}]
  BY <1>1 DEF ChangeRow, Goto, d, LogsInv, BusyInv
<1>4. UndoInv'
  BY <1>3 DEF LogsInv, UndoInv, Kept, undoVars
<1>5. WalInv'
  BY <1>3 DEF LogsInv, WalInv, walVars
<1>6. BusyInv'
  <2>1. \A v \in Workers : v # w => Writing(v)'
    BY <1>3, OthersWriting DEF LogsInv, undoVars
  <2>2. Writing(w)'
    BY <1>2, <1>3 DEF Writing
  <2>. QED
    BY <1>2, <1>3, <2>1, <2>2 DEF BusyInv, Labels
<1>. QED
  BY <1>4, <1>5, <1>6 DEF LogsInv

LEMMA WriteUndoKeeps ==
  ASSUME LogsInv, NEW w \in Workers, WriteUndo(w)
  PROVE  LogsInv'
<1>. DEFINE r == Record(w, change[w])
<1>0. /\ pc[w] = "formatted" /\ undoLatch = None
      /\ UNCHANGED <<undoDisk, undoSize, walVars, issued>>
      /\ UndoInv /\ BusyInv /\ WalInv
      /\ pc \in [Workers -> Labels] /\ change \in [Workers -> ChangeType \cup {NoChange}]
      /\ change[w] \in ChangeType /\ Change(change[w])
  BY DEF WriteUndo, LogsInv, BusyInv, Writing
<1>1. r \in Bytes /\ Len(r) \in Nat
  BY <1>0, RecordBytes, WorkerNumbers
<1>2. PICK n \in Outcomes(r) :
        IF n = -1
          THEN Stop(w) /\ UNCHANGED <<undoFile, undoLatch>>
          ELSE /\ undoFile' = Pwrite(undoFile, undoSize, SubSeq(r, 1, n))
               /\ undoLatch' = w /\ Goto(w, "written")
               /\ change' = [change EXCEPT ![w].whole = n = Len(r)]
  BY DEF WriteUndo, Record
<1>3. WalInv'
  BY <1>0 DEF WalInv, walVars
<1>4. CASE n = -1
  <2>1. UndoInv'
    BY <1>0, <1>2, <1>4 DEF UndoInv, Kept
  <2>2. BusyInv'
    BY <1>0, <1>2, <1>4, StopsWriting
  <2>. QED
    BY <1>3, <2>1, <2>2 DEF LogsInv
<1>5. CASE n # -1
  <2>. DEFINE d == SubSeq(r, 1, n)
              whole == n = Len(r)
              c == [change[w] EXCEPT !.whole = whole]
  <2>0. whole \in BOOLEAN
    BY Zenon
  <2>1. /\ undoFile' = Pwrite(undoFile, undoSize, d) /\ undoLatch' = w
        /\ pc' = [pc EXCEPT ![w] = "written"] /\ change' = [change EXCEPT ![w] = c]
    BY <1>2, <1>5 DEF Goto
  <2>2. n \in 1..Len(r)
    BY <1>5 DEF Outcomes
  <2>3. d \in Bytes /\ (n = Len(r) => d = r)
    BY <1>1, <2>2, WrittenBytes
  <2>. HIDE DEF d, r
  <2>4. undoFile' \in Bytes /\ Placed(undoFile', undoSize, d)
    BY <1>0, <2>1, <2>3, PwriteBytes DEF UndoInv
  <2>5. UndoInv'
    <3>1. ASSUME NEW x \in issued, x.whole PROVE Kept(x)'
      <4>1. PICK v \in Workers : /\ Placed(undoFile, x.undo - 1, Record(v, x))
                                /\ Placed(undoDisk, x.undo - 1, Record(v, x))
                                /\ x.undo - 1 + Len(Record(v, x)) <= undoSize
        BY <1>0, <3>1 DEF UndoInv, Kept
      <4>2. x.undo > 0 /\ x.undo \in Nat /\ x.undo - 1 \in Nat
        BY <1>0, <3>1 DEF UndoInv, Kept, ChangeType
      <4>3. Record(v, x) \in Bytes
        BY <1>0, RecordBytes, WorkerNumbers DEF UndoInv
      <4>4. Placed(undoFile', x.undo - 1, Record(v, x))
        BY <1>0, <2>1, <2>3, <4>1, <4>2, <4>3, PwriteKeeps DEF UndoInv
      <4>. QED
        BY <1>0, <4>1, <4>2, <4>4 DEF Kept
    <3>. QED
      BY <1>0, <2>4, <3>1 DEF UndoInv
  <2>. HIDE DEF whole
  <2>6. /\ c \in ChangeType /\ c.whole = whole
        /\ c.op = change[w].op /\ c.tids = change[w].tids /\ c.row = change[w].row
    BY <1>0, <2>0 DEF ChangeType
  <2>. HIDE DEF c
  <2>7. Change(c) /\ Record(w, c) = r
    BY <1>0, <2>6, RecordOfSame DEF r
  <2>8. BusyInv'
    <3>1. pc'[w] = "written" /\ change'[w] = c
      BY <1>0, <2>1
    <3>2. Writing(w)'
      BY <1>0, <2>1, <2>3, <2>4, <2>6, <2>7, <3>1 DEF Writing, whole
    <3>3. \A v \in Workers : v # w => Writing(v)'
      BY <1>0, <2>1, OthersWriting
    <3>. QED
      BY <1>0, <2>1, <2>6, <3>2, <3>3 DEF BusyInv, Labels
  <2>. QED
    BY <1>3, <2>5, <2>8 DEF LogsInv
<1>. QED
  BY <1>4, <1>5

LEMMA FsyncKeeps ==
  ASSUME LogsInv, NEW w \in Workers, Fsync(w)
  PROVE  LogsInv'
<1>0. /\ pc[w] = "written" /\ undoLatch = w
      /\ UNCHANGED <<undoFile, undoSize, walVars, issued>>
      /\ UndoInv /\ BusyInv /\ WalInv
      /\ pc \in [Workers -> Labels] /\ change \in [Workers -> ChangeType \cup {NoChange}]
      /\ Writing(w)
  BY DEF Fsync, LogsInv, BusyInv, Writing
<1>1. WalInv'
  BY <1>0 DEF WalInv, walVars
<1>2. CASE undoDisk' = undoFile /\ Goto(w, "synced") /\ UNCHANGED <<undoLatch, change, faults>>
  <2>1. UndoInv'
    BY <1>0, <1>2 DEF UndoInv, Kept
  <2>2. pc' = [pc EXCEPT ![w] = "synced"] /\ pc'[w] = "synced"
    BY <1>0, <1>2 DEF Goto
  <2>3. Writing(w)'
    BY <1>0, <1>2, <2>2 DEF Writing
  <2>4. \A v \in Workers : v # w => Writing(v)'
    BY <1>0, <1>2, <2>2, OthersWriting
  <2>5. BusyInv'
    BY <1>0, <1>2, <2>2, <2>3, <2>4 DEF BusyInv, Labels
  <2>. QED
    BY <1>1, <2>1, <2>5 DEF LogsInv
<1>3. CASE Stop(w) /\ undoLatch' = None /\ UNCHANGED undoDisk
  <2>1. UndoInv'
    BY <1>0, <1>3 DEF UndoInv, Kept
  <2>2. BusyInv'
    BY <1>0, <1>3, StopsWriting
  <2>. QED
    BY <1>1, <2>1, <2>2 DEF LogsInv
<1>. QED
  BY <1>2, <1>3 DEF Fsync

LEMMA ReturnUSNKeeps ==
  ASSUME LogsInv, NEW w \in Workers, ReturnUSN(w)
  PROVE  LogsInv'
<1>a. PICK n : n = undoSize + 1
  OBVIOUS
<1>b. PICK c : c = [change[w] EXCEPT !.undo = n]
  OBVIOUS
<1>c. PICK r : r = Record(w, change[w])
  OBVIOUS
<1>0. /\ pc[w] = "synced" /\ undoLatch = w
      /\ change' = [change EXCEPT ![w] = c] /\ pc' = [pc EXCEPT ![w] = "undoable"]
      /\ undoSize' = undoSize + Len(r) /\ undoLatch' = None
      /\ UNCHANGED <<undoFile, undoDisk, walVars>>
      /\ UndoInv /\ BusyInv /\ WalInv /\ Writing(w)
      /\ pc \in [Workers -> Labels] /\ change \in [Workers -> ChangeType \cup {NoChange}]
      /\ change[w] \in ChangeType /\ Change(change[w]) /\ undoSize \in Nat
  BY <1>a, <1>b, <1>c DEF ReturnUSN, Goto, Record, LogsInv, BusyInv, UndoInv, Writing
<1>1. r \in Bytes /\ Len(r) \in Nat /\ n \in Nat
  BY <1>0, <1>a, <1>c, RecordBytes, WorkerNumbers
<1>2. /\ c \in ChangeType /\ c.whole = change[w].whole /\ c.undo = n
      /\ c.op = change[w].op /\ c.tids = change[w].tids /\ c.row = change[w].row
  BY <1>0, <1>1, <1>b DEF ChangeType
<1>3. change'[w] = c /\ pc'[w] = "undoable"
  BY <1>0
<1>4. issued' = issued \cup {c}
  BY <1>3 DEF ReturnUSN
<1>5. Change(c) /\ Record(w, c) = r
  BY <1>0, <1>2, <1>c, RecordOfSame
<1>6. c.whole => Kept(c)'
  <2>. SUFFICES ASSUME c.whole PROVE Kept(c)'
    OBVIOUS
  <2>1. Placed(undoFile, undoSize, r) /\ Placed(undoDisk, undoSize, r)
    BY <1>0, <1>2, <1>c DEF Writing
  <2>2. c.undo > 0 /\ c.undo - 1 = undoSize
    BY <1>0, <1>2, <1>a
  <2>. QED
    BY <1>0, <1>1, <1>5, <2>1, <2>2 DEF Kept
<1>7. ASSUME NEW x \in issued, x.whole PROVE Kept(x)'
  <2>1. PICK v \in Workers : /\ Placed(undoFile, x.undo - 1, Record(v, x))
                            /\ Placed(undoDisk, x.undo - 1, Record(v, x))
                            /\ x.undo - 1 + Len(Record(v, x)) <= undoSize
    BY <1>0, <1>7 DEF UndoInv, Kept
  <2>2. x.undo > 0 /\ x.undo \in Nat /\ Len(Record(v, x)) \in Nat
    BY <1>0, <1>7, RecordBytes, WorkerNumbers DEF UndoInv, Kept, ChangeType
  <2>3. x.undo - 1 + Len(Record(v, x)) <= undoSize'
    BY <1>0, <1>1, <2>1, <2>2
  <2>. QED
    BY <1>0, <2>1, <2>2, <2>3 DEF Kept
<1>8. UndoInv'
  BY <1>0, <1>1, <1>2, <1>4, <1>5, <1>6, <1>7 DEF UndoInv
<1>9. BusyInv'
  <2>1. Writing(w)'
    BY <1>2, <1>3, <1>5 DEF Writing
  <2>2. \A v \in Workers : v # w => Writing(v)'
    BY <1>0, OthersWriting
  <2>. QED
    BY <1>0, <1>2, <2>1, <2>2 DEF BusyInv, Labels
<1>10. WalInv'
  BY <1>0 DEF WalInv, walVars
<1>. QED
  BY <1>8, <1>9, <1>10 DEF LogsInv

\* Two writes behind the end of the WAL leave its records alone.
LEMMA LoggedKept ==
  ASSUME WalInv, NEW i \in 1..Len(logged), logged[i].whole,
         NEW d \in Bytes, NEW e \in Bytes
  PROVE  LET s == WalHeader(logged[i].xid, logged[i].data) \o logged[i].data
             f == Pwrite(walFile, walEnd, d) IN
         Placed(f, logged[i].at, s) /\ Placed(Pwrite(f, walEnd + WalHeaderSize, e), logged[i].at, s)
<1>. DEFINE x == logged[i].xid
            k == logged[i].at
            t == logged[i].data
            h == WalHeader(x, t)
            s == h \o t
            f == Pwrite(walFile, walEnd, d)
<1>1. /\ k \in Nat /\ x \in Workers /\ t \in Bytes /\ Len(t) \in Nat
      /\ k + 3 + Len(t) <= walEnd /\ Placed(walFile, k, s)
      /\ walFile \in Bytes /\ walEnd \in Nat
  <2>1. logged \in Seq(LogType)
    BY DEF WalInv
  <2>2. logged[i] \in LogType
    BY <2>1, ElementOfSeq
  <2>3. k \in Nat /\ x \in Workers /\ t \in Bytes
    BY <2>2 DEF LogType
  <2>. QED
    BY <2>3, ByteOf DEF WalInv, End, WalHeaderSize
<1>. HIDE DEF x, k, t
<1>2. h \in Bytes /\ Len(h) = 3
  BY <1>1, WorkerNumbers DEF WalHeader, Bytes, Heap
<1>. HIDE DEF h
<1>3. s \in Bytes /\ Len(s) = 3 + Len(t)
  <2>1. h \in Bytes /\ t \in Bytes
    BY <1>1, <1>2
  <2>2. h \o t \in Bytes /\ Len(h \o t) = Len(h) + Len(t)
    BY <2>1, ConcatParts, Zenon
  <2>. QED
    BY <1>2, <2>2
<1>. HIDE DEF s
<1>4. k + Len(s) <= walEnd /\ k + Len(s) <= walEnd + WalHeaderSize /\ walEnd + WalHeaderSize \in Nat
  BY <1>1, <1>3 DEF WalHeaderSize
<1>5. f \in Bytes /\ Placed(f, k, s)
  BY <1>1, <1>3, <1>4, PwriteBytes, PwriteKeeps
<1>. HIDE DEF f
<1>6. Placed(Pwrite(f, walEnd + WalHeaderSize, e), k, s)
  BY <1>1, <1>3, <1>4, <1>5, PwriteKeeps
<1>. QED
  BY <1>5, <1>6 DEF f, s, h, k, x, t

\* A record at the end of the WAL.
LEMMA RecordLogged ==
  ASSUME WalInv, NEW w \in Workers, NEW t \in Bytes, NEW whole \in BOOLEAN,
         NEW d \in Bytes, NEW e \in Bytes,
         whole => d = WalHeader(w, t) /\ e = t,
         walFile' = Pwrite(Pwrite(walFile, walEnd, d), walEnd + WalHeaderSize, e),
         walEnd' = walEnd + WalHeaderSize + Len(t),
         logged' = Append(logged, [at |-> walEnd, xid |-> w, data |-> t, whole |-> whole])
  PROVE  WalInv'
<1>. DEFINE r == [at |-> walEnd, xid |-> w, data |-> t, whole |-> whole]
            f == Pwrite(walFile, walEnd, d)
            n == Len(logged)
<1>1. /\ walFile \in Bytes /\ walEnd \in Nat /\ logged \in Seq(LogType) /\ n \in Nat
      /\ Len(t) \in Nat /\ WalHeaderSize = 3
  BY ByteOf DEF WalInv, WalHeaderSize
<1>2. r \in LogType /\ r.at = walEnd /\ r.xid = w /\ r.data = t /\ r.whole = whole
  BY <1>1 DEF LogType
<1>3. PICK x : x = r
  OBVIOUS
<1>4. PICK m : m = n
  OBVIOUS
<1>. HIDE DEF r
<1>5. /\ logged' \in Seq(LogType) /\ Len(logged') = m + 1
      /\ \A i \in 1..m : logged'[i] = logged[i]
      /\ logged'[m + 1] = x
  BY <1>1, <1>2, <1>3, <1>4, AppendProperties DEF r
<1>6. f \in Bytes /\ Placed(f, walEnd, d)
  BY <1>1, PwriteBytes
<1>. HIDE DEF f, n
<1>7. walFile' \in Bytes /\ Placed(walFile', walEnd + 3, e) /\ walEnd' \in Nat
  BY <1>1, <1>6, PwriteBytes DEF f
<1>8. ASSUME NEW i \in 1..m
      PROVE  /\ End(logged'[i]) = logged'[i + 1].at /\ End(logged'[i]) <= walEnd'
             /\ logged'[i].whole =>
                  Placed(walFile', logged'[i].at,
                         WalHeader(logged'[i].xid, logged'[i].data) \o logged'[i].data)
  <2>1. logged'[i] = logged[i] /\ i \in 1..Len(logged) /\ m = Len(logged) /\ m \in Nat
    BY <1>1, <1>4, <1>5 DEF n
  <2>2. /\ End(logged[i]) = (IF i < m THEN logged[i + 1].at ELSE walEnd)
        /\ End(logged[i]) <= walEnd
    BY <2>1 DEF WalInv
  <2>3. logged'[i + 1].at = IF i < m THEN logged[i + 1].at ELSE walEnd
    <3>1. CASE i < m
      BY <1>5, <2>1, <3>1
    <3>2. CASE i = m
      BY <1>2, <1>3, <1>5, <2>1, <3>2
    <3>. QED
      BY <2>1, <3>1, <3>2
  <2>4. logged[i] \in LogType
    BY <1>1, <2>1, ElementOfSeq
  <2>5. End(logged[i]) \in Nat
    <3>1. logged[i].at \in Nat /\ logged[i].data \in Bytes
      BY <2>4 DEF LogType
    <3>2. Len(logged[i].data) \in Nat
      BY <3>1, ByteOf
    <3>. QED
      <4>. DEFINE size == Len(logged[i].data)
                  at == logged[i].at
      <4>1. End(logged[i]) = at + WalHeaderSize + size
        BY Zenon DEF End
      <4>2. at \in Nat /\ size \in Nat
        BY Zenon, <3>1, <3>2
      <4>. HIDE DEF size, at
      <4>. QED
        BY <4>1, <4>2 DEF WalHeaderSize
  <2>6. End(logged[i]) <= walEnd'
    BY <1>1, <2>2, <2>5
  <2>7. logged[i].whole =>
          Placed(walFile', logged[i].at, WalHeader(logged[i].xid, logged[i].data) \o logged[i].data)
    BY <2>1, LoggedKept
  <2>. QED
    BY <2>1, <2>2, <2>3, <2>6, <2>7
<1>9. /\ End(x) = walEnd'
      /\ x.whole => Placed(walFile', x.at, WalHeader(x.xid, x.data) \o x.data)
  <2>1. End(x) = walEnd'
    BY <1>1, <1>2, <1>3 DEF End
  <2>2. ASSUME whole PROVE Placed(walFile', walEnd, WalHeader(w, t) \o t)
    <3>1. d = WalHeader(w, t) /\ e = t
      BY <2>2
    <3>2. Len(d) = 3
      BY <3>1 DEF WalHeader
    <3>3. Placed(walFile', walEnd, d)
      <4>1. walFile' = Pwrite(f, walEnd + 3, e) /\ walEnd + 3 \in Nat /\ walEnd + Len(d) <= walEnd + 3
        BY <1>1, <3>2 DEF f
      <4>. QED
        BY <1>1, <1>6, <4>1, PwriteKeeps
    <3>4. Placed(walFile', walEnd, d \o e)
      BY <1>1, <1>7, <3>2, <3>3, PlacedParts, ByteOf
    <3>. QED
      BY <3>1, <3>4
  <2>. QED
    BY <1>2, <1>3, <2>1, <2>2
<1>10. ASSUME NEW i \in 1..Len(logged')
       PROVE  /\ End(logged'[i]) = IF i < Len(logged') THEN logged'[i + 1].at ELSE walEnd'
              /\ End(logged'[i]) <= walEnd'
              /\ logged'[i].whole =>
                   Placed(walFile', logged'[i].at,
                          WalHeader(logged'[i].xid, logged'[i].data) \o logged'[i].data)
  <2>1. m \in Nat
    BY <1>1, <1>4
  <2>2. CASE i \in 1..m
    BY <1>5, <1>8, <2>1, <2>2
  <2>3. CASE i = m + 1
    BY <1>5, <1>7, <1>9, <2>1, <2>3
  <2>. QED
    BY <1>5, <2>1, <2>2, <2>3
<1>. QED
  BY <1>5, <1>7, <1>10 DEF WalInv, End

LEMMA WriteLogRecordKeeps ==
  ASSUME LogsInv, NEW w \in Workers, WriteLogRecord(w)
  PROVE  LogsInv'
<1>. DEFINE t == WalRecordOf(w, change[w])
            k == WalHeader(w, t)
<1>0. /\ pc[w] = "undoable" /\ Stop(w) /\ UNCHANGED <<undoVars, issued>>
      /\ UndoInv /\ BusyInv /\ WalInv
      /\ change[w] \in ChangeType /\ Change(change[w])
  BY DEF WriteLogRecord, LogsInv, BusyInv, Writing
<1>1. UndoInv'
  BY <1>0 DEF UndoInv, Kept, undoVars
<1>2. BusyInv'
  BY <1>0, StopsWriting
<1>3. t \in Bytes
  BY <1>0, WalBytes, WorkerNumbers DEF ChangeType
<1>4. PICK h \in Outcomes(k), d \in Outcomes(t) :
        IF h = -1 THEN UNCHANGED walVars
        ELSE IF d = -1 THEN walFile' = Pwrite(walFile, walEnd, SubSeq(k, 1, h)) /\ UNCHANGED <<walEnd, logged>>
        ELSE /\ walFile' = Pwrite(Pwrite(walFile, walEnd, SubSeq(k, 1, h)),
                                  walEnd + WalHeaderSize, SubSeq(t, 1, d))
             /\ walEnd' = walEnd + WalHeaderSize + Len(t)
             /\ logged' = Append(logged, [at |-> walEnd, xid |-> w, data |-> t,
                                          whole |-> h = Len(k) /\ d = Len(t)])
  BY DEF WriteLogRecord
<1>. HIDE DEF t
<1>5. k \in Bytes
  BY <1>3, ByteOf, WorkerNumbers DEF WalHeader, Bytes, Heap
<1>. HIDE DEF k
<1>6. WalInv'
  <2>1. CASE h = -1
    BY <1>0, <1>4, <2>1 DEF WalInv, walVars
  <2>2. CASE h # -1 /\ d = -1
    <3>1. h \in 1..Len(k)
      BY <2>2 DEF Outcomes
    <3>2. SubSeq(k, 1, h) \in Bytes
      BY <1>5, <3>1, WrittenBytes
    <3>3. walFile' = Pwrite(walFile, walEnd, SubSeq(k, 1, h)) /\ UNCHANGED <<walEnd, logged>>
      BY <1>4, <2>2
    <3>4. walFile' \in Bytes
      BY <1>0, <3>2, <3>3, PwriteBytes DEF WalInv
    <3>5. ASSUME NEW i \in 1..Len(logged), logged[i].whole
          PROVE  Placed(walFile', logged[i].at,
                        WalHeader(logged[i].xid, logged[i].data) \o logged[i].data)
      BY <1>0, <3>2, <3>3, <3>5, LoggedKept
    <3>. QED
      BY <1>0, <3>3, <3>4, <3>5 DEF WalInv
  <2>3. CASE h # -1 /\ d # -1
    <3>. DEFINE whole == h = Len(k) /\ d = Len(t)
    <3>1. whole \in BOOLEAN
      BY Zenon
    <3>2. h \in 1..Len(k) /\ d \in 1..Len(t)
      BY <2>3 DEF Outcomes
    <3>3. /\ SubSeq(k, 1, h) \in Bytes /\ SubSeq(t, 1, d) \in Bytes
          /\ whole => SubSeq(k, 1, h) = k /\ SubSeq(t, 1, d) = t
      BY <1>3, <1>5, <3>2, WrittenBytes
    <3>4. /\ walFile' = Pwrite(Pwrite(walFile, walEnd, SubSeq(k, 1, h)),
                               walEnd + WalHeaderSize, SubSeq(t, 1, d))
          /\ walEnd' = walEnd + WalHeaderSize + Len(t)
          /\ logged' = Append(logged, [at |-> walEnd, xid |-> w, data |-> t, whole |-> whole])
      BY <1>4, <2>3
    <3>. HIDE DEF whole
    <3>. QED
      BY <1>0, <1>3, <3>1, <3>3, <3>4, RecordLogged DEF k
  <2>. QED
    BY <2>1, <2>2, <2>3
<1>. QED
  BY <1>1, <1>2, <1>6 DEF LogsInv

\* What is both in the undo log and on the disk is there after a crash, wherever
\* the log is cut.
LEMMA CrashPlaced ==
  ASSUME NEW f \in Bytes, NEW g \in Bytes, NEW k \in 0..Len(f), NEW at \in Nat, NEW d \in Bytes,
         Placed(f, at, d), Placed(g, at, d)
  PROVE  Placed(SubSeq(f, 1, k) \o SubSeq(g, k + 1, Len(g)), at, d)
<1>. DEFINE a == SubSeq(f, 1, k)
            b == SubSeq(g, k + 1, Len(g))
            s == a \o b
<1>1. /\ Len(f) \in Nat /\ Len(g) \in Nat /\ Len(d) \in Nat /\ k \in Nat /\ k <= Len(f)
      /\ \A i \in 1..k : f[i] \in Int
      /\ \A i \in (k + 1)..Len(g) : g[i] \in Int
  BY ByteOf
<1>2. a \in Bytes /\ Len(a) = k /\ \A i \in 1..k : a[i] = f[i]
  BY <1>1, SubSeqProperties DEF Bytes
<1>3. /\ b \in Bytes /\ Len(b) = IF k + 1 <= Len(g) THEN Len(g) - k ELSE 0
      /\ \A i \in 1..(Len(g) - k) : b[i] = g[k + i]
  BY <1>1, SubSeqProperties DEF Bytes
<1>. HIDE DEF a, b
<1>4. /\ Len(s) = k + Len(b) /\ Len(b) \in Nat
      /\ \A i \in 1..(k + Len(b)) : s[i] = IF i <= k THEN a[i] ELSE b[i - k]
  <2>1. a \in Seq(Int) /\ b \in Seq(Int) /\ Len(a) = k /\ Len(b) \in Nat
    BY <1>2, <1>3, ByteOf DEF Bytes
  <2>. QED
    BY <2>1, ConcatProperties
<1>. HIDE DEF s
<1>5. Len(s) >= Len(g) /\ at + Len(d) <= Len(g)
  BY <1>1, <1>3, <1>4 DEF Placed
<1>6. ASSUME NEW i \in 1..Len(d) PROVE s[at + i] = d[i]
  <2>1. /\ at + i \in 1..(k + Len(b)) /\ at + i <= Len(g)
        /\ f[at + i] = d[i] /\ g[at + i] = d[i]
    BY <1>1, <1>4, <1>5 DEF Placed
  <2>2. CASE at + i <= k
    BY <1>2, <1>4, <2>1, <2>2
  <2>3. CASE at + i > k
    <3>1. at + i - k \in 1..(Len(g) - k) /\ k + (at + i - k) = at + i
      BY <1>1, <2>1, <2>3
    <3>2. b[at + i - k] = g[at + i]
      BY <1>3, <3>1
    <3>. QED
      BY <1>4, <2>1, <2>3, <3>2
  <2>. QED
    BY <1>1, <2>1, <2>2, <2>3
<1>7. Placed(s, at, d)
  BY <1>1, <1>4, <1>5, <1>6 DEF Placed
<1>. QED
  BY <1>7 DEF s, a, b

LEMMA CrashKeeps ==
  ASSUME LogsInv, CrashAndRestart
  PROVE  LogsInv'
<1>0. UndoInv /\ WalInv /\ undoFile \in Bytes /\ undoDisk \in Bytes
  BY DEF LogsInv, UndoInv
<1>1. PICK k \in 0..Len(undoFile) :
        undoFile' = SubSeq(undoFile, 1, k) \o SubSeq(undoDisk, k + 1, Len(undoDisk))
  BY DEF CrashAndRestart
<1>2. undoFile' \in Bytes /\ Len(undoFile') \in Nat
  <2>1. /\ Len(undoFile) \in Nat /\ Len(undoDisk) \in Nat /\ k \in Nat /\ k <= Len(undoFile)
        /\ \A i \in 1..k : undoFile[i] \in Int
        /\ \A i \in (k + 1)..Len(undoDisk) : undoDisk[i] \in Int
    BY <1>0, ByteOf
  <2>2. SubSeq(undoFile, 1, k) \in Bytes /\ SubSeq(undoDisk, k + 1, Len(undoDisk)) \in Bytes
    BY <2>1, SubSeqProperties DEF Bytes
  <2>. QED
    BY <1>1, <2>2, ConcatParts, ByteOf
<1>3. ASSUME NEW c \in issued, c.whole PROVE Kept(c)'
  <2>1. PICK v \in Workers : /\ Placed(undoFile, c.undo - 1, Record(v, c))
                            /\ Placed(undoDisk, c.undo - 1, Record(v, c))
    BY <1>0, <1>3 DEF UndoInv, Kept
  <2>a. c.undo > 0 /\ c.undo \in Nat /\ c.undo - 1 \in Nat /\ Change(c)
    BY <1>0, <1>3 DEF UndoInv, Kept, ChangeType
  <2>2. /\ c.undo > 0 /\ c.undo \in Nat /\ c.undo - 1 \in Nat
        /\ Record(v, c) \in Bytes /\ Len(Record(v, c)) \in Nat
    BY <2>a, RecordBytes, WorkerNumbers
  <2>3. Placed(undoFile', c.undo - 1, Record(v, c))
    BY <1>0, <1>1, <2>1, <2>2, CrashPlaced
  <2>4. undoDisk' = undoFile' /\ undoSize' = Len(undoFile')
    BY DEF CrashAndRestart
  <2>5. c.undo - 1 + Len(Record(v, c)) <= undoSize'
    BY <2>3, <2>4 DEF Placed
  <2>. QED
    BY <2>2, <2>3, <2>4, <2>5 DEF Kept
<1>4. UndoInv'
  BY <1>0, <1>2, <1>3 DEF UndoInv, CrashAndRestart
<1>5. BusyInv'
  BY DEF BusyInv, Writing, CrashAndRestart, Labels
<1>6. WalInv'
  <2>1. walFile' \in Bytes
    <3>1. <<>> \in Bytes /\ walFile \in Bytes
      BY <1>0 DEF WalInv, Bytes
    <3>. QED
      BY <3>1 DEF CrashAndRestart
  <2>2. walEnd' \in Nat /\ logged' = <<>>
    BY <2>1, ByteOf DEF CrashAndRestart
  <2>. QED
    BY <2>1, <2>2 DEF WalInv
<1>. QED
  BY <1>4, <1>5, <1>6 DEF LogsInv

-----------------------------------------------------------------------------
(* Theorems                                                                 *)

\* What the proofs assume of rows: their bytes read back (TupleFormat).
RowsReadBack == \A c \in Changes : RowReadsBack(c.row)

LEMMA NextLogs == RowsReadBack /\ LogsInv /\ [Next]_vars => LogsInv'
<1>. SUFFICES ASSUME RowsReadBack, LogsInv, [Next]_vars PROVE LogsInv'
  OBVIOUS
<1>1. CASE UNCHANGED vars
  <2>1. UNCHANGED <<undoVars, walVars, pc, change, issued>>
    BY <1>1 DEF vars
  <2>. QED
    BY <2>1 DEF LogsInv, UndoInv, Kept, BusyInv, Writing, WalInv, undoVars, walVars
<1>2. ASSUME NEW w \in Workers, ChangeRow(w) PROVE LogsInv'
  BY <1>2, ChangeRowKeeps DEF RowsReadBack
<1>3. ASSUME NEW w \in Workers, WriteUndo(w) PROVE LogsInv'
  BY <1>3, WriteUndoKeeps
<1>4. ASSUME NEW w \in Workers, Fsync(w) PROVE LogsInv'
  BY <1>4, FsyncKeeps
<1>5. ASSUME NEW w \in Workers, ReturnUSN(w) PROVE LogsInv'
  BY <1>5, ReturnUSNKeeps
<1>6. ASSUME NEW w \in Workers, WriteLogRecord(w) PROVE LogsInv'
  BY <1>6, WriteLogRecordKeeps
<1>7. CASE CrashAndRestart
  BY <1>7, CrashKeeps
<1>. QED
  BY <1>1, <1>2, <1>3, <1>4, <1>5, <1>6, <1>7 DEF Next

\* The inductive invariant: where records with a number lie, in the file and on the
\* disk (UndoLog.cpp:80-100), the write in progress behind them, and the chain of
\* the WAL (WriteAheadLog.cpp:17-37).
THEOREM LogsInvariant == RowsReadBack => (Spec => []LogsInv)
<1>. SUFFICES ASSUME RowsReadBack PROVE Spec => []LogsInv
  OBVIOUS
<1>1. Init => LogsInv
  BY InitLogs
<1>2. LogsInv /\ [Next]_vars => LogsInv'
  BY NextLogs
<1>. QED
  BY <1>1, <1>2, PTL DEF Spec

LEMMA IssuedReadBack ==
  ASSUME LogsInv, NEW c \in issued, c.whole
  PROVE  UndoReadsBack(c)
<1>1. c \in ChangeType /\ Change(c) /\ undoFile \in Bytes /\ Kept(c)
  BY DEF LogsInv, UndoInv
<1>2. PICK w \in Workers : Placed(undoFile, c.undo - 1, Record(w, c))
  BY <1>1 DEF Kept
<1>3. c.undo - 1 \in Nat /\ c.undo - 1 + 1 = c.undo
  BY <1>1 DEF Kept, ChangeType
<1>4. GetRecord(c.undo) = UndoRecordOf(c)
  BY <1>1, <1>2, <1>3, RecordReadBack, WorkerNumbers
<1>5. ASSUME c.op # "insert"
      PROVE  DeserializeHeap(UndoRecordOf(c).data) = [xid |-> OldXid, undo |-> OldUndo, row |-> Stored(c.row)]
  <2>1. UndoRecordOf(c).data = SerializeHeap(OldXid, OldUndo, c.row)
    BY <1>1, <1>5, UndoBytes
  <2>. QED
    BY <1>1, <2>1, HeapBytes DEF Change, RowReadsBack, Bytes, OldXid, OldUndo
<1>. QED
  BY <1>4, <1>5 DEF UndoReadsBack

LEMMA LoggedReadBack ==
  ASSUME LogsInv, NEW i \in 1..Len(logged), logged[i].whole
  PROVE  WalReadsBack(i)
<1>. DEFINE x == logged[i].xid
            k == logged[i].at
            t == logged[i].data
            h == WalHeader(x, t)
<1>1. /\ walFile \in Bytes /\ k \in Nat /\ x \in Nat /\ t \in Bytes /\ Len(t) \in Nat
      /\ Placed(walFile, k, h \o t) /\ WalHeaderSize = 3
  <2>1. logged \in Seq(LogType)
    BY DEF LogsInv, WalInv
  <2>2. logged[i] \in LogType
    BY <2>1, ElementOfSeq
  <2>3. k \in Nat /\ x \in Nat /\ t \in Bytes
    BY <2>2, WorkerNumbers DEF LogType
  <2>. QED
    BY <2>3, ByteOf DEF LogsInv, WalInv, WalHeaderSize
<1>2. (IF i < Len(logged) THEN logged[i + 1].at ELSE walEnd) = k + WalHeaderSize + Len(t)
  BY DEF LogsInv, WalInv, End
<1>. HIDE DEF x, k, t
<1>3. h \in Bytes /\ Len(h) = 3 /\ h[3] = Len(t)
  BY <1>1 DEF WalHeader, Bytes, Heap
<1>. HIDE DEF h
<1>4. Placed(walFile, k, h) /\ Placed(walFile, k + 3, t)
  BY <1>1, <1>3, PlacedParts, ByteOf
<1>5. Read(walFile, k, 3) = h
  BY <1>1, <1>3, <1>4, ReadPlaced
<1>6. k + 3 \in Nat /\ Read(walFile, k + 3, Len(t)) = t
  BY <1>1, <1>4, ReadPlaced
<1>. QED
  BY <1>1, <1>2, <1>3, <1>5, <1>6 DEF WalReadsBack, h, k, x, t

\* Of an undo record whose write took every byte, the number reads back the record and
\* the row that were written, whatever others append, cut or fail to write, and after
\* any crash; and the WAL leads from whole records to the next ones (UndoLog.cpp:40-100,
\* WriteAheadLog.cpp:17-37).  A record that was cut is numbered and not read back.
THEOREM LogsReadBackAlways == RowsReadBack => (Spec => []LogsReadBack)
<1>1. LogsInv => LogsReadBack
  <2>. SUFFICES ASSUME LogsInv PROVE LogsReadBack
    OBVIOUS
  <2>1. DOMAIN logged = 1..Len(logged)
    BY LenProperties DEF LogsInv, WalInv
  <2>. QED
    BY <2>1, IssuedReadBack, LoggedReadBack DEF LogsReadBack
<1>. QED
  BY <1>1, LogsInvariant, PTL

=============================================================================
