--------------------------------- MODULE Logs ---------------------------------
(***************************************************************************)
(* The undo log and the write-ahead log as files: a change of a row first  *)
(* appends an undo record (UndoLog::InsertUndoRecord), whose place is its  *)
(* number, then a WAL record (WriteAheadLog::WriteLogRecord).  A call of   *)
(* the system may fail, a write may be cut short, which File::Write does   *)
(* not notice, and the machine may stop and start again.                   *)
(***************************************************************************)
EXTENDS TupleFormat, FiniteSets

CONSTANTS
  Workers,      \* a worker is the number of its transaction
  Changes,      \* the changes: what is done, where, and the row
  Alignment,    \* MaxAlign
  MaxChanges,   \* bound: changes of rows
  MaxFaults,    \* bound: calls that fail and writes that are cut
  MaxCrashes    \* bound: crashes

ASSUME LogsAssumption ==
  /\ Workers \subseteq Nat \ {0}
  /\ \A c \in Changes : /\ c.op \in {"insert", "update", "delete"} /\ c.tids \in Seq(Nat)
                         /\ Len(c.tids) = IF c.op = "update" THEN 2 ELSE 1
  /\ {Alignment, MaxChanges, MaxFaults, MaxCrashes} \subseteq Nat /\ Alignment > 0

\* The rows that are stored are such that Serialize asserts nothing false of them.
ASSUME ChangesAssumption == \A c \in Changes : Serializable(c.row)

None == 0
Heap == 1      \* ResourceManagerId
Table == 7     \* the table of the rows
\* The version of a row that a change replaces: any transaction, any undo record.
OldXid == 9
OldUndo == 5

VARIABLES
  undoFile,     \* bytes of the undo log, as processes read them
  undoDisk,     \* bytes that survive a crash
  undoSize,     \* UndoLog::_size
  undoLatch,    \* holder of UndoLog::_latch
  walFile, walEnd,
  \* Of each worker: where it is, and the change it makes, with the number of its
  \* undo record and whether the write of that record took every byte.
  pc, change,
  issued,       \* the changes whose undo records got a number
  logged,       \* WAL records since the log was opened
  changes, faults, crashes

undoVars == <<undoFile, undoDisk, undoSize, undoLatch>>
walVars == <<walFile, walEnd, logged>>
bounds == <<changes, faults, crashes>>
vars == <<undoVars, walVars, pc, change, issued, bounds>>

-----------------------------------------------------------------------------
(* Files                                                                    *)

\* pwrite: a file that ends before the place is filled up with zeros.
Pwrite(file, offset, data) ==
  [i \in 1..(IF offset + Len(data) > Len(file) THEN offset + Len(data) ELSE Len(file)) |->
     IF i > offset /\ i <= offset + Len(data) THEN data[i - offset]
     ELSE IF i <= Len(file) THEN file[i] ELSE 0]

\* The bytes of data that a write may take, -1 if it fails.
Outcomes(data) == {-1} \cup 1..Len(data)
Fault(failed) == faults + (IF failed THEN 1 ELSE 0) <= MaxFaults /\ faults' = faults + (IF failed THEN 1 ELSE 0)

Read(file, offset, size) ==
  SubSeq(file, offset + 1, IF offset + size < Len(file) THEN offset + size ELSE Len(file))

-----------------------------------------------------------------------------
(* Undo records                                                             *)

DeleteType == 1
UpdateType == 2
InsertType == 3

MaxAlign(n) == ((n + Alignment - 1) \div Alignment) * Alignment

UndoRecord(type, c, data) == [type |-> type, table |-> Table, tids |-> c.tids, data |-> data]
DeleteUndoRecord(c) == UndoRecord(DeleteType, c, <<>>)
UpdateUndoRecord(c) == UndoRecord(UpdateType, c, SerializeHeap(OldXid, OldUndo, c.row))
InsertUndoRecord(c) == UndoRecord(InsertType, c, SerializeHeap(OldXid, OldUndo, c.row))

\* The record that takes a change back; c.tids is <<place>> or <<old, new>>.
UndoRecordOf(c) ==
  CASE c.op = "insert" -> DeleteUndoRecord(c)
    [] c.op = "update" -> UpdateUndoRecord(c)
    [] c.op = "delete" -> InsertUndoRecord(c)

SerializeUndo(rec) == <<rec.table>> \o rec.tids \o rec.data

format_undo_record(xid, rec) ==
  LET body == SerializeUndo(rec)
  IN  <<xid, Heap, rec.type, Len(body)>> \o body \o [i \in 1..(MaxAlign(Len(body)) - Len(body)) |-> 0]

UndoHeaderSize == 4
NoRecord == [type |-> None]

ParseUndo(type, data) ==
  LET Rec(places) == [table |-> data[1], tids |-> SubSeq(data, 2, 1 + places), type |-> type,
                      data |-> SubSeq(data, 2 + places, Len(data))]
  IN  CASE type = DeleteType /\ Len(data) = 2 -> Rec(1)
        [] type = UpdateType -> Rec(2)
        [] type = InsertType -> Rec(1)
        [] OTHER -> NoRecord

\* The record with a number, as PerformUndo and the scans read it, without the
\* latch; NoRecord where the code throws.
GetRecord(usn) ==
  LET header == Read(undoFile, usn - 1, UndoHeaderSize)
      data == Read(undoFile, usn - 1 + UndoHeaderSize, header[4])
  IN  IF Len(header) = UndoHeaderSize /\ header[2] = Heap /\ Len(data) = header[4]
        THEN ParseUndo(header[3], data) ELSE NoRecord

-----------------------------------------------------------------------------
(* WAL records                                                              *)

InsertHeapWALRecord(w, c) == c.tids \o SerializeHeap(w, None, c.row)
\* UpdateTuple passes the new place where the record has the old one.
UpdateHeapWALRecord(w, c) == <<Table>> \o Reverse(c.tids) \o SerializeHeap(w, c.undo, c.row)
DeleteHeapWALRecord(c) == <<Table>> \o c.tids

WalRecordOf(w, c) ==
  CASE c.op = "insert" -> InsertHeapWALRecord(w, c)
    [] c.op = "update" -> UpdateHeapWALRecord(w, c)
    [] c.op = "delete" -> DeleteHeapWALRecord(c)

WalHeader(xid, data) == <<xid, Heap, Len(data)>>
WalHeaderSize == 3

-----------------------------------------------------------------------------

NoChange == [op |-> "none"]

Init ==
  /\ undoFile = <<>> /\ undoDisk = <<>> /\ undoSize = 0 /\ undoLatch = None
  /\ walFile = <<>> /\ walEnd = 0 /\ logged = <<>>
  /\ pc = [w \in Workers |-> "idle"] /\ change = [w \in Workers |-> NoChange]
  /\ issued = {}
  /\ changes = 0 /\ faults = 0 /\ crashes = 0

Goto(w, label) == pc' = [pc EXCEPT ![w] = label]
Stop(w) == Goto(w, "idle") /\ change' = [change EXCEPT ![w] = NoChange]

\* A change of a row: the record is formatted before the latch is taken.
ChangeRow(w) ==
  /\ pc[w] = "idle" /\ changes < MaxChanges
  /\ \E c \in Changes : change' = [change EXCEPT ![w] =
       [op |-> c.op, tids |-> c.tids, row |-> c.row, undo |-> None, whole |-> FALSE]]
  /\ Goto(w, "formatted") /\ changes' = changes + 1
  /\ UNCHANGED <<undoVars, walVars, issued, faults, crashes>>

\* The write of InsertUndoRecord, under the latch; the guard of the latch lets it
\* go when an exception leaves the function.
WriteUndo(w) ==
  /\ pc[w] = "formatted" /\ undoLatch = None
  /\ LET data == format_undo_record(w, UndoRecordOf(change[w])) IN
     \E n \in Outcomes(data) :
       /\ Fault(n # Len(data))
       /\ IF n = -1
            THEN Stop(w) /\ UNCHANGED <<undoFile, undoLatch>>
            ELSE /\ undoFile' = Pwrite(undoFile, undoSize, SubSeq(data, 1, n))
                 /\ undoLatch' = w /\ Goto(w, "written")
                 /\ change' = [change EXCEPT ![w].whole = n = Len(data)]
  /\ UNCHANGED <<undoDisk, undoSize, walVars, issued, changes, crashes>>

FsyncForgotten(w) ==
  /\ pc[w] = "written" /\ Goto(w, "synced")
  /\ UNCHANGED <<undoVars, walVars, change, issued, bounds>>

Fsync(w) ==
  /\ pc[w] = "written"
  /\ \/ undoDisk' = undoFile /\ Goto(w, "synced") /\ UNCHANGED <<undoLatch, change, faults>>
     \/ Fault(TRUE) /\ Stop(w) /\ undoLatch' = None /\ UNCHANGED undoDisk
  /\ UNCHANGED <<undoFile, undoSize, walVars, issued, changes, crashes>>

\* The rest of InsertUndoRecord: the number is given out and the log grows by the
\* length of the buffer, whatever was written of it.
ReturnUSN(w) ==
  /\ pc[w] = "synced"
  /\ change' = [change EXCEPT ![w].undo = undoSize + 1]
  /\ issued' = issued \cup {change'[w]}
  /\ undoSize' = undoSize + Len(format_undo_record(w, UndoRecordOf(change[w])))
  /\ undoLatch' = None
  /\ Goto(w, "undoable")
  /\ UNCHANGED <<undoFile, undoDisk, walVars, bounds>>

\* Two writes under the latch: the header, then the record.
WriteLogRecord(w) ==
  /\ pc[w] = "undoable"
  /\ LET data == WalRecordOf(w, change[w])
         header == WalHeader(w, data)
     IN
     \E h \in Outcomes(header), d \in Outcomes(data) :
       LET whole == h = Len(header) /\ d = Len(data) IN
       /\ Fault(~whole)
       /\ h = -1 => d = Len(data)      \* there is no second write
       /\ IF h = -1 THEN UNCHANGED walVars
          ELSE LET begun == Pwrite(walFile, walEnd, SubSeq(header, 1, h)) IN
               IF d = -1 THEN walFile' = begun /\ UNCHANGED <<walEnd, logged>>
               ELSE /\ walFile' = Pwrite(begun, walEnd + WalHeaderSize, SubSeq(data, 1, d))
                    /\ walEnd' = walEnd + WalHeaderSize + Len(data)
                    /\ logged' = Append(logged, [at |-> walEnd, xid |-> w, data |-> data, whole |-> whole])
  /\ Stop(w)
  /\ UNCHANGED <<undoVars, issued, changes, crashes>>

\* What was not synced is lost from some place on; the server starts again and
\* finds the ends of its logs from the sizes of the files.  The WAL was never
\* synced; nothing reads it below the end found here, so two lengths stand for all.
CrashAndRestart ==
  /\ crashes < MaxCrashes /\ crashes' = crashes + 1
  /\ \E k \in 0..Len(undoFile) :
       undoFile' = SubSeq(undoFile, 1, k) \o SubSeq(undoDisk, k + 1, Len(undoDisk))
  /\ undoDisk' = undoFile' /\ undoSize' = Len(undoFile') /\ undoLatch' = None
  /\ walFile' \in {<<>>, walFile}
  /\ walEnd' = Len(walFile') /\ logged' = <<>>
  /\ pc' = [w \in Workers |-> "idle"] /\ change' = [w \in Workers |-> NoChange]
  /\ UNCHANGED <<issued, changes, faults>>

Next ==
  \/ \E w \in Workers : ChangeRow(w) \/ WriteUndo(w) \/ Fsync(w) \/ ReturnUSN(w) \/ WriteLogRecord(w)
  \/ CrashAndRestart

Spec == Init /\ [][Next]_vars

-----------------------------------------------------------------------------
(* Properties                                                               *)

\* The bytes of a row are numbers and read back as the row (TupleFormat).
RowReadsBack(row) ==
  /\ SerializeTuple(row) \in Seq(Int)
  /\ DeserializeTuple(SerializeTuple(row), HasNull(row)) = Stored(row)

UndoReadsBack(c) ==
  LET rec == GetRecord(c.undo) IN
  /\ rec = UndoRecordOf(c)
  /\ c.op # "insert" =>
       DeserializeHeap(rec.data) = [xid |-> OldXid, undo |-> OldUndo, row |-> Stored(c.row)]

WalReadsBack(i) ==
  LET r == logged[i]
      header == Read(walFile, r.at, WalHeaderSize)
  IN  /\ header = WalHeader(r.xid, r.data)
      /\ Read(walFile, r.at + WalHeaderSize, header[3]) = r.data
      /\ (IF i < Len(logged) THEN logged[i + 1].at ELSE walEnd) = r.at + WalHeaderSize + header[3]

\* A number of an undo record whose write took every byte reads back the record and
\* the row that were written, through the appends, failures and cut writes of
\* others, and after a crash; and from the place where the WAL was opened, the
\* lengths in the headers lead from each whole record to the next
\* (UndoLog.cpp:40-100, WriteAheadLog.cpp:17-37).  A record whose own write was cut
\* gets a number all the same (File.cpp:44, UndoLog.cpp:93-99): nothing is said of it.
LogsReadBack ==
  /\ \A c \in issued : c.whole => UndoReadsBack(c)
  /\ \A i \in DOMAIN logged : logged[i].whole => WalReadsBack(i)
==============================================================================
