----------------------- MODULE TransactionManagerProofs -----------------------
(***************************************************************************)
(* Proofs about TransactionManager, and that it implements Transactions.   *)
(***************************************************************************)
EXTENDS TransactionManager, TLAPS

\* The bounds are natural numbers.
LEMMA Bounds == MaxXid \in Nat /\ MaxUsn \in Nat /\ MaxOrphans \in Nat
BY BoundsAssumption

\* What the provers need to know about sequences.
LEMMA SeqElem == ASSUME NEW S, NEW s \in Seq(S) PROVE
  /\ DOMAIN s = 1..Len(s) /\ Len(s) \in Nat
  /\ \A i \in DOMAIN s : s[i] \in S
OBVIOUS

\* Append, element by element.
LEMMA SeqAppend == ASSUME NEW S, NEW s \in Seq(S), NEW e \in S PROVE
  /\ Append(s, e) \in Seq(S)
  /\ DOMAIN Append(s, e) = 1..(Len(s) + 1) /\ Len(Append(s, e)) = Len(s) + 1
  /\ \A i \in 1..Len(s) : Append(s, e)[i] = s[i]
  /\ Append(s, e)[Len(s) + 1] = e
OBVIOUS

USE DEF NoXid, Xids, InvalidCsn, FrozenCsn, InProgressCsn, AbortedCsn, CommittingCsn, MinCsn,
        InvalidUsn, FirstCsn, undoVars

\* The counters are numbers.
LEMMA CountersType == ASSUME TypeOK PROVE
  nextXid \in Nat /\ nextXid >= 1 /\ nextCsn \in Nat /\ nextCsn >= MinCsn
BY Bounds DEF TypeOK

\* The initial state is well typed.
LEMMA TypeInit == Init => TypeOK
BY Bounds DEF Init, TypeOK, Places

\* The undo log, the undo file and their positions.
LEMMA UndoDomains == ASSUME TypeOK PROVE
  /\ DOMAIN undoFile = 1..Len(undoFile) /\ Len(undoFile) \in Nat
  /\ \A u \in DOMAIN undoFile : undoFile[u] \in Xids
  /\ \A z \in Xids : /\ DOMAIN undoLog[z] = 1..Len(undoLog[z]) /\ Len(undoLog[z]) \in Nat
                    /\ \A i \in DOMAIN undoLog[z] : undoLog[z][i] \in Nat
<1>1. undoFile \in Seq(Xids) /\ \A z \in Xids : undoLog[z] \in Seq(Nat)
  BY DEF TypeOK
<1>. HIDE DEF Xids
<1>. QED
  BY <1>1, SeqElem

\* The last USN of a transaction is a number.
LEMMA LastUsnType == ASSUME TypeOK, NEW x \in Xids PROVE LastUsn(x) \in Nat
<1>1. undoLog[x] \in Seq(Nat)
  BY DEF TypeOK
<1>2. undoLog[x] # <<>> => Len(undoLog[x]) \in 1..Len(undoLog[x])
  BY <1>1
<1>. QED
  BY <1>1, <1>2 DEF LastUsn

\* Writers are transactions.
LEMMA WritersType == ASSUME TypeOK PROVE Writers \subseteq Xids
<1>1. undoFile \in Seq(Xids)
  BY DEF TypeOK
<1>2. \A u \in DOMAIN undoFile : undoFile[u] \in Xids
  BY <1>1, SeqElem
<1>. QED
  BY <1>2 DEF Writers

\* Every step keeps the types.
LEMMA TypeStep == ASSUME TypeOK, OwnerInv, LeftInv, Next PROVE TypeOK'
<1>. USE NoWorkerAssumption, Bounds
<1>. PICK w \in Workers :
       \/ BeginCreate(w) \/ BeginNewStatement(w) \/ InsertUndoRecord(w)
       \/ AskVisible(w) \/ AskWait(w) \/ CommitMark(w) \/ AbortStart(w) \/ SessionEnds(w)
       \/ Run(w)
  BY DEF Next
<1>a. pc[w] = "abortUndo" => my[w] \in Xids
  BY DEF TypeOK, OwnerInv
<1>b. pc[w] = "waitLookup" => asked[w] \in Xids
  BY DEF TypeOK, OwnerInv, Asking
<1>1. CASE BeginCreate(w)
  <2>1. nextXid' \in 1..(MaxXid + 1)
    BY <1>1 DEF TypeOK, BeginCreate, Goto
  <2>2. latched' \in [Xids -> BOOLEAN]
    BY <1>1 DEF TypeOK, BeginCreate, Goto
  <2>3. slot' \in [Workers -> Xids \cup {NoXid}]
    BY <1>1 DEF TypeOK, BeginCreate, Goto
  <2>4. my' \in [Workers -> Xids \cup {NoXid}]
    BY <1>1 DEF TypeOK, BeginCreate, Goto
  <2>5. pc' \in [Workers -> Places]
    BY <1>1 DEF TypeOK, BeginCreate, Goto, Places
  <2>. QED
    BY <1>1, <2>1, <2>2, <2>3, <2>4, <2>5 DEF TypeOK, BeginCreate, tmVars, txnVars, locals, observed
<1>2. CASE BeginRegister(w)
  BY <1>2 DEF TypeOK, BeginRegister, Goto, tmVars, txnVars, locals, observed, Places
<1>3. CASE BeginNewStatement(w)
  <2>1. snapCsn' \in [Xids -> Nat]
    BY <1>3 DEF TypeOK, BeginNewStatement
  <2>2. snapCid' \in [Xids -> Nat]
    <3>1. LastUsn(my[w]) \in Nat
      BY <1>3, LastUsnType DEF TypeOK, BeginNewStatement
    <3>2. \/ snapCid' = [snapCid EXCEPT ![my[w]] = InvalidUsn]
          \/ snapCid' = [snapCid EXCEPT ![my[w]] = snapCid[my[w]]]
          \/ snapCid' = [snapCid EXCEPT ![my[w]] = LastUsn(my[w]) + 1]
      BY <1>3 DEF BeginNewStatement, CommandId
    <3>3. my[w] \in Xids /\ snapCid[my[w]] \in Nat
      BY <1>3 DEF BeginNewStatement, TypeOK
    <3>4. LastUsn(my[w]) + 1 \in Nat /\ InvalidUsn \in Nat
      BY <3>1
    <3>. QED
      BY <3>2, <3>3, <3>4 DEF TypeOK
  <2>3. committedAt' \in [Xids -> SUBSET Xids]
    <3>1. {y \in Xids : IsNormal(history[y])} \in SUBSET Xids
      OBVIOUS
    <3>. QED
      BY <1>3, <3>1 DEF TypeOK, BeginNewStatement
  <2>4. stmtStart' \in [Xids -> Nat]
    BY <1>3 DEF TypeOK, BeginNewStatement
  <2>. QED
    BY <1>3, <2>1, <2>2, <2>3, <2>4 DEF TypeOK, BeginNewStatement, tmVars, txnVars, locals, observed
<1>4. CASE InsertUndoRecord(w)
  <2>1. undoFile' \in Seq(Xids)
    BY <1>4 DEF TypeOK, InsertUndoRecord
  <2>2. undoLog' \in [Xids -> Seq(Nat)]
    <3>1. my[w] \in Xids /\ undoLog[my[w]] \in Seq(Nat) /\ Len(undoFile') \in Nat
      BY <1>4, <2>1 DEF TypeOK, InsertUndoRecord
    <3>2. Append(undoLog[my[w]], Len(undoFile')) \in Seq(Nat)
      BY <3>1
    <3>. QED
      BY <1>4, <3>2 DEF TypeOK, InsertUndoRecord
  <2>. QED
    BY <1>4, <2>1, <2>2 DEF TypeOK, InsertUndoRecord, tmVars, txnVars, locals, observed
<1>5. CASE AskVisible(w)
  <2>1. asked' \in [Workers -> Xids \cup {NoXid}]
    BY <1>5, WritersType DEF TypeOK, AskVisible
  <2>2. pc' \in [Workers -> Places]
    BY <1>5 DEF TypeOK, AskVisible, Goto, Places
  <2>. QED
    BY <1>5, <2>1, <2>2 DEF TypeOK, AskVisible, tmVars, txnVars, locals, observed
<1>6. CASE TupleIsVisible(w)
  BY <1>6 DEF TypeOK, TupleIsVisible, GetTransactionCsn, Answered, tmVars, txnVars, locals, observed, Places
<1>7. CASE AskWait(w)
  <2>1. asked' \in [Workers -> Xids \cup {NoXid}]
    BY <1>7, WritersType DEF TypeOK, AskWait
  <2>2. pc' \in [Workers -> Places]
    BY <1>7 DEF TypeOK, AskWait, Goto, Places
  <2>. QED
    BY <1>7, <2>1, <2>2 DEF TypeOK, AskWait, tmVars, txnVars, locals, observed
<1>8. CASE WaitStatus(w)
  BY <1>8 DEF TypeOK, WaitStatus, GetTransactionCsn, Answered, tmVars, txnVars, locals, observed, Places
<1>9. CASE WaitLookup(w)
  <2>1. found' \in [Workers -> Workers \cup {NoWorker}]
    <3>1. found' = found \/ found' = [found EXCEPT ![w] = xidToWorker[asked[w]]]
      BY <1>9 DEF WaitLookup
    <3>2. asked[w] \in Xids
      BY <1>9, <1>b DEF WaitLookup
    <3>. QED
      BY <3>1, <3>2 DEF TypeOK
  <2>2. pc' \in [Workers -> Places]
    <3>1. pc' = [pc EXCEPT ![w] = "waitEnded"] \/ pc' = [pc EXCEPT ![w] = "waitSlot"]
      BY <1>9 DEF WaitLookup, Goto
    <3>. QED
      BY <3>1 DEF TypeOK, Places
  <2>. QED
    BY <1>9, <2>1, <2>2 DEF TypeOK, WaitLookup, tmVars, txnVars, locals, observed
<1>10. CASE WaitSlot(w)
  BY <1>10 DEF TypeOK, WaitSlot, Goto, tmVars, txnVars, locals, observed, Places
<1>11. CASE WaitLatch(w)
  BY <1>11 DEF TypeOK, WaitLatch, Goto, tmVars, txnVars, locals, observed, Places
<1>12. CASE WaitEnded(w)
  BY <1>12 DEF TypeOK, WaitEnded, GetTransactionCsn, Answered, tmVars, txnVars, locals, observed, Places
<1>13. CASE CommitMark(w)
  BY <1>13 DEF TypeOK, CommitMark, Goto, tmVars, txnVars, locals, observed, Places
<1>14. CASE CommitCsn(w)
  <2>1. nextCsn' \in Nat /\ nextCsn' >= MinCsn
    BY <1>14 DEF TypeOK, CommitCsn, Goto
  <2>2. myCsn' \in [Workers -> Nat]
    BY <1>14 DEF TypeOK, CommitCsn, Goto
  <2>3. pc' \in [Workers -> Places]
    BY <1>14 DEF TypeOK, CommitCsn, Goto, Places
  <2>. QED
    BY <1>14, <2>1, <2>2, <2>3 DEF TypeOK, CommitCsn, tmVars, txnVars, locals, observed
<1>15. CASE CommitPublish(w)
  BY <1>15 DEF TypeOK, CommitPublish, Goto, tmVars, txnVars, locals, observed, Places
<1>16. CASE AbortStart(w)
  <2>1. left' \in [Workers -> Nat]
    <3>1. Len(undoLog[my[w]]) \in Nat
      <4>1. my[w] \in Xids
        BY <1>16 DEF TypeOK, AbortStart
      <4>. QED
        BY <4>1, UndoDomains
    <3>2. left' = [left EXCEPT ![w] = Len(undoLog[my[w]])]
      BY <1>16 DEF AbortStart
    <3>. QED
      BY <3>1, <3>2 DEF TypeOK
  <2>2. pc' \in [Workers -> Places]
    BY <1>16 DEF TypeOK, AbortStart, Goto, Places
  <2>. QED
    BY <1>16, <2>1, <2>2 DEF TypeOK, AbortStart, tmVars, txnVars, locals, observed
<1>17. CASE AbortUndo(w)
  <2>1. undone' \subseteq Nat
    <3>1. left[w] \in 1..Len(undoLog[my[w]])
      BY <1>17, <1>a, UndoDomains DEF AbortUndo, LeftInv, TypeOK
    <3>2. undoLog[my[w]] \in Seq(Nat)
      BY <1>17, <1>a DEF TypeOK, AbortUndo
    <3>3. undoLog[my[w]][left[w]] \in Nat
      BY <3>1, <3>2
    <3>. QED
      BY <1>17, <3>3 DEF TypeOK, AbortUndo
  <2>2. left' \in [Workers -> Nat]
    BY <1>17 DEF TypeOK, AbortUndo
  <2>. QED
    BY <1>17, <2>1, <2>2 DEF TypeOK, AbortUndo, tmVars, txnVars, locals, observed
<1>22. CASE AbortFails(w)
  <2>1. left' \in [Workers -> Nat]
    BY <1>22 DEF TypeOK, AbortFails
  <2>2. failed' \subseteq Xids
    BY <1>22, <1>a DEF TypeOK, AbortFails, Goto
  <2>3. pc' \in [Workers -> Places]
    BY <1>22 DEF TypeOK, AbortFails, Goto, Places
  <2>. QED
    BY <1>22, <2>1, <2>2, <2>3 DEF TypeOK, AbortFails, tmVars, txnVars, locals, observed
<1>18. CASE AbortMark(w)
  <2>1. undoLog' \in [Xids -> Seq(Nat)]
    <3>1. <<>> \in Seq(Nat) /\ undoLog' = [undoLog EXCEPT ![my[w]] = <<>>]
      BY <1>18 DEF AbortMark
    <3>. QED
      BY <3>1 DEF TypeOK
  <2>2. history' \in [Xids -> Nat]
    BY <1>18 DEF TypeOK, AbortMark, Goto
  <2>3. xidToWorker' \in [Xids -> Workers \cup {NoWorker}]
    BY <1>18 DEF TypeOK, AbortMark, Goto
  <2>4. pc' \in [Workers -> Places]
    BY <1>18 DEF TypeOK, AbortMark, Goto, Places
  <2>. QED
    BY <1>18, <2>1, <2>2, <2>3, <2>4 DEF TypeOK, AbortMark, tmVars, txnVars, locals, observed
<1>19. CASE EndRelease(w)
  BY <1>19 DEF TypeOK, EndRelease, Goto, tmVars, txnVars, locals, observed, Places
<1>20. CASE EndClear(w)
  <2>1. slot' \in [Workers -> Xids \cup {NoXid}]
    BY <1>20 DEF TypeOK, EndClear, Goto
  <2>2. my' \in [Workers -> Xids \cup {NoXid}]
    BY <1>20 DEF TypeOK, EndClear, Goto
  <2>3. myCsn' \in [Workers -> Nat]
    BY <1>20 DEF TypeOK, EndClear, Goto
  <2>4. snapCsn' \in [Xids -> Nat]
    BY <1>20 DEF TypeOK, EndClear, Goto
  <2>5. snapCid' \in [Xids -> Nat]
    BY <1>20 DEF TypeOK, EndClear
  <2>6. undoLog' \in [Xids -> Seq(Nat)]
    <3>1. <<>> \in Seq(Nat) /\ undoLog' = [undoLog EXCEPT ![slot[w]] = <<>>]
      BY <1>20 DEF EndClear
    <3>. QED
      BY <3>1 DEF TypeOK
  <2>7. verdict' \in [Xids -> [Xids -> {"none", "visible", "hidden"}]]
    <3>1. [y \in Xids |-> "none"] \in [Xids -> {"none", "visible", "hidden"}]
      OBVIOUS
    <3>2. verdict' = [verdict EXCEPT ![slot[w]] = [y \in Xids |-> "none"]]
      BY <1>20 DEF EndClear
    <3>. QED
      BY <3>1, <3>2 DEF TypeOK
  <2>8. committedAt' \in [Xids -> SUBSET Xids]
    BY <1>20 DEF TypeOK, EndClear, Goto
  <2>9. stmtStart' \in [Xids -> Nat]
    BY <1>20 DEF TypeOK, EndClear, Goto
  <2>10. pc' \in [Workers -> Places]
    BY <1>20 DEF TypeOK, EndClear, Goto, Places
  <2>. QED
    BY <1>20, <2>1, <2>2, <2>3, <2>4, <2>5, <2>6, <2>7, <2>8, <2>9, <2>10 DEF TypeOK, EndClear, tmVars,
        txnVars, locals, observed
<1>21. CASE SessionEnds(w)
  <2>1. my' \in [Workers -> Xids \cup {NoXid}]
    BY <1>21 DEF TypeOK, SessionEnds
  <2>2. orphans' \subseteq Xids
    BY <1>21 DEF TypeOK, SessionEnds
  <2>. QED
    BY <1>21, <2>1, <2>2 DEF TypeOK, SessionEnds, tmVars, txnVars, locals, observed
<1>. QED
  BY <1>1, <1>2, <1>3, <1>4, <1>5, <1>6, <1>7, <1>8, <1>9, <1>10, <1>11, <1>12, <1>13, <1>14, <1>15, <1>16,
      <1>17, <1>18, <1>19, <1>20, <1>21, <1>22 DEF Run, Wait, Commit, Abort, End

\* Every step keeps a transaction with its only owner.
LEMMA OwnerStep == ASSUME TypeOK, OwnerInv, Next PROVE OwnerInv'
<1>. PICK w \in Workers :
       \/ BeginCreate(w) \/ BeginNewStatement(w) \/ InsertUndoRecord(w)
       \/ AskVisible(w) \/ AskWait(w) \/ CommitMark(w) \/ AbortStart(w) \/ SessionEnds(w)
       \/ Run(w)
  BY DEF Next
<1>t. /\ slot \in [Workers -> Xids \cup {NoXid}] /\ my \in [Workers -> Xids \cup {NoXid}]
      /\ pc \in [Workers -> Places] /\ asked \in [Workers -> Xids \cup {NoXid}]
      /\ nextXid \in Nat /\ nextXid >= 1 /\ snapCsn \in [Xids -> Nat] /\ MaxXid \in Nat
      /\ nextCsn \in Nat /\ nextCsn >= MinCsn
  BY Bounds, CountersType DEF TypeOK
<1>1. CASE BeginCreate(w)
  BY <1>1, <1>t DEF OwnerInv, Asking, Places, BeginCreate, Goto, tmVars, txnVars, locals, observed
<1>2. CASE BeginRegister(w)
  BY <1>2, <1>t DEF OwnerInv, Asking, Places, BeginRegister, Goto, tmVars, txnVars, locals, observed
<1>3. CASE BeginNewStatement(w)
  BY <1>3, <1>t DEF OwnerInv, Asking, Places, BeginNewStatement, tmVars, txnVars, locals, observed
<1>4. CASE InsertUndoRecord(w)
  BY <1>4, <1>t DEF OwnerInv, Asking, Places, InsertUndoRecord, tmVars, txnVars, locals, observed
<1>5. CASE AskVisible(w)
  <2>1. asked' \in [Workers -> Xids \cup {NoXid}] /\ asked'[w] \in Xids
    BY <1>5, <1>t, WritersType DEF AskVisible
  <2>2. \A v \in Workers \ {w} : asked'[v] = asked[v]
    BY <1>5, <1>t DEF AskVisible
  <2>3. my[w] # NoXid /\ snapCsn[my[w]] # InvalidCsn /\ UNCHANGED <<my, slot, snapCsn, nextXid>>
    BY <1>5 DEF AskVisible, tmVars, txnVars
  <2>4. \A v \in Workers \ {w} : pc'[v] = pc[v]
    BY <1>5, <1>t DEF AskVisible, Goto
  <2>. QED
    BY <2>1, <2>2, <2>3, <2>4, <1>t DEF OwnerInv, Asking
<1>6. CASE TupleIsVisible(w)
  BY <1>6, <1>t DEF OwnerInv, Asking, Places, TupleIsVisible, GetTransactionCsn, Answered, tmVars, txnVars,
      locals, observed
<1>7. CASE AskWait(w)
  <2>1. asked' \in [Workers -> Xids \cup {NoXid}] /\ asked'[w] \in Xids
    BY <1>7, <1>t, WritersType DEF AskWait
  <2>2. \A v \in Workers \ {w} : asked'[v] = asked[v]
    BY <1>7, <1>t DEF AskWait
  <2>3. my[w] # NoXid /\ snapCsn[my[w]] # InvalidCsn /\ UNCHANGED <<my, slot, snapCsn, nextXid>>
    BY <1>7 DEF AskWait, tmVars, txnVars
  <2>4. \A v \in Workers \ {w} : pc'[v] = pc[v]
    BY <1>7, <1>t DEF AskWait, Goto
  <2>. QED
    BY <2>1, <2>2, <2>3, <2>4, <1>t DEF OwnerInv, Asking
<1>8. CASE WaitStatus(w)
  BY <1>8, <1>t DEF OwnerInv, Asking, Places, WaitStatus, GetTransactionCsn, Answered, tmVars, txnVars,
      locals, observed
<1>9. CASE WaitLookup(w)
  BY <1>9, <1>t DEF OwnerInv, Asking, Places, WaitLookup, Goto, tmVars, txnVars, locals, observed
<1>10. CASE WaitSlot(w)
  BY <1>10, <1>t DEF OwnerInv, Asking, Places, WaitSlot, Goto, tmVars, txnVars, locals, observed
<1>11. CASE WaitLatch(w)
  BY <1>11, <1>t DEF OwnerInv, Asking, Places, WaitLatch, Goto, tmVars, txnVars, locals, observed
<1>12. CASE WaitEnded(w)
  BY <1>12, <1>t DEF OwnerInv, Asking, Places, WaitEnded, GetTransactionCsn, Answered, tmVars, txnVars,
      locals, observed
<1>13. CASE CommitMark(w)
  BY <1>13, <1>t DEF OwnerInv, Asking, Places, CommitMark, Goto, tmVars, txnVars, locals, observed
<1>14. CASE CommitCsn(w)
  BY <1>14, <1>t DEF OwnerInv, Asking, Places, CommitCsn, Goto, tmVars, txnVars, locals, observed
<1>15. CASE CommitPublish(w)
  BY <1>15, <1>t DEF OwnerInv, Asking, Places, CommitPublish, Goto, tmVars, txnVars, locals, observed
<1>16. CASE AbortStart(w)
  BY <1>16, <1>t DEF OwnerInv, Asking, Places, AbortStart, Goto, tmVars, txnVars, locals, observed
<1>17. CASE AbortUndo(w)
  BY <1>17, <1>t DEF OwnerInv, Asking, Places, AbortUndo, tmVars, txnVars, locals, observed
<1>22. CASE AbortFails(w)
  BY <1>22, <1>t DEF OwnerInv, Asking, Places, AbortFails, Goto, tmVars, txnVars, locals, observed
<1>18. CASE AbortMark(w)
  BY <1>18, <1>t DEF OwnerInv, Asking, Places, AbortMark, Goto, tmVars, txnVars, locals, observed
<1>19. CASE EndRelease(w)
  BY <1>19, <1>t DEF OwnerInv, Asking, Places, EndRelease, Goto, tmVars, txnVars, locals, observed
<1>20. CASE EndClear(w)
  BY <1>20, <1>t DEF OwnerInv, Asking, Places, EndClear, Goto, tmVars, txnVars, locals, observed
<1>21. CASE SessionEnds(w)
  BY <1>21, <1>t DEF OwnerInv, Asking, Places, SessionEnds, tmVars, txnVars, locals, observed
<1>. QED
  BY <1>1, <1>2, <1>3, <1>4, <1>5, <1>6, <1>7, <1>8, <1>9, <1>10, <1>11, <1>12, <1>13, <1>14, <1>15, <1>16,
      <1>17, <1>18, <1>19, <1>20, <1>21, <1>22 DEF Run, Wait, Commit, Abort, End


\* Every step keeps the status of a transaction in line with its owner.
LEMMA StatusStep == ASSUME TypeOK, OwnerInv, StatusInv, CsnInv, Next PROVE StatusInv'
<1>. PICK w \in Workers :
       \/ BeginCreate(w) \/ BeginNewStatement(w) \/ InsertUndoRecord(w)
       \/ AskVisible(w) \/ AskWait(w) \/ CommitMark(w) \/ AbortStart(w) \/ SessionEnds(w)
       \/ Run(w)
  BY DEF Next
<1>t. /\ slot \in [Workers -> Xids \cup {NoXid}] /\ my \in [Workers -> Xids \cup {NoXid}]
      /\ pc \in [Workers -> Places] /\ history \in [Xids -> Nat]
      /\ xidToWorker \in [Xids -> Workers \cup {NoWorker}] /\ myCsn \in [Workers -> Nat]
      /\ nextXid \in Nat /\ nextXid >= 1 /\ MaxXid \in Nat
  BY Bounds, CountersType DEF TypeOK
<1>1. CASE BeginCreate(w)
  BY <1>1, <1>t DEF OwnerInv, StatusInv, CsnInv, Ended, IsNormal, Asking, Committing, Ending, Places,
      BeginCreate, Goto, tmVars, txnVars, locals, observed
<1>2. CASE BeginRegister(w)
  BY <1>2, <1>t DEF OwnerInv, StatusInv, CsnInv, Ended, IsNormal, Asking, Committing, Ending, Places,
      BeginRegister, Goto, tmVars, txnVars, locals, observed
<1>3. CASE BeginNewStatement(w)
  BY <1>3, <1>t DEF OwnerInv, StatusInv, CsnInv, Ended, IsNormal, Asking, Committing, Ending, Places,
      BeginNewStatement, tmVars, txnVars, locals, observed
<1>4. CASE InsertUndoRecord(w)
  BY <1>4, <1>t DEF OwnerInv, StatusInv, CsnInv, Ended, IsNormal, Asking, Committing, Ending, Places,
      InsertUndoRecord, tmVars, txnVars, locals, observed
<1>5. CASE AskVisible(w)
  BY <1>5, <1>t DEF OwnerInv, StatusInv, CsnInv, Ended, IsNormal, Asking, Committing, Ending, Places,
      AskVisible, Goto, Writers, tmVars, txnVars, locals, observed
<1>6. CASE TupleIsVisible(w)
  BY <1>6, <1>t DEF OwnerInv, StatusInv, CsnInv, Ended, IsNormal, Asking, Committing, Ending, Places,
      TupleIsVisible, GetTransactionCsn, Answered, tmVars, txnVars, locals, observed
<1>7. CASE AskWait(w)
  BY <1>7, <1>t DEF OwnerInv, StatusInv, CsnInv, Ended, IsNormal, Asking, Committing, Ending, Places,
      AskWait, Goto, Writers, tmVars, txnVars, locals, observed
<1>8. CASE WaitStatus(w)
  BY <1>8, <1>t DEF OwnerInv, StatusInv, CsnInv, Ended, IsNormal, Asking, Committing, Ending, Places,
      WaitStatus, GetTransactionCsn, Answered, tmVars, txnVars, locals, observed
<1>9. CASE WaitLookup(w)
  <2>1. UNCHANGED <<nextXid, slot, xidToWorker, history>>
    BY <1>9 DEF WaitLookup, tmVars
  <2>2. /\ \A v \in Workers \ {w} : pc'[v] = pc[v]
        /\ pc[w] \in Asking /\ pc'[w] \in Asking
    BY <1>9, <1>t DEF WaitLookup, Goto, Asking
  <2>3. \A v \in Workers : \/ pc'[v] = pc[v]
                           \/ pc[v] \in Asking /\ pc'[v] \in Asking
    BY <2>2
  <2>. QED
    BY <2>1, <2>3 DEF StatusInv, Ended, Asking, Committing, Ending
<1>10. CASE WaitSlot(w)
  BY <1>10, <1>t DEF OwnerInv, StatusInv, CsnInv, Ended, IsNormal, Asking, Committing, Ending, Places,
      WaitSlot, Goto, tmVars, txnVars, locals, observed
<1>11. CASE WaitLatch(w)
  BY <1>11, <1>t DEF OwnerInv, StatusInv, CsnInv, Ended, IsNormal, Asking, Committing, Ending, Places,
      WaitLatch, Goto, tmVars, txnVars, locals, observed
<1>12. CASE WaitEnded(w)
  BY <1>12, <1>t DEF OwnerInv, StatusInv, CsnInv, Ended, IsNormal, Asking, Committing, Ending, Places,
      WaitEnded, GetTransactionCsn, Answered, tmVars, txnVars, locals, observed
<1>13. CASE CommitMark(w)
  BY <1>13, <1>t DEF OwnerInv, StatusInv, CsnInv, Ended, IsNormal, Asking, Committing, Ending, Places,
      CommitMark, Goto, tmVars, txnVars, locals, observed
<1>14. CASE CommitCsn(w)
  BY <1>14, <1>t DEF OwnerInv, StatusInv, CsnInv, Ended, IsNormal, Asking, Committing, Ending, Places,
      CommitCsn, Goto, tmVars, txnVars, locals, observed
<1>15. CASE CommitPublish(w)
  BY <1>15, <1>t DEF OwnerInv, StatusInv, CsnInv, Ended, IsNormal, Asking, Committing, Ending, Places,
      CommitPublish, Goto, tmVars, txnVars, locals, observed
<1>16. CASE AbortStart(w)
  BY <1>16, <1>t DEF OwnerInv, StatusInv, CsnInv, Ended, IsNormal, Asking, Committing, Ending, Places,
      AbortStart, Goto, tmVars, txnVars, locals, observed
<1>17. CASE AbortUndo(w)
  BY <1>17, <1>t DEF OwnerInv, StatusInv, CsnInv, Ended, IsNormal, Asking, Committing, Ending, Places,
      AbortUndo, tmVars, txnVars, locals, observed
<1>22. CASE AbortFails(w)
  BY <1>22, <1>t DEF OwnerInv, StatusInv, CsnInv, Ended, IsNormal, Asking, Committing, Ending, Places,
      AbortFails, Goto, tmVars, txnVars, locals, observed
<1>18. CASE AbortMark(w)
  BY <1>18, <1>t DEF OwnerInv, StatusInv, CsnInv, Ended, IsNormal, Asking, Committing, Ending, Places,
      AbortMark, Goto, tmVars, txnVars, locals, observed
<1>19. CASE EndRelease(w)
  BY <1>19, <1>t DEF OwnerInv, StatusInv, CsnInv, Ended, IsNormal, Asking, Committing, Ending, Places,
      EndRelease, Goto, tmVars, txnVars, locals, observed
<1>20. CASE EndClear(w)
  BY <1>20, <1>t DEF OwnerInv, StatusInv, CsnInv, Ended, IsNormal, Asking, Committing, Ending, Places,
      EndClear, Goto, tmVars, txnVars, locals, observed
<1>21. CASE SessionEnds(w)
  BY <1>21, <1>t DEF OwnerInv, StatusInv, CsnInv, Ended, IsNormal, Asking, Committing, Ending, Places,
      SessionEnds, tmVars, txnVars, locals, observed
<1>. QED
  BY <1>1, <1>2, <1>3, <1>4, <1>5, <1>6, <1>7, <1>8, <1>9, <1>10, <1>11, <1>12, <1>13, <1>14, <1>15, <1>16,
      <1>17, <1>18, <1>19, <1>20, <1>21, <1>22 DEF Run, Wait, Commit, Abort, End


\* Every step keeps the CSNs apart, published ones and fetched ones.
LEMMA CsnStep == ASSUME TypeOK, OwnerInv, StatusInv, CsnInv, Next PROVE CsnInv'
<1>. PICK w \in Workers :
       \/ BeginCreate(w) \/ BeginNewStatement(w) \/ InsertUndoRecord(w)
       \/ AskVisible(w) \/ AskWait(w) \/ CommitMark(w) \/ AbortStart(w) \/ SessionEnds(w)
       \/ Run(w)
  BY DEF Next
<1>t. /\ slot \in [Workers -> Xids \cup {NoXid}] /\ nextCsn \in Nat /\ nextCsn >= MinCsn
      /\ pc \in [Workers -> Places] /\ history \in [Xids -> Nat] /\ myCsn \in [Workers -> Nat]
  BY Bounds, CountersType DEF TypeOK
<1>f. ASSUME UNCHANGED <<nextCsn, history, myCsn>>,
             \A v \in Workers : pc'[v] = "commitPublish" => pc[v] = "commitPublish"
      PROVE  CsnInv'
  BY <1>f DEF CsnInv, CsnUnique, IsNormal
<1>1. CASE BeginCreate(w)
  <2>1. \A v \in Workers : pc'[v] = "commitPublish" => pc[v] = "commitPublish"
    BY <1>1, <1>t DEF BeginCreate, Goto
  <2>2. UNCHANGED <<nextCsn, history, myCsn>>
    BY <1>1 DEF BeginCreate, tmVars, txnVars, locals, observed
  <2>. QED
    BY <1>f, <2>1, <2>2
<1>2. CASE BeginRegister(w)
  <2>1. \A v \in Workers : pc'[v] = "commitPublish" => pc[v] = "commitPublish"
    BY <1>2, <1>t DEF BeginRegister, Goto
  <2>2. UNCHANGED <<nextCsn, myCsn>>
    BY <1>2 DEF BeginRegister, locals
  <2>3. \A z \in Xids : history'[z] = history[z] \/ history'[z] = InProgressCsn
    BY <1>2, <1>t DEF BeginRegister
  <2>4. CsnUnique'
    BY <2>2, <2>3 DEF CsnInv, CsnUnique, IsNormal, InProgressCsn, MinCsn
  <2>. QED
    BY <2>1, <2>2, <2>3, <2>4, <1>t DEF CsnInv, InProgressCsn, MinCsn
<1>3. CASE BeginNewStatement(w)
  <2>1. \A v \in Workers : pc'[v] = "commitPublish" => pc[v] = "commitPublish"
    BY <1>3, <1>t DEF BeginNewStatement
  <2>2. UNCHANGED <<nextCsn, history, myCsn>>
    BY <1>3 DEF BeginNewStatement, tmVars, txnVars, locals, observed
  <2>. QED
    BY <1>f, <2>1, <2>2
<1>4. CASE InsertUndoRecord(w)
  <2>1. \A v \in Workers : pc'[v] = "commitPublish" => pc[v] = "commitPublish"
    BY <1>4, <1>t DEF InsertUndoRecord
  <2>2. UNCHANGED <<nextCsn, history, myCsn>>
    BY <1>4 DEF InsertUndoRecord, tmVars, txnVars, locals, observed
  <2>. QED
    BY <1>f, <2>1, <2>2
<1>5. CASE AskVisible(w)
  <2>1. \A v \in Workers : pc'[v] = "commitPublish" => pc[v] = "commitPublish"
    BY <1>5, <1>t DEF AskVisible, Goto
  <2>2. UNCHANGED <<nextCsn, history, myCsn>>
    BY <1>5 DEF AskVisible, tmVars, txnVars, locals, observed
  <2>. QED
    BY <1>f, <2>1, <2>2
<1>6. CASE TupleIsVisible(w)
  <2>1. \A v \in Workers : pc'[v] = "commitPublish" => pc[v] = "commitPublish"
    BY <1>6, <1>t DEF TupleIsVisible, GetTransactionCsn
  <2>2. UNCHANGED <<nextCsn, history, myCsn>>
    BY <1>6 DEF TupleIsVisible, GetTransactionCsn, tmVars, txnVars, locals, observed
  <2>. QED
    BY <1>f, <2>1, <2>2
<1>7. CASE AskWait(w)
  <2>1. \A v \in Workers : pc'[v] = "commitPublish" => pc[v] = "commitPublish"
    BY <1>7, <1>t DEF AskWait, Goto
  <2>2. UNCHANGED <<nextCsn, history, myCsn>>
    BY <1>7 DEF AskWait, tmVars, txnVars, locals, observed
  <2>. QED
    BY <1>f, <2>1, <2>2
<1>8. CASE WaitStatus(w)
  <2>1. \A v \in Workers : pc'[v] = "commitPublish" => pc[v] = "commitPublish"
    BY <1>8, <1>t DEF WaitStatus, GetTransactionCsn
  <2>2. UNCHANGED <<nextCsn, history, myCsn>>
    BY <1>8 DEF WaitStatus, GetTransactionCsn, tmVars, txnVars, locals, observed
  <2>. QED
    BY <1>f, <2>1, <2>2
<1>9. CASE WaitLookup(w)
  <2>1. \A v \in Workers : pc'[v] = "commitPublish" => pc[v] = "commitPublish"
    BY <1>9, <1>t DEF WaitLookup, Goto
  <2>2. UNCHANGED <<nextCsn, history, myCsn>>
    BY <1>9 DEF WaitLookup, tmVars, txnVars, locals, observed
  <2>. QED
    BY <1>f, <2>1, <2>2
<1>10. CASE WaitSlot(w)
  <2>1. \A v \in Workers : pc'[v] = "commitPublish" => pc[v] = "commitPublish"
    BY <1>10, <1>t DEF WaitSlot, Goto
  <2>2. UNCHANGED <<nextCsn, history, myCsn>>
    BY <1>10 DEF WaitSlot, tmVars, txnVars, locals, observed
  <2>. QED
    BY <1>f, <2>1, <2>2
<1>11. CASE WaitLatch(w)
  <2>1. \A v \in Workers : pc'[v] = "commitPublish" => pc[v] = "commitPublish"
    BY <1>11, <1>t DEF WaitLatch, Goto
  <2>2. UNCHANGED <<nextCsn, history, myCsn>>
    BY <1>11 DEF WaitLatch, tmVars, txnVars, locals, observed
  <2>. QED
    BY <1>f, <2>1, <2>2
<1>12. CASE WaitEnded(w)
  <2>1. \A v \in Workers : pc'[v] = "commitPublish" => pc[v] = "commitPublish"
    BY <1>12, <1>t DEF WaitEnded, GetTransactionCsn
  <2>2. UNCHANGED <<nextCsn, history, myCsn>>
    BY <1>12 DEF WaitEnded, GetTransactionCsn, tmVars, txnVars, locals, observed
  <2>. QED
    BY <1>f, <2>1, <2>2
<1>13. CASE CommitMark(w)
  BY <1>13, <1>t DEF OwnerInv, StatusInv, CsnInv, CsnUnique, IsNormal, Committing, Asking, Places,
      CommitMark, Goto, tmVars, txnVars, locals, observed
<1>14. CASE CommitCsn(w)
  <2>1. /\ nextCsn' = nextCsn + 1 /\ UNCHANGED history
        /\ myCsn'[w] = nextCsn /\ pc'[w] = "commitPublish"
        /\ \A v \in Workers \ {w} : myCsn'[v] = myCsn[v] /\ pc'[v] = pc[v]
    BY <1>14, <1>t DEF CommitCsn, Goto
  <2>2. \A x \in Xids : history[x] # nextCsn
    BY <1>t DEF CsnInv, CsnUnique, IsNormal
  <2>3. CsnUnique'
    BY <2>1, <1>t DEF CsnInv, CsnUnique, IsNormal
  <2>4. ASSUME NEW v \in Workers, pc'[v] = "commitPublish"
        PROVE  /\ MinCsn <= myCsn'[v] /\ myCsn'[v] < nextCsn'
               /\ \A x \in Xids : history'[x] # myCsn'[v]
               /\ \A u \in Workers \ {v} : pc'[u] = "commitPublish" => myCsn'[u] # myCsn'[v]
    <3>1. CASE v = w
      BY <3>1, <2>1, <2>2, <1>t DEF CsnInv
    <3>2. CASE v # w
      BY <3>2, <2>4, <2>1, <1>t DEF CsnInv
    <3>. QED
      BY <3>1, <3>2
  <2>. QED
    BY <2>3, <2>4 DEF CsnInv
<1>15. CASE CommitPublish(w)
  BY <1>15, <1>t DEF OwnerInv, StatusInv, CsnInv, CsnUnique, IsNormal, Committing, Asking, Places,
      CommitPublish, Goto, tmVars, txnVars, locals, observed
<1>16. CASE AbortStart(w)
  <2>1. \A v \in Workers : pc'[v] = "commitPublish" => pc[v] = "commitPublish"
    BY <1>16, <1>t DEF AbortStart, Goto
  <2>2. UNCHANGED <<nextCsn, history, myCsn>>
    BY <1>16 DEF AbortStart, tmVars, txnVars, locals, observed
  <2>. QED
    BY <1>f, <2>1, <2>2
<1>17. CASE AbortUndo(w)
  <2>1. \A v \in Workers : pc'[v] = "commitPublish" => pc[v] = "commitPublish"
    BY <1>17, <1>t DEF AbortUndo
  <2>2. UNCHANGED <<nextCsn, history, myCsn>>
    BY <1>17 DEF AbortUndo, tmVars, txnVars, locals, observed
  <2>. QED
    BY <1>f, <2>1, <2>2
<1>22. CASE AbortFails(w)
  <2>1. \A v \in Workers : pc'[v] = "commitPublish" => pc[v] = "commitPublish"
    BY <1>22, <1>t DEF AbortFails, Goto
  <2>2. UNCHANGED <<nextCsn, history, myCsn>>
    BY <1>22 DEF AbortFails, tmVars, txnVars, locals, observed
  <2>. QED
    BY <1>f, <2>1, <2>2
<1>18. CASE AbortMark(w)
  BY <1>18, <1>t DEF OwnerInv, StatusInv, CsnInv, CsnUnique, IsNormal, Committing, Asking, Places,
      AbortMark, Goto, tmVars, txnVars, locals, observed
<1>19. CASE EndRelease(w)
  <2>1. \A v \in Workers : pc'[v] = "commitPublish" => pc[v] = "commitPublish"
    BY <1>19, <1>t DEF EndRelease, Goto
  <2>2. UNCHANGED <<nextCsn, history, myCsn>>
    BY <1>19 DEF EndRelease, tmVars, txnVars, locals, observed
  <2>. QED
    BY <1>f, <2>1, <2>2
<1>20. CASE EndClear(w)
  BY <1>20, <1>t DEF OwnerInv, StatusInv, CsnInv, CsnUnique, IsNormal, Committing, Asking, Places,
      EndClear, Goto, tmVars, txnVars, locals, observed
<1>21. CASE SessionEnds(w)
  <2>1. \A v \in Workers : pc'[v] = "commitPublish" => pc[v] = "commitPublish"
    BY <1>21, <1>t DEF SessionEnds
  <2>2. UNCHANGED <<nextCsn, history, myCsn>>
    BY <1>21 DEF SessionEnds, tmVars, txnVars, locals, observed
  <2>. QED
    BY <1>f, <2>1, <2>2
<1>. QED
  BY <1>1, <1>2, <1>3, <1>4, <1>5, <1>6, <1>7, <1>8, <1>9, <1>10, <1>11, <1>12, <1>13, <1>14, <1>15, <1>16,
      <1>17, <1>18, <1>19, <1>20, <1>21, <1>22 DEF Run, Wait, Commit, Abort, End


\* Every step keeps what the snapshots have answered true.
LEMMA SnapshotStep == ASSUME TypeOK, OwnerInv, StatusInv, CsnInv, SnapshotInv, Next PROVE SnapshotInv'
<1>. PICK w \in Workers :
       \/ BeginCreate(w) \/ BeginNewStatement(w) \/ InsertUndoRecord(w)
       \/ AskVisible(w) \/ AskWait(w) \/ CommitMark(w) \/ AbortStart(w) \/ SessionEnds(w)
       \/ Run(w)
  BY DEF Next
<1>t. /\ slot \in [Workers -> Xids \cup {NoXid}] /\ my \in [Workers -> Xids \cup {NoXid}]
      /\ pc \in [Workers -> Places] /\ history \in [Xids -> Nat] /\ myCsn \in [Workers -> Nat]
      /\ snapCsn \in [Xids -> Nat] /\ committedAt \in [Xids -> SUBSET Xids]
      /\ verdict \in [Xids -> [Xids -> {"none", "visible", "hidden"}]]
      /\ nextXid \in Nat /\ nextXid >= 1 /\ nextCsn \in Nat /\ nextCsn >= MinCsn
  BY CountersType DEF TypeOK
<1>d. /\ DOMAIN undoFile = 1..Len(undoFile) /\ Len(undoFile) \in Nat
      /\ \A u \in DOMAIN undoFile : undoFile[u] \in Xids
      /\ \A z \in Xids : /\ DOMAIN undoLog[z] = 1..Len(undoLog[z]) /\ Len(undoLog[z]) \in Nat
                        /\ \A i \in DOMAIN undoLog[z] : undoLog[z][i] \in Nat
  BY UndoDomains
<1>f. ASSUME UNCHANGED <<nextCsn, nextXid, snapCsn, verdict, committedAt, history, slot, myCsn>>,
             \A v \in Workers : pc'[v] = "commitPublish" => pc[v] = "commitPublish"
      PROVE  SnapshotInv'
  BY <1>f DEF SnapshotInv, IsNormal
<1>1. CASE BeginCreate(w)
  BY <1>1, <1>t DEF OwnerInv, StatusInv, CsnInv, CsnUnique, SnapshotInv, IsNormal, Asking, Committing,
      Ending, Ended, Places, BeginCreate, Goto, tmVars, txnVars, locals, observed
<1>2. CASE BeginRegister(w)
  BY <1>2, <1>t DEF OwnerInv, StatusInv, CsnInv, CsnUnique, SnapshotInv, IsNormal, Asking, Committing,
      Ending, Ended, Places, BeginRegister, Goto, tmVars, txnVars, locals, observed
<1>3. CASE BeginNewStatement(w)
  <2>. DEFINE x == my[w]
  <2>1. x \in Xids /\ x < nextXid /\ UNCHANGED <<history, nextCsn, nextXid, verdict, slot, myCsn, pc>>
    BY <1>3, <1>t DEF BeginNewStatement, OwnerInv, tmVars, locals
  <2>2. CASE snapCsn[x] = InvalidCsn
    <3>1. /\ snapCsn' = [snapCsn EXCEPT ![x] = nextCsn]
          /\ committedAt' = [committedAt EXCEPT ![x] = {y \in Xids : IsNormal(history[y])}]
      BY <1>3, <2>2 DEF BeginNewStatement
    <3>2. /\ snapCsn'[x] = nextCsn /\ committedAt'[x] = {y \in Xids : IsNormal(history[y])}
          /\ \A z \in Xids \ {x} : snapCsn'[z] = snapCsn[z] /\ committedAt'[z] = committedAt[z]
      BY <3>1, <2>1, <1>t
    <3>3. \A y \in Xids : verdict[x][y] = "none"
      BY <2>1, <2>2 DEF SnapshotInv
    <3>4. \A y \in Xids : IsNormal(history[y]) => history[y] < nextCsn
      BY DEF CsnInv, CsnUnique
    <3>5. ASSUME NEW z \in Xids
          PROVE  /\ snapCsn'[z] = InvalidCsn \/ (MinCsn <= snapCsn'[z] /\ snapCsn'[z] <= nextCsn')
                 /\ z >= nextXid' => snapCsn'[z] = InvalidCsn
                 /\ snapCsn'[z] = InvalidCsn => verdict'[z] = [y \in Xids |-> "none"]
                 /\ \A y \in committedAt'[z] : IsNormal(history[y]) /\ history[y] < snapCsn'[z]
      <4>1. CASE z = x
        BY <4>1, <2>1, <3>2, <3>4, <1>t
      <4>2. CASE z # x
        BY <4>2, <2>1, <3>2, <1>t DEF SnapshotInv
      <4>. QED
        BY <4>1, <4>2
    <3>6. ASSUME NEW z \in Xids, NEW y \in Xids
          PROVE  /\ verdict[z][y] = "visible" => IsNormal(history[y]) /\ history[y] < snapCsn'[z]
                 /\ verdict[z][y] = "hidden" =>
                      /\ IsNormal(history[y]) => snapCsn'[z] <= history[y]
                      /\ \A v \in Workers : pc[v] = "commitPublish" /\ slot[v] = y => snapCsn'[z] <= myCsn[v]
      <4>1. CASE z = x
        BY <4>1, <3>3
      <4>2. CASE z # x
        BY <4>2, <3>2 DEF SnapshotInv
      <4>. QED
        BY <4>1, <4>2
    <3>. QED
      BY <2>1, <3>5, <3>6 DEF SnapshotInv, IsNormal
  <2>3. CASE snapCsn[x] # InvalidCsn
    <3>1. UNCHANGED <<snapCsn, committedAt>>
      BY <1>3, <2>3 DEF BeginNewStatement
    <3>. QED
      BY <2>1, <3>1 DEF SnapshotInv
  <2>. QED
    BY <2>2, <2>3
<1>4. CASE InsertUndoRecord(w)
  <2>1. \A v \in Workers : pc'[v] = "commitPublish" => pc[v] = "commitPublish"
    BY <1>4, <1>t DEF InsertUndoRecord
  <2>2. UNCHANGED <<nextCsn, nextXid, snapCsn, verdict, committedAt, history, slot, myCsn>>
    BY <1>4 DEF InsertUndoRecord, tmVars, txnVars, locals, observed
  <2>. QED
    BY <1>f, <2>1, <2>2
<1>5. CASE AskVisible(w)
  <2>1. \A v \in Workers : pc'[v] = "commitPublish" => pc[v] = "commitPublish"
    BY <1>5, <1>t DEF AskVisible, Goto
  <2>2. UNCHANGED <<nextCsn, nextXid, snapCsn, verdict, committedAt, history, slot, myCsn>>
    BY <1>5 DEF AskVisible, tmVars, txnVars, locals, observed
  <2>. QED
    BY <1>f, <2>1, <2>2
<1>6. CASE TupleIsVisible(w)
  <2>. DEFINE x == my[w]  y == asked[w]
  <2>1. /\ x \in Xids /\ y \in Xids /\ snapCsn[x] # InvalidCsn
        /\ UNCHANGED <<history, nextCsn, nextXid, slot, myCsn, snapCsn, committedAt>>
    BY <1>6, <1>t DEF TupleIsVisible, GetTransactionCsn, OwnerInv, Asking, txnVars, TypeOK
  <2>2. \A v \in Workers : pc'[v] = "commitPublish" => pc[v] = "commitPublish"
    BY <1>6, <1>t DEF TupleIsVisible, GetTransactionCsn
  <2>3. CASE history[y] = CommittingCsn
    <3>1. UNCHANGED verdict
      BY <1>6, <2>3 DEF TupleIsVisible
    <3>. QED
      BY <2>1, <2>2, <3>1 DEF SnapshotInv
  <2>4. CASE history[y] # CommittingCsn
    <3>. DEFINE answer == IF Visible(history[y], x) THEN "visible" ELSE "hidden"
    <3>1. verdict' = [verdict EXCEPT ![x][y] = answer]
      BY <1>6, <2>4 DEF TupleIsVisible
    <3>2. /\ verdict'[x][y] = answer
          /\ \A a, b \in Xids : a # x \/ b # y => verdict'[a][b] = verdict[a][b]
          /\ \A a \in Xids \ {x} : verdict'[a] = verdict[a]
      BY <3>1, <2>1, <1>t
    <3>3. \A v \in Workers : ~(pc'[v] = "commitPublish" /\ slot[v] = y)
      BY <2>1, <2>2, <2>4, <1>t DEF StatusInv, Committing
    <3>4. /\ answer = "visible" => IsNormal(history[y]) /\ history[y] < snapCsn[x]
          /\ answer = "hidden" => (IsNormal(history[y]) => snapCsn[x] <= history[y])
      BY <2>1, <1>t DEF Visible, StatusInv
    <3>. HIDE DEF answer
    <3>5. ASSUME NEW a \in Xids, NEW b \in Xids
          PROVE  /\ verdict'[a][b] = "visible" => IsNormal(history[b]) /\ history[b] < snapCsn[a]
                 /\ verdict'[a][b] = "hidden" =>
                      /\ IsNormal(history[b]) => snapCsn[a] <= history[b]
                      /\ \A v \in Workers : pc'[v] = "commitPublish" /\ slot[v] = b => snapCsn[a] <= myCsn[v]
      <4>1. CASE a = x /\ b = y
        BY <4>1, <3>2, <3>3, <3>4
      <4>2. CASE a # x \/ b # y
        BY <4>2, <3>2, <2>2 DEF SnapshotInv
      <4>. QED
        BY <4>1, <4>2
    <3>6. \A a \in Xids : snapCsn[a] = InvalidCsn => verdict'[a] = [b \in Xids |-> "none"]
      BY <2>1, <3>2 DEF SnapshotInv
    <3>. QED
      BY <2>1, <3>5, <3>6 DEF SnapshotInv, IsNormal
  <2>. QED
    BY <2>3, <2>4
<1>7. CASE AskWait(w)
  <2>1. \A v \in Workers : pc'[v] = "commitPublish" => pc[v] = "commitPublish"
    BY <1>7, <1>t DEF AskWait, Goto
  <2>2. UNCHANGED <<nextCsn, nextXid, snapCsn, verdict, committedAt, history, slot, myCsn>>
    BY <1>7 DEF AskWait, tmVars, txnVars, locals, observed
  <2>. QED
    BY <1>f, <2>1, <2>2
<1>8. CASE WaitStatus(w)
  <2>1. \A v \in Workers : pc'[v] = "commitPublish" => pc[v] = "commitPublish"
    BY <1>8, <1>t DEF WaitStatus, GetTransactionCsn
  <2>2. UNCHANGED <<nextCsn, nextXid, snapCsn, verdict, committedAt, history, slot, myCsn>>
    BY <1>8 DEF WaitStatus, GetTransactionCsn, tmVars, txnVars, locals, observed
  <2>. QED
    BY <1>f, <2>1, <2>2
<1>9. CASE WaitLookup(w)
  <2>1. \A v \in Workers : pc'[v] = "commitPublish" => pc[v] = "commitPublish"
    BY <1>9, <1>t DEF WaitLookup, Goto
  <2>2. UNCHANGED <<nextCsn, nextXid, snapCsn, verdict, committedAt, history, slot, myCsn>>
    BY <1>9 DEF WaitLookup, tmVars, txnVars, locals, observed
  <2>. QED
    BY <1>f, <2>1, <2>2
<1>10. CASE WaitSlot(w)
  <2>1. \A v \in Workers : pc'[v] = "commitPublish" => pc[v] = "commitPublish"
    BY <1>10, <1>t DEF WaitSlot, Goto
  <2>2. UNCHANGED <<nextCsn, nextXid, snapCsn, verdict, committedAt, history, slot, myCsn>>
    BY <1>10 DEF WaitSlot, tmVars, txnVars, locals, observed
  <2>. QED
    BY <1>f, <2>1, <2>2
<1>11. CASE WaitLatch(w)
  <2>1. \A v \in Workers : pc'[v] = "commitPublish" => pc[v] = "commitPublish"
    BY <1>11, <1>t DEF WaitLatch, Goto
  <2>2. UNCHANGED <<nextCsn, nextXid, snapCsn, verdict, committedAt, history, slot, myCsn>>
    BY <1>11 DEF WaitLatch, tmVars, txnVars, locals, observed
  <2>. QED
    BY <1>f, <2>1, <2>2
<1>12. CASE WaitEnded(w)
  <2>1. UNCHANGED <<history, nextCsn, nextXid, slot, myCsn, snapCsn, committedAt, verdict>>
    BY <1>12 DEF WaitEnded, txnVars, observed
  <2>2. \A v \in Workers : pc'[v] = "commitPublish" => pc[v] = "commitPublish"
    BY <1>12, <1>t DEF WaitEnded, GetTransactionCsn
  <2>. QED
    BY <2>1, <2>2 DEF SnapshotInv
<1>13. CASE CommitMark(w)
  <2>1. /\ UNCHANGED <<nextCsn, nextXid, slot, myCsn, snapCsn, committedAt, verdict>>
        /\ pc[w] = "ready" /\ slot[w] \in Xids
    BY <1>13, <1>t DEF CommitMark, Goto, txnVars, locals, observed
  <2>2. \A v \in Workers : pc'[v] = "commitPublish" => pc[v] = "commitPublish"
    BY <1>13, <1>t DEF CommitMark, Goto
  <2>3. history[slot[w]] = InProgressCsn
    BY <2>1 DEF StatusInv, NoXid, Xids
  <2>4. \A y \in Xids : \/ history'[y] = history[y]
                        \/ ~IsNormal(history[y]) /\ ~IsNormal(history'[y])
    BY <1>13, <1>t, <2>1, <2>3 DEF CommitMark, IsNormal, InProgressCsn, CommittingCsn, MinCsn
  <2>5. \A x \in Xids : committedAt[x] \subseteq Xids
    BY DEF TypeOK
  <2>. QED
    BY <2>1, <2>2, <2>4, <2>5 DEF SnapshotInv
<1>14. CASE CommitCsn(w)
  <2>1. /\ UNCHANGED <<history, nextXid, slot, snapCsn, committedAt, verdict>>
        /\ nextCsn' = nextCsn + 1 /\ myCsn'[w] = nextCsn
        /\ \A v \in Workers \ {w} : pc'[v] = pc[v] /\ myCsn'[v] = myCsn[v]
    BY <1>14, <1>t DEF CommitCsn, Goto, txnVars, observed
  <2>2. \A x \in Xids : snapCsn[x] <= nextCsn /\ snapCsn[x] <= nextCsn'
    <3>1. \A x \in Xids : snapCsn[x] = InvalidCsn \/ snapCsn[x] <= nextCsn
      BY DEF SnapshotInv
    <3>2. \A x \in Xids : snapCsn[x] \in Nat
      BY DEF TypeOK
    <3>. QED
      BY <2>1, <3>1, <3>2, <1>t DEF InvalidCsn, MinCsn
  <2>3. \A x, y \in Xids : verdict[x][y] = "hidden" =>
          \A v \in Workers : pc'[v] = "commitPublish" /\ slot[v] = y => snapCsn[x] <= myCsn'[v]
    BY <2>1, <2>2 DEF SnapshotInv
  <2>. QED
    BY <2>1, <2>2, <2>3 DEF SnapshotInv
<1>15. CASE CommitPublish(w)
  BY <1>15, <1>t DEF OwnerInv, StatusInv, CsnInv, CsnUnique, SnapshotInv, IsNormal, Asking, Committing,
      Ending, Ended, Places, CommitPublish, Goto, tmVars, txnVars, locals, observed
<1>16. CASE AbortStart(w)
  <2>1. \A v \in Workers : pc'[v] = "commitPublish" => pc[v] = "commitPublish"
    BY <1>16, <1>t DEF AbortStart, Goto
  <2>2. UNCHANGED <<nextCsn, nextXid, snapCsn, verdict, committedAt, history, slot, myCsn>>
    BY <1>16 DEF AbortStart, tmVars, txnVars, locals, observed
  <2>. QED
    BY <1>f, <2>1, <2>2
<1>17. CASE AbortUndo(w)
  <2>1. \A v \in Workers : pc'[v] = "commitPublish" => pc[v] = "commitPublish"
    BY <1>17, <1>t DEF AbortUndo
  <2>2. UNCHANGED <<nextCsn, nextXid, snapCsn, verdict, committedAt, history, slot, myCsn>>
    BY <1>17 DEF AbortUndo, tmVars, txnVars, locals, observed
  <2>. QED
    BY <1>f, <2>1, <2>2
<1>22. CASE AbortFails(w)
  <2>1. \A v \in Workers : pc'[v] = "commitPublish" => pc[v] = "commitPublish"
    BY <1>22, <1>t DEF AbortFails, Goto
  <2>2. UNCHANGED <<nextCsn, nextXid, snapCsn, verdict, committedAt, history, slot, myCsn>>
    BY <1>22 DEF AbortFails, tmVars, txnVars, locals, observed
  <2>. QED
    BY <1>f, <2>1, <2>2
<1>18. CASE AbortMark(w)
  <2>1. /\ UNCHANGED <<nextCsn, nextXid, slot, myCsn, snapCsn, committedAt, verdict>>
        /\ pc[w] = "abortUndo" /\ slot[w] \in Xids
    BY <1>18, <1>t DEF AbortMark, Goto, txnVars, locals, observed, OwnerInv
  <2>2. \A v \in Workers : pc'[v] = "commitPublish" => pc[v] = "commitPublish"
    BY <1>18, <1>t DEF AbortMark, Goto
  <2>3. history[slot[w]] = InProgressCsn
    BY <2>1 DEF StatusInv, NoXid, Xids
  <2>4. \A y \in Xids : \/ history'[y] = history[y]
                        \/ ~IsNormal(history[y]) /\ ~IsNormal(history'[y])
    BY <1>18, <1>t, <2>1, <2>3 DEF AbortMark, IsNormal, InProgressCsn, AbortedCsn, MinCsn
  <2>5. \A x \in Xids : committedAt[x] \subseteq Xids
    BY DEF TypeOK
  <2>. QED
    BY <2>1, <2>2, <2>4, <2>5 DEF SnapshotInv
<1>19. CASE EndRelease(w)
  <2>1. \A v \in Workers : pc'[v] = "commitPublish" => pc[v] = "commitPublish"
    BY <1>19, <1>t DEF EndRelease, Goto
  <2>2. UNCHANGED <<nextCsn, nextXid, snapCsn, verdict, committedAt, history, slot, myCsn>>
    BY <1>19 DEF EndRelease, tmVars, txnVars, locals, observed
  <2>. QED
    BY <1>f, <2>1, <2>2
<1>20. CASE EndClear(w)
  <2>1. PICK x \in Xids : x = slot[w]
    BY <1>20, <1>t DEF EndClear, Goto, OwnerInv
  <2>2. UNCHANGED <<history, nextCsn, nextXid>>
    BY <1>20 DEF EndClear
  <2>3. snapCsn'[x] = InvalidCsn /\ \A z \in Xids \ {x} : snapCsn'[z] = snapCsn[z]
    BY <1>20, <1>t, <2>1 DEF EndClear
  <2>4. verdict'[x] = [y \in Xids |-> "none"] /\ \A z \in Xids \ {x} : verdict'[z] = verdict[z]
    BY <1>20, <1>t, <2>1 DEF EndClear
  <2>5. committedAt'[x] = {} /\ \A z \in Xids \ {x} : committedAt'[z] = committedAt[z]
    BY <1>20, <1>t, <2>1 DEF EndClear
  <2>6. \A v \in Workers : pc'[v] = "commitPublish" =>
          pc[v] = "commitPublish" /\ slot'[v] = slot[v] /\ myCsn'[v] = myCsn[v]
    BY <1>20, <1>t DEF EndClear, Goto
  <2>7. ASSUME NEW z \in Xids
        PROVE  /\ snapCsn'[z] = InvalidCsn \/ (MinCsn <= snapCsn'[z] /\ snapCsn'[z] <= nextCsn)
               /\ z >= nextXid => snapCsn'[z] = InvalidCsn
               /\ snapCsn'[z] = InvalidCsn => verdict'[z] = [y \in Xids |-> "none"]
               /\ \A y \in committedAt'[z] : IsNormal(history[y]) /\ history[y] < snapCsn'[z]
    BY <2>3, <2>4, <2>5 DEF SnapshotInv
  <2>8. ASSUME NEW z \in Xids, NEW y \in Xids
        PROVE  /\ verdict'[z][y] = "visible" => IsNormal(history[y]) /\ history[y] < snapCsn'[z]
               /\ verdict'[z][y] = "hidden" =>
                    /\ IsNormal(history[y]) => snapCsn'[z] <= history[y]
                    /\ \A v \in Workers : pc'[v] = "commitPublish" /\ slot'[v] = y => snapCsn'[z] <= myCsn'[v]
    <3>1. CASE z = x
      BY <3>1, <2>4
    <3>2. CASE z # x
      BY <3>2, <2>3, <2>4, <2>6 DEF SnapshotInv
    <3>. QED
      BY <3>1, <3>2
  <2>. QED
    BY <2>2, <2>7, <2>8 DEF SnapshotInv, IsNormal
<1>21. CASE SessionEnds(w)
  <2>1. \A v \in Workers : pc'[v] = "commitPublish" => pc[v] = "commitPublish"
    BY <1>21, <1>t DEF SessionEnds
  <2>2. UNCHANGED <<nextCsn, nextXid, snapCsn, verdict, committedAt, history, slot, myCsn>>
    BY <1>21 DEF SessionEnds, tmVars, txnVars, locals, observed
  <2>. QED
    BY <1>f, <2>1, <2>2
<1>. QED
  BY <1>1, <1>2, <1>3, <1>4, <1>5, <1>6, <1>7, <1>8, <1>9, <1>10, <1>11, <1>12, <1>13, <1>14, <1>15, <1>16,
      <1>17, <1>18, <1>19, <1>20, <1>21, <1>22 DEF Run, Wait, Commit, Abort, End


\* Every step keeps the undo logs in line with the undo file.
LEMMA UndoLogStep == ASSUME TypeOK, OwnerInv, StatusInv, CsnInv, UndoLogInv, Next PROVE UndoLogInv'
<1>. PICK w \in Workers :
       \/ BeginCreate(w) \/ BeginNewStatement(w) \/ InsertUndoRecord(w)
       \/ AskVisible(w) \/ AskWait(w) \/ CommitMark(w) \/ AbortStart(w) \/ SessionEnds(w)
       \/ Run(w)
  BY DEF Next
<1>t. /\ slot \in [Workers -> Xids \cup {NoXid}] /\ my \in [Workers -> Xids \cup {NoXid}]
      /\ pc \in [Workers -> Places] /\ history \in [Xids -> Nat] /\ myCsn \in [Workers -> Nat]
      /\ snapCsn \in [Xids -> Nat] /\ snapCid \in [Xids -> Nat] /\ stmtStart \in [Xids -> Nat]
      /\ undoLog \in [Xids -> Seq(Nat)] /\ undoFile \in Seq(Xids)
      /\ nextXid \in Nat /\ nextXid >= 1 /\ nextCsn \in Nat /\ nextCsn >= MinCsn
  BY CountersType DEF TypeOK
<1>d. /\ DOMAIN undoFile = 1..Len(undoFile) /\ Len(undoFile) \in Nat
      /\ \A u \in DOMAIN undoFile : undoFile[u] \in Xids
      /\ \A z \in Xids : /\ DOMAIN undoLog[z] = 1..Len(undoLog[z]) /\ Len(undoLog[z]) \in Nat
                        /\ \A i \in DOMAIN undoLog[z] : undoLog[z][i] \in Nat
  BY UndoDomains
<1>f. ASSUME UNCHANGED <<snapCsn, snapCid, undoLog, undoFile, stmtStart, history>> PROVE UndoLogInv'
  BY <1>f DEF UndoLogInv, UndoLogOf, Ended, IsNormal
<1>1. CASE BeginCreate(w)
  BY <1>1, <1>f DEF BeginCreate, tmVars, txnVars, observed
<1>2. CASE BeginRegister(w)
  <2>1. UNCHANGED <<snapCsn, snapCid, undoLog, undoFile, stmtStart>>
    BY <1>2 DEF BeginRegister, txnVars, observed
  <2>2. slot[w] \in Xids /\ history[slot[w]] = InvalidCsn
    BY <1>2, <1>t DEF BeginRegister, Goto, OwnerInv, StatusInv, Committing
  <2>3. /\ history'[slot[w]] = InProgressCsn
        /\ \A z \in Xids \ {slot[w]} : history'[z] = history[z]
    BY <1>2, <1>t, <2>2 DEF BeginRegister, Goto, OwnerInv
  <2>4. ~Ended(slot[w]) /\ history'[slot[w]] # InvalidCsn
    BY <1>2, <2>2, <2>3 DEF Ended, IsNormal, BeginRegister, Goto, CsnInv
  <2>5. ASSUME NEW z \in Xids PROVE UndoLogOf(z)'
    <3>1. UndoLogOf(z)
      BY DEF UndoLogInv
    <3>2. CASE z = slot[w]
      BY <3>1, <3>2, <2>1, <2>2, <2>3, <2>4, <1>d DEF UndoLogOf, UndoLogInv
    <3>3. CASE z # slot[w]
      BY <3>1, <3>3, <2>1, <2>3 DEF UndoLogOf, Ended, IsNormal
    <3>. QED
      BY <3>2, <3>3
  <2>. QED
    BY <2>1, <2>3, <2>4, <2>5, <1>d DEF UndoLogInv
<1>3. CASE BeginNewStatement(w)
  <2>. DEFINE x == my[w]
  <2>1. x \in Xids /\ UNCHANGED <<history, undoLog, undoFile>>
    BY <1>3, <1>t DEF BeginNewStatement, tmVars
  <2>2. /\ snapCsn'[x] # InvalidCsn /\ stmtStart'[x] = Len(undoLog[x])
        /\ snapCid'[x] \in {InvalidUsn, snapCid[x], LastUsn(x) + 1}
        /\ \A z \in Xids \ {x} : /\ snapCsn'[z] = snapCsn[z] /\ snapCid'[z] = snapCid[z]
                                 /\ stmtStart'[z] = stmtStart[z]
    <3>1. CASE snapCsn[x] = InvalidCsn
      BY <3>1, <1>3, <1>t, <2>1 DEF BeginNewStatement
    <3>2. CASE snapCsn[x] # InvalidCsn
      BY <3>2, <1>3, <1>t, <2>1 DEF BeginNewStatement, CommandId
    <3>. QED
      BY <3>1, <3>2
  <2>. HIDE DEF x
  <2>3. LastUsn(x) <= Len(undoFile) /\ LastUsn(x) \in Nat
    BY <2>1, <1>d, LastUsnType DEF LastUsn, UndoLogInv, UndoLogOf
  <2>4. snapCid'[x] <= Len(undoFile) + 1
    BY <2>1, <2>2, <2>3, <1>d DEF UndoLogInv, UndoLogOf
  <2>5. ASSUME NEW z \in Xids PROVE UndoLogOf(z)'
    <3>1. UndoLogOf(z)
      BY DEF UndoLogInv
    <3>2. CASE z = x
      BY <3>1, <3>2, <2>1, <2>2, <2>4, <1>d DEF UndoLogOf
    <3>3. CASE z # x
      BY <3>1, <3>3, <2>1, <2>2 DEF UndoLogOf, Ended
    <3>. QED
      BY <3>2, <3>3
  <2>. QED
    BY <2>1, <2>5 DEF UndoLogInv
<1>4. CASE InsertUndoRecord(w)
  <2>. DEFINE u == Len(undoFile) + 1
  <2>0. PICK x \in Xids : x = my[w]
    BY <1>4, <1>t DEF InsertUndoRecord
  <2>1. /\ x \in Xids /\ snapCsn[x] # InvalidCsn /\ history[x] = InProgressCsn
        /\ UNCHANGED <<history, snapCsn, snapCid, stmtStart>>
    BY <2>0, <1>4, <1>t DEF InsertUndoRecord, tmVars, observed, OwnerInv, StatusInv
  <2>2. /\ Len(undoFile') = u /\ DOMAIN undoFile' = 1..u
        /\ \A v \in 1..Len(undoFile) : undoFile'[v] = undoFile[v]
        /\ undoFile'[u] = x
    <3>1. undoFile' = Append(undoFile, x)
      BY <2>0, <1>4 DEF InsertUndoRecord
    <3>. HIDE DEF Xids
    <3>. QED
      BY <2>1, <3>1, <1>t, SeqAppend
  <2>3. /\ Len(undoLog'[x]) = Len(undoLog[x]) + 1 /\ DOMAIN undoLog'[x] = 1..(Len(undoLog[x]) + 1)
        /\ \A i \in 1..Len(undoLog[x]) : undoLog'[x][i] = undoLog[x][i]
        /\ undoLog'[x][Len(undoLog[x]) + 1] = u
        /\ \A z \in Xids \ {x} : undoLog'[z] = undoLog[z]
    <3>1. /\ undoLog'[x] = Append(undoLog[x], u)
          /\ \A z \in Xids \ {x} : undoLog'[z] = undoLog[z]
      BY <2>0, <1>4, <1>t, <2>1, <2>2 DEF InsertUndoRecord
    <3>2. undoLog[x] \in Seq(Nat)
      BY <2>1, <1>t
    <3>3. u \in Nat
      BY <1>d
    <3>. HIDE DEF u
    <3>. QED
      BY <3>1, <3>2, <3>3, SeqAppend
  <2>. HIDE DEF u
  <2>u. u = Len(undoFile) + 1
    BY DEF u
  <2>4. ASSUME NEW z \in Xids \ {x} PROVE UndoLogOf(z)'
    <3>1. UndoLogOf(z)
      BY DEF UndoLogInv
    <3>2. undoLog'[z] = undoLog[z]
      BY <2>3
    <3>3. \A v \in DOMAIN undoFile' : undoFile'[v] = z => v \in DOMAIN undoFile /\ undoFile[v] = z
      BY <2>2, <2>u, <1>d
    <3>4. \A v \in DOMAIN undoFile : v \in DOMAIN undoFile' /\ undoFile'[v] = undoFile[v]
      BY <2>2, <2>u, <1>d
    <3>5. snapCid[z] <= Len(undoFile') + 1
      <4>1. snapCid[z] <= Len(undoFile) + 1
        BY <3>1 DEF UndoLogOf
      <4>2. snapCid[z] \in Nat /\ Len(undoFile') = Len(undoFile) + 1
        BY <2>2, <2>u, <1>t
      <4>. QED
        BY <4>1, <4>2, <1>d
    <3>. QED
      BY <3>1, <3>2, <3>3, <3>4, <3>5, <2>1 DEF UndoLogOf, Ended
  <2>5. UndoLogOf(x)'
    <3>. DEFINE n == Len(undoLog[x])
    <3>1. UndoLogOf(x)
      BY <2>1 DEF UndoLogInv
    <3>2. /\ n \in Nat /\ DOMAIN undoLog[x] = 1..n /\ DOMAIN undoLog'[x] = 1..(n + 1)
          /\ \A i \in 1..n : undoLog[x][i] \in Nat
      BY <2>1, <2>3, <1>d
    <3>3. /\ \A i \in 1..n : undoLog'[x][i] = undoLog[x][i]
          /\ undoLog'[x][n + 1] = u /\ Len(undoLog'[x]) = n + 1
      BY <2>3
    <3>. HIDE DEF n
    <3>4. \A v \in 1..Len(undoFile) : v < u /\ v \in DOMAIN undoFile' /\ undoFile'[v] = undoFile[v]
      BY <2>2, <2>u, <1>d
    <3>5. \A i \in 1..n : undoLog[x][i] \in 1..Len(undoFile) /\ undoFile[undoLog[x][i]] = x
      BY <3>1, <3>2, <1>d DEF UndoLogOf
    <3>6. \A i \in DOMAIN undoLog'[x] :
            undoLog'[x][i] \in DOMAIN undoFile' /\ undoFile'[undoLog'[x][i]] = x
      <4>1. u \in DOMAIN undoFile' /\ undoFile'[u] = x
        BY <2>2, <2>u, <1>d
      <4>2. \A i \in 1..(n + 1) : i \in 1..n \/ i = n + 1
        BY <3>2
      <4>3. ASSUME NEW i \in 1..n
            PROVE  undoLog'[x][i] \in DOMAIN undoFile' /\ undoFile'[undoLog'[x][i]] = x
        <5>1. undoLog'[x][i] = undoLog[x][i]
          BY <3>3
        <5>. QED
          BY <5>1, <3>4, <3>5
      <4>4. undoLog'[x][n + 1] \in DOMAIN undoFile' /\ undoFile'[undoLog'[x][n + 1]] = x
        BY <4>1, <3>3
      <4>. QED
        BY <4>2, <4>3, <4>4, <3>2
    <3>7. \A i, j \in DOMAIN undoLog'[x] : i < j => undoLog'[x][i] < undoLog'[x][j]
      <4>1. ASSUME NEW i \in 1..(n + 1), NEW j \in 1..(n + 1), i < j
            PROVE  undoLog'[x][i] < undoLog'[x][j]
        <5>1. i \in 1..n
          BY <4>1, <3>2
        <5>2. CASE j = n + 1
          BY <5>1, <5>2, <3>3, <3>4, <3>5
        <5>3. CASE j \in 1..n
          BY <5>1, <5>3, <4>1, <3>1, <3>2, <3>3 DEF UndoLogOf
        <5>. QED
          BY <5>2, <5>3, <3>2
      <4>. QED
        BY <4>1, <3>2
    <3>8. \A v \in DOMAIN undoFile' : undoFile'[v] = x => \E i \in DOMAIN undoLog'[x] : undoLog'[x][i] = v
      <4>1. ASSUME NEW v \in DOMAIN undoFile', undoFile'[v] = x
            PROVE  \E i \in DOMAIN undoLog'[x] : undoLog'[x][i] = v
        <5>1. CASE v = u
          <6>1. n + 1 \in DOMAIN undoLog'[x]
            BY <3>2
          <6>. QED
            BY <5>1, <6>1, <3>3
        <5>2. CASE v # u
          <6>1. v \in DOMAIN undoFile /\ undoFile[v] = x
            BY <5>2, <4>1, <2>2, <2>u, <1>d
          <6>2. PICK i \in DOMAIN undoLog[x] : undoLog[x][i] = v
            BY <6>1, <3>1, <2>1 DEF UndoLogOf
          <6>3. i \in 1..n /\ i \in DOMAIN undoLog'[x]
            BY <6>2, <3>2
          <6>. QED
            BY <6>2, <6>3, <3>3
        <5>. QED
          BY <5>1, <5>2
      <4>. QED
        BY <4>1
    <3>9. /\ stmtStart[x] <= Len(undoLog'[x]) \/ Ended(x)
          /\ snapCid[x] <= Len(undoFile') + 1
      <4>1. /\ stmtStart[x] <= n \/ Ended(x)
            /\ snapCid[x] <= Len(undoFile) + 1
        BY <3>1 DEF UndoLogOf, n
      <4>2. /\ snapCid[x] \in Nat /\ stmtStart[x] \in Nat /\ Len(undoLog'[x]) = n + 1
            /\ Len(undoFile') = Len(undoFile) + 1
        BY <3>3, <2>2, <2>u, <1>t
      <4>. QED
        BY <4>1, <4>2, <3>2, <1>d
    <3>. QED
      BY <3>6, <3>7, <3>8, <3>9, <2>1 DEF UndoLogOf, Ended
  <2>6. \A v \in DOMAIN undoFile' : history[undoFile'[v]] # InvalidCsn
    BY <2>1, <2>2, <2>u, <1>d DEF UndoLogInv
  <2>. QED
    BY <2>1, <2>4, <2>5, <2>6 DEF UndoLogInv
<1>5. CASE AskVisible(w)
  BY <1>5, <1>f DEF AskVisible, tmVars, txnVars, observed
<1>6. CASE TupleIsVisible(w)
  BY <1>6, <1>f DEF TupleIsVisible, GetTransactionCsn, tmVars, txnVars, observed
<1>7. CASE AskWait(w)
  BY <1>7, <1>f DEF AskWait, tmVars, txnVars, observed
<1>8. CASE WaitStatus(w)
  BY <1>8, <1>f DEF WaitStatus, GetTransactionCsn, tmVars, txnVars, observed
<1>9. CASE WaitLookup(w)
  BY <1>9, <1>f DEF WaitLookup, tmVars, txnVars, observed
<1>10. CASE WaitSlot(w)
  BY <1>10, <1>f DEF WaitSlot, tmVars, txnVars, observed
<1>11. CASE WaitLatch(w)
  BY <1>11, <1>f DEF WaitLatch, tmVars, txnVars, observed
<1>12. CASE WaitEnded(w)
  BY <1>12, <1>f DEF WaitEnded, GetTransactionCsn, tmVars, txnVars, observed
<1>13. CASE CommitMark(w)
  <2>1. UNCHANGED <<snapCsn, snapCid, undoLog, undoFile, stmtStart>>
    BY <1>13 DEF CommitMark, txnVars, observed
  <2>2. slot[w] \in Xids /\ history[slot[w]] = InProgressCsn
    BY <1>13, <1>t DEF CommitMark, Goto, OwnerInv, StatusInv, Committing
  <2>3. /\ history'[slot[w]] = CommittingCsn
        /\ \A z \in Xids \ {slot[w]} : history'[z] = history[z]
    BY <1>13, <1>t, <2>2 DEF CommitMark, Goto, OwnerInv
  <2>4. ~Ended(slot[w]) /\ history'[slot[w]] # InvalidCsn
    BY <1>13, <2>2, <2>3 DEF Ended, IsNormal, CommitMark, Goto, CsnInv
  <2>5. ASSUME NEW z \in Xids PROVE UndoLogOf(z)'
    <3>1. UndoLogOf(z)
      BY DEF UndoLogInv
    <3>2. CASE z = slot[w]
      BY <3>1, <3>2, <2>1, <2>2, <2>3, <2>4, <1>d DEF UndoLogOf, UndoLogInv
    <3>3. CASE z # slot[w]
      BY <3>1, <3>3, <2>1, <2>3 DEF UndoLogOf, Ended, IsNormal
    <3>. QED
      BY <3>2, <3>3
  <2>. QED
    BY <2>1, <2>3, <2>4, <2>5, <1>d DEF UndoLogInv
<1>14. CASE CommitCsn(w)
  BY <1>14, <1>f DEF CommitCsn, tmVars, txnVars, observed
<1>15. CASE CommitPublish(w)
  <2>1. UNCHANGED <<snapCsn, snapCid, undoLog, undoFile, stmtStart>>
    BY <1>15 DEF CommitPublish, txnVars, observed
  <2>2. slot[w] \in Xids /\ history[slot[w]] = CommittingCsn
    BY <1>15, <1>t DEF CommitPublish, Goto, OwnerInv, StatusInv, Committing
  <2>3. /\ history'[slot[w]] = myCsn[w]
        /\ \A z \in Xids \ {slot[w]} : history'[z] = history[z]
    BY <1>15, <1>t, <2>2 DEF CommitPublish, Goto, OwnerInv
  <2>4. ~Ended(slot[w]) /\ history'[slot[w]] # InvalidCsn
    BY <1>15, <2>2, <2>3 DEF Ended, IsNormal, CommitPublish, Goto, CsnInv
  <2>5. ASSUME NEW z \in Xids PROVE UndoLogOf(z)'
    <3>1. UndoLogOf(z)
      BY DEF UndoLogInv
    <3>2. CASE z = slot[w]
      <4>1. history'[z] # InProgressCsn /\ Ended(z)'
        BY <1>15, <2>3, <3>2 DEF CommitPublish, Goto, CsnInv, Ended, IsNormal
      <4>. QED
        BY <4>1, <3>1, <3>2, <2>1 DEF UndoLogOf
    <3>3. CASE z # slot[w]
      BY <3>1, <3>3, <2>1, <2>3 DEF UndoLogOf, Ended, IsNormal
    <3>. QED
      BY <3>2, <3>3
  <2>. QED
    BY <2>1, <2>3, <2>4, <2>5, <1>d DEF UndoLogInv
<1>16. CASE AbortStart(w)
  <2>1. UNCHANGED <<history, snapCsn, snapCid, undoLog, undoFile, stmtStart>>
    BY <1>16 DEF AbortStart, tmVars, txnVars, observed
  <2>. QED
    BY <2>1 DEF UndoLogInv, UndoLogOf, Ended
<1>17. CASE AbortUndo(w)
  BY <1>17, <1>f DEF AbortUndo, tmVars, txnVars, observed
<1>22. CASE AbortFails(w)
  <2>1. UNCHANGED <<history, snapCsn, snapCid, undoLog, undoFile, stmtStart>>
    BY <1>22 DEF AbortFails, tmVars, txnVars, observed
  <2>. QED
    BY <2>1 DEF UndoLogInv, UndoLogOf, Ended
<1>18. CASE AbortMark(w)
  <2>. DEFINE x == my[w]
  <2>1. /\ x \in Xids /\ slot[w] = x /\ UNCHANGED <<snapCsn, snapCid, undoFile, stmtStart>>
    BY <1>18, <1>t DEF AbortMark, Goto, OwnerInv, observed
  <2>2. /\ undoLog'[x] = <<>> /\ history'[x] = AbortedCsn
        /\ \A z \in Xids \ {x} : undoLog'[z] = undoLog[z] /\ history'[z] = history[z]
    BY <1>18, <1>t, <2>1 DEF AbortMark
  <2>3. DOMAIN undoLog'[x] = {}
    BY <2>2
  <2>. HIDE DEF x
  <2>4. ASSUME NEW z \in Xids PROVE UndoLogOf(z)'
    <3>1. UndoLogOf(z)
      BY DEF UndoLogInv
    <3>2. CASE z = x
      BY <3>1, <3>2, <2>1, <2>2, <2>3 DEF UndoLogOf, Ended
    <3>3. CASE z # x
      BY <3>1, <3>3, <2>1, <2>2 DEF UndoLogOf, Ended
    <3>. QED
      BY <3>2, <3>3
  <2>. QED
    BY <2>1, <2>2, <2>4, <1>d DEF UndoLogInv
<1>19. CASE EndRelease(w)
  BY <1>19, <1>f DEF EndRelease, tmVars, txnVars, observed
<1>20. CASE EndClear(w)
  <2>1. PICK x \in Xids : x = slot[w]
    BY <1>20, <1>t DEF EndClear, Goto, OwnerInv
  <2>2. /\ UNCHANGED <<history, undoFile>> /\ Ended(x)
        /\ snapCid'[x] = InvalidUsn /\ undoLog'[x] = <<>>
        /\ \A z \in Xids \ {x} : /\ snapCsn'[z] = snapCsn[z] /\ snapCid'[z] = snapCid[z]
                                 /\ undoLog'[z] = undoLog[z] /\ stmtStart'[z] = stmtStart[z]
    BY <1>20, <1>t, <2>1 DEF EndClear, Goto, StatusInv, Ending
  <2>3. history[x] # InProgressCsn
    BY <2>2 DEF Ended, IsNormal
  <2>4. ASSUME NEW z \in Xids PROVE UndoLogOf(z)'
    <3>1. CASE z = x
      BY <3>1, <2>2, <2>3, <1>d DEF UndoLogOf, Ended
    <3>2. CASE z # x
      BY <3>2, <2>2 DEF UndoLogInv, UndoLogOf, Ended
    <3>. QED
      BY <3>1, <3>2
  <2>. QED
    BY <2>2, <2>4 DEF UndoLogInv
<1>21. CASE SessionEnds(w)
  BY <1>21, <1>f DEF SessionEnds, tmVars, txnVars, observed
<1>. QED
  BY <1>1, <1>2, <1>3, <1>4, <1>5, <1>6, <1>7, <1>8, <1>9, <1>10, <1>11, <1>12, <1>13, <1>14, <1>15, <1>16,
      <1>17, <1>18, <1>19, <1>20, <1>21, <1>22 DEF Run, Wait, Commit, Abort, End


\* Every step undoes records of aborting transactions only, backwards.
LEMMA UndoneStep == ASSUME TypeOK, OwnerInv, StatusInv, CsnInv, UndoLogInv, UndoneInv, LeftInv,
    Next PROVE UndoneInv'
<1>. PICK w \in Workers :
       \/ BeginCreate(w) \/ BeginNewStatement(w) \/ InsertUndoRecord(w)
       \/ AskVisible(w) \/ AskWait(w) \/ CommitMark(w) \/ AbortStart(w) \/ SessionEnds(w)
       \/ Run(w)
  BY DEF Next
<1>t. /\ slot \in [Workers -> Xids \cup {NoXid}] /\ my \in [Workers -> Xids \cup {NoXid}]
      /\ pc \in [Workers -> Places] /\ history \in [Xids -> Nat] /\ myCsn \in [Workers -> Nat]
      /\ snapCsn \in [Xids -> Nat] /\ snapCid \in [Xids -> Nat] /\ stmtStart \in [Xids -> Nat]
      /\ undoLog \in [Xids -> Seq(Nat)] /\ undoFile \in Seq(Xids)
      /\ nextXid \in Nat /\ nextXid >= 1 /\ nextCsn \in Nat /\ nextCsn >= MinCsn
  BY CountersType DEF TypeOK
<1>d. /\ DOMAIN undoFile = 1..Len(undoFile) /\ Len(undoFile) \in Nat
      /\ \A u \in DOMAIN undoFile : undoFile[u] \in Xids
      /\ \A z \in Xids : /\ DOMAIN undoLog[z] = 1..Len(undoLog[z]) /\ Len(undoLog[z]) \in Nat
                        /\ \A i \in DOMAIN undoLog[z] : undoLog[z][i] \in Nat
  BY UndoDomains
<1>f. ASSUME UNCHANGED <<history, undoFile, undone, failed, my>>,
             \A v \in Workers : pc[v] = "abortUndo" => pc'[v] = "abortUndo"
      PROVE  UndoneInv'
  BY <1>f DEF UndoneInv, AbortedUndone
<1>1. CASE BeginCreate(w)
  BY <1>1, <1>t DEF OwnerInv, StatusInv, CsnInv, UndoneInv, AbortedUndone, IsNormal, Asking, Committing,
      Ending, Places, BeginCreate, Goto, tmVars, txnVars, locals, observed
<1>2. CASE BeginRegister(w)
  <2>1. UNCHANGED <<undoFile, undone, failed, my>> /\ slot[w] = my[w] /\ my[w] \in Xids
    BY <1>2, <1>t DEF BeginRegister, Goto, txnVars, locals, OwnerInv
  <2>2. \A u \in DOMAIN undoFile : undoFile[u] # my[w]
    BY <1>2, <1>t, <2>1 DEF BeginRegister, Goto, StatusInv, UndoLogInv
  <2>3. \A z \in Xids \ {my[w]} : history'[z] = history[z]
    BY <1>2, <1>t DEF BeginRegister
  <2>4. \A v \in Workers : pc[v] = "abortUndo" => pc'[v] = "abortUndo"
    BY <1>2, <1>t DEF BeginRegister, Goto
  <2>. QED
    BY <2>1, <2>2, <2>3, <2>4, <1>d DEF UndoneInv, AbortedUndone
<1>3. CASE BeginNewStatement(w)
  <2>1. UNCHANGED <<history, undoFile, undone, failed, my>>
    BY <1>3 DEF BeginNewStatement, tmVars, txnVars, locals
  <2>2. \A v \in Workers : pc[v] = "abortUndo" => pc'[v] = "abortUndo"
    BY <1>3, <1>t DEF BeginNewStatement
  <2>. QED
    BY <1>f, <2>1, <2>2
<1>4. CASE InsertUndoRecord(w)
  <2>1. PICK x \in Xids : x = my[w]
    BY <1>4, <1>t DEF InsertUndoRecord
  <2>2. slot[w] = x /\ history[x] = InProgressCsn /\ UNCHANGED <<history, undone, failed, my, pc>>
    BY <2>1, <1>4, <1>t DEF InsertUndoRecord, tmVars, locals, OwnerInv, StatusInv
  <2>3. x \notin failed => \A u \in undone : undoFile[u] # x
    <3>1. ASSUME NEW v \in Workers, pc[v] = "abortUndo", my[v] = x PROVE FALSE
      <4>1. slot[v] = x /\ v = w
        BY <3>1, <2>2 DEF OwnerInv
      <4>. QED
        BY <3>1, <4>1, <1>4 DEF InsertUndoRecord
    <3>. QED
      BY <3>1, <2>2 DEF UndoneInv
  <2>4. /\ DOMAIN undoFile' = 1..(Len(undoFile) + 1)
        /\ \A v \in 1..Len(undoFile) : undoFile'[v] = undoFile[v]
        /\ undoFile'[Len(undoFile) + 1] = x
    <3>1. undoFile' = Append(undoFile, x)
      BY <2>1, <1>4 DEF InsertUndoRecord
    <3>. HIDE DEF Xids
    <3>. QED
      BY <3>1, <1>t, SeqAppend
  <2>5. \A v \in DOMAIN undoFile' : (v \in DOMAIN undoFile /\ undoFile'[v] = undoFile[v]) \/ undoFile'[v] = x
    BY <2>4, <1>d
  <2>6. \A v \in DOMAIN undoFile : v \in DOMAIN undoFile' /\ undoFile'[v] = undoFile[v]
    BY <2>4, <1>d
  <2>7. Len(undoFile) + 1 \notin undone
    BY <1>d DEF UndoneInv
  <2>8. AbortedUndone'
    <3>1. ASSUME NEW u \in DOMAIN undoFile', undoFile'[u] # x
          PROVE  /\ history[undoFile'[u]] = AbortedCsn => u \in undone
                 /\ u \in undone /\ undoFile'[u] \notin failed =>
                      /\ history[undoFile'[u]] \in {InProgressCsn, AbortedCsn}
                      /\ \A v \in DOMAIN undoFile' : undoFile'[v] = undoFile'[u] /\ v > u => v \in undone
      BY <3>1, <2>5 DEF UndoneInv, AbortedUndone
    <3>2. ASSUME NEW u \in DOMAIN undoFile', undoFile'[u] = x, x \notin failed PROVE u \notin undone
      BY <3>2, <2>3, <2>6 DEF UndoneInv
    <3>. QED
      BY <3>1, <3>2, <2>2 DEF AbortedUndone
  <2>. QED
    BY <2>2, <2>6, <2>8 DEF UndoneInv
<1>5. CASE AskVisible(w)
  <2>1. UNCHANGED <<history, undoFile, undone, failed, my>>
    BY <1>5 DEF AskVisible, tmVars, txnVars, locals
  <2>2. \A v \in Workers : pc[v] = "abortUndo" => pc'[v] = "abortUndo"
    BY <1>5, <1>t DEF AskVisible, Goto
  <2>. QED
    BY <1>f, <2>1, <2>2
<1>6. CASE TupleIsVisible(w)
  <2>1. UNCHANGED <<history, undoFile, undone, failed, my>>
    BY <1>6 DEF TupleIsVisible, txnVars
  <2>2. \A v \in Workers : pc[v] = "abortUndo" => pc'[v] = "abortUndo"
    BY <1>6, <1>t DEF TupleIsVisible, GetTransactionCsn
  <2>. QED
    BY <2>1, <2>2 DEF UndoneInv, AbortedUndone
<1>7. CASE AskWait(w)
  <2>1. UNCHANGED <<history, undoFile, undone, failed, my>>
    BY <1>7 DEF AskWait, tmVars, txnVars, locals
  <2>2. \A v \in Workers : pc[v] = "abortUndo" => pc'[v] = "abortUndo"
    BY <1>7, <1>t DEF AskWait, Goto
  <2>. QED
    BY <1>f, <2>1, <2>2
<1>8. CASE WaitStatus(w)
  <2>1. UNCHANGED <<history, undoFile, undone, failed, my>>
    BY <1>8 DEF WaitStatus, tmVars, txnVars, locals
  <2>2. \A v \in Workers : pc[v] = "abortUndo" => pc'[v] = "abortUndo"
    BY <1>8, <1>t DEF WaitStatus, GetTransactionCsn
  <2>. QED
    BY <1>f, <2>1, <2>2
<1>9. CASE WaitLookup(w)
  <2>1. UNCHANGED <<history, undoFile, undone, failed, my>>
    BY <1>9 DEF WaitLookup, tmVars, txnVars, locals
  <2>2. \A v \in Workers : pc[v] = "abortUndo" => pc'[v] = "abortUndo"
    BY <1>9, <1>t DEF WaitLookup, Goto
  <2>. QED
    BY <1>f, <2>1, <2>2
<1>10. CASE WaitSlot(w)
  <2>1. UNCHANGED <<history, undoFile, undone, failed, my>>
    BY <1>10 DEF WaitSlot, tmVars, txnVars, locals
  <2>2. \A v \in Workers : pc[v] = "abortUndo" => pc'[v] = "abortUndo"
    BY <1>10, <1>t DEF WaitSlot, Goto
  <2>. QED
    BY <1>f, <2>1, <2>2
<1>11. CASE WaitLatch(w)
  <2>1. UNCHANGED <<history, undoFile, undone, failed, my>>
    BY <1>11 DEF WaitLatch, tmVars, txnVars, locals
  <2>2. \A v \in Workers : pc[v] = "abortUndo" => pc'[v] = "abortUndo"
    BY <1>11, <1>t DEF WaitLatch, Goto
  <2>. QED
    BY <1>f, <2>1, <2>2
<1>12. CASE WaitEnded(w)
  <2>1. UNCHANGED <<history, undoFile, undone, failed, my>>
    BY <1>12 DEF WaitEnded, tmVars, txnVars, locals
  <2>2. \A v \in Workers : pc[v] = "abortUndo" => pc'[v] = "abortUndo"
    BY <1>12, <1>t DEF WaitEnded, GetTransactionCsn
  <2>. QED
    BY <1>f, <2>1, <2>2
<1>13. CASE CommitMark(w)
  <2>1. UNCHANGED <<undoFile, undone, failed, my>> /\ pc[w] = "ready" /\ slot[w] \in Xids
    BY <1>13, <1>t DEF CommitMark, Goto, txnVars, locals, OwnerInv
  <2>2. \A v \in Workers : pc[v] = "abortUndo" => pc'[v] = "abortUndo"
    BY <1>13, <1>t DEF CommitMark, Goto
  <2>3. \A z \in Xids \ {slot[w]} : history'[z] = history[z]
    BY <1>13, <1>t DEF CommitMark
  <2>4. history[slot[w]] = InProgressCsn /\ history'[slot[w]] # AbortedCsn
    BY <1>13, <1>t, <2>1 DEF CommitMark, StatusInv, CsnInv, Committing, NoXid, CommittingCsn, AbortedCsn, MinCsn, Xids
  <2>5. slot[w] \notin failed => \A u \in undone : undoFile[u] # slot[w]
    BY <2>1, <2>4 DEF UndoneInv, OwnerInv, InProgressCsn, CommittingCsn, AbortedCsn, AbortedUndone
  <2>. QED
    BY <2>1, <2>2, <2>3, <2>4, <2>5, <1>d DEF UndoneInv, AbortedUndone
<1>14. CASE CommitCsn(w)
  <2>1. UNCHANGED <<history, undoFile, undone, failed, my>>
    BY <1>14 DEF CommitCsn, tmVars, txnVars, locals
  <2>2. \A v \in Workers : pc[v] = "abortUndo" => pc'[v] = "abortUndo"
    BY <1>14, <1>t DEF CommitCsn, Goto
  <2>. QED
    BY <1>f, <2>1, <2>2
<1>15. CASE CommitPublish(w)
  <2>1. UNCHANGED <<undoFile, undone, failed, my>> /\ pc[w] = "commitPublish" /\ slot[w] \in Xids
    BY <1>15, <1>t DEF CommitPublish, Goto, txnVars, locals, OwnerInv
  <2>2. \A v \in Workers : pc[v] = "abortUndo" => pc'[v] = "abortUndo"
    BY <1>15, <1>t DEF CommitPublish, Goto
  <2>3. \A z \in Xids \ {slot[w]} : history'[z] = history[z]
    BY <1>15, <1>t DEF CommitPublish
  <2>4. history[slot[w]] = CommittingCsn /\ history'[slot[w]] # AbortedCsn
    BY <1>15, <1>t, <2>1 DEF CommitPublish, StatusInv, CsnInv, Committing, NoXid, CommittingCsn, AbortedCsn, MinCsn, Xids
  <2>5. slot[w] \notin failed => \A u \in undone : undoFile[u] # slot[w]
    BY <2>1, <2>4 DEF UndoneInv, OwnerInv, InProgressCsn, CommittingCsn, AbortedCsn, AbortedUndone
  <2>. QED
    BY <2>1, <2>2, <2>3, <2>4, <2>5, <1>d DEF UndoneInv, AbortedUndone
<1>16. CASE AbortStart(w)
  <2>1. UNCHANGED <<history, undoFile, undone, failed, my>>
    BY <1>16 DEF AbortStart, tmVars, txnVars, locals
  <2>2. \A v \in Workers : pc[v] = "abortUndo" => pc'[v] = "abortUndo"
    BY <1>16, <1>t DEF AbortStart, Goto
  <2>. QED
    BY <1>f, <2>1, <2>2
<1>17. CASE AbortUndo(w)
  <2>1. PICK x \in Xids : x = my[w]
    BY <1>17, <1>t DEF AbortUndo, OwnerInv
  <2>2. /\ slot[w] = x /\ history[x] = InProgressCsn /\ pc[w] = "abortUndo"
        /\ UNCHANGED <<history, undoFile, failed, my, pc>>
    BY <2>1, <1>17, <1>t DEF AbortUndo, tmVars, locals, OwnerInv, StatusInv
  <2>3. UndoLogOf(x)
    BY DEF UndoLogInv
  <2>4. PICK i \in DOMAIN undoLog[x] :
          /\ \A j \in DOMAIN undoLog[x] : j > i => undoLog[x][j] \in undone
          /\ undone' = undone \cup {undoLog[x][i]}
    <3>1. left[w] \in DOMAIN undoLog[x]
      <4>1. left \in [Workers -> Nat]
        BY DEF TypeOK
      <4>. QED
        BY <1>17, <4>1, <1>d, <2>1 DEF AbortUndo, LeftInv
    <3>. QED
      BY <1>17, <2>1, <3>1 DEF AbortUndo, LeftInv
  <2>5. undoLog[x][i] \in DOMAIN undoFile /\ undoFile[undoLog[x][i]] = x
    BY <2>3, <2>4 DEF UndoLogOf
  <2>6. ASSUME NEW v \in DOMAIN undoFile, undoFile[v] = x, v > undoLog[x][i] PROVE v \in undone
    <3>1. PICK j \in DOMAIN undoLog[x] : undoLog[x][j] = v
      BY <2>2, <2>3, <2>6 DEF UndoLogOf
    <3>2. i \in Nat /\ j \in Nat /\ undoLog[x][i] \in Nat /\ v \in Nat
      BY <2>4, <3>1, <1>d
    <3>3. ~(j <= i)
      <4>1. j < i => v < undoLog[x][i]
        BY <2>3, <3>1 DEF UndoLogOf
      <4>. QED
        BY <4>1, <2>6, <3>1, <3>2
    <3>. QED
      BY <2>4, <3>1, <3>2, <3>3
  <2>7. AbortedUndone'
    BY <2>2, <2>4, <2>5, <2>6 DEF UndoneInv, AbortedUndone
  <2>. QED
    BY <2>1, <2>2, <2>4, <2>5, <2>7 DEF UndoneInv
<1>22. CASE AbortFails(w)
  <2>1. UNCHANGED <<history, undoFile, undone, my>> /\ failed' = failed \cup {my[w]}
    BY <1>22 DEF AbortFails, tmVars, txnVars, locals
  <2>2. \A v \in Workers : pc[v] = "abortUndo" => pc'[v] = "abortUndo" \/ my[v] = my[w]
    BY <1>22, <1>t DEF AbortFails, Goto
  <2>3. AbortedUndone'
    BY <2>1 DEF UndoneInv, AbortedUndone
  <2>. QED
    BY <2>1, <2>2, <2>3 DEF UndoneInv
<1>18. CASE AbortMark(w)
  <2>1. PICK x \in Xids : x = my[w]
    BY <1>18, <1>t DEF AbortMark, Goto, OwnerInv
  <2>2. slot[w] = x /\ history[x] = InProgressCsn /\ UNCHANGED <<undoFile, undone, failed, my>>
    BY <2>1, <1>18, <1>t DEF AbortMark, Goto, locals, OwnerInv, StatusInv
  <2>3. \A u \in DOMAIN undoFile : undoFile[u] = x => u \in undone
    <3>1. \A i \in DOMAIN undoLog[x] : i > 0 => undoLog[x][i] \in undone
      BY <1>18, <2>1 DEF AbortMark, Goto, LeftInv
    <3>. QED
      BY <3>1, <2>2, <1>d DEF UndoLogInv, UndoLogOf
  <2>4. history'[x] = AbortedCsn /\ \A z \in Xids \ {x} : history'[z] = history[z]
    BY <1>18, <1>t, <2>1, <2>2 DEF AbortMark
  <2>5. \A v \in Workers \ {w} : pc'[v] = pc[v]
    BY <1>18, <1>t DEF AbortMark, Goto
  <2>6. \A v \in Workers : pc[v] = "abortUndo" => pc'[v] = "abortUndo" \/ my[v] = x
    BY <2>1, <2>5
  <2>7. AbortedUndone'
    BY <2>2, <2>3, <2>4, <1>d DEF UndoneInv, AbortedUndone
  <2>. QED
    BY <2>2, <2>4, <2>6, <2>7, <1>d DEF UndoneInv
<1>19. CASE EndRelease(w)
  BY <1>19, <1>t DEF OwnerInv, StatusInv, CsnInv, UndoneInv, AbortedUndone, IsNormal, Asking, Committing,
      Ending, Places, EndRelease, Goto, tmVars, txnVars, locals, observed
<1>20. CASE EndClear(w)
  BY <1>20, <1>t DEF OwnerInv, StatusInv, CsnInv, UndoneInv, AbortedUndone, IsNormal, Asking, Committing,
      Ending, Places, EndClear, Goto, tmVars, txnVars, locals, observed
<1>21. CASE SessionEnds(w)
  BY <1>21, <1>t DEF OwnerInv, StatusInv, CsnInv, UndoneInv, AbortedUndone, IsNormal, Asking, Committing,
      Ending, Places, SessionEnds, tmVars, txnVars, locals, observed
<1>. QED
  BY <1>1, <1>2, <1>3, <1>4, <1>5, <1>6, <1>7, <1>8, <1>9, <1>10, <1>11, <1>12, <1>13, <1>14, <1>15, <1>16,
      <1>17, <1>18, <1>19, <1>20, <1>21, <1>22 DEF Run, Wait, Commit, Abort, End

\* Every step keeps UndoAllRecords in front of the records it has undone.
LEMMA LeftStep == ASSUME TypeOK, OwnerInv, LeftInv, Next PROVE LeftInv'
<1>. PICK w \in Workers :
       \/ BeginCreate(w) \/ BeginNewStatement(w) \/ InsertUndoRecord(w)
       \/ AskVisible(w) \/ AskWait(w) \/ CommitMark(w) \/ AbortStart(w) \/ SessionEnds(w)
       \/ Run(w)
  BY DEF Next
<1>t. /\ slot \in [Workers -> Xids \cup {NoXid}] /\ my \in [Workers -> Xids \cup {NoXid}]
      /\ pc \in [Workers -> Places] /\ left \in [Workers -> Nat]
      /\ undoLog \in [Xids -> Seq(Nat)]
  BY DEF TypeOK
<1>d. \A z \in Xids : DOMAIN undoLog[z] = 1..Len(undoLog[z]) /\ Len(undoLog[z]) \in Nat
  BY UndoDomains
<1>o. \A v \in Workers \ {w} : pc[v] = "abortUndo" => my[v] \in Xids /\ my[v] # slot[w] /\ my[v] # my[w]
  BY <1>t DEF OwnerInv
<1>f. ASSUME UNCHANGED <<undone, left>>,
             \A v \in Workers : pc'[v] = "abortUndo" =>
               pc[v] = "abortUndo" /\ my'[v] = my[v] /\ undoLog'[my[v]] = undoLog[my[v]]
      PROVE  LeftInv'
  BY <1>f DEF LeftInv
<1>1. CASE AbortStart(w)
  <2>1. my[w] \in Xids /\ UNCHANGED <<undone, my, undoLog>>
    BY <1>1, <1>t DEF AbortStart, locals
  <2>2. left'[w] = Len(undoLog[my[w]]) /\ \A v \in Workers \ {w} : left'[v] = left[v] /\ pc'[v] = pc[v]
    BY <1>1, <1>t DEF AbortStart, Goto
  <2>3. \A i \in DOMAIN undoLog[my[w]] : ~(i > left'[w])
    BY <2>1, <2>2, <1>d
  <2>4. left'[w] <= Len(undoLog[my[w]])
    BY <2>1, <2>2, <1>d
  <2>. QED
    BY <2>1, <2>2, <2>3, <2>4 DEF LeftInv
<1>2. CASE AbortUndo(w)
  <2>1. my[w] \in Xids /\ UNCHANGED <<my, undoLog, pc>> /\ pc[w] = "abortUndo"
    BY <1>2, <1>t DEF AbortUndo, locals, OwnerInv
  <2>2. /\ left'[w] = left[w] - 1 /\ left[w] > 0 /\ left[w] \in Nat
        /\ \A v \in Workers \ {w} : left'[v] = left[v]
    BY <1>2, <1>t DEF AbortUndo
  <2>3. undone' = undone \cup {undoLog[my[w]][left[w]]}
    BY <1>2 DEF AbortUndo
  <2>4. left[w] <= Len(undoLog[my[w]])
    BY <2>1 DEF LeftInv
  <2>5. left'[w] <= Len(undoLog[my[w]])
    BY <2>1, <2>2, <2>4, <1>d
  <2>6. ASSUME NEW i \in DOMAIN undoLog[my[w]], i > left'[w] PROVE undoLog[my[w]][i] \in undone'
    <3>1. i = left[w] \/ i > left[w]
      BY <2>6, <2>1, <2>2, <1>d
    <3>. QED
      BY <3>1, <2>1, <2>3 DEF LeftInv
  <2>. QED
    BY <2>1, <2>2, <2>3, <2>5, <2>6 DEF LeftInv
<1>3. CASE InsertUndoRecord(w) \/ AbortMark(w) \/ EndClear(w)
  <2>1. UNCHANGED <<undone, left>>
    BY <1>3 DEF InsertUndoRecord, AbortMark, EndClear
  <2>2. /\ pc'[w] # "abortUndo" /\ \A v \in Workers \ {w} : pc'[v] = pc[v] /\ my'[v] = my[v]
    BY <1>3, <1>t DEF InsertUndoRecord, AbortMark, EndClear, Goto, locals
  <2>3. \A z \in Xids : z # my[w] /\ z # slot[w] => undoLog'[z] = undoLog[z]
    BY <1>3, <1>t DEF InsertUndoRecord, AbortMark, EndClear
  <2>. QED
    BY <1>f, <1>o, <2>1, <2>2, <2>3
<1>4. CASE AbortFails(w)
  <2>1. UNCHANGED <<undone, my, undoLog>> /\ pc'[w] = "ready"
        /\ \A v \in Workers \ {w} : left'[v] = left[v] /\ pc'[v] = pc[v]
    BY <1>4, <1>t DEF AbortFails, Goto, locals
  <2>. QED
    BY <2>1 DEF LeftInv
<1>5. CASE BeginCreate(w) \/ BeginRegister(w) \/ BeginNewStatement(w) \/ AskVisible(w) \/ AskWait(w)
  <2>1. UNCHANGED <<undone, left, undoLog>>
    BY <1>5 DEF BeginCreate, BeginRegister, BeginNewStatement, AskVisible, AskWait, txnVars
  <2>2. \A v \in Workers : pc'[v] = "abortUndo" => pc[v] = "abortUndo" /\ my'[v] = my[v]
    BY <1>5, <1>t DEF BeginCreate, BeginRegister, BeginNewStatement, AskVisible, AskWait, Goto, locals
  <2>. QED
    BY <1>f, <2>1, <2>2
<1>6. CASE TupleIsVisible(w) \/ Wait(w)
  <2>1. UNCHANGED <<undone, left, undoLog, my>>
    BY <1>6 DEF TupleIsVisible, Wait, WaitStatus, WaitLookup, WaitSlot, WaitLatch, WaitEnded, txnVars, locals
  <2>2. \A v \in Workers : pc'[v] = "abortUndo" => pc[v] = "abortUndo"
    BY <1>6, <1>t DEF TupleIsVisible, Wait, WaitStatus, WaitLookup, WaitSlot, WaitLatch, WaitEnded,
                      GetTransactionCsn, Goto
  <2>. QED
    BY <1>f, <2>1, <2>2
<1>7. CASE CommitMark(w) \/ CommitCsn(w) \/ CommitPublish(w) \/ EndRelease(w) \/ SessionEnds(w)
  <2>1. UNCHANGED <<undone, left, undoLog>>
    BY <1>7 DEF CommitMark, CommitCsn, CommitPublish, EndRelease, SessionEnds, txnVars
  <2>2. \A v \in Workers : pc'[v] = "abortUndo" => pc[v] = "abortUndo" /\ my'[v] = my[v]
    BY <1>7, <1>t DEF CommitMark, CommitCsn, CommitPublish, EndRelease, SessionEnds, Goto, locals
  <2>. QED
    BY <1>f, <2>1, <2>2
<1>. QED
  BY <1>1, <1>2, <1>3, <1>4, <1>5, <1>6, <1>7 DEF Run, Commit, Abort, End


\* Every step keeps the command id between the earlier statements and this one.
LEMMA StatementStep == ASSUME TypeOK, OwnerInv, StatusInv, CsnInv, UndoLogInv, StatementSeparated,
    Next PROVE StatementSeparated'
<1>. PICK w \in Workers :
       \/ BeginCreate(w) \/ BeginNewStatement(w) \/ InsertUndoRecord(w)
       \/ AskVisible(w) \/ AskWait(w) \/ CommitMark(w) \/ AbortStart(w) \/ SessionEnds(w)
       \/ Run(w)
  BY DEF Next
<1>t. /\ slot \in [Workers -> Xids \cup {NoXid}] /\ my \in [Workers -> Xids \cup {NoXid}]
      /\ pc \in [Workers -> Places] /\ history \in [Xids -> Nat] /\ myCsn \in [Workers -> Nat]
      /\ snapCsn \in [Xids -> Nat] /\ snapCid \in [Xids -> Nat] /\ stmtStart \in [Xids -> Nat]
      /\ undoLog \in [Xids -> Seq(Nat)] /\ undoFile \in Seq(Xids)
      /\ nextXid \in Nat /\ nextXid >= 1 /\ nextCsn \in Nat /\ nextCsn >= MinCsn
  BY CountersType DEF TypeOK
<1>d. /\ DOMAIN undoFile = 1..Len(undoFile) /\ Len(undoFile) \in Nat
      /\ \A u \in DOMAIN undoFile : undoFile[u] \in Xids
      /\ \A z \in Xids : /\ DOMAIN undoLog[z] = 1..Len(undoLog[z]) /\ Len(undoLog[z]) \in Nat
                        /\ \A i \in DOMAIN undoLog[z] : undoLog[z][i] \in Nat
  BY UndoDomains
<1>1. CASE BeginCreate(w)
  BY <1>1, <1>t DEF OwnerInv, StatusInv, CsnInv, StatementSeparated, IsNormal, Asking, Committing, Ending,
      Ended, Places, BeginCreate, Goto, tmVars, txnVars, locals, observed
<1>2. CASE BeginRegister(w)
  BY <1>2, <1>t DEF OwnerInv, StatusInv, CsnInv, StatementSeparated, IsNormal, Asking, Committing, Ending,
      Ended, Places, BeginRegister, Goto, tmVars, txnVars, locals, observed
<1>3. CASE BeginNewStatement(w)
  <2>1. PICK x \in Xids : x = my[w]
    BY <1>3, <1>t DEF BeginNewStatement
  <2>2. /\ UNCHANGED <<history, undoLog>> /\ stmtStart'[x] = Len(undoLog[x])
        /\ \A z \in Xids \ {x} : /\ snapCsn'[z] = snapCsn[z] /\ snapCid'[z] = snapCid[z]
                                 /\ stmtStart'[z] = stmtStart[z]
    BY <2>1, <1>3, <1>t DEF BeginNewStatement, tmVars
  <2>3. /\ UndoLogOf(x) /\ undoLog[x] \in Seq(Nat)
        /\ \A i \in DOMAIN undoLog[x] : undoLog[x][i] >= 1
    BY <1>t, <1>d DEF UndoLogInv, UndoLogOf
  <2>4. \A i \in DOMAIN undoLog[x] : ~(snapCid'[x] <= undoLog[x][i]) /\ ~(i > Len(undoLog[x]))
    <3>1. CASE undoLog[x] = <<>>
      BY <3>1
    <3>2. CASE undoLog[x] # <<>>
      <4>1. snapCsn[x] # InvalidCsn /\ Len(undoLog[x]) \in DOMAIN undoLog[x]
        BY <3>2, <2>3, <1>d DEF UndoLogOf
      <4>2. LastUsn(x) = undoLog[x][Len(undoLog[x])] /\ LastUsn(x) # InvalidUsn
        BY <3>2, <4>1, <2>3 DEF LastUsn
      <4>3. snapCid'[x] = LastUsn(x) + 1
        BY <4>1, <4>2, <2>1, <1>3, <1>t DEF BeginNewStatement, CommandId
      <4>4. \A i \in DOMAIN undoLog[x] : undoLog[x][i] <= LastUsn(x)
        <5>1. ASSUME NEW i \in DOMAIN undoLog[x] PROVE undoLog[x][i] <= LastUsn(x)
          <6>1. i = Len(undoLog[x]) \/ i < Len(undoLog[x])
            BY <1>d
          <6>2. i < Len(undoLog[x]) => undoLog[x][i] < undoLog[x][Len(undoLog[x])]
            BY <4>1, <2>3 DEF UndoLogOf
          <6>3. undoLog[x][i] \in Nat
            BY <1>d
          <6>. QED
            BY <6>1, <6>2, <6>3, <4>1, <4>2, <1>d
        <5>. QED
          BY <5>1
      <4>. QED
        BY <4>1, <4>2, <4>3, <4>4, <1>d
    <3>. QED
      BY <3>1, <3>2
  <2>. QED
    BY <2>2, <2>4 DEF StatementSeparated, Ended
<1>4. CASE InsertUndoRecord(w)
  <2>1. PICK x \in Xids : x = my[w]
    BY <1>4, <1>t DEF InsertUndoRecord
  <2>2. /\ UNCHANGED <<history, snapCsn, snapCid, stmtStart>>
        /\ slot[w] = x /\ history[x] = InProgressCsn /\ snapCsn[x] # InvalidCsn
    BY <2>1, <1>4, <1>t DEF InsertUndoRecord, tmVars, observed, OwnerInv, StatusInv
  <2>3. Len(undoFile') = Len(undoFile) + 1
    <3>1. undoFile' = Append(undoFile, x)
      BY <2>1, <1>4 DEF InsertUndoRecord
    <3>. HIDE DEF Xids
    <3>. QED
      BY <3>1, <1>t, SeqAppend
  <2>4. /\ undoLog'[x] = Append(undoLog[x], Len(undoFile) + 1)
        /\ \A z \in Xids \ {x} : undoLog'[z] = undoLog[z]
    BY <2>1, <2>3, <1>4, <1>t DEF InsertUndoRecord
  <2>5. PICK n \in Nat : n = Len(undoLog[x])
    BY <1>d
  <2>6. /\ DOMAIN undoLog'[x] = 1..(n + 1) /\ undoLog'[x][n + 1] = Len(undoFile) + 1
        /\ \A i \in 1..n : undoLog'[x][i] = undoLog[x][i]
    <3>1. undoLog[x] \in Seq(Nat) /\ Len(undoFile) + 1 \in Nat
      BY <1>t, <1>d
    <3>. QED
      BY <3>1, <2>4, <2>5, SeqAppend
  <2>7. snapCid[x] <= Len(undoFile) + 1 /\ stmtStart[x] < n + 1
    <3>1. ~Ended(x)
      BY <2>2 DEF Ended, IsNormal
    <3>2. snapCid[x] <= Len(undoFile) + 1 /\ stmtStart[x] <= n
      BY <3>1, <2>5 DEF UndoLogInv, UndoLogOf
    <3>3. stmtStart[x] \in Nat
      BY <1>t
    <3>. QED
      BY <3>2, <3>3
  <2>8. ASSUME NEW i \in DOMAIN undoLog'[x]
        PROVE  snapCid[x] <= undoLog'[x][i] <=> i > stmtStart[x]
    <3>1. CASE i = n + 1
      BY <3>1, <2>6, <2>7, <1>t
    <3>2. CASE i \in 1..n
      <4>1. ~Ended(x) /\ i \in DOMAIN undoLog[x]
        BY <3>2, <2>2, <2>5, <1>d DEF Ended, IsNormal
      <4>. QED
        BY <4>1, <3>2, <2>2, <2>6 DEF StatementSeparated
    <3>. QED
      BY <3>1, <3>2, <2>6
  <2>. QED
    BY <2>2, <2>4, <2>8 DEF StatementSeparated, Ended
<1>5. CASE AskVisible(w)
  BY <1>5, <1>t DEF OwnerInv, StatusInv, CsnInv, StatementSeparated, IsNormal, Asking, Committing, Ending,
      Ended, Places, AskVisible, Goto, Writers, tmVars, txnVars, locals, observed
<1>6. CASE TupleIsVisible(w)
  BY <1>6, <1>t DEF OwnerInv, StatusInv, CsnInv, StatementSeparated, IsNormal, Asking, Committing, Ending,
      Ended, Places, TupleIsVisible, GetTransactionCsn, Answered, tmVars, txnVars, locals, observed
<1>7. CASE AskWait(w)
  BY <1>7, <1>t DEF OwnerInv, StatusInv, CsnInv, StatementSeparated, IsNormal, Asking, Committing, Ending,
      Ended, Places, AskWait, Goto, Writers, tmVars, txnVars, locals, observed
<1>8. CASE WaitStatus(w)
  BY <1>8, <1>t DEF OwnerInv, StatusInv, CsnInv, StatementSeparated, IsNormal, Asking, Committing, Ending,
      Ended, Places, WaitStatus, GetTransactionCsn, Answered, tmVars, txnVars, locals, observed
<1>9. CASE WaitLookup(w)
  BY <1>9, <1>t DEF OwnerInv, StatusInv, CsnInv, StatementSeparated, IsNormal, Asking, Committing, Ending,
      Ended, Places, WaitLookup, Goto, tmVars, txnVars, locals, observed
<1>10. CASE WaitSlot(w)
  BY <1>10, <1>t DEF OwnerInv, StatusInv, CsnInv, StatementSeparated, IsNormal, Asking, Committing, Ending,
      Ended, Places, WaitSlot, Goto, tmVars, txnVars, locals, observed
<1>11. CASE WaitLatch(w)
  BY <1>11, <1>t DEF OwnerInv, StatusInv, CsnInv, StatementSeparated, IsNormal, Asking, Committing, Ending,
      Ended, Places, WaitLatch, Goto, tmVars, txnVars, locals, observed
<1>12. CASE WaitEnded(w)
  BY <1>12, <1>t DEF OwnerInv, StatusInv, CsnInv, StatementSeparated, IsNormal, Asking, Committing, Ending,
      Ended, Places, WaitEnded, GetTransactionCsn, Answered, tmVars, txnVars, locals, observed
<1>13. CASE CommitMark(w)
  BY <1>13, <1>t DEF OwnerInv, StatusInv, CsnInv, StatementSeparated, IsNormal, Asking, Committing, Ending,
      Ended, Places, CommitMark, Goto, tmVars, txnVars, locals, observed
<1>14. CASE CommitCsn(w)
  BY <1>14, <1>t DEF OwnerInv, StatusInv, CsnInv, StatementSeparated, IsNormal, Asking, Committing, Ending,
      Ended, Places, CommitCsn, Goto, tmVars, txnVars, locals, observed
<1>15. CASE CommitPublish(w)
  BY <1>15, <1>t DEF OwnerInv, StatusInv, CsnInv, StatementSeparated, IsNormal, Asking, Committing, Ending,
      Ended, Places, CommitPublish, Goto, tmVars, txnVars, locals, observed
<1>16. CASE AbortStart(w)
  BY <1>16, <1>t DEF OwnerInv, StatusInv, CsnInv, StatementSeparated, IsNormal, Asking, Committing, Ending,
      Ended, Places, AbortStart, Goto, tmVars, txnVars, locals, observed
<1>17. CASE AbortUndo(w)
  BY <1>17, <1>t DEF OwnerInv, StatusInv, CsnInv, StatementSeparated, IsNormal, Asking, Committing, Ending,
      Ended, Places, AbortUndo, tmVars, txnVars, locals, observed
<1>22. CASE AbortFails(w)
  BY <1>22, <1>t DEF OwnerInv, StatusInv, CsnInv, StatementSeparated, IsNormal, Asking, Committing, Ending,
      Ended, Places, AbortFails, Goto, tmVars, txnVars, locals, observed
<1>18. CASE AbortMark(w)
  BY <1>18, <1>t DEF OwnerInv, StatusInv, CsnInv, StatementSeparated, IsNormal, Asking, Committing, Ending,
      Ended, Places, AbortMark, Goto, tmVars, txnVars, locals, observed
<1>19. CASE EndRelease(w)
  BY <1>19, <1>t DEF OwnerInv, StatusInv, CsnInv, StatementSeparated, IsNormal, Asking, Committing, Ending,
      Ended, Places, EndRelease, Goto, tmVars, txnVars, locals, observed
<1>20. CASE EndClear(w)
  BY <1>20, <1>t DEF OwnerInv, StatusInv, CsnInv, StatementSeparated, IsNormal, Asking, Committing, Ending,
      Ended, Places, EndClear, Goto, tmVars, txnVars, locals, observed
<1>21. CASE SessionEnds(w)
  BY <1>21, <1>t DEF OwnerInv, StatusInv, CsnInv, StatementSeparated, IsNormal, Asking, Committing, Ending,
      Ended, Places, SessionEnds, tmVars, txnVars, locals, observed
<1>. QED
  BY <1>1, <1>2, <1>3, <1>4, <1>5, <1>6, <1>7, <1>8, <1>9, <1>10, <1>11, <1>12, <1>13, <1>14, <1>15, <1>16,
      <1>17, <1>18, <1>19, <1>20, <1>21, <1>22 DEF Run, Wait, Commit, Abort, End

-----------------------------------------------------------------------------
(* The invariant and what follows from it                                   *)

\* The initial state satisfies the inductive invariant.
LEMMA IndInit == Init => IndInv
<1>. SUFFICES ASSUME Init PROVE IndInv
  OBVIOUS
<1>. USE DEF Init
<1>1. TypeOK
  BY TypeInit
<1>2. OwnerInv
  BY DEF OwnerInv, Asking
<1>3. StatusInv
  BY DEF StatusInv, Asking, Committing, Ending
<1>4. CsnInv
  BY DEF CsnInv, CsnUnique, IsNormal
<1>5. SnapshotInv
  BY DEF SnapshotInv
<1>6. UndoLogInv
  BY DEF UndoLogInv, UndoLogOf
<1>7. UndoneInv
  BY DEF UndoneInv, AbortedUndone
<1>8. LeftInv
  BY DEF LeftInv
<1>9. StatementSeparated
  BY DEF StatementSeparated
<1>. QED
  BY <1>1, <1>2, <1>3, <1>4, <1>5, <1>6, <1>7, <1>8, <1>9 DEF IndInv

\* IndInv holds in every reachable state, for any number of workers,
\* transactions, undo records and orphans.
THEOREM Invariance == Spec => []IndInv
<1>1. Init => IndInv
  BY IndInit
<1>2. IndInv /\ [Next]_vars => IndInv'
  <2>1. ASSUME IndInv, Next PROVE IndInv'
    BY <2>1, TypeStep, OwnerStep, StatusStep, CsnStep, SnapshotStep, UndoLogStep, UndoneStep, LeftStep,
       StatementStep
    DEF IndInv
  <2>2. ASSUME IndInv, UNCHANGED vars PROVE IndInv'
    <3>. USE <2>2 DEF vars, tmVars, txnVars, locals, observed
    <3>1. TypeOK'
      BY DEF IndInv, TypeOK
    <3>4. OwnerInv'
      BY DEF IndInv, OwnerInv
    <3>5. StatusInv'
      BY DEF IndInv, StatusInv, Ended
    <3>2. CsnInv' /\ SnapshotInv'
      BY DEF IndInv, CsnInv, CsnUnique, SnapshotInv
    <3>3. UndoLogInv' /\ UndoneInv' /\ LeftInv' /\ StatementSeparated'
      BY DEF IndInv, UndoLogInv, UndoLogOf, UndoneInv, LeftInv, AbortedUndone, StatementSeparated, Ended
    <3>. QED
      BY <3>1, <3>2, <3>3, <3>4, <3>5 DEF IndInv
  <2>. QED
    BY <2>1, <2>2
<1>. QED
  BY <1>1, <1>2, PTL DEF Spec

\* The tables, counters and locals keep their types.
THEOREM TypeCorrect == Spec => []TypeOK
BY Invariance, PTL DEF IndInv

\* CSNs are unique: no two commits share one (CommitTransaction, _csn.fetch_add).
THEOREM CsnsUnique == Spec => []CsnUnique
BY Invariance, PTL DEF IndInv, CsnInv

\* A snapshot sees what had committed when it was taken, and nothing that
\* commits with a later CSN (tuple_is_visible, BeginNewStatement).
THEOREM SnapshotsExact == Spec => []SnapshotExact
<1>1. IndInv => SnapshotExact
  <2>. SUFFICES ASSUME IndInv, NEW x \in Xids, NEW y \in Xids
                PROVE  /\ verdict[x][y] = "hidden" => y \notin committedAt[x]
                       /\ verdict[x][y] = "visible" => IsNormal(history[y]) /\ history[y] < snapCsn[x]
    BY DEF SnapshotExact
  <2>1. history[y] \in Nat /\ snapCsn[x] \in Nat
    BY DEF IndInv, TypeOK
  <2>. QED
    BY <2>1 DEF IndInv, SnapshotInv
<1>. QED
  BY <1>1, Invariance, PTL

\* A snapshot never changes its mind about a transaction, whatever happens
\* between the two questions (GetTransactionCsn and the Committing mark).
THEOREM SnapshotsStable == Spec => SnapshotStable
<1>. DEFINE Same == \A x, y \in Xids :
       "none" \notin {verdict[x][y], verdict'[x][y]} => verdict'[x][y] = verdict[x][y]
<1>1. IndInv /\ [Next]_vars => [Same]_vars
  <2>. SUFFICES ASSUME IndInv, Next PROVE Same
    OBVIOUS
  <2>1. PICK w \in Workers :
          \/ BeginCreate(w) \/ BeginNewStatement(w) \/ InsertUndoRecord(w)
          \/ AskVisible(w) \/ AskWait(w) \/ CommitMark(w) \/ AbortStart(w) \/ SessionEnds(w)
          \/ Run(w)
    BY DEF Next
  <2>2. verdict \in [Xids -> [Xids -> {"none", "visible", "hidden"}]] /\ snapCsn \in [Xids -> Nat]
        /\ history \in [Xids -> Nat] /\ asked \in [Workers -> Xids \cup {NoXid}]
    BY DEF IndInv, TypeOK
  <2>3. CASE TupleIsVisible(w)
    <3>. DEFINE x == my[w]  y == asked[w]  answer == IF Visible(history[y], x) THEN "visible" ELSE "hidden"
    <3>1. x \in Xids /\ y \in Xids
      BY <2>2, <2>3 DEF TupleIsVisible, GetTransactionCsn, IndInv, TypeOK, OwnerInv, Asking
    <3>2. verdict' = verdict \/ verdict' = [verdict EXCEPT ![x][y] = answer]
      BY <2>3 DEF TupleIsVisible
    <3>3. verdict[x][y] = "hidden" => answer = "hidden"
      BY <3>1, <2>2 DEF IndInv, SnapshotInv, StatusInv, Visible
    <3>4. verdict[x][y] = "visible" => answer = "visible"
      BY <3>1, <2>2 DEF IndInv, SnapshotInv, Visible
    <3>5. verdict[x][y] \in {"none", "visible", "hidden"}
      BY <3>1, <2>2
    <3>. HIDE DEF answer
    <3>6. \/ verdict' = verdict
          \/ /\ verdict'[x][y] = answer
             /\ \A a, b \in Xids : a # x \/ b # y => verdict'[a][b] = verdict[a][b]
      <4>1. CASE verdict' = [verdict EXCEPT ![x][y] = answer]
        BY <4>1, <3>1, <2>2
      <4>. QED
        BY <4>1, <3>2
    <3>. HIDE DEF x, y
    <3>. QED
      <4>1. ASSUME NEW a \in Xids, NEW b \in Xids, verdict[a][b] # "none"
            PROVE  verdict'[a][b] = verdict[a][b]
        <5>1. CASE a = x /\ b = y
          BY <5>1, <4>1, <3>3, <3>4, <3>5, <3>6
        <5>2. CASE a # x \/ b # y
          BY <5>2, <3>6
        <5>. QED
          BY <5>1, <5>2
      <4>. QED
        BY <4>1
  <2>4. CASE EndClear(w)
    <3>1. verdict' = [verdict EXCEPT ![slot[w]] = [y \in Xids |-> "none"]]
      BY <2>4 DEF EndClear
    <3>. QED
      BY <3>1, <2>2
  <2>5. CASE ~TupleIsVisible(w) /\ ~EndClear(w)
    <3>1. UNCHANGED verdict
      BY <2>1, <2>5
      DEF Run, Wait, Commit, Abort, End, BeginCreate, BeginNewStatement, InsertUndoRecord, AskVisible,
          AskWait, CommitMark, AbortStart, SessionEnds, BeginRegister, WaitStatus, WaitLookup, WaitSlot,
          WaitLatch, WaitEnded, CommitCsn, CommitPublish, AbortUndo, AbortFails, AbortMark, EndRelease, observed
    <3>. QED
      BY <3>1
  <2>. QED
    BY <2>3, <2>4, <2>5
<1>. QED
  BY <1>1, Invariance, PTL DEF Spec, SnapshotStable

\* Every change of an aborted transaction is undone before it is marked
\* (AbortTransaction, UndoAllRecords), also when an earlier ROLLBACK of it threw
\* half-way; while none has, they are undone backwards and never once it
\* commits.
THEOREM AbortsUndone == Spec => []AbortedUndone
BY Invariance, PTL DEF IndInv, UndoneInv

\* CommitTransaction and AbortTransaction find their entry in _xidToWorker.
THEOREM TableHolds == Spec => []TableNotBroken
<1>1. IndInv => TableNotBroken
  BY DEF IndInv, OwnerInv, StatusInv, TableNotBroken, Committing, Finishing
<1>. QED
  BY <1>1, Invariance, PTL

\* The command id of a snapshot separates the running statement's changes from
\* the earlier ones (BeginNewStatement, Snapshot.hpp).
THEOREM StatementsSeparated == Spec => []StatementSeparated
BY Invariance, PTL DEF IndInv


\* Every step lets an unended transaction be found, if no session left it open.
LEMMA WaitStep == ASSUME TypeOK, OwnerInv, StatusInv, CsnInv, UndoLogInv, WaitInv,
    Next PROVE WaitInv'
<1>. PICK w \in Workers :
       \/ BeginCreate(w) \/ BeginNewStatement(w) \/ InsertUndoRecord(w)
       \/ AskVisible(w) \/ AskWait(w) \/ CommitMark(w) \/ AbortStart(w) \/ SessionEnds(w)
       \/ Run(w)
  BY DEF Next
<1>t. /\ slot \in [Workers -> Xids \cup {NoXid}] /\ my \in [Workers -> Xids \cup {NoXid}]
      /\ pc \in [Workers -> Places] /\ history \in [Xids -> Nat] /\ myCsn \in [Workers -> Nat]
      /\ asked \in [Workers -> Xids \cup {NoXid}] /\ found \in [Workers -> Workers \cup {NoWorker}]
      /\ xidToWorker \in [Xids -> Workers \cup {NoWorker}] /\ latched \in [Xids -> BOOLEAN]
      /\ nextXid \in Nat /\ nextXid >= 1
  BY CountersType DEF TypeOK
<1>1. CASE BeginCreate(w)
  BY <1>1, <1>t DEF OwnerInv, StatusInv, CsnInv, WaitInv, WaitedEnded, IsNormal, Ended, Asking, Committing,
      Ending, Places, BeginCreate, Goto, tmVars, txnVars, locals, observed
<1>2. CASE BeginRegister(w)
  <2>1. PICK x \in Xids : x = my[w]
    BY <1>2, <1>t DEF BeginRegister, Goto, OwnerInv
  <2>2. slot[w] = x /\ history[x] = InvalidCsn /\ latched[x]
    BY <2>1, <1>2, <1>t DEF BeginRegister, Goto, OwnerInv, StatusInv, WaitInv
  <2>3. /\ xidToWorker'[x] = w /\ history'[x] = InProgressCsn
        /\ \A z \in Xids \ {x} : xidToWorker'[z] = xidToWorker[z] /\ history'[z] = history[z]
        /\ pc'[w] = "ready" /\ \A v \in Workers \ {w} : pc'[v] = pc[v]
        /\ UNCHANGED <<slot, my, latched, asked, found, orphans>>
    BY <2>1, <1>2, <1>t DEF BeginRegister, Goto, txnVars, locals
  <2>4. /\ \A z \in Xids : Ended(z) => Ended(z)'
        /\ \A z \in Xids : history[z] # InvalidCsn => history'[z] # InvalidCsn
    BY <2>2, <2>3 DEF Ended, IsNormal
  <2>5. \A v \in Workers : pc'[v] \in Asking => pc[v] \in Asking /\ pc[v] = pc'[v] /\ asked[v] \in Xids
    BY <2>3, <1>t DEF Asking, OwnerInv
  <2>6. w # NoWorker
    BY NoWorkerAssumption
  <2>. QED
    BY <2>1, <2>2, <2>3, <2>4, <2>5, <2>6 DEF WaitInv, WaitedEnded, Asking
<1>3. CASE BeginNewStatement(w)
  BY <1>3, <1>t DEF OwnerInv, StatusInv, CsnInv, WaitInv, WaitedEnded, IsNormal, Ended, Asking, Committing,
      Ending, Places, BeginNewStatement, tmVars, txnVars, locals, observed
<1>4. CASE InsertUndoRecord(w)
  BY <1>4, <1>t DEF OwnerInv, StatusInv, CsnInv, WaitInv, WaitedEnded, IsNormal, Ended, Asking, Committing,
      Ending, Places, InsertUndoRecord, tmVars, txnVars, locals, observed
<1>5. CASE AskVisible(w)
  <2>1. UNCHANGED <<my, slot, history, xidToWorker, latched, found, orphans>>
    BY <1>5 DEF AskVisible, tmVars, txnVars
  <2>2. asked'[w] \in Xids /\ history[asked'[w]] # InvalidCsn
    BY <1>5, <1>t, WritersType DEF AskVisible, Writers, UndoLogInv
  <2>3. /\ \A v \in Workers \ {w} : asked'[v] = asked[v] /\ pc'[v] = pc[v]
        /\ pc'[w] \notin {"beginRegister", "waitSlot", "waitEnded"}
    BY <1>5, <1>t DEF AskVisible, Goto
  <2>. QED
    BY <2>1, <2>2, <2>3 DEF WaitInv, WaitedEnded, Ended
<1>6. CASE TupleIsVisible(w)
  BY <1>6, <1>t DEF OwnerInv, StatusInv, CsnInv, WaitInv, WaitedEnded, IsNormal, Ended, Asking, Committing,
      Ending, Places, TupleIsVisible, GetTransactionCsn, Answered, tmVars, txnVars, locals, observed
<1>7. CASE AskWait(w)
  <2>1. UNCHANGED <<my, slot, history, xidToWorker, latched, found, orphans>>
    BY <1>7 DEF AskWait, tmVars, txnVars
  <2>2. asked'[w] \in Xids /\ history[asked'[w]] # InvalidCsn
    BY <1>7, <1>t, WritersType DEF AskWait, Writers, UndoLogInv
  <2>3. /\ \A v \in Workers \ {w} : asked'[v] = asked[v] /\ pc'[v] = pc[v]
        /\ pc'[w] \notin {"beginRegister", "waitSlot", "waitEnded"}
    BY <1>7, <1>t DEF AskWait, Goto
  <2>. QED
    BY <2>1, <2>2, <2>3 DEF WaitInv, WaitedEnded, Ended
<1>8. CASE WaitStatus(w)
  BY <1>8, <1>t DEF OwnerInv, StatusInv, CsnInv, WaitInv, WaitedEnded, IsNormal, Ended, Asking, Committing,
      Ending, Places, WaitStatus, GetTransactionCsn, Answered, tmVars, txnVars, locals, observed
<1>9. CASE WaitLookup(w)
  <2>1. UNCHANGED <<my, slot, history, xidToWorker, latched, asked, orphans>>
    BY <1>9 DEF WaitLookup, tmVars, txnVars
  <2>2. asked[w] \in Xids /\ history[asked[w]] # InvalidCsn
    BY <1>9, <1>t DEF WaitLookup, WaitInv, OwnerInv, Asking
  <2>3. Ended(asked[w]) \/ history[asked[w]] \in {InProgressCsn, CommittingCsn}
    BY <2>2, <1>t DEF Ended, IsNormal, StatusInv
  <2>4. \A v \in Workers \ {w} : found'[v] = found[v] /\ pc'[v] = pc[v]
    BY <1>9, <1>t DEF WaitLookup, Goto
  <2>5. CASE xidToWorker[asked[w]] = NoWorker
    <3>1. pc'[w] = "waitEnded" /\ (Ended(asked[w]) \/ asked[w] \in orphans)
      BY <1>9, <1>t, <2>2, <2>3, <2>5 DEF WaitLookup, Goto, WaitInv
    <3>. QED
      BY <2>1, <2>2, <2>4, <3>1 DEF WaitInv, WaitedEnded, Ended
  <2>6. CASE xidToWorker[asked[w]] # NoWorker
    <3>1. /\ pc'[w] = "waitSlot" /\ found'[w] = xidToWorker[asked[w]]
      BY <1>9, <1>t, <2>6 DEF WaitLookup, Goto
    <3>2. Ended(asked[w]) \/ slot[found'[w]] = asked[w] \/ asked[w] \in orphans
      BY <2>2, <2>3, <3>1 DEF WaitInv
    <3>. QED
      BY <2>1, <2>2, <2>4, <2>6, <3>1, <3>2 DEF WaitInv, WaitedEnded, Ended
  <2>. QED
    BY <2>5, <2>6
<1>10. CASE WaitSlot(w)
  BY <1>10, <1>t DEF OwnerInv, StatusInv, CsnInv, WaitInv, WaitedEnded, IsNormal, Ended, Asking,
      Committing, Ending, Places, WaitSlot, Goto, tmVars, txnVars, locals, observed
<1>11. CASE WaitLatch(w)
  BY <1>11, <1>t DEF OwnerInv, StatusInv, CsnInv, WaitInv, WaitedEnded, IsNormal, Ended, Asking,
      Committing, Ending, Places, WaitLatch, Goto, tmVars, txnVars, locals, observed
<1>12. CASE WaitEnded(w)
  BY <1>12, <1>t DEF OwnerInv, StatusInv, CsnInv, WaitInv, WaitedEnded, IsNormal, Ended, Asking,
      Committing, Ending, Places, WaitEnded, GetTransactionCsn, Answered, tmVars, txnVars, locals, observed
<1>13. CASE CommitMark(w)
  BY <1>13, <1>t DEF OwnerInv, StatusInv, CsnInv, WaitInv, WaitedEnded, IsNormal, Ended, Asking,
      Committing, Ending, Places, CommitMark, Goto, tmVars, txnVars, locals, observed
<1>14. CASE CommitCsn(w)
  BY <1>14, <1>t DEF OwnerInv, StatusInv, CsnInv, WaitInv, WaitedEnded, IsNormal, Ended, Asking,
      Committing, Ending, Places, CommitCsn, Goto, tmVars, txnVars, locals, observed
<1>15. CASE CommitPublish(w)
  BY <1>15, <1>t DEF OwnerInv, StatusInv, CsnInv, WaitInv, WaitedEnded, IsNormal, Ended, Asking,
      Committing, Ending, Places, CommitPublish, Goto, tmVars, txnVars, locals, observed
<1>16. CASE AbortStart(w)
  BY <1>16, <1>t DEF OwnerInv, StatusInv, CsnInv, WaitInv, WaitedEnded, IsNormal, Ended, Asking,
      Committing, Ending, Places, AbortStart, Goto, tmVars, txnVars, locals, observed
<1>17. CASE AbortUndo(w)
  BY <1>17, <1>t DEF OwnerInv, StatusInv, CsnInv, WaitInv, WaitedEnded, IsNormal, Ended, Asking,
      Committing, Ending, Places, AbortUndo, tmVars, txnVars, locals, observed
<1>22. CASE AbortFails(w)
  BY <1>22, <1>t DEF OwnerInv, StatusInv, CsnInv, WaitInv, WaitedEnded, IsNormal, Ended, Asking,
      Committing, Ending, Places, AbortFails, Goto, tmVars, txnVars, locals, observed
<1>18. CASE AbortMark(w)
  BY <1>18, <1>t DEF OwnerInv, StatusInv, CsnInv, WaitInv, WaitedEnded, IsNormal, Ended, Asking,
      Committing, Ending, Places, AbortMark, Goto, tmVars, txnVars, locals, observed
<1>19. CASE EndRelease(w)
  <2>1. UNCHANGED <<my, slot, history, xidToWorker, asked, found, orphans>>
    BY <1>19 DEF EndRelease, tmVars, locals
  <2>2. slot[w] \in Xids /\ history[slot[w]] \notin {InProgressCsn, CommittingCsn}
    BY <1>19, <1>t DEF EndRelease, Goto, OwnerInv, StatusInv, Ending, Ended, IsNormal
  <2>3. /\ \A z \in Xids \ {slot[w]} : latched'[z] = latched[z]
        /\ pc'[w] = "endClear" /\ \A v \in Workers \ {w} : pc'[v] = pc[v]
    BY <1>19, <1>t DEF EndRelease, Goto
  <2>4. \A v \in Workers : pc'[v] = "beginRegister" => slot[v] \in Xids \ {slot[w]}
    BY <2>2, <2>3, <1>t DEF OwnerInv
  <2>5. "endClear" \notin Asking
    BY DEF Asking
  <2>. QED
    BY <2>1, <2>2, <2>3, <2>4, <2>5 DEF WaitInv, WaitedEnded, Ended
<1>20. CASE EndClear(w)
  BY <1>20, <1>t DEF OwnerInv, StatusInv, CsnInv, WaitInv, WaitedEnded, IsNormal, Ended, Asking,
      Committing, Ending, Places, EndClear, Goto, tmVars, txnVars, locals, observed
<1>21. CASE SessionEnds(w)
  <2>1. UNCHANGED <<slot, history, xidToWorker, latched, asked, found, pc>>
    BY <1>21 DEF SessionEnds, tmVars, txnVars
  <2>2. my'[w] = NoXid /\ my[w] = slot[w] /\ orphans' = orphans \cup {slot[w]}
        /\ \A v \in Workers \ {w} : my'[v] = my[v]
    BY <1>21, <1>t DEF SessionEnds, OwnerInv
  <2>. QED
    BY <2>1, <2>2 DEF WaitInv, WaitedEnded, Ended
<1>. QED
  BY <1>1, <1>2, <1>3, <1>4, <1>5, <1>6, <1>7, <1>8, <1>9, <1>10, <1>11, <1>12, <1>13, <1>14, <1>15, <1>16,
      <1>17, <1>18, <1>19, <1>20, <1>21, <1>22 DEF Run, Wait, Commit, Abort, End

\* WaitTransactionEnd returns only when the transaction has ended or a session
\* went away and left it open: the assertions of wait_tnx_end hold of every
\* other transaction (HeapTable.cpp:179 and 186).
THEOREM WaitersSeeEnd == Spec => []WaitedEnded
<1>1. Init => WaitInv
  BY DEF Init, WaitInv, WaitedEnded, Asking
<1>2. IndInv /\ WaitInv /\ [Next]_vars => WaitInv'
  <2>1. ASSUME IndInv, WaitInv, Next PROVE WaitInv'
    BY <2>1, WaitStep DEF IndInv
  <2>2. ASSUME WaitInv, UNCHANGED vars PROVE WaitInv'
    BY <2>2 DEF WaitInv, WaitedEnded, Ended, vars, tmVars, txnVars, locals
  <2>. QED
    BY <2>1, <2>2
<1>. QED
  BY <1>1, <1>2, Invariance, PTL DEF Spec, WaitInv

-----------------------------------------------------------------------------
(* The abstract Transactions                                                *)

\* The status of a transaction, case by case.
StatusFacts ==
  /\ Status = [x \in Xids |-> Status[x]]
  /\ \A w \in Workers : pc[w] = "commitPublish" => Status[slot[w]] = myCsn[w]
  /\ \A x \in Xids : (\A w \in Workers : ~(pc[w] = "commitPublish" /\ slot[w] = x)) =>
       Status[x] = IF history[x] = CommittingCsn THEN InProgressCsn ELSE history[x]

\* The slots being disjoint, at most one worker publishes a CSN for a transaction.
LEMMA StatusCases == IndInv => StatusFacts
<1>. SUFFICES ASSUME IndInv PROVE StatusFacts
  OBVIOUS
<1>1. Status = [x \in Xids |-> Status[x]]
  BY DEF Status
<1>2. ASSUME NEW w \in Workers, pc[w] = "commitPublish" PROVE Status[slot[w]] = myCsn[w]
  <2>1. slot[w] \in Xids
    BY <1>2 DEF IndInv, TypeOK, OwnerInv
  <2>2. Publishing(slot[w]) = {w}
    BY <1>2, <2>1 DEF IndInv, OwnerInv, Publishing
  <2>3. (CHOOSE v \in {w} : TRUE) = w
    OBVIOUS
  <2>. QED
    BY <2>1, <2>2, <2>3 DEF Status
<1>3. ASSUME NEW x \in Xids, \A w \in Workers : ~(pc[w] = "commitPublish" /\ slot[w] = x)
      PROVE  Status[x] = IF history[x] = CommittingCsn THEN InProgressCsn ELSE history[x]
  <2>1. Publishing(x) = {}
    BY <1>3 DEF Publishing
  <2>. QED
    BY <2>1 DEF Status
<1>. QED
  BY <1>1, <1>2, <1>3 DEF StatusFacts

\* A step that leaves the entry of a transaction in _history and the workers
\* that publish its CSN alone does not change its status.
LEMMA StatusKept ==
  ASSUME StatusFacts, StatusFacts', NEW x \in Xids, history'[x] = history[x],
         \A w \in Workers : /\ (pc'[w] = "commitPublish" /\ slot'[w] = x) <=>
                                 (pc[w] = "commitPublish" /\ slot[w] = x)
                            /\ pc[w] = "commitPublish" => myCsn'[w] = myCsn[w]
  PROVE  Status'[x] = Status[x]
<1>1. CASE \E w \in Workers : pc[w] = "commitPublish" /\ slot[w] = x
  <2>1. PICK w \in Workers : pc[w] = "commitPublish" /\ slot[w] = x
    BY <1>1
  <2>2. pc'[w] = "commitPublish" /\ slot'[w] = x /\ myCsn'[w] = myCsn[w]
    BY <2>1
  <2>3. Status[x] = myCsn[w]
    BY <2>1 DEF StatusFacts
  <2>4. Status'[x] = myCsn'[w]
    BY <2>2 DEF StatusFacts
  <2>. QED
    BY <2>2, <2>3, <2>4
<1>2. CASE \A w \in Workers : ~(pc[w] = "commitPublish" /\ slot[w] = x)
  <2>1. \A w \in Workers : ~(pc'[w] = "commitPublish" /\ slot'[w] = x)
    BY <1>2
  <2>2. Status[x] = IF history[x] = CommittingCsn THEN InProgressCsn ELSE history[x]
    BY <1>2 DEF StatusFacts
  <2>3. Status'[x] = IF history'[x] = CommittingCsn THEN InProgressCsn ELSE history'[x]
    BY <2>1 DEF StatusFacts
  <2>. QED
    BY <2>2, <2>3
<1>. QED
  BY <1>1, <1>2

\* Transactions whose owner is at one place are not published by another one.
LEMMA OwnedStatus ==
  ASSUME IndInv, StatusFacts, NEW w \in Workers, slot[w] # NoXid, pc[w] # "commitPublish"
  PROVE  /\ slot[w] \in Xids
         /\ Status[slot[w]] = IF history[slot[w]] = CommittingCsn THEN InProgressCsn ELSE history[slot[w]]
<1>1. slot[w] \in Xids
  BY DEF IndInv, TypeOK
<1>2. \A v \in Workers : ~(pc[v] = "commitPublish" /\ slot[v] = slot[w])
  BY DEF IndInv, OwnerInv
<1>. QED
  BY <1>1, <1>2 DEF StatusFacts

\* A new status for one transaction, in the form of the abstract actions.
LEMMA StatusUpdate ==
  ASSUME StatusFacts, StatusFacts', NEW x \in Xids, NEW s, Status'[x] = s,
         \A y \in Xids \ {x} : Status'[y] = Status[y]
  PROVE  Status' = [Status EXCEPT ![x] = s]
BY DEF StatusFacts

\* No new status.
LEMMA StatusSame ==
  ASSUME StatusFacts, StatusFacts', \A y \in Xids : Status'[y] = Status[y]
  PROVE  Status' = Status
BY DEF StatusFacts

\* The steps that no other transaction can tell from a stutter.
LEMMA QuietStep ==
  ASSUME IndInv, StatusFacts, StatusFacts', NEW w \in Workers,
         \/ BeginCreate(w) \/ InsertUndoRecord(w) \/ AskVisible(w) \/ AskWait(w) \/ AbortStart(w)
         \/ SessionEnds(w) \/ TupleIsVisible(w) \/ Wait(w) \/ AbortUndo(w) \/ AbortFails(w)
         \/ EndRelease(w)
  PROVE  UNCHANGED <<Status, nextCsn, snapCsn>>
<1>1. UNCHANGED <<nextCsn, snapCsn, history, myCsn>>
  BY DEF BeginCreate, InsertUndoRecord, AskVisible, AskWait, AbortStart, SessionEnds, TupleIsVisible,
         Wait, WaitStatus, WaitLookup, WaitSlot, WaitLatch, WaitEnded, AbortUndo, AbortFails, EndRelease,
         tmVars, txnVars, locals
<1>2. \A v \in Workers \ {w} : pc'[v] = pc[v] /\ slot'[v] = slot[v]
  BY DEF BeginCreate, InsertUndoRecord, AskVisible, AskWait, AbortStart, SessionEnds, TupleIsVisible,
         Wait, WaitStatus, WaitLookup, WaitSlot, WaitLatch, WaitEnded, AbortUndo, AbortFails, EndRelease,
         GetTransactionCsn, Goto, tmVars, IndInv, TypeOK
<1>3. pc[w] # "commitPublish" /\ pc'[w] # "commitPublish"
  BY DEF BeginCreate, InsertUndoRecord, AskVisible, AskWait, AbortStart, SessionEnds, TupleIsVisible,
         Wait, WaitStatus, WaitLookup, WaitSlot, WaitLatch, WaitEnded, AbortUndo, AbortFails, EndRelease,
         GetTransactionCsn, Goto, IndInv, TypeOK
<1>4. ASSUME NEW y \in Xids PROVE Status'[y] = Status[y]
  BY <1>1, <1>2, <1>3, StatusKept
<1>. QED
  BY <1>1, <1>4, StatusSame

\* A step of the owner of one transaction leaves the status of the others.
LEMMA OthersKept ==
  ASSUME IndInv, IndInv', StatusFacts, StatusFacts', NEW w \in Workers, NEW y \in Xids, y # slot[w],
         slot'[w] \in {slot[w], NoXid}, history'[y] = history[y],
         \A v \in Workers \ {w} : pc'[v] = pc[v] /\ slot'[v] = slot[v] /\ myCsn'[v] = myCsn[v]
  PROVE  Status'[y] = Status[y]
<1>1. y # NoXid
  BY DEF Xids, NoXid
<1>2. CASE \E v \in Workers : pc[v] = "commitPublish" /\ slot[v] = y
  <2>1. PICK v \in Workers : pc[v] = "commitPublish" /\ slot[v] = y
    BY <1>2
  <2>2. v # w
    BY <2>1
  <2>3. pc'[v] = "commitPublish" /\ slot'[v] = y /\ myCsn'[v] = myCsn[v]
    BY <2>1, <2>2
  <2>4. Status[y] = myCsn[v]
    BY <2>1 DEF StatusFacts
  <2>5. Status'[y] = myCsn'[v]
    BY <2>3 DEF StatusFacts
  <2>. QED
    BY <2>3, <2>4, <2>5
<1>3. CASE \A v \in Workers : ~(pc[v] = "commitPublish" /\ slot[v] = y)
  <2>1. \A v \in Workers : ~(pc'[v] = "commitPublish" /\ slot'[v] = y)
    BY <1>1, <1>3
  <2>2. Status[y] = IF history[y] = CommittingCsn THEN InProgressCsn ELSE history[y]
    BY <1>3 DEF StatusFacts
  <2>3. Status'[y] = IF history'[y] = CommittingCsn THEN InProgressCsn ELSE history'[y]
    BY <2>1 DEF StatusFacts
  <2>. QED
    BY <2>2, <2>3
<1>. QED
  BY <1>2, <1>3

\* Every step is a step of Transactions or a stutter.
LEMMA StepSimulation ==
  ASSUME IndInv, IndInv', StatusFacts, StatusFacts', Next
  PROVE  Abstract!TransNext \/ UNCHANGED <<Status, nextCsn, snapCsn>>
<1>. USE DEF InvalidCsn, InProgressCsn, AbortedCsn, CommittingCsn, MinCsn
<1>1. PICK w \in Workers :
        \/ BeginCreate(w) \/ BeginNewStatement(w) \/ InsertUndoRecord(w)
        \/ AskVisible(w) \/ AskWait(w) \/ CommitMark(w) \/ AbortStart(w) \/ SessionEnds(w)
        \/ Run(w)
  BY DEF Next
<1>2. /\ pc \in [Workers -> Places] /\ slot \in [Workers -> Xids \cup {NoXid}]
      /\ history \in [Xids -> Nat] /\ myCsn \in [Workers -> Nat] /\ snapCsn \in [Xids -> Nat]
      /\ nextCsn \in Nat
  BY DEF IndInv, TypeOK
<1>x. Abstract!Xids = Xids
  BY DEF Abstract!Xids, Xids
<1>3. CASE BeginRegister(w)
  <2>1. pc[w] = "beginRegister" /\ pc'[w] = "ready" /\ slot[w] \in Xids /\ my[w] = slot[w]
    BY <1>3, <1>2 DEF BeginRegister, Goto, IndInv, OwnerInv
  <2>2. /\ \A v \in Workers \ {w} : pc'[v] = pc[v] /\ slot'[v] = slot[v] /\ myCsn'[v] = myCsn[v]
        /\ slot'[w] = slot[w]
    BY <1>3, <1>2 DEF BeginRegister, Goto, locals
  <2>3. history' = [history EXCEPT ![slot[w]] = 2] /\ UNCHANGED <<nextCsn, snapCsn>>
    BY <1>3, <2>1 DEF BeginRegister, txnVars
  <2>4. Status[slot[w]] = 0
    BY <2>1, OwnedStatus DEF IndInv, OwnerInv, StatusInv
  <2>5. Status'[slot[w]] = 2
    <3>1. \A v \in Workers : ~(pc'[v] = "commitPublish" /\ slot'[v] = slot[w])
      BY <2>1, <2>2 DEF IndInv, OwnerInv
    <3>2. history'[slot[w]] = 2
      BY <2>1, <2>3, <1>2
    <3>. QED
      BY <3>1, <3>2, <2>1 DEF StatusFacts
  <2>6. \A y \in Xids \ {slot[w]} : Status'[y] = Status[y]
    BY <2>2, <2>3, <1>2, OthersKept
  <2>7. Status' = [Status EXCEPT ![slot[w]] = 2]
    BY <2>1, <2>5, <2>6, StatusUpdate
  <2>8. Abstract!Begin(slot[w])
    BY <2>3, <2>4, <2>7 DEF Abstract!Begin, Abstract!InvalidCsn, Abstract!InProgressCsn
  <2>. QED
    BY <2>8, <2>1, <1>x DEF Abstract!TransNext
<1>4. CASE BeginNewStatement(w)
  <2>1. pc[w] = "ready" /\ my[w] = slot[w] /\ slot[w] \in Xids /\ slot[w] # NoXid
    BY <1>4, <1>2 DEF BeginNewStatement, IndInv, OwnerInv
  <2>2. UNCHANGED <<pc, slot, myCsn, history, nextCsn>>
    BY <1>4 DEF BeginNewStatement, tmVars, locals
  <2>3. Status' = Status
    <3>1. \A y \in Xids : Status'[y] = Status[y]
      BY <2>2, StatusKept
    <3>. QED
      BY <3>1, StatusSame
  <2>4. Status[slot[w]] = 2
    BY <2>1, OwnedStatus DEF IndInv, StatusInv
  <2>5. CASE snapCsn[slot[w]] = 0
    <3>1. snapCsn' = [snapCsn EXCEPT ![slot[w]] = nextCsn]
      BY <1>4, <2>1, <2>5 DEF BeginNewStatement
    <3>2. Abstract!TakeSnapshot(slot[w])
      BY <3>1, <2>2, <2>3, <2>4, <2>5 DEF Abstract!TakeSnapshot, Abstract!InvalidCsn, Abstract!InProgressCsn
    <3>. QED
      BY <3>2, <2>1, <1>x DEF Abstract!TransNext
  <2>6. CASE snapCsn[slot[w]] # 0
    <3>1. snapCsn' = snapCsn
      BY <1>4, <2>1, <2>6 DEF BeginNewStatement
    <3>. QED
      BY <3>1, <2>2, <2>3
  <2>. QED
    BY <2>5, <2>6
<1>5. CASE CommitMark(w)
  <2>1. pc[w] = "ready" /\ pc'[w] = "commitCsn" /\ slot[w] \in Xids /\ slot[w] # NoXid
    BY <1>5, <1>2 DEF CommitMark, Goto
  <2>2. /\ \A v \in Workers \ {w} : pc'[v] = pc[v] /\ slot'[v] = slot[v] /\ myCsn'[v] = myCsn[v]
        /\ slot'[w] = slot[w]
    BY <1>5, <1>2 DEF CommitMark, Goto, locals
  <2>3. history' = [history EXCEPT ![slot[w]] = 4] /\ UNCHANGED <<nextCsn, snapCsn>>
    BY <1>5 DEF CommitMark, txnVars
  <2>4. Status[slot[w]] = 2
    BY <2>1, OwnedStatus DEF IndInv, StatusInv
  <2>5. Status'[slot[w]] = 2
    <3>1. \A v \in Workers : ~(pc'[v] = "commitPublish" /\ slot'[v] = slot[w])
      BY <2>1, <2>2 DEF IndInv, OwnerInv
    <3>2. history'[slot[w]] = 4
      BY <2>1, <2>3, <1>2
    <3>. QED
      BY <3>1, <3>2, <2>1 DEF StatusFacts
  <2>6. \A y \in Xids \ {slot[w]} : Status'[y] = Status[y]
    BY <2>2, <2>3, <1>2, OthersKept
  <2>7. Status' = Status
    <3>1. \A y \in Xids : Status'[y] = Status[y]
      BY <2>4, <2>5, <2>6
    <3>. QED
      BY <3>1, StatusSame
  <2>. QED
    BY <2>3, <2>7
<1>6. CASE CommitCsn(w)
  <2>1. pc[w] = "commitCsn" /\ pc'[w] = "commitPublish" /\ slot[w] \in Xids /\ slot[w] # NoXid
    BY <1>6, <1>2 DEF CommitCsn, Goto, IndInv, OwnerInv
  <2>2. /\ \A v \in Workers \ {w} : pc'[v] = pc[v] /\ slot'[v] = slot[v] /\ myCsn'[v] = myCsn[v]
        /\ slot'[w] = slot[w] /\ myCsn'[w] = nextCsn
    BY <1>6, <1>2 DEF CommitCsn, Goto
  <2>3. history' = history /\ nextCsn' = nextCsn + 1 /\ snapCsn' = snapCsn
    BY <1>6 DEF CommitCsn, txnVars
  <2>4. Status[slot[w]] = 2
    BY <2>1, OwnedStatus DEF IndInv, StatusInv, Committing
  <2>5. Status'[slot[w]] = nextCsn
    BY <2>1, <2>2 DEF StatusFacts
  <2>6. \A y \in Xids \ {slot[w]} : Status'[y] = Status[y]
    BY <2>2, <2>3, OthersKept
  <2>7. Status' = [Status EXCEPT ![slot[w]] = nextCsn]
    BY <2>1, <2>5, <2>6, StatusUpdate
  <2>8. Abstract!Commit(slot[w])
    BY <2>3, <2>4, <2>7 DEF Abstract!Commit, Abstract!InProgressCsn
  <2>. QED
    BY <2>8, <2>1, <1>x DEF Abstract!TransNext
<1>7. CASE CommitPublish(w)
  <2>1. pc[w] = "commitPublish" /\ pc'[w] = "endRelease" /\ slot[w] \in Xids /\ slot[w] # NoXid
    BY <1>7, <1>2 DEF CommitPublish, Goto, IndInv, OwnerInv
  <2>2. /\ \A v \in Workers \ {w} : pc'[v] = pc[v] /\ slot'[v] = slot[v] /\ myCsn'[v] = myCsn[v]
        /\ slot'[w] = slot[w]
    BY <1>7, <1>2 DEF CommitPublish, Goto, locals
  <2>3. history' = [history EXCEPT ![slot[w]] = myCsn[w]] /\ UNCHANGED <<nextCsn, snapCsn>>
    BY <1>7 DEF CommitPublish, txnVars
  <2>4. Status[slot[w]] = myCsn[w]
    BY <2>1 DEF StatusFacts
  <2>5. Status'[slot[w]] = myCsn[w]
    <3>1. \A v \in Workers : ~(pc'[v] = "commitPublish" /\ slot'[v] = slot[w])
      BY <2>1, <2>2 DEF IndInv, OwnerInv
    <3>2. history'[slot[w]] = myCsn[w]
      BY <2>1, <2>3, <1>2
    <3>3. myCsn[w] # 4
      BY <2>1, <1>2 DEF IndInv, CsnInv
    <3>. QED
      BY <3>1, <3>2, <3>3, <2>1 DEF StatusFacts
  <2>6. \A y \in Xids \ {slot[w]} : Status'[y] = Status[y]
    BY <2>2, <2>3, <1>2, OthersKept
  <2>7. Status' = Status
    <3>1. \A y \in Xids : Status'[y] = Status[y]
      BY <2>4, <2>5, <2>6
    <3>. QED
      BY <3>1, StatusSame
  <2>. QED
    BY <2>3, <2>7
<1>8. CASE AbortMark(w)
  <2>1. pc[w] = "abortUndo" /\ pc'[w] = "endRelease" /\ slot[w] \in Xids /\ slot[w] # NoXid
    BY <1>8, <1>2 DEF AbortMark, Goto, IndInv, OwnerInv
  <2>2. /\ \A v \in Workers \ {w} : pc'[v] = pc[v] /\ slot'[v] = slot[v] /\ myCsn'[v] = myCsn[v]
        /\ slot'[w] = slot[w]
    BY <1>8, <1>2 DEF AbortMark, Goto, locals
  <2>3. history' = [history EXCEPT ![slot[w]] = 3] /\ UNCHANGED <<nextCsn, snapCsn>>
    BY <1>8 DEF AbortMark
  <2>4. Status[slot[w]] = 2
    BY <2>1, OwnedStatus DEF IndInv, StatusInv
  <2>5. Status'[slot[w]] = 3
    <3>1. \A v \in Workers : ~(pc'[v] = "commitPublish" /\ slot'[v] = slot[w])
      BY <2>1, <2>2 DEF IndInv, OwnerInv
    <3>2. history'[slot[w]] = 3
      BY <2>1, <2>3, <1>2
    <3>. QED
      BY <3>1, <3>2, <2>1 DEF StatusFacts
  <2>6. \A y \in Xids \ {slot[w]} : Status'[y] = Status[y]
    BY <2>2, <2>3, <1>2, OthersKept
  <2>7. Status' = [Status EXCEPT ![slot[w]] = 3]
    BY <2>1, <2>5, <2>6, StatusUpdate
  <2>8. Abstract!Abort(slot[w])
    BY <2>3, <2>4, <2>7 DEF Abstract!Abort, Abstract!InProgressCsn, Abstract!AbortedCsn
  <2>. QED
    BY <2>8, <2>1, <1>x DEF Abstract!TransNext
<1>9. CASE EndClear(w)
  <2>1. pc[w] = "endClear" /\ pc'[w] = "ready" /\ slot[w] \in Xids /\ slot[w] # NoXid
    BY <1>9, <1>2 DEF EndClear, Goto, IndInv, OwnerInv
  <2>2. /\ \A v \in Workers \ {w} : pc'[v] = pc[v] /\ slot'[v] = slot[v] /\ myCsn'[v] = myCsn[v]
        /\ slot'[w] = NoXid
    BY <1>9, <1>2 DEF EndClear, Goto
  <2>3. UNCHANGED <<history, nextCsn>> /\ snapCsn' = [snapCsn EXCEPT ![slot[w]] = 0]
    BY <1>9 DEF EndClear
  <2>4. Ended(slot[w]) /\ history[slot[w]] \in Nat
    BY <2>1, <1>2 DEF IndInv, StatusInv, Ending
  <2>5. Status[slot[w]] = history[slot[w]]
    BY <2>1, <2>4, OwnedStatus DEF Ended, IsNormal
  <2>6. Status'[slot[w]] = history[slot[w]]
    <3>1. \A v \in Workers : ~(pc'[v] = "commitPublish" /\ slot'[v] = slot[w])
      BY <2>1, <2>2 DEF IndInv, OwnerInv
    <3>. QED
      BY <3>1, <2>1, <2>3, <2>4 DEF StatusFacts, Ended, IsNormal
  <2>7. \A y \in Xids \ {slot[w]} : Status'[y] = Status[y]
    BY <2>2, <2>3, OthersKept
  <2>8. Status' = Status
    <3>1. \A y \in Xids : Status'[y] = Status[y]
      BY <2>5, <2>6, <2>7
    <3>. QED
      BY <3>1, StatusSame
  <2>9. Abstract!Forget(slot[w])
    BY <2>3, <2>4, <2>5, <2>8
    DEF Abstract!Forget, Abstract!InvalidCsn, Abstract!AbortedCsn, Abstract!IsNormal, Abstract!MinCsn, Ended, IsNormal
  <2>. QED
    BY <2>9, <2>1, <1>x DEF Abstract!TransNext
<1>. QED
  BY <1>1, <1>3, <1>4, <1>5, <1>6, <1>7, <1>8, <1>9, QuietStep DEF Run, Commit, Abort, End

\* What BeginNewTransaction, BeginNewStatement, CommitTransaction and
\* AbortTransaction do in several steps is, for everybody else, what
\* Transactions does in one: TransactionManager implements Transactions.
THEOREM Refinement == Spec => TransactionsAtomic
<1>1. Init => Abstract!TransInit
  <2>. SUFFICES ASSUME Init PROVE Abstract!TransInit
    OBVIOUS
  <2>1. Status = [x \in Xids |-> 0]
    <3>1. \A x \in Xids : Publishing(x) = {} /\ history[x] = 0
      BY DEF Init, Publishing, InvalidCsn
    <3>. QED
      BY <3>1 DEF Status, CommittingCsn
  <2>. QED
    BY <2>1 DEF Init, Abstract!TransInit, Abstract!Xids, Xids, Abstract!InvalidCsn, Abstract!MinCsn,
                InvalidCsn, FirstCsn, MinCsn
<1>2. IndInv /\ IndInv' /\ StatusFacts /\ StatusFacts' /\ [Next]_vars
        => [Abstract!TransNext]_(Abstract!transVars)
  <2>. SUFFICES ASSUME IndInv, IndInv', StatusFacts, StatusFacts', [Next]_vars
                PROVE  Abstract!TransNext \/ UNCHANGED <<Status, nextCsn, snapCsn>>
    BY DEF Abstract!transVars
  <2>1. CASE UNCHANGED vars
    <3>1. UNCHANGED <<pc, slot, myCsn, history, nextCsn, snapCsn>>
      BY <2>1 DEF vars, tmVars, txnVars, locals
    <3>2. \A y \in Xids : Status'[y] = Status[y]
      BY <3>1, StatusKept
    <3>. QED
      BY <3>1, <3>2, StatusSame
  <2>. QED
    BY <2>1, StepSimulation
<1>. QED
  BY <1>1, <1>2, StatusCases, Invariance, PTL DEF Spec, TransactionsAtomic, Abstract!TransSpec
=============================================================================
