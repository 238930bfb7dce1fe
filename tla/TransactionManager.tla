-------------------------- MODULE TransactionManager --------------------------
(***************************************************************************)
(* Transactions (trans/): identifiers, commit sequence numbers (CSN), the  *)
(* status table of TransactionManager, statement snapshots, the undo log   *)
(* of a transaction and waiting for another transaction's end.             *)
(*                                                                         *)
(* _history and _xidToWorker are only touched under TransactionManager's   *)
(* latch _mutex, which LWLatch grants to one holder at a time in either    *)
(* mode: a critical section is one step, enabled when the latch is free.   *)
(* The counters are atomic, the slots _transactions[w] are read without    *)
(* the latch. A race on such a slot yields its old or its new value.       *)
(***************************************************************************)
EXTENDS Naturals, Sequences, FiniteSets

CONSTANTS
  Workers,
  NoWorker,
  MaxXid,       \* bound: transactions started
  MaxUsn,       \* bound: undo records written
  MaxOrphans    \* bound: sessions that end with an open transaction

ASSUME NoWorkerAssumption == NoWorker \notin Workers
ASSUME BoundsAssumption == {MaxXid, MaxUsn, MaxOrphans} \subseteq Nat

Xids == 1..MaxXid
NoXid == 0          \* TransactionId::Invalid, and a null Transaction pointer

\* CommitSeqNumber
InvalidCsn    == 0
FrozenCsn     == 1
InProgressCsn == 2
AbortedCsn    == 3
CommittingCsn == 4
MinCsn        == 5
IsNormal(c) == c >= MinCsn

InvalidUsn == 0

VARIABLES
  nextCsn, nextXid,   \* _csn, _xid
  mutex,              \* the worker that keeps _mutex beyond one step, or NoWorker
  slot,               \* _transactions[w]: the transaction's xid
  xidToWorker,        \* _xidToWorker
  history,            \* _history, InvalidCsn for an absent entry
  \* Transaction: _latch held by the owner, _snapshot (CSN and command id), _undoLog
  latched, snapCsn, snapCid, undoLog,
  undoFile,           \* UndoLog: the xid in the header of each record, by USN
  \* Undoing: the USNs whose record PerformUndo applied; per worker the records
  \* that its UndoAllRecords has still before it; the transactions whose
  \* ROLLBACK has thrown
  undone, left, failed,
  my,                 \* MyTransaction of each worker's thread
  \* Per worker: where it is; the xid it asks about and the worker found for
  \* it; the csn fetched by CommitTransaction
  pc, asked, found, myCsn,
  orphans,            \* the transactions whose session ended and left them open
  \* Observations: the answers a transaction's snapshot gave about others; who
  \* had committed when the snapshot was taken; the length of the undo log
  \* when the statement began
  verdict, committedAt, stmtStart

tmVars   == <<nextCsn, nextXid, mutex, slot, xidToWorker, history>>
undoVars == <<undone, left, failed>>
txnVars  == <<latched, snapCsn, snapCid, undoLog, undoFile, undoVars>>
locals   == <<my, asked, found, myCsn, orphans>>
observed == <<verdict, committedAt, stmtStart>>
vars == <<tmVars, txnVars, locals, observed, pc>>

Goto(w, from, to) == pc[w] = from /\ pc' = [pc EXCEPT ![w] = to]

MutexFree == mutex = NoWorker

\* Mutant: the counter starts below the reserved values.
FirstCsnZero == 0

\* TransactionManager's constructor
FirstCsn == MinCsn

Init ==
  /\ nextCsn = FirstCsn /\ nextXid = 1 /\ undoFile = <<>>
  /\ undone = {} /\ left = [w \in Workers |-> 0] /\ failed = {}
  /\ mutex = NoWorker
  /\ slot = [w \in Workers |-> NoXid]
  /\ xidToWorker = [x \in Xids |-> NoWorker]
  /\ history = [x \in Xids |-> InvalidCsn]
  /\ latched = [x \in Xids |-> FALSE]
  /\ snapCsn = [x \in Xids |-> InvalidCsn]
  /\ snapCid = [x \in Xids |-> InvalidUsn]
  /\ undoLog = [x \in Xids |-> <<>>]
  /\ my = [w \in Workers |-> NoXid]
  /\ pc = [w \in Workers |-> "ready"]
  /\ asked = [w \in Workers |-> NoXid]
  /\ found = [w \in Workers |-> NoWorker]
  /\ myCsn = [w \in Workers |-> InvalidCsn]
  /\ orphans = {}
  /\ verdict = [x \in Xids |-> [y \in Xids |-> "none"]]
  /\ committedAt = [x \in Xids |-> {}]
  /\ stmtStart = [x \in Xids |-> 0]

-----------------------------------------------------------------------------
(* BeginNewTransaction                                                      *)

\* An xid is taken, the transaction is created with its latch held and stored
\* in the worker's slot; nobody else knows the xid yet.
BeginCreate(w) ==
  /\ my[w] = NoXid /\ nextXid <= MaxXid
  /\ Goto(w, "ready", "beginRegister")
  /\ nextXid' = nextXid + 1
  /\ latched' = [latched EXCEPT ![nextXid] = TRUE]
  /\ slot' = [slot EXCEPT ![w] = nextXid]
  /\ my' = [my EXCEPT ![w] = nextXid]
  /\ UNCHANGED <<nextCsn, mutex, xidToWorker, history, snapCsn, snapCid, undoLog,
                 undoFile, undoVars, asked, found, myCsn, orphans, observed>>

BeginRegister(w) ==
  /\ Goto(w, "beginRegister", "ready") /\ MutexFree
  /\ xidToWorker' = [xidToWorker EXCEPT ![my[w]] = w]
  /\ history' = [history EXCEPT ![my[w]] = InProgressCsn]
  /\ UNCHANGED <<nextCsn, nextXid, mutex, slot, txnVars, locals, observed>>

-----------------------------------------------------------------------------
(* Statements                                                               *)

LastUsn(x) == IF undoLog[x] = <<>> THEN InvalidUsn ELSE undoLog[x][Len(undoLog[x])]

\* Mutant: the last change of the earlier statements is left out.
CommandIdOfLast(x) == IF LastUsn(x) = InvalidUsn THEN snapCid[x] ELSE LastUsn(x)

CommandId(x) == IF LastUsn(x) = InvalidUsn THEN snapCid[x] ELSE LastUsn(x) + 1

\* BeginNewStatement: the first statement takes the current CSN; later ones
\* keep it and move the command id behind the transaction's last undo record.
BeginNewStatement(w) ==
  LET x == my[w] IN
  /\ x # NoXid /\ pc[w] = "ready"
  /\ \/ /\ snapCsn[x] = InvalidCsn
        /\ snapCsn' = [snapCsn EXCEPT ![x] = nextCsn]
        /\ snapCid' = [snapCid EXCEPT ![x] = InvalidUsn]
        /\ committedAt' = [committedAt EXCEPT ![x] = {y \in Xids : IsNormal(history[y])}]
     \/ /\ snapCsn[x] # InvalidCsn
        /\ snapCid' = [snapCid EXCEPT ![x] = CommandId(x)]
        /\ UNCHANGED <<snapCsn, committedAt>>
  /\ stmtStart' = [stmtStart EXCEPT ![x] = Len(undoLog[x])]
  /\ UNCHANGED <<tmVars, latched, undoLog, undoFile, undoVars, locals, verdict, pc>>

\* A data change: its undo record gets the next USN of the shared undo log.
InsertUndoRecord(w) ==
  LET x == my[w] IN
  /\ x # NoXid /\ pc[w] = "ready" /\ snapCsn[x] # InvalidCsn
  /\ Len(undoFile) < MaxUsn
  /\ undoFile' = Append(undoFile, x)
  /\ undoLog' = [undoLog EXCEPT ![x] = Append(@, Len(undoFile'))]
  /\ UNCHANGED <<tmVars, latched, snapCsn, snapCid, undoVars, locals, observed, pc>>

\* Mutant: the snapshot includes the CSN it was taken at.
VisibleAt(c, x) == c = FrozenCsn \/ (IsNormal(c) /\ c <= snapCsn[x])

\* What tuple_is_visible makes of the status of another transaction.
Visible(c, x) == c = FrozenCsn \/ (IsNormal(c) /\ c < snapCsn[x])

\* GetTransactionCsn: a status other than Committing is returned. On Committing
\* the shared_lock is disowned instead of unlocked, so the latch stays taken
\* while the worker sleeps and then asks for it again.
GetTransactionCsn(w, x, from, to) ==
  /\ pc[w] = from /\ MutexFree
  /\ \/ /\ history[x] # CommittingCsn
        /\ pc' = [pc EXCEPT ![w] = to]
        /\ UNCHANGED mutex
     \/ /\ history[x] = CommittingCsn
        /\ mutex' = w
        /\ UNCHANGED pc

\* The answer is used and forgotten.
Answered(w) == asked' = [asked EXCEPT ![w] = IF pc'[w] = "ready" THEN NoXid ELSE @]

\* The transactions whose xid a reader or a writer can meet on a page.
Writers == {undoFile[u] : u \in DOMAIN undoFile}

\* A scan asks whether another transaction's tuple version is visible.
AskVisible(w) ==
  LET x == my[w] IN
  /\ x # NoXid /\ Goto(w, "ready", "visible") /\ snapCsn[x] # InvalidCsn
  /\ \E y \in Writers \ {x} : asked' = [asked EXCEPT ![w] = y]
  /\ UNCHANGED <<tmVars, txnVars, my, found, myCsn, orphans, observed>>

TupleIsVisible(w) ==
  LET x == my[w]  y == asked[w] IN
  /\ GetTransactionCsn(w, y, "visible", "ready")
  /\ Answered(w)
  /\ verdict' = IF history[y] = CommittingCsn THEN verdict
                ELSE [verdict EXCEPT ![x][y] =
                        IF Visible(history[y], x) THEN "visible" ELSE "hidden"]
  /\ UNCHANGED <<nextCsn, nextXid, slot, xidToWorker, history, txnVars, my, found, myCsn, orphans,
                 committedAt, stmtStart>>

-----------------------------------------------------------------------------
(* wait_tnx_end and WaitTransactionEnd                                      *)

\* A writer found another transaction's tuple version.
AskWait(w) ==
  LET x == my[w] IN
  /\ x # NoXid /\ Goto(w, "ready", "waitStatus") /\ snapCsn[x] # InvalidCsn
  /\ \E y \in Writers \ {x} : asked' = [asked EXCEPT ![w] = y]
  /\ UNCHANGED <<tmVars, txnVars, my, found, myCsn, orphans, observed>>

WaitStatus(w) ==
  /\ pc[w] = "waitStatus"
  /\ GetTransactionCsn(w, asked[w], "waitStatus",
                       IF history[asked[w]] = InProgressCsn THEN "waitLookup" ELSE "ready")
  /\ Answered(w)
  /\ UNCHANGED <<nextCsn, nextXid, slot, xidToWorker, history, txnVars, my, found, myCsn, orphans,
                 observed>>

WaitLookup(w) ==
  /\ pc[w] = "waitLookup" /\ MutexFree
  /\ \/ /\ xidToWorker[asked[w]] = NoWorker
        /\ Goto(w, "waitLookup", "waitEnded")
        /\ UNCHANGED found
     \/ /\ xidToWorker[asked[w]] # NoWorker
        /\ Goto(w, "waitLookup", "waitSlot")
        /\ found' = [found EXCEPT ![w] = xidToWorker[asked[w]]]
  /\ UNCHANGED <<tmVars, txnVars, my, asked, myCsn, orphans, observed>>

\* The slot is read without the latch: it may be empty or taken by the next
\* transaction of that worker by now.
WaitSlot(w) ==
  /\ pc[w] = "waitSlot"
  /\ Goto(w, "waitSlot", IF slot[found[w]] = asked[w] THEN "waitLatch" ELSE "waitEnded")
  /\ found' = [found EXCEPT ![w] = NoWorker]
  /\ UNCHANGED <<tmVars, txnVars, my, asked, myCsn, orphans, observed>>

\* Transaction::Wait: the shared lock is granted when the owner released its
\* exclusive one, and given back at once.
WaitLatch(w) ==
  /\ Goto(w, "waitLatch", "waitEnded")
  /\ ~latched[asked[w]]
  /\ UNCHANGED <<tmVars, txnVars, locals, observed>>

\* WaitTransactionEnd returned; the status is read again.
WaitEnded(w) ==
  /\ GetTransactionCsn(w, asked[w], "waitEnded", "ready")
  /\ Answered(w)
  /\ UNCHANGED <<nextCsn, nextXid, slot, xidToWorker, history, txnVars, my, found, myCsn, orphans,
                 observed>>

-----------------------------------------------------------------------------
(* CommitTransaction                                                        *)

\* Mutant: the transaction stays InProgress until its CSN is published.
CommitUnmarked(w) ==
  /\ Goto(w, "ready", "commitCsn")
  /\ slot[w] # NoXid /\ MutexFree
  /\ UNCHANGED <<tmVars, txnVars, locals, observed>>

\* Mutant: the transaction leaves the table before it has its CSN.
CommitErasing(w) ==
  /\ Goto(w, "ready", "commitCsn")
  /\ slot[w] # NoXid /\ MutexFree
  /\ history' = [history EXCEPT ![slot[w]] = CommittingCsn]
  /\ xidToWorker' = [xidToWorker EXCEPT ![slot[w]] = NoWorker]
  /\ UNCHANGED <<nextCsn, nextXid, mutex, slot, txnVars, locals, observed>>

\* The transaction is the one in the worker's slot; the handler does not look
\* at MyTransaction before COMMIT. No slot is an assertion failure.
CommitMark(w) ==
  /\ Goto(w, "ready", "commitCsn")
  /\ slot[w] # NoXid /\ MutexFree
  /\ history' = [history EXCEPT ![slot[w]] = CommittingCsn]
  /\ UNCHANGED <<nextCsn, nextXid, mutex, slot, xidToWorker, txnVars, locals, observed>>

\* Mutant: the counter is read and not advanced.
CommitCsnShared(w) ==
  /\ Goto(w, "commitCsn", "commitPublish")
  /\ myCsn' = [myCsn EXCEPT ![w] = nextCsn]
  /\ UNCHANGED <<tmVars, txnVars, my, asked, found, orphans, observed>>

CommitCsn(w) ==
  /\ Goto(w, "commitCsn", "commitPublish")
  /\ myCsn' = [myCsn EXCEPT ![w] = nextCsn]
  /\ nextCsn' = nextCsn + 1
  /\ UNCHANGED <<nextXid, mutex, slot, xidToWorker, history, txnVars, my, asked, found, orphans, observed>>

CommitPublish(w) ==
  /\ Goto(w, "commitPublish", "endRelease") /\ MutexFree
  /\ history' = [history EXCEPT ![slot[w]] = myCsn[w]]
  /\ xidToWorker' = [xidToWorker EXCEPT ![slot[w]] = NoWorker]
  /\ UNCHANGED <<nextCsn, nextXid, mutex, slot, txnVars, locals, observed>>

-----------------------------------------------------------------------------
(* AbortTransaction                                                         *)

AbortStart(w) ==
  /\ my[w] # NoXid
  /\ Goto(w, "ready", "abortUndo")
  /\ left' = [left EXCEPT ![w] = Len(undoLog[my[w]])]
  /\ UNCHANGED <<tmVars, latched, snapCsn, snapCid, undoLog, undoFile, undone, failed, locals, observed>>

\* Mutant: the records are undone from the first to the last.
AbortUndoForward(w) ==
  LET log == undoLog[my[w]] IN
  /\ pc[w] = "abortUndo" /\ left[w] > 0
  /\ undone' = undone \cup {log[Len(log) + 1 - left[w]]}
  /\ left' = [left EXCEPT ![w] = @ - 1]
  /\ UNCHANGED <<tmVars, latched, snapCsn, snapCid, undoLog, undoFile, failed, locals, observed, pc>>

\* UndoAllRecords: PerformUndo of each record, from the last to the first.
AbortUndo(w) ==
  /\ pc[w] = "abortUndo" /\ left[w] > 0
  /\ undone' = undone \cup {undoLog[my[w]][left[w]]}
  /\ left' = [left EXCEPT ![w] = @ - 1]
  /\ UNCHANGED <<tmVars, latched, snapCsn, snapCid, undoLog, undoFile, failed, locals, observed, pc>>

\* PerformUndo throws (the record cannot be read, or the tuple was modified by
\* another transaction), and so does AbortTransaction: the transaction stays in
\* progress with its latch held and its history of records whole. Its client
\* may go on with it, commit it, or roll it back again from the last record.
AbortFails(w) ==
  /\ Goto(w, "abortUndo", "ready") /\ left[w] > 0
  /\ left' = [left EXCEPT ![w] = 0]
  /\ failed' = failed \cup {my[w]}
  /\ UNCHANGED <<tmVars, latched, snapCsn, snapCid, undoLog, undoFile, undone, locals, observed>>

\* The history of records is cleared, then the transaction is marked.
AbortMark(w) ==
  /\ Goto(w, "abortUndo", "endRelease") /\ MutexFree /\ left[w] = 0
  /\ undoLog' = [undoLog EXCEPT ![my[w]] = <<>>]
  /\ history' = [history EXCEPT ![slot[w]] = AbortedCsn]
  /\ xidToWorker' = [xidToWorker EXCEPT ![slot[w]] = NoWorker]
  /\ UNCHANGED <<nextCsn, nextXid, mutex, slot, latched, snapCsn, snapCid, undoFile, undoVars,
                 locals, observed>>

-----------------------------------------------------------------------------
(* The end of both: Transaction::Commit or Abort unlocks the latch, then    *)
(* the slot and MyTransaction are cleared.                                  *)

\* Mutant: the latch of the transaction stays locked.
EndUnreleased(w) ==
  /\ Goto(w, "endRelease", "endClear")
  /\ UNCHANGED <<tmVars, txnVars, locals, observed>>

EndRelease(w) ==
  /\ Goto(w, "endRelease", "endClear")
  /\ latched' = [latched EXCEPT ![slot[w]] = FALSE]
  /\ UNCHANGED <<tmVars, snapCsn, snapCid, undoLog, undoFile, undoVars, locals, observed>>

\* The transaction object goes with its slot, and what was observed of it.
EndClear(w) ==
  LET x == slot[w] IN
  /\ Goto(w, "endClear", "ready")
  /\ slot' = [slot EXCEPT ![w] = NoXid]
  /\ my' = [my EXCEPT ![w] = NoXid]
  /\ myCsn' = [myCsn EXCEPT ![w] = InvalidCsn]
  /\ snapCsn' = [snapCsn EXCEPT ![x] = InvalidCsn]
  /\ snapCid' = [snapCid EXCEPT ![x] = InvalidUsn]
  /\ undoLog' = [undoLog EXCEPT ![x] = <<>>]
  /\ verdict' = [verdict EXCEPT ![x] = [y \in Xids |-> "none"]]
  /\ committedAt' = [committedAt EXCEPT ![x] = {}]
  /\ stmtStart' = [stmtStart EXCEPT ![x] = 0]
  /\ UNCHANGED <<nextCsn, nextXid, mutex, xidToWorker, history, latched, undoFile, undoVars,
                 asked, found, orphans>>

\* The client goes away: the handler thread ends and its thread-local
\* MyTransaction with it. Nothing aborts the transaction; the worker's next
\* session runs in a new thread.
SessionEnds(w) ==
  /\ my[w] # NoXid /\ pc[w] = "ready" /\ Cardinality(orphans) < MaxOrphans
  /\ my' = [my EXCEPT ![w] = NoXid]
  /\ orphans' = orphans \cup {my[w]}
  /\ UNCHANGED <<tmVars, txnVars, asked, found, myCsn, observed, pc>>

-----------------------------------------------------------------------------

Commit(w) == CommitCsn(w) \/ CommitPublish(w)
Abort(w) == AbortUndo(w) \/ AbortFails(w) \/ AbortMark(w)
End(w) == EndRelease(w) \/ EndClear(w)
Wait(w) == WaitStatus(w) \/ WaitLookup(w) \/ WaitSlot(w) \/ WaitLatch(w) \/ WaitEnded(w)

\* The steps a running thread takes without its client.
Run(w) == BeginRegister(w) \/ TupleIsVisible(w) \/ Wait(w) \/ Commit(w) \/ Abort(w) \/ End(w)

Next ==
  \E w \in Workers :
    \/ BeginCreate(w) \/ BeginNewStatement(w) \/ InsertUndoRecord(w)
    \/ AskVisible(w) \/ AskWait(w) \/ CommitMark(w) \/ AbortStart(w) \/ SessionEnds(w)
    \/ Run(w)

Spec == Init /\ [][Next]_vars

\* A thread that is not waiting for its client keeps running.
FairSpec == Spec /\ \A w \in Workers : WF_vars(Run(w))

-----------------------------------------------------------------------------
(* Properties                                                               *)

\* The places where a worker can be between two steps: at the client's
\* disposal, or in one of the operations.
Places ==
  {"ready", "beginRegister", "visible", "waitStatus", "waitLookup", "waitSlot", "waitLatch",
   "waitEnded", "commitCsn", "commitPublish", "abortUndo", "endRelease", "endClear"}

Finishing == {"commitCsn", "commitPublish", "abortUndo"}

\* The types of the tables, the counters and the locals.
TypeOK ==
  /\ nextCsn \in Nat /\ nextCsn >= MinCsn
  /\ nextXid \in 1..(MaxXid + 1)
  /\ mutex \in Workers \cup {NoWorker}
  /\ slot \in [Workers -> Xids \cup {NoXid}]
  /\ xidToWorker \in [Xids -> Workers \cup {NoWorker}]
  /\ history \in [Xids -> Nat]
  /\ latched \in [Xids -> BOOLEAN]
  /\ snapCsn \in [Xids -> Nat] /\ snapCid \in [Xids -> Nat]
  /\ undoLog \in [Xids -> Seq(Nat)]
  /\ undoFile \in Seq(Xids) /\ undone \subseteq Nat
  /\ left \in [Workers -> Nat] /\ failed \subseteq Xids
  /\ my \in [Workers -> Xids \cup {NoXid}]
  /\ pc \in [Workers -> Places]
  /\ asked \in [Workers -> Xids \cup {NoXid}]
  /\ found \in [Workers -> Workers \cup {NoWorker}]
  /\ myCsn \in [Workers -> Nat]
  /\ orphans \subseteq Xids
  /\ verdict \in [Xids -> [Xids -> {"none", "visible", "hidden"}]]
  /\ committedAt \in [Xids -> SUBSET Xids]
  /\ stmtStart \in [Xids -> Nat]

Ended(x) == history[x] = AbortedCsn \/ IsNormal(history[x])

\* A snapshot never changes its mind: once a transaction was told that another
\* one's changes are visible to it, or are not, it is told so ever after,
\* whatever commits in between. This is what marking a transaction Committing
\* before it takes its CSN is for.
SnapshotStable ==
  [][\A x, y \in Xids :
       "none" \notin {verdict[x][y], verdict'[x][y]} => verdict'[x][y] = verdict[x][y]]_vars

\* What had committed when the snapshot was taken is visible to it, and what
\* is visible to it has committed with a CSN below the snapshot's.
SnapshotExact ==
  \A x, y \in Xids :
    /\ verdict[x][y] = "hidden" => y \notin committedAt[x]
    /\ verdict[x][y] = "visible" => IsNormal(history[y]) /\ history[y] < snapCsn[x]

\* No two transactions commit with the same CSN, and the counter is beyond all
\* of them.
CsnUnique ==
  \A x \in Xids : IsNormal(history[x]) =>
    /\ history[x] < nextCsn
    /\ \A y \in Xids \ {x} : history[y] # history[x]

\* "aborted transaction must undo all it's changes before marked aborted"
\* (HeapTable.cpp:182), every one of them, also when an earlier ROLLBACK of it
\* threw half-way. As long as no ROLLBACK of a transaction has thrown, its
\* records are undone in backward order, and none once it commits.
AbortedUndone ==
  \A u \in DOMAIN undoFile :
    LET x == undoFile[u] IN
    /\ history[x] = AbortedCsn => u \in undone
    /\ u \in undone /\ x \notin failed =>
         /\ history[x] \in {InProgressCsn, AbortedCsn}
         /\ \A v \in DOMAIN undoFile : undoFile[v] = x /\ v > u => v \in undone

\* The table of running transactions holds the one that a worker commits or
\* aborts, so that neither throws "transaction table is broken".
TableNotBroken ==
  \A w \in Workers : pc[w] \in Finishing =>
    xidToWorker[slot[w]] = w

\* The command id separates a transaction's earlier statements from the running
\* one: its own changes carry a USN at or above the command id exactly when the
\* running statement made them (Snapshot.hpp:13-15), also when other
\* transactions write undo records in between.
StatementSeparated ==
  \A x \in Xids : snapCsn[x] # InvalidCsn /\ ~Ended(x) =>
    \A i \in DOMAIN undoLog[x] : snapCid[x] <= undoLog[x][i] <=> i > stmtStart[x]

\* WaitTransactionEnd returns only when the transaction has ended (asserted by
\* wait_tnx_end, HeapTable.cpp:179 and 186), on each of its four ways out,
\* unless the session that ran the transaction went away and left it open.
WaitedEnded ==
  \A w \in Workers : pc[w] = "waitEnded" => Ended(asked[w]) \/ asked[w] \in orphans

\* "This will unlocks and release all waiters" (TransactionManager.cpp:90): who
\* waits for a transaction that commits or aborts goes on, unless _mutex was
\* leaked on the way or the ROLLBACK threw and the transaction is open again.
WaitersReleased ==
  \A v \in Workers :
    pc[v] = "waitLatch" /\ (\E w \in Workers : slot[w] = asked[v] /\ pc[w] \in Finishing)
    ~> \/ pc[v] = "ready" \/ ~MutexFree
       \/ /\ asked[v] \in failed
          /\ \E w \in Workers : slot[w] = asked[v] /\ pc[w] = "ready"

\* A transaction that is committing or aborting ends.
EndsEventually == \A w \in Workers : pc[w] \in Finishing ~> pc[w] = "ready"

-----------------------------------------------------------------------------
(* Transactions, which this module implements                               *)

\* The workers that have a CSN for a transaction and have not published it.
Publishing(x) == {w \in Workers : pc[w] = "commitPublish" /\ slot[w] = x}

\* A transaction has committed as soon as it has taken its CSN: nobody can read
\* its status before it is published.
Status ==
  [x \in Xids |->
     IF Publishing(x) # {} THEN myCsn[CHOOSE w \in Publishing(x) : TRUE]
     ELSE IF history[x] = CommittingCsn THEN InProgressCsn ELSE history[x]]

Abstract == INSTANCE Transactions WITH status <- Status

\* The steps of BeginNewTransaction, BeginNewStatement, CommitTransaction and
\* AbortTransaction, interleaved in any way, look to everybody else like the
\* single steps of Transactions: a commit takes effect where its CSN is taken.
TransactionsAtomic == Abstract!TransSpec

-----------------------------------------------------------------------------
(* The inductive invariant, in parts                                        *)

\* Every statement of a worker runs with a snapshot.
Asking == {"visible", "waitStatus", "waitLookup", "waitSlot", "waitLatch", "waitEnded"}
Committing == {"commitCsn", "commitPublish"}
Ending == {"endRelease", "endClear"}

\* Who owns a transaction: slots are disjoint and MyTransaction is in the slot.
OwnerInv ==
  /\ \A v, w \in Workers : slot[v] = slot[w] /\ slot[w] # NoXid => v = w
  /\ \A w \in Workers :
       /\ slot[w] < nextXid
       /\ my[w] # NoXid => my[w] = slot[w]
       /\ pc[w] # "ready" => slot[w] # NoXid
       /\ pc[w] \in Asking \cup {"beginRegister", "abortUndo"} => my[w] # NoXid
       /\ pc[w] \in Asking => snapCsn[my[w]] # InvalidCsn
       /\ pc[w] \in Asking => asked[w] # NoXid

\* The status of a transaction follows its owner's program counter.
StatusInv ==
  /\ \A x \in Xids : history[x] # FrozenCsn /\ (x >= nextXid => history[x] = InvalidCsn)
  /\ \A w \in Workers : slot[w] # NoXid =>
       /\ pc[w] = "beginRegister" => history[slot[w]] = InvalidCsn
       /\ pc[w] \in Asking \cup {"ready", "abortUndo"} => history[slot[w]] = InProgressCsn
       /\ pc[w] \in Committing => history[slot[w]] = CommittingCsn
       /\ pc[w] \in Ending => Ended(slot[w])
       /\ pc[w] \in Asking \cup Committing \cup {"ready", "abortUndo"} => xidToWorker[slot[w]] = w

\* A CSN belongs to one transaction from the moment it is taken.
CsnInv ==
  /\ CsnUnique
  /\ \A w \in Workers : pc[w] = "commitPublish" =>
       /\ MinCsn <= myCsn[w] /\ myCsn[w] < nextCsn
       /\ \A x \in Xids : history[x] # myCsn[w]
       /\ \A v \in Workers \ {w} : pc[v] = "commitPublish" => myCsn[v] # myCsn[w]

\* What a snapshot answered, and the CSNs that can still come.
SnapshotInv ==
  /\ \A x \in Xids :
       /\ snapCsn[x] = InvalidCsn \/ (MinCsn <= snapCsn[x] /\ snapCsn[x] <= nextCsn)
       /\ x >= nextXid => snapCsn[x] = InvalidCsn
       /\ snapCsn[x] = InvalidCsn => verdict[x] = [y \in Xids |-> "none"]
       /\ \A y \in committedAt[x] : IsNormal(history[y]) /\ history[y] < snapCsn[x]
  /\ \A x, y \in Xids :
       /\ verdict[x][y] = "visible" => IsNormal(history[y]) /\ history[y] < snapCsn[x]
       /\ verdict[x][y] = "hidden" =>
            /\ IsNormal(history[y]) => snapCsn[x] <= history[y]
            /\ \A w \in Workers : pc[w] = "commitPublish" /\ slot[w] = y => snapCsn[x] <= myCsn[w]

\* The undo log of a transaction holds the USNs of its records, in order.
UndoLogOf(x) ==
  /\ snapCsn[x] = InvalidCsn => undoLog[x] = <<>>
  /\ \A i \in DOMAIN undoLog[x] :
       undoLog[x][i] \in DOMAIN undoFile /\ undoFile[undoLog[x][i]] = x
  /\ \A i, j \in DOMAIN undoLog[x] : i < j => undoLog[x][i] < undoLog[x][j]
  /\ stmtStart[x] <= Len(undoLog[x]) \/ Ended(x)
  /\ snapCid[x] <= Len(undoFile) + 1
  /\ history[x] = InProgressCsn =>
       \A u \in DOMAIN undoFile : undoFile[u] = x => \E i \in DOMAIN undoLog[x] : undoLog[x][i] = u

UndoLogInv ==
  /\ \A x \in Xids : UndoLogOf(x)
  /\ \A u \in DOMAIN undoFile : history[undoFile[u]] # InvalidCsn

\* What is undone belongs to a transaction that aborts or has aborted, or whose
\* ROLLBACK has thrown.
UndoneInv ==
  /\ AbortedUndone
  /\ undone \subseteq DOMAIN undoFile
  /\ \A u \in undone :
       \/ history[undoFile[u]] = AbortedCsn
       \/ undoFile[u] \in failed
       \/ \E w \in Workers : pc[w] = "abortUndo" /\ my[w] = undoFile[u]

\* UndoAllRecords has undone what is behind the record it has come to.
LeftInv ==
  \A w \in Workers : pc[w] = "abortUndo" =>
    /\ left[w] <= Len(undoLog[my[w]])
    /\ \A i \in DOMAIN undoLog[my[w]] : i > left[w] => undoLog[my[w]][i] \in undone

IndInv == TypeOK /\ OwnerInv /\ StatusInv /\ CsnInv /\ SnapshotInv /\ UndoLogInv /\ UndoneInv
            /\ LeftInv /\ StatementSeparated

\* MyTransaction is the slot, and an unended transaction is found and latched,
\* apart from the ones that a session left open.
WaitInv ==
  /\ \A w \in Workers :
       /\ my[w] = slot[w] \/ slot[w] \in orphans
       /\ pc[w] = "beginRegister" => latched[slot[w]]
  /\ \A x \in Xids \ orphans : history[x] \in {InProgressCsn, CommittingCsn} =>
       xidToWorker[x] # NoWorker /\ slot[xidToWorker[x]] = x /\ latched[x]
  /\ \A w \in Workers : pc[w] \in Asking =>
       /\ history[asked[w]] # InvalidCsn
       /\ pc[w] = "waitSlot" =>
            found[w] # NoWorker
              /\ (Ended(asked[w]) \/ slot[found[w]] = asked[w] \/ asked[w] \in orphans)
  /\ WaitedEnded
=============================================================================
