------------------------------- MODULE Sessions -------------------------------
(***************************************************************************)
(* Sessions: the master accepts connections and hands each to a worker,    *)
(* whose thread reads queries, executes them in explicit or implicit       *)
(* transactions and answers, and the client that sends a query and waits   *)
(* for its answer (server main.cpp, worker/, client main.cpp).             *)
(*                                                                         *)
(* A packet is delivered whole and in order (Wire). What a transaction     *)
(* does to rows is reduced to which open transactions have changed the     *)
(* rows that everybody changes, because that is what a statement waits     *)
(* for. Assertions are off.                                                *)
(***************************************************************************)
EXTENDS Naturals, Sequences, FiniteSets

CONSTANTS
  NumClients,
  NumWorkers,   \* workersCount: worker 0 is the master's
  Kinds,        \* the queries that each client sends
  MaxQueries,   \* bound: queries of a client
  MaxRows,      \* bound: rows that a statement returns or changes
  MaxStuck      \* bound: threads that get stuck on a latch

Clients == 1..NumClients
NoClient == 0
Workers == 0..(NumWorkers - 1)
NoXid == 0
NoQuery == "none"

Tcl == {"begin", "commit", "rollback"}
Plannable == {"select", "dml"}
\* "bad" does not parse, "other" is a statement that no
\* one executes, "packet" is not a Query packet at all.
AllKinds == Tcl \union Plannable \union {"bad", "other", "packet"}

ASSUME SessionsAssumption ==
  /\ Kinds \in [Clients -> SUBSET AllKinds]
  /\ {NumClients, NumWorkers, MaxQueries, MaxRows, MaxStuck} \subseteq Nat /\ NumWorkers > 0

VARIABLES
  \* The client: where it is, the queries it sent, the last one, and
  \* tupleDescPacket of handleResponse.
  cl, sent, asked, described,
  \* The connection: the accept queue, the server's end of the socket, and the
  \* packets on their way.
  backlog, sock, toServer, toClient,
  \* Worker: _busy, and its thread: its client, where it is, the query, the rows
  \* so far, _inImplicitTnx, and the thread-local MyTransaction.
  busy, serves, at, query, rows, implicit, my,
  waits,     \* the transaction whose end the worker waits for
  \* TransactionManager: _transactions, the keys of _xidToWorker (open), the aborted
  \* ones of _history that somebody waits for, and the open transactions that
  \* changed the common rows.
  slot, open, aborted, wrote,
  down,      \* the server process has ended
  stuck,     \* workers whose thread waits for a latch for ever
  \* Observations: the client was told that it is in a transaction; and of an error
  \* since.
  believes, erred

clientVars == <<cl, sent, asked, described, believes, erred>>
netVars    == <<backlog, sock, toServer, toClient>>
threadVars == <<busy, serves, at, query, rows, implicit, waits>>
transVars  == <<my, slot, open, aborted, wrote>>
serverVars == <<threadVars, transVars, down, stuck>>
vars == <<clientVars, netVars, serverVars>>

Packet(type, tag) == [type |-> type, tag |-> tag]
Complete(q) == Packet("CommandComplete", q)
Error == Packet("ErrorResponse", NoQuery)
Final(p) == p.type \in {"CommandComplete", "ErrorResponse"}

\* _busy of the other workers is never initialized (Worker.cpp:14): it holds
\* whatever was in the memory of the vector.
Init ==
  /\ cl = [c \in Clients |-> "out"] /\ sent = [c \in Clients |-> 0]
  /\ asked = [c \in Clients |-> NoQuery]
  /\ described = [c \in Clients |-> FALSE]
  /\ believes = [c \in Clients |-> FALSE] /\ erred = [c \in Clients |-> FALSE]
  /\ backlog = <<>> /\ sock = [c \in Clients |-> "none"]
  /\ toServer = [c \in Clients |-> <<>>] /\ toClient = [c \in Clients |-> <<>>]
  /\ busy \in {b \in [Workers -> BOOLEAN] : b[0]}
  /\ serves = [w \in Workers |-> NoClient] /\ at = [w \in Workers |-> "none"]
  /\ query = [w \in Workers |-> NoQuery] /\ rows = [w \in Workers |-> 0]
  /\ implicit = [w \in Workers |-> FALSE] /\ waits = [w \in Workers |-> NoXid]
  /\ my = [w \in Workers |-> NoXid] /\ slot = [w \in Workers |-> NoXid]
  /\ open = {} /\ aborted = {} /\ wrote = {}
  /\ down = FALSE /\ stuck = {}

\* The process ends, and with it its memory and its ends of the connections.
ProcessEnds ==
  /\ down' = TRUE /\ stuck' = {}
  /\ busy' = [w \in Workers |-> FALSE]
  /\ serves' = [w \in Workers |-> NoClient] /\ at' = [w \in Workers |-> "none"]
  /\ query' = [w \in Workers |-> NoQuery] /\ rows' = [w \in Workers |-> 0]
  /\ implicit' = [w \in Workers |-> FALSE] /\ waits' = [w \in Workers |-> NoXid]
  /\ my' = [w \in Workers |-> NoXid] /\ slot' = [w \in Workers |-> NoXid]
  /\ open' = {} /\ aborted' = {} /\ wrote' = {}
  /\ backlog' = <<>> /\ sock' = [c \in Clients |-> "closed"]
  /\ toServer' = [c \in Clients |-> <<>>]

-----------------------------------------------------------------------------
(* The client                                                               *)

\* tryConnectClient: connect succeeds once the connection is in the backlog. Clients
\* are alike, so they are numbered in the order in which they connect.
Connect(c) ==
  /\ cl[c] = "out" /\ ~down /\ \A d \in 1..(c - 1) : cl[d] # "out"
  /\ cl' = [cl EXCEPT ![c] = "idle"]
  /\ backlog' = Append(backlog, c)
  /\ UNCHANGED <<sent, asked, described, believes, erred, sock, toServer, toClient, serverVars>>

\* The client's end of the socket is closed, and with it what was on its way.
Gone(c) ==
  /\ cl' = [cl EXCEPT ![c] = "gone"]
  /\ described' = [described EXCEPT ![c] = FALSE] /\ asked' = [asked EXCEPT ![c] = NoQuery]
  /\ believes' = [believes EXCEPT ![c] = FALSE] /\ erred' = [erred EXCEPT ![c] = FALSE]
  /\ sent' = [sent EXCEPT ![c] = 0]
  /\ toClient' = [toClient EXCEPT ![c] = <<>>]
  /\ UNCHANGED <<backlog, sock, toServer, serverVars>>

\* The loop of main: the next line is sent. A send to a server that is gone is an
\* uncaught exception, or SIGPIPE.
SendQuery(c, q) ==
  /\ cl[c] = "idle" /\ sent[c] < MaxQueries
  /\ IF down
       THEN Gone(c)
       ELSE /\ cl' = [cl EXCEPT ![c] = "waiting"]
            /\ sent' = [sent EXCEPT ![c] = @ + 1]
            /\ asked' = [asked EXCEPT ![c] = q]
            /\ toServer' = [toServer EXCEPT ![c] = Append(@, q)]
            /\ UNCHANGED <<described, believes, erred, backlog, sock, toClient, serverVars>>

\* handleResponse: the first CommandComplete or ErrorResponse is the answer, a row
\* without a descriptor is an exception.
HandleResponse(c) ==
  /\ cl[c] = "waiting" /\ toClient[c] # <<>>
  /\ toClient' = [toClient EXCEPT ![c] = Tail(@)]
  /\ LET p == Head(toClient[c]) IN
     /\ cl' = [cl EXCEPT ![c] = IF Final(p) THEN "idle"
                                ELSE IF p.type = "DataRow" /\ ~described[c] THEN "broken"
                                ELSE @]
     /\ described' = [described EXCEPT ![c] = ~Final(p) /\ (@ \/ p.type = "TupleDescription")]
     /\ asked' = [asked EXCEPT ![c] = IF Final(p) THEN NoQuery ELSE @]
     /\ believes' = [believes EXCEPT ![c] = CASE p.tag = "begin" -> TRUE
                                              [] p.tag \in {"commit", "rollback"} -> FALSE
                                              [] OTHER -> @]
     /\ erred' = [erred EXCEPT ![c] = p.tag \notin Tcl /\ believes[c] /\ (@ \/ p = Error)]
  /\ UNCHANGED <<sent, backlog, sock, toServer, serverVars>>

\* The stream ends while the client waits.
ConnectionLost(c) ==
  cl[c] = "waiting" /\ toClient[c] = <<>> /\ sock[c] = "closed" /\ Gone(c)

\* End of input, \q, an interrupt, in any state.
Leave(c) == cl[c] \in {"idle", "waiting"} /\ Gone(c)

-----------------------------------------------------------------------------
(* The master                                                               *)

Free == {w \in Workers : ~busy[w]}

\* StartNewSession gives the connection to the first worker that is not busy.
\* When there is none it returns false, which main_loop ignores: the socket stays
\* open and nobody ever reads it. Submit waits for the previous thread, which has
\* nothing left to do; a new thread has no MyTransaction.
StartNewSession ==
  /\ backlog # <<>>
  /\ backlog' = Tail(backlog)
  /\ LET c == Head(backlog) IN
     IF Free = {}
       THEN sock' = [sock EXCEPT ![c] = "leaked"] /\ UNCHANGED <<busy, serves, at>>
       ELSE LET w == CHOOSE f \in Free : \A g \in Free : f <= g IN
            /\ sock' = [sock EXCEPT ![c] = "open"]
            /\ busy' = [busy EXCEPT ![w] = TRUE]
            /\ serves' = [serves EXCEPT ![w] = c]
            /\ at' = [at EXCEPT ![w] = "read"]
  /\ UNCHANGED <<clientVars, toServer, toClient, query, rows, implicit, waits, transVars, down, stuck>>

\* accept fails, or was interrupted by SIGINT: main_loop and main return.
StopServer == ~down /\ ProcessEnds /\ UNCHANGED <<clientVars, toClient>>

-----------------------------------------------------------------------------
(* Transactions (TransactionManager)                                        *)

\* BeginNewTransaction: whatever is in the worker's slot is overwritten. The number
\* of a transaction that nobody can refer to any more is used again.
Begin(w) ==
  LET x == CHOOSE n \in 1..(2 * NumWorkers + Cardinality(open)) :
             /\ n \notin open /\ \A v \in Workers : waits[v] # n
             /\ \A k \in 1..(n - 1) : k \in open \/ \E v \in Workers : waits[v] = k IN
  /\ slot' = [slot EXCEPT ![w] = x] /\ my' = [my EXCEPT ![w] = x]
  /\ open' = open \union {x} /\ aborted' = aborted \ {x}
  /\ UNCHANGED wrote

\* The end of the transaction in the worker's slot, whoever began it.
EndTransaction(w) ==
  /\ open' = open \ {slot[w]} /\ wrote' = wrote \ {slot[w]}
  /\ slot' = [slot EXCEPT ![w] = NoXid] /\ my' = [my EXCEPT ![w] = NoXid]

CommitTransaction(w) == EndTransaction(w) /\ UNCHANGED aborted

\* Once the changes are undone.
AbortTransaction(w) ==
  /\ EndTransaction(w)
  /\ aborted' = IF \E v \in Workers : waits[v] = slot[w] THEN aborted \union {slot[w]} ELSE aborted

-----------------------------------------------------------------------------
(* The worker's thread                                                      *)

Goto(w, to) == at' = [at EXCEPT ![w] = to]

\* SendPacket. That the client has left may go unnoticed or make send fail.
Send(w, p, sentTo, failedTo) ==
  LET c == serves[w] IN
  IF cl[c] = "gone"
    THEN (\E to \in {sentTo, failedTo} : Goto(w, to)) /\ UNCHANGED toClient
    ELSE Goto(w, sentTo) /\ toClient' = [toClient EXCEPT ![c] = Append(@, p)]

\* handle_loop: the next packet. A client that has left with something unread
\* resets the connection, so what it sent may be lost.
ReadNextPacket(w) ==
  /\ at[w] = "read"
  /\ LET c == serves[w] IN
     /\ toServer[c] # <<>>
     /\ toServer' = [toServer EXCEPT ![c] = Tail(@)]
     /\ query' = [query EXCEPT ![w] = Head(toServer[c])]
     /\ Goto(w, IF Head(toServer[c]) = "packet" THEN "refuse" ELSE "run")
  /\ UNCHANGED <<clientVars, backlog, sock, toClient, busy, serves, rows, implicit, waits, transVars, down, stuck>>

\* The stream ends, or fails.
StreamEnds(w) ==
  /\ at[w] = "read" /\ cl[serves[w]] = "gone" /\ Goto(w, "end")
  /\ UNCHANGED <<clientVars, netVars, busy, serves, query, rows, implicit, waits, transVars, down, stuck>>

\* Not a Query packet: the error is sent outside of the try block.
RefusePacket(w) ==
  /\ at[w] = "refuse"
  /\ Send(w, Error, "read", "end")
  /\ query' = [query EXCEPT ![w] = NoQuery]
  /\ UNCHANGED <<clientVars, backlog, sock, toServer, busy, serves, rows, implicit, waits, transVars, down, stuck>>

\* ParseStatement throws.
ParseFails(w) ==
  /\ at[w] = "run" /\ query[w] = "bad" /\ Goto(w, "catch")
  /\ UNCHANGED <<clientVars, netVars, busy, serves, query, rows, implicit, waits, transVars, down, stuck>>

\* Plan throws for everything that is not a plain statement on the one table, before
\* a transaction is begun for it.
PlanFails(w) ==
  /\ at[w] = "run" /\ query[w] \in Plannable /\ Goto(w, "catch")
  /\ UNCHANGED <<clientVars, netVars, busy, serves, query, rows, implicit, waits, transVars, down, stuck>>

HandleBegin(w) ==
  /\ at[w] = "run" /\ query[w] = "begin" /\ Goto(w, "answer")
  /\ IF my[w] # NoXid THEN UNCHANGED transVars ELSE Begin(w)
  /\ UNCHANGED <<clientVars, netVars, busy, serves, query, rows, implicit, waits, down, stuck>>

\* COMMIT does not look at MyTransaction.
HandleCommit(w) ==
  /\ at[w] = "run" /\ query[w] = "commit" /\ Goto(w, "answer")
  /\ slot[w] # NoXid /\ CommitTransaction(w)
  /\ UNCHANGED <<clientVars, netVars, busy, serves, query, rows, implicit, waits, down, stuck>>

\* ROLLBACK throws without a transaction, and when the undo log cannot be applied.
HandleRollback(w) ==
  /\ at[w] = "run" /\ query[w] = "rollback"
  /\ \/ my[w] # NoXid /\ AbortTransaction(w) /\ Goto(w, "answer")
     \/ my[w] \in wrote \union {NoXid} /\ UNCHANGED transVars /\ Goto(w, "catch")
  /\ UNCHANGED <<clientVars, netVars, busy, serves, query, rows, implicit, waits, down, stuck>>

\* The guard begins a transaction if there is none.
ImplicitTransactionGuard(w) ==
  /\ implicit' = [implicit EXCEPT ![w] = my[w] = NoXid]
  /\ IF my[w] = NoXid THEN Begin(w) ELSE UNCHANGED transVars

\* exec_plannable_query. Only a SELECT has a descriptor to send.
BeginStatement(w) ==
  /\ at[w] = "run" /\ query[w] \in Plannable
  /\ Goto(w, IF query[w] = "select" THEN "describe" ELSE "execute")
  /\ ImplicitTransactionGuard(w)
  /\ UNCHANGED <<clientVars, netVars, busy, serves, query, rows, waits, down, stuck>>

SendTupleDescriptor(w) ==
  /\ at[w] = "describe"
  /\ Send(w, Packet("TupleDescription", NoQuery), "execute", "unwind")
  /\ UNCHANGED <<clientVars, backlog, sock, toServer, busy, serves, query, rows, implicit, waits, transVars, down, stuck>>

SendTuple(w) ==
  /\ at[w] = "execute" /\ query[w] = "select" /\ rows[w] < MaxRows
  /\ rows' = [rows EXCEPT ![w] = @ + 1]
  /\ Send(w, Packet("DataRow", NoQuery), "execute", "unwind")
  /\ UNCHANGED <<clientVars, backlog, sock, toServer, busy, serves, query, implicit, waits, transVars, down, stuck>>

\* One of the rows that everybody changes, found free or waited for.
ChangeRow(w) ==
  /\ at[w] = "execute" /\ query[w] = "dml" /\ rows[w] < MaxRows
  /\ rows' = [rows EXCEPT ![w] = @ + 1]
  /\ wrote' = wrote \union {my[w]}
  /\ UNCHANGED <<clientVars, netVars, busy, serves, at, query, implicit, waits, my, slot, open, aborted, down, stuck>>

\* wait_tnx_end of a transaction in progress. If its worker has begun another one
\* since, WaitTransactionEnd returns at once, and the status is found invalid.
WaitTransaction(w, x) ==
  /\ at[w] = "execute" /\ query[w] = "dml" /\ rows[w] < MaxRows /\ x # my[w]
  /\ IF \E v \in Workers : slot[v] = x
       THEN Goto(w, "wait") /\ waits' = [waits EXCEPT ![w] = x]
       ELSE Goto(w, "unwind") /\ UNCHANGED waits
  /\ UNCHANGED <<clientVars, netVars, busy, serves, query, rows, implicit, transVars, down, stuck>>

\* Mutant: a rollback does not wake those who wait for it.
WaitOverCommitted(w) ==
  /\ at[w] = "wait" /\ waits[w] \notin open \union aborted
  /\ Goto(w, "unwind")
  /\ waits' = [waits EXCEPT ![w] = NoXid]
  /\ UNCHANGED <<clientVars, netVars, busy, serves, query, rows, implicit, transVars, down, stuck>>

\* After the wait: changes undone, or a concurrent modification.
WaitOver(w) ==
  /\ at[w] = "wait" /\ waits[w] \notin open
  /\ Goto(w, IF waits[w] \in aborted THEN "execute" ELSE "unwind")
  /\ waits' = [waits EXCEPT ![w] = NoXid]
  /\ UNCHANGED <<clientVars, netVars, busy, serves, query, rows, implicit, transVars, down, stuck>>

\* The plan node has no more rows, or throws: an I/O error, an expression, no room.
ExecuteEnds(w) ==
  /\ at[w] = "execute" /\ \E to \in {"answer", "unwind"} : Goto(w, to)
  /\ rows' = [rows EXCEPT ![w] = 0]
  /\ UNCHANGED <<clientVars, netVars, busy, serves, query, implicit, waits, transVars, down, stuck>>

\* SendCommandComplete, or SendError of a statement nobody executes, inside the try
\* block. A plannable statement is answered before it is committed.
Answer(w) ==
  /\ at[w] = "answer" \/ (at[w] = "run" /\ query[w] = "other")
  /\ Send(w, IF query[w] = "other" THEN Error ELSE Complete(query[w]),
          IF query[w] \in Plannable THEN "commit" ELSE "read", "unwind")
  /\ query' = [query EXCEPT ![w] = NoQuery]
  /\ UNCHANGED <<clientVars, backlog, sock, toServer, busy, serves, rows, implicit, waits, transVars, down, stuck>>

\* Mutant: committing the statement can fail, after it was answered.
CommitStatementThrows(w) ==
  /\ at[w] = "commit"
  /\ \/ implicit[w] /\ CommitTransaction(w) /\ Goto(w, "read")
     \/ implicit[w] /\ UNCHANGED transVars /\ Goto(w, "unwind")
     \/ ~implicit[w] /\ UNCHANGED transVars /\ Goto(w, "read")
  /\ implicit' = [implicit EXCEPT ![w] = FALSE]
  /\ UNCHANGED <<clientVars, netVars, busy, serves, query, rows, waits, down, stuck>>

\* ImplicitTransactionGuard::Commit.
CommitStatement(w) ==
  /\ at[w] = "commit" /\ Goto(w, "read")
  /\ IF implicit[w] THEN CommitTransaction(w) ELSE UNCHANGED transVars
  /\ implicit' = [implicit EXCEPT ![w] = FALSE]
  /\ UNCHANGED <<clientVars, netVars, busy, serves, query, rows, waits, down, stuck>>

\* Mutant: an exception leaves the implicit transaction behind.
UnwindKeeps(w) ==
  /\ at[w] = "unwind" /\ Goto(w, "catch")
  /\ UNCHANGED transVars
  /\ implicit' = [implicit EXCEPT ![w] = FALSE]
  /\ UNCHANGED <<clientVars, netVars, busy, serves, query, rows, waits, down, stuck>>

\* An exception leaves exec_*_query: ~ImplicitTransactionGuard aborts an implicit
\* transaction.
Unwind(w) ==
  /\ at[w] = "unwind" /\ Goto(w, "catch")
  /\ IF implicit[w] THEN AbortTransaction(w) ELSE UNCHANGED transVars
  /\ implicit' = [implicit EXCEPT ![w] = FALSE]
  /\ UNCHANGED <<clientVars, netVars, busy, serves, query, rows, waits, down, stuck>>

\* The catch block answers with the error. It marks an explicit transaction as
\* aborted, but nothing looks at the mark: the transaction stays as it is.
SendError(w) ==
  /\ at[w] = "catch"
  /\ Send(w, Error, "read", "end")
  /\ query' = [query EXCEPT ![w] = NoQuery]
  /\ UNCHANGED <<clientVars, backlog, sock, toServer, busy, serves, rows, implicit, waits, transVars, down, stuck>>

\* HandleUserConnectionGuts: ~SocketServer closes the socket, the worker marks
\* itself free and its thread ends. An open transaction stays in the slot.
EndSession(w) ==
  /\ at[w] = "end" /\ Goto(w, "none")
  /\ sock' = [sock EXCEPT ![serves[w]] = "closed"]
  /\ toServer' = [toServer EXCEPT ![serves[w]] = <<>>]
  /\ busy' = [busy EXCEPT ![w] = FALSE]
  /\ serves' = [serves EXCEPT ![w] = NoClient]
  /\ my' = [my EXCEPT ![w] = NoXid]
  /\ UNCHANGED <<clientVars, backlog, toClient, query, rows, implicit, waits, slot, open, aborted, wrote, down, stuck>>

-----------------------------------------------------------------------------
(* What ends the whole process                                              *)

Sending(w) ==
  \/ at[w] \in {"refuse", "describe", "answer", "catch"}
  \/ at[w] = "run" /\ query[w] = "other"
  \/ at[w] = "execute" /\ query[w] = "select" /\ rows[w] < MaxRows

\* send to a connection that the client has reset: SIGPIPE is neither ignored nor
\* suppressed.
SigPipe(w) ==
  /\ Sending(w) /\ cl[serves[w]] = "gone"
  /\ ProcessEnds /\ UNCHANGED <<clientVars, toClient>>

\* COMMIT without a transaction in the slot dereferences a null pointer.
CommitNothing(w) ==
  /\ at[w] = "run" /\ query[w] = "commit" /\ slot[w] = NoXid
  /\ ProcessEnds /\ UNCHANGED <<clientVars, toClient>>

\* Undoing the changes throws in the destructor of the guard: std::terminate.
UndoThrows(w) ==
  /\ at[w] = "unwind" /\ implicit[w] /\ my[w] \in wrote
  /\ ProcessEnds /\ UNCHANGED <<clientVars, toClient>>

Execute(w) ==
  \/ HandleBegin(w) \/ HandleCommit(w) \/ HandleRollback(w) \/ BeginStatement(w) \/ ParseFails(w) \/ PlanFails(w)
  \/ SendTupleDescriptor(w) \/ SendTuple(w) \/ ChangeRow(w) \/ (\E x \in wrote : WaitTransaction(w, x))
  \/ WaitOver(w) \/ ExecuteEnds(w) \/ Answer(w)
  \/ CommitStatement(w) \/ Unwind(w) \/ SendError(w)

Thread(w) ==
  /\ w \notin stuck
  /\ \/ ReadNextPacket(w) \/ StreamEnds(w) \/ RefusePacket(w) \/ Execute(w) \/ EndSession(w)
     \/ SigPipe(w) \/ CommitNothing(w) \/ UndoThrows(w)

-----------------------------------------------------------------------------
(* What stops a thread for ever                                             *)

\* Where a thread takes latches, the transaction manager's or those of pages.
Latching(w) ==
  \/ at[w] = "run" /\ query[w] \in Tcl \union Plannable
  \/ at[w] \in {"execute", "wait"}
  \/ at[w] \in {"commit", "unwind"} /\ implicit[w]

\* A latch that never comes: a reader leaked the mutex (TransactionManager.cpp:34), a
\* wakeup was lost (LWLatch.cpp:230), or the thread keeps the page's latch itself
\* (HeapTable.cpp:234). Its transaction stays open, and its worker busy.
Stall(w) ==
  /\ w \notin stuck /\ Latching(w) /\ Cardinality(stuck) < MaxStuck
  /\ stuck' = stuck \union {w}
  /\ UNCHANGED <<clientVars, netVars, threadVars, transVars, down>>

Receive(c) == HandleResponse(c) \/ ConnectionLost(c)

Next ==
  \/ \E c \in Clients :
       Connect(c) \/ (\E q \in Kinds[c] : SendQuery(c, q)) \/ Receive(c) \/ Leave(c)
  \/ StartNewSession \/ StopServer
  \/ \E w \in Workers : Thread(w) \/ Stall(w)

Spec == Init /\ [][Next]_vars

\* The threads of the server and the clients that wait for an answer are
\* scheduled; nobody has to send, leave or stop. A thread that is stuck takes no step,
\* nor does worker 0, which is the master's.
FairSpec ==
  /\ Spec
  /\ WF_vars(StartNewSession)
  /\ \A w \in Workers \ {0} : WF_vars(Thread(w))
  /\ \A c \in Clients : WF_vars(Receive(c))

-----------------------------------------------------------------------------
(* Properties                                                               *)

\* The worker whose thread serves a client.
Serving(c) == {w \in Workers : serves[w] = c}

\* What a client has coming to it: a final packet that is on its way or that its
\* worker has still to send, for a query that was or was not yet read.
AnswersDue(c) ==
  Cardinality({i \in DOMAIN toClient[c] : Final(toClient[c][i])}) + Len(toServer[c])
  + Cardinality({w \in Serving(c) : at[w] \notin {"read", "commit", "end"}})

\* Client and server stay in step (handleResponse takes the first final packet for
\* the answer): while a client waits, exactly one final packet is due, it is the
\* last one on its way and answers the query that was asked; while it does not wait,
\* none is, so no packet of an earlier query can be taken for a later one's. No row
\* arrives without its descriptor. Whatever fails, before or after rows were sent.
InStep ==
  ~down => \A c \in Clients :
    /\ cl[c] # "broken"
    /\ cl[c] = "waiting" => AnswersDue(c) = 1
    /\ cl[c] \in {"out", "idle"} => AnswersDue(c) = 0
    /\ cl[c] = "waiting" =>
         \A i \in 1..Len(toClient[c]) : Final(toClient[c][i]) =>
           i = Len(toClient[c]) /\ toClient[c][i].tag \in {asked[c], NoQuery}

\* Between two queries the thread is in a transaction only if its client was told so by
\* an answered BEGIN, and out of one that its client was told of only after an error:
\* implicit transactions, repeated BEGIN and failed COMMIT and ROLLBACK included. It is
\* the transaction of the worker's slot, and open. Whether an error ends an explicit
\* transaction, as Handler.cpp:325 says, is left open.
TransactionAgrees ==
  ~down => \A w \in Workers :
    /\ at[w] = "read" /\ cl[serves[w]] = "idle" =>
         /\ my[w] # NoXid => believes[serves[w]]
         /\ believes[serves[w]] => my[w] # NoXid \/ erred[serves[w]]
    /\ my[w] # NoXid => my[w] = slot[w] /\ my[w] \in open
    /\ at[w] \in {"read", "catch"} => ~implicit[w]

\* The client's socket was accepted and forgotten.
Refused(c) == sock[c] = "leaked"

\* The client's statement waits for a transaction that is still open.
Blocked(c) == \E w \in Serving(c) : at[w] = "wait" /\ waits[w] \in open

\* The client's thread waits for a latch that never comes.
Stuck(c) == Serving(c) \cap stuck # {}

\* A client does not wait for ever: its query is answered or the connection ends,
\* unless it was refused for lack of a worker, its statement is held up for ever by
\* a transaction that never ends, or its thread is stuck on a latch. The end of the
\* server is noticed too.
Answered ==
  \A c \in Clients :
    []<>(cl[c] # "waiting") \/ <>[](~down /\ (Refused(c) \/ Blocked(c) \/ Stuck(c)))
=============================================================================
