---------------------------- MODULE SessionsProofs ----------------------------
(***************************************************************************)
(* Client and server stay in step, and agree on whether there is a         *)
(* transaction: InStep and TransactionAgrees for every number of clients,  *)
(* workers, queries and rows.                                              *)
(***************************************************************************)
EXTENDS Sessions, FiniteSetTheorems, SequenceTheorems, WellFoundedInduction, TLAPS

-----------------------------------------------------------------------------
(* The inductive invariant                                                  *)

AtWork == {"run", "refuse", "describe", "execute", "wait", "answer", "unwind", "catch"}
Between == {"read", "commit"}
Packets == [type : {"TupleDescription", "DataRow", "ErrorResponse"}, tag : {NoQuery}]
           \union [type : {"CommandComplete"}, tag : AllKinds \union {NoQuery}]

SessionTypes ==
  /\ cl \in [Clients -> {"out", "idle", "waiting", "broken", "gone"}]
  /\ sent \in [Clients -> Nat] /\ asked \in [Clients -> AllKinds \union {NoQuery}]
  /\ described \in [Clients -> BOOLEAN] /\ believes \in [Clients -> BOOLEAN]
  /\ backlog \in Seq(Clients) /\ sock \in [Clients -> {"none", "open", "leaked", "closed"}]
  /\ toServer \in [Clients -> Seq(AllKinds)] /\ toClient \in [Clients -> Seq(Packets)]
  /\ busy \in [Workers -> BOOLEAN] /\ serves \in [Workers -> Clients \union {NoClient}]
  /\ at \in [Workers -> AtWork \union Between \union {"none", "end"}]
  /\ query \in [Workers -> AllKinds \union {NoQuery}] /\ rows \in [Workers -> Nat]
  /\ implicit \in [Workers -> BOOLEAN] /\ waits \in [Workers -> Nat]
  /\ my \in [Workers -> Nat] /\ slot \in [Workers -> Nat]
  /\ open \subseteq Nat /\ IsFiniteSet(open) /\ wrote \subseteq Nat
  /\ down \in BOOLEAN
  /\ \A w \in Workers : at[w] # "none" => serves[w] \in Clients

\* Who serves whom. A client is served by one worker at most, and not while its
\* connection waits to be accepted; a session ends only when its client has left.
Wiring ==
  /\ \A v, w \in Workers : serves[v] = serves[w] /\ serves[v] # NoClient => v = w
  /\ \A w \in Workers : at[w] = "none" <=> serves[w] = NoClient
  /\ \A w \in Workers : ~busy[w] => at[w] = "none"
  /\ \A w \in Workers : at[w] = "end" => cl[serves[w]] = "gone"
  /\ \A i \in DOMAIN backlog : /\ cl[backlog[i]] # "out"
                               /\ \A w \in Workers : serves[w] # backlog[i]
                               /\ \A j \in DOMAIN backlog : backlog[i] = backlog[j] => i = j
  /\ \A w \in Workers : at[w] # "none" => cl[serves[w]] # "out"

\* The transaction of a thread is the one in its worker's slot, and no two slots
\* hold the same one.
Slots ==
  /\ \A w \in Workers : my[w] # NoXid => my[w] = slot[w]
  /\ \A w \in Workers : slot[w] # NoXid => slot[w] \in open
  /\ \A v, w \in Workers : slot[v] = slot[w] /\ slot[v] # NoXid => v = w

\* Where a thread can be with which query, and where the guard of an implicit
\* transaction is alive.
ThreadOk(w) ==
  /\ at[w] = "none" => my[w] = NoXid
  /\ at[w] = "describe" => query[w] = "select"
  /\ at[w] = "execute" => query[w] \in Plannable
  /\ at[w] = "wait" => query[w] = "dml"
  /\ at[w] = "answer" => query[w] \in Tcl \union Plannable
  /\ implicit[w] =>
       /\ my[w] # NoXid
       /\ \/ at[w] \in {"describe", "execute", "wait", "commit", "unwind"}
          \/ at[w] = "answer" /\ query[w] \in Plannable

Threads == \A w \in Workers : ThreadOk(w)

\* The thread is in a transaction that its client began.
Explicit(w) == my[w] # NoXid /\ ~implicit[w]

\* What a client believes once it has received a packet with a tag.
WillBelieve(tag, b) == IF tag = "begin" THEN TRUE ELSE IF tag \in {"commit", "rollback"} THEN FALSE ELSE b

Settled(c) == \A w \in Workers : serves[w] = c => at[w] \in Between /\ believes[c] = Explicit(w)
Described(c) == described[c] \/ \E i \in DOMAIN toClient[c] : toClient[c][i].type = "TupleDescription"

\* The client has no query under way.
Resting(c) ==
  /\ cl[c] \in {"out", "idle"}
  /\ toServer[c] = <<>> /\ toClient[c] = <<>> /\ ~described[c] /\ Settled(c)

\* The query was sent and not yet read.
Asking(c) ==
  /\ cl[c] = "waiting"
  /\ toServer[c] = <<asked[c]>> /\ toClient[c] = <<>> /\ ~described[c] /\ Settled(c)

\* A thread executes the query: its answer is not yet under way.
Working(c) ==
  /\ cl[c] = "waiting" /\ toServer[c] = <<>>
  /\ \A i \in DOMAIN toClient[c] : ~Final(toClient[c][i])
  /\ \E w \in Workers :
       /\ serves[w] = c /\ at[w] \in AtWork /\ query[w] = asked[c]
       /\ WillBelieve(IF at[w] = "answer" THEN query[w] ELSE NoQuery, believes[c]) = Explicit(w)
       /\ at[w] = "execute" /\ query[w] = "select" => Described(c)

\* The answer is under way, behind the rows; the thread has done with the query.
Answering(c) ==
  LET s == toClient[c] IN
  /\ cl[c] = "waiting" /\ toServer[c] = <<>> /\ s # <<>>
  /\ \A i \in DOMAIN s : Final(s[i]) <=> i = Len(s)
  /\ s[Len(s)].tag \in {asked[c], NoQuery}
  /\ \E w \in Workers : serves[w] = c /\ at[w] \in Between
                        /\ WillBelieve(s[Len(s)].tag, believes[c]) = Explicit(w)

RowsDescribed(c) ==
  \A i \in DOMAIN toClient[c] : toClient[c][i].type = "DataRow" =>
    described[c] \/ \E j \in 1..(i - 1) : toClient[c][j].type = "TupleDescription"

Dialogue(c) ==
  \/ cl[c] = "gone"
  \/ /\ RowsDescribed(c)
     /\ (\A w \in Workers : serves[w] # c) => ~believes[c]
     /\ Resting(c) \/ Asking(c) \/ Working(c) \/ Answering(c)

SessionInv ==
  /\ SessionTypes
  /\ ~down => Wiring /\ Slots /\ Threads /\ \A c \in Clients : Dialogue(c)

-----------------------------------------------------------------------------
(* Natural numbers                                                          *)

\* The order of the naturals as a relation.
LEMMA LessRelation == \A x, y \in Nat : <<y, x>> \in OpToRel(<, Nat) <=> y < x
<1>. SUFFICES ASSUME NEW x \in Nat, NEW y \in Nat PROVE <<y, x>> \in OpToRel(<, Nat) <=> y < x
  BY Zenon
<1>1. <<y, x>> \in Nat \X Nat /\ <<y, x>>[1] = y /\ <<y, x>>[2] = x
  OBVIOUS
<1>2. <<y, x>> \in OpToRel(<, Nat) <=> <<y, x>>[1] < <<y, x>>[2]
  BY <1>1, Zenon DEF OpToRel
<1>. QED
  BY <1>1, <1>2, Zenon

\* A set of naturals that is not empty has a least element.
LEMMA LeastNatural ==
  ASSUME NEW T, T \subseteq Nat, T # {}
  PROVE  \E x \in T : \A y \in T : x <= y
<1>1. IsWellFoundedOn(OpToRel(<, Nat), Nat)
  BY NatLessThanWellFounded, Zenon
<1>2. PICK x \in T : \A y \in T : <<y, x>> \notin OpToRel(<, Nat)
  BY <1>1, WFMin, Zenon
<1>3. \A y \in T : ~(y < x)
  BY <1>2, LessRelation, Zenon
<1>. QED
  BY <1>3, SMT

\* StartNewSession takes a worker that is free.
LEMMA FirstFree ==
  ASSUME Free # {}
  PROVE  (CHOOSE f \in Free : \A g \in Free : f <= g) \in Free
<1>1. Free \subseteq Nat
  BY SessionsAssumption DEF Free, Workers
<1>2. \E f \in Free : \A g \in Free : f <= g
  BY <1>1, LeastNatural
<1>. QED
  BY <1>2

\* Begin finds a number that no open transaction has.
LEMMA BeginFinds ==
  ASSUME SessionTypes, NEW w \in Workers, Begin(w)
  PROVE  \E x \in Nat \ {0} : /\ x \notin open
                              /\ slot' = [slot EXCEPT ![w] = x] /\ my' = [my EXCEPT ![w] = x]
                              /\ open' = open \union {x} /\ wrote' = wrote
<1>. DEFINE Awaited == {waits[v] : v \in Workers}
            Taken == open \union Awaited
            bound == 2 * NumWorkers + Cardinality(open)
            Good(n) == /\ n \notin open /\ \A v \in Workers : waits[v] # n
                       /\ \A k \in 1..(n - 1) : k \in open \/ \E v \in Workers : waits[v] = k
            x == CHOOSE n \in 1..bound : Good(n)
<1>1. NumWorkers \in Nat /\ NumWorkers > 0 /\ Cardinality(open) \in Nat
  BY SessionsAssumption, FS_CardinalityType DEF SessionTypes
<1>2. IsFiniteSet(Workers) /\ Cardinality(Workers) = NumWorkers
  <2>1. NumWorkers - 1 \in Int /\ ~(0 > NumWorkers - 1) /\ NumWorkers - 1 - 0 + 1 = NumWorkers
    BY <1>1
  <2>2. /\ IsFiniteSet(0..(NumWorkers - 1))
        /\ Cardinality(0..(NumWorkers - 1)) = IF 0 > NumWorkers - 1 THEN 0 ELSE NumWorkers - 1 - 0 + 1
    BY <2>1, FS_Interval
  <2>. QED
    BY <2>1, <2>2 DEF Workers
<1>3. waits \in Surjection(Workers, Awaited)
  BY DEF Surjection, SessionTypes
<1>4. IsFiniteSet(Awaited) /\ Cardinality(Awaited) <= NumWorkers /\ Cardinality(Awaited) \in Nat
  BY <1>2, <1>3, FS_Surjection, FS_CardinalityType
<1>5. IsFiniteSet(Taken) /\ Cardinality(Taken) <= NumWorkers + Cardinality(open) /\ Cardinality(Taken) \in Nat
  <2>1. /\ IsFiniteSet(Taken)
        /\ Cardinality(Taken) = Cardinality(open) + Cardinality(Awaited) - Cardinality(open \cap Awaited)
    BY <1>4, FS_Union DEF SessionTypes
  <2>2. Cardinality(open \cap Awaited) \in Nat
    BY FS_Intersection, FS_CardinalityType DEF SessionTypes
  <2>3. Cardinality(Taken) \in Nat
    BY <2>1, FS_CardinalityType
  <2>. QED
    BY <2>1, <2>2, <2>3, <1>1, <1>4
<1>6. bound \in Nat /\ IsFiniteSet(1..bound) /\ Cardinality(1..bound) = bound
  <2>1. bound \in Nat /\ bound > 0
    BY <1>1
  <2>. QED
    BY <2>1, FS_Interval
<1>7. ~(1..bound \subseteq Taken)
  <2>1. SUFFICES ASSUME 1..bound \subseteq Taken PROVE FALSE
    OBVIOUS
  <2>2. Cardinality(1..bound) <= Cardinality(Taken)
    BY <2>1, <1>5, FS_Subset
  <2>. QED
    BY <2>2, <1>1, <1>5, <1>6
<1>8. \E n \in 1..bound : Good(n)
  <2>. DEFINE T == (1..bound) \ Taken
  <2>1. T \subseteq Nat /\ T # {}
    BY <1>6, <1>7
  <2>2. PICK n \in T : \A m \in T : n <= m
    BY <2>1, LeastNatural
  <2>3. \A k \in 1..(n - 1) : k \in Taken
    BY <2>2, <1>6
  <2>. QED
    BY <2>2, <2>3
<1>9. x \in 1..bound /\ Good(x)
  BY <1>8
<1>10. x \in Nat \ {0} /\ x \notin open
  BY <1>9, <1>6
<1>11. /\ slot' = [slot EXCEPT ![w] = x] /\ my' = [my EXCEPT ![w] = x]
       /\ open' = open \union {x} /\ wrote' = wrote
  BY Zenon DEF Begin
<1>. QED
  BY <1>10, <1>11

-----------------------------------------------------------------------------
(* Types                                                                    *)

\* The packets that the server sends are packets.
LEMMA PacketsSent ==
  /\ Error \in Packets /\ \A q \in AllKinds \union {NoQuery} : Complete(q) \in Packets
  /\ Packet("TupleDescription", NoQuery) \in Packets /\ Packet("DataRow", NoQuery) \in Packets
BY DEF Error, Complete, Packet, Packets

\* What Send does to the place of the thread and to the packets on their way.
LEMMA SendTypes ==
  ASSUME SessionTypes, NEW w \in Workers, at[w] # "none", NEW p \in Packets,
         NEW s \in AtWork \union Between \union {"none", "end"},
         NEW f \in AtWork \union Between \union {"none", "end"}, Send(w, p, s, f)
  PROVE  /\ at' \in [Workers -> AtWork \union Between \union {"none", "end"}]
         /\ toClient' \in [Clients -> Seq(Packets)]
         /\ \A v \in Workers \ {w} : at'[v] = at[v]
<1>. USE DEF SessionTypes
<1>1. CASE cl[serves[w]] = "gone"
  <2>1. PICK to \in {s, f} : at' = [at EXCEPT ![w] = to]
    BY <1>1 DEF Send, Goto
  <2>2. toClient' = toClient
    BY <1>1 DEF Send
  <2>. QED
    BY <2>1, <2>2
<1>2. CASE cl[serves[w]] # "gone"
  <2>1. toClient[serves[w]] \in Seq(Packets)
    OBVIOUS
  <2>2. Append(toClient[serves[w]], p) \in Seq(Packets)
    BY <2>1
  <2>3. at' = [at EXCEPT ![w] = s] /\ toClient' = [toClient EXCEPT ![serves[w]] = Append(@, p)]
    BY <1>2 DEF Send, Goto
  <2>4. toClient' \in [Clients -> Seq(Packets)]
    BY <2>2, <2>3
  <2>5. /\ at' \in [Workers -> AtWork \union Between \union {"none", "end"}]
        /\ \A v \in Workers \ {w} : at'[v] = at[v]
    BY <2>3
  <2>. QED
    BY <2>4, <2>5
<1>. QED
  BY <1>1, <1>2

\* The types hold at the start.
LEMMA TypesInit == Init => SessionTypes
<1>. SUFFICES ASSUME Init PROVE SessionTypes
  OBVIOUS
<1>1. busy \in [Workers -> BOOLEAN]
  BY DEF Init
<1>2. <<>> \in Seq(Clients) /\ <<>> \in Seq(AllKinds) /\ <<>> \in Seq(Packets)
  OBVIOUS
<1>3. IsFiniteSet(open)
  BY FS_EmptySet DEF Init
<1>. QED
  BY <1>1, <1>2, <1>3 DEF Init, SessionTypes, NoQuery, NoXid, NoClient, AtWork, Between

\* The process ends: nothing is left that could have a wrong type.
LEMMA TypesProcessEnds ==
  ASSUME SessionTypes, ProcessEnds, UNCHANGED <<clientVars, toClient>> PROVE SessionTypes'
<1>2. <<>> \in Seq(Clients) /\ <<>> \in Seq(AllKinds)
  OBVIOUS
<1>3. IsFiniteSet(open')
  BY FS_EmptySet DEF ProcessEnds
<1>. QED
  BY <1>2, <1>3 DEF ProcessEnds, clientVars, SessionTypes, NoQuery, NoXid, NoClient, AtWork, Between

\* The clients and the master.
LEMMA TypesClients ==
  ASSUME SessionTypes, NEW c \in Clients,
         Connect(c) \/ (\E q \in Kinds[c] : SendQuery(c, q)) \/ Receive(c) \/ Leave(c)
  PROVE  SessionTypes'
<1>. USE DEF SessionTypes, serverVars, threadVars, transVars, netVars, clientVars
<1>1. CASE Gone(c)
  <2>1. <<>> \in Seq(Packets)
    OBVIOUS
  <2>. QED
    BY <1>1, <2>1 DEF Gone, NoQuery
<1>2. CASE Connect(c)
  <2>1. Append(backlog, c) \in Seq(Clients)
    OBVIOUS
  <2>. QED
    BY <1>2, <2>1 DEF Connect
<1>3. ASSUME NEW q \in Kinds[c], SendQuery(c, q), ~Gone(c) PROVE SessionTypes'
  <2>1. q \in AllKinds /\ toServer[c] \in Seq(AllKinds)
    BY SessionsAssumption
  <2>2. Append(toServer[c], q) \in Seq(AllKinds)
    BY <2>1
  <2>3. /\ cl' = [cl EXCEPT ![c] = "waiting"] /\ sent' = [sent EXCEPT ![c] = @ + 1]
        /\ asked' = [asked EXCEPT ![c] = q] /\ toServer' = [toServer EXCEPT ![c] = Append(@, q)]
        /\ UNCHANGED <<described, believes, erred, backlog, sock, toClient, serverVars>>
    BY <1>3, Zenon DEF SendQuery
  <2>4. toServer' \in [Clients -> Seq(AllKinds)]
    BY <2>2, <2>3
  <2>5. sent' \in [Clients -> Nat]
    BY <2>3
  <2>. QED
    BY <2>1, <2>3, <2>4, <2>5
<1>4. CASE HandleResponse(c)
  <2>1. toClient[c] \in Seq(Packets) /\ toClient[c] # <<>>
    BY <1>4 DEF HandleResponse
  <2>2. Tail(toClient[c]) \in Seq(Packets)
    BY <2>1
  <2>. DEFINE p == Head(toClient[c])
  <2>3. toClient' \in [Clients -> Seq(Packets)]
    BY <1>4, <2>2 DEF HandleResponse
  <2>4. described' \in [Clients -> BOOLEAN]
    BY <1>4 DEF HandleResponse
  <2>5. believes' \in [Clients -> BOOLEAN]
    <3>1. believes' = [believes EXCEPT ![c] = CASE p.tag = "begin" -> TRUE
                                              [] p.tag \in {"commit", "rollback"} -> FALSE
                                              [] OTHER -> @]
      BY <1>4 DEF HandleResponse
    <3>. QED
      BY <3>1
  <2>6. cl' \in [Clients -> {"out", "idle", "waiting", "broken", "gone"}]
    BY <1>4 DEF HandleResponse
  <2>7. asked' \in [Clients -> AllKinds \union {NoQuery}]
    BY <1>4 DEF HandleResponse
  <2>. QED
    BY <1>4, <2>3, <2>4, <2>5, <2>6, <2>7 DEF HandleResponse
<1>. QED
  BY <1>1, <1>2, <1>3, <1>4 DEF Receive, ConnectionLost, Leave, SendQuery

\* A new session.
LEMMA TypesStart ==
  ASSUME SessionTypes, StartNewSession PROVE SessionTypes'
<1>. USE DEF SessionTypes, transVars, clientVars
<1>1. Head(backlog) \in Clients /\ Tail(backlog) \in Seq(Clients)
  BY DEF StartNewSession
<1>2. CASE Free = {}
  BY <1>1, <1>2 DEF StartNewSession
<1>3. CASE Free # {}
  <2>. DEFINE w == CHOOSE f \in Free : \A g \in Free : f <= g
              c == Head(backlog)
  <2>1. w \in Workers
    BY <1>3, FirstFree DEF Free
  <2>2. /\ sock' = [sock EXCEPT ![c] = "open"] /\ busy' = [busy EXCEPT ![w] = TRUE]
        /\ serves' = [serves EXCEPT ![w] = c] /\ at' = [at EXCEPT ![w] = "read"]
    BY <1>3, Zenon DEF StartNewSession
  <2>. HIDE DEF w
  <2>. QED
    BY <1>1, <2>1, <2>2 DEF StartNewSession, Between
<1>. QED
  BY <1>2, <1>3

\* The end of a transaction.
LEMMA TypesEnd ==
  ASSUME SessionTypes, NEW w \in Workers, EndTransaction(w)
  PROVE  /\ my' \in [Workers -> Nat] /\ slot' \in [Workers -> Nat]
         /\ open' \subseteq Nat /\ IsFiniteSet(open') /\ wrote' \subseteq Nat
<1>1. IsFiniteSet(open \ {slot[w]})
  BY FS_RemoveElement DEF SessionTypes
<1>. QED
  BY <1>1 DEF EndTransaction, SessionTypes, NoXid

\* The begin of a transaction.
LEMMA TypesBegin ==
  ASSUME SessionTypes, NEW w \in Workers, Begin(w)
  PROVE  /\ my' \in [Workers -> Nat] /\ slot' \in [Workers -> Nat]
         /\ open' \subseteq Nat /\ IsFiniteSet(open') /\ wrote' \subseteq Nat
<1>1. PICK x \in Nat \ {0} : /\ x \notin open
                             /\ slot' = [slot EXCEPT ![w] = x] /\ my' = [my EXCEPT ![w] = x]
                             /\ open' = open \union {x} /\ wrote' = wrote
  BY BeginFinds
<1>2. IsFiniteSet(open \union {x})
  BY FS_AddElement DEF SessionTypes
<1>. QED
  BY <1>1, <1>2 DEF SessionTypes

\* The threads.
LEMMA TypesThread ==
  ASSUME SessionTypes, NEW w \in Workers, Thread(w) PROVE SessionTypes'
<1>. USE DEF SessionTypes, transVars, clientVars, netVars, Goto
<1>. DEFINE Places == AtWork \union Between \union {"none", "end"}
            TransTypes == /\ my \in [Workers -> Nat] /\ slot \in [Workers -> Nat]
                          /\ open \subseteq Nat /\ IsFiniteSet(open) /\ wrote \subseteq Nat
<1>0. /\ {"run", "refuse", "describe", "execute", "wait", "answer", "unwind", "catch", "read",
          "commit", "none", "end"} = Places
      /\ NoQuery \in AllKinds \union {NoQuery}
  BY DEF AtWork, Between
<1>1. CASE ReadNextPacket(w)
  <2>. DEFINE c == serves[w]
  <2>1. c \in Clients /\ toServer[c] \in Seq(AllKinds) /\ toServer[c] # <<>>
    BY <1>1 DEF ReadNextPacket
  <2>2. Head(toServer[c]) \in AllKinds /\ Tail(toServer[c]) \in Seq(AllKinds)
    BY <2>1
  <2>3. /\ toServer' = [toServer EXCEPT ![c] = Tail(@)]
        /\ query' = [query EXCEPT ![w] = Head(toServer[c])]
        /\ \E to \in Places : at' = [at EXCEPT ![w] = to]
    BY <1>1, <1>0 DEF ReadNextPacket
  <2>4. toServer' \in [Clients -> Seq(AllKinds)]
    BY <2>2, <2>3
  <2>5. query' \in [Workers -> AllKinds \union {NoQuery}]
    BY <2>2, <2>3
  <2>6. at' \in [Workers -> Places] /\ \A v \in Workers \ {w} : at'[v] = at[v]
    BY <2>3
  <2>. HIDE DEF Places, c
  <2>. QED
    BY <1>1, <2>1, <2>4, <2>5, <2>6 DEF ReadNextPacket, Places, c
<1>2. CASE StreamEnds(w)
  BY <1>0, <1>2 DEF StreamEnds
<1>3. CASE RefusePacket(w)
  <2>1. Send(w, Error, "read", "end") /\ at[w] # "none"
    BY <1>3 DEF RefusePacket
  <2>2. Error \in Packets /\ {"read", "end"} \subseteq Places
    BY <1>0, PacketsSent
  <2>. HIDE DEF Places
  <2>3. /\ at' \in [Workers -> Places] /\ toClient' \in [Clients -> Seq(Packets)]
        /\ \A v \in Workers \ {w} : at'[v] = at[v]
    BY <2>1, <2>2, SendTypes DEF Places
  <2>. QED
    BY <1>3, <2>1, <2>3 DEF RefusePacket, Places
<1>4. CASE ParseFails(w) \/ PlanFails(w)
  <2>1. /\ at' = [at EXCEPT ![w] = "catch"] /\ at[w] = "run"
        /\ UNCHANGED <<clientVars, netVars, busy, serves, query, rows, implicit, waits, transVars, down>>
    BY <1>4 DEF ParseFails, PlanFails
  <2>2. "catch" \in Places
    BY <1>0
  <2>. HIDE DEF Places
  <2>3. at' \in [Workers -> Places] /\ \A v \in Workers \ {w} : at'[v] = at[v]
    BY <2>1, <2>2 DEF Places
  <2>. QED
    BY <2>1, <2>3 DEF Places
<1>5. CASE HandleBegin(w)
  <2>1. TransTypes'
    BY <1>5, TypesBegin DEF HandleBegin
  <2>. QED
    BY <1>0, <1>5, <2>1 DEF HandleBegin
<1>6. CASE HandleCommit(w)
  <2>1. TransTypes'
    BY <1>6, TypesEnd DEF HandleCommit, CommitTransaction
  <2>. QED
    BY <1>0, <1>6, <2>1 DEF HandleCommit
<1>7. CASE HandleRollback(w)
  <2>1. TransTypes'
    BY <1>7, TypesEnd DEF HandleRollback, AbortTransaction
  <2>2. at' \in [Workers -> Places]
    BY <1>0, <1>7 DEF HandleRollback
  <2>3. at[w] # "none" /\ \A v \in Workers : v # w => at'[v] = at[v]
    BY <1>0, <1>7 DEF HandleRollback
  <2>. QED
    BY <1>7, <2>1, <2>2, <2>3 DEF HandleRollback
<1>8. CASE BeginStatement(w)
  <2>1. TransTypes'
    BY <1>8, TypesBegin DEF BeginStatement, ImplicitTransactionGuard
  <2>2. implicit' \in [Workers -> BOOLEAN]
    BY <1>8 DEF BeginStatement, ImplicitTransactionGuard
  <2>. QED
    BY <1>0, <1>8, <2>1, <2>2 DEF BeginStatement
<1>9. CASE SendTupleDescriptor(w)
  <2>1. Send(w, Packet("TupleDescription", NoQuery), "execute", "unwind") /\ at[w] # "none"
    BY <1>9 DEF SendTupleDescriptor
  <2>2. Packet("TupleDescription", NoQuery) \in Packets /\ {"execute", "unwind"} \subseteq Places
    BY <1>0, PacketsSent
  <2>. HIDE DEF Places
  <2>3. /\ at' \in [Workers -> Places] /\ toClient' \in [Clients -> Seq(Packets)]
        /\ \A v \in Workers \ {w} : at'[v] = at[v]
    BY <2>1, <2>2, SendTypes DEF Places
  <2>. QED
    BY <1>9, <2>1, <2>3 DEF SendTupleDescriptor, Places
<1>10. CASE SendTuple(w)
  <2>1. Send(w, Packet("DataRow", NoQuery), "execute", "unwind") /\ at[w] # "none"
    BY <1>10 DEF SendTuple
  <2>2. Packet("DataRow", NoQuery) \in Packets /\ {"execute", "unwind"} \subseteq Places
    BY <1>0, PacketsSent
  <2>. HIDE DEF Places
  <2>3. /\ at' \in [Workers -> Places] /\ toClient' \in [Clients -> Seq(Packets)]
        /\ \A v \in Workers \ {w} : at'[v] = at[v]
    BY <2>1, <2>2, SendTypes DEF Places
  <2>4. rows' \in [Workers -> Nat]
    BY <1>10 DEF SendTuple
  <2>. QED
    BY <1>10, <2>1, <2>3, <2>4 DEF SendTuple, Places
<1>11. CASE ChangeRow(w)
  <2>1. rows' \in [Workers -> Nat]
    BY <1>11 DEF ChangeRow
  <2>2. wrote' \subseteq Nat
    BY <1>11 DEF ChangeRow
  <2>. QED
    BY <1>11, <2>1, <2>2 DEF ChangeRow
<1>12. ASSUME NEW x \in wrote, WaitTransaction(w, x) PROVE SessionTypes'
  <2>1. at[w] # "none" /\ \E to \in Places : at' = [at EXCEPT ![w] = to]
    BY <1>0, <1>12 DEF WaitTransaction
  <2>2. at' \in [Workers -> Places] /\ \A v \in Workers \ {w} : at'[v] = at[v]
    BY <2>1
  <2>. HIDE DEF Places
  <2>3. waits' \in [Workers -> Nat]
    BY <1>12 DEF WaitTransaction
  <2>. QED
    BY <1>12, <2>1, <2>2, <2>3 DEF WaitTransaction, Places
<1>13. CASE WaitOver(w)
  <2>1. at[w] # "none" /\ \E to \in Places : at' = [at EXCEPT ![w] = to]
    BY <1>0, <1>13 DEF WaitOver
  <2>2. at' \in [Workers -> Places] /\ \A v \in Workers \ {w} : at'[v] = at[v]
    BY <2>1
  <2>. HIDE DEF Places
  <2>. QED
    BY <1>13, <2>1, <2>2 DEF WaitOver, Places, NoXid
<1>14. CASE ExecuteEnds(w)
  <2>1. at[w] # "none" /\ \E to \in Places : at' = [at EXCEPT ![w] = to]
    BY <1>0, <1>14 DEF ExecuteEnds
  <2>2. at' \in [Workers -> Places] /\ \A v \in Workers \ {w} : at'[v] = at[v]
    BY <2>1
  <2>. HIDE DEF Places
  <2>. QED
    BY <1>14, <2>1, <2>2 DEF ExecuteEnds, Places
<1>15. CASE Answer(w)
  <2>. DEFINE p == IF query[w] = "other" THEN Error ELSE Complete(query[w])
              to == IF query[w] \in Plannable THEN "commit" ELSE "read"
  <2>1. Send(w, p, to, "unwind") /\ at[w] # "none"
    BY <1>15 DEF Answer
  <2>2. p \in Packets /\ {to, "unwind"} \subseteq Places
    <3>1. query[w] \in AllKinds \union {NoQuery}
      OBVIOUS
    <3>. QED
      BY <3>1, <1>0, PacketsSent
  <2>. HIDE DEF Places, p, to
  <2>3. /\ at' \in [Workers -> Places] /\ toClient' \in [Clients -> Seq(Packets)]
        /\ \A v \in Workers \ {w} : at'[v] = at[v]
    BY <2>1, <2>2, SendTypes DEF Places
  <2>. QED
    BY <1>15, <2>1, <2>3 DEF Answer, Places
<1>16. CASE CommitStatement(w)
  <2>1. TransTypes'
    BY <1>16, TypesEnd DEF CommitStatement, CommitTransaction
  <2>. QED
    BY <1>0, <1>16, <2>1 DEF CommitStatement
<1>17. CASE Unwind(w)
  <2>1. TransTypes'
    BY <1>17, TypesEnd DEF Unwind, AbortTransaction
  <2>. QED
    BY <1>0, <1>17, <2>1 DEF Unwind
<1>18. CASE SendError(w)
  <2>1. Send(w, Error, "read", "end") /\ at[w] # "none"
    BY <1>18 DEF SendError
  <2>2. Error \in Packets /\ {"read", "end"} \subseteq Places
    BY <1>0, PacketsSent
  <2>. HIDE DEF Places
  <2>3. /\ at' \in [Workers -> Places] /\ toClient' \in [Clients -> Seq(Packets)]
        /\ \A v \in Workers \ {w} : at'[v] = at[v]
    BY <2>1, <2>2, SendTypes DEF Places
  <2>. QED
    BY <1>18, <2>1, <2>3 DEF SendError, Places
<1>19. CASE EndSession(w)
  <2>1. <<>> \in Seq(AllKinds) /\ serves[w] \in Clients
    BY <1>19 DEF EndSession
  <2>2. toServer' \in [Clients -> Seq(AllKinds)]
    BY <1>19, <2>1 DEF EndSession
  <2>3. at' = [at EXCEPT ![w] = "none"] /\ {"none"} \subseteq Places
    BY <1>0, <1>19 DEF EndSession
  <2>. HIDE DEF Places
  <2>4. at' \in [Workers -> Places] /\ at'[w] = "none" /\ \A v \in Workers \ {w} : at'[v] = at[v]
    BY <2>3 DEF Places
  <2>5. /\ serves' \in [Workers -> Clients \union {NoClient}]
        /\ \A v \in Workers \ {w} : serves'[v] = serves[v]
    BY <1>19 DEF EndSession
  <2>6. /\ busy' \in [Workers -> BOOLEAN] /\ sock' \in [Clients -> {"none", "open", "leaked", "closed"}]
        /\ my' \in [Workers -> Nat] /\ UNCHANGED <<slot, open, wrote>>
    BY <1>19, <2>1 DEF EndSession, NoXid
  <2>. QED
    BY <1>19, <2>2, <2>4, <2>5, <2>6 DEF EndSession, Places
<1>20. CASE SigPipe(w) \/ CommitNothing(w) \/ UndoThrows(w)
  BY <1>20, TypesProcessEnds DEF SigPipe, CommitNothing, UndoThrows
<1>. QED
  BY <1>1, <1>2, <1>3, <1>4, <1>5, <1>6, <1>7, <1>8, <1>9, <1>10, <1>11, <1>12, <1>13, <1>14,
     <1>15, <1>16, <1>17, <1>18, <1>19, <1>20 DEF Thread, Execute

\* Every step keeps the types.
LEMMA TypesNext == SessionTypes /\ [Next]_vars => SessionTypes'
<1>. SUFFICES ASSUME SessionTypes, [Next]_vars PROVE SessionTypes'
  OBVIOUS
<1>1. CASE UNCHANGED vars
  BY <1>1 DEF SessionTypes, vars, clientVars, netVars, serverVars, threadVars, transVars
<1>2. CASE StopServer
  BY <1>2, TypesProcessEnds DEF StopServer
<1>3. ASSUME NEW w \in Workers, Stall(w) PROVE SessionTypes'
  BY <1>3 DEF Stall, SessionTypes, clientVars, netVars, threadVars, transVars
<1>. QED
  BY <1>1, <1>2, <1>3, TypesClients, TypesStart, TypesThread DEF Next

-----------------------------------------------------------------------------
(* Who serves whom, and the slots                                           *)

\* A step of a thread within its session.
InSession(w) == ReadNextPacket(w) \/ StreamEnds(w) \/ RefusePacket(w) \/ Execute(w)

\* What such a step leaves alone: the client, the master, other threads and the
\* packets of other clients.
OwnStep(w) ==
  /\ at[w] \notin {"none", "end"} /\ at'[w] # "none"
  /\ at'[w] = "end" => cl[serves[w]] = "gone"
  /\ UNCHANGED <<cl, asked, described, believes, backlog, busy, serves, down>>
  /\ \A v \in Workers \ {w} : /\ at'[v] = at[v] /\ query'[v] = query[v]
                              /\ implicit'[v] = implicit[v] /\ my'[v] = my[v]
  /\ \A c \in Clients \ {serves[w]} : toServer'[c] = toServer[c] /\ toClient'[c] = toClient[c]
  /\ UNCHANGED <<my, slot, open>> \/ Begin(w) \/ EndTransaction(w)

\* Send moves the thread, and reaches its client or finds it gone.
LEMMA SendEffect ==
  ASSUME SessionTypes, NEW w \in Workers, serves[w] \in Clients, NEW p, NEW s, NEW f, Send(w, p, s, f)
  PROVE  /\ at'[w] = s \/ (at'[w] = f /\ cl[serves[w]] = "gone")
         /\ \A v \in Workers \ {w} : at'[v] = at[v]
         /\ \A c \in Clients \ {serves[w]} : toClient'[c] = toClient[c]
         /\ cl[serves[w]] # "gone" => toClient'[serves[w]] = Append(toClient[serves[w]], p)
<1>1. CASE cl[serves[w]] = "gone"
  <2>1. PICK to \in {s, f} : at' = [at EXCEPT ![w] = to]
    BY <1>1 DEF Send, Goto
  <2>2. toClient' = toClient
    BY <1>1 DEF Send
  <2>. QED
    BY <1>1, <2>1, <2>2 DEF SessionTypes
<1>2. CASE cl[serves[w]] # "gone"
  <2>1. at' = [at EXCEPT ![w] = s] /\ toClient' = [toClient EXCEPT ![serves[w]] = Append(@, p)]
    BY <1>2 DEF Send, Goto
  <2>2. at'[w] = s /\ \A v \in Workers \ {w} : at'[v] = at[v]
    BY <2>1 DEF SessionTypes
  <2>3. /\ toClient'[serves[w]] = Append(toClient[serves[w]], p)
        /\ \A c \in Clients \ {serves[w]} : toClient'[c] = toClient[c]
    <3>1. DOMAIN toClient = Clients
      BY DEF SessionTypes
    <3>. QED
      BY <2>1, <3>1, Zenon
  <2>. QED
    BY <1>2, <2>2, <2>3, Zenon
<1>. QED
  BY <1>1, <1>2

\* Begin and the end of a transaction concern one worker.
LEMMA TransactionFrame ==
  ASSUME SessionTypes, NEW w \in Workers, Begin(w) \/ EndTransaction(w)
  PROVE  \A v \in Workers \ {w} : my'[v] = my[v] /\ slot'[v] = slot[v]
<1>1. CASE Begin(w)
  <2>1. PICK x \in Nat \ {0} : slot' = [slot EXCEPT ![w] = x] /\ my' = [my EXCEPT ![w] = x]
    BY <1>1, BeginFinds
  <2>. QED
    BY <2>1 DEF SessionTypes
<1>2. CASE EndTransaction(w)
  BY <1>2 DEF EndTransaction, SessionTypes
<1>. QED
  BY <1>1, <1>2

\* Every step within a session is such a step.
LEMMA SessionSteps ==
  ASSUME SessionTypes, NEW w \in Workers, InSession(w) PROVE OwnStep(w)
<1>. USE DEF OwnStep, transVars, clientVars, netVars, Goto
<1>0. at[w] # "none" => serves[w] \in Clients
  BY DEF SessionTypes
<1>1. CASE ReadNextPacket(w)
  BY <1>1 DEF ReadNextPacket, SessionTypes
<1>2. CASE StreamEnds(w)
  BY <1>2 DEF StreamEnds, SessionTypes
<1>3. CASE RefusePacket(w)
  <2>1. Send(w, Error, "read", "end") /\ at[w] \notin {"none", "end"}
    BY <1>3 DEF RefusePacket, SessionTypes
  <2>2. /\ at'[w] = "read" \/ (at'[w] = "end" /\ cl[serves[w]] = "gone")
        /\ \A v \in Workers \ {w} : at'[v] = at[v]
        /\ \A c \in Clients \ {serves[w]} : toClient'[c] = toClient[c]
    BY <1>0, <2>1, SendEffect
  <2>. QED
    BY <1>3, <2>1, <2>2 DEF RefusePacket, SessionTypes
<1>4. CASE ParseFails(w) \/ PlanFails(w)
  BY <1>4 DEF ParseFails, PlanFails, SessionTypes
<1>5. CASE HandleBegin(w)
  <2>1. UNCHANGED <<my, slot, open>> \/ Begin(w) \/ EndTransaction(w)
    BY <1>5 DEF HandleBegin
  <2>2. \A v \in Workers \ {w} : my'[v] = my[v]
    BY <2>1, TransactionFrame
  <2>. QED
    BY <1>5, <2>1, <2>2 DEF HandleBegin, SessionTypes
<1>6. CASE HandleCommit(w)
  <2>1. UNCHANGED <<my, slot, open>> \/ Begin(w) \/ EndTransaction(w)
    BY <1>6 DEF HandleCommit, CommitTransaction
  <2>2. \A v \in Workers \ {w} : my'[v] = my[v]
    BY <2>1, TransactionFrame
  <2>. QED
    BY <1>6, <2>1, <2>2 DEF HandleCommit, SessionTypes
<1>7. CASE HandleRollback(w)
  <2>1. UNCHANGED <<my, slot, open>> \/ Begin(w) \/ EndTransaction(w)
    BY <1>7 DEF HandleRollback, AbortTransaction
  <2>2. \A v \in Workers \ {w} : my'[v] = my[v]
    BY <2>1, TransactionFrame
  <2>. QED
    BY <1>7, <2>1, <2>2 DEF HandleRollback, SessionTypes
<1>8. CASE BeginStatement(w)
  <2>1. UNCHANGED <<my, slot, open>> \/ Begin(w) \/ EndTransaction(w)
    BY <1>8 DEF BeginStatement, ImplicitTransactionGuard
  <2>2. \A v \in Workers \ {w} : my'[v] = my[v]
    BY <2>1, TransactionFrame
  <2>. QED
    BY <1>8, <2>1, <2>2 DEF BeginStatement, ImplicitTransactionGuard, SessionTypes
<1>9. CASE SendTupleDescriptor(w)
  <2>1. Send(w, Packet("TupleDescription", NoQuery), "execute", "unwind") /\ at[w] \notin {"none", "end"}
    BY <1>9 DEF SendTupleDescriptor, SessionTypes
  <2>2. /\ at'[w] = "execute" \/ (at'[w] = "unwind" /\ cl[serves[w]] = "gone")
        /\ \A v \in Workers \ {w} : at'[v] = at[v]
        /\ \A c \in Clients \ {serves[w]} : toClient'[c] = toClient[c]
    BY <1>0, <2>1, SendEffect
  <2>. QED
    BY <1>9, <2>1, <2>2 DEF SendTupleDescriptor, SessionTypes
<1>10. CASE SendTuple(w)
  <2>1. Send(w, Packet("DataRow", NoQuery), "execute", "unwind") /\ at[w] \notin {"none", "end"}
    BY <1>10 DEF SendTuple, SessionTypes
  <2>2. /\ at'[w] = "execute" \/ (at'[w] = "unwind" /\ cl[serves[w]] = "gone")
        /\ \A v \in Workers \ {w} : at'[v] = at[v]
        /\ \A c \in Clients \ {serves[w]} : toClient'[c] = toClient[c]
    BY <1>0, <2>1, SendEffect
  <2>. QED
    BY <1>10, <2>1, <2>2 DEF SendTuple, SessionTypes
<1>11. CASE ChangeRow(w)
  BY <1>11 DEF ChangeRow, SessionTypes
<1>12. ASSUME NEW x \in wrote, WaitTransaction(w, x) PROVE OwnStep(w)
  BY <1>12 DEF WaitTransaction, SessionTypes
<1>13. CASE WaitOver(w)
  BY <1>13 DEF WaitOver, SessionTypes
<1>14. CASE ExecuteEnds(w)
  BY <1>14 DEF ExecuteEnds, SessionTypes
<1>15. CASE Answer(w)
  <2>. DEFINE p == IF query[w] = "other" THEN Error ELSE Complete(query[w])
              to == IF query[w] \in Plannable THEN "commit" ELSE "read"
  <2>1. Send(w, p, to, "unwind") /\ at[w] \notin {"none", "end"} /\ to \notin {"none", "end"}
    BY <1>15 DEF Answer, SessionTypes
  <2>. HIDE DEF p, to
  <2>2. /\ at'[w] = to \/ (at'[w] = "unwind" /\ cl[serves[w]] = "gone")
        /\ \A v \in Workers \ {w} : at'[v] = at[v]
        /\ \A c \in Clients \ {serves[w]} : toClient'[c] = toClient[c]
    BY <1>0, <2>1, SendEffect
  <2>. QED
    BY <1>15, <2>1, <2>2 DEF Answer, SessionTypes
<1>16. CASE CommitStatement(w)
  <2>1. UNCHANGED <<my, slot, open>> \/ Begin(w) \/ EndTransaction(w)
    BY <1>16 DEF CommitStatement, CommitTransaction
  <2>2. \A v \in Workers \ {w} : my'[v] = my[v]
    BY <2>1, TransactionFrame
  <2>. QED
    BY <1>16, <2>1, <2>2 DEF CommitStatement, SessionTypes
<1>17. CASE Unwind(w)
  <2>1. UNCHANGED <<my, slot, open>> \/ Begin(w) \/ EndTransaction(w)
    BY <1>17 DEF Unwind, AbortTransaction
  <2>2. \A v \in Workers \ {w} : my'[v] = my[v]
    BY <2>1, TransactionFrame
  <2>. QED
    BY <1>17, <2>1, <2>2 DEF Unwind, SessionTypes
<1>18. CASE SendError(w)
  <2>1. Send(w, Error, "read", "end") /\ at[w] \notin {"none", "end"}
    BY <1>18 DEF SendError, SessionTypes
  <2>2. /\ at'[w] = "read" \/ (at'[w] = "end" /\ cl[serves[w]] = "gone")
        /\ \A v \in Workers \ {w} : at'[v] = at[v]
        /\ \A c \in Clients \ {serves[w]} : toClient'[c] = toClient[c]
    BY <1>0, <2>1, SendEffect
  <2>. QED
    BY <1>18, <2>1, <2>2 DEF SendError, SessionTypes
<1>. QED
  BY <1>1, <1>2, <1>3, <1>4, <1>5, <1>6, <1>7, <1>8, <1>9, <1>10, <1>11, <1>12, <1>13, <1>14,
     <1>15, <1>16, <1>17, <1>18 DEF InSession, Execute

\* NoClient is nobody's number.
LEMMA ClientNumbers == \A c \in Clients : c # NoClient
BY DEF Clients, NoClient

\* A step within a session does not change who serves whom.
LEMMA WiringOwnStep ==
  ASSUME SessionTypes, Wiring, NEW w \in Workers, OwnStep(w) PROVE Wiring'
<1>1. /\ UNCHANGED <<cl, backlog, busy, serves>> /\ \A v \in Workers \ {w} : at'[v] = at[v]
      /\ at[w] # "none" /\ at'[w] # "none" /\ (at'[w] = "end" => cl[serves[w]] = "gone")
  BY DEF OwnStep
<1>. QED
  BY <1>1 DEF Wiring

\* A client connects once, and from then on is never "out" again.
LEMMA WiringClients ==
  ASSUME SessionTypes, Wiring, NEW c \in Clients,
         Connect(c) \/ (\E q \in Kinds[c] : SendQuery(c, q)) \/ Receive(c) \/ Leave(c)
  PROVE  Wiring'
<1>. USE DEF serverVars, threadVars
<1>0. /\ DOMAIN cl = Clients /\ backlog \in Seq(Clients)
      /\ \A w \in Workers : at[w] # "none" => serves[w] \in Clients
  BY DEF SessionTypes
<1>1. CASE Connect(c)
  <2>1. /\ backlog' = Append(backlog, c) /\ cl' = [cl EXCEPT ![c] = "idle"] /\ cl[c] = "out"
        /\ UNCHANGED <<serves, at, busy>>
    BY <1>1 DEF Connect
  <2>2. \A i \in DOMAIN backlog : backlog[i] # c
    BY <2>1 DEF Wiring
  <2>3. \A w \in Workers : serves[w] # c
    BY <1>0, <2>1, ClientNumbers DEF Wiring
  <2>4. /\ \A i \in DOMAIN backlog' : i \in DOMAIN backlog \/ i = Len(backlog) + 1
        /\ backlog'[Len(backlog) + 1] = c /\ \A i \in DOMAIN backlog : backlog'[i] = backlog[i]
    BY <1>0, <2>1
  <2>5. \A d \in Clients : cl'[d] = "out" => cl[d] = "out"
    BY <1>0, <2>1, Zenon
  <2>6. \A d \in Clients : cl[d] = "gone" => cl'[d] = "gone"
    <3>1. c \in Clients /\ "out" # "gone"
      OBVIOUS
    <3>. QED
      BY <1>0, <2>1, <3>1, Zenon
  <2>7. \A i \in DOMAIN backlog' : /\ cl'[backlog'[i]] # "out"
                                   /\ \A w \in Workers : serves'[w] # backlog'[i]
                                   /\ \A j \in DOMAIN backlog' : backlog'[i] = backlog'[j] => i = j
    <3>1. \A i \in DOMAIN backlog : backlog[i] \in Clients
      BY <1>0
    <3>2. cl'[c] # "out"
      BY <1>0, <2>1
    <3>. QED
      BY <2>1, <2>2, <2>3, <2>4, <2>5, <3>1, <3>2 DEF Wiring
  <2>. QED
    BY <1>0, <2>1, <2>5, <2>6, <2>7 DEF Wiring
<1>2. CASE ~Connect(c)
  <2>1. /\ UNCHANGED <<serves, at, busy, backlog>> /\ cl[c] \in {"idle", "waiting"}
        /\ \E to \in {"idle", "waiting", "broken", "gone"} : cl' = [cl EXCEPT ![c] = to]
    <3>1. CASE Gone(c) /\ cl[c] \in {"idle", "waiting"}
      BY <3>1 DEF Gone
    <3>2. ASSUME NEW q \in Kinds[c], SendQuery(c, q) PROVE <2>1
      BY <3>1, <3>2 DEF SendQuery
    <3>3. CASE HandleResponse(c)
      <4>1. cl[c] = "waiting" /\ UNCHANGED <<serves, at, busy, backlog>>
        BY <3>3 DEF HandleResponse
      <4>2. \E to \in {"idle", "waiting", "broken", "gone"} : cl' = [cl EXCEPT ![c] = to]
        BY <3>3, <4>1 DEF HandleResponse
      <4>. QED
        BY <4>1, <4>2
    <3>. QED
      BY <1>2, <3>1, <3>2, <3>3 DEF Receive, ConnectionLost, Leave
  <2>2. \A d \in Clients : /\ cl'[d] = "out" => cl[d] = "out"
                           /\ cl[d] = "gone" => cl'[d] = "gone"
    BY <2>1 DEF SessionTypes
  <2>3. \A i \in DOMAIN backlog : backlog[i] \in Clients
    BY DEF SessionTypes
  <2>. QED
    BY <1>0, <2>1, <2>2, <2>3 DEF Wiring
<1>. QED
  BY <1>1, <1>2

\* A connection that is accepted goes to one worker, or to nobody.
LEMMA WiringStart ==
  ASSUME SessionTypes, Wiring, StartNewSession PROVE Wiring'
<1>. DEFINE c == Head(backlog)
<1>1. backlog \in Seq(Clients) /\ backlog # <<>> /\ backlog' = Tail(backlog) /\ cl' = cl
  BY DEF StartNewSession, SessionTypes, clientVars
<1>2. /\ c = backlog[1] /\ c \in Clients /\ 1 \in DOMAIN backlog
      /\ \A i \in DOMAIN backlog' : i + 1 \in DOMAIN backlog /\ i + 1 # 1 /\ backlog'[i] = backlog[i + 1]
  BY <1>1
<1>3. /\ \A i \in DOMAIN backlog' : backlog'[i] # c /\ cl'[backlog'[i]] # "out"
      /\ \A i, j \in DOMAIN backlog' : backlog'[i] = backlog'[j] => i = j
      /\ \A i \in DOMAIN backlog' : \A w \in Workers : serves[w] # backlog'[i]
      /\ cl[c] # "out" /\ \A w \in Workers : serves[w] # c
  <2>1. \A i \in DOMAIN backlog' : i \in Nat
    BY <1>1
  <2>2. \A i, j \in DOMAIN backlog' : backlog'[i] = backlog'[j] => i = j
    <3>1. \A i, j \in DOMAIN backlog' : backlog'[i] = backlog'[j] => i + 1 = j + 1
      BY <1>2 DEF Wiring
    <3>. QED
      BY <2>1, <3>1
  <2>3. \A i \in DOMAIN backlog' : backlog'[i] # c
    BY <1>2 DEF Wiring
  <2>. QED
    BY <1>1, <1>2, <2>2, <2>3 DEF Wiring
<1>. HIDE DEF c
<1>4. CASE Free = {}
  <2>1. UNCHANGED <<busy, serves, at>>
    BY <1>4 DEF StartNewSession
  <2>. QED
    BY <1>1, <1>3, <2>1 DEF Wiring
<1>5. CASE Free # {}
  <2>. DEFINE w == CHOOSE f \in Free : \A g \in Free : f <= g
  <2>1. w \in Workers /\ ~busy[w]
    BY <1>5, FirstFree DEF Free
  <2>2. /\ busy' = [busy EXCEPT ![w] = TRUE]
        /\ serves' = [serves EXCEPT ![w] = c] /\ at' = [at EXCEPT ![w] = "read"]
    BY <1>5, Zenon DEF StartNewSession, c
  <2>. HIDE DEF w
  <2>3. /\ serves'[w] = c /\ at'[w] = "read" /\ busy'[w]
        /\ \A v \in Workers \ {w} : serves'[v] = serves[v] /\ at'[v] = at[v] /\ busy'[v] = busy[v]
    BY <2>1, <2>2 DEF SessionTypes
  <2>4. c # NoClient
    BY <1>2 DEF Clients, NoClient
  <2>. QED
    BY <1>1, <1>3, <2>1, <2>3, <2>4 DEF Wiring
<1>. QED
  BY <1>4, <1>5

\* The end of a session frees the worker.
LEMMA WiringEndSession ==
  ASSUME SessionTypes, Wiring, NEW w \in Workers, EndSession(w) PROVE Wiring'
<1>0. DOMAIN serves = Workers /\ DOMAIN at = Workers /\ DOMAIN busy = Workers
  BY DEF SessionTypes
<1>1. /\ serves'[w] = NoClient /\ at'[w] = "none"
      /\ \A v \in Workers \ {w} : serves'[v] = serves[v] /\ at'[v] = at[v] /\ busy'[v] = busy[v]
      /\ UNCHANGED <<cl, backlog>>
  BY <1>0 DEF EndSession, clientVars, Goto
<1>2. \A i \in DOMAIN backlog : backlog[i] # NoClient
  <2>1. backlog \in Seq(Clients)
    BY DEF SessionTypes
  <2>. QED
    BY <2>1, ClientNumbers
<1>. QED
  BY <1>1, <1>2 DEF Wiring

\* A transaction that begins gets a number that no slot has, and one that ends
\* leaves the other slots alone.
LEMMA SlotsKept ==
  ASSUME SessionTypes, Slots, NEW w \in Workers,
         UNCHANGED <<my, slot, open>> \/ Begin(w) \/ EndTransaction(w)
  PROVE  Slots'
<1>1. CASE UNCHANGED <<my, slot, open>>
  BY <1>1 DEF Slots
<1>2. CASE Begin(w)
  <2>1. PICK x \in Nat \ {0} : /\ x \notin open
                               /\ slot' = [slot EXCEPT ![w] = x] /\ my' = [my EXCEPT ![w] = x]
                               /\ open' = open \union {x}
    BY <1>2, BeginFinds
  <2>. QED
    BY <2>1 DEF Slots, SessionTypes, NoXid
<1>3. CASE EndTransaction(w)
  BY <1>3 DEF EndTransaction, Slots, SessionTypes, NoXid
<1>. QED
  BY <1>1, <1>2, <1>3

-----------------------------------------------------------------------------
(* Where threads can be                                                     *)

\* A transaction that has begun, or ended, in the eyes of its thread.
LEMMA MyTransaction ==
  ASSUME SessionTypes, NEW w \in Workers
  PROVE  /\ Begin(w) => my'[w] # NoXid
         /\ EndTransaction(w) => my'[w] = NoXid
<1>1. ASSUME Begin(w) PROVE my'[w] # NoXid
  <2>1. PICK x \in Nat \ {0} : my' = [my EXCEPT ![w] = x]
    BY <1>1, BeginFinds
  <2>. QED
    BY <2>1 DEF SessionTypes, NoXid
<1>2. ASSUME EndTransaction(w) PROVE my'[w] = NoXid
  BY <1>2 DEF EndTransaction, SessionTypes
<1>. QED
  BY <1>1, <1>2

\* A step within a session keeps the thread in order.
LEMMA ThreadOkKept ==
  ASSUME SessionTypes, NEW w \in Workers, ThreadOk(w), InSession(w)
  PROVE  ThreadOk(w)'
<1>. USE DEF ThreadOk, transVars, Goto, Plannable, Tcl
<1>0. /\ at[w] # "none" => serves[w] \in Clients
      /\ DOMAIN at = Workers /\ DOMAIN query = Workers /\ implicit \in [Workers -> BOOLEAN]
  BY DEF SessionTypes
<1>1. CASE ReadNextPacket(w)
  BY <1>0, <1>1 DEF ReadNextPacket
<1>2. CASE StreamEnds(w)
  BY <1>0, <1>2 DEF StreamEnds
<1>3. CASE RefusePacket(w)
  <2>1. Send(w, Error, "read", "end") /\ at[w] = "refuse"
    BY <1>3 DEF RefusePacket
  <2>2. at'[w] \in {"read", "end"}
    BY <1>0, <2>1, SendEffect
  <2>. QED
    BY <1>0, <1>3, <2>1, <2>2 DEF RefusePacket
<1>4. CASE ParseFails(w) \/ PlanFails(w)
  BY <1>0, <1>4 DEF ParseFails, PlanFails
<1>5. CASE HandleBegin(w)
  BY <1>0, <1>5 DEF HandleBegin
<1>6. CASE HandleCommit(w)
  BY <1>0, <1>6 DEF HandleCommit
<1>7. CASE HandleRollback(w)
  BY <1>0, <1>7 DEF HandleRollback
<1>8. CASE BeginStatement(w)
  <2>1. my'[w] # NoXid
    BY <1>8, MyTransaction DEF BeginStatement, ImplicitTransactionGuard
  <2>. QED
    BY <1>0, <1>8, <2>1 DEF BeginStatement, ImplicitTransactionGuard
<1>9. CASE SendTupleDescriptor(w)
  <2>1. Send(w, Packet("TupleDescription", NoQuery), "execute", "unwind") /\ at[w] = "describe"
    BY <1>9 DEF SendTupleDescriptor
  <2>2. at'[w] \in {"execute", "unwind"}
    BY <1>0, <2>1, SendEffect
  <2>. QED
    BY <1>0, <1>9, <2>1, <2>2 DEF SendTupleDescriptor
<1>10. CASE SendTuple(w)
  <2>1. Send(w, Packet("DataRow", NoQuery), "execute", "unwind") /\ at[w] = "execute"
    BY <1>10 DEF SendTuple
  <2>2. at'[w] \in {"execute", "unwind"}
    BY <1>0, <2>1, SendEffect
  <2>. QED
    BY <1>0, <1>10, <2>1, <2>2 DEF SendTuple
<1>11. CASE ChangeRow(w)
  BY <1>0, <1>11 DEF ChangeRow
<1>12. ASSUME NEW x \in wrote, WaitTransaction(w, x) PROVE ThreadOk(w)'
  BY <1>0, <1>12 DEF WaitTransaction
<1>13. CASE WaitOver(w)
  BY <1>0, <1>13 DEF WaitOver
<1>14. CASE ExecuteEnds(w)
  BY <1>0, <1>14 DEF ExecuteEnds
<1>15. CASE Answer(w)
  <2>. DEFINE p == IF query[w] = "other" THEN Error ELSE Complete(query[w])
              to == IF query[w] \in Plannable THEN "commit" ELSE "read"
  <2>1. Send(w, p, to, "unwind") /\ at[w] \in {"answer", "run"}
    BY <1>15 DEF Answer
  <2>. HIDE DEF p, to
  <2>2. at'[w] \in {to, "unwind"}
    BY <1>0, <2>1, SendEffect
  <2>. QED
    BY <1>0, <1>15, <2>1, <2>2 DEF Answer, to
<1>16. CASE CommitStatement(w)
  BY <1>0, <1>16 DEF CommitStatement
<1>17. CASE Unwind(w)
  BY <1>0, <1>17 DEF Unwind
<1>18. CASE SendError(w)
  <2>1. Send(w, Error, "read", "end") /\ at[w] = "catch"
    BY <1>18 DEF SendError
  <2>2. at'[w] \in {"read", "end"}
    BY <1>0, <2>1, SendEffect
  <2>. QED
    BY <1>0, <1>18, <2>1, <2>2 DEF SendError
<1>. QED
  BY <1>1, <1>2, <1>3, <1>4, <1>5, <1>6, <1>7, <1>8, <1>9, <1>10, <1>11, <1>12, <1>13, <1>14,
     <1>15, <1>16, <1>17, <1>18 DEF InSession, Execute

-----------------------------------------------------------------------------
(* The dialogue                                                             *)

\* The dialogue of a client does not depend on other clients and their threads.
LEMMA DialogueFrame ==
  ASSUME NEW c \in Clients, Dialogue(c),
         cl'[c] = cl[c], asked'[c] = asked[c], described'[c] = described[c], believes'[c] = believes[c],
         toServer'[c] = toServer[c], toClient'[c] = toClient[c],
         \A w \in Workers : /\ serves'[w] = c <=> serves[w] = c
                            /\ serves[w] = c => /\ at'[w] = at[w] /\ query'[w] = query[w]
                                                /\ my'[w] = my[w] /\ implicit'[w] = implicit[w]
  PROVE  Dialogue(c)'
<1>1. CASE cl[c] = "gone"
  BY <1>1 DEF Dialogue
<1>2. CASE cl[c] # "gone"
  <2>1. RowsDescribed(c)'
    BY <1>2 DEF Dialogue, RowsDescribed
  <2>2. Settled(c) => Settled(c)'
    BY DEF Settled, Explicit
  <2>3. Resting(c) \/ Asking(c) => Resting(c)' \/ Asking(c)'
    BY <2>2 DEF Resting, Asking
  <2>4. Working(c) => Working(c)'
    BY DEF Working, Explicit, Described
  <2>5. Answering(c) => Answering(c)'
    BY DEF Answering, Explicit
  <2>. QED
    BY <1>2, <2>1, <2>3, <2>4, <2>5 DEF Dialogue
<1>. QED
  BY <1>1, <1>2

\* A thread at work is the one that executes its client's query.
LEMMA AtWorkPhase ==
  ASSUME SessionTypes, Wiring, NEW w \in Workers, NEW c \in Clients, serves[w] = c, Dialogue(c),
         cl[c] # "gone", at[w] \in AtWork
  PROVE  /\ RowsDescribed(c) /\ cl[c] = "waiting" /\ toServer[c] = <<>>
         /\ \A i \in DOMAIN toClient[c] : ~Final(toClient[c][i])
         /\ query[w] = asked[c]
         /\ WillBelieve(IF at[w] = "answer" THEN query[w] ELSE NoQuery, believes[c]) = Explicit(w)
         /\ at[w] = "execute" /\ query[w] = "select" => Described(c)
<1>1. at[w] \notin Between
  BY DEF AtWork, Between
<1>2. \A v \in Workers : serves[v] = c => v = w
  BY ClientNumbers DEF Wiring
<1>3. ~Resting(c) /\ ~Asking(c)
  BY <1>1 DEF Resting, Asking, Settled
<1>4. ~Answering(c)
  BY <1>1, <1>2 DEF Answering
<1>. QED
  BY <1>2, <1>3, <1>4 DEF Dialogue, Working

\* The thread has more to do for the query, after at most one packet that is no
\* answer.
LEMMA WorkGoesOn ==
  ASSUME SessionTypes, Wiring, NEW w \in Workers, NEW c \in Clients, serves[w] = c, Dialogue(c),
         cl[c] # "gone", at[w] \in AtWork, OwnStep(w), at'[w] \in AtWork, query'[w] = query[w],
         toServer'[c] = toServer[c],
         \/ toClient'[c] = toClient[c]
         \/ \E p \in Packets : /\ toClient'[c] = Append(toClient[c], p) /\ ~Final(p)
                               /\ p.type = "DataRow" => Described(c),
         WillBelieve(IF at'[w] = "answer" THEN query[w] ELSE NoQuery, believes[c]) = Explicit(w)',
         at'[w] = "execute" /\ query[w] = "select" =>
           \/ Described(c)
           \/ \E p \in Packets : toClient'[c] = Append(toClient[c], p) /\ p.type = "TupleDescription"
  PROVE  Dialogue(c)'
<1>. DEFINE s == toClient[c]
            t == toClient'[c]
<1>1. /\ RowsDescribed(c) /\ cl[c] = "waiting" /\ toServer[c] = <<>>
      /\ \A i \in DOMAIN s : ~Final(s[i])
      /\ query[w] = asked[c]
  BY AtWorkPhase
<1>2. s \in Seq(Packets)
  BY DEF SessionTypes
<1>3. /\ \A i \in DOMAIN s : i \in DOMAIN t /\ t[i] = s[i]
      /\ \A i \in DOMAIN t : i \in Nat /\ ~Final(t[i])
      /\ \A i \in DOMAIN t : i \in DOMAIN s \/ (i = Len(s) + 1 /\ (t[i].type = "DataRow" => Described(c)))
  <2>1. CASE t = s
    BY <1>1, <1>2, <2>1
  <2>2. CASE t # s
    <3>1. PICK p \in Packets : /\ t = Append(s, p) /\ ~Final(p)
                               /\ p.type = "DataRow" => Described(c)
      BY <2>2
    <3>. HIDE DEF s, t
    <3>2. /\ Len(s) \in Nat /\ DOMAIN s = 1..Len(s) /\ DOMAIN t = 1..(Len(s) + 1) /\ t[Len(s) + 1] = p
          /\ \A i \in 1..Len(s) : t[i] = s[i]
      BY <1>2, <3>1
    <3>. QED
      BY <1>1, <3>1, <3>2 DEF s
  <2>. QED
    BY <2>1, <2>2
<1>4. UNCHANGED <<cl, asked, described, believes, serves>>
  BY DEF OwnStep
<1>5. Described(c) => Described(c)'
  BY <1>3, <1>4 DEF Described
<1>6. RowsDescribed(c)'
  <2>. SUFFICES ASSUME NEW i \in DOMAIN t, t[i].type = "DataRow", ~described[c]
                PROVE  \E j \in 1..(i - 1) : t[j].type = "TupleDescription"
    BY <1>4 DEF RowsDescribed
  <2>1. Len(s) \in Nat /\ DOMAIN s = 1..Len(s)
    BY <1>2
  <2>2. CASE i \in DOMAIN s
    <3>1. PICK j \in 1..(i - 1) : s[j].type = "TupleDescription"
      BY <1>1, <1>3, <2>2 DEF RowsDescribed
    <3>2. j \in DOMAIN s
      BY <2>1, <2>2
    <3>. QED
      BY <1>3, <3>1, <3>2
  <2>3. CASE i = Len(s) + 1 /\ Described(c)
    <3>1. PICK j \in DOMAIN s : s[j].type = "TupleDescription"
      BY <2>3 DEF Described
    <3>2. j \in 1..(i - 1)
      BY <2>1, <2>3
    <3>. QED
      BY <1>3, <3>1, <3>2
  <2>. QED
    BY <1>3, <2>2, <2>3
<1>7. at'[w] = "execute" /\ query'[w] = "select" => Described(c)'
  <2>1. SUFFICES ASSUME NEW p \in Packets, t = Append(s, p), p.type = "TupleDescription"
                 PROVE  Described(c)'
    BY <1>5
  <2>2. Len(s) + 1 \in DOMAIN t /\ t[Len(s) + 1] = p
    BY <1>2, <2>1
  <2>. QED
    BY <2>1, <2>2 DEF Described
<1>8. Working(c)'
  BY <1>1, <1>3, <1>4, <1>7 DEF Working
<1>. QED
  BY <1>1, <1>4, <1>6, <1>8 DEF Dialogue

\* The thread sends the answer and has done with the query.
LEMMA AnswerSent ==
  ASSUME SessionTypes, Wiring, NEW w \in Workers, NEW c \in Clients, serves[w] = c, Dialogue(c),
         cl[c] # "gone", at[w] \in AtWork, OwnStep(w), at'[w] \in Between,
         toServer'[c] = toServer[c],
         NEW p \in Packets, toClient'[c] = Append(toClient[c], p), Final(p),
         p.tag \in {asked[c], NoQuery}, WillBelieve(p.tag, believes[c]) = Explicit(w)'
  PROVE  Dialogue(c)'
<1>. DEFINE s == toClient[c]
            t == toClient'[c]
<1>1. /\ RowsDescribed(c) /\ cl[c] = "waiting" /\ toServer[c] = <<>>
      /\ \A i \in DOMAIN s : ~Final(s[i])
  BY AtWorkPhase
<1>2. s \in Seq(Packets)
  BY DEF SessionTypes
<1>. HIDE DEF s, t
<1>3. /\ Len(s) \in Nat /\ DOMAIN s = 1..Len(s) /\ DOMAIN t = 1..(Len(s) + 1) /\ t[Len(s) + 1] = p
      /\ \A i \in 1..Len(s) : t[i] = s[i]
      /\ Len(t) = Len(s) + 1 /\ t # <<>>
  BY <1>2 DEF s, t
<1>4. UNCHANGED <<cl, asked, described, believes, serves>>
  BY DEF OwnStep
<1>5. p.type # "DataRow"
  BY DEF Final
<1>6. RowsDescribed(c)'
  <2>. SUFFICES ASSUME NEW i \in DOMAIN t, t[i].type = "DataRow", ~described[c]
                PROVE  \E j \in 1..(i - 1) : t[j].type = "TupleDescription"
    BY <1>4 DEF RowsDescribed, t
  <2>1. i \in DOMAIN s /\ s[i].type = "DataRow"
    BY <1>3, <1>5
  <2>2. PICK j \in 1..(i - 1) : s[j].type = "TupleDescription"
    BY <1>1, <2>1 DEF RowsDescribed, s
  <2>. QED
    BY <1>3, <2>1, <2>2
<1>7. \A i \in DOMAIN t : Final(t[i]) <=> i = Len(t)
  BY <1>1, <1>3
<1>8. Answering(c)'
  BY <1>1, <1>3, <1>4, <1>7 DEF Answering, t
<1>. QED
  BY <1>1, <1>4, <1>6, <1>8 DEF Dialogue

\* The thread reads the query.
LEMMA QueryRead ==
  ASSUME SessionTypes, Wiring, NEW w \in Workers, NEW c \in Clients, serves[w] = c, Dialogue(c),
         cl[c] # "gone", OwnStep(w), ReadNextPacket(w)
  PROVE  Dialogue(c)'
<1>1. toServer[c] # <<>> /\ at[w] = "read"
  BY DEF ReadNextPacket
<1>2. Asking(c)
  BY <1>1 DEF Dialogue, Resting, Working, Answering
<1>3. /\ toServer[c] = <<asked[c]>> /\ toClient[c] = <<>> /\ cl[c] = "waiting"
      /\ believes[c] = Explicit(w)
  BY <1>2 DEF Asking, Settled
<1>4. Head(toServer[c]) = asked[c] /\ Tail(toServer[c]) = <<>>
  BY <1>3
<1>5. DOMAIN toServer = Clients /\ DOMAIN query = Workers /\ DOMAIN at = Workers
  BY DEF SessionTypes
<1>6. /\ toServer'[c] = <<>> /\ query'[w] = asked[c] /\ at'[w] \in {"refuse", "run"}
      /\ UNCHANGED <<toClient, my, implicit>>
  BY <1>4, <1>5 DEF ReadNextPacket, Goto, transVars
<1>7. UNCHANGED <<cl, asked, described, believes, serves>>
  BY DEF OwnStep
<1>8. toClient'[c] = <<>>
  BY <1>3, <1>6
<1>9. at'[w] \in AtWork /\ at'[w] \notin {"answer", "execute"}
  BY <1>6 DEF AtWork
<1>10. Explicit(w)' = Explicit(w)
  BY <1>6 DEF Explicit
<1>11. WillBelieve(IF at'[w] = "answer" THEN query'[w] ELSE NoQuery, believes'[c]) = Explicit(w)'
  BY <1>3, <1>7, <1>9, <1>10 DEF WillBelieve, NoQuery
<1>12. Working(c)'
  <2>1. \A i \in DOMAIN toClient'[c] : ~Final(toClient'[c][i])
    BY <1>8
  <2>. QED
    BY <1>3, <1>6, <1>7, <1>9, <1>11, <2>1 DEF Working
<1>13. RowsDescribed(c)'
  BY <1>8 DEF RowsDescribed
<1>. QED
  BY <1>7, <1>12, <1>13 DEF Dialogue

\* Between two queries, what the client believes does not change.
LEMMA BetweenStep ==
  ASSUME SessionTypes, Wiring, NEW w \in Workers, NEW c \in Clients, serves[w] = c, Dialogue(c),
         cl[c] # "gone", OwnStep(w), at[w] \in Between, at'[w] \in Between,
         toServer'[c] = toServer[c], toClient'[c] = toClient[c], Explicit(w)' = Explicit(w)
  PROVE  Dialogue(c)'
<1>1. UNCHANGED <<cl, asked, described, believes, serves>>
  BY DEF OwnStep
<1>2. \A v \in Workers : serves[v] = c => v = w
  BY ClientNumbers DEF Wiring
<1>3. ~Working(c)
  BY <1>2 DEF Working, AtWork, Between
<1>4. Settled(c) => Settled(c)'
  BY <1>1, <1>2 DEF Settled
<1>5. Resting(c) => Resting(c)'
  BY <1>1, <1>4 DEF Resting
<1>6. Asking(c) => Asking(c)'
  BY <1>1, <1>4 DEF Asking
<1>7. Answering(c) => Answering(c)'
  BY <1>1, <1>2 DEF Answering
<1>8. RowsDescribed(c)'
  BY <1>1 DEF Dialogue, RowsDescribed
<1>. QED
  BY <1>1, <1>3, <1>5, <1>6, <1>7, <1>8 DEF Dialogue

\* A step of a thread keeps the dialogue with its own client.
LEMMA DialogueOwn ==
  ASSUME SessionTypes, Wiring, NEW w \in Workers, ThreadOk(w), NEW c \in Clients, serves[w] = c,
         Dialogue(c), InSession(w)
  PROVE  Dialogue(c)'
<1>0. OwnStep(w)
  BY SessionSteps
<1>1. CASE cl[c] = "gone"
  BY <1>0, <1>1 DEF OwnStep, Dialogue
<1>. SUFFICES ASSUME cl[c] # "gone" PROVE Dialogue(c)'
  BY <1>1
<1>2. /\ DOMAIN at = Workers /\ DOMAIN query = Workers /\ implicit \in [Workers -> BOOLEAN]
      /\ at[w] # "none" /\ my \in [Workers -> Nat] /\ believes[c] \in BOOLEAN
  BY <1>0 DEF SessionTypes, OwnStep
<1>. DEFINE Going(a) == WillBelieve(IF a = "answer" THEN query[w] ELSE NoQuery, believes[c])
<1>3. CASE ReadNextPacket(w)
  BY <1>0, <1>3, QueryRead
<1>4. CASE StreamEnds(w)
  BY <1>4 DEF StreamEnds
<1>5. ASSUME NEW s, NEW p, NEW f, Send(w, p, s, f)
      PROVE  at'[w] = s /\ toClient'[c] = Append(toClient[c], p)
  BY <1>5, SendEffect
<1>6. ASSUME at[w] \in AtWork PROVE query[w] = asked[c] /\ Going(at[w]) = Explicit(w)
  BY <1>6, AtWorkPhase
\* Internal moves of a thread at work.
<1>7. ASSUME at[w] \in AtWork, at'[w] \in AtWork, UNCHANGED <<query, toServer, toClient>>,
             Going(at'[w]) = Explicit(w)',
             at'[w] = "execute" /\ query[w] = "select" => at[w] = "execute"
      PROVE  Dialogue(c)'
  <2>1. at[w] = "execute" /\ query[w] = "select" => Described(c)
    BY <1>7, AtWorkPhase
  <2>. QED
    BY <1>0, <1>7, <2>1, WorkGoesOn
\* Moves that leave the transaction alone, too.
<1>8. ASSUME at[w] \in AtWork \ {"answer"}, at'[w] \in AtWork, UNCHANGED <<query, toServer, toClient, my, implicit>>,
             at'[w] = "answer" => query[w] \in Plannable,
             at'[w] = "execute" /\ query[w] = "select" => at[w] = "execute"
      PROVE  Dialogue(c)'
  <2>1. Explicit(w)' = Explicit(w)
    BY <1>8 DEF Explicit
  <2>2. Going(at'[w]) = Going(at[w])
    BY <1>8 DEF WillBelieve, Plannable, NoQuery
  <2>. QED
    BY <1>6, <1>7, <1>8, <2>1, <2>2
<1>. USE DEF netVars, transVars, Goto
<1>. HIDE DEF Going
<1>9. CASE ParseFails(w) \/ PlanFails(w)
  <2>1. at[w] \in AtWork \ {"answer"} /\ at'[w] \in AtWork \ {"answer", "execute"}
    BY <1>2, <1>9 DEF ParseFails, PlanFails, AtWork
  <2>. QED
    BY <1>8, <1>9, <2>1 DEF ParseFails, PlanFails
<1>10. CASE ChangeRow(w)
  <2>1. at[w] \in AtWork \ {"answer"} /\ at'[w] = at[w]
    BY <1>10 DEF ChangeRow, AtWork
  <2>. QED
    BY <1>8, <1>10, <2>1 DEF ChangeRow
<1>11. ASSUME NEW x \in wrote, WaitTransaction(w, x) PROVE Dialogue(c)'
  <2>1. at[w] \in AtWork \ {"answer"} /\ at'[w] \in AtWork \ {"answer", "execute"}
    BY <1>2, <1>11 DEF WaitTransaction, AtWork
  <2>. QED
    BY <1>8, <1>11, <2>1 DEF WaitTransaction
<1>12. CASE WaitOver(w)
  <2>1. at[w] \in AtWork \ {"answer"} /\ at'[w] \in AtWork \ {"answer"} /\ query[w] = "dml"
    BY <1>2, <1>12 DEF WaitOver, AtWork, ThreadOk
  <2>. QED
    BY <1>8, <1>12, <2>1 DEF WaitOver
<1>13. CASE ExecuteEnds(w)
  <2>1. at[w] \in AtWork \ {"answer"} /\ at'[w] \in AtWork \ {"execute"} /\ query[w] \in Plannable
    BY <1>2, <1>13 DEF ExecuteEnds, AtWork, ThreadOk
  <2>. QED
    BY <1>8, <1>13, <2>1 DEF ExecuteEnds
<1>14. CASE HandleBegin(w)
  <2>1. at[w] \in AtWork /\ at'[w] = "answer" /\ query[w] = "begin" /\ ~implicit[w]
    BY <1>2, <1>14 DEF HandleBegin, AtWork, ThreadOk
  <2>2. my'[w] # NoXid
    BY <1>14, MyTransaction DEF HandleBegin
  <2>3. Going(at'[w]) = Explicit(w)'
    BY <1>14, <2>1, <2>2 DEF HandleBegin, Explicit, Going, WillBelieve
  <2>4. at'[w] \in AtWork
    BY <2>1 DEF AtWork
  <2>. QED
    BY <1>7, <1>14, <2>1, <2>3, <2>4 DEF HandleBegin
<1>15. CASE HandleCommit(w)
  <2>1. at[w] \in AtWork /\ at'[w] = "answer" /\ query[w] = "commit"
    BY <1>2, <1>15 DEF HandleCommit, AtWork
  <2>2. my'[w] = NoXid
    BY <1>15, MyTransaction DEF HandleCommit, CommitTransaction
  <2>3. Going(at'[w]) = Explicit(w)'
    BY <2>1, <2>2 DEF Explicit, Going, WillBelieve
  <2>4. at'[w] \in AtWork
    BY <2>1 DEF AtWork
  <2>. QED
    BY <1>7, <1>15, <2>1, <2>3, <2>4 DEF HandleCommit
<1>16. CASE HandleRollback(w)
  <2>1. at[w] = "run" /\ at[w] \in AtWork \ {"answer"} /\ query[w] = "rollback"
    BY <1>16 DEF HandleRollback, AtWork
  <2>2. CASE AbortTransaction(w) /\ at' = [at EXCEPT ![w] = "answer"]
    <3>1. my'[w] = NoXid
      BY <2>2, MyTransaction DEF AbortTransaction
    <3>2. at'[w] = "answer"
      BY <1>2, <2>2
    <3>3. Going(at'[w]) = Explicit(w)'
      BY <2>1, <3>1, <3>2 DEF Explicit, Going, WillBelieve
    <3>4. at'[w] \in AtWork
      BY <3>2 DEF AtWork
    <3>. QED
      BY <1>7, <1>16, <2>1, <3>2, <3>3, <3>4 DEF HandleRollback
  <2>3. CASE UNCHANGED transVars /\ at' = [at EXCEPT ![w] = "catch"]
    <3>1. at'[w] = "catch" /\ at'[w] \in AtWork
      BY <1>2, <2>3 DEF AtWork
    <3>. QED
      BY <1>8, <1>16, <2>1, <2>3, <3>1 DEF HandleRollback
  <2>. QED
    BY <1>16, <2>2, <2>3 DEF HandleRollback
<1>17. CASE BeginStatement(w)
  <2>1. /\ at[w] = "run" /\ at[w] \in AtWork /\ ~implicit[w] /\ at'[w] \in AtWork \ {"answer"}
        /\ at'[w] = "execute" => query[w] # "select"
    BY <1>2, <1>17 DEF BeginStatement, AtWork, ThreadOk
  <2>2. Explicit(w)' = Explicit(w)
    <3>1. CASE my[w] = NoXid
      <4>1. implicit'[w]
        BY <1>2, <1>17, <3>1 DEF BeginStatement, ImplicitTransactionGuard
      <4>. QED
        BY <3>1, <4>1 DEF Explicit
    <3>2. CASE my[w] # NoXid
      <4>1. ~implicit'[w] /\ my' = my
        BY <1>2, <1>17, <3>2 DEF BeginStatement, ImplicitTransactionGuard
      <4>. QED
        BY <2>1, <4>1 DEF Explicit
    <3>. QED
      BY <3>1, <3>2
  <2>3. Going(at'[w]) = Going(at[w])
    BY <2>1 DEF Going
  <2>. QED
    BY <1>6, <1>7, <1>17, <2>1, <2>2, <2>3 DEF BeginStatement
<1>18. CASE Unwind(w)
  <2>1. at[w] = "unwind" /\ at[w] \in AtWork /\ at'[w] = "catch" /\ at'[w] \in AtWork
    BY <1>2, <1>18 DEF Unwind, AtWork
  <2>2. Explicit(w)' = Explicit(w)
    <3>1. CASE implicit[w]
      <4>1. my'[w] = NoXid
        BY <1>18, <3>1, MyTransaction DEF Unwind, AbortTransaction
      <4>. QED
        BY <3>1, <4>1 DEF Explicit
    <3>2. CASE ~implicit[w]
      <4>1. ~implicit'[w] /\ my' = my
        BY <1>2, <1>18, <3>2 DEF Unwind
      <4>. QED
        BY <3>2, <4>1 DEF Explicit
    <3>. QED
      BY <3>1, <3>2
  <2>3. Going(at'[w]) = Going(at[w])
    BY <2>1 DEF Going
  <2>. QED
    BY <1>6, <1>7, <1>18, <2>1, <2>2, <2>3 DEF Unwind
\* Packets before the answer.
<1>19. CASE SendTupleDescriptor(w)
  <2>. DEFINE p == Packet("TupleDescription", NoQuery)
  <2>1. at[w] = "describe" /\ at[w] \in AtWork /\ at'[w] = "execute" /\ at'[w] \in AtWork
    BY <1>5, <1>19 DEF SendTupleDescriptor, AtWork
  <2>2. toClient'[c] = Append(toClient[c], p)
    BY <1>5, <1>19 DEF SendTupleDescriptor
  <2>3. p \in Packets /\ ~Final(p) /\ p.type = "TupleDescription"
    BY PacketsSent DEF Packet, Final
  <2>4. UNCHANGED <<query, my, implicit, toServer>>
    BY <1>19 DEF SendTupleDescriptor
  <2>5. Going(at'[w]) = Explicit(w)'
    BY <1>6, <2>1, <2>4 DEF Going, Explicit
  <2>. QED
    BY <1>0, <2>1, <2>2, <2>3, <2>4, <2>5, WorkGoesOn DEF Going
<1>20. CASE SendTuple(w)
  <2>. DEFINE p == Packet("DataRow", NoQuery)
  <2>1. at[w] = "execute" /\ query[w] = "select" /\ at[w] \in AtWork /\ at'[w] = "execute"
    BY <1>5, <1>20 DEF SendTuple, AtWork
  <2>2. toClient'[c] = Append(toClient[c], p)
    BY <1>5, <1>20 DEF SendTuple
  <2>3. p \in Packets /\ ~Final(p)
    BY PacketsSent DEF Packet, Final
  <2>4. UNCHANGED <<query, my, implicit, toServer>>
    BY <1>20 DEF SendTuple
  <2>5. Going(at'[w]) = Explicit(w)'
    BY <1>6, <2>1, <2>4 DEF Going, Explicit
  <2>6. Described(c)
    BY <2>1, AtWorkPhase
  <2>. QED
    BY <1>0, <2>1, <2>2, <2>3, <2>4, <2>5, <2>6, WorkGoesOn DEF Going
\* Answers.
<1>21. ASSUME at[w] \in AtWork \ {"answer"}, Send(w, Error, "read", "end") \/ Send(w, Error, "read", "unwind"),
              UNCHANGED <<toServer, my, implicit>>
       PROVE  Dialogue(c)'
  <2>1. at'[w] \in Between /\ toClient'[c] = Append(toClient[c], Error)
    BY <1>5, <1>21 DEF Between
  <2>2. Error \in Packets /\ Final(Error) /\ Error.tag = NoQuery
    BY PacketsSent DEF Error, Packet, Final
  <2>3. WillBelieve(NoQuery, believes[c]) = Explicit(w)'
    BY <1>6, <1>21 DEF Going, Explicit
  <2>. QED
    BY <1>0, <1>21, <2>1, <2>2, <2>3, AnswerSent
<1>22. CASE RefusePacket(w)
  BY <1>21, <1>22 DEF RefusePacket, AtWork
<1>23. CASE SendError(w)
  BY <1>21, <1>23 DEF SendError, AtWork
<1>24. CASE Answer(w)
  <2>1. UNCHANGED <<toServer, my, implicit>>
    BY <1>24 DEF Answer
  <2>2. CASE at[w] = "run" /\ query[w] = "other"
    BY <1>21, <1>24, <2>1, <2>2 DEF Answer, AtWork, Plannable
  <2>3. CASE at[w] = "answer"
    <3>. DEFINE p == Complete(query[w])
                to == IF query[w] \in Plannable THEN "commit" ELSE "read"
    <3>1. query[w] \in Tcl \union Plannable
      BY <2>3 DEF ThreadOk
    <3>2. query[w] # "other" /\ query[w] \in AllKinds
      BY <3>1 DEF Tcl, Plannable, AllKinds
    <3>3. Send(w, p, to, "unwind")
      BY <1>24, <3>2 DEF Answer
    <3>4. at'[w] = to /\ toClient'[c] = Append(toClient[c], p)
      BY <1>5, <3>3
    <3>5. at'[w] \in Between /\ at[w] \in AtWork
      BY <2>3, <3>4 DEF Between, AtWork
    <3>6. p \in Packets /\ Final(p) /\ p.tag = query[w]
      BY <3>2, PacketsSent DEF Complete, Packet, Final
    <3>7. query[w] = asked[c] /\ WillBelieve(query[w], believes[c]) = Explicit(w)'
      BY <1>6, <2>1, <2>3, <3>5 DEF Going, Explicit
    <3>. HIDE DEF p, to
    <3>. QED
      BY <1>0, <2>1, <3>4, <3>5, <3>6, <3>7, AnswerSent
  <2>. QED
    BY <1>24, <2>2, <2>3 DEF Answer
<1>25. CASE CommitStatement(w)
  <2>1. at[w] \in Between /\ at'[w] \in Between
    BY <1>2, <1>25 DEF CommitStatement, Between
  <2>2. Explicit(w)' = Explicit(w)
    <3>1. CASE implicit[w]
      <4>1. my'[w] = NoXid
        BY <1>25, <3>1, MyTransaction DEF CommitStatement, CommitTransaction
      <4>. QED
        BY <3>1, <4>1 DEF Explicit
    <3>2. CASE ~implicit[w]
      <4>1. ~implicit'[w] /\ my' = my
        BY <1>2, <1>25, <3>2 DEF CommitStatement
      <4>. QED
        BY <3>2, <4>1 DEF Explicit
    <3>. QED
      BY <3>1, <3>2
  <2>. QED
    BY <1>0, <1>25, <2>1, <2>2, BetweenStep DEF CommitStatement
<1>. QED
  BY <1>3, <1>4, <1>9, <1>10, <1>11, <1>12, <1>13, <1>14, <1>15, <1>16, <1>17, <1>18, <1>19, <1>20,
     <1>22, <1>23, <1>24, <1>25 DEF InSession, Execute

\* The client takes the next packet: a row, a descriptor or the answer.
LEMMA ResponseHandled ==
  ASSUME SessionTypes, Wiring, NEW c \in Clients, Dialogue(c), HandleResponse(c)
  PROVE  Dialogue(c)'
<1>. DEFINE s == toClient[c]
            t == toClient'[c]
            p == Head(s)
<1>1. /\ cl[c] = "waiting" /\ s # <<>> /\ s \in Seq(Packets)
      /\ DOMAIN toClient = Clients /\ DOMAIN cl = Clients /\ DOMAIN described = Clients
      /\ DOMAIN asked = Clients /\ DOMAIN believes = Clients
      /\ described[c] \in BOOLEAN /\ believes[c] \in BOOLEAN
  BY DEF HandleResponse, SessionTypes
<1>2. /\ t = Tail(s)
      /\ cl'[c] = IF Final(p) THEN "idle" ELSE IF p.type = "DataRow" /\ ~described[c] THEN "broken" ELSE cl[c]
      /\ described'[c] = (~Final(p) /\ (described[c] \/ p.type = "TupleDescription"))
      /\ asked'[c] = IF Final(p) THEN NoQuery ELSE asked[c]
  BY <1>1, Zenon DEF HandleResponse
<1>3. believes'[c] = WillBelieve(p.tag, believes[c])
  <2>1. believes' = [believes EXCEPT ![c] = CASE p.tag = "begin" -> TRUE
                                              [] p.tag \in {"commit", "rollback"} -> FALSE
                                              [] OTHER -> @]
    BY Zenon DEF HandleResponse
  <2>. HIDE DEF p
  <2>. QED
    BY <1>1, <2>1 DEF WillBelieve
<1>4. UNCHANGED <<serves, at, query, my, implicit>> /\ toServer'[c] = toServer[c]
  BY DEF HandleResponse, serverVars, threadVars, transVars
<1>5. Working(c) \/ Answering(c)
  BY <1>1 DEF Dialogue, Resting, Asking
<1>. HIDE DEF s, t
<1>6. /\ Len(s) \in Nat /\ Len(s) > 0 /\ DOMAIN s = 1..Len(s) /\ DOMAIN t = 1..(Len(s) - 1) /\ Len(t) = Len(s) - 1
      /\ \A i \in 1..(Len(s) - 1) : t[i] = s[i + 1]
      /\ p = s[1] /\ p \in Packets /\ 1 \in DOMAIN s
  BY <1>1, <1>2
<1>7. ~Final(p) => p.tag = NoQuery
  BY <1>6 DEF Final, Packets
<1>8. ~Final(p) => believes'[c] = believes[c]
  BY <1>3, <1>7 DEF WillBelieve, NoQuery
<1>9. p.type = "DataRow" => described[c]
  <2>1. RowsDescribed(c)
    BY <1>1 DEF Dialogue
  <2>2. 1..(1 - 1) = {}
    OBVIOUS
  <2>. QED
    BY <1>6, <2>1, <2>2 DEF RowsDescribed, s
<1>. HIDE DEF p
<1>10. ~Final(p) => RowsDescribed(c)'
  <2>. SUFFICES ASSUME ~Final(p), NEW i \in DOMAIN t, t[i].type = "DataRow", ~described'[c]
                PROVE  \E j \in 1..(i - 1) : t[j].type = "TupleDescription"
    BY DEF RowsDescribed, t
  <2>1. ~described[c] /\ p.type # "TupleDescription"
    BY <1>1, <1>2
  <2>2. i \in 1..(Len(s) - 1) /\ i + 1 \in DOMAIN s /\ s[i + 1].type = "DataRow"
    BY <1>6
  <2>3. PICK j \in 1..i : s[j].type = "TupleDescription"
    <3>1. RowsDescribed(c) /\ (i + 1) - 1 = i
      BY <1>1, <2>2 DEF Dialogue
    <3>. QED
      BY <2>1, <2>2, <3>1 DEF RowsDescribed, s
  <2>4. j # 1
    BY <1>6, <2>1, <2>3
  <2>5. j - 1 \in 1..(i - 1) /\ t[j - 1] = s[(j - 1) + 1] /\ (j - 1) + 1 = j
    BY <1>6, <2>2, <2>3, <2>4
  <2>. QED
    BY <2>3, <2>5
<1>11. Working(c) => ~Final(p)
  BY <1>6 DEF Working, s
<1>12. ASSUME Working(c) PROVE Working(c)'
  <2>1. ~Final(p)
    BY <1>11, <1>12
  <2>2. cl'[c] = "waiting" /\ asked'[c] = asked[c] /\ believes'[c] = believes[c]
    BY <1>1, <1>2, <1>8, <1>9, <2>1
  <2>3. \A i \in DOMAIN t : ~Final(t[i])
    <3>1. \A i \in DOMAIN s : ~Final(s[i])
      BY <1>12 DEF Working, s
    <3>. QED
      BY <1>6, <3>1
  <2>4. Described(c) => Described(c)'
    <3>1. SUFFICES ASSUME Described(c), ~described'[c] PROVE Described(c)'
      BY DEF Described
    <3>2. ~described[c] /\ p.type # "TupleDescription"
      BY <1>1, <1>2, <2>1, <3>1
    <3>3. PICK i \in DOMAIN s : s[i].type = "TupleDescription"
      BY <3>1, <3>2 DEF Described, s
    <3>4. i # 1
      BY <1>6, <3>2, <3>3
    <3>5. i - 1 \in DOMAIN t /\ t[i - 1] = s[(i - 1) + 1] /\ (i - 1) + 1 = i
      BY <1>6, <3>4
    <3>. QED
      BY <3>3, <3>5 DEF Described, t
  <2>. QED
    BY <1>4, <1>12, <2>2, <2>3, <2>4 DEF Working, Explicit, t
<1>13. ASSUME Answering(c), ~Final(p) PROVE Answering(c)'
  <2>1. Len(s) > 1 /\ t # <<>>
    <3>1. Final(s[1]) <=> 1 = Len(s)
      BY <1>6, <1>13 DEF Answering, s
    <3>2. Len(t) # 0
      BY <1>6, <1>13, <3>1
    <3>. QED
      BY <1>6, <3>1, <3>2, <1>13
  <2>2. cl'[c] = "waiting" /\ asked'[c] = asked[c] /\ believes'[c] = believes[c]
    BY <1>1, <1>2, <1>8, <1>9, <1>13
  <2>3. t[Len(t)] = s[Len(s)]
    BY <1>6, <2>1
  <2>4. \A i \in DOMAIN t : Final(t[i]) <=> i = Len(t)
    <3>1. \A i \in DOMAIN s : Final(s[i]) <=> i = Len(s)
      BY <1>13 DEF Answering, s
    <3>. QED
      BY <1>6, <3>1
  <2>. QED
    BY <1>4, <1>13, <2>1, <2>2, <2>3, <2>4 DEF Answering, Explicit, s, t
<1>14. ASSUME Answering(c), Final(p) PROVE Resting(c)' /\ RowsDescribed(c)'
  <2>1. Len(s) = 1
    BY <1>6, <1>14 DEF Answering, s
  <2>2. t = <<>>
    BY <1>1, <1>2, <2>1
  <2>3. PICK w \in Workers : serves[w] = c /\ at[w] \in Between
                             /\ WillBelieve(s[Len(s)].tag, believes[c]) = Explicit(w)
    BY <1>14 DEF Answering, s
  <2>4. believes'[c] = Explicit(w)
    BY <1>3, <1>6, <2>1, <2>3
  <2>5. \A v \in Workers : serves[v] = c => v = w
    BY <2>3, ClientNumbers DEF Wiring
  <2>6. Settled(c)'
    BY <1>4, <2>3, <2>4, <2>5 DEF Settled, Explicit
  <2>7. toServer[c] = <<>>
    BY <1>14 DEF Answering
  <2>8. RowsDescribed(c)'
    BY <2>2 DEF RowsDescribed, t
  <2>9. cl'[c] = "idle" /\ ~described'[c]
    BY <1>2, <1>14
  <2>. QED
    BY <1>4, <2>2, <2>6, <2>7, <2>8, <2>9 DEF Resting, t
<1>15. \E w \in Workers : serves[w] = c
  BY <1>5 DEF Working, Answering
<1>. QED
  BY <1>4, <1>5, <1>10, <1>11, <1>12, <1>13, <1>14, <1>15 DEF Dialogue

\* What the clients do.
LEMMA DialogueClients ==
  ASSUME SessionTypes, Wiring, NEW c \in Clients, \A d \in Clients : Dialogue(d),
         Connect(c) \/ (\E q \in Kinds[c] : SendQuery(c, q)) \/ Receive(c) \/ Leave(c)
  PROVE  \A d \in Clients : Dialogue(d)'
<1>. USE DEF serverVars, threadVars, transVars, netVars, clientVars
<1>0. /\ DOMAIN cl = Clients /\ DOMAIN asked = Clients /\ DOMAIN described = Clients
      /\ DOMAIN believes = Clients /\ DOMAIN toServer = Clients /\ DOMAIN toClient = Clients
  BY DEF SessionTypes
<1>1. ASSUME NEW d \in Clients \ {c},
             UNCHANGED <<serves, at, query, my, implicit>>,
             cl'[d] = cl[d], asked'[d] = asked[d], described'[d] = described[d], believes'[d] = believes[d],
             toServer'[d] = toServer[d], toClient'[d] = toClient[d]
      PROVE  Dialogue(d)'
  BY <1>1, DialogueFrame
<1>2. CASE Gone(c)
  <2>1. Dialogue(c)'
    BY <1>0, <1>2 DEF Gone, Dialogue
  <2>2. ASSUME NEW d \in Clients \ {c} PROVE Dialogue(d)'
    <3>1. /\ cl'[d] = cl[d] /\ asked'[d] = asked[d] /\ described'[d] = described[d]
          /\ believes'[d] = believes[d] /\ toClient'[d] = toClient[d]
      BY <1>0, <1>2, <2>2 DEF Gone
    <3>. QED
      BY <1>1, <1>2, <3>1 DEF Gone
  <2>. QED
    BY <2>1, <2>2
<1>3. CASE Connect(c)
  <2>1. cl[c] = "out" /\ cl'[c] = "idle" /\ \A d \in Clients \ {c} : cl'[d] = cl[d]
    BY <1>0, <1>3 DEF Connect
  <2>2. UNCHANGED <<asked, described, believes, toServer, toClient, serves, at, query, my, implicit>>
    BY <1>3 DEF Connect
  <2>3. Resting(c) /\ RowsDescribed(c) /\ ((\A w \in Workers : serves[w] # c) => ~believes[c])
    BY <2>1 DEF Dialogue, Asking, Working, Answering
  <2>4. Resting(c)' /\ RowsDescribed(c)'
    BY <2>1, <2>2, <2>3 DEF Resting, Settled, Explicit, RowsDescribed
  <2>5. Dialogue(c)'
    BY <2>2, <2>3, <2>4 DEF Dialogue
  <2>. QED
    BY <1>1, <2>1, <2>2, <2>5
<1>4. ASSUME NEW q \in Kinds[c], SendQuery(c, q), ~Gone(c) PROVE \A d \in Clients : Dialogue(d)'
  <2>1. /\ cl[c] = "idle" /\ cl' = [cl EXCEPT ![c] = "waiting"] /\ asked' = [asked EXCEPT ![c] = q]
        /\ toServer' = [toServer EXCEPT ![c] = Append(@, q)]
        /\ UNCHANGED <<described, believes, toClient, serves, at, query, my, implicit>>
    BY <1>4 DEF SendQuery
  <2>2. /\ cl'[c] = "waiting" /\ asked'[c] = q /\ toServer'[c] = Append(toServer[c], q)
        /\ \A d \in Clients \ {c} : cl'[d] = cl[d] /\ asked'[d] = asked[d] /\ toServer'[d] = toServer[d]
    BY <1>0, <2>1, Zenon
  <2>3. Resting(c) /\ RowsDescribed(c) /\ ((\A w \in Workers : serves[w] # c) => ~believes[c])
    BY <2>1 DEF Dialogue, Asking, Working, Answering
  <2>4. toServer'[c] = <<q>>
    BY <2>2, <2>3 DEF Resting
  <2>5. Asking(c)' /\ RowsDescribed(c)'
    BY <2>1, <2>2, <2>3, <2>4 DEF Resting, Asking, Settled, Explicit, RowsDescribed
  <2>6. Dialogue(c)'
    BY <2>1, <2>3, <2>5 DEF Dialogue
  <2>. QED
    BY <1>1, <2>1, <2>2, <2>6
<1>5. CASE HandleResponse(c)
  <2>1. Dialogue(c)'
    BY <1>5, ResponseHandled
  <2>2. \A d \in Clients \ {c} : /\ cl'[d] = cl[d] /\ asked'[d] = asked[d] /\ described'[d] = described[d]
                                 /\ believes'[d] = believes[d] /\ toClient'[d] = toClient[d]
    BY <1>0, <1>5, Zenon DEF HandleResponse
  <2>3. UNCHANGED <<toServer, serves, at, query, my, implicit>>
    BY <1>5 DEF HandleResponse
  <2>. QED
    BY <1>1, <2>1, <2>2, <2>3
<1>. QED
  BY <1>2, <1>3, <1>4, <1>5 DEF Receive, ConnectionLost, Leave

\* A thread starts to serve a client that was never told of a transaction.
LEMMA DialogueStart ==
  ASSUME SessionTypes, Wiring, Threads, \A d \in Clients : Dialogue(d), StartNewSession
  PROVE  \A d \in Clients : Dialogue(d)'
<1>1. /\ UNCHANGED <<cl, asked, described, believes, toServer, toClient, query, my, implicit>>
      /\ backlog \in Seq(Clients) /\ backlog # <<>>
      /\ DOMAIN serves = Workers /\ DOMAIN at = Workers
  BY DEF StartNewSession, clientVars, transVars, SessionTypes
<1>2. PICK c \in Clients : c = Head(backlog) /\ \A w \in Workers : serves[w] # c
  BY <1>1 DEF Wiring
<1>3. CASE Free = {}
  <2>1. UNCHANGED <<serves, at>>
    BY <1>3 DEF StartNewSession
  <2>. QED
    BY <1>1, <2>1, DialogueFrame
<1>4. CASE Free # {}
  <2>1. PICK w \in Workers : /\ ~busy[w]
                             /\ serves' = [serves EXCEPT ![w] = c] /\ at' = [at EXCEPT ![w] = "read"]
    <3>. DEFINE f == CHOOSE f \in Free : \A g \in Free : f <= g
    <3>1. f \in Workers /\ ~busy[f]
      BY <1>4, FirstFree DEF Free
    <3>2. serves' = [serves EXCEPT ![f] = c] /\ at' = [at EXCEPT ![f] = "read"]
      BY <1>2, <1>4, Zenon DEF StartNewSession
    <3>. QED
      BY <3>1, <3>2, Zenon
  <2>3. at[w] = "none" /\ serves[w] = NoClient /\ my[w] = NoXid
    BY <2>1 DEF Wiring, Threads, ThreadOk
  <2>4. /\ serves'[w] = c /\ at'[w] = "read"
        /\ \A v \in Workers \ {w} : serves'[v] = serves[v] /\ at'[v] = at[v]
    BY <1>1, <2>1
  <2>5. ASSUME NEW d \in Clients, d # c PROVE Dialogue(d)'
    <3>1. \A v \in Workers : (serves'[v] = d <=> serves[v] = d) /\ (serves[v] = d => at'[v] = at[v])
      BY <2>1, <2>3, <2>4, <2>5, ClientNumbers
    <3>. QED
      BY <1>1, <2>5, <3>1, DialogueFrame
  <2>6. Dialogue(c)'
    <3>1. CASE cl[c] = "gone"
      BY <1>1, <3>1 DEF Dialogue
    <3>2. CASE cl[c] # "gone"
      <4>1. RowsDescribed(c) /\ ~believes[c] /\ (Resting(c) \/ Asking(c))
        BY <1>2, <3>2 DEF Dialogue, Working, Answering
      <4>2. Settled(c)'
        <5>1. Explicit(w)' = FALSE /\ believes'[c] = FALSE
          BY <1>1, <2>3, <4>1 DEF Explicit, SessionTypes
        <5>2. \A v \in Workers : serves'[v] = c => v = w
          BY <1>2, <2>4
        <5>. QED
          BY <1>1, <2>4, <4>1, <5>1, <5>2 DEF Settled, Between
      <4>3. Resting(c)' \/ Asking(c)'
        BY <1>1, <4>1, <4>2 DEF Resting, Asking
      <4>4. RowsDescribed(c)'
        BY <1>1, <4>1 DEF RowsDescribed
      <4>. QED
        BY <1>1, <4>1, <4>3, <4>4 DEF Dialogue
    <3>. QED
      BY <3>1, <3>2
  <2>. QED
    BY <2>5, <2>6
<1>. QED
  BY <1>3, <1>4

\* A session ends when its client has left.
LEMMA DialogueEndSession ==
  ASSUME SessionTypes, Wiring, \A d \in Clients : Dialogue(d), NEW w \in Workers, EndSession(w)
  PROVE  \A d \in Clients : Dialogue(d)'
<1>1. /\ UNCHANGED <<cl, asked, described, believes, toClient, query, implicit>>
      /\ DOMAIN serves = Workers /\ DOMAIN at = Workers /\ DOMAIN my = Workers /\ DOMAIN toServer = Clients
      /\ serves[w] \in Clients /\ cl[serves[w]] = "gone"
  BY DEF EndSession, clientVars, SessionTypes, Wiring
<1>2. /\ serves'[w] = NoClient
      /\ \A v \in Workers \ {w} : serves'[v] = serves[v] /\ at'[v] = at[v] /\ my'[v] = my[v]
      /\ \A d \in Clients \ {serves[w]} : toServer'[d] = toServer[d]
  BY <1>1 DEF EndSession, Goto
<1>3. ASSUME NEW d \in Clients, d = serves[w] PROVE Dialogue(d)'
  BY <1>1, <1>3 DEF Dialogue
<1>4. ASSUME NEW d \in Clients, d # serves[w] PROVE Dialogue(d)'
  <2>1. \A v \in Workers : /\ serves'[v] = d <=> serves[v] = d
                           /\ serves[v] = d => at'[v] = at[v] /\ my'[v] = my[v]
    BY <1>2, <1>4, ClientNumbers
  <2>. QED
    BY <1>1, <1>2, <1>4, <2>1, DialogueFrame
<1>. QED
  BY <1>3, <1>4

-----------------------------------------------------------------------------
(* The theorems                                                             *)

\* The invariant holds at the start...
LEMMA SessionInit == Init => SessionInv
<1>. SUFFICES ASSUME Init PROVE SessionInv
  OBVIOUS
<1>1. SessionTypes
  BY TypesInit
<1>2. Wiring
  BY DEF Init, Wiring
<1>3. Slots
  BY DEF Init, Slots
<1>4. Threads
  BY DEF Init, Threads, ThreadOk
<1>5. ASSUME NEW c \in Clients PROVE Dialogue(c)
  <2>1. \A w \in Workers : serves[w] # c
    BY ClientNumbers DEF Init
  <2>2. cl[c] = "out" /\ toServer[c] = <<>> /\ toClient[c] = <<>> /\ ~described[c] /\ ~believes[c]
    BY DEF Init
  <2>3. Resting(c) /\ RowsDescribed(c)
    BY <2>1, <2>2 DEF Resting, Settled, RowsDescribed
  <2>. QED
    BY <2>2, <2>3 DEF Dialogue
<1>. QED
  BY <1>1, <1>2, <1>3, <1>4, <1>5 DEF SessionInv

\* ... and every step keeps it.
LEMMA SessionNext == SessionInv /\ [Next]_vars => SessionInv'
<1>. SUFFICES ASSUME SessionInv, [Next]_vars PROVE SessionInv'
  OBVIOUS
<1>1. SessionTypes /\ SessionTypes'
  BY TypesNext DEF SessionInv
<1>. SUFFICES ASSUME ~down' PROVE Wiring' /\ Slots' /\ Threads' /\ \A c \in Clients : Dialogue(c)'
  BY <1>1 DEF SessionInv
<1>2. ~ProcessEnds
  BY DEF ProcessEnds
<1>3. ASSUME UNCHANGED vars \/ \E w \in Workers : Stall(w)
      PROVE  Wiring' /\ Slots' /\ Threads' /\ \A c \in Clients : Dialogue(c)'
  <2>0. UNCHANGED <<clientVars, netVars, threadVars, transVars, down>>
    BY <1>3 DEF vars, serverVars, Stall
  <2>1. ~down /\ Wiring /\ Slots /\ Threads /\ \A c \in Clients : Dialogue(c)
    BY <2>0 DEF SessionInv
  <2>2. UNCHANGED <<cl, asked, described, believes, backlog, toServer, toClient, busy, serves, at, query,
                    implicit, my, slot, open>>
    BY <2>0 DEF clientVars, netVars, threadVars, transVars
  <2>3. Wiring' /\ Slots' /\ Threads'
    BY <2>1, <2>2 DEF Wiring, Slots, Threads, ThreadOk
  <2>. QED
    BY <2>1, <2>2, <2>3, DialogueFrame
<1>4. ASSUME NEW c \in Clients,
             Connect(c) \/ (\E q \in Kinds[c] : SendQuery(c, q)) \/ Receive(c) \/ Leave(c)
      PROVE  Wiring' /\ Slots' /\ Threads' /\ \A d \in Clients : Dialogue(d)'
  <2>1. UNCHANGED <<at, query, implicit, my, slot, open, down>>
    BY <1>4 DEF Connect, SendQuery, Receive, HandleResponse, ConnectionLost, Leave, Gone, serverVars,
                threadVars, transVars
  <2>2. Wiring /\ Slots /\ Threads /\ \A d \in Clients : Dialogue(d)
    BY <2>1 DEF SessionInv
  <2>3. Wiring'
    BY <1>1, <1>4, <2>2, WiringClients
  <2>4. Slots' /\ Threads'
    BY <2>1, <2>2 DEF Slots, Threads, ThreadOk
  <2>5. \A d \in Clients : Dialogue(d)'
    BY <1>1, <1>4, <2>2, DialogueClients
  <2>. QED
    BY <2>3, <2>4, <2>5
<1>5. CASE StartNewSession
  <2>1. UNCHANGED <<query, implicit, my, slot, open, down>>
    BY <1>5 DEF StartNewSession, transVars
  <2>2. Wiring /\ Slots /\ Threads /\ \A d \in Clients : Dialogue(d)
    BY <2>1 DEF SessionInv
  <2>3. Wiring' /\ \A d \in Clients : Dialogue(d)'
    BY <1>1, <1>5, <2>2, WiringStart, DialogueStart
  <2>4. Slots'
    BY <2>1, <2>2 DEF Slots
  <2>5. Threads'
    <3>1. \A v \in Workers : at'[v] = at[v] \/ (at'[v] = "read" /\ at[v] = "none")
      <4>1. CASE Free = {}
        BY <1>5, <4>1 DEF StartNewSession
      <4>2. CASE Free # {}
        <5>. DEFINE w == CHOOSE f \in Free : \A g \in Free : f <= g
        <5>1. at' = [at EXCEPT ![w] = "read"]
          BY <1>5, <4>2, Zenon DEF StartNewSession
        <5>2. w \in Workers /\ ~busy[w]
          BY <4>2, FirstFree DEF Free
        <5>. HIDE DEF w
        <5>3. at[w] = "none"
          BY <2>2, <5>2 DEF Wiring
        <5>. QED
          BY <1>1, <5>1, <5>2, <5>3 DEF SessionTypes
      <4>. QED
        BY <4>1, <4>2
    <3>. QED
      BY <2>1, <2>2, <3>1 DEF Threads, ThreadOk
  <2>. QED
    BY <2>3, <2>4, <2>5
<1>6. ASSUME NEW w \in Workers, InSession(w)
      PROVE  Wiring' /\ Slots' /\ Threads' /\ \A d \in Clients : Dialogue(d)'
  <2>1. OwnStep(w)
    BY <1>1, <1>6, SessionSteps
  <2>2. Wiring /\ Slots /\ Threads /\ \A d \in Clients : Dialogue(d)
    BY <2>1 DEF SessionInv, OwnStep
  <2>3. Wiring' /\ Slots'
    BY <1>1, <2>1, <2>2, WiringOwnStep, SlotsKept DEF OwnStep
  <2>4. Threads'
    <3>1. ThreadOk(w)'
      BY <1>1, <1>6, <2>2, ThreadOkKept DEF Threads
    <3>2. \A v \in Workers \ {w} : ThreadOk(v)'
      BY <2>1, <2>2 DEF OwnStep, Threads, ThreadOk
    <3>. QED
      BY <3>1, <3>2 DEF Threads
  <2>5. serves[w] \in Clients /\ UNCHANGED <<cl, asked, described, believes, serves>>
    BY <1>1, <2>1 DEF OwnStep, SessionTypes
  <2>6. ASSUME NEW d \in Clients, serves[w] = d PROVE Dialogue(d)'
    <3>1. ThreadOk(w)
      BY <2>2 DEF Threads
    <3>. QED
      BY <1>1, <1>6, <2>2, <2>6, <3>1, DialogueOwn
  <2>7. ASSUME NEW d \in Clients, d # serves[w] PROVE Dialogue(d)'
    BY <2>1, <2>2, <2>7, DialogueFrame DEF OwnStep
  <2>. QED
    BY <2>3, <2>4, <2>6, <2>7
<1>7. ASSUME NEW w \in Workers, EndSession(w)
      PROVE  Wiring' /\ Slots' /\ Threads' /\ \A d \in Clients : Dialogue(d)'
  <2>1. Wiring /\ Slots /\ Threads /\ \A d \in Clients : Dialogue(d)
    BY <1>7 DEF SessionInv, EndSession
  <2>2. Wiring' /\ \A d \in Clients : Dialogue(d)'
    BY <1>1, <1>7, <2>1, WiringEndSession, DialogueEndSession
  <2>3. /\ \A v \in Workers : my'[v] = my[v] \/ my'[v] = NoXid
        /\ \A v \in Workers \ {w} : my'[v] = my[v] /\ at'[v] = at[v]
        /\ at[w] = "end" /\ at'[w] = "none" /\ my'[w] = NoXid /\ UNCHANGED <<slot, open, query, implicit>>
    BY <1>1, <1>7 DEF EndSession, SessionTypes, Goto
  <2>4. Slots'
    BY <2>1, <2>3 DEF Slots
  <2>5. Threads'
    BY <2>1, <2>3 DEF Threads, ThreadOk
  <2>. QED
    BY <2>2, <2>4, <2>5
<1>. QED
  BY <1>2, <1>3, <1>4, <1>5, <1>6, <1>7 DEF Next, Thread, InSession, StopServer, SigPipe, CommitNothing,
     UndoThrows

\* The invariant of the proof holds always.
THEOREM SessionInvariant == Spec => []SessionInv
<1>1. Init => SessionInv
  BY SessionInit
<1>2. SessionInv /\ [Next]_vars => SessionInv'
  BY SessionNext
<1>. QED
  BY <1>1, <1>2, PTL DEF Spec

\* Client and server stay in step, for any number of clients, workers, queries and
\* rows (Handler.cpp:294-335, client main.cpp handleResponse).
THEOREM SessionsInStep == Spec => []InStep
<1>1. SessionInv => InStep
  <2>. SUFFICES ASSUME SessionInv, ~down, NEW c \in Clients
                PROVE  /\ cl[c] # "broken"
                       /\ cl[c] = "waiting" => AnswersDue(c) = 1
                       /\ cl[c] \in {"out", "idle"} => AnswersDue(c) = 0
                       /\ cl[c] = "waiting" =>
                            \A i \in 1..Len(toClient[c]) : Final(toClient[c][i]) =>
                              i = Len(toClient[c]) /\ toClient[c][i].tag \in {asked[c], NoQuery}
    BY DEF InStep
  <2>. DEFINE s == toClient[c]
              finals == {i \in DOMAIN s : Final(s[i])}
              workers == {w \in Serving(c) : at[w] \notin {"read", "commit", "end"}}
  <2>1. SessionTypes /\ Wiring /\ Dialogue(c)
    BY DEF SessionInv
  <2>2. s \in Seq(Packets)
    BY <2>1 DEF SessionTypes
  <2>3. DOMAIN s = 1..Len(s) /\ Len(s) \in Nat
    BY <2>2
  <2>4. AnswersDue(c) = Cardinality(finals) + Len(toServer[c]) + Cardinality(workers)
    BY DEF AnswersDue, s, finals, workers
  <2>5. Cardinality({}) = 0 /\ \A x : Cardinality({x}) = 1
    BY FS_EmptySet, FS_Singleton
  <2>. HIDE DEF s, finals, workers
  <2>6. CASE cl[c] = "gone"
    BY <2>6
  <2>7. CASE Resting(c) \/ Asking(c)
    <3>1. s = <<>> /\ Settled(c)
      BY <2>7 DEF Resting, Asking, s
    <3>2. finals = {}
      BY <3>1 DEF finals
    <3>3. workers = {}
      BY <3>1 DEF workers, Serving, Settled, Between
    <3>4. CASE Resting(c)
      <4>1. Len(toServer[c]) = 0 /\ cl[c] \in {"out", "idle"}
        BY <3>4 DEF Resting
      <4>. QED
        BY <2>4, <2>5, <3>2, <3>3, <4>1
    <3>5. CASE Asking(c)
      <4>1. Len(toServer[c]) = 1 /\ cl[c] = "waiting"
        BY <3>5 DEF Asking
      <4>. QED
        BY <2>3, <2>4, <2>5, <3>1, <3>2, <3>3, <4>1 DEF s
    <3>. QED
      BY <2>7, <3>4, <3>5
  <2>8. CASE Working(c)
    <3>1. PICK w \in Workers : serves[w] = c /\ at[w] \in AtWork
      BY <2>8 DEF Working
    <3>2. \A v \in Workers : serves[v] = c => v = w
      BY <2>1, <3>1, ClientNumbers DEF Wiring
    <3>3. workers = {w}
      BY <3>1, <3>2 DEF workers, Serving, AtWork
    <3>4. finals = {} /\ Len(toServer[c]) = 0 /\ cl[c] = "waiting"
      BY <2>8 DEF Working, s, finals
    <3>5. \A i \in 1..Len(s) : ~Final(s[i])
      BY <2>3, <2>8 DEF Working, s
    <3>6. Cardinality(finals) = 0 /\ Cardinality(workers) = 1
      BY <2>5, <3>3, <3>4, Zenon
    <3>7. AnswersDue(c) = 1
      BY <2>4, <3>4, <3>6
    <3>. QED
      BY <3>4, <3>5, <3>7 DEF s
  <2>9. CASE Answering(c)
    <3>1. PICK w \in Workers : serves[w] = c /\ at[w] \in Between
      BY <2>9 DEF Answering
    <3>2. \A v \in Workers : serves[v] = c => v = w
      BY <2>1, <3>1, ClientNumbers DEF Wiring
    <3>3. workers = {}
      BY <3>1, <3>2 DEF workers, Serving, Between
    <3>4. s # <<>> /\ \A i \in DOMAIN s : Final(s[i]) <=> i = Len(s)
      BY <2>9 DEF Answering, s
    <3>5. Len(s) \in DOMAIN s
      BY <2>2, <2>3, <3>4
    <3>6. finals = {Len(s)}
      BY <3>4, <3>5 DEF finals
    <3>7. Len(toServer[c]) = 0 /\ cl[c] = "waiting" /\ s[Len(s)].tag \in {asked[c], NoQuery}
      BY <2>9 DEF Answering, s
    <3>8. Cardinality(finals) = 1 /\ Cardinality(workers) = 0
      BY <2>5, <3>3, <3>6, Zenon
    <3>9. AnswersDue(c) = 1
      BY <2>4, <3>7, <3>8
    <3>. QED
      BY <2>3, <3>4, <3>7, <3>9 DEF s
  <2>. QED
    BY <2>1, <2>6, <2>7, <2>8, <2>9 DEF Dialogue
<1>. QED
  BY <1>1, SessionInvariant, PTL

\* Between two queries a thread is in a transaction only if its client was told so and
\* leaves it unasked only with an error, and the slots of the transaction manager hold
\* what the threads take for their transactions (Handler.cpp:143-236).
THEOREM SessionsAgree == Spec => []TransactionAgrees
<1>1. SessionInv => TransactionAgrees
  <2>. SUFFICES ASSUME SessionInv, ~down, NEW w \in Workers
                PROVE  /\ at[w] = "read" /\ cl[serves[w]] = "idle" => (believes[serves[w]] <=> my[w] # NoXid)
                       /\ my[w] # NoXid => my[w] = slot[w] /\ my[w] \in open
                       /\ at[w] \in {"read", "catch"} => ~implicit[w]
    BY DEF TransactionAgrees
  <2>1. SessionTypes /\ Wiring /\ Slots /\ ThreadOk(w)
    BY DEF SessionInv, Threads
  <2>2. my[w] # NoXid => my[w] = slot[w] /\ my[w] \in open
    BY <2>1 DEF Slots
  <2>3. at[w] \in {"read", "catch"} => ~implicit[w]
    BY <2>1 DEF ThreadOk
  <2>4. ASSUME at[w] = "read", cl[serves[w]] = "idle" PROVE believes[serves[w]] <=> my[w] # NoXid
    <3>1. serves[w] \in Clients
      BY <2>1, <2>4 DEF SessionTypes
    <3>2. Dialogue(serves[w])
      BY <3>1 DEF SessionInv
    <3>3. Settled(serves[w])
      BY <2>4, <3>2 DEF Dialogue, Resting, Asking, Working, Answering
    <3>. QED
      BY <2>3, <2>4, <3>3 DEF Settled, Explicit
  <2>. QED
    BY <2>2, <2>3, <2>4
<1>. QED
  BY <1>1, SessionInvariant, PTL
===============================================================================
