--------------------------------- MODULE Wire ---------------------------------
(***************************************************************************)
(* The protocol of libmimi, one direction of a connection: a packet is     *)
(* serialized into a buffer, the buffer is sent in as many pieces as send  *)
(* takes, and the receiver reads the type, the length and the payload,     *)
(* each in as many pieces as recv gives, and deserializes the payload.     *)
(*                                                                         *)
(* A byte is a digit below Radix, and integers have fewer bytes than in    *)
(* the code: the properties depend on neither.                             *)
(***************************************************************************)
EXTENDS Integers, Sequences, SequencesExt

CONSTANTS
  Radix,        \* values of a byte
  Word, Long,   \* bytes of a uint32_t and of an int64_t
  Packets,      \* the packets that are sent
  MaxPackets,   \* bound: packets sent
  Capacity      \* bytes that the connection holds

Codes == [Query |-> 1, CommandComplete |-> 2, TupleDescription |-> 3, DataRow |-> 4, ErrorResponse |-> 5]

\* A packet: its type, its strings (a value that is NULL is <<>>, a string s is
\* <<s>>) and, for CommandComplete, its rows.
ASSUME WireAssumption ==
  /\ {Radix, Word, Long, MaxPackets, Capacity} \subseteq Nat \ {0} /\ Radix > 5
  /\ \A p \in Packets : p.type \in DOMAIN Codes

VARIABLES
  \* The sender: the packets it was told to send, what is left of the buffer in
  \* sendBuffer, and whether it works ("open"), closed the socket, or got an error.
  history, left, sender,
  inFlight,    \* bytes in the connection
  \* The receiver in ReceivePacket: what it reads, how many bytes that has, the
  \* bytes so far and the type; the packets returned; "open", "ended" or "failed".
  reads, need, buffer, type, received, receiver

sendVars == <<history, left, sender>>
recvVars == <<reads, need, buffer, type, received, receiver>>
vars == <<sendVars, inFlight, recvVars>>

-----------------------------------------------------------------------------
(* NetworkWriter and NetworkReader                                          *)

\* An integer in n bytes, the most significant one first.
WriteInt(value, n) == [i \in 1..n |-> ((value % Radix^n) \div Radix^(n - i)) % Radix]

WriteString(s) == WriteInt(Len(s), Word) \o s

UnsignedOf(bytes) ==
  LET value[i \in 0..Len(bytes)] == IF i = 0 THEN 0 ELSE Radix * value[i - 1] + bytes[i]
  IN  value[Len(bytes)]

SignedOf(bytes) ==
  LET u == UnsignedOf(bytes) IN
  IF 2 * u < Radix^Len(bytes) THEN u ELSE u - Radix^Len(bytes)

\* A reader with the value it has just read; ok turns FALSE when it throws.
Reader(bytes) == [bytes |-> bytes, pos |-> 0, ok |-> TRUE, value |-> <<>>]

Fits(r, n) == r.ok /\ r.pos + n <= Len(r.bytes)

ReadBuffer(r, n) ==
  IF Fits(r, n)
    THEN [r EXCEPT !.pos = @ + n, !.value = SubSeq(r.bytes, r.pos + 1, r.pos + n)]
    ELSE [r EXCEPT !.ok = FALSE]

ReadUint32(r) ==
  LET b == ReadBuffer(r, Word) IN
  IF b.ok THEN [b EXCEPT !.value = UnsignedOf(@)] ELSE b

ReadInt64(r) ==
  LET b == ReadBuffer(r, Long) IN
  IF b.ok THEN [b EXCEPT !.value = SignedOf(@)] ELSE b

ReadString(r) ==
  LET n == ReadUint32(r) IN
  IF n.ok THEN ReadBuffer(n, n.value) ELSE n

\* n items, read one after the other with Read.
ReadItems(r, n, Read(_)) ==
  LET items[i \in 0..n] ==
        IF i = 0 THEN [r EXCEPT !.value = <<>>]
        ELSE LET next == Read(items[i - 1]) IN
             [next EXCEPT !.value = IF next.ok THEN Append(items[i - 1].value, @) ELSE <<>>]
  IN  items[n]

-----------------------------------------------------------------------------
(* Serialization                                                            *)

NullLength == Radix^Word - 1    \* static_cast<uint32_t>(-1)

StringSize(s) == Word + Len(s)

QuerySize(p) == StringSize(p.items[1][1])
ErrorResponseSize(p) == StringSize(p.items[1][1])
CommandCompleteSize(p) == StringSize(p.items[1][1]) + Long

SumOfSizes(p, Size(_)) == Word + FoldLeft(LAMBDA n, item : n + Size(item), 0, p.items)

TupleDescriptionSize(p) == SumOfSizes(p, LAMBDA item : StringSize(item[1]))
DataRowSize(p) == SumOfSizes(p, LAMBDA item : IF item = <<>> THEN Word ELSE StringSize(item[1]))

VisitQuery(p) == WriteString(p.items[1][1])
VisitErrorResponse(p) == WriteString(p.items[1][1])
VisitCommandComplete(p) == WriteString(p.items[1][1]) \o WriteInt(p.rows, Long)

Counted(p, Item(_)) ==
  WriteInt(Len(p.items), Word) \o FlattenSeq([i \in DOMAIN p.items |-> Item(p.items[i])])

VisitTupleDescription(p) == Counted(p, LAMBDA item : WriteString(item[1]))
VisitDataRow(p) ==
  Counted(p, LAMBDA item : IF item = <<>> THEN WriteInt(-1, Word) ELSE WriteString(item[1]))

PayloadSize(p) ==
  CASE p.type = "Query" -> QuerySize(p) [] p.type = "ErrorResponse" -> ErrorResponseSize(p)
    [] p.type = "CommandComplete" -> CommandCompleteSize(p)
    [] p.type = "TupleDescription" -> TupleDescriptionSize(p) [] p.type = "DataRow" -> DataRowSize(p)

Payload(p) ==
  CASE p.type = "Query" -> VisitQuery(p) [] p.type = "ErrorResponse" -> VisitErrorResponse(p)
    [] p.type = "CommandComplete" -> VisitCommandComplete(p)
    [] p.type = "TupleDescription" -> VisitTupleDescription(p) [] p.type = "DataRow" -> VisitDataRow(p)

\* visit_base and the visitor: a buffer of the computed size, with the type, the
\* length of payload and length field, and the payload. What the visitor does not
\* write stays zero; more than fits is an exception, so there is no buffer.
Serialize(p) ==
  LET size  == 1 + Word + PayloadSize(p)
      bytes == <<Codes[p.type]>> \o WriteInt(PayloadSize(p) + Word, Word) \o Payload(p) IN
  IF Len(bytes) > size THEN <<>>
  ELSE bytes \o [i \in 1..(size - Len(bytes)) |-> 0]

-----------------------------------------------------------------------------
(* Deserialization: a reader at its end, with the packet                    *)

Packet(t, r, items, rows) == [ok |-> r.ok, packet |-> [type |-> t, items |-> items, rows |-> rows]]

OneString(t, bytes) == LET r == ReadString(Reader(bytes)) IN Packet(t, r, << <<r.value>> >>, 0)

DeserializeQuery(bytes) == OneString("Query", bytes)
DeserializeErrorResponse(bytes) == OneString("ErrorResponse", bytes)

DeserializeCommandComplete(bytes) ==
  LET tag == ReadString(Reader(bytes))
      rows == ReadInt64(tag) IN
  Packet("CommandComplete", rows, << <<tag.value>> >>, rows.value)

\* One value of a row: its length, or that it is NULL.
ReadValue(r) ==
  LET n == ReadUint32(r) IN
  IF ~n.ok THEN n
  ELSE IF n.value = NullLength THEN [n EXCEPT !.value = <<>>]
  ELSE LET s == ReadBuffer(n, n.value) IN [s EXCEPT !.value = <<@>>]

ReadName(r) == LET s == ReadString(r) IN [s EXCEPT !.value = <<@>>]

ReadCounted(t, bytes, Read(_)) ==
  LET n == ReadUint32(Reader(bytes)) IN
  IF ~n.ok THEN Packet(t, n, <<>>, 0)
  ELSE LET r == ReadItems(n, n.value, Read) IN Packet(t, r, r.value, 0)

DeserializeTupleDescription(bytes) == ReadCounted("TupleDescription", bytes, ReadName)
DeserializeDataRow(bytes) == ReadCounted("DataRow", bytes, ReadValue)

Deserialize(code, bytes) ==
  CASE code = Codes.Query -> DeserializeQuery(bytes)
    [] code = Codes.ErrorResponse -> DeserializeErrorResponse(bytes)
    [] code = Codes.CommandComplete -> DeserializeCommandComplete(bytes)
    [] code = Codes.TupleDescription -> DeserializeTupleDescription(bytes)
    [] code = Codes.DataRow -> DeserializeDataRow(bytes)

-----------------------------------------------------------------------------
Init ==
  /\ history = <<>> /\ left = <<>> /\ sender = "open"
  /\ inFlight = <<>>
  /\ reads = "type" /\ need = 1 /\ buffer = <<>> /\ type = 0
  /\ received = <<>> /\ receiver = "open"

(* The sender                                                               *)

SendPacket(p) ==
  /\ sender = "open" /\ left = <<>> /\ Len(history) < MaxPackets
  /\ left' = Serialize(p)
  /\ history' = Append(history, p)
  /\ sender' = IF Serialize(p) = <<>> THEN "failed" ELSE sender
  /\ UNCHANGED <<inFlight, recvVars>>

\* One turn of the loop of sendBuffer: send takes some of what is left.
SendSome ==
  /\ sender = "open" /\ left # <<>>
  /\ \E n \in 1..Len(left) :
       /\ Len(inFlight) + n <= Capacity
       /\ inFlight' = inFlight \o SubSeq(left, 1, n)
       /\ left' = SubSeq(left, n + 1, Len(left))
  /\ UNCHANGED <<history, sender, recvVars>>

\* send fails once the receiver has closed its end.
SendFails ==
  /\ sender = "open" /\ left # <<>> /\ receiver # "open"
  /\ sender' = "failed"
  /\ UNCHANGED <<history, left, inFlight, recvVars>>

\* Close, or the end of the process in the middle of a packet.
Close ==
  /\ sender = "open" /\ sender' = "closed"
  /\ UNCHANGED <<history, left, inFlight, recvVars>>

-----------------------------------------------------------------------------
(* The receiver, in ReceivePacket                                           *)

ReadNext(what, n) == reads' = what /\ need' = n /\ buffer' = <<>>

Throw == receiver' = "failed" /\ ReadNext("type", 1) /\ type' = 0 /\ UNCHANGED received

\* A payload of this type is complete.
PacketDone(code, bytes) ==
  LET d == Deserialize(code, bytes) IN
  IF ~d.ok THEN Throw
  ELSE /\ received' = Append(received, d.packet)
       /\ ReadNext("type", 1) /\ type' = 0 /\ UNCHANGED receiver

\* All the bytes asked for are there: the type is checked, then the length, which
\* includes its own size, then the payload is deserialized. An empty payload needs
\* no recv.
Handle(bytes) ==
  CASE reads = "type" ->
         IF bytes[1] \notin {Codes[t] : t \in DOMAIN Codes} THEN Throw
         ELSE ReadNext("length", Word) /\ type' = bytes[1] /\ UNCHANGED <<received, receiver>>
    [] reads = "length" ->
         LET length == UnsignedOf(bytes) IN
         IF length < Word THEN Throw
         ELSE IF length = Word THEN PacketDone(type, <<>>)
         ELSE ReadNext("payload", length - Word) /\ UNCHANGED <<type, received, receiver>>
    [] reads = "payload" -> PacketDone(type, bytes)

\* Mutant: recv is called once, whatever it returns.
ReceiveSomeOnce ==
  /\ receiver = "open" /\ inFlight # <<>>
  /\ \E n \in 1..need :
       /\ n <= Len(inFlight)
       /\ inFlight' = SubSeq(inFlight, n + 1, Len(inFlight))
       /\ Handle(SubSeq(inFlight, 1, n) \o [i \in 1..(need - n) |-> 0])
  /\ UNCHANGED sendVars

\* One turn of the loop of recvBuffer or recvBufferOpt.
ReceiveSome ==
  /\ receiver = "open" /\ inFlight # <<>>
  /\ \E n \in 1..(need - Len(buffer)) :
       /\ n <= Len(inFlight)
       /\ inFlight' = SubSeq(inFlight, n + 1, Len(inFlight))
       /\ LET bytes == buffer \o SubSeq(inFlight, 1, n) IN
          IF Len(bytes) = need THEN Handle(bytes)
          ELSE buffer' = bytes /\ UNCHANGED <<reads, need, type, received, receiver>>
  /\ UNCHANGED sendVars

\* recv returns 0: no more packets if it was for a type, else an exception.
ReceiveEnd ==
  /\ receiver = "open" /\ sender # "open" /\ inFlight = <<>>
  /\ receiver' = IF reads = "type" THEN "ended" ELSE "failed"
  /\ UNCHANGED <<sendVars, inFlight, reads, need, buffer, type, received>>

\* The connection is reset, with what it holds: recv returns an error.
ConnectionReset ==
  /\ receiver = "open" /\ receiver' = "failed" /\ inFlight' = <<>>
  /\ UNCHANGED <<sendVars, reads, need, buffer, type, received>>

Next ==
  \/ \E p \in Packets : SendPacket(p)
  \/ SendSome \/ SendFails \/ Close
  \/ ReceiveSome \/ ReceiveEnd \/ ConnectionReset

Readable == receiver = "open" /\ inFlight # <<>>

\* The receiver reads on: weak fairness of ReceiveSome, which is enabled exactly when
\* there is something to read. Nobody has to send or to close.
Spec == Init /\ [][Next]_vars /\ ([]<>~Readable \/ []<><<ReceiveSome>>_vars)

-----------------------------------------------------------------------------
\* What is asked of a packet by itself: its buffer is a type, a length that counts
\* everything behind the type, and a payload from which the packet is read back.
ReadsBack(p) ==
  LET bytes == Serialize(p) IN
  /\ bytes \in Seq(Int) /\ Len(bytes) > Word
  /\ bytes[1] = Codes[p.type]
  /\ UnsignedOf(SubSeq(bytes, 2, Word + 1)) = Len(bytes) - 1
  /\ Deserialize(bytes[1], SubSeq(bytes, Word + 2, Len(bytes))) = [ok |-> TRUE, packet |-> p]

\* The packets whose last byte was taken by send.
CompletelySent == IF left = <<>> /\ sender # "failed" THEN history
                  ELSE SubSeq(history, 1, Len(history) - 1)

Channel == INSTANCE PacketChannel WITH sent <- CompletelySent

\* However send and recv cut the stream, and wherever it ends, the receiver gets the
\* packets that were sent in full, in order, unchanged and once, and every one of
\* them in the end, unless ReceivePacket throws; it returns the null pointer only
\* after the last of them (MimiClient.cpp:174-234).
ImplementsChannel == Channel!ChannelSpec
=============================================================================
