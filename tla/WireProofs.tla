----------------------------- MODULE WireProofs -----------------------------
(***************************************************************************)
(* Proofs about Wire: however the stream is cut and wherever it ends, the  *)
(* receiver gets the packets that were sent in full, in order, unchanged   *)
(* and once, for any packets, any number of them and any capacity of the   *)
(* connection. That a single packet is read back from its own bytes is a   *)
(* premise, which is about the serialization alone.                        *)
(***************************************************************************)
EXTENDS Wire, SequenceTheorems, TLAPS

PacketsReadBack == \A p \in Packets : ReadsBack(p)

-----------------------------------------------------------------------------
(* Sequences                                                                *)

\* Sequences, element by element.
LEMMA SeqElem == ASSUME NEW S, NEW s \in Seq(S) PROVE
  /\ Len(s) \in Nat /\ DOMAIN s = 1..Len(s) /\ \A i \in 1..Len(s) : s[i] \in S
  /\ s = <<>> <=> Len(s) = 0
  OBVIOUS

\* A sequence is cut in two.
LEMMA SeqCut ==
  ASSUME NEW S, NEW s \in Seq(S), NEW n \in 0..Len(s)
  PROVE  /\ SubSeq(s, 1, n) \in Seq(S) /\ Len(SubSeq(s, 1, n)) = n
         /\ SubSeq(s, n + 1, Len(s)) \in Seq(S) /\ Len(SubSeq(s, n + 1, Len(s))) = Len(s) - n
         /\ \A i \in 1..n : SubSeq(s, 1, n)[i] = s[i]
         /\ \A i \in 1..(Len(s) - n) : SubSeq(s, n + 1, Len(s))[i] = s[n + i]
<1>1. Len(s) \in Nat /\ \A i \in 1..Len(s) : s[i] \in S
  BY SeqElem
<1>2. n \in Int /\ n + 1 \in Int /\ Len(s) \in Int
  BY <1>1
<1>3. /\ SubSeq(s, 1, n) \in Seq(S) /\ Len(SubSeq(s, 1, n)) = (IF 1 <= n THEN n - 1 + 1 ELSE 0)
      /\ \A i \in 1..(n - 1 + 1) : SubSeq(s, 1, n)[i] = s[1 + i - 1]
  <2>1. \A i \in 1..n : s[i] \in S
    BY <1>1
  <2>. QED
    BY <1>2, <2>1, SubSeqProperties
<1>4. /\ SubSeq(s, n + 1, Len(s)) \in Seq(S)
      /\ Len(SubSeq(s, n + 1, Len(s))) = (IF n + 1 <= Len(s) THEN Len(s) - (n + 1) + 1 ELSE 0)
      /\ \A i \in 1..(Len(s) - (n + 1) + 1) : SubSeq(s, n + 1, Len(s))[i] = s[(n + 1) + i - 1]
  <2>1. \A i \in (n + 1)..Len(s) : s[i] \in S
    BY <1>1
  <2>. QED
    BY <1>2, <2>1, SubSeqProperties
<1>. QED
  BY <1>1, <1>3, <1>4

\* A part of a sequence is what has its length and its elements.
LEMMA SeqPart ==
  ASSUME NEW S, NEW s \in Seq(S), NEW m \in Nat, NEW n \in 0..Len(s), m > 0, NEW t \in Seq(S),
         Len(t) = n - m + 1, \A i \in 1..Len(t) : t[i] = s[m + i - 1]
  PROVE  SubSeq(s, m, n) = t
<1>1. Len(s) \in Nat /\ Len(t) \in Nat /\ \A i \in m..n : s[i] \in S
  BY SeqElem
<1>2. /\ SubSeq(s, m, n) \in Seq(S) /\ Len(SubSeq(s, m, n)) = (IF m <= n THEN n - m + 1 ELSE 0)
      /\ \A i \in 1..(n - m + 1) : SubSeq(s, m, n)[i] = s[m + i - 1]
  BY <1>1, SubSeqProperties
<1>3. Len(SubSeq(s, m, n)) = Len(t)
  BY <1>1, <1>2
<1>4. \A i \in 1..Len(t) : SubSeq(s, m, n)[i] = t[i]
  BY <1>2
<1>. QED
  BY <1>2, <1>3, <1>4, SeqEqual

\* Two sequences, one after the other.
LEMMA SeqJoin ==
  ASSUME NEW S, NEW s \in Seq(S), NEW t \in Seq(S)
  PROVE  /\ s \o t \in Seq(S) /\ Len(s \o t) = Len(s) + Len(t)
         /\ \A i \in 1..Len(s) : (s \o t)[i] = s[i]
         /\ \A i \in 1..Len(t) : (s \o t)[Len(s) + i] = t[i]
<1>1. Len(s) \in Nat /\ Len(t) \in Nat
  BY SeqElem
<1>2. /\ s \o t \in Seq(S) /\ Len(s \o t) = Len(s) + Len(t)
      /\ \A i \in 1..(Len(s) + Len(t)) : (s \o t)[i] = IF i <= Len(s) THEN s[i] ELSE t[i - Len(s)]
  BY ConcatProperties
<1>. QED
  BY <1>1, <1>2

\* A longer sequence.
LEMMA SeqAppend == ASSUME NEW S, NEW s \in Seq(S), NEW e \in S PROVE
  /\ Append(s, e) \in Seq(S) /\ Len(Append(s, e)) = Len(s) + 1
  /\ Append(s, e)[Len(s) + 1] = e /\ \A i \in 1..Len(s) : Append(s, e)[i] = s[i]
  OBVIOUS

-----------------------------------------------------------------------------
(* The invariant                                                            *)

Bytes == Seq(Int)

\* What sender and receiver hold.
Held ==
  /\ history \in Seq(Packets) /\ received \in Seq(Packets)
  /\ left \in Bytes /\ inFlight \in Bytes /\ buffer \in Bytes
  /\ left # <<>> => Len(history) > 0 /\ Len(left) <= Len(Serialize(history[Len(history)]))
  /\ sender = "failed" => left # <<>>

\* The stream: the buffers of all packets, one after the other; that of packet i ends at
\* ends[i].
Stream(ends, stream) ==
  /\ stream \in Bytes /\ ends \in [0..Len(history) -> Nat]
  /\ ends[0] = 0 /\ ends[Len(history)] = Len(stream)
  /\ \A i \in 1..Len(history) :
       /\ ends[i] = ends[i - 1] + Len(Serialize(history[i]))
       /\ \A j \in 1..Len(Serialize(history[i])) : stream[ends[i - 1] + j] = Serialize(history[i])[j]
  /\ \A i, j \in 0..Len(history) : i < j => ends[i] < ends[j]

\* The bytes of a packet before those that the receiver asks for.
Before == IF reads = "type" THEN 0 ELSE IF reads = "length" THEN 1 ELSE Word + 1

\* Where in the stream the bytes are that the receiver asked for.
From(ends) == ends[Len(received)] + Before

\* The packet that the receiver is in.
Current == history[Len(received) + 1]

\* The packets received are the first ones of the stream; behind them come the bytes that
\* the receiver has, those in the connection and those that the sender has left.
Position(ends, stream) ==
  /\ Len(received) <= Len(history) /\ \A i \in 1..Len(received) : received[i] = history[i]
  /\ Len(stream) = From(ends) + Len(buffer) + Len(inFlight) + Len(left)
  /\ \A j \in 1..Len(buffer) : buffer[j] = stream[From(ends) + j]
  /\ \A j \in 1..Len(inFlight) : inFlight[j] = stream[From(ends) + Len(buffer) + j]
  /\ \A j \in 1..Len(left) : left[j] = stream[From(ends) + Len(buffer) + Len(inFlight) + j]

\* What it asks for is the next part of that packet.
Reading ==
  /\ Len(buffer) < need
  /\ \/ reads = "type" /\ need = 1
     \/ /\ reads \in {"length", "payload"} /\ Len(received) < Len(history) /\ type = Codes[Current.type]
        /\ need = IF reads = "length" THEN Word ELSE Len(Serialize(Current)) - 1 - Word

InStream == \E ends, stream : Stream(ends, stream) /\ Position(ends, stream)

WireInv == Held /\ (receiver = "open" => InStream /\ Reading)

LEMMA Numbers == Word \in Nat /\ Word > 0
  BY WireAssumption

LEMMA WireInit == Init => WireInv
<1>. SUFFICES ASSUME Init PROVE WireInv
  OBVIOUS
<1>. USE DEF Init
<1>1. Held
  BY DEF Held, Bytes
<1>2. PICK ends : ends = [i \in 0..0 |-> 0]
  OBVIOUS
<1>3. Len(<<>>) = 0 /\ <<>> \in Seq(Int)
  OBVIOUS
<1>4. Stream(ends, <<>>)
  BY <1>2, <1>3 DEF Stream, Bytes
<1>5. Position(ends, <<>>)
  BY <1>2, <1>3 DEF Position, From, Before
<1>6. Reading
  BY <1>3 DEF Reading
<1>. QED
  BY <1>1, <1>4, <1>5, <1>6 DEF WireInv, InStream

\* The buffer of a packet.
LEMMA BufferOf ==
  ASSUME PacketsReadBack, NEW p \in Packets
  PROVE  /\ Serialize(p) \in Bytes /\ Len(Serialize(p)) \in Nat /\ Len(Serialize(p)) > Word
         /\ Serialize(p) # <<>>
<1>1. Serialize(p) \in Bytes /\ Len(Serialize(p)) > Word
  BY DEF PacketsReadBack, ReadsBack, Bytes
<1>2. Len(Serialize(p)) \in Nat /\ (Serialize(p) = <<>> => Len(Serialize(p)) = 0)
  BY <1>1, SeqElem DEF Bytes
<1>. QED
  BY <1>1, <1>2, Numbers

\* The lengths of what is held.
LEMMA HeldParts ==
  ASSUME Held
  PROVE  /\ Len(history) \in Nat /\ \A i \in 1..Len(history) : history[i] \in Packets
         /\ Len(received) \in Nat /\ \A i \in 1..Len(received) : received[i] \in Packets
         /\ Len(left) \in Nat /\ (left = <<>> <=> Len(left) = 0)
         /\ Len(inFlight) \in Nat /\ (inFlight = <<>> <=> Len(inFlight) = 0)
         /\ Len(buffer) \in Nat /\ (buffer = <<>> <=> Len(buffer) = 0)
  BY SeqElem DEF Held, Bytes

\* A packet is added to the stream.
LEMMA SendPacketStep ==
  ASSUME PacketsReadBack, WireInv, NEW p \in Packets, SendPacket(p)
  PROVE  WireInv'
<1>. DEFINE n == Len(history)
            b == Serialize(p)
<1>1. /\ sender = "open" /\ left = <<>> /\ left' = b /\ history' = Append(history, p) /\ sender' = "open"
      /\ inFlight' = inFlight /\ reads' = reads /\ need' = need /\ buffer' = buffer /\ type' = type
      /\ received' = received /\ receiver' = receiver
  BY BufferOf DEF SendPacket, recvVars
<1>2. Held /\ b \in Bytes /\ Len(b) \in Nat /\ Len(b) > 0
  BY BufferOf, Numbers DEF WireInv
<1>3. /\ n \in Nat /\ history' \in Seq(Packets) /\ Len(history') = n + 1 /\ history'[n + 1] = p
      /\ \A i \in 1..n : history'[i] = history[i]
  BY <1>1, <1>2, HeldParts, SeqAppend DEF Held
<1>4. Held'
  <2>1. history'[Len(history')] = p
    BY <1>3
  <2>. QED
    BY <1>1, <1>2, <1>3, <2>1 DEF Held
<1>5. ASSUME receiver = "open" PROVE InStream' /\ Reading'
  <2>1. InStream /\ Reading
    BY <1>5 DEF WireInv
  <2>2. PICK ends, stream : Stream(ends, stream) /\ Position(ends, stream)
    BY <2>1 DEF InStream
  <2>3. PICK longer : longer = stream \o b
    OBVIOUS
  <2>4. PICK later : later = [i \in 0..(n + 1) |-> IF i <= n THEN ends[i] ELSE ends[n] + Len(b)]
    OBVIOUS
  <2>5. stream \in Bytes /\ Len(stream) \in Nat /\ ends \in [0..n -> Nat] /\ ends[n] = Len(stream) /\ ends[0] = 0
    BY <2>2, SeqElem DEF Stream, Bytes
  <2>6. /\ longer \in Bytes /\ Len(longer) = Len(stream) + Len(b)
        /\ \A j \in 1..Len(stream) : longer[j] = stream[j]
        /\ \A j \in 1..Len(b) : longer[Len(stream) + j] = b[j]
    BY <1>2, <2>3, <2>5, SeqJoin DEF Bytes
  <2>7. /\ later \in [0..(n + 1) -> Nat] /\ \A i \in 0..n : later[i] = ends[i]
        /\ later[n + 1] = Len(stream) + Len(b)
    <3>. HIDE DEF n, b
    <3>1. ends[n] + Len(b) \in Nat /\ ~(n + 1 <= n) /\ \A i \in 0..n : i <= n /\ i \in 0..(n + 1) /\ ends[i] \in Nat
      BY <1>2, <1>3, <2>5
    <3>2. \A i \in 0..(n + 1) : i <= n => i \in 0..n
      BY <1>3
    <3>3. n + 1 \in 0..(n + 1)
      BY <1>3
    <3>. QED
      BY <2>4, <2>5, <3>1, <3>2, <3>3
  <2>8. Stream(later, longer)'
    <3>. HIDE DEF n, b
    <3>1. /\ \A i \in 1..n : ends[i] = ends[i - 1] + Len(Serialize(history[i]))
          /\ \A i \in 1..n : \A j \in 1..Len(Serialize(history[i])) : stream[ends[i - 1] + j] = Serialize(history[i])[j]
          /\ \A i, j \in 0..n : i < j => ends[i] < ends[j]
      BY <2>2 DEF Stream, n
    <3>2. ASSUME NEW i \in 1..(n + 1)
          PROVE  /\ later[i] = later[i - 1] + Len(Serialize(history'[i]))
                 /\ \A j \in 1..Len(Serialize(history'[i])) : longer[later[i - 1] + j] = Serialize(history'[i])[j]
      <4>1. CASE i \in 1..n
        <5>1. i - 1 \in 0..n /\ i \in 0..n
          BY <1>3, <4>1
        <5>2. history'[i] = history[i] /\ later[i] = ends[i] /\ later[i - 1] = ends[i - 1]
          BY <1>3, <2>7, <4>1, <5>1
        <5>3. ends[i] <= Len(stream) /\ ends[i] \in Nat /\ ends[i - 1] \in Nat
          <6>1. i < n => ends[i] < ends[n]
            BY <1>3, <3>1, <5>1
          <6>2. ends[i] \in Nat /\ ends[i - 1] \in Nat
            BY <2>5, <5>1
          <6>. QED
            BY <1>3, <2>5, <4>1, <6>1, <6>2
        <5>4. Len(Serialize(history[i])) \in Nat
          BY <1>2, <4>1, BufferOf, HeldParts DEF n
        <5>5. ASSUME NEW j \in 1..Len(Serialize(history[i]))
              PROVE  longer[ends[i - 1] + j] = Serialize(history[i])[j]
          <6>1. ends[i] = ends[i - 1] + Len(Serialize(history[i]))
            BY <3>1, <4>1
          <6>2. ends[i - 1] + j \in 1..Len(stream)
            BY <2>5, <5>3, <5>4, <6>1
          <6>3. longer[ends[i - 1] + j] = stream[ends[i - 1] + j]
            BY <2>6, <6>2
          <6>4. stream[ends[i - 1] + j] = Serialize(history[i])[j]
            BY <3>1, <4>1
          <6>. QED
            BY <6>3, <6>4
        <5>. QED
          BY <3>1, <4>1, <5>2, <5>5
      <4>2. CASE i = n + 1
        <5>1. history'[i] = p /\ i - 1 = n /\ later[i] = Len(stream) + Len(b) /\ later[i - 1] = Len(stream)
          BY <1>3, <2>5, <2>7, <4>2
        <5>. QED
          BY <2>6, <5>1 DEF b
      <4>. QED
        BY <1>3, <4>1, <4>2
    <3>3. ASSUME NEW i \in 0..(n + 1), NEW j \in 0..(n + 1), i < j PROVE later[i] < later[j]
      <4>1. i \in 0..n /\ (j \in 0..n \/ j = n + 1)
        BY <1>3, <3>3
      <4>2. ends[i] <= ends[n] /\ ends[i] \in Nat
        <5>1. n \in 0..n /\ (i < n \/ i = n)
          BY <1>3, <4>1
        <5>2. ends[i] \in Nat /\ ends[n] \in Nat
          BY <2>5, <4>1, <5>1
        <5>. QED
          BY <3>1, <4>1, <5>1, <5>2
      <4>. QED
        BY <1>2, <2>5, <2>7, <3>1, <3>3, <4>1, <4>2
    <3>4. later[0] = 0 /\ later[Len(history')] = Len(longer)
      BY <1>3, <2>5, <2>6, <2>7
    <3>. QED
      BY <1>3, <2>6, <2>7, <3>2, <3>3, <3>4 DEF Stream
  <2>9. Position(later, longer)'
    <3>. HIDE DEF n, b
    <3>1. /\ Len(received) <= n /\ (\A i \in 1..Len(received) : received[i] = history[i])
          /\ Len(stream) = From(ends) + Len(buffer) + Len(inFlight) + Len(left)
          /\ \A j \in 1..Len(buffer) : buffer[j] = stream[From(ends) + j]
          /\ \A j \in 1..Len(inFlight) : inFlight[j] = stream[From(ends) + Len(buffer) + j]
      BY <2>2 DEF Position, n
    <3>2. /\ Len(received) \in Nat /\ Len(buffer) \in Nat /\ Len(inFlight) \in Nat /\ Len(left) = 0
      BY <1>1, <1>2, HeldParts
    <3>3. Len(received) \in 0..n
      BY <1>3, <3>1, <3>2
    <3>4. From(later)' = From(ends) /\ From(ends) \in Nat
      <4>1. Before' = Before /\ Before \in Nat
        BY <1>1, Numbers DEF Before
      <4>2. later[Len(received')] = ends[Len(received)] /\ ends[Len(received)] \in Nat
        BY <1>1, <2>5, <2>7, <3>3
      <4>. QED
        BY <4>1, <4>2 DEF From
    <3>5. Len(received') <= Len(history') /\ \A i \in 1..Len(received') : received'[i] = history'[i]
      BY <1>1, <1>3, <3>1, <3>2
    <3>6. /\ Len(longer) = From(ends) + Len(buffer) + Len(inFlight) + Len(b)
          /\ Len(stream) = From(ends) + Len(buffer) + Len(inFlight)
      BY <1>2, <2>5, <2>6, <3>1, <3>2, <3>4
    <3>7. \A j \in 1..Len(buffer) : buffer[j] = longer[From(ends) + j]
      <4>. SUFFICES ASSUME NEW j \in 1..Len(buffer) PROVE buffer[j] = longer[From(ends) + j]
        OBVIOUS
      <4>1. From(ends) + j \in 1..Len(stream)
        BY <3>2, <3>4, <3>6
      <4>. QED
        BY <2>6, <3>1, <4>1
    <3>8. \A j \in 1..Len(inFlight) : inFlight[j] = longer[From(ends) + Len(buffer) + j]
      <4>. SUFFICES ASSUME NEW j \in 1..Len(inFlight) PROVE inFlight[j] = longer[From(ends) + Len(buffer) + j]
        OBVIOUS
      <4>1. From(ends) + Len(buffer) + j \in 1..Len(stream)
        BY <3>2, <3>4, <3>6
      <4>. QED
        BY <2>6, <3>1, <4>1
    <3>9. \A j \in 1..Len(b) : b[j] = longer[From(ends) + Len(buffer) + Len(inFlight) + j]
      <4>. SUFFICES ASSUME NEW j \in 1..Len(b) PROVE b[j] = longer[From(ends) + Len(buffer) + Len(inFlight) + j]
        OBVIOUS
      <4>1. b[j] = longer[Len(stream) + j]
        BY <2>6
      <4>. QED
        BY <3>6, <4>1
    <3>. QED
      BY <1>1, <3>4, <3>5, <3>6, <3>7, <3>8, <3>9 DEF Position, b
  <2>10. Reading'
    <3>1. Len(received) \in Nat
      BY <1>2, HeldParts
    <3>2. Len(received) < n => Current' = Current /\ Len(received') < Len(history')
      BY <1>1, <1>3, <3>1 DEF Current
    <3>. QED
      BY <1>1, <2>1, <3>2 DEF Reading
  <2>. QED
    BY <2>8, <2>9, <2>10 DEF InStream
<1>. QED
  BY <1>1, <1>4, <1>5 DEF WireInv

LEMMA StreamStays ==
  ASSUME NEW CONSTANT ends, NEW CONSTANT stream, Stream(ends, stream), history' = history
  PROVE  Stream(ends, stream)'
  BY DEF Stream

\* Some of the last buffer goes into the connection.
LEMMA SendSomeStep ==
  ASSUME WireInv, SendSome
  PROVE  WireInv'
<1>1. /\ sender = "open" /\ left # <<>> /\ history' = history /\ sender' = sender /\ reads' = reads
      /\ need' = need /\ buffer' = buffer /\ type' = type /\ received' = received /\ receiver' = receiver
  BY DEF SendSome, recvVars
<1>2. PICK n \in 1..Len(left) : /\ inFlight' = inFlight \o SubSeq(left, 1, n)
                                /\ left' = SubSeq(left, n + 1, Len(left))
  BY DEF SendSome
<1>3. Held
  BY DEF WireInv
<1>4. Len(left) \in Nat /\ Len(inFlight) \in Nat /\ Len(buffer) \in Nat /\ n \in 0..Len(left)
  BY <1>3, HeldParts
<1>5. /\ left' \in Bytes /\ Len(left') = Len(left) - n /\ SubSeq(left, 1, n) \in Bytes
      /\ Len(SubSeq(left, 1, n)) = n /\ (\A i \in 1..n : SubSeq(left, 1, n)[i] = left[i])
      /\ \A i \in 1..(Len(left) - n) : left'[i] = left[n + i]
  <2>1. left \in Seq(Int) /\ n \in 0..Len(left)
    BY <1>3, <1>4 DEF Held, Bytes
  <2>2. /\ SubSeq(left, 1, n) \in Seq(Int) /\ Len(SubSeq(left, 1, n)) = n
        /\ SubSeq(left, n + 1, Len(left)) \in Seq(Int) /\ Len(SubSeq(left, n + 1, Len(left))) = Len(left) - n
        /\ \A i \in 1..n : SubSeq(left, 1, n)[i] = left[i]
        /\ \A i \in 1..(Len(left) - n) : SubSeq(left, n + 1, Len(left))[i] = left[n + i]
    BY <2>1, SeqCut
  <2>. QED
    BY <1>2, <2>2, Zenon DEF Bytes
<1>6. /\ inFlight' \in Bytes /\ Len(inFlight') = Len(inFlight) + n
      /\ \A i \in 1..Len(inFlight) : inFlight'[i] = inFlight[i]
      /\ \A i \in 1..n : inFlight'[Len(inFlight) + i] = left[i]
  <2>1. inFlight \in Seq(Int) /\ SubSeq(left, 1, n) \in Seq(Int)
    BY <1>3, <1>5 DEF Held, Bytes
  <2>2. PICK piece : piece = SubSeq(left, 1, n)
    OBVIOUS
  <2>3. /\ inFlight \o piece \in Seq(Int) /\ Len(inFlight \o piece) = Len(inFlight) + Len(piece)
        /\ \A i \in 1..Len(inFlight) : (inFlight \o piece)[i] = inFlight[i]
        /\ \A i \in 1..Len(piece) : (inFlight \o piece)[Len(inFlight) + i] = piece[i]
    BY <2>1, <2>2, SeqJoin
  <2>4. Len(piece) = n /\ inFlight' = inFlight \o piece /\ \A i \in 1..n : piece[i] = left[i]
    BY <1>2, <1>5, <2>2
  <2>. QED
    BY <2>3, <2>4 DEF Bytes
<1>7. Held'
  <2>1. Len(history) > 0 /\ Len(left) <= Len(Serialize(history[Len(history)]))
    BY <1>1, <1>3 DEF Held
  <2>3. Len(left') <= Len(Serialize(history[Len(history)]))
    BY <1>4, <1>5, <2>1
  <2>. QED
    BY <1>1, <1>3, <1>5, <1>6, <2>1, <2>3 DEF Held
<1>8. ASSUME receiver = "open" PROVE InStream' /\ Reading'
  <2>1. PICK ends, stream : Stream(ends, stream) /\ Position(ends, stream)
    BY <1>8 DEF WireInv, InStream
  <2>2. Stream(ends, stream)'
    BY <1>1, <2>1, StreamStays
  <2>3. From(ends)' = From(ends)
    BY <1>1 DEF From, Before
  <2>4. From(ends) \in Nat
    <3>1. Len(received) \in 0..Len(history)
      BY <1>3, <2>1, HeldParts DEF Position
    <3>2. ends[Len(received)] \in Nat
      BY <2>1, <3>1 DEF Stream
    <3>. QED
      BY <3>2, Numbers DEF From, Before
  <2>5. Position(ends, stream)'
    <3>1. PICK f : f = From(ends) + Len(buffer)
      OBVIOUS
    <3>2. /\ f \in Nat /\ Len(stream) = f + Len(inFlight) + Len(left)
          /\ \A j \in 1..Len(inFlight) : inFlight[j] = stream[f + j]
          /\ \A j \in 1..Len(left) : left[j] = stream[f + Len(inFlight) + j]
      BY <1>4, <2>1, <2>4, <3>1 DEF Position
    <3>3. Len(stream) = f + Len(inFlight') + Len(left')
      BY <1>4, <1>5, <1>6, <3>2
    <3>4. ASSUME NEW j \in 1..Len(inFlight') PROVE inFlight'[j] = stream[f + j]
      <4>1. CASE j \in 1..Len(inFlight)
        BY <1>6, <3>2, <4>1
      <4>2. CASE j \notin 1..Len(inFlight)
        <5>1. j - Len(inFlight) \in 1..n /\ j = Len(inFlight) + (j - Len(inFlight))
          BY <1>4, <1>6, <3>4, <4>2
        <5>2. PICK i \in 1..n : j = Len(inFlight) + i
          BY <5>1
        <5>3. inFlight'[j] = left[i] /\ i \in 1..Len(left)
          BY <1>4, <1>6, <5>2
        <5>4. left[i] = stream[f + Len(inFlight) + i] /\ f + Len(inFlight) + i = f + j
          BY <1>4, <3>2, <5>2, <5>3
        <5>. QED
          BY <5>3, <5>4
      <4>. QED
        BY <4>1, <4>2
    <3>5. ASSUME NEW j \in 1..Len(left') PROVE left'[j] = stream[f + Len(inFlight') + j]
      <4>1. left'[j] = left[n + j] /\ n + j \in 1..Len(left)
        BY <1>4, <1>5, <3>5
      <4>2. left[n + j] = stream[f + Len(inFlight) + (n + j)]
        BY <3>2, <4>1
      <4>3. f + Len(inFlight) + (n + j) = f + Len(inFlight') + j
        BY <1>4, <1>6, <3>2, <3>5
      <4>. QED
        BY <4>1, <4>2, <4>3
    <3>6. /\ Len(received') <= Len(history') /\ (\A i \in 1..Len(received') : received'[i] = history'[i])
          /\ \A j \in 1..Len(buffer') : buffer'[j] = stream[From(ends)' + j]
      BY <1>1, <2>1, <2>3 DEF Position
    <3>7. f = From(ends)' + Len(buffer')
      BY <1>1, <2>3, <3>1
    <3>. QED
      BY <3>3, <3>4, <3>5, <3>6, <3>7 DEF Position
  <2>6. Reading'
    BY <1>1, <1>8 DEF WireInv, Reading, Current
  <2>. QED
    BY <2>2, <2>5, <2>6 DEF InStream
<1>. QED
  BY <1>1, <1>7, <1>8 DEF WireInv

-----------------------------------------------------------------------------
(* The receiver                                                             *)

\* The bytes of a packet's buffer that the receiver asks for.
Asked == SubSeq(Serialize(Current), Before + 1, Before + need)

\* While bytes are on their way, the receiver is in a packet of the history, and what it
\* asks for lies within the buffer of that packet.
LEMMA InPacket ==
  ASSUME PacketsReadBack, Held, Reading, NEW ends, NEW stream, Stream(ends, stream),
         Position(ends, stream), inFlight # <<>>
  PROVE  /\ Len(received) \in Nat /\ Len(received) < Len(history) /\ Current \in Packets
         /\ ends[Len(received)] \in Nat /\ From(ends) \in Nat
         /\ ends[Len(received) + 1] = ends[Len(received)] + Len(Serialize(Current))
         /\ \A j \in 1..Len(Serialize(Current)) :
              stream[ends[Len(received)] + j] = Serialize(Current)[j]
         /\ need \in Nat /\ Before \in Nat /\ Before + need <= Len(Serialize(Current))
         /\ reads = "payload" => Before + need = Len(Serialize(Current))
<1>. DEFINE k == Len(received)
            n == Len(history)
<1>1. k \in 0..n /\ n \in Nat /\ Len(inFlight) \in Nat /\ Len(inFlight) > 0 /\ Len(left) \in Nat /\ Len(buffer) \in Nat
  BY HeldParts DEF Position
<1>2. ends[k] \in Nat /\ ends[n] = Len(stream) /\ Before \in Nat /\ From(ends) = ends[k] + Before
  <2>. HIDE DEF n, k
  <2>1. ends \in [0..n -> Nat] /\ ends[n] = Len(stream)
    BY DEF Stream, n
  <2>2. From(ends) = ends[k] + Before
    BY DEF From, k
  <2>. QED
    BY <1>1, <2>1, <2>2, Numbers DEF Before
<1>3. k < n
  <2>1. Len(stream) = ends[k] + Before + Len(buffer) + Len(inFlight) + Len(left)
    BY <1>2 DEF Position
  <2>2. ends[k] # ends[n]
    <3>. HIDE DEF k, n
    <3>. QED
      BY <1>1, <1>2, <2>1
  <2>. QED
    BY <1>1, <2>2
<1>4. k + 1 \in 1..n /\ (k + 1) - 1 = k /\ Current = history[k + 1]
  BY <1>1, <1>3 DEF Current
<1>5. Current \in Packets
  BY <1>4, HeldParts
<1>6. /\ Len(Serialize(Current)) \in Nat /\ Len(Serialize(Current)) > Word
  BY <1>5, BufferOf
<1>7. /\ ends[k + 1] = ends[k] + Len(Serialize(Current))
      /\ \A j \in 1..Len(Serialize(Current)) : stream[ends[k] + j] = Serialize(Current)[j]
  <2>. HIDE DEF k
  <2>1. /\ ends[k + 1] = ends[(k + 1) - 1] + Len(Serialize(history[k + 1]))
        /\ \A j \in 1..Len(Serialize(history[k + 1])) :
             stream[ends[(k + 1) - 1] + j] = Serialize(history[k + 1])[j]
    BY <1>4 DEF Stream
  <2>. QED
    BY <1>4, <2>1
<1>8. /\ need \in Nat /\ Before + need <= Len(Serialize(Current))
      /\ reads = "payload" => Before + need = Len(Serialize(Current))
  <2>1. PICK l : l = Len(Serialize(Current))
    OBVIOUS
  <2>2. CASE reads = "type"
    BY <1>6, <2>2, Numbers DEF Reading, Before
  <2>3. CASE reads = "length"
    BY <1>6, <2>3, Numbers DEF Reading, Before
  <2>4. CASE reads = "payload"
    <3>1. Before = Word + 1 /\ need = l - 1 - Word
      BY <2>1, <2>4 DEF Reading, Before
    <3>. QED
      BY <1>6, <2>1, <3>1, Numbers
  <2>. QED
    BY <2>2, <2>3, <2>4 DEF Reading
<1>9. k \in Nat /\ From(ends) \in Nat
  BY <1>1, <1>2
<1>. QED
  BY <1>2, <1>3, <1>5, <1>7, <1>8, <1>9, Zenon

\* Of what is in the connection, recv takes m bytes, which are added to those that the
\* receiver has: it then has bytes, and the rest is still in the connection.
Takes(m, bytes, rest) ==
  /\ bytes \in Bytes /\ Len(bytes) = Len(buffer) + m
  /\ rest \in Bytes /\ Len(rest) = Len(inFlight) - m
  /\ \A i \in 1..Len(buffer) : bytes[i] = buffer[i]
  /\ \A i \in 1..m : bytes[Len(buffer) + i] = inFlight[i]
  /\ \A i \in 1..(Len(inFlight) - m) : rest[i] = inFlight[m + i]

\* In the stream, the rest is behind the bytes, and what the sender has left behind both.
Follow(ends, stream, bytes, rest) ==
  /\ Len(stream) = From(ends) + Len(bytes) + Len(rest) + Len(left)
  /\ \A j \in 1..Len(bytes) : bytes[j] = stream[From(ends) + j]
  /\ \A j \in 1..Len(rest) : rest[j] = stream[From(ends) + Len(bytes) + j]
  /\ \A j \in 1..Len(left) : left[j] = stream[From(ends) + Len(bytes) + Len(rest) + j]

LEMMA Taken ==
  ASSUME Held, NEW m \in 0..Len(inFlight)
  PROVE  Takes(m, buffer \o SubSeq(inFlight, 1, m), SubSeq(inFlight, m + 1, Len(inFlight)))
<1>1. inFlight \in Seq(Int) /\ buffer \in Seq(Int)
  BY DEF Held, Bytes
<1>2. PICK piece : piece = SubSeq(inFlight, 1, m)
  OBVIOUS
<1>3. PICK rest : rest = SubSeq(inFlight, m + 1, Len(inFlight))
  OBVIOUS
<1>4. /\ piece \in Seq(Int) /\ Len(piece) = m /\ (\A i \in 1..m : piece[i] = inFlight[i])
      /\ rest \in Seq(Int) /\ Len(rest) = Len(inFlight) - m
      /\ \A i \in 1..(Len(inFlight) - m) : rest[i] = inFlight[m + i]
  BY <1>1, <1>2, <1>3, SeqCut
<1>5. buffer \in Seq(Int) /\ piece \in Seq(Int)
  BY <1>1, <1>4
<1>6. \A s, q \in Seq(Int) :
        /\ s \o q \in Seq(Int) /\ Len(s \o q) = Len(s) + Len(q)
        /\ \A i \in 1..Len(s) : (s \o q)[i] = s[i]
        /\ \A i \in 1..Len(q) : (s \o q)[Len(s) + i] = q[i]
  BY SeqJoin
<1>7. PICK bytes : bytes = buffer \o piece
  OBVIOUS
<1>8. /\ bytes \in Seq(Int) /\ Len(bytes) = Len(buffer) + m
      /\ \A i \in 1..Len(buffer) : bytes[i] = buffer[i]
      /\ \A i \in 1..m : bytes[Len(buffer) + i] = inFlight[i]
  <2>1. /\ bytes \in Seq(Int) /\ Len(bytes) = Len(buffer) + Len(piece)
        /\ \A i \in 1..Len(buffer) : bytes[i] = buffer[i]
        /\ \A i \in 1..Len(piece) : bytes[Len(buffer) + i] = piece[i]
    BY <1>5, <1>6, <1>7, Zenon
  <2>2. Len(piece) = m /\ \A i \in 1..m : piece[i] = inFlight[i]
    BY <1>4
  <2>. QED
    BY <2>1, <2>2, Zenon
<1>9. bytes = buffer \o SubSeq(inFlight, 1, m)
  BY <1>2, <1>7
<1>. QED
  BY <1>3, <1>4, <1>8, <1>9, Zenon DEF Bytes, Takes

LEMMA TakenInStream ==
  ASSUME Held, NEW ends, NEW stream, Position(ends, stream), From(ends) \in Nat,
         NEW m \in 0..Len(inFlight), NEW bytes, NEW rest, Takes(m, bytes, rest)
  PROVE  Follow(ends, stream, bytes, rest)
<1>. USE DEF Takes
<1>1. Len(inFlight) \in Nat /\ Len(buffer) \in Nat /\ Len(left) \in Nat /\ m \in Nat /\ m <= Len(inFlight)
  BY HeldParts
<1>2. PICK f : f = From(ends)
  OBVIOUS
<1>3. /\ f \in Nat /\ Len(stream) = f + Len(buffer) + Len(inFlight) + Len(left)
      /\ \A j \in 1..Len(buffer) : buffer[j] = stream[f + j]
      /\ \A j \in 1..Len(inFlight) : inFlight[j] = stream[f + Len(buffer) + j]
      /\ \A j \in 1..Len(left) : left[j] = stream[f + Len(buffer) + Len(inFlight) + j]
  BY <1>2 DEF Position
<1>4. ASSUME NEW j \in 1..Len(bytes) PROVE bytes[j] = stream[f + j]
  <2>1. CASE j \in 1..Len(buffer)
    BY <1>3, <2>1
  <2>2. CASE j \notin 1..Len(buffer)
    <3>1. j - Len(buffer) \in 1..m /\ j = Len(buffer) + (j - Len(buffer))
      BY <1>1, <1>4, <2>2
    <3>2. PICK i \in 1..m : j = Len(buffer) + i
      BY <3>1
    <3>3. bytes[j] = inFlight[i] /\ i \in 1..Len(inFlight) /\ f + Len(buffer) + i = f + j
      BY <1>1, <1>3, <3>2
    <3>4. inFlight[i] = stream[f + Len(buffer) + i]
      BY <1>3, <3>3
    <3>. QED
      BY <3>3, <3>4
  <2>. QED
    BY <2>1, <2>2
<1>5. ASSUME NEW j \in 1..Len(rest) PROVE rest[j] = stream[f + Len(bytes) + j]
  <2>1. rest[j] = inFlight[m + j] /\ m + j \in 1..Len(inFlight)
    BY <1>1, <1>5
  <2>2. inFlight[m + j] = stream[f + Len(buffer) + (m + j)]
    BY <1>3, <2>1
  <2>3. f + Len(buffer) + (m + j) = f + Len(bytes) + j
    BY <1>1, <1>3, <1>5
  <2>. QED
    BY <2>1, <2>2, <2>3
<1>6. ASSUME NEW j \in 1..Len(left) PROVE left[j] = stream[f + Len(bytes) + Len(rest) + j]
  <2>1. f + Len(bytes) + Len(rest) + j = f + Len(buffer) + Len(inFlight) + j
    BY <1>1, <1>3, <1>6
  <2>. QED
    BY <1>3, <2>1
<1>7. Len(stream) = f + Len(bytes) + Len(rest) + Len(left)
  BY <1>1, <1>3
<1>. QED
  BY <1>2, <1>4, <1>5, <1>6, <1>7 DEF Follow

\* When all of it is there, it is the part of the packet's buffer that was asked for.
LEMMA AllThere ==
  ASSUME PacketsReadBack, Held, Reading, NEW ends, NEW stream, Stream(ends, stream),
         Position(ends, stream), inFlight # <<>>, NEW bytes \in Bytes, Len(bytes) = need,
         \A j \in 1..Len(bytes) : bytes[j] = stream[From(ends) + j]
  PROVE  bytes = Asked
<1>. DEFINE s == Serialize(Current)
            k == Len(received)
<1>1. /\ Current \in Packets /\ ends[k] \in Nat /\ need \in Nat /\ Before \in Nat /\ Before + need <= Len(s)
      /\ \A j \in 1..Len(s) : stream[ends[k] + j] = s[j]
  BY InPacket
<1>2. s \in Seq(Int) /\ Len(s) \in Nat /\ From(ends) = ends[k] + Before
  BY <1>1, BufferOf DEF Bytes, From
<1>3. PICK t : t = s
  OBVIOUS
<1>4. PICK before : before = Before
  OBVIOUS
<1>5. PICK e : e = ends[k]
  OBVIOUS
<1>. HIDE DEF s, k
<1>6. ASSUME NEW j \in 1..Len(bytes) PROVE bytes[j] = t[(before + 1) + j - 1]
  <2>1. before + j \in 1..Len(t) /\ before + j = (before + 1) + j - 1
    BY <1>1, <1>2, <1>3, <1>4, <1>6
  <2>2. stream[e + (before + j)] = t[before + j]
    BY <1>1, <1>3, <1>5, <2>1
  <2>3. e + (before + j) = From(ends) + j
    BY <1>1, <1>2, <1>4, <1>5, <1>6
  <2>. QED
    BY <2>1, <2>2, <2>3
<1>7. SubSeq(t, before + 1, before + need) = bytes
  <2>1. /\ t \in Seq(Int) /\ before + 1 \in Nat /\ before + 1 > 0 /\ before + need \in 0..Len(t)
        /\ bytes \in Seq(Int) /\ Len(bytes) = (before + need) - (before + 1) + 1
    BY <1>1, <1>2, <1>3, <1>4 DEF Bytes
  <2>. QED
    BY <1>6, <2>1, SeqPart
<1>. QED
  BY <1>3, <1>4, <1>7 DEF Asked, s

\* The payload of the packet that the receiver is in is that packet.
LEMMA PayloadDone ==
  ASSUME PacketsReadBack, Current \in Packets, NEW code, NEW payload, code = Codes[Current.type],
         payload = SubSeq(Serialize(Current), Word + 2, Len(Serialize(Current))),
         PacketDone(code, payload)
  PROVE  /\ received' = Append(received, Current) /\ receiver' = receiver
         /\ reads' = "type" /\ need' = 1 /\ buffer' = <<>> /\ type' = 0
<1>1. /\ Serialize(Current)[1] = Codes[Current.type]
      /\ Deserialize(Serialize(Current)[1], SubSeq(Serialize(Current), Word + 2, Len(Serialize(Current))))
           = [ok |-> TRUE, packet |-> Current]
  BY DEF PacketsReadBack, ReadsBack
<1>2. Deserialize(code, payload) = [ok |-> TRUE, packet |-> Current]
  BY <1>1, Zenon
<1>3. Deserialize(code, payload).ok = TRUE /\ Deserialize(code, payload).packet = Current
  BY <1>2
<1>. QED
  BY <1>3 DEF PacketDone, ReadNext

\* What the receiver goes on to when all the bytes it asked for are there: it never throws.
LEMMA HandleNext ==
  ASSUME PacketsReadBack, Reading, Current \in Packets, NEW bytes, bytes = Asked, Handle(bytes),
         Before + need <= Len(Serialize(Current)),
         reads = "payload" => Before + need = Len(Serialize(Current))
  PROVE  /\ receiver' = receiver /\ buffer' = <<>>
         /\ \/ /\ reads = "type" /\ reads' = "length" /\ need' = Word
               /\ type' = Codes[Current.type] /\ received' = received
            \/ /\ reads = "length" /\ reads' = "payload" /\ need' = Len(Serialize(Current)) - 1 - Word
               /\ need' > 0 /\ type' = type /\ received' = received
            \/ /\ reads # "type" /\ Before + need = Len(Serialize(Current)) /\ reads' = "type" /\ need' = 1
               /\ received' = Append(received, Current)
<1>1. PICK s : s = Serialize(Current)
  OBVIOUS
<1>2. /\ s \in Seq(Int) /\ Len(s) \in Nat /\ Len(s) > Word /\ s[1] = Codes[Current.type]
      /\ UnsignedOf(SubSeq(s, 2, Word + 1)) = Len(s) - 1
  BY <1>1, BufferOf DEF PacketsReadBack, ReadsBack, Bytes
<1>3. bytes = SubSeq(s, Before + 1, Before + need)
  BY <1>1 DEF Asked
<1>4. CASE reads = "type"
  <2>1. Before + 1 = 1 /\ Before + need = 1 /\ 1 \in 0..Len(s)
    BY <1>2, <1>4, Numbers DEF Before, Reading
  <2>2. bytes = SubSeq(s, 1, 1)
    BY <1>3, <2>1, Zenon
  <2>3. bytes[1] = s[1]
    BY <1>2, <2>1, <2>2, SeqCut
  <2>4. Codes[Current.type] \in {Codes[t] : t \in DOMAIN Codes}
    BY WireAssumption
  <2>5. ReadNext("length", Word) /\ type' = bytes[1] /\ received' = received /\ receiver' = receiver
    BY <1>2, <1>4, <2>3, <2>4 DEF Handle
  <2>. QED
    BY <1>2, <1>4, <2>3, <2>5 DEF ReadNext
<1>5. CASE reads = "length"
  <2>1. Before + 1 = 2 /\ Before + need = Word + 1
    BY <1>5, Numbers DEF Before, Reading
  <2>2. bytes = SubSeq(s, 2, Word + 1)
    BY <1>3, <2>1, Zenon
  <2>3. UnsignedOf(bytes) = Len(s) - 1
    BY <1>2, <2>2
  <2>4. type = Codes[Current.type]
    BY <1>5 DEF Reading
  <2>5. PICK length : length = Len(s) - 1
    OBVIOUS
  <2>6. ~(length < Word) /\ length \in Nat
    BY <1>2, <2>5, Numbers
  <2>7. IF length = Word THEN PacketDone(type, <<>>)
        ELSE ReadNext("payload", length - Word) /\ UNCHANGED <<type, received, receiver>>
    <3>1. UnsignedOf(bytes) = length
      BY <2>3, <2>5
    <3>2. LET l == UnsignedOf(bytes) IN
          IF l < Word THEN Throw
          ELSE IF l = Word THEN PacketDone(type, <<>>)
          ELSE ReadNext("payload", l - Word) /\ UNCHANGED <<type, received, receiver>>
      BY <1>5 DEF Handle
    <3>. QED
      BY <2>6, <3>1, <3>2
  <2>8. CASE length = Word
    <3>1. PacketDone(type, <<>>)
      BY <2>7, <2>8
    <3>2. Len(s) = Word + 1 /\ Before + need = Len(s)
      BY <1>2, <2>1, <2>5, <2>8, Numbers
    <3>3. SubSeq(s, Word + 2, Len(s)) = <<>>
      <4>1. Word + 2 \in Nat /\ Word + 2 > 0 /\ Len(s) \in 0..Len(s)
        BY <1>2, Numbers
      <4>2. Len(<<>>) = Len(s) - (Word + 2) + 1 /\ <<>> \in Seq(Int)
        BY <1>2, <3>2, Numbers
      <4>3. \A i \in 1..Len(<<>>) : <<>>[i] = s[Word + 2 + i - 1]
        OBVIOUS
      <4>. QED
        BY <1>2, <4>1, <4>2, <4>3, SeqPart
    <3>4. /\ received' = Append(received, Current) /\ receiver' = receiver
          /\ reads' = "type" /\ need' = 1 /\ buffer' = <<>>
      BY <1>1, <2>4, <3>1, <3>3, PayloadDone
    <3>. QED
      BY <1>1, <1>5, <3>2, <3>4
  <2>9. CASE length # Word
    <3>1. ReadNext("payload", length - Word) /\ UNCHANGED <<type, received, receiver>>
      BY <2>7, <2>9
    <3>2. length - Word > 0 /\ length - Word = Len(s) - 1 - Word
      BY <1>2, <2>5, <2>6, <2>9, Numbers
    <3>3. /\ reads' = "payload" /\ need' = length - Word /\ buffer' = <<>> /\ type' = type
          /\ received' = received /\ receiver' = receiver
      BY <3>1 DEF ReadNext
    <3>. QED
      BY <1>1, <1>5, <3>2, <3>3
  <2>. QED
    BY <2>8, <2>9
<1>6. CASE reads = "payload"
  <2>1. Before + 1 = Word + 2 /\ Before + need = Len(s)
    BY <1>1, <1>6, Numbers DEF Before
  <2>2. bytes = SubSeq(s, Word + 2, Len(s))
    BY <1>3, <2>1, Zenon
  <2>3. PacketDone(type, bytes) /\ type = Codes[Current.type]
    BY <1>6 DEF Handle, Reading
  <2>4. /\ received' = Append(received, Current) /\ receiver' = receiver
        /\ reads' = "type" /\ need' = 1 /\ buffer' = <<>>
    BY <1>1, <2>2, <2>3, PayloadDone
  <2>. QED
    BY <1>1, <1>6, <2>1, <2>4
<1>. QED
  BY <1>4, <1>5, <1>6 DEF Reading

\* A packet whose bytes are all behind the sender was sent in full.
LEMMA SentInFull ==
  ASSUME Held, NEW ends, NEW stream, Stream(ends, stream), NEW k \in Nat, k < Len(history),
         ends[k + 1] + Len(left) <= Len(stream)
  PROVE  k < Len(CompletelySent) /\ CompletelySent[k + 1] = history[k + 1]
<1>1. PICK n : n = Len(history)
  OBVIOUS
<1>2. /\ n \in Nat /\ Len(left) \in Nat /\ (left = <<>> <=> Len(left) = 0)
      /\ history \in Seq(Packets) /\ (sender = "failed" => left # <<>>)
  BY <1>1, HeldParts DEF Held
<1>3. k + 1 \in 0..n /\ n \in 0..n
  BY <1>1, <1>2
<1>4. ends[k + 1] \in Nat /\ ends[n] = Len(stream) /\ ends[n] \in Nat
  BY <1>1, <1>3 DEF Stream
<1>5. CASE left = <<>>
  <2>1. CompletelySent = history
    BY <1>2, <1>5 DEF CompletelySent
  <2>. QED
    BY <1>1, <1>2, <2>1
<1>6. CASE left # <<>>
  <2>1. Len(left) > 0
    BY <1>2, <1>6
  <2>2. k + 1 # n
    BY <1>1, <1>2, <1>4, <2>1
  <2>3. k + 1 \in 1..(n - 1) /\ n - 1 \in 0..n
    BY <1>1, <1>2, <2>2
  <2>4. CompletelySent = SubSeq(history, 1, n - 1)
    BY <1>1, <1>6 DEF CompletelySent
  <2>5. Len(CompletelySent) = n - 1 /\ \A i \in 1..(n - 1) : CompletelySent[i] = history[i]
    BY <1>1, <1>2, <2>3, <2>4, SeqCut
  <2>. QED
    BY <2>3, <2>5
<1>. QED
  BY <1>5, <1>6

\* The receiver reads on: it returns the next packet that was sent in full, or none.
LEMMA ReceiveSomeStep ==
  ASSUME PacketsReadBack, WireInv, ReceiveSome
  PROVE  /\ WireInv' /\ receiver' = receiver /\ receiver = "open"
         /\ \/ received' = received
            \/ /\ Len(received) < Len(CompletelySent)
               /\ received' = Append(received, CompletelySent[Len(received) + 1])
<1>1. /\ receiver = "open" /\ inFlight # <<>> /\ history' = history /\ left' = left /\ sender' = sender
  BY DEF ReceiveSome, sendVars
<1>2. Held /\ Reading
  BY <1>1 DEF WireInv
<1>3. PICK m \in 1..(need - Len(buffer)) :
        /\ m <= Len(inFlight)
        /\ inFlight' = SubSeq(inFlight, m + 1, Len(inFlight))
        /\ IF Len(buffer \o SubSeq(inFlight, 1, m)) = need THEN Handle(buffer \o SubSeq(inFlight, 1, m))
           ELSE /\ buffer' = buffer \o SubSeq(inFlight, 1, m)
                /\ UNCHANGED <<reads, need, type, received, receiver>>
  BY Zenon DEF ReceiveSome
<1>4. PICK ends, stream : Stream(ends, stream) /\ Position(ends, stream)
  BY <1>1 DEF WireInv, InStream
<1>5. PICK k : k = Len(received)
  OBVIOUS
<1>6. /\ k \in Nat /\ k < Len(history) /\ Current \in Packets /\ ends[k] \in Nat /\ From(ends) \in Nat
      /\ ends[k + 1] = ends[k] + Len(Serialize(Current))
      /\ need \in Nat /\ Before \in Nat /\ Before + need <= Len(Serialize(Current))
      /\ (reads = "payload" => Before + need = Len(Serialize(Current)))
      /\ From(ends) = ends[k] + Before
  BY <1>1, <1>2, <1>4, <1>5, InPacket DEF From
<1>7. /\ Len(history) \in Nat /\ Len(left) \in Nat /\ Len(buffer) \in Nat /\ Len(inFlight) \in Nat
      /\ m \in 0..Len(inFlight)
  BY <1>2, <1>3, <1>6, HeldParts
<1>8. PICK bytes : bytes = buffer \o SubSeq(inFlight, 1, m)
  OBVIOUS
<1>9. PICK rest : rest = inFlight'
  OBVIOUS
<1>10. Takes(m, bytes, rest)
  BY <1>2, <1>3, <1>7, <1>8, <1>9, Taken, Zenon
<1>11. Follow(ends, stream, bytes, rest)
  BY <1>2, <1>4, <1>6, <1>7, <1>10, TakenInStream, Zenon
<1>12. /\ bytes \in Bytes /\ Len(bytes) = Len(buffer) + m
       /\ inFlight' \in Bytes /\ Len(inFlight') = Len(inFlight) - m
  BY <1>9, <1>10 DEF Takes
<1>13. /\ Len(stream) = From(ends) + Len(bytes) + Len(inFlight') + Len(left)
       /\ \A j \in 1..Len(bytes) : bytes[j] = stream[From(ends) + j]
       /\ \A j \in 1..Len(inFlight') : inFlight'[j] = stream[From(ends) + Len(bytes) + j]
       /\ \A j \in 1..Len(left) : left[j] = stream[From(ends) + Len(bytes) + Len(inFlight') + j]
  BY <1>9, <1>11 DEF Follow
<1>14. Stream(ends, stream)'
  BY <1>1, <1>4, StreamStays
<1>15. CASE Len(bytes) # need
  <2>1. /\ buffer' = bytes /\ reads' = reads /\ need' = need /\ type' = type /\ received' = received
        /\ receiver' = receiver
    BY <1>3, <1>8, <1>15
  <2>2. Held'
    BY <1>1, <1>2, <1>12, <2>1 DEF Held
  <2>3. From(ends)' = From(ends)
    BY <2>1 DEF From, Before
  <2>4. Position(ends, stream)'
    BY <1>1, <1>4, <1>13, <2>1, <2>3 DEF Position
  <2>5. Len(bytes) < need
    <3>1. Len(bytes) = Len(buffer) + m /\ need \in Nat /\ Len(buffer) \in Nat
      BY <1>6, <1>7, <1>12
    <3>. QED
      BY <1>15, <3>1
  <2>6. Reading'
    BY <1>1, <1>2, <2>1, <2>5 DEF Reading, Current
  <2>. QED
    BY <1>1, <1>14, <2>1, <2>2, <2>4, <2>6 DEF WireInv, InStream
<1>16. CASE Len(bytes) = need
  <2>1. Handle(bytes)
    BY <1>3, <1>8, <1>16
  <2>2. bytes = Asked
    <3>1. /\ Held /\ Reading /\ Stream(ends, stream) /\ Position(ends, stream) /\ inFlight # <<>>
          /\ bytes \in Bytes /\ Len(bytes) = need
      BY <1>1, <1>2, <1>4, <1>12, <1>16
    <3>2. \A j \in 1..Len(bytes) : bytes[j] = stream[From(ends) + j]
      BY <1>13
    <3>. QED
      BY <3>1, <3>2, AllThere, Zenon
  <2>3. /\ receiver' = receiver /\ buffer' = <<>>
        /\ \/ /\ reads = "type" /\ reads' = "length" /\ need' = Word
              /\ type' = Codes[Current.type] /\ received' = received
           \/ /\ reads = "length" /\ reads' = "payload" /\ need' = Len(Serialize(Current)) - 1 - Word
              /\ need' > 0 /\ type' = type /\ received' = received
           \/ /\ reads # "type" /\ Before + need = Len(Serialize(Current)) /\ reads' = "type" /\ need' = 1
              /\ received' = Append(received, Current)
    BY <1>2, <1>6, <2>1, <2>2, HandleNext
  <2>4. Len(<<>>) = 0 /\ <<>> \in Bytes
    BY DEF Bytes
  <2>5. received \in Seq(Packets) /\ (\A i \in 1..k : received[i] = history[i]) /\ Current = history[k + 1]
    BY <1>2, <1>4, <1>5 DEF Held, Position, Current
  <2>6. CASE received' = received /\ reads' # "type"
    <3>1. Held'
      BY <1>1, <1>2, <1>12, <2>3, <2>4, <2>6 DEF Held
    <3>2. Before' = Before + need
      BY <1>2, <2>3, <2>6, Numbers DEF Before, Reading
    <3>3. From(ends)' = From(ends) + Len(bytes)
      <4>1. From(ends)' = ends[k] + Before'
        BY <1>5, <2>6 DEF From
      <4>. QED
        BY <1>6, <1>16, <3>2, <4>1
    <3>4. Position(ends, stream)'
      <4>1. From(ends)' + Len(buffer') = From(ends) + Len(bytes)
        BY <1>6, <1>16, <2>3, <2>4, <3>3
      <4>2. Len(received') <= Len(history') /\ \A i \in 1..Len(received') : received'[i] = history'[i]
        BY <1>1, <1>4, <2>6 DEF Position
      <4>3. \A j \in 1..Len(buffer') : buffer'[j] = stream[From(ends)' + j]
        BY <2>3, <2>4
      <4>. QED
        BY <1>1, <1>13, <4>1, <4>2, <4>3 DEF Position
    <3>5. Reading'
      <4>1. Current' = Current /\ Len(received') < Len(history')
        BY <1>1, <1>5, <1>6, <2>6 DEF Current
      <4>2. type' = Codes[Current.type]
        BY <1>2, <2>3, <2>6 DEF Reading
      <4>3. Len(buffer') < need'
        BY <2>3, <2>4, <2>6, Numbers
      <4>. QED
        BY <2>3, <2>6, <4>1, <4>2, <4>3 DEF Reading
    <3>. QED
      BY <1>1, <1>14, <2>3, <2>6, <3>1, <3>4, <3>5 DEF WireInv, InStream
  <2>7. CASE /\ Before + need = Len(Serialize(Current)) /\ reads' = "type" /\ need' = 1
             /\ received' = Append(received, Current)
    <3>1. /\ received' \in Seq(Packets) /\ Len(received') = k + 1 /\ received'[k + 1] = Current
          /\ \A i \in 1..k : received'[i] = received[i]
      BY <1>5, <1>6, <2>5, <2>7, SeqAppend
    <3>2. Held'
      BY <1>1, <1>2, <1>12, <2>3, <2>4, <3>1 DEF Held
    <3>3. From(ends)' = From(ends) + Len(bytes) /\ ends[k + 1] = From(ends) + Len(bytes)
      <4>1. From(ends)' = ends[k + 1] + 0
        BY <2>7, <3>1 DEF From, Before
      <4>2. /\ ends[k + 1] = ends[k] + (Before + need) /\ From(ends) = ends[k] + Before
            /\ ends[k] \in Nat /\ Before \in Nat /\ need \in Nat
        BY <1>6, <2>7
      <4>. QED
        BY <1>16, <4>1, <4>2
    <3>4. Position(ends, stream)'
      <4>1. From(ends)' + Len(buffer') = From(ends) + Len(bytes)
        BY <1>6, <1>16, <2>3, <2>4, <3>3
      <4>2. Len(received') <= Len(history') /\ \A i \in 1..Len(received') : received'[i] = history'[i]
        <5>1. k + 1 <= Len(history)
          BY <1>6, <1>7
        <5>2. ASSUME NEW i \in 1..(k + 1) PROVE received'[i] = history[i]
          <6>1. CASE i = k + 1
            BY <2>5, <3>1, <6>1
          <6>2. CASE i # k + 1
            <7>1. i \in 1..k
              BY <1>6, <6>2
            <7>. QED
              BY <2>5, <3>1, <7>1
          <6>. QED
            BY <6>1, <6>2
        <5>. QED
          BY <1>1, <3>1, <5>1, <5>2
      <4>3. \A j \in 1..Len(buffer') : buffer'[j] = stream[From(ends)' + j]
        BY <2>3, <2>4
      <4>. QED
        BY <1>1, <1>13, <4>1, <4>2, <4>3 DEF Position
    <3>5. Reading'
      BY <2>3, <2>4, <2>7 DEF Reading
    <3>6. k < Len(CompletelySent) /\ CompletelySent[k + 1] = history[k + 1]
      <4>1. ends[k + 1] + Len(left) <= Len(stream)
        <5>1. Len(inFlight') \in Nat
          BY <1>7, <1>12
        <5>2. /\ Len(stream) = From(ends) + Len(bytes) + Len(inFlight') + Len(left)
              /\ ends[k + 1] = From(ends) + Len(bytes)
          BY <1>13, <3>3
        <5>3. From(ends) \in Nat /\ Len(bytes) \in Nat /\ Len(left) \in Nat
          BY <1>6, <1>7, <1>16
        <5>. QED
          BY <5>1, <5>2, <5>3
      <4>. QED
        BY <1>2, <1>4, <1>6, <4>1, SentInFull
    <3>. QED
      BY <1>1, <1>5, <1>14, <2>3, <2>5, <2>7, <3>2, <3>4, <3>5, <3>6 DEF WireInv, InStream
  <2>. QED
    BY <2>3, <2>6, <2>7
<1>. QED
  BY <1>15, <1>16

-----------------------------------------------------------------------------
(* The channel                                                              *)

\* At the end of the stream, when no packet has begun, all that were sent in full are
\* received.
LEMMA EndOfStream ==
  ASSUME PacketsReadBack, WireInv, receiver = "open", inFlight = <<>>, reads = "type"
  PROVE  received = CompletelySent
<1>1. Held /\ Reading
  BY DEF WireInv
<1>2. PICK ends, stream : Stream(ends, stream) /\ Position(ends, stream)
  BY DEF WireInv, InStream
<1>3. PICK k, n : k = Len(received) /\ n = Len(history)
  OBVIOUS
<1>4. /\ k \in 0..n /\ n \in Nat /\ Len(left) \in Nat /\ (left = <<>> <=> Len(left) = 0)
      /\ Len(inFlight) = 0 /\ Len(buffer) = 0 /\ Before = 0
  BY <1>1, <1>2, <1>3, HeldParts DEF Position, Reading, Before
<1>5. ends \in [0..n -> Nat] /\ ends[n] = Len(stream) /\ \A i, j \in 0..n : i < j => ends[i] < ends[j]
  BY <1>2, <1>3 DEF Stream
<1>6. Len(stream) = ends[k] + Len(left)
  <2>1. Len(stream) = From(ends) + Len(buffer) + Len(inFlight) + Len(left) /\ From(ends) = ends[k] + Before
    BY <1>2, <1>3 DEF Position, From
  <2>2. ends[k] \in Nat
    BY <1>4, <1>5
  <2>. QED
    BY <1>4, <2>1, <2>2
<1>7. received \in Seq(Packets) /\ history \in Seq(Packets) /\ \A i \in 1..k : received[i] = history[i]
  BY <1>1, <1>2, <1>3 DEF Held, Position
<1>8. CASE left = <<>>
  <2>1. k = n
    <3>1. ~(k < n)
      BY <1>4, <1>5, <1>6, <1>8
    <3>. QED
      BY <1>4, <3>1
  <2>2. CompletelySent = history
    BY <1>1, <1>8 DEF Held, CompletelySent
  <2>. QED
    BY <1>3, <1>7, <2>1, <2>2, SeqEqual
<1>9. CASE left # <<>>
  <2>1. n > 0 /\ Len(left) <= Len(Serialize(history[n]))
    BY <1>1, <1>3, <1>9 DEF Held
  <2>2. n \in 1..n /\ n - 1 \in 0..n /\ history[n] \in Packets
    BY <1>1, <1>3, <1>4, <2>1, HeldParts
  <2>3. ends[n] = ends[n - 1] + Len(Serialize(history[n])) /\ Len(Serialize(history[n])) \in Nat
    BY <1>2, <1>3, <2>2, BufferOf DEF Stream
  <2>4. ends[n - 1] \in Nat /\ ends[k] \in Nat /\ ends[n] \in Nat
    BY <1>4, <1>5, <2>2
  <2>5. k = n - 1
    <3>1. k # n
      BY <1>4, <1>5, <1>6, <1>9, <2>4
    <3>2. ends[n - 1] <= ends[k]
      BY <1>4, <1>5, <1>6, <2>1, <2>3, <2>4
    <3>3. ~(k < n - 1)
      BY <1>4, <1>5, <2>2, <2>4, <3>2
    <3>. QED
      BY <1>4, <3>1, <3>3
  <2>6. CompletelySent = SubSeq(history, 1, n - 1)
    BY <1>3, <1>9 DEF CompletelySent
  <2>7. /\ SubSeq(history, 1, n - 1) \in Seq(Packets) /\ Len(SubSeq(history, 1, n - 1)) = n - 1
        /\ \A i \in 1..(n - 1) : SubSeq(history, 1, n - 1)[i] = history[i]
    BY <1>3, <1>7, <2>2, SeqCut
  <2>8. Len(received) = n - 1 /\ \A i \in 1..(n - 1) : received[i] = SubSeq(history, 1, n - 1)[i]
    BY <1>3, <1>7, <2>5, <2>7
  <2>. QED
    BY <1>7, <2>6, <2>7, <2>8, SeqEqual
<1>. QED
  BY <1>8, <1>9

\* What the channel of PacketChannel sees of a step: nothing, or a step of its own.
Same == CompletelySent' = CompletelySent /\ received' = received /\ receiver' = receiver

Simulated == Channel!ChannelNext \/ Same

LEMMA SendPacketSame ==
  ASSUME PacketsReadBack, WireInv, NEW p \in Packets, SendPacket(p)
  PROVE  Same
<1>1. /\ sender = "open" /\ left = <<>> /\ left' = Serialize(p) /\ left' # <<>> /\ sender' = "open"
      /\ history' = Append(history, p) /\ received' = received /\ receiver' = receiver
  BY BufferOf DEF SendPacket, recvVars
<1>2. PICK n : n = Len(history)
  OBVIOUS
<1>3. n \in Nat /\ history \in Seq(Packets)
  BY <1>2, HeldParts DEF WireInv, Held
<1>4. /\ history' \in Seq(Packets) /\ Len(history') = n + 1 /\ \A i \in 1..n : history'[i] = history[i]
  BY <1>1, <1>2, <1>3, SeqAppend
<1>5. CompletelySent = history
  BY <1>1 DEF CompletelySent
<1>6. CompletelySent' = SubSeq(history', 1, n)
  <2>1. Len(history') - 1 = n
    BY <1>3, <1>4
  <2>. QED
    BY <1>1, <2>1, Zenon DEF CompletelySent
<1>7. SubSeq(history', 1, n) = history
  <2>1. PICK h : h = history'
    OBVIOUS
  <2>2. h \in Seq(Packets) /\ Len(h) = n + 1 /\ \A i \in 1..n : h[i] = history[i]
    BY <1>4, <2>1
  <2>3. /\ SubSeq(h, 1, n) \in Seq(Packets) /\ Len(SubSeq(h, 1, n)) = n
        /\ \A i \in 1..n : SubSeq(h, 1, n)[i] = h[i]
    BY <1>3, <2>2, SeqCut
  <2>4. SubSeq(h, 1, n) = history
    <3>1. Len(SubSeq(h, 1, n)) = Len(history) /\ \A i \in 1..Len(history) : SubSeq(h, 1, n)[i] = history[i]
      BY <1>2, <2>2, <2>3
    <3>. QED
      BY <1>3, <2>3, <3>1, SeqEqual
  <2>. QED
    BY <2>1, <2>4
<1>. QED
  BY <1>1, <1>5, <1>6, <1>7 DEF Same

LEMMA SendSomeSimulated ==
  ASSUME WireInv, SendSome
  PROVE  Simulated
<1>1. /\ sender = "open" /\ left # <<>> /\ history' = history /\ sender' = sender
      /\ received' = received /\ receiver' = receiver
  BY DEF SendSome, recvVars
<1>2. PICK n : n = Len(history)
  OBVIOUS
<1>3. n \in Nat /\ n > 0 /\ history \in Seq(Packets) /\ history[n] \in Packets
  <2>1. Held
    BY DEF WireInv
  <2>2. n \in Nat /\ n > 0 /\ history \in Seq(Packets)
    BY <1>1, <1>2, <2>1, HeldParts DEF Held
  <2>. QED
    BY <1>2, <2>2, SeqElem
<1>4. CompletelySent = SubSeq(history, 1, n - 1)
  BY <1>1, <1>2 DEF CompletelySent
<1>5. CASE left' # <<>>
  <2>1. CompletelySent' = SubSeq(history', 1, Len(history') - 1)
    BY <1>5 DEF CompletelySent
  <2>. QED
    BY <1>1, <1>2, <1>4, <2>1 DEF Simulated, Same
<1>6. CASE left' = <<>>
  <2>1. CompletelySent' = history
    BY <1>1, <1>6 DEF CompletelySent
  <2>2. PICK before : before = SubSeq(history, 1, n - 1)
    OBVIOUS
  <2>3. before \in Seq(Packets) /\ Len(before) = n - 1 /\ \A i \in 1..(n - 1) : before[i] = history[i]
    BY <1>2, <1>3, <2>2, SeqCut
  <2>4. /\ Append(before, history[n]) \in Seq(Packets) /\ Len(Append(before, history[n])) = n
        /\ Append(before, history[n])[n] = history[n]
        /\ \A i \in 1..(n - 1) : Append(before, history[n])[i] = before[i]
    <3>1. PICK last : last = history[n]
      OBVIOUS
    <3>2. /\ Append(before, last) \in Seq(Packets) /\ Len(Append(before, last)) = Len(before) + 1
          /\ Append(before, last)[Len(before) + 1] = last
          /\ \A i \in 1..Len(before) : Append(before, last)[i] = before[i]
      BY <1>3, <2>3, <3>1, SeqAppend
    <3>3. Len(before) + 1 = n /\ Len(before) = n - 1
      BY <1>3, <2>3
    <3>. QED
      BY <3>1, <3>2, <3>3
  <2>5. Append(before, history[n]) = history
    <3>1. \A i \in 1..n : Append(before, history[n])[i] = history[i]
      BY <1>3, <2>3, <2>4
    <3>2. PICK whole : whole = Append(before, history[n])
      OBVIOUS
    <3>3. whole \in Seq(Packets) /\ Len(whole) = Len(history) /\ \A i \in 1..Len(whole) : whole[i] = history[i]
      BY <1>2, <2>4, <3>1, <3>2
    <3>4. whole = history
      BY <1>3, <3>3, SeqEqual
    <3>. QED
      BY <3>2, <3>4
  <2>6. CompletelySent' = Append(CompletelySent, history[n])
    BY <1>4, <2>1, <2>2, <2>5
  <2>. QED
    BY <1>1, <1>3, <2>6 DEF Simulated, Channel!ChannelNext, Channel!Send
<1>. QED
  BY <1>5, <1>6

\* Every step keeps the invariant, is a step of the channel or unseen by it, and does not
\* refuse a packet.
LEMMA WireStep ==
  ASSUME PacketsReadBack, WireInv, [Next]_vars
  PROVE  WireInv' /\ Simulated /\ (ReceiveSome => receiver' = receiver)
<1>. SUFFICES WireInv' /\ Simulated
  BY ReceiveSomeStep
<1>1. ASSUME NEW p \in Packets, SendPacket(p) PROVE WireInv' /\ Simulated
  BY <1>1, SendPacketStep, SendPacketSame DEF Simulated
<1>2. CASE SendSome
  BY <1>2, SendSomeStep, SendSomeSimulated
<1>3. ASSUME UNCHANGED <<history, left, inFlight, recvVars>>, sender' = "failed" => left # <<>>,
             (left = <<>> /\ sender # "failed") <=> (left = <<>> /\ sender' # "failed")
      PROVE  WireInv' /\ Simulated
  <2>1. /\ history' = history /\ left' = left /\ inFlight' = inFlight /\ reads' = reads /\ need' = need
        /\ buffer' = buffer /\ type' = type /\ received' = received /\ receiver' = receiver
    BY <1>3 DEF recvVars
  <2>2. Held'
    BY <1>3, <2>1 DEF WireInv, Held
  <2>3. InStream => InStream'
    <3>. SUFFICES ASSUME InStream PROVE InStream'
      OBVIOUS
    <3>1. PICK ends, stream : Stream(ends, stream) /\ Position(ends, stream)
      BY DEF InStream
    <3>2. Stream(ends, stream)'
      BY <2>1, <3>1, StreamStays
    <3>3. Position(ends, stream)'
      BY <2>1, <3>1 DEF Position, From, Before
    <3>. QED
      BY <3>2, <3>3 DEF InStream
  <2>4. Reading => Reading'
    BY <2>1 DEF Reading, Current
  <2>5. Same
    BY <1>3, <2>1 DEF Same, CompletelySent
  <2>. QED
    BY <2>1, <2>2, <2>3, <2>4, <2>5 DEF WireInv, Simulated
<1>4. CASE SendFails
  BY <1>3, <1>4 DEF SendFails
<1>5. CASE Close
  BY <1>3, <1>5 DEF Close
<1>6. CASE ReceiveSome
  <2>1. /\ WireInv' /\ receiver' = receiver /\ receiver = "open"
        /\ \/ received' = received
           \/ /\ Len(received) < Len(CompletelySent)
              /\ received' = Append(received, CompletelySent[Len(received) + 1])
    BY <1>6, ReceiveSomeStep
  <2>2. CompletelySent' = CompletelySent
    BY <1>6 DEF ReceiveSome, sendVars, CompletelySent
  <2>3. Same \/ Channel!Deliver
    BY <2>1, <2>2 DEF Same, Channel!Deliver
  <2>. QED
    BY <2>1, <2>3 DEF Simulated, Channel!ChannelNext
<1>7. ASSUME receiver = "open", receiver' # "open", inFlight' \in {inFlight, <<>>},
             UNCHANGED <<sendVars, reads, need, buffer, type, received>>
      PROVE  WireInv' /\ CompletelySent' = CompletelySent
  <2>1. history' = history /\ left' = left /\ sender' = sender /\ received' = received /\ buffer' = buffer
    BY <1>7 DEF sendVars
  <2>2. inFlight' \in Bytes
    <3>1. inFlight \in Bytes /\ <<>> \in Bytes
      BY DEF WireInv, Held, Bytes
    <3>. QED
      BY <1>7, <3>1
  <2>. QED
    BY <1>7, <2>1, <2>2 DEF WireInv, Held, CompletelySent
<1>8. CASE ReceiveEnd
  <2>1. /\ receiver = "open" /\ inFlight = <<>> /\ inFlight' = inFlight
        /\ receiver' = IF reads = "type" THEN "ended" ELSE "failed"
        /\ UNCHANGED <<sendVars, reads, need, buffer, type, received>> /\ received' = received
    BY <1>8 DEF ReceiveEnd
  <2>2. WireInv' /\ CompletelySent' = CompletelySent
    BY <1>7, <2>1
  <2>3. reads = "type" => received = CompletelySent
    BY <2>1, EndOfStream
  <2>4. Channel!End \/ Channel!Fail
    BY <2>1, <2>2, <2>3 DEF Channel!End, Channel!Fail
  <2>. QED
    BY <2>2, <2>4 DEF Simulated, Channel!ChannelNext
<1>9. CASE ConnectionReset
  <2>1. /\ receiver = "open" /\ receiver' = "failed" /\ inFlight' = <<>>
        /\ UNCHANGED <<sendVars, reads, need, buffer, type, received>> /\ received' = received
    BY <1>9 DEF ConnectionReset
  <2>2. WireInv' /\ CompletelySent' = CompletelySent
    BY <1>7, <2>1
  <2>3. Channel!Fail
    BY <2>1, <2>2 DEF Channel!Fail
  <2>. QED
    BY <2>2, <2>3 DEF Simulated, Channel!ChannelNext
<1>10. CASE UNCHANGED vars
  <2>1. /\ UNCHANGED <<history, left, inFlight, recvVars>> /\ sender' = sender
    BY <1>10 DEF vars, sendVars
  <2>2. sender = "failed" => left # <<>>
    BY DEF WireInv, Held
  <2>. QED
    BY <1>3, <2>1, <2>2
<1>. QED
  BY <1>1, <1>2, <1>4, <1>5, <1>6, <1>8, <1>9, <1>10 DEF Next

\* What the sender and the receiver have is one stream, from any cuts.
THEOREM WireInvariant == PacketsReadBack => (Spec => []WireInv)
<1>. SUFFICES ASSUME PacketsReadBack PROVE Spec => []WireInv
  OBVIOUS
<1>1. Init => WireInv
  BY WireInit
<1>2. WireInv /\ [Next]_vars => WireInv'
  BY WireStep
<1>. QED
  BY <1>1, <1>2, PTL DEF Spec

\* If each packet by itself is read back, the connection is the channel of PacketChannel,
\* but for its fairness: the packets that were sent in full are received in order,
\* unchanged and once, for every cut of the stream and wherever it ends, and the null
\* pointer is returned only after the last of them (MimiClient.cpp:174-234).
THEOREM WireDelivers == PacketsReadBack => (Spec => Channel!ChannelSafe)
<1>. SUFFICES ASSUME PacketsReadBack PROVE Spec => Channel!ChannelSafe
  OBVIOUS
<1>1. Init => Channel!ChannelInit
  <2>1. ASSUME Init PROVE CompletelySent = <<>>
    BY <2>1 DEF Init, CompletelySent
  <2>. QED
    BY <2>1 DEF Init, Channel!ChannelInit
<1>2. WireInv /\ [Next]_vars => [Channel!ChannelNext]_(Channel!cvars)
  BY WireStep DEF Simulated, Same, Channel!cvars
<1>3. Spec => []WireInv
  BY WireInvariant
<1>. QED
  BY <1>1, <1>2, <1>3, PTL DEF Spec, Channel!ChannelSafe

\* ReceivePacket refuses no packet of a sender: none of its checks of a type, a length or a
\* payload throws, however many bytes each recv gives (MimiClient.cpp:174-234).
THEOREM WireReads == PacketsReadBack => (Spec => [][ReceiveSome => receiver' = receiver]_vars)
<1>. SUFFICES ASSUME PacketsReadBack PROVE Spec => [][ReceiveSome => receiver' = receiver]_vars
  OBVIOUS
<1>1. WireInv /\ [Next]_vars => [ReceiveSome => receiver' = receiver]_vars
  BY WireStep
<1>2. Spec => []WireInv
  BY WireInvariant
<1>. QED
  BY <1>1, <1>2, PTL DEF Spec

=============================================================================
