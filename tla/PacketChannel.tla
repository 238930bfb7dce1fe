---------------------------- MODULE PacketChannel ----------------------------
(***************************************************************************)
(* What one direction of a connection promises: the packets that were sent *)
(* in full are received in order, unchanged and once, and all of them are, *)
(* unless the connection fails, of which the receiver is told. The end of  *)
(* the stream is never taken for the end of the packets too early.         *)
(***************************************************************************)
EXTENDS Naturals, Sequences

CONSTANT Packets

VARIABLES
  sent, received,   \* the packets, in order
  receiver          \* "open", "ended" (no more packets), "failed" (an exception)

cvars == <<sent, received, receiver>>

ChannelInit == sent = <<>> /\ received = <<>> /\ receiver = "open"

Send == \E p \in Packets : sent' = Append(sent, p) /\ UNCHANGED <<received, receiver>>

Deliver ==
  /\ receiver = "open" /\ Len(received) < Len(sent)
  /\ received' = Append(received, sent[Len(received) + 1])
  /\ UNCHANGED <<sent, receiver>>

End ==
  /\ receiver = "open" /\ received = sent /\ receiver' = "ended"
  /\ UNCHANGED <<sent, received>>

Fail == receiver = "open" /\ receiver' = "failed" /\ UNCHANGED <<sent, received>>

ChannelNext == Send \/ Deliver \/ End \/ Fail

\* What never happens, and what must.
ChannelSafe == ChannelInit /\ [][ChannelNext]_cvars

ChannelSpec == ChannelSafe /\ WF_cvars(Deliver)
=============================================================================
