---------------------------- MODULE PacketChannel ----------------------------
(***************************************************************************)
(* What the pipeline of scp_rdma promises to the code that transfers files *)
(* with it: a reliable channel of packets in the order they were sent,     *)
(* with a window.  A packet is announced (Send), the receiver processes it *)
(* (Deliver) and the sender learns that its buffer may be used again       *)
(* (Ack).  "After the ACK the sender knows that the receiver is done"      *)
(* (README.md, the first diagram) is AckedIsDelivered.                     *)
(***************************************************************************)
EXTENDS Naturals, Sequences

CONSTANTS Packet,   \* what can be sent
          Window    \* how many packets may be announced and not acknowledged

VARIABLES sent,       \* the packets announced so far, in order
          delivered,  \* the packets the receiver has processed, in order
          acked       \* how many packets the sender knows to be processed

chanVars == <<sent, delivered, acked>>

Init == /\ sent = <<>>
        /\ delivered = <<>>
        /\ acked = 0

\* Packet may be infinite, so the new packet is not chosen from it by \E.
Send == /\ Len(sent) - acked < Window
        /\ sent' \in Seq(Packet) /\ Len(sent') = Len(sent) + 1
        /\ \A i \in 1..Len(sent) : sent'[i] = sent[i]
        /\ UNCHANGED <<delivered, acked>>

Deliver == /\ Len(delivered) < Len(sent)
           /\ delivered' = Append(delivered, sent[Len(delivered) + 1])
           /\ UNCHANGED <<sent, acked>>

\* One poll of the completion queue may bring several acknowledgements.
Ack(n) == /\ acked < n /\ n <= Len(delivered)
          /\ acked' = n
          /\ UNCHANGED <<sent, delivered>>

Next == \/ Send
        \/ Deliver
        \/ \E n \in 1..Len(delivered) : Ack(n)

Spec == Init /\ [][Next]_chanVars

-----------------------------------------------------------------------------

TypeOK == /\ sent \in Seq(Packet)
          /\ delivered \in Seq(Packet)
          /\ acked \in Nat

\* The receiver processes what was sent, in the order it was sent, and
\* nothing else.
DeliveredIsPrefix ==
  /\ Len(delivered) <= Len(sent)
  /\ \A i \in 1..Len(delivered) : delivered[i] = sent[i]

\* An acknowledged packet has been processed.
AckedIsDelivered == acked <= Len(delivered)

\* At most Window packets are announced and not acknowledged.
WindowRespected == Len(sent) - acked <= Window

ChannelInv == DeliveredIsPrefix /\ AckedIsDelivered /\ WindowRespected
=============================================================================
