--------------------------- MODULE ScpSessionProofs ---------------------------
(***************************************************************************)
(* For any number of clients, any sizes of the two messages and any number *)
(* of failures and killed programs: the set-up keeps its messages in frame *)
(* and its sides paired, no packet arrives where there is no receive or no *)
(* memory for it, and a session that did not meet rdma_trans_destroy       *)
(* releases everything once.                                               *)
(***************************************************************************)
EXTENDS ScpSession, SequenceTheorems, TLAPS

-----------------------------------------------------------------------------
(* The inductive invariant.                                                *)

\* What a program holds at each point of the set-up
Opened == {"ib_ctx", "pd", "comp_channel", "cq", "epoll_fd", "qp"}
Connected == Opened \cup {"sock"}
Registered == Connected \cup {"sge_mr", "cdc_mr"}

HandleInv(p) ==
  /\ pc[p] \in {"init", "ended"} => handle[p] = {} /\ ~tornDown[p]
  /\ pc[p] \in {"connect", "listen", "accept"} => handle[p] = Opened
  /\ pc[p] \in {"length", "mr"} => handle[p] = Connected
  /\ pc[p] \in {"connect_qp", "sync_read", "modify", "post"} =>
       handle[p] \in {Connected, Connected \cup {"sge_mr"}, Registered}
  /\ pc[p] \in {"rtr", "rts"} => handle[p] = Registered
  /\ pc[p] = "established" => handle[p] = Registered \cup {"session_mr"}
  /\ pc[p] = "trans_destroy" => tornDown[p]
  /\ pc[p] \notin {"trans_destroy", "destroy"} =>
       /\ live[p] = {Named(h) : h \in handle[p]}
       /\ stale[p] = {} /\ refused[p] = {} /\ ~tornDown[p]

\* A final destroy that comes first has all that is live before it.
DestroyInv(p) ==
  pc[p] = "destroy" /\ ~tornDown[p] =>
    /\ todo[p] \subseteq Elements(DestroyOrder)
    /\ live[p] = {Named(h) : h \in todo[p]}
    /\ stale[p] = {} /\ refused[p] = {}

\* The queue pair, and what it needs as long as it receives
QpInv(p) ==
  /\ pc[p] \in {"init", "ended"} => qp[p] = "NONE"
  /\ pc[p] \in {"connect", "listen", "accept", "length", "mr", "connect_qp", "sync_read",
                "modify"} => qp[p] = "RESET"
  /\ pc[p] \in {"post", "rtr"} => qp[p] = "INIT"
  /\ pc[p] = "rts" => qp[p] = "RTR"
  /\ pc[p] = "established" => qp[p] = "RTS"
  /\ pc[p] \in {"rtr", "rts", "established"} => posted[p] = 1
  /\ pc[p] \notin {"rtr", "rts", "established", "trans_destroy", "destroy"} => posted[p] = 0
  /\ pc[p] = "trans_destroy" /\ Receiving(p) =>
       "qp" \in todo[p] /\ {"qp", "mr", "cdc_mr"} \subseteq live[p] /\ posted[p] = 1

LocalInv(p) == HandleInv(p) /\ DestroyInv(p) /\ QpInv(p)

\* The server has one connection, and a client one or none.
ConnInv ==
  /\ \A c \in Clients : conn[c] = "accepted" <=> peer = c
  /\ \A c \in Clients : pc[c] \in {"init", "connect"} => conn[c] = "none"
  /\ pc[Server] \in {"init", "listen", "accept"} => peer = Nobody
  /\ pc[Server] \in {"length", "mr", "connect_qp", "sync_read", "modify", "post", "rtr",
                     "rts", "established"} => peer \in Clients
  /\ \A c \in Clients : pc[c] \notin {"accept", "listen"}
  /\ pc[Server] # "connect"

\* The length of the session buffer
LengthInv ==
  /\ wr_len[Server] # "garbage"
  /\ pc[Server] \in {"listen", "accept"} => wr_len[Server] = "zero"
  /\ pc[Server] \in {"mr", "connect_qp", "sync_read", "modify", "post", "rtr", "rts",
                     "established"} => wr_len[Server] = "total"
  /\ \A c \in Clients : pc[c] \notin {"init", "ended"} => wr_len[c] = "total"

\* Byte number n of what side p writes to its connection
LengthOf(p) == IF p = Server THEN 0 ELSE LenSize
MsgByte(p, n) == IF n <= LengthOf(p)
                 THEN [of |-> "length", by |-> p, at |-> n]
                 ELSE [of |-> "con_data", by |-> p, at |-> n - LengthOf(p)]

\* Side p has sent its first n bytes.
Early == {"init", "connect", "listen", "accept", "length", "mr", "connect_qp"}
SentInv(p, n) == /\ n \in 0 .. LengthOf(p) + ConSize
                 /\ pc[p] \in Early => n = written[p]
WrittenInv ==
  /\ \A p \in Side : pc[p] \in {"init", "connect", "listen", "accept"} => written[p] = 0
  /\ \A c \in Clients : pc[c] \in {"mr", "connect_qp"} => written[c] = LenSize
  /\ written[Server] = 0

\* What nobody has read yet starts with the first byte.
Unread(p) == IF p = Server THEN peer = Nobody ELSE conn[p] # "accepted"
FreshInv(p) == /\ \A i \in 1 .. Len(stream[p]) : stream[p][i] = MsgByte(p, i)
               /\ SentInv(p, Len(stream[p]))
UnreadInv ==
  /\ \A p \in Side : Unread(p) => FreshInv(p)
  /\ \A c \in Clients : conn[c] # "accepted" => got[c] = <<>>
  /\ pc[Server] \in {"init", "listen", "accept"} => got[Server] = <<>>

\* What side r has read and not used, and what it will read, continue after
\* the bytes that r has used.
InExchange == {"length", "mr", "connect_qp", "sync_read"}
Used(r) == IF r = Server /\ pc[r] # "length" THEN LenSize ELSE 0
Reads(r, w) == /\ pc[r] \in InExchange /\ w = PeerOf(r) /\ ~Unread(w)
               /\ r # Server => conn[r] = "accepted"
ChannelInv(r, w) ==
  /\ \A i \in 1 .. Len(got[r]) : got[r][i] = MsgByte(w, Used(r) + i)
  /\ \A i \in 1 .. Len(stream[w]) : stream[w][i] = MsgByte(w, Used(r) + Len(got[r]) + i)
  /\ SentInv(w, Used(r) + Len(got[r]) + Len(stream[w]))
StreamInv == \A r, w \in Side : Reads(r, w) => ChannelInv(r, w)

\* The connection data that is known is that of the peer.
RemoteInv ==
  \A p \in Side :
    /\ remote[p] # Nobody => remote[p] = PeerOf(p) /\ (p # Server => conn[p] = "accepted")
    /\ pc[p] \in {"modify", "post", "rtr", "rts", "established"} => remote[p] # Nobody
    /\ pc[p] = "trans_destroy" /\ Receiving(p) => remote[p] # Nobody

Inv == /\ TypeOK /\ \A p \in Side : LocalInv(p)
       /\ ConnInv /\ LengthInv /\ WrittenInv /\ UnreadInv /\ StreamInv /\ RemoteInv

-----------------------------------------------------------------------------
(* The steps of a side.                                                    *)

Moves(p) == Step(p) \/ Finish(p) \/ Fault(p)

\* A step of a side is one of these, whatever its cause.
LEMMA MoveCases ==
  ASSUME NEW p \in Side, Moves(p)
  PROVE  \/ ScpRdmaInit(p)
         \/ NoConnection(p, TRUE)
         \/ p \in Clients /\ Connect(p)
         \/ p = Server /\ Listen
         \/ p = Server /\ \E c \in Clients : Accept(c)
         \/ p \in Clients /\ \E k \in 1 .. LenSize : WriteLength(p, k)
         \/ p = Server /\ \E k \in 1 .. LenSize : ReadLength(k)
         \/ SyncWrite(p)
         \/ \E k \in 1 .. ConSize : SyncRead(p, k)
         \/ LengthFails(p, TRUE)
         \/ SyncWriteFails(p, TRUE)
         \/ SyncReadFails(p, TRUE)
         \/ \E hs \in {{}, {"sge_mr"}, {"sge_mr", "cdc_mr"}} : Register(p, hs)
         \/ ModifyToInit(p)
         \/ PostReceive(p)
         \/ ModifyToRtr(p)
         \/ ModifyToRts(p)
         \/ ConnectQpFails(p)
         \/ Finish(p)
         \/ p \in Clients /\ PostFails(p)
         \/ ReleaseNext(p)
         \/ TransDestroyed(p)
         \/ End(p)
<1>1. ASSUME NEW cause \in BOOLEAN PROVE
        /\ NoConnection(p, cause) => NoConnection(p, TRUE)
        /\ LengthFails(p, cause) => LengthFails(p, TRUE)
        /\ SyncWriteFails(p, cause) => SyncWriteFails(p, TRUE)
        /\ SyncReadFails(p, cause) => SyncReadFails(p, TRUE)
  BY DEF NoConnection, LengthFails, SyncWriteFails, SyncReadFails
<1>2. NullDereference(p) \/ WriteToClosed(p) \/ InitFails(p) \/ Exit(p) \/ Crash(p) \/ Kill(p)
      => End(p)
  BY DEF NullDereference, WriteToClosed, InitFails, Exit, Crash, Kill
<1>3. CASE Connection(p)
  BY <1>1, <1>3 DEF Connection, NoConnection
<1>4. CASE Exchange(p)
  BY <1>1, <1>2, <1>4 DEF Exchange, LengthFails, SyncWriteFails, SyncReadFails
<1>5. CASE QueuePair(p)
  BY <1>2, <1>5 DEF QueuePair, MrCreate
<1>6. CASE TearDown(p)
  BY <1>2, <1>6 DEF TearDown
<1>7. CASE Fault(p)
  BY <1>2, <1>7 DEF Fault, MrCreateFails
<1> QED
  BY <1>3, <1>4, <1>5, <1>6, <1>7 DEF Moves, Step

\* It leaves the other programs alone.
Same(q) ==
  /\ pc'[q] = pc[q] /\ live'[q] = live[q] /\ handle'[q] = handle[q] /\ todo'[q] = todo[q]
  /\ tornDown'[q] = tornDown[q] /\ stale'[q] = stale[q] /\ refused'[q] = refused[q]
  /\ got'[q] = got[q] /\ written'[q] = written[q] /\ wr_len'[q] = wr_len[q]
  /\ remote'[q] = remote[q] /\ qp'[q] = qp[q] /\ posted'[q] = posted[q]
LEMMA Others ==
  ASSUME NEW p \in Side, TypeOK, Moves(p), NEW q \in Side, q # p
  PROVE  Same(q)

<1>1. CASE ScpRdmaInit(p)
  BY <1>1 DEF Same, TypeOK, ScpRdmaInit, Hold, Goto, tcpVars
<1>2. CASE NoConnection(p, TRUE)
  BY <1>2 DEF Same, TypeOK, NoConnection, Destroy, Goto, tcpVars, msgVars, qpVars
<1>3. CASE p \in Clients /\ Connect(p)
  BY <1>3 DEF Same, TypeOK, Connect, Hold, Goto, msgVars, qpVars
<1>4. CASE p = Server /\ Listen
  BY <1>4 DEF Same, TypeOK, Listen, Goto, resVars, msgVars, qpVars
<1>5. CASE p = Server /\ \E c \in Clients : Accept(c)
  BY <1>5 DEF Same, TypeOK, Accept, Hold, Goto, msgVars, qpVars
<1>6. CASE p \in Clients /\ \E k \in 1 .. LenSize : WriteLength(p, k)
  BY <1>6 DEF Same, TypeOK, WriteLength, Write, Goto, resVars, tcpVars, qpVars
<1>7. CASE p = Server /\ \E k \in 1 .. LenSize : ReadLength(k)
  BY <1>7 DEF Same, TypeOK, ReadLength, Read, Goto, resVars, tcpVars, qpVars
<1>8. CASE SyncWrite(p)
  BY <1>8 DEF Same, TypeOK, SyncWrite, Write, Goto, resVars, tcpVars, qpVars
<1>9. CASE \E k \in 1 .. ConSize : SyncRead(p, k)
  BY <1>9 DEF Same, TypeOK, SyncRead, Read, Goto, resVars, tcpVars, qpVars
<1>10. CASE LengthFails(p, TRUE)
  BY <1>10 DEF Same, TypeOK, LengthFails, Destroy, Goto, tcpVars, msgVars, qpVars
<1>11. CASE SyncWriteFails(p, TRUE)
  BY <1>11 DEF Same, TypeOK, SyncWriteFails, TransDestroy, Write, Goto, tcpVars, qpVars
<1>12. CASE SyncReadFails(p, TRUE)
  BY <1>12 DEF Same, TypeOK, SyncReadFails, TransDestroy, Goto, tcpVars, msgVars, qpVars
<1>13. CASE \E hs \in {{}, {"sge_mr"}, {"sge_mr", "cdc_mr"}} : Register(p, hs)
  BY <1>13 DEF Same, TypeOK, Register, Hold, Goto, tcpVars, msgVars, qpVars
<1>14. CASE ModifyToInit(p)
  BY <1>14 DEF Same, TypeOK, ModifyToInit, ModifyQp, Goto, tcpVars, msgVars
<1>15. CASE PostReceive(p)
  BY <1>15 DEF Same, TypeOK, PostReceive, Goto, resVars, tcpVars, msgVars
<1>16. CASE ModifyToRtr(p)
  BY <1>16 DEF Same, TypeOK, ModifyToRtr, ModifyQp, Goto, tcpVars, msgVars
<1>17. CASE ModifyToRts(p)
  BY <1>17 DEF Same, TypeOK, ModifyToRts, ModifyQp, Goto, tcpVars, msgVars
<1>18. CASE ConnectQpFails(p)
  BY <1>18 DEF Same, TypeOK, ConnectQpFails, TransDestroy, Goto, tcpVars, msgVars, qpVars
<1>19. CASE Finish(p)
  BY <1>19 DEF Same, TypeOK, Finish, Destroy, Goto, tcpVars, msgVars, qpVars
<1>20. CASE p \in Clients /\ PostFails(p)
  BY <1>20 DEF Same, TypeOK, PostFails, TransDestroy, Goto, tcpVars, msgVars, qpVars
<1>21. CASE ReleaseNext(p)
  BY <1>21 DEF Same, TypeOK, ReleaseNext, Release, tcpVars, msgVars
<1>22. CASE TransDestroyed(p)
  BY <1>22 DEF Same, TypeOK, TransDestroyed, Destroy, Goto, tcpVars, msgVars, qpVars
<1>23. CASE End(p)
  BY <1>23 DEF Same, TypeOK, End, Goto
<1> QED
  BY <1>1, <1>2, <1>3, <1>4, <1>5, <1>6, <1>7, <1>8, <1>9, <1>10, <1>11, <1>12, <1>13,
       <1>14, <1>15, <1>16, <1>17, <1>18, <1>19, <1>20, <1>21, <1>22, <1>23, MoveCases DEF
       Moves

-----------------------------------------------------------------------------
(* Types.                                                                  *)

\* What the types are built of, as facts
LEMMA NamedObject ==
  /\ \A h \in Handle : Named(h) \in Object
  /\ Opened \subseteq Handle /\ Registered \subseteq Handle
  /\ {"session_mr", "data_mr1", "data_mr2"} \subseteq Handle
  /\ Elements(DestroyOrder) \subseteq Handle
<1>1. \A h \in Handle : Named(h) \in Object
  BY DEF Handle, Object, Verbs, Named
<1>2. Opened \subseteq Handle /\ Registered \subseteq Handle
  BY DEF Handle, Object, Verbs, Opened, Registered, Connected
<1>3. {"session_mr", "data_mr1", "data_mr2"} \subseteq Handle
  BY DEF Handle
<1>4. Elements(DestroyOrder) \subseteq Handle
  BY DEF Elements, DestroyOrder, Handle, Object, Verbs
<1> QED
  BY <1>1, <1>2, <1>3, <1>4

\* The messages are sequences of bytes.
LEMMA MessageTypes ==
  ASSUME NEW p \in Side
  PROVE  /\ LengthMsg(p) \in Seq(Byte) /\ Len(LengthMsg(p)) = LenSize
         /\ ConData(p) \in Seq(Byte) /\ Len(ConData(p)) = ConSize
<1>1. LenSize \in Nat /\ ConSize \in Nat
  BY SizesAssumption
<1>2. \A i \in 1 .. LenSize : [of |-> "length", by |-> p, at |-> i] \in Byte
  BY <1>1 DEF Byte
<1>3. \A i \in 1 .. ConSize : [of |-> "con_data", by |-> p, at |-> i] \in Byte
  BY <1>1 DEF Byte
<1> QED
  BY <1>1, <1>2, <1>3 DEF LengthMsg, ConData

\* What a side reads from
LEMMA SubSeqType ==
  ASSUME NEW T, NEW s \in Seq(T), NEW m \in Nat, NEW n \in Nat,
         m >= 1, n <= Len(s)
  PROVE  SubSeq(s, m, n) \in Seq(T)
<1>1. \A i \in m .. n : i \in 1 .. Len(s)
  OBVIOUS
<1> QED
  BY <1>1, SubSeqProperties
\* In the exchange what comes in is what the peer has written.
LEMMA ReadFrom ==
  ASSUME NEW p \in Side, TypeOK, ConnInv, pc[p] \in InExchange,
         NEW k \in Nat \ {0}, k <= Len(Incoming(p))
  PROVE  /\ PeerOf(p) \in Side /\ Incoming(p) = stream[PeerOf(p)]
         /\ Incoming(p) \in Seq(Byte) /\ Reads(p, PeerOf(p))
<1>1. CASE p = Server
  <2>1. peer \in Clients /\ conn[peer] = "accepted" /\ peer # Server
    BY <1>1, SidesAssumption DEF ConnInv, InExchange
  <2>2. PeerOf(p) = peer /\ Incoming(p) = stream[peer] /\ peer \in Side
    BY <1>1, <2>1 DEF PeerOf, Incoming, Side
  <2>3. stream[peer] \in Seq(Byte)
    BY <2>2 DEF TypeOK
  <2> QED
    BY <1>1, <2>1, <2>2, <2>3 DEF Reads, Unread
<1>2. CASE p # Server
  <2>1. conn[p] = "accepted"
    <3>1. Len(<<>>) = 0
      OBVIOUS
    <3> QED
      BY <1>2, <3>1 DEF Incoming
  <2>2. PeerOf(p) = Server /\ Incoming(p) = stream[Server] /\ Server \in Side
    BY <1>2, <2>1 DEF PeerOf, Incoming, Side
  <2>3. stream[Server] \in Seq(Byte)
    BY <2>2 DEF TypeOK
  <2>4. peer = p /\ p # Nobody
    BY <1>2, <2>1, SidesAssumption DEF ConnInv, Side
  <2> QED
    BY <1>2, <2>1, <2>2, <2>3, <2>4 DEF Reads, Unread
<1> QED
  BY <1>1, <1>2

\* What is under way and what has been read stay sequences of bytes.
LEMMA StreamTypes ==
  ASSUME NEW p \in Side, TypeOK, ConnInv, Moves(p)
  PROVE  stream' \in [Side -> Seq(Byte)] /\ got' \in [Side -> Seq(Byte)]

<1>1. CASE ScpRdmaInit(p)
  BY <1>1 DEF TypeOK, ScpRdmaInit, Hold, Goto, tcpVars
<1>2. CASE NoConnection(p, TRUE)
  BY <1>2 DEF TypeOK, NoConnection, Destroy, Goto, tcpVars, msgVars, qpVars
<1>3. CASE p \in Clients /\ Connect(p)
  BY <1>3 DEF TypeOK, Connect, Hold, Goto, msgVars, qpVars
<1>4. CASE p = Server /\ Listen
  BY <1>4 DEF TypeOK, Listen, Goto, resVars, msgVars, qpVars
<1>5. CASE p = Server /\ \E c \in Clients : Accept(c)
  BY <1>5 DEF TypeOK, Accept, Hold, Goto, msgVars, qpVars
<1>6. CASE p \in Clients /\ \E k \in 1 .. LenSize : WriteLength(p, k)
  <2>1. PICK k \in 1 .. LenSize : WriteLength(p, k)
    BY <1>6
  <2>2. SubSeq(LengthMsg(p), written[p] + 1, written[p] + k) \in Seq(Byte)
    <3>1. written[p] \in Nat /\ written[p] + k <= LenSize
      BY <2>1, SizesAssumption DEF WriteLength, TypeOK
    <3> QED
      BY <3>1, MessageTypes, SubSeqType, SizesAssumption
  <2>3. stream[p] \in Seq(Byte)
    BY DEF TypeOK
  <2>4. stream[p] \o SubSeq(LengthMsg(p), written[p] + 1, written[p] + k) \in Seq(Byte)
    BY <2>2, <2>3
  <2> QED
    BY <2>1, <2>4 DEF WriteLength, Write, TypeOK
<1>7. CASE p = Server /\ \E k \in 1 .. LenSize : ReadLength(k)
  <2>1. PICK k \in 1 .. LenSize : ReadLength(k)
    BY <1>7
  <2>2. /\ k \in Nat /\ k <= Len(Incoming(p)) /\ Incoming(p) \in Seq(Byte)
        /\ got[p] \in Seq(Byte) /\ PeerOf(p) \in Side
    <3>1. k \in Nat \ {0} /\ k <= Len(Incoming(p)) /\ pc[p] \in InExchange
      BY <2>1, SizesAssumption, <1>7 DEF ReadLength, Read, InExchange
    <3>2. got[p] \in Seq(Byte)
      BY DEF TypeOK
    <3> QED
      BY <3>1, <3>2, ReadFrom
  <2>3. /\ SubSeq(Incoming(p), 1, k) \in Seq(Byte)
        /\ SubSeq(stream[PeerOf(p)], k + 1, Len(stream[PeerOf(p)])) \in Seq(Byte)
    BY <2>2, SubSeqType DEF TypeOK
  <2>4. got[p] \o SubSeq(Incoming(p), 1, k) \in Seq(Byte) /\ <<>> \in Seq(Byte)
    BY <2>2, <2>3
  <2>5. Read(p, LenSize, k)
    BY <2>1, <1>7 DEF ReadLength
  <2> QED
    BY <2>2, <2>3, <2>4, <2>5 DEF Read, TypeOK
<1>8. CASE SyncWrite(p)
  <2>1. stream[p] \o ConData(p) \in Seq(Byte)
    BY MessageTypes DEF TypeOK
  <2> QED
    BY <1>8, <2>1 DEF SyncWrite, Write, TypeOK
<1>9. CASE \E k \in 1 .. ConSize : SyncRead(p, k)
  <2>1. PICK k \in 1 .. ConSize : SyncRead(p, k)
    BY <1>9
  <2>2. /\ k \in Nat /\ k <= Len(Incoming(p)) /\ Incoming(p) \in Seq(Byte)
        /\ got[p] \in Seq(Byte) /\ PeerOf(p) \in Side
    <3>1. k \in Nat \ {0} /\ k <= Len(Incoming(p)) /\ pc[p] \in InExchange
      BY <2>1, SizesAssumption DEF SyncRead, Read, InExchange
    <3>2. got[p] \in Seq(Byte)
      BY DEF TypeOK
    <3> QED
      BY <3>1, <3>2, ReadFrom
  <2>3. /\ SubSeq(Incoming(p), 1, k) \in Seq(Byte)
        /\ SubSeq(stream[PeerOf(p)], k + 1, Len(stream[PeerOf(p)])) \in Seq(Byte)
    BY <2>2, SubSeqType DEF TypeOK
  <2>4. got[p] \o SubSeq(Incoming(p), 1, k) \in Seq(Byte) /\ <<>> \in Seq(Byte)
    BY <2>2, <2>3
  <2>5. Read(p, ConSize, k)
    BY <2>1 DEF SyncRead
  <2> QED
    BY <2>2, <2>3, <2>4, <2>5 DEF Read, TypeOK
<1>10. CASE LengthFails(p, TRUE)
  BY <1>10 DEF TypeOK, LengthFails, Destroy, Goto, tcpVars, msgVars, qpVars
<1>11. CASE SyncWriteFails(p, TRUE)
  <2>1. PICK k \in 0 .. ConSize - 1 : Write(p, SubSeq(ConData(p), 1, k))
    BY <1>11 DEF SyncWriteFails
  <2>2. SubSeq(ConData(p), 1, k) \in Seq(Byte)
    BY MessageTypes, SubSeqType, SizesAssumption
  <2>3. stream[p] \o SubSeq(ConData(p), 1, k) \in Seq(Byte)
    BY <2>2 DEF TypeOK
  <2> QED
    BY <1>11, <2>1, <2>3 DEF SyncWriteFails, Write, TypeOK
<1>12. CASE SyncReadFails(p, TRUE)
  BY <1>12 DEF TypeOK, SyncReadFails, TransDestroy, Goto, tcpVars, msgVars, qpVars
<1>13. CASE \E hs \in {{}, {"sge_mr"}, {"sge_mr", "cdc_mr"}} : Register(p, hs)
  BY <1>13 DEF TypeOK, Register, Hold, Goto, tcpVars, msgVars, qpVars
<1>14. CASE ModifyToInit(p)
  BY <1>14 DEF TypeOK, ModifyToInit, ModifyQp, Goto, tcpVars, msgVars
<1>15. CASE PostReceive(p)
  BY <1>15 DEF TypeOK, PostReceive, Goto, resVars, tcpVars, msgVars
<1>16. CASE ModifyToRtr(p)
  BY <1>16 DEF TypeOK, ModifyToRtr, ModifyQp, Goto, tcpVars, msgVars
<1>17. CASE ModifyToRts(p)
  BY <1>17 DEF TypeOK, ModifyToRts, ModifyQp, Goto, tcpVars, msgVars
<1>18. CASE ConnectQpFails(p)
  BY <1>18 DEF TypeOK, ConnectQpFails, TransDestroy, Goto, tcpVars, msgVars, qpVars
<1>19. CASE Finish(p)
  BY <1>19 DEF TypeOK, Finish, Destroy, Goto, tcpVars, msgVars, qpVars
<1>20. CASE p \in Clients /\ PostFails(p)
  BY <1>20 DEF TypeOK, PostFails, TransDestroy, Goto, tcpVars, msgVars, qpVars
<1>21. CASE ReleaseNext(p)
  BY <1>21 DEF TypeOK, ReleaseNext, Release, tcpVars, msgVars
<1>22. CASE TransDestroyed(p)
  BY <1>22 DEF TypeOK, TransDestroyed, Destroy, Goto, tcpVars, msgVars, qpVars
<1>23. CASE End(p)
  <2>1. <<>> \in Seq(Byte)
    OBVIOUS
  <2> QED
    BY <1>23, <2>1 DEF End, TypeOK
<1> QED
  BY <1>1, <1>2, <1>3, <1>4, <1>5, <1>6, <1>7, <1>8, <1>9, <1>10, <1>11, <1>12, <1>13,
       <1>14, <1>15, <1>16, <1>17, <1>18, <1>19, <1>20, <1>21, <1>22, <1>23, MoveCases DEF
       Moves

\* Handles that are taken, and those that rdma_trans_destroy goes through
LEMMA HoldTypes ==
  ASSUME NEW p \in Side, TypeOK, NEW hs \in SUBSET Handle, Hold(p, hs)
  PROVE  live' \in [Side -> SUBSET Object] /\ handle' \in [Side -> SUBSET Handle]
<1>1. {Named(h) : h \in hs} \subseteq Object
  BY NamedObject
<1> QED
  BY <1>1 DEF Hold, TypeOK
\* rdma_trans_destroy goes through handles.
LEMMA TransDestroyTypes ==
  ASSUME NEW p \in Side, TypeOK, NEW mrs \in SUBSET Handle, TransDestroy(p, mrs)
  PROVE  /\ todo' \in [Side -> SUBSET Handle] /\ tornDown' \in [Side -> BOOLEAN]
         /\ pc' \in [Side -> Pc]
<1>1. mrs \cup ({"qp", "cq", "pd", "ib_ctx", "sock", "cdc_mr"} \cap handle[p]) \subseteq Handle
  BY DEF TypeOK
<1> QED
  BY <1>1 DEF TransDestroy, Goto, TypeOK, Pc

\* Every other variable keeps its type.
LEMMA StateTypes ==
  ASSUME NEW p \in Side, TypeOK, QpInv(p), Moves(p)
  PROVE  /\ pc' \in [Side -> Pc]
         /\ live' \in [Side -> SUBSET Object] /\ handle' \in [Side -> SUBSET Handle]
         /\ todo' \in [Side -> SUBSET Handle]
         /\ tornDown' \in [Side -> BOOLEAN]
         /\ stale' \in [Side -> SUBSET Handle] /\ refused' \in [Side -> SUBSET Handle]
         /\ listening' \in BOOLEAN /\ conn' \in [Clients -> {"none", "queued", "accepted"}]
         /\ peer' \in Clients \cup {Nobody}
         /\ written' \in [Side -> 0 .. LenSize]
         /\ wr_len' \in [Side -> WrLen] /\ remote' \in [Side -> Side \cup {Nobody}]
         /\ qp' \in [Side -> {"NONE", "RESET", "INIT", "RTR", "RTS"}]
         /\ posted' \in [Side -> 0 .. 1]
<1> USE SizesAssumption
<1>1. CASE ScpRdmaInit(p)
  <2>1. /\ Hold(p, {"ib_ctx", "pd", "comp_channel", "cq", "epoll_fd", "qp"})
        /\ {"ib_ctx", "pd", "comp_channel", "cq", "epoll_fd", "qp"} \in SUBSET Handle
    BY <1>1, NamedObject DEF ScpRdmaInit, Opened, Registered, Connected
  <2>2. live' \in [Side -> SUBSET Object] /\ handle' \in [Side -> SUBSET Handle]
    BY <2>1, HoldTypes
  <2> QED
    BY <1>1, <2>2 DEF TypeOK, Pc, WrLen, QpInv, ScpRdmaInit, Goto, tcpVars
<1>2. CASE NoConnection(p, TRUE)
  BY <1>2, NamedObject DEF TypeOK, Pc, WrLen, QpInv, NoConnection, Destroy, Goto, tcpVars,
       msgVars, qpVars
<1>3. CASE p \in Clients /\ Connect(p)
  <2>1. Hold(p, {"sock"}) /\ {"sock"} \in SUBSET Handle
    BY <1>3, NamedObject DEF Connect, Opened, Registered, Connected
  <2>2. live' \in [Side -> SUBSET Object] /\ handle' \in [Side -> SUBSET Handle]
    BY <2>1, HoldTypes
  <2> QED
    BY <1>3, <2>2 DEF TypeOK, Pc, WrLen, QpInv, Connect, Goto, msgVars, qpVars
<1>4. CASE p = Server /\ Listen
  BY <1>4, NamedObject DEF TypeOK, Pc, WrLen, QpInv, Listen, Goto, resVars, msgVars, qpVars
<1>5. CASE p = Server /\ \E c \in Clients : Accept(c)
  <2>1. PICK c \in Clients : Accept(c)
    BY <1>5
  <2>2. Hold(p, {"sock"}) /\ {"sock"} \in SUBSET Handle
    BY <1>5, <2>1, NamedObject DEF Accept, Opened, Registered, Connected
  <2>3. live' \in [Side -> SUBSET Object] /\ handle' \in [Side -> SUBSET Handle]
    BY <2>2, HoldTypes
  <2> QED
    BY <1>5, <2>1, <2>3 DEF TypeOK, Pc, WrLen, QpInv, Accept, Goto, msgVars, qpVars
<1>6. CASE p \in Clients /\ \E k \in 1 .. LenSize : WriteLength(p, k)
  BY <1>6, NamedObject DEF TypeOK, Pc, WrLen, QpInv, WriteLength, Write, Goto, resVars,
       tcpVars, qpVars
<1>7. CASE p = Server /\ \E k \in 1 .. LenSize : ReadLength(k)
  <2>1. PICK k \in 1 .. LenSize : ReadLength(k)
    BY <1>7
  <2>2. pc' \in [Side -> Pc] /\ wr_len' \in [Side -> WrLen]
    <3>1. CASE Len(got[Server]) + k < LenSize
      BY <2>1, <3>1 DEF ReadLength, TypeOK
    <3>2. CASE ~(Len(got[Server]) + k < LenSize)
      BY <1>7, <2>1, <3>2 DEF ReadLength, TypeOK, Goto, Pc, WrLen
    <3> QED
      BY <3>1, <3>2
  <2>3. UNCHANGED <<resVars, tcpVars, written, remote, qpVars>>
    BY <2>1 DEF ReadLength
  <2> QED
    BY <2>2, <2>3 DEF TypeOK, resVars, tcpVars, qpVars
<1>8. CASE SyncWrite(p)
  BY <1>8, NamedObject DEF TypeOK, Pc, WrLen, QpInv, SyncWrite, Write, Goto, resVars,
       tcpVars, qpVars
<1>9. CASE \E k \in 1 .. ConSize : SyncRead(p, k)
  <2>1. PICK k \in 1 .. ConSize : SyncRead(p, k)
    BY <1>9
  <2>2. pc' \in [Side -> Pc] /\ remote' \in [Side -> Side \cup {Nobody}]
    <3>1. CASE Len(got[p]) + k < ConSize
      BY <2>1, <3>1 DEF SyncRead, TypeOK
    <3>2. CASE ~(Len(got[p]) + k < ConSize)
      <4> DEFINE data == IF \E q \in Side : Whole(p, k) = ConData(q)
                         THEN CHOOSE q \in Side : Whole(p, k) = ConData(q) ELSE Nobody
      <4>1. data \in Side \cup {Nobody}
        OBVIOUS
      <4>2. Goto(p, "modify") /\ remote' = [remote EXCEPT ![p] = data]
        BY <2>1, <3>2 DEF SyncRead
      <4> QED
        BY <4>1, <4>2 DEF Goto, TypeOK, Pc
    <3> QED
      BY <3>1, <3>2
  <2>3. UNCHANGED <<resVars, tcpVars, written, wr_len, qpVars>>
    BY <2>1 DEF SyncRead
  <2> QED
    BY <2>2, <2>3 DEF TypeOK, resVars, tcpVars, qpVars
<1>10. CASE LengthFails(p, TRUE)
  BY <1>10, NamedObject DEF TypeOK, Pc, WrLen, QpInv, LengthFails, Destroy, Goto, tcpVars,
       msgVars, qpVars
<1>11. CASE SyncWriteFails(p, TRUE)
  <2>1. TransDestroy(p, {"sge_mr"}) /\ {"sge_mr"} \in SUBSET Handle
    BY <1>11, NamedObject DEF SyncWriteFails, Registered
  <2>2. /\ todo' \in [Side -> SUBSET Handle] /\ tornDown' \in [Side -> BOOLEAN]
        /\ pc' \in [Side -> Pc]
    BY <2>1, TransDestroyTypes
  <2> QED
    BY <1>11, <2>2 DEF TypeOK, SyncWriteFails, tcpVars, qpVars
<1>12. CASE SyncReadFails(p, TRUE)
  <2>1. TransDestroy(p, {"sge_mr"}) /\ {"sge_mr"} \in SUBSET Handle
    BY <1>12, NamedObject DEF SyncReadFails, Registered
  <2>2. /\ todo' \in [Side -> SUBSET Handle] /\ tornDown' \in [Side -> BOOLEAN]
        /\ pc' \in [Side -> Pc]
    BY <2>1, TransDestroyTypes
  <2> QED
    BY <1>12, <2>2 DEF TypeOK, SyncReadFails, tcpVars, msgVars, qpVars
<1>13. CASE \E hs \in {{}, {"sge_mr"}, {"sge_mr", "cdc_mr"}} : Register(p, hs)
  <2>1. PICK hs \in {{}, {"sge_mr"}, {"sge_mr", "cdc_mr"}} : Register(p, hs)
    BY <1>13
  <2>2. Hold(p, hs) /\ hs \in SUBSET Handle
    BY <2>1, NamedObject DEF Register, Registered
  <2>3. live' \in [Side -> SUBSET Object] /\ handle' \in [Side -> SUBSET Handle]
    BY <2>2, HoldTypes
  <2> QED
    BY <2>1, <2>3 DEF TypeOK, Pc, WrLen, QpInv, Register, Goto, tcpVars, msgVars, qpVars
<1>14. CASE ModifyToInit(p)
  BY <1>14, NamedObject DEF TypeOK, Pc, WrLen, QpInv, ModifyToInit, ModifyQp, Goto, tcpVars,
       msgVars
<1>15. CASE PostReceive(p)
  BY <1>15, NamedObject DEF TypeOK, Pc, WrLen, QpInv, PostReceive, Goto, resVars, tcpVars,
       msgVars
<1>16. CASE ModifyToRtr(p)
  BY <1>16, NamedObject DEF TypeOK, Pc, WrLen, QpInv, ModifyToRtr, ModifyQp, Goto, tcpVars,
       msgVars
<1>17. CASE ModifyToRts(p)
  BY <1>17, NamedObject DEF TypeOK, Pc, WrLen, QpInv, ModifyToRts, ModifyQp, Goto, tcpVars,
       msgVars
<1>18. CASE ConnectQpFails(p)
  <2>1. TransDestroy(p, {"sge_mr"}) /\ {"sge_mr"} \in SUBSET Handle
    BY <1>18, NamedObject DEF ConnectQpFails, Registered
  <2>2. /\ todo' \in [Side -> SUBSET Handle] /\ tornDown' \in [Side -> BOOLEAN]
        /\ pc' \in [Side -> Pc]
    BY <2>1, TransDestroyTypes
  <2> QED
    BY <1>18, <2>2 DEF TypeOK, ConnectQpFails, tcpVars, msgVars, qpVars
<1>19. CASE Finish(p)
  BY <1>19, NamedObject DEF TypeOK, Pc, WrLen, QpInv, Finish, Destroy, Goto, tcpVars,
       msgVars, qpVars
<1>20. CASE p \in Clients /\ PostFails(p)
  <2>1. PICK mrs \in {{"sge_mr"}, {"data_mr1", "data_mr2"}} : TransDestroy(p, mrs)
    BY <1>20 DEF PostFails
  <2>2. mrs \in SUBSET Handle
    BY NamedObject DEF Registered
  <2>3. /\ todo' \in [Side -> SUBSET Handle] /\ tornDown' \in [Side -> BOOLEAN]
        /\ pc' \in [Side -> Pc]
    BY <2>1, <2>2, TransDestroyTypes
  <2>4. handle' \in [Side -> SUBSET Handle]
    <3>1. \/ UNCHANGED handle
          \/ handle' = [handle EXCEPT ![p] = @ \cup {"data_mr1", "data_mr2"}]
      BY <1>20 DEF PostFails
    <3>2. handle[p] \cup {"data_mr1", "data_mr2"} \subseteq Handle
      BY NamedObject DEF TypeOK
    <3> QED
      BY <3>1, <3>2 DEF TypeOK
  <2> QED
    BY <1>20, <2>3, <2>4 DEF TypeOK, PostFails, tcpVars, msgVars, qpVars
<1>21. CASE ReleaseNext(p)
  BY <1>21, NamedObject DEF TypeOK, Pc, WrLen, QpInv, ReleaseNext, Release, tcpVars, msgVars
<1>22. CASE TransDestroyed(p)
  BY <1>22, NamedObject DEF TypeOK, Pc, WrLen, QpInv, TransDestroyed, Destroy, Goto,
       tcpVars, msgVars, qpVars
<1>23. CASE End(p)
  BY <1>23, NamedObject DEF TypeOK, Pc, WrLen, QpInv, End, Goto
<1> QED
  BY <1>1, <1>2, <1>3, <1>4, <1>5, <1>6, <1>7, <1>8, <1>9, <1>10, <1>11, <1>12, <1>13,
       <1>14, <1>15, <1>16, <1>17, <1>18, <1>19, <1>20, <1>21, <1>22, <1>23, MoveCases DEF
       Moves

-----------------------------------------------------------------------------
(* Each side by itself: what it holds, and its queue pair.                 *)

\* The handles of the final destroy, and the objects of some sets of handles
LEMMA DestroyOrderSet ==
  Elements(DestroyOrder) = {"session_mr", "cdc_mr", "qp", "cq", "epoll_fd", "comp_channel",
                            "pd", "ib_ctx", "sock"}
BY DEF Elements, DestroyOrder
\* The objects that these handles name
LEMMA Images ==
  /\ {Named(h) : h \in Opened} = Opened
  /\ {Named(h) : h \in Connected} = Connected
  /\ {Named(h) : h \in Registered \cup {"session_mr"}} = Connected \cup {"mr", "cdc_mr"}
  /\ {Named(h) : h \in Registered} = Connected \cup {"mr", "cdc_mr"}
  /\ {Named(h) : h \in Elements(DestroyOrder)} = Connected \cup {"mr", "cdc_mr"}
<1>1. {Named(h) : h \in Opened} = Opened
  BY DEF Opened, Named
<1>2. {Named(h) : h \in Connected} = Connected
  BY DEF Opened, Connected, Named
<1>3. {Named(h) : h \in Registered \cup {"session_mr"}} = Connected \cup {"mr", "cdc_mr"}
  BY DEF Opened, Connected, Registered, Named
<1>4. {Named(h) : h \in Elements(DestroyOrder)} = Connected \cup {"mr", "cdc_mr"}
  BY DestroyOrderSet DEF Opened, Connected, Named
<1>5. {Named(h) : h \in Registered} = Connected \cup {"mr", "cdc_mr"}
  BY DEF Opened, Connected, Registered, Named
<1> QED
  BY <1>1, <1>2, <1>3, <1>4, <1>5
\* What an established connection needs is there.
LEMMA ReceivingHeld ==
  ASSUME NEW p \in Side, HandleInv(p), pc[p] \in {"rtr", "rts", "established"}
  PROVE  "qp" \in handle[p] /\ {"qp", "mr", "cdc_mr"} \subseteq live[p]
<1>1. Registered \subseteq handle[p] /\ live[p] = {Named(h) : h \in handle[p]}
  BY DEF HandleInv
<1>2. {"qp", "sge_mr", "cdc_mr"} \subseteq Registered
  BY DEF Registered, Connected, Opened
<1>3. Named("qp") = "qp" /\ Named("sge_mr") = "mr" /\ Named("cdc_mr") = "cdc_mr"
  BY DEF Named
<1>4. Named("qp") \in live[p] /\ Named("sge_mr") \in live[p] /\ Named("cdc_mr") \in live[p]
  BY <1>1, <1>2
<1> QED
  BY <1>1, <1>2, <1>3, <1>4

\* The queue pair goes forward with its receive posted, and goes first.
LEMMA QpStep ==
  ASSUME NEW p \in Side, TypeOK, HandleInv(p), QpInv(p), Moves(p)
  PROVE  QpInv(p)'

<1>1. CASE ScpRdmaInit(p)
  BY <1>1 DEF TypeOK, QpInv, Receiving, ScpRdmaInit, Hold, Goto, tcpVars
<1>2. CASE NoConnection(p, TRUE)
  BY <1>2 DEF TypeOK, QpInv, Receiving, NoConnection, Destroy, Goto, tcpVars, msgVars, qpVars
<1>3. CASE p \in Clients /\ Connect(p)
  BY <1>3 DEF TypeOK, QpInv, Receiving, Connect, Hold, Goto, msgVars, qpVars
<1>4. CASE p = Server /\ Listen
  BY <1>4 DEF TypeOK, QpInv, Receiving, Listen, Goto, resVars, msgVars, qpVars
<1>5. CASE p = Server /\ \E c \in Clients : Accept(c)
  BY <1>5 DEF TypeOK, QpInv, Receiving, Accept, Hold, Goto, msgVars, qpVars
<1>6. CASE p \in Clients /\ \E k \in 1 .. LenSize : WriteLength(p, k)
  BY <1>6 DEF TypeOK, QpInv, Receiving, WriteLength, Write, Goto, resVars, tcpVars, qpVars
<1>7. CASE p = Server /\ \E k \in 1 .. LenSize : ReadLength(k)
  BY <1>7 DEF TypeOK, QpInv, Receiving, ReadLength, Read, Goto, resVars, tcpVars, qpVars
<1>8. CASE SyncWrite(p)
  BY <1>8 DEF TypeOK, QpInv, Receiving, SyncWrite, Write, Goto, resVars, tcpVars, qpVars
<1>9. CASE \E k \in 1 .. ConSize : SyncRead(p, k)
  BY <1>9 DEF TypeOK, QpInv, Receiving, SyncRead, Read, Goto, resVars, tcpVars, qpVars
<1>10. CASE LengthFails(p, TRUE)
  BY <1>10 DEF TypeOK, QpInv, Receiving, LengthFails, Destroy, Goto, tcpVars, msgVars, qpVars
<1>11. CASE SyncWriteFails(p, TRUE)
  BY <1>11 DEF TypeOK, QpInv, Receiving, SyncWriteFails, TransDestroy, Write, Goto, tcpVars,
       qpVars
<1>12. CASE SyncReadFails(p, TRUE)
  BY <1>12 DEF TypeOK, QpInv, Receiving, SyncReadFails, TransDestroy, Goto, tcpVars,
       msgVars, qpVars
<1>13. CASE \E hs \in {{}, {"sge_mr"}, {"sge_mr", "cdc_mr"}} : Register(p, hs)
  BY <1>13 DEF TypeOK, QpInv, Receiving, Register, Hold, Goto, tcpVars, msgVars, qpVars
<1>14. CASE ModifyToInit(p)
  BY <1>14 DEF TypeOK, QpInv, Receiving, ModifyToInit, ModifyQp, Goto, tcpVars, msgVars
<1>15. CASE PostReceive(p)
  BY <1>15 DEF TypeOK, QpInv, Receiving, PostReceive, Goto, resVars, tcpVars, msgVars
<1>16. CASE ModifyToRtr(p)
  BY <1>16 DEF TypeOK, QpInv, Receiving, ModifyToRtr, ModifyQp, Goto, tcpVars, msgVars
<1>17. CASE ModifyToRts(p)
  BY <1>17 DEF TypeOK, QpInv, Receiving, ModifyToRts, ModifyQp, Goto, tcpVars, msgVars
<1>18. CASE ConnectQpFails(p)
  <2>1. CASE pc[p] = "rts"
    BY <1>18, <2>1, ReceivingHeld DEF TypeOK, QpInv, Receiving, ConnectQpFails,
         TransDestroy, Goto, tcpVars, msgVars, qpVars
  <2>2. CASE pc[p] # "rts"
    BY <1>18, <2>2 DEF TypeOK, QpInv, Receiving, ConnectQpFails, TransDestroy, Goto,
         tcpVars, msgVars, qpVars
  <2> QED
    BY <2>1, <2>2
<1>19. CASE Finish(p)
  BY <1>19 DEF TypeOK, QpInv, Receiving, Finish, Destroy, Goto, tcpVars, msgVars, qpVars
<1>20. CASE p \in Clients /\ PostFails(p)
  <2>1. pc[p] = "established" /\ UNCHANGED <<live, qp, posted>>
    BY <1>20 DEF PostFails, qpVars
  <2>2. PICK mrs : TransDestroy(p, mrs)
    BY <1>20 DEF PostFails
  <2>3. pc'[p] = "trans_destroy" /\ ("qp" \in handle[p] => "qp" \in todo'[p])
    BY <2>2 DEF TransDestroy, Goto, TypeOK
  <2> QED
    BY <2>1, <2>3, ReceivingHeld DEF QpInv, Receiving
<1>21. CASE ReleaseNext(p)
  <2>1. PICK h \in todo[p] : /\ IsNext(p, h) /\ Release(p, h)
                             /\ todo' = [todo EXCEPT ![p] = @ \ {h}]
    BY <1>21 DEF ReleaseNext
  <2>2. UNCHANGED <<pc, posted>> /\ pc[p] \in {"destroy", "trans_destroy"}
    BY <1>21 DEF ReleaseNext
  <2>3. qp'[p] = qp[p] \/ qp'[p] = "NONE"
    BY <2>1 DEF Release, TypeOK
  <2>4. ASSUME pc[p] = "trans_destroy", Receiving(p) PROVE qp'[p] = "NONE"
    <3>1. "qp" \in todo[p] /\ "qp" \in live[p]
      BY <2>4 DEF QpInv
    <3>2. PICK i \in 1 .. 9 : /\ TransDestroyOrder[i] = h
                              /\ \A j \in 1 .. i - 1 : TransDestroyOrder[j] \notin todo[p]
      BY <2>1, <2>4 DEF IsNext, TransDestroyOrder
    <3>3. TransDestroyOrder[1] = "qp"
      BY DEF TransDestroyOrder
    <3>4. h = "qp"
      BY <3>1, <3>2, <3>3
    <3>5. Named("qp") = "qp" /\ Users("qp") = {} /\ "qp" \in Gone("qp")
      BY DEF Named, Users, Gone
    <3> QED
      BY <2>1, <3>1, <3>4, <3>5 DEF Release, TypeOK
  <2> QED
    BY <2>2, <2>3, <2>4 DEF QpInv, Receiving
<1>22. CASE TransDestroyed(p)
  BY <1>22 DEF TypeOK, QpInv, Receiving, TransDestroyed, Destroy, Goto, tcpVars, msgVars, qpVars
<1>23. CASE End(p)
  BY <1>23 DEF TypeOK, QpInv, Receiving, End, Goto
<1> QED
  BY <1>1, <1>2, <1>3, <1>4, <1>5, <1>6, <1>7, <1>8, <1>9, <1>10, <1>11, <1>12, <1>13,
       <1>14, <1>15, <1>16, <1>17, <1>18, <1>19, <1>20, <1>21, <1>22, <1>23, MoveCases DEF
       Moves

\* Nothing is held twice, and what is held is alive.
LEMMA HandleStep ==
  ASSUME NEW p \in Side, TypeOK, HandleInv(p), Moves(p)
  PROVE  HandleInv(p)'

<1>1. CASE ScpRdmaInit(p)
  BY <1>1 DEF TypeOK, HandleInv, Opened, Connected, Registered, ScpRdmaInit, Hold, Goto, tcpVars
<1>2. CASE NoConnection(p, TRUE)
  BY <1>2 DEF TypeOK, HandleInv, Opened, Connected, Registered, NoConnection, Destroy, Goto,
       tcpVars, msgVars, qpVars
<1>3. CASE p \in Clients /\ Connect(p)
  BY <1>3 DEF TypeOK, HandleInv, Opened, Connected, Registered, Connect, Hold, Goto,
       msgVars, qpVars
<1>4. CASE p = Server /\ Listen
  BY <1>4 DEF TypeOK, HandleInv, Opened, Connected, Registered, Listen, Goto, resVars,
       msgVars, qpVars
<1>5. CASE p = Server /\ \E c \in Clients : Accept(c)
  BY <1>5 DEF TypeOK, HandleInv, Opened, Connected, Registered, Accept, Hold, Goto, msgVars,
       qpVars
<1>6. CASE p \in Clients /\ \E k \in 1 .. LenSize : WriteLength(p, k)
  BY <1>6 DEF TypeOK, HandleInv, Opened, Connected, Registered, WriteLength, Write, Goto,
       resVars, tcpVars, qpVars
<1>7. CASE p = Server /\ \E k \in 1 .. LenSize : ReadLength(k)
  BY <1>7 DEF TypeOK, HandleInv, Opened, Connected, Registered, ReadLength, Read, Goto,
       resVars, tcpVars, qpVars
<1>8. CASE SyncWrite(p)
  BY <1>8 DEF TypeOK, HandleInv, Opened, Connected, Registered, SyncWrite, Write, Goto,
       resVars, tcpVars, qpVars
<1>9. CASE \E k \in 1 .. ConSize : SyncRead(p, k)
  BY <1>9 DEF TypeOK, HandleInv, Opened, Connected, Registered, SyncRead, Read, Goto,
       resVars, tcpVars, qpVars
<1>10. CASE LengthFails(p, TRUE)
  BY <1>10 DEF TypeOK, HandleInv, Opened, Connected, Registered, LengthFails, Destroy, Goto,
       tcpVars, msgVars, qpVars
<1>11. CASE SyncWriteFails(p, TRUE)
  BY <1>11 DEF TypeOK, HandleInv, Opened, Connected, Registered, SyncWriteFails,
       TransDestroy, Write, Goto, tcpVars, qpVars
<1>12. CASE SyncReadFails(p, TRUE)
  BY <1>12 DEF TypeOK, HandleInv, Opened, Connected, Registered, SyncReadFails,
       TransDestroy, Goto, tcpVars, msgVars, qpVars
<1>13. CASE \E hs \in {{}, {"sge_mr"}, {"sge_mr", "cdc_mr"}} : Register(p, hs)
  BY <1>13 DEF TypeOK, HandleInv, Opened, Connected, Registered, Register, Hold, Goto,
       tcpVars, msgVars, qpVars
<1>14. CASE ModifyToInit(p)
  BY <1>14 DEF TypeOK, HandleInv, Opened, Connected, Registered, ModifyToInit, ModifyQp,
       Goto, tcpVars, msgVars
<1>15. CASE PostReceive(p)
  <2>1. "cdc_mr" \notin Connected \cup {"sge_mr"}
    BY DEF Connected, Opened
  <2>2. handle[p] = Registered
    BY <1>15, <2>1 DEF PostReceive, HandleInv
  <2> QED
    BY <1>15, <2>2 DEF TypeOK, HandleInv, PostReceive, Goto, resVars, tcpVars, msgVars
<1>16. CASE ModifyToRtr(p)
  BY <1>16 DEF TypeOK, HandleInv, Opened, Connected, Registered, ModifyToRtr, ModifyQp,
       Goto, tcpVars, msgVars
<1>17. CASE ModifyToRts(p)
  <2>1. pc[p] = "rts" /\ handle[p] = Registered /\ live[p] = {Named(h) : h \in Registered}
    BY <1>17 DEF ModifyToRts, ModifyQp, HandleInv
  <2>2. {Named(h) : h \in Registered} = {Named(h) : h \in Registered \cup {"session_mr"}}
    BY Images
  <2> QED
    BY <1>17, <2>1, <2>2 DEF TypeOK, HandleInv, ModifyToRts, ModifyQp, Goto, tcpVars, msgVars
<1>18. CASE ConnectQpFails(p)
  BY <1>18 DEF TypeOK, HandleInv, Opened, Connected, Registered, ConnectQpFails,
       TransDestroy, Goto, tcpVars, msgVars, qpVars
<1>19. CASE Finish(p)
  BY <1>19 DEF TypeOK, HandleInv, Opened, Connected, Registered, Finish, Destroy, Goto,
       tcpVars, msgVars, qpVars
<1>20. CASE p \in Clients /\ PostFails(p)
  BY <1>20 DEF TypeOK, HandleInv, Opened, Connected, Registered, PostFails, TransDestroy,
       Goto, tcpVars, msgVars, qpVars
<1>21. CASE ReleaseNext(p)
  BY <1>21 DEF TypeOK, HandleInv, Opened, Connected, Registered, ReleaseNext, Release,
       tcpVars, msgVars
<1>22. CASE TransDestroyed(p)
  BY <1>22 DEF TypeOK, HandleInv, Opened, Connected, Registered, TransDestroyed, Destroy,
       Goto, tcpVars, msgVars, qpVars
<1>23. CASE End(p)
  BY <1>23 DEF TypeOK, HandleInv, Opened, Connected, Registered, End, Goto
<1> QED
  BY <1>1, <1>2, <1>3, <1>4, <1>5, <1>6, <1>7, <1>8, <1>9, <1>10, <1>11, <1>12, <1>13,
       <1>14, <1>15, <1>16, <1>17, <1>18, <1>19, <1>20, <1>21, <1>22, <1>23, MoveCases DEF
       Moves

\* The handle that the final destroy releases is of an object that nothing uses.
LEMMA NextReleased ==
  ASSUME NEW p \in Side, pc[p] = "destroy", todo[p] \subseteq Elements(DestroyOrder),
         live[p] = {Named(h) : h \in todo[p]}, NEW h \in todo[p], IsNext(p, h)
  PROVE  /\ Named(h) \in live[p] /\ live[p] \cap Users(Named(h)) = {}
         /\ live[p] \ Gone(Named(h)) = {Named(x) : x \in todo[p] \ {h}}
<1> DEFINE A == todo[p]
           O == DestroyOrder
<1>1. Named(h) \in live[p]
  OBVIOUS
<1>2. PICK i \in 1 .. 9 : O[i] = h /\ \A j \in 1 .. i - 1 : O[j] \notin A
  BY DEF IsNext, DestroyOrder
<1>3. /\ O[1] = "session_mr" /\ O[2] = "cdc_mr" /\ O[3] = "qp" /\ O[4] = "cq"
      /\ O[5] = "epoll_fd" /\ O[6] = "comp_channel" /\ O[7] = "pd" /\ O[8] = "ib_ctx"
      /\ O[9] = "sock"
  BY DEF DestroyOrder
<1>4. \A x \in Elements(DestroyOrder) : Named(x) = IF x = "session_mr" THEN "mr" ELSE x
  BY DestroyOrderSet DEF Named
<1>5. \A o : o \in live[p] <=> \E x \in A : o = IF x = "session_mr" THEN "mr" ELSE x
  BY <1>4
<1>6. \A o : o \in {Named(x) : x \in A \ {h}}
             <=> \E x \in A \ {h} : o = IF x = "session_mr" THEN "mr" ELSE x
  BY <1>4
<1>7. \A x \in A : x \in {"session_mr", "cdc_mr", "qp", "cq", "epoll_fd", "comp_channel",
                          "pd", "ib_ctx", "sock"}
  BY DestroyOrderSet
<1> HIDE DEF A, O
<1>8. live[p] \cap Users(Named(h)) = {}
  <2>1. CASE h = "pd"
    <3>1. i = 7
      BY <1>2, <1>3, <2>1
    <3>2. "session_mr" \notin A /\ "cdc_mr" \notin A /\ "qp" \notin A
      BY <1>2, <1>3, <3>1
    <3>3. Users(Named(h)) = {"qp", "mr", "cdc_mr"}
      BY <2>1 DEF Users, Named
    <3> QED
      BY <1>5, <1>7, <3>2, <3>3
  <2>2. CASE h = "cq"
    <3>1. i = 4
      BY <1>2, <1>3, <2>2
    <3>2. "qp" \notin A
      BY <1>2, <1>3, <3>1
    <3>3. Users(Named(h)) = {"qp"}
      BY <2>2 DEF Users, Named
    <3> QED
      BY <1>5, <1>7, <3>2, <3>3
  <2>3. CASE h = "comp_channel"
    <3>1. i = 6
      BY <1>2, <1>3, <2>3
    <3>2. "cq" \notin A
      BY <1>2, <1>3, <3>1
    <3>3. Users(Named(h)) = {"cq"}
      BY <2>3 DEF Users, Named
    <3> QED
      BY <1>5, <1>7, <3>2, <3>3
  <2>4. CASE h \notin {"pd", "cq", "comp_channel"}
    <3>1. Named(h) \notin {"pd", "cq", "comp_channel"}
      BY <1>2, <1>3, <2>4 DEF Named
    <3> QED
      BY <3>1 DEF Users
  <2> QED
    BY <2>1, <2>2, <2>3, <2>4
<1>9. live[p] \ Gone(Named(h)) = {Named(x) : x \in A \ {h}}
  <2>1. CASE h = "ib_ctx"
    <3>1. i = 8
      BY <1>2, <1>3, <2>1
    <3>2. A \subseteq {"ib_ctx", "sock"}
      <4>1. \A j \in 1 .. 7 : O[j] \notin A
        BY <1>2, <3>1
      <4> QED
        BY <1>3, <1>7, <4>1
    <3>3. Gone(Named(h)) = Verbs \cup {"ib_ctx"}
      BY <2>1 DEF Gone, Named
    <3>4. "sock" \notin Gone(Named(h)) /\ "ib_ctx" \in Gone(Named(h))
      BY <3>3 DEF Verbs
    <3> QED
      BY <1>5, <1>6, <2>1, <3>2, <3>4
  <2>2. CASE h # "ib_ctx"
    <3>1. h \in A
      BY DEF A
    <3>2. Named(h) = IF h = "session_mr" THEN "mr" ELSE h
      BY <1>4, <3>1 DEF A
    <3>3. Gone(Named(h)) = {Named(h)}
      BY <2>2, <3>2 DEF Gone
    <3> QED
      BY <1>5, <1>6, <1>7, <3>1, <3>2, <3>3
  <2> QED
    BY <2>1, <2>2
<1> QED
  BY <1>1, <1>8, <1>9 DEF A
\* Each release takes one handle and its object with it.
LEMMA DestroyStep ==
  ASSUME NEW p \in Side, TypeOK, HandleInv(p), DestroyInv(p), Moves(p)
  PROVE  DestroyInv(p)'

<1>1. CASE ScpRdmaInit(p)
  BY <1>1 DEF TypeOK, HandleInv, DestroyInv, ScpRdmaInit, Hold, Goto, tcpVars
<1>2. CASE NoConnection(p, TRUE)
  <2>1. handle[p] = Opened /\ live[p] = Opened /\ stale[p] = {} /\ refused[p] = {}
    BY <1>2, Images DEF NoConnection, HandleInv
  <2>2. Elements(DestroyOrder) \cap Opened = Opened
    BY DestroyOrderSet DEF Opened
  <2> QED
    BY <1>2, <2>1, <2>2, Images DEF TypeOK, DestroyInv, NoConnection, Destroy, Goto
<1>3. CASE p \in Clients /\ Connect(p)
  BY <1>3 DEF TypeOK, HandleInv, DestroyInv, Connect, Hold, Goto, msgVars, qpVars
<1>4. CASE p = Server /\ Listen
  BY <1>4 DEF TypeOK, HandleInv, DestroyInv, Listen, Goto, resVars, msgVars, qpVars
<1>5. CASE p = Server /\ \E c \in Clients : Accept(c)
  BY <1>5 DEF TypeOK, HandleInv, DestroyInv, Accept, Hold, Goto, msgVars, qpVars
<1>6. CASE p \in Clients /\ \E k \in 1 .. LenSize : WriteLength(p, k)
  BY <1>6 DEF TypeOK, HandleInv, DestroyInv, WriteLength, Write, Goto, resVars, tcpVars, qpVars
<1>7. CASE p = Server /\ \E k \in 1 .. LenSize : ReadLength(k)
  BY <1>7 DEF TypeOK, HandleInv, DestroyInv, ReadLength, Read, Goto, resVars, tcpVars, qpVars
<1>8. CASE SyncWrite(p)
  BY <1>8 DEF TypeOK, HandleInv, DestroyInv, SyncWrite, Write, Goto, resVars, tcpVars, qpVars
<1>9. CASE \E k \in 1 .. ConSize : SyncRead(p, k)
  BY <1>9 DEF TypeOK, HandleInv, DestroyInv, SyncRead, Read, Goto, resVars, tcpVars, qpVars
<1>10. CASE LengthFails(p, TRUE)
  <2>1. handle[p] = Connected /\ live[p] = Connected /\ stale[p] = {} /\ refused[p] = {}
    BY <1>10, Images DEF LengthFails, HandleInv
  <2>2. Elements(DestroyOrder) \cap Opened = Opened /\ Connected \ {"sock"} = Opened
    BY DestroyOrderSet DEF Opened, Connected
  <2> QED
    BY <1>10, <2>1, <2>2, Images DEF TypeOK, DestroyInv, LengthFails, Destroy, Goto
<1>11. CASE SyncWriteFails(p, TRUE)
  BY <1>11 DEF TypeOK, HandleInv, DestroyInv, SyncWriteFails, TransDestroy, Write, Goto,
       tcpVars, qpVars
<1>12. CASE SyncReadFails(p, TRUE)
  BY <1>12 DEF TypeOK, HandleInv, DestroyInv, SyncReadFails, TransDestroy, Goto, tcpVars,
       msgVars, qpVars
<1>13. CASE \E hs \in {{}, {"sge_mr"}, {"sge_mr", "cdc_mr"}} : Register(p, hs)
  BY <1>13 DEF TypeOK, HandleInv, DestroyInv, Register, Hold, Goto, tcpVars, msgVars, qpVars
<1>14. CASE ModifyToInit(p)
  BY <1>14 DEF TypeOK, HandleInv, DestroyInv, ModifyToInit, ModifyQp, Goto, tcpVars, msgVars
<1>15. CASE PostReceive(p)
  BY <1>15 DEF TypeOK, HandleInv, DestroyInv, PostReceive, Goto, resVars, tcpVars, msgVars
<1>16. CASE ModifyToRtr(p)
  BY <1>16 DEF TypeOK, HandleInv, DestroyInv, ModifyToRtr, ModifyQp, Goto, tcpVars, msgVars
<1>17. CASE ModifyToRts(p)
  BY <1>17 DEF TypeOK, HandleInv, DestroyInv, ModifyToRts, ModifyQp, Goto, tcpVars, msgVars
<1>18. CASE ConnectQpFails(p)
  BY <1>18 DEF TypeOK, HandleInv, DestroyInv, ConnectQpFails, TransDestroy, Goto, tcpVars,
       msgVars, qpVars
<1>19. CASE Finish(p)
  <2>1. /\ handle[p] = Registered \cup {"session_mr"}
        /\ live[p] = {Named(h) : h \in Registered \cup {"session_mr"}}
        /\ stale[p] = {} /\ refused[p] = {}
    BY <1>19 DEF Finish, HandleInv
  <2>2. Elements(DestroyOrder) \cap (Registered \cup {"session_mr"}) = Elements(DestroyOrder)
    BY DestroyOrderSet DEF Opened, Connected, Registered
  <2> QED
    BY <1>19, <2>1, <2>2, Images DEF TypeOK, DestroyInv, Finish, Destroy, Goto
<1>20. CASE p \in Clients /\ PostFails(p)
  BY <1>20 DEF TypeOK, HandleInv, DestroyInv, PostFails, TransDestroy, Goto, tcpVars,
       msgVars, qpVars
<1>21. CASE ReleaseNext(p)
  <2>1. PICK h \in todo[p] : /\ IsNext(p, h) /\ Release(p, h)
                             /\ todo' = [todo EXCEPT ![p] = @ \ {h}]
    BY <1>21 DEF ReleaseNext
  <2>2. UNCHANGED <<pc, tornDown>>
    BY <1>21 DEF ReleaseNext
  <2>3. SUFFICES ASSUME pc[p] = "destroy", ~tornDown[p] PROVE DestroyInv(p)'
    BY <2>2 DEF DestroyInv
  <2>4. /\ todo[p] \subseteq Elements(DestroyOrder) /\ live[p] = {Named(x) : x \in todo[p]}
        /\ stale[p] = {} /\ refused[p] = {}
    BY <2>3 DEF DestroyInv
  <2>5. /\ Named(h) \in live[p] /\ live[p] \cap Users(Named(h)) = {}
        /\ live[p] \ Gone(Named(h)) = {Named(x) : x \in todo[p] \ {h}}
    BY <2>1, <2>3, <2>4, NextReleased
  <2>6. /\ live'[p] = live[p] \ Gone(Named(h)) /\ todo'[p] = todo[p] \ {h}
        /\ stale'[p] = {} /\ refused'[p] = {}
    BY <2>1, <2>4, <2>5 DEF Release, TypeOK
  <2> QED
    BY <2>4, <2>5, <2>6 DEF DestroyInv
<1>22. CASE TransDestroyed(p)
  BY <1>22 DEF TypeOK, HandleInv, DestroyInv, TransDestroyed, Destroy, Goto, tcpVars,
       msgVars, qpVars
<1>23. CASE End(p)
  BY <1>23 DEF TypeOK, HandleInv, DestroyInv, End, Goto
<1> QED
  BY <1>1, <1>2, <1>3, <1>4, <1>5, <1>6, <1>7, <1>8, <1>9, <1>10, <1>11, <1>12, <1>13,
       <1>14, <1>15, <1>16, <1>17, <1>18, <1>19, <1>20, <1>21, <1>22, <1>23, MoveCases DEF
       Moves

-----------------------------------------------------------------------------
(* The connection, and what is counted on it.                              *)

\* The server accepts one client, once.
LEMMA ConnStep ==
  ASSUME NEW p \in Side, TypeOK, ConnInv, Moves(p)
  PROVE  ConnInv'
<1> USE SidesAssumption
<1>1. CASE ScpRdmaInit(p)
  BY <1>1 DEF TypeOK, ConnInv, Side, ScpRdmaInit, Hold, Goto, tcpVars
<1>2. CASE NoConnection(p, TRUE)
  BY <1>2 DEF TypeOK, ConnInv, Side, NoConnection, Destroy, Goto, tcpVars, msgVars, qpVars
<1>3. CASE p \in Clients /\ Connect(p)
  BY <1>3 DEF TypeOK, ConnInv, Side, Connect, Hold, Goto, msgVars, qpVars
<1>4. CASE p = Server /\ Listen
  BY <1>4 DEF TypeOK, ConnInv, Side, Listen, Goto, resVars, msgVars, qpVars
<1>5. CASE p = Server /\ \E c \in Clients : Accept(c)
  BY <1>5 DEF TypeOK, ConnInv, Side, Accept, Hold, Goto, msgVars, qpVars
<1>6. CASE p \in Clients /\ \E k \in 1 .. LenSize : WriteLength(p, k)
  BY <1>6 DEF TypeOK, ConnInv, Side, WriteLength, Write, Goto, resVars, tcpVars, qpVars
<1>7. CASE p = Server /\ \E k \in 1 .. LenSize : ReadLength(k)
  BY <1>7 DEF TypeOK, ConnInv, Side, ReadLength, Read, Goto, resVars, tcpVars, qpVars
<1>8. CASE SyncWrite(p)
  BY <1>8 DEF TypeOK, ConnInv, Side, SyncWrite, Write, Goto, resVars, tcpVars, qpVars
<1>9. CASE \E k \in 1 .. ConSize : SyncRead(p, k)
  BY <1>9 DEF TypeOK, ConnInv, Side, SyncRead, Read, Goto, resVars, tcpVars, qpVars
<1>10. CASE LengthFails(p, TRUE)
  BY <1>10 DEF TypeOK, ConnInv, Side, LengthFails, Destroy, Goto, tcpVars, msgVars, qpVars
<1>11. CASE SyncWriteFails(p, TRUE)
  BY <1>11 DEF TypeOK, ConnInv, Side, SyncWriteFails, TransDestroy, Write, Goto, tcpVars, qpVars
<1>12. CASE SyncReadFails(p, TRUE)
  BY <1>12 DEF TypeOK, ConnInv, Side, SyncReadFails, TransDestroy, Goto, tcpVars, msgVars,
       qpVars
<1>13. CASE \E hs \in {{}, {"sge_mr"}, {"sge_mr", "cdc_mr"}} : Register(p, hs)
  BY <1>13 DEF TypeOK, ConnInv, Side, Register, Hold, Goto, tcpVars, msgVars, qpVars
<1>14. CASE ModifyToInit(p)
  BY <1>14 DEF TypeOK, ConnInv, Side, ModifyToInit, ModifyQp, Goto, tcpVars, msgVars
<1>15. CASE PostReceive(p)
  BY <1>15 DEF TypeOK, ConnInv, Side, PostReceive, Goto, resVars, tcpVars, msgVars
<1>16. CASE ModifyToRtr(p)
  BY <1>16 DEF TypeOK, ConnInv, Side, ModifyToRtr, ModifyQp, Goto, tcpVars, msgVars
<1>17. CASE ModifyToRts(p)
  BY <1>17 DEF TypeOK, ConnInv, Side, ModifyToRts, ModifyQp, Goto, tcpVars, msgVars
<1>18. CASE ConnectQpFails(p)
  BY <1>18 DEF TypeOK, ConnInv, Side, ConnectQpFails, TransDestroy, Goto, tcpVars, msgVars,
       qpVars
<1>19. CASE Finish(p)
  BY <1>19 DEF TypeOK, ConnInv, Side, Finish, Destroy, Goto, tcpVars, msgVars, qpVars
<1>20. CASE p \in Clients /\ PostFails(p)
  BY <1>20 DEF TypeOK, ConnInv, Side, PostFails, TransDestroy, Goto, tcpVars, msgVars, qpVars
<1>21. CASE ReleaseNext(p)
  BY <1>21 DEF TypeOK, ConnInv, Side, ReleaseNext, Release, tcpVars, msgVars
<1>22. CASE TransDestroyed(p)
  BY <1>22 DEF TypeOK, ConnInv, Side, TransDestroyed, Destroy, Goto, tcpVars, msgVars, qpVars
<1>23. CASE End(p)
  BY <1>23 DEF TypeOK, ConnInv, Side, End, Goto
<1> QED
  BY <1>1, <1>2, <1>3, <1>4, <1>5, <1>6, <1>7, <1>8, <1>9, <1>10, <1>11, <1>12, <1>13,
       <1>14, <1>15, <1>16, <1>17, <1>18, <1>19, <1>20, <1>21, <1>22, <1>23, MoveCases DEF
       Moves

\* A program counts what it has written of the length.
LEMMA WrittenStep ==
  ASSUME NEW p \in Side, TypeOK, ConnInv, WrittenInv, Moves(p)
  PROVE  WrittenInv'
<1> USE SidesAssumption, SizesAssumption
<1>1. CASE ScpRdmaInit(p)
  BY <1>1 DEF TypeOK, WrittenInv, ConnInv, Side, ScpRdmaInit, Hold, Goto, tcpVars
<1>2. CASE NoConnection(p, TRUE)
  BY <1>2 DEF TypeOK, WrittenInv, ConnInv, Side, NoConnection, Destroy, Goto, tcpVars,
       msgVars, qpVars
<1>3. CASE p \in Clients /\ Connect(p)
  BY <1>3 DEF TypeOK, WrittenInv, ConnInv, Side, Connect, Hold, Goto, msgVars, qpVars
<1>4. CASE p = Server /\ Listen
  BY <1>4 DEF TypeOK, WrittenInv, ConnInv, Side, Listen, Goto, resVars, msgVars, qpVars
<1>5. CASE p = Server /\ \E c \in Clients : Accept(c)
  BY <1>5 DEF TypeOK, WrittenInv, ConnInv, Side, Accept, Hold, Goto, msgVars, qpVars
<1>6. CASE p \in Clients /\ \E k \in 1 .. LenSize : WriteLength(p, k)
  <2>1. PICK k \in 1 .. LenSize : WriteLength(p, k)
    BY <1>6
  <2>2. /\ pc[p] = "length" /\ written[p] + k <= LenSize /\ p # Server
        /\ written' = [written EXCEPT ![p] = @ + k]
        /\ pc' = [pc EXCEPT ![p] = IF written[p] + k = LenSize THEN "mr" ELSE "length"]
    BY <2>1 DEF WriteLength, Goto
  <2>3. p \in Clients /\ written \in [Side -> 0 .. LenSize] /\ pc \in [Side -> Pc]
    BY <1>6 DEF TypeOK
  <2>4. \A q \in Side : q # p => pc'[q] = pc[q] /\ written'[q] = written[q]
    BY <2>2, <2>3
  <2>5. /\ written'[p] = written[p] + k
        /\ pc'[p] = IF written[p] + k = LenSize THEN "mr" ELSE "length"
    BY <2>2, <2>3
  <2> QED
    BY <2>2, <2>3, <2>4, <2>5 DEF WrittenInv, Side
<1>7. CASE p = Server /\ \E k \in 1 .. LenSize : ReadLength(k)
  BY <1>7 DEF TypeOK, WrittenInv, ConnInv, Side, ReadLength, Read, Goto, resVars, tcpVars,
       qpVars
<1>8. CASE SyncWrite(p)
  BY <1>8 DEF TypeOK, WrittenInv, ConnInv, Side, SyncWrite, Write, Goto, resVars, tcpVars,
       qpVars
<1>9. CASE \E k \in 1 .. ConSize : SyncRead(p, k)
  BY <1>9 DEF TypeOK, WrittenInv, ConnInv, Side, SyncRead, Read, Goto, resVars, tcpVars, qpVars
<1>10. CASE LengthFails(p, TRUE)
  BY <1>10 DEF TypeOK, WrittenInv, ConnInv, Side, LengthFails, Destroy, Goto, tcpVars,
       msgVars, qpVars
<1>11. CASE SyncWriteFails(p, TRUE)
  BY <1>11 DEF TypeOK, WrittenInv, ConnInv, Side, SyncWriteFails, TransDestroy, Write, Goto,
       tcpVars, qpVars
<1>12. CASE SyncReadFails(p, TRUE)
  BY <1>12 DEF TypeOK, WrittenInv, ConnInv, Side, SyncReadFails, TransDestroy, Goto,
       tcpVars, msgVars, qpVars
<1>13. CASE \E hs \in {{}, {"sge_mr"}, {"sge_mr", "cdc_mr"}} : Register(p, hs)
  BY <1>13 DEF TypeOK, WrittenInv, ConnInv, Side, Register, Hold, Goto, tcpVars, msgVars, qpVars
<1>14. CASE ModifyToInit(p)
  BY <1>14 DEF TypeOK, WrittenInv, ConnInv, Side, ModifyToInit, ModifyQp, Goto, tcpVars, msgVars
<1>15. CASE PostReceive(p)
  BY <1>15 DEF TypeOK, WrittenInv, ConnInv, Side, PostReceive, Goto, resVars, tcpVars, msgVars
<1>16. CASE ModifyToRtr(p)
  BY <1>16 DEF TypeOK, WrittenInv, ConnInv, Side, ModifyToRtr, ModifyQp, Goto, tcpVars, msgVars
<1>17. CASE ModifyToRts(p)
  BY <1>17 DEF TypeOK, WrittenInv, ConnInv, Side, ModifyToRts, ModifyQp, Goto, tcpVars, msgVars
<1>18. CASE ConnectQpFails(p)
  BY <1>18 DEF TypeOK, WrittenInv, ConnInv, Side, ConnectQpFails, TransDestroy, Goto,
       tcpVars, msgVars, qpVars
<1>19. CASE Finish(p)
  BY <1>19 DEF TypeOK, WrittenInv, ConnInv, Side, Finish, Destroy, Goto, tcpVars, msgVars,
       qpVars
<1>20. CASE p \in Clients /\ PostFails(p)
  BY <1>20 DEF TypeOK, WrittenInv, ConnInv, Side, PostFails, TransDestroy, Goto, tcpVars,
       msgVars, qpVars
<1>21. CASE ReleaseNext(p)
  BY <1>21 DEF TypeOK, WrittenInv, ConnInv, Side, ReleaseNext, Release, tcpVars, msgVars
<1>22. CASE TransDestroyed(p)
  BY <1>22 DEF TypeOK, WrittenInv, ConnInv, Side, TransDestroyed, Destroy, Goto, tcpVars,
       msgVars, qpVars
<1>23. CASE End(p)
  BY <1>23 DEF TypeOK, WrittenInv, ConnInv, Side, End, Goto
<1> QED
  BY <1>1, <1>2, <1>3, <1>4, <1>5, <1>6, <1>7, <1>8, <1>9, <1>10, <1>11, <1>12, <1>13,
       <1>14, <1>15, <1>16, <1>17, <1>18, <1>19, <1>20, <1>21, <1>22, <1>23, MoveCases DEF
       Moves

-----------------------------------------------------------------------------
(* What the sides read is what their peers have written, in its place.     *)

\* Steps that neither write nor read nor make a connection
Forward(p) ==
  /\ pc'[p] \in Early => pc[p] \in Early
  /\ pc'[p] \in {"init", "listen", "accept"} => pc[p] \in {"init", "listen", "accept"}
  /\ pc'[p] \in InExchange => /\ pc[p] \in InExchange
                              /\ p = Server => (pc'[p] = "length" <=> pc[p] = "length")
Calm(p) ==
  /\ UNCHANGED <<conn, peer, stream>> /\ Forward(p)
  /\ pc'[p] \in Early => written'[p] = written[p]
  /\ got'[p] = got[p] \/ (pc'[p] = "ended" /\ got'[p] = <<>>)

\* Such a step changes nothing on the connection.
LEMMA CalmStep ==
  ASSUME NEW p \in Side, Calm(p), \A q \in Side : q # p => Same(q),
         UnreadInv, StreamInv
  PROVE  UnreadInv' /\ StreamInv'
<1>1. \A q \in Side : \A n : SentInv(q, n) => SentInv(q, n)'
  BY DEF SentInv, Calm, Forward, Same, LengthOf
<1>2. \A q \in Side : Unread(q)' <=> Unread(q)
  BY DEF Unread, Calm
<1>3. UnreadInv'
  <2>1. \A q \in Side : FreshInv(q) => FreshInv(q)'
    BY <1>1 DEF FreshInv, Calm, MsgByte, LengthOf
  <2>2. \A c \in Clients : got'[c] = got[c] \/ got'[c] = <<>>
    BY DEF Calm, Same, Side
  <2>3. got'[Server] = got[Server] \/ got'[Server] = <<>>
    BY DEF Calm, Same, Side
  <2>4. pc'[Server] \in {"init", "listen", "accept"} => pc[Server] \in {"init", "listen", "accept"}
    BY DEF Calm, Forward, Same, Side
  <2> QED
    BY <1>2, <2>1, <2>2, <2>3, <2>4 DEF UnreadInv, Calm
<1>4. StreamInv'
  <2> SUFFICES ASSUME NEW r \in Side, NEW w \in Side, Reads(r, w)' PROVE ChannelInv(r, w)'
    BY DEF StreamInv
  <2>1. Reads(r, w) /\ Used(r)' = Used(r) /\ got'[r] = got[r] /\ stream'[w] = stream[w]
    BY <1>2 DEF Reads, PeerOf, Calm, Forward, Same, Used, InExchange
  <2>2. ChannelInv(r, w)
    BY <2>1 DEF StreamInv
  <2> QED
    BY <1>1, <2>1, <2>2 DEF ChannelInv, MsgByte, LengthOf
<1> QED
  BY <1>3, <1>4

\* A side writes the next bytes of its messages.
Writes(p, bytes) ==
  /\ bytes \in Seq(Byte) /\ pc[p] \in Early
  /\ stream' = [stream EXCEPT ![p] = @ \o bytes]
  /\ \A i \in 1 .. Len(bytes) : bytes[i] = MsgByte(p, written[p] + i)
  /\ written[p] + Len(bytes) <= LengthOf(p) + ConSize
  /\ pc'[p] \in Early => written'[p] = written[p] + Len(bytes)
  /\ UNCHANGED <<conn, peer>> /\ Forward(p)
  /\ got'[p] = got[p]
\* What it writes goes on where it had stopped.
LEMMA WriteStep ==
  ASSUME NEW p \in Side, TypeOK, NEW bytes, Writes(p, bytes), \A q \in Side : q # p => Same(q),
         UnreadInv, StreamInv
  PROVE  UnreadInv' /\ StreamInv'
<1>1. \A q \in Side : \A n : q # p /\ SentInv(q, n) => SentInv(q, n)'
  BY DEF SentInv, Same, LengthOf
<1>2. \A q \in Side : Unread(q)' <=> Unread(q)
  BY DEF Unread, Writes
<1>3. \A q \in Side : q # p => stream'[q] = stream[q]
  BY DEF Writes, TypeOK
<1>4. \A q \in Side : got'[q] = got[q]
  BY DEF Writes, Same
<1>5. /\ stream[p] \in Seq(Byte) /\ bytes \in Seq(Byte) /\ written[p] \in Nat
      /\ stream'[p] = stream[p] \o bytes
  BY SizesAssumption DEF Writes, TypeOK
<1>6. /\ Len(stream'[p]) = Len(stream[p]) + Len(bytes)
      /\ Len(stream[p]) \in Nat /\ Len(bytes) \in Nat
      /\ \A i \in 1 .. Len(stream[p]) : stream'[p][i] = stream[p][i]
      /\ \A i \in 1 .. Len(bytes) : stream'[p][Len(stream[p]) + i] = bytes[i]
  BY <1>5
<1>7. ASSUME NEW n \in Nat, SentInv(p, n + Len(stream[p])),
             \A i \in 1 .. Len(stream[p]) : stream[p][i] = MsgByte(p, n + i)
      PROVE  /\ \A m : m = n + Len(stream'[p]) => SentInv(p, m)'
             /\ \A i \in 1 .. Len(stream'[p]) : stream'[p][i] = MsgByte(p, n + i)
  <2>1. n + Len(stream[p]) = written[p]
    BY <1>7 DEF SentInv, Writes
  <2>2. ASSUME NEW m, m = n + Len(stream'[p]) PROVE SentInv(p, m)'
    <3>1. m = written[p] + Len(bytes)
      BY <1>6, <2>1, <2>2
    <3>2. LengthOf(p) + ConSize \in Nat
      BY SizesAssumption DEF LengthOf
    <3>3. m \in 0 .. LengthOf(p) + ConSize
      BY <1>5, <1>6, <3>1, <3>2 DEF Writes
    <3>4. pc'[p] \in Early => m = written'[p]
      BY <3>1 DEF Writes
    <3> QED
      BY <3>3, <3>4 DEF SentInv
  <2>3. ASSUME NEW i \in 1 .. Len(stream'[p])
        PROVE  stream'[p][i] = MsgByte(p, n + i)
    <3>1. CASE i <= Len(stream[p])
      BY <1>6, <1>7, <3>1
    <3>2. CASE i > Len(stream[p])
      <4> DEFINE j == i - Len(stream[p])
      <4>1. j \in 1 .. Len(bytes) /\ i = Len(stream[p]) + j
        BY <1>6, <3>2
      <4>2. n + i = written[p] + j
        BY <1>6, <2>1, <4>1
      <4>3. bytes[j] = MsgByte(p, written[p] + j)
        BY <4>1 DEF Writes
      <4>4. stream'[p][i] = bytes[j]
        BY <1>6, <4>1
      <4> QED
        BY <4>2, <4>3, <4>4
    <3> QED
      BY <1>6, <3>1, <3>2
  <2> QED
    BY <2>2, <2>3
<1>8. UnreadInv'
  <2>1. \A q \in Side : q # p /\ FreshInv(q) => FreshInv(q)'
    BY <1>1, <1>3 DEF FreshInv, MsgByte, LengthOf
  <2>2. FreshInv(p) => FreshInv(p)'
    <3> SUFFICES ASSUME FreshInv(p) PROVE FreshInv(p)'
      OBVIOUS
    <3>1. /\ SentInv(p, 0 + Len(stream[p]))
          /\ \A i \in 1 .. Len(stream[p]) : stream[p][i] = MsgByte(p, 0 + i)
      BY <1>6 DEF FreshInv
    <3>2. /\ \A m : m = 0 + Len(stream'[p]) => SentInv(p, m)'
          /\ \A i \in 1 .. Len(stream'[p]) : stream'[p][i] = MsgByte(p, 0 + i)
      BY <1>7, <3>1
    <3>3. Len(stream'[p]) = 0 + Len(stream'[p]) /\ \A i \in 1 .. Len(stream'[p]) : 0 + i = i
      BY <1>6
    <3>4. \A i \in 1 .. Len(stream'[p]) : stream'[p][i] = MsgByte(p, i)
      BY <3>2, <3>3
    <3>5. \A m : m = Len(stream'[p]) => SentInv(p, m)'
      BY <3>2, <3>3
    <3> QED
      BY <3>4, <3>5 DEF FreshInv
  <2>3. pc'[Server] \in {"init", "listen", "accept"} => pc[Server] \in {"init", "listen", "accept"}
    BY DEF Writes, Forward, Same, Side
  <2> QED
    BY <1>2, <1>4, <2>1, <2>2, <2>3 DEF UnreadInv, Writes, Side
<1>9. StreamInv'
  <2> SUFFICES ASSUME NEW r \in Side, NEW w \in Side, Reads(r, w)' PROVE ChannelInv(r, w)'
    BY DEF StreamInv
  <2>1. Reads(r, w) /\ Used(r)' = Used(r)
    BY <1>2 DEF Reads, PeerOf, Writes, Forward, Same, Used, InExchange
  <2>2. ChannelInv(r, w)
    BY <2>1 DEF StreamInv
  <2>3. CASE w # p
    BY <1>1, <1>3, <1>4, <2>1, <2>2, <2>3 DEF ChannelInv, MsgByte, LengthOf
  <2>4. CASE w = p
    <3> DEFINE n == Used(r) + Len(got[r])
    <3>1. n \in Nat
      <4>1. Used(r) \in Nat
        BY SizesAssumption DEF Used
      <4>2. got[r] \in Seq(Byte)
        BY DEF TypeOK
      <4> QED
        BY <4>1, <4>2
    <3>2. /\ SentInv(p, n + Len(stream[p]))
          /\ \A i \in 1 .. Len(stream[p]) : stream[p][i] = MsgByte(p, n + i)
      BY <2>2, <2>4 DEF ChannelInv
    <3>3. /\ \A m : m = n + Len(stream'[p]) => SentInv(p, m)'
          /\ \A i \in 1 .. Len(stream'[p]) : stream'[p][i] = MsgByte(p, n + i)
      BY <1>7, <3>1, <3>2
    <3>4. Used(r)' + Len(got'[r]) = n
      BY <1>4, <2>1
    <3>5. \A i \in 1 .. Len(got'[r]) : got'[r][i] = MsgByte(w, Used(r)' + i)
      BY <1>4, <2>1, <2>2 DEF ChannelInv
    <3>6. \A i \in 1 .. Len(stream'[w]) :
            stream'[w][i] = MsgByte(w, Used(r)' + Len(got'[r]) + i)
      BY <2>4, <3>3, <3>4
    <3>7. \A m : m = Used(r)' + Len(got'[r]) + Len(stream'[w]) => SentInv(w, m)'
      BY <2>4, <3>3, <3>4
    <3> HIDE DEF n
    <3> QED
      BY <3>5, <3>6, <3>7 DEF ChannelInv
  <2> QED
    BY <2>3, <2>4
<1> QED
  BY <1>8, <1>9

\* Two sequences of bytes, one after the other
LEMMA Concatenation ==
  \A a, b \in Seq(Byte) :
    /\ a \o b \in Seq(Byte) /\ Len(a \o b) = Len(a) + Len(b) /\ Len(a) \in Nat
    /\ \A i \in 1 .. Len(a) : (a \o b)[i] = a[i]
    /\ \A i \in 1 .. Len(b) : (a \o b)[Len(a) + i] = b[i]
OBVIOUS

\* What a side has together when a read completes a message
LEMMA WholeBytes ==
  ASSUME NEW p \in Side, TypeOK, ConnInv, StreamInv, pc[p] \in InExchange,
         NEW k \in Nat \ {0}, k <= Len(Incoming(p))
  PROVE  /\ Whole(p, k) \in Seq(Byte) /\ Len(Whole(p, k)) = Len(got[p]) + k
         /\ \A i \in 1 .. Len(got[p]) + k : Whole(p, k)[i] = MsgByte(PeerOf(p), Used(p) + i)
<1> DEFINE w == PeerOf(p)
           s == stream[w]
           g == got[p]
<1>1. w \in Side /\ Incoming(p) = s /\ s \in Seq(Byte) /\ g \in Seq(Byte) /\ Reads(p, w)
  BY ReadFrom DEF TypeOK
<1>2. ChannelInv(p, w)
  BY <1>1 DEF StreamInv
<1>3. \A i \in 1 .. k : s[i] \in Byte
  BY <1>1
<1>4. /\ SubSeq(s, 1, k) \in Seq(Byte) /\ Len(SubSeq(s, 1, k)) = k
      /\ \A i \in 1 .. k : SubSeq(s, 1, k)[i] = s[i]
  BY <1>3, SubSeqProperties
<1>5. Used(p) \in Nat
  BY SizesAssumption DEF Used
<1>6. Whole(p, k) = g \o SubSeq(s, 1, k)
  BY <1>1 DEF Whole
<1>a. /\ Len(Whole(p, k)) = Len(g) + k /\ Len(g) \in Nat /\ Whole(p, k) \in Seq(Byte)
      /\ \A i \in 1 .. Len(g) : Whole(p, k)[i] = g[i]
      /\ \A i \in 1 .. k : Whole(p, k)[Len(g) + i] = SubSeq(s, 1, k)[i]
  <2> DEFINE t == SubSeq(s, 1, k)
  <2>1. g \in Seq(Byte) /\ t \in Seq(Byte) /\ Len(t) = k /\ Whole(p, k) = g \o t
    BY <1>1, <1>4, <1>6
  <2> HIDE DEF g, t
  <2>2. /\ g \o t \in Seq(Byte) /\ Len(g \o t) = Len(g) + Len(t) /\ Len(g) \in Nat
        /\ \A i \in 1 .. Len(g) : (g \o t)[i] = g[i]
        /\ \A i \in 1 .. Len(t) : (g \o t)[Len(g) + i] = t[i]
    BY <2>1, Concatenation, Zenon
  <2> QED
    BY <2>1, <2>2 DEF t
<1>7. ASSUME NEW i \in 1 .. Len(g) + k PROVE Whole(p, k)[i] = MsgByte(w, Used(p) + i)
  <2>1. CASE i <= Len(g)
    <3>1. Whole(p, k)[i] = g[i]
      BY <1>a, <2>1
    <3> QED
      BY <1>1, <1>2, <2>1, <3>1 DEF ChannelInv
  <2>2. CASE i > Len(g)
    <3> DEFINE j == i - Len(g)
    <3>1. j \in 1 .. k /\ j \in 1 .. Len(s) /\ i = Len(g) + j
      BY <1>1, <1>a, <2>2
    <3>2. Whole(p, k)[i] = s[j]
      <4>1. Whole(p, k)[Len(g) + j] = SubSeq(s, 1, k)[j]
        <5>1. j \in 1 .. k
          BY <3>1
        <5>2. \A x \in 1 .. k : Whole(p, k)[Len(g) + x] = SubSeq(s, 1, k)[x]
          BY <1>a
        <5> HIDE DEF j
        <5> QED
          BY <5>1, <5>2
      <4>2. SubSeq(s, 1, k)[j] = s[j]
        BY <1>4, <3>1
      <4> HIDE DEF j
      <4> QED
        BY <3>1, <4>1, <4>2
    <3>3. s[j] = MsgByte(w, Used(p) + Len(g) + j)
      BY <1>2, <3>1 DEF ChannelInv
    <3>4. Used(p) + Len(g) + j = Used(p) + i
      BY <1>5, <1>a, <3>1
    <3> QED
      BY <3>2, <3>3, <3>4
  <2> QED
    BY <1>a, <2>1, <2>2
<1> QED
  BY <1>a, <1>7

\* The server gets the length, and each side its peer's connection data.
LEMMA LengthArrives ==
  ASSUME NEW k \in Nat \ {0}, TypeOK, ConnInv, StreamInv, pc[Server] = "length",
         k <= Len(Incoming(Server)), Len(got[Server]) + k = LenSize
  PROVE  Whole(Server, k) = LengthMsg(peer)
<1>1. Server \in Side /\ pc[Server] \in InExchange
  BY DEF Side, InExchange
<1>2. peer \in Clients /\ peer \in Side /\ PeerOf(Server) = peer /\ peer # Server
  BY SidesAssumption DEF ConnInv, Side, PeerOf
<1>3. Used(Server) = 0
  BY DEF Used
<1>4. /\ Whole(Server, k) \in Seq(Byte) /\ Len(Whole(Server, k)) = LenSize
      /\ \A i \in 1 .. LenSize : Whole(Server, k)[i] = MsgByte(peer, 0 + i)
  BY <1>1, <1>2, <1>3, WholeBytes
<1>5. \A i \in 1 .. LenSize : MsgByte(peer, 0 + i) = LengthMsg(peer)[i]
  BY <1>2, SizesAssumption DEF MsgByte, LengthOf, LengthMsg
<1>6. LengthMsg(peer) \in Seq(Byte) /\ Len(LengthMsg(peer)) = LenSize
  BY <1>2, MessageTypes
<1> QED
  BY <1>4, <1>5, <1>6, SeqEqual
\* Connection data names its side.
LEMMA ConDataArrives ==
  ASSUME NEW p \in Side, NEW k \in Nat \ {0}, TypeOK, ConnInv, StreamInv, pc[p] = "sync_read",
         k <= Len(Incoming(p)), Len(got[p]) + k = ConSize
  PROVE  /\ PeerOf(p) \in Side
         /\ \A q \in Side : Whole(p, k) = ConData(q) <=> q = PeerOf(p)
<1> DEFINE w == PeerOf(p)
<1>1. pc[p] \in InExchange
  BY DEF InExchange
<1>2. w \in Side /\ Reads(p, w)
  BY <1>1, ReadFrom
<1>3. Used(p) = LengthOf(w) /\ LengthOf(w) \in Nat
  <2>1. CASE p = Server
    BY <1>2, <2>1, SidesAssumption, SizesAssumption DEF ConnInv, PeerOf, Used, LengthOf
  <2>2. CASE p # Server
    BY <2>2 DEF PeerOf, Used, LengthOf
  <2> QED
    BY <2>1, <2>2
<1>4. /\ Whole(p, k) \in Seq(Byte) /\ Len(Whole(p, k)) = ConSize
      /\ \A i \in 1 .. ConSize : Whole(p, k)[i] = MsgByte(w, LengthOf(w) + i)
  BY <1>1, <1>3, WholeBytes
<1>5. \A i \in 1 .. ConSize : MsgByte(w, LengthOf(w) + i) = ConData(w)[i]
  BY <1>3, SizesAssumption DEF MsgByte, ConData
<1>6. \A q \in Side : ConData(q) \in Seq(Byte) /\ Len(ConData(q)) = ConSize
  BY MessageTypes
<1>7. Whole(p, k) = ConData(w)
  BY <1>2, <1>4, <1>5, <1>6, SeqEqual
<1>8. \A q \in Side : ConData(q)[1].by = q
  BY SizesAssumption DEF ConData
<1> QED
  BY <1>2, <1>7, <1>8

\* A side takes the next k bytes.
Takes(p, size, k) ==
  /\ k \in Nat \ {0} /\ size \in Nat \ {0} /\ pc[p] \in InExchange
  /\ Read(p, size, k) /\ UNCHANGED <<conn, peer, written>>
  /\ pc'[p] \in Early => pc[p] \in Early
  /\ pc'[p] \notin {"init", "listen", "accept"}
  /\ Len(got[p]) + k < size => pc'[p] = pc[p]
  /\ Len(got[p]) + k >= size /\ pc'[p] \in InExchange =>
       p = Server /\ pc[p] = "length" /\ pc'[p] = "mr" /\ size = LenSize
\* What is left is what was there without these bytes.
LEMMA ReadStep ==
  ASSUME NEW p \in Side, TypeOK, ConnInv, NEW size, NEW k, Takes(p, size, k),
         \A q \in Side : q # p => Same(q), UnreadInv, StreamInv
  PROVE  UnreadInv' /\ StreamInv'
<1> DEFINE g == got[p]
<1>1. /\ k \in Nat \ {0} /\ k <= Len(Incoming(p)) /\ k <= size - Len(g)
      /\ pc[p] \in InExchange /\ size \in Nat
  BY DEF Takes, Read
<1>0. PICK v \in Side : v = PeerOf(p)
  BY <1>1, ReadFrom
<1> DEFINE s == stream[v]
<1>2. v \in Side /\ Incoming(p) = s /\ s \in Seq(Byte) /\ g \in Seq(Byte) /\ Reads(p, v)
  BY <1>1, <1>0, ReadFrom DEF TypeOK
<1>3. ChannelInv(p, v)
  BY <1>2 DEF StreamInv
<1>4. /\ stream'[v] = SubSeq(s, k + 1, Len(s))
      /\ \A q \in Side : q # v => stream'[q] = stream[q]
      /\ got'[p] = IF Len(g) + k < size THEN Whole(p, k) ELSE <<>>
      /\ \A q \in Side : q # p => got'[q] = got[q]
  BY <1>2, <1>0 DEF Takes, Read, TypeOK, Whole
<1>5. /\ Whole(p, k) \in Seq(Byte) /\ Len(Whole(p, k)) = Len(g) + k
      /\ \A i \in 1 .. Len(g) + k : Whole(p, k)[i] = MsgByte(v, Used(p) + i)
  BY <1>1, <1>0, WholeBytes
<1>6. /\ Len(stream'[v]) = Len(s) - k /\ Len(s) \in Nat /\ Len(g) \in Nat
      /\ \A i \in 1 .. Len(s) - k : stream'[v][i] = s[k + i]
  <2>1. \A i \in k + 1 .. Len(s) : s[i] \in Byte
    BY <1>1, <1>2
  <2>2. /\ Len(SubSeq(s, k + 1, Len(s))) = IF k + 1 <= Len(s) THEN Len(s) - (k + 1) + 1 ELSE 0
        /\ \A i \in 1 .. Len(s) - (k + 1) + 1 : SubSeq(s, k + 1, Len(s))[i] = s[k + 1 + i - 1]
    BY <1>1, <1>2, <2>1, SubSeqProperties
  <2>3. Len(s) \in Nat /\ Len(g) \in Nat /\ k <= Len(s)
    BY <1>1, <1>2
  <2>4. /\ (IF k + 1 <= Len(s) THEN Len(s) - (k + 1) + 1 ELSE 0) = Len(s) - k
        /\ Len(s) - (k + 1) + 1 = Len(s) - k
        /\ \A i \in 1 .. Len(s) - k : k + 1 + i - 1 = k + i
    BY <1>1, <2>3
  <2> HIDE DEF s, g
  <2> QED
    BY <1>4, <2>2, <2>3, <2>4
<1>a. Used(p) \in Nat /\ k \in Nat
  BY <1>1, SizesAssumption DEF Used
<1>7. \A q \in Side : pc'[q] \in Early => pc[q] \in Early
  BY DEF Takes, Same
<1>8. written' = written
  BY DEF Takes
<1>9. \A q \in Side : \A n : SentInv(q, n) => SentInv(q, n)'
  BY <1>7, <1>8 DEF SentInv, LengthOf
<1>10. \A q \in Side : Unread(q)' <=> Unread(q)
  BY DEF Unread, Takes
<1>11. ~Unread(v)
  BY <1>2 DEF Reads
<1>12. UnreadInv'
  <2>1. \A q \in Side : q # v /\ FreshInv(q) => FreshInv(q)'
    BY <1>4, <1>9 DEF FreshInv
  <2>2. \A c \in Clients : conn'[c] # "accepted" => got'[c] = <<>>
    <3> SUFFICES ASSUME NEW c \in Clients, conn[c] # "accepted" PROVE got'[c] = <<>>
      BY DEF Takes
    <3>1. c # p /\ c \in Side
      BY <1>2, SidesAssumption DEF Reads, Side
    <3> QED
      BY <1>4, <3>1 DEF UnreadInv
  <2>3. pc'[Server] \in {"init", "listen", "accept"} => got'[Server] = <<>>
    BY <1>4 DEF Takes, Same, UnreadInv, Side
  <2> QED
    BY <1>10, <1>11, <2>1, <2>2, <2>3 DEF UnreadInv
<1>13. StreamInv'
  <2> SUFFICES ASSUME NEW r \in Side, NEW w \in Side, Reads(r, w)' PROVE ChannelInv(r, w)'
    BY DEF StreamInv
  <2>1. CASE r = p
    <3>1. w = v /\ pc'[p] \in InExchange
      BY <1>0, <2>1 DEF Reads, PeerOf, Takes
    <3>2. Used(p)' + Len(got'[p]) = Used(p) + Len(g) + k
      <4>1. CASE Len(g) + k < size
        <5>1. Used(p)' = Used(p) /\ got'[p] = Whole(p, k)
          BY <1>4, <4>1 DEF Takes, Used
        <5>2. Len(got'[p]) = Len(g) + k
          BY <1>5, <5>1
        <5> HIDE DEF g
        <5> QED
          BY <1>6, <1>a, <5>1, <5>2
      <4>2. CASE ~(Len(g) + k < size)
        <5>1. Len(g) + k >= size
          BY <1>1, <1>6, <4>2
        <5>2. p = Server /\ pc[p] = "length" /\ pc'[p] = "mr" /\ size = LenSize
          BY <3>1, <5>1 DEF Takes
        <5>3. got'[p] = <<>> /\ Used(p) = 0 /\ Used(p)' = LenSize
          BY <1>4, <4>2, <5>2 DEF Used
        <5>5. Len(g) + k = LenSize
          <6>1. /\ k <= size - Len(g) /\ Len(g) + k >= size
                /\ size \in Nat /\ Len(g) \in Nat /\ k \in Nat
            BY <1>1, <1>6, <1>a, <5>1
          <6>2. Len(g) + k = size
            <7> HIDE DEF g
            <7> QED
              BY <6>1
          <6> QED
            BY <5>2, <6>2
        <5>4. Len(<<>>) = 0
          OBVIOUS
        <5> QED
          BY <5>3, <5>4, <5>5, SizesAssumption
      <4> QED
        BY <4>1, <4>2
    <3>3. \A i \in 1 .. Len(got'[p]) : got'[p][i] = MsgByte(v, Used(p)' + i)
      <4>1. CASE Len(g) + k < size
        <5>1. Used(p)' = Used(p) /\ got'[p] = Whole(p, k)
          BY <1>4, <4>1 DEF Takes, Used
        <5> QED
          BY <1>5, <5>1
      <4>2. CASE ~(Len(g) + k < size)
        BY <1>4, <4>2
      <4> QED
        BY <4>1, <4>2
    <3>4. \A i \in 1 .. Len(stream'[v]) :
            stream'[v][i] = MsgByte(v, Used(p)' + Len(got'[p]) + i)
      <4> SUFFICES ASSUME NEW i \in 1 .. Len(s) - k
                   PROVE  s[k + i] = MsgByte(v, Used(p) + Len(g) + k + i)
        BY <1>6, <3>2
      <4>1. k + i \in 1 .. Len(s)
        BY <1>1, <1>6
      <4>2. s[k + i] = MsgByte(v, Used(p) + Len(g) + (k + i))
        BY <1>3, <4>1 DEF ChannelInv
      <4>3. Used(p) + Len(g) + (k + i) = Used(p) + Len(g) + k + i
        <5> HIDE DEF g
        <5> QED
          BY <1>6, <1>a
      <4> QED
        BY <4>2, <4>3
    <3>5. SentInv(v, Used(p) + Len(g) + Len(s))
      BY <1>3 DEF ChannelInv
    <3>6. Used(p)' + Len(got'[p]) + Len(stream'[v]) = Used(p) + Len(g) + Len(s)
      <4>1. Len(stream'[v]) = Len(s) - k /\ Len(s) \in Nat /\ Len(g) \in Nat
        BY <1>6
      <4> HIDE DEF g, s
      <4> QED
        BY <1>a, <3>2, <4>1
    <3>7. \A m : m = Used(p)' + Len(got'[p]) + Len(stream'[v]) => SentInv(v, m)'
      <4>1. v \in Side
        BY <1>2
      <4> HIDE DEF g, s
      <4> QED
        BY <1>9, <3>5, <3>6, <4>1
    <3>8. /\ \A i \in 1 .. Len(got'[r]) : got'[r][i] = MsgByte(w, Used(r)' + i)
          /\ \A i \in 1 .. Len(stream'[w]) :
               stream'[w][i] = MsgByte(w, Used(r)' + Len(got'[r]) + i)
          /\ \A m : m = Used(r)' + Len(got'[r]) + Len(stream'[w]) => SentInv(w, m)'
      BY <2>1, <3>1, <3>3, <3>4, <3>7
    <3> HIDE DEF s, g
    <3> QED
      BY <3>8 DEF ChannelInv
  <2>2. CASE r # p
    <3>1. Reads(r, w) /\ Used(r)' = Used(r) /\ got'[r] = got[r]
      BY <1>4, <1>10, <2>2 DEF Reads, PeerOf, Takes, Same, Used
    <3>2. w # v
      <4>1. CASE p = Server
        <5>1. v \in Clients /\ w = Server
          BY <1>1, <1>0, <2>2, <3>1, <4>1 DEF Reads, PeerOf, ConnInv, InExchange
        <5> QED
          BY <5>1, SidesAssumption
      <4>2. CASE p # Server /\ r = Server
        <5>1. v = Server /\ w \in Clients
          BY <1>0, <3>1, <4>2 DEF Reads, PeerOf, ConnInv, InExchange
        <5> QED
          BY <5>1, SidesAssumption
      <4>3. CASE p # Server /\ r # Server
        <5>1. peer = p /\ peer = r
          BY <1>2, <3>1, <4>3 DEF Reads, ConnInv, Side
        <5> QED
          BY <2>2, <5>1
      <4> QED
        BY <4>1, <4>2, <4>3
    <3>3. stream'[w] = stream[w]
      BY <1>4, <3>2
    <3>4. ChannelInv(r, w)
      BY <3>1 DEF StreamInv
    <3> QED
      BY <1>9, <3>1, <3>3, <3>4 DEF ChannelInv
  <2> QED
    BY <2>1, <2>2
<1> QED
  BY <1>12, <1>13

\* The server takes a connection: what its client has written is unread.
LEMMA AcceptStep ==
  ASSUME NEW c \in Clients, TypeOK, ConnInv, LengthInv, WrittenInv, Accept(c),
         \A q \in Side : q # Server => Same(q), UnreadInv, StreamInv
  PROVE  UnreadInv' /\ StreamInv'
<1>1. /\ pc[Server] = "accept" /\ conn[c] = "queued" /\ peer = Nobody /\ peer' = c
      /\ wr_len[Server] = "zero" /\ pc'[Server] = "length" /\ conn'[c] = "accepted"
      /\ \A d \in Clients : d # c => conn'[d] = conn[d]
  BY DEF Accept, Goto, ConnInv, LengthInv, TypeOK, Side
<1>2. UNCHANGED <<stream, got, written>>
  BY DEF Accept, msgVars
<1>3. /\ Server \in Side /\ c \in Side /\ c # Server /\ c # Nobody /\ Server \notin Clients
      /\ \A d \in Clients : d # Nobody /\ d \in Side
  BY SidesAssumption DEF Side
<1>4. \A q \in Side : \A n : SentInv(q, n) => SentInv(q, n)'
  BY <1>1, <1>2 DEF SentInv, Same, LengthOf, Early
<1>5. \A q \in Side : FreshInv(q) => FreshInv(q)'
  BY <1>2, <1>4 DEF FreshInv
<1>6. UnreadInv'
  <2>1. \A q \in Side : Unread(q)' => Unread(q)
    BY <1>1, <1>3 DEF Unread, Side
  <2>2. \A d \in Clients : conn'[d] # "accepted" => conn[d] # "accepted"
    BY <1>1
  <2> QED
    BY <1>1, <1>2, <1>5, <2>1, <2>2 DEF UnreadInv
<1>7. FreshInv(c) /\ FreshInv(Server) /\ got[c] = <<>> /\ got[Server] = <<>>
  BY <1>1, <1>3 DEF UnreadInv, Unread
<1>8. StreamInv'
  <2> SUFFICES ASSUME NEW r \in Side, NEW w \in Side, Reads(r, w)' PROVE ChannelInv(r, w)'
    BY DEF StreamInv
  <2>1. /\ Used(r)' = 0 /\ got'[r] = <<>> /\ FreshInv(w)
    <3>1. CASE r = Server
      <4>1. w = c
        BY <1>1, <3>1 DEF Reads, PeerOf
      <4> QED
        BY <1>1, <1>2, <1>7, <3>1, <4>1 DEF Used
    <3>2. CASE r # Server
      <4>1. r \in Clients /\ conn'[r] = "accepted" /\ w = Server
        BY <3>2 DEF Reads, PeerOf, Side
      <4>2. r = c
        BY <1>1, <1>3, <4>1 DEF ConnInv
      <4> QED
        BY <1>2, <1>7, <3>2, <4>1, <4>2 DEF Used
    <3> QED
      BY <3>1, <3>2
  <2>2. FreshInv(w)'
    BY <1>5, <2>1
  <2>3. Len(stream'[w]) \in Nat
    BY <1>2 DEF TypeOK
  <2>4. Used(r)' + Len(got'[r]) + Len(stream'[w]) = Len(stream'[w])
    BY <2>1, <2>3
  <2>5. \A i \in 1 .. Len(stream'[w]) : Used(r)' + Len(got'[r]) + i = i
    BY <2>1, <2>3
  <2>6. \A i \in 1 .. Len(stream'[w]) : stream'[w][i] = MsgByte(w, i)
    BY <2>2 DEF FreshInv
  <2>7. \A i \in 1 .. Len(stream'[w]) : stream'[w][i] = MsgByte(w, Used(r)' + Len(got'[r]) + i)
    BY <2>5, <2>6
  <2>8. \A m : m = Used(r)' + Len(got'[r]) + Len(stream'[w]) => SentInv(w, m)'
    BY <2>2, <2>4 DEF FreshInv
  <2>9. \A i \in 1 .. Len(got'[r]) : got'[r][i] = MsgByte(w, Used(r)' + i)
    BY <2>1
  <2> QED
    BY <2>7, <2>8, <2>9 DEF ChannelInv
<1> QED
  BY <1>6, <1>8

\* A client that connects is not accepted yet.
LEMMA ConnectStep ==
  ASSUME NEW c \in Clients, TypeOK, ConnInv, Connect(c),
         \A q \in Side : q # c => Same(q), UnreadInv, StreamInv
  PROVE  UnreadInv' /\ StreamInv'
<1>1. /\ pc[c] = "connect" /\ pc'[c] = "length" /\ conn[c] = "none" /\ conn'[c] = "queued"
      /\ \A d \in Clients : d # c => conn'[d] = conn[d]
      /\ UNCHANGED <<peer, stream, got, written>>
  BY DEF Connect, Goto, ConnInv, TypeOK, Side, msgVars
<1>2. c \in Side /\ c # Server /\ Server \in Side
  BY SidesAssumption DEF Side
<1>3. \A q \in Side : \A n : SentInv(q, n) => SentInv(q, n)'
  BY <1>1 DEF SentInv, Same, LengthOf, Early
<1>4. \A q \in Side : Unread(q)' <=> Unread(q)
  BY <1>1 DEF Unread, Side
<1>5. UnreadInv'
  <2>1. \A q \in Side : FreshInv(q) => FreshInv(q)'
    BY <1>1, <1>3 DEF FreshInv
  <2>2. \A d \in Clients : conn'[d] # "accepted" => conn[d] # "accepted"
    BY <1>1
  <2> QED
    BY <1>1, <1>2, <1>4, <2>1, <2>2 DEF UnreadInv, Same
<1>6. StreamInv'
  <2> SUFFICES ASSUME NEW r \in Side, NEW w \in Side, Reads(r, w)' PROVE ChannelInv(r, w)'
    BY DEF StreamInv
  <2>1. r # c
    BY <1>1, <1>2 DEF Reads
  <2>2. Reads(r, w) /\ Used(r)' = Used(r)
    BY <1>1, <1>4, <2>1 DEF Reads, PeerOf, Same, Used, Side
  <2>3. ChannelInv(r, w)
    BY <2>2 DEF StreamInv
  <2> QED
    BY <1>1, <1>3, <2>2, <2>3 DEF ChannelInv
<1> QED
  BY <1>5, <1>6

\* One of these is every step.
LEMMA StreamStep ==
  ASSUME NEW p \in Side, TypeOK, ConnInv, LengthInv, WrittenInv, UnreadInv, StreamInv, Moves(p)
  PROVE  UnreadInv' /\ StreamInv'
<1> \A q \in Side : q # p => Same(q)
  BY Others

<1>1. CASE ScpRdmaInit(p)
  <2>1. Calm(p)
    BY <1>1 DEF Calm, Forward, Early, InExchange, TypeOK, ScpRdmaInit, Hold, Goto, tcpVars
  <2> QED
    BY <2>1, CalmStep
<1>2. CASE NoConnection(p, TRUE)
  <2>1. Calm(p)
    BY <1>2 DEF Calm, Forward, Early, InExchange, TypeOK, NoConnection, Destroy, Goto,
         tcpVars, msgVars, qpVars
  <2> QED
    BY <2>1, CalmStep
<1>3. CASE p \in Clients /\ Connect(p)
  BY <1>3, ConnectStep
<1>4. CASE p = Server /\ Listen
  <2>1. Calm(p)
    BY <1>4 DEF Calm, Forward, Early, InExchange, TypeOK, Listen, Goto, resVars, msgVars, qpVars
  <2> QED
    BY <2>1, CalmStep
<1>5. CASE p = Server /\ \E c \in Clients : Accept(c)
  <2>1. PICK c \in Clients : Accept(c)
    BY <1>5
  <2> QED
    BY <1>5, <2>1, AcceptStep
<1>6. CASE p \in Clients /\ \E k \in 1 .. LenSize : WriteLength(p, k)
  <2>1. PICK k \in 1 .. LenSize : WriteLength(p, k)
    BY <1>6
  <2> DEFINE bytes == SubSeq(LengthMsg(p), written[p] + 1, written[p] + k)
  <2>2. /\ k \in Nat \ {0} /\ written[p] \in Nat /\ written[p] + k <= LenSize /\ p # Server
        /\ LenSize \in Nat /\ ConSize \in Nat
    BY <2>1, SizesAssumption DEF WriteLength, TypeOK
  <2>3. \A i \in written[p] + 1 .. written[p] + k : LengthMsg(p)[i] \in Byte
    BY <2>2, MessageTypes
  <2>4. /\ bytes \in Seq(Byte) /\ Len(bytes) = k
        /\ \A i \in 1 .. k : bytes[i] = LengthMsg(p)[written[p] + i]
    <3>1. /\ bytes \in Seq(Byte)
          /\ Len(bytes) = IF written[p] + 1 <= written[p] + k
                          THEN written[p] + k - (written[p] + 1) + 1 ELSE 0
          /\ \A i \in 1 .. written[p] + k - (written[p] + 1) + 1 :
               bytes[i] = LengthMsg(p)[written[p] + 1 + i - 1]
      BY <2>2, <2>3, SubSeqProperties
    <3>2. /\ written[p] + k - (written[p] + 1) + 1 = k
          /\ (IF written[p] + 1 <= written[p] + k
              THEN written[p] + k - (written[p] + 1) + 1 ELSE 0) = k
          /\ \A i \in 1 .. k : written[p] + 1 + i - 1 = written[p] + i
      BY <2>2
    <3> HIDE DEF bytes
    <3> QED
      BY <3>1, <3>2
  <2>5. \A i \in 1 .. k : LengthMsg(p)[written[p] + i] = MsgByte(p, written[p] + i)
    BY <2>2 DEF LengthMsg, MsgByte, LengthOf
  <2>6. /\ stream' = [stream EXCEPT ![p] = @ \o bytes] /\ pc[p] = "length"
        /\ written' = [written EXCEPT ![p] = @ + k] /\ UNCHANGED <<conn, peer, got>>
        /\ pc'[p] \in {"length", "mr"}
    BY <2>1 DEF WriteLength, Write, Goto, tcpVars, TypeOK
  <2>7. written'[p] = written[p] + k
    BY <2>6 DEF TypeOK
  <2>8. Writes(p, bytes)
    <3> HIDE DEF bytes
    <3> QED
      BY <2>2, <2>4, <2>5, <2>6, <2>7 DEF Writes, Forward, LengthOf, Early, InExchange
  <2> HIDE DEF bytes
  <2> QED
    BY <2>8, WriteStep
<1>7. CASE p = Server /\ \E k \in 1 .. LenSize : ReadLength(k)
  <2>1. PICK k \in 1 .. LenSize : ReadLength(k)
    BY <1>7
  <2>2. k \in Nat \ {0} /\ LenSize \in Nat \ {0}
    BY <2>1, SizesAssumption
  <2>3. Takes(p, LenSize, k)
    <3>1. CASE Len(got[p]) + k < LenSize
      BY <1>7, <2>1, <2>2, <3>1 DEF Takes, ReadLength, Early, InExchange, tcpVars
    <3>2. CASE ~(Len(got[p]) + k < LenSize)
      BY <1>7, <2>1, <2>2, <3>2 DEF Takes, ReadLength, Goto, TypeOK, Early, InExchange, tcpVars
    <3> QED
      BY <3>1, <3>2
  <2> QED
    BY <2>3, ReadStep
<1>8. CASE SyncWrite(p)
  <2>1. /\ pc[p] = "connect_qp" /\ pc'[p] = "sync_read" /\ UNCHANGED <<conn, peer, got>>
        /\ stream' = [stream EXCEPT ![p] = @ \o ConData(p)]
    BY <1>8 DEF SyncWrite, Write, Goto, tcpVars, TypeOK
  <2>2. written[p] = LengthOf(p) /\ LengthOf(p) \in Nat /\ ConSize \in Nat
    BY <2>1, SizesAssumption DEF WrittenInv, LengthOf, Side
  <2>3. ConData(p) \in Seq(Byte) /\ Len(ConData(p)) = ConSize
    BY MessageTypes
  <2>4. \A i \in 1 .. ConSize : ConData(p)[i] = MsgByte(p, written[p] + i)
    BY <2>2 DEF ConData, MsgByte
  <2>5. Writes(p, ConData(p))
    BY <2>1, <2>2, <2>3, <2>4 DEF Writes, Forward, Early, InExchange
  <2> QED
    BY <2>5, WriteStep
<1>9. CASE \E k \in 1 .. ConSize : SyncRead(p, k)
  <2>1. PICK k \in 1 .. ConSize : SyncRead(p, k)
    BY <1>9
  <2>2. k \in Nat \ {0} /\ ConSize \in Nat \ {0}
    BY <2>1, SizesAssumption
  <2>3. Takes(p, ConSize, k)
    <3>1. CASE Len(got[p]) + k < ConSize
      BY <1>9, <2>1, <2>2, <3>1 DEF Takes, SyncRead, Early, InExchange, tcpVars
    <3>2. CASE ~(Len(got[p]) + k < ConSize)
      BY <1>9, <2>1, <2>2, <3>2 DEF Takes, SyncRead, Goto, TypeOK, Early, InExchange, tcpVars
    <3> QED
      BY <3>1, <3>2
  <2> QED
    BY <2>3, ReadStep
<1>10. CASE LengthFails(p, TRUE)
  <2>1. Calm(p)
    BY <1>10 DEF Calm, Forward, Early, InExchange, TypeOK, LengthFails, Destroy, Goto,
         tcpVars, msgVars, qpVars
  <2> QED
    BY <2>1, CalmStep
<1>11. CASE SyncWriteFails(p, TRUE)
  <2>1. PICK k \in 0 .. ConSize - 1 : Write(p, SubSeq(ConData(p), 1, k))
    BY <1>11 DEF SyncWriteFails
  <2> DEFINE bytes == SubSeq(ConData(p), 1, k)
  <2>2. /\ pc[p] = "connect_qp" /\ pc'[p] = "trans_destroy" /\ UNCHANGED <<conn, peer, got>>
        /\ stream' = [stream EXCEPT ![p] = @ \o bytes]
    BY <1>11, <2>1 DEF SyncWriteFails, TransDestroy, Write, Goto, tcpVars, TypeOK
  <2>3. /\ written[p] = LengthOf(p) /\ LengthOf(p) \in Nat /\ ConSize \in Nat
        /\ k \in Nat /\ k <= ConSize
    BY <2>2, SizesAssumption DEF WrittenInv, LengthOf, Side
  <2>4. \A i \in 1 .. k : ConData(p)[i] \in Byte
    BY <2>3, MessageTypes
  <2>5. bytes \in Seq(Byte) /\ Len(bytes) = k /\ \A i \in 1 .. k : bytes[i] = ConData(p)[i]
    <3>1. /\ bytes \in Seq(Byte) /\ Len(bytes) = IF 1 <= k THEN k - 1 + 1 ELSE 0
          /\ \A i \in 1 .. k - 1 + 1 : bytes[i] = ConData(p)[1 + i - 1]
      BY <2>3, <2>4, SubSeqProperties
    <3> HIDE DEF bytes
    <3> QED
      BY <2>3, <3>1
  <2>6. \A i \in 1 .. k : ConData(p)[i] = MsgByte(p, written[p] + i)
    BY <2>3 DEF ConData, MsgByte
  <2> HIDE DEF bytes
  <2>7. Writes(p, bytes)
    <3>1. \A i \in 1 .. Len(bytes) : bytes[i] = MsgByte(p, written[p] + i)
      BY <2>5, <2>6
    <3>2. written[p] + Len(bytes) <= LengthOf(p) + ConSize
      BY <2>3, <2>5
    <3>3. Forward(p) /\ pc[p] \in Early /\ pc'[p] \notin Early
      BY <2>2 DEF Forward, Early, InExchange
    <3> QED
      BY <2>2, <2>5, <3>1, <3>2, <3>3 DEF Writes
  <2> QED
    BY <2>7, WriteStep
<1>12. CASE SyncReadFails(p, TRUE)
  <2>1. Calm(p)
    BY <1>12 DEF Calm, Forward, Early, InExchange, TypeOK, SyncReadFails, TransDestroy,
         Goto, tcpVars, msgVars, qpVars
  <2> QED
    BY <2>1, CalmStep
<1>13. CASE \E hs \in {{}, {"sge_mr"}, {"sge_mr", "cdc_mr"}} : Register(p, hs)
  <2>1. Calm(p)
    BY <1>13 DEF Calm, Forward, Early, InExchange, TypeOK, Register, Hold, Goto, tcpVars,
         msgVars, qpVars
  <2> QED
    BY <2>1, CalmStep
<1>14. CASE ModifyToInit(p)
  <2>1. Calm(p)
    BY <1>14 DEF Calm, Forward, Early, InExchange, TypeOK, ModifyToInit, ModifyQp, Goto,
         tcpVars, msgVars
  <2> QED
    BY <2>1, CalmStep
<1>15. CASE PostReceive(p)
  <2>1. Calm(p)
    BY <1>15 DEF Calm, Forward, Early, InExchange, TypeOK, PostReceive, Goto, resVars,
         tcpVars, msgVars
  <2> QED
    BY <2>1, CalmStep
<1>16. CASE ModifyToRtr(p)
  <2>1. Calm(p)
    BY <1>16 DEF Calm, Forward, Early, InExchange, TypeOK, ModifyToRtr, ModifyQp, Goto,
         tcpVars, msgVars
  <2> QED
    BY <2>1, CalmStep
<1>17. CASE ModifyToRts(p)
  <2>1. Calm(p)
    BY <1>17 DEF Calm, Forward, Early, InExchange, TypeOK, ModifyToRts, ModifyQp, Goto,
         tcpVars, msgVars
  <2> QED
    BY <2>1, CalmStep
<1>18. CASE ConnectQpFails(p)
  <2>1. Calm(p)
    BY <1>18 DEF Calm, Forward, Early, InExchange, TypeOK, ConnectQpFails, TransDestroy,
         Goto, tcpVars, msgVars, qpVars
  <2> QED
    BY <2>1, CalmStep
<1>19. CASE Finish(p)
  <2>1. Calm(p)
    BY <1>19 DEF Calm, Forward, Early, InExchange, TypeOK, Finish, Destroy, Goto, tcpVars,
         msgVars, qpVars
  <2> QED
    BY <2>1, CalmStep
<1>20. CASE p \in Clients /\ PostFails(p)
  <2>1. Calm(p)
    BY <1>20 DEF Calm, Forward, Early, InExchange, TypeOK, PostFails, TransDestroy, Goto,
         tcpVars, msgVars, qpVars
  <2> QED
    BY <2>1, CalmStep
<1>21. CASE ReleaseNext(p)
  <2>1. Calm(p)
    BY <1>21 DEF Calm, Forward, Early, InExchange, TypeOK, ReleaseNext, Release, tcpVars,
         msgVars
  <2> QED
    BY <2>1, CalmStep
<1>22. CASE TransDestroyed(p)
  <2>1. Calm(p)
    BY <1>22 DEF Calm, Forward, Early, InExchange, TypeOK, TransDestroyed, Destroy, Goto,
         tcpVars, msgVars, qpVars
  <2> QED
    BY <2>1, CalmStep
<1>23. CASE End(p)
  <2>1. Calm(p)
    BY <1>23 DEF Calm, Forward, Early, InExchange, TypeOK, End, Goto
  <2> QED
    BY <2>1, CalmStep
<1> QED
  BY <1>1, <1>2, <1>3, <1>4, <1>5, <1>6, <1>7, <1>8, <1>9, <1>10, <1>11, <1>12, <1>13,
       <1>14, <1>15, <1>16, <1>17, <1>18, <1>19, <1>20, <1>21, <1>22, <1>23, MoveCases DEF
       Moves

-----------------------------------------------------------------------------
(* What the sides know of each other.                                      *)

\* The server knows no length or the right one.
LEMMA LengthStep ==
  ASSUME NEW p \in Side, TypeOK, ConnInv, LengthInv, StreamInv, Moves(p)
  PROVE  LengthInv'
<1> USE SidesAssumption
<1>1. CASE ScpRdmaInit(p)
  BY <1>1 DEF TypeOK, LengthInv, ConnInv, Side, ScpRdmaInit, Hold, Goto, tcpVars
<1>2. CASE NoConnection(p, TRUE)
  BY <1>2 DEF TypeOK, LengthInv, ConnInv, Side, NoConnection, Destroy, Goto, tcpVars,
       msgVars, qpVars
<1>3. CASE p \in Clients /\ Connect(p)
  BY <1>3 DEF TypeOK, LengthInv, ConnInv, Side, Connect, Hold, Goto, msgVars, qpVars
<1>4. CASE p = Server /\ Listen
  BY <1>4 DEF TypeOK, LengthInv, ConnInv, Side, Listen, Goto, resVars, msgVars, qpVars
<1>5. CASE p = Server /\ \E c \in Clients : Accept(c)
  BY <1>5 DEF TypeOK, LengthInv, ConnInv, Side, Accept, Hold, Goto, msgVars, qpVars
<1>6. CASE p \in Clients /\ \E k \in 1 .. LenSize : WriteLength(p, k)
  BY <1>6 DEF TypeOK, LengthInv, ConnInv, Side, WriteLength, Write, Goto, resVars, tcpVars,
       qpVars
<1>7. CASE p = Server /\ \E k \in 1 .. LenSize : ReadLength(k)
  <2>1. PICK k \in 1 .. LenSize : ReadLength(k)
    BY <1>7
  <2>2. /\ pc[Server] = "length" /\ k \in Nat \ {0} /\ k <= Len(Incoming(Server))
        /\ k <= LenSize - Len(got[Server])
    BY <2>1, SizesAssumption DEF ReadLength, Read
  <2>3. \A q \in Side : q # Server => pc'[q] = pc[q] /\ wr_len'[q] = wr_len[q]
    BY <1>7, Others DEF Same
  <2>4. CASE Len(got[Server]) + k < LenSize
    <3>1. UNCHANGED <<pc, wr_len>>
      BY <2>1, <2>4 DEF ReadLength
    <3> QED
      BY <3>1 DEF LengthInv
  <2>5. CASE ~(Len(got[Server]) + k < LenSize)
    <3>1. Len(got[Server]) \in Nat
      BY DEF TypeOK, Side
    <3>2. Len(got[Server]) + k = LenSize
      BY <2>2, <2>5, <3>1, SizesAssumption
    <3>3. Whole(Server, k) = LengthMsg(peer)
      BY <2>2, <3>2, LengthArrives
    <3>4. wr_len'[Server] = "total" /\ pc'[Server] = "mr"
      BY <1>7, <2>1, <2>5, <3>3 DEF ReadLength, Goto, TypeOK
    <3> QED
      BY <2>3, <3>4 DEF LengthInv, Side
  <2> QED
    BY <2>4, <2>5
<1>8. CASE SyncWrite(p)
  BY <1>8 DEF TypeOK, LengthInv, ConnInv, Side, SyncWrite, Write, Goto, resVars, tcpVars, qpVars
<1>9. CASE \E k \in 1 .. ConSize : SyncRead(p, k)
  <2>1. PICK k \in 1 .. ConSize : SyncRead(p, k)
    BY <1>9
  <2>2. wr_len' = wr_len /\ pc[p] = "sync_read"
    BY <2>1 DEF SyncRead
  <2>3. pc'[p] \in {"sync_read", "modify"} /\ \A q \in Side : q # p => pc'[q] = pc[q]
    <3>1. CASE Len(got[p]) + k < ConSize
      BY <2>1, <2>2, <3>1 DEF SyncRead
    <3>2. CASE ~(Len(got[p]) + k < ConSize)
      BY <2>1, <3>2 DEF SyncRead, Goto, TypeOK
    <3> QED
      BY <3>1, <3>2
  <2> QED
    BY <2>2, <2>3 DEF LengthInv, Side
<1>10. CASE LengthFails(p, TRUE)
  BY <1>10 DEF TypeOK, LengthInv, ConnInv, Side, LengthFails, Destroy, Goto, tcpVars,
       msgVars, qpVars
<1>11. CASE SyncWriteFails(p, TRUE)
  BY <1>11 DEF TypeOK, LengthInv, ConnInv, Side, SyncWriteFails, TransDestroy, Write, Goto,
       tcpVars, qpVars
<1>12. CASE SyncReadFails(p, TRUE)
  BY <1>12 DEF TypeOK, LengthInv, ConnInv, Side, SyncReadFails, TransDestroy, Goto, tcpVars,
       msgVars, qpVars
<1>13. CASE \E hs \in {{}, {"sge_mr"}, {"sge_mr", "cdc_mr"}} : Register(p, hs)
  BY <1>13 DEF TypeOK, LengthInv, ConnInv, Side, Register, Hold, Goto, tcpVars, msgVars, qpVars
<1>14. CASE ModifyToInit(p)
  BY <1>14 DEF TypeOK, LengthInv, ConnInv, Side, ModifyToInit, ModifyQp, Goto, tcpVars, msgVars
<1>15. CASE PostReceive(p)
  BY <1>15 DEF TypeOK, LengthInv, ConnInv, Side, PostReceive, Goto, resVars, tcpVars, msgVars
<1>16. CASE ModifyToRtr(p)
  BY <1>16 DEF TypeOK, LengthInv, ConnInv, Side, ModifyToRtr, ModifyQp, Goto, tcpVars, msgVars
<1>17. CASE ModifyToRts(p)
  BY <1>17 DEF TypeOK, LengthInv, ConnInv, Side, ModifyToRts, ModifyQp, Goto, tcpVars, msgVars
<1>18. CASE ConnectQpFails(p)
  BY <1>18 DEF TypeOK, LengthInv, ConnInv, Side, ConnectQpFails, TransDestroy, Goto,
       tcpVars, msgVars, qpVars
<1>19. CASE Finish(p)
  BY <1>19 DEF TypeOK, LengthInv, ConnInv, Side, Finish, Destroy, Goto, tcpVars, msgVars, qpVars
<1>20. CASE p \in Clients /\ PostFails(p)
  BY <1>20 DEF TypeOK, LengthInv, ConnInv, Side, PostFails, TransDestroy, Goto, tcpVars,
       msgVars, qpVars
<1>21. CASE ReleaseNext(p)
  BY <1>21 DEF TypeOK, LengthInv, ConnInv, Side, ReleaseNext, Release, tcpVars, msgVars
<1>22. CASE TransDestroyed(p)
  BY <1>22 DEF TypeOK, LengthInv, ConnInv, Side, TransDestroyed, Destroy, Goto, tcpVars,
       msgVars, qpVars
<1>23. CASE End(p)
  BY <1>23 DEF TypeOK, LengthInv, ConnInv, Side, End, Goto
<1> QED
  BY <1>1, <1>2, <1>3, <1>4, <1>5, <1>6, <1>7, <1>8, <1>9, <1>10, <1>11, <1>12, <1>13,
       <1>14, <1>15, <1>16, <1>17, <1>18, <1>19, <1>20, <1>21, <1>22, <1>23, MoveCases DEF
       Moves

\* The connection data that arrives is the peer's.
LEMMA RemoteStep ==
  ASSUME NEW p \in Side, TypeOK, ConnInv, StreamInv, RemoteInv, QpInv(p), QpInv(p)', Moves(p)
  PROVE  RemoteInv'
<1> USE SidesAssumption
<1>1. CASE ScpRdmaInit(p)
  BY <1>1 DEF TypeOK, RemoteInv, ConnInv, QpInv, PeerOf, Receiving, Side, ScpRdmaInit, Hold,
       Goto, tcpVars
<1>2. CASE NoConnection(p, TRUE)
  BY <1>2 DEF TypeOK, RemoteInv, ConnInv, QpInv, PeerOf, Receiving, Side, NoConnection,
       Destroy, Goto, tcpVars, msgVars, qpVars
<1>3. CASE p \in Clients /\ Connect(p)
  BY <1>3 DEF TypeOK, RemoteInv, ConnInv, QpInv, PeerOf, Receiving, Side, Connect, Hold,
       Goto, msgVars, qpVars
<1>4. CASE p = Server /\ Listen
  BY <1>4 DEF TypeOK, RemoteInv, ConnInv, QpInv, PeerOf, Receiving, Side, Listen, Goto,
       resVars, msgVars, qpVars
<1>5. CASE p = Server /\ \E c \in Clients : Accept(c)
  BY <1>5 DEF TypeOK, RemoteInv, ConnInv, QpInv, PeerOf, Receiving, Side, Accept, Hold,
       Goto, msgVars, qpVars
<1>6. CASE p \in Clients /\ \E k \in 1 .. LenSize : WriteLength(p, k)
  BY <1>6 DEF TypeOK, RemoteInv, ConnInv, QpInv, PeerOf, Receiving, Side, WriteLength,
       Write, Goto, resVars, tcpVars, qpVars
<1>7. CASE p = Server /\ \E k \in 1 .. LenSize : ReadLength(k)
  BY <1>7 DEF TypeOK, RemoteInv, ConnInv, QpInv, PeerOf, Receiving, Side, ReadLength, Read,
       Goto, resVars, tcpVars, qpVars
<1>8. CASE SyncWrite(p)
  BY <1>8 DEF TypeOK, RemoteInv, ConnInv, QpInv, PeerOf, Receiving, Side, SyncWrite, Write,
       Goto, resVars, tcpVars, qpVars
<1>9. CASE \E k \in 1 .. ConSize : SyncRead(p, k)
  <2>1. PICK k \in 1 .. ConSize : SyncRead(p, k)
    BY <1>9
  <2>2. /\ pc[p] = "sync_read" /\ k \in Nat \ {0} /\ k <= Len(Incoming(p))
        /\ k <= ConSize - Len(got[p])
    BY <2>1, SizesAssumption DEF SyncRead, Read
  <2>3. UNCHANGED <<conn, peer, qp>>
    BY <2>1 DEF SyncRead, tcpVars, qpVars
  <2>4. \A q \in Side : q # p => pc'[q] = pc[q] /\ remote'[q] = remote[q]
    BY <1>9, Others DEF Same
  <2>5. CASE Len(got[p]) + k < ConSize
    <3>1. UNCHANGED <<pc, remote>>
      BY <2>1, <2>5 DEF SyncRead
    <3> QED
      BY <2>3, <3>1 DEF RemoteInv, PeerOf, Receiving
  <2>6. CASE ~(Len(got[p]) + k < ConSize)
    <3>1. Len(got[p]) \in Nat
      BY DEF TypeOK
    <3>2. Len(got[p]) + k = ConSize
      BY <2>2, <2>6, <3>1, SizesAssumption
    <3>3. PICK w \in Side : w = PeerOf(p)
      BY <2>2, <3>2, ConDataArrives
    <3>4. \A q \in Side : Whole(p, k) = ConData(q) <=> q = w
      BY <2>2, <3>2, <3>3, ConDataArrives
    <3>5. /\ pc'[p] = "modify"
          /\ remote'[p] = IF \E q \in Side : Whole(p, k) = ConData(q)
                          THEN CHOOSE q \in Side : Whole(p, k) = ConData(q) ELSE Nobody
      BY <2>1, <2>6 DEF SyncRead, Goto, TypeOK
    <3>6. remote'[p] = w
      BY <3>3, <3>4, <3>5
    <3>7. p # Server => conn[p] = "accepted"
      <4>1. pc[p] \in InExchange
        BY <2>2 DEF InExchange
      <4> QED
        BY <2>2, <4>1, ReadFrom DEF Reads
    <3>8. w # Nobody /\ PeerOf(p)' = w
      BY <2>3, <3>3 DEF PeerOf
    <3> QED
      BY <2>3, <2>4, <3>5, <3>6, <3>7, <3>8 DEF RemoteInv, PeerOf, Receiving
  <2> QED
    BY <2>5, <2>6
<1>10. CASE LengthFails(p, TRUE)
  BY <1>10 DEF TypeOK, RemoteInv, ConnInv, QpInv, PeerOf, Receiving, Side, LengthFails,
       Destroy, Goto, tcpVars, msgVars, qpVars
<1>11. CASE SyncWriteFails(p, TRUE)
  BY <1>11 DEF TypeOK, RemoteInv, ConnInv, QpInv, PeerOf, Receiving, Side, SyncWriteFails,
       TransDestroy, Write, Goto, tcpVars, qpVars
<1>12. CASE SyncReadFails(p, TRUE)
  BY <1>12 DEF TypeOK, RemoteInv, ConnInv, QpInv, PeerOf, Receiving, Side, SyncReadFails,
       TransDestroy, Goto, tcpVars, msgVars, qpVars
<1>13. CASE \E hs \in {{}, {"sge_mr"}, {"sge_mr", "cdc_mr"}} : Register(p, hs)
  BY <1>13 DEF TypeOK, RemoteInv, ConnInv, QpInv, PeerOf, Receiving, Side, Register, Hold,
       Goto, tcpVars, msgVars, qpVars
<1>14. CASE ModifyToInit(p)
  BY <1>14 DEF TypeOK, RemoteInv, ConnInv, QpInv, PeerOf, Receiving, Side, ModifyToInit,
       ModifyQp, Goto, tcpVars, msgVars
<1>15. CASE PostReceive(p)
  BY <1>15 DEF TypeOK, RemoteInv, ConnInv, QpInv, PeerOf, Receiving, Side, PostReceive,
       Goto, resVars, tcpVars, msgVars
<1>16. CASE ModifyToRtr(p)
  BY <1>16 DEF TypeOK, RemoteInv, ConnInv, QpInv, PeerOf, Receiving, Side, ModifyToRtr,
       ModifyQp, Goto, tcpVars, msgVars
<1>17. CASE ModifyToRts(p)
  BY <1>17 DEF TypeOK, RemoteInv, ConnInv, QpInv, PeerOf, Receiving, Side, ModifyToRts,
       ModifyQp, Goto, tcpVars, msgVars
<1>18. CASE ConnectQpFails(p)
  BY <1>18 DEF TypeOK, RemoteInv, ConnInv, QpInv, PeerOf, Receiving, Side, ConnectQpFails,
       TransDestroy, Goto, tcpVars, msgVars, qpVars
<1>19. CASE Finish(p)
  BY <1>19 DEF TypeOK, RemoteInv, ConnInv, QpInv, PeerOf, Receiving, Side, Finish, Destroy,
       Goto, tcpVars, msgVars, qpVars
<1>20. CASE p \in Clients /\ PostFails(p)
  BY <1>20 DEF TypeOK, RemoteInv, ConnInv, QpInv, PeerOf, Receiving, Side, PostFails,
       TransDestroy, Goto, tcpVars, msgVars, qpVars
<1>21. CASE ReleaseNext(p)
  BY <1>21 DEF TypeOK, RemoteInv, ConnInv, QpInv, PeerOf, Receiving, Side, ReleaseNext,
       Release, tcpVars, msgVars
<1>22. CASE TransDestroyed(p)
  BY <1>22 DEF TypeOK, RemoteInv, ConnInv, QpInv, PeerOf, Receiving, Side, TransDestroyed,
       Destroy, Goto, tcpVars, msgVars, qpVars
<1>23. CASE End(p)
  BY <1>23 DEF TypeOK, RemoteInv, ConnInv, QpInv, PeerOf, Receiving, Side, End, Goto
<1> QED
  BY <1>1, <1>2, <1>3, <1>4, <1>5, <1>6, <1>7, <1>8, <1>9, <1>10, <1>11, <1>12, <1>13,
       <1>14, <1>15, <1>16, <1>17, <1>18, <1>19, <1>20, <1>21, <1>22, <1>23, MoveCases DEF
       Moves

-----------------------------------------------------------------------------
(* The invariant.                                                          *)

\* It holds at the start.
LEMMA InitInv == Init => Inv
<1> SUFFICES ASSUME Init PROVE Inv
  OBVIOUS
<1> USE SidesAssumption, SizesAssumption DEF Init
<1>1. TypeOK
  <2>1. <<>> \in Seq(Byte)
    OBVIOUS
  <2>2. pc \in [Side -> Pc] /\ wr_len \in [Side -> WrLen]
    BY DEF Pc, WrLen
  <2>3. stream \in [Side -> Seq(Byte)] /\ got \in [Side -> Seq(Byte)]
    BY <2>1
  <2>4. /\ live \in [Side -> SUBSET Object] /\ handle \in [Side -> SUBSET Handle]
        /\ todo \in [Side -> SUBSET Handle] /\ tornDown \in [Side -> BOOLEAN]
        /\ stale \in [Side -> SUBSET Handle] /\ refused \in [Side -> SUBSET Handle]
    OBVIOUS
  <2>5. /\ listening \in BOOLEAN /\ conn \in [Clients -> {"none", "queued", "accepted"}]
        /\ peer \in Clients \cup {Nobody}
        /\ remote \in [Side -> Side \cup {Nobody}]
        /\ qp \in [Side -> {"NONE", "RESET", "INIT", "RTR", "RTS"}]
    OBVIOUS
  <2>6. 0 \in 0 .. LenSize /\ 0 \in 0 .. 1
    OBVIOUS
  <2>7. written \in [Side -> 0 .. LenSize] /\ posted \in [Side -> 0 .. 1]
    BY <2>6
  <2> QED
    BY <2>2, <2>3, <2>4, <2>5, <2>7 DEF TypeOK
<1>2. \A p \in Side : LocalInv(p)
  <2> SUFFICES ASSUME NEW p \in Side PROVE LocalInv(p)
    OBVIOUS
  <2>1. {Named(h) : h \in {}} = {}
    OBVIOUS
  <2> QED
    BY <2>1 DEF LocalInv, HandleInv, DestroyInv, QpInv, Receiving
<1>3. ConnInv /\ LengthInv /\ WrittenInv
  BY DEF ConnInv, LengthInv, WrittenInv, Side
<1>4. UnreadInv /\ StreamInv
  <2>1. Len(<<>>) = 0
    OBVIOUS
  <2>2. \A p \in Side : FreshInv(p)
    BY <2>1 DEF FreshInv, SentInv, LengthOf
  <2>3. UnreadInv
    BY <2>2 DEF UnreadInv, Side
  <2>4. \A r \in Side : pc[r] \notin InExchange
    BY DEF InExchange
  <2> QED
    BY <2>3, <2>4 DEF StreamInv, Reads
<1>5. RemoteInv
  BY DEF RemoteInv
<1> QED
  BY <1>1, <1>2, <1>3, <1>4, <1>5 DEF Inv

\* Every step preserves it.
LEMMA NextInv == Inv /\ [Next]_vars => Inv'
<1> SUFFICES ASSUME Inv, [Next]_vars PROVE Inv'
  OBVIOUS
<1>1. CASE Next
  <2>1. PICK p \in Side : Moves(p)
    BY <1>1 DEF Next, Moves
  <2>2. LocalInv(p)
    BY DEF Inv
  <2>3. TypeOK'
    BY <2>1, <2>2, StreamTypes, StateTypes DEF Inv, LocalInv, TypeOK
  <2>4. QpInv(p)' /\ HandleInv(p)' /\ DestroyInv(p)'
    BY <2>1, <2>2, QpStep, HandleStep, DestroyStep DEF Inv, LocalInv
  <2>5. ASSUME NEW q \in Side PROVE LocalInv(q)'
    <3>1. CASE q = p
      BY <2>4, <3>1 DEF LocalInv
    <3>2. CASE q # p
      <4>1. Same(q)
        BY <2>1, <3>2, Others DEF Inv
      <4>2. LocalInv(q)
        BY DEF Inv
      <4> QED
        BY <4>1, <4>2 DEF Same, LocalInv, HandleInv, DestroyInv, QpInv, Receiving
    <3> QED
      BY <3>1, <3>2
  <2>6. ConnInv'
    BY <2>1, ConnStep DEF Inv
  <2>7. WrittenInv'
    BY <2>1, WrittenStep DEF Inv
  <2>8. UnreadInv' /\ StreamInv'
    BY <2>1, StreamStep DEF Inv
  <2>9. LengthInv'
    BY <2>1, LengthStep DEF Inv
  <2>10. RemoteInv'
    BY <2>1, <2>2, <2>4, RemoteStep DEF Inv, LocalInv
  <2> QED
    BY <2>3, <2>5, <2>6, <2>7, <2>8, <2>9, <2>10 DEF Inv
<1>2. CASE UNCHANGED vars
  BY <1>2 DEF vars, resVars, tcpVars, msgVars, qpVars, Inv, TypeOK, LocalInv, HandleInv,
     DestroyInv, QpInv, Receiving, ConnInv, LengthInv, WrittenInv, UnreadInv, FreshInv,
     SentInv, StreamInv, Reads, Unread, PeerOf, ChannelInv, Used, RemoteInv
<1> QED
  BY <1>1, <1>2

\* And so it always holds.
LEMMA AlwaysInv == Spec => []Inv
BY InitInv, NextInv, PTL DEF Spec

-----------------------------------------------------------------------------
(* What follows.                                                           *)

\* Every variable of every program keeps its type (TypeOK): the bytes that
\* are left of a message are never written past its length (sock_async_data).
THEOREM SessionTypes == Spec => []TypeOK
<1>1. Inv => TypeOK
  BY DEF Inv
<1> QED
  BY <1>1, AlwaysInv, PTL

\* sock_async_data and sock_sync_data never take bytes of one message for
\* those of another, whatever the reads return and whoever is killed.
THEOREM InFrame == Spec => []MessagesInFrame
<1>1. Inv => MessagesInFrame
  BY DEF Inv, MessagesInFrame, LengthInv, RemoteInv
<1> QED
  BY <1>1, AlwaysInv, PTL

\* A queue pair that receives has its peer's, one of two sides only.
LEMMA Paired ==
  ASSUME Inv, NEW p \in Side, NEW q \in Side, remote[p] = q, remote[q] # Nobody
  PROVE  remote[q] = p
<1>1. /\ q # Nobody /\ q = PeerOf(p) /\ remote[q] = PeerOf(q)
      /\ p # Server => conn[p] = "accepted"
  BY SidesAssumption DEF Inv, RemoteInv
<1>2. CASE p = Server
  <2>1. q = peer /\ q \in Side
    BY <1>1, <1>2 DEF PeerOf
  <2>2. q # Server
    BY <1>1, <2>1, SidesAssumption DEF Inv, TypeOK
  <2> QED
    BY <1>1, <1>2, <2>2 DEF PeerOf
<1>3. CASE p # Server
  <2>1. q = Server /\ p \in Clients /\ peer = p
    BY <1>1, <1>3 DEF PeerOf, Inv, ConnInv, Side
  <2> QED
    BY <1>1, <2>1 DEF PeerOf
<1> QED
  BY <1>2, <1>3

\* A queue pair that receives, before the final destroy
LEMMA Receives ==
  ASSUME Inv, NEW p \in Side, Receiving(p), pc[p] # "destroy"
  PROVE  /\ pc[p] \in {"rts", "established", "trans_destroy"}
         /\ posted[p] = 1 /\ {"mr", "cdc_mr"} \subseteq live[p] /\ remote[p] # Nobody
<1>1. pc[p] \in Pc /\ LocalInv(p)
  BY DEF Inv, TypeOK
<1>2. pc[p] \in {"rts", "established", "trans_destroy"}
  BY <1>1 DEF LocalInv, QpInv, Receiving, Pc
<1>3. posted[p] = 1
  BY <1>1, <1>2 DEF LocalInv, QpInv
<1>4. {"mr", "cdc_mr"} \subseteq live[p]
  BY <1>1, <1>2, ReceivingHeld DEF LocalInv, QpInv
<1>5. remote[p] # Nobody
  BY <1>2 DEF Inv, RemoteInv
<1> QED
  BY <1>2, <1>3, <1>4, <1>5

\* Neither connect_qp, which does not wait for the other side, nor a failure
\* after which rdma_trans_destroy releases the memory of one side lets a packet
\* arrive where there is no receive or no memory for it, until scp_rdma_destroy
\* begins on either side: it releases both regions before the queue pair.
THEOREM ReceiveFound == Spec => []PacketsFindReceive
<1>1. ASSUME Inv PROVE PacketsFindReceive
  <2> SUFFICES ASSUME NEW p \in Side, NEW q \in Side,
                      qp[p] = "RTS", pc[p] # "destroy", remote[p] = q,
                      Receiving(q), pc[q] # "destroy"
               PROVE  remote[q] = p /\ posted[q] > 0 /\ {"mr", "cdc_mr"} \subseteq live[q]
    BY DEF PacketsFindReceive
  <2>1. posted[q] = 1 /\ {"mr", "cdc_mr"} \subseteq live[q] /\ remote[q] # Nobody
    BY <1>1, Receives
  <2> QED
    BY <1>1, <2>1, Paired
<1> QED
  BY <1>1, AlwaysInv, PTL

\* When connect_qp has returned on two sides, they are the two ends of one
\* connection and the state is the one in which ScpPipeline starts.
THEOREM PipelineStarts == Spec => []StartsPipeline
<1>1. ASSUME Inv PROVE StartsPipeline
  <2> SUFFICES ASSUME NEW p \in Side, NEW q \in Side, p # q,
                      pc[p] = "established", pc[q] = "established"
               PROVE  /\ remote[p] = q /\ remote[q] = p /\ qp[p] = "RTS" /\ qp[q] = "RTS"
                      /\ posted[p] = 1 /\ posted[q] = 1
                      /\ wr_len[p] = "total" /\ wr_len[q] = "total"
    BY DEF StartsPipeline
  <2>1. \A x \in {p, q} : qp[x] = "RTS" /\ posted[x] = 1
    BY <1>1 DEF Inv, LocalInv, QpInv
  <2>2. \A x \in {p, q} : wr_len[x] = "total"
    BY <1>1 DEF Inv, LengthInv, Side
  <2>3. \A x \in {p, q} : /\ remote[x] # Nobody /\ remote[x] = PeerOf(x)
                          /\ x # Server => conn[x] = "accepted"
    BY <1>1 DEF Inv, RemoteInv
  <2>4. p = Server \/ q = Server
    BY <1>1, <2>3 DEF Inv, ConnInv, Side
  <2>5. remote[p] = q \/ remote[q] = p
    BY <2>3, <2>4 DEF PeerOf
  <2>6. remote[p] = q /\ remote[q] = p
    BY <1>1, <2>3, <2>5, Paired
  <2> QED
    BY <2>1, <2>2, <2>6
<1> QED
  BY <1>1, AlwaysInv, PTL

\* The lid of every port is read as 0.
LEMMA LidLost ==
  ASSUME NEW x \in Nat, x < 65536
  PROVE  NtohlLow(Htons(x)) = 0
<1>1. x % 256 \in Nat /\ x % 256 < 256
  OBVIOUS
<1>2. x \div 256 \in Nat /\ x \div 256 < 256
  OBVIOUS
<1>3. Htons(x) \in Nat /\ Htons(x) < 65536
  BY <1>1, <1>2 DEF Htons
<1>4. \A y \in Nat : y < 65536 => (y \div 65536) % 65536 = 0
  OBVIOUS
<1>5. (Htons(x) \div 65536) % 65536 = 0
  BY <1>3, <1>4
<1>6. Htons(0) = 0
  BY DEF Htons
<1> QED
  BY <1>5, <1>6 DEF NtohlLow

\* Whatever the lids of the ports are: a queue pair that receives leads to the
\* peer if both sides have a gid (-g), and to nobody if one of them has none.
\* AddressedToPeer holds of default options, and of these only.
THEOREM AddressedByGidOnly ==
  Spec => [](\A p \in Side : Receiving(p) /\ pc[p] # "destroy" =>
               Destination(p) = IF GidIdx[p] >= 0 /\ GidIdx[PeerOf(p)] >= 0
                                THEN {PeerOf(p)} ELSE {})
<1> DEFINE ByGidOnly ==
      \A p \in Side : Receiving(p) /\ pc[p] # "destroy" =>
         Destination(p) = IF GidIdx[p] >= 0 /\ GidIdx[PeerOf(p)] >= 0
                          THEN {PeerOf(p)} ELSE {}
<1>1. ASSUME Inv PROVE ByGidOnly
  <2> SUFFICES ASSUME NEW p \in Side, Receiving(p), pc[p] # "destroy"
               PROVE  Destination(p) = IF GidIdx[p] >= 0 /\ GidIdx[PeerOf(p)] >= 0
                                       THEN {PeerOf(p)} ELSE {}
    OBVIOUS
  <2>1. remote[p] # Nobody
    BY <1>1, Receives
  <2>2. remote[p] = PeerOf(p) /\ remote[p] \in Side
    BY <1>1, <2>1 DEF Inv, RemoteInv, TypeOK
  <2>3. Lid[remote[p]] \in Nat /\ Lid[remote[p]] < 65536
    BY <2>2, AddressAssumption
  <2>4. RemoteLid(p) = 0
    BY <2>3, LidLost DEF RemoteLid
  <2>5. CASE GidIdx[p] >= 0
    BY <2>2, <2>5 DEF Destination
  <2>6. CASE ~(GidIdx[p] >= 0)
    BY <2>4, <2>6 DEF Destination
  <2> QED
    BY <2>5, <2>6
<1>2. Spec => []ByGidOnly
  BY <1>1, AlwaysInv, PTL
<1> QED
  BY <1>2

\* Whatever the set-up came to, a scp_rdma_destroy that no rdma_trans_destroy
\* went before releases each object once, after its users, and leaves none.
THEOREM TornDownClean == Spec => []CleanTearDown
<1>1. ASSUME Inv PROVE CleanTearDown
  <2> SUFFICES ASSUME NEW p \in Side, ~tornDown[p]
               PROVE  /\ stale[p] = {} /\ refused[p] = {}
                      /\ pc[p] = "destroy" /\ todo[p] = {} => live[p] = {}
    BY DEF CleanTearDown
  <2>1. HandleInv(p) /\ DestroyInv(p)
    BY <1>1 DEF Inv, LocalInv
  <2>2. pc[p] # "trans_destroy"
    BY <2>1 DEF HandleInv
  <2>3. CASE pc[p] = "destroy"
    <3>1. {Named(h) : h \in {}} = {}
      OBVIOUS
    <3> QED
      BY <2>1, <2>3, <3>1 DEF DestroyInv
  <2>4. CASE pc[p] # "destroy"
    BY <2>1, <2>2, <2>4 DEF HandleInv
  <2> QED
    BY <2>3, <2>4
<1> QED
  BY <1>1, AlwaysInv, PTL
=============================================================================
