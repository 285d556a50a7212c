-------------------------- MODULE ScpPipelineProofs --------------------------
(***************************************************************************)
(* Proofs about ScpPipeline, for every number of slots and receives that   *)
(* satisfies its assumptions.                                              *)
(***************************************************************************)
EXTENDS ScpPipelineInv, FiniteSetTheorems, TLAPS

USE DEF sendVars, slotVars, ackVars, sNicVars, senderVars,
        recvVars, cdcVars, rNicVars, receiverVars, vars

-----------------------------------------------------------------------------
\* Lemmas about the operators of the model

\* Ring is an index of a ring.
LEMMA RingType == \A k \in Nat : k >= 1 => Ring(k) \in RingId
  BY RecvSlotsAssumption, SlotsAssumption DEF Ring, RingId

\* Division with remainder.
LEMMA DivMod ==
  ASSUME NEW a \in Nat, NEW r \in Nat, r > 0
  PROVE  a = r * (a \div r) + (a % r) /\ a \div r \in Int
<1>1. a = r * (a \div r) + (a % r)
  OBVIOUS
<1>2. a \div r \in Int
  OBVIOUS
<1> QED
  BY <1>1, <1>2

\* Two numbers less than r apart have different remainders modulo r.
LEMMA ModDistinct ==
  ASSUME NEW a \in Nat, NEW b \in Nat, NEW r \in Nat, r > 0, a < b, b - a < r
  PROVE  a % r # b % r
<1> DEFINE qa == a \div r
           qb == b \div r
<1>1. SUFFICES ASSUME a % r = b % r PROVE FALSE
  OBVIOUS
<1>2. a = r * qa + (a % r) /\ b = r * qb + (b % r) /\ qa \in Int /\ qb \in Int
  BY DivMod
<1> HIDE DEF qa, qb
<1>3. b - a = r * (qb - qa)
  BY <1>1, <1>2
<1>4. CASE qb - qa >= 1
  BY <1>2, <1>3, <1>4
<1>5. CASE qb - qa <= 0
  BY <1>2, <1>3, <1>5
<1> QED
  BY <1>2, <1>4, <1>5

\* Two messages less than a whole ring apart are in different buffers.
LEMMA RingDistinct ==
  ASSUME NEW a \in Nat, NEW b \in Nat, 1 <= a, a < b, b - a < RecvSlots
  PROVE  Ring(a) # Ring(b)
<1>1. /\ RecvSlots \in Nat /\ RecvSlots > 0
      /\ a - 1 \in Nat /\ b - 1 \in Nat /\ a - 1 < b - 1
      /\ (b - 1) - (a - 1) < RecvSlots
  BY RecvSlotsAssumption, SlotsAssumption
<1> QED
  BY <1>1, ModDistinct DEF Ring

\* An injective function takes as many values as its interval has elements.
LEMMA ImageCardinality ==
  ASSUME NEW a \in Int, NEW b \in Int, a <= b, NEW f,
         \A i, j \in a + 1 .. b : f[i] = f[j] => i = j
  PROVE  LET T == {f[i] : i \in a + 1 .. b}
         IN  IsFiniteSet(T) /\ Cardinality(T) = b - a
<1> DEFINE S == a + 1 .. b
           T == {f[i] : i \in S}
           g == [i \in S |-> f[i]]
<1>1. IsFiniteSet(S) /\ Cardinality(S) = b - a
  <2>1. a + 1 \in Int
    OBVIOUS
  <2>2. IsFiniteSet(S) /\ Cardinality(S) = IF a + 1 > b THEN 0 ELSE b - (a + 1) + 1
    BY <2>1, FS_Interval
  <2> QED
    BY <2>2
<1>2. g \in Bijection(S, T)
  BY DEF Bijection, Injection, IsInjective, Surjection
<1>3. ExistsBijection(S, T)
  BY <1>2 DEF ExistsBijection
<1> HIDE DEF S, T, g
<1>4. IsFiniteSet(T) /\ Cardinality(T) = Cardinality(S)
  BY <1>1, <1>3, FS_Bijection
<1> QED
  BY <1>1, <1>4 DEF S, T

-----------------------------------------------------------------------------
\* Lemmas about the RECV completions of a queue

\* A queue holds finitely many RECV completions.
LEMMA RecvsFinite ==
  ASSUME NEW q, Len(q) \in Nat
  PROVE  IsFiniteSet(Recvs(q)) /\ Cardinality(Recvs(q)) \in Nat
<1>1. IsFiniteSet(1 .. Len(q))
  BY FS_Interval
<1>2. Recvs(q) \in SUBSET (1 .. Len(q))
  BY DEF Recvs
<1>3. IsFiniteSet(Recvs(q))
  BY <1>1, <1>2, FS_Subset
<1> QED
  BY <1>3, FS_CardinalityType

\* An empty queue holds none.
LEMMA RecvsEmpty == Cardinality(Recvs(<<>>)) = 0
<1>1. Recvs(<<>>) = {}
  BY DEF Recvs
<1> QED
  BY <1>1, FS_EmptySet

\* A completion that is appended counts if it is a RECV.
LEMMA RecvsAppend ==
  ASSUME NEW S, NEW q \in Seq(S), NEW x \in S
  PROVE  Cardinality(Recvs(Append(q, x))) =
           Cardinality(Recvs(q)) + (IF x = "RECV" THEN 1 ELSE 0)
<1> DEFINE m == Len(q) + 1
<1>1. IsFiniteSet(Recvs(q)) /\ Cardinality(Recvs(q)) \in Nat
  BY RecvsFinite
<1>2. CASE x = "RECV"
  <2>1. Recvs(Append(q, x)) = Recvs(q) \cup {m}
    BY <1>2 DEF Recvs
  <2>2. m \notin Recvs(q)
    BY DEF Recvs
  <2> QED
    BY <1>1, <1>2, <2>1, <2>2, FS_AddElement
<1>3. CASE x # "RECV"
  <2>1. Recvs(Append(q, x)) = Recvs(q)
    BY <1>3 DEF Recvs
  <2> QED
    BY <1>1, <1>3, <2>1
<1> QED
  BY <1>2, <1>3

\* A poll takes a prefix; the RECVs of the prefix and of the rest add up.
LEMMA RecvsSplit ==
  ASSUME NEW S, NEW q \in Seq(S), NEW k \in 0 .. Len(q)
  PROVE  LET p == SubSeq(q, 1, k)
             r == SubSeq(q, k + 1, Len(q))
         IN  /\ p \in Seq(S) /\ r \in Seq(S)
             /\ Cardinality(Recvs(p)) \in Nat
             /\ Cardinality(Recvs(q)) = Cardinality(Recvs(p)) + Cardinality(Recvs(r))
<1> DEFINE p == SubSeq(q, 1, k)
           r == SubSeq(q, k + 1, Len(q))
           T == {i \in k + 1 .. Len(q) : q[i] = "RECV"}
           g == [i \in Recvs(r) |-> i + k]
<1>1. /\ p \in Seq(S) /\ Len(p) = k /\ \A i \in 1 .. k : p[i] = q[i]
      /\ r \in Seq(S) /\ Len(r) = Len(q) - k
      /\ \A i \in 1 .. Len(q) - k : r[i] = q[k + i]
  OBVIOUS
<1> HIDE DEF p, r
<1>2. Recvs(q) = Recvs(p) \cup T /\ Recvs(p) \cap T = {}
  BY <1>1 DEF Recvs
<1>3. /\ IsFiniteSet(Recvs(p)) /\ Cardinality(Recvs(p)) \in Nat
      /\ IsFiniteSet(Recvs(r)) /\ Cardinality(Recvs(r)) \in Nat
  BY <1>1, RecvsFinite
<1>4. ExistsBijection(Recvs(r), T)
  <2>1. g \in [Recvs(r) -> T]
    BY <1>1 DEF Recvs
  <2>2. g \in Injection(Recvs(r), T)
    BY <2>1 DEF Injection, IsInjective, Recvs
  <2>3. g \in Surjection(Recvs(r), T)
    <3>1. SUFFICES ASSUME NEW t \in T PROVE \E i \in Recvs(r) : g[i] = t
      BY <2>1 DEF Surjection
    <3>2. t - k \in Recvs(r)
      BY <1>1 DEF Recvs
    <3> QED
      BY <3>2
  <2> QED
    BY <2>2, <2>3 DEF ExistsBijection, Bijection
<1>5. IsFiniteSet(T) /\ Cardinality(T) = Cardinality(Recvs(r))
  BY <1>3, <1>4, FS_Bijection
<1> HIDE DEF T
<1>6. Cardinality(Recvs(q)) = Cardinality(Recvs(p)) + Cardinality(T) - Cardinality({})
  BY <1>2, <1>3, <1>5, FS_Union
<1>7. Cardinality(Recvs(q)) = Cardinality(Recvs(p)) + Cardinality(Recvs(r))
  BY <1>3, <1>5, <1>6, FS_EmptySet
<1> QED
  BY <1>1, <1>3, <1>7 DEF p, r

-----------------------------------------------------------------------------
\* Type correctness

\* A buffer of either CDC ring names a slot.
LEMMA BufSlots ==
  ASSUME TypeOK
  PROVE  \A k \in Nat : k >= 1 =>
           /\ Ring(k) \in RingId
           /\ srecv[Ring(k)].slot_id \in SlotId
           /\ rbuf[Ring(k)].slot_id \in SlotId
<1> SUFFICES ASSUME NEW k \in Nat, k >= 1
             PROVE  /\ Ring(k) \in RingId
                    /\ srecv[Ring(k)].slot_id \in SlotId
                    /\ rbuf[Ring(k)].slot_id \in SlotId
  OBVIOUS
<1>1. Ring(k) \in RingId
  BY RingType
<1>2. srecv[Ring(k)] \in AckBuf /\ rbuf[Ring(k)] \in ReadyBuf
  BY <1>1 DEF TypeOK
<1> QED
  BY <1>1, <1>2 DEF AckBuf, ReadyBuf

\* ibv_poll_cq takes a prefix of the queue, an empty one only of an empty queue.
LEMMA BatchType ==
  ASSUME TypeOK
  PROVE  \E m \in 0 .. Len(scq) :
           /\ Batch = SubSeq(scq, 1, m) /\ Len(Batch) = m
           /\ m = 0 => scq = <<>>
<1> DEFINE m == IF Len(scq) <= MaxWc THEN Len(scq) ELSE MaxWc
<1>1. m \in 0 .. Len(scq) /\ (m = 0 => scq = <<>>)
  BY MaxWcAssumption DEF TypeOK
<1>2. Batch = SubSeq(scq, 1, m)
  BY DEF Batch
<1> HIDE DEF m
<1>3. Len(SubSeq(scq, 1, m)) = m
  BY <1>1 DEF TypeOK
<1> QED
  BY <1>1, <1>2, <1>3

\* A poll keeps the types, and what it takes and what it leaves of the queue add
\* up to the queue.
LEMMA PollType ==
  ASSUME TypeOK, PollBatch
  PROVE  /\ Cardinality(Recvs(Batch)) \in Nat
         /\ s_cons' \in Nat /\ pending_acks' \in Int
         /\ slot_free' \in [SlotId -> BOOLEAN]
         /\ scq' \in Seq({"WRITE", "SEND", "RECV", "ERR"})
         /\ Cardinality(Recvs(scq)) =
              Cardinality(Recvs(Batch)) + Cardinality(Recvs(scq'))
<1> DEFINE k == Cardinality(Recvs(Batch))
           freed == {srecv[Ring(i)].slot_id : i \in s_cons + 1 .. s_cons + k}
           dec == Cardinality({s \in freed : ~slot_free[s]})
<1>1. PICK m \in 0 .. Len(scq) : Batch = SubSeq(scq, 1, m) /\ Len(Batch) = m
  BY BatchType
<1>2. scq \in Seq({"WRITE", "SEND", "RECV", "ERR"}) /\ s_cons \in Nat
  BY DEF TypeOK
<1>3. /\ k \in Nat
      /\ SubSeq(scq, m + 1, Len(scq)) \in Seq({"WRITE", "SEND", "RECV", "ERR"})
      /\ Cardinality(Recvs(scq)) = k + Cardinality(Recvs(SubSeq(scq, m + 1, Len(scq))))
  BY <1>1, <1>2, RecvsSplit
<1>4. /\ scq' = SubSeq(scq, m + 1, Len(scq))
      /\ s_cons' = s_cons + k
      /\ slot_free' = [s \in SlotId |-> slot_free[s] \/ s \in freed]
      /\ pending_acks' = pending_acks - dec
  BY <1>1 DEF PollBatch, HandleAcks
<1>5. slot_free' \in [SlotId -> BOOLEAN]
  BY <1>4
<1>6. dec \in Nat
  <2>1. IsFiniteSet(SlotId)
    BY SlotsAssumption, FS_Interval DEF SlotId
  <2>2. \A i \in Nat : i >= 1 => srecv[Ring(i)].slot_id \in SlotId
    BY BufSlots
  <2>3. {s \in freed : ~slot_free[s]} \in SUBSET SlotId
    BY <1>2, <1>3, <2>2
  <2>4. IsFiniteSet({s \in freed : ~slot_free[s]})
    BY <2>1, <2>3, FS_Subset
  <2> QED
    BY <2>4, FS_CardinalityType
<1>7. pending_acks \in Int
  BY DEF TypeOK
<1> HIDE DEF k, dec, freed
<1>8. s_cons' \in Nat /\ pending_acks' \in Int
  BY <1>2, <1>3, <1>4, <1>6, <1>7
<1> QED
  BY <1>3, <1>4, <1>5, <1>8 DEF k

\* Slot 0, of the control packets, and the slot after a slot are slots.
LEMMA SlotFacts ==
  /\ 0 \in SlotId
  /\ \A s \in SlotId : (s + 1) % Slots \in SlotId
  BY SlotsAssumption DEF SlotId

\* The commands that the sender's steps name are commands.
LEMMA CmdFacts == "FILE_DATA" \in Cmd /\ "NONE" \in Cmd /\ SyncCmd \subseteq Cmd
  BY DEF Cmd

\* What the sender's buffer is filled with is a packet.
LEMMA PacketFacts ==
  /\ Blank \in Packet
  /\ TypeOK => \A c \in Cmd : NextPacket(c) \in Packet
  BY CmdFacts DEF Blank, Packet, NextPacket, TypeOK

\* The two halves of the type invariant, one for each side's variables, and
\* what each half keeps when the other side alone takes a step.
SenderTypes ==
  /\ spc \in {"idle", "slot0", "write", "signal", "ack", "chunk", "announce",
              "harvest", "drain", "done", "failed", "gone"}
  /\ job \in SyncCmd \cup {"NONE"}
  /\ left \in Nat /\ depth \in Nat /\ nodes \in Nat
  /\ slot_free \in [SlotId -> BOOLEAN]
  /\ current_slot \in SlotId /\ pending_acks \in Int /\ remote_credits \in Nat
  /\ lbuf \in [SlotId -> Packet]
  /\ s_post \in Nat /\ s_arr \in Nat /\ s_cons \in Nat
  /\ srecv \in [RingId -> AckBuf]
  /\ scq \in Seq({"WRITE", "SEND", "RECV", "ERR"})
  /\ sq \in Seq(WorkRequest)
  /\ sdone \in Seq({"WRITE", "SEND"})
  /\ qpS \in {"RTS", "ERR", "GONE"}
  /\ sig \in Seq(Announcement)

ReceiverTypes ==
  /\ rpc \in {"extend", "poll", "handle", "repost", "ack", "stopped", "gone"}
  /\ cur_slot \in SlotId /\ is_end_packet \in BOOLEAN /\ local_credits \in Nat
  /\ rmem \in [SlotId -> Packet]
  /\ r_post \in Nat /\ r_arr \in Nat /\ r_cons \in Nat
  /\ rbuf \in [RingId -> ReadyBuf]
  /\ rcq \in Seq({"SEND", "RECV", "ERR"}) /\ rsq \in Seq(SlotId)
  /\ rdone \in Nat /\ qpR \in {"RTS", "ERR", "GONE"}
  /\ handled \in Seq(Packet)

\* The type invariant is the conjunction of the two halves.
LEMMA TypeHalves == TypeOK <=> SenderTypes /\ ReceiverTypes
  BY DEF TypeOK, SenderTypes, ReceiverTypes

\* ... also in the next state.
LEMMA TypeHalvesNext == SenderTypes' /\ ReceiverTypes' => TypeOK'
  BY DEF TypeOK, SenderTypes, ReceiverTypes

\* A step that leaves the sender's variables alone keeps their types.
LEMMA SenderTypesKept == TypeOK /\ UNCHANGED senderVars => SenderTypes'
  BY DEF TypeOK, SenderTypes, senderVars, sendVars, slotVars, ackVars, sNicVars

\* A step that leaves the receiver's variables alone keeps their types.
LEMMA ReceiverTypesKept == TypeOK /\ UNCHANGED receiverVars => ReceiverTypes'
  BY DEF TypeOK, ReceiverTypes, receiverVars, recvVars, cdcVars, rNicVars

\* The state in which connect_qp leaves both sides has the right types.
LEMMA TypeInit == Init => TypeOK
<1> SUFFICES ASSUME Init PROVE TypeOK
  OBVIOUS
<1>1. /\ lbuf \in [SlotId -> Packet] /\ rmem \in [SlotId -> Packet]
      /\ slot_free \in [SlotId -> BOOLEAN]
  BY PacketFacts DEF Init
<1>2. /\ srecv \in [RingId -> AckBuf]
      /\ rbuf \in [RingId -> ReadyBuf]
  BY SlotFacts DEF Init, AckBuf, ReadyBuf
<1>3. SenderTypes
  BY <1>1, <1>2, SlotFacts DEF Init, SenderTypes
<1>4. ReceiverTypes
  <2>1. handled \in Seq(Packet) /\ rcq \in Seq({"SEND", "RECV", "ERR"})
        /\ rsq \in Seq(SlotId)
    BY DEF Init
  <2>2. /\ rpc = "extend" /\ qpR = "RTS" /\ is_end_packet = FALSE /\ cur_slot = 0
        /\ local_credits = 0 /\ r_post = 1 /\ r_arr = 0 /\ r_cons = 0 /\ rdone = 0
    BY DEF Init
  <2> QED
    BY <1>1, <1>2, <2>1, <2>2, SlotFacts DEF ReceiverTypes
<1> QED
  BY <1>3, <1>4, TypeHalves

\* What the parts of the sender's actions do to the types of their variables.
LEMMA PostSendType ==
  ASSUME TypeOK, NEW o \in {"WRITE", "SEND"}, NEW s \in SlotId, PostSend(o, s)
  PROVE  sq' \in Seq(WorkRequest)
<1>1. Len(sig) + 1 \in Nat
  BY DEF TypeOK
<1>2. [op |-> o, slot |-> s, n |-> Len(sig) + 1]
        \in WorkRequest
  BY <1>1 DEF WorkRequest
<1>3. sq \in Seq(WorkRequest)
  BY DEF TypeOK
<1> QED
  BY <1>2, <1>3 DEF PostSend

\* An ACK receive that is posted keeps the type of the sender's ring.
LEMMA PostAckRecvType ==
  ASSUME TypeOK, NEW id \in SlotId
  PROVE  [srecv EXCEPT ![Ring(s_post + 1)].wr_id = id]
           \in [RingId -> AckBuf]
<1>1. Ring(s_post + 1) \in RingId
  BY RingType DEF TypeOK
<1>2. srecv \in [RingId -> AckBuf]
  BY DEF TypeOK
<1> QED
  BY <1>1, <1>2 DEF AckBuf

\* The bookkeeping of an announcement keeps the types.
LEMMA MarkBusyType ==
  ASSUME TypeOK, NEW s \in SlotId, NEW c \in Cmd, MarkBusy(s, c)
  PROVE  /\ slot_free' \in [SlotId -> BOOLEAN]
         /\ pending_acks' \in Int
         /\ sig' \in Seq(Announcement)
<1>1. [slot |-> s, cmd |-> c] \in Announcement
  BY DEF Announcement
<1> QED
  BY <1>1 DEF MarkBusy, TypeOK

\* A packet that is built keeps the type of the sender's buffer.
LEMMA FillType ==
  ASSUME TypeOK, NEW s \in SlotId, NEW c \in Cmd
  PROVE  [lbuf EXCEPT ![s] = NextPacket(c)] \in [SlotId -> Packet]
<1>1. NextPacket(c) \in Packet
  BY PacketFacts
<1> QED
  BY <1>1 DEF TypeOK

\* The first entry of the send queue and what is behind it.
LEMMA HeadRequest ==
  ASSUME TypeOK, sq # <<>>
  PROVE  /\ sq[1] = Head(sq) /\ sq[1] \in WorkRequest
         /\ sq[1].op \in {"WRITE", "SEND"} /\ sq[1].slot \in SlotId /\ sq[1].n \in Nat
         /\ Len(sq) >= 1
         /\ Tail(sq) \in Seq(WorkRequest) /\ Len(Tail(sq)) = Len(sq) - 1
         /\ \A i \in 1 .. Len(sq) - 1 : Tail(sq)[i] = sq[i + 1]
<1>1. sq \in Seq(WorkRequest)
  BY DEF TypeOK
<1>2. sq[1] = Head(sq) /\ sq[1] \in WorkRequest /\ Len(sq) >= 1
  BY <1>1
<1>3. sq[1].op \in {"WRITE", "SEND"} /\ sq[1].slot \in SlotId /\ sq[1].n \in Nat
  BY <1>2 DEF WorkRequest
<1>4. /\ Tail(sq) \in Seq(WorkRequest) /\ Len(Tail(sq)) = Len(sq) - 1
      /\ \A i \in 1 .. Len(sq) - 1 : Tail(sq)[i] = sq[i + 1]
  BY <1>1
<1> QED
  BY <1>2, <1>3, <1>4

\* A poll of the completion queue, wherever the sender makes it, keeps them.
LEMMA PollKeepsTypes ==
  ASSUME TypeOK, PollBatch, UNCHANGED <<job, left, depth, nodes, receiverVars>>,
         spc' \in {"slot0", "write", "signal", "ack", "chunk", "drain", "done", "failed"}
  PROVE  TypeOK'
<1>1. UNCHANGED <<current_slot, remote_credits, lbuf, s_post, s_arr, srecv, sq, sdone,
                  qpS, sig>>
  BY DEF PollBatch, HandleAcks
<1>2. /\ s_cons' \in Nat /\ pending_acks' \in Int
      /\ slot_free' \in [SlotId -> BOOLEAN]
      /\ scq' \in Seq({"WRITE", "SEND", "RECV", "ERR"})
  BY PollType
<1>3. SenderTypes'
  BY <1>1, <1>2 DEF TypeOK, SenderTypes
<1>4. ReceiverTypes'
  BY ReceiverTypesKept
<1> QED
  BY <1>3, <1>4, TypeHalvesNext

\* Every step keeps the types.
LEMMA TypeNext == TypeOK /\ PhaseInv /\ [Next]_vars => TypeOK'
<1> SUFFICES ASSUME TypeOK, PhaseInv, [Next]_vars PROVE TypeOK'
  OBVIOUS
<1>1. ASSUME NEW c \in SyncCmd, StartSync(c) PROVE TypeOK'
  <2>1. lbuf' \in [SlotId -> Packet]
    BY <1>1, FillType, SlotFacts, CmdFacts DEF StartSync, Build
  <2>2. depth' \in Nat
    <3>1. depth \in Nat
      BY DEF TypeOK
    <3>2. CASE c = "DIR_LEAVE"
      BY <1>1, <3>1, <3>2 DEF StartSync, MaySend
    <3>3. CASE c # "DIR_LEAVE"
      BY <1>1, <3>1, <3>3 DEF StartSync
    <3> QED
      BY <3>2, <3>3
  <2>3. nodes' \in Nat
    <3>1. nodes \in Nat
      BY DEF TypeOK
    <3> QED
      BY <1>1, <3>1 DEF StartSync
  <2>4. job' \in SyncCmd \cup {"NONE"} /\ spc' = "slot0"
    BY <1>1 DEF StartSync, Build
  <2> QED
    BY <1>1, <2>1, <2>2, <2>3, <2>4 DEF TypeOK, StartSync
<1>2. CASE SyncWrite
  <2>1. srecv' \in [RingId -> AckBuf]
    BY <1>2, PostAckRecvType, SlotFacts DEF SyncWrite, PostAckRecv
  <2>2. sq' \in Seq(WorkRequest)
    BY <1>2, PostSendType, SlotFacts DEF SyncWrite
  <2>3. SenderTypes'
    BY <1>2, <2>1, <2>2, SMTT(40) DEF TypeOK, SenderTypes, SyncWrite, PostAckRecv
  <2>4. ReceiverTypes'
    BY <1>2, ReceiverTypesKept DEF SyncWrite
  <2> QED
    BY <2>3, <2>4, TypeHalvesNext
<1>3. CASE SyncWaitWrite
  <2>1. spc' \in {"slot0", "write", "signal", "ack", "chunk", "drain", "done", "failed"}
    BY <1>3 DEF SyncWaitWrite, FailPc
  <2> QED
    BY <1>3, <2>1, PollKeepsTypes DEF SyncWaitWrite
<1>4. CASE SyncSignal
  <2>1. job \in Cmd
    BY CmdFacts DEF TypeOK
  <2>2. /\ slot_free' \in [SlotId -> BOOLEAN] /\ pending_acks' \in Int
        /\ sig' \in Seq(Announcement)
    BY <1>4, <2>1, MarkBusyType, SlotFacts DEF SyncSignal
  <2>3. sq' \in Seq(WorkRequest)
    BY <1>4, PostSendType, SlotFacts DEF SyncSignal
  <2>4. SenderTypes'
    BY <1>4, <2>2, <2>3 DEF TypeOK, SenderTypes, SyncSignal
  <2>5. ReceiverTypes'
    BY <1>4, ReceiverTypesKept DEF SyncSignal
  <2> QED
    BY <2>4, <2>5, TypeHalvesNext
<1>5. CASE FileMetaAcked
  BY <1>5, SlotFacts, BoundsAssumption DEF TypeOK, FileMetaAcked
<1>6. CASE LinkMetaAcked
  <2>1. "LINK_DATA" \in SyncCmd
    BY DEF SyncCmd
  <2>2. lbuf' \in [SlotId -> Packet]
    BY <1>6, <2>1, FillType, SlotFacts, CmdFacts DEF LinkMetaAcked, Build
  <2> QED
    BY <1>6, <2>1, <2>2 DEF TypeOK, LinkMetaAcked, Build
<1>7. CASE SyncAcked
  BY <1>7 DEF TypeOK, SyncAcked
<1>8. CASE ChunkWrite
  <2>1. current_slot \in SlotId
    BY DEF TypeOK
  <2>2. lbuf' \in [SlotId -> Packet]
    BY <1>8, <2>1, FillType, CmdFacts DEF ChunkWrite
  <2>3. srecv' \in [RingId -> AckBuf]
    BY <1>8, <2>1, PostAckRecvType DEF ChunkWrite, PostAckRecv
  <2>4. sq' \in Seq(WorkRequest)
    BY <1>8, <2>1, PostSendType DEF ChunkWrite
  <2>5. SenderTypes'
    BY <1>8, <2>2, <2>3, <2>4, SMTT(40) DEF TypeOK, SenderTypes, ChunkWrite, PostAckRecv
  <2>6. ReceiverTypes'
    BY <1>8, ReceiverTypesKept DEF ChunkWrite
  <2> QED
    BY <2>5, <2>6, TypeHalvesNext
<1>9. CASE ChunkSignal
  <2>1. current_slot \in SlotId
    BY DEF TypeOK
  <2>2. /\ slot_free' \in [SlotId -> BOOLEAN] /\ pending_acks' \in Int
        /\ sig' \in Seq(Announcement)
    BY <1>9, <2>1, MarkBusyType, CmdFacts DEF ChunkSignal
  <2>3. sq' \in Seq(WorkRequest)
    BY <1>9, <2>1, PostSendType DEF ChunkSignal
  <2>4. current_slot' \in SlotId /\ left' \in Nat
    BY <1>9, <2>1, SlotFacts DEF ChunkSignal, TypeOK, PhaseInv
  <2>5. SenderTypes'
    BY <1>9, <2>2, <2>3, <2>4 DEF TypeOK, SenderTypes, ChunkSignal
  <2>6. ReceiverTypes'
    BY <1>9, ReceiverTypesKept DEF ChunkSignal
  <2> QED
    BY <2>5, <2>6, TypeHalvesNext
<1>10. CASE HarvestNonBlocking
  <2>1. spc' \in {"slot0", "write", "signal", "ack", "chunk", "drain", "done", "failed"}
    BY <1>10 DEF HarvestNonBlocking, FailPc
  <2> QED
    BY <1>10, <2>1, PollKeepsTypes DEF HarvestNonBlocking
<1>11. CASE ChunksDone
  BY <1>11 DEF TypeOK, ChunksDone
<1>12. CASE Drained
  BY <1>12 DEF TypeOK, Drained
<1>13. CASE HarvestBlocking
  <2>1. spc' \in {"slot0", "write", "signal", "ack", "chunk", "drain", "done", "failed"}
    BY <1>13 DEF HarvestBlocking, FailPc, MustWait
  <2> QED
    BY <1>13, <2>1, PollKeepsTypes DEF HarvestBlocking
<1>14. CASE SenderCallFails
  <2>1. current_slot \in SlotId /\ s_post \in Nat
        /\ lbuf \in [SlotId -> Packet]
        /\ srecv \in [RingId -> AckBuf]
    BY DEF TypeOK
  <2>2. lbuf' \in [SlotId -> Packet]
    BY <1>14, <2>1, FillType, CmdFacts DEF SenderCallFails
  <2>3. srecv' \in [RingId -> AckBuf]
    BY <1>14, <2>1, PostAckRecvType, SlotFacts DEF SenderCallFails
  <2>4. s_post' \in Nat
    BY <1>14, <2>1 DEF SenderCallFails
  <2>5. SenderTypes'
    BY <1>14, <2>2, <2>3, <2>4 DEF TypeOK, SenderTypes, SenderCallFails, FailPc
  <2>6. ReceiverTypes'
    BY <1>14, ReceiverTypesKept DEF SenderCallFails
  <2> QED
    BY <2>5, <2>6, TypeHalvesNext
<1>15. CASE SenderDestroy
  BY <1>15 DEF TypeOK, SenderDestroy
<1>16. CASE ExtendWindow
  BY <1>16 DEF TypeOK, ExtendWindow, PostCdcRecv
<1>17. CASE WindowExtended
  BY <1>17, RecvSlotsAssumption DEF TypeOK, WindowExtended
<1>18. CASE Receive
  <2>1. rbuf[Ring(r_cons + 1)].slot_id \in SlotId
    <3>1. r_cons + 1 \in Nat /\ r_cons + 1 >= 1
      BY DEF TypeOK
    <3> QED
      BY <3>1, BufSlots
  <2>2. SenderTypes'
    BY <1>18, SenderTypesKept DEF Receive
  <2>3. ReceiverTypes'
    BY <1>18, <2>1 DEF TypeOK, ReceiverTypes, Receive
  <2> QED
    BY <2>2, <2>3, TypeHalvesNext
<1>19. CASE DropSendCompletion
  BY <1>19 DEF TypeOK, DropSendCompletion
<1>20. CASE Handle
  BY <1>20, SMTT(40) DEF TypeOK, Handle
<1>21. CASE Repost
  BY <1>21 DEF TypeOK, Repost, PostCdcRecv
<1>22. CASE SendAck
  BY <1>22 DEF TypeOK, SendAck
<1>23. CASE ErrorCompletion
  BY <1>23 DEF TypeOK, ErrorCompletion, Stop
<1>24. CASE ReceiverCallFails
  BY <1>24 DEF TypeOK, ReceiverCallFails, Stop
<1>25. CASE ReceiverDestroy
  BY <1>25 DEF TypeOK, ReceiverDestroy
<1>26. CASE NicWrite
  <2>1. sq[1].slot \in SlotId /\ sq' \in Seq(WorkRequest)
    BY <1>26, HeadRequest DEF NicWrite
  <2>2. rmem' \in [SlotId -> Packet]
    BY <1>26, <2>1 DEF TypeOK, NicWrite
  <2> QED
    BY <1>26, <2>1, <2>2 DEF TypeOK, NicWrite
<1>27. CASE NicSend
  <2>1. /\ sq[1].slot \in SlotId /\ sq[1].n \in Nat
        /\ sq' \in Seq(WorkRequest)
    BY <1>27, HeadRequest DEF NicSend
  <2>2. rbuf' \in [RingId -> ReadyBuf]
    <3>1. [slot_id |-> sq[1].slot, n |-> sq[1].n] \in ReadyBuf
      BY <2>1 DEF ReadyBuf
    <3>2. Ring(r_arr + 1) \in RingId /\ rbuf \in [RingId -> ReadyBuf]
      BY RingType DEF TypeOK
    <3> QED
      BY <1>27, <3>1, <3>2 DEF NicSend
  <2>3. SenderTypes'
    BY <1>27, <2>1 DEF TypeOK, SenderTypes, NicSend
  <2>4. ReceiverTypes'
    BY <1>27, <2>2 DEF TypeOK, ReceiverTypes, NicSend
  <2> QED
    BY <2>3, <2>4, TypeHalvesNext
<1>28. CASE NicComplete
  BY <1>28 DEF TypeOK, NicComplete
<1>29. CASE NicAck
  <2>1. rsq[1] \in SlotId /\ rsq' \in Seq(SlotId)
    <3>1. rsq \in Seq(SlotId) /\ rsq # <<>>
      BY <1>29 DEF TypeOK, NicAck
    <3> QED
      BY <1>29, <3>1 DEF NicAck
  <2>2. srecv' \in [RingId -> AckBuf]
    <3>1. srecv \in [RingId -> AckBuf] /\ Ring(s_arr + 1) \in RingId
      BY BufSlots DEF TypeOK
    <3>2. srecv' = [srecv EXCEPT ![Ring(s_arr + 1)].slot_id = rsq[1]]
      BY <1>29 DEF NicAck, TypeOK
    <3> QED
      BY <2>1, <3>1, <3>2 DEF AckBuf
  <2>3. scq' \in Seq({"WRITE", "SEND", "RECV", "ERR"})
    BY <1>29 DEF TypeOK, NicAck
  <2>4. s_arr' \in Nat /\ rdone' \in Nat
    <3>1. s_arr \in Nat /\ rdone \in Nat
      BY DEF TypeOK
    <3> QED
      BY <1>29, <3>1 DEF NicAck
  <2>5. UNCHANGED <<sendVars, slotVars, lbuf, s_post, s_cons, sq, sdone, qpS, sig,
                    recvVars, rmem, cdcVars, rcq, qpR>>
    BY <1>29 DEF NicAck
  <2> QED
    BY <2>1, <2>2, <2>3, <2>4, <2>5 DEF TypeOK
<1>30. CASE NicAckComplete
  BY <1>30 DEF TypeOK, NicAckComplete
<1>31. CASE NicErrorS
  BY <1>31 DEF TypeOK, NicErrorS
<1>32. CASE NicErrorR
  BY <1>32 DEF TypeOK, NicErrorR
<1>33. CASE UNCHANGED vars
  BY <1>33 DEF TypeOK
<1> QED
  BY <1>1, <1>2, <1>3, <1>4, <1>5, <1>6, <1>7, <1>8, <1>9, <1>10, <1>11, <1>12, <1>13,
     <1>14, <1>15, <1>16, <1>17, <1>18, <1>19, <1>20, <1>21, <1>22, <1>23, <1>24, <1>25,
     <1>26, <1>27, <1>28, <1>29, <1>30, <1>31, <1>32, <1>33 DEF Next, SenderStep,
     ReceiverStep, NicStepS, NicStepR

-----------------------------------------------------------------------------
\* Which variables the sender, the receiver and the adapters leave alone

\* The sender's thread does not touch the receiver's state.
LEMMA SenderFrame == SenderStep \/ SenderCallFails => UNCHANGED receiverVars
  BY DEF SenderStep, SenderCallFails, StartSync, SyncWrite, SyncWaitWrite, SyncSignal,
         FileMetaAcked, LinkMetaAcked, SyncAcked, ChunkWrite, ChunkSignal,
         HarvestNonBlocking, ChunksDone, Drained, HarvestBlocking, SenderDestroy

\* The receiver's thread does not touch the sender's state.
LEMMA ReceiverFrame == ReceiverStep \/ ReceiverCallFails => UNCHANGED senderVars
  BY DEF ReceiverStep, ReceiverCallFails, ExtendWindow, WindowExtended, Receive,
         DropSendCompletion, Handle, Repost, SendAck, ErrorCompletion, Stop,
         ReceiverDestroy

NicStep == NicStepS \/ NicStepR \/ NicComplete \/ NicAckComplete

\* The adapters do not touch what only the threads assign.
LEMMA NicFrame ==
  NicStep => UNCHANGED <<sendVars, slotVars, lbuf, s_post, s_cons, sig,
                         recvVars, r_post, r_cons>>
  BY DEF NicStep, NicStepS, NicStepR, NicWrite, NicSend, NicErrorS, NicAck, NicErrorR,
         NicComplete, NicAckComplete

\* Every step is one of the sender, of the receiver or of an adapter.
LEMMA WhoSteps ==
  [Next]_vars <=> \/ SenderStep \/ SenderCallFails
                  \/ ReceiverStep \/ ReceiverCallFails
                  \/ NicStep \/ UNCHANGED vars
  BY DEF Next, NicStep

-----------------------------------------------------------------------------
\* What the invariant says of the cuts and of the queues

\* The types of the counters and of the slots of the packets announced.
LEMMA Numbers ==
  ASSUME TypeOK
  PROVE  /\ N \in Nat /\ s_post \in Nat /\ s_arr \in Nat /\ s_cons \in Nat
         /\ r_post \in Nat /\ r_arr \in Nat /\ r_cons \in Nat
         /\ Len(rsq) \in Nat /\ Len(sq) \in Nat /\ pending_acks \in Int
         /\ Slots \in Nat /\ Slots >= 1 /\ RecvSlots \in Nat /\ RecvSlots > Slots
         /\ \A n \in 1 .. N : sig[n].slot \in SlotId /\ sig[n].cmd \in Cmd
<1>1. sig \in Seq(Announcement)
  BY DEF TypeOK
<1>2. \A n \in 1 .. N : sig[n].slot \in SlotId /\ sig[n].cmd \in Cmd
  <2>1. \A n \in 1 .. N : sig[n] \in Announcement
    BY <1>1 DEF N
  <2> QED
    BY <2>1 DEF Announcement
<1>3. N \in Nat /\ Len(rsq) \in Nat /\ Len(sq) \in Nat
  BY <1>1 DEF N, TypeOK
<1> QED
  BY <1>2, <1>3, SlotsAssumption, RecvSlotsAssumption DEF TypeOK

\* The packets that are not acknowledged have a slot each.
LEMMA Window ==
  ASSUME TypeOK, OwnInv, s_cons <= N
  PROVE  /\ N - s_cons <= Slots
         /\ N - s_cons < RecvSlots
         /\ \A s \in SlotId : slot_free[s] => N - s_cons < Slots
<1> DEFINE f == [n \in s_cons + 1 .. N |-> sig[n].slot]
           T == {f[n] : n \in s_cons + 1 .. N}
<1>1. N \in Nat /\ s_cons \in Nat /\ Slots \in Nat /\ Slots >= 1 /\ RecvSlots > Slots
      /\ RecvSlots \in Nat
      /\ \A n \in 1 .. N : sig[n].slot \in SlotId
  BY Numbers
<1>2. \A m, n \in s_cons + 1 .. N : f[m] = f[n] => m = n
  BY DEF OwnInv
<1>3. T \subseteq SlotId
  BY <1>1
<1>4. \A s \in SlotId : slot_free[s] => s \notin T
  BY DEF OwnInv
<1> HIDE DEF f
<1>5. IsFiniteSet(T) /\ Cardinality(T) = N - s_cons
  BY <1>1, <1>2, ImageCardinality
<1>6. IsFiniteSet(SlotId) /\ Cardinality(SlotId) = Slots
  <2>1. 0 \in Int /\ Slots - 1 \in Int
    BY <1>1
  <2>2. IsFiniteSet(0 .. Slots - 1) /\ Cardinality(0 .. Slots - 1) =
          IF 0 > Slots - 1 THEN 0 ELSE (Slots - 1) - 0 + 1
    BY <2>1, FS_Interval
  <2> QED
    BY <1>1, <2>2 DEF SlotId
<1> HIDE DEF T
<1>7. Cardinality(T) <= Cardinality(SlotId) /\ (Cardinality(T) = Cardinality(SlotId) => T = SlotId)
  BY <1>3, <1>6, FS_Subset
<1>8. \A s \in SlotId : slot_free[s] => N - s_cons < Slots
  BY <1>1, <1>4, <1>5, <1>6, <1>7
<1> QED
  BY <1>1, <1>5, <1>6, <1>7, <1>8

\* The order of the cuts, and the window: a sender that has a free slot has
\* announced fewer than Slots packets since the last ACK.
LEMMA Cuts ==
  ASSUME IInv
  PROVE  /\ s_cons <= s_arr /\ s_arr + Len(rsq) <= r_cons
         /\ s_arr <= r_cons /\ r_cons <= r_arr /\ r_arr <= N
         /\ N - s_cons <= Slots /\ N - s_cons < RecvSlots
         /\ \A s \in SlotId : slot_free[s] => N - s_cons < Slots
<1>1. s_cons \in Nat /\ s_arr \in Nat /\ r_cons \in Nat /\ r_arr \in Nat /\ N \in Nat
      /\ Len(rsq) \in Nat
  BY Numbers DEF IInv
<1>2. s_cons <= s_arr /\ s_arr + Len(rsq) <= r_cons /\ r_cons <= r_arr /\ r_arr <= N
  BY DEF IInv, ChainInv
<1>3. s_cons <= N
  BY <1>1, <1>2
<1> QED
  BY <1>1, <1>2, <1>3, Window DEF IInv

\* A poll consumes the next ACKs and frees the slots of their packets.
LEMMA Harvest ==
  ASSUME IInv, spc # "gone", PollBatch
  PROVE  \E k \in 0 .. s_arr - s_cons :
           /\ s_cons' = s_cons + k
           /\ pending_acks' = pending_acks - k
           /\ slot_free' = [s \in SlotId |->
                slot_free[s] \/ \E n \in s_cons + 1 .. s_cons + k : sig[n].slot = s]
           /\ Cardinality(Recvs(scq')) = s_arr - s_cons'
           /\ UNCHANGED <<sig, s_post, s_arr, srecv, current_slot, lbuf, sq, qpS>>
<1> DEFINE k == Cardinality(Recvs(Batch))
           freed == {srecv[Ring(i)].slot_id : i \in s_cons + 1 .. s_cons + k}
           f == [n \in s_cons + 1 .. s_cons + k |-> sig[n].slot]
           T == {f[n] : n \in s_cons + 1 .. s_cons + k}
<1>1. /\ N \in Nat /\ s_cons \in Nat /\ s_arr \in Nat
      /\ s_cons <= s_arr /\ s_arr <= N
  BY Numbers, Cuts DEF IInv
<1>2. /\ k \in Nat
      /\ Cardinality(Recvs(scq)) = k + Cardinality(Recvs(scq'))
      /\ Cardinality(Recvs(scq)) = s_arr - s_cons
      /\ Cardinality(Recvs(scq')) \in Nat
  <2>1. k \in Nat /\ Cardinality(Recvs(scq)) = k + Cardinality(Recvs(scq'))
    BY PollType DEF IInv
  <2>2. Cardinality(Recvs(scq)) = s_arr - s_cons
    BY DEF IInv, ChainInv
  <2>3. Len(scq') \in Nat
    BY PollType DEF IInv
  <2> QED
    BY <2>1, <2>2, <2>3, RecvsFinite
<1>3. /\ s_cons' = s_cons + k
      /\ slot_free' = [s \in SlotId |-> slot_free[s] \/ s \in freed]
      /\ pending_acks' = pending_acks - Cardinality({s \in freed : ~slot_free[s]})
      /\ UNCHANGED <<sig, s_post, s_arr, srecv, current_slot, lbuf, sq, qpS>>
  BY DEF PollBatch, HandleAcks
<1> HIDE DEF k
<1>4. k \in 0 .. s_arr - s_cons /\ Cardinality(Recvs(scq')) = s_arr - s_cons'
  BY <1>1, <1>2, <1>3
<1>5. \A n \in s_cons + 1 .. s_cons + k :
        /\ n \in s_cons + 1 .. N /\ n \in s_cons + 1 .. s_arr
  BY <1>1, <1>4
<1>6. \A n \in s_cons + 1 .. s_cons + k : srecv[Ring(n)].slot_id = sig[n].slot
  BY <1>5 DEF IInv, RingInv
<1>7. freed = T
  BY <1>6
<1>8. \A s \in T : ~slot_free[s]
  BY <1>5 DEF IInv, OwnInv
<1>9. \A i, j \in s_cons + 1 .. s_cons + k : f[i] = f[j] => i = j
  BY <1>5 DEF IInv, OwnInv
<1>10. \A s : s \in T <=> \E n \in s_cons + 1 .. s_cons + k : sig[n].slot = s
  OBVIOUS
<1>11. {s \in freed : ~slot_free[s]} = T
  BY <1>7, <1>8
<1> HIDE DEF f
<1>12. Cardinality(T) = k
  <2>1. s_cons \in Int /\ s_cons + k \in Int /\ s_cons <= s_cons + k
        /\ (s_cons + k) - s_cons = k
    BY <1>1, <1>4
  <2>2. IsFiniteSet(T) /\ Cardinality(T) = (s_cons + k) - s_cons
    BY <1>9, <2>1, ImageCardinality
  <2> QED
    BY <2>1, <2>2
<1> HIDE DEF T, freed
<1>13. slot_free' = [s \in SlotId |->
         slot_free[s] \/ \E n \in s_cons + 1 .. s_cons + k : sig[n].slot = s]
  BY <1>3, <1>7, <1>10
<1> QED
  BY <1>3, <1>4, <1>11, <1>12, <1>13

-----------------------------------------------------------------------------
\* The slots: PhaseInv, OwnInv and TurnInv

\* When nothing is pending every slot is free.
LEMMA AllFree ==
  ASSUME IInv, s_cons = N
  PROVE  /\ \A s \in SlotId : slot_free[s]
         /\ pending_acks = 0 /\ s_arr = N /\ r_cons = N /\ r_arr = N /\ rsq = <<>>
<1>1. /\ s_cons \in Nat /\ s_arr \in Nat /\ r_cons \in Nat /\ r_arr \in Nat /\ N \in Nat
      /\ Len(rsq) \in Nat /\ rsq \in Seq(SlotId)
      /\ s_cons <= s_arr /\ s_arr + Len(rsq) <= r_cons /\ r_cons <= r_arr /\ r_arr <= N
  BY Numbers, Cuts DEF IInv, TypeOK
<1>2. s_arr = N /\ r_cons = N /\ r_arr = N /\ Len(rsq) = 0
  BY <1>1
<1>3. rsq = <<>>
  BY <1>1, <1>2
<1>4. \A s \in SlotId : slot_free[s]
  BY <1>1 DEF IInv, OwnInv
<1>5. pending_acks = 0
  BY <1>1 DEF IInv, OwnInv
<1> QED
  BY <1>2, <1>3, <1>4, <1>5

\* The control packet is acknowledged when slot 0 is free.
LEMMA SyncDone ==
  ASSUME IInv, spc = "ack", slot_free[0]
  PROVE  s_cons = N /\ N >= 1
<1>1. N \in Nat /\ s_cons \in Nat /\ s_cons <= N
  BY Numbers, Cuts DEF IInv
<1>2. N >= 1 /\ N <= s_cons + 1 /\ (s_cons < N => sig[N].slot = 0)
  BY DEF IInv, PhaseInv
<1>3. s_cons < N => N \in s_cons + 1 .. N /\ ~slot_free[sig[N].slot]
  BY <1>1 DEF IInv, OwnInv
<1> QED
  BY <1>1, <1>2, <1>3

\* What an announcement does to the history.
LEMMA SigAppend ==
  ASSUME TypeOK, NEW s \in SlotId, NEW c, MarkBusy(s, c)
  PROVE  /\ N' = N + 1
         /\ sig'[N + 1] = [slot |-> s, cmd |-> c]
         /\ sig'[N'].slot = s /\ sig'[N'].cmd = c
         /\ \A n \in 1 .. N : sig'[n] = sig[n]
         /\ pending_acks' = pending_acks + 1
         /\ slot_free' = [slot_free EXCEPT ![s] = FALSE]
<1>1. sig \in Seq(Announcement)
  BY DEF TypeOK
<1> QED
  BY <1>1 DEF MarkBusy, N

\* Every step keeps the packets not acknowledged in distinct busy slots.
LEMMA OwnNext == IInv /\ [Next]_vars => OwnInv'
<1> SUFFICES ASSUME IInv, [Next]_vars PROVE OwnInv'
  OBVIOUS
<1>0. /\ N \in Nat /\ s_cons \in Nat /\ s_cons <= s_arr /\ s_arr <= N /\ s_arr \in Nat
      /\ pending_acks \in Int /\ slot_free \in [SlotId -> BOOLEAN]
      /\ 0 \in SlotId /\ current_slot \in SlotId
      /\ \A n \in 1 .. N : sig[n].slot \in SlotId
  <2>1. slot_free \in [SlotId -> BOOLEAN] /\ current_slot \in SlotId
    BY DEF IInv, TypeOK
  <2>2. TypeOK
    BY DEF IInv
  <2>3. /\ N \in Nat /\ s_cons \in Nat /\ s_arr \in Nat /\ r_cons \in Nat /\ r_arr \in Nat
        /\ pending_acks \in Int /\ \A n \in 1 .. N : sig[n].slot \in SlotId
    BY <2>2, Numbers
  <2>4. s_cons <= s_arr /\ s_arr <= r_cons /\ r_cons <= r_arr /\ r_arr <= N
    BY Cuts
  <2>5. s_cons <= N /\ s_arr <= N
    BY <2>3, <2>4
  <2> QED
    BY <2>1, <2>3, <2>4, <2>5, SlotFacts
<1>1. ASSUME UNCHANGED <<slot_free, sig, s_cons, pending_acks>> PROVE OwnInv'
  BY <1>1 DEF IInv, OwnInv, N
<1>2. ASSUME NEW s \in SlotId, NEW c, slot_free[s], MarkBusy(s, c), UNCHANGED s_cons
      PROVE  OwnInv'
  <2>1. /\ N' = N + 1 /\ sig'[N + 1].slot = s
        /\ \A n \in 1 .. N : sig'[n] = sig[n]
        /\ pending_acks' = pending_acks + 1
        /\ slot_free' = [slot_free EXCEPT ![s] = FALSE]
    BY <1>2, SigAppend DEF IInv
  <2>2. \A n \in s_cons + 1 .. N : ~slot_free[sig[n].slot] /\ sig[n].slot # s
                                   /\ sig'[n] = sig[n] /\ sig[n].slot \in SlotId
    BY <1>0, <1>2, <2>1 DEF IInv, OwnInv
  <2>3. \A n \in s_cons' + 1 .. N' : n \in s_cons + 1 .. N \/ n = N + 1
    BY <1>0, <1>2, <2>1
  <2>4. \A n \in s_cons' + 1 .. N' : ~slot_free'[sig'[n].slot]
    BY <1>0, <2>1, <2>2, <2>3
  <2>5. \A m, n \in s_cons' + 1 .. N' : sig'[m].slot = sig'[n].slot => m = n
    BY <2>1, <2>2, <2>3 DEF IInv, OwnInv
  <2>6. ASSUME NEW t \in SlotId, ~slot_free'[t]
        PROVE  \E n \in s_cons' + 1 .. N' : sig'[n].slot = t
    <3>1. CASE t = s
      <4>1. N + 1 \in s_cons' + 1 .. N'
        BY <1>0, <1>2, <2>1
      <4> QED
        BY <2>1, <3>1, <4>1
    <3>2. CASE t # s
      <4>1. ~slot_free[t]
        BY <1>0, <2>1, <2>6, <3>2
      <4>2. PICK n \in s_cons + 1 .. N : sig[n].slot = t
        BY <4>1 DEF IInv, OwnInv
      <4>3. n \in s_cons' + 1 .. N' /\ sig'[n] = sig[n]
        BY <1>0, <1>2, <2>1
      <4> QED
        BY <4>2, <4>3
    <3> QED
      BY <3>1, <3>2
  <2>7. pending_acks' = N' - s_cons'
    BY <1>0, <1>2, <2>1 DEF IInv, OwnInv
  <2> QED
    BY <2>4, <2>5, <2>6, <2>7 DEF OwnInv
<1>3. ASSUME PollBatch, spc # "gone" PROVE OwnInv'
  <2>1. PICK k \in 0 .. s_arr - s_cons :
           /\ s_cons' = s_cons + k
           /\ pending_acks' = pending_acks - k
           /\ slot_free' = [s \in SlotId |->
                slot_free[s] \/ \E n \in s_cons + 1 .. s_cons + k : sig[n].slot = s]
           /\ UNCHANGED sig
    BY <1>3, Harvest
  <2>2. N' = N /\ pending_acks = N - s_cons
    BY <2>1 DEF N, IInv, OwnInv
  <2>3. /\ \A n \in s_cons' + 1 .. N' : n \in s_cons + 1 .. N /\ n \in 1 .. N
        /\ \A n \in s_cons + 1 .. s_cons + k : n \in s_cons + 1 .. N
        /\ \A n \in s_cons + 1 .. s_cons + k : n \notin s_cons' + 1 .. N'
    BY <1>0, <2>1, <2>2
  <2>4. ASSUME NEW n \in s_cons' + 1 .. N' PROVE ~slot_free'[sig'[n].slot]
    <3>1. ~slot_free[sig[n].slot] /\ sig[n].slot \in SlotId
      BY <1>0, <2>3 DEF IInv, OwnInv
    <3>2. \A m \in s_cons + 1 .. s_cons + k : sig[m].slot # sig[n].slot
      BY <2>3 DEF IInv, OwnInv
    <3> QED
      BY <2>1, <3>1, <3>2
  <2>5. \A m, n \in s_cons' + 1 .. N' : sig'[m].slot = sig'[n].slot => m = n
    BY <2>1, <2>3 DEF IInv, OwnInv
  <2>6. ASSUME NEW t \in SlotId, ~slot_free'[t]
        PROVE  \E n \in s_cons' + 1 .. N' : sig'[n].slot = t
    <3>1. ~slot_free[t] /\ \A n \in s_cons + 1 .. s_cons + k : sig[n].slot # t
      BY <2>1, <2>6
    <3>2. PICK n \in s_cons + 1 .. N : sig[n].slot = t
      BY <3>1 DEF IInv, OwnInv
    <3>3. n \in s_cons' + 1 .. N'
      BY <1>0, <2>1, <2>2, <3>1, <3>2
    <3> QED
      BY <2>1, <3>2, <3>3
  <2>7. pending_acks' = N' - s_cons'
    BY <1>0, <2>1, <2>2
  <2> QED
    BY <2>4, <2>5, <2>6, <2>7 DEF OwnInv
<1>4. CASE SyncSignal
  <2>1. slot_free[0] /\ s_cons = N
    BY <1>0, <1>4, AllFree DEF SyncSignal, IInv, PhaseInv
  <2> QED
    BY <1>0, <1>2, <1>4, <2>1 DEF SyncSignal
<1>5. CASE ChunkSignal
  <2>1. slot_free[current_slot]
    BY <1>5 DEF ChunkSignal, IInv, PhaseInv
  <2> QED
    BY <1>0, <1>2, <1>5, <2>1 DEF ChunkSignal
<1>6. CASE FileMetaAcked
  <2>1. s_cons = N
    BY <1>6, SyncDone DEF FileMetaAcked
  <2>2. /\ slot_free' = [s \in SlotId |-> TRUE] /\ pending_acks' = 0
        /\ s_cons' = s_cons /\ N' = N
    BY <1>6 DEF FileMetaAcked, N
  <2> QED
    BY <1>0, <2>1, <2>2 DEF OwnInv
<1>7. CASE SyncWaitWrite \/ HarvestNonBlocking \/ HarvestBlocking
  BY <1>3, <1>7 DEF SyncWaitWrite, HarvestNonBlocking, HarvestBlocking, MustWait
<1>8. CASE \/ \E c \in SyncCmd : StartSync(c)
           \/ SyncWrite \/ LinkMetaAcked \/ SyncAcked \/ ChunkWrite \/ ChunksDone
           \/ Drained \/ SenderDestroy \/ SenderCallFails
  BY <1>1, <1>8 DEF StartSync, SyncWrite, LinkMetaAcked, SyncAcked, ChunkWrite, ChunksDone,
                    Drained, SenderDestroy, SenderCallFails, PostAckRecv
<1>9. CASE ReceiverStep \/ ReceiverCallFails \/ NicStep \/ UNCHANGED vars
  BY <1>1, <1>9, ReceiverFrame, NicFrame
<1> QED
  BY <1>4, <1>5, <1>6, <1>7, <1>8, <1>9, WhoSteps DEF SenderStep

\* Every step keeps the chunks in the slots before current_slot, in turn.
LEMMA TurnNext == IInv /\ [Next]_vars => TurnInv'
<1> SUFFICES ASSUME IInv, [Next]_vars PROVE TurnInv'
  OBVIOUS
<1>0. /\ N \in Nat /\ s_cons \in Nat /\ s_cons <= N /\ s_arr \in Nat /\ s_arr <= N
      /\ Slots \in Nat /\ Slots >= 1 /\ current_slot \in 0 .. Slots - 1
      /\ TypeOK /\ current_slot \in SlotId
  <2>1. TypeOK /\ current_slot \in SlotId /\ current_slot \in 0 .. Slots - 1
    BY DEF IInv, TypeOK, SlotId
  <2>2. s_cons <= s_arr /\ s_arr <= r_cons /\ r_cons <= r_arr /\ r_arr <= N
    BY Cuts
  <2> QED
    BY <2>1, <2>2, Numbers
<1>1. ASSUME NEW k \in Nat, s_cons' = s_cons + k, UNCHANGED <<sig, current_slot>>,
             InLoop' => InLoop
      PROVE  TurnInv'
  <2>1. \A n \in s_cons' + 1 .. N' : n \in s_cons + 1 .. N
    BY <1>0, <1>1 DEF N
  <2> QED
    BY <1>1, <2>1 DEF IInv, TurnInv, Before, N
<1>2. CASE ~InLoop'
  BY <1>2 DEF TurnInv
<1>3. CASE FileMetaAcked
  <2>1. s_cons' = N'
    BY <1>3, SyncDone DEF FileMetaAcked, N
  <2> QED
    BY <1>0, <1>3, <2>1 DEF FileMetaAcked, TurnInv, N
<1>4. CASE ChunkSignal
  <2>1. slot_free[current_slot] /\ spc = "announce"
    BY <1>4 DEF ChunkSignal, IInv, PhaseInv
  <2>2. N - s_cons < Slots
    BY <1>0, <2>1, Cuts
  <2>3. /\ N' = N + 1 /\ sig'[N + 1].slot = current_slot
        /\ \A n \in 1 .. N : sig'[n] = sig[n]
    BY <1>0, <1>4, SigAppend DEF ChunkSignal
  <2>4. s_cons' = s_cons /\ current_slot' = (current_slot + 1) % Slots
    BY <1>4 DEF ChunkSignal, ackVars
  <2>5. current_slot' = IF current_slot = Slots - 1 THEN 0 ELSE current_slot + 1
    BY <1>0, <2>4
  <2>6. ASSUME NEW n \in s_cons' + 1 .. N' PROVE sig'[n].slot = Before(N + 1 - n)'
    <3>1. n \in Nat /\ n >= s_cons + 1 /\ n <= N + 1
      BY <1>0, <2>3, <2>4
    <3>2. CASE n = N + 1
      BY <1>0, <2>3, <2>5, <3>2 DEF Before
    <3>3. CASE n <= N
      <4>1. sig'[n].slot = Before(N + 1 - n)
        BY <1>0, <2>1, <2>3, <3>1, <3>3 DEF IInv, TurnInv, InLoop
      <4> QED
        BY <1>0, <2>2, <2>3, <2>5, <3>1, <3>3, <4>1 DEF Before
    <3> QED
      BY <1>0, <3>1, <3>2, <3>3
  <2> QED
    BY <2>3, <2>6 DEF TurnInv, Before
<1>5. CASE HarvestNonBlocking \/ HarvestBlocking
  <2>1. PollBatch /\ spc # "gone" /\ (InLoop' => InLoop)
    BY <1>5 DEF InLoop, HarvestNonBlocking, HarvestBlocking, MustWait, FailPc
  <2>2. PICK k \in 0 .. s_arr - s_cons :
           s_cons' = s_cons + k /\ UNCHANGED <<sig, current_slot>>
    BY <2>1, Harvest
  <2>3. k \in Nat
    BY <1>0
  <2> QED
    BY <1>1, <2>1, <2>2, <2>3
<1>6. CASE ChunkWrite
  <2>1. s_cons' = s_cons + 0 /\ UNCHANGED <<sig, current_slot>> /\ InLoop
    BY <1>0, <1>6 DEF InLoop, ChunkWrite, PostAckRecv
  <2> QED
    BY <1>1, <2>1
<1>7. CASE \/ \E c \in SyncCmd : StartSync(c)
           \/ SyncWrite \/ SyncWaitWrite \/ SyncSignal \/ LinkMetaAcked \/ SyncAcked
           \/ ChunksDone \/ Drained \/ SenderDestroy \/ SenderCallFails
  BY <1>2, <1>7 DEF InLoop, StartSync, Build, SyncWrite, SyncWaitWrite, SyncSignal, LinkMetaAcked,
       SyncAcked, ChunksDone, Drained, SenderDestroy, SenderCallFails, FailPc
<1>8. CASE ReceiverStep \/ ReceiverCallFails \/ NicStep \/ UNCHANGED vars
  <2>1. s_cons' = s_cons + 0 /\ UNCHANGED <<sig, current_slot, spc>>
    BY <1>0, <1>8, ReceiverFrame, NicFrame
  <2> QED
    BY <1>1, <2>1 DEF InLoop
<1> QED
  BY <1>3, <1>4, <1>5, <1>6, <1>7, <1>8, WhoSteps DEF SenderStep

\* Every step keeps what holds at each point of the sender's code.
LEMMA PhaseNext == IInv /\ [Next]_vars => PhaseInv'
<1> SUFFICES ASSUME IInv, [Next]_vars PROVE PhaseInv'
  OBVIOUS
<1>0. /\ N \in Nat /\ s_cons \in Nat /\ s_cons <= s_arr /\ s_arr <= N /\ s_arr \in Nat
      /\ 0 \in SlotId /\ lbuf \in [SlotId -> Packet] /\ TypeOK /\ PhaseInv
  <2>1. TypeOK /\ lbuf \in [SlotId -> Packet] /\ PhaseInv
    BY DEF IInv, TypeOK
  <2> QED
    BY <2>1, Numbers, Cuts, SlotFacts
<1>1. ASSUME NEW c \in SyncCmd, Build(c), s_cons = N,
             UNCHANGED <<slotVars, ackVars, sig>>, N <= 1 \/ s_cons >= 1
      PROVE  PhaseInv'
  <2>1. lbuf'[0] = [n |-> N + 1, cmd |-> c] /\ spc' = "slot0" /\ job' = c /\ c # "NONE"
    BY <1>0, <1>1 DEF Build, NextPacket, N, SyncCmd
  <2> QED
    BY <1>0, <1>1, <2>1 DEF PhaseInv, SenderActive, N
<1>2. ASSUME NEW c \in SyncCmd, StartSync(c) PROVE PhaseInv'
  BY <1>0, <1>1, <1>2 DEF StartSync, PhaseInv
<1>3. CASE SyncWrite
  BY <1>0, <1>3 DEF SyncWrite, PostAckRecv, PhaseInv, SenderActive, N
<1>4. ASSUME PollBatch, spc # "gone", job' = job,
             \/ spc' = spc /\ spc # "announce"
             \/ spc' \in {"done", "failed"}
             \/ spc = "write" /\ spc' \in {"write", "signal"}
             \/ spc = "harvest" /\ spc' = "chunk"
      PROVE  PhaseInv'
  <2>1. PICK k \in 0 .. s_arr - s_cons :
           s_cons' = s_cons + k /\ UNCHANGED <<sig, lbuf>>
    BY <1>4, Harvest
  <2>2. s_cons' >= s_cons /\ s_cons' <= N /\ N' = N /\ s_cons' \in Nat
    BY <1>0, <2>1 DEF N
  <2> QED
    BY <1>0, <1>4, <2>1, <2>2 DEF PhaseInv, SenderActive
<1>5. CASE SyncWaitWrite
  BY <1>4, <1>5 DEF SyncWaitWrite, FailPc
<1>6. CASE HarvestNonBlocking
  BY <1>4, <1>6 DEF HarvestNonBlocking, FailPc
<1>7. CASE HarvestBlocking
  BY <1>4, <1>7 DEF HarvestBlocking, FailPc, MustWait
<1>8. CASE SyncSignal
  <2>1. N' = N + 1 /\ sig'[N'].slot = 0 /\ sig'[N'].cmd = job
        /\ \A n \in 1 .. N : sig'[n] = sig[n]
    BY <1>0, <1>8, SigAppend DEF SyncSignal
  <2>2. spc' = "ack" /\ job' = job /\ s_cons' = s_cons /\ s_cons = N /\ job # "NONE"
    BY <1>0, <1>8 DEF SyncSignal, PhaseInv, SenderActive, ackVars
  <2>3. \A n \in 1 .. N' : n \in 1 .. N \/ n = N'
    BY <1>0, <2>1
  <2>4. \A n \in 1 .. N' : sig'[n].cmd # "NONE"
    BY <1>0, <2>1, <2>2, <2>3 DEF PhaseInv
  <2> QED
    BY <1>0, <2>1, <2>2, <2>4 DEF PhaseInv, SenderActive
<1>9. CASE FileMetaAcked
  <2>1. s_cons = N /\ N >= 1
    BY <1>9, SyncDone DEF FileMetaAcked
  <2> QED
    BY <1>0, <1>9, <2>1 DEF FileMetaAcked, PhaseInv, SenderActive, N
<1>10. CASE LinkMetaAcked
  <2>1. s_cons = N /\ N >= 1
    BY <1>10, SyncDone DEF LinkMetaAcked
  <2> QED
    BY <1>0, <1>1, <1>10, <2>1 DEF LinkMetaAcked, SyncCmd
<1>11. CASE SyncAcked
  <2>1. s_cons = N /\ N >= 1
    BY <1>11, SyncDone DEF SyncAcked
  <2> QED
    BY <1>0, <1>11, <2>1 DEF SyncAcked, PhaseInv, SenderActive, N
<1>12. CASE ChunkWrite
  BY <1>0, <1>12 DEF ChunkWrite, PostAckRecv, PhaseInv, SenderActive, N
<1>13. CASE ChunkSignal
  <2>1. current_slot \in SlotId
    BY <1>0 DEF TypeOK
  <2>2. N' = N + 1 /\ sig'[N'].cmd = "FILE_DATA" /\ \A n \in 1 .. N : sig'[n] = sig[n]
    BY <1>0, <1>13, <2>1, SigAppend DEF ChunkSignal
  <2>3. spc' = "harvest" /\ job' = job /\ s_cons' = s_cons /\ s_cons >= 1 /\ job # "NONE"
    BY <1>0, <1>13 DEF ChunkSignal, PhaseInv, SenderActive, ackVars
  <2>4. \A n \in 1 .. N' : n \in 1 .. N \/ n = N'
    BY <1>0, <2>2
  <2>5. \A n \in 1 .. N' : sig'[n].cmd # "NONE"
    BY <1>0, <2>2, <2>4 DEF PhaseInv
  <2> QED
    BY <1>0, <2>2, <2>3, <2>5 DEF PhaseInv, SenderActive
<1>14. CASE ChunksDone \/ SenderDestroy \/ SenderCallFails
  BY <1>0, <1>14 DEF ChunksDone, SenderDestroy, SenderCallFails, FailPc, PhaseInv,
                     SenderActive, N
<1>15. CASE Drained
  <2>1. s_cons = N
    BY <1>0, <1>15 DEF Drained, IInv, OwnInv
  <2> QED
    BY <1>0, <1>15, <2>1 DEF Drained, PhaseInv, SenderActive, N
<1>16. CASE ReceiverStep \/ ReceiverCallFails \/ NicStep \/ UNCHANGED vars
  <2>1. UNCHANGED <<spc, s_cons, sig, lbuf, slot_free, current_slot, left, job>>
    BY <1>16, ReceiverFrame, NicFrame
  <2> QED
    BY <1>0, <2>1 DEF PhaseInv, SenderActive, N
<1> QED
  BY <1>2, <1>3, <1>5, <1>6, <1>7, <1>8, <1>9, <1>10, <1>11, <1>12, <1>13, <1>14, <1>15,
     <1>16, WhoSteps DEF SenderStep

-----------------------------------------------------------------------------
\* The queues: DownInv, ChainInv

\* Every step keeps the queues of a queue pair that is down empty.
LEMMA DownNext == IInv /\ [Next]_vars => DownInv'
<1> SUFFICES ASSUME IInv, [Next]_vars PROVE DownInv'
  OBVIOUS
<1>0. DownInv
  BY DEF IInv
<1>1. CASE \/ SyncWrite \/ SyncSignal \/ ChunkWrite \/ ChunkSignal
  <2>1. /\ qpS # "RTS" => sq' = sq
        /\ UNCHANGED <<qpS, receiverVars>>
    BY <1>1 DEF SyncWrite, SyncSignal, ChunkWrite, ChunkSignal, PostSend
  <2> QED
    BY <1>0, <2>1 DEF DownInv
<1>2. CASE SyncWaitWrite \/ HarvestNonBlocking \/ HarvestBlocking
  BY <1>0, <1>2 DEF SyncWaitWrite, HarvestNonBlocking, HarvestBlocking, PollBatch, DownInv
<1>3. CASE \/ \E c \in SyncCmd : StartSync(c)
           \/ FileMetaAcked \/ LinkMetaAcked \/ SyncAcked \/ ChunksDone
           \/ Drained \/ SenderCallFails
  BY <1>0, <1>3 DEF StartSync, FileMetaAcked, LinkMetaAcked, SyncAcked, ChunksDone,
                    Drained, SenderCallFails, DownInv
<1>4. CASE SenderDestroy
  BY <1>0, <1>4 DEF SenderDestroy, DownInv
<1>5. CASE ReceiverStep \/ ReceiverCallFails
  BY <1>0, <1>5 DEF ReceiverStep, ReceiverCallFails, ExtendWindow, WindowExtended, Receive,
         DropSendCompletion, Handle, Repost, SendAck, ErrorCompletion, Stop,
         ReceiverDestroy, DownInv
<1>6. CASE NicStep
  BY <1>0, <1>6 DEF NicStep, NicStepS, NicStepR, NicWrite, NicSend, NicErrorS, NicAck,
         NicErrorR, NicComplete, NicAckComplete, Connected, DownInv
<1>7. CASE UNCHANGED vars
  BY <1>0, <1>7 DEF DownInv
<1> QED
  BY <1>1, <1>2, <1>3, <1>4, <1>5, <1>6, <1>7, WhoSteps DEF SenderStep

\* The first request of the send queue is the WRITE or the SEND of the next
\* packet to arrive, and the queue goes on from there.
LEMMA QueueHead ==
  ASSUME IInv, sq # <<>>
  PROVE  /\ sq[1].n = r_arr + 1 /\ sq[1].op \in {"WRITE", "SEND"} /\ sq[1].slot \in SlotId
         /\ Idx(sq[1]) = 2 * r_arr + (IF sq[1].op = "WRITE" THEN 1 ELSE 2)
         /\ Len(sq) \in Nat /\ Len(sq) >= 1
         /\ Idx(sq[1]) + Len(sq) - 1 <= 2 * N + 1
         /\ SenderActive =>
              Idx(sq[1]) + Len(sq) - 1 = 2 * N + (IF Writing THEN 1 ELSE 0)
         /\ sq[1].op = "SEND" => r_arr + 1 <= N
         /\ Len(sq) >= 2 => r_arr + 1 <= N
<1>1. /\ sq[1].op \in {"WRITE", "SEND"} /\ sq[1].slot \in SlotId
      /\ Len(sq) >= 1 /\ Len(sq) \in Nat /\ r_arr \in Nat /\ N \in Nat
  BY HeadRequest, Numbers DEF IInv
<1>2. sq[1].n = r_arr + 1
  BY DEF IInv, QueueInv
<1>3. Idx(sq[1]) = 2 * r_arr + (IF sq[1].op = "WRITE" THEN 1 ELSE 2)
  BY <1>1, <1>2, SMTT(40) DEF Idx
<1>4. Idx(sq[Len(sq)]) = Idx(sq[1]) + Len(sq) - 1
  BY <1>1 DEF IInv, QueueInv
<1>5. /\ Idx(sq[Len(sq)]) <= 2 * N + 1
      /\ SenderActive => Idx(sq[Len(sq)]) = 2 * N + (IF Writing THEN 1 ELSE 0)
  BY DEF IInv, QueueInv
<1>6. Idx(sq[1]) \in Nat
  BY <1>1, <1>3
<1> HIDE DEF Idx
<1>7. sq[1].op = "SEND" => r_arr + 1 <= N
  BY <1>1, <1>3, <1>4, <1>5, <1>6
<1>8. Len(sq) >= 2 => r_arr + 1 <= N
  BY <1>1, <1>3, <1>4, <1>5, <1>6
<1> QED
  BY <1>1, <1>2, <1>3, <1>4, <1>5, <1>7, <1>8

\* Taking the first completion of a queue.
LEMMA RecvsTail ==
  ASSUME NEW S, NEW q \in Seq(S), q # <<>>
  PROVE  /\ Cardinality(Recvs(q)) =
              Cardinality(Recvs(Tail(q))) + (IF Head(q) = "RECV" THEN 1 ELSE 0)
         /\ Cardinality(Recvs(Tail(q))) \in Nat
<1>1. Tail(q) = SubSeq(q, 1 + 1, Len(q)) /\ 1 \in 0 .. Len(q) /\ Tail(q) \in Seq(S)
  OBVIOUS
<1>2. Cardinality(Recvs(q)) = Cardinality(Recvs(SubSeq(q, 1, 1))) + Cardinality(Recvs(Tail(q)))
  BY <1>1, RecvsSplit
<1>3. Len(SubSeq(q, 1, 1)) = 1 /\ SubSeq(q, 1, 1)[1] = Head(q)
  OBVIOUS
<1>4. Recvs(SubSeq(q, 1, 1)) = IF Head(q) = "RECV" THEN {1} ELSE {}
  BY <1>3 DEF Recvs
<1>5. Cardinality(Recvs(SubSeq(q, 1, 1))) = IF Head(q) = "RECV" THEN 1 ELSE 0
  BY <1>4, FS_Singleton, FS_EmptySet
<1>6. Cardinality(Recvs(Tail(q))) \in Nat
  BY <1>1, RecvsFinite
<1> QED
  BY <1>2, <1>5, <1>6

\* A completion of another kind does not count.
LEMMA RecvsOther ==
  ASSUME NEW S, NEW q \in Seq(S), NEW x \in S, x # "RECV"
  PROVE  Cardinality(Recvs(Append(q, x))) = Cardinality(Recvs(q))
<1>1. Len(q) \in Nat
  OBVIOUS
<1>2. Cardinality(Recvs(q)) \in Nat
  BY <1>1, RecvsFinite
<1>3. Cardinality(Recvs(Append(q, x))) = Cardinality(Recvs(q)) + 0
  BY RecvsAppend
<1> QED
  BY <1>2, <1>3

\* Every step keeps the order of the cuts and the counts of the queues.
LEMMA ChainNext == IInv /\ [Next]_vars => ChainInv'
<1> SUFFICES ASSUME IInv, [Next]_vars PROVE ChainInv'
  OBVIOUS
<1>0. /\ N \in Nat /\ s_cons \in Nat /\ s_arr \in Nat /\ r_cons \in Nat /\ r_arr \in Nat
      /\ Len(rsq) \in Nat /\ s_cons <= s_arr /\ s_arr <= r_cons /\ r_cons <= r_arr
      /\ r_arr <= N
  BY Numbers, Cuts DEF IInv
<1>1. /\ scq \in Seq({"WRITE", "SEND", "RECV", "ERR"})
      /\ rcq \in Seq({"SEND", "RECV", "ERR"}) /\ rsq \in Seq(SlotId)
      /\ sdone \in Seq({"WRITE", "SEND"}) /\ cur_slot \in SlotId /\ TypeOK
  BY DEF IInv, TypeOK
<1>2. ChainInv /\ DownInv
  BY DEF IInv
\* steps of the sender
<1>3. ASSUME UNCHANGED <<s_cons, s_arr, scq, receiverVars>>, N' \in Nat, N' >= N,
             spc' = "gone" \/ spc # "gone" \/ spc' = spc
      PROVE  ChainInv'
  BY <1>0, <1>2, <1>3 DEF ChainInv, Processing
<1>4. CASE SyncSignal \/ ChunkSignal
  <2>1. N' = N + 1
    BY <1>0, <1>1, <1>4, SigAppend, SlotFacts DEF SyncSignal, ChunkSignal, TypeOK
  <2> QED
    BY <1>0, <1>3, <1>4, <2>1 DEF SyncSignal, ChunkSignal
<1>5. CASE SyncWaitWrite \/ HarvestNonBlocking \/ HarvestBlocking
  <2>1. PollBatch /\ spc # "gone" /\ UNCHANGED receiverVars
    BY <1>5 DEF SyncWaitWrite, HarvestNonBlocking, HarvestBlocking, MustWait
  <2>2. PICK k \in 0 .. s_arr - s_cons :
          /\ s_cons' = s_cons + k
          /\ Cardinality(Recvs(scq')) = s_arr - s_cons'
          /\ UNCHANGED <<sig, s_arr>>
    BY <2>1, Harvest
  <2>3. s_cons' <= s_arr' /\ N' = N
    BY <1>0, <2>2 DEF N
  <2> QED
    BY <1>0, <1>2, <2>1, <2>2, <2>3 DEF ChainInv, Processing
<1>6. CASE \/ \E c \in SyncCmd : StartSync(c)
           \/ SyncWrite \/ FileMetaAcked \/ LinkMetaAcked \/ SyncAcked \/ ChunkWrite
           \/ ChunksDone \/ Drained \/ SenderCallFails
  <2>1. /\ UNCHANGED <<s_cons, s_arr, scq, sig, receiverVars>>
        /\ spc # "gone" \/ spc' = spc
    BY <1>6 DEF StartSync, SyncWrite, FileMetaAcked, LinkMetaAcked, SyncAcked, ChunkWrite,
                ChunksDone, Drained, SenderCallFails, PostAckRecv
  <2> QED
    BY <1>0, <1>3, <2>1 DEF N
<1>7. CASE SenderDestroy
  <2>1. spc' = "gone" /\ UNCHANGED <<s_cons, s_arr, sig, receiverVars>>
    BY <1>7 DEF SenderDestroy
  <2> QED
    BY <1>0, <1>2, <2>1 DEF ChainInv, Processing, N
\* steps of the receiver
<1>8. CASE Receive
  <2>1. /\ Cardinality(Recvs(rcq)) = Cardinality(Recvs(rcq')) + 1
        /\ Cardinality(Recvs(rcq')) \in Nat
    BY <1>1, <1>8, RecvsTail DEF Receive
  <2>2. /\ rpc = "poll" /\ rpc' = "handle" /\ r_cons' = r_cons + 1
        /\ UNCHANGED <<senderVars, r_arr, rsq, qpR>>
    BY <1>8 DEF Receive
  <2>3. Cardinality(Recvs(rcq)) = r_arr - r_cons /\ s_arr + Len(rsq) <= r_cons
        /\ (qpR = "RTS" => s_arr + Len(rsq) = r_cons)
    BY <1>2, <2>2 DEF ChainInv, Processing
  <2> QED
    BY <1>0, <1>2, <2>1, <2>2, <2>3 DEF ChainInv, Processing, N
<1>9. CASE DropSendCompletion
  <2>1. Cardinality(Recvs(rcq)) = Cardinality(Recvs(rcq'))
    <3>1. rcq # <<>> /\ Head(rcq) # "RECV" /\ rcq' = Tail(rcq)
      BY <1>9 DEF DropSendCompletion
    <3>2. /\ Cardinality(Recvs(rcq)) = Cardinality(Recvs(Tail(rcq))) + 0
          /\ Cardinality(Recvs(Tail(rcq))) \in Nat
      BY <1>1, <3>1, RecvsTail
    <3> QED
      BY <3>1, <3>2
  <2>2. rpc = "poll" /\ UNCHANGED <<senderVars, recvVars, cdcVars, rsq, qpR>>
    BY <1>9 DEF DropSendCompletion
  <2> QED
    BY <1>2, <2>1, <2>2 DEF ChainInv, Processing, N
<1>10. CASE ExtendWindow \/ WindowExtended \/ Handle \/ Repost
            \/ ErrorCompletion \/ ReceiverCallFails
  <2>1. /\ UNCHANGED <<senderVars, r_arr, r_cons, rcq, rsq, qpR>>
        /\ \/ rpc' = "stopped" /\ rpc # "gone"
           \/ Processing' = Processing
              /\ rpc \notin {"stopped", "gone"} /\ rpc' \notin {"stopped", "gone"}
    BY <1>10 DEF ExtendWindow, WindowExtended, Handle, Repost, ErrorCompletion,
                 ReceiverCallFails, Stop, PostCdcRecv, Processing
  <2> QED
    BY <1>2, <2>1 DEF ChainInv, Processing, N
<1>11. CASE SendAck
  <2>1. /\ rpc = "ack" /\ rpc' \in {"poll", "stopped"}
        /\ UNCHANGED <<senderVars, r_arr, r_cons, rcq, qpR>>
        /\ rsq' = IF qpR = "RTS" THEN Append(rsq, cur_slot) ELSE rsq
    BY <1>11 DEF SendAck
  <2>2. Len(rsq') = Len(rsq) + (IF qpR = "RTS" THEN 1 ELSE 0)
    BY <1>1, <2>1
  <2>3. /\ s_arr + Len(rsq) < r_cons
        /\ qpR = "RTS" => s_arr + Len(rsq) = r_cons - 1
    BY <1>2, <2>1 DEF ChainInv, Processing
  <2> QED
    BY <1>0, <1>2, <2>1, <2>2, <2>3 DEF ChainInv, Processing, N
<1>12. CASE ReceiverDestroy
  <2>1. /\ rpc' = "gone" /\ rsq' = <<>> /\ UNCHANGED <<senderVars, r_arr, r_cons>>
    BY <1>12 DEF ReceiverDestroy
  <2> QED
    BY <1>0, <1>2, <2>1 DEF ChainInv, Processing, N
\* steps of the adapters
<1>13. CASE NicWrite
  BY <1>2, <1>13 DEF NicWrite, ChainInv, Processing, N
<1>14. CASE NicSend
  <2>1. r_arr + 1 <= N
    BY <1>14, QueueHead DEF NicSend, TypeOK
  <2>2. Cardinality(Recvs(rcq')) = Cardinality(Recvs(rcq)) + 1
    BY <1>1, <1>14, RecvsAppend DEF NicSend
  <2>3. r_arr' = r_arr + 1 /\ UNCHANGED <<spc, s_cons, s_arr, scq, sig, recvVars, r_cons, rsq, qpR>>
    BY <1>14 DEF NicSend
  <2> QED
    BY <1>0, <1>2, <2>1, <2>2, <2>3 DEF ChainInv, Processing, N
<1>15. CASE NicComplete
  <2>1. Cardinality(Recvs(scq')) = Cardinality(Recvs(scq))
    <3>1. Head(sdone) \in {"WRITE", "SEND"} /\ scq' = Append(scq, Head(sdone))
      BY <1>1, <1>15 DEF NicComplete
    <3> QED
      BY <1>1, <3>1, RecvsOther
  <2>2. UNCHANGED <<spc, s_cons, s_arr, sig, receiverVars>>
    BY <1>15 DEF NicComplete
  <2> QED
    BY <1>2, <2>1, <2>2 DEF ChainInv, Processing, N
<1>16. CASE NicAck
  <2>1. Cardinality(Recvs(scq')) = Cardinality(Recvs(scq)) + 1
    BY <1>1, <1>16, RecvsAppend DEF NicAck
  <2>2. Len(rsq') = Len(rsq) - 1 /\ Len(rsq) >= 1
    BY <1>1, <1>16 DEF NicAck
  <2>3. /\ s_arr' = s_arr + 1
        /\ UNCHANGED <<spc, s_cons, sig, recvVars, r_cons, r_arr, rcq, qpR>>
    BY <1>16 DEF NicAck
  <2> QED
    BY <1>0, <1>2, <2>1, <2>2, <2>3 DEF ChainInv, Processing, N
<1>17. CASE NicAckComplete
  <2>1. rcq' = Append(rcq, "SEND")
    BY <1>17 DEF NicAckComplete
  <2>2. Cardinality(Recvs(rcq')) = Cardinality(Recvs(rcq))
    BY <1>1, <2>1, RecvsOther
  <2>3. UNCHANGED <<senderVars, recvVars, cdcVars, rsq, qpR>>
    BY <1>17 DEF NicAckComplete
  <2> QED
    BY <1>2, <2>2, <2>3 DEF ChainInv, Processing, N
<1>18. CASE NicErrorS
  <2>1. scq' = Append(scq, "ERR")
    BY <1>18 DEF NicErrorS
  <2>2. Cardinality(Recvs(scq')) = Cardinality(Recvs(scq))
    BY <1>1, <2>1, RecvsOther, SMTT(40)
  <2>3. UNCHANGED <<spc, s_cons, s_arr, sig, receiverVars>>
    BY <1>18 DEF NicErrorS
  <2> QED
    BY <1>2, <2>2, <2>3 DEF ChainInv, Processing, N
<1>19. CASE NicErrorR
  <2>1. rcq' = Append(rcq, "ERR")
    BY <1>19 DEF NicErrorR
  <2>2. Cardinality(Recvs(rcq')) = Cardinality(Recvs(rcq))
    BY <1>1, <2>1, RecvsOther
  <2>3. qpR' = "ERR" /\ rsq' = <<>> /\ UNCHANGED <<senderVars, recvVars, cdcVars>>
    BY <1>19 DEF NicErrorR
  <2> QED
    BY <1>0, <1>2, <2>2, <2>3 DEF ChainInv, Processing, N
<1>20. CASE UNCHANGED vars
  BY <1>2, <1>20 DEF ChainInv, Processing, N
<1> QED
  BY <1>4, <1>5, <1>6, <1>7, <1>8, <1>9, <1>10, <1>11, <1>12, <1>13, <1>14, <1>15, <1>16,
     <1>17, <1>18, <1>19, <1>20, WhoSteps
     DEF SenderStep, ReceiverStep, NicStep, NicStepS, NicStepR

-----------------------------------------------------------------------------
\* The send queue: QueueInv

\* What an entry of the send queue may be.
LEMMA QueueItems ==
  ASSUME IInv, NEW i \in 1 .. Len(sq)
  PROVE  /\ sq[i].op \in {"WRITE", "SEND"} /\ sq[i].slot \in SlotId /\ sq[i].n \in Nat
         /\ r_arr + 1 <= sq[i].n /\ sq[i].n <= N + 1
         /\ sq[i].n = N + 1 => sq[i].op = "WRITE"
         /\ sq[i].n <= N => sq[i].slot = sig[sq[i].n].slot /\ ~slot_free[sq[i].slot]
         /\ SenderActive /\ ~Writing => sq[i].n <= N
         /\ Idx(sq[i]) \in Int /\ Idx(sq[i]) = Idx(sq[1]) + i - 1
<1>1. /\ N \in Nat /\ r_arr \in Nat /\ s_cons \in Nat /\ Len(sq) \in Nat
      /\ s_cons <= s_arr /\ s_arr <= r_cons /\ r_cons <= r_arr
      /\ s_arr \in Nat /\ r_cons \in Nat
  BY Numbers, Cuts DEF IInv
<1>2. sq \in Seq(WorkRequest) /\ sq # <<>> /\ sq[i] \in WorkRequest
  BY DEF IInv, TypeOK
<1>3. sq[i].op \in {"WRITE", "SEND"} /\ sq[i].slot \in SlotId /\ sq[i].n \in Nat
  BY <1>2 DEF WorkRequest
<1>4. /\ Idx(sq[1]) = 2 * r_arr + (IF sq[1].op = "WRITE" THEN 1 ELSE 2)
      /\ Idx(sq[1]) + Len(sq) - 1 <= 2 * N + 1
      /\ SenderActive => Idx(sq[1]) + Len(sq) - 1 = 2 * N + (IF Writing THEN 1 ELSE 0)
  BY <1>2, QueueHead
<1>5. Idx(sq[i]) = Idx(sq[1]) + i - 1
  BY DEF IInv, QueueInv
<1>6. Idx(sq[i]) = IF sq[i].op = "WRITE" THEN 2 * sq[i].n - 1 ELSE 2 * sq[i].n
  BY DEF Idx
<1>7. Idx(sq[1]) \in Int
  BY <1>1, <1>4
<1> HIDE DEF Idx
<1>8. /\ Idx(sq[i]) \in Int
      /\ Idx(sq[i]) >= 2 * r_arr + 1 /\ Idx(sq[i]) <= 2 * N + 1
      /\ SenderActive /\ ~Writing => Idx(sq[i]) <= 2 * N
  BY <1>1, <1>4, <1>5, <1>7
<1>9. /\ r_arr + 1 <= sq[i].n /\ sq[i].n <= N + 1
      /\ sq[i].n = N + 1 => sq[i].op = "WRITE"
      /\ SenderActive /\ ~Writing => sq[i].n <= N
  BY <1>1, <1>3, <1>6, <1>8, SMTT(40)
<1>10. sq[i].n <= N => sq[i].slot = sig[sq[i].n].slot
  BY DEF IInv, QueueInv
<1>11. sq[i].n <= N => sq[i].n \in s_cons + 1 .. N
  BY <1>1, <1>3, <1>9
<1>12. sq[i].n <= N => ~slot_free[sq[i].slot]
  BY <1>10, <1>11 DEF IInv, OwnInv
<1> QED
  BY <1>3, <1>5, <1>8, <1>9, <1>10, <1>12

\* Nothing is queued when nothing is pending and nothing is being written.
LEMMA QueueEmpty ==
  ASSUME IInv, s_cons = N, SenderActive, ~Writing
  PROVE  sq = <<>>
<1> SUFFICES ASSUME sq # <<>> PROVE FALSE
  OBVIOUS
<1>1. 1 \in 1 .. Len(sq) /\ r_arr = N /\ N \in Nat
  BY QueueHead, AllFree, Numbers DEF IInv
<1>2. r_arr + 1 <= sq[1].n /\ sq[1].n <= N /\ sq[1].n \in Nat
  BY <1>1, QueueItems
<1> QED
  BY <1>1, <1>2

\* A step that leaves the queue, its packets and their slots alone keeps QueueInv.
LEMMA QueueKept ==
  ASSUME IInv,
         UNCHANGED <<sq, sig, qpS, r_arr>>,
         \A s \in SlotId : slot_free[s] => slot_free'[s],
         SenderActive' => /\ SenderActive /\ (Writing' <=> Writing)
                          /\ Writing => WritingSlot' = WritingSlot /\ WritingPk' = WritingPk,
         \A i \in 1 .. Len(sq) : lbuf'[sq[i].slot] = lbuf[sq[i].slot]
  PROVE  QueueInv'
<1>0. QueueInv /\ N' = N
  BY DEF IInv, N
<1>1. sq' # <<>> => sq'[1].n = r_arr' + 1
  BY <1>0 DEF QueueInv
<1>2. \A i \in 1 .. Len(sq') : Idx(sq'[i]) = Idx(sq'[1]) + i - 1
  BY <1>0 DEF QueueInv
<1>3. sq' # <<>> => /\ Idx(sq'[Len(sq')]) <= 2 * N' + 1
                    /\ SenderActive' => Idx(sq'[Len(sq')]) = 2 * N' + (IF Writing' THEN 1 ELSE 0)
  BY <1>0 DEF QueueInv
<1>4. SenderActive' /\ qpS' = "RTS" /\ sq' = <<>> => r_arr' = N'
  BY <1>0 DEF QueueInv
<1>5. ASSUME NEW i \in 1 .. Len(sq')
      PROVE  /\ sq'[i].n <= N' => /\ sq'[i].slot = sig'[sq'[i].n].slot
                                  /\ sq'[i].op = "WRITE" => lbuf'[sq'[i].slot] = [n |-> sq'[i].n, cmd |-> sig'[sq'[i].n].cmd]
             /\ sq'[i].n > N' => /\ slot_free'[sq'[i].slot]
                                 /\ lbuf'[sq'[i].slot].n = sq'[i].n
                                 /\ SenderActive' => /\ sq'[i].slot = WritingSlot'
                                                     /\ lbuf'[sq'[i].slot] = WritingPk'
  <2>1. i \in 1 .. Len(sq) /\ sq'[i] = sq[i]
    BY <1>5
  <2>2. /\ sq[i].n <= N => /\ sq[i].slot = sig[sq[i].n].slot
                           /\ sq[i].op = "WRITE" => lbuf[sq[i].slot] = Pk(sq[i].n)
        /\ sq[i].n > N => /\ slot_free[sq[i].slot]
                          /\ lbuf[sq[i].slot].n = sq[i].n
                          /\ SenderActive => /\ sq[i].slot = WritingSlot
                                             /\ lbuf[sq[i].slot] = WritingPk
    BY <1>0, <2>1 DEF QueueInv
  <2>3. /\ sq[i].slot \in SlotId /\ N \in Nat /\ sq[i].n \in Nat
        /\ SenderActive /\ ~Writing => sq[i].n <= N
    BY <2>1, QueueItems, Numbers DEF IInv
  <2>4. SenderActive /\ ~Writing => ~(sq[i].n > N)
    BY <2>3
  <2>5. lbuf'[sq[i].slot] = lbuf[sq[i].slot]
    BY <2>1
  <2>6. sq[i].op = "WRITE" /\ sq[i].n <= N =>
          lbuf'[sq[i].slot] = [n |-> sq[i].n, cmd |-> sig[sq[i].n].cmd]
    BY <2>2, <2>5 DEF Pk
  <2>7. slot_free[sq[i].slot] => slot_free'[sq[i].slot]
    BY <2>3
  <2>8. CASE sq[i].n <= N
    BY <1>0, <2>1, <2>2, <2>3, <2>6, <2>8
  <2>9. CASE sq[i].n > N
    <3>1. /\ slot_free'[sq[i].slot] /\ lbuf'[sq[i].slot].n = sq[i].n
          /\ SenderActive' => /\ sq[i].slot = WritingSlot'
                              /\ lbuf'[sq[i].slot] = WritingPk'
      BY <2>2, <2>4, <2>5, <2>7, <2>9
    <3>2. ~(sq[i].n <= N)
      BY <2>3, <2>9
    <3> QED
      BY <1>0, <2>1, <3>1, <3>2
  <2> QED
    BY <2>3, <2>8, <2>9
<1> QED
  BY <1>1, <1>2, <1>3, <1>4, <1>5 DEF QueueInv, Pk

\* The queue is dropped, and nothing is posted to it any more.
LEMMA QueueDropped ==
  ASSUME sq' = <<>>, ~SenderActive' \/ qpS' # "RTS"
  PROVE  QueueInv'
  BY DEF QueueInv

\* Posting the WRITE of the next packet keeps QueueInv.
LEMMA QueueWrite ==
  ASSUME IInv, NEW s \in SlotId, slot_free[s], SenderActive, ~Writing,
         PostSend("WRITE", s), UNCHANGED <<sig, qpS, r_arr, slot_free>>,
         SenderActive', Writing', WritingSlot' = s, lbuf'[s] = WritingPk',
         WritingPk'.n = N + 1, \A t \in SlotId \ {s} : lbuf'[t] = lbuf[t]
  PROVE  QueueInv'
<1> DEFINE e == [op |-> "WRITE", slot |-> s, n |-> N + 1]
           m == Len(sq)
<1>0. QueueInv /\ DownInv /\ N' = N /\ N \in Nat /\ m \in Nat /\ r_arr \in Nat
  BY Numbers DEF IInv, N
<1>1. CASE qpS # "RTS"
  <2>1. sq' = <<>>
    BY <1>0, <1>1 DEF PostSend, DownInv
  <2> QED
    BY <1>1, <2>1, QueueDropped
<1>2. CASE qpS = "RTS"
  <2>1. sq' = Append(sq, e)
    BY <1>2 DEF PostSend, N
  <2>2. sq \in Seq(WorkRequest)
    BY DEF IInv, TypeOK
  <2>3. /\ Len(sq') = m + 1 /\ sq'[m + 1] = e /\ sq' # <<>>
        /\ \A i \in 1 .. m : sq'[i] = sq[i]
    BY <2>1, <2>2
  <2>4. Idx(e) = 2 * N + 1
    BY <1>0 DEF Idx
  <2>5. CASE sq = <<>>
    <3>1. m = 0 /\ r_arr = N
      BY <1>0, <1>2, <2>5 DEF QueueInv
    <3>2. Len(sq') = 1 /\ sq'[1] = e /\ \A i \in 1 .. Len(sq') : i = 1
      BY <2>3, <3>1
    <3>3. \A i \in 1 .. Len(sq') : Idx(sq'[i]) = Idx(sq'[1]) + i - 1
      BY <1>0, <2>4, <3>2
    <3>4. e.n = N + 1 /\ e.slot = s /\ ~(N + 1 <= N)
      BY <1>0
    <3> QED
      BY <1>0, <2>3, <2>4, <3>1, <3>2, <3>3, <3>4 DEF QueueInv
  <2>6. CASE sq # <<>>
    <3>1. /\ m >= 1 /\ Idx(sq[1]) \in Int /\ Idx(sq[1]) + m - 1 = 2 * N
          /\ sq[1].n = r_arr + 1 /\ 1 \in 1 .. m
      <4>1. /\ Len(sq) >= 1 /\ Idx(sq[1]) + m - 1 = 2 * N + 0 /\ sq[1].n = r_arr + 1
        BY <2>6, QueueHead
      <4>2. Idx(sq[1]) \in Int
        BY <1>0, <4>1, QueueItems
      <4> QED
        BY <1>0, <4>1, <4>2
    <3>2. \A i \in 1 .. m : Idx(sq[i]) = Idx(sq[1]) + i - 1
      BY <1>0 DEF QueueInv
    <3>3. \A i \in 1 .. Len(sq') : i \in 1 .. m \/ i = m + 1
      BY <1>0, <2>3
    <3>4. sq'[1] = sq[1]
      BY <2>3, <3>1
    <3>5. ASSUME NEW i \in 1 .. Len(sq') PROVE Idx(sq'[i]) = Idx(sq'[1]) + i - 1
      <4>1. CASE i \in 1 .. m
        <5>1. Idx(sq[i]) = Idx(sq[1]) + i - 1 /\ sq'[i] = sq[i]
          BY <2>3, <3>2, <4>1
        <5> QED
          BY <3>4, <5>1
      <4>2. CASE i = m + 1
        <5>1. sq'[i] = e
          BY <2>3, <4>2
        <5>2. Idx(sq[1]) + (m + 1) - 1 = 2 * N + 1
          BY <1>0, <3>1
        <5> QED
          BY <2>4, <3>4, <4>2, <5>1, <5>2
      <4> QED
        BY <3>3, <4>1, <4>2
    <3>6. ASSUME NEW i \in 1 .. m
          PROVE  /\ sq'[i].n <= N /\ sq'[i].slot = sig'[sq'[i].n].slot
                 /\ sq'[i].op = "WRITE" => lbuf'[sq'[i].slot] = [n |-> sq'[i].n, cmd |-> sig'[sq'[i].n].cmd]
      <4>1. /\ sq[i].n <= N /\ sq[i].slot = sig[sq[i].n].slot /\ sq[i].slot \in SlotId
            /\ sq[i].slot # s
        BY <1>0, QueueItems
      <4>2. sq[i].op = "WRITE" => lbuf[sq[i].slot] = Pk(sq[i].n)
        BY <1>0, <4>1 DEF QueueInv
      <4>3. lbuf'[sq[i].slot] = lbuf[sq[i].slot] /\ sq'[i] = sq[i]
        BY <2>3, <4>1
      <4> QED
        <5>1. sq'[i] = sq[i] /\ sig' = sig
          BY <4>3
        <5>2. sq[i].op = "WRITE" =>
                lbuf'[sq[i].slot] = [n |-> sq[i].n, cmd |-> sig[sq[i].n].cmd]
          BY <4>2, <4>3, <4>1 DEF Pk
        <5> QED
          BY <4>1, <5>1, <5>2
    <3>7. e.n = N + 1 /\ e.slot = s /\ ~(N + 1 <= N)
      BY <1>0
    <3>8. \A i \in 1 .. m : sq'[i].n <= N /\ ~(sq'[i].n > N)
      <4> SUFFICES ASSUME NEW i \in 1 .. m PROVE sq'[i].n <= N /\ ~(sq'[i].n > N)
        OBVIOUS
      <4>1. sq'[i] = sq[i] /\ sq[i].n \in Nat /\ sq[i].n <= N
        BY <1>0, <2>3, QueueItems
      <4> QED
        BY <1>0, <4>1
    <3>9. ASSUME NEW i \in 1 .. Len(sq')
          PROVE  /\ sq'[i].n <= N' => /\ sq'[i].slot = sig'[sq'[i].n].slot
                                      /\ sq'[i].op = "WRITE" => lbuf'[sq'[i].slot] = [n |-> sq'[i].n, cmd |-> sig'[sq'[i].n].cmd]
                 /\ sq'[i].n > N' => /\ slot_free'[sq'[i].slot]
                                     /\ lbuf'[sq'[i].slot].n = sq'[i].n
                                     /\ SenderActive' => /\ sq'[i].slot = WritingSlot'
                                                         /\ lbuf'[sq'[i].slot] = WritingPk'
      <4>1. CASE i \in 1 .. m
        BY <1>0, <3>6, <3>8, <4>1
      <4>2. CASE i = m + 1
        <5>1. sq'[i] = e
          BY <2>3, <4>2
        <5> QED
          BY <1>0, <3>7, <5>1
      <4> QED
        BY <3>3, <4>1, <4>2
    <3>10. sq'[Len(sq')] = e
      BY <2>3
    <3>11. sq'[1].n = r_arr' + 1
      BY <3>1, <3>4
    <3> QED
      BY <1>0, <2>3, <2>4, <3>5, <3>9, <3>10, <3>11 DEF QueueInv, Pk
  <2> QED
    BY <2>5, <2>6
<1> QED
  BY <1>1, <1>2

\* Posting the SEND that announces the packet keeps QueueInv.
LEMMA QueueSend ==
  ASSUME IInv, NEW s \in SlotId, NEW c, SenderActive, Writing, s = WritingSlot,
         WritingPk = [n |-> N + 1, cmd |-> c],
         PostSend("SEND", s), MarkBusy(s, c), UNCHANGED <<lbuf, qpS, r_arr>>,
         SenderActive', ~Writing'
  PROVE  QueueInv'
<1> DEFINE e == [op |-> "SEND", slot |-> s, n |-> N + 1]
           m == Len(sq)
<1>0. QueueInv /\ DownInv /\ N \in Nat /\ m \in Nat /\ r_arr \in Nat
  BY Numbers DEF IInv
<1>1. /\ N' = N + 1 /\ sig'[N + 1].slot = s /\ sig'[N + 1].cmd = c
      /\ \A n \in 1 .. N : sig'[n] = sig[n]
  <2>1. TypeOK
    BY DEF IInv
  <2>2. N' = N + 1 /\ sig'[N + 1] = [slot |-> s, cmd |-> c] /\ \A n \in 1 .. N : sig'[n] = sig[n]
    BY <2>1, SigAppend
  <2> QED
    BY <2>2
<1>2. CASE qpS # "RTS"
  <2>1. sq' = <<>>
    BY <1>0, <1>2 DEF PostSend, DownInv
  <2> QED
    BY <1>2, <2>1, QueueDropped
<1>3. CASE qpS = "RTS"
  <2>1. sq' = Append(sq, e) /\ sq \in Seq(WorkRequest)
    BY <1>3 DEF PostSend, N, IInv, TypeOK
  <2>2. /\ Len(sq') = m + 1 /\ sq'[m + 1] = e /\ sq' # <<>>
        /\ \A i \in 1 .. m : sq'[i] = sq[i]
    BY <2>1
  <2>3. Idx(e) = 2 * N + 2
    BY <1>0 DEF Idx
  <2>4. \A i \in 1 .. Len(sq') : i \in 1 .. m \/ i = m + 1
    BY <1>0, <2>2
  <2>5. ASSUME NEW i \in 1 .. m
        PROVE  /\ sq'[i].n <= N' /\ ~(sq'[i].n > N') /\ sq'[i].slot = sig'[sq'[i].n].slot
               /\ sq'[i].op = "WRITE" =>
                    lbuf'[sq'[i].slot] = [n |-> sq'[i].n, cmd |-> sig'[sq'[i].n].cmd]
    <3>1. sq'[i] = sq[i] /\ lbuf' = lbuf
      BY <2>2
    <3>2. /\ sq[i].n \in Nat /\ r_arr + 1 <= sq[i].n /\ sq[i].n <= N + 1
      BY QueueItems
    <3>3. CASE sq[i].n <= N
      <4>1. sq[i].slot = sig[sq[i].n].slot /\ (sq[i].op = "WRITE" => lbuf[sq[i].slot] = Pk(sq[i].n))
        BY <1>0, <3>3 DEF QueueInv
      <4>2. sig'[sq[i].n] = sig[sq[i].n] /\ sq[i].n <= N' /\ ~(sq[i].n > N')
        BY <1>0, <1>1, <3>2, <3>3
      <4> QED
        BY <3>1, <4>1, <4>2 DEF Pk
    <3>4. CASE sq[i].n = N + 1
      <4>1. sq[i].n > N
        BY <1>0, <3>4
      <4>2. sq[i].slot = WritingSlot /\ lbuf[sq[i].slot] = WritingPk
        BY <1>0, <4>1 DEF QueueInv
      <4>3. sq[i].n <= N' /\ ~(sq[i].n > N')
        BY <1>0, <1>1, <3>4
      <4> QED
        BY <1>1, <3>1, <3>4, <4>2, <4>3
    <3> QED
      BY <1>0, <3>2, <3>3, <3>4
  <2>6. e.n = N' /\ e.slot = sig'[N'].slot /\ e.op = "SEND" /\ N' <= N' /\ ~(N' > N')
    BY <1>0, <1>1
  <2>7. ASSUME NEW i \in 1 .. Len(sq')
        PROVE  /\ sq'[i].n <= N' => /\ sq'[i].slot = sig'[sq'[i].n].slot
                                    /\ sq'[i].op = "WRITE" => lbuf'[sq'[i].slot] = [n |-> sq'[i].n, cmd |-> sig'[sq'[i].n].cmd]
               /\ sq'[i].n > N' => /\ slot_free'[sq'[i].slot]
                                   /\ lbuf'[sq'[i].slot].n = sq'[i].n
                                   /\ SenderActive' => /\ sq'[i].slot = WritingSlot'
                                                       /\ lbuf'[sq'[i].slot] = WritingPk'
    <3>1. CASE i \in 1 .. m
      BY <2>5, <3>1
    <3>2. CASE i = m + 1
      <4>1. sq'[i] = e
        BY <2>2, <3>2
      <4> HIDE DEF e
      <4> QED
        BY <2>6, <4>1
    <3> QED
      BY <2>4, <3>1, <3>2
  <2>8. sq'[Len(sq')] = e /\ Idx(e) <= 2 * N' + 1 /\ Idx(e) = 2 * N' + 0
    BY <1>0, <1>1, <2>2, <2>3
  <2>9. CASE sq = <<>>
    <3>1. m = 0 /\ r_arr = N
      BY <1>0, <1>3, <2>9 DEF QueueInv
    <3>2. Len(sq') = 1 /\ sq'[1] = e /\ \A i \in 1 .. Len(sq') : i = 1
      BY <2>2, <3>1
    <3>3. \A i \in 1 .. Len(sq') : Idx(sq'[i]) = Idx(sq'[1]) + i - 1
      BY <1>0, <2>3, <3>2
    <3>4. sq'[1].n = r_arr' + 1
      BY <1>1, <2>6, <3>1, <3>2
    <3> QED
      BY <2>2, <2>7, <2>8, <3>3, <3>4 DEF QueueInv, Pk
  <2>10. CASE sq # <<>>
    <3>1. /\ m >= 1 /\ Idx(sq[1]) \in Int /\ Idx(sq[1]) + m - 1 = 2 * N + 1
          /\ sq[1].n = r_arr + 1 /\ 1 \in 1 .. m
      <4>1. Len(sq) >= 1 /\ Idx(sq[1]) + m - 1 = 2 * N + 1 /\ sq[1].n = r_arr + 1
        BY <2>10, QueueHead
      <4>2. Idx(sq[1]) \in Int
        BY <1>0, <4>1, QueueItems
      <4> QED
        BY <1>0, <4>1, <4>2
    <3>2. \A i \in 1 .. m : Idx(sq[i]) = Idx(sq[1]) + i - 1
      BY <1>0 DEF QueueInv
    <3>3. sq'[1] = sq[1]
      BY <2>2, <3>1
    <3>4. ASSUME NEW i \in 1 .. Len(sq') PROVE Idx(sq'[i]) = Idx(sq'[1]) + i - 1
      <4>1. CASE i \in 1 .. m
        <5>1. Idx(sq[i]) = Idx(sq[1]) + i - 1 /\ sq'[i] = sq[i]
          BY <2>2, <3>2, <4>1
        <5> QED
          BY <3>3, <5>1
      <4>2. CASE i = m + 1
        <5>1. sq'[i] = e
          BY <2>2, <4>2
        <5>2. Idx(sq[1]) + (m + 1) - 1 = 2 * N + 2
          BY <1>0, <3>1, SMTT(40)
        <5> QED
          BY <2>3, <3>3, <4>2, <5>1, <5>2
      <4> QED
        BY <2>4, <4>1, <4>2
    <3>5. sq'[1].n = r_arr' + 1
      BY <3>1, <3>3
    <3> QED
      BY <2>2, <2>7, <2>8, <3>4, <3>5 DEF QueueInv, Pk
  <2> QED
    BY <2>9, <2>10
<1> QED
  BY <1>2, <1>3

\* Executing the first entry of the send queue keeps QueueInv.
LEMMA QueueTail ==
  ASSUME IInv, sq # <<>>, sq' = Tail(sq),
         UNCHANGED <<sendVars, slotVars, lbuf, sig, qpS>>,
         r_arr' = r_arr + (IF sq[1].op = "SEND" THEN 1 ELSE 0)
  PROVE  QueueInv'
<1> DEFINE m == Len(sq)
<1>0. QueueInv /\ N' = N /\ N \in Nat /\ m \in Nat /\ r_arr \in Nat
  BY Numbers DEF IInv, N
<1>1. /\ m >= 1 /\ Len(sq') = m - 1 /\ \A i \in 1 .. m - 1 : sq'[i] = sq[i + 1]
      /\ 1 \in 1 .. m
  <2>1. TypeOK
    BY DEF IInv
  <2> QED
    BY <1>0, <2>1, HeadRequest
<1>2. /\ sq[1].op \in {"WRITE", "SEND"} /\ Idx(sq[1]) \in Int
      /\ Idx(sq[1]) = 2 * r_arr + (IF sq[1].op = "WRITE" THEN 1 ELSE 2)
      /\ Idx(sq[1]) + m - 1 <= 2 * N + 1
      /\ SenderActive => Idx(sq[1]) + m - 1 = 2 * N + (IF Writing THEN 1 ELSE 0)
  BY <1>1, QueueHead, QueueItems
<1>3. \A i \in 1 .. m - 1 : i + 1 \in 1 .. m
  BY <1>0
<1>4. \A i \in 1 .. m : Idx(sq[i]) = Idx(sq[1]) + i - 1
  BY <1>0 DEF QueueInv
<1>5. SenderActive' = SenderActive /\ (Writing' <=> Writing)
      /\ WritingSlot' = WritingSlot /\ WritingPk' = WritingPk
  BY <1>0 DEF SenderActive, Writing, WritingSlot, WritingPk
<1>6. ASSUME NEW i \in 1 .. Len(sq')
      PROVE  /\ sq'[i].n <= N' => /\ sq'[i].slot = sig'[sq'[i].n].slot
                                  /\ sq'[i].op = "WRITE" => lbuf'[sq'[i].slot] = [n |-> sq'[i].n, cmd |-> sig'[sq'[i].n].cmd]
             /\ sq'[i].n > N' => /\ slot_free'[sq'[i].slot]
                                 /\ lbuf'[sq'[i].slot].n = sq'[i].n
                                 /\ SenderActive' => /\ sq'[i].slot = WritingSlot'
                                                     /\ lbuf'[sq'[i].slot] = WritingPk'
  <2>1. sq'[i] = sq[i + 1] /\ i + 1 \in 1 .. Len(sq)
    BY <1>1, <1>3
  <2>2. /\ sq[i + 1].n <= N =>
             /\ sq[i + 1].slot = sig[sq[i + 1].n].slot
             /\ sq[i + 1].op = "WRITE" =>
                  lbuf[sq[i + 1].slot] = [n |-> sq[i + 1].n, cmd |-> sig[sq[i + 1].n].cmd]
        /\ sq[i + 1].n > N =>
             /\ slot_free[sq[i + 1].slot]
             /\ lbuf[sq[i + 1].slot].n = sq[i + 1].n
             /\ SenderActive => /\ sq[i + 1].slot = WritingSlot
                                /\ lbuf[sq[i + 1].slot] = WritingPk
    BY <1>0, <2>1 DEF QueueInv, Pk
  <2> QED
    BY <1>0, <1>5, <2>1, <2>2
<1>7. CASE m = 1
  <2>1. sq' = <<>>
    <3>1. sq \in Seq(WorkRequest)
      BY DEF IInv, TypeOK
    <3> QED
      BY <1>7, <3>1
  <2>2. SenderActive => r_arr' = N
    BY <1>0, <1>2, <1>7
  <2> QED
    <3>1. \A i \in 1 .. Len(sq') : FALSE
      <4>1. Len(sq') = 0
        BY <1>0, <1>1, <1>7
      <4> QED
        BY <4>1, SMTT(40)
    <3>2. SenderActive' /\ qpS' = "RTS" /\ sq' = <<>> => r_arr' = N'
      BY <1>0, <1>5, <2>2
    <3> QED
      BY <2>1, <3>1, <3>2 DEF QueueInv
<1>8. CASE m >= 2
  <2>1. sq'[1] = sq[2] /\ 2 \in 1 .. m /\ Idx(sq[2]) = Idx(sq[1]) + 2 - 1 /\ sq' # <<>>
    BY <1>0, <1>1, <1>4, <1>8
  <2>2. sq[2].op \in {"WRITE", "SEND"} /\ sq[2].n \in Nat
        /\ Idx(sq[2]) = IF sq[2].op = "WRITE" THEN 2 * sq[2].n - 1 ELSE 2 * sq[2].n
    BY <2>1, QueueItems DEF Idx
  <2>3. sq[2].n = r_arr' + 1
    <3>1. CASE sq[1].op = "WRITE"
      <4>1. r_arr' = r_arr /\ Idx(sq[2]) = 2 * r_arr + 2
        BY <1>0, <1>2, <2>1, <3>1
      <4> QED
        BY <1>0, <2>2, <4>1
    <3>2. CASE sq[1].op = "SEND"
      <4>1. r_arr' = r_arr + 1 /\ Idx(sq[2]) = 2 * r_arr + 3
        BY <1>0, <1>2, <2>1, <3>2
      <4> QED
        BY <1>0, <2>2, <4>1
    <3> QED
      BY <1>2, <3>1, <3>2
  <2>4. ASSUME NEW i \in 1 .. Len(sq') PROVE Idx(sq'[i]) = Idx(sq'[1]) + i - 1
    <3>1. i \in 1 .. m - 1 /\ i + 1 \in 1 .. m /\ sq'[i] = sq[i + 1]
      BY <1>1, <1>3
    <3>2. Idx(sq[i + 1]) = Idx(sq[1]) + (i + 1) - 1
      BY <1>4, <3>1
    <3> QED
      BY <1>2, <2>1, <3>1, <3>2
  <2>5. sq'[Len(sq')] = sq[m] /\ Idx(sq[m]) = Idx(sq[1]) + m - 1
    <3>1. m - 1 \in 1 .. m - 1 /\ m \in 1 .. m /\ (m - 1) + 1 = m
      BY <1>0, <1>8
    <3> QED
      BY <1>1, <1>4, <3>1
  <2>6. /\ Idx(sq'[Len(sq')]) <= 2 * N' + 1
        /\ SenderActive' => Idx(sq'[Len(sq')]) = 2 * N' + (IF Writing' THEN 1 ELSE 0)
    BY <1>0, <1>2, <1>5, <2>5
  <2> QED
    BY <1>6, <2>1, <2>3, <2>4, <2>6 DEF QueueInv, Pk
<1> QED
  BY <1>0, <1>1, <1>7, <1>8

\* Every step keeps the order and the contents of the send queue.
LEMMA QueueNext == IInv /\ [Next]_vars => QueueInv'
<1> SUFFICES ASSUME IInv, [Next]_vars PROVE QueueInv'
  OBVIOUS
<1>0. /\ 0 \in SlotId /\ current_slot \in SlotId /\ TypeOK /\ PhaseInv
      /\ N \in Nat /\ lbuf \in [SlotId -> Packet] /\ slot_free \in [SlotId -> BOOLEAN]
  <2>1. current_slot \in SlotId /\ TypeOK /\ PhaseInv /\ lbuf \in [SlotId -> Packet]
        /\ slot_free \in [SlotId -> BOOLEAN]
    BY DEF IInv, TypeOK
  <2> QED
    BY <2>1, SlotFacts, Numbers
<1>1. ASSUME s_cons = N, SenderActive, ~Writing,
             UNCHANGED <<sq, sig, qpS, r_arr>>, ~Writing' \/ ~SenderActive'
      PROVE  QueueInv'
  <2>1. sq = <<>> /\ r_arr = N /\ N' = N
    BY <1>1, QueueEmpty, AllFree DEF N
  <2> QED
    BY <1>1, <2>1 DEF QueueInv
<1>2. CASE \E c \in SyncCmd : StartSync(c)
  <2>1. spc = "idle" /\ spc' = "slot0" /\ UNCHANGED <<sq, sig, qpS, r_arr>>
    BY <1>2 DEF StartSync, Build
  <2> QED
    BY <1>0, <1>1, <2>1 DEF PhaseInv, SenderActive, Writing
<1>3. CASE LinkMetaAcked
  <2>1. spc = "ack" /\ spc' = "slot0" /\ UNCHANGED <<sq, sig, qpS, r_arr>> /\ s_cons = N
    BY <1>3, SyncDone DEF LinkMetaAcked, Build
  <2> QED
    BY <1>0, <1>1, <2>1 DEF SenderActive, Writing
<1>4. CASE SyncWrite
  <2>1. /\ spc = "slot0" /\ spc' = "write" /\ slot_free[0] /\ PostSend("WRITE", 0)
        /\ UNCHANGED <<sig, qpS, r_arr, slot_free, lbuf, job>>
    BY <1>4 DEF SyncWrite
  <2>2. /\ SenderActive /\ ~Writing /\ SenderActive' /\ Writing' /\ WritingSlot' = 0
        /\ WritingPk' = [n |-> N + 1, cmd |-> job]
    BY <2>1 DEF SenderActive, Writing, WritingSlot, WritingPk, N
  <2>3. lbuf[0] = [n |-> N + 1, cmd |-> job]
    BY <1>0, <2>1 DEF PhaseInv
  <2>4. lbuf'[0] = WritingPk' /\ WritingPk'.n = N + 1
    BY <2>1, <2>2, <2>3
  <2> QED
    BY <1>0, <2>1, <2>2, <2>4, QueueWrite
<1>5. CASE ChunkWrite
  <2>1. /\ spc = "chunk" /\ spc' = "announce" /\ slot_free[current_slot]
        /\ PostSend("WRITE", current_slot)
        /\ UNCHANGED <<sig, qpS, r_arr, slot_free, current_slot, job>>
        /\ lbuf' = [lbuf EXCEPT ![current_slot] = [n |-> N + 1, cmd |-> "FILE_DATA"]]
    BY <1>5 DEF ChunkWrite, NextPacket, N
  <2>2. /\ SenderActive /\ ~Writing /\ SenderActive' /\ Writing' /\ WritingSlot' = current_slot
        /\ WritingPk' = [n |-> N + 1, cmd |-> "FILE_DATA"]
    BY <2>1 DEF SenderActive, Writing, WritingSlot, WritingPk, N
  <2>3. /\ lbuf'[current_slot] = WritingPk' /\ WritingPk'.n = N + 1
        /\ \A t \in SlotId \ {current_slot} : lbuf'[t] = lbuf[t]
    BY <1>0, <2>1, <2>2
  <2> QED
    BY <1>0, <2>1, <2>2, <2>3, QueueWrite
<1>6. CASE SyncSignal
  <2>1. /\ spc = "signal" /\ spc' = "ack" /\ PostSend("SEND", 0) /\ MarkBusy(0, job)
        /\ UNCHANGED <<lbuf, qpS, r_arr>>
    BY <1>6 DEF SyncSignal
  <2>2. /\ SenderActive /\ Writing /\ SenderActive' /\ ~Writing' /\ WritingSlot = 0
        /\ WritingPk = [n |-> N + 1, cmd |-> job]
    BY <2>1 DEF SenderActive, Writing, WritingSlot, WritingPk
  <2> QED
    BY <1>0, <2>1, <2>2, QueueSend
<1>7. CASE ChunkSignal
  <2>1. /\ spc = "announce" /\ spc' = "harvest" /\ PostSend("SEND", current_slot)
        /\ MarkBusy(current_slot, "FILE_DATA") /\ UNCHANGED <<lbuf, qpS, r_arr>>
    BY <1>7 DEF ChunkSignal
  <2>2. /\ SenderActive /\ Writing /\ SenderActive' /\ ~Writing' /\ WritingSlot = current_slot
        /\ WritingPk = [n |-> N + 1, cmd |-> "FILE_DATA"]
    BY <2>1 DEF SenderActive, Writing, WritingSlot, WritingPk
  <2> QED
    BY <1>0, <2>1, <2>2, QueueSend
<1>8. ASSUME UNCHANGED <<sq, sig, qpS, r_arr, lbuf, job, current_slot>>,
             \A s \in SlotId : slot_free[s] => slot_free'[s],
             \/ ~SenderActive'
             \/ SenderActive /\ ~Writing /\ ~Writing'
             \/ spc = "write" /\ spc' \in {"write", "signal"}
      PROVE  QueueInv'
  <2>1. SenderActive' => /\ SenderActive /\ (Writing' <=> Writing)
                         /\ Writing => WritingSlot' = WritingSlot /\ WritingPk' = WritingPk
    BY <1>8 DEF SenderActive, Writing, WritingSlot, WritingPk, N
  <2> QED
    BY <1>8, <2>1, QueueKept
<1>9. CASE SyncWaitWrite \/ HarvestNonBlocking \/ HarvestBlocking
  <2>1. PollBatch /\ spc # "gone" /\ UNCHANGED <<job, receiverVars>>
    BY <1>9 DEF SyncWaitWrite, HarvestNonBlocking, HarvestBlocking, MustWait
  <2>2. PICK k \in 0 .. s_arr - s_cons :
          /\ slot_free' = [s \in SlotId |->
               slot_free[s] \/ \E n \in s_cons + 1 .. s_cons + k : sig[n].slot = s]
          /\ UNCHANGED <<sig, current_slot, lbuf, sq, qpS>>
    BY <2>1, Harvest
  <2>3. \A s \in SlotId : slot_free[s] => slot_free'[s]
    BY <2>2
  <2>4. \/ ~SenderActive'
        \/ SenderActive /\ ~Writing /\ ~Writing'
        \/ spc = "write" /\ spc' \in {"write", "signal"}
    BY <1>9 DEF SyncWaitWrite, HarvestNonBlocking, HarvestBlocking, MustWait, FailPc,
                SenderActive, Writing
  <2> QED
    BY <1>8, <2>1, <2>2, <2>3, <2>4
<1>10. CASE SyncAcked \/ ChunksDone \/ Drained
  <2>1. /\ UNCHANGED <<sq, sig, qpS, r_arr, lbuf, job, current_slot, slot_free>>
        /\ ~SenderActive' \/ (SenderActive /\ ~Writing /\ ~Writing')
    BY <1>10 DEF SyncAcked, ChunksDone, Drained, SenderActive, Writing
  <2> QED
    BY <1>8, <2>1
<1>11. CASE FileMetaAcked
  <2>1. s_cons = N
    BY <1>11, SyncDone DEF FileMetaAcked
  <2>2. UNCHANGED <<sq, sig, qpS, r_arr>> /\ SenderActive /\ ~Writing /\ ~Writing'
    BY <1>11 DEF FileMetaAcked, SenderActive, Writing
  <2> QED
    BY <1>1, <2>1, <2>2
<1>12. CASE SenderCallFails
  <2>1. UNCHANGED <<sq, sig, qpS, r_arr, job, current_slot, slot_free>> /\ ~SenderActive'
    BY <1>12 DEF SenderCallFails, FailPc, SenderActive
  <2>2. \/ lbuf' = lbuf
        \/ /\ spc = "chunk" /\ slot_free[current_slot]
           /\ \A t \in SlotId \ {current_slot} : lbuf'[t] = lbuf[t]
    BY <1>0, <1>12 DEF SenderCallFails
  <2>3. CASE lbuf' = lbuf
    BY <1>8, <2>1, <2>3
  <2>4. CASE /\ spc = "chunk" /\ slot_free[current_slot]
             /\ \A t \in SlotId \ {current_slot} : lbuf'[t] = lbuf[t]
    <3>1. SenderActive /\ ~Writing
      BY <2>4 DEF SenderActive, Writing
    <3>2. ASSUME NEW i \in 1 .. Len(sq) PROVE lbuf'[sq[i].slot] = lbuf[sq[i].slot]
      <4>1. sq[i].slot \in SlotId /\ ~slot_free[sq[i].slot]
        BY <3>1, QueueItems
      <4> QED
        BY <2>4, <4>1
    <3> QED
      BY <2>1, <3>2, QueueKept
  <2> QED
    BY <2>2, <2>3, <2>4
<1>13. CASE SenderDestroy
  <2>1. sq' = <<>> /\ ~SenderActive'
    BY <1>13 DEF SenderDestroy, SenderActive
  <2> QED
    BY <2>1, QueueDropped
<1>14. CASE NicWrite \/ NicSend
  <2>1. TypeOK /\ sq # <<>> /\ Head(sq) = sq[1]
    BY <1>0, <1>14, HeadRequest DEF NicWrite, NicSend
  <2>2. /\ sq' = Tail(sq) /\ UNCHANGED <<sendVars, slotVars, lbuf, sig, qpS>>
    BY <1>14 DEF NicWrite, NicSend
  <2>3. r_arr' = r_arr + (IF sq[1].op = "SEND" THEN 1 ELSE 0)
    <3>1. r_arr \in Nat
      BY <1>0, Numbers
    <3> QED
      BY <1>14, <2>1, <3>1 DEF NicWrite, NicSend
  <2> QED
    BY <2>1, <2>2, <2>3, QueueTail
<1>15. CASE NicErrorS
  <2>1. sq' = <<>> /\ qpS' # "RTS"
    BY <1>15 DEF NicErrorS
  <2> QED
    BY <2>1, QueueDropped
<1>16. ASSUME UNCHANGED <<sendVars, slotVars, lbuf, sq, sig, qpS, r_arr>> PROVE QueueInv'
  BY <1>16 DEF IInv, QueueInv, SenderActive, Writing, WritingSlot, WritingPk, Pk, N
<1>17. CASE NicStepR \/ NicComplete \/ NicAckComplete \/ UNCHANGED vars
  BY <1>16, <1>17 DEF NicStepR, NicAck, NicErrorR, NicComplete, NicAckComplete
<1>18. CASE ReceiverStep \/ ReceiverCallFails
  <2>1. UNCHANGED r_arr
    BY <1>18 DEF ReceiverStep, ReceiverCallFails, ExtendWindow, WindowExtended, Receive,
         DropSendCompletion, Handle, Repost, SendAck, ErrorCompletion, Stop,
         ReceiverDestroy, PostCdcRecv
  <2> QED
    BY <1>16, <1>18, <2>1, ReceiverFrame
<1> QED
  BY <1>2, <1>3, <1>4, <1>5, <1>6, <1>7, <1>9, <1>10, <1>11, <1>12, <1>13, <1>14, <1>15,
     <1>17, <1>18, WhoSteps DEF SenderStep, NicStep, NicStepS

-----------------------------------------------------------------------------
\* The receiver's slots: MemInv

\* MemInv depends on the sender only through the unacknowledged packets and on
\* whether a WRITE is being posted.
LEMMA MemKept ==
  ASSUME IInv, UNCHANGED <<sig, rmem, r_arr, sq, qpS>>,
         s_cons' \in Nat, s_cons' >= s_cons,
         \/ ~SenderActive'
         \/ SenderActive /\ (Writing' <=> Writing) /\ (Writing => WritingSlot' = WritingSlot /\ WritingPk' = WritingPk)
  PROVE  MemInv'
<1>1. MemInv /\ s_cons \in Nat /\ r_arr \in Nat
  BY Numbers DEF IInv
<1>2. \A n \in s_cons' + 1 .. r_arr' : n \in s_cons + 1 .. r_arr
  <2>1. r_arr' = r_arr
    OBVIOUS
  <2> DEFINE a == s_cons
             b == s_cons'
  <2>2. a \in Nat /\ b \in Nat /\ b >= a /\ r_arr \in Nat
    BY <1>1
  <2> HIDE DEF a, b
  <2>3. \A n \in b + 1 .. r_arr : n \in a + 1 .. r_arr
    BY <2>2
  <2> QED
    BY <2>1, <2>3 DEF a, b
<1>3. \A n \in s_cons' + 1 .. r_arr' : rmem'[sig'[n].slot] = [n |-> n, cmd |-> sig'[n].cmd]
  BY <1>1, <1>2 DEF MemInv, Pk
<1>4. sq' # <<>> /\ sq'[1].op = "SEND" =>
        rmem'[sq'[1].slot] = [n |-> r_arr' + 1, cmd |-> sig'[r_arr' + 1].cmd]
  BY <1>1 DEF MemInv, Pk
<1>5. Writing' => SenderActive'
  BY DEF Writing, SenderActive
<1>6. Writing' /\ qpS' = "RTS" /\ sq' = <<>> => rmem'[WritingSlot'] = WritingPk'
  BY <1>1, <1>5 DEF MemInv
<1>7. ASSUME NEW s \in SlotId, rmem'[s].n > s_cons'
      PROVE  \/ rmem'[s].n <= r_arr' /\ sig'[rmem'[s].n].slot = s
             \/ /\ rmem'[s].n = r_arr' + 1
                /\ sq' # <<>> => sq'[1].op = "SEND" /\ sq'[1].slot = s
                /\ SenderActive' /\ qpS' = "RTS" /\ sq' = <<>> => Writing' /\ WritingSlot' = s
  <2>1. rmem \in [SlotId -> Packet] /\ rmem' = rmem
    BY DEF IInv, TypeOK
  <2>2. rmem[s].n \in Nat
    BY <2>1 DEF Packet
  <2>3. rmem[s].n > s_cons
    BY <1>1, <1>7, <2>1, <2>2
  <2> QED
    BY <1>1, <2>3 DEF MemInv
<1> QED
  BY <1>3, <1>4, <1>6, <1>7 DEF MemInv, Pk

\* The packet being written is not in the receiver's slots before the adapter
\* has executed the WRITE.
LEMMA MemPostWrite ==
  ASSUME IInv, NEW s \in SlotId, SenderActive, ~Writing, PostSend("WRITE", s),
         UNCHANGED <<sig, rmem, r_arr, qpS, s_cons>>
  PROVE  MemInv'
<1> DEFINE e == [op |-> "WRITE", slot |-> s, n |-> N + 1]
<1>1. MemInv /\ DownInv /\ s_cons \in Nat /\ r_arr \in Nat
  BY Numbers DEF IInv
<1>2. qpS # "RTS" => sq' = <<>>
  BY <1>1 DEF PostSend, DownInv
<1>3. qpS = "RTS" => /\ sq' # <<>>
                     /\ sq # <<>> => sq'[1] = sq[1]
                     /\ sq = <<>> => sq'[1] = e
  <2>1. qpS = "RTS" => sq' = Append(sq, e) /\ sq \in Seq(WorkRequest)
    BY DEF PostSend, N, IInv, TypeOK
  <2> QED
    BY <2>1
<1>4. \A n \in s_cons' + 1 .. r_arr' : rmem'[sig'[n].slot] = [n |-> n, cmd |-> sig'[n].cmd]
  BY <1>1 DEF MemInv, Pk
<1>5. sq' # <<>> /\ sq'[1].op = "SEND" =>
        rmem'[sq'[1].slot] = [n |-> r_arr' + 1, cmd |-> sig'[r_arr' + 1].cmd]
  BY <1>1, <1>2, <1>3 DEF MemInv, Pk
<1>6. ~(qpS' = "RTS" /\ sq' = <<>>)
  BY <1>3
<1>7. ASSUME NEW t \in SlotId, rmem'[t].n > s_cons'
      PROVE  \/ rmem'[t].n <= r_arr' /\ sig'[rmem'[t].n].slot = t
             \/ /\ rmem'[t].n = r_arr' + 1
                /\ sq' # <<>> => sq'[1].op = "SEND" /\ sq'[1].slot = t
                /\ SenderActive' /\ qpS' = "RTS" /\ sq' = <<>> => Writing' /\ WritingSlot' = t
  BY <1>1, <1>2, <1>3, <1>7 DEF MemInv
<1> QED
  BY <1>4, <1>5, <1>6, <1>7 DEF MemInv, Pk

\* Posting the SEND that announces the packet keeps MemInv.
LEMMA MemPostSend ==
  ASSUME IInv, NEW s \in SlotId, NEW c, SenderActive, Writing, s = WritingSlot,
         WritingPk = [n |-> N + 1, cmd |-> c],
         PostSend("SEND", s), MarkBusy(s, c), ~Writing',
         UNCHANGED <<rmem, r_arr, qpS, s_cons>>
  PROVE  MemInv'
<1> DEFINE e == [op |-> "SEND", slot |-> s, n |-> N + 1]
<1>1. /\ MemInv /\ DownInv /\ QueueInv /\ s_cons \in Nat /\ r_arr \in Nat /\ N \in Nat
      /\ r_arr <= N /\ TypeOK
  BY Numbers, Cuts DEF IInv
<1>2. /\ N' = N + 1 /\ sig'[N + 1] = [slot |-> s, cmd |-> c]
      /\ \A n \in 1 .. N : sig'[n] = sig[n]
  BY <1>1, SigAppend
<1>3. qpS # "RTS" => sq' = <<>>
  BY <1>1 DEF PostSend, DownInv
<1>4. qpS = "RTS" => /\ sq' # <<>>
                     /\ sq # <<>> => sq'[1] = sq[1]
                     /\ sq = <<>> => sq'[1] = e /\ r_arr = N
  <2>1. qpS = "RTS" => sq' = Append(sq, e) /\ sq \in Seq(WorkRequest)
    BY DEF PostSend, N, IInv, TypeOK
  <2>2. qpS = "RTS" /\ sq = <<>> => r_arr = N
    BY <1>1 DEF QueueInv
  <2> QED
    BY <2>1, <2>2
<1>5. \A n \in s_cons' + 1 .. r_arr' : rmem'[sig'[n].slot] = [n |-> n, cmd |-> sig'[n].cmd]
  <2>1. \A n \in s_cons' + 1 .. r_arr' : n \in 1 .. N /\ n \in s_cons + 1 .. r_arr
    BY <1>1
  <2> QED
    BY <1>1, <1>2, <2>1 DEF MemInv, Pk
<1>6. ASSUME sq' # <<>>, sq'[1].op = "SEND"
      PROVE  rmem'[sq'[1].slot] = [n |-> r_arr' + 1, cmd |-> sig'[r_arr' + 1].cmd]
  <2>0. qpS = "RTS"
    BY <1>3, <1>6
  <2>1. CASE sq = <<>>
    <3>1. rmem[s] = [n |-> N + 1, cmd |-> c]
      BY <1>1, <2>0, <2>1 DEF MemInv
    <3>2. sq'[1] = e /\ r_arr = N
      BY <1>4, <2>0, <2>1
    <3> QED
      BY <1>2, <3>1, <3>2
  <2>2. CASE sq # <<>>
    <3>1. sq'[1] = sq[1] /\ sq[1].op = "SEND"
      BY <1>4, <1>6, <2>0, <2>2
    <3>2. r_arr + 1 <= N
      BY <2>2, <3>1, QueueHead
    <3>3. sig'[r_arr + 1] = sig[r_arr + 1]
      BY <1>1, <1>2, <3>2
    <3> QED
      BY <1>1, <2>2, <3>1, <3>3 DEF MemInv, Pk
  <2> QED
    BY <2>1, <2>2
<1>7. ~(qpS' = "RTS" /\ sq' = <<>>)
  BY <1>4
<1>8. ASSUME NEW t \in SlotId, rmem'[t].n > s_cons'
      PROVE  \/ rmem'[t].n <= r_arr' /\ sig'[rmem'[t].n].slot = t
             \/ /\ rmem'[t].n = r_arr' + 1
                /\ sq' # <<>> => sq'[1].op = "SEND" /\ sq'[1].slot = t
                /\ SenderActive' /\ qpS' = "RTS" /\ sq' = <<>> => Writing' /\ WritingSlot' = t
  <2>1. \/ rmem[t].n <= r_arr /\ sig[rmem[t].n].slot = t
        \/ /\ rmem[t].n = r_arr + 1
           /\ sq # <<>> => sq[1].op = "SEND" /\ sq[1].slot = t
           /\ SenderActive /\ qpS = "RTS" /\ sq = <<>> => Writing /\ WritingSlot = t
    BY <1>1, <1>8 DEF MemInv
  <2>2. CASE rmem[t].n <= r_arr /\ sig[rmem[t].n].slot = t
    <3>1. rmem[t] \in Packet
      BY DEF IInv, TypeOK
    <3>2. rmem[t].n \in Nat
      BY <3>1 DEF Packet
    <3>3. rmem[t].n \in 1 .. N
      BY <1>1, <1>8, <2>2, <3>2
    <3>4. sig'[rmem[t].n] = sig[rmem[t].n]
      BY <1>2, <3>3
    <3> QED
      BY <2>2, <3>4
  <2>3. CASE /\ rmem[t].n = r_arr + 1
             /\ sq # <<>> => sq[1].op = "SEND" /\ sq[1].slot = t
             /\ SenderActive /\ qpS = "RTS" /\ sq = <<>> => Writing /\ WritingSlot = t
    BY <1>3, <1>4, <1>7, <2>3
  <2> QED
    BY <2>1, <2>2, <2>3
<1> QED
  BY <1>5, <1>6, <1>7, <1>8 DEF MemInv, Pk

\* A sequence is empty when its length is 0.
LEMMA EmptyLen ==
  ASSUME NEW S, NEW t \in Seq(S)
  PROVE  t = <<>> <=> Len(t) = 0
  OBVIOUS

\* The second entry of a queue is the first behind its head.
LEMMA TailFacts ==
  ASSUME NEW S, NEW q \in Seq(S), q # <<>>
  PROVE  /\ Len(q) = 1 \/ Len(q) >= 2
         /\ Tail(q) = <<>> <=> Len(q) = 1
         /\ Len(q) >= 2 => Tail(q)[1] = q[2]
<1>1. Len(q) \in Nat /\ Len(q) >= 1 /\ Len(Tail(q)) = Len(q) - 1 /\ Tail(q) \in Seq(S)
  OBVIOUS
<1>2. Tail(q) = <<>> <=> Len(Tail(q)) = 0
  BY <1>1, EmptyLen
<1>4. Len(q) >= 2 => Tail(q)[1] = q[2]
  OBVIOUS
<1> QED
  BY <1>1, <1>2, <1>4

\* What the WRITE at the head of the send queue is about to do.
LEMMA HeadWrite ==
  ASSUME IInv, sq # <<>>, sq[1].op = "WRITE"
  PROVE  /\ lbuf[sq[1].slot].n = r_arr + 1
         /\ r_arr + 1 <= N => /\ lbuf[sq[1].slot] = [n |-> r_arr + 1, cmd |-> sig[r_arr + 1].cmd]
                              /\ sq[1].slot = sig[r_arr + 1].slot
         /\ Len(sq) >= 2 => /\ sq[2].op = "SEND" /\ sq[2].slot = sq[1].slot
                            /\ r_arr + 1 <= N
         /\ Len(sq) = 1 /\ SenderActive => /\ Writing /\ WritingSlot = sq[1].slot
                                           /\ lbuf[sq[1].slot] = WritingPk
         /\ \A n \in s_cons + 1 .. r_arr : sig[n].slot # sq[1].slot
<1>1. /\ N \in Nat /\ r_arr \in Nat /\ s_cons \in Nat /\ QueueInv /\ OwnInv
      /\ s_cons <= r_arr /\ r_arr <= N
  <2>1. /\ N \in Nat /\ r_arr \in Nat /\ s_cons \in Nat /\ s_arr \in Nat /\ r_cons \in Nat
        /\ s_cons <= s_arr /\ s_arr <= r_cons /\ r_cons <= r_arr /\ r_arr <= N
    BY Numbers, Cuts DEF IInv
  <2> QED
    BY <2>1 DEF IInv
<1>2. /\ sq[1].n = r_arr + 1 /\ Idx(sq[1]) = 2 * r_arr + 1
      /\ Len(sq) \in Nat /\ Len(sq) >= 1
      /\ SenderActive => Idx(sq[1]) + Len(sq) - 1 = 2 * N + (IF Writing THEN 1 ELSE 0)
      /\ Len(sq) >= 2 => r_arr + 1 <= N
  BY <1>1, QueueHead
<1>3. 1 \in 1 .. Len(sq)
  BY <1>2
<1>4. /\ sq[1].n <= N => /\ sq[1].slot = sig[sq[1].n].slot
                         /\ lbuf[sq[1].slot] = [n |-> sq[1].n, cmd |-> sig[sq[1].n].cmd]
      /\ sq[1].n > N => /\ slot_free[sq[1].slot]
                        /\ lbuf[sq[1].slot].n = sq[1].n
                        /\ SenderActive => /\ sq[1].slot = WritingSlot
                                           /\ lbuf[sq[1].slot] = WritingPk
  BY <1>1, <1>3 DEF QueueInv, Pk
<1>5. lbuf[sq[1].slot].n = r_arr + 1
  <2>1. r_arr + 1 <= N \/ r_arr + 1 > N
    BY <1>1
  <2> QED
    BY <1>2, <1>4, <2>1
<1>6. Len(sq) >= 2 => sq[2].op = "SEND" /\ sq[2].slot = sq[1].slot
  <2> SUFFICES ASSUME Len(sq) >= 2 PROVE sq[2].op = "SEND" /\ sq[2].slot = sq[1].slot
    OBVIOUS
  <2>1. 2 \in 1 .. Len(sq)
    BY <1>2
  <2>2. /\ sq[2].op \in {"WRITE", "SEND"} /\ sq[2].n \in Nat
        /\ Idx(sq[2]) = Idx(sq[1]) + 2 - 1
        /\ sq[2].n <= N => sq[2].slot = sig[sq[2].n].slot
        /\ Idx(sq[2]) = IF sq[2].op = "WRITE" THEN 2 * sq[2].n - 1 ELSE 2 * sq[2].n
    BY <2>1, QueueItems DEF Idx
  <2>3. Idx(sq[2]) = 2 * r_arr + 2
    BY <1>1, <1>2, <2>2
  <2>4. sq[2].op = "SEND" /\ sq[2].n = r_arr + 1
    BY <1>1, <2>2, <2>3
  <2> QED
    BY <1>2, <1>4, <2>2, <2>4
<1>7. Len(sq) = 1 /\ SenderActive => /\ Writing /\ WritingSlot = sq[1].slot
                                     /\ lbuf[sq[1].slot] = WritingPk
  <2> SUFFICES ASSUME Len(sq) = 1, SenderActive
               PROVE  /\ Writing /\ WritingSlot = sq[1].slot
                      /\ lbuf[sq[1].slot] = WritingPk
    OBVIOUS
  <2>1. 2 * r_arr + 1 = 2 * N + (IF Writing THEN 1 ELSE 0)
    BY <1>1, <1>2
  <2>2. Writing /\ r_arr = N
    BY <1>1, <2>1
  <2>3. sq[1].n > N
    BY <1>1, <1>2, <2>2
  <2> QED
    BY <1>4, <2>2, <2>3
<1>8. ASSUME NEW n \in s_cons + 1 .. r_arr PROVE sig[n].slot # sq[1].slot
  <2>1. n \in s_cons + 1 .. N /\ ~slot_free[sig[n].slot]
    BY <1>1 DEF OwnInv
  <2>2. CASE r_arr + 1 <= N
    <3>1. r_arr + 1 \in s_cons + 1 .. N /\ n # r_arr + 1
      BY <1>1, <2>2
    <3>2. sq[1].slot = sig[r_arr + 1].slot
      BY <1>2, <1>4, <2>2
    <3> QED
      BY <1>1, <2>1, <3>1, <3>2 DEF OwnInv
  <2>3. CASE r_arr + 1 > N
    BY <1>2, <1>4, <2>1, <2>3
  <2> QED
    BY <1>1, <2>2, <2>3
<1> QED
  BY <1>2, <1>4, <1>5, <1>6, <1>7, <1>8

\* The WRITE of a packet into the receiver's slot keeps MemInv: what it
\* overwrites is acknowledged.
LEMMA MemNicWrite == IInv /\ NicWrite => MemInv'
<1> SUFFICES ASSUME IInv, NicWrite PROVE MemInv'
  OBVIOUS
<1> DEFINE w == sq[1].slot
<1>1. /\ sq # <<>> /\ sq[1].op = "WRITE" /\ w \in SlotId
      /\ rmem' = [rmem EXCEPT ![w] = lbuf[w]] /\ sq' = Tail(sq)
      /\ UNCHANGED <<sendVars, slotVars, lbuf, sig, s_cons, r_arr, qpS>>
      /\ rmem \in [SlotId -> Packet] /\ sq \in Seq(WorkRequest)
  <2>1. TypeOK /\ rmem \in [SlotId -> Packet] /\ sq \in Seq(WorkRequest)
    BY DEF IInv, TypeOK
  <2>2. sq # <<>> /\ Head(sq) = sq[1] /\ w \in SlotId
    BY <2>1, HeadRequest DEF NicWrite
  <2> QED
    BY <2>1, <2>2 DEF NicWrite
<1>2. /\ rmem'[w] = lbuf[w] /\ \A t \in SlotId \ {w} : rmem'[t] = rmem[t]
  BY <1>1
<1>3. /\ Len(sq) = 1 \/ Len(sq) >= 2
      /\ sq' = <<>> => Len(sq) = 1
      /\ sq' # <<>> => Len(sq) >= 2 /\ sq'[1] = sq[2]
  BY <1>1, TailFacts
<1>4. /\ N \in Nat /\ r_arr \in Nat /\ s_cons \in Nat /\ MemInv /\ r_arr <= N
      /\ \A n \in 1 .. N : sig[n].slot \in SlotId
  <2>1. TypeOK
    BY DEF IInv
  <2> QED
    BY <2>1, Numbers, Cuts DEF IInv
<1>5. ASSUME NEW n \in s_cons + 1 .. r_arr
      PROVE  rmem'[sig[n].slot] = [n |-> n, cmd |-> sig[n].cmd]
  <2>1. n \in 1 .. N /\ sig[n].slot # w
    BY <1>1, <1>4, HeadWrite
  <2> QED
    BY <1>2, <1>4, <2>1 DEF MemInv, Pk
<1>6. sq' # <<>> /\ sq'[1].op = "SEND" =>
        rmem'[sq'[1].slot] = [n |-> r_arr + 1, cmd |-> sig[r_arr + 1].cmd]
  BY <1>1, <1>2, <1>3, HeadWrite
<1>7. Writing /\ qpS = "RTS" /\ sq' = <<>> => rmem'[WritingSlot] = WritingPk
  <2>1. Writing => SenderActive
    BY DEF Writing, SenderActive
  <2> QED
    BY <1>1, <1>2, <1>3, <2>1, HeadWrite
<1>8. ASSUME NEW t \in SlotId, rmem'[t].n > s_cons
      PROVE  \/ rmem'[t].n <= r_arr /\ sig[rmem'[t].n].slot = t
             \/ /\ rmem'[t].n = r_arr + 1
                /\ sq' # <<>> => sq'[1].op = "SEND" /\ sq'[1].slot = t
                /\ SenderActive /\ qpS = "RTS" /\ sq' = <<>> => Writing /\ WritingSlot = t
  <2>1. CASE t = w
    <3>1. rmem'[t].n = r_arr + 1
      BY <1>1, <1>2, <2>1, HeadWrite
    <3> QED
      BY <1>1, <1>3, <2>1, <3>1, HeadWrite
  <2>2. CASE t # w
    BY <1>1, <1>2, <1>4, <1>8, <2>2 DEF MemInv
  <2> QED
    BY <2>1, <2>2
<1>9. /\ N' = N /\ (Writing' <=> Writing) /\ WritingSlot' = WritingSlot
      /\ WritingPk' = WritingPk /\ (SenderActive' <=> SenderActive)
  BY <1>1 DEF N, Writing, WritingSlot, WritingPk, SenderActive
<1> QED
  BY <1>1, <1>5, <1>6, <1>7, <1>8, <1>9 DEF MemInv, Pk

\* The arrival of an announcement keeps MemInv: its packet is in its slot.
LEMMA MemNicSend == IInv /\ NicSend => MemInv'
<1> SUFFICES ASSUME IInv, NicSend PROVE MemInv'
  OBVIOUS
<1>1. /\ sq # <<>> /\ sq[1].op = "SEND" /\ sq' = Tail(sq) /\ r_arr' = r_arr + 1
      /\ UNCHANGED <<sendVars, slotVars, lbuf, sig, s_cons, rmem, qpS>>
      /\ sq \in Seq(WorkRequest) /\ rmem \in [SlotId -> Packet]
  <2>1. TypeOK /\ sq \in Seq(WorkRequest) /\ rmem \in [SlotId -> Packet]
    BY DEF IInv, TypeOK
  <2>2. sq # <<>> /\ Head(sq) = sq[1]
    BY <2>1, HeadRequest DEF NicSend
  <2> QED
    BY <2>1, <2>2 DEF NicSend
<1>2. /\ N \in Nat /\ r_arr \in Nat /\ s_cons \in Nat /\ MemInv /\ Len(sq) \in Nat
      /\ sq[1].n = r_arr + 1 /\ r_arr + 1 <= N
      /\ Len(sq) >= 1 /\ 1 \in 1 .. Len(sq)
      /\ Idx(sq[1]) = 2 * r_arr + 2
      /\ SenderActive => Idx(sq[1]) + Len(sq) - 1 = 2 * N + (IF Writing THEN 1 ELSE 0)
  <2>1. TypeOK /\ MemInv
    BY DEF IInv
  <2>2. N \in Nat /\ r_arr \in Nat /\ s_cons \in Nat /\ Len(sq) \in Nat
    BY <2>1, Numbers
  <2>3. /\ sq[1].n = r_arr + 1 /\ r_arr + 1 <= N /\ Len(sq) >= 1
        /\ Idx(sq[1]) = 2 * r_arr + 2
        /\ SenderActive => Idx(sq[1]) + Len(sq) - 1 = 2 * N + (IF Writing THEN 1 ELSE 0)
    BY <1>1, QueueHead
  <2> QED
    BY <2>1, <2>2, <2>3
<1>3. sq[1].slot = sig[r_arr + 1].slot
  <2>1. sq[1].n <= N => sq[1].slot = sig[sq[1].n].slot
    BY <1>2, QueueItems
  <2> QED
    BY <1>2, <2>1
<1>4. rmem[sig[r_arr + 1].slot] = [n |-> r_arr + 1, cmd |-> sig[r_arr + 1].cmd]
  BY <1>1, <1>2, <1>3 DEF MemInv, Pk
<1>5. \A n \in s_cons + 1 .. r_arr + 1 : n \in s_cons + 1 .. r_arr \/ n = r_arr + 1
  BY <1>2
<1>6. ASSUME NEW n \in s_cons + 1 .. r_arr + 1
      PROVE  rmem[sig[n].slot] = [n |-> n, cmd |-> sig[n].cmd]
  BY <1>2, <1>4, <1>5 DEF MemInv, Pk
<1>7. sq' # <<>> => sq'[1].op = "WRITE"
  <2> SUFFICES ASSUME sq' # <<>> PROVE sq'[1].op = "WRITE"
    OBVIOUS
  <2>1. Len(sq) >= 2 /\ sq'[1] = sq[2] /\ 2 \in 1 .. Len(sq)
    BY <1>1
  <2>2. /\ sq[2].op \in {"WRITE", "SEND"} /\ sq[2].n \in Nat
        /\ Idx(sq[2]) = Idx(sq[1]) + 2 - 1
        /\ Idx(sq[2]) = IF sq[2].op = "WRITE" THEN 2 * sq[2].n - 1 ELSE 2 * sq[2].n
    BY <2>1, QueueItems DEF Idx
  <2>3. Idx(sq[2]) = 2 * r_arr + 3
    BY <1>2, <2>2
  <2>4. sq[2].op = "WRITE"
    BY <1>2, <2>2, <2>3
  <2> QED
    BY <2>1, <2>4
<1>8. Writing => sq' # <<>>
  <2> SUFFICES ASSUME Writing, Len(sq) = 1 PROVE FALSE
    BY <1>1, TailFacts
  <2>1. SenderActive
    BY DEF Writing, SenderActive
  <2>2. 2 * r_arr + 2 = 2 * N + 1
    BY <1>2, <2>1
  <2> QED
    BY <1>2, <2>2
<1>9. ASSUME NEW t \in SlotId, rmem[t].n > s_cons
      PROVE  rmem[t].n <= r_arr + 1 /\ sig[rmem[t].n].slot = t
  <2>1. rmem[t] \in Packet
    BY <1>1
  <2>2. rmem[t].n \in Nat
    BY <2>1 DEF Packet
  <2>3. \/ rmem[t].n <= r_arr /\ sig[rmem[t].n].slot = t
        \/ rmem[t].n = r_arr + 1 /\ sq[1].slot = t
    BY <1>1, <1>2, <1>9 DEF MemInv
  <2> QED
    BY <1>2, <1>3, <2>2, <2>3
<1>10. (Writing' <=> Writing)
  BY <1>1 DEF Writing
<1> QED
  BY <1>1, <1>6, <1>7, <1>8, <1>9, <1>10 DEF MemInv, Pk

\* Every step keeps the packets of the receiver's slots.
LEMMA MemNext == IInv /\ [Next]_vars => MemInv'
<1> SUFFICES ASSUME IInv, [Next]_vars PROVE MemInv'
  OBVIOUS
<1>0. 0 \in SlotId /\ current_slot \in SlotId /\ TypeOK /\ s_cons \in Nat /\ MemInv /\ DownInv
  <2>1. current_slot \in SlotId /\ TypeOK /\ MemInv /\ DownInv
    BY DEF IInv, TypeOK
  <2> QED
    BY <2>1, SlotFacts, Numbers
<1>1. CASE SyncWrite \/ ChunkWrite
  <2>1. PICK s \in SlotId : PostSend("WRITE", s)
    BY <1>0, <1>1 DEF SyncWrite, ChunkWrite
  <2>2. SenderActive /\ ~Writing /\ UNCHANGED <<sig, rmem, r_arr, qpS, s_cons>>
    BY <1>1 DEF SyncWrite, ChunkWrite, PostAckRecv, SenderActive, Writing
  <2> QED
    BY <2>1, <2>2, MemPostWrite
<1>2. CASE SyncSignal
  <2>1. /\ spc = "signal" /\ spc' = "ack" /\ PostSend("SEND", 0) /\ MarkBusy(0, job)
        /\ UNCHANGED <<rmem, r_arr, qpS, s_cons>>
    BY <1>2 DEF SyncSignal
  <2>2. /\ SenderActive /\ Writing /\ ~Writing' /\ WritingSlot = 0
        /\ WritingPk = [n |-> N + 1, cmd |-> job]
    BY <2>1 DEF SenderActive, Writing, WritingSlot, WritingPk
  <2> QED
    BY <1>0, <2>1, <2>2, MemPostSend
<1>3. CASE ChunkSignal
  <2>1. /\ spc = "announce" /\ spc' = "harvest" /\ PostSend("SEND", current_slot)
        /\ MarkBusy(current_slot, "FILE_DATA") /\ UNCHANGED <<rmem, r_arr, qpS, s_cons>>
    BY <1>3 DEF ChunkSignal
  <2>2. /\ SenderActive /\ Writing /\ ~Writing' /\ WritingSlot = current_slot
        /\ WritingPk = [n |-> N + 1, cmd |-> "FILE_DATA"]
    BY <2>1 DEF SenderActive, Writing, WritingSlot, WritingPk
  <2> QED
    BY <1>0, <2>1, <2>2, MemPostSend
<1>4. CASE SyncWaitWrite \/ HarvestNonBlocking \/ HarvestBlocking
  <2>1. PollBatch /\ spc # "gone" /\ UNCHANGED <<job, receiverVars>>
    BY <1>4 DEF SyncWaitWrite, HarvestNonBlocking, HarvestBlocking, MustWait
  <2>2. PICK k \in 0 .. s_arr - s_cons :
          s_cons' = s_cons + k /\ UNCHANGED <<sig, current_slot, sq, qpS>>
    BY <2>1, Harvest
  <2>3. s_cons' \in Nat /\ s_cons' >= s_cons
    BY <1>0, <2>2
  <2>4. \/ ~SenderActive'
        \/ SenderActive /\ ~Writing /\ ~Writing'
        \/ SenderActive /\ spc = "write" /\ spc' \in {"write", "signal"}
    BY <1>4 DEF SyncWaitWrite, HarvestNonBlocking, HarvestBlocking, MustWait, FailPc,
                SenderActive, Writing
  <2>5. \/ ~SenderActive'
        \/ SenderActive /\ (Writing' <=> Writing) /\ (Writing => WritingSlot' = WritingSlot /\ WritingPk' = WritingPk)
    BY <2>1, <2>2, <2>4 DEF Writing, WritingSlot, WritingPk, N
  <2> QED
    BY <2>1, <2>2, <2>3, <2>5, MemKept
<1>5. CASE \/ \E c \in SyncCmd : StartSync(c)
           \/ FileMetaAcked \/ LinkMetaAcked \/ SyncAcked \/ ChunksDone \/ Drained
           \/ SenderCallFails
  <2>1. /\ UNCHANGED <<sig, rmem, r_arr, sq, qpS, s_cons>>
        /\ ~SenderActive' \/ (SenderActive /\ ~Writing /\ ~Writing')
    BY <1>5 DEF StartSync, Build, FileMetaAcked, LinkMetaAcked, SyncAcked, ChunksDone,
                Drained, SenderCallFails, FailPc, SenderActive, Writing
  <2>2. s_cons' \in Nat /\ s_cons' >= s_cons
    BY <1>0, <2>1
  <2> QED
    BY <2>1, <2>2, MemKept
<1>6. ASSUME sq' = <<>>, ~SenderActive' \/ qpS' # "RTS",
             UNCHANGED <<sig, rmem, r_arr, s_cons>>
      PROVE  MemInv'
  <2>1. Writing' => SenderActive'
    BY DEF Writing, SenderActive
  <2> QED
    BY <1>0, <1>6, <2>1 DEF MemInv, Pk
<1>7. CASE SenderDestroy \/ NicErrorS
  BY <1>6, <1>7 DEF SenderDestroy, NicErrorS, SenderActive
<1>8. ASSUME UNCHANGED <<sendVars, current_slot, sig, rmem, r_arr, sq, qpS, s_cons>>
      PROVE  MemInv'
  BY <1>0, <1>8 DEF MemInv, Pk, Writing, WritingSlot, WritingPk, SenderActive, N
<1>9. CASE NicStepR \/ NicComplete \/ NicAckComplete \/ UNCHANGED vars
  BY <1>8, <1>9 DEF NicStepR, NicAck, NicErrorR, NicComplete, NicAckComplete
<1>10. CASE ReceiverStep \/ ReceiverCallFails
  <2>1. UNCHANGED <<senderVars, r_arr, rmem>>
    BY <1>10 DEF ReceiverStep, ReceiverCallFails, ExtendWindow, WindowExtended, Receive,
         DropSendCompletion, Handle, Repost, SendAck, ErrorCompletion, Stop,
         ReceiverDestroy, PostCdcRecv
  <2> QED
    BY <1>8, <2>1
<1> QED
  BY <1>1, <1>2, <1>3, <1>4, <1>5, <1>7, <1>9, <1>10, MemNicWrite, MemNicSend, WhoSteps
     DEF SenderStep, NicStep, NicStepS

-----------------------------------------------------------------------------
\* The rings of CDC buffers: RingInv

\* The announcement in hand has arrived and is not acknowledged.
LEMMA ProcessingCuts ==
  ASSUME IInv, Processing
  PROVE  r_cons \in s_cons + 1 .. r_arr /\ r_cons \in 1 .. N
<1>1. /\ N \in Nat /\ s_cons \in Nat /\ s_arr \in Nat /\ r_cons \in Nat /\ r_arr \in Nat
      /\ Len(rsq) \in Nat
      /\ s_cons <= s_arr /\ s_arr <= r_cons /\ r_cons <= r_arr /\ r_arr <= N
  BY Numbers, Cuts DEF IInv
<1>2. s_arr + Len(rsq) < r_cons
  BY DEF IInv, ChainInv
<1> QED
  BY <1>1, <1>2

\* A step that leaves the rings, the announcements and the ACKs alone keeps RingInv.
LEMMA RingKept ==
  ASSUME IInv,
         s_cons' \in Nat, s_cons' >= s_cons,
         UNCHANGED <<s_arr, r_arr, rbuf>>,
         \A i \in RingId : srecv'[i].slot_id = srecv[i].slot_id,
         \A n \in 1 .. N : sig'[n] = sig[n],
         rsq' = rsq \/ rsq' = <<>>,
         Processing' => Processing /\ UNCHANGED <<cur_slot, r_cons>>
  PROVE  RingInv'
<1>1. /\ N \in Nat /\ s_cons \in Nat /\ s_arr \in Nat /\ r_cons \in Nat /\ r_arr \in Nat
      /\ Len(rsq) \in Nat /\ RingInv
      /\ s_cons <= s_arr /\ s_arr <= r_cons /\ r_cons <= r_arr /\ r_arr <= N
      /\ s_arr + Len(rsq) <= r_cons
  <2>1. TypeOK /\ RingInv
    BY DEF IInv
  <2> QED
    BY <2>1, Numbers, Cuts
<1> DEFINE a == s_cons
           b == s_cons'
<1>2. a \in Nat /\ b \in Nat /\ b >= a
  BY <1>1
<1> HIDE DEF a, b
<1>3. /\ \A k \in b + 1 .. s_arr : k \in a + 1 .. s_arr /\ k \in 1 .. N /\ k \in Nat /\ k >= 1
      /\ \A k \in b + 1 .. r_arr : k \in a + 1 .. r_arr /\ k \in 1 .. N
  BY <1>1, <1>2
<1>4. \A k \in s_cons' + 1 .. s_arr' : srecv'[Ring(k)].slot_id = sig'[k].slot
  BY <1>1, <1>3, RingType DEF RingInv, a, b
<1>5. \A k \in s_cons' + 1 .. r_arr' : rbuf'[Ring(k)] = [slot_id |-> sig'[k].slot, n |-> k]
  BY <1>1, <1>3 DEF RingInv, a, b
<1>6. ASSUME NEW j \in 1 .. Len(rsq') PROVE rsq'[j] = sig'[s_arr' + j].slot
  <2>1. CASE rsq' = rsq
    <3>1. s_arr + j \in 1 .. N
      BY <1>1, <2>1
    <3> QED
      BY <1>1, <2>1, <3>1 DEF RingInv
  <2>2. CASE rsq' = <<>>
    <3>1. rsq' \in Seq(SlotId)
      BY <2>2
    <3>2. Len(rsq') = 0
      BY <2>2, <3>1, EmptyLen
    <3> QED
      BY <3>2
  <2> QED
    BY <2>1, <2>2
<1>7. Processing' => cur_slot' = sig'[r_cons'].slot
  <2> SUFFICES ASSUME Processing' PROVE cur_slot' = sig'[r_cons'].slot
    OBVIOUS
  <2>1. r_cons \in 1 .. N
    BY ProcessingCuts
  <2> QED
    BY <1>1, <2>1 DEF RingInv
<1> QED
  BY <1>4, <1>5, <1>6, <1>7 DEF RingInv

\* Posting an ACK receive writes the wr_id of a buffer and leaves its message.
LEMMA PostKeepsSlotId ==
  ASSUME TypeOK, NEW id, srecv' = [srecv EXCEPT ![Ring(s_post + 1)].wr_id = id]
  PROVE  \A i \in RingId : srecv'[i].slot_id = srecv[i].slot_id
<1>1. srecv \in [RingId -> AckBuf]
  BY DEF TypeOK
<1>2. \A i \in RingId : srecv[i] \in AckBuf
  BY <1>1
<1> QED
  BY <1>1, <1>2 DEF AckBuf

\* Every step keeps the messages of the CDC buffers and the ACKs on their way.
LEMMA RingNext == IInv /\ [Next]_vars => RingInv'
<1> SUFFICES ASSUME IInv, [Next]_vars PROVE RingInv'
  OBVIOUS
<1>0. /\ N \in Nat /\ s_cons \in Nat /\ s_arr \in Nat /\ r_cons \in Nat /\ r_arr \in Nat
      /\ Len(rsq) \in Nat /\ RingInv /\ ChainInv /\ TypeOK
      /\ s_cons <= s_arr /\ s_arr <= r_cons /\ r_cons <= r_arr /\ r_arr <= N
      /\ s_arr + Len(rsq) <= r_cons /\ N - s_cons < RecvSlots /\ RecvSlots \in Nat
      /\ \A n \in 1 .. N : sig[n].slot \in SlotId
  <2>1. TypeOK /\ RingInv /\ ChainInv
    BY DEF IInv
  <2> QED
    BY <2>1, Numbers, Cuts
<1>1. /\ srecv \in [RingId -> AckBuf] /\ rbuf \in [RingId -> ReadyBuf]
      /\ rsq \in Seq(SlotId) /\ cur_slot \in SlotId /\ current_slot \in SlotId
      /\ 0 \in SlotId
  BY <1>0, SlotFacts DEF TypeOK
\* steps of the sender
<1>2. ASSUME s_cons' = s_cons, s_arr' = s_arr, UNCHANGED receiverVars,
             \A i \in RingId : srecv'[i].slot_id = srecv[i].slot_id,
             \A n \in 1 .. N : sig'[n] = sig[n]
      PROVE  RingInv'
  <2>1. s_cons' \in Nat /\ s_cons' >= s_cons
    BY <1>0, <1>2
  <2>2. Processing' => Processing /\ UNCHANGED <<cur_slot, r_cons>>
    BY <1>2 DEF Processing
  <2> QED
    BY <1>2, <2>1, <2>2, RingKept
<1>3. CASE SyncWrite \/ ChunkWrite
  <2>1. PICK id : PostAckRecv(id)
    BY <1>3 DEF SyncWrite, ChunkWrite
  <2>2. \A i \in RingId : srecv'[i].slot_id = srecv[i].slot_id
    BY <1>0, <2>1, PostKeepsSlotId DEF PostAckRecv
  <2> QED
    BY <1>2, <1>3, <2>1, <2>2 DEF SyncWrite, ChunkWrite, PostAckRecv
<1>4. CASE SenderCallFails
  <2>1. srecv' = srecv \/ \E id : srecv' = [srecv EXCEPT ![Ring(s_post + 1)].wr_id = id]
    BY <1>4 DEF SenderCallFails
  <2>2. \A i \in RingId : srecv'[i].slot_id = srecv[i].slot_id
    BY <1>0, <2>1, PostKeepsSlotId
  <2> QED
    BY <1>2, <1>4, <2>2 DEF SenderCallFails
<1>5. CASE SyncSignal \/ ChunkSignal
  <2>1. \A n \in 1 .. N : sig'[n] = sig[n]
    BY <1>0, <1>1, <1>5, SigAppend DEF SyncSignal, ChunkSignal
  <2> QED
    BY <1>2, <1>5, <2>1 DEF SyncSignal, ChunkSignal
<1>6. CASE SyncWaitWrite \/ HarvestNonBlocking \/ HarvestBlocking
  <2>1. PollBatch /\ spc # "gone" /\ UNCHANGED receiverVars
    BY <1>6 DEF SyncWaitWrite, HarvestNonBlocking, HarvestBlocking, MustWait
  <2>2. PICK k \in 0 .. s_arr - s_cons :
          s_cons' = s_cons + k /\ UNCHANGED <<sig, s_arr, srecv>>
    BY <2>1, Harvest
  <2>3. s_cons' \in Nat /\ s_cons' >= s_cons
    BY <1>0, <2>2
  <2>4. Processing' => Processing /\ UNCHANGED <<cur_slot, r_cons>>
    BY <2>1 DEF Processing
  <2> QED
    BY <2>1, <2>2, <2>3, <2>4, RingKept
<1>7. CASE \/ \E c \in SyncCmd : StartSync(c)
           \/ FileMetaAcked \/ LinkMetaAcked \/ SyncAcked \/ ChunksDone \/ Drained
           \/ SenderDestroy \/ UNCHANGED vars
  BY <1>2, <1>7 DEF StartSync, FileMetaAcked, LinkMetaAcked, SyncAcked, ChunksDone, Drained,
                    SenderDestroy
\* steps of the receiver
<1>8. CASE Receive
  <2>1. /\ cur_slot' = rbuf[Ring(r_cons + 1)].slot_id /\ r_cons' = r_cons + 1
        /\ UNCHANGED <<senderVars, r_arr, rbuf, rsq>>
    BY <1>8 DEF Receive
  <2>2. r_cons + 1 <= r_arr
    <3>1. Cardinality(Recvs(rcq)) = r_arr - r_cons
      BY <1>0, <1>8 DEF Receive, ChainInv
    <3>2. rcq \in Seq({"SEND", "RECV", "ERR"}) /\ rcq # <<>> /\ Head(rcq) = "RECV"
      BY <1>0, <1>8 DEF Receive, TypeOK
    <3>3. /\ Cardinality(Recvs(rcq)) = Cardinality(Recvs(Tail(rcq))) + 1
          /\ Cardinality(Recvs(Tail(rcq))) \in Nat
      BY <3>2, RecvsTail
    <3> QED
      BY <1>0, <3>1, <3>3
  <2>3. r_cons + 1 \in s_cons + 1 .. r_arr
    BY <1>0, <2>2
  <2>4. rbuf[Ring(r_cons + 1)] = [slot_id |-> sig[r_cons + 1].slot, n |-> r_cons + 1]
    BY <1>0, <2>3 DEF RingInv
  <2>5. cur_slot' = sig[r_cons + 1].slot
    BY <2>1, <2>4
  <2> QED
    BY <1>0, <2>1, <2>5 DEF RingInv
<1>9. CASE SendAck
  <2>1. /\ rpc = "ack" /\ rpc' \in {"poll", "stopped"}
        /\ UNCHANGED <<senderVars, r_arr, r_cons, rbuf>>
        /\ rsq' = IF qpR = "RTS" THEN Append(rsq, cur_slot) ELSE rsq
    BY <1>9 DEF SendAck
  <2>2. Processing /\ ~Processing'
    BY <2>1 DEF Processing
  <2>3. ASSUME NEW j \in 1 .. Len(rsq') PROVE rsq'[j] = sig[s_arr + j].slot
    <3>1. CASE qpR = "RTS"
      <4>1. s_arr + (Len(rsq) + 1) = r_cons /\ cur_slot = sig[r_cons].slot
        BY <1>0, <2>1, <2>2, <3>1 DEF ChainInv, RingInv
      <4>2. /\ rsq' = Append(rsq, cur_slot) /\ Len(rsq') = Len(rsq) + 1
            /\ rsq'[Len(rsq) + 1] = cur_slot
            /\ \A i \in 1 .. Len(rsq) : rsq'[i] = rsq[i]
        BY <1>1, <2>1, <3>1
      <4>3. j \in 1 .. Len(rsq) \/ j = Len(rsq) + 1
        BY <1>0, <4>2
      <4>4. CASE j \in 1 .. Len(rsq)
        BY <1>0, <4>2, <4>4 DEF RingInv
      <4>5. CASE j = Len(rsq) + 1
        BY <4>1, <4>2, <4>5
      <4> QED
        BY <4>3, <4>4, <4>5
    <3>2. CASE qpR # "RTS"
      BY <1>0, <2>1, <3>2 DEF RingInv
    <3> QED
      BY <3>1, <3>2
  <2> QED
    BY <1>0, <2>1, <2>2, <2>3 DEF RingInv
<1>10. CASE \/ ExtendWindow \/ WindowExtended \/ DropSendCompletion \/ Handle \/ Repost
            \/ ErrorCompletion \/ ReceiverCallFails \/ ReceiverDestroy
  <2>1. UNCHANGED senderVars
    BY <1>10, ReceiverFrame DEF ReceiverStep
  <2>2. /\ UNCHANGED <<r_arr, rbuf>> /\ (rsq' = rsq \/ rsq' = <<>>)
        /\ Processing' => Processing /\ UNCHANGED <<cur_slot, r_cons>>
    BY <1>10 DEF ExtendWindow, WindowExtended, DropSendCompletion, Handle, Repost,
         ErrorCompletion, ReceiverCallFails, Stop, ReceiverDestroy, PostCdcRecv, Processing
  <2>3. s_cons' \in Nat /\ s_cons' >= s_cons
    BY <1>0, <2>1
  <2> QED
    BY <2>1, <2>2, <2>3, RingKept
\* steps of the adapters
<1>11. CASE NicSend
  <2>1. /\ sq # <<>> /\ sq[1].op = "SEND" /\ r_arr' = r_arr + 1
        /\ rbuf' = [rbuf EXCEPT ![Ring(r_arr + 1)] = [slot_id |-> sq[1].slot, n |-> sq[1].n]]
        /\ UNCHANGED <<s_cons, s_arr, srecv, sig, rsq, recvVars, r_cons>>
    <3>1. sq # <<>> /\ Head(sq) = sq[1]
      BY <1>0, <1>11, HeadRequest DEF NicSend
    <3> QED
      BY <1>11, <3>1 DEF NicSend
  <2>2. sq[1].n = r_arr + 1 /\ r_arr + 1 <= N /\ 1 \in 1 .. Len(sq)
    BY <2>1, QueueHead
  <2>3. sq[1].slot = sig[r_arr + 1].slot
    <3>1. sq[1].n <= N => sq[1].slot = sig[sq[1].n].slot
      BY <2>2, QueueItems
    <3> QED
      BY <2>2, <3>1
  <2>4. ASSUME NEW k \in s_cons + 1 .. r_arr + 1
        PROVE  rbuf'[Ring(k)] = [slot_id |-> sig[k].slot, n |-> k]
    <3>1. Ring(r_arr + 1) \in RingId /\ Ring(k) \in RingId
      BY <1>0, RingType
    <3>2. CASE k = r_arr + 1
      BY <1>1, <2>1, <2>2, <2>3, <3>1, <3>2
    <3>3. CASE k <= r_arr
      <4>1. /\ k \in Nat /\ r_arr + 1 \in Nat /\ 1 <= k /\ k < r_arr + 1
            /\ (r_arr + 1) - k < RecvSlots
        BY <1>0, <2>2, <3>3
      <4>2. Ring(k) # Ring(r_arr + 1)
        BY <4>1, RingDistinct
      <4>3. k \in s_cons + 1 .. r_arr
        BY <1>0, <3>3
      <4>4. rbuf'[Ring(k)] = rbuf[Ring(k)]
        BY <1>1, <2>1, <3>1, <4>2
      <4> QED
        BY <1>0, <4>3, <4>4 DEF RingInv
    <3> QED
      BY <1>0, <3>2, <3>3
  <2> QED
    BY <1>0, <2>1, <2>4 DEF RingInv, Processing
<1>12. CASE NicAck
  <2>1. /\ rsq # <<>> /\ s_arr' = s_arr + 1 /\ rsq' = Tail(rsq)
        /\ srecv' = [srecv EXCEPT ![Ring(s_arr + 1)].slot_id = Head(rsq)]
        /\ UNCHANGED <<s_cons, sig, recvVars, cdcVars>>
    BY <1>12 DEF NicAck
  <2>2. /\ Head(rsq) = rsq[1] /\ 1 \in 1 .. Len(rsq) /\ Len(Tail(rsq)) = Len(rsq) - 1
        /\ \A i \in 1 .. Len(rsq) - 1 : Tail(rsq)[i] = rsq[i + 1]
    BY <1>1, <2>1
  <2>3. Head(rsq) = sig[s_arr + 1].slot /\ s_arr + 1 <= N
    <3>1. rsq[1] = sig[s_arr + 1].slot
      BY <1>0, <2>2 DEF RingInv
    <3> QED
      BY <1>0, <2>2, <3>1
  <2>4. ASSUME NEW k \in s_cons + 1 .. s_arr + 1
        PROVE  srecv'[Ring(k)].slot_id = sig[k].slot
    <3>1. Ring(s_arr + 1) \in RingId /\ Ring(k) \in RingId
      BY <1>0, RingType
    <3>2. CASE k = s_arr + 1
      <4>1. srecv[Ring(k)] \in AckBuf
        BY <1>1, <3>1
      <4>2. srecv'[Ring(k)].slot_id = Head(rsq)
        BY <1>1, <2>1, <3>1, <3>2, <4>1 DEF AckBuf
      <4> QED
        BY <2>3, <3>2, <4>2
    <3>3. CASE k <= s_arr
      <4>1. /\ k \in Nat /\ s_arr + 1 \in Nat /\ 1 <= k /\ k < s_arr + 1
            /\ (s_arr + 1) - k < RecvSlots
        BY <1>0, <2>3, <3>3
      <4>2. Ring(k) # Ring(s_arr + 1)
        BY <4>1, RingDistinct
      <4>3. k \in s_cons + 1 .. s_arr
        BY <1>0, <3>3
      <4>4. srecv'[Ring(k)] = srecv[Ring(k)]
        BY <1>1, <2>1, <3>1, <4>2
      <4> QED
        BY <1>0, <4>3, <4>4 DEF RingInv
    <3> QED
      BY <1>0, <3>2, <3>3
  <2>5. ASSUME NEW j \in 1 .. Len(rsq') PROVE rsq'[j] = sig[(s_arr + 1) + j].slot
    <3>1. j \in 1 .. Len(rsq) - 1 /\ j + 1 \in 1 .. Len(rsq)
      <4>1. Len(rsq') = Len(rsq) - 1
        BY <2>1, <2>2
      <4>2. j \in 1 .. Len(rsq) - 1
        BY <4>1
      <4> QED
        BY <1>0, <4>2
    <3>2. rsq'[j] = rsq[j + 1] /\ rsq[j + 1] = sig[s_arr + (j + 1)].slot
      BY <1>0, <2>1, <2>2, <3>1 DEF RingInv
    <3>3. s_arr + (j + 1) = (s_arr + 1) + j
      BY <1>0, <3>1
    <3> QED
      BY <3>2, <3>3
  <2> QED
    BY <1>0, <2>1, <2>4, <2>5 DEF RingInv, Processing
<1>13. CASE NicWrite \/ NicErrorS \/ NicErrorR \/ NicComplete \/ NicAckComplete
  <2>1. /\ UNCHANGED <<sig, s_cons, s_arr, srecv, recvVars, cdcVars>>
        /\ rsq' = rsq \/ rsq' = <<>>
    BY <1>13 DEF NicWrite, NicErrorS, NicErrorR, NicComplete, NicAckComplete
  <2>2. s_cons' \in Nat /\ s_cons' >= s_cons
    BY <1>0, <2>1
  <2>3. Processing' => Processing /\ UNCHANGED <<cur_slot, r_cons>>
    BY <2>1 DEF Processing
  <2> QED
    BY <2>1, <2>2, <2>3, RingKept
<1> QED
  BY <1>3, <1>4, <1>5, <1>6, <1>7, <1>8, <1>9, <1>10, <1>11, <1>12, <1>13, WhoSteps
     DEF SenderStep, ReceiverStep, NicStep, NicStepS, NicStepR

-----------------------------------------------------------------------------
\* The receives posted: AckPostInv and CdcPostInv

\* Every step keeps the number of ACK receives posted ahead of the announcements.
LEMMA AckPostNext == IInv /\ [Next]_vars => AckPostInv'
<1> SUFFICES ASSUME IInv, [Next]_vars PROVE AckPostInv'
  OBVIOUS
<1>0. /\ N \in Nat /\ s_post \in Nat /\ s_cons \in Nat /\ Slots \in Nat /\ Slots >= 1
      /\ AckPostInv /\ TypeOK /\ PhaseInv /\ s_cons <= N
      /\ \A s \in SlotId : slot_free[s] => N - s_cons < Slots
      /\ 0 \in SlotId /\ current_slot \in SlotId
  <2>1. TypeOK /\ AckPostInv /\ PhaseInv /\ current_slot \in SlotId
    BY DEF IInv, TypeOK
  <2>2. /\ N \in Nat /\ s_post \in Nat /\ s_cons \in Nat /\ Slots \in Nat /\ Slots >= 1
        /\ s_arr \in Nat /\ r_cons \in Nat /\ r_arr \in Nat
    BY <2>1, Numbers
  <2>3. s_cons <= N
    BY <2>2, Cuts
  <2> QED
    BY <2>1, <2>2, <2>3, Cuts, SlotFacts
\* an ACK receive is posted for the packet that is being written
<1>1. ASSUME NEW s \in SlotId, slot_free[s], SenderActive, ~Writing,
             s_post' = s_post + 1, UNCHANGED <<s_cons, sig>>,
             Writing' \/ ~SenderActive'
      PROVE  AckPostInv'
  <2>1. s_post = N + 1 /\ N' = N /\ N - s_cons < Slots
    BY <1>0, <1>1 DEF AckPostInv, N
  <2>2. s_post' = N + 2 /\ s_post' - s_cons <= Slots + 1
    BY <1>0, <1>1, <2>1
  <2> QED
    BY <1>0, <1>1, <2>1, <2>2 DEF AckPostInv
<1>2. CASE SyncWrite
  BY <1>0, <1>1, <1>2 DEF SyncWrite, PostAckRecv, SenderActive, Writing
<1>3. CASE ChunkWrite
  BY <1>0, <1>1, <1>3 DEF ChunkWrite, PostAckRecv, SenderActive, Writing
\* it stays posted for the packet when that is announced
<1>4. CASE SyncSignal \/ ChunkSignal
  <2>1. N' = N + 1
    BY <1>0, <1>4, SigAppend DEF SyncSignal, ChunkSignal
  <2>2. /\ SenderActive /\ Writing /\ SenderActive' /\ ~Writing'
        /\ UNCHANGED <<s_post, s_cons>>
    BY <1>4 DEF SyncSignal, ChunkSignal, SenderActive, Writing
  <2> QED
    BY <1>0, <2>1, <2>2 DEF AckPostInv
<1>5. CASE SyncWaitWrite \/ HarvestNonBlocking \/ HarvestBlocking
  <2>1. PollBatch /\ spc # "gone"
    BY <1>5 DEF SyncWaitWrite, HarvestNonBlocking, HarvestBlocking, MustWait
  <2>2. PICK k \in 0 .. s_arr - s_cons : s_cons' = s_cons + k /\ UNCHANGED <<sig, s_post>>
    BY <2>1, Harvest
  <2>3. N' = N
    BY <2>2 DEF N
  <2>4. ~SenderActive' \/ (SenderActive /\ (Writing' <=> Writing))
    BY <1>5 DEF SyncWaitWrite, HarvestNonBlocking, HarvestBlocking, MustWait, FailPc,
                SenderActive, Writing
  <2>5. s_post' - s_cons' <= Slots + 1
    <3>1. s_post - s_cons <= Slots + 1 /\ s_post' = s_post
      BY <1>0, <2>2 DEF AckPostInv
    <3>2. s_post - (s_cons + k) <= Slots + 1
      BY <1>0, <3>1, Numbers
    <3> QED
      BY <2>2, <3>1, <3>2
  <2> QED
    BY <1>0, <2>2, <2>3, <2>4, <2>5 DEF AckPostInv
<1>6. ASSUME UNCHANGED <<s_post, s_cons, sig>>,
             ~SenderActive' \/ (SenderActive /\ (Writing' <=> Writing))
      PROVE  AckPostInv'
  BY <1>0, <1>6 DEF AckPostInv, N
<1>7. CASE SenderCallFails
  <2>1. ~SenderActive' /\ SenderActive /\ UNCHANGED <<s_cons, sig>>
    BY <1>7 DEF SenderCallFails, FailPc, SenderActive
  <2>2. \/ s_post' = s_post
        \/ /\ s_post' = s_post + 1 /\ ~Writing
           /\ slot_free[0] \/ slot_free[current_slot]
    BY <1>7 DEF SenderCallFails, Writing
  <2> QED
    BY <1>0, <1>1, <1>6, <2>1, <2>2
<1>8. CASE \/ \E c \in SyncCmd : StartSync(c)
           \/ FileMetaAcked \/ LinkMetaAcked \/ SyncAcked \/ ChunksDone \/ Drained
           \/ SenderDestroy
  <2>1. /\ UNCHANGED <<s_post, s_cons, sig>>
        /\ ~SenderActive' \/ (SenderActive /\ (Writing' <=> Writing))
    BY <1>8 DEF StartSync, Build, FileMetaAcked, LinkMetaAcked, SyncAcked, ChunksDone,
                Drained, SenderDestroy, SenderActive, Writing
  <2> QED
    BY <1>6, <2>1
<1>9. CASE ReceiverStep \/ ReceiverCallFails \/ NicStep \/ UNCHANGED vars
  <2>1. UNCHANGED <<s_post, s_cons, sig, spc>>
    BY <1>9, ReceiverFrame, NicFrame
  <2> QED
    BY <1>0, <2>1 DEF AckPostInv, SenderActive, Writing, N
<1> QED
  BY <1>2, <1>3, <1>4, <1>5, <1>7, <1>8, <1>9, WhoSteps DEF SenderStep

\* Every step keeps the receiver's window of CDC receives, and its credits.
LEMMA CdcPostNext == IInv /\ [Next]_vars => CdcPostInv'
<1> SUFFICES ASSUME IInv, [Next]_vars PROVE CdcPostInv'
  OBVIOUS
<1>0. /\ r_post \in Nat /\ r_cons \in Nat /\ RecvSlots \in Nat /\ RecvSlots >= 2
      /\ local_credits \in Nat /\ is_end_packet \in BOOLEAN /\ CdcPostInv
  <2>1. TypeOK /\ CdcPostInv /\ local_credits \in Nat /\ is_end_packet \in BOOLEAN
    BY DEF IInv, TypeOK
  <2>2. /\ r_post \in Nat /\ r_cons \in Nat /\ RecvSlots \in Nat /\ Slots \in Nat
        /\ Slots >= 1 /\ RecvSlots > Slots
    BY <2>1, Numbers
  <2> QED
    BY <2>1, <2>2
<1>1. ASSUME UNCHANGED <<rpc, r_cons, r_post, is_end_packet, local_credits>>
      PROVE  CdcPostInv'
  BY <1>0, <1>1 DEF CdcPostInv, CreditsAccurate
<1>2. CASE SenderStep \/ SenderCallFails \/ NicStep \/ UNCHANGED vars
  BY <1>1, <1>2, SenderFrame, NicFrame
<1>3. CASE ExtendWindow
  BY <1>0, <1>3 DEF ExtendWindow, PostCdcRecv, CdcPostInv, CreditsAccurate
<1>4. CASE WindowExtended
  BY <1>0, <1>4 DEF WindowExtended, CdcPostInv, CreditsAccurate
<1>5. CASE Receive
  <2>1. /\ rpc = "poll" /\ rpc' = "handle" /\ r_cons' = r_cons + 1
        /\ UNCHANGED <<r_post, is_end_packet>>
        /\ local_credits' = IF local_credits > 0 THEN local_credits - 1 ELSE local_credits
    BY <1>5 DEF Receive
  <2>2. r_post = r_cons + RecvSlots /\ local_credits = r_post - r_cons
    BY <1>0, <2>1 DEF CdcPostInv, CreditsAccurate
  <2>3. local_credits' = r_post' - r_cons'
    <3>1. local_credits = RecvSlots /\ local_credits' = local_credits - 1
      BY <1>0, <2>1, <2>2
    <3> QED
      BY <1>0, <2>1, <2>2, <3>1
  <2>4. r_post' = r_cons' - 1 + RecvSlots
    BY <1>0, <2>1, <2>2
  <2>5. r_post' >= r_cons' - 1 + RecvSlots
    BY <1>0, <2>1, <2>2
  <2> QED
    BY <2>1, <2>3, <2>4, <2>5 DEF CdcPostInv, CreditsAccurate
<1>6. CASE DropSendCompletion
  BY <1>1, <1>6 DEF DropSendCompletion
<1>7. CASE Handle
  <2>1. /\ rpc = "handle" /\ UNCHANGED <<r_cons, r_post, local_credits>>
        /\ \/ rpc' = "stopped"
           \/ rpc' = "ack" /\ is_end_packet'
           \/ rpc' = "repost" /\ ~is_end_packet'
    BY <1>7 DEF Handle
  <2>2. r_post = r_cons - 1 + RecvSlots /\ local_credits = r_post - r_cons
    BY <1>0, <2>1 DEF CdcPostInv, CreditsAccurate
  <2> QED
    BY <1>0, <2>1, <2>2 DEF CdcPostInv, CreditsAccurate
<1>8. CASE Repost
  BY <1>0, <1>8 DEF Repost, PostCdcRecv, CdcPostInv, CreditsAccurate
<1>9. CASE SendAck
  <2>1. /\ rpc = "ack" /\ UNCHANGED <<r_cons, r_post, local_credits, is_end_packet>>
        /\ \/ rpc' = "stopped"
           \/ rpc' = "poll" /\ ~is_end_packet
    BY <1>9 DEF SendAck
  <2>2. /\ r_post = r_cons + RecvSlots - (IF is_end_packet THEN 1 ELSE 0)
        /\ local_credits = r_post - r_cons
    BY <1>0, <2>1 DEF CdcPostInv, CreditsAccurate
  <2> QED
    BY <1>0, <2>1, <2>2 DEF CdcPostInv, CreditsAccurate
<1>10. CASE ErrorCompletion \/ ReceiverCallFails \/ ReceiverDestroy
  <2>1. /\ rpc' \in {"stopped", "gone"}
        /\ UNCHANGED <<r_cons, r_post, is_end_packet, local_credits>>
    BY <1>10 DEF ErrorCompletion, ReceiverCallFails, ReceiverDestroy, Stop
  <2> QED
    BY <1>0, <2>1 DEF CdcPostInv, CreditsAccurate
<1> QED
  BY <1>2, <1>3, <1>4, <1>5, <1>6, <1>7, <1>8, <1>9, <1>10, WhoSteps DEF ReceiverStep

-----------------------------------------------------------------------------
\* What is processed: HandledInv

\* The receiver finds the packet that was announced in the slot it was told.
LEMMA InHand ==
  ASSUME IInv, Processing
  PROVE  /\ rmem[cur_slot] = [n |-> r_cons, cmd |-> sig[r_cons].cmd]
         /\ cur_slot = sig[r_cons].slot /\ sig[r_cons].cmd # "NONE"
         /\ rbuf[Ring(r_cons)] = [slot_id |-> sig[r_cons].slot, n |-> r_cons]
<1>1. r_cons \in s_cons + 1 .. r_arr /\ r_cons \in 1 .. N
  BY ProcessingCuts
<1>2. /\ cur_slot = sig[r_cons].slot
      /\ rbuf[Ring(r_cons)] = [slot_id |-> sig[r_cons].slot, n |-> r_cons]
  BY <1>1 DEF IInv, RingInv
<1>3. rmem[sig[r_cons].slot] = [n |-> r_cons, cmd |-> sig[r_cons].cmd]
  BY <1>1 DEF IInv, MemInv, Pk
<1>4. sig[r_cons].cmd # "NONE"
  BY <1>1 DEF IInv, PhaseInv
<1> QED
  BY <1>2, <1>3, <1>4

\* Handle always finds a valid header.
LEMMA HandleValid ==
  ASSUME IInv, Handle
  PROVE  /\ rpc = "handle" /\ rpc' \in {"ack", "repost"} /\ UNCHANGED <<sig, r_cons>>
         /\ handled' = Append(handled, [n |-> r_cons, cmd |-> sig[r_cons].cmd])
<1>1. rpc = "handle" /\ Processing
  BY DEF Handle, Processing
<1>2. /\ rmem[cur_slot] = [n |-> r_cons, cmd |-> sig[r_cons].cmd]
      /\ rmem[cur_slot].cmd # "NONE"
  BY <1>1, InHand
<1>3. /\ handled' = Append(handled, rmem[cur_slot]) /\ rpc' \in {"ack", "repost"}
      /\ UNCHANGED <<sig, r_cons>>
  BY <1>2 DEF Handle
<1> QED
  BY <1>1, <1>2, <1>3

\* Every step keeps the packets processed those that were announced.
LEMMA HandledNext == IInv /\ [Next]_vars => HandledInv'
<1> SUFFICES ASSUME IInv, [Next]_vars PROVE HandledInv'
  OBVIOUS
<1>0. /\ N \in Nat /\ r_cons \in Nat /\ HandledInv /\ TypeOK /\ handled \in Seq(Packet)
      /\ r_cons <= N
  <2>1. TypeOK /\ HandledInv /\ handled \in Seq(Packet)
    BY DEF IInv, TypeOK
  <2>2. N \in Nat /\ r_cons \in Nat /\ r_arr \in Nat
    BY <2>1, Numbers
  <2> QED
    BY <2>1, <2>2, Cuts
<1>1. Len(handled) \in Nat /\ Len(handled) <= N /\ Len(handled) <= r_cons
  BY <1>0 DEF HandledInv
<1>2. ASSUME UNCHANGED <<handled, r_cons>>, \A n \in 1 .. N : sig'[n] = sig[n],
             rpc' = "handle" <=> rpc = "handle"
      PROVE  HandledInv'
  <2>1. \A i \in 1 .. Len(handled) : i \in 1 .. N
    BY <1>0, <1>1
  <2> QED
    BY <1>0, <1>2, <2>1 DEF HandledInv, Pk
<1>3. CASE SenderStep \/ SenderCallFails
  <2>1. CASE SyncSignal \/ ChunkSignal
    <3>1. 0 \in SlotId /\ current_slot \in SlotId
      BY <1>0, SlotFacts DEF TypeOK
    <3>2. \A n \in 1 .. N : sig'[n] = sig[n]
      BY <1>0, <2>1, <3>1, SigAppend DEF SyncSignal, ChunkSignal
    <3> QED
      BY <1>2, <1>3, <3>2, SenderFrame
  <2>2. CASE ~(SyncSignal \/ ChunkSignal)
    <3>1. sig' = sig
      BY <1>3, <2>2 DEF SenderStep, SenderCallFails, StartSync, SyncWrite, SyncWaitWrite,
         FileMetaAcked, LinkMetaAcked, SyncAcked, ChunkWrite, HarvestNonBlocking,
         ChunksDone, Drained, HarvestBlocking, SenderDestroy, PollBatch
    <3> QED
      BY <1>2, <1>3, <3>1, SenderFrame
  <2> QED
    BY <2>1, <2>2
<1>4. CASE NicStep \/ UNCHANGED vars
  BY <1>2, <1>4, NicFrame
<1>5. CASE Receive
  <2>1. rpc = "poll" /\ rpc' = "handle" /\ r_cons' = r_cons + 1 /\ UNCHANGED <<sig, handled>>
    BY <1>5 DEF Receive
  <2> QED
    BY <1>0, <2>1 DEF HandledInv, Pk
<1>6. CASE Handle
  <2>1. /\ rpc = "handle" /\ rpc' \in {"ack", "repost"} /\ UNCHANGED <<sig, r_cons>>
        /\ handled' = Append(handled, [n |-> r_cons, cmd |-> sig[r_cons].cmd])
    BY <1>6, HandleValid
  <2>2. Len(handled) = r_cons - 1 /\ \A i \in 1 .. Len(handled) : handled[i] = Pk(i)
    BY <1>0, <2>1 DEF HandledInv
  <2>3. /\ Len(handled') = r_cons /\ handled'[r_cons] = [n |-> r_cons, cmd |-> sig[r_cons].cmd]
        /\ \A i \in 1 .. Len(handled) : handled'[i] = handled[i]
    BY <1>0, <2>1, <2>2
  <2>4. \A i \in 1 .. Len(handled') : i \in 1 .. Len(handled) \/ i = r_cons
    BY <1>0, <2>2, <2>3
  <2>5. \A i \in 1 .. Len(handled') : handled'[i] = [n |-> i, cmd |-> sig[i].cmd]
    BY <2>2, <2>3, <2>4 DEF Pk
  <2> QED
    BY <1>0, <2>1, <2>3, <2>5 DEF HandledInv, Pk
<1>7. CASE \/ ExtendWindow \/ WindowExtended \/ DropSendCompletion \/ Repost \/ SendAck
           \/ ErrorCompletion \/ ReceiverCallFails \/ ReceiverDestroy
  <2>1. /\ UNCHANGED <<sig, handled, r_cons>> /\ (rpc' = "handle" <=> rpc = "handle")
    BY <1>7 DEF ExtendWindow, WindowExtended, DropSendCompletion, Repost, SendAck,
         ErrorCompletion, ReceiverCallFails, Stop, ReceiverDestroy, PostCdcRecv
  <2> QED
    BY <1>2, <2>1
<1> QED
  BY <1>3, <1>4, <1>5, <1>6, <1>7, WhoSteps DEF ReceiverStep

-----------------------------------------------------------------------------
\* What ends a wait

\* An appended queue has the completions it had and the one appended.
LEMMA HasAppend ==
  ASSUME NEW S, NEW q \in Seq(S), NEW x \in S, NEW op
  PROVE  Has(Append(q, x), op) <=> Has(q, op) \/ x = op
<1> DEFINE r == Append(q, x)
<1>1. /\ Len(r) = Len(q) + 1 /\ Len(q) \in Nat /\ r[Len(q) + 1] = x
      /\ \A i \in 1 .. Len(q) : r[i] = q[i]
  OBVIOUS
<1> HIDE DEF r
<1>2. 1 .. Len(r) = 1 .. Len(q) \cup {Len(q) + 1}
  BY <1>1
<1>3. Has(r, op) <=> Has(q, op) \/ x = op
  BY <1>1, <1>2 DEF Has
<1> QED
  BY <1>3 DEF r

\* A completion is in what a poll takes of the queue or in what it leaves.
LEMMA HasSplit ==
  ASSUME NEW S, NEW q \in Seq(S), NEW m \in 0 .. Len(q), NEW op
  PROVE  Has(q, op) => Has(SubSeq(q, 1, m), op) \/ Has(SubSeq(q, m + 1, Len(q)), op)
<1> DEFINE b == SubSeq(q, 1, m)
           r == SubSeq(q, m + 1, Len(q))
<1>1. /\ Len(q) \in Nat /\ m \in Nat /\ m <= Len(q)
      /\ Len(b) = m /\ \A i \in 1 .. m : b[i] = q[i]
      /\ Len(r) = Len(q) - m /\ \A i \in 1 .. Len(q) - m : r[i] = q[i + m]
  OBVIOUS
<1> HIDE DEF b, r
<1>2. ASSUME NEW i \in 1 .. Len(q), q[i] = op PROVE Has(b, op) \/ Has(r, op)
  <2>1. CASE i <= m
    <3>1. i \in 1 .. Len(b) /\ b[i] = op
      BY <1>1, <1>2, <2>1
    <3> QED
      BY <3>1 DEF Has
  <2>2. CASE ~(i <= m)
    <3>1. i - m \in 1 .. Len(r) /\ i - m \in 1 .. Len(q) - m /\ (i - m) + m = i
      BY <1>1, <2>2
    <3>2. r[i - m] = op
      BY <1>1, <1>2, <3>1
    <3> QED
      BY <3>1, <3>2 DEF Has
  <2> QED
    BY <2>1, <2>2
<1>3. Has(q, op) => Has(b, op) \/ Has(r, op)
  BY <1>2 DEF Has
<1> QED
  BY <1>3 DEF b, r

\* Only the first completion is lost with the head of a queue.
LEMMA HasTail ==
  ASSUME NEW S, NEW q \in Seq(S), q # <<>>, NEW op, Has(q, op), Head(q) # op
  PROVE  Has(Tail(q), op)
<1>1. /\ Len(q) \in Nat /\ Len(q) >= 1 /\ Head(q) = q[1] /\ Len(Tail(q)) = Len(q) - 1
      /\ \A i \in 1 .. Len(q) - 1 : Tail(q)[i] = q[i + 1]
  OBVIOUS
<1>2. PICK i \in 1 .. Len(q) : q[i] = op
  BY DEF Has
<1>3. i # 1 /\ i - 1 \in 1 .. Len(q) - 1 /\ (i - 1) + 1 = i
  BY <1>1, <1>2
<1> QED
  BY <1>1, <1>2, <1>3 DEF Has

\* What a poll does not take stays in the queue.
LEMMA HasPolled ==
  ASSUME TypeOK, PollBatch, NEW op, Has(scq, op), ~Has(Batch, op)
  PROVE  Has(scq', op)
<1>1. PICK m \in 0 .. Len(scq) : Batch = SubSeq(scq, 1, m) /\ Len(Batch) = m
  BY BatchType
<1>2. scq' = SubSeq(scq, m + 1, Len(scq))
  BY <1>1 DEF PollBatch
<1>3. scq \in Seq({"WRITE", "SEND", "RECV", "ERR"})
  BY DEF TypeOK
<1> QED
  BY <1>1, <1>2, <1>3, HasSplit

\* A post keeps the WRITEs that are queued, and adds the one it posts.
LEMMA QueuedPosted ==
  ASSUME TypeOK, NEW o \in {"WRITE", "SEND"}, NEW s \in SlotId, PostSend(o, s)
  PROVE  /\ WriteQueued => WriteQueued'
         /\ qpS = "RTS" /\ o = "WRITE" => WriteQueued'
<1> DEFINE w == [op |-> o, slot |-> s, n |-> Len(sig) + 1]
<1>1. /\ sq' = (IF qpS = "RTS" THEN Append(sq, w) ELSE sq) /\ sq \in Seq(WorkRequest)
      /\ w.op = o
  BY DEF PostSend, TypeOK
<1> HIDE DEF w
<1>2. /\ Len(Append(sq, w)) = Len(sq) + 1 /\ Len(sq) \in Nat
      /\ Append(sq, w)[Len(sq) + 1] = w
      /\ \A i \in 1 .. Len(sq) : Append(sq, w)[i] = sq[i]
  BY <1>1
<1>3. CASE qpS = "RTS"
  <2>1. sq' = Append(sq, w)
    BY <1>1, <1>3
  <2>2. WriteQueued => WriteQueued'
    BY <1>2, <2>1 DEF WriteQueued
  <2>3. o = "WRITE" => WriteQueued'
    BY <1>1, <1>2, <2>1 DEF WriteQueued
  <2> QED
    BY <2>2, <2>3
<1>4. CASE qpS # "RTS"
  BY <1>1, <1>4 DEF WriteQueued
<1> QED
  BY <1>3, <1>4

\* Every step keeps what ends a wait.
LEMMA WaitNext == IInv /\ [Next]_vars => WaitInv'
<1> SUFFICES ASSUME IInv, [Next]_vars PROVE WaitInv'
  OBVIOUS
<1>0. WaitInv /\ TypeOK
  BY DEF IInv
<1>1. CASE SyncWrite
  <2>1. /\ spc = "slot0" /\ spc' = "write" /\ PostSend("WRITE", 0)
        /\ UNCHANGED <<scq, sdone, qpS, rpc, qpR, rcq>>
    BY <1>1 DEF SyncWrite, receiverVars, recvVars, rNicVars
  <2>2. 0 \in SlotId /\ "WRITE" \in {"WRITE", "SEND"}
    BY SlotFacts
  <2>3. qpS = "RTS" => WriteQueued'
    BY <1>0, <2>1, <2>2, QueuedPosted
  <2> QED
    BY <1>0, <2>1, <2>3 DEF WaitInv, SenderActive, Has
<1>2. CASE SyncWaitWrite
  <2>1. /\ spc = "write" /\ PollBatch /\ UNCHANGED <<sq, sdone, qpS, rpc, qpR, rcq>>
        /\ spc' = CASE Has(Batch, "ERR") -> FailPc
                    [] ~Has(Batch, "ERR") /\ Has(Batch, "WRITE") -> "signal"
                    [] OTHER -> "write"
        /\ FailPc \in {"done", "failed"}
    BY <1>2 DEF SyncWaitWrite, PollBatch, FailPc, receiverVars, recvVars, rNicVars
  <2>2. CASE Has(Batch, "ERR")
    <3>1. ~SenderActive' /\ spc' # "write"
      BY <2>1, <2>2 DEF SenderActive
    <3> QED
      BY <1>0, <2>1, <3>1 DEF WaitInv, Has
  <2>3. CASE ~Has(Batch, "ERR")
    <3>1. Has(scq, "ERR") => Has(scq', "ERR")
      BY <1>0, <2>1, <2>3, HasPolled
    <3>2. spc' = "write" => ~Has(Batch, "WRITE")
      BY <2>1, <2>3
    <3>3. spc' = "write" /\ Has(scq, "WRITE") => Has(scq', "WRITE")
      BY <1>0, <2>1, <3>2, HasPolled
    <3>4. SenderActive /\ WriteQueued' = WriteQueued
          /\ Has(sdone, "WRITE")' = Has(sdone, "WRITE") /\ Has(rcq, "ERR")' = Has(rcq, "ERR")
      BY <2>1 DEF SenderActive, WriteQueued, Has
    <3>5. /\ qpS' = qpS /\ qpR' = qpR /\ rpc' = rpc /\ spc = "write"
      BY <2>1
    <3> QED
      BY <1>0, <3>1, <3>3, <3>4, <3>5 DEF WaitInv
  <2> QED
    BY <2>2, <2>3
<1>3. CASE HarvestNonBlocking \/ HarvestBlocking
  <2>1. /\ spc \notin {"write", "done", "failed", "gone"} /\ PollBatch
        /\ spc' # "write"
        /\ UNCHANGED <<qpS, rpc, qpR, rcq>>
        /\ Has(Batch, "ERR") => spc' = FailPc
        /\ FailPc \in {"done", "failed"}
    BY <1>3 DEF HarvestNonBlocking, HarvestBlocking, MustWait, PollBatch, FailPc,
                receiverVars, recvVars, rNicVars
  <2>2. Has(scq, "ERR") /\ ~Has(Batch, "ERR") => Has(scq', "ERR")
    BY <1>0, <2>1, HasPolled
  <2>3. SenderActive /\ (Has(Batch, "ERR") => ~SenderActive') /\ Has(rcq, "ERR")' = Has(rcq, "ERR")
    BY <2>1 DEF SenderActive, Has
  <2>4. qpS' = qpS /\ qpR' = qpR /\ rpc' = rpc /\ spc' # "write"
    BY <2>1
  <2> QED
    BY <1>0, <2>2, <2>3, <2>4 DEF WaitInv
<1>4. CASE \/ \E c \in SyncCmd : StartSync(c)
           \/ SyncSignal \/ FileMetaAcked \/ LinkMetaAcked \/ SyncAcked \/ ChunkWrite
           \/ ChunkSignal \/ ChunksDone \/ Drained \/ SenderCallFails
  <2>1. /\ SenderActive /\ spc' # "write" /\ UNCHANGED <<scq, sdone, qpS, rpc, qpR, rcq>>
    BY <1>4 DEF StartSync, Build, SyncSignal, FileMetaAcked, LinkMetaAcked, SyncAcked,
         ChunkWrite, ChunkSignal, ChunksDone, Drained, SenderCallFails, FailPc,
         SenderActive, sNicVars, receiverVars, recvVars, rNicVars
  <2> QED
    BY <1>0, <2>1 DEF WaitInv, Has
<1>5. CASE SenderDestroy
  <2>1. ~SenderActive' /\ spc' # "write" /\ UNCHANGED <<rpc, qpR, rcq>>
    BY <1>5 DEF SenderDestroy, SenderActive, receiverVars, recvVars, rNicVars
  <2> QED
    BY <1>0, <2>1 DEF WaitInv, Has
<1>6. CASE Receive \/ DropSendCompletion
  <2>1. /\ rpc = "poll" /\ rcq # <<>> /\ Head(rcq) # "ERR" /\ rcq' = Tail(rcq)
        /\ UNCHANGED <<spc, scq, sq, sdone, qpS, qpR>>
    BY <1>6 DEF Receive, DropSendCompletion, senderVars, sendVars, sNicVars
  <2>2. rcq \in Seq({"SEND", "RECV", "ERR"})
    BY <1>0 DEF TypeOK
  <2>3. Has(rcq, "ERR") => Has(rcq', "ERR")
    BY <2>1, <2>2, HasTail
  <2>4. /\ SenderActive' = SenderActive /\ WriteQueued' = WriteQueued
        /\ \A op : Has(scq, op)' = Has(scq, op) /\ Has(sdone, op)' = Has(sdone, op)
    BY <2>1 DEF SenderActive, WriteQueued, Has
  <2> QED
    BY <1>0, <2>1, <2>3, <2>4 DEF WaitInv
<1>7. CASE \/ ExtendWindow \/ WindowExtended \/ Handle \/ Repost \/ SendAck
           \/ ErrorCompletion \/ ReceiverCallFails \/ ReceiverDestroy
  <2>1. /\ rpc' \notin {"stopped", "gone"} =>
              rpc \notin {"stopped", "gone"} /\ UNCHANGED <<rcq, qpR>>
        /\ UNCHANGED <<spc, scq, sq, sdone, qpS>>
    BY <1>7 DEF ExtendWindow, WindowExtended, Handle, Repost, SendAck, ErrorCompletion,
         ReceiverCallFails, Stop, ReceiverDestroy, senderVars, sendVars, sNicVars,
         recvVars, rNicVars
  <2> QED
    BY <1>0, <2>1 DEF WaitInv, SenderActive, WriteQueued, Has
<1>8. CASE NicWrite \/ NicSend
  <2> DEFINE o == Head(sq).op
  <2>1. /\ sq # <<>> /\ o \in {"WRITE", "SEND"} /\ sq' = Tail(sq) /\ sdone' = Append(sdone, o)
        /\ UNCHANGED <<spc, scq, qpS, rpc, qpR>> /\ rcq' \in {rcq, Append(rcq, "RECV")}
    BY <1>8 DEF NicWrite, NicSend, sendVars, recvVars, rNicVars
  <2>2. /\ sdone \in Seq({"WRITE", "SEND"}) /\ sq \in Seq(WorkRequest)
        /\ rcq \in Seq({"SEND", "RECV", "ERR"})
    BY <1>0 DEF TypeOK
  <2>3. Has(sdone', "WRITE") <=> Has(sdone, "WRITE") \/ o = "WRITE"
    BY <2>1, <2>2, HasAppend
  <2>4. WriteQueued => WriteQueued' \/ o = "WRITE"
    <3>1. /\ Len(sq) \in Nat /\ Head(sq) = sq[1] /\ Len(Tail(sq)) = Len(sq) - 1
          /\ \A i \in 1 .. Len(sq) - 1 : Tail(sq)[i] = sq[i + 1]
      BY <2>1, <2>2
    <3>2. ASSUME NEW i \in 1 .. Len(sq), sq[i].op = "WRITE", i # 1
          PROVE  \E j \in 1 .. Len(Tail(sq)) : Tail(sq)[j].op = "WRITE"
      <4>1. i - 1 \in 1 .. Len(sq) - 1 /\ (i - 1) + 1 = i
        BY <3>1, <3>2
      <4> QED
        BY <3>1, <3>2, <4>1
    <3>3. SUFFICES ASSUME o # "WRITE", NEW i \in 1 .. Len(sq), sq[i].op = "WRITE"
                   PROVE  WriteQueued'
      BY DEF WriteQueued
    <3>4. i # 1
      BY <3>1, <3>3
    <3>5. \E j \in 1 .. Len(Tail(sq)) : Tail(sq)[j].op = "WRITE"
      BY <3>2, <3>3, <3>4
    <3>6. sq' = Tail(sq)
      BY <2>1
    <3> QED
      BY <3>5, <3>6 DEF WriteQueued
  <2>5. Has(rcq, "ERR") => Has(rcq', "ERR")
    <3>1. Has(rcq, "ERR") => Has(Append(rcq, "RECV"), "ERR")
      BY <2>2, HasAppend
    <3>2. rcq' = rcq \/ rcq' = Append(rcq, "RECV")
      BY <2>1
    <3> QED
      BY <3>1, <3>2
  <2>6. SenderActive' = SenderActive /\ \A op : Has(scq', op) = Has(scq, op)
    BY <2>1 DEF Has, SenderActive
  <2>7. UNCHANGED <<spc, qpS, rpc, qpR>>
    BY <2>1
  <2> HIDE DEF o
  <2> QED
    BY <1>0, <2>3, <2>4, <2>5, <2>6, <2>7 DEF WaitInv
<1>9. CASE NicComplete
  <2>1. /\ sdone # <<>> /\ scq' = Append(scq, Head(sdone)) /\ sdone' = Tail(sdone)
        /\ UNCHANGED <<spc, sq, qpS, rpc, qpR, rcq>>
    BY <1>9 DEF NicComplete, sendVars, receiverVars, recvVars, rNicVars
  <2>2. sdone \in Seq({"WRITE", "SEND"}) /\ scq \in Seq({"WRITE", "SEND", "RECV", "ERR"})
    BY <1>0 DEF TypeOK
  <2>3. Head(sdone) \in {"WRITE", "SEND", "RECV", "ERR"}
    BY <2>1, <2>2
  <2>4. \A op : Has(scq', op) <=> Has(scq, op) \/ Head(sdone) = op
    BY <2>1, <2>2, <2>3, HasAppend
  <2>5. Has(sdone, "WRITE") /\ Head(sdone) # "WRITE" => Has(sdone', "WRITE")
    BY <2>1, <2>2, HasTail
  <2>6. /\ SenderActive' = SenderActive /\ WriteQueued' = WriteQueued
        /\ Has(rcq', "ERR") = Has(rcq, "ERR")
    BY <2>1 DEF SenderActive, WriteQueued, Has
  <2> QED
    BY <1>0, <2>1, <2>4, <2>5, <2>6 DEF WaitInv
<1>10. CASE NicAck
  <2>1. scq' = Append(scq, "RECV") /\ UNCHANGED <<spc, sq, sdone, qpS, rpc, qpR, rcq>>
    BY <1>10 DEF NicAck, sendVars, recvVars
  <2>2. scq \in Seq({"WRITE", "SEND", "RECV", "ERR"})
    BY <1>0 DEF TypeOK
  <2>3. \A op : Has(scq, op) => Has(scq', op)
    BY <2>1, <2>2, HasAppend
  <2>4. /\ SenderActive' = SenderActive /\ WriteQueued' = WriteQueued
        /\ Has(rcq', "ERR") = Has(rcq, "ERR") /\ Has(sdone', "WRITE") = Has(sdone, "WRITE")
    BY <2>1 DEF SenderActive, WriteQueued, Has
  <2> QED
    BY <1>0, <2>1, <2>3, <2>4 DEF WaitInv
<1>11. CASE NicAckComplete \/ NicErrorR
  <2>1. \/ rcq' = Append(rcq, "SEND") /\ qpR' = qpR
        \/ rcq' = Append(rcq, "ERR")
    BY <1>11 DEF NicAckComplete, NicErrorR
  <2>2. UNCHANGED <<spc, scq, sq, sdone, qpS, rpc>>
    BY <1>11 DEF NicAckComplete, NicErrorR, senderVars, sendVars, sNicVars, recvVars
  <2>3. rcq \in Seq({"SEND", "RECV", "ERR"})
    BY <1>0 DEF TypeOK
  <2>4. /\ \A op : Has(rcq, op) => Has(rcq', op)
        /\ rcq' = Append(rcq, "ERR") => Has(rcq', "ERR")
    <3>1. \A x \in {"SEND", "ERR"} : \A op :
            Has(Append(rcq, x), op) <=> Has(rcq, op) \/ x = op
      BY <2>3, HasAppend
    <3> QED
      BY <2>1, <3>1
  <2>5. /\ SenderActive' = SenderActive /\ WriteQueued' = WriteQueued
        /\ \A op : Has(scq', op) = Has(scq, op) /\ Has(sdone', op) = Has(sdone, op)
    BY <2>2 DEF SenderActive, WriteQueued, Has
  <2> QED
    BY <1>0, <2>1, <2>2, <2>4, <2>5 DEF WaitInv
<1>12. CASE NicErrorS
  <2>1. scq' = Append(scq, "ERR") /\ qpS' = "ERR" /\ UNCHANGED <<rpc, qpR, rcq>>
    BY <1>12 DEF NicErrorS, receiverVars, recvVars, rNicVars
  <2>2. scq \in Seq({"WRITE", "SEND", "RECV", "ERR"})
    BY <1>0 DEF TypeOK
  <2>3. Has(scq', "ERR")
    BY <2>1, <2>2, HasAppend
  <2> QED
    BY <1>0, <2>1, <2>3 DEF WaitInv, Has
<1>13. CASE UNCHANGED vars
  BY <1>0, <1>13 DEF WaitInv, SenderActive, WriteQueued, Has, vars, senderVars, sendVars,
     sNicVars, receiverVars, recvVars, rNicVars
<1> QED
  BY <1>1, <1>2, <1>3, <1>4, <1>5, <1>6, <1>7, <1>8, <1>9, <1>10, <1>11, <1>12, <1>13, WhoSteps
     DEF SenderStep, ReceiverStep, NicStep, NicStepS, NicStepR

-----------------------------------------------------------------------------
\* The invariant

\* The initial state satisfies the inductive invariant.
LEMMA InvInit == Init => IInv
<1> SUFFICES ASSUME Init PROVE IInv
  OBVIOUS
<1>1. TypeOK
  BY TypeInit
<1>2. /\ sig = <<>> /\ N = 0 /\ s_cons = 0 /\ s_arr = 0 /\ r_cons = 0 /\ r_arr = 0
      /\ scq = <<>> /\ rcq = <<>> /\ rsq = <<>> /\ sq = <<>> /\ handled = <<>>
      /\ spc = "idle" /\ rpc = "extend" /\ job = "NONE" /\ pending_acks = 0
      /\ s_post = 1 /\ r_post = 1 /\ qpS = "RTS" /\ qpR = "RTS"
      /\ slot_free = [s \in SlotId |-> TRUE] /\ rmem = [s \in SlotId |-> Blank]
  BY DEF Init, N
<1>3. Slots \in Nat /\ Slots >= 1 /\ RecvSlots \in Nat /\ RecvSlots > Slots
  BY <1>1, Numbers
<1>4. Len(rsq) = 0 /\ Len(sq) = 0 /\ Len(handled) = 0
  BY <1>1, <1>2, EmptyLen DEF TypeOK
<1>5. /\ SenderActive /\ ~Writing /\ ~Processing
  BY <1>2 DEF SenderActive, Writing, Processing
<1>6. PhaseInv
  BY <1>2 DEF PhaseInv, SenderActive
<1>7. OwnInv
  BY <1>2 DEF OwnInv
<1>8. ChainInv
  BY <1>2, <1>4, <1>5, RecvsEmpty DEF ChainInv
<1>9. DownInv
  BY <1>2 DEF DownInv
<1>10. QueueInv
  BY <1>2, <1>4, <1>5 DEF QueueInv
<1>11. MemInv
  BY <1>2, <1>5 DEF MemInv, Blank
<1>12. RingInv
  BY <1>2, <1>4, <1>5 DEF RingInv
<1>13. AckPostInv
  BY <1>2, <1>3, <1>5 DEF AckPostInv
<1>14. CdcPostInv
  BY <1>2, <1>3 DEF CdcPostInv, CreditsAccurate
<1>15. HandledInv
  BY <1>2, <1>4 DEF HandledInv
<1>16. TurnInv
  BY <1>2 DEF TurnInv, InLoop
<1>17. WaitInv
  BY <1>2 DEF WaitInv
<1> QED
  BY <1>1, <1>16, <1>17, <1>6, <1>7, <1>8, <1>9, <1>10, <1>11, <1>12, <1>13, <1>14, <1>15 DEF IInv

\* Every step preserves the inductive invariant.
LEMMA InvNext == IInv /\ [Next]_vars => IInv'
<1> SUFFICES ASSUME IInv, [Next]_vars PROVE IInv'
  OBVIOUS
<1>1. TypeOK'
  BY TypeNext DEF IInv
<1> QED
  BY <1>1, PhaseNext, OwnNext, TurnNext, ChainNext, DownNext, QueueNext, MemNext, RingNext,
     AckPostNext, CdcPostNext, HandledNext, WaitNext DEF IInv

\* The invariant holds of every behaviour of the pipeline.
THEOREM Invariance == Spec => []IInv
<1>1. Init => IInv
  BY InvInit
<1>2. IInv /\ [Next]_vars => IInv'
  BY InvNext
<1> QED
  BY <1>1, <1>2, PTL DEF Spec

-----------------------------------------------------------------------------
\* What the invariant means

\* Every variable of the two programs and of their adapters has its type.
THEOREM TypeCorrect == Spec => []TypeOK
<1>1. IInv => TypeOK
  BY DEF IInv
<1> QED
  BY <1>1, Invariance, PTL

\* The slots in use are counted, and are those of the packets not acknowledged.
LEMMA AccountingFromInv == IInv => SlotAccounting
<1> SUFFICES ASSUME IInv PROVE SlotAccounting
  OBVIOUS
<1> DEFINE f == [n \in s_cons + 1 .. N |-> sig[n].slot]
           T == {f[n] : n \in s_cons + 1 .. N}
<1>1. N \in Nat /\ s_cons \in Nat /\ s_cons <= N /\ OwnInv /\ slot_free \in [SlotId -> BOOLEAN]
      /\ \A n \in 1 .. N : sig[n].slot \in SlotId
  <2>1. TypeOK /\ OwnInv /\ slot_free \in [SlotId -> BOOLEAN]
    BY DEF IInv, TypeOK
  <2>2. /\ N \in Nat /\ s_cons \in Nat /\ s_arr \in Nat /\ r_cons \in Nat /\ r_arr \in Nat
        /\ \A n \in 1 .. N : sig[n].slot \in SlotId
    BY <2>1, Numbers
  <2> QED
    BY <2>1, <2>2, Cuts
<1>2. \A n \in s_cons + 1 .. N : n \in 1 .. N
  BY <1>1
<1>3. Busy = {sig[n].slot : n \in s_cons + 1 .. N}
  BY <1>1, <1>2 DEF Busy, OwnInv
<1>4. Busy = T
  BY <1>3
<1>5. \A m, n \in s_cons + 1 .. N : f[m] = f[n] => m = n
  BY <1>1 DEF OwnInv
<1> HIDE DEF f
<1>6. IsFiniteSet(T) /\ Cardinality(T) = N - s_cons
  <2>1. s_cons \in Int /\ N \in Int /\ s_cons <= N
    BY <1>1
  <2> QED
    BY <1>5, <2>1, ImageCardinality
<1>7. pending_acks = N - s_cons
  BY <1>1 DEF OwnInv
<1> QED
  BY <1>3, <1>4, <1>6, <1>7 DEF SlotAccounting, N

\* pending_acks, slot_free and the packets announced and not acknowledged
\* always agree, though FILE_META resets the first two.
THEOREM AccountingHolds == Spec => []SlotAccounting
  BY Invariance, AccountingFromInv, PTL

\* A busy current_slot is the slot of the packet Slots announcements ago, so the
\* window is full.
LEMMA BlockedFromInv == IInv => BlockedOnlyWhenFull
<1> SUFFICES ASSUME IInv, spc = "chunk", ~slot_free[current_slot]
             PROVE  Busy = SlotId
  BY DEF BlockedOnlyWhenFull
<1>1. /\ N \in Nat /\ s_cons \in Nat /\ Slots \in Nat /\ Slots >= 1
      /\ current_slot \in 0 .. Slots - 1 /\ current_slot \in SlotId
      /\ N - s_cons <= Slots
      /\ \A s \in SlotId : slot_free[s] => N - s_cons < Slots
  <2>1. TypeOK /\ current_slot \in SlotId /\ current_slot \in 0 .. Slots - 1
    BY DEF IInv, TypeOK, SlotId
  <2> QED
    BY <2>1, Numbers, Cuts
<1>2. PICK m \in s_cons + 1 .. N : sig[m].slot = current_slot
  BY <1>1 DEF IInv, OwnInv
<1>3. Before(N + 1 - m) = current_slot
  BY <1>2 DEF IInv, TurnInv, InLoop
<1>4. N + 1 - m = Slots
  BY <1>1, <1>2, <1>3 DEF Before
<1>5. N - s_cons >= Slots
  BY <1>1, <1>2, <1>4
<1>6. \A s \in SlotId : ~slot_free[s]
  BY <1>1, <1>5
<1> QED
  BY <1>6 DEF Busy

\* The chunk loop waits only when no slot at all is free: to wait for one slot
\* in turn, and not for any, never costs it a free one.
THEOREM BlocksOnlyWhenFull == Spec => []BlockedOnlyWhenFull
  BY Invariance, BlockedFromInv, PTL

\* The slot in hand holds the packet announced.
LEMMA ProcessingFromInv == IInv => ProcessesWhatWasAnnounced
  BY InHand DEF ProcessesWhatWasAnnounced

\* The slot that the receiver works on holds the packet that was announced.
THEOREM ProcessingCorrect == Spec => []ProcessesWhatWasAnnounced
  BY Invariance, ProcessingFromInv, PTL

\* Every SEND finds a posted receive.
LEMMA NoRNRFromInv == IInv => NoRNR
<1> SUFFICES ASSUME IInv, Connected PROVE NoRNR
  BY DEF NoRNR
<1>1. /\ N \in Nat /\ s_post \in Nat /\ s_arr \in Nat /\ s_cons \in Nat
      /\ r_post \in Nat /\ r_arr \in Nat /\ r_cons \in Nat /\ Len(rsq) \in Nat
      /\ Slots \in Nat /\ RecvSlots \in Nat /\ RecvSlots > Slots
      /\ s_cons <= s_arr /\ s_arr + Len(rsq) <= r_cons /\ r_cons <= r_arr /\ r_arr <= N
      /\ N - s_cons <= Slots
  <2>1. TypeOK
    BY DEF IInv
  <2> QED
    BY <2>1, Numbers, Cuts
<1>2. sq # <<>> /\ Head(sq).op = "SEND" => r_arr < r_post
  <2> SUFFICES ASSUME sq # <<>>, Head(sq).op = "SEND" PROVE r_arr < r_post
    OBVIOUS
  <2>1. sq[1].op = "SEND"
    BY HeadRequest DEF IInv
  <2>2. r_arr + 1 <= N
    BY <2>1, QueueHead
  <2>3. r_post >= r_cons - 1 + RecvSlots \/ (r_cons = 0 /\ r_post >= 1)
    BY DEF IInv, CdcPostInv
  <2>4. N <= 1 \/ s_cons >= 1
    BY DEF IInv, PhaseInv
  <2>5. CASE r_post >= r_cons - 1 + RecvSlots
    BY <1>1, <2>2, <2>5
  <2>6. CASE r_cons = 0 /\ r_post >= 1
    BY <1>1, <2>2, <2>4, <2>6
  <2> QED
    BY <2>3, <2>5, <2>6
<1>3. rsq # <<>> => s_arr < s_post
  <2> SUFFICES ASSUME rsq # <<>> PROVE s_arr < s_post
    OBVIOUS
  <2>1. rsq \in Seq(SlotId)
    BY DEF IInv, TypeOK
  <2>2. Len(rsq) # 0
    BY <2>1, EmptyLen
  <2>3. s_post >= N + 1
    BY DEF IInv, AckPostInv
  <2> QED
    BY <1>1, <2>2, <2>3
<1> QED
  BY <1>2, <1>3 DEF NoRNR

\* With more CDC receives than slots, no SEND finds its peer without a posted
\* receive, which with rnr_retry 0 would be fatal.
THEOREM NeverNotReady == Spec => []NoRNR
  BY Invariance, NoRNRFromInv, PTL

\* The CDC buffers keep their messages: fewer than RecvSlots are in use.
LEMMA BuffersFromInv == IInv => CdcBuffersIntact
<1> SUFFICES ASSUME IInv PROVE CdcBuffersIntact
  OBVIOUS
<1>1. /\ s_cons \in Nat /\ r_cons \in Nat /\ s_arr \in Nat /\ r_arr \in Nat
      /\ s_cons <= s_arr /\ s_arr <= r_cons /\ RingInv
  BY Numbers, Cuts DEF IInv
<1>2. \A k \in r_cons + 1 .. r_arr : k \in s_cons + 1 .. r_arr
  BY <1>1
<1>3. \A k \in r_cons + 1 .. r_arr : rbuf[Ring(k)] = [slot_id |-> sig[k].slot, n |-> k]
  BY <1>1, <1>2 DEF RingInv
<1>4. Processing => rbuf[Ring(r_cons)].n = r_cons
  BY InHand
<1> QED
  BY <1>1, <1>3, <1>4 DEF CdcBuffersIntact, RingInv

\* No CDC message is overwritten before its reader is done with it.
THEOREM BuffersIntact == Spec => []CdcBuffersIntact
  BY Invariance, BuffersFromInv, PTL

\* At most RecvSlots ACK receives are posted and not consumed.
LEMMA AckRingFromInv == IInv => AckRingNotOverrun
<1> SUFFICES ASSUME IInv PROVE AckRingNotOverrun
  OBVIOUS
<1>1. s_post \in Nat /\ s_cons \in Nat /\ Slots \in Nat /\ RecvSlots \in Nat /\ RecvSlots > Slots
  BY Numbers DEF IInv
<1>2. s_post - s_cons <= Slots + 1
  BY DEF IInv, AckPostInv
<1> QED
  BY <1>1, <1>2 DEF AckRingNotOverrun

\* The sender's ring of ACK buffers never wraps onto an ACK not yet consumed.
THEOREM AckRingHolds == Spec => []AckRingNotOverrun
  BY Invariance, AckRingFromInv, PTL

\* The slot of a WRITE in the queue holds the packet of the WRITE.
LEMMA StableFromInv == IInv => LocalSlotStable
<1> SUFFICES ASSUME IInv, NEW i \in 1 .. Len(sq), sq[i].op = "WRITE"
             PROVE  lbuf[sq[i].slot].n = sq[i].n
  BY DEF LocalSlotStable
<1>1. N \in Nat /\ sq[i].n \in Nat
  BY QueueItems, Numbers DEF IInv
<1>2. CASE sq[i].n <= N
  <2>1. lbuf[sq[i].slot] = [n |-> sq[i].n, cmd |-> sig[sq[i].n].cmd]
    BY <1>2 DEF IInv, QueueInv, Pk
  <2> QED
    BY <2>1
<1>3. CASE sq[i].n > N
  BY <1>3 DEF IInv, QueueInv
<1> QED
  BY <1>1, <1>2, <1>3

\* The slot of a WRITE is not touched until the adapter has read it.
THEOREM SlotsStable == Spec => []LocalSlotStable
  BY Invariance, StableFromInv, PTL

\* local_credits counts the receives beyond the announcement in hand.
THEOREM CreditsHold == Spec => []CreditsAccurate
<1>1. IInv => CreditsAccurate
  BY DEF IInv, CdcPostInv
<1> QED
  BY <1>1, Invariance, PTL

\* When both programs poll an empty queue and the receiver's adapter is up, its
\* ACKs are all on their way; if none is, every packet that has arrived is
\* acknowledged, and one that the sender waits for is still queued.
LEMMA NeverBothFromInv == IInv => NeverBothWait
<1> SUFFICES ASSUME IInv, rpc = "poll", rcq = <<>>, scq = <<>>
             PROVE  /\ MustWait => Connected /\ (sq # <<>> \/ rsq # <<>>)
                    /\ spc = "write" =>
                         \/ qpS = "RTS" /\ Has(sdone, "WRITE")
                         \/ Connected /\ \E i \in 1 .. Len(sq) : sq[i].op = "WRITE"
  BY DEF NeverBothWait
<1>1. TypeOK /\ WaitInv /\ OwnInv /\ ChainInv /\ QueueInv /\ DownInv
  BY DEF IInv
<1>2. \A op : ~Has(scq, op) /\ ~Has(rcq, op)
  BY DEF Has
<1>3. qpR = "RTS"
  BY <1>1, <1>2 DEF WaitInv, DownInv, TypeOK
<1>4. SenderActive => qpS = "RTS"
  BY <1>1, <1>2 DEF WaitInv, TypeOK
<1>5. ASSUME SenderActive, sq = <<>>, rsq = <<>> PROVE s_cons = N /\ N \in Nat
  <2>1. Cardinality(Recvs(scq)) = 0 /\ Cardinality(Recvs(rcq)) = 0 /\ Len(rsq) = 0
    BY <1>1, <1>5, RecvsEmpty, EmptyLen DEF TypeOK
  <2>2. s_cons \in Nat /\ s_arr \in Nat /\ r_cons \in Nat /\ r_arr \in Nat /\ N \in Nat
    BY <1>1, Numbers
  <2>3. s_arr = s_cons
    BY <1>1, <1>5, <2>1, <2>2 DEF ChainInv, SenderActive
  <2>4. s_arr + Len(rsq) = r_cons
    BY <1>1, <1>3 DEF ChainInv, Processing
  <2>5. r_arr = r_cons
    BY <1>1, <2>1, <2>2 DEF ChainInv
  <2>6. r_arr = N
    BY <1>1, <1>4, <1>5 DEF QueueInv
  <2> QED
    BY <2>1, <2>2, <2>3, <2>4, <2>5, <2>6
<1>6. ASSUME s_cons = N, N \in Nat PROVE pending_acks = 0 /\ \A s \in SlotId : slot_free[s]
  BY <1>1, <1>6 DEF OwnInv
<1>7. 0 \in SlotId /\ current_slot \in SlotId
  BY <1>1, SlotFacts DEF TypeOK
<1>8. ASSUME MustWait PROVE Connected /\ (sq # <<>> \/ rsq # <<>>)
  <2>1. SenderActive
    BY <1>8 DEF MustWait, SenderActive
  <2>2. ~(pending_acks = 0 /\ \A s \in SlotId : slot_free[s])
    BY <1>7, <1>8 DEF MustWait
  <2> QED
    BY <1>3, <1>4, <1>5, <1>6, <2>1, <2>2 DEF Connected
<1>9. ASSUME spc = "write"
      PROVE  \/ qpS = "RTS" /\ Has(sdone, "WRITE")
             \/ Connected /\ \E i \in 1 .. Len(sq) : sq[i].op = "WRITE"
  <2>1. qpS = "RTS"
    BY <1>4, <1>9 DEF SenderActive
  <2> QED
    BY <1>1, <1>2, <1>3, <1>9, <2>1 DEF WaitInv, WriteQueued, Connected
<1> QED
  BY <1>8, <1>9

\* Neither program gives up a wait, and still the two never wait for each other:
\* as long as the receiver polls, what the sender polls for is on its way.
THEOREM NoMutualWait == Spec => []NeverBothWait
  BY Invariance, NeverBothFromInv, PTL

\* A step overwrites only a packet that is acknowledged.
LEMMA OverwriteStep ==
  IInv /\ [Next]_vars => \A s \in SlotId : rmem'[s] # rmem[s] => rmem[s].n <= s_cons
<1> SUFFICES ASSUME IInv, [Next]_vars, NEW t \in SlotId, rmem'[t] # rmem[t]
             PROVE  rmem[t].n <= s_cons
  OBVIOUS
<1>1. NicWrite
  <2>1. CASE SenderStep \/ SenderCallFails
    BY <2>1, SenderFrame
  <2>2. CASE ReceiverStep \/ ReceiverCallFails
    BY <2>2 DEF ReceiverStep, ReceiverCallFails, ExtendWindow, WindowExtended, Receive,
         DropSendCompletion, Handle, Repost, SendAck, ErrorCompletion, Stop,
         ReceiverDestroy
  <2>3. CASE NicStep /\ ~NicWrite
    BY <2>3 DEF NicStep, NicStepS, NicStepR, NicSend, NicErrorS, NicAck, NicErrorR,
         NicComplete, NicAckComplete
  <2> QED
    BY <2>1, <2>2, <2>3, WhoSteps
<1>2. /\ sq # <<>> /\ sq[1].op = "WRITE" /\ t = sq[1].slot
      /\ rmem \in [SlotId -> Packet]
  <2>1. TypeOK /\ rmem \in [SlotId -> Packet]
    BY DEF IInv, TypeOK
  <2>2. sq # <<>> /\ Head(sq) = sq[1] /\ sq[1].slot \in SlotId
    BY <1>1, <2>1, HeadRequest DEF NicWrite
  <2>3. rmem' = [rmem EXCEPT ![sq[1].slot] = lbuf[sq[1].slot]] /\ sq[1].op = "WRITE"
    BY <1>1, <2>2 DEF NicWrite
  <2> QED
    BY <2>1, <2>2, <2>3
<1>3. s_cons \in Nat /\ rmem[t].n \in Nat /\ MemInv /\ r_arr \in Nat
  <2>1. rmem[t] \in Packet
    BY <1>2
  <2>2. rmem[t].n \in Nat
    BY <2>1 DEF Packet
  <2> QED
    BY <2>2, Numbers DEF IInv
<1>4. SUFFICES ASSUME rmem[t].n > s_cons PROVE FALSE
  BY <1>3
<1>5. rmem[t].n <= r_arr /\ sig[rmem[t].n].slot = t
  BY <1>2, <1>3, <1>4 DEF MemInv
<1>6. rmem[t].n \in s_cons + 1 .. r_arr
  BY <1>3, <1>4, <1>5
<1> QED
  BY <1>2, <1>5, <1>6, HeadWrite

\* A slot of the receiver is overwritten only when its packet is acknowledged.
THEOREM OverwriteHolds == Spec => OverwriteOnlyAcked
<1>1. IInv /\ [Next]_vars => [\A s \in SlotId : rmem'[s] # rmem[s] => rmem[s].n <= s_cons]_vars
  BY OverwriteStep
<1> QED
  BY <1>1, Invariance, PTL DEF Spec, OverwriteOnlyAcked

-----------------------------------------------------------------------------
\* The pipeline implements the channel

sent == [i \in 1 .. Len(sig) |-> [n |-> i, cmd |-> sig[i].cmd]]

SentOK == /\ sent \in Seq(Packet) /\ Len(sent) = N
          /\ \A i \in 1 .. N : sent[i] = [n |-> i, cmd |-> sig[i].cmd]

\* The numbered announcements are a sequence of packets.
LEMMA SentType == TypeOK => SentOK
<1> SUFFICES ASSUME TypeOK PROVE SentOK
  OBVIOUS
<1>1. N \in Nat /\ \A i \in 1 .. N : sig[i].cmd \in Cmd
  BY Numbers
<1>2. \A i \in 1 .. N : [n |-> i, cmd |-> sig[i].cmd] \in Packet
  BY <1>1 DEF Packet
<1>3. sent = [i \in 1 .. N |-> [n |-> i, cmd |-> sig[i].cmd]]
  BY DEF sent, N
<1>4. sent \in [1 .. N -> Packet]
  BY <1>2, <1>3
<1> QED
  BY <1>1, <1>3, <1>4 DEF SentOK

\* ... and after a step they are one, too.
LEMMA SentTypeNext == TypeOK' => SentOK'
  BY SentType, PTL

\* The invariant gives what the channel promises: packets are processed in the
\* order they were announced, an ACK means processed, and the window holds.
LEMMA ChannelFromInv == IInv => Channel!ChannelInv
<1> SUFFICES ASSUME IInv PROVE Channel!ChannelInv
  OBVIOUS
<1>1. /\ N \in Nat /\ s_cons \in Nat /\ s_arr \in Nat /\ r_cons \in Nat /\ r_arr \in Nat
      /\ Len(rsq) \in Nat /\ Slots \in Nat
      /\ s_cons <= s_arr /\ s_arr + Len(rsq) <= r_cons /\ r_cons <= r_arr /\ r_arr <= N
      /\ N - s_cons <= Slots
      /\ Len(sent) = N /\ \A i \in 1 .. N : sent[i] = [n |-> i, cmd |-> sig[i].cmd]
  <2>1. TypeOK
    BY DEF IInv
  <2> QED
    BY <2>1, Numbers, Cuts, SentType DEF SentOK
<1>2. /\ Len(handled) = IF rpc = "handle" THEN r_cons - 1 ELSE r_cons
      /\ \A i \in 1 .. Len(handled) : handled[i] = [n |-> i, cmd |-> sig[i].cmd]
  BY DEF IInv, HandledInv, Pk
<1>3. rpc = "handle" => s_arr + Len(rsq) < r_cons
  BY DEF IInv, ChainInv, Processing
<1>4. Len(handled) <= N /\ s_cons <= Len(handled)
  BY <1>1, <1>2, <1>3
<1>5. \A i \in 1 .. Len(handled) : i \in 1 .. N
  BY <1>1, <1>2, <1>4
<1>6. \A i \in 1 .. Len(handled) : handled[i] = sent[i]
  BY <1>1, <1>2, <1>5
<1> QED
  BY <1>1, <1>4, <1>6 DEF Channel!ChannelInv, Channel!DeliveredIsPrefix,
     Channel!AckedIsDelivered, Channel!WindowRespected, sent

\* The channel's promises hold of the pipeline: what was processed is a prefix of
\* what was announced, what is acknowledged was processed, and the window is kept.
THEOREM ChannelSafety == Spec => []Channel!ChannelInv
  BY Invariance, ChannelFromInv, PTL

\* The initial state is one of the channel.
LEMMA ChannelInit == Init => Channel!Init
<1> SUFFICES ASSUME Init PROVE Channel!Init
  OBVIOUS
<1>1. TypeOK /\ sig = <<>> /\ handled = <<>> /\ s_cons = 0
  BY TypeInit DEF Init
<1>2. sent \in Seq(Packet) /\ Len(sent) = N /\ N = 0
  BY <1>1, SentType DEF SentOK, N
<1>3. sent = <<>>
  BY <1>2, EmptyLen
<1> QED
  BY <1>1, <1>3 DEF Channel!Init, sent

\* An announcement sends: a slot is free, so the window is not full.
LEMMA ChannelSend ==
  ASSUME IInv, NEW s \in SlotId, NEW c \in Cmd, slot_free[s], MarkBusy(s, c),
         UNCHANGED <<s_cons, handled>>, TypeOK'
  PROVE  Channel!Send
<1>1. /\ N \in Nat /\ s_cons \in Nat /\ N - s_cons < Slots /\ Slots \in Nat /\ TypeOK
  <2>1. TypeOK
    BY DEF IInv
  <2> QED
    BY <2>1, Numbers, Cuts
<1>2. /\ N' = N + 1 /\ \A n \in 1 .. N : sig'[n] = sig[n]
  BY <1>1, SigAppend
<1>3. /\ sent \in Seq(Packet) /\ Len(sent) = N
      /\ \A i \in 1 .. N : sent[i] = [n |-> i, cmd |-> sig[i].cmd]
  BY <1>1, SentType DEF SentOK
<1>4. /\ sent' \in Seq(Packet) /\ Len(sent') = N'
      /\ \A i \in 1 .. N' : sent'[i] = [n |-> i, cmd |-> sig'[i].cmd]
  BY SentTypeNext DEF SentOK
<1>5. \A i \in 1 .. Len(sent) : sent'[i] = sent[i]
  BY <1>1, <1>2, <1>3, <1>4
<1> QED
  BY <1>1, <1>2, <1>3, <1>4, <1>5 DEF Channel!Send, sent

\* A step that neither announces nor processes nor consumes an ACK is a stutter.
LEMMA ChannelStutter ==
  UNCHANGED <<sig, handled, s_cons>> => UNCHANGED Channel!chanVars
  BY DEF Channel!chanVars

\* A poll acknowledges what it consumes.
LEMMA ChannelAck ==
  ASSUME IInv, spc # "gone", PollBatch, UNCHANGED handled
  PROVE  Channel!Next \/ UNCHANGED Channel!chanVars
<1>1. PICK k \in 0 .. s_arr - s_cons : s_cons' = s_cons + k /\ UNCHANGED sig
  BY Harvest
<1>2. /\ s_cons \in Nat /\ s_arr \in Nat /\ r_cons \in Nat /\ Len(rsq) \in Nat
      /\ s_arr <= r_cons /\ s_cons <= s_arr
  BY Numbers, Cuts DEF IInv
<1>3. rpc = "handle" => s_arr + Len(rsq) < r_cons
  BY DEF IInv, ChainInv, Processing
<1>4. Len(handled) = IF rpc = "handle" THEN r_cons - 1 ELSE r_cons
  BY DEF IInv, HandledInv
<1>5. s_cons + k <= Len(handled) /\ Len(handled) \in Nat
  BY <1>1, <1>2, <1>3, <1>4
<1>6. CASE k = 0
  <2>1. s_cons' = s_cons
    BY <1>1, <1>2, <1>6
  <2> QED
    BY <1>1, <2>1, ChannelStutter
<1>7. CASE k > 0
  <2>1. s_cons + k \in 1 .. Len(handled) /\ s_cons < s_cons + k
    BY <1>1, <1>2, <1>5, <1>7
  <2>2. Channel!Ack(s_cons + k)
    BY <1>1, <1>5, <2>1 DEF Channel!Ack
  <2> QED
    BY <2>1, <2>2 DEF Channel!Next
<1> QED
  BY <1>1, <1>6, <1>7

\* Processing a packet delivers the next packet of the channel.
LEMMA ChannelDeliver ==
  ASSUME IInv, Handle
  PROVE  Channel!Deliver
<1>1. /\ rpc = "handle" /\ UNCHANGED <<sig, r_cons, s_cons>>
      /\ handled' = Append(handled, [n |-> r_cons, cmd |-> sig[r_cons].cmd])
  <2>1. UNCHANGED s_cons
    BY DEF Handle
  <2> QED
    BY <2>1, HandleValid
<1>2. r_cons \in 1 .. N /\ N \in Nat
  BY <1>1, ProcessingCuts, Numbers DEF Processing, IInv
<1>3. Len(handled) = r_cons - 1
  BY <1>1 DEF IInv, HandledInv
<1>4. Len(sent) = N /\ sent[r_cons] = [n |-> r_cons, cmd |-> sig[r_cons].cmd]
  BY <1>2, SentType DEF SentOK, IInv
<1>5. Len(handled) < Len(sent) /\ Len(handled) + 1 = r_cons
  BY <1>2, <1>3, <1>4
<1>6. handled' = Append(handled, sent[Len(handled) + 1])
  BY <1>1, <1>4, <1>5
<1>7. sent' = sent
  BY <1>1 DEF sent
<1> QED
  BY <1>1, <1>5, <1>6, <1>7 DEF Channel!Deliver, sent

\* Every step is one of the channel, or a stutter.
LEMMA ChannelNext ==
  IInv /\ IInv' /\ [Next]_vars => Channel!Next \/ UNCHANGED Channel!chanVars
<1> SUFFICES ASSUME IInv, IInv', [Next]_vars
             PROVE  Channel!Next \/ UNCHANGED Channel!chanVars
  OBVIOUS
<1>0. TypeOK /\ TypeOK' /\ PhaseInv /\ 0 \in SlotId /\ current_slot \in SlotId
      /\ job \in Cmd /\ "FILE_DATA" \in Cmd
  <2>1. TypeOK /\ TypeOK' /\ PhaseInv
    BY DEF IInv
  <2> QED
    BY <2>1, SlotFacts, CmdFacts DEF TypeOK
<1>1. CASE SyncSignal
  <2>1. s_cons = N
    BY <1>0, <1>1 DEF SyncSignal, PhaseInv
  <2>2. slot_free[0] /\ MarkBusy(0, job) /\ UNCHANGED <<s_cons, handled>>
    BY <1>0, <1>1, <2>1, AllFree DEF SyncSignal
  <2> QED
    BY <1>0, <2>2, ChannelSend DEF Channel!Next
<1>2. CASE ChunkSignal
  <2>1. slot_free[current_slot] /\ MarkBusy(current_slot, "FILE_DATA")
        /\ UNCHANGED <<s_cons, handled>>
    BY <1>0, <1>2 DEF ChunkSignal, PhaseInv
  <2> QED
    BY <1>0, <2>1, ChannelSend DEF Channel!Next
<1>3. CASE SyncWaitWrite \/ HarvestNonBlocking \/ HarvestBlocking
  <2>1. PollBatch /\ spc # "gone" /\ UNCHANGED handled
    BY <1>3 DEF SyncWaitWrite, HarvestNonBlocking, HarvestBlocking, MustWait
  <2> QED
    BY <2>1, ChannelAck
<1>4. CASE \/ \E c \in SyncCmd : StartSync(c)
           \/ SyncWrite \/ FileMetaAcked \/ LinkMetaAcked \/ SyncAcked \/ ChunkWrite
           \/ ChunksDone \/ Drained \/ SenderDestroy \/ SenderCallFails
  <2>1. UNCHANGED <<sig, handled, s_cons>>
    BY <1>4 DEF StartSync, SyncWrite, FileMetaAcked, LinkMetaAcked, SyncAcked, ChunkWrite,
                ChunksDone, Drained, SenderDestroy, SenderCallFails, PostAckRecv
  <2> QED
    BY <2>1, ChannelStutter
<1>5. CASE Handle
  BY <1>5, ChannelDeliver DEF Channel!Next
<1>6. CASE \/ ExtendWindow \/ WindowExtended \/ Receive \/ DropSendCompletion \/ Repost
           \/ SendAck \/ ErrorCompletion \/ ReceiverCallFails \/ ReceiverDestroy
  <2>1. UNCHANGED <<sig, handled, s_cons>>
    BY <1>6 DEF ExtendWindow, WindowExtended, Receive, DropSendCompletion, Repost, SendAck,
                ErrorCompletion, ReceiverCallFails, Stop, ReceiverDestroy
  <2> QED
    BY <2>1, ChannelStutter
<1>7. CASE NicStep \/ UNCHANGED vars
  <2>1. UNCHANGED <<sig, handled, s_cons>>
    BY <1>7, NicFrame
  <2> QED
    BY <2>1, ChannelStutter
<1> QED
  BY <1>1, <1>2, <1>3, <1>4, <1>5, <1>6, <1>7, WhoSteps DEF SenderStep, ReceiverStep

\* The pipeline is a reliable channel with a window of Slots packets.
THEOREM Refinement == Spec => ImplementsChannel
<1>1. Init => Channel!Init
  BY ChannelInit
<1>2. IInv /\ IInv' /\ [Next]_vars => [Channel!Next]_Channel!chanVars
  BY ChannelNext
<1> QED
  BY <1>1, <1>2, Invariance, PTL DEF Spec, ImplementsChannel, Channel!Spec

=============================================================================
