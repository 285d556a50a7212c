----------------------------- MODULE ScpPipeline -----------------------------
(***************************************************************************)
(* The pipeline of scp_rdma: the sender's control packets and its ring of  *)
(* data slots, the receiver's loop, the two rings of CDC receive buffers,  *)
(* and the reliable connection (RC) between the two network adapters.      *)
(*                                                                         *)
(* A packet is put into a slot of the sender's session buffer (lbuf),      *)
(* written into the same slot of the receiver's (rmem) by an RDMA WRITE,   *)
(* announced by a CDC SEND, processed by the receiver and acknowledged by  *)
(* a CDC SEND in the other direction, which frees the slot.                *)
(*                                                                         *)
(* Sender and receiver are one thread each.  A step is what a thread does  *)
(* between two points at which the adapters can see a difference: a write  *)
(* to a slot, a post, a poll.  The adapters execute the work queue in      *)
(* order, place completions, and give an error completion when the peer is *)
(* gone.  Counters of posted, arrived and consumed CDC messages stand for  *)
(* the ring indices cdc_recv_post_idx and cdc_recv_cons_idx: message k is  *)
(* in buffer Ring(k), because receives are posted, filled and consumed in  *)
(* order.                                                                  *)
(***************************************************************************)
EXTENDS Integers, Sequences, FiniteSets

CONSTANTS Slots,      \* DUAL_BUFFER_SLOTS, 4 in the code
          RecvSlots,  \* RDMA_CDC_RECV_SLOTS, 8 in the code
          MaxWc,      \* the capacity of the wc array of one poll, 16 in the code
          MaxChunks,  \* bound: chunks of a file
          MaxNodes,   \* bound: files, links and directories of a transfer
          Faults      \* which of "call" and "link" may fail

ASSUME SlotsAssumption == Slots \in Nat \ {0}
ASSUME RecvSlotsAssumption == RecvSlots \in Nat /\ Slots < RecvSlots
ASSUME MaxWcAssumption == MaxWc \in Nat \ {0}
ASSUME BoundsAssumption == MaxChunks \in Nat /\ MaxNodes \in Nat
ASSUME FaultsAssumption == Faults \subseteq {"call", "link"}

SlotId == 0 .. Slots - 1
Ring(k) == (k - 1) % RecvSlots
RingId == 0 .. RecvSlots - 1

\* Link packets are FILE_META and FILE_DATA packets with file_type SYMLINK.
SyncCmd == {"FILE_META", "LINK_META", "LINK_DATA",
            "DIR_ENTER", "DIR_LEAVE", "TRANSFER_END"}
Cmd == SyncCmd \cup {"FILE_DATA", "NONE"}
\* The n-th packet of the session; n = 0 is the zeroed buffer of scp_rdma_init.
Packet == [n : Nat, cmd : Cmd]
Blank == [n |-> 0, cmd |-> "NONE"]
Announcement == [slot : SlotId, cmd : Cmd]
WorkRequest == [op : {"WRITE", "SEND"}, slot : SlotId, n : Nat]
\* The CDC buffers of the sender's ring and of the receiver's.
AckBuf == [wr_id : SlotId, slot_id : SlotId]
ReadyBuf == [slot_id : SlotId, n : Nat]

VARIABLES
  spc,           \* where the sender is
  job,           \* the control packet being sent, or FILE_META during its chunks
  left,          \* chunks of the file not yet sent
  depth, nodes,  \* directories open, and files, links and directories begun
  slot_free, current_slot, pending_acks,   \* of scp_rdma_context_t
  remote_credits,  \* likewise; it stays 0 and nothing reads it
  lbuf,          \* the slots of the sender's session_buf
  s_post, s_arr, s_cons,  \* ACK receives posted, ACKs arrived, ACKs consumed
  srecv,         \* the sender's ring: wr_id of the receive, slot_id that arrived
  scq,           \* the sender's completion queue
  sq, sdone,     \* send queue; work executed and not yet completed
  qpS,
  sig            \* history: slot and command of every packet announced

VARIABLES
  rpc,           \* where the receiver is
  cur_slot, is_end_packet,  \* locals of scp_receiver_run
  local_credits,
  rmem,          \* the slots of the receiver's session_buf
  r_post, r_arr, r_cons,
  rbuf,          \* the receiver's ring: slot_id and number of the announcement
  rcq, rsq, rdone, qpR,
  handled        \* history: the packets processed

sendVars == <<spc, job, left, depth, nodes>>
slotVars == <<slot_free, current_slot, pending_acks, remote_credits>>
ackVars == <<s_post, s_arr, s_cons, srecv>>
sNicVars == <<scq, sq, sdone, qpS>>
senderVars == <<sendVars, slotVars, lbuf, ackVars, sNicVars, sig>>
recvVars == <<rpc, cur_slot, is_end_packet, local_credits, handled>>
cdcVars == <<r_post, r_arr, r_cons, rbuf>>
rNicVars == <<rcq, rsq, rdone, qpR>>
receiverVars == <<recvVars, rmem, cdcVars, rNicVars>>
vars == <<senderVars, receiverVars>>

-----------------------------------------------------------------------------
\* Both sides have returned from connect_qp, which posts one CDC receive, and
\* the receiver is about to extend its window.

Init ==
  /\ spc = "idle" /\ job = "NONE" /\ left = 0 /\ depth = 0 /\ nodes = 0
  /\ slot_free = [s \in SlotId |-> TRUE]
  /\ current_slot = 0 /\ pending_acks = 0 /\ remote_credits = 0
  /\ lbuf = [s \in SlotId |-> Blank]
  /\ s_post = 1 /\ s_arr = 0 /\ s_cons = 0
  /\ srecv = [i \in RingId |-> [wr_id |-> 0, slot_id |-> 0]]
  /\ scq = <<>> /\ sq = <<>> /\ sdone = <<>> /\ qpS = "RTS"
  /\ sig = <<>>
  /\ rpc = "extend" /\ cur_slot = 0 /\ is_end_packet = FALSE
  /\ local_credits = 0 /\ handled = <<>>
  /\ rmem = [s \in SlotId |-> Blank]
  /\ r_post = 1 /\ r_arr = 0 /\ r_cons = 0
  /\ rbuf = [i \in RingId |-> [slot_id |-> 0, n |-> 0]]
  /\ rcq = <<>> /\ rsq = <<>> /\ rdone = 0 /\ qpR = "RTS"

-----------------------------------------------------------------------------
\* The sender's posts.  A queue pair that is not RTS accepts a work request
\* and flushes it with an error completion; scq already holds one then.

NextPacket(c) == [n |-> Len(sig) + 1, cmd |-> c]

\* rdma_cdc_acquire_post_buf and post_receive_cdc_ex
PostAckRecv(id) ==
  /\ s_post' = s_post + 1
  /\ srecv' = [srecv EXCEPT ![Ring(s_post + 1)].wr_id = id]
  /\ UNCHANGED <<s_arr, s_cons>>

\* post_send and post_send_cdc of the packet in slot s
PostSend(o, s) ==
  sq' = IF qpS = "RTS" THEN Append(sq, [op |-> o, slot |-> s, n |-> Len(sig) + 1])
                       ELSE sq

\* slot_free[slot] = false; pending_acks++, for the packet announced
MarkBusy(s, c) ==
  /\ slot_free' = [slot_free EXCEPT ![s] = FALSE]
  /\ pending_acks' = pending_acks + 1
  /\ sig' = Append(sig, [slot |-> s, cmd |-> c])

-----------------------------------------------------------------------------
\* The sender's polls.  ibv_poll_cq takes up to MaxWc completions; the whole
\* batch is handled before the caller looks at the slots again.

Batch == SubSeq(scq, 1, IF Len(scq) <= MaxWc THEN Len(scq) ELSE MaxWc)
Recvs(q) == {i \in 1 .. Len(q) : q[i] = "RECV"}
Has(q, op) == \E i \in 1 .. Len(q) : q[i] = op

\* Mistake: the slot to free is read from the wr_id of the receive.
HandleAcksByWrId(k) ==
  LET freed == {srecv[Ring(i)].wr_id : i \in s_cons + 1 .. s_cons + k}
  IN  /\ s_cons' = s_cons + k
      /\ slot_free' = [s \in SlotId |-> slot_free[s] \/ s \in freed]
      /\ pending_acks' =
           pending_acks - Cardinality({s \in freed : ~slot_free[s]})
      /\ UNCHANGED <<s_post, s_arr, srecv>>

\* handle_ack_recv for the next k ACKs of the ring: a slot that is already
\* free is not counted down again.
HandleAcks(k) ==
  LET freed == {srecv[Ring(i)].slot_id : i \in s_cons + 1 .. s_cons + k}
  IN  /\ s_cons' = s_cons + k
      /\ slot_free' = [s \in SlotId |-> slot_free[s] \/ s \in freed]
      /\ pending_acks' =
           pending_acks - Cardinality({s \in freed : ~slot_free[s]})
      /\ UNCHANGED <<s_post, s_arr, srecv>>

\* Mistake: the rest of the batch is dropped after its first completion.
PollBatchFirstOnly ==
  /\ HandleAcks(IF scq # <<>> /\ Head(scq) = "RECV" THEN 1 ELSE 0)
  /\ scq' = SubSeq(scq, Len(Batch) + 1, Len(scq))
  /\ UNCHANGED <<current_slot, remote_credits, lbuf, sq, sdone, qpS, sig>>

PollBatch ==
  /\ HandleAcks(Cardinality(Recvs(Batch)))
  /\ scq' = SubSeq(scq, Len(Batch) + 1, Len(scq))
  /\ UNCHANGED <<current_slot, remote_credits, lbuf, sq, sdone, qpS, sig>>

\* scp_sender_run ignores a failure to send TRANSFER_END and returns 0.
FailPc == IF job = "TRANSFER_END" THEN "done" ELSE "failed"

-----------------------------------------------------------------------------
\* The sender

\* What the traversal sends next.  The top-level path is a file, a link or a
\* directory; TRANSFER_END follows it.
MaySend(c) ==
  CASE c \in {"FILE_META", "LINK_META", "DIR_ENTER"} ->
         nodes < MaxNodes /\ (nodes = 0 \/ depth > 0)
    [] c = "DIR_LEAVE" -> depth > 0
    [] c = "TRANSFER_END" -> depth = 0 /\ nodes > 0
    [] OTHER -> FALSE

\* The packet is built in session_buf, which is slot 0, before
\* scp_rdma_send_sync waits for slot 0.
Build(c) ==
  /\ job' = c /\ spc' = "slot0"
  /\ lbuf' = [lbuf EXCEPT ![0] = NextPacket(c)]

StartSync(c) ==
  /\ spc = "idle" /\ MaySend(c)
  /\ Build(c)
  /\ nodes' = IF c \in {"DIR_LEAVE", "TRANSFER_END"} THEN nodes ELSE nodes + 1
  /\ depth' = CASE c = "DIR_ENTER" -> depth + 1
                [] c = "DIR_LEAVE" -> depth - 1
                [] OTHER -> depth
  /\ UNCHANGED <<left, slotVars, ackVars, sNicVars, sig, receiverVars>>

\* The ACK receive is posted before the WRITE of the packet.
SyncWrite ==
  /\ spc = "slot0" /\ slot_free[0]
  /\ PostAckRecv(0)
  /\ PostSend("WRITE", 0)
  /\ spc' = "write"
  /\ UNCHANGED <<job, left, depth, nodes, slotVars, lbuf, scq, sdone, qpS, sig,
                 receiverVars>>

\* wait_for_rdma_write_completion: any WRITE completion ends the wait.
SyncWaitWrite ==
  /\ spc = "write" /\ scq # <<>>
  /\ PollBatch
  /\ spc' = CASE Has(Batch, "ERR") -> FailPc
              [] ~Has(Batch, "ERR") /\ Has(Batch, "WRITE") -> "signal"
              [] OTHER -> "write"
  /\ UNCHANGED <<job, left, depth, nodes, receiverVars>>

SyncSignal ==
  /\ spc = "signal"
  /\ MarkBusy(0, job)
  /\ PostSend("SEND", 0)
  /\ spc' = "ack"
  /\ UNCHANGED <<job, left, depth, nodes, current_slot, remote_credits, lbuf,
                 ackVars, scq, sdone, qpS, receiverVars>>

\* Mistake: the slots are reset without waiting for the ACK of the metadata.
FileMetaNotAcked ==
  /\ spc = "ack" /\ job = "FILE_META"
  /\ \E k \in 0 .. MaxChunks : left' = k
  /\ current_slot' = 0 /\ pending_acks' = 0
  /\ slot_free' = [s \in SlotId |-> TRUE]
  /\ spc' = "chunk"
  /\ UNCHANGED <<job, depth, nodes, remote_credits, lbuf, ackVars, sNicVars, sig,
                 receiverVars>>

\* After its metadata a file resets the slots and goes into the chunk loop.
FileMetaAcked ==
  /\ spc = "ack" /\ slot_free[0] /\ job = "FILE_META"
  /\ \E k \in 0 .. MaxChunks : left' = k
  /\ current_slot' = 0 /\ pending_acks' = 0
  /\ slot_free' = [s \in SlotId |-> TRUE]
  /\ spc' = "chunk"
  /\ UNCHANGED <<job, depth, nodes, remote_credits, lbuf, ackVars, sNicVars, sig,
                 receiverVars>>

\* A link sends its target with a second control packet.
LinkMetaAcked ==
  /\ spc = "ack" /\ slot_free[0] /\ job = "LINK_META"
  /\ Build("LINK_DATA")
  /\ UNCHANGED <<left, depth, nodes, slotVars, ackVars, sNicVars, sig,
                 receiverVars>>

SyncAcked ==
  /\ spc = "ack" /\ slot_free[0] /\ job \notin {"FILE_META", "LINK_META"}
  /\ spc' = IF job = "TRANSFER_END" THEN "done" ELSE "idle"
  /\ UNCHANGED <<job, left, depth, nodes, slotVars, lbuf, ackVars, sNicVars, sig,
                 receiverVars>>

\* Mistake: the chunk is put into a slot that may be busy.
ChunkWriteAnySlot ==
  /\ spc = "chunk" /\ left > 0
  /\ lbuf' = [lbuf EXCEPT ![current_slot] = NextPacket("FILE_DATA")]
  /\ PostAckRecv(current_slot)
  /\ PostSend("WRITE", current_slot)
  /\ spc' = "announce"
  /\ UNCHANGED <<job, left, depth, nodes, slotVars, scq, sdone, qpS, sig,
                 receiverVars>>

\* One round of the chunk loop: the slot is free, pread has filled it, the ACK
\* receive and the WRITE are posted...
ChunkWrite ==
  /\ spc = "chunk" /\ left > 0 /\ slot_free[current_slot]
  /\ lbuf' = [lbuf EXCEPT ![current_slot] = NextPacket("FILE_DATA")]
  /\ PostAckRecv(current_slot)
  /\ PostSend("WRITE", current_slot)
  /\ spc' = "announce"
  /\ UNCHANGED <<job, left, depth, nodes, slotVars, scq, sdone, qpS, sig,
                 receiverVars>>

\* Mistake: current_slot is advanced without the modulus, or not at all.
ChunkSignalTo(next) ==
  /\ spc = "announce"
  /\ MarkBusy(current_slot, "FILE_DATA")
  /\ PostSend("SEND", current_slot)
  /\ current_slot' = next
  /\ left' = left - 1
  /\ spc' = "harvest"
  /\ UNCHANGED <<job, depth, nodes, remote_credits, lbuf, ackVars, scq, sdone, qpS,
                 receiverVars>>
ChunkSignalNoWrap == ChunkSignalTo(current_slot + 1)
ChunkSignalSameSlot == ChunkSignalTo(current_slot)

\* ... and, without waiting for the WRITE, its announcement.
ChunkSignal ==
  /\ spc = "announce"
  /\ MarkBusy(current_slot, "FILE_DATA")
  /\ PostSend("SEND", current_slot)
  /\ current_slot' = (current_slot + 1) % Slots
  /\ left' = left - 1
  /\ spc' = "harvest"
  /\ UNCHANGED <<job, depth, nodes, remote_credits, lbuf, ackVars, scq, sdone, qpS,
                 receiverVars>>

\* harvest_completions(ctx, false): what is there, and nothing if nothing is.
HarvestNonBlocking ==
  /\ spc = "harvest"
  /\ PollBatch
  /\ spc' = IF Has(Batch, "ERR") THEN FailPc ELSE "chunk"
  /\ UNCHANGED <<job, left, depth, nodes, receiverVars>>

\* Mistake: the pending ACKs of a file are not drained.
ChunksDoneNoDrain ==
  /\ spc = "chunk" /\ (left = 0 \/ slot_free[current_slot])
  /\ spc' = "idle"
  /\ UNCHANGED <<job, left, depth, nodes, slotVars, lbuf, ackVars, sNicVars, sig,
                 receiverVars>>

\* The loop ends after the last chunk, or when pread returns nothing.
ChunksDone ==
  /\ spc = "chunk" /\ (left = 0 \/ slot_free[current_slot])
  /\ spc' = "drain"
  /\ UNCHANGED <<job, left, depth, nodes, slotVars, lbuf, ackVars, sNicVars, sig,
                 receiverVars>>

Drained ==
  /\ spc = "drain" /\ pending_acks = 0
  /\ spc' = "idle"
  /\ UNCHANGED <<job, left, depth, nodes, slotVars, lbuf, ackVars, sNicVars, sig,
                 receiverVars>>

\* wait_for_slot and drain_pending_acks: their loops poll while this holds.
MustWait == \/ spc \in {"slot0", "ack"} /\ ~slot_free[0]
            \/ spc = "chunk" /\ left > 0 /\ ~slot_free[current_slot]
            \/ spc = "drain" /\ pending_acks > 0

HarvestBlocking ==
  /\ MustWait /\ scq # <<>>
  /\ PollBatch
  /\ spc' = IF Has(Batch, "ERR") THEN FailPc ELSE spc
  /\ UNCHANGED <<job, left, depth, nodes, receiverVars>>

\* A call returns an error: open, opendir, stat or readlink between packets, a
\* poll, or one of the posts.  SyncSignal undoes its bookkeeping when its
\* post fails, ChunkSignal has not begun it.
SenderCallFails ==
  /\ "call" \in Faults
  /\ spc \notin {"done", "failed", "gone"}
  /\ spc' = FailPc
  /\ \/ UNCHANGED <<lbuf, s_post, srecv>>
     \/ /\ spc = "slot0" /\ slot_free[0]          \* the WRITE is not posted
        /\ s_post' = s_post + 1
        /\ srecv' = [srecv EXCEPT ![Ring(s_post + 1)].wr_id = 0]
        /\ UNCHANGED lbuf
     \/ /\ spc = "chunk" /\ left > 0 /\ slot_free[current_slot]
        /\ lbuf' = [lbuf EXCEPT ![current_slot] = NextPacket("FILE_DATA")]
        /\ \/ UNCHANGED <<s_post, srecv>>
           \/ /\ s_post' = s_post + 1
              /\ srecv' = [srecv EXCEPT ![Ring(s_post + 1)].wr_id = current_slot]
  /\ UNCHANGED <<job, left, depth, nodes, slotVars, s_arr, s_cons, sNicVars, sig,
                 receiverVars>>

\* scp_rdma_destroy: work that is still queued is dropped with the queue pair.
SenderDestroy ==
  /\ spc \in {"done", "failed"}
  /\ spc' = "gone" /\ qpS' = "GONE"
  /\ scq' = <<>> /\ sq' = <<>> /\ sdone' = <<>>
  /\ UNCHANGED <<job, left, depth, nodes, slotVars, lbuf, ackVars, sig, receiverVars>>

-----------------------------------------------------------------------------
\* The receiver

PostCdcRecv == r_post' = r_post + 1 /\ UNCHANGED <<r_arr, r_cons, rbuf>>

\* The window grows from the receive of connect_qp to RecvSlots receives.
ExtendWindow ==
  /\ rpc = "extend" /\ r_post < RecvSlots
  /\ PostCdcRecv
  /\ UNCHANGED <<senderVars, recvVars, rmem, rNicVars>>

\* Mistake: the window stays as connect_qp left it.
WindowNotExtended ==
  /\ rpc = "extend"
  /\ rpc' = "poll" /\ local_credits' = RecvSlots
  /\ UNCHANGED <<senderVars, cur_slot, is_end_packet, handled, rmem, cdcVars, rNicVars>>

WindowExtended ==
  /\ rpc = "extend" /\ r_post = RecvSlots
  /\ rpc' = "poll" /\ local_credits' = RecvSlots
  /\ UNCHANGED <<senderVars, cur_slot, is_end_packet, handled, rmem, cdcVars, rNicVars>>

\* rdma_cdc_completion takes one completion at a time and drops those of its
\* own ACKs; for a RECV the next CDC buffer is consumed.
Receive ==
  /\ rpc = "poll" /\ rcq # <<>> /\ Head(rcq) = "RECV"
  /\ rcq' = Tail(rcq)
  /\ r_cons' = r_cons + 1
  /\ local_credits' = IF local_credits > 0 THEN local_credits - 1 ELSE local_credits
  /\ cur_slot' = rbuf[Ring(r_cons + 1)].slot_id
  /\ rpc' = "handle"
  /\ UNCHANGED <<senderVars, is_end_packet, handled, rmem, r_post, r_arr, rbuf,
                 rsq, rdone, qpR>>

DropSendCompletion ==
  /\ rpc = "poll" /\ rcq # <<>> /\ Head(rcq) = "SEND"
  /\ rcq' = Tail(rcq)
  /\ UNCHANGED <<senderVars, recvVars, rmem, cdcVars, rsq, rdone, qpR>>

\* Mistake: TRANSFER_END is processed like any other packet.
HandleNeverEnds ==
  /\ rpc = "handle"
  /\ handled' = Append(handled, rmem[cur_slot])
  /\ is_end_packet' = FALSE
  /\ rpc' = "repost"
  /\ UNCHANGED <<senderVars, cur_slot, local_credits, rmem, cdcVars, rNicVars>>

\* The header is validated and the packet dispatched; a slot that was never
\* written has no magic number, and the receiver stops.  No receive is posted
\* for TRANSFER_END.
Handle ==
  /\ rpc = "handle"
  /\ LET p == rmem[cur_slot]
         valid == p.cmd # "NONE"
     IN  /\ handled' = IF valid THEN Append(handled, p) ELSE handled
         /\ is_end_packet' = (p.cmd = "TRANSFER_END")
         /\ rpc' = CASE ~valid -> "stopped"
                     [] p.cmd = "TRANSFER_END" -> "ack"
                     [] OTHER -> "repost"
  /\ UNCHANGED <<senderVars, cur_slot, local_credits, rmem, cdcVars, rNicVars>>

\* Mistake: the credit of the receive that is posted is not counted.
RepostWithoutCredit ==
  /\ rpc = "repost"
  /\ PostCdcRecv
  /\ rpc' = "ack"
  /\ UNCHANGED <<senderVars, cur_slot, is_end_packet, local_credits, handled, rmem,
                 rNicVars>>

\* The next receive is posted before the ACK is, so that the announcement
\* that the ACK lets the sender make finds it.
Repost ==
  /\ rpc = "repost"
  /\ PostCdcRecv
  /\ local_credits' = local_credits + 1
  /\ rpc' = "ack"
  /\ UNCHANGED <<senderVars, cur_slot, is_end_packet, handled, rmem, rNicVars>>

\* Mistake: the ACK does not carry the slot of the announcement.
SendAckWithoutSlot ==
  /\ rpc = "ack"
  /\ rsq' = IF qpR = "RTS" THEN Append(rsq, 0) ELSE rsq
  /\ rpc' = IF is_end_packet THEN "stopped" ELSE "poll"
  /\ UNCHANGED <<senderVars, cur_slot, is_end_packet, local_credits, handled, rmem,
                 cdcVars, rcq, rdone, qpR>>

SendAck ==
  /\ rpc = "ack"
  /\ rsq' = IF qpR = "RTS" THEN Append(rsq, cur_slot) ELSE rsq
  /\ rpc' = IF is_end_packet THEN "stopped" ELSE "poll"
  /\ UNCHANGED <<senderVars, cur_slot, is_end_packet, local_credits, handled, rmem,
                 cdcVars, rcq, rdone, qpR>>

Stop ==
  /\ rpc' = "stopped"
  /\ UNCHANGED <<senderVars, cur_slot, is_end_packet, local_credits, handled, rmem,
                 cdcVars, rNicVars>>

\* An error completion ends the loop, and so does a poll or a post that fails.
ErrorCompletion ==
  rpc = "poll" /\ rcq # <<>> /\ Head(rcq) = "ERR" /\ Stop

ReceiverCallFails ==
  "call" \in Faults /\ rpc \in {"extend", "poll", "repost", "ack"} /\ Stop

ReceiverDestroy ==
  /\ rpc = "stopped"
  /\ rpc' = "gone" /\ qpR' = "GONE"
  /\ rcq' = <<>> /\ rsq' = <<>> /\ rdone' = 0
  /\ UNCHANGED <<senderVars, cur_slot, is_end_packet, local_credits, handled, rmem,
                 cdcVars>>

-----------------------------------------------------------------------------
\* The adapters: a reliable connection executes the work of a send queue in
\* order.  rnr_retry is 0, so a SEND that finds no receive is an error; NoRNR
\* says that it always finds one.

Connected == qpS = "RTS" /\ qpR = "RTS"

NicWrite ==
  /\ Connected /\ sq # <<>> /\ Head(sq).op = "WRITE"
  /\ rmem' = [rmem EXCEPT ![Head(sq).slot] = lbuf[Head(sq).slot]]
  /\ sq' = Tail(sq) /\ sdone' = Append(sdone, "WRITE")
  /\ UNCHANGED <<sendVars, slotVars, lbuf, ackVars, scq, qpS, sig, recvVars, cdcVars,
                 rNicVars>>

NicSend ==
  /\ Connected /\ sq # <<>> /\ Head(sq).op = "SEND"
  /\ r_arr < r_post
  /\ r_arr' = r_arr + 1
  /\ rbuf' = [rbuf EXCEPT ![Ring(r_arr + 1)] = [slot_id |-> Head(sq).slot,
                                                n |-> Head(sq).n]]
  /\ rcq' = Append(rcq, "RECV")
  /\ sq' = Tail(sq) /\ sdone' = Append(sdone, "SEND")
  /\ UNCHANGED <<sendVars, slotVars, lbuf, ackVars, scq, qpS, sig, recvVars, rmem,
                 r_post, r_cons, rsq, rdone, qpR>>

\* The transport's acknowledgement of executed work may arrive late.
NicComplete ==
  /\ qpS = "RTS" /\ sdone # <<>>
  /\ scq' = Append(scq, Head(sdone)) /\ sdone' = Tail(sdone)
  /\ UNCHANGED <<sendVars, slotVars, lbuf, ackVars, sq, qpS, sig, receiverVars>>

NicAck ==
  /\ Connected /\ rsq # <<>>
  /\ s_arr < s_post
  /\ s_arr' = s_arr + 1
  /\ srecv' = [srecv EXCEPT ![Ring(s_arr + 1)].slot_id = Head(rsq)]
  /\ scq' = Append(scq, "RECV")
  /\ rsq' = Tail(rsq) /\ rdone' = rdone + 1
  /\ UNCHANGED <<sendVars, slotVars, lbuf, s_post, s_cons, sq, sdone, qpS, sig,
                 recvVars, rmem, cdcVars, rcq, qpR>>

NicAckComplete ==
  /\ qpR = "RTS" /\ rdone > 0
  /\ rdone' = rdone - 1 /\ rcq' = Append(rcq, "SEND")
  /\ UNCHANGED <<senderVars, recvVars, rmem, cdcVars, rsq, qpR>>

\* The retries of outstanding work run out when the peer's queue pair is gone,
\* and also when the link is down.  Everything outstanding is flushed; one
\* error completion stands for all of them, since the first one read is the
\* last one read.
NicErrorS ==
  /\ qpS = "RTS" /\ (sq # <<>> \/ sdone # <<>>)
  /\ qpR # "RTS" \/ "link" \in Faults
  /\ qpS' = "ERR" /\ scq' = Append(scq, "ERR") /\ sq' = <<>> /\ sdone' = <<>>
  /\ UNCHANGED <<sendVars, slotVars, lbuf, ackVars, sig, receiverVars>>

NicErrorR ==
  /\ qpR = "RTS" /\ (rsq # <<>> \/ rdone > 0)
  /\ qpS # "RTS" \/ "link" \in Faults
  /\ qpR' = "ERR" /\ rcq' = Append(rcq, "ERR") /\ rsq' = <<>> /\ rdone' = 0
  /\ UNCHANGED <<senderVars, recvVars, rmem, cdcVars>>

-----------------------------------------------------------------------------

SenderStep == \/ \E c \in SyncCmd : StartSync(c)
              \/ SyncWrite \/ SyncWaitWrite \/ SyncSignal
              \/ FileMetaAcked \/ LinkMetaAcked \/ SyncAcked
              \/ ChunkWrite \/ ChunkSignal \/ HarvestNonBlocking
              \/ ChunksDone \/ Drained \/ HarvestBlocking \/ SenderDestroy

ReceiverStep == \/ ExtendWindow \/ WindowExtended \/ Receive \/ DropSendCompletion
                \/ Handle \/ Repost \/ SendAck \/ ErrorCompletion \/ ReceiverDestroy

NicStepS == NicWrite \/ NicSend \/ NicErrorS
NicStepR == NicAck \/ NicErrorR

Next == \/ SenderStep \/ SenderCallFails \/ ReceiverStep \/ ReceiverCallFails
        \/ NicStepS \/ NicStepR \/ NicComplete \/ NicAckComplete

Spec == Init /\ [][Next]_vars

\* Each thread is scheduled; each adapter executes what is queued and completes
\* what is executed.
Fairness == /\ WF_vars(SenderStep) /\ WF_vars(ReceiverStep)
            /\ WF_vars(NicStepS) /\ WF_vars(NicStepR)
            /\ WF_vars(NicComplete) /\ WF_vars(NicAckComplete)

FairSpec == Spec /\ Fairness

-----------------------------------------------------------------------------
\* Properties

\* Every variable has its type.
TypeOK ==
  /\ spc \in {"idle", "slot0", "write", "signal", "ack", "chunk", "announce",
              "harvest", "drain", "done", "failed", "gone"}
  /\ job \in SyncCmd \cup {"NONE"}
  /\ left \in Nat /\ depth \in Nat /\ nodes \in Nat
  /\ slot_free \in [SlotId -> BOOLEAN]
  /\ current_slot \in SlotId /\ pending_acks \in Int /\ remote_credits \in Nat
  /\ lbuf \in [SlotId -> Packet]
  /\ s_post \in Nat /\ s_arr \in Nat /\ s_cons \in Nat
  /\ srecv \in [RingId -> AckBuf]
  /\ scq \in Seq({"WRITE", "SEND", "RECV", "ERR"})
  /\ sq \in Seq(WorkRequest)
  /\ sdone \in Seq({"WRITE", "SEND"})
  /\ qpS \in {"RTS", "ERR", "GONE"}
  /\ sig \in Seq(Announcement)
  /\ rpc \in {"extend", "poll", "handle", "repost", "ack", "stopped", "gone"}
  /\ cur_slot \in SlotId /\ is_end_packet \in BOOLEAN /\ local_credits \in Nat
  /\ rmem \in [SlotId -> Packet]
  /\ r_post \in Nat /\ r_arr \in Nat /\ r_cons \in Nat
  /\ rbuf \in [RingId -> ReadyBuf]
  /\ rcq \in Seq({"SEND", "RECV", "ERR"}) /\ rsq \in Seq(SlotId)
  /\ rdone \in Nat /\ qpR \in {"RTS", "ERR", "GONE"}
  /\ handled \in Seq(Packet)

Busy == {s \in SlotId : ~slot_free[s]}
Processing == rpc \in {"handle", "repost", "ack"}

\* pending_acks counts the busy slots, and these are the slots of the packets
\* announced and not acknowledged: no ACK is lost by the reset of the slots
\* after FILE_META, none is counted twice, and no slot is announced twice.
SlotAccounting ==
  /\ pending_acks = Cardinality(Busy)
  /\ pending_acks = Len(sig) - s_cons
  /\ Busy = {sig[n].slot : n \in s_cons + 1 .. Len(sig)}

\* While the receiver works on an announcement, its slot holds the packet that
\* was announced: neither the WRITE of a later packet nor the reuse of a CDC
\* buffer gets in between.
ProcessesWhatWasAnnounced ==
  Processing =>
    /\ cur_slot = sig[r_cons].slot
    /\ rmem[cur_slot] = [n |-> r_cons, cmd |-> sig[r_cons].cmd]

\* A SEND always finds a posted receive, in both directions: with rnr_retry 0
\* anything else is a fatal error (the comments of post_send_cdc).
NoRNR ==
  Connected => /\ sq # <<>> /\ Head(sq).op = "SEND" => r_arr < r_post
               /\ rsq # <<>> => s_arr < s_post

\* A CDC buffer keeps its message until it has been consumed, and the
\* receiver's until SendAck has copied it, though Repost has given the buffer
\* back to the adapter before that.
CdcBuffersIntact ==
  /\ \A k \in s_cons + 1 .. s_arr : srecv[Ring(k)].slot_id = sig[k].slot
  /\ \A k \in r_cons + 1 .. r_arr :
        rbuf[Ring(k)] = [slot_id |-> sig[k].slot, n |-> k]
  /\ Processing => rbuf[Ring(r_cons)].n = r_cons

\* No ACK receive is posted on a buffer whose ACK has not been consumed.
AckRingNotOverrun == s_post - s_cons <= RecvSlots

\* The slot of a WRITE that the adapter has not executed is not touched, though
\* control packets are built in slot 0 before it is known to be free.
LocalSlotStable ==
  \A i \in 1 .. Len(sq) : sq[i].op = "WRITE" => lbuf[sq[i].slot].n = sq[i].n

\* When the chunk loop blocks, every slot is busy: skipping the slot that is
\* not free (README.md, the pipeline diagram) would find no other.
BlockedOnlyWhenFull ==
  spc = "chunk" /\ left > 0 /\ ~slot_free[current_slot] => Busy = SlotId

\* local_credits is the number of receives beyond the announcement in hand.
CreditsAccurate == rpc \notin {"extend", "stopped", "gone"} => local_credits = r_post - r_cons

\* The two programs never wait for each other, though neither ever gives up a
\* wait: when both poll an empty queue, what the sender needs is on its way.
NeverBothWait ==
  rpc = "poll" /\ rcq = <<>> /\ scq = <<>> =>
    /\ MustWait => Connected /\ (sq # <<>> \/ rsq # <<>>)
    /\ spc = "write" => \/ qpS = "RTS" /\ Has(sdone, "WRITE")
                        \/ Connected /\ \E i \in 1 .. Len(sq) : sq[i].op = "WRITE"

\* A slot of the receiver is overwritten only after the sender has consumed the
\* ACK of the packet in it.
OverwriteOnlyAcked ==
  [][\A s \in SlotId : rmem'[s] # rmem[s] => rmem[s].n <= s_cons]_vars

\* The pipeline is a reliable channel with a window of Slots packets: they are
\* processed in the order they were announced and an ACK means processed.
Channel == INSTANCE PacketChannel WITH
  Packet <- Packet, Window <- Slots,
  sent <- [i \in 1 .. Len(sig) |-> [n |-> i, cmd |-> sig[i].cmd]],
  delivered <- handled,
  acked <- s_cons
ImplementsChannel == Channel!Spec

\* Without faults the receiver ends with TRANSFER_END, having processed every
\* packet.
ReceiverFinishes == <>(rpc = "gone" /\ is_end_packet /\ Len(handled) = Len(sig))

\* Without faults a wait of the sender for a slot ends, except that for the ACK
\* of TRANSFER_END.
WaitsEnd == (MustWait /\ job # "TRANSFER_END") ~> ~MustWait

-----------------------------------------------------------------------------
\* Statements of the repository that the code does not keep

\* rdma_cdc.h: the wr_id of a receive says which slot its ACK is for.
WrIdNamesSlot ==
  \A k \in s_cons + 1 .. s_arr : srecv[Ring(k)].wr_id = srecv[Ring(k)].slot_id

\* scp_rdma_receiver.c: without the ACK of TRANSFER_END the sender times out.
SenderEnds == <>(spc \in {"done", "failed", "gone"})

\* wait_for_rdma_write_completion: the completion it takes is that of the WRITE
\* just posted.
SignalAfterWrite == spc = "signal" /\ qpS = "RTS" => sq = <<>>
=============================================================================
