--------------------------- MODULE ScpPipelineInv ----------------------------
(***************************************************************************)
(* The inductive invariant of ScpPipeline.  TLC checks it on small         *)
(* instances, ScpPipelineProofs proves it.                                 *)
(*                                                                         *)
(* The packets of a session are numbered; sig[n] is the n-th announced.    *)
(* Every counter of the protocol cuts the sequence of packets somewhere:   *)
(*                                                                         *)
(*    s_cons <= s_arr <= r_cons <= r_arr <= Len(sig) <= s_cons + Slots     *)
(*    freed     ACK      taken     arrived  announced                      *)
(*                                                                         *)
(* and the invariant says what the slots, rings and queues hold of the     *)
(* packets between two of the cuts.                                        *)
(***************************************************************************)
EXTENDS ScpPipeline

N == Len(sig)
Pk(n) == [n |-> n, cmd |-> sig[n].cmd]
SenderActive == spc \notin {"done", "failed", "gone"}

\* A WRITE has been posted and its announcement has not: the packet N + 1.
Writing == spc \in {"write", "signal", "announce"}
WritingSlot == IF spc = "announce" THEN current_slot ELSE 0
WritingPk == [n |-> N + 1, cmd |-> IF spc = "announce" THEN "FILE_DATA" ELSE job]

\* Control packets are sent with nothing pending; the first of all packets is
\* one, and chunks follow an acknowledged FILE_META.
PhaseInv ==
  /\ spc \in {"idle", "slot0", "write", "signal"} => s_cons = N
  /\ spc = "ack" => /\ N >= 1 /\ N <= s_cons + 1
                    /\ s_cons < N => sig[N].slot = 0
  /\ spc \in {"chunk", "announce", "harvest", "drain"} => s_cons >= 1
  /\ N <= 1 \/ s_cons >= 1
  /\ spc = "slot0" => lbuf[0] = [n |-> N + 1, cmd |-> job]
  /\ spc = "announce" => slot_free[current_slot] /\ left > 0
  /\ spc # "idle" /\ SenderActive => job # "NONE"
  /\ \A n \in 1 .. N : sig[n].cmd # "NONE"

\* The packets announced and not acknowledged occupy distinct slots, and these
\* are the busy ones.
OwnInv ==
  /\ \A n \in s_cons + 1 .. N : ~slot_free[sig[n].slot]
  /\ \A m, n \in s_cons + 1 .. N : sig[m].slot = sig[n].slot => m = n
  /\ \A s \in SlotId : ~slot_free[s] =>
        \E n \in s_cons + 1 .. N : sig[n].slot = s
  /\ pending_acks = N - s_cons

\* A file's chunks take the slots in turn: the packet d announcements ago is in
\* the slot d places before current_slot.
Before(d) == IF d <= current_slot THEN current_slot - d ELSE current_slot + Slots - d

InLoop == spc \in {"chunk", "announce", "harvest"}

TurnInv ==
  InLoop =>
    \A n \in s_cons + 1 .. N : sig[n].slot = Before(N + 1 - n)

\* The cuts, and how the queues between them account for the difference.
ChainInv ==
  /\ s_cons <= s_arr /\ s_arr + Len(rsq) <= r_cons
  /\ Processing => s_arr + Len(rsq) < r_cons
  /\ qpR = "RTS" /\ rpc \notin {"stopped", "gone"} =>
       s_arr + Len(rsq) = IF Processing THEN r_cons - 1 ELSE r_cons
  /\ r_cons <= r_arr /\ r_arr <= N
  /\ spc # "gone" => Cardinality(Recvs(scq)) = s_arr - s_cons
  /\ rpc # "gone" => Cardinality(Recvs(rcq)) = r_arr - r_cons

\* The queues are dropped with their queue pair.
DownInv ==
  /\ qpS # "RTS" => sq = <<>>
  /\ qpR # "RTS" => rsq = <<>>
  /\ rpc \notin {"stopped", "gone"} => qpR # "GONE"

\* The send queue holds WRITE r_arr+1, SEND r_arr+1, WRITE r_arr+2, ... up to
\* what was posted last, perhaps without the first of these.
Idx(e) == IF e.op = "WRITE" THEN 2 * e.n - 1 ELSE 2 * e.n

QueueInv ==
  /\ sq # <<>> => sq[1].n = r_arr + 1
  /\ \A i \in 1 .. Len(sq) : Idx(sq[i]) = Idx(sq[1]) + i - 1
  /\ sq # <<>> => LET p == Idx(sq[Len(sq)]) IN
       /\ p <= 2 * N + 1
       /\ SenderActive => p = 2 * N + (IF Writing THEN 1 ELSE 0)
  /\ SenderActive /\ qpS = "RTS" /\ sq = <<>> => r_arr = N
  /\ \A i \in 1 .. Len(sq) :
       /\ sq[i].n <= N => /\ sq[i].slot = sig[sq[i].n].slot
                          /\ sq[i].op = "WRITE" => lbuf[sq[i].slot] = Pk(sq[i].n)
       /\ sq[i].n > N => /\ slot_free[sq[i].slot]
                         /\ lbuf[sq[i].slot].n = sq[i].n
                         /\ SenderActive => /\ sq[i].slot = WritingSlot
                                            /\ lbuf[sq[i].slot] = WritingPk

\* The receiver's slots hold the packets that have arrived and are not
\* acknowledged, and the packet whose announcement is the next to arrive;
\* everything else in them is acknowledged.
MemInv ==
  /\ \A n \in s_cons + 1 .. r_arr : rmem[sig[n].slot] = Pk(n)
  /\ sq # <<>> /\ sq[1].op = "SEND" => rmem[sq[1].slot] = Pk(r_arr + 1)
  /\ Writing /\ qpS = "RTS" /\ sq = <<>> => rmem[WritingSlot] = WritingPk
  /\ \A s \in SlotId : rmem[s].n > s_cons =>
       \/ rmem[s].n <= r_arr /\ sig[rmem[s].n].slot = s
       \/ /\ rmem[s].n = r_arr + 1
          /\ sq # <<>> => sq[1].op = "SEND" /\ sq[1].slot = s
          /\ SenderActive /\ qpS = "RTS" /\ sq = <<>> => Writing /\ WritingSlot = s

\* The rings and the ACKs on their way name the slots of these packets.
RingInv ==
  /\ \A k \in s_cons + 1 .. s_arr : srecv[Ring(k)].slot_id = sig[k].slot
  /\ \A k \in s_cons + 1 .. r_arr :
        rbuf[Ring(k)] = [slot_id |-> sig[k].slot, n |-> k]
  /\ \A j \in 1 .. Len(rsq) : rsq[j] = sig[s_arr + j].slot
  /\ Processing => cur_slot = sig[r_cons].slot

\* How many receives the sender has posted for ACKs ...
AckPostInv ==
  /\ s_post >= N + 1
  /\ SenderActive => s_post = N + 1 + (IF Writing THEN 1 ELSE 0)
  /\ s_post - s_cons <= Slots + 1

\* ... and the receiver for announcements.
CdcPostInv ==
  /\ rpc = "extend" => r_cons = 0 /\ r_post <= RecvSlots
  /\ r_post >= r_cons - 1 + RecvSlots \/ (r_cons = 0 /\ r_post >= 1)
  /\ rpc = "poll" => r_post = r_cons + RecvSlots
  /\ rpc \in {"handle", "repost"} => r_post = r_cons - 1 + RecvSlots
  /\ rpc = "ack" =>
       r_post = r_cons + RecvSlots - (IF is_end_packet THEN 1 ELSE 0)
  /\ rpc = "repost" => ~is_end_packet
  /\ CreditsAccurate

\* What has been processed is what was announced.
HandledInv ==
  /\ Len(handled) = IF rpc = "handle" THEN r_cons - 1 ELSE r_cons
  /\ \A i \in 1 .. Len(handled) : handled[i] = Pk(i)

\* What ends a wait is not dropped: the error completion of a queue pair that is
\* down stays in its queue until it ends the program, and the WRITE of a control
\* packet is queued, executed or completed until the sender has seen it.
WriteQueued == \E i \in 1 .. Len(sq) : sq[i].op = "WRITE"

WaitInv ==
  /\ SenderActive => /\ qpS # "GONE"
                     /\ qpS = "ERR" => Has(scq, "ERR")
  /\ rpc \notin {"stopped", "gone"} /\ qpR = "ERR" => Has(rcq, "ERR")
  /\ spc = "write" /\ qpS = "RTS" =>
       Has(scq, "WRITE") \/ Has(sdone, "WRITE") \/ WriteQueued

IInv == /\ TypeOK
        /\ PhaseInv /\ OwnInv /\ TurnInv /\ ChainInv /\ DownInv /\ QueueInv
        /\ MemInv /\ RingInv /\ AckPostInv /\ CdcPostInv /\ HandledInv /\ WaitInv
=============================================================================
