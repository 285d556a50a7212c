------------------------------ MODULE ScpSession ------------------------------
(***************************************************************************)
(* A session of scp_rdma around its transfer: what each program allocates, *)
(* the TCP connection, the exchange of the buffer length and of the        *)
(* connection data over it, the way of the queue pair to RTS, and the      *)
(* release of everything by rdma_trans_destroy and scp_rdma_destroy.       *)
(*                                                                         *)
(* One server, which takes one session and ends, and any number of clients *)
(* that try to reach it.  A step is a call that another program or the     *)
(* kernel can notice: opening or releasing a resource, connect, accept, a  *)
(* read or write of some bytes, a change of the queue pair.  Any call may  *)
(* fail and any program may be killed, MaxFaults times in all.             *)
(*                                                                         *)
(* The transfer itself is ScpPipeline, which starts where both sides are   *)
(* "established" here.                                                     *)
(***************************************************************************)
EXTENDS Integers, Sequences

CONSTANTS Clients,   \* the clients
          Server,    \* the server
          Nobody,    \* no side, or connection data that no side has sent
          LenSize,   \* bytes of the length message, sizeof(size_t) in the code
          ConSize,   \* bytes of the connection data, sizeof(struct cm_con_data_ex_t)
          Lid,       \* the 16-bit lid of each side's port, 0 if it has none
          GidIdx,    \* the -g option of each side; a negative one means no gid
          MaxFaults  \* bound: calls that fail and programs that are killed

Side == Clients \cup {Server}

ASSUME SidesAssumption == Server \notin Clients /\ Nobody \notin Side
ASSUME SizesAssumption == LenSize \in Nat \ {0} /\ ConSize \in Nat \ {0}
ASSUME AddressAssumption ==
  /\ Lid \in [Side -> Nat] /\ \A p \in Side : Lid[p] < 65536
  /\ GidIdx \in [Side -> Int]
ASSUME FaultsAssumption == MaxFaults \in Nat

\* The objects of the kernel and of the adapter, and the pointers and
\* descriptors that name them.  sge_mr, session_mr and the two data_sges of a
\* chunk's work request are the same memory region.
Verbs == {"pd", "comp_channel", "cq", "qp", "mr", "cdc_mr"}
Object == Verbs \cup {"ib_ctx", "epoll_fd", "sock"}
Handle == (Object \ {"mr"}) \cup {"sge_mr", "session_mr", "data_mr1", "data_mr2"}
Named(h) == IF h \in {"sge_mr", "session_mr", "data_mr1", "data_mr2"} THEN "mr" ELSE h

\* What must be gone before an object can be: the verbs refuse otherwise.
Users(o) == CASE o = "pd" -> {"qp", "mr", "cdc_mr"}
              [] o = "cq" -> {"qp"}
              [] o = "comp_channel" -> {"cq"}
              [] OTHER -> {}

\* The bytes of the two messages, each with its message, writer and position.
Byte == [of : {"length", "con_data"}, by : Side, at : Nat]
LengthMsg(p) == [i \in 1 .. LenSize |-> [of |-> "length", by |-> p, at |-> i]]
ConData(p) == [i \in 1 .. ConSize |-> [of |-> "con_data", by |-> p, at |-> i]]

\* The values of msg->wr_len: not known, SCP_MULTI_BUFFER_TOTAL_SIZE, other.
WrLen == {"zero", "total", "garbage"}

VARIABLES
  pc,         \* where each program is
  live,       \* the objects that exist
  handle,     \* the pointers that are not NULL, the descriptors that are not -1
  todo,       \* the handles still to be released by the destroy that runs
  listening,  \* the server's listening socket is open
  conn,       \* the connection of each client: none, queued or accepted
  peer,       \* the client whose connection the server has accepted
  stream,     \* what a side has written and its peer has not read
  written,    \* bytes of the length message written
  got,        \* bytes of the current message read
  wr_len,     \* msg->wr_len
  remote,     \* whose connection data is in remote_props
  qp,         \* state of the queue pair
  posted,     \* CDC receives posted
  faults,     \* calls that have failed and programs that have been killed
  tornDown,   \* history: rdma_trans_destroy has run
  stale,      \* history: handles released after their object was gone
  refused     \* history: handles whose release was refused

resVars == <<live, handle, todo, tornDown, stale, refused>>
tcpVars == <<listening, conn, peer>>
msgVars == <<stream, written, got, wr_len, remote>>
qpVars == <<qp, posted>>
vars == <<pc, resVars, tcpVars, msgVars, qpVars, faults>>

Init ==
  /\ pc = [p \in Side |-> "init"] /\ faults = 0
  /\ live = [p \in Side |-> {}] /\ handle = [p \in Side |-> {}]
  /\ todo = [p \in Side |-> {}]
  /\ tornDown = [p \in Side |-> FALSE]
  /\ stale = [p \in Side |-> {}] /\ refused = [p \in Side |-> {}]
  /\ listening = FALSE /\ conn = [c \in Clients |-> "none"] /\ peer = Nobody
  /\ stream = [p \in Side |-> <<>>] /\ written = [p \in Side |-> 0]
  /\ got = [p \in Side |-> <<>>] /\ wr_len = [p \in Side |-> "zero"]
  /\ remote = [p \in Side |-> Nobody]
  /\ qp = [p \in Side |-> "NONE"] /\ posted = [p \in Side |-> 0]

-----------------------------------------------------------------------------
\* Ways on.  At the end of a process the kernel takes back what is left, and
\* what the process knew is gone.

Goto(p, l) == pc' = [pc EXCEPT ![p] = l]

Hold(p, hs) ==
  /\ handle' = [handle EXCEPT ![p] = @ \cup hs]
  /\ live' = [live EXCEPT ![p] = @ \cup {Named(h) : h \in hs}]

\* Mistake: the protection domain is released before the ring's region.
DestroyOrderPdFirst == <<"session_mr", "qp", "cq", "epoll_fd", "comp_channel",
                         "pd", "cdc_mr", "ib_ctx", "sock">>
\* what scp_rdma_destroy releases
DestroyOrder == <<"session_mr", "cdc_mr", "qp", "cq", "epoll_fd",
                  "comp_channel", "pd", "ib_ctx", "sock">>
\* Mistake: the memory regions are released before the queue pair.
TransDestroyOrderMrFirst == <<"sge_mr", "data_mr1", "data_mr2", "qp", "cq", "pd",
                              "ib_ctx", "sock", "cdc_mr">>
\* and rdma_trans_destroy, of the message's regions those that it has
TransDestroyOrder == <<"qp", "sge_mr", "data_mr1", "data_mr2", "cq", "pd",
                       "ib_ctx", "sock", "cdc_mr">>
Elements(order) == {order[i] : i \in DOMAIN order}

\* return to main with the handles held; main calls scp_rdma_destroy
Destroy(p, held) == /\ Goto(p, "destroy")
                    /\ todo' = [todo EXCEPT ![p] = Elements(DestroyOrder) \cap held]
\* an error in rdma_trans_init or rdma_trans_post, for a message with the regions mrs
TransDestroy(p, mrs) ==
  /\ Goto(p, "trans_destroy")
  /\ todo' = [todo EXCEPT ![p] =
        mrs \cup ({"qp", "cq", "pd", "ib_ctx", "sock", "cdc_mr"} \cap handle[p])]
  /\ tornDown' = [tornDown EXCEPT ![p] = TRUE]

End(p) ==
  /\ Goto(p, "ended")
  /\ live' = [live EXCEPT ![p] = {}] /\ handle' = [handle EXCEPT ![p] = {}]
  /\ todo' = [todo EXCEPT ![p] = {}] /\ tornDown' = [tornDown EXCEPT ![p] = FALSE]
  /\ stale' = [stale EXCEPT ![p] = {}] /\ refused' = [refused EXCEPT ![p] = {}]
  /\ listening' = (listening /\ p # Server)
  /\ written' = [written EXCEPT ![p] = 0] /\ got' = [got EXCEPT ![p] = <<>>]
  /\ wr_len' = [wr_len EXCEPT ![p] = "zero"] /\ remote' = [remote EXCEPT ![p] = Nobody]
  /\ qp' = [qp EXCEPT ![p] = "NONE"] /\ posted' = [posted EXCEPT ![p] = 0]
  /\ UNCHANGED <<conn, peer, stream>>

-----------------------------------------------------------------------------
\* scp_rdma_init: rdma_context_init, pd_create, cq_create_async, qp_create and
\* the buffers; then the first packet of scp_sender_run or the first round of
\* scp_receiver_run, which clears wr_len.  main returns at once when
\* scp_rdma_init fails.

\* Mistake: the receiver does not clear wr_len.
ScpRdmaInitKeepsLength(p) ==
  /\ pc[p] = "init"
  /\ Hold(p, {"ib_ctx", "pd", "comp_channel", "cq", "epoll_fd", "qp"})
  /\ qp' = [qp EXCEPT ![p] = "RESET"]
  /\ Goto(p, IF p = Server THEN "listen" ELSE "connect")
  /\ wr_len' = [wr_len EXCEPT ![p] = "total"]
  /\ UNCHANGED <<todo, tornDown, stale, refused, tcpVars, stream, written, got, remote, posted>>

ScpRdmaInit(p) ==
  /\ pc[p] = "init"
  /\ Hold(p, {"ib_ctx", "pd", "comp_channel", "cq", "epoll_fd", "qp"})
  /\ qp' = [qp EXCEPT ![p] = "RESET"]
  /\ Goto(p, IF p = Server THEN "listen" ELSE "connect")
  /\ wr_len' = [wr_len EXCEPT ![p] = IF p = Server THEN "zero" ELSE "total"]
  /\ UNCHANGED <<todo, tornDown, stale, refused, tcpVars, stream, written, got, remote, posted>>
InitFails(p) == pc[p] = "init" /\ End(p)

-----------------------------------------------------------------------------
\* sock_established: sock_connect of both sides.  A client does not wait for
\* a server; the server waits in accept, and keeps its listening socket.
\* A path that cannot be read also ends either side here.

Connect(c) ==
  /\ pc[c] = "connect" /\ listening
  /\ Goto(c, "length")
  /\ Hold(c, {"sock"})
  /\ conn' = [conn EXCEPT ![c] = "queued"]
  /\ UNCHANGED <<todo, tornDown, stale, refused, listening, peer, msgVars, qpVars>>

Listen ==
  /\ pc[Server] = "listen"
  /\ Goto(Server, "accept")
  /\ listening' = TRUE
  /\ UNCHANGED <<resVars, conn, peer, msgVars, qpVars>>

\* sock_async_data reads a length only when none is known.
Accept(c) ==
  /\ pc[Server] = "accept" /\ conn[c] = "queued"
  /\ Goto(Server, IF wr_len[Server] = "zero" THEN "length" ELSE "mr")
  /\ Hold(Server, {"sock"})
  /\ conn' = [conn EXCEPT ![c] = "accepted"]
  /\ peer' = c
  /\ UNCHANGED <<todo, tornDown, stale, refused, listening, msgVars, qpVars>>

NoConnection(p, cause) ==
  /\ pc[p] \in {"connect", "listen", "accept"} /\ cause
  /\ Destroy(p, handle[p])
  /\ UNCHANGED <<live, handle, tornDown, stale, refused, tcpVars, msgVars, qpVars>>

-----------------------------------------------------------------------------
\* The bytes of the connection.

PeerOf(p) == IF p = Server THEN peer ELSE Server
Incoming(p) == IF p = Server \/ conn[p] = "accepted" THEN stream[PeerOf(p)] ELSE <<>>
PeerClosed(p) == IF p # Server /\ conn[p] = "queued" THEN ~listening
                 ELSE "sock" \notin live[PeerOf(p)]

Write(p, bytes) == stream' = [stream EXCEPT ![p] = @ \o bytes]

\* read returns some of the bytes that are there, at most what is asked for
Read(p, size, k) ==
  /\ k <= Len(Incoming(p)) /\ k <= size - Len(got[p])
  /\ got' = [got EXCEPT ![p] = IF Len(@) + k < size
                               THEN @ \o SubSeq(Incoming(p), 1, k) ELSE <<>>]
  /\ stream' = [stream EXCEPT ![PeerOf(p)] = SubSeq(@, k + 1, Len(@))]

\* What has been read when k more bytes complete the message
Whole(p, k) == got[p] \o SubSeq(Incoming(p), 1, k)

\* Mistake: after a partial write the whole length is written again.
WriteLengthAgain(c, k) ==
  /\ pc[c] = "length" /\ c # Server
  /\ Write(c, SubSeq(LengthMsg(c), 1, k))
  /\ written' = [written EXCEPT ![c] = @ + k]
  /\ Goto(c, IF written[c] + k >= LenSize THEN "mr" ELSE "length")
  /\ UNCHANGED <<resVars, tcpVars, got, wr_len, remote, qpVars>>

\* sock_async_data of the client: written in a loop
WriteLength(c, k) ==
  /\ pc[c] = "length" /\ c # Server
  /\ written[c] + k <= LenSize
  /\ Write(c, SubSeq(LengthMsg(c), written[c] + 1, written[c] + k))
  /\ written' = [written EXCEPT ![c] = @ + k]
  /\ Goto(c, IF written[c] + k = LenSize THEN "mr" ELSE "length")
  /\ UNCHANGED <<resVars, tcpVars, got, wr_len, remote, qpVars>>

\* and of the server: read in a loop, exactly LenSize bytes
ReadLength(k) ==
  /\ pc[Server] = "length"
  /\ Read(Server, LenSize, k)
  /\ IF Len(got[Server]) + k < LenSize
     THEN UNCHANGED <<pc, wr_len>>
     ELSE /\ Goto(Server, "mr")
          /\ wr_len' = [wr_len EXCEPT ![Server] =
                IF Whole(Server, k) = LengthMsg(peer) THEN "total" ELSE "garbage"]
  /\ UNCHANGED <<resVars, tcpVars, written, remote, qpVars>>

\* An error, or the end of the stream: the socket is closed.
LengthFails(p, cause) ==
  /\ pc[p] = "length" /\ cause
  /\ Destroy(p, handle[p] \ {"sock"})
  /\ live' = [live EXCEPT ![p] = @ \ {"sock"}]
  /\ handle' = [handle EXCEPT ![p] = @ \ {"sock"}]
  /\ UNCHANGED <<tornDown, stale, refused, tcpVars, msgVars, qpVars>>

-----------------------------------------------------------------------------
\* rdma_trans_init: mr_create, then connect_qp whether it failed or not.

Register(p, hs) ==
  /\ pc[p] = "mr"
  /\ Hold(p, hs)
  /\ Goto(p, "connect_qp")
  /\ UNCHANGED <<todo, tornDown, stale, refused, tcpVars, msgVars, qpVars>>
MrCreate(p) == Register(p, {"sge_mr", "cdc_mr"})
\* The region of the session buffer, or that of the CDC ring, is missing.
MrCreateFails(p) == \E hs \in {{}, {"sge_mr"}} : Register(p, hs)

\* connect_qp: the connection data is written with one call.
SyncWrite(p) ==
  /\ pc[p] = "connect_qp" /\ "sge_mr" \in handle[p]
  /\ Write(p, ConData(p))
  /\ Goto(p, "sync_read")
  /\ UNCHANGED <<resVars, tcpVars, written, got, wr_len, remote, qpVars>>

\* The gid cannot be read, or only a part of the data is written.
SyncWriteFails(p, cause) ==
  /\ pc[p] = "connect_qp" /\ cause
  /\ \E k \in 0 .. ConSize - 1 : Write(p, SubSeq(ConData(p), 1, k))
  /\ TransDestroy(p, {"sge_mr"})
  /\ UNCHANGED <<live, handle, stale, refused, tcpVars, written, got, wr_len, remote, qpVars>>

SyncRead(p, k) ==
  /\ pc[p] = "sync_read"
  /\ Read(p, ConSize, k)
  /\ IF Len(got[p]) + k < ConSize
     THEN UNCHANGED <<pc, remote>>
     ELSE /\ Goto(p, "modify")
          /\ remote' = [remote EXCEPT ![p] =
                IF \E q \in Side : Whole(p, k) = ConData(q)
                THEN CHOOSE q \in Side : Whole(p, k) = ConData(q) ELSE Nobody]
  /\ UNCHANGED <<resVars, tcpVars, written, wr_len, qpVars>>

\* Mistake: a read that returns 0 is tried again.
SyncReadNoEnd(p, cause) ==
  /\ pc[p] = "sync_read" /\ cause /\ ~PeerClosed(p)
  /\ TransDestroy(p, {"sge_mr"})
  /\ UNCHANGED <<live, handle, stale, refused, tcpVars, msgVars, qpVars>>

SyncReadFails(p, cause) ==
  /\ pc[p] = "sync_read" /\ cause
  /\ TransDestroy(p, {"sge_mr"})
  /\ UNCHANGED <<live, handle, stale, refused, tcpVars, msgVars, qpVars>>

\* One step of the queue pair's way to RTS
ModifyQp(p, here, state, there) ==
  /\ pc[p] = here
  /\ qp' = [qp EXCEPT ![p] = state]
  /\ Goto(p, there)
  /\ UNCHANGED <<tornDown, stale, refused, todo, live, tcpVars, msgVars, posted>>

\* Mistake: no receive is posted.
ModifyToInitNoReceive(p) == ModifyQp(p, "modify", "INIT", "rtr") /\ UNCHANGED handle

ModifyToInit(p) == ModifyQp(p, "modify", "INIT", "post") /\ UNCHANGED handle
PostReceive(p) ==
  /\ pc[p] = "post" /\ "cdc_mr" \in handle[p]
  /\ posted' = [posted EXCEPT ![p] = @ + 1]
  /\ Goto(p, "rtr")
  /\ UNCHANGED <<resVars, tcpVars, msgVars, qp>>
ModifyToRtr(p) == ModifyQp(p, "rtr", "RTR", "rts") /\ UNCHANGED handle
\* The caller keeps the memory region: ctx->session_mr = ctx->session_sge->mr.
ModifyToRts(p) ==
  /\ ModifyQp(p, "rts", "RTS", "established")
  /\ handle' = [handle EXCEPT ![p] = @ \cup {"session_mr"}]

ConnectQpFails(p) ==
  /\ pc[p] \in {"modify", "post", "rtr", "rts"}
  /\ TransDestroy(p, {"sge_mr"})
  /\ UNCHANGED <<live, handle, stale, refused, tcpVars, msgVars, qpVars>>

\* The handle that the destroy which runs releases next
IsNext(p, h) ==
  LET order == IF pc[p] = "destroy" THEN DestroyOrder ELSE TransDestroyOrder
  IN  /\ h \in todo[p]
      /\ \E i \in DOMAIN order : order[i] = h /\ \A j \in 1 .. i - 1 : order[j] \notin todo[p]

\* What mr_create did not set is used: sges[0].mr->rkey, the CDC ring.
UsesNull(p) ==
  \/ pc[p] = "connect_qp" /\ "sge_mr" \notin handle[p]
  \/ pc[p] = "post" /\ "cdc_mr" \notin handle[p]
  \/ pc[p] = "trans_destroy" /\ IsNext(p, "sge_mr") /\ "sge_mr" \notin handle[p]
NullDereference(p) == UsesNull(p) /\ End(p)

\* SIGPIPE, which the programs do not ignore
WriteToClosed(p) == /\ pc[p] = "connect_qp" \/ (pc[p] = "length" /\ p # Server)
                    /\ PeerClosed(p)
                    /\ End(p)

-----------------------------------------------------------------------------
\* After the set-up.  The transfer ends well or not; when a work request of
\* the client cannot be posted rdma_trans_destroy comes first.

Finish(p) ==
  /\ pc[p] = "established"
  /\ Destroy(p, handle[p])
  /\ UNCHANGED <<live, handle, tornDown, stale, refused, tcpVars, msgVars, qpVars>>

PostFails(c) ==
  /\ pc[c] = "established" /\ c # Server
  /\ \/ TransDestroy(c, {"sge_mr"}) /\ UNCHANGED handle
     \/ /\ TransDestroy(c, {"data_mr1", "data_mr2"})
        /\ handle' = [handle EXCEPT ![c] = @ \cup {"data_mr1", "data_mr2"}]
  /\ UNCHANGED <<live, stale, refused, tcpVars, msgVars, qpVars>>

\* rdma_trans_destroy leaves these pointers as they are.
Kept(p) == IF pc[p] = "trans_destroy" THEN {"qp", "cq", "pd", "ib_ctx", "sock"} ELSE {}

\* Closing the device takes everything opened on it with it.
Gone(o) == IF o = "ib_ctx" THEN Verbs \cup {"ib_ctx"} ELSE {o}

\* What is not there cannot be released, what is in use is not; the outcome
\* is only printed.
Release(p, h) ==
  LET o == Named(h)
      exists == o \in live[p]
      used == live[p] \cap Users(o) # {}
      released == IF exists /\ ~used THEN Gone(o) ELSE {} IN
  /\ live' = [live EXCEPT ![p] = @ \ released]
  /\ qp' = IF "qp" \in released THEN [qp EXCEPT ![p] = "NONE"] ELSE qp
  /\ stale' = [stale EXCEPT ![p] = IF exists THEN @ ELSE @ \cup {h}]
  /\ refused' = [refused EXCEPT ![p] = IF exists /\ used THEN @ \cup {h} ELSE @]
  /\ handle' = [handle EXCEPT ![p] = @ \ ({h} \ Kept(p))]

ReleaseNext(p) ==
  /\ pc[p] \in {"destroy", "trans_destroy"} /\ ~UsesNull(p)
  /\ \E h \in todo[p] :
       /\ IsNext(p, h)
       /\ Release(p, h)
       /\ todo' = [todo EXCEPT ![p] = @ \ {h}]
  /\ UNCHANGED <<pc, tornDown, tcpVars, msgVars, posted>>

TransDestroyed(p) ==
  /\ pc[p] = "trans_destroy" /\ todo[p] = {}
  /\ Destroy(p, handle[p])
  /\ UNCHANGED <<live, handle, tornDown, stale, refused, tcpVars, msgVars, qpVars>>
Exit(p) == pc[p] = "destroy" /\ todo[p] = {} /\ End(p)

\* Undefined behaviour, which may end the process and may go unnoticed:
\* rdma_trans_destroy frees names that may point into argv, and the final
\* destroy may use what is gone already.
MayCrash(p) ==
  \/ pc[p] = "trans_destroy" /\ todo[p] = {}
  \/ /\ pc[p] \in {"destroy", "trans_destroy"}
     /\ \E h \in todo[p] \ {"sock"} : IsNext(p, h) /\ Named(h) \notin live[p]
Crash(p) == MayCrash(p) /\ End(p)

Kill(p) == pc[p] # "ended" /\ End(p)

-----------------------------------------------------------------------------
Connection(p) == \/ ScpRdmaInit(p) \/ NoConnection(p, pc[p] = "connect" /\ ~listening)
                 \/ p \in Clients /\ Connect(p)
                 \/ p = Server /\ (Listen \/ \E c \in Clients : Accept(c))
Exchange(p) == \/ p \in Clients /\ \E k \in 1 .. LenSize : WriteLength(p, k)
               \/ p = Server /\ \E k \in 1 .. LenSize : ReadLength(k)
               \/ SyncWrite(p) \/ \E k \in 1 .. ConSize : SyncRead(p, k)
               \/ LengthFails(p, PeerClosed(p)) \/ SyncWriteFails(p, PeerClosed(p))
               \/ SyncReadFails(p, PeerClosed(p)) \/ WriteToClosed(p)
QueuePair(p) == \/ MrCreate(p) \/ ModifyToInit(p) \/ PostReceive(p)
                \/ ModifyToRtr(p) \/ ModifyToRts(p) \/ NullDereference(p)
TearDown(p) == ReleaseNext(p) \/ TransDestroyed(p) \/ Exit(p) \/ Crash(p)

\* What a program does by itself, and what may go wrong on its way
Step(p) == /\ Connection(p) \/ Exchange(p) \/ QueuePair(p) \/ TearDown(p)
           /\ UNCHANGED faults
Fault(p) == \/ InitFails(p) \/ NoConnection(p, TRUE) \/ LengthFails(p, TRUE)
            \/ MrCreateFails(p) \/ SyncWriteFails(p, TRUE) \/ SyncReadFails(p, TRUE)
            \/ ConnectQpFails(p) \/ (p \in Clients /\ PostFails(p)) \/ Kill(p)

Next == \E p \in Side :
          \/ Step(p)
          \/ Finish(p) /\ UNCHANGED faults
          \/ Fault(p) /\ faults < MaxFaults /\ faults' = faults + 1

Spec == Init /\ [][Next]_vars

\* Calls return, bytes arrive, the end of a process is seen at the other end of
\* its connection: while some program can take a step, one of them takes one.
\* No program goes round in a loop, so that this is fair to each.  No call has
\* to fail, and nothing is said of how long a transfer takes.
FairSpec == Spec /\ WF_vars(\E p \in Side : Step(p))

-----------------------------------------------------------------------------
Pc == {"init", "connect", "listen", "accept", "length", "mr", "connect_qp", "sync_read",
       "modify", "post", "rtr", "rts", "established", "trans_destroy", "destroy", "ended"}

TypeOK ==
  /\ pc \in [Side -> Pc]
  /\ live \in [Side -> SUBSET Object] /\ handle \in [Side -> SUBSET Handle]
  /\ todo \in [Side -> SUBSET Handle]
  /\ tornDown \in [Side -> BOOLEAN]
  /\ stale \in [Side -> SUBSET Handle] /\ refused \in [Side -> SUBSET Handle]
  /\ listening \in BOOLEAN /\ conn \in [Clients -> {"none", "queued", "accepted"}]
  /\ peer \in Clients \cup {Nobody}
  /\ stream \in [Side -> Seq(Byte)] /\ got \in [Side -> Seq(Byte)]
  /\ written \in [Side -> 0 .. LenSize]
  /\ wr_len \in [Side -> WrLen] /\ remote \in [Side -> Side \cup {Nobody}]
  /\ qp \in [Side -> {"NONE", "RESET", "INIT", "RTR", "RTS"}]
  /\ posted \in [Side -> 0 .. 1]

Receiving(p) == qp[p] \in {"RTR", "RTS"}

\* The two messages share one stream and reads return any number of bytes.
\* The server takes the length for the length and nothing else, and what a
\* side takes for the connection data of its peer is just that, although a
\* client sends both messages before the server has accepted it.
MessagesInFrame ==
  /\ wr_len[Server] # "garbage"
  /\ \A p \in Side : pc[p] \in {"modify", "post", "rtr", "rts", "established"} => remote[p] = PeerOf(p)

\* connect_qp gives no sign to the other side when it is done: one side may
\* send while the other has not brought its queue pair to RTR, and the
\* transport retries.  Whenever a packet can arrive, because the queue pair
\* receives and its peer is in RTS, there is a posted receive for it and the
\* memory it is written to is registered, until scp_rdma_destroy.
PacketsFindReceive ==
  \A p, q \in Side :
    /\ qp[p] = "RTS" /\ pc[p] # "destroy" /\ remote[p] = q
    /\ Receiving(q) /\ pc[q] # "destroy"
    => /\ remote[q] = p
       /\ posted[q] > 0
       /\ {"mr", "cdc_mr"} \subseteq live[q]

\* Where ScpPipeline begins: when two sides are established they are each
\* other's peers, both queue pairs are in RTS with one receive posted, and
\* the length of the session buffer is known.  No two clients are.
StartsPipeline ==
  \A p, q \in Side :
    p # q /\ pc[p] = "established" /\ pc[q] = "established" =>
      /\ remote[p] = q /\ remote[q] = p
      /\ qp[p] = "RTS" /\ qp[q] = "RTS"
      /\ posted[p] = 1 /\ posted[q] = 1
      /\ wr_len[p] = "total" /\ wr_len[q] = "total"

\* What connect_qp makes of the peer's address.  The 16-bit lid is written with
\* htons and read with ntohl, of which 16 bits are kept.
Htons(x) == (x % 256) * 256 + x \div 256
NtohlLow(x) == Htons((x \div 65536) % 65536)  \* the high half of x, swapped, ends up low
RemoteLid(p) == NtohlLow(Htons(Lid[remote[p]]))

\* The sides that the address modify_qp_to_rtr sets leads to: the peer's gid if
\* this side has -g, which is all zero if the peer has none, else its lid.
\* Neither lid 0 nor a gid of zeros is a port's.
Destination(p) ==
  IF GidIdx[p] >= 0 THEN {q \in {remote[p]} : GidIdx[q] >= 0}
  ELSE {q \in Side : Lid[q] = RemoteLid(p) /\ Lid[q] # 0}

\* What is exchanged is what it takes to connect the queue pairs
\* (rdma_trans.c:966): a queue pair that receives is addressed to the peer.
AddressedToPeer ==
  \A p \in Side : Receiving(p) /\ pc[p] # "destroy" => Destination(p) = {PeerOf(p)}

\* Unless rdma_trans_destroy has run, scp_rdma_destroy releases everything
\* that exists, whatever the set-up came to, each object once and after the
\* objects that use it.
CleanTearDown ==
  \A p \in Side : ~tornDown[p] =>
    /\ stale[p] = {} /\ refused[p] = {}
    /\ pc[p] = "destroy" /\ todo[p] = {} => live[p] = {}

\* Resources are released by the final destroy and not before
\* (scp_rdma_receiver.c:345, scp_rdma_sender.c:305), so that nothing is
\* released when it no longer exists.
ReleasedOnce == \A p \in Side : stale[p] = {}

\* No side waits for ever in the exchange for a peer that is gone: a client
\* that has been accepted and the server leave it, and when the server has
\* ended so does every client that was never accepted.
LeftAlone(p) == \/ p = Server /\ peer = Nobody
                \/ p # Server /\ conn[p] # "accepted" /\ pc[Server] # "ended"
SetUpEnds == <>[](\A p \in Side : LeftAlone(p) \/ pc[p] \in {"established", "ended"})
=============================================================================
