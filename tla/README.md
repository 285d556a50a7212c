# scp_rdma: models, checks and proofs

scp_rdma copies files, links and directories from a sender (client) to a
receiver (server) over an RDMA reliable connection (RC).  This directory holds
TLA+ modules of the session around a transfer, of the pipeline that moves the
packets and of what the packets do to the two file systems, the TLC
configurations that check them on small instances, and TLAPS proofs for every
size.  Paths below are relative to
`src/`.  `PROJECT.json` maps each definition to the lines it models and lists
the runs, the mutants, the hazards, the findings and the theorems.

## 1. The system

| Component | State | Operations | Interacts with |
| --- | --- | --- | --- |
| Sender, control packets and chunk pipeline (`scp_rdma/scp_rdma_sender.c`) | `slot_free[4]`, `current_slot`, `pending_acks`, `session_buf` | `scp_rdma_send_sync`, chunk loop of `scp_send_file`, `harvest_completions`, `wait_for_slot`, `drain_pending_acks` | posts to the transport, waits with AsyncWait |
| Sender, traversal and file reads (same file) | the directory stack, file offsets | `scp_sender_run`, `scp_send_directory`, `scp_send_symlink`, `scp_send_file` | calls the pipeline |
| Receiver loop (`scp_rdma/scp_rdma_receiver.c`) | `local_credits`, slot in hand, `is_end_packet` | `scp_receiver_run` | polls the CQ, posts receives and ACKs |
| Receiver, file system effects (same file) | `current_fd`, `current_path`, `meta_type` | the dispatch on `cmd_type` | the file system |
| CDC signalling (`rdma_trans_src/rdma_cdc/rdma_cdc.c`, ring helpers in `rdma_trans.c`) | ring of 8 receive buffers, `cdc_recv_post_idx`, `cdc_recv_cons_idx`, one send buffer | `post_receive_cdc(_ex)`, `post_send_cdc`, `rdma_cdc_completion` | the queue pair |
| Waiting for completions (`rdma_trans.c`) | CQ, completion channel, epoll | `cq_create_async`, `rdma_async_wait_completion` | the adapter's events |
| Transport (`rdma_trans.c`) | queue pair, memory regions | `post_send`, `rdma_trans_post` | the peer's memory |
| Connection set-up (`rdma_trans.c`) | socket, remote properties, QP state | `sock_*`, `mr_create`, `connect_qp` | the peer, over TCP |
| Resource lifecycle | everything above | `scp_rdma_init`, `scp_rdma_destroy`, `rdma_trans_destroy` | |
| Wire format (`scp_rdma_protocol.h`) | | header initialisation and validation | |
| Command line (`scp_rdma_main.c`), build files | | | |

Both programs are single-threaded; what is concurrent is the two programs and
the two adapters.  One packet goes through these steps:

1. the sender puts it into a slot of `session_buf` (control packets always into
   slot 0, chunks into the slots in turn) and posts a receive for the ACK;
2. it posts an RDMA WRITE of the slot into the same slot of the receiver, and a
   CDC SEND that names the slot.  A control packet waits for the WRITE before
   the SEND and for the ACK after it; a chunk waits for neither;
3. the receiver takes the announcement from its ring, processes the packet in
   the slot, posts another receive, and sends the announcement back as the ACK;
4. the sender takes the ACK from its own ring and frees the slot.

What makes this hard to get right: four buffers are reused without any lock
(the sender's slots, the receiver's slots, and a ring of CDC buffers on each
side); `rnr_retry` is 0, so that one SEND without a posted receive ends the
transfer; completions arrive late and in batches; slot bookkeeping is reset
between files; the receiver gives a CDC buffer back before it has copied it;
either side can fail or leave at any time; and the sender sleeps on events that
are raised once per arming.  Around the pipeline, messages without frames share one
TCP stream, errors release resources by two routes, and the receiver resolves
every path in a file system that holds links which the transfer itself has made.
The hazards are listed in `PROJECT.json`, each at
its line and with the properties that cover it.

What makes each component correct:

* pipeline and receiver loop: packets are processed once, in order, from a slot
  that holds what was announced; an ACK means processed; nothing that is in use
  is overwritten; no SEND finds the receiver not ready; waits end;
* waiting: no completion is slept on, no wakeup is wasted, every event is
  acknowledged before the CQ is destroyed;
* traversal and file system effects: every file of the destination holds data of
  one file only, at its offset, and only announced paths change, whatever fails
  or is in the way; when nothing does, success means a faithful copy; the
  traversal ends;
* connection set-up: both sides agree on sizes and addresses and bring their
  queue pairs to RTS with a receive posted; nobody waits for a peer that is gone;
* lifecycle: every resource is released once, in an order the verbs allow.

## 2. Modules

| Module | What it is |
| --- | --- |
| `ScpSession` | the programs around the transfer: resources, TCP connection, exchange of addresses, queue pair states, release |
| `ScpPipeline` | sender, receiver, both CDC rings and both adapters, with the properties and the refinement mapping to `PacketChannel` |
| `PacketChannel` | the abstract specification: a reliable channel of packets with a window (`Send`, `Deliver`, `Ack`) |
| `ScpTransfer` | the traversal of the sender and the file system of the receiver, with a `PacketChannel` between them |
| `AsyncWait` | `rdma_async_wait_completion` with the CQ and its event channel |
| `ScpPipelineInv` | the inductive invariant `IInv` of `ScpPipeline` |
| `ScpTransferInv` | the inductive invariants of `ScpTransfer`: `Inv`, `DepthInv`, `AnnounceInv`, `CopyInv` |
| `ScpSessionProofs`, `ScpPipelineProofs`, `AsyncWaitProofs` | the TLAPS proofs about these modules |
| `ScpTransferProofs` | `Inv` of `ScpTransfer`, and that it keeps to the channel |
| `ScpPathProofs` | lemmas about paths, links and where they lead |
| `ScpVisitProofs` | what the sender visits: `DepthBounded`, and that `Visited` is closed |
| `ScpAnnounceProofs` | what a step may change: `OnlyAnnounced` |
| `ScpCopyProofs` | that a copy is faithful: `CopyFaithful` |
| `MCScpSession`, `MCScpPipeline`, `MCScpTransfer`, `MCAsyncWait` | what TLC runs, with twelve configurations |

How they fit together:

    ScpSession   ... both sides "established": StartsPipeline is what
        |            ScpPipeline's Init assumes (RTS, one receive posted)
    ScpPipeline  ... implements (ImplementsChannel)
        |
    PacketChannel ... is what ScpTransfer's packets go through (Chan)
        |
    ScpTransfer

`AsyncWait` is below `ScpPipeline`, whose polls rely on it.  `ScpSession` takes the
transfer as one step, `Finish`.

Definitions whose comment begins with "Mistake" (in `AsyncWait`, one section)
are not part of the specifications.  Each is an action with a slip that code
like this could have; put in place of the definition after it, it violates the
property that `PROJECT.json` names.

### 2.1 ScpPipeline

*State.*  The variables keep the names of the code where it has one.
`lbuf[s]` and `rmem[s]` are the slots of the sender's and of the receiver's
`session_buf`; their contents are abstracted to the number of the packet and
its command, which is all that the pipeline's properties tell apart.  A slot
that was never written has command `NONE`, which stands for a header without
the magic number.  `s_post`, `s_arr`, `s_cons` count the ACK receives posted,
the ACKs that arrived and those consumed; `r_post`, `r_arr`, `r_cons` the same
for announcements.  Modulo the ring size they are `cdc_recv_post_idx` and
`cdc_recv_cons_idx`; message k is in buffer `Ring(k)` because receives are
posted, filled and consumed in order.  `sq`/`rsq` are the send queues,
`sdone`/`rdone` work that is executed and not yet completed, `scq`/`rcq` the
completion queues.  `sig` and `handled` are history: what has been announced
and what has been processed.

*Sender.*  `spc` is where `scp_sender_run` is:

| `spc` | place in `scp_rdma_sender.c` |
| --- | --- |
| `idle` | between two packets of the traversal |
| `slot0` | `wait_for_slot(ctx, 0)`, line 174 |
| `write` | `wait_for_rdma_write_completion`, line 193 |
| `signal` | lines 198-214 |
| `ack` | `wait_for_slot(ctx, 0)`, line 217 |
| `chunk` | top of the chunk loop, line 483 |
| `announce` | after the WRITE of a chunk, line 572 |
| `harvest` | `harvest_completions(ctx, false)`, line 606 |
| `drain` | `drain_pending_acks`, line 614 |
| `done`, `failed`, `gone` | returned, returned with an error, after `scp_rdma_destroy` |

`StartSync(c)` builds a control packet of the traversal (`MaySend` says which
may come next) in slot 0 - before the wait for slot 0, as the code does.
`SyncWrite`, `SyncWaitWrite`, `SyncSignal` and `SyncAcked` (or `FileMetaAcked`,
which resets the slots, or `LinkMetaAcked`, which builds the second packet of a
link) are `scp_rdma_send_sync`.  `ChunkWrite`, `ChunkSignal` and
`HarvestNonBlocking` are one round of the chunk loop; `ChunksDone` leaves it
after the last chunk or when `pread` returns nothing; `Drained` ends the file.
Every wait is a loop of polls: `HarvestBlocking` is one round.  `PollBatch`
takes up to `MaxWc` completions and handles all of them, as the code does,
before anything else is looked at.  `SenderCallFails` is the error return of
any call, with the part of the bookkeeping that was done before it.

*Receiver.*  `ExtendWindow`/`WindowExtended`, `Receive` (one completion, the
next buffer of the ring, `local_credits--`), `DropSendCompletion`, `Handle`,
`Repost`, `SendAck` follow `scp_receiver_run`; it leaves its loop through
`SendAck` after TRANSFER_END, through an error completion, a failing call or an
invalid header, and then destroys the queue pair.

*Adapters* (external: modelled from how the code relies on them).  Work of a
send queue is executed in order; WRITEs go to `rmem`, SENDs into the next
posted receive.  The completion of executed work may come at any later time.
Outstanding work fails when the peer's queue pair is gone, or, with `"link"` in
`Faults`, at any time; the queue is flushed and one error completion stands for
those of the flushed work, since both programs stop at the first.  Work that is
queued when its queue pair is destroyed is dropped.  The content of a WRITE is
read from the slot when it is executed; that of a SEND when it is posted
(`IBV_SEND_INLINE`).

*Step size.*  A step of a program reaches to the next point at which the other
side can see or cause a difference: a write to a slot, a post, a poll.
`SyncSignal` and `ChunkSignal` join bookkeeping that only the sender's thread
reads with the post next to it; that the bookkeeping comes before the post in
the one and after it in the other is visible only when the post fails, and
`SenderCallFails` has no effect on it in either case, which is what the code
leaves.

### 2.2 PacketChannel and the refinement

The channel's `sent` is `sig` with its numbers, `delivered` is `handled`, and
`acked` is `s_cons`.  `ImplementsChannel` says that every step of the pipeline
is a step of the channel or a stutter: packets are delivered in the order they
were announced, once each, an ACK is of a delivered packet ("发送端: 收到 ACK →
知道接收端已处理完毕", `README.md:19`), and at most `Slots` packets are under way.
`ScpTransfer` is built on the channel instead of the pipeline.

### 2.3 AsyncWait

One call is `PollFirst`, `DrainEvent`*, `Drained`, `Arm`, `PollAgain`, `Wake`,
`GetEvent`, `ReArm`, `Harvest`, in the order of the code, and `Complete` (the
adapter) may happen between any two.  The CQ raises an event for the first
completion after it has been armed.  `Timeout` is `epoll_wait` returning 0 or
being interrupted.  `ScpPipeline` uses the result: its blocking polls are
enabled exactly when the queue holds a completion, and a call that returns
nothing is a stutter.

### 2.4 ScpSession

One server, which takes one session and ends, and clients that compete for it.
`pc` is where a program is; a step is a call that another program or the kernel
can notice.

| `pc` | place in the code |
| --- | --- |
| `init` | `scp_rdma_init` |
| `connect`, `listen`, `accept` | `sock_connect` |
| `length` | `sock_async_data` |
| `mr` | `mr_create` |
| `connect_qp`, `sync_read` | the write and the reads of `sock_sync_data` |
| `modify`, `post`, `rtr`, `rts` | the rest of `connect_qp` |
| `established` | the transfer |
| `trans_destroy` | `rdma_trans_destroy` |
| `destroy` | `scp_rdma_destroy` |
| `ended` | the process is gone |

*Resources.*  `live` are the objects of the kernel and the adapter that exist,
`handle` the pointers and descriptors that name them, so that a handle whose
object is gone, or two handles of one object, can be told.  `todo` is what the
running destroy has yet to release.  The verbs refuse to release what is in use
(`Users`), closing the device takes everything with it (`Gone`), and the code
prints the outcome and goes on.  Using an object through a handle after it is
gone, and the `free` of names in `argv`, is undefined: it may end the process
(`Crash`) or go unnoticed.  A null pointer ends it (`NullDereference`).

*TCP.*  `stream[p]` holds the bytes p has written and its peer has not read;
each byte knows its message and position, so that a reader who takes the wrong
bytes shows.  Writes of the length and all reads may be partial.  A connection
exists for a client as soon as the server listens (the backlog), long before it
is accepted; the listening socket is never closed.

*Faults.*  Every call may fail and every program may be killed, `MaxFaults` times
in all.  When a side sees the end of its peer it takes its error path; a write
to a connection that is gone ends the process (SIGPIPE is not ignored).

### 2.5 ScpTransfer

*Trees.*  A file system is a function from the paths that exist to nodes:
directories, links (a relative path) and files (a function from offsets to
units of data; a unit knows its file and offset).  `Follow` is the kernel's path
resolution with its limit on links; `Stat`, `Lstat` and `FollowParent` are what
the system calls see.  `NameLen` is `SCP_MAX_FILENAME_LEN` counted in names,
`ChunkSize` is `SCP_CHUNK_SIZE` counted in units.  An absolute link and file modes
are left out; absolute destinations are, as in the code, below the receiver's
directory.

*Sender.*  `stack` holds the running calls of `scp_send_directory` with the entries
still to be read, in any order; `file` is what `scp_send_file` or
`scp_send_symlink` is sending.  A packet sent with `scp_rdma_send_sync` is
`Announce` followed by steps that need `Idle`; a chunk needs a free slot only.
`SendChunk(n)` reads n units, which is fewer than asked for when a read falls
short; `ReadStops` is a read that returns 0 or an error, which ends the loop.

*Receiver.*  One action per command.  `MkDirs` is what the mkdirs of
`scp_mkdir_recursive` leave, `MadeDirs` what they may leave when one fails;
`OpenFile` follows links and truncates, `MakeLink` is unlink and symlink,
`WriteChunk` may fall short.  No failure is reported to the sender.

*The receiver when the connection is lost* may still process what has arrived;
it is not required to.

## 3. What the runs show

| Run | Configuration | Bounds | Distinct states | Shows |
| --- | --- | --- | --- | --- |
| `pipeline` | `MCScpPipeline.cfg` | 2 slots, 3 receives, batches of 2, 3 chunks, 1 node, both faults | 692 thousand | the safety properties and the refinement |
| `invariant` | `MCScpPipelineInv.cfg` | 2 slots, 4 receives, batches of 1, 2 chunks, 3 nodes, no faults | 1.7 million | `IInv` |
| `progress` | `MCScpPipelineLive.cfg` | 2 slots, 3 receives, batches of 2, 3 chunks, 1 node, no faults | 131 thousand | `ReceiverFinishes`, `WaitsEnd` |
| `wait` | `MCAsyncWait.cfg` | queue of 4, batches of 2, failing calls | 131 | the wait, with liveness |
| `session` | `MCScpSession.cfg` | 1 server, 2 clients, a length of 2 bytes and connection data of 1, 1 fault | 269 thousand | set-up and release, with liveness |
| `transfer` | `MCScpTransfer.cfg` | 2 names, 4 source and 5 destination trees with all options, window 2, chunks of 2 units, names cut off after 3, 2 links followed, 1 fault | 213 thousand | the effects on files, with liveness |
| `sender_end` | `MCScpPipelineEnd.cfg` | no faults | | `SenderEnds` is violated |
| `wr_id` | `MCScpPipelineWrId.cfg` | no faults | | `WrIdNamesSlot` is violated |
| `write_wait` | `MCScpPipelineSignal.cfg` | no faults | | `SignalAfterWrite` is violated |
| `release` | `MCScpSessionRelease.cfg` | 1 client, 1 fault | | `ReleasedOnce` is violated |
| `lid` | `MCScpSessionLid.cfg` | 1 client, no gid, no faults | | `AddressedToPeer` is violated |
| `file_sent` | `MCScpTransferFile.cfg` | as `transfer` | | `CompleteFileSent` is violated |

*Bounds.*  The code has 4 slots, 8 receives and batches of 16.  Two slots are
the smallest ring that can wrap with a packet in each slot; three receives are
the least the assumption `Slots < RecvSlots` allows, so that the rings of CDC
buffers are reused as early as possible; three chunks are one more than the
slots, so that the loop must wait for an ACK.  A batch of two can hold an ACK
and something else.  `MaxChunks` bounds the chunks of a file, `MaxNodes` the
files, links and directories of a transfer; with three nodes a directory holds
two files, so that the slots are reset between files and a late completion of
one file meets the next one's metadata.  The proofs do not depend on the
bounds, so that the runs need only be large enough for the cases to occur.

For the session, two clients are the least that compete, and two bytes the
least that can be split; a third client or byte meets no case of its own, since
all of a client's dealings are with the server.  Only the length has two bytes,
so that the run with its liveness stays short: connection data that arrives in
pieces is not among its cases.  The safety of the session does not need it, being
proved for all sizes; and the run with `ConSize = 2` (497
thousand states, about four minutes) finds no error either.  One fault is enough for every
error path, of which none recovers; a second fault is a second program on its
way out.  For the transfer, the sources have a file of three units, which is a
full chunk and a rest, links to a file, to a directory above and to nowhere; the
destinations have a directory, a longer file, a link and a file where a
directory must be.  A name of four parts is cut off to one of three, so that
two names collide.  Paths through more than two links meet the limit.

*Properties of the pipeline.*

* `SlotAccounting` - `pending_acks`, `slot_free` and the packets announced and
  not acknowledged agree at all times, across the resets.
* `ProcessesWhatWasAnnounced`, `OverwriteOnlyAcked` - the receiver's slots.
* `LocalSlotStable` - the sender's slots.
* `CdcBuffersIntact`, `AckRingNotOverrun` - the two rings of CDC buffers.
* `NoRNR` - a SEND finds a receive; the comment at `rdma_cdc.c:94` relies on it.
* `BlockedOnlyWhenFull` - `README.md:181` says that a busy slot is skipped.  The
  code does not skip; the property shows that it would find no other free slot.
* `CreditsAccurate` - `local_credits` counts the posted receives.
* `NeverBothWait` - the two programs poll without ever giving up; when both find
  nothing, a packet, a WRITE or an ACK that the sender needs is on its way, with
  faults as well.  `WaitsEnd` draws the conclusion for fair runs without faults.
* `ReceiverFinishes`, `WaitsEnd` - without faults nothing is waited for in
  vain, except the ACK of TRANSFER_END (`sender_end`).

*Properties of the session.*

* `MessagesInFrame` - the two messages of the stream are never taken for each
  other, however reads are split.
* `PacketsFindReceive` - whatever the two sides' progress, and while
  `rdma_trans_destroy` releases the resources of one of them, a packet that can
  arrive finds a receive and registered memory, until either side's
  `scp_rdma_destroy` begins: that deregisters both regions before it destroys
  the queue pair (`scp_rdma_receiver.c:384-407`), so that a packet that arrives
  then is refused.
* `StartsPipeline` - what `ScpPipeline` assumes holds when both are established.
* `CleanTearDown` - unless `rdma_trans_destroy` has run, the final destroy
  releases everything, once and in an order the verbs allow, from any point at
  which the set-up may have stopped.
* `SetUpEnds` - nobody waits for ever for a peer that is gone.  A client that is
  never accepted waits until the server's process has ended.
* `AddressedToPeer` - the address in a queue pair that receives is the peer's.
  It is checked without a gid, where the lid is all there is of an address, and
  is violated (`lid`).

*Properties of the transfer.*

* `NoMixture` - no file ever holds data of two files, or data at a wrong offset.
* `OnlyAnnounced` - a packet changes nothing but the path of the last FILE_META,
  and makes missing directories; no directory is removed.
* `CopyFaithful` - without a failure, the success message means that the copy is
  complete and that nothing else has changed.  It needs names that are not cut
  off to the same name and a destination without links or nodes of another kind
  in the way (`Suitable`); without them the receiver prints a message at most.
* `DepthBounded` - where links lead back to a directory above, the calls of
  `scp_send_directory` that are nested at a time, each with an open directory and
  8 KiB of path buffers, are few all the same.
* `TransferEnds` - also where links lead back to a directory above.

*Deadlock* is not checked for the session and the transfer, which end; that they
end well is `SetUpEnds` and `TransferEnds`.  It is not checked for the
pipeline: both programs end, and the sender may end up waiting for ever when the
receiver is gone (`sender_end`); while it is not, `NeverBothWait` holds.  It is not checked for the wait,
because a failed call ends the use of the queue.

*Fairness.*  `FairSpec` assumes weak fairness of each program (an operating
system runs it), of each adapter's execution of queued work and of the
completion of executed work.  Steps of one program are never in conflict with
each other except through the choice of the next packet, so that fairness of
the program as a whole is enough; no fairness is assumed of faults, nor of any
particular packet being chosen - the tree is finite.  The liveness run has no
faults, because the design has no recovery: after a failure either side may
wait for ever.  In `AsyncWait` only the steps of a running call are fair and
`Timeout` is not, so that `CallReturns` does not rest on the 100 ms timeout.  In `ScpSession`
some program takes a step as long as one can by itself (calls return, bytes
arrive); faults are not fair, and neither is `Finish`, since a transfer may take
any time.  In `ScpTransfer` the sender is fair, and delivery and acknowledgement
are fair while the connection works, which is what the pipeline's `WaitsEnd` and
`ReceiverFinishes` show of the run without faults.

## 4. What is proved

`ScpPipelineProofs` proves for all `Slots >= 1`, `RecvSlots > Slots`,
`MaxWc >= 1`, all bounds and all sets of faults: `TypeOK`, `SlotAccounting`,
`ProcessesWhatWasAnnounced`, `NoRNR`, `CdcBuffersIntact`, `AckRingNotOverrun`,
`LocalSlotStable`, `CreditsAccurate`, `BlockedOnlyWhenFull`, `NeverBothWait`,
`OverwriteOnlyAcked`, the refinement `ImplementsChannel`, and the channel's own promises (`ChannelSafety`).  The one
assumption that carries weight is `Slots < RecvSlots` (4 and 8 in the code): the
sender posts its ACK receive before it announces, so that up to `Slots + 1`
receives are outstanding in its ring.

*Argument.*  None of the properties is inductive by itself: that a slot may be
overwritten depends on the ACK having been consumed, which depends on the
receiver having processed the packet, which depends on what the rings and the
queues hold.  The invariant `IInv` numbers the packets and orders the counters:

    s_cons <= s_arr <= r_cons <= r_arr <= Len(sig) <= s_cons + Slots

Each named part says what one piece of state holds of the packets between two
of these cuts: `OwnInv` (the slots of the packets not acknowledged are distinct
and are the busy ones), `TurnInv` (during the chunk loop they are the slots before
`current_slot`, in turn, so that a busy `current_slot` means a full window:
`BlockedOnlyWhenFull`), `QueueInv` (the send queue holds exactly the WRITEs and
SENDs after `r_arr`, in order, and their slots hold their packets), `MemInv`
(the receiver's slots), `RingInv` (the CDC buffers and the ACKs on their way),
`AckPostInv` and `CdcPostInv` (how many receives are posted), `HandledInv`,
`PhaseInv` and `DownInv` (what holds at each place of the programs and of a
queue pair that is down), and `WaitInv` (an error completion stays in its queue
until it ends the program, and the WRITE of a control packet is queued, executed
or completed until the sender has seen it).  `ChainInv` is the order of the cuts; the number of
RECV completions in each CQ makes up the difference between what has arrived
and what has been consumed.  Ring buffers stay intact because two messages less
than `RecvSlots` apart are in different buffers (`RingDistinct`).

`NeverBothWait` is as much of the absence of deadlock as can be proved without
fairness: if both programs poll and nothing that matters is under way, then by
`ChainInv` and `QueueInv` all four cuts and `Len(sig)` coincide, and a sender
with every packet acknowledged has nothing to wait for.

There is one lemma per part (`OwnNext`, `QueueNext`, ...): every action preserves
it, given `IInv` before the step.  `Invariance` combines them, and each property
follows from `IInv` by a lemma of its own (`AccountingFromInv`, ...).  The
refinement needs `IInv` before and after the step: `MarkBusy` is `Send`, `Handle`
is `Deliver`, a poll that consumes k > 0 ACKs is `Ack`.

`AsyncWaitProofs` proves `NoLostWakeup`, `NoStaleWakeup` and `EventsAcked` and `TypeOK` for
every size of queue and batch, the first three from `WakeInv`: between the drain and the sleep an
event in the channel belongs to a completion that is still in the queue.

`ScpTransferProofs` proves `TypeOK` and `NoMixture` of `ScpTransfer` for all source
and destination trees, names, sizes and numbers of faults.  `TypeOK` says among
other things that the receiver's file system stays a tree whatever is made and
unlinked, and that an open file exists.  `NoMixture` is not inductive: data is
written to the file that is open, which is the right one only because the
packets are in order and every FILE_META closes or replaces it.  The invariant
`Inv` adds the channel's two order properties and

* `PacketInv` - the data packets after a FILE_META, up to the next, are of the
  file it announced, each at its offset;
* `FileInv`, `LinkInv` - what the sender is sending belongs to the last FILE_META
  it has sent;
* `ReceiverInv` - `meta_type` and the open file belong to the last FILE_META
  processed, and an open file holds data of that file only.

Lemmas give what each operation on a tree preserves (`PutTree`, `MkDirsTree`,
`UnlinkTree`, ...); there is one lemma per handler.  Where an argument goes by
induction on a length, it uses the least counterexample.  `UsesChannel` is the
other half of the refinement of section 2.2: every step of `ScpTransfer` is a step
of `PacketChannel` or a stutter, with well-formed packets only.

`ScpAnnounceProofs` proves `OnlyAnnounced` for all trees and failures.  What a step
may touch depends on the last FILE_META, so that the invariant `AnnounceInv` adds
to `Inv` that data comes right after what announced it (`FollowsMeta`), and that
then `current_path` is its name and the open file is where this name leads
(`AtMeta`).  That the open file is still where it leads after other
packets is why `FollowsMeta` is needed: between a FILE_META and its data nothing
is processed that makes or removes a link.

`ScpVisitProofs` proves `DepthBounded`, and what the faithfulness of copies needs
of the traversal.  Following links is a walk of at most `LinkLimit` steps
(`Settles`); the walk of a longer path goes through that of its beginning
(`WayConcat`).  So two directories on one path that lead to the same place differ
in the number of links followed, and a path that descends visits fewer than
`(LinkLimit + 1) * Cardinality(DOMAIN src)` of them (`FewDirs`).  The invariant
`DepthInv` says that the nested calls are for such a path.  The same bound is the
number of levels in the definition of `Visited`, which therefore misses nothing:
an entry of a visited directory is visited (`VisitedClosed`).

`ScpCopyProofs` proves `CopyFaithful` for every source tree, whatever links it
holds, every suitable destination, all sizes and every order in which readdir
returns entries.  The invariant `CopyInv`, about transfers in which nothing has
failed, relates three things:

* what has been sent to the source: `NamesInv` (what is announced is to be
  copied), `PartsInv` and `WholeInv` (data is the next part of the file announced,
  and all of it comes before anything else), `ChunksInv` (the chunk loop);
* what has been sent to what is left: `CallsInv` and `ClosedInv` - an entry of an
  announced directory has been announced, or is left to do in a call for that
  directory.  When no call is left, the announced paths contain SOURCE and all
  entries of their directories, and so all of `Visited` (`VisitedAll`);
* what has been processed to the destination: `CopiesInv` (a path that has been
  passed is there in full, one in hand up to the last unit processed) and
  `TreeInv` (the rest is as it was; no link or file is where a directory belongs,
  so that the way to each copy is free of links: `TargetClear`).

`EndInv` joins them: the success message comes after TRANSFER_END, which is sent
after the last call has returned.  That no two names are the same (`Suitable`) is
used where a packet processed later must not touch an earlier copy
(`SpreadKeeps`).

The assumptions are that both file systems are trees, that the source is finite
and its files are contiguous (`JobsAssumption`), and that `NoFd`, which stands for
no open file, is not a path.

`ScpSessionProofs` proves all invariants of `ScpSession` for any number of clients,
any sizes of the two messages and any number of faults: `TypeOK`,
`MessagesInFrame`, `PacketsFindReceive`, `StartsPipeline` and `CleanTearDown`.  For
all lids and all `-g` options it also proves what becomes of the address
(`AddressedByGidOnly`): every lid is read as 0 (`LidLost`), so that a queue pair
leads to the peer if both sides have a gid, and to nobody if one has none; the
run `lid` shows the second case on an instance.  The parts of `Inv` are

* `HandleInv`, `QpInv`, `DestroyInv` - of each program by itself, along the order
  of `pc`: what it holds, which state its queue pair is in, and that a final
  destroy that comes first has in `todo` a handle for each live object.  That
  `rdma_trans_destroy` releases the queue pair before anything that it uses is in
  `QpInv`, and is what `PacketsFindReceive` rests on;
* `ConnInv`, `LengthInv`, `RemoteInv` - what the sides know of each other: one
  client is accepted, the length is zero or right, connection data is the peer's;
* `WrittenInv`, `UnreadInv`, `StreamInv` - byte number n of what a side writes is
  `MsgByte(p, n)`; what the peer has used, read and not yet read are consecutive
  bytes from the first to the last that was written.

A step of one program leaves the variables of the others (`Others`), so that the
parts of the first kind need only be shown of the program that moves.  For the
last kind, a step either writes the next bytes, takes the first ones, makes a
connection, or does nothing to them (`WriteStep`, `ReadStep`, `AcceptStep`,
`ConnectStep`, `CalmStep`).

*Only model-checked:* all liveness (`ReceiverFinishes`, `WaitsEnd`, `CallReturns`,
`SetUpEnds`, `TransferEnds`), which is out of the prover's reach; `DepthBounded` is
the part of `TransferEnds` that is a safety property.  Each safety property that
a passing run checks is proved.  Before they were proved, `AnnounceInv` and
`CopyInv` were checked as invariants of `MCScpTransfer.cfg`, of which they are not a part
because they quadruple the time of the run.  The adapters' behaviour is
assumed, as section 2.1 describes it.

## 5. Where the code and its documentation disagree

* **The sender can hang at the end** (`sender_end`).  `scp_rdma_receiver.c:301`
  says that without the ACK of TRANSFER_END the sender times out.  The receiver
  destroys its queue pair right after posting that ACK, so the ACK may never be
  sent, and the sender's wait has no timeout.
* **wr_id** (`wr_id`).  `rdma_cdc.h:38` and `scp_rdma_sender.c:529` say that the
  wr_id of a receive identifies the slot of its ACK.  It is the slot of another
  packet, since `connect_qp` has posted one receive before; `handle_ack_recv` is
  right to read the slot from the message.
* **WRITE completion** (`write_wait`).  `wait_for_rdma_write_completion` is
  documented as the end of the WRITE just posted; it may be that of an earlier
  chunk.  The order of the send queue keeps this harmless.

* **Two destroys** (`release`).  `scp_rdma_receiver.c:345` and
  `scp_rdma_sender.c:305` leave all release to the final destroy.  After a failing
  `connect_qp` or post `rdma_trans_destroy` has run before it, which leaves the
  pointers to the queue pair, CQ, PD and device set, and releases the region of
  the CDC ring after closing its device.
* **The lid** (`lid`).  `rdma_trans.c:966` says that what is needed to connect the
  queue pairs is exchanged, and there are branches for a session without a gid
  (lines 962 and 909), which is addressed by the lid.  The 16-bit lid is written
  with `htons` (line 972) and read with the 32-bit `ntohl` (line 986): on a
  little-endian machine no lid but 0 survives, and `modify_qp_to_rtr` addresses
  nobody.  With a gid on both sides, the default, the lid is not used.
* **A file that is not complete** (`file_sent`).  The comment of `scp_send_file`
  (`scp_rdma_sender.c:385`) promises a complete file when it returns 0; a failing
  or short read ends its loop with 0 too.

Smaller ones, without a run of their own:

* `README.md:181` says that a busy slot is skipped and the next one tried.  The
  code waits for `current_slot`; `BlockedOnlyWhenFull` shows that no other would be
  free.
* `scp_rdma_sender.c:745` says that the top level follows the same rule for links
  as the traversal.  A `stat` before it (line 741) makes a dangling link at the top
  fail, which the traversal would copy; `SenderRun` models it.
* `README.md:189` says that credits limit the sender.  `local_credits` is computed
  and sent with every ACK, and `handle_ack_recv` does not read it; `remote_credits`
  is not assigned after `scp_rdma_init`, nor read.  The number of slots is what
  limits the sender (`NoRNR`).

## 6. Not modelled

* What the file systems do besides the calls of the two programs: a source that
  changes during the transfer, another program in the destination.  Permissions,
  modes, special files and absolute links.
* The text of paths: a path is a sequence of names, so that repeated slashes,
  `..` and names longer than a buffer by some bytes are not told apart from what
  they stand for (`Cut` cuts at a name, the code at a byte).
* Heap memory: the packet buffers and the ring of CDC buffers are resources of the
  adapter here; their `malloc` and `free` are not.
* What the adapter does with a packet before the peer is in RTR: it retries
  (`retry_cnt`), and `PacketsFindReceive` says what the packet then finds.
* The depth of the send queue (512) and of the CQ (864): a full send queue makes
  a post fail, which `SenderCallFails` and `ReceiverCallFails` include.
* `poll_completion`, `rdma_trans_completion`, `cq_create`, `scp_calc_checksum`: not
  called by the program.
* Option parsing, logging, statistics, build and installation.

## 7. Possible extensions

* The text of paths: a copy whose names are cut off at a byte within a name.
* A source that changes while it is read, for which `CopyFaithful` has to say at
  which time each file is the one that was copied.
