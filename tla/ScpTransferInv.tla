--------------------------- MODULE ScpTransferInv ---------------------------
(***************************************************************************)
(* The inductive invariants behind the theorems about ScpTransfer.  Inv    *)
(* holds whatever is copied and whatever fails, and so do DepthInv and     *)
(* AnnounceInv; CopyInv is about transfers in which nothing fails.         *)
(***************************************************************************)
EXTENDS ScpTransfer

-----------------------------------------------------------------------------
(* Types, and that no file is mixed.                                       *)

\* FILE_META number m is the last one among the first k packets.
MetaOf(m, k) ==
  /\ m \in 1 .. k /\ sent[m].cmd = "FILE_META"
  /\ \A i \in m + 1 .. k : sent[i].cmd # "FILE_META"
IsData(k) == sent[k].cmd = "FILE_DATA"

\* What follows a FILE_META is what it announced: the text of a link, or data
\* that is all of one file and says where in it it belongs.
PacketInv ==
  /\ \A m, k \in 1 .. Len(sent) : MetaOf(m, k) /\ IsData(k) =>
       /\ sent[m].type = "symlink" => sent[k].bytes \in Path
       /\ sent[m].type = "regular" =>
            /\ sent[k].bytes \in Seq(Unit)
            /\ \A x \in 1 .. Len(sent[k].bytes) :
                 sent[k].bytes[x].at = sent[k].offset + x - 1
  /\ \A m, k, l \in 1 .. Len(sent) :
       MetaOf(m, k) /\ IsData(k) /\ MetaOf(m, l) /\ IsData(l) /\ sent[m].type = "regular" =>
         \A x \in 1 .. Len(sent[k].bytes), y \in 1 .. Len(sent[l].bytes) :
           sent[k].bytes[x].of = sent[l].bytes[y].of

\* The file that is being sent is the one of the last FILE_META.
LinkInv ==
  pc = "link" => /\ Len(sent) > 0
                 /\ sent[Len(sent)].cmd = "FILE_META" /\ sent[Len(sent)].type = "symlink"
FileInv ==
  pc = "chunks" =>
    /\ Unmixed(file.data) /\ DOMAIN file.data = 0 .. FileSize - 1 /\ FileSize \in Nat
    /\ \E m \in 1 .. Len(sent) :
         /\ MetaOf(m, Len(sent)) /\ sent[m].type = "regular"
         /\ \A k \in m + 1 .. Len(sent) : IsData(k) =>
              \A x \in 1 .. Len(sent[k].bytes), i \in DOMAIN file.data :
                sent[k].bytes[x].of = file.data[i].of

\* What the receiver knows is of the last FILE_META it has processed, and what
\* the open file holds came after that.
OpenData(m, n) ==
  \A i \in DOMAIN tree[current_fd].data :
    \E k \in m + 1 .. n :
      /\ IsData(k)
      /\ \E x \in 1 .. Len(sent[k].bytes) : tree[current_fd].data[i] = sent[k].bytes[x]
ReceiverInv ==
  \/ /\ \A m \in 1 .. Len(delivered) : sent[m].cmd # "FILE_META"
     /\ meta_type = "regular" /\ current_fd = NoFd
  \/ \E m \in 1 .. Len(delivered) :
       /\ MetaOf(m, Len(delivered)) /\ meta_type = sent[m].type
       /\ current_fd # NoFd =>
            meta_type = "regular" /\ OpenData(m, Len(delivered))

Inv ==
  /\ TypeOK /\ Chan!DeliveredIsPrefix /\ Chan!AckedIsDelivered
  /\ PacketInv /\ LinkInv /\ FileInv /\ ReceiverInv /\ NoMixture

-----------------------------------------------------------------------------
(* The calls of scp_send_directory.                                        *)

\* Each is for a directory that exists, below that of the call before.
IsChain(calls) ==
  /\ \A i \in 1 .. Len(calls) : Stat(job.src, calls[i].local) # {}
  /\ \A i, j \in 1 .. Len(calls) : i < j =>
       \E s \in Path : s # <<>> /\ calls[j].local = calls[i].local \o s
DepthInv == Inv /\ IsChain(stack)

-----------------------------------------------------------------------------
(* Data and what announced it.                                             *)

\* Packets that are of a file or a link.
OfFile(k) == sent[k].cmd \in {"FILE_META", "FILE_DATA"}

\* Data comes right after what announced it, or after more of it.
FollowsMeta ==
  /\ \A k \in 1 .. Len(sent) : IsData(k) =>
       k > 1 /\ OfFile(k - 1) /\ \E m \in 1 .. k - 1 : MetaOf(m, k - 1)
  /\ pc = "chunks" => OfFile(Len(sent))

\* When data may come next, the receiver is at what was announced last.
AtMeta ==
  LET d == Len(delivered)
  IN  d > 0 /\ OfFile(d) => \A m \in 1 .. d : MetaOf(m, d) =>
        /\ current_path = sent[m].name
        /\ current_fd # NoFd => current_fd \in Follow(tree, sent[m].name)

AnnounceInv == Inv /\ FollowsMeta /\ AtMeta

-----------------------------------------------------------------------------
(* A copy while it is made.                                                *)

\* The name that the sender makes of a path before it is cut.
RemoteName(q) == FinalPath \o SubSeq(q, Len(job.local) + 1, Len(q))

\* Packet k announces the path, and one of the first n packets does.
Names(k, q) == sent[k].cmd \in {"FILE_META", "DIR_ENTER"} /\ sent[k].name = Target(q)
Announced(q, n) == \E k \in 1 .. n : Names(k, q)

\* Packet k is of what is at the path.
IsOf(k, q) == \E m \in 1 .. k : MetaOf(m, k) /\ Names(m, q) /\ OfFile(k)

\* The size of a file, and how much of it has been sent with packet k.
Size(node) == Cardinality(DOMAIN node.data)
EndOf(k) == IF IsData(k) THEN sent[k].offset + Len(sent[k].bytes) ELSE 0

\* What is announced is to be copied, and is announced as what it is.
Announces(k, node) ==
  IF sent[k].cmd = "DIR_ENTER" THEN node = Dir
  ELSE node.kind = IF sent[k].type = "regular" THEN "file" ELSE "link"
NamesInv ==
  \A k \in 1 .. Len(sent) : sent[k].cmd \in {"FILE_META", "DIR_ENTER"} =>
    \E q \in Visited : Names(k, q) /\ \E node \in Found(q) : Announces(k, node)

\* Data is that of the source, the text of a link or the next part of a file.
IsDataOf(k, node) ==
  IF node.kind = "link" THEN sent[k].bytes = node.to
  ELSE /\ sent[k].offset = EndOf(k - 1) /\ EndOf(k) <= Size(node)
       /\ \A x \in 1 .. Len(sent[k].bytes) :
            sent[k].bytes[x] = node.data[sent[k].offset + x - 1]
PartsInv ==
  \A k \in 1 .. Len(sent), q \in Visited : IsData(k) /\ IsOf(k, q) =>
    \A node \in Found(q) : IsDataOf(k, node)

\* With packet k, all of it has been sent, and it has before other packets come.
Whole(k, node) == IF node.kind = "link" THEN IsData(k) ELSE EndOf(k) = Size(node)
WholeInv ==
  \A k \in 1 .. Len(sent), q \in Visited : IsOf(k, q) =>
    \A node \in Found(q) :
      \/ Whole(k, node)
      \/ k < Len(sent) /\ IsData(k + 1)
      \/ k = Len(sent) /\ pc = "link" /\ node = Link(file.to)
      \/ k = Len(sent) /\ pc = "chunks" /\ node = File(file.data)

\* How far the chunk loop is.
ChunksInv ==
  pc = "chunks" =>
    /\ file.offset = EndOf(Len(sent))
    /\ file.offset = IF file.chunk * ChunkSize < FileSize
                     THEN file.chunk * ChunkSize ELSE FileSize
    /\ \E q \in Visited : IsOf(Len(sent), q) /\ Found(q) = {File(file.data)}

\* The calls of scp_send_directory are for directories that are to be copied.
IsCall(call) ==
  /\ call.local \in Visited /\ Dir \in Found(call.local)
  /\ call.remote = RemoteName(call.local) /\ call.left \subseteq Entries(call.local)
CallsInv == \A i \in 1 .. Len(stack) : IsCall(stack[i])

\* The entry is left to do in a call for the directory.
Pending(q, n) == \E i \in 1 .. Len(stack) : stack[i].local = q /\ n \in stack[i].left

\* What is in a directory that has been announced has been too, or is left to do.
ClosedInv ==
  /\ pc = "run" => sent = <<>> /\ stack = <<>>
  /\ pc \notin {"run", "failed"} => Announced(job.local, Len(sent))
  /\ \A q \in Visited : Announced(q, Len(sent)) /\ Dir \in Found(q) =>
       \A n \in Entries(q) : Append(q, n) \in Visited =>
         Announced(Append(q, n), Len(sent)) \/ Pending(q, n)

\* The end is the end.
EndInv ==
  /\ pc \in {"end", "ended", "done"} => stack = <<>>
  /\ \A k \in 1 .. Len(sent) : sent[k].cmd = "TRANSFER_END" =>
       k = Len(sent) /\ pc \in {"ended", "done"}
  /\ completed => Len(delivered) = Len(sent) /\ pc \in {"ended", "done"}

\* The receiver's tree is the old one, with copies and the directories they are
\* in; no link and no file is where a directory belongs.
TreeInv ==
  /\ DOMAIN job.old \subseteq DOMAIN tree
  /\ \A p \in DOMAIN tree :
       \/ \E q \in Visited : p = Target(q)
       \/ p \in DOMAIN job.old /\ tree[p] = job.old[p]
       \/ tree[p] = Dir /\ \E q \in Visited : IsPrefix(p, Target(q))
  /\ \A q \in Visited : Target(q) \in DOMAIN tree =>
       \A node \in Found(q) :
         /\ tree[Target(q)] = Dir <=> node = Dir
         /\ tree[Target(q)].kind = "link" => node.kind = "link"

\* The first n units of a file.
FirstUnits(data, n) == [i \in 0 .. n - 1 |-> data[i]]

\* What has been processed, the first d packets, is there, and of a file what has
\* been.
CopyAt(q, d) ==
  /\ Announced(q, d) /\ ~IsOf(d, q) =>
       Target(q) \in DOMAIN tree /\ Found(q) = {tree[Target(q)]}
  /\ IsOf(d, q) => \A node \in Found(q) :
       IF node.kind = "link"
       THEN /\ IsKind(tree, Front(Target(q)), "dir")
            /\ IsData(d) => Target(q) \in DOMAIN tree /\ tree[Target(q)] = node
       ELSE /\ current_fd = Target(q) /\ Target(q) \in DOMAIN tree
            /\ tree[Target(q)] = File(FirstUnits(node.data, EndOf(d)))
CopiesInv == \A q \in Visited : CopyAt(q, Len(delivered))

CopyInv ==
  faults = 0 /\ Suitable =>
    /\ up /\ NamesInv /\ PartsInv /\ WholeInv /\ ChunksInv /\ CallsInv
    /\ ClosedInv /\ EndInv /\ TreeInv /\ CopiesInv
=============================================================================
