----------------------------- MODULE ScpTransfer -----------------------------
(***************************************************************************)
(* What scp_rdma does to the two file systems: the sender walks a tree and *)
(* turns it into packets (scp_sender_run and what it calls), the receiver  *)
(* turns the packets into system calls (the dispatch on cmd_type in        *)
(* scp_receiver_run).  Between them is a PacketChannel, which is what the  *)
(* pipeline, ScpPipeline, implements.                                      *)
(*                                                                         *)
(* A tree is a function from the paths that exist, <<>> being its root, to *)
(* nodes.  A path is a sequence of names.  The text of a link is a path    *)
(* relative to the directory the link is in.  A file is a function from    *)
(* offsets to units of data, and a chunk has ChunkSize units.              *)
(***************************************************************************)
EXTENDS Integers, SequencesExt

CONSTANTS
  Name,       \* the names of files, links and directories
  NoFd,       \* no file is open, -1
  Jobs,       \* what may be copied, how, and over what: see Job
  Window,     \* DUAL_BUFFER_SLOTS
  ChunkSize,  \* SCP_CHUNK_SIZE, in units
  NameLen,    \* the names of a path that fit into SCP_MAX_FILENAME_LEN
  LinkLimit,  \* links the kernel follows in one path before it says ELOOP
  MaxFaults   \* bound: system calls that fail or fall short, and lost connections

ASSUME SizesAssumption ==
  /\ Window \in Nat \ {0} /\ ChunkSize \in Nat \ {0} /\ NameLen \in Nat \ {0}
  /\ LinkLimit \in Nat /\ MaxFaults \in Nat

\* A job is a record of
\*   src        the tree the sender reads
\*   local      the path of SOURCE in it
\*   base       what follows the last slash of SOURCE: a name, or nothing
\*   dest       the path of DEST, below the receiver's directory
\*   slash      DEST is empty, is "." or ends with a slash
\*   recursive  the -r option
\*   no_link    the -n or -l option
\*   old        the tree below the receiver's directory before the transfer

VARIABLES
  job,
  pc,            \* the sender: run, walk, link, chunks, end, done or failed
  stack,         \* the calls of scp_send_directory that run
  file,          \* the file or link scp_send_file or scp_send_symlink sends
  up,            \* the connection works
  sent, delivered, acked,  \* the channel: see PacketChannel
  tree,          \* the tree below the receiver's directory
  current_fd,    \* the file that is open, or NoFd
  current_path,
  meta_type,
  completed,     \* "Transfer completed successfully" has been printed
  faults

chanVars == <<sent, delivered, acked>>
sendVars == <<pc, stack, file>>
fileVars == <<tree, current_fd, current_path, meta_type, completed>>
vars == <<job, sendVars, up, chanVars, fileVars, faults>>

-----------------------------------------------------------------------------
(* Trees and paths.                                                        *)

Path == Seq(Name)
Unit == [of : Path, at : Nat]
Dir == [kind |-> "dir"]
File(data) == [kind |-> "file", data |-> data]
Link(to) == [kind |-> "link", to |-> to]
IsKind(fs, p, kind) == p \in DOMAIN fs /\ fs[p].kind = kind

IsNode(node) ==
  \/ node = Dir
  \/ node.kind = "link" /\ node = Link(node.to) /\ node.to \in Path
  \/ /\ node.kind = "file" /\ node = File(node.data)
     /\ \A i \in DOMAIN node.data : i \in Nat /\ node.data[i] \in Unit

\* Each node is in a directory.
IsTree(fs) ==
  /\ DOMAIN fs \subseteq Path /\ <<>> \in DOMAIN fs /\ fs[<<>>] = Dir
  /\ \A p \in DOMAIN fs : IsNode(fs[p]) /\ (p # <<>> => IsKind(fs, Front(p), "dir"))

\* All data of a file is of one file, at the offset it has there.
Unmixed(data) ==
  \A i, j \in DOMAIN data : data[i].of = data[j].of /\ data[i].at = i
AllUnmixed(fs) == \A p \in DOMAIN fs : fs[p].kind = "file" => Unmixed(fs[p].data)

ASSUME JobsAssumption ==
  \A j \in Jobs :
    /\ IsTree(j.src) /\ AllUnmixed(j.src) /\ IsTree(j.old) /\ AllUnmixed(j.old)
    /\ IsFiniteSet(DOMAIN j.src)
    /\ \A p \in DOMAIN j.src : j.src[p].kind = "file" =>
         /\ IsFiniteSet(DOMAIN j.src[p].data)
         /\ j.src[p].data \in [0 .. Cardinality(DOMAIN j.src[p].data) - 1 -> Unit]
    /\ {j.local, j.base, j.dest} \subseteq Path
    /\ {j.slash, j.recursive, j.no_link} \subseteq BOOLEAN

ASSUME NoFdAssumption == NoFd \notin Path

LinksOn(fs, p) == {i \in 1 .. Len(p) : IsKind(fs, SubSeq(p, 1, i), "link")}

\* The path with the first link on it replaced by its text.
FollowOne(fs, p) ==
  IF LinksOn(fs, p) = {} THEN p
  ELSE LET i == Min(LinksOn(fs, p))
       IN  SubSeq(p, 1, i - 1) \o fs[SubSeq(p, 1, i)].to \o SubSeq(p, i + 1, Len(p))

\* Where a system call that follows links ends: one path, whether something is
\* there or not, or none when there are too many links.
Follow(fs, path) ==
  LET walk[k \in 0 .. LinkLimit] ==
        IF k = 0 THEN {path} ELSE {FollowOne(fs, p) : p \in walk[k - 1]}
  IN {p \in walk[LinkLimit] : LinksOn(fs, p) = {}}

\* The same for a call that does not follow a link at the end of the path.
FollowParent(fs, path) ==
  IF path = <<>> THEN {path}
  ELSE {Append(p, Last(path)) : p \in Follow(fs, Front(path))}

\* What stat and lstat find: a node, or none.
Stat(fs, path) == {fs[p] : p \in Follow(fs, path) \cap DOMAIN fs}
Lstat(fs, path) == {fs[p] : p \in FollowParent(fs, path) \cap DOMAIN fs}

Put(fs, p, node) == [q \in DOMAIN fs \cup {p} |-> IF q = p THEN node ELSE fs[q]]
CanMake(fs, p) ==
  p \in Path \ DOMAIN fs /\ p # <<>> /\ IsKind(fs, Front(p), "dir")

\* The tree after the mkdir calls of scp_mkdir_recursive for the first n
\* directories of a path.  The first one that is missing is made, unless its
\* parent is no directory, and then those below it.
MkDirs(fs, path, n) ==
  LET missing == {i \in 1 .. n : Lstat(fs, SubSeq(path, 1, i)) = {}}
      first == Min(missing)
      made == IF missing = {} THEN {}
              ELSE {p \o SubSeq(path, first + 1, i) :
                      p \in {q \in FollowParent(fs, SubSeq(path, 1, first)) : CanMake(fs, q)},
                      i \in first .. n}
  IN [p \in DOMAIN fs \cup made |-> IF p \in made THEN Dir ELSE fs[p]]

-----------------------------------------------------------------------------
(* Packets.                                                                *)

Meta(name, type) == [cmd |-> "FILE_META", name |-> name, type |-> type]
Data(offset, bytes) == [cmd |-> "FILE_DATA", offset |-> offset, bytes |-> bytes]
DirEnter(name) == [cmd |-> "DIR_ENTER", name |-> name]
DirLeave == [cmd |-> "DIR_LEAVE"]
TransferEnd == [cmd |-> "TRANSFER_END"]

\* The strncpy of a path into file_name or dir_name.
Cut(path) == SubSeq(path, 1, IF Len(path) < NameLen THEN Len(path) ELSE NameLen)

Type == {"regular", "symlink"}
Packet == [cmd : {"FILE_META"}, name : Path, type : Type]
   \cup [cmd : {"FILE_DATA"}, offset : Nat, bytes : Seq(Unit) \cup Path]
   \cup [cmd : {"DIR_ENTER"}, name : Path]
   \cup [cmd : {"DIR_LEAVE", "TRANSFER_END"}]

Chan == INSTANCE PacketChannel

CanFail == faults < MaxFaults
Fails == CanFail /\ faults' = faults + 1
Works == UNCHANGED faults

-----------------------------------------------------------------------------

Init ==
  /\ job \in Jobs
  /\ pc = "run" /\ stack = <<>> /\ file = <<>> /\ up = TRUE
  /\ Chan!Init
  /\ tree = job.old /\ current_fd = NoFd /\ current_path = <<>>
  /\ meta_type = "regular" /\ completed = FALSE
  /\ faults = 0

-----------------------------------------------------------------------------
(* The sender.  A packet that is sent with scp_rdma_send_sync is followed   *)
(* by a step that waits for its acknowledgement (Idle); chunks only wait   *)
(* for a free slot.                                                        *)

Idle == acked = Len(sent)
SlotFree == Len(sent) - acked < Window

Announce(packet) ==
  /\ up /\ SlotFree
  /\ sent' = Append(sent, packet)
  /\ UNCHANGED <<delivered, acked>>

\* The path main makes out of DEST: a directory gets the name of SOURCE.
FinalPath == IF job.slash THEN job.dest \o job.base ELSE job.dest

\* What the sender finds at a path, with or without links being followed.
Found(path) == IF job.no_link THEN Stat(job.src, path) ELSE Lstat(job.src, path)

\* The names in a directory.
Entries(path) ==
  {n \in Name : \E p \in Follow(job.src, path) : Append(p, n) \in DOMAIN job.src}

\* After a file or a link the caller goes on.
Return == pc' = IF stack' = <<>> THEN "end" ELSE "walk"

SendDirectory(path, name, calls) ==
  /\ Announce(DirEnter(Cut(name)))
  /\ stack' = Append(calls, [local |-> path, remote |-> name, left |-> Entries(path)])
  /\ pc' = "walk" /\ UNCHANGED file

\* scp_send_symlink up to its first packet.
SendSymlink(node, name, calls) ==
  /\ Announce(Meta(Cut(name), "symlink"))
  /\ file' = [to |-> node.to]
  /\ stack' = calls /\ pc' = "link"

\* scp_send_file up to its first packet.
SendFile(node, name, calls) ==
  /\ Announce(Meta(Cut(name), "regular"))
  /\ file' = [data |-> node.data, chunk |-> 0, offset |-> 0]
  /\ stack' = calls /\ pc' = "chunks"

\* opendir, readlink, stat or open fails in the function called for an entry,
\* or its first packet cannot be sent: every caller returns -1.
SendFails == Fails /\ pc' = "failed" /\ UNCHANGED <<stack, file, chanVars>>

Send(node, path, name, calls) ==
  \/ /\ Works
     /\ \/ node.kind = "dir" /\ SendDirectory(path, name, calls)
        \/ node.kind = "link" /\ SendSymlink(node, name, calls)
        \/ node.kind = "file" /\ SendFile(node, name, calls)
  \/ SendFails

\* The first stat follows links in either mode.
SenderRun ==
  /\ pc = "run"
  /\ \/ /\ Stat(job.src, job.local) # {}
        /\ \E node \in Found(job.local) : Send(node, job.local, FinalPath, <<>>)
     \/ /\ Stat(job.src, job.local) = {}
        /\ pc' = "failed" /\ Works /\ UNCHANGED <<stack, file, chanVars>>

\* Mistake: an entry is looked for where the links on the path to its directory
\* lead, as after chdir, so that no path has too many links.
EntryWhereLinksLead(n) ==
  LET top == stack[Len(stack)]
      here == CHOOSE p \in Follow(job.src, top.local) : TRUE
  IN  [path |-> Append(here, n), name |-> Append(top.remote, n),
       calls |-> [stack EXCEPT ![Len(stack)].left = @ \ {n}]]

\* readdir returns the entries of a directory in any order, each once.
Entry(n) ==
  LET top == stack[Len(stack)]
  IN  [path |-> Append(top.local, n), name |-> Append(top.remote, n),
       calls |-> [stack EXCEPT ![Len(stack)].left = @ \ {n}]]

NextEntry(n) == pc = "walk" /\ Idle /\ n \in stack[Len(stack)].left

SendEntry(n) ==
  /\ NextEntry(n)
  /\ \E node \in Found(Entry(n).path) :
       /\ node.kind = "dir" => job.recursive
       /\ Send(node, Entry(n).path, Entry(n).name, Entry(n).calls)

\* Mistake: an entry that cannot be examined is tried again.
SkipEntryWithoutNext(n) ==
  /\ NextEntry(n)
  /\ \E node \in Found(Entry(n).path) : node.kind = "dir" /\ ~job.recursive /\ Works
  /\ stack' = Entry(n).calls
  /\ UNCHANGED <<pc, file, chanVars>>

\* An entry that cannot be examined is skipped, and so is a directory without -r.
SkipEntry(n) ==
  /\ NextEntry(n)
  /\ \/ Found(Entry(n).path) = {} /\ Works
     \/ \E node \in Found(Entry(n).path) : node.kind = "dir" /\ ~job.recursive /\ Works
     \/ Fails
  /\ stack' = Entry(n).calls
  /\ UNCHANGED <<pc, file, chanVars>>

LeaveDirectory ==
  /\ pc = "walk" /\ Idle /\ stack[Len(stack)].left = {}
  /\ Announce(DirLeave)
  /\ stack' = Front(stack)
  /\ Return /\ Works /\ UNCHANGED file

SendLinkText ==
  /\ pc = "link" /\ Idle
  /\ Announce(Data(0, file.to))
  /\ Works /\ UNCHANGED <<stack, file>> /\ Return

\* The chunk loop of scp_send_file, which goes by the size stat returned.
FileSize == Cardinality(DOMAIN file.data)

\* Mistake: the number of chunks is rounded down.
TotalChunksRoundedDown == FileSize \div ChunkSize

TotalChunks == (FileSize + ChunkSize - 1) \div ChunkSize
ToRead ==
  IF file.offset + ChunkSize > FileSize THEN FileSize - file.offset ELSE ChunkSize

InChunkLoop ==
  /\ pc = "chunks" /\ file.chunk < TotalChunks
  /\ file.chunk = 0 => Idle
  /\ SlotFree

\* pread may return less than was asked for; the loop goes on from there.
SendChunk(n) ==
  /\ InChunkLoop
  /\ n \in 1 .. ToRead /\ (IF n = ToRead THEN Works ELSE Fails)
  /\ Announce(Data(file.offset, [i \in 1 .. n |-> file.data[file.offset + i - 1]]))
  /\ file' = [file EXCEPT !.chunk = @ + 1, !.offset = @ + n]
  /\ UNCHANGED <<pc, stack>>

\* pread returns 0 or an error, which it does with O_DIRECT for an offset that
\* is not aligned: the loop ends as if the file were complete.
ReadStops ==
  /\ InChunkLoop
  /\ Fails \/ (file.offset % ChunkSize # 0 /\ Works)
  /\ file' = [file EXCEPT !.chunk = TotalChunks]
  /\ UNCHANGED <<pc, stack, chanVars>>

FileSent ==
  /\ pc = "chunks" /\ file.chunk = TotalChunks /\ Idle
  /\ Works /\ UNCHANGED <<stack, file, chanVars>> /\ Return

SendEnd ==
  /\ pc = "end" /\ Idle
  /\ Announce(TransferEnd)
  /\ pc' = "ended" /\ Works /\ UNCHANGED <<stack, file>>

Finish ==
  /\ pc = "ended" /\ Idle
  /\ pc' = "done" /\ Works /\ UNCHANGED <<stack, file, chanVars>>

\* A send or a wait fails.  The result of the last send is ignored.
SenderLoses ==
  /\ ~up /\ pc \notin {"done", "failed"}
  /\ pc' = IF pc = "ended" \/ (pc = "end" /\ Idle) THEN "done" ELSE "failed"
  /\ Works /\ UNCHANGED <<stack, file, chanVars>>

Sender ==
  /\ \/ SenderRun
     \/ \E n \in Name : SendEntry(n) \/ SkipEntry(n)
     \/ LeaveDirectory \/ SendLinkText
     \/ (\E n \in 1 .. ChunkSize : SendChunk(n)) \/ ReadStops \/ FileSent
     \/ SendEnd \/ Finish \/ SenderLoses
  /\ UNCHANGED <<job, up, fileVars>>

-----------------------------------------------------------------------------
(* The receiver.  Every failure is printed and forgotten.                  *)

\* The trees that the mkdirs of scp_mkdir_recursive may leave.
MadeDirs(path) ==
  {[fs |-> MkDirs(tree, path, Len(path)), faults |-> faults]}
     \cup {[fs |-> MkDirs(tree, path, i), faults |-> faults + 1] :
             i \in {j \in 0 .. Len(path) - 1 : CanFail}}

\* Where the open of current_path, after the mkdirs, finds or makes a file.
CanOpen(fs) == {p \in Follow(fs, current_path') : IsKind(fs, p, "file") \/ CanMake(fs, p)}

\* Mistake: current_fd keeps the last file when open fails.
OpenFileKeepsFd(made) ==
  \/ \E p \in CanOpen(made.fs) :
       tree' = Put(made.fs, p, File(<<>>)) /\ current_fd' = p /\ faults' = made.faults
  \/ /\ tree' = made.fs /\ UNCHANGED current_fd
     /\ \/ CanOpen(made.fs) = {} /\ faults' = made.faults
        \/ made.faults < MaxFaults /\ faults' = made.faults + 1

\* open with O_CREAT and O_TRUNC
OpenFile(made) ==
  \/ \E p \in CanOpen(made.fs) :
       tree' = Put(made.fs, p, File(<<>>)) /\ current_fd' = p /\ faults' = made.faults
  \/ /\ tree' = made.fs /\ current_fd' = NoFd
     /\ \/ CanOpen(made.fs) = {} /\ faults' = made.faults
        \/ made.faults < MaxFaults /\ faults' = made.faults + 1

\* Mistake: meta_type is not set when a directory is in the way.
ReceiveMetaKeepsType(packet) ==
  /\ packet.cmd = "FILE_META"
  /\ current_path' = packet.name
  /\ \/ /\ Dir \in Stat(tree, packet.name)
        /\ current_fd' = NoFd /\ Works /\ UNCHANGED <<tree, meta_type>>
     \/ /\ Dir \notin Stat(tree, packet.name)
        /\ meta_type' = packet.type
        /\ \E made \in MadeDirs(Front(packet.name)) :
             IF packet.type = "regular" THEN OpenFile(made)
             ELSE tree' = made.fs /\ current_fd' = NoFd /\ faults' = made.faults
  /\ UNCHANGED completed

\* A regular file is not opened where a directory is; that a link is not made
\* there is left to unlink and symlink.
ReceiveMeta(packet) ==
  /\ packet.cmd = "FILE_META"
  /\ current_path' = packet.name /\ meta_type' = packet.type
  /\ \/ /\ Dir \in Stat(tree, packet.name)
        /\ current_fd' = NoFd /\ Works /\ UNCHANGED tree
     \/ /\ Dir \notin Stat(tree, packet.name)
        /\ \E made \in MadeDirs(Front(packet.name)) :
             IF packet.type = "regular" THEN OpenFile(made)
             ELSE tree' = made.fs /\ current_fd' = NoFd /\ faults' = made.faults
  /\ UNCHANGED completed

\* Mistake: a directory is removed for a link as a file is.
MakeLinkRemovesDirectory(to) ==
  LET at == FollowParent(tree, current_path)
      removed == [p \in DOMAIN tree \ at |-> tree[p]]
  IN \/ /\ Works
        /\ \/ \E p \in at : CanMake(removed, p) /\ tree' = Put(removed, p, Link(to))
           \/ (\A p \in at : ~CanMake(removed, p)) /\ tree' = removed
     \/ Fails /\ tree' \in {tree, removed}

\* unlink, which removes no directory, and symlink, which replaces nothing.
MakeLink(to) ==
  LET at == FollowParent(tree, current_path)
      unlinked == [p \in DOMAIN tree \ {q \in at : ~IsKind(tree, q, "dir")} |-> tree[p]]
  IN \/ /\ Works
        /\ \/ \E p \in at : CanMake(unlinked, p) /\ tree' = Put(unlinked, p, Link(to))
           \/ (\A p \in at : ~CanMake(unlinked, p)) /\ tree' = unlinked
     \/ Fails /\ tree' \in {tree, unlinked}

\* lseek and write, which may write only the first n units.
WriteChunk(packet, n) ==
  LET old == tree[current_fd].data
      at == packet.offset .. packet.offset + n - 1
  IN  tree' = Put(tree, current_fd, File([i \in DOMAIN old \cup at |->
        IF i \in at THEN packet.bytes[i - packet.offset + 1] ELSE old[i]]))

ReceiveData(packet) ==
  /\ packet.cmd = "FILE_DATA"
  /\ \/ meta_type = "symlink" /\ MakeLink(packet.bytes)
     \/ /\ meta_type = "regular" /\ current_fd # NoFd
        /\ \E n \in 0 .. Len(packet.bytes) :
             /\ IF n = Len(packet.bytes) THEN Works ELSE Fails
             /\ WriteChunk(packet, n)
     \/ meta_type = "regular" /\ current_fd = NoFd /\ Works /\ UNCHANGED tree
  /\ UNCHANGED <<current_fd, current_path, meta_type, completed>>

ReceiveDirEnter(packet) ==
  /\ packet.cmd = "DIR_ENTER"
  /\ current_path' = packet.name
  /\ \E made \in MadeDirs(packet.name) : tree' = made.fs /\ faults' = made.faults
  /\ UNCHANGED <<current_fd, meta_type, completed>>

ReceiveDirLeave(packet) ==
  /\ packet.cmd = "DIR_LEAVE"
  /\ current_fd' = NoFd
  /\ Works /\ UNCHANGED <<tree, current_path, meta_type, completed>>

\* The file is closed; current_fd keeps its number, which no packet uses.
ReceiveEnd(packet) ==
  /\ packet.cmd = "TRANSFER_END"
  /\ completed' = TRUE
  /\ Works /\ UNCHANGED <<tree, current_fd, current_path, meta_type>>

Receive ==
  /\ Chan!Deliver
  /\ LET packet == sent[Len(delivered) + 1]
     IN  \/ ReceiveMeta(packet) \/ ReceiveData(packet)
         \/ ReceiveDirEnter(packet) \/ ReceiveDirLeave(packet)
         \/ ReceiveEnd(packet)
  /\ UNCHANGED <<job, sendVars, up>>

\* One poll of the sender may bring several acknowledgements.
Acknowledge ==
  /\ \E n \in 1 .. Len(delivered) : Chan!Ack(n)
  /\ UNCHANGED <<job, sendVars, up, fileVars, faults>>

LoseConnection ==
  /\ up /\ up' = FALSE /\ Fails
  /\ UNCHANGED <<job, sendVars, chanVars, fileVars>>

Next == Sender \/ Receive \/ Acknowledge \/ LoseConnection

Spec == Init /\ [][Next]_vars

\* The sender runs and, while the connection works, packets arrive and are
\* processed and their acknowledgements arrive.
FairSpec ==
  /\ Spec
  /\ WF_vars(Sender)
  /\ WF_chanVars(up /\ Chan!Deliver)
  /\ WF_chanVars(up /\ \E n \in 1 .. Len(delivered) : Chan!Ack(n))

-----------------------------------------------------------------------------
(* Properties.                                                             *)

\* The types of the variables, and the receiver's tree is one: whatever is
\* unlinked and made, each node is in a directory.
TypeOK ==
  /\ job \in Jobs
  /\ pc \in {"run", "walk", "link", "chunks", "end", "ended", "done", "failed"}
  /\ stack \in Seq([local : Path, remote : Path, left : SUBSET Name])
  /\ pc = "walk" => stack # <<>>
  /\ pc = "link" => file.to \in Path
  /\ pc = "chunks" =>
       /\ file = [data |-> file.data, chunk |-> file.chunk, offset |-> file.offset]
       /\ IsNode(File(file.data))
       /\ file.chunk \in 0 .. TotalChunks /\ file.offset \in 0 .. FileSize
  /\ up \in BOOLEAN
  /\ Chan!TypeOK
  /\ IsTree(tree)
  /\ current_fd = NoFd \/ IsKind(tree, current_fd, "file")
  /\ current_path \in Path /\ meta_type \in Type /\ completed \in BOOLEAN
  /\ faults \in 0 .. MaxFaults

\* No file ever holds data of two files, and data is at the offset it came
\* from: data is never written to the file of an earlier announcement, and
\* nothing of an overwritten file shows through, whatever fails, is cut off or
\* is in the way (scp_rdma_receiver.c:198, :214, :219).
NoMixture == AllUnmixed(tree)

\* The paths of the source that a copy should have: all that can be reached
\* from SOURCE, through links with no_link, and below it only with -r.
Visited ==
  LET depth == (LinkLimit + 1) * Cardinality(DOMAIN job.src)
      at[d \in 0 .. depth] ==
        IF d = 0 THEN {job.local}
        ELSE {q \in UNION {{Append(p, n) : n \in Entries(p)} :
                             p \in {r \in at[d - 1] : Dir \in Found(r)}} :
                /\ Found(q) # {}
                /\ Dir \in Found(q) => job.recursive}
  IN UNION {at[d] : d \in 0 .. depth}

\* The name of the copy of a path, and the whole copies.
Target(q) == Cut(FinalPath \o SubSeq(q, Len(job.local) + 1, Len(q)))
IsCopy ==
  /\ \A q \in Visited : Found(q) = Lstat(tree, Target(q))
  /\ \A p \in DOMAIN tree :
       \/ \E q \in Visited : p = Target(q)
       \/ p \in DOMAIN job.old /\ tree[p] = job.old[p]
       \/ tree[p] = Dir /\ \E q \in Visited : IsPrefix(p, Target(q))
  /\ DOMAIN job.old \subseteq DOMAIN tree

\* Names that are not cut off to the same name, and a destination with neither
\* links nor nodes of another kind where the copy goes.
Suitable ==
  /\ \A p, q \in Visited : Target(p) = Target(q) => p = q
  /\ \A q \in Visited :
       /\ LinksOn(job.old, Target(q)) = {}
       /\ \A i \in 1 .. Len(Target(q)) - 1 :
            ~IsKind(job.old, SubSeq(Target(q), 1, i), "file")
       /\ \A here \in Lstat(job.old, Target(q)) : \A node \in Found(q) :
            here = Dir <=> node = Dir

\* When nothing fails and nothing is in the way, the receiver's success message
\* means that what was to be copied is there, and that nothing else changed,
\* not even by way of the links that were copied before.
CopyFaithful == completed /\ faults = 0 /\ Suitable => IsCopy

\* A packet makes missing directories, and otherwise touches no path but the
\* one of the last FILE_META, as a file or a link, as that announced.  No
\* packet removes or changes a directory.
AnnouncedOnly ==
  LET metas == {i \in DOMAIN delivered' : delivered'[i].cmd = "FILE_META"}
      last == delivered'[Max(metas)]
  IN \A p \in DOMAIN tree \cup DOMAIN tree' :
       \/ {tree[q] : q \in {p} \cap DOMAIN tree} = {tree'[q] : q \in {p} \cap DOMAIN tree'}
       \/ p \notin DOMAIN tree /\ tree'[p] = Dir
       \/ /\ metas # {} /\ last.type = "regular"
          /\ p \in Follow(tree, last.name) /\ IsKind(tree', p, "file")
       \/ /\ metas # {} /\ last.type = "symlink"
          /\ p \in FollowParent(tree, last.name)
          /\ ~IsKind(tree, p, "dir")
          /\ p \in DOMAIN tree' => IsKind(tree', p, "link")

OnlyAnnounced == [][AnnouncedOnly]_vars

\* scp_send_directory (scp_rdma_sender.c:681) calls itself, with an open directory
\* and two path buffers for each call, and with no_link also for a link to a
\* directory above.  A chain of calls ends because a path that goes round meets
\* LinkLimit: at most LinkLimit + 1 of them are in the same directory.
DepthBounded == Len(stack) <= (LinkLimit + 1) * Cardinality(DOMAIN job.src)

\* The comment above scp_send_file (scp_rdma_sender.c:385) says that it sends "a
\* complete file" and that 0 means success: when it returns 0, all units of the
\* file have been sent.
CompleteFileSent == [][FileSent => file.offset = FileSize]_vars

\* The sender ends, also in a tree where links lead back to a directory above
\* them; and with no failure it ends with the receiver's success message if
\* SOURCE exists.
TransferEnds ==
  <>(/\ pc \in {"done", "failed"}
     /\ faults = 0 /\ Stat(job.src, job.local) # {} => pc = "done" /\ completed)
=============================================================================
