-------------------------- MODULE ScpAnnounceProofs --------------------------
(***************************************************************************)
(* A packet makes directories that are missing, and otherwise touches no   *)
(* path but the one of the last FILE_META.                                 *)
(***************************************************************************)
EXTENDS ScpPathProofs

-----------------------------------------------------------------------------
(* What a packet does to the tree.                                         *)

\* Only directories are made.
Grown(fs, gs) ==
  /\ DOMAIN fs \subseteq DOMAIN gs
  /\ \A p \in DOMAIN gs : gs[p] = IF p \in DOMAIN fs THEN fs[p] ELSE Dir

LEMMA GrownLinks ==
  ASSUME NEW fs, NEW gs, Grown(fs, gs)
  PROVE  SameLinks(fs, gs)
BY DEF Grown, SameLinks, IsKind, Dir

LEMMA MkDirsGrown ==
  ASSUME NEW fs, IsTree(fs), AllUnmixed(fs), NEW path \in Path, NEW n \in Nat, n <= Len(path)
  PROVE  Grown(fs, MkDirs(fs, path, n))
<1>1. \A q \in DOMAIN fs : q \in DOMAIN MkDirs(fs, path, n) /\ MkDirs(fs, path, n)[q] = fs[q]
  BY MkDirsTree
<1>2. \A q \in DOMAIN MkDirs(fs, path, n) \ DOMAIN fs : MkDirs(fs, path, n)[q] = Dir
  <2> SUFFICES ASSUME NEW q \in DOMAIN MkDirs(fs, path, n) \ DOMAIN fs
               PROVE  MkDirs(fs, path, n)[q] = Dir
    OBVIOUS
  <2> DEFINE missing == {i \in 1 .. n : Lstat(fs, SubSeq(path, 1, i)) = {}}
             first == Min(missing)
             made == IF missing = {} THEN {}
                     ELSE {p \o SubSeq(path, first + 1, i) :
                             p \in {x \in FollowParent(fs, SubSeq(path, 1, first)) :
                                      CanMake(fs, x)},
                             i \in first .. n}
  <2>1. MkDirs(fs, path, n) =
          [p \in DOMAIN fs \cup made |-> IF p \in made THEN Dir ELSE fs[p]]
    BY DEF MkDirs
  <2> HIDE DEF made
  <2> QED
    BY <2>1
<1> QED
  BY <1>1, <1>2 DEF Grown

LEMMA MadeGrown ==
  ASSUME IsTree(tree), AllUnmixed(tree), faults \in 0 .. MaxFaults,
         NEW path \in Path, NEW made \in MadeDirs(path)
  PROVE  Grown(tree, made.fs) /\ IsTree(made.fs) /\ AllUnmixed(made.fs)
<1>1. Len(path) \in Nat
  BY FrontPath
<1>2. PICK n \in 0 .. Len(path) : made.fs = MkDirs(tree, path, n)
  BY <1>1 DEF MadeDirs
<1>3. n \in Nat /\ n <= Len(path)
  BY <1>1
<1> QED
  BY <1>2, <1>3, MkDirsGrown, MadeTree

\* What is put where a file is or where a node can be made hides no link.
LEMMA PutLinks ==
  ASSUME NEW fs, NEW p, NEW data, IsKind(fs, p, "file") \/ CanMake(fs, p)
  PROVE  SameLinks(fs, Put(fs, p, File(data)))
<1>1. ~IsKind(fs, p, "link") /\ File(data).kind = "file"
  BY DEF CanMake, IsKind, File
<1> HIDE DEF File
<1> QED
  BY <1>1 DEF SameLinks, IsKind, Put

\* open: the tree grows, and the file that is opened is where the path leads.
LEMMA OpenGrown ==
  ASSUME NEW made, IsTree(made.fs), AllUnmixed(made.fs), IsTree(tree), Grown(tree, made.fs),
         made.faults \in 0 .. MaxFaults, OpenFile(made), current_path' \in Path
  PROVE  \/ Grown(tree, tree') /\ current_fd' = NoFd
         \/ /\ current_fd' \in Follow(tree, current_path')
            /\ current_fd' \in Follow(tree', current_path')
            /\ IsKind(tree', current_fd', "file")
            /\ \A q \in DOMAIN tree : q # current_fd' =>
                 q \in DOMAIN tree' /\ tree'[q] = tree[q]
            /\ \A q \in DOMAIN tree' \ DOMAIN tree : q # current_fd' => tree'[q] = Dir
<1>1. CASE tree' = made.fs /\ current_fd' = NoFd
  BY <1>1
<1>2. ASSUME NEW p \in CanOpen(made.fs), tree' = Put(made.fs, p, File(<<>>)), current_fd' = p
      PROVE  /\ p \in Follow(tree, current_path')
             /\ p \in Follow(tree', current_path')
             /\ IsKind(tree', p, "file")
             /\ \A q \in DOMAIN tree : q # p => q \in DOMAIN tree' /\ tree'[q] = tree[q]
             /\ \A q \in DOMAIN tree' \ DOMAIN tree : q # p => tree'[q] = Dir
  <2>1. p \in Follow(made.fs, current_path') /\ (IsKind(made.fs, p, "file") \/ CanMake(made.fs, p))
    BY DEF CanOpen
  <2>2. SameLinks(tree, made.fs) /\ SameLinks(made.fs, tree')
    BY <1>2, <2>1, GrownLinks, PutLinks
  <2>3. IsTree(tree') /\ IsKind(tree', p, "file")
    BY <1>1, OpenTree, <1>2, <2>1 DEF IsKind, Put, File
  <2>4. Follow(tree, current_path') = Follow(made.fs, current_path')
    BY <2>2, SameWays
  <2>5. Follow(made.fs, current_path') = Follow(tree', current_path')
    BY <2>2, <2>3, SameWays
  <2>6. /\ DOMAIN tree' = DOMAIN made.fs \cup {p}
        /\ \A q \in DOMAIN made.fs : q # p => tree'[q] = made.fs[q]
    BY <1>2 DEF Put
  <2> QED
    BY <2>1, <2>3, <2>4, <2>5, <2>6 DEF Grown
<1> QED
  BY <1>1, <1>2 DEF OpenFile

-----------------------------------------------------------------------------

\* The properties of a step, with the last FILE_META named.
TouchedOnly(last, p) ==
  \/ /\ last.type = "regular"
     /\ p \in Follow(tree, last.name) /\ IsKind(tree', p, "file")
  \/ /\ last.type = "symlink"
     /\ p \in FollowParent(tree, last.name)
     /\ ~IsKind(tree, p, "dir")
     /\ p \in DOMAIN tree' => IsKind(tree', p, "link")

Kept(p) ==
  \/ p \in DOMAIN tree /\ p \in DOMAIN tree' /\ tree[p] = tree'[p]
  \/ p \notin DOMAIN tree /\ p \notin DOMAIN tree'
  \/ p \notin DOMAIN tree /\ tree'[p] = Dir

LEMMA GrownKept ==
  ASSUME Grown(tree, tree'), NEW p \in DOMAIN tree \cup DOMAIN tree' PROVE Kept(p)
BY DEF Grown, Kept

\* The last FILE_META of a sequence of packets.
LEMMA LastMeta ==
  ASSUME NEW s \in Seq(Packet), NEW m \in 1 .. Len(s), s[m].cmd = "FILE_META",
         \A i \in m + 1 .. Len(s) : s[i].cmd # "FILE_META"
  PROVE  LET metas == {i \in DOMAIN s : s[i].cmd = "FILE_META"}
         IN  metas # {} /\ Max(metas) = m
<1> DEFINE metas == {i \in DOMAIN s : s[i].cmd = "FILE_META"}
<1>1. DOMAIN s = 1 .. Len(s) /\ Len(s) \in Nat
  BY LenProperties
<1>2. m \in metas /\ \A i \in metas : m >= i
  BY <1>1
<1>3. metas \subseteq Nat
  BY <1>1
<1> HIDE DEF metas
<1>4. Max(metas) \in metas /\ \A i \in metas : Max(metas) >= i
  BY <1>2 DEF Max
<1>5. m \in Nat /\ Max(metas) \in Nat /\ m >= Max(metas) /\ Max(metas) >= m
  BY <1>2, <1>3, <1>4
<1>6. Max(metas) = m
  BY <1>5
<1> QED
  BY <1>2, <1>6 DEF metas

-----------------------------------------------------------------------------
(* Packets.  d is the number of packets before this one.                   *)

\* Every path is kept, or is the one of the last FILE_META.
OnlyTouched(d) ==
  \A p \in DOMAIN tree \cup DOMAIN tree' :
    Kept(p) \/ \E m \in 1 .. d + 1 : MetaOf(m, d + 1) /\ TouchedOnly(sent[m], p)

\* What AtMeta says when packet d + 1 has been delivered.
AtMetaNext(d) ==
  OfFile(d + 1) => \A m \in 1 .. d + 1 : MetaOf(m, d + 1) =>
    /\ current_path' = sent[m].name
    /\ current_fd' # NoFd => current_fd' \in Follow(tree', sent[m].name)

LEMMA MetaTouches ==
  ASSUME Files, NEW d \in Nat, sent[d + 1] \in Packet, ReceiveMeta(sent[d + 1])
  PROVE  OnlyTouched(d) /\ AtMetaNext(d)
<1> DEFINE packet == sent[d + 1]
<1>1. packet.name \in Path /\ packet.cmd = "FILE_META" /\ current_path' = packet.name
  BY PacketKinds DEF ReceiveMeta
<1>2. MetaOf(d + 1, d + 1) /\ \A m \in 1 .. d + 1 : MetaOf(m, d + 1) => m = d + 1
  <2>1. MetaOf(d + 1, d + 1)
    BY <1>1 DEF MetaOf
  <2> QED
    BY <2>1, OneMeta
<1>3. ASSUME Grown(tree, tree'), current_fd' = NoFd
      PROVE  OnlyTouched(d) /\ AtMetaNext(d)
  BY <1>1, <1>2, <1>3, GrownKept DEF OnlyTouched, AtMetaNext
<1>4. CASE current_fd' = NoFd /\ UNCHANGED tree
  BY <1>3, <1>4 DEF Grown
<1>5. ASSUME NEW made \in MadeDirs(Front(packet.name)),
             IF packet.type = "regular" THEN OpenFile(made)
             ELSE tree' = made.fs /\ current_fd' = NoFd
      PROVE  OnlyTouched(d) /\ AtMetaNext(d)
  <2>1. Front(packet.name) \in Path
    BY <1>1, FrontPath
  <2>2. /\ Grown(tree, made.fs) /\ IsTree(made.fs) /\ AllUnmixed(made.fs)
        /\ made.faults \in 0 .. MaxFaults /\ IsTree(tree)
    BY <1>5, <2>1, MadeGrown, MadeTree DEF Files
  <2>3. CASE packet.type # "regular"
    BY <1>3, <1>5, <2>2, <2>3
  <2>4. CASE packet.type = "regular"
    <3>1. OpenFile(made) /\ current_path' \in Path
      BY <1>1, <1>5, <2>4
    <3>2. CASE Grown(tree, tree') /\ current_fd' = NoFd
      BY <1>3, <3>2
    <3>3. CASE /\ current_fd' \in Follow(tree, packet.name)
               /\ current_fd' \in Follow(tree', packet.name)
               /\ IsKind(tree', current_fd', "file")
               /\ \A q \in DOMAIN tree : q # current_fd' =>
                    q \in DOMAIN tree' /\ tree'[q] = tree[q]
               /\ \A q \in DOMAIN tree' \ DOMAIN tree : q # current_fd' => tree'[q] = Dir
      <4>1. AtMetaNext(d)
        BY <1>1, <1>2, <3>3 DEF AtMetaNext
      <4>2. \A p \in DOMAIN tree \cup DOMAIN tree' : p # current_fd' => Kept(p)
        BY <3>3 DEF Kept
      <4>3. TouchedOnly(packet, current_fd')
        BY <2>4, <3>3, Zenon DEF TouchedOnly
      <4>4. OnlyTouched(d)
        BY <1>2, <4>2, <4>3 DEF OnlyTouched
      <4> QED
        BY <4>1, <4>4
    <3> QED
      BY <1>1, <2>2, <3>1, <3>2, <3>3, OpenGrown
  <2> QED
    BY <2>3, <2>4
<1> QED
  BY <1>4, <1>5 DEF ReceiveMeta

LEMMA DirEnterTouches ==
  ASSUME Files, NEW d \in Nat, sent[d + 1] \in Packet, ReceiveDirEnter(sent[d + 1])
  PROVE  OnlyTouched(d) /\ AtMetaNext(d)
<1>1. sent[d + 1].name \in Path /\ ~OfFile(d + 1)
  BY PacketKinds DEF ReceiveDirEnter, OfFile
<1>2. PICK made \in MadeDirs(sent[d + 1].name) : tree' = made.fs
  BY DEF ReceiveDirEnter
<1>3. Grown(tree, tree')
  BY <1>1, <1>2, MadeGrown DEF Files
<1> QED
  BY <1>1, <1>3, GrownKept DEF OnlyTouched, AtMetaNext

\* unlink and symlink
LEMMA LinkTouches ==
  ASSUME NEW to, MakeLink(to), NEW p \in DOMAIN tree \cup DOMAIN tree'
  PROVE  \/ Kept(p)
         \/ /\ p \in FollowParent(tree, current_path) /\ ~IsKind(tree, p, "dir")
            /\ p \in DOMAIN tree' => IsKind(tree', p, "link")
<1> DEFINE at == FollowParent(tree, current_path)
           gone == {q \in at : ~IsKind(tree, q, "dir")}
           unlinked == [q \in DOMAIN tree \ gone |-> tree[q]]
<1>1. \/ \E q \in at : CanMake(unlinked, q) /\ tree' = Put(unlinked, q, Link(to))
      \/ tree' = unlinked
      \/ tree' = tree
  BY DEF MakeLink
<1>2. DOMAIN unlinked = DOMAIN tree \ gone /\ \A q \in DOMAIN tree \ gone : unlinked[q] = tree[q]
  OBVIOUS
<1>3. \A q \in gone : q \in at /\ ~IsKind(tree, q, "dir")
  OBVIOUS
<1>4. \A q \in at : q \in gone \/ q \in DOMAIN tree
  BY DEF IsKind
<1> HIDE DEF at, gone, unlinked
<1>5. CASE tree' = tree
  BY <1>5 DEF Kept
<1>6. CASE tree' = unlinked
  BY <1>2, <1>3, <1>6 DEF Kept, at
<1>7. ASSUME NEW q \in at, CanMake(unlinked, q), tree' = Put(unlinked, q, Link(to))
      PROVE  \/ Kept(p)
             \/ /\ p \in FollowParent(tree, current_path) /\ ~IsKind(tree, p, "dir")
                /\ p \in DOMAIN tree' => IsKind(tree', p, "link")
  <2>1. DOMAIN tree' = DOMAIN unlinked \cup {q} /\ tree'[q] = Link(to)
        /\ \A r \in DOMAIN unlinked : r # q => tree'[r] = unlinked[r]
    BY <1>7 DEF Put
  <2>2. q \in gone /\ IsKind(tree', q, "link")
    <3>1. q \notin DOMAIN unlinked
      BY <1>7 DEF CanMake
    <3> QED
      BY <1>2, <1>4, <2>1, <3>1 DEF IsKind, Link
  <2>3. CASE p = q
    BY <1>3, <2>2, <2>3 DEF at
  <2>4. CASE p # q
    BY <1>2, <1>3, <2>1, <2>4 DEF Kept, at
  <2> QED
    BY <2>3, <2>4
<1> QED
  BY <1>1, <1>5, <1>6, <1>7
\* The last FILE_META of a packet of data, and the receiver is at it.
LEMMA AtData ==
  ASSUME AnnounceInv, NEW d \in Nat, d = Len(delivered), d < Len(sent), IsData(d + 1)
  PROVE  \E m \in 1 .. d :
           /\ MetaOf(m, d) /\ MetaOf(m, d + 1) /\ meta_type = sent[m].type
           /\ \A l \in 1 .. d + 1 : MetaOf(l, d + 1) => l = m
           /\ current_path = sent[m].name
           /\ current_fd # NoFd =>
                meta_type = "regular" /\ current_fd \in Follow(tree, sent[m].name)
<1>1. Len(sent) \in Nat /\ d + 1 \in 1 .. Len(sent)
  BY LenProperties DEF AnnounceInv, Inv, TypeOK, Chan!TypeOK
<1>2. d > 0 /\ OfFile(d) /\ \E m \in 1 .. d : MetaOf(m, d)
  <2>1. d + 1 > 1 /\ OfFile((d + 1) - 1) /\ \E m \in 1 .. (d + 1) - 1 : MetaOf(m, (d + 1) - 1)
    BY <1>1 DEF AnnounceInv, FollowsMeta
  <2>2. (d + 1) - 1 = d
    OBVIOUS
  <2> QED
    BY <2>1, <2>2
<1>3. PICK m \in 1 .. d : /\ MetaOf(m, d) /\ meta_type = sent[m].type
                          /\ current_fd # NoFd => meta_type = "regular"
  <2>1. PICK l \in 1 .. d : MetaOf(l, d)
    BY <1>2
  <2>2. sent[l].cmd = "FILE_META"
    BY <2>1 DEF MetaOf
  <2> QED
    BY <2>1, <2>2 DEF AnnounceInv, Inv, ReceiverInv
<1>4. sent[d + 1].cmd # "FILE_META"
  BY DEF IsData
<1>5. MetaOf(m, d + 1) /\ m \in Nat
  BY <1>3, <1>4, NextMeta
<1>6. \A l \in 1 .. d + 1 : MetaOf(l, d + 1) => l = m
  BY <1>5, OneMeta
<1>7. /\ current_path = sent[m].name
      /\ current_fd # NoFd => current_fd \in Follow(tree, sent[m].name)
  BY <1>2, <1>3 DEF AnnounceInv, AtMeta
<1> QED
  BY <1>3, <1>5, <1>6, <1>7

LEMMA DataTouches ==
  ASSUME AnnounceInv, NEW d \in Nat, d = Len(delivered), d < Len(sent),
         ReceiveData(sent[d + 1])
  PROVE  OnlyTouched(d) /\ AtMetaNext(d)
<1> DEFINE packet == sent[d + 1]
<1>1. IsData(d + 1) /\ UNCHANGED <<current_fd, current_path>>
  BY DEF ReceiveData, IsData
<1>2. PICK m \in 1 .. d :
           /\ MetaOf(m, d) /\ MetaOf(m, d + 1) /\ meta_type = sent[m].type
           /\ \A l \in 1 .. d + 1 : MetaOf(l, d + 1) => l = m
           /\ current_path = sent[m].name
           /\ current_fd # NoFd =>
                meta_type = "regular" /\ current_fd \in Follow(tree, sent[m].name)
  BY <1>1, AtData
<1>3. m \in 1 .. d + 1
  OBVIOUS
<1>4. CASE meta_type = "symlink" /\ MakeLink(packet.bytes)
  <2>1. AtMetaNext(d)
    BY <1>1, <1>2, <1>4 DEF AtMetaNext
  <2>2. ASSUME NEW p \in DOMAIN tree \cup DOMAIN tree', ~Kept(p)
        PROVE  TouchedOnly(sent[m], p)
    <3>1. /\ p \in FollowParent(tree, sent[m].name) /\ ~IsKind(tree, p, "dir")
          /\ p \in DOMAIN tree' => IsKind(tree', p, "link")
      BY <1>2, <1>4, <2>2, LinkTouches
    <3> QED
      BY <1>2, <1>4, <3>1, Zenon DEF TouchedOnly
  <2> QED
    BY <1>2, <1>3, <2>1, <2>2 DEF OnlyTouched
<1>5. ASSUME NEW n \in 0 .. Len(packet.bytes), current_fd # NoFd, WriteChunk(packet, n)
      PROVE  OnlyTouched(d) /\ AtMetaNext(d)
  <2>1. IsKind(tree, current_fd, "file") /\ IsTree(tree) /\ IsTree(tree') /\ sent[m].name \in Path
    <3>1. Files /\ Chan!TypeOK
      BY TypeParts DEF AnnounceInv, Inv
    <3>2. IsKind(tree, current_fd, "file") /\ IsTree(tree)
      BY <1>5, <3>1 DEF Files
    <3>3. Files'
      BY <3>1, ReceiveDataFiles DEF AnnounceInv, Inv
    <3>4. sent[m] \in Packet /\ sent[m].cmd = "FILE_META"
      BY <1>2, <3>1, ElementOfSeq DEF Chan!TypeOK, MetaOf
    <3> QED
      BY <3>2, <3>3, <3>4, PacketKinds DEF Files
  <2>2. PICK data : tree' = Put(tree, current_fd, File(data))
    BY <1>5 DEF WriteChunk
  <2>3. Follow(tree, sent[m].name) = Follow(tree', sent[m].name)
    BY <2>1, <2>2, PutLinks, SameWays
  <2>4. /\ DOMAIN tree' = DOMAIN tree /\ IsKind(tree', current_fd, "file")
        /\ \A q \in DOMAIN tree : q # current_fd => tree'[q] = tree[q]
    BY <2>1, <2>2 DEF IsKind, Put, File
  <2>5. AtMetaNext(d)
    BY <1>1, <1>2, <1>5, <2>3 DEF AtMetaNext
  <2>6. \A q \in DOMAIN tree \cup DOMAIN tree' : q # current_fd => Kept(q)
    BY <2>4 DEF Kept
  <2>7. TouchedOnly(sent[m], current_fd)
    BY <1>2, <1>5, <2>4, Zenon DEF TouchedOnly
  <2> QED
    BY <1>2, <1>3, <2>5, <2>6, <2>7 DEF OnlyTouched
<1>6. CASE current_fd = NoFd /\ UNCHANGED tree
  BY <1>1, <1>2, <1>6 DEF OnlyTouched, AtMetaNext, Kept
<1> QED
  BY <1>4, <1>5, <1>6 DEF ReceiveData

LEMMA ReceiveTouches ==
  ASSUME AnnounceInv, Receive
  PROVE  /\ FollowsMeta' /\ AtMeta'
         /\ Len(delivered) \in Nat /\ Len(delivered') = Len(delivered) + 1 /\ UNCHANGED sent
         /\ OnlyTouched(Len(delivered))
<1> DEFINE d == Len(delivered)
<1>1. Sending /\ Chan!TypeOK /\ Files
  BY TypeParts DEF AnnounceInv, Inv
<1>2. d \in Nat /\ d < Len(sent) /\ Len(delivered') = d + 1 /\ UNCHANGED sent
  BY <1>1, DeliverChan DEF AnnounceInv, Inv, Receive
<1>3. sent[d + 1] \in Packet
  BY <1>1, <1>2, ElementOfSeq DEF Chan!TypeOK
<1>4. UNCHANGED pc
  BY DEF Receive, sendVars
<1>5. \A m, k : MetaOf(m, k)' <=> MetaOf(m, k)
  BY <1>2 DEF MetaOf
<1>6. \A k : (IsData(k)' <=> IsData(k)) /\ (OfFile(k)' <=> OfFile(k))
  BY <1>2 DEF IsData, OfFile
<1>7. FollowsMeta'
  BY <1>2, <1>4, <1>5, <1>6, Zenon DEF AnnounceInv, FollowsMeta
<1>8. OnlyTouched(d) /\ AtMetaNext(d)
  <2>1. CASE ReceiveMeta(sent[d + 1])
    BY <1>1, <1>2, <1>3, <2>1, MetaTouches
  <2>2. CASE ReceiveDirEnter(sent[d + 1])
    BY <1>1, <1>2, <1>3, <2>2, DirEnterTouches
  <2>3. CASE ReceiveData(sent[d + 1])
    BY <1>2, <2>3, DataTouches
  <2>4. CASE ReceiveDirLeave(sent[d + 1]) \/ ReceiveEnd(sent[d + 1])
    <3>1. UNCHANGED tree /\ ~OfFile(d + 1)
      BY <2>4 DEF ReceiveDirLeave, ReceiveEnd, OfFile
    <3> QED
      BY <3>1 DEF OnlyTouched, AtMetaNext, Kept
  <2> QED
    BY <2>1, <2>2, <2>3, <2>4 DEF Receive
<1>9. AtMeta'
  BY <1>2, <1>5, <1>6, <1>8 DEF AtMeta, AtMetaNext
<1> QED
  BY <1>2, <1>7, <1>8, <1>9

-----------------------------------------------------------------------------
(* The sender.                                                             *)

LEMMA QuietKeeps ==
  ASSUME AnnounceInv, UNCHANGED <<sent, delivered, tree, current_fd, current_path>>,
         pc' = "chunks" => pc = "chunks"
  PROVE  FollowsMeta' /\ AtMeta'
<1>1. \A m, k : MetaOf(m, k)' <=> MetaOf(m, k)
  BY DEF MetaOf
<1>2. \A k : (IsData(k)' <=> IsData(k)) /\ (OfFile(k)' <=> OfFile(k))
  BY DEF IsData, OfFile
<1>3. FollowsMeta'
  BY <1>1, <1>2, Zenon DEF AnnounceInv, FollowsMeta
<1>4. AtMeta'
  BY <1>1, <1>2 DEF AnnounceInv, AtMeta
<1> QED
  BY <1>3, <1>4

LEMMA AnnounceKeeps ==
  ASSUME AnnounceInv, UNCHANGED fileVars, NEW packet \in Packet, Announce(packet),
         packet.cmd = "FILE_DATA" =>
           OfFile(Len(sent)) /\ \E m \in 1 .. Len(sent) : MetaOf(m, Len(sent)),
         pc' = "chunks" => packet.cmd \in {"FILE_META", "FILE_DATA"}
  PROVE  FollowsMeta' /\ AtMeta'
<1> DEFINE s == Len(sent)
<1>1. /\ s \in Nat /\ Len(delivered) \in Nat /\ Len(delivered) <= s
      /\ Len(sent') = s + 1 /\ sent'[s + 1] = packet
      /\ \A i \in 1 .. s : sent'[i] = sent[i]
      /\ UNCHANGED delivered
  BY AnnounceChan DEF AnnounceInv, Inv, TypeOK
<1>2. \A k \in 1 .. s : (IsData(k)' <=> IsData(k)) /\ (OfFile(k)' <=> OfFile(k))
  BY <1>1 DEF IsData, OfFile
<1>3. \A k \in 0 .. s, m \in 1 .. s : MetaOf(m, k)' <=> MetaOf(m, k)
  BY <1>1 DEF MetaOf
<1>4. FollowsMeta'
  <2>1. ASSUME NEW k \in 1 .. s + 1, IsData(k)'
        PROVE  k > 1 /\ OfFile(k - 1)' /\ \E m \in 1 .. k - 1 : MetaOf(m, k - 1)'
    <3>1. CASE k = s + 1
      <4>1. OfFile(s) /\ \E m \in 1 .. s : MetaOf(m, s)
        BY <1>1, <2>1, <3>1 DEF IsData
      <4>2. k > 1 /\ k - 1 = s /\ s \in 1 .. s
        BY <1>1, <3>1, <4>1
      <4> QED
        BY <1>1, <1>2, <1>3, <4>1, <4>2
    <3>2. CASE k \in 1 .. s
      <4>1. k > 1 /\ OfFile(k - 1) /\ \E m \in 1 .. k - 1 : MetaOf(m, k - 1)
        BY <1>2, <2>1, <3>2 DEF AnnounceInv, FollowsMeta
      <4>2. k - 1 \in 1 .. s
        BY <1>1, <3>2, <4>1
      <4> QED
        BY <1>1, <1>2, <1>3, <4>1, <4>2
    <3> QED
      BY <1>1, <3>1, <3>2
  <2>2. pc' = "chunks" => OfFile(Len(sent))'
    BY <1>1 DEF OfFile
  <2>3. \A k \in 1 .. s + 1 : IsData(k)' =>
          k > 1 /\ OfFile(k - 1)' /\ \E m \in 1 .. k - 1 : MetaOf(m, k - 1)'
    BY <2>1
  <2> QED
    BY <1>1, <2>2, <2>3 DEF FollowsMeta
<1>5. AtMeta'
  <2>1. UNCHANGED <<tree, current_fd, current_path>>
    BY DEF fileVars
  <2> QED
    BY <1>1, <1>2, <1>3, <2>1 DEF AnnounceInv, AtMeta
<1> QED
  BY <1>4, <1>5

LEMMA SendKeeps ==
  ASSUME AnnounceInv, UNCHANGED fileVars, NEW path, NEW name \in Path,
         NEW calls, NEW node, Send(node, path, name, calls)
  PROVE  FollowsMeta' /\ AtMeta'
<1>1. Cut(name) \in Path
  BY CutPath
<1>2. CASE SendFails
  BY <1>2, QuietKeeps DEF SendFails, chanVars, fileVars
<1>3. CASE SendDirectory(path, name, calls)
  <2>1. DirEnter(Cut(name)) \in Packet /\ DirEnter(Cut(name)).cmd # "FILE_DATA"
    BY <1>1 DEF DirEnter, Packet
  <2> QED
    BY <1>3, <2>1, AnnounceKeeps DEF SendDirectory
<1>4. CASE SendSymlink(node, name, calls)
  <2>1. Meta(Cut(name), "symlink") \in Packet /\ Meta(Cut(name), "symlink").cmd = "FILE_META"
    BY <1>1 DEF Meta, Packet, Type
  <2> QED
    BY <1>4, <2>1, AnnounceKeeps DEF SendSymlink
<1>5. CASE SendFile(node, name, calls)
  <2>1. Meta(Cut(name), "regular") \in Packet /\ Meta(Cut(name), "regular").cmd = "FILE_META"
    BY <1>1 DEF Meta, Packet, Type
  <2> QED
    BY <1>5, <2>1, AnnounceKeeps DEF SendFile
<1> QED
  BY <1>2, <1>3, <1>4, <1>5 DEF Send

LEMMA SenderKeeps ==
  ASSUME AnnounceInv, Sender
  PROVE  FollowsMeta' /\ AtMeta'
<1>1. UNCHANGED fileVars /\ Sending
  BY TypeParts DEF Sender, AnnounceInv, Inv
<1>2. CASE SenderRun
  <2>1. CASE \E node \in Found(job.local) : Send(node, job.local, FinalPath, <<>>)
    <3>1. FinalPath \in Path
      BY <1>1, SourcePaths DEF Sending
    <3> QED
      BY <1>1, <2>1, <3>1, SendKeeps
  <2>2. CASE pc' = "failed" /\ UNCHANGED chanVars
    BY <1>1, <2>2, QuietKeeps DEF chanVars, fileVars
  <2> QED
    BY <1>2, <2>1, <2>2 DEF SenderRun
<1>3. ASSUME NEW n \in Name, SendEntry(n) PROVE FollowsMeta' /\ AtMeta'
  <2>1. Entry(n).name \in Path
    BY <1>1, <1>3, EntryPaths DEF SendEntry
  <2> QED
    BY <1>1, <1>3, <2>1, SendKeeps DEF SendEntry
<1>4. ASSUME NEW n \in Name, SkipEntry(n) PROVE FollowsMeta' /\ AtMeta'
  BY <1>1, <1>4, QuietKeeps DEF SkipEntry, chanVars, fileVars
<1>5. CASE LeaveDirectory
  <2>1. DirLeave \in Packet /\ DirLeave.cmd # "FILE_DATA" /\ pc' # "chunks"
    BY <1>5 DEF DirLeave, Packet, LeaveDirectory, Return
  <2> QED
    BY <1>1, <1>5, <2>1, AnnounceKeeps DEF LeaveDirectory
<1>6. CASE SendEnd
  <2>1. TransferEnd \in Packet /\ TransferEnd.cmd # "FILE_DATA" /\ pc' # "chunks"
    BY <1>6 DEF TransferEnd, Packet, SendEnd
  <2> QED
    BY <1>1, <1>6, <2>1, AnnounceKeeps DEF SendEnd
<1>7. CASE SendLinkText
  <2>1. /\ Data(0, file.to) \in Packet /\ Announce(Data(0, file.to)) /\ pc' # "chunks"
        /\ pc = "link"
    BY <1>1, <1>7 DEF SendLinkText, Sending, Data, Packet, Return
  <2>2. Len(sent) \in Nat /\ Len(sent) > 0 /\ sent[Len(sent)].cmd = "FILE_META"
    BY <2>1, LenProperties DEF AnnounceInv, Inv, LinkInv, TypeOK, Chan!TypeOK
  <2>3. OfFile(Len(sent)) /\ MetaOf(Len(sent), Len(sent)) /\ Len(sent) \in 1 .. Len(sent)
    BY <2>2 DEF OfFile, MetaOf
  <2> QED
    BY <1>1, <2>1, <2>3, AnnounceKeeps
<1>8. ASSUME NEW n \in 1 .. ChunkSize, SendChunk(n) PROVE FollowsMeta' /\ AtMeta'
  <2> DEFINE packet == Data(file.offset, Chunk(n))
  <2>1. Announce(packet) /\ packet.cmd = "FILE_DATA" /\ pc = "chunks"
    BY <1>8 DEF SendChunk, InChunkLoop, Data, Chunk
  <2>2. packet \in Packet
    BY <1>8, ChunkPacket DEF AnnounceInv
  <2>3. OfFile(Len(sent)) /\ \E m \in 1 .. Len(sent) : MetaOf(m, Len(sent))
    BY <2>1 DEF AnnounceInv, FollowsMeta, Inv, FileInv
  <2> HIDE DEF packet
  <2> QED
    BY <1>1, <2>1, <2>2, <2>3, AnnounceKeeps
<1>9. CASE ReadStops
  BY <1>1, <1>9, QuietKeeps DEF ReadStops, InChunkLoop, chanVars, fileVars
<1>10. CASE FileSent \/ Finish \/ SenderLoses
  BY <1>1, <1>10, QuietKeeps DEF FileSent, Finish, SenderLoses, Return, chanVars, fileVars
<1> QED
  BY <1>2, <1>3, <1>4, <1>5, <1>6, <1>7, <1>8, <1>9, <1>10 DEF Sender

-----------------------------------------------------------------------------
(* The theorem.                                                            *)

LEMMA AnnounceInit == Init => AnnounceInv
<1> SUFFICES ASSUME Init PROVE AnnounceInv
  OBVIOUS
<1>1. Inv
  BY InitInv
<1>2. sent = <<>> /\ delivered = <<>> /\ pc = "run"
  BY DEF Init, Chan!Init
<1>3. Len(sent) = 0 /\ Len(delivered) = 0
  BY <1>2, EmptySeq
<1> QED
  BY <1>1, <1>2, <1>3 DEF AnnounceInv, FollowsMeta, AtMeta

LEMMA AnnounceNext == AnnounceInv /\ [Next]_vars => AnnounceInv'
<1> SUFFICES ASSUME AnnounceInv, [Next]_vars PROVE AnnounceInv'
  OBVIOUS
<1>1. Inv'
  BY NextInv DEF AnnounceInv
<1>2. CASE Receive
  BY <1>1, <1>2, ReceiveTouches DEF AnnounceInv
<1>3. CASE Sender
  BY <1>1, <1>3, SenderKeeps DEF AnnounceInv
<1>4. CASE Acknowledge \/ LoseConnection \/ UNCHANGED vars
  <2>1. UNCHANGED <<sent, delivered, tree, current_fd, current_path, pc>>
    BY <1>4 DEF Acknowledge, LoseConnection, vars, sendVars, chanVars, fileVars, Chan!Ack
  <2> QED
    BY <1>1, <2>1, QuietKeeps DEF AnnounceInv
<1> QED
  BY <1>2, <1>3, <1>4 DEF Next

LEMMA AnnounceStepOnly ==
  ASSUME AnnounceInv, [Next]_vars
  PROVE  [AnnouncedOnly]_vars
<1> DEFINE metas == {i \in DOMAIN delivered' : delivered'[i].cmd = "FILE_META"}
           last == delivered'[Max(metas)]
<1>1. CASE UNCHANGED tree
  <2>1. \A p : {tree[q] : q \in {p} \cap DOMAIN tree} = {tree'[q] : q \in {p} \cap DOMAIN tree'}
    BY <1>1
  <2> QED
    BY <2>1 DEF AnnouncedOnly
<1>2. CASE Receive
  <2> DEFINE d == Len(delivered)
  <2>1. /\ d \in Nat /\ Len(delivered') = d + 1 /\ UNCHANGED sent
        /\ OnlyTouched(d)
    BY <1>2, ReceiveTouches
  <2>2. (Chan!TypeOK)' /\ (Chan!DeliveredIsPrefix)'
    BY NextInv DEF AnnounceInv, Inv, TypeOK
  <2>3. ASSUME NEW m \in 1 .. d + 1, MetaOf(m, d + 1)
        PROVE  metas # {} /\ last = sent[m]
    <3>1. delivered' \in Seq(Packet) /\ \A i \in 1 .. d + 1 : delivered'[i] = sent[i]
      BY <2>1, <2>2 DEF Chan!TypeOK, Chan!DeliveredIsPrefix
    <3>2. /\ m \in 1 .. Len(delivered') /\ delivered'[m].cmd = "FILE_META"
          /\ \A i \in m + 1 .. Len(delivered') : delivered'[i].cmd # "FILE_META"
      BY <2>1, <2>3, <3>1 DEF MetaOf
    <3>3. metas # {} /\ Max(metas) = m
      BY <3>1, <3>2, LastMeta
    <3> QED
      BY <3>1, <3>3
  <2> HIDE DEF metas, last
  <2>4. ASSUME NEW p \in DOMAIN tree \cup DOMAIN tree'
        PROVE  \/ {tree[q] : q \in {p} \cap DOMAIN tree} = {tree'[q] : q \in {p} \cap DOMAIN tree'}
               \/ p \notin DOMAIN tree /\ tree'[p] = Dir
               \/ /\ metas # {} /\ last.type = "regular"
                  /\ p \in Follow(tree, last.name) /\ IsKind(tree', p, "file")
               \/ /\ metas # {} /\ last.type = "symlink"
                  /\ p \in FollowParent(tree, last.name)
                  /\ ~IsKind(tree, p, "dir")
                  /\ p \in DOMAIN tree' => IsKind(tree', p, "link")
    <3>1. CASE Kept(p)
      BY <3>1 DEF Kept
    <3>2. ASSUME NEW m \in 1 .. d + 1, MetaOf(m, d + 1), TouchedOnly(sent[m], p)
          PROVE  \/ /\ metas # {} /\ last.type = "regular"
                    /\ p \in Follow(tree, last.name) /\ IsKind(tree', p, "file")
                 \/ /\ metas # {} /\ last.type = "symlink"
                    /\ p \in FollowParent(tree, last.name)
                    /\ ~IsKind(tree, p, "dir")
                    /\ p \in DOMAIN tree' => IsKind(tree', p, "link")
      BY <2>3, <3>2, Zenon DEF TouchedOnly
    <3> QED
      BY <2>1, <3>1, <3>2 DEF OnlyTouched
  <2> QED
    BY <2>4, Zenon DEF AnnouncedOnly, metas, last
<1>3. CASE Sender \/ Acknowledge \/ LoseConnection \/ UNCHANGED vars
  <2>1. UNCHANGED tree
    BY <1>3 DEF Sender, Acknowledge, LoseConnection, vars, fileVars
  <2> QED
    BY <1>1, <2>1
<1> QED
  BY <1>2, <1>3 DEF Next

\* Whatever fails and whatever is in the way, a packet touches no path of the
\* receiver but the one of the last FILE_META, as what that announced, and the
\* directories that it makes: the open with O_TRUNC, the writes, the unlink and
\* the symlink (scp_rdma_receiver.c:214, :258, :243-251) all hit that path.
THEOREM TouchesOnlyAnnounced == Spec => OnlyAnnounced
<1>1. AnnounceInv /\ [Next]_vars => [AnnouncedOnly]_vars
  BY AnnounceStepOnly
<1> QED
  BY <1>1, AnnounceInit, AnnounceNext, PTL DEF Spec, OnlyAnnounced

=============================================================================
