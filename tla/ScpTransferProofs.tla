-------------------------- MODULE ScpTransferProofs --------------------------
(***************************************************************************)
(* Whatever is copied over whatever, and whatever fails on the way: the    *)
(* receiver's tree stays a tree, and no file in it ever holds data of two  *)
(* files or data at a wrong offset.                                        *)
(***************************************************************************)
EXTENDS ScpTransferInv, SequenceTheorems, FiniteSetTheorems, TLAPS

-----------------------------------------------------------------------------
(* Least elements, which stand in for induction.                           *)

\* A set of natural numbers that is not empty has a least element.
LEMMA LeastNat ==
  ASSUME NEW T, T \subseteq Nat, T # {}
  PROVE  \E x \in T : \A y \in T : x <= y
<1> DEFINE R == StrictSubsetOrdering(Nat)
           U == {0 .. n : n \in T}
<1>1. \A n \in Nat : 0 .. n \in FiniteSubsetsOf(Nat)
  <2> SUFFICES ASSUME NEW n \in Nat PROVE 0 .. n \in FiniteSubsetsOf(Nat)
    OBVIOUS
  <2>1. IsFiniteSet(0 .. n)
    BY FS_Interval
  <2> QED
    BY <2>1 DEF FiniteSubsetsOf
<1>2. U \subseteq FiniteSubsetsOf(Nat) /\ U # {}
  BY <1>1
<1>3. PICK s \in U : \A t \in U : ~ (<<t, s>> \in R)
  <2> HIDE DEF R, U
  <2>1. IsWellFoundedOn(R, FiniteSubsetsOf(Nat))
    BY FS_StrictSubsetOrderingWellFounded DEF R
  <2> QED
    BY <1>2, <2>1, WFMin
<1>4. PICK x \in T : s = 0 .. x
  OBVIOUS
<1>5. ASSUME NEW y \in T, y < x PROVE FALSE
  <2>1. 0 .. y \subseteq 0 .. x /\ 0 .. y # 0 .. x
    BY <1>5
  <2>2. <<0 .. y, s>> \in R
    BY <2>1, <1>4, <1>5 DEF StrictSubsetOrdering
  <2> QED
    BY <1>3, <2>2
<1> QED
  BY <1>5

LEMMA MinNat ==
  ASSUME NEW T, T \subseteq Nat, T # {}
  PROVE  Min(T) \in T /\ \A y \in T : Min(T) <= y
BY LeastNat DEF Min

-----------------------------------------------------------------------------
(* Paths and trees.                                                        *)

\* Part of a path.
LEMMA PartOfPath ==
  ASSUME NEW s \in Path, NEW m \in Nat \ {0}, NEW n \in Nat, n <= Len(s)
  PROVE  /\ SubSeq(s, m, n) \in Path
         /\ Len(SubSeq(s, m, n)) = IF m <= n THEN n - m + 1 ELSE 0
         /\ \A i \in 1 .. n - m + 1 : SubSeq(s, m, n)[i] = s[m + i - 1]
<1>1. \A i \in m .. n : s[i] \in Name
  BY LenProperties, ElementOfSeq DEF Path
<1> QED
  BY <1>1, SubSeqProperties DEF Path

\* The parent of what is below a path.
LEMMA FrontOfConcat ==
  \A p \in Path, s \in Path, m \in Nat \ {0}, k \in Nat :
    m <= k /\ k <= Len(s) =>
      /\ p \o SubSeq(s, m, k) \in Path /\ p \o SubSeq(s, m, k) # <<>>
      /\ Front(p \o SubSeq(s, m, k)) = p \o SubSeq(s, m, k - 1)
<1> SUFFICES ASSUME NEW p \in Path, NEW s \in Path, NEW m \in Nat \ {0}, NEW k \in Nat,
                    m <= k, k <= Len(s)
             PROVE  /\ p \o SubSeq(s, m, k) \in Path /\ p \o SubSeq(s, m, k) # <<>>
                    /\ Front(p \o SubSeq(s, m, k)) = p \o SubSeq(s, m, k - 1)
  OBVIOUS
<1> DEFINE a == SubSeq(s, m, k)
           b == SubSeq(s, m, k - 1)
<1>1. /\ a \in Path /\ Len(a) = k - m + 1
      /\ \A i \in 1 .. k - m + 1 : a[i] = s[m + i - 1]
  BY PartOfPath
<1>2. /\ b \in Path /\ Len(b) = k - m
      /\ \A i \in 1 .. k - m : b[i] = s[m + i - 1]
  <2>1. k - 1 \in Nat /\ k - 1 <= Len(s)
    BY LenProperties DEF Path
  <2> QED
    BY <2>1, PartOfPath
<1> HIDE DEF a, b
<1> DEFINE q == p \o a
           r == p \o b
<1>3. Len(p) \in Nat
  BY LenProperties DEF Path
<1>4. /\ q \in Seq(Name) /\ Len(q) = Len(p) + (k - m + 1)
      /\ \A i \in 1 .. Len(p) + (k - m + 1) :
           q[i] = IF i <= Len(p) THEN p[i] ELSE a[i - Len(p)]
  <2>1. /\ p \o a \in Seq(Name) /\ Len(p \o a) = Len(p) + Len(a)
        /\ \A i \in 1 .. Len(p) + Len(a) :
             (p \o a)[i] = IF i <= Len(p) THEN p[i] ELSE a[i - Len(p)]
    <3>1. p \in Seq(Name) /\ a \in Seq(Name)
      BY <1>1 DEF Path
    <3> QED
      BY <3>1, ConcatProperties, Zenon
  <2> QED
    BY <1>1, <2>1, Zenon
<1>5. /\ r \in Seq(Name) /\ Len(r) = Len(p) + (k - m)
      /\ \A i \in 1 .. Len(p) + (k - m) :
           r[i] = IF i <= Len(p) THEN p[i] ELSE b[i - Len(p)]
  <2>1. /\ p \o b \in Seq(Name) /\ Len(p \o b) = Len(p) + Len(b)
        /\ \A i \in 1 .. Len(p) + Len(b) :
             (p \o b)[i] = IF i <= Len(p) THEN p[i] ELSE b[i - Len(p)]
    <3>1. p \in Seq(Name) /\ b \in Seq(Name)
      BY <1>2 DEF Path
    <3> QED
      BY <3>1, ConcatProperties, Zenon
  <2> QED
    BY <1>2, <2>1, Zenon
<1> HIDE DEF q, r
<1>6. Front(q) = SubSeq(q, 1, Len(q) - 1)
  BY DEF Front
<1>7. Len(q) \in Nat /\ Len(q) - 1 \in Nat
  BY <1>3, <1>4
<1>8. /\ Front(q) \in Seq(Name) /\ Len(Front(q)) = Len(p) + (k - m)
      /\ \A i \in 1 .. Len(p) + (k - m) : Front(q)[i] = q[i]
  <2>1. /\ SubSeq(q, 1, Len(q) - 1) \in Path
        /\ Len(SubSeq(q, 1, Len(q) - 1)) = IF 1 <= Len(q) - 1 THEN Len(q) - 1 ELSE 0
        /\ \A i \in 1 .. Len(q) - 1 : SubSeq(q, 1, Len(q) - 1)[i] = q[i]
    BY <1>4, <1>7, PartOfPath DEF Path
  <2> QED
    BY <1>3, <1>4, <1>6, <1>7, <2>1 DEF Path
<1>9. ASSUME NEW i \in 1 .. Len(p) + (k - m) PROVE Front(q)[i] = r[i]
  <2>1. Front(q)[i] = IF i <= Len(p) THEN p[i] ELSE a[i - Len(p)]
    BY <1>3, <1>4, <1>8
  <2>2. r[i] = IF i <= Len(p) THEN p[i] ELSE b[i - Len(p)]
    BY <1>5
  <2>3. CASE i <= Len(p)
    BY <2>1, <2>2, <2>3
  <2>4. CASE ~(i <= Len(p))
    <3>1. i - Len(p) \in 1 .. k - m /\ i - Len(p) \in 1 .. k - m + 1
      BY <1>3, <2>4
    <3> QED
      BY <1>1, <1>2, <2>1, <2>2, <2>4, <3>1
  <2> QED
    BY <2>3, <2>4
<1>10. Front(q) = r
  BY <1>5, <1>8, <1>9, SeqEqual
<1>11. q # <<>>
  BY <1>3, <1>4, EmptySeq
<1> QED
  BY <1>4, <1>10, <1>11 DEF q, r, a, b, Path

\* Below a path where nothing is there is nothing.
LEMMA NothingBelow ==
  ASSUME NEW fs, IsTree(fs), NEW p \in Path, p \notin DOMAIN fs, NEW s \in Path
  PROVE  p \o s \notin DOMAIN fs
<1> SUFFICES ASSUME p \o s \in DOMAIN fs PROVE FALSE
  OBVIOUS
<1> DEFINE T == {k \in Nat : k <= Len(s) /\ p \o SubSeq(s, 1, k) \in DOMAIN fs}
<1>1. SubSeq(s, 1, Len(s)) = s /\ Len(s) \in Nat
  BY SubSeqFull, LenProperties DEF Path
<1>2. Len(s) \in T
  <2>1. p \o SubSeq(s, 1, Len(s)) \in DOMAIN fs
    BY <1>1, Zenon
  <2> QED
    BY <1>1, <2>1
<1>3. PICK k \in T : \A l \in T : k <= l
  <2> HIDE DEF T
  <2>1. T \subseteq Nat
    BY DEF T
  <2> QED
    BY <1>2, <2>1, LeastNat
<1>4. k # 0
  <2>1. SubSeq(s, 1, 0) = <<>>
    BY SubSeqEmpty
  <2>2. p \o <<>> = p
    BY ConcatEmptySeq DEF Path
  <2> QED
    BY <2>1, <2>2
<1>5. /\ p \o SubSeq(s, 1, k) # <<>>
      /\ Front(p \o SubSeq(s, 1, k)) = p \o SubSeq(s, 1, k - 1)
  <2>1. k \in Nat /\ 1 <= k /\ k <= Len(s) /\ 1 \in Nat \ {0}
    BY <1>4
  <2> HIDE DEF T
  <2> QED
    BY <2>1, FrontOfConcat, ZenonT(30)
<1>6. p \o SubSeq(s, 1, k - 1) \in DOMAIN fs
  BY <1>3, <1>5 DEF IsTree, IsKind
<1>7. k - 1 \in T
  BY <1>1, <1>3, <1>4, <1>6
<1> QED
  BY <1>1, <1>3, <1>7

\* Kinds of nodes.
LEMMA NodeKinds ==
  ASSUME NEW node, IsNode(node)
  PROVE  /\ node.kind \in {"dir", "file", "link"}
         /\ node.kind = "dir" <=> node = Dir
         /\ node.kind = "file" => node = File(node.data)
BY DEF IsNode, Dir, File, Link

\* A file or link is put where a file is or where a node can be made.
LEMMA PutTree ==
  ASSUME NEW fs, IsTree(fs), AllUnmixed(fs), NEW p, NEW node, IsNode(node),
         node.kind # "dir", node.kind = "file" => Unmixed(node.data),
         IsKind(fs, p, "file") \/ CanMake(fs, p)
  PROVE  /\ IsTree(Put(fs, p, node)) /\ AllUnmixed(Put(fs, p, node))
         /\ p \in DOMAIN Put(fs, p, node) /\ Put(fs, p, node)[p] = node
         /\ \A q \in DOMAIN fs \ {p} :
              q \in DOMAIN Put(fs, p, node) /\ Put(fs, p, node)[q] = fs[q]
<1> DEFINE put == Put(fs, p, node)
<1>1. /\ DOMAIN put = DOMAIN fs \cup {p} /\ put[p] = node
      /\ \A q \in DOMAIN fs \ {p} : put[q] = fs[q]
  BY DEF Put
<1> HIDE DEF put
<1>2. p \in Path /\ (p # <<>> => IsKind(fs, Front(p), "dir")) /\ ~IsKind(fs, p, "dir")
  BY DEF IsTree, CanMake, IsKind
<1>3. p # <<>>
  BY <1>2 DEF IsTree, IsKind, Dir
<1>4. \A q \in DOMAIN put : IsNode(put[q]) /\ (q # <<>> => IsKind(put, Front(q), "dir"))
  BY <1>1, <1>2 DEF IsTree, IsKind
<1>5. IsTree(put)
  BY <1>1, <1>2, <1>3, <1>4 DEF IsTree
<1>6. AllUnmixed(put)
  BY <1>1 DEF AllUnmixed
<1> QED
  BY <1>1, <1>5, <1>6 DEF put

\* mkdir makes directories, and changes nothing that is there.
LEMMA MkDirsTree ==
  ASSUME NEW fs, IsTree(fs), AllUnmixed(fs), NEW path \in Path, NEW n \in Nat, n <= Len(path)
  PROVE  /\ IsTree(MkDirs(fs, path, n)) /\ AllUnmixed(MkDirs(fs, path, n))
         /\ \A q \in DOMAIN fs :
              q \in DOMAIN MkDirs(fs, path, n) /\ MkDirs(fs, path, n)[q] = fs[q]
<1> DEFINE missing == {i \in 1 .. n : Lstat(fs, SubSeq(path, 1, i)) = {}}
           first == Min(missing)
           ways == {q \in FollowParent(fs, SubSeq(path, 1, first)) : CanMake(fs, q)}
           At(p, i) == p \o SubSeq(path, first + 1, i)
           made == IF missing = {} THEN {} ELSE {At(p, i) : p \in ways, i \in first .. n}
           fs2 == [p \in DOMAIN fs \cup made |-> IF p \in made THEN Dir ELSE fs[p]]
<1>1. MkDirs(fs, path, n) = fs2
  BY DEF MkDirs
<1>2. Len(path) \in Nat
  BY LenProperties DEF Path
<1>3. missing # {} => first \in 1 .. n
  <2>1. missing \subseteq 1 .. n /\ 1 .. n \subseteq Nat
    OBVIOUS
  <2> HIDE DEF missing
  <2>2. missing # {} => Min(missing) \in missing
    BY <2>1, MinNat
  <2> QED
    BY <2>1, <2>2
<1> HIDE DEF first, missing
<1>4. \A p \in ways : CanMake(fs, p)
  OBVIOUS
<1> HIDE DEF ways, made
<1>5. ASSUME first \in Nat \ {0}, NEW p, CanMake(fs, p), NEW i \in Nat,
              first <= i, i <= Len(path)
       PROVE  /\ At(p, i) \in Path \ DOMAIN fs /\ At(p, i) # <<>>
              /\ \/ IsKind(fs, Front(At(p, i)), "dir")
                 \/ first <= i - 1 /\ Front(At(p, i)) = At(p, i - 1)
  <2> DEFINE q == At(p, i)
  <2>1. p \in Path /\ p \notin DOMAIN fs /\ p # <<>> /\ IsKind(fs, Front(p), "dir")
    BY <1>5 DEF CanMake
  <2>2. q \notin DOMAIN fs
    <3>1. SubSeq(path, first + 1, i) \in Path
      <4>1. first + 1 \in Nat \ {0}
        BY <1>5
      <4> QED
        BY <1>5, <4>1, PartOfPath
    <3> QED
      BY <2>1, <3>1, NothingBelow
  <2>3. CASE first = i
    <3>1. SubSeq(path, first + 1, i) = <<>>
      BY <1>5, <2>3, SubSeqEmpty
    <3>2. q = p
      BY <2>1, <3>1, ConcatEmptySeq DEF Path
    <3> QED
      BY <2>1, <3>2
  <2>4. CASE first # i
    <3>1. /\ q \in Path /\ q # <<>>
          /\ Front(q) = p \o SubSeq(path, first + 1, i - 1)
      <4>1. first + 1 \in Nat \ {0} /\ first + 1 <= i
        BY <1>5, <2>4
      <4>2. p \in Path
        BY <2>1
      <4> HIDE DEF q
      <4>3. \A m \in Nat \ {0}, k \in Nat : m <= k /\ k <= Len(path) =>
              /\ p \o SubSeq(path, m, k) \in Path /\ p \o SubSeq(path, m, k) # <<>>
              /\ Front(p \o SubSeq(path, m, k)) = p \o SubSeq(path, m, k - 1)
        BY <4>2, FrontOfConcat, Zenon
      <4>4. /\ p \o SubSeq(path, first + 1, i) \in Path
            /\ p \o SubSeq(path, first + 1, i) # <<>>
            /\ Front(p \o SubSeq(path, first + 1, i)) = p \o SubSeq(path, first + 1, i - 1)
        BY <1>5, <4>1, <4>3, Zenon
      <4> QED
        BY <4>4, Zenon DEF q
    <3>2. first <= i - 1
      BY <1>5, <2>4
    <3> HIDE DEF At
    <3>3. Front(q) = At(p, i - 1)
      BY <3>1 DEF At
    <3> QED
      BY <2>2, <3>1, <3>2, <3>3, Zenon
  <2> QED
    BY <2>3, <2>4
<1> USE DEF made
<1> HIDE DEF At
<1>6. ASSUME NEW q \in made
      PROVE  q \in Path \ DOMAIN fs /\ q # <<>>
             /\ (IsKind(fs, Front(q), "dir") \/ Front(q) \in made)
  <2>1. missing # {}
    BY <1>6
  <2>2. PICK p \in ways, i \in first .. n : q = At(p, i)
    BY <1>6, <2>1
  <2>3. first \in Nat \ {0} /\ i \in Nat /\ first <= i /\ i <= n /\ i <= Len(path)
    BY <1>2, <1>3, <2>1
  <2>4. ASSUME first <= i - 1 PROVE At(p, i - 1) \in made
    <3>1. i - 1 \in first .. n
      BY <2>3, <2>4
    <3> QED
      BY <2>1, <3>1
  <2> HIDE DEF made
  <2>5. CanMake(fs, p)
    BY <1>4
  <2>6. LET x == At(p, i)
        IN  /\ x \in Path \ DOMAIN fs /\ x # <<>>
            /\ IsKind(fs, Front(x), "dir") \/ (first <= i - 1 /\ Front(x) = At(p, i - 1))
    BY <1>5, <2>3, <2>5, Zenon
  <2> QED
    BY <2>2, <2>4, <2>6, Zenon
<1> HIDE DEF made
<1>7. /\ DOMAIN fs2 = DOMAIN fs \cup made
      /\ \A q \in made : fs2[q] = Dir
      /\ \A q \in DOMAIN fs : fs2[q] = fs[q]
  BY <1>6
<1> HIDE DEF fs2
<1>8. ASSUME NEW q \in DOMAIN fs2
      PROVE  IsNode(fs2[q]) /\ (q # <<>> => IsKind(fs2, Front(q), "dir"))
  BY <1>6, <1>7, <1>8 DEF IsTree, IsKind, IsNode, Dir
<1>9. IsTree(fs2)
  BY <1>6, <1>7, <1>8 DEF IsTree
<1>10. AllUnmixed(fs2)
  BY <1>7 DEF AllUnmixed, Dir
<1> QED
  BY <1>1, <1>7, <1>9, <1>10

\* unlink removes no directory.
LEMMA UnlinkTree ==
  ASSUME NEW fs, IsTree(fs), AllUnmixed(fs), NEW gone, \A p \in gone : ~IsKind(fs, p, "dir")
  PROVE  LET left == [p \in DOMAIN fs \ gone |-> fs[p]]
         IN  IsTree(left) /\ AllUnmixed(left)
<1> DEFINE left == [p \in DOMAIN fs \ gone |-> fs[p]]
<1>1. DOMAIN left = DOMAIN fs \ gone /\ \A p \in DOMAIN fs \ gone : left[p] = fs[p]
  OBVIOUS
<1> HIDE DEF left
<1>2. \A p : IsKind(fs, p, "dir") => p \in DOMAIN fs \ gone
  BY DEF IsKind
<1>3. IsKind(fs, <<>>, "dir")
  BY DEF IsTree, IsKind, Dir
<1>4. IsTree(left)
  BY <1>1, <1>2, <1>3 DEF IsTree, IsKind
<1>5. AllUnmixed(left)
  BY <1>1 DEF AllUnmixed
<1> QED
  BY <1>4, <1>5 DEF left

\* unlink and symlink.
LEMMA MakeLinkTree ==
  ASSUME IsTree(tree), AllUnmixed(tree), NEW to \in Path, MakeLink(to)
  PROVE  IsTree(tree') /\ AllUnmixed(tree')
<1> DEFINE at == FollowParent(tree, current_path)
           gone == {q \in at : ~IsKind(tree, q, "dir")}
           unlinked == [p \in DOMAIN tree \ gone |-> tree[p]]
<1>1. IsTree(unlinked) /\ AllUnmixed(unlinked)
  <2>1. \A p \in gone : ~IsKind(tree, p, "dir")
    OBVIOUS
  <2> HIDE DEF gone
  <2> QED
    BY <2>1, UnlinkTree
<1>2. \/ \E p \in at : CanMake(unlinked, p) /\ tree' = Put(unlinked, p, Link(to))
      \/ tree' = unlinked
      \/ tree' = tree
  BY DEF MakeLink
<1> HIDE DEF unlinked
<1>3. ASSUME NEW p \in at, CanMake(unlinked, p), tree' = Put(unlinked, p, Link(to))
      PROVE  IsTree(tree') /\ AllUnmixed(tree')
  <2>1. IsNode(Link(to)) /\ Link(to).kind = "link"
    BY DEF IsNode, Link
  <2> QED
    BY <1>1, <1>3, <2>1, PutTree
<1> QED
  BY <1>1, <1>2, <1>3

\* A write of data that is of the file's own file, at the offset it has there.
LEMMA WriteTree ==
  ASSUME IsTree(tree), AllUnmixed(tree), IsKind(tree, current_fd, "file"),
         NEW packet, packet.offset \in Nat, packet.bytes \in Seq(Unit),
         \A x \in 1 .. Len(packet.bytes) : packet.bytes[x].at = packet.offset + x - 1,
         \A x, y \in 1 .. Len(packet.bytes) : packet.bytes[x].of = packet.bytes[y].of,
         \A i \in DOMAIN tree[current_fd].data, x \in 1 .. Len(packet.bytes) :
           tree[current_fd].data[i].of = packet.bytes[x].of,
         NEW n \in 0 .. Len(packet.bytes), WriteChunk(packet, n)
  PROVE  /\ IsTree(tree') /\ AllUnmixed(tree') /\ IsKind(tree', current_fd, "file")
         /\ \A i \in DOMAIN tree'[current_fd].data :
              \/ /\ i \in DOMAIN tree[current_fd].data
                 /\ tree'[current_fd].data[i] = tree[current_fd].data[i]
              \/ \E x \in 1 .. Len(packet.bytes) :
                   tree'[current_fd].data[i] = packet.bytes[x]
<1> DEFINE old == tree[current_fd].data
           at == packet.offset .. packet.offset + n - 1
           new == [i \in DOMAIN old \cup at |->
                     IF i \in at THEN packet.bytes[i - packet.offset + 1] ELSE old[i]]
<1>1. tree' = Put(tree, current_fd, File(new))
  BY DEF WriteChunk
<1>2. Len(packet.bytes) \in Nat /\ \A x \in 1 .. Len(packet.bytes) : packet.bytes[x] \in Unit
  BY LenProperties, ElementOfSeq
<1>3. Unmixed(old) /\ \A i \in DOMAIN old : i \in Nat /\ old[i] \in Unit
  BY DEF IsTree, AllUnmixed, IsKind, IsNode, File, Dir, Link
<1>4. ASSUME NEW i \in at
      PROVE  /\ i \in Nat /\ i - packet.offset + 1 \in 1 .. Len(packet.bytes)
             /\ packet.bytes[i - packet.offset + 1].at = i
  <2> DEFINE x == i - packet.offset + 1
  <2>1. i \in Nat /\ x \in 1 .. Len(packet.bytes) /\ packet.offset + x - 1 = i
    <3> DEFINE offset == packet.offset
               len == Len(packet.bytes)
    <3>1. offset \in Nat /\ len \in Nat /\ n \in 0 .. len /\ i \in offset .. offset + n - 1
      BY <1>2, <1>4
    <3> HIDE DEF offset, len
    <3>2. i \in Nat /\ i - offset + 1 \in 1 .. len /\ offset + (i - offset + 1) - 1 = i
      BY <3>1
    <3> QED
      BY <3>2 DEF offset, len
  <2> HIDE DEF x
  <2>2. packet.bytes[x].at = packet.offset + x - 1
    BY <2>1
  <2> QED
    BY <2>1, <2>2 DEF x
<1>5. DOMAIN new = DOMAIN old \cup at
  OBVIOUS
<1>6. ASSUME NEW i \in DOMAIN new
      PROVE  /\ i \in Nat
             /\ \/ i \in DOMAIN old /\ new[i] = old[i]
                \/ \E x \in 1 .. Len(packet.bytes) :
                     new[i] = packet.bytes[x] /\ packet.bytes[x].at = i
  BY <1>3, <1>4
<1> HIDE DEF new, at
<1>7. Unmixed(new)
  <2> SUFFICES ASSUME NEW i \in DOMAIN new, NEW j \in DOMAIN new
               PROVE  new[i].of = new[j].of /\ new[i].at = i
    BY DEF Unmixed
  <2>1. new[i].at = i
    BY <1>3, <1>6 DEF Unmixed
  <2>2. \/ i \in DOMAIN old /\ new[i] = old[i]
        \/ \E x \in 1 .. Len(packet.bytes) : new[i] = packet.bytes[x]
    BY <1>6
  <2>3. \/ j \in DOMAIN old /\ new[j] = old[j]
        \/ \E x \in 1 .. Len(packet.bytes) : new[j] = packet.bytes[x]
    BY <1>6
  <2>4. \A k, l \in DOMAIN old : old[k].of = old[l].of
    BY <1>3 DEF Unmixed
  <2> HIDE DEF old
  <2>5. new[i].of = new[j].of
    BY <2>2, <2>3, <2>4 DEF old
  <2> QED
    BY <2>1, <2>5
<1>8. IsNode(File(new)) /\ File(new).kind = "file" /\ File(new).data = new
  BY <1>2, <1>3, <1>6 DEF IsNode, File
<1>9. /\ IsTree(tree') /\ AllUnmixed(tree')
      /\ current_fd \in DOMAIN tree' /\ tree'[current_fd] = File(new)
  BY <1>1, <1>7, <1>8, PutTree
<1>10. tree'[current_fd].data = new /\ IsKind(tree', current_fd, "file")
  BY <1>8, <1>9 DEF IsKind
<1> QED
  BY <1>6, <1>9, <1>10

-----------------------------------------------------------------------------
(* The receiver.                                                           *)

LEMMA PacketKinds ==
  ASSUME NEW p \in Packet
  PROVE  /\ p.cmd = "FILE_META" => p.name \in Path /\ p.type \in Type
         /\ p.cmd = "FILE_DATA" => p.offset \in Nat
         /\ p.cmd = "DIR_ENTER" => p.name \in Path
BY DEF Packet

LEMMA FrontPath ==
  ASSUME NEW p \in Path
  PROVE  Front(p) \in Path /\ Len(p) \in Nat
<1>1. Len(p) \in Nat
  BY LenProperties DEF Path
<1>2. CASE Len(p) = 0
  <2>1. Front(p) = <<>>
    BY <1>2, SubSeqEmpty DEF Front
  <2> QED
    BY <1>1, <2>1, EmptySeq DEF Path
<1>3. CASE Len(p) # 0
  <2>1. Len(p) - 1 \in Nat /\ Len(p) - 1 <= Len(p) /\ 1 \in Nat \ {0}
    BY <1>1, <1>3
  <2>2. SubSeq(p, 1, Len(p) - 1) \in Path
    BY <2>1, PartOfPath
  <2> QED
    BY <1>1, <2>2 DEF Front
<1> QED
  BY <1>2, <1>3

\* mkdir, however far it gets.
LEMMA MadeTree ==
  ASSUME IsTree(tree), AllUnmixed(tree), faults \in 0 .. MaxFaults,
         NEW path \in Path, NEW made \in MadeDirs(path)
  PROVE  /\ IsTree(made.fs) /\ AllUnmixed(made.fs) /\ made.faults \in 0 .. MaxFaults
         /\ \A q \in DOMAIN tree : q \in DOMAIN made.fs /\ made.fs[q] = tree[q]
<1>1. Len(path) \in Nat
  BY FrontPath
<1>2. PICK n \in 0 .. Len(path) :
        made.fs = MkDirs(tree, path, n) /\ made.faults \in 0 .. MaxFaults
  BY <1>1, SizesAssumption DEF MadeDirs, CanFail
<1>3. n \in Nat /\ n <= Len(path)
  BY <1>1
<1> QED
  BY <1>2, <1>3, MkDirsTree

\* open truncates, makes or fails.
LEMMA OpenTree ==
  ASSUME NEW made, IsTree(made.fs), AllUnmixed(made.fs), made.faults \in 0 .. MaxFaults,
         OpenFile(made)
  PROVE  /\ IsTree(tree') /\ AllUnmixed(tree') /\ faults' \in 0 .. MaxFaults
         /\ \/ current_fd' = NoFd
            \/ /\ IsKind(tree', current_fd', "file")
               /\ DOMAIN tree'[current_fd'].data = {}
<1>1. CASE tree' = made.fs /\ current_fd' = NoFd
  <2>1. faults' \in 0 .. MaxFaults
    BY <1>1, SizesAssumption DEF OpenFile
  <2> QED
    BY <1>1, <2>1
<1>2. CASE \E p \in CanOpen(made.fs) :
             tree' = Put(made.fs, p, File(<<>>)) /\ current_fd' = p /\ faults' = made.faults
  <2>1. PICK p : /\ IsKind(made.fs, p, "file") \/ CanMake(made.fs, p)
                 /\ tree' = Put(made.fs, p, File(<<>>))
                 /\ current_fd' = p /\ faults' = made.faults
    BY <1>2 DEF CanOpen
  <2>2. /\ IsNode(File(<<>>)) /\ File(<<>>).kind = "file" /\ DOMAIN File(<<>>).data = {}
        /\ Unmixed(File(<<>>).data)
    BY DEF IsNode, File, Unmixed
  <2> HIDE DEF File
  <2>3. /\ IsTree(tree') /\ AllUnmixed(tree')
        /\ p \in DOMAIN tree' /\ tree'[p] = File(<<>>)
    BY <2>1, <2>2, PutTree
  <2> QED
    BY <2>1, <2>2, <2>3 DEF IsKind
<1> QED
  BY <1>1, <1>2 DEF OpenFile

\* What is known of the packets goes on to hold for the next one.
LEMMA NextMeta ==
  ASSUME NEW d \in Nat, sent[d + 1].cmd # "FILE_META", NEW m, MetaOf(m, d)
  PROVE  MetaOf(m, d + 1)
BY DEF MetaOf

\* What the receiver keeps in order, apart from what it knows of packets.
Files ==
  /\ IsTree(tree) /\ AllUnmixed(tree)
  /\ current_fd = NoFd \/ IsKind(tree, current_fd, "file")
  /\ current_path \in Path /\ meta_type \in Type /\ completed \in BOOLEAN
  /\ faults \in 0 .. MaxFaults

LEMMA ReceiveMetaFiles ==
  ASSUME Files, NEW packet \in Packet, ReceiveMeta(packet)
  PROVE  /\ Files' /\ meta_type' = packet.type
         /\ current_fd' # NoFd =>
              packet.type = "regular" /\ DOMAIN tree'[current_fd'].data = {}
<1>1. packet.name \in Path /\ packet.type \in Type
  BY PacketKinds DEF ReceiveMeta
<1>2. /\ current_path' = packet.name /\ meta_type' = packet.type
      /\ completed' = completed
  BY DEF ReceiveMeta
<1>3. CASE current_fd' = NoFd /\ Works /\ UNCHANGED tree
  BY <1>1, <1>2, <1>3 DEF Files, Works
<1>4. CASE \E made \in MadeDirs(Front(packet.name)) :
             IF packet.type = "regular" THEN OpenFile(made)
             ELSE tree' = made.fs /\ current_fd' = NoFd /\ faults' = made.faults
  <2>1. PICK made \in MadeDirs(Front(packet.name)) :
             IF packet.type = "regular" THEN OpenFile(made)
             ELSE tree' = made.fs /\ current_fd' = NoFd /\ faults' = made.faults
    BY <1>4
  <2>2. Front(packet.name) \in Path
    BY <1>1, FrontPath
  <2>3. IsTree(made.fs) /\ AllUnmixed(made.fs) /\ made.faults \in 0 .. MaxFaults
    BY <2>2, MadeTree DEF Files
  <2>4. CASE packet.type = "regular"
    <3>1. OpenFile(made)
      BY <2>1, <2>4
    <3> QED
      BY <1>1, <1>2, <2>3, <2>4, <3>1, OpenTree DEF Files
  <2>5. CASE packet.type # "regular"
    <3>1. tree' = made.fs /\ current_fd' = NoFd /\ faults' = made.faults
      BY <2>1, <2>5
    <3> QED
      BY <1>1, <1>2, <2>3, <3>1 DEF Files
  <2> QED
    BY <2>4, <2>5
<1> QED
  BY <1>3, <1>4 DEF ReceiveMeta

LEMMA ReceiveDirEnterFiles ==
  ASSUME Files, NEW packet \in Packet, ReceiveDirEnter(packet)
  PROVE  /\ Files'
         /\ current_fd # NoFd => tree'[current_fd] = tree[current_fd]
<1>1. packet.name \in Path
  BY PacketKinds DEF ReceiveDirEnter
<1>2. PICK made \in MadeDirs(packet.name) : tree' = made.fs /\ faults' = made.faults
  BY DEF ReceiveDirEnter
<1>3. /\ IsTree(tree') /\ AllUnmixed(tree') /\ faults' \in 0 .. MaxFaults
      /\ \A q \in DOMAIN tree : q \in DOMAIN tree' /\ tree'[q] = tree[q]
  BY <1>1, <1>2, MadeTree DEF Files
<1> QED
  BY <1>1, <1>3 DEF Files, IsKind, ReceiveDirEnter

\* Data of the open file: the packet is of the same file as all it holds.
LEMMA ReceiveDataFiles ==
  ASSUME Files, Chan!DeliveredIsPrefix, Chan!TypeOK, PacketInv, ReceiverInv,
         Len(delivered) < Len(sent), ReceiveData(sent[Len(delivered) + 1])
  PROVE  /\ Files'
         /\ \A m \in 1 .. Len(delivered) :
              MetaOf(m, Len(delivered)) /\ current_fd # NoFd /\ OpenData(m, Len(delivered)) =>
                \A i \in DOMAIN tree'[current_fd].data :
                  \E k \in m + 1 .. Len(delivered) + 1 :
                    /\ IsData(k)
                    /\ \E x \in 1 .. Len(sent[k].bytes) :
                         tree'[current_fd].data[i] = sent[k].bytes[x]
<1> DEFINE d == Len(delivered)
           packet == sent[d + 1]
<1>1. d \in Nat /\ d + 1 \in 1 .. Len(sent) /\ Len(sent) \in Nat /\ packet \in Packet
  BY LenProperties, ElementOfSeq DEF Chan!TypeOK
<1>2. IsData(d + 1) /\ packet.offset \in Nat /\ packet.cmd # "FILE_META"
  BY <1>1, PacketKinds DEF ReceiveData, IsData
<1>3. UNCHANGED <<current_fd, current_path, meta_type, completed>>
  BY DEF ReceiveData
<1>4. ASSUME NEW m \in 1 .. d, MetaOf(m, d)
      PROVE  MetaOf(m, d + 1) /\ m \in 1 .. Len(sent)
  BY <1>1, <1>2, <1>4, NextMeta
<1>5. CASE meta_type = "symlink" /\ MakeLink(packet.bytes)
  <2>1. PICK m \in 1 .. d : /\ MetaOf(m, d) /\ meta_type = sent[m].type
                            /\ current_fd # NoFd => meta_type = "regular"
    BY <1>5 DEF ReceiverInv
  <2>2. packet.bytes \in Path /\ current_fd = NoFd
    BY <1>1, <1>2, <1>4, <1>5, <2>1 DEF PacketInv
  <2>3. IsTree(tree') /\ AllUnmixed(tree')
    BY <1>5, <2>2, MakeLinkTree DEF Files
  <2>4. faults' \in 0 .. MaxFaults
    BY <1>5, SizesAssumption DEF MakeLink, Files, Works, Fails, CanFail
  <2> QED
    BY <1>3, <2>2, <2>3, <2>4 DEF Files
<1>6. CASE meta_type = "regular" /\ current_fd = NoFd /\ Works /\ UNCHANGED tree
  BY <1>3, <1>6 DEF Files, Works
<1>7. ASSUME meta_type = "regular", current_fd # NoFd, NEW n \in 0 .. Len(packet.bytes),
             IF n = Len(packet.bytes) THEN Works ELSE Fails, WriteChunk(packet, n)
      PROVE  /\ Files'
             /\ \A m \in 1 .. d : MetaOf(m, d) /\ OpenData(m, d) =>
                  \A i \in DOMAIN tree'[current_fd].data :
                    \E k \in m + 1 .. d + 1 :
                      /\ IsData(k)
                      /\ \E x \in 1 .. Len(sent[k].bytes) :
                           tree'[current_fd].data[i] = sent[k].bytes[x]
  <2>1. PICK m \in 1 .. d : MetaOf(m, d) /\ sent[m].type = "regular" /\ OpenData(m, d)
    BY <1>7 DEF ReceiverInv
  <2>2. MetaOf(m, d + 1) /\ m \in 1 .. Len(sent)
    BY <1>4, <2>1
  <2>3. /\ packet.bytes \in Seq(Unit)
        /\ \A x \in 1 .. Len(packet.bytes) : packet.bytes[x].at = packet.offset + x - 1
    BY <1>1, <1>2, <2>1, <2>2 DEF PacketInv
  <2>4. \A x, y \in 1 .. Len(packet.bytes) : packet.bytes[x].of = packet.bytes[y].of
    BY <1>1, <1>2, <2>1, <2>2 DEF PacketInv
  <2>5. ASSUME NEW i \in DOMAIN tree[current_fd].data, NEW x \in 1 .. Len(packet.bytes)
        PROVE  tree[current_fd].data[i].of = packet.bytes[x].of
    <3>1. PICK k \in m + 1 .. d :
            /\ IsData(k)
            /\ \E y \in 1 .. Len(sent[k].bytes) : tree[current_fd].data[i] = sent[k].bytes[y]
      BY <2>1 DEF OpenData
    <3>2. MetaOf(m, k) /\ k \in 1 .. Len(sent)
      BY <1>1, <2>1, <3>1 DEF MetaOf
    <3> QED
      BY <1>1, <1>2, <2>1, <2>2, <3>1, <3>2, SMTT(30) DEF PacketInv
  <2>6. IsKind(tree, current_fd, "file")
    BY <1>7 DEF Files
  <2>7. /\ IsTree(tree') /\ AllUnmixed(tree') /\ IsKind(tree', current_fd, "file")
        /\ \A i \in DOMAIN tree'[current_fd].data :
             \/ /\ i \in DOMAIN tree[current_fd].data
                /\ tree'[current_fd].data[i] = tree[current_fd].data[i]
             \/ \E x \in 1 .. Len(packet.bytes) :
                  tree'[current_fd].data[i] = packet.bytes[x]
    <3> HIDE DEF packet
    <3> QED
      BY <1>2, <1>7, <2>3, <2>4, <2>5, <2>6, WriteTree DEF Files
  <2>8. faults' \in 0 .. MaxFaults
    BY <1>7, SizesAssumption DEF Files, Works, Fails, CanFail
  <2>9. ASSUME NEW l \in 1 .. d, OpenData(l, d), NEW i \in DOMAIN tree'[current_fd].data
        PROVE  \E k \in l + 1 .. d + 1 :
                 /\ IsData(k)
                 /\ \E x \in 1 .. Len(sent[k].bytes) :
                      tree'[current_fd].data[i] = sent[k].bytes[x]
    <3>1. CASE i \in DOMAIN tree[current_fd].data
               /\ tree'[current_fd].data[i] = tree[current_fd].data[i]
      BY <1>1, <2>9, <3>1 DEF OpenData
    <3>2. CASE \E x \in 1 .. Len(packet.bytes) :
                 tree'[current_fd].data[i] = packet.bytes[x]
      <4>1. d + 1 \in l + 1 .. d + 1
        BY <1>1
      <4> QED
        BY <1>2, <3>2, <4>1
    <3> QED
      BY <2>7, <3>1, <3>2
  <2> QED
    BY <1>3, <2>7, <2>8, <2>9 DEF Files
<1> QED
  BY <1>1, <1>3, <1>5, <1>6, <1>7 DEF ReceiveData

\* What the sender keeps in order.
Sending ==
  /\ job \in Jobs
  /\ pc \in {"run", "walk", "link", "chunks", "end", "ended", "done", "failed"}
  /\ stack \in Seq([local : Path, remote : Path, left : SUBSET Name])
  /\ pc = "walk" => stack # <<>>
  /\ pc = "link" => file.to \in Path
  /\ pc = "chunks" =>
       /\ file = [data |-> file.data, chunk |-> file.chunk, offset |-> file.offset]
       /\ IsNode(File(file.data))
       /\ file.chunk \in 0 .. TotalChunks /\ file.offset \in 0 .. FileSize
  /\ up \in BOOLEAN

LEMMA TypeParts == TypeOK /\ NoMixture <=> Sending /\ Chan!TypeOK /\ Files
BY DEF TypeOK, NoMixture, Sending, Files

LEMMA TypePartsNext == (TypeOK /\ NoMixture)' <=> Sending' /\ (Chan!TypeOK)' /\ Files'
BY DEF TypeOK, NoMixture, Sending, Files

LEMMA DeliverChan ==
  ASSUME Chan!TypeOK, Chan!DeliveredIsPrefix, Chan!AckedIsDelivered, Chan!Deliver
  PROVE  /\ (Chan!TypeOK)' /\ (Chan!DeliveredIsPrefix)' /\ (Chan!AckedIsDelivered)'
         /\ Len(delivered) \in Nat /\ Len(delivered) < Len(sent)
         /\ Len(delivered') = Len(delivered) + 1 /\ UNCHANGED sent
<1> DEFINE d == Len(delivered)
<1>1. d \in Nat /\ d < Len(sent) /\ Len(sent) \in Nat /\ sent[d + 1] \in Packet
  BY LenProperties, ElementOfSeq DEF Chan!TypeOK, Chan!Deliver
<1>2. UNCHANGED <<sent, acked>> /\ delivered' = Append(delivered, sent[d + 1])
  BY DEF Chan!Deliver
<1>3. /\ delivered' \in Seq(Packet) /\ Len(delivered') = d + 1
      /\ \A i \in 1 .. d : delivered'[i] = delivered[i]
      /\ delivered'[d + 1] = sent[d + 1]
  BY <1>1, <1>2, AppendProperties DEF Chan!TypeOK
<1> QED
  BY <1>1, <1>2, <1>3 DEF Chan!TypeOK, Chan!DeliveredIsPrefix, Chan!AckedIsDelivered

LEMMA ReceiveStep == ASSUME Inv, Receive PROVE Inv'
<1> DEFINE d == Len(delivered)
           packet == sent[d + 1]
<1>1. Sending /\ Chan!TypeOK /\ Files
  BY TypeParts DEF Inv
<1>2. /\ (Chan!TypeOK)' /\ (Chan!DeliveredIsPrefix)' /\ (Chan!AckedIsDelivered)'
      /\ d \in Nat /\ d < Len(sent) /\ Len(delivered') = d + 1 /\ UNCHANGED sent
  BY <1>1, DeliverChan DEF Inv, Receive
<1>3. packet \in Packet /\ d + 1 \in 1 .. d + 1
  BY <1>1, <1>2, ElementOfSeq DEF Chan!TypeOK
<1>4. UNCHANGED <<job, pc, stack, file, up>>
  BY DEF Receive, sendVars
<1>5. Sending'
  BY <1>1, <1>4 DEF Sending, TotalChunks, FileSize
<1>6. PacketInv' /\ LinkInv' /\ FileInv'
  BY <1>2, <1>4 DEF Inv, PacketInv, LinkInv, FileInv, MetaOf, IsData, FileSize
<1>7. \A m, k : MetaOf(m, k)' <=> MetaOf(m, k)
  BY <1>2 DEF MetaOf
<1>8. \A k : IsData(k)' <=> IsData(k)
  BY <1>2 DEF IsData
<1>9. CASE ReceiveMeta(packet)
  <2>1. /\ Files' /\ meta_type' = packet.type
        /\ current_fd' # NoFd =>
             packet.type = "regular" /\ DOMAIN tree'[current_fd'].data = {}
    BY <1>1, <1>3, <1>9, ReceiveMetaFiles
  <2>2. MetaOf(d + 1, d + 1)
    BY <1>2, <1>3, <1>9 DEF MetaOf, ReceiveMeta
  <2>3. ReceiverInv'
    BY <1>2, <1>3, <1>7, <2>1, <2>2 DEF ReceiverInv, OpenData
  <2> QED
    BY <1>2, <1>5, <1>6, <2>1, <2>3, TypePartsNext DEF Inv
<1>10. ASSUME packet.cmd # "FILE_META",
              UNCHANGED meta_type /\ current_fd' \in {NoFd, current_fd},
              current_fd' # NoFd => \A m \in 1 .. d : MetaOf(m, d) /\ OpenData(m, d) =>
                \A i \in DOMAIN tree'[current_fd].data :
                  \E k \in m + 1 .. d + 1 :
                    /\ IsData(k)
                    /\ \E x \in 1 .. Len(sent[k].bytes) :
                         tree'[current_fd].data[i] = sent[k].bytes[x]
       PROVE  ReceiverInv'
  <2>1. CASE /\ \A m \in 1 .. d : sent[m].cmd # "FILE_META"
             /\ meta_type = "regular" /\ current_fd = NoFd
    <3>1. \A m \in 1 .. Len(delivered)' : sent'[m].cmd # "FILE_META"
      BY <1>2, <1>10, <2>1
    <3> QED
      BY <1>10, <2>1, <3>1 DEF ReceiverInv
  <2>2. ASSUME NEW m \in 1 .. d, MetaOf(m, d), meta_type = sent[m].type,
               current_fd # NoFd => meta_type = "regular" /\ OpenData(m, d)
        PROVE  ReceiverInv'
    <3>1. MetaOf(m, d + 1) /\ m \in 1 .. d + 1
      BY <1>2, <1>10, <2>2, NextMeta
    <3>2. current_fd' # NoFd => meta_type = "regular" /\ OpenData(m, Len(delivered))'
      <4>1. current_fd' # NoFd => current_fd' = current_fd /\ current_fd # NoFd
        BY <1>10
      <4>2. current_fd' # NoFd =>
              \A i \in DOMAIN tree'[current_fd].data :
                \E k \in m + 1 .. d + 1 :
                  /\ IsData(k)
                  /\ \E x \in 1 .. Len(sent[k].bytes) :
                       tree'[current_fd].data[i] = sent[k].bytes[x]
        BY <1>10, <2>2, <4>1
      <4> QED
        BY <1>2, <1>8, <2>2, <4>1, <4>2 DEF OpenData
    <3>3. m \in 1 .. Len(delivered') /\ MetaOf(m, Len(delivered))'
      BY <1>2, <3>1 DEF MetaOf
    <3>4. meta_type' = sent'[m].type
      BY <1>2, <1>10, <2>2
    <3>5. current_fd' # NoFd => meta_type' = "regular" /\ OpenData(m, Len(delivered))'
      BY <1>10, <3>2
    <3> QED
      BY <3>3, <3>4, <3>5 DEF ReceiverInv
  <2> QED
    BY <2>1, <2>2 DEF Inv, ReceiverInv
<1>11. CASE ReceiveData(packet)
  <2>1. /\ Files'
        /\ \A m \in 1 .. d : MetaOf(m, d) /\ current_fd # NoFd /\ OpenData(m, d) =>
             \A i \in DOMAIN tree'[current_fd].data :
               \E k \in m + 1 .. d + 1 :
                 /\ IsData(k)
                 /\ \E x \in 1 .. Len(sent[k].bytes) :
                      tree'[current_fd].data[i] = sent[k].bytes[x]
    BY <1>1, <1>2, <1>11, ReceiveDataFiles DEF Inv
  <2>2. packet.cmd # "FILE_META" /\ UNCHANGED <<meta_type, current_fd>>
    BY <1>11 DEF ReceiveData
  <2>3. ReceiverInv'
    BY <1>10, <2>1, <2>2
  <2> QED
    BY <1>2, <1>5, <1>6, <2>1, <2>3, TypePartsNext DEF Inv
<1>12. ASSUME packet.cmd # "FILE_META", Files', UNCHANGED meta_type,
              \/ current_fd' = NoFd
              \/ current_fd' = current_fd /\ tree'[current_fd] = tree[current_fd]
       PROVE  Inv'
  <2>1. ASSUME current_fd' # NoFd, NEW m \in 1 .. d, OpenData(m, d),
               NEW i \in DOMAIN tree'[current_fd].data
        PROVE  \E k \in m + 1 .. d + 1 :
                 /\ IsData(k)
                 /\ \E x \in 1 .. Len(sent[k].bytes) :
                      tree'[current_fd].data[i] = sent[k].bytes[x]
    <3>1. tree'[current_fd] = tree[current_fd] /\ m + 1 .. d \subseteq m + 1 .. d + 1
      BY <1>2, <1>12, <2>1
    <3> QED
      BY <2>1, <3>1 DEF OpenData
  <2>2. ReceiverInv'
    BY <1>10, <1>12, <2>1
  <2> QED
    BY <1>2, <1>5, <1>6, <1>12, <2>2, TypePartsNext DEF Inv
<1>13. CASE ReceiveDirEnter(packet)
  <2>1. /\ Files'
        /\ current_fd # NoFd => tree'[current_fd] = tree[current_fd]
    BY <1>1, <1>3, <1>13, ReceiveDirEnterFiles
  <2> QED
    BY <1>12, <1>13, <2>1 DEF ReceiveDirEnter
<1>14. CASE ReceiveDirLeave(packet)
  BY <1>1, <1>12, <1>14 DEF ReceiveDirLeave, Files, Works
<1>15. CASE ReceiveEnd(packet)
  BY <1>1, <1>12, <1>15 DEF ReceiveEnd, Files, Works
<1> QED
  BY <1>9, <1>11, <1>13, <1>14, <1>15 DEF Receive

-----------------------------------------------------------------------------
(* The sender.                                                             *)

LEMMA AnnounceChan ==
  ASSUME Chan!TypeOK, Chan!DeliveredIsPrefix, Chan!AckedIsDelivered,
         NEW packet \in Packet, Announce(packet)
  PROVE  /\ (Chan!TypeOK)' /\ (Chan!DeliveredIsPrefix)' /\ (Chan!AckedIsDelivered)'
         /\ Len(sent) \in Nat /\ Len(delivered) \in Nat /\ Len(delivered) <= Len(sent)
         /\ Len(sent') = Len(sent) + 1 /\ sent'[Len(sent) + 1] = packet
         /\ \A i \in 1 .. Len(sent) : sent'[i] = sent[i]
         /\ UNCHANGED delivered
<1>1. sent' = Append(sent, packet) /\ UNCHANGED <<delivered, acked>>
  BY DEF Announce
<1>2. /\ sent' \in Seq(Packet) /\ Len(sent') = Len(sent) + 1
      /\ sent'[Len(sent) + 1] = packet
      /\ \A i \in 1 .. Len(sent) : sent'[i] = sent[i]
  BY <1>1, AppendProperties DEF Chan!TypeOK
<1>3. Len(sent) \in Nat /\ Len(delivered) \in Nat /\ Len(delivered) <= Len(sent)
  BY LenProperties DEF Chan!TypeOK, Chan!DeliveredIsPrefix
<1> QED
  BY <1>1, <1>2, <1>3 DEF Chan!TypeOK, Chan!DeliveredIsPrefix, Chan!AckedIsDelivered

\* A step of the sender that announces nothing.
LEMMA QuietStep ==
  ASSUME Inv, UNCHANGED <<job, up, chanVars, fileVars>>, faults' \in 0 .. MaxFaults,
         Sending', pc' # "link", pc' = "chunks" => pc = "chunks" /\ file'.data = file.data
  PROVE  Inv'
<1>1. UNCHANGED <<sent, delivered, acked, tree, current_fd, current_path, meta_type, completed>>
  BY DEF chanVars, fileVars
<1>2. Chan!TypeOK /\ Files
  BY TypeParts DEF Inv
<1>3. Files' /\ (Chan!TypeOK)'
  BY <1>1, <1>2 DEF Files, Chan!TypeOK
<1>4. (Chan!DeliveredIsPrefix)' /\ (Chan!AckedIsDelivered)'
  BY <1>1 DEF Inv, Chan!DeliveredIsPrefix, Chan!AckedIsDelivered
<1>5. PacketInv' /\ ReceiverInv'
  <2>1. PacketInv'
    BY <1>1 DEF Inv, PacketInv, MetaOf, IsData
  <2>2. /\ \A m : MetaOf(m, Len(delivered))' = MetaOf(m, Len(delivered))
        /\ \A m : OpenData(m, Len(delivered))' = OpenData(m, Len(delivered))
    BY <1>1 DEF MetaOf, OpenData, IsData
  <2>3. ReceiverInv'
    BY <1>1, <2>2 DEF Inv, ReceiverInv
  <2> QED
    BY <2>1, <2>3
<1>6. LinkInv' /\ FileInv'
  <2>1. LinkInv'
    BY DEF LinkInv
  <2>2. CASE pc' # "chunks"
    BY <2>1, <2>2 DEF FileInv
  <2>3. CASE pc' = "chunks"
    <3>1. pc = "chunks" /\ file'.data = file.data /\ FileSize' = FileSize
      BY <2>3 DEF FileSize
    <3>2. \A m : MetaOf(m, Len(sent))' = MetaOf(m, Len(sent))
      BY <1>1 DEF MetaOf
    <3>3. \A k : IsData(k)' = IsData(k)
      BY <1>1 DEF IsData
    <3>4. FileInv'
      BY <1>1, <3>1, <3>2, <3>3 DEF Inv, FileInv
    <3> QED
      BY <2>1, <3>4
  <2> QED
    BY <2>2, <2>3
<1> QED
  BY <1>3, <1>4, <1>5, <1>6, TypePartsNext DEF Inv

\* A step of the sender that announces a packet.
LEMMA AnnounceStep ==
  ASSUME Inv, UNCHANGED <<job, up, fileVars>>, faults' \in 0 .. MaxFaults,
         NEW packet \in Packet, Announce(packet),
         Sending', PacketInv', LinkInv', FileInv'
  PROVE  Inv'
<1>1. Chan!TypeOK /\ Files
  BY TypeParts DEF Inv
<1>2. /\ (Chan!TypeOK)' /\ (Chan!DeliveredIsPrefix)' /\ (Chan!AckedIsDelivered)'
      /\ Len(sent) \in Nat /\ Len(delivered) \in Nat /\ Len(delivered) <= Len(sent)
      /\ \A i \in 1 .. Len(sent) : sent'[i] = sent[i]
      /\ UNCHANGED delivered
  BY <1>1, AnnounceChan DEF Inv
<1>3. UNCHANGED <<tree, current_fd, current_path, meta_type, completed>>
  BY DEF fileVars
<1>4. Files'
  BY <1>1, <1>3 DEF Files
<1>5. \A i \in 1 .. Len(delivered) : sent'[i] = sent[i]
  BY <1>2
<1>6. \A m \in 1 .. Len(delivered) : MetaOf(m, Len(delivered)) => MetaOf(m, Len(delivered))'
  BY <1>2, <1>5 DEF MetaOf
<1>7. \A m \in 1 .. Len(delivered) :
        OpenData(m, Len(delivered)) => OpenData(m, Len(delivered))'
  BY <1>2, <1>3, <1>5 DEF OpenData, IsData
<1>8. ReceiverInv'
  BY <1>2, <1>3, <1>5, <1>6, <1>7 DEF Inv, ReceiverInv
<1> QED
  BY <1>2, <1>4, <1>8, TypePartsNext DEF Inv

\* A packet that is no FILE_DATA.
LEMMA OtherAnnounced ==
  ASSUME Inv, NEW packet \in Packet, Announce(packet), packet.cmd # "FILE_DATA"
  PROVE  PacketInv'
<1> DEFINE s == Len(sent)
<1>1. /\ s \in Nat /\ Len(sent') = s + 1 /\ sent'[s + 1] = packet
      /\ \A i \in 1 .. s : sent'[i] = sent[i]
  BY AnnounceChan, TypeParts DEF Inv
<1>2. ASSUME NEW m \in 1 .. Len(sent'), NEW k \in 1 .. Len(sent'), MetaOf(m, k)', IsData(k)'
      PROVE  m \in 1 .. s /\ k \in 1 .. s /\ MetaOf(m, k) /\ IsData(k)
             /\ sent'[m] = sent[m] /\ sent'[k] = sent[k]
  <2>1. k \in 1 .. s
    BY <1>1, <1>2 DEF IsData
  <2>2. m \in 1 .. k
    BY <1>2 DEF MetaOf
  <2> QED
    BY <1>1, <1>2, <2>1, <2>2 DEF MetaOf, IsData
<1>3. \A m, k \in 1 .. Len(sent') : MetaOf(m, k)' /\ IsData(k)' =>
        /\ sent'[m].type = "symlink" => sent'[k].bytes \in Path
        /\ sent'[m].type = "regular" =>
             /\ sent'[k].bytes \in Seq(Unit)
             /\ \A x \in 1 .. Len(sent'[k].bytes) :
                  sent'[k].bytes[x].at = sent'[k].offset + x - 1
  BY <1>2 DEF Inv, PacketInv
<1>4. ASSUME NEW m \in 1 .. Len(sent'), NEW k \in 1 .. Len(sent'), NEW l \in 1 .. Len(sent'),
             MetaOf(m, k)', IsData(k)', MetaOf(m, l)', IsData(l)', sent'[m].type = "regular",
             NEW x \in 1 .. Len(sent'[k].bytes), NEW y \in 1 .. Len(sent'[l].bytes)
      PROVE  sent'[k].bytes[x].of = sent'[l].bytes[y].of
  <2>1. m \in 1 .. s /\ k \in 1 .. s /\ MetaOf(m, k) /\ IsData(k)
        /\ sent'[m] = sent[m] /\ sent'[k] = sent[k]
    BY <1>2, <1>4
  <2>2. l \in 1 .. s /\ MetaOf(m, l) /\ IsData(l) /\ sent'[l] = sent[l]
    BY <1>2, <1>4
  <2> QED
    BY <1>4, <2>1, <2>2 DEF Inv, PacketInv
<1> QED
  BY <1>3, <1>4 DEF PacketInv

\* A call of scp_send_directory.
Call == [local : Path, remote : Path, left : SUBSET Name]

\* What is found in the source is a node of it.
LEMMA FoundNode ==
  ASSUME job \in Jobs, NEW path, NEW node \in Found(path)
  PROVE  /\ IsNode(node)
         /\ node.kind = "file" =>
              /\ Unmixed(node.data) /\ Cardinality(DOMAIN node.data) \in Nat
              /\ DOMAIN node.data = 0 .. Cardinality(DOMAIN node.data) - 1
<1>1. PICK p \in DOMAIN job.src : node = job.src[p]
  BY DEF Found, Stat, Lstat
<1>2. /\ IsTree(job.src) /\ AllUnmixed(job.src)
      /\ node.kind = "file" =>
           /\ IsFiniteSet(DOMAIN node.data)
           /\ node.data \in [0 .. Cardinality(DOMAIN node.data) - 1 -> Unit]
  BY <1>1, JobsAssumption
<1>3. IsNode(node) /\ (node.kind = "file" => Unmixed(node.data))
  BY <1>1, <1>2 DEF IsTree, AllUnmixed
<1> QED
  BY <1>2, <1>3, FS_CardinalityType

LEMMA FoundFile ==
  ASSUME job \in Jobs, NEW path, NEW node \in Found(path), node.kind = "file"
  PROVE  node.data = [i \in 0 .. Cardinality(DOMAIN node.data) - 1 |-> node.data[i]]
<1>1. PICK p \in DOMAIN job.src : node = job.src[p]
  BY DEF Found, Stat, Lstat
<1>2. node.data \in [0 .. Cardinality(DOMAIN node.data) - 1 -> Unit]
  BY <1>1, JobsAssumption
<1> QED
  BY <1>2

LEMMA CutPath == ASSUME NEW p \in Path PROVE Cut(p) \in Path
<1>1. Len(p) \in Nat
  BY LenProperties DEF Path
<1> DEFINE n == IF Len(p) < NameLen THEN Len(p) ELSE NameLen
<1>2. n \in Nat /\ n <= Len(p) /\ 1 \in Nat \ {0}
  BY <1>1, SizesAssumption
<1> HIDE DEF n
<1>3. SubSeq(p, 1, n) \in Path
  BY <1>2, PartOfPath
<1> QED
  BY <1>3 DEF Cut, n

LEMMA FaultsStep ==
  ASSUME faults \in 0 .. MaxFaults, Works \/ Fails
  PROVE  faults' \in 0 .. MaxFaults
BY SizesAssumption DEF Works, Fails, CanFail

\* What is sent for the source or an entry of a directory.
LEMMA SendStep ==
  ASSUME Inv, UNCHANGED <<job, up, fileVars>>, NEW path \in Path, NEW name \in Path,
         NEW calls \in Seq(Call), NEW node \in Found(path), Send(node, path, name, calls)
  PROVE  Inv'
<1>1. Sending /\ Chan!TypeOK /\ Files
  BY TypeParts DEF Inv
<1>2. /\ IsNode(node) /\ Cut(name) \in Path
      /\ node.kind = "file" =>
           /\ Unmixed(node.data) /\ Cardinality(DOMAIN node.data) \in Nat
           /\ DOMAIN node.data = 0 .. Cardinality(DOMAIN node.data) - 1
  BY <1>1, FoundNode, CutPath DEF Sending
<1>3. faults' \in 0 .. MaxFaults
  BY <1>1, FaultsStep DEF Send, SendFails, Files
<1>4. CASE SendFails
  <2>1. pc' = "failed" /\ UNCHANGED <<stack, file, chanVars>>
    BY <1>4 DEF SendFails
  <2>2. Sending'
    BY <1>1, <2>1 DEF Sending
  <2> QED
    BY <1>3, <2>1, <2>2, QuietStep
<1>5. CASE SendDirectory(path, name, calls)
  <2> DEFINE packet == DirEnter(Cut(name))
             call == [local |-> path, remote |-> name, left |-> Entries(path)]
  <2>1. packet \in Packet /\ packet.cmd # "FILE_DATA" /\ Announce(packet)
    BY <1>2, <1>5 DEF SendDirectory, DirEnter, Packet
  <2>2. pc' = "walk" /\ stack' = Append(calls, call) /\ call \in Call
    BY <1>5 DEF SendDirectory, Call, Entries
  <2> HIDE DEF packet, call
  <2>3. stack' \in Seq(Call) /\ stack' # <<>>
    BY <2>2, AppendProperties
  <2>4. Sending'
    BY <1>1, <2>2, <2>3 DEF Sending, Call
  <2>5. LinkInv' /\ FileInv'
    BY <2>2 DEF LinkInv, FileInv
  <2> QED
    BY <1>3, <2>1, <2>4, <2>5, OtherAnnounced, AnnounceStep
<1>6. CASE node.kind = "link" /\ SendSymlink(node, name, calls)
  <2> DEFINE packet == Meta(Cut(name), "symlink")
  <2>1. /\ packet \in Packet /\ packet.cmd = "FILE_META" /\ packet.type = "symlink"
        /\ Announce(packet)
    BY <1>2, <1>6 DEF SendSymlink, Meta, Packet, Type
  <2>2. pc' = "link" /\ stack' = calls /\ file'.to \in Path
    BY <1>2, <1>6 DEF SendSymlink, IsNode, Dir, Link, File
  <2> HIDE DEF packet
  <2>3. Sending'
    BY <1>1, <2>2 DEF Sending, Call
  <2>4. Len(sent) \in Nat /\ Len(sent') = Len(sent) + 1 /\ sent'[Len(sent) + 1] = packet
    BY <1>1, <2>1, AnnounceChan DEF Inv
  <2>5. LinkInv' /\ FileInv'
    BY <2>1, <2>2, <2>4 DEF LinkInv, FileInv
  <2> QED
    BY <1>3, <2>1, <2>3, <2>5, OtherAnnounced, AnnounceStep
<1>7. CASE node.kind = "file" /\ SendFile(node, name, calls)
  <2> DEFINE packet == Meta(Cut(name), "regular")
  <2>1. /\ packet \in Packet /\ packet.cmd = "FILE_META" /\ packet.type = "regular"
        /\ Announce(packet)
    BY <1>2, <1>7 DEF SendFile, Meta, Packet, Type
  <2>2. /\ pc' = "chunks" /\ stack' = calls
        /\ file' = [data |-> node.data, chunk |-> 0, offset |-> 0]
        /\ node = File(node.data)
    BY <1>2, <1>7 DEF SendFile, IsNode, Dir, Link, File
  <2> HIDE DEF packet
  <2>3. /\ file'.data = node.data /\ file'.chunk = 0 /\ file'.offset = 0
        /\ FileSize' = Cardinality(DOMAIN node.data) /\ FileSize' \in Nat
    BY <1>2, <1>7, <2>2 DEF FileSize
  <2>4. 0 \in 0 .. TotalChunks' /\ 0 \in 0 .. FileSize'
    BY <2>3, SizesAssumption DEF TotalChunks
  <2>5. Sending'
    BY <1>1, <1>2, <2>2, <2>3, <2>4 DEF Sending, Call
  <2>6. Len(sent) \in Nat /\ Len(sent') = Len(sent) + 1 /\ sent'[Len(sent) + 1] = packet
    BY <1>1, <2>1, AnnounceChan DEF Inv
  <2>7. LinkInv'
    BY <2>2 DEF LinkInv
  <2>8. FileInv'
    <3>1. Len(sent') \in 1 .. Len(sent') /\ MetaOf(Len(sent), Len(sent))'
      BY <2>1, <2>6 DEF MetaOf
    <3>2. \A k \in Len(sent') + 1 .. Len(sent') : FALSE
      BY <2>6
    <3>3. /\ Unmixed(file'.data) /\ DOMAIN file'.data = 0 .. FileSize' - 1
      BY <1>2, <1>7, <2>3
    <3> QED
      BY <2>1, <2>3, <2>6, <3>1, <3>2, <3>3 DEF FileInv
  <2> QED
    BY <1>3, <2>1, <2>5, <2>7, <2>8, OtherAnnounced, AnnounceStep
<1> QED
  BY <1>4, <1>5, <1>6, <1>7 DEF Send

\* The last FILE_META is one.
LEMMA OneMeta ==
  ASSUME NEW k \in Nat, NEW m, NEW l, MetaOf(m, k), MetaOf(l, k)
  PROVE  m = l
BY DEF MetaOf

\* A FILE_DATA packet that is what the last FILE_META announced.
LEMMA DataAnnounced ==
  ASSUME Inv, NEW packet \in Packet, Announce(packet), packet.cmd = "FILE_DATA",
         NEW m \in 1 .. Len(sent), MetaOf(m, Len(sent)),
         sent[m].type = "symlink" => packet.bytes \in Path,
         sent[m].type = "regular" =>
           /\ packet.bytes \in Seq(Unit)
           /\ \A x \in 1 .. Len(packet.bytes) : packet.bytes[x].at = packet.offset + x - 1
           /\ \A x, y \in 1 .. Len(packet.bytes) : packet.bytes[x].of = packet.bytes[y].of
           /\ \A k \in m + 1 .. Len(sent) : IsData(k) =>
                \A x \in 1 .. Len(sent[k].bytes), y \in 1 .. Len(packet.bytes) :
                  sent[k].bytes[x].of = packet.bytes[y].of
  PROVE  /\ PacketInv' /\ MetaOf(m, Len(sent))' /\ m \in 1 .. Len(sent') /\ sent'[m] = sent[m]
<1> DEFINE s == Len(sent)
<1>1. /\ s \in Nat /\ Len(sent') = s + 1 /\ sent'[s + 1] = packet
      /\ \A i \in 1 .. s : sent'[i] = sent[i]
  BY AnnounceChan, TypeParts DEF Inv
<1>2. MetaOf(m, Len(sent))' /\ m \in 1 .. s + 1 /\ sent'[m] = sent[m]
  BY <1>1 DEF MetaOf
<1>3. ASSUME NEW l \in 1 .. s + 1, NEW k \in 1 .. s + 1, MetaOf(l, k)', IsData(k)'
      PROVE  /\ sent'[l] = sent[l] /\ l \in 1 .. s
             /\ \/ /\ k \in 1 .. s /\ MetaOf(l, k) /\ IsData(k) /\ sent'[k] = sent[k]
                   /\ l = m => k \in m + 1 .. s
                \/ k = s + 1 /\ l = m /\ sent'[k] = packet
  <2>1. l \in 1 .. k /\ sent'[l].cmd = "FILE_META" /\ sent'[k].cmd = "FILE_DATA" /\ l # k
    BY <1>3 DEF MetaOf, IsData
  <2>2. CASE k \in 1 .. s
    <3>1. MetaOf(l, k) /\ IsData(k)
      BY <1>1, <1>3, <2>1, <2>2 DEF MetaOf, IsData
    <3> QED
      BY <1>1, <2>1, <2>2, <3>1
  <2>3. CASE k = s + 1
    <3>1. MetaOf(l, s)
      BY <1>1, <1>3, <2>1, <2>3 DEF MetaOf
    <3>2. l = m
      BY <1>1, <3>1, OneMeta
    <3> QED
      BY <1>1, <2>3, <3>2
  <2> QED
    BY <1>1, <2>2, <2>3
<1>4. ASSUME NEW l \in 1 .. Len(sent'), NEW k \in 1 .. Len(sent'), MetaOf(l, k)', IsData(k)'
      PROVE  /\ sent'[l].type = "symlink" => sent'[k].bytes \in Path
             /\ sent'[l].type = "regular" =>
                  /\ sent'[k].bytes \in Seq(Unit)
                  /\ \A x \in 1 .. Len(sent'[k].bytes) :
                       sent'[k].bytes[x].at = sent'[k].offset + x - 1
  BY <1>1, <1>3, <1>4, SMTT(30) DEF Inv, PacketInv
<1>5. ASSUME NEW l \in 1 .. Len(sent'), NEW k \in 1 .. Len(sent'), NEW j \in 1 .. Len(sent'),
             MetaOf(l, k)', IsData(k)', MetaOf(l, j)', IsData(j)', sent'[l].type = "regular",
             NEW x \in 1 .. Len(sent'[k].bytes), NEW y \in 1 .. Len(sent'[j].bytes)
      PROVE  sent'[k].bytes[x].of = sent'[j].bytes[y].of
  <2>1. /\ sent'[l] = sent[l] /\ l \in 1 .. s
        /\ \/ /\ k \in 1 .. s /\ MetaOf(l, k) /\ IsData(k) /\ sent'[k] = sent[k]
              /\ l = m => k \in m + 1 .. s
           \/ k = s + 1 /\ l = m /\ sent'[k] = packet
    BY <1>1, <1>3, <1>5, SMTT(30)
  <2>2. /\ \/ /\ j \in 1 .. s /\ MetaOf(l, j) /\ IsData(j) /\ sent'[j] = sent[j]
              /\ l = m => j \in m + 1 .. s
           \/ j = s + 1 /\ l = m /\ sent'[j] = packet
    BY <1>1, <1>3, <1>5
  <2>3. CASE k \in 1 .. s /\ j \in 1 .. s
    <3>1. /\ MetaOf(l, k) /\ IsData(k) /\ MetaOf(l, j) /\ IsData(j)
          /\ sent[l].type = "regular" /\ sent'[k] = sent[k] /\ sent'[j] = sent[j]
          /\ x \in 1 .. Len(sent[k].bytes) /\ y \in 1 .. Len(sent[j].bytes)
      BY <1>1, <1>5, <2>1, <2>2, <2>3
    <3>2. sent[k].bytes[x].of = sent[j].bytes[y].of
      BY <2>1, <2>3, <3>1 DEF Inv, PacketInv
    <3> QED
      BY <3>1, <3>2
  <2>4. CASE k \in 1 .. s /\ j = s + 1
    BY <1>1, <1>5, <2>1, <2>2, <2>4, SMTT(30)
  <2>5. CASE k = s + 1 /\ j \in 1 .. s
    BY <1>1, <1>5, <2>1, <2>2, <2>5, SMTT(30)
  <2>6. CASE k = s + 1 /\ j = s + 1
    BY <1>1, <1>5, <2>1, <2>2, <2>6, SMTT(30)
  <2> QED
    BY <2>1, <2>2, <2>3, <2>4, <2>5, <2>6
<1>6. PacketInv'
  BY <1>4, <1>5 DEF PacketInv
<1> QED
  BY <1>1, <1>2, <1>6

\* The text of a link.
LEMMA SendLinkTextStep ==
  ASSUME Inv, UNCHANGED <<job, up, fileVars>>, SendLinkText
  PROVE  Inv'
<1> DEFINE packet == Data(0, file.to)
<1>1. Sending /\ Chan!TypeOK /\ Files
  BY TypeParts DEF Inv
<1>2. /\ Announce(packet) /\ UNCHANGED <<stack, file>>
      /\ pc' \in {"end", "walk"} /\ (pc' = "walk" => stack # <<>>)
  BY DEF SendLinkText, Return
<1>3. /\ packet \in Packet /\ packet.cmd = "FILE_DATA" /\ packet.bytes \in Path
  BY <1>1 DEF Sending, Data, Packet, SendLinkText
<1> HIDE DEF packet
<1>4. /\ Len(sent) \in 1 .. Len(sent) /\ MetaOf(Len(sent), Len(sent))
      /\ sent[Len(sent)].type = "symlink"
  <2>1. Len(sent) \in Nat
    BY <1>1, LenProperties DEF Chan!TypeOK
  <2> QED
    BY <2>1 DEF Inv, LinkInv, SendLinkText, MetaOf
<1>5. PacketInv'
  BY <1>2, <1>3, <1>4, DataAnnounced
<1>6. Sending'
  BY <1>1, <1>2 DEF Sending
<1>7. LinkInv' /\ FileInv'
  BY <1>2 DEF LinkInv, FileInv
<1>8. faults' \in 0 .. MaxFaults
  BY <1>1, FaultsStep DEF SendLinkText, Files
<1> QED
  BY <1>2, <1>3, <1>5, <1>6, <1>7, <1>8, AnnounceStep

\* A chunk.
Chunk(n) == [i \in 1 .. n |-> file.data[file.offset + i - 1]]

LEMMA ChunkPacket ==
  ASSUME Inv, NEW n \in Nat, SendChunk(n)
  PROVE  /\ file = [data |-> file.data, chunk |-> file.chunk, offset |-> file.offset]
         /\ file.chunk \in 0 .. TotalChunks /\ TotalChunks \in Int
         /\ Unmixed(file.data) /\ DOMAIN file.data = 0 .. FileSize - 1 /\ FileSize \in Nat
         /\ file.offset \in Nat /\ file.offset + n \in 0 .. FileSize
         /\ \A x \in 1 .. n : /\ file.offset + x - 1 \in DOMAIN file.data
                              /\ Chunk(n)[x] = file.data[file.offset + x - 1]
         /\ Chunk(n) \in Seq(Unit) /\ Len(Chunk(n)) = n
         /\ Data(file.offset, Chunk(n)) \in Packet
<1> DEFINE bytes == Chunk(n)
<1>1. Sending /\ Chan!TypeOK /\ Files
  BY TypeParts DEF Inv
<1>2. pc = "chunks" /\ n \in 1 .. ToRead
  BY DEF SendChunk, InChunkLoop
<1>3. /\ file = [data |-> file.data, chunk |-> file.chunk, offset |-> file.offset]
      /\ IsNode(File(file.data))
      /\ file.chunk \in 0 .. TotalChunks /\ file.offset \in 0 .. FileSize
      /\ Unmixed(file.data) /\ DOMAIN file.data = 0 .. FileSize - 1 /\ FileSize \in Nat
      /\ TotalChunks \in Int
  <2>1. /\ file = [data |-> file.data, chunk |-> file.chunk, offset |-> file.offset]
        /\ IsNode(File(file.data))
        /\ file.chunk \in 0 .. TotalChunks /\ file.offset \in 0 .. FileSize
    BY <1>1, <1>2 DEF Sending
  <2>2. Unmixed(file.data) /\ DOMAIN file.data = 0 .. FileSize - 1 /\ FileSize \in Nat
    BY <1>2 DEF Inv, FileInv
  <2>3. TotalChunks \in Int
    BY <2>2, SizesAssumption DEF TotalChunks
  <2> QED
    BY <2>1, <2>2, <2>3
<1>4. file.offset + n \in 0 .. FileSize /\ file.offset \in Nat
  <2> DEFINE offset == file.offset
             size == FileSize
  <2>1. /\ offset \in 0 .. size /\ size \in Nat /\ ChunkSize \in Nat
        /\ n <= IF offset + ChunkSize > size THEN size - offset ELSE ChunkSize
    BY <1>2, <1>3, SizesAssumption DEF ToRead
  <2> HIDE DEF offset, size
  <2>2. offset + n \in 0 .. size /\ offset \in Nat
    BY <2>1
  <2> QED
    BY <2>2 DEF offset, size
<1>5. \A j \in DOMAIN file.data : file.data[j] \in Unit
  BY <1>3 DEF IsNode, File, Dir, Link
<1>6. \A x \in 1 .. n : /\ file.offset + x - 1 \in DOMAIN file.data
                        /\ bytes[x] = file.data[file.offset + x - 1]
  BY <1>3, <1>4 DEF Chunk
<1>7. bytes \in Seq(Unit) /\ Len(bytes) = n
  <2>1. bytes \in [1 .. n -> Unit]
    BY <1>5, <1>6 DEF Chunk
  <2> HIDE DEF bytes
  <2>2. bytes \in Seq(Unit) /\ DOMAIN bytes = 1 .. n
    BY <2>1, SeqDef
  <2> QED
    BY <2>2, LenProperties
<1> HIDE DEF bytes
<1>8. Data(file.offset, bytes) \in Packet
  BY <1>4, <1>7 DEF Data, Packet
<1> QED
  BY <1>3, <1>4, <1>6, <1>7, <1>8 DEF bytes

LEMMA SendChunkStep ==
  ASSUME Inv, UNCHANGED <<job, up, fileVars>>, NEW n \in Nat, SendChunk(n)
  PROVE  Inv'
<1> DEFINE bytes == Chunk(n)
           packet == Data(file.offset, bytes)
<1>1. Sending /\ Chan!TypeOK /\ Files
  BY TypeParts DEF Inv
<1>2. /\ pc = "chunks" /\ Announce(packet) /\ UNCHANGED <<pc, stack>>
      /\ file' = [file EXCEPT !.chunk = @ + 1, !.offset = @ + n]
      /\ n \in 1 .. ToRead /\ file.chunk < TotalChunks
  BY DEF SendChunk, InChunkLoop, Chunk
<1>3. /\ file = [data |-> file.data, chunk |-> file.chunk, offset |-> file.offset]
      /\ file.chunk \in 0 .. TotalChunks /\ TotalChunks \in Int
      /\ Unmixed(file.data) /\ DOMAIN file.data = 0 .. FileSize - 1 /\ FileSize \in Nat
      /\ IsNode(File(file.data))
  BY <1>1, <1>2, ChunkPacket DEF Sending
<1>4. /\ file'.data = file.data /\ file'.chunk = file.chunk + 1 /\ file'.offset = file.offset + n
      /\ file' = [data |-> file'.data, chunk |-> file'.chunk, offset |-> file'.offset]
  BY <1>2, <1>3
<1>5. file.offset + n \in 0 .. FileSize /\ file.offset \in Nat
  BY ChunkPacket
<1>6. FileSize' = FileSize /\ TotalChunks' = TotalChunks
  BY <1>4 DEF FileSize, TotalChunks
<1>7. Sending'
  BY <1>1, <1>2, <1>3, <1>4, <1>5, <1>6 DEF Sending
<1>9. \A x \in 1 .. n : /\ file.offset + x - 1 \in DOMAIN file.data
                        /\ bytes[x] = file.data[file.offset + x - 1]
  BY ChunkPacket
<1>10. bytes \in Seq(Unit) /\ Len(bytes) = n
  BY ChunkPacket
<1> HIDE DEF bytes
<1>11. /\ \A x \in 1 .. n : bytes[x].at = file.offset + x - 1
       /\ \A x \in 1 .. n, i \in DOMAIN file.data : bytes[x].of = file.data[i].of
  BY <1>3, <1>9, SMTT(30) DEF Unmixed
<1>12. /\ packet \in Packet /\ packet.cmd = "FILE_DATA"
       /\ packet.bytes = bytes /\ packet.offset = file.offset
  BY <1>5, <1>10 DEF Data, Packet
<1> HIDE DEF packet
<1>13. PICK m \in 1 .. Len(sent) :
         /\ MetaOf(m, Len(sent)) /\ sent[m].type = "regular"
         /\ \A k \in m + 1 .. Len(sent) : IsData(k) =>
              \A x \in 1 .. Len(sent[k].bytes), i \in DOMAIN file.data :
                sent[k].bytes[x].of = file.data[i].of
  BY <1>2 DEF Inv, FileInv
<1>14. \A x, y \in 1 .. n : bytes[x].of = bytes[y].of
  BY <1>9, <1>11, SMTT(30)
<1>15. ASSUME NEW k \in m + 1 .. Len(sent), IsData(k),
              NEW x \in 1 .. Len(sent[k].bytes), NEW y \in 1 .. n
       PROVE  sent[k].bytes[x].of = bytes[y].of
  <2>1. PICK i \in DOMAIN file.data : bytes[y] = file.data[i]
    BY <1>9
  <2>2. sent[k].bytes[x].of = file.data[i].of
    BY <1>13, <1>15
  <2> QED
    BY <2>1, <2>2
<1>16. /\ PacketInv' /\ MetaOf(m, Len(sent))' /\ m \in 1 .. Len(sent')
       /\ sent'[m] = sent[m]
  <2>1. /\ packet.bytes \in Seq(Unit)
        /\ \A x \in 1 .. Len(packet.bytes) : packet.bytes[x].at = packet.offset + x - 1
        /\ \A x, y \in 1 .. Len(packet.bytes) : packet.bytes[x].of = packet.bytes[y].of
    BY <1>10, <1>11, <1>12, <1>14, SMTT(30)
  <2>2. \A k \in m + 1 .. Len(sent) : IsData(k) =>
          \A x \in 1 .. Len(sent[k].bytes), y \in 1 .. Len(packet.bytes) :
            sent[k].bytes[x].of = packet.bytes[y].of
    BY <1>10, <1>12, <1>15, Zenon
  <2>3. sent[m].type = "symlink" => packet.bytes \in Path
    BY <1>13
  <2> QED
    BY <1>2, <1>12, <1>13, <2>1, <2>2, <2>3, DataAnnounced, Zenon
<1>17. /\ Len(sent) \in Nat /\ Len(sent') = Len(sent) + 1 /\ sent'[Len(sent) + 1] = packet
       /\ \A i \in 1 .. Len(sent) : sent'[i] = sent[i]
  BY <1>1, <1>2, <1>12, AnnounceChan DEF Inv
<1>18. ASSUME NEW k \in m + 1 .. Len(sent'), IsData(k)',
              NEW x \in 1 .. Len(sent'[k].bytes), NEW i \in DOMAIN file.data
       PROVE  sent'[k].bytes[x].of = file.data[i].of
  <2>1. CASE k = Len(sent) + 1
    BY <1>10, <1>11, <1>12, <1>17, <1>18, <2>1
  <2>2. CASE k # Len(sent) + 1
    <3>1. k \in m + 1 .. Len(sent) /\ sent'[k] = sent[k]
      BY <1>17, <1>18, <2>2
    <3> QED
      BY <1>13, <1>18, <3>1 DEF IsData
  <2> QED
    BY <2>1, <2>2
<1>19. FileInv'
  <2>1. sent'[m].type = "regular"
    BY <1>13, <1>16
  <2>2. /\ Unmixed(file'.data) /\ DOMAIN file'.data = 0 .. FileSize' - 1 /\ FileSize' \in Nat
    BY <1>3, <1>4, <1>6
  <2>3. \A k \in m + 1 .. Len(sent') : IsData(k)' =>
          \A x \in 1 .. Len(sent'[k].bytes), i \in DOMAIN file'.data :
            sent'[k].bytes[x].of = file'.data[i].of
    BY <1>4, <1>18
  <2> QED
    BY <1>16, <2>1, <2>2, <2>3 DEF FileInv
<1>20. LinkInv'
  BY <1>2 DEF LinkInv
<1>21. faults' \in 0 .. MaxFaults
  BY <1>1, FaultsStep DEF SendChunk, Files
<1> QED
  BY <1>2, <1>7, <1>12, <1>16, <1>19, <1>20, <1>21, AnnounceStep

LEMMA SourcePaths ==
  ASSUME job \in Jobs
  PROVE  job.local \in Path /\ FinalPath \in Path
<1>1. job.local \in Path /\ job.base \in Path /\ job.dest \in Path
  BY JobsAssumption
<1> QED
  BY <1>1, ConcatProperties DEF FinalPath, Path

\* An entry of a directory, and the calls without it.
LEMMA EntryPaths ==
  ASSUME Sending, NEW n \in Name, NextEntry(n)
  PROVE  /\ Entry(n).path \in Path /\ Entry(n).name \in Path
         /\ Entry(n).calls \in Seq(Call) /\ Entry(n).calls # <<>>
<1> DEFINE l == Len(stack)
           top == stack[l]
           rest == [top EXCEPT !.left = @ \ {n}]
<1>1. stack \in Seq(Call) /\ stack # <<>>
  BY DEF Sending, NextEntry, Call
<1>2. l \in 1 .. Len(stack) /\ top \in Call
  BY <1>1, EmptySeq, ElementOfSeq
<1>3. rest \in Call
  BY <1>2 DEF Call
<1>4. /\ Entry(n).path = Append(top.local, n) /\ Entry(n).name = Append(top.remote, n)
      /\ Entry(n).calls = [stack EXCEPT ![l] = rest]
  BY DEF Entry
<1>5. Entry(n).path \in Path /\ Entry(n).name \in Path
  <2>1. top.local \in Path /\ top.remote \in Path
    BY <1>2 DEF Call
  <2> HIDE DEF top
  <2> QED
    BY <1>4, <2>1, AppendProperties DEF Path
<1> HIDE DEF top, rest
<1>6. Entry(n).calls \in Seq(Call) /\ Len(Entry(n).calls) = Len(stack)
  BY <1>1, <1>2, <1>3, <1>4, ExceptSeq
<1>7. Entry(n).calls # <<>>
  BY <1>2, <1>6, EmptySeq
<1> QED
  BY <1>5, <1>6, <1>7

\* readdir, and the entry that it returns.
LEMMA EntryStep ==
  ASSUME Inv, UNCHANGED <<job, up, fileVars>>, NEW n \in Name, SendEntry(n) \/ SkipEntry(n)
  PROVE  Inv'
<1>1. Sending /\ Files /\ NextEntry(n)
  BY TypeParts DEF Inv, SendEntry, SkipEntry
<1>2. /\ Entry(n).path \in Path /\ Entry(n).name \in Path
      /\ Entry(n).calls \in Seq(Call) /\ Entry(n).calls # <<>>
  BY <1>1, EntryPaths
<1>3. CASE SendEntry(n)
  <2>1. PICK node \in Found(Entry(n).path) :
          Send(node, Entry(n).path, Entry(n).name, Entry(n).calls)
    BY <1>3 DEF SendEntry
  <2> QED
    BY <1>2, <2>1, SendStep
<1>4. CASE SkipEntry(n)
  <2>1. /\ stack' = Entry(n).calls /\ pc' = "walk"
        /\ UNCHANGED <<file, chanVars>>
    BY <1>1, <1>4 DEF SkipEntry, NextEntry
  <2>2. Sending'
    BY <1>1, <1>2, <2>1 DEF Sending, Call
  <2>3. faults' \in 0 .. MaxFaults
    BY <1>1, <1>4, FaultsStep DEF SkipEntry, Files
  <2> QED
    BY <2>1, <2>2, <2>3, QuietStep
<1> QED
  BY <1>3, <1>4

LEMMA SenderRunStep ==
  ASSUME Inv, UNCHANGED <<job, up, fileVars>>, SenderRun
  PROVE  Inv'
<1>1. Sending /\ Files
  BY TypeParts DEF Inv
<1>2. CASE \E node \in Found(job.local) : Send(node, job.local, FinalPath, <<>>)
  <2>1. PICK node \in Found(job.local) : Send(node, job.local, FinalPath, <<>>)
    BY <1>2
  <2>2. job.local \in Path /\ FinalPath \in Path /\ <<>> \in Seq(Call)
    BY <1>1, SourcePaths, EmptySeq DEF Sending
  <2> QED
    BY <2>1, <2>2, SendStep
<1>3. CASE pc' = "failed" /\ Works /\ UNCHANGED <<stack, file, chanVars>>
  <2>1. Sending' /\ faults' \in 0 .. MaxFaults
    BY <1>1, <1>3 DEF Sending, Works, Files
  <2> QED
    BY <1>3, <2>1, QuietStep
<1> QED
  BY <1>2, <1>3 DEF SenderRun

LEMMA LeaveDirectoryStep ==
  ASSUME Inv, UNCHANGED <<job, up, fileVars>>, LeaveDirectory
  PROVE  Inv'
<1>1. Sending /\ Files
  BY TypeParts DEF Inv
<1>2. /\ Announce(DirLeave) /\ stack' = Front(stack) /\ stack # <<>> /\ UNCHANGED file
      /\ pc' \in {"end", "walk"} /\ (pc' = "walk" => stack' # <<>>)
  BY <1>1 DEF LeaveDirectory, Return, Sending
<1>3. DirLeave \in Packet /\ DirLeave.cmd # "FILE_DATA"
  BY DEF DirLeave, Packet
<1>4. Front(stack) \in Seq(Call)
  <2>1. stack \in Seq(Call) /\ Len(stack) \in Nat \ {0}
    BY <1>1, <1>2, EmptySeq DEF Sending, Call
  <2>2. \A i \in 1 .. Len(stack) - 1 : stack[i] \in Call
    BY <2>1, ElementOfSeq
  <2> QED
    BY <2>1, <2>2, SubSeqProperties DEF Front
<1>5. Sending' /\ LinkInv' /\ FileInv'
  BY <1>1, <1>2, <1>4 DEF Sending, Call, LinkInv, FileInv
<1>6. faults' \in 0 .. MaxFaults
  BY <1>1, FaultsStep DEF LeaveDirectory, Files
<1> QED
  BY <1>2, <1>3, <1>5, <1>6, OtherAnnounced, AnnounceStep

LEMMA SendEndStep ==
  ASSUME Inv, UNCHANGED <<job, up, fileVars>>, SendEnd
  PROVE  Inv'
<1>1. Sending /\ Files
  BY TypeParts DEF Inv
<1>2. Announce(TransferEnd) /\ pc' = "ended" /\ UNCHANGED <<stack, file>>
  BY DEF SendEnd
<1>3. TransferEnd \in Packet /\ TransferEnd.cmd # "FILE_DATA"
  BY DEF TransferEnd, Packet
<1>4. Sending' /\ LinkInv' /\ FileInv'
  BY <1>1, <1>2 DEF Sending, LinkInv, FileInv
<1>5. faults' \in 0 .. MaxFaults
  BY <1>1, FaultsStep DEF SendEnd, Files
<1> QED
  BY <1>2, <1>3, <1>4, <1>5, OtherAnnounced, AnnounceStep

\* pread fails: the chunk loop ends.
LEMMA ReadStopsStep ==
  ASSUME Inv, UNCHANGED <<job, up, fileVars>>, ReadStops
  PROVE  Inv'
<1>1. Sending /\ Files
  BY TypeParts DEF Inv
<1>2. /\ pc = "chunks" /\ file' = [file EXCEPT !.chunk = TotalChunks]
      /\ file.chunk < TotalChunks /\ UNCHANGED <<pc, stack, chanVars>>
  BY DEF ReadStops, InChunkLoop
<1>3. /\ file = [data |-> file.data, chunk |-> file.chunk, offset |-> file.offset]
      /\ file.chunk \in 0 .. TotalChunks
  BY <1>1, <1>2 DEF Sending
<1>4. /\ file'.data = file.data /\ file'.chunk = TotalChunks /\ file'.offset = file.offset
      /\ file' = [data |-> file'.data, chunk |-> file'.chunk, offset |-> file'.offset]
  BY <1>2, <1>3
<1>5. FileSize' = FileSize /\ TotalChunks' = TotalChunks
  BY <1>4 DEF FileSize, TotalChunks
<1>6. TotalChunks \in 0 .. TotalChunks
  <2>1. FileSize \in Nat
    BY <1>2 DEF Inv, FileInv
  <2>2. TotalChunks \in Nat
    BY <2>1, SizesAssumption DEF TotalChunks
  <2> QED
    BY <2>2
<1>7. Sending'
  BY <1>1, <1>2, <1>4, <1>5, <1>6 DEF Sending
<1>8. faults' \in 0 .. MaxFaults
  BY <1>1, FaultsStep DEF ReadStops, Files
<1> QED
  BY <1>2, <1>4, <1>7, <1>8, QuietStep

\* Steps that only change where the sender is.
LEMMA GoOnStep ==
  ASSUME Inv, UNCHANGED <<job, up, fileVars>>, FileSent \/ Finish \/ SenderLoses
  PROVE  Inv'
<1>1. Sending /\ Files
  BY TypeParts DEF Inv
<1>2. /\ UNCHANGED <<stack, file, chanVars>> /\ Works
      /\ pc' \in {"end", "walk", "done", "failed"} /\ (pc' = "walk" => stack # <<>>)
  BY DEF FileSent, Finish, SenderLoses, Return
<1>3. Sending' /\ faults' \in 0 .. MaxFaults
  BY <1>1, <1>2 DEF Sending, Works, Files
<1> QED
  BY <1>2, <1>3, QuietStep

LEMMA SenderStep == ASSUME Inv, Sender PROVE Inv'
<1>1. UNCHANGED <<job, up, fileVars>>
  BY DEF Sender
<1>2. ASSUME NEW n \in 1 .. ChunkSize, SendChunk(n) PROVE Inv'
  BY <1>1, <1>2, SendChunkStep
<1> QED
  BY <1>1, <1>2, SenderRunStep, EntryStep, LeaveDirectoryStep, SendLinkTextStep,
     ReadStopsStep, GoOnStep, SendEndStep DEF Sender

-----------------------------------------------------------------------------
(* The theorems.                                                           *)

LEMMA InitInv == Init => Inv
<1> SUFFICES ASSUME Init PROVE Inv
  OBVIOUS
<1>1. /\ Files /\ Sending
  <2>1. job \in Jobs /\ IsTree(job.old) /\ AllUnmixed(job.old)
    BY JobsAssumption DEF Init
  <2> QED
    <3>1. <<>> \in Path /\ <<>> \in Seq(Call)
      BY EmptySeq DEF Path
    <3>2. Files
      <4>1. IsTree(tree) /\ AllUnmixed(tree)
        BY <2>1, Zenon DEF Init
      <4>2. /\ current_fd = NoFd /\ current_path \in Path /\ completed \in BOOLEAN
            /\ meta_type \in Type
        BY <3>1 DEF Init, Type
      <4>3. faults \in 0 .. MaxFaults
        BY SizesAssumption DEF Init
      <4> QED
        BY <4>1, <4>2, <4>3 DEF Files
    <3>3. Sending
      BY <2>1, <3>1 DEF Init, Sending, Call
    <3> QED
      BY <3>2, <3>3
<1>2. /\ Chan!TypeOK /\ Chan!DeliveredIsPrefix /\ Chan!AckedIsDelivered
      /\ sent = <<>> /\ delivered = <<>> /\ Len(sent) = 0 /\ Len(delivered) = 0
  BY EmptySeq DEF Init, Chan!Init, Chan!TypeOK, Chan!DeliveredIsPrefix, Chan!AckedIsDelivered
<1>3. PacketInv /\ ReceiverInv
  BY <1>2 DEF Init, PacketInv, ReceiverInv
<1>4. LinkInv /\ FileInv
  BY DEF Init, LinkInv, FileInv
<1> QED
  BY <1>1, <1>2, <1>3, <1>4, TypeParts DEF Inv

LEMMA AcknowledgeStep ==
  ASSUME Inv, Acknowledge \/ LoseConnection \/ UNCHANGED vars
  PROVE  Inv'
<1>1. Sending /\ Chan!TypeOK /\ Files
  BY TypeParts DEF Inv
<1>2. /\ UNCHANGED <<job, pc, stack, file, sent, delivered>>
      /\ UNCHANGED <<tree, current_fd, current_path, meta_type, completed>>
      /\ up' \in BOOLEAN /\ faults' \in 0 .. MaxFaults
      /\ acked' \in Nat /\ acked' <= Len(delivered)
  <2>1. up \in BOOLEAN /\ faults \in 0 .. MaxFaults /\ acked \in Nat /\ acked <= Len(delivered)
    BY <1>1 DEF Sending, Files, Chan!TypeOK, Inv, Chan!AckedIsDelivered
  <2>2. CASE Acknowledge
    <3>1. Len(delivered) \in Nat
      BY <1>1, LenProperties DEF Chan!TypeOK
    <3> QED
      BY <2>1, <2>2, <3>1 DEF Acknowledge, Chan!Ack, sendVars, fileVars
  <2>3. CASE LoseConnection
    <3>1. faults' \in 0 .. MaxFaults
      BY <2>1, <2>3, FaultsStep DEF LoseConnection
    <3> QED
      BY <2>1, <2>3, <3>1 DEF LoseConnection, sendVars, chanVars, fileVars
  <2>4. CASE UNCHANGED vars
    BY <2>1, <2>4 DEF vars, sendVars, chanVars, fileVars
  <2> QED
    BY <2>2, <2>3, <2>4
<1>3. Sending' /\ Files'
  BY <1>1, <1>2 DEF Sending, Files, TotalChunks, FileSize
<1>4. (Chan!TypeOK)' /\ (Chan!DeliveredIsPrefix)' /\ (Chan!AckedIsDelivered)'
  BY <1>1, <1>2 DEF Inv, Chan!TypeOK, Chan!DeliveredIsPrefix, Chan!AckedIsDelivered
<1>5. /\ \A m : MetaOf(m, Len(sent))' = MetaOf(m, Len(sent))
      /\ \A m : MetaOf(m, Len(delivered))' = MetaOf(m, Len(delivered))
  BY <1>2 DEF MetaOf
<1>6. \A k : IsData(k)' = IsData(k)
  BY <1>2 DEF IsData
<1>7. \A m : OpenData(m, Len(delivered))' = OpenData(m, Len(delivered))
  BY <1>2 DEF OpenData, IsData
<1>8. PacketInv' /\ LinkInv'
  BY <1>2 DEF Inv, PacketInv, LinkInv, MetaOf, IsData
<1>9. FileInv'
  BY <1>2, <1>5, <1>6 DEF Inv, FileInv, FileSize
<1>10. ReceiverInv'
  BY <1>2, <1>5, <1>7 DEF Inv, ReceiverInv
<1> QED
  BY <1>3, <1>4, <1>8, <1>9, <1>10, TypePartsNext DEF Inv

LEMMA NextInv == Inv /\ [Next]_vars => Inv'
BY SenderStep, ReceiveStep, AcknowledgeStep DEF Next

LEMMA SpecInv == Spec => []Inv
BY InitInv, NextInv, PTL DEF Spec

\* Whatever names are cut off or are in the way, whatever fails and wherever
\* the connection is lost: mkdir, unlink, symlink, open and write of the
\* receiver (scp_rdma_receiver.c:181-303) leave a tree, and all variables have
\* their types.
THEOREM TypeSafe == Spec => []TypeOK
<1>1. Inv => TypeOK
  BY DEF Inv
<1> QED
  BY <1>1, SpecInv, PTL

\* No file of the receiver ever holds data of two files or data at an offset it
\* did not come from, although failures of open and write are only printed and
\* the packets after them are processed (scp_rdma_receiver.c:214-228, :262).
THEOREM NeverMixed == Spec => []NoMixture
<1>1. Inv => NoMixture
  BY DEF Inv
<1> QED
  BY <1>1, SpecInv, PTL

-----------------------------------------------------------------------------
(* The channel.                                                            *)

\* A step of the sender announces one packet or none.
LEMMA OneAnnounced ==
  ASSUME Sender
  PROVE  (\E packet : Announce(packet)) \/ UNCHANGED chanVars
<1>1. ASSUME NEW node, NEW path, NEW name, NEW calls, Send(node, path, name, calls)
      PROVE  (\E packet : Announce(packet)) \/ UNCHANGED chanVars
  BY <1>1 DEF Send, SendDirectory, SendSymlink, SendFile, SendFails
<1>2. ASSUME NEW n \in Name, SendEntry(n) \/ SkipEntry(n)
      PROVE  (\E packet : Announce(packet)) \/ UNCHANGED chanVars
  BY <1>1, <1>2 DEF SendEntry, SkipEntry
<1>3. ASSUME NEW n \in 1 .. ChunkSize, SendChunk(n) PROVE \E packet : Announce(packet)
  BY <1>3 DEF SendChunk
<1>4. SenderRun => (\E packet : Announce(packet)) \/ UNCHANGED chanVars
  BY <1>1 DEF SenderRun
<1>5. LeaveDirectory \/ SendLinkText \/ SendEnd => \E packet : Announce(packet)
  BY DEF LeaveDirectory, SendLinkText, SendEnd
<1>6. ReadStops \/ FileSent \/ Finish \/ SenderLoses => UNCHANGED chanVars
  BY DEF ReadStops, FileSent, Finish, SenderLoses
<1> QED
  BY <1>2, <1>3, <1>4, <1>5, <1>6 DEF Sender

LEMMA ChannelStep == Inv /\ Inv' /\ [Next]_vars => [Chan!Next]_chanVars
<1> SUFFICES ASSUME Inv, Inv', [Next]_vars PROVE Chan!Next \/ UNCHANGED chanVars
  OBVIOUS
<1>1. sent \in Seq(Packet) /\ sent' \in Seq(Packet) /\ Len(sent) \in Nat /\ acked \in Nat
  BY LenProperties DEF Inv, Chan!TypeOK, TypeOK
<1>2. ASSUME NEW packet, Announce(packet) PROVE Chan!Send
  <2>1. /\ sent' = Append(sent, packet) /\ Len(sent) - acked < Window
        /\ UNCHANGED <<delivered, acked>>
    BY <1>2 DEF Announce, SlotFree
  <2>2. Len(sent') = Len(sent) + 1 /\ \A i \in 1 .. Len(sent) : sent'[i] = sent[i]
    BY <1>1, <2>1
  <2> QED
    BY <1>1, <2>1, <2>2 DEF Chan!Send
<1>3. CASE Sender
  BY <1>2, <1>3, OneAnnounced DEF Chan!Next
<1>4. CASE Receive \/ Acknowledge
  BY <1>4 DEF Receive, Acknowledge, Chan!Next
<1>5. CASE LoseConnection \/ UNCHANGED vars
  BY <1>5 DEF LoseConnection, vars
<1> QED
  BY <1>3, <1>4, <1>5 DEF Next

\* The traversal and the file system use the channel as the pipeline implements
\* it (ScpPipelineProofs): they announce packets of the protocol into a window
\* that is not full (scp_rdma_sender.c:174, :483), process them in order, and see
\* acknowledgements of what has been processed.
THEOREM UsesChannel == Spec => Chan!Spec
<1>1. Init => Chan!Init
  BY DEF Init
<1>2. Inv /\ Inv' /\ [Next]_vars => [Chan!Next]_chanVars
  BY ChannelStep
<1> QED
  BY <1>1, <1>2, SpecInv, PTL DEF Spec, Chan!Spec, Chan!chanVars, chanVars

=============================================================================
