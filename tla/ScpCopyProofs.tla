---------------------------- MODULE ScpCopyProofs ----------------------------
(***************************************************************************)
(* A transfer in which nothing fails, to a place where nothing is in the   *)
(* way, makes the copy that its success message is about (CopyFaithful).   *)
(***************************************************************************)
EXTENDS ScpVisitProofs, ScpAnnounceProofs

-----------------------------------------------------------------------------
(* The names of the copies.                                                *)

LEMMA CutIs ==
  ASSUME NEW p \in Path
  PROVE  /\ Cut(p) \in Path /\ Len(Cut(p)) \in 0 .. Len(p) /\ Len(p) \in Nat
         /\ Len(Cut(p)) <= NameLen /\ Cut(p) = SubSeq(p, 1, Len(Cut(p)))
         /\ Len(Cut(p)) < NameLen => Cut(p) = p
<1> DEFINE n == IF Len(p) < NameLen THEN Len(p) ELSE NameLen
<1>1. /\ n \in 0 .. Len(p) /\ Len(p) \in Nat /\ n <= NameLen
      /\ n < NameLen => n = Len(p)
  BY SizesAssumption, WholePath
<1>2. Cut(p) = SubSeq(p, 1, n)
  BY DEF Cut
<1> HIDE DEF n
<1>3. Cut(p) \in Path /\ Len(Cut(p)) = n
  BY <1>1, <1>2, Beginning
<1>4. Len(Cut(p)) < NameLen => Cut(p) = p
  BY <1>1, <1>2, <1>3, WholePath
<1> QED
  BY <1>1, <1>2, <1>3, <1>4

LEMMA Remote ==
  ASSUME job \in Jobs, NEW q \in Visited
  PROVE  LET l == Len(job.local)
             f == Len(FinalPath)
         IN  /\ RemoteName(q) \in Path /\ l \in Nat /\ f \in Nat /\ Len(q) \in Nat
             /\ l <= Len(q) /\ Len(RemoteName(q)) = f + Len(q) - l
             /\ \A i \in 1 .. Len(q) - l : RemoteName(q)[f + i] = q[l + i]
             /\ \A i \in 1 .. l : q[i] = job.local[i]
             /\ Target(q) = Cut(RemoteName(q)) /\ Target(q) \in Path
<1> DEFINE l == Len(job.local)
           f == Len(FinalPath)
           e == SubSeq(q, l + 1, Len(q))
<1>1. /\ q \in Path /\ job.local \in Path /\ FinalPath \in Path
      /\ Len(q) \in Nat /\ l \in Nat /\ l <= Len(q) /\ SubSeq(q, 1, l) = job.local
  BY VisitedBelow, SourcePaths
<1>2. l \in 0 .. Len(q)
  BY <1>1
<1>3. e \in Path /\ Len(e) = Len(q) - l /\ \A i \in 1 .. Len(q) - l : e[i] = q[l + i]
  BY <1>1, <1>2, Ending
<1>4. \A i \in 1 .. l : q[i] = job.local[i]
  BY <1>1, <1>2, Beginning
<1>5. RemoteName(q) = FinalPath \o e
  BY DEF RemoteName
<1> HIDE DEF e
<1>6. /\ RemoteName(q) \in Path /\ f \in Nat /\ Len(RemoteName(q)) = f + Len(e)
      /\ \A i \in 1 .. f + Len(e) :
           RemoteName(q)[i] = IF i <= f THEN FinalPath[i] ELSE e[i - f]
  <2>1. e \in Path /\ FinalPath \in Path
    BY <1>1, <1>3
  <2>2. /\ FinalPath \o e \in Path /\ f \in Nat /\ Len(FinalPath \o e) = f + Len(e)
        /\ \A i \in 1 .. f + Len(e) :
             (FinalPath \o e)[i] = IF i <= f THEN FinalPath[i] ELSE e[i - f]
    BY <2>1, ConcatPath
  <2> QED
    BY <1>5, <2>2, Zenon
<1> HIDE DEF l, f
<1>7. ASSUME NEW i \in 1 .. Len(q) - l PROVE RemoteName(q)[f + i] = q[l + i]
  <2>1. f + i \in 1 .. f + Len(e) /\ ~(f + i <= f) /\ f + i - f = i
    BY <1>1, <1>3, <1>6
  <2>2. RemoteName(q)[f + i] = e[f + i - f]
    BY <1>6, <2>1
  <2>3. e[i] = q[l + i]
    BY <1>3
  <2> QED
    BY <2>1, <2>2, <2>3
<1>8. Len(RemoteName(q)) = f + Len(q) - l
  BY <1>1, <1>3, <1>6
<1>9. Target(q) = Cut(RemoteName(q)) /\ Target(q) \in Path
  BY <1>6, CutPath DEF Target, RemoteName
<1> QED
  BY <1>1, <1>4, <1>6, <1>7, <1>8, <1>9 DEF l, f

LEMMA RemoteOfLocal == ASSUME job \in Jobs PROVE RemoteName(job.local) = FinalPath
<1>1. job.local \in Path /\ FinalPath \in Path /\ Len(job.local) \in Nat
  BY SourcePaths, WholePath
<1>2. Len(job.local) \in 0 .. Len(job.local)
  BY <1>1
<1>3. /\ SubSeq(job.local, Len(job.local) + 1, Len(job.local)) \in Path
      /\ Len(SubSeq(job.local, Len(job.local) + 1, Len(job.local))) =
           Len(job.local) - Len(job.local)
  BY <1>1, <1>2, Ending
<1>4. SubSeq(job.local, Len(job.local) + 1, Len(job.local)) = <<>>
  BY <1>1, <1>3, EmptySeq DEF Path
<1> QED
  BY <1>1, <1>4, ConcatEmptySeq DEF RemoteName, Path

LEMMA RemoteOfEntry ==
  ASSUME job \in Jobs, NEW q \in Visited, NEW n \in Name
  PROVE  RemoteName(Append(q, n)) = Append(RemoteName(q), n)
<1> DEFINE l == Len(job.local)
           e == SubSeq(q, l + 1, Len(q))
<1>1. /\ q \in Path /\ FinalPath \in Path /\ l \in 0 .. Len(q)
  BY VisitedBelow, SourcePaths
<1>2. e \in Path /\ <<n>> \in Path /\ Append(q, n) = q \o <<n>>
  BY <1>1, AppendPath, Ending
<1>3. PICK s \in Path : s = <<n>>
  BY <1>2
<1>4. SubSeq(q \o s, l + 1, Len(q \o s)) = e \o s
  BY <1>1, EndingOfConcat
<1> HIDE DEF e, l
<1>5. FinalPath \o (e \o s) = (FinalPath \o e) \o s
  BY <1>1, <1>2, <1>3, ConcatThree
<1>6. RemoteName(Append(q, n)) = FinalPath \o (e \o s)
  BY <1>2, <1>3, <1>4 DEF RemoteName, l
<1>7. RemoteName(q) = FinalPath \o e
  BY DEF RemoteName, e, l
<1>8. FinalPath \o e \in Path
  BY <1>1, <1>2, ConcatPath
<1>9. Append(FinalPath \o e, n) = (FinalPath \o e) \o <<n>>
  BY <1>8, AppendPath
<1> QED
  BY <1>3, <1>5, <1>6, <1>7, <1>9

\* A copy in whose name the beginning of another copy's is, is a directory.
LEMMA TargetAbove ==
  ASSUME job \in Jobs, NEW q \in Visited, NEW r \in Visited, NEW k \in 0 .. Len(Target(q)) - 1,
         Target(r) = SubSeq(Target(q), 1, k)
  PROVE  Dir \in Found(r)
<1> DEFINE l == Len(job.local)
           f == Len(FinalPath)
           Q == RemoteName(q)
           R == RemoteName(r)
<1>1. /\ Q \in Path /\ l \in Nat /\ f \in Nat /\ Len(q) \in Nat
      /\ l <= Len(q) /\ Len(Q) = f + Len(q) - l
      /\ \A i \in 1 .. Len(q) - l : Q[f + i] = q[l + i]
      /\ \A i \in 1 .. l : q[i] = job.local[i]
      /\ Target(q) = Cut(Q) /\ Target(q) \in Path
  BY Remote
<1>2. /\ R \in Path /\ Len(r) \in Nat /\ l <= Len(r) /\ Len(R) = f + Len(r) - l
      /\ \A i \in 1 .. Len(r) - l : R[f + i] = r[l + i]
      /\ \A i \in 1 .. l : r[i] = job.local[i]
      /\ Target(r) = Cut(R) /\ Target(r) \in Path
  BY Remote
<1> HIDE DEF Q, R, f, l
<1> DEFINE t == Len(Target(q))
<1>3. t \in 0 .. Len(Q) /\ t <= NameLen /\ Target(q) = SubSeq(Q, 1, t) /\ NameLen \in Nat
  BY <1>1, CutIs, SizesAssumption
<1> HIDE DEF t
<1>4. k \in 0 .. t - 1
  BY DEF t
<1>5. SubSeq(Target(q), 1, k) = SubSeq(Q, 1, k) /\ k \in 0 .. Len(Q)
  <2>1. k \in 0 .. t
    BY <1>1, <1>3, <1>4
  <2>2. SubSeq(SubSeq(Q, 1, t), 1, k) = SubSeq(Q, 1, k)
    BY <1>1, <1>3, <2>1, BeginningOfBeginning
  <2> QED
    BY <1>1, <1>3, <1>4, <2>2
<1>6. Len(Cut(R)) = k /\ \A i \in 1 .. k : Cut(R)[i] = Q[i]
  <2>1. Cut(R) = SubSeq(Q, 1, k)
    BY <1>2, <1>5
  <2>2. Len(SubSeq(Q, 1, k)) = k /\ \A i \in 1 .. k : SubSeq(Q, 1, k)[i] = Q[i]
    BY <1>1, <1>5, Beginning
  <2> QED
    BY <2>1, <2>2
<1>7. Cut(R) = R
  <2>1. k < NameLen
    BY <1>1, <1>3, <1>4
  <2> QED
    BY <1>2, <1>6, <2>1, CutIs
<1>8. k = f + Len(r) - l /\ \A i \in 1 .. k : R[i] = Q[i]
  BY <1>2, <1>6, <1>7
<1> DEFINE m == Len(r)
<1>9. r \in Path /\ q \in Path
  BY VisitedBelow
<1>10. m \in l .. Len(q) - 1 /\ m \in 0 .. Len(q)
  BY <1>1, <1>2, <1>3, <1>4, <1>8
<1>11. /\ SubSeq(q, 1, m) \in Path /\ Len(SubSeq(q, 1, m)) = m
       /\ \A i \in 1 .. m : SubSeq(q, 1, m)[i] = q[i]
  BY <1>9, <1>10, Beginning
<1>12. ASSUME NEW i \in 1 .. m PROVE r[i] = q[i]
  <2>1. CASE i <= l
    BY <1>1, <1>2, <2>1
  <2>2. CASE i > l
    <3> DEFINE j == i - l
    <3>1. /\ j \in 1 .. Len(r) - l /\ j \in 1 .. Len(q) - l /\ f + j \in 1 .. k
          /\ l + j = i
      BY <1>1, <1>2, <1>8, <1>10, <2>2
    <3> HIDE DEF j
    <3>2. r[l + j] = R[f + j] /\ q[l + j] = Q[f + j] /\ R[f + j] = Q[f + j]
      BY <1>1, <1>2, <1>8, <3>1
    <3> QED
      BY <3>1, <3>2
  <2>3. i <= l \/ i > l
    BY <1>1, <1>2
  <2> QED
    BY <2>1, <2>2, <2>3
<1>13. r = SubSeq(q, 1, m)
  BY <1>2, <1>9, <1>11, <1>12, SamePath
<1>14. Dir \in Found(SubSeq(q, 1, m))
  BY <1>10, VisitedBelow DEF l
<1> QED
  BY <1>13, <1>14

-----------------------------------------------------------------------------
(* Paths with nothing in the way.                                          *)

\* What is there of the first n directories of a path is directories.
Clear(fs, p, n) ==
  \A i \in 1 .. n : SubSeq(p, 1, i) \in DOMAIN fs => fs[SubSeq(p, 1, i)] = Dir

LEMMA ClearLinks ==
  ASSUME NEW fs, NEW p \in Path, NEW n \in 0 .. Len(p), Clear(fs, p, n)
  PROVE  LinksOn(fs, SubSeq(p, 1, n)) = {}
<1> DEFINE a == SubSeq(p, 1, n)
<1>1. a \in Path /\ Len(a) = n
  BY Beginning
<1>2. \A i \in 1 .. n : SubSeq(a, 1, i) = SubSeq(p, 1, i)
  BY BeginningOfBeginning
<1>3. \A i \in 1 .. n : ~IsKind(fs, SubSeq(p, 1, i), "link")
  BY DEF Clear, IsKind, Dir
<1> HIDE DEF a
<1> QED
  BY <1>1, <1>2, <1>3, Zenon DEF LinksOn, a

LEMMA ClearParent ==
  ASSUME NEW fs, IsTree(fs), NEW p \in Path, Clear(fs, p, Len(p) - 1)
  PROVE  FollowParent(fs, p) = {p}
<1>1. CASE p = <<>>
  BY <1>1 DEF FollowParent
<1>2. CASE p # <<>>
  <2>1. /\ Len(p) - 1 \in 0 .. Len(p) /\ Front(p) \in Path
        /\ Front(p) = SubSeq(p, 1, Len(p) - 1) /\ Append(Front(p), Last(p)) = p
    BY <1>2, FrontAppend
  <2>2. LinksOn(fs, Front(p)) = {}
    BY <2>1, ClearLinks
  <2>3. Follow(fs, Front(p)) = {Front(p)}
    BY <2>1, <2>2, NoLinks
  <2> QED
    BY <1>2, <2>1, <2>3 DEF FollowParent
<1> QED
  BY <1>1, <1>2

LEMMA ClearFollow ==
  ASSUME NEW fs, IsTree(fs), NEW p \in Path, Clear(fs, p, Len(p) - 1), ~IsKind(fs, p, "link")
  PROVE  Follow(fs, p) = {p}
<1>1. Len(p) \in Nat /\ SubSeq(p, 1, Len(p)) = p
  BY WholePath
<1>2. ASSUME NEW i \in 1 .. Len(p) PROVE ~IsKind(fs, SubSeq(p, 1, i), "link")
  <2>1. CASE i = Len(p)
    BY <1>1, <2>1
  <2>2. CASE i # Len(p)
    <3>1. Len(p) \in Nat
      BY <1>1
    <3>2. i \in 1 .. Len(p) - 1
      BY <2>2, <3>1
    <3> QED
      BY <3>2 DEF Clear, IsKind, Dir
  <2> QED
    BY <2>1, <2>2
<1>3. LinksOn(fs, p) = {}
  BY <1>2 DEF LinksOn
<1> QED
  BY <1>3, NoLinks

LEMMA ClearLess ==
  ASSUME NEW fs, NEW p, NEW n \in Nat, Clear(fs, p, n), NEW k \in Int, k <= n
  PROVE  Clear(fs, p, k)
<1>1. 1 .. k \subseteq 1 .. n
  OBVIOUS
<1> QED
  BY <1>1 DEF Clear

LEMMA ClearBeginning ==
  ASSUME NEW fs, NEW p \in Path, NEW n \in 0 .. Len(p), Clear(fs, p, n)
  PROVE  Clear(fs, SubSeq(p, 1, n), n)
<1>1. \A i \in 1 .. n : SubSeq(SubSeq(p, 1, n), 1, i) = SubSeq(p, 1, i)
  BY BeginningOfBeginning
<1> QED
  BY <1>1, Zenon DEF Clear

LEMMA ClearLstat ==
  ASSUME NEW fs, IsTree(fs), NEW p \in Path, Clear(fs, p, Len(p) - 1)
  PROVE  Lstat(fs, p) = IF p \in DOMAIN fs THEN {fs[p]} ELSE {}
<1>1. FollowParent(fs, p) = {p}
  BY ClearParent
<1> QED
  BY <1>1 DEF Lstat

\* All directories of the path are there after mkdir, and nothing else changes.
Filled(fs, p, n) ==
  [x \in DOMAIN fs \cup {SubSeq(p, 1, i) : i \in 1 .. n} |->
     IF x \in DOMAIN fs THEN fs[x] ELSE Dir]

LEMMA MkDirsClear ==
  ASSUME NEW fs, IsTree(fs), NEW p \in Path, NEW n \in 0 .. Len(p), Clear(fs, p, n)
  PROVE  MkDirs(fs, p, n) = Filled(fs, p, n)
<1> DEFINE missing == {i \in 1 .. n : Lstat(fs, SubSeq(p, 1, i)) = {}}
           first == Min(missing)
           top == SubSeq(p, 1, first)
           tops == {q \in FollowParent(fs, top) : CanMake(fs, q)}
           name(q, i) == q \o SubSeq(p, first + 1, i)
           made == IF missing = {} THEN {} ELSE {name(q, i) : q \in tops, i \in first .. n}
           all == {SubSeq(p, 1, i) : i \in 1 .. n}
<1>1. ASSUME NEW i \in 1 .. n
      PROVE  /\ SubSeq(p, 1, i) \in Path /\ Len(SubSeq(p, 1, i)) = i
             /\ Clear(fs, SubSeq(p, 1, i), i - 1)
             /\ FollowParent(fs, SubSeq(p, 1, i)) = {SubSeq(p, 1, i)}
             /\ i \in missing <=> SubSeq(p, 1, i) \notin DOMAIN fs
  <2>1. i \in 0 .. Len(p) /\ i \in Nat /\ n \in Nat /\ i <= n
    BY WholePath
  <2>2. SubSeq(p, 1, i) \in Path /\ Len(SubSeq(p, 1, i)) = i
    BY <2>1, Beginning
  <2>3. Clear(fs, SubSeq(p, 1, i), i - 1)
    <3>1. Clear(fs, p, i)
      BY <2>1, ClearLess
    <3>2. Clear(fs, SubSeq(p, 1, i), i)
      BY <2>1, <3>1, ClearBeginning
    <3> QED
      BY <2>1, <3>2, ClearLess
  <2>4. FollowParent(fs, SubSeq(p, 1, i)) = {SubSeq(p, 1, i)}
    BY <2>2, <2>3, ClearParent
  <2>5. Lstat(fs, SubSeq(p, 1, i)) =
          IF SubSeq(p, 1, i) \in DOMAIN fs THEN {fs[SubSeq(p, 1, i)]} ELSE {}
    BY <2>2, <2>3, ClearLstat
  <2> QED
    BY <2>2, <2>3, <2>4, <2>5
<1>2. made \subseteq all /\ DOMAIN fs \cup made = DOMAIN fs \cup all
  <2>1. CASE missing = {}
    <3>1. made = {} /\ \A i \in 1 .. n : SubSeq(p, 1, i) \in DOMAIN fs
      BY <1>1, <2>1
    <3> HIDE DEF made
    <3> QED
      BY <3>1
  <2>2. CASE missing # {}
    <3>1. first \in missing /\ (\A i \in missing : first <= i) /\ first \in 1 .. n
      <4>1. missing \subseteq Nat
        OBVIOUS
      <4> QED
        BY <2>2, <4>1, MinNat
    <3> HIDE DEF missing, first
    <3>2. top \notin DOMAIN fs /\ top \in Path /\ Len(top) = first /\ FollowParent(fs, top) = {top}
      BY <1>1, <3>1
    <3>3. CanMake(fs, top)
      <4>1. first - 1 \in 0 .. n /\ first \in 0 .. Len(p) /\ first - 1 \in 0 .. first /\ n \in Nat
        BY <3>1, WholePath
      <4>2. top # <<>> /\ Front(top) = SubSeq(p, 1, first - 1)
        <5>1. top # <<>>
          BY <3>1, <3>2, EmptySeq
        <5>2. Front(top) = SubSeq(top, 1, first - 1)
          BY <3>2, <5>1, FrontAppend
        <5>3. SubSeq(top, 1, first - 1) = SubSeq(p, 1, first - 1)
          BY <4>1, BeginningOfBeginning
        <5> QED
          BY <5>1, <5>2, <5>3
      <4>3. IsKind(fs, SubSeq(p, 1, first - 1), "dir")
        <5>1. CASE first = 1
          <6>1. Len(SubSeq(p, 1, first - 1)) = 0 /\ SubSeq(p, 1, first - 1) \in Path
            BY <4>1, <5>1, Beginning, WholePath
          <6>2. SubSeq(p, 1, first - 1) = <<>>
            BY <6>1, EmptySeq DEF Path
          <6>3. IsKind(fs, <<>>, "dir")
            BY DEF IsTree, IsKind, Dir
          <6> QED
            BY <6>2, <6>3, Zenon
        <5>2. CASE first # 1
          <6>1. first - 1 \in 1 .. n
            BY <3>1, <5>2
          <6>2. first - 1 \notin missing
            BY <3>1
          <6>3. SubSeq(p, 1, first - 1) \in DOMAIN fs
            BY <1>1, <6>1, <6>2
          <6> QED
            BY <6>1, <6>3 DEF Clear, IsKind, Dir
        <5> QED
          BY <5>1, <5>2
      <4> QED
        BY <3>2, <4>2, <4>3 DEF CanMake
    <3>4. \A i \in first .. n : top \o SubSeq(p, first + 1, i) = SubSeq(p, 1, i)
      <4> SUFFICES ASSUME NEW i \in first .. n
                   PROVE  top \o SubSeq(p, first + 1, i) = SubSeq(p, 1, i)
        OBVIOUS
      <4> DEFINE x == SubSeq(p, 1, i)
      <4>1. i \in 0 .. Len(p) /\ first \in 0 .. i /\ i \in Nat /\ Len(p) \in Nat
        BY <3>1, WholePath
      <4>2. x \in Path /\ Len(x) = i /\ \A j \in 1 .. i : x[j] = p[j]
        BY <4>1, Beginning
      <4>3. top \in Path /\ Len(top) = first /\ \A j \in 1 .. first : top[j] = p[j]
        BY <3>1, <3>2, <4>1, Beginning
      <4> DEFINE e == SubSeq(p, first + 1, i)
      <4>4. /\ e \in Path /\ Len(e) = i - first
            /\ \A j \in 1 .. i - first : e[j] = p[first + j]
        <5>1. first + 1 \in Nat \ {0} /\ i \in Nat /\ i <= Len(p)
          BY <4>1
        <5>2. /\ e \in Path /\ Len(e) = IF first + 1 <= i THEN i - (first + 1) + 1 ELSE 0
              /\ \A j \in 1 .. i - (first + 1) + 1 : e[j] = p[(first + 1) + j - 1]
          BY <5>1, PartOfPath
        <5>3. \A j \in 1 .. i - first :
                j \in 1 .. i - (first + 1) + 1 /\ (first + 1) + j - 1 = first + j
          BY <4>1
        <5> QED
          BY <4>1, <5>2, <5>3
      <4> HIDE DEF top, x, e
      <4>5. /\ top \o e \in Path /\ Len(top \o e) = Len(top) + Len(e)
            /\ \A j \in 1 .. Len(top) + Len(e) :
                 (top \o e)[j] = IF j <= Len(top) THEN top[j] ELSE e[j - Len(top)]
        BY <4>3, <4>4, ConcatPath
      <4>6. ASSUME NEW j \in 1 .. i PROVE (top \o e)[j] = x[j]
        <5>1. CASE j <= first
          BY <4>1, <4>2, <4>3, <4>4, <4>5, <5>1
        <5>2. CASE ~(j <= first)
          <6>1. j - first \in 1 .. i - first /\ first + (j - first) = j
            BY <4>1, <5>2
          <6>2. e[j - first] = p[j]
            BY <4>4, <6>1
          <6>3. j \in 1 .. Len(top) + Len(e) /\ j - Len(top) = j - first /\ ~(j <= Len(top))
            BY <4>1, <4>3, <4>4, <5>2
          <6>4. (top \o e)[j] = e[j - first]
            BY <4>5, <6>3
          <6>5. x[j] = p[j]
            BY <4>2
          <6> QED
            BY <6>2, <6>4, <6>5
        <5> QED
          BY <5>1, <5>2
      <4>7. Len(top \o e) = i
        BY <4>1, <4>3, <4>4, <4>5
      <4>8. top \o e = x
        BY <4>2, <4>5, <4>6, <4>7, SamePath
      <4> QED
        BY <4>8 DEF x, e
    <3>5. made = {SubSeq(p, 1, i) : i \in first .. n}
      <4>1. tops = {top}
        BY <3>2, <3>3
      <4>2. \A i \in first .. n : name(top, i) = SubSeq(p, 1, i)
        BY <3>4
      <4> HIDE DEF top, tops, name
      <4>3. made = {name(q, i) : q \in tops, i \in first .. n}
        BY <2>2
      <4> HIDE DEF made
      <4>4. ASSUME NEW x \in made PROVE x \in {SubSeq(p, 1, i) : i \in first .. n}
        <5>1. PICK q \in tops, i \in first .. n : x = name(q, i)
          BY <4>3
        <5>2. x = name(top, i)
          BY <4>1, <5>1
        <5> QED
          BY <4>2, <5>1, <5>2
      <4>5. ASSUME NEW i \in first .. n PROVE SubSeq(p, 1, i) \in made
        <5>1. name(top, i) \in made
          BY <4>1, <4>3
        <5> QED
          BY <4>2, <5>1
      <4> QED
        BY <4>4, <4>5
    <3>6. \A i \in 1 .. n : i \in first .. n \/ SubSeq(p, 1, i) \in DOMAIN fs
      <4> SUFFICES ASSUME NEW i \in 1 .. n, i \notin first .. n
                   PROVE  SubSeq(p, 1, i) \in DOMAIN fs
        OBVIOUS
      <4>1. i \notin missing
        BY <3>1
      <4> QED
        BY <1>1, <4>1
    <3>7. first .. n \subseteq 1 .. n
      BY <3>1
    <3> HIDE DEF made
    <3> QED
      BY <3>5, <3>6, <3>7
  <2> HIDE DEF made, all
  <2> QED
    BY <2>1, <2>2
<1>3. \A x \in made : x \in DOMAIN fs => fs[x] = Dir
  <2> HIDE DEF made
  <2>1. \A x \in all : x \in DOMAIN fs => fs[x] = Dir
    BY DEF Clear
  <2> HIDE DEF all
  <2> QED
    BY <1>2, <2>1
<1>4. MkDirs(fs, p, n) = [x \in DOMAIN fs \cup made |-> IF x \in made THEN Dir ELSE fs[x]]
  BY DEF MkDirs
<1> HIDE DEF made, all
<1>5. \A x \in DOMAIN fs \cup made :
        (IF x \in made THEN Dir ELSE fs[x]) = IF x \in DOMAIN fs THEN fs[x] ELSE Dir
  BY <1>3
<1> QED
  BY <1>2, <1>4, <1>5, Zenon DEF Filled, all

LEMMA FilledIs ==
  ASSUME NEW fs, IsTree(fs), NEW p \in Path, NEW n \in 0 .. Len(p), Clear(fs, p, n)
  PROVE  /\ \A x \in DOMAIN fs : x \in DOMAIN Filled(fs, p, n) /\ Filled(fs, p, n)[x] = fs[x]
         /\ \A x \in DOMAIN Filled(fs, p, n) \ DOMAIN fs :
              Filled(fs, p, n)[x] = Dir /\ \E i \in 1 .. n : x = SubSeq(p, 1, i)
         /\ \A i \in 0 .. n : IsKind(Filled(fs, p, n), SubSeq(p, 1, i), "dir")
         /\ \A i \in 0 .. n : Filled(fs, p, n)[SubSeq(p, 1, i)] = Dir
<1> DEFINE gs == Filled(fs, p, n)
           all == {SubSeq(p, 1, i) : i \in 1 .. n}
<1>1. /\ DOMAIN gs = DOMAIN fs \cup all
      /\ \A x \in DOMAIN fs \cup all : gs[x] = IF x \in DOMAIN fs THEN fs[x] ELSE Dir
  BY DEF Filled
<1>2. \A x : x \in all <=> \E i \in 1 .. n : x = SubSeq(p, 1, i)
  OBVIOUS
<1> HIDE DEF gs, all
<1>3. ASSUME NEW i \in 0 .. n
      PROVE  SubSeq(p, 1, i) \in DOMAIN gs /\ gs[SubSeq(p, 1, i)] = Dir
  <2>1. CASE i = 0
    <3>1. i \in 0 .. Len(p)
      BY <2>1, WholePath
    <3>2. Len(SubSeq(p, 1, i)) = 0 /\ SubSeq(p, 1, i) \in Path
      BY <2>1, <3>1, Beginning
    <3>3. SubSeq(p, 1, i) = <<>>
      BY <3>2, EmptySeq DEF Path
    <3>4. <<>> \in DOMAIN fs /\ fs[<<>>] = Dir
      BY DEF IsTree
    <3>5. <<>> \in DOMAIN gs /\ gs[<<>>] = Dir
      BY <1>1, <3>4
    <3> QED
      BY <3>3, <3>5, Zenon
  <2>2. CASE i # 0
    <3>1. i \in 1 .. n
      BY <2>2
    <3>2. SubSeq(p, 1, i) \in DOMAIN fs => fs[SubSeq(p, 1, i)] = Dir
      BY <3>1 DEF Clear
    <3>3. SubSeq(p, 1, i) \in all
      BY <1>2, <3>1
    <3> QED
      BY <1>1, <3>2, <3>3
  <2> QED
    BY <2>1, <2>2
<1>4. \A i \in 0 .. n : IsKind(gs, SubSeq(p, 1, i), "dir")
  BY <1>3 DEF IsKind, Dir
<1>5. \A x \in DOMAIN fs : x \in DOMAIN gs /\ gs[x] = fs[x]
  BY <1>1
<1>6. \A x \in DOMAIN gs \ DOMAIN fs : gs[x] = Dir /\ \E i \in 1 .. n : x = SubSeq(p, 1, i)
  BY <1>1, <1>2
<1> QED
  BY <1>3, <1>4, <1>5, <1>6 DEF gs

-----------------------------------------------------------------------------
(* What the receiver does with one packet when nothing fails.              *)

\* Apart from what is announced, only directories above it are made.
Spread(P) ==
  /\ DOMAIN tree \subseteq DOMAIN tree'
  /\ \A p \in DOMAIN tree' :
       \/ p = P
       \/ p \in DOMAIN tree /\ tree'[p] = tree[p]
       \/ /\ p \notin DOMAIN tree /\ tree'[p] = Dir
          /\ \E i \in 1 .. Len(P) - 1 : p = SubSeq(P, 1, i)

\* A job that can be done, and a tree in which it is being done.
Doing == job \in Jobs /\ Suitable /\ IsTree(tree) /\ AllUnmixed(tree) /\ TreeInv /\ faults = 0

LEMMA TargetClear ==
  ASSUME Doing, NEW q \in Visited
  PROVE  /\ Target(q) \in Path /\ Clear(tree, Target(q), Len(Target(q)) - 1)
         /\ Dir \in Found(q) => Clear(tree, Target(q), Len(Target(q)))
<1> DEFINE P == Target(q)
<1>1. P \in Path /\ Len(P) \in Nat /\ SubSeq(P, 1, Len(P)) = P
  <2>1. P \in Path
    BY Remote DEF Doing
  <2> QED
    BY <2>1, WholePath
<1>2. ASSUME NEW i \in 1 .. Len(P) - 1, SubSeq(P, 1, i) \in DOMAIN tree
      PROVE  tree[SubSeq(P, 1, i)] = Dir
  <2> DEFINE p == SubSeq(P, 1, i)
  <2>1. CASE \E r \in Visited : p = Target(r)
    <3>1. PICK r \in Visited : p = Target(r)
      BY <2>1
    <3>2. i \in 0 .. Len(Target(q)) - 1 /\ Target(r) = SubSeq(Target(q), 1, i)
      BY <1>1, <3>1
    <3>3. Dir \in Found(r)
      BY <3>2, TargetAbove DEF Doing
    <3> QED
      BY <1>2, <3>1, <3>3 DEF Doing, TreeInv
  <2>2. CASE p \in DOMAIN job.old /\ tree[p] = job.old[p]
    <3>1. ~IsKind(job.old, p, "file")
      BY DEF Doing, Suitable
    <3>2. ~IsKind(job.old, p, "link")
      <4>1. i \in 1 .. Len(Target(q)) /\ LinksOn(job.old, Target(q)) = {}
        BY <1>1 DEF Doing, Suitable
      <4> QED
        BY <4>1, Zenon DEF LinksOn
    <3>3. IsNode(tree[p])
      BY <1>2 DEF Doing, IsTree
    <3> HIDE DEF p
    <3>4. tree[p].kind \notin {"file", "link"}
      BY <2>2, <3>1, <3>2 DEF IsKind
    <3>5. tree[p] = Dir
      BY <3>3, <3>4, NodeKinds
    <3> QED
      BY <3>5 DEF p
  <2>3. \/ \E r \in Visited : p = Target(r)
        \/ p \in DOMAIN job.old /\ tree[p] = job.old[p]
        \/ tree[p] = Dir
    BY <1>2 DEF Doing, TreeInv
  <2> QED
    BY <2>1, <2>2, <2>3
<1>3. ASSUME Dir \in Found(q) PROVE Clear(tree, P, Len(P))
  <2>1. P \in DOMAIN tree => tree[P] = Dir
    BY <1>3 DEF Doing, TreeInv
  <2> HIDE DEF P
  <2>2. ASSUME NEW i \in 1 .. Len(P), SubSeq(P, 1, i) \in DOMAIN tree
        PROVE  tree[SubSeq(P, 1, i)] = Dir
    <3>1. CASE i = Len(P)
      BY <1>1, <2>1, <2>2, <3>1
    <3>2. CASE i # Len(P)
      <4>1. i \in 1 .. Len(P) - 1
        <5>1. Len(P) \in Nat
          BY <1>1
        <5> QED
          BY <3>2, <5>1
      <4> QED
        BY <1>2, <2>2, <4>1
    <3> QED
      BY <3>1, <3>2
  <2> QED
    BY <2>2 DEF Clear
<1> QED
  BY <1>1, <1>2, <1>3 DEF Clear

\* All mkdirs that are needed, when none fails.
LEMMA MadeAll ==
  ASSUME NEW path, faults = 0, NEW made \in MadeDirs(path), made.faults = 0
  PROVE  made.fs = MkDirs(tree, path, Len(path))
BY DEF MadeDirs

LEMMA FrontMade ==
  ASSUME Doing, NEW q \in Visited, Target(q) # <<>>,
         NEW made \in MadeDirs(Front(Target(q))), made.faults = 0
  PROVE  made.fs = Filled(tree, Target(q), Len(Target(q)) - 1)
<1> DEFINE P == Target(q)
           n == Len(P) - 1
           f == Front(P)
<1>1. P \in Path /\ Clear(tree, P, n)
  BY TargetClear
<1> HIDE DEF P
<1>2. n \in 0 .. Len(P) /\ f \in Path /\ f = SubSeq(P, 1, n) /\ Len(f) = n /\ n \in 0 .. Len(f)
  <2>1. P # <<>>
    BY DEF P
  <2>2. Len(P) \in Nat /\ Len(P) > 0 /\ f \in Path /\ f = SubSeq(P, 1, n)
    BY <1>1, <2>1, FrontAppend
  <2>3. n \in 0 .. Len(P)
    BY <2>2
  <2>4. Len(f) = n
    BY <1>1, <2>2, <2>3, Beginning
  <2> QED
    BY <2>2, <2>3, <2>4
<1>3. Clear(tree, f, n)
  BY <1>1, <1>2, ClearBeginning
<1>4. made.fs = MkDirs(tree, f, Len(f))
  BY MadeAll DEF Doing, P
<1>5. MkDirs(tree, f, n) = Filled(tree, f, n)
  BY <1>2, <1>3, MkDirsClear DEF Doing
<1> HIDE DEF f, n
<1>6. \A i \in 1 .. n : SubSeq(f, 1, i) = SubSeq(P, 1, i)
  BY <1>1, <1>2, BeginningOfBeginning
<1>7. {SubSeq(f, 1, i) : i \in 1 .. n} = {SubSeq(P, 1, i) : i \in 1 .. n}
  BY <1>6
<1>8. Filled(tree, f, n) = Filled(tree, P, n)
  BY <1>7, Zenon DEF Filled
<1> QED
  BY <1>2, <1>4, <1>5, <1>8 DEF P, n

LEMMA CopyDir ==
  ASSUME Doing, NEW q \in Visited, Dir \in Found(q), NEW packet,
         packet.name = Target(q), ReceiveDirEnter(packet), faults' = 0
  PROVE  Spread(Target(q)) /\ Target(q) \in DOMAIN tree' /\ tree'[Target(q)] = Dir
<1> DEFINE P == Target(q)
           n == Len(P)
<1>1. P \in Path /\ Clear(tree, P, n)
  BY TargetClear
<1>2. PICK made \in MadeDirs(P) : tree' = made.fs /\ made.faults = 0
  BY DEF ReceiveDirEnter
<1> HIDE DEF P
<1>3. n \in 0 .. Len(P) /\ n \in Nat
  BY <1>1, WholePath
<1>4. SubSeq(P, 1, n) = P
  BY <1>1, WholePath
<1>5. tree' = Filled(tree, P, n)
  BY <1>1, <1>2, <1>3, MadeAll, MkDirsClear DEF Doing
<1> HIDE DEF n
<1>6. /\ \A x \in DOMAIN tree : x \in DOMAIN tree' /\ tree'[x] = tree[x]
      /\ \A x \in DOMAIN tree' \ DOMAIN tree :
           tree'[x] = Dir /\ \E i \in 1 .. n : x = SubSeq(P, 1, i)
      /\ IsKind(tree', SubSeq(P, 1, n), "dir") /\ tree'[SubSeq(P, 1, n)] = Dir
  <2>1. n \in 0 .. n
    BY <1>3
  <2> QED
    BY <1>1, <1>3, <1>5, <2>1, FilledIs DEF Doing
<1>7. P \in DOMAIN tree' /\ tree'[P] = Dir
  BY <1>4, <1>6 DEF IsKind
<1>8. Spread(P)
  <2>1. ASSUME NEW x \in DOMAIN tree', x # P, x \notin DOMAIN tree
        PROVE  \E i \in 1 .. n - 1 : x = SubSeq(P, 1, i)
    <3>1. PICK i \in 1 .. n : x = SubSeq(P, 1, i)
      BY <1>6, <2>1
    <3>2. i # n
      BY <1>4, <2>1, <3>1
    <3>3. i \in 1 .. n - 1
      BY <1>3, <3>2
    <3> QED
      BY <3>1, <3>3
  <2> QED
    BY <1>6, <2>1 DEF Spread, n
<1> QED
  BY <1>7, <1>8 DEF P

\* The parts of a FILE_META that both kinds have in common: mkdir.
LEMMA CopyFront ==
  ASSUME Doing, NEW q \in Visited, Target(q) # <<>>,
         NEW made \in MadeDirs(Front(Target(q))), made.faults = 0
  PROVE  /\ IsTree(made.fs) /\ AllUnmixed(made.fs)
         /\ Clear(made.fs, Target(q), Len(Target(q)) - 1)
         /\ IsKind(made.fs, Front(Target(q)), "dir")
         /\ \A x \in DOMAIN tree : x \in DOMAIN made.fs /\ made.fs[x] = tree[x]
         /\ Target(q) \in DOMAIN made.fs => Target(q) \in DOMAIN tree
         /\ \A x \in DOMAIN made.fs \ DOMAIN tree :
              made.fs[x] = Dir /\ \E i \in 1 .. Len(Target(q)) - 1 : x = SubSeq(Target(q), 1, i)
<1> DEFINE P == Target(q)
           n == Len(P) - 1
<1>1. P \in Path /\ Clear(tree, P, n)
  BY TargetClear
<1>2. made.fs = Filled(tree, P, n)
  BY FrontMade
<1>3. made \in MadeDirs(Front(P)) /\ P # <<>>
  OBVIOUS
<1> HIDE DEF P
<1>4. /\ Len(P) \in Nat /\ n \in 0 .. Len(P) /\ n \in 0 .. n
      /\ Front(P) = SubSeq(P, 1, n) /\ Front(P) \in Path
  <2>1. Len(P) \in Nat /\ Len(P) > 0 /\ Front(P) = SubSeq(P, 1, n) /\ Front(P) \in Path
    BY <1>1, <1>3, FrontAppend
  <2> QED
    BY <2>1
<1>5. /\ \A x \in DOMAIN tree : x \in DOMAIN made.fs /\ made.fs[x] = tree[x]
      /\ \A x \in DOMAIN made.fs \ DOMAIN tree :
           made.fs[x] = Dir /\ \E i \in 1 .. n : x = SubSeq(P, 1, i)
      /\ \A i \in 0 .. n : IsKind(made.fs, SubSeq(P, 1, i), "dir")
      /\ \A i \in 0 .. n : made.fs[SubSeq(P, 1, i)] = Dir
  <2> HIDE DEF n
  <2> QED
    BY <1>1, <1>2, <1>4, FilledIs DEF Doing
<1>6. IsTree(made.fs) /\ AllUnmixed(made.fs)
  <2>1. faults \in 0 .. MaxFaults
    BY SizesAssumption DEF Doing
  <2> QED
    BY <1>3, <1>4, <2>1, MadeTree DEF Doing
<1>7. Clear(made.fs, P, n)
  <2>1. \A i \in 1 .. n : i \in 0 .. n
    BY <1>4
  <2> QED
    BY <1>5, <2>1 DEF Clear
<1>8. IsKind(made.fs, Front(P), "dir")
  BY <1>4, <1>5
<1>9. ASSUME P \in DOMAIN made.fs, P \notin DOMAIN tree PROVE FALSE
  <2>1. PICK i \in 1 .. n : P = SubSeq(P, 1, i)
    BY <1>5, <1>9
  <2>2. i \in 0 .. Len(P) /\ i # Len(P)
    BY <1>4
  <2>3. Len(SubSeq(P, 1, i)) = i
    BY <1>1, <2>2, Beginning
  <2> QED
    BY <2>1, <2>2, <2>3
<1> QED
  BY <1>5, <1>6, <1>7, <1>8, <1>9 DEF P

LEMMA NoDirName ==
  ASSUME Doing, NEW q \in Visited, NEW node \in Found(q), node.kind # "dir"
  PROVE  /\ Target(q) # <<>> /\ Target(q) \in Path
         /\ Target(q) \in DOMAIN tree => tree[Target(q)] # Dir
         /\ IsKind(tree, Target(q), "link") => node.kind = "link"
<1>1. node # Dir
  BY DEF Dir
<1>2. Target(q) \in DOMAIN tree =>
        tree[Target(q)] # Dir /\ (tree[Target(q)].kind = "link" => node.kind = "link")
  BY <1>1 DEF Doing, TreeInv
<1>3. <<>> \in DOMAIN tree /\ tree[<<>>] = Dir
  BY DEF Doing, IsTree
<1>4. Target(q) # <<>>
  BY <1>2, <1>3
<1> QED
  BY <1>2, <1>4, TargetClear DEF IsKind

LEMMA CopyFileMeta ==
  ASSUME Doing, NEW q \in Visited, NEW node \in Found(q), node.kind = "file", NEW packet,
         packet.name = Target(q), packet.type = "regular", ReceiveMeta(packet), faults' = 0
  PROVE  /\ Spread(Target(q)) /\ current_fd' = Target(q)
         /\ Target(q) \in DOMAIN tree' /\ tree'[Target(q)] = File(<<>>)
<1> DEFINE P == Target(q)
<1>1. /\ P # <<>> /\ P \in Path /\ Clear(tree, P, Len(P) - 1)
      /\ P \in DOMAIN tree => tree[P] # Dir
      /\ ~IsKind(tree, P, "link")
  BY NoDirName, TargetClear
<1>2. Dir \notin Stat(tree, P)
  <2>1. Follow(tree, P) = {P}
    BY <1>1, ClearFollow DEF Doing
  <2> QED
    BY <1>1, <2>1 DEF Stat
<1>3. current_path' = P /\ \E made \in MadeDirs(Front(P)) : OpenFile(made)
  BY <1>2 DEF ReceiveMeta
<1>4. PICK made \in MadeDirs(Front(P)) : OpenFile(made)
  BY <1>3
<1>5. made.faults \in Nat /\ (made.faults = 0 \/ made.faults > 0)
  BY DEF MadeDirs, Doing
<1>6. made.faults = 0
  BY <1>4, <1>5 DEF OpenFile
<1>7. /\ IsTree(made.fs) /\ Clear(made.fs, P, Len(P) - 1) /\ IsKind(made.fs, Front(P), "dir")
      /\ \A x \in DOMAIN tree : x \in DOMAIN made.fs /\ made.fs[x] = tree[x]
      /\ P \in DOMAIN made.fs => P \in DOMAIN tree
      /\ \A x \in DOMAIN made.fs \ DOMAIN tree :
           made.fs[x] = Dir /\ \E i \in 1 .. Len(P) - 1 : x = SubSeq(P, 1, i)
  BY <1>1, <1>6, CopyFront
<1> HIDE DEF P
<1>8. Follow(made.fs, P) = {P}
  <2>1. ~IsKind(made.fs, P, "link")
    BY <1>1, <1>7 DEF IsKind
  <2> QED
    BY <1>1, <1>7, <2>1, ClearFollow
<1>9. IsKind(made.fs, P, "file") \/ CanMake(made.fs, P)
  <2>1. CASE P \in DOMAIN made.fs
    <3>1. IsNode(made.fs[P])
      BY <1>7, <2>1 DEF IsTree
    <3>2. made.fs[P] # Dir /\ made.fs[P].kind # "link"
      BY <1>1, <1>7, <2>1 DEF IsKind
    <3> QED
      BY <2>1, <3>1, <3>2, NodeKinds DEF IsKind
  <2>2. CASE P \notin DOMAIN made.fs
    BY <1>1, <1>7, <2>2 DEF CanMake
  <2> QED
    BY <2>1, <2>2
<1>10. CanOpen(made.fs) = {P}
  BY <1>3, <1>8, <1>9 DEF CanOpen
<1>11. tree' = Put(made.fs, P, File(<<>>)) /\ current_fd' = P
  <2>1. ~(made.faults < MaxFaults /\ faults' = made.faults + 1)
    BY <1>6
  <2> QED
    BY <1>4, <1>10, <2>1 DEF OpenFile
<1>12. /\ DOMAIN tree' = DOMAIN made.fs \cup {P} /\ tree'[P] = File(<<>>)
       /\ \A x \in DOMAIN made.fs : x # P => tree'[x] = made.fs[x]
  BY <1>11 DEF Put
<1>13. Spread(P)
  BY <1>7, <1>12 DEF Spread
<1> QED
  BY <1>11, <1>12, <1>13 DEF P

LEMMA CopyLinkMeta ==
  ASSUME Doing, NEW q \in Visited, NEW node \in Found(q), node.kind = "link", NEW packet,
         packet.name = Target(q), packet.type = "symlink", ReceiveMeta(packet), faults' = 0
  PROVE  /\ Spread(Target(q)) /\ IsKind(tree', Front(Target(q)), "dir")
         /\ Target(q) \in DOMAIN tree' =>
              Target(q) \in DOMAIN tree /\ tree'[Target(q)] = tree[Target(q)]
<1> DEFINE P == Target(q)
<1>1. P # <<>> /\ P \in Path /\ Clear(tree, P, Len(P) - 1)
  BY NoDirName, TargetClear
<1>2. CASE Dir \in Stat(tree, P) /\ UNCHANGED tree
  <2>1. P \in DOMAIN tree
    <3>1. CASE IsKind(tree, P, "link")
      BY <3>1 DEF IsKind
    <3>2. CASE ~IsKind(tree, P, "link")
      <4>1. Follow(tree, P) = {P}
        BY <1>1, <3>2, ClearFollow DEF Doing
      <4> QED
        BY <1>2, <4>1 DEF Stat
    <3> QED
      BY <3>1, <3>2
  <2>2. IsKind(tree', Front(P), "dir")
    BY <1>1, <1>2, <2>1 DEF Doing, IsTree, IsKind
  <2>3. Spread(P)
    BY <1>2 DEF Spread
  <2> QED
    BY <1>2, <2>1, <2>2, <2>3
<1>3. CASE \E made \in MadeDirs(Front(P)) : tree' = made.fs /\ faults' = made.faults
  <2>1. PICK made \in MadeDirs(Front(P)) : tree' = made.fs /\ made.faults = 0
    BY <1>3
  <2>2. /\ IsKind(made.fs, Front(P), "dir")
        /\ \A x \in DOMAIN tree : x \in DOMAIN made.fs /\ made.fs[x] = tree[x]
        /\ P \in DOMAIN made.fs => P \in DOMAIN tree
        /\ \A x \in DOMAIN made.fs \ DOMAIN tree :
             made.fs[x] = Dir /\ \E i \in 1 .. Len(P) - 1 : x = SubSeq(P, 1, i)
    BY <1>1, <2>1, CopyFront
  <2> HIDE DEF P
  <2>3. Spread(P)
    BY <2>1, <2>2 DEF Spread
  <2>4. /\ IsKind(tree', Front(P), "dir")
        /\ (P \in DOMAIN tree' => P \in DOMAIN tree /\ tree'[P] = tree[P])
    BY <2>1, <2>2 DEF IsKind
  <2> QED
    BY <2>3, <2>4 DEF P
<1> QED
  BY <1>2, <1>3 DEF ReceiveMeta

LEMMA CopyLinkText ==
  ASSUME Doing, NEW q \in Visited, NEW node \in Found(q), node.kind = "link",
         IsKind(tree, Front(Target(q)), "dir"), current_path = Target(q),
         NEW to \in Path, MakeLink(to), faults' = 0
  PROVE  Spread(Target(q)) /\ Target(q) \in DOMAIN tree' /\ tree'[Target(q)] = Link(to)
<1> DEFINE P == Target(q)
           unlinked == [p \in DOMAIN tree \ {x \in FollowParent(tree, P) :
                                               ~IsKind(tree, x, "dir")} |-> tree[p]]
<1>1. /\ P # <<>> /\ P \in Path /\ Clear(tree, P, Len(P) - 1)
      /\ P \in DOMAIN tree => tree[P] # Dir
  BY NoDirName, TargetClear
<1>2. FollowParent(tree, P) = {P}
  BY <1>1, ClearParent DEF Doing
<1>3. \/ \E p \in {P} : CanMake(unlinked, p) /\ tree' = Put(unlinked, p, Link(to))
      \/ (\A p \in {P} : ~CanMake(unlinked, p)) /\ tree' = unlinked
  <2>1. ~Fails
    BY DEF Fails, Doing
  <2> QED
    BY <1>2, <2>1 DEF MakeLink
<1>4. DOMAIN unlinked = DOMAIN tree \ {P} /\ \A p \in DOMAIN tree \ {P} : unlinked[p] = tree[p]
  <2>1. ~IsKind(tree, P, "dir")
    <3>1. P \in DOMAIN tree => IsNode(tree[P])
      BY DEF Doing, IsTree
    <3> QED
      BY <1>1, <3>1, NodeKinds DEF IsKind
  <2>2. {x \in FollowParent(tree, P) : ~IsKind(tree, x, "dir")} = {P}
    BY <1>2, <2>1
  <2> QED
    BY <2>2
<1> HIDE DEF unlinked
<1>5. CanMake(unlinked, P)
  <2>1. Front(P) # P
    <3>1. Len(P) \in Nat /\ Len(P) > 0 /\ Front(P) = SubSeq(P, 1, Len(P) - 1)
      BY <1>1, FrontAppend
    <3>2. Len(P) - 1 \in 0 .. Len(P)
      BY <3>1
    <3>3. Len(Front(P)) = Len(P) - 1
      BY <1>1, <3>1, <3>2, Beginning
    <3> QED
      BY <3>1, <3>3
  <2>2. IsKind(unlinked, Front(P), "dir")
    BY <1>4, <2>1 DEF IsKind
  <2> QED
    BY <1>1, <1>4, <2>2 DEF CanMake
<1>6. tree' = Put(unlinked, P, Link(to))
  BY <1>3, <1>5
<1> HIDE DEF P
<1>7. /\ DOMAIN tree' = DOMAIN tree \cup {P} /\ tree'[P] = Link(to)
      /\ \A p \in DOMAIN tree : p # P => tree'[p] = tree[p]
  BY <1>4, <1>6 DEF Put
<1>8. Spread(P)
  BY <1>7 DEF Spread
<1> QED
  BY <1>7, <1>8 DEF P

LEMMA CopyPart ==
  ASSUME NEW data, NEW packet, packet.offset \in Nat, Len(packet.bytes) \in Nat,
         current_fd \in DOMAIN tree,
         tree[current_fd] = File(FirstUnits(data, packet.offset)),
         \A x \in 1 .. Len(packet.bytes) : packet.bytes[x] = data[packet.offset + x - 1],
         WriteChunk(packet, Len(packet.bytes))
  PROVE  /\ Spread(current_fd) /\ current_fd \in DOMAIN tree'
         /\ tree'[current_fd] =
              File(FirstUnits(data, packet.offset + Len(packet.bytes)))
<1> DEFINE P == current_fd
           e == packet.offset
           n == Len(packet.bytes)
           old == tree[P].data
           at == e .. e + n - 1
           new == [i \in DOMAIN old \cup at |->
                     IF i \in at THEN packet.bytes[i - e + 1] ELSE old[i]]
<1>1. tree' = Put(tree, P, File(new))
  BY DEF WriteChunk
<1>2. DOMAIN old = 0 .. e - 1 /\ \A i \in 0 .. e - 1 : old[i] = data[i]
  BY DEF File, FirstUnits, e
<1> HIDE DEF old, e, n
<1>0. e \in Nat /\ n \in Nat /\ \A x \in 1 .. n : packet.bytes[x] = data[e + x - 1]
  BY DEF e, n
<1>3. DOMAIN old \cup at = 0 .. e + n - 1
  BY <1>0, <1>2
<1>4. ASSUME NEW i \in 0 .. e + n - 1 PROVE new[i] = data[i]
  <2>1. CASE i \in at
    <3>1. i - e + 1 \in 1 .. n /\ e + (i - e + 1) - 1 = i
      BY <1>0, <2>1
    <3>2. packet.bytes[i - e + 1] = data[i]
      BY <1>0, <3>1
    <3> QED
      BY <1>3, <2>1, <3>2
  <2>2. CASE i \notin at
    <3>1. i \in 0 .. e - 1
      BY <1>0, <2>2
    <3> QED
      BY <1>2, <1>3, <2>2, <3>1
  <2> QED
    BY <2>1, <2>2
<1>5. new = FirstUnits(data, e + n)
  <2>1. /\ new = [i \in 0 .. e + n - 1 |-> new[i]]
        /\ \A i \in 0 .. e + n - 1 : new[i] = data[i]
    BY <1>3, <1>4
  <2> HIDE DEF new
  <2> QED
    BY <1>0, <2>1 DEF FirstUnits
<1> HIDE DEF new
<1>6. /\ DOMAIN tree' = DOMAIN tree \cup {P} /\ tree'[P] = File(new)
      /\ \A p \in DOMAIN tree : p # P => tree'[p] = tree[p]
  BY <1>1 DEF Put
<1>7. Spread(P)
  BY <1>6 DEF Spread
<1> QED
  BY <1>5, <1>6, <1>7 DEF e, n

LEMMA SameTarget ==
  ASSUME Suitable, NEW q \in Visited, NEW r \in Visited, Target(q) = Target(r)
  PROVE  q = r
BY DEF Suitable

LEMMA SpreadKeeps ==
  ASSUME Doing, NEW q \in Visited, NEW r \in Visited, r # q, Spread(Target(q)),
         Target(r) \in DOMAIN tree
  PROVE  Target(r) \in DOMAIN tree' /\ tree'[Target(r)] = tree[Target(r)]
<1>1. Target(r) # Target(q)
  BY SameTarget DEF Doing
<1> QED
  BY <1>1 DEF Spread

LEMMA JobKept ==
  ASSUME UNCHANGED job
  PROVE  /\ Visited' = Visited /\ (Suitable' <=> Suitable)
         /\ \A q : Found(q)' = Found(q) /\ Target(q)' = Target(q)
                   /\ RemoteName(q)' = RemoteName(q) /\ Entries(q)' = Entries(q)
<1>1. Visited' = Visited
  BY SMT DEF Visited, Found, Entries, Stat, Lstat
<1>2. \A q : Found(q)' = Found(q)
  BY DEF Found
<1>3. \A q : Target(q)' = Target(q) /\ RemoteName(q)' = RemoteName(q)
  BY DEF Target, RemoteName, FinalPath
<1>4. \A q : Entries(q)' = Entries(q)
  BY DEF Entries
<1>5. Suitable' <=> Suitable
  BY <1>1, <1>2, <1>3, Zenon DEF Suitable
<1> QED
  BY <1>1, <1>2, <1>3, <1>4, <1>5

\* What is at the place of a copy is a directory if the original is one, and a
\* link only if it is one.
Fits(here, q) ==
  \A node \in Found(q) : /\ here = Dir <=> node = Dir
                         /\ here.kind = "link" => node.kind = "link"

LEMMA SpreadTree ==
  ASSUME Doing, NEW q \in Visited, Spread(Target(q)), UNCHANGED job,
         Target(q) \in DOMAIN tree' => Fits(tree'[Target(q)], q)
  PROVE  TreeInv'
<1> DEFINE P == Target(q)
<1>1. P \in Path /\ Len(P) \in Nat
  BY TargetClear, WholePath
<1>2. DOMAIN job.old \subseteq DOMAIN tree'
  BY DEF Doing, TreeInv, Spread
<1>3. ASSUME NEW p \in DOMAIN tree'
      PROVE  \/ \E r \in Visited : p = Target(r)
             \/ p \in DOMAIN job.old /\ tree'[p] = job.old[p]
             \/ tree'[p] = Dir /\ \E r \in Visited : IsPrefix(p, Target(r))
  <2>1. CASE p = P
    BY <2>1
  <2>2. CASE p \in DOMAIN tree /\ tree'[p] = tree[p]
    BY <2>2 DEF Doing, TreeInv
  <2>3. CASE tree'[p] = Dir /\ \E i \in 1 .. Len(P) - 1 : p = SubSeq(P, 1, i)
    <3>1. PICK i \in 1 .. Len(P) - 1 : p = SubSeq(P, 1, i)
      BY <2>3
    <3> HIDE DEF P
    <3>2. i \in 0 .. Len(P) /\ i <= Len(P)
      BY <1>1
    <3>3. p \in Path /\ Len(p) = i
      BY <1>1, <3>1, <3>2, Beginning
    <3>4. SubSeq(p, 1, Len(p)) = p
      BY <3>3, WholePath
    <3>5. IsPrefix(p, P)
      BY <3>1, <3>2, <3>3, <3>4 DEF IsPrefix
    <3> QED
      BY <2>3, <3>5 DEF P
  <2> QED
    BY <2>1, <2>2, <2>3 DEF Spread
<1>4. ASSUME NEW r \in Visited, Target(r) \in DOMAIN tree' PROVE Fits(tree'[Target(r)], r)
  <2>1. CASE r = q
    BY <1>4, <2>1
  <2>2. CASE r # q
    <3>1. Target(r) # P
      BY <2>2, SameTarget DEF Doing
    <3>2. CASE Target(r) \in DOMAIN tree /\ tree'[Target(r)] = tree[Target(r)]
      BY <3>2 DEF Doing, TreeInv, Fits
    <3>3. CASE tree'[Target(r)] = Dir /\ \E i \in 1 .. Len(P) - 1 : Target(r) = SubSeq(P, 1, i)
      <4>1. PICK i \in 1 .. Len(P) - 1 : Target(r) = SubSeq(P, 1, i)
        BY <3>3
      <4>2. i \in 0 .. Len(Target(q)) - 1
        OBVIOUS
      <4>3. Dir \in Found(r)
        BY <4>1, <4>2, TargetAbove DEF Doing
      <4>4. r \in Path
        BY VisitedBelow DEF Doing
      <4>5. \A node \in Found(r) : node = Dir
        BY <4>3, <4>4, FoundOnce DEF Doing
      <4> QED
        BY <3>3, <4>5 DEF Fits, Dir
    <3> QED
      BY <1>4, <3>1, <3>2, <3>3 DEF Spread
  <2> QED
    BY <2>1, <2>2
<1>5. /\ Visited' = Visited /\ \A r : Found(r)' = Found(r) /\ Target(r)' = Target(r)
  BY JobKept
<1> HIDE DEF P
<1> QED
  BY <1>2, <1>3, <1>4, <1>5, Zenon DEF TreeInv, Fits

-----------------------------------------------------------------------------
(* What packets are of.                                                    *)

\* A transfer in which nothing has failed.
Copying == AnnounceInv /\ CopyInv /\ faults = 0 /\ Suitable

LEMMA CopyingParts ==
  ASSUME Copying
  PROVE  /\ Doing /\ Sending /\ Chan!TypeOK /\ Files /\ Inv /\ up
         /\ NamesInv /\ PartsInv /\ WholeInv /\ ChunksInv /\ CallsInv
         /\ ClosedInv /\ EndInv /\ TreeInv /\ CopiesInv
         /\ Len(sent) \in Nat /\ Len(delivered) \in Nat /\ Len(delivered) <= Len(sent)
         /\ \A k \in 1 .. Len(sent) : sent[k] \in Packet
<1>1. Sending /\ Chan!TypeOK /\ Files /\ Inv
  BY TypeParts DEF Copying, AnnounceInv, Inv
<1>2. /\ up /\ NamesInv /\ PartsInv /\ WholeInv /\ ChunksInv /\ CallsInv
      /\ ClosedInv /\ EndInv /\ TreeInv /\ CopiesInv
  BY DEF Copying, CopyInv
<1>3. /\ Len(sent) \in Nat /\ Len(delivered) \in Nat /\ Len(delivered) <= Len(sent)
      /\ \A k \in 1 .. Len(sent) : sent[k] \in Packet
  BY <1>1, LenProperties, ElementOfSeq DEF Inv, Chan!TypeOK, Chan!DeliveredIsPrefix
<1>4. Doing
  BY <1>1, <1>2 DEF Doing, Copying, Files, Sending
<1> QED
  BY <1>1, <1>2, <1>3, <1>4

LEMMA NamedIs ==
  ASSUME Copying, NEW k \in 1 .. Len(sent), NEW q \in Visited, Names(k, q)
  PROVE  \E node : Found(q) = {node} /\ Announces(k, node)
<1>1. PICK r \in Visited : Names(k, r) /\ \E node \in Found(r) : Announces(k, node)
  BY CopyingParts DEF NamesInv, Names
<1>2. r = q
  BY <1>1, SameTarget DEF Names, Copying
<1>3. PICK node \in Found(q) : Announces(k, node)
  BY <1>1, <1>2
<1>4. q \in Path
  BY CopyingParts, VisitedBelow DEF Doing
<1>5. Found(q) = {node}
  BY <1>3, <1>4, CopyingParts, FoundOnce DEF Doing
<1> QED
  BY <1>3, <1>5

LEMMA OfIs ==
  ASSUME Copying, NEW k \in 1 .. Len(sent), NEW q \in Visited, IsOf(k, q)
  PROVE  \E m \in 1 .. k : \E node \in Found(q) :
           /\ MetaOf(m, k) /\ sent[m].cmd = "FILE_META" /\ sent[m].name = Target(q)
           /\ Found(q) = {node} /\ sent[m].type \in Type
           /\ node.kind = IF sent[m].type = "regular" THEN "file" ELSE "link"
<1>1. PICK m \in 1 .. k : MetaOf(m, k) /\ Names(m, q)
  BY DEF IsOf
<1>2. m \in 1 .. Len(sent) /\ sent[m].cmd = "FILE_META"
  BY <1>1, CopyingParts DEF MetaOf
<1>3. PICK node : Found(q) = {node} /\ Announces(m, node)
  BY <1>1, <1>2, NamedIs
<1>4. sent[m].type \in Type
  BY <1>2, CopyingParts, PacketKinds
<1> QED
  BY <1>1, <1>2, <1>3, <1>4 DEF Names, Announces

LEMMA OfOnce ==
  ASSUME Copying, NEW k \in 1 .. Len(sent), NEW q \in Visited, NEW r \in Visited,
         IsOf(k, q), IsOf(k, r)
  PROVE  q = r
<1>1. PICK m \in 1 .. k : MetaOf(m, k) /\ Names(m, q)
  BY DEF IsOf
<1>2. PICK l \in 1 .. k : MetaOf(l, k) /\ Names(l, r)
  BY DEF IsOf
<1>3. m = l
  BY <1>1, <1>2, OneMeta
<1> QED
  BY <1>1, <1>2, <1>3, SameTarget DEF Names, Copying

\* Of what data is, the packet before it is too, and the other way round.
LEMMA OfData ==
  ASSUME Copying, NEW k \in Nat, k < Len(sent), IsData(k + 1), NEW q
  PROVE  /\ IsOf(k + 1, q) <=> IsOf(k, q)
         /\ OfFile(k) /\ \E m \in 1 .. k : MetaOf(m, k)
<1>1. k + 1 \in 1 .. Len(sent) /\ Len(sent) \in Nat
  BY CopyingParts
<1>2. /\ k + 1 > 1 /\ OfFile(k + 1 - 1) /\ \E m \in 1 .. k + 1 - 1 : MetaOf(m, k + 1 - 1)
  BY <1>1 DEF Copying, AnnounceInv, FollowsMeta
<1>3. k + 1 - 1 = k
  OBVIOUS
<1>4. OfFile(k) /\ \E m \in 1 .. k : MetaOf(m, k)
  BY <1>2, <1>3
<1>5. OfFile(k + 1) /\ sent[k + 1].cmd # "FILE_META"
  BY DEF IsData, OfFile
<1>6. ASSUME NEW m \in 1 .. k + 1 PROVE MetaOf(m, k + 1) <=> m \in 1 .. k /\ MetaOf(m, k)
  BY <1>5 DEF MetaOf
<1> QED
  BY <1>4, <1>5, <1>6 DEF IsOf

\* With the next packet, or at the end, all that has been announced is there.
LEMMA There ==
  ASSUME Copying, NEW d \in Nat, d = Len(delivered), NEW q \in Visited, Announced(q, d),
         \/ d < Len(sent) /\ ~IsData(d + 1)
         \/ d = Len(sent) /\ pc \notin {"link", "chunks"}
  PROVE  Target(q) \in DOMAIN tree /\ Found(q) = {tree[Target(q)]}
<1>1. CASE ~IsOf(d, q)
  BY <1>1, CopyingParts DEF CopiesInv, CopyAt
<1>2. CASE IsOf(d, q)
  <2>1. d \in 1 .. Len(sent)
    BY CopyingParts DEF Announced
  <2>2. PICK node \in Found(q) : Found(q) = {node} /\ node.kind \in {"file", "link"}
    BY <1>2, <2>1, OfIs
  <2>3. Whole(d, node)
    BY <1>2, <2>1, <2>2, CopyingParts DEF WholeInv
  <2>4. IF node.kind = "link"
        THEN IsData(d) => Target(q) \in DOMAIN tree /\ tree[Target(q)] = node
        ELSE /\ Target(q) \in DOMAIN tree
             /\ tree[Target(q)] = File(FirstUnits(node.data, EndOf(d)))
    BY <1>2, <2>2, CopyingParts DEF CopiesInv, CopyAt
  <2>5. CASE node.kind = "link"
    BY <2>2, <2>3, <2>4, <2>5 DEF Whole
  <2>6. CASE node.kind = "file"
    <3>1. EndOf(d) = Size(node)
      BY <2>3, <2>6 DEF Whole
    <3>2. IsNode(node) /\ DOMAIN node.data = 0 .. Size(node) - 1
      <4>1. job \in Jobs
        BY CopyingParts DEF Doing
      <4> QED
        BY <2>6, <4>1, FoundNode DEF Size
    <3>3. node = File(node.data) /\ node.data = FirstUnits(node.data, Size(node))
      <4>1. node = File(node.data)
        BY <2>6, <3>2, NodeKinds
      <4>2. node.data = FirstUnits(node.data, Size(node))
        BY <2>6, CopyingParts, FoundFile DEF Doing, Size, FirstUnits
      <4> QED
        BY <4>1, <4>2
    <3> QED
      BY <2>2, <2>4, <2>6, <3>1, <3>3
  <2> QED
    BY <2>2, <2>5, <2>6
<1> QED
  BY <1>1, <1>2

LEMMA SentKept ==
  ASSUME UNCHANGED <<job, sent>>
  PROVE  \A k, q, node :
           /\ Names(k, q)' <=> Names(k, q)
           /\ Announced(q, k)' <=> Announced(q, k)
           /\ IsOf(k, q)' <=> IsOf(k, q)
           /\ IsData(k)' <=> IsData(k)
           /\ EndOf(k)' = EndOf(k)
           /\ Announces(k, node)' <=> Announces(k, node)
           /\ IsDataOf(k, node)' <=> IsDataOf(k, node)
           /\ Whole(k, node)' <=> Whole(k, node)
<1>1. \A k : (IsData(k)' <=> IsData(k)) /\ (OfFile(k)' <=> OfFile(k))
  BY DEF IsData, OfFile
<1>2. \A k : EndOf(k)' = EndOf(k)
  BY <1>1 DEF EndOf
<1>3. \A q : Target(q)' = Target(q)
  BY JobKept
<1>4. \A k, q : Names(k, q)' <=> Names(k, q)
  BY <1>3 DEF Names
<1>5. \A m, k : MetaOf(m, k)' <=> MetaOf(m, k)
  BY DEF MetaOf
<1>6. \A k, q : (IsOf(k, q)' <=> IsOf(k, q)) /\ (Announced(q, k)' <=> Announced(q, k))
  BY <1>1, <1>4, <1>5, Zenon DEF IsOf, Announced
<1>7. \A k, node : Announces(k, node)' <=> Announces(k, node)
  BY DEF Announces
<1>8. \A k, node : IsDataOf(k, node)' <=> IsDataOf(k, node)
  BY <1>2 DEF IsDataOf
<1>9. \A k, node : Whole(k, node)' <=> Whole(k, node)
  BY <1>1, <1>2 DEF Whole
<1> QED
  BY <1>1, <1>2, <1>4, <1>6, <1>7, <1>8, <1>9

\* CopyAt of the next tree, with the packets and paths that there are.
CopyNext(q, d) ==
  /\ Announced(q, d) /\ ~IsOf(d, q) =>
       Target(q) \in DOMAIN tree' /\ Found(q) = {tree'[Target(q)]}
  /\ IsOf(d, q) => \A node \in Found(q) :
       IF node.kind = "link"
       THEN /\ IsKind(tree', Front(Target(q)), "dir")
            /\ IsData(d) => Target(q) \in DOMAIN tree' /\ tree'[Target(q)] = node
       ELSE /\ current_fd' = Target(q) /\ Target(q) \in DOMAIN tree'
            /\ tree'[Target(q)] = File(FirstUnits(node.data, EndOf(d)))
LEMMA CopiesNext ==
  ASSUME UNCHANGED <<job, sent>>, NEW d, d = Len(delivered'),
         \A q \in Visited : CopyNext(q, d)
  PROVE  CopiesInv'
<1>1. /\ Visited' = Visited /\ \A q : Found(q)' = Found(q) /\ Target(q)' = Target(q)
  BY JobKept
<1>2. \A k, q : /\ Announced(q, k)' <=> Announced(q, k)
                /\ IsOf(k, q)' <=> IsOf(k, q)
                /\ IsData(k)' <=> IsData(k)
                /\ EndOf(k)' = EndOf(k)
  BY SentKept
<1>3. \A q \in Visited : CopyAt(q, d)'
  BY <1>1, <1>2, Zenon DEF CopyAt, CopyNext, IsKind
<1> QED
  BY <1>1, <1>3, Zenon DEF CopiesInv

-----------------------------------------------------------------------------
(* The receiver keeps what the copy is made of.                            *)

\* What becomes of the tree when a path is announced.
Taken(k, q) ==
  LET P == Target(q)
  IN  /\ Spread(P)
      /\ sent[k].cmd = "DIR_ENTER" => P \in DOMAIN tree' /\ tree'[P] = Dir
      /\ sent[k].cmd = "FILE_META" /\ sent[k].type = "regular" =>
           current_fd' = P /\ P \in DOMAIN tree' /\ tree'[P] = File(<<>>)
      /\ sent[k].cmd = "FILE_META" /\ sent[k].type = "symlink" =>
           /\ IsKind(tree', Front(P), "dir")
           /\ P \in DOMAIN tree' => P \in DOMAIN tree /\ tree'[P] = tree[P]

LEMMA TakenCopies ==
  ASSUME Copying, UNCHANGED <<job, sent>>, NEW d \in Nat, d = Len(delivered), d < Len(sent),
         Len(delivered') = d + 1, NEW q \in Visited, Names(d + 1, q), Taken(d + 1, q)
  PROVE  TreeInv' /\ CopiesInv'
<1> DEFINE k == d + 1
           P == Target(q)
           meta == sent[k].cmd = "FILE_META"
<1>1. /\ k \in 1 .. Len(sent) /\ Doing /\ ~IsData(k) /\ Spread(P)
      /\ meta \/ sent[k].cmd = "DIR_ENTER"
  BY CopyingParts DEF Names, IsData, Taken
<1>2. PICK node : Found(q) = {node} /\ Announces(k, node)
  BY <1>1, NamedIs
<1>3. meta => sent[k].type \in Type
  BY <1>1, CopyingParts, PacketKinds
<1>4. ASSUME ~meta PROVE node = Dir /\ P \in DOMAIN tree' /\ tree'[P] = Dir
  BY <1>1, <1>2, <1>4 DEF Announces, Taken
<1>5. ASSUME meta, sent[k].type = "regular"
      PROVE  /\ node.kind = "file" /\ current_fd' = P
             /\ P \in DOMAIN tree' /\ tree'[P] = File(<<>>)
  BY <1>2, <1>5 DEF Announces, Taken
<1>6. ASSUME meta, sent[k].type # "regular"
      PROVE  /\ node.kind = "link" /\ IsKind(tree', Front(P), "dir")
             /\ P \in DOMAIN tree' => P \in DOMAIN tree /\ tree'[P] = tree[P]
  <2>1. sent[k].type = "symlink"
    BY <1>3, <1>6 DEF Type
  <2> QED
    BY <1>2, <1>6, <2>1 DEF Announces, Taken
<1>7. P \in DOMAIN tree' => Fits(tree'[P], q)
  <2>1. CASE ~meta
    BY <1>2, <1>4, <2>1 DEF Fits, Dir
  <2>2. CASE meta /\ sent[k].type = "regular"
    BY <1>2, <1>5, <2>2 DEF Fits, Dir, File
  <2>3. CASE meta /\ sent[k].type # "regular"
    <3>1. P \in DOMAIN tree => Fits(tree[P], q)
      BY <1>1 DEF Doing, TreeInv, Fits
    <3> QED
      BY <1>6, <2>3, <3>1
  <2> QED
    BY <2>1, <2>2, <2>3
<1>8. TreeInv'
  BY <1>1, <1>7, SpreadTree
<1>9. IsOf(k, q) <=> meta
  <2>1. CASE meta
    <3>1. MetaOf(k, k) /\ OfFile(k)
      BY <1>1, <2>1 DEF MetaOf, OfFile
    <3>2. k \in 1 .. k
      OBVIOUS
    <3> QED
      BY <2>1, <3>1, <3>2 DEF IsOf
  <2>2. CASE ~meta
    BY <1>1, <2>2 DEF IsOf, OfFile
  <2> QED
    BY <2>1, <2>2
<1>10. ASSUME NEW r \in Visited PROVE CopyNext(r, k)
  <2>1. CASE r = q
    <3>1. CASE ~meta
      BY <1>2, <1>4, <1>9, <2>1, <3>1 DEF CopyNext
    <3>2. CASE meta /\ sent[k].type = "regular"
      <4>1. EndOf(k) = 0
        BY <1>1 DEF EndOf
      <4>2. <<>> = FirstUnits(node.data, EndOf(k))
        BY <4>1 DEF FirstUnits
      <4>3. tree'[P] = File(FirstUnits(node.data, EndOf(k)))
        BY <1>5, <3>2, <4>2
      <4> QED
        BY <1>2, <1>5, <1>9, <2>1, <3>2, <4>3 DEF CopyNext
    <3>3. CASE meta /\ sent[k].type # "regular"
      BY <1>1, <1>2, <1>6, <1>9, <2>1, <3>3 DEF CopyNext
    <3> QED
      BY <3>1, <3>2, <3>3
  <2>2. CASE r # q
    <3>1. ~Names(k, r)
      BY <2>2, SameTarget DEF Names, Copying
    <3>2. ~IsOf(k, r)
      <4>1. CASE meta
        <5>1. MetaOf(k, k) /\ k \in Nat
          BY <1>1, <4>1 DEF MetaOf
        <5>2. \A m \in 1 .. k : MetaOf(m, k) => m = k
          BY <5>1, OneMeta
        <5> QED
          BY <3>1, <5>2 DEF IsOf
      <4>2. CASE ~meta
        BY <1>1, <4>2 DEF IsOf, OfFile
      <4> QED
        BY <4>1, <4>2
    <3>3. ASSUME Announced(r, k)
          PROVE  Target(r) \in DOMAIN tree' /\ Found(r) = {tree'[Target(r)]}
      <4>1. PICK l \in 1 .. k : Names(l, r)
        BY <3>3 DEF Announced
      <4>2. l \in 1 .. d
        BY <3>1, <4>1
      <4>3. Announced(r, d)
        BY <4>1, <4>2 DEF Announced
      <4>4. Target(r) \in DOMAIN tree /\ Found(r) = {tree[Target(r)]}
        BY <1>1, <4>3, There
      <4>5. Target(r) \in DOMAIN tree' /\ tree'[Target(r)] = tree[Target(r)]
        BY <1>1, <2>2, <4>4, SpreadKeeps
      <4> QED
        BY <4>4, <4>5
    <3> QED
      BY <3>2, <3>3 DEF CopyNext
  <2> QED
    BY <2>1, <2>2
<1>11. CopiesInv'
  BY <1>10, CopiesNext
<1> QED
  BY <1>8, <1>11

\* A packet that is of no path.
LEMMA PassedCopies ==
  ASSUME Copying, UNCHANGED <<job, sent, tree>>, NEW d \in Nat, d = Len(delivered),
         d < Len(sent), Len(delivered') = d + 1,
         sent[d + 1].cmd \in {"DIR_LEAVE", "TRANSFER_END"}
  PROVE  TreeInv' /\ CopiesInv'
<1>1. \A r : ~IsOf(d + 1, r) /\ ~Names(d + 1, r) /\ ~IsData(d + 1)
  BY DEF IsOf, OfFile, Names, IsData
<1>2. ASSUME NEW r \in Visited, Announced(r, d + 1)
      PROVE  Target(r) \in DOMAIN tree' /\ Found(r) = {tree'[Target(r)]}
  <2>1. PICK l \in 1 .. d + 1 : Names(l, r)
    BY <1>2 DEF Announced
  <2>2. l \in 1 .. d
    BY <1>1, <2>1
  <2>3. Announced(r, d)
    BY <2>1, <2>2 DEF Announced
  <2> QED
    BY <1>1, <2>3, There
<1>3. CopiesInv'
  <2>1. \A r \in Visited : CopyNext(r, d + 1)
    BY <1>1, <1>2 DEF CopyNext
  <2> QED
    BY <2>1, CopiesNext
<1>4. TreeInv'
  <2>1. /\ Visited' = Visited /\ \A r : Found(r)' = Found(r) /\ Target(r)' = Target(r)
    BY JobKept
  <2>2. TreeInv
    BY CopyingParts
  <2> QED
    BY <2>1, <2>2, Zenon DEF TreeInv
<1> QED
  BY <1>3, <1>4

\* A packet of data, when no write falls short.
LEMMA DataIs ==
  ASSUME Copying, UNCHANGED <<job, sent>>, NEW d \in Nat, d = Len(delivered), d < Len(sent),
         ReceiveData(sent[d + 1]), faults' = 0
  PROVE  \E q \in Visited : \E node \in Found(q) :
           /\ Found(q) = {node} /\ IsOf(d, q) /\ IsData(d + 1) /\ Spread(Target(q))
           /\ Target(q) \in DOMAIN tree'
           /\ IF node.kind = "link"
              THEN IsKind(tree', Front(Target(q)), "dir") /\ tree'[Target(q)] = node
              ELSE /\ node.kind = "file" /\ current_fd' = Target(q)
                   /\ tree'[Target(q)] = File(FirstUnits(node.data, EndOf(d + 1)))
<1> DEFINE packet == sent[d + 1]
<1>1. /\ IsData(d + 1) /\ Doing /\ d + 1 \in 1 .. Len(sent) /\ packet \in Packet
      /\ UNCHANGED current_fd
  BY CopyingParts DEF ReceiveData, IsData
<1>2. PICK m \in 1 .. d : MetaOf(m, d) /\ meta_type = sent[m].type /\ current_path = sent[m].name
  BY <1>1, AtData DEF Copying
<1>3. m \in 1 .. Len(sent) /\ sent[m].cmd = "FILE_META" /\ d \in 1 .. Len(sent)
  BY <1>1, <1>2 DEF MetaOf
<1>4. PICK q \in Visited : Names(m, q)
  BY <1>3, CopyingParts DEF NamesInv
<1>5. IsOf(d, q) /\ IsOf(d + 1, q)
  BY <1>1, <1>2, <1>4, OfData DEF IsOf
<1>6. PICK node \in Found(q) : Found(q) = {node} /\ Announces(m, node)
  BY <1>3, <1>4, NamedIs
<1>7. /\ node.kind = (IF sent[m].type = "regular" THEN "file" ELSE "link")
      /\ current_path = Target(q) /\ sent[m].type \in Type
  BY <1>2, <1>3, <1>4, <1>6, CopyingParts, PacketKinds DEF Announces, Names
<1>8. IsDataOf(d + 1, node)
  BY <1>1, <1>5, CopyingParts DEF PartsInv
<1>9. CopyAt(q, d)
  BY CopyingParts DEF CopiesInv
<1>10. ~Fails
  BY DEF Fails, Doing, Copying
<1>11. CASE sent[m].type = "symlink"
  <2>1. node.kind = "link" /\ packet.bytes = node.to /\ node = Link(node.to) /\ node.to \in Path
    <3>1. IsNode(node)
      BY <1>1, FoundNode DEF Doing
    <3> QED
      BY <1>7, <1>8, <1>11, <3>1 DEF IsDataOf, IsNode, Dir
  <2>2. MakeLink(packet.bytes)
    BY <1>2, <1>11 DEF ReceiveData
  <2>3. IsKind(tree, Front(Target(q)), "dir")
    BY <1>5, <1>9, <2>1 DEF CopyAt
  <2>4. Spread(Target(q)) /\ Target(q) \in DOMAIN tree' /\ tree'[Target(q)] = node
    BY <1>1, <1>7, <2>1, <2>2, <2>3, CopyLinkText
  <2>5. IsKind(tree', Front(Target(q)), "dir")
    <3>1. Target(q) # <<>> /\ Target(q) \in Path
      BY <1>1, <2>1, NoDirName
    <3>2. /\ Len(Target(q)) \in Nat /\ Len(Target(q)) - 1 \in 0 .. Len(Target(q))
          /\ Front(Target(q)) = SubSeq(Target(q), 1, Len(Target(q)) - 1)
      BY <3>1, FrontAppend
    <3>3. Front(Target(q)) # Target(q)
      <4>1. Len(Front(Target(q))) = Len(Target(q)) - 1
        BY <3>1, <3>2, Beginning
      <4> QED
        BY <3>2, <4>1
    <3> QED
      BY <2>3, <2>4, <3>3 DEF Spread, IsKind
  <2> QED
    BY <1>1, <1>5, <1>6, <2>1, <2>4, <2>5
<1>12. CASE sent[m].type = "regular"
  <2>1. node.kind = "file"
    BY <1>7, <1>12
  <2>2. /\ current_fd = Target(q) /\ Target(q) \in DOMAIN tree
        /\ tree[Target(q)] = File(FirstUnits(node.data, EndOf(d)))
    BY <1>5, <1>9, <2>1 DEF CopyAt
  <2>3. current_fd # NoFd
    BY <1>1, <2>2, NoFdAssumption, TargetClear
  <2>4. /\ packet.offset = EndOf(d)
        /\ \A x \in 1 .. Len(packet.bytes) : packet.bytes[x] = node.data[EndOf(d) + x - 1]
    <3>1. d + 1 - 1 = d
      OBVIOUS
    <3> QED
      BY <1>8, <2>1, <3>1 DEF IsDataOf
  <2>5. packet.offset \in Nat /\ Len(packet.bytes) \in Nat
    <3>1. packet.offset \in Nat /\ packet.bytes \in Seq(Unit) \cup Path
      BY <1>1 DEF Packet, IsData
    <3> QED
      BY <3>1, LenProperties DEF Path
  <2>6. WriteChunk(packet, Len(packet.bytes))
    BY <1>2, <1>10, <1>12, <2>3 DEF ReceiveData
  <2>7. EndOf(d + 1) = EndOf(d) + Len(packet.bytes) /\ EndOf(d) \in Nat
    BY <1>1, <2>4, <2>5 DEF EndOf
  <2> DEFINE data == node.data
  <2>8. /\ current_fd \in DOMAIN tree
        /\ tree[current_fd] = File(FirstUnits(data, packet.offset))
        /\ WriteChunk(packet, Len(packet.bytes))
        /\ \A x \in 1 .. Len(packet.bytes) : packet.bytes[x] = data[packet.offset + x - 1]
    BY <2>2, <2>4, <2>6
  <2>9. EndOf(d + 1) = packet.offset + Len(packet.bytes)
    BY <2>4, <2>7
  <2> HIDE DEF packet, data
  <2>10. /\ Spread(current_fd) /\ current_fd \in DOMAIN tree'
         /\ tree'[current_fd] =
              File(FirstUnits(data, packet.offset + Len(packet.bytes)))
    BY <2>5, <2>8, CopyPart
  <2>11. tree'[Target(q)] = File(FirstUnits(node.data, EndOf(d + 1)))
    BY <2>2, <2>9, <2>10 DEF data
  <2>12. current_fd' = Target(q) /\ Spread(Target(q)) /\ Target(q) \in DOMAIN tree'
    BY <1>1, <2>2, <2>10 DEF Spread
  <2> QED
    BY <1>1, <1>5, <1>6, <2>1, <2>11, <2>12
<1> QED
  BY <1>7, <1>11, <1>12 DEF Type

LEMMA DataCopies ==
  ASSUME Copying, UNCHANGED <<job, sent>>, NEW d \in Nat, d = Len(delivered), d < Len(sent),
         Len(delivered') = d + 1, ReceiveData(sent[d + 1]), faults' = 0
  PROVE  TreeInv' /\ CopiesInv'
<1>1. PICK q \in Visited : \E node \in Found(q) :
        /\ Found(q) = {node} /\ IsOf(d, q) /\ IsData(d + 1) /\ Spread(Target(q))
        /\ Target(q) \in DOMAIN tree'
        /\ IF node.kind = "link"
           THEN IsKind(tree', Front(Target(q)), "dir") /\ tree'[Target(q)] = node
           ELSE /\ node.kind = "file" /\ current_fd' = Target(q)
                /\ tree'[Target(q)] = File(FirstUnits(node.data, EndOf(d + 1)))
  BY DataIs
<1>2. PICK node \in Found(q) :
        /\ Found(q) = {node} /\ Target(q) \in DOMAIN tree'
        /\ IF node.kind = "link"
           THEN IsKind(tree', Front(Target(q)), "dir") /\ tree'[Target(q)] = node
           ELSE /\ node.kind = "file" /\ current_fd' = Target(q)
                /\ tree'[Target(q)] = File(FirstUnits(node.data, EndOf(d + 1)))
  BY <1>1
<1>3. Doing /\ IsOf(d, q) /\ IsData(d + 1) /\ Spread(Target(q)) /\ d + 1 \in 1 .. Len(sent)
  BY <1>1, CopyingParts
<1>4. Fits(tree'[Target(q)], q)
  <2>1. CASE node.kind = "link"
    BY <1>2, <2>1 DEF Fits, Dir
  <2>2. CASE node.kind # "link"
    BY <1>2, <2>2 DEF Fits, Dir, File
  <2> QED
    BY <2>1, <2>2
<1>5. TreeInv'
  BY <1>3, <1>4, SpreadTree
<1>6. ASSUME NEW r \in Visited PROVE CopyNext(r, d + 1)
  <2>1. IsOf(d + 1, r) <=> IsOf(d, r)
    BY <1>3, OfData
  <2>2. CASE r = q
    BY <1>2, <1>3, <2>1, <2>2 DEF CopyNext
  <2>3. CASE r # q
    <3>1. ~IsOf(d, r)
      <4>1. d \in 1 .. Len(sent)
        BY <1>3 DEF IsOf
      <4> QED
        BY <1>3, <2>3, <4>1, OfOnce
    <3>2. ASSUME Announced(r, d + 1)
          PROVE  Target(r) \in DOMAIN tree' /\ Found(r) = {tree'[Target(r)]}
      <4>1. PICK l \in 1 .. d + 1 : Names(l, r)
        BY <3>2 DEF Announced
      <4>2. l \in 1 .. d
        BY <1>3, <4>1 DEF Names, IsData
      <4>3. Announced(r, d)
        BY <4>1, <4>2 DEF Announced
      <4>4. Target(r) \in DOMAIN tree /\ Found(r) = {tree[Target(r)]}
        BY <3>1, <4>3, CopyingParts DEF CopiesInv, CopyAt
      <4>5. Target(r) \in DOMAIN tree' /\ tree'[Target(r)] = tree[Target(r)]
        BY <1>3, <2>3, <4>4, SpreadKeeps
      <4> QED
        BY <4>4, <4>5
    <3> QED
      BY <2>1, <3>1, <3>2 DEF CopyNext
  <2> QED
    BY <2>2, <2>3
<1>7. CopiesInv'
  BY <1>6, CopiesNext
<1> QED
  BY <1>5, <1>7

-----------------------------------------------------------------------------
(* The receiver's steps.                                                   *)

\* What has been sent stays what it is.
LEMMA SentSame ==
  ASSUME Copying, UNCHANGED <<job, sent>>
  PROVE  NamesInv' /\ PartsInv'
<1>1. Visited' = Visited /\ \A q : Found(q)' = Found(q)
  BY JobKept
<1>2. \A k, q, node :
        /\ Names(k, q)' <=> Names(k, q)
        /\ IsOf(k, q)' <=> IsOf(k, q)
        /\ IsData(k)' <=> IsData(k)
        /\ Announces(k, node)' <=> Announces(k, node)
        /\ IsDataOf(k, node)' <=> IsDataOf(k, node)
  BY SentKept
<1>3. NamesInv /\ PartsInv
  BY CopyingParts
<1>4. NamesInv'
  BY <1>1, <1>2, <1>3, Zenon DEF NamesInv
<1>5. PartsInv'
  BY <1>1, <1>2, <1>3, Zenon DEF PartsInv
<1> QED
  BY <1>4, <1>5

LEMMA SenderSame ==
  ASSUME Copying, UNCHANGED <<job, sent, sendVars>>
  PROVE  NamesInv' /\ PartsInv' /\ WholeInv' /\ ChunksInv' /\ CallsInv' /\ ClosedInv'
<1>1. /\ Visited' = Visited
      /\ \A q : Found(q)' = Found(q) /\ RemoteName(q)' = RemoteName(q)
                /\ Entries(q)' = Entries(q)
  BY JobKept
<1>2. \A k, q, node :
        /\ Announced(q, k)' <=> Announced(q, k)
        /\ IsOf(k, q)' <=> IsOf(k, q)
        /\ IsData(k)' <=> IsData(k)
        /\ EndOf(k)' = EndOf(k)
        /\ Whole(k, node)' <=> Whole(k, node)
  BY SentKept
<1>3. WholeInv /\ ChunksInv /\ CallsInv /\ ClosedInv
  BY CopyingParts
<1>4. UNCHANGED <<pc, stack, file>>
  BY DEF sendVars
<1>5. WholeInv'
  BY <1>1, <1>2, <1>3, <1>4, Zenon DEF WholeInv
<1>6. ChunksInv'
  <2>1. FileSize' = FileSize
    BY <1>4 DEF FileSize
  <2> QED
    BY <1>1, <1>2, <1>3, <1>4, <2>1, Zenon DEF ChunksInv
<1>7. CallsInv'
  <2>1. \A call : IsCall(call)' <=> IsCall(call)
    BY <1>1, Zenon DEF IsCall
  <2> QED
    BY <1>3, <1>4, <2>1, Zenon DEF CallsInv
<1>8. ClosedInv'
  <2>1. pc' = pc /\ stack' = stack /\ sent' = sent /\ job' = job
    BY <1>4
  <2>2. \A q : Announced(q, Len(sent))' <=> Announced(q, Len(sent))
    BY <1>2, <2>1
  <2>3. \A q, n : Pending(q, n)' <=> Pending(q, n)
    BY <2>1, Zenon DEF Pending
  <2>4. Announced(job.local, Len(sent))' <=> Announced(job.local, Len(sent))
    BY <2>1, <2>2
  <2> QED
    BY <1>1, <1>3, <2>1, <2>2, <2>3, <2>4, Zenon DEF ClosedInv
<1> QED
  BY <1>5, <1>6, <1>7, <1>8, SentSame

LEMMA NameCopies ==
  ASSUME Copying, NEW d \in Nat, d = Len(delivered), d < Len(sent), faults' = 0,
         ReceiveMeta(sent[d + 1]) \/ ReceiveDirEnter(sent[d + 1])
  PROVE  \E q \in Visited : Names(d + 1, q) /\ Taken(d + 1, q)
<1> DEFINE k == d + 1
           packet == sent[k]
<1>1. /\ k \in 1 .. Len(sent) /\ Doing
      /\ packet \in Packet /\ packet.cmd \in {"FILE_META", "DIR_ENTER"}
  BY CopyingParts DEF ReceiveMeta, ReceiveDirEnter
<1>2. PICK q \in Visited : Names(k, q)
  BY <1>1, CopyingParts DEF NamesInv
<1>3. PICK node : Found(q) = {node} /\ Announces(k, node)
  BY <1>1, <1>2, NamedIs
<1>4. packet.name = Target(q)
  BY <1>2 DEF Names
<1>5. CASE ReceiveMeta(packet)
  <2>1. packet.cmd = "FILE_META" /\ packet.type \in Type
    BY <1>1, <1>5, PacketKinds DEF ReceiveMeta
  <2>2. CASE packet.type = "regular"
    <3>1. node.kind = "file"
      BY <1>3, <2>1, <2>2 DEF Announces
    <3>2. /\ Spread(Target(q)) /\ current_fd' = Target(q)
          /\ Target(q) \in DOMAIN tree' /\ tree'[Target(q)] = File(<<>>)
      BY <1>1, <1>3, <1>4, <1>5, <2>2, <3>1, CopyFileMeta
    <3> QED
      BY <1>2, <2>1, <2>2, <3>2 DEF Taken
  <2>3. CASE packet.type = "symlink"
    <3>1. node.kind = "link"
      BY <1>3, <2>1, <2>3 DEF Announces
    <3>2. /\ Spread(Target(q)) /\ IsKind(tree', Front(Target(q)), "dir")
          /\ Target(q) \in DOMAIN tree' =>
               Target(q) \in DOMAIN tree /\ tree'[Target(q)] = tree[Target(q)]
      BY <1>1, <1>3, <1>4, <1>5, <2>3, <3>1, CopyLinkMeta
    <3> QED
      BY <1>2, <2>1, <2>3, <3>2 DEF Taken
  <2> QED
    BY <2>1, <2>2, <2>3 DEF Type
<1>6. CASE ReceiveDirEnter(packet)
  <2>1. packet.cmd = "DIR_ENTER"
    BY <1>6 DEF ReceiveDirEnter
  <2>2. Dir \in Found(q)
    BY <1>3, <2>1 DEF Announces
  <2>3. Spread(Target(q)) /\ Target(q) \in DOMAIN tree' /\ tree'[Target(q)] = Dir
    BY <1>1, <1>4, <1>6, <2>2, CopyDir
  <2> QED
    BY <1>2, <2>1, <2>3 DEF Taken
<1> QED
  BY <1>5, <1>6

LEMMA ReceiveCopies ==
  ASSUME Copying, Receive, faults' = 0
  PROVE  CopyInv'
<1> DEFINE d == Len(delivered)
<1>1. Sending /\ Chan!TypeOK
  BY CopyingParts
<1>2. /\ d \in Nat /\ d < Len(sent) /\ Len(delivered') = d + 1
      /\ UNCHANGED <<job, sent, sendVars, up>>
  BY <1>1, CopyingParts, DeliverChan DEF Inv, Receive
<1>3. TreeInv' /\ CopiesInv'
  <2>1. CASE ReceiveMeta(sent[d + 1]) \/ ReceiveDirEnter(sent[d + 1])
    <3>1. PICK q \in Visited : Names(d + 1, q) /\ Taken(d + 1, q)
      BY <1>2, <2>1, NameCopies
    <3> QED
      BY <1>2, <3>1, TakenCopies
  <2>2. CASE ReceiveData(sent[d + 1])
    BY <1>2, <2>2, DataCopies
  <2>3. CASE ReceiveDirLeave(sent[d + 1]) \/ ReceiveEnd(sent[d + 1])
    <3>1. UNCHANGED tree /\ sent[d + 1].cmd \in {"DIR_LEAVE", "TRANSFER_END"}
      BY <2>3 DEF ReceiveDirLeave, ReceiveEnd
    <3> QED
      BY <1>2, <3>1, PassedCopies
  <2> QED
    BY <2>1, <2>2, <2>3 DEF Receive
<1>4. EndInv'
  <2>1. UNCHANGED <<pc, stack>> /\ EndInv
    BY <1>2, CopyingParts DEF sendVars
  <2>2. ~completed
    BY <1>2, <2>1 DEF EndInv
  <2>3. completed' => Len(delivered') = Len(sent') /\ pc' \in {"ended", "done"}
    <3>1. completed' => sent[d + 1].cmd = "TRANSFER_END"
      BY <2>2 DEF Receive, ReceiveMeta, ReceiveData, ReceiveDirEnter, ReceiveDirLeave, ReceiveEnd
    <3>2. d + 1 \in 1 .. Len(sent)
      BY <1>2, CopyingParts
    <3> QED
      BY <1>2, <2>1, <3>1, <3>2 DEF EndInv
  <2> QED
    BY <1>2, <2>1, <2>3 DEF EndInv
<1>5. NamesInv' /\ PartsInv' /\ WholeInv' /\ ChunksInv' /\ CallsInv' /\ ClosedInv'
  BY <1>2, SenderSame
<1>6. up'
  BY <1>2, CopyingParts
<1> QED
  BY <1>3, <1>4, <1>5, <1>6 DEF CopyInv

-----------------------------------------------------------------------------
(* The sender keeps what the copy is made of.                              *)

LEMMA SentGrown ==
  ASSUME Copying, UNCHANGED job, NEW packet \in Packet, Announce(packet)
  PROVE  /\ Len(sent') = Len(sent) + 1 /\ sent'[Len(sent) + 1] = packet
         /\ UNCHANGED delivered
         /\ \A k \in 1 .. Len(sent) : sent'[k] = sent[k]
         /\ \A k \in 0 .. Len(sent) : \A q :
              /\ Announced(q, k)' <=> Announced(q, k)
              /\ IsOf(k, q)' <=> IsOf(k, q)
         /\ \A k \in 1 .. Len(sent) : \A q, node :
              /\ Names(k, q)' <=> Names(k, q)
              /\ IsData(k)' <=> IsData(k)
              /\ EndOf(k)' = EndOf(k)
              /\ Announces(k, node)' <=> Announces(k, node)
              /\ Whole(k, node)' <=> Whole(k, node)
         /\ \A k \in 2 .. Len(sent) : \A node : IsDataOf(k, node)' <=> IsDataOf(k, node)
<1> DEFINE s == Len(sent)
<1>1. /\ s \in Nat /\ Len(sent') = s + 1 /\ sent'[s + 1] = packet
      /\ \A k \in 1 .. s : sent'[k] = sent[k]
      /\ UNCHANGED delivered
  BY CopyingParts, AnnounceChan DEF Inv
<1>2. \A q : Target(q)' = Target(q)
  BY JobKept
<1>3. \A k \in 1 .. s : /\ IsData(k)' <=> IsData(k)
                        /\ OfFile(k)' <=> OfFile(k)
                        /\ \A q : Names(k, q)' <=> Names(k, q)
  BY <1>1, <1>2 DEF IsData, OfFile, Names
<1>4. \A k \in 1 .. s : EndOf(k)' = EndOf(k)
  BY <1>1, <1>3 DEF EndOf
<1>5. \A k \in 0 .. s, m \in 1 .. s : MetaOf(m, k)' <=> MetaOf(m, k)
  BY <1>1 DEF MetaOf
<1>6. \A k \in 0 .. s : \A q : Announced(q, k)' <=> Announced(q, k)
  BY <1>1, <1>3 DEF Announced
<1>7. ASSUME NEW k \in 0 .. s, NEW q PROVE IsOf(k, q)' <=> IsOf(k, q)
  <2>1. \A m \in 1 .. k : m \in 1 .. s /\ k \in 1 .. s
    BY <1>1
  <2> QED
    BY <1>3, <1>5, <2>1 DEF IsOf
<1>8. \A k \in 1 .. s : \A node : Announces(k, node)' <=> Announces(k, node)
  BY <1>1 DEF Announces
<1>9. \A k \in 1 .. s : \A node : Whole(k, node)' <=> Whole(k, node)
  BY <1>3, <1>4 DEF Whole
<1>10. ASSUME NEW k \in 2 .. s, NEW node PROVE IsDataOf(k, node)' <=> IsDataOf(k, node)
  <2>1. k \in 1 .. s /\ k - 1 \in 1 .. s
    BY <1>1
  <2>2. sent'[k] = sent[k] /\ EndOf(k)' = EndOf(k) /\ EndOf(k - 1)' = EndOf(k - 1)
    BY <1>1, <1>4, <2>1
  <2> QED
    BY <2>2 DEF IsDataOf
<1> QED
  BY <1>1, <1>3, <1>4, <1>6, <1>7, <1>8, <1>9, <1>10

\* The receiver's tree while the sender goes on.
LEMMA TreeSame ==
  ASSUME Copying, UNCHANGED <<job, delivered, fileVars>>,
         \A q : /\ Announced(q, Len(delivered))' <=> Announced(q, Len(delivered))
                /\ IsOf(Len(delivered), q)' <=> IsOf(Len(delivered), q),
         Len(delivered) \in 1 .. Len(sent) =>
           /\ IsData(Len(delivered))' <=> IsData(Len(delivered))
           /\ EndOf(Len(delivered))' = EndOf(Len(delivered))
  PROVE  TreeInv' /\ CopiesInv'
<1> DEFINE d == Len(delivered)
<1>1. /\ Visited' = Visited /\ \A q : Found(q)' = Found(q) /\ Target(q)' = Target(q)
  BY JobKept
<1>2. UNCHANGED <<tree, current_fd, job>>
  BY DEF fileVars
<1>3. TreeInv /\ \A q \in Visited : CopyAt(q, d)
  BY CopyingParts DEF CopiesInv
<1>4. TreeInv'
  BY <1>1, <1>2, <1>3, Zenon DEF TreeInv
<1>5. ASSUME NEW q \in Visited PROVE CopyAt(q, d)'
  <2>1. IsOf(d, q) => d \in 1 .. Len(sent)
    BY CopyingParts DEF IsOf
  <2>2. /\ Announced(q, d)' <=> Announced(q, d)
        /\ IsOf(d, q)' <=> IsOf(d, q)
        /\ IsOf(d, q) => (IsData(d)' <=> IsData(d)) /\ EndOf(d)' = EndOf(d)
    BY <2>1
  <2>3. Found(q)' = Found(q) /\ Target(q)' = Target(q) /\ CopyAt(q, d)
    BY <1>1, <1>3
  <2> HIDE DEF d
  <2> QED
    BY <1>2, <2>2, <2>3 DEF CopyAt, IsKind
<1>6. d' = d
  OBVIOUS
<1>7. CopiesInv'
  BY <1>1, <1>5, <1>6 DEF CopiesInv
<1> QED
  BY <1>4, <1>7

LEMMA TreeGrown ==
  ASSUME Copying, UNCHANGED <<job, fileVars>>, NEW packet \in Packet, Announce(packet)
  PROVE  TreeInv' /\ CopiesInv'
<1>1. Len(delivered) \in 0 .. Len(sent)
  BY CopyingParts
<1>2. /\ UNCHANGED delivered
      /\ \A q : /\ Announced(q, Len(delivered))' <=> Announced(q, Len(delivered))
                /\ IsOf(Len(delivered), q)' <=> IsOf(Len(delivered), q)
      /\ Len(delivered) \in 1 .. Len(sent) =>
           /\ IsData(Len(delivered))' <=> IsData(Len(delivered))
           /\ EndOf(Len(delivered))' = EndOf(Len(delivered))
  BY <1>1, SentGrown
<1> QED
  BY <1>2, TreeSame

\* What is announced is to be copied.
LEMMA NamesGrown ==
  ASSUME Copying, UNCHANGED job, NEW packet \in Packet, Announce(packet),
         packet.cmd \in {"FILE_META", "DIR_ENTER"} =>
           \E q \in Visited : /\ packet.name = Target(q)
                              /\ \E node \in Found(q) :
                                   IF packet.cmd = "DIR_ENTER" THEN node = Dir
                                   ELSE node.kind = IF packet.type = "regular"
                                                    THEN "file" ELSE "link"
  PROVE  NamesInv'
<1> DEFINE s == Len(sent)
<1>1. /\ Visited' = Visited /\ \A q : Found(q)' = Found(q) /\ Target(q)' = Target(q)
  BY JobKept
<1>2. /\ s \in Nat /\ Len(sent') = s + 1 /\ sent'[s + 1] = packet
      /\ \A k \in 1 .. s : sent'[k] = sent[k]
      /\ \A k \in 1 .. s : \A q, node :
           /\ Names(k, q)' <=> Names(k, q)
           /\ Announces(k, node)' <=> Announces(k, node)
  BY CopyingParts, SentGrown
<1>3. ASSUME NEW k \in 1 .. s + 1, sent'[k].cmd \in {"FILE_META", "DIR_ENTER"}
      PROVE  \E q \in Visited : Names(k, q)' /\ \E node \in Found(q) : Announces(k, node)'
  <2>1. CASE k = s + 1
    BY <1>1, <1>2, <1>3, <2>1 DEF Names, Announces
  <2>2. CASE k \in 1 .. s
    <3>1. \E q \in Visited : Names(k, q) /\ \E node \in Found(q) : Announces(k, node)
      BY <1>2, <1>3, <2>2, CopyingParts DEF NamesInv
    <3> QED
      BY <1>2, <2>2, <3>1
  <2> QED
    BY <1>2, <2>1, <2>2
<1> QED
  BY <1>1, <1>2, <1>3 DEF NamesInv

\* What the new packet is of.
LEMMA OfNew ==
  ASSUME Copying, UNCHANGED job, NEW packet \in Packet, Announce(packet),
         NEW s \in Nat, s = Len(sent),
         packet.cmd = "FILE_DATA" =>
           OfFile(s) /\ \E m \in 1 .. s : MetaOf(m, s),
         NEW q
  PROVE  /\ IsData(s + 1)' <=> packet.cmd = "FILE_DATA"
         /\ packet.cmd = "FILE_META" => (IsOf(s + 1, q)' <=> packet.name = Target(q))
         /\ packet.cmd = "FILE_DATA" => (IsOf(s + 1, q)' <=> IsOf(s, q))
         /\ packet.cmd \notin {"FILE_META", "FILE_DATA"} => ~IsOf(s + 1, q)'
<1> DEFINE k == s + 1
<1>1. /\ s \in Nat /\ sent'[k] = packet /\ \A i \in 1 .. s : sent'[i] = sent[i]
      /\ \A i \in 1 .. s : Names(i, q)' <=> Names(i, q)
  BY CopyingParts, SentGrown
<1>2. IsData(k)' <=> packet.cmd = "FILE_DATA"
  BY <1>1 DEF IsData
<1>3. OfFile(k)' <=> packet.cmd \in {"FILE_META", "FILE_DATA"}
  BY <1>1 DEF OfFile
<1>4. ASSUME packet.cmd = "FILE_META" PROVE IsOf(k, q)' <=> packet.name = Target(q)
  <2>1. \A m \in 1 .. k : MetaOf(m, k)' <=> m = k
    BY <1>1, <1>4 DEF MetaOf
  <2>2. Names(k, q)' <=> packet.name = Target(q)
    BY <1>1, <1>4, JobKept DEF Names
  <2>3. k \in 1 .. k
    BY <1>1
  <2> QED
    BY <1>3, <1>4, <2>1, <2>2, <2>3 DEF IsOf
<1>5. ASSUME packet.cmd = "FILE_DATA" PROVE IsOf(k, q)' <=> IsOf(s, q)
  <2>1. ASSUME NEW m \in 1 .. k PROVE MetaOf(m, k)' <=> m \in 1 .. s /\ MetaOf(m, s)
    <3>1. CASE m = k
      BY <1>1, <1>5, <3>1 DEF MetaOf
    <3>2. CASE m # k
      <4>1. m \in 1 .. s /\ \A l \in m + 1 .. s : l \in 1 .. s
        BY <1>1, <3>2
      <4>2. \A l : l \in m + 1 .. k <=> l \in m + 1 .. s \/ l = k
        BY <1>1, <4>1
      <4> QED
        BY <1>1, <1>5, <4>1, <4>2 DEF MetaOf
    <3> QED
      BY <3>1, <3>2
  <2>2. OfFile(s) /\ \A m \in 1 .. s : m \in 1 .. k
    BY <1>1, <1>5
  <2> QED
    BY <1>1, <1>3, <1>5, <2>1, <2>2 DEF IsOf
<1>6. packet.cmd \notin {"FILE_META", "FILE_DATA"} => ~IsOf(k, q)'
  BY <1>3 DEF IsOf
<1> QED
  BY <1>2, <1>4, <1>5, <1>6

\* Data is that of the source.
LEMMA PartsGrown ==
  ASSUME Copying, UNCHANGED job, NEW packet \in Packet, Announce(packet),
         NEW s \in Nat, s = Len(sent),
         packet.cmd = "FILE_DATA" =>
           /\ OfFile(s) /\ \E m \in 1 .. s : MetaOf(m, s)
           /\ \A q \in Visited : IsOf(s, q) =>
                \A node \in Found(q) : IsDataOf(s + 1, node)'
  PROVE  PartsInv'
<1>1. Visited' = Visited /\ \A q : Found(q)' = Found(q)
  BY JobKept
<1>2. /\ s \in Nat /\ Len(sent') = s + 1
      /\ \A k \in 1 .. s : \A q : (IsOf(k, q)' <=> IsOf(k, q)) /\ (IsData(k)' <=> IsData(k))
      /\ \A k \in 2 .. s : \A node : IsDataOf(k, node)' <=> IsDataOf(k, node)
  BY CopyingParts, SentGrown
<1>3. ASSUME NEW k \in 1 .. s + 1, NEW q \in Visited, IsData(k)', IsOf(k, q)',
             NEW node \in Found(q)
      PROVE  IsDataOf(k, node)'
  <2>1. CASE k = s + 1
    <3>1. packet.cmd = "FILE_DATA" /\ IsOf(s, q)
      BY <1>3, <2>1, OfNew
    <3> QED
      BY <2>1, <3>1
  <2>2. CASE k \in 1 .. s
    <3>1. IsData(k) /\ IsOf(k, q)
      BY <1>2, <1>3, <2>2
    <3>2. k > 1
      BY <2>2, <3>1 DEF Copying, AnnounceInv, FollowsMeta
    <3>3. IsDataOf(k, node)
      BY <2>2, <3>1, CopyingParts DEF PartsInv
    <3>4. k \in 2 .. s
      BY <1>2, <2>2, <3>2
    <3> QED
      BY <1>2, <3>3, <3>4
  <2> QED
    BY <1>2, <2>1, <2>2
<1> QED
  BY <1>1, <1>2, <1>3 DEF PartsInv

\* What is left to send of the path of the last packet.
Coming(node) ==
  \/ pc = "link" /\ node = Link(file.to)
  \/ pc = "chunks" /\ node = File(file.data)

LEMMA WholeGrown ==
  ASSUME Copying, UNCHANGED job, NEW packet \in Packet, Announce(packet),
         NEW s \in Nat, s = Len(sent),
         packet.cmd = "FILE_DATA" =>
           OfFile(s) /\ \E m \in 1 .. s : MetaOf(m, s),
         packet.cmd # "FILE_DATA" => pc \notin {"link", "chunks"},
         \A q \in Visited : IsOf(s + 1, q)' =>
           \A node \in Found(q) : Whole(s + 1, node)' \/ Coming(node)'
  PROVE  WholeInv'
<1>1. Visited' = Visited /\ \A q : Found(q)' = Found(q)
  BY JobKept
<1>2. /\ Len(sent') = s + 1
      /\ \A k \in 1 .. s : \A q : IsOf(k, q)' <=> IsOf(k, q)
      /\ \A k \in 1 .. s : \A node : /\ IsData(k)' <=> IsData(k)
                                     /\ Whole(k, node)' <=> Whole(k, node)
  BY SentGrown
<1>3. ASSUME NEW k \in 1 .. s + 1, NEW q \in Visited, IsOf(k, q)', NEW node \in Found(q)
      PROVE  Whole(k, node)' \/ (k < s + 1 /\ IsData(k + 1)') \/ (k = s + 1 /\ Coming(node)')
  <2>1. CASE k = s + 1
    BY <1>3, <2>1
  <2>2. CASE k \in 1 .. s
    <3>1. Whole(k, node) \/ (k < s /\ IsData(k + 1)) \/ (k = s /\ pc \in {"link", "chunks"})
      BY <1>2, <1>3, <2>2, CopyingParts DEF WholeInv
    <3>2. CASE Whole(k, node)
      BY <1>2, <2>2, <3>2
    <3>3. CASE k < s /\ IsData(k + 1)
      <4>1. k + 1 \in 1 .. s /\ k < s + 1
        BY <1>2, <2>2, <3>3
      <4> QED
        BY <1>2, <3>3, <4>1
    <3>4. CASE k = s /\ pc \in {"link", "chunks"}
      <4>1. IsData(s + 1)' /\ k < s + 1
        BY <1>2, <3>4, OfNew
      <4> QED
        BY <3>4, <4>1
    <3> QED
      BY <3>1, <3>2, <3>3, <3>4
  <2> QED
    BY <1>2, <2>1, <2>2
<1> QED
  BY <1>1, <1>2, <1>3 DEF WholeInv, Coming

\* What is left to do is not forgotten.
LEMMA ClosedNext ==
  ASSUME Copying, UNCHANGED job, pc' # "run",
         pc' # "failed" => Announced(job.local, Len(sent))',
         \A q \in Visited : Announced(q, Len(sent)) => Announced(q, Len(sent))',
         \A q \in Visited : Announced(q, Len(sent))' /\ Dir \in Found(q) =>
           \/ Announced(q, Len(sent))
           \/ \A n \in Entries(q) : Pending(q, n)',
         \A q \in Visited : \A n \in Entries(q) : Pending(q, n) /\ Append(q, n) \in Visited =>
           Pending(q, n)' \/ Announced(Append(q, n), Len(sent))'
  PROVE  ClosedInv'
<1>1. /\ Visited' = Visited /\ \A q : Found(q)' = Found(q) /\ Entries(q)' = Entries(q)
  BY JobKept
<1>2. ASSUME NEW q \in Visited, Announced(q, Len(sent))', Dir \in Found(q),
             NEW n \in Entries(q), Append(q, n) \in Visited
      PROVE  Announced(Append(q, n), Len(sent))' \/ Pending(q, n)'
  <2>1. CASE Announced(q, Len(sent))
    <3>1. Announced(Append(q, n), Len(sent)) \/ Pending(q, n)
      BY <1>2, <2>1, CopyingParts DEF ClosedInv
    <3> QED
      BY <1>2, <3>1
  <2>2. CASE ~Announced(q, Len(sent))
    BY <1>2, <2>2
  <2> QED
    BY <2>1, <2>2
<1>3. \A q \in Visited : Announced(q, Len(sent))' /\ Dir \in Found(q) =>
        \A n \in Entries(q) : Append(q, n) \in Visited =>
          Announced(Append(q, n), Len(sent))' \/ Pending(q, n)'
  BY <1>2
<1> QED
  BY <1>1, <1>3 DEF ClosedInv

LEMMA CallSame == ASSUME UNCHANGED job PROVE \A call : IsCall(call)' <=> IsCall(call)
<1>1. /\ Visited' = Visited
      /\ \A q : Found(q)' = Found(q) /\ RemoteName(q)' = RemoteName(q)
                /\ Entries(q)' = Entries(q)
  BY JobKept
<1> QED
  BY <1>1, Zenon DEF IsCall

\* The end has not come.
LEMMA EndGrown ==
  ASSUME Copying, UNCHANGED completed, NEW packet \in Packet, Announce(packet), UNCHANGED job,
         pc \notin {"ended", "done"}, packet.cmd # "TRANSFER_END",
         pc' \notin {"ended", "done"}, pc' = "end" => stack' = <<>>
  PROVE  EndInv'
<1> DEFINE s == Len(sent)
<1>1. /\ s \in Nat /\ Len(sent') = s + 1 /\ sent'[s + 1] = packet
      /\ \A k \in 1 .. s : sent'[k] = sent[k]
  BY CopyingParts, SentGrown
<1>2. ~completed /\ \A k \in 1 .. s : sent[k].cmd # "TRANSFER_END"
  BY CopyingParts DEF EndInv
<1>3. \A k \in 1 .. s + 1 : sent'[k].cmd # "TRANSFER_END"
  BY <1>1, <1>2
<1> QED
  BY <1>1, <1>2, <1>3 DEF EndInv

\* A path that has not been announced is announced, and what is in it is left to
\* do if it is a directory.
LEMMA AnnouncedCopies ==
  ASSUME Copying, UNCHANGED <<job, up, fileVars>>, pc \in {"run", "walk"},
         NEW q \in Visited, NEW node \in Found(q), NEW packet \in Packet, Announce(packet),
         packet.name = Target(q),
         \/ packet.cmd = "DIR_ENTER" /\ node = Dir /\ pc' = "walk"
         \/ packet = Meta(Target(q), "symlink") /\ node.kind = "link" /\ pc' = "link"
         \/ packet = Meta(Target(q), "regular") /\ node.kind = "file" /\ pc' = "chunks",
         pc' = "link" => file' = [to |-> node.to],
         pc' = "chunks" => file' = [data |-> node.data, chunk |-> 0, offset |-> 0],
         \A i \in 1 .. Len(stack') : IsCall(stack'[i]),
         node = Dir => \A n \in Entries(q) : Pending(q, n)',
         \A r, n : Pending(r, n) => Pending(r, n)' \/ Append(r, n) = q,
         Announced(job.local, Len(sent)) \/ q = job.local
  PROVE  CopyInv'
<1>1. PICK s \in Nat : s = Len(sent)
  BY CopyingParts
<1>2. /\ Len(sent') = s + 1 /\ sent'[s + 1] = packet
      /\ \A k \in 0 .. s : \A r : Announced(r, k)' <=> Announced(r, k)
      /\ \A k \in 1 .. s : \A r : Names(k, r)' <=> Names(k, r)
  BY <1>1, SentGrown
<1>3. q \in Path /\ job \in Jobs /\ IsNode(node) /\ Found(q) = {node}
  <2>1. job \in Jobs
    BY CopyingParts DEF Doing
  <2>2. q \in Path
    BY <2>1, VisitedBelow
  <2> QED
    BY <2>1, <2>2, FoundNode, FoundOnce
<1>4. /\ packet.cmd \in {"FILE_META", "DIR_ENTER"} /\ packet.cmd # "FILE_DATA"
      /\ packet.cmd = "DIR_ENTER" => node = Dir /\ pc' = "walk"
      /\ packet.cmd = "FILE_META" => Coming(node)' /\ node # Dir
      /\ IF packet.cmd = "DIR_ENTER" THEN node = Dir
         ELSE node.kind = IF packet.type = "regular" THEN "file" ELSE "link"
  <2>1. CASE packet.cmd = "DIR_ENTER" /\ node = Dir /\ pc' = "walk"
    BY <2>1
  <2>2. CASE packet = Meta(Target(q), "symlink") /\ node.kind = "link" /\ pc' = "link"
    <3>1. node = Link(node.to)
      BY <1>3, <2>2 DEF IsNode, Dir
    <3>2. Coming(node)'
      BY <2>2, <3>1 DEF Coming
    <3> QED
      BY <2>2, <3>2 DEF Meta, Dir
  <2>3. CASE packet = Meta(Target(q), "regular") /\ node.kind = "file" /\ pc' = "chunks"
    <3>1. node = File(node.data)
      BY <1>3, <2>3 DEF IsNode, Dir
    <3>2. Coming(node)'
      BY <2>3, <3>1 DEF Coming
    <3> QED
      BY <2>3, <3>2 DEF Meta, Dir
  <2> QED
    BY <2>1, <2>2, <2>3
<1>5. NamesInv'
  BY <1>4, NamesGrown
<1>6. PartsInv'
  BY <1>1, <1>4, PartsGrown
<1>7. \A r \in Visited : IsOf(s + 1, r)' <=> packet.cmd = "FILE_META" /\ r = q
  <2>1. \A r \in Visited : Target(r) = Target(q) <=> r = q
    BY SameTarget DEF Copying
  <2> QED
    BY <1>1, <1>4, <2>1, OfNew
<1>8. WholeInv'
  <2>1. \A r \in Visited : IsOf(s + 1, r)' =>
          \A x \in Found(r) : Whole(s + 1, x)' \/ Coming(x)'
    BY <1>3, <1>4, <1>7
  <2> QED
    BY <1>1, <1>4, <2>1, WholeGrown
<1>9. ChunksInv'
  <2>1. CASE pc' = "chunks"
    <3>1. /\ file' = [data |-> node.data, chunk |-> 0, offset |-> 0] /\ node.kind = "file"
          /\ packet.cmd = "FILE_META"
      BY <1>4, <2>1 DEF Dir
    <3>2. FileSize' = Size(node) /\ Size(node) \in Nat
      BY <1>3, <3>1, FoundNode DEF FileSize, Size
    <3>3. EndOf(s + 1)' = 0
      BY <1>2, <3>1 DEF EndOf, IsData
    <3>4. file'.offset = IF file'.chunk * ChunkSize < FileSize'
                         THEN file'.chunk * ChunkSize ELSE FileSize'
      BY <3>1, <3>2, SizesAssumption
    <3>5. node = File(node.data)
      BY <1>3, <3>1, NodeKinds
    <3>6. Visited' = Visited /\ Found(q)' = Found(q)
      BY JobKept
    <3>7. q \in Visited' /\ IsOf(Len(sent), q)' /\ Found(q)' = {File(file'.data)}
      BY <1>2, <1>3, <1>7, <3>1, <3>5, <3>6
    <3> QED
      BY <1>2, <3>1, <3>3, <3>4, <3>7 DEF ChunksInv
  <2> QED
    BY <2>1 DEF ChunksInv
<1>10. CallsInv'
  BY CallSame DEF CallsInv
<1>11. ClosedInv'
  <2>1. Announced(q, Len(sent))'
    <3>1. Names(s + 1, q)'
      BY <1>2, <1>4, JobKept DEF Names
    <3>2. s + 1 \in 1 .. s + 1
      BY <1>1
    <3> QED
      BY <1>2, <3>1, <3>2 DEF Announced
  <2>2. ASSUME NEW r \in Visited, Announced(r, s) PROVE Announced(r, Len(sent))'
    <3>1. PICK k \in 1 .. s : Names(k, r)
      BY <2>2 DEF Announced
    <3>2. k \in 1 .. s + 1 /\ Names(k, r)'
      BY <1>1, <1>2, <3>1
    <3> QED
      BY <1>2, <3>2 DEF Announced
  <2>3. ASSUME NEW r \in Visited, Announced(r, Len(sent))' PROVE Announced(r, s) \/ r = q
    <3>1. PICK k \in 1 .. s + 1 : Names(k, r)'
      BY <1>2, <2>3 DEF Announced
    <3>2. CASE k = s + 1
      <4>1. Target(r) = Target(q)
        BY <1>2, <3>1, <3>2, JobKept DEF Names
      <4> QED
        BY <4>1, SameTarget DEF Copying
    <3>3. CASE k \in 1 .. s
      BY <1>2, <3>1, <3>3 DEF Announced
    <3> QED
      BY <1>1, <3>2, <3>3
  <2>4. Announced(job.local, Len(sent))'
    <3>1. job.local \in Visited /\ job' = job
      BY <1>3, LocalVisited
    <3>2. Announced(job.local, s) => \E r \in Visited : r = job'.local /\ Announced(r, Len(sent))'
      BY <2>2, <3>1
    <3>3. \E r \in Visited : r = job'.local /\ Announced(r, Len(sent))'
      BY <1>1, <2>1, <3>1, <3>2
    <3> QED
      BY <3>3
  <2>5. \A r \in Visited : Announced(r, Len(sent))' /\ Dir \in Found(r) =>
          Announced(r, Len(sent)) \/ \A n \in Entries(r) : Pending(r, n)'
    BY <1>1, <1>3, <2>3
  <2>6. \A r \in Visited : \A n \in Entries(r) : Pending(r, n) /\ Append(r, n) \in Visited =>
          Pending(r, n)' \/ Announced(Append(r, n), Len(sent))'
    BY <2>1
  <2>7. pc' \notin {"run", "failed"}
    BY <1>4
  <2> QED
    BY <1>1, <2>2, <2>4, <2>5, <2>6, <2>7, ClosedNext
<1>12. EndInv'
  BY <1>4, EndGrown DEF fileVars
<1>13. TreeInv' /\ CopiesInv'
  BY TreeGrown
<1>14. up'
  BY CopyingParts
<1> QED
  BY <1>5, <1>6, <1>8, <1>9, <1>10, <1>11, <1>12, <1>13, <1>14 DEF CopyInv

\* The entry is left to do in one of the calls.
LeftIn(calls, q, n) == \E i \in 1 .. Len(calls) : calls[i].local = q /\ n \in calls[i].left

LEMMA SendCopies ==
  ASSUME Copying, faults' = 0, UNCHANGED <<job, up, fileVars>>, pc \in {"run", "walk"},
         NEW q \in Visited, NEW node \in Found(q), NEW calls \in Seq(Call),
         Send(node, q, RemoteName(q), calls),
         \A i \in 1 .. Len(calls) : IsCall(calls[i]),
         \A r, n : Pending(r, n) => LeftIn(calls, r, n) \/ Append(r, n) = q,
         Announced(job.local, Len(sent)) \/ q = job.local
  PROVE  CopyInv'
<1>1. job \in Jobs /\ Target(q) \in Path /\ Target(q) = Cut(RemoteName(q))
  <2>1. job \in Jobs
    BY CopyingParts DEF Doing
  <2> QED
    BY <2>1, Remote
<1>2. IsNode(node)
  BY <1>1, FoundNode
<1>3. ~SendFails
  BY DEF SendFails, Fails, Copying
<1>4. ASSUME stack' = calls
      PROVE  /\ \A i \in 1 .. Len(stack') : IsCall(stack'[i])
             /\ \A r, n : Pending(r, n) => Pending(r, n)' \/ Append(r, n) = q
  BY <1>4 DEF LeftIn, Pending
<1>5. CASE SendSymlink(node, RemoteName(q), calls) /\ node.kind = "link"
  <2> DEFINE packet == Meta(Target(q), "symlink")
  <2>1. /\ Announce(packet) /\ file' = [to |-> node.to] /\ stack' = calls /\ pc' = "link"
    BY <1>1, <1>5 DEF SendSymlink
  <2>2. packet \in Packet /\ packet.name = Target(q) /\ node # Dir
    BY <1>1, <1>5 DEF Meta, Packet, Type, Dir
  <2>3. packet = Meta(Target(q), "symlink")
    OBVIOUS
  <2> HIDE DEF packet
  <2> QED
    BY <1>4, <1>5, <2>1, <2>2, <2>3, AnnouncedCopies
<1>6. CASE SendFile(node, RemoteName(q), calls) /\ node.kind = "file"
  <2> DEFINE packet == Meta(Target(q), "regular")
  <2>1. /\ Announce(packet) /\ file' = [data |-> node.data, chunk |-> 0, offset |-> 0]
        /\ stack' = calls /\ pc' = "chunks"
    BY <1>1, <1>6 DEF SendFile
  <2>2. packet \in Packet /\ packet.name = Target(q) /\ node # Dir
    BY <1>1, <1>6 DEF Meta, Packet, Type, Dir
  <2>3. packet = Meta(Target(q), "regular")
    OBVIOUS
  <2> HIDE DEF packet
  <2> QED
    BY <1>4, <1>6, <2>1, <2>2, <2>3, AnnouncedCopies
<1>7. CASE SendDirectory(q, RemoteName(q), calls) /\ node.kind = "dir"
  <2> DEFINE packet == DirEnter(Target(q))
             call == [local |-> q, remote |-> RemoteName(q), left |-> Entries(q)]
  <2>1. Announce(packet) /\ stack' = Append(calls, call) /\ pc' = "walk"
    BY <1>1, <1>7 DEF SendDirectory
  <2>2. packet \in Packet /\ packet.name = Target(q) /\ packet.cmd = "DIR_ENTER"
    BY <1>1 DEF DirEnter, Packet
  <2>3. node = Dir
    BY <1>2, <1>7, NodeKinds
  <2>4. call \in Call /\ IsCall(call) /\ call.local = q /\ call.left = Entries(q)
    <3>1. q \in Path /\ RemoteName(q) \in Path /\ Entries(q) \subseteq Name
      BY <1>1, VisitedBelow, Remote, EntriesAreNames
    <3> QED
      BY <2>3, <3>1 DEF Call, IsCall
  <2> HIDE DEF packet, call
  <2>5. /\ Len(calls) \in Nat /\ Len(stack') = Len(calls) + 1 /\ stack'[Len(calls) + 1] = call
        /\ \A i \in 1 .. Len(calls) : stack'[i] = calls[i]
    BY <2>1, <2>4, AppendProperties, LenProperties
  <2>6. \A i \in 1 .. Len(stack') : IsCall(stack'[i])
    <3>1. ASSUME NEW i \in 1 .. Len(calls) + 1 PROVE IsCall(stack'[i])
      BY <2>4, <2>5
    <3> QED
      BY <2>5, <3>1
  <2>7. \A r, n : LeftIn(calls, r, n) => Pending(r, n)'
    <3>1. \A i \in 1 .. Len(calls) : i \in 1 .. Len(stack')
      BY <2>5
    <3> QED
      BY <2>5, <3>1 DEF LeftIn, Pending
  <2>8. \A n \in Entries(q) : Pending(q, n)'
    <3>1. Len(calls) + 1 \in 1 .. Len(stack')
      BY <2>5
    <3> QED
      BY <2>4, <2>5, <3>1 DEF Pending
  <2>9. \A r, n : Pending(r, n) => Pending(r, n)' \/ Append(r, n) = q
    BY <2>7
  <2> QED
    BY <2>1, <2>2, <2>3, <2>6, <2>8, <2>9, AnnouncedCopies
<1> QED
  BY <1>3, <1>5, <1>6, <1>7 DEF Send

\* The entry that readdir returns.
LEMMA EntryIs ==
  ASSUME Copying, NEW n \in Name, NextEntry(n)
  PROVE  \E p \in Visited :
           /\ Dir \in Found(p) /\ n \in Entries(p)
           /\ Entry(n).path = Append(p, n) /\ Entry(n).name = RemoteName(Append(p, n))
           /\ Entry(n).calls \in Seq(Call)
           /\ \A i \in 1 .. Len(Entry(n).calls) : IsCall(Entry(n).calls[i])
           /\ \A r, m : Pending(r, m) => LeftIn(Entry(n).calls, r, m) \/ (r = p /\ m = n)
<1> DEFINE l == Len(stack)
           top == stack[l]
           rest == [top EXCEPT !.left = @ \ {n}]
           calls == Entry(n).calls
<1>1. Sending /\ Doing
  BY CopyingParts
<1>2. stack \in Seq(Call) /\ l \in 1 .. Len(stack) /\ l \in Nat /\ n \in top.left
  <2>1. stack \in Seq(Call) /\ stack # <<>> /\ n \in top.left
    BY <1>1 DEF Sending, Call, NextEntry
  <2> QED
    BY <2>1, EmptySeq, LenProperties
<1>3. top \in Call /\ IsCall(top)
  BY <1>2, CopyingParts, ElementOfSeq DEF CallsInv
<1>4. /\ Entry(n).path = Append(top.local, n) /\ Entry(n).name = Append(top.remote, n)
      /\ calls = [stack EXCEPT ![l] = rest]
  BY DEF Entry
<1>5. /\ rest \in Call /\ rest.local = top.local /\ rest.remote = top.remote
      /\ rest.left = top.left \ {n}
  BY <1>3 DEF Call
<1> HIDE DEF top, rest
<1>6. IsCall(rest)
  BY <1>3, <1>5 DEF IsCall
<1>7. /\ calls \in Seq(Call) /\ Len(calls) = l
      /\ \A i \in 1 .. l : calls[i] = IF i = l THEN rest ELSE stack[i]
  <2>1. calls \in Seq(Call) /\ Len(calls) = l
    BY <1>2, <1>4, <1>5, ExceptSeq
  <2>2. DOMAIN stack = 1 .. l
    BY <1>2, LenProperties
  <2> QED
    BY <1>4, <2>1, <2>2
<1> HIDE DEF calls
<1>8. \A i \in 1 .. Len(calls) : IsCall(calls[i])
  BY <1>6, <1>7, CopyingParts DEF CallsInv
<1>9. ASSUME NEW r, NEW m, Pending(r, m) PROVE LeftIn(calls, r, m) \/ (r = top.local /\ m = n)
  <2>1. PICK i \in 1 .. l : stack[i].local = r /\ m \in stack[i].left
    BY <1>9 DEF Pending
  <2>2. CASE i = l
    BY <1>2, <1>5, <1>7, <2>1, <2>2 DEF LeftIn, top
  <2>3. CASE i # l
    BY <1>7, <2>1, <2>3 DEF LeftIn
  <2> QED
    BY <2>2, <2>3
<1>10. top.local \in Visited /\ Dir \in Found(top.local) /\ n \in Entries(top.local)
  BY <1>2, <1>3 DEF IsCall, top
<1>11. Append(top.remote, n) = RemoteName(Append(top.local, n))
  <2>1. PICK p \in Visited : p = top.local
    BY <1>10
  <2>2. RemoteName(Append(p, n)) = Append(RemoteName(p), n)
    BY <1>1, RemoteOfEntry DEF Doing
  <2> QED
    BY <1>3, <2>1, <2>2 DEF IsCall
<1> QED
  BY <1>4, <1>7, <1>8, <1>9, <1>10, <1>11 DEF calls

\* Nothing is announced.
LEMMA QuietCopies ==
  ASSUME Copying, UNCHANGED <<job, up, chanVars, fileVars>>,
         WholeInv', ChunksInv', CallsInv', ClosedInv', EndInv'
  PROVE  CopyInv'
<1>1. UNCHANGED <<sent, delivered>>
  BY DEF chanVars
<1>2. \A k, q : /\ Announced(q, k)' <=> Announced(q, k)
                /\ IsOf(k, q)' <=> IsOf(k, q)
                /\ IsData(k)' <=> IsData(k)
                /\ EndOf(k)' = EndOf(k)
  BY <1>1, SentKept
<1>3. TreeInv' /\ CopiesInv'
  BY <1>1, <1>2, TreeSame
<1>4. NamesInv' /\ PartsInv'
  BY <1>1, SentSame
<1>5. up'
  BY CopyingParts
<1> QED
  BY <1>3, <1>4, <1>5 DEF CopyInv

\* Nothing is announced, and the calls stay as they are.
LEMMA QuietCalls ==
  ASSUME Copying, UNCHANGED <<job, sent, stack>>, pc # "run", pc' \notin {"run", "failed"},
         pc # "failed"
  PROVE  CallsInv' /\ ClosedInv'
<1>1. CallsInv'
  BY CopyingParts, CallSame DEF CallsInv
<1>2. \A q : Announced(q, Len(sent))' <=> Announced(q, Len(sent))
  BY SentKept
<1>3. Announced(job.local, Len(sent))'
  <2>1. Announced(job.local, Len(sent)) /\ job' = job
    BY CopyingParts DEF ClosedInv
  <2>2. \E q : q = job.local /\ Announced(q, Len(sent))
    BY <2>1
  <2>3. \E q : q = job.local /\ Announced(q, Len(sent))'
    BY <1>2, <2>2
  <2> QED
    BY <2>1, <2>3
<1>4. \A q, n : Pending(q, n)' <=> Pending(q, n)
  BY DEF Pending
<1> QED
  BY <1>1, <1>2, <1>3, <1>4, ClosedNext

LEMMA SenderRunCopies ==
  ASSUME Copying, faults' = 0, UNCHANGED <<job, up, fileVars>>, SenderRun
  PROVE  CopyInv'
<1>1. /\ job \in Jobs /\ job.local \in Visited /\ RemoteName(job.local) = FinalPath
      /\ pc = "run" /\ sent = <<>> /\ stack = <<>> /\ Len(sent) = 0 /\ Len(stack) = 0
  <2>1. job \in Jobs /\ ClosedInv /\ pc = "run"
    BY CopyingParts DEF Doing, SenderRun
  <2>2. sent = <<>> /\ stack = <<>>
    BY <2>1 DEF ClosedInv
  <2>3. job.local \in Visited /\ RemoteName(job.local) = FinalPath
    BY <2>1, LocalVisited, RemoteOfLocal
  <2> QED
    BY <2>1, <2>2, <2>3, EmptySeq
<1>2. \A r, n : ~Pending(r, n)
  BY <1>1 DEF Pending
<1>3. CASE \E node \in Found(job.local) : Send(node, job.local, FinalPath, <<>>)
  <2>1. PICK q \in Visited : q = job.local
    BY <1>1
  <2>2. PICK node \in Found(q) : Send(node, q, RemoteName(q), <<>>)
    BY <1>1, <1>3, <2>1
  <2>3. <<>> \in Seq(Call) /\ \A i \in 1 .. Len(<<>>) : IsCall(<<>>[i])
    BY EmptySeq
  <2>4. PICK calls \in Seq(Call) : calls = <<>>
    BY <2>3
  <2> QED
    BY <1>1, <1>2, <2>1, <2>2, <2>3, <2>4, SendCopies
<1>4. CASE pc' = "failed" /\ UNCHANGED <<stack, file, chanVars>>
  <2>1. UNCHANGED <<sent, stack, completed>>
    BY <1>4 DEF chanVars, fileVars
  <2>2. WholeInv' /\ ChunksInv' /\ EndInv'
    <3>1. ~completed
      BY <1>1, CopyingParts DEF EndInv
    <3> QED
      BY <1>1, <1>4, <2>1, <3>1 DEF WholeInv, ChunksInv, EndInv
  <2>3. CallsInv'
    BY <1>1, <2>1 DEF CallsInv
  <2>4. ClosedInv'
    <3>1. \A q : ~Announced(q, Len(sent)) /\ ~Announced(q, Len(sent))'
      BY <1>1, <2>1 DEF Announced
    <3> QED
      BY <1>2, <1>4, <3>1, ClosedNext
  <2> QED
    BY <1>4, <2>2, <2>3, <2>4, QuietCopies
<1> QED
  BY <1>3, <1>4 DEF SenderRun

LEMMA EntryCopies ==
  ASSUME Copying, faults' = 0, UNCHANGED <<job, up, fileVars>>, NEW n \in Name,
         SendEntry(n) \/ SkipEntry(n)
  PROVE  CopyInv'
<1>1. NextEntry(n) /\ pc = "walk" /\ job \in Jobs
  BY CopyingParts DEF SendEntry, SkipEntry, NextEntry, Doing
<1>2. PICK p \in Visited :
        /\ Dir \in Found(p) /\ n \in Entries(p)
        /\ Entry(n).path = Append(p, n) /\ Entry(n).name = RemoteName(Append(p, n))
        /\ Entry(n).calls \in Seq(Call)
        /\ \A i \in 1 .. Len(Entry(n).calls) : IsCall(Entry(n).calls[i])
        /\ \A r, m : Pending(r, m) => LeftIn(Entry(n).calls, r, m) \/ (r = p /\ m = n)
  BY <1>1, EntryIs
<1>3. PICK calls \in Seq(Call) : calls = Entry(n).calls
  BY <1>2
<1>4. PICK q : q = Append(p, n)
  OBVIOUS
<1>5. /\ \A i \in 1 .. Len(calls) : IsCall(calls[i])
      /\ \A r, m : Pending(r, m) => LeftIn(calls, r, m) \/ Append(r, m) = q
  BY <1>2, <1>3, <1>4
<1>6. Announced(job.local, Len(sent))
  BY <1>1, CopyingParts DEF ClosedInv
<1>7. ~Fails
  BY DEF Fails, Copying
<1>8. CASE SendEntry(n)
  <2>1. PICK node \in Found(q) :
          /\ node.kind = "dir" => job.recursive
          /\ Send(node, q, RemoteName(q), calls)
    BY <1>2, <1>3, <1>4, <1>8 DEF SendEntry
  <2>2. q \in Visited
    <3>1. q \in Path
      <4>1. p \in Path
        BY <1>1, VisitedBelow
      <4> QED
        BY <1>4, <4>1, AppendPath
    <3>2. Dir \in Found(q) => job.recursive
      <4>1. Dir \in Found(q) => node = Dir
        BY <1>1, <2>1, <3>1, FoundOnce
      <4> QED
        BY <2>1, <4>1 DEF Dir
    <3>3. ToVisit(Append(p, n))
      BY <1>4, <2>1, <3>2 DEF ToVisit
    <3> QED
      BY <1>1, <1>2, <1>4, <3>3, VisitedClosed
  <2> QED
    BY <1>1, <1>5, <1>6, <2>1, <2>2, SendCopies
<1>9. CASE SkipEntry(n)
  <2>1. /\ stack' = calls /\ UNCHANGED <<pc, file, chanVars>>
        /\ Found(q) = {} \/ \E node \in Found(q) : node.kind = "dir" /\ ~job.recursive
    BY <1>2, <1>3, <1>4, <1>7, <1>9 DEF SkipEntry
  <2>2. q \notin Visited
    <3>1. SUFFICES ASSUME q \in Visited PROVE FALSE
      OBVIOUS
    <3>2. ToVisit(q)
      <4>1. p \in Path /\ Len(p) \in Nat /\ Len(job.local) \in Nat /\ Len(job.local) <= Len(p)
        BY <1>1, VisitedBelow
      <4>2. Len(q) = Len(p) + 1
        BY <1>4, <4>1, AppendPath
      <4> QED
        BY <1>1, <3>1, <4>1, <4>2, VisitedBelow
    <3>3. PICK node \in Found(q) : node.kind = "dir" /\ ~job.recursive
      BY <2>1, <3>2 DEF ToVisit
    <3>4. node = Dir
      BY <1>1, <3>3, FoundNode, NodeKinds
    <3> QED
      BY <3>2, <3>3, <3>4 DEF ToVisit
  <2>3. UNCHANGED <<sent, completed>>
    BY <2>1 DEF chanVars, fileVars
  <2>4. WholeInv'
    <3>1. Visited' = Visited /\ \A r : Found(r)' = Found(r)
      BY JobKept
    <3>2. \A k, r, node : /\ IsOf(k, r)' <=> IsOf(k, r)
                          /\ IsData(k)' <=> IsData(k)
                          /\ Whole(k, node)' <=> Whole(k, node)
      BY <2>3, SentKept
    <3>3. WholeInv /\ sent' = sent /\ pc' = pc /\ file' = file
      BY <2>1, <2>3, CopyingParts
    <3> QED
      BY <3>1, <3>2, <3>3, Zenon DEF WholeInv
  <2>5. ChunksInv' /\ EndInv'
    BY <1>1, <2>1, <2>3, CopyingParts DEF ChunksInv, EndInv
  <2>6. CallsInv'
    BY <1>5, <2>1, CallSame DEF CallsInv
  <2>7. ClosedInv'
    <3>1. \A r : Announced(r, Len(sent))' <=> Announced(r, Len(sent))
      BY <2>3, SentKept
    <3>2. Announced(job.local, Len(sent))'
      <4>1. \E r : r = job.local /\ Announced(r, Len(sent))
        BY <1>6
      <4>2. \E r : r = job.local /\ Announced(r, Len(sent))'
        BY <3>1, <4>1
      <4>3. job' = job
        OBVIOUS
      <4> QED
        BY <4>2, <4>3
    <3>3. \A r, m : Pending(r, m) /\ Append(r, m) \in Visited => Pending(r, m)'
      BY <1>5, <2>1, <2>2 DEF LeftIn, Pending
    <3>4. pc' # "run"
      BY <1>1, <2>1
    <3> QED
      BY <3>1, <3>2, <3>3, <3>4, ClosedNext
  <2> QED
    BY <2>1, <2>4, <2>5, <2>6, <2>7, QuietCopies
<1> QED
  BY <1>8, <1>9

\* A packet that announces no path.
LEMMA OtherCopies ==
  ASSUME Copying, UNCHANGED <<job, up, fileVars>>, NEW packet \in Packet, Announce(packet),
         packet.cmd \notin {"FILE_META", "DIR_ENTER"},
         pc \notin {"run", "failed"}, pc' \notin {"run", "failed"},
         \A q, n : Pending(q, n) => Pending(q, n)',
         PartsInv', WholeInv', ChunksInv', CallsInv', EndInv'
  PROVE  CopyInv'
<1>1. PICK s \in Nat : s = Len(sent)
  BY CopyingParts
<1>2. /\ Len(sent') = s + 1 /\ sent'[s + 1] = packet
      /\ \A k \in 1 .. s : \A q : Names(k, q)' <=> Names(k, q)
  BY <1>1, SentGrown
<1>3. \A q : ~Names(s + 1, q)'
  BY <1>2 DEF Names
<1>4. ASSUME NEW q PROVE Announced(q, Len(sent))' <=> Announced(q, Len(sent))
  <2>1. Announced(q, Len(sent))' <=> \E k \in 1 .. s + 1 : Names(k, q)'
    BY <1>2 DEF Announced
  <2>2. Announced(q, Len(sent)) <=> \E k \in 1 .. s : Names(k, q)
    BY <1>1 DEF Announced
  <2>3. \A k \in 1 .. s + 1 : k \in 1 .. s \/ k = s + 1
    OBVIOUS
  <2>4. \A k \in 1 .. s : k \in 1 .. s + 1
    OBVIOUS
  <2> QED
    BY <1>2, <1>3, <2>1, <2>2, <2>3, <2>4
<1>5. Announced(job.local, Len(sent))'
  <2>1. Announced(job.local, Len(sent)) /\ job' = job
    BY CopyingParts DEF ClosedInv
  <2>2. \E q : q = job.local /\ Announced(q, Len(sent))
    BY <2>1
  <2>3. \E q : q = job.local /\ Announced(q, Len(sent))'
    BY <1>4, <2>2
  <2> QED
    BY <2>1, <2>3
<1>6. ClosedInv'
  BY <1>4, <1>5, ClosedNext
<1>7. NamesInv'
  BY NamesGrown
<1>8. TreeInv' /\ CopiesInv'
  BY TreeGrown
<1>9. up'
  BY CopyingParts
<1> QED
  BY <1>6, <1>7, <1>8, <1>9 DEF CopyInv

LEMMA LeaveDirectoryCopies ==
  ASSUME Copying, UNCHANGED <<job, up, fileVars>>, LeaveDirectory
  PROVE  CopyInv'
<1>1. /\ Announce(DirLeave) /\ pc = "walk" /\ stack' = Front(stack) /\ UNCHANGED file
      /\ stack[Len(stack)].left = {} /\ pc' = IF stack' = <<>> THEN "end" ELSE "walk"
  BY DEF LeaveDirectory, Return
<1>2. stack \in Seq(Call) /\ Len(stack) \in Nat /\ Len(stack) > 0
  <2>1. stack \in Seq(Call) /\ stack # <<>>
    BY <1>1, CopyingParts DEF Sending, Call
  <2> QED
    BY <2>1, EmptySeq, LenProperties
<1>3. /\ Len(stack') = Len(stack) - 1
      /\ \A i \in 1 .. Len(stack) - 1 : stack'[i] = stack[i]
  BY <1>1, <1>2, EmptySeq, FrontCalls
<1>4. PICK packet \in Packet : packet = DirLeave /\ packet.cmd = "DIR_LEAVE"
  <2>1. DirLeave \in Packet /\ DirLeave.cmd = "DIR_LEAVE"
    BY DEF DirLeave, Packet
  <2> QED
    BY <2>1
<1>5. ASSUME NEW q, NEW n, Pending(q, n) PROVE Pending(q, n)'
  <2>1. PICK i \in 1 .. Len(stack) : stack[i].local = q /\ n \in stack[i].left
    BY <1>5 DEF Pending
  <2>2. i \in 1 .. Len(stack) - 1
    BY <1>1, <1>2, <2>1
  <2> QED
    BY <1>3, <2>1, <2>2 DEF Pending
<1>6. CallsInv'
  <2>1. ASSUME NEW i \in 1 .. Len(stack') PROVE IsCall(stack[i])'
    <3>1. i \in 1 .. Len(stack) /\ stack'[i] = stack[i]
      BY <1>2, <1>3
    <3>2. PICK call : call = stack[i] /\ IsCall(call)
      BY <3>1, CopyingParts DEF CallsInv
    <3>3. IsCall(call)'
      BY <3>2, CallSame
    <3>4. call = stack'[i]
      BY <3>1, <3>2
    <3> QED
      BY <3>3, <3>4
  <2> QED
    BY <2>1 DEF CallsInv
<1>7. PartsInv'
  <2>1. PICK s \in Nat : s = Len(sent)
    BY CopyingParts
  <2> QED
    BY <1>1, <1>4, <2>1, PartsGrown
<1>8. WholeInv'
  <2>1. PICK s \in Nat : s = Len(sent)
    BY CopyingParts
  <2>2. \A q \in Visited : ~IsOf(s + 1, q)'
    BY <1>1, <1>4, <2>1, OfNew
  <2> QED
    BY <1>1, <1>4, <2>1, <2>2, WholeGrown
<1>9. ChunksInv'
  BY <1>1 DEF ChunksInv
<1>10. EndInv'
  BY <1>1, <1>4, EndGrown DEF fileVars
<1> QED
  BY <1>1, <1>4, <1>5, <1>6, <1>7, <1>8, <1>9, <1>10, OtherCopies

LEMMA SendEndCopies ==
  ASSUME Copying, UNCHANGED <<job, up, fileVars>>, SendEnd
  PROVE  CopyInv'
<1>1. /\ Announce(TransferEnd) /\ pc = "end" /\ pc' = "ended" /\ UNCHANGED <<stack, file>>
  BY DEF SendEnd
<1>2. PICK packet \in Packet : packet = TransferEnd /\ packet.cmd = "TRANSFER_END"
  <2>1. TransferEnd \in Packet /\ TransferEnd.cmd = "TRANSFER_END"
    BY DEF TransferEnd, Packet
  <2> QED
    BY <2>1
<1>3. PICK s \in Nat : s = Len(sent)
  BY CopyingParts
<1>4. \A q, n : Pending(q, n) => Pending(q, n)'
  BY <1>1 DEF Pending
<1>5. CallsInv'
  BY <1>1, CopyingParts, CallSame DEF CallsInv
<1>6. PartsInv'
  BY <1>1, <1>2, <1>3, PartsGrown
<1>7. WholeInv'
  <2>1. \A q \in Visited : ~IsOf(s + 1, q)'
    BY <1>1, <1>2, <1>3, OfNew
  <2> QED
    BY <1>1, <1>2, <1>3, <2>1, WholeGrown
<1>8. ChunksInv'
  BY <1>1 DEF ChunksInv
<1>9. EndInv'
  <2>1. /\ Len(sent') = s + 1 /\ \A k \in 1 .. s : sent'[k] = sent[k]
    BY <1>1, <1>2, <1>3, SentGrown
  <2>2. ~completed /\ stack = <<>> /\ \A k \in 1 .. s : sent[k].cmd # "TRANSFER_END"
    BY <1>1, <1>3, CopyingParts DEF EndInv
  <2>3. \A k \in 1 .. s + 1 : sent'[k].cmd = "TRANSFER_END" => k = s + 1
    BY <2>1, <2>2
  <2> QED
    BY <1>1, <2>1, <2>2, <2>3 DEF EndInv, fileVars
<1> QED
  BY <1>1, <1>2, <1>4, <1>5, <1>6, <1>7, <1>8, <1>9, OtherCopies

LEMMA SendLinkTextCopies ==
  ASSUME Copying, UNCHANGED <<job, up, fileVars>>, SendLinkText
  PROVE  CopyInv'
<1>1. /\ Announce(Data(0, file.to)) /\ pc = "link" /\ UNCHANGED <<stack, file>>
      /\ pc' = IF stack' = <<>> THEN "end" ELSE "walk"
  BY DEF SendLinkText, Return
<1>2. PICK s \in Nat : s = Len(sent)
  BY CopyingParts
<1>3. PICK packet \in Packet :
        packet = Data(0, file.to) /\ packet.cmd = "FILE_DATA" /\ packet.bytes = file.to
  <2>1. file.to \in Path
    BY <1>1, CopyingParts DEF Sending
  <2>2. Data(0, file.to) \in Packet
    BY <2>1 DEF Data, Packet
  <2> QED
    BY <2>2 DEF Data
<1>4. Announce(packet)
  BY <1>1, <1>3
<1>5. s > 0 /\ sent[s].cmd = "FILE_META" /\ sent[s].type = "symlink"
  BY <1>1, <1>2, CopyingParts DEF Inv, LinkInv
<1>6. s \in 1 .. s /\ MetaOf(s, s) /\ OfFile(s) /\ ~IsData(s)
  BY <1>5 DEF MetaOf, OfFile, IsData
<1>7. ASSUME NEW q \in Visited, IsOf(s, q), NEW node \in Found(q)
      PROVE  node.kind = "link" /\ node = Link(file.to)
  <2>1. PICK m \in 1 .. s : \E x \in Found(q) :
          /\ MetaOf(m, s) /\ Found(q) = {x}
          /\ x.kind = IF sent[m].type = "regular" THEN "file" ELSE "link"
    BY <1>2, <1>6, <1>7, OfIs
  <2>2. m = s
    BY <1>6, <2>1, OneMeta
  <2>3. node.kind = "link"
    BY <1>5, <2>1, <2>2
  <2>4. \/ Whole(s, node)
        \/ node = Link(file.to)
    BY <1>1, <1>2, <1>6, <1>7, CopyingParts DEF WholeInv
  <2>5. ~Whole(s, node)
    BY <1>6, <2>3 DEF Whole
  <2> QED
    BY <2>3, <2>4, <2>5
<1>8. /\ Len(sent') = s + 1 /\ sent'[s + 1] = packet
  BY <1>2, <1>4, SentGrown
<1>9. PartsInv'
  <2>1. ASSUME NEW q \in Visited, IsOf(s, q), NEW node \in Found(q)
        PROVE  IsDataOf(s + 1, node)'
    <3>1. node.kind = "link" /\ node.to = file.to
      BY <1>7, <2>1 DEF Link
    <3> QED
      BY <1>3, <1>8, <3>1 DEF IsDataOf
  <2> QED
    BY <1>2, <1>4, <1>6, <2>1, PartsGrown
<1>10. WholeInv'
  <2>1. ASSUME NEW q \in Visited, IsOf(s + 1, q)', NEW node \in Found(q)
        PROVE  Whole(s + 1, node)'
    <3>1. IsOf(s, q) /\ IsData(s + 1)'
      BY <1>2, <1>3, <1>4, <1>6, <2>1, OfNew
    <3>2. node.kind = "link"
      BY <1>7, <2>1, <3>1
    <3> QED
      BY <3>1, <3>2 DEF Whole
  <2> QED
    BY <1>2, <1>3, <1>4, <1>6, <2>1, WholeGrown
<1>11. ChunksInv'
  BY <1>1 DEF ChunksInv
<1>12. CallsInv'
  BY <1>1, CopyingParts, CallSame DEF CallsInv
<1>13. EndInv'
  BY <1>1, <1>3, <1>4, EndGrown DEF fileVars
<1>14. \A q, n : Pending(q, n) => Pending(q, n)'
  BY <1>1 DEF Pending
<1> QED
  BY <1>1, <1>3, <1>4, <1>9, <1>10, <1>11, <1>12, <1>13, <1>14, OtherCopies

\* How far the chunk loop gets.
LEMMA NextChunk ==
  ASSUME NEW size \in Nat, NEW chunk \in Nat, chunk < (size + ChunkSize - 1) \div ChunkSize,
         NEW offset, offset = IF chunk * ChunkSize < size THEN chunk * ChunkSize ELSE size,
         NEW n, n = IF offset + ChunkSize > size THEN size - offset ELSE ChunkSize
  PROVE  /\ offset = chunk * ChunkSize /\ offset % ChunkSize = 0
         /\ offset + n = IF (chunk + 1) * ChunkSize < size THEN (chunk + 1) * ChunkSize ELSE size
<1> DEFINE C == ChunkSize
           top == size + C - 1
<1>1. C \in Nat \ {0} /\ top \in Nat
  BY SizesAssumption
<1>2. chunk < top \div C
  OBVIOUS
<1> HIDE DEF top
<1>3. chunk * C + C <= top
  BY <1>1, <1>2
<1>4. chunk * C < size /\ chunk * C \in Nat
  BY <1>1, <1>3 DEF top
<1>5. (chunk * C) % C = 0 /\ (chunk + 1) * C = chunk * C + C
  BY <1>1
<1>6. offset = chunk * C /\ offset % C = 0
  BY <1>4, <1>5
<1>7. n = IF offset + C > size THEN size - offset ELSE C
  OBVIOUS
<1> HIDE DEF C
<1> DEFINE next == (chunk + 1) * C
<1>8. next = offset + C /\ offset \in Nat /\ offset < size
  BY <1>4, <1>5, <1>6
<1> HIDE DEF next
<1>9. offset + n = IF next < size THEN next ELSE size
  <2>1. CASE next > size
    BY <1>1, <1>7, <1>8, <2>1
  <2>2. CASE ~(next > size)
    BY <1>1, <1>7, <1>8, <2>2
  <2> QED
    BY <2>1, <2>2
<1> QED
  BY <1>6, <1>9 DEF C, next

LEMMA LastChunk ==
  ASSUME NEW size \in Nat, NEW chunk \in Nat, chunk = (size + ChunkSize - 1) \div ChunkSize
  PROVE  ~(chunk * ChunkSize < size)
<1> DEFINE top == size + ChunkSize - 1
<1>1. ChunkSize \in Nat \ {0} /\ top \in Nat /\ chunk = top \div ChunkSize
  BY SizesAssumption
<1> HIDE DEF top
<1>2. chunk * ChunkSize + ChunkSize > top /\ chunk * ChunkSize \in Nat
  BY <1>1
<1> QED
  BY <1>1, <1>2 DEF top

\* Where the chunk loop is, and the file it sends.
LEMMA InChunks ==
  ASSUME Copying, pc = "chunks", NEW s \in Nat, s = Len(sent)
  PROVE  /\ FileSize \in Nat /\ file.chunk \in Nat /\ file.chunk <= TotalChunks
         /\ file.offset = EndOf(s)
         /\ file.offset = IF file.chunk * ChunkSize < FileSize
                          THEN file.chunk * ChunkSize ELSE FileSize
         /\ OfFile(s) /\ \E m \in 1 .. s : MetaOf(m, s)
         /\ \E q \in Visited : IsOf(s, q) /\ Found(q) = {File(file.data)}
                               /\ \A r \in Visited : IsOf(s, r) => r = q
<1>1. Sending /\ FileInv /\ ChunksInv /\ FollowsMeta /\ FileSize \in Nat
  BY CopyingParts DEF Inv, FileInv, Copying, AnnounceInv
<1>2. file.chunk \in 0 .. TotalChunks
  BY <1>1 DEF Sending
<1>3. TotalChunks \in Int
  BY <1>1, SizesAssumption DEF TotalChunks
<1>4. file.chunk \in Nat /\ file.chunk <= TotalChunks
  BY <1>2, <1>3
<1>5. OfFile(s) /\ \E m \in 1 .. s : MetaOf(m, s)
  BY <1>1 DEF FollowsMeta, FileInv
<1>6. PICK q \in Visited : IsOf(s, q) /\ Found(q) = {File(file.data)}
  BY <1>1 DEF ChunksInv
<1>7. s \in 1 .. Len(sent)
  BY <1>6 DEF IsOf
<1>8. \A r \in Visited : IsOf(s, r) => r = q
  BY <1>6, <1>7, OfOnce
<1> QED
  BY <1>1, <1>4, <1>5, <1>6, <1>8 DEF ChunksInv

LEMMA SendChunkCopies ==
  ASSUME Copying, faults' = 0, UNCHANGED <<job, up, fileVars>>, NEW n \in Nat, SendChunk(n)
  PROVE  CopyInv'
<1>1. PICK s \in Nat : s = Len(sent)
  BY CopyingParts
<1>2. /\ pc = "chunks" /\ UNCHANGED <<pc, stack>> /\ file.chunk < TotalChunks
      /\ Announce(Data(file.offset, Chunk(n))) /\ n = ToRead
      /\ file' = [file EXCEPT !.chunk = @ + 1, !.offset = @ + n]
  <2>1. ~Fails
    BY DEF Fails, Copying
  <2> QED
    BY <2>1 DEF SendChunk, InChunkLoop, Chunk
<1>3. /\ file = [data |-> file.data, chunk |-> file.chunk, offset |-> file.offset]
      /\ file.offset \in Nat /\ file.offset + n \in 0 .. FileSize
      /\ \A x \in 1 .. n : Chunk(n)[x] = file.data[file.offset + x - 1]
      /\ Len(Chunk(n)) = n /\ Data(file.offset, Chunk(n)) \in Packet
  BY CopyingParts, ChunkPacket
<1>4. PICK packet \in Packet :
        /\ packet = Data(file.offset, Chunk(n)) /\ packet.cmd = "FILE_DATA"
        /\ packet.offset = file.offset /\ packet.bytes = Chunk(n)
  BY <1>3 DEF Data
<1>5. Announce(packet)
  BY <1>2, <1>4
<1>6. /\ FileSize \in Nat /\ file.chunk \in Nat
      /\ file.offset = EndOf(s)
      /\ file.offset = IF file.chunk * ChunkSize < FileSize
                       THEN file.chunk * ChunkSize ELSE FileSize
      /\ OfFile(s) /\ \E m \in 1 .. s : MetaOf(m, s)
  BY <1>1, <1>2, InChunks
<1>7. PICK q \in Visited : /\ IsOf(s, q) /\ Found(q) = {File(file.data)}
                           /\ \A r \in Visited : IsOf(s, r) => r = q
  BY <1>1, <1>2, InChunks
<1>8. /\ file'.data = file.data /\ file'.chunk = file.chunk + 1
      /\ file'.offset = file.offset + n
  BY <1>2, <1>3
<1>9. /\ Len(sent') = s + 1 /\ sent'[s + 1] = packet
      /\ s \in 1 .. s => EndOf(s)' = EndOf(s)
  BY <1>1, <1>5, SentGrown
<1>10. s \in 1 .. s
  BY <1>6
<1>11. EndOf(s + 1)' = file.offset + n /\ IsData(s + 1)'
  BY <1>3, <1>4, <1>9 DEF EndOf, IsData
<1>12. PartsInv'
  <2>1. ASSUME NEW r \in Visited, IsOf(s, r), NEW node \in Found(r)
        PROVE  IsDataOf(s + 1, node)'
    <3>1. node.kind = "file" /\ node.data = file.data /\ Size(node) = FileSize
      BY <1>7, <2>1 DEF File, Size, FileSize
    <3>2. EndOf(s + 1 - 1)' = file.offset
      <4>1. s + 1 - 1 = s
        OBVIOUS
      <4> QED
        BY <1>6, <1>9, <1>10, <4>1
    <3>3. EndOf(s + 1)' <= Size(node)
      BY <1>3, <1>6, <1>11, <3>1
    <3> QED
      BY <1>3, <1>4, <1>9, <3>1, <3>2, <3>3 DEF IsDataOf
  <2> QED
    BY <1>1, <1>5, <1>6, <2>1, PartsGrown
<1>13. \A r \in Visited : IsOf(s + 1, r)' <=> IsOf(s, r)
  BY <1>1, <1>4, <1>5, <1>6, OfNew
<1>14. WholeInv'
  <2>1. ASSUME NEW r \in Visited, IsOf(s + 1, r)', NEW node \in Found(r)
        PROVE  Coming(node)'
    <3>1. node = File(file'.data)
      BY <1>7, <1>8, <1>13, <2>1
    <3> QED
      BY <1>2, <3>1 DEF Coming
  <2> QED
    BY <1>1, <1>4, <1>5, <1>6, <2>1, WholeGrown
<1>15. ChunksInv'
  <2>1. file'.offset = EndOf(Len(sent))'
    BY <1>8, <1>9, <1>11
  <2>2. FileSize' = FileSize
    BY <1>8 DEF FileSize
  <2>3. file.offset + n = IF (file.chunk + 1) * ChunkSize < FileSize
                          THEN (file.chunk + 1) * ChunkSize ELSE FileSize
    BY <1>2, <1>6, NextChunk DEF TotalChunks, ToRead
  <2>4. Visited' = Visited /\ Found(q)' = Found(q)
    BY JobKept
  <2>5. q \in Visited' /\ IsOf(Len(sent), q)' /\ Found(q)' = {File(file'.data)}
    BY <1>7, <1>8, <1>9, <1>13, <2>4
  <2> QED
    BY <1>8, <2>1, <2>2, <2>3, <2>5 DEF ChunksInv
<1>16. CallsInv'
  BY <1>2, CopyingParts, CallSame DEF CallsInv
<1>17. EndInv'
  BY <1>2, <1>4, <1>5, EndGrown DEF fileVars
<1>18. \A r, m : Pending(r, m) => Pending(r, m)'
  BY <1>2 DEF Pending
<1> QED
  BY <1>2, <1>4, <1>5, <1>12, <1>14, <1>15, <1>16, <1>17, <1>18, OtherCopies

\* The file is complete when the loop ends.
LEMMA FileSentCopies ==
  ASSUME Copying, UNCHANGED <<job, up, fileVars>>, FileSent
  PROVE  CopyInv'
<1>1. PICK s \in Nat : s = Len(sent)
  BY CopyingParts
<1>2. /\ pc = "chunks" /\ file.chunk = TotalChunks /\ UNCHANGED <<stack, file, chanVars>>
      /\ pc' = IF stack' = <<>> THEN "end" ELSE "walk"
  BY DEF FileSent, Return
<1>3. UNCHANGED <<sent, completed>>
  BY <1>2 DEF chanVars, fileVars
<1>4. EndOf(s) = FileSize
  <2>1. /\ FileSize \in Nat /\ file.chunk \in Nat /\ file.offset = EndOf(s)
        /\ file.offset = IF file.chunk * ChunkSize < FileSize
                         THEN file.chunk * ChunkSize ELSE FileSize
    BY <1>1, <1>2, InChunks
  <2>2. ~(file.chunk * ChunkSize < FileSize)
    BY <1>2, <2>1, LastChunk DEF TotalChunks
  <2> QED
    BY <2>1, <2>2
<1>5. PICK q \in Visited : /\ IsOf(s, q) /\ Found(q) = {File(file.data)}
                           /\ \A r \in Visited : IsOf(s, r) => r = q
  BY <1>1, <1>2, InChunks
<1>6. \A r \in Visited : IsOf(s, r) => \A node \in Found(r) : Whole(s, node)
  BY <1>4, <1>5 DEF Whole, File, Size, FileSize
<1>7. WholeInv'
  <2>1. Visited' = Visited /\ \A r : Found(r)' = Found(r)
    BY JobKept
  <2>2. \A k, r, node : /\ IsOf(k, r)' <=> IsOf(k, r)
                        /\ IsData(k)' <=> IsData(k)
                        /\ Whole(k, node)' <=> Whole(k, node)
    BY <1>3, SentKept
  <2>3. ASSUME NEW k \in 1 .. s, NEW r \in Visited, IsOf(k, r), NEW node \in Found(r)
        PROVE  Whole(k, node) \/ (k < s /\ IsData(k + 1))
    BY <1>1, <1>6, <2>3, CopyingParts DEF WholeInv
  <2>4. sent' = sent
    BY <1>3
  <2> QED
    BY <1>1, <2>1, <2>2, <2>3, <2>4 DEF WholeInv
<1>8. ChunksInv'
  BY <1>2 DEF ChunksInv
<1>9. EndInv'
  BY <1>2, <1>3, CopyingParts DEF EndInv
<1>10. CallsInv' /\ ClosedInv'
  BY <1>2, <1>3, QuietCalls
<1> QED
  BY <1>2, <1>7, <1>8, <1>9, <1>10, QuietCopies

LEMMA FinishCopies ==
  ASSUME Copying, UNCHANGED <<job, up, fileVars>>, Finish
  PROVE  CopyInv'
<1>1. pc = "ended" /\ pc' = "done" /\ UNCHANGED <<stack, file, chanVars>>
  BY DEF Finish
<1>2. UNCHANGED <<sent, delivered, completed>>
  BY <1>1 DEF chanVars, fileVars
<1>3. WholeInv'
  <2>1. Visited' = Visited /\ \A r : Found(r)' = Found(r)
    BY JobKept
  <2>2. \A k, r, node : /\ IsOf(k, r)' <=> IsOf(k, r)
                        /\ IsData(k)' <=> IsData(k)
                        /\ Whole(k, node)' <=> Whole(k, node)
    BY <1>2, SentKept
  <2> QED
    BY <1>1, <1>2, <2>1, <2>2, CopyingParts DEF WholeInv
<1>4. ChunksInv'
  BY <1>1 DEF ChunksInv
<1>5. EndInv'
  BY <1>1, <1>2, CopyingParts DEF EndInv
<1>6. CallsInv' /\ ClosedInv'
  BY <1>1, <1>2, QuietCalls
<1> QED
  BY <1>1, <1>3, <1>4, <1>5, <1>6, QuietCopies

\* Steps that a transfer without failures does not take.
LEMMA NoFailure == ASSUME Copying, faults' = 0 PROVE ~ReadStops /\ ~SenderLoses
<1>1. ASSUME ReadStops PROVE FALSE
  <2>1. pc = "chunks" /\ file.chunk < TotalChunks /\ file.offset % ChunkSize # 0
    BY <1>1 DEF ReadStops, InChunkLoop, Fails, Copying
  <2>2. PICK s \in Nat : s = Len(sent)
    BY CopyingParts
  <2>3. /\ FileSize \in Nat /\ file.chunk \in Nat
        /\ file.offset = IF file.chunk * ChunkSize < FileSize
                         THEN file.chunk * ChunkSize ELSE FileSize
    BY <2>1, <2>2, InChunks
  <2>4. file.offset % ChunkSize = 0
    <3>1. PICK n : n = IF file.offset + ChunkSize > FileSize THEN FileSize - file.offset
                       ELSE ChunkSize
      OBVIOUS
    <3> QED
      BY <2>1, <2>3, <3>1, NextChunk DEF TotalChunks
  <2> QED
    BY <2>1, <2>4
<1>2. ~SenderLoses
  BY CopyingParts DEF SenderLoses
<1> QED
  BY <1>1, <1>2

LEMMA SenderCopies ==
  ASSUME Copying, faults' = 0, Sender
  PROVE  CopyInv'
<1>1. UNCHANGED <<job, up, fileVars>>
  BY DEF Sender
<1>2. ASSUME NEW n \in 1 .. ChunkSize, SendChunk(n) PROVE CopyInv'
  BY <1>1, <1>2, SendChunkCopies
<1>3. ASSUME NEW n \in Name, SendEntry(n) \/ SkipEntry(n) PROVE CopyInv'
  BY <1>1, <1>3, EntryCopies
<1> QED
  BY <1>1, <1>2, <1>3, SenderRunCopies, LeaveDirectoryCopies, SendLinkTextCopies,
     FileSentCopies, SendEndCopies, FinishCopies, NoFailure DEF Sender

-----------------------------------------------------------------------------
(* The theorem.                                                            *)

LEMMA CopyInit == Init => CopyInv
<1> SUFFICES ASSUME Init, Suitable PROVE CopyInv
  BY DEF CopyInv
<1>1. /\ job \in Jobs /\ sent = <<>> /\ delivered = <<>> /\ stack = <<>> /\ tree = job.old
      /\ pc = "run" /\ up /\ ~completed
  BY DEF Init, Chan!Init
<1>2. Len(sent) = 0 /\ Len(delivered) = 0 /\ Len(stack) = 0
  BY <1>1, EmptySeq
<1>3. NamesInv /\ PartsInv /\ WholeInv /\ ChunksInv /\ CallsInv /\ EndInv
  BY <1>1, <1>2 DEF NamesInv, PartsInv, WholeInv, ChunksInv, CallsInv, EndInv
<1>4. ClosedInv
  BY <1>1, <1>2 DEF ClosedInv, Announced
<1>5. ASSUME NEW q \in Visited, Target(q) \in DOMAIN tree, NEW node \in Found(q)
      PROVE  /\ tree[Target(q)] = Dir <=> node = Dir
             /\ tree[Target(q)].kind = "link" => node.kind = "link"
  <2> DEFINE P == Target(q)
  <2>1. IsTree(tree) /\ P \in Path /\ Len(P) \in Nat /\ SubSeq(P, 1, Len(P)) = P
    BY <1>1, JobsAssumption, Remote, WholePath
  <2>2. /\ LinksOn(tree, P) = {}
        /\ \A i \in 1 .. Len(P) - 1 : ~IsKind(tree, SubSeq(P, 1, i), "file")
        /\ \A here \in Lstat(tree, P) : here = Dir <=> node = Dir
    BY <1>1 DEF Suitable
  <2>3. P \in DOMAIN tree
    BY <1>5
  <2> HIDE DEF P
  <2>4. \A i \in 1 .. Len(P) : ~IsKind(tree, SubSeq(P, 1, i), "link")
    BY <2>2 DEF LinksOn
  <2>5. Len(P) \in Nat
    BY <2>1
  <2>6. ASSUME NEW i \in 1 .. Len(P) - 1, SubSeq(P, 1, i) \in DOMAIN tree
        PROVE  tree[SubSeq(P, 1, i)] = Dir
    <3>1. i \in 1 .. Len(P)
      BY <2>5
    <3>2. ~IsKind(tree, SubSeq(P, 1, i), "file") /\ ~IsKind(tree, SubSeq(P, 1, i), "link")
      BY <2>2, <2>4, <3>1
    <3>3. IsNode(tree[SubSeq(P, 1, i)])
      BY <2>1, <2>6 DEF IsTree
    <3>4. tree[SubSeq(P, 1, i)].kind \notin {"file", "link"}
      BY <2>6, <3>2 DEF IsKind
    <3> QED
      BY <3>3, <3>4, NodeKinds
  <2>7. Clear(tree, P, Len(P) - 1)
    BY <2>6 DEF Clear
  <2>8. tree[P] \in Lstat(tree, P)
    BY <2>1, <2>3, <2>7, ClearLstat
  <2>9. tree[P].kind # "link"
    <3>1. CASE P = <<>>
      BY <2>1, <3>1 DEF IsTree, Dir
    <3>2. CASE P # <<>>
      <4>1. Len(P) \in 1 .. Len(P)
        BY <2>1, <2>5, <3>2, EmptySeq DEF Path
      <4> QED
        BY <2>1, <2>3, <2>4, <4>1 DEF IsKind
    <3> QED
      BY <3>1, <3>2
  <2> QED
    BY <2>2, <2>8, <2>9 DEF P
<1>6. TreeInv
  BY <1>1, <1>5 DEF TreeInv
<1>7. CopiesInv
  BY <1>2 DEF CopiesInv, CopyAt, Announced, IsOf
<1> QED
  BY <1>1, <1>3, <1>4, <1>6, <1>7 DEF CopyInv

\* Failures are counted, and a failed transfer stays one.
LEMMA FaultsGrow == ASSUME faults \in Nat, [Next]_vars PROVE UNCHANGED job /\ faults' >= faults
<1>1. CASE Sender
  <2>1. ASSUME NEW n \in Name, SendEntry(n) \/ SkipEntry(n) PROVE Works \/ Fails
    BY <2>1 DEF SendEntry, SkipEntry, Send, SendFails
  <2>2. SenderRun => Works \/ Fails
    BY DEF SenderRun, Send, SendFails
  <2>3. ASSUME NEW n \in 1 .. ChunkSize, SendChunk(n) PROVE Works \/ Fails
    BY <2>3 DEF SendChunk
  <2>4. Works \/ Fails
    BY <1>1, <2>1, <2>2, <2>3
       DEF Sender, LeaveDirectory, SendLinkText, ReadStops, FileSent, SendEnd, Finish, SenderLoses
  <2>5. UNCHANGED job
    BY <1>1 DEF Sender
  <2> QED
    BY <2>4, <2>5 DEF Works, Fails
<1>2. CASE Receive
  <2>1. ASSUME NEW path, NEW made \in MadeDirs(path) PROVE made.faults \in {faults, faults + 1}
    BY DEF MadeDirs
  <2>2. ASSUME NEW packet, ReceiveMeta(packet) PROVE faults' >= faults
    <3>1. CASE Works
      BY <3>1 DEF Works
    <3>2. CASE ~Works
      <4>1. PICK made \in MadeDirs(Front(packet.name)) : OpenFile(made) \/ faults' = made.faults
        BY <2>2, <3>2 DEF ReceiveMeta
      <4>2. faults' \in {made.faults, made.faults + 1}
        BY <4>1 DEF OpenFile
      <4> QED
        BY <2>1, <4>2
    <3> QED
      BY <3>1, <3>2
  <2>3. ASSUME NEW packet, ReceiveDirEnter(packet) PROVE faults' >= faults
    BY <2>1, <2>3 DEF ReceiveDirEnter
  <2>4. ASSUME NEW packet, ReceiveData(packet) PROVE Works \/ Fails
    BY <2>4 DEF ReceiveData, MakeLink
  <2>5. ASSUME NEW packet, ReceiveDirLeave(packet) \/ ReceiveEnd(packet) PROVE Works
    BY <2>5 DEF ReceiveDirLeave, ReceiveEnd
  <2>6. faults' >= faults
    BY <1>2, <2>2, <2>3, <2>4, <2>5 DEF Receive, Works, Fails
  <2> QED
    BY <1>2, <2>6 DEF Receive
<1>3. CASE Acknowledge \/ LoseConnection \/ UNCHANGED vars
  BY <1>3 DEF Acknowledge, LoseConnection, Fails, vars
<1> QED
  BY <1>1, <1>2, <1>3 DEF Next

LEMMA CopyNextInv == AnnounceInv /\ CopyInv /\ [Next]_vars => CopyInv'
<1> SUFFICES ASSUME AnnounceInv, CopyInv, [Next]_vars, faults' = 0, Suitable' PROVE CopyInv'
  BY DEF CopyInv
<1>1. faults \in Nat
  BY SizesAssumption DEF AnnounceInv, Inv, TypeOK
<1>2. UNCHANGED job /\ faults = 0
  BY <1>1, FaultsGrow
<1>3. Copying
  BY <1>2, JobKept DEF Copying
<1>4. CASE Acknowledge \/ UNCHANGED vars
  <2>1. UNCHANGED <<job, sendVars, up, sent, delivered, fileVars>>
    BY <1>4 DEF Acknowledge, Chan!Ack, vars, chanVars
  <2>2. NamesInv' /\ PartsInv' /\ WholeInv' /\ ChunksInv' /\ CallsInv' /\ ClosedInv'
    BY <1>3, <2>1, SenderSame
  <2>3. TreeInv' /\ CopiesInv'
    BY <1>3, <2>1, SentKept, TreeSame
  <2>4. EndInv' /\ up'
    BY <1>3, <2>1, CopyingParts DEF EndInv, sendVars, fileVars
  <2> QED
    BY <2>2, <2>3, <2>4 DEF CopyInv
<1>5. ~LoseConnection
  BY <1>2 DEF LoseConnection, Fails
<1> QED
  BY <1>3, <1>4, <1>5, ReceiveCopies, SenderCopies DEF Next

\* When nothing has failed, the success message means that all is copied.
LEMMA CompletedIsCopy == ASSUME Copying, completed PROVE IsCopy
<1>1. PICK s \in Nat : s = Len(sent) /\ s = Len(delivered)
  BY CopyingParts DEF EndInv
<1>2. /\ job \in Jobs /\ TreeInv /\ pc \in {"ended", "done"} /\ stack = <<>> /\ Doing
  BY CopyingParts DEF EndInv, Doing
<1>3. \A q, n : ~Pending(q, n)
  BY <1>2, EmptySeq DEF Pending
<1>4. Visited \subseteq {q \in Visited : Announced(q, s)}
  <2> DEFINE S == {q \in Visited : Announced(q, s)}
  <2>1. job.local \in S
    BY <1>1, <1>2, LocalVisited, CopyingParts DEF ClosedInv
  <2>2. \A q \in Visited \cap S : \A n \in Entries(q) :
          Dir \in Found(q) /\ Append(q, n) \in Visited => Append(q, n) \in S
    BY <1>1, <1>3, CopyingParts DEF ClosedInv
  <2> HIDE DEF S
  <2>3. Visited \subseteq S
    BY <1>2, <2>1, <2>2, VisitedAll
  <2> QED
    BY <2>3 DEF S
<1>5. ASSUME NEW q \in Visited PROVE Found(q) = Lstat(tree, Target(q))
  <2>1. Target(q) \in DOMAIN tree /\ Found(q) = {tree[Target(q)]}
    BY <1>1, <1>2, <1>4, There
  <2>2. Target(q) \in Path /\ Clear(tree, Target(q), Len(Target(q)) - 1) /\ IsTree(tree)
    BY <1>2, TargetClear DEF Doing
  <2> QED
    BY <2>1, <2>2, ClearLstat
<1> QED
  BY <1>2, <1>5 DEF IsCopy, TreeInv

\* The receiver's success message (scp_rdma_receiver.c:296-303) means what it
\* says: if no call and no connection has failed, no two names are cut off to
\* the same one and nothing is in the way, all that scp_send_directory visits
\* (scp_rdma_sender.c:522-628) is there as it is in the source, through links
\* copied before and in whatever order readdir returned it, and all else is as
\* it was, but for directories on the way to a copy.
THEOREM CopiesFaithfully == Spec => []CopyFaithful
<1>1. Init => AnnounceInv /\ CopyInv
  BY AnnounceInit, CopyInit
<1>2. AnnounceInv /\ CopyInv /\ [Next]_vars => (AnnounceInv /\ CopyInv)'
  BY AnnounceNext, CopyNextInv
<1>3. AnnounceInv /\ CopyInv => CopyFaithful
  BY CompletedIsCopy DEF CopyFaithful, Copying
<1> QED
  BY <1>1, <1>2, <1>3, PTL DEF Spec

=============================================================================
