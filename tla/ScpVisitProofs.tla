---------------------------- MODULE ScpVisitProofs ----------------------------
(***************************************************************************)
(* What the sender visits: links that lead back to a directory above them  *)
(* make it visit a directory again, but not for ever.                      *)
(***************************************************************************)
EXTENDS ScpPathProofs

-----------------------------------------------------------------------------
(* Where a path leads, and where what is below it does.                    *)

LEMMA FollowOneConcat ==
  ASSUME NEW fs, IsTree(fs), NEW p \in Path, NEW s \in Path, LinksOn(fs, p) # {}
  PROVE  LinksOn(fs, p \o s) # {} /\ FollowOne(fs, p \o s) = FollowOne(fs, p) \o s
<1> DEFINE q == p \o s
           i == Min(LinksOn(fs, p))
           j == Min(LinksOn(fs, q))
<1>1. /\ i \in 1 .. Len(p) /\ IsKind(fs, SubSeq(p, 1, i), "link")
      /\ \A k \in 1 .. i - 1 : ~IsKind(fs, SubSeq(p, 1, k), "link")
  BY FirstLink
<1>2. q \in Path /\ Len(p) \in Nat /\ Len(s) \in Nat /\ Len(q) = Len(p) + Len(s)
  BY ConcatPath
<1>3. \A k \in 0 .. Len(p) : SubSeq(q, 1, k) = SubSeq(p, 1, k)
  BY BeginningOfConcat
<1>4. LinksOn(fs, q) # {}
  <2> HIDE DEF i, q
  <2>1. i \in LinksOn(fs, q)
    <3>1. i \in 1 .. Len(q) /\ i \in 0 .. Len(p)
      BY <1>1, <1>2
    <3>2. SubSeq(q, 1, i) = SubSeq(p, 1, i)
      BY <1>3, <3>1
    <3> QED
      BY <1>1, <3>1, <3>2 DEF LinksOn
  <2> QED
    BY <2>1
<1>5. /\ j \in 1 .. Len(q) /\ IsKind(fs, SubSeq(q, 1, j), "link")
      /\ \A k \in 1 .. j - 1 : ~IsKind(fs, SubSeq(q, 1, k), "link")
  BY <1>2, <1>4, FirstLink
<1>6. FollowOne(fs, q) =
        SubSeq(q, 1, j - 1) \o fs[SubSeq(q, 1, j)].to \o SubSeq(q, j + 1, Len(q))
  BY <1>4 DEF FollowOne
<1>7. FollowOne(fs, p) =
        SubSeq(p, 1, i - 1) \o fs[SubSeq(p, 1, i)].to \o SubSeq(p, i + 1, Len(p))
  BY DEF FollowOne
<1>8. SubSeq(q, i + 1, Len(q)) = SubSeq(p, i + 1, Len(p)) \o s
  <2>1. i \in 0 .. Len(p)
    BY <1>1
  <2> HIDE DEF i
  <2> QED
    BY <2>1, EndingOfConcat
<1> HIDE DEF i, j, q
<1>9. i = j
  <2>1. CASE i < j
    <3>1. i \in 1 .. j - 1
      BY <1>1, <1>5, <2>1
    <3>2. SubSeq(q, 1, i) = SubSeq(p, 1, i)
      BY <1>1, <1>3
    <3> QED
      BY <1>1, <1>5, <3>1, <3>2
  <2>2. CASE j < i
    <3>1. j \in 1 .. i - 1 /\ j \in 0 .. Len(p)
      BY <1>1, <1>5, <2>2
    <3>2. SubSeq(q, 1, j) = SubSeq(p, 1, j)
      BY <1>3, <3>1
    <3> QED
      BY <1>1, <1>5, <3>1, <3>2
  <2> QED
    BY <1>1, <1>5, <2>1, <2>2
<1> DEFINE a == SubSeq(p, 1, i - 1)
           t == fs[SubSeq(p, 1, i)].to
           e == SubSeq(p, i + 1, Len(p))
<1>10. i - 1 \in 0 .. Len(p) /\ i \in 0 .. Len(p) /\ Len(p) \in Nat
  BY <1>1, <1>2
<1>11. a \in Path /\ e \in Path
  BY <1>10, Beginning, Ending
<1>12. t \in Path
  BY <1>1 DEF IsTree, IsKind, IsNode, Dir, File
<1>13. FollowOne(fs, q) = a \o t \o (e \o s)
  BY <1>3, <1>6, <1>8, <1>9, <1>10
<1>14. FollowOne(fs, p) = a \o t \o e
  BY <1>7
<1> HIDE DEF a, t, e
<1>15. a \o t \o (e \o s) = (a \o t \o e) \o s
  <2>1. PICK c \in Path : c = a \o t
    BY <1>11, <1>12, ConcatPath
  <2>2. c \o (e \o s) = (c \o e) \o s
    BY <1>11, ConcatThree
  <2> QED
    BY <2>1, <2>2
<1> QED
  BY <1>4, <1>13, <1>14, <1>15 DEF q

\* After k links the path is one without links.
Settles(fs, p, k, r) ==
  /\ k \in 0 .. LinkLimit /\ Way(fs, p)[k] = r /\ LinksOn(fs, r) = {}
  /\ \A j \in 0 .. k - 1 : LinksOn(fs, Way(fs, p)[j]) # {}

LEMMA SettlesFollow ==
  ASSUME NEW fs, IsTree(fs), NEW p \in Path, NEW k, NEW r, Settles(fs, p, k, r)
  PROVE  Follow(fs, p) = {r} /\ r \in Path /\ LinksOn(fs, r) = {}
<1> DEFINE way == Way(fs, p)
           T == {j \in 0 .. LinkLimit : j >= k => way[j] = r}
<1>1. /\ way \in [0 .. LinkLimit -> Path] /\ way[0] = p
      /\ \A j \in 1 .. LinkLimit : way[j] = FollowOne(fs, way[j - 1])
      /\ Follow(fs, p) = {q \in {way[LinkLimit]} : LinksOn(fs, q) = {}}
  BY WaySteps
<1>2. k \in 0 .. LinkLimit /\ way[k] = r /\ LinksOn(fs, r) = {} /\ LinkLimit \in Nat
  BY SizesAssumption DEF Settles
<1>3. FollowOne(fs, r) = r
  BY <1>2 DEF FollowOne
<1> HIDE DEF way
<1>4. 0 \in T
  BY <1>2
<1>5. ASSUME NEW j \in 1 .. LinkLimit, j - 1 \in T PROVE j \in T
  <2>1. CASE j > k
    <3>1. way[j - 1] = r
      BY <1>2, <1>5, <2>1
    <3> QED
      BY <1>1, <1>2, <1>3, <3>1
  <2>2. CASE ~(j > k)
    BY <1>2, <2>2
  <2> QED
    BY <2>1, <2>2
<1>6. way[LinkLimit] = r
  <2> HIDE DEF T
  <2>1. 0 .. LinkLimit \subseteq T
    BY <1>2, <1>4, <1>5, UpTo
  <2> QED
    BY <1>2, <2>1 DEF T
<1> QED
  BY <1>1, <1>2, <1>6

LEMMA FollowSettles ==
  ASSUME NEW fs, IsTree(fs), NEW p \in Path, NEW r \in Follow(fs, p)
  PROVE  \E k : Settles(fs, p, k, r)
<1> DEFINE way == Way(fs, p)
           T == {j \in 0 .. LinkLimit : LinksOn(fs, way[j]) = {}}
<1>1. LinkLimit \in Nat /\ Follow(fs, p) = {q \in {way[LinkLimit]} : LinksOn(fs, q) = {}}
  BY SizesAssumption, WaySteps
<1>2. LinkLimit \in T /\ T \subseteq Nat
  BY <1>1
<1>3. PICK k \in T : \A j \in T : k <= j
  BY <1>2, LeastNat
<1>4. \A j \in 0 .. k - 1 : LinksOn(fs, way[j]) # {}
  BY <1>1, <1>3
<1>5. Settles(fs, p, k, way[k])
  BY <1>3, <1>4 DEF Settles
<1>6. way[k] = r
  BY <1>5, SettlesFollow
<1> QED
  BY <1>5, <1>6

LEMMA WayConcat ==
  ASSUME NEW fs, IsTree(fs), NEW p \in Path, NEW s \in Path, NEW k, NEW r, Settles(fs, p, k, r)
  PROVE  /\ Way(fs, p \o s)[k] = r \o s
         /\ \A j \in 0 .. k - 1 : LinksOn(fs, Way(fs, p \o s)[j]) # {}
<1> DEFINE v == Way(fs, p)
           w == Way(fs, p \o s)
           T == {j \in 0 .. k : w[j] = v[j] \o s}
<1>1. /\ v \in [0 .. LinkLimit -> Path] /\ v[0] = p
      /\ \A j \in 1 .. LinkLimit : v[j] = FollowOne(fs, v[j - 1])
  BY WaySteps
<1>2. /\ w[0] = p \o s
      /\ \A j \in 1 .. LinkLimit : w[j] = FollowOne(fs, w[j - 1])
  <2>1. p \o s \in Path
    BY ConcatPath
  <2>2. \A q \in Path : /\ Way(fs, q)[0] = q
                        /\ \A j \in 1 .. LinkLimit :
                             Way(fs, q)[j] = FollowOne(fs, Way(fs, q)[j - 1])
    BY WaySteps
  <2> QED
    BY <2>1, <2>2, Zenon
<1>3. /\ k \in 0 .. LinkLimit /\ v[k] = r /\ LinkLimit \in Nat
      /\ \A j \in 0 .. k - 1 : LinksOn(fs, v[j]) # {}
  BY SizesAssumption DEF Settles
<1> HIDE DEF v, w
<1>4. 0 \in T
  BY <1>1, <1>2, <1>3
<1>5. ASSUME NEW j \in 1 .. k, j - 1 \in T PROVE j \in T
  <2>1. j - 1 \in 0 .. k - 1 /\ j - 1 \in 0 .. LinkLimit /\ j \in 1 .. LinkLimit
    BY <1>3
  <2>2. v[j - 1] \in Path /\ LinksOn(fs, v[j - 1]) # {}
    BY <1>1, <1>3, <2>1
  <2>3. FollowOne(fs, v[j - 1] \o s) = FollowOne(fs, v[j - 1]) \o s
    BY <2>2, FollowOneConcat
  <2>4. w[j] = FollowOne(fs, w[j - 1]) /\ v[j] = FollowOne(fs, v[j - 1])
    BY <1>1, <1>2, <2>1
  <2>5. w[j] = v[j] \o s
    BY <1>5, <2>3, <2>4
  <2> QED
    BY <1>3, <2>5
<1>6. \A j \in 0 .. k : w[j] = v[j] \o s
  <2> HIDE DEF T
  <2>1. 0 .. k \subseteq T
    BY <1>3, <1>4, <1>5, UpTo
  <2> QED
    BY <2>1 DEF T
<1>7. ASSUME NEW j \in 0 .. k - 1 PROVE LinksOn(fs, w[j]) # {}
  <2>1. j \in 0 .. k /\ j \in 0 .. LinkLimit
    BY <1>3
  <2>2. v[j] \in Path /\ LinksOn(fs, v[j]) # {}
    BY <1>1, <1>3, <2>1
  <2>3. LinksOn(fs, v[j] \o s) # {}
    BY <2>2, FollowOneConcat
  <2> QED
    BY <1>6, <2>1, <2>3
<1>8. w[k] = r \o s
  <2>1. k \in 0 .. k /\ v[k] = r
    BY <1>3
  <2>2. w[k] = v[k] \o s
    BY <1>6, <2>1
  <2> QED
    BY <2>1, <2>2
<1> QED
  BY <1>7, <1>8 DEF w

\* A directory is found, with or without links being followed, where the path
\* of its directory leads.
LEMMA DirFound ==
  ASSUME NEW fs, IsTree(fs), NEW p \in Path, Dir \in Lstat(fs, p)
  PROVE  Dir \in Stat(fs, p)
<1>1. PICK r \in FollowParent(fs, p) \cap DOMAIN fs : fs[r] = Dir
  BY DEF Lstat
<1>2. CASE p = <<>>
  <2>1. r = p /\ LinksOn(fs, p) = {}
    BY <1>1, <1>2 DEF FollowParent, LinksOn
  <2>2. Follow(fs, p) = {p}
    BY <2>1, NoLinks
  <2> QED
    BY <1>1, <2>1, <2>2 DEF Stat
<1>3. CASE p # <<>>
  <2> DEFINE f == Front(p)
             n == Last(p)
  <2>1. f \in Path /\ n \in Name /\ p = f \o <<n>> /\ <<n>> \in Path
    <3>1. f \in Path /\ n \in Name /\ Append(f, n) = p
      BY <1>3, FrontAppend
    <3> HIDE DEF f, n
    <3> QED
      BY <3>1, AppendPath
  <2>2. PICK x \in Follow(fs, f) : r = Append(x, n)
    BY <1>1, <1>3 DEF FollowParent
  <2> HIDE DEF f, n
  <2>3. PICK k : Settles(fs, f, k, x)
    BY <2>1, <2>2, FollowSettles
  <2>4. x \in Path /\ LinksOn(fs, x) = {}
    BY <2>1, <2>3, SettlesFollow
  <2>5. r \in Path /\ r = x \o <<n>> /\ Len(x) \in Nat /\ Len(r) = Len(x) + 1
    BY <2>1, <2>2, <2>4, AppendPath
  <2>6. Way(fs, p)[k] = r /\ \A j \in 0 .. k - 1 : LinksOn(fs, Way(fs, p)[j]) # {}
    <3>1. PICK s \in Path : s = <<n>>
      BY <2>1
    <3>2. /\ Way(fs, f \o s)[k] = x \o s
          /\ \A j \in 0 .. k - 1 : LinksOn(fs, Way(fs, f \o s)[j]) # {}
      BY <2>1, <2>3, WayConcat
    <3> QED
      BY <2>1, <2>5, <3>1, <3>2, Zenon
  <2>7. LinksOn(fs, r) = {}
    <3>1. ASSUME NEW i \in 1 .. Len(r) PROVE ~IsKind(fs, SubSeq(r, 1, i), "link")
      <4>1. CASE i <= Len(x)
        <5>1. i \in 0 .. Len(x) /\ i \in 1 .. Len(x)
          BY <2>5, <4>1
        <5>2. SubSeq(r, 1, i) = SubSeq(x, 1, i)
          BY <2>1, <2>4, <2>5, <5>1, BeginningOfConcat
        <5> QED
          BY <2>4, <5>1, <5>2 DEF LinksOn
      <4>2. CASE i > Len(x)
        <5>1. i = Len(r)
          BY <2>5, <4>2
        <5>2. SubSeq(r, 1, i) = r
          BY <2>5, <5>1, WholePath
        <5>3. ~IsKind(fs, r, "link")
          BY <1>1 DEF IsKind, Dir
        <5> QED
          BY <5>2, <5>3
      <4> QED
        BY <2>5, <4>1, <4>2
    <3> QED
      BY <3>1 DEF LinksOn
  <2>8. Settles(fs, p, k, r)
    BY <2>3, <2>6, <2>7 DEF Settles
  <2>9. Follow(fs, p) = {r}
    BY <2>8, SettlesFollow
  <2> QED
    BY <1>1, <2>9 DEF Stat
<1> QED
  BY <1>2, <1>3

\* How long a chain of directories can be of which each is below the one before.
LEMMA FewDirs ==
  ASSUME NEW fs, IsTree(fs), IsFiniteSet(DOMAIN fs), NEW D \in Nat, NEW w \in [0 .. D -> Path],
         \A i, j \in 0 .. D : i < j => \E s \in Path : s # <<>> /\ w[j] = w[i] \o s,
         \A i \in 0 .. D : Stat(fs, w[i]) # {}
  PROVE  D < (LinkLimit + 1) * Cardinality(DOMAIN fs)
<1> DEFINE P == (0 .. LinkLimit) \X DOMAIN fs
           f == [i \in 0 .. D |-> CHOOSE x \in P : Settles(fs, w[i], x[1], x[2])]
<1>1. ASSUME NEW i \in 0 .. D
      PROVE  f[i] \in P /\ Settles(fs, w[i], f[i][1], f[i][2])
  <2>1. PICK r \in Follow(fs, w[i]) \cap DOMAIN fs : TRUE
    BY DEF Stat
  <2>2. PICK k : Settles(fs, w[i], k, r)
    BY <2>1, FollowSettles
  <2>3. k \in 0 .. LinkLimit
    BY <2>2 DEF Settles
  <2>4. <<k, r>> \in P /\ Settles(fs, w[i], <<k, r>>[1], <<k, r>>[2])
    BY <2>1, <2>2, <2>3
  <2>5. \E x \in P : Settles(fs, w[i], x[1], x[2])
    BY <2>4
  <2> HIDE DEF P
  <2> QED
    BY <2>5
<1> HIDE DEF f
<1>2. f \in [0 .. D -> P]
  BY <1>1 DEF f
<1>3. ASSUME NEW i \in 0 .. D, NEW j \in 0 .. D, i < j PROVE f[i] # f[j]
  <2> SUFFICES ASSUME f[i] = f[j] PROVE FALSE
    OBVIOUS
  <2>1. PICK k, r : k = f[i][1] /\ r = f[i][2]
    OBVIOUS
  <2>2. Settles(fs, w[i], k, r) /\ Settles(fs, w[j], k, r)
    BY <1>1, <2>1
  <2>3. PICK s \in Path : s # <<>> /\ w[j] = w[i] \o s
    BY <1>3
  <2>4. Way(fs, w[j])[k] = r \o s
    BY <2>2, <2>3, WayConcat
  <2>5. r = r \o s
    BY <2>2, <2>4 DEF Settles
  <2>6. r \in Path
    BY <2>2, SettlesFollow
  <2>7. Len(r) \in Nat /\ Len(s) \in Nat /\ Len(r) = Len(r) + Len(s)
    BY <2>5, <2>6, ConcatPath
  <2>8. Len(s) = 0
    BY <2>7
  <2> QED
    BY <2>3, <2>8, EmptySeq DEF Path
<1>4. f \in Injection(0 .. D, P)
  <2>1. \A i, j \in 0 .. D : f[i] = f[j] => i = j
    BY <1>3
  <2> HIDE DEF P
  <2> QED
    BY <1>2, <2>1 DEF Injection, IsInjective
<1>5. LinkLimit \in Nat /\ Cardinality(DOMAIN fs) \in Nat
  BY SizesAssumption, FS_CardinalityType
<1>6. /\ IsFiniteSet(0 .. LinkLimit) /\ Cardinality(0 .. LinkLimit) = LinkLimit + 1
      /\ Cardinality(0 .. D) = D + 1
  <2>1. \A n \in Nat : IsFiniteSet(0 .. n) /\ Cardinality(0 .. n) = n + 1
    <3> SUFFICES ASSUME NEW n \in Nat
                 PROVE  IsFiniteSet(0 .. n) /\ Cardinality(0 .. n) = n + 1
      OBVIOUS
    <3>1. /\ IsFiniteSet(0 .. n)
          /\ Cardinality(0 .. n) = IF 0 > n THEN 0 ELSE n - 0 + 1
      BY FS_Interval
    <3> QED
      BY <3>1
  <2> QED
    BY <1>5, <2>1
<1>7. IsFiniteSet(P) /\ Cardinality(P) = (LinkLimit + 1) * Cardinality(DOMAIN fs)
  BY <1>6, FS_Product
<1>8. Cardinality(0 .. D) <= Cardinality(P)
  <2> HIDE DEF P
  <2> QED
    BY <1>4, <1>7, FS_Injection
<1> DEFINE M == (LinkLimit + 1) * Cardinality(DOMAIN fs)
<1>9. M \in Nat
  BY <1>5
<1> HIDE DEF M, P
<1>10. Cardinality(P) = M
  BY <1>7 DEF M
<1>11. D < M
  BY <1>6, <1>8, <1>9, <1>10
<1> QED
  BY <1>11 DEF M

-----------------------------------------------------------------------------
(* Visited, level by level.                                                *)

Depth == (LinkLimit + 1) * Cardinality(DOMAIN job.src)
ToVisit(q) == Found(q) # {} /\ (Dir \in Found(q) => job.recursive)
Below(S) ==
  {q \in UNION {{Append(p, n) : n \in Entries(p)} : p \in {r \in S : Dir \in Found(r)}} :
     /\ Found(q) # {}
     /\ Dir \in Found(q) => job.recursive}
Level ==
  CHOOSE at : at = [d \in 0 .. Depth |->
    IF d = 0 THEN {job.local}
    ELSE {q \in UNION {{Append(p, n) : n \in Entries(p)} :
                         p \in {r \in at[d - 1] : Dir \in Found(r)}} :
            /\ Found(q) # {}
            /\ Dir \in Found(q) => job.recursive}]

LEMMA VisitedLevels == Visited = UNION {Level[d] : d \in 0 .. Depth}
BY Zenon DEF Visited, Level, Depth

LEMMA BelowOf ==
  ASSUME NEW S
  PROVE  \A q : q \in Below(S) <=>
           \E p \in S : \E n \in Entries(p) : q = Append(p, n) /\ Dir \in Found(p) /\ ToVisit(q)
<1> DEFINE R == {r \in S : Dir \in Found(r)}
           U == UNION {{Append(p, n) : n \in Entries(p)} : p \in R}
<1>1. \A q : q \in U <=> \E p \in R : \E n \in Entries(p) : q = Append(p, n)
  <2> HIDE DEF R
  <2>1. ASSUME NEW q \in U PROVE \E p \in R : \E n \in Entries(p) : q = Append(p, n)
    OBVIOUS
  <2>2. ASSUME NEW q, NEW p \in R, NEW n \in Entries(p), q = Append(p, n) PROVE q \in U
    <3>1. q \in {Append(p, m) : m \in Entries(p)}
      BY <2>2
    <3> QED
      BY <3>1, Zenon
  <2> HIDE DEF U
  <2> QED
    BY <2>1, <2>2
<1>2. \A q : q \in Below(S) <=> q \in U /\ ToVisit(q)
  BY Zenon DEF Below, ToVisit
<1>3. \A r : r \in R <=> r \in S /\ Dir \in Found(r)
  BY Zenon
<1> HIDE DEF U, R
<1> QED
  BY <1>1, <1>2, <1>3, Zenon

LEMMA EntriesAreNames == \A p : Entries(p) \subseteq Name
BY DEF Entries

LEMMA DepthNat == ASSUME job \in Jobs PROVE Depth \in Nat
<1>1. LinkLimit \in Nat /\ Cardinality(DOMAIN job.src) \in Nat
  BY SizesAssumption, JobsAssumption, FS_CardinalityType
<1> QED
  BY <1>1 DEF Depth

LEMMA Levels ==
  ASSUME job \in Jobs
  PROVE  /\ Level \in [0 .. Depth -> SUBSET Path]
         /\ Level[0] = {job.local}
         /\ \A d \in 1 .. Depth : Level[d] = Below(Level[d - 1])
<1> DEFINE F == [S \in SUBSET Path |-> Below(S)]
<1>1. Depth \in Nat /\ job.local \in Path
  BY DepthNat, SourcePaths
<1>2. F \in [SUBSET Path -> SUBSET Path]
  <2> SUFFICES ASSUME NEW S \in SUBSET Path PROVE Below(S) \subseteq Path
    OBVIOUS
  <2>1. ASSUME NEW q \in Below(S) PROVE q \in Path
    <3>1. PICK p \in S : \E n \in Entries(p) : q = Append(p, n)
      BY BelowOf
    <3>2. PICK n \in Entries(p) : q = Append(p, n)
      BY <3>1
    <3>3. p \in Path /\ n \in Name
      BY EntriesAreNames
    <3> QED
      BY <3>2, <3>3, AppendPath
  <2> QED
    BY <2>1
<1>3. PICK w : Orbit(SUBSET Path, F, {job.local}, Depth, w)
  <2>1. {job.local} \in SUBSET Path
    BY <1>1
  <2> HIDE DEF F
  <2> QED
    BY <1>1, <1>2, <2>1, Iterates
<1>4. /\ w \in [0 .. Depth -> SUBSET Path] /\ w[0] = {job.local}
      /\ \A d \in 1 .. Depth : w[d] = Below(w[d - 1])
  <2>1. w \in [0 .. Depth -> SUBSET Path]
    BY <1>3 DEF Orbit
  <2>2. ASSUME NEW d \in 1 .. Depth PROVE w[d - 1] \in SUBSET Path
    BY <1>1, <2>1
  <2> QED
    BY <1>3, <2>1, <2>2 DEF Orbit
<1> DEFINE G(at) == [d \in 0 .. Depth |-> IF d = 0 THEN {job.local} ELSE Below(at[d - 1])]
<1>5. w = G(w)
  <2>1. \A d \in 0 .. Depth : w[d] = IF d = 0 THEN {job.local} ELSE Below(w[d - 1])
    BY <1>1, <1>4
  <2>2. w = [d \in 0 .. Depth |-> w[d]]
    BY <1>4
  <2> QED
    BY <2>1, <2>2, Zenon
<1>6. Level = CHOOSE at : at = G(at)
  BY Zenon DEF Level, Below
<1>7. Level = G(Level)
  <2> HIDE DEF G
  <2> QED
    BY <1>5, <1>6, Zenon
<1>8. \A d \in 0 .. Depth : Level[d] = IF d = 0 THEN {job.local} ELSE Below(Level[d - 1])
  BY <1>7, Zenon
<1>9. Level[0] = {job.local} /\ \A d \in 1 .. Depth : Level[d] = Below(Level[d - 1])
  <2>1. 0 \in 0 .. Depth /\ \A d \in 1 .. Depth : d \in 0 .. Depth /\ d # 0
    BY <1>1
  <2> QED
    BY <1>8, <2>1, Zenon
<1> DEFINE T == {d \in 0 .. Depth : Level[d] = w[d]}
<1>10. 0 \in T /\ \A d \in 1 .. Depth : d - 1 \in T => d \in T
  <2>1. 0 \in T
    <3>1. 0 \in 0 .. Depth /\ Level[0] = w[0]
      BY <1>1, <1>4, <1>9
    <3> QED
      BY <3>1, Zenon
  <2>2. ASSUME NEW d \in 1 .. Depth, d - 1 \in T PROVE d \in T
    <3>1. Level[d - 1] = w[d - 1] /\ d \in 0 .. Depth
      BY <1>1, <2>2
    <3>2. Level[d] = w[d]
      BY <1>4, <1>9, <3>1, Zenon
    <3> QED
      BY <3>1, <3>2
  <2> QED
    BY <2>1, <2>2
<1>11. \A d \in 0 .. Depth : Level[d] = w[d]
  <2> HIDE DEF T
  <2>1. 0 .. Depth \subseteq T
    BY <1>1, <1>10, UpTo
  <2> QED
    BY <2>1 DEF T
<1>12. Level \in [0 .. Depth -> SUBSET Path]
  <2>1. Level = [d \in 0 .. Depth |-> Level[d]]
    BY <1>7, Zenon
  <2>2. \A d \in 0 .. Depth : Level[d] \in SUBSET Path
    BY <1>4, <1>11
  <2> QED
    BY <2>1, <2>2, Zenon
<1> QED
  BY <1>9, <1>12

\* What is visited is below SOURCE, as are the directories it is in.
Descends(d, q) ==
  /\ Len(q) = Len(job.local) + d
  /\ SubSeq(q, 1, Len(job.local)) = job.local
  /\ \A i \in 0 .. d - 1 :
       /\ SubSeq(q, 1, Len(job.local) + i) \in Level[i]
       /\ Dir \in Found(SubSeq(q, 1, Len(job.local) + i))
  /\ d > 0 => ToVisit(q)

LEMMA LevelsDescend ==
  ASSUME job \in Jobs
  PROVE  \A d \in 0 .. Depth : \A q \in Level[d] : Descends(d, q)
<1> DEFINE T == {d \in 0 .. Depth : \A q \in Level[d] : Descends(d, q)}
           l == Len(job.local)
<1>1. Depth \in Nat /\ job.local \in Path /\ l \in Nat
  BY DepthNat, SourcePaths, WholePath
<1>2. 0 \in T
  <2>1. \A q \in Level[0] : q = job.local
    BY Levels
  <2>2. Descends(0, job.local)
    BY <1>1, WholePath DEF Descends
  <2> QED
    BY <1>1, <2>1, <2>2
<1>3. ASSUME NEW d \in 1 .. Depth, d - 1 \in T PROVE d \in T
  <2> SUFFICES ASSUME NEW q \in Level[d] PROVE Descends(d, q)
    BY <1>1
  <2> DEFINE c == d - 1
  <2>1. c \in 0 .. Depth /\ d = c + 1 /\ c \in Nat
    BY <1>1
  <2>2. PICK p \in Level[c] : \E n \in Entries(p) :
          q = Append(p, n) /\ Dir \in Found(p) /\ ToVisit(q)
    BY Levels, BelowOf
  <2>3. PICK n \in Entries(p) : q = Append(p, n)
    BY <2>2
  <2>4. p \in Path /\ n \in Name /\ Descends(c, p)
    BY <1>3, <2>1, Levels, EntriesAreNames
  <2>5. q = p \o <<n>> /\ Len(q) = Len(p) + 1
    BY <2>3, <2>4, AppendPath
  <2>6. PICK s \in Path : s = <<n>>
    BY <2>4, AppendPath
  <2>7. \A k \in 0 .. Len(p) : SubSeq(q, 1, k) = SubSeq(p, 1, k)
    BY <2>4, <2>5, <2>6, BeginningOfConcat
  <2> HIDE DEF c
  <2>8. Len(p) = l + c
    BY <2>4 DEF Descends
  <2>9. Len(q) = l + d /\ SubSeq(q, 1, l) = job.local
    <3>1. l \in 0 .. Len(p)
      BY <1>1, <2>1, <2>8
    <3>2. SubSeq(q, 1, l) = SubSeq(p, 1, l)
      BY <2>7, <3>1
    <3>3. Len(q) = l + d
      <4>1. Len(q) = Len(p) + 1
        BY <2>5
      <4> HIDE DEF l
      <4> QED
        BY <1>1, <2>1, <2>8, <4>1
    <3> QED
      BY <2>4, <3>2, <3>3 DEF Descends
  <2>10. ASSUME NEW i \in 0 .. d - 1
        PROVE  SubSeq(q, 1, l + i) \in Level[i] /\ Dir \in Found(SubSeq(q, 1, l + i))
    <3>1. l + i \in 0 .. Len(p)
      BY <1>1, <2>1, <2>8
    <3>2. SubSeq(q, 1, l + i) = SubSeq(p, 1, l + i)
      BY <2>7, <3>1
    <3>3. CASE i = c
      <4>1. SubSeq(p, 1, l + i) = p
        BY <2>4, <2>8, <3>3, WholePath
      <4> QED
        BY <2>2, <3>2, <3>3, <4>1
    <3>4. CASE i # c
      <4>1. i \in 0 .. c - 1
        BY <2>1, <3>4
      <4> QED
        BY <2>4, <3>2, <4>1 DEF Descends
    <3> QED
      BY <3>3, <3>4
  <2> QED
    BY <2>2, <2>9, <2>10 DEF Descends
<1> HIDE DEF T
<1>4. 0 .. Depth \subseteq T
  BY <1>1, <1>2, <1>3, UpTo
<1> QED
  BY <1>4 DEF T

LEMMA LocalVisited == ASSUME job \in Jobs PROVE job.local \in Visited
<1>1. 0 \in 0 .. Depth /\ job.local \in Level[0]
  BY DepthNat, Levels
<1> QED
  BY <1>1, VisitedLevels

LEMMA VisitedBelow ==
  ASSUME job \in Jobs, NEW q \in Visited
  PROVE  /\ q \in Path /\ job.local \in Path
         /\ Len(q) \in Nat /\ Len(job.local) \in Nat /\ Len(job.local) <= Len(q)
         /\ SubSeq(q, 1, Len(job.local)) = job.local
         /\ \A k \in Len(job.local) .. Len(q) - 1 :
              SubSeq(q, 1, k) \in Visited /\ Dir \in Found(SubSeq(q, 1, k))
         /\ Len(q) > Len(job.local) => ToVisit(q)
<1> DEFINE l == Len(job.local)
<1>1. PICK d \in 0 .. Depth : q \in Level[d]
  BY VisitedLevels
<1>2. Descends(d, q)
  BY <1>1, LevelsDescend
<1>3. q \in Path /\ job.local \in Path /\ Depth \in Nat
  BY <1>1, Levels, DepthNat, SourcePaths
<1>4. Len(q) \in Nat /\ l \in Nat
  BY <1>3, WholePath
<1>5. Len(q) = l + d
  BY <1>2 DEF Descends
<1>6. SubSeq(q, 1, l) = job.local /\ (d > 0 => ToVisit(q))
  BY <1>2 DEF Descends
<1>7. ASSUME NEW k \in l .. Len(q) - 1
      PROVE  SubSeq(q, 1, k) \in Visited /\ Dir \in Found(SubSeq(q, 1, k))
  <2> DEFINE i == k - l
  <2>1. i \in 0 .. d - 1 /\ i \in 0 .. Depth /\ k = l + i
    BY <1>3, <1>4, <1>5
  <2> HIDE DEF i
  <2>2. SubSeq(q, 1, l + i) \in Level[i] /\ Dir \in Found(SubSeq(q, 1, l + i))
    BY <1>2, <2>1 DEF Descends
  <2>3. SubSeq(q, 1, l + i) \in Visited
    BY <2>1, <2>2, VisitedLevels
  <2> QED
    BY <2>1, <2>2, <2>3
<1> HIDE DEF l
<1>8. l <= Len(q) /\ (Len(q) > l => d > 0)
  BY <1>3, <1>4, <1>5
<1> QED
  BY <1>3, <1>4, <1>6, <1>7, <1>8 DEF l

\* What can be found at a path: at most one node.
LEMMA FollowOnce ==
  ASSUME NEW fs, IsTree(fs), NEW p \in Path, NEW x \in Follow(fs, p), NEW y \in Follow(fs, p)
  PROVE  x = y
BY WaySteps

LEMMA FollowParentOnce ==
  ASSUME NEW fs, IsTree(fs), NEW p \in Path,
         NEW x \in FollowParent(fs, p), NEW y \in FollowParent(fs, p)
  PROVE  x = y
<1>1. CASE p = <<>>
  BY <1>1 DEF FollowParent
<1>2. CASE p # <<>>
  <2>1. Front(p) \in Path
    BY FrontPath
  <2>2. PICK v \in Follow(fs, Front(p)), w \in Follow(fs, Front(p)) :
          x = Append(v, Last(p)) /\ y = Append(w, Last(p))
    BY <1>2 DEF FollowParent
  <2>3. v = w
    BY <2>1, FollowOnce
  <2> QED
    BY <2>2, <2>3
<1> QED
  BY <1>1, <1>2

LEMMA FoundOnce ==
  ASSUME job \in Jobs, NEW q \in Path, NEW x \in Found(q), NEW y \in Found(q)
  PROVE  x = y
<1>1. IsTree(job.src)
  BY JobsAssumption
<1>2. CASE job.no_link
  <2>1. PICK v \in Follow(job.src, q), w \in Follow(job.src, q) :
          x = job.src[v] /\ y = job.src[w]
    BY <1>2 DEF Found, Stat
  <2> QED
    BY <1>1, <2>1, FollowOnce
<1>3. CASE ~job.no_link
  <2>1. PICK v \in FollowParent(job.src, q), w \in FollowParent(job.src, q) :
          x = job.src[v] /\ y = job.src[w]
    BY <1>3 DEF Found, Lstat
  <2> QED
    BY <1>1, <2>1, FollowParentOnce
<1> QED
  BY <1>2, <1>3

\* The levels are enough: a longer chain of directories would have one twice
\* after the same number of links.
LEMMA VisitedClosed ==
  ASSUME job \in Jobs, NEW q \in Visited, Dir \in Found(q), NEW n \in Entries(q),
         ToVisit(Append(q, n))
  PROVE  Append(q, n) \in Visited
<1> DEFINE l == Len(job.local)
<1>1. PICK d \in 0 .. Depth : q \in Level[d]
  BY VisitedLevels
<1>2. Descends(d, q) /\ q \in Path /\ Depth \in Nat
  BY <1>1, Levels, LevelsDescend, DepthNat
<1>3. CASE d < Depth
  <2> DEFINE e == d + 1
  <2>1. e \in 1 .. Depth /\ e - 1 = d /\ e \in 0 .. Depth
    BY <1>2, <1>3
  <2>2. Append(q, n) \in Below(Level[d])
    BY <1>1, BelowOf
  <2> HIDE DEF e
  <2>3. Append(q, n) \in Level[e]
    BY <2>1, <2>2, Levels
  <2> QED
    BY <2>1, <2>3, VisitedLevels
<1>4. CASE ~(d < Depth)
  <2> DEFINE w == [i \in 0 .. Depth |-> SubSeq(q, 1, l + i)]
  <2>1. Len(q) = l + Depth /\ l \in Nat /\ d = Depth
    <3>1. d = Depth
      BY <1>2, <1>4
    <3> QED
      BY <1>2, <3>1, SourcePaths, WholePath DEF Descends
  <2>2. ASSUME NEW i \in 0 .. Depth
        PROVE  /\ w[i] \in Path /\ Len(w[i]) = l + i /\ w[i] = SubSeq(q, 1, l + i)
               /\ l + i \in 0 .. Len(q)
    <3> HIDE DEF l
    <3>1. l + i \in 0 .. Len(q)
      BY <1>2, <2>1
    <3> QED
      BY <1>2, <3>1, Beginning
  <2>3. w \in [0 .. Depth -> Path]
    BY <2>2
  <2>4. ASSUME NEW i \in 0 .. Depth, NEW j \in 0 .. Depth, i < j
        PROVE  \E s \in Path : s # <<>> /\ w[j] = w[i] \o s
    <3> DEFINE a == w[i]
               b == w[j]
               s == SubSeq(b, Len(a) + 1, Len(b))
    <3>1. a \in Path /\ b \in Path /\ Len(a) = l + i /\ Len(b) = l + j
      BY <2>2
    <3>2. a = SubSeq(b, 1, Len(a))
      <4>1. l + j \in 0 .. Len(q) /\ l + i \in 0 .. l + j
        <5> HIDE DEF l
        <5>1. l + i <= l + j /\ l + i \in Nat
          BY <1>2, <2>1, <2>4
        <5> QED
          BY <1>2, <2>1, <2>2, <5>1
      <4>2. SubSeq(SubSeq(q, 1, l + j), 1, l + i) = SubSeq(q, 1, l + i)
        BY <1>2, <4>1, BeginningOfBeginning
      <4> QED
        BY <2>2, <3>1, <4>2
    <3> HIDE DEF a, b, l
    <3>3. Len(a) \in 0 .. Len(b) /\ Len(b) - Len(a) > 0 /\ Len(a) \in Nat /\ Len(b) \in Nat
      BY <1>2, <2>1, <2>4, <3>1
    <3>4. s \in Path /\ Len(s) = Len(b) - Len(a)
          /\ \A k \in 1 .. Len(b) - Len(a) : s[k] = b[Len(a) + k]
      BY <3>1, <3>3, Ending
    <3>5. \A k \in 1 .. Len(a) : a[k] = b[k]
      BY <3>1, <3>2, <3>3, Beginning
    <3> HIDE DEF s
    <3>6. s # <<>>
      BY <3>3, <3>4, EmptySeq
    <3>7. /\ a \o s \in Path /\ Len(a \o s) = Len(a) + Len(s)
          /\ \A k \in 1 .. Len(a) + Len(s) :
               (a \o s)[k] = IF k <= Len(a) THEN a[k] ELSE s[k - Len(a)]
      BY <3>1, <3>4, ConcatPath
    <3>8. Len(b) = Len(a \o s)
      BY <3>3, <3>4, <3>7
    <3>9. ASSUME NEW k \in 1 .. Len(b) PROVE b[k] = (a \o s)[k]
      <4>1. CASE k <= Len(a)
        BY <3>3, <3>4, <3>5, <3>7, <4>1
      <4>2. CASE k > Len(a)
        <5>1. k - Len(a) \in 1 .. Len(b) - Len(a) /\ Len(a) + (k - Len(a)) = k
          BY <3>3, <4>2
        <5>2. s[k - Len(a)] = b[k]
          BY <3>4, <5>1
        <5> QED
          BY <3>3, <3>4, <3>7, <4>2, <5>2
      <4>3. k <= Len(a) \/ k > Len(a)
        BY <3>3
      <4> QED
        BY <4>1, <4>2, <4>3
    <3>10. b = a \o s
      BY <3>1, <3>7, <3>8, <3>9, SamePath
    <3> QED
      BY <3>4, <3>6, <3>10 DEF a, b
  <2>5. ASSUME NEW i \in 0 .. Depth PROVE Stat(job.src, w[i]) # {}
    <3>1. Dir \in Found(w[i])
      <4>1. CASE i = Depth
        <5>1. w[i] = q
          BY <1>2, <2>1, <2>2, <4>1, WholePath
        <5> QED
          BY <5>1
      <4>2. CASE i # Depth
        <5>1. i \in 0 .. d - 1
          BY <1>2, <2>1, <4>2
        <5> QED
          BY <1>2, <2>2, <5>1 DEF Descends
      <4> QED
        BY <4>1, <4>2
    <3> HIDE DEF w
    <3>2. w[i] \in Path /\ IsTree(job.src)
      BY <2>3, JobsAssumption
    <3>3. Dir \in Stat(job.src, w[i])
      BY <3>1, <3>2, DirFound DEF Found
    <3> QED
      BY <3>3
  <2> HIDE DEF w
  <2>6. IsTree(job.src) /\ IsFiniteSet(DOMAIN job.src)
    BY JobsAssumption
  <2>7. Depth < (LinkLimit + 1) * Cardinality(DOMAIN job.src)
    BY <1>2, <2>3, <2>4, <2>5, <2>6, FewDirs
  <2> QED
    BY <1>2, <2>7 DEF Depth
<1> QED
  BY <1>3, <1>4

\* To show something of all that is visited.
LEMMA VisitedAll ==
  ASSUME job \in Jobs, NEW S, job.local \in S,
         \A q \in Visited \cap S : \A n \in Entries(q) :
           Dir \in Found(q) /\ Append(q, n) \in Visited => Append(q, n) \in S
  PROVE  Visited \subseteq S
<1> DEFINE T == {d \in 0 .. Depth : Level[d] \subseteq S}
<1>1. Depth \in Nat
  BY DepthNat
<1>2. 0 \in T
  BY <1>1, Levels
<1>3. ASSUME NEW d \in 1 .. Depth, d - 1 \in T PROVE d \in T
  <2>1. d - 1 \in 0 .. Depth /\ d \in 0 .. Depth
    BY <1>1
  <2>2. ASSUME NEW q \in Level[d] PROVE q \in S
    <3>1. PICK p \in Level[d - 1] : \E n \in Entries(p) :
            q = Append(p, n) /\ Dir \in Found(p) /\ ToVisit(q)
      BY Levels, BelowOf
    <3>2. p \in Visited /\ q \in Visited
      BY <2>1, VisitedLevels
    <3>3. p \in S
      BY <1>3
    <3> QED
      BY <3>1, <3>2, <3>3
  <2> QED
    BY <2>1, <2>2
<1>4. \A d \in 0 .. Depth : Level[d] \subseteq S
  <2> HIDE DEF T
  <2>1. 0 .. Depth \subseteq T
    BY <1>1, <1>2, <1>3, UpTo
  <2> QED
    BY <2>1 DEF T
<1> QED
  BY <1>4, VisitedLevels

-----------------------------------------------------------------------------
(* The calls of scp_send_directory that run at a time are few.             *)

LEMMA ChainPart ==
  ASSUME NEW calls, NEW part, IsChain(calls), Len(calls) \in Nat, Len(part) \in 0 .. Len(calls),
         \A i \in 1 .. Len(part) : part[i].local = calls[i].local
  PROVE  IsChain(part)
<1>1. \A i \in 1 .. Len(part) : i \in 1 .. Len(calls)
  OBVIOUS
<1> QED
  BY <1>1 DEF IsChain

LEMMA CallAt ==
  ASSUME NEW calls \in Seq(Call), NEW i \in 1 .. Len(calls)
  PROVE  calls[i] \in Call /\ calls[i].local \in Path
<1>1. calls[i] \in Call
  BY ElementOfSeq
<1> QED
  BY <1>1 DEF Call

LEMMA ChainGrown ==
  ASSUME NEW calls \in Seq(Call), IsChain(calls), NEW call \in Call,
         Stat(job.src, call.local) # {},
         calls # <<>> => \E n \in Name : call.local = Append(calls[Len(calls)].local, n)
  PROVE  IsChain(Append(calls, call))
<1> DEFINE more == Append(calls, call)
           l == Len(calls)
<1>1. /\ l \in Nat /\ Len(more) = l + 1 /\ more[l + 1] = call
      /\ \A i \in 1 .. l : more[i] = calls[i]
  BY AppendProperties, LenProperties
<1>2. \A i \in 1 .. l : calls[i].local \in Path
  BY CallAt
<1> HIDE DEF more, l
<1>3. ASSUME NEW i \in 1 .. l + 1 PROVE Stat(job.src, more[i].local) # {}
  <2>1. i \in 1 .. l \/ i = l + 1
    BY <1>1
  <2> QED
    BY <1>1, <2>1 DEF IsChain, l
<1>4. ASSUME NEW i \in 1 .. l + 1, NEW j \in 1 .. l + 1, i < j
      PROVE  \E s \in Path : s # <<>> /\ more[j].local = more[i].local \o s
  <2>1. i \in 1 .. l /\ more[i] = calls[i] /\ (j \in 1 .. l \/ j = l + 1)
    BY <1>1, <1>4
  <2>2. CASE j \in 1 .. l
    BY <1>1, <1>4, <2>1, <2>2 DEF IsChain, l
  <2>3. CASE j = l + 1
    <3>1. l \in 1 .. l /\ l \in Nat /\ calls # <<>>
      BY <1>1, <2>1, EmptySeq DEF l
    <3>2. PICK n \in Name : call.local = Append(calls[l].local, n)
      BY <3>1 DEF l
    <3>3. PICK p \in Path : p = calls[l].local
      BY <1>2, <3>1
    <3>4. PICK q \in Path : q = calls[i].local
      BY <1>2, <2>1
    <3>5. <<n>> \in Path /\ <<n>> # <<>> /\ Append(p, n) = p \o <<n>>
      BY <3>2, AppendPath
    <3>6. CASE i = l
      BY <1>1, <2>1, <2>3, <3>2, <3>3, <3>5, <3>6
    <3>7. CASE i < l
      <4>1. PICK s \in Path : s # <<>> /\ p = q \o s
        BY <2>1, <3>1, <3>3, <3>4, <3>7 DEF IsChain, l
      <4>2. PICK t : t = s \o <<n>>
        OBVIOUS
      <4>3. t \in Path /\ t # <<>> /\ Append(p, n) = q \o t
        <5>1. PICK u \in Path : u = <<n>>
          BY <3>5
        <5>2. Len(u) = 1 /\ Len(s) \in Nat
          BY <5>1, LenProperties DEF Path
        <5>3. t \in Path /\ Len(t) = Len(s) + 1
          BY <4>2, <5>1, <5>2, ConcatProperties DEF Path
        <5>4. (q \o s) \o u = q \o t
          <6>1. (q \o s) \o u = q \o (s \o u)
            BY ConcatThree
          <6> QED
            BY <4>2, <5>1, <6>1, Zenon
        <5>5. t # <<>>
          BY <5>2, <5>3, EmptySeq
        <5> QED
          BY <3>5, <4>1, <5>1, <5>3, <5>4, <5>5
      <4> QED
        BY <1>1, <2>1, <2>3, <3>2, <3>3, <3>4, <4>3
    <3>8. i = l \/ i < l
      BY <2>1, <3>1
    <3> QED
      BY <3>6, <3>7, <3>8
  <2> QED
    BY <2>1, <2>2, <2>3
<1>5. IsChain(more)
  BY <1>1, <1>3, <1>4, Zenon DEF IsChain
<1> QED
  BY <1>5 DEF more

\* What can be found as a directory is there.
LEMMA DirThere ==
  ASSUME job \in Jobs, NEW path \in Path, NEW node \in Found(path), node.kind = "dir"
  PROVE  Stat(job.src, path) # {}
<1>1. node = Dir /\ IsTree(job.src)
  BY FoundNode, NodeKinds, JobsAssumption
<1> QED
  BY <1>1, DirFound DEF Found

LEMMA ChainSend ==
  ASSUME job \in Jobs, NEW path \in Path, NEW name \in Path, NEW calls \in Seq(Call),
         IsChain(calls), NEW node \in Found(path), Send(node, path, name, calls),
         IsChain(stack), UNCHANGED job,
         calls # <<>> => \E n \in Name : path = Append(calls[Len(calls)].local, n)
  PROVE  IsChain(stack')
<1>1. CASE node.kind = "dir" /\ SendDirectory(path, name, calls)
  <2> DEFINE call == [local |-> path, remote |-> name, left |-> Entries(path)]
  <2>1. call \in Call /\ call.local = path
    BY EntriesAreNames DEF Call
  <2>2. stack' = Append(calls, call)
    BY <1>1 DEF SendDirectory
  <2> HIDE DEF call
  <2> QED
    BY <1>1, <2>1, <2>2, DirThere, ChainGrown
<1>2. CASE stack' = calls
  BY <1>2
<1>3. CASE stack' = stack
  BY <1>3
<1> QED
  BY <1>1, <1>2, <1>3 DEF Send, SendSymlink, SendFile, SendFails

LEMMA ChainEntry ==
  ASSUME Sending, IsChain(stack), NEW n \in Name, NextEntry(n)
  PROVE  /\ IsChain(Entry(n).calls)
         /\ Entry(n).path = Append(Entry(n).calls[Len(Entry(n).calls)].local, n)
<1> DEFINE l == Len(stack)
           rest == [stack[l] EXCEPT !.left = @ \ {n}]
           calls == Entry(n).calls
<1>1. stack \in Seq(Call) /\ l \in Nat /\ l \in 1 .. l /\ stack[l] \in Call
  <2>1. stack \in Seq(Call) /\ stack # <<>>
    BY DEF Sending, NextEntry, Call
  <2> QED
    BY <2>1, EmptySeq, LenProperties, ElementOfSeq
<1>2. calls = [stack EXCEPT ![l] = rest] /\ Entry(n).path = Append(stack[l].local, n)
  BY DEF Entry
<1>3. rest \in Call /\ rest.local = stack[l].local
  BY <1>1 DEF Call
<1> HIDE DEF rest
<1>4. Len(calls) = l /\ \A i \in 1 .. l : calls[i] = IF i = l THEN rest ELSE stack[i]
  <2>1. calls \in Seq(Call) /\ Len(calls) = l
    BY <1>1, <1>2, <1>3, ExceptSeq
  <2>2. DOMAIN stack = 1 .. l
    BY <1>1, LenProperties
  <2> QED
    BY <1>2, <2>1, <2>2
<1> HIDE DEF calls
<1>5. IsChain(calls)
  BY <1>1, <1>3, <1>4, ChainPart
<1> QED
  BY <1>1, <1>2, <1>3, <1>4, <1>5 DEF calls

LEMMA FrontCalls ==
  ASSUME NEW calls \in Seq(Call), calls # <<>>
  PROVE  /\ Len(calls) \in Nat /\ Len(calls) > 0 /\ Len(Front(calls)) = Len(calls) - 1
         /\ \A i \in 1 .. Len(calls) - 1 : Front(calls)[i] = calls[i]
<1>1. Len(calls) \in Nat /\ Len(calls) > 0
  BY EmptySeq, LenProperties
<1>2. PICK n \in Nat : n = Len(calls) - 1
  BY <1>1
<1>3. Front(calls) = SubSeq(calls, 1, n) /\ \A i \in 1 .. n : calls[i] \in Call
  BY <1>1, <1>2, ElementOfSeq DEF Front
<1>4. /\ Len(SubSeq(calls, 1, n)) = IF 1 <= n THEN n - 1 + 1 ELSE 0
      /\ \A i \in 1 .. n - 1 + 1 : SubSeq(calls, 1, n)[i] = calls[1 + i - 1]
  BY <1>3, SubSeqProperties
<1>5. \A i \in 1 .. n : i \in 1 .. n - 1 + 1 /\ 1 + i - 1 = i
  OBVIOUS
<1>6. Len(SubSeq(calls, 1, n)) = n /\ \A i \in 1 .. n : SubSeq(calls, 1, n)[i] = calls[i]
  BY <1>4, <1>5
<1> QED
  BY <1>1, <1>2, <1>3, <1>6

LEMMA ChainKept == ASSUME UNCHANGED job PROVE DepthInv' <=> Inv' /\ IsChain(stack')
<1>1. IsChain(stack)' <=> IsChain(stack')
  BY DEF IsChain
<1> QED
  BY <1>1 DEF DepthInv

LEMMA DepthNext == DepthInv /\ [Next]_vars => DepthInv'
<1> SUFFICES ASSUME DepthInv, [Next]_vars PROVE DepthInv'
  OBVIOUS
<1>1. Inv' /\ Inv /\ IsChain(stack)
  BY NextInv DEF DepthInv
<1>2. UNCHANGED job
  BY DEF Next, Sender, Receive, Acknowledge, LoseConnection, vars
<1>3. Sending /\ job \in Jobs /\ stack \in Seq(Call) /\ Len(stack) \in Nat
  <2>1. Sending
    BY <1>1, TypeParts DEF Inv
  <2> QED
    BY <2>1, LenProperties DEF Sending, Call
<1>4. IsChain(stack')
  <2>1. CASE UNCHANGED stack
    BY <1>1, <2>1
  <2>2. CASE SenderRun
    <3>1. CASE \E node \in Found(job.local) : Send(node, job.local, FinalPath, <<>>)
      <4>1. PICK node \in Found(job.local) : Send(node, job.local, FinalPath, <<>>)
        BY <3>1
      <4>2. /\ job.local \in Path /\ FinalPath \in Path
            /\ <<>> \in Seq(Call) /\ Len(<<>>) = 0
        BY <1>3, SourcePaths, EmptySeq
      <4>3. PICK none \in Seq(Call) : none = <<>>
        BY <4>2
      <4>4. IsChain(none)
        BY <4>2, <4>3 DEF IsChain
      <4> QED
        BY <1>1, <1>2, <1>3, <4>1, <4>2, <4>3, <4>4, ChainSend
    <3> QED
      BY <2>1, <2>2, <3>1 DEF SenderRun
  <2>3. ASSUME NEW n \in Name, SendEntry(n) \/ SkipEntry(n) PROVE IsChain(stack')
    <3>1. /\ NextEntry(n) /\ Entry(n).path \in Path /\ Entry(n).name \in Path
          /\ Entry(n).calls \in Seq(Call) /\ IsChain(Entry(n).calls)
          /\ Entry(n).path = Append(Entry(n).calls[Len(Entry(n).calls)].local, n)
      BY <1>1, <1>3, <2>3, EntryPaths, ChainEntry DEF SendEntry, SkipEntry
    <3>2. CASE SkipEntry(n)
      BY <3>1, <3>2 DEF SkipEntry
    <3>3. CASE SendEntry(n)
      <4>1. PICK node \in Found(Entry(n).path) :
              Send(node, Entry(n).path, Entry(n).name, Entry(n).calls)
        BY <3>3 DEF SendEntry
      <4> QED
        BY <1>1, <1>2, <1>3, <3>1, <4>1, ChainSend
    <3> QED
      BY <2>3, <3>2, <3>3
  <2>4. CASE LeaveDirectory
    <3>1. stack' = Front(stack) /\ stack # <<>>
      BY <1>3, <2>4 DEF LeaveDirectory, Sending
    <3>2. Len(stack') = Len(stack) - 1 /\ \A i \in 1 .. Len(stack') : stack'[i] = stack[i]
      BY <1>3, <3>1, FrontCalls
    <3>3. Len(stack') \in 0 .. Len(stack)
      BY <1>3, <3>1, <3>2, FrontCalls
    <3> QED
      BY <1>1, <1>3, <3>2, <3>3, ChainPart
  <2>5. CASE Receive \/ Acknowledge \/ LoseConnection \/ UNCHANGED vars
    BY <2>1, <2>5 DEF Receive, Acknowledge, LoseConnection, vars, sendVars
  <2>6. CASE SendLinkText \/ ReadStops \/ FileSent \/ SendEnd \/ Finish \/ SenderLoses
    BY <2>1, <2>6 DEF SendLinkText, ReadStops, FileSent, SendEnd, Finish, SenderLoses
  <2>7. ASSUME NEW n \in 1 .. ChunkSize, SendChunk(n) PROVE IsChain(stack')
    BY <2>1, <2>7 DEF SendChunk
  <2> QED
    BY <2>2, <2>3, <2>4, <2>5, <2>6, <2>7 DEF Next, Sender
<1> QED
  BY <1>1, <1>2, <1>4, ChainKept

LEMMA DepthInit == Init => DepthInv
<1> SUFFICES ASSUME Init PROVE DepthInv
  OBVIOUS
<1>1. Inv /\ Len(stack) = 0
  BY InitInv, EmptySeq DEF Init
<1> QED
  BY <1>1 DEF DepthInv, IsChain

LEMMA ChainIsShort == DepthInv => DepthBounded
<1> SUFFICES ASSUME DepthInv PROVE DepthBounded
  OBVIOUS
<1>1. job \in Jobs /\ stack \in Seq(Call) /\ IsChain(stack)
  BY DEF DepthInv, Inv, TypeOK, Call
<1>2. PICK l \in Nat : l = Len(stack)
  BY <1>1, LenProperties
<1>3. /\ IsTree(job.src) /\ IsFiniteSet(DOMAIN job.src)
      /\ Cardinality(DOMAIN job.src) \in Nat /\ LinkLimit \in Nat
  BY <1>1, JobsAssumption, SizesAssumption, FS_CardinalityType
<1>4. (LinkLimit + 1) * Cardinality(DOMAIN job.src) \in Nat
  BY <1>3
<1>5. CASE l = 0
  BY <1>2, <1>4, <1>5 DEF DepthBounded
<1>6. CASE l # 0
  <2>1. PICK D \in Nat : D = l - 1
    BY <1>6
  <2>2. PICK w : w = [i \in 0 .. D |-> stack[i + 1].local]
    OBVIOUS
  <2>3. \A i \in 0 .. D : i + 1 \in 1 .. l /\ w[i] = stack[i + 1].local
    BY <2>1, <2>2
  <2>4. w \in [0 .. D -> Path]
    <3>1. \A i \in 1 .. l : stack[i].local \in Path
      BY <1>1, <1>2, CallAt
    <3> QED
      BY <2>2, <2>3, <3>1
  <2>5. \A i \in 0 .. D : Stat(job.src, w[i]) # {}
    BY <1>1, <1>2, <2>3 DEF IsChain
  <2>6. ASSUME NEW i \in 0 .. D, NEW j \in 0 .. D, i < j
        PROVE  \E s \in Path : s # <<>> /\ w[j] = w[i] \o s
    <3>1. i + 1 < j + 1
      BY <2>6
    <3> QED
      BY <1>1, <1>2, <2>3, <3>1 DEF IsChain
  <2>7. D < (LinkLimit + 1) * Cardinality(DOMAIN job.src)
    BY <1>3, <2>4, <2>5, <2>6, FewDirs
  <2> QED
    BY <1>2, <1>4, <2>1, <2>7 DEF DepthBounded
<1> QED
  BY <1>5, <1>6

\* However links lead back to directories above them, no more calls of
\* scp_send_directory run at a time (scp_rdma_sender.c:681) than there are
\* directories to be in and numbers of links to have followed on the way.
THEOREM DepthIsBounded == Spec => []DepthBounded
<1> QED
  BY DepthInit, DepthNext, ChainIsShort, PTL DEF Spec

=============================================================================
