---------------------------- MODULE ScpPathProofs ----------------------------
(***************************************************************************)
(* Where paths lead: Follow as a sequence of paths with one link less      *)
(* each, and what does not change it.                                      *)
(***************************************************************************)
EXTENDS ScpTransferProofs

\* A set of numbers that has 0, and the next one of each that it has.
LEMMA UpTo ==
  ASSUME NEW T, NEW N \in Nat, 0 \in T, \A k \in 1 .. N : k - 1 \in T => k \in T
  PROVE  0 .. N \subseteq T
<1> SUFFICES ASSUME 0 .. N \ T # {} PROVE FALSE
  OBVIOUS
<1>1. PICK n \in 0 .. N \ T : \A y \in 0 .. N \ T : n <= y
  <2>1. 0 .. N \ T \subseteq Nat
    OBVIOUS
  <2> QED
    BY <2>1, LeastNat
<1>2. n # 0 /\ n \in 1 .. N /\ n - 1 \in 0 .. N
  BY <1>1
<1> QED
  BY <1>1, <1>2

\* A function applied again and again.
Orbit(S, F, a, N, w) ==
  w \in [0 .. N -> S] /\ w[0] = a /\ \A k \in 1 .. N : w[k] = F[w[k - 1]]

LEMMA Iterates ==
  ASSUME NEW S, NEW F \in [S -> S], NEW a \in S, NEW N \in Nat
  PROVE  \E w : Orbit(S, F, a, N, w)
<1> DEFINE Good(n) == \E w \in [0 .. n -> S] :
                        w[0] = a /\ \A k \in 1 .. n : w[k] = F[w[k - 1]]
           T == {n \in Nat : Good(n)}
<1>1. Good(0)
  <2> DEFINE w == [k \in 0 .. 0 |-> a]
  <2>1. w \in [0 .. 0 -> S]
    OBVIOUS
  <2>2. w[0] = a /\ \A k \in 1 .. 0 : w[k] = F[w[k - 1]]
    OBVIOUS
  <2> QED
    BY <2>1, <2>2
<1>2. ASSUME NEW m \in 1 .. N, Good(m - 1) PROVE Good(m)
  <2> DEFINE n == m - 1
  <2>1. PICK w \in [0 .. n -> S] : w[0] = a /\ \A k \in 1 .. n : w[k] = F[w[k - 1]]
    BY <1>2
  <2> DEFINE v == [k \in 0 .. m |-> IF k <= n THEN w[k] ELSE F[w[n]]]
  <2>2. v \in [0 .. m -> S]
    OBVIOUS
  <2>3. v[0] = a /\ \A k \in 1 .. m : v[k] = F[v[k - 1]]
    BY <2>1
  <2> HIDE DEF v
  <2> QED
    BY <2>2, <2>3
<1> HIDE DEF Good
<1>3. \A m \in 1 .. N : m - 1 \in T => m \in T
  BY <1>2
<1>4. 0 \in T
  BY <1>1
<1> HIDE DEF T
<1>5. 0 .. N \subseteq T
  BY <1>3, <1>4, UpTo
<1>6. N \in T
  BY <1>5
<1> QED
  BY <1>6 DEF Good, T, Orbit

\* The paths that replacing links makes of a path, one after the other.
Walk(fs, path) ==
  CHOOSE walk : walk = [k \in 0 .. LinkLimit |->
    IF k = 0 THEN {path} ELSE {FollowOne(fs, p) : p \in walk[k - 1]}]

LEMMA FollowIsWalk ==
  \A fs, path : Follow(fs, path) = {p \in Walk(fs, path)[LinkLimit] : LinksOn(fs, p) = {}}
BY Zenon DEF Follow, Walk

\* The first link on a path.
LEMMA FirstLink ==
  ASSUME NEW fs, NEW p \in Path, LinksOn(fs, p) # {}
  PROVE  /\ Min(LinksOn(fs, p)) \in 1 .. Len(p)
         /\ IsKind(fs, SubSeq(p, 1, Min(LinksOn(fs, p))), "link")
         /\ \A i \in 1 .. Min(LinksOn(fs, p)) - 1 : ~IsKind(fs, SubSeq(p, 1, i), "link")
<1>1. LinksOn(fs, p) \subseteq 1 .. Len(p) /\ Len(p) \in Nat
  BY LenProperties DEF LinksOn, Path
<1>2. Min(LinksOn(fs, p)) \in LinksOn(fs, p)
      /\ \A i \in LinksOn(fs, p) : Min(LinksOn(fs, p)) <= i
  <2>1. LinksOn(fs, p) \subseteq Nat
    BY <1>1
  <2> QED
    BY <2>1, MinNat
<1>3. PICK m : m = Min(LinksOn(fs, p)) /\ m \in LinksOn(fs, p)
  BY <1>2
<1>4. m \in 1 .. Len(p) /\ IsKind(fs, SubSeq(p, 1, m), "link")
  BY <1>3 DEF LinksOn
<1>5. ASSUME NEW i \in 1 .. m - 1 PROVE ~IsKind(fs, SubSeq(p, 1, i), "link")
  <2>1. i \in 1 .. Len(p) /\ ~(m <= i)
    BY <1>1, <1>4
  <2>2. i \notin LinksOn(fs, p)
    BY <1>2, <1>3, <2>1
  <2> QED
    BY <2>1, <2>2 DEF LinksOn
<1> QED
  BY <1>3, <1>4, <1>5

LEMMA FollowOnePath ==
  ASSUME NEW fs, IsTree(fs), NEW p \in Path
  PROVE  FollowOne(fs, p) \in Path
<1>1. CASE LinksOn(fs, p) = {}
  BY <1>1 DEF FollowOne
<1>2. CASE LinksOn(fs, p) # {}
  <2> DEFINE i == Min(LinksOn(fs, p))
  <2>1. i \in 1 .. Len(p) /\ IsKind(fs, SubSeq(p, 1, i), "link") /\ Len(p) \in Nat
    BY <1>2, FirstLink, LenProperties DEF Path
  <2>2. FollowOne(fs, p) =
          SubSeq(p, 1, i - 1) \o fs[SubSeq(p, 1, i)].to \o SubSeq(p, i + 1, Len(p))
    BY <1>2 DEF FollowOne
  <2> HIDE DEF i
  <2>3. fs[SubSeq(p, 1, i)].to \in Path
    BY <2>1 DEF IsTree, IsKind, IsNode, Dir, File
  <2>4. SubSeq(p, 1, i - 1) \in Path /\ SubSeq(p, i + 1, Len(p)) \in Path
    <3>1. i - 1 \in Nat /\ i - 1 <= Len(p) /\ i + 1 \in Nat \ {0} /\ 1 \in Nat \ {0}
      BY <2>1
    <3>2. Len(p) \in Nat /\ Len(p) <= Len(p)
      BY <2>1
    <3>3. SubSeq(p, 1, i - 1) \in Path
      BY <3>1, PartOfPath
    <3>4. SubSeq(p, i + 1, Len(p)) \in Path
      BY <3>1, <3>2, PartOfPath
    <3> QED
      BY <3>3, <3>4
  <2> QED
    BY <2>2, <2>3, <2>4, ConcatProperties DEF Path
<1> QED
  BY <1>1, <1>2

\* The same, as a sequence of paths.
Way(fs, path) == [k \in 0 .. LinkLimit |-> CHOOSE p : Walk(fs, path)[k] = {p}]

LEMMA WaySteps ==
  ASSUME NEW fs, IsTree(fs), NEW path \in Path
  PROVE  /\ Way(fs, path) \in [0 .. LinkLimit -> Path]
         /\ Way(fs, path)[0] = path
         /\ \A k \in 1 .. LinkLimit : Way(fs, path)[k] = FollowOne(fs, Way(fs, path)[k - 1])
         /\ Follow(fs, path) =
              {p \in {Way(fs, path)[LinkLimit]} : LinksOn(fs, p) = {}}
<1> DEFINE F == [p \in Path |-> FollowOne(fs, p)]
<1>1. LinkLimit \in Nat /\ F \in [Path -> Path]
  BY SizesAssumption, FollowOnePath
<1>2. PICK w : Orbit(Path, F, path, LinkLimit, w)
  <2> HIDE DEF F
  <2> QED
    BY <1>1, Iterates
<1>3. /\ w \in [0 .. LinkLimit -> Path] /\ w[0] = path
      /\ \A k \in 1 .. LinkLimit : w[k] = FollowOne(fs, w[k - 1])
  <2>1. w \in [0 .. LinkLimit -> Path]
    BY <1>2 DEF Orbit
  <2>2. ASSUME NEW k \in 1 .. LinkLimit PROVE w[k - 1] \in Path
    BY <1>1, <2>1
  <2> QED
    BY <1>2, <2>1, <2>2 DEF Orbit
<1> DEFINE u == [k \in 0 .. LinkLimit |-> {w[k]}]
           walk == Walk(fs, path)
<1>4. u = [k \in 0 .. LinkLimit |->
             IF k = 0 THEN {path} ELSE {FollowOne(fs, p) : p \in u[k - 1]}]
  <2> SUFFICES ASSUME NEW k \in 0 .. LinkLimit
               PROVE  {w[k]} = IF k = 0 THEN {path} ELSE {FollowOne(fs, p) : p \in u[k - 1]}
    BY Zenon
  <2>1. CASE k # 0
    <3>1. k \in 1 .. LinkLimit /\ k - 1 \in 0 .. LinkLimit
      BY <1>1, <2>1
    <3>2. u[k - 1] = {w[k - 1]} /\ w[k] = FollowOne(fs, w[k - 1])
      BY <1>3, <3>1
    <3> HIDE DEF u
    <3>3. {FollowOne(fs, p) : p \in u[k - 1]} = {w[k]}
      BY <3>2, Zenon
    <3> QED
      BY <2>1, <3>3
  <2> QED
    BY <1>3, <2>1
<1>5. walk = [k \in 0 .. LinkLimit |->
                IF k = 0 THEN {path} ELSE {FollowOne(fs, p) : p \in walk[k - 1]}]
  <2> HIDE DEF u
  <2> QED
    BY <1>4, Zenon DEF Walk
<1> HIDE DEF walk, u
<1>6. walk[0] = {path}
      /\ \A k \in 1 .. LinkLimit : walk[k] = {FollowOne(fs, p) : p \in walk[k - 1]}
  <2>1. \A k \in 0 .. LinkLimit :
          walk[k] = IF k = 0 THEN {path} ELSE {FollowOne(fs, p) : p \in walk[k - 1]}
    BY <1>5, Zenon
  <2>2. 0 \in 0 .. LinkLimit /\ \A k \in 1 .. LinkLimit : k \in 0 .. LinkLimit /\ k # 0
    BY <1>1
  <2> QED
    BY <2>1, <2>2, Zenon
<1> DEFINE T == {k \in 0 .. LinkLimit : walk[k] = {w[k]}}
<1>7. 0 \in T
  BY <1>1, <1>3, <1>6
<1>8. \A k \in 1 .. LinkLimit : k - 1 \in T => k \in T
  BY <1>1, <1>3, <1>6
<1>9. \A k \in 0 .. LinkLimit : walk[k] = {w[k]}
  <2> HIDE DEF T
  <2>1. 0 .. LinkLimit \subseteq T
    BY <1>1, <1>7, <1>8, UpTo
  <2> QED
    BY <2>1 DEF T
<1>10. Way(fs, path) = w
  <2>1. \A k \in 0 .. LinkLimit : (CHOOSE p : Walk(fs, path)[k] = {p}) = w[k]
    BY <1>9 DEF walk
  <2>2. w = [k \in 0 .. LinkLimit |-> w[k]]
    BY <1>3
  <2> QED
    BY <2>1, <2>2, Zenon DEF Way
<1>11. Walk(fs, path)[LinkLimit] = {w[LinkLimit]}
  BY <1>1, <1>9 DEF walk
<1> QED
  <2>1. Follow(fs, path) = {p \in {w[LinkLimit]} : LinksOn(fs, p) = {}}
    BY <1>11, FollowIsWalk, Zenon
  <2> QED
    BY <1>3, <1>10, <2>1, Zenon

\* A path without links leads to itself.
LEMMA NoLinks ==
  ASSUME NEW fs, IsTree(fs), NEW p \in Path, LinksOn(fs, p) = {}
  PROVE  Follow(fs, p) = {p}
<1> DEFINE way == Way(fs, p)
           T == {k \in 0 .. LinkLimit : way[k] = p}
<1>1. LinkLimit \in Nat /\ FollowOne(fs, p) = p
  BY SizesAssumption DEF FollowOne
<1>2. /\ way[0] = p
      /\ \A k \in 1 .. LinkLimit : way[k] = FollowOne(fs, way[k - 1])
      /\ Follow(fs, p) = {q \in {way[LinkLimit]} : LinksOn(fs, q) = {}}
  BY WaySteps
<1> HIDE DEF way
<1>3. 0 \in T /\ \A k \in 1 .. LinkLimit : k - 1 \in T => k \in T
  BY <1>1, <1>2
<1>4. LinkLimit \in T
  <2> HIDE DEF T
  <2>1. 0 .. LinkLimit \subseteq T
    BY <1>1, <1>3, UpTo
  <2> QED
    BY <1>1, <2>1
<1> QED
  BY <1>2, <1>4

\* Two trees with the same links.
SameLinks(fs, gs) ==
  \A p \in Path : /\ (IsKind(fs, p, "link") <=> IsKind(gs, p, "link"))
                 /\ (IsKind(fs, p, "link") => fs[p] = gs[p])

LEMMA SameLinksOn ==
  ASSUME NEW fs, NEW gs, SameLinks(fs, gs), NEW p \in Path
  PROVE  LinksOn(fs, p) = LinksOn(gs, p) /\ FollowOne(fs, p) = FollowOne(gs, p)
<1>1. \A i \in 1 .. Len(p) : SubSeq(p, 1, i) \in Path
  <2>1. \A i \in 1 .. Len(p) : i \in Nat /\ i <= Len(p) /\ 1 \in Nat \ {0}
    BY LenProperties DEF Path
  <2> QED
    BY <2>1, PartOfPath
<1>2. LinksOn(fs, p) = LinksOn(gs, p)
  <2>1. \A i \in 1 .. Len(p) :
          IsKind(fs, SubSeq(p, 1, i), "link") <=> IsKind(gs, SubSeq(p, 1, i), "link")
    BY <1>1, Zenon DEF SameLinks
  <2> QED
    BY <2>1, Zenon DEF LinksOn
<1>3. CASE LinksOn(fs, p) = {}
  BY <1>2, <1>3 DEF FollowOne
<1>4. CASE LinksOn(fs, p) # {}
  <2> DEFINE i == Min(LinksOn(fs, p))
  <2>1. i \in 1 .. Len(p) /\ IsKind(fs, SubSeq(p, 1, i), "link")
    BY <1>4, FirstLink
  <2>2. fs[SubSeq(p, 1, i)] = gs[SubSeq(p, 1, i)]
    <3> HIDE DEF i
    <3> QED
      BY <1>1, <2>1, Zenon DEF SameLinks
  <2> QED
    BY <1>2, <1>4, <2>2 DEF FollowOne
<1> QED
  BY <1>2, <1>3, <1>4

LEMMA SameWays ==
  ASSUME NEW fs, IsTree(fs), NEW gs, IsTree(gs), SameLinks(fs, gs), NEW path \in Path
  PROVE  Follow(fs, path) = Follow(gs, path)
<1> DEFINE v == Way(fs, path)
           w == Way(gs, path)
           T == {k \in 0 .. LinkLimit : v[k] = w[k]}
<1>1. LinkLimit \in Nat
  BY SizesAssumption
<1>2. /\ v \in [0 .. LinkLimit -> Path] /\ v[0] = path
      /\ \A k \in 1 .. LinkLimit : v[k] = FollowOne(fs, v[k - 1])
      /\ Follow(fs, path) = {p \in {v[LinkLimit]} : LinksOn(fs, p) = {}}
  BY WaySteps
<1>3. /\ w \in [0 .. LinkLimit -> Path] /\ w[0] = path
      /\ \A k \in 1 .. LinkLimit : w[k] = FollowOne(gs, w[k - 1])
      /\ Follow(gs, path) = {p \in {w[LinkLimit]} : LinksOn(gs, p) = {}}
  BY WaySteps
<1> HIDE DEF v, w
<1>4. 0 \in T /\ \A k \in 1 .. LinkLimit : k - 1 \in T => k \in T
  <2>1. \A k \in 1 .. LinkLimit : k - 1 \in 0 .. LinkLimit /\ v[k - 1] \in Path
    BY <1>1, <1>2
  <2> QED
    BY <1>1, <1>2, <1>3, <2>1, SameLinksOn
<1>5. v[LinkLimit] = w[LinkLimit] /\ v[LinkLimit] \in Path
  <2> HIDE DEF T
  <2>1. 0 .. LinkLimit \subseteq T
    BY <1>1, <1>4, UpTo
  <2> QED
    BY <1>1, <1>2, <2>1 DEF T
<1> QED
  BY <1>2, <1>3, <1>5, SameLinksOn

-----------------------------------------------------------------------------
(* Parts of paths.                                                         *)

LEMMA SamePath ==
  ASSUME NEW p \in Path, NEW q \in Path, Len(p) = Len(q), \A i \in 1 .. Len(p) : p[i] = q[i]
  PROVE  p = q
BY SeqEqual DEF Path

LEMMA ConcatPath ==
  ASSUME NEW p \in Path, NEW s \in Path
  PROVE  /\ p \o s \in Path /\ Len(p) \in Nat /\ Len(s) \in Nat
         /\ Len(p \o s) = Len(p) + Len(s)
         /\ \A i \in 1 .. Len(p) + Len(s) :
              (p \o s)[i] = IF i <= Len(p) THEN p[i] ELSE s[i - Len(p)]
BY ConcatProperties, LenProperties DEF Path

LEMMA ConcatThree ==
  ASSUME NEW p \in Path, NEW s \in Path, NEW t \in Path
  PROVE  (p \o s) \o t = p \o (s \o t)
BY ConcatAssociative DEF Path

LEMMA AppendPath ==
  ASSUME NEW p \in Path, NEW n \in Name
  PROVE  /\ Append(p, n) \in Path /\ Append(p, n) # <<>> /\ Append(p, n) = p \o <<n>>
         /\ <<n>> \in Path /\ Len(p) \in Nat /\ Len(Append(p, n)) = Len(p) + 1
         /\ \A i \in 1 .. Len(p) : Append(p, n)[i] = p[i]
         /\ Append(p, n)[Len(p) + 1] = n
         /\ Front(Append(p, n)) = p /\ Last(Append(p, n)) = n
<1>1. /\ Append(p, n) \in Path /\ Append(p, n) # <<>> /\ Append(p, n) = p \o <<n>>
      /\ <<n>> \in Path /\ Len(p) \in Nat /\ Len(Append(p, n)) = Len(p) + 1
      /\ \A i \in 1 .. Len(p) : Append(p, n)[i] = p[i]
      /\ Append(p, n)[Len(p) + 1] = n
  BY AppendProperties, AppendIsConcat, LenProperties DEF Path
<1> DEFINE q == Append(p, n)
<1> HIDE DEF q
<1>2. Last(q) = n
  BY <1>1 DEF Last, q
<1>3. Front(q) = SubSeq(q, 1, Len(p))
  BY <1>1 DEF Front, q
<1>4. SubSeq(q, 1, Len(p)) \in Path /\ Len(SubSeq(q, 1, Len(p))) = Len(p)
      /\ \A i \in 1 .. Len(p) : SubSeq(q, 1, Len(p))[i] = p[i]
  <2>1. q \in Path /\ 1 \in Nat \ {0} /\ Len(p) \in Nat /\ Len(p) <= Len(q)
    BY <1>1 DEF q
  <2>2. /\ SubSeq(q, 1, Len(p)) \in Path
        /\ Len(SubSeq(q, 1, Len(p))) = IF 1 <= Len(p) THEN Len(p) - 1 + 1 ELSE 0
        /\ \A i \in 1 .. Len(p) - 1 + 1 : SubSeq(q, 1, Len(p))[i] = q[1 + i - 1]
    BY <2>1, PartOfPath
  <2>3. \A i \in 1 .. Len(p) : q[i] = p[i]
    BY <1>1 DEF q
  <2> QED
    BY <2>1, <2>2, <2>3
<1>5. Front(q) = p
  BY <1>3, <1>4, SamePath
<1> QED
  BY <1>1, <1>2, <1>5 DEF q

\* The first names of a path.
LEMMA Beginning ==
  ASSUME NEW p \in Path, NEW k \in 0 .. Len(p)
  PROVE  /\ SubSeq(p, 1, k) \in Path /\ Len(SubSeq(p, 1, k)) = k /\ Len(p) \in Nat
         /\ \A i \in 1 .. k : SubSeq(p, 1, k)[i] = p[i]
<1>1. k \in Nat /\ k <= Len(p) /\ Len(p) \in Nat /\ 1 \in Nat \ {0}
  BY LenProperties DEF Path
<1>2. /\ SubSeq(p, 1, k) \in Path
      /\ Len(SubSeq(p, 1, k)) = IF 1 <= k THEN k - 1 + 1 ELSE 0
      /\ \A i \in 1 .. k - 1 + 1 : SubSeq(p, 1, k)[i] = p[1 + i - 1]
  BY <1>1, PartOfPath
<1>3. \A i \in 1 .. k : i \in 1 .. k - 1 + 1 /\ 1 + i - 1 = i
  BY <1>1
<1> QED
  BY <1>1, <1>2, <1>3

\* The names after them.
LEMMA Ending ==
  ASSUME NEW p \in Path, NEW k \in 0 .. Len(p)
  PROVE  /\ SubSeq(p, k + 1, Len(p)) \in Path
         /\ Len(SubSeq(p, k + 1, Len(p))) = Len(p) - k /\ Len(p) \in Nat
         /\ \A i \in 1 .. Len(p) - k : SubSeq(p, k + 1, Len(p))[i] = p[k + i]
<1>1. k + 1 \in Nat \ {0} /\ Len(p) <= Len(p) /\ Len(p) \in Nat /\ k \in Nat
  BY LenProperties DEF Path
<1>2. /\ SubSeq(p, k + 1, Len(p)) \in Path
      /\ Len(SubSeq(p, k + 1, Len(p))) =
           IF k + 1 <= Len(p) THEN Len(p) - (k + 1) + 1 ELSE 0
      /\ \A i \in 1 .. Len(p) - (k + 1) + 1 :
           SubSeq(p, k + 1, Len(p))[i] = p[(k + 1) + i - 1]
  BY <1>1, PartOfPath
<1>3. \A i \in 1 .. Len(p) - k : i \in 1 .. Len(p) - (k + 1) + 1 /\ (k + 1) + i - 1 = k + i
  BY <1>1
<1> QED
  BY <1>1, <1>2, <1>3

LEMMA BeginningOfBeginning ==
  ASSUME NEW p \in Path, NEW k \in 0 .. Len(p), NEW l \in 0 .. k
  PROVE  SubSeq(SubSeq(p, 1, k), 1, l) = SubSeq(p, 1, l)
<1> DEFINE a == SubSeq(p, 1, k)
<1>1. /\ a \in Path /\ Len(a) = k /\ Len(p) \in Nat
      /\ \A i \in 1 .. k : a[i] = p[i]
  BY Beginning
<1> HIDE DEF a
<1>2. /\ SubSeq(a, 1, l) \in Path /\ Len(SubSeq(a, 1, l)) = l
      /\ \A i \in 1 .. l : SubSeq(a, 1, l)[i] = a[i]
  BY <1>1, Beginning
<1>3. l \in 0 .. Len(p)
  BY <1>1
<1>4. /\ SubSeq(p, 1, l) \in Path /\ Len(SubSeq(p, 1, l)) = l
      /\ \A i \in 1 .. l : SubSeq(p, 1, l)[i] = p[i]
  BY <1>3, Beginning
<1>5. SubSeq(a, 1, l) = SubSeq(p, 1, l)
  BY <1>1, <1>2, <1>4, SamePath
<1> QED
  BY <1>5 DEF a

LEMMA BeginningOfConcat ==
  ASSUME NEW p \in Path, NEW s \in Path, NEW k \in 0 .. Len(p)
  PROVE  SubSeq(p \o s, 1, k) = SubSeq(p, 1, k)
<1> DEFINE q == p \o s
<1>1. /\ q \in Path /\ Len(p) \in Nat /\ Len(s) \in Nat /\ Len(q) = Len(p) + Len(s)
      /\ \A i \in 1 .. Len(p) + Len(s) :
           q[i] = IF i <= Len(p) THEN p[i] ELSE s[i - Len(p)]
  BY ConcatPath
<1> HIDE DEF q
<1>2. k \in 0 .. Len(q)
  BY <1>1
<1>3. /\ SubSeq(q, 1, k) \in Path /\ Len(SubSeq(q, 1, k)) = k
      /\ \A i \in 1 .. k : SubSeq(q, 1, k)[i] = q[i]
  BY <1>1, <1>2, Beginning
<1>4. /\ SubSeq(p, 1, k) \in Path /\ Len(SubSeq(p, 1, k)) = k
      /\ \A i \in 1 .. k : SubSeq(p, 1, k)[i] = p[i]
  BY Beginning
<1>5. \A i \in 1 .. k : q[i] = p[i]
  BY <1>1
<1>6. SubSeq(q, 1, k) = SubSeq(p, 1, k)
  BY <1>3, <1>4, <1>5, SamePath
<1> QED
  BY <1>6 DEF q

LEMMA EndingOfConcat ==
  ASSUME NEW p \in Path, NEW s \in Path, NEW k \in 0 .. Len(p)
  PROVE  SubSeq(p \o s, k + 1, Len(p \o s)) = SubSeq(p, k + 1, Len(p)) \o s
<1> DEFINE q == p \o s
           e == SubSeq(p, k + 1, Len(p))
<1>1. /\ q \in Path /\ Len(p) \in Nat /\ Len(s) \in Nat /\ Len(q) = Len(p) + Len(s)
      /\ \A i \in 1 .. Len(p) + Len(s) :
           q[i] = IF i <= Len(p) THEN p[i] ELSE s[i - Len(p)]
  BY ConcatPath
<1>2. /\ e \in Path /\ Len(e) = Len(p) - k
      /\ \A i \in 1 .. Len(p) - k : e[i] = p[k + i]
  BY Ending
<1> HIDE DEF q, e
<1>3. k \in 0 .. Len(q)
  BY <1>1
<1>4. /\ SubSeq(q, k + 1, Len(q)) \in Path
      /\ Len(SubSeq(q, k + 1, Len(q))) = Len(q) - k
      /\ \A i \in 1 .. Len(q) - k : SubSeq(q, k + 1, Len(q))[i] = q[k + i]
  BY <1>1, <1>3, Ending
<1>5. /\ e \o s \in Path /\ Len(e \o s) = Len(e) + Len(s)
      /\ \A i \in 1 .. Len(e) + Len(s) :
           (e \o s)[i] = IF i <= Len(e) THEN e[i] ELSE s[i - Len(e)]
  BY <1>1, <1>2, ConcatPath
<1>6. Len(SubSeq(q, k + 1, Len(q))) = Len(e \o s)
  BY <1>1, <1>2, <1>4, <1>5
<1>7. ASSUME NEW i \in 1 .. Len(q) - k
      PROVE  SubSeq(q, k + 1, Len(q))[i] = (e \o s)[i]
  <2>1. CASE i <= Len(p) - k
    <3>1. q[k + i] = p[k + i] /\ e[i] = p[k + i]
      BY <1>1, <1>2, <2>1
    <3> QED
      BY <1>1, <1>2, <1>4, <1>5, <2>1, <3>1
  <2>2. CASE ~(i <= Len(p) - k)
    <3>1. q[k + i] = s[k + i - Len(p)]
      BY <1>1, <2>2
    <3>2. (e \o s)[i] = s[i - Len(e)]
      BY <1>1, <1>2, <1>5, <2>2
    <3>3. k + i - Len(p) = i - Len(e)
      BY <1>1, <1>2
    <3> QED
      BY <1>4, <3>1, <3>2, <3>3
  <2> QED
    BY <2>1, <2>2
<1>8. SubSeq(q, k + 1, Len(q)) = e \o s
  BY <1>4, <1>5, <1>6, <1>7, SamePath
<1> QED
  BY <1>8 DEF q, e

LEMMA FrontAppend ==
  ASSUME NEW p \in Path, p # <<>>
  PROVE  /\ Len(p) \in Nat /\ Len(p) > 0
         /\ Front(p) \in Path /\ Front(p) = SubSeq(p, 1, Len(p) - 1)
         /\ Last(p) \in Name /\ Append(Front(p), Last(p)) = p
<1> DEFINE f == Front(p)
           n == Last(p)
<1>1. Len(p) \in Nat /\ Len(p) > 0
  BY EmptySeq, LenProperties DEF Path
<1>2. f \in Path /\ n \in Name
  BY <1>1, FrontPath, ElementOfSeq DEF Path, Last
<1>3. f = SubSeq(p, 1, Len(p) - 1) /\ n = p[Len(p)]
  BY DEF Front, Last
<1>4. Append(f, n) = p
  <2>1. Len(p) - 1 \in 0 .. Len(p)
    BY <1>1
  <2>2. Len(f) = Len(p) - 1 /\ \A i \in 1 .. Len(p) - 1 : f[i] = p[i]
    BY <1>3, <2>1, Beginning
  <2> HIDE DEF f, n
  <2>3. /\ Append(f, n) \in Path /\ Len(Append(f, n)) = Len(f) + 1
        /\ \A i \in 1 .. Len(f) : Append(f, n)[i] = f[i]
        /\ Append(f, n)[Len(f) + 1] = n
    BY <1>2, AppendPath
  <2>4. Len(Append(f, n)) = Len(p) /\ \A i \in 1 .. Len(p) : Append(f, n)[i] = p[i]
    BY <1>1, <1>3, <2>2, <2>3
  <2> QED
    BY <2>3, <2>4, SamePath
<1> QED
  BY <1>1, <1>2, <1>3, <1>4

LEMMA WholePath == ASSUME NEW p \in Path PROVE SubSeq(p, 1, Len(p)) = p /\ Len(p) \in Nat
<1>1. Len(p) \in Nat /\ Len(p) \in 0 .. Len(p)
  BY LenProperties DEF Path
<1>2. /\ SubSeq(p, 1, Len(p)) \in Path /\ Len(SubSeq(p, 1, Len(p))) = Len(p)
      /\ \A i \in 1 .. Len(p) : SubSeq(p, 1, Len(p))[i] = p[i]
  BY <1>1, Beginning
<1> QED
  BY <1>1, <1>2, SamePath

=============================================================================
