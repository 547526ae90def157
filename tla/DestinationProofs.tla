-------------------------- MODULE DestinationProofs --------------------------
(***************************************************************************)
(* Theorems about Destination, for every tree of links and every sequence  *)
(* of changes to it: its types, what resolution returns, that what find-   *)
(* owners lists is accepted, and that a command writes where it checked.   *)
(***************************************************************************)
EXTENDS Destination, SequenceTheorems, WellFoundedInduction, TLAPS

\* Nothing stands on what is not a directory.
Tree ==
  /\ fs \in [Nodes -> Entries]
  /\ \A n \in Nodes : fs[n].type # "none" /\ Len(n) > 1 => fs[Front(n)].type = "dir"

\* Between a command's check and its write the path it holds is still what the
\* check returned, and that an apply holds is the one the user was shown.
Checked ==
  op # "none" =>
    /\ held \in Paths \ {<<>>}
    /\ \E cwd \in Projects : Resolve(held, cwd) # None /\ Resolve(held, cwd).path = held
    /\ op = "apply" => shown # None /\ shown.path = held

-----------------------------------------------------------------------------
(* Induction, and facts about paths.                                       *)

\* Induction over the naturals, for a set: the theorem of the library is about
\* an operator, which the provers cannot instantiate.
LEMMA Induction ==
  ASSUME NEW T, 0 \in T, \A n \in Nat : n \in T => n + 1 \in T
  PROVE  Nat \subseteq T
<1> DEFINE Below == {ss \in Nat \X Nat : ss[1] < ss[2]}
<1> SUFFICES ASSUME Nat \ T # {} PROVE FALSE
  OBVIOUS
<1>1. IsWellFoundedOn(Below, Nat)
  BY NatLessThanWellFounded DEF OpToRel
<1>2. PICK n \in Nat \ T : \A m \in Nat \ T : ~ (<<m, n>> \in Below)
  <2> HIDE DEF Below
  <2> QED BY <1>1, WFMin
<1>3. n # 0 /\ n - 1 \in Nat
  OBVIOUS
<1>4. n - 1 \in Nat \ T
  BY <1>3, n = (n - 1) + 1
<1>5. <<n - 1, n>> \in Below
  BY <1>3
<1> QED
  BY <1>2, <1>4, <1>5

\* A set of naturals that is not empty has a least element, and Min is it.
LEMMA LeastProperties ==
  ASSUME NEW S \in SUBSET Nat, S # {}
  PROVE  Min(S) \in S /\ \A j \in S : Min(S) <= j
<1> DEFINE Below == {ss \in Nat \X Nat : ss[1] < ss[2]}
<1>1. IsWellFoundedOn(Below, Nat)
  BY NatLessThanWellFounded DEF OpToRel
<1>2. PICK n \in S : \A m \in S : ~ (<<m, n>> \in Below)
  <2> HIDE DEF Below
  <2> QED BY <1>1, WFMin
<1>3. ASSUME NEW m \in S PROVE n <= m
  <2>1. m \in Nat /\ n \in Nat /\ ~ (<<m, n>> \in Below)
    BY <1>2
  <2>2. ~ (m < n)
    BY <2>1
  <2> QED
    BY <2>1, <2>2
<1> QED
  BY <1>2, <1>3 DEF Min

\* A sequence of one or two.
LEMMA OneOrTwo ==
  ASSUME NEW S, NEW r \in Seq(S)
  PROVE  (Len(r) = 1 => r = <<r[1]>>) /\ (Len(r) = 2 => r = <<r[1], r[2]>>)
  OBVIOUS

\* The first k names of a path.
LEMMA FirstNames ==
  ASSUME NEW p \in Paths, NEW k \in 0 .. Len(p)
  PROVE  /\ SubSeq(p, 1, k) \in Paths /\ Len(SubSeq(p, 1, k)) = k
         /\ \A i \in 1 .. k : SubSeq(p, 1, k)[i] = p[i]
  BY SubSeqProperties, LenProperties, ElementOfSeq DEF Paths

\* What is left of a path without its first k names.
LEMMA OtherNames ==
  ASSUME NEW p \in Paths, NEW k \in 0 .. Len(p)
  PROVE  /\ SubSeq(p, k + 1, Len(p)) \in Paths
         /\ Len(SubSeq(p, k + 1, Len(p))) = Len(p) - k
         /\ \A i \in 1 .. Len(p) - k : SubSeq(p, k + 1, Len(p))[i] = p[k + i]
<1>1. /\ Len(p) \in Nat /\ k \in Nat /\ k <= Len(p) /\ k + 1 \in Int /\ Len(p) \in Int
      /\ \A i \in k + 1 .. Len(p) : p[i] \in STRING
  BY LenProperties, ElementOfSeq DEF Paths
<1>2. /\ SubSeq(p, k + 1, Len(p)) \in Paths
      /\ Len(SubSeq(p, k + 1, Len(p))) = IF k + 1 <= Len(p) THEN Len(p) - (k + 1) + 1 ELSE 0
      /\ \A i \in 1 .. Len(p) - (k + 1) + 1 : SubSeq(p, k + 1, Len(p))[i] = p[k + 1 + i - 1]
  BY <1>1, SubSeqProperties DEF Paths
<1> QED
  BY <1>1, <1>2

\* A path and one more name.
LEMMA OneMoreName ==
  ASSUME NEW d \in Paths, NEW x \in STRING
  PROVE  /\ Append(d, x) \in Paths \ {<<>>} /\ Len(Append(d, x)) = Len(d) + 1 /\ Len(d) \in Nat
         /\ \A i \in 1 .. Len(d) : Append(d, x)[i] = d[i]
         /\ Append(d, x)[Len(d) + 1] = x
<1>1. d \in Seq(STRING) /\ Len(d) \in Nat
  BY LenProperties DEF Paths
<1>2. Append(d, x) \in Seq(STRING) /\ Append(d, x) # <<>>
  BY <1>1, AppendProperties, ZenonT(60)
<1>3. Len(Append(d, x)) = Len(d) + 1
  BY <1>1, AppendProperties, ZenonT(60)
<1>4. Append(d, x)[Len(d) + 1] = x
  BY <1>1, AppendProperties
<1>5. \A i \in 1 .. Len(d) : Append(d, x)[i] = d[i]
  BY <1>1, AppendProperties
<1> QED
  BY <1>1, <1>2, <1>3, <1>4, <1>5 DEF Paths

\* Equal names make equal paths.
LEMMA SamePath ==
  ASSUME NEW p \in Paths, NEW q \in Paths, Len(p) = Len(q), \A i \in 1 .. Len(p) : p[i] = q[i]
  PROVE  p = q
  BY SeqEqual DEF Paths

\* One path is within another when it begins with it.
LEMMA WithinIs ==
  ASSUME NEW p \in Paths, NEW q \in Paths
  PROVE  Within(p, q) <=> Len(q) <= Len(p) /\ \A i \in 1 .. Len(q) : p[i] = q[i]
<1>1. Len(p) \in Nat /\ Len(q) \in Nat
  BY LenProperties DEF Paths
<1>2. SubSeq(q, 1, Len(q)) \in Paths /\ Len(SubSeq(q, 1, Len(q))) = Len(q)
      /\ \A i \in 1 .. Len(q) : SubSeq(q, 1, Len(q))[i] = q[i]
  BY <1>1, FirstNames
<1>3. ASSUME Len(q) <= Len(p)
      PROVE  /\ SubSeq(p, 1, Len(q)) \in Paths /\ Len(SubSeq(p, 1, Len(q))) = Len(q)
             /\ \A i \in 1 .. Len(q) : SubSeq(p, 1, Len(q))[i] = p[i]
  BY <1>1, <1>3, FirstNames
<1>4. ASSUME Len(q) <= Len(p), \A i \in 1 .. Len(q) : p[i] = q[i]
      PROVE  SubSeq(q, 1, Len(q)) = SubSeq(p, 1, Len(q))
  BY <1>1, <1>2, <1>3, <1>4, SamePath
<1> QED
  BY <1>2, <1>3, <1>4 DEF Within, IsPrefix

\* A path that is not empty is a directory and a name in it.
LEMMA Splits ==
  ASSUME NEW p \in Paths \ {<<>>}
  PROVE  /\ Front(p) \in Paths /\ Last(p) \in STRING /\ Len(p) \in Nat \ {0}
         /\ Len(Front(p)) = Len(p) - 1
         /\ \A i \in 1 .. Len(p) - 1 : Front(p)[i] = p[i]
         /\ p = Append(Front(p), Last(p))
<1>1. Len(p) \in Nat \ {0}
  BY EmptySeq DEF Paths
<1>2. /\ Front(p) \in Paths /\ Len(Front(p)) = Len(p) - 1
      /\ \A i \in 1 .. Len(p) - 1 : Front(p)[i] = p[i]
  <2>1. Len(p) - 1 \in 0 .. Len(p)
    BY <1>1
  <2> QED
    BY <2>1, FirstNames DEF Front
<1>3. Last(p) \in STRING
  BY <1>1, ElementOfSeq DEF Last, Paths
<1>4. p = Append(Front(p), Last(p))
  <2> DEFINE q == Append(Front(p), Last(p))
  <2>1. /\ q \in Paths /\ Len(q) = Len(p)
        /\ \A i \in 1 .. Len(p) - 1 : q[i] = p[i]
        /\ q[Len(p)] = p[Len(p)]
    <3>1. /\ q \in Paths /\ Len(q) = Len(Front(p)) + 1
          /\ \A i \in 1 .. Len(Front(p)) : q[i] = Front(p)[i]
          /\ q[Len(Front(p)) + 1] = Last(p)
      BY <1>2, <1>3, OneMoreName
    <3> HIDE DEF q
    <3> QED
      BY <1>1, <1>2, <3>1 DEF Last
  <2> HIDE DEF q
  <2>2. \A i \in 1 .. Len(p) : p[i] = q[i]
    BY <1>1, <2>1
  <2> QED
    BY <2>1, <2>2, SamePath DEF q
<1> QED
  BY <1>1, <1>2, <1>3, <1>4

\* A name added to a directory.
LEMMA Joins ==
  ASSUME NEW d \in Paths, NEW x \in STRING
  PROVE  /\ Append(d, x) \in Paths \ {<<>>} /\ Len(Append(d, x)) = Len(d) + 1
         /\ Front(Append(d, x)) = d /\ Last(Append(d, x)) = x
         /\ \A i \in 1 .. Len(d) : Append(d, x)[i] = d[i]
         /\ \A k \in 0 .. Len(d) : SubSeq(Append(d, x), 1, k) = SubSeq(d, 1, k)
<1> DEFINE p == Append(d, x)
<1>1. /\ p \in Paths \ {<<>>} /\ Len(p) = Len(d) + 1 /\ Len(d) \in Nat
      /\ \A i \in 1 .. Len(d) : p[i] = d[i]
      /\ p[Len(d) + 1] = x
  BY OneMoreName
<1> HIDE DEF p
<1>2. ASSUME NEW k \in 0 .. Len(d)
      PROVE  SubSeq(p, 1, k) = SubSeq(d, 1, k)
  <2>1. k \in 0 .. Len(p) /\ k \in Nat
    BY <1>1
  <2>2. /\ SubSeq(p, 1, k) \in Paths /\ Len(SubSeq(p, 1, k)) = k
        /\ \A i \in 1 .. k : SubSeq(p, 1, k)[i] = p[i]
    BY <1>1, <2>1, FirstNames
  <2>3. /\ SubSeq(d, 1, k) \in Paths /\ Len(SubSeq(d, 1, k)) = k
        /\ \A i \in 1 .. k : SubSeq(d, 1, k)[i] = d[i]
    BY FirstNames
  <2> QED
    BY <1>1, <2>1, <2>2, <2>3, SamePath
<1>3. Front(p) = d /\ Last(p) = x
  <2>1. SubSeq(p, 1, Len(d)) = SubSeq(d, 1, Len(d))
    BY <1>1, <1>2
  <2> QED
    BY <1>1, <2>1, SubSeqFull DEF Front, Last, Paths
<1> QED
  BY <1>1, <1>2, <1>3 DEF p

-----------------------------------------------------------------------------
(* What resolution of links returns.                                       *)

\* The links in a path are those in its directory, and perhaps the last name.
LEMMA LinksOfJoin ==
  ASSUME NEW d \in Paths, NEW x \in STRING
  PROVE  LinksOf(Append(d, x)) =
           LinksOf(d) \cup IF TypeAt(Append(d, x)) = "link" THEN {Len(d) + 1} ELSE {}
<1> DEFINE p == Append(d, x)
<1>1. /\ p \in Paths /\ Len(d) \in Nat /\ Len(p) = Len(d) + 1
      /\ \A k \in 0 .. Len(d) : SubSeq(p, 1, k) = SubSeq(d, 1, k)
      /\ SubSeq(p, 1, Len(p)) = p
  BY Joins, LenProperties, SubSeqFull DEF Paths
<1> HIDE DEF p
<1>2. \A k \in 1 .. Len(d) : SubSeq(p, 1, k) = SubSeq(d, 1, k)
  BY <1>1
<1>3. ASSUME NEW k \in 1 .. Len(p)
      PROVE  k \in 1 .. Len(d) \/ k = Len(d) + 1
  BY <1>1
<1>4. ASSUME NEW k \in 1 .. Len(d) PROVE k \in 1 .. Len(p)
  BY <1>1
<1>5. Len(d) + 1 \in 1 .. Len(p) /\ Len(d) + 1 \notin 1 .. Len(d)
  BY <1>1
<1> QED
  BY <1>1, <1>2, <1>3, <1>4, <1>5 DEF LinksOf, p

\* A path with a link has a first one, and it leads to a node.
LEMMA FirstLink ==
  ASSUME Tree, NEW p \in Paths, LinksOf(p) # {}
  PROVE  LET k == Min(LinksOf(p)) IN
           /\ k \in 1 .. Len(p) /\ k \in Nat /\ Len(p) \in Nat
           /\ \A j \in LinksOf(p) : k <= j
           /\ fs[SubSeq(p, 1, k)].to \in Nodes
           /\ Follow(p) = fs[SubSeq(p, 1, k)].to \o SubSeq(p, k + 1, Len(p))
<1> DEFINE k == Min(LinksOf(p))
<1>1. LinksOf(p) \in SUBSET Nat /\ Len(p) \in Nat
  BY LenProperties DEF LinksOf, Paths
<1>2. k \in LinksOf(p) /\ \A j \in LinksOf(p) : k <= j
  BY <1>1, LeastProperties
<1>3. Follow(p) = fs[SubSeq(p, 1, k)].to \o SubSeq(p, k + 1, Len(p))
  BY DEF Follow
<1> HIDE DEF k
<1>4. k \in 1 .. Len(p) /\ k \in Nat /\ TypeAt(SubSeq(p, 1, k)) = "link"
  BY <1>1, <1>2 DEF LinksOf
<1>5. fs[SubSeq(p, 1, k)].to \in Nodes
  BY <1>4 DEF TypeAt, Tree, Entries, Nothing, File, Dir, Link
<1> QED
  BY <1>1, <1>2, <1>3, <1>4, <1>5 DEF k

LEMMA FollowTyped ==
  ASSUME Tree, NEW p \in Paths
  PROVE  Follow(p) \in Paths /\ (p # <<>> => Follow(p) # <<>>)
<1>1. CASE LinksOf(p) = {}
  BY <1>1 DEF Follow
<1>2. CASE LinksOf(p) # {}
  <2>k. PICK k : k = Min(LinksOf(p))
    OBVIOUS
  <2> DEFINE m == fs[SubSeq(p, 1, k)].to
             r == SubSeq(p, k + 1, Len(p))
  <2>1. m \in Nodes /\ Follow(p) = m \o r /\ k \in 0 .. Len(p)
    <3>1. m \in Nodes /\ Follow(p) = m \o r /\ k \in 1 .. Len(p) /\ Len(p) \in Nat
      BY <1>2, <2>k, FirstLink
    <3> HIDE DEF m, r
    <3> QED
      BY <3>1
  <2>2. m \in Paths /\ m # <<>>
    BY <2>1, ConstantsAssumption DEF Paths
  <2>3. r \in Paths
    BY <2>1, OtherNames
  <2> HIDE DEF m, r
  <2> QED
    BY <2>1, <2>2, <2>3, ConcatProperties, ConcatEqualIffEmpty DEF Paths
<1> QED
  BY <1>1, <1>2

\* The first link of a directory is the first one of what is in it.
LEMMA FollowJoin ==
  ASSUME Tree, NEW d \in Paths, NEW x \in STRING, LinksOf(d) # {}
  PROVE  Follow(Append(d, x)) = Append(Follow(d), x)
<1>k. PICK k : k = Min(LinksOf(d))
  OBVIOUS
<1> DEFINE p == Append(d, x)
           m == fs[SubSeq(d, 1, k)].to
           r == SubSeq(d, k + 1, Len(d))
<1>1. /\ k \in 1 .. Len(d) /\ k \in Nat /\ Len(d) \in Nat
      /\ \A j \in LinksOf(d) : k <= j
      /\ m \in Nodes /\ Follow(d) = m \o r
  BY <1>k, FirstLink
<1>2. /\ p \in Paths /\ Len(p) = Len(d) + 1
      /\ SubSeq(p, 1, k) = SubSeq(d, 1, k)
      /\ \A i \in 1 .. Len(d) : p[i] = d[i]
      /\ p[Len(d) + 1] = x
  BY <1>1, Joins DEF Last
<1>3. k \in LinksOf(d) /\ LinksOf(d) \in SUBSET Nat
  <2>1. LinksOf(d) \in SUBSET Nat
    BY DEF LinksOf
  <2> QED
    BY <1>k, <2>1, LeastProperties
<1>4. LinksOf(p) \subseteq LinksOf(d) \cup {Len(d) + 1} /\ LinksOf(d) \subseteq LinksOf(p)
  BY LinksOfJoin
<1>5. Min(LinksOf(p)) = k
  <2>1. k \in LinksOf(p) /\ \A j \in LinksOf(p) : k <= j
    BY <1>1, <1>3, <1>4
  <2>2. LinksOf(p) \in SUBSET Nat /\ LinksOf(p) # {}
    BY <1>1, <1>3, <1>4
  <2>3. Min(LinksOf(p)) \in LinksOf(p) /\ \A j \in LinksOf(p) : Min(LinksOf(p)) <= j
    BY <2>2, LeastProperties
  <2> HIDE DEF p
  <2> QED
    BY <1>1, <2>1, <2>2, <2>3
<1>6. Follow(p) = m \o SubSeq(p, k + 1, Len(p))
  BY <1>2, <1>3, <1>4, <1>5 DEF Follow
<1>7. SubSeq(p, k + 1, Len(p)) = Append(r, x)
  <2> DEFINE z == SubSeq(p, k + 1, Len(p))
             y == Append(r, x)
  <2>1. k \in Nat /\ Len(d) \in Nat /\ Len(p) = Len(d) + 1 /\ 1 <= k /\ k <= Len(d)
    BY <1>1, <1>2
  <2>2. /\ z \in Paths /\ Len(z) = Len(p) - k
        /\ \A i \in 1 .. Len(p) - k : z[i] = p[k + i]
    <3>1. k \in 0 .. Len(p)
      BY <2>1
    <3> QED
      BY <1>2, <3>1, OtherNames
  <2>3. /\ r \in Paths /\ Len(r) = Len(d) - k
        /\ \A i \in 1 .. Len(d) - k : r[i] = d[k + i]
    <3>1. k \in 0 .. Len(d)
      BY <2>1
    <3> QED
      BY <3>1, OtherNames
  <2> HIDE DEF r, p, z
  <2>4. /\ y \in Paths /\ Len(y) = Len(r) + 1
        /\ \A i \in 1 .. Len(r) : y[i] = r[i]
        /\ y[Len(r) + 1] = x
    <3>1. r \in Paths
      BY <2>3
    <3> QED
      BY <3>1, OneMoreName
  <2> HIDE DEF y
  <2>5. ASSUME NEW i \in 1 .. Len(z) PROVE z[i] = y[i]
    <3>1. i \in Nat /\ 1 <= i /\ i <= Len(d) + 1 - k
      BY <2>1, <2>2
    <3>2. z[i] = p[k + i]
      BY <2>1, <2>2
    <3>3. CASE i = Len(r) + 1
      <4>1. k + i = Len(d) + 1
        BY <2>1, <2>3, <3>3
      <4> QED
        BY <1>2, <2>4, <3>2, <3>3, <4>1
    <3>4. CASE i # Len(r) + 1
      <4>1. i \in 1 .. Len(r) /\ i \in 1 .. Len(d) - k /\ k + i \in 1 .. Len(d)
        BY <2>1, <2>3, <3>1, <3>4
      <4> QED
        BY <1>2, <2>3, <2>4, <3>2, <4>1
    <3> QED
      BY <3>3, <3>4
  <2>6. Len(z) = Len(y)
    BY <2>1, <2>2, <2>3, <2>4
  <2>7. z = y
    BY <2>2, <2>4, <2>5, <2>6, SamePath
  <2> QED
    BY <2>7 DEF z, y
<1>8. m \o Append(r, x) = Append(m \o r, x)
  <2>1. m \in Paths /\ r \in Paths /\ <<x>> \in Paths
    <3>1. k \in 0 .. Len(d)
      BY <1>1
    <3> QED
      BY <1>1, <3>1, OtherNames, ConstantsAssumption DEF Paths
  <2> HIDE DEF m, r
  <2>2. m \o r \in Paths
    BY <2>1, ConcatProperties DEF Paths
  <2>3. Append(r, x) = r \o <<x>> /\ Append(m \o r, x) = (m \o r) \o <<x>>
    BY <2>1, <2>2, AppendIsConcat DEF Paths
  <2> QED
    BY <2>1, <2>3, ConcatAssociative DEF Paths
<1> QED
  BY <1>1, <1>6, <1>7, <1>8


\* The recursion of Followed, up to m links.
Trail(f, p, m) == f = [n \in 0 .. m |-> IF n = 0 THEN p ELSE Follow(f[n - 1])]

LEMMA TrailExists ==
  ASSUME NEW p, NEW l \in Nat
  PROVE  \E f : Trail(f, p, l)
<1> DEFINE T == {m \in Nat : \E f : Trail(f, p, m)}
<1>1. 0 \in T
  <2>1. Trail([n \in 0 .. 0 |-> p], p, 0)
    BY DEF Trail
  <2> QED
    BY <2>1
<1>2. ASSUME NEW m \in Nat, m \in T
      PROVE  m + 1 \in T
  <2>1. PICK f : Trail(f, p, m)
    BY <1>2
  <2> DEFINE g == [n \in 0 .. m + 1 |-> IF n <= m THEN f[n] ELSE Follow(f[m])]
  <2>2. \A n \in 0 .. m : f[n] = IF n = 0 THEN p ELSE Follow(f[n - 1])
    BY <2>1 DEF Trail
  <2>3. ASSUME NEW n \in 0 .. m + 1
        PROVE  g[n] = IF n = 0 THEN p ELSE Follow(g[n - 1])
    <3>1. CASE n <= m
      <4>1. n # 0 => n - 1 \in 0 .. m /\ g[n - 1] = f[n - 1]
        BY <3>1
      <4> QED
        BY <2>2, <3>1, <4>1
    <3>2. CASE n = m + 1
      <4>1. g[n] = Follow(f[m]) /\ n # 0 /\ n - 1 = m /\ g[n - 1] = f[m]
        BY <3>2
      <4> QED
        BY <4>1
    <3> QED
      BY <3>1, <3>2
  <2>4. Trail(g, p, m + 1)
    BY <2>3 DEF Trail
  <2> QED
    BY <2>4
<1> HIDE DEF T
<1>3. Nat \subseteq T
  BY <1>1, <1>2, Induction
<1> QED
  BY <1>3 DEF T

\* The paths on the way from p to Followed(p).
On(p) == CHOOSE f : Trail(f, p, MaxLinks)

LEMMA TrailProperties ==
  ASSUME Tree, NEW p \in Paths
  PROVE  /\ On(p)[0] = p /\ Followed(p) = On(p)[MaxLinks]
         /\ \A n \in 0 .. MaxLinks : n # 0 => On(p)[n] = Follow(On(p)[n - 1])
         /\ \A n \in 0 .. MaxLinks : On(p)[n] \in Paths /\ (p # <<>> => On(p)[n] # <<>>)
<1> DEFINE f == On(p)
           T == {n \in Nat : n <= MaxLinks => f[n] \in Paths /\ (p # <<>> => f[n] # <<>>)}
<1>1. MaxLinks \in Nat
  BY ConstantsAssumption
<1>2. Trail(f, p, MaxLinks)
  BY <1>1, TrailExists DEF On
<1>3. Followed(p) = f[MaxLinks]
  BY DEF Followed, On, Trail
<1> HIDE DEF f
<1>4. \A n \in 0 .. MaxLinks : f[n] = IF n = 0 THEN p ELSE Follow(f[n - 1])
  BY <1>2 DEF Trail
<1>5. f[0] = p /\ \A n \in 0 .. MaxLinks : n # 0 => f[n] = Follow(f[n - 1])
  BY <1>1, <1>4
<1>6. 0 \in T
  BY <1>5
<1>7. ASSUME NEW n \in Nat, n \in T PROVE n + 1 \in T
  <2> SUFFICES ASSUME n + 1 <= MaxLinks
               PROVE  f[n + 1] \in Paths /\ (p # <<>> => f[n + 1] # <<>>)
    OBVIOUS
  <2>1. f[n] \in Paths /\ (p # <<>> => f[n] # <<>>)
    BY <1>1, <1>7
  <2>2. f[n + 1] = Follow(f[n])
    <3>1. n + 1 \in 0 .. MaxLinks /\ n + 1 # 0 /\ (n + 1) - 1 = n
      BY <1>1
    <3> QED
      BY <1>5, <3>1
  <2> QED
    BY <2>1, <2>2, FollowTyped
<1> HIDE DEF T
<1>8. Nat \subseteq T
  BY <1>6, <1>7, Induction
<1>9. \A n \in 0 .. MaxLinks : f[n] \in Paths /\ (p # <<>> => f[n] # <<>>)
  BY <1>1, <1>8 DEF T
<1> QED
  BY <1>3, <1>5, <1>9 DEF f

\* Where a path without links is reached, it is what Followed returns.
LEMMA Settles ==
  ASSUME Tree, NEW p \in Paths, NEW n \in 0 .. MaxLinks, LinksOf(On(p)[n]) = {}
  PROVE  Followed(p) = On(p)[n]
<1> DEFINE f == On(p)
           T == {m \in Nat : n + m <= MaxLinks => f[n + m] = f[n]}
<1>1. MaxLinks \in Nat /\ n \in Nat
  BY ConstantsAssumption
<1>2. \A i \in 0 .. MaxLinks : i # 0 => f[i] = Follow(f[i - 1])
  BY TrailProperties
<1>3. 0 \in T
  BY <1>1
<1>4. ASSUME NEW m \in Nat, m \in T PROVE m + 1 \in T
  <2> SUFFICES ASSUME n + (m + 1) <= MaxLinks PROVE f[n + (m + 1)] = f[n]
    OBVIOUS
  <2>1. f[n + m] = f[n]
    BY <1>1, <1>4
  <2>2. n + (m + 1) \in 0 .. MaxLinks /\ n + (m + 1) # 0 /\ (n + (m + 1)) - 1 = n + m
    BY <1>1
  <2>3. f[n + (m + 1)] = Follow(f[n + m])
    BY <1>2, <2>2
  <2> QED
    BY <2>1, <2>3 DEF Follow
<1> HIDE DEF T
<1>5. Nat \subseteq T
  BY <1>3, <1>4, Induction
<1>6. MaxLinks - n \in T /\ n + (MaxLinks - n) = MaxLinks
  BY <1>1, <1>5
<1>7. f[MaxLinks] = f[n]
  BY <1>1, <1>6 DEF T
<1> QED
  BY <1>7, TrailProperties

\* What realpath returns is a path without links, or the path it was asked about.
LEMMA RealProperties ==
  ASSUME Tree, NEW p \in Paths
  PROVE  /\ Real(p) \in Paths /\ (p # <<>> => Real(p) # <<>>)
         /\ LinksOf(Real(p)) = {} \/ Real(p) = p
         /\ Real(Real(p)) = Real(p)
<1>1. Followed(p) \in Paths /\ (p # <<>> => Followed(p) # <<>>)
  <2>1. MaxLinks \in 0 .. MaxLinks
    BY ConstantsAssumption
  <2> QED
    BY <2>1, TrailProperties
<1> QED
  BY <1>1 DEF Real

\* A name that is no link, in a directory, is where the directory is.
LEMMA RealJoin ==
  ASSUME Tree, NEW d \in Paths, NEW x \in STRING, TypeAt(Append(Real(d), x)) # "link"
  PROVE  Real(Append(d, x)) = Append(Real(d), x)
<1> DEFINE p == Append(d, x)
<1>1. p \in Paths /\ p # <<>> /\ MaxLinks \in Nat
  BY Joins, ConstantsAssumption
<1>2. CASE LinksOf(d) = {}
  <2>1. Real(d) = d
    BY <1>2 DEF Real
  <2>2. LinksOf(p) = {}
    BY <1>2, <2>1, LinksOfJoin
  <2> QED
    BY <2>1, <2>2 DEF Real
<1>3. CASE LinksOf(d) # {}
  <2> DEFINE a == On(d)
             b == On(p)
             T == {n \in Nat : n <= MaxLinks => b[n] = Append(a[n], x)}
  <2>1. LinksOf(p) # {}
    BY <1>3, LinksOfJoin
  <2>2. /\ a[0] = d /\ Followed(d) = a[MaxLinks]
        /\ \A n \in 0 .. MaxLinks : n # 0 => a[n] = Follow(a[n - 1])
        /\ \A n \in 0 .. MaxLinks : a[n] \in Paths
    BY TrailProperties
  <2>3. /\ b[0] = p /\ Followed(p) = b[MaxLinks]
        /\ \A n \in 0 .. MaxLinks : n # 0 => b[n] = Follow(b[n - 1])
    BY <1>1, TrailProperties
  <2>4. \A n \in 0 .. MaxLinks : LinksOf(a[n]) = {} => Followed(d) = a[n]
    BY Settles
  <2> HIDE DEF a, b
  <2>5. 0 \in T
    BY <2>2, <2>3
  <2>6. ASSUME NEW n \in Nat, n \in T PROVE n + 1 \in T
    <3> SUFFICES ASSUME n + 1 <= MaxLinks PROVE b[n + 1] = Append(a[n + 1], x)
      OBVIOUS
    <3>1. n \in 0 .. MaxLinks /\ n + 1 \in 0 .. MaxLinks /\ n + 1 # 0 /\ (n + 1) - 1 = n
      BY <1>1
    <3>2. b[n] = Append(a[n], x) /\ b[n + 1] = Follow(b[n]) /\ a[n + 1] = Follow(a[n])
      BY <2>2, <2>3, <2>6, <3>1
    <3>3. a[n] \in Paths
      BY <2>2, <3>1
    <3>4. CASE LinksOf(a[n]) # {}
      BY <3>2, <3>3, <3>4, FollowJoin
    <3>5. CASE LinksOf(a[n]) = {}
      <4>1. Real(d) = a[n]
        BY <1>3, <2>4, <3>1, <3>5 DEF Real
      <4>2. LinksOf(b[n]) = {}
        BY <3>2, <3>3, <3>5, <4>1, LinksOfJoin
      <4> QED
        BY <3>2, <3>5, <4>2 DEF Follow
    <3> QED
      BY <3>4, <3>5
  <2> HIDE DEF T
  <2>7. MaxLinks \in T
    BY <1>1, <2>5, <2>6, Induction
  <2>8. Followed(p) = Append(Followed(d), x) /\ Followed(d) \in Paths
    BY <1>1, <2>2, <2>3, <2>7 DEF T
  <2>9. CASE LinksOf(Followed(d)) = {}
    <3>1. Real(d) = Followed(d)
      BY <1>3, <2>9 DEF Real
    <3>2. LinksOf(Followed(p)) = {}
      BY <2>8, <2>9, <3>1, LinksOfJoin
    <3> QED
      BY <2>1, <2>8, <3>1, <3>2 DEF Real
  <2>10. CASE LinksOf(Followed(d)) # {}
    <3>1. Real(d) = d
      BY <1>3, <2>10 DEF Real
    <3>2. LinksOf(Followed(p)) # {}
      BY <2>8, <2>10, LinksOfJoin
    <3> QED
      BY <2>1, <3>1, <3>2 DEF Real
  <2> QED
    BY <2>9, <2>10
<1> QED
  BY <1>2, <1>3

\* A path that is no link leads to the entry it names.
LEMMA RealIsEntry ==
  ASSUME Tree, NEW p \in Paths \ {<<>>}
  PROVE  /\ Entry(p) \in Paths \ {<<>>}
         /\ ~ IsLink(p) => Real(p) = Entry(p)
<1>1. Front(p) \in Paths /\ Last(p) \in STRING /\ p = Append(Front(p), Last(p))
  BY Splits
<1>2. Real(Front(p)) \in Paths
  BY <1>1, RealProperties
<1>3. ~ IsLink(p) => Real(p) = Entry(p)
  BY <1>1, RealJoin DEF IsLink, Entry
<1> QED
  BY <1>1, <1>2, <1>3, Joins DEF Entry


\* A path without links is the entry it names.
LEMMA NoLinks ==
  ASSUME Tree, NEW p \in Paths \ {<<>>}, LinksOf(p) = {}
  PROVE  Entry(p) = p /\ ~ IsLink(p) /\ Real(p) = p
<1>1. Front(p) \in Paths /\ Last(p) \in STRING /\ p = Append(Front(p), Last(p))
  BY Splits
<1>2. LinksOf(Front(p)) = {} /\ TypeAt(p) # "link"
  BY <1>1, LinksOfJoin
<1>3. Real(Front(p)) = Front(p) /\ Real(p) = p
  BY <1>2 DEF Real
<1> QED
  BY <1>1, <1>2, <1>3 DEF Entry, IsLink

\* A path in a tree that stays as it is leads where it led.
LEMMA SameTree ==
  ASSUME UNCHANGED fs
  PROVE  /\ \A n : TypeAt(n)' = TypeAt(n)
         /\ \A p : /\ Real(p)' = Real(p) /\ Entry(p)' = Entry(p) /\ IsLink(p)' = IsLink(p)
                   /\ IsFile(p)' = IsFile(p) /\ Exists(p)' = Exists(p)
<1>1. \A n : TypeAt(n)' = TypeAt(n)
  BY DEF TypeAt
<1>2. \A p : Real(p)' = Real(p)
  BY DEF Real, Followed, Follow, LinksOf, TypeAt
<1>3. \A p : Entry(p)' = Entry(p)
  BY <1>2 DEF Entry
<1> QED
  BY <1>1, <1>2, <1>3 DEF IsLink, IsFile, Exists

LEMMA SameResolve ==
  ASSUME UNCHANGED fs
  PROVE  \A t, c : Resolve(t, c)' = Resolve(t, c)
<1>1. \A p : Real(p)' = Real(p) /\ IsLink(p)' = IsLink(p) /\ IsFile(p)' = IsFile(p)
             /\ Exists(p)' = Exists(p)
  BY SameTree
<1>2. \A p, r : LinkBelow(p, r)' = LinkBelow(p, r)
  BY <1>1 DEF LinkBelow
<1>3. \A s, c : Root(s, c)' = Root(s, c)
  BY <1>1 DEF Root
<1>4. \A p, c, s : ScopeOf(p, c, s)' = ScopeOf(p, c, s)
  BY <1>3 DEF ScopeOf
<1> QED
  BY <1>1, <1>2, <1>3, <1>4 DEF Resolve

-----------------------------------------------------------------------------
(* What resolve accepts.                                                   *)

LEMMA RootTyped ==
  ASSUME Tree, NEW c \in Projects, NEW s
  PROVE  Root(s, c) \in Paths \ {<<>>} /\ Real(Root(s, c)) = Root(s, c)
<1>1. ClaudeHome \in Paths \ {<<>>} /\ c \in Paths \ {<<>>}
  BY ConstantsAssumption DEF Paths
<1> QED
  BY <1>1, RealProperties DEF Root

\* The conditions under which resolve accepts a target, and what it returns.
LEMMA Accepted ==
  ASSUME Tree, NEW t \in Paths, NEW c \in Projects
  PROVE  LET r    == Resolve(t, c)
             s    == ScopeOf(Real(t), c, t)
             k    == KindOf(s, Relative(Real(t), Root(s, c)))
         IN /\ r # None <=> /\ s # None /\ ~ IsLink(t) /\ ~ LinkBelow(Real(t), Root(s, c))
                            /\ k # None /\ (Exists(Real(t)) => IsFile(Real(t)))
            /\ r # None => /\ r = [path |-> Real(t), scope |-> s, kind |-> k]
                           /\ r \in Resolution /\ r.path = Real(t) /\ r.kind = k
                           /\ s \in Scopes /\ Within(Real(t), Root(s, c)) /\ Real(t) # <<>>
<1> DEFINE r == Resolve(t, c)
           s == ScopeOf(Real(t), c, t)
           k == KindOf(s, Relative(Real(t), Root(s, c)))
           good == /\ s # None /\ ~ IsLink(t) /\ ~ LinkBelow(Real(t), Root(s, c))
                   /\ k # None /\ (Exists(Real(t)) => IsFile(Real(t)))
           res == [path |-> Real(t), scope |-> s, kind |-> k]
<1>1. r = IF good THEN res ELSE None
  BY DEF Resolve
<1>2. Real(t) \in Paths
  BY RealProperties
<1>3. s # None => s \in Scopes /\ Within(Real(t), Root(s, c))
  BY DEF ScopeOf, Scopes
<1>4. k \in Kinds \cup {None}
  BY DEF KindOf, Shape, Kinds
<1>5. s # None => Real(t) # <<>>
  <2>1. Root(s, c) \in Paths \ {<<>>}
    BY RootTyped
  <2>2. Len(Root(s, c)) # 0 /\ Len(Root(s, c)) \in Nat
    BY <2>1, EmptySeq, LenProperties DEF Paths
  <2>3. s # None => Len(Root(s, c)) <= Len(Real(t))
    BY <1>2, <1>3, <2>1, WithinIs
  <2>4. <<>> \in Paths /\ Len(<<>>) = 0
    BY EmptySeq DEF Paths
  <2> HIDE DEF s
  <2> QED
    BY <2>2, <2>3, <2>4
<1> HIDE DEF s, k
<1>6. good => res \in Resolution /\ res # None
  BY <1>2, <1>3, <1>4, NoneIsNothingElse DEF Resolution
<1>7. res.path = Real(t) /\ res.kind = k
  OBVIOUS
<1> HIDE DEF good, res
<1>8. (r # None <=> good) /\ (r # None => r = res /\ r \in Resolution)
  BY <1>1, <1>6
<1>9. good => s # None
  BY DEF good
<1> QED
  BY <1>3, <1>5, <1>7, <1>8, <1>9 DEF s, k, good, res

\* resolve accepts the path it returned, and returns the same.
LEMMA ResolveAgain ==
  ASSUME Tree, NEW t \in Paths, NEW c \in Projects, Resolve(t, c) # None
  PROVE  Resolve(Resolve(t, c).path, c) = Resolve(t, c)
<1> DEFINE real == Real(t)
           s == ScopeOf(real, c, t)
           k == KindOf(s, Relative(real, Root(s, c)))
<1>1. /\ Resolve(t, c) = [path |-> real, scope |-> s, kind |-> k]
      /\ Resolve(t, c).path = real
      /\ s # None /\ ~ IsLink(t) /\ ~ LinkBelow(real, Root(s, c))
      /\ k # None /\ (Exists(real) => IsFile(real)) /\ real # <<>>
  BY Accepted
<1>2. real \in Paths /\ Real(real) = real /\ (LinksOf(real) = {} \/ real = t)
  BY RealProperties
<1>3. ~ IsLink(real)
  BY <1>1, <1>2, NoLinks
<1>4. ScopeOf(real, c, real) = s
  BY DEF ScopeOf
<1> HIDE DEF real, s
<1>5. /\ Resolve(real, c) # None
      /\ Resolve(real, c) = [path |-> real, scope |-> s, kind |-> k]
  BY <1>1, <1>2, <1>3, <1>4, Accepted
<1> QED
  BY <1>1, <1>5

\* A path that was resolved names itself: no link leads elsewhere.
LEMMA ResolvedIsEntry ==
  ASSUME Tree, NEW t \in Paths, NEW c \in Projects, Resolve(t, c) # None, Resolve(t, c).path = t
  PROVE  Entry(t) = t /\ Real(t) = t /\ t # <<>>
<1>1. Real(t) = t /\ ~ IsLink(t) /\ t # <<>>
  BY Accepted
<1> QED
  BY <1>1, RealIsEntry


-----------------------------------------------------------------------------
(* What is accepted lies in the allowlist.                                 *)

\* The names of a path below a directory it is in.
LEMMA Below ==
  ASSUME NEW p \in Paths, NEW d \in Paths, Within(p, d)
  PROVE  /\ Relative(p, d) \in Paths /\ Len(Relative(p, d)) = Len(p) - Len(d)
         /\ \A i \in 1 .. Len(p) - Len(d) : Relative(p, d)[i] = p[Len(d) + i]
         /\ Len(d) \in Nat /\ Len(p) \in Nat /\ Len(d) <= Len(p)
         /\ \A i \in 1 .. Len(d) : p[i] = d[i]
<1>1. /\ Len(d) \in Nat /\ Len(p) \in Nat /\ Len(d) <= Len(p)
      /\ \A i \in 1 .. Len(d) : p[i] = d[i]
  BY WithinIs, LenProperties DEF Paths
<1>2. Len(d) \in 0 .. Len(p)
  BY <1>1
<1> QED
  BY <1>1, <1>2, OtherNames DEF Relative

\* A path in a directory is the directory and the names below it.
LEMMA BelowOne ==
  ASSUME NEW p \in Paths, NEW d \in Paths, Within(p, d), NEW x \in STRING, Len(p) > Len(d),
         Relative(p, d)[1] = x
  PROVE  /\ Within(p, Append(d, x)) /\ Relative(p, Append(d, x)) = Tail(Relative(p, d))
         /\ Len(p) = Len(d) + 1 => p = Append(d, x)
<1> DEFINE e == Append(d, x)
           r == Relative(p, d)
           q == Relative(p, e)
<1>1. /\ r \in Paths /\ Len(r) = Len(p) - Len(d)
      /\ \A i \in 1 .. Len(p) - Len(d) : r[i] = p[Len(d) + i]
      /\ Len(d) \in Nat /\ Len(p) \in Nat /\ Len(d) <= Len(p)
      /\ \A i \in 1 .. Len(d) : p[i] = d[i]
  BY Below
<1>2. /\ e \in Paths /\ Len(e) = Len(d) + 1
      /\ \A i \in 1 .. Len(d) : e[i] = d[i]
      /\ e[Len(d) + 1] = x
  BY OneMoreName
<1>3. r[1] = x
  OBVIOUS
<1> HIDE DEF e, r, q
<1>4. p[Len(d) + 1] = x
  <2>1. 1 \in 1 .. Len(p) - Len(d)
    BY <1>1
  <2> QED
    BY <1>1, <1>3, <2>1
<1>5. \A i \in 1 .. Len(e) : p[i] = e[i]
  <2> SUFFICES ASSUME NEW i \in 1 .. Len(e) PROVE p[i] = e[i]
    OBVIOUS
  <2>1. i \in 1 .. Len(d) \/ i = Len(d) + 1
    BY <1>1, <1>2
  <2> QED
    BY <1>1, <1>2, <1>4, <2>1
<1>6. Within(p, e)
  BY <1>1, <1>2, <1>5, WithinIs
<1>7. /\ q \in Paths /\ Len(q) = Len(p) - Len(e)
      /\ \A i \in 1 .. Len(p) - Len(e) : q[i] = p[Len(e) + i]
  BY <1>2, <1>6, Below DEF q
<1>8. Tail(r) \in Paths /\ Len(Tail(r)) = Len(r) - 1 /\ \A i \in 1 .. Len(Tail(r)) : Tail(r)[i] = r[i + 1]
  <2>1. r # <<>>
    BY <1>1, EmptySeq DEF Paths
  <2> QED
    BY <1>1, <2>1, HeadTailProperties DEF Paths
<1>9. q = Tail(r)
  <2>1. Len(q) = Len(Tail(r)) /\ Len(q) \in Nat /\ Len(q) = Len(p) - (Len(d) + 1)
    BY <1>1, <1>2, <1>7, <1>8
  <2>2. ASSUME NEW i \in 1 .. Len(q) PROVE q[i] = Tail(r)[i]
    <3>1. /\ i \in 1 .. Len(p) - Len(e) /\ i \in 1 .. Len(Tail(r)) /\ i + 1 \in 1 .. Len(p) - Len(d)
          /\ Len(d) + (i + 1) = Len(e) + i
      BY <1>1, <1>2, <1>7, <2>1
    <3>2. q[i] = p[Len(e) + i] /\ Tail(r)[i] = r[i + 1]
      BY <1>7, <1>8, <3>1
    <3>3. r[i + 1] = p[Len(d) + (i + 1)]
      BY <1>1, <3>1
    <3> QED
      BY <3>1, <3>2, <3>3
  <2> QED
    BY <1>7, <1>8, <2>1, <2>2, SamePath
<1>10. Len(p) = Len(d) + 1 => p = e
  BY <1>2, <1>5, SamePath
<1> QED
  BY <1>6, <1>9, <1>10 DEF e, r, q

\* The shapes resolve accepts are those the allowlist lists.
LEMMA ShapeListed ==
  ASSUME NEW s \in Paths, Shape(s) # None
  PROVE  Listed(s)
<1>1. Len(s) \in Nat
  BY LenProperties DEF Paths
<1>2. \/ s = <<"CLAUDE.md">>
      \/ /\ Len(s) >= 2 /\ s[1] = "rules" /\ Last(s) \in MdNames
         /\ \A i \in 2 .. Len(s) : s[i] \in RuleParts
      \/ Len(s) = 3 /\ s[1] = "skills" /\ s[3] = "SKILL.md" /\ s[2] \in SkillNames
  BY DEF Shape
<1>3. CASE s = <<"CLAUDE.md">>
  BY <1>3 DEF Listed
<1>4. CASE /\ Len(s) >= 2 /\ s[1] = "rules" /\ Last(s) \in MdNames
           /\ \A i \in 2 .. Len(s) : s[i] \in RuleParts
  <2>1. s # <<>> /\ 2 \in Int /\ Len(s) \in Int
    BY <1>1, <1>4, EmptySeq DEF Paths
  <2>2. Tail(s) = SubSeq(s, 2, Len(s))
    BY <2>1 DEF Paths
  <2>3. SubSeq(s, 2, Len(s)) \in Seq(RuleParts)
    BY <1>4, <2>1, SubSeqProperties
  <2>4. Len(s) > 1 /\ s[1] = "rules" /\ s[Len(s)] \in MdNames
    BY <1>1, <1>4 DEF Last
  <2>5. Tail(s) \in Seq(RuleParts)
    BY <2>2, <2>3
  <2> QED
    BY <2>4, <2>5 DEF Listed
<1>5. CASE Len(s) = 3 /\ s[1] = "skills" /\ s[3] = "SKILL.md" /\ s[2] \in SkillNames
  <2>1. s[2] \in STRING
    BY <1>5, ElementOfSeq DEF Paths
  <2>2. PICK x \in STRING : x = s[2]
    BY <2>1
  <2>3. <<"skills", x, "SKILL.md">> \in Paths
    BY LiteralsAreNames DEF Paths
  <2>4. s = <<"skills", x, "SKILL.md">>
    BY <1>5, <2>2, <2>3, SamePath
  <2> QED
    BY <1>5, <2>2, <2>4 DEF Listed
<1> QED
  BY <1>2, <1>3, <1>4, <1>5

LEMMA AcceptedIsAllowed ==
  ASSUME Tree, NEW t \in Paths, NEW c \in Projects, Resolve(t, c) # None
  PROVE  Allowed(Real(t), Real(ClaudeHome), Real(c))
<1> DEFINE p == Real(t)
           s == ScopeOf(Real(t), c, t)
           root == Root(s, c)
           parts == Relative(p, root)
<1>1. s \in {"user", "project"} /\ Within(p, root) /\ KindOf(s, parts) # None
  BY Accepted DEF Scopes
<1>2. p \in Paths /\ root \in Paths
  BY RealProperties, RootTyped
<1>3. root = IF s = "user" THEN Real(ClaudeHome) ELSE Real(c)
  BY DEF Root
<1> HIDE DEF p, s, root, parts
<1>4. parts \in Paths /\ Len(parts) = Len(p) - Len(root) /\ Len(p) \in Nat /\ Len(root) \in Nat
  BY <1>1, <1>2, Below DEF parts
<1>5. CASE s = "user"
  <2>1. Shape(parts) # None
    BY <1>1, <1>5 DEF KindOf
  <2>2. Listed(parts) /\ root = Real(ClaudeHome)
    BY <1>3, <1>4, <1>5, <2>1, ShapeListed
  <2> QED
    BY <1>1, <2>2 DEF Allowed, Within, Relative, parts, p
<1>6. CASE s = "project"
  <2>1. root = Real(c)
    BY <1>3, <1>6
  <2>2. CASE parts = <<"CLAUDE.md">>
    <3>1. Len(parts) = 1 /\ parts[1] = "CLAUDE.md"
      BY <2>2
    <3>2. Len(p) = Len(root) + 1 /\ Len(p) > Len(root)
      <4>1. Len(parts) = 1
        BY <3>1
      <4>2. Len(parts) = Len(p) - Len(root) /\ Len(p) \in Nat /\ Len(root) \in Nat
        BY <1>4
      <4>3. Len(p) - Len(root) = 1
        BY <4>1, <4>2
      <4> QED
        BY <4>2, <4>3
    <3>3. p = Append(root, "CLAUDE.md")
      <4>1. Relative(p, root)[1] = "CLAUDE.md" /\ "CLAUDE.md" \in STRING
        BY <3>1, LiteralsAreNames DEF parts
      <4> QED
        BY <1>1, <1>2, <3>2, <4>1, BelowOne
    <3> QED
      BY <2>1, <3>3 DEF Allowed, p
  <2>3. CASE parts # <<"CLAUDE.md">>
    <3>1. Len(parts) >= 2 /\ parts[1] = ".claude" /\ Shape(Tail(parts)) # None
      BY <1>1, <1>6, <2>3 DEF KindOf
    <3>2. Len(p) > Len(root)
      BY <1>4, <3>1
    <3>3. Within(p, Append(root, ".claude")) /\ Relative(p, Append(root, ".claude")) = Tail(parts)
      <4>1. Relative(p, root)[1] = ".claude" /\ ".claude" \in STRING
        BY <3>1, LiteralsAreNames DEF parts
      <4> QED
        BY <1>1, <1>2, <3>2, <4>1, BelowOne DEF parts
    <3>4. Tail(parts) \in Paths
      BY <1>4, <3>1, HeadTailProperties, EmptySeq DEF Paths
    <3>5. Listed(Tail(parts))
      BY <3>1, <3>4, ShapeListed
    <3> QED
      BY <2>1, <3>3, <3>5 DEF Allowed, Within, Relative, p
  <2> QED
    BY <2>2, <2>3
<1> QED
  BY <1>1, <1>5, <1>6

-----------------------------------------------------------------------------
(* What a write and a change leave of the tree.                            *)

\* A directory is no longer than what is in it, and begins it.
LEMMA Above ==
  ASSUME NEW n \in Nodes, Len(n) > 1
  PROVE  /\ Front(n) \in Nodes /\ Front(n) # n
         /\ \A p \in Paths : Within(Front(n), p) => Within(n, p) /\ p # n
         /\ \A p \in Paths : Within(p, n) => Within(p, Front(n)) /\ Front(n) # p
<1>1. n \in Paths \ {<<>>} /\ Front(n) \in Nodes
  BY ConstantsAssumption DEF Paths
<1> DEFINE d == Front(n)
<1>2. d \in Paths /\ Len(n) \in Nat /\ Len(d) = Len(n) - 1 /\ \A i \in 1 .. Len(n) - 1 : d[i] = n[i]
  BY <1>1, Splits
<1> HIDE DEF d
<1>3. \A p \in Paths : Len(p) \in Nat
  BY LenProperties DEF Paths
<1>4. d # n
  BY <1>2
<1>5. ASSUME NEW p \in Paths, Within(d, p) PROVE Within(n, p) /\ p # n
  <2>1. Len(p) <= Len(d) /\ \A i \in 1 .. Len(p) : d[i] = p[i]
    BY <1>2, <1>5, WithinIs
  <2>2. Len(p) \in Nat /\ Len(p) < Len(n) /\ \A i \in 1 .. Len(p) : i \in 1 .. Len(n) - 1
    BY <1>2, <1>3, <2>1
  <2>3. Len(p) <= Len(n) /\ \A i \in 1 .. Len(p) : n[i] = p[i]
    BY <1>2, <2>1, <2>2
  <2> QED
    BY <1>1, <2>2, <2>3, WithinIs
<1>6. ASSUME NEW p \in Paths, Within(p, n) PROVE Within(p, d) /\ d # p
  <2>1. Len(n) <= Len(p) /\ \A i \in 1 .. Len(n) : p[i] = n[i]
    BY <1>1, <1>6, WithinIs
  <2>2. Len(d) < Len(p) /\ \A i \in 1 .. Len(d) : i \in 1 .. Len(n) /\ i \in 1 .. Len(n) - 1
    BY <1>2, <1>3, <2>1
  <2>3. Len(d) <= Len(p) /\ \A i \in 1 .. Len(d) : p[i] = d[i]
    BY <1>2, <1>3, <2>1, <2>2
  <2> QED
    BY <1>2, <1>3, <2>2, <2>3, WithinIs
<1> QED
  BY <1>1, <1>4, <1>5, <1>6 DEF d

LEMMA PutKeepsTree ==
  ASSUME Tree, NEW p, NEW e \in {File, Nothing}, CanWrite(p), Put(p, e)
  PROVE  Tree'
<1> DEFINE q == Entry(p)
<1>1. /\ q \in Nodes /\ q \in Paths /\ fs[q].type # "dir"
      /\ fs' = [n \in Nodes |-> IF n = q THEN e ELSE IF Within(q, n) THEN Dir ELSE fs[n]]
  BY ConstantsAssumption DEF CanWrite, Put, TypeAt, Paths
<1> HIDE DEF q
<1>2. fs' \in [Nodes -> Entries]
  BY <1>1 DEF Tree, Entries
<1>3. ASSUME NEW n \in Nodes, fs'[n].type # "none", Len(n) > 1
      PROVE  fs'[Front(n)].type = "dir"
  <2>1. /\ Front(n) \in Nodes /\ Front(n) # n /\ n \in Paths
        /\ Within(q, n) => Within(q, Front(n))
        /\ n = q => Within(q, Front(n))
        /\ Within(q, n) => Front(n) # q
    <3>1. n \in Paths \ {<<>>} /\ Front(n) \in Nodes /\ Front(n) \in Paths
      BY <1>3, ConstantsAssumption DEF Paths
    <3>2. Front(n) # n /\ (Within(q, n) => Within(q, Front(n)) /\ Front(n) # q)
      BY <1>1, <1>3, Above
    <3>3. Within(n, n)
      BY <3>1, WithinIs
    <3> QED
      BY <3>1, <3>2, <3>3
  <2>2. CASE n = q \/ Within(q, n)
    <3>1. Front(n) # q /\ Within(q, Front(n))
      BY <2>1, <2>2
    <3>2. fs'[Front(n)] = Dir
      BY <1>1, <2>1, <3>1
    <3> QED
      BY <3>2 DEF Dir
  <2>3. CASE ~ (n = q \/ Within(q, n))
    <3>1. fs'[n] = fs[n]
      BY <1>1, <2>3
    <3>2. fs[Front(n)].type = "dir"
      BY <1>3, <3>1 DEF Tree
    <3>3. Front(n) # q
      BY <1>1, <3>2
    <3>4. fs'[Front(n)] = Dir \/ fs'[Front(n)] = fs[Front(n)]
      BY <1>1, <2>1, <3>3
    <3> QED
      BY <3>2, <3>4 DEF Dir
  <2> QED
    BY <2>2, <2>3
<1> QED
  BY <1>2, <1>3 DEF Tree

LEMMA ReplacedKeepsTree ==
  ASSUME Tree, NEW q \in Nodes, NEW e \in Entries, Replaced(q, e),
         e.type # "none" /\ Len(q) > 1 => fs[Front(q)].type = "dir"
  PROVE  Tree'
<1>1. /\ q \in Paths
      /\ fs' = [m \in Nodes |-> IF m = q THEN e ELSE IF Within(m, q) THEN Nothing ELSE fs[m]]
  BY ConstantsAssumption DEF Replaced, Paths
<1>2. fs' \in [Nodes -> Entries]
  BY <1>1 DEF Tree, Entries
<1>3. ASSUME NEW n \in Nodes, fs'[n].type # "none", Len(n) > 1
      PROVE  fs'[Front(n)].type = "dir"
  <2>1. /\ Front(n) \in Nodes /\ Front(n) # n
        /\ Within(Front(n), q) => Within(n, q) /\ q # n
    BY <1>1, <1>3, Above
  <2>2. n = q \/ ~ Within(n, q)
    BY <1>1, <1>3 DEF Nothing
  <2>3. ~ Within(Front(n), q)
    BY <2>1, <2>2
  <2>4. Front(n) # q
    <3>1. Within(q, q)
      BY <1>1, WithinIs
    <3> QED
      BY <2>3, <3>1
  <2>5. fs'[Front(n)] = fs[Front(n)]
    BY <1>1, <2>1, <2>3, <2>4
  <2>6. fs[Front(n)].type = "dir"
    <3>1. CASE n = q
      BY <1>1, <1>3, <3>1
    <3>2. CASE n # q
      <4>1. fs'[n] = fs[n]
        BY <1>1, <2>2, <3>2
      <4> QED
        BY <1>3, <4>1 DEF Tree
    <3> QED
      BY <3>1, <3>2
  <2> QED
    BY <2>5, <2>6
<1> QED
  BY <1>2, <1>3 DEF Tree


-----------------------------------------------------------------------------
(* Types.                                                                  *)

THEOREM TypesKept == Spec => []TypeOK
<1>1. Init => TypeOK
  <2> SUFFICES ASSUME Init PROVE TypeOK
    OBVIOUS
  <2>1. fs \in [Nodes -> Entries]
    BY DEF Init, Entries
  <2>2. ASSUME NEW n \in Nodes, fs[n].type # "none", Len(n) > 1
        PROVE  fs[Front(n)].type = "dir"
    <3>1. n \in Present
      BY <2>2 DEF Init, Nothing
    <3>2. Front(n) \in Present /\ Last(Front(n)) \notin MdNames /\ Front(n) \in Nodes
      BY <2>2, <3>1, ConstantsAssumption
    <3>3. fs[Front(n)] = Dir
      BY <3>2 DEF Init
    <3> QED
      BY <3>3 DEF Dir
  <2>3. changes \in 0 .. MaxChanges
    BY ConstantsAssumption DEF Init
  <2>4. /\ shown = None /\ mutated = None /\ held = None /\ op = "none"
    BY DEF Init
  <2> QED
    BY <2>1, <2>2, <2>3, <2>4 DEF TypeOK
<1>2. TypeOK /\ [Next]_vars => TypeOK'
  <2> SUFFICES ASSUME TypeOK, [Next]_vars PROVE TypeOK'
    OBVIOUS
  <2>1. Tree
    BY DEF TypeOK, Tree
  <2>2. ASSUME UNCHANGED fs,
               shown' \in Resolution \cup {None}, mutated' \in Paths \cup {None},
               op' \in {"none", "apply", "rollback"}, (op' = "none") = (held' = None),
               held' \in Paths \cup {None}, changes' \in 0 .. MaxChanges
        PROVE  TypeOK'
    BY <2>2 DEF TypeOK
  <2>3. ASSUME NEW t \in Targets, NEW cwd \in Projects, Stage(t, cwd)
        PROVE  TypeOK'
    <3>1. t \in Paths
      BY ConstantsAssumption DEF Targets, Paths
    <3>2. shown' \in Resolution
      BY <2>1, <2>3, <3>1, Accepted DEF Stage
    <3> QED
      BY <2>2, <2>3, <3>2 DEF Stage, TypeOK
  <2>4. ASSUME NEW cwd \in Projects, BeginApply(cwd)
        PROVE  TypeOK'
    <3>1. held' \in Paths /\ held' # None
      BY <2>4, NoneIsNothingElse DEF BeginApply, TypeOK, Resolution
    <3> QED
      BY <2>2, <2>4, <3>1 DEF BeginApply, TypeOK
  <2>5. ASSUME NEW cwd \in Projects, BeginRollback(cwd)
        PROVE  TypeOK'
    <3>1. mutated \in Paths
      BY <2>5 DEF BeginRollback, TypeOK
    <3>2. Resolve(mutated, cwd) \in Resolution
      BY <2>1, <2>5, <3>1, Accepted DEF BeginRollback
    <3>3. held' \in Paths /\ held' # None
      BY <2>5, <3>2, NoneIsNothingElse DEF BeginRollback, Resolution
    <3> QED
      BY <2>2, <2>5, <3>3 DEF BeginRollback, TypeOK
  <2>6. ASSUME op # "none", CanWrite(held), NEW e \in {File, Nothing}, Put(held, e)
        PROVE  Tree'
    BY <2>1, <2>6, PutKeepsTree DEF TypeOK
  <2>7. ASSUME Install
        PROVE  TypeOK'
    <3>1. Tree'
      BY <2>6, <2>7 DEF Install, Land
    <3>2. mutated' \in Paths
      BY <2>7 DEF Install, TypeOK
    <3> QED
      BY <2>7, <3>1, <3>2 DEF Install, Land, TypeOK, Tree
  <2>8. ASSUME Restore
        PROVE  TypeOK'
    <3>1. Tree'
      BY <2>6, <2>8 DEF Restore, Land
    <3> QED
      BY <2>8, <3>1 DEF Restore, Land, TypeOK, Tree
  <2>9. CASE Fail
    BY <2>2, <2>9 DEF Fail, TypeOK
  <2>10. ASSUME Change, Tree'
         PROVE  TypeOK'
    <3>1. changes' \in 0 .. MaxChanges
      BY <2>10, ConstantsAssumption DEF Change, TypeOK
    <3> QED
      BY <2>10, <3>1 DEF Change, TypeOK, Tree
  <2>11. ASSUME NEW l \in Links, Relink(l[1], l[2])
         PROVE  TypeOK'
    <3>1. l[1] \in Nodes /\ l[2] \in Nodes
      BY ConstantsAssumption
    <3>2. Link(l[2]) \in Entries
      BY <3>1 DEF Entries
    <3>3. Len(l[1]) > 1 => fs[Front(l[1])].type = "dir"
      BY <2>11, <3>1, ConstantsAssumption DEF Relink, TypeAt
    <3>4. Tree'
      BY <2>1, <2>11, <3>1, <3>2, <3>3, ReplacedKeepsTree DEF Relink
    <3> QED
      BY <2>10, <2>11, <3>4 DEF Relink
  <2>12. ASSUME NEW n \in Deletable, Delete(n)
         PROVE  TypeOK'
    <3>1. n \in Nodes /\ Nothing \in Entries /\ Nothing.type = "none"
      BY ConstantsAssumption DEF Entries, Nothing
    <3>2. Tree'
      BY <2>1, <2>12, <3>1, ReplacedKeepsTree DEF Delete
    <3> QED
      BY <2>10, <2>12, <3>2 DEF Delete
  <2>13. CASE UNCHANGED vars
    BY <2>2, <2>13 DEF TypeOK, vars
  <2> QED
    BY <2>3, <2>4, <2>5, <2>7, <2>8, <2>9, <2>11, <2>12, <2>13 DEF Next
<1> QED
  BY <1>1, <1>2, PTL DEF Spec


-----------------------------------------------------------------------------
(* What resolve returns is accepted again, and so is what find-owners lists. *)

\* Resolution is idempotent in every tree: a target that nobody moved is never
\* taken for a moved one when apply resolves again what stage resolved.
THEOREM ResolutionIdempotent == Spec => []ResolveIdempotent
<1>1. TypeOK => ResolveIdempotent
  <2> SUFFICES ASSUME TypeOK, NEW c \in Projects, NEW t \in Targets, Resolve(t, c) # None
               PROVE  Resolve(Resolve(t, c).path, c) = Resolve(t, c)
    BY DEF ResolveIdempotent
  <2>1. Tree /\ t \in Paths
    BY ConstantsAssumption DEF TypeOK, Tree, Targets, Paths
  <2> QED
    BY <2>1, ResolveAgain
<1> QED
  BY <1>1, TypesKept, PTL

\* A CLAUDE.md in a directory that was resolved leads nowhere else.
LEMMA InResolved ==
  ASSUME Tree, NEW d \in Paths, Real(d) = d, NEW x \in STRING, ~ IsLink(Append(d, x))
  PROVE  LET t == Append(d, x) IN
           /\ t \in Paths \ {<<>>} /\ Real(t) = t /\ Within(t, d)
           /\ Len(t) = Len(d) + 1 /\ Len(d) \in Nat
           /\ Relative(t, d) = <<x>>
           /\ ~ IsDir(t) => (Exists(t) => IsFile(t))
           /\ ~ LinkBelow(t, d)
           /\ \A h \in Paths : Within(t, h) => h = t \/ Within(d, h)
<1> DEFINE t == Append(d, x)
<1>1. /\ t \in Paths \ {<<>>} /\ Len(t) = Len(d) + 1 /\ Len(d) \in Nat
      /\ Front(t) = d /\ Last(t) = x /\ \A i \in 1 .. Len(d) : t[i] = d[i]
      /\ t[Len(d) + 1] = x
  BY Joins, OneMoreName
<1> HIDE DEF t
<1>2. Entry(t) = t
  BY <1>1 DEF Entry, t
<1>3. TypeAt(t) # "link" /\ Real(t) = t
  <2>1. TypeAt(t) # "link"
    BY <1>2 DEF IsLink, t
  <2> QED
    BY <2>1, RealJoin DEF t
<1>4. TypeAt(t) \in {"none", "file", "dir", "link"}
  BY DEF Tree, TypeAt, Entries, Nothing, File, Dir, Link
<1>5. ~ IsDir(t) => (Exists(t) => IsFile(t))
  BY <1>3, <1>4 DEF IsDir, Exists, IsFile
<1>6. Within(t, d)
  <2>1. Len(d) <= Len(t)
    BY <1>1
  <2> QED
    BY <1>1, <2>1, WithinIs
<1>7. Relative(t, d) = <<x>>
  <2>1. /\ Relative(t, d) \in Paths /\ Len(Relative(t, d)) = Len(t) - Len(d)
        /\ \A i \in 1 .. Len(t) - Len(d) : Relative(t, d)[i] = t[Len(d) + i]
    BY <1>1, <1>6, Below
  <2>2. Len(t) - Len(d) = 1
    BY <1>1
  <2>3. Len(Relative(t, d)) = 1 /\ Relative(t, d)[1] = t[Len(d) + 1]
    BY <2>1, <2>2
  <2>4. Relative(t, d) = <<Relative(t, d)[1]>>
    BY <2>1, <2>3, OneOrTwo DEF Paths
  <2> QED
    BY <1>1, <2>3, <2>4
<1>8. SubSeq(t, 1, Len(t)) = t
  BY <1>1, SubSeqFull DEF Paths
<1>9. ~ LinkBelow(t, d)
  <2> SUFFICES ASSUME NEW k \in Len(d) + 1 .. Len(t) PROVE ~ IsLink(SubSeq(t, 1, k))
    BY DEF LinkBelow
  <2>1. k = Len(t)
    BY <1>1
  <2> QED
    BY <1>8, <2>1 DEF t
<1>10. ASSUME NEW h \in Paths, Within(t, h), h # t PROVE Within(d, h)
  <2>1. Len(h) <= Len(t) /\ Len(h) \in Nat /\ \A i \in 1 .. Len(h) : t[i] = h[i]
    BY <1>1, <1>10, WithinIs, LenProperties DEF Paths
  <2>2. Len(h) # Len(t)
    BY <1>1, <1>10, <2>1, SamePath
  <2>3. Len(h) <= Len(d) /\ \A i \in 1 .. Len(h) : i \in 1 .. Len(d)
    BY <1>1, <2>1, <2>2
  <2>4. \A i \in 1 .. Len(h) : d[i] = h[i]
    BY <1>1, <2>1, <2>3
  <2> QED
    BY <2>3, <2>4, WithinIs
<1> QED
  BY <1>1, <1>3, <1>5, <1>6, <1>7, <1>9, <1>10 DEF t

\* Two names added to a directory.
LEMMA UpToDirectory ==
  ASSUME NEW d \in Paths, NEW x \in STRING, NEW y \in STRING
  PROVE  LET b == Append(d, x)
             t == Append(b, y)
         IN /\ b \in Paths /\ Len(b) = Len(d) + 1 /\ Len(d) \in Nat
            /\ t \in Paths /\ Len(t) = Len(b) + 1 /\ SubSeq(t, 1, Len(b)) = b
            /\ Within(t, d) /\ Relative(t, d) = <<x, y>>
<1> DEFINE b == Append(d, x)
           t == Append(b, y)
           r == Relative(t, d)
<1>1. /\ b \in Paths /\ Len(b) = Len(d) + 1 /\ Len(d) \in Nat
      /\ \A i \in 1 .. Len(d) : b[i] = d[i]
      /\ b[Len(d) + 1] = x
  BY OneMoreName
<1> HIDE DEF b
<1>2. /\ t \in Paths /\ Len(t) = Len(b) + 1 /\ Front(t) = b
      /\ \A i \in 1 .. Len(b) : t[i] = b[i]
      /\ t[Len(b) + 1] = y
  BY <1>1, OneMoreName, Joins
<1>3. SubSeq(t, 1, Len(b)) = b
  <2>1. Len(b) \in 0 .. Len(b)
    BY <1>1
  <2>2. SubSeq(t, 1, Len(b)) = SubSeq(b, 1, Len(b))
    BY <1>1, <2>1, Joins
  <2> QED
    BY <1>1, <2>2, SubSeqFull DEF Paths
<1> HIDE DEF t
<1>4. Within(t, d)
  <2>1. Len(d) <= Len(t) /\ \A i \in 1 .. Len(d) : i \in 1 .. Len(b)
    BY <1>1, <1>2
  <2>2. \A i \in 1 .. Len(d) : t[i] = d[i]
    BY <1>1, <1>2, <2>1
  <2> QED
    BY <1>2, <2>1, <2>2, WithinIs
<1>5. /\ r \in Paths /\ Len(r) = Len(t) - Len(d)
      /\ \A i \in 1 .. Len(t) - Len(d) : r[i] = t[Len(d) + i]
  BY <1>2, <1>4, Below
<1> HIDE DEF r
<1>6. Len(t) - Len(d) = 2 /\ Len(d) + 1 \in 1 .. Len(b) /\ Len(d) + 2 = Len(b) + 1
  BY <1>1, <1>2
<1>7. Len(r) = 2 /\ r[1] = t[Len(d) + 1] /\ r[2] = t[Len(d) + 2]
  BY <1>5, <1>6
<1>8. r[1] = x /\ r[2] = y
  BY <1>1, <1>2, <1>6, <1>7
<1>9. r = <<r[1], r[2]>>
  BY <1>5, <1>7, OneOrTwo DEF Paths
<1> QED
  BY <1>1, <1>2, <1>3, <1>4, <1>8, <1>9 DEF b, t, r

\* What find-owners lists, the mutator accepts: a rule or a skill at the very path
\* that is listed, a CLAUDE.md with the exceptions ListedAccepted names.
THEOREM ListedCanBeStaged == Spec => []ListedAccepted
<1>1. TypeOK => ListedAccepted
  <2> SUFFICES ASSUME TypeOK, NEW cwd \in Projects
               PROVE  /\ \A t \in ListedArtifacts(cwd) :
                           Resolve(t, cwd) # None /\ Resolve(t, cwd).path = t
                      /\ \A t \in ListedClaudeMd(cwd) :
                           \/ IsLink(t) \/ IsDir(t) \/ Within(Real(cwd), Real(ClaudeHome))
                           \/ t = Real(ClaudeHome) \/ LinkBelow(t, Real(cwd))
                           \/ Resolve(t, cwd) # None /\ Resolve(t, cwd).kind = "CLAUDE.md"
    BY DEF ListedAccepted
  <2>1. Tree /\ ClaudeHome \in Paths /\ cwd \in Paths
    BY ConstantsAssumption DEF TypeOK, Tree, Paths
  <2>2. ASSUME NEW t \in ListedArtifacts(cwd)
        PROVE  Resolve(t, cwd) # None /\ Resolve(t, cwd).path = t
    <3>1. PICK scope \in Scopes, kind \in {"rule", "skill"}, subdir \in {"rules", "skills"} :
            t \in Scan(scope, kind, subdir, cwd)
      BY <2>2 DEF ListedArtifacts
    <3> DEFINE d == Append(Base(scope, cwd), subdir)
    <3>2. PICK u \in Walk(d) : Resolve(u, cwd) # None /\ t = Resolve(u, cwd).path
      BY <3>1 DEF Scan
    <3>3. u \in Paths
      <4>1. Base(scope, cwd) \in Paths
        BY <2>1, RootTyped, Joins, LiteralsAreNames DEF Base
      <4>2. d \in Paths
        BY <4>1, Joins, LiteralsAreNames
      <4> HIDE DEF d
      <4>3. PICK n \in Nodes : Within(n, Real(d)) /\ u = d \o Relative(n, Real(d))
        BY <3>2 DEF Walk
      <4>4. Relative(n, Real(d)) \in Paths
        BY <2>1, <4>2, <4>3, RealProperties, Below, ConstantsAssumption DEF Paths
      <4> QED
        BY <4>2, <4>3, <4>4, ConcatProperties DEF Paths
    <3> QED
      BY <2>1, <3>2, <3>3, ResolveAgain
  <2>3. ASSUME NEW t \in ListedClaudeMd(cwd), ~ IsLink(t), ~ IsDir(t),
               ~ Within(Real(cwd), Real(ClaudeHome)), t # Real(ClaudeHome),
               ~ LinkBelow(t, Real(cwd))
        PROVE  Resolve(t, cwd) # None /\ Resolve(t, cwd).kind = "CLAUDE.md"
    <3> DEFINE h == Real(ClaudeHome)
               w == Real(cwd)
    <3>1. h \in Paths /\ w \in Paths /\ Real(h) = h /\ Real(w) = w
      BY <2>1, RealProperties
    <3>2. Root("user", cwd) = h /\ Root("project", cwd) = w
      BY DEF Root
    <3>3. "CLAUDE.md" \in STRING /\ ".claude" \in STRING
      BY LiteralsAreNames
    <3>4. \/ t = Append(h, "CLAUDE.md")
          \/ t = Append(w, "CLAUDE.md")
          \/ t = Append(Append(w, ".claude"), "CLAUDE.md")
      BY DEF ListedClaudeMd, CandidatePaths, Base, Root, Scopes
    <3> HIDE DEF h, w
    <3>5. ASSUME NEW scope \in Scopes, t \in Paths, Real(t) = t, ScopeOf(t, cwd, t) = scope,
                 ~ LinkBelow(t, Root(scope, cwd)), Exists(t) => IsFile(t),
                 KindOf(scope, Relative(t, Root(scope, cwd))) = "CLAUDE.md"
          PROVE  Resolve(t, cwd) # None /\ Resolve(t, cwd).kind = "CLAUDE.md"
      BY <2>1, <2>3, <3>5, Accepted, NoneIsNothingElse DEF Kinds
    <3>6. CASE t = Append(h, "CLAUDE.md")
      <4>1. /\ t \in Paths /\ Real(t) = t /\ Within(t, h) /\ Relative(t, h) = <<"CLAUDE.md">>
            /\ Exists(t) => IsFile(t)
            /\ ~ LinkBelow(t, h)
        BY <2>1, <2>3, <3>1, <3>3, <3>6, InResolved
      <4>2. ScopeOf(t, cwd, t) = "user"
        BY <3>2, <4>1 DEF ScopeOf
      <4>3. KindOf("user", <<"CLAUDE.md">>) = "CLAUDE.md"
        BY DEF KindOf, Shape
      <4> QED
        BY <3>2, <3>5, <4>1, <4>2, <4>3 DEF Scopes
    <3>7. CASE t = Append(w, "CLAUDE.md")
      <4>1. /\ t \in Paths /\ Real(t) = t /\ Within(t, w) /\ Relative(t, w) = <<"CLAUDE.md">>
            /\ Exists(t) => IsFile(t)
            /\ ~ LinkBelow(t, w)
            /\ Within(t, h) => h = t \/ Within(w, h)
        BY <2>1, <2>3, <3>1, <3>3, <3>7, InResolved
      <4>2. ScopeOf(t, cwd, t) = "project"
        BY <2>3, <3>2, <4>1 DEF ScopeOf, h, w
      <4>3. KindOf("project", <<"CLAUDE.md">>) = "CLAUDE.md"
        BY DEF KindOf
      <4> QED
        BY <3>2, <3>5, <4>1, <4>2, <4>3 DEF Scopes
    <3>8. CASE t = Append(Append(w, ".claude"), "CLAUDE.md")
      <4> DEFINE b == Append(w, ".claude")
      <4>1. /\ b \in Paths /\ Len(b) = Len(w) + 1 /\ Len(w) \in Nat
            /\ Len(t) = Len(b) + 1 /\ SubSeq(t, 1, Len(b)) = b
            /\ Within(t, w) /\ Relative(t, w) = <<".claude", "CLAUDE.md">>
        BY <3>1, <3>3, <3>8, UpToDirectory
      <4>2. ~ IsLink(b)
        <5>1. Len(b) \in Len(w) + 1 .. Len(t)
          BY <4>1
        <5> QED
          BY <2>3, <4>1, <5>1 DEF LinkBelow, w
      <4> HIDE DEF b
      <4>3. Real(b) = b /\ Within(b, w) /\ (\A g \in Paths : Within(b, g) => g = b \/ Within(w, g))
        BY <2>1, <3>1, <3>3, <4>2, InResolved DEF b
      <4>4. /\ t \in Paths /\ Real(t) = t /\ Within(t, b) /\ Relative(t, b) = <<"CLAUDE.md">>
            /\ Exists(t) => IsFile(t)
            /\ ~ LinkBelow(t, b)
            /\ \A g \in Paths : Within(t, g) => g = t \/ Within(b, g)
        BY <2>1, <2>3, <3>3, <3>8, <4>1, <4>3, InResolved DEF b
      <4>5. Within(t, h) => h = b
        BY <2>3, <3>1, <4>3, <4>4 DEF h, w
      <4>6. CASE h = b
        <5>1. ScopeOf(t, cwd, t) = "user"
          BY <3>2, <4>4, <4>6 DEF ScopeOf
        <5>2. KindOf("user", <<"CLAUDE.md">>) = "CLAUDE.md"
          BY DEF KindOf, Shape
        <5> QED
          BY <3>2, <3>5, <4>4, <4>6, <5>1, <5>2 DEF Scopes
      <4>7. CASE h # b
        <5>1. ScopeOf(t, cwd, t) = "project"
          BY <3>2, <4>1, <4>5, <4>7 DEF ScopeOf
        <5>2. KindOf("project", <<".claude", "CLAUDE.md">>) = "CLAUDE.md"
          BY DEF KindOf, Shape
        <5> QED
          BY <2>3, <3>2, <3>5, <4>1, <4>4, <5>1, <5>2 DEF Scopes, w
      <4> QED
        BY <4>6, <4>7
    <3> QED
      BY <3>4, <3>6, <3>7, <3>8
  <2> QED
    BY <2>2, <2>3
<1> QED
  BY <1>1, TypesKept, PTL


-----------------------------------------------------------------------------
(* What a command holds, and where it lands.                               *)

\* What was checked stays as it was checked.
LEMMA CheckedKept ==
  ASSUME RaceLinks = FALSE
  PROVE  Spec => []Checked
<1>1. Init => Checked
  BY DEF Init, Checked
<1>2. TypeOK /\ Checked /\ [Next]_vars => Checked'
  <2> SUFFICES ASSUME TypeOK, Checked, [Next]_vars PROVE Checked'
    OBVIOUS
  <2>1. Tree
    BY DEF TypeOK, Tree
  <2>2. ASSUME UNCHANGED <<fs, op, held, shown>>
        PROVE  Checked'
    <3>1. \A t, c : Resolve(t, c)' = Resolve(t, c)
      BY <2>2, SameResolve
    <3> QED
      BY <2>2, <3>1 DEF Checked
  <2>3. ASSUME op' = "none"
        PROVE  Checked'
    BY <2>3 DEF Checked
  <2>4. ASSUME NEW t \in Targets, NEW cwd \in Projects, Stage(t, cwd)
        PROVE  Checked'
    BY <2>3, <2>4 DEF Stage, Idle
  <2>5. ASSUME NEW cwd \in Projects, BeginApply(cwd)
        PROVE  Checked'
    <3>1. /\ op' = "apply" /\ held' = shown.path /\ UNCHANGED <<fs, shown>>
          /\ shown # None /\ Resolve(shown.path, cwd) # None
          /\ Resolve(shown.path, cwd).path = shown.path
      BY <2>5 DEF BeginApply
    <3>2. shown.path \in Paths
      BY <3>1 DEF TypeOK, Resolution
    <3>3. shown.path # <<>>
      BY <2>1, <3>1, <3>2, ResolvedIsEntry
    <3>4. \A t, c : Resolve(t, c)' = Resolve(t, c)
      BY <3>1, SameResolve
    <3> QED
      BY <3>1, <3>2, <3>3, <3>4 DEF Checked
  <2>6. ASSUME NEW cwd \in Projects, BeginRollback(cwd)
        PROVE  Checked'
    <3> DEFINE r == Resolve(mutated, cwd)
    <3>1. /\ op' = "rollback" /\ held' = r.path /\ UNCHANGED fs
          /\ mutated # None /\ r # None
      BY <2>6 DEF BeginRollback
    <3>2. mutated \in Paths
      BY <3>1 DEF TypeOK
    <3>3. r.path \in Paths /\ r.path # <<>> /\ Resolve(r.path, cwd) = r
      BY <2>1, <3>1, <3>2, ResolveAgain, Accepted, RealProperties
    <3>4. \A t, c : Resolve(t, c)' = Resolve(t, c)
      BY <3>1, SameResolve
    <3> HIDE DEF r
    <3> QED
      BY <3>1, <3>3, <3>4 DEF Checked
  <2>7. ASSUME Install \/ Restore \/ Fail
        PROVE  Checked'
    BY <2>3, <2>7 DEF Install, Restore, Fail, Land
  <2>8. ASSUME Change
        PROVE  Checked'
    BY <2>3, <2>8 DEF Change, Idle
  <2>9. ASSUME NEW l \in Links, Relink(l[1], l[2])
        PROVE  Checked'
    BY <2>8, <2>9 DEF Relink
  <2>10. ASSUME NEW n \in Deletable, Delete(n)
         PROVE  Checked'
    BY <2>8, <2>10 DEF Delete
  <2>11. CASE UNCHANGED vars
    BY <2>2, <2>11 DEF vars
  <2> QED
    BY <2>4, <2>5, <2>6, <2>7, <2>9, <2>10, <2>11 DEF Next
<1> QED
  BY <1>1, <1>2, TypesKept, PTL DEF Spec

\* With nobody linking between a check and its write, what a command is about to
\* write lies in the allowlist of the home or a project, as they are now.
THEOREM AllowedHeld ==
  ASSUME RaceLinks = FALSE
  PROVE  Spec => []HeldIsAllowed
<1>1. TypeOK /\ Checked => HeldIsAllowed
  <2> SUFFICES ASSUME TypeOK, Checked, held # None
               PROVE  \E cwd \in Projects : Allowed(held, Real(ClaudeHome), Real(cwd))
    BY DEF HeldIsAllowed
  <2>1. Tree /\ op # "none"
    BY DEF TypeOK, Tree
  <2>2. held \in Paths
    BY DEF TypeOK
  <2>3. PICK cwd \in Projects : Resolve(held, cwd) # None /\ Resolve(held, cwd).path = held
    BY <2>1 DEF Checked
  <2>4. Real(held) = held
    BY <2>1, <2>2, <2>3, ResolvedIsEntry
  <2> QED
    BY <2>1, <2>2, <2>3, <2>4, AcceptedIsAllowed
<1> QED
  BY <1>1, TypesKept, CheckedKept, PTL

\* And the entry it changes is the one it checked: for an apply the one the user
\* was shown.  All else it does to the tree is make missing directories over it.
THEOREM LandsChecked ==
  ASSUME RaceLinks = FALSE
  PROVE  Spec => LandsWhereChecked
<1> DEFINE Lands ==
      op # "none" /\ op' = "none" =>
        \A n \in Nodes : fs'[n] # fs[n] =>
          \/ n = IF op = "apply" THEN shown.path ELSE held
          \/ fs[n] = Nothing /\ fs'[n] = Dir /\ Within(held, n)
<1>1. TypeOK /\ Checked /\ [Next]_vars => [Lands]_vars
  <2> SUFFICES ASSUME TypeOK, Checked, Next, op # "none", op' = "none"
               PROVE  \A n \in Nodes : fs'[n] # fs[n] =>
                        \/ n = IF op = "apply" THEN shown.path ELSE held
                        \/ fs[n] = Nothing /\ fs'[n] = Dir /\ Within(held, n)
    OBVIOUS
  <2>1. Tree
    BY DEF TypeOK, Tree
  <2>2. Entry(held) = held
    BY <2>1, ResolvedIsEntry DEF Checked
  <2>3. op = "apply" => shown.path = held
    BY DEF Checked
  <2>4. ASSUME CanWrite(held), NEW e, Put(held, e), NEW n \in Nodes, fs'[n] # fs[n], n # held
        PROVE  fs[n] = Nothing /\ fs'[n] = Dir /\ Within(held, n)
    <3>1. fs'[n] = Dir /\ Within(held, n)
      BY <2>2, <2>4 DEF Put
    <3>2. fs[n].type \in {"dir", "none"}
      BY <2>2, <2>4, <3>1 DEF CanWrite, TypeAt
    <3>3. fs[n] \in {Nothing, Dir}
      BY <2>1, <3>2 DEF Tree, Entries, File, Link
    <3> QED
      BY <2>4, <3>1, <3>3
  <2>5. CASE Install
    BY <2>3, <2>4, <2>5 DEF Install, Land
  <2>6. CASE Restore
    BY <2>3, <2>4, <2>6 DEF Restore, Land
  <2>7. CASE Fail
    BY <2>7 DEF Fail
  <2>8. ~ Change
    BY DEF Change, Idle
  <2> QED
    BY <2>5, <2>6, <2>7, <2>8 DEF Next, Stage, BeginApply, BeginRollback, Idle, Relink, Delete
<1> QED
  BY <1>1, TypesKept, CheckedKept, PTL DEF Spec, LandsWhereChecked

=============================================================================
