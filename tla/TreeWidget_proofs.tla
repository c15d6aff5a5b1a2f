-------------------------- MODULE TreeWidget_proofs --------------------------
(***************************************************************************)
(* Theorems about the tree, for any directory, any searches and loads that *)
(* fail or return entries from above, and windows of any height.           *)
(***************************************************************************)
EXTENDS TreeWidget, FiniteSetTheorems, SequenceTheorems, WellFoundedInduction, TLAPS

Label == DNs \cup {Group}

-----------------------------------------------------------------------------
(* Paths.                                                                    *)

LEMMA Labels == /\ Label \subseteq Nat /\ DNs \subseteq Nat /\ DNs \subseteq Label
                /\ Group \in Label /\ Group \notin DNs /\ RootDSE \notin DNs
                /\ Path = Seq(Label)
BY CountAssumption DEF Label, DNs, Group, RootDSE, Path

LEMMA Lengths ==
    ASSUME NEW p \in Path
    PROVE  Len(p) \in Nat /\ DOMAIN p = 1 .. Len(p) /\ \A i \in 1 .. Len(p) : p[i] \in Label /\ p[i] \in Nat
<1>1. p \in Seq(Label) /\ Label \subseteq Nat
  BY Labels
<1> HIDE DEF Label
<1>2. Len(p) \in Nat /\ DOMAIN p = 1 .. Len(p) /\ \A i \in 1 .. Len(p) : p[i] \in Label
  BY <1>1
<1> QED
  BY <1>1, <1>2

LEMMA SamePath ==
    ASSUME NEW p \in Path, NEW q \in Path, Len(p) = Len(q), \A i \in 1 .. Len(p) : p[i] = q[i]
    PROVE  p = q
BY Labels, SeqEqual

LEMMA RootIsPath == Root \in Path /\ Len(Root) = 0 /\ DOMAIN Root = {}
<1>1. Root \in Seq(Label) /\ Len(Root) = 0
  BY DEF Root
<1>2. DOMAIN Root = 1 .. 0
  BY <1>1
<1> QED
  BY <1>1, <1>2, Labels

\* What is on the way to a node.
LEMMA Prefix ==
    ASSUME NEW p \in Path, NEW i \in 0 .. Len(p)
    PROVE  /\ SubSeq(p, 1, i) \in Path /\ Len(SubSeq(p, 1, i)) = i
           /\ \A k \in 1 .. i : SubSeq(p, 1, i)[k] = p[k]
<1>1. \A k \in 1 .. i : p[k] \in Label
  BY Lengths
<1>2. 1 \in Int /\ i \in Int /\ i - 1 + 1 = i
  BY Lengths
<1>3. /\ SubSeq(p, 1, i) \in Seq(Label)
      /\ Len(SubSeq(p, 1, i)) = IF 1 <= i THEN i - 1 + 1 ELSE 0
      /\ \A k \in 1 .. i - 1 + 1 : SubSeq(p, 1, i)[k] = p[1 + k - 1]
  BY <1>1, <1>2, SubSeqProperties
<1> QED
  BY <1>2, <1>3, Labels

LEMMA PrefixOfPrefix ==
    ASSUME NEW p \in Path, NEW i \in 0 .. Len(p), NEW k \in 0 .. i
    PROVE  SubSeq(SubSeq(p, 1, i), 1, k) = SubSeq(p, 1, k)
<1> DEFINE q == SubSeq(p, 1, i)
<1>1. q \in Path /\ Len(q) = i /\ \A j \in 1 .. i : q[j] = p[j]
  BY Prefix
<1>2. k \in 0 .. Len(p) /\ k \in 0 .. Len(q)
  BY <1>1, Lengths
<1> HIDE DEF q
<1>3. SubSeq(q, 1, k) \in Path /\ Len(SubSeq(q, 1, k)) = k /\ \A j \in 1 .. k : SubSeq(q, 1, k)[j] = q[j]
  BY <1>1, <1>2, Prefix
<1>4. SubSeq(p, 1, k) \in Path /\ Len(SubSeq(p, 1, k)) = k /\ \A j \in 1 .. k : SubSeq(p, 1, k)[j] = p[j]
  BY <1>2, Prefix
<1>5. SubSeq(q, 1, k) = SubSeq(p, 1, k)
  BY <1>1, <1>3, <1>4, SamePath
<1> QED
  BY <1>5 DEF q

LEMMA FullPrefix == ASSUME NEW p \in Path PROVE SubSeq(p, 1, Len(p)) = p
<1>1. Len(p) \in 0 .. Len(p)
  BY Lengths
<1> QED
  BY <1>1, Prefix, SamePath

LEMMA Child ==
    ASSUME NEW p \in Path, NEW d \in Label
    PROVE  LET q == Append(p, d) IN
           /\ q \in Path /\ Len(q) = Len(p) + 1 /\ q[Len(p) + 1] = d
           /\ \A i \in 1 .. Len(p) : q[i] = p[i]
           /\ \A i \in 0 .. Len(p) : SubSeq(q, 1, i) = SubSeq(p, 1, i)
           /\ Up(q) = p
<1> DEFINE q == Append(p, d)
<1>1. /\ q \in Path /\ Len(q) = Len(p) + 1 /\ q[Len(p) + 1] = d
      /\ \A i \in 1 .. Len(p) : q[i] = p[i]
  BY Labels, AppendProperties
<1> HIDE DEF q
<1>2. ASSUME NEW i \in 0 .. Len(p) PROVE SubSeq(q, 1, i) = SubSeq(p, 1, i)
  <2>1. i \in 0 .. Len(q)
    BY <1>1, Lengths
  <2>2. SubSeq(p, 1, i) \in Path /\ Len(SubSeq(p, 1, i)) = i /\ \A k \in 1 .. i : SubSeq(p, 1, i)[k] = p[k]
    BY Prefix
  <2>3. SubSeq(q, 1, i) \in Path /\ Len(SubSeq(q, 1, i)) = i /\ \A k \in 1 .. i : SubSeq(q, 1, i)[k] = q[k]
    BY <1>1, <2>1, Prefix
  <2>4. \A k \in 1 .. i : k \in 1 .. Len(p)
    BY Lengths
  <2> QED
    BY <1>1, <2>2, <2>3, <2>4, SamePath
<1>3. Up(q) = p
  <2>1. Len(p) \in 0 .. Len(p) /\ Len(q) - 1 = Len(p)
    BY <1>1, Lengths
  <2> QED
    BY <1>2, <2>1, FullPrefix DEF Up
<1> QED
  BY <1>1, <1>2, <1>3 DEF q

-----------------------------------------------------------------------------
(* The order of the lines.                                                   *)

LEMMA LeastNatural ==
    ASSUME NEW S \in SUBSET Nat, S # {}
    PROVE  \E n \in S : \A m \in S : n <= m
<1> DEFINE lower == OpToRel(<, Nat)
<1>1. IsWellFoundedOn(lower, Nat)
  BY NatLessThanWellFounded
<1>2. \A m, n \in Nat : m < n => <<m, n>> \in lower
  BY DEF OpToRel
<1> HIDE DEF lower
<1>3. PICK n \in S : \A m \in S : ~(<<m, n>> \in lower)
  BY <1>1, WFMin
<1>4. \A m \in S : m \in Nat /\ n \in Nat /\ ~(m < n)
  BY <1>2, <1>3
<1> QED
  BY <1>4

LEMMA NotBeforeItself == ASSUME NEW p \in Path PROVE ~Before(p, p)
BY Lengths DEF Before

LEMMA BeforeIsTransitive ==
    ASSUME NEW p \in Path, NEW q \in Path, NEW r \in Path, Before(p, q), Before(q, r)
    PROVE  Before(p, r)
<1>1. PICK i \in DOMAIN q : /\ i > Len(p) \/ p[i] < q[i]
                            /\ i - 1 <= Len(p) /\ \A j \in 1 .. i - 1 : p[j] = q[j]
  BY DEF Before
<1>2. PICK k \in DOMAIN r : /\ k > Len(q) \/ q[k] < r[k]
                            /\ k - 1 <= Len(q) /\ \A j \in 1 .. k - 1 : q[j] = r[j]
  BY DEF Before
<1>3. /\ i \in 1 .. Len(q) /\ k \in 1 .. Len(r)
      /\ Len(p) \in Nat /\ Len(q) \in Nat /\ Len(r) \in Nat
      /\ DOMAIN r = 1 .. Len(r)
  BY <1>1, <1>2, Lengths
<1>4. CASE i < k
  <2>1. i \in DOMAIN r /\ q[i] = r[i]
    BY <1>2, <1>3, <1>4
  <2>2. i > Len(p) \/ p[i] < r[i]
    BY <1>1, <2>1
  <2>3. \A j \in 1 .. i - 1 : p[j] = r[j]
    BY <1>1, <1>2, <1>3, <1>4
  <2> QED
    BY <1>1, <2>1, <2>2, <2>3 DEF Before
<1>5. CASE i >= k
  <2>1. k \in 1 .. Len(q) /\ q[k] < r[k] /\ k - 1 <= Len(p)
    BY <1>1, <1>2, <1>3, <1>5
  <2>2. \A j \in 1 .. k - 1 : p[j] = r[j]
    BY <1>1, <1>2, <1>3, <1>5
  <2>3. k > Len(p) \/ p[k] < r[k]
    <3>1. CASE k > Len(p)
      BY <3>1
    <3>2. CASE k <= Len(p)
      <4>1. p[k] \in Nat /\ q[k] \in Nat /\ r[k] \in Nat
        BY <1>3, <2>1, <3>2, Lengths
      <4>2. p[k] <= q[k]
        BY <1>1, <1>3, <1>5, <3>2, <4>1
      <4> QED
        BY <2>1, <4>1, <4>2
    <3> QED
      BY <1>3, <3>1, <3>2
  <2> QED
    BY <1>2, <2>1, <2>2, <2>3 DEF Before
<1> QED
  BY <1>3, <1>4, <1>5

LEMMA BeforeIsTotal ==
    ASSUME NEW p \in Path, NEW q \in Path, p # q
    PROVE  Before(p, q) \/ Before(q, p)
<1> DEFINE Parts == {i \in Nat \ {0} : i > Len(p) \/ i > Len(q) \/ p[i] # q[i]}
<1>1. Len(p) \in Nat /\ Len(q) \in Nat /\ DOMAIN p = 1 .. Len(p) /\ DOMAIN q = 1 .. Len(q)
  BY Lengths
<1>2. Len(p) + 1 \in Parts /\ Parts \in SUBSET Nat
  BY <1>1
<1>3. PICK i \in Parts : \A j \in Parts : i <= j
  <2> HIDE DEF Parts
  <2> QED
    BY <1>2, LeastNatural
<1>4. i \in Nat \ {0} /\ i - 1 <= Len(p) /\ i - 1 <= Len(q) /\ \A j \in 1 .. i - 1 : p[j] = q[j]
  BY <1>1, <1>3
<1> HIDE DEF Parts
<1>5. CASE i > Len(p) /\ i > Len(q)
  <2>1. ASSUME NEW a \in Nat, NEW b \in Nat, NEW k \in Nat, k > a, k > b, k - 1 <= a, k - 1 <= b
        PROVE  a = b /\ a = k - 1
    BY <2>1
  <2>2. Len(p) = Len(q) /\ Len(p) = i - 1
    BY <1>1, <1>4, <1>5, <2>1
  <2> QED
    BY <1>4, <2>2, SamePath
<1>6. CASE i > Len(p) /\ i <= Len(q)
  BY <1>1, <1>4, <1>6 DEF Before
<1>7. CASE i <= Len(p) /\ i > Len(q)
  BY <1>1, <1>4, <1>7 DEF Before
<1>8. CASE i <= Len(p) /\ i <= Len(q)
  <2>1. p[i] # q[i] /\ p[i] \in Nat /\ q[i] \in Nat
    BY <1>1, <1>3, <1>4, <1>8, Lengths DEF Parts
  <2>2. p[i] < q[i] \/ q[i] < p[i]
    BY <2>1
  <2> QED
    BY <1>1, <1>4, <1>8, <2>2 DEF Before
<1> QED
  BY <1>1, <1>4, <1>5, <1>6, <1>7, <1>8

LEMMA IndexInRange ==
    ASSUME NEW S \in SUBSET Path, IsFiniteSet(S), NEW p \in S
    PROVE  Cardinality(S) \in Nat /\ Index(p, S) \in 0 .. Cardinality(S) - 1
<1> DEFINE before == {q \in S : Before(q, p)}
<1>1. before \in SUBSET (S \ {p})
  BY NotBeforeItself
<1>2. IsFiniteSet(S \ {p}) /\ Cardinality(S \ {p}) = Cardinality(S) - 1
  BY FS_RemoveElement
<1> HIDE DEF before
<1>3. Cardinality(before) \in Nat /\ Cardinality(before) <= Cardinality(S) - 1
  BY <1>1, <1>2, FS_Subset, FS_CardinalityType
<1>4. Cardinality(S) \in Nat
  BY FS_CardinalityType
<1> QED
  BY <1>3, <1>4 DEF Index, before

\* There is a node on each line: the lines of the nodes differ, so by the pigeonhole
\* principle they are all the lines.
LEMMA NodeAtIsNode ==
    ASSUME NEW S \in SUBSET Path, IsFiniteSet(S), NEW i \in 0 .. Cardinality(S) - 1
    PROVE  NodeAt(i, S) \in S /\ Index(NodeAt(i, S), S) = i
<1> DEFINE n == Cardinality(S)
<1> DEFINE Others == (0 .. n - 1) \ {i}
<1> DEFINE line == [p \in S |-> Index(p, S)]
<1> DEFINE before(p) == {q \in S : Before(q, p)}
<1>1. n \in Nat
  BY FS_CardinalityType
<1>2. ASSUME NEW q \in S, NEW p \in S, Before(q, p) PROVE line[q] # line[p]
  <2>1. before(q) \in SUBSET before(p)
    BY <1>2, BeforeIsTransitive
  <2>2. q \in before(p) /\ q \notin before(q)
    BY <1>2, NotBeforeItself
  <2>3. IsFiniteSet(before(p))
    BY FS_Subset
  <2>4. Cardinality(before(p)) # Cardinality(before(q))
    BY <2>1, <2>2, <2>3, FS_Subset
  <2> QED
    BY <2>4 DEF Index
<1>3. \A p, q \in S : p # q => line[p] # line[q]
  BY <1>2, BeforeIsTotal
<1>4. \E p \in S : line[p] = i
  <2> SUFFICES ASSUME \A p \in S : line[p] # i PROVE FALSE
    OBVIOUS
  <2>1. line \in [S -> Others]
    BY IndexInRange
  <2>2. IsFiniteSet(Others) /\ Cardinality(Others) = n - 1
    <3> HIDE DEF n
    <3>1. n \in Nat /\ i \in 0 .. n - 1
      BY <1>1 DEF n
    <3>2. 0 \in Int /\ n - 1 \in Int
      BY <3>1
    <3>3. /\ IsFiniteSet(0 .. n - 1)
          /\ Cardinality(0 .. n - 1) = IF 0 > n - 1 THEN 0 ELSE n - 1 - 0 + 1
      BY ONLY <3>2, FS_Interval
    <3>4. Cardinality(0 .. n - 1) = n
      BY <3>1, <3>3
    <3>5. /\ IsFiniteSet((0 .. n - 1) \ {i})
          /\ Cardinality((0 .. n - 1) \ {i}) =
               IF i \in 0 .. n - 1 THEN Cardinality(0 .. n - 1) - 1 ELSE Cardinality(0 .. n - 1)
      BY <3>3, FS_RemoveElement
    <3> QED
      BY <3>1, <3>4, <3>5
  <2>3. \E p, q \in S : p # q /\ line[p] = line[q]
    <3>1. IsFiniteSet(S) /\ n \in Nat
      BY <1>1
    <3> HIDE DEF line, Others
    <3>2. Cardinality(Others) < n
      BY <1>1, <2>2
    <3> QED
      BY <2>1, <2>2, <3>1, <3>2, FS_PigeonHole
  <2> QED
    BY <1>3, <2>3
<1>5. \E p \in S : Index(p, S) = i
  BY <1>4
<1> QED
  BY <1>5 DEF NodeAt

-----------------------------------------------------------------------------
(* Trees: with a node, all the nodes on the way to it are there.             *)

Closed(all) == \A p \in all : \A i \in 0 .. Len(p) : SubSeq(p, 1, i) \in all

Tree(n) ==
    /\ n \in [all : SUBSET Path, hasChildren : SUBSET Path, expanded : SUBSET Path]
    /\ IsFiniteSet(n.all) /\ Root \in n.all /\ Closed(n.all)
    /\ n.hasChildren \subseteq n.all /\ n.expanded \subseteq n.all

LEMMA NoWayToRoot == 0 .. Len(Root) - 1 = {} /\ DnsAbove(Root) = {}
<1>1. 0 .. Len(Root) - 1 = {}
  BY RootIsPath
<1> QED
  BY <1>1 DEF DnsAbove

LEMMA RootPrefix == ASSUME NEW p \in Path PROVE SubSeq(p, 1, 0) = Root
<1>1. 0 \in 0 .. Len(p)
  BY Lengths
<1>2. SubSeq(p, 1, 0) \in Path /\ Len(SubSeq(p, 1, 0)) = 0
  BY <1>1, Prefix
<1> QED
  BY <1>2, RootIsPath, SamePath

LEMMA EmptyIsRoot == ASSUME NEW p \in Path PROVE p = Root <=> Len(p) = 0
BY RootIsPath, SamePath

LEMMA VisibleNodes ==
    ASSUME NEW n, Tree(n)
    PROVE  Visible(n) \in SUBSET Path /\ Visible(n) \subseteq n.all /\ IsFiniteSet(Visible(n)) /\ Root \in Visible(n)
<1>1. Visible(n) \subseteq n.all
  BY DEF Visible
<1>2. IsFiniteSet(Visible(n))
  BY <1>1, FS_Subset DEF Tree
<1>3. Root \in Visible(n)
  BY NoWayToRoot DEF Tree, Visible
<1> QED
  BY <1>1, <1>2, <1>3 DEF Tree

LEMMA OnlyRootVisible ==
    ASSUME NEW n, Tree(n), Root \notin n.expanded
    PROVE  Visible(n) = {Root}
<1>1. ASSUME NEW p \in Visible(n), p # Root PROVE FALSE
  <2>1. p \in Path /\ \A i \in 0 .. Len(p) - 1 : SubSeq(p, 1, i) \in n.expanded
    BY DEF Visible, Tree
  <2>2. 0 \in 0 .. Len(p) - 1
    BY <1>1, <2>1, Lengths, EmptyIsRoot
  <2> QED
    BY <2>1, <2>2, RootPrefix
<1> QED
  BY <1>1, VisibleNodes

\* Up and IsAbove, in terms of what is on the way.
LEMMA AboveIsPrefix ==
    ASSUME NEW p \in Path, NEW q \in Path, IsAbove(p, q)
    PROVE  Len(p) \in 0 .. Len(q) - 1 /\ SubSeq(q, 1, Len(p)) = p
<1>1. Len(p) < Len(q) /\ \A i \in 1 .. Len(p) : p[i] = q[i]
  BY Lengths DEF IsAbove
<1>2. Len(p) \in 0 .. Len(q) - 1 /\ Len(p) \in 0 .. Len(q)
  BY <1>1, Lengths
<1> DEFINE r == SubSeq(q, 1, Len(p))
<1>3. r \in Path /\ Len(r) = Len(p) /\ \A i \in 1 .. Len(p) : r[i] = q[i]
  BY <1>2, Prefix
<1> HIDE DEF r
<1>4. r = p
  BY <1>1, <1>3, SamePath
<1> QED
  BY <1>2, <1>4 DEF r

LEMMA BelowPrefix ==
    ASSUME NEW p \in Path, NEW q \in Path, NEW i \in 0 .. Len(q), IsAbove(p, SubSeq(q, 1, i))
    PROVE  IsAbove(p, q)
<1>1. Len(p) \in Nat /\ Len(q) \in Nat /\ DOMAIN p = 1 .. Len(p)
  BY Lengths
<1>2. Len(SubSeq(q, 1, i)) = i /\ \A k \in 1 .. i : SubSeq(q, 1, i)[k] = q[k]
  BY Prefix
<1>3. Len(p) < i /\ \A k \in 1 .. Len(p) : p[k] = SubSeq(q, 1, i)[k]
  BY <1>1, <1>2 DEF IsAbove
<1>4. \A k \in 1 .. Len(p) : k \in 1 .. i
  BY <1>1, <1>3
<1> QED
  BY <1>1, <1>2, <1>3, <1>4 DEF IsAbove

LEMMA NotAboveShorter ==
    ASSUME NEW p \in Path, NEW i \in 0 .. Len(p)
    PROVE  ~IsAbove(p, SubSeq(p, 1, i))
BY Lengths, Prefix DEF IsAbove

-----------------------------------------------------------------------------
(* Loading the children of a node.                                           *)

DNsOrRoot == DNs \cup {RootDSE}

\* The new entries a load of p with the DN dn may bring.
NewBelow(p, dn) == DNs \ ({dn} \cup DnsAbove(p))

\* What a load of the children of p with DNs D makes of n, but for hasChildren.
Grown(m, n, p, D) ==
    /\ m \in [all : SUBSET Path, hasChildren : SUBSET Path, expanded : SUBSET Path]
    /\ m.all = {q \in n.all : ~IsAbove(p, q)} \cup {Append(p, d) : d \in D}
    /\ m.hasChildren \subseteq m.all
    /\ m.expanded = {q \in n.expanded : ~IsAbove(p, q)}

LEMMA DNsAreFinite == IsFiniteSet(DNs) /\ \A D \in SUBSET DNs : IsFiniteSet(D)
<1>1. 1 \in Int /\ Count \in Int
  BY CountAssumption
<1>2. IsFiniteSet(DNs)
  BY <1>1, FS_Interval DEF DNs
<1> QED
  BY <1>2, FS_Subset

LEMMA ChildrenArePaths ==
    ASSUME NEW p \in Path, NEW D \in SUBSET DNs
    PROVE  {Append(p, d) : d \in D} \in SUBSET Path /\ IsFiniteSet({Append(p, d) : d \in D})
<1>1. ASSUME NEW d \in D PROVE Append(p, d) \in Path
  BY Child, Labels
<1>2. IsFiniteSet({Append(p, d) : d \in D})
  <2> DEFINE T == {Append(p, d) : d \in D}
  <2> DEFINE f == [d \in D |-> Append(p, d)]
  <2>1. f \in Surjection(D, T)
    BY DEF Surjection
  <2>2. IsFiniteSet(D)
    BY DNsAreFinite
  <2> HIDE DEF f, T
  <2>3. IsFiniteSet(T)
    BY <2>1, <2>2, FS_Surjection
  <2> QED
    BY <2>3 DEF T
<1> QED
  BY <1>1, <1>2

LEMMA GrownIsTree ==
    ASSUME NEW n, Tree(n), NEW p \in n.all, NEW D \in SUBSET DNs, NEW m, Grown(m, n, p, D)
    PROVE  Tree(m)
<1> DEFINE kept == {q \in n.all : ~IsAbove(p, q)}
<1> DEFINE new == {Append(p, d) : d \in D}
<1>1. n.all \in SUBSET Path /\ IsFiniteSet(n.all) /\ Root \in n.all /\ Closed(n.all) /\ n.expanded \subseteq n.all
  BY DEF Tree
<1>2. new \in SUBSET Path /\ IsFiniteSet(new)
  BY <1>1, ChildrenArePaths
<1>3. m.all = kept \cup new
  BY DEF Grown
<1>4. IsFiniteSet(m.all)
  <2>1. IsFiniteSet(kept)
    BY <1>1, FS_Subset
  <2> HIDE DEF kept, new
  <2> QED
    BY <1>2, <1>3, <2>1, FS_Union
<1>5. Root \in kept
  <2>1. ~IsAbove(p, Root)
    BY <1>1, RootIsPath, Lengths DEF IsAbove
  <2> QED
    BY <1>1, <2>1
<1>6. ASSUME NEW q \in m.all, NEW i \in 0 .. Len(q) PROVE SubSeq(q, 1, i) \in m.all
  <2>1. CASE q \in kept
    <3>1. SubSeq(q, 1, i) \in n.all /\ ~IsAbove(p, SubSeq(q, 1, i))
      BY <1>1, <2>1, BelowPrefix DEF Closed
    <3> QED
      BY <1>3, <3>1
  <2>2. CASE q \in new
    <3>1. PICK d \in D : q = Append(p, d)
      BY <2>2
    <3>2. /\ q \in Path /\ Len(q) = Len(p) + 1 /\ Len(p) \in Nat
          /\ \A k \in 0 .. Len(p) : SubSeq(q, 1, k) = SubSeq(p, 1, k)
      BY <1>1, <3>1, Child, Labels, Lengths
    <3>3. CASE i = Len(q)
      BY <1>3, <2>2, <3>2, <3>3, FullPrefix
    <3>4. CASE i # Len(q)
      <4>1. i \in 0 .. Len(p)
        BY <3>2, <3>4
      <4>2. SubSeq(p, 1, i) \in n.all /\ ~IsAbove(p, SubSeq(p, 1, i))
        BY <1>1, <4>1, NotAboveShorter DEF Closed
      <4> QED
        BY <1>3, <3>2, <4>1, <4>2
    <3> QED
      BY <3>3, <3>4
  <2> QED
    BY <1>3, <2>1, <2>2
<1>7. m.expanded \subseteq m.all
  BY <1>1, <1>3 DEF Grown
<1> QED
  BY <1>3, <1>4, <1>5, <1>6, <1>7 DEF Tree, Closed, Grown

\* A load of a node that is not expanded shows nothing yet and hides nothing.
LEMMA GrownIsHidden ==
    ASSUME NEW n, Tree(n), NEW p \in n.all \ n.expanded, NEW D \in SUBSET DNs,
           NEW m, Grown(m, n, p, D)
    PROVE  Visible(m) = Visible(n)
<1>1. /\ n.all \in SUBSET Path /\ p \in Path
      /\ m.all = {q \in n.all : ~IsAbove(p, q)} \cup {Append(p, d) : d \in D}
      /\ m.expanded = {q \in n.expanded : ~IsAbove(p, q)}
  BY DEF Tree, Grown
<1>2. ASSUME NEW q \in Visible(n) PROVE q \in Visible(m)
  <2>1. q \in n.all /\ q \in Path /\ \A i \in 0 .. Len(q) - 1 : SubSeq(q, 1, i) \in n.expanded
    BY <1>1 DEF Visible
  <2>2. ASSUME IsAbove(p, q) PROVE FALSE
    <3>1. Len(p) \in 0 .. Len(q) - 1 /\ SubSeq(q, 1, Len(p)) = p
      BY <1>1, <2>1, <2>2, AboveIsPrefix
    <3> QED
      BY <2>1, <3>1
  <2>3. ASSUME NEW i \in 0 .. Len(q) - 1 PROVE SubSeq(q, 1, i) \in m.expanded
    <3>1. i \in 0 .. Len(q)
      BY <2>1, Lengths
    <3> QED
      BY <1>1, <2>1, <2>2, <3>1, BelowPrefix
  <2> QED
    BY <1>1, <2>1, <2>2, <2>3 DEF Visible
<1>3. ASSUME NEW q \in Visible(m) PROVE q \in Visible(n)
  <2>1. q \in m.all /\ \A i \in 0 .. Len(q) - 1 : SubSeq(q, 1, i) \in n.expanded
    BY <1>1, <1>3 DEF Visible
  <2>2. ASSUME NEW d \in D, q = Append(p, d) PROVE FALSE
    <3>1. Len(q) = Len(p) + 1 /\ Len(p) \in 0 .. Len(p) /\ SubSeq(q, 1, Len(p)) = SubSeq(p, 1, Len(p))
      BY <1>1, <2>2, Child, Labels, Lengths
    <3>2. Len(p) \in 0 .. Len(q) - 1 /\ SubSeq(q, 1, Len(p)) = p
      BY <1>1, <3>1, FullPrefix
    <3> QED
      BY <2>1, <3>2
  <2> QED
    BY <1>1, <2>1, <2>2 DEF Visible
<1> QED
  BY <1>2, <1>3

LEMMA ResultsAreEntries == ASSUME NEW dn \in DNsOrRoot
                           PROVE  under[dn] \subseteq DNs /\ subtree[dn] \subseteq DNs
BY DEF DNsOrRoot, under, subtree

LEMMA WithChildrenIsGrown ==
    ASSUME NEW n, Tree(n), NEW p \in n.all, NEW D \in SUBSET DNs, NEW marked \in SUBSET {p}
    PROVE  Grown(WithChildren(Without(n, {q \in n.all : IsAbove(p, q)}), p, D, marked), n, p, D)
<1> DEFINE bare == Without(n, {q \in n.all : IsAbove(p, q)})
           kids == {Append(p, d) : d \in D}
<1>1. /\ n.all \in SUBSET Path /\ n.hasChildren \subseteq n.all /\ n.expanded \subseteq n.all
      /\ p \in Path
  BY DEF Tree
<1>2. ~IsAbove(p, p)
  BY <1>1, Lengths DEF IsAbove
<1>3. /\ bare.all = {q \in n.all : ~IsAbove(p, q)} /\ bare.all \subseteq n.all
      /\ bare.hasChildren \subseteq bare.all
      /\ bare.expanded = {q \in n.expanded : ~IsAbove(p, q)}
      /\ p \in bare.all
  BY <1>1, <1>2 DEF Without
<1>4. kids \in SUBSET Path
  BY <1>1, ChildrenArePaths
<1> DEFINE m == WithChildren(bare, p, D, marked)
<1>5. m = [all |-> bare.all \cup kids, hasChildren |-> (bare.hasChildren \ {p}) \cup kids \cup marked,
           expanded |-> bare.expanded]
  BY DEF WithChildren
<1> HIDE DEF bare, kids, m
<1>6. /\ m.all = bare.all \cup kids /\ m.expanded = bare.expanded
      /\ m.hasChildren \subseteq m.all
      /\ m \in [all : SUBSET Path, hasChildren : SUBSET Path, expanded : SUBSET Path]
  BY <1>1, <1>3, <1>4, <1>5
<1>7. Grown(m, n, p, D)
  BY <1>3, <1>6 DEF Grown, kids
<1> QED
  BY <1>7 DEF m, bare

LEMMA LoadedNormalIsGrown ==
    ASSUME NEW n, Tree(n), NEW p \in n.all, NEW dn \in DNsOrRoot, NEW m \in LoadedNormal(n, p, dn)
    PROVE  \E D \in SUBSET NewBelow(p, dn) : Grown(m, n, p, D)
<1> DEFINE bare == Without(n, {q \in n.all : IsAbove(p, q)})
           mark(results) == IF results = {} THEN {} ELSE {p}
<1>1. \/ m = WithChildren(bare, p, {}, {})
      \/ \E results \in Answers(p, dn) :
            m = WithChildren(bare, p, Children(p, dn, results), mark(results))
  BY DEF LoadedNormal
<1>2. CASE m = WithChildren(bare, p, {}, {})
  <2>1. Grown(m, n, p, {})
    BY <1>2, WithChildrenIsGrown
  <2> QED
    BY <2>1
<1>3. ASSUME NEW results \in Answers(p, dn),
             m = WithChildren(bare, p, Children(p, dn, results), mark(results))
      PROVE  \E D \in SUBSET NewBelow(p, dn) : Grown(m, n, p, D)
  <2> DEFINE D == Children(p, dn, results)
  <2>1. results \in SUBSET DNs
    BY ResultsAreEntries DEF Answers
  <2>2. D \in SUBSET NewBelow(p, dn) /\ D \in SUBSET DNs
    BY <2>1 DEF Children, NewBelow
  <2>3. mark(results) \in SUBSET {p}
    OBVIOUS
  <2>4. m = WithChildren(bare, p, D, mark(results))
    BY <1>3
  <2> HIDE DEF D, mark
  <2>5. Grown(m, n, p, D)
    BY <2>2, <2>3, <2>4, WithChildrenIsGrown
  <2> QED
    BY <2>2, <2>5
<1> QED
  BY <1>1, <1>2, <1>3

LEMMA LoadedRootDSEIsGrown ==
    ASSUME NEW n, Tree(n), NEW m \in LoadedRootDSE(n)
    PROVE  \E D \in SUBSET NewBelow(Root, RootDSE) : Grown(m, n, Root, D)
<1> DEFINE kids(contexts) == {<<d>> : d \in contexts}
           tree(contexts, readable) ==
            [all |-> {Root} \cup kids(contexts),
             hasChildren |-> kids(readable) \cup (IF contexts = {} THEN {} ELSE {Root}),
             expanded |-> n.expanded \cap {Root}]
<1>1. n.all \in SUBSET Path /\ n.expanded \subseteq n.all /\ Root \in n.all /\ Root \in Path
  BY DEF Tree
<1>2. under[RootDSE] \in SUBSET NewBelow(Root, RootDSE) /\ under[RootDSE] \subseteq DNs
  BY ResultsAreEntries, NoWayToRoot, Labels DEF NewBelow, DNsOrRoot
<1>3. PICK D \in SUBSET under[RootDSE], r \in SUBSET under[RootDSE] : r \subseteq D /\ m = tree(D, r)
  <2>1. m = tree({}, {}) \/ \E r \in SUBSET under[RootDSE] : m = tree(under[RootDSE], r)
    BY DEF LoadedRootDSE
  <2> QED
    BY <2>1
<1>4. kids(D) = {Append(Root, d) : d \in D}
  BY DEF Root
<1>5. \A q \in Path : IsAbove(Root, q) <=> q # Root
  <2>1. ASSUME NEW q \in Path PROVE IsAbove(Root, q) <=> q # Root
    BY RootIsPath, EmptyIsRoot, Lengths DEF IsAbove
  <2> QED
    BY <2>1
<1>6. {q \in n.all : ~IsAbove(Root, q)} = {Root} /\ {q \in n.expanded : ~IsAbove(Root, q)} = n.expanded \cap {Root}
  BY <1>1, <1>5
<1>7. kids(D) \in SUBSET Path /\ kids(r) \subseteq kids(D)
  <2>1. D \in SUBSET DNs
    BY <1>2
  <2>2. {Append(Root, d) : d \in D} \in SUBSET Path
    BY <1>1, <2>1, ChildrenArePaths
  <2>3. kids(D) \in SUBSET Path
    BY <1>4, <2>2
  <2>4. kids(r) \subseteq kids(D)
    BY <1>3
  <2> QED
    BY <2>3, <2>4
<1> DEFINE kd == kids(D)
           kr == kids(r)
           mark == IF D = {} THEN {} ELSE {Root}
<1>8. mark \subseteq {Root} /\ kd \in SUBSET Path /\ kr \subseteq kd
  BY <1>7
<1>9. m = [all |-> {Root} \cup kd, hasChildren |-> kr \cup mark, expanded |-> n.expanded \cap {Root}]
  BY <1>3
<1> HIDE DEF kd, kr, mark, kids
<1>10. /\ m.all = {Root} \cup kd /\ m.expanded = n.expanded \cap {Root}
       /\ m.hasChildren \subseteq m.all
       /\ m \in [all : SUBSET Path, hasChildren : SUBSET Path, expanded : SUBSET Path]
  BY <1>1, <1>8, <1>9
<1> QED
  BY <1>2, <1>3, <1>4, <1>6, <1>10 DEF Grown, kd

LEMMA LoadedIsGrown ==
    ASSUME NEW n, Tree(n), NEW p \in n.all, NEW dn \in DNsOrRoot, NEW m \in Loaded(n, p, dn)
    PROVE  \E D \in SUBSET NewBelow(p, dn) : Grown(m, n, p, D)
BY LoadedNormalIsGrown, LoadedRootDSEIsGrown DEF Loaded

-----------------------------------------------------------------------------
(* No entry below itself, and one group.                                     *)

\* The DN of a node is none of those above it, root being that of the root.
Fresh(n, root) ==
    \A p \in n.all : p # Root /\ ~IsVirtual(p) =>
        p[Len(p)] # root /\ \A i \in 1 .. Len(p) - 1 : p[i] # p[Len(p)]

IsGroup(p) == p # Root /\ p[Len(p)] = Group
Single(n) == \A p, q \in n.all : IsGroup(p) /\ IsGroup(q) => p = q

LEMMA DnsOfPath ==
    ASSUME NEW p \in Path, p # Root, ~IsVirtual(p)
    PROVE  /\ Len(p) \in 1 .. Len(p)
           /\ \A i \in 1 .. Len(p) : p[i] \in DNs /\ DnOf(SubSeq(p, 1, i)) = p[i]
           /\ DnOf(SubSeq(p, 1, 0)) = rootDN
           /\ DnOf(p) = p[Len(p)]
<1>1. Len(p) \in 1 .. Len(p) /\ DOMAIN p = 1 .. Len(p)
  BY Lengths, EmptyIsRoot
<1>2. \A i \in 1 .. Len(p) : p[i] \in DNs /\ p[i] # Group
  BY <1>1, Lengths DEF IsVirtual, Label
<1>3. ASSUME NEW i \in 1 .. Len(p) PROVE DnOf(SubSeq(p, 1, i)) = p[i]
  <2> DEFINE q == SubSeq(p, 1, i)
  <2>1. i \in 0 .. Len(p) /\ i \in 1 .. i
    BY Lengths
  <2>2. q \in Path /\ Len(q) = i /\ q[i] = p[i]
    BY <2>1, Prefix
  <2> HIDE DEF q
  <2>3. q # Root
    BY <2>1, <2>2, RootIsPath
  <2>4. DnOf(q) = p[i]
    BY <1>2, <2>2, <2>3 DEF DnOf
  <2> QED
    BY <2>4 DEF q
<1>4. DnOf(SubSeq(p, 1, 0)) = rootDN
  BY RootPrefix DEF DnOf
<1>5. DnOf(p) = p[Len(p)]
  BY <1>1, <1>2 DEF DnOf
<1> QED
  BY <1>1, <1>2, <1>3, <1>4, <1>5

LEMMA LoadedIsFresh ==
    ASSUME NEW n, Tree(n), NEW p \in n.all, NEW root, NEW dn, NEW D \in SUBSET NewBelow(p, dn),
           NEW m, Grown(m, n, p, D), Fresh(n, root),
           (p = Root /\ dn = root) \/ (p # Root /\ dn = DnOf(p) /\ root = rootDN)
    PROVE  Fresh(m, root)
<1> SUFFICES ASSUME NEW q \in m.all, q # Root, ~IsVirtual(q)
             PROVE  q[Len(q)] # root /\ \A i \in 1 .. Len(q) - 1 : q[i] # q[Len(q)]
  BY DEF Fresh
<1>1. p \in Path /\ D \in SUBSET DNs
  BY DEF Tree, NewBelow
<1>2. CASE q \in n.all
  BY <1>2 DEF Fresh
<1>3. ASSUME NEW d \in D, q = Append(p, d)
      PROVE  q[Len(q)] # root /\ \A i \in 1 .. Len(q) - 1 : q[i] # q[Len(q)]
  <2>1. /\ q \in Path /\ Len(q) = Len(p) + 1 /\ Len(p) \in Nat /\ q[Len(q)] = d
        /\ Len(q) - 1 = Len(p)
        /\ \A i \in 1 .. Len(p) : q[i] = p[i]
    BY <1>1, <1>3, Child, Labels, Lengths
  <2>2. d # dn /\ d \notin DnsAbove(p)
    BY DEF NewBelow
  <2>3. CASE p = Root
    <3>1. 1 .. Len(p) = {}
      BY <2>3, RootIsPath
    <3> QED
      BY <2>1, <2>2, <2>3, <3>1
  <2>4. CASE p # Root
    <3>1. ~IsVirtual(p)
      <4>1. \A i \in DOMAIN p : i \in DOMAIN q /\ q[i] = p[i]
        BY <1>1, <2>1, Lengths
      <4> QED
        BY <4>1 DEF IsVirtual
    <3>2. /\ Len(p) \in 1 .. Len(p) /\ p[Len(p)] = dn
          /\ \A i \in 1 .. Len(p) : DnOf(SubSeq(p, 1, i)) = p[i]
          /\ DnOf(SubSeq(p, 1, 0)) = root
      BY <1>1, <2>4, <3>1, DnsOfPath
    <3>3. \A i \in 1 .. Len(p) : i = Len(p) \/ i \in 0 .. Len(p) - 1
      <4>1. \A k \in Nat : \A i \in 1 .. k : i = k \/ i \in 0 .. k - 1
        OBVIOUS
      <4> QED
        BY ONLY <2>1, <4>1
    <3>4. 0 \in 0 .. Len(p) - 1
      BY <2>1, <3>2
    <3>5. \A i \in 1 .. Len(p) : d # p[i]
      BY <2>2, <3>2, <3>3 DEF DnsAbove
    <3>6. d # root
      BY <2>2, <3>2, <3>4 DEF DnsAbove
    <3> QED
      BY <2>1, <3>5, <3>6
  <2> QED
    BY <2>3, <2>4
<1> QED
  BY <1>2, <1>3 DEF Grown

LEMMA LoadedIsSingle ==
    ASSUME NEW n, Tree(n), NEW p \in n.all, NEW D \in SUBSET DNs,
           NEW m, Grown(m, n, p, D), Single(n)
    PROVE  Single(m)
<1>1. p \in Path
  BY DEF Tree
<1>2. ASSUME NEW q \in m.all, IsGroup(q) PROVE q \in n.all
  <2>1. ASSUME NEW d \in D, q = Append(p, d) PROVE FALSE
    <3>1. Len(q) = Len(p) + 1 /\ q[Len(p) + 1] = d
      BY <1>1, <2>1, Child, Labels
    <3>2. d # Group
      BY Labels
    <3> QED
      BY <1>2, <3>1, <3>2 DEF IsGroup
  <2> QED
    BY <2>1 DEF Grown
<1> QED
  BY <1>2 DEF Single

-----------------------------------------------------------------------------
(* Search results.                                                           *)

LEMMA CleanedIsTree ==
    ASSUME Tree(nodes), NEW root, Fresh(nodes, root)
    PROVE  /\ Tree(Cleaned) /\ Fresh(Cleaned, root) /\ Cleaned.all \subseteq nodes.all
           /\ \A p \in Cleaned.all : ~IsVirtual(p)
<1> DEFINE virtual == {p \in nodes.all : IsVirtual(p)}
<1>1. /\ nodes.all \in SUBSET Path /\ IsFiniteSet(nodes.all) /\ Root \in nodes.all /\ Closed(nodes.all)
      /\ nodes.hasChildren \subseteq nodes.all /\ nodes.expanded \subseteq nodes.all
  BY DEF Tree
<1>2. Cleaned = [all |-> nodes.all \ virtual, hasChildren |-> nodes.hasChildren \ virtual,
                 expanded |-> nodes.expanded \ virtual]
  BY DEF Cleaned, Without
<1>3. ~IsVirtual(Root)
  BY RootIsPath DEF IsVirtual
<1>4. ASSUME NEW p \in nodes.all \ virtual, NEW i \in 0 .. Len(p)
      PROVE  SubSeq(p, 1, i) \in nodes.all \ virtual
  <2> DEFINE q == SubSeq(p, 1, i)
  <2>1. q \in nodes.all /\ p \in Path
    BY <1>1 DEF Closed
  <2>2. \A k \in DOMAIN q : k \in DOMAIN p /\ q[k] = p[k]
    <3>1. q \in Path /\ Len(q) = i /\ \A k \in 1 .. i : q[k] = p[k]
      BY <2>1, Prefix
    <3>2. DOMAIN q = 1 .. i /\ DOMAIN p = 1 .. Len(p) /\ Len(p) \in Nat
      BY <2>1, <3>1, Lengths
    <3> QED
      BY <3>1, <3>2
  <2>3. ~IsVirtual(q)
    BY <2>2 DEF IsVirtual
  <2> QED
    BY <2>1, <2>3
<1>5. IsFiniteSet(Cleaned.all)
  BY <1>1, <1>2, FS_Subset
<1>6. Tree(Cleaned)
  <2>1. Closed(Cleaned.all)
    BY <1>2, <1>4 DEF Closed
  <2>2. Root \in Cleaned.all
    BY <1>1, <1>2, <1>3
  <2>3. Cleaned \in [all : SUBSET Path, hasChildren : SUBSET Path, expanded : SUBSET Path]
    BY <1>1, <1>2
  <2> QED
    BY <1>1, <1>2, <1>5, <2>1, <2>2, <2>3 DEF Tree
<1>7. Fresh(Cleaned, root)
  BY <1>2 DEF Fresh
<1> QED
  BY <1>2, <1>6, <1>7

LEMMA TargetIsNode ==
    ASSUME Tree(Cleaned), NEW dn
    PROVE  Target(dn) \in Cleaned.all
<1> DEFINE found == {p \in Cleaned.all : DnOf(p) = dn}
<1>1. CASE dn = RootDSE \/ found = {}
  BY <1>1 DEF Target, Tree
<1>2. CASE ~(dn = RootDSE \/ found = {})
  <2>1. found \in SUBSET Path /\ IsFiniteSet(found) /\ found # {}
    BY <1>2, FS_Subset DEF Tree
  <2>2. Target(dn) = NodeAt(Cardinality(found) - 1, found)
    BY <1>2 DEF Target
  <2> HIDE DEF found
  <2>3. Cardinality(found) \in Nat /\ Cardinality(found) # 0
    BY <2>1, FS_CardinalityType, FS_EmptySet
  <2>4. Cardinality(found) - 1 \in 0 .. Cardinality(found) - 1
    BY <2>3
  <2>5. Target(dn) \in found
    BY <2>1, <2>2, <2>4, NodeAtIsNode
  <2> QED
    BY <2>5 DEF found
<1> QED
  BY <1>1, <1>2

LEMMA ResultsAreTree ==
    ASSUME NEW root, Tree(Cleaned), Fresh(Cleaned, root), \A p \in Cleaned.all : ~IsVirtual(p),
           NEW dn, NEW results \in SUBSET DNs
    PROVE  Tree(WithResults(dn, results)) /\ Fresh(WithResults(dn, results), root)
           /\ Single(WithResults(dn, results))
<1> DEFINE target == Target(dn)
           group == Append(target, Group)
           leaves == {Append(group, d) : d \in results \ {dn}}
           n == WithResults(dn, results)
<1>1. /\ Cleaned.all \in SUBSET Path /\ IsFiniteSet(Cleaned.all) /\ Root \in Cleaned.all
      /\ Closed(Cleaned.all)
      /\ Cleaned.hasChildren \subseteq Cleaned.all /\ Cleaned.expanded \subseteq Cleaned.all
  BY DEF Tree
<1>2. target \in Cleaned.all /\ target \in Path
  BY <1>1, TargetIsNode
<1>3. n = [all |-> Cleaned.all \cup {group} \cup leaves,
           hasChildren |-> Cleaned.hasChildren \cup {group},
           expanded |-> Cleaned.expanded \cup {group, target}]
  BY DEF WithResults, ResultsIn
<1> HIDE DEF target, n
<1>4. /\ group \in Path /\ Len(target) \in Nat /\ Len(group) = Len(target) + 1
      /\ group[Len(target) + 1] = Group
      /\ \A i \in 0 .. Len(target) : SubSeq(group, 1, i) = SubSeq(target, 1, i)
  BY <1>2, Child, Labels, Lengths
<1> HIDE DEF group
<1>5. results \ {dn} \in SUBSET DNs
  OBVIOUS
<1>6. leaves \in SUBSET Path /\ IsFiniteSet(leaves)
  BY <1>4, <1>5, ChildrenArePaths
<1>7. ASSUME NEW q \in leaves
      PROVE  /\ q \in Path /\ Len(q) = Len(group) + 1 /\ q[Len(q)] \in DNs
             /\ q[Len(group)] = Group /\ Len(group) \in 1 .. Len(q)
             /\ \A i \in 0 .. Len(group) : SubSeq(q, 1, i) = SubSeq(group, 1, i)
  <2>1. PICK d \in DNs : q = Append(group, d)
    OBVIOUS
  <2>2. /\ q \in Path /\ Len(q) = Len(group) + 1 /\ q[Len(group) + 1] = d
        /\ \A i \in 1 .. Len(group) : q[i] = group[i]
        /\ \A i \in 0 .. Len(group) : SubSeq(q, 1, i) = SubSeq(group, 1, i)
    BY <1>4, <2>1, Child, Labels
  <2>3. Len(group) \in 1 .. Len(group) /\ Len(group) \in 1 .. Len(q)
    BY <1>4, <2>2
  <2>4. q[Len(group)] = Group
    BY <1>4, <2>2, <2>3
  <2> QED
    BY <2>2, <2>3, <2>4
<1> HIDE DEF leaves
<1>8. n.all = Cleaned.all \cup {group} \cup leaves
  BY <1>3
<1>9. IsFiniteSet(n.all)
  <2>1. IsFiniteSet({group}) /\ IsFiniteSet(Cleaned.all \cup {group})
    BY <1>1, FS_Singleton, FS_Union
  <2> QED
    BY <1>6, <1>8, <2>1, FS_Union
<1>10. ASSUME NEW i \in 0 .. Len(group) PROVE SubSeq(group, 1, i) \in n.all
  <2>1. CASE i = Len(group)
    BY <1>4, <1>8, <2>1, FullPrefix
  <2>2. CASE i # Len(group)
    <3>1. i \in 0 .. Len(target)
      BY <1>4, <2>2
    <3> QED
      BY <1>1, <1>2, <1>4, <1>8, <3>1 DEF Closed
  <2> QED
    BY <2>1, <2>2
<1>11. ASSUME NEW q \in leaves, NEW i \in 0 .. Len(q) PROVE SubSeq(q, 1, i) \in n.all
  <2>1. CASE i = Len(q)
    BY <1>7, <1>8, <2>1, FullPrefix
  <2>2. CASE i # Len(q)
    <3>1. i \in 0 .. Len(group)
      BY <1>4, <1>7, <2>2
    <3> QED
      BY <1>7, <1>10, <3>1
  <2> QED
    BY <2>1, <2>2
<1>12. Closed(n.all)
  <2>1. \A q \in Cleaned.all : \A i \in 0 .. Len(q) : SubSeq(q, 1, i) \in n.all
    BY <1>1, <1>8 DEF Closed
  <2> QED
    BY <1>8, <1>10, <1>11, <2>1 DEF Closed
<1>13. Tree(n)
  <2>1. n \in [all : SUBSET Path, hasChildren : SUBSET Path, expanded : SUBSET Path]
    BY <1>1, <1>2, <1>3, <1>4, <1>6
  <2>2. Root \in n.all /\ n.hasChildren \subseteq n.all /\ n.expanded \subseteq n.all
    BY <1>1, <1>2, <1>3
  <2> QED
    BY <1>9, <1>12, <2>1, <2>2 DEF Tree
<1>14. IsVirtual(group) /\ \A q \in leaves : IsVirtual(q)
  <2>1. Len(target) + 1 \in DOMAIN group
    BY <1>4, Lengths
  <2>2. ASSUME NEW q \in leaves PROVE IsVirtual(q)
    BY <1>7, Lengths DEF IsVirtual
  <2> QED
    BY <1>4, <2>1, <2>2 DEF IsVirtual
<1>15. Fresh(n, root)
  BY <1>8, <1>14 DEF Fresh
<1>16. Single(n)
  <2>1. ASSUME NEW q \in n.all, IsGroup(q) PROVE q = group
    <3>1. q \notin leaves
      BY <1>7, <2>1, Labels DEF IsGroup
    <3>2. ASSUME q \in Cleaned.all PROVE FALSE
      <4>1. q \in Path /\ Len(q) \in DOMAIN q
        BY <1>1, <2>1, <3>2, Lengths, EmptyIsRoot DEF IsGroup
      <4> QED
        BY <2>1, <3>2, <4>1 DEF IsVirtual, IsGroup
    <3> QED
      BY <1>8, <3>1, <3>2
  <2> QED
    BY <2>1 DEF Single
<1> QED
  BY <1>13, <1>15, <1>16 DEF n

-----------------------------------------------------------------------------
(* The selection and the scroll offset.                                      *)

LEMMA LeastIsNat == ASSUME NEW a \in Nat, NEW b \in Nat
                    PROVE  Least(a, b) \in Nat /\ Least(a, b) <= a /\ Least(a, b) <= b
BY DEF Least

LEMMA MinusIsNat == ASSUME NEW a \in Nat, NEW b \in Nat PROVE Minus(a, b) \in Nat /\ Minus(a, b) <= a
BY DEF Minus

LEMMA EnsuredIsNode ==
    ASSUME NEW S \in SUBSET Path, IsFiniteSet(S), Root \in S, NEW sel, NEW offset \in Nat
    PROVE  Ensured(sel, S, offset).sel \in S /\ Ensured(sel, S, offset).scroll \in Nat
<1>1. CASE sel \in S
  <2>1. Index(sel, S) \in Nat
    BY <1>1, IndexInRange
  <2>2. Least(offset, Index(sel, S)) \in Nat
    BY <2>1, LeastIsNat
  <2> QED
    BY <1>1, <2>2 DEF Ensured
<1>2. CASE sel \notin S
  BY <1>2 DEF Ensured
<1> QED
  BY <1>1, <1>2

\* The offset draw ends with, for a window of h lines, n nodes and the selection on line k.
LEMMA OffsetShows ==
    ASSUME NEW n \in Nat, NEW k \in 0 .. n - 1, NEW h \in Nat \ {0}, NEW offset \in Nat
    PROVE  LET a == Least(Least(offset, Minus(n, h)), k)
               o == IF k >= a + h THEN Minus(k + 1, h) ELSE a
           IN  o \in Nat /\ o <= k /\ k < o + h /\ (o + h <= n \/ o = 0)
BY DEF Least, Minus

-----------------------------------------------------------------------------
(* The invariant.                                                            *)

OnScreen == ui = "key" =>
    /\ scroll <= Index(selected, visible) /\ Index(selected, visible) < scroll + maxY
    /\ scroll + maxY <= Cardinality(visible) \/ scroll = 0

\* What the operations leave, whatever the user interface does next.
TreeInv ==
    /\ rootDN \in DNsOrRoot /\ groupDN \in DNsOrRoot
    /\ Tree(nodes) /\ Fresh(nodes, rootDN) /\ Single(nodes)
    /\ visible = Visible(nodes) /\ selected \in visible
    /\ scroll \in Nat

IInv == TreeInv /\ ui \in {"key", "draw"} /\ maxY \in Heights \cup {0} /\ OnScreen

LEMMA InvNodes ==
    ASSUME TreeInv
    PROVE  /\ visible \in SUBSET Path /\ visible \subseteq nodes.all /\ IsFiniteSet(visible)
           /\ Root \in visible /\ Root \in nodes.all
           /\ selected \in Path /\ selected \in nodes.all
           /\ Cardinality(visible) \in Nat /\ Cardinality(visible) # 0
           /\ Here \in 0 .. Cardinality(visible) - 1
<1>1. /\ visible \in SUBSET Path /\ visible \subseteq nodes.all /\ IsFiniteSet(visible)
      /\ Root \in visible
  BY VisibleNodes DEF TreeInv
<1>2. selected \in visible
  BY DEF TreeInv
<1>3. Cardinality(visible) \in Nat /\ Here \in 0 .. Cardinality(visible) - 1
  BY <1>1, <1>2, IndexInRange DEF Here
<1> QED
  BY <1>1, <1>2, <1>3

LEMMA InvDnOf == ASSUME TreeInv, NEW p \in nodes.all PROVE DnOf(p) \in DNsOrRoot
<1>1. p \in Path
  BY DEF TreeInv, Tree
<1>2. CASE p = Root
  BY <1>2 DEF DnOf, TreeInv
<1>3. CASE p # Root
  <2>1. p[Len(p)] \in Label
    BY <1>1, <1>3, Lengths, EmptyIsRoot
  <2> QED
    BY <1>3, <2>1 DEF DnOf, TreeInv, Label, DNsOrRoot
<1> QED
  BY <1>2, <1>3

\* rebuildVisible and ensureVisible settle what is visible and selected.
LEMMA RebuiltSettles ==
    ASSUME NEW n, Tree(n), NEW sel, scroll \in Nat, Rebuilt(n, sel)
    PROVE  /\ nodes' = n /\ visible' = Visible(n) /\ selected' \in visible' /\ scroll' \in Nat
<1> DEFINE S == Visible(n)
<1>1. S \in SUBSET Path /\ IsFiniteSet(S) /\ Root \in S
  BY VisibleNodes
<1>2. /\ nodes' = n /\ visible' = S /\ selected' = Ensured(sel, S, scroll).sel
      /\ scroll' = Ensured(sel, S, scroll).scroll
  BY DEF Rebuilt
<1> HIDE DEF S
<1>3. Ensured(sel, S, scroll).sel \in S /\ Ensured(sel, S, scroll).scroll \in Nat
  BY <1>1, EnsuredIsNode
<1> QED
  BY <1>2, <1>3 DEF S

\* Nothing but what is expanded changes.
LEMMA ExpandedOnly ==
    ASSUME NEW n, Tree(n), NEW root, Fresh(n, root), Single(n), NEW E \in SUBSET n.all
    PROVE  LET m == [n EXCEPT !.expanded = E] IN Tree(m) /\ Fresh(m, root) /\ Single(m)
<1> DEFINE m == [n EXCEPT !.expanded = E]
<1>1. m.all = n.all /\ m.hasChildren = n.hasChildren /\ m.expanded = E
      /\ m \in [all : SUBSET Path, hasChildren : SUBSET Path, expanded : SUBSET Path]
  BY DEF Tree
<1> HIDE DEF m
<1>2. Tree(m) /\ Fresh(m, root) /\ Single(m)
  BY <1>1 DEF Tree, Fresh, Single
<1> QED
  BY <1>2 DEF m

LEMMA NewTree ==
    ASSUME NEW c \in SUBSET {Root}, NEW root
    PROVE  LET n == [all |-> {Root}, hasChildren |-> c, expanded |-> {}] IN
           Tree(n) /\ Fresh(n, root) /\ Single(n)
<1> DEFINE n == [all |-> {Root}, hasChildren |-> c, expanded |-> {}]
<1>1. n.all = {Root} /\ n.hasChildren = c /\ n.expanded = {}
      /\ n \in [all : SUBSET Path, hasChildren : SUBSET Path, expanded : SUBSET Path]
  BY RootIsPath
<1> HIDE DEF n
<1>2. ASSUME NEW i \in 0 .. Len(Root) PROVE SubSeq(Root, 1, i) = Root
  <2>1. i = 0
    BY RootIsPath
  <2> QED
    BY <2>1, RootIsPath, RootPrefix
<1>3. Tree(n)
  BY <1>1, <1>2, FS_Singleton DEF Tree, Closed
<1>4. Fresh(n, root) /\ Single(n)
  BY <1>1 DEF Fresh, Single
<1> QED
  BY <1>3, <1>4 DEF n

\* The tree after loadRoot and refresh.
LEMMA LoadedRoot ==
    ASSUME NEW c \in SUBSET {Root}, NEW dn \in DNsOrRoot,
           NEW m \in Loaded([all |-> {Root}, hasChildren |-> c, expanded |-> {}], Root, dn)
    PROVE  Tree(m) /\ Fresh(m, dn) /\ Single(m) /\ Visible(m) = {Root}
<1> DEFINE n == [all |-> {Root}, hasChildren |-> c, expanded |-> {}]
<1>1. Tree(n) /\ Fresh(n, dn) /\ Single(n) /\ Root \in n.all /\ Root \notin n.expanded /\ m \in Loaded(n, Root, dn)
  BY NewTree
<1> HIDE DEF n
<1>2. PICK D \in SUBSET NewBelow(Root, dn) : Grown(m, n, Root, D)
  BY <1>1, LoadedIsGrown
<1>3. D \in SUBSET DNs
  BY DEF NewBelow
<1>4. Tree(m)
  BY <1>1, <1>2, <1>3, GrownIsTree
<1>5. Visible(m) = {Root}
  BY <1>1, <1>2, <1>3, GrownIsHidden, OnlyRootVisible
<1>6. Fresh(m, dn)
  BY <1>1, <1>2, LoadedIsFresh
<1>7. Single(m)
  BY <1>1, <1>2, <1>3, LoadedIsSingle
<1> QED
  BY <1>4, <1>5, <1>6, <1>7

LEMMA InitInv == Init => IInv
<1> SUFFICES ASSUME Init PROVE IInv
  OBVIOUS
<1>1. Base \in DNsOrRoot /\ RootDSE \in DNsOrRoot
  BY BaseAssumption DEF DNsOrRoot
<1>2. nodes \in Loaded([all |-> {Root}, hasChildren |-> {Root}, expanded |-> {}], Root, Base)
  BY DEF Init, NewRoot
<1>3. Tree(nodes) /\ Fresh(nodes, Base) /\ Single(nodes) /\ Visible(nodes) = {Root}
  BY <1>1, <1>2, LoadedRoot
<1>4. rootDN = Base /\ visible = {Root} /\ selected = Root /\ groupDN = RootDSE /\ scroll = 0
      /\ ui = "draw" /\ maxY = 0
  BY DEF Init
<1> QED
  BY <1>1, <1>3, <1>4 DEF IInv, TreeInv, OnScreen

\* The keys that only move the selection.
LEMMA MovesKeepInv ==
    ASSUME IInv, LineUp \/ PageUp \/ \E height \in KnownHeights : LineDown(height) \/ PageDown(height)
    PROVE  TreeInv'
<1> DEFINE n == Cardinality(visible)
<1>1. /\ visible \in SUBSET Path /\ IsFiniteSet(visible) /\ n \in Nat /\ n # 0 /\ Here \in 0 .. n - 1
      /\ scroll \in Nat /\ Page \in Nat \ {0}
  BY InvNodes, PageAssumption DEF IInv, TreeInv
<1>2. ASSUME NEW i \in 0 .. n - 1, GoToLine(i) PROVE selected' \in visible
  BY <1>1, <1>2, NodeAtIsNode DEF GoToLine
<1>3. ASSUME NEW height \in KnownHeights PROVE height \in Nat
  BY HeightsAssumption DEF IInv, KnownHeights
<1>4. UNCHANGED <<rootDN, nodes, groupDN, visible>>
  BY DEF LineUp, PageUp, LineDown, PageDown
<1>5. selected' \in visible /\ scroll' \in Nat
  <2>1. CASE LineUp
    <3>1. Here - 1 \in 0 .. n - 1 /\ Here - 1 \in Nat
      BY <1>1, <2>1 DEF LineUp
    <3>2. GoToLine(Here - 1) /\ scroll' = Least(scroll, Here - 1)
      BY <2>1 DEF LineUp
    <3> HIDE DEF n
    <3> QED
      BY <1>1, <1>2, <3>1, <3>2, LeastIsNat
  <2>2. CASE PageUp
    <3>1. GoToLine(Minus(Here, Page)) /\ scroll' = Minus(Here, Page)
      BY <2>2 DEF PageUp
    <3>2. Here \in Nat /\ Page \in Nat
      BY <1>1
    <3>3. Minus(Here, Page) \in Nat /\ Minus(Here, Page) <= Here
      BY <3>2, MinusIsNat
    <3>4. Minus(Here, Page) \in 0 .. n - 1
      BY <1>1, <3>2, <3>3
    <3> QED
      BY <1>2, <3>1, <3>3, <3>4
  <2>3. ASSUME NEW height \in KnownHeights, LineDown(height) PROVE selected' \in visible /\ scroll' \in Nat
    <3>1. Here + 1 \in 0 .. n - 1
      BY <1>1, <2>3 DEF LineDown
    <3>2. GoToLine(Here + 1) /\ (scroll' = scroll + 1 \/ scroll' = scroll)
      BY <2>3 DEF LineDown
    <3> QED
      BY <1>1, <1>2, <3>1, <3>2
  <2>4. ASSUME NEW height \in KnownHeights, PageDown(height) PROVE selected' \in visible /\ scroll' \in Nat
    <3> DEFINE target == Least(Here + Page, n - 1)
    <3>1. GoToLine(target) /\ scroll' = Minus(target + 1, height)
      BY <2>4 DEF PageDown
    <3>2. Here + Page \in Nat /\ n - 1 \in Nat
      BY <1>1
    <3>3. target \in Nat /\ target <= n - 1
      BY <3>2, LeastIsNat
    <3> HIDE DEF target, n
    <3>4. target \in 0 .. n - 1 /\ target + 1 \in Nat
      BY <1>1, <3>3
    <3>5. Minus(target + 1, height) \in Nat
      BY <1>3, <3>4, MinusIsNat
    <3> QED
      BY <1>2, <3>1, <3>4, <3>5
  <2> QED
    BY <2>1, <2>2, <2>3, <2>4
<1> QED
  BY <1>4, <1>5 DEF IInv, TreeInv

LEMMA ExpandKeepsInv == ASSUME IInv, Expand PROVE TreeInv'
<1> DEFINE opened(n) == [n EXCEPT !.expanded = @ \cup {selected}]
<1>1. /\ Tree(nodes) /\ Fresh(nodes, rootDN) /\ Single(nodes) /\ scroll \in Nat
      /\ visible = Visible(nodes) /\ selected \in visible /\ selected \in nodes.all /\ selected \in Path
      /\ UNCHANGED <<rootDN, groupDN>> /\ selected \notin nodes.expanded
      /\ DnOf(selected) \in DNsOrRoot
  BY InvNodes, InvDnOf DEF Expand, IInv, TreeInv
<1>2. ASSUME NEW n, Tree(n), Fresh(n, rootDN), Single(n), selected \in n.all, Rebuilt(opened(n), selected)
      PROVE  TreeInv'
  <2>1. n.expanded \cup {selected} \in SUBSET n.all
    BY <1>2 DEF Tree
  <2>2. opened(n) = [n EXCEPT !.expanded = n.expanded \cup {selected}]
    BY <1>2 DEF Tree
  <2>3. Tree(opened(n)) /\ Fresh(opened(n), rootDN) /\ Single(opened(n))
    BY <1>2, <2>1, <2>2, ExpandedOnly
  <2> HIDE DEF opened
  <2>4. nodes' = opened(n) /\ visible' = Visible(opened(n)) /\ selected' \in visible' /\ scroll' \in Nat
    BY <1>1, <1>2, <2>3, RebuiltSettles
  <2>5. visible' = Visible(nodes')
    BY <2>4
  <2> QED
    BY <1>1, <2>3, <2>4, <2>5 DEF IInv, TreeInv
<1>3. ASSUME NEW n \in Loaded(nodes, selected, DnOf(selected))
      PROVE  /\ Tree(n) /\ Fresh(n, rootDN) /\ Single(n) /\ selected \in n.all
             /\ Visible(n) = Visible(nodes)
  <2>1. PICK D \in SUBSET NewBelow(selected, DnOf(selected)) : Grown(n, nodes, selected, D)
    BY <1>1, LoadedIsGrown
  <2>2. D \in SUBSET DNs
    BY DEF NewBelow
  <2>3. Tree(n) /\ Single(n) /\ Visible(n) = Visible(nodes)
    BY <1>1, <2>1, <2>2, GrownIsTree, LoadedIsSingle, GrownIsHidden
  <2>4. Fresh(n, rootDN)
    <3>1. (selected = Root /\ DnOf(selected) = rootDN)
          \/ (selected # Root /\ DnOf(selected) = DnOf(selected) /\ rootDN = rootDN)
      BY DEF DnOf
    <3> QED
      BY <1>1, <2>1, <3>1, LoadedIsFresh
  <2>5. selected \in n.all
    BY <1>1, <2>3, VisibleNodes
  <2> QED
    BY <2>3, <2>4, <2>5
<1>4. CASE Rebuilt(opened(nodes), selected)
  BY <1>1, <1>2, <1>4
<1>5. ASSUME NEW n \in Loaded(nodes, selected, DnOf(selected)), Rebuilt(opened(n), selected)
      PROVE  TreeInv'
  BY <1>2, <1>3, <1>5
<1>6. ASSUME NEW n \in Loaded(nodes, selected, DnOf(selected)),
             nodes' = n, UNCHANGED <<visible, selected, scroll>>
      PROVE  TreeInv'
  <2>1. visible' = Visible(nodes')
    BY <1>1, <1>3, <1>6
  <2> QED
    BY <1>1, <1>3, <1>6, <2>1 DEF IInv, TreeInv
<1> QED
  BY <1>4, <1>5, <1>6 DEF Expand

LEMMA CollapseKeepsInv == ASSUME IInv, Collapse \/ ToParent PROVE TreeInv'
<1>1. /\ Tree(nodes) /\ Fresh(nodes, rootDN) /\ Single(nodes) /\ scroll \in Nat
      /\ UNCHANGED <<rootDN, groupDN>>
  BY DEF Collapse, ToParent, IInv, TreeInv
<1>2. ASSUME NEW n, Tree(n), Fresh(n, rootDN), Single(n), NEW sel, Rebuilt(n, sel) PROVE TreeInv'
  <2>1. nodes' = n /\ visible' = Visible(n) /\ selected' \in visible' /\ scroll' \in Nat
    BY <1>1, <1>2, RebuiltSettles
  <2>2. visible' = Visible(nodes')
    BY <2>1
  <2> QED
    BY <1>1, <1>2, <2>1, <2>2 DEF IInv, TreeInv
<1>3. CASE Collapse
  <2> DEFINE closed == [nodes EXCEPT !.expanded = nodes.expanded \ {selected}]
  <2>1. nodes.expanded \ {selected} \in SUBSET nodes.all
    BY <1>1 DEF Tree
  <2>2. Tree(closed) /\ Fresh(closed, rootDN) /\ Single(closed)
    BY <1>1, <2>1, ExpandedOnly
  <2>3. Rebuilt(closed, selected)
    BY <1>3 DEF Collapse
  <2> HIDE DEF closed
  <2> QED
    BY <1>2, <2>2, <2>3
<1>4. CASE ToParent
  BY <1>1, <1>2, <1>4 DEF ToParent
<1> QED
  BY <1>3, <1>4

\* The operations that make the tree anew: '+' of everything is collapsed.
LEMMA AnewKeepsInv == ASSUME IInv, Reroot \/ Refresh PROVE TreeInv'
<1>1. RootDSE \in DNsOrRoot /\ rootDN \in DNsOrRoot /\ scroll \in Nat
  BY DEF DNsOrRoot, IInv, TreeInv
<1>2. PICK c \in SUBSET {Root}, dn \in DNsOrRoot :
        /\ nodes' \in Loaded([all |-> {Root}, hasChildren |-> c, expanded |-> {}], Root, dn)
        /\ rootDN' = dn
        /\ visible' = {Root} /\ selected' = Root /\ groupDN' = RootDSE /\ scroll' \in Nat
  <2>1. CASE Reroot
    <3>1. {Root} \in SUBSET {Root}
      OBVIOUS
    <3> QED
      BY <1>1, <2>1, <3>1 DEF Reroot, NewRoot
  <2>2. CASE Refresh
    <3>1. nodes.hasChildren \cap {Root} \in SUBSET {Root}
      OBVIOUS
    <3>2. rootDN' = rootDN
      BY <2>2 DEF Refresh
    <3> QED
      BY <1>1, <2>2, <3>1, <3>2 DEF Refresh
  <2> QED
    BY <2>1, <2>2
<1>3. Tree(nodes') /\ Fresh(nodes', dn) /\ Single(nodes') /\ Visible(nodes') = {Root}
  BY <1>2, LoadedRoot
<1> QED
  BY <1>1, <1>2, <1>3 DEF TreeInv

LEMMA ClearedAreSettled ==
    ASSUME IInv, NEW e \in Cleared
    PROVE  e.sel \in Visible(Cleaned) /\ e.scroll \in Nat
<1> DEFINE S == Visible(Cleaned)
<1>1. Tree(nodes) /\ Fresh(nodes, rootDN) /\ scroll \in Nat
  BY DEF IInv, TreeInv
<1>2. S \in SUBSET Path /\ IsFiniteSet(S) /\ Root \in S
  BY <1>1, CleanedIsTree, VisibleNodes
<1>3. PICK sel \in ClearedSelections : e = Ensured(sel, S, scroll)
  BY DEF Cleared
<1> HIDE DEF S
<1>4. e.sel \in S /\ e.scroll \in Nat
  BY <1>1, <1>2, <1>3, EnsuredIsNode
<1> QED
  BY <1>4 DEF S

LEMMA ClearKeepsInv == ASSUME IInv, ClearVirtual PROVE TreeInv'
<1>1. Tree(nodes) /\ Fresh(nodes, rootDN) /\ Single(nodes) /\ rootDN \in DNsOrRoot
  BY DEF IInv, TreeInv
<1>2. /\ nodes' = Cleaned /\ visible' = Visible(nodes') /\ groupDN' = RootDSE /\ rootDN' = rootDN
      /\ \E e \in Cleared : selected' = e.sel /\ scroll' = e.scroll
  BY DEF ClearVirtual
<1>3. Tree(Cleaned) /\ Fresh(Cleaned, rootDN) /\ Cleaned.all \subseteq nodes.all
  BY <1>1, CleanedIsTree
<1>4. Single(Cleaned)
  BY <1>1, <1>3 DEF Single
<1>5. selected' \in visible' /\ scroll' \in Nat
  BY <1>2, ClearedAreSettled
<1>6. RootDSE \in DNsOrRoot
  BY DEF DNsOrRoot
<1> QED
  BY <1>1, <1>2, <1>3, <1>4, <1>5, <1>6 DEF TreeInv

LEMMA SearchKeepsInv ==
    ASSUME IInv, NEW dn \in DNsOrRoot, NEW results \in SUBSET subtree[dn], Search(dn, results)
    PROVE  TreeInv'
<1>1. Tree(nodes) /\ Fresh(nodes, rootDN) /\ rootDN \in DNsOrRoot
  BY DEF IInv, TreeInv
<1>2. results \in SUBSET DNs
  BY ResultsAreEntries
<1> DEFINE n == WithResults(dn, results)
<1>3. Tree(n) /\ Fresh(n, rootDN) /\ Single(n)
  BY <1>1, <1>2, CleanedIsTree, ResultsAreTree
<1> HIDE DEF n
<1>4. /\ nodes' = n /\ visible' = Visible(nodes') /\ groupDN' = dn /\ selected' = Root
      /\ UNCHANGED rootDN
      /\ \E e \in Cleared : scroll' = Ensured(e.sel, visible', e.scroll).scroll
  BY DEF Search, n
<1>5. visible' \in SUBSET Path /\ IsFiniteSet(visible') /\ Root \in visible'
  BY <1>3, <1>4, VisibleNodes
<1>6. PICK e \in Cleared : scroll' = Ensured(e.sel, visible', e.scroll).scroll
  BY <1>4
<1>7. e.scroll \in Nat
  BY ClearedAreSettled
<1>8. scroll' \in Nat
  BY <1>5, <1>6, <1>7, EnsuredIsNode
<1> QED
  BY <1>1, <1>3, <1>4, <1>5, <1>8 DEF TreeInv

LEMMA KeyKeepsInv == ASSUME IInv, Key PROVE IInv'
<1>1. TreeInv'
  <2>1. CASE NoKey
    BY <2>1 DEF NoKey, IInv, TreeInv
  <2>2. ASSUME NEW dn \in DNs \cup {RootDSE}, NEW results \in SUBSET subtree[dn], Search(dn, results)
        PROVE  TreeInv'
    BY <2>2, SearchKeepsInv DEF DNsOrRoot
  <2> QED
    BY <2>1, <2>2, MovesKeepInv, ExpandKeepsInv, CollapseKeepsInv, AnewKeepsInv, ClearKeepsInv DEF Key
<1>2. ui' = "draw" /\ maxY' = maxY
  BY DEF Key, NoKey, LineUp, PageUp, Expand, Collapse, ToParent, Reroot, ClearVirtual, Refresh,
         LineDown, PageDown, Search, AtKey
<1> QED
  BY <1>1, <1>2 DEF IInv, OnScreen

LEMMA DrawKeepsInv == ASSUME IInv, NEW h \in Heights, Draw(h) PROVE IInv'
<1> DEFINE n == Cardinality(visible)
           k == Index(selected, visible)
           e == Ensured(selected, visible, scroll)
<1>1. /\ visible \in SUBSET Path /\ IsFiniteSet(visible) /\ n \in Nat /\ k \in 0 .. n - 1
      /\ selected \in visible /\ scroll \in Nat /\ h \in Nat \ {0}
  BY InvNodes, HeightsAssumption DEF Here, IInv, TreeInv
<1>2. /\ ui' = "key" /\ maxY' = h /\ selected' = e.sel /\ scroll' = Offset(e, h)
      /\ UNCHANGED <<rootDN, nodes, groupDN, visible>>
  BY DEF Draw
<1>3. e.sel = selected /\ e.scroll = Least(scroll, k)
  BY <1>1 DEF Ensured
<1>4. e.scroll \in Nat
  <2> HIDE DEF n, k, e
  <2>1. k \in Nat
    BY <1>1
  <2> QED
    BY <1>1, <1>3, <2>1, LeastIsNat
<1>5. Offset(e, h) = LET a == Least(Least(e.scroll, Minus(n, h)), k)
                     IN  IF k >= a + h THEN Minus(k + 1, h) ELSE a
  BY <1>3 DEF Offset
<1> HIDE DEF n, k, e
<1>6. LET o == Offset(e, h) IN o \in Nat /\ o <= k /\ k < o + h /\ (o + h <= n \/ o = 0)
  <2> DEFINE a == Least(Least(e.scroll, Minus(n, h)), k)
             o == IF k >= a + h THEN Minus(k + 1, h) ELSE a
  <2>1. o \in Nat /\ o <= k /\ k < o + h /\ (o + h <= n \/ o = 0)
    BY <1>1, <1>4, OffsetShows
  <2>2. Offset(e, h) = o
    BY <1>5
  <2> HIDE DEF o
  <2> QED
    BY <2>1, <2>2
<1>7. TreeInv'
  BY <1>1, <1>2, <1>3, <1>6 DEF IInv, TreeInv
<1>8. Index(selected', visible') = k /\ Cardinality(visible') = n
  BY <1>2, <1>3 DEF k, n
<1>9. OnScreen'
  BY <1>2, <1>6, <1>8 DEF OnScreen
<1> QED
  BY <1>2, <1>7, <1>9 DEF IInv

LEMMA Invariance == Spec => []IInv
<1>1. ASSUME IInv, [Next]_vars PROVE IInv'
  <2>1. CASE UNCHANGED vars
    BY <1>1, <2>1 DEF vars, IInv, TreeInv, OnScreen
  <2> QED
    BY <1>1, <2>1, KeyKeepsInv, DrawKeepsInv DEF Next
<1> QED
  BY <1>1, InitInv, PTL DEF Spec

-----------------------------------------------------------------------------
(* The theorems.                                                             *)

\* The variables keep their types: in particular every node has its parent in the tree,
\* and the selection is a node.
THEOREM TypeCorrect == Spec => []TypeOK
<1>1. ASSUME IInv PROVE TypeOK
  <2>1. /\ nodes.all \in SUBSET Path /\ IsFiniteSet(nodes.all) /\ Root \in nodes.all /\ Closed(nodes.all)
        /\ nodes.hasChildren \subseteq nodes.all /\ nodes.expanded \subseteq nodes.all
    BY <1>1 DEF IInv, TreeInv, Tree
  <2>2. ASSUME NEW p \in nodes.all \ {Root} PROVE Up(p) \in nodes.all
    <3>1. p \in Path /\ Len(p) - 1 \in 0 .. Len(p)
      BY <2>1, Lengths, EmptyIsRoot
    <3> QED
      BY <2>1, <3>1 DEF Closed, Up
  <2>3. visible \subseteq Path /\ selected \in Path
    BY <1>1, InvNodes DEF IInv
  <2> QED
    BY <1>1, <2>1, <2>2, <2>3 DEF IInv, TreeInv, TypeOK, DNsOrRoot
<1> QED
  BY <1>1, Invariance, PTL

\* After every operation visible_ is what the tree says, and selected_ is one of its
\* nodes (rebuildVisible, ensureVisible, and all that call them or do not).
THEOREM VisibleIsRebuilt == Spec => []VisibleMatchesTree
<1>1. IInv => VisibleMatchesTree
  BY DEF IInv, TreeInv, VisibleMatchesTree
<1> QED
  BY <1>1, Invariance, PTL

\* After any operation and a resize, the tree is drawn from a line that shows the
\* selection and leaves no line empty for nothing (TreeWidget::draw).
THEOREM SelectionIsShown == Spec => []SelectedOnScreen
<1>1. IInv => SelectedOnScreen
  BY DEF IInv, OnScreen, SelectedOnScreen
<1> QED
  BY <1>1, Invariance, PTL

\* Whatever the server returns, no entry is below itself (loadChildren).
THEOREM NoEntryBelowItself == Spec => []NoLoop
<1>1. ASSUME IInv PROVE NoLoop
  <2>1. Fresh(nodes, rootDN) /\ nodes.all \in SUBSET Path
    BY <1>1 DEF IInv, TreeInv, Tree
  <2>2. ASSUME NEW p \in nodes.all, ~IsVirtual(p), p # Root PROVE DnOf(p) \notin DnsAbove(p)
    <3>1. /\ Len(p) \in 1 .. Len(p)
          /\ \A i \in 1 .. Len(p) : p[i] \in DNs /\ DnOf(SubSeq(p, 1, i)) = p[i]
          /\ DnOf(SubSeq(p, 1, 0)) = rootDN
          /\ DnOf(p) = p[Len(p)]
      BY <2>1, <2>2, DnsOfPath
    <3>2. p[Len(p)] # rootDN /\ \A i \in 1 .. Len(p) - 1 : p[i] # p[Len(p)]
      BY <2>1, <2>2 DEF Fresh
    <3>3. ASSUME NEW i \in 0 .. Len(p) - 1 PROVE DnOf(SubSeq(p, 1, i)) # p[Len(p)]
      <4>1. CASE i = 0
        BY <3>1, <3>2, <4>1
      <4>2. CASE i # 0
        <5>1. i \in 1 .. Len(p) - 1 /\ i \in 1 .. Len(p)
          BY <2>1, <4>2, Lengths
        <5> QED
          BY <3>1, <3>2, <5>1
      <4> QED
        BY <4>1, <4>2
    <3> QED
      BY <3>1, <3>3 DEF DnsAbove
  <2>3. DnOf(Root) \notin DnsAbove(Root)
    BY NoWayToRoot
  <2> QED
    BY <2>2, <2>3 DEF NoLoop
<1> QED
  BY <1>1, Invariance, PTL

\* However searches, refreshes and collapses follow each other, the results of one
\* search at most are in the tree (showSearchResults, clearVirtual).
THEOREM OneGroupOnly == Spec => []OneGroup
<1>1. ASSUME IInv PROVE OneGroup
  <2> DEFINE groups == {p \in nodes.all : p # Root /\ p[Len(p)] = Group}
  <2>1. \A p, q \in groups : p = q
    BY <1>1 DEF IInv, TreeInv, Single, IsGroup
  <2>2. CASE groups = {}
    BY <2>2, FS_EmptySet DEF OneGroup
  <2>3. CASE groups # {}
    <3>1. PICK p \in groups : TRUE
      BY <2>3
    <3>2. groups = {p}
      BY <2>1, <3>1
    <3>3. Cardinality({p}) = 1
      BY FS_Singleton
    <3>4. Cardinality(groups) <= 1
      <4> HIDE DEF groups
      <4> QED
        BY <3>2, <3>3
    <3> QED
      BY <3>4 DEF OneGroup
  <2> QED
    BY <2>2, <2>3
<1> QED
  BY <1>1, Invariance, PTL
=============================================================================
