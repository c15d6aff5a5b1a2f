------------------------- MODULE AttrsPanel_proofs --------------------------
(***************************************************************************)
(* Theorems about the attribute panel, for any entries, schemas, windows   *)
(* and keys.                                                               *)
(***************************************************************************)
EXTENDS AttrsPanel, FoldLemmas

-----------------------------------------------------------------------------
(* The table of superiors.                                                   *)

Ranked == DOMAIN Rank
Definition == [name : Ranked, sup : ListOf(Ranked), must : ListOf(STRING), may : ListOf(STRING)]

LEMMA SchemasTyped == \A d \in Schemas : d \in Seq(Definition)
BY SchemasAssumption DEF Definition, Ranked

GoodSup(sup) == IsFiniteSet(DOMAIN sup) /\ \A c \in DOMAIN sup : c \in Ranked /\ sup[c] \in Ranked

LEMMA NoSup == GoodSup(<<>>)
<1>1. DOMAIN <<>> = {}
  OBVIOUS
<1> QED
  BY <1>1, FS_EmptySet DEF GoodSup

LEMMA SupMapGood == \A d \in Schemas : GoodSup(SupMap(d))
<1> SUFFICES ASSUME NEW d \in Schemas PROVE GoodSup(SupMap(d))
  OBVIOUS
<1> DEFINE N == Len(d)
           Has(n) == ParseSUP(d[n]) # ""
           classes == {d[n].name : n \in {n \in DOMAIN d : Has(n)}}
           Is(c, n) == n \in DOMAIN d /\ d[n].name = c /\ Has(n)
           LastOf(c) == CHOOSE n \in DOMAIN d :
                          /\ d[n].name = c /\ Has(n)
                          /\ \A k \in DOMAIN d : d[k].name = c /\ Has(k) => k <= n
<1>1. N \in Nat /\ DOMAIN d = 1 .. N /\ \A n \in 1 .. N : d[n] \in Definition
  BY SchemasTyped
<1>2. \A n \in 1 .. N : ParseSUP(d[n]) \in Ranked \cup {""} /\ d[n].name \in Ranked
  <2> SUFFICES ASSUME NEW n \in 1 .. N PROVE ParseSUP(d[n]) \in Ranked \cup {""} /\ d[n].name \in Ranked
    OBVIOUS
  <2>1. d[n].sup \in ListOf(Ranked) /\ d[n].name \in Ranked
    BY <1>1 DEF Definition
  <2>2. d[n].sup.names \in Seq(Ranked)
    BY <2>1 DEF ListOf
  <2>3. d[n].sup.names # <<>> => d[n].sup.names[1] \in Ranked
    BY <2>2
  <2> QED
    BY <2>1, <2>3 DEF ParseSUP
<1>3. SupMap(d) = [c \in classes |-> ParseSUP(d[LastOf(c)])]
  BY DEF SupMap
<1>4. IsFiniteSet(classes)
  <2> DEFINE f == [n \in {n \in DOMAIN d : Has(n)} |-> d[n].name]
             I == {n \in DOMAIN d : Has(n)}
  <2>1. f \in Surjection(I, classes)
    BY DEF Surjection
  <2>2. IsFiniteSet(I)
    <3>1. I \in SUBSET (1 .. N)
      BY <1>1
    <3>2. IsFiniteSet(1 .. N)
      BY <1>1, FS_Interval
    <3> HIDE DEF I
    <3> QED
      BY <3>1, <3>2, FS_Subset
  <2> HIDE DEF f, I
  <2> QED
    BY <2>1, <2>2, FS_Surjection
<1>5. ASSUME NEW c \in classes PROVE c \in Ranked /\ ParseSUP(d[LastOf(c)]) \in Ranked
  <2> DEFINE S == {n \in 1 .. N : d[n].name = c /\ Has(n)}
  <2>1. PICK m \in 1 .. N : Has(m) /\ d[m].name = c
    BY <1>1
  <2>2. m \in S /\ S \in SUBSET (1 .. N) /\ S # {}
    BY <2>1
  <2>3. Max(S) \in S /\ \A k \in S : k <= Max(S)
    <3> HIDE DEF S
    <3> QED
      BY <1>1, <2>2, HighestNumber
  <2>4. \E n \in DOMAIN d : /\ d[n].name = c /\ Has(n)
                            /\ \A k \in DOMAIN d : d[k].name = c /\ Has(k) => k <= n
    <3> DEFINE M == Max(S)
    <3>1. M \in S /\ \A k \in S : k <= M
      BY <2>3
    <3> HIDE DEF M
    <3>2. M \in 1 .. N /\ d[M].name = c /\ Has(M) /\ \A k \in 1 .. N : d[k].name = c /\ Has(k) => k <= M
      BY <3>1
    <3> QED
      BY <1>1, <3>2
  <2>5. LastOf(c) \in DOMAIN d /\ Has(LastOf(c))
    <3> HIDE DEF Has
    <3> QED
      BY <2>4
  <2> HIDE DEF LastOf
  <2> QED
    BY <1>1, <1>2, <2>1, <2>5
<1> HIDE DEF LastOf, classes
<1> QED
  BY <1>3, <1>4, <1>5 DEF GoodSup

-----------------------------------------------------------------------------
(* Walks from a class up.                                                    *)

IsChain(w, sup, c) ==
    /\ Len(w) \in Nat /\ Len(w) # 0 /\ w[1] = c
    /\ \A k \in 1 .. Len(w) : k # Len(w) => w[k] \in DOMAIN sup /\ w[k + 1] = sup[w[k]]

Chains(sup, c) == {w \in Seq(Ranked \cup {c}) : IsChain(w, sup, c)}

Climbed(sup, w) == IF w[Len(w)] \in DOMAIN sup THEN Append(w, sup[w[Len(w)]]) ELSE w

LEMMA ChainClimbs ==
    ASSUME NEW sup, GoodSup(sup), NEW c, NEW w \in Chains(sup, c)
    PROVE  Climbed(sup, w) \in Chains(sup, c)
<1>1. w \in Seq(Ranked \cup {c}) /\ IsChain(w, sup, c)
  BY DEF Chains
<1>2. CASE w[Len(w)] \in DOMAIN sup
  <2> DEFINE x == sup[w[Len(w)]]
             v == Append(w, x)
  <2>1. x \in Ranked \cup {c}
    BY <1>2 DEF GoodSup
  <2>2. v \in Seq(Ranked \cup {c}) /\ Len(v) = Len(w) + 1 /\ v[Len(w) + 1] = x
        /\ (\A k \in 1 .. Len(w) : v[k] = w[k]) /\ Len(w) \in Nat
    <3> HIDE DEF x
    <3> QED
      BY <1>1, <2>1
  <2> HIDE DEF v
  <2>3. 1 .. Len(v) = (1 .. Len(w)) \cup {Len(w) + 1}
    BY <2>2
  <2>4. v[1] = c
    BY <1>1, <2>2 DEF IsChain
  <2>5. ASSUME NEW k \in 1 .. Len(v), k # Len(v)
        PROVE  v[k] \in DOMAIN sup /\ v[k + 1] = sup[v[k]]
    <3>1. k \in 1 .. Len(w) /\ v[k] = w[k] /\ (k # Len(w) => k + 1 \in 1 .. Len(w))
      BY <2>2, <2>5
    <3>2. CASE k = Len(w)
      BY <1>2, <2>2, <3>1, <3>2
    <3>3. CASE k # Len(w)
      BY <1>1, <2>2, <3>1, <3>3 DEF IsChain
    <3> QED
      BY <3>2, <3>3
  <2>6. Len(v) \in Nat /\ Len(v) # 0
    BY <2>2
  <2>7. Climbed(sup, w) = v
    BY <1>2 DEF Climbed, v
  <2> QED
    BY <2>2, <2>4, <2>5, <2>6, <2>7 DEF Chains, IsChain
<1>3. CASE w[Len(w)] \notin DOMAIN sup
  BY <1>3 DEF Climbed
<1> QED
  BY <1>2, <1>3

\* After n steps a walk is over or has n more classes than the one it starts from.
Goes(sup, w, n) == Len(w) \in 1 .. n + 1 /\ (Len(w) = n + 1 \/ w[Len(w)] \notin DOMAIN sup)

LEMMA SuperiorsAreChain ==
    ASSUME NEW sup, GoodSup(sup), NEW c, NEW n \in Nat
    PROVE  Superiors(sup, c, n) \in Chains(sup, c) /\ Goes(sup, Superiors(sup, c, n), n)
<1> DEFINE X == Chains(sup, c)
           F == [k \in 1 .. n |-> [w \in X |-> Climbed(sup, w)]]
           Eqn(g) == g = [k \in 0 .. n |->
                             IF k = 0 THEN <<c>>
                             ELSE LET w == g[k - 1] IN
                                  IF w[Len(w)] \in DOMAIN sup THEN Append(w, sup[w[Len(w)]]) ELSE w]
           it == CHOOSE g : Eqn(g)
<1>1. <<c>> \in X
  BY DEF Chains, IsChain
<1>2. F \in [1 .. n -> [X -> X]] /\ \A k \in 1 .. n : \A w \in X : F[k][w] = Climbed(sup, w)
  BY ChainClimbs
<1>3. PICK f \in [0 .. n -> X] : IsWalk(f, n, <<c>>, F)
  <2> HIDE DEF X, F
  <2> QED
    BY <1>1, <1>2, WalkExists
<1>4. Eqn(f)
  <2>1. ASSUME NEW k \in 0 .. n PROVE f[k] = IF k = 0 THEN <<c>> ELSE Climbed(sup, f[k - 1])
    <3>1. CASE k = 0
      BY <1>3, <3>1 DEF IsWalk
    <3>2. CASE k # 0
      <4>1. k \in 1 .. n /\ k - 1 \in 0 .. n
        BY <3>2
      <4>2. f[k - 1] \in X
        BY <1>3, <4>1
      <4> HIDE DEF X, F
      <4> QED
        BY <1>2, <1>3, <3>2, <4>1, <4>2 DEF IsWalk
    <3> QED
      BY <3>1, <3>2
  <2>2. f = [k \in 0 .. n |-> f[k]]
    BY <1>3
  <2> QED
    BY <2>1, <2>2 DEF Climbed
<1>5. Eqn(it)
  <2> HIDE DEF Eqn
  <2> QED
    BY <1>4
<1>6. Superiors(sup, c, n) = it[n]
  BY DEF Superiors
<1>7. \A k \in 0 .. n : it[k] = IF k = 0 THEN <<c>> ELSE Climbed(sup, it[k - 1])
  <2> HIDE DEF it
  <2> QED
    BY <1>5 DEF Climbed
<1> HIDE DEF it, X
<1> DEFINE P == {k \in 0 .. n : it[k] \in X /\ Goes(sup, it[k], k)}
<1>8. 0 \in P
  <2>1. it[0] = <<c>> /\ Len(<<c>>) = 1
    BY <1>7
  <2> QED
    BY <1>1, <2>1 DEF Goes
<1>9. ASSUME NEW k \in 0 .. n, k # n, k \in P PROVE k + 1 \in P
  <2>1. k + 1 \in 0 .. n /\ k + 1 # 0 /\ (k + 1) - 1 = k
    BY <1>9
  <2>2. it[k + 1] = Climbed(sup, it[k])
    BY <1>7, <2>1
  <2>3. it[k + 1] \in X
    BY <1>9, <2>2, ChainClimbs DEF X
  <2>4. Goes(sup, it[k + 1], k + 1)
    <3> DEFINE w == it[k]
    <3>1. w \in Seq(Ranked \cup {c}) /\ Goes(sup, w, k) /\ it[k + 1] = Climbed(sup, w)
      BY <1>9, <2>2 DEF X, Chains
    <3> HIDE DEF w
    <3>2. CASE w[Len(w)] \in DOMAIN sup
      <4>1. Len(w) = k + 1
        BY <3>1, <3>2 DEF Goes
      <4>2. Len(it[k + 1]) = k + 2
        BY <3>1, <3>2, <4>1 DEF Climbed
      <4> QED
        BY <2>1, <4>2 DEF Goes
    <3>3. CASE w[Len(w)] \notin DOMAIN sup
      <4>1. it[k + 1] = w
        BY <3>1, <3>3 DEF Climbed
      <4>2. Len(w) \in 1 .. (k + 1) + 1
        BY <2>1, <3>1 DEF Goes
      <4> QED
        BY <3>3, <4>1, <4>2 DEF Goes
    <3> QED
      BY <3>2, <3>3
  <2> QED
    BY <2>1, <2>3, <2>4
<1>10. n \in P
  <2>1. n \in 0 .. n
    OBVIOUS
  <2> HIDE DEF P
  <2> QED
    BY <1>8, <1>9, <2>1, Climb
<1> QED
  BY <1>6, <1>10 DEF X

LEMMA DepthIsNumber ==
    ASSUME NEW sup, GoodSup(sup), NEW c
    PROVE  Depth(sup, c) \in Int
<1> DEFINE w == Superiors(sup, c, Cardinality(DOMAIN sup))
           tops == {n \in DOMAIN w : w[n] = "top"}
<1>1. w \in Seq(Ranked \cup {c})
  <2>1. Cardinality(DOMAIN sup) \in Nat
    BY FS_CardinalityType DEF GoodSup
  <2> QED
    BY <2>1, SuperiorsAreChain DEF Chains
<1> HIDE DEF w
<1>2. tops \in SUBSET Nat
  BY <1>1
<1>3. tops # {} => (CHOOSE n \in tops : \A k \in tops : n <= k) \in Nat
  <2> SUFFICES ASSUME tops # {} PROVE (CHOOSE n \in tops : \A k \in tops : n <= k) \in Nat
    OBVIOUS
  <2>1. \E n \in tops : \A k \in tops : n <= k
    <3> HIDE DEF tops
    <3> QED
      BY <1>2, LeastNumber
  <2> HIDE DEF tops
  <2> QED
    BY <1>2, <2>1
<1> HIDE DEF tops
<1>4. Depth(sup, c) = IF c # "top" /\ c \notin DOMAIN sup THEN 99
                      ELSE IF tops = {} THEN 1 ELSE (CHOOSE n \in tops : \A k \in tops : n <= k) - 1
  BY DEF Depth, tops, w
<1> QED
  BY <1>3, <1>4

-----------------------------------------------------------------------------
(* The classes an entry has without listing them.                            *)

Added == [text : Ranked, from : Ranked]

\* How far a walk of M steps goes, with those in Q to pass.
LEMMA Furthest ==
    ASSUME NEW M \in Nat, M # 0, NEW Q
    PROVE  \E n \in 1 .. M : /\ n <= 33 /\ \A k \in 2 .. n : k \in Q
                             /\ n < M /\ n < 33 => n + 1 \notin Q
<1> DEFINE S == {n \in 1 .. M : n <= 33 /\ \A k \in 2 .. n : k \in Q}
<1>1. S \in SUBSET (1 .. M) /\ S # {}
  <2>1. 1 \in S
    OBVIOUS
  <2> QED
    BY <2>1
<1>2. Max(S) \in S /\ \A n \in S : n <= Max(S)
  <2> HIDE DEF S
  <2> QED
    BY <1>1, HighestNumber
<1> DEFINE m == Max(S)
<1>3. m \in S /\ \A n \in S : n <= m
  BY <1>2
<1> HIDE DEF m
<1>4. m < M /\ m < 33 => m + 1 \notin Q
  <2> SUFFICES ASSUME m < M, m < 33, m + 1 \in Q PROVE FALSE
    OBVIOUS
  <2>1. m \in Nat /\ m + 1 \in 1 .. M /\ m + 1 <= 33 /\ ~(m + 1 <= m)
    BY <1>3
  <2>2. \A k \in 2 .. m + 1 : k \in 2 .. m \/ k = m + 1
    BY <2>1
  <2>3. m + 1 \in S
    BY <1>3, <2>1, <2>2
  <2> QED
    BY <1>3, <2>1, <2>3
<1> QED
  BY <1>3, <1>4

\* The superiors added for one class.
Adds(sup, lower, c, there) ==
    LET w == Superiors(sup, c, Cardinality(DOMAIN sup))
        New(n) == /\ Lower[w[n]] \notin lower \cup there
                  /\ \A k \in 2 .. n - 1 : Lower[w[k]] # Lower[w[n]]
        len == CHOOSE n \in DOMAIN w : /\ n <= 33 /\ \A k \in 2 .. n : New(k)
                                       /\ n < Len(w) /\ n < 33 => ~New(n + 1)
    IN [k \in 1 .. len - 1 |-> [text |-> w[k + 1], from |-> w[k]]]

\* The n-th class of a walk is neither in S nor earlier on the walk.
FreshAt(w, S, n) == Lower[w[n]] \notin S /\ \A k \in 2 .. n - 1 : Lower[w[k]] # Lower[w[n]]

\* How far the walk goes: up to a class that is there, or 32 steps.
StopsAt(w, S, len) ==
    /\ len \in 1 .. Len(w) /\ len <= 33
    /\ \A k \in 2 .. len : FreshAt(w, S, k)
    /\ len < Len(w) /\ len < 33 => ~FreshAt(w, S, len + 1)

\* t has the classes of the walk up to there, each with the one it comes from.
TakenFrom(t, w, S) ==
    \E len : StopsAt(w, S, len) /\ t = [k \in 1 .. len - 1 |-> [text |-> w[k + 1], from |-> w[k]]]

LEMMA AddsAre ==
    ASSUME NEW sup, GoodSup(sup), NEW lower, NEW c, NEW there
    PROVE  TakenFrom(Adds(sup, lower, c, there), Superiors(sup, c, Cardinality(DOMAIN sup)), lower \cup there)
<1> DEFINE w == Superiors(sup, c, Cardinality(DOMAIN sup))
           S == lower \cup there
           New(n) == FreshAt(w, S, n)
           Fits(n) == /\ n <= 33 /\ \A k \in 2 .. n : New(k)
                      /\ n < Len(w) /\ n < 33 => ~New(n + 1)
           len == CHOOSE n \in DOMAIN w : Fits(n)
<1>1. w \in Seq(Ranked \cup {c}) /\ IsChain(w, sup, c)
  <2>1. Cardinality(DOMAIN sup) \in Nat
    BY FS_CardinalityType DEF GoodSup
  <2> QED
    BY <2>1, SuperiorsAreChain DEF Chains
<1> DEFINE M == Len(w)
<1>2. M \in Nat /\ M # 0 /\ DOMAIN w = 1 .. M
  BY <1>1 DEF IsChain
<1>4. Adds(sup, lower, c, there) = [k \in 1 .. len - 1 |-> [text |-> w[k + 1], from |-> w[k]]]
  BY Zenon DEF Adds, FreshAt
<1>3. len \in 1 .. M /\ Fits(len)
  <2> DEFINE Q == {k \in 1 .. M : New(k)}
  <2> HIDE DEF w, New
  <2>1. PICK n \in 1 .. M : /\ n <= 33 /\ \A k \in 2 .. n : k \in Q
                            /\ n < M /\ n < 33 => n + 1 \notin Q
    <3> HIDE DEF M, Q
    <3> QED
      BY <1>2, Furthest
  <2>2. n < M => n + 1 \in 1 .. M
    BY <1>2
  <2>3. Fits(n)
    BY <2>1, <2>2
  <2> HIDE DEF Fits
  <2> QED
    BY <1>2, <2>3
<1>5. StopsAt(w, S, len)
  <2> HIDE DEF w, len
  <2> QED
    BY <1>3 DEF StopsAt
<1> HIDE DEF w, len
<1> QED
  BY <1>4, <1>5 DEF TakenFrom, w

LEMMA AddsTyped ==
    ASSUME NEW sup, GoodSup(sup), NEW lower, NEW c, NEW there
    PROVE  Adds(sup, lower, c, there) \in Seq(Added)
<1> DEFINE w == Superiors(sup, c, Cardinality(DOMAIN sup))
           M == Len(w)
<1>1. IsChain(w, sup, c)
  <2>1. Cardinality(DOMAIN sup) \in Nat
    BY FS_CardinalityType DEF GoodSup
  <2> QED
    BY <2>1, SuperiorsAreChain DEF Chains
<1>2. PICK len : /\ StopsAt(w, lower \cup there, len)
                 /\ Adds(sup, lower, c, there) = [k \in 1 .. len - 1 |-> [text |-> w[k + 1], from |-> w[k]]]
  <2>1. TakenFrom(Adds(sup, lower, c, there), w, lower \cup there)
    BY AddsAre
  <2> HIDE DEF w
  <2> QED
    BY <2>1 DEF TakenFrom
<1> HIDE DEF w, M
<1>3. M \in Nat /\ len \in 1 .. M
  BY <1>1, <1>2 DEF IsChain, StopsAt, M
<1>5. ASSUME NEW k \in 1 .. len - 1 PROVE w[k] \in Ranked /\ w[k + 1] \in Ranked
  <2>1. k \in 1 .. M /\ k # M
    BY <1>3
  <2>2. w[k] \in DOMAIN sup /\ w[k + 1] = sup[w[k]]
    BY <1>1, <2>1 DEF IsChain, M
  <2> QED
    BY <2>2 DEF GoodSup
<1>6. len - 1 \in Nat
  BY <1>3
<1>7. \A k \in 1 .. len - 1 : [text |-> w[k + 1], from |-> w[k]] \in Added
  BY <1>5 DEF Added
<1> QED
  BY <1>2, <1>6, <1>7

LowerOf(s) == {Lower[s[n]] : n \in DOMAIN s}
There(s) == {Lower[s[k].text] : k \in DOMAIN s}

\* f[n] is what is added for the first n classes that are listed.
IsAdding(f, sup, listed) ==
    /\ f[0] = <<>>
    /\ \A n \in 1 .. Len(listed) :
           f[n] = f[n - 1] \o Adds(sup, LowerOf(listed), listed[n], There(f[n - 1]))

LEMMA ImplicitIs ==
    ASSUME NEW sup, GoodSup(sup), NEW X, NEW listed \in Seq(X)
    PROVE  \E f : /\ IsAdding(f, sup, listed) /\ Implicit(sup, listed) = f[Len(listed)]
                  /\ \A n \in 0 .. Len(listed) : f[n] \in Seq(Added)
<1> DEFINE N == Len(listed)
           lower == LowerOf(listed)
           Y == Seq(Added)
           Step(n, s) == s \o Adds(sup, lower, listed[n], There(s))
           F == [n \in 1 .. N |-> [s \in Y |-> Step(n, s)]]
           Eqn(g) == g = [n \in 0 .. N |-> IF n = 0 THEN <<>> ELSE Step(n, g[n - 1])]
           it == CHOOSE g : Eqn(g)
<1>1. N \in Nat /\ <<>> \in Y
  OBVIOUS
<1>2. ASSUME NEW n \in 1 .. N, NEW s \in Y PROVE Step(n, s) \in Y
  <2> DEFINE t == Adds(sup, lower, listed[n], There(s))
  <2>1. t \in Seq(Added)
    <3> HIDE DEF lower
    <3> QED
      BY AddsTyped
  <2> HIDE DEF t
  <2>2. s \o t \in Seq(Added)
    BY <2>1
  <2> QED
    BY <2>2 DEF t
<1>3. Implicit(sup, listed) = it[N]
  BY DEF Implicit, Adds, LowerOf, There
<1> HIDE DEF Step, N, Y
<1>4. F \in [1 .. N -> [Y -> Y]] /\ \A n \in 1 .. N : \A s \in Y : F[n][s] = Step(n, s)
  BY <1>2
<1>5. PICK f \in [0 .. N -> Y] : IsWalk(f, N, <<>>, F)
  <2> HIDE DEF F
  <2> QED
    BY <1>1, <1>4, WalkExists
<1>6. Eqn(f)
  <2>1. ASSUME NEW n \in 0 .. N PROVE f[n] = IF n = 0 THEN <<>> ELSE Step(n, f[n - 1])
    <3>1. CASE n = 0
      BY <1>5, <3>1 DEF IsWalk
    <3>2. CASE n # 0
      <4>1. n \in 1 .. N /\ n - 1 \in 0 .. N
        BY <1>1, <3>2
      <4>2. f[n - 1] \in Y
        BY <1>5, <4>1
      <4> HIDE DEF F
      <4> QED
        BY <1>4, <1>5, <3>2, <4>1, <4>2 DEF IsWalk
    <3> QED
      BY <3>1, <3>2
  <2>2. f = [n \in 0 .. N |-> f[n]]
    BY <1>5
  <2> QED
    BY <2>1, <2>2
<1>7. Eqn(it)
  <2> HIDE DEF Eqn
  <2> QED
    BY <1>6
<1>8. \A n \in 0 .. N : it[n] = IF n = 0 THEN <<>> ELSE Step(n, it[n - 1])
  <2> HIDE DEF it
  <2> QED
    BY <1>7
<1> HIDE DEF it
<1> DEFINE P == {n \in 0 .. N : it[n] \in Y}
<1>9. 0 \in P
  BY <1>1, <1>8
<1>10. ASSUME NEW n \in 0 .. N, n # N, n \in P PROVE n + 1 \in P
  <2>1. n + 1 \in 1 .. N /\ n + 1 \in 0 .. N /\ n + 1 # 0 /\ (n + 1) - 1 = n
    BY <1>1, <1>10
  <2>2. it[n + 1] = Step(n + 1, it[n])
    BY <1>8, <2>1
  <2> QED
    BY <1>2, <1>10, <2>1, <2>2
<1>11. \A n \in 0 .. N : n \in P
  <2> HIDE DEF P
  <2> QED
    BY <1>1, <1>9, <1>10, Climb
<1>12. IsAdding(it, sup, listed)
  <2>1. it[0] = <<>>
    <3>1. 0 \in 0 .. N
      BY <1>1
    <3> QED
      BY <1>8, <3>1
  <2>2. ASSUME NEW n \in 1 .. N PROVE it[n] = Step(n, it[n - 1])
    <3>1. n \in 0 .. N /\ n # 0
      BY <1>1
    <3> QED
      BY <1>8, <3>1
  <2> QED
    BY <2>1, <2>2 DEF IsAdding, Step, N
<1> QED
  BY <1>3, <1>11, <1>12 DEF Y, N

LEMMA ImplicitTyped ==
    ASSUME NEW sup, GoodSup(sup), NEW X, NEW listed \in Seq(X)
    PROVE  Implicit(sup, listed) \in Seq(Added) /\ (listed = <<>> => Implicit(sup, listed) = <<>>)
<1>1. PICK f : /\ IsAdding(f, sup, listed) /\ Implicit(sup, listed) = f[Len(listed)]
               /\ \A n \in 0 .. Len(listed) : f[n] \in Seq(Added)
  BY ImplicitIs
<1>2. Len(listed) \in 0 .. Len(listed) /\ (listed = <<>> => Len(listed) = 0)
  OBVIOUS
<1> QED
  BY <1>1, <1>2 DEF IsAdding

-----------------------------------------------------------------------------
(* Sorting.                                                                  *)

\* o lists S in the order of B.
Lists(o, S, B) == \A m \in 1 .. Cardinality(S) : o[m] \in S /\ Cardinality(Below(B, S, o[m])) = m - 1

LEMMA ListedOnce ==
    ASSUME NEW S, IsFiniteSet(S), NEW B, Orders(B, S), NEW o, Lists(o, S, B)
    PROVE  /\ \A m, n \in 1 .. Cardinality(S) : o[m] = o[n] => m = n
           /\ \A x \in S : \E m \in 1 .. Cardinality(S) : o[m] = x
<1>1. Cardinality(S) \in Nat
  BY FS_CardinalityType
<1>2. ASSUME NEW m \in 1 .. Cardinality(S), NEW n \in 1 .. Cardinality(S), o[m] = o[n] PROVE m = n
  <2>1. m - 1 = n - 1
    BY <1>2 DEF Lists
  <2> QED
    BY <1>1, <2>1
<1>3. ASSUME NEW x \in S PROVE \E m \in 1 .. Cardinality(S) : o[m] = x
  <2> DEFINE k == Cardinality(Below(B, S, x))
  <2>1. k \in 0 .. Cardinality(S) - 1
    BY RanksAreAll
  <2>2. k + 1 \in 1 .. Cardinality(S) /\ (k + 1) - 1 = k
    BY <1>1, <2>1
  <2>3. o[k + 1] \in S /\ Cardinality(Below(B, S, o[k + 1])) = k
    BY <2>2 DEF Lists
  <2>4. o[k + 1] = x
    BY <2>3, RanksAreAll
  <2> QED
    BY <2>2, <2>4
<1> QED
  BY <1>2, <1>3

\* Numbers in the order of D, then of q, then their own.
KeyOrder(N, D, q) ==
    {p \in (1 .. N) \X (1 .. N) :
        \/ D[p[1]] < D[p[2]]
        \/ /\ D[p[1]] = D[p[2]]
           /\ q[p[1]] < q[p[2]] \/ (q[p[1]] = q[p[2]] /\ p[1] < p[2])}

LEMMA KeysOrder ==
    ASSUME NEW N \in Nat, NEW D \in [1 .. N -> Int], NEW q \in [1 .. N -> Int]
    PROVE  Orders(KeyOrder(N, D, q), 1 .. N)
<1> DEFINE B == KeyOrder(N, D, q)
<1>1. ASSUME NEW x \in 1 .. N, NEW y \in 1 .. N
      PROVE  <<x, y>> \in B <=> \/ D[x] < D[y]
                                \/ D[x] = D[y] /\ (q[x] < q[y] \/ (q[x] = q[y] /\ x < y))
  BY DEF KeyOrder
<1> HIDE DEF B
<1>2. ASSUME NEW x \in 1 .. N, NEW y \in 1 .. N, NEW z \in 1 .. N
      PROVE  /\ <<x, x>> \notin B
             /\ <<x, y>> \in B /\ <<y, z>> \in B => <<x, z>> \in B
             /\ x # y => <<x, y>> \in B \/ <<y, x>> \in B
  <2>1. /\ D[x] \in Int /\ D[y] \in Int /\ D[z] \in Int
        /\ q[x] \in Int /\ q[y] \in Int /\ q[z] \in Int
    OBVIOUS
  <2>2. <<x, x>> \notin B
    BY <1>1, <2>1
  <2>3. <<x, y>> \in B /\ <<y, z>> \in B => <<x, z>> \in B
    <3>1. <<x, y>> \in B <=> D[x] < D[y] \/ (D[x] = D[y] /\ (q[x] < q[y] \/ (q[x] = q[y] /\ x < y)))
      BY <1>1
    <3>2. <<y, z>> \in B <=> D[y] < D[z] \/ (D[y] = D[z] /\ (q[y] < q[z] \/ (q[y] = q[z] /\ y < z)))
      BY <1>1
    <3>3. <<x, z>> \in B <=> D[x] < D[z] \/ (D[x] = D[z] /\ (q[x] < q[z] \/ (q[x] = q[z] /\ x < z)))
      BY <1>1
    <3> QED
      BY <2>1, <3>1, <3>2, <3>3
  <2>4. x # y => <<x, y>> \in B \/ <<y, x>> \in B
    BY <1>1, <2>1
  <2> QED
    BY <2>2, <2>3, <2>4
<1>3. Orders(B, 1 .. N)
  BY <1>2 DEF Orders
<1> QED
  BY <1>3 DEF B

\* The provers do not take a string that is spelled out for a member of STRING.
Text == STRING \cup {"", "objectClass", "objectclass", "[+N more]"}
RowType == [name : Text, base : Text, text : Text, len : Nat, brace : Int,
            from : Text, toggle : BOOLEAN, hidden : Nat]

LEMMA RowTyped ==
    ASSUME NEW n \in Text, NEW b \in Text, NEW t \in Text, NEW l \in Nat, NEW c \in Int,
           NEW f \in Text, NEW g \in BOOLEAN, NEW h \in Nat
    PROVE  [name |-> n, base |-> b, text |-> t, len |-> l, brace |-> c,
            from |-> f, toggle |-> g, hidden |-> h] \in RowType
BY Zenon DEF RowType

\* s has the rows of g in some order.
Reorders(s, g) == \E p : Permutes(p, Len(g)) /\ s = [m \in 1 .. Len(g) |-> g[p[m]]]

AddedAreRanked(g) == \A n \in DOMAIN g : g[n].from # "" => g[n].text \in Ranked

\* An order in which each of 1 .. N comes after as many as are Before it, which go by keys.
LEMMA KeysSort ==
    ASSUME NEW N \in Nat, NEW D \in [1 .. N -> Int], NEW q \in [1 .. N -> Int], NEW o, DOMAIN o = 1 .. N,
           \A m \in 1 .. N : o[m] \in 1 .. N /\ Cardinality(Below(KeyOrder(N, D, q), 1 .. N, o[m])) = m - 1
    PROVE  Permutes([m \in 1 .. N |-> o[m]], N)
<1> DEFINE S == 1 .. N
           B == KeyOrder(N, D, q)
<1>1. IsFiniteSet(S) /\ Cardinality(S) = N
  <2>1. Cardinality(S) = IF 1 > N THEN 0 ELSE N - 1 + 1
    BY FS_Interval
  <2> QED
    BY <2>1, FS_Interval
<1>2. Orders(B, S)
  BY KeysOrder
<1>3. Lists(o, S, B)
  BY <1>1 DEF Lists
<1> HIDE DEF S, B
<1>4. /\ \A m, n \in 1 .. N : o[m] = o[n] => m = n
      /\ \A x \in S : \E m \in 1 .. N : o[m] = x
  BY <1>1, <1>2, <1>3, ListedOnce
<1> QED
  BY <1>4 DEF Permutes, S

LEMMA NumberWithRank ==
    ASSUME NEW N \in Nat, NEW D \in [1 .. N -> Int], NEW q \in [1 .. N -> Int]
    PROVE  \A m \in 1 .. N : \E x \in 1 .. N : Cardinality(Below(KeyOrder(N, D, q), 1 .. N, x)) = m - 1
<1> DEFINE S == 1 .. N
           B == KeyOrder(N, D, q)
<1>1. IsFiniteSet(S) /\ Cardinality(S) = N
  <2>1. Cardinality(S) = IF 1 > N THEN 0 ELSE N - 1 + 1
    BY FS_Interval
  <2> QED
    BY <2>1, FS_Interval
<1>2. Orders(B, S)
  BY KeysOrder
<1> HIDE DEF S, B
<1>3. \A m \in 1 .. Cardinality(S) : \E x \in S : Cardinality(Below(B, S, x)) = m - 1
  BY <1>1, <1>2, RanksAreAll
<1> QED
  BY <1>1, <1>3 DEF S, B

LEMMA SameReorders ==
    ASSUME NEW X, NEW g \in Seq(X)
    PROVE  Reorders(g, g)
<1> DEFINE p == [m \in 1 .. Len(g) |-> m]
<1>1. Permutes(p, Len(g))
  BY DEF Permutes
<1>2. g = [m \in 1 .. Len(g) |-> g[p[m]]]
  OBVIOUS
<1> HIDE DEF p
<1> QED
  BY <1>1, <1>2 DEF Reorders

DepthsGrow(sup, g) ==
    \A m, n \in DOMAIN g : Depth(sup, g[m].text) < Depth(sup, g[n].text) => m < n

LEMMA ClassesSort ==
    ASSUME NEW sup, GoodSup(sup), NEW g \in Seq(RowType), AddedAreRanked(g)
    PROVE  /\ Reorders(Sorted(sup, "objectclass", g), g)
           /\ sup # <<>> => DepthsGrow(sup, Sorted(sup, "objectclass", g))
<1> DEFINE N == Len(g)
           D == [m \in 1 .. N |-> IF sup = <<>> THEN 99 ELSE Depth(sup, g[m].text)]
           q == [m \in 1 .. N |-> IF g[m].from = "" THEN 0 ELSE Rank[g[m].text] + 1]
           Less(y, x) == Deeper(sup, g[y], g[x]) \/ (y < x /\ ~Deeper(sup, g[x], g[y]))
           o == [m \in 1 .. N |-> CHOOSE x \in 1 .. N : Cardinality({y \in 1 .. N : Less(y, x)}) = m - 1]
<1>1. N \in Nat /\ DOMAIN g = 1 .. N /\ Cardinality(DOMAIN g) = N /\ \A m \in 1 .. N : g[m] \in RowType
  <2>1. N \in Nat /\ DOMAIN g = 1 .. N /\ \A m \in 1 .. N : g[m] \in RowType
    OBVIOUS
  <2> HIDE DEF N
  <2>2. Cardinality(1 .. N) = IF 1 > N THEN 0 ELSE N - 1 + 1
    BY <2>1, FS_Interval
  <2> QED
    BY <2>1, <2>2
<1>2. Sorted(sup, "objectclass", g) = [m \in 1 .. N |-> g[o[m]]]
  BY <1>1 DEF Sorted, StableSort, Listed
<1> HIDE DEF N
<1>3. D \in [1 .. N -> Int]
  BY DepthIsNumber
<1>4. /\ q \in [1 .. N -> Nat]
      /\ \A m \in 1 .. N : g[m].from # "" => q[m] = Rank[g[m].text] + 1 /\ Rank[g[m].text] \in Nat
  <2>1. ASSUME NEW m \in 1 .. N, g[m].from # "" PROVE Rank[g[m].text] \in Nat
    <3>1. g[m].text \in Ranked
      BY <1>1, <2>1 DEF AddedAreRanked
    <3> QED
      BY <3>1, RankAssumption DEF Ranked
  <2>2. ASSUME NEW m \in 1 .. N
        PROVE  (IF g[m].from = "" THEN 0 ELSE Rank[g[m].text] + 1) \in Nat
    <3>1. CASE g[m].from = ""
      BY <3>1
    <3>2. CASE g[m].from # ""
      <4>1. Rank[g[m].text] + 1 \in Nat
        <5> DEFINE r == Rank[g[m].text]
        <5>1. r \in Nat
          BY <2>1, <3>2
        <5> HIDE DEF r
        <5>2. r + 1 \in Nat
          BY <5>1
        <5> QED
          BY <5>2 DEF r
      <4> QED
        BY <3>2, <4>1
    <3> QED
      BY <3>1, <3>2
  <2>4. q \in [1 .. N -> Nat]
    BY <2>2
  <2> QED
    BY <2>1, <2>4
<1>5. ASSUME NEW y \in 1 .. N, NEW x \in 1 .. N
      PROVE  Deeper(sup, g[y], g[x]) <=> D[y] < D[x] \/ (D[y] = D[x] /\ q[y] < q[x])
  <2>1. D[y] \in Int /\ D[x] \in Int
    BY <1>3
  <2>2. /\ D[y] = (IF sup = <<>> THEN 99 ELSE Depth(sup, g[y].text))
        /\ D[x] = (IF sup = <<>> THEN 99 ELSE Depth(sup, g[x].text))
    OBVIOUS
  <2>3. q[y] < q[x] <=> g[x].from # "" /\ (g[y].from = "" \/ Rank[g[y].text] < Rank[g[x].text])
    <3>1. g[x].from = "" => q[x] = 0
      OBVIOUS
    <3>2. g[y].from = "" => q[y] = 0
      OBVIOUS
    <3> HIDE DEF q
    <3>3. q[x] \in Nat /\ q[y] \in Nat
      BY <1>4
    <3>4. g[x].from # "" => q[x] = Rank[g[x].text] + 1 /\ Rank[g[x].text] \in Nat
      BY <1>4
    <3>5. g[y].from # "" => q[y] = Rank[g[y].text] + 1 /\ Rank[g[y].text] \in Nat
      BY <1>4
    <3> DEFINE fx == g[x].from
               fy == g[y].from
               rx == Rank[g[x].text]
               ry == Rank[g[y].text]
    <3> HIDE DEF fx, fy, rx, ry
    <3>6. /\ IF fx = "" THEN q[x] = 0 ELSE q[x] = rx + 1 /\ rx \in Nat
          /\ IF fy = "" THEN q[y] = 0 ELSE q[y] = ry + 1 /\ ry \in Nat
      BY <3>1, <3>2, <3>4, <3>5 DEF fx, fy, rx, ry
    <3>7. q[y] < q[x] <=> fx # "" /\ (fy = "" \/ ry < rx)
      <4>1. CASE fx = ""
        <5>1. q[x] = 0
          BY <3>6, <4>1
        <5>2. ~(q[y] < q[x])
          BY <3>3, <5>1
        <5> QED
          BY <4>1, <5>2
      <4>2. CASE fx # "" /\ fy = ""
        <5>1. q[x] = rx + 1 /\ rx \in Nat /\ q[y] = 0
          BY <3>6, <4>2
        <5>2. q[y] < q[x]
          BY <5>1
        <5> QED
          BY <4>2, <5>2
      <4>3. CASE fx # "" /\ fy # ""
        <5>1. q[x] = rx + 1 /\ rx \in Nat /\ q[y] = ry + 1 /\ ry \in Nat
          BY <3>6, <4>3
        <5>2. q[y] < q[x] <=> ry < rx
          BY <5>1
        <5> QED
          BY <4>3, <5>2
      <4> QED
        BY <4>1, <4>2, <4>3
    <3> QED
      BY <3>7 DEF fx, fy, rx, ry
  <2>4. Deeper(sup, g[y], g[x]) <=>
           \/ D[y] < D[x]
           \/ D[y] = D[x] /\ g[x].from # "" /\ (g[y].from = "" \/ Rank[g[y].text] < Rank[g[x].text])
    BY DEF Deeper
  <2> QED
    BY <2>3, <2>4
<1> HIDE DEF D, q
<1>6. ASSUME NEW x \in 1 .. N PROVE {y \in 1 .. N : Less(y, x)} = Below(KeyOrder(N, D, q), 1 .. N, x)
  <2>1. ASSUME NEW y \in 1 .. N PROVE Less(y, x) <=> <<y, x>> \in KeyOrder(N, D, q)
    <3>1. D[y] \in Int /\ D[x] \in Int /\ q[y] \in Nat /\ q[x] \in Nat
      BY <1>3, <1>4
    <3>0. x \in Nat /\ y \in Nat
      BY <1>1
    <3>2. /\ Deeper(sup, g[y], g[x]) <=> D[y] < D[x] \/ (D[y] = D[x] /\ q[y] < q[x])
          /\ Deeper(sup, g[x], g[y]) <=> D[x] < D[y] \/ (D[x] = D[y] /\ q[x] < q[y])
      BY <1>5
    <3>3. Less(y, x) <=> \/ D[y] < D[x]
                         \/ D[y] = D[x] /\ (q[y] < q[x] \/ (q[y] = q[x] /\ y < x))
      BY <3>0, <3>1, <3>2
    <3>4. <<y, x>> \in KeyOrder(N, D, q) <=>
              \/ D[y] < D[x]
              \/ D[y] = D[x] /\ (q[y] < q[x] \/ (q[y] = q[x] /\ y < x))
      BY DEF KeyOrder
    <3> QED
      BY <3>3, <3>4
  <2> HIDE DEF Less
  <2> QED
    BY <2>1 DEF Below
<1> HIDE DEF Less
<1>10. q \in [1 .. N -> Int]
  <2>1. q \in [1 .. N -> Nat]
    BY <1>4
  <2> QED
    BY <2>1
<1>7. ASSUME NEW m \in 1 .. N
      PROVE  o[m] \in 1 .. N /\ Cardinality(Below(KeyOrder(N, D, q), 1 .. N, o[m])) = m - 1
  <2>1. \E x \in 1 .. N : Cardinality({y \in 1 .. N : Less(y, x)}) = m - 1
    <3>1. PICK x \in 1 .. N : Cardinality(Below(KeyOrder(N, D, q), 1 .. N, x)) = m - 1
      BY <1>1, <1>3, <1>10, NumberWithRank
    <3> QED
      BY <1>6, <3>1
  <2>2. o[m] \in 1 .. N /\ Cardinality({y \in 1 .. N : Less(y, o[m])}) = m - 1
    BY <2>1
  <2> QED
    BY <1>6, <2>2
<1>8. DOMAIN o = 1 .. N
  OBVIOUS
<1> HIDE DEF o
<1>9. Permutes(o, N)
  <2>1. Permutes([m \in 1 .. N |-> o[m]], N)
    BY <1>1, <1>3, <1>10, <1>7, <1>8, KeysSort
  <2>2. o = [m \in 1 .. N |-> o[m]]
    <3> DEFINE f(m) == CHOOSE x \in 1 .. N : Cardinality({y \in 1 .. N : Less(y, x)}) = m - 1
    <3>1. o = [m \in 1 .. N |-> f(m)]
      BY DEF o
    <3> HIDE DEF f
    <3> QED
      BY <3>1
  <2> QED
    BY <2>1, <2>2
<1>11. sup # <<>> => DepthsGrow(sup, [m \in 1 .. N |-> g[o[m]]])
  <2> DEFINE B == KeyOrder(N, D, q)
             S == 1 .. N
  <2> SUFFICES ASSUME sup # <<>>, NEW m \in S, NEW n \in S,
                      Depth(sup, g[o[m]].text) < Depth(sup, g[o[n]].text)
               PROVE  m < n
    BY DEF DepthsGrow
  <2>1. /\ o[m] \in S /\ Cardinality(Below(B, S, o[m])) = m - 1
        /\ o[n] \in S /\ Cardinality(Below(B, S, o[n])) = n - 1
    BY <1>7
  <2>2. D[o[m]] = Depth(sup, g[o[m]].text) /\ D[o[n]] = Depth(sup, g[o[n]].text)
    BY <2>1 DEF D
  <2>3. <<o[m], o[n]>> \in B
    BY <2>1, <2>2 DEF KeyOrder
  <2>4. Orders(B, S)
    BY <1>1, <1>3, <1>10, KeysOrder
  <2>6. N \in Nat
    BY <1>1
  <2>7. IsFiniteSet(S) /\ m \in Nat /\ n \in Nat
    BY <2>6, FS_Interval
  <2> HIDE DEF B, S
  <2>5. m - 1 < n - 1
    BY <2>1, <2>3, <2>4, <2>7, RankGrows
  <2> QED
    BY <2>5, <2>7
<1> QED
  BY <1>2, <1>9, <1>11 DEF Reorders, N

LEMMA BracesSort ==
    ASSUME NEW sup, NEW b, b # "objectclass", NEW g \in Seq(RowType)
    PROVE  Reorders(Sorted(sup, b, g), g)
<1> DEFINE N == Len(g)
           D == [m \in 1 .. N |-> g[m].brace]
           q == [m \in 1 .. N |-> 0]
           Less(y, x) == LowerBrace(g[y], g[x]) \/ (y < x /\ ~LowerBrace(g[x], g[y]))
           o == [m \in 1 .. N |-> CHOOSE x \in 1 .. N : Cardinality({y \in 1 .. N : Less(y, x)}) = m - 1]
           f(m) == CHOOSE x \in 1 .. N : Cardinality({y \in 1 .. N : Less(y, x)}) = m - 1
<1>1. N \in Nat /\ DOMAIN g = 1 .. N /\ Cardinality(DOMAIN g) = N /\ \A m \in 1 .. N : g[m] \in RowType
  <2>1. N \in Nat /\ DOMAIN g = 1 .. N /\ \A m \in 1 .. N : g[m] \in RowType
    OBVIOUS
  <2> HIDE DEF N
  <2>2. Cardinality(1 .. N) = IF 1 > N THEN 0 ELSE N - 1 + 1
    BY <2>1, FS_Interval
  <2> QED
    BY <2>1, <2>2
<1>2. Sorted(sup, b, g) = g \/ Sorted(sup, b, g) = [m \in 1 .. N |-> g[o[m]]]
  <2>1. CASE \A n \in DOMAIN g : g[n].brace # -1
    <3>1. Sorted(sup, b, g) = StableSort(g, LowerBrace)
      BY <2>1, Zenon DEF Sorted
    <3>2. StableSort(g, LowerBrace) = [m \in 1 .. N |-> g[o[m]]]
      BY <1>1 DEF StableSort, Listed
    <3> QED
      BY <3>1, <3>2
  <2>2. CASE ~\A n \in DOMAIN g : g[n].brace # -1
    BY <2>2 DEF Sorted
  <2> QED
    BY <2>1, <2>2
<1> HIDE DEF N
<1>3. D \in [1 .. N -> Int] /\ q \in [1 .. N -> Int] /\ \A x \in 1 .. N : D[x] = g[x].brace /\ q[x] = 0
  <2>1. \A m \in 1 .. N : g[m].brace \in Int
    BY <1>1 DEF RowType
  <2> QED
    BY <2>1
<1> HIDE DEF D, q
<1>4. ASSUME NEW x \in 1 .. N PROVE {y \in 1 .. N : Less(y, x)} = Below(KeyOrder(N, D, q), 1 .. N, x)
  <2>1. ASSUME NEW y \in 1 .. N PROVE Less(y, x) <=> <<y, x>> \in KeyOrder(N, D, q)
    <3>1. D[y] \in Int /\ D[x] \in Int /\ x \in Int /\ y \in Int
      BY <1>1, <1>3
    <3>2. Less(y, x) <=> D[y] < D[x] \/ (y < x /\ ~(D[x] < D[y]))
      BY <1>3 DEF LowerBrace
    <3>3. <<y, x>> \in KeyOrder(N, D, q) <=>
              \/ D[y] < D[x]
              \/ D[y] = D[x] /\ (q[y] < q[x] \/ (q[y] = q[x] /\ y < x))
      BY DEF KeyOrder
    <3>4. q[y] = 0 /\ q[x] = 0
      BY <1>3
    <3> QED
      BY <3>1, <3>2, <3>3, <3>4
  <2> HIDE DEF Less
  <2> QED
    BY <2>1 DEF Below
<1> HIDE DEF Less
<1>5. ASSUME NEW m \in 1 .. N
      PROVE  f(m) \in 1 .. N /\ Cardinality(Below(KeyOrder(N, D, q), 1 .. N, f(m))) = m - 1
  <2>1. PICK x \in 1 .. N : Cardinality(Below(KeyOrder(N, D, q), 1 .. N, x)) = m - 1
    BY <1>1, <1>3, NumberWithRank
  <2>2. f(m) \in 1 .. N /\ Cardinality({y \in 1 .. N : Less(y, f(m))}) = m - 1
    BY <1>4, <2>1
  <2> HIDE DEF f
  <2> QED
    BY <1>4, <2>2
<1>10. o = [m \in 1 .. N |-> f(m)]
  OBVIOUS
<1> HIDE DEF o, f
<1>6. Permutes([m \in 1 .. N |-> o[m]], N)
  <2>1. \A m \in 1 .. N : o[m] \in 1 .. N /\ Cardinality(Below(KeyOrder(N, D, q), 1 .. N, o[m])) = m - 1
    BY <1>5, <1>10
  <2>2. DOMAIN o = 1 .. N
    BY <1>10
  <2> QED
    BY <1>1, <1>3, <2>1, <2>2, KeysSort
<1>7. o = [m \in 1 .. N |-> o[m]]
  BY <1>10
<1>8. Reorders([m \in 1 .. N |-> g[o[m]]], g)
  BY <1>6, <1>7 DEF Reorders, N
<1>9. Reorders(g, g)
  BY SameReorders
<1> QED
  BY <1>2, <1>8, <1>9

LEMMA SortedReorders ==
    ASSUME NEW sup, GoodSup(sup), NEW b, NEW g \in Seq(RowType), AddedAreRanked(g)
    PROVE  Reorders(Sorted(sup, b, g), g)
BY ClassesSort, BracesSort

LEMMA ReorderedTyped ==
    ASSUME NEW X, NEW g \in Seq(X), NEW s, Reorders(s, g)
    PROVE  /\ s \in Seq(X) /\ Len(s) = Len(g)
           /\ \A n \in DOMAIN s : \E m \in DOMAIN g : s[n] = g[m]
           /\ \A m \in DOMAIN g : \E n \in DOMAIN s : s[n] = g[m]
<1>1. PICK p : Permutes(p, Len(g)) /\ s = [m \in 1 .. Len(g) |-> g[p[m]]]
  BY DEF Reorders
<1>2. Len(g) \in Nat /\ DOMAIN g = 1 .. Len(g) /\ \A m \in 1 .. Len(g) : g[m] \in X
  OBVIOUS
<1>3. \A m \in 1 .. Len(g) : p[m] \in 1 .. Len(g)
  BY <1>1 DEF Permutes
<1>4. \A k \in 1 .. Len(g) : \E n \in 1 .. Len(g) : p[n] = k
  BY <1>1 DEF Permutes
<1>5. \A m \in 1 .. Len(g) : s[m] = g[p[m]] /\ g[p[m]] \in X
  BY <1>1, <1>2, <1>3
<1>6. s \in Seq(X) /\ Len(s) = Len(g) /\ DOMAIN s = 1 .. Len(g)
  <2>1. s = [m \in 1 .. Len(g) |-> s[m]]
    BY <1>1, <1>5
  <2> QED
    BY <1>2, <1>5, <2>1
<1>7. \A n \in DOMAIN s : \E m \in DOMAIN g : s[n] = g[m]
  BY <1>2, <1>3, <1>5, <1>6
<1>8. ASSUME NEW m \in DOMAIN g PROVE \E n \in DOMAIN s : s[n] = g[m]
  <2>1. PICK n \in 1 .. Len(g) : p[n] = m
    BY <1>2, <1>4
  <2> QED
    BY <1>5, <1>6, <2>1
<1> QED
  BY <1>6, <1>7, <1>8

LEMMA ReorderedSum ==
    ASSUME NEW X, NEW w \in [X -> Nat], NEW g \in Seq(X), NEW s, Reorders(s, g)
    PROVE  SumOver(w, s) = SumOver(w, g)
<1> DEFINE N == Len(g)
           f == [n \in DOMAIN g |-> w[g[n]]]
           e == [n \in DOMAIN s |-> w[s[n]]]
<1>1. PICK p : Permutes(p, N) /\ s = [m \in 1 .. N |-> g[p[m]]]
  BY DEF Reorders
<1>2. N \in Nat /\ DOMAIN g = 1 .. N /\ \A m \in 1 .. N : g[m] \in X
  OBVIOUS
<1>3. Len(s) = N /\ DOMAIN s = 1 .. N
  <2>1. Len(s) = Len(g) /\ s \in Seq(X)
    BY ReorderedTyped
  <2> QED
    BY <2>1
<1>4. Nats(f, N)
  BY <1>2 DEF Nats
<1>5. \A n \in 1 .. N : e[n] = f[p[n]]
  <2>1. \A n \in 1 .. N : p[n] \in 1 .. N
    BY <1>1 DEF Permutes
  <2> HIDE DEF N
  <2> QED
    BY <1>1, <1>2, <1>3, <2>1
<1>6. SumFunctionOnSet(e, 1 .. N) = SumFunctionOnSet(f, 1 .. N)
  <2> HIDE DEF e, f, N
  <2> QED
    BY <1>1, <1>2, <1>4, <1>5, SumPermuted
<1> QED
  BY <1>3, <1>6 DEF SumOver

-----------------------------------------------------------------------------
(* The rows of one base type.                                                *)

Entry == [attrs : Seq(Attribute)]

LEMMA StringsRanked == Ranked \subseteq STRING /\ \A c \in Ranked : c # ""
BY RankAssumption DEF Ranked

LEMMA AttributesTyped ==
    ASSUME NEW e \in Entry
    PROVE  /\ Len(e.attrs) \in Nat /\ DOMAIN e.attrs = 1 .. Len(e.attrs)
           /\ \A n \in DOMAIN e.attrs : /\ e.attrs[n] \in Attribute
                                        /\ e.attrs[n].vals \in Seq(Value)
                                        /\ Len(e.attrs[n].vals) \in Nat
                                        /\ DOMAIN e.attrs[n].vals = 1 .. Len(e.attrs[n].vals)
                                        /\ e.attrs[n].vals # <<>> <=> Len(e.attrs[n].vals) # 0
<1>1. e.attrs \in Seq(Attribute)
  BY DEF Entry
<1>2. Len(e.attrs) \in Nat /\ DOMAIN e.attrs = 1 .. Len(e.attrs) /\ \A n \in DOMAIN e.attrs : e.attrs[n] \in Attribute
  BY <1>1
<1>3. ASSUME NEW n \in DOMAIN e.attrs
      PROVE  /\ e.attrs[n].vals \in Seq(Value) /\ Len(e.attrs[n].vals) \in Nat
             /\ DOMAIN e.attrs[n].vals = 1 .. Len(e.attrs[n].vals)
             /\ e.attrs[n].vals # <<>> <=> Len(e.attrs[n].vals) # 0
  <2> DEFINE v == e.attrs[n].vals
  <2>1. v \in Seq(Value)
    BY <1>2 DEF Attribute
  <2> HIDE DEF v
  <2>2. Len(v) \in Nat /\ DOMAIN v = 1 .. Len(v) /\ (v # <<>> <=> Len(v) # 0)
    BY <2>1
  <2> QED
    BY <2>1, <2>2 DEF v
<1> QED
  BY <1>2, <1>3

LEMMA ClassesTyped ==
    ASSUME NEW e \in Entry
    PROVE  Classes(e) \in Seq(STRING)
<1> DEFINE named == {n \in DOMAIN e.attrs : e.attrs[n].name = "objectClass"}
           m == CHOOSE n \in named : TRUE
           v == e.attrs[m].vals
<1>1. CASE named = {}
  BY <1>1 DEF Classes
<1>2. CASE named # {}
  <2>1. m \in DOMAIN e.attrs
    BY <1>2
  <2>2. Classes(e) = [k \in DOMAIN v |-> v[k].text]
    BY <1>2 DEF Classes
  <2> HIDE DEF m
  <2>3. v \in Seq(Value)
    BY <2>1, AttributesTyped
  <2> HIDE DEF v
  <2>5. Len(v) \in Nat /\ DOMAIN v = 1 .. Len(v) /\ \A k \in 1 .. Len(v) : v[k] \in Value
    BY <2>3
  <2>4. Len(v) \in Nat /\ DOMAIN v = 1 .. Len(v) /\ \A k \in 1 .. Len(v) : v[k].text \in STRING
    BY <2>5 DEF Value
  <2> QED
    BY <2>2, <2>4
<1> QED
  BY <1>1, <1>2

OfBase(a, b) == IF a.base # b THEN <<>> ELSE [k \in DOMAIN a.vals |-> ValueRow(a, a.vals[k])]
Parts(e, b) == [n \in DOMAIN e.attrs |-> OfBase(e.attrs[n], b)]
Unlisted(sup, e, b) == IF b # "objectclass" \/ sup = <<>> THEN <<>> ELSE Implicit(sup, Classes(e))
ImplicitRows(sup, e, b) == [k \in DOMAIN Unlisted(sup, e, b) |-> ImplicitRow(Unlisted(sup, e, b)[k])]
Raw(sup, e, b) == FlattenSeq(Parts(e, b)) \o ImplicitRows(sup, e, b)

LEMMA GroupSorts == \A sup, e, b : Group(sup, e, b) = Sorted(sup, b, Raw(sup, e, b))
BY Zenon DEF Group, Raw, Parts, OfBase, ImplicitRows, Unlisted

\* r shows a value of an attribute of e.
OfValue(e, b, r) ==
    /\ r.from = ""
    /\ \E n \in DOMAIN e.attrs : e.attrs[n].base = b /\ e.attrs[n].name = r.name /\ e.attrs[n].vals # <<>>
\* r is a row of b, for a value or for a class that is not listed.
RowOf(sup, e, b, r) ==
    /\ r \in RowType /\ r.base = b /\ ~r.toggle
    /\ OfValue(e, b, r) \/ (r.from # "" /\ r.text \in Ranked /\ Unlisted(sup, e, b) # <<>>)

LEMMA ValueRowFields ==
    \A a, v : /\ ValueRow(a, v).from = "" /\ ValueRow(a, v).name = a.name
              /\ ValueRow(a, v).base = a.base /\ ~ValueRow(a, v).toggle
<1>1. \A a, v : ValueRow(a, v).from = ""
  BY DEF ValueRow
<1>2. \A a, v : ValueRow(a, v).name = a.name /\ ValueRow(a, v).base = a.base
  BY DEF ValueRow
<1>3. \A a, v : ~ValueRow(a, v).toggle
  BY DEF ValueRow
<1> QED
  BY <1>1, <1>2, <1>3, Zenon

LEMMA ValueRowTyped ==
    ASSUME NEW a \in Attribute, NEW k \in DOMAIN a.vals
    PROVE  ValueRow(a, a.vals[k]) \in RowType
<1> DEFINE v == a.vals[k]
<1>1. v \in Value
  <2>1. a.vals \in Seq(Value)
    BY DEF Attribute
  <2> QED
    BY <2>1
<1> HIDE DEF v
<1>2. /\ a.name \in STRING /\ a.base \in STRING
      /\ v.text \in STRING /\ v.len \in Nat /\ v.brace \in Int
  BY <1>1, StringsRanked DEF Attribute, Value, Ranked
<1>3. ValueRow(a, v) \in RowType
  <2>1. 0 \in Nat /\ a.name \in Text /\ a.base \in Text /\ v.text \in Text /\ "" \in Text
    BY <1>2 DEF Text
  <2> QED
    BY <1>2, <2>1, RowTyped DEF ValueRow
<1> QED
  BY <1>3 DEF v

LEMMA OfBaseTyped ==
    ASSUME NEW a \in Attribute, NEW b
    PROVE  OfBase(a, b) \in Seq(RowType)
<1> DEFINE v == a.vals
<1>1. v \in Seq(Value)
  BY DEF Attribute
<1>2. \A k \in DOMAIN v : ValueRow(a, v[k]) \in RowType
  BY ValueRowTyped
<1>3. OfBase(a, b) = IF a.base # b THEN <<>> ELSE [k \in DOMAIN v |-> ValueRow(a, v[k])]
  BY DEF OfBase
<1> HIDE DEF v
<1>4. Len(v) \in Nat /\ DOMAIN v = 1 .. Len(v)
  BY <1>1
<1> QED
  BY <1>2, <1>3, <1>4

LEMMA PartsTyped ==
    ASSUME NEW e \in Entry, NEW b
    PROVE  Parts(e, b) \in Seq(Seq(RowType)) /\ DOMAIN Parts(e, b) = DOMAIN e.attrs /\ Len(Parts(e, b)) = Len(e.attrs)
<1>1. \A n \in DOMAIN e.attrs : OfBase(e.attrs[n], b) \in Seq(RowType)
  BY AttributesTyped, OfBaseTyped
<1>2. Len(e.attrs) \in Nat /\ DOMAIN e.attrs = 1 .. Len(e.attrs)
  BY AttributesTyped
<1> QED
  BY <1>1, <1>2 DEF Parts

LEMMA ImplicitRowsTyped ==
    ASSUME NEW e \in Entry, NEW sup, GoodSup(sup), NEW b
    PROVE  /\ ImplicitRows(sup, e, b) \in Seq(RowType)
           /\ \A k \in DOMAIN ImplicitRows(sup, e, b) : RowOf(sup, e, b, ImplicitRows(sup, e, b)[k])
<1> DEFINE u == Unlisted(sup, e, b)
<1>1. u \in Seq(Added)
  <2>1. Implicit(sup, Classes(e)) \in Seq(Added)
    BY ClassesTyped, ImplicitTyped
  <2> QED
    BY <2>1 DEF Unlisted
<1>2. ImplicitRows(sup, e, b) = [k \in DOMAIN u |-> ImplicitRow(u[k])]
  BY DEF ImplicitRows
<1>3. u # <<>> => b = "objectclass"
  BY DEF Unlisted
<1> HIDE DEF u
<1>4. Len(u) \in Nat /\ DOMAIN u = 1 .. Len(u) /\ (DOMAIN u # {} => u # <<>>)
  BY <1>1
<1>5. ASSUME NEW k \in DOMAIN u
      PROVE  ImplicitRow(u[k]) \in RowType /\ RowOf(sup, e, b, ImplicitRow(u[k]))
  <2> DEFINE i == u[k]
  <2>1. i \in Added
    BY <1>1
  <2>2. u # <<>> /\ b = "objectclass"
    BY <1>3, <1>4
  <2> HIDE DEF i
  <2>3. i.text \in Ranked /\ i.from \in Ranked
    BY <2>1 DEF Added
  <2>4. i.text \in STRING /\ i.from \in STRING /\ i.from # ""
    BY <2>3, StringsRanked
  <2>5. ImplicitRow(i) \in RowType
    <3>1. 0 \in Nat /\ 1 \in Nat /\ -1 \in Int
      OBVIOUS
    <3>2. /\ i.text \in Text /\ i.from \in Text
          /\ "objectClass" \in Text /\ "objectclass" \in Text
      BY <2>4 DEF Text
    <3> QED
      BY <3>1, <3>2, RowTyped DEF ImplicitRow
  <2>6. ImplicitRow(i).from # "" /\ ImplicitRow(i).text \in Ranked
        /\ ImplicitRow(i).base = "objectclass" /\ ~ImplicitRow(i).toggle
    BY <2>3, <2>4 DEF ImplicitRow
  <2>7. RowOf(sup, e, b, ImplicitRow(i))
    BY <2>2, <2>5, <2>6 DEF RowOf, u
  <2> QED
    BY <2>5, <2>7 DEF i
<1> QED
  BY <1>2, <1>4, <1>5

LEMMA RawRows ==
    ASSUME NEW e \in Entry, NEW sup, GoodSup(sup), NEW b
    PROVE  /\ Raw(sup, e, b) \in Seq(RowType)
           /\ AddedAreRanked(Raw(sup, e, b))
           /\ \A i \in DOMAIN Raw(sup, e, b) : RowOf(sup, e, b, Raw(sup, e, b)[i])
           /\ \A n \in DOMAIN e.attrs : e.attrs[n].base = b =>
                 \A k \in DOMAIN e.attrs[n].vals : \E i \in DOMAIN Raw(sup, e, b) :
                     Raw(sup, e, b)[i] = ValueRow(e.attrs[n], e.attrs[n].vals[k])
<1> DEFINE ss == Parts(e, b)
           s == FlattenSeq(ss)
           t == ImplicitRows(sup, e, b)
           st == s \o t
<1>1. ss \in Seq(Seq(RowType)) /\ DOMAIN ss = DOMAIN e.attrs /\ Len(ss) = Len(e.attrs)
  BY PartsTyped
<1>2. s \in Seq(RowType)
  BY <1>1, FlatTyped
<1>3. HoldsFirst(s, ss, Len(ss))
  <2> HIDE DEF ss
  <2> QED
    BY <1>1, FlatHolds
<1>4. t \in Seq(RowType) /\ \A k \in DOMAIN t : RowOf(sup, e, b, t[k])
  BY ImplicitRowsTyped
<1>5. Raw(sup, e, b) = st
  BY DEF Raw
<1>6. ASSUME NEW i \in DOMAIN s PROVE RowOf(sup, e, b, s[i])
  <2>1. PICK n \in 1 .. Len(ss) : \E m \in DOMAIN ss[n] : s[i] = ss[n][m]
    BY <1>3 DEF HoldsFirst
  <2>2. PICK k \in DOMAIN ss[n] : s[i] = ss[n][k]
    BY <2>1
  <2> DEFINE a == e.attrs[n]
  <2>3. n \in DOMAIN e.attrs /\ a \in Attribute
    BY <1>1, <2>1, AttributesTyped
  <2>4. ss[n] = OfBase(a, b)
    BY <2>3 DEF Parts
  <2>5. a.base = b /\ k \in DOMAIN a.vals /\ s[i] = ValueRow(a, a.vals[k])
    <3>1. a.base = b
      <4>1. a.base # b => DOMAIN ss[n] = {}
        BY <2>4 DEF OfBase
      <4> QED
        BY <2>2, <4>1
    <3>2. ss[n] = [j \in DOMAIN a.vals |-> ValueRow(a, a.vals[j])]
      BY <2>4, <3>1 DEF OfBase
    <3> QED
      BY <2>2, <3>1, <3>2
  <2>6. a.vals # <<>>
    <3>1. DOMAIN <<>> = {}
      OBVIOUS
    <3> QED
      BY <2>5, <3>1
  <2>7. s[i] \in RowType
    BY <2>3, <2>5, ValueRowTyped
  <2>8. s[i].from = "" /\ s[i].name = a.name /\ s[i].base = a.base /\ ~s[i].toggle
    <3> DEFINE v == a.vals[k]
               r == s[i]
    <3>1. r = ValueRow(a, v)
      BY <2>5
    <3> HIDE DEF v, a, r
    <3>2. r.from = "" /\ r.name = a.name /\ r.base = a.base /\ ~r.toggle
      BY <3>1, ValueRowFields, Zenon
    <3> QED
      BY <3>2 DEF r
  <2> HIDE DEF s, ss
  <2> QED
    BY <2>3, <2>5, <2>6, <2>7, <2>8 DEF RowOf, OfValue
<1> HIDE DEF s, ss, t
<1>7. /\ Len(s) \in Nat /\ Len(t) \in Nat /\ DOMAIN s = 1 .. Len(s) /\ DOMAIN t = 1 .. Len(t)
      /\ st \in Seq(RowType) /\ DOMAIN st = 1 .. Len(s) + Len(t)
      /\ \A i \in 1 .. Len(s) : st[i] = s[i]
      /\ \A i \in 1 .. Len(t) : st[Len(s) + i] = t[i]
  BY <1>2, <1>4
<1> HIDE DEF st
<1>8. ASSUME NEW i \in DOMAIN st PROVE RowOf(sup, e, b, st[i])
  <2>1. CASE i \in 1 .. Len(s)
    BY <1>6, <1>7, <2>1
  <2>2. CASE i \notin 1 .. Len(s)
    <3>1. i - Len(s) \in 1 .. Len(t) /\ i = Len(s) + (i - Len(s))
      BY <1>7, <2>2
    <3>2. st[i] = t[i - Len(s)]
      BY <1>7, <3>1
    <3> QED
      BY <1>4, <1>7, <3>1, <3>2
  <2> QED
    BY <2>1, <2>2
<1>9. AddedAreRanked(st)
  <2> SUFFICES ASSUME NEW i \in DOMAIN st, st[i].from # "" PROVE st[i].text \in Ranked
    BY DEF AddedAreRanked
  <2> QED
    BY <1>8 DEF RowOf, OfValue
<1>10. ASSUME NEW n \in DOMAIN e.attrs, e.attrs[n].base = b, NEW k \in DOMAIN e.attrs[n].vals
       PROVE  \E i \in DOMAIN st : st[i] = ValueRow(e.attrs[n], e.attrs[n].vals[k])
  <2>1. ss[n] = [j \in DOMAIN e.attrs[n].vals |-> ValueRow(e.attrs[n], e.attrs[n].vals[j])]
    BY <1>10 DEF ss, Parts, OfBase
  <2>2. n \in 1 .. Len(ss)
    BY <1>1, AttributesTyped
  <2>3. k \in DOMAIN ss[n] /\ ss[n][k] = ValueRow(e.attrs[n], e.attrs[n].vals[k])
    BY <2>1
  <2>4. PICK i \in DOMAIN s : s[i] = ss[n][k]
    BY <1>3, <2>2, <2>3 DEF HoldsFirst
  <2>5. i \in 1 .. Len(s) /\ i \in DOMAIN st
    BY <1>7
  <2> QED
    BY <1>7, <2>3, <2>4, <2>5
<1> QED
  BY <1>5, <1>7, <1>8, <1>9, <1>10

\* s has a row for each value of e of the base type b.
Covers(s, e, b) ==
    \A n \in DOMAIN e.attrs : e.attrs[n].base = b =>
        \A k \in DOMAIN e.attrs[n].vals : \E i \in DOMAIN s :
            s[i] = ValueRow(e.attrs[n], e.attrs[n].vals[k])

LEMMA GroupRows ==
    ASSUME NEW e \in Entry, NEW sup, GoodSup(sup), NEW b
    PROVE  /\ Group(sup, e, b) \in Seq(RowType)
           /\ \A i \in DOMAIN Group(sup, e, b) : RowOf(sup, e, b, Group(sup, e, b)[i])
           /\ Covers(Group(sup, e, b), e, b)
<1> DEFINE g == Raw(sup, e, b)
           s == Group(sup, e, b)
<1>1. /\ g \in Seq(RowType) /\ AddedAreRanked(g)
      /\ \A i \in DOMAIN g : RowOf(sup, e, b, g[i])
      /\ \A n \in DOMAIN e.attrs : e.attrs[n].base = b =>
             \A k \in DOMAIN e.attrs[n].vals : \E i \in DOMAIN g :
                 g[i] = ValueRow(e.attrs[n], e.attrs[n].vals[k])
  BY RawRows
<1>2. s = Sorted(sup, b, g)
  BY GroupSorts
<1> HIDE DEF g, s
<1>3. Reorders(s, g)
  BY <1>1, <1>2, SortedReorders
<1>4. /\ s \in Seq(RowType)
      /\ \A n \in DOMAIN s : \E m \in DOMAIN g : s[n] = g[m]
      /\ \A m \in DOMAIN g : \E n \in DOMAIN s : s[n] = g[m]
  BY <1>1, <1>3, ReorderedTyped
<1>5. ASSUME NEW i \in DOMAIN s PROVE RowOf(sup, e, b, s[i])
  BY <1>1, <1>4
<1>6. ASSUME NEW n \in DOMAIN e.attrs, e.attrs[n].base = b, NEW k \in DOMAIN e.attrs[n].vals
      PROVE  \E i \in DOMAIN s : s[i] = ValueRow(e.attrs[n], e.attrs[n].vals[k])
  <2>1. PICK j \in DOMAIN g : g[j] = ValueRow(e.attrs[n], e.attrs[n].vals[k])
    BY <1>1, <1>6
  <2> QED
    BY <1>4, <2>1
<1>7. Covers(s, e, b)
  BY <1>6 DEF Covers
<1> QED
  BY <1>4, <1>5, <1>7 DEF s

-----------------------------------------------------------------------------
(* How many values of a base type its rows stand for.                        *)

Stands(b) ==
    [r \in RowType |-> IF r.base # b \/ r.from # "" THEN 0 ELSE IF r.toggle THEN r.hidden ELSE 1]

LEMMA StandsTyped == \A b : Stands(b) \in [RowType -> Nat]
<1> SUFFICES ASSUME NEW b, NEW r \in RowType
             PROVE  (IF r.base # b \/ r.from # "" THEN 0 ELSE IF r.toggle THEN r.hidden ELSE 1) \in Nat
  BY DEF Stands
<1>1. r.hidden \in Nat
  BY DEF RowType
<1> QED
  BY <1>1

LEMMA SumOverConstant ==
    ASSUME NEW X, NEW w \in [X -> Nat], NEW s \in Seq(X), NEW c \in {0, 1},
           \A n \in DOMAIN s : w[s[n]] = c
    PROVE  SumOver(w, s) = IF c = 0 THEN 0 ELSE Len(s)
<1> DEFINE f == [n \in DOMAIN s |-> w[s[n]]]
           N == Len(s)
<1>1. N \in Nat /\ DOMAIN s = 1 .. N
  OBVIOUS
<1>2. \A n \in 1 .. N : f[n] = c
  BY <1>1
<1>3. SumFunctionOnSet(f, 1 .. N) = IF c = 0 THEN 0 ELSE N
  <2> HIDE DEF f, N
  <2> QED
    BY <1>1, <1>2, SumOfConstant
<1> QED
  BY <1>1, <1>3 DEF SumOver

Counts(e, b) ==
    [n \in DOMAIN e.attrs |-> IF e.attrs[n].base = b THEN Len(e.attrs[n].vals) ELSE 0]

LEMMA SameRange == \A m, n \in Nat : 1 .. m = 1 .. n => m = n
<1> SUFFICES ASSUME NEW m \in Nat, NEW n \in Nat, 1 .. m = 1 .. n PROVE m = n
  OBVIOUS
<1>1. (m = 0 \/ m \in 1 .. n) /\ (n = 0 \/ n \in 1 .. m)
  <2>1. (m = 0 \/ m \in 1 .. m) /\ (n = 0 \/ n \in 1 .. n)
    OBVIOUS
  <2> QED
    BY <2>1
<1> QED
  BY <1>1

LEMMA StandsForAttribute ==
    ASSUME NEW a \in Attribute, NEW b
    PROVE  SumOver(Stands(b), OfBase(a, b)) = IF a.base = b THEN Len(a.vals) ELSE 0
<1> DEFINE s == OfBase(a, b)
           w == Stands(b)
<1>1. s \in Seq(RowType) /\ w \in [RowType -> Nat]
  BY OfBaseTyped, StandsTyped
<1>2. a.base # b => s = <<>>
  BY DEF OfBase
<1>3. a.base = b => s = [k \in DOMAIN a.vals |-> ValueRow(a, a.vals[k])]
  BY DEF OfBase
<1>4. ASSUME a.base = b, NEW k \in DOMAIN s PROVE w[s[k]] = 1
  <2> DEFINE r == s[k]
             v == a.vals[k]
  <2>1. r \in RowType
    BY <1>1
  <2>2. r = ValueRow(a, v)
    BY <1>3, <1>4
  <2> HIDE DEF r, v, s
  <2>3. r.from = "" /\ r.base = a.base /\ ~r.toggle
    BY <2>2, ValueRowFields, Zenon
  <2>4. Stands(b)[r] = 1
    BY <1>4, <2>1, <2>3 DEF Stands
  <2> QED
    BY <2>4 DEF r
<1>5. CASE a.base = b
  <2>1. Len(s) = Len(a.vals)
    <3> DEFINE v == a.vals
    <3>1. v \in Seq(Value)
      BY DEF Attribute
    <3>2. DOMAIN s = DOMAIN v
      BY <1>3, <1>5
    <3> HIDE DEF v, s
    <3>3. Len(s) \in Nat /\ DOMAIN s = 1 .. Len(s) /\ Len(v) \in Nat /\ DOMAIN v = 1 .. Len(v)
      BY <1>1, <3>1
    <3>4. Len(s) = Len(v)
      BY <3>2, <3>3, SameRange
    <3> QED
      BY <3>4 DEF v
  <2>2. \A k \in DOMAIN s : w[s[k]] = 1
    BY <1>4, <1>5
  <2> HIDE DEF s, w
  <2>3. SumOver(w, s) = IF 1 = 0 THEN 0 ELSE Len(s)
    BY <1>1, <2>2, SumOverConstant
  <2> QED
    BY <1>5, <2>1, <2>3 DEF s, w
<1>6. CASE a.base # b
  <2>1. \A k \in DOMAIN s : w[s[k]] = 0
    BY <1>2, <1>6
  <2> HIDE DEF s, w
  <2>2. SumOver(w, s) = IF 0 = 0 THEN 0 ELSE Len(s)
    BY <1>1, <2>1, SumOverConstant
  <2> QED
    BY <1>6, <2>2 DEF s, w
<1> QED
  BY <1>5, <1>6

LEMMA StandsForGroup ==
    ASSUME NEW e \in Entry, NEW sup, GoodSup(sup), NEW b
    PROVE  SumOver(Stands(b), Group(sup, e, b)) = SumFunctionOnSet(Counts(e, b), 1 .. Len(e.attrs))
<1> DEFINE w == Stands(b)
           ss == Parts(e, b)
           s == FlattenSeq(ss)
           t == ImplicitRows(sup, e, b)
           each == [n \in DOMAIN ss |-> SumOver(w, ss[n])]
<1>1. w \in [RowType -> Nat]
  BY StandsTyped
<1>2. ss \in Seq(Seq(RowType)) /\ DOMAIN ss = DOMAIN e.attrs /\ Len(ss) = Len(e.attrs)
  BY PartsTyped
<1>3. s \in Seq(RowType)
  BY <1>2, FlatTyped
<1>4. t \in Seq(RowType) /\ \A k \in DOMAIN t : RowOf(sup, e, b, t[k])
  BY ImplicitRowsTyped
<1>5. SumOver(w, t) = 0
  <2>1. ASSUME NEW k \in DOMAIN t PROVE w[t[k]] = 0
    <3>1. t[k] \in RowType
      BY <1>4
    <3>2. t[k].from # ""
      <4> DEFINE u == Unlisted(sup, e, b)
      <4>1. u \in Seq(Added)
        <5>1. Implicit(sup, Classes(e)) \in Seq(Added)
          BY ClassesTyped, ImplicitTyped
        <5> QED
          BY <5>1 DEF Unlisted
      <4>2. k \in DOMAIN u /\ t[k] = ImplicitRow(u[k])
        BY DEF ImplicitRows
      <4>3. u[k] \in Added
        BY <4>1, <4>2
      <4>4. u[k].from # ""
        BY <4>3, StringsRanked DEF Added
      <4> HIDE DEF u
      <4>5. ImplicitRow(u[k]).from = u[k].from
        BY DEF ImplicitRow
      <4> QED
        BY <4>2, <4>4, <4>5
    <3> HIDE DEF t
    <3> QED
      BY <3>1, <3>2 DEF Stands
  <2> HIDE DEF t, w
  <2>2. SumOver(w, t) = IF 0 = 0 THEN 0 ELSE Len(t)
    BY <1>1, <1>4, <2>1, SumOverConstant
  <2> QED
    BY <2>2
<1>6. SumOver(w, s) = SumFunctionOnSet(each, 1 .. Len(ss))
  <2> HIDE DEF w, ss
  <2> QED
    BY <1>1, <1>2, SumOverFlat
<1>7. each = Counts(e, b)
  <2>1. \A n \in DOMAIN e.attrs : SumOver(w, ss[n]) = IF e.attrs[n].base = b THEN Len(e.attrs[n].vals) ELSE 0
    <3>1. \A n \in DOMAIN e.attrs : ss[n] = OfBase(e.attrs[n], b) /\ e.attrs[n] \in Attribute
      BY AttributesTyped DEF Parts
    <3> HIDE DEF w, ss
    <3> QED
      BY <3>1, StandsForAttribute DEF w
  <2> HIDE DEF w, ss
  <2> QED
    BY <1>2, <2>1 DEF Counts
<1>8. SumOver(w, Raw(sup, e, b)) = SumOver(w, s) + SumOver(w, t) /\ SumOver(w, s) \in Nat
  <2>1. Raw(sup, e, b) = s \o t
    BY DEF Raw
  <2> HIDE DEF w, s, t
  <2>2. SumOver(w, s \o t) = SumOver(w, s) + SumOver(w, t) /\ SumOver(w, s) \in Nat
    BY <1>1, <1>3, <1>4, SumOverBoth
  <2> QED
    BY <2>1, <2>2
<1>9. SumOver(w, Group(sup, e, b)) = SumOver(w, Raw(sup, e, b))
  <2> DEFINE g == Raw(sup, e, b)
             x == Group(sup, e, b)
  <2>1. g \in Seq(RowType) /\ AddedAreRanked(g)
    BY RawRows
  <2>2. x = Sorted(sup, b, g)
    BY GroupSorts
  <2> HIDE DEF g, x, w
  <2>3. Reorders(x, g)
    BY <2>1, <2>2, SortedReorders
  <2>4. SumOver(w, x) = SumOver(w, g)
    BY <1>1, <2>1, <2>3, ReorderedSum
  <2> QED
    BY <2>4 DEF g, x
<1> HIDE DEF each, w, s, t, ss
<1>10. SumOver(w, Group(sup, e, b)) = SumFunctionOnSet(Counts(e, b), 1 .. Len(e.attrs))
  BY <1>2, <1>5, <1>6, <1>7, <1>8, <1>9
<1> QED
  BY <1>10 DEF w

-----------------------------------------------------------------------------
(* All rows.                                                                 *)

LEMMA BasesTyped ==
    ASSUME NEW e \in Entry
    PROVE  Bases(e) \subseteq Ranked /\ IsFiniteSet(Bases(e))
<1> DEFINE I == {n \in DOMAIN e.attrs : e.attrs[n].vals # <<>>}
           f == [n \in I |-> e.attrs[n].base]
<1>1. DOMAIN e.attrs = 1 .. Len(e.attrs) /\ Len(e.attrs) \in Nat /\ \A n \in DOMAIN e.attrs : e.attrs[n] \in Attribute
  BY AttributesTyped
<1>2. Bases(e) \subseteq Ranked
  <2>1. \A n \in DOMAIN e.attrs : e.attrs[n].base \in Ranked
    BY <1>1 DEF Attribute, Ranked
  <2> QED
    BY <2>1 DEF Bases
<1>3. f \in Surjection(I, Bases(e))
  BY DEF Surjection, Bases
<1>4. IsFiniteSet(I)
  <2>1. IsFiniteSet(1 .. Len(e.attrs))
    BY <1>1, FS_Interval
  <2>2. I \in SUBSET (1 .. Len(e.attrs))
    BY <1>1
  <2> HIDE DEF I
  <2> QED
    BY <2>1, <2>2, FS_Subset
<1> HIDE DEF I, f
<1> QED
  BY <1>2, <1>3, <1>4, FS_Surjection

\* The pairs of base types of which the first comes first.
Earlier(mandatory, e) ==
    {p \in Bases(e) \X Bases(e) :
        \/ Category(mandatory, e, p[1]) < Category(mandatory, e, p[2])
        \/ /\ Category(mandatory, e, p[1]) = Category(mandatory, e, p[2])
           /\ Rank[p[1]] < Rank[p[2]]}

LEMMA EarlierOrders ==
    ASSUME NEW e \in Entry, NEW mandatory
    PROVE  Orders(Earlier(mandatory, e), Bases(e))
<1> DEFINE B == Earlier(mandatory, e)
           C(b) == Category(mandatory, e, b)
<1>1. ASSUME NEW x \in Bases(e), NEW y \in Bases(e)
      PROVE  <<x, y>> \in B <=> C(x) < C(y) \/ (C(x) = C(y) /\ Rank[x] < Rank[y])
  BY DEF Earlier
<1>2. ASSUME NEW x \in Bases(e) PROVE C(x) \in Int /\ Rank[x] \in Nat
  <2>1. C(x) \in Int
    BY DEF Category
  <2>2. Rank[x] \in Nat
    BY BasesTyped, RankAssumption DEF Ranked
  <2> QED
    BY <2>1, <2>2
<1>3. ASSUME NEW x \in Bases(e), NEW y \in Bases(e), Rank[x] = Rank[y] PROVE x = y
  BY <1>3, BasesTyped, RankAssumption DEF Ranked
<1> HIDE DEF B, C
<1>4. ASSUME NEW x \in Bases(e), NEW y \in Bases(e), NEW z \in Bases(e)
      PROVE  /\ <<x, x>> \notin B
             /\ <<x, y>> \in B /\ <<y, z>> \in B => <<x, z>> \in B
             /\ x # y => <<x, y>> \in B \/ <<y, x>> \in B
  <2> DEFINE cx == C(x)
             cy == C(y)
             cz == C(z)
             rx == Rank[x]
             ry == Rank[y]
             rz == Rank[z]
  <2>1. /\ cx \in Int /\ cy \in Int /\ cz \in Int
        /\ rx \in Int /\ ry \in Int /\ rz \in Int
    BY <1>2
  <2>2. /\ <<x, y>> \in B <=> cx < cy \/ (cx = cy /\ rx < ry)
        /\ <<y, z>> \in B <=> cy < cz \/ (cy = cz /\ ry < rz)
        /\ <<x, z>> \in B <=> cx < cz \/ (cx = cz /\ rx < rz)
    BY <1>1
  <2>3. /\ <<x, x>> \in B <=> cx < cx \/ (cx = cx /\ rx < rx)
        /\ <<y, x>> \in B <=> cy < cx \/ (cy = cx /\ ry < rx)
    BY <1>1
  <2>4. x # y => rx # ry
    BY <1>3
  <2> HIDE DEF cx, cy, cz, rx, ry, rz
  <2>5. <<x, x>> \notin B
    BY <2>1, <2>3
  <2>6. <<x, y>> \in B /\ <<y, z>> \in B => <<x, z>> \in B
    BY <2>1, <2>2
  <2>7. x # y => <<x, y>> \in B \/ <<y, x>> \in B
    BY <2>1, <2>2, <2>3, <2>4
  <2> QED
    BY <2>5, <2>6, <2>7
<1>5. Orders(B, Bases(e))
  BY <1>4 DEF Orders
<1> QED
  BY <1>5 DEF B

LEMMA OrderHasBases ==
    ASSUME NEW e \in Entry, NEW mandatory
    PROVE  LET order == AttrOrder(mandatory, e) IN
           /\ order \in Seq(Bases(e))
           /\ \A m, n \in DOMAIN order : order[m] = order[n] => m = n
           /\ \A b \in Bases(e) : \E m \in DOMAIN order : order[m] = b
<1> DEFINE S == Bases(e)
           M == Cardinality(S)
           B == Earlier(mandatory, e)
           C(b) == Category(mandatory, e, b)
           Less(y, x) == C(y) < C(x) \/ (C(y) = C(x) /\ Rank[y] < Rank[x])
           order == AttrOrder(mandatory, e)
           f(m) == CHOOSE x \in S : Cardinality({y \in S : Less(y, x)}) = m - 1
<1>1. IsFiniteSet(S) /\ M \in Nat
  BY BasesTyped, FS_CardinalityType
<1>2. Orders(B, S)
  BY EarlierOrders
<1>3. order = [m \in 1 .. M |-> f(m)]
  BY DEF AttrOrder, Listed
<1>4. ASSUME NEW x \in S PROVE {y \in S : Less(y, x)} = Below(B, S, x)
  <2>1. ASSUME NEW y \in S PROVE Less(y, x) <=> <<y, x>> \in B
    BY DEF Earlier
  <2> HIDE DEF Less
  <2> QED
    BY <2>1 DEF Below
<1> HIDE DEF Less, order, S
<1>5. ASSUME NEW m \in 1 .. M
      PROVE  f(m) \in S /\ Cardinality(Below(B, S, f(m))) = m - 1
  <2>1. PICK x \in S : Cardinality(Below(B, S, x)) = m - 1
    <3> HIDE DEF B
    <3> QED
      BY <1>1, <1>2, RanksAreAll
  <2>2. f(m) \in S /\ Cardinality({y \in S : Less(y, f(m))}) = m - 1
    BY <1>4, <2>1
  <2> HIDE DEF f
  <2> QED
    BY <1>4, <2>2
<1> HIDE DEF f, B
<1>6. Lists(order, S, B)
  BY <1>3, <1>5 DEF Lists
<1>7. /\ \A m, n \in 1 .. M : order[m] = order[n] => m = n
      /\ \A x \in S : \E m \in 1 .. M : order[m] = x
  BY <1>1, <1>2, <1>6, ListedOnce
<1> HIDE DEF M
<1>8. order \in Seq(S) /\ DOMAIN order = 1 .. M
  BY <1>1, <1>3, <1>5
<1> QED
  BY <1>7, <1>8 DEF order, S

PartOf(sup, coll, e, b) ==
    IF b \in coll /\ Len(Group(sup, e, b)) > 3 THEN Folded(b, Group(sup, e, b)) ELSE Group(sup, e, b)
RowParts(sup, mandatory, coll, e) ==
    [k \in DOMAIN AttrOrder(mandatory, e) |-> PartOf(sup, coll, e, AttrOrder(mandatory, e)[k])]

LEMMA RowsFlatten ==
    \A sup, mandatory, coll, e :
        Rows(sup, mandatory, coll, e) = FlattenSeq(RowParts(sup, mandatory, coll, e))
BY Zenon DEF Rows, RowParts, PartOf

LEMMA FoldedRows ==
    ASSUME NEW b \in Ranked, NEW g \in Seq(RowType), Len(g) > 3
    PROVE  /\ Folded(b, g) = SubSeq(g, 1, 3) \o <<ToggleRow(b, Len(g) - 3)>>
           /\ SubSeq(g, 1, 3) \in Seq(RowType) /\ Len(SubSeq(g, 1, 3)) = 3
           /\ \A i \in 1 .. 3 : SubSeq(g, 1, 3)[i] = g[i] /\ i \in DOMAIN g
           /\ ToggleRow(b, Len(g) - 3) \in RowType
<1>1. Folded(b, g) = SubSeq(g, 1, 3) \o <<ToggleRow(b, Len(g) - 3)>>
  BY DEF Folded
<1>2. /\ SubSeq(g, 1, 3) \in Seq(RowType) /\ Len(SubSeq(g, 1, 3)) = 3
      /\ \A i \in 1 .. 3 : SubSeq(g, 1, 3)[i] = g[i] /\ i \in DOMAIN g
  OBVIOUS
<1>3. ToggleRow(b, Len(g) - 3) \in RowType
  <2> DEFINE n == Len(g) - 3
  <2>1. n \in Nat
    OBVIOUS
  <2>2. b \in Text /\ "" \in Text /\ "[+N more]" \in Text
    BY StringsRanked DEF Text
  <2>3. 1 \in Nat /\ -1 \in Int
    OBVIOUS
  <2> HIDE DEF n
  <2>4. ToggleRow(b, n) \in RowType
    BY <2>1, <2>2, <2>3, RowTyped DEF ToggleRow
  <2> QED
    BY <2>4 DEF n
<1> QED
  BY <1>1, <1>2, <1>3

LEMMA ToggleRowFields ==
    \A b, n : /\ ToggleRow(b, n).base = b /\ ToggleRow(b, n).name = b /\ ToggleRow(b, n).from = ""
              /\ ToggleRow(b, n).hidden = n /\ ToggleRow(b, n).toggle
<1>1. \A b, n : ToggleRow(b, n).base = b /\ ToggleRow(b, n).name = b /\ ToggleRow(b, n).from = ""
  BY DEF ToggleRow
<1>2. \A b, n : ToggleRow(b, n).hidden = n
  BY DEF ToggleRow
<1>3. \A b, n : ToggleRow(b, n).toggle
  BY DEF ToggleRow
<1> QED
  BY <1>1, <1>2, <1>3, Zenon

LEMMA Joined ==
    ASSUME NEW X, NEW s \in Seq(X), NEW t \in Seq(X)
    PROVE  /\ s \o t \in Seq(X) /\ DOMAIN (s \o t) = 1 .. Len(s) + Len(t)
           /\ \A i \in 1 .. Len(s) : (s \o t)[i] = s[i]
           /\ \A i \in 1 .. Len(t) : (s \o t)[Len(s) + i] = t[i]
BY SMT

\* r is a row of e: one for a value, for a class that is not listed, or a toggle.
RowIn(sup, coll, e, r) ==
    /\ r \in RowType /\ r.base \in Bases(e)
    /\ RowOf(sup, e, r.base, r) \/ (r.toggle /\ r.name = r.base /\ r.base \in coll)

LEMMA PartRows ==
    ASSUME NEW e \in Entry, NEW sup, GoodSup(sup), NEW coll, NEW b \in Bases(e)
    PROVE  /\ PartOf(sup, coll, e, b) \in Seq(RowType)
           /\ \A i \in DOMAIN PartOf(sup, coll, e, b) :
                 /\ PartOf(sup, coll, e, b)[i].base = b
                 /\ RowIn(sup, coll, e, PartOf(sup, coll, e, b)[i])
<1> DEFINE g == Group(sup, e, b)
           s == PartOf(sup, coll, e, b)
<1>1. g \in Seq(RowType) /\ \A i \in DOMAIN g : RowOf(sup, e, b, g[i])
  BY GroupRows
<1>2. s = IF b \in coll /\ Len(g) > 3 THEN Folded(b, g) ELSE g
  BY DEF PartOf
<1>3. \A i \in DOMAIN g : g[i].base = b /\ RowIn(sup, coll, e, g[i])
  BY <1>1 DEF RowOf, RowIn
<1> HIDE DEF g, s
<1>4. CASE b \in coll /\ Len(g) > 3
  <2> DEFINE h == SubSeq(g, 1, 3)
             t == ToggleRow(b, Len(g) - 3)
  <2>1. /\ Folded(b, g) = h \o <<t>>
        /\ h \in Seq(RowType) /\ Len(h) = 3 /\ t \in RowType
        /\ \A i \in 1 .. 3 : h[i] = g[i] /\ i \in DOMAIN g
    BY <1>1, <1>4, BasesTyped, FoldedRows
  <2>2. t.base = b /\ RowIn(sup, coll, e, t)
    <3>1. t.base = b /\ t.name = b /\ t.toggle
      BY ToggleRowFields, Zenon
    <3> HIDE DEF t
    <3> QED
      BY <1>4, <2>1, <3>1 DEF RowIn
  <2> HIDE DEF h, t
  <2>3. /\ h \o <<t>> \in Seq(RowType) /\ DOMAIN (h \o <<t>>) = 1 .. 4
        /\ \A i \in 1 .. 3 : (h \o <<t>>)[i] = h[i]
        /\ (h \o <<t>>)[4] = t
    <3> DEFINE u == <<t>>
    <3>1. u \in Seq(RowType) /\ Len(u) = 1 /\ u[1] = t
      BY <2>1
    <3> HIDE DEF u
    <3>2. /\ h \o u \in Seq(RowType) /\ DOMAIN (h \o u) = 1 .. Len(h) + Len(u)
          /\ \A i \in 1 .. Len(h) : (h \o u)[i] = h[i]
          /\ \A i \in 1 .. Len(u) : (h \o u)[Len(h) + i] = u[i]
      <4>1. h \in Seq(RowType) /\ u \in Seq(RowType)
        BY <2>1, <3>1
      <4> QED
        BY <4>1, Joined
    <3> DEFINE v == h \o u
    <3> HIDE DEF v
    <3>3. /\ DOMAIN v = 1 .. 4 /\ \A i \in 1 .. 3 : v[i] = h[i]
      BY <2>1, <3>1, <3>2 DEF v
    <3>4. v[4] = u[1]
      <4>1. v[Len(h) + 1] = u[1]
        BY <3>1, <3>2 DEF v
      <4> QED
        BY <2>1, <4>1
    <3> QED
      BY <3>1, <3>2, <3>3, <3>4 DEF u, v
  <2>4. \A i \in 1 .. 4 : i \in 1 .. 3 \/ i = 4
    OBVIOUS
  <2> QED
    BY <1>2, <1>3, <1>4, <2>1, <2>2, <2>3, <2>4 DEF s
<1>5. CASE ~(b \in coll /\ Len(g) > 3)
  BY <1>1, <1>2, <1>3, <1>5 DEF s
<1> QED
  BY <1>4, <1>5

LEMMA RowPartsTyped ==
    ASSUME NEW e \in Entry, NEW sup, GoodSup(sup), NEW mandatory, NEW coll
    PROVE  /\ RowParts(sup, mandatory, coll, e) \in Seq(Seq(RowType))
           /\ DOMAIN RowParts(sup, mandatory, coll, e) = DOMAIN AttrOrder(mandatory, e)
           /\ \A k \in DOMAIN AttrOrder(mandatory, e) :
                 /\ AttrOrder(mandatory, e)[k] \in Bases(e)
                 /\ RowParts(sup, mandatory, coll, e)[k] = PartOf(sup, coll, e, AttrOrder(mandatory, e)[k])
<1> DEFINE order == AttrOrder(mandatory, e)
           N == Len(order)
<1>1. order \in Seq(Bases(e))
  BY OrderHasBases
<1> HIDE DEF order
<1>2. N \in Nat /\ DOMAIN order = 1 .. N /\ \A k \in 1 .. N : order[k] \in Bases(e)
  BY <1>1
<1>3. \A k \in 1 .. N : PartOf(sup, coll, e, order[k]) \in Seq(RowType)
  BY <1>2, PartRows
<1>4. RowParts(sup, mandatory, coll, e) = [k \in 1 .. N |-> PartOf(sup, coll, e, order[k])]
  BY <1>2 DEF RowParts, order
<1> QED
  BY <1>2, <1>3, <1>4 DEF order

LEMMA RowsAre ==
    ASSUME NEW e \in Entry, NEW sup, GoodSup(sup), NEW mandatory, NEW coll
    PROVE  /\ Rows(sup, mandatory, coll, e) \in Seq(RowType)
           /\ \A i \in DOMAIN Rows(sup, mandatory, coll, e) :
                 RowIn(sup, coll, e, Rows(sup, mandatory, coll, e)[i])
           /\ \A b \in Bases(e) : \A j \in DOMAIN PartOf(sup, coll, e, b) :
                 \E i \in DOMAIN Rows(sup, mandatory, coll, e) :
                     Rows(sup, mandatory, coll, e)[i] = PartOf(sup, coll, e, b)[j]
<1> DEFINE order == AttrOrder(mandatory, e)
           ss == RowParts(sup, mandatory, coll, e)
           s == FlattenSeq(ss)
<1>1. /\ ss \in Seq(Seq(RowType)) /\ DOMAIN ss = DOMAIN order
      /\ \A k \in DOMAIN order : order[k] \in Bases(e) /\ ss[k] = PartOf(sup, coll, e, order[k])
  BY RowPartsTyped
<1>2. \A b \in Bases(e) : \E m \in DOMAIN order : order[m] = b
  BY OrderHasBases
<1> HIDE DEF order, ss
<1>3. s \in Seq(RowType)
  BY <1>1, FlatTyped
<1>4. HoldsFirst(s, ss, Len(ss)) /\ DOMAIN ss = 1 .. Len(ss)
  BY <1>1, FlatHolds
<1> HIDE DEF s
<1>5. ASSUME NEW i \in DOMAIN s PROVE RowIn(sup, coll, e, s[i])
  <2>1. PICK k \in 1 .. Len(ss) : \E m \in DOMAIN ss[k] : s[i] = ss[k][m]
    BY <1>4 DEF HoldsFirst
  <2>2. order[k] \in Bases(e) /\ ss[k] = PartOf(sup, coll, e, order[k])
    BY <1>1, <1>4
  <2> QED
    BY <2>1, <2>2, PartRows
<1>6. ASSUME NEW b \in Bases(e), NEW j \in DOMAIN PartOf(sup, coll, e, b)
      PROVE  \E i \in DOMAIN s : s[i] = PartOf(sup, coll, e, b)[j]
  <2>1. PICK k \in DOMAIN order : order[k] = b
    BY <1>2
  <2>2. k \in 1 .. Len(ss) /\ ss[k] = PartOf(sup, coll, e, b)
    BY <1>1, <1>4, <2>1
  <2> QED
    BY <1>4, <2>2 DEF HoldsFirst
<1>7. Rows(sup, mandatory, coll, e) = s
  BY RowsFlatten DEF s, ss
<1> QED
  BY <1>3, <1>5, <1>6, <1>7

\* The names of the attributes of e, and what the SpellingAssumption says of it.
NamesOf(e) == {e.attrs[n].name : n \in DOMAIN e.attrs}
Spelled(e) ==
    \A n \in DOMAIN e.attrs :
        /\ e.attrs[n].name = "objectClass" => e.attrs[n].base = "objectclass" /\ ~e.attrs[n].options
        /\ e.attrs[n].name \in Bases(e) => e.attrs[n].base = e.attrs[n].name /\ ~e.attrs[n].options
        /\ \A k \in DOMAIN e.attrs :
               e.attrs[k].base = e.attrs[n].base /\ ~e.attrs[n].options /\ ~e.attrs[k].options => k = n

LEMMA EntriesSpelled == \A e \in Entries : e \in Entry /\ Spelled(e)
<1>1. \A e \in Entries : e \in Entry
  BY EntriesAssumption DEF Entry
<1>2. \A e \in Entries : Spelled(e)
  BY SpellingAssumption, Zenon DEF Spelled
<1> QED
  BY <1>1, <1>2

LEMMA NoAttributes == [attrs |-> <<>>] \in Entry /\ Spelled([attrs |-> <<>>])
<1> DEFINE e == [attrs |-> <<>>]
<1>1. e \in Entry /\ e.attrs = <<>>
  BY DEF Entry
<1>2. DOMAIN e.attrs = {}
  BY <1>1
<1> HIDE DEF e
<1>3. Spelled(e)
  BY <1>2 DEF Spelled
<1> QED
  BY <1>1, <1>3 DEF e

\* A name that is collapsed and a base type is that of an attribute without options; if it
\* is objectclass, no attribute is spelled objectClass, and no class is added.
LEMMA CollapsedAreListed ==
    ASSUME NEW e \in Entry, Spelled(e), NEW sup, GoodSup(sup), NEW b \in Bases(e), b \in NamesOf(e)
    PROVE  Unlisted(sup, e, b) = <<>>
<1>1. PICK n \in DOMAIN e.attrs : e.attrs[n].name = b
  BY DEF NamesOf
<1>2. e.attrs[n].base = b /\ ~e.attrs[n].options
  BY <1>1 DEF Spelled
<1>3. CASE b # "objectclass"
  BY <1>3 DEF Unlisted
<1>4. CASE b = "objectclass"
  <2>1. ASSUME NEW k \in DOMAIN e.attrs PROVE e.attrs[k].name # "objectClass"
    <3> SUFFICES ASSUME e.attrs[k].name = "objectClass" PROVE FALSE
      OBVIOUS
    <3>1. e.attrs[k].base = "objectclass" /\ ~e.attrs[k].options
      BY DEF Spelled
    <3>2. e.attrs[k].base = e.attrs[n].base
      BY <1>2, <1>4, <3>1
    <3>3. k = n
      BY <1>2, <3>1, <3>2 DEF Spelled
    <3> QED
      BY <1>1, <1>4, <3>3
  <2>2. Classes(e) = <<>>
    BY <2>1 DEF Classes
  <2>3. Implicit(sup, Classes(e)) = <<>>
    BY <2>2, ClassesTyped, ImplicitTyped
  <2> QED
    BY <2>3 DEF Unlisted
<1> QED
  BY <1>3, <1>4

LEMMA StandsForPart ==
    ASSUME NEW e \in Entry, Spelled(e), NEW sup, GoodSup(sup), NEW coll, coll \subseteq NamesOf(e),
           NEW b \in Bases(e)
    PROVE  SumOver(Stands(b), PartOf(sup, coll, e, b)) = SumOver(Stands(b), Group(sup, e, b))
<1> DEFINE g == Group(sup, e, b)
           w == Stands(b)
<1>1. g \in Seq(RowType) /\ \A i \in DOMAIN g : RowOf(sup, e, b, g[i])
  BY GroupRows
<1>2. w \in [RowType -> Nat]
  BY StandsTyped
<1>3. PartOf(sup, coll, e, b) = IF b \in coll /\ Len(g) > 3 THEN Folded(b, g) ELSE g
  BY DEF PartOf
<1> HIDE DEF g
<1>4. CASE b \in coll /\ Len(g) > 3
  <2> DEFINE h == SubSeq(g, 1, 3)
             n == Len(g) - 3
             t == ToggleRow(b, n)
             u == <<t>>
  <2>0. n \in Nat /\ Len(g) = 3 + n
    BY <1>1, <1>4
  <2>1. /\ Folded(b, g) = h \o u
        /\ h \in Seq(RowType) /\ Len(h) = 3 /\ t \in RowType
        /\ \A i \in 1 .. 3 : h[i] = g[i] /\ i \in DOMAIN g
    BY <1>1, <1>4, BasesTyped, FoldedRows
  <2>2. Unlisted(sup, e, b) = <<>>
    BY <1>4, CollapsedAreListed
  <2>3. \A i \in DOMAIN g : w[g[i]] = 1
    BY <1>1, <2>2 DEF RowOf, OfValue, Stands
  <2>4. SumOver(w, g) = Len(g)
    <3> HIDE DEF w
    <3>1. SumOver(w, g) = IF 1 = 0 THEN 0 ELSE Len(g)
      BY <1>1, <1>2, <2>3, SumOverConstant
    <3> QED
      BY <3>1
  <2>5. w[t] = n
    <3>1. t.base = b /\ t.from = "" /\ t.hidden = n /\ t.toggle
      BY ToggleRowFields, Zenon
    <3>2. t \in RowType
      BY <2>1
    <3> HIDE DEF t, n
    <3> QED
      BY <3>1, <3>2 DEF Stands
  <2> HIDE DEF w, t, n, h
  <2>6. SumOver(w, h) = 3
    <3>1. DOMAIN h = 1 .. 3
      BY <2>1
    <3>2. \A i \in DOMAIN h : w[h[i]] = 1
      BY <2>1, <2>3, <3>1
    <3>3. SumOver(w, h) = IF 1 = 0 THEN 0 ELSE Len(h)
      BY <1>2, <2>1, <3>2, SumOverConstant
    <3> QED
      BY <2>1, <3>3
  <2>7. SumOver(w, u) = n
    <3> DEFINE f == [i \in DOMAIN u |-> w[u[i]]]
    <3>1. DOMAIN u = 1 .. 1 /\ f[1] = n
      BY <2>5
    <3>2. Nats(f, 1)
      BY <2>0, <3>1 DEF Nats
    <3> HIDE DEF f, u
    <3>3. /\ SumFunctionOnSet(f, 1 .. 0) = 0
          /\ \A k \in 0 .. 1 : k # 1 => SumFunctionOnSet(f, 1 .. k + 1) = SumFunctionOnSet(f, 1 .. k) + f[k + 1]
      BY <3>2, SumUpTo
    <3>4. SumFunctionOnSet(f, 1 .. 0 + 1) = SumFunctionOnSet(f, 1 .. 0) + f[0 + 1]
      BY <3>3
    <3>5. SumFunctionOnSet(f, 1 .. 1) = n
      BY <2>0, <3>1, <3>3, <3>4
    <3> QED
      BY <3>1, <3>5 DEF SumOver, f
  <2>8. u \in Seq(RowType)
    BY <2>1
  <2> HIDE DEF u
  <2>9. SumOver(w, h \o u) = SumOver(w, h) + SumOver(w, u)
    BY <1>2, <2>1, <2>8, SumOverBoth
  <2> QED
    BY <1>3, <1>4, <2>0, <2>1, <2>4, <2>6, <2>7, <2>9 DEF w, g
<1>5. CASE ~(b \in coll /\ Len(g) > 3)
  BY <1>3, <1>5 DEF g
<1> QED
  BY <1>4, <1>5

LEMMA StandsForOthers ==
    ASSUME NEW e \in Entry, NEW sup, GoodSup(sup), NEW coll, NEW b, NEW c \in Bases(e), c # b
    PROVE  SumOver(Stands(b), PartOf(sup, coll, e, c)) = 0
<1> DEFINE s == PartOf(sup, coll, e, c)
           w == Stands(b)
<1>1. s \in Seq(RowType) /\ \A i \in DOMAIN s : s[i].base = c
  BY PartRows
<1>2. w \in [RowType -> Nat]
  BY StandsTyped
<1> HIDE DEF s
<1>3. ASSUME NEW i \in DOMAIN s PROVE w[s[i]] = 0
  <2> DEFINE r == s[i]
  <2>1. r \in RowType /\ r.base # b
    BY <1>1
  <2> HIDE DEF r
  <2>2. w[r] = 0
    BY <2>1 DEF Stands
  <2> QED
    BY <2>2 DEF r
<1> HIDE DEF w
<1>4. SumOver(w, s) = IF 0 = 0 THEN 0 ELSE Len(s)
  BY <1>1, <1>2, <1>3, SumOverConstant
<1> QED
  BY <1>4 DEF s, w

LEMMA StandsForRows ==
    ASSUME NEW e \in Entry, Spelled(e), NEW sup, GoodSup(sup), NEW mandatory,
           NEW coll, coll \subseteq NamesOf(e), NEW b \in Bases(e)
    PROVE  SumOver(Stands(b), Rows(sup, mandatory, coll, e)) = SumFunctionOnSet(Counts(e, b), 1 .. Len(e.attrs))
<1> DEFINE order == AttrOrder(mandatory, e)
           ss == RowParts(sup, mandatory, coll, e)
           w == Stands(b)
           f == [n \in DOMAIN ss |-> SumOver(w, ss[n])]
<1>1. /\ ss \in Seq(Seq(RowType)) /\ DOMAIN ss = DOMAIN order
      /\ \A k \in DOMAIN order : order[k] \in Bases(e) /\ ss[k] = PartOf(sup, coll, e, order[k])
  BY RowPartsTyped
<1>2. \A m, n \in DOMAIN order : order[m] = order[n] => m = n
  BY OrderHasBases
<1>3. PICK m \in DOMAIN order : order[m] = b
  BY OrderHasBases
<1>4. w \in [RowType -> Nat]
  BY StandsTyped
<1>5. SumOver(w, FlattenSeq(ss)) = SumFunctionOnSet(f, 1 .. Len(ss))
  <2> HIDE DEF w, ss
  <2> QED
    BY <1>1, <1>4, SumOverFlat
<1>6. ASSUME NEW n \in DOMAIN ss, n # m PROVE f[n] = 0
  <2>1. order[n] \in Bases(e) /\ order[n] # b /\ ss[n] = PartOf(sup, coll, e, order[n])
    BY <1>1, <1>2, <1>3, <1>6
  <2>2. SumOver(w, ss[n]) = 0
    BY <2>1, StandsForOthers
  <2> HIDE DEF w, ss
  <2> QED
    BY <2>2
<1>7. f[m] = SumFunctionOnSet(Counts(e, b), 1 .. Len(e.attrs))
  <2>1. m \in DOMAIN ss /\ ss[m] = PartOf(sup, coll, e, b)
    BY <1>1, <1>3
  <2>2. SumOver(w, ss[m]) = SumFunctionOnSet(Counts(e, b), 1 .. Len(e.attrs))
    BY <2>1, StandsForPart, StandsForGroup
  <2> HIDE DEF w, ss
  <2> QED
    BY <2>1, <2>2
<1>8. SumFunctionOnSet(Counts(e, b), 1 .. Len(e.attrs)) \in Nat
  <2>1. SumOver(w, Group(sup, e, b)) \in Nat
    <3> DEFINE g == Group(sup, e, b)
    <3>1. g \in Seq(RowType)
      BY GroupRows
    <3> HIDE DEF g, w
    <3> QED
      BY <1>4, <3>1, SumOverBoth DEF g
  <2> QED
    BY <2>1, StandsForGroup
<1>9. DOMAIN ss = 1 .. Len(ss) /\ Len(ss) \in Nat
  BY <1>1
<1> HIDE DEF f, ss, order
<1>10. SumFunctionOnSet(f, 1 .. Len(ss)) = f[m]
  <2> DEFINE N == Len(ss)
  <2>1. N \in Nat /\ m \in 1 .. N
    BY <1>1, <1>3, <1>9
  <2>2. f[m] \in Nat
    BY <1>7, <1>8
  <2>3. \A n \in 1 .. N : n # m => f[n] = 0
    BY <1>6, <1>9
  <2> HIDE DEF N
  <2>4. SumFunctionOnSet(f, 1 .. N) = f[m]
    BY <2>1, <2>2, <2>3, SumOfOne
  <2> QED
    BY <2>4 DEF N
<1> QED
  BY <1>5, <1>7, <1>10, RowsFlatten DEF w, ss

-----------------------------------------------------------------------------
(* The least and the greatest of two numbers, and of numbers in a range.     *)

LEMMA MaxOfTwo == \A a, b \in Int : Max({a, b}) = IF a < b THEN b ELSE a
<1> SUFFICES ASSUME NEW a \in Int, NEW b \in Int PROVE Max({a, b}) = IF a < b THEN b ELSE a
  OBVIOUS
<1> DEFINE m == IF a < b THEN b ELSE a
           M == CHOOSE x \in {a, b} : \A y \in {a, b} : x >= y
<1>1. m \in {a, b} /\ \A y \in {a, b} : m >= y
  OBVIOUS
<1>2. M \in {a, b} /\ \A y \in {a, b} : M >= y
  <2> HIDE DEF m
  <2> QED
    BY <1>1
<1>3. Max({a, b}) = M
  BY DEF Max
<1> HIDE DEF M
<1>4. M = m
  BY <1>2
<1> QED
  BY <1>3, <1>4

LEMMA MinOfTwo == \A a, b \in Int : Min({a, b}) = IF b < a THEN b ELSE a
<1> SUFFICES ASSUME NEW a \in Int, NEW b \in Int PROVE Min({a, b}) = IF b < a THEN b ELSE a
  OBVIOUS
<1> DEFINE m == IF b < a THEN b ELSE a
           M == CHOOSE x \in {a, b} : \A y \in {a, b} : x <= y
<1>1. m \in {a, b} /\ \A y \in {a, b} : m <= y
  OBVIOUS
<1>2. M \in {a, b} /\ \A y \in {a, b} : M <= y
  <2> HIDE DEF m
  <2> QED
    BY <1>1
<1>3. Min({a, b}) = M
  BY DEF Min
<1> HIDE DEF M
<1>4. M = m
  BY <1>2
<1> QED
  BY <1>3, <1>4

LEMMA MinIsOne ==
    ASSUME NEW S \in SUBSET Nat, S # {}
    PROVE  Min(S) \in S
<1>1. \E x \in S : \A y \in S : x <= y
  BY LeastNumber
<1> QED
  BY <1>1 DEF Min

LEMMA ClampedIs ==
    ASSUME NEW s \in Int, NEW most \in Nat
    PROVE  Clamped(s, most) = IF s < 0 THEN 0 ELSE IF s < most THEN s ELSE most
<1> DEFINE m == Min({s, most})
<1>1. m = IF most < s THEN most ELSE s
  BY MinOfTwo
<1>2. m \in Int
  BY <1>1
<1>3. Clamped(s, most) = Max({0, m})
  BY DEF Clamped
<1> HIDE DEF m
<1>4. Max({0, m}) = IF 0 < m THEN m ELSE 0
  BY <1>2, MaxOfTwo
<1> QED
  BY <1>1, <1>3, <1>4

\* What is drawn holds the line selV of the rows, all before the line total.
LEMMA ScrolledHolds ==
    ASSUME NEW selV \in Nat, NEW dataH \in Nat, NEW total \in Nat, selV < total \/ total = 0,
           scroll \in Nat
    PROVE  LET s == Scrolled(selV, dataH, Max({0, total - dataH})) IN
           /\ s \in Nat
           /\ dataH # 0 /\ selV < total => s <= selV /\ selV < s + dataH
<1> DEFINE most == Max({0, total - dataH})
           s == Clamped(scroll, most)
           up == Min({selV, s})
           low == Max({0, selV - dataH + 1})
           r == IF selV >= up + dataH /\ dataH > 0 THEN low ELSE up
           res == Clamped(r, most)
<1>1. most = IF 0 < total - dataH THEN total - dataH ELSE 0
  BY MaxOfTwo
<1>2. most \in Nat
  BY <1>1
<1> HIDE DEF most
<1>3. s = IF scroll < most THEN scroll ELSE most
  <2>1. Clamped(scroll, most) = IF scroll < 0 THEN 0 ELSE IF scroll < most THEN scroll ELSE most
    BY <1>2, ClampedIs
  <2>2. ~(scroll < 0)
    OBVIOUS
  <2> QED
    BY <2>1, <2>2, Zenon
<1>4. s \in Nat
  BY <1>2, <1>3
<1> HIDE DEF s
<1>5. up = IF s < selV THEN s ELSE selV
  BY <1>4, MinOfTwo
<1>6. up \in Nat
  BY <1>4, <1>5
<1> HIDE DEF up
<1>7. low = IF 0 < selV - dataH + 1 THEN selV - dataH + 1 ELSE 0
  BY MaxOfTwo
<1>8. low \in Nat
  BY <1>7
<1> HIDE DEF low
<1>9. r \in Nat
  BY <1>6, <1>8
<1>10. dataH # 0 => r <= selV /\ selV < r + dataH
  BY <1>4, <1>5, <1>6, <1>7, <1>8
<1> HIDE DEF r
<1>11. res = IF r < most THEN r ELSE most
  <2>1. Clamped(r, most) = IF r < 0 THEN 0 ELSE IF r < most THEN r ELSE most
    BY <1>2, <1>9, ClampedIs
  <2>2. ~(r < 0)
    BY <1>9
  <2> QED
    BY <2>1, <2>2, Zenon
<1> HIDE DEF res
<1>12. res \in Nat
  BY <1>2, <1>9, <1>11
<1>13. dataH # 0 /\ selV < total => res <= selV /\ selV < res + dataH
  BY <1>1, <1>2, <1>9, <1>10, <1>11
<1>14. Scrolled(selV, dataH, most) = res
  BY DEF Scrolled, res, r, low, up, s
<1> QED
  BY <1>12, <1>13, <1>14 DEF most

LEMMA Quotients == \A n, w \in Nat \ {0} : (n + w - 1) \div w \in Nat \ {0}
OBVIOUS

LEMMA LinesAreSome ==
    ASSUME width \in Nat \ {0}, NEW r \in RowType
    PROVE  Lines(r) \in Nat \ {0}
<1>1. r.len \in Nat
  BY DEF RowType
<1>2. r.len # 0 => (r.len + width - 1) \div width \in Nat \ {0}
  BY <1>1, Quotients
<1>3. Lines(r) = 1 \/ (r.len # 0 /\ Lines(r) = (r.len + width - 1) \div width)
  BY Zenon DEF Lines
<1> QED
  BY <1>2, <1>3

LEMMA StartsGrow ==
    ASSUME width \in Nat \ {0}, rows \in Seq(RowType)
    PROVE  /\ \A n \in 0 .. Len(rows) : Start(n) \in Nat
           /\ \A n \in 0 .. Len(rows) : n # Len(rows) => Start(n) < Start(Len(rows))
<1> DEFINE N == Len(rows)
           f == [k \in DOMAIN rows |-> Lines(rows[k])]
<1>1. N \in Nat /\ DOMAIN rows = 1 .. N /\ \A k \in 1 .. N : rows[k] \in RowType
  OBVIOUS
<1>2. \A k \in 1 .. N : f[k] \in Nat \ {0}
  BY <1>1, LinesAreSome
<1>3. Nats(f, N)
  BY <1>2 DEF Nats
<1>4. \A n : Start(n) = SumFunctionOnSet(f, 1 .. n)
  BY DEF Start
<1> HIDE DEF f, N
<1>5. /\ \A n \in 0 .. N : SumFunctionOnSet(f, 1 .. n) \in Nat
      /\ \A n \in 0 .. N : n # N => SumFunctionOnSet(f, 1 .. n + 1) = SumFunctionOnSet(f, 1 .. n) + f[n + 1]
  BY <1>1, <1>3, SumUpTo
<1>6. ASSUME NEW n \in 0 .. N, n # N PROVE Start(n) < Start(N)
  <2>1. n + 1 \in 1 .. N /\ n + 1 \in 0 .. N /\ N \in 0 .. N /\ n + 1 <= N
    BY <1>1, <1>6
  <2>2. SumFunctionOnSet(f, 1 .. n + 1) <= SumFunctionOnSet(f, 1 .. N)
    BY <1>1, <1>3, <2>1, SumsGrow
  <2>3. SumFunctionOnSet(f, 1 .. n + 1) = SumFunctionOnSet(f, 1 .. n) + f[n + 1]
    BY <1>5, <1>6
  <2>4. f[n + 1] \in Nat \ {0}
    BY <1>2, <2>1
  <2>5. SumFunctionOnSet(f, 1 .. n) \in Nat /\ SumFunctionOnSet(f, 1 .. N) \in Nat
    BY <1>5, <2>1
  <2>6. SumFunctionOnSet(f, 1 .. n) < SumFunctionOnSet(f, 1 .. N)
    BY <2>2, <2>3, <2>4, <2>5
  <2> QED
    BY <1>4, <2>6
<1> QED
  BY <1>4, <1>5, <1>6 DEF N

-----------------------------------------------------------------------------
(* The invariant.                                                            *)

\* The rows are those of the entry, for a table of superiors and mandatory attributes that
\* are not known any more.
Shown ==
    \/ rows = <<>>
    \/ \E sup, mandatory : GoodSup(sup) /\ rows = Rows(sup, mandatory, collapsed, entry)

PanelInv ==
    /\ defs \in Schemas
    /\ entry \in Entry /\ Spelled(entry)
    /\ collapsed \subseteq NamesOf(entry)
    /\ Shown
    /\ selected \in Int /\ (rows # <<>> => selected \in 0 .. Len(rows) - 1)
    /\ scroll \in Nat
    /\ <<width, height>> \in Sizes
    /\ SelectedOnScreen

LEMMA RowsTyped ==
    ASSUME entry \in Entry, Shown
    PROVE  rows \in Seq(RowType)
<1>1. <<>> \in Seq(RowType)
  OBVIOUS
<1>2. CASE rows = <<>>
  BY <1>1, <1>2
<1>3. CASE rows # <<>>
  <2>1. PICK sup, mandatory : GoodSup(sup) /\ rows = Rows(sup, mandatory, collapsed, entry)
    BY <1>3 DEF Shown
  <2>2. Rows(sup, mandatory, collapsed, entry) \in Seq(RowType)
    BY <2>1, RowsAre
  <2> QED
    BY <2>1, <2>2
<1> QED
  BY <1>2, <1>3

LEMMA SizeIs ==
    ASSUME <<width, height>> \in Sizes
    PROVE  width \in Nat \ {0} /\ height \in Nat \ {0}
BY SizesAssumption

\* Keys that leave the rows as they are.
LEMMA PanelStays ==
    ASSUME PanelInv, UNCHANGED <<defs, entry, rows, collapsed, scroll, width, height>>, drawn' = FALSE,
           selected' \in Int, rows # <<>> => selected' \in 0 .. Len(rows) - 1
    PROVE  PanelInv'
<1>1. SelectedOnScreen'
  BY DEF SelectedOnScreen
<1>2. Shown'
  BY DEF PanelInv, Shown
<1> QED
  BY <1>1, <1>2 DEF PanelInv

\* An entry that is shown.
LEMMA ShowWithTyped ==
    ASSUME NEW sup, GoodSup(sup), NEW mandatory, NEW coll, NEW e \in Entry, Spelled(e),
           ShowWith(sup, mandatory, coll, e)
    PROVE  /\ entry' = e /\ collapsed' = Pruned(coll, e) /\ collapsed' \subseteq NamesOf(e)
           /\ rows' = Rows(sup, mandatory, collapsed', e) /\ rows' \in Seq(RowType)
           /\ Shown' /\ scroll' = 0 /\ drawn' = FALSE
<1>1. /\ entry' = e /\ collapsed' = Pruned(coll, e)
      /\ rows' = Rows(sup, mandatory, collapsed', e) /\ scroll' = 0 /\ drawn' = FALSE
  BY DEF ShowWith
<1>2. collapsed' \subseteq NamesOf(e)
  BY <1>1 DEF Pruned, NamesOf
<1>3. rows' \in Seq(RowType)
  BY <1>1, RowsAre
<1>4. Shown'
  BY <1>1 DEF Shown
<1> QED
  BY <1>1, <1>2, <1>3, <1>4

LEMMA PanelShows ==
    ASSUME PanelInv, NEW sup, GoodSup(sup), NEW mandatory, NEW coll, NEW e \in Entry, Spelled(e),
           ShowWith(sup, mandatory, coll, e), UNCHANGED <<defs, width, height>>,
           selected' \in Int, rows' # <<>> => selected' \in 0 .. Len(rows') - 1
    PROVE  PanelInv'
<1>1. /\ entry' = e /\ collapsed' \subseteq NamesOf(e) /\ Shown' /\ scroll' = 0 /\ drawn' = FALSE
  BY ShowWithTyped
<1>2. SelectedOnScreen'
  BY <1>1 DEF SelectedOnScreen
<1>3. Spelled(entry)'
  BY <1>1 DEF Spelled, Bases
<1>4. (collapsed \subseteq NamesOf(entry))'
  BY <1>1 DEF NamesOf
<1> QED
  BY <1>1, <1>2, <1>3, <1>4 DEF PanelInv

LEMMA FirstRow ==
    ASSUME NEW X, NEW s \in Seq(X)
    PROVE  0 \in Int /\ (s # <<>> => 0 \in 0 .. Len(s) - 1)
OBVIOUS

LEMMA ShowKeeps ==
    ASSUME PanelInv, NEW e \in Entries, Show(e), UNCHANGED <<defs, width, height>>
    PROVE  PanelInv'
<1>1. e \in Entry /\ Spelled(e)
  BY EntriesSpelled
<1>2. GoodSup(SupMap(defs))
  BY SupMapGood DEF PanelInv
<1> DEFINE sup == SupMap(defs)
           mandatory == MandatoryAttrs(defs, ToSet(Classes(e)))
<1>3. ShowWith(sup, mandatory, collapsed, e) /\ selected' = 0
  BY DEF Show
<1> HIDE DEF sup, mandatory
<1>4. rows' \in Seq(RowType)
  BY <1>1, <1>2, <1>3, ShowWithTyped DEF sup
<1>5. selected' \in Int /\ (rows' # <<>> => selected' \in 0 .. Len(rows') - 1)
  BY <1>3, <1>4, FirstRow
<1> QED
  BY <1>1, <1>2, <1>3, <1>5, PanelShows DEF sup

LEMMA ShowAgainKeeps ==
    ASSUME PanelInv, NEW coll, ShowAgain(coll), UNCHANGED <<defs, width, height>>,
           selected' \in Int, rows' # <<>> => selected' \in 0 .. Len(rows') - 1
    PROVE  PanelInv'
<1>1. entry \in Entry /\ Spelled(entry)
  BY DEF PanelInv
<1>2. ShowWith(<<>>, {}, coll, entry)
  BY DEF ShowAgain
<1> DEFINE e == entry
           sup == <<>>
           mandatory == {}
<1>3. e \in Entry /\ Spelled(e) /\ GoodSup(sup) /\ ShowWith(sup, mandatory, coll, e)
  BY <1>1, <1>2, NoSup
<1> HIDE DEF e, sup, mandatory
<1> QED
  BY <1>3, PanelShows

\* Where the cursor goes when a toggle is followed.
LEMMA RestoredIs ==
    ASSUME NEW name, NEW above, rows' \in Seq(RowType)
    PROVE  /\ Restored(name, above) \in Int
           /\ rows' # <<>> => Restored(name, above) \in 0 .. Len(rows') - 1
           /\ (\E n \in DOMAIN rows' : rows'[n].name = name)
                => /\ Restored(name, above) + 1 \in DOMAIN rows'
                   /\ rows'[Restored(name, above) + 1].name = name
<1> DEFINE named == {n \in DOMAIN rows' : rows'[n].name = name /\ ~rows'[n].toggle}
           nth == {n \in named : Cardinality({k \in named : k < n}) = above}
           any == {n \in DOMAIN rows' : rows'[n].name = name}
           r == Restored(name, above)
<1>1. r = IF nth # {} THEN Min(nth) - 1 ELSE IF any # {} THEN Min(any) - 1 ELSE 0
  BY DEF Restored
<1>2. Len(rows') \in Nat /\ DOMAIN rows' = 1 .. Len(rows') /\ (rows' # <<>> => Len(rows') # 0)
  OBVIOUS
<1>3. nth \subseteq any /\ any \subseteq DOMAIN rows' /\ \A n \in any : rows'[n].name = name
  OBVIOUS
<1> HIDE DEF nth, any, r
<1>4. nth # {} => Min(nth) \in nth
  <2>1. nth \in SUBSET Nat
    BY <1>2, <1>3
  <2> QED
    BY <2>1, MinIsOne
<1>5. any # {} => Min(any) \in any
  <2>1. any \in SUBSET Nat
    BY <1>2, <1>3
  <2> QED
    BY <2>1, MinIsOne
<1>6. CASE nth = {} /\ any = {}
  <2>1. r = 0
    BY <1>1, <1>6
  <2>2. ~\E n \in DOMAIN rows' : rows'[n].name = name
    BY <1>6 DEF any
  <2> QED
    BY <1>2, <2>1, <2>2 DEF r
<1>7. CASE ~(nth = {} /\ any = {})
  <2>1. PICK m \in any : r = m - 1
    BY <1>1, <1>3, <1>4, <1>5, <1>7
  <2>2. m \in 1 .. Len(rows') /\ rows'[m].name = name
    BY <1>2, <1>3
  <2>3. r \in Int /\ r \in 0 .. Len(rows') - 1 /\ r + 1 = m
    BY <1>2, <2>1, <2>2
  <2> QED
    BY <1>2, <2>2, <2>3 DEF r
<1> QED
  BY <1>6, <1>7

LEMMA DrawKeeps ==
    ASSUME PanelInv, Draw
    PROVE  PanelInv'
<1> DEFINE dataH == height - 1
           total == Start(Len(rows))
           selV == IF selected' \in 0 .. Len(rows) - 1 THEN Start(selected') ELSE 0
<1>1. /\ drawn' = TRUE /\ (rows # <<>> \/ StartsEmpty)
      /\ selected' = IF selected >= Len(rows) THEN 0 ELSE selected
      /\ scroll' = Scrolled(selV, dataH, Max({0, total - dataH}))
      /\ UNCHANGED <<defs, entry, rows, collapsed, width, height>>
  BY DEF Draw
<1>2. rows \in Seq(RowType)
  BY RowsTyped DEF PanelInv
<1>3. width \in Nat \ {0} /\ height \in Nat \ {0}
  BY SizeIs DEF PanelInv
<1>4. /\ Len(rows) \in Nat /\ (rows # <<>> => Len(rows) # 0)
      /\ selected \in Int /\ (rows # <<>> => selected \in 0 .. Len(rows) - 1) /\ scroll \in Nat
  BY <1>2 DEF PanelInv
<1>5. selected' \in Int /\ (rows # <<>> => selected' \in 0 .. Len(rows) - 1)
  BY <1>1, <1>4
<1>6. /\ \A n \in 0 .. Len(rows) : Start(n) \in Nat
      /\ \A n \in 0 .. Len(rows) : n # Len(rows) => Start(n) < Start(Len(rows))
  BY <1>2, <1>3, StartsGrow
<1>7. total \in Nat
  BY <1>4, <1>6
<1>8. selV \in Nat /\ (selV < total \/ total = 0) /\ (rows # <<>> => selV = Start(selected') /\ selV < total)
  <2>1. CASE selected' \in 0 .. Len(rows) - 1
    <3>1. selected' \in 0 .. Len(rows) /\ selected' # Len(rows)
      BY <1>4, <2>1
    <3>2. selV = Start(selected')
      BY <2>1
    <3> QED
      BY <1>6, <3>1, <3>2
  <2>2. CASE selected' \notin 0 .. Len(rows) - 1
    <3>1. rows = <<>> /\ selV = 0
      BY <1>5, <2>2
    <3> HIDE DEF selV, total
    <3> QED
      BY <1>7, <3>1
  <2> QED
    BY <2>1, <2>2
<1>9. dataH \in Nat
  BY <1>3
<1> HIDE DEF dataH, total, selV
<1>10. /\ scroll' \in Nat
       /\ dataH # 0 /\ selV < total => scroll' <= selV /\ selV < scroll' + dataH
  BY <1>1, <1>4, <1>7, <1>8, <1>9, ScrolledHolds
<1>11. SelectedOnScreen'
  <2> SUFFICES ASSUME rows' # <<>>, height' > 1
               PROVE  scroll' <= Start(selected)' /\ Start(selected)' < scroll' + height' - 1
    BY DEF SelectedOnScreen
  <2>1. Start(selected)' = Start(selected')
    BY <1>1 DEF Start, Lines
  <2>2. rows # <<>> /\ height' = height /\ dataH = height - 1 /\ dataH # 0
    BY <1>1, <1>3 DEF dataH
  <2>3. selV = Start(selected') /\ selV < total
    BY <1>8, <2>2
  <2>4. scroll' <= selV /\ selV < scroll' + dataH
    BY <1>10, <2>2, <2>3
  <2>5. scroll' + dataH = scroll' + height' - 1
    BY <1>3, <1>10, <2>2
  <2> QED
    BY <2>1, <2>3, <2>4, <2>5
<1>12. Shown'
  BY <1>1 DEF PanelInv, Shown
<1> QED
  BY <1>1, <1>5, <1>10, <1>11, <1>12 DEF PanelInv

LEMMA MovedKeeps ==
    ASSUME PanelInv, NEW to, Moved(to), to \in Int, rows # <<>> => to \in 0 .. Len(rows) - 1
    PROVE  PanelInv'
<1>1. selected' = to /\ drawn' = FALSE /\ UNCHANGED <<defs, entry, rows, collapsed, scroll, width, height>>
  BY DEF Moved
<1> QED
  BY <1>1, PanelStays

\* The rows and where the cursor may be.
LEMMA CursorTyped ==
    ASSUME PanelInv
    PROVE  /\ rows \in Seq(RowType) /\ Len(rows) \in Nat /\ (rows # <<>> => Len(rows) # 0)
           /\ selected \in Int /\ (rows # <<>> => selected \in 0 .. Len(rows) - 1)
           /\ Jump \in Nat \ {0}
<1>1. rows \in Seq(RowType)
  BY RowsTyped DEF PanelInv
<1>2. Len(rows) \in Nat /\ (rows # <<>> => Len(rows) # 0)
  BY <1>1
<1> QED
  BY <1>1, <1>2, SizesAssumption DEF PanelInv

LEMMA MovesKeep ==
    ASSUME PanelInv, LineUp \/ LineDown \/ PageUp \/ PageDown
    PROVE  PanelInv'
<1> DEFINE N == Len(rows)
           some == rows # <<>>
<1>1. /\ N \in Nat /\ (some => N # 0) /\ selected \in Int /\ (some => selected \in 0 .. N - 1)
      /\ Jump \in Nat \ {0}
  BY CursorTyped
<1> HIDE DEF N, some
<1>2. CASE LineUp
  <2> DEFINE to == IF selected > 0 THEN selected - 1 ELSE selected
  <2>1. to \in Int /\ (some => to \in 0 .. N - 1)
    BY <1>1
  <2>2. Moved(to)
    BY <1>2 DEF LineUp
  <2> HIDE DEF to
  <2> QED
    BY <2>1, <2>2, MovedKeeps DEF N, some
<1>3. CASE LineDown
  <2> DEFINE to == IF selected + 1 < N THEN selected + 1 ELSE selected
  <2>1. to \in Int /\ (some => to \in 0 .. N - 1)
    BY <1>1
  <2>2. Moved(to)
    BY <1>3 DEF LineDown, N
  <2> HIDE DEF to
  <2> QED
    BY <2>1, <2>2, MovedKeeps DEF N, some
<1>4. CASE PageUp
  <2> DEFINE to == IF selected > Jump THEN selected - Jump ELSE 0
  <2>1. to \in Int /\ (some => to \in 0 .. N - 1)
    BY <1>1
  <2>2. Moved(to)
    BY <1>4 DEF PageUp
  <2> HIDE DEF to
  <2> QED
    BY <2>1, <2>2, MovedKeeps DEF N, some
<1>5. CASE PageDown
  <2> DEFINE to == IF selected + Jump < N THEN selected + Jump ELSE N - 1
  <2>1. to \in Int /\ (some => to \in 0 .. N - 1)
    BY <1>1
  <2>2. Moved(to)
    BY <1>5 DEF PageDown, N
  <2> HIDE DEF to
  <2> QED
    BY <2>1, <2>2, MovedKeeps DEF N, some
<1> QED
  BY <1>2, <1>3, <1>4, <1>5

LEMMA AgainTyped ==
    ASSUME PanelInv, NEW coll, ShowAgain(coll)
    PROVE  /\ entry' = entry /\ collapsed' = Pruned(coll, entry)
           /\ rows' = Rows(<<>>, {}, collapsed', entry) /\ rows' \in Seq(RowType)
           /\ drawn' = FALSE
<1>1. /\ entry' = entry /\ collapsed' = Pruned(coll, entry)
      /\ rows' = Rows(<<>>, {}, collapsed', entry) /\ drawn' = FALSE
  BY DEF ShowAgain, ShowWith
<1>2. entry \in Entry
  BY DEF PanelInv
<1>3. rows' \in Seq(RowType)
  BY <1>1, <1>2, NoSup, RowsAre
<1> QED
  BY <1>1, <1>3

LEMMA ToggleKeeps ==
    ASSUME PanelInv, Toggle
    PROVE  PanelInv'
<1> DEFINE coll == Flipped(Row.base)
           above == Above(Row.base)
           name == Row.base
<1>1. ShowAgain(coll) /\ selected' = Restored(name, above) /\ UNCHANGED <<defs, width, height>>
  BY DEF Toggle
<1> HIDE DEF coll, above, name
<1>2. rows' \in Seq(RowType)
  BY <1>1, AgainTyped
<1>3. selected' \in Int /\ (rows' # <<>> => selected' \in 0 .. Len(rows') - 1)
  BY <1>1, <1>2, RestoredIs
<1> QED
  BY <1>1, <1>3, ShowAgainKeeps

LEMMA CollapsingKeeps ==
    ASSUME PanelInv, CollapseValues \/ ExpandValues
    PROVE  PanelInv'
<1>1. PICK coll : ShowAgain(coll) /\ selected' = 0 /\ UNCHANGED <<defs, width, height>>
  BY DEF CollapseValues, ExpandValues
<1>2. rows' \in Seq(RowType)
  BY <1>1, AgainTyped
<1>3. selected' \in Int /\ (rows' # <<>> => selected' \in 0 .. Len(rows') - 1)
  BY <1>1, <1>2, FirstRow
<1> QED
  BY <1>1, <1>3, ShowAgainKeeps

\* What is typed, edit mode and search mode leave the panel as it is.
Aside ==
    /\ drawn' = FALSE
    /\ UNCHANGED <<defs, entry, rows, collapsed, selected, scroll, width, height>>

LEMMA AsideOf ==
    ASSUME StartEdit \/ Insert \/ Backspace \/ Delete \/ MoveInLine \/ LeaveEdit \/ Search \/ LeaveSearch
    PROVE  Aside
BY DEF StartEdit, Insert, Backspace, Delete, MoveInLine, LeaveEdit, Search, LeaveSearch, Edited, Aside

LEMMA PanelInit == Init => PanelInv
<1> SUFFICES ASSUME Init PROVE PanelInv
  OBVIOUS
<1>1. /\ defs \in Schemas /\ entry = [attrs |-> <<>>] /\ rows = <<>> /\ collapsed = {}
      /\ selected = 0 /\ scroll = 0
  BY DEF Init
<1>2. entry \in Entry /\ Spelled(entry)
  BY <1>1, NoAttributes
<1>3. <<width, height>> \in Sizes
  <2>1. PICK size \in Sizes : width = size[1] /\ height = size[2]
    BY DEF Init
  <2>2. size = <<size[1], size[2]>>
    BY SizesAssumption
  <2> QED
    BY <2>1, <2>2
<1>4. SelectedOnScreen /\ Shown
  BY <1>1 DEF SelectedOnScreen, Shown
<1> QED
  BY <1>1, <1>2, <1>3, <1>4 DEF PanelInv

LEMMA PanelStep == PanelInv /\ [Next]_vars => PanelInv'
<1> SUFFICES ASSUME PanelInv, [Next]_vars PROVE PanelInv'
  OBVIOUS
<1>1. CASE First \/ Load \/ GoTo
  <2>1. PICK e \in Entries : Show(e)
    BY <1>1 DEF First, Load, GoTo
  <2>2. UNCHANGED <<defs, width, height>>
    BY <1>1 DEF First, Load, GoTo
  <2> QED
    BY <2>1, <2>2, ShowKeeps
<1>2. CASE Draw
  BY <1>2, DrawKeeps
<1>3. CASE Resize
  <2>1. PICK size \in Sizes : width' = size[1] /\ height' = size[2]
    BY <1>3 DEF Resize
  <2>2. size = <<size[1], size[2]>>
    BY SizesAssumption
  <2>3. drawn' = FALSE /\ UNCHANGED <<defs, entry, rows, collapsed, selected, scroll>>
    BY <1>3 DEF Resize
  <2>4. SelectedOnScreen' /\ Shown'
    BY <2>3 DEF SelectedOnScreen, Shown, PanelInv
  <2> QED
    BY <2>1, <2>2, <2>3, <2>4 DEF PanelInv
<1>4. CASE LineUp \/ LineDown \/ PageUp \/ PageDown
  BY <1>4, MovesKeep
<1>5. CASE Toggle
  BY <1>5, ToggleKeeps
<1>6. CASE CollapseValues \/ ExpandValues
  BY <1>6, CollapsingKeeps
<1>7. CASE StartEdit \/ Insert \/ Backspace \/ Delete \/ MoveInLine \/ LeaveEdit \/ Search \/ LeaveSearch
  <2>1. Aside
    BY <1>7, AsideOf
  <2>2. selected' \in Int /\ (rows # <<>> => selected' \in 0 .. Len(rows) - 1)
    BY <2>1 DEF Aside, PanelInv
  <2> QED
    BY <2>1, <2>2, PanelStays DEF Aside
<1>8. CASE UNCHANGED vars
  <2>1. UNCHANGED <<defs, entry, rows, collapsed, selected, scroll, width, height, drawn>>
    BY <1>8 DEF vars
  <2>2. SelectedOnScreen' = SelectedOnScreen /\ Shown' = Shown
    BY <2>1 DEF SelectedOnScreen, Shown, Start, Lines
  <2> QED
    BY <2>1, <2>2 DEF PanelInv
<1> QED
  BY <1>1, <1>2, <1>3, <1>4, <1>5, <1>6, <1>7, <1>8 DEF Next

LEMMA PanelHolds == Spec => []PanelInv
BY PanelInit, PanelStep, PTL DEF Spec

\* What is drawn shows the first line of the selected row, whatever keys, entries and sizes
\* came before (AttrsWidget::draw, clampScroll and the keys of attrs.cpp).
THEOREM CursorOnScreen == Spec => []SelectedOnScreen
<1>1. PanelInv => SelectedOnScreen
  BY DEF PanelInv
<1> QED
  BY <1>1, PanelHolds, PTL

-----------------------------------------------------------------------------
(* Nothing is lost.                                                          *)

\* Every value of the entry has a row or is counted by the toggle of its base type, which
\* values with and without options share, whatever is collapsed, sorted or added to the
\* rows (AttrsWidget::show and its lambdas in attrs.cpp).
THEOREM AllValuesCount == Spec => []NothingLost
<1>1. PanelInv => NothingLost
  <2> SUFFICES ASSUME PanelInv, rows # <<>>, NEW b \in Bases(entry)
               PROVE  LET values == [n \in DOMAIN entry.attrs |->
                                        IF entry.attrs[n].base = b THEN Len(entry.attrs[n].vals) ELSE 0]
                          shown == [n \in DOMAIN rows |->
                                       IF rows[n].base # b \/ rows[n].from # "" THEN 0
                                       ELSE IF rows[n].toggle THEN rows[n].hidden ELSE 1]
                      IN SumFunction(values) = SumFunction(shown)
    BY DEF NothingLost
  <2> DEFINE values == [n \in DOMAIN entry.attrs |->
                           IF entry.attrs[n].base = b THEN Len(entry.attrs[n].vals) ELSE 0]
             shown == [n \in DOMAIN rows |->
                          IF rows[n].base # b \/ rows[n].from # "" THEN 0
                          ELSE IF rows[n].toggle THEN rows[n].hidden ELSE 1]
             w == Stands(b)
  <2>1. PICK sup, mandatory : GoodSup(sup) /\ rows = Rows(sup, mandatory, collapsed, entry)
    BY DEF PanelInv, Shown
  <2>2. entry \in Entry /\ Spelled(entry) /\ collapsed \subseteq NamesOf(entry)
    BY DEF PanelInv
  <2>3. SumOver(w, rows) = SumFunctionOnSet(Counts(entry, b), 1 .. Len(entry.attrs))
    BY <2>1, <2>2, StandsForRows
  <2>4. rows \in Seq(RowType)
    BY RowsTyped DEF PanelInv
  <2>5. shown = [n \in DOMAIN rows |-> w[rows[n]]]
    <3>1. ASSUME NEW n \in DOMAIN rows
          PROVE  w[rows[n]] = IF rows[n].base # b \/ rows[n].from # "" THEN 0
                              ELSE IF rows[n].toggle THEN rows[n].hidden ELSE 1
      <4> DEFINE r == rows[n]
      <4>1. r \in RowType
        BY <2>4
      <4> HIDE DEF r
      <4>2. w[r] = IF r.base # b \/ r.from # "" THEN 0 ELSE IF r.toggle THEN r.hidden ELSE 1
        BY <4>1 DEF Stands
      <4> QED
        BY <4>2 DEF r
    <3> HIDE DEF w
    <3> QED
      BY <3>1, Zenon
  <2>6. SumFunction(shown) = SumOver(w, rows)
    <3>1. DOMAIN shown = DOMAIN rows
      OBVIOUS
    <3> HIDE DEF shown, w
    <3> QED
      BY <2>5, <3>1 DEF SumFunction, SumOver
  <2>7. SumFunction(values) = SumFunctionOnSet(Counts(entry, b), 1 .. Len(entry.attrs))
    <3>1. values = Counts(entry, b)
      BY DEF Counts
    <3>2. DOMAIN values = 1 .. Len(entry.attrs)
      BY <2>2, AttributesTyped
    <3> HIDE DEF values
    <3> QED
      BY <3>1, <3>2 DEF SumFunction
  <2>8. SumFunction(values) = SumFunction(shown)
    BY <2>3, <2>6, <2>7
  <2> QED
    BY <2>8
<1> QED
  BY <1>1, PanelHolds, PTL

-----------------------------------------------------------------------------
(* A toggle keeps the cursor on its attribute.                               *)

\* The base type of a row with a name that is a base type.
LEMMA NamedRows ==
    ASSUME NEW e \in Entry, Spelled(e), NEW coll, NEW mandatory, NEW b \in Bases(e),
           NEW r, RowIn(<<>>, coll, e, r), r.name = b
    PROVE  r.base = b
<1>1. CASE RowOf(<<>>, e, r.base, r)
  <2>1. Unlisted(<<>>, e, r.base) = <<>>
    BY DEF Unlisted
  <2>2. OfValue(e, r.base, r)
    BY <1>1, <2>1 DEF RowOf
  <2>3. PICK n \in DOMAIN e.attrs : e.attrs[n].base = r.base /\ e.attrs[n].name = r.name
    BY <2>2 DEF OfValue
  <2>4. e.attrs[n].base = e.attrs[n].name
    BY <2>3 DEF Spelled
  <2> QED
    BY <2>3, <2>4
<1>2. CASE r.toggle /\ r.name = r.base
  BY <1>2
<1> QED
  BY <1>1, <1>2 DEF RowIn

\* Attributes come with values: a search asks for them.
HaveValues == \A e \in Entries : \A n \in DOMAIN e.attrs : e.attrs[n].vals # <<>>
EntryHasValues == \A n \in DOMAIN entry.attrs : entry.attrs[n].vals # <<>>

LEMMA EntryIsLoaded ==
    ASSUME [Next]_vars
    PROVE  entry' = entry \/ \E e \in Entries : entry' = e
<1>1. CASE First \/ Load \/ GoTo
  BY <1>1 DEF First, Load, GoTo, Show, ShowWith
<1>2. CASE Toggle \/ CollapseValues \/ ExpandValues
  BY <1>2 DEF Toggle, CollapseValues, ExpandValues, ShowAgain, ShowWith
<1>3. CASE Draw \/ Resize
  BY <1>3 DEF Draw, Resize
<1>4. CASE LineUp \/ LineDown \/ PageUp \/ PageDown
  BY <1>4 DEF LineUp, LineDown, PageUp, PageDown, Moved
<1>5. CASE StartEdit \/ Insert \/ Backspace \/ Delete \/ MoveInLine \/ LeaveEdit \/ Search \/ LeaveSearch
  BY <1>5, AsideOf DEF Aside
<1>6. CASE UNCHANGED vars
  BY <1>6 DEF vars
<1> QED
  BY <1>1, <1>2, <1>3, <1>4, <1>5, <1>6 DEF Next

LEMMA EntryHasValuesStep == HaveValues /\ EntryHasValues /\ [Next]_vars => EntryHasValues'
<1> SUFFICES ASSUME HaveValues, EntryHasValues, [Next]_vars PROVE EntryHasValues'
  OBVIOUS
<1>1. entry' = entry \/ \E e \in Entries : entry' = e
  BY EntryIsLoaded
<1>2. CASE entry' = entry
  BY <1>2 DEF EntryHasValues
<1>3. CASE \E e \in Entries : entry' = e
  BY <1>3 DEF EntryHasValues, HaveValues
<1> QED
  BY <1>1, <1>2, <1>3

LEMMA ToggleStep ==
    ASSUME PanelInv, EntryHasValues, Toggle
    PROVE  rows'[selected' + 1].base = Row.base
<1> DEFINE b == Row.base
           e == entry
           coll == Flipped(b)
           above == Above(b)
<1>1. /\ HasRow /\ Row.toggle /\ ShowAgain(coll) /\ selected' = Restored(b, above)
  BY DEF Toggle
<1>2. e \in Entry /\ Spelled(e) /\ collapsed \subseteq NamesOf(e) /\ rows \in Seq(RowType)
  BY RowsTyped DEF PanelInv
<1>3. RowIn(<<>>, collapsed, e, Row) \/ (b \in Bases(e) /\ b \in collapsed)
  <2>1. selected + 1 \in DOMAIN rows /\ rows # <<>>
    BY <1>1, <1>2, CursorTyped DEF HasRow
  <2>2. PICK sup, mandatory : GoodSup(sup) /\ rows = Rows(sup, mandatory, collapsed, entry)
    BY <2>1 DEF PanelInv, Shown
  <2>3. \A i \in DOMAIN Rows(sup, mandatory, collapsed, e) :
            RowIn(sup, collapsed, e, Rows(sup, mandatory, collapsed, e)[i])
    BY <1>2, <2>2, RowsAre
  <2>4. RowIn(sup, collapsed, e, Row)
    BY <2>1, <2>2, <2>3 DEF Row
  <2> QED
    BY <1>1, <2>4 DEF RowIn, RowOf
<1>4. b \in Bases(e) /\ b \in collapsed
  BY <1>1, <1>3 DEF RowIn, RowOf
<1>5. coll = collapsed \ {b}
  BY <1>4 DEF Flipped
<1>6. /\ collapsed' = Pruned(coll, e) /\ rows' = Rows(<<>>, {}, collapsed', e) /\ rows' \in Seq(RowType)
  BY <1>1, AgainTyped
<1> HIDE DEF b, e, coll, above
<1>7. b \notin collapsed'
  BY <1>5, <1>6 DEF Pruned
<1>8. \E n \in DOMAIN rows' : rows'[n].name = b
  <2>1. PICK n \in DOMAIN e.attrs : e.attrs[n].name = b
    BY <1>2, <1>4 DEF NamesOf
  <2>2. e.attrs[n].base = b
    BY <1>2, <1>4, <2>1 DEF Spelled
  <2>3. 1 \in DOMAIN e.attrs[n].vals
    <3>1. e.attrs[n].vals # <<>>
      BY DEF EntryHasValues, e
    <3> QED
      BY <1>2, <3>1, AttributesTyped
  <2> DEFINE x == ValueRow(e.attrs[n], e.attrs[n].vals[1])
             g == Group(<<>>, e, b)
  <2>4. PICK i \in DOMAIN g : g[i] = x
    <3>1. Covers(g, e, b)
      BY <1>2, NoSup, GroupRows
    <3> HIDE DEF g
    <3> QED
      BY <2>2, <2>3, <3>1 DEF Covers
  <2>5. PartOf(<<>>, collapsed', e, b) = g
    BY <1>7 DEF PartOf
  <2>6. \E j \in DOMAIN rows' : rows'[j] = g[i]
    BY <1>2, <1>4, <1>6, <2>4, <2>5, NoSup, RowsAre
  <2>7. x.name = e.attrs[n].name
    BY ValueRowFields
  <2> HIDE DEF x, g
  <2> QED
    BY <2>1, <2>4, <2>6, <2>7
<1>9. /\ selected' + 1 \in DOMAIN rows' /\ rows'[selected' + 1].name = b
  BY <1>1, <1>6, <1>8, RestoredIs
<1>10. RowIn(<<>>, collapsed', e, rows'[selected' + 1])
  BY <1>2, <1>6, <1>9, NoSup, RowsAre
<1>11. rows'[selected' + 1].base = b
  BY <1>2, <1>4, <1>9, <1>10, NamedRows
<1> QED
  BY <1>11 DEF b

\* Enter on "[+N more]" leaves the cursor on the attribute whose values it shows, if entries
\* are loaded with the values of their attributes (saveTogglePos and restoreTogglePos).
THEOREM TogglesKeepTheCursor ==
    ASSUME HaveValues
    PROVE  Spec => ToggleStays
<1>1. Init => EntryHasValues
  BY DEF Init, EntryHasValues
<1>2. EntryHasValues /\ [Next]_vars => EntryHasValues'
  BY EntryHasValuesStep
<1>3. Spec => []EntryHasValues
  BY <1>1, <1>2, PTL DEF Spec
<1>4. PanelInv /\ EntryHasValues /\ [Next]_vars => [Toggle => rows'[selected' + 1].base = Row.base]_vars
  BY ToggleStep
<1> QED
  BY <1>3, <1>4, PanelHolds, PTL DEF Spec, ToggleStays

-----------------------------------------------------------------------------
(* Types.                                                                    *)

EditInv ==
    /\ edit \in [on : BOOLEAN, len : 0 .. MaxEdit, pos : 0 .. MaxEdit] /\ edit.pos <= edit.len
    /\ searching \in BOOLEAN

\* A panel that is drawn has rows, unless the first entry may be unreadable.
RowsWhenDrawn ==
    /\ drawn \in BOOLEAN /\ (drawn => rows # <<>>)
    /\ rows = <<>> => selected = 0

LEMMA LinesTyped ==
    ASSUME NEW on \in BOOLEAN, NEW len \in 0 .. MaxEdit, NEW pos \in 0 .. len
    PROVE  LET e == [on |-> on, len |-> len, pos |-> pos] IN
           e \in [on : BOOLEAN, len : 0 .. MaxEdit, pos : 0 .. MaxEdit] /\ e.pos <= e.len
<1>1. MaxEdit \in Nat
  BY SizesAssumption
<1>2. pos \in 0 .. MaxEdit /\ pos <= len
  BY <1>1
<1> QED
  BY <1>2

LEMMA EditStep == EditInv /\ [Next]_vars => EditInv'
<1> SUFFICES ASSUME EditInv, [Next]_vars PROVE EditInv'
  OBVIOUS
<1>0. MaxEdit \in Nat
  BY SizesAssumption
<1>1. /\ edit \in [on : BOOLEAN, len : 0 .. MaxEdit, pos : 0 .. MaxEdit]
      /\ edit.len \in 0 .. MaxEdit /\ edit.pos \in 0 .. edit.len
  BY <1>0 DEF EditInv
<1>2. ASSUME NEW on \in BOOLEAN, NEW len \in 0 .. MaxEdit, NEW pos \in 0 .. len,
             edit' = [on |-> on, len |-> len, pos |-> pos], searching' = searching
      PROVE  EditInv'
  BY <1>2, LinesTyped DEF EditInv
<1>3. CASE UNCHANGED <<edit, searching>>
  BY <1>3 DEF EditInv
<1>4. CASE StartEdit
  <2>1. PICK len \in 0 .. MaxEdit : Edited([on |-> TRUE, len |-> len, pos |-> len])
    BY <1>4 DEF StartEdit
  <2>2. len \in 0 .. len
    BY <2>1, <1>0
  <2> QED
    BY <1>2, <2>1, <2>2 DEF Edited
<1>5. CASE Insert
  <2> DEFINE len == edit.len + 1
             pos == edit.pos + 1
  <2>1. len \in 0 .. MaxEdit /\ pos \in 0 .. len
    BY <1>0, <1>1, <1>5 DEF Insert
  <2>2. edit' = [on |-> edit.on, len |-> len, pos |-> pos] /\ edit.on \in BOOLEAN /\ searching' = searching
    BY <1>1, <1>5 DEF Insert, Edited
  <2> HIDE DEF len, pos
  <2> QED
    BY <1>2, <2>1, <2>2
<1>6. CASE Backspace
  <2> DEFINE len == edit.len - 1
             pos == edit.pos - 1
  <2>1. len \in 0 .. MaxEdit /\ pos \in 0 .. len
    BY <1>0, <1>1, <1>6 DEF Backspace
  <2>2. edit' = [on |-> edit.on, len |-> len, pos |-> pos] /\ edit.on \in BOOLEAN /\ searching' = searching
    BY <1>1, <1>6 DEF Backspace, Edited
  <2> HIDE DEF len, pos
  <2> QED
    BY <1>2, <2>1, <2>2
<1>7. CASE Delete
  <2> DEFINE len == edit.len - 1
             pos == edit.pos
  <2>1. len \in 0 .. MaxEdit /\ pos \in 0 .. len
    BY <1>0, <1>1, <1>7 DEF Delete
  <2>2. edit' = [on |-> edit.on, len |-> len, pos |-> pos] /\ edit.on \in BOOLEAN /\ searching' = searching
    BY <1>1, <1>7 DEF Delete, Edited
  <2> HIDE DEF len, pos
  <2> QED
    BY <1>2, <2>1, <2>2
<1>8. CASE MoveInLine
  <2> DEFINE left == Max({0, edit.pos - 1})
             right == Min({edit.len, edit.pos + 1})
  <2>1. left = IF 0 < edit.pos - 1 THEN edit.pos - 1 ELSE 0
    BY <1>1, MaxOfTwo
  <2>2. right = IF edit.pos + 1 < edit.len THEN edit.pos + 1 ELSE edit.len
    BY <1>1, MinOfTwo
  <2>3. left \in 0 .. edit.len /\ right \in 0 .. edit.len /\ 0 \in 0 .. edit.len /\ edit.len \in 0 .. edit.len
    BY <1>1, <2>1, <2>2
  <2>4. PICK pos \in {left, right, 0, edit.len} : Edited([edit EXCEPT !.pos = pos])
    BY <1>8 DEF MoveInLine
  <2> HIDE DEF left, right
  <2>5. pos \in 0 .. edit.len
    BY <2>3, <2>4
  <2>6. edit' = [on |-> edit.on, len |-> edit.len, pos |-> pos] /\ edit.on \in BOOLEAN /\ searching' = searching
    BY <1>1, <2>4 DEF Edited
  <2> QED
    BY <1>1, <1>2, <2>5, <2>6
<1>9. CASE LeaveEdit
  <2>1. edit' = [on |-> FALSE, len |-> 0, pos |-> 0] /\ searching' = searching
    BY <1>9 DEF LeaveEdit, Edited, NoEdit
  <2>2. 0 \in 0 .. MaxEdit /\ 0 \in 0 .. 0
    BY <1>0
  <2> QED
    BY <1>2, <2>1, <2>2
<1>10. CASE Search \/ LeaveSearch
  BY <1>10 DEF Search, LeaveSearch, EditInv
<1>11. CASE First \/ Load \/ Draw \/ Resize \/ Toggle \/ GoTo \/ CollapseValues \/ ExpandValues
  BY <1>3, <1>11 DEF First, Load, Draw, Resize, Toggle, GoTo, CollapseValues, ExpandValues
<1>12. CASE LineUp \/ LineDown \/ PageUp \/ PageDown
  BY <1>3, <1>12 DEF LineUp, LineDown, PageUp, PageDown, Moved
<1>13. CASE UNCHANGED vars
  BY <1>3, <1>13 DEF vars
<1> QED
  BY <1>4, <1>5, <1>6, <1>7, <1>8, <1>9, <1>10, <1>11, <1>12, <1>13 DEF Next

LEMMA EditHolds == Spec => []EditInv
<1>1. Init => EditInv
  <2> SUFFICES ASSUME Init PROVE EditInv
    OBVIOUS
  <2>1. edit = [on |-> FALSE, len |-> 0, pos |-> 0] /\ searching = FALSE
    BY DEF Init, NoEdit
  <2>2. 0 \in 0 .. MaxEdit /\ 0 \in 0 .. 0
    BY SizesAssumption
  <2> QED
    BY <2>1, <2>2, LinesTyped DEF EditInv
<1> QED
  BY <1>1, EditStep, PTL DEF Spec

LEMMA DrawnStep == StartsEmpty = FALSE /\ PanelInv /\ RowsWhenDrawn /\ [Next]_vars => RowsWhenDrawn'
<1> SUFFICES ASSUME StartsEmpty = FALSE, PanelInv, RowsWhenDrawn, [Next]_vars PROVE RowsWhenDrawn'
  OBVIOUS
<1>1. ASSUME drawn' = FALSE, selected' = 0 PROVE RowsWhenDrawn'
  BY <1>1 DEF RowsWhenDrawn
<1>2. ASSUME drawn' = FALSE, rows' = rows, rows # <<>> \/ selected' = selected PROVE RowsWhenDrawn'
  BY <1>2 DEF RowsWhenDrawn
<1>3. CASE First \/ Load \/ GoTo \/ CollapseValues \/ ExpandValues
  <2>1. drawn' = FALSE /\ selected' = 0
    BY <1>3 DEF First, Load, GoTo, CollapseValues, ExpandValues, Show, ShowAgain, ShowWith
  <2> QED
    BY <1>1, <2>1
<1>4. CASE Draw
  <2>1. drawn' = TRUE /\ rows # <<>> /\ rows' = rows
    BY <1>4 DEF Draw
  <2> QED
    BY <2>1 DEF RowsWhenDrawn
<1>5. CASE Resize
  <2>1. drawn' = FALSE /\ rows' = rows /\ selected' = selected
    BY <1>5 DEF Resize
  <2> QED
    BY <1>2, <2>1
<1>6. CASE LineUp \/ LineDown \/ PageUp \/ PageDown
  <2>1. drawn /\ drawn' = FALSE /\ rows' = rows
    BY <1>6 DEF LineUp, LineDown, PageUp, PageDown, Moved, Browsing
  <2>2. rows # <<>>
    BY <2>1 DEF RowsWhenDrawn
  <2> QED
    BY <1>2, <2>1, <2>2
<1>7. CASE Toggle
  <2> DEFINE coll == Flipped(Row.base)
             name == Row.base
             above == Above(Row.base)
  <2>1. ShowAgain(coll) /\ selected' = Restored(name, above)
    BY <1>7 DEF Toggle
  <2> HIDE DEF coll, name, above
  <2>2. drawn' = FALSE /\ rows' \in Seq(RowType)
    BY <2>1, AgainTyped
  <2>3. rows' = <<>> => selected' = 0
    <3>1. rows' = <<>> => DOMAIN rows' = {}
      OBVIOUS
    <3> QED
      BY <2>1, <3>1 DEF Restored
  <2> QED
    BY <2>2, <2>3 DEF RowsWhenDrawn
<1>8. CASE StartEdit \/ Insert \/ Backspace \/ Delete \/ MoveInLine \/ LeaveEdit \/ Search \/ LeaveSearch
  BY <1>2, <1>8, AsideOf DEF Aside
<1>9. CASE UNCHANGED vars
  BY <1>9 DEF vars, RowsWhenDrawn
<1> QED
  BY <1>3, <1>4, <1>5, <1>6, <1>7, <1>8, <1>9 DEF Next

\* The cursor is at a row, the names that are collapsed are those of the entry, and in edit
\* mode the cursor is in the line, when the first entry can be read (class AttrsWidget).
THEOREM TypeCorrect ==
    ASSUME StartsEmpty = FALSE
    PROVE  Spec => []TypeOK
<1>1. Init => RowsWhenDrawn
  BY DEF Init, RowsWhenDrawn
<1>2. PanelInv /\ RowsWhenDrawn /\ [Next]_vars => RowsWhenDrawn'
  BY DrawnStep
<1>3. Spec => []RowsWhenDrawn
  BY <1>1, <1>2, PanelHolds, PTL DEF Spec
<1>4. PanelInv /\ RowsWhenDrawn /\ EditInv => TypeOK
  <2> SUFFICES ASSUME PanelInv, RowsWhenDrawn, EditInv PROVE TypeOK
    OBVIOUS
  <2> DEFINE N == Len(rows)
  <2>1. /\ N \in Nat /\ (rows # <<>> => N # 0) /\ selected \in Int
        /\ (rows # <<>> => selected \in 0 .. N - 1) /\ (rows = <<>> => selected = 0)
    BY CursorTyped DEF RowsWhenDrawn
  <2>2. Max({0, N - 1}) = IF 0 < N - 1 THEN N - 1 ELSE 0
    BY <2>1, MaxOfTwo
  <2>3. selected \in 0 .. Max({0, N - 1})
    BY <2>1, <2>2
  <2>4. collapsed \subseteq {entry.attrs[n].name : n \in DOMAIN entry.attrs}
    BY DEF PanelInv, NamesOf
  <2>5. edit.on \in BOOLEAN /\ edit.len \in 0 .. MaxEdit /\ edit.pos \in 0 .. edit.len
    <3>1. /\ edit.on \in BOOLEAN /\ edit.len \in 0 .. MaxEdit /\ edit.pos \in 0 .. MaxEdit
          /\ edit.pos <= edit.len
      BY DEF EditInv
    <3> QED
      BY <3>1, SizesAssumption
  <2> QED
    BY <2>3, <2>4, <2>5 DEF TypeOK, PanelInv, RowsWhenDrawn, EditInv
<1> QED
  BY <1>3, <1>4, PanelHolds, EditHolds, PTL

-----------------------------------------------------------------------------
(* What the definitions say of a class.                                      *)

LEMMA DefinitionsCount ==
    ASSUME NEW d \in Schemas
    PROVE  Len(d) \in Nat /\ DOMAIN d = 1 .. Len(d)
BY SchemasTyped

LEMMA DefinitionTyped ==
    ASSUME NEW d \in Schemas
    PROVE  \A n \in DOMAIN d : /\ d[n].name \in Ranked /\ d[n].name # ""
                              /\ ParseSUP(d[n]) \in Ranked \cup {""}
                              /\ d[n].sup.names \in Seq(Ranked)
<1>1. Len(d) \in Nat /\ DOMAIN d = 1 .. Len(d) /\ \A n \in DOMAIN d : d[n] \in Definition
  BY SchemasTyped
<1> SUFFICES ASSUME NEW n \in DOMAIN d
             PROVE  /\ d[n].name \in Ranked /\ d[n].name # "" /\ d[n].sup.names \in Seq(Ranked)
                    /\ ParseSUP(d[n]) \in Ranked \cup {""}
  BY <1>1
<1>2. d[n].name \in Ranked /\ d[n].sup \in ListOf(Ranked)
  BY <1>1 DEF Definition
<1>3. d[n].sup.names \in Seq(Ranked)
  BY <1>2 DEF ListOf
<1>4. d[n].sup.names # <<>> => d[n].sup.names[1] \in Ranked
  BY <1>3
<1> QED
  BY <1>2, <1>3, <1>4, StringsRanked DEF ParseSUP

LEMMA OneDefinition ==
    ASSUME NEW d \in Schemas, NEW x, NEW n \in Defining(d, x)
    PROVE  n \in DOMAIN d /\ Defining(d, x) = {n} /\ DefOf(d, x) = d[n]
<1>1. n \in DOMAIN d /\ x # "" /\ Lower[d[n].name] = Lower[x]
  BY DEF Defining
<1>2. \A k \in Defining(d, x) : k = n
  BY <1>1, PublishedAssumption DEF Defining
<1>3. Defining(d, x) = {n}
  BY <1>2
<1>4. n <= n
  <2>1. n \in DOMAIN d
    BY <1>1
  <2> QED
    BY <2>1, DefinitionsCount
<1>5. (CHOOSE m \in Defining(d, x) : \A k \in Defining(d, x) : m <= k) = n
  BY <1>3, <1>4
<1> QED
  BY <1>1, <1>3, <1>5 DEF DefOf

\* The superior of a name, as the walks read it.
Above1(d, x) == IF Defining(d, x) = {} THEN "" ELSE ParseSUP(DefOf(d, x))
IsAscent(up, d, c) == up[0] = c /\ \A n \in 0 .. Len(d) : up[n + 1] = Above1(d, up[n])

LEMMA LineageIs ==
    ASSUME NEW d \in Schemas, NEW c
    PROVE  \E up : /\ IsAscent(up, d, c)
                   /\ Lineage(d, c) = {x \in {up[n] : n \in 0 .. Len(d) + 1} : Defining(d, x) # {}}
<1> DEFINE N == Len(d) + 1
           X == Ranked \cup {"", c}
           F == [n \in 1 .. N |-> [x \in X |-> Above1(d, x)]]
           Eqn(g) == g = [n \in 0 .. N |-> IF n = 0 THEN c ELSE Above1(d, g[n - 1])]
           it == CHOOSE g : Eqn(g)
<1>1. Len(d) \in Nat /\ N \in Nat
  BY DefinitionsCount
<1>2. \A x \in X : Above1(d, x) \in X
  <2> SUFFICES ASSUME NEW x, Defining(d, x) # {} PROVE ParseSUP(DefOf(d, x)) \in Ranked \cup {""}
    BY DEF Above1
  <2>1. PICK n \in Defining(d, x) : TRUE
    OBVIOUS
  <2>2. n \in DOMAIN d /\ DefOf(d, x) = d[n]
    BY OneDefinition
  <2> QED
    BY <2>2, DefinitionTyped
<1>3. Lineage(d, c) = {x \in {it[n] : n \in 0 .. N} : Defining(d, x) # {}}
  BY DEF Lineage, Above1
<1> HIDE DEF N, X
<1>4. c \in X
  BY DEF X
<1>5. F \in [1 .. N -> [X -> X]] /\ \A n \in 1 .. N : \A x \in X : F[n][x] = Above1(d, x)
  BY <1>2
<1>6. PICK f \in [0 .. N -> X] : IsWalk(f, N, c, F)
  <2> HIDE DEF F
  <2> QED
    BY <1>1, <1>4, <1>5, WalkExists
<1>7. Eqn(f)
  <2>1. ASSUME NEW n \in 0 .. N PROVE f[n] = IF n = 0 THEN c ELSE Above1(d, f[n - 1])
    <3>1. CASE n = 0
      BY <1>6, <3>1 DEF IsWalk
    <3>2. CASE n # 0
      <4>1. n \in 1 .. N /\ n - 1 \in 0 .. N
        BY <1>1, <3>2
      <4>2. f[n - 1] \in X
        BY <1>6, <4>1
      <4> HIDE DEF F
      <4> QED
        BY <1>5, <1>6, <3>2, <4>1, <4>2 DEF IsWalk
    <3> QED
      BY <3>1, <3>2
  <2>2. f = [n \in 0 .. N |-> f[n]]
    BY <1>6
  <2> QED
    BY <2>1, <2>2
<1>8. Eqn(it)
  <2> HIDE DEF Eqn
  <2> QED
    BY <1>7
<1>9. \A n \in 0 .. N : it[n] = IF n = 0 THEN c ELSE Above1(d, it[n - 1])
  <2> HIDE DEF it
  <2> QED
    BY <1>8
<1> HIDE DEF it
<1>10. IsAscent(it, d, c)
  <2>1. it[0] = c
    BY <1>1, <1>9
  <2>2. ASSUME NEW n \in 0 .. Len(d) PROVE it[n + 1] = Above1(d, it[n])
    <3>1. n + 1 \in 0 .. N /\ n + 1 # 0 /\ (n + 1) - 1 = n
      BY <1>1 DEF N
    <3> QED
      BY <1>9, <3>1
  <2> QED
    BY <2>1, <2>2 DEF IsAscent
<1> QED
  BY <1>3, <1>10 DEF N

\* The definitions on an ascent.
OnWay(up, d) == {n \in DOMAIN d : \E k \in 0 .. Len(d) + 1 : n \in Defining(d, up[k])}

\* The ascent is long enough: what is next to a definition on it is on it.
LEMMA WayGoesUp ==
    ASSUME NEW d \in Schemas, NEW c, NEW up, IsAscent(up, d, c),
           NEW n \in OnWay(up, d), NEW m \in Defining(d, ParseSUP(d[n]))
    PROVE  m \in OnWay(up, d)
<1> DEFINE L == Len(d)
           f == [k \in 0 .. L + 1 |-> IF Defining(d, up[k]) = {} THEN 0
                                      ELSE CHOOSE x \in Defining(d, up[k]) : TRUE]
<1>1. L \in Nat /\ DOMAIN d = 1 .. L
  BY DefinitionsCount
<1>2. ASSUME NEW k \in 0 .. L + 1
      PROVE  /\ f[k] \in 0 .. L
             /\ f[k] = 0 => Defining(d, up[k]) = {}
             /\ f[k] # 0 => Defining(d, up[k]) = {f[k]}
  <2>1. CASE Defining(d, up[k]) = {}
    BY <1>1, <2>1
  <2>2. CASE Defining(d, up[k]) # {}
    <3>1. f[k] \in Defining(d, up[k])
      BY <2>2
    <3>2. f[k] \in DOMAIN d /\ Defining(d, up[k]) = {f[k]}
      <4> HIDE DEF f
      <4> QED
        BY <3>1, OneDefinition
    <3>3. f[k] \in 1 .. L
      BY <1>1, <3>2
    <3> HIDE DEF f, L
    <3> QED
      BY <1>1, <3>2, <3>3
  <2> QED
    BY <2>1, <2>2
<1>3. f \in [0 .. L + 1 -> 0 .. L]
  <2>1. f = [k \in 0 .. L + 1 |-> f[k]]
    OBVIOUS
  <2> HIDE DEF f
  <2> QED
    BY <1>2, <2>1
<1> HIDE DEF f
<1>4. \A k \in 0 .. L : k \in 0 .. L + 1 /\ k + 1 \in 0 .. L + 1
  BY <1>1
<1>5. ASSUME NEW i \in 0 .. L + 1, NEW j \in 0 .. L + 1, f[i] = f[j]
      PROVE  Above1(d, up[i]) = Above1(d, up[j])
  <2>1. Defining(d, up[i]) = Defining(d, up[j])
    BY <1>2, <1>5
  <2>2. DefOf(d, up[i]) = DefOf(d, up[j])
    BY <2>1 DEF DefOf
  <2> QED
    BY <2>1, <2>2 DEF Above1
<1>6. ASSUME NEW i \in 0 .. L, NEW j \in 0 .. L, f[i] = f[j] PROVE f[i + 1] = f[j + 1]
  <2>1. up[i + 1] = Above1(d, up[i]) /\ up[j + 1] = Above1(d, up[j])
    BY DEF IsAscent
  <2>2. up[i + 1] = up[j + 1]
    BY <1>4, <1>5, <1>6, <2>1
  <2> QED
    BY <1>4, <2>2 DEF f
<1>7. PICK k \in 0 .. L : f[L + 1] = f[k]
  <2>1. IsFiniteSet(0 .. L) /\ Cardinality(0 .. L) <= L + 1
    <3>1. Cardinality(0 .. L) = IF 0 > L THEN 0 ELSE L - 0 + 1
      BY <1>1, FS_Interval
    <3> QED
      BY <1>1, <3>1, FS_Interval
  <2>2. \A k \in 0 .. L + 1 : k # L + 1 => k \in 0 .. L
    BY <1>1
  <2>3. L + 1 \in Nat
    BY <1>1
  <2> DEFINE M == L + 1
             S == 0 .. L
  <2>4. f \in [0 .. M -> S] /\ \A i, j \in 0 .. M : i # M /\ j # M /\ f[i] = f[j] => f[i + 1] = f[j + 1]
    BY <1>3, <1>6, <2>2
  <2>5. M \in Nat /\ IsFiniteSet(S) /\ Cardinality(S) <= M
    BY <2>1, <2>3
  <2> HIDE DEF M, S
  <2>6. \E k \in 0 .. M : k # M /\ f[M] = f[k]
    BY <2>4, <2>5, WalkReturns
  <2> QED
    BY <2>2, <2>6 DEF M
<1>8. PICK h \in 0 .. L + 1 : n \in Defining(d, up[h])
  BY DEF OnWay
<1>9. \E g \in 0 .. L : n \in Defining(d, up[g])
  <2>1. CASE h \in 0 .. L
    BY <1>8, <2>1
  <2>2. CASE h \notin 0 .. L
    <3>1. h = L + 1
      BY <1>1, <2>2
    <3>2. f[h] # 0 /\ n = f[h]
      BY <1>2, <1>8
    <3>3. f[k] = n /\ n # 0
      BY <1>7, <3>1, <3>2
    <3>4. Defining(d, up[k]) = {n}
      BY <1>2, <1>4, <3>3
    <3> QED
      BY <3>4
  <2> QED
    BY <2>1, <2>2
<1>10. PICK g \in 0 .. L : n \in Defining(d, up[g])
  BY <1>9
<1>11. up[g + 1] = ParseSUP(d[n])
  <2>1. DefOf(d, up[g]) = d[n] /\ Defining(d, up[g]) # {}
    BY <1>10, OneDefinition
  <2> QED
    BY <2>1 DEF IsAscent, Above1
<1>12. m \in DOMAIN d
  BY DEF Defining
<1> QED
  BY <1>4, <1>11, <1>12 DEF OnWay

\* And it meets nothing but the definitions that have to be there.
LEMMA WayIsLeast ==
    ASSUME NEW d \in Schemas, NEW s \in DOMAIN d, NEW up, IsAscent(up, d, d[s].name),
           NEW C, s \in C, \A n \in C : \A m \in Defining(d, ParseSUP(d[n])) : m \in C
    PROVE  OnWay(up, d) \subseteq C
<1> DEFINE N == Len(d) + 1
           P == {k \in 0 .. N : Defining(d, up[k]) \subseteq C}
<1>1. Len(d) \in Nat /\ N \in Nat
  BY DefinitionsCount
<1>2. 0 \in P
  <2>1. s \in Defining(d, d[s].name)
    BY DefinitionTyped DEF Defining
  <2>2. Defining(d, d[s].name) = {s}
    BY <2>1, OneDefinition
  <2> QED
    BY <1>1, <2>2 DEF IsAscent
<1>3. ASSUME NEW k \in 0 .. N, k # N, k \in P PROVE k + 1 \in P
  <2>1. k \in 0 .. Len(d) /\ k + 1 \in 0 .. N
    BY <1>1, <1>3
  <2>2. up[k + 1] = Above1(d, up[k])
    BY <2>1 DEF IsAscent
  <2>3. CASE Defining(d, up[k]) = {}
    <3>1. up[k + 1] = ""
      BY <2>2, <2>3 DEF Above1
    <3>2. Defining(d, "") = {}
      BY DEF Defining
    <3> QED
      BY <2>1, <3>1, <3>2
  <2>4. CASE Defining(d, up[k]) # {}
    <3>1. PICK n \in Defining(d, up[k]) : TRUE
      BY <2>4
    <3>2. n \in C /\ up[k + 1] = ParseSUP(d[n])
      BY <1>3, <2>2, <2>4, OneDefinition DEF Above1
    <3>3. Defining(d, up[k + 1]) \subseteq C
      BY <3>2
    <3> QED
      BY <2>1, <3>3
  <2> QED
    BY <2>3, <2>4
<1>4. \A k \in 0 .. N : k \in P
  <2> HIDE DEF P, N
  <2> QED
    BY <1>1, <1>2, <1>3, Climb
<1> QED
  BY <1>4 DEF OnWay

OneSuperior(def) == def.sup.form = "bare" /\ (def.must.form = "bare" => def.must.names = <<>>)

LEMMA NamedSuperior ==
    ASSUME NEW d \in Schemas, NEW n \in DOMAIN d, OneSuperior(d[n]), NEW m \in DOMAIN d
    PROVE  (\E x \in Names(d[n].sup) : Lower[x] = Lower[d[m].name]) <=> m \in Defining(d, ParseSUP(d[n]))
<1> DEFINE v == d[n].sup.names
<1>1. v \in Seq(Ranked) /\ Len(v) \in {0, 1}
  BY DefinitionTyped, PublishedAssumption DEF OneSuperior
<1>2. Names(d[n].sup) = {v[i] : i \in DOMAIN v}
  BY DEF Names
<1>3. ParseSUP(d[n]) = IF v = <<>> THEN "" ELSE v[1]
  BY DEF OneSuperior, ParseSUP
<1> HIDE DEF v
<1>4. CASE Len(v) = 0
  <2>1. v = <<>> /\ DOMAIN v = {}
    BY <1>1, <1>4
  <2>2. Names(d[n].sup) = {} /\ ParseSUP(d[n]) = ""
    BY <1>2, <1>3, <2>1
  <2> QED
    BY <2>2 DEF Defining
<1>5. CASE Len(v) = 1
  <2>1. v # <<>> /\ DOMAIN v = {1} /\ v[1] \in Ranked
    BY <1>1, <1>5
  <2>2. Names(d[n].sup) = {v[1]} /\ ParseSUP(d[n]) = v[1] /\ v[1] # ""
    BY <1>2, <1>3, <2>1, StringsRanked
  <2> QED
    BY <2>2 DEF Defining
<1> QED
  BY <1>1, <1>4, <1>5

LEMMA AncestryIs ==
    ASSUME defs \in Schemas, \A n \in DOMAIN defs : OneSuperior(defs[n]),
           NEW k \in DOMAIN defs, NEW up, IsAscent(up, defs, defs[k].name)
    PROVE  Ancestry(k) = OnWay(up, defs)
<1> DEFINE Closed(C) == \A m, n \in DOMAIN defs :
               n \in C /\ (\E s \in Names(defs[n].sup) : Lower[s] = Lower[defs[m].name]) => m \in C
<1>1. Ancestry(k) = {n \in DOMAIN defs : \A C \in SUBSET DOMAIN defs : k \in C /\ Closed(C) => n \in C}
  BY DEF Ancestry
<1>2. \A C \in SUBSET DOMAIN defs :
          Closed(C) <=> \A n \in C : \A m \in Defining(defs, ParseSUP(defs[n])) : m \in C
  <2> SUFFICES ASSUME NEW C \in SUBSET DOMAIN defs
               PROVE  Closed(C) <=> \A n \in C : \A m \in Defining(defs, ParseSUP(defs[n])) : m \in C
    OBVIOUS
  <2>1. \A n, m \in DOMAIN defs : (\E s \in Names(defs[n].sup) : Lower[s] = Lower[defs[m].name])
                                   <=> m \in Defining(defs, ParseSUP(defs[n]))
    BY NamedSuperior
  <2>2. \A x : Defining(defs, x) \subseteq DOMAIN defs
    BY DEF Defining
  <2> QED
    BY <2>1, <2>2
<1> HIDE DEF Closed
<1>3. OnWay(up, defs) \in SUBSET DOMAIN defs
  BY DEF OnWay
<1>4. k \in OnWay(up, defs)
  <2>1. k \in Defining(defs, defs[k].name)
    BY DefinitionTyped DEF Defining
  <2>2. 0 \in 0 .. Len(defs) + 1
    BY DefinitionsCount
  <2> QED
    BY <2>1, <2>2 DEF OnWay, IsAscent
<1>5. Closed(OnWay(up, defs))
  BY <1>2, <1>3, WayGoesUp
<1>6. ASSUME NEW C \in SUBSET DOMAIN defs, k \in C, Closed(C) PROVE OnWay(up, defs) \subseteq C
  BY <1>2, <1>6, WayIsLeast
<1> QED
  BY <1>1, <1>3, <1>4, <1>5, <1>6

\* What is read of the definitions on the way is what they say.
LEMMA ReadAsSaid ==
    ASSUME defs \in Schemas, \A n \in DOMAIN defs : OneSuperior(defs[n]), NEW k \in DOMAIN defs
    PROVE  /\ InheritedMandatoryAttrs(defs, defs[k].name) = UNION {Must(defs[n]) : n \in Ancestry(k)}
           /\ AllowedAttrs(defs, {defs[k].name}) = UNION {MustOrMay(defs[n]) : n \in Ancestry(k)}
<1> DEFINE c == defs[k].name
<1>1. PICK up : /\ IsAscent(up, defs, c)
                /\ Lineage(defs, c) = {x \in {up[n] : n \in 0 .. Len(defs) + 1} : Defining(defs, x) # {}}
  BY LineageIs
<1>2. Ancestry(k) = OnWay(up, defs)
  BY <1>1, AncestryIs
<1>3. \A n \in DOMAIN defs : /\ ParseMUST(defs[n]) = Must(defs[n])
                             /\ ParseMUST(defs[n]) \cup ParseMAY(defs[n]) = MustOrMay(defs[n])
  BY DEF OneSuperior, ParseMUST, ParseMAY, Must, MustOrMay
<1>4. \A x \in Lineage(defs, c) : \E n \in Ancestry(k) : DefOf(defs, x) = defs[n]
  <2> SUFFICES ASSUME NEW x \in Lineage(defs, c) PROVE \E n \in Ancestry(k) : DefOf(defs, x) = defs[n]
    OBVIOUS
  <2>1. PICK i \in 0 .. Len(defs) + 1 : x = up[i] /\ Defining(defs, x) # {}
    BY <1>1
  <2>2. PICK n \in Defining(defs, up[i]) : TRUE
    BY <2>1
  <2>3. n \in DOMAIN defs /\ DefOf(defs, x) = defs[n]
    BY <2>1, <2>2, OneDefinition
  <2>4. n \in OnWay(up, defs)
    BY <2>2, <2>3 DEF OnWay
  <2> QED
    BY <1>2, <2>3, <2>4
<1>5. \A n \in Ancestry(k) : n \in DOMAIN defs /\ \E x \in Lineage(defs, c) : DefOf(defs, x) = defs[n]
  <2> SUFFICES ASSUME NEW n \in OnWay(up, defs)
               PROVE  n \in DOMAIN defs /\ \E x \in Lineage(defs, c) : DefOf(defs, x) = defs[n]
    BY <1>2
  <2>1. PICK i \in 0 .. Len(defs) + 1 : n \in Defining(defs, up[i])
    BY DEF OnWay
  <2>2. n \in DOMAIN defs /\ DefOf(defs, up[i]) = defs[n]
    BY <2>1, OneDefinition
  <2>3. up[i] \in Lineage(defs, c)
    BY <1>1, <2>1
  <2> QED
    BY <2>2, <2>3
<1>6. InheritedMandatoryAttrs(defs, c) = UNION {ParseMUST(DefOf(defs, x)) : x \in Lineage(defs, c)}
  BY DEF InheritedMandatoryAttrs
<1>7. AllowedAttrs(defs, {c}) =
          UNION {ParseMUST(DefOf(defs, x)) \cup ParseMAY(DefOf(defs, x)) : x \in Lineage(defs, c)}
  <2>1. UNION {Lineage(defs, class) : class \in {c}} = Lineage(defs, c)
    OBVIOUS
  <2> QED
    BY <2>1 DEF AllowedAttrs
<1> HIDE DEF c
<1>8. {ParseMUST(DefOf(defs, x)) : x \in Lineage(defs, c)} = {Must(defs[n]) : n \in Ancestry(k)}
  BY <1>3, <1>4, <1>5
<1>9. {ParseMUST(DefOf(defs, x)) \cup ParseMAY(DefOf(defs, x)) : x \in Lineage(defs, c)}
          = {MustOrMay(defs[n]) : n \in Ancestry(k)}
  <2>1. \A x \in Lineage(defs, c) : \E n \in Ancestry(k) :
            ParseMUST(DefOf(defs, x)) \cup ParseMAY(DefOf(defs, x)) = MustOrMay(defs[n])
    BY <1>3, <1>4, <1>5
  <2>2. \A n \in Ancestry(k) : \E x \in Lineage(defs, c) :
            ParseMUST(DefOf(defs, x)) \cup ParseMAY(DefOf(defs, x)) = MustOrMay(defs[n])
    BY <1>3, <1>5
  <2> QED
    BY <2>1, <2>2
<1> QED
  BY <1>6, <1>7, <1>8, <1>9 DEF c

\* "walking its SUP chain so inherited requirements are included": what the walks read, for
\* the form of a class and for a new attribute, is what the definition of a class and those
\* of all its superiors say (getInheritedMandatoryAttrs and getAllowedAttrs of attrs.cpp).
THEOREM SchemaIsRead == Spec => []SchemaAsDefined
<1>1. PanelInv => SchemaAsDefined
  <2> SUFFICES ASSUME defs \in Schemas, \A n \in DOMAIN defs : OneSuperior(defs[n]), NEW k \in DOMAIN defs
               PROVE  /\ InheritedMandatoryAttrs(defs, defs[k].name) = Said(k, Must)
                      /\ AllowedAttrs(defs, {defs[k].name}) = Said(k, MustOrMay)
    BY DEF SchemaAsDefined, PanelInv, OneSuperior
  <2> QED
    BY ReadAsSaid DEF Said
<1> QED
  BY <1>1, PanelHolds, PTL

-----------------------------------------------------------------------------
(* Depths.                                                                   *)

Walk(sup, c) == Superiors(sup, c, Cardinality(DOMAIN sup))

LEMMA WalkIs ==
    ASSUME NEW sup, GoodSup(sup), NEW c
    PROVE  /\ Cardinality(DOMAIN sup) \in Nat
           /\ Len(Walk(sup, c)) \in 1 .. Cardinality(DOMAIN sup) + 1
           /\ DOMAIN Walk(sup, c) = 1 .. Len(Walk(sup, c))
           /\ IsChain(Walk(sup, c), sup, c) /\ Goes(sup, Walk(sup, c), Cardinality(DOMAIN sup))
<1> DEFINE w == Walk(sup, c)
           N == Cardinality(DOMAIN sup)
<1>1. N \in Nat
  BY FS_CardinalityType DEF GoodSup
<1>2. w \in Seq(Ranked \cup {c}) /\ IsChain(w, sup, c) /\ Goes(sup, w, N)
  <2> HIDE DEF N
  <2>1. Superiors(sup, c, N) \in Chains(sup, c) /\ Goes(sup, Superiors(sup, c, N), N)
    BY <1>1, SuperiorsAreChain
  <2> QED
    BY <2>1 DEF Chains, Walk, N
<1> HIDE DEF w
<1>3. DOMAIN w = 1 .. Len(w)
  BY <1>2
<1>4. Len(w) \in 1 .. N + 1
  BY <1>2 DEF Goes
<1> QED
  BY <1>1, <1>2, <1>3, <1>4 DEF w

\* What is above a class of a walk is on the walk, although it stops after a number of steps.
LEMMA WalkCloses ==
    ASSUME NEW sup, GoodSup(sup), NEW c, NEW m \in DOMAIN Walk(sup, c), Walk(sup, c)[m] \in DOMAIN sup
    PROVE  \E k \in DOMAIN Walk(sup, c) : Walk(sup, c)[k] = sup[Walk(sup, c)[m]]
<1> DEFINE w == Walk(sup, c)
           N == Cardinality(DOMAIN sup)
           S == DOMAIN sup
<1>1. /\ N \in Nat /\ Len(w) \in 1 .. N + 1 /\ DOMAIN w = 1 .. Len(w)
      /\ IsChain(w, sup, c) /\ Goes(sup, w, N)
  BY WalkIs
<1>2. IsFiniteSet(S)
  BY DEF GoodSup
<1> HIDE DEF w
<1>3. m \in 1 .. Len(w) /\ w[m] \in S
  BY <1>1 DEF w
<1>6. Len(w) \in Nat
  BY <1>1
<1>4. CASE m # Len(w)
  <2>2. m + 1 \in 1 .. Len(w)
    <3> DEFINE M == Len(w)
    <3>1. m \in 1 .. M /\ m # M /\ M \in Nat
      BY <1>3, <1>4, <1>6
    <3> HIDE DEF M
    <3>2. m + 1 \in 1 .. M
      BY <3>1
    <3> QED
      BY <3>2 DEF M
  <2>1. m + 1 \in 1 .. Len(w) /\ w[m + 1] = sup[w[m]]
    BY <1>1, <1>3, <1>4, <2>2 DEF IsChain
  <2> QED
    BY <1>1, <2>1 DEF w
<1>5. CASE m = Len(w)
  <2>1. Len(w) = N + 1
    BY <1>1, <1>3, <1>5 DEF Goes
  <2>2. \A k \in 0 .. N : k + 1 \in 1 .. Len(w) /\ w[k + 1] \in S
    <3> SUFFICES ASSUME NEW k \in 0 .. N PROVE k + 1 \in 1 .. Len(w) /\ w[k + 1] \in S
      OBVIOUS
    <3>1. k + 1 \in 1 .. Len(w)
      BY <1>1, <2>1
    <3>2. k + 1 # Len(w) => w[k + 1] \in DOMAIN sup
      BY <1>1, <3>1 DEF IsChain
    <3> QED
      BY <1>3, <1>5, <3>1, <3>2
  <2> DEFINE f == [k \in 0 .. N |-> w[k + 1]]
  <2>3. f \in [0 .. N -> S]
    <3> HIDE DEF N, S
    <3> QED
      BY <2>2
  <2>4. ASSUME NEW i \in 0 .. N, NEW j \in 0 .. N, i # N, j # N, f[i] = f[j] PROVE f[i + 1] = f[j + 1]
    <3>1. i + 1 \in 0 .. N /\ j + 1 \in 0 .. N /\ i + 1 # Len(w) /\ j + 1 # Len(w)
      BY <1>1, <2>1, <2>4
    <3>2. w[i + 1] = w[j + 1]
      BY <2>4
    <3>3. w[i + 1 + 1] = sup[w[i + 1]] /\ w[j + 1 + 1] = sup[w[j + 1]]
      BY <1>1, <2>2, <3>1 DEF IsChain
    <3> QED
      BY <3>1, <3>2, <3>3
  <2>5. \E k \in 0 .. N : k # N /\ f[N] = f[k]
    <3>1. N <= N
      BY <1>1
    <3> HIDE DEF f, N, S
    <3>2. Cardinality(S) = N
      BY DEF N, S
    <3>3. Cardinality(S) <= N
      BY <3>1, <3>2
    <3>4. \A i, j \in 0 .. N : i # N /\ j # N /\ f[i] = f[j] => f[i + 1] = f[j + 1]
      BY <2>4
    <3> QED
      BY <1>1, <1>2, <2>3, <3>3, <3>4, WalkReturns
  <2>6. PICK k \in 0 .. N : k # N /\ f[N] = f[k]
    BY <2>5
  <2>7. N \in 0 .. N /\ k + 1 \in 1 .. Len(w) /\ k + 1 # Len(w) /\ k + 1 + 1 \in 1 .. Len(w)
    BY <1>1, <2>1, <2>6
  <2>8. w[N + 1] = w[k + 1]
    BY <2>6, <2>7
  <2>9. w[k + 1 + 1] = sup[w[k + 1]]
    BY <1>1, <2>7 DEF IsChain
  <2>10. w[m] = w[k + 1]
    BY <1>5, <2>1, <2>8
  <2>11. w[k + 1 + 1] = sup[w[m]]
    BY <2>9, <2>10
  <2> QED
    BY <1>1, <2>7, <2>11 DEF w
<1> QED
  BY <1>4, <1>5

\* The walk from a superior is the rest of the walk.
LEMMA WalkGoesOn ==
    ASSUME NEW sup, GoodSup(sup), NEW c \in DOMAIN sup
    PROVE  \A k \in 1 .. Len(Walk(sup, c)) - 1 :
               k \in DOMAIN Walk(sup, sup[c]) /\ Walk(sup, sup[c])[k] = Walk(sup, c)[k + 1]
<1> DEFINE w == Walk(sup, c)
           v == Walk(sup, sup[c])
           N == Cardinality(DOMAIN sup)
           L == Len(w) - 1
           P == {k \in 0 .. L : k # 0 => k \in DOMAIN v /\ v[k] = w[k + 1]}
<1>1. /\ N \in Nat /\ Len(w) \in 1 .. N + 1 /\ DOMAIN w = 1 .. Len(w) /\ IsChain(w, sup, c)
  BY WalkIs
<1>2. /\ Len(v) \in 1 .. N + 1 /\ DOMAIN v = 1 .. Len(v) /\ IsChain(v, sup, sup[c]) /\ Goes(sup, v, N)
  BY WalkIs
<1> HIDE DEF w, v, N
<1>3. L \in Nat /\ Len(w) = L + 1 /\ Len(v) \in Nat /\ L <= N
  BY <1>1, <1>2
<1>4. 0 \in P
  BY <1>3
<1>5. ASSUME NEW k \in 0 .. L, k # L, k \in P PROVE k + 1 \in P
  <2>0. k # L /\ (k # 0 => k \in DOMAIN v /\ v[k] = w[k + 1])
    BY <1>5
  <2> HIDE DEF P, L
  <2>1. k + 1 \in 0 .. L /\ k + 1 \in 1 .. Len(w) /\ k + 1 # Len(w) /\ k + 1 # 0 /\ k + 1 <= L
    BY <1>3, <2>0
  <2>2. w[k + 1] \in DOMAIN sup /\ w[k + 1 + 1] = sup[w[k + 1]]
    BY <1>1, <2>1 DEF IsChain
  <2>3. CASE k = 0
    <3>1. v[1] = sup[c] /\ w[1] = c /\ 1 \in 1 .. Len(v)
      <4>1. Len(v) # 0
        BY <1>2 DEF IsChain
      <4>2. 1 \in 1 .. Len(v)
        BY <1>3, <4>1
      <4> QED
        BY <1>1, <1>2, <4>2 DEF IsChain
    <3>2. v[k + 1] = w[k + 1 + 1] /\ k + 1 \in DOMAIN v
      BY <1>2, <2>2, <2>3, <3>1
    <3> QED
      BY <2>1, <3>2 DEF P
  <2>4. CASE k # 0
    <3>1. k \in 1 .. Len(v) /\ v[k] = w[k + 1]
      BY <1>2, <2>0, <2>4
    <3>2. k # Len(v)
      <4> SUFFICES ASSUME k = Len(v) PROVE FALSE
        OBVIOUS
      <4>1. Len(v) = N + 1
        BY <1>2, <2>2, <3>1 DEF Goes
      <4>2. k = N + 1 /\ N \in Nat
        BY <1>1, <4>1
      <4> QED
        BY <1>3, <2>1, <4>2
    <3>5. k + 1 \in 1 .. Len(v)
      <4> DEFINE M == Len(v)
      <4>1. k \in 1 .. M /\ k # M /\ M \in Nat
        BY <1>3, <3>1, <3>2
      <4> HIDE DEF M
      <4>2. k + 1 \in 1 .. M
        BY <4>1
      <4> QED
        BY <4>2 DEF M
    <3>3. v[k + 1] = sup[v[k]] /\ k + 1 \in 1 .. Len(v)
      BY <1>2, <3>1, <3>2, <3>5 DEF IsChain
    <3>4. v[k + 1] = w[k + 1 + 1] /\ k + 1 \in DOMAIN v
      BY <1>2, <2>2, <3>1, <3>3
    <3> QED
      BY <2>1, <3>4 DEF P
  <2> QED
    BY <2>3, <2>4
<1>6. \A k \in 0 .. L : k \in P
  <2> HIDE DEF P, L
  <2> QED
    BY <1>3, <1>4, <1>5, Climb
<1>7. ASSUME NEW k \in 1 .. L PROVE k \in DOMAIN v /\ v[k] = w[k + 1]
  <2>1. k \in 0 .. L /\ k # 0
    BY <1>3
  <2> QED
    BY <1>6, <2>1
<1> QED
  BY <1>7 DEF w, v

Tops(sup, c) == {n \in DOMAIN Walk(sup, c) : Walk(sup, c)[n] = "top"}
Highest(sup, c) == CHOOSE n \in Tops(sup, c) : \A k \in Tops(sup, c) : n <= k

LEMMA HighestIs ==
    ASSUME NEW sup, GoodSup(sup), NEW c, Tops(sup, c) # {}
    PROVE  Highest(sup, c) \in Tops(sup, c) /\ \A k \in Tops(sup, c) : Highest(sup, c) <= k
<1> DEFINE T == Tops(sup, c)
<1>1. T \in SUBSET Nat
  <2>1. DOMAIN Walk(sup, c) = 1 .. Len(Walk(sup, c))
    BY WalkIs
  <2>2. T \subseteq DOMAIN Walk(sup, c)
    BY DEF Tops
  <2>3. 1 .. Len(Walk(sup, c)) \subseteq Nat
    OBVIOUS
  <2> QED
    BY <2>1, <2>2, <2>3
<1>3. T # {}
  OBVIOUS
<1>2. \E n \in T : \A k \in T : n <= k
  <2> HIDE DEF T
  <2> QED
    BY <1>1, <1>3, LeastNumber
<1> QED
  BY <1>2 DEF Highest

\* A class that descends from top is deeper than its superior.
LEMMA DeeperThanSuperior ==
    ASSUME NEW sup, GoodSup(sup), NEW c \in DOMAIN sup, c # "top", Tops(sup, c) # {}
    PROVE  Depth(sup, sup[c]) < Depth(sup, c)
<1> DEFINE w == Walk(sup, c)
           v == Walk(sup, sup[c])
           t == Highest(sup, c)
           u == Highest(sup, sup[c])
<1>1. Len(w) \in Nat /\ DOMAIN w = 1 .. Len(w) /\ IsChain(w, sup, c)
  BY WalkIs
<1>2. Len(v) \in Nat /\ DOMAIN v = 1 .. Len(v)
  BY WalkIs
<1>3. t \in Tops(sup, c)
  BY HighestIs
<1> HIDE DEF t
<1>4. t \in 1 .. Len(w) /\ w[t] = "top"
  BY <1>1, <1>3 DEF Tops
<1>5. w[1] = c
  BY <1>1 DEF IsChain
<1>6. t # 1
  BY <1>4, <1>5
<1>7. t \in DOMAIN w
  BY <1>1, <1>4
<1>8. t - 1 \in 1 .. Len(w) - 1 /\ (t - 1) + 1 = t
  <2>1. t \in 1 .. Len(w)
    BY <1>4
  <2> HIDE DEF w
  <2> QED
    BY <1>1, <1>6, <2>1
<1>9. t - 1 \in DOMAIN v /\ v[t - 1] = w[t]
  BY <1>8, WalkGoesOn
<1>10. t - 1 \in Tops(sup, sup[c])
  BY <1>4, <1>9 DEF Tops
<1>11. u \in Tops(sup, sup[c]) /\ u <= t - 1
  BY <1>10, HighestIs
<1> HIDE DEF u
<1>12. sup[c] = "top" \/ sup[c] \in DOMAIN sup
  <2>1. 1 \in 1 .. Len(w) /\ 1 # Len(w)
    <3>1. t \in 1 .. Len(w)
      BY <1>4
    <3> HIDE DEF w
    <3> QED
      BY <1>1, <1>6, <3>1
  <2>2. w[2] = sup[c]
    <3>1. w[1 + 1] = sup[w[1]]
      BY <1>1, <2>1 DEF IsChain
    <3> QED
      BY <1>5, <3>1
  <2>3. CASE t = 2
    BY <1>4, <2>2, <2>3
  <2>4. CASE t # 2
    <3>1. 2 \in 1 .. Len(w) /\ 2 # Len(w)
      <4>1. t \in 1 .. Len(w)
        BY <1>4
      <4> HIDE DEF w
      <4> QED
        BY <1>1, <1>6, <2>4, <4>1
    <3> QED
      BY <1>1, <2>2, <3>1 DEF IsChain
  <2> QED
    BY <2>3, <2>4
<1>13. Depth(sup, c) = t - 1
  BY DEF Depth, Highest, Tops, Walk, t
<1>14. Depth(sup, sup[c]) = u - 1
  BY <1>10, <1>12 DEF Depth, Highest, Tops, Walk, u
<1>15. u \in Nat /\ t \in Nat
  <2>1. u \in DOMAIN v /\ t \in DOMAIN w
    BY <1>3, <1>11 DEF Tops
  <2> QED
    BY <1>1, <1>2, <2>1
<1> QED
  BY <1>11, <1>13, <1>14, <1>15

-----------------------------------------------------------------------------
(* What is added is closed under superiors.                                  *)

\* What is on the walk from c is among its first 33 classes: c and the 32 the loop comes to.
Shallow(sup, c) ==
    \A n \in DOMAIN Walk(sup, c) : \E k \in DOMAIN Walk(sup, c) :
        k <= 33 /\ Walk(sup, c)[k] = Walk(sup, c)[n]

LEMMA NoWalk ==
    ASSUME NEW sup, GoodSup(sup), NEW c, c \notin DOMAIN sup
    PROVE  DOMAIN Walk(sup, c) = {1} /\ Walk(sup, c)[1] = c /\ Shallow(sup, c)
<1> DEFINE w == Walk(sup, c)
<1>1. Len(w) \in Nat /\ Len(w) # 0 /\ DOMAIN w = 1 .. Len(w) /\ IsChain(w, sup, c)
  BY WalkIs DEF IsChain
<1>2. w[1] = c
  BY <1>1 DEF IsChain
<1>3. Len(w) = 1
  <2>1. 1 \in 1 .. Len(w)
    <3> DEFINE M == Len(w)
    <3>1. M \in Nat /\ M # 0
      BY <1>1
    <3> HIDE DEF M
    <3>2. 1 \in 1 .. M
      BY <3>1
    <3> QED
      BY <3>2 DEF M
  <2> QED
    BY <1>1, <1>2, <2>1 DEF IsChain
<1>4. DOMAIN w = {1}
  <2>1. 1 .. 1 = {1}
    OBVIOUS
  <2> QED
    BY <1>1, <1>3, <2>1
<1>5. 1 <= 33
  OBVIOUS
<1> HIDE DEF w
<1>6. \A n \in DOMAIN w : \E k \in DOMAIN w : k <= 33 /\ w[k] = w[n]
  BY <1>4, <1>5
<1> QED
  BY <1>2, <1>4, <1>6 DEF w, Shallow

\* The superior of a class the walk takes is taken with it, or was there before.
LEMMA TakenCloses ==
    ASSUME NEW sup, GoodSup(sup), NEW c, Shallow(sup, c), NEW S, Lower[c] \in S,
           NEW len, StopsAt(Walk(sup, c), S, len),
           NEW m \in 1 .. len, Walk(sup, c)[m] \in DOMAIN sup
    PROVE  \/ Lower[sup[Walk(sup, c)[m]]] \in S
           \/ \E k \in 2 .. len : Lower[sup[Walk(sup, c)[m]]] = Lower[Walk(sup, c)[k]]
<1> DEFINE w == Walk(sup, c)
           M == Len(w)
           x == sup[w[m]]
<1>1. /\ M \in Nat /\ DOMAIN w = 1 .. M /\ w[1] = c
      /\ \A k \in 1 .. M : k # M => w[k] \in DOMAIN sup /\ w[k + 1] = sup[w[k]]
  BY WalkIs DEF IsChain
<1>2. /\ len \in 1 .. M /\ len <= 33
      /\ len < M /\ len < 33 => ~FreshAt(w, S, len + 1)
  BY DEF StopsAt
<1>3. \A n \in DOMAIN w : \E k \in DOMAIN w : k <= 33 /\ w[k] = w[n]
  BY DEF Shallow
<1>4. \E k \in DOMAIN w : w[k] = x
  <2>1. m \in 1 .. M
    <3> HIDE DEF M
    <3> QED
      BY <1>1, <1>2
  <2>2. m \in DOMAIN w /\ w[m] \in DOMAIN sup
    BY <1>1, <2>1
  <2> QED
    BY <2>2, WalkCloses
<1>5. m # M => w[m + 1] = x
  <2>1. m \in 1 .. M
    <3> HIDE DEF M
    <3> QED
      BY <1>1, <1>2
  <2> HIDE DEF M
  <2> QED
    BY <1>1, <2>1
<1> HIDE DEF w, M, x
<1>6. CASE m < len
  <2>1. m # M /\ m + 1 \in 2 .. len
    BY <1>1, <1>2, <1>6
  <2> QED
    BY <1>5, <2>1 DEF w, x
<1>7. CASE m = len /\ len < M /\ len < 33
  <2>1. m # M
    BY <1>1, <1>2, <1>7
  <2>2. w[len + 1] = x
    BY <1>5, <1>7, <2>1
  <2>3. ~FreshAt(w, S, len + 1)
    BY <1>2, <1>7
  <2>4. (len + 1) - 1 = len
    BY <1>1, <1>2
  <2>5. Lower[x] \in S \/ \E k \in 2 .. len : Lower[w[k]] = Lower[x]
    BY <2>2, <2>3, <2>4 DEF FreshAt
  <2> QED
    BY <2>5 DEF w, x
<1>8. CASE len = M \/ len = 33
  <2>1. PICK k \in 1 .. M : k <= 33 /\ w[k] = x
    BY <1>1, <1>3, <1>4
  <2>2. k = 1 \/ k \in 2 .. len
    BY <1>1, <1>2, <1>8, <2>1
  <2>3. k = 1 => Lower[x] \in S
    BY <1>1, <2>1
  <2>4. Lower[x] \in S \/ \E j \in 2 .. len : Lower[w[j]] = Lower[x]
    BY <2>1, <2>2, <2>3
  <2> QED
    BY <2>4 DEF w, x
<1> QED
  <2>1. len = M \/ len = 33 \/ (len < M /\ len < 33)
    BY <1>1, <1>2
  <2>2. m = len \/ m < len
    BY <1>1, <1>2
  <2> QED
    BY <1>6, <1>7, <1>8, <2>1, <2>2

\* What is known when n classes listed have had their superiors added, those of s: no class is
\* there twice, and the superiors of these classes and of those added are there.
Reached(listed, n, s) == {listed[i] : i \in 1 .. n} \cup {s[k].text : k \in DOMAIN s}
Covered(sup, listed, n, s) ==
    /\ \A k \in DOMAIN s : s[k].text \in {sup[x] : x \in DOMAIN sup} /\ Lower[s[k].text] \notin LowerOf(listed)
    /\ \A j, k \in DOMAIN s : Lower[s[j].text] = Lower[s[k].text] => j = k
    /\ \A x \in Reached(listed, n, s) : x \in DOMAIN sup => Lower[sup[x]] \in LowerOf(listed) \cup There(s)

\* The classes taken from a walk are new ones.
Copies(t, w, len) == t = [k \in 1 .. len - 1 |-> [text |-> w[k + 1], from |-> w[k]]]
Holds(t, w, len) == /\ DOMAIN t = 1 .. len - 1 /\ len \in Nat
                    /\ \A k \in 1 .. len - 1 : t[k].text = w[k + 1]
AreNew(t, sup, S) ==
    /\ \A k \in DOMAIN t : t[k].text \in {sup[x] : x \in DOMAIN sup} /\ Lower[t[k].text] \notin S
    /\ \A j, k \in DOMAIN t : Lower[t[j].text] = Lower[t[k].text] => j = k

LEMMA TakenAre ==
    ASSUME NEW sup, GoodSup(sup), NEW c, NEW S, NEW len, StopsAt(Walk(sup, c), S, len),
           NEW t, Copies(t, Walk(sup, c), len)
    PROVE  Holds(t, Walk(sup, c), len) /\ AreNew(t, sup, S)
<1> DEFINE w == Walk(sup, c)
           M == Len(w)
<1>1. /\ M \in Nat /\ DOMAIN w = 1 .. M
      /\ \A k \in 1 .. M : k # M => w[k] \in DOMAIN sup /\ w[k + 1] = sup[w[k]]
  BY WalkIs DEF IsChain
<1>2. len \in 1 .. M /\ \A k \in 2 .. len : FreshAt(w, S, k)
  BY DEF StopsAt
<1> HIDE DEF w, M
<1>0. t = [k \in 1 .. len - 1 |-> [text |-> w[k + 1], from |-> w[k]]]
  BY DEF Copies, w
<1>3. DOMAIN t = 1 .. len - 1 /\ len \in Nat
  BY <1>0, <1>1, <1>2
<1>4. ASSUME NEW k \in 1 .. len - 1 PROVE t[k].text = w[k + 1]
  BY <1>0
<1>5. ASSUME NEW k \in 1 .. len - 1
      PROVE  w[k + 1] \in {sup[x] : x \in DOMAIN sup} /\ Lower[w[k + 1]] \notin S
             /\ \A j \in 1 .. len - 1 : j < k => Lower[w[j + 1]] # Lower[w[k + 1]]
  <2>1. k \in 1 .. M /\ k # M /\ k + 1 \in 2 .. len /\ (k + 1) - 1 = k
    BY <1>1, <1>2
  <2>2. w[k] \in DOMAIN sup /\ w[k + 1] = sup[w[k]]
    BY <1>1, <2>1
  <2>3. Lower[w[k + 1]] \notin S /\ \A i \in 2 .. k : Lower[w[i]] # Lower[w[k + 1]]
    BY <1>2, <2>1 DEF FreshAt
  <2>4. \A j \in 1 .. len - 1 : j < k => j + 1 \in 2 .. k
    BY <1>3
  <2> QED
    BY <2>2, <2>3, <2>4
<1>6. ASSUME NEW j \in 1 .. len - 1, NEW k \in 1 .. len - 1, Lower[w[j + 1]] = Lower[w[k + 1]] PROVE j = k
  <2>1. ~(j < k) /\ ~(k < j)
    BY <1>5, <1>6
  <2> QED
    BY <1>3, <2>1
<1> QED
  BY <1>3, <1>4, <1>5, <1>6 DEF w, Holds, AreNew

LEMMA CoversMore ==
    ASSUME NEW sup, GoodSup(sup), NEW X, NEW listed \in Seq(X), \A c \in DOMAIN sup : Shallow(sup, c),
           NEW n \in 1 .. Len(listed), NEW s \in Seq(Added), Covered(sup, listed, n - 1, s)
    PROVE  Covered(sup, listed, n, s \o Adds(sup, LowerOf(listed), listed[n], There(s)))
<1> DEFINE c == listed[n]
           w == Walk(sup, c)
           S == LowerOf(listed) \cup There(s)
           t == Adds(sup, LowerOf(listed), c, There(s))
           u == s \o t
           ls == Len(s)
           lt == Len(t)
<1>1. t \in Seq(Added)
  BY AddsTyped
<1>2. TakenFrom(t, w, S)
  BY AddsAre DEF Walk
<1> HIDE DEF w, t
<1>3. PICK len : StopsAt(w, S, len) /\ Copies(t, w, len)
  BY <1>2 DEF TakenFrom, Copies
<1> HIDE DEF u
<1>4. /\ DOMAIN s = 1 .. ls /\ DOMAIN t = 1 .. lt /\ ls \in Nat /\ lt \in Nat
      /\ u \in Seq(Added) /\ DOMAIN u = 1 .. ls + lt
      /\ \A i \in 1 .. ls : u[i] = s[i]
      /\ \A i \in 1 .. lt : u[ls + i] = t[i]
  <2>1. /\ u \in Seq(Added) /\ DOMAIN u = 1 .. ls + lt
        /\ \A i \in 1 .. ls : u[i] = s[i]
        /\ \A i \in 1 .. lt : u[ls + i] = t[i]
    BY <1>1, Joined DEF u
  <2>2. DOMAIN s = 1 .. ls /\ DOMAIN t = 1 .. lt /\ ls \in Nat /\ lt \in Nat
    BY <1>1
  <2> QED
    BY <2>1, <2>2
<1> HIDE DEF S, ls, lt
<1>5. /\ DOMAIN t = 1 .. len - 1 /\ len \in Nat
      /\ \A k \in 1 .. len - 1 : t[k].text = w[k + 1]
      /\ \A k \in DOMAIN t : t[k].text \in {sup[x] : x \in DOMAIN sup} /\ Lower[t[k].text] \notin S
      /\ \A j, k \in DOMAIN t : Lower[t[j].text] = Lower[t[k].text] => j = k
  <2>1. StopsAt(Walk(sup, c), S, len) /\ Copies(t, Walk(sup, c), len)
    BY <1>3 DEF w
  <2> HIDE DEF c
  <2>2. Holds(t, Walk(sup, c), len) /\ AreNew(t, sup, S)
    BY <2>1, TakenAre
  <2> QED
    BY <2>2 DEF w, Holds, AreNew
<1>6. /\ \A i \in DOMAIN u : \/ i \in DOMAIN s /\ u[i] = s[i]
                             \/ i - ls \in DOMAIN t /\ u[i] = t[i - ls] /\ i = ls + (i - ls)
      /\ \A i \in DOMAIN s : i \in DOMAIN u /\ u[i] = s[i]
      /\ \A i \in DOMAIN t : ls + i \in DOMAIN u /\ u[ls + i] = t[i]
  <2>1. \A i \in DOMAIN s : i \in DOMAIN u /\ u[i] = s[i]
    BY <1>4
  <2>2. \A i \in DOMAIN t : ls + i \in DOMAIN u /\ u[ls + i] = t[i]
    BY <1>4
  <2>3. ASSUME NEW i \in DOMAIN u, i \notin DOMAIN s
        PROVE  i - ls \in DOMAIN t /\ u[i] = t[i - ls] /\ i = ls + (i - ls)
    <3>1. i - ls \in 1 .. lt /\ i = ls + (i - ls)
      BY <1>4, <2>3
    <3> QED
      BY <1>4, <2>2, <3>1
  <2> QED
    BY <2>1, <2>2, <2>3
<1>7. There(u) = There(s) \cup There(t)
  <2>1. There(u) \subseteq There(s) \cup There(t)
    BY <1>6 DEF There
  <2>2. There(s) \subseteq There(u) /\ There(t) \subseteq There(u)
    BY <1>6 DEF There
  <2> QED
    BY <2>1, <2>2
<1>8. \A k \in DOMAIN u : u[k].text \in {sup[x] : x \in DOMAIN sup} /\ Lower[u[k].text] \notin LowerOf(listed)
  <2>1. \A k \in DOMAIN s : s[k].text \in {sup[x] : x \in DOMAIN sup} /\ Lower[s[k].text] \notin LowerOf(listed)
    BY DEF Covered
  <2>2. \A k \in DOMAIN t : t[k].text \in {sup[x] : x \in DOMAIN sup} /\ Lower[t[k].text] \notin LowerOf(listed)
    BY <1>5 DEF S
  <2> QED
    BY <1>6, <2>1, <2>2
<1>9. ASSUME NEW j \in DOMAIN u, NEW k \in DOMAIN u, Lower[u[j].text] = Lower[u[k].text] PROVE j = k
  <2>1. \A x, y \in DOMAIN s : Lower[s[x].text] = Lower[s[y].text] => x = y
    BY DEF Covered
  <2>2. \A x \in DOMAIN s, y \in DOMAIN t : Lower[s[x].text] # Lower[t[y].text]
    BY <1>5 DEF S, There
  <2>3. CASE j \in DOMAIN s /\ u[j] = s[j]
    <3>1. CASE k \in DOMAIN s /\ u[k] = s[k]
      BY <1>9, <2>1, <2>3, <3>1
    <3>2. CASE k - ls \in DOMAIN t /\ u[k] = t[k - ls]
      BY <1>9, <2>2, <2>3, <3>2
    <3> QED
      BY <1>6, <3>1, <3>2
  <2>4. CASE j - ls \in DOMAIN t /\ u[j] = t[j - ls] /\ j = ls + (j - ls)
    <3>1. CASE k \in DOMAIN s /\ u[k] = s[k]
      BY <1>9, <2>2, <2>4, <3>1
    <3>2. CASE k - ls \in DOMAIN t /\ u[k] = t[k - ls] /\ k = ls + (k - ls)
      <4>1. j - ls = k - ls
        BY <1>5, <1>9, <2>4, <3>2
      <4> QED
        BY <2>4, <3>2, <4>1
    <3> QED
      BY <1>6, <3>1, <3>2
  <2> QED
    BY <1>6, <2>3, <2>4
<1>10. Lower[c] \in LowerOf(listed)
  BY DEF LowerOf
<1>11. Shallow(sup, c)
  BY NoWalk
<1>12. ASSUME NEW m \in 1 .. len, w[m] \in DOMAIN sup PROVE Lower[sup[w[m]]] \in LowerOf(listed) \cup There(u)
  <2>1. Lower[c] \in S
    BY <1>10 DEF S
  <2>2. \/ Lower[sup[w[m]]] \in S
        \/ \E k \in 2 .. len : Lower[sup[w[m]]] = Lower[w[k]]
    BY <1>3, <1>11, <1>12, <2>1, TakenCloses DEF w
  <2>3. \A k \in 2 .. len : Lower[w[k]] \in There(t)
    <3> SUFFICES ASSUME NEW k \in 2 .. len PROVE Lower[w[k]] \in There(t)
      OBVIOUS
    <3>1. k - 1 \in 1 .. len - 1 /\ (k - 1) + 1 = k
      BY <1>5
    <3>2. t[k - 1].text = w[k] /\ k - 1 \in DOMAIN t
      BY <1>5, <3>1
    <3> QED
      BY <3>2 DEF There
  <2> QED
    BY <1>7, <2>2, <2>3 DEF S
<1>13. ASSUME NEW x \in Reached(listed, n, u), x \in DOMAIN sup
       PROVE  Lower[sup[x]] \in LowerOf(listed) \cup There(u)
  <2>1. \/ x \in Reached(listed, n - 1, s) \/ x = c \/ \E k \in DOMAIN t : x = t[k].text
    <3>1. n \in Nat /\ \A i \in 1 .. n : i \in 1 .. n - 1 \/ i = n
      OBVIOUS
    <3>2. CASE x \in {listed[i] : i \in 1 .. n}
      BY <3>1, <3>2 DEF Reached
    <3>3. CASE x \in {u[k].text : k \in DOMAIN u}
      <4>1. PICK k \in DOMAIN u : x = u[k].text
        BY <3>3
      <4> QED
        BY <1>6, <4>1 DEF Reached
    <3> QED
      BY <1>13, <3>2, <3>3 DEF Reached
  <2>2. CASE x \in Reached(listed, n - 1, s)
    BY <1>7, <1>13, <2>2 DEF Covered
  <2>3. CASE x = c
    <3>1. w[1] = c
      BY WalkIs DEF IsChain, w
    <3>2. 1 \in 1 .. len
      BY <1>3, <1>5 DEF StopsAt
    <3> QED
      BY <1>12, <1>13, <2>3, <3>1, <3>2
  <2>4. CASE \E k \in DOMAIN t : x = t[k].text
    <3>1. PICK k \in 1 .. len - 1 : x = w[k + 1]
      BY <1>5, <2>4
    <3>2. k + 1 \in 1 .. len
      BY <1>5
    <3> QED
      BY <1>12, <1>13, <3>1, <3>2
  <2> QED
    BY <2>1, <2>2, <2>3, <2>4
<1>14. Covered(sup, listed, n, u)
  <2> HIDE DEF c
  <2> QED
    BY <1>8, <1>9, <1>13 DEF Covered
<1> QED
  BY <1>14 DEF u, t

\* What is added in the end.
LEMMA ImplicitCovers ==
    ASSUME NEW sup, GoodSup(sup), NEW X, NEW listed \in Seq(X), \A c \in DOMAIN sup : Shallow(sup, c)
    PROVE  Covered(sup, listed, Len(listed), Implicit(sup, listed))
<1> DEFINE N == Len(listed)
<1>1. PICK f : /\ IsAdding(f, sup, listed) /\ Implicit(sup, listed) = f[N]
               /\ \A n \in 0 .. N : f[n] \in Seq(Added)
  BY ImplicitIs
<1> DEFINE P == {n \in 0 .. N : Covered(sup, listed, n, f[n])}
<1>2. N \in Nat
  OBVIOUS
<1>3. 0 \in P
  <2>1. f[0] = <<>> /\ DOMAIN <<>> = {} /\ 1 .. 0 = {} /\ 0 \in 0 .. N
    BY <1>1, <1>2 DEF IsAdding
  <2>2. Covered(sup, listed, 0, <<>>)
    BY <2>1 DEF Covered, Reached
  <2> QED
    BY <2>1, <2>2
<1>4. ASSUME NEW n \in 0 .. N, n # N, n \in P PROVE n + 1 \in P
  <2>1. n + 1 \in 1 .. N /\ n + 1 \in 0 .. N /\ (n + 1) - 1 = n
    BY <1>2, <1>4
  <2>2. f[n] \in Seq(Added) /\ Covered(sup, listed, (n + 1) - 1, f[n])
    BY <1>1, <1>4, <2>1
  <2>3. f[n + 1] = f[n] \o Adds(sup, LowerOf(listed), listed[n + 1], There(f[n]))
    BY <1>1, <2>1 DEF IsAdding
  <2>4. Covered(sup, listed, n + 1, f[n + 1])
    BY <2>1, <2>2, <2>3, CoversMore
  <2> QED
    BY <2>1, <2>4
<1>5. N \in P
  <2>1. N \in 0 .. N
    BY <1>2
  <2> HIDE DEF P, N
  <2> QED
    BY <1>2, <1>3, <1>4, <2>1, Climb
<1> QED
  BY <1>1, <1>5

-----------------------------------------------------------------------------
(* The rows of objectClass.                                                  *)

\* No class is listed twice, and the attribute has no options.
ClassesOnce(e) ==
    /\ \A n \in DOMAIN e.attrs : e.attrs[n].base = "objectclass" => ~e.attrs[n].options
    /\ \A i, j \in DOMAIN Classes(e) : Lower[Classes(e)[i]] = Lower[Classes(e)[j]] => i = j

\* r shows the classes listed, and after them those of s.
Shows(r, listed, s) ==
    /\ DOMAIN r = 1 .. Len(listed) + Len(s)
    /\ \A i \in 1 .. Len(listed) : r[i].text = listed[i]
    /\ \A i \in 1 .. Len(s) : r[Len(listed) + i].text = s[i].text

LEMMA ValueRowText == \A a, v : ValueRow(a, v).text = v.text
BY DEF ValueRow

LEMMA ListedRows ==
    ASSUME NEW e \in Entry, Spelled(e), ClassesOnce(e), Classes(e) # <<>>
    PROVE  /\ FlattenSeq(Parts(e, "objectclass")) \in Seq(RowType)
           /\ Len(FlattenSeq(Parts(e, "objectclass"))) = Len(Classes(e))
           /\ \A i \in 1 .. Len(Classes(e)) : FlattenSeq(Parts(e, "objectclass"))[i].text = Classes(e)[i]
<1> DEFINE named == {n \in DOMAIN e.attrs : e.attrs[n].name = "objectClass"}
           m == CHOOSE n \in named : TRUE
           a == e.attrs[m]
           v == a.vals
           ss == Parts(e, "objectclass")
           s == FlattenSeq(ss)
<1>1. named # {}
  BY DEF Classes
<1>2. m \in DOMAIN e.attrs /\ a.name = "objectClass"
  BY <1>1
<1>3. Classes(e) = [k \in DOMAIN v |-> v[k].text]
  BY <1>1 DEF Classes
<1> HIDE DEF m
<1>4. a.base = "objectclass" /\ ~a.options
  BY <1>2, Zenon DEF Spelled
<1>5. ASSUME NEW n \in DOMAIN e.attrs, e.attrs[n].base = "objectclass" PROVE n = m
  <2>1. ~e.attrs[n].options
    BY <1>5, Zenon DEF ClassesOnce
  <2> QED
    BY <1>2, <1>4, <1>5, <2>1, Zenon DEF Spelled
<1>6. ss \in Seq(Seq(RowType)) /\ DOMAIN ss = DOMAIN e.attrs /\ DOMAIN ss = 1 .. Len(ss)
  <2>1. ss \in Seq(Seq(RowType)) /\ DOMAIN ss = DOMAIN e.attrs
    BY PartsTyped
  <2> HIDE DEF ss
  <2> QED
    BY <2>1
<1>7. \A n \in 1 .. Len(ss) : n # m => ss[n] = <<>>
  BY <1>5, <1>6 DEF Parts, OfBase
<1>8. ss[m] = [k \in DOMAIN v |-> ValueRow(a, v[k])]
  <2>1. ss[m] = OfBase(a, "objectclass")
    BY <1>2 DEF Parts
  <2> QED
    BY <1>4, <2>1 DEF OfBase
<1>9. s = ss[m]
  <2>1. m \in 1 .. Len(ss)
    BY <1>2, <1>6
  <2> HIDE DEF ss
  <2> QED
    BY <1>6, <1>7, <2>1, FlatOne
<1>10. s \in Seq(RowType)
  <2> HIDE DEF ss
  <2> QED
    BY <1>6, FlatTyped
<1>11. Len(v) \in Nat /\ DOMAIN v = 1 .. Len(v)
  BY <1>2, AttributesTyped
<1> HIDE DEF v, a, ss, s
<1>12. Len(s) = Len(v) /\ Len(Classes(e)) = Len(v)
  BY <1>3, <1>8, <1>9, <1>11
<1>13. ASSUME NEW i \in 1 .. Len(v) PROVE s[i].text = Classes(e)[i]
  <2>1. s[i] = ValueRow(a, v[i])
    BY <1>8, <1>9, <1>11
  <2>2. s[i].text = v[i].text
    BY <2>1, ValueRowText, Zenon
  <2>3. Classes(e)[i] = v[i].text
    BY <1>3, <1>11
  <2> QED
    BY <2>2, <2>3
<1> QED
  BY <1>10, <1>12, <1>13 DEF s, ss

LEMMA RawShows ==
    ASSUME NEW e \in Entry, Spelled(e), ClassesOnce(e), Classes(e) # <<>>, NEW sup, GoodSup(sup), sup # <<>>
    PROVE  /\ Shows(Raw(sup, e, "objectclass"), Classes(e), Implicit(sup, Classes(e)))
           /\ Implicit(sup, Classes(e)) \in Seq(Added)
<1> DEFINE s == FlattenSeq(Parts(e, "objectclass"))
           u == Implicit(sup, Classes(e))
           t == ImplicitRows(sup, e, "objectclass")
           c == Classes(e)
<1>1. s \in Seq(RowType) /\ Len(s) = Len(c) /\ \A i \in 1 .. Len(c) : s[i].text = c[i]
  BY ListedRows
<1>2. u \in Seq(Added)
  BY ClassesTyped, ImplicitTyped
<1>3. t \in Seq(RowType)
  BY ImplicitRowsTyped
<1>4. t = [k \in DOMAIN u |-> ImplicitRow(u[k])]
  BY DEF ImplicitRows, Unlisted
<1>5. Raw(sup, e, "objectclass") = s \o t
  BY DEF Raw
<1> HIDE DEF s, t, u, c
<1>6. Len(u) \in Nat /\ DOMAIN u = 1 .. Len(u)
  BY <1>2
<1>7. Len(t) = Len(u) /\ \A i \in 1 .. Len(u) : t[i].text = u[i].text
  <2>1. ASSUME NEW i \in 1 .. Len(u) PROVE t[i].text = u[i].text
    <3>1. t[i] = ImplicitRow(u[i])
      BY <1>4, <1>6
    <3> QED
      BY <3>1 DEF ImplicitRow
  <2> QED
    BY <1>4, <1>6, <2>1
<1>8. /\ DOMAIN (s \o t) = 1 .. Len(s) + Len(t)
      /\ \A i \in 1 .. Len(s) : (s \o t)[i] = s[i]
      /\ \A i \in 1 .. Len(t) : (s \o t)[Len(s) + i] = t[i]
  <2>1. s \in Seq(RowType)
    BY <1>1
  <2> QED
    BY <1>3, <2>1, Joined
<1>9. Shows(s \o t, c, u)
  BY <1>1, <1>7, <1>8 DEF Shows
<1> QED
  BY <1>2, <1>5, <1>9 DEF u, c

\* Each class of R has one row.
EachOnce(r, R) ==
    /\ \A i, j \in DOMAIN r : Lower[r[i].text] = Lower[r[j].text] => i = j
    /\ \A x \in R : \E i \in DOMAIN r : r[i].text = x
    /\ \A i \in DOMAIN r : r[i].text \in R

LEMMA RawOnce ==
    ASSUME NEW sup, NEW X, NEW listed \in Seq(X), NEW s \in Seq(Added), Covered(sup, listed, Len(listed), s),
           NEW r, Shows(r, listed, s),
           \A i, j \in DOMAIN listed : Lower[listed[i]] = Lower[listed[j]] => i = j
    PROVE  EachOnce(r, Reached(listed, Len(listed), s))
<1> DEFINE L == Len(listed)
           M == Len(s)
<1>1. L \in Nat /\ M \in Nat /\ DOMAIN listed = 1 .. L /\ DOMAIN s = 1 .. M
  OBVIOUS
<1>2. /\ DOMAIN r = 1 .. L + M
      /\ \A i \in 1 .. L : r[i].text = listed[i]
      /\ \A i \in 1 .. M : r[L + i].text = s[i].text
  BY DEF Shows
<1> HIDE DEF L, M
<1>3. ASSUME NEW i \in DOMAIN r
      PROVE  \/ i \in DOMAIN listed /\ r[i].text = listed[i]
             \/ i - L \in DOMAIN s /\ r[i].text = s[i - L].text /\ i = L + (i - L)
  <2>1. CASE i \in 1 .. L
    BY <1>1, <1>2, <2>1
  <2>2. CASE i \notin 1 .. L
    <3>1. i - L \in 1 .. M /\ i = L + (i - L)
      BY <1>1, <1>2, <2>2
    <3>2. r[L + (i - L)].text = s[i - L].text
      BY <1>2, <3>1
    <3> QED
      BY <1>1, <3>1, <3>2
  <2> QED
    BY <2>1, <2>2
<1>4. /\ \A i, j \in DOMAIN s : Lower[s[i].text] = Lower[s[j].text] => i = j
      /\ \A i \in DOMAIN s, j \in DOMAIN listed : Lower[s[i].text] # Lower[listed[j]]
  BY DEF Covered, LowerOf
<1>5. ASSUME NEW i \in DOMAIN r, NEW j \in DOMAIN r, Lower[r[i].text] = Lower[r[j].text] PROVE i = j
  <2>1. CASE i \in DOMAIN listed /\ r[i].text = listed[i]
    <3>1. CASE j \in DOMAIN listed /\ r[j].text = listed[j]
      BY <1>5, <2>1, <3>1
    <3>2. CASE j - L \in DOMAIN s /\ r[j].text = s[j - L].text
      BY <1>4, <1>5, <2>1, <3>2
    <3> QED
      BY <1>3, <3>1, <3>2
  <2>2. CASE i - L \in DOMAIN s /\ r[i].text = s[i - L].text /\ i = L + (i - L)
    <3>1. CASE j \in DOMAIN listed /\ r[j].text = listed[j]
      BY <1>4, <1>5, <2>2, <3>1
    <3>2. CASE j - L \in DOMAIN s /\ r[j].text = s[j - L].text /\ j = L + (j - L)
      <4>1. i - L = j - L
        BY <1>4, <1>5, <2>2, <3>2
      <4> QED
        BY <2>2, <3>2, <4>1
    <3> QED
      BY <1>3, <3>1, <3>2
  <2> QED
    BY <1>3, <2>1, <2>2
<1>6. ASSUME NEW x \in Reached(listed, L, s) PROVE \E i \in DOMAIN r : r[i].text = x
  <2>1. CASE \E i \in 1 .. L : x = listed[i]
    <3>1. PICK i \in 1 .. L : x = listed[i]
      BY <2>1
    <3>2. i \in 1 .. L + M
      BY <1>1
    <3> QED
      BY <1>2, <3>1, <3>2
  <2>2. CASE \E k \in DOMAIN s : x = s[k].text
    <3>1. PICK k \in 1 .. M : x = s[k].text
      BY <1>1, <2>2
    <3>2. L + k \in 1 .. L + M
      BY <1>1
    <3> QED
      BY <1>2, <3>1, <3>2
  <2> QED
    BY <2>1, <2>2 DEF Reached
<1>7. \A i \in DOMAIN r : r[i].text \in Reached(listed, L, s)
  BY <1>1, <1>3 DEF Reached
<1> QED
  BY <1>5, <1>6, <1>7 DEF EachOnce, L

LEMMA OnceReordered ==
    ASSUME NEW X, NEW r \in Seq(X), NEW g, Reorders(g, r), NEW R, EachOnce(r, R)
    PROVE  EachOnce(g, R) /\ g \in Seq(X)
<1>1. PICK p : Permutes(p, Len(r)) /\ g = [m \in 1 .. Len(r) |-> r[p[m]]]
  BY DEF Reorders
<1>2. DOMAIN r = 1 .. Len(r)
  OBVIOUS
<1>3. DOMAIN g = 1 .. Len(r) /\ \A m \in 1 .. Len(r) : p[m] \in 1 .. Len(r) /\ g[m] = r[p[m]]
  BY <1>1 DEF Permutes
<1>4. ASSUME NEW i \in DOMAIN g, NEW j \in DOMAIN g, Lower[g[i].text] = Lower[g[j].text] PROVE i = j
  <2>1. p[i] = p[j]
    BY <1>2, <1>3, <1>4 DEF EachOnce
  <2> QED
    BY <1>1, <1>3, <2>1 DEF Permutes
<1>5. /\ \A n \in DOMAIN g : \E m \in DOMAIN r : g[n] = r[m]
      /\ \A m \in DOMAIN r : \E n \in DOMAIN g : g[n] = r[m]
      /\ g \in Seq(X)
  BY ReorderedTyped
<1> QED
  BY <1>4, <1>5 DEF EachOnce

\* Lower tells the classes of U apart.
SpeltAlike(U) == \A c, d \in U : Lower[c] = Lower[d] => c = d

\* Every class above a listed one is reached.
LEMMA WalkReached ==
    ASSUME NEW sup, GoodSup(sup), NEW X, NEW listed \in Seq(X), NEW s \in Seq(Added),
           Covered(sup, listed, Len(listed), s), NEW U, SpeltAlike(U),
           Reached(listed, Len(listed), s) \subseteq U, \A x \in DOMAIN sup : sup[x] \in U,
           NEW n \in 1 .. Len(listed)
    PROVE  \A m \in DOMAIN Walk(sup, listed[n]) :
               Walk(sup, listed[n])[m] \in Reached(listed, Len(listed), s)
<1> DEFINE c == listed[n]
           w == Walk(sup, c)
           M == Len(w)
           R == Reached(listed, Len(listed), s)
           P == {m \in 0 .. M : m # 0 => w[m] \in R}
<1>1. /\ M \in Nat /\ DOMAIN w = 1 .. M /\ w[1] = c
      /\ \A k \in 1 .. M : k # M => w[k] \in DOMAIN sup /\ w[k + 1] = sup[w[k]]
  BY WalkIs DEF IsChain
<1>2. c \in R
  BY DEF Reached
<1>3. ASSUME NEW x \in R, x \in DOMAIN sup PROVE sup[x] \in R
  <2>1. Lower[sup[x]] \in LowerOf(listed) \cup There(s)
    BY <1>3 DEF Covered
  <2>2. \E r \in R : Lower[r] = Lower[sup[x]]
    <3>1. DOMAIN listed = 1 .. Len(listed)
      OBVIOUS
    <3> QED
      BY <2>1, <3>1 DEF LowerOf, There, Reached
  <2> HIDE DEF R
  <2>3. R \subseteq U /\ sup[x] \in U
    BY <1>3 DEF R
  <2> QED
    BY <2>2, <2>3 DEF SpeltAlike
<1> HIDE DEF w, M, R, c
<1>4. 0 \in P
  BY <1>1
<1>5. ASSUME NEW m \in 0 .. M, m # M, m \in P PROVE m + 1 \in P
  <2>1. m + 1 \in 0 .. M /\ m + 1 # 0
    BY <1>1, <1>5
  <2>2. CASE m = 0
    <3>1. w[m + 1] \in R
      BY <1>1, <1>2, <2>2
    <3> QED
      BY <2>1, <3>1
  <2>3. CASE m # 0
    <3>1. m \in 1 .. M /\ w[m] \in R
      BY <1>1, <1>5, <2>3
    <3>2. w[m] \in DOMAIN sup /\ w[m + 1] = sup[w[m]]
      BY <1>1, <1>5, <3>1
    <3>3. w[m + 1] \in R
      BY <1>3, <3>1, <3>2
    <3> QED
      BY <2>1, <3>3
  <2> QED
    BY <2>2, <2>3
<1>6. \A m \in 0 .. M : m \in P
  <2> HIDE DEF P
  <2> QED
    BY <1>1, <1>4, <1>5, Climb
<1>7. ASSUME NEW m \in 1 .. M PROVE w[m] \in R
  <2>1. m \in 0 .. M /\ m # 0
    BY <1>1
  <2> QED
    BY <1>6, <2>1
<1> QED
  BY <1>1, <1>7 DEF w, M, R, c

Places(g, c) == {n \in DOMAIN g : Lower[g[n].text] = Lower[c]}

LEMMA OnePlace ==
    ASSUME NEW g, NEW R, EachOnce(g, R), NEW d \in R
    PROVE  Cardinality(Places(g, d)) = 1
<1>1. PICK i \in DOMAIN g : g[i].text = d
  BY DEF EachOnce
<1>2. \A j \in Places(g, d) : j = i
  BY <1>1 DEF Places, EachOnce
<1>3. Places(g, d) = {i}
  BY <1>1, <1>2 DEF Places
<1> QED
  BY <1>3, FS_Singleton

\* A class comes after its superior.
LEMMA SuperiorFirst ==
    ASSUME NEW sup, GoodSup(sup), NEW U, SpeltAlike(U), NEW R, R \subseteq U, NEW g, EachOnce(g, R),
           DepthsGrow(sup, g), NEW d \in R, d # "top", Tops(sup, d) # {},
           \A x \in DOMAIN sup : sup[x] \in U
    PROVE  \A m \in Places(g, d), n \in Places(g, sup[d]) : n < m
<1>1. d \in DOMAIN sup
  <2> SUFFICES ASSUME d \notin DOMAIN sup PROVE FALSE
    OBVIOUS
  <2>1. DOMAIN Walk(sup, d) = {1} /\ Walk(sup, d)[1] = d
    BY NoWalk
  <2> QED
    BY <2>1 DEF Tops
<1>2. Depth(sup, sup[d]) < Depth(sup, d)
  BY <1>1, DeeperThanSuperior
<1>3. ASSUME NEW m \in Places(g, d), NEW n \in Places(g, sup[d]) PROVE n < m
  <2>1. m \in DOMAIN g /\ n \in DOMAIN g /\ Lower[g[m].text] = Lower[d] /\ Lower[g[n].text] = Lower[sup[d]]
    BY DEF Places
  <2>2. g[m].text \in U /\ g[n].text \in U /\ d \in U /\ sup[d] \in U
    BY <1>1, <2>1 DEF EachOnce
  <2>3. g[m].text = d /\ g[n].text = sup[d]
    BY <2>1, <2>2 DEF SpeltAlike
  <2> QED
    BY <1>2, <2>1, <2>3 DEF DepthsGrow
<1> QED
  BY <1>3

\* The rows of the classes of an entry.
LEMMA ClassesGroup ==
    ASSUME NEW e \in Entry, Spelled(e), ClassesOnce(e), NEW sup, GoodSup(sup), sup # <<>>,
           \A c \in DOMAIN sup : Shallow(sup, c), NEW U, SpeltAlike(U),
           \A i \in DOMAIN Classes(e) : Classes(e)[i] \in U, \A x \in DOMAIN sup : sup[x] \in U,
           NEW i \in DOMAIN Classes(e), NEW m \in DOMAIN Walk(sup, Classes(e)[i])
    PROVE  LET g == Group(sup, e, "objectclass")
               d == Walk(sup, Classes(e)[i])[m]
           IN /\ Cardinality(Places(g, d)) = 1
              /\ Tops(sup, d) # {} /\ d # "top" =>
                     \A j \in Places(g, d), n \in Places(g, sup[d]) : n < j
<1> DEFINE g == Group(sup, e, "objectclass")
           d == Walk(sup, Classes(e)[i])[m]
           listed == Classes(e)
           N == Len(listed)
           s == Implicit(sup, listed)
           r == Raw(sup, e, "objectclass")
           R == Reached(listed, N, s)
<1>1. listed \in Seq(STRING)
  BY ClassesTyped
<1> HIDE DEF listed
<1>2. N \in Nat /\ DOMAIN listed = 1 .. N /\ i \in 1 .. N /\ listed # <<>>
  <2>1. N \in Nat /\ DOMAIN listed = 1 .. N /\ (listed = <<>> => DOMAIN listed = {})
    BY <1>1
  <2> QED
    BY <2>1 DEF listed
<1> HIDE DEF s, r
<1>3. Shows(r, listed, s) /\ s \in Seq(Added)
  BY <1>2, RawShows DEF r, s, listed
<1>4. Covered(sup, listed, N, s)
  BY <1>1, ImplicitCovers DEF s
<1>5. EachOnce(r, R)
  <2>1. \A j, k \in DOMAIN listed : Lower[listed[j]] = Lower[listed[k]] => j = k
    BY DEF ClassesOnce, listed
  <2> QED
    BY <1>1, <1>3, <1>4, <2>1, RawOnce
<1>6. r \in Seq(RowType) /\ AddedAreRanked(r)
  BY RawRows DEF r
<1>7. g = Sorted(sup, "objectclass", r)
  BY GroupSorts DEF r
<1>8. Reorders(g, r) /\ DepthsGrow(sup, g)
  BY <1>6, <1>7, ClassesSort
<1> HIDE DEF g, R
<1>9. EachOnce(g, R)
  BY <1>5, <1>6, <1>8, OnceReordered
<1>10. R \subseteq U
  <2> SUFFICES ASSUME NEW x \in R PROVE x \in U
    OBVIOUS
  <2>1. CASE \E k \in 1 .. N : x = listed[k]
    BY <1>2, <2>1 DEF listed
  <2>2. CASE \E k \in DOMAIN s : x = s[k].text
    BY <1>4, <2>2 DEF Covered
  <2> QED
    BY <2>1, <2>2 DEF R, Reached
<1>11. d \in R
  <2>1. \A k \in DOMAIN Walk(sup, listed[i]) : Walk(sup, listed[i])[k] \in R
    BY <1>1, <1>2, <1>3, <1>4, <1>10, WalkReached DEF R
  <2> QED
    BY <2>1 DEF listed
<1> HIDE DEF d
<1>12. Cardinality(Places(g, d)) = 1
  BY <1>9, <1>11, OnePlace
<1>13. Tops(sup, d) # {} /\ d # "top" => \A j \in Places(g, d), n \in Places(g, sup[d]) : n < j
  BY <1>8, <1>9, <1>10, <1>11, SuperiorFirst
<1> QED
  BY <1>12, <1>13 DEF g, d

\* What the theorem asks of the entries: each class is listed once, by one attribute.
ListClassesOnce == \A e \in Entries : ClassesOnce(e)
\* And of the schemas: no class has more than 32 above it, where the loop gives up.
ShallowSchemas == \A d \in Schemas : \A c \in DOMAIN SupMap(d) : Shallow(SupMap(d), c)

LEMMA ClassesOnceStep == ListClassesOnce /\ ClassesOnce(entry) /\ [Next]_vars => ClassesOnce(entry)'
<1> SUFFICES ASSUME ListClassesOnce, ClassesOnce(entry), [Next]_vars PROVE ClassesOnce(entry')
  OBVIOUS
<1>1. entry' = entry \/ \E e \in Entries : entry' = e
  BY EntryIsLoaded
<1> QED
  BY <1>1 DEF ListClassesOnce

\* The rows of objectClass hold the superiors of each listed class, each class once, and no
\* class before its superior (collectImplicitClasses, calcClassDepth and the sort of
\* attrs.cpp), whatever the classes, the schema and the order in which they are listed.
THEOREM SuperiorsInOrder ==
    ASSUME ListClassesOnce, ShallowSchemas
    PROVE  Spec => []ClassesTopDown
<1>1. Init => ClassesOnce(entry)
  <2> SUFFICES ASSUME Init PROVE ClassesOnce(entry)
    OBVIOUS
  <2>1. entry.attrs = <<>>
    BY DEF Init
  <2>2. DOMAIN entry.attrs = {}
    BY <2>1
  <2>3. DOMAIN Classes(entry) = {}
    BY <2>2 DEF Classes
  <2> QED
    BY <2>2, <2>3 DEF ClassesOnce
<1>2. Spec => []ClassesOnce(entry)
  BY <1>1, ClassesOnceStep, PTL DEF Spec
<1>3. PanelInv /\ ClassesOnce(entry) => ClassesTopDown
  <2> DEFINE sup == SupMap(defs)
             listed == ToSet(Classes(entry))
             U == listed \cup DOMAIN sup \cup Range(sup)
             g == Group(sup, entry, "objectclass")
             Above_(c) == ToSet(Superiors(sup, c, Cardinality(DOMAIN sup)))
             Place(c) == {n \in DOMAIN g : Lower[g[n].text] = Lower[c]}
  <2> SUFFICES ASSUME PanelInv, ClassesOnce(entry), sup # <<>>,
                      \A c, d \in U : Lower[c] = Lower[d] => c = d,
                      NEW c \in listed, NEW d \in Above_(c)
               PROVE  /\ Cardinality(Place(d)) = 1
                      /\ "top" \in Above_(d) /\ d # "top" => \A m \in Place(d), n \in Place(sup[d]) : n < m
    BY Zenon DEF ClassesTopDown
  <2>1. /\ GoodSup(sup) /\ \A x \in DOMAIN sup : Shallow(sup, x)
        /\ entry \in Entry /\ Spelled(entry)
    BY SupMapGood DEF PanelInv, ShallowSchemas
  <2>2. PICK i \in DOMAIN Classes(entry) : c = Classes(entry)[i]
    BY DEF ToSet
  <2>3. PICK m \in DOMAIN Walk(sup, c) : d = Walk(sup, c)[m]
    BY DEF ToSet, Walk
  <2>4. SpeltAlike(U) /\ (\A k \in DOMAIN Classes(entry) : Classes(entry)[k] \in U) /\ (\A x \in DOMAIN sup : sup[x] \in U)
    BY DEF SpeltAlike, ToSet, Range
  <2>5. "top" \in Above_(d) => Tops(sup, d) # {}
    <3> SUFFICES ASSUME "top" \in Above_(d) PROVE Tops(sup, d) # {}
      OBVIOUS
    <3>1. PICK k \in DOMAIN Walk(sup, d) : Walk(sup, d)[k] = "top"
      BY DEF ToSet, Walk
    <3> QED
      BY <3>1 DEF Tops
  <2>6. Place(d) = Places(g, d) /\ Place(sup[d]) = Places(g, sup[d])
    BY DEF Places
  <2> HIDE DEF sup, U, listed
  <2>7. /\ Cardinality(Places(g, d)) = 1
        /\ Tops(sup, d) # {} /\ d # "top" => \A j \in Places(g, d), n \in Places(g, sup[d]) : n < j
    BY <2>1, <2>2, <2>3, <2>4, ClassesGroup
  <2> HIDE DEF g, Place, Above_
  <2> QED
    BY <2>5, <2>6, <2>7
<1> QED
  BY <1>2, <1>3, PanelHolds, PTL
=============================================================================
