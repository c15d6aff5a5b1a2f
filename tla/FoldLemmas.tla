----------------------------- MODULE FoldLemmas -----------------------------
(***************************************************************************)
(* Facts about the data the models compute with, which the proofs of      *)
(* several modules need: least and greatest numbers, folds, sums, total    *)
(* orders of finite sets, and flattened sequences.                         *)
(***************************************************************************)
EXTENDS Integers, Sequences, FiniteSets, SequencesExt, FiniteSetsExt, Functions,
        FiniteSetTheorems, WellFoundedInduction, TLAPS

-----------------------------------------------------------------------------
(* Numbers.                                                                  *)

LEMMA LeastNumber ==
    ASSUME NEW S \in SUBSET Nat, S # {}
    PROVE  \E n \in S : \A m \in S : n <= m
<1> DEFINE less == OpToRel(<, Nat)
<1>1. IsWellFoundedOn(less, Nat)
  BY NatLessThanWellFounded
<1>2. \A m, n \in Nat : m < n => <<m, n>> \in less
  BY DEF OpToRel
<1> HIDE DEF less
<1>3. PICK n \in S : \A m \in S : ~(<<m, n>> \in less)
  BY <1>1, WFMin
<1>4. ASSUME NEW m \in S PROVE n <= m
  <2>1. m \in Nat /\ n \in Nat /\ ~(m < n)
    BY <1>2, <1>3
  <2> QED
    BY <2>1
<1> QED
  BY <1>4

\* A property of 0 that each number hands to the next holds of all: P is the set of the numbers
\* that have it.
LEMMA Climb ==
    ASSUME NEW P, NEW N \in Nat, 0 \in P, \A n \in 0 .. N : n # N /\ n \in P => n + 1 \in P
    PROVE  \A n \in 0 .. N : n \in P
<1> DEFINE S == {n \in 0 .. N : n \notin P}
<1> SUFFICES ASSUME S # {} PROVE FALSE
  OBVIOUS
<1>1. S \in SUBSET Nat
  OBVIOUS
<1>2. PICK n \in S : \A m \in S : n <= m
  BY <1>1, LeastNumber
<1>3. n \in 0 .. N /\ n \notin P /\ n # 0
  OBVIOUS
<1>4. n - 1 \in 0 .. N /\ n - 1 # N /\ (n - 1) + 1 = n /\ n - 1 \notin S
  BY <1>2, <1>3
<1> QED
  BY <1>3, <1>4

LEMMA HighestNumber ==
    ASSUME NEW N \in Nat, NEW S \in SUBSET (1 .. N), S # {}
    PROVE  Max(S) \in S /\ \A m \in S : m <= Max(S)
<1> DEFINE T == {N - n : n \in S}
<1>1. T \in SUBSET Nat /\ T # {}
  <2>1. PICK k \in S : TRUE
    OBVIOUS
  <2>2. N - k \in T
    BY <2>1
  <2>3. \A m \in S : N - m \in Nat
    OBVIOUS
  <2> QED
    BY <2>2, <2>3
<1>2. PICK t \in T : \A u \in T : t <= u
  <2> HIDE DEF T
  <2> QED
    BY <1>1, LeastNumber
<1>3. PICK n \in S : t = N - n
  OBVIOUS
<1>4. ASSUME NEW m \in S PROVE n >= m
  <2>1. N - m \in T
    OBVIOUS
  <2>2. N - n <= N - m
    BY <1>2, <1>3, <2>1
  <2> QED
    BY <2>2
<1>5. Max(S) \in S /\ \A m \in S : Max(S) >= m
  BY <1>4 DEF Max
<1> QED
  BY <1>5

LEMMA HighestOfRange == \A n \in Nat : n + 1 \in Nat /\ Max(1 .. n + 1) = n + 1
<1> SUFFICES ASSUME NEW n \in Nat PROVE Max(1 .. n + 1) = n + 1
  OBVIOUS
<1> DEFINE N == n + 1
           S == 1 .. N
<1>1. N \in Nat /\ N \in S /\ S \in SUBSET (1 .. N) /\ S # {}
  OBVIOUS
<1>2. Max(S) \in S /\ \A m \in S : m <= Max(S)
  <2> HIDE DEF N, S
  <2> QED
    BY <1>1, HighestNumber
<1>3. Max(S) \in 1 .. N /\ N <= Max(S)
  BY <1>1, <1>2
<1> QED
  BY <1>3

-----------------------------------------------------------------------------
(* A fold from the left over the numbers 1 .. N: F takes the value so far and  *)
(* the number.                                                                 *)

IsFold(g, N, base, F) ==
    \A s \in SUBSET (1 .. N) : g[s] = IF s = {} THEN base ELSE F[Max(s)][g[s \ {Max(s)}]]

LEMMA FoldExists ==
    ASSUME NEW N \in Nat, NEW X, NEW base \in X, NEW F \in [1 .. N -> [X -> X]]
    PROVE  \E g \in [SUBSET (1 .. N) -> X] : IsFold(g, N, base, F)
<1> DEFINE Good(n) == \E g \in [SUBSET (1 .. n) -> X] : IsFold(g, n, base, F)
           P == {n \in 0 .. N : Good(n)}
<1>1. Good(0)
  <2> DEFINE g == [s \in SUBSET (1 .. 0) |-> base]
  <2>1. 1 .. 0 = {}
    OBVIOUS
  <2>2. \A s \in SUBSET (1 .. 0) : s = {} /\ g[s] = base
    BY <2>1
  <2>3. g \in [SUBSET (1 .. 0) -> X]
    OBVIOUS
  <2> HIDE DEF g
  <2> QED
    BY <2>2, <2>3 DEF IsFold
<1>2. ASSUME NEW n \in 0 .. N, n # N, Good(n) PROVE Good(n + 1)
  <2>1. PICK g \in [SUBSET (1 .. n) -> X] :
              \A s \in SUBSET (1 .. n) :
                 g[s] = IF s = {} THEN base ELSE F[Max(s)][g[s \ {Max(s)}]]
    BY <1>2 DEF IsFold
  <2> DEFINE h == [s \in SUBSET (1 .. n + 1) |->
                      IF n + 1 \in s THEN F[n + 1][g[s \ {n + 1}]] ELSE g[s]]
  <2>2. n + 1 \in 1 .. N /\ 1 .. n + 1 = (1 .. n) \cup {n + 1} /\ n + 1 \notin 1 .. n
    <3>1. n \in Nat /\ n <= N /\ n # N
      BY <1>2
    <3>2. n + 1 \in 1 .. N
      BY <3>1
    <3>3. 1 .. n + 1 = (1 .. n) \cup {n + 1} /\ n + 1 \notin 1 .. n
      BY <3>1
    <3> QED
      BY <3>2, <3>3
  <2>3. \A s \in SUBSET (1 .. n + 1) : s \ {n + 1} \in SUBSET (1 .. n) /\ (n + 1 \notin s => s \in SUBSET (1 .. n))
    BY <2>2
  <2>4. h \in [SUBSET (1 .. n + 1) -> X]
    BY <2>2, <2>3
  <2>5. \A s \in SUBSET (1 .. n + 1) : h[s] = IF n + 1 \in s THEN F[n + 1][g[s \ {n + 1}]] ELSE g[s]
    OBVIOUS
  <2> HIDE DEF h
  <2>6. ASSUME NEW s \in SUBSET (1 .. n + 1)
        PROVE  h[s] = IF s = {} THEN base ELSE F[Max(s)][h[s \ {Max(s)}]]
    <3>1. CASE n + 1 \in s
      <4>1. Max(s) = n + 1
        <5>1. Max(s) \in s /\ \A m \in s : m <= Max(s)
          <6> DEFINE M == n + 1
          <6>1. M \in Nat /\ s \in SUBSET (1 .. M) /\ s # {}
            BY <3>1
          <6> HIDE DEF M
          <6> QED
            BY <6>1, HighestNumber
        <5>2. Max(s) \in 1 .. n + 1 /\ n + 1 <= Max(s)
          BY <3>1, <5>1
        <5> QED
          BY <5>2
      <4>2. s \ {n + 1} \in SUBSET (1 .. n + 1) /\ h[s \ {n + 1}] = g[s \ {n + 1}]
        BY <2>5
      <4> QED
        BY <2>5, <3>1, <4>1, <4>2
    <3>2. CASE n + 1 \notin s
      <4>1. s \in SUBSET (1 .. n) /\ h[s] = g[s]
        BY <2>3, <2>5, <3>2
      <4>2. s \ {Max(s)} \in SUBSET (1 .. n + 1) /\ n + 1 \notin s \ {Max(s)}
        BY <3>2
      <4>3. h[s \ {Max(s)}] = g[s \ {Max(s)}]
        BY <2>5, <4>2
      <4> QED
        BY <2>1, <4>1, <4>3
    <3> QED
      BY <3>1, <3>2
  <2> QED
    BY <2>4, <2>6 DEF IsFold
<1> HIDE DEF Good
<1>3. 0 \in P /\ \A n \in 0 .. N : n # N /\ n \in P => n + 1 \in P
  BY <1>1, <1>2
<1> HIDE DEF P
<1>4. N \in P
  <2>1. N \in 0 .. N
    OBVIOUS
  <2> QED
    BY <1>3, <2>1, Climb
<1> QED
  BY <1>4 DEF P, Good

-----------------------------------------------------------------------------
(* Sums over finite sets.                                                    *)

IsSum(g, S, f) ==
    \A s \in SUBSET S : g[s] = IF s = {} THEN 0
                               ELSE f[CHOOSE x \in s : TRUE] + g[s \ {CHOOSE x \in s : TRUE}]

LEMMA Fewer ==
    ASSUME NEW S, IsFiniteSet(S), NEW x \in S
    PROVE  Cardinality(S) \in Nat \ {0} /\ IsFiniteSet(S \ {x}) /\ Cardinality(S \ {x}) = Cardinality(S) - 1
<1>1. Cardinality(S) \in Nat
  BY FS_CardinalityType
<1>2. Cardinality(S) # 0
  BY FS_EmptySet
<1> QED
  BY <1>1, <1>2, FS_RemoveElement

LEMMA SumExists ==
    ASSUME NEW S, IsFiniteSet(S), NEW f, \A x \in S : f[x] \in Nat
    PROVE  \E g \in [SUBSET S -> Nat] : IsSum(g, S, f)
<1> DEFINE c(s) == CHOOSE x \in s : TRUE
           Next_(g, s) == IF s = {} THEN 0 ELSE f[c(s)] + g[s \ {c(s)}]
           Good(n) == \E g \in [SUBSET S -> Nat] :
                          \A s \in SUBSET S : Cardinality(s) <= n => g[s] = Next_(g, s)
           N == Cardinality(S)
           P == {n \in 0 .. N : Good(n)}
<1>0. N \in Nat /\ \A s \in SUBSET S : IsFiniteSet(s) /\ Cardinality(s) \in 0 .. N
  <2>1. N \in Nat
    BY FS_CardinalityType
  <2>2. ASSUME NEW s \in SUBSET S PROVE IsFiniteSet(s) /\ Cardinality(s) \in 0 .. N
    <3>1. IsFiniteSet(s) /\ Cardinality(s) <= N
      BY FS_Subset
    <3>2. Cardinality(s) \in Nat
      BY <3>1, FS_CardinalityType
    <3> QED
      BY <2>1, <3>1, <3>2
  <2> QED
    BY <2>1, <2>2
<1>1. ASSUME NEW s \in SUBSET S, s # {}
      PROVE  /\ c(s) \in s /\ c(s) \in S /\ s \ {c(s)} \in SUBSET S
             /\ Cardinality(s) # 0 /\ Cardinality(s \ {c(s)}) = Cardinality(s) - 1
  <2>1. c(s) \in s
    BY <1>1
  <2> HIDE DEF c
  <2>2. IsFiniteSet(s)
    BY <1>0
  <2> QED
    BY <2>1, <2>2, Fewer
<1>2. Good(0)
  <2>1. [s \in SUBSET S |-> 0] \in [SUBSET S -> Nat]
    OBVIOUS
  <2>2. \A s \in SUBSET S : Cardinality(s) <= 0 => s = {}
    <3> SUFFICES ASSUME NEW s \in SUBSET S, s # {}, Cardinality(s) <= 0 PROVE FALSE
      OBVIOUS
    <3>1. Cardinality(s) # 0
      BY <1>1
    <3>2. Cardinality(s) \in 0 .. N
      BY <1>0
    <3> HIDE DEF N
    <3> QED
      BY <1>0, <3>1, <3>2
  <2> QED
    BY <2>1, <2>2
<1>3. ASSUME NEW n \in 0 .. N, n # N, Good(n) PROVE Good(n + 1)
  <2>1. PICK g \in [SUBSET S -> Nat] :
              \A s \in SUBSET S : Cardinality(s) <= n => g[s] = Next_(g, s)
    BY <1>3
  <2> DEFINE h == [s \in SUBSET S |-> IF Cardinality(s) = n + 1 THEN f[c(s)] + g[s \ {c(s)}] ELSE g[s]]
  <2>2. n \in Nat /\ n <= N
    BY <1>0, <1>3
  <2>3. ASSUME NEW s \in SUBSET S, s # {} PROVE f[c(s)] + g[s \ {c(s)}] \in Nat
    <3> HIDE DEF c
    <3>1. c(s) \in S /\ s \ {c(s)} \in SUBSET S
      BY <1>1, <2>3
    <3>2. f[c(s)] \in Nat /\ g[s \ {c(s)}] \in Nat
      BY <2>1, <3>1
    <3> QED
      BY <3>2
  <2>4. \A s \in SUBSET S : Cardinality(s) = n + 1 => s # {}
    <3>1. Cardinality({}) = 0
      BY FS_EmptySet
    <3>2. n + 1 # 0
      BY <2>2
    <3> QED
      BY <3>1, <3>2
  <2>5. h \in [SUBSET S -> Nat]
    <3> HIDE DEF c
    <3> QED
      BY <2>1, <2>3, <2>4
  <2>6. ASSUME NEW s \in SUBSET S, Cardinality(s) <= n + 1 PROVE h[s] = Next_(h, s)
    <3>1. CASE s = {}
      <4>1. Cardinality(s) = 0
        BY <3>1, FS_EmptySet
      <4> QED
        BY <2>1, <2>2, <3>1, <4>1
    <3>2. CASE s # {}
      <4> DEFINE t == s \ {c(s)}
      <4>1. t \in SUBSET S /\ Cardinality(t) = Cardinality(s) - 1 /\ Cardinality(s) \in Nat
        <5> HIDE DEF c
        <5> QED
          BY <1>0, <1>1, <3>2
      <4>2. h[t] = g[t] /\ Cardinality(t) # n + 1
        BY <2>2, <2>6, <4>1
      <4>3. h[s] = f[c(s)] + g[t]
        <5>1. CASE Cardinality(s) = n + 1
          BY <5>1
        <5>2. CASE Cardinality(s) # n + 1
          <6>1. Cardinality(s) <= n
            BY <2>2, <2>6, <4>1, <5>2
          <6> QED
            BY <2>1, <3>2, <5>2, <6>1
        <5> QED
          BY <5>1, <5>2
      <4> QED
        BY <3>2, <4>2, <4>3
    <3> QED
      BY <3>1, <3>2
  <2> HIDE DEF h, Next_
  <2> QED
    BY <2>5, <2>6
<1> HIDE DEF Good
<1>4. 0 \in P /\ \A n \in 0 .. N : n # N /\ n \in P => n + 1 \in P
  BY <1>0, <1>2, <1>3
<1>5. N \in P
  <2> HIDE DEF P, N
  <2> QED
    BY <1>0, <1>4, Climb
<1>6. Good(N)
  BY <1>5
<1>7. PICK g \in [SUBSET S -> Nat] : \A s \in SUBSET S : Cardinality(s) <= N => g[s] = Next_(g, s)
  BY <1>6 DEF Good
<1>8. \A s \in SUBSET S : g[s] = Next_(g, s)
  <2> HIDE DEF Next_, N
  <2> QED
    BY <1>0, <1>7
<1> QED
  BY <1>8 DEF IsSum

LEMMA SumIs ==
    ASSUME NEW S, IsFiniteSet(S), NEW f, \A x \in S : f[x] \in Nat
    PROVE  \E g \in [SUBSET S -> Nat] : IsSum(g, S, f) /\ SumFunctionOnSet(f, S) = g[S]
<1> DEFINE Eqn(g) == g = [s \in SUBSET S |-> IF s = {} THEN 0
                              ELSE f[CHOOSE x \in s : TRUE] + g[s \ {CHOOSE x \in s : TRUE}]]
           it == CHOOSE g : Eqn(g)
<1>1. PICK h \in [SUBSET S -> Nat] : IsSum(h, S, f)
  BY SumExists
<1>2. Eqn(h)
  <2>1. h = [s \in SUBSET S |-> h[s]]
    BY <1>1
  <2> QED
    BY <1>1, <2>1 DEF IsSum
<1>3. Eqn(it)
  <2> HIDE DEF Eqn
  <2> QED
    BY <1>2
<1>4. SumFunctionOnSet(f, S) = it[S]
  BY DEF SumFunctionOnSet, FoldFunctionOnSet, MapThenFoldSet
<1>5. IsSum(it, S, f)
  <2> HIDE DEF it
  <2> QED
    BY <1>3 DEF IsSum
<1>6. it \in [SUBSET S -> Nat]
  <2> DEFINE N == Cardinality(S)
             P == {n \in 0 .. N : \A s \in SUBSET S : Cardinality(s) = n => it[s] \in Nat}
  <2> HIDE DEF it
  <2>0. N \in Nat /\ \A s \in SUBSET S : IsFiniteSet(s) /\ Cardinality(s) <= N /\ Cardinality(s) \in Nat
    BY FS_CardinalityType, FS_Subset
  <2>1. 0 \in P
    <3>1. \A s \in SUBSET S : Cardinality(s) = 0 => s = {}
      BY <2>0, FS_EmptySet
    <3> QED
      BY <1>5, <2>0, <3>1 DEF IsSum
  <2>2. ASSUME NEW n \in 0 .. N, n # N, n \in P, NEW s \in SUBSET S, Cardinality(s) = n + 1
        PROVE  it[s] \in Nat
    <3> DEFINE c == CHOOSE x \in s : TRUE
    <3>1. n \in Nat /\ s # {}
      <4>1. n \in Nat /\ n + 1 # 0
        BY <2>0
      <4> QED
        BY <2>2, <4>1, FS_EmptySet
    <3>2. c \in s
      BY <3>1
    <3>3. it[s] = f[c] + it[s \ {c}]
      BY <1>5, <3>1 DEF IsSum
    <3> HIDE DEF c
    <3>4. Cardinality(s \ {c}) = n
      BY <2>0, <2>2, <3>1, <3>2, Fewer
    <3>5. f[c] \in Nat /\ it[s \ {c}] \in Nat
      BY <2>2, <3>2, <3>4
    <3> QED
      BY <3>3, <3>5
  <2>3. \A n \in 0 .. N : n # N /\ n \in P => n + 1 \in P
    <3> SUFFICES ASSUME NEW n \in 0 .. N, n # N, n \in P PROVE n + 1 \in P
      OBVIOUS
    <3>1. n + 1 \in 0 .. N
      BY <2>0
    <3> QED
      BY <2>2, <3>1
  <2>4. \A n \in 0 .. N : n \in P
    <3> HIDE DEF P, N
    <3> QED
      BY <2>0, <2>1, <2>3, Climb
  <2>5. \A s \in SUBSET S : it[s] \in Nat
    <3>1. \A s \in SUBSET S : Cardinality(s) \in 0 .. N
      BY <2>0
    <3> QED
      BY <2>4, <3>1
  <2>6. it = [s \in SUBSET S |-> it[s]]
    BY <1>3
  <2> QED
    BY <2>5, <2>6
<1> HIDE DEF it
<1> QED
  BY <1>4, <1>5, <1>6

\* The order in which a sum takes the elements makes no difference.
Takes(g, S, f) == \A s \in SUBSET S : \A x \in s : g[s] = f[x] + g[s \ {x}]

LEMMA SumTakes ==
    ASSUME NEW S, IsFiniteSet(S), NEW f, \A x \in S : f[x] \in Nat,
           NEW g \in [SUBSET S -> Nat], IsSum(g, S, f)
    PROVE  Takes(g, S, f)
<1> DEFINE N == Cardinality(S)
           P == {n \in 0 .. N : \A s \in SUBSET S : Cardinality(s) = n
                                    => \A x \in s : g[s] = f[x] + g[s \ {x}]}
<1>0. N \in Nat /\ \A s \in SUBSET S : IsFiniteSet(s) /\ Cardinality(s) <= N /\ Cardinality(s) \in Nat
  BY FS_CardinalityType, FS_Subset
<1>1. 0 \in P
  BY <1>0, FS_EmptySet
<1>2. ASSUME NEW n \in 0 .. N, n # N, n \in P, NEW s \in SUBSET S, Cardinality(s) = n + 1, NEW x \in s
      PROVE  g[s] = f[x] + g[s \ {x}]
  <2> DEFINE c == CHOOSE y \in s : TRUE
  <2>1. c \in s /\ g[s] = f[c] + g[s \ {c}]
    BY DEF IsSum
  <2> HIDE DEF c
  <2>2. CASE x # c
    <3>1. n \in Nat
      OBVIOUS
    <3>2. Cardinality(s \ {c}) = n /\ Cardinality(s \ {x}) = n
      <4>1. IsFiniteSet(s)
        BY <1>0
      <4>2. Cardinality(s \ {c}) = (n + 1) - 1 /\ Cardinality(s \ {x}) = (n + 1) - 1
        BY <1>2, <2>1, <4>1, Fewer
      <4> QED
        BY <3>1, <4>2
    <3>3. x \in s \ {c} /\ c \in s \ {x} /\ s \ {c} \in SUBSET S /\ s \ {x} \in SUBSET S
      BY <2>1, <2>2
    <3>4. g[s \ {c}] = f[x] + g[(s \ {c}) \ {x}] /\ g[s \ {x}] = f[c] + g[(s \ {x}) \ {c}]
      BY <1>2, <3>2, <3>3
    <3>5. (s \ {c}) \ {x} = (s \ {x}) \ {c}
      OBVIOUS
    <3> DEFINE r == g[(s \ {x}) \ {c}]
    <3>6. f[x] \in Nat /\ f[c] \in Nat /\ r \in Nat
      BY <2>1
    <3>7. g[s] = f[c] + (f[x] + r) /\ g[s \ {x}] = f[c] + r
      BY <2>1, <3>4, <3>5
    <3> HIDE DEF r
    <3> QED
      BY <3>6, <3>7
  <2> QED
    BY <2>1, <2>2
<1>3. \A n \in 0 .. N : n # N /\ n \in P => n + 1 \in P
  <2> SUFFICES ASSUME NEW n \in 0 .. N, n # N, n \in P PROVE n + 1 \in P
    OBVIOUS
  <2>1. n + 1 \in 0 .. N
    BY <1>0
  <2> QED
    BY <1>2, <2>1
<1>4. \A n \in 0 .. N : n \in P
  <2> HIDE DEF P, N
  <2> QED
    BY <1>0, <1>1, <1>3, Climb
<1>5. \A s \in SUBSET S : Cardinality(s) \in 0 .. N
  BY <1>0
<1> QED
  BY <1>4, <1>5 DEF Takes

LEMMA SumIsUnique ==
    ASSUME NEW S, IsFiniteSet(S), NEW f, NEW g, IsSum(g, S, f),
           NEW T, NEW e, NEW h, IsSum(h, T, e)
    PROVE  \A s \in SUBSET (S \cap T) : (\A x \in s : f[x] = e[x]) => g[s] = h[s]
<1> DEFINE N == Cardinality(S)
           P == {n \in 0 .. N : \A s \in SUBSET (S \cap T) :
                                    Cardinality(s) = n /\ (\A x \in s : f[x] = e[x]) => g[s] = h[s]}
<1>0. N \in Nat /\ \A s \in SUBSET S : IsFiniteSet(s) /\ Cardinality(s) <= N /\ Cardinality(s) \in Nat
  BY FS_CardinalityType, FS_Subset
<1>1. 0 \in P
  <2>1. \A s \in SUBSET S : Cardinality(s) = 0 => s = {}
    BY <1>0, FS_EmptySet
  <2> QED
    <3>1. {} \in SUBSET S /\ {} \in SUBSET T
      OBVIOUS
    <3>2. g[{}] = 0 /\ h[{}] = 0
      BY <3>1 DEF IsSum
    <3>3. \A s \in SUBSET (S \cap T) : Cardinality(s) = 0 => s = {}
      BY <2>1
    <3> QED
      BY <1>0, <3>2, <3>3
<1>2. ASSUME NEW n \in 0 .. N, n # N, n \in P, NEW s \in SUBSET (S \cap T), Cardinality(s) = n + 1,
             \A x \in s : f[x] = e[x]
      PROVE  g[s] = h[s]
  <2> DEFINE c == CHOOSE y \in s : TRUE
  <2>1. n \in Nat /\ s # {}
    <3>1. n \in Nat /\ n + 1 # 0
      BY <1>0
    <3> QED
      BY <1>2, <3>1, FS_EmptySet
  <2>2. c \in s /\ g[s] = f[c] + g[s \ {c}] /\ h[s] = e[c] + h[s \ {c}]
    BY <2>1 DEF IsSum
  <2> HIDE DEF c
  <2>3. IsFiniteSet(s)
    BY <1>0
  <2>4. Cardinality(s \ {c}) = (n + 1) - 1
    BY <1>2, <2>2, <2>3, Fewer
  <2>5. Cardinality(s \ {c}) = n
    BY <2>1, <2>4
  <2>6. g[s \ {c}] = h[s \ {c}] /\ f[c] = e[c]
    BY <1>2, <2>2, <2>5
  <2> QED
    BY <2>2, <2>6
<1>3. \A n \in 0 .. N : n # N /\ n \in P => n + 1 \in P
  <2> SUFFICES ASSUME NEW n \in 0 .. N, n # N, n \in P PROVE n + 1 \in P
    OBVIOUS
  <2>1. n + 1 \in 0 .. N
    BY <1>0
  <2> QED
    BY <1>2, <2>1
<1>4. \A n \in 0 .. N : n \in P
  <2> HIDE DEF P, N
  <2> QED
    BY <1>0, <1>1, <1>3, Climb
<1>5. \A s \in SUBSET (S \cap T) : Cardinality(s) \in 0 .. N
  BY <1>0
<1> QED
  BY <1>4, <1>5

\* What a sum is, and that it depends on the values alone.
LEMMA SumOfNone == \A f : SumFunctionOnSet(f, {}) = 0
<1> SUFFICES ASSUME NEW f PROVE SumFunctionOnSet(f, {}) = 0
  OBVIOUS
<1>1. IsFiniteSet({}) /\ \A x \in {} : f[x] \in Nat
  BY FS_EmptySet
<1>2. PICK g : IsSum(g, {}, f) /\ SumFunctionOnSet(f, {}) = g[{}]
  BY <1>1, SumIs
<1> QED
  BY <1>2 DEF IsSum

LEMMA SumIsNat ==
    ASSUME NEW S, IsFiniteSet(S), NEW f, \A x \in S : f[x] \in Nat
    PROVE  SumFunctionOnSet(f, S) \in Nat
<1>1. PICK g \in [SUBSET S -> Nat] : IsSum(g, S, f) /\ SumFunctionOnSet(f, S) = g[S]
  BY SumIs
<1>2. g[S] \in Nat
  BY <1>1
<1> QED
  BY <1>1, <1>2

LEMMA SumOfMore ==
    ASSUME NEW S, IsFiniteSet(S), NEW f, \A x \in S : f[x] \in Nat, NEW x \in S
    PROVE  /\ SumFunctionOnSet(f, S \ {x}) \in Nat
           /\ SumFunctionOnSet(f, S) = f[x] + SumFunctionOnSet(f, S \ {x})
<1> DEFINE T == S \ {x}
<1>1. IsFiniteSet(T) /\ \A y \in T : f[y] \in Nat
  BY FS_Subset
<1>2. PICK g \in [SUBSET S -> Nat] : IsSum(g, S, f) /\ SumFunctionOnSet(f, S) = g[S]
  BY SumIs
<1>3. PICK h \in [SUBSET T -> Nat] : IsSum(h, T, f) /\ SumFunctionOnSet(f, T) = h[T]
  <2> HIDE DEF T
  <2> QED
    BY <1>1, SumIs
<1>4. g[T] = h[T]
  <2>1. T \in SUBSET (S \cap T)
    OBVIOUS
  <2>2. \A s \in SUBSET (S \cap T) : (\A y \in s : f[y] = f[y]) => g[s] = h[s]
    <3> HIDE DEF T
    <3> QED
      BY <1>2, <1>3, SumIsUnique
  <2> QED
    BY <2>1, <2>2
<1>5. Takes(g, S, f)
  BY <1>2, SumTakes
<1>6. g[S] = f[x] + g[T]
  BY <1>5 DEF Takes
<1>7. h[T] \in Nat
  BY <1>3
<1> QED
  BY <1>2, <1>3, <1>4, <1>6, <1>7

LEMMA SumOfSame ==
    ASSUME NEW S, IsFiniteSet(S), NEW f, \A x \in S : f[x] \in Nat, NEW e, \A x \in S : e[x] = f[x]
    PROVE  SumFunctionOnSet(e, S) = SumFunctionOnSet(f, S)
<1>1. PICK g \in [SUBSET S -> Nat] : IsSum(g, S, f) /\ SumFunctionOnSet(f, S) = g[S]
  BY SumIs
<1>2. \A x \in S : e[x] \in Nat
  OBVIOUS
<1>3. PICK h \in [SUBSET S -> Nat] : IsSum(h, S, e) /\ SumFunctionOnSet(e, S) = h[S]
  BY <1>2, SumIs
<1>4. \A s \in SUBSET (S \cap S) : (\A x \in s : f[x] = e[x]) => g[s] = h[s]
  BY <1>1, <1>3, SumIsUnique
<1> QED
  BY <1>1, <1>3, <1>4

-----------------------------------------------------------------------------
(* Sums along sequences.                                                     *)

Nats(f, N) == \A n \in 1 .. N : f[n] \in Nat

LEMMA SumUpTo ==
    ASSUME NEW N \in Nat, NEW f, Nats(f, N)
    PROVE  /\ \A n \in 0 .. N : SumFunctionOnSet(f, 1 .. n) \in Nat
           /\ SumFunctionOnSet(f, 1 .. 0) = 0
           /\ \A n \in 0 .. N : n # N =>
                 SumFunctionOnSet(f, 1 .. n + 1) = SumFunctionOnSet(f, 1 .. n) + f[n + 1]
<1>1. ASSUME NEW n \in 0 .. N PROVE SumFunctionOnSet(f, 1 .. n) \in Nat
  <2> DEFINE S == 1 .. n
  <2>1. n \in Int /\ \A m \in S : f[m] \in Nat
    BY DEF Nats
  <2>2. IsFiniteSet(S)
    BY <2>1, FS_Interval
  <2> HIDE DEF S
  <2>3. SumFunctionOnSet(f, S) \in Nat
    BY <2>1, <2>2, SumIsNat
  <2> QED
    BY <2>3 DEF S
<1>2. SumFunctionOnSet(f, 1 .. 0) = 0
  <2>1. 1 .. 0 = {}
    OBVIOUS
  <2> QED
    BY <2>1, SumOfNone
<1>3. ASSUME NEW n \in 0 .. N, n # N
      PROVE  SumFunctionOnSet(f, 1 .. n + 1) = SumFunctionOnSet(f, 1 .. n) + f[n + 1]
  <2> DEFINE S == 1 .. n + 1
             x == n + 1
             T == 1 .. n
  <2>1. x \in Int /\ x \in S /\ S \ {x} = T /\ (\A m \in S : f[m] \in Nat) /\ f[x] \in Nat
    <3>1. n \in Nat /\ n + 1 <= N
      BY <1>3
    <3>2. S \ {x} = T /\ x \in S /\ x \in 1 .. N
      BY <3>1
    <3> QED
      BY <3>1, <3>2 DEF Nats
  <2>2. IsFiniteSet(S)
    BY <2>1, FS_Interval
  <2>3. SumFunctionOnSet(f, T) \in Nat
    BY <1>1
  <2> HIDE DEF S, x, T
  <2>4. SumFunctionOnSet(f, S) = f[x] + SumFunctionOnSet(f, S \ {x})
    BY <2>1, <2>2, SumOfMore
  <2>5. SumFunctionOnSet(f, S) = SumFunctionOnSet(f, T) + f[x]
    BY <2>1, <2>3, <2>4
  <2> QED
    BY <2>5 DEF S, x, T
<1> QED
  BY <1>1, <1>2, <1>3

LEMMA SumsGrow ==
    ASSUME NEW N \in Nat, NEW f, Nats(f, N), NEW m \in 0 .. N, NEW n \in 0 .. N, m <= n
    PROVE  SumFunctionOnSet(f, 1 .. m) <= SumFunctionOnSet(f, 1 .. n)
<1> DEFINE Sum_(k) == SumFunctionOnSet(f, 1 .. k)
           P == {k \in 0 .. N : m <= k => Sum_(m) <= Sum_(k)}
<1>1. \A k \in 0 .. N : Sum_(k) \in Nat /\ (k # N => Sum_(k + 1) = Sum_(k) + f[k + 1])
  BY SumUpTo
<1> HIDE DEF Sum_
<1>2. 0 \in P
  <2>1. m \in Nat /\ (m <= 0 => m = 0)
    OBVIOUS
  <2>2. Sum_(0) \in Nat
    BY <1>1
  <2> QED
    BY <2>1, <2>2
<1>3. ASSUME NEW k \in 0 .. N, k # N, k \in P PROVE k + 1 \in P
  <2>1. k \in Nat /\ k + 1 \in 0 .. N /\ k + 1 \in 1 .. N /\ m \in Nat
    BY <1>3
  <2>2. Sum_(k + 1) = Sum_(k) + f[k + 1] /\ Sum_(k) \in Nat /\ f[k + 1] \in Nat /\ Sum_(m) \in Nat
    BY <1>1, <1>3, <2>1 DEF Nats
  <2>3. CASE m <= k
    BY <1>3, <2>1, <2>2, <2>3
  <2>4. CASE ~(m <= k)
    <3>1. m <= k + 1 => m = k + 1
      BY <2>1, <2>4
    <3> QED
      BY <2>1, <2>2, <3>1
  <2> QED
    BY <2>3, <2>4
<1>4. n \in P
  <2> HIDE DEF P
  <2> QED
    BY <1>2, <1>3, Climb
<1> QED
  BY <1>4 DEF Sum_

LEMMA SumOfConstant ==
    ASSUME NEW N \in Nat, NEW f, NEW c \in {0, 1}, \A n \in 1 .. N : f[n] = c
    PROVE  SumFunctionOnSet(f, 1 .. N) = IF c = 0 THEN 0 ELSE N
<1> DEFINE Sum_(k) == SumFunctionOnSet(f, 1 .. k)
           P == {k \in 0 .. N : Sum_(k) = IF c = 0 THEN 0 ELSE k}
<1>0. Nats(f, N)
  BY DEF Nats
<1>1. Sum_(0) = 0 /\ \A k \in 0 .. N : k # N => Sum_(k + 1) = Sum_(k) + f[k + 1]
  BY <1>0, SumUpTo
<1> HIDE DEF Sum_
<1>2. 0 \in P
  BY <1>1
<1>3. ASSUME NEW k \in 0 .. N, k # N, k \in P PROVE k + 1 \in P
  <2>1. k \in Nat /\ k + 1 \in 0 .. N /\ k + 1 \in 1 .. N
    BY <1>3
  <2>2. Sum_(k + 1) = Sum_(k) + c
    BY <1>1, <1>3, <2>1
  <2> QED
    BY <1>3, <2>1, <2>2
<1>4. N \in P
  <2>1. N \in 0 .. N
    OBVIOUS
  <2> HIDE DEF P
  <2> QED
    BY <1>2, <1>3, <2>1, Climb
<1> QED
  BY <1>4 DEF Sum_

\* c has the first M values of a and then the first N of b.
Joins(c, a, M, b, N) == (\A n \in 1 .. M : c[n] = a[n]) /\ (\A n \in 1 .. N : c[M + n] = b[n])

LEMMA SumOfBoth ==
    ASSUME NEW M \in Nat, NEW a, Nats(a, M), NEW N \in Nat, NEW b, Nats(b, N), NEW c,
           Joins(c, a, M, b, N)
    PROVE  /\ Nats(c, M + N)
           /\ SumFunctionOnSet(c, 1 .. M + N) = SumFunctionOnSet(a, 1 .. M) + SumFunctionOnSet(b, 1 .. N)
<1> DEFINE Sc(k) == SumFunctionOnSet(c, 1 .. k)
           Sb(k) == SumFunctionOnSet(b, 1 .. k)
           sa == SumFunctionOnSet(a, 1 .. M)
           P == {k \in 0 .. N : Sc(M + k) = sa + Sb(k)}
<1>1. Nats(c, M + N)
  <2>1. ASSUME NEW n \in 1 .. M + N PROVE c[n] \in Nat
    <3>1. n \in 1 .. M \/ (n - M \in 1 .. N /\ M + (n - M) = n)
      OBVIOUS
    <3>2. CASE n \in 1 .. M
      BY <3>2 DEF Nats, Joins
    <3>3. CASE n - M \in 1 .. N /\ M + (n - M) = n
      <4>1. c[M + (n - M)] = b[n - M]
        BY <3>3 DEF Joins
      <4> QED
        BY <3>3, <4>1 DEF Nats
    <3> QED
      BY <3>1, <3>2, <3>3
  <2> QED
    BY <2>1 DEF Nats
<1>2. M + N \in Nat /\ M \in 0 .. M + N /\ \A k \in 0 .. N : M + k \in 0 .. M + N /\ (k # N => M + k # M + N)
  OBVIOUS
<1>3. \A k \in 0 .. M + N : k # M + N => Sc(k + 1) = Sc(k) + c[k + 1]
  <2> DEFINE K == M + N
  <2>1. K \in Nat /\ Nats(c, K)
    BY <1>1, <1>2
  <2> HIDE DEF K
  <2>2. \A k \in 0 .. K : k # K => SumFunctionOnSet(c, 1 .. k + 1) = SumFunctionOnSet(c, 1 .. k) + c[k + 1]
    BY <2>1, SumUpTo
  <2> QED
    BY <2>2 DEF K
<1>4. /\ Sb(0) = 0
      /\ \A k \in 0 .. N : Sb(k) \in Nat /\ (k # N => Sb(k + 1) = Sb(k) + b[k + 1])
  BY SumUpTo
<1>5. sa \in Nat
  <2>1. M \in 0 .. M
    OBVIOUS
  <2> QED
    BY <2>1, SumUpTo
<1>6. Sc(M) = sa
  <2> DEFINE S == 1 .. M
  <2>1. IsFiniteSet(S) /\ \A n \in S : a[n] \in Nat
    BY FS_Interval DEF Nats
  <2>2. \A n \in S : c[n] = a[n]
    BY DEF Joins
  <2> HIDE DEF S
  <2>3. SumFunctionOnSet(c, S) = SumFunctionOnSet(a, S)
    BY <2>1, <2>2, SumOfSame
  <2> QED
    BY <2>3 DEF S
<1> HIDE DEF Sc, Sb, sa
<1>7. 0 \in P
  BY <1>4, <1>5, <1>6
<1>8. ASSUME NEW k \in 0 .. N, k # N, k \in P PROVE k + 1 \in P
  <2>1. k \in Nat /\ k + 1 \in 0 .. N /\ k + 1 \in 1 .. N /\ M + (k + 1) = (M + k) + 1
    BY <1>8
  <2>2. Sc((M + k) + 1) = Sc(M + k) + c[(M + k) + 1]
    BY <1>2, <1>3, <1>8
  <2>3. c[(M + k) + 1] = b[k + 1] /\ b[k + 1] \in Nat
    BY <2>1 DEF Nats, Joins
  <2>4. Sc(M + (k + 1)) = (sa + Sb(k)) + b[k + 1]
    BY <1>8, <2>1, <2>2, <2>3
  <2>5. Sb(k + 1) = Sb(k) + b[k + 1] /\ Sb(k) \in Nat
    BY <1>4, <1>8
  <2>6. Sc(M + (k + 1)) = sa + Sb(k + 1)
    BY <1>5, <2>3, <2>4, <2>5
  <2> QED
    BY <2>1, <2>6
<1>9. N \in P
  <2>1. N \in 0 .. N
    OBVIOUS
  <2> HIDE DEF P
  <2> QED
    BY <1>7, <1>8, <2>1, Climb
<1> QED
  BY <1>1, <1>9 DEF Sc, Sb, sa

LEMMA SumOfOne ==
    ASSUME NEW N \in Nat, NEW f, NEW m \in 1 .. N, f[m] \in Nat, \A n \in 1 .. N : n # m => f[n] = 0
    PROVE  SumFunctionOnSet(f, 1 .. N) = f[m]
<1> DEFINE Sum_(k) == SumFunctionOnSet(f, 1 .. k)
           P == {k \in 0 .. N : Sum_(k) = IF k < m THEN 0 ELSE f[m]}
<1>1. Nats(f, N)
  BY DEF Nats
<1>2. /\ Sum_(0) = 0
      /\ \A k \in 0 .. N : k # N => Sum_(k + 1) = Sum_(k) + f[k + 1]
  BY <1>1, SumUpTo
<1> HIDE DEF Sum_
<1>3. 0 \in P
  BY <1>2
<1>4. ASSUME NEW k \in 0 .. N, k # N, k \in P PROVE k + 1 \in P
  <2>1. k + 1 \in 1 .. N /\ k + 1 \in 0 .. N /\ k \in Nat
    BY <1>4
  <2>2. Sum_(k) = IF k < m THEN 0 ELSE f[m]
    BY <1>4
  <2>3. Sum_(k + 1) = Sum_(k) + f[k + 1]
    BY <1>2, <1>4
  <2>4. Sum_(k + 1) = IF k + 1 < m THEN 0 ELSE f[m]
    <3>1. CASE k + 1 = m
      BY <2>1, <2>2, <2>3, <3>1
    <3>2. CASE k + 1 # m
      <4>1. f[k + 1] = 0
        BY <2>1, <3>2
      <4>2. k + 1 < m <=> k < m
        BY <2>1, <3>2
      <4> QED
        BY <2>2, <2>3, <4>1, <4>2
    <3> QED
      BY <3>1, <3>2
  <2> QED
    BY <2>1, <2>4
<1>5. N \in P
  <2>1. N \in 0 .. N
    OBVIOUS
  <2> HIDE DEF P
  <2> QED
    BY <1>3, <1>4, <2>1, Climb
<1>6. ~(N < m)
  OBVIOUS
<1> QED
  BY <1>5, <1>6 DEF Sum_

\* p sends 1 .. N to all of 1 .. N.
Permutes(p, N) ==
    /\ p \in [1 .. N -> 1 .. N]
    /\ \A m, n \in 1 .. N : p[m] = p[n] => m = n
    /\ \A k \in 1 .. N : \E n \in 1 .. N : p[n] = k

LEMMA SumPermuted ==
    ASSUME NEW N \in Nat, NEW f, Nats(f, N), NEW p, Permutes(p, N), NEW e,
           \A n \in 1 .. N : e[n] = f[p[n]]
    PROVE  SumFunctionOnSet(e, 1 .. N) = SumFunctionOnSet(f, 1 .. N)
<1> DEFINE Img(n) == {p[m] : m \in 1 .. n}
           Se(n) == SumFunctionOnSet(e, 1 .. n)
           P == {n \in 0 .. N : Se(n) = SumFunctionOnSet(f, Img(n))}
<1>1. Nats(e, N)
  BY DEF Nats, Permutes
<1>2. Se(0) = 0 /\ \A n \in 0 .. N : n # N => Se(n + 1) = Se(n) + e[n + 1]
  BY <1>1, SumUpTo
<1> HIDE DEF Se
<1>3. 0 \in P
  <2>1. Img(0) = {} /\ 0 \in 0 .. N
    OBVIOUS
  <2>2. SumFunctionOnSet(f, {}) = 0
    BY SumOfNone
  <2> QED
    BY <1>2, <2>1, <2>2
<1>4. ASSUME NEW n \in 0 .. N, n # N, n \in P PROVE n + 1 \in P
  <2> DEFINE S == Img(n + 1)
             T == Img(n)
             x == p[n + 1]
  <2>1. n \in Nat /\ n + 1 \in 0 .. N /\ n + 1 \in 1 .. N
    BY <1>4
  <2>2. 1 .. n + 1 = (1 .. n) \cup {n + 1} /\ n + 1 \notin 1 .. n /\ 1 .. n + 1 \subseteq 1 .. N
    BY <2>1
  <2>3. S \subseteq 1 .. N /\ x \in S /\ S = T \cup {x}
    <3>1. \A m \in 1 .. N : p[m] \in 1 .. N
      BY DEF Permutes
    <3>2. S \subseteq 1 .. N
      BY <2>2, <3>1
    <3>3. x \in S
      BY <2>2
    <3>4. S = T \cup {x}
      <4> DEFINE D == 1 .. n + 1
                 E == 1 .. n
      <4> SUFFICES {p[m] : m \in D} = {p[m] : m \in E} \cup {p[n + 1]}
        OBVIOUS
      <4>1. D = E \cup {n + 1}
        BY <2>2
      <4> HIDE DEF D, E
      <4> QED
        BY <4>1
    <3> QED
      BY <3>2, <3>3, <3>4
  <2>4. x \notin T
    BY <2>1, <2>2 DEF Permutes
  <2>5. S \ {x} = T
    <3> HIDE DEF Img, x
    <3> QED
      BY <2>3, <2>4
  <2>6. IsFiniteSet(S) /\ \A m \in S : f[m] \in Nat
    <3>1. IsFiniteSet(1 .. N)
      BY FS_Interval
    <3> HIDE DEF Img
    <3> QED
      BY <2>3, <3>1, FS_Subset DEF Nats
  <2> HIDE DEF Img, x
  <2>7. SumFunctionOnSet(f, S) = f[x] + SumFunctionOnSet(f, S \ {x}) /\ SumFunctionOnSet(f, S \ {x}) \in Nat
    BY <2>3, <2>6, SumOfMore
  <2>8. e[n + 1] = f[x] /\ f[x] \in Nat
    BY <2>1, <2>3, <2>6 DEF x
  <2>9. Se(n + 1) = SumFunctionOnSet(f, T) + f[x]
    BY <1>2, <1>4, <2>8
  <2>10. Se(n + 1) = SumFunctionOnSet(f, S)
    BY <2>5, <2>7, <2>8, <2>9
  <2> QED
    BY <2>1, <2>10
<1>5. N \in P
  <2>1. N \in 0 .. N
    OBVIOUS
  <2> HIDE DEF P
  <2> QED
    BY <1>3, <1>4, <2>1, Climb
<1>6. Img(N) = 1 .. N
  BY DEF Permutes
<1> QED
  BY <1>5, <1>6 DEF Se

-----------------------------------------------------------------------------
(* Recursion along 1 .. N, and flattened sequences.                          *)

IsWalk(f, N, base, F) == f[0] = base /\ \A n \in 1 .. N : f[n] = F[n][f[n - 1]]

LEMMA WalkExists ==
    ASSUME NEW N \in Nat, NEW X, NEW base \in X, NEW F \in [1 .. N -> [X -> X]]
    PROVE  \E f \in [0 .. N -> X] : IsWalk(f, N, base, F)
<1>1. PICK g \in [SUBSET (1 .. N) -> X] : IsFold(g, N, base, F)
  BY FoldExists
<1> DEFINE f == [n \in 0 .. N |-> g[1 .. n]]
<1>2. f \in [0 .. N -> X]
  BY <1>1
<1>3. f[0] = base
  <2>1. 1 .. 0 = {} /\ 0 \in 0 .. N
    OBVIOUS
  <2> QED
    BY <1>1, <2>1 DEF IsFold
<1>4. ASSUME NEW n \in 1 .. N PROVE f[n] = F[n][f[n - 1]]
  <2> DEFINE s == 1 .. n
  <2>1. n - 1 \in Nat /\ (n - 1) + 1 = n /\ n \in 0 .. N /\ n - 1 \in 0 .. N
    OBVIOUS
  <2>2. Max(s) = n
    <3>1. Max(1 .. (n - 1) + 1) = (n - 1) + 1
      BY <2>1, HighestOfRange
    <3> QED
      BY <2>1, <3>1
  <2>3. s \in SUBSET (1 .. N) /\ s # {} /\ s \ {n} = 1 .. n - 1
    <3>1. n \in s
      BY <2>1
    <3>2. s \in SUBSET (1 .. N) /\ s \ {n} = 1 .. n - 1
      BY <2>1
    <3> QED
      BY <3>1, <3>2
  <2> HIDE DEF s
  <2>4. g[s] = F[n][g[1 .. n - 1]]
    BY <1>1, <2>2, <2>3 DEF IsFold
  <2> QED
    BY <2>1, <2>4 DEF s
<1> HIDE DEF f
<1> QED
  BY <1>2, <1>3, <1>4 DEF IsWalk

IsFlat(f, ss) ==
    /\ f[0] = <<>>
    /\ \A n \in 1 .. Len(ss) : f[n] = f[n - 1] \o ss[n]
    /\ FlattenSeq(ss) = f[Len(ss)]

LEMMA FlattenIs ==
    ASSUME NEW X, NEW ss \in Seq(Seq(X))
    PROVE  \E f \in [0 .. Len(ss) -> Seq(X)] : IsFlat(f, ss)
<1> DEFINE N == Len(ss)
           Y == Seq(X)
           F == [n \in 1 .. N |-> [s \in Y |-> s \o ss[n]]]
<1>0. N \in Nat /\ DOMAIN ss = 1 .. N /\ (\A n \in 1 .. N : ss[n] \in Y) /\ <<>> \in Y
  OBVIOUS
<1>1. \A n \in 1 .. N : F[n] = [s \in Y |-> s \o ss[n]] /\ \A s \in Y : F[n][s] = s \o ss[n] /\ s \o ss[n] \in Y
  BY <1>0
<1>2. F \in [1 .. N -> [Y -> Y]]
  <2> SUFFICES ASSUME NEW n \in 1 .. N PROVE [s \in Y |-> s \o ss[n]] \in [Y -> Y]
    OBVIOUS
  <2> QED
    BY <1>1
<1>3. PICK f \in [0 .. N -> Y] : IsWalk(f, N, <<>>, F)
  <2> HIDE DEF N, Y, F
  <2> QED
    BY <1>0, <1>2, WalkExists
<1>4. f[0] = <<>> /\ \A n \in 1 .. N : f[n] = f[n - 1] \o ss[n] /\ f[n - 1] \in Y
  <2>1. \A n \in 1 .. N : n - 1 \in 0 .. N
    BY <1>0
  <2>2. \A n \in 1 .. N : f[n - 1] \in Y
    BY <1>3, <2>1
  <2> HIDE DEF N, Y, F
  <2> QED
    BY <1>1, <1>3, <2>2 DEF IsWalk
<1>5. FlattenSeq(ss) = f[N]
  <2>1. CASE N = 0
    <3>1. ss = <<>>
      BY <2>1
    <3> QED
      BY <1>4, <2>1, <3>1 DEF FlattenSeq
  <2>2. CASE N # 0
    <3> DEFINE Eqn(g) == g = [i \in 1 .. N |-> IF i = 1 THEN ss[i] ELSE g[i - 1] \o ss[i]]
               it == CHOOSE g : Eqn(g)
               h == [i \in 1 .. N |-> f[i]]
    <3>1. FlattenSeq(ss) = it[N]
      BY <2>2 DEF FlattenSeq
    <3>2. Eqn(h)
      <4>1. ASSUME NEW i \in 1 .. N PROVE f[i] = IF i = 1 THEN ss[i] ELSE h[i - 1] \o ss[i]
        <5>1. CASE i = 1
          <6>1. ss[1] \in Seq(X) /\ 1 \in 1 .. N /\ 1 - 1 = 0
            BY <1>0, <5>1
          <6>2. f[1] = f[0] \o ss[1]
            <7> HIDE DEF N, Y
            <7> QED
              BY <1>4, <6>1
          <6>3. f[1] = ss[1]
            BY <1>4, <6>1, <6>2
          <6> QED
            BY <5>1, <6>3
        <5>2. CASE i # 1
          <6>1. i - 1 \in 1 .. N
            BY <5>2
          <6> QED
            BY <1>4, <5>2, <6>1
        <5> QED
          BY <5>1, <5>2
      <4> QED
        BY <4>1
    <3>3. Eqn(it)
      <4> HIDE DEF Eqn
      <4> QED
        BY <3>2
    <3>4. \A i \in 1 .. N : it[i] = IF i = 1 THEN ss[i] ELSE it[i - 1] \o ss[i]
      <4> HIDE DEF it
      <4> QED
        BY <3>3
    <3> HIDE DEF it
    <3> DEFINE P == {n \in 0 .. N : n # 0 => it[n] = f[n]}
    <3>5. 0 \in P
      BY <1>0
    <3>6. ASSUME NEW n \in 0 .. N, n # N, n \in P PROVE n + 1 \in P
      <4>1. n \in Nat /\ n + 1 \in 1 .. N /\ n + 1 \in 0 .. N /\ (n + 1) - 1 = n
        <5>1. n \in 0 .. N /\ n # N /\ N \in Nat
          BY <1>0, <3>6
        <5> HIDE DEF N, P
        <5> QED
          BY <5>1
      <4>2. f[n + 1] = f[n] \o ss[n + 1]
        BY <1>4, <4>1
      <4>3. CASE n = 0
        <5>1. it[n + 1] = ss[n + 1] /\ ss[n + 1] \in Seq(X)
          BY <1>0, <3>4, <4>1, <4>3
        <5>2. f[n + 1] = <<>> \o ss[n + 1]
          BY <1>4, <4>2, <4>3
        <5> QED
          BY <4>1, <5>1, <5>2
      <4>4. CASE n # 0
        <5>1. it[n + 1] = it[n] \o ss[n + 1]
          <6>1. n + 1 # 1
            BY <4>1, <4>4
          <6> QED
            BY <3>4, <4>1, <6>1
        <5> QED
          BY <3>6, <4>1, <4>2, <4>4, <5>1
      <4> QED
        BY <4>3, <4>4
    <3>7. N \in P
      <4>1. N \in 0 .. N
        BY <1>0
      <4> HIDE DEF P, N
      <4> QED
        BY <1>0, <3>5, <3>6, <4>1, Climb
    <3> QED
      BY <2>2, <3>1, <3>7
  <2> QED
    BY <2>1, <2>2
<1> HIDE DEF F
<1> QED
  BY <1>3, <1>4, <1>5 DEF IsFlat

-----------------------------------------------------------------------------
(* Total orders of finite sets.                                              *)

\* B, a set of pairs, orders the elements of S one after the other.
Orders(B, S) ==
    \A x, y, z \in S : /\ <<x, x>> \notin B
                       /\ <<x, y>> \in B /\ <<y, z>> \in B => <<x, z>> \in B
                       /\ x # y => <<x, y>> \in B \/ <<y, x>> \in B

Below(B, S, x) == {y \in S : <<y, x>> \in B}

\* What comes later has more before it.
LEMMA RankGrows ==
    ASSUME NEW S, IsFiniteSet(S), NEW B, Orders(B, S), NEW x \in S, NEW y \in S, <<x, y>> \in B
    PROVE  Cardinality(Below(B, S, x)) < Cardinality(Below(B, S, y))
<1>1. Below(B, S, x) \in SUBSET Below(B, S, y)
  BY DEF Below, Orders
<1>2. x \in Below(B, S, y) /\ x \notin Below(B, S, x)
  BY DEF Below, Orders
<1>3. IsFiniteSet(Below(B, S, y))
  <2>1. Below(B, S, y) \in SUBSET S
    BY DEF Below
  <2> QED
    BY <2>1, FS_Subset
<1>4. /\ Cardinality(Below(B, S, x)) <= Cardinality(Below(B, S, y))
      /\ Cardinality(Below(B, S, x)) # Cardinality(Below(B, S, y))
      /\ IsFiniteSet(Below(B, S, x))
  BY <1>1, <1>2, <1>3, FS_Subset
<1>5. Cardinality(Below(B, S, x)) \in Nat /\ Cardinality(Below(B, S, y)) \in Nat
  BY <1>3, <1>4, FS_CardinalityType
<1> QED
  BY <1>4, <1>5

\* The pigeonhole principle: as no two elements come after equally many, each number of
\* elements that can come before one does.
LEMMA RanksAreAll ==
    ASSUME NEW S, IsFiniteSet(S), NEW B, Orders(B, S)
    PROVE  /\ \A m \in 1 .. Cardinality(S) : \E x \in S : Cardinality(Below(B, S, x)) = m - 1
           /\ \A x \in S : Cardinality(Below(B, S, x)) \in 0 .. Cardinality(S) - 1
           /\ \A x, y \in S : x # y => Cardinality(Below(B, S, x)) # Cardinality(Below(B, S, y))
<1> DEFINE n == Cardinality(S)
           rank == [x \in S |-> Cardinality(Below(B, S, x))]
<1>1. n \in Nat
  BY FS_CardinalityType
<1>2. ASSUME NEW x \in S PROVE IsFiniteSet(Below(B, S, x)) /\ rank[x] \in 0 .. n - 1
  <2> DEFINE T == Below(B, S, x)
  <2>1. T \in SUBSET S /\ T \in SUBSET (S \ {x})
    BY DEF Below, Orders
  <2>2. IsFiniteSet(S \ {x}) /\ Cardinality(S \ {x}) = n - 1
    BY Fewer
  <2> HIDE DEF T
  <2>3. IsFiniteSet(T) /\ Cardinality(T) <= n - 1
    BY <2>1, <2>2, FS_Subset
  <2>4. Cardinality(T) \in Nat
    BY <2>3, FS_CardinalityType
  <2> QED
    BY <1>1, <2>3, <2>4 DEF T
<1>3. ASSUME NEW x \in S, NEW y \in S, <<x, y>> \in B PROVE rank[x] # rank[y]
  <2>1. Cardinality(Below(B, S, x)) < Cardinality(Below(B, S, y))
    BY <1>3, RankGrows
  <2>2. rank[x] < rank[y]
    BY <2>1
  <2>3. rank[x] \in 0 .. n - 1 /\ rank[y] \in 0 .. n - 1
    BY <1>2
  <2> QED
    BY <2>2, <2>3
<1>4. \A x, y \in S : x # y => rank[x] # rank[y]
  <2> SUFFICES ASSUME NEW x \in S, NEW y \in S, x # y PROVE rank[x] # rank[y]
    OBVIOUS
  <2>1. <<x, y>> \in B \/ <<y, x>> \in B
    BY DEF Orders
  <2> HIDE DEF rank
  <2> QED
    BY <1>3, <2>1
<1>5. ASSUME NEW m \in 1 .. n PROVE \E x \in S : rank[x] = m - 1
  <2> DEFINE Ranks == (0 .. n - 1) \ {m - 1}
  <2> SUFFICES ASSUME \A x \in S : rank[x] # m - 1 PROVE FALSE
    OBVIOUS
  <2>1. rank \in [S -> Ranks]
    BY <1>2
  <2>2. IsFiniteSet(Ranks) /\ Cardinality(Ranks) < n
    <3> HIDE DEF n
    <3>1. m - 1 \in 0 .. n - 1 /\ 0 \in Int /\ n - 1 \in Int /\ n # 0
      BY <1>1
    <3>2. IsFiniteSet(0 .. n - 1) /\ Cardinality(0 .. n - 1) = IF 0 > n - 1 THEN 0 ELSE n - 1 - 0 + 1
      BY ONLY <3>1, FS_Interval
    <3>3. Cardinality(0 .. n - 1) = n
      BY <1>1, <3>1, <3>2
    <3> DEFINE I == 0 .. n - 1
    <3>4. I \ {m - 1} = Ranks /\ m - 1 \in I /\ IsFiniteSet(I) /\ Cardinality(I) = n
      BY <3>1, <3>2, <3>3
    <3> HIDE DEF I, Ranks
    <3>5. IsFiniteSet(Ranks) /\ Cardinality(Ranks) = n - 1
      BY <3>4, Fewer
    <3> QED
      BY <1>1, <3>5
  <2>3. \E x, y \in S : x # y /\ rank[x] = rank[y]
    <3> HIDE DEF rank, Ranks
    <3> QED
      BY <2>1, <2>2, FS_PigeonHole
  <2> QED
    BY <1>4, <2>3
<1> QED
  BY <1>2, <1>4, <1>5

-----------------------------------------------------------------------------
(* What a flattened sequence holds, and sums over it.                        *)

LEMMA FlatTyped ==
    ASSUME NEW X, NEW ss \in Seq(Seq(X))
    PROVE  FlattenSeq(ss) \in Seq(X)
<1>1. PICK f \in [0 .. Len(ss) -> Seq(X)] : IsFlat(f, ss)
  BY FlattenIs
<1>2. Len(ss) \in 0 .. Len(ss)
  OBVIOUS
<1> QED
  BY <1>1, <1>2 DEF IsFlat

\* The elements of s are those of the sequences ss[1] to ss[n].
HoldsFirst(s, ss, n) ==
    /\ \A i \in DOMAIN s : \E k \in 1 .. n : \E m \in DOMAIN ss[k] : s[i] = ss[k][m]
    /\ \A k \in 1 .. n : \A m \in DOMAIN ss[k] : \E i \in DOMAIN s : s[i] = ss[k][m]

LEMMA HoldsMore ==
    ASSUME NEW X, NEW ss, NEW n \in Nat, NEW s \in Seq(X), HoldsFirst(s, ss, n), NEW t \in Seq(X),
           t = ss[n + 1]
    PROVE  HoldsFirst(s \o t, ss, n + 1)
<1>1. /\ DOMAIN s = 1 .. Len(s) /\ DOMAIN t = 1 .. Len(t) /\ Len(s) \in Nat /\ Len(t) \in Nat
      /\ DOMAIN (s \o t) = 1 .. Len(s) + Len(t)
      /\ \A i \in 1 .. Len(s) : (s \o t)[i] = s[i]
      /\ \A i \in 1 .. Len(t) : (s \o t)[Len(s) + i] = t[i]
  BY SMT
<1> DEFINE st == s \o t
<1> HIDE DEF st
<1>2. /\ \A i \in DOMAIN s : i \in DOMAIN st /\ st[i] = s[i]
      /\ \A i \in DOMAIN t : Len(s) + i \in DOMAIN st /\ st[Len(s) + i] = t[i]
      /\ \A i \in DOMAIN st : i \in DOMAIN s \/ (i - Len(s) \in DOMAIN t /\ st[i] = t[i - Len(s)])
  <2>1. ASSUME NEW i \in DOMAIN t PROVE Len(s) + i \in DOMAIN st /\ st[Len(s) + i] = t[i]
    BY <1>1 DEF st
  <2>2. ASSUME NEW i \in DOMAIN st, i \notin DOMAIN s
        PROVE  i - Len(s) \in DOMAIN t /\ st[i] = t[i - Len(s)]
    <3>1. i \in 1 .. Len(s) + Len(t) /\ i \notin 1 .. Len(s)
      BY <1>1, <2>2 DEF st
    <3>2. i - Len(s) \in 1 .. Len(t) /\ Len(s) + (i - Len(s)) = i
      BY <1>1, <3>1
    <3>3. st[Len(s) + (i - Len(s))] = t[i - Len(s)]
      BY <1>1, <2>1, <3>2
    <3> QED
      BY <1>1, <3>2, <3>3
  <2>3. ASSUME NEW i \in DOMAIN s PROVE i \in DOMAIN st /\ st[i] = s[i]
    BY <1>1 DEF st
  <2> QED
    BY <2>1, <2>2, <2>3
<1>3. n + 1 \in 1 .. n + 1 /\ 1 .. n + 1 = (1 .. n) \cup {n + 1}
  OBVIOUS
<1>4. ASSUME NEW i \in DOMAIN st PROVE \E k \in 1 .. n + 1 : \E m \in DOMAIN ss[k] : st[i] = ss[k][m]
  <2>1. CASE i \in DOMAIN s
    <3>1. PICK k \in 1 .. n : \E m \in DOMAIN ss[k] : s[i] = ss[k][m]
      BY <2>1 DEF HoldsFirst
    <3> QED
      BY <1>2, <1>3, <2>1, <3>1
  <2>2. CASE i - Len(s) \in DOMAIN t /\ st[i] = t[i - Len(s)]
    BY <1>3, <2>2
  <2> QED
    BY <1>2, <2>1, <2>2
<1>5. ASSUME NEW k \in 1 .. n + 1, NEW m \in DOMAIN ss[k] PROVE \E i \in DOMAIN st : st[i] = ss[k][m]
  <2>1. CASE k \in 1 .. n
    <3>1. PICK i \in DOMAIN s : s[i] = ss[k][m]
      BY <2>1 DEF HoldsFirst
    <3> QED
      BY <1>2, <3>1
  <2>2. CASE k = n + 1
    BY <1>2, <2>2
  <2> QED
    BY <1>3, <2>1, <2>2
<1> QED
  BY <1>4, <1>5 DEF HoldsFirst, st

LEMMA FlatHolds ==
    ASSUME NEW X, NEW ss \in Seq(Seq(X))
    PROVE  HoldsFirst(FlattenSeq(ss), ss, Len(ss))
<1>1. PICK f \in [0 .. Len(ss) -> Seq(X)] : IsFlat(f, ss)
  BY FlattenIs
<1> DEFINE N == Len(ss)
           P == {n \in 0 .. N : HoldsFirst(f[n], ss, n)}
<1>2. N \in Nat /\ \A n \in 1 .. N : ss[n] \in Seq(X)
  OBVIOUS
<1>3. f \in [0 .. N -> Seq(X)] /\ f[0] = <<>> /\ (\A n \in 1 .. N : f[n] = f[n - 1] \o ss[n])
      /\ FlattenSeq(ss) = f[N]
  BY <1>1 DEF IsFlat
<1> HIDE DEF N
<1>4. 0 \in P
  <2>1. 1 .. 0 = {} /\ DOMAIN <<>> = {} /\ 0 \in 0 .. N
    BY <1>2
  <2> QED
    BY <1>3, <2>1 DEF HoldsFirst
<1>5. ASSUME NEW n \in 0 .. N, n # N, n \in P PROVE n + 1 \in P
  <2>1. n \in Nat /\ n + 1 \in 1 .. N /\ n + 1 \in 0 .. N /\ (n + 1) - 1 = n
    BY <1>2, <1>5
  <2> DEFINE s == f[n]
             t == ss[n + 1]
  <2>2. s \in Seq(X) /\ t \in Seq(X) /\ HoldsFirst(s, ss, n) /\ f[n + 1] = s \o t
    BY <1>2, <1>3, <1>5, <2>1
  <2>3. HoldsFirst(s \o t, ss, n + 1)
    <3>1. t = ss[n + 1]
      OBVIOUS
    <3> HIDE DEF s, t, P
    <3> QED
      BY <2>1, <2>2, <3>1, HoldsMore
  <2> QED
    BY <2>1, <2>2, <2>3
<1>6. N \in P
  <2>1. N \in 0 .. N
    BY <1>2
  <2> HIDE DEF P
  <2> QED
    BY <1>2, <1>4, <1>5, <2>1, Climb
<1> QED
  BY <1>3, <1>6 DEF N

\* The weights of the elements of a sequence, added.
SumOver(w, s) == SumFunctionOnSet([n \in DOMAIN s |-> w[s[n]]], DOMAIN s)

LEMMA SumOverBoth ==
    ASSUME NEW X, NEW w \in [X -> Nat], NEW s \in Seq(X), NEW t \in Seq(X)
    PROVE  /\ SumOver(w, s) \in Nat
           /\ SumOver(w, s \o t) = SumOver(w, s) + SumOver(w, t)
<1> DEFINE M == Len(s)
           N == Len(t)
           a == [n \in DOMAIN s |-> w[s[n]]]
           b == [n \in DOMAIN t |-> w[t[n]]]
           c == [n \in DOMAIN (s \o t) |-> w[(s \o t)[n]]]
<1>1. /\ DOMAIN s = 1 .. M /\ DOMAIN t = 1 .. N /\ M \in Nat /\ N \in Nat
      /\ DOMAIN (s \o t) = 1 .. M + N
      /\ \A i \in 1 .. M : (s \o t)[i] = s[i]
      /\ \A i \in 1 .. N : (s \o t)[M + i] = t[i]
      /\ \A i \in 1 .. M : s[i] \in X
      /\ \A i \in 1 .. N : t[i] \in X
  BY SMT
<1>2. Nats(a, M)
  <2> HIDE DEF M, N
  <2> QED
    BY <1>1 DEF Nats
<1>3. Nats(b, N)
  <2> HIDE DEF M, N
  <2> QED
    BY <1>1 DEF Nats
<1>4. Joins(c, a, M, b, N)
  <2> HIDE DEF M, N
  <2>1. ASSUME NEW n \in 1 .. M PROVE c[n] = a[n]
    <3>1. n \in 1 .. M + N
      BY <1>1
    <3> QED
      BY <1>1, <3>1
  <2>2. ASSUME NEW n \in 1 .. N PROVE c[M + n] = b[n]
    <3>1. M + n \in 1 .. M + N
      BY <1>1
    <3> QED
      BY <1>1, <3>1
  <2> QED
    BY <2>1, <2>2 DEF Joins
<1> HIDE DEF a, b, c, M, N
<1>5. SumFunctionOnSet(c, 1 .. M + N) = SumFunctionOnSet(a, 1 .. M) + SumFunctionOnSet(b, 1 .. N)
  <2>1. M \in Nat /\ N \in Nat
    BY <1>1
  <2> QED
    BY <1>2, <1>3, <1>4, <2>1, SumOfBoth
<1>6. SumFunctionOnSet(a, 1 .. M) \in Nat
  <2>1. M \in 0 .. M
    BY <1>1
  <2> QED
    BY <1>1, <1>2, <2>1, SumUpTo
<1> QED
  BY <1>1, <1>5, <1>6 DEF SumOver, a, b, c

LEMMA SumOverFlat ==
    ASSUME NEW X, NEW w \in [X -> Nat], NEW ss \in Seq(Seq(X))
    PROVE  SumOver(w, FlattenSeq(ss))
             = SumFunctionOnSet([n \in DOMAIN ss |-> SumOver(w, ss[n])], 1 .. Len(ss))
<1>1. PICK f \in [0 .. Len(ss) -> Seq(X)] : IsFlat(f, ss)
  BY FlattenIs
<1> DEFINE N == Len(ss)
           e == [n \in DOMAIN ss |-> SumOver(w, ss[n])]
           Se(n) == SumFunctionOnSet(e, 1 .. n)
           P == {n \in 0 .. N : SumOver(w, f[n]) = Se(n)}
<1>2. N \in Nat /\ DOMAIN ss = 1 .. N /\ \A n \in 1 .. N : ss[n] \in Seq(X)
  OBVIOUS
<1>3. f \in [0 .. N -> Seq(X)] /\ f[0] = <<>> /\ (\A n \in 1 .. N : f[n] = f[n - 1] \o ss[n])
      /\ FlattenSeq(ss) = f[N]
  BY <1>1 DEF IsFlat
<1> HIDE DEF N
<1>4. \A n \in 1 .. N : e[n] = SumOver(w, ss[n])
  BY <1>2
<1>5. Nats(e, N)
  BY <1>2, <1>4, SumOverBoth DEF Nats
<1> HIDE DEF e
<1>6. Se(0) = 0 /\ \A n \in 0 .. N : n # N => Se(n + 1) = Se(n) + e[n + 1]
  BY <1>2, <1>5, SumUpTo
<1> HIDE DEF Se
<1>7. 0 \in P
  <2>1. DOMAIN <<>> = {} /\ 0 \in 0 .. N
    BY <1>2
  <2>2. SumOver(w, <<>>) = 0
    BY <2>1, SumOfNone DEF SumOver
  <2> QED
    BY <1>3, <1>6, <2>1, <2>2
<1>8. ASSUME NEW n \in 0 .. N, n # N, n \in P PROVE n + 1 \in P
  <2>1. n \in Nat /\ n + 1 \in 1 .. N /\ n + 1 \in 0 .. N /\ (n + 1) - 1 = n
    BY <1>2, <1>8
  <2> DEFINE s == f[n]
             t == ss[n + 1]
  <2>2. s \in Seq(X) /\ t \in Seq(X) /\ f[n + 1] = s \o t /\ SumOver(w, s) = Se(n)
    BY <1>2, <1>3, <1>8, <2>1
  <2>3. Se(n + 1) = Se(n) + SumOver(w, t)
    BY <1>4, <1>6, <1>8, <2>1
  <2>4. SumOver(w, s \o t) = SumOver(w, s) + SumOver(w, t)
    <3> HIDE DEF s, t, P
    <3> QED
      BY <2>2, SumOverBoth
  <2> QED
    BY <2>1, <2>2, <2>3, <2>4
<1>9. N \in P
  <2>1. N \in 0 .. N
    BY <1>2
  <2> HIDE DEF P
  <2> QED
    BY <1>2, <1>7, <1>8, <2>1, Climb
<1> QED
  BY <1>3, <1>9 DEF N, Se, e

\* A walk of L steps among at most L places, that goes on in the same way from the same place,
\* ends where it was before.
LEMMA WalkReturns ==
    ASSUME NEW L \in Nat, NEW S, IsFiniteSet(S), Cardinality(S) <= L, NEW f \in [0 .. L -> S],
           \A i, j \in 0 .. L : i # L /\ j # L /\ f[i] = f[j] => f[i + 1] = f[j + 1]
    PROVE  \E k \in 0 .. L : k # L /\ f[L] = f[k]
<1>1. \E x, y \in 0 .. L : x # y /\ f[x] = f[y]
  <2>1. IsFiniteSet(0 .. L) /\ Cardinality(0 .. L) = L + 1
    <3>1. Cardinality(0 .. L) = IF 0 > L THEN 0 ELSE L - 0 + 1
      BY FS_Interval
    <3> QED
      BY <3>1, FS_Interval
  <2>2. Cardinality(S) \in Nat
    BY FS_CardinalityType
  <2>3. Cardinality(S) < Cardinality(0 .. L)
    BY <2>1, <2>2
  <2> QED
    BY <2>1, <2>3, FS_PigeonHole
<1>2. PICK i \in 0 .. L, j \in 0 .. L : i < j /\ f[i] = f[j]
  <2>1. PICK x \in 0 .. L, y \in 0 .. L : x # y /\ f[x] = f[y]
    BY <1>1
  <2>2. x < y \/ y < x
    BY <2>1
  <2> QED
    BY <2>1, <2>2
<1> DEFINE N == L - j
           P == {t \in 0 .. N : f[i + t] = f[j + t]}
<1>3. N \in Nat /\ i + N \in 0 .. L /\ i + N # L /\ j + N = L
  BY <1>2
<1>4. 0 \in P
  BY <1>2, <1>3
<1>5. ASSUME NEW t \in 0 .. N, t # N, t \in P PROVE t + 1 \in P
  <2>1. i + t \in 0 .. L /\ j + t \in 0 .. L /\ i + t # L /\ j + t # L /\ t + 1 \in 0 .. N
    BY <1>2, <1>3, <1>5
  <2>2. f[i + t + 1] = f[j + t + 1]
    BY <1>5, <2>1
  <2>3. i + (t + 1) = i + t + 1 /\ j + (t + 1) = j + t + 1
    BY <2>1
  <2> QED
    BY <2>1, <2>2, <2>3
<1>6. N \in P
  <2>1. N \in 0 .. N
    BY <1>3
  <2> HIDE DEF P, N
  <2> QED
    BY <1>3, <1>4, <1>5, <2>1, Climb
<1> QED
  BY <1>3, <1>6

\* Of parts that are empty but one, that one is left.
LEMMA FlatOne ==
    ASSUME NEW X, NEW ss \in Seq(Seq(X)), NEW m \in 1 .. Len(ss),
           \A n \in 1 .. Len(ss) : n # m => ss[n] = <<>>
    PROVE  FlattenSeq(ss) = ss[m]
<1> DEFINE N == Len(ss)
<1>1. N \in Nat /\ ss[m] \in Seq(X)
  BY DEF N
<1>2. PICK f \in [0 .. N -> Seq(X)] : IsFlat(f, ss)
  BY FlattenIs
<1> DEFINE P == {n \in 0 .. N : f[n] = IF n < m THEN <<>> ELSE ss[m]}
<1>3. 0 \in P
  BY <1>1, <1>2 DEF IsFlat
<1>4. ASSUME NEW n \in 0 .. N, n # N, n \in P PROVE n + 1 \in P
  <2>1. n + 1 \in 1 .. N /\ (n + 1) - 1 = n
    BY <1>1, <1>4
  <2>2. f[n + 1] = f[n] \o ss[n + 1] /\ f[n] \in Seq(X)
    BY <1>2, <2>1 DEF IsFlat
  <2>3. CASE n + 1 = m
    <3>1. f[n] = <<>>
      BY <1>4, <2>1, <2>3
    <3> DEFINE s == ss[m]
    <3>2. f[n + 1] = <<>> \o s /\ s \in Seq(X)
      BY <1>1, <2>2, <2>3, <3>1
    <3> HIDE DEF s
    <3>3. f[n + 1] = s
      BY <3>2
    <3> QED
      BY <2>1, <2>3, <3>3 DEF s
  <2>4. CASE n + 1 # m
    <3>1. ss[n + 1] = <<>>
      BY <2>1, <2>4
    <3>2. f[n + 1] = f[n]
      BY <2>2, <3>1
    <3>3. n + 1 < m <=> n < m
      BY <2>1, <2>4
    <3> QED
      BY <1>4, <2>1, <3>2, <3>3
  <2> QED
    BY <2>3, <2>4
<1>5. N \in P
  <2>1. N \in 0 .. N
    BY <1>1
  <2> HIDE DEF P, N
  <2> QED
    BY <1>1, <1>3, <1>4, <2>1, Climb
<1>6. ~(N < m)
  BY <1>1
<1> QED
  BY <1>2, <1>5, <1>6 DEF IsFlat
=============================================================================
