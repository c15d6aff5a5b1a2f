--------------------------- MODULE AclRules_proofs --------------------------
(***************************************************************************)
(* Theorems about the analysis of access rules, for any list of values,    *)
(* any entries and any users.                                              *)
(***************************************************************************)
EXTENDS AclRules, FoldLemmas, SequenceTheorems

DN == Seq(STRING)
Parsed == {r \in {ParseAcl(v) : v \in Values} : r.bys # <<>>}
Bounded(R) == DOMAIN R \subseteq Nat /\ \A m \in DOMAIN R : DOMAIN R[m].bys \subseteq 1 .. MaxClauses

LEMMA ParsedIsBounded == ASSUME NEW R \in Seq(Parsed) PROVE Bounded(R)
BY ValuesAssumption DEF Parsed, Bounded

-----------------------------------------------------------------------------
(* A rule that covers another matches whatever the other matches.            *)

LEMMA AncestorIsTransitive ==
    ASSUME NEW a \in DN, NEW b \in DN, NEW c \in DN,
           AncestorOrSelf(a, b), AncestorOrSelf(b, c)
    PROVE  AncestorOrSelf(a, c)
<1>1. CASE a = b \/ b = c
  BY <1>1
<1>2. CASE a # b /\ b # c
  <2>1. /\ a # <<>> /\ Len(a) <= Len(b) /\ Len(b) <= Len(c)
        /\ \A k \in 1 .. Len(a) : b[Len(b) - Len(a) + k] = a[k]
        /\ \A k \in 1 .. Len(b) : c[Len(c) - Len(b) + k] = b[k]
    BY <1>2 DEF AncestorOrSelf
  <2>2. Len(a) \in Nat /\ Len(b) \in Nat /\ Len(c) \in Nat
    BY DEF DN
  <2>3. ASSUME NEW k \in 1 .. Len(a) PROVE c[Len(c) - Len(a) + k] = a[k]
    <3> DEFINE m == Len(b) - Len(a) + k
    <3>1. m \in 1 .. Len(b)
      BY <2>1, <2>2
    <3>2. c[Len(c) - Len(b) + m] = b[m]
      BY <2>1, <3>1
    <3>3. Len(c) - Len(b) + m = Len(c) - Len(a) + k
      BY <2>2
    <3> QED
      BY <2>1, <3>2, <3>3
  <2> QED
    BY <2>1, <2>2, <2>3 DEF AncestorOrSelf
<1> QED
  BY <1>1, <1>2

LEMMA AncestorIsAntisymmetric ==
    ASSUME NEW a \in DN, NEW b \in DN, AncestorOrSelf(a, b), AncestorOrSelf(b, a)
    PROVE  a = b
<1> SUFFICES ASSUME a # b PROVE FALSE
  OBVIOUS
<1>1. /\ Len(a) <= Len(b) /\ Len(b) <= Len(a)
      /\ \A k \in 1 .. Len(a) : b[Len(b) - Len(a) + k] = a[k]
  BY DEF AncestorOrSelf
<1>2. Len(a) \in Nat /\ Len(b) \in Nat
  BY DEF DN
<1>3. Len(a) = Len(b)
  BY <1>1, <1>2
<1>4. \A k \in 1 .. Len(a) : b[k] = a[k]
  BY <1>1, <1>2, <1>3
<1> QED
  BY <1>3, <1>4 DEF DN

LEMMA ScopeCoversScope ==
    ASSUME NEW a \in DN, NEW b \in DN, NEW t \in DN, NEW kind, NEW kindB,
           ScopeCovers(kind, a, kindB, b), InScope(kindB, b, t)
    PROVE  InScope(kind, a, t)
<1>1. CASE kind = ""
  BY <1>1 DEF InScope
<1>2. CASE kind # "" /\ kindB = ""
  BY <1>2 DEF ScopeCovers
<1>3. CASE kind = "dn.base" /\ kindB # ""
  BY <1>3 DEF ScopeCovers, InScope
<1>4. ASSUME kindB # "" PROVE AncestorOrSelf(b, t)
  BY <1>4 DEF InScope, ChildOf, AncestorOrSelf
<1>5. CASE kind = "dn.subtree" /\ kindB # ""
  BY <1>4, <1>5, AncestorIsTransitive DEF ScopeCovers, InScope
<1>6. CASE kind = "dn.one" /\ kindB # ""
  BY <1>6 DEF ScopeCovers, InScope
<1>7. CASE kind = "dn.children" /\ kindB # ""
  <2>1. CASE kindB = "dn.base"
    BY <1>7, <2>1 DEF ScopeCovers, InScope
  <2>2. CASE kindB # "dn.base"
    <3>1. kindB \in {"dn.one", "dn.children"} /\ AncestorOrSelf(a, b)
      BY <1>7, <2>2 DEF ScopeCovers
    <3>2. t # b /\ AncestorOrSelf(b, t)
      BY <3>1 DEF InScope, ChildOf
    <3>3. AncestorOrSelf(a, t)
      BY <3>1, <3>2, AncestorIsTransitive
    <3>4. t # a
      BY <3>1, <3>2, AncestorIsAntisymmetric
    <3> QED
      BY <1>7, <3>3, <3>4 DEF InScope
  <2> QED
    BY <2>1, <2>2
<1>8. CASE kind \notin {"", "dn.base", "dn.subtree", "dn.one", "dn.children"} /\ kindB # ""
  BY <1>8 DEF ScopeCovers
<1> QED
  BY <1>1, <1>2, <1>3, <1>5, <1>6, <1>7, <1>8

LEMMA CoveredTargetMatches ==
    ASSUME NEW r, NEW s, r.dn \in DN, s.dn \in DN, NEW q, q.target \in DN,
           TargetCovers(r, s), TargetMatches(s, q)
    PROVE  TargetMatches(r, q)
<1>1. InScope(s.kind, s.dn, q.target) /\ (s.attrs = {} \/ q.attr \in s.attrs)
  BY DEF TargetCovers, TargetMatches
<1>2. InScope(r.kind, r.dn, q.target)
  BY <1>1, ScopeCoversScope DEF TargetCovers
<1>3. r.attrs = {} \/ q.attr \in r.attrs
  BY <1>1 DEF TargetCovers
<1> QED
  BY <1>2, <1>3 DEF TargetMatches

LEMMA CoveredSubjectMatches ==
    ASSUME NEW a, NEW b, NEW q, SubjectCovers(a, b), SubjectMatches(b, q)
    PROVE  SubjectMatches(a, q)
BY DEF SubjectCovers, SubjectMatches

\* A clause that an earlier rule covers decides nothing where the connection meets the
\* selector of the clause that covers it.
LEMMA CoveredNeverDecides ==
    ASSUME NEW R \in Seq(Parsed), NEW m \in DOMAIN R, NEW l \in DOMAIN R, m < l,
           TargetCovers(R[m], R[l]), NEW q \in Requests, NEW n, Shadows(R[m], R[l], n, q)
    PROVE  ~Decides(R, q, l, n)
<1> SUFFICES ASSUME Decides(R, q, l, n) PROVE FALSE
  OBVIOUS
<1>1. Matches(R, q, l, n) /\ n \in DOMAIN R[l].bys
  BY DEF Decides
<1>2. PICK o \in DOMAIN R[m].bys : /\ SubjectCovers(R[m].bys[o].subject, R[l].bys[n].subject)
                                  /\ Meets(R[m].bys[o], q)
  BY DEF Shadows
<1>3. R[m].dn \in DN /\ R[l].dn \in DN
  BY ValuesAssumption DEF Parsed, DN
<1>4. q.target \in DN
  BY DNsAssumption DEF Requests, DN
<1>5. TargetMatches(R[m], q)
  BY <1>1, <1>3, <1>4, CoveredTargetMatches DEF Matches
<1>6. SubjectMatches(R[m].bys[o].subject, q)
  BY <1>1, <1>2, CoveredSubjectMatches DEF Matches
<1>7. Matches(R, q, m, o)
  BY <1>2, <1>5, <1>6 DEF Matches
<1>8. l < m \/ l = m
  BY <1>7 DEF Decides
<1>9. m \in Nat /\ l \in Nat
  OBVIOUS
<1> QED
  BY <1>8, <1>9

-----------------------------------------------------------------------------
(* Some clause decides whenever some clause matches: there is a first one.   *)

LEMMA GreatestOfRange ==
    ASSUME NEW n \in Nat, NEW S \in SUBSET (1 .. n), S # {}
    PROVE  \E l \in S : \A m \in S : m <= l
<1> DEFINE below == {n - l : l \in S}
<1>1. below \in SUBSET Nat /\ below # {}
  <2>1. ASSUME NEW l \in S PROVE n - l \in Nat
    OBVIOUS
  <2>2. PICK l \in S : TRUE
    OBVIOUS
  <2>3. n - l \in below
    BY <2>2
  <2> QED
    BY <2>1, <2>3
<1> HIDE DEF below
<1>2. PICK k \in below : \A m \in below : k <= m
  BY <1>1, LeastNumber
<1>3. PICK l \in S : k = n - l
  BY DEF below
<1>4. \A m \in S : n - m \in below
  BY DEF below
<1>5. ASSUME NEW m \in S PROVE m <= l
  BY <1>2, <1>3, <1>4
<1> QED
  BY <1>5

LEMMA SomeClauseDecides ==
    ASSUME NEW R, Bounded(R), NEW q, NEW m \in DOMAIN R, NEW n \in DOMAIN R[m].bys,
           Matches(R, q, m, n)
    PROVE  \E l \in DOMAIN R : \E o \in DOMAIN R[l].bys : Decides(R, q, l, o)
<1> DEFINE matching == {l \in DOMAIN R : \E o \in DOMAIN R[l].bys : Matches(R, q, l, o)}
<1>1. matching \in SUBSET Nat /\ matching # {}
  BY DEF Bounded
<1>2. PICK l \in matching : \A k \in matching : l <= k
  BY <1>1, LeastNumber
<1> DEFINE clauses == {o \in DOMAIN R[l].bys : Matches(R, q, l, o)}
<1>3. DOMAIN R[l].bys \subseteq 1 .. MaxClauses
  BY DEF Bounded
<1>4. clauses \in SUBSET Nat /\ clauses # {}
  BY <1>3, MaxRulesAssumption
<1>5. PICK o \in clauses : \A k \in clauses : o <= k
  BY <1>4, LeastNumber
<1>6. ASSUME NEW x \in DOMAIN R, NEW y \in DOMAIN R[x].bys, Matches(R, q, x, y)
      PROVE  l < x \/ (l = x /\ o <= y)
  <2>1. x \in matching /\ l <= x
    BY <1>2, <1>6
  <2>2. x = l => o <= y
    BY <1>5, <1>6
  <2> QED
    BY <1>1, <2>1, <2>2
<1> HIDE DEF matching, clauses
<1>7. l \in DOMAIN R /\ o \in DOMAIN R[l].bys /\ Matches(R, q, l, o)
  BY DEF matching, clauses
<1> QED
  BY <1>6, <1>7 DEF Decides

\* Only one clause decides.
LEMMA OneClauseDecides ==
    ASSUME NEW R, Bounded(R), NEW q,
           NEW m, NEW n, NEW l, NEW o, Decides(R, q, m, n), Decides(R, q, l, o)
    PROVE  m = l /\ n = o
<1>1. /\ m \in DOMAIN R /\ n \in DOMAIN R[m].bys /\ Matches(R, q, m, n)
      /\ l \in DOMAIN R /\ o \in DOMAIN R[l].bys /\ Matches(R, q, l, o)
      /\ m < l \/ (m = l /\ n <= o)
      /\ l < m \/ (l = m /\ o <= n)
  BY DEF Decides
<1>2. m \in Nat /\ l \in Nat
  BY <1>1 DEF Bounded
<1>3. n \in Nat /\ o \in Nat
  BY <1>1, MaxRulesAssumption DEF Bounded
<1> QED
  BY <1>1, <1>2, <1>3

-----------------------------------------------------------------------------
(* The invariant: what is reported is covered, and of the rules gone over    *)
(* those that are not masked are written out, in their order.                *)

Sound(c) ==
    /\ c.kind \in {"Uncertain", "Masked", "Order"}
    /\ c.first \in DOMAIN rules /\ c.second \in DOMAIN rules
    /\ c.kind # "Uncertain" => c.first < c.second /\ TargetCovers(rules[c.first], rules[c.second])
    /\ c.kind = "Masked" => ClausesCovered(rules[c.first], rules[c.second]) = DOMAIN rules[c.second].bys
    /\ c.kind = "Order" => c.clause \in ClausesCovered(rules[c.first], rules[c.second])

\* The rules before i that are not masked are written out, in their order.
KeptInOrder ==
    /\ \A k, m \in DOMAIN kept : k < m => kept[k] < kept[m]
    /\ \A k \in DOMAIN kept : kept[k] < i /\ ~Dead(kept[k])
    /\ \A l \in DOMAIN rules : l < i /\ ~Dead(l) => \E k \in DOMAIN kept : kept[k] = l

IInv ==
    /\ values \in Seq(Values)
    /\ rules \in Seq(Parsed)
    /\ phase \in {"parse", "compare", "write"}
    /\ i \in Nat \ {0} /\ j \in Nat
    /\ \A c \in conflicts : Sound(c)
    /\ phase = "parse" => conflicts = {}
    /\ phase = "compare" => i < j
    /\ kept \in Seq(DOMAIN rules)
    /\ IF phase = "write" THEN KeptInOrder ELSE kept = <<>>

LEMMA UncertainIsSound ==
    ASSUME rules \in Seq(Parsed), NEW c \in UncertainRules
    PROVE  Sound(c)
<1>1. PICK m \in DOMAIN rules :
          /\ rules[m].complex
          /\ c = [kind |-> "Uncertain", first |-> m,
                  second |-> CHOOSE l \in Alike(m) : \A o \in Alike(m) : o <= l,
                  clause |-> 0, against |-> Against(m)]
  BY DEF UncertainRules
<1>2. Alike(m) \in SUBSET (1 .. Len(rules)) /\ Alike(m) # {} /\ Len(rules) \in Nat
  BY <1>1 DEF Alike
<1>3. \E l \in Alike(m) : \A o \in Alike(m) : o <= l
  BY <1>2, GreatestOfRange
<1>4. c.second \in Alike(m)
  BY <1>1, <1>3
<1> QED
  BY <1>1, <1>4 DEF Sound, Alike

LEMMA ConflictIsSound ==
    ASSUME rules \in Seq(Parsed), NEW m \in DOMAIN rules, NEW l \in DOMAIN rules, m < l,
           NEW c \in ConflictsOf(rules[m], rules[l], m, l)
    PROVE  Sound(c)
<1>1. TargetCovers(rules[m], rules[l])
  BY DEF ConflictsOf
<1>2. CASE /\ ClausesCovered(rules[m], rules[l]) = DOMAIN rules[l].bys
           /\ c = Masked(m, l)
  BY <1>1, <1>2 DEF Masked, None, Sound
<1>3. CASE \E n \in ClausesCovered(rules[m], rules[l]) : c = Order(m, l, n)
  BY <1>1, <1>3 DEF Order, Masked, None, Sound
<1> QED
  BY <1>2, <1>3 DEF ConflictsOf

LEMMA InitIInv == Init => IInv
<1> SUFFICES ASSUME Init PROVE IInv
  OBVIOUS
<1>1. values \in Seq(Values)
  BY MaxRulesAssumption DEF Init
<1>2. rules \in Seq(Parsed)
  BY DEF Init
<1> QED
  BY <1>1, <1>2 DEF Init, IInv

LEMMA StepIInv == IInv /\ [Next]_vars => IInv'
<1> SUFFICES ASSUME IInv, [Next]_vars PROVE IInv'
  OBVIOUS
<1> USE DEF IInv
<1>1. CASE Parse
  <2>1. ParseAcl(values[i]).bys # <<>> => ParseAcl(values[i]) \in Parsed
    BY <1>1 DEF Parse, Parsed
  <2>2. rules' \in Seq(Parsed)
    BY <1>1, <2>1 DEF Parse
  <2>3. kept' = <<>> /\ phase' = "parse" /\ conflicts' = {} /\ i' = i + 1 /\ j' = j /\ values' = values
    BY <1>1 DEF Parse
  <2> QED
    BY <2>2, <2>3
<1>2. CASE Complex
  <2>1. \A c \in conflicts' : Sound(c)'
    BY <1>2, UncertainIsSound DEF Complex, Sound
  <2>2. i' < j'
    BY <1>2 DEF Complex, First
  <2> QED
    BY <1>2, <2>1, <2>2 DEF Complex, First
<1>3. CASE Compare
  <2>1. CASE j <= Len(rules)
    <3>1. i \in DOMAIN rules /\ j \in DOMAIN rules /\ i < j
      BY <1>3, <2>1 DEF Compare
    <3>2. \A c \in ConflictsOf(rules[i], rules[j], i, j) : Sound(c)
      BY <3>1, ConflictIsSound
    <3>3. \A c \in conflicts' : Sound(c)'
      BY <1>3, <2>1, <3>2 DEF Compare, Sound
    <3> QED
      BY <1>3, <2>1, <3>3 DEF Compare
  <2>2. CASE ~(j <= Len(rules))
    <3>1. i' < j'
      BY <1>3, <2>2 DEF Compare, First
    <3>2. \A c \in conflicts' : Sound(c)'
      BY <1>3, <2>2 DEF Compare, Sound
    <3> QED
      BY <1>3, <2>2, <3>1, <3>2 DEF Compare, First
  <2> QED
    BY <2>1, <2>2
<1>4. CASE Rewrite
  <2>1. \A c \in conflicts' : Sound(c)'
    BY <1>4 DEF Rewrite, Sound
  <2>2. kept' = <<>> /\ i' = 1 /\ rules' = rules /\ DOMAIN rules \subseteq Nat \ {0}
    BY <1>4 DEF Rewrite
  <2>3. KeptInOrder'
    BY <2>2 DEF KeptInOrder
  <2> QED
    BY <1>4, <2>1, <2>2, <2>3 DEF Rewrite
<1>5. CASE Write
  <2>1. \A c \in conflicts' : Sound(c)'
    BY <1>5 DEF Write, Sound
  <2>2. i \in DOMAIN rules /\ i' = i + 1 /\ rules' = rules /\ KeptInOrder /\ conflicts' = conflicts
    BY <1>5 DEF Write
  <2>3. kept' \in Seq(DOMAIN rules') /\ KeptInOrder'
    <3>1. CASE Dead(i)
      <4>1. kept' = kept
        BY <1>5, <3>1 DEF Write
      <4>2. \A l \in DOMAIN rules : l < i + 1 /\ ~Dead(l) => l < i
        BY <2>2, <3>1
      <4>3. \A k \in DOMAIN kept : kept[k] < i + 1
        BY <2>2 DEF KeptInOrder
      <4> QED
        BY <2>2, <4>1, <4>2, <4>3 DEF KeptInOrder, Dead
    <3>2. CASE ~Dead(i)
      <4>1. kept' = Append(kept, i) /\ kept' \in Seq(DOMAIN rules)
        BY <1>5, <2>2, <3>2 DEF Write
      <4>2. /\ Len(kept) \in Nat /\ DOMAIN kept = 1 .. Len(kept)
            /\ DOMAIN kept' = 1 .. Len(kept) + 1 /\ kept'[Len(kept) + 1] = i
            /\ \A k \in 1 .. Len(kept) : kept'[k] = kept[k] /\ kept[k] \in Nat /\ kept[k] < i
        BY <2>2, <4>1 DEF KeptInOrder
      <4>3. ASSUME NEW k \in DOMAIN kept', NEW m \in DOMAIN kept', k < m PROVE kept'[k] < kept'[m]
        <5>1. k \in DOMAIN kept
          BY <4>2, <4>3
        <5>2. CASE m = Len(kept) + 1
          BY <4>2, <5>1, <5>2
        <5>3. CASE m \in DOMAIN kept
          BY <2>2, <4>2, <4>3, <5>1, <5>3 DEF KeptInOrder
        <5> QED
          BY <4>2, <5>2, <5>3
      <4>4. ASSUME NEW k \in DOMAIN kept' PROVE kept'[k] < i' /\ ~Dead(kept[k])'
        <5>1. CASE k = Len(kept) + 1
          BY <2>2, <3>2, <4>2, <5>1 DEF Dead
        <5>2. CASE k \in DOMAIN kept
          BY <2>2, <4>2, <5>2 DEF KeptInOrder, Dead
        <5> QED
          BY <4>2, <5>1, <5>2
      <4>5. ASSUME NEW l \in DOMAIN rules', l < i', ~Dead(l)'
            PROVE  \E k \in DOMAIN kept' : kept'[k] = l
        <5>1. CASE l = i
          <6>1. Len(kept) + 1 \in DOMAIN kept'
            BY <4>2
          <6> QED
            BY <4>2, <5>1, <6>1
        <5>2. CASE l < i
          <6>1. PICK k \in DOMAIN kept : kept[k] = l
            BY <2>2, <4>5, <5>2 DEF KeptInOrder, Dead
          <6> QED
            BY <4>2, <6>1
        <5>3. l \in Nat /\ l < i + 1
          BY <2>2, <4>5
        <5> QED
          BY <5>1, <5>2, <5>3
      <4> QED
        BY <2>2, <4>1, <4>3, <4>4, <4>5 DEF KeptInOrder
    <3> QED
      BY <3>1, <3>2
  <2> QED
    BY <1>5, <2>1, <2>2, <2>3 DEF Write
<1>6. CASE UNCHANGED vars
  BY <1>6 DEF vars, Sound, Dead, KeptInOrder
<1> QED
  BY <1>1, <1>2, <1>3, <1>4, <1>5, <1>6 DEF Next

LEMMA Invariance == Spec => []IInv
BY InitIInv, StepIInv, PTL DEF Spec

-----------------------------------------------------------------------------
\* The variables keep their types, and a rule is reported against an earlier one,
\* whatever the values read from the server are.
THEOREM TypeCorrect == Spec => []TypeOK
<1>1. IInv => TypeOK
  BY DEF IInv, TypeOK, Sound, ClausesCovered
<1> QED
  BY <1>1, Invariance, PTL

\* What analyzeAclConflicts reports as dead decides no request in evaluateAcl, for any
\* values, entries, users and connections that meet the selectors of the clauses that cover it.
THEOREM DeadIsDead == Spec => []DeadNeverDecides
<1>1. ASSUME IInv, NEW c \in conflicts, c.kind # "Uncertain", NEW q \in Requests, NEW n,
             Shadows(rules[c.first], rules[c.second], n, q)
      PROVE  ~Decides(rules, q, c.second, n)
  <2>1. Sound(c) /\ rules \in Seq(Parsed)
    BY <1>1 DEF IInv
  <2> QED
    BY <1>1, <2>1, CoveredNeverDecides DEF Sound
<1>2. IInv => DeadNeverDecides
  BY <1>1 DEF DeadNeverDecides
<1> QED
  BY <1>2, Invariance, PTL

-----------------------------------------------------------------------------
(* What is written out is read again as it was.                              *)

Text == STRING \cup {"", "by", "selector", "who", "rights"}
Toks == [token : Text, text : Text, dn : DN, attrs : SUBSET STRING]
What == {tok \in Toks : tok.token # "by"}
Subjects == [form : Text, dn : DN]
Clauses == [selector : Text, subject : Subjects, rights : Text]
Seen == [expects : {"target", "by", "selector", "subject", "rights"}, target : Seq(What),
         selector : Text, subject : Subjects, bys : Seq(Clauses)]

LEMMA StartTyped == Start \in Seen
<1>1. <<>> \in DN /\ "" \in Text /\ <<>> \in Seq(What) /\ <<>> \in Seq(Clauses)
  BY DEF DN, Text
<1> HIDE DEF DN
<1> QED
  BY <1>1 DEF Start, Seen, Subjects

LEMMA ReadTyped == ASSUME NEW seen \in Seen, NEW tok \in Toks PROVE Read(seen, tok) \in Seen
<1>1. tok.text \in Text /\ tok.dn \in DN
  BY DEF Toks
<1>2. CASE seen.expects \in {"target", "by"} /\ tok.token = "by"
  BY <1>2 DEF Read, Seen, Text
<1>3. CASE seen.expects = "target" /\ tok.token # "by"
  <2>1. Append(seen.target, tok) \in Seq(What)
    BY <1>3 DEF Seen, What
  <2> QED
    BY <1>3, <2>1 DEF Read, Seen
<1>4. CASE seen.expects = "by" /\ tok.token # "by"
  BY <1>4 DEF Read
<1>5. CASE seen.expects = "selector" /\ tok.token = "selector"
  BY <1>1, <1>5 DEF Read, Seen
<1>6. CASE seen.expects = "rights"
  <2>1. [selector |-> seen.selector, subject |-> seen.subject, rights |-> tok.text] \in Clauses
    BY <1>1 DEF Seen, Clauses
  <2>2. Append(seen.bys, [selector |-> seen.selector, subject |-> seen.subject, rights |-> tok.text])
          \in Seq(Clauses)
    BY <2>1 DEF Seen
  <2> QED
    BY <1>6, <2>2 DEF Read, Seen
<1>7. CASE \/ seen.expects = "subject"
           \/ seen.expects = "selector" /\ tok.token # "selector"
  <2>1. [form |-> tok.text, dn |-> tok.dn] \in Subjects
    BY <1>1 DEF Subjects
  <2> QED
    BY <1>7, <2>1 DEF Read, Seen
<1> QED
  BY <1>2, <1>3, <1>4, <1>5, <1>6, <1>7 DEF Seen

\* What has been seen after each of the tokens.
Reading(f, toks) ==
    /\ f[0] = Start
    /\ \A n \in 1 .. Len(toks) : f[n] = Read(f[n - 1], toks[n])
    /\ ReadAll(toks) = f[Len(toks)]

LEMMA ReadAllReads ==
    ASSUME NEW toks \in Seq(Toks)
    PROVE  \E f \in [0 .. Len(toks) -> Seen] : Reading(f, toks)
<1> DEFINE N == Len(toks)
           F == [n \in 1 .. N |-> [x \in Seen |-> Read(x, toks[n])]]
           Eqn(g) == g = [s \in SUBSET (DOMAIN toks) |->
                            IF s = {} THEN Start ELSE Read(g[s \ {Max(s)}], toks[Max(s)])]
           it == CHOOSE g : Eqn(g)
<1>0. N \in Nat /\ DOMAIN toks = 1 .. N /\ \A n \in 1 .. N : toks[n] \in Toks
  OBVIOUS
<1>1. F \in [1 .. N -> [Seen -> Seen]] /\ Start \in Seen
  BY <1>0, ReadTyped, StartTyped
<1>2. \A n \in 1 .. N : \A x \in Seen : F[n][x] = Read(x, toks[n])
  OBVIOUS
<1>3. PICK h \in [SUBSET (1 .. N) -> Seen] : IsFold(h, N, Start, F)
  <2> HIDE DEF F, N
  <2> QED
    BY <1>0, <1>1, FoldExists
<1>4. ASSUME NEW s \in SUBSET (1 .. N)
      PROVE  h[s] = IF s = {} THEN Start ELSE Read(h[s \ {Max(s)}], toks[Max(s)])
  <2>1. CASE s = {}
    BY <1>3, <2>1 DEF IsFold
  <2>2. CASE s # {}
    <3>1. Max(s) \in 1 .. N /\ s \ {Max(s)} \in SUBSET (1 .. N)
      BY <1>0, <2>2, HighestNumber
    <3>2. h[s \ {Max(s)}] \in Seen
      BY <1>3, <3>1
    <3> HIDE DEF F, N
    <3> QED
      BY <1>2, <1>3, <2>2, <3>1, <3>2 DEF IsFold
  <2> QED
    BY <2>1, <2>2
<1>5. Eqn(h)
  <2>1. h = [s \in SUBSET (1 .. N) |-> h[s]]
    BY <1>3
  <2> QED
    BY <1>0, <1>4, <2>1
<1>6. Eqn(it)
  <2> HIDE DEF Eqn
  <2> QED
    BY <1>5
<1>7. ReadAll(toks) = it[DOMAIN toks]
  BY DEF ReadAll, FoldLeft, MapThenFoldSet
<1>8. \A s \in SUBSET (1 .. N) :
         it[s] = IF s = {} THEN Start ELSE Read(it[s \ {Max(s)}], toks[Max(s)])
  <2> HIDE DEF it
  <2> QED
    BY <1>0, <1>6
<1> HIDE DEF it, F
<1> DEFINE f == [n \in 0 .. N |-> it[1 .. n]]
<1>9. ASSUME NEW n \in 0 .. N, n # N PROVE it[1 .. n + 1] = Read(it[1 .. n], toks[n + 1])
  <2> DEFINE s == 1 .. n + 1
  <2> HIDE DEF N
  <2>0. n \in Nat /\ n < N /\ N \in Nat
    BY <1>0, <1>9
  <2>1. s \in SUBSET (1 .. N) /\ s # {} /\ s \ {n + 1} = 1 .. n
    <3>1. n + 1 \in 1 .. N /\ n + 1 \in s
      BY <2>0
    <3>2. s \in SUBSET (1 .. N)
      BY <2>0
    <3>3. s \ {n + 1} = 1 .. n
      BY <2>0
    <3> QED
      BY <3>1, <3>2, <3>3
  <2>2. Max(s) = n + 1
    BY <2>0, HighestOfRange
  <2> HIDE DEF s
  <2>3. it[s] = Read(it[1 .. n], toks[n + 1])
    BY <1>8, <2>1, <2>2
  <2> QED
    BY <2>3 DEF s
<1>10. it[1 .. 0] = Start
  <2>1. 1 .. 0 = {}
    OBVIOUS
  <2> QED
    BY <1>8, <2>1
<1> DEFINE P == {n \in 0 .. N : it[1 .. n] \in Seen}
<1>11. \A n \in 0 .. N : n \in P
  <2>1. 0 \in P
    BY <1>0, <1>1, <1>10
  <2>2. ASSUME NEW n \in 0 .. N, n # N, n \in P PROVE n + 1 \in P
    <3> HIDE DEF N, P
    <3>0. n \in Nat /\ n < N /\ N \in Nat
      BY <1>0, <2>2
    <3>1. n + 1 \in 0 .. N /\ n + 1 \in 1 .. N
      BY <3>0
    <3>2. toks[n + 1] \in Toks /\ it[1 .. n] \in Seen
      BY <1>0, <2>2, <3>1 DEF P
    <3> QED
      BY <1>9, <2>2, <3>1, <3>2, ReadTyped DEF P
  <2> HIDE DEF P, N
  <2> QED
    BY <1>0, <2>1, <2>2, Climb
<1>12. f \in [0 .. N -> Seen]
  BY <1>11
<1>13. Reading(f, toks)
  <2>1. f[0] = Start
    BY <1>0, <1>10
  <2>2. ASSUME NEW n \in 1 .. N PROVE f[n] = Read(f[n - 1], toks[n])
    <3>1. n - 1 \in 0 .. N /\ n - 1 # N /\ (n - 1) + 1 = n /\ n \in 0 .. N
      BY <1>0
    <3>2. f[n] = it[1 .. n] /\ f[n - 1] = it[1 .. n - 1]
      BY <3>1
    <3>3. it[1 .. n] = Read(it[1 .. n - 1], toks[n])
      <4>1. it[1 .. (n - 1) + 1] = Read(it[1 .. n - 1], toks[(n - 1) + 1])
        BY <1>9, <3>1
      <4> QED
        BY <3>1, <4>1
    <3> HIDE DEF f
    <3> QED
      BY <3>2, <3>3
  <2>3. f[N] = it[1 .. N]
    BY <1>0
  <2> HIDE DEF f
  <2> QED
    BY <1>0, <1>7, <2>1, <2>2, <2>3 DEF Reading
<1> HIDE DEF f
<1> QED
  BY <1>12, <1>13

LEMMA ReadNone == ReadAll(<<>>) = Start
<1>1. <<>> \in Seq(Toks) /\ Len(<<>>) = 0
  OBVIOUS
<1> QED
  BY <1>1, ReadAllReads DEF Reading

LEMMA ReadAllTyped == ASSUME NEW toks \in Seq(Toks) PROVE ReadAll(toks) \in Seen
<1>1. PICK f \in [0 .. Len(toks) -> Seen] : Reading(f, toks)
  BY ReadAllReads
<1> QED
  BY <1>1 DEF Reading

LEMMA ReadOne ==
    ASSUME NEW s \in Seq(Toks), NEW tok \in Toks
    PROVE  ReadAll(s \o <<tok>>) = Read(ReadAll(s), tok)
<1> DEFINE t == s \o <<tok>>
           N == Len(s)
<1>1. /\ N \in Nat /\ t \in Seq(Toks) /\ Len(t) = N + 1 /\ t[N + 1] = tok
      /\ \A n \in 1 .. N : t[n] = s[n]
  OBVIOUS
<1> HIDE DEF t, N
<1>2. PICK f \in [0 .. Len(s) -> Seen] : Reading(f, s)
  BY ReadAllReads
<1>3. PICK g \in [0 .. Len(t) -> Seen] : Reading(g, t)
  BY <1>1, ReadAllReads
<1> DEFINE P == {n \in 0 .. N : g[n] = f[n]}
<1>4. N \in P
  <2>1. 0 \in P
    BY <1>1, <1>2, <1>3 DEF Reading
  <2>2. ASSUME NEW n \in 0 .. N, n # N, n \in P PROVE n + 1 \in P
    <3>1. n + 1 \in 0 .. N /\ n + 1 \in 1 .. N /\ n + 1 \in 1 .. N + 1 /\ (n + 1) - 1 = n
      BY <1>1, <2>2
    <3>2. f[n + 1] = Read(f[n], s[n + 1])
      BY <1>2, <3>1 DEF Reading, N
    <3>3. g[n + 1] = Read(g[n], t[n + 1])
      BY <1>1, <1>3, <3>1 DEF Reading
    <3> QED
      BY <1>1, <2>2, <3>1, <3>2, <3>3
  <2>3. N \in 0 .. N
    BY <1>1
  <2> HIDE DEF P
  <2> QED
    BY <1>1, <2>1, <2>2, <2>3, Climb
<1>5. ReadAll(s) = f[N]
  BY <1>2 DEF Reading, N
<1>6. ReadAll(t) = Read(g[N], tok)
  <2>1. N + 1 \in 1 .. N + 1 /\ (N + 1) - 1 = N
    BY <1>1
  <2>2. g[N + 1] = Read(g[N], tok)
    BY <1>1, <1>3, <2>1 DEF Reading
  <2> QED
    BY <1>1, <1>3, <2>2 DEF Reading
<1> QED
  BY <1>4, <1>5, <1>6 DEF t

LEMMA ClauseTyped ==
    ASSUME NEW b \in Clauses, b.subject.dn \notin DOMAIN Cut
    PROVE  /\ Token("by", "by", <<>>) \in Toks /\ Token("selector", b.selector, <<>>) \in Toks
           /\ Token("who", b.subject.form, b.subject.dn) \in Toks /\ Token("rights", b.rights, <<>>) \in Toks
           /\ ClauseTokens(b) \in Seq(Toks)
<1> DEFINE by == Token("by", "by", <<>>)
           sel == Token("selector", b.selector, <<>>)
           who == Token("who", b.subject.form, b.subject.dn)
           rights == Token("rights", b.rights, <<>>)
<1>1. by \in Toks /\ sel \in Toks /\ who \in Toks /\ rights \in Toks
  <2>1. b.subject.dn \in DN /\ b.selector \in Text /\ b.subject.form \in Text /\ b.rights \in Text
    BY DEF Clauses, Subjects
  <2>2. "by" \in Text /\ "selector" \in Text /\ "who" \in Text /\ "rights" \in Text
    BY DEF Text
  <2>3. {} \in SUBSET STRING /\ <<>> \in DN
    BY DEF DN
  <2> QED
    BY <2>1, <2>2, <2>3 DEF Token, Toks
<1>2. ClauseTokens(b) = ((<<by>> \o SelectorTokens(b)) \o <<who>>) \o <<rights>>
  BY DEF ClauseTokens, SubjectTokens
<1>3. SelectorTokens(b) = IF b.selector = "" THEN <<>> ELSE <<sel>>
  BY DEF SelectorTokens
<1> HIDE DEF by, sel, who, rights
<1>4. <<by>> \in Seq(Toks) /\ <<who>> \in Seq(Toks)
  BY <1>1
<1>5. <<rights>> \in Seq(Toks) /\ <<sel>> \in Seq(Toks) /\ <<>> \in Seq(Toks)
  BY <1>1
<1>6. SelectorTokens(b) \in Seq(Toks)
  BY <1>3, <1>5, Zenon
<1>7. ((<<by>> \o SelectorTokens(b)) \o <<who>>) \o <<rights>> \in Seq(Toks)
  BY <1>4, <1>5, <1>6, ConcatProperties
<1> QED
  BY <1>1, <1>2, <1>7 DEF by, sel, who, rights

\* A clause of one-word subject.
Took(x, y, b) == y.expects = "by" /\ y.target = x.target /\ y.bys = Append(x.bys, b)

LEMMA ReadClause ==
    ASSUME NEW s \in Seq(Toks), NEW b \in Clauses, b.subject.dn \notin DOMAIN Cut,
           ReadAll(s).expects \in {"target", "by"}
    PROVE  s \o ClauseTokens(b) \in Seq(Toks) /\ Took(ReadAll(s), ReadAll(s \o ClauseTokens(b)), b)
<1> DEFINE by == Token("by", "by", <<>>)
           sel == Token("selector", b.selector, <<>>)
           who == Token("who", b.subject.form, b.subject.dn)
           rights == Token("rights", b.rights, <<>>)
           s1 == s \o <<by>>
           s2 == s1 \o SelectorTokens(b)
           s3 == s2 \o <<who>>
           s4 == s3 \o <<rights>>
           x == ReadAll(s)
<1>1. by \in Toks /\ sel \in Toks /\ who \in Toks /\ rights \in Toks
  BY ClauseTyped
<1>2. /\ by.token = "by" /\ sel.token = "selector" /\ who.token = "who" /\ rights.token = "rights"
      /\ sel.text = b.selector /\ who.text = b.subject.form /\ who.dn = b.subject.dn
      /\ rights.text = b.rights
  BY DEF Token
<1>3. ClauseTokens(b) = ((<<by>> \o SelectorTokens(b)) \o <<who>>) \o <<rights>>
  BY DEF ClauseTokens, SubjectTokens
<1>4. SelectorTokens(b) = IF b.selector = "" THEN <<>> ELSE <<sel>>
  BY DEF SelectorTokens
<1> HIDE DEF by, sel, who, rights
<1>5. <<by>> \in Seq(Toks) /\ <<who>> \in Seq(Toks) /\ <<rights>> \in Seq(Toks) /\ SelectorTokens(b) \in Seq(Toks)
  <2>1. <<by>> \in Seq(Toks) /\ <<who>> \in Seq(Toks)
    BY <1>1
  <2>2. <<rights>> \in Seq(Toks) /\ <<sel>> \in Seq(Toks) /\ <<>> \in Seq(Toks)
    BY <1>1
  <2> QED
    BY <1>4, <2>1, <2>2, Zenon
<1>6. s1 \in Seq(Toks) /\ s2 \in Seq(Toks) /\ s3 \in Seq(Toks) /\ s4 \in Seq(Toks)
  BY <1>5, ConcatProperties
<1>7. s \o ClauseTokens(b) = s4
  <2> DEFINE t2 == <<by>> \o SelectorTokens(b)
             t3 == t2 \o <<who>>
  <2>1. t2 \in Seq(Toks) /\ t3 \in Seq(Toks)
    BY <1>5, ConcatProperties
  <2>2. s \o t2 = s2
    BY <1>5, ConcatAssociative
  <2>3. s \o t3 = s3
    <3>1. (s \o t2) \o <<who>> = s \o t3
      <4> HIDE DEF t2
      <4> QED
        BY <1>5, <2>1, ConcatAssociative
    <3> HIDE DEF t2, t3, s2
    <3> QED
      BY <2>2, <3>1
  <2>4. s \o (t3 \o <<rights>>) = s4
    <3>1. (s \o t3) \o <<rights>> = s \o (t3 \o <<rights>>)
      <4> HIDE DEF t3
      <4> QED
        BY <1>5, <2>1, ConcatAssociative
    <3> HIDE DEF t3, s3
    <3> QED
      BY <2>3, <3>1
  <2> QED
    BY <1>3, <2>4
<1>8. x \in Seen
  BY ReadAllTyped
<1>9. ReadAll(s1) = [x EXCEPT !.expects = "selector", !.selector = ""]
  <2>1. ReadAll(s1) = Read(x, by)
    BY <1>1, ReadOne
  <2> HIDE DEF x
  <2> QED
    BY <1>2, <2>1 DEF Read, x
<1> DEFINE y == ReadAll(s2)
<1>10. /\ y.expects \in {"selector", "subject"} /\ y.selector = b.selector
       /\ y.target = x.target /\ y.bys = x.bys /\ y \in Seen
  <2>1. CASE b.selector = ""
    <3>1. s2 = s1
      BY <1>4, <1>6, <2>1, ConcatEmptySeq
    <3> HIDE DEF s1, s2, x
    <3> QED
      BY <1>6, <1>8, <1>9, <2>1, <3>1, ReadAllTyped DEF Seen
  <2>2. CASE b.selector # ""
    <3>1. y = Read(ReadAll(s1), sel)
      BY <1>1, <1>4, <1>6, <2>2, ReadOne
    <3>2. ReadAll(s1).expects = "selector" /\ ReadAll(s1) \in Seen
      <4> HIDE DEF s1, x
      <4> QED
        BY <1>6, <1>8, <1>9, ReadAllTyped DEF Seen
    <3>3. y = [ReadAll(s1) EXCEPT !.expects = "subject", !.selector = b.selector]
      <4> HIDE DEF y, s1
      <4> QED
        BY <1>2, <3>1, <3>2 DEF Read
    <3> HIDE DEF s1, s2, x, y
    <3> QED
      BY <1>6, <1>8, <1>9, <3>3, ReadAllTyped DEF Seen, y
  <2> QED
    BY <2>1, <2>2
<1> DEFINE z == ReadAll(s3)
<1>11. z = [y EXCEPT !.expects = "rights", !.subject = [form |-> b.subject.form, dn |-> b.subject.dn]]
  <2>1. z = Read(y, who)
    BY <1>1, <1>6, ReadOne
  <2> HIDE DEF y, z
  <2> QED
    BY <1>2, <1>10, <2>1 DEF Read
<1>12. ReadAll(s4) = Read(z, rights)
  BY <1>1, <1>6, ReadOne
<1> HIDE DEF x, y, z, s1, s2, s3, s4
<1>13. /\ z.expects = "rights" /\ z.target = x.target /\ z.bys = x.bys /\ z.selector = b.selector
       /\ z.subject = b.subject
  <2>1. [form |-> b.subject.form, dn |-> b.subject.dn] = b.subject
    BY DEF Clauses, Subjects
  <2> QED
    BY <1>10, <1>11, <2>1 DEF Seen
<1>14. z \in Seen
  BY <1>6, ReadAllTyped DEF z
<1>15. ReadAll(s4) = [z EXCEPT !.expects = "by", !.bys = Append(@, [selector |-> z.selector,
                          subject |-> z.subject, rights |-> b.rights])]
  BY <1>2, <1>12, <1>13 DEF Read
<1>16. [selector |-> z.selector, subject |-> z.subject, rights |-> b.rights] = b
  BY <1>13 DEF Clauses
<1>17. Took(x, ReadAll(s4), b)
  BY <1>13, <1>14, <1>15, <1>16 DEF Took, Seen
<1> QED
  BY <1>6, <1>7, <1>17 DEF x

LEMMA ReadTarget ==
    ASSUME NEW t \in Seq(What)
    PROVE  t \in Seq(Toks) /\ ReadAll(t).expects = "target" /\ ReadAll(t).target = t /\ ReadAll(t).bys = <<>>
<1> DEFINE N == Len(t)
           u(n) == SubSeq(t, 1, n)
           Good(n) == /\ ReadAll(u(n)).expects = "target" /\ ReadAll(u(n)).target = u(n)
                      /\ ReadAll(u(n)).bys = <<>>
           P == {n \in 0 .. N : Good(n)}
<1>1. N \in Nat /\ t \in Seq(Toks) /\ \A n \in 1 .. N : t[n] \in What
  BY DEF What
<1>2. \A n \in 0 .. N : u(n) \in Seq(Toks) /\ u(n) \in Seq(What)
  BY <1>1
<1>3. 0 \in P
  <2>1. u(0) = <<>>
    BY SubSeqEmpty
  <2>2. Start.expects = "target" /\ Start.target = <<>> /\ Start.bys = <<>>
    BY DEF Start
  <2> HIDE DEF u
  <2> QED
    BY <1>1, <2>1, <2>2, ReadNone
<1>4. ASSUME NEW n \in 0 .. N, n # N, n \in P PROVE n + 1 \in P
  <2> HIDE DEF N, P, u
  <2>1. n + 1 \in 0 .. N /\ n + 1 \in 1 .. N /\ 1 \in 1 .. N /\ n + 1 \in 1 .. N /\ (n + 1) - 1 = n
    BY <1>1, <1>4
  <2>2. u(n + 1) = u(n) \o <<t[n + 1]>>
    BY <1>1, <2>1, SubSeqRecursiveSecond DEF u, N
  <2>3. t[n + 1] \in Toks /\ t[n + 1].token # "by"
    BY <1>1, <2>1 DEF What
  <2>4. ReadAll(u(n + 1)) = Read(ReadAll(u(n)), t[n + 1])
    BY <1>2, <2>2, <2>3, ReadOne
  <2>5. ReadAll(u(n)) \in Seen
    BY <1>2, ReadAllTyped
  <2>6. ReadAll(u(n + 1)) = [ReadAll(u(n)) EXCEPT !.target = Append(@, t[n + 1])]
    BY <1>4, <2>3, <2>4 DEF P, Read
  <2>7. Append(u(n), t[n + 1]) = u(n + 1)
    BY <1>2, <2>2, <2>3, AppendIsConcat
  <2>8. Good(n)
    BY <1>4 DEF P
  <2>9. Good(n + 1)
    BY <2>5, <2>6, <2>7, <2>8 DEF Seen
  <2> QED
    BY <2>1, <2>9 DEF P
<1>5. N \in P
  <2>1. N \in 0 .. N
    BY <1>1
  <2> HIDE DEF P, N
  <2> QED
    BY <1>1, <1>3, <1>4, <2>1, Climb
<1>6. u(N) = t
  BY SubSeqFull
<1> QED
  BY <1>1, <1>5, <1>6

LEMMA ReadFormat ==
    ASSUME NEW r, r.target \in Seq(What), r.bys \in Seq(Clauses),
           \A n \in DOMAIN r.bys : r.bys[n].subject.dn \notin DOMAIN Cut
    PROVE  /\ ReadAll(FormatAclRule(r)).target = r.target
           /\ ReadAll(FormatAclRule(r)).bys = r.bys
<1> DEFINE t == r.target
           bys == r.bys
           N == Len(bys)
           ss == [n \in DOMAIN bys |-> ClauseTokens(bys[n])]
<1>0. /\ t \in Seq(What) /\ bys \in Seq(Clauses)
      /\ \A n \in DOMAIN bys : bys[n].subject.dn \notin DOMAIN Cut
      /\ FormatAclRule(r) = t \o FlattenSeq(ss)
  BY DEF FormatAclRule
<1> HIDE DEF t, bys
<1>1. N \in Nat /\ DOMAIN bys = 1 .. N /\ \A n \in 1 .. N : bys[n] \in Clauses
  BY <1>0
<1>2. t \in Seq(Toks) /\ ReadAll(t).expects = "target" /\ ReadAll(t).target = t /\ ReadAll(t).bys = <<>>
  BY <1>0, ReadTarget
<1>3. ASSUME NEW n \in 1 .. N PROVE ClauseTokens(bys[n]) \in Seq(Toks)
  BY <1>0, <1>1, ClauseTyped
<1>4. ss \in Seq(Seq(Toks)) /\ Len(ss) = N /\ \A n \in 1 .. N : ss[n] = ClauseTokens(bys[n])
  BY <1>1, <1>3
<1> HIDE DEF ss, N
<1>5. PICK f \in [0 .. N -> Seq(Toks)] : IsFlat(f, ss)
  BY <1>4, FlattenIs
<1> DEFINE Good(n) == /\ ReadAll(t \o f[n]).expects \in {"target", "by"}
                      /\ ReadAll(t \o f[n]).target = t
                      /\ ReadAll(t \o f[n]).bys = SubSeq(bys, 1, n)
           P == {n \in 0 .. N : Good(n)}
<1>6. 0 \in P
  <2>1. t \o f[0] = t
    BY <1>2, <1>5, ConcatEmptySeq DEF IsFlat
  <2>2. SubSeq(bys, 1, 0) = <<>>
    BY SubSeqEmpty
  <2>3. Good(0)
    BY <1>2, <2>1, <2>2, Zenon
  <2> HIDE DEF Good
  <2> QED
    BY <1>1, <2>3
<1>7. ASSUME NEW n \in 0 .. N, n # N, n \in P PROVE n + 1 \in P
  <2>1. n + 1 \in 0 .. N /\ n + 1 \in 1 .. N /\ 1 \in 1 .. N /\ n + 1 \in 1 .. N /\ (n + 1) - 1 = n
    BY <1>1, <1>7
  <2>2. f[n + 1] = f[n] \o ss[n + 1] /\ f[n] \in Seq(Toks) /\ ss[n + 1] \in Seq(Toks)
        /\ ss[n + 1] = ClauseTokens(bys[n + 1])
    <3>1. f[n + 1] = f[n] \o ss[n + 1]
      BY <1>4, <1>5, <2>1 DEF IsFlat
    <3>2. ss[n + 1] = ClauseTokens(bys[n + 1]) /\ ss[n + 1] \in Seq(Toks)
      BY <1>3, <1>4, <2>1
    <3> QED
      BY <1>5, <3>1, <3>2
  <2> DEFINE u == t \o f[n]
  <2>3. u \in Seq(Toks)
    BY <1>2, <2>2, ConcatProperties
  <2>4. t \o f[n + 1] = u \o ClauseTokens(bys[n + 1])
    <3>1. \A a, c \in Seq(Toks) : (t \o a) \o c = t \o (a \o c)
      <4> SUFFICES ASSUME NEW a \in Seq(Toks), NEW c \in Seq(Toks) PROVE (t \o a) \o c = t \o (a \o c)
        OBVIOUS
      <4>1. t \in Seq(Toks)
        BY <1>2
      <4> QED
        BY ONLY <4>1, a \in Seq(Toks), c \in Seq(Toks), ConcatAssociative
    <3> QED
      BY <2>2, <3>1
  <2>5. ReadAll(u).expects \in {"target", "by"} /\ ReadAll(u).target = t /\ ReadAll(u).bys = SubSeq(bys, 1, n)
    BY <1>7
  <2>6. bys[n + 1] \in Clauses /\ bys[n + 1].subject.dn \notin DOMAIN Cut
    BY <1>0, <1>1, <2>1
  <2> DEFINE w == ReadAll(t \o f[n + 1])
  <2>7. Took(ReadAll(u), w, bys[n + 1])
    <3> HIDE DEF u
    <3> QED
      BY <2>3, <2>4, <2>5, <2>6, ReadClause
  <2> HIDE DEF u
  <2>8. w.expects = "by" /\ w.target = t /\ w.bys = Append(SubSeq(bys, 1, n), bys[n + 1])
    <3> HIDE DEF w
    <3> QED
      BY <2>5, <2>7 DEF Took
  <2>9. Append(SubSeq(bys, 1, n), bys[n + 1]) = SubSeq(bys, 1, n + 1)
    <3>1. SubSeq(bys, 1, n + 1) = SubSeq(bys, 1, n) \o <<bys[n + 1]>>
      BY <1>0, <1>1, <2>1, SubSeqRecursiveSecond DEF N
    <3>2. SubSeq(bys, 1, n) \in Seq(Clauses)
      BY <1>0, <1>1, <2>1
    <3> QED
      BY <2>6, <3>1, <3>2, AppendIsConcat
  <2> QED
    BY <2>1, <2>8, <2>9
<1>8. N \in P
  <2>1. N \in 0 .. N
    BY <1>1
  <2> HIDE DEF P
  <2> QED
    BY <1>1, <1>6, <1>7, <2>1, Climb
<1>9. FormatAclRule(r) = t \o f[N]
  BY <1>0, <1>4, <1>5 DEF IsFlat
<1>10. SubSeq(bys, 1, N) = bys
  BY <1>0, SubSeqFull DEF N
<1> QED
  BY <1>8, <1>9, <1>10 DEF t, bys

\* A rule with one-word subjects, written out and read again, has the same target and clauses.
SameRule(a, b) ==
    a.complex = b.complex /\ a.kind = b.kind /\ a.dn = b.dn /\ a.attrs = b.attrs /\ a.bys = b.bys

LEMMA TargetIsRule == ASSUME NEW t PROVE DOMAIN TargetOf(t) = DOMAIN NoRule /\ TargetOf(t).format = "slapd"
BY DEF TargetOf, NoRule

LEMMA SlapdIsRule ==
    ASSUME NEW toks
    PROVE  /\ DOMAIN ParseSlapd(toks) = DOMAIN NoRule /\ ParseSlapd(toks).format = "slapd"
           /\ ParseSlapd(toks).bys # <<>> => /\ ParseSlapd(toks).bys = ReadAll(toks).bys
                                             /\ ParseSlapd(toks).target = ReadAll(toks).target
                                             /\ ReadAll(toks).target # <<>> /\ ReadAll(toks).bys # <<>>
<1> DEFINE seen == ReadAll(toks)
           r == [TargetOf(seen.target) EXCEPT !.target = seen.target, !.bys = seen.bys]
<1>1. DOMAIN r = DOMAIN NoRule /\ r.format = "slapd" /\ r.target = seen.target /\ r.bys = seen.bys
  BY TargetIsRule DEF NoRule
<1>2. NoRule.format = "slapd" /\ NoRule.bys = <<>>
  BY DEF NoRule
<1>3. ParseSlapd(toks) = IF seen.bys = <<>> \/ seen.target = <<>> THEN NoRule ELSE r
  BY DEF ParseSlapd
<1> HIDE DEF r, seen
<1>4. CASE seen.bys = <<>> \/ seen.target = <<>>
  <2>1. ParseSlapd(toks) = NoRule
    BY <1>3, <1>4
  <2> QED
    BY <1>2, <2>1
<1>5. CASE ~(seen.bys = <<>> \/ seen.target = <<>>)
  <2>1. ParseSlapd(toks) = r
    BY <1>3, <1>5
  <2> QED
    BY <1>1, <1>5, <2>1 DEF seen
<1> QED
  BY <1>4, <1>5

LEMMA RawIsKept ==
    ASSUME NEW x, DOMAIN x = DOMAIN NoRule, NEW v, NEW r, r = [x EXCEPT !.raw = v]
    PROVE  SameRule(r, x) /\ r.format = x.format /\ r.target = x.target /\ r.raw = v
BY DEF NoRule, SameRule

LEMMA OthersAreNot ==
    ASSUME NEW v, v.grammar \in {"aci", "oracle"}, ParseAcl(v).bys # <<>>
    PROVE  ParseAcl(v).format # "slapd" /\ ParseAcl(v).raw = v
<1>1. CASE v.grammar = "aci"
  <2> DEFINE x == ParseAci(v.groups, v.clauses)
  <2>1. ParseAcl(v) = [x EXCEPT !.raw = v]
    BY <1>1 DEF ParseAcl
  <2>2. /\ DOMAIN x = DOMAIN NoRule
        /\ x.bys # <<>> => x.format = "aci"
    BY DEF ParseAci, NoRule
  <2> HIDE DEF x
  <2> QED
    BY <2>1, <2>2, RawIsKept DEF SameRule
<1>2. CASE v.grammar = "oracle"
  <2> DEFINE x == ParseOracle(v.object, v.modifiers, v.clauses)
  <2>1. ParseAcl(v) = [x EXCEPT !.raw = v]
    BY <1>2 DEF ParseAcl
  <2>2. /\ DOMAIN x = DOMAIN NoRule
        /\ x.bys # <<>> => x.format = "oracle"
    BY DEF ParseOracle, NoRule
  <2> HIDE DEF x
  <2> QED
    BY <2>1, <2>2, RawIsKept DEF SameRule
<1> QED
  BY <1>1, <1>2

LEMMA WrittenIsSame ==
    ASSUME NEW r \in Parsed, \A n \in DOMAIN r.bys : r.bys[n].subject.dn \notin DOMAIN Cut
    PROVE  SameRule(ParseAcl(WrittenValue(r)), r)
<1>1. PICK v \in Values : r = ParseAcl(v) /\ r.bys # <<>>
  BY DEF Parsed
<1>2. CASE v.grammar \in {"aci", "oracle"}
  <2>1. WrittenValue(r) = v
    BY <1>1, <1>2, OthersAreNot DEF WrittenValue
  <2> QED
    BY <1>1, <2>1 DEF SameRule
<1>3. CASE v.grammar \notin {"aci", "oracle"}
  <2> DEFINE x == ParseSlapd(v.toks)
             toks == FormatAclRule(r)
             w == [grammar |-> "slapd", toks |-> toks]
  <2>1. r = [x EXCEPT !.raw = v]
    BY <1>1, <1>3 DEF ParseAcl
  <2>2. DOMAIN x = DOMAIN NoRule /\ x.format = "slapd"
    BY SlapdIsRule
  <2>3. SameRule(r, x) /\ r.format = "slapd" /\ r.target = x.target
    <3> HIDE DEF x
    <3> QED
      BY <2>1, <2>2, RawIsKept
  <2>4. /\ r.bys = ReadAll(v.toks).bys /\ r.target = ReadAll(v.toks).target
        /\ r.target # <<>> /\ r.bys # <<>>
    BY <1>1, <2>3, SlapdIsRule DEF SameRule
  <2>5. v.toks \in Seq(Toks)
    <3>1. v.toks \in Seq(Tokens)
      BY <1>3, ValuesAssumption
    <3>2. Tokens \subseteq Toks
      BY DEF Tokens, Toks, Text, DN
    <3> QED
      BY <3>1, <3>2
  <2>6. r.target \in Seq(What) /\ r.bys \in Seq(Clauses)
    BY <2>4, <2>5, ReadAllTyped DEF Seen
  <2>7. ReadAll(toks).target = r.target /\ ReadAll(toks).bys = r.bys
    BY <2>6, ReadFormat
  <2>8. ParseSlapd(toks) = x
    <3> HIDE DEF toks
    <3> QED
      BY <2>4, <2>7 DEF ParseSlapd
  <2>9. WrittenValue(r) = w
    BY <2>3 DEF WrittenValue
  <2>10. ParseAcl(w) = [x EXCEPT !.raw = w]
    <3>1. w.grammar \notin {"aci", "oracle"} /\ w.toks = toks
      OBVIOUS
    <3> HIDE DEF w, toks, x
    <3> QED
      BY <2>8, <3>1 DEF ParseAcl
  <2>11. SameRule(ParseAcl(w), x)
    <3> HIDE DEF w, x
    <3> QED
      BY <2>2, <2>10, RawIsKept
  <2> QED
    BY <2>3, <2>9, <2>11 DEF SameRule
<1> QED
  BY <1>2, <1>3

-----------------------------------------------------------------------------
(* Without the rules that decide nothing, a list decides as it did.          *)

\* A is the rules of R whose places h gives, in their order, with all that can decide.
Selected(A, R, h, q) ==
    /\ DOMAIN A = DOMAIN h /\ \A k \in DOMAIN h : h[k] \in DOMAIN R /\ SameRule(A[k], R[h[k]])
    /\ \A k, m \in DOMAIN h : k < m => h[k] < h[m]
    /\ \A l \in DOMAIN R : \A n : Decides(R, q, l, n) => \E k \in DOMAIN h : h[k] = l

LEMMA SameMatches ==
    ASSUME NEW A, NEW R, NEW k, NEW l, NEW n, NEW q, SameRule(A[k], R[l])
    PROVE  Matches(A, q, k, n) <=> Matches(R, q, l, n)
BY DEF SameRule, Matches, TargetMatches

LEMMA SelectedDecides ==
    ASSUME NEW A, NEW R, NEW h, NEW q, Bounded(R), DOMAIN h \subseteq Nat, Selected(A, R, h, q),
           NEW k, NEW n
    PROVE  Decides(A, q, k, n) <=> k \in DOMAIN h /\ Decides(R, q, h[k], n)
<1>1. /\ DOMAIN A = DOMAIN h
      /\ \A m \in DOMAIN h : h[m] \in DOMAIN R /\ A[m].bys = R[h[m]].bys /\ m \in Nat /\ h[m] \in Nat
  BY DEF Selected, SameRule, Bounded
<1>2. \A m \in DOMAIN h : \A o : Matches(A, q, m, o) <=> Matches(R, q, h[m], o)
  BY SameMatches DEF Selected
<1>3. \A m, o \in DOMAIN h : (m < o <=> h[m] < h[o]) /\ (m = o <=> h[m] = h[o])
  <2> TAKE m, o \in DOMAIN h
  <2>1. m \in Nat /\ o \in Nat /\ h[m] \in Nat /\ h[o] \in Nat
    BY <1>1
  <2>2. (m < o => h[m] < h[o]) /\ (o < m => h[o] < h[m])
    BY DEF Selected
  <2> QED
    BY <2>1, <2>2
<1>4. ASSUME NEW m \in DOMAIN h, NEW o, Decides(R, q, h[m], o) PROVE Decides(A, q, m, o)
  <2>1. o \in DOMAIN A[m].bys /\ Matches(A, q, m, o)
    BY <1>1, <1>2, <1>4 DEF Decides
  <2>2. ASSUME NEW x \in DOMAIN A, NEW y \in DOMAIN A[x].bys, Matches(A, q, x, y)
        PROVE  m < x \/ (m = x /\ o <= y)
    <3>1. x \in DOMAIN h /\ h[x] \in DOMAIN R /\ y \in DOMAIN R[h[x]].bys /\ Matches(R, q, h[x], y)
      BY <1>1, <1>2, <2>2
    <3>2. h[m] < h[x] \/ (h[m] = h[x] /\ o <= y)
      BY <1>4, <3>1 DEF Decides
    <3> QED
      BY <1>3, <3>1, <3>2
  <2> QED
    BY <1>1, <2>1, <2>2 DEF Decides
<1>5. ASSUME Decides(A, q, k, n) PROVE k \in DOMAIN h /\ Decides(R, q, h[k], n)
  <2>1. k \in DOMAIN h /\ n \in DOMAIN R[h[k]].bys /\ Matches(R, q, h[k], n) /\ h[k] \in DOMAIN R
    BY <1>1, <1>2, <1>5 DEF Decides
  <2>2. PICK l \in DOMAIN R : \E o \in DOMAIN R[l].bys : Decides(R, q, l, o)
    BY <2>1, SomeClauseDecides
  <2>3. PICK o \in DOMAIN R[l].bys : Decides(R, q, l, o)
    BY <2>2
  <2>4. PICK m \in DOMAIN h : h[m] = l
    BY <2>3 DEF Selected
  <2>5. Decides(A, q, m, o)
    BY <1>4, <2>3, <2>4
  <2>6. Bounded(A)
    BY <1>1 DEF Bounded
  <2>7. m = k /\ o = n
    BY <1>5, <2>5, <2>6, OneClauseDecides
  <2> QED
    BY <2>1, <2>3, <2>4, <2>7
<1> QED
  BY <1>4, <1>5

LEMMA SelectedEvaluates ==
    ASSUME NEW A, NEW R, NEW h, NEW q, Bounded(R), DOMAIN h \subseteq Nat, Selected(A, R, h, q)
    PROVE  EvaluateAcl(A, q) = EvaluateAcl(R, q)
<1>1. /\ DOMAIN A = DOMAIN h
      /\ \A m \in DOMAIN h : h[m] \in DOMAIN R /\ A[m].bys = R[h[m]].bys
  BY DEF Selected, SameRule
<1> DEFINE C == 1 .. MaxClauses
<1>2. \A k, n : <<k, n>> \in Deciding(A, q) <=> k \in DOMAIN A /\ n \in C /\ Decides(A, q, k, n)
  BY DEF Deciding
<1>3. \A k, n : <<k, n>> \in Deciding(R, q) <=> k \in DOMAIN R /\ n \in C /\ Decides(R, q, k, n)
  BY DEF Deciding
<1> HIDE DEF C
<1>4. \A k, n : <<k, n>> \in Deciding(A, q) <=> k \in DOMAIN h /\ <<h[k], n>> \in Deciding(R, q)
  <2>1. \A k, n : Decides(A, q, k, n) <=> k \in DOMAIN h /\ Decides(R, q, h[k], n)
    BY SelectedDecides
  <2> QED
    BY <1>1, <1>2, <1>3, <2>1
<1>5. \A d \in Deciding(A, q) : d = <<d[1], d[2]>>
  BY DEF Deciding
<1>6. \A d \in Deciding(R, q) : d = <<d[1], d[2]>>
  BY DEF Deciding
<1>7. CASE Deciding(R, q) = {}
  <2>1. Deciding(A, q) = {}
    BY <1>4, <1>5, <1>7
  <2> QED
    BY <1>7, <2>1 DEF EvaluateAcl
<1>8. CASE Deciding(R, q) # {}
  <2> DEFINE e == CHOOSE d \in Deciding(R, q) : TRUE
             c == CHOOSE d \in Deciding(A, q) : TRUE
  <2>1. e \in Deciding(R, q)
    BY <1>8
  <2>2. Decides(R, q, e[1], e[2]) /\ e[1] \in DOMAIN R
    BY <2>1 DEF Deciding
  <2>3. PICK k \in DOMAIN h : h[k] = e[1]
    BY <2>2 DEF Selected
  <2>4. <<k, e[2]>> \in Deciding(A, q)
    BY <1>4, <1>6, <2>1, <2>3
  <2>5. c \in Deciding(A, q)
    BY <2>4
  <2> HIDE DEF c, e
  <2>6. c[1] \in DOMAIN h /\ <<h[c[1]], c[2]>> \in Deciding(R, q)
    BY <1>4, <1>5, <2>5
  <2>7. Decides(R, q, h[c[1]], c[2])
    BY <1>3, <2>6
  <2>8. h[c[1]] = e[1] /\ c[2] = e[2]
    BY <2>2, <2>7, OneClauseDecides
  <2>9. A[c[1]].bys[c[2]].rights = R[e[1]].bys[e[2]].rights
    BY <1>1, <2>6, <2>8
  <2> QED
    BY <1>8, <2>4, <2>9 DEF EvaluateAcl, c, e
<1> QED
  BY <1>7, <1>8

\* The list main() writes out, read again, gives everyone the access the original gives, for
\* any values with one-word subjects, any entries, users and attributes, and any connection
\* for which the dropped rules were not needed.
THEOREM RewriteIsSafe == Spec => []RewriteKeepsAccess
<1> DEFINE again == [k \in DOMAIN Written |-> ParseAcl(Written[k])]
<1>1. ASSUME IInv, DeadNeverDecides, phase = "write", i > Len(rules), OneWordSubjects, NEW q \in Requests,
             \A l \in DOMAIN rules : Dead(l) => Expendable(l, q)
      PROVE  EvaluateAcl(again, q) = EvaluateAcl(rules, q)
  <2>1. /\ rules \in Seq(Parsed) /\ kept \in Seq(DOMAIN rules) /\ KeptInOrder
        /\ i \in Nat /\ \A c \in conflicts : Sound(c)
    BY <1>1 DEF IInv
  <2>2. Bounded(rules) /\ DOMAIN kept \subseteq Nat
    BY <2>1, ParsedIsBounded
  <2>3. DOMAIN again = DOMAIN kept /\ \A k \in DOMAIN kept : again[k] = ParseAcl(WrittenValue(rules[kept[k]]))
    BY DEF Written
  <2>4. ASSUME NEW k \in DOMAIN kept PROVE kept[k] \in DOMAIN rules /\ SameRule(again[k], rules[kept[k]])
    <3>1. kept[k] \in DOMAIN rules /\ rules[kept[k]] \in Parsed
      BY <2>1
    <3>2. \A n \in DOMAIN rules[kept[k]].bys : rules[kept[k]].bys[n].subject.dn \notin DOMAIN Cut
      BY <1>1, <3>1 DEF OneWordSubjects
    <3> HIDE DEF again
    <3> QED
      BY <2>3, <3>1, <3>2, WrittenIsSame
  <2>5. ASSUME NEW l \in DOMAIN rules, NEW n, Decides(rules, q, l, n)
        PROVE  \E k \in DOMAIN kept : kept[k] = l
    <3>1. ~Dead(l)
      <4> SUFFICES ASSUME Dead(l) PROVE FALSE
        OBVIOUS
      <4>1. n \in DOMAIN rules[l].bys
        BY <2>5 DEF Decides
      <4>2. PICK c \in conflicts : /\ c.kind = "Masked" /\ c.second = l
                                   /\ Shadows(rules[c.first], rules[l], n, q)
        BY <1>1, <4>1 DEF Expendable
      <4>3. ~Decides(rules, q, c.second, n)
        BY <1>1, <4>1, <4>2 DEF DeadNeverDecides
      <4> QED
        BY <2>5, <4>2, <4>3
    <3>2. l < i
      BY <1>1, <2>1
    <3> QED
      BY <2>1, <3>1, <3>2 DEF KeptInOrder
  <2>6. Selected(again, rules, kept, q)
    <3> HIDE DEF again
    <3> QED
      BY <2>1, <2>3, <2>4, <2>5 DEF Selected, KeptInOrder
  <2> HIDE DEF again
  <2> QED
    BY <2>2, <2>6, SelectedEvaluates
<1>2. IInv /\ DeadNeverDecides => RewriteKeepsAccess
  BY <1>1 DEF RewriteKeepsAccess
<1> QED
  BY <1>2, Invariance, DeadIsDead, PTL
=============================================================================
