--------------------------- MODULE LdapConn_proofs ---------------------------
(***************************************************************************)
(* Theorems about the searches of a connection, for any number of entries, *)
(* any page sizes and limits, and any changes by other clients.            *)
(***************************************************************************)
EXTENDS LdapConn, FiniteSetTheorems, WellFoundedInduction, TLAPS

-----------------------------------------------------------------------------
(* Sets of entries, and what is taken of a page.                             *)

LEMMA EntriesAreFinite ==
    ASSUME NEW S \in SUBSET Entry
    PROVE  IsFiniteSet(S) /\ Cardinality(S) \in Nat
<1>1. 1 \in Int /\ Count \in Int
  BY CountAssumption
<1>2. IsFiniteSet(Entry)
  BY <1>1, FS_Interval DEF Entry
<1>3. IsFiniteSet(S)
  BY <1>2, FS_Subset
<1> QED
  BY <1>3, FS_CardinalityType

LEMMA LeastEntry ==
    ASSUME NEW S \in SUBSET Entry, S # {}
    PROVE  \E n \in S : \A m \in S : n <= m
<1> DEFINE less == OpToRel(<, Nat)
<1>1. IsWellFoundedOn(less, Nat)
  BY NatLessThanWellFounded
<1>2. \A m, n \in Nat : m < n => <<m, n>> \in less
  BY DEF OpToRel
<1>3. S \subseteq Nat
  BY CountAssumption DEF Entry
<1> HIDE DEF less
<1>4. PICK n \in S : \A m \in S : ~(<<m, n>> \in less)
  BY <1>1, <1>3, WFMin
<1>5. ASSUME NEW m \in S PROVE n <= m
  <2>1. m \in Nat /\ n \in Nat
    BY <1>3
  <2>2. ~(m < n)
    BY <1>2, <1>4, <2>1
  <2> QED
    BY <2>1, <2>2
<1> QED
  BY <1>5

LEMMA GreatestEntry ==
    ASSUME NEW S \in SUBSET Entry, S # {}
    PROVE  \E n \in S : \A m \in S : m <= n
<1> DEFINE T == {Count + 1 - m : m \in S}
<1>1. ASSUME NEW m \in S PROVE m \in Nat /\ Count + 1 - m \in Entry
  BY CountAssumption DEF Entry
<1>2. T \in SUBSET Entry /\ T # {}
  BY <1>1
<1>3. PICK t \in T : \A m \in T : t <= m
  BY <1>2, LeastEntry
<1>4. PICK n \in S : t = Count + 1 - n
  OBVIOUS
<1>5. \A m \in S : Count + 1 - m \in T
  OBVIOUS
<1> HIDE DEF T
<1>6. ASSUME NEW m \in S PROVE m <= n
  <2>1. Count + 1 - n <= Count + 1 - m
    BY <1>3, <1>4, <1>5
  <2> QED
    BY <1>1, <2>1, CountAssumption
<1> QED
  BY <1>6

Below(S, e) == {d \in S : d < e}

\* A page is taken as a whole unless sizelimit is reached.
LEMMA TakenAll ==
    ASSUME NEW got \in SUBSET Entry, count \in Nat, opt.size \in Nat,
           ~Reached(count + Cardinality(Taken(got)))
    PROVE  Taken(got) = got
<1> SUFFICES ASSUME got \ Taken(got) # {} PROVE FALSE
  BY DEF Taken
<1>1. opt.size > 0
  BY DEF Taken
<1>2. PICK e \in got \ Taken(got) : \A d \in got \ Taken(got) : e <= d
  BY LeastEntry
<1>3. got \subseteq Nat
  BY CountAssumption DEF Entry
<1>4. Below(got, e) \subseteq Taken(got)
  <2>1. ASSUME NEW d \in got, d < e, d \notin Taken(got) PROVE FALSE
    <3>1. d \in Nat /\ e \in Nat /\ e <= d
      BY <1>2, <1>3, <2>1
    <3> QED
      BY <2>1, <3>1
  <2> QED
    BY <2>1 DEF Below
<1>5. Taken(got) \in SUBSET Entry /\ Below(got, e) \in SUBSET Entry
  BY DEF Taken, Below
<1>6. /\ IsFiniteSet(Taken(got)) /\ Cardinality(Taken(got)) \in Nat
      /\ Cardinality(Below(got, e)) \in Nat
  BY <1>5, EntriesAreFinite
<1>7. Cardinality(Below(got, e)) <= Cardinality(Taken(got))
  BY <1>4, <1>6, FS_Subset
<1>8. ~(count + Cardinality(Below(got, e)) < opt.size)
  BY <1>1, <1>2 DEF Taken, Below
<1>9. count + Cardinality(Taken(got)) >= opt.size
  BY <1>6, <1>7, <1>8
<1> QED
  BY <1>1, <1>9 DEF Reached

\* No more is taken of a page than sizelimit allows.
LEMMA TakenWithinLimit ==
    ASSUME NEW got \in SUBSET Entry, count \in Nat, opt.size \in Nat, opt.size > 0,
           count <= opt.size
    PROVE  count + Cardinality(Taken(got)) <= opt.size
<1>1. Taken(got) \in SUBSET Entry
  BY DEF Taken
<1>2. CASE Taken(got) = {}
  BY <1>2, FS_EmptySet
<1>3. CASE Taken(got) # {}
  <2>1. PICK e \in Taken(got) : \A d \in Taken(got) : d <= e
    BY <1>1, <1>3, GreatestEntry
  <2>2. Below(got, e) \in SUBSET Entry /\ e \in got
    BY DEF Below, Taken
  <2>3. IsFiniteSet(Below(got, e)) /\ Cardinality(Below(got, e)) \in Nat
    BY <2>2, EntriesAreFinite
  <2>4. count + Cardinality(Below(got, e)) < opt.size
    BY DEF Taken, Below
  <2>5. e \in Nat /\ ~(e < e)
    BY <2>2, CountAssumption DEF Entry
  <2>6. IsFiniteSet(Below(got, e) \cup {e})
        /\ Cardinality(Below(got, e) \cup {e}) = Cardinality(Below(got, e)) + 1
    BY <2>3, <2>5, FS_AddElement DEF Below
  <2>7. Taken(got) \subseteq Below(got, e) \cup {e}
    <3>1. ASSUME NEW d \in Taken(got), d # e PROVE d \in got /\ d < e
      <4>1. d \in Nat /\ d \in got
        BY <1>1, CountAssumption DEF Taken, Entry
      <4> QED
        BY <2>1, <2>5, <3>1, <4>1
    <3> QED
      BY <3>1 DEF Below
  <2>8. Cardinality(Taken(got)) <= Cardinality(Below(got, e)) + 1
    BY <2>6, <2>7, FS_Subset
  <2>9. Cardinality(Taken(got)) \in Nat
    BY <1>1, EntriesAreFinite
  <2> QED
    BY <2>3, <2>4, <2>8, <2>9
<1> QED
  BY <1>2, <1>3

LEMMA DisjointAdds ==
    ASSUME NEW S \in SUBSET Entry, NEW T \in SUBSET Entry, S \cap T = {}
    PROVE  Cardinality(S \cup T) = Cardinality(S) + Cardinality(T)
<1>1. IsFiniteSet(S) /\ IsFiniteSet(T) /\ Cardinality(S) \in Nat /\ Cardinality(T) \in Nat
  BY EntriesAreFinite
<1>2. Cardinality(S \cup T) = Cardinality(S) + Cardinality(T) - Cardinality(S \cap T)
  BY <1>1, FS_Union
<1> QED
  BY <1>1, <1>2, FS_EmptySet

-----------------------------------------------------------------------------
(* The invariant.                                                            *)

\* What has been in the directory during the call.
History == since \subseteq dir /\ dir \subseteq ever

\* The results of the pages fetched: those of the entries up to the cookie, all of
\* them unless a limit was met.
Fetched ==
    /\ results \subseteq ever
    /\ \A e \in results : e <= cookie
    /\ count = Cardinality(results)
    /\ opt.size > 0 => count <= opt.size
    /\ call = "search" /\ ~opt.user /\ errno # "limit" =>
           \A e \in since : e <= cookie => e \in results
    /\ call # "search" => cookie = 0 /\ results = {} /\ count = 0

\* The requests the server works on.
Working ==
    /\ ~up => open = {}
    /\ "search" \in open => call = "search" /\ sent
    /\ sent => call # "none"

WithinLimit == returned.op = "search" /\ opt.size > 0 => Cardinality(returned.got) <= opt.size

IInv == TypeOK /\ History /\ Fetched /\ Working /\ WithinLimit

LEMMA InitIInv == Init => IInv
<1> SUFFICES ASSUME Init PROVE IInv
  OBVIOUS
<1>1. TypeOK
  <2>1. Nothing \in [op : Calls \cup {"none"}, ok : BOOLEAN, errno : Codes,
                     got : SUBSET Entry, full : BOOLEAN]
    BY DEF Nothing, Codes
  <2>2. notices \in Seq(Entry)
    BY DEF Init
  <2> QED
    BY <2>1, <2>2 DEF Init, TypeOK, Codes
<1>2. Fetched
  <2>1. opt.size \in Nat
    BY LimitsAssumption DEF Init
  <2> QED
    BY <2>1, FS_EmptySet DEF Init, Fetched
<1> QED
  BY <1>1, <1>2 DEF Init, IInv, History, Working, WithinLimit, Nothing

\* Nothing but errno changes, beside what is said of the directory and the server.
LEMMA OneCallKeeps ==
    ASSUME IInv, NEW rc \in Codes, OneCall(rc), open' \subseteq open,
           UNCHANGED <<dir, news>>
    PROVE  IInv'
<1>1. call = "none" /\ UNCHANGED <<opt, ld, call, sent, cookie, results, count, returned,
                                     reported, up, dir, notices, renamed, since, ever>>
  BY DEF OneCall, news
<1>2. TypeOK'
  BY <1>1 DEF OneCall, IInv, TypeOK
<1>3. Fetched'
  BY <1>1 DEF IInv, Fetched
<1> QED
  BY <1>1, <1>2, <1>3 DEF IInv, History, Working, WithinLimit

\* What a change of the directory does to it, and to a persistent search that waits.
LEMMA ChangedTo ==
    ASSUME IInv, Changed
    PROVE  /\ \E d \in SUBSET Entry : DirBecomes(d)
           /\ notices' \in Seq(Entry) /\ renamed' \subseteq Entry
<1>1. dir \in SUBSET Entry /\ notices \in Seq(Entry) /\ renamed \subseteq Entry
  BY DEF IInv, TypeOK
<1>2. CASE Written
  <2>1. PICK e \in Entry : /\ Notify(e)
                           /\ \/ DirBecomes(dir \ {e}) \/ DirBecomes(dir)
                              \/ DirBecomes(dir \cup {e})
    BY <1>2 DEF Written
  <2>2. \E d \in SUBSET Entry : DirBecomes(d)
    <3>1. dir \ {e} \in SUBSET Entry /\ dir \cup {e} \in SUBSET Entry
      BY <1>1
    <3> QED
      BY <1>1, <2>1, <3>1
  <2>3. notices' \in Seq(Entry) /\ renamed' \subseteq Entry
    <3> HIDE DEF Entry
    <3> QED
      BY <1>1, <2>1 DEF Notify
  <2> QED
    BY <2>2, <2>3
<1>3. CASE Renamed
  <2>1. PICK e \in dir, f \in Entry \ dir :
            /\ DirBecomes((dir \ {e}) \cup {f})
            /\ renamed' = IF Waiting THEN renamed \cup {f} ELSE renamed
            /\ UNCHANGED notices
    BY <1>3 DEF Renamed
  <2>2. (dir \ {e}) \cup {f} \in SUBSET Entry
    BY <1>1
  <2> QED
    BY <1>1, <2>1, <2>2
<1> QED
  BY <1>2, <1>3 DEF Changed

LEMMA ChangedKeeps ==
    ASSUME IInv, Changed, errno' \in Codes,
           call # "none" => errno' = errno,
           UNCHANGED <<opt, ld, call, sent, cookie, results, count, returned, reported, up, open>>
    PROVE  IInv'
<1>1. PICK d \in SUBSET Entry : DirBecomes(d)
  BY ChangedTo
<1>2. dir' = d /\ since' \subseteq dir' /\ dir' \subseteq ever' /\ ever' \subseteq Entry
      /\ since' \subseteq Entry
  BY <1>1 DEF DirBecomes, IInv, TypeOK, History
<1>3. call # "none" => since' \subseteq since /\ ever \subseteq ever'
  BY <1>1 DEF DirBecomes
<1>4. call = "none" => results = {}
  BY DEF IInv, Fetched
<1>5. TypeOK'
  BY <1>2, ChangedTo DEF IInv, TypeOK
<1>6. Fetched'
  BY <1>3, <1>4 DEF IInv, Fetched
<1> QED
  BY <1>2, <1>5, <1>6 DEF IInv, History, Working, WithinLimit

LEMMA BeginKeeps ==
    ASSUME IInv, NEW op \in Calls, NEW rc \in Codes, Begin(op, rc)
    PROVE  IInv'
<1>1. TypeOK'
  BY DEF Begin, IInv, TypeOK, Nothing, server, news, Calls, Codes
<1>2. /\ cookie = 0 /\ results = {} /\ count = 0
      /\ UNCHANGED <<opt, cookie, results, count, since, ever, up, open, dir>>
      /\ call = "none" /\ call' # "none" /\ sent' = FALSE /\ returned' = Nothing
  BY DEF Begin, IInv, Fetched, server, news, Calls
<1>3. \A e \in since : ~(e <= 0)
  BY CountAssumption DEF IInv, TypeOK, Entry
<1>4. Fetched'
  BY <1>2, <1>3 DEF IInv, Fetched
<1> QED
  BY <1>1, <1>2, <1>4 DEF IInv, History, Working, WithinLimit, Nothing

LEMMA ReturnKeeps ==
    ASSUME IInv, NEW ok \in BOOLEAN, NEW rc \in Codes, NEW got \in SUBSET Entry, NEW n,
           Return(ok, rc, got, n), open' \subseteq open, "search" \notin open',
           call = "search" /\ opt.size > 0 => Cardinality(got) <= opt.size
    PROVE  IInv'
<1>1. TypeOK'
  <2>1. returned' \in [op : Calls \cup {"none"}, ok : BOOLEAN, errno : Codes,
                        got : SUBSET Entry, full : BOOLEAN]
    BY DEF Return, Reached, IInv, TypeOK
  <2>2. notices' \in Seq(Entry)
    BY DEF Return
  <2> QED
    BY <2>1, <2>2 DEF Return, IInv, TypeOK
<1>2. Fetched'
  <2>1. opt' = opt /\ opt.size \in Nat
    BY LimitsAssumption DEF Return, IInv, TypeOK
  <2>2. call' = "none" /\ cookie' = 0 /\ results' = {} /\ count' = 0
    BY DEF Return
  <2> QED
    BY <2>1, <2>2, FS_EmptySet DEF Fetched
<1> QED
  BY <1>1, <1>2 DEF Return, IInv, History, Working, WithinLimit

\* What a page adds to the results of the search.
LEMMA PageAdds ==
    ASSUME IInv, call = "search", NEW code, NEW got \in SUBSET Entry, NEW more \in Nat,
           Answered(code, got, more), code # "error"
    PROVE  LET all == results \cup Taken(got)
               n   == count + Cardinality(Taken(got))
           IN /\ all \subseteq ever /\ all \subseteq Entry
              /\ n \in Nat /\ n = Cardinality(all)
              /\ opt.size > 0 => n <= opt.size
              /\ more > 0 => (cookie < more /\ \A e \in all : e <= more)
              /\ ~Reached(n) /\ ~opt.user /\ LimitKept(code) # "limit" =>
                     /\ Paging \/ more = 0
                     /\ \A e \in since : more = 0 \/ e <= more => e \in all
<1> DEFINE all == results \cup Taken(got)
<1> DEFINE n == count + Cardinality(Taken(got))
<1>1. /\ got \subseteq dir /\ \A e \in got : e > cookie
      /\ more > 0 => cookie < more /\ \A e \in got : e <= more
  BY DEF Answered
<1>2. /\ opt.size \in Nat /\ count \in Nat /\ cookie \in Nat /\ results \subseteq Entry
      /\ dir \subseteq Entry /\ Entry \subseteq Nat
  <2>1. Entry \subseteq Nat
    BY CountAssumption DEF Entry
  <2> QED
    BY <2>1, LimitsAssumption DEF IInv, TypeOK
<1>3. Taken(got) \subseteq got
  BY DEF Taken
<1>4. all \subseteq ever /\ all \subseteq Entry
  BY <1>1, <1>2, <1>3 DEF IInv, Fetched, History
<1>5. Cardinality(Taken(got)) \in Nat
  BY <1>3, EntriesAreFinite
<1>6. n = Cardinality(all)
  <2>1. results \cap Taken(got) = {}
    <3>1. ASSUME NEW e \in results, e \in got PROVE FALSE
      <4>1. e <= cookie /\ e > cookie /\ e \in Nat
        BY <1>1, <1>2, <3>1 DEF IInv, Fetched
      <4> QED
        BY <1>2, <4>1
    <3> QED
      BY <1>3, <3>1
  <2>2. Cardinality(all) = Cardinality(results) + Cardinality(Taken(got))
    BY <1>2, <1>3, <2>1, DisjointAdds
  <2> QED
    BY <2>2 DEF IInv, Fetched
<1>7. opt.size > 0 => n <= opt.size
  BY <1>2, TakenWithinLimit DEF IInv, Fetched
<1>8. ASSUME more > 0 PROVE cookie < more /\ \A e \in all : e <= more
  <2>1. cookie < more /\ \A e \in Taken(got) : e <= more
    BY <1>1, <1>3, <1>8
  <2>2. ASSUME NEW e \in results PROVE e <= more
    <3>1. e \in Nat /\ e <= cookie
      BY <1>2 DEF IInv, Fetched
    <3> QED
      BY <1>2, <2>1, <3>1
  <2> QED
    BY <2>1, <2>2
<1>9. ASSUME ~Reached(n), ~opt.user, LimitKept(code) # "limit"
      PROVE  /\ Paging \/ more = 0
             /\ \A e \in since : more = 0 \/ e <= more => e \in all
  <2>1. Taken(got) = got
    BY <1>2, <1>9, TakenAll
  <2>2. code # "limit" /\ errno # "limit"
    BY <1>9 DEF LimitKept
  <2>3. CASE code = "success" /\ more = 0 /\ got = {e \in dir : e > cookie}
    <3>1. ASSUME NEW e \in since PROVE e \in all
      <4>1. e \in dir /\ e \in Nat
        BY <1>2 DEF IInv, History
      <4>2. CASE e <= cookie
        BY <1>9, <2>2, <4>2 DEF IInv, Fetched
      <4>3. CASE ~(e <= cookie)
        BY <1>2, <2>1, <2>3, <4>1, <4>3
      <4> QED
        BY <4>2, <4>3
    <3> QED
      BY <2>3, <3>1
  <2>4. CASE /\ Paging /\ more \in {e \in dir : e > cookie}
             /\ got = {e \in {d \in dir : d > cookie} : e <= more}
    <3>1. ASSUME NEW e \in since, more = 0 \/ e <= more PROVE e \in all
      <4>1. e \in dir /\ e \in Nat
        BY <1>2 DEF IInv, History
      <4>2. CASE e <= cookie
        BY <1>9, <2>2, <4>2 DEF IInv, Fetched
      <4>3. CASE ~(e <= cookie)
        <5>1. more > cookie /\ more # 0
          BY <1>2, <2>4
        <5> QED
          BY <1>2, <2>1, <2>4, <3>1, <4>1, <4>3, <5>1
      <4> QED
        BY <4>2, <4>3
    <3> QED
      BY <2>4, <3>1
  <2> QED
    BY <1>9, <2>2, <2>3, <2>4 DEF Answered
<1> QED
  BY <1>2, <1>4, <1>5, <1>6, <1>7, <1>8, <1>9

LEMMA PageKeeps == ASSUME IInv, Page PROVE IInv'
<1>1. PICK code \in {"success", "limit", "error"}, got \in SUBSET Entry, more \in 0 .. Count :
          LET all == results \cup Taken(got)
              n   == count + Cardinality(Taken(got))
              rc  == LimitKept(code)
          IN /\ Answered(code, got, more)
             /\ IF code = "error" THEN Return(FALSE, code, results, count)
                ELSE IF Reached(n) \/ ~Paging \/ more = 0
                THEN Return(TRUE, rc, all, n)
                ELSE /\ sent' = FALSE /\ cookie' = more
                     /\ errno' = rc /\ results' = all /\ count' = n
                     /\ UNCHANGED <<opt, ld, call, returned, reported,
                                    dir, up, news>>
  BY DEF Page
<1>2. call = "search" /\ open' = open \ {"search"} /\ more \in Nat
  BY CountAssumption DEF Page
<1> DEFINE all == results \cup Taken(got)
<1> DEFINE n == count + Cardinality(Taken(got))
<1>3. LimitKept(code) \in Codes /\ code \in Codes
  BY DEF LimitKept, Codes, IInv, TypeOK
<1>4. CASE code = "error"
  <2>1. Return(FALSE, code, results, count) /\ results \in SUBSET Entry
    BY <1>1, <1>4 DEF IInv, TypeOK
  <2>2. opt.size > 0 => Cardinality(results) <= opt.size
    BY DEF IInv, Fetched
  <2> QED
    BY <1>2, <1>3, <2>1, <2>2, ReturnKeeps
<1>5. CASE code # "error" /\ (Reached(n) \/ ~Paging \/ more = 0)
  <2>1. Return(TRUE, LimitKept(code), all, n)
    BY <1>1, <1>5
  <2>2. all \in SUBSET Entry /\ (opt.size > 0 => Cardinality(all) <= opt.size)
    BY <1>1, <1>2, <1>5, PageAdds
  <2> HIDE DEF all, n
  <2> QED
    BY <1>2, <1>3, <2>1, <2>2, ReturnKeeps
<1>6. CASE code # "error" /\ ~Reached(n) /\ Paging /\ more # 0
  <2>1. /\ sent' = FALSE /\ cookie' = more
        /\ errno' = LimitKept(code) /\ results' = all /\ count' = n
        /\ UNCHANGED <<opt, ld, call, returned, reported, dir, up, news>>
    BY <1>1, <1>6
  <2>2. /\ all \subseteq ever /\ all \subseteq Entry
        /\ n \in Nat /\ n = Cardinality(all)
        /\ opt.size > 0 => n <= opt.size
        /\ \A e \in all : e <= more
        /\ ~opt.user /\ LimitKept(code) # "limit" =>
               \A e \in since : e <= more => e \in all
    <3>1. /\ all \subseteq ever /\ all \subseteq Entry
          /\ n \in Nat /\ n = Cardinality(all)
          /\ opt.size > 0 => n <= opt.size
          /\ more > 0 => (cookie < more /\ \A e \in all : e <= more)
          /\ ~Reached(n) /\ ~opt.user /\ LimitKept(code) # "limit" =>
                 /\ Paging \/ more = 0
                 /\ \A e \in since : more = 0 \/ e <= more => e \in all
      BY <1>1, <1>2, <1>6, PageAdds
    <3>2. more > 0
      BY <1>2, <1>6
    <3> HIDE DEF all, n
    <3> QED
      BY <1>6, <3>1, <3>2
  <2> HIDE DEF all, n
  <2>3. TypeOK'
    BY <1>2, <1>3, <2>1, <2>2 DEF IInv, TypeOK, news
  <2>4. Fetched'
    BY <1>2, <2>1, <2>2 DEF Fetched, news
  <2> QED
    BY <1>2, <2>1, <2>3, <2>4 DEF IInv, History, Working, WithinLimit, news
<1> QED
  BY <1>4, <1>5, <1>6

LEMMA SendKeeps == ASSUME IInv, Send PROVE IInv'
<1>1. PICK order \in [1 .. Cardinality(dir) -> dir] : notices' = FirstSent(order)
  BY DEF Send
<1>2. Cardinality(dir) \in Nat /\ dir \subseteq Entry
  BY EntriesAreFinite DEF IInv, TypeOK
<1>3. notices' \in Seq(Entry)
  <2> HIDE DEF Entry
  <2> QED
    BY <1>1, <1>2 DEF FirstSent
<1>4. call \in Calls
  BY DEF Send, IInv, TypeOK
<1>5. TypeOK'
  BY <1>3, <1>4 DEF Send, IInv, TypeOK
<1>6. Fetched'
  BY DEF Send, IInv, Fetched
<1> QED
  BY <1>5, <1>6 DEF Send, IInv, History, Working, WithinLimit

\* What the calls that fail, and the searches for news, return.
LEMMA OthersKeep ==
    ASSUME IInv, SendFails \/ Timeout \/ LinkDown \/ SyncRefreshed \/ Enough \/ Final
    PROVE  IInv'
<1>1. results \in SUBSET Entry /\ (call = "search" /\ opt.size > 0 => Cardinality(results) <= opt.size)
  BY DEF IInv, TypeOK, Fetched
<1>2. errno \in Codes /\ {"success", "limit", "error"} \subseteq Codes
  BY DEF IInv, TypeOK, Codes
<1>3. CASE SendFails
  BY <1>1, <1>2, <1>3, ReturnKeeps DEF SendFails, IInv, Working
<1>4. CASE Timeout
  BY <1>1, <1>2, <1>4, ReturnKeeps DEF Timeout, IInv, Working
<1>5. CASE LinkDown
  BY <1>1, <1>2, <1>5, ReturnKeeps DEF LinkDown, IInv, Working
<1>6. CASE SyncRefreshed
  <2>1. PICK got \in SUBSET Entry : Return(TRUE, errno, got, Cardinality(got))
    BY <1>6 DEF SyncRefreshed
  <2>2. call = "sync" /\ open' \subseteq open /\ "search" \notin open'
    BY <1>6 DEF SyncRefreshed, IInv, Working
  <2> QED
    BY <1>2, <2>1, <2>2, ReturnKeeps
<1>7. CASE Enough
  BY <1>1, <1>2, <1>7, ReturnKeeps DEF Enough, Waiting, IInv, Working
<1>8. CASE Final
  <2>1. PICK code \in {"success", "limit", "error"} : Return(TRUE, code, results, count)
    BY <1>8 DEF Final, Waiting
  <2>2. call = "psearch" /\ open' \subseteq open /\ "search" \notin open'
    BY <1>8 DEF Final, Waiting, IInv, Working
  <2> QED
    BY <1>1, <1>2, <2>1, <2>2, ReturnKeeps
<1> QED
  BY <1>3, <1>4, <1>5, <1>6, <1>7, <1>8

LEMMA NoticeKeeps == ASSUME IInv, Notice PROVE IInv'
<1>1. notices \in Seq(Entry) /\ notices # <<>>
  BY DEF Notice, IInv, TypeOK
<1>2. Head(notices) \in Entry /\ Tail(notices) \in Seq(Entry)
  BY <1>1
<1>3. reported' \subseteq Entry
  BY <1>2 DEF Notice, IInv, TypeOK
<1>4. TypeOK'
  BY <1>2, <1>3 DEF Notice, IInv, TypeOK
<1>5. Fetched'
  BY DEF Notice, IInv, Fetched
<1> QED
  BY <1>4, <1>5 DEF Notice, IInv, History, Working, WithinLimit

LEMMA StepIInv == IInv /\ [Next]_vars => IInv'
<1> SUFFICES ASSUME IInv, [Next]_vars PROVE IInv'
  OBVIOUS
<1>1. CASE Connect
  <2>1. TypeOK'
    BY <1>1 DEF Connect, IInv, TypeOK, news
  <2>2. Fetched'
    BY <1>1 DEF Connect, IInv, Fetched
  <2> QED
    BY <1>1, <2>1, <2>2 DEF Connect, IInv, History, Working, WithinLimit, news
<1>2. CASE Request \/ Bind \/ Cancel
  <2>1. "success" \in Codes
    BY DEF Codes
  <2> QED
    BY <1>2, <2>1, OneCallKeeps DEF Request, Bind, Cancel
<1>3. CASE Write
  <2>1. CASE OneCall("success") /\ Changed /\ UNCHANGED open
    <3>1. "success" \in Codes
      BY DEF Codes
    <3> QED
      BY <2>1, <3>1, ChangedKeeps DEF OneCall
  <2>2. CASE \E rc \in Codes : OneCall(rc) /\ UNCHANGED <<dir, open, news>>
    BY <2>2, OneCallKeeps
  <2> QED
    BY <1>3, <2>1, <2>2 DEF Write
<1>4. CASE Search \/ SyncRefreshOnly \/ PersistentSearch
  <2>1. errno \in Codes /\ "success" \in Codes /\ {"search", "sync", "psearch"} \subseteq Calls
    BY DEF IInv, TypeOK, Codes, Calls
  <2> QED
    BY <1>4, <2>1, BeginKeeps DEF Search, SyncRefreshOnly, PersistentSearch
<1>5. CASE Progress
  BY <1>5, SendKeeps, PageKeeps, OthersKeep, NoticeKeeps DEF Progress
<1>6. CASE OtherClient
  <2>1. errno \in Codes
    BY DEF IInv, TypeOK
  <2> QED
    BY <1>6, <2>1, ChangedKeeps DEF OtherClient, client
<1>7. CASE Lost
  <2>1. TypeOK'
    BY <1>7 DEF Lost, client, news, IInv, TypeOK
  <2>2. Fetched'
    BY <1>7 DEF Lost, client, news, IInv, Fetched
  <2> QED
    BY <1>7, <2>1, <2>2 DEF Lost, client, news, IInv, History, Working, WithinLimit
<1>8. CASE UNCHANGED vars
  <2>1. TypeOK'
    BY <1>8 DEF vars, client, server, news, IInv, TypeOK
  <2>2. Fetched'
    BY <1>8 DEF vars, client, server, news, IInv, Fetched
  <2> QED
    BY <1>8, <2>1, <2>2 DEF vars, client, server, news, IInv, History, Working, WithinLimit
<1> QED
  BY <1>1, <1>2, <1>3, <1>4, <1>5, <1>6, <1>7, <1>8 DEF Next

LEMMA Invariance == Spec => []IInv
BY InitIInv, StepIInv, PTL DEF Spec

-----------------------------------------------------------------------------
\* The variables of the connection keep their types, whatever libldap, the server and
\* the other clients do.
THEOREM TypeCorrect == Spec => []TypeOK
<1>1. IInv => TypeOK
  BY DEF IInv
<1> QED
  BY <1>1, Invariance, PTL

\* The pages of a search are disjoint and a search returns at most sizelimit entries, for
\* any number of entries, page sizes and limits.
THEOREM PagesAreDisjoint == Spec => []NoEntryTwice
<1>1. IInv => NoEntryTwice
  BY DEF IInv, Fetched, WithinLimit, NoEntryTwice
<1> QED
  BY <1>1, Invariance, PTL

\* A search that has returned leaves no request of its own at the server.
THEOREM SearchesAreClosed == Spec => []NothingLeftOpen
<1>1. IInv => NothingLeftOpen
  BY DEF IInv, Working, NothingLeftOpen
<1> QED
  BY <1>1, Invariance, PTL

-----------------------------------------------------------------------------
(* The connection implements SearchAnswer: a step is one of its steps, or    *)
(* changes nothing it sees.                                                  *)

\* The value SA sees as answer.
Seen == IF call # "none" THEN [status |-> "asked", got |-> {}]
        ELSE [status |-> Status(returned), got |-> returned.got]

LEMMA StatusIsNotAsked ==
    ASSUME NEW r
    PROVE  Status(r) \in {"complete", "some", "failed"}
BY DEF Status

LEMMA ReturnAnswers ==
    ASSUME IInv, call # "none", NEW ok \in BOOLEAN, NEW rc, NEW got, NEW n, Return(ok, rc, got, n),
           got \subseteq ever,
           ok /\ call = "search" /\ rc # "limit" /\ ~Reached(n) /\ ~opt.user => since \subseteq got
    PROVE  SA!Next
<1> DEFINE r == [op |-> call, ok |-> ok, errno |-> rc, got |-> got, full |-> Reached(n)]
<1>1. /\ call' = "none" /\ returned' = r /\ opt' = opt
      /\ since' = dir /\ ever' = dir /\ dir' = dir
  BY DEF Return
<1>2. Seen = [status |-> "asked", got |-> {}]
  BY DEF Seen
<1>3. Seen' = [status |-> Status(r), got |-> got]
  BY <1>1 DEF Seen, Status
<1>4. Status(r) = "complete" => since \subseteq got
  BY DEF Status
<1>5. Status(r) \in SA!Statuses
  BY StatusIsNotAsked DEF SA!Statuses
<1>6. got \in SUBSET Entry
  BY DEF IInv, TypeOK
<1>7. SA!Answer(Status(r), got)
  BY <1>1, <1>2, <1>3, <1>4 DEF SA!Answer, SA!Asked, Seen
<1> HIDE DEF r
<1> QED
  BY <1>5, <1>6, <1>7 DEF SA!Next

LEMMA ChangedChanges ==
    ASSUME IInv, Changed, UNCHANGED <<opt, call, returned>>
    PROVE  SA!Next
<1>1. PICK d \in SUBSET Entry : DirBecomes(d)
  BY ChangedTo
<1>2. Seen' = Seen
  BY DEF Seen, Status
<1>3. Seen = SA!Asked <=> call # "none"
  <2>1. call = "none" => Seen.status # "asked"
    BY StatusIsNotAsked DEF Seen
  <2>2. call # "none" => Seen = [status |-> "asked", got |-> {}]
    BY DEF Seen
  <2>3. SA!Asked.status = "asked"
    BY DEF SA!Asked
  <2> QED
    BY <2>1, <2>2, <2>3 DEF SA!Asked
<1>4. SA!Change
  BY <1>1, <1>2, <1>3 DEF SA!Change, DirBecomes, Seen
<1> QED
  BY <1>4 DEF SA!Next

LEMMA BeginAsks ==
    ASSUME IInv, NEW op \in Calls, NEW rc, Begin(op, rc)
    PROVE  SA!Next
<1>1. call = "none" /\ call' = op /\ op # "none" /\ UNCHANGED <<dir, since, ever>>
  BY DEF Begin, server, news, Calls
<1>2. Seen.status # "asked"
  BY <1>1, StatusIsNotAsked DEF Seen
<1>3. Seen' = [status |-> "asked", got |-> {}]
  BY <1>1 DEF Seen
<1>4. SA!Ask
  BY <1>1, <1>2, <1>3 DEF SA!Ask, SA!Asked, Seen
<1> QED
  BY <1>4 DEF SA!Next

LEMMA NothingSeen ==
    ASSUME UNCHANGED <<opt, call, returned, dir, since, ever>>
    PROVE  UNCHANGED SA!vars
BY DEF SA!vars, Status

LEMMA PageAnswers == ASSUME IInv, Page PROVE SA!Next \/ UNCHANGED SA!vars
<1>1. PICK code \in {"success", "limit", "error"}, got \in SUBSET Entry, more \in 0 .. Count :
          LET all == results \cup Taken(got)
              n   == count + Cardinality(Taken(got))
              rc  == LimitKept(code)
          IN /\ Answered(code, got, more)
             /\ IF code = "error" THEN Return(FALSE, code, results, count)
                ELSE IF Reached(n) \/ ~Paging \/ more = 0
                THEN Return(TRUE, rc, all, n)
                ELSE UNCHANGED <<opt, call, returned, dir, since, ever>>
  BY DEF Page, news
<1>2. call = "search" /\ more \in Nat
  BY CountAssumption DEF Page
<1> DEFINE all == results \cup Taken(got)
<1> DEFINE n == count + Cardinality(Taken(got))
<1>3. CASE code = "error"
  <2>1. Return(FALSE, code, results, count) /\ results \subseteq ever
    BY <1>1, <1>3 DEF IInv, Fetched
  <2> QED
    BY <1>2, <2>1, ReturnAnswers
<1>4. CASE code # "error" /\ (Reached(n) \/ ~Paging \/ more = 0)
  <2>1. Return(TRUE, LimitKept(code), all, n)
    BY <1>1, <1>4
  <2>2. /\ all \subseteq ever
        /\ ~Reached(n) /\ ~opt.user /\ LimitKept(code) # "limit" =>
               /\ Paging \/ more = 0
               /\ \A e \in since : more = 0 \/ e <= more => e \in all
    BY <1>1, <1>2, <1>4, PageAdds
  <2> HIDE DEF all, n
  <2>3. LimitKept(code) # "limit" /\ ~Reached(n) /\ ~opt.user => since \subseteq all
    BY <1>4, <2>2
  <2> QED
    BY <1>2, <2>1, <2>2, <2>3, ReturnAnswers
<1>5. CASE code # "error" /\ ~(Reached(n) \/ ~Paging \/ more = 0)
  <2>1. UNCHANGED <<opt, call, returned, dir, since, ever>>
    BY <1>1, <1>5
  <2> QED
    BY <2>1, NothingSeen
<1> QED
  BY <1>3, <1>4, <1>5

LEMMA OthersAnswer ==
    ASSUME IInv, SendFails \/ Timeout \/ LinkDown \/ SyncRefreshed \/ Enough \/ Final
    PROVE  SA!Next
<1>1. results \subseteq ever
  BY DEF IInv, Fetched
<1>2. CASE SendFails
  BY <1>1, <1>2, ReturnAnswers DEF SendFails
<1>3. CASE Timeout
  BY <1>1, <1>3, ReturnAnswers DEF Timeout, IInv, Working
<1>4. CASE LinkDown
  BY <1>1, <1>4, ReturnAnswers DEF LinkDown, IInv, Working
<1>5. CASE SyncRefreshed
  <2>1. PICK code \in {"success", "limit", "error"}, got \in SUBSET Entry :
            Answered(code, got, 0) /\ Return(TRUE, errno, got, Cardinality(got))
    BY <1>5 DEF SyncRefreshed
  <2>2. got \subseteq ever
    BY <2>1 DEF Answered, IInv, History
  <2> QED
    BY <1>5, <2>1, <2>2, ReturnAnswers DEF SyncRefreshed
<1>6. CASE Enough
  BY <1>1, <1>6, ReturnAnswers DEF Enough, Waiting
<1>7. CASE Final
  <2>1. PICK code : Return(TRUE, code, results, count)
    BY <1>7 DEF Final, Waiting
  <2> QED
    BY <1>1, <1>7, <2>1, ReturnAnswers DEF Final, Waiting
<1> QED
  BY <1>2, <1>3, <1>4, <1>5, <1>6, <1>7

\* Every search implements what SearchAnswer promises, for any number of entries, page
\* sizes and limits, whatever fails and whatever other clients do between two pages.
THEOREM SearchesAnswer == Spec => Answers
<1>1. Init => SA!Init
  BY DEF Init, SA!Init, Nothing, Status
<1>2. IInv /\ [Next]_vars => [SA!Next]_(SA!vars)
  <2> SUFFICES ASSUME IInv, [Next]_vars PROVE SA!Next \/ UNCHANGED SA!vars
    OBVIOUS
  <2>1. CASE Connect \/ Request \/ Bind \/ Cancel \/ Lost \/ Send \/ Notice \/ UNCHANGED vars
    <3>1. UNCHANGED <<opt, call, returned, dir, since, ever>>
      BY <2>1 DEF Connect, Request, Bind, Cancel, OneCall, Lost, Send, Notice, vars, client, server, news
    <3> QED
      BY <3>1, NothingSeen
  <2>2. CASE Write
    <3>1. CASE OneCall("success") /\ Changed
      BY <3>1, ChangedChanges DEF OneCall
    <3>2. CASE \E rc \in Codes : OneCall(rc) /\ UNCHANGED <<dir, open, news>>
      BY <3>2, NothingSeen DEF OneCall, news
    <3> QED
      BY <2>2, <3>1, <3>2 DEF Write
  <2>3. CASE Search \/ SyncRefreshOnly \/ PersistentSearch
    <3>1. {"search", "sync", "psearch"} \subseteq Calls
      BY DEF Calls
    <3> QED
      BY <2>3, <3>1, BeginAsks DEF Search, SyncRefreshOnly, PersistentSearch
  <2>4. CASE Page
    BY <2>4, PageAnswers
  <2>5. CASE SendFails \/ Timeout \/ LinkDown \/ SyncRefreshed \/ Enough \/ Final
    BY <2>5, OthersAnswer
  <2>6. CASE OtherClient
    BY <2>6, ChangedChanges DEF OtherClient, client
  <2> QED
    BY <2>1, <2>2, <2>3, <2>4, <2>5, <2>6 DEF Next, Progress
<1> QED
  BY <1>1, <1>2, Invariance, PTL DEF Spec, Answers, SA!Spec

-----------------------------------------------------------------------------
(* The callback of a persistent search.                                      *)

OnTheWay(N) == {N[i] : i \in DOMAIN N}
Following == Waiting /\ up
Tells == dir \ renamed \subseteq reported \cup OnTheWay(notices)
         /\ reported \cup OnTheWay(notices) \subseteq ever
CInv ==
    /\ ~Waiting => reported = {}
    /\ Following => Tells

LEMMA OneMoreOnTheWay ==
    ASSUME NEW N \in Seq(Entry), NEW e \in Entry
    PROVE  OnTheWay(Append(N, e)) = OnTheWay(N) \cup {e}
<1> DEFINE M == Append(N, e)
           n == Len(N)
<1>1. /\ n \in Nat /\ DOMAIN N = 1 .. n /\ DOMAIN M = 1 .. n + 1
      /\ M[n + 1] = e /\ \A i \in 1 .. n : M[i] = N[i]
  OBVIOUS
<1> HIDE DEF M, n
<1>2. ASSUME NEW i \in 1 .. n + 1 PROVE M[i] \in OnTheWay(N) \cup {e}
  <2>1. i = n + 1 \/ i \in 1 .. n
    BY <1>1
  <2> QED
    BY <1>1, <2>1 DEF OnTheWay
<1>3. ASSUME NEW i \in 1 .. n PROVE N[i] \in OnTheWay(M)
  <2>1. i \in 1 .. n + 1
    BY <1>1
  <2> QED
    BY <1>1, <2>1 DEF OnTheWay
<1>4. e \in OnTheWay(M)
  <2>1. n + 1 \in 1 .. n + 1
    BY <1>1
  <2> QED
    BY <1>1, <2>1 DEF OnTheWay
<1> QED
  BY <1>1, <1>2, <1>3, <1>4 DEF OnTheWay, M

\* The callback is told of the oldest notice.
LEMMA OneTold ==
    ASSUME NEW N \in Seq(Entry), N # <<>>
    PROVE  {Head(N)} \cup OnTheWay(Tail(N)) = OnTheWay(N)
<1> DEFINE M == Tail(N)
           n == Len(N)
<1>1. /\ n \in Nat /\ n > 0 /\ DOMAIN N = 1 .. n /\ DOMAIN M = 1 .. n - 1
      /\ Head(N) = N[1] /\ \A i \in 1 .. n - 1 : M[i] = N[i + 1]
  OBVIOUS
<1> HIDE DEF M, n
<1>2. ASSUME NEW i \in 1 .. n - 1 PROVE M[i] \in OnTheWay(N)
  <2>1. i + 1 \in 1 .. n
    BY <1>1
  <2> QED
    BY <1>1, <2>1 DEF OnTheWay
<1>3. ASSUME NEW i \in 1 .. n PROVE N[i] \in {N[1]} \cup OnTheWay(M)
  <2>1. i = 1 \/ (i - 1 \in 1 .. n - 1 /\ (i - 1) + 1 = i)
    BY <1>1
  <2>2. i # 1 => N[i] = M[i - 1]
    BY <1>1, <2>1
  <2> QED
    BY <1>1, <2>1, <2>2 DEF OnTheWay
<1>4. N[1] \in OnTheWay(N)
  <2>1. 1 \in 1 .. n
    BY <1>1
  <2> QED
    BY <1>1, <2>1 DEF OnTheWay
<1> QED
  BY <1>1, <1>2, <1>3, <1>4 DEF OnTheWay, M

\* The first notices list the directory.
LEMMA AllListed ==
    ASSUME NEW d \in SUBSET Entry, NEW order \in [1 .. Cardinality(d) -> d],
           \A i, j \in DOMAIN order : i < j => order[i] < order[j]
    PROVE  OnTheWay(order) = d
<1> DEFINE n == Cardinality(d)
<1>1. IsFiniteSet(d) /\ n \in Nat /\ Entry \subseteq Nat
  BY EntriesAreFinite, CountAssumption DEF Entry
<1>2. ASSUME NEW i \in 1 .. n, NEW j \in 1 .. n, i # j PROVE order[i] # order[j]
  <2>1. order[i] \in Nat /\ order[j] \in Nat
    BY <1>1
  <2>2. i < j \/ j < i
    BY <1>1, <1>2
  <2>3. i \in DOMAIN order /\ j \in DOMAIN order
    OBVIOUS
  <2>4. order[i] < order[j] \/ order[j] < order[i]
    BY <2>2, <2>3
  <2> QED
    BY <2>1, <2>4
<1>3. ASSUME NEW e \in d PROVE \E i \in 1 .. n : order[i] = e
  <2> SUFFICES ASSUME \A i \in 1 .. n : order[i] # e PROVE FALSE
    OBVIOUS
  <2>1. order \in [1 .. n -> d \ {e}]
    OBVIOUS
  <2>2. IsFiniteSet(d \ {e}) /\ Cardinality(d \ {e}) = n - 1
    BY <1>1, <1>3, FS_RemoveElement
  <2>3. IsFiniteSet(1 .. n) /\ Cardinality(1 .. n) = n
    BY <1>1, FS_Interval
  <2> HIDE DEF n
  <2>4. Cardinality(d \ {e}) < Cardinality(1 .. n)
    BY <1>1, <2>2, <2>3
  <2> DEFINE S == 1 .. n
  <2> DEFINE T == d \ {e}
  <2>5. \E i, j \in S : i # j /\ order[i] = order[j]
    <3> HIDE DEF S, T
    <3>1. IsFiniteSet(S) /\ IsFiniteSet(T) /\ Cardinality(T) < Cardinality(S) /\ order \in [S -> T]
      BY <2>1, <2>2, <2>3, <2>4 DEF S, T
    <3> QED
      BY <3>1, FS_PigeonHole
  <2> QED
    BY <1>2, <2>5
<1> QED
  BY <1>3 DEF OnTheWay

LEMMA ChangedTells ==
    ASSUME IInv, CInv, Changed, UNCHANGED <<call, sent, reported, up>>
    PROVE  CInv'
<1> SUFFICES ASSUME Following' PROVE Tells'
  BY DEF CInv, Waiting
<1>1. Following /\ Waiting /\ Tells /\ call # "none"
  BY DEF Following, Waiting, CInv
<1>2. notices \in Seq(Entry) /\ reported' = reported
  BY DEF IInv, TypeOK
<1>3. CASE Written
  <2>1. PICK e \in Entry : /\ Notify(e)
                           /\ \/ e \in dir /\ (DirBecomes(dir \ {e}) \/ DirBecomes(dir))
                              \/ DirBecomes(dir \cup {e})
    BY <1>3 DEF Written
  <2>2. notices' = Append(notices, e) /\ renamed' = renamed \ {e}
    BY <1>1, <2>1 DEF Notify
  <2>3. OnTheWay(notices') = OnTheWay(notices) \cup {e}
    BY <1>2, <2>2, OneMoreOnTheWay
  <2>4. dir' \subseteq dir \cup {e} /\ ever \subseteq ever' /\ e \in ever'
    BY <1>1, <2>1 DEF DirBecomes, IInv, History
  <2> QED
    BY <1>1, <1>2, <2>2, <2>3, <2>4 DEF Tells
<1>4. CASE Renamed
  <2>1. PICK e \in dir, f \in Entry \ dir :
            /\ DirBecomes((dir \ {e}) \cup {f}) /\ renamed' = renamed \cup {f}
            /\ UNCHANGED notices
    BY <1>1, <1>4 DEF Renamed
  <2> QED
    BY <1>1, <1>2, <2>1 DEF Tells, DirBecomes
<1> QED
  BY <1>3, <1>4 DEF Changed

LEMMA StepCInv == IInv /\ CInv /\ [Next]_vars => CInv'
<1> SUFFICES ASSUME IInv, CInv, [Next]_vars PROVE CInv'
  OBVIOUS
<1>1. CASE /\ UNCHANGED <<call, sent, reported, dir, news>>
           /\ up' => up \/ call = "none"
  BY <1>1 DEF CInv, Following, Waiting, Tells, news
<1>2. CASE Connect \/ Request \/ Bind \/ Cancel \/ Lost \/ UNCHANGED vars
  BY <1>1, <1>2 DEF Connect, Request, Bind, Cancel, OneCall, Lost, vars, client, server
<1>3. CASE Write
  <2>1. CASE OneCall("success") /\ Changed
    BY <2>1, ChangedTells DEF OneCall
  <2>2. CASE \E rc \in Codes : OneCall(rc) /\ UNCHANGED <<dir, open, news>>
    BY <1>1, <2>2 DEF OneCall
  <2> QED
    BY <1>3, <2>1, <2>2 DEF Write
<1>4. CASE OtherClient
  BY <1>4, ChangedTells DEF OtherClient, client
<1>5. CASE Search \/ SyncRefreshOnly \/ PersistentSearch
  <2>1. sent' = FALSE /\ reported' = reported /\ call = "none"
    BY <1>5 DEF Search, SyncRefreshOnly, PersistentSearch, Begin
  <2> QED
    BY <2>1 DEF CInv, Following, Waiting
<1>6. CASE sent' = FALSE /\ reported' = {}
  BY <1>6 DEF CInv, Following, Waiting
<1>7. CASE SendFails \/ Timeout \/ LinkDown \/ SyncRefreshed \/ Enough \/ Final
  BY <1>6, <1>7 DEF SendFails, Timeout, LinkDown, SyncRefreshed, Enough, Final, Return
<1>8. CASE Page
  <2>1. sent' = FALSE /\ (reported' = {} \/ reported' = reported) /\ call = "search"
    BY <1>8 DEF Page, Return
  <2> QED
    BY <1>6, <2>1 DEF CInv, Waiting
<1>9. CASE Send
  <2>1. UNCHANGED <<call, reported, dir, ever>> /\ reported = {} /\ sent' = TRUE
    BY <1>9 DEF Send, CInv, Waiting
  <2>2. CASE call # "psearch"
    BY <2>1, <2>2 DEF CInv, Following, Waiting
  <2>3. CASE call = "psearch"
    <3>1. PICK order \in [1 .. Cardinality(dir) -> dir] :
              /\ \A i, j \in DOMAIN order : i < j => order[i] < order[j]
              /\ notices' = order
      BY <1>9, <2>3 DEF Send, FirstSent
    <3>2. dir \in SUBSET Entry /\ dir \subseteq ever
      BY DEF IInv, TypeOK, History
    <3>3. OnTheWay(notices') = dir
      BY <3>1, <3>2, AllListed
    <3> QED
      BY <2>1, <2>3, <3>2, <3>3 DEF CInv, Waiting, Tells
  <2> QED
    BY <2>2, <2>3
<1>10. CASE Notice
  <2>1. /\ notices \in Seq(Entry) /\ notices # <<>> /\ notices' = Tail(notices)
        /\ reported' = reported \cup {Head(notices)}
        /\ Following /\ Waiting /\ UNCHANGED <<call, sent, dir, renamed, ever>>
    BY <1>10 DEF Notice, IInv, TypeOK, Following
  <2>2. reported' \cup OnTheWay(notices') = reported \cup OnTheWay(notices)
    BY <2>1, OneTold
  <2> QED
    BY <2>1, <2>2 DEF CInv, Tells, Waiting, Following
<1> QED
  BY <1>2, <1>3, <1>4, <1>5, <1>7, <1>8, <1>9, <1>10 DEF Next, Progress

\* While a persistent search waits, its callback has been told of every entry there is, or
\* the notice is on its way, but of those that were renamed meanwhile; and of no entry
\* that never was, whatever other clients write and however many notices are on their way.
THEOREM CallbackMissesNone == Spec => []CallbackIsTold
<1>1. Init => CInv
  BY DEF Init, CInv, Following, Waiting
<1>2. Spec => []CInv
  BY <1>1, Invariance, StepCInv, PTL DEF Spec
<1>3. CInv => CallbackIsTold
  BY DEF CInv, CallbackIsTold, Following, Tells, OnTheWay
<1> QED
  BY <1>2, <1>3, PTL
=============================================================================
