------------------------------ MODULE LdapConn ------------------------------
(***************************************************************************)
(* A connection and the requests made on it: the class LDAPConn            *)
(* (src/ldap_conn.cpp).  libldap and the server answer as they may: a      *)
(* request is refused, meets a limit, times out, or the connection is      *)
(* lost; other clients change the directory between two pages.             *)
(*                                                                         *)
(* Only the entries that match the query are told apart.  They are         *)
(* numbers, in the order in which the server returns them, so a paging     *)
(* cookie is the last entry returned.  An operator whose name ends in Fault is  *)
(* the next one with a bug, for the mutants of PROJECT.json.               *)
(***************************************************************************)
EXTENDS Naturals, Sequences, FiniteSets

CONSTANTS Count,       \* the entries are 1 .. Count
          PagingSizes, \* pagingSize, 0 without --simplePageSize or -E pr=
          SizeLimits,  \* sizelimit, 0 without -z
          MaxNotices   \* bound: notices of a persistent search not yet read

Entry == 1 .. Count
Calls == {"search", "sync", "psearch"}
Codes == {"success", "limit", "error"}

ASSUME CountAssumption == Count \in Nat
ASSUME PagingAssumption == PagingSizes \subseteq Nat
ASSUME LimitsAssumption == SizeLimits \subseteq Nat
ASSUME NoticesAssumption == MaxNotices \in Nat

VARIABLES
    opt,       \* pagingSize, sizelimit and whether ctrls_ has a paging control
    ld,        \* ld is not null
    errno,     \* lastErrno: "limit" is 3, 4 or 11, "error" any other that is not 0
    call,      \* the call in progress, or "none"
    sent,      \* it waits in ldap_result
    cookie,    \* of the next page, 0 for the first
    results,   \* the entries of its results
    count,     \* results.size()
    returned,  \* what the last call returned, and the lastErrno its caller sees
    reported,  \* the entries its callback was told of
    dir,       \* the entries in the directory
    up,        \* the connection is there
    open,      \* the queries the server still works on
    notices,   \* of the persistent search: the entries sent by the server, not read yet
    renamed,   \* history, during a persistent search: those that got their name since,
               \* and of which no notice was sent
    since,     \* history, during a call: the entries in dir ever since it began
    ever       \* history, during a call: those in dir at some time since then

client == <<opt, ld, errno, call, sent, cookie, results, count, returned, reported>>
news == <<notices, renamed, since, ever>>
server == <<dir, up, open, news>>
vars == <<client, server>>

TypeOK ==
    /\ opt \in [paging : PagingSizes, size : SizeLimits, user : BOOLEAN]
    /\ ld \in BOOLEAN /\ sent \in BOOLEAN /\ up \in BOOLEAN
    /\ errno \in Codes
    /\ call \in Calls \cup {"none"}
    /\ cookie \in Nat /\ count \in Nat
    /\ results \subseteq Entry /\ reported \subseteq Entry
    /\ returned \in [op : Calls \cup {"none"}, ok : BOOLEAN, errno : Codes,
                      got : SUBSET Entry, full : BOOLEAN]
    /\ dir \subseteq Entry /\ since \subseteq Entry /\ ever \subseteq Entry
    /\ open \subseteq Calls
    /\ notices \in Seq(Entry) /\ renamed \subseteq Entry

Nothing == [op |-> "none", ok |-> FALSE, errno |-> "success", got |-> {}, full |-> FALSE]

Init ==
    /\ opt \in [paging : PagingSizes, size : SizeLimits, user : BOOLEAN]
    /\ ld = FALSE /\ errno = "success" /\ call = "none" /\ sent = FALSE
    /\ cookie = 0 /\ results = {} /\ count = 0 /\ reported = {}
    /\ returned = Nothing
    /\ dir \in SUBSET Entry /\ up = FALSE /\ open = {} /\ notices = <<>> /\ renamed = {}
    /\ since = dir /\ ever = dir

(* The connection and the requests that are one call of libldap.           *)

\* A new session: what the server still did on the old one ends with it.  libldap
\* contacts the server at the first request.
Connect ==
    /\ call = "none"
    /\ ld' \in BOOLEAN
    /\ up' = ld' /\ open' = {}
    /\ UNCHANGED <<opt, errno, call, sent, cookie, results, count, returned, reported,
                   dir, news>>

\* Each leaves its result code in lastErrno, and so forgets a limit met before.
OneCall(rc) ==
    /\ call = "none" /\ ld
    /\ ~up => rc = "error"
    /\ errno' = rc
    /\ UNCHANGED <<opt, ld, call, sent, cookie, results, count, returned, reported, up>>

\* startTLS, whoAmI, passwordModify, extendedOp.
Request == \E rc \in Codes : OneCall(rc) /\ UNCHANGED <<dir, open, news>>
\* simpleBind, saslBind: the server gives up what it did for the former identity.
Bind == \E rc \in Codes : OneCall(rc) /\ open' = {} /\ UNCHANGED <<dir, news>>
\* cancelOperation, abandon.
Cancel == \E op \in open : /\ OneCall("success") /\ open' = open \ {op}
                           /\ UNCHANGED <<dir, news>>

\* dir becomes d.
DirBecomes(d) ==
    /\ dir' = d
    /\ since' = IF call = "none" THEN d ELSE since \cap d
    /\ ever' = IF call = "none" THEN d ELSE ever \cup d

\* A persistent search waits for news.
Waiting == call = "psearch" /\ sent

\* The server sends a notice of e to a persistent search.  What has become of e is in
\* a control of the notice, which no code finds.
Notify(e) ==
    IF Waiting THEN /\ Len(notices) < MaxNotices
                    /\ notices' = Append(notices, e)
                    /\ renamed' = renamed \ {e}
    ELSE UNCHANGED <<notices, renamed>>

\* The changes a persistent search asks for, changeTypes 7: add, delete and modify ...
Written ==
    \E e \in Entry : /\ Notify(e)
                     /\ IF e \in dir THEN DirBecomes(dir \ {e}) \/ DirBecomes(dir)
                        ELSE DirBecomes(dir \cup {e})
\* ... and the one it does not ask for: a new name.
Renamed ==
    \E e \in dir, f \in Entry \ dir :
        /\ DirBecomes((dir \ {e}) \cup {f})
        /\ renamed' = IF Waiting THEN renamed \cup {f} ELSE renamed
        /\ UNCHANGED notices
Changed == Written \/ Renamed

\* deleteObject, addObject, renameObject and the modifications.
Write == \/ OneCall("success") /\ Changed /\ UNCHANGED open
         \/ \E rc \in Codes \ {"success"} :
                OneCall(rc) /\ UNCHANGED <<dir, open, news>>

(* search, persistentSearch and syncRefreshOnly.                           *)

PageSize == IF opt.size > 0 /\ opt.size < opt.paging THEN opt.size ELSE opt.paging
Paging == ~opt.user /\ PageSize > 0

Begin(op, rc) ==
    /\ call = "none" /\ ld
    /\ call' = op /\ sent' = FALSE /\ errno' = rc
    /\ returned' = Nothing
    /\ UNCHANGED <<opt, ld, cookie, results, count, reported, server>>

\* Unlike the others, search leaves lastErrno as the request before it did.
Search == Begin("search", errno)
SyncRefreshOnly == Begin("sync", "success")
PersistentSearch == Begin("psearch", "success")

\* What the caller is left with: true or false, lastErrno and the entries so far.
\* The rest is local to the call.
Reached(n) == opt.size > 0 /\ n >= opt.size
Return(ok, rc, got, n) ==
    /\ call' = "none" /\ sent' = FALSE /\ errno' = rc
    /\ returned' = [op |-> call, ok |-> ok, errno |-> rc, got |-> got, full |-> Reached(n)]
    /\ cookie' = 0 /\ results' = {} /\ count' = 0 /\ reported' = {} /\ notices' = <<>>
    /\ renamed' = {} /\ since' = dir /\ ever' = dir
    /\ UNCHANGED <<opt, ld, dir, up>>

FirstSentFault(order) == <<>>
\* With changesOnly false, a persistent search starts with the entries.
FirstSent(order) == IF call = "psearch" THEN order ELSE <<>>

\* ldap_search_ext.
Send ==
    /\ call # "none" /\ ~sent /\ up
    /\ sent' = TRUE /\ open' = open \cup {call}
    /\ \E order \in [1 .. Cardinality(dir) -> dir] :
           /\ \A i, j \in DOMAIN order : i < j => order[i] < order[j]
           /\ notices' = FirstSent(order)
    /\ UNCHANGED <<opt, ld, errno, call, cookie, results, count, returned, reported,
                   dir, up, renamed, since, ever>>
SendFails ==
    /\ call # "none" /\ ~sent
    /\ Return(FALSE, "error", results, count)
    /\ UNCHANGED open

TimeoutFault ==
    /\ sent /\ up
    /\ Return(FALSE, "error", results, count)
    /\ UNCHANGED open
RetryFault ==
    /\ sent /\ up
    /\ IF call = "search" THEN /\ sent' = FALSE
                               /\ open' = open \ {call}
                               /\ UNCHANGED <<opt, ld, errno, call, cookie, results, count,
                                      returned, reported, dir, up, news>>
       ELSE Return(FALSE, "error", results, count) /\ UNCHANGED open
\* ldap_result without an answer: search abandons its request, and the others do not.
Timeout ==
    /\ sent /\ up
    /\ Return(FALSE, "error", results, count)
    /\ open' = open \ (IF call = "search" THEN {call} ELSE {})
LinkDown ==
    /\ sent /\ ~up
    /\ Return(FALSE, "error", results, count)
    /\ UNCHANGED open

\* The answer to a query for the entries after the cookie: all of them, or a page, or
\* as many as a limit allows, or none.  more is the cookie of the next page.
Answered(code, got, more) ==
    LET rest == {e \in dir : e > cookie}
        UpTo(m) == {e \in rest : e <= m}
    IN \/ /\ code = "success" /\ more = 0 /\ got = rest
          /\ opt.size > 0 => Cardinality(rest) <= opt.size
       \/ /\ code = "success" /\ (Paging \/ opt.user) /\ call = "search"
          /\ more \in rest /\ got = UpTo(more) /\ got # rest
          /\ Paging => Cardinality(got) = PageSize
       \/ /\ code = "limit" /\ more = 0
          /\ \E m \in 0 .. Count : got = UpTo(m)
          /\ got # rest
          /\ opt.size > 0 => Cardinality(got) <= opt.size
       \/ code = "error" /\ more = 0 /\ got = {}

TakenFault(got) ==
    {e \in got : opt.size > 0 => count + Cardinality({d \in got : d < e}) <= opt.size}
\* The entries of a page that are taken before sizelimit is reached.
Taken(got) ==
    {e \in got : opt.size > 0 => count + Cardinality({d \in got : d < e}) < opt.size}

LimitKeptFault(code) == errno
\* A limit on any page stays in lastErrno.
LimitKept(code) == IF code = "limit" THEN code ELSE errno

Page ==
    /\ call = "search" /\ sent /\ up
    /\ \E code \in {"success", "limit", "error"}, got \in SUBSET Entry, more \in 0 .. Count :
           LET all == results \cup Taken(got)
               n   == count + Cardinality(Taken(got))
               rc  == LimitKept(code)
           IN /\ Answered(code, got, more)
              /\ IF code = "error" THEN Return(FALSE, code, results, count)
                 ELSE IF Reached(n) \/ ~Paging \/ more = 0
                 THEN Return(TRUE, rc, all, n)
                 ELSE /\ sent' = FALSE /\ cookie' = more
                      /\ errno' = rc /\ results' = all /\ count' = n
                      /\ UNCHANGED <<opt, ld, call, returned, reported,
                                     dir, up, news>>
    /\ open' = open \ {call}

\* The result code of the server is not looked at.
SyncRefreshed ==
    /\ call = "sync" /\ sent /\ up
    /\ \E code \in {"success", "limit", "error"}, got \in SUBSET Entry :
           /\ Answered(code, got, 0)
           /\ Return(TRUE, errno, got, Cardinality(got))
    /\ open' = open \ {call}

\* The callback is told of a notice, and told "entry" whatever the change was: the
\* controls ldap_parse_result gives are those of a result, and a notice is a search
\* entry, so the switch on the type of change is never reached.
Notice ==
    /\ Waiting /\ up /\ notices # <<>>
    /\ reported' = reported \cup {Head(notices)}
    /\ notices' = Tail(notices)
    /\ UNCHANGED <<opt, ld, errno, call, sent, cookie, results, count, returned,
                   dir, up, open, renamed, since, ever>>
\* When it has enough the search is abandoned.
Enough ==
    /\ Waiting /\ up /\ notices # <<>>
    /\ Return(TRUE, errno, results, count)
    /\ open' = open \ {call}
\* The final result ends it, whatever its code.
Final ==
    /\ Waiting /\ up /\ notices = <<>>
    /\ \E code \in {"success", "limit", "error"} : Return(TRUE, code, results, count)
    /\ open' = open \ {call}

OtherClient == Changed /\ UNCHANGED <<client, up, open>>
Lost == up /\ up' = FALSE /\ open' = {} /\ UNCHANGED <<client, dir, news>>

\* What ends a call, or a page of it: ldap_result returns, at the latest when it times out.
Progress == \/ Send \/ SendFails \/ Timeout \/ LinkDown
            \/ Page \/ SyncRefreshed \/ Notice \/ Enough \/ Final
Next == \/ Connect \/ Request \/ Bind \/ Cancel \/ Write
        \/ Search \/ SyncRefreshOnly \/ PersistentSearch
        \/ Progress \/ OtherClient \/ Lost

Spec == Init /\ [][Next]_vars
FairSpec == Spec /\ WF_vars(Progress)

(* Properties.                                                             *)

\* What a caller can tell from what search returned.
Status(r) ==
    IF ~r.ok THEN "failed"
    ELSE IF r.op = "search" /\ r.errno # "limit" /\ ~r.full /\ ~opt.user
    THEN "complete" ELSE "some"

\* A search that returns true with neither a limit in lastErrno nor sizelimit entries
\* has every entry that was there all along, and no query returns an entry that never
\* existed meanwhile (LDAPConn::search and the code that reads lastErrno after it).
SA == INSTANCE SearchAnswer WITH
          answer <- IF call # "none" THEN [status |-> "asked", got |-> {}]
                    ELSE [status |-> Status(returned), got |-> returned.got]
Answers == SA!Spec

\* The pages of a search never overlap, and it never returns more than sizelimit entries.
NoEntryTwice ==
    /\ count = Cardinality(results)
    /\ returned.op = "search" /\ opt.size > 0 => Cardinality(returned.got) <= opt.size

\* A search that gave up has abandoned its request, so the server works at none.
NothingLeftOpen == call = "none" /\ returned.op = "search" => "search" \notin open

\* While a persistent search waits, every entry there is has been told to its callback
\* or is on its way to it, the entries of before the search as much as those changed
\* meanwhile (LDAPConn::persistentSearch), unless it was given its name meanwhile; and it
\* is told of no entry that never was.  It may not take one for still being there: it is
\* told "entry" of a deletion too.
CallbackIsTold ==
    LET told == reported \cup {notices[i] : i \in DOMAIN notices}
    IN  Waiting /\ up => dir \ renamed \subseteq told /\ told \subseteq ever

\* Every search returns, whatever the server and other clients do.
SearchEnds == call = "search" ~> call # "search"
=============================================================================
