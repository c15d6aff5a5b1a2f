---------------------------- MODULE SearchAnswer ----------------------------
(***************************************************************************)
(* What a caller of LDAPConn (src/ldap_conn.h) may take for granted when a *)
(* query returns, whatever happened on the way: pages, limits, timeouts,   *)
(* a lost connection, and other clients that change the directory while    *)
(* the pages are being fetched.                                            *)
(***************************************************************************)
CONSTANT Entry   \* the entries that match the query whenever they exist

VARIABLES dir,     \* those that exist
          since,   \* while a query is made: those that have existed all along
          ever,    \* while a query is made: those that have existed meanwhile
          answer   \* Asked, or what the last query returned

vars == <<dir, since, ever, answer>>

Asked    == [status |-> "asked", got |-> {}]
Statuses == {"complete", "some", "failed"}
Answers  == {Asked} \cup [status : Statuses, got : SUBSET Entry]

Init == /\ dir \in SUBSET Entry /\ since = dir /\ ever = dir
        /\ answer = [status |-> "failed", got |-> {}]

\* The directory changes, by this client or by another.
Change == /\ dir' \in SUBSET Entry
          /\ since' = IF answer = Asked THEN since \cap dir' ELSE dir'
          /\ ever'  = IF answer = Asked THEN ever \cup dir' ELSE dir'
          /\ UNCHANGED answer

Ask == /\ answer # Asked
       /\ answer' = Asked
       /\ UNCHANGED <<dir, since, ever>>

\* Every entry returned existed meanwhile.  In an answer said to be complete,
\* none is missing that was there all along.
Answer(status, got) == /\ answer = Asked
                       /\ got \subseteq ever
                       /\ status = "complete" => since \subseteq got
                       /\ answer' = [status |-> status, got |-> got]
                       /\ since' = dir /\ ever' = dir
                       /\ UNCHANGED dir

Next == \/ Change \/ Ask
        \/ \E status \in Statuses, got \in SUBSET Entry : Answer(status, got)

Spec == Init /\ [][Next]_vars
=============================================================================
