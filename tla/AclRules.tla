------------------------------ MODULE AclRules ------------------------------
(***************************************************************************)
(* diratlas --acl-check: the access rules of an entry are parsed, searched *)
(* for rules that can never apply, evaluated for a user, and written out   *)
(* again without those rules (src/ldapcore/acl.cpp and the part of main()  *)
(* that calls it).                                                         *)
(*                                                                         *)
(* A value of the attribute is given as its tokens.  A DN is the sequence  *)
(* of its RDNs, the entry's own first.  An operator whose name ends in     *)
(* Fault is the next one with a bug, for the mutants of PROJECT.json.      *)
(***************************************************************************)
EXTENDS Naturals, Sequences, FiniteSets, SequencesExt

CONSTANTS Values,   \* the values a rule list is made of
          MaxRules, \* bound: values in a list
          MaxClauses, \* bound: clauses of a value
          DNs,      \* the entries
          Users,    \* the DNs that are bound, <<>> for anonymous
          Attrs,    \* the attributes access is asked for
          Selectors, \* what a clause may ask of the connection, such as ssf=128
          Cut       \* for a DN with a space: what it is cut into where no quotes hold it

ASSUME MaxRulesAssumption == MaxRules \in Nat /\ MaxClauses \in Nat
ASSUME DNsAssumption == \A dn \in DNs \cup Users : dn \in Seq(STRING)

VARIABLES values,    \* the values read from the server
          rules,     \* what was parsed of them
          phase,     \* "parse", "compare" or "write"
          i, j,      \* the indices of the phase
          conflicts, \* what analyzeAclConflicts found
          kept       \* the rules that were written out, by their indices

vars == <<values, rules, phase, i, j, conflicts, kept>>

(* Parsing.  Of a rule we keep what is compared: the scope and DN of its   *)
(* target, its attributes ({} for all of them), whether it is "to entry",  *)
(* whether it is one the tool cannot analyse, what else tells it from      *)
(* another such target, and its clauses; and of its text, the tokens of    *)
(* the target and the value.  dn= and dn.exact= are dn.base=.              *)

NoRule == [format |-> "slapd", entry |-> FALSE, complex |-> FALSE, kind |-> "", dn |-> <<>>,
           text |-> {}, attrs |-> {}, bys |-> <<>>, target |-> <<>>, raw |-> <<>>]

\* OpenLDAP.  The tokens up to the first "by" are the target.  After "by" come a selector,
\* if there is one, the subject and the rights, whatever the tokens are; then everything
\* up to the next "by" is skipped.
Start == [expects |-> "target", target |-> <<>>, selector |-> "",
          subject |-> [form |-> "", dn |-> <<>>], bys |-> <<>>]

Read(seen, tok) ==
    CASE seen.expects \in {"target", "by"} /\ tok.token = "by" ->
             [seen EXCEPT !.expects = "selector", !.selector = ""]
      [] seen.expects = "target" /\ tok.token # "by" -> [seen EXCEPT !.target = Append(@, tok)]
      [] seen.expects = "by" /\ tok.token # "by" -> seen
      [] seen.expects = "selector" /\ tok.token = "selector" ->
             [seen EXCEPT !.expects = "subject", !.selector = tok.text]
      [] seen.expects = "rights" ->
             [seen EXCEPT !.expects = "by",
                          !.bys = Append(@, [selector |-> seen.selector, subject |-> seen.subject,
                                             rights |-> tok.text])]
      [] OTHER ->
             [seen EXCEPT !.expects = "rights", !.subject = [form |-> tok.text, dn |-> tok.dn]]

ReadAll(toks) == FoldLeft(Read, Start, toks)

\* Only dn.regex, filter= and unknown forms are complex; with a filter after the DN, the DN
\* read is that of no entry.
TargetOf(target) ==
    LET head == target[1]
        Form(f) == {k \in DOMAIN target : target[k].text = f}
        listed == UNION {target[k].attrs : k \in Form("attrs")}
    IN CASE head.text \in {"*", "entry", "children"} /\ Len(target) = 1 ->
              [NoRule EXCEPT !.entry = head.text # "*"]
         [] head.text = "attrs" -> [NoRule EXCEPT !.attrs = head.attrs]
         [] head.text \in {"dn.base", "dn.subtree", "dn.one", "dn.children", "dn.regex"} ->
              [NoRule EXCEPT !.kind = head.text, !.attrs = listed,
                             !.dn = IF Form("filter") = {} THEN head.dn ELSE head.dn \o <<"filter">>,
                             !.complex = head.text = "dn.regex"]
         [] OTHER -> [NoRule EXCEPT !.complex = TRUE, !.text = {target[k].text : k \in DOMAIN target}]

ParseSlapd(toks) ==
    LET seen == ReadAll(toks)
    IN IF seen.bys = <<>> \/ seen.target = <<>> THEN NoRule
       ELSE [TargetOf(seen.target) EXCEPT !.target = seen.target, !.bys = seen.bys]

\* 389 DS and its kin: groups of keywords, then allow and deny clauses.  The DN of
\* target= has no scope of its own, so nothing is restricted by it.
Keywords(groups, kw) == {k \in DOMAIN groups : groups[k].text = kw}
AciSubject(bind) ==
    CASE bind.form = "userdn" /\ bind.who \in {"anyone", "all", "parent"} -> "*"
      [] bind.form = "userdn" -> bind.who
      [] OTHER -> bind.form   \* groupdn, roledn, userattr and compound rules: kept, never matched
AciBys(clauses) ==
    [k \in DOMAIN clauses |->
        [selector |-> "", subject |-> [form |-> AciSubject(clauses[k].bind), dn |-> clauses[k].bind.dn],
         rights |-> IF clauses[k].deny THEN "none" ELSE clauses[k].rights]]
ParseAci(groups, clauses) ==
    IF clauses = <<>> THEN NoRule
    ELSE [NoRule EXCEPT
             !.format = "aci",
             !.attrs = UNION {groups[k].attrs : k \in Keywords(groups, "targetattr")},
             !.dn = IF Keywords(groups, "target") = {} THEN <<>>
                    ELSE groups[CHOOSE k \in Keywords(groups, "target") :
                                    \A l \in Keywords(groups, "target") : l <= k].dn,
             !.text = {groups[k].text : k \in DOMAIN groups},
             !.complex = \/ \E k \in Keywords(groups, "targetattr") : groups[k].negated
                         \/ \E k \in DOMAIN groups :
                                groups[k].text \in {"targetscope", "targetfilter",
                                                   "targattrfilters", "targetcontrol"},
             !.bys = AciBys(clauses)]

\* Oracle: "access to entry" or "access to attr=(...)", modifiers, clauses.
ParseOracle(object, modifiers, clauses) ==
    IF clauses = <<>> THEN NoRule
    ELSE [NoRule EXCEPT
             !.format = "oracle",
             !.entry = object.text = "entry",
             !.attrs = IF object.text = "attr" THEN object.attrs ELSE {},
             !.text = {object.text} \cup modifiers,
             !.complex = \/ object.text \notin {"entry", "attr"}
                         \/ object.text = "attr" /\ object.negated
                         \/ modifiers \cap {"filter", "added_object_constraint", "constrainton"} # {},
             !.bys = [k \in DOMAIN clauses |->
                         [selector |-> "", subject |-> clauses[k].subject,
                          rights |-> clauses[k].rights]]]

ParseAcl(value) ==
    LET r == CASE value.grammar = "aci"    -> ParseAci(value.groups, value.clauses)
               [] value.grammar = "oracle" -> ParseOracle(value.object, value.modifiers, value.clauses)
               [] OTHER                    -> ParseSlapd(value.toks)
    IN [r EXCEPT !.raw = value]

\* MaxClauses bounds the clauses of the values, whose DNs are sequences of RDNs.
Tokens == [token : STRING, text : STRING, dn : Seq(STRING), attrs : SUBSET STRING]
ASSUME ValuesAssumption ==
    \A v \in Values : /\ ParseAcl(v).dn \in Seq(STRING)
                      /\ DOMAIN ParseAcl(v).bys \subseteq 1 .. MaxClauses
                      /\ v.grammar \notin {"aci", "oracle"} => v.toks \in Seq(Tokens)

(* What a rule applies to.                                                 *)

AncestorOrSelf(a, dn) ==
    \/ dn = a
    \/ /\ a # <<>> /\ Len(a) <= Len(dn)
       /\ \A k \in 1 .. Len(a) : dn[Len(dn) - Len(a) + k] = a[k]
ChildOf(a, dn) == dn # a /\ AncestorOrSelf(a, dn) /\ Len(dn) = Len(a) + 1

InScope(kind, a, dn) ==
    CASE kind = ""            -> TRUE
      [] kind = "dn.base"     -> dn = a
      [] kind = "dn.subtree"  -> AncestorOrSelf(a, dn)
      [] kind = "dn.one"      -> ChildOf(a, dn)
      [] kind = "dn.children" -> dn # a /\ AncestorOrSelf(a, dn)
      [] OTHER                -> FALSE

TargetMatches(r, q) ==
    r.complex \/ /\ InScope(r.kind, r.dn, q.target)
                 /\ r.attrs = {} \/ q.attr \in r.attrs

SubjectMatches(s, q) ==
    CASE s.form \in {"*", "peers"} -> TRUE
      [] s.form = "self"           -> q.user = q.target
      [] s.form = "anonymous"      -> q.user = <<>>
      [] s.form = "users"          -> q.user # <<>>
      [] s.form = "dn"             -> q.user = s.dn
      [] OTHER                     -> FALSE

\* A clause with a selector is for connections that meet it.  evaluateAcl is asked about no
\* connection: its answers are those for a connection that meets every selector.
Meets(b, q) == b.selector \in q.met \cup {""}

Matches(R, q, m, n) ==
    /\ TargetMatches(R[m], q)
    /\ SubjectMatches(R[m].bys[n].subject, q) /\ Meets(R[m].bys[n], q)

\* evaluateAcl: clause n of rule m, the first that matches, decides.
Decides(R, q, m, n) ==
    /\ m \in DOMAIN R /\ n \in DOMAIN R[m].bys /\ Matches(R, q, m, n)
    /\ \A l \in DOMAIN R : \A o \in DOMAIN R[l].bys :
           Matches(R, q, l, o) => m < l \/ (m = l /\ n <= o)
Deciding(R, q) == {d \in (DOMAIN R) \X (1 .. MaxClauses) : Decides(R, q, d[1], d[2])}
EvaluateAcl(R, q) ==
    LET d == CHOOSE d \in Deciding(R, q) : TRUE
    IN IF Deciding(R, q) = {} THEN "none" ELSE R[d[1]].bys[d[2]].rights

(* What a rule covers.                                                     *)

ScopeCoversFault(kind, a, kindB, b) ==
    \/ kind = ""
    \/ kind = "dn.base" /\ kindB = "dn.base" /\ a = b
    \/ kind = "dn.subtree" /\ kindB # "" /\ AncestorOrSelf(a, b)
    \/ kind = "dn.one" /\ \/ kindB = "dn.base" /\ ChildOf(a, b)
                          \/ kindB = "dn.one" /\ a = b
    \/ kind = "dn.children" /\ AncestorOrSelf(a, b)
                            /\ kindB # ""
ScopeCovers(kind, a, kindB, b) ==
    \/ kind = ""
    \/ kind = "dn.base" /\ kindB = "dn.base" /\ a = b
    \/ kind = "dn.subtree" /\ kindB # "" /\ AncestorOrSelf(a, b)
    \/ kind = "dn.one" /\ \/ kindB = "dn.base" /\ ChildOf(a, b)
                          \/ kindB = "dn.one" /\ a = b
    \/ kind = "dn.children" /\ AncestorOrSelf(a, b)
                            /\ \/ kindB = "dn.base" /\ a # b
                               \/ kindB \in {"dn.one", "dn.children"}

AttrsOverlap(r, s) == r.attrs = {} \/ s.attrs = {} \/ r.attrs \cap s.attrs # {}

TargetCovers(r, s) ==
    /\ ~r.complex /\ ~s.complex /\ r.entry = s.entry
    /\ r.attrs = {} \/ (s.attrs # {} /\ s.attrs \subseteq r.attrs)
    /\ ScopeCovers(r.kind, r.dn, s.kind, s.dn)

SubjectCoversFault(a, b) == a.form \in {"*", "users"} \/ a = b
SubjectCovers(a, b) == a.form = "*" \/ a = b

\* The clauses of s that a clause of r covers.
ClausesCovered(r, s) ==
    {n \in DOMAIN s.bys : \E o \in DOMAIN r.bys : SubjectCovers(r.bys[o].subject, s.bys[n].subject)}

(* analyzeAclConflicts and the rewritten list.                             *)

None == [kind |-> "None", first |-> 0, second |-> 0, clause |-> 0, against |-> {}]
Masked(m, l) == [None EXCEPT !.kind = "Masked", !.first = m, !.second = l]
Order(m, l, n) == [Masked(m, l) EXCEPT !.kind = "Order", !.clause = n]

\* Complex rules with one target and list of attributes are reported together, against
\* the rules after the last of them that restrict something and share an attribute.
Key(r) == <<r.dn, IF r.dn = <<>> THEN r.text ELSE {}, r.attrs>>
Alike(m) == {l \in DOMAIN rules : rules[l].complex /\ Key(rules[l]) = Key(rules[m])}
Against(m) == {l \in DOMAIN rules :
                  /\ \A o \in Alike(m) : l > o
                  /\ rules[l].dn # <<>> \/ rules[l].attrs # {}
                  /\ AttrsOverlap(rules[m], rules[l])}
UncertainRules ==
    {[kind |-> "Uncertain", first |-> m, second |-> CHOOSE l \in Alike(m) : \A o \in Alike(m) : o <= l,
      clause |-> 0, against |-> Against(m)] :
        m \in {m \in DOMAIN rules : /\ rules[m].complex /\ Against(m) # {}
                                    /\ \A o \in Alike(m) : m <= o}}

ConflictsOf(r, s, m, l) ==
    IF r.complex \/ s.complex \/ r.format # "slapd" \/ s.format # "slapd" \/ ~TargetCovers(r, s)
    THEN {}
    ELSE IF ClausesCovered(r, s) = DOMAIN s.bys /\ s.bys # <<>> THEN {Masked(m, l)}
    ELSE {Order(m, l, n) : n \in ClausesCovered(r, s)}

Init ==
    /\ values \in UNION {[1 .. n -> Values] : n \in 0 .. MaxRules}
    /\ rules = <<>> /\ phase = "parse" /\ i = 1 /\ j = 1 /\ conflicts = {} /\ kept = <<>>

\* parseAclValues: a value that is no rule is left out.
Parse ==
    /\ phase = "parse" /\ i <= Len(values)
    /\ LET r == ParseAcl(values[i])
       IN rules' = IF r.bys = <<>> THEN rules ELSE Append(rules, r)
    /\ i' = i + 1
    /\ UNCHANGED <<values, phase, j, conflicts, kept>>

\* The first rule that rule m is compared with.
First(m) == m + 1

\* The first pass.
Complex ==
    /\ phase = "parse" /\ i > Len(values)
    /\ conflicts' = UncertainRules
    /\ phase' = "compare" /\ i' = 1 /\ j' = First(1)
    /\ UNCHANGED <<values, rules, kept>>

\* The second: rule j is compared with an earlier one, i.
Compare ==
    /\ phase = "compare" /\ i < Len(rules)
    /\ IF j <= Len(rules)
       THEN /\ conflicts' = conflicts \cup ConflictsOf(rules[i], rules[j], i, j)
            /\ j' = j + 1 /\ i' = i
       ELSE /\ i' = i + 1 /\ j' = First(i + 1) /\ UNCHANGED conflicts
    /\ UNCHANGED <<values, rules, phase, kept>>

\* The list written out has every rule that is not masked.
Dead(l) == \E c \in conflicts : c.kind = "Masked" /\ c.second = l
Rewrite ==
    /\ phase = "compare" /\ i >= Len(rules)
    /\ phase' = "write" /\ i' = 1
    /\ UNCHANGED <<values, rules, j, conflicts, kept>>
Write ==
    /\ phase = "write" /\ i <= Len(rules)
    /\ kept' = IF Dead(i) THEN kept ELSE Append(kept, i)
    /\ i' = i + 1
    /\ UNCHANGED <<values, rules, phase, j, conflicts>>

\* What the list looks like.  An OpenLDAP rule is put together from what was parsed: the
\* target as it was, and of each clause the selector, the subject and the rights.  What
\* followed the rights is gone, and so are the quotes of the subject, so that a DN with a
\* space is two tokens now.
Token(token, text, dn) == [token |-> token, text |-> text, dn |-> dn, attrs |-> {}]
SelectorTokens(b) == IF b.selector = "" THEN <<>> ELSE <<Token("selector", b.selector, <<>>)>>
SubjectTokens(s) ==
    IF s.dn \in DOMAIN Cut THEN <<Token("who", s.form, Cut[s.dn][1]), Token("rest", Cut[s.dn][2], <<>>)>>
    ELSE <<Token("who", s.form, s.dn)>>
ClauseTokensFault(b) ==
    <<Token("by", "by", <<>>)>> \o SubjectTokens(b.subject) \o <<Token("rights", b.rights, <<>>)>>
ClauseTokens(b) ==
    <<Token("by", "by", <<>>)>> \o SelectorTokens(b) \o SubjectTokens(b.subject)
        \o <<Token("rights", b.rights, <<>>)>>
FormatAclRule(r) == r.target \o FlattenSeq([n \in DOMAIN r.bys |-> ClauseTokens(r.bys[n])])

WrittenValue(r) ==
    IF r.format = "slapd" THEN [grammar |-> "slapd", toks |-> FormatAclRule(r)] ELSE r.raw
Written == [k \in DOMAIN kept |-> WrittenValue(rules[kept[k]])]

Next == Parse \/ Complex \/ Compare \/ Rewrite \/ Write
Spec == Init /\ [][Next]_vars

(* Properties.                                                             *)

Requests == [user : Users, target : DNs, attr : Attrs, met : SUBSET Selectors]

TypeOK ==
    /\ values \in Seq(Values)
    /\ phase \in {"parse", "compare", "write"}
    /\ i \in Nat /\ j \in Nat
    /\ kept \in Seq(DOMAIN rules)
    /\ \A c \in conflicts : /\ c.kind \in {"Uncertain", "Masked", "Order"}
                            /\ c.first \in DOMAIN rules /\ c.second \in DOMAIN rules
                            /\ c.kind # "Uncertain" => c.first < c.second
                            /\ c.kind = "Order" => c.clause \in DOMAIN rules[c.second].bys

\* On the connection of q, rule r leaves nothing to clause n of rule s: of the clauses of r
\* that cover it, the connection meets the selector of one.
Shadows(r, s, n, q) ==
    \E o \in DOMAIN r.bys : SubjectCovers(r.bys[o].subject, s.bys[n].subject) /\ Meets(r.bys[o], q)

\* What is reported as masked, or as a clause that is never reached, decides no request of a
\* connection that meets the selectors of the clauses before it: the two halves of acl.cpp,
\* analyzeAclConflicts and evaluateAcl, agree.  On a weaker connection a rule reported as
\* masked by a clause for ssf=128 does decide, as the coverage ignores the selectors.
DeadNeverDecides ==
    \A c \in conflicts, q \in Requests :
        LET Idle(n) == Shadows(rules[c.first], rules[c.second], n, q)
                           => ~Decides(rules, q, c.second, n)
        IN /\ c.kind = "Masked" => \A n \in DOMAIN rules[c.second].bys : Idle(n)
           /\ c.kind = "Order" => Idle(c.clause)

\* A dropped rule is missed by no request of the connection of q.
Expendable(l, q) ==
    \A n \in DOMAIN rules[l].bys :
        \E c \in conflicts : /\ c.kind = "Masked" /\ c.second = l
                            /\ Shadows(rules[c.first], rules[l], n, q)

\* Every subject is one token without its quotes.
OneWordSubjects ==
    \A l \in DOMAIN rules : \A n \in DOMAIN rules[l].bys : rules[l].bys[n].subject.dn \notin DOMAIN Cut

\* The list that main() writes out, read again, gives everyone the access the original list
\* gives, on every connection for which the dropped rules were not needed: rules may be
\* masked by each other, and the first match remains.  Not so where a subject's DN has a
\* space, as it is written without its quotes.  (What the server makes of the control
\* words after the rights, which are not written, evaluateAcl does not know.)
RewriteKeepsAccess ==
    phase = "write" /\ i > Len(rules) /\ OneWordSubjects =>
        LET again == [k \in DOMAIN Written |-> ParseAcl(Written[k])]
        IN \A q \in Requests :
              (\A l \in DOMAIN rules : Dead(l) => Expendable(l, q))
                  => EvaluateAcl(again, q) = EvaluateAcl(rules, q)
=============================================================================
