----------------------------- MODULE MCAclRules -----------------------------
(* Rules on an organisation, the people below it and one person.            *)
EXTENDS AclRules, TLC

Org    == <<"org">>
People == <<"people", "org">>
Ann    == <<"ann", "people", "org">>
Bob    == <<"bob", "people", "org">>
Bo     == <<"bo lee", "people", "org">>
Three  == {Org, People, Ann}
Bound  == {<<>>, Ann, Bob, Bo}
Names  == {"cn", "pw"}
Strength == {"ssf=128"}
CutDNs == Bo :> <<<<"bo">>, "lee,people,org">>

Word(token, text) == [token |-> token, text |-> text, dn |-> <<>>, attrs |-> {}]
By == Word("by", "by")
To(text, dn, attrs) == <<[token |-> "what", text |-> text, dn |-> dn, attrs |-> attrs]>>
On(text, dn, attrs) == IF attrs = {} THEN To(text, dn, {})
                       ELSE To(text, dn, {}) \o To("attrs", <<>>, attrs)
Who(who, rights) == <<By, Word("who", who), Word("rights", rights)>>
WhoDn(dn, rights) == <<By, [Word("who", "dn") EXCEPT !.dn = dn], Word("rights", rights)>>
Strong(who, rights) == <<By, Word("selector", "ssf=128")>> \o Tail(Who(who, rights))
Slapd(toks) == [grammar |-> "slapd", toks |-> toks]

OpenLdap == {Slapd(t) : t \in {
    To("*", <<>>, {}) \o Who("*", "read"),
    To("*", <<>>, {}) \o Who("users", "read") \o Who("*", "search"),
    To("*", <<>>, {}) \o Strong("*", "write"),
    To("entry", <<>>, {}) \o Who("*", "read"),
    To("attrs", <<>>, {"pw"}) \o Who("self", "write") \o Who("anonymous", "auth"),
    To("attrs", <<>>, {"cn", "pw"}) \o Who("users", "read"),
    On("dn.subtree", People, {}) \o Who("self", "write"),
    On("dn.children", Org, {"pw"}) \o WhoDn(Bob, "manage") \o Who("*", "none"),
    On("dn.one", Org, {}) \o Who("*", "search"),
    On("dn.children", People, {}) \o Who("users", "write"),
    On("dn.base", People, {}) \o Who("users", "compare"),
    On("dn.base", Ann, {"cn"}) \o Who("self", "write") \o <<Word("control", "break")>>,
    On("dn.regex", People, {"cn"}) \o Who("users", "read"),
    On("dn.subtree", Org, {}) \o To("filter", <<>>, {}) \o Who("*", "read"),
    To("filter", <<>>, {}) \o Who("self", "read"),
    To("attrs", <<>>, {"cn"}) \o WhoDn(Bo, "write"),
    To("attrs", <<>>, {"cn"})}}
Others == {
    [grammar |-> "aci",
     groups |-> <<[text |-> "targetattr", negated |-> FALSE, attrs |-> {"pw"}, dn |-> <<>>],
                  [text |-> "target", negated |-> FALSE, attrs |-> {}, dn |-> People]>>,
     clauses |-> <<[deny |-> FALSE, rights |-> "read", bind |-> [form |-> "userdn", who |-> "anyone", dn |-> <<>>]],
                   [deny |-> TRUE, rights |-> "write", bind |-> [form |-> "userdn", who |-> "self", dn |-> <<>>]]>>],
    [grammar |-> "oracle", object |-> [text |-> "attr", negated |-> FALSE, attrs |-> {"cn"}],
     modifiers |-> {"filter"},
     clauses |-> <<[subject |-> [form |-> "*", dn |-> <<>>], rights |-> "read,search"]>>]}
AllValues == OpenLdap \cup Others
=============================================================================
