---------------------------- MODULE MCAttrsPanel ----------------------------
(* Definitions of top, of a class below it and of one below that, in every  *)
(* form, and entries with many values, options and numbered values.         *)
EXTENDS AttrsPanel

Spelled == {"top", "person", "Person", "inet"}
LowerCase == [c \in Spelled |-> IF c = "Person" THEN "person" ELSE c]
Alphabet == <<"Person", "cn", "inet", "mail", "memberof", "objectclass", "olcaccess", "person", "top">>
Order == [b \in ToSet(Alphabet) |-> CHOOSE n \in DOMAIN Alphabet : Alphabet[n] = b]

List(form, names) == [form |-> form, names |-> names]
Def(name, sup, must, may) == [name |-> name, sup |-> sup, must |-> must, may |-> may]
Top == Def("top", NoNames, List("tight", <<"objectclass">>), NoNames)
Person(sup, form) == Def("person", sup, List(form, <<"cn">>), List("spaced", <<"sn", "mail">>))
Persons == {Person(List("bare", <<"inet">>), "spaced"),
            Person(List("bare", <<"top">>), "tight"), Person(List("bare", <<"top">>), "bare")}
Inets == {Def("inet", sup, NoNames, List("bare", <<"olcaccess">>)) :
             sup \in {List("bare", <<"person">>), List("spaced", <<"person", "top">>)}}
Spelt == Def("inet", List("bare", <<"Person">>), NoNames, NoNames)
Published == {<<>>, <<Top, Person(List("bare", <<"top">>), "tight"), Spelt>>}
             \cup {<<Top, p, i>> : p \in Persons, i \in Inets}

Val(text, len, brace) == [text |-> text, len |-> len, brace |-> brace]
Plain(n) == [k \in 1 .. n |-> Val("v", 1, -1)]
Attr(name, base, options, op, vals) ==
    [name |-> name, base |-> base, options |-> options, op |-> op, vals |-> vals]
OcValues(classes) == [k \in DOMAIN classes |-> Val(classes[k], 1, -1)]
Ann == [attrs |-> <<
    Attr("mail", "mail", FALSE, FALSE, Plain(2)),
    Attr("objectClass", "objectclass", FALSE, FALSE, OcValues(<<"inet">>)),
    Attr("cn", "cn", FALSE, FALSE, <<Val("v", 30, -1)>>),
    Attr("mail;lang-en", "mail", TRUE, FALSE, Plain(3))>>]
Rules == [attrs |-> <<
    Attr("memberOf", "memberof", FALSE, TRUE, <<Val("dn", 20, -1)>> \o Plain(1)),
    Attr("olcAccess", "olcaccess", FALSE, FALSE, <<Val("v", 30, 1), Val("v", 1, 0)>>),
    Attr("objectClass", "objectclass", FALSE, FALSE, OcValues(<<"inet", "person">>))>>]
Mixed == [attrs |-> <<Attr("objectClass", "objectclass", FALSE, FALSE, OcValues(<<"inet", "Person">>))>>]
Windows == {<<8, 4>>, <<12, 4>>, <<12, 1>>}
Read == {Ann, Rules, Mixed}
=============================================================================
