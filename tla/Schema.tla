------------------------------- MODULE Schema -------------------------------
(***************************************************************************)
(* What diratlas reads out of the objectClass definitions of a server      *)
(* (src/tui/attrs.cpp): the superior class and the attributes of a         *)
(* definition, the attributes an entry must or may have, the depth of a    *)
(* class, and the classes an entry has without listing them.               *)
(*                                                                         *)
(* A definition is [name, sup, must, may].  A list of names in it is       *)
(* [form, names], with form "bare" for one name without parentheses,       *)
(* "tight" for (a $ b) and "spaced" for ( a $ b ), the form of RFC 4512.   *)
(* Attributes are in lower case; classes are as they are spelled.          *)
(***************************************************************************)
EXTENDS Naturals, Sequences, FiniteSets

CONSTANT Lower   \* classes as spelled -> in lower case

ListOf(S) == [form : {"bare", "tight", "spaced"}, names : Seq(S)]
NoNames == [form |-> "bare", names |-> <<>>]
Names(list) == {list.names[n] : n \in DOMAIN list.names}

\* What is read: of ( a $ b ) nothing, as the first blank ends the name; of several the
\* first.  "" is no class.
ParseSUP(def) == IF def.sup.form = "spaced" \/ def.sup.names = <<>> THEN "" ELSE def.sup.names[1]

\* The list ends at the first closing parenthesis: when MUST has none of its own, at that
\* of MAY, and the keyword and the opening one become part of a name.
Glued == "cn may ( sn"
ParseMUST(def) ==
    IF def.must.form # "bare" \/ def.must.names = <<>> \/ def.may.names = <<>>
    THEN Names(def.must)
    ELSE {Glued} \cup Names([def.may EXCEPT !.names = Tail(@)])
ParseMAY(def) == Names(def.may)

\* The definitions of a class: the first with its name is taken.
Defining(defs, class) == {n \in DOMAIN defs : class # "" /\ Lower[defs[n].name] = Lower[class]}
DefOf(defs, class) == defs[CHOOSE n \in Defining(defs, class) : \A k \in Defining(defs, class) : n <= k]

LineageFault(defs, class) == {class, ParseSUP(DefOf(defs, class))} \ {""}
\* The classes that are visited from one by superiors.  A walk that comes back to a class
\* has nothing new to visit, and one of length Len(defs) + 1 has come back.
Lineage(defs, class) ==
    LET up[n \in 0 .. Len(defs) + 1] ==
            IF n = 0 THEN class
            ELSE IF Defining(defs, up[n - 1]) = {} THEN "" ELSE ParseSUP(DefOf(defs, up[n - 1]))
    IN {c \in {up[n] : n \in 0 .. Len(defs) + 1} : Defining(defs, c) # {}}

MandatoryAttrs(defs, classes) ==
    UNION {ParseMUST(DefOf(defs, c)) : c \in {c \in classes : Defining(defs, c) # {}}}
InheritedMandatoryAttrs(defs, class) ==
    UNION {ParseMUST(DefOf(defs, c)) : c \in Lineage(defs, class)}
AllowedAttrs(defs, classes) ==
    UNION {ParseMUST(DefOf(defs, c)) \cup ParseMAY(DefOf(defs, c)) :
               c \in UNION {Lineage(defs, class) : class \in classes}}

(* The table of superiors and the depths.  Names must be spelled alike.    *)

SupMap(defs) ==
    LET classes == {defs[n].name : n \in {n \in DOMAIN defs : ParseSUP(defs[n]) # ""}}
        Last(c) == CHOOSE n \in DOMAIN defs :
                       /\ defs[n].name = c /\ ParseSUP(defs[n]) # ""
                       /\ \A k \in DOMAIN defs : defs[k].name = c /\ ParseSUP(defs[k]) # "" => k <= n
    IN [c \in classes |-> ParseSUP(defs[Last(c)])]

\* c and its superiors in the table, up to one that has none, or n of them.
Superiors(sup, c, n) ==
    LET walk[k \in 0 .. n] ==
            IF k = 0 THEN <<c>>
            ELSE LET w == walk[k - 1] IN
                 IF w[Len(w)] \in DOMAIN sup THEN Append(w, sup[w[Len(w)]]) ELSE w
    IN walk[n]

\* 0 for top, one more than the superior's otherwise; 1 if that is never settled, 99 for a
\* class that is not in the table.
Depth(sup, c) ==
    LET w == Superiors(sup, c, Cardinality(DOMAIN sup))
        tops == {n \in DOMAIN w : w[n] = "top"}
    IN IF c # "top" /\ c \notin DOMAIN sup THEN 99
       ELSE IF tops = {} THEN 1 ELSE (CHOOSE n \in tops : \A k \in tops : n <= k) - 1

ImplicitFault(sup, listed) ==
    [n \in {n \in DOMAIN listed : listed[n] \in DOMAIN sup} |-> [text |-> sup[listed[n]], from |-> listed[n]]]
\* The superiors added for the classes listed, each with the class it comes from: up to
\* one that is listed or already there, and no more than 32.
Implicit(sup, listed) ==
    LET lower == {Lower[listed[n]] : n \in DOMAIN listed}
        Chain(c, there) ==
            LET w == Superiors(sup, c, Cardinality(DOMAIN sup))
                New(n) == /\ Lower[w[n]] \notin lower \cup there
                          /\ \A k \in 2 .. n - 1 : Lower[w[k]] # Lower[w[n]]
                len == CHOOSE n \in DOMAIN w : /\ n <= 33 /\ \A k \in 2 .. n : New(k)
                                               /\ n < Len(w) /\ n < 33 => ~New(n + 1)
            IN [k \in 1 .. len - 1 |-> [text |-> w[k + 1], from |-> w[k]]]
        add[n \in 0 .. Len(listed)] ==
            IF n = 0 THEN <<>>
            ELSE add[n - 1] \o Chain(listed[n], {Lower[add[n - 1][k].text] : k \in DOMAIN add[n - 1]})
    IN add[Len(listed)]
=============================================================================
