------------------------------ MODULE MCStartup ------------------------------
(* Command lines about the bind, about the settings and about the requests,  *)
(* with files that agree, disagree and cannot be read.                       *)
EXTENDS Startup

Defaults == [URI |-> "", BASE |-> "", BINDDN |-> "", SASL_MECH |-> "",
             TIMELIMIT |-> 10, SIZELIMIT |-> 0]

Opt(o)        == [o |-> o, v |-> ""]
With(o, v)    == [o |-> o, v |-> v]
Line(k, v)    == [key |-> k, val |-> v, ok |-> TRUE]
Spec_(e, c, p, ok) == [ext |-> e, crit |-> c, param |-> p, ok |-> ok]

Server == With("H", "ldap://host")

\* Options about the bind, in every order of up to three.
BindOptions ==
    {Opt("x"), Opt("Z"), With("Y", "EXTERNAL"), With("w", "secret"), With("w", ""),
     Opt("W"), Opt("y"), With("D", "cn=me")}

\* Options about the settings and the controls.
SettingOptions ==
    {With("H", "ldaps://host"), With("b", "b"), With("b", ""), With("l", 5), With("l", 10),
     With("z", 7), Opt("M"), With("E", Spec_("pr", TRUE, 100, TRUE)),
     With("E", Spec_("sss", FALSE, 0, TRUE)), With("E", Spec_("nonsense", FALSE, 0, FALSE)),
     With("simplePageSize", 50), Opt("V"), Opt("?")}

\* What to do, in sets: the order does not matter.
Doings == {Opt(o) : o \in {"cli", "c", "f", "acl-check", "whoami", "passwd-modify",
                            "increment", "capabilities", "persistent-search"}}

MCCommands ==
    {<<Server, Opt("x")>> \o s : s \in {SetToSeq(D) : D \in {E \in SUBSET Doings : Cardinality(E) <= 4}}}
    \cup {<<Server>> \o s : s \in BoundedSeq(BindOptions, 3)}
    \cup {<<Opt("Z"), Opt("Z"), With("H", u)>> : u \in {"ldap://host", "ldaps://host"}}
    \cup {<<Opt("x")>> \o s : s \in BoundedSeq(SettingOptions, 2)}
    \cup {<<Server, Opt("x"), Opt("sync-refresh-only")>>}
    \cup {<<Opt("x"), With("b", "b"), Opt("acl-check")>>, <<Opt("x"), With("b", ""), Opt("acl-check")>>}

MCRcFiles ==
    {<<<<Line("URI", "ldap://system"), Line("TIMEOUT", 20), Line("SASL_MECH", "GSSAPI")>>,
       <<Line("BASE", "mine"), Line("TIMELIMIT", 30), Line("SIZELIMIT", 3)>>,
       <<Line("BASE", "here"), [key |-> "SIZELIMIT", val |-> 4, ok |-> FALSE],
         Line("SASL_MECH", "PLAIN")>>>>}

MCFilterFiles == {<<>>, <<"first", "second">>}

MCRootDSEs ==
    {[contexts |-> <<[kind |-> "schema", dc |-> FALSE], [kind |-> "config", dc |-> FALSE],
                     [kind |-> "root", dc |-> TRUE]>>,
      marks |-> {"microsoft", "rootNamingContext"}],
     [contexts |-> <<>>, marks |-> {"novell"}]}
=============================================================================
