------------------------------ MODULE Startup -------------------------------
(***************************************************************************)
(* From the command line to the tree: the options and the ldaprc files are *)
(* merged, the connection is made, protected and bound, the requests asked *)
(* for on the command line are run in the order of main(), and the program *)
(* ends with an exit code or opens the interface (main.cpp, ldaprc.cpp and *)
(* the root DSE functions of ldap_conn.cpp).                               *)
(*                                                                         *)
(* An option is [o |-> its letter or name, v |-> its value].  A line of a  *)
(* file is [key, val, ok], ok being FALSE for a value that cannot be read. *)
(***************************************************************************)
EXTENDS Naturals, Sequences, FiniteSets, SequencesExt, FiniteSetsExt

CONSTANTS Commands,     \* the command lines, each a sequence of options
          RcFiles,      \* what ldap.conf, ~/.ldaprc and ./.ldaprc may hold
          FilterFiles,  \* what the file of -f may hold, {} when unreadable
          RootDSEs,     \* [contexts, marks]: what the server may expose
          Default       \* the value of every merged setting when not given

ASSUME DefaultAssumption ==
    /\ {"URI", "BASE", "BINDDN", "SASL_MECH", "TIMELIMIT", "SIZELIMIT"} \subseteq DOMAIN Default
    /\ Default["URI"] = "" /\ Default["SASL_MECH"] = ""
    /\ Default = [k \in DOMAIN Default |-> Default[k]]
ASSUME CommandsAssumption == \A c \in Commands : c \in Seq(ToSet(c))
ASSUME FilesAssumption ==
    \A fs \in RcFiles : fs \in Seq(ToSet(fs)) /\ \A f \in ToSet(fs) : f \in Seq(ToSet(f))

Settings == DOMAIN Default

\* Requests in the order in which main() looks at them.
Requests == <<"whoami", "passwd-modify", "cancel", "abandon", "increment",
              "capabilities", "persistent-search", "sync-refresh-only",
              "extended-op">>

\* The first of some requests that main() comes to.
Place(r) == CHOOSE n \in DOMAIN Requests : Requests[n] = r
FirstOf(some) == CHOOSE r \in some : \A s \in some : Place(r) <= Place(s)

\* Requests after which the program never goes on to a query or to the tree.
Streams == {"persistent-search", "sync-refresh-only"}

\* What may fail: main() goes on without it, unless -ZZ requires StartTLS.
Optional == {"starttls", "flavor", "contexts"}

\* What can fail without main() being told.
Silent == Streams \cup {"capabilities"}

VARIABLES line,      \* the command line
          files,     \* the three files, <<>> under LDAPNOINIT
          todo,      \* the options still to be read
          cfg,       \* Config
          link,      \* "down", "plain" or "tls"
          ctrls,     \* LDAPConn::ctrls_
          page,      \* LDAPConn::pagingSize
          log,       \* the exchanges with the server: [req, with, tls, ok, told]
          asked,     \* the requests of the command line not yet run
          filters,   \* the filters not yet run
          hadError,  \* some filter failed under -c
          bindId,    \* the identity App shows
          pc, exit

vars == <<line, files, todo, cfg, link, ctrls, page, log, asked, filters,
          hadError, bindId, pc, exit>>

-----------------------------------------------------------------------------
\* The ldaprc files.

\* TIMEOUT is another name of TIMELIMIT.
Setting(key) == IF key = "TIMEOUT" THEN "TIMELIMIT" ELSE key

\* A line counts while its setting still has the value it starts with.
ParseLineFault(rc, l) ==
    IF l.ok THEN [rc EXCEPT ![Setting(l.key)] = l.val] ELSE rc

ParseLine(rc, l) ==
    IF l.ok /\ rc[Setting(l.key)] = Default[Setting(l.key)]
    THEN [rc EXCEPT ![Setting(l.key)] = l.val]
    ELSE rc

ParseFile(rc, file) == FoldLeft(ParseLine, rc, file)

ReadLdapRc(rcfiles) == FoldLeft(ParseFile, Default, rcfiles)

\* What the files say fills the settings the command line left as they were.
\* The base of -b stays even when empty, and -x leaves no mechanism to choose.
Merged(c, rc) ==
    [k \in Settings |->
        IF \/ c.set[k] # Default[k]
           \/ k = "BASE" /\ c.baseSet
           \/ k = "SASL_MECH" /\ c.simple
        THEN c.set[k]
        ELSE rc[k]]

-----------------------------------------------------------------------------
\* The options.

NoConfig ==
    [set |-> Default, baseSet |-> FALSE, simple |-> FALSE, password |-> "",
     prompt |-> FALSE, passfile |-> FALSE, starttls |-> 0, cli |-> FALSE,
     continue |-> FALSE, filterFile |-> FALSE, aclCheck |-> FALSE,
     requests |-> {}, specs |-> <<>>, page |-> 0]

\* The settings an option writes; -y, -f and the rest are cases of Option.
SettingOf == [H |-> "URI", b |-> "BASE", D |-> "BINDDN", Y |-> "SASL_MECH",
              l |-> "TIMELIMIT", z |-> "SIZELIMIT"]

\* -M asks for the ManageDsaIT control, a second -M makes it critical.
ManageDSAit(specs) ==
    LET plain == [ext |-> "manageDSAit", crit |-> FALSE, param |-> 0, ok |-> TRUE]
        at    == {i \in DOMAIN specs : specs[i] = plain}
        first == CHOOSE i \in at : \A j \in at : i <= j
    IN  IF at = {} THEN Append(specs, plain)
        ELSE [specs EXCEPT ![first].crit = TRUE]

\* -ZZ requires what -Z asks for.
StartTLSLevelFault(n) == 1
StartTLSLevel(n) == IF n < 2 THEN n + 1 ELSE 2

\* One turn of the getopt_long loop.
Option(c, opt) ==
    CASE opt.o \in DOMAIN SettingOf ->
            [c EXCEPT !.set[SettingOf[opt.o]] = opt.v, !.baseSet = @ \/ opt.o = "b"]
      [] opt.o = "x" -> [c EXCEPT !.simple = TRUE, !.set["SASL_MECH"] = Default["SASL_MECH"]]
      [] opt.o = "w" -> [c EXCEPT !.password = opt.v]
      [] opt.o = "W" -> [c EXCEPT !.prompt = TRUE]
      [] opt.o = "y" -> [c EXCEPT !.passfile = TRUE]
      [] opt.o = "Z" -> [c EXCEPT !.starttls = StartTLSLevel(@)]
      [] opt.o = "M" -> [c EXCEPT !.specs = ManageDSAit(@)]
      [] opt.o = "E" -> [c EXCEPT !.specs = Append(@, opt.v)]
      [] opt.o = "simplePageSize" -> [c EXCEPT !.page = opt.v]
      [] opt.o = "cli" -> [c EXCEPT !.cli = TRUE]
      [] opt.o = "c"   -> [c EXCEPT !.continue = TRUE]
      [] opt.o = "f"   -> [c EXCEPT !.filterFile = TRUE]
      [] opt.o = "acl-check" -> [c EXCEPT !.aclCheck = TRUE]
      [] OTHER -> [c EXCEPT !.requests = @ \cup {opt.o}]

\* A password only makes sense for a simple bind: it implies -x, unless a
\* mechanism was asked for.
ImpliedFault(c) ==
    IF c.password # "" \/ c.prompt \/ c.passfile THEN [c EXCEPT !.simple = TRUE] ELSE c

Implied(c) ==
    IF (c.password # "" \/ c.prompt \/ c.passfile) /\ c.set["SASL_MECH"] = ""
    THEN [c EXCEPT !.simple = TRUE]
    ELSE c

-----------------------------------------------------------------------------
\* The root DSE.

\* The families in the order of the tests, each with what gives it away.
Families == <<[flavor |-> "MicrosoftAD",    marks |-> {"forestFunctionality", "microsoft"}],
              [flavor |-> "EDirectoryLDAP", marks |-> {"novell", "NDSDsRootDSE"}],
              [flavor |-> "IBMLDAP",        marks |-> {"ibm"}],
              [flavor |-> "NetscapeLDAP",   marks |-> {"389", "rootNamingContext"}]>>

GuessFlavor(marks) ==
    LET known == SelectSeq(Families, LAMBDA f : f.marks \cap marks # {})
    IN  IF known = <<>> THEN "StandardLDAP" ELSE Head(known).flavor

\* A naming context is [kind, dc]: what it holds, and whether it begins with
\* "dc=".  The comparisons with "CN=Configuration,", "DC=DomainDnsZones",
\* "DC=ForestDnsZones" and "CN=accesslog" compare more characters than these
\* words have and never succeed: only the schema is passed over.
FindRootDN(contexts) ==
    LET usable == SelectSeq(contexts, LAMBDA c : c.kind # "schema")
        domain == SelectSeq(usable, LAMBDA c : c.dc)
    IN  CASE domain # <<>> -> Head(domain).kind
          [] domain = <<>> /\ usable # <<>> -> Head(usable).kind
          [] OTHER -> ""

-----------------------------------------------------------------------------
\* The steps of main().

Exits(code) == pc' = "exit" /\ exit' = code

\* ok is how the exchange ended (a search cut short by a limit has ended well), told
\* what LDAPConn returns of it to main().
Answered(req, with, ok, told) ==
    log' = Append(log, [req |-> req, with |-> with, tls |-> link = "tls",
                        ok |-> ok, told |-> told])
Exchange(req, with, ok) == Answered(req, with, ok, ok)

Init ==
    /\ line \in Commands
    /\ files \in RcFiles \cup {<<>>}
    /\ todo = line
    /\ cfg = NoConfig
    /\ link = "down"
    /\ ctrls = <<>>
    /\ page = 0
    /\ log = <<>>
    /\ asked = {}
    /\ filters = <<>>
    /\ hadError = FALSE
    /\ bindId = ""
    /\ pc = "options"
    /\ exit = 0

\* getopt_long returns the next option: help and version end the program, as
\* does an option nobody knows.
ReadOption ==
    /\ pc = "options"
    /\ todo # <<>>
    /\ CASE Head(todo).o \in {"h", "V"} -> Exits(0) /\ UNCHANGED <<todo, cfg>>
         [] Head(todo).o = "?"          -> Exits(1) /\ UNCHANGED <<todo, cfg>>
         [] OTHER -> /\ cfg' = Option(cfg, Head(todo))
                     /\ todo' = Tail(todo)
                     /\ UNCHANGED <<pc, exit>>
    /\ UNCHANGED <<line, files, link, ctrls, page, log, asked, filters, hadError, bindId>>

\* The loop is over: the password implies -x.
EndOptions ==
    /\ pc = "options"
    /\ todo = <<>>
    /\ cfg' = Implied(cfg)
    /\ pc' = "settings"
    /\ UNCHANGED <<line, files, todo, link, ctrls, page, log, asked, filters, hadError, bindId, exit>>

\* The files are read and merged; without a URI, the first argument that is
\* not an option is the server, and without one there is nothing to connect to.
Settle ==
    /\ pc = "settings"
    /\ \E host \in {"", "ldap://host"} :
          LET set == Merged(cfg, ReadLdapRc(files))
              uri == IF set["URI"] = "" THEN host ELSE set["URI"]
          IN  /\ cfg' = [cfg EXCEPT !.set = [set EXCEPT !["URI"] = uri]]
              /\ IF uri = "" THEN Exits(1) ELSE pc' = "password" /\ exit' = exit
    /\ UNCHANGED <<line, files, todo, link, ctrls, page, log, asked, filters, hadError, bindId>>

\* The prompt replaces the password of -w, and the file of -y replaces both
\* unless it is empty; a file that cannot be read ends the program.
Password ==
    /\ pc = "password"
    /\ \E typed \in IF cfg.prompt THEN {"", "typed"} ELSE {cfg.password} :
          \/ /\ ~ cfg.passfile
             /\ cfg' = [cfg EXCEPT !.password = typed]
             /\ pc' = "connect" /\ exit' = exit
          \/ /\ cfg.passfile
             /\ \E read \in {"", "filed"} :
                   cfg' = [cfg EXCEPT !.password = IF read = "" THEN typed ELSE read]
             /\ pc' = "connect" /\ exit' = exit
          \/ cfg.passfile /\ Exits(1) /\ cfg' = [cfg EXCEPT !.password = typed]
    /\ UNCHANGED <<line, files, todo, link, ctrls, page, log, asked, filters, hadError, bindId>>

\* connect() only prepares the handle, which a URI it cannot read prevents.
Connect ==
    /\ pc = "connect"
    /\ page' = cfg.page
    /\ \/ /\ link' = IF cfg.set["URI"] = "ldaps://host" THEN "tls" ELSE "plain"
          /\ pc' = "controls" /\ exit' = exit
       \/ Exits(1) /\ link' = link
    /\ UNCHANGED <<line, files, todo, cfg, ctrls, log, asked, filters, hadError, bindId>>

\* A spec becomes a control of every search, but "pr=", which sets the page
\* size, and one that cannot be read, for which there is a warning.
Registered(s) == s.ext # "pr" /\ s.ok

Controls ==
    /\ pc = "controls"
    /\ LET pages == SelectSeq(cfg.specs, LAMBDA s : s.ext = "pr" /\ s.ok)
       IN  page' = IF pages = <<>> THEN page ELSE Last(pages).param
    /\ ctrls' = SelectSeq(cfg.specs, Registered)
    /\ pc' = "starttls"
    /\ UNCHANGED <<line, files, todo, cfg, link, log, asked, filters, hadError, bindId, exit>>

\* -Z tries StartTLS, which cannot succeed over ldaps://, -ZZ requires it.
StartTLS ==
    /\ pc = "starttls"
    /\ IF cfg.starttls = 0
       THEN pc' = "bind" /\ UNCHANGED <<link, log, exit>>
       ELSE \E ok \in IF link = "tls" THEN {FALSE} ELSE BOOLEAN :
               /\ log' = Append(log, [req |-> "starttls", with |-> "", tls |-> ok,
                                       ok |-> ok, told |-> ok])
               /\ link' = IF ok THEN "tls" ELSE link
               /\ IF ~ ok /\ cfg.starttls = 2 THEN Exits(1) ELSE pc' = "bind" /\ exit' = exit
    /\ UNCHANGED <<line, files, todo, cfg, ctrls, page, asked, filters, hadError, bindId>>

\* -x binds with the DN and the password, anything else with SASL.
Bind ==
    /\ pc = "bind"
    /\ \E ok \in BOOLEAN :
          /\ Exchange(IF cfg.simple THEN "simple" ELSE "sasl",
                      IF cfg.simple THEN cfg.password ELSE cfg.set["SASL_MECH"], ok)
          /\ IF ok THEN pc' = "requests" /\ exit' = exit ELSE Exits(1)
    /\ asked' = cfg.requests \cap ToSet(Requests)
    /\ UNCHANGED <<line, files, todo, cfg, link, ctrls, page, filters, hadError, bindId>>

\* The next request of the command line.  An increment needs a base, which has
\* not been looked for yet, and an attribute and a delta.  Under --cli the first
\* request is the last, and the two that follow changes end the program in any
\* case.
RequestOverFault(r) == r \in Streams
RequestOver(r) == r \in Streams \/ cfg.cli

\* persistentSearch and syncRefreshOnly return true at the result of the server, be
\* it an error, and false when none comes; no capability is also what a failed
\* search for them finds.
Returns(r, ok) ==
    CASE r \in Streams /\ ~ ok  -> BOOLEAN
      [] r = "capabilities"     -> {TRUE}
      [] OTHER                  -> {ok}

Request ==
    /\ pc = "requests"
    /\ asked # {}
    /\ LET r == FirstOf(asked) IN
       \/ /\ r = "increment"
          /\ Exits(1)
          /\ UNCHANGED <<log, asked>>
       \/ /\ ~ (r = "increment" /\ cfg.set["BASE"] = "")
          /\ asked' = asked \ {r}
          /\ \E ok \in BOOLEAN : \E told \in Returns(r, ok) :
                /\ Answered(r, IF r = "increment" THEN cfg.set["BASE"] ELSE "", ok, told)
                /\ \/ ~ told /\ Exits(1)
                   \/ told /\ RequestOver(r) /\ Exits(0)
                   \/ told /\ ~ RequestOver(r) /\ UNCHANGED <<pc, exit>>
    /\ UNCHANGED <<line, files, todo, cfg, link, ctrls, page, filters, hadError, bindId>>

RequestsDone ==
    /\ pc = "requests"
    /\ asked = {}
    /\ pc' = "flavor"
    /\ UNCHANGED <<line, files, todo, cfg, link, ctrls, page, log, asked, filters, hadError, bindId, exit>>

\* guessFlavor: the family of the server; a search that fails finds no mark.
Flavor ==
    /\ pc = "flavor"
    /\ \/ \E dse \in RootDSEs : Exchange("flavor", GuessFlavor(dse.marks), TRUE)
       \/ Exchange("flavor", GuessFlavor({}), FALSE)
    /\ pc' = "base"
    /\ UNCHANGED <<line, files, todo, cfg, link, ctrls, page, asked, filters, hadError, bindId, exit>>

\* The base becomes the root DN the server exposes, "" when it exposes none or
\* does not answer.
DetectBase ==
    \/ \E dse \in RootDSEs :
          /\ cfg' = [cfg EXCEPT !.set["BASE"] = FindRootDN(dse.contexts)]
          /\ Exchange("contexts", "", TRUE)
    \/ /\ cfg' = [cfg EXCEPT !.set["BASE"] = ""]
       /\ Exchange("contexts", "", FALSE)

\* Without -b the base is looked for, and the BASE of the files is forgotten.
BaseGivenFault(c) == c.set["BASE"] # ""
BaseGiven(c) == c.baseSet

Base ==
    /\ pc = "base"
    /\ IF BaseGiven(cfg) THEN UNCHANGED <<cfg, log>> ELSE DetectBase
    /\ pc' = IF cfg.aclCheck THEN "aclbase" ELSE "query"
    /\ UNCHANGED <<line, files, todo, link, ctrls, page, asked, filters, hadError, bindId, exit>>

\* The analysis of the rules looks again when the base is empty.
AclBase ==
    /\ pc = "aclbase"
    /\ IF cfg.set["BASE"] # "" THEN UNCHANGED <<cfg, log>> ELSE DetectBase
    /\ pc' = "query"
    /\ UNCHANGED <<line, files, todo, link, ctrls, page, asked, filters, hadError, bindId, exit>>

\* --acl-check: the rules found are reported; finding none is an error.
AclCheck ==
    /\ pc = "query"
    /\ cfg.aclCheck
    /\ \E found \in BOOLEAN :
          Exchange("acl", cfg.set["BASE"], found) /\ Exits(IF found THEN 0 ELSE 1)
    /\ UNCHANGED <<line, files, todo, cfg, link, ctrls, page, asked, filters, hadError, bindId>>

\* --cli without a query left: with no filter run yet, take those of the file
\* or the one of the command line.  A file without a filter is an error.
TakeFilters ==
    /\ pc = "query"
    /\ ~ cfg.aclCheck /\ cfg.cli
    /\ filters = <<>>
    /\ \A i \in DOMAIN log : log[i].req # "search"
    /\ \E found \in IF cfg.filterFile THEN FilterFiles ELSE {<<"filter">>} :
          /\ filters' = found
          /\ IF found = <<>> THEN Exits(1) ELSE UNCHANGED <<pc, exit>>
    /\ UNCHANGED <<line, files, todo, cfg, link, ctrls, page, log, asked, hadError, bindId>>

\* One query per filter; without -c the first that fails is the last.
ExitCodeFault(failed) == 0
ExitCode(failed) == IF failed THEN 1 ELSE 0

Search ==
    /\ pc = "query"
    /\ filters # <<>>
    /\ filters' = Tail(filters)
    /\ \E ok \in BOOLEAN :
          /\ Exchange("search", Head(filters), ok)
          /\ hadError' = (hadError \/ ~ ok)
          /\ \/ ~ ok /\ ~ cfg.continue /\ Exits(1)
             \/ (ok \/ cfg.continue) /\ Tail(filters) = <<>> /\ Exits(ExitCode(hadError'))
             \/ (ok \/ cfg.continue) /\ Tail(filters) # <<>> /\ UNCHANGED <<pc, exit>>
    /\ UNCHANGED <<line, files, todo, cfg, link, ctrls, page, asked, bindId>>

\* The interface needs a terminal, and a screen App::init can set up.
Launch ==
    /\ pc = "query"
    /\ ~ cfg.aclCheck /\ ~ cfg.cli
    /\ \/ /\ pc' = "tui" /\ exit' = exit
          /\ bindId' = CASE cfg.set["SASL_MECH"] # "" -> cfg.set["SASL_MECH"]
                         [] cfg.set["SASL_MECH"] = "" /\ cfg.set["BINDDN"] # "" -> cfg.set["BINDDN"]
                         [] OTHER -> "anonymous"
       \/ Exits(1) /\ bindId' = bindId
    /\ UNCHANGED <<line, files, todo, cfg, link, ctrls, page, log, asked, filters, hadError>>

Next ==
    \/ ReadOption \/ EndOptions \/ Settle \/ Password \/ Connect \/ Controls
    \/ StartTLS \/ Bind \/ Request \/ RequestsDone \/ Flavor \/ Base
    \/ AclBase \/ AclCheck \/ TakeFilters \/ Search \/ Launch

Spec == Init /\ [][Next]_vars
-----------------------------------------------------------------------------
(* What is promised.                                                       *)

\* The options of one name on the command line.
Uses(o) == {i \in DOMAIN line : line[i].o = o}

\* What the command line says of a setting: the last value given, a mechanism
\* given before -x being forgotten.
OnLine(k) ==
    LET at == {i \in DOMAIN line :
                 /\ line[i].o \in DOMAIN SettingOf
                 /\ SettingOf[line[i].o] = k
                 /\ k = "SASL_MECH" => \A j \in Uses("x") : j < i}
    IN  IF at = {} THEN Default[k] ELSE line[Max(at)].v

\* What the files say of it: the value of the first line, file by file, that can be
\* read and gives another than the default.  A place is <<file, line>>.
Places == UNION {{i} \X DOMAIN files[i] : i \in DOMAIN files}
LineAt(p) == files[p[1]][p[2]]
Gives(p, k) == LineAt(p).ok /\ Setting(LineAt(p).key) = k /\ LineAt(p).val # Default[k]
NotAfter(p, q) == p[1] < q[1] \/ (p[1] = q[1] /\ p[2] <= q[2])
InFiles(k) ==
    LET given == {p \in Places : Gives(p, k)}
    IN  IF given = {} THEN Default[k]
        ELSE LineAt(CHOOSE p \in given : \A q \in given : NotAfter(p, q)).val

HasPassword ==
    \/ Uses("W") # {}
    \/ Uses("y") # {}
    \/ (Uses("w") # {} /\ line[Max(Uses("w"))].v # "")

\* The command line decides a setting where it says something else than the default;
\* a default asked for is not seen, and the files replace it.
Chosen(k) == IF OnLine(k) # Default[k] THEN OnLine(k) ELSE InFiles(k)

\* What the search for a base may come to.
Detected == {""} \cup {FindRootDN(dse.contexts) : dse \in RootDSEs}

\* The base of -b stays, even when empty, but an empty one is looked for again for the
\* analysis of the rules.  The BASE of the files serves only the requests that come
\* before the search for a base, which replaces it whatever it finds.
BaseAsGiven ==
    IF pc \notin {"query", "aclbase", "tui"}
    THEN cfg.set["BASE"] = IF Uses("b") # {} THEN OnLine("BASE") ELSE InFiles("BASE")
    ELSE \/ Uses("b") = {} /\ cfg.set["BASE"] \in Detected
         \/ Uses("b") # {} /\ cfg.set["BASE"] = OnLine("BASE")
         \/ Uses("b") # {} /\ OnLine("BASE") = "" /\ cfg.aclCheck /\ cfg.set["BASE"] \in Detected

\* Where each setting of a session comes from: the last option that gives it, when that
\* is not its default; else the first line of the files, in the order they are read,
\* that gives another value than the default, later lines and files being ignored;
\* and the base from -b or from the server, never from the files in the end.  This is
\* what the code keeps; main.cpp:1000 promises the command line for a default given
\* too, and ldaprc.cpp:149 the last of the files.
\* (parseLine, the merge and the base detection in main)
ValuesAsGiven ==
    pc \notin {"options", "settings", "exit"} =>
        /\ \A k \in Settings \ {"URI", "BASE", "SASL_MECH"} : cfg.set[k] = Chosen(k)
        /\ Chosen("URI") # "" => cfg.set["URI"] = Chosen("URI")
        /\ BaseAsGiven

\* The bind is the one asked for: -x is never answered by SASL, a mechanism
\* asked for without -x is the one used whatever password comes with it, a
\* password without a mechanism makes the bind simple, and SASL takes the
\* mechanism of the files only when the command line names none.
\* (the implications of the options, the merge and the bind in main)
AuthAsAsked ==
    \A i \in DOMAIN log :
        /\ log[i].req = "simple" =>
              Uses("x") # {} \/ (HasPassword /\ OnLine("SASL_MECH") = "")
        /\ log[i].req = "sasl" =>
              /\ Uses("x") = {}
              /\ HasPassword => OnLine("SASL_MECH") # ""
              /\ log[i].with = IF OnLine("SASL_MECH") # "" THEN OnLine("SASL_MECH")
                                                          ELSE InFiles("SASL_MECH")

\* Under -ZZ, whatever comes between the two, nothing but StartTLS itself is
\* sent over a link TLS does not protect.  (StartTLS in main)
TlsFirst ==
    Cardinality(Uses("Z")) >= 2 =>
        \A i \in DOMAIN log : log[i].req # "starttls" => log[i].tls

\* An exit code of 0, and the interface, mean that main() was told of no failure but
\* those it does without, with or without -c, and that what failed all the same is a
\* request main() is not told the end of: the capabilities, or a stream that the
\* server ended with an error, whose exit code is 0.
\* (the exits of main, persistentSearch and syncRefreshOnly)
ExitTells ==
    pc = "tui" \/ (pc = "exit" /\ exit = 0) =>
        \A i \in DOMAIN log :
            log[i].req \notin Optional =>
                /\ log[i].told
                /\ ~ log[i].ok => log[i].req \in Silent

\* Every request of the command line is answered before the interface opens;
\* a --cli run that ends well did one thing, the first it was asked for.
\* (the requests in main)
AskedIsDone ==
    LET wanted == {r \in ToSet(Requests) : Uses(r) # {}}
        Done   == {i \in DOMAIN log : log[i].req \in ToSet(Requests) \cup {"acl", "search"}}
    IN  /\ pc = "tui" =>
              /\ {log[i].req : i \in Done} = wanted
              /\ \A i, j \in Done : i < j => Place(log[i].req) < Place(log[j].req)
        /\ pc = "exit" /\ exit = 0 /\ Uses("cli") # {} =>
              \A i, j \in Done : /\ log[i].req = log[j].req
                                /\ wanted # {} => log[i].req = FirstOf(wanted)
=============================================================================
