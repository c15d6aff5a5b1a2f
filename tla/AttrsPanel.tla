----------------------------- MODULE AttrsPanel -----------------------------
(***************************************************************************)
(* The attribute panel of diratlas (src/tui/attrs.cpp, class AttrsWidget): *)
(* the rows made of an entry, collapsed values, the cursor, scrolling over *)
(* values that wrap, edit mode and search mode, with the keys the App      *)
(* takes before it hands the others on.                                    *)
(*                                                                         *)
(* An operator whose name ends in Fault is the next one with a bug, for    *)
(* the mutants of PROJECT.json.                                            *)
(***************************************************************************)
EXTENDS Schema, Integers, SequencesExt, FiniteSetsExt, Functions

CONSTANTS Schemas,  \* the objectClass definitions a server may publish
          Entries,  \* [attrs]: the entries; an attribute is [name, base, options, op, vals], a
                    \* value [text, len, brace], brace -1 if it does not start with {n}
          Rank,     \* base types and classes -> their place in the alphabet
          Jump,     \* rows of PgUp and PgDn, 10 in the code
          Sizes,    \* the columns of a value and the lines of the window, header included
          MaxEdit,  \* bound: characters in the line edited
          StartsEmpty \* TRUE if the first entry (the RootDSE) may be unreadable

ASSUME SizesAssumption ==
    Jump \in Nat \ {0} /\ MaxEdit \in Nat /\ Sizes \subseteq (Nat \ {0}) \X (Nat \ {0})

\* The alphabet, which the empty name is not part of.
ASSUME RankAssumption ==
    /\ DOMAIN Rank \subseteq STRING \ {""} /\ \A a \in DOMAIN Rank : Rank[a] \in Nat
    /\ \A a, b \in DOMAIN Rank : Rank[a] = Rank[b] => a = b

ASSUME SchemasAssumption ==
    \A d \in Schemas : d \in Seq([name : DOMAIN Rank, sup : ListOf(DOMAIN Rank),
                                  must : ListOf(STRING), may : ListOf(STRING)])

\* A class is defined once, and one name needs no parentheses.
ASSUME PublishedAssumption ==
    \A d \in Schemas : \A n \in DOMAIN d :
        /\ \A k \in DOMAIN d : Lower[d[k].name] = Lower[d[n].name] => k = n
        /\ d[n].sup.form = "bare" => Len(d[n].sup.names) \in {0, 1}

Value == [text : STRING, len : Nat, brace : Int]
Attribute == [name : STRING, base : DOMAIN Rank, options : BOOLEAN, op : BOOLEAN, vals : Seq(Value)]
ASSUME EntriesAssumption == \A e \in Entries : e \in [attrs : Seq(Attribute)]

VARIABLES defs,      \* the definitions of the server
          entry, rows, collapsed, selected, scroll,
          width, height,
          drawn,     \* the screen shows the panel as it is
          edit,      \* [on, len, pos]: edit mode, the characters and the cursor
          searching  \* search mode

vars == <<defs, entry, rows, collapsed, selected, scroll, width, height, drawn, edit, searching>>

(* The rows of an entry.                                                   *)

\* The classes listed: the values of the attribute spelled "objectClass".
Classes(e) ==
    LET named == {n \in DOMAIN e.attrs : e.attrs[n].name = "objectClass"}
    IN IF named = {} THEN <<>>
       ELSE LET a == e.attrs[CHOOSE n \in named : TRUE]
            IN [k \in DOMAIN a.vals |-> a.vals[k].text]

Bases(e) == {e.attrs[n].base : n \in {n \in DOMAIN e.attrs : e.attrs[n].vals # <<>>}}

\* A name without options is a spelling of its base type, and an entry uses one spelling.
ASSUME SpellingAssumption ==
    \A e \in Entries : \A n \in DOMAIN e.attrs : LET a == e.attrs[n] IN
        /\ a.name = "objectClass" => a.base = "objectclass" /\ ~a.options
        /\ a.name \in Bases(e) => a.base = a.name /\ ~a.options
        /\ \A k \in DOMAIN e.attrs : e.attrs[k].base = a.base /\ ~a.options /\ ~e.attrs[k].options
                                     => k = n

ValueRow(a, v) == [name |-> a.name, base |-> a.base, text |-> v.text, len |-> v.len,
                   brace |-> v.brace, from |-> "", toggle |-> FALSE, hidden |-> 0]
ImplicitRow(i) == [name |-> "objectClass", base |-> "objectclass", text |-> i.text, len |-> 1,
                   brace |-> -1, from |-> i.from, toggle |-> FALSE, hidden |-> 0]
ToggleRow(b, n) == [name |-> b, base |-> b, text |-> "[+N more]", len |-> 1,
                    brace |-> -1, from |-> "", toggle |-> TRUE, hidden |-> n]

\* A finite set in an order: each element after as many others as come before it.
Listed(S, Before(_, _)) ==
    [m \in 1 .. Cardinality(S) |-> CHOOSE x \in S : Cardinality({y \in S : Before(y, x)}) = m - 1]

\* Classes go by depth, then by what is displayed, which a listed class has none of.
Deeper(sup, r, s) ==
    LET D(c) == IF sup = <<>> THEN 99 ELSE Depth(sup, c)
    IN \/ D(r.text) < D(s.text)
       \/ /\ D(r.text) = D(s.text) /\ s.from # ""
          /\ r.from = "" \/ Rank[r.text] < Rank[s.text]
LowerBrace(r, s) == r.brace < s.brace
\* What neither comes before the other stays in its order.
StableSort(g, Before(_, _)) ==
    LET order == Listed(DOMAIN g, LAMBDA m, n : \/ Before(g[m], g[n])
                                                \/ m < n /\ ~Before(g[n], g[m]))
    IN [m \in DOMAIN g |-> g[order[m]]]
Sorted(sup, b, g) ==
    IF b = "objectclass" THEN StableSort(g, LAMBDA r, s : Deeper(sup, r, s))
    ELSE IF \A n \in DOMAIN g : g[n].brace # -1 THEN StableSort(g, LowerBrace)
    ELSE g

\* The rows of a base type, whatever their options; sup is <<>> when no schema is given.
Group(sup, e, b) ==
    LET OfAttr(a) == IF a.base # b THEN <<>> ELSE [k \in DOMAIN a.vals |-> ValueRow(a, a.vals[k])]
        implicit == IF b # "objectclass" \/ sup = <<>> THEN <<>> ELSE Implicit(sup, Classes(e))
    IN Sorted(sup, b, FlattenSeq([n \in DOMAIN e.attrs |-> OfAttr(e.attrs[n])])
                      \o [k \in DOMAIN implicit |-> ImplicitRow(implicit[k])])

\* Mandatory first, then the others, then the operational ones: as the last attribute of
\* the base type is.  One with options is never found among the mandatory ones.
Category(mandatory, e, b) ==
    LET last == e.attrs[Max({n \in DOMAIN e.attrs : e.attrs[n].base = b /\ e.attrs[n].vals # <<>>})]
    IN IF b \in mandatory /\ ~last.options THEN 0 ELSE IF last.op THEN 2 ELSE 1
AttrOrder(mandatory, e) ==
    LET C(b) == Category(mandatory, e, b)
    IN Listed(Bases(e), LAMBDA a, b : C(a) < C(b) \/ (C(a) = C(b) /\ Rank[a] < Rank[b]))

\* Three rows and a toggle, when the base type is collapsed.
FoldedFault(b, g) == SubSeq(g, 1, 3) \o <<ToggleRow(b, Len(g) - 4)>>
Folded(b, g) == SubSeq(g, 1, 3) \o <<ToggleRow(b, Len(g) - 3)>>

Rows(sup, mandatory, coll, e) ==
    LET order == AttrOrder(mandatory, e)
        Part(b) == LET g == Group(sup, e, b)
                   IN IF b \in coll /\ Len(g) > 3 THEN Folded(b, g) ELSE g
    IN FlattenSeq([k \in DOMAIN order |-> Part(order[k])])

\* show: what is collapsed is dropped if the entry has no attribute spelled so.
Pruned(coll, e) == {c \in coll : \E n \in DOMAIN e.attrs : e.attrs[n].name = c}
ShowWith(sup, mandatory, coll, e) ==
    /\ entry' = e
    /\ collapsed' = Pruned(coll, e)
    /\ rows' = Rows(sup, mandatory, collapsed', e)
    /\ scroll' = 0
    /\ drawn' = FALSE
Show(e) == /\ ShowWith(SupMap(defs), MandatoryAttrs(defs, ToSet(Classes(e))), collapsed, e)
           /\ selected' = 0
\* The panel shows its own entry again without the schema.
ShowAgain(coll) == ShowWith(<<>>, {}, coll, entry)

(* Drawing.                                                                *)

Lines(r) == IF r.toggle \/ width <= 10 \/ r.len = 0 THEN 1 ELSE (r.len + width - 1) \div width
Start(n) == SumFunctionOnSet([k \in DOMAIN rows |-> Lines(rows[k])], 1 .. n)
Clamped(s, most) == Max({0, Min({s, most})})
ScrolledFault(selV, dataH, most) ==
    LET s == Clamped(scroll, most)
    IN Clamped(IF selV < s THEN selV
               ELSE IF selV > s + dataH /\ dataH > 0 THEN Max({0, selV - dataH + 1}) ELSE s, most)
Scrolled(selV, dataH, most) ==
    LET s == Clamped(scroll, most)
        up == Min({selV, s})
    IN Clamped(IF selV >= up + dataH /\ dataH > 0 THEN Max({0, selV - dataH + 1}) ELSE up, most)

\* vinfo[selected_] is read for every index below the number of rows, -1 included.
Draw ==
    /\ ~drawn /\ drawn' = TRUE
    /\ rows # <<>> \/ StartsEmpty
    /\ selected' = IF selected >= Len(rows) THEN 0 ELSE selected
    /\ LET dataH == height - 1
           selV == IF selected' \in 0 .. Len(rows) - 1 THEN Start(selected') ELSE 0
       IN scroll' = Scrolled(selV, dataH, Max({0, Start(Len(rows)) - dataH}))
    /\ UNCHANGED <<defs, entry, rows, collapsed, width, height, edit, searching>>

\* A new size of the terminal, or of the panel by the splitter; then it is drawn.
Resize ==
    /\ drawn
    /\ \E size \in Sizes \ {<<width, height>>} : width' = size[1] /\ height' = size[2]
    /\ drawn' = FALSE
    /\ UNCHANGED <<defs, entry, rows, collapsed, selected, scroll, edit, searching>>

(* Keys.                                                                   *)

Row == rows[selected + 1]
HasRow == selected \in 0 .. Len(rows) - 1
Browsing == drawn /\ ~edit.on /\ ~searching
Moved(to) == /\ Browsing /\ selected' = to /\ drawn' = FALSE
             /\ UNCHANGED <<defs, entry, rows, collapsed, scroll, width, height, edit, searching>>

LineUp   == Moved(IF selected > 0 THEN selected - 1 ELSE selected)
LineDown == Moved(IF selected + 1 < Len(rows) THEN selected + 1 ELSE selected)
PageUp   == Moved(IF selected > Jump THEN selected - Jump ELSE 0)
PageDown == Moved(IF selected + Jump < Len(rows) THEN selected + Jump ELSE Len(rows) - 1)

\* saveTogglePos and restoreTogglePos: the value with the same name and the same number of
\* values of that name before it, else the first row of that name, else the first row.
Above(name) ==
    Cardinality({n \in 1 .. selected : \A k \in n .. selected : rows[k].name = name /\ ~rows[k].toggle})
RestoredFault(name, above) == 0
Restored(name, above) ==
    LET named == {n \in DOMAIN rows' : rows'[n].name = name /\ ~rows'[n].toggle}
        nth == {n \in named : Cardinality({k \in named : k < n}) = above}
        any == {n \in DOMAIN rows' : rows'[n].name = name}
    IN IF nth # {} THEN Min(nth) - 1 ELSE IF any # {} THEN Min(any) - 1 ELSE 0

Flipped(c) == IF c \in collapsed THEN collapsed \ {c} ELSE collapsed \cup {c}
Toggle ==
    /\ Browsing /\ HasRow /\ Row.toggle
    /\ ShowAgain(Flipped(Row.base))
    /\ selected' = Restored(Row.base, Above(Row.base))
    /\ UNCHANGED <<defs, width, height, edit, searching>>

\* Enter on a DN whose entry can be read; popups leave the panel as it is.
GoTo ==
    /\ Browsing /\ HasRow /\ ~Row.toggle /\ Row.text = "dn"
    /\ \E e \in Entries : Show(e)
    /\ UNCHANGED <<defs, width, height, edit, searching>>

\* '-' and '+' take the name of the row, and lose the cursor.
CollapseValues ==
    /\ Browsing /\ HasRow
    /\ ShowAgain(collapsed \cup {Row.name}) /\ selected' = 0
    /\ UNCHANGED <<defs, width, height, edit, searching>>
ExpandValues ==
    /\ Browsing /\ HasRow /\ Row.name \in collapsed
    /\ ShowAgain(collapsed \ {Row.name}) /\ selected' = 0
    /\ UNCHANGED <<defs, width, height, edit, searching>>

\* The App shows an entry it has loaded.
Load ==
    /\ drawn
    /\ \E e \in Entries : e # entry /\ Show(e)
    /\ UNCHANGED <<defs, width, height, edit, searching>>

(* Edit mode, on the value of the row or on the clipboard's, and search    *)
(* mode.  The App takes q, y, p, h, / and the function keys first, in each *)
(* mode; what is typed is one of the other characters.                     *)

NoEdit == [on |-> FALSE, len |-> 0, pos |-> 0]
Edited(e) == /\ edit' = e /\ drawn' = FALSE
             /\ UNCHANGED <<defs, entry, rows, collapsed, selected, scroll, width, height, searching>>
StartEdit ==
    /\ drawn /\ HasRow
    /\ \E len \in 0 .. MaxEdit : Edited([on |-> TRUE, len |-> len, pos |-> len])
Typing == drawn /\ edit.on
Insert == /\ Typing /\ edit.len < MaxEdit
          /\ Edited([edit EXCEPT !.len = @ + 1, !.pos = @ + 1])
BackspaceFault == /\ Typing /\ edit.len > 0
                  /\ Edited([edit EXCEPT !.len = @ - 1, !.pos = @ - 1])
Backspace == /\ Typing /\ edit.pos > 0
             /\ Edited([edit EXCEPT !.len = @ - 1, !.pos = @ - 1])
Delete == Typing /\ edit.pos < edit.len /\ Edited([edit EXCEPT !.len = @ - 1])
MoveInLine ==
    /\ Typing
    /\ \E pos \in {Max({0, edit.pos - 1}), Min({edit.len, edit.pos + 1}), 0, edit.len} :
           Edited([edit EXCEPT !.pos = pos])
LeaveEdit == Typing /\ Edited(NoEdit)

Search ==
    /\ drawn /\ searching' = TRUE /\ drawn' = FALSE
    /\ UNCHANGED <<defs, entry, rows, collapsed, selected, scroll, width, height, edit>>
LeaveSearch ==
    /\ drawn /\ searching /\ ~edit.on /\ searching' = FALSE /\ drawn' = FALSE
    /\ UNCHANGED <<defs, entry, rows, collapsed, selected, scroll, width, height, edit>>

Init ==
    /\ defs \in Schemas
    /\ entry = [attrs |-> <<>>] /\ rows = <<>> /\ collapsed = {}
    /\ selected = 0 /\ scroll = 0
    /\ \E size \in Sizes : width = size[1] /\ height = size[2]
    /\ drawn = StartsEmpty
    /\ edit = NoEdit /\ searching = FALSE

First == /\ rows = <<>> /\ ~drawn
         /\ \E e \in Entries : Show(e)
         /\ UNCHANGED <<defs, width, height, edit, searching>>

Next ==
    \/ First \/ Load \/ Draw \/ Resize
    \/ LineUp \/ LineDown \/ PageUp \/ PageDown
    \/ Toggle \/ GoTo \/ CollapseValues \/ ExpandValues
    \/ StartEdit \/ Insert \/ Backspace \/ Delete \/ MoveInLine \/ LeaveEdit
    \/ Search \/ LeaveSearch

Spec == Init /\ [][Next]_vars

(* Properties.                                                             *)

TypeOK ==
    /\ collapsed \subseteq {entry.attrs[n].name : n \in DOMAIN entry.attrs}
    /\ selected \in 0 .. Max({0, Len(rows) - 1}) /\ scroll \in Nat
    /\ <<width, height>> \in Sizes
    /\ drawn \in BOOLEAN /\ searching \in BOOLEAN
    /\ edit.on \in BOOLEAN /\ edit.len \in 0 .. MaxEdit /\ edit.pos \in 0 .. edit.len

\* draw reads vinfo[selected_]: "Clamp selected_ to AttrRow range" (attrs.cpp).
SelectionExists == drawn => selected \in 0 .. Max({0, Len(rows) - 1})

\* Whatever keys, entries and sizes came before, what is drawn shows the first line of the
\* selected row, although rows wrap to several lines and toggles change their number.
SelectedOnScreen ==
    drawn /\ rows # <<>> /\ height > 1 =>
        LET v == Start(selected) IN scroll <= v /\ v < scroll + height - 1

\* Every value of the entry has a row or is counted by the toggle of its base type, which
\* the values with and without options share.
NothingLost ==
    rows # <<>> => \A b \in Bases(entry) :
        LET values == [n \in DOMAIN entry.attrs |->
                          IF entry.attrs[n].base = b THEN Len(entry.attrs[n].vals) ELSE 0]
            shown == [n \in DOMAIN rows |-> IF rows[n].base # b \/ rows[n].from # "" THEN 0
                                            ELSE IF rows[n].toggle THEN rows[n].hidden ELSE 1]
        IN SumFunction(values) = SumFunction(shown)

\* Enter on "[+N more]" leaves the cursor on the attribute whose values it shows, although
\* all rows are made again and the attributes may come in another order.
ToggleStays == [][Toggle => rows'[selected' + 1].base = Row.base]_vars

\* The rows of objectClass hold the superiors of each listed class, each class once, and
\* from top down: no class comes before its superior, if it descends from top.  Definitions
\* and entry must spell a class alike.
ClassesTopDown ==
    LET sup == SupMap(defs)
        listed == ToSet(Classes(entry))
        g == Group(sup, entry, "objectclass")
        Above_(c) == ToSet(Superiors(sup, c, Cardinality(DOMAIN sup)))
        Place(c) == {n \in DOMAIN g : Lower[g[n].text] = Lower[c]}
    IN rows # <<>> /\ sup # <<>>
       /\ (\A c, d \in listed \cup DOMAIN sup \cup Range(sup) : Lower[c] = Lower[d] => c = d) =>
       \A c \in listed : \A d \in Above_(c) :
           /\ Cardinality(Place(d)) = 1
           /\ "top" \in Above_(d) /\ d # "top" => \A m \in Place(d), n \in Place(sup[d]) : n < m

\* What the definitions say: the one numbered k and those of all its superiors, over all
\* that are listed.
Ancestry(k) ==
    LET Closed(C) == \A m, n \in DOMAIN defs :
            n \in C /\ (\E s \in Names(defs[n].sup) : Lower[s] = Lower[defs[m].name]) => m \in C
    IN {n \in DOMAIN defs : \A C \in SUBSET DOMAIN defs : k \in C /\ Closed(C) => n \in C}
Said(k, Of(_)) == UNION {Of(defs[n]) : n \in Ancestry(k)}
Must(def) == Names(def.must)
MustOrMay(def) == Names(def.must) \cup Names(def.may)

\* "walking its SUP chain so inherited requirements are included", "so inherited members
\* are included" (attrs.h), whatever the chain does, cycles included.  It is for
\* definitions with one superior at most and parentheses around each list of attributes.
SchemaAsDefined ==
    rows = <<>> /\ (\A n \in DOMAIN defs : /\ defs[n].sup.form = "bare"
                                           /\ defs[n].must.form = "bare" => defs[n].must.names = <<>>) =>
        \A k \in DOMAIN defs : LET c == defs[k].name IN
            /\ InheritedMandatoryAttrs(defs, c) = Said(k, Must)
            /\ AllowedAttrs(defs, {c}) = Said(k, MustOrMay)
=============================================================================
