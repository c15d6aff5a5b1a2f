----------------------------- MODULE TreeWidget -----------------------------
(***************************************************************************)
(* The tree of the text interface: the class TreeWidget (src/tui/tree.cpp) *)
(* with the keys App hands to it (App::handleKey, App::expandTreeNode).    *)
(*                                                                         *)
(* A TreeNode is known by its path: the DNs on the way to it from the root *)
(* of the tree, which is the empty path.  No operation frees a node and    *)
(* makes one at the same path while something still points to it, so a     *)
(* path that is no longer in the tree is a dangling pointer.  DNs are      *)
(* numbers, in the order siblings are sorted; the group of search results  *)
(* comes after them.                                                       *)
(***************************************************************************)
EXTENDS Naturals, Sequences, FiniteSets

CONSTANTS Count,   \* the entries of the directory are 1 .. Count
          Sup,     \* the entry above each; a naming context has RootDSE above it
          Base,    \* the base given with -b, or RootDSE
          Page,    \* lines of a page, 10 in handleKey
          Heights, \* the heights the window may have
          MaxResults  \* bound: entries a search finds

RootDSE == 0
DNs   == 1 .. Count
Group == Count + 1   \* the node "Search Results (N)"

ASSUME CountAssumption == Count \in Nat
ASSUME SupAssumption == /\ Sup \in [DNs -> DNs \cup {RootDSE}]
                        /\ \A d \in DNs : Sup[d] < d
ASSUME BaseAssumption == Base \in DNs \cup {RootDSE}
ASSUME PageAssumption == Page \in Nat \ {0}
ASSUME HeightsAssumption == Heights \subseteq Nat \ {0}
ASSUME MaxResultsAssumption == MaxResults \in Nat

under == [dn \in DNs \cup {RootDSE} |-> {d \in DNs : Sup[d] = dn}]
\* The entries of the subtree of dn: for the RootDSE, of the whole directory.
above[d \in DNs] == {d} \cup IF Sup[d] = RootDSE THEN {RootDSE} ELSE above[Sup[d]]
subtree == [dn \in DNs \cup {RootDSE} |-> {d \in DNs : dn \in above[d]}]

VARIABLES
    ui,         \* "key": a key is handled; "draw": then the tree is drawn
    rootDN,     \* root_->dn
    nodes,      \* the nodes: all of them, those with hasChildren, those expanded
    groupDN,    \* the DN of the group of search results, RootDSE when there is none
    visible,    \* visible_; its order is that of the paths
    selected,   \* selected_
    scroll,     \* scrollOffset_
    maxY        \* maxY_

vars == <<ui, rootDN, nodes, groupDN, visible, selected, scroll, maxY>>

Path == Seq(DNs \cup {Group})
Root == <<>>
Up(p) == SubSeq(p, 1, Len(p) - 1)
IsAbove(p, q) == Len(p) < Len(q) /\ \A i \in DOMAIN p : p[i] = q[i]
IsVirtual(p) == \E i \in DOMAIN p : p[i] = Group
DnOf(p) == IF p = Root THEN rootDN
           ELSE IF p[Len(p)] = Group THEN groupDN ELSE p[Len(p)]

Least(a, b) == IF a < b THEN a ELSE b

\* Depth first, a node before its children: where the two part, p ends or is smaller.
Before(p, q) ==
    \E i \in DOMAIN q : /\ i > Len(p) \/ p[i] < q[i]
                        /\ i - 1 <= Len(p) /\ \A j \in 1 .. i - 1 : p[j] = q[j]
Index(p, s) == Cardinality({q \in s : Before(q, p)})
NodeAt(i, s) == CHOOSE p \in s : Index(p, s) = i

\* rebuildVisible: the nodes all of whose ancestors are expanded.
Visible(n) == {p \in n.all : \A i \in 0 .. Len(p) - 1 : SubSeq(p, 1, i) \in n.expanded}

MinusFault(a, b) == a - b
Minus(a, b) == IF a > b THEN a - b ELSE 0   \* std::max(0, a - b)

\* ensureVisible, after visible_ has become s: the selection and the scroll offset.
Ensured(sel, s, offset) ==
    IF sel \in s THEN [sel |-> sel, scroll |-> Least(offset, Index(sel, s))]
                 ELSE [sel |-> Root, scroll |-> 0]

Without(n, gone) == [all |-> n.all \ gone, hasChildren |-> n.hasChildren \ gone,
                     expanded |-> n.expanded \ gone]

TypeOK ==
    /\ ui \in {"key", "draw"}
    /\ rootDN \in DNs \cup {RootDSE} /\ groupDN \in DNs \cup {RootDSE}
    /\ nodes.all \subseteq Path /\ IsFiniteSet(nodes.all) /\ Root \in nodes.all
    /\ \A p \in nodes.all \ {Root} : Up(p) \in nodes.all
    /\ nodes.hasChildren \subseteq nodes.all /\ nodes.expanded \subseteq nodes.all
    /\ visible \subseteq Path
    /\ selected \in Path
    /\ scroll \in Nat /\ maxY \in Heights \cup {0}

-----------------------------------------------------------------------------
(* loadChildren.                                                             *)

DnsAbove(p) == {DnOf(SubSeq(p, 1, i)) : i \in 0 .. Len(p) - 1}

\* What becomes of the entries of a onelevel search, all of them.
ChildrenFault(p, dn, results) == results

\* The entry itself and the entries above it, which chaining may return, are left out.
Children(p, dn, results) == results \ ({dn} \cup DnsAbove(p))

\* p, whose children were dropped, has the entries as its children; marked says whether
\* it keeps hasChildren.
WithChildren(n, p, entries, marked) ==
    LET kids == {Append(p, d) : d \in entries}
    IN  [all         |-> n.all \cup kids,
         hasChildren |-> (n.hasChildren \ {p}) \cup kids \cup marked,
         expanded    |-> n.expanded]

\* A search below p: it fails, or gives any of the entries there (limits, other
\* clients), with the base and those above it when the server chains.
Answers(p, dn) == {s \cup c : s \in SUBSET under[dn], c \in {{}, ({dn} \cup DnsAbove(p)) \cap DNs}}
LoadedNormal(n, p, dn) ==
    LET bare == Without(n, {q \in n.all : IsAbove(p, q)})
    IN  {WithChildren(bare, p, {}, {})} \cup
        {WithChildren(bare, p, Children(p, dn, results), IF results = {} THEN {} ELSE {p})
           : results \in Answers(p, dn)}

\* The contexts the RootDSE names; one that cannot be read is shown without children.
LoadedRootDSE(n) ==
    LET kids(contexts) == {<<d>> : d \in contexts}
        tree(contexts, readable) ==
            [all |-> {Root} \cup kids(contexts),
             hasChildren |-> kids(readable) \cup (IF contexts = {} THEN {} ELSE {Root}),
             expanded |-> n.expanded \cap {Root}]
    IN  {tree({}, {})} \cup {tree(under[RootDSE], r) : r \in SUBSET under[RootDSE]}

Loaded(n, p, dn) == IF p = Root /\ dn = RootDSE THEN LoadedRootDSE(n) ELSE LoadedNormal(n, p, dn)

NewRoot == [all |-> {Root}, hasChildren |-> {Root}, expanded |-> {}]

\* App::init: loadRoot.
Init ==
    /\ ui = "draw" /\ rootDN = Base
    /\ nodes \in Loaded(NewRoot, Root, Base)
    /\ groupDN = RootDSE
    /\ visible = {Root} /\ selected = Root
    /\ scroll = 0 /\ maxY = 0

-----------------------------------------------------------------------------
(* Keys.                                                                     *)

AtKey == ui = "key" /\ ui' = "draw"
HasNode == selected \in visible
Here == Index(selected, visible)

\* The selection goes to line i.
GoToLine(i) == selected' = NodeAt(i, visible)

LineUp ==
    /\ AtKey /\ HasNode /\ Here > 0
    /\ GoToLine(Here - 1) /\ scroll' = Least(scroll, Here - 1)
    /\ UNCHANGED <<rootDN, nodes, groupDN, visible, maxY>>

\* maxY_, which is 0 if the border between tree and panel has been dragged since the
\* last drawing (resize).
KnownHeights == {maxY, 0}

LineDown(height) ==
    /\ AtKey /\ HasNode /\ Here + 1 < Cardinality(visible)
    /\ GoToLine(Here + 1)
    /\ scroll' = IF Here + 1 >= scroll + height THEN scroll + 1 ELSE scroll
    /\ UNCHANGED <<rootDN, nodes, groupDN, visible, maxY>>

PageUp ==
    /\ AtKey /\ HasNode
    /\ GoToLine(Minus(Here, Page)) /\ scroll' = Minus(Here, Page)
    /\ UNCHANGED <<rootDN, nodes, groupDN, visible, maxY>>

PageDown(height) ==
    /\ AtKey /\ HasNode
    /\ LET target == Least(Here + Page, Cardinality(visible) - 1)
       IN  GoToLine(target) /\ scroll' = Minus(target + 1, height)
    /\ UNCHANGED <<rootDN, nodes, groupDN, visible, maxY>>

\* rebuildVisible and ensureVisible, after the nodes have become n.
Rebuilt(n, sel) ==
    LET s == Visible(n)
        e == Ensured(sel, s, scroll)
    IN  nodes' = n /\ visible' = s /\ selected' = e.sel /\ scroll' = e.scroll

\* '+': the children are there, or are loaded first; a cancelled load leaves them in
\* the tree and the node collapsed.
Expand ==
    /\ AtKey /\ HasNode
    /\ selected \in nodes.hasChildren \ nodes.expanded
    /\ LET opened(n) == [n EXCEPT !.expanded = @ \cup {selected}]
       IN  IF \E p \in nodes.all : p # Root /\ Up(p) = selected
             THEN Rebuilt(opened(nodes), selected)
             ELSE \E n \in Loaded(nodes, selected, DnOf(selected)) :
                     \/ Rebuilt(opened(n), selected)
                     \/ nodes' = n /\ UNCHANGED <<visible, selected, scroll>>
    /\ UNCHANGED <<rootDN, groupDN, maxY>>

CollapseFault ==
    /\ AtKey /\ HasNode
    /\ selected \in nodes.expanded
    /\ nodes' = [nodes EXCEPT !.expanded = @ \ {selected}]
    /\ UNCHANGED <<rootDN, groupDN, visible, selected, scroll, maxY>>

\* '-' on an expanded node.
Collapse ==
    /\ AtKey /\ HasNode
    /\ selected \in nodes.expanded
    /\ Rebuilt([nodes EXCEPT !.expanded = @ \ {selected}], selected)
    /\ UNCHANGED <<rootDN, groupDN, maxY>>

\* '-' on any other: to the parent, unless that is the root.
ToParent ==
    /\ AtKey /\ HasNode
    /\ selected \notin nodes.expanded
    /\ Len(selected) >= 2
    /\ Rebuilt(nodes, Up(selected))
    /\ UNCHANGED <<rootDN, groupDN, maxY>>

\* Any other key, or a timeout.
NoKey == AtKey /\ UNCHANGED <<rootDN, nodes, groupDN, visible, selected, scroll, maxY>>

\* 'g': loadRoot("").
Reroot ==
    /\ AtKey
    /\ rootDN' = RootDSE
    /\ nodes' \in Loaded(NewRoot, Root, RootDSE)
    /\ visible' = {Root} /\ selected' = Root
    /\ groupDN' = RootDSE
    /\ UNCHANGED <<scroll, maxY>>

-----------------------------------------------------------------------------
(* Search results.                                                           *)

Cleaned == Without(nodes, {p \in nodes.all : IsVirtual(p)})

\* clearVirtual: the selection is read after its node may have been freed.  What it
\* reads is what the node held, isVirtual and parent, or something else.
ClearedSelections ==
    IF IsVirtual(selected) THEN {Up(selected), selected} ELSE {selected}
Cleared == LET s == Visible(Cleaned) IN {Ensured(sel, s, scroll) : sel \in ClearedSelections}

\* Enter on an empty filter.
ClearVirtual ==
    /\ AtKey
    /\ nodes' = Cleaned /\ visible' = Visible(nodes')
    /\ \E e \in Cleared : selected' = e.sel /\ scroll' = e.scroll
    /\ groupDN' = RootDSE
    /\ UNCHANGED <<rootDN, maxY>>

\* The last node with the DN of the base, the root when there is none.
Target(dn) ==
    LET found == {p \in Cleaned.all : DnOf(p) = dn}
    IN  IF dn = RootDSE \/ found = {} THEN Root ELSE NodeAt(Cardinality(found) - 1, found)

ResultsIn(n, dn, results) ==
    LET group == Append(Target(dn), Group)
        leaves == {Append(group, d) : d \in results \ {dn}}
    IN  [all |-> n.all \cup {group} \cup leaves,
         hasChildren |-> n.hasChildren \cup {group},
         expanded |-> n.expanded \cup {group, Target(dn)}]

WithResultsFault(dn, results) == ResultsIn(nodes, dn, results)
WithResults(dn, results) == ResultsIn(Cleaned, dn, results)

\* showSearchResults.  App passes searchBase_: the DN under the cursor when '/' was
\* pressed, or at an earlier search, since it is kept.  In the end the selection is
\* visible_[0].
Search(dn, results) ==
    /\ AtKey
    /\ Cardinality(results) <= MaxResults
    /\ groupDN' = dn
    /\ nodes' = WithResults(dn, results) /\ visible' = Visible(nodes')
    /\ selected' = Root
    /\ \E e \in Cleared : scroll' = Ensured(e.sel, visible', e.scroll).scroll
    /\ UNCHANGED <<rootDN, maxY>>

\* After a delete, a rename or a creation; no key is involved.
Refresh ==
    /\ AtKey
    /\ nodes' \in Loaded([all |-> {Root}, hasChildren |-> nodes.hasChildren \cap {Root},
                          expanded |-> {}], Root, rootDN)
    /\ visible' = {Root} /\ selected' = Root /\ scroll' = 0
    /\ groupDN' = RootDSE
    /\ UNCHANGED <<rootDN, maxY>>

-----------------------------------------------------------------------------
\* The offset the drawing starts from, for a window of height h.
OffsetFault(e, h) == Least(e.scroll, Minus(Cardinality(visible), h))
Offset(e, h) ==
    LET offset == Least(e.scroll, Minus(Cardinality(visible), h))
        line == Index(e.sel, visible)
    IN  IF line >= Least(offset, line) + h THEN Minus(line + 1, h) ELSE Least(offset, line)

Draw(h) ==
    LET e == Ensured(selected, visible, scroll)
    IN  /\ ui = "draw"
        /\ ui' = "key"
        /\ maxY' = h
        /\ selected' = e.sel
        /\ scroll' = Offset(e, h)
        /\ UNCHANGED <<rootDN, nodes, groupDN, visible>>

Key == \/ NoKey \/ LineUp \/ PageUp \/ Expand \/ Collapse \/ ToParent
       \/ Reroot \/ ClearVirtual \/ Refresh
       \/ \E height \in KnownHeights : LineDown(height) \/ PageDown(height)
       \/ \E dn \in DNs \cup {RootDSE} : \E results \in SUBSET subtree[dn] : Search(dn, results)

Next == Key \/ \E h \in Heights : Draw(h)
Spec == Init /\ [][Next]_vars

-----------------------------------------------------------------------------
(* Properties.                                                               *)

\* visible_ is what the tree says after every operation, so it holds no freed node
\* and none is hidden, and selected_ is one of its nodes (rebuildVisible).
VisibleMatchesTree == visible = Visible(nodes) /\ selected \in visible

\* After the tree is drawn, the selection is on the screen and no line is left empty
\* while there are nodes above (TreeWidget::draw).
SelectedOnScreen ==
    LET line == Index(selected, visible)
    IN  ui = "key" => /\ scroll <= line /\ line < scroll + maxY
                      /\ scroll + maxY <= Cardinality(visible) \/ scroll = 0

\* No entry is shown below itself, whatever the server returns, so expanding ends
\* (loadChildren, "Skip ancestors to prevent infinite loops").
NoLoop == \A p \in nodes.all : ~IsVirtual(p) => DnOf(p) \notin DnsAbove(p)

\* The results of one search only are in the tree: "Previous virtual nodes (including
\* prior search results) are cleared" (showSearchResults).
OneGroup == Cardinality({p \in nodes.all : p # Root /\ p[Len(p)] = Group}) <= 1
=============================================================================
