------------------------- MODULE AppEditing_proofs --------------------------
(***************************************************************************)
(* Theorems about the editing operations, for any finite set of values,    *)
(* any directory to start with, any session and any number of writes.      *)
(***************************************************************************)
EXTENDS AppEditing, FiniteSetTheorems, TLAPS

-----------------------------------------------------------------------------
(* The rows of the panel: each index up to their number is one of a row.     *)

LEMMA RowIsFinite == IsFiniteSet(Row)
<1> DEFINE f == [r \in Row |-> <<r.attr, r.val>>]
<1>1. f \in Injection(Row, Attrs \X Values)
  <2>1. f \in [Row -> Attrs \X Values]
    BY DEF Row
  <2>2. ASSUME NEW q \in Row, NEW r \in Row, f[q] = f[r] PROVE q = r
    BY <2>2 DEF Row
  <2> QED
    BY <2>1, <2>2 DEF Injection, IsInjective
<1>2. IsFiniteSet(Attrs)
  <2>1. IsFiniteSet({"cn", "mail", "mail_x", "olcAccess"})
    <3>1. IsFiniteSet({"cn"})
      BY FS_Singleton
    <3>2. IsFiniteSet({"cn"} \cup {"mail"})
      BY <3>1, FS_AddElement
    <3>3. IsFiniteSet(({"cn"} \cup {"mail"}) \cup {"mail_x"})
      BY <3>2, FS_AddElement
    <3>4. IsFiniteSet((({"cn"} \cup {"mail"}) \cup {"mail_x"}) \cup {"olcAccess"})
      BY <3>3, FS_AddElement
    <3>5. (({"cn"} \cup {"mail"}) \cup {"mail_x"}) \cup {"olcAccess"}
            = {"cn", "mail", "mail_x", "olcAccess"}
      OBVIOUS
    <3> QED
      BY <3>4, <3>5
  <2> QED
    BY <2>1, FS_Subset, AttrsAssumption
<1>3. IsFiniteSet(Attrs \X Values)
  BY <1>2, FS_Product, ValuesAssumption
<1> HIDE DEF f
<1> QED
  BY <1>1, <1>3, FS_Injection

\* The order of the rows is total, and none is before itself.
LEMMA RowsAreOrdered ==
    ASSUME NEW p \in Row, NEW q \in Row, NEW r \in Row
    PROVE  /\ ~Before(r, r)
           /\ Before(p, q) /\ Before(q, r) => Before(p, r)
           /\ q # r => Before(q, r) \/ Before(r, q)
<1>1. \A a \in Attrs : AttrOrder(a) \in 1 .. 4
  BY DEF AttrOrder
<1>2. \A a, b \in Attrs : AttrOrder(a) = AttrOrder(b) => a = b
  <2>1. AttrOrder("cn") = 1 /\ AttrOrder("mail") = 2 /\ AttrOrder("mail_x") = 3
        /\ AttrOrder("olcAccess") = 4
    BY DEF AttrOrder
  <2> SUFFICES ASSUME NEW a \in Attrs, NEW b \in Attrs, AttrOrder(a) = AttrOrder(b)
               PROVE  a = b
    OBVIOUS
  <2>2. a \in {"cn", "mail", "mail_x", "olcAccess"} /\ b \in {"cn", "mail", "mail_x", "olcAccess"}
    BY AttrsAssumption
  <2>3. CASE a = "cn"
    BY <2>1, <2>2, <2>3
  <2>4. CASE a = "mail"
    BY <2>1, <2>2, <2>4
  <2>5. CASE a = "mail_x"
    BY <2>1, <2>2, <2>5
  <2>6. CASE a = "olcAccess"
    BY <2>1, <2>2, <2>6
  <2> QED
    BY <2>2, <2>3, <2>4, <2>5, <2>6
<1>3. p.attr \in Attrs /\ q.attr \in Attrs /\ r.attr \in Attrs
  BY DEF Row
<1>4. p.val \in Nat /\ q.val \in Nat /\ r.val \in Nat
  BY ValuesAssumption DEF Row
<1>5. q # r => q.attr # r.attr \/ q.val # r.val
  BY DEF Row
<1> QED
  BY <1>1, <1>2, <1>3, <1>4, <1>5 DEF Before

\* There is a row at each index of the panel: the ranks of the rows differ, so by the
\* pigeonhole principle they are all the indices.
LEMMA RowAtIsRow ==
    ASSUME NEW rows \in SUBSET Row, NEW i \in 1 .. Cardinality(rows)
    PROVE  RowAt(rows, i) \in rows
<1> DEFINE below(r) == {q \in rows : Before(q, r)}
<1> DEFINE n == Cardinality(rows)
<1> DEFINE Ranks == (0 .. n - 1) \ {i - 1}
<1> DEFINE rank == [r \in rows |-> Cardinality(below(r))]
<1>1. IsFiniteSet(rows) /\ n \in Nat
  BY RowIsFinite, FS_Subset, FS_CardinalityType
<1>2. ASSUME NEW r \in rows PROVE IsFiniteSet(below(r)) /\ rank[r] \in 0 .. n - 1
  <2>1. IsFiniteSet(below(r)) /\ Cardinality(below(r)) \in Nat
    BY <1>1, FS_Subset, FS_CardinalityType
  <2>2. below(r) \in SUBSET (rows \ {r})
    BY RowsAreOrdered
  <2>3. IsFiniteSet(rows \ {r}) /\ Cardinality(rows \ {r}) = n - 1
    BY <1>1, FS_RemoveElement
  <2>4. Cardinality(below(r)) <= n - 1
    BY <2>2, <2>3, FS_Subset
  <2> QED
    BY <1>1, <2>1, <2>4
<1>3. ASSUME NEW q \in rows, NEW r \in rows, Before(q, r) PROVE rank[q] # rank[r]
  <2>1. below(q) \in SUBSET below(r)
    BY <1>3, RowsAreOrdered
  <2>2. q \in below(r) /\ q \notin below(q)
    BY <1>3, RowsAreOrdered
  <2>3. IsFiniteSet(below(r))
    BY <1>2
  <2>4. Cardinality(below(r)) # Cardinality(below(q))
    BY <2>1, <2>2, <2>3, FS_Subset
  <2> QED
    BY <2>4
<1>4. \A q, r \in rows : q # r => rank[q] # rank[r]
  BY <1>3, RowsAreOrdered
<1>5. \E r \in rows : rank[r] = i - 1
  <2> SUFFICES ASSUME \A r \in rows : rank[r] # i - 1 PROVE FALSE
    OBVIOUS
  <2>1. rank \in [rows -> Ranks]
    BY <1>2
  <2>2. IsFiniteSet(Ranks) /\ Cardinality(Ranks) = n - 1
    <3> HIDE DEF n
    <3>1. n \in Nat /\ i - 1 \in 0 .. n - 1
      BY <1>1 DEF n
    <3>2. 0 \in Int /\ n - 1 \in Int
      BY <3>1
    <3>3. /\ IsFiniteSet(0 .. n - 1)
          /\ Cardinality(0 .. n - 1) = IF 0 > n - 1 THEN 0 ELSE n - 1 - 0 + 1
      BY ONLY <3>2, FS_Interval
    <3>4. Cardinality(0 .. n - 1) = n
      BY <3>1, <3>3
    <3>5. IsFiniteSet(Ranks) /\ Cardinality(Ranks) = Cardinality(0 .. n - 1) - 1
      <4>1. /\ IsFiniteSet((0 .. n - 1) \ {i - 1})
            /\ Cardinality((0 .. n - 1) \ {i - 1}) =
                 IF i - 1 \in 0 .. n - 1 THEN Cardinality(0 .. n - 1) - 1
                                        ELSE Cardinality(0 .. n - 1)
        BY <3>3, FS_RemoveElement
      <4> QED
        BY <3>1, <4>1
    <3> QED
      BY <3>4, <3>5
  <2>3. \E q, r \in rows : q # r /\ rank[q] = rank[r]
    <3> HIDE DEF rank, Ranks
    <3>1. Cardinality(Ranks) < n
      BY <1>1, <2>2
    <3> QED
      BY <1>1, <2>1, <2>2, <3>1, FS_PigeonHole
  <2> QED
    BY <1>4, <2>3
<1>6. \E r \in rows : Cardinality({q \in rows : Before(q, r)}) = i - 1
  BY <1>5
<1> QED
  BY <1>6 DEF RowAt

-----------------------------------------------------------------------------
(* The invariant: what the operations in the hands of the program are.       *)

\* A value that is to be written is a value, that of a rename a DN, and values are sent
\* as a whole only if all those of the panel begin with a brace.
WellFormed(o) ==
    /\ o.kind = "rename" => o.new \in Names
    /\ o.kind \in {"replace", "replaceAll", "add"} => o.new \in Values
    /\ o.kind \in {"options", "optionsAdd"} => o.val \in Values
    /\ o.kind = "replaceAll" => SentWhole(o)

\* Questions are asked of destructive operations, edits replace one value.
OpsInv ==
    /\ WellFormed(job) /\ WellFormed(pendingConfirm) /\ WellFormed(pendingEdit)
    /\ pendingConfirm = NoOp \/ pendingConfirm.kind \in AsksFirst
    /\ pendingEdit = NoOp \/ pendingEdit.kind = "replace"

Inv == TypeOK /\ OpsInv

LEMMA OpTyped ==
    ASSUME NEW kind \in OpKinds, NEW dn \in DN, NEW attr \in Attrs, NEW val \in Value, NEW new \in Value
    PROVE  Op(kind, dn, attr, val, new) \in OpType
BY DEF Op, OpType

LEMMA AreValues == Root \in Value /\ DN \subseteq Value /\ Values \subseteq Value /\ Names \subseteq Values
BY NamesAssumption DEF DN, Value

LEMMA NoOpTyped == NoOp \in OpType /\ NoOp.kind = "none" /\ WellFormed(NoOp)
<1>1. "none" \in OpKinds /\ Root \in DN /\ "cn" \in Attrs
  BY AttrsAssumption DEF OpKinds, DN
<1>2. NoOp.kind = "none"
  BY DEF NoOp, Op
<1> QED
  BY <1>1, <1>2, OpTyped, AreValues DEF NoOp, WellFormed

LEMMA InvInit == Init => Inv
<1> SUFFICES ASSUME Init PROVE Inv
  OBVIOUS
<1>1. panel \in EntryType /\ box \in EntryType
  BY DEF Init, NoEntry, EntryType, DN
<1>2. edit \in [on : BOOLEAN, row : Nat \ {0}, orig : Value]
  BY AreValues DEF Init, NoEdit
<1>3. dir \in [Names -> SUBSET Row]
  BY StartAssumption DEF Init
<1>4. writes \in 0 .. MaxWrites /\ others \in 0 .. MaxOthers
  BY BoundsAssumption DEF Init
<1>5. job = NoOp /\ pendingConfirm = NoOp /\ pendingEdit = NoOp /\ log = NoOp
  BY DEF Init
<1>6. OpsInv
  BY <1>5, NoOpTyped DEF OpsInv
<1>7. pendingEdit \in OpType /\ pendingConfirm \in OpType /\ log \in OpType /\ job \in OpType
  BY <1>5, NoOpTyped
<1>8. /\ sel \in DN /\ currentDN \in DN /\ edited \in DN /\ row \in Nat \ {0}
      /\ ui \in {"key", "settle", "reload"} /\ focus \in {"tree", "attrs"}
      /\ pendingUpdate \in BOOLEAN /\ pendingRefreshTree \in BOOLEAN
      /\ pendingReloadEntry \in BOOLEAN /\ withdrawn \in BOOLEAN
  <2>1. sel = Root /\ currentDN = Root /\ edited = Root /\ row = 1
    BY DEF Init
  <2>2. ui = "key" /\ focus = "tree" /\ pendingUpdate = FALSE /\ pendingRefreshTree = FALSE
        /\ pendingReloadEntry = FALSE /\ withdrawn = FALSE
    BY DEF Init
  <2>3. sel \in DN /\ currentDN \in DN /\ edited \in DN /\ row \in Nat \ {0}
    BY <2>1 DEF DN
  <2> QED
    BY <2>2, <2>3
<1>9. TypeOK
  BY <1>1, <1>2, <1>3, <1>4, <1>7, <1>8 DEF TypeOK
<1> QED
  BY <1>6, <1>9 DEF Inv

\* What is shown of an entry, and the row under the cursor.
LEMMA ShownTyped ==
    ASSUME TypeOK, NEW n \in DN
    PROVE  Shown(n) \in EntryType /\ RowsOf(n) \in SUBSET Row
BY DEF TypeOK, Shown, RowsOf, EntryType, DN

LEMMA PanelRows ==
    ASSUME TypeOK
    PROVE  /\ panel.rows \in SUBSET Row /\ Height \in Nat
           /\ \A i \in 1 .. Height : RowAt(panel.rows, i) \in Row
           /\ HasRow => CurrentRow \in Row
<1>1. panel.rows \in SUBSET Row
  BY DEF TypeOK, EntryType
<1>2. Height \in Nat
  BY <1>1, RowIsFinite, FS_Subset, FS_CardinalityType DEF Height
<1>3. \A i \in 1 .. Height : RowAt(panel.rows, i) \in panel.rows
  BY <1>1, RowAtIsRow DEF Height
<1>4. row \in Nat \ {0}
  BY DEF TypeOK
<1>5. HasRow => CurrentRow \in Row
  BY <1>1, <1>2, <1>3, <1>4 DEF HasRow, CurrentRow
<1> QED
  BY <1>1, <1>2, <1>3, <1>5

\* The directory after a change the server can do.
LEMMA ChangedTyped ==
    ASSUME TypeOK, WellFormed(job), Possible(job), job.kind \in TreeWrites \cup EntryWrites
    PROVE  Changed(job) \in [Names -> SUBSET Row]
<1>1. job.dn \in Names /\ job.attr \in Attrs /\ job.rows \in SUBSET Row /\ Names \subseteq Values
  BY AreValues DEF TypeOK, OpType, Possible, DN
<1>2. dir \in [Names -> SUBSET Row]
  BY DEF TypeOK
<1>3. "cn" \in Attrs /\ NewDesc(job.attr) \in Attrs
  BY AttrsAssumption DEF NewDesc
<1>4. \A a \in Attrs, v \in Values : Rows(a, {v}) \in SUBSET Row
  BY DEF Rows, Row
<1>5. ASSUME NEW s \in SUBSET Row PROVE [dir EXCEPT ![job.dn] = s] \in [Names -> SUBSET Row]
  BY <1>1, <1>2
<1>6. CASE job.kind = "rename"
  BY <1>1, <1>2, <1>3, <1>4, <1>6 DEF Changed, WellFormed
<1>7. CASE job.kind \in {"create", "delete", "move"}
  BY <1>1, <1>2, <1>3, <1>4, <1>5, <1>7 DEF Changed
<1>8. CASE job.kind \in {"replace", "add"}
  BY <1>1, <1>2, <1>4, <1>5, <1>8 DEF Changed, WellFormed
<1>9. CASE job.kind = "optionsAdd"
  BY <1>1, <1>2, <1>3, <1>4, <1>5, <1>9 DEF Changed, WellFormed
<1>10. CASE job.kind \in {"replaceAll", "delval", "delattr", "options"}
  BY <1>1, <1>2, <1>5, <1>10 DEF Changed
<1> QED
  BY <1>6, <1>7, <1>8, <1>9, <1>10 DEF TreeWrites, EntryWrites

\* What a step does to the three operations kept, and to nothing else they need.
LEMMA SameOps ==
    ASSUME OpsInv, UNCHANGED <<job, pendingConfirm, pendingEdit>> PROVE OpsInv'
BY DEF OpsInv, WellFormed

\* The operations the user starts or is asked about.
LEMMA RunTyped ==
    ASSUME Inv, NEW o \in OpType, WellFormed(o), Run(o)
    PROVE  job' \in OpType /\ writes' \in 0 .. MaxWrites /\ WellFormed(job)'
<1>1. writes' \in 0 .. MaxWrites
  BY BoundsAssumption DEF Inv, TypeOK, Run
<1>2. job' = o
  BY DEF Run
<1> QED
  BY <1>1, <1>2 DEF WellFormed

LEMMA AskTyped ==
    ASSUME Inv, NEW o \in OpType, WellFormed(o), o.kind \in AsksFirst, Ask(o),
           UNCHANGED <<screen, meant>>, ui' = "settle"
    PROVE  Inv'
<1>1. pendingConfirm' = o /\ log' = o
  BY DEF Ask
<1>2. OpsInv'
  BY <1>1 DEF Inv, OpsInv, WellFormed, Ask
<1>3. TypeOK'
  BY <1>1 DEF Inv, TypeOK, Ask, screen, meant, handoff
<1> QED
  BY <1>2, <1>3 DEF Inv

LEMMA UserStepInv == Inv /\ UserStep => Inv'
<1> SUFFICES ASSUME Inv, UserStep PROVE Inv'
  OBVIOUS
<1>t. TypeOK /\ OpsInv
  BY DEF Inv
<1>c. /\ "cn" \in Attrs /\ Root \in DN /\ Names \subseteq DN
      /\ Root \in Value /\ DN \subseteq Value /\ Values \subseteq Value /\ Names \subseteq Values
  BY AttrsAssumption, AreValues DEF DN
<1>n. NoOp \in OpType /\ WellFormed(NoOp) /\ NoOp.kind = "none"
  BY NoOpTyped
<1> USE DEF Inv, screen, asking, handoff, meant
<1>1. CASE NoKey \/ Tab \/ EscapeEdit
  <2>1. OpsInv'
    BY <1>t, <1>1, SameOps DEF NoKey, Tab, EscapeEdit
  <2>2. CASE NoKey
    BY <1>t, <2>1, <2>2 DEF NoKey, TypeOK
  <2>3. CASE Tab
    <3>1. focus' \in {"tree", "attrs"}
      BY <2>3 DEF Tab
    <3> QED
      BY <1>t, <2>1, <2>3, <3>1 DEF Tab, TypeOK
  <2>4. CASE EscapeEdit
    <3>1. edit' \in [on : BOOLEAN, row : Nat \ {0}, orig : Value]
      BY <1>c, <2>4 DEF EscapeEdit, NoEdit
    <3> QED
      BY <1>t, <2>1, <2>4, <3>1 DEF EscapeEdit, TypeOK
  <2> QED
    BY <1>1, <2>2, <2>3, <2>4
<1>2. ASSUME NEW n \in DN, MoveCursor(n) PROVE Inv'
  <2>1. OpsInv'
    BY <1>t, <1>2, SameOps DEF MoveCursor
  <2>2. TypeOK'
    BY <1>t, <1>2 DEF MoveCursor, Ready, TypeOK
  <2> QED
    BY <2>1, <2>2
<1>3. CASE Open
  <2>1. Op("load", sel, "cn", Root, Root) \in OpType
    BY <1>t, <1>c, OpTyped DEF TypeOK, OpKinds
  <2>2. job' \in OpType /\ job'.kind = "load"
    BY <1>3, <2>1 DEF Open, LoadSelectedEntry, Op
  <2>3. OpsInv'
    BY <1>t, <1>3, <2>2 DEF Open, LoadSelectedEntry, OpsInv, WellFormed
  <2>4. TypeOK'
    BY <1>t, <1>3, <2>2 DEF Open, LoadSelectedEntry, Ready, TypeOK
  <2> QED
    BY <2>3, <2>4
<1>4. ASSUME NEW n \in Names, GoToDN(n) PROVE Inv'
  <2>1. OpsInv'
    BY <1>t, <1>4, SameOps DEF GoToDN
  <2>2. panel' \in EntryType /\ currentDN' \in DN /\ row' \in Nat \ {0}
    BY <1>t, <1>4, <1>c, ShownTyped DEF GoToDN, TypeOK
  <2>3. TypeOK'
    BY <1>t, <1>n, <1>4, <2>2 DEF GoToDN, Ready, TypeOK
  <2> QED
    BY <2>1, <2>3
<1>5. ASSUME NEW i \in 1 .. Height, SelectRow(i) PROVE Inv'
  <2>1. OpsInv'
    BY <1>t, <1>5, SameOps DEF SelectRow
  <2>2. i \in Nat \ {0}
    BY <1>t, PanelRows
  <2>3. TypeOK'
    BY <1>t, <1>5, <2>2 DEF SelectRow, Ready, TypeOK
  <2> QED
    BY <2>1, <2>3
<1>6. CASE StartEdit
  <2>1. OpsInv'
    BY <1>t, <1>6, SameOps DEF StartEdit
  <2>2. CurrentRow.val \in Value
    BY <1>t, <1>c, <1>6, PanelRows DEF StartEdit, Row
  <2>3. edit' \in [on : BOOLEAN, row : Nat \ {0}, orig : Value]
    BY <1>t, <1>6, <2>2 DEF StartEdit, TypeOK
  <2>4. TypeOK'
    BY <1>t, <1>n, <1>6, <2>3 DEF StartEdit, Ready, TypeOK
  <2> QED
    BY <2>1, <2>4
<1>7. ASSUME NEW attr \in EditedAttr, NEW new \in Values, EnterEdit(attr, new) PROVE Inv'
  <2>1. attr \in Attrs
    <3>1. edit.row \in Nat \ {0}
      BY <1>t DEF TypeOK
    <3>2. edit.row <= Height => edit.row \in 1 .. Height
      BY <1>t, <3>1, PanelRows
    <3> QED
      BY <1>t, <3>2, PanelRows DEF EditedAttr, Row
  <2>2. edit.orig \in Value /\ currentDN \in DN /\ new \in Value
    BY <1>t, <1>c DEF TypeOK
  <2>3. edit' \in [on : BOOLEAN, row : Nat \ {0}, orig : Value]
    BY <1>7, <1>c DEF EnterEdit, NoEdit
  <2>4. CASE log' = NoOp /\ UNCHANGED <<pendingEdit, pendingConfirm, withdrawn, edited>>
    <3>1. OpsInv'
      BY <1>t, <1>7, <2>4, SameOps DEF EnterEdit
    <3>2. TypeOK'
      BY <1>t, <1>n, <1>7, <2>3, <2>4 DEF EnterEdit, Ready, TypeOK
    <3> QED
      BY <3>1, <3>2
  <2>5. CASE /\ attr \in NamingAttrs
             /\ pendingConfirm' = Op("rename", currentDN, attr, edit.orig, new)
             /\ log' = pendingConfirm'
             /\ UNCHANGED <<pendingEdit, withdrawn, edited>>
    <3>1. pendingConfirm' \in OpType
      BY <2>1, <2>2, <2>5, OpTyped DEF OpKinds, TreeWrites
    <3>2. pendingConfirm'.kind = "rename" /\ pendingConfirm'.new \in Names
      <4>1. new \in Names
        BY <1>7, <2>5 DEF EnterEdit
      <4> QED
        BY <2>5, <4>1 DEF Op
    <3>3. OpsInv'
      BY <1>t, <1>7, <2>5, <3>2 DEF EnterEdit, OpsInv, WellFormed, AsksFirst
    <3>4. TypeOK'
      BY <1>t, <1>7, <2>3, <2>5, <3>1 DEF EnterEdit, Ready, TypeOK
    <3> QED
      BY <3>3, <3>4
  <2>6. CASE /\ pendingEdit' = Op("replace", Root, attr, edit.orig, new)
             /\ log' = pendingEdit' /\ withdrawn' = FALSE /\ edited' = panel.dn
             /\ UNCHANGED pendingConfirm
    <3>1. pendingEdit' \in OpType
      BY <1>c, <2>1, <2>2, <2>6, OpTyped DEF OpKinds, EntryWrites
    <3>2. pendingEdit'.kind = "replace" /\ pendingEdit'.new \in Values
      BY <2>6 DEF Op
    <3>3. OpsInv'
      BY <1>t, <1>7, <2>6, <3>2 DEF EnterEdit, OpsInv, WellFormed
    <3>4. panel.dn \in DN
      BY <1>t DEF TypeOK, EntryType
    <3>5. TypeOK'
      BY <1>t, <1>7, <2>3, <2>6, <3>1, <3>4 DEF EnterEdit, Ready, TypeOK
    <3> QED
      BY <3>3, <3>5
  <2> QED
    BY <1>7, <2>4, <2>5, <2>6 DEF EnterEdit
<1>8. CASE ApplyEdit
  <2>1. OpsInv' /\ job' \in OpType /\ writes' \in 0 .. MaxWrites
    <3>1. CASE Run(EditOp)
      <4>1. pendingEdit \in OpType /\ currentDN \in DN
        BY <1>t DEF TypeOK
      <4>2. pendingEdit.kind = "replace" /\ pendingEdit.new \in Values
        BY <1>t, <1>8 DEF ApplyEdit, OpsInv, WellFormed
      <4>3. Rows(pendingEdit.attr, {pendingEdit.new}) \in SUBSET Row
        BY <4>1, <4>2 DEF OpType, Rows, Row
      <4>4. RowsWith(pendingEdit.attr) \in SUBSET Row
        BY <1>t, PanelRows DEF RowsWith
      <4>5. EditOp \in OpType
        BY <4>1, <4>3, <4>4 DEF EditOp, OpType, OpKinds, EntryWrites
      <4>6. WellFormed(EditOp)
        <5> DEFINE old == [attr |-> pendingEdit.attr, val |-> pendingEdit.val]
                   all == RowsWith(pendingEdit.attr)
        <5>1. EditOp.new = pendingEdit.new /\ EditOp.attr = pendingEdit.attr
              /\ EditOp.val = pendingEdit.val
          BY <4>1 DEF EditOp, OpType
        <5>2. CASE all # {} /\ all \subseteq Braced
          <6>1. /\ EditOp.kind = "replaceAll"
                /\ EditOp.rows = IF old \in all THEN (all \ {old}) \cup Rows(pendingEdit.attr, {pendingEdit.new})
                                                ELSE all
            BY <4>1, <5>2 DEF EditOp, OpType
          <6>2. Rows(pendingEdit.attr, {pendingEdit.val}) = {old}
            BY DEF Rows
          <6>3. SentWhole(EditOp)
            <7> HIDE DEF old, all
            <7> QED
              BY <5>1, <5>2, <6>1, <6>2 DEF SentWhole
          <6> QED
            BY <4>2, <5>1, <6>1, <6>3 DEF WellFormed
        <5>3. CASE ~(all # {} /\ all \subseteq Braced)
          <6>1. EditOp.kind = "replace"
            BY <4>1, <4>2, <5>3 DEF EditOp, OpType
          <6> QED
            BY <4>2, <5>1, <6>1 DEF WellFormed
        <5> QED
          BY <5>2, <5>3
      <4>7. job' \in OpType /\ writes' \in 0 .. MaxWrites /\ WellFormed(job)'
        BY <3>1, <4>5, <4>6, RunTyped
      <4>8. OpsInv'
        BY <1>t, <1>n, <1>8, <4>7 DEF ApplyEdit, OpsInv, WellFormed
      <4> QED
        BY <4>7, <4>8
    <3>2. CASE UNCHANGED <<job, writes>>
      BY <1>t, <1>n, <1>8, <3>2 DEF ApplyEdit, OpsInv, WellFormed, TypeOK
    <3> QED
      BY <1>8, <3>1, <3>2 DEF ApplyEdit
  <2>2. TypeOK'
    BY <1>t, <1>c, <1>n, <1>8, <2>1 DEF ApplyEdit, Ready, TypeOK
  <2> QED
    BY <2>1, <2>2
<1>9. CASE AnswerNo
  <2>1. OpsInv'
    BY <1>t, <1>9, SameOps DEF AnswerNo
  <2>2. TypeOK'
    BY <1>t, <1>9 DEF AnswerNo, Ready, TypeOK
  <2> QED
    BY <2>1, <2>2
<1>10. CASE Confirm
  <2>1. job' \in OpType /\ writes' \in 0 .. MaxWrites /\ WellFormed(job)'
    BY <1>t, <1>10, RunTyped DEF Confirm, OpsInv, TypeOK
  <2>2. OpsInv'
    BY <1>t, <1>n, <1>10, <2>1 DEF Confirm, OpsInv, WellFormed
  <2>3. TypeOK'
    BY <1>t, <1>n, <1>10, <2>1 DEF Confirm, TypeOK
  <2> QED
    BY <2>2, <2>3
<1>11. CASE Decline
  <2>1. OpsInv'
    BY <1>t, <1>n, <1>11 DEF Decline, OpsInv, WellFormed
  <2>2. TypeOK'
    BY <1>t, <1>n, <1>11 DEF Decline, TypeOK
  <2> QED
    BY <2>1, <2>2
<1>12. ASSUME NEW attr \in Attrs, DeleteAttr(attr) PROVE Inv'
  <2>1. sel \in DN
    BY <1>t DEF TypeOK
  <2>2. CASE Ask(Op("delattr", sel, attr, Root, Root))
    <3> DEFINE o == Op("delattr", sel, attr, Root, Root)
    <3>1. o \in OpType
      BY <1>c, <2>1, OpTyped DEF OpKinds, EntryWrites
    <3>2. WellFormed(o) /\ o.kind \in AsksFirst
      BY DEF Op, WellFormed, AsksFirst
    <3> HIDE DEF o
    <3> QED
      BY <1>t, <1>12, <2>2, <3>1, <3>2, AskTyped DEF DeleteAttr, Ready, o
  <2>3. CASE HasRow /\ Ask(Op("delval", sel, attr, CurrentRow.val, Root))
    <3> DEFINE o == Op("delval", sel, attr, CurrentRow.val, Root)
    <3>1. CurrentRow.val \in Value
      BY <1>t, <1>c, <2>3, PanelRows DEF Row
    <3>2. o \in OpType
      BY <1>c, <2>1, <3>1, OpTyped DEF OpKinds, EntryWrites
    <3>3. WellFormed(o) /\ o.kind \in AsksFirst
      BY DEF Op, WellFormed, AsksFirst
    <3> HIDE DEF o
    <3> QED
      BY <1>t, <1>12, <2>3, <3>2, <3>3, AskTyped DEF DeleteAttr, Ready, o
  <2> QED
    BY <1>12, <2>2, <2>3 DEF DeleteAttr
<1>13. ASSUME NEW o \in OpType, WellFormed(o), Run(o), ui' = "settle",
              UNCHANGED <<screen, asking, handoff, dir, meant, others>>
       PROVE  Inv'
  <2>1. job' \in OpType /\ writes' \in 0 .. MaxWrites /\ WellFormed(job)'
    BY <1>t, <1>13, RunTyped
  <2>2. OpsInv'
    BY <1>t, <1>13, <2>1 DEF OpsInv, WellFormed
  <2>3. TypeOK'
    BY <1>t, <1>13, <2>1 DEF TypeOK
  <2> QED
    BY <2>2, <2>3
<1>14. ASSUME NEW attr \in Attrs, NEW v \in Values, AddAttr(attr, v) PROVE Inv'
  <2> DEFINE o == Op("add", sel, attr, Root, v)
  <2>1. o \in OpType
    BY <1>t, <1>c, OpTyped DEF OpKinds, EntryWrites, TypeOK
  <2>2. WellFormed(o)
    BY DEF Op, WellFormed
  <2> HIDE DEF o
  <2> QED
    BY <1>13, <1>14, <2>1, <2>2 DEF AddAttr, Ready, o
<1>15. ASSUME NEW v \in Values, AttrDuplicateValue(v) PROVE Inv'
  <2> DEFINE o == Op("add", sel, CurrentRow.attr, Root, v)
  <2>1. CurrentRow.attr \in Attrs
    BY <1>t, <1>15, PanelRows DEF AttrDuplicateValue, Row
  <2>2. o \in OpType
    BY <1>t, <1>c, <2>1, OpTyped DEF OpKinds, EntryWrites, TypeOK
  <2>3. WellFormed(o)
    BY DEF Op, WellFormed
  <2> HIDE DEF o
  <2> QED
    BY <1>13, <1>15, <2>2, <2>3 DEF AttrDuplicateValue, Ready, o
<1>16. CASE AttrOptions
  <2> DEFINE bare == Op("options", sel, CurrentRow.attr, CurrentRow.val, Root)
  <2> DEFINE o == [bare EXCEPT !.rows = RowsWith(CurrentRow.attr)]
  <2>1. CurrentRow.attr \in Attrs /\ CurrentRow.val \in Values
    BY <1>t, <1>16, PanelRows DEF AttrOptions, Row
  <2>2. bare \in OpType /\ bare.kind = "options" /\ bare.val = CurrentRow.val
    BY <1>t, <1>c, <2>1, OpTyped DEF OpKinds, EntryWrites, TypeOK, Op
  <2>3. RowsWith(CurrentRow.attr) \in SUBSET Row
    BY <1>t, PanelRows DEF RowsWith
  <2> HIDE DEF bare
  <2>4. o \in OpType /\ WellFormed(o)
    BY <2>1, <2>2, <2>3 DEF OpType, WellFormed
  <2> HIDE DEF o
  <2> QED
    BY <1>13, <1>16, <2>4 DEF AttrOptions, Ready, o, bare
<1>17. CASE DeleteEntry
  <2> DEFINE o == Op("delete", sel, "cn", Root, Root)
  <2>1. o \in OpType
    BY <1>t, <1>c, OpTyped DEF OpKinds, TreeWrites, TypeOK
  <2>2. WellFormed(o) /\ o.kind \in AsksFirst
    BY DEF Op, WellFormed, AsksFirst
  <2> HIDE DEF o
  <2> QED
    BY <1>17, <2>1, <2>2, AskTyped DEF DeleteEntry, Ready, o
<1>18. ASSUME NEW rdn \in Names, NEW same \in BOOLEAN, MoveEntry(rdn, same) PROVE Inv'
  <2> DEFINE o == IF same THEN Op("rename", sel, "cn", sel, rdn) ELSE Op("move", sel, "cn", sel, sel)
  <2>1. o \in OpType
    BY <1>t, <1>c, OpTyped DEF OpKinds, TreeWrites, TypeOK
  <2>2. WellFormed(o) /\ o.kind \in AsksFirst
    BY DEF Op, WellFormed, AsksFirst
  <2> HIDE DEF o
  <2> QED
    BY <1>18, <2>1, <2>2, AskTyped DEF MoveEntry, Ready, o
<1>19. ASSUME NEW n \in Names, NEW rows \in {{}, RowsOf(sel)}, CreateEntry(n, rows) PROVE Inv'
  <2> DEFINE bare == Op("create", n, "cn", Root, n)
  <2> DEFINE o == [bare EXCEPT !.rows = rows]
  <2>1. bare \in OpType /\ bare.kind = "create"
    BY <1>c, OpTyped DEF OpKinds, TreeWrites, Op
  <2>2. rows \in SUBSET Row
    BY <1>t, ShownTyped DEF TypeOK
  <2> HIDE DEF bare
  <2>3. o \in OpType /\ WellFormed(o)
    BY <2>1, <2>2 DEF OpType, WellFormed
  <2> HIDE DEF o
  <2> QED
    BY <1>13, <1>19, <2>3 DEF CreateEntry, Ready, o, bare
<1> QED
  BY <1>1, <1>2, <1>3, <1>4, <1>5, <1>6, <1>7, <1>8, <1>9, <1>10, <1>11, <1>12, <1>14, <1>15,
     <1>16, <1>17, <1>18, <1>19 DEF UserStep

LEMMA InvStep == Inv /\ [Next]_vars => Inv'
<1> SUFFICES ASSUME Inv, [Next]_vars PROVE Inv'
  OBVIOUS
<1>t. TypeOK /\ OpsInv
  BY DEF Inv
<1>c. "cn" \in Attrs /\ Root \in DN /\ Root \in Value
  BY AttrsAssumption, AreValues DEF DN
<1>n. NoOp \in OpType /\ WellFormed(NoOp)
  BY NoOpTyped
<1> USE DEF Inv, screen, asking, handoff, meant
<1>1. CASE UserStep
  BY <1>1, UserStepInv
<1>2. CASE Settle
  <2>1. OpsInv'
    BY <1>t, <1>2, SameOps DEF Settle
  <2>2. panel' \in EntryType /\ row' \in Nat \ {0} /\ log' \in OpType
        /\ box' \in EntryType /\ pendingUpdate' \in BOOLEAN
    <3>1. NoEntry \in EntryType
      BY <1>c DEF NoEntry, EntryType
    <3>2. CASE pendingUpdate
      <4>1. log' = NoOp /\ box' = NoEntry /\ pendingUpdate' = FALSE
        BY <1>2, <3>2 DEF Settle
      <4>2. panel' \in EntryType /\ row' \in Nat \ {0}
        BY <1>t, <1>2, <3>2 DEF Settle, TypeOK
      <4> QED
        BY <1>n, <3>1, <4>1, <4>2
    <3>3. CASE ~pendingUpdate
      <4>1. UNCHANGED <<panel, row, log, box, pendingUpdate>>
        BY <1>2, <3>3 DEF Settle
      <4> QED
        BY <1>t, <4>1 DEF TypeOK
    <3> QED
      BY <3>2, <3>3
  <2>3. sel' \in DN /\ ui' \in {"key", "settle", "reload"}
    BY <1>t, <1>c, <1>2 DEF Settle, TypeOK, RefreshedSel
  <2>4. UNCHANGED <<focus, currentDN, edit, pendingEdit, pendingConfirm, job, dir, meant, writes,
                    others>> /\ pendingRefreshTree' = FALSE /\ pendingReloadEntry' = FALSE
    BY <1>2 DEF Settle
  <2>5. TypeOK'
    BY <1>t, <2>2, <2>3, <2>4 DEF TypeOK
  <2> QED
    BY <2>1, <2>5
<1>3. CASE Reload
  <2>1. job' \in OpType /\ job'.kind = "load"
    BY <1>t, <1>c, <1>3, OpTyped DEF Reload, LoadSelectedEntry, TypeOK, OpKinds, Op
  <2>2. OpsInv'
    BY <1>t, <1>3, <2>1 DEF Reload, LoadSelectedEntry, OpsInv, WellFormed
  <2>3. TypeOK'
    BY <1>t, <1>3, <2>1 DEF Reload, LoadSelectedEntry, TypeOK
  <2> QED
    BY <2>2, <2>3
<1>4. CASE LoadEnd
  <2>1. OpsInv'
    BY <1>t, <1>n, <1>4 DEF LoadEnd, OpsInv, WellFormed
  <2>2. job.dn \in DN
    BY <1>t DEF TypeOK, OpType
  <2>3. box' \in EntryType /\ pendingUpdate' \in BOOLEAN
    BY <1>t, <1>4, <2>2, ShownTyped DEF LoadEnd, TypeOK
  <2>4. TypeOK'
    BY <1>t, <1>n, <1>4, <2>3 DEF LoadEnd, TypeOK
  <2> QED
    BY <2>1, <2>4
<1>5. CASE OptionsDeleted
  <2>1. job' \in OpType /\ job'.kind = "optionsAdd" /\ job'.val = job.val
    BY <1>t, <1>5 DEF OptionsDeleted, TypeOK, OpType, OpKinds, EntryWrites
  <2>2. OpsInv'
    BY <1>t, <1>5, <2>1 DEF OptionsDeleted, OpsInv, WellFormed
  <2>3. dir' \in [Names -> SUBSET Row]
    BY <1>t, <1>5, ChangedTyped DEF OptionsDeleted, OpsInv, EntryWrites
  <2>4. TypeOK'
    BY <1>t, <1>5, <2>1, <2>3 DEF OptionsDeleted, TypeOK
  <2> QED
    BY <2>2, <2>4
<1>6. CASE WriteDone
  <2>1. OpsInv'
    BY <1>t, <1>n, <1>6 DEF WriteDone, OpsInv, WellFormed
  <2>2. dir' \in [Names -> SUBSET Row]
    BY <1>t, <1>6, ChangedTyped DEF WriteDone, OpsInv
  <2>3. pendingUpdate' \in BOOLEAN /\ pendingRefreshTree' \in BOOLEAN
        /\ pendingReloadEntry' \in BOOLEAN
    BY <1>t, <1>6 DEF WriteDone, TypeOK, ShowsInTree, ShowsInEntry
  <2>4. TypeOK'
    BY <1>t, <1>n, <1>6, <2>2, <2>3 DEF WriteDone, TypeOK
  <2> QED
    BY <2>1, <2>4
<1>7. CASE WriteRefused
  <2>1. OpsInv'
    BY <1>t, <1>n, <1>7 DEF WriteRefused, OpsInv, WellFormed
  <2>2. TypeOK'
    BY <1>t, <1>n, <1>7 DEF WriteRefused, TypeOK
  <2> QED
    BY <2>1, <2>2
<1>8. CASE OtherStep
  <2>1. OpsInv'
    BY <1>t, <1>8, SameOps DEF OtherStep, OtherClient
  <2>2. dir' \in [Names -> SUBSET Row] /\ others' \in 0 .. MaxOthers
    BY <1>t, <1>8, BoundsAssumption DEF OtherStep, OtherClient, TypeOK
  <2>3. TypeOK'
    BY <1>t, <1>8, <2>2 DEF OtherStep, OtherClient, TypeOK
  <2> QED
    BY <2>1, <2>3
<1>9. CASE UNCHANGED vars
  <2>1. OpsInv'
    BY <1>t, <1>9, SameOps DEF vars
  <2>2. TypeOK'
    BY <1>t, <1>9 DEF vars, TypeOK
  <2> QED
    BY <2>1, <2>2
<1> QED
  BY <1>1, <1>2, <1>3, <1>4, <1>5, <1>6, <1>7, <1>8, <1>9 DEF Next, WorkerStep

LEMMA Invariance == Spec => []Inv
<1> QED
  BY InvInit, InvStep, PTL DEF Spec

\* The types hold in every session (App, TreeWidget::selectedDN and AttrsPanel).
THEOREM TypeCorrect == Spec => []TypeOK
<1>1. Inv => TypeOK
  BY DEF Inv
<1> QED
  BY <1>1, Invariance, PTL
-----------------------------------------------------------------------------
(* What a step may never do.                                                 *)

\* An edit takes one value and no other from the directory, whatever other clients
\* have put there since the panel was filled (replaceAttributeValue); only the values of
\* an attribute of which the panel has none without a brace are sent as a whole.
THEOREM EditTakesOnlyItsValue == Spec => EditTakesOneValue
<1>1. ASSUME Inv, [Next]_vars, job.kind \in {"replace", "replaceAll", "add"}, job' = NoOp,
             NEW n \in Names
      PROVE  dir[n] \ dir'[n] \subseteq MayTake(job, n)
  <2>1. job \in OpType /\ dir \in [Names -> SUBSET Row] /\ WellFormed(job)
    BY <1>1 DEF Inv, TypeOK, OpsInv
  <2>2. job # NoOp
    BY <1>1, NoOpTyped
  <2>3. dir' = dir \/ WriteDone
    <3> USE DEF Unlocked
    <3>1. CASE UserStep
      BY <1>1, <2>2, <3>1 DEF UserStep, NoKey, Tab, Open, StartEdit, EscapeEdit, ApplyEdit,
           AnswerNo, Confirm, Decline, AttrOptions, DeleteEntry, MoveCursor, GoToDN,
           AttrDuplicateValue, CreateEntry, SelectRow, EnterEdit, DeleteAttr, AddAttr, MoveEntry,
           Ready
    <3>2. CASE Settle \/ Reload \/ LoadEnd \/ WriteRefused
      BY <3>2 DEF Settle, Reload, LoadSelectedEntry, LoadEnd, WriteRefused
    <3>3. CASE OptionsDeleted
      BY <1>1, <3>3 DEF OptionsDeleted
    <3>4. CASE OtherStep
      BY <1>1, <2>2, <3>4 DEF OtherStep, OtherClient
    <3>5. CASE UNCHANGED vars
      BY <3>5 DEF vars
    <3> QED
      BY <1>1, <3>1, <3>2, <3>3, <3>4, <3>5 DEF Next, WorkerStep
  <2>4. CASE dir' = dir
    BY <2>4
  <2>5. CASE WriteDone
    <3>1. dir' = Changed(job) /\ job.dn \in Names
      BY <2>1, <2>5 DEF WriteDone, Possible, OpType, DN
    <3>2. n # job.dn => dir'[n] = dir[n]
      BY <1>1, <2>1, <3>1 DEF Changed
    <3>3. CASE job.kind \in {"replace", "add"}
      <4>1. dir[job.dn] \ dir'[job.dn] \subseteq Rows(job.attr, {job.val})
        BY <2>1, <3>1, <3>3 DEF Changed
      <4> QED
        BY <3>2, <3>3, <4>1 DEF MayTake, SentWhole
    <3>4. CASE job.kind = "replaceAll"
      <4>1. SentWhole(job)
        BY <2>1, <3>4 DEF WellFormed
      <4>2. \A r \in dir[job.dn] \ dir'[job.dn] : r.attr = job.attr
        BY <2>1, <3>1, <3>4 DEF Changed
      <4> QED
        BY <3>2, <4>1, <4>2 DEF MayTake
    <3> QED
      BY <1>1, <3>3, <3>4
  <2> QED
    BY <2>3, <2>4, <2>5
<1>2. Inv /\ [Next]_vars
        => [job.kind \in {"replace", "replaceAll", "add"} /\ job' = NoOp
              => \A n \in Names : dir[n] \ dir'[n] \subseteq MayTake(job, n)]_vars
  BY <1>1
<1> QED
  BY <1>2, Invariance, PTL DEF Spec, EditTakesOneValue

-----------------------------------------------------------------------------
(* What the panel shows: what a step does to it, to what the worker leaves   *)
(* for it, and to the directory.                                             *)

\* The entry that is shown once the worker's result is taken.
Coming == IF box.full THEN box ELSE panel

TreeOps == {"delete", "rename", "move"}

\* A step that neither shows an entry nor changes one: it may start an operation of the
\* user's, or ask about one of those whose keys the session has.
StartsAtMost ==
    /\ UNCHANGED <<currentDN, panel, handoff, dir>>
    /\ ui' = ui \/ (ui = "key" /\ ui' = "settle")
    /\ \/ job' = job
       \/ /\ job = NoOp
          /\ \/ job'.kind \in {"replace", "replaceAll", "add", "options", "create"}
             \/ job' = pendingConfirm /\ pendingConfirm # NoOp
    /\ \/ pendingConfirm' = pendingConfirm
       \/ pendingConfirm' = NoOp
       \/ pendingConfirm'.kind \in {"delattr", "delval"}
       \/ pendingConfirm'.kind \in TreeOps /\ Keys \cap {"editRdn", "delete", "move"} # {}

LoadStarts ==
    /\ UNCHANGED <<panel, handoff, dir, pendingConfirm>>
    /\ ui = "reload" \/ (ui = "key" /\ job = NoOp)
    /\ job'.kind = "load" /\ job'.dn = currentDN'

LEMMA StartEffect ==
    ASSUME Inv, UserStep
    PROVE  StartsAtMost \/ LoadStarts \/ \E n \in Names : GoToDN(n)
<1>n. NoOp.kind = "none"
  BY NoOpTyped
<1> USE DEF Ready, Unlocked, handoff, screen, asking
<1>1. CASE NoKey \/ Tab \/ StartEdit \/ EscapeEdit \/ AnswerNo
  BY <1>1 DEF NoKey, Tab, StartEdit, EscapeEdit, AnswerNo, StartsAtMost
<1>2. CASE Open
  BY <1>2 DEF Open, LoadSelectedEntry, LoadStarts, Op
<1>3. CASE ApplyEdit
  <2>1. pendingEdit.kind = "replace" /\ pendingEdit \in OpType
    BY <1>3 DEF ApplyEdit, Inv, OpsInv, TypeOK
  <2>2. EditOp.kind \in {"replace", "replaceAll"}
    BY <2>1 DEF EditOp, OpType
  <2>3. job' = EditOp \/ job' = job
    BY <1>3 DEF ApplyEdit, Run
  <2> QED
    BY <1>3, <2>2, <2>3 DEF ApplyEdit, StartsAtMost
<1>4. CASE Confirm \/ Decline
  BY <1>4 DEF Confirm, Decline, Run, StartsAtMost
<1>5. CASE AttrOptions
  BY <1>5 DEF AttrOptions, Run, Op, StartsAtMost
<1>6. CASE DeleteEntry
  BY <1>6 DEF DeleteEntry, Ask, Op, StartsAtMost, TreeOps
<1>7. ASSUME NEW n \in DN, MoveCursor(n) PROVE StartsAtMost
  BY <1>7 DEF MoveCursor, StartsAtMost
<1>8. ASSUME NEW v \in Values, AttrDuplicateValue(v) PROVE StartsAtMost
  BY <1>8 DEF AttrDuplicateValue, Run, Op, StartsAtMost
<1>9. ASSUME NEW n \in Names, NEW rows, CreateEntry(n, rows) PROVE StartsAtMost
  BY <1>9 DEF CreateEntry, Run, Op, StartsAtMost
<1>10. ASSUME NEW i \in 1 .. Height, SelectRow(i) PROVE StartsAtMost
  BY <1>10 DEF SelectRow, StartsAtMost
<1>11. ASSUME NEW attr, NEW new \in Values, EnterEdit(attr, new) PROVE StartsAtMost
  <2>1. \/ pendingConfirm' = pendingConfirm
        \/ /\ attr \in NamingAttrs
           /\ pendingConfirm' = Op("rename", currentDN, attr, edit.orig, new)
    BY <1>11 DEF EnterEdit
  <2>2. \/ pendingConfirm' = pendingConfirm
        \/ "editRdn" \in Keys /\ pendingConfirm'.kind = "rename"
    BY <1>11, <2>1 DEF EnterEdit, Op
  <2> QED
    BY <1>11, <2>2 DEF EnterEdit, StartsAtMost, TreeOps
<1>12. ASSUME NEW attr \in Attrs, DeleteAttr(attr) PROVE StartsAtMost
  BY <1>12 DEF DeleteAttr, Ask, Op, StartsAtMost
<1>13. ASSUME NEW attr \in Attrs, NEW v \in Values, AddAttr(attr, v) PROVE StartsAtMost
  BY <1>13 DEF AddAttr, Run, Op, StartsAtMost
<1>14. ASSUME NEW rdn \in Names, NEW same \in BOOLEAN, MoveEntry(rdn, same) PROVE StartsAtMost
  <2>1. pendingConfirm'.kind \in {"rename", "move"} /\ "move" \in Keys
    BY <1>14 DEF MoveEntry, Ask, Op
  <2> QED
    BY <1>14, <2>1 DEF MoveEntry, Ask, StartsAtMost, TreeOps
<1> QED
  BY <1>1, <1>2, <1>3, <1>4, <1>5, <1>6, <1>7, <1>8, <1>9, <1>10, <1>11, <1>12, <1>13, <1>14
     DEF UserStep

LEMMA StepEffect ==
    ASSUME Inv, [Next]_vars
    PROVE  \/ StartsAtMost \/ LoadStarts \/ \E n \in Names : GoToDN(n)
           \/ Settle \/ WorkerStep \/ OtherStep
<1>1. CASE UNCHANGED vars
  BY <1>1 DEF vars, screen, handoff, asking, StartsAtMost
<1>2. CASE Reload
  BY <1>2 DEF Reload, LoadSelectedEntry, LoadStarts, Op, asking
<1> QED
  BY <1>1, <1>2, StartEffect DEF Next

-----------------------------------------------------------------------------
(* The entries of the directory.                                             *)

EntriesPresent == \A n \in Names : dir[n] # {}

\* Each entry has the value it is named by: every change the server takes keeps it.
EntriesNamed == \A n \in Names : dir[n] # {} => Rows("cn", {n}) \subseteq dir[n]

LEMMA ChangedNamed ==
    ASSUME Inv, EntriesNamed, Possible(job), job.kind \in TreeWrites \cup EntryWrites,
           dir' = Changed(job)
    PROVE  /\ EntriesNamed'
           /\ job.kind \in EntryWrites => \A n \in Names : dir[n] # {} => dir'[n] # {}
           /\ job.kind = "create" => dir[job.dn] = {} /\ \A n \in Names : dir[n] # {} => dir'[n] # {}
<1>1. job.dn \in Names /\ job \in OpType /\ dir \in [Names -> SUBSET Row] /\ WellFormed(job)
  BY DEF Inv, TypeOK, OpsInv, OpType, Possible, DN
<1>2. \A n : Rows("cn", {n}) = {[attr |-> "cn", val |-> n]}
  BY DEF Rows
<1>3. CASE job.kind = "create"
  <2>1. dir' = [dir EXCEPT ![job.dn] = job.rows \cup Rows("cn", {job.dn})] /\ dir[job.dn] = {}
    BY <1>3 DEF Possible, Changed
  <2> QED
    BY <1>1, <1>2, <1>3, <2>1 DEF EntriesNamed, EntryWrites
<1>4. CASE job.kind = "rename"
  <2>1. dir' = [dir EXCEPT ![job.dn] = {},
                           ![job.new] = (dir[job.dn] \ Rows("cn", {job.dn})) \cup Rows("cn", {job.new})]
    BY <1>4 DEF Changed
  <2>2. job.new \in Names
    BY <1>1, <1>4 DEF WellFormed
  <2> QED
    BY <1>1, <1>2, <1>4, <2>1, <2>2 DEF EntriesNamed, EntryWrites
<1>5. CASE job.kind \in {"delete", "move"}
  <2>1. dir' = [dir EXCEPT ![job.dn] = {}]
    BY <1>5 DEF Changed
  <2> QED
    BY <1>1, <1>5, <2>1 DEF EntriesNamed, EntryWrites
<1>6. ASSUME NEW s, dir' = [dir EXCEPT ![job.dn] = s], dir[job.dn] # {},
             Rows("cn", {job.dn}) \subseteq s, job.kind # "create"
      PROVE  EntriesNamed' /\ \A n \in Names : dir[n] # {} => dir'[n] # {}
  BY <1>1, <1>2, <1>6 DEF EntriesNamed
<1>7. CASE job.kind \in EntryWrites
  <2> DEFINE now == dir[job.dn]
             swapped == (now \ Rows(job.attr, {job.val})) \cup Rows(job.attr, {job.new})
             others_ == {r \in now : r.attr # job.attr}
  <2>0. job.kind # "create" /\ \A a, v : Rows(a, {v}) = {[attr |-> a, val |-> v]}
    BY <1>7 DEF EntryWrites, Rows
  <2>n. now # {} => Rows("cn", {job.dn}) \subseteq now
    BY <1>1 DEF EntriesNamed
  <2>k. now # {} /\ job.attr # "cn" => Rows("cn", {job.dn}) \subseteq others_
    <3> DEFINE c == [attr |-> "cn", val |-> job.dn]
    <3>1. c.attr = "cn" /\ Rows("cn", {job.dn}) = {c}
      BY <1>2
    <3> HIDE DEF c
    <3> QED
      BY <2>n, <3>1
  <2>1. CASE job.kind = "replace"
    <3>1. Rows(job.attr, {job.val}) \subseteq now \ Rows("cn", {job.dn})
      BY <2>1 DEF Possible
    <3>2. now # {}
      <4>1. [attr |-> job.attr, val |-> job.val] \in Rows(job.attr, {job.val})
        BY <2>0
      <4> QED
        BY <3>1, <4>1
    <3>3. dir' = [dir EXCEPT ![job.dn] = swapped]
      BY <2>1 DEF Changed
    <3>4. Rows("cn", {job.dn}) \subseteq swapped
      BY <2>n, <3>1, <3>2
    <3> QED
      BY <1>6, <2>0, <3>2, <3>3, <3>4
  <2>2. CASE job.kind = "delval"
    <3>1. Rows(job.attr, {job.val}) \subseteq now \ Rows("cn", {job.dn})
      BY <2>2 DEF Possible
    <3>2. now # {}
      <4>1. [attr |-> job.attr, val |-> job.val] \in Rows(job.attr, {job.val})
        BY <2>0
      <4> QED
        BY <3>1, <4>1
    <3>3. dir' = [dir EXCEPT ![job.dn] = now \ Rows(job.attr, {job.val})]
      BY <2>2 DEF Changed
    <3> QED
      BY <1>6, <2>0, <2>n, <3>1, <3>2, <3>3
  <2>3. CASE job.kind = "add"
    <3>1. now # {} /\ dir' = [dir EXCEPT ![job.dn] = now \cup Rows(job.attr, {job.new})]
      BY <2>3 DEF Possible, Changed
    <3> QED
      BY <1>6, <2>0, <2>n, <3>1
  <2>4. CASE job.kind = "optionsAdd"
    <3>1. now # {} /\ dir' = [dir EXCEPT ![job.dn] = now \cup Rows(NewDesc(job.attr), {job.val})]
      BY <2>4 DEF Possible, Changed
    <3> QED
      BY <1>6, <2>0, <2>n, <3>1
  <2>5. CASE job.kind = "replaceAll"
    <3>1. now # {} /\ job.attr # "cn" /\ dir' = [dir EXCEPT ![job.dn] = others_ \cup job.rows]
      BY <2>5 DEF Possible, Changed
    <3>2. Rows("cn", {job.dn}) \subseteq others_ \cup job.rows
      BY <2>k, <3>1
    <3> HIDE DEF others_
    <3> QED
      BY <1>6, <2>0, <3>1, <3>2
  <2>6. CASE job.kind \in {"delattr", "options"}
    <3>1. job.attr # "cn" /\ now # {} /\ dir' = [dir EXCEPT ![job.dn] = others_]
      BY <2>6 DEF Possible, Changed
    <3>2. Rows("cn", {job.dn}) \subseteq others_
      BY <2>k, <3>1
    <3> HIDE DEF others_
    <3> QED
      BY <1>6, <2>0, <3>1, <3>2
  <2> QED
    BY <1>7, <2>0, <2>1, <2>2, <2>3, <2>4, <2>5, <2>6 DEF EntryWrites
<1> QED
  BY <1>3, <1>4, <1>5, <1>7 DEF TreeWrites, EntryWrites

LEMMA NamedInit == Init => EntriesNamed
BY StartAssumption DEF Init, EntriesNamed

LEMMA NamedStep == Inv /\ EntriesNamed /\ [Next]_vars => EntriesNamed'
<1> SUFFICES ASSUME Inv, EntriesNamed, [Next]_vars PROVE EntriesNamed'
  OBVIOUS
<1>1. CASE dir' = dir
  BY <1>1 DEF EntriesNamed
<1>2. CASE OptionsDeleted \/ WriteDone
  BY <1>2, ChangedNamed DEF OptionsDeleted, WriteDone, EntryWrites
<1>3. CASE OtherStep
  <2>1. dir \in [Names -> SUBSET Row]
    BY DEF Inv, TypeOK
  <2>2. PICK n \in Names : \E rows : OtherClient(n, rows)
    BY <1>3 DEF OtherStep
  <2>3. PICK rows : OtherClient(n, rows)
    BY <2>2
  <2>4. (rows = {} \/ Rows("cn", {n}) \subseteq rows) /\ dir' = [dir EXCEPT ![n] = rows]
    BY <2>3 DEF OtherClient
  <2> QED
    BY <2>1, <2>4 DEF EntriesNamed
<1> QED
  BY <1>1, <1>2, <1>3, StepEffect
     DEF StartsAtMost, LoadStarts, GoToDN, Settle, WorkerStep, LoadEnd, WriteRefused

-----------------------------------------------------------------------------
(* The panel once everything has settled.                                    *)

\* The program keeps a result for the panel only while it says there is one, and a load
\* that is under way or has ended is of the entry App takes for the current one.
CurrentInv ==
    /\ box.full => pendingUpdate
    /\ IF job.kind = "load" THEN job.dn = currentDN ELSE Coming.dn = currentDN

\* A reload is under way or due, or the second half of a change of options.
ReloadDue == pendingReloadEntry \/ ui = "reload" \/ job.kind \in {"load", "optionsAdd"}

MatchInv ==
    /\ box.full => pendingUpdate
    /\ ~ReloadDue => Coming.rows = RowsOf(Coming.dn)

LEMMA PanelInit == Init => CurrentInv /\ MatchInv
<1>1. NoOp.kind = "none"
  BY NoOpTyped
<1> QED
  BY <1>1 DEF Init, CurrentInv, MatchInv, Coming, NoEntry, RowsOf

\* What a load that cannot be cancelled leaves.
LEMMA LoadShows ==
    ASSUME Inv, EntriesPresent, Reliable, LoadEnd
    PROVE  /\ box' = Shown(job.dn) /\ pendingUpdate' = TRUE /\ job' = NoOp /\ job'.kind = "none"
           /\ job.kind = "load" /\ UNCHANGED <<ui, currentDN, pendingReloadEntry, dir>>
<1>1. job.dn \in DN
  BY DEF Inv, TypeOK, OpType
<1>2. job.dn = Root \/ RowsOf(job.dn) # {}
  BY <1>1 DEF EntriesPresent, RowsOf, DN
<1> QED
  BY <1>2, NoOpTyped DEF LoadEnd, screen

LEMMA CurrentStep ==
    ASSUME Reliable, "goto" \notin Keys, Inv, EntriesPresent, CurrentInv, [Next]_vars
    PROVE  CurrentInv'
<1>n. NoOp.kind = "none" /\ job \in OpType
  BY NoOpTyped DEF Inv, TypeOK
<1>1. CASE StartsAtMost
  <2>1. job' = job \/ (job.kind # "load" /\ job'.kind # "load")
    BY <1>n, <1>1 DEF StartsAtMost, Inv, OpsInv, AsksFirst
  <2> QED
    BY <1>1, <2>1 DEF StartsAtMost, CurrentInv, Coming, handoff
<1>2. CASE LoadStarts
  BY <1>2 DEF LoadStarts, CurrentInv, handoff
<1>3. CASE \E n \in Names : GoToDN(n)
  BY <1>3 DEF GoToDN, Ready
<1>4. CASE Settle
  <2>1. UNCHANGED <<job, currentDN>>
    BY <1>4 DEF Settle
  <2>2. CASE pendingUpdate
    <3>1. panel' = Coming /\ box' = NoEntry
      BY <1>4, <2>2 DEF Settle, Coming
    <3> QED
      BY <2>1, <3>1 DEF CurrentInv, Coming, NoEntry
  <2>3. CASE ~pendingUpdate
    BY <1>4, <2>1, <2>3 DEF Settle, CurrentInv, Coming
  <2> QED
    BY <2>2, <2>3
<1>5. CASE LoadEnd
  BY <1>5, LoadShows DEF CurrentInv, Coming, Shown
<1>6. CASE OptionsDeleted
  <2>1. job'.kind = "optionsAdd" /\ job.kind = "options"
    BY <1>n, <1>6 DEF OptionsDeleted, OpType
  <2> QED
    BY <1>6, <2>1 DEF OptionsDeleted, CurrentInv, Coming, screen, handoff
<1>7. CASE WriteDone \/ WriteRefused
  <2>1. job' = NoOp /\ job.kind # "load" /\ UNCHANGED <<panel, currentDN, box>>
    BY <1>7 DEF WriteDone, WriteRefused, screen, TreeWrites, EntryWrites
  <2>2. pendingUpdate => pendingUpdate'
    BY <1>7 DEF WriteDone, WriteRefused
  <2> QED
    BY <1>n, <2>1, <2>2 DEF CurrentInv, Coming
<1>8. CASE OtherStep
  BY <1>8 DEF OtherStep, OtherClient, CurrentInv, Coming, screen, handoff
<1> QED
  BY <1>1, <1>2, <1>3, <1>4, <1>5, <1>6, <1>7, <1>8, StepEffect DEF WorkerStep

\* A change of options whose second request is refused, which reloads nothing.
OptionsLost == job.kind = "optionsAdd" /\ WriteRefused

LEMMA MatchStep ==
    ASSUME Reliable, MaxOthers = 0, Inv, EntriesNamed, EntriesPresent, EntriesPresent', MatchInv,
           [Next]_vars, ~OptionsLost
    PROVE  MatchInv'
<1>n. NoOp.kind = "none" /\ job \in OpType /\ dir \in [Names -> SUBSET Row]
  BY NoOpTyped DEF Inv, TypeOK
<1>1. CASE StartsAtMost
  <2>1. job' = job \/ (job.kind \notin {"load", "optionsAdd"} /\ job'.kind \notin {"load", "optionsAdd"})
    BY <1>n, <1>1 DEF StartsAtMost, Inv, OpsInv, AsksFirst
  <2> QED
    BY <1>1, <2>1 DEF StartsAtMost, MatchInv, ReloadDue, Coming, RowsOf, handoff
<1>2. CASE LoadStarts
  BY <1>2 DEF LoadStarts, MatchInv, ReloadDue, handoff
<1>3. ASSUME NEW n \in Names, GoToDN(n) PROVE MatchInv'
  <2>1. panel' = panel \/ panel' = Shown(n)
    BY <1>3 DEF GoToDN
  <2>2. UNCHANGED <<box, pendingUpdate, pendingReloadEntry, job, dir>> /\ ui = "key" /\ ui' = "settle"
    BY <1>3 DEF GoToDN, Ready, Unlocked, handoff
  <2> QED
    BY <2>1, <2>2 DEF MatchInv, ReloadDue, Coming, Shown, RowsOf
<1>4. CASE Settle
  <2>1. UNCHANGED <<job, dir>> /\ ui = "settle" /\ (pendingReloadEntry => ui' = "reload")
    BY <1>4 DEF Settle
  <2>2. ReloadDue => ReloadDue'
    BY <2>1 DEF ReloadDue
  <2>3. CASE pendingUpdate
    <3>1. panel' = Coming /\ box' = NoEntry
      BY <1>4, <2>3 DEF Settle, Coming
    <3> QED
      BY <2>1, <2>2, <3>1 DEF MatchInv, Coming, NoEntry, RowsOf
  <2>4. CASE ~pendingUpdate
    <3>1. UNCHANGED <<panel, box, pendingUpdate>>
      BY <1>4, <2>4 DEF Settle
    <3> QED
      BY <2>1, <2>2, <3>1 DEF MatchInv, Coming, RowsOf
  <2> QED
    BY <2>3, <2>4
<1>5. CASE LoadEnd
  BY <1>5, LoadShows DEF MatchInv, Coming, Shown, RowsOf
<1>6. CASE OptionsDeleted
  <2>1. job'.kind = "optionsAdd" /\ UNCHANGED <<box, pendingUpdate>>
    BY <1>n, <1>6 DEF OptionsDeleted, OpType, handoff
  <2> QED
    BY <2>1 DEF MatchInv, ReloadDue
<1>7. CASE WriteDone
  <2>1. UNCHANGED <<ui, panel, box>> /\ pendingUpdate' = TRUE /\ dir' = Changed(job)
        /\ pendingReloadEntry' = (pendingReloadEntry \/ ShowsInEntry(job.kind))
    BY <1>7 DEF WriteDone, screen
  <2>2. CASE job.kind \in EntryWrites
    BY <2>1, <2>2 DEF MatchInv, ReloadDue, ShowsInEntry
  <2>3. CASE job.kind \in TreeWrites
    <3>1. job.dn \in Names /\ Possible(job) /\ WellFormed(job)
      BY <1>n, <1>7 DEF WriteDone, Possible, OpType, DN, Inv, OpsInv
    <3>2. job.kind = "rename"
      <4>1. job.kind # "create"
        BY <3>1 DEF Possible, EntriesPresent
      <4>2. job.kind \notin {"delete", "move"}
        <5>1. job.kind \in {"delete", "move"} => dir' = [dir EXCEPT ![job.dn] = {}]
          BY <2>1 DEF Changed
        <5> QED
          BY <1>n, <3>1, <5>1 DEF EntriesPresent
      <4> QED
        BY <2>3, <4>1, <4>2 DEF TreeWrites
    <3>3. dir' = [dir EXCEPT ![job.dn] = {},
                    ![job.new] = (dir[job.dn] \ Rows("cn", {job.dn})) \cup Rows("cn", {job.new})]
      BY <2>1, <3>2 DEF Changed
    <3>4. job.new = job.dn
      BY <3>1, <3>2 DEF WellFormed, Possible, EntriesPresent
    <3>5. Rows("cn", {job.dn}) \subseteq dir[job.dn]
      BY <3>1 DEF EntriesNamed, EntriesPresent
    <3>6. dir' = dir
      BY <1>n, <3>1, <3>3, <3>4, <3>5
    <3>7. job.kind \notin {"load", "optionsAdd"} /\ job'.kind \notin {"load", "optionsAdd"}
      BY <1>n, <1>7, <3>2 DEF WriteDone
    <3> QED
      BY <2>1, <3>6, <3>7 DEF MatchInv, ReloadDue, Coming, RowsOf
  <2> QED
    BY <1>7, <2>2, <2>3 DEF WriteDone
<1>8. CASE WriteRefused
  <2>1. UNCHANGED <<ui, panel, box, pendingReloadEntry, dir>> /\ (pendingUpdate => pendingUpdate')
    BY <1>8 DEF WriteRefused, screen
  <2>2. job.kind \notin {"load", "optionsAdd"}
    BY <1>8 DEF OptionsLost, WriteRefused, TreeWrites, EntryWrites
  <2> QED
    BY <2>1, <2>2 DEF MatchInv, ReloadDue, Coming, RowsOf
<1>9. CASE OtherStep
  <2>1. others \in 0 .. MaxOthers /\ others < MaxOthers
    BY <1>9 DEF OtherStep, OtherClient, Inv, TypeOK
  <2> QED
    BY <2>1
<1> QED
  BY <1>1, <1>2, <1>3, <1>4, <1>5, <1>6, <1>7, <1>8, <1>9, StepEffect DEF WorkerStep

\* The entries stay in a session without the operations that take one away.
LEMMA PresentStep ==
    ASSUME MaxOthers = 0, Keys \cap {"editRdn", "delete", "move"} = {}, Inv, EntriesNamed,
           EntriesPresent, job.kind \notin TreeOps, pendingConfirm.kind \notin TreeOps, [Next]_vars
    PROVE  EntriesPresent' /\ job'.kind \notin TreeOps /\ pendingConfirm'.kind \notin TreeOps
<1>n. NoOp.kind = "none" /\ job \in OpType
  BY NoOpTyped DEF Inv, TypeOK
<1> USE <1>n DEF TreeOps, asking, handoff
<1>1. CASE StartsAtMost
  BY <1>1 DEF StartsAtMost, EntriesPresent
<1>2. CASE LoadStarts \/ Settle
  BY <1>2 DEF LoadStarts, Settle, EntriesPresent
<1>3. ASSUME NEW n \in Names, GoToDN(n)
      PROVE  EntriesPresent' /\ job'.kind \notin TreeOps /\ pendingConfirm'.kind \notin TreeOps
  BY <1>3 DEF GoToDN, EntriesPresent
<1>4. CASE LoadEnd \/ WriteRefused
  BY <1>4 DEF LoadEnd, WriteRefused, EntriesPresent
<1>5. CASE OptionsDeleted
  <2>1. EntriesPresent'
    BY <1>5, ChangedNamed DEF OptionsDeleted, EntriesPresent, EntryWrites
  <2> QED
    BY <1>5, <2>1 DEF OptionsDeleted, OpType
<1>6. CASE WriteDone
  <2>1. job.kind \in EntryWrites \cup {"create"}
    BY <1>6 DEF WriteDone, TreeWrites
  <2>2. EntriesPresent'
    BY <1>6, <2>1, ChangedNamed DEF WriteDone, EntriesPresent
  <2> QED
    BY <1>6, <2>2 DEF WriteDone
<1>7. CASE OtherStep
  BY <1>7 DEF OtherStep, OtherClient, Inv, TypeOK
<1> QED
  BY <1>1, <1>2, <1>3, <1>4, <1>5, <1>6, <1>7, StepEffect DEF WorkerStep

\* As long as no entry disappears, no load is cancelled and no link is followed, the entry
\* of the next edit is the entry shown (currentDN_ against attrs_, loadSelectedEntry).
THEOREM PanelFollowsCurrent ==
    ASSUME Reliable, "goto" \notin Keys
    PROVE  Spec /\ []EntriesPresent => []PanelIsCurrent
<1>1. Inv /\ EntriesPresent /\ CurrentInv /\ [Next]_vars => CurrentInv'
  BY CurrentStep
<1>2. CurrentInv => PanelIsCurrent
  BY NoOpTyped DEF CurrentInv, PanelIsCurrent, Idle, Coming
<1> QED
  BY <1>1, <1>2, PanelInit, Invariance, PTL DEF Spec

\* As long as no entry disappears, nothing is cancelled, the server has no other client and
\* refuses no second half of a change of options, the panel shows what the directory holds
\* once the user's own changes have settled (runWriteOp and the reload it asks for).
THEOREM PanelShowsOwnChanges ==
    ASSUME Reliable, MaxOthers = 0
    PROVE  Spec /\ []EntriesPresent /\ [][~OptionsLost]_vars => []PanelMatchesDirectory
<1>1. Inv /\ EntriesNamed /\ EntriesPresent /\ EntriesPresent' /\ MatchInv /\ [Next]_vars
        /\ [~OptionsLost]_vars => MatchInv'
  <2>1. ~OptionsLost \/ UNCHANGED vars => ~OptionsLost
    <3>1. UNCHANGED vars /\ OptionsLost => FALSE
      BY NoOpTyped DEF OptionsLost, WriteRefused, vars
    <3> QED
      BY <3>1
  <2> QED
    BY <2>1, MatchStep
<1>2. MatchInv => PanelMatchesDirectory
  BY NoOpTyped DEF MatchInv, PanelMatchesDirectory, Idle, Coming, ReloadDue
<1> QED
  BY <1>1, <1>2, PanelInit, NamedInit, NamedStep, Invariance, PTL DEF Spec

\* A session that deletes, moves and renames nothing, in a directory of its own, is one of
\* those: no entry disappears.
THEOREM EntriesStay ==
    ASSUME MaxOthers = 0, Keys \cap {"editRdn", "delete", "move"} = {},
           \A n \in Names : Start[n] # {}
    PROVE  Spec => []EntriesPresent
<1> DEFINE I == EntriesPresent /\ job.kind \notin TreeOps /\ pendingConfirm.kind \notin TreeOps
<1>1. Init => I
  BY NoOpTyped DEF Init, EntriesPresent, TreeOps
<1>2. Inv /\ EntriesNamed /\ I /\ [Next]_vars => I'
  BY PresentStep
<1>3. I => EntriesPresent
  OBVIOUS
<1> QED
  BY <1>1, <1>2, <1>3, NamedInit, NamedStep, Invariance, PTL DEF Spec

\* So in a session that only reads entries and changes attributes and values, in a directory
\* of its own, both hold of the panel.
THEOREM AttributeSession ==
    ASSUME Reliable, MaxOthers = 0, Keys \cap {"goto", "editRdn", "delete", "move"} = {},
           \A n \in Names : Start[n] # {}
    PROVE  /\ Spec => []PanelIsCurrent
           /\ Spec /\ [][~OptionsLost]_vars => []PanelMatchesDirectory
<1>1. "goto" \notin Keys /\ Keys \cap {"editRdn", "delete", "move"} = {}
  OBVIOUS
<1>2. Spec => []EntriesPresent
  BY <1>1, EntriesStay
<1>3. Spec /\ []EntriesPresent => []PanelIsCurrent
  BY <1>1, PanelFollowsCurrent
<1>4. Spec /\ []EntriesPresent /\ [][~OptionsLost]_vars => []PanelMatchesDirectory
  BY PanelShowsOwnChanges
<1> QED
  BY <1>2, <1>3, <1>4, PTL
=============================================================================
