----------------------------- MODULE AppEditing -----------------------------
(***************************************************************************)
(* Which entry, which attribute and which value a write of the text        *)
(* interface goes to: the editing operations of App (src/tui/app.cpp) and  *)
(* the state they read, spread over the tree (selectedDN), the attribute   *)
(* panel (rows_, selected_, the edit mode) and App itself (currentDN_,     *)
(* pendingEdit*_, pendingConfirm_), next to the directory on the server,   *)
(* which other clients change too.                                         *)
(*                                                                         *)
(* A key is handled in one step (ui = "key"), then the rest of the         *)
(* iteration of App::run takes what the worker left (ui = "settle").  One  *)
(* operation at a time runs on the worker, under loading_: the overlaps    *)
(* of two of them are the subject of AppLoop.                              *)
(*                                                                         *)
(* An entry is known by the value of its RDN, so DNs are numbers and       *)
(* entry n has the row cn = n; an absent entry has no rows.  An operator   *)
(* XxxFault is Xxx with a plausible mistake in it.                         *)
(***************************************************************************)
EXTENDS Naturals, FiniteSets

CONSTANTS Attrs,      \* the attributes: two descriptions of one type are two of them
          Values,     \* the values of attributes
          Names,      \* those of them that name an entry: the DNs
          Braced,     \* the rows whose value begins with a brace: {0}to * by ..., {SSHA}...
          Start,      \* the directory at the start
          Keys,       \* the operations the user asks for in this session
          Reliable,   \* the server refuses nothing it could do, nothing is cancelled
          MaxWrites,  \* bound: writes the user starts
          MaxOthers   \* bound: changes made by other clients

Row == [attr : Attrs, val : Values]
Rows(attr, vals) == {[attr |-> attr, val |-> v] : v \in vals}

\* attrName == "cn" || "ou" || "uid" || "dc": taken for the attribute of the RDN.
NamingAttrs == {"cn"}
\* Attributes with an option (mail;x), and the description the options form makes of them.
WithOptions == {"mail_x"}
NewDesc(attr) == "mail"

Root == 0   \* the DN of the RootDSE, the empty string
DN == Names \cup {Root}
Value == Values \cup {Root}   \* a value, or none

AllKeys == {"open", "goto", "row", "edit", "editRdn", "delattr", "add", "duplicateValue",
            "options", "delete", "move", "create"}

ASSUME AttrsAssumption == /\ {"cn", "mail"} \subseteq Attrs
                          /\ Attrs \subseteq {"cn", "mail", "mail_x", "olcAccess"}
ASSUME ValuesAssumption == Values \subseteq Nat \ {0} /\ IsFiniteSet(Values)
ASSUME NamesAssumption == Names \subseteq Values
ASSUME BracedAssumption == Braced \subseteq Row
ASSUME StartAssumption == /\ Start \in [Names -> SUBSET Row]
                          /\ \A n \in Names : Start[n] # {} => Rows("cn", {n}) \subseteq Start[n]
ASSUME KeysAssumption == Keys \subseteq AllKeys
ASSUME ReliableAssumption == Reliable \in BOOLEAN
ASSUME BoundsAssumption == MaxWrites \in Nat /\ MaxOthers \in Nat

VARIABLES
    ui,                 \* "key": handleKey; "settle": the rest of the iteration;
                        \* "reload": in loadSelectedEntry, called by that rest
    focus,              \* focus_: the tree or the attribute panel
    sel,                \* tree_->selectedDN()
    currentDN,          \* currentDN_
    panel,              \* the entry attrs_ shows: its DN and rows
    row,                \* attrs_->selected_, from 1
    edit,               \* editMode_, and in edit mode editRow_, editOrig_
    pendingEdit,        \* pendingEditAttr_, pendingEditOld_, pendingEditNew_
    pendingConfirm,     \* pendingConfirm_
    log,                \* the question log_ asks, if it asks one
    job,                \* the operation on the worker
    box,                \* pendingEntry_
    pendingUpdate,      \* pendingUpdate_
    pendingRefreshTree, \* pendingRefreshTree_
    pendingReloadEntry, \* pendingReloadEntry_
    dir,                \* the directory
    \* What the user did, which the program does not keep:
    withdrawn,          \* N was the answer to the pending edit
    edited,             \* the entry shown when the pending edit was entered
    writes, others      \* counters of the bounds

screen  == <<focus, sel, currentDN, panel, row>>
asking  == <<edit, pendingEdit, pendingConfirm, log>>
handoff == <<box, pendingUpdate, pendingRefreshTree, pendingReloadEntry>>
meant   == <<withdrawn, edited>>
vars == <<ui, screen, asking, job, handoff, dir, meant, writes, others>>

\* An operation: the entry, the attribute and value it is about, the new value,
\* and the rows that are sent with it.
Op(kind, dn, attr, val, new) ==
    [kind |-> kind, dn |-> dn, attr |-> attr, val |-> val, new |-> new, rows |-> {}]
NoOp == Op("none", Root, "cn", Root, Root)

\* The operations that ask first; a change of options deletes too, and does not ask.
AsksFirst   == {"delete", "delattr", "delval", "rename", "move"}
TreeWrites  == {"delete", "rename", "move", "create"}
EntryWrites == {"delattr", "delval", "replace", "replaceAll", "add", "options", "optionsAdd"}
OpKinds     == TreeWrites \cup EntryWrites \cup {"none", "load"}

NoEdit  == [on |-> FALSE, row |-> 1, orig |-> Root]
NoEntry == [dn |-> Root, rows |-> {}, full |-> FALSE]
RowsOf(dn) == IF dn = Root THEN {} ELSE dir[dn]
Shown(dn) == [dn |-> dn, rows |-> RowsOf(dn), full |-> TRUE]

OpType == [kind : OpKinds, dn : DN, attr : Attrs, val : Value, new : Value, rows : SUBSET Row]
EntryType == [dn : DN, rows : SUBSET Row, full : BOOLEAN]

\* The types of the variables.
TypeOK ==
    /\ ui \in {"key", "settle", "reload"}
    /\ focus \in {"tree", "attrs"}
    /\ sel \in DN /\ currentDN \in DN
    /\ panel \in EntryType /\ box \in EntryType
    /\ row \in Nat \ {0}
    /\ edit \in [on : BOOLEAN, row : Nat \ {0}, orig : Value]
    /\ pendingEdit \in OpType /\ pendingConfirm \in OpType /\ log \in OpType /\ job \in OpType
    /\ pendingUpdate \in BOOLEAN /\ pendingRefreshTree \in BOOLEAN
    /\ pendingReloadEntry \in BOOLEAN
    /\ dir \in [Names -> SUBSET Row]
    /\ withdrawn \in BOOLEAN /\ edited \in DN
    /\ writes \in 0 .. MaxWrites /\ others \in 0 .. MaxOthers

\* App::init: the tree is at the RootDSE, which is shown.
Init ==
    /\ ui = "key" /\ focus = "tree"
    /\ sel = Root /\ currentDN = Root /\ panel = [NoEntry EXCEPT !.full = TRUE] /\ row = 1
    /\ edit = NoEdit /\ pendingEdit = NoOp /\ pendingConfirm = NoOp /\ log = NoOp
    /\ job = NoOp /\ box = NoEntry
    /\ pendingUpdate = FALSE /\ pendingRefreshTree = FALSE /\ pendingReloadEntry = FALSE
    /\ dir = Start /\ withdrawn = FALSE /\ edited = Root
    /\ writes = 0 /\ others = 0

-----------------------------------------------------------------------------
(* The rows of the panel, in the order attrs_->show gives them.              *)

AttrOrder(a) == CASE a = "cn" -> 1 [] a = "mail" -> 2 [] a = "mail_x" -> 3 [] OTHER -> 4
Before(q, r) == \/ AttrOrder(q.attr) < AttrOrder(r.attr)
                \/ q.attr = r.attr /\ q.val < r.val
RowAt(rows, i) == CHOOSE r \in rows : Cardinality({q \in rows : Before(q, r)}) = i - 1

Height == Cardinality(panel.rows)
HasRow == row <= Height
CurrentRow == RowAt(panel.rows, row)
RowsWith(attr) == {r \in panel.rows : r.attr = attr}

-----------------------------------------------------------------------------
(* Keys.  All but Escape and the timeout are ignored while loading_ is set,  *)
(* and while a question of pendingConfirm_ is open only its answer counts.   *)

Unlocked == ui = "key" /\ job = NoOp
Ready(key) == /\ Unlocked /\ pendingConfirm = NoOp
              /\ key \in Keys
              /\ ui' = "settle"

\* readKey times out, or the key does nothing.
NoKey ==
    /\ ui = "key"
    /\ ui' = "settle"
    /\ UNCHANGED <<screen, asking, job, handoff, dir, meant, writes, others>>

Tab ==
    /\ Unlocked /\ pendingConfirm = NoOp
    /\ focus' = IF focus = "tree" THEN "attrs" ELSE "tree"
    /\ ui' = "settle"
    /\ UNCHANGED <<sel, currentDN, panel, row, asking, job, handoff, dir, meant, writes, others>>

\* The cursor keys of the tree, which may still show entries that are gone.
MoveCursor(n) ==
    /\ Ready("open") /\ focus = "tree"
    /\ sel' = n
    /\ UNCHANGED <<focus, currentDN, panel, row, asking, job, handoff, dir, meant, writes, others>>

LoadSelectedEntryFault ==
    /\ job' = Op("load", sel, "cn", Root, Root)
    /\ UNCHANGED <<focus, sel, currentDN, panel, row, asking, handoff, dir, meant, writes, others>>

\* loadSelectedEntry: Enter on the tree, or F5.
LoadSelectedEntry ==
    /\ currentDN' = sel
    /\ job' = Op("load", sel, "cn", Root, Root)
    /\ UNCHANGED <<focus, sel, panel, row, asking, handoff, dir, meant, writes, others>>

Open == Ready("open") /\ LoadSelectedEntry

\* Enter on a value that is a DN: the entry is read and shown at once; the tree
\* stays where it is.
GoToDN(n) ==
    /\ Ready("goto") /\ focus = "attrs" /\ ~edit.on /\ HasRow
    /\ \/ /\ dir[n] # {}
          /\ panel' = Shown(n) /\ currentDN' = n /\ row' = 1
       \/ /\ ~Reliable \/ dir[n] = {}
          /\ UNCHANGED <<panel, currentDN, row>>
    /\ log' = NoOp
    /\ UNCHANGED <<focus, sel, edit, pendingEdit, pendingConfirm, job, handoff, dir, meant,
                   writes, others>>

SelectRow(i) ==
    /\ Ready("row") /\ focus = "attrs" /\ ~edit.on
    /\ i <= Height
    /\ row' = i
    /\ UNCHANGED <<focus, sel, currentDN, panel, asking, job, handoff, dir, meant, writes, others>>

\* F2 and "Edit value", or 'p': edit mode on the row under the cursor.
StartEdit ==
    /\ Ready("edit") /\ focus = "attrs" /\ HasRow
    /\ edit' = [on |-> TRUE, row |-> row, orig |-> CurrentRow.val]
    /\ log' = NoOp
    /\ UNCHANGED <<screen, pendingEdit, pendingConfirm, job, handoff, dir, meant, writes, others>>

\* Enter ends edit mode: App asks the question, of a rename for the attributes it
\* takes for the RDN's.  The attribute is that of the rows shown now, at the index
\* of the row edited: past their end rows_[editRow_] may be anything.
EditedAttrFault == {IF edit.row <= Height THEN RowAt(panel.rows, edit.row).attr ELSE ""}
EditedAttr == IF edit.row <= Height THEN {RowAt(panel.rows, edit.row).attr} ELSE Attrs

EnterEdit(attr, new) ==
    /\ Ready("edit") /\ focus = "attrs" /\ edit.on
    /\ attr \in NamingAttrs => "editRdn" \in Keys /\ new \in Names
    /\ edit' = NoEdit
    /\ IF new = edit.orig \/ currentDN = Root
         THEN log' = NoOp /\ UNCHANGED <<pendingEdit, pendingConfirm, withdrawn, edited>>
         ELSE IF attr \in NamingAttrs
           THEN /\ pendingConfirm' = Op("rename", currentDN, attr, edit.orig, new)
                /\ log' = pendingConfirm'
                /\ UNCHANGED <<pendingEdit, withdrawn, edited>>
           ELSE /\ pendingEdit' = Op("replace", Root, attr, edit.orig, new)
                /\ log' = pendingEdit' /\ withdrawn' = FALSE /\ edited' = panel.dn
                /\ UNCHANGED pendingConfirm
    /\ UNCHANGED <<screen, job, handoff, dir, writes, others>>

\* Escape leaves edit mode and skips the rest of the iteration.
EscapeEdit ==
    /\ Unlocked /\ edit.on
    /\ edit' = NoEdit
    /\ UNCHANGED <<ui, screen, pendingEdit, pendingConfirm, log, job, handoff, dir, meant,
                   writes, others>>

\* runWriteOp.
Run(o) == /\ writes < MaxWrites
          /\ writes' = writes + 1
          /\ job' = o

\* The values of any attribute are all sent again.
EditOpFault ==
    LET e == pendingEdit
        old == [attr |-> e.attr, val |-> e.val]
        all == RowsWith(e.attr)
    IN  IF all # {}
          THEN [e EXCEPT !.kind = "replaceAll", !.dn = currentDN,
                         !.rows = IF old \in all THEN (all \ {old}) \cup Rows(e.attr, {e.new})
                                                 ELSE all]
          ELSE [e EXCEPT !.dn = currentDN]

\* When all the values the panel shows of the attribute begin with a brace, whether it
\* numbers them or not, they are all sent again with the edit; otherwise the one value
\* is swapped.
EditOp ==
    LET e == pendingEdit
        old == [attr |-> e.attr, val |-> e.val]
        all == RowsWith(e.attr)
    IN  IF all # {} /\ all \subseteq Braced
          THEN [e EXCEPT !.kind = "replaceAll", !.dn = currentDN,
                         !.rows = IF old \in all THEN (all \ {old}) \cup Rows(e.attr, {e.new})
                                                 ELSE all]
          ELSE [e EXCEPT !.dn = currentDN]

\* 'y' applies the pending edit to currentDN_, unless the schema refuses the value.
ApplyEdit ==
    /\ Ready("edit") /\ focus = "attrs" /\ pendingEdit # NoOp
    /\ pendingEdit' = NoOp
    /\ \/ currentDN # Root /\ Run(EditOp) /\ UNCHANGED log
       \/ currentDN # Root /\ ~Reliable /\ log' = NoOp /\ UNCHANGED <<job, writes>>
       \/ currentDN = Root /\ UNCHANGED <<log, job, writes>>
    /\ edited' = Root /\ withdrawn' = FALSE
    /\ UNCHANGED <<screen, edit, pendingConfirm, handoff, dir, others>>

\* 'n' is no answer to the question of an edit: nothing happens.
AnswerNo ==
    /\ Ready("edit") /\ focus = "attrs" /\ ~edit.on
    /\ pendingEdit # NoOp /\ log = pendingEdit
    /\ withdrawn' = TRUE
    /\ UNCHANGED <<screen, asking, job, handoff, dir, edited, writes, others>>

\* applyPendingConfirm with y.
Confirm ==
    /\ Unlocked /\ pendingConfirm # NoOp
    /\ ui' = "settle"
    /\ pendingConfirm' = NoOp
    /\ Run(pendingConfirm)
    /\ UNCHANGED <<screen, edit, pendingEdit, log, handoff, dir, meant, others>>

\* applyPendingConfirm with n or Escape.
Decline ==
    /\ Unlocked /\ pendingConfirm # NoOp
    /\ ui' = "settle"
    /\ pendingConfirm' = NoOp /\ log' = NoOp
    /\ UNCHANGED <<screen, edit, pendingEdit, job, handoff, dir, meant, writes, others>>

Ask(o) == /\ pendingConfirm' = o /\ log' = o
          /\ UNCHANGED <<edit, pendingEdit, job, handoff, dir, writes, others>>

\* appDeleteAttr ("Delete attribute" and "Delete value" are one): the attribute
\* and value of the panel, the entry of the tree.
DeleteAttr(attr) ==
    /\ Ready("delattr") /\ sel # Root
    /\ HasRow => attr = CurrentRow.attr
    /\ Ask(IF HasRow /\ Cardinality(RowsWith(attr)) > 1
             THEN Op("delval", sel, attr, CurrentRow.val, Root)
             ELSE Op("delattr", sel, attr, Root, Root))
    /\ UNCHANGED <<screen, meant>>

\* appAddAttr, with the name and value of its form; the entry is read first.
AddAttr(attr, v) ==
    /\ Ready("add") /\ sel # Root
    /\ dir[sel] # {}
    /\ Run(Op("add", sel, attr, Root, v))
    /\ UNCHANGED <<screen, asking, handoff, dir, meant, others>>

\* appAttrDuplicateValue: a new value of the attribute under the cursor.
AttrDuplicateValue(v) ==
    /\ Ready("duplicateValue") /\ focus = "attrs" /\ sel # Root /\ HasRow
    /\ Rows(CurrentRow.attr, {v}) \cap panel.rows = {}
    /\ Run(Op("add", sel, CurrentRow.attr, Root, v))
    /\ UNCHANGED <<screen, asking, handoff, dir, meant, others>>

\* appAttrOptions: the attribute is deleted under its old description, then the
\* value under the cursor is added under the new one.  No question is asked.
AttrOptions ==
    /\ Ready("options") /\ focus = "attrs" /\ HasRow
    /\ CurrentRow.attr \in WithOptions
    /\ Run([Op("options", sel, CurrentRow.attr, CurrentRow.val, Root)
              EXCEPT !.rows = RowsWith(CurrentRow.attr)])
    /\ UNCHANGED <<screen, asking, handoff, dir, meant, others>>

DeleteEntry ==
    /\ Ready("delete") /\ sel # Root
    /\ Ask(Op("delete", sel, "cn", Root, Root))
    /\ UNCHANGED <<screen, meant>>

\* appMoveEntry: a form with the RDN and the parent; a changed parent moves the
\* entry and keeps its RDN, whatever the form says.
MoveEntry(rdn, sameParent) ==
    /\ Ready("move") /\ sel # Root
    /\ Ask(IF sameParent THEN Op("rename", sel, "cn", sel, rdn)
                         ELSE Op("move", sel, "cn", sel, sel))
    /\ UNCHANGED <<screen, meant>>

\* appAddEntry makes an entry with the value of its RDN, appDuplicateEntry one
\* with all the rows of the entry under the tree's cursor, which is read first.
CreateEntry(n, rows) ==
    /\ Ready("create") /\ sel # Root /\ n # sel
    /\ Run([Op("create", n, "cn", Root, n) EXCEPT !.rows = rows])
    /\ UNCHANGED <<screen, asking, handoff, dir, meant, others>>

UserStep ==
    \/ NoKey \/ Tab \/ Open \/ StartEdit \/ EscapeEdit \/ ApplyEdit \/ AnswerNo
    \/ Confirm \/ Decline \/ AttrOptions \/ DeleteEntry
    \/ \E n \in DN : MoveCursor(n)
    \/ \E n \in Names : GoToDN(n)
    \/ \E v \in Values : AttrDuplicateValue(v)
    \/ \E n \in Names, rows \in {{}, RowsOf(sel)} : CreateEntry(n, rows)
    \/ \E i \in 1 .. Height : SelectRow(i)
    \/ \E attr \in EditedAttr, v \in Values : EnterEdit(attr, v)
    \/ \E attr \in Attrs : DeleteAttr(attr) \/ \E v \in Values : AddAttr(attr, v)
    \/ \E rdn \in Names, same \in BOOLEAN : MoveEntry(rdn, same)

-----------------------------------------------------------------------------
(* The worker and the server.                                                *)

\* What the server requires of a change, and what the change leaves of the entries.
Possible(o) ==
    /\ o.dn # Root
    /\ LET old == Rows(o.attr, {o.val})
           new == Rows(o.attr, {o.new})
           now == dir[o.dn]
           named == Rows("cn", {o.dn})
       IN  CASE o.kind = "create"     -> now = {}
             [] o.kind = "rename"     -> now # {} /\ (dir[o.new] = {} \/ o.new = o.dn)
             [] o.kind \in {"delete", "move"} -> now # {}
             [] o.kind = "replace"    -> old \subseteq now \ named /\ new \cap now = {}
             [] o.kind = "replaceAll" -> now # {} /\ o.attr # "cn"
             [] o.kind = "add"        -> now # {} /\ new \cap now = {}
             [] o.kind = "optionsAdd" -> now # {} /\ Rows(NewDesc(o.attr), {o.val}) \cap now = {}
             [] o.kind = "delval"     -> old \subseteq now \ named
             [] OTHER                 -> o.attr # "cn" /\ \E r \in now : r.attr = o.attr

Changed(o) ==
    LET now == dir[o.dn]
        others_ == {r \in now : r.attr # o.attr}
        swapped == (now \ Rows(o.attr, {o.val})) \cup Rows(o.attr, {o.new})
    IN  CASE o.kind = "create"     -> [dir EXCEPT ![o.dn] = o.rows \cup Rows("cn", {o.dn})]
          [] o.kind = "rename"     ->
               LET kept == now \ Rows("cn", {o.dn})   \* deleteOldRdn
               IN  [dir EXCEPT ![o.dn] = {}, ![o.new] = kept \cup Rows("cn", {o.new})]
          [] o.kind \in {"delete", "move"} -> [dir EXCEPT ![o.dn] = {}]
          [] o.kind = "replace"    -> [dir EXCEPT ![o.dn] = swapped]
          [] o.kind = "replaceAll" -> [dir EXCEPT ![o.dn] = others_ \cup o.rows]
          [] o.kind = "add"        -> [dir EXCEPT ![o.dn] = now \cup Rows(o.attr, {o.new})]
          [] o.kind = "optionsAdd" -> [dir EXCEPT ![o.dn] = now \cup Rows(NewDesc(o.attr), {o.val})]
          [] o.kind = "delval"     -> [dir EXCEPT ![o.dn] = now \ Rows(o.attr, {o.val})]
          [] OTHER                 -> [dir EXCEPT ![o.dn] = others_]

\* The worker of loadSelectedEntry: nothing is left of a cancelled load, a log line
\* of one that finds no entry.
LoadEnd ==
    /\ job.kind = "load"
    /\ job' = NoOp
    /\ \/ /\ job.dn = Root \/ RowsOf(job.dn) # {}
          /\ box' = Shown(job.dn) /\ pendingUpdate' = TRUE
       \/ /\ ~Reliable \/ (job.dn # Root /\ RowsOf(job.dn) = {})
          /\ pendingUpdate' = TRUE /\ UNCHANGED box
       \/ /\ ~Reliable
          /\ UNCHANGED <<box, pendingUpdate>>
    /\ UNCHANGED <<ui, screen, asking, pendingRefreshTree, pendingReloadEntry, dir, meant,
                   writes, others>>

\* The first of the two requests of appAttrOptions is done.
OptionsDeleted ==
    /\ job.kind = "options" /\ Possible(job)
    /\ dir' = Changed(job)
    /\ job' = [job EXCEPT !.kind = "optionsAdd"]
    /\ UNCHANGED <<ui, screen, asking, handoff, meant, writes, others>>

\* Who is asked to show a successful write: the tree or the entry.
ShowsInTree(kind)  == kind \in TreeWrites
ShowsInEntryFault(kind) == kind \in EntryWrites \ {"add"}
ShowsInEntry(kind) == kind \in EntryWrites

\* The worker of runWriteOp: the server does the write, ...
WriteDone ==
    /\ job.kind \in (TreeWrites \cup EntryWrites) \ {"options"} /\ Possible(job)
    /\ dir' = Changed(job)
    /\ job' = NoOp
    /\ \/ /\ pendingRefreshTree' = (pendingRefreshTree \/ ShowsInTree(job.kind))
          /\ pendingReloadEntry' = (pendingReloadEntry \/ ShowsInEntry(job.kind))
          /\ pendingUpdate' = TRUE
       \/ /\ ~Reliable   \* cancelled
          /\ UNCHANGED <<pendingRefreshTree, pendingReloadEntry, pendingUpdate>>
    /\ UNCHANGED <<ui, screen, asking, box, meant, writes, others>>

\* ... or refuses it.
WriteRefused ==
    /\ job.kind \in TreeWrites \cup EntryWrites
    /\ ~Reliable \/ ~Possible(job)
    /\ job' = NoOp
    /\ pendingUpdate' \in IF Reliable THEN {TRUE} ELSE {TRUE, pendingUpdate}
    /\ UNCHANGED <<ui, screen, asking, box, pendingRefreshTree, pendingReloadEntry, dir, meant,
                   writes, others>>

\* The tree after TreeWidget::refresh: on its root.
RefreshedSel == Root

\* The rest of the iteration: the result of the worker is shown, the tree is read
\* again, the entry reloaded.
Settle ==
    /\ ui = "settle"
    /\ IF pendingUpdate
         THEN /\ IF box.full THEN panel' = box /\ row' = 1 ELSE UNCHANGED <<panel, row>>
              /\ log' = NoOp /\ box' = NoEntry /\ pendingUpdate' = FALSE
         ELSE UNCHANGED <<panel, row, log, box, pendingUpdate>>
    /\ sel' = IF pendingRefreshTree THEN RefreshedSel ELSE sel
    /\ pendingRefreshTree' = FALSE
    /\ ui' = IF pendingReloadEntry THEN "reload" ELSE "key"
    /\ pendingReloadEntry' = FALSE
    /\ UNCHANGED <<focus, currentDN, edit, pendingEdit, pendingConfirm, job, dir, meant,
                   writes, others>>

\* loadSelectedEntry after a write; it joins the worker first.
Reload ==
    /\ ui = "reload" /\ job = NoOp
    /\ ui' = "key"
    /\ LoadSelectedEntry

\* Another client removes an entry, or adds or removes a value of it that does not name
\* entries.
OtherClient(n, rows) ==
    /\ others < MaxOthers /\ dir[n] # {}
    /\ others' = others + 1
    /\ rows = {} \/ Rows("cn", {n}) \subseteq rows
    /\ rows # dir[n]
    /\ dir' = [dir EXCEPT ![n] = rows]
    /\ UNCHANGED <<ui, screen, asking, job, handoff, meant, writes>>

WorkerStep == LoadEnd \/ OptionsDeleted \/ WriteDone \/ WriteRefused
OtherStep == \E n \in Names :
                \/ OtherClient(n, {})
                \/ \E r \in {q \in Row : q.attr \notin NamingAttrs} :
                      OtherClient(n, dir[n] \cup {r}) \/ OtherClient(n, dir[n] \ {r})

Next == UserStep \/ Settle \/ Reload \/ WorkerStep \/ OtherStep
Spec == Init /\ [][Next]_vars

-----------------------------------------------------------------------------
(* Properties.                                                               *)

\* Nothing is under way: no worker, nothing it left, no reload to come.
Idle == ui = "key" /\ job = NoOp
        /\ ~pendingUpdate /\ ~pendingRefreshTree /\ ~pendingReloadEntry

\* After the user's own changes, once what they set off has settled, the panel
\* shows what the server holds (App::runWriteOp and the reload it asks for).
PanelMatchesDirectory == Idle => panel.rows = RowsOf(panel.dn)

\* Once everything has settled, the entry the next edit goes to is the entry the
\* panel shows (currentDN_ against the entry of attrs_, App::loadSelectedEntry).
PanelIsCurrent == Idle => panel.dn = currentDN

\* An edit takes no value from the directory but the one that was edited, so it never
\* undoes what another client added (replaceAttributeValue).  The exception is the one of
\* App::handleKey: values that all begin with a brace are sent as a whole, and whatever
\* else the attribute has got meanwhile is lost.
SentWhole(o) ==
    /\ o.kind = "replaceAll"
    /\ \/ o.rows \subseteq Braced
       \/ Rows(o.attr, {o.val}) \cup (o.rows \ Rows(o.attr, {o.new})) \subseteq Braced
MayTake(o, n) == IF SentWhole(o) THEN {r \in dir[n] : n = o.dn /\ r.attr = o.attr}
                                 ELSE Rows(o.attr, {o.val})
EditTakesOneValue ==
    [][job.kind \in {"replace", "replaceAll", "add"} /\ job' = NoOp
         => \A n \in Names : dir[n] \ dir'[n] \subseteq MayTake(job, n)]_vars

\* "Y to confirm, N to cancel": an edit is written only if it was not answered with N,
\* and to the entry whose value was edited (App::handleKey, pendingEdit*, currentDN_).
EditAsAsked ==
    [][job' # job /\ job'.kind \in {"replace", "replaceAll"}
         => ~withdrawn /\ job'.dn = edited]_vars

\* The menu of the panel works on the attribute under its cursor: a value deleted
\* or duplicated there belongs to the entry shown (appDeleteAttr,
\* appAttrDuplicateValue, appAttrOptions).
PanelWriteGoesToShownEntry ==
    [][job' # job /\ job'.kind \in {"delval", "options", "add"} => job'.dn = panel.dn]_vars
=============================================================================
