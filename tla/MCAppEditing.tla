---------------------------- MODULE MCAppEditing ----------------------------
(* Small directories and sessions for TLC. *)
EXTENDS AppEditing, TLC

Two   == {1, 2}
Three == 1 .. 3
Entry(n, mails, tagged, acl) ==
    Rows("cn", {n}) \cup Rows("mail", mails) \cup Rows("mail_x", tagged) \cup Rows("olcAccess", acl)

Basic    == {"cn", "mail"}
Brackets == Basic \cup {"olcAccess"}
All      == Brackets \cup {"mail_x"}

\* Values that begin with a brace: all those of olcAccess; one of mail, as a text may.
Numbered  == Rows("olcAccess", Two)
SomeMail  == Rows("mail", {3})

Plain  == 1 :> Entry(1, {1}, {}, {1}) @@ 2 :> Entry(2, {1, 2}, {}, {})
Single == [n \in Two |-> IF n = 1 THEN Entry(1, {1, 2}, {}, {}) ELSE {}]
Mixed  == 1 :> Entry(1, {1}, {}, {1}) @@ 2 :> Entry(2, {}, {1}, {})

AttributeKeys == {"open", "row", "edit", "delattr", "add", "duplicateValue", "options", "create"}
\* Operations on entries, of which the destructive ones ask first.
SessionKeys   == {"open", "goto", "row", "edit", "editRdn", "delete", "move"}
EditKeys      == {"open", "row", "edit"}
GotoKeys      == {"open", "row", "goto", "duplicateValue"}
=============================================================================
