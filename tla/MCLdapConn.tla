----------------------------- MODULE MCLdapConn -----------------------------
(* A few matching entries, with and without paging and a size limit.         *)
EXTENDS LdapConn

Pagings == {0, 1, 2}
Limits  == {0, 2}
=============================================================================
