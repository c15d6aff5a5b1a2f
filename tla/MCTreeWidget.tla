---------------------------- MODULE MCTreeWidget ----------------------------
(* Small directories for TLC: contexts, the first with an entry below it.    *)
EXTENDS TreeWidget

Two   == <<0, 1>>
Three == <<0, 1, 0>>
Windows == {1, 3}
=============================================================================
