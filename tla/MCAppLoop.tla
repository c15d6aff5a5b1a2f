------------------------------ MODULE MCAppLoop ------------------------------
(***************************************************************************)
(* Sessions for model checking AppLoop: which operations the user asks for *)
(***************************************************************************)
EXTENDS AppLoop

\* Everything.
Everything == OpKinds

\* A delete, rename or move, and the expansion of a node.
DeleteAndExpand == {"delete", "expand"}
=============================================================================
