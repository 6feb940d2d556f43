---------------------------- MODULE MCNotionPage ----------------------------
(* Instances of NotionPage: a page of two blocks, read one at a time. *)
EXTENDS NotionPage

CONSTANTS x, y

Blocks == <<[by |-> x], [by |-> y]>>

Alike == Permutations(Run)

=============================================================================
