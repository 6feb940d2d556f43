---------------------------- MODULE MCToolSends ----------------------------
(* One node with each of the sending tools in turn. *)
EXTENDS ToolSends

=============================================================================
