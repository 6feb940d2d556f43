--------------------------- MODULE MCNodeExecution ---------------------------
(* An instance of NodeExecution. *)
EXTENDS NodeExecution

==============================================================================
