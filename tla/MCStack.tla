-------------------------------- MODULE MCStack --------------------------------
(* The operand stack on a small instance. *)
EXTENDS Stack
===============================================================================
