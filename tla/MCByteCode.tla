------------------------------ MODULE MCByteCode ------------------------------
(* The code array on a small instance: a block of 4 bytes that grows once. *)
EXTENDS ByteCode
===============================================================================
