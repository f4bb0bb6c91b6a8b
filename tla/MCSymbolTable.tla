---------------------------- MODULE MCSymbolTable -----------------------------
(***************************************************************************)
(* Seven names over an array that starts with 4 slots and grows at the     *)
(* fourth and the seventh. b and d have the same hash, a, b and d start    *)
(* in the last slot of the first array and wrap around, and growing parts  *)
(* some names that met and brings others together.                         *)
(***************************************************************************)
EXTENDS SymbolTable

MCNames == {"a", "b", "c", "d", "e", "f", "g"}

MCHash ==
  [name \in MCNames |->
     CASE name = "a" -> 3 [] name = "b" -> 8 [] name = "c" -> 5 [] name = "d" -> 8
       [] name = "e" -> 16 [] name = "f" -> 11 [] name = "g" -> 29]

MCLines ==
  { <<>>,
    << "a", "b" >>, << "d", "b", "d" >>, << "c", "a", "c", "b" >>,
    << "f", "e", "d" >>, << "g", "g", "a" >>, << "e", "g", "c", "f" >> }
===============================================================================
