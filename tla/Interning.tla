------------------------------- MODULE Interning -------------------------------
(***************************************************************************)
(* What the symbol table promises to the compiler: every name has one      *)
(* symbol, the same one each time it is asked for, and no two names share  *)
(* one. There are no slots, hashes or texts.                               *)
(***************************************************************************)

CONSTANT Names

VARIABLE symbolOf   \* the symbol of every name that has been asked for

Known == DOMAIN symbolOf

Taken == {symbolOf[name] : name \in Known}

Init == Known = {}

(* A name that is new gets a symbol no other name has, whichever that is;  *)
(* asking for a known name changes nothing.                                *)
Intern(name) ==
  /\ name \notin Known
  /\ DOMAIN symbolOf' = Known \cup {name}
  /\ symbolOf'[name] \notin Taken
  /\ \A known \in Known : symbolOf'[known] = symbolOf[known]

Next == \E name \in Names : Intern(name)

Spec == Init /\ [][Next]_symbolOf

===============================================================================
