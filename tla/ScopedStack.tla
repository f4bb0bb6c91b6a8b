------------------------------ MODULE ScopedStack ------------------------------
(***************************************************************************)
(* What the operand stack promises to compiled code, without addresses,    *)
(* capacities or reallocation: a sequence of values, and for every open    *)
(* scope the number of values that lay below it when it was opened.        *)
(* Closing a scope throws its values away and returns its last one to the  *)
(* scope around it.                                                        *)
(***************************************************************************)
EXTENDS Naturals, Sequences

CONSTANT Values

VARIABLES
  vals,   \* the values on the stack, the newest last
  marks   \* for each scope, outermost first, how many values lie below it

vars == <<vals, marks>>

Init == vals = <<>> /\ marks = <<0>>

InScope == Len(vals) > marks[Len(marks)]

Push(v) ==
  /\ vals' = Append(vals, v)
  /\ UNCHANGED marks

Pop ==
  /\ InScope
  /\ vals' = SubSeq(vals, 1, Len(vals) - 1)
  /\ UNCHANGED marks

(* Read a variable, of this scope or of one around it. *)
PushIndex(i) ==
  /\ vals' = Append(vals, vals[i])
  /\ UNCHANGED marks

(* Assign to a variable. *)
PopToIndex(i) ==
  /\ InScope
  /\ vals' = SubSeq([vals EXCEPT ![i] = vals[Len(vals)]], 1, Len(vals) - 1)
  /\ UNCHANGED marks

OpenScope ==
  /\ marks' = Append(marks, Len(vals))
  /\ UNCHANGED vals

CloseScope ==
  /\ Len(marks) > 1
  /\ InScope
  /\ vals' = Append(SubSeq(vals, 1, marks[Len(marks)]), vals[Len(vals)])
  /\ marks' = SubSeq(marks, 1, Len(marks) - 1)

Next ==
  \/ \E v \in Values : Push(v)
  \/ Pop
  \/ \E i \in 1 .. Len(vals) : PushIndex(i) \/ PopToIndex(i)
  \/ OpenScope
  \/ CloseScope

Spec == Init /\ [][Next]_vars

===============================================================================
