--------------------------------- MODULE Stack ---------------------------------
(***************************************************************************)
(* The operand stack as a state machine: compiled code performs one stack  *)
(* operation after another, keeping to the contract the assertions of      *)
(* stack.h and stack.c state (it never pops below the scope it is in, and  *)
(* leaves at least one value in a scope it closes), and realloc puts the   *)
(* block wherever it likes.                                                *)
(***************************************************************************)
EXTENDS StackOps

CONSTANTS
  Bases,      \* the addresses realloc may put the items block at
  MaxItems,   \* bound: values on the stack
  MaxScopes   \* bound: scopes open at once

ASSUME BasesAssumption == Bases \subseteq Nat /\ Bases # {}
ASSUME BoundsAssumption == MaxItems \in Nat /\ MaxScopes \in 0 .. UINT8_MAX - 1

VARIABLES
  stack,    \* the Stack struct and the blocks it points to
  height,   \* history: how many values the calls so far should have left
  starts    \* history: for each scope, how many of them lie below it

vars == <<stack, height, starts>>

Init ==
  /\ \E base \in Bases : stack = Stack_init(base)
  /\ height = 0
  /\ starts = <<0>>

Running == stack.fault = NoFault
InScope == height > starts[Len(starts)]

Push ==
  /\ Running /\ height < MaxItems
  /\ \E v \in Values, base \in Bases : stack' = Stack_push(stack, v, base)
  /\ height' = height + 1
  /\ UNCHANGED starts

Pop ==
  /\ Running /\ InScope
  /\ stack' = Stack_pop(stack)
  /\ height' = height - 1
  /\ UNCHANGED starts

PushIndex ==
  /\ Running /\ height < MaxItems
  /\ \E i \in 0 .. height - 1, base \in Bases : stack' = Stack_pushIndex(stack, i, base)
  /\ height' = height + 1
  /\ UNCHANGED starts

PopToIndex ==
  /\ Running /\ InScope
  /\ \E i \in 0 .. height - 1 : stack' = Stack_popToIndex(stack, i)
  /\ height' = height - 1
  /\ UNCHANGED starts

(* MaxItems leaves room for the value a scope returns. *)
OpenScope ==
  /\ Running /\ Len(starts) <= MaxScopes /\ height < MaxItems
  /\ stack' = Stack_openScope(stack)
  /\ starts' = Append(starts, height)
  /\ UNCHANGED height

CloseScope ==
  /\ Running /\ InScope /\ Len(starts) > 1
  /\ stack' = Stack_closeScope(stack)
  /\ height' = starts[Len(starts)] + 1
  /\ starts' = SubSeq(starts, 1, Len(starts) - 1)

Next == Push \/ Pop \/ PushIndex \/ PopToIndex \/ OpenScope \/ CloseScope

Spec == Init /\ [][Next]_vars

-------------------------------------------------------------------------------
(* The shape of the struct: integers, and blocks of the size it says.      *)
TypeOK ==
  /\ DOMAIN stack = {"items", "top", "maxTop", "cells", "currentScope", "scopes",
                     "scopeRoom", "scopeCount", "scopeCapacity", "fault"}
  /\ stack.items \in Bases
  /\ {stack.top, stack.maxTop, stack.currentScope} \subseteq Int
  /\ stack.cells \in [0 .. Capacity(stack) - 1 -> Values \cup {Garbage}]
  /\ stack.scopeRoom \in Nat
  /\ stack.scopeCount \in 0 .. UINT8_MAX
  /\ stack.scopeCapacity \in 0 .. UINT8_MAX
  /\ stack.scopes \in [DOMAIN stack.scopes -> Int]
  /\ stack.fault \in Faults
  /\ height \in Nat
  /\ starts \in Seq(Nat)

(* A pointer into the items block that names a scope with below values     *)
(* under it.                                                               *)
PointsAt(pointer, below) == pointer = stack.items + below

(* After any sequence of operations, whatever realloc moved in between,    *)
(* every pointer the struct keeps (top, maxTop, currentScope and each      *)
(* saved scope) is an address inside the items block as it is now, and     *)
(* names the position the calls so far gave it: Stack_push's realloc       *)
(* leaves no pointer behind in the block it freed.                         *)
PointersFollowTheBlock ==
  Running =>
    /\ PointsAt(stack.top + 1, height) /\ stack.top <= stack.maxTop
    /\ PointsAt(stack.currentScope, starts[Len(starts)])
    /\ stack.scopeCount = Len(starts) - 1
    /\ \A i \in 1 .. Len(starts) - 1 : PointsAt(stack.scopes[i - 1], starts[i])

(* Every cell an operation can read, pop or return was written since it    *)
(* was allocated: growing never exposes uninitialized memory.              *)
LiveCellsWritten ==
  Running => \A k \in 0 .. height - 1 : stack.cells[k] \in Values

(* Compiled code that keeps to the contract never trips an assertion of    *)
(* stack.h or stack.c and never writes outside a block. It holds where     *)
(* realloc(p, 0) gives a block and MaxScopes pointers fit in it.           *)
NoFaults == stack.fault = NoFault

(* The assertion of Stack_openScope, "assert(self->scopes != NULL)", as it *)
(* stands: opening a scope never finds the scopes block missing.           *)
ScopesAllocated == stack.fault # "scopes is NULL"

(* The struct implements the abstract stack of scopes: dropping addresses, *)
(* capacity and reallocation, every operation is the promised one.         *)
Abstract == INSTANCE ScopedStack WITH vals <- ValuesOf(stack), marks <- MarksOf(stack)

Implements == Abstract!Spec

===============================================================================
