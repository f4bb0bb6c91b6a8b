------------------------------- MODULE StackOps -------------------------------
(***************************************************************************)
(* The operand stack of a Thread (src/src/stack.h, src/src/stack.c): one   *)
(* operator per function, from a stack to the stack it leaves.             *)
(*                                                                         *)
(* The C struct keeps raw pointers into a heap block that realloc may      *)
(* move, so a pointer is modelled as an address, an integer: the block     *)
(* starts at s.items and cell k of it is at address s.items + k.           *)
(*                                                                         *)
(*   items, top, maxTop, currentScope   the four Value* of the struct      *)
(*   cells       the contents of the block, by offset from items           *)
(*   scopes      the contents of the scopes block, by index                *)
(*   scopeRoom   how many pointers the scopes block really has room for    *)
(*   scopeCount, scopeCapacity          the two uint8_t counters           *)
(*   fault       NoFault, or the first assertion that failed or block that *)
(*               was overrun; a faulted stack never changes again          *)
(***************************************************************************)
EXTENDS Integers, Sequences

CONSTANTS
  Values,        \* what a cell may hold
  InitialItems,  \* cells the first items block is given (8 in the code)
  Garbage,       \* the contents of a cell that was never written
  ReallocZero,   \* what realloc(p, 0) gives on this platform: "null" or "block"
  ZeroRoom       \* pointers that fit in the block realloc(p, 0) gives

ASSUME ValuesAssumption == Garbage \notin Values
ASSUME InitialItemsAssumption == InitialItems \in Nat \ {0}
ASSUME ReallocZeroAssumption == ReallocZero \in {"null", "block"}
ASSUME ZeroRoomAssumption == ZeroRoom \in Nat \ {0}

UINT8_MAX == 255

NoFault == "none"
Faults == {NoFault, "pop of empty stack", "index above top", "scope returns nothing",
           "scopes is NULL", "scopes overrun", "too many scopes"}

Capacity(s) == (s.maxTop - s.items) + 1
TopIndex(s) == s.top - s.items

(* Stack_init: the block of InitialItems cells was put at address base.    *)
Stack_init(base) ==
  [ items |-> base, top |-> base - 1, maxTop |-> base + (InitialItems - 1),
    cells |-> [k \in 0 .. InitialItems - 1 |-> Garbage],
    currentScope |-> base, scopes |-> [k \in {} |-> base], scopeRoom |-> 0,
    scopeCount |-> 0, scopeCapacity |-> 0, fault |-> NoFault ]

Fail(s, f) == [s EXCEPT !.fault = f]

(* Mutants of the three parts of growing: the size given to realloc is one *)
(* cell short, maxTop is one past the block, saved scopes are left behind. *)
MovedCellsShort(s, capacity) ==
  [k \in 0 .. capacity - 1 |-> IF k \in DOMAIN s.cells /\ k < TopIndex(s) THEN s.cells[k] ELSE Garbage]
LastCellBeyond(base, capacity) == base + capacity
MovedScopesLeft(s, base) == s.scopes

(* What realloc keeps of the cells, the last cell it gives, and the saved  *)
(* scopes, computed again from their offsets.                              *)
MovedCells(s, capacity) ==
  [k \in 0 .. capacity - 1 |-> IF k \in DOMAIN s.cells THEN s.cells[k] ELSE Garbage]
LastCell(base, capacity) == (base + capacity) - 1
MovedScopes(s, base) ==
  [i \in DOMAIN s.scopes |->
     IF i < s.scopeCount THEN base + (s.scopes[i] - s.items) ELSE s.scopes[i]]

(* The growth branch of Stack_push: realloc put the bigger block at base   *)
(* and every pointer into the old one is computed again.                   *)
Grow(s, base) ==
  LET topIndex == TopIndex(s)
      capacity == (topIndex + 1) * 2
  IN [s EXCEPT
        !.items = base,
        !.cells = MovedCells(s, capacity),
        !.top = base + topIndex,
        !.maxTop = LastCell(base, capacity),
        !.currentScope = base + (s.currentScope - s.items),
        !.scopes = MovedScopes(s, base)]

(* *(++top) = item, on a stack that has a free cell. *)
Put(s, item) ==
  [s EXCEPT !.top = s.top + 1, !.cells = [s.cells EXCEPT ![TopIndex(s) + 1] = item]]

Stack_isEmpty(s) == s.top < s.items

(* base is where realloc would put the block if this push has to grow it.  *)
Stack_push(s, item, base) ==
  IF s.fault # NoFault THEN s
  ELSE IF s.top = s.maxTop THEN Put(Grow(s, base), item) ELSE Put(s, item)

(* The value Stack_pop and Stack_peek return on a stack that is not empty. *)
Stack_peek(s) == s.cells[TopIndex(s)]

(* What Stack_pop does to the stack. *)
Stack_pop(s) ==
  IF s.fault # NoFault THEN s
  ELSE IF Stack_isEmpty(s) THEN Fail(s, "pop of empty stack")
  ELSE [s EXCEPT !.top = s.top - 1]

Stack_pushIndex(s, index, base) ==
  IF s.fault # NoFault THEN s
  ELSE IF s.items + index > s.top THEN Fail(s, "index above top")
  ELSE Stack_push(s, s.cells[index], base)

(* Mutant: the value is popped and never stored.                           *)
Stack_popToIndexDropping(s, index) ==
  IF s.fault # NoFault THEN s
  ELSE IF s.items + index > s.top THEN Fail(s, "index above top")
  ELSE [s EXCEPT !.top = s.top - 1]

Stack_popToIndex(s, index) ==
  IF s.fault # NoFault THEN s
  ELSE IF s.items + index > s.top THEN Fail(s, "index above top")
  ELSE [s EXCEPT !.top = s.top - 1, !.cells = [s.cells EXCEPT ![index] = Stack_peek(s)]]

(* The capacity the growth branch of Stack_openScope computes: a quarter   *)
(* more, at most UINT8_MAX. The 8 meant for a first block is overwritten,  *)
(* so a capacity of 0 stays 0.                                             *)
NewScopeCapacity(capacity) ==
  LET newCapacity == (capacity * 5) \div 4
  IN IF capacity # 0 /\ newCapacity > UINT8_MAX THEN UINT8_MAX ELSE newCapacity

(* The growth branch of Stack_openScope, with the realloc it makes.        *)
GrowScopes(s) ==
  LET capacity == NewScopeCapacity(s.scopeCapacity)
      room == IF capacity = 0 THEN ZeroRoom ELSE capacity
      allocated == [s EXCEPT !.scopeCapacity = capacity, !.scopeRoom = room]
  IN IF s.scopeCapacity >= UINT8_MAX THEN Fail(s, "too many scopes")
     \* glibc: the first call allocates, a later one frees the block and returns NULL
     ELSE IF capacity = 0 /\ ReallocZero = "null" /\ s.scopeRoom # 0
     THEN Fail(allocated, "scopes is NULL")
     ELSE allocated

(* The rest of Stack_openScope: save currentScope, start a new scope.      *)
SaveScope(s) ==
  IF s.scopeCount >= s.scopeRoom THEN Fail(s, "scopes overrun")
  ELSE [s EXCEPT
          !.scopes = [i \in 0 .. s.scopeCount |->
                        IF i = s.scopeCount THEN s.currentScope ELSE s.scopes[i]],
          !.scopeCount = (s.scopeCount + 1) % (UINT8_MAX + 1),
          !.currentScope = s.top + 1]

Stack_openScope(s) ==
  IF s.fault # NoFault THEN s
  ELSE LET grown == IF s.scopeCount = s.scopeCapacity THEN GrowScopes(s) ELSE s
       IN IF grown.fault # NoFault THEN grown ELSE SaveScope(grown)

(* The rest of Stack_closeScope: the scope gives up its values and returns *)
(* one.                                                                    *)
ReturnFromScope(s, value) ==
  [s EXCEPT
     !.cells = [s.cells EXCEPT ![s.currentScope - s.items] = value],
     !.top = s.currentScope,
     !.scopeCount = s.scopeCount - 1,
     !.currentScope = s.scopes[s.scopeCount - 1]]

(* Mutants: a scope needs two values, a scope returns its first value.     *)
Stack_closeScopeStrict(s) ==
  IF s.fault # NoFault THEN s
  ELSE IF s.currentScope >= s.top THEN Fail(s, "scope returns nothing")
  ELSE IF s.scopeCount = 0 THEN Fail(s, "scopes overrun")
  ELSE ReturnFromScope(s, Stack_peek(s))
Stack_closeScopeFirst(s) ==
  IF s.fault # NoFault THEN s
  ELSE IF s.currentScope > s.top THEN Fail(s, "scope returns nothing")
  ELSE IF s.scopeCount = 0 THEN Fail(s, "scopes overrun")
  ELSE ReturnFromScope(s, s.cells[s.currentScope - s.items])

Stack_closeScope(s) ==
  IF s.fault # NoFault THEN s
  ELSE IF s.currentScope > s.top THEN Fail(s, "scope returns nothing")
  ELSE IF s.scopeCount = 0 THEN Fail(s, "scopes overrun")
  ELSE ReturnFromScope(s, Stack_peek(s))

-------------------------------------------------------------------------------
(* What a stack stands for: its values, from the bottom to the top, and    *)
(* how many of them lie below each open scope, the outermost first.        *)
ValuesOf(s) == [k \in 1 .. TopIndex(s) + 1 |-> s.cells[k - 1]]
MarksOf(s) ==
  [k \in 1 .. s.scopeCount + 1 |->
     (IF k = s.scopeCount + 1 THEN s.currentScope ELSE s.scopes[k - 1]) - s.items]

===============================================================================
