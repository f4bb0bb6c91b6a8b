---------------------------- MODULE SymbolTableOps ----------------------------
(***************************************************************************)
(* The symbol table (src/src/symbol_table.c, symbol.c) as operators on the *)
(* struct: an array of pointers to symbols, NULL or the number of a        *)
(* symbol in the heap, probed from the slot its hash falls in. A symbol    *)
(* holds its hash and a pointer to its text, which lies in the buffer of   *)
(* the line it was first read from (main.c).                               *)
(*                                                                         *)
(* Growing is a loop of the C code and is taken apart into Grow, which     *)
(* allocates the new array, and Move, which moves one old slot to it.      *)
(***************************************************************************)
EXTENDS Integers, Sequences, FiniteSets

CONSTANTS
  Names,            \* the names a line may hold
  hashSymbol,       \* the hash of every name (FNV-1a); names may share one
  HashSpace,        \* how many values getIndex computes with: 2^64 in the code
  Multiplier,       \* HashSpace divided by the golden ratio
  InitialCapacity   \* the slots of the first array: 16 in the code

ASSUME HashAssumption ==
  /\ HashSpace \in Nat \ {0}
  /\ Multiplier \in Nat
  /\ hashSymbol \in [Names -> 0 .. HashSpace - 1]

(* HashSpace is a power of two (what divides it, doubled, divides it), and *)
(* InitialCapacity is one.                                                 *)
ASSUME CapacityAssumption ==
  /\ InitialCapacity \in Nat \ {0} /\ HashSpace % InitialCapacity = 0
  /\ \A capacity \in 1 .. HashSpace - 1 :
       HashSpace % capacity = 0 => HashSpace % (2 * capacity) = 0

(* There are not so many names that the array would need more slots than   *)
(* the hash has values: 2^64 of them do not fit in any memory.             *)
ASSUME NamesAssumption == IsFiniteSet(Names) /\ 4 * Cardinality(Names) < 3 * HashSpace

NULL == 0

SymbolTable_init == [items |-> <<>>, load |-> 0, capacity |-> 0]

(* Mutant: malloc, which leaves in the array what was there before. *)
malloc(capacity) == [slot \in 0 .. capacity - 1 |-> -1]

(* A fresh array, all of it NULL, and no symbol moved to it yet.           *)
calloc(capacity) == [slot \in 0 .. capacity - 1 |-> NULL]

(* The slot of a hash: the highest bits of its product with the multiplier *)
(* as an unsigned number, as many as the capacity needs.                   *)
getIndex(hash, capacity) ==
  ((Multiplier * hash) % HashSpace) \div (HashSpace \div capacity)

(* The slot that lies "offset" slots further, back at 0 after the last.    *)
After(slot, offset, capacity) == (slot + offset) % capacity

(* The probe for one of the slots in "stops": the first of them from home  *)
(* on, all the way round. If there is none it never ends.                  *)
ProbeEnds(stops) == stops # {}

Probe(stops, home, capacity) ==
  LET offsets == {offset \in 0 .. capacity - 1 : After(home, offset, capacity) \in stops}
  IN After(home, CHOOSE nearest \in offsets : \A other \in offsets : nearest <= other, capacity)

FreeSlots(table) == {slot \in 0 .. table.capacity - 1 : table.items[slot] = NULL}

-------------------------------------------------------------------------------
(* The capacity is looked at before the name is, on every call.            *)

MustAllocate(table) == table.capacity = 0

(* Mutant: the table grows only when it is full, once it is too late.      *)
MustGrowLate(table) == table.capacity # 0 /\ table.load > table.capacity

MustGrow(table) == table.capacity # 0 /\ 4 * table.load >= 3 * table.capacity

Allocate(table) ==
  [table EXCEPT !.items = calloc(InitialCapacity), !.capacity = InitialCapacity]

Grow(table) ==
  [table EXCEPT !.items = calloc(2 * table.capacity), !.capacity = 2 * table.capacity]

(* The old slot's symbol, if it has one, goes to the first free slot from  *)
(* where its hash falls.                                                   *)
(* Mutant: to that slot, free or not. *)
PutAt(table, item, home) ==
  IF item = NULL THEN table ELSE [table EXCEPT !.items = [table.items EXCEPT ![home] = item]]

PutFrom(table, item, home) ==
  IF item = NULL THEN table
  ELSE [table EXCEPT !.items =
         [table.items EXCEPT ![Probe(FreeSlots(table), home, table.capacity)] = item]]

(* Mutant: where its hash fell in the old array. *)
MoveToOldHome(table, symbols, item) ==
  PutFrom(table, item, IF item = NULL THEN 0 ELSE getIndex(symbols[item].hash, table.capacity \div 2))

(* Where it falls in the array that has just been allocated. *)
Move(table, symbols, item) ==
  PutFrom(table, item, IF item = NULL THEN 0 ELSE getIndex(symbols[item].hash, table.capacity))

-------------------------------------------------------------------------------
(* The lines read so far: main keeps each buffer, because the texts of the *)
(* symbols lie in them.                                                    *)

BufferList_init == <<>>

(* Mutant: the buffer of a line that does not compile is freed.            *)
BufferList_appendIf(buffers, buffer, success) ==
  Append(buffers, IF success THEN buffer ELSE <<>>)

BufferList_append(buffers, buffer, success) == Append(buffers, buffer)

Freed == "freed"

(* The name a symbol's text pointer reads: the current line is the last    *)
(* buffer that is not in the list yet.                                     *)
TextAt(text, buffers, line) ==
  LET all == Append(buffers, line) IN
    IF text.buffer \in DOMAIN all /\ text.at \in DOMAIN all[text.buffer]
    THEN all[text.buffer][text.at] ELSE Freed

Symbol_new(text, hash) == [text |-> text, hash |-> hash]

===============================================================================
