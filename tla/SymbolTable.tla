----------------------------- MODULE SymbolTable ------------------------------
(***************************************************************************)
(* The symbol table as the compiler uses it (src/src/symbol_table.c): line *)
(* after line, every name the compiler comes to is looked up by            *)
(* SymbolTable_getOrCreate. A call allocates or grows the array first if   *)
(* it must, moves the old slots to it one after another, and then probes   *)
(* for the name.                                                           *)
(***************************************************************************)
EXTENDS SymbolTableOps

CONSTANTS
  Lines,      \* the names on a line, in the order the compiler comes to them
  MaxLines    \* bound: lines of a session

ASSUME LinesAssumption == Lines \subseteq Seq(Names) /\ MaxLines \in Nat

VARIABLES
  table,      \* the SymbolTable struct and its array
  old,        \* the array being moved: its slots and the next one to move
  symbols,    \* the heap: every symbol malloc has returned, by its number
  buffers,    \* the BufferList of main
  line,       \* the names of the current line
  at,         \* how many of them have been looked up; -1 at the prompt
  handedOut   \* history: the symbol last returned for each name

vars == <<table, old, symbols, buffers, line, at, handedOut>>

NotMoving == [items |-> <<>>, next |-> 0, capacity |-> 0]

Init ==
  /\ table = SymbolTable_init
  /\ old = NotMoving
  /\ symbols = <<>>
  /\ buffers = BufferList_init
  /\ line = <<>>
  /\ at = -1
  /\ handedOut = [name \in {} |-> NULL]

AtPrompt == at = -1
Moving == old.next < old.capacity
LookingUp == ~ AtPrompt /\ ~ Moving /\ at < Len(line)

ReadLine(names) ==
  /\ AtPrompt /\ Len(buffers) < MaxLines
  /\ line' = names
  /\ at' = 0
  /\ UNCHANGED <<table, old, symbols, buffers, handedOut>>

(* The first call of all.                                                  *)
AllocateTable ==
  /\ LookingUp /\ MustAllocate(table)
  /\ table' = Allocate(table)
  /\ UNCHANGED <<old, symbols, buffers, line, at, handedOut>>

(* A call that finds the array three quarters full.                        *)
GrowTable ==
  /\ LookingUp /\ MustGrow(table)
  /\ table' = Grow(table)
  /\ old' = [items |-> table.items, next |-> 0, capacity |-> table.capacity]
  /\ UNCHANGED <<symbols, buffers, line, at, handedOut>>

(* One round of the loop over the old slots; after the last the old array  *)
(* is freed.                                                               *)
MoveSlot ==
  /\ Moving
  /\ table' = Move(table, symbols, old.items[old.next])
  /\ old' = IF old.next + 1 = old.capacity THEN NotMoving ELSE [old EXCEPT !.next = @ + 1]
  /\ UNCHANGED <<symbols, buffers, line, at, handedOut>>

(* Mutant: hashes are compared and texts are not. *)
MatchesHash(item, name) == symbols[item].hash = hashSymbol[name]

(* The hashes, lengths and texts are equal.                                *)
Matches(item, name) ==
  /\ symbols[item].hash = hashSymbol[name]
  /\ TextAt(symbols[item].text, buffers, line) = name

(* Where the probe for a name stops: at its symbol or where it would be.   *)
StopsFor(name) ==
  FreeSlots(table) \cup {slot \in (0 .. table.capacity - 1) \ FreeSlots(table) : Matches(table.items[slot], name)}

Found(name) == Probe(StopsFor(name), getIndex(hashSymbol[name], table.capacity), table.capacity)

Return(name, symbol) ==
  handedOut' = [n \in DOMAIN handedOut \cup {name} |-> IF n = name THEN symbol ELSE handedOut[n]]

(* The rest of the call: a known symbol is returned, a new one is made in  *)
(* the free slot the probe stops at.                                       *)
LookUp(name) ==
  /\ ProbeEnds(StopsFor(name))
  /\ IF table.items[Found(name)] = NULL
     THEN LET new == Len(symbols) + 1 IN
            /\ symbols' = Append(symbols, Symbol_new([buffer |-> Len(buffers) + 1, at |-> at + 1],
                                                     hashSymbol[name]))
            /\ table' = [table EXCEPT !.items = [table.items EXCEPT ![Found(name)] = new],
                                      !.load = @ + 1]
            /\ Return(name, new)
     ELSE /\ Return(name, table.items[Found(name)])
          /\ UNCHANGED <<symbols, table>>
  /\ at' = at + 1
  /\ UNCHANGED <<old, buffers, line>>

GetOrCreate ==
  /\ LookingUp /\ ~ MustAllocate(table) /\ ~ MustGrow(table)
  /\ LookUp(line[at + 1])

(* The line is compiled, or has an error, and has run if it could.         *)
EndLine ==
  /\ ~ AtPrompt /\ ~ Moving /\ at = Len(line)
  /\ \E success \in BOOLEAN : buffers' = BufferList_append(buffers, line, success)
  /\ line' = <<>>
  /\ at' = -1
  /\ UNCHANGED <<table, old, symbols, handedOut>>

Compile == AllocateTable \/ GrowTable \/ MoveSlot \/ GetOrCreate \/ EndLine

Next == Compile \/ \E names \in Lines : ReadLine(names)

(* Compiling a line goes on until it is done; nobody has to enter one.     *)
Spec == Init /\ [][Next]_vars /\ WF_vars(Compile)

-------------------------------------------------------------------------------
Slots == 0 .. table.capacity - 1

Occupied == {slot \in Slots : table.items[slot] # NULL}

(* The slots of the old array whose symbols have not been moved.           *)
NotMoved == {slot \in old.next .. old.capacity - 1 : old.items[slot] # NULL}

(* The name a symbol stands for.                                           *)
NameOf(symbol) == TextAt(symbols[symbol].text, buffers, line)

(* The shape of the arrays: every slot is free or holds a symbol made.     *)
TypeOK ==
  /\ table.capacity \in Nat /\ table.load \in Nat
  /\ \A slot \in Slots : table.items[slot] \in {NULL} \cup DOMAIN symbols
  /\ \A slot \in 0 .. old.capacity - 1 : old.items[slot] \in {NULL} \cup DOMAIN symbols
  /\ at \in -1 .. Len(line)
  /\ Len(buffers) <= MaxLines

(* The text of every symbol can still be read, lines after the line it was *)
(* first seen on, and it is the name the symbol was made for: "Save off    *)
(* buffers because they contain the memory locations to which all of our   *)
(* symbols point."                                                         *)
TextsStayReadable ==
  \A name \in DOMAIN handedOut : NameOf(handedOut[name]) = name

(* Every symbol is found by the probe that looks for it: from the slot its *)
(* hash falls in to the slot it lies in there is no free one. While the    *)
(* array is being moved this holds of what has been moved.                 *)
SymbolsAreReachable ==
  \A slot \in Occupied :
    \E offset \in 0 .. table.capacity - 1 :
      LET home == getIndex(symbols[table.items[slot]].hash, table.capacity) IN
        /\ After(home, offset, table.capacity) = slot
        /\ \A nearer \in 0 .. offset : After(home, nearer, table.capacity) \in Occupied

(* Every symbol made is in one slot, of the new array or of what is left   *)
(* of the old one, and load counts them: growing neither loses nor doubles *)
(* one.                                                                    *)
EverySymbolHasOneSlot ==
  /\ table.load = Len(symbols)
  /\ \A symbol \in DOMAIN symbols :
       \/ /\ \E slot \in Occupied : \A other \in Occupied : (table.items[other] = symbol) <=> (other = slot)
          /\ \A slot \in NotMoved : old.items[slot] # symbol
       \/ /\ \E slot \in NotMoved : \A other \in NotMoved : (old.items[other] = symbol) <=> (other = slot)
          /\ \A slot \in Occupied : table.items[slot] # symbol

(* Two occurrences of a name have the same symbol, on the same line or     *)
(* lines apart and with the table grown in between, and no two names share *)
(* one.                                                                    *)
I == INSTANCE Interning WITH symbolOf <- handedOut

(* The table keeps the promise of Interning.                               *)
Implements == I!Spec

(* Compiling a line comes to an end: whatever the load, no probe runs      *)
(* around an array without a free slot.                                    *)
LinesEnd == ~ AtPrompt ~> AtPrompt

===============================================================================
