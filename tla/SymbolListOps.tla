---------------------------- MODULE SymbolListOps ----------------------------
(***************************************************************************)
(* The symbols in scope while a line is compiled, and the scopes open in   *)
(* it (src/src/symbol_list.h, symbol_list.c): one operator per function.   *)
(* A symbol is the name it interns. The index of a symbol here is the      *)
(* index of its value on the operand stack, which is why the two must      *)
(* never fall out of step.                                                 *)
(***************************************************************************)
EXTENDS Integers, Sequences

NoSymbol == -1
MaxScopeDepth == 255

SymbolList_init == [items |-> <<>>, scopes |-> <<>>]

SymbolLists ==
  [ items  : Seq([symbol : STRING, definedOnLine : Nat, isMutable : BOOLEAN]),
    scopes : Seq([start : Nat, checkpoint : Nat, type : {"GENERIC", "BREAKABLE"}]) ]

(* The index of a symbol, counted from 0, or NoSymbol.                     *)
SymbolList_find(symbols, symbol) ==
  LET found == {i \in DOMAIN symbols.items : symbols.items[i].symbol = symbol}
  IN IF found = {} THEN NoSymbol ELSE (CHOOSE i \in found : \A j \in found : i <= j) - 1

SymbolList_append(symbols, symbol, definedOnLine, isMutable) ==
  [symbols EXCEPT !.items =
     Append(@, [symbol |-> symbol, definedOnLine |-> definedOnLine, isMutable |-> isMutable])]

(* Mutant: every symbol is mutable.                                        *)
SymbolList_isMutableAlways(symbols, index) == TRUE

SymbolList_isMutable(symbols, index) == symbols.items[index + 1].isMutable

SymbolList_openScope(symbols, type, start) ==
  [symbols EXCEPT !.scopes =
     Append(@, [start |-> start, checkpoint |-> Len(symbols.items), type |-> type])]

(* Mutant: the symbols of the scope stay.                                  *)
SymbolList_closeScopeOnly(symbols) ==
  [symbols EXCEPT !.scopes = SubSeq(@, 1, Len(@) - 1)]

(* Mutant: the symbols of the scope go, the scope stays.                   *)
SymbolList_closeScopeLeftOpen(symbols) ==
  [symbols EXCEPT !.items = SubSeq(@, 1, symbols.scopes[Len(symbols.scopes)].checkpoint)]

SymbolList_closeScope(symbols) ==
  LET depth == Len(symbols.scopes)
  IN [ items  |-> SubSeq(symbols.items, 1, symbols.scopes[depth].checkpoint),
       scopes |-> SubSeq(symbols.scopes, 1, depth - 1) ]

(* Mutant: the symbols declared since the checkpoint stay.                 *)
SymbolList_rewindScopes(symbols, checkpoint) == [symbols EXCEPT !.scopes = <<>>]

(* Only called between statements of the outermost scope.                  *)
SymbolList_rewind(symbols, checkpoint) ==
  [items |-> SubSeq(symbols.items, 1, checkpoint), scopes |-> <<>>]

===============================================================================
