-------------------------------- MODULE Syntax --------------------------------
(***************************************************************************)
(* The syntax trees the parser hands to the compiler (src/src/node.h,      *)
(* node.c). A node is a record of its type and its operands; the line,     *)
(* which every node of one prompt line shares, is kept by the compiler.    *)
(* The constructors have the arguments of the C ones.                      *)
(***************************************************************************)
EXTENDS Integers, Sequences

(* A NULL operand. *)
NULL == [type |-> "NULL"]

(* The atoms: what the compiler reads off their text. An integer literal   *)
(* above INT32_MAX has the value TooBig.                                   *)
TooBig == -1
Num(i) == [type |-> "INTEGER_LITERAL", integer |-> i]
Bool(b) == [type |-> "BOOLEAN_LITERAL", boolean |-> b]
Nil == [type |-> "NIL_LITERAL"]
Sym(symbol) == [type |-> "SYMBOL", symbol |-> symbol]
Str(text) == [type |-> "UTF8_LITERAL", text |-> text]

UnaryNode(type, arg0) == [type |-> type, arg0 |-> arg0]
BinaryNode(type, arg0, arg1) == [type |-> type, arg0 |-> arg0, arg1 |-> arg1]
TernaryNode(type, arg0, arg1, arg2) ==
  [type |-> type, arg0 |-> arg0, arg1 |-> arg1, arg2 |-> arg2]
ListNode(type, items) == [type |-> type, items |-> items]

AtomTypes == {"INTEGER_LITERAL", "NIL_LITERAL", "BOOLEAN_LITERAL", "SYMBOL", "UTF8_LITERAL", "UTF32_LITERAL"}

(* What Parser_parseStatement returns at the end of the line.              *)
EndOfFile == [type |-> "EOF"]

(* What Parser_parseStatement leaves of a statement it panics in.          *)
SyntaxError == [type |-> "SYNTAX_ERROR"]

ComparisonTypes ==
  {"LESS_THAN", "LESS_THAN_EQUAL", "GREATER_THAN", "GREATER_THAN_EQUAL", "EQUAL", "NOT_EQUAL"}

isComparison(node) == node.type \in ComparisonTypes

(* The trees, by how deep they are nested. The depth of a break or         *)
(* continue, its value and an else may be missing; the arguments of a call *)
(* are the only list beside a block.                                       *)
UnaryTypes == {"NEGATE", "LOGICAL_NOT", "PARENS", "MUT", "LOOP"}
BinaryTypes ==
  {"ASSIGN", "ADD", "SUBTRACT", "MULTIPLY", "INTEGER_DIVIDE", "AND", "OR"} \cup ComparisonTypes
TernaryTypes == {"IF", "WHILE", "UNTIL"}
LeafTypes == AtomTypes \cup {"EOF"}

IntegerLeaves == [type : {"INTEGER_LITERAL"}, integer : Int]

Leaves ==
  IntegerLeaves \cup {Nil, [type |-> "UTF32_LITERAL"], EndOfFile}
  \cup [type : {"BOOLEAN_LITERAL"}, boolean : BOOLEAN]
  \cup [type : {"SYMBOL"}, symbol : STRING]
  \cup [type : {"UTF8_LITERAL"}, text : STRING]

(* The trees with these operands.                                          *)
TreesOf(operands) ==
  [type : UnaryTypes, arg0 : operands]
  \cup [type : BinaryTypes, arg0 : operands, arg1 : operands]
  \cup [type : TernaryTypes, arg0 : operands, arg1 : operands, arg2 : {NULL} \cup operands]
  \cup [type : {"BLOCK"}, items : Seq(operands)]
  \cup [type : {"CALL"}, arg0 : operands, arg1 : [type : {"COMMA_SEPARATED"}, items : Seq(operands)]]
  \cup [type : {"CONTINUE"}, arg0 : {NULL} \cup IntegerLeaves]
  \cup [type : {"BREAK"}, arg0 : {NULL} \cup IntegerLeaves, arg1 : {NULL} \cup operands]

Trees[nesting \in Nat] ==
  IF nesting = 0 THEN Leaves ELSE Leaves \cup TreesOf(Trees[nesting - 1])

-------------------------------------------------------------------------------
(* Short names for the trees of the programs that are checked.             *)
Assign(name, value) == BinaryNode("ASSIGN", Sym(name), value)
Mut(name, value) == UnaryNode("MUT", Assign(name, value))
Block(items) == ListNode("BLOCK", items)
If(test, then) == TernaryNode("IF", test, then, NULL)
IfElse(test, then, else) == TernaryNode("IF", test, then, else)
While(test, body) == TernaryNode("WHILE", test, body, NULL)
Loop(body) == UnaryNode("LOOP", body)
Break == BinaryNode("BREAK", NULL, NULL)
BreakWith(value) == BinaryNode("BREAK", NULL, value)
BreakOut(depth, value) == BinaryNode("BREAK", Num(depth), value)
Continue == UnaryNode("CONTINUE", NULL)
Call(name, arguments) == BinaryNode("CALL", Sym(name), ListNode("COMMA_SEPARATED", arguments))

===============================================================================
