-------------------------------- MODULE Grammar --------------------------------
(***************************************************************************)
(* What the parser should do, said without parsing: which lines are        *)
(* programs, which tokens a tree stands for, and how the operators of a    *)
(* tree bind.                                                              *)
(***************************************************************************)
EXTENDS Naturals, Sequences, Syntax

(* The tokens of a tree from left to right, without the semicolons and     *)
(* commas.                                                                 *)

T(type) == <<[type |-> type]>>

InfixTokens ==
  [ASSIGN |-> "EQUALS", ADD |-> "PLUS", SUBTRACT |-> "MINUS", MULTIPLY |-> "ASTERISK",
   INTEGER_DIVIDE |-> "SLASH_SLASH", LESS_THAN |-> "LESS_THAN", LESS_THAN_EQUAL |-> "LESS_THAN_EQUALS",
   GREATER_THAN |-> "GREATER_THAN", GREATER_THAN_EQUAL |-> "GREATER_THAN_EQUALS",
   EQUAL |-> "EQUALS_EQUALS", NOT_EQUAL |-> "BANG_EQUALS", AND |-> "AND", OR |-> "OR"]

PrefixTokens == [NEGATE |-> "MINUS", LOGICAL_NOT |-> "NOT", MUT |-> "MUT"]

RECURSIVE TokensOf(_), TokensOfAll(_)

TokensOfAll(nodes) == IF nodes = <<>> THEN <<>> ELSE TokensOf(Head(nodes)) \o TokensOfAll(Tail(nodes))

TokensOf(node) ==
  CASE node = NULL -> <<>>
    [] node.type \in DOMAIN InfixTokens ->
         TokensOf(node.arg0) \o T(InfixTokens[node.type]) \o TokensOf(node.arg1)
    [] node.type \in DOMAIN PrefixTokens -> T(PrefixTokens[node.type]) \o TokensOf(node.arg0)
    [] node.type = "PARENS" -> T("OPEN_PAREN") \o TokensOf(node.arg0) \o T("CLOSE_PAREN")
    [] node.type = "CALL" ->
         TokensOf(node.arg0) \o T("OPEN_PAREN") \o TokensOfAll(node.arg1.items) \o T("CLOSE_PAREN")
    [] node.type = "BLOCK" -> T("OPEN_BRACE") \o TokensOfAll(node.items) \o T("CLOSE_BRACE")
    [] node.type \in {"LOOP", "CONTINUE"} -> T(node.type) \o TokensOf(node.arg0)
    [] node.type = "BREAK" ->
         T("BREAK") \o TokensOf(node.arg0)
           \o (IF node.arg1 = NULL THEN <<>> ELSE T("WITH") \o TokensOf(node.arg1))
    [] node.type \in {"IF", "WHILE", "UNTIL"} ->
         T(node.type) \o T("OPEN_PAREN") \o TokensOf(node.arg0) \o T("CLOSE_PAREN") \o TokensOf(node.arg1)
           \o (IF node.arg2 = NULL THEN <<>> ELSE T("ELSE") \o TokensOf(node.arg2))
    [] OTHER -> <<node>>

Separators == {[type |-> "SEMICOLON"], [type |-> "COMMA"]}

-------------------------------------------------------------------------------
(* How tightly operators bind: the order of the table of OPERATORS.md, its *)
(* 3a and 3b set apart. Everything else is an operand.                     *)

Order(type) ==
  CASE type = "CALL" -> 1
    [] type = "NEGATE" -> 2
    [] type \in {"MULTIPLY", "INTEGER_DIVIDE"} -> 3
    [] type \in {"ADD", "SUBTRACT"} -> 4
    [] type \in ComparisonTypes -> 5
    [] type = "LOGICAL_NOT" -> 6
    [] type = "AND" -> 7
    [] type = "OR" -> 8
    [] type = "ASSIGN" -> 9
    [] type = "MUT" -> 10
    [] OTHER -> 0

Loosest == 10

Smaller(a, b) == IF a < b THEN a ELSE b

RECURSIVE Binds(_, _)

(* A tree in the place of an operand whose operators may be no looser than *)
(* loosest. All operators of one order associate to the left, "=" too. A   *)
(* prefix operator may be looser than the infix operator it stands to the  *)
(* right of, but not reach over it.                                        *)
Binds(node, loosest) ==
  LET order == Order(node.type)
  IN CASE node.type \in DOMAIN InfixTokens ->
            /\ order <= loosest
            /\ Binds(node.arg0, order)
            /\ node.arg0.type \in DOMAIN PrefixTokens => Order(node.arg0.type) <= order
            /\ Binds(node.arg1, order - 1)
       [] node.type \in DOMAIN PrefixTokens -> Binds(node.arg0, Smaller(order, loosest))
       [] node.type = "CALL" ->
            /\ node.arg0.type \notin DOMAIN PrefixTokens
            /\ Binds(node.arg0, order)
            /\ \A i \in DOMAIN node.arg1.items : Binds(node.arg1.items[i], Loosest)
       [] node.type = "PARENS" -> Binds(node.arg0, Loosest)
       [] OTHER -> TRUE

-------------------------------------------------------------------------------
(* Which sequences of tokens are programs, by the ways to take one apart.  *)
(* A form is "open" when it needs a semicolon behind it, "closed" when     *)
(* anything may follow, and "unclosed" when it ends in a branch without    *)
(* its semicolon: only the end, "}", ")" or else may follow.               *)

Types(tokens) == {[type |-> type] : type \in tokens}
PrefixOperators == Types({PrefixTokens[type] : type \in DOMAIN PrefixTokens})
InfixOperators == Types({InfixTokens[type] : type \in DOMAIN InfixTokens})

First(s, i) == SubSeq(s, 1, i)
Behind(s, i) == SubSeq(s, i + 1, Len(s))
Begins(s, type) == s # <<>> /\ s[1].type = type
Ends(s, type) == s # <<>> /\ s[Len(s)].type = type

RECURSIVE IsExpression(_, _), IsStatement(_, _), IsProgram(_), AreArguments(_)

IsOperand(s) == IsExpression(s, "open") \/ IsExpression(s, "closed")

IsAnyExpression(s) == IsOperand(s) \/ IsExpression(s, "unclosed")

(* What lies between the token at i and the last one.                      *)
Inside(s, i) == SubSeq(s, i + 1, Len(s) - 1)

IsOpenAtom(s) ==
  \/ Len(s) = 1 /\ s[1].type \in AtomTypes
  \/ Begins(s, "OPEN_PAREN") /\ Ends(s, "CLOSE_PAREN") /\ Len(s) > 1 /\ IsAnyExpression(Inside(s, 1))
  \/ /\ Ends(s, "CLOSE_PAREN")
     /\ \E i \in 2 .. Len(s) - 1 :
          s[i].type = "OPEN_PAREN" /\ IsOperand(First(s, i - 1)) /\ AreArguments(Inside(s, i))

(* A statement, or two with else between them.                             *)
AreBranches(s, kind) ==
  \/ IsStatement(s, kind)
  \/ \E i \in DOMAIN s :
       /\ s[i].type = "ELSE"
       /\ \E any \in {"closed", "unclosed"} : IsStatement(First(s, i - 1), any)
       /\ IsStatement(Behind(s, i), kind)

IsConditional(s, kind) ==
  /\ \E type \in {"IF", "WHILE", "UNTIL"} : Begins(s, type)
  /\ Begins(Tail(s), "OPEN_PAREN")
  /\ \E i \in DOMAIN s : /\ s[i].type = "CLOSE_PAREN"
                         /\ IsAnyExpression(SubSeq(s, 3, i - 1))
                         /\ AreBranches(Behind(s, i), kind)

IsExpression(s, kind) ==
  \/ kind = "open" /\ IsOpenAtom(s)
  \/ kind = "closed" /\ Begins(s, "OPEN_BRACE") /\ Ends(s, "CLOSE_BRACE") /\ IsProgram(Inside(s, 1))
  \/ kind # "open" /\ Begins(s, "LOOP") /\ IsStatement(Tail(s), kind)
  \/ kind # "open" /\ IsConditional(s, kind)
  \/ s # <<>> /\ s[1] \in PrefixOperators /\ IsExpression(Tail(s), kind)
  \/ \E i \in DOMAIN s :
       s[i] \in InfixOperators /\ IsOperand(First(s, i - 1)) /\ IsExpression(Behind(s, i), kind)

(* The arguments of a call. The commas between them may be left out, and   *)
(* there may be one behind the last.                                       *)
AreArguments(s) ==
  \/ s = <<>>
  \/ IsExpression(s, "unclosed")
  \/ \E i \in DOMAIN s : /\ IsOperand(First(s, i))
                         /\ \/ AreArguments(Behind(s, i))
                            \/ Begins(Behind(s, i), "COMMA") /\ AreArguments(Behind(s, i + 1))

(* What may follow break or continue: a depth, and for break a value.      *)
IsJumpTo(s) == s = <<>> \/ (Len(s) = 1 /\ s[1].type = "INTEGER_LITERAL")
IsJump(s) ==
  /\ Ends(s, "SEMICOLON")
  /\ \/ (Begins(s, "CONTINUE") \/ Begins(s, "BREAK")) /\ IsJumpTo(Inside(s, 1))
     \/ /\ Begins(s, "BREAK")
        /\ \E i \in 2 .. Len(s) :
             s[i].type = "WITH" /\ IsJumpTo(SubSeq(s, 2, i - 1)) /\ IsOperand(Inside(s, i))

IsStatement(s, kind) ==
  CASE kind = "closed" ->
         \/ IsExpression(s, "closed")
         \/ Ends(s, "SEMICOLON") /\ IsExpression(First(s, Len(s) - 1), "open")
         \/ IsJump(s)
    [] kind = "unclosed" -> IsExpression(s, "open") \/ IsExpression(s, "unclosed")

(* A line, or the inside of a block.                                       *)
IsProgram(s) ==
  \/ s = <<>>
  \/ IsStatement(s, "unclosed")
  \/ \E i \in DOMAIN s : IsStatement(First(s, i), "closed") /\ IsProgram(Behind(s, i))

===============================================================================
