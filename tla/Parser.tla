-------------------------------- MODULE Parser --------------------------------
(***************************************************************************)
(* The parser (src/src/parser.c): a recursive descent into statements and  *)
(* blocks, and precedence climbing within expressions. One operator per C  *)
(* function, from a parser to the parser it leaves:                        *)
(*   stream   the tokens that are left                                     *)
(*   panic    the flag: an error was found and nobody has recovered yet    *)
(*   errors   how many times printError was called                         *)
(*   node     what the function returned, NULL or a tree                   *)
(*   stop     the assertion that failed, or the loop that never ends;      *)
(*            nothing happens after it                                     *)
(* The tokens of atoms are the atoms themselves: AtomNode_new copies type  *)
(* and text of the token. Every other token is its type.                   *)
(***************************************************************************)
EXTENDS TokenStreamOps, Syntax

NotStopped == "none"

Token(type) == [type |-> type]

EOF == Token("EOF")

Parser_init == [stream |-> Stream(<<>>, EOF), panic |-> FALSE, errors |-> 0, node |-> NULL, stop |-> NotStopped]

Peek(p) == Upcoming(p.stream)
Scan(p) == [p EXCEPT !.stream = Rest(@)]
Return(p, node) == [p EXCEPT !.node = node]

(* printError, self->panic = true and return NULL.                         *)
Complain(p) == [p EXCEPT !.panic = TRUE, !.errors = @ + 1, !.node = NULL]

Stop(p, why) == [p EXCEPT !.stop = why]

(* What a function does after a call, unless the program stopped in it:    *)
(* whatever came of the call ...                                           *)
Always(p, GoOn(_)) == IF p.stop # NotStopped THEN p ELSE GoOn(p)

(* ... or once it has checked self->panic and returned NULL if it is set.  *)
Unless(p, GoOn(_)) ==
  IF p.stop # NotStopped THEN p ELSE IF p.panic THEN Return(p, NULL) ELSE GoOn(p)

(* The same where the code asserts that a call that panics returned NULL.  *)
Checked(p, GoOn(_)) ==
  IF p.stop = NotStopped /\ p.panic /\ p.node # NULL THEN Stop(p, "assert(next == NULL)")
  ELSE Unless(p, GoOn)

(* The next token is consumed if it is of the type, or it is an error.     *)
Expect(p, type, GoOn(_)) ==
  IF Peek(p).type = type THEN GoOn(Scan(p)) ELSE Complain(p)

-------------------------------------------------------------------------------
(* Recovery and the next line.                                             *)

RECURSIVE SkipStatement(_), SkipLine(_)

(* Mutant: only the end of the line stops it.                              *)
SkipLine(p) == IF Peek(p) = EOF THEN p ELSE SkipLine(Scan(p))

(* Skip what is left of the statement. A token that is never consumed      *)
(* keeps it here for ever.                                                 *)
SkipStatement(p) ==
  CASE Peek(p).type = "SEMICOLON" -> Scan(p)
    [] Peek(p).type \in {"CLOSE_BRACE", "EOF"} -> p
    [] Peek(p).type \notin {"SEMICOLON", "CLOSE_BRACE", "EOF"} ->
         IF p.stream = Rest(p.stream) THEN Stop(p, "clearPanic never returns")
         ELSE SkipStatement(Scan(p))

(* Mutant: the panic stays.                                                *)
Parser_clearPanicNot(p) == SkipStatement(p)

Parser_clearPanic(p) == SkipStatement([p EXCEPT !.panic = FALSE])

Parser_appendLine(p, tokens, last) ==
  IF Peek(p) # EOF THEN Stop(p, "peek == TOKEN_EOF") ELSE [p EXCEPT !.stream = Stream(tokens, last)]

-------------------------------------------------------------------------------
(* Precedences, by their numbers in enum Precedence.                       *)

PREC_NONE == 0
PREC_ANY == 1

(* Right and left binding of the infix operators.                          *)
InfixRight(type) ==
  CASE type = "EQUALS" -> 4
    [] type = "OR" -> 5
    [] type = "AND" -> 7
    [] type \in {"LESS_THAN", "LESS_THAN_EQUALS", "GREATER_THAN", "GREATER_THAN_EQUALS",
                 "EQUALS_EQUALS", "BANG_EQUALS"} -> 10
    [] type \in {"PLUS", "MINUS"} -> 12
    [] type \in {"ASTERISK", "SLASH_SLASH"} -> 14
    [] OTHER -> PREC_NONE

(* Mutant: the two bindings of the comparisons are exchanged.              *)
InfixLeftExchanged(type) ==
  CASE type = "EQUALS" -> 3
    [] InfixRight(type) \in {PREC_NONE, 10} -> InfixRight(type)
    [] OTHER -> InfixRight(type) + 1

InfixLeft(type) ==
  IF type = "EQUALS" THEN 3
  ELSE IF InfixRight(type) = PREC_NONE THEN PREC_NONE ELSE InfixRight(type) + 1

PrefixPrecedence(type) ==
  CASE type = "MUT" -> 2 [] type = "NOT" -> 9 [] type = "MINUS" -> 16 [] OTHER -> PREC_NONE

PostfixPrecedence(type) == IF type = "OPEN_PAREN" THEN 17 ELSE PREC_NONE

Precedence_max(a, b) == IF a > b THEN a ELSE b

mapInfix(type) ==
  CASE type = "EQUALS" -> "ASSIGN"
    [] type = "PLUS" -> "ADD"
    [] type = "MINUS" -> "SUBTRACT"
    [] type = "ASTERISK" -> "MULTIPLY"
    [] type = "SLASH_SLASH" -> "INTEGER_DIVIDE"
    [] type = "LESS_THAN_EQUALS" -> "LESS_THAN_EQUAL"
    [] type = "GREATER_THAN_EQUALS" -> "GREATER_THAN_EQUAL"
    [] type = "EQUALS_EQUALS" -> "EQUAL"
    [] type = "BANG_EQUALS" -> "NOT_EQUAL"
    [] OTHER -> type

mapPrefix(type) ==
  CASE type = "MINUS" -> "NEGATE" [] type = "NOT" -> "LOGICAL_NOT" [] type = "MUT" -> "MUT"

-------------------------------------------------------------------------------
RECURSIVE Parser_parseExprWithPrec(_, _), Parser_parseStatement(_)

Parser_parseExpression(p) == Parser_parseExprWithPrec(p, PREC_ANY)

(* if, while and until: a condition in parentheses, a statement and        *)
(* perhaps one more. The error of a missing ")" is printed with a 1 where  *)
(* its format has %s, which ends the program.                              *)
Parser_parseCondJumpExpr(p, nodeType) ==
  LET Else(q, condition, branch) ==
        IF Peek(q).type # "ELSE" THEN Return(q, TernaryNode(nodeType, condition, branch, NULL))
        ELSE Checked(Parser_parseStatement(Scan(q)),
                     LAMBDA r : Return(r, TernaryNode(nodeType, condition, branch, r.node)))
      Branch(q, condition) ==
        Checked(Parser_parseStatement(q), LAMBDA r : Else(r, condition, r.node))
      Condition(q) ==
        Checked(Parser_parseExpression(q),
                LAMBDA r : IF Peek(r).type = "CLOSE_PAREN" THEN Branch(Scan(r), r.node)
                           ELSE Stop(r, "printError reads 1 as a string"))
  IN Expect(Scan(p), "OPEN_PAREN", Condition)

(* Mutant: the errors of a block are forgotten.                            *)
CloseBlockCalmly(p, items, panicked) == Return(Scan(p), ListNode("BLOCK", items))

(* An error of a statement becomes an error of the block at its end.       *)
CloseBlock(p, items, panicked) ==
  IF panicked THEN Return([Scan(p) EXCEPT !.panic = TRUE], NULL)
  ELSE Return(Scan(p), ListNode("BLOCK", items))

RECURSIVE ParseBlock(_, _, _)

(* The statements of a block up to its brace. An error in one of them is   *)
(* recovered from, so that the others are looked at too.                   *)
ParseBlock(p, items, panicked) ==
  LET Statement(q) ==
        IF q.panic /\ q.node # NULL THEN Stop(q, "assert(next == NULL)")
        ELSE IF q.panic THEN Always(Parser_clearPanic(q), LAMBDA r : ParseBlock(r, items, TRUE))
        ELSE ParseBlock(q, IF panicked THEN items ELSE Append(items, q.node), panicked)
  IN CASE Peek(p).type = "CLOSE_BRACE" -> CloseBlock(p, items, panicked)
       [] Peek(p).type = "EOF" -> Complain(p)
       [] Peek(p).type \notin {"CLOSE_BRACE", "EOF"} -> Always(Parser_parseStatement(p), Statement)

(* The loop returns the end of the line as its body if nothing follows.    *)
ParseLoop(p) ==
  Unless(Parser_parseStatement(Scan(p)), LAMBDA q : Return(q, UnaryNode("LOOP", q.node)))

Parser_parseAtom(p) ==
  LET type == Peek(p).type IN
    CASE type \in AtomTypes -> Return(Scan(p), Peek(p))
      [] type = "CLOSE_PAREN" -> Complain(p)
      [] type = "OPEN_BRACE" -> ParseBlock(Scan(p), <<>>, FALSE)
      [] type = "LOOP" -> ParseLoop(p)
      [] type \in {"IF", "WHILE", "UNTIL"} -> Parser_parseCondJumpExpr(p, type)
      [] OTHER -> Complain(Scan(p))

(* The panic is left to the caller: a ")" behind the error is consumed.    *)
Parser_parseOutfix(p) ==
  IF Peek(p).type # "OPEN_PAREN" THEN Parser_parseAtom(p)
  ELSE Always(Parser_parseExpression(Scan(p)),
             LAMBDA q : Expect(q, "CLOSE_PAREN", LAMBDA r : Return(r, UnaryNode("PARENS", q.node))))

Parser_parsePrefix(p, minPrecedence) ==
  LET token == Peek(p) IN
    IF PrefixPrecedence(token.type) = PREC_NONE THEN Parser_parseOutfix(p)
    ELSE Unless(Parser_parseExprWithPrec(Scan(p), Precedence_max(PrefixPrecedence(token.type), minPrecedence)),
                LAMBDA q : Return(q, UnaryNode(mapPrefix(token.type), q.node)))

RECURSIVE ParseArguments(_, _)

(* A comma between two arguments is skipped if it is there.                *)
ParseArguments(p, items) ==
  LET next == IF items # <<>> /\ Peek(p).type = "COMMA" THEN Scan(p) ELSE p IN
    IF Peek(next).type = "CLOSE_PAREN" THEN Return(next, ListNode("COMMA_SEPARATED", items))
    ELSE Checked(Parser_parseExpression(next), LAMBDA q : ParseArguments(q, Append(items, q.node)))

Parser_parseList(p) == ParseArguments(p, <<>>)

RECURSIVE ParseOperators(_, _)

(* The operators that follow an operand, as long as they bind to it. A     *)
(* call whose list panicked goes on if its ")" is there.                   *)
ParseOperators(p, minPrecedence) ==
  LET operator == Peek(p).type
      Infix(q) == ParseOperators(Return(q, BinaryNode(mapInfix(operator), p.node, q.node)), minPrecedence)
      Arguments(q) == Expect(q, "CLOSE_PAREN",
                   LAMBDA r : ParseOperators(Return(r, BinaryNode("CALL", p.node, q.node)), minPrecedence))
  IN IF InfixRight(operator) >= minPrecedence
     THEN Unless(Parser_parseExprWithPrec(Scan(p), InfixLeft(operator)), Infix)
     ELSE IF PostfixPrecedence(operator) >= minPrecedence
     THEN Always(Parser_parseList(Scan(p)), Arguments)
     ELSE p

Parser_parseExprWithPrec(p, minPrecedence) ==
  Unless(Parser_parsePrefix(p, minPrecedence), LAMBDA q : ParseOperators(q, minPrecedence))

-------------------------------------------------------------------------------
RECURSIVE Node_requiresSemicolon(_)

(* A statement ends without one when its last operand does.                *)
Node_requiresSemicolon(node) ==
  CASE node.type \in {"BLOCK", "LOOP", "IF", "UNTIL", "WHILE"} -> FALSE
    [] node.type \in AtomTypes \cup {"PARENS", "CALL"} -> TRUE
    [] node.type \in {"NEGATE", "LOGICAL_NOT", "MUT"} -> Node_requiresSemicolon(node.arg0)
    [] OTHER -> Node_requiresSemicolon(node.arg1)

(* The depth a continue or break may name.                                 *)
ParseDepth(p, GoOn(_, _)) ==
  IF Peek(p).type = "INTEGER_LITERAL" THEN GoOn(Scan(p), Peek(p)) ELSE GoOn(p, NULL)

(* Mutant: the depth is read and forgotten.                                *)
Parser_parseContinueStmtNearest(p) ==
  ParseDepth(Scan(p), LAMBDA q, depth :
    Expect(q, "SEMICOLON", LAMBDA r : Return(r, UnaryNode("CONTINUE", NULL))))

Parser_parseContinueStmt(p) ==
  ParseDepth(Scan(p), LAMBDA q, depth :
    Expect(q, "SEMICOLON", LAMBDA r : Return(r, UnaryNode("CONTINUE", depth))))

(* A panic in the value is not looked at.                                  *)
Parser_parseBreakStmt(p) ==
  LET End(q, depth, value) == Expect(q, "SEMICOLON", LAMBDA r : Return(r, BinaryNode("BREAK", depth, value)))
  IN ParseDepth(Scan(p), LAMBDA q, depth :
       IF Peek(q).type = "WITH"
       THEN Always(Parser_parseExpression(Scan(q)), LAMBDA r : End(r, depth, r.node))
       ELSE End(q, depth, NULL))

(* Mutant: else does not end a statement.                                  *)
EndStatementNotAtElse(p) ==
  IF ~ Node_requiresSemicolon(p.node) THEN p
  ELSE CASE Peek(p).type = "SEMICOLON" -> Scan(p)
         [] Peek(p).type \in {"CLOSE_BRACE", "EOF", "CLOSE_PAREN"} -> p
         [] OTHER -> Complain(p)

(* The semicolon of a statement, which may be missing where a block, a     *)
(* branch or the line ends.                                                *)
EndStatement(p) ==
  IF ~ Node_requiresSemicolon(p.node) THEN p
  ELSE CASE Peek(p).type = "SEMICOLON" -> Scan(p)
         [] Peek(p).type \in {"CLOSE_BRACE", "ELSE", "EOF", "CLOSE_PAREN"} -> p
         [] OTHER -> Complain(p)

Parser_parseStatement(p) ==
  CASE Peek(p).type = "EOF" -> Return(p, EndOfFile)
    [] Peek(p).type = "CONTINUE" -> Parser_parseContinueStmt(p)
    [] Peek(p).type = "BREAK" -> Parser_parseBreakStmt(p)
    [] OTHER -> Unless(Parser_parseExpression(p), EndStatement)

(* The call in Compiler_compile, and its assertion.                        *)
NextStatement(p) ==
  LET q == Parser_parseStatement(p)
  IN IF q.stop = NotStopped /\ ~ q.panic /\ q.node = NULL THEN Stop(q, "assert(statement != NULL)") ELSE q

===============================================================================
