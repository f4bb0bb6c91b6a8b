------------------------------- MODULE MCParsing -------------------------------
(***************************************************************************)
(* Lines for the parser: every short sequence of the tokens of an          *)
(* alphabet, for several alphabets, and chains of operators. MCLines keeps *)
(* clear of what stops the program; each of the sets at the end is a line  *)
(* that shows something it gets wrong, and the property that fails when    *)
(* Lines is that set.                                                      *)
(***************************************************************************)
EXTENDS Parsing

LOCAL INSTANCE SequencesExt

One == <<Num(1)>>
X == <<Sym("x")>>
Is(type) == <<Token(type)>>

Line(tokens) == [tokens |-> tokens, last |-> EOF]

(* Up to max of the pieces, one after another.                             *)
UpTo(pieces, max) ==
  UNION {{FlattenSeq(chosen) : chosen \in [1 .. n -> pieces]} : n \in 0 .. max}

Calls == UpTo({One, Is("PLUS"), Is("NOT"), Is("OPEN_PAREN"), Is("CLOSE_PAREN"), Is("COMMA")}, 5)

Blocks ==
  UpTo({One, Is("SEMICOLON"), Is("OPEN_BRACE"), Is("CLOSE_BRACE"), Is("LOOP"), Is("MINUS"), Is("EQUALS")}, 4)

Jumps == UpTo({One, Is("SEMICOLON"), Is("BREAK"), Is("WITH"), Is("CONTINUE"), Is("LOOP")}, 4)

Conditions ==
  UpTo({Is("IF") \o Is("OPEN_PAREN") \o One \o Is("CLOSE_PAREN"), One, Is("ELSE"), Is("SEMICOLON"),
        Is("OPEN_BRACE"), Is("CLOSE_BRACE")}, 4)

Statements == UpTo({One, Is("PLUS"), Is("SEMICOLON")}, 6)

Operator == {Is("PLUS"), Is("ASTERISK"), Is("LESS_THAN"), Is("AND"), Is("OR"), Is("EQUALS")}
Operand == {X, Is("MINUS") \o X, Is("NOT") \o X}

Chains ==
  {a \o f \o b \o g \o c : a, b, c \in Operand, f, g \in Operator}
    \cup {X \o f \o b \o g \o X \o h \o X : b \in Operand, f, g, h \in Operator}

MCLines ==
  {Line(tokens) : tokens \in Calls \cup Blocks \cup Jumps \cup Conditions \cup Statements \cup Chains}

-------------------------------------------------------------------------------
(* A "!" that is not followed by "=" is returned for ever: LinesAreRead.   *)
Bang == { [tokens |-> One, last |-> Token("ERROR")] }

(* A call with an error in its argument that is itself an argument:        *)
(* FailedCallsReturnNULL.                                                  *)
FailedArgument == { Line(X \o Is("OPEN_PAREN") \o X \o Is("OPEN_PAREN") \o One \o Is("PLUS")
                           \o Is("CLOSE_PAREN") \o Is("CLOSE_PAREN")) }

(* A condition that is not closed: LinesAreRead.                           *)
UnclosedCondition == { Line(Is("IF") \o Is("OPEN_PAREN") \o One) }

(* An operator without its right operand, and a statement with an error:   *)
(* EveryErrorIsReported.                                                   *)
SwallowedSemicolon == { Line(One \o Is("PLUS") \o Is("SEMICOLON") \o One \o One \o Is("SEMICOLON")) }

(* One assignment as the value of another: it is a tree that binds to the  *)
(* left in OPERATORS.md and to the right in the parser:                    *)
(* OperatorsBindAsDocumented.                                              *)
TwoAssignments == { Line(X \o Is("EQUALS") \o X \o Is("EQUALS") \o One) }

(* A condition without a branch: it is read as a tree with the end of the  *)
(* line in it, without an error.                                           *)
MissingBranch == { Line(Is("IF") \o Is("OPEN_PAREN") \o One \o Is("CLOSE_PAREN")) }
===============================================================================
