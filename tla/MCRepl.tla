-------------------------------- MODULE MCRepl --------------------------------
(***************************************************************************)
(* Sessions of a few lines. MCPrograms covers every kind of statement;     *)
(* each of the sets behind it holds the lines of one session that shows    *)
(* what the program gets wrong, and MCPrograms keeps clear of: with it for *)
(* Programs, the property named there fails when it is checked alone.      *)
(***************************************************************************)
EXTENDS Repl

S == INSTANCE Semantics
MCMeaningOf(trees, env, fuel) == S!EvalLine(trees, env, fuel)

LOCAL INSTANCE SequencesExt

Plus(a, b) == BinaryNode("ADD", a, b)
Less(a, b) == BinaryNode("LESS_THAN", a, b)
Equal(a, b) == BinaryNode("EQUAL", a, b)
Divide(a, b) == BinaryNode("INTEGER_DIVIDE", a, b)
Not(a) == UnaryNode("LOGICAL_NOT", a)
And(a, b) == BinaryNode("AND", a, b)
Or(a, b) == BinaryNode("OR", a, b)

Declarations ==
  { << Assign("x", Num(1)) >>,
    << Mut("y", Num(0)), Assign("z", Sym("y")) >>,
    << Assign("x", Block(<< Assign("w", Num(2)), Plus(Sym("w"), Sym("w")) >>)) >> }

Updates ==
  { << Assign("y", Plus(Sym("y"), Num(1))) >>,
    << Assign("x", Sym("y")), Sym("x") >>,
    << Block(<< Assign("y", Num(7)), Mut("u", Sym("y")), Assign("u", Divide(Sym("u"), Num(2))), Sym("u") >>) >> }

Expressions ==
  { <<>>,
    << Sym("x") >>,
    << Less(Less(Num(1), Num(2)), Num(3)) >>,
    << Less(Less(Num(2), Num(1)), Divide(Num(1), Num(0))) >>,
    << And(Bool(TRUE), Or(Bool(FALSE), Not(Bool(FALSE)))) >>,
    << Equal(Not(Bool(TRUE)), Bool(FALSE)), Equal(Equal(Bool(FALSE), Bool(TRUE)), Bool(FALSE)) >>,
    << Str("a"), Call("Int", << Equal(Nil, Nil) >>) >>,
    << IfElse(Call("Bool", << Sym("x") >>), Num(1), Block(<< Assign("v", Num(2)), Sym("v") >>)) >> }

Loops ==
  { << Loop(Block(<< Assign("y", Plus(Sym("y"), Num(1))),
                     If(Less(Num(1), Sym("y")), BreakWith(Sym("y"))) >>)) >>,
    << Loop(Loop(Block(<< Assign("t", Num(3)), BreakOut(2, Sym("t")) >>))) >>,
    << Mut("n", Num(0)),
       While(Bool(TRUE), Block(<< Assign("n", Plus(Sym("n"), Num(1))),
                                  If(Equal(Sym("n"), Num(1)), Continue), Break >>)),
       Sym("n") >>,
    << TernaryNode("UNTIL", Less(Num(2), Num(1)), Block(<< Assign("t", Num(4)), BreakWith(Sym("t")) >>), Nil) >> }

Errors ==
  { << Assign("x", Num(1)), Sym("q") >>,
    << Num(1), SyntaxError, Block(<< Assign("q", Num(2)), Sym("q") >>) >>,
    << Divide(Num(1), Num(0)) >>,
    << Num(1), Mut("x", Num(3)), Mut("x", Num(4)) >>,
    << Loop(BreakOut(2, Num(1))), Sym("q") >>,
    << UnaryNode("NEGATE", Bool(TRUE)) >> }

MCPrograms == Declarations \cup Updates \cup Expressions \cup Loops \cup Errors

-------------------------------------------------------------------------------
(* A loop that ends by its condition: ScopesBalance. *)
WhileExits == { << While(Bool(FALSE), Num(1)) >> }

(* A declaration that panics, and then a use of the variable:              *)
(* IndexesAreOnTheStack.                                                   *)
PanickingDeclaration == { << Assign("x", Divide(Num(1), Num(0))) >>, << Sym("x") >> }

(* A block with no statement: NeverAborts. *)
EmptyBlock == { << Block(<<>>) >> }

(* Enough lines of ten bytes to outgrow the first 256: ShowsTheMeaning.    *)
ManyLines == { << And(Bool(FALSE), Bool(TRUE)) >> }

(* A loop of 226 bytes that is left by a break: 214 of statements that do  *)
(* nothing, 12 for the scopes, the break and the jump back. A sum of n     *)
(* literals is 6 n - 1 bytes. NeverAborts fails.                           *)
Twice(a) == Plus(a, a)
SumOf32 == Twice(Twice(Twice(Twice(Twice(Num(1))))))

LongLoop ==
  { << Num(5) >>,
    << Loop(Block(<< Plus(SumOf32, Plus(Num(1), Twice(Num(1)))), Nil, Nil, Break >>)) >> }

(* A chain of comparisons whose last operand, a sum of 43 literals, is     *)
(* longer than 255 bytes: ShowsTheMeaning.                                 *)
SumOf43 == Plus(SumOf32, Plus(Twice(Twice(Twice(Num(1)))), Plus(Num(1), Twice(Num(1)))))

LongChain == { << Assign("x", Num(1)) >>, << Less(Less(Num(2), Num(1)), SumOf43) >> }

(* 257 comparisons, one more than the message allows: NeverAborts, with a  *)
(* MaxNesting of 257 and a stack of 16 MB for Java (-Xss16m).              *)
ManyComparisons == { << FoldLeft(Less, Num(1), [i \in 1 .. 257 |-> Num(1)]) >> }

(* A string literal, and an error behind it: the literal stays in blobs.   *)
LostLiterals == { << Str("a"), Sym("q") >> }
===============================================================================
