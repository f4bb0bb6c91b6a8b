------------------------------- MODULE MCSession -------------------------------
(***************************************************************************)
(* Sessions of a few typed lines, each with the statements it is meant     *)
(* for. The texts hold names that begin like keywords, operators of every  *)
(* precedence, errors in tokens and in statements, and several statements. *)
(***************************************************************************)
EXTENDS Session

S == INSTANCE Semantics
MCMeaningOf(trees, env, fuel) == S!EvalLine(trees, env, fuel)

Typed(text, meant) == [text |-> text, statements |-> meant]
Wrong(text) == Typed(text, Nothing)

Plus(a, b) == BinaryNode("ADD", a, b)
Times(a, b) == BinaryNode("MULTIPLY", a, b)
Less(a, b) == BinaryNode("LESS_THAN", a, b)
Equal(a, b) == BinaryNode("EQUAL", a, b)
And(a, b) == BinaryNode("AND", a, b)
Or(a, b) == BinaryNode("OR", a, b)
Not(a) == UnaryNode("LOGICAL_NOT", a)

Declarations ==
  { Typed("iffy=1", << Assign("iffy", Num(1)) >>),
    Typed("mut n1 = 10; trues = n1 + 2", << Mut("n1", Num(10)), Assign("trues", Plus(Sym("n1"), Num(2))) >>),
    Typed("notx = not false and 1 < 2 < 3;",
          << Assign("notx", And(Not(Bool(FALSE)), Less(Less(Num(1), Num(2)), Num(3)))) >>) }

Uses ==
  { Typed("2 * 3 + 4 * -5 - 6 // -7",
          << BinaryNode("SUBTRACT", Plus(Times(Num(2), Num(3)), Times(Num(4), UnaryNode("NEGATE", Num(5)))),
                        BinaryNode("INTEGER_DIVIDE", Num(6), UnaryNode("NEGATE", Num(7)))) >>),
    Typed("n1 = n1 * 2; n1", << Assign("n1", Times(Sym("n1"), Num(2))), Sym("n1") >>),
    Typed("{ iffy2 = 3; iffy2 == 3 or 1 // 0 == 1 }",
          << Block(<< Assign("iffy2", Num(3)),
                      Or(Equal(Sym("iffy2"), Num(3)),
                         Equal(BinaryNode("INTEGER_DIVIDE", Num(1), Num(0)), Num(1))) >>) >>),
    Typed("if(Bool(iffy)) 'yes'utf8; else \"no\"",
          << IfElse(Call("Bool", << Sym("iffy") >>), Str("yes"), Str("no")) >>),
    Typed("\t\t ", <<>>) }

Jumps ==
  { Typed("loop{n1=n1-1;if(n1<5)break with n1;}",
          << Loop(Block(<< Assign("n1", BinaryNode("SUBTRACT", Sym("n1"), Num(1))),
                           If(Less(Sym("n1"), Num(5)), BreakWith(Sym("n1"))) >>)) >>),
    Typed("mut i = 0; loop { i = i + 1; loop { if(i == 2) break 2 with i; continue 2; } }",
          << Mut("i", Num(0)),
             Loop(Block(<< Assign("i", Plus(Sym("i"), Num(1))),
                           Loop(Block(<< If(Equal(Sym("i"), Num(2)), BreakOut(2, Sym("i"))),
                                         UnaryNode("CONTINUE", Num(2)) >>)) >>)) >>) }

Errors ==
  { Wrong("a = 1; a 2; a = 3"),
    Wrong("b = 'open"),
    Wrong("c = 1; { c = @; c } c"),
    Typed("1 // 0", << BinaryNode("INTEGER_DIVIDE", Num(1), Num(0)) >>) }

MCTexts == Declarations \cup Uses \cup Jumps \cup Errors

-------------------------------------------------------------------------------
(* A string whose encoding is cut short: ShowsTheMeaning.                  *)
ShortSuffix == { Typed("'abcdef'u", << Str("abcdef") >>) }
===============================================================================
