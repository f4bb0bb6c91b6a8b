---------------------------- MODULE MCCompilerFlow ----------------------------
(***************************************************************************)
(* Every line of a small grammar, after an opening line that declares      *)
(* nothing, an immutable or a mutable variable. Left out, as known to go   *)
(* wrong: loops that end by their condition, blocks with no statement,     *)
(* declarations below an operator, and a loop behind a break of the loop   *)
(* it is in. BreakBeforeLoop, at the end, is the last of these; PathsAgree *)
(* fails when Programs is that set.                                        *)
(***************************************************************************)
EXTENDS CompilerFlow

Atoms == { Num(1), Bool(TRUE), Sym("x") }

Compounds ==
  { BinaryNode(type, a, b) : type \in {"ADD", "AND", "LESS_THAN"}, a, b \in Atoms }
  \cup { UnaryNode("LOGICAL_NOT", a) : a \in Atoms }
  \cup { BinaryNode("EQUAL", BinaryNode("LESS_THAN", a, Num(1)), b) : a, b \in Atoms }
  \cup { Call("Int", << a >>) : a \in Atoms }

Simple == Atoms \cup { BinaryNode("OR", Sym("x"), Bool(TRUE)),
                       BinaryNode("EQUAL", BinaryNode("LESS_THAN", Num(1), Num(1)), Sym("x")) }

(* Statements that change which symbols there are.                         *)
Binders == { Assign(name, a) : name \in {"x", "t"}, a \in Atoms }
           \cup { Mut(name, a) : name \in {"x", "t"}, a \in {Num(1)} }

Blocks == { Block(<< b, a >>) : b \in Binders, a \in Atoms \cup {Sym("t")} }
Branches == Atoms \cup Binders \cup { Block(<< Assign("t", Num(1)), Sym("t") >>) }

Conditionals ==
  { IfElse(c, a, b) : c \in Simple, a, b \in Branches } \cup { If(c, a) : c \in Simple, a \in Branches }

Jumps == { Break, BreakWith(Sym("x")), Continue }
OuterJumps == { BreakOut(2, NULL), BreakOut(2, Num(1)), UnaryNode("CONTINUE", Num(2)) }

LoopBodies ==
  { Block(<< b, If(c, j), a >>) : b \in Branches, c \in Atoms, j \in Jumps, a \in {Num(1), Break} }

LoopStatements ==
  { Loop(body) : body \in LoopBodies }
  \cup { Loop(Block(<< b, Loop(Block(<< Assign("u", Num(2)), If(Sym("x"), j), k >>)), a >>)) :
           b \in Branches, j, k \in Jumps \cup OuterJumps, a \in {Num(1), Break} }

Statements == Atoms \cup Compounds \cup Binders \cup Blocks \cup Conditionals \cup LoopStatements

MCOpenings == { <<>>, << Assign("x", Num(1)) >>, << Mut("x", Bool(TRUE)) >> }

MCPrograms ==
  { << s >> : s \in Statements }
  \cup { << b, s >> : b \in Binders, s \in Blocks }
  \cup { << b, SyntaxError, s >> : b \in Binders, s \in Blocks }
  \cup { << s, Sym("x") >> : s \in LoopStatements }
-------------------------------------------------------------------------------
(* A break, and behind it a loop inside of the same loop.                  *)
BreakBeforeLoop ==
  { << Loop(Block(<< If(Sym("x"), Break), Loop(Break), Num(1) >>)) >> }
===============================================================================
