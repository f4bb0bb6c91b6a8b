----------------------------- MODULE CompilerFlow -----------------------------
(***************************************************************************)
(* The compiler on its own, and what its code does on every path: a line   *)
(* is compiled, and instead of running it all its paths are followed at    *)
(* once, a conditional jump going both ways and a value being no more than *)
(* a place on the stack. A frame is where such a path stands: the next     *)
(* byte, how many values are on the stack, and how many of them lie below  *)
(* each open scope.                                                        *)
(***************************************************************************)
EXTENDS Compiler, Thread

CONSTANTS
  Openings,   \* the first lines of a session
  Programs,   \* the lines compiled after one of them
  MaxDepth    \* bound: values on the stack of a path, and scopes open in it

ASSUME DepthAssumption == MaxDepth \in Nat

VARIABLES
  compiler,   \* the Compiler and the ByteCode it emits into
  entry       \* the frame in which the last line starts to run

vars == <<compiler, entry>>

Frame(pc, depth, marks) == [pc |-> pc, depth |-> depth, marks |-> marks]
Entry(c) == Frame(ByteCode_count(c.code), Len(c.symbols.items), <<>>)

Init ==
  /\ compiler = Compiler_init
  /\ entry = Entry(Compiler_init)

CompileLine ==
  /\ compiler.line < 2
  /\ \E statements \in IF compiler.line = 0 THEN Openings ELSE Programs :
       compiler' = Compile(compiler, statements)
  /\ entry' = Entry(compiler)

Next == CompileLine

Spec == Init /\ [][Next]_vars

-------------------------------------------------------------------------------
(* What an instruction does to a frame.                                    *)

Byte(frame) == ByteAt(compiler.code, frame.pc)
IsOpcode(frame) == Byte(frame) < Len(Instructions)
OpOf(frame) == Instructions[Byte(frame) + 1]
Operand16(frame) == UInt16At(compiler.code, frame.pc + 1)
Target(frame) == (frame.pc + 1) + Int16At(compiler.code, frame.pc + 1)
OpPops(frame) == Pops([pc |-> frame.pc], compiler.code, OpOf(frame))

(* How many values an instruction pushes once it has popped its operands.  *)
Pushes(op) ==
  CASE op \in {"JUMP", "JUMP_TRUE", "JUMP_FALSE", "DROP"} -> 0
    [] op = "DUP" -> 2
    [] op = "ROT3" -> 3
    [] op = "SET" -> -1
    [] OTHER -> 1

Inside(frame) == frame.pc \in entry.pc .. ByteCode_count(compiler.code) - 1

Innermost(frame) == IF frame.marks = <<>> THEN entry.depth ELSE frame.marks[Len(frame.marks)]

Following(frame) ==
  LET op == OpOf(frame)
      depth == (frame.depth - OpPops(frame)) + Pushes(op)
      next == frame.pc + Width(op)
  IN CASE op = "RETURN" -> {}
       [] op = "JUMP" -> {Frame(Target(frame), depth, frame.marks)}
       [] op \in {"JUMP_TRUE", "JUMP_FALSE"} ->
            {Frame(pc, depth, frame.marks) : pc \in {next, Target(frame)}}
       [] op = "SCOPE_OPEN" -> {Frame(next, frame.depth, Append(frame.marks, frame.depth))}
       [] op = "SCOPE_CLOSE" ->
            {Frame(next, Innermost(frame) + 1, SubSeq(frame.marks, 1, Len(frame.marks) - 1))}
       [] OTHER -> {Frame(next, depth, frame.marks)}

(* Whether an instruction finds what it needs: its operands in the scope   *)
(* it is in, the variable it names, a scope to close and its value.        *)
CanExecute(frame) ==
  LET op == OpOf(frame)
  IN /\ frame.depth - OpPops(frame) >= Innermost(frame)
     /\ op \in {"GET", "SET"} => Operand16(frame) < frame.depth
     /\ op = "SCOPE_CLOSE" => frame.marks # <<>> /\ frame.depth > Innermost(frame)

Successors(frame) ==
  IF ~ Inside(frame) \/ frame.depth > MaxDepth \/ Len(frame.marks) > MaxDepth THEN {}
  ELSE IF ~ IsOpcode(frame) THEN {Frame(frame.pc + 1, frame.depth, frame.marks)}
  ELSE IF CanExecute(frame) THEN Following(frame) ELSE {}

RECURSIVE ReachedFrom(_, _)
ReachedFrom(frontier, seen) ==
  IF frontier = {} THEN seen
  ELSE LET next == UNION {Successors(frame) : frame \in frontier}
       IN ReachedFrom(next \ (seen \cup frontier), seen \cup frontier)

(* The frames of the last line's paths, when it compiled.                  *)
Frames ==
  IF compiler.line = 0 \/ compiler.hasErrors \/ compiler.fault # NoAbort THEN {}
  ELSE ReachedFrom({entry}, {})

-------------------------------------------------------------------------------
(* However control gets to an instruction, the stack has the same height   *)
(* and the same scopes open: both branches of an if, both ends of a chain  *)
(* of comparisons, every round of a loop and every break out of it.        *)
PathsAgree == LET frames == Frames IN \A f, g \in frames : f.pc = g.pc => f = g

(* On every path each instruction finds its operands in the scope that     *)
(* pushed them, the variable it names on the stack, and a scope to close.  *)
OperandsAreThere ==
  \A frame \in Frames : Inside(frame) /\ IsOpcode(frame) => CanExecute(frame)

(* No assertion of the compiler fails, no path leaves the code of the      *)
(* line, and those that end do so with the result on top of exactly the    *)
(* variables the compiler has symbols for, and no scope open.              *)
PathsReturnOneValue ==
  /\ compiler.fault = NoAbort
  /\ \A frame \in Frames :
       /\ Inside(frame)
       /\ IsOpcode(frame) /\ OpOf(frame) = "RETURN" =>
            frame.marks = <<>> /\ frame.depth = Len(compiler.symbols.items) + 1

===============================================================================
