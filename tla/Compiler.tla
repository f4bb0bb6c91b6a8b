------------------------------- MODULE Compiler -------------------------------
(***************************************************************************)
(* The compiler (src/src/compiler.c): one operator per case of             *)
(* Compiler_emitNode, from a compilation to the compilation it leaves.     *)
(*                                                                         *)
(* A compilation is the Compiler struct, the ByteCode it emits into and    *)
(* the line being compiled:                                                *)
(*   symbols    the SymbolList       breaks   jumps no loop has patched    *)
(*   hasErrors  the flag             code     the ByteCode                 *)
(*   line       the line             fault    the first assertion to fail  *)
(* What is emitted after an assertion failed does not matter: it ended the *)
(* program. Symbols are interned, so one symbol is one name.               *)
(*                                                                         *)
(* What compiles a node is a function from compilations to compilations,   *)
(* its emitter; the cases of Compiler_emitNode are given those of the      *)
(* nodes below theirs.                                                     *)
(***************************************************************************)
EXTENDS ByteCodeOps, SymbolListOps, ValueOps, Syntax, FiniteSets

CONSTANT MaxNesting   \* bound: how deep the tree of a statement is nested

ASSUME NestingAssumption == MaxNesting \in Nat

NoAbort == "none"

(* What ends the program: the assertions of the compiler that a line can   *)
(* fail, and the overrun of the one array whose size it does not check.    *)
Assertions ==
  { "result <= INT32_MAX", "index <= UINT8_MAX", "scopeDepth < UINT8_MAX",
    "assignment to a symbol", "mut of an assignment", "shortCircuitStarts overrun",
    "0 < depth < 256", "i >= 0", "argumentNode->count < UINT8_MAX", "assert(false)" }

Compiler_init ==
  [ symbols |-> SymbolList_init, breaks |-> {}, hasErrors |-> FALSE,
    code |-> ByteCode_init, line |-> 0, fault |-> NoAbort ]

Compilations ==
  [ symbols : SymbolLists, breaks : SUBSET [depth : Int, index : Nat], hasErrors : BOOLEAN,
    code : ByteCodes, line : Nat, fault : {NoAbort} \cup Assertions ]

(* One emitter after the other, with the compilation each of them leaves.  *)
Stages(emitters, c) ==
  LET after[i \in 0 .. Len(emitters)] == IF i = 0 THEN c ELSE emitters[i][after[i - 1]]
  IN after

InTurn(emitters, c) == Stages(emitters, c)[Len(emitters)]

(* A failed assertion. *)
Abort(c, assertion) == IF c.fault = NoAbort THEN [c EXCEPT !.fault = assertion] ELSE c
Require(c, condition, assertion) == IF condition THEN c ELSE Abort(c, assertion)

Report(c) == [c EXCEPT !.hasErrors = TRUE]

-------------------------------------------------------------------------------
(* Emitting.                                                               *)

Count(c) == ByteCode_count(c.code)
EmitBytes(c, bytes) == [c EXCEPT !.code = AppendBytes(@, bytes, c.line)]
EmitOp(c, op) == EmitBytes(c, <<OP[op]>>)
EmitOps(c, ops) == InTurn([i \in DOMAIN ops |-> [d \in Compilations |-> EmitOp(d, ops[i])]], c)
EmitInt16(c, i) == EmitBytes(c, Int16Bytes(i))

(* An operand to fill in later: the address of the next byte, as the C     *)
(* code keeps it, and the write through it.                                *)
Here(c) == ByteCode_pc(c.code, Count(c))
Backpatch(c, pointer) ==
  [c EXCEPT !.code = PatchThrough(@, pointer, Count(c) - pointer.index)]

OpenScope(c, type) ==
  EmitOp(Require([c EXCEPT !.symbols = SymbolList_openScope(@, type, Count(c))],
                 Len(c.symbols.scopes) < MaxScopeDepth, "scopeDepth < UINT8_MAX"),
         "SCOPE_OPEN")

CloseScope(c) ==
  LET closed == EmitOp(c, "SCOPE_CLOSE")
  IN [closed EXCEPT !.symbols = SymbolList_closeScope(@)]

(* Compiler_emitBreak: remember the jump whose operand comes next.         *)
EmitBreak(c, breakDepth) ==
  [c EXCEPT !.breaks = @ \cup {[depth |-> breakDepth, index |-> Count(c)]}]

(* Mutant: a break out of several loops never gets nearer.                 *)
NearerInnermost(breaks) ==
  {IF b.depth = 1 THEN [b EXCEPT !.depth = 0] ELSE b : b \in breaks}

(* The end of a loop: every break is one loop nearer to where it goes, and *)
(* those that have arrived jump here.                                      *)
Nearer(breaks) == {[b EXCEPT !.depth = @ - 1] : b \in breaks}
Arrived(breaks) == {b \in Nearer(breaks) : b.depth = 0}

(* The operands at these indexes become the distances to a target.         *)
PatchAll(code, indexes, target) ==
  [code EXCEPT !.items = [k \in 1 .. Len(@) |->
     IF k - 1 \in indexes THEN Int16Bytes(target - (k - 1))[1]
     ELSE IF k - 2 \in indexes THEN Int16Bytes(target - (k - 2))[2]
     ELSE @[k]]]

PatchBreaks(c) ==
  LET indexes == {b.index : b \in Arrived(c.breaks)}
  IN [c EXCEPT !.code = PatchAll(@, indexes, Count(c)),
               !.breaks = Nearer(@) \ Arrived(@)]

(* The open scopes from which loopCount loops can be counted inwards:      *)
(* leaving that many loops closes every scope from the innermost to the    *)
(* last of these, or all of them when there are fewer loops.               *)
BreakableFrom(symbols, i) ==
  Cardinality({j \in i .. Len(symbols.scopes) : symbols.scopes[j].type = "BREAKABLE"})

LoopsLeft(symbols, loopCount) ==
  {i \in DOMAIN symbols.scopes : BreakableFrom(symbols, i) >= loopCount}

LastOf(positions) == CHOOSE i \in positions : \A j \in positions : j <= i

(* Mutant: only the scopes of the loops are closed.                        *)
ScopesClosedOfLoops(symbols, loopCount) == loopCount
ScopesClosed(symbols, loopCount) ==
  LET loops == LoopsLeft(symbols, loopCount)
  IN Len(symbols.scopes) - (IF loops = {} THEN 0 ELSE LastOf(loops) - 1)

EmitScopeCloses(c, loopCount) ==
  EmitOps(c, [i \in 1 .. ScopesClosed(c.symbols, loopCount) |-> "SCOPE_CLOSE"])

(* The loop whose scope a jump out of loopCount loops closes last.         *)
LoopLeft(symbols, loopCount) == symbols.scopes[LastOf(LoopsLeft(symbols, loopCount))]

-------------------------------------------------------------------------------
(* The cases of Compiler_emitNode.                                         *)

EmitAll(emit, c, nodes) == InTurn([i \in DOMAIN nodes |-> emit[nodes[i]]], c)

EmitInteger(c, node) ==
  EmitBytes(EmitOp(Require(c, node.integer # TooBig, "result <= INT32_MAX"), "INTEGER"),
            Int32Bytes(node.integer))

EmitUTF8(c, node) ==
  LET index == Len(c.code.blobs)
      stored == [c EXCEPT !.code = BlobList_append(@, node.text)]
  IN EmitBytes(EmitOp(Require(stored, index <= 255, "index <= UINT8_MAX"), "UTF8"), <<index % 256>>)

EmitBoolean(c, node) == EmitOp(c, IF node.boolean THEN "TRUE" ELSE "FALSE")

(* A GET or SET of the value at an index of the stack.                     *)
EmitIndexed(c, op, index) == EmitInt16(EmitOp(c, op), index)

EmitSymbol(c, node) ==
  LET index == SymbolList_find(c.symbols, node.symbol)
  IN IF index # NoSymbol THEN EmitIndexed(c, "GET", index)
     ELSE IF IsBuiltin(node.symbol) THEN EmitBytes(EmitOp(c, "BUILTIN"), <<Builtin_index(node.symbol)>>)
     ELSE Report(c)

(* Declaring a symbol leaves its value on the stack, at the index the      *)
(* symbol gets; the value of an assignment is nil.                         *)
Declare(c, symbol, isMutable) ==
  EmitOp([c EXCEPT !.symbols = SymbolList_append(@, symbol, c.line, isMutable)], "NIL")

EmitSet(c, index) == EmitOp(EmitIndexed(c, "SET", index), "NIL")

EmitAssign(emit, c, node) ==
  LET valued == Require(emit[node.arg1][c], node.arg0.type = "SYMBOL", "assignment to a symbol")
      index == SymbolList_find(valued.symbols, node.arg0.symbol)
  IN IF valued.fault # NoAbort THEN valued
     ELSE IF index = NoSymbol THEN Declare(valued, node.arg0.symbol, FALSE)
     ELSE IF SymbolList_isMutable(valued.symbols, index)
     THEN EmitSet(valued, index)
     ELSE Report(valued)

EmitMut(emit, c, node) ==
  LET assign == node.arg0
      valued == Require(emit[assign.arg1][c], assign.arg0.type = "SYMBOL", "assignment to a symbol")
  IN IF assign.type # "ASSIGN" THEN Abort(c, "mut of an assignment")
     ELSE IF valued.fault # NoAbort THEN valued
     ELSE IF SymbolList_find(valued.symbols, assign.arg0.symbol) = NoSymbol
     THEN Declare(valued, assign.arg0.symbol, TRUE)
     ELSE EmitOp(Report(valued), "NIL")

EmitUnaryNode(emit, c, op, node) == EmitOp(emit[node.arg0][c], op)
EmitBinaryNode(emit, c, op, node) == EmitOp(EmitAll(emit, c, <<node.arg0, node.arg1>>), op)

(* a < b < c is the tree (a < b) < c, compiled as one chain: every         *)
(* operand once, leaving for false at the first comparison that fails. The *)
(* chain is the comparisons of the tree, the innermost first; no tree has  *)
(* more than it is nested deep.                                            *)
Chain(node) ==
  LET found[i \in 0 .. MaxNesting] ==
        IF i = 0 THEN <<node>>
        ELSE LET above == found[i - 1]
             IN IF isComparison(above[1].arg0) THEN << above[1].arg0 >> \o above ELSE above
  IN found[MaxNesting]

(* Mutant: the operands are not put in order before comparing.             *)
EmitLinkUnrotated(emit, c, node, next) ==
  emit[next.arg1][EmitInt16(EmitOps(c, <<"DUP", node.type, "JUMP_FALSE">>), 0)]

(* One comparison of a chain and the operand of the next. A short circuit  *)
(* leaves with the operand that is still on the stack.                     *)
EmitLink(emit, c, node, next) ==
  emit[next.arg1][EmitInt16(EmitOps(c, <<"DUP", "ROT3", node.type, "JUMP_FALSE">>), 0)]

MaxShortCircuits == 255

(* Of these operands only the low bytes are written.                       *)
PatchLowBytes(code, indexes, target) ==
  [code EXCEPT !.items = [k \in 1 .. Len(@) |->
     IF k - 1 \in indexes THEN (target - (k - 1)) % 256 ELSE @[k]]]

EmitComparison(emit, c, node) ==
  LET chain == Chain(node)
      last == Len(chain)
      operands == EmitAll(emit, c, <<chain[1].arg0, chain[1].arg1>>)
      Link(i) == [d \in Compilations |-> EmitLink(emit, d, chain[i], chain[i + 1])]
      links == Stages([i \in 1 .. last - 1 |-> Link(i)], operands)
      shortCircuits == {Count(links[i]) + 4 : i \in 0 .. last - 2}
      joined == EmitInt16(EmitOps(links[last - 1], <<chain[last].type, "JUMP">>), 4)
      failed == EmitOps(joined, <<"DROP", "FALSE">>)
  IN IF last = 1 THEN EmitBinaryNode(emit, c, node.type, node)
     ELSE IF last - 1 > MaxShortCircuits THEN Abort(c, "shortCircuitStarts overrun")
     ELSE [failed EXCEPT !.code = PatchLowBytes(@, shortCircuits, Count(joined))]

(* and, or: unless the first operand settles the result, jump over it to   *)
(* the second.                                                             *)
EmitLogical(emit, c, node, jump, settled) ==
  LET tested == EmitOps(EmitInt16(EmitOp(emit[node.arg0][c], jump), 6), <<settled, "JUMP">>)
      shortCircuit == Here(tested)
  IN Backpatch(emit[node.arg1][EmitInt16(tested, 0)], shortCircuit)

EmitScoped(emit, c, type, node) == CloseScope(emit[node][OpenScope(c, type)])

EmitBlock(emit, c, node) ==
  LET Item(i) == [d \in Compilations |->
        IF i < Len(node.items) THEN EmitOp(emit[node.items[i]][d], "DROP") ELSE emit[node.items[i]][d]]
  IN CloseScope(InTurn([i \in DOMAIN node.items |-> Item(i)], OpenScope(c, "GENERIC")))

(* Breaks are patched before the operand of the jump back is emitted, and  *)
(* so to the address of that operand.                                      *)
EmitLoop(emit, c, node) ==
  LET body == EmitOps(EmitScoped(emit, c, "BREAKABLE", node.arg0), <<"DROP", "JUMP">>)
  IN EmitInt16(PatchBreaks(body), Count(c) - Count(body))

(* Mutant: a missing branch has no value.                                  *)
EmitElseNothing(emit, c, node) == IF node = NULL THEN c ELSE EmitScoped(emit, c, "GENERIC", node)

(* The value of a branch that may be missing.                              *)
EmitElse(emit, c, node) ==
  IF node = NULL THEN EmitOp(c, "NIL") ELSE EmitScoped(emit, c, "GENERIC", node)

EmitIf(emit, c, node) ==
  LET tested == EmitOp(emit[node.arg0][c], "JUMP_FALSE")
      ifJump == Here(tested)
      branch == EmitOp(EmitScoped(emit, EmitInt16(tested, 0), "GENERIC", node.arg1), "JUMP")
      elseJump == Here(branch)
  IN Backpatch(EmitElse(emit, Backpatch(EmitInt16(branch, 0), ifJump), node.arg2), elseJump)

(* while, until: the scope of a round holds the test and the body; the     *)
(* jump out of the loop starts inside it and lands behind its close.       *)
EmitWhile(emit, c, node, exit) ==
  LET tested == EmitOp(emit[node.arg0][OpenScope(c, "BREAKABLE")], exit)
      loopJump == Here(tested)
      round == EmitOps(CloseScope(emit[node.arg1][EmitInt16(tested, 0)]), <<"DROP", "JUMP">>)
      left == Backpatch(EmitInt16(round, Count(c) - Count(round)), loopJump)
  IN PatchBreaks(EmitElse(emit, left, node.arg2))

(* How many loops a break or continue leaves: 1 unless it says.            *)
LoopCount(node) == IF node = NULL THEN 1 ELSE node.integer
RequireLoopCount(c, node) ==
  Require(c, LoopCount(node) > 0 /\ LoopCount(node) < 256, "0 < depth < 256")

(* Mutant: nothing is there for the scopes to return.                      *)
EmitNothingToDrop(c) == c

(* The nil a continue lets the scopes it closes return, and then drops.    *)
EmitNilToDrop(c) == EmitOp(c, "NIL")

EmitContinue(c, node) ==
  LET checked == RequireLoopCount(EmitNilToDrop(c), node.arg0)
      closed == EmitOps(EmitScopeCloses(checked, LoopCount(node.arg0)), <<"DROP", "JUMP">>)
  IN IF LoopsLeft(c.symbols, LoopCount(node.arg0)) = {} THEN Abort(c, "i >= 0")
     ELSE EmitInt16(closed, LoopLeft(c.symbols, LoopCount(node.arg0)).start - Count(closed))

EmitBreakStatement(emit, c, node) ==
  LET valued == IF node.arg1 = NULL THEN EmitOp(c, "NIL") ELSE emit[node.arg1][c]
      checked == RequireLoopCount(valued, node.arg0)
      closed == EmitOp(EmitScopeCloses(checked, LoopCount(node.arg0)), "JUMP")
  IN EmitInt16(EmitBreak(closed, LoopCount(node.arg0)), 0)

EmitCall(emit, c, node) ==
  LET arguments == node.arg1.items
      called == EmitAll(emit, emit[node.arg0][c], arguments)
  IN EmitBytes(EmitOp(Require(called, Len(arguments) < 255, "argumentNode->count < UINT8_MAX"), "CALL"),
               <<Len(arguments)>>)

EmitLeaf(c, node) ==
  CASE node.type = "INTEGER_LITERAL" -> EmitInteger(c, node)
    [] node.type = "NIL_LITERAL" -> EmitOp(c, "NIL")
    [] node.type = "BOOLEAN_LITERAL" -> EmitBoolean(c, node)
    [] node.type = "UTF8_LITERAL" -> EmitUTF8(c, node)
    [] node.type = "SYMBOL" -> EmitSymbol(c, node)
    [] node.type \in {"UTF32_LITERAL", "EOF"} -> Abort(c, "assert(false)")

EmitTree(emit, c, node) ==
  CASE node.type = "PARENS" -> emit[node.arg0][c]
    [] node.type = "ASSIGN" -> EmitAssign(emit, c, node)
    [] node.type = "MUT" -> EmitMut(emit, c, node)
    [] node.type = "NEGATE" -> EmitUnaryNode(emit, c, "NEGATE", node)
    [] node.type = "LOGICAL_NOT" -> EmitUnaryNode(emit, c, "NOT", node)
    [] node.type \in {"ADD", "SUBTRACT", "MULTIPLY"} -> EmitBinaryNode(emit, c, node.type, node)
    [] node.type = "INTEGER_DIVIDE" -> EmitBinaryNode(emit, c, "IDIVIDE", node)
    [] isComparison(node) -> EmitComparison(emit, c, node)
    [] node.type = "AND" -> EmitLogical(emit, c, node, "JUMP_TRUE", "FALSE")
    [] node.type = "OR" -> EmitLogical(emit, c, node, "JUMP_FALSE", "TRUE")
    [] node.type = "BLOCK" -> EmitBlock(emit, c, node)
    [] node.type = "LOOP" -> EmitLoop(emit, c, node)
    [] node.type = "IF" -> EmitIf(emit, c, node)
    [] node.type = "WHILE" -> EmitWhile(emit, c, node, "JUMP_FALSE")
    [] node.type = "UNTIL" -> EmitWhile(emit, c, node, "JUMP_TRUE")
    [] node.type = "CONTINUE" -> EmitContinue(c, node)
    [] node.type = "BREAK" -> EmitBreakStatement(emit, c, node)
    [] node.type = "CALL" -> EmitCall(emit, c, node)

(* The emitters of the trees of a nesting. After a failed assertion there  *)
(* is nothing to emit.                                                     *)
Emitters[nesting \in Nat] ==
  [node \in Trees[nesting] |-> [c \in Compilations |->
     IF c.fault # NoAbort THEN c
     ELSE IF node.type \in LeafTypes THEN EmitLeaf(c, node)
     ELSE EmitTree(Emitters[nesting - 1], c, node)]]

EmitNode(c, node) == Emitters[MaxNesting][node][c]

-------------------------------------------------------------------------------
(* What the parser returns for the statements of a line, one after the     *)
(* other; what it panicked in has no tree.                                 *)
IsParsed(statements) == statements \in Seq(Trees[MaxNesting] \cup {SyntaxError})

NoneBefore(statements, i) == \A j \in 1 .. i - 1 : statements[j] = SyntaxError

(* The loop of Compiler_compile: each statement drops the value of the one *)
(* before. Those behind a syntax error are compiled all the same.          *)
EmitStatements(c, statements) ==
  LET Statement(i) == [d \in Compilations |->
        IF statements[i] = SyntaxError THEN Report(d)
        ELSE EmitNode(IF NoneBefore(statements, i) THEN d ELSE EmitOp(d, "DROP"), statements[i])]
  IN InTurn([i \in DOMAIN statements |-> Statement(i)], c)

(* Mutant: the breaks of a line with an error stay.                        *)
StartLineOnly(c) == [c EXCEPT !.line = @ + 1, !.hasErrors = FALSE]

StartLine(c) == [c EXCEPT !.line = @ + 1, !.hasErrors = FALSE, !.breaks = {}]

(* Compiler_compile of the statements of the next line: appends their code *)
(* or, when the parser or the compiler reported an error, takes back what  *)
(* it emitted and declared.                                                *)
Compile(c, statements) ==
  LET emitted == EmitStatements(StartLine(c), statements)
      finished == IF NoneBefore(statements, Len(statements) + 1) THEN EmitOp(emitted, "NIL") ELSE emitted
  IN IF emitted.hasErrors
     THEN [emitted EXCEPT !.code = ByteCode_rewind(@, Count(c)),
                          !.symbols = SymbolList_rewind(@, Len(c.symbols.items))]
     ELSE EmitOp(finished, "RETURN")

===============================================================================
