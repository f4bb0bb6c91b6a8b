------------------------------- MODULE Semantics -------------------------------
(***************************************************************************)
(* What a line means, with no code, stack or jumps: the abstract           *)
(* specification of compiler and virtual machine together. Evaluating a    *)
(* tree in an environment gives a result:                                  *)
(*   kind    "value"; "break" and "continue" on their way to a loop; or    *)
(*           "panic", an error the user is told of; or "stuck", where the  *)
(*           language promises nothing                                     *)
(*   value   the value of the tree, or the one a break carries             *)
(*   loops   how many loops a break or continue has still to leave         *)
(*   env     the variables, in the order they were declared                *)
(*                                                                         *)
(* fuel bounds the rounds of a loop. A scope is what the variables it      *)
(* declares live in; nothing else of it is left behind.                    *)
(***************************************************************************)
EXTENDS Syntax, ValueOps

LOCAL INSTANCE SequencesExt
LOCAL INSTANCE FiniteSetsExt

Result(kind, value, loops, env) == [kind |-> kind, value |-> value, loops |-> loops, env |-> env]
ValueOf(value, env) == Result("value", value, 0, env)
PanicIn(env) == Result("panic", NIL, 0, env)
Stuck(env) == Result("stuck", NIL, 0, env)

Declared(env, symbol) == \E i \in DOMAIN env : env[i].symbol = symbol
IndexOf(env, symbol) == CHOOSE i \in DOMAIN env : env[i].symbol = symbol
Bind(env, symbol, value) == Append(env, [symbol |-> symbol, value |-> value])

(* Go on with the value of a result, unless it left for somewhere else.    *)
Then(result, Continuation(_, _)) ==
  IF result.kind = "value" THEN Continuation(result.value, result.env) ELSE result

(* Forget what was declared since a scope opened in env.                   *)
Leave(result, env) == [result EXCEPT !.env = SubSeq(@, 1, Len(env))]

Apply(op, a, b, env) ==
  CASE op \in ArithmeticOps ->
         IF {a.type, b.type} # {"INTEGER"} \/ (op = "IDIVIDE" /\ b.integer = 0) THEN PanicIn(env)
         ELSE IF ~ Fits(op, a.integer, b.integer) THEN Stuck(env)
         ELSE ValueOf(Value_fromInteger(Arithmetic(op, a.integer, b.integer)), env)
    [] op \in OrderOps ->
         IF {a.type, b.type} # {"INTEGER"} THEN PanicIn(env)
         ELSE ValueOf(Value_fromBoolean(Compare(op, a.integer, b.integer)), env)
    [] op \in EqualityOps ->
         IF a.type # b.type THEN PanicIn(env)
         ELSE IF a.type = "UTF8" THEN Stuck(env)
         ELSE ValueOf(Value_fromBoolean((a = b) = (op = "EQUAL")), env)

ApplyPrefix(type, a, env) ==
  CASE type = "NEGATE" ->
         IF a.type # "INTEGER" THEN PanicIn(env)
         ELSE IF a.integer = INT32_MIN THEN Stuck(env) ELSE ValueOf(Value_fromInteger(-a.integer), env)
    [] type = "LOGICAL_NOT" ->
         IF a.type # "BOOLEAN" THEN PanicIn(env) ELSE ValueOf(Value_fromBoolean(~ a.boolean), env)

RECURSIVE Eval(_, _, _)

(* The operands of a chain of comparisons, each evaluated once, until a    *)
(* comparison fails. The value is that of the comparison and of the last   *)
(* operand evaluated.                                                      *)
RECURSIVE EvalChain(_, _, _)
EvalChain(node, env, fuel) ==
  LET left == IF isComparison(node.arg0) THEN EvalChain(node.arg0, env, fuel)
              ELSE Then(Eval(node.arg0, env, fuel), LAMBDA a, e : ValueOf([holds |-> TRUE, last |-> a], e))
      Link(chain, e) ==
        IF ~ chain.holds THEN ValueOf(chain, e)
        ELSE Then(Eval(node.arg1, e, fuel), LAMBDA b, e1 :
               Then(Apply(node.type, chain.last, b, e1), LAMBDA holds, e2 :
                 ValueOf([holds |-> holds.boolean, last |-> b], e2)))
  IN Then(left, Link)

EvalScope(node, env, fuel) == Leave(Eval(node, env, fuel), env)

RECURSIVE EvalSequence(_, _, _)
EvalSequence(nodes, env, fuel) ==
  IF Len(nodes) = 1 THEN Eval(nodes[1], env, fuel)
  ELSE Then(Eval(nodes[1], env, fuel), LAMBDA value, e : EvalSequence(Tail(nodes), e, fuel))

(* Where a break or continue that leaves a loop's body goes.               *)
Outward(result) == [result EXCEPT !.loops = @ - 1]

(* One round of a loop after another; test is the node of the condition    *)
(* and the value it goes on with, or NULL.                                 *)
RECURSIVE EvalLoop(_, _, _, _, _, _)
EvalLoop(test, goesOn, body, else, env, fuel) ==
  LET tested == IF test = NULL THEN ValueOf(Value_fromBoolean(goesOn), env) ELSE Eval(test, env, fuel)
      round == Leave(Then(tested, LAMBDA v, e : Eval(body, e, fuel)), env)
      again == EvalLoop(test, goesOn, body, else, round.env, fuel - 1)
  IN IF fuel = 0 THEN Stuck(env)
     ELSE IF tested.kind = "value" /\ tested.value.type # "BOOLEAN" THEN Stuck(env)
     ELSE IF tested.kind = "value" /\ tested.value.boolean # goesOn
     THEN IF else = NULL THEN ValueOf(NIL, Leave(tested, env).env)
          ELSE EvalScope(else, Leave(tested, env).env, fuel)
     ELSE IF round.kind \in {"break", "continue"} /\ round.loops > 1 THEN Outward(round)
     ELSE IF round.kind = "break" THEN ValueOf(round.value, round.env)
     ELSE IF round.kind \in {"value", "continue"} THEN again
     ELSE round

EvalAssign(node, env, fuel) ==
  Then(Eval(node.arg1, env, fuel), LAMBDA value, e :
    ValueOf(NIL, IF Declared(e, node.arg0.symbol)
                 THEN [e EXCEPT ![IndexOf(e, node.arg0.symbol)].value = value]
                 ELSE Bind(e, node.arg0.symbol, value)))

EvalSymbol(node, env) ==
  IF Declared(env, node.symbol) THEN ValueOf(env[IndexOf(env, node.symbol)].value, env)
  ELSE ValueOf(Value_fromNativeFn(node.symbol), env)

(* and, or: settled by a first operand with the value settles.             *)
EvalLogical(node, settles, env, fuel) ==
  Then(Eval(node.arg0, env, fuel), LAMBDA a, e :
    IF a.type # "BOOLEAN" THEN Stuck(e)
    ELSE IF a.boolean = settles THEN ValueOf(a, e) ELSE Eval(node.arg1, e, fuel))

EvalIf(node, env, fuel) ==
  Then(Eval(node.arg0, env, fuel), LAMBDA test, e :
    IF test.type # "BOOLEAN" THEN Stuck(e)
    ELSE IF test.boolean THEN EvalScope(node.arg1, e, fuel)
    ELSE IF node.arg2 = NULL THEN ValueOf(NIL, e) ELSE EvalScope(node.arg2, e, fuel))

(* A call of a native function with at most one argument.                  *)
EvalCall(node, env, fuel) ==
  Then(Eval(node.arg0, env, fuel), LAMBDA function, e :
    IF function.type # "NATIVE_FN" \/ Len(node.arg1.items) # 1 THEN Stuck(e)
    ELSE Then(Eval(node.arg1.items[1], e, fuel), LAMBDA arg0, e1 :
           IF NativeAccepts(function.nativeFn, <<arg0>>) THEN ValueOf(CallNative(function.nativeFn, <<arg0>>), e1)
           ELSE Stuck(e1)))

Loops(node) == IF node = NULL THEN 1 ELSE node.integer

Eval(node, env, fuel) ==
  CASE node.type = "INTEGER_LITERAL" -> ValueOf(Value_fromInteger(node.integer), env)
    [] node.type = "NIL_LITERAL" -> ValueOf(NIL, env)
    [] node.type = "BOOLEAN_LITERAL" -> ValueOf(Value_fromBoolean(node.boolean), env)
    [] node.type = "UTF8_LITERAL" -> ValueOf(Value_fromBlob(node.text), env)
    [] node.type = "PARENS" -> Eval(node.arg0, env, fuel)
    [] node.type = "SYMBOL" -> EvalSymbol(node, env)
    [] node.type = "ASSIGN" -> EvalAssign(node, env, fuel)
    [] node.type = "MUT" -> EvalAssign(node.arg0, env, fuel)
    [] node.type \in {"NEGATE", "LOGICAL_NOT"} ->
         Then(Eval(node.arg0, env, fuel), LAMBDA a, e : ApplyPrefix(node.type, a, e))
    [] node.type \in {"ADD", "SUBTRACT", "MULTIPLY", "INTEGER_DIVIDE"} ->
         Then(Eval(node.arg0, env, fuel), LAMBDA a, e :
           Then(Eval(node.arg1, e, fuel), LAMBDA b, e1 :
             Apply(IF node.type = "INTEGER_DIVIDE" THEN "IDIVIDE" ELSE node.type, a, b, e1)))
    [] isComparison(node) ->
         Then(EvalChain(node, env, fuel), LAMBDA chain, e : ValueOf(Value_fromBoolean(chain.holds), e))
    [] node.type = "AND" -> EvalLogical(node, FALSE, env, fuel)
    [] node.type = "OR" -> EvalLogical(node, TRUE, env, fuel)
    [] node.type = "BLOCK" ->
         IF node.items = <<>> THEN Stuck(env) ELSE Leave(EvalSequence(node.items, env, fuel), env)
    [] node.type = "LOOP" -> EvalLoop(NULL, TRUE, node.arg0, NULL, env, fuel)
    [] node.type = "WHILE" -> EvalLoop(node.arg0, TRUE, node.arg1, node.arg2, env, fuel)
    [] node.type = "UNTIL" -> EvalLoop(node.arg0, FALSE, node.arg1, node.arg2, env, fuel)
    [] node.type = "IF" -> EvalIf(node, env, fuel)
    [] node.type = "BREAK" ->
         Then(IF node.arg1 = NULL THEN ValueOf(NIL, env) ELSE Eval(node.arg1, env, fuel), LAMBDA v, e :
           Result("break", v, Loops(node.arg0), e))
    [] node.type = "CONTINUE" -> Result("continue", NIL, Loops(node.arg0), env)
    [] node.type = "CALL" -> EvalCall(node, env, fuel)

(* The statements of a line. A line may be empty.                          *)
EvalLine(statements, env, fuel) ==
  IF statements = <<>> THEN ValueOf(NIL, env) ELSE EvalSequence(statements, env, fuel)

===============================================================================
