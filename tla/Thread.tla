-------------------------------- MODULE Thread --------------------------------
(***************************************************************************)
(* The virtual machine (src/src/thread.c, thread.h) and the native         *)
(* functions it calls (builtins.h): one operator per instruction or group  *)
(* of instructions, from a thread to the thread it leaves.                 *)
(*                                                                         *)
(*   stack     the operand stack of StackOps, always at ThreadBase (Stack  *)
(*             shows that where realloc puts it makes no difference)       *)
(*   pc        the index of the next byte, the register of Thread_run      *)
(*   pcIndex   where the next Thread_run starts                            *)
(*   outcome   how Thread_run stands: "running", "returned", "panicked"    *)
(*   result    what it returned                                            *)
(*   errorLine the line the last panic reported                            *)
(*   fault     the first assertion outside the stack that failed           *)
(***************************************************************************)
EXTENDS ByteCodeOps, ValueOps

CONSTANTS
  ReallocZero,   \* as in StackOps
  ZeroRoom

LOCAL INSTANCE SequencesExt
LOCAL INSTANCE FiniteSetsExt

Unwritten == [type |-> "unwritten"]
ThreadBase == 0

INSTANCE StackOps WITH Values <- {NIL}, InitialItems <- 8, Garbage <- Unwritten

Thread_init ==
  [ stack |-> Stack_init(ThreadBase), pc |-> 0, pcIndex |-> 0, outcome |-> "returned",
    result |-> NIL, errorLine |-> 0, fault |-> NoFault ]

Depth(t) == TopIndex(t.stack) + 1

(* The value depth places below the top; the operands of an instruction    *)
(* are counted from the top.                                               *)
Operand(t, depth) == t.stack.cells[TopIndex(t.stack) - depth]

PushValue(t, value) == [t EXCEPT !.stack = Stack_push(@, value, ThreadBase)]
PopValues(t, n) == [t EXCEPT !.stack = FoldLeft(LAMBDA s, i : Stack_pop(s), @, [i \in 1 .. n |-> i])]

Goto(t, pc) == [t EXCEPT !.pc = pc]
FailThread(t, assertion) == [t EXCEPT !.fault = assertion]

(* THREAD_ERROR: report an error at the instruction and return in panic.   *)
Panic(t, code) ==
  [t EXCEPT !.outcome = "panicked", !.errorLine = ByteCode_getLine(code, t.pc)]

-------------------------------------------------------------------------------
(* The instructions. Each is given the thread with pc at its opcode and    *)
(* enough values on the stack.                                             *)

(* The value a constant instruction pushes.                                *)
Constant(t, code, op) ==
  CASE op = "NIL" -> NIL
    [] op = "TRUE" -> Value_fromBoolean(TRUE)
    [] op = "FALSE" -> Value_fromBoolean(FALSE)
    [] op = "INTEGER" -> Value_fromInteger(Int32At(code, t.pc + 1))
    [] op = "UTF8" -> Value_fromBlob(code.blobs[ByteAt(code, t.pc + 1) + 1])
    [] op = "BUILTIN" -> Value_fromNativeFn(Builtins[ByteAt(code, t.pc + 1) + 1])

(* How many bytes an instruction and its operand take.                     *)
Width(op) ==
  CASE op = "INTEGER" -> 5
    [] op \in {"GET", "SET", "JUMP", "JUMP_TRUE", "JUMP_FALSE"} -> 3
    [] op \in {"UTF8", "BUILTIN", "CALL"} -> 2
    [] OTHER -> 1

Advance(t, op) == Goto(t, t.pc + Width(op))

(* A literal or builtin the operand does not number.                       *)
NoSuchConstant(t, code, op) ==
  \/ op = "UTF8" /\ ByteAt(code, t.pc + 1) >= Len(code.blobs)
  \/ op = "BUILTIN" /\ ByteAt(code, t.pc + 1) >= Len(Builtins)
  \/ op = "UTF32"

ExecuteConstant(t, code, op) ==
  IF NoSuchConstant(t, code, op) THEN FailThread(t, "blobIndex < blobs.count")
  ELSE Advance(PushValue(t, Constant(t, code, op)), op)

ExecuteGet(t, code) ==
  Advance([t EXCEPT !.stack = Stack_pushIndex(@, UInt16At(code, t.pc + 1), ThreadBase)], "GET")
ExecuteSet(t, code) ==
  Advance([t EXCEPT !.stack = Stack_popToIndex(@, UInt16At(code, t.pc + 1))], "SET")

(* The operands are popped before their types are checked, and stay popped *)
(* when the check panics.                                                  *)
ExecuteNegate(t, code) ==
  LET operand == Operand(t, 0)
      popped == PopValues(t, 1)
  IN IF operand.type # "INTEGER" THEN Panic(popped, code)
     ELSE IF operand.integer = INT32_MIN THEN FailThread(t, "signed overflow")
     ELSE Advance(PushValue(popped, Value_fromInteger(-operand.integer)), "NEGATE")

ExecuteNot(t, code) ==
  LET operand == Operand(t, 0)
      popped == PopValues(t, 1)
  IN IF operand.type # "BOOLEAN" THEN Panic(popped, code)
     ELSE Advance(PushValue(popped, Value_fromBoolean(~ operand.boolean)), "NOT")

ExecuteArithmetic(t, code, op) ==
  LET operand0 == Operand(t, 1)
      operand1 == Operand(t, 0)
      popped == PopValues(t, 2)
  IN IF {operand0.type, operand1.type} # {"INTEGER"} THEN Panic(popped, code)
     ELSE IF op = "IDIVIDE" /\ operand1.integer = 0 THEN Panic(popped, code)
     ELSE IF ~ Fits(op, operand0.integer, operand1.integer) THEN FailThread(t, "signed overflow")
     ELSE Advance(PushValue(popped, Value_fromInteger(Arithmetic(op, operand0.integer, operand1.integer))), op)

ExecuteOrder(t, code, op) ==
  LET operand0 == Operand(t, 1)
      operand1 == Operand(t, 0)
      popped == PopValues(t, 2)
  IN IF {operand0.type, operand1.type} # {"INTEGER"} THEN Panic(popped, code)
     ELSE Advance(PushValue(popped, Value_fromBoolean(Compare(op, operand0.integer, operand1.integer))), op)

ExecuteEquality(t, code, op) ==
  LET operand0 == Operand(t, 1)
      operand1 == Operand(t, 0)
      popped == PopValues(t, 2)
      same == operand0 = operand1
  IN IF operand0.type # operand1.type THEN Panic(popped, code)
     ELSE IF operand0.type = "UTF8" THEN FailThread(t, "UTF8 comparison")
     ELSE Advance(PushValue(popped, Value_fromBoolean(IF op = "EQUAL" THEN same ELSE ~ same)), op)

ExecuteDup(t) == Advance(PushValue(t, Operand(t, 0)), "DUP")
ExecuteDrop(t) == Advance(PopValues(t, 1), "DROP")

(* The value on top goes below the two under it.                           *)
ExecuteRot3(t) ==
  LET rotated == << Operand(t, 0), Operand(t, 2), Operand(t, 1) >>
  IN Advance(FoldLeft(PushValue, PopValues(t, 3), rotated), "ROT3")

(* An offset counts from the operand that holds it.                        *)
Jump(t, code) == Goto(t, (t.pc + 1) + Int16At(code, t.pc + 1))

ExecuteJumpIf(t, code, op, condition) ==
  LET operand == Operand(t, 0)
      popped == PopValues(t, 1)
  IN IF operand.type # "BOOLEAN" THEN FailThread(t, "operand.type == VALUE_BOOLEAN")
     ELSE IF operand.boolean = condition THEN Jump(popped, code)
     ELSE Advance(popped, op)

ExecuteScope(t, op) ==
  Advance([t EXCEPT !.stack = IF op = "SCOPE_OPEN" THEN Stack_openScope(@) ELSE Stack_closeScope(@)], op)

ExecuteCall(t, code) ==
  LET argumentCount == ByteAt(code, t.pc + 1)
      arguments == [i \in 1 .. argumentCount |-> Operand(t, i - 1)]
      function == Operand(t, argumentCount)
      popped == PopValues(t, argumentCount + 1)
  IN IF function.type # "NATIVE_FN" THEN FailThread(t, "function.type == VALUE_NATIVE_FN")
     ELSE IF ~ NativeAccepts(function.nativeFn, arguments) THEN FailThread(t, "arguments of a native function")
     ELSE Advance(PushValue(popped, CallNative(function.nativeFn, arguments)), "CALL")

ExecuteReturn(t) ==
  [PopValues(t, 1) EXCEPT !.result = Operand(t, 0), !.outcome = "returned", !.pcIndex = t.pc + 1]

-------------------------------------------------------------------------------
(* One turn of the loop of Thread_run.                                     *)

(* How many values an instruction pops without looking.                    *)
Pops(t, code, op) ==
  CASE op \in {"NEGATE", "NOT", "DUP", "DROP", "JUMP_TRUE", "JUMP_FALSE", "RETURN"} -> 1
    [] op \in ArithmeticOps \cup OrderOps \cup EqualityOps -> 2
    [] op = "ROT3" -> 3
    [] op = "CALL" -> ByteAt(code, t.pc + 1) + 1
    [] OTHER -> 0

ExecuteOp(t, code, op) ==
  CASE op \in {"NIL", "TRUE", "FALSE", "INTEGER", "UTF8", "UTF32", "BUILTIN"} ->
         ExecuteConstant(t, code, op)
    [] op = "GET" -> ExecuteGet(t, code)
    [] op = "SET" -> ExecuteSet(t, code)
    [] op = "NEGATE" -> ExecuteNegate(t, code)
    [] op = "NOT" -> ExecuteNot(t, code)
    [] op \in ArithmeticOps -> ExecuteArithmetic(t, code, op)
    [] op \in OrderOps -> ExecuteOrder(t, code, op)
    [] op \in EqualityOps -> ExecuteEquality(t, code, op)
    [] op = "DUP" -> ExecuteDup(t)
    [] op = "DROP" -> ExecuteDrop(t)
    [] op = "ROT3" -> ExecuteRot3(t)
    [] op = "JUMP" -> Jump(t, code)
    [] op = "JUMP_TRUE" -> ExecuteJumpIf(t, code, op, TRUE)
    [] op = "JUMP_FALSE" -> ExecuteJumpIf(t, code, op, FALSE)
    [] op \in {"SCOPE_OPEN", "SCOPE_CLOSE"} -> ExecuteScope(t, op)
    [] op = "CALL" -> ExecuteCall(t, code)
    [] op = "RETURN" -> ExecuteReturn(t)

(* A byte that is no opcode is skipped; reading past the code is not       *)
(* defined, and popping too many values fails an assertion of the stack.   *)
Execute(t, code) ==
  IF t.pc \notin 0 .. ByteCode_count(code) - 1 THEN FailThread(t, "pc outside the code")
  ELSE IF ByteAt(code, t.pc) >= Len(Instructions) THEN Goto(t, t.pc + 1)
  ELSE LET op == Instructions[ByteAt(code, t.pc) + 1]
       IN IF Depth(t) < Pops(t, code, op) THEN PopValues(t, Pops(t, code, op))
          ELSE ExecuteOp(t, code, op)

(* Thread_run starts where the last run returned, or was cleared to.       *)
Thread_start(t) == [t EXCEPT !.pc = t.pcIndex, !.outcome = "running"]

(* Mutant: the thread goes on at the code that panicked.                   *)
Thread_clearPanicInPlace(t, code) == [t EXCEPT !.outcome = "cleared"]

(* Thread_clearPanic: skip the rest of the code. The stack is left alone.  *)
Thread_clearPanic(t, code) == [t EXCEPT !.outcome = "cleared", !.pcIndex = ByteCode_count(code)]

(* A failed assertion, of the stack or outside it: the program is gone.    *)
Aborted(t) == t.fault # NoFault \/ t.stack.fault # NoFault

===============================================================================
