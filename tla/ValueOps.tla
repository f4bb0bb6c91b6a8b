-------------------------------- MODULE ValueOps --------------------------------
(***************************************************************************)
(* The values of the language (src/src/value.h), the arithmetic the        *)
(* virtual machine does on them (thread.c) and the native functions        *)
(* (builtins.h).                                                           *)
(***************************************************************************)
EXTENDS Integers, Sequences

(* A value has the member of the C union that its type names.             *)
NIL == [type |-> "NIL"]
Value_fromBoolean(b) == [type |-> "BOOLEAN", boolean |-> b]
Value_fromInteger(i) == [type |-> "INTEGER", integer |-> i]
Value_fromNativeFn(name) == [type |-> "NATIVE_FN", nativeFn |-> name]
Value_fromBlob(text) == [type |-> "UTF8", blob |-> text]

(* int32_t arithmetic. Signed overflow is undefined in C, so an operation  *)
(* whose result does not fit has no value.                                 *)
INT32_MAX == 2147483647
INT32_MIN == -2147483647 - 1

(* C division rounds towards zero; this is it for a positive divisor.      *)
Quotient(a, b) == IF a >= 0 THEN a \div b ELSE (a + (b - 1)) \div b

MultiplyFits(a, b) ==
  CASE a = 0 \/ b = 0 -> TRUE
    [] a > 0 /\ b > 0 -> a <= INT32_MAX \div b
    [] a > 0 /\ b < 0 -> b >= Quotient(INT32_MIN, a)
    [] a < 0 /\ b > 0 -> a >= Quotient(INT32_MIN, b)
    [] a < 0 /\ b < 0 -> a # INT32_MIN /\ b # INT32_MIN /\ -a <= INT32_MAX \div (-b)

Fits(op, a, b) ==
  CASE op = "ADD" -> IF b > 0 THEN a <= INT32_MAX - b ELSE a >= INT32_MIN - b
    [] op = "SUBTRACT" -> IF b > 0 THEN a >= INT32_MIN + b ELSE a <= INT32_MAX + b
    [] op = "MULTIPLY" -> MultiplyFits(a, b)
    [] op = "IDIVIDE" -> ~ (a = INT32_MIN /\ b = -1)

Arithmetic(op, a, b) ==
  CASE op = "ADD" -> a + b
    [] op = "SUBTRACT" -> a - b
    [] op = "MULTIPLY" -> a * b
    [] op = "IDIVIDE" /\ b > 0 -> Quotient(a, b)
    [] op = "IDIVIDE" /\ b = INT32_MIN -> IF a = b THEN 1 ELSE 0
    [] op = "IDIVIDE" /\ b < 0 /\ b # INT32_MIN -> -Quotient(a, -b)

Compare(op, a, b) ==
  CASE op = "LESS_THAN" -> a < b
    [] op = "LESS_THAN_EQUAL" -> a <= b
    [] op = "GREATER_THAN" -> a > b
    [] op = "GREATER_THAN_EQUAL" -> a >= b

ArithmeticOps == {"ADD", "SUBTRACT", "MULTIPLY", "IDIVIDE"}
OrderOps == {"LESS_THAN", "LESS_THAN_EQUAL", "GREATER_THAN", "GREATER_THAN_EQUAL"}
EqualityOps == {"EQUAL", "NOT_EQUAL"}

-------------------------------------------------------------------------------
(* The table BUILTINS and Builtin_index, counted from 0; callers test      *)
(* IsBuiltin first.                                                        *)
Builtins == <<"Bool", "Int", "print", "println">>

IsBuiltin(name) == \E i \in DOMAIN Builtins : Builtins[i] = name
Builtin_index(name) == (CHOOSE i \in DOMAIN Builtins : Builtins[i] = name) - 1

(* A native function: what it accepts and what it returns. arguments are   *)
(* in the order they were popped.                                          *)
NativeAccepts(name, arguments) ==
  CASE name = "Bool" -> Len(arguments) = 1 /\ arguments[1].type # "UTF8"
    [] name = "Int" -> Len(arguments) = 1 /\ arguments[1].type \notin {"UTF8", "NATIVE_FN"}
    [] name \in {"print", "println"} -> TRUE

Builtin_Bool(arg0) ==
  CASE arg0.type = "BOOLEAN" -> arg0
    [] arg0.type = "NATIVE_FN" -> Value_fromBoolean(TRUE)
    [] arg0.type = "NIL" -> Value_fromBoolean(FALSE)
    [] arg0.type = "INTEGER" -> Value_fromBoolean(arg0.integer # 0)

Builtin_Int(arg0) ==
  CASE arg0.type = "BOOLEAN" -> Value_fromInteger(IF arg0.boolean THEN 1 ELSE 0)
    [] arg0.type = "NIL" -> Value_fromInteger(0)
    [] arg0.type = "INTEGER" -> arg0

CallNative(name, arguments) ==
  CASE name = "Bool" -> Builtin_Bool(arguments[1])
    [] name = "Int" -> Builtin_Int(arguments[1])
    [] name \in {"print", "println"} -> NIL

===============================================================================
