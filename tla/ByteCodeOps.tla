------------------------------ MODULE ByteCodeOps ------------------------------
(***************************************************************************)
(* The growing array of code one session compiles into and runs from       *)
(* (src/src/instruction.c, instruction.h, blob.h): one operator per        *)
(* function, from a ByteCode to the ByteCode it leaves.                    *)
(*                                                                         *)
(*   items      the bytes, of which index 0 of the C array is items[1]     *)
(*   capacity   the size of the heap block that holds them                 *)
(*   block      which heap block that is: a realloc that moves the bytes   *)
(*              makes a new one, and a pointer into the old one is stale   *)
(*   lineRuns   how many consecutive bytes came from which source line     *)
(*   blobs      the string literals, which no rewind removes               *)
(***************************************************************************)
EXTENDS Integers, Sequences

CONSTANTS
  CodeCapacity,  \* bytes the first block is given (256 in the code)
  CodeMoves      \* whether realloc moves a block it makes bigger

ASSUME CodeCapacityAssumption == CodeCapacity \in Nat /\ CodeCapacity >= 4
ASSUME CodeMovesAssumption == CodeMoves \in BOOLEAN

(* enum Instruction: an opcode is the position of its name, counted from 0. *)
Instructions ==
  << "NIL", "TRUE", "FALSE", "INTEGER", "UTF8", "UTF32", "BUILTIN", "GET", "SET",
     "NEGATE", "NOT", "ADD", "SUBTRACT", "MULTIPLY", "IDIVIDE",
     "LESS_THAN", "LESS_THAN_EQUAL", "GREATER_THAN", "GREATER_THAN_EQUAL",
     "EQUAL", "NOT_EQUAL", "DUP", "DROP", "ROT3", "JUMP", "JUMP_TRUE", "JUMP_FALSE",
     "SCOPE_OPEN", "SCOPE_CLOSE", "CALL", "RETURN" >>

OP == [name \in {Instructions[i] : i \in DOMAIN Instructions} |->
         (CHOOSE i \in DOMAIN Instructions : Instructions[i] = name) - 1]

ByteCode_init ==
  [ items |-> <<>>, capacity |-> CodeCapacity, block |-> 0,
    lineRuns |-> << [line |-> 1, run |-> 0] >>, blobs |-> <<>> ]

(* The bytes are never looked at while code is emitted.                    *)
ByteCodes ==
  [ items : Seq(Int), capacity : Nat, block : Nat,
    lineRuns : Seq([line : Nat, run : Nat]) \ {<<>>}, blobs : Seq(STRING) ]

ByteCode_count(code) == Len(code.items)

(* The byte at an index of the C array. *)
ByteAt(code, index) == code.items[index + 1]

(* Mutant: room for the first byte is taken for room for all.              *)
ByteCode_canInsertFirst(code, n) == code.capacity > ByteCode_count(code)

ByteCode_canInsert(code, n) == code.capacity > ByteCode_count(code) + n - 1

ByteCode_grow(code) ==
  [code EXCEPT !.capacity = code.capacity * 2,
               !.block = IF CodeMoves THEN code.block + 1 ELSE code.block]

ByteCode_updateLineRuns(lineRuns, line, count) ==
  LET current == Len(lineRuns)
  IN IF lineRuns[current].line = line
     THEN [lineRuns EXCEPT ![current].run = @ + count]
     ELSE Append(lineRuns, [line |-> line, run |-> count])

(* ByteCode_append and the appenders of wider integers: they differ only   *)
(* in how many bytes the integer has.                                      *)
AppendBytes(code, bytes, line) ==
  LET room == IF ByteCode_canInsert(code, Len(bytes)) THEN code ELSE ByteCode_grow(code)
  IN [room EXCEPT !.items = @ \o bytes,
                  !.lineRuns = ByteCode_updateLineRuns(@, line, Len(bytes))]

(* Little-endian operands. An integer literal is never negative.           *)
Int16Bytes(i) == << i % 256, (i \div 256) % 256 >>
Int32Bytes(i) == << i % 256, (i \div 256) % 256, (i \div 65536) % 256, (i \div 16777216) % 256 >>

UInt16At(code, index) == ByteAt(code, index) + 256 * ByteAt(code, index + 1)
Int16At(code, index) ==
  LET u == UInt16At(code, index) IN IF u < 32768 THEN u ELSE u - 65536
Int32At(code, index) == UInt16At(code, index) + 65536 * UInt16At(code, index + 2)

(* Mutant: only the low byte is written.                                   *)
PatchAtLowByte(code, index, i) == [code EXCEPT !.items[index + 1] = Int16Bytes(i)[1]]

(* A write of a whole int16_t through an index, which is never stale.      *)
PatchAt(code, index, i) ==
  [code EXCEPT !.items = [@ EXCEPT ![index + 1] = Int16Bytes(i)[1], ![index + 2] = Int16Bytes(i)[2]]]

(* ByteCode_pc: an address the compiler keeps while it emits more code.    *)
ByteCode_pc(code, index) == [block |-> code.block, index |-> index]

(* A write through such an address: lost when the block has moved since.   *)
PatchThrough(code, pointer, i) ==
  IF pointer.block = code.block THEN PatchAt(code, pointer.index, i) ELSE code

(* How many bytes the first i line runs stand for: the sum both loops over *)
(* the line runs keep.                                                     *)
RunSums(lineRuns) ==
  LET sum[i \in 0 .. Len(lineRuns)] == IF i = 0 THEN 0 ELSE sum[i - 1] + lineRuns[i].run
  IN sum

RunsUpTo(lineRuns, i) == RunSums(lineRuns)[i]

(* The first of some positions, at which a loop stops.                     *)
FirstOf(positions) == CHOOSE i \in positions : \A j \in positions : i <= j

(* Mutant: an instruction belongs to the run that ends before it.          *)
ByteCode_getLineEarly(code, index) ==
  LET ending == {i \in 1 .. Len(code.lineRuns) : RunsUpTo(code.lineRuns, i) >= index}
  IN code.lineRuns[FirstOf(ending)].line

(* ByteCode_getLine, for the instruction at an index: the first run that   *)
(* ends after it.                                                          *)
ByteCode_getLine(code, index) ==
  LET ending == {i \in 1 .. Len(code.lineRuns) : RunsUpTo(code.lineRuns, i) > index}
  IN code.lineRuns[FirstOf(ending)].line

(* Mutant: the line runs of the bytes taken back stay.                     *)
ByteCode_rewindItems(code, count) == [code EXCEPT !.items = SubSeq(@, 1, count)]

ByteCode_rewind(code, count) ==
  LET last == FirstOf({i \in 1 .. Len(code.lineRuns) : RunsUpTo(code.lineRuns, i) >= count})
      excess == RunsUpTo(code.lineRuns, last) - count
      left == [SubSeq(code.lineRuns, 1, last) EXCEPT ![last].run = @ - excess]
  IN [code EXCEPT !.items = SubSeq(@, 1, count), !.lineRuns = left]

BlobList_append(code, blob) == [code EXCEPT !.blobs = Append(@, blob)]

===============================================================================
