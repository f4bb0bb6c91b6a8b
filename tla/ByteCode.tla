------------------------------- MODULE ByteCode -------------------------------
(***************************************************************************)
(* The code array as a state machine: the compiler appends operands of one,*)
(* two or four bytes from any line, patches operands it left open, and     *)
(* takes back what a failing line emitted.                                 *)
(***************************************************************************)
EXTENDS ByteCodeOps

CONSTANTS
  Bytes,      \* the bytes appended
  Lines,      \* the source lines they come from
  MaxCount,   \* bound: bytes of code
  MaxBlobs    \* bound: string literals

ASSUME ByteAssumption == Bytes \subseteq 0 .. 255
ASSUME LineAssumption == Lines \subseteq Nat
ASSUME CountAssumption == MaxCount \in Nat /\ MaxBlobs \in Nat

VARIABLES
  code,        \* the ByteCode
  written,     \* history: what each byte should be, and the line it came from
  checkpoint   \* the count a failing compilation rewinds to

vars == <<code, written, checkpoint>>

Init ==
  /\ code = ByteCode_init
  /\ written = <<>>
  /\ checkpoint = 0

Emit(bytes, line) ==
  /\ ByteCode_count(code) + Len(bytes) <= MaxCount
  /\ code' = AppendBytes(code, bytes, line)
  /\ written' = written \o [k \in 1 .. Len(bytes) |-> [byte |-> bytes[k], line |-> line]]
  /\ UNCHANGED checkpoint

EmitByte == \E b \in Bytes, line \in Lines : Emit(<<b>>, line)
EmitInt16 == \E b \in Bytes, line \in Lines : Emit(Int16Bytes(-b), line)
EmitInt32 == \E b \in Bytes, line \in Lines : Emit(Int32Bytes(b * 256), line)

(* Fill in an operand of this compilation that was left open.              *)
Patch ==
  \E index \in checkpoint .. ByteCode_count(code) - 2, b \in Bytes :
    /\ code' = PatchAt(code, index, b)
    /\ written' = [written EXCEPT ![index + 1].byte = b, ![index + 2].byte = 0]
    /\ UNCHANGED checkpoint

(* A compilation starts: the count so far is what a failure rewinds to.    *)
Begin ==
  /\ checkpoint' = ByteCode_count(code)
  /\ UNCHANGED <<code, written>>

EmitBlob ==
  /\ Len(code.blobs) < MaxBlobs
  /\ code' = BlobList_append(code, "blob")
  /\ UNCHANGED <<written, checkpoint>>

Rewind ==
  /\ code' = ByteCode_rewind(code, checkpoint)
  /\ written' = SubSeq(written, 1, checkpoint)
  /\ UNCHANGED checkpoint

Next == EmitByte \/ EmitInt16 \/ EmitInt32 \/ EmitBlob \/ Patch \/ Begin \/ Rewind

Spec == Init /\ [][Next]_vars

-------------------------------------------------------------------------------
(* No append writes past the block: four bytes fit after one doubling.     *)
CodeFits == ByteCode_count(code) <= code.capacity

(* The two assertions of ByteCode_getLine: the runs stand for exactly the  *)
(* bytes there are, whatever was rewound.                                  *)
RunsCoverTheCode == RunsUpTo(code.lineRuns, Len(code.lineRuns)) = ByteCode_count(code)

(* The shape of the code, what the block has room for included.            *)
TypeOK ==
  /\ code.items \in Seq(0 .. 255)
  /\ code.capacity \in Nat /\ code.block \in Nat
  /\ \A i \in DOMAIN code.lineRuns : code.lineRuns[i].line \in Nat /\ code.lineRuns[i].run \in Nat
  /\ checkpoint \in 0 .. ByteCode_count(code)
  /\ CodeFits /\ RunsCoverTheCode

(* The code is what was emitted and not taken back: growing, patching and  *)
(* rewinding never disturb another byte.                                   *)
CodeIsWhatWasEmitted ==
  code.items = [k \in 1 .. Len(written) |-> written[k].byte]

(* Every byte is reported on the line it was emitted from, however many    *)
(* failing lines were rewound in the middle of a run.                      *)
LinesAreReported ==
  \A index \in 0 .. ByteCode_count(code) - 1 :
    ByteCode_getLine(code, index) = written[index + 1].line

===============================================================================
