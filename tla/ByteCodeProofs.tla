---------------------------- MODULE ByteCodeProofs ----------------------------
(***************************************************************************)
(* The code array holds what was emitted and knows the line of every byte, *)
(* however often compilations fail and are rewound, for every value of the *)
(* constants.                                                              *)
(***************************************************************************)
EXTENDS ByteCode, ByteCodeLemmas

Fields == {"items", "capacity", "block", "lineRuns", "blobs"}

(* A block that has room for an operand of four bytes after one doubling,  *)
(* and holds the code.                                                     *)
BlockOK ==
  /\ DOMAIN code = Fields
  /\ code.items \in Seq(0 .. 255)
  /\ code.capacity \in Nat /\ code.capacity >= 4 /\ code.block \in Nat
  /\ Len(code.items) <= code.capacity

(* The bytes are those recorded, and so far back a failure may rewind.     *)
BytesOK ==
  /\ written \in Seq(Entries) /\ Len(written) = Len(code.items)
  /\ \A k \in 1 .. Len(written) : code.items[k] = written[k].byte
  /\ checkpoint \in 0 .. Len(written)

IInv == BlockOK /\ BytesOK /\ Covers(code.lineRuns, written)

LEMMA InitIInv == Init => IInv
<1>. SUFFICES ASSUME Init PROVE IInv
  OBVIOUS
<1>. USE DEF Init, ByteCode_init
<1>. DEFINE run == [line |-> 1, run |-> 0]
<1>1. BlockOK
  BY CodeCapacityAssumption DEF BlockOK, Fields
<1>2. BytesOK
  BY DEF BytesOK
<1>3. <<run>> \in LineRuns /\ Len(<<run>>) = 1 /\ <<run>>[1] = run /\ run \in [line : Nat, run : Nat]
  BY DEF LineRuns
<1>4. RunsUpTo(<<run>>, 1) = 0
  <2>. HIDE DEF run
  <2>1. 1 \in 1 .. Len(<<run>>) /\ 1 - 1 = 0
    BY <1>3
  <2>2. RunsUpTo(<<run>>, 1) = RunsUpTo(<<run>>, 0) + <<run>>[1].run /\ RunsUpTo(<<run>>, 0) = 0
    BY <1>3, <2>1, SumStep
  <2>. QED
    BY <1>3, <2>2 DEF run
<1>5. Covers(<<run>>, written)
  BY <1>3, <1>4 DEF Covers
<1>. QED
  BY <1>1, <1>2, <1>5 DEF IInv

(* Emitting bytes of a line writes them after the others, and nowhere      *)
(* past the block.                                                         *)
LEMMA EmitIInv ==
  ASSUME IInv, NEW bytes \in Seq(0 .. 255), Len(bytes) \in 1 .. 4, NEW line \in Nat,
         Emit(bytes, line)
  PROVE  IInv'
<1>. DEFINE room == IF ByteCode_canInsert(code, Len(bytes)) THEN code ELSE ByteCode_grow(code)
            n == Len(bytes)
            count == Len(code.items)
            added == [k \in 1 .. n |-> [byte |-> bytes[k], line |-> line]]
<1>1. n \in Nat /\ n \in 1 .. 4 /\ count \in Nat /\ code.items \in Seq(0 .. 255)
      /\ written \in Seq(Entries) /\ Len(written) = count
  BY LenProperties DEF IInv, BlockOK, BytesOK
<1>2. /\ DOMAIN room = Fields /\ room.items = code.items /\ room.lineRuns = code.lineRuns
      /\ room.capacity \in Nat /\ room.capacity >= 4 /\ room.block \in Nat
      /\ count + n <= room.capacity
  <2>1. /\ DOMAIN code = Fields
        /\ code.capacity \in Nat /\ code.capacity >= 4 /\ code.block \in Nat
        /\ count <= code.capacity
    BY DEF IInv, BlockOK
  <2>2. CASE ByteCode_canInsert(code, n)
    <3>1. code.capacity > count + n - 1
      BY <2>2 DEF ByteCode_canInsert, ByteCode_count
    <3>2. room = code
      BY <2>2
    <3>. HIDE DEF room, n, count
    <3>. QED
      BY <1>1, <2>1, <3>1, <3>2
  <2>3. CASE ~ ByteCode_canInsert(code, n)
    <3>1. room = [code EXCEPT !.capacity = code.capacity * 2,
                              !.block = IF CodeMoves THEN code.block + 1 ELSE code.block]
      BY <2>3 DEF ByteCode_grow
    <3>. HIDE DEF room
    <3>2. /\ DOMAIN room = Fields /\ room.items = code.items /\ room.lineRuns = code.lineRuns
          /\ room.capacity = code.capacity * 2
          /\ room.block = IF CodeMoves THEN code.block + 1 ELSE code.block
      BY <2>1, <3>1 DEF Fields
    <3>. HIDE DEF n, count
    <3>3. room.block \in Nat
      BY <2>1, <3>2
    <3>4. room.capacity \in Nat /\ room.capacity >= 4 /\ count + n <= room.capacity
      <4>1. \A capacity \in Nat : \A held \in Nat : \A more \in 1 .. 4 :
              capacity >= 4 /\ held <= capacity =>
                capacity * 2 \in Nat /\ capacity * 2 >= 4 /\ held + more <= capacity * 2
        OBVIOUS
      <4>2. room.capacity = code.capacity * 2 /\ code.capacity \in Nat /\ code.capacity >= 4
            /\ count \in Nat /\ count <= code.capacity /\ n \in 1 .. 4
        BY <1>1, <2>1, <3>2
      <4>. QED
        BY <4>1, <4>2
    <3>. QED
      BY <3>2, <3>3, <3>4
  <2>. QED
    BY <2>2, <2>3
<1>3. /\ DOMAIN code' = Fields
      /\ code'.items = code.items \o bytes
      /\ code'.capacity = room.capacity /\ code'.block = room.block
      /\ code'.lineRuns = ByteCode_updateLineRuns(code.lineRuns, line, n)
  <2>1. code' = [room EXCEPT !.items = room.items \o bytes,
                             !.lineRuns = ByteCode_updateLineRuns(room.lineRuns, line, n)]
    BY DEF Emit, AppendBytes
  <2>. HIDE DEF room, n
  <2>. QED
    BY <1>2, <2>1 DEF Fields
<1>4. /\ added \in Seq(Entries) /\ Len(added) = n
      /\ \A k \in 1 .. n : added[k].line = line /\ added[k].byte = bytes[k]
  <2>1. \A k \in 1 .. n : [byte |-> bytes[k], line |-> line] \in Entries
    BY ElementOfSeq DEF Entries
  <2>. QED
    BY <1>1, <2>1
<1>5. written' = written \o added /\ checkpoint' = checkpoint
  BY DEF Emit
<1>. HIDE DEF added, room, n
<1>6. /\ code.items \o bytes \in Seq(0 .. 255) /\ Len(code.items \o bytes) = count + n
      /\ \A k \in 1 .. count + n :
           (code.items \o bytes)[k] = IF k <= count THEN code.items[k] ELSE bytes[k - count]
  BY <1>1, ConcatProperties DEF n
<1>7. /\ written \o added \in Seq(Entries) /\ Len(written \o added) = count + n
      /\ \A k \in 1 .. count + n :
           (written \o added)[k] = IF k <= count THEN written[k] ELSE added[k - count]
  BY <1>1, <1>4, ConcatProperties, SMTT(30)
<1>. HIDE DEF count
<1>8. BlockOK'
  BY <1>2, <1>3, <1>6 DEF BlockOK
<1>9. BytesOK'
  <2>1. ASSUME NEW k \in 1 .. count + n
        PROVE  (code.items \o bytes)[k] = (written \o added)[k].byte
    <3>1. CASE k <= count
      <4>1. k \in 1 .. Len(written)
        BY <1>1, <3>1
      <4>. QED
        BY <1>6, <1>7, <3>1, <4>1 DEF IInv, BytesOK
    <3>2. CASE ~ (k <= count)
      <4>1. k - count \in 1 .. n
        BY <1>1, <3>2
      <4>. QED
        BY <1>4, <1>6, <1>7, <3>2, <4>1
    <3>. QED
      BY <3>1, <3>2
  <2>2. checkpoint \in 0 .. count + n
    BY <1>1 DEF IInv, BytesOK
  <2>. QED
    BY <1>3, <1>5, <1>6, <1>7, <2>1, <2>2 DEF BytesOK
<1>10. Covers(code.lineRuns, written)'
  <2>1. Covers(ByteCode_updateLineRuns(code.lineRuns, line, Len(added)), written \o added)
    BY <1>1, <1>4, AddedBytesAreCovered DEF IInv
  <2>. QED
    BY <1>3, <1>4, <1>5, <2>1
<1>. QED
  BY <1>8, <1>9, <1>10 DEF IInv

(* The appenders write bytes: an int16_t or int32_t is cut into them.      *)
LEMMA AppendersEmitBytes ==
  ASSUME NEW b \in Bytes
  PROVE  /\ <<b>> \in Seq(0 .. 255) /\ Len(<<b>>) \in 1 .. 4
         /\ Int16Bytes(-b) \in Seq(0 .. 255) /\ Len(Int16Bytes(-b)) \in 1 .. 4
         /\ Int32Bytes(b * 256) \in Seq(0 .. 255) /\ Len(Int32Bytes(b * 256)) \in 1 .. 4
<1>1. b \in 0 .. 255 /\ b \in Int /\ -b \in Int /\ b * 256 \in Int
  BY ByteAssumption
<1>2. \A i \in Int : /\ i % 256 \in 0 .. 255 /\ (i \div 256) % 256 \in 0 .. 255
                    /\ (i \div 65536) % 256 \in 0 .. 255 /\ (i \div 16777216) % 256 \in 0 .. 255
  OBVIOUS
<1>3. \A i \in Int : Int16Bytes(i) \in Seq(0 .. 255) /\ Len(Int16Bytes(i)) = 2
  BY <1>2 DEF Int16Bytes
<1>4. \A i \in Int : Int32Bytes(i) \in Seq(0 .. 255) /\ Len(Int32Bytes(i)) = 4
  BY <1>2 DEF Int32Bytes
<1>5. <<b>> \in Seq(0 .. 255) /\ Len(<<b>>) = 1
  BY <1>1
<1>. QED
  BY <1>1, <1>3, <1>4, <1>5

(* A patch replaces two bytes that were written, and keeps their lines.    *)
LEMMA PatchIInv ==
  ASSUME IInv, Patch
  PROVE  IInv'
<1>1. PICK index \in checkpoint .. ByteCode_count(code) - 2, b \in Bytes :
        /\ code' = PatchAt(code, index, b)
        /\ written' = [written EXCEPT ![index + 1].byte = b, ![index + 2].byte = 0]
        /\ checkpoint' = checkpoint
  BY DEF Patch
<1>. DEFINE count == Len(code.items)
            items == [code.items EXCEPT ![index + 1] = b, ![index + 2] = 0]
<1>2. /\ count \in Nat /\ code.items \in Seq(0 .. 255) /\ code.items \in [1 .. count -> 0 .. 255]
      /\ written \in Seq(Entries) /\ Len(written) = count /\ written \in [1 .. count -> Entries]
      /\ checkpoint \in 0 .. count
  <2>1. /\ code.items \in Seq(0 .. 255) /\ written \in Seq(Entries)
        /\ Len(written) = Len(code.items) /\ checkpoint \in 0 .. Len(written)
    BY DEF IInv, BlockOK, BytesOK
  <2>2. /\ Len(code.items) \in Nat /\ code.items \in [1 .. Len(code.items) -> 0 .. 255]
        /\ written \in [1 .. Len(written) -> Entries]
    BY <2>1, LenProperties
  <2>. QED
    BY <2>1, <2>2
<1>3. b \in 0 .. 255 /\ Int16Bytes(b)[1] = b /\ Int16Bytes(b)[2] = 0
  <2>1. b \in 0 .. 255
    BY ByteAssumption
  <2>2. b % 256 = b /\ (b \div 256) % 256 = 0
    BY <2>1
  <2>. QED
    BY <2>1, <2>2 DEF Int16Bytes
<1>4. index \in Nat /\ index + 1 \in 1 .. count /\ index + 2 \in 1 .. count
  BY <1>2 DEF ByteCode_count
<1>5. DOMAIN code' = Fields /\ code'.items = items
      /\ code'.capacity = code.capacity /\ code'.block = code.block /\ code'.lineRuns = code.lineRuns
  BY <1>1, <1>3 DEF PatchAt, IInv, BlockOK, Fields
<1>6. items \in Seq(0 .. 255) /\ Len(items) = count
  <2>. DEFINE one == [code.items EXCEPT ![index + 1] = b]
  <2>1. one \in Seq(0 .. 255) /\ Len(one) = count
    BY <1>2, <1>3, <1>4, ExceptSeq
  <2>2. items = [one EXCEPT ![index + 2] = 0] /\ 0 \in 0 .. 255
    OBVIOUS
  <2>. HIDE DEF one, items
  <2>. QED
    BY <1>4, <2>1, <2>2, ExceptSeq
<1>7. \A k \in 1 .. count : /\ written[k] \in Entries
                           /\ written[k].line \in Nat /\ DOMAIN written[k] = {"byte", "line"}
  BY <1>2 DEF Entries
<1>8. written' \in [1 .. count -> Entries]
      /\ \A k \in 1 .. count : /\ written'[k].line = written[k].line
                              /\ written'[k].byte = IF k = index + 1 THEN b
                                                    ELSE IF k = index + 2 THEN 0 ELSE written[k].byte
  <2>. DEFINE first == [written[index + 1] EXCEPT !.byte = b]
              second == [written[index + 2] EXCEPT !.byte = 0]
  <2>1. /\ first \in Entries /\ first.line = written[index + 1].line /\ first.byte = b
        /\ second \in Entries /\ second.line = written[index + 2].line /\ second.byte = 0
    BY <1>3, <1>4, <1>7, SMTT(30) DEF Entries
  <2>2. index + 1 # index + 2
    BY <1>4
  <2>3. written' = [[written EXCEPT ![index + 1] = first] EXCEPT ![index + 2] = second]
    BY <1>1, <1>2, <1>4, <2>2
  <2>. HIDE DEF first, second
  <2>. QED
    BY <1>2, <1>4, <2>1, <2>2, <2>3
<1>9. written' \in Seq(Entries) /\ Len(written') = count
  BY <1>2, <1>8
<1>10. BlockOK'
  BY <1>5, <1>6 DEF IInv, BlockOK
<1>11. BytesOK'
  <2>1. \A k \in 1 .. count : items[k] = written'[k].byte
    BY <1>2, <1>4, <1>8 DEF IInv, BytesOK
  <2>. HIDE DEF items
  <2>. QED
    BY <1>1, <1>2, <1>5, <1>6, <1>9, <2>1 DEF BytesOK
<1>12. Covers(code.lineRuns, written)'
  BY <1>2, <1>5, <1>8, <1>9 DEF IInv, Covers
<1>. QED
  BY <1>10, <1>11, <1>12 DEF IInv

(* A failed compilation leaves the bytes it started after and their lines. *)
LEMMA RewindIInv ==
  ASSUME IInv, Rewind
  PROVE  IInv'
<1>. DEFINE runs == code.lineRuns
            count == checkpoint
            last == FirstOf({i \in 1 .. Len(runs) : RunsUpTo(runs, i) >= count})
            excess == RunsUpTo(runs, last) - count
            items == SubSeq(code.items, 1, count)
            left == [SubSeq(runs, 1, last) EXCEPT ![last].run = @ - excess]
<1>1. /\ code' = [code EXCEPT !.items = items, !.lineRuns = left]
      /\ written' = SubSeq(written, 1, count) /\ checkpoint' = checkpoint
  BY DEF Rewind, ByteCode_rewind
<1>2. /\ code.items \in Seq(0 .. 255) /\ Len(code.items) \in Nat /\ Len(code.items) <= code.capacity
      /\ code.capacity \in Nat /\ written \in Seq(Entries) /\ Len(written) = Len(code.items)
      /\ count \in 0 .. Len(written) /\ Covers(runs, written) /\ runs \in LineRuns
      /\ \A k \in 1 .. Len(written) : code.items[k] = written[k].byte
  BY LenProperties DEF IInv, BlockOK, BytesOK, Covers
<1>3. last \in 1 .. Len(runs)
  <2>1. count \in Nat /\ count <= RunsUpTo(runs, Len(runs)) /\ Len(runs) >= 1
    BY <1>2 DEF Covers
  <2>. HIDE DEF runs, count
  <2>. QED
    BY <1>2, <2>1, FirstRunReaching
<1>4. Covers(left, SubSeq(written, 1, count))
  <2>. HIDE DEF runs, count
  <2>1. last = FirstOf({i \in 1 .. Len(runs) : RunsUpTo(runs, i) >= count})
        /\ excess = RunsUpTo(runs, last) - count
    OBVIOUS
  <2>. HIDE DEF last, excess
  <2>. QED
    BY <1>2, <1>3, <2>1, BytesLeftAreCovered
<1>5. /\ items \in Seq(0 .. 255) /\ Len(items) = count /\ count \in Nat
      /\ \A k \in 1 .. count : items[k] = code.items[k]
  <2>1. count \in 0 .. Len(code.items) /\ code.items \in Seq(0 .. 255)
    BY <1>2
  <2>. HIDE DEF count, items, runs, last, excess, left
  <2>2. /\ SubSeq(code.items, 1, count) \in Seq(0 .. 255)
        /\ Len(SubSeq(code.items, 1, count)) = count /\ count \in Nat
        /\ \A k \in 1 .. count : SubSeq(code.items, 1, count)[k] = code.items[k]
    BY <2>1, Prefix
  <2>. QED
    BY <2>2 DEF items
<1>6. /\ SubSeq(written, 1, count) \in Seq(Entries) /\ Len(SubSeq(written, 1, count)) = count
      /\ \A k \in 1 .. count : SubSeq(written, 1, count)[k] = written[k]
  <2>1. count \in 0 .. Len(written) /\ written \in Seq(Entries)
    BY <1>2
  <2>. HIDE DEF count, items, runs, last, excess, left
  <2>. QED
    BY <2>1, Prefix
<1>. HIDE DEF items, left
<1>7. /\ DOMAIN code' = Fields /\ code'.items = items /\ code'.lineRuns = left
      /\ code'.capacity = code.capacity /\ code'.block = code.block
  BY <1>1 DEF IInv, BlockOK, Fields
<1>8. BlockOK'
  BY <1>2, <1>5, <1>7 DEF IInv, BlockOK
<1>9. BytesOK'
  BY <1>1, <1>2, <1>5, <1>6, <1>7 DEF BytesOK
<1>. QED
  BY <1>1, <1>4, <1>7, <1>8, <1>9 DEF IInv

LEMMA StepIInv == IInv /\ [Next]_vars => IInv'
<1>. SUFFICES ASSUME IInv, [Next]_vars PROVE IInv'
  OBVIOUS
<1>1. CASE EmitByte \/ EmitInt16 \/ EmitInt32
  <2>1. PICK b \in Bytes, line \in Lines :
          Emit(<<b>>, line) \/ Emit(Int16Bytes(-b), line) \/ Emit(Int32Bytes(b * 256), line)
    BY <1>1 DEF EmitByte, EmitInt16, EmitInt32
  <2>2. line \in Nat
    BY LineAssumption
  <2>3. CASE Emit(<<b>>, line)
    BY <2>2, <2>3, EmitIInv, AppendersEmitBytes
  <2>4. CASE Emit(Int16Bytes(-b), line)
    BY <2>2, <2>4, EmitIInv, AppendersEmitBytes
  <2>5. CASE Emit(Int32Bytes(b * 256), line)
    BY <2>2, <2>5, EmitIInv, AppendersEmitBytes
  <2>. QED
    BY <2>1, <2>3, <2>4, <2>5
<1>2. CASE EmitBlob
  <2>1. code' = [code EXCEPT !.blobs = Append(code.blobs, "blob")]
    BY <1>2 DEF EmitBlob, BlobList_append
  <2>2. DOMAIN code' = Fields /\ code'.items = code.items /\ code'.lineRuns = code.lineRuns
        /\ code'.capacity = code.capacity /\ code'.block = code.block
    BY <2>1 DEF IInv, BlockOK, Fields
  <2>. QED
    BY <1>2, <2>2 DEF EmitBlob, IInv, BlockOK, BytesOK
<1>3. CASE Patch
  BY <1>3, PatchIInv
<1>4. CASE Begin
  <2>1. Len(written) \in Nat
    BY LenProperties DEF IInv, BytesOK
  <2>. QED
    BY <1>4, <2>1 DEF Begin, ByteCode_count, IInv, BlockOK, BytesOK
<1>5. CASE Rewind
  BY <1>5, RewindIInv
<1>6. CASE UNCHANGED vars
  BY <1>6 DEF vars, IInv, BlockOK, BytesOK
<1>. QED
  BY <1>1, <1>2, <1>3, <1>4, <1>5, <1>6 DEF Next

LEMMA Invariance == Spec => []IInv
BY InitIInv, StepIInv, PTL DEF Spec

-------------------------------------------------------------------------------
(* No append writes past its block, and the runs stand for exactly the     *)
(* bytes there are, as ByteCode_getLine asserts.                           *)
THEOREM TypeCorrect == Spec => []TypeOK
<1>1. IInv => TypeOK
  <2>. SUFFICES ASSUME IInv PROVE TypeOK
    OBVIOUS
  <2>1. code.items \in Seq(0 .. 255) /\ code.capacity \in Nat /\ code.block \in Nat
        /\ Len(code.items) <= code.capacity /\ checkpoint \in 0 .. Len(code.items)
    BY DEF IInv, BlockOK, BytesOK
  <2>2. \A i \in DOMAIN code.lineRuns : code.lineRuns[i].line \in Nat /\ code.lineRuns[i].run \in Nat
    BY RunFields DEF IInv, Covers
  <2>3. RunsUpTo(code.lineRuns, Len(code.lineRuns)) = Len(code.items)
    BY DEF IInv, Covers, BytesOK
  <2>. QED
    BY <2>1, <2>2, <2>3 DEF TypeOK, CodeFits, RunsCoverTheCode, ByteCode_count
<1>. QED
  BY <1>1, Invariance, PTL

(* Growing, patching and rewinding disturb no byte but those they are      *)
(* meant for (ByteCode_grow, ByteCode_rewind).                             *)
THEOREM CodeIsKept == Spec => []CodeIsWhatWasEmitted
<1>1. IInv => CodeIsWhatWasEmitted
  <2>. SUFFICES ASSUME IInv PROVE CodeIsWhatWasEmitted
    OBVIOUS
  <2>1. code.items \in [1 .. Len(written) -> 0 .. 255]
    <3>1. code.items \in Seq(0 .. 255) /\ Len(written) = Len(code.items)
      BY DEF IInv, BlockOK, BytesOK
    <3>. QED
      BY <3>1, LenProperties
  <2>. QED
    BY <2>1 DEF CodeIsWhatWasEmitted, IInv, BytesOK
<1>. QED
  BY <1>1, Invariance, PTL

(* ByteCode_getLine finds the line every byte was emitted from, after any  *)
(* number of rewinds: its last assertion is never reached.                 *)
THEOREM LinesAreRight == Spec => []LinesAreReported
<1>1. IInv => LinesAreReported
  <2>. SUFFICES ASSUME IInv, NEW index \in 0 .. ByteCode_count(code) - 1
                PROVE  ByteCode_getLine(code, index) = written[index + 1].line
    BY DEF LinesAreReported
  <2>. DEFINE runs == code.lineRuns
              first == FirstOf({i \in 1 .. Len(runs) : RunsUpTo(runs, i) > index})
  <2>1. /\ Len(written) \in Nat /\ ByteCode_count(code) = Len(written)
        /\ runs \in LineRuns /\ RunsUpTo(runs, Len(runs)) = Len(written)
    BY LenProperties DEF IInv, BytesOK, Covers, ByteCode_count
  <2>2. index \in Nat /\ index < RunsUpTo(runs, Len(runs)) /\ index + 1 \in 1 .. Len(written)
    BY <2>1
  <2>. HIDE DEF runs
  <2>3. /\ first \in 1 .. Len(runs)
        /\ RunsUpTo(runs, first) > index
        /\ RunsUpTo(runs, first - 1) <= index
    BY <2>1, <2>2, FirstRunPassing
  <2>4. first \in 0 .. Len(runs) /\ first - 1 \in 0 .. Len(runs)
    BY <2>1, <2>3, RunFields
  <2>. HIDE DEF first
  <2>5. RunsUpTo(runs, first) \in Nat /\ RunsUpTo(runs, first - 1) \in Nat
    BY <2>1, <2>4, SumsAreNatural
  <2>6. RunsUpTo(runs, first - 1) < index + 1 /\ index + 1 <= RunsUpTo(runs, first)
    BY <2>2, <2>3, <2>5
  <2>7. written[index + 1].line = runs[first].line
    BY <2>2, <2>3, <2>6 DEF IInv, Covers, runs
  <2>. QED
    BY <2>7 DEF ByteCode_getLine, runs, first
<1>. QED
  BY <1>1, Invariance, PTL
===============================================================================
