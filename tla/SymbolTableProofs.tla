--------------------------- MODULE SymbolTableProofs ---------------------------
(***************************************************************************)
(* Whatever the names and their hashes, the symbol table keeps its         *)
(* promise: the invariants of SymbolTable and the refinement of Interning, *)
(* for every value of the constants.                                       *)
(***************************************************************************)
EXTENDS SymbolTable, NatLemmas, FiniteSetTheorems, SequenceTheorems, TLAPS

-------------------------------------------------------------------------------
(* Where a probe goes and what it finds, for every capacity, every hash    *)
(* function and every multiplier.                                          *)

(* A capacity that getIndex can compute with.                              *)
Fits(capacity) == capacity \in Nat \ {0} /\ HashSpace % capacity = 0

(* From home on to the slot, both included, every slot is taken.           *)
Reaches(home, slot, taken, capacity) ==
  \E offset \in 0 .. capacity - 1 :
    /\ After(home, offset, capacity) = slot
    /\ \A nearer \in 0 .. offset : After(home, nearer, capacity) \in taken

(* The text pointer points at a name of a line that is kept.               *)
Inside(text, earlier, current) ==
  /\ text.buffer \in DOMAIN Append(earlier, current)
  /\ text.at \in DOMAIN Append(earlier, current)[text.buffer]

-------------------------------------------------------------------------------
(* A hash falls in a slot of the array. *)
LEMMA IndexIsASlot ==
  ASSUME NEW hash \in Nat, NEW capacity, Fits(capacity)
  PROVE  getIndex(hash, capacity) \in 0 .. capacity - 1
<1>. DEFINE d == HashSpace \div capacity
            x == (Multiplier * hash) % HashSpace
<1>1. HashSpace \in Nat \ {0} /\ Multiplier * hash \in Nat
  BY HashAssumption
<1>2. HashSpace = capacity * d /\ d \in Nat
  BY <1>1, Multiple DEF Fits
<1>3. d # 0
  BY <1>1, <1>2 DEF Fits
<1>4. x \in 0 .. HashSpace - 1
  BY <1>1, RemainderBelow
<1>5. x < d * capacity
  BY <1>2, <1>4, HashAssumption DEF Fits
<1>6. x \div d \in 0 .. capacity - 1
  <2>1. x \in Nat /\ d \in Nat \ {0} /\ capacity \in Nat
    BY <1>2, <1>3, <1>4 DEF Fits
  <2>. HIDE DEF x, d
  <2>. QED
    BY <2>1, <1>5, QuotientBelow
<1>. QED
  BY <1>6 DEF getIndex

(* So does every slot after it, *)
LEMMA AfterIsASlot ==
  ASSUME NEW capacity \in Nat \ {0}, NEW home \in 0 .. capacity - 1,
         NEW offset \in 0 .. capacity - 1
  PROVE  After(home, offset, capacity) \in 0 .. capacity - 1
BY RemainderBelow DEF After

(* and going on from a slot comes to every other one. *)
LEMMA AllSlotsCome ==
  ASSUME NEW capacity \in Nat \ {0}, NEW home \in 0 .. capacity - 1,
         NEW slot \in 0 .. capacity - 1
  PROVE  \E offset \in 0 .. capacity - 1 : After(home, offset, capacity) = slot
<1>1. CASE slot >= home
  <2>1. slot - home \in 0 .. capacity - 1 /\ home + (slot - home) = slot
    BY <1>1
  <2>. QED
    BY <2>1, SmallRemainder DEF After
<1>2. CASE slot < home
  <2>1. slot + capacity - home \in 0 .. capacity - 1
        /\ home + (slot + capacity - home) = slot + capacity
    BY <1>2
  <2>. QED
    BY <2>1, SmallRemainder DEF After
<1>. QED
  BY <1>1, <1>2

(* A probe that ends has stopped at a slot it looked for, and no slot it   *)
(* passed is one.                                                          *)
LEMMA ProbeFinds ==
  ASSUME NEW capacity \in Nat \ {0}, NEW home \in 0 .. capacity - 1,
         NEW stops \in SUBSET (0 .. capacity - 1), ProbeEnds(stops)
  PROVE  \E offset \in 0 .. capacity - 1 :
           /\ Probe(stops, home, capacity) = After(home, offset, capacity)
           /\ Probe(stops, home, capacity) \in stops
           /\ \A nearer \in 0 .. offset - 1 : After(home, nearer, capacity) \notin stops
<1>. DEFINE offsets == {offset \in 0 .. capacity - 1 : After(home, offset, capacity) \in stops}
            Nearest(n) == n \in offsets /\ \A other \in offsets : n <= other
            nearest == CHOOSE n \in offsets : \A other \in offsets : n <= other
<1>1. PICK slot \in stops : TRUE
  BY DEF ProbeEnds
<1>2. offsets # {}
  BY <1>1, AllSlotsCome
<1>3. offsets \subseteq Nat
  OBVIOUS
<1>4. \E n \in offsets : \A other \in offsets : n <= other
  <2>. HIDE DEF offsets
  <2>. QED
    BY <1>2, <1>3, LeastNatural
<1>5. nearest \in offsets /\ \A other \in offsets : nearest <= other
  <2>. HIDE DEF offsets
  <2>. QED
    BY <1>4
<1>6. Probe(stops, home, capacity) = After(home, nearest, capacity)
  BY DEF Probe
<1>7. ASSUME NEW nearer \in 0 .. nearest - 1, After(home, nearer, capacity) \in stops
      PROVE  FALSE
  <2>1. nearest \in 0 .. capacity - 1
    BY <1>5
  <2>2. nearer \in 0 .. capacity - 1 /\ ~(nearest <= nearer)
    <3>. HIDE DEF nearest
    <3>. QED
      BY <2>1
  <2>3. nearer \in offsets
    BY <1>7, <2>2
  <2>. QED
    BY <1>5, <2>2, <2>3
<1>8. nearest \in 0 .. capacity - 1 /\ After(home, nearest, capacity) \in stops
  BY <1>5
<1>. HIDE DEF nearest
<1>. QED
  BY <1>6, <1>7, <1>8

-------------------------------------------------------------------------------
(* What is reached stays reached when more slots are taken, *)
LEMMA StaysReached ==
  ASSUME NEW home, NEW slot, NEW taken, NEW capacity, Reaches(home, slot, taken, capacity),
         NEW more, taken \subseteq more
  PROVE  Reaches(home, slot, more, capacity)
BY DEF Reaches

(* and what is put in the first free slot from its home is reached. *)
LEMMA FirstFreeIsReached ==
  ASSUME NEW capacity \in Nat \ {0}, NEW home \in 0 .. capacity - 1,
         NEW taken, NEW stops \in SUBSET (0 .. capacity - 1), ProbeEnds(stops),
         (0 .. capacity - 1) \ stops \subseteq taken
  PROVE  Reaches(home, Probe(stops, home, capacity),
                 taken \cup {Probe(stops, home, capacity)}, capacity)
<1>. DEFINE found == Probe(stops, home, capacity)
<1>1. PICK offset \in 0 .. capacity - 1 :
        /\ found = After(home, offset, capacity)
        /\ \A nearer \in 0 .. offset - 1 : After(home, nearer, capacity) \notin stops
  BY ProbeFinds
<1>2. ASSUME NEW nearer \in 0 .. offset
      PROVE  After(home, nearer, capacity) \in taken \cup {found}
  <2>1. CASE nearer = offset
    BY <1>1, <2>1
  <2>2. CASE nearer # offset
    <3>1. nearer \in 0 .. offset - 1 /\ nearer \in 0 .. capacity - 1
      BY <2>2
    <3>2. After(home, nearer, capacity) \in (0 .. capacity - 1) \ stops
      BY <1>1, <3>1, AfterIsASlot
    <3>. QED
      BY <3>2
  <2>. QED
    BY <2>1, <2>2
<1>. HIDE DEF found
<1>. QED
  BY <1>1, <1>2 DEF Reaches, found

(* A free slot is never passed by a probe for something that is reached:   *)
(* a probe that stops at free slots and at the one looked for finds it.    *)
LEMMA ReachedIsFound ==
  ASSUME NEW capacity \in Nat \ {0}, NEW home \in 0 .. capacity - 1,
         NEW taken, NEW stops \in SUBSET (0 .. capacity - 1),
         NEW slot \in stops, Reaches(home, slot, taken, capacity)
  PROVE  Probe(stops, home, capacity) \in taken
<1>1. ProbeEnds(stops)
  BY DEF ProbeEnds
<1>2. PICK offset \in 0 .. capacity - 1 :
        /\ After(home, offset, capacity) = slot
        /\ \A nearer \in 0 .. offset : After(home, nearer, capacity) \in taken
  BY DEF Reaches
<1>3. PICK nearest \in 0 .. capacity - 1 :
        /\ Probe(stops, home, capacity) = After(home, nearest, capacity)
        /\ \A nearer \in 0 .. nearest - 1 : After(home, nearer, capacity) \notin stops
  BY <1>1, ProbeFinds
<1>4. ~(offset < nearest)
  BY <1>2, <1>3
<1>5. nearest \in 0 .. offset
  BY <1>4
<1>. QED
  BY <1>2, <1>3, <1>5

(* An array with more slots than there are symbols has a free one, if no   *)
(* symbol is in two.                                                       *)
LEMMA RoomForOneMore ==
  ASSUME NEW capacity \in Nat, NEW n \in Nat, n < capacity,
         NEW taken \in SUBSET (0 .. capacity - 1), NEW item, 
         \A slot \in taken : item[slot] \in 1 .. n,
         \A slot, other \in taken : item[slot] = item[other] => slot = other
  PROVE  (0 .. capacity - 1) \ taken # {}
<1>. SUFFICES ASSUME taken = 0 .. capacity - 1 PROVE FALSE
  OBVIOUS
<1>. DEFINE slots == 0 .. capacity - 1
            numbers == 1 .. n
            f == [slot \in slots |-> item[slot]]
<1>1. IsFiniteSet(slots) /\ Cardinality(slots) = capacity
  BY FS_Interval
<1>2. IsFiniteSet(numbers) /\ Cardinality(numbers) = n
  BY FS_Interval
<1>3. f \in [slots -> numbers]
  OBVIOUS
<1>4. Cardinality(numbers) < Cardinality(slots)
  BY <1>1, <1>2
<1>5. \A x, y \in slots : x # y => f[x] # f[y]
  OBVIOUS
<1>. HIDE DEF f, slots, numbers
<1>. QED
  BY <1>1, <1>2, <1>3, <1>4, <1>5, FS_PigeonHole

(* Twice a capacity that is not the last one fits. *)
LEMMA DoubleFits ==
  ASSUME NEW capacity, Fits(capacity), capacity < HashSpace
  PROVE  Fits(2 * capacity)
<1>1. capacity \in 1 .. HashSpace - 1
  BY HashAssumption DEF Fits
<1>. QED
  BY <1>1, CapacityAssumption DEF Fits

-------------------------------------------------------------------------------
(* The texts stay where they are when a line is read, *)
LEMMA TextsKeptByReading ==
  ASSUME NEW earlier \in Seq(Seq(Names)), NEW names \in Seq(Names),
         NEW text, Inside(text, earlier, <<>>)
  PROVE  /\ Inside(text, earlier, names)
         /\ TextAt(text, earlier, names) = TextAt(text, earlier, <<>>)
<1>1. <<>> \in Seq(Names) /\ DOMAIN <<>> = {}
  OBVIOUS
<1>2. \A l \in Seq(Names) :
        /\ DOMAIN Append(earlier, l) = 1 .. Len(earlier) + 1
        /\ Append(earlier, l)[Len(earlier) + 1] = l
        /\ \A k \in 1 .. Len(earlier) : Append(earlier, l)[k] = earlier[k]
  BY AppendProperties, LenProperties
<1>3. text.buffer # Len(earlier) + 1
  BY <1>1, <1>2 DEF Inside
<1>4. text.buffer \in 1 .. Len(earlier)
  BY <1>1, <1>2, <1>3, LenProperties DEF Inside
<1>5. Append(earlier, names)[text.buffer] = Append(earlier, <<>>)[text.buffer]
      /\ DOMAIN Append(earlier, names) = DOMAIN Append(earlier, <<>>)
  BY <1>1, <1>2, <1>4
<1>. QED
  BY <1>5 DEF Inside, TextAt

(* and when its buffer is saved. *)
LEMMA TextsKeptBySaving ==
  ASSUME NEW earlier \in Seq(Seq(Names)), NEW current \in Seq(Names),
         NEW text, Inside(text, earlier, current)
  PROVE  /\ Inside(text, Append(earlier, current), <<>>)
         /\ TextAt(text, Append(earlier, current), <<>>) = TextAt(text, earlier, current)
<1>. DEFINE all == Append(earlier, current)
            next == Append(all, <<>>)
<1>1. all \in Seq(Seq(Names)) /\ <<>> \in Seq(Names)
  OBVIOUS
<1>2. DOMAIN all = 1 .. Len(all) /\ Len(all) \in Nat
  BY <1>1, LenProperties
<1>3. /\ DOMAIN next = 1 .. Len(all) + 1
      /\ \A k \in 1 .. Len(all) : next[k] = all[k]
  <2>. HIDE DEF all
  <2>. QED
    BY <1>1, AppendProperties, LenProperties
<1>4. text.buffer \in 1 .. Len(all) /\ text.buffer \in DOMAIN all
  BY <1>2 DEF Inside
<1>5. next[text.buffer] = all[text.buffer] /\ text.buffer \in DOMAIN next
  BY <1>2, <1>3, <1>4
<1>. HIDE DEF next
<1>. QED
  BY <1>4, <1>5 DEF Inside, TextAt, next
-------------------------------------------------------------------------------
(* The state machine.                                                      *)

Arrays(capacity) == [0 .. capacity - 1 -> {NULL} \cup DOMAIN symbols]

Symbols == [text : [buffer : Nat, at : Nat], hash : 0 .. HashSpace - 1]

(* The lines read so far, and the place reached in the current one.        *)
LinesOK ==
  /\ buffers \in Seq(Seq(Names)) /\ line \in Seq(Names)
  /\ at \in -1 .. Len(line) /\ Len(buffers) <= MaxLines
  /\ IF AtPrompt THEN line = <<>> ELSE Len(buffers) < MaxLines

(* The arrays have as many slots as getIndex can reach, and more than      *)
(* there are symbols; only a call moves slots.                             *)
ArraysOK ==
  /\ table = [items |-> table.items, load |-> table.load, capacity |-> table.capacity]
  /\ table.capacity \in Nat /\ table.load \in Nat
  /\ table.capacity = 0 => table.load = 0
  /\ table.capacity # 0 => /\ Fits(table.capacity)
                           /\ table.load <= table.capacity
                           /\ table.items \in Arrays(table.capacity)
  /\ IF Moving
     THEN /\ old = [items |-> old.items, next |-> old.next, capacity |-> old.capacity]
          /\ old.next \in Nat /\ old.capacity \in Nat /\ old.items \in Arrays(old.capacity)
          /\ table.capacity = 2 * old.capacity /\ table.load <= old.capacity
          /\ ~ AtPrompt /\ at < Len(line)
     ELSE old = NotMoving

(* Names and symbols belong to each other one to one: the texts are inside *)
(* the buffers that are kept.                                              *)
NamesOK ==
  /\ symbols \in Seq(Symbols)
  /\ DOMAIN handedOut \subseteq Names
  /\ handedOut \in [DOMAIN handedOut -> DOMAIN symbols]
  /\ \A name \in DOMAIN handedOut : NameOf(handedOut[name]) = name
  /\ \A symbol \in DOMAIN symbols :
       /\ Inside(symbols[symbol].text, buffers, line)
       /\ NameOf(symbol) \in DOMAIN handedOut
       /\ handedOut[NameOf(symbol)] = symbol
       /\ symbols[symbol].hash = hashSymbol[NameOf(symbol)]

(* The symbols are the contents of the occupied slots, old and new, and no *)
(* two slots hold the same one.                                            *)
SlotsOK ==
  /\ table.load = Len(symbols)
  /\ \A symbol \in DOMAIN symbols :
       (\E slot \in Occupied : table.items[slot] = symbol)
         \/ (\E slot \in NotMoved : old.items[slot] = symbol)
  /\ \A slot, other \in Occupied : table.items[slot] = table.items[other] => slot = other
  /\ \A slot, other \in NotMoved : old.items[slot] = old.items[other] => slot = other
  /\ \A slot \in Occupied : \A other \in NotMoved : table.items[slot] # old.items[other]

IInv == LinesOK /\ ArraysOK /\ NamesOK /\ SlotsOK /\ SymbolsAreReachable

-------------------------------------------------------------------------------
(* What the typing of the heap says of one symbol.                         *)
LEMMA SymbolFields ==
  ASSUME symbols \in Seq(Symbols)
  PROVE  /\ Len(symbols) \in Nat /\ DOMAIN symbols = 1 .. Len(symbols)
         /\ NULL \notin DOMAIN symbols
         /\ \A symbol \in DOMAIN symbols :
              /\ symbols[symbol] \in Symbols
              /\ symbols[symbol].hash \in 0 .. HashSpace - 1
              /\ symbols[symbol].hash \in Nat
<1>1. Len(symbols) \in Nat /\ DOMAIN symbols = 1 .. Len(symbols)
  BY LenProperties
<1>2. NULL \notin DOMAIN symbols
  BY <1>1 DEF NULL
<1>3. ASSUME NEW symbol \in DOMAIN symbols PROVE symbols[symbol] \in Symbols
  BY <1>1, <1>3, ElementOfSeq
<1>4. \A x \in Symbols : x.hash \in 0 .. HashSpace - 1 /\ x.hash \in Nat
  BY HashAssumption DEF Symbols
<1>. QED
  BY <1>1, <1>2, <1>3, <1>4

(* There are no more symbols than names. *)
LEMMA SymbolsAreFew ==
  ASSUME NamesOK
  PROVE  Len(symbols) \in Nat /\ Cardinality(Names) \in Nat
         /\ Len(symbols) <= Cardinality(Names)
<1>. DEFINE numbers == 1 .. Len(symbols)
            f == [symbol \in numbers |-> NameOf(symbol)]
<1>1. Len(symbols) \in Nat /\ DOMAIN symbols = numbers
  BY SymbolFields DEF NamesOK
<1>2. IsFiniteSet(Names) /\ Cardinality(Names) \in Nat
  BY NamesAssumption, FS_CardinalityType
<1>3. IsFiniteSet(numbers) /\ Cardinality(numbers) = Len(symbols)
  <2>1. \A n \in Nat : IsFiniteSet(1 .. n) /\ Cardinality(1 .. n) = n
    BY FS_Interval
  <2>. QED
    BY <1>1, <2>1
<1>4. f \in [numbers -> Names]
  BY <1>1 DEF NamesOK
<1>5. \A x, y \in numbers : f[x] = f[y] => x = y
  BY <1>1 DEF NamesOK
<1>6. ~ (Cardinality(Names) < Cardinality(numbers))
  <2>. HIDE DEF f, numbers
  <2>. QED
    BY <1>2, <1>3, <1>4, <1>5, FS_PigeonHole
<1>. QED
  BY <1>1, <1>2, <1>3, <1>6

(* A table with fewer symbols than slots has a free slot, which is one     *)
(* that is not occupied.                                                   *)
LEMMA FreeSlotsAreTheOthers ==
  FreeSlots(table) = Slots \ Occupied /\ Occupied \subseteq Slots
BY DEF FreeSlots, Slots, Occupied

LEMMA RoomInTable ==
  ASSUME ArraysOK, NamesOK, SlotsOK, table.load < table.capacity
  PROVE  ProbeEnds(FreeSlots(table))
<1>1. table.capacity \in Nat \ {0} /\ table.load \in Nat /\ table.items \in Arrays(table.capacity)
  BY DEF ArraysOK
<1>2. DOMAIN symbols = 1 .. table.load
  BY SymbolFields DEF NamesOK, SlotsOK
<1>3. \A slot \in Occupied : table.items[slot] \in 1 .. table.load
  BY <1>1, <1>2 DEF Arrays, Occupied, Slots
<1>4. (0 .. table.capacity - 1) \ Occupied # {}
  <2>1. \A slot, other \in Occupied : table.items[slot] = table.items[other] => slot = other
    BY DEF SlotsOK
  <2>2. Occupied \in SUBSET (0 .. table.capacity - 1)
    BY FreeSlotsAreTheOthers DEF Slots
  <2>. QED
    BY <1>1, <1>3, <2>1, <2>2, RoomForOneMore
<1>. QED
  BY <1>4, FreeSlotsAreTheOthers DEF Slots, ProbeEnds

(* The symbols that must be reached, in the words of the lemmas.           *)
LEMMA ReachableMeansReached ==
  SymbolsAreReachable <=>
    \A slot \in Occupied :
      Reaches(getIndex(symbols[table.items[slot]].hash, table.capacity), slot, Occupied, table.capacity)
BY DEF SymbolsAreReachable, Reaches

-------------------------------------------------------------------------------
LEMMA InitIInv == Init => IInv
<1>. SUFFICES ASSUME Init PROVE IInv
  OBVIOUS
<1>. USE DEF Init, SymbolTable_init, NotMoving, BufferList_init
<1>1. ~ Moving /\ AtPrompt /\ Occupied = {} /\ NotMoved = {} /\ DOMAIN symbols = {}
      /\ DOMAIN handedOut = {} /\ Len(symbols) = 0
  BY DEF Moving, AtPrompt, Occupied, Slots, NotMoved
<1>2. LinesOK
  BY <1>1, LinesAssumption DEF LinesOK
<1>3. ArraysOK
  BY <1>1 DEF ArraysOK
<1>4. NamesOK
  <2>1. handedOut \in [DOMAIN handedOut -> DOMAIN symbols]
    BY <1>1
  <2>. QED
    BY <1>1, <2>1 DEF NamesOK
<1>5. SlotsOK /\ SymbolsAreReachable
  BY <1>1 DEF SlotsOK, SymbolsAreReachable
<1>. QED
  BY <1>2, <1>3, <1>4, <1>5 DEF IInv

(* Entering a line moves no slot, and the texts read before stay where     *)
(* they are.                                                               *)
LEMMA ReadLineIInv ==
  ASSUME IInv, NEW names \in Lines, ReadLine(names)
  PROVE  IInv'
<1>. USE DEF ReadLine
<1>1. names \in Seq(Names) /\ Len(names) \in Nat
  BY LinesAssumption, LenProperties
<1>2. AtPrompt /\ line = <<>> /\ ~ Moving /\ ~ Moving' /\ ~ AtPrompt'
  BY <1>1 DEF IInv, LinesOK, ArraysOK, Moving, AtPrompt
<1>3. LinesOK'
  BY <1>1, <1>2 DEF IInv, LinesOK
<1>4. ArraysOK'
  BY <1>2 DEF IInv, ArraysOK, Arrays
<1>5. NamesOK'
  <2>1. ASSUME NEW symbol \in DOMAIN symbols
        PROVE  Inside(symbols[symbol].text, buffers, names) /\ NameOf(symbol)' = NameOf(symbol)
    BY <1>1, <1>2, TextsKeptByReading DEF IInv, NamesOK, LinesOK, NameOf
  <2>2. \A name \in DOMAIN handedOut : handedOut[name] \in DOMAIN symbols
    BY DEF IInv, NamesOK
  <2>. QED
    BY <2>1, <2>2 DEF IInv, NamesOK
<1>6. SlotsOK' /\ SymbolsAreReachable'
  BY DEF IInv, SlotsOK, SymbolsAreReachable, Occupied, NotMoved, Slots
<1>. QED
  BY <1>3, <1>4, <1>5, <1>6 DEF IInv

(* The buffer of a line is kept when it ends, whether it compiled or not.  *)
LEMMA EndLineIInv ==
  ASSUME IInv, EndLine
  PROVE  IInv'
<1>. USE DEF EndLine
<1>1. buffers' = Append(buffers, line) /\ line' = <<>> /\ at' = -1
  BY DEF BufferList_append
<1>2. buffers \in Seq(Seq(Names)) /\ line \in Seq(Names) /\ Len(buffers) < MaxLines
  BY DEF IInv, LinesOK
<1>3. LinesOK'
  <2>1. Append(buffers, line) \in Seq(Seq(Names)) /\ Len(Append(buffers, line)) = Len(buffers) + 1
        /\ Len(buffers) \in Nat
    BY <1>2, AppendProperties, LenProperties
  <2>2. Len(<<>>) = 0 /\ <<>> \in Seq(Names)
    OBVIOUS
  <2>. QED
    BY <1>1, <1>2, <2>1, <2>2, LinesAssumption DEF LinesOK, AtPrompt
<1>4. ArraysOK'
  BY DEF IInv, ArraysOK, Arrays, Moving
<1>5. NamesOK'
  <2>1. ASSUME NEW symbol \in DOMAIN symbols
        PROVE  Inside(symbols[symbol].text, buffers', line') /\ NameOf(symbol)' = NameOf(symbol)
    BY <1>1, <1>2, TextsKeptBySaving DEF IInv, NamesOK, NameOf
  <2>2. \A name \in DOMAIN handedOut : handedOut[name] \in DOMAIN symbols
    BY DEF IInv, NamesOK
  <2>. QED
    BY <2>1, <2>2 DEF IInv, NamesOK
<1>6. SlotsOK' /\ SymbolsAreReachable'
  BY DEF IInv, SlotsOK, SymbolsAreReachable, Occupied, NotMoved, Slots
<1>. QED
  BY <1>3, <1>4, <1>5, <1>6 DEF IInv

(* The first array is all free slots, and there is no symbol yet.          *)
LEMMA AllocateTableIInv ==
  ASSUME IInv, AllocateTable
  PROVE  IInv'
<1>. USE DEF AllocateTable
<1>1. /\ table.capacity = 0 /\ table.load = 0 /\ Len(symbols) = 0 /\ old = NotMoving
      /\ ~ AtPrompt /\ ~ Moving
  BY DEF MustAllocate, LookingUp, IInv, ArraysOK, SlotsOK
<1>2. InitialCapacity \in Nat \ {0} /\ Fits(InitialCapacity)
  BY CapacityAssumption DEF Fits
<1>3. table' = [items |-> calloc(InitialCapacity), load |-> 0, capacity |-> InitialCapacity]
  BY <1>1 DEF Allocate, IInv, ArraysOK
<1>4. Occupied' = {} /\ DOMAIN symbols = {} /\ NotMoved' = {}
  <2>1. Occupied' = {}
    BY <1>3 DEF Occupied, Slots, calloc
  <2>2. DOMAIN symbols = {}
    BY <1>1, SymbolFields DEF IInv, NamesOK
  <2>3. NotMoved' = {}
    BY <1>1 DEF NotMoved, NotMoving
  <2>. QED
    BY <2>1, <2>2, <2>3
<1>5. LinesOK'
  BY DEF IInv, LinesOK, AtPrompt
<1>6. ArraysOK'
  <2>1. table.items' \in Arrays(table.capacity)'
    BY <1>3 DEF Arrays, calloc
  <2>2. ~ Moving' /\ old' = NotMoving
    BY <1>1 DEF Moving
  <2>. QED
    BY <1>2, <1>3, <2>1, <2>2 DEF ArraysOK
<1>7. NamesOK'
  BY DEF IInv, NamesOK, NameOf
<1>8. SlotsOK' /\ SymbolsAreReachable'
  BY <1>1, <1>3, <1>4 DEF SlotsOK, SymbolsAreReachable
<1>. QED
  BY <1>5, <1>6, <1>7, <1>8 DEF IInv

(* Growing leaves the symbols where they are, in the old array, and the    *)
(* new one is all free slots.                                              *)
LEMMA GrowTableIInv ==
  ASSUME IInv, GrowTable
  PROVE  IInv'
<1>. USE DEF GrowTable
<1>1. /\ table.capacity \in Nat \ {0} /\ table.load \in Nat /\ 4 * table.load >= 3 * table.capacity
      /\ Fits(table.capacity) /\ table.load <= table.capacity
      /\ table.items \in Arrays(table.capacity)
      /\ old = NotMoving /\ ~ AtPrompt /\ at < Len(line)
  BY DEF MustGrow, LookingUp, IInv, ArraysOK
<1>2. Fits(2 * table.capacity)
  <2>1. table.load <= Cardinality(Names) /\ Cardinality(Names) \in Nat
    BY SymbolsAreFew DEF IInv, SlotsOK
  <2>2. table.capacity < HashSpace
    BY <1>1, <2>1, NamesAssumption, HashAssumption
  <2>. QED
    BY <1>1, <2>2, DoubleFits
<1>3. /\ table' = [items |-> calloc(2 * table.capacity), load |-> table.load,
                   capacity |-> 2 * table.capacity]
      /\ old' = [items |-> table.items, next |-> 0, capacity |-> table.capacity]
  BY DEF Grow, IInv, ArraysOK
<1>4. Occupied' = {} /\ NotMoved' = Occupied /\ NotMoved = {}
  <2>1. Occupied' = {}
    BY <1>3 DEF Occupied, Slots, calloc
  <2>2. NotMoved' = Occupied
    BY <1>3 DEF NotMoved, Occupied, Slots
  <2>3. NotMoved = {}
    BY <1>1 DEF NotMoved, NotMoving
  <2>. QED
    BY <2>1, <2>2, <2>3
<1>5. LinesOK'
  BY DEF IInv, LinesOK, AtPrompt
<1>6. ArraysOK'
  <2>1. table.items' \in Arrays(table.capacity)' /\ old.items' \in Arrays(old.capacity)'
    BY <1>1, <1>3 DEF Arrays, calloc
  <2>2. Moving' /\ ~ AtPrompt' /\ (at < Len(line))'
    BY <1>1, <1>3 DEF Moving, AtPrompt
  <2>3. table.load' <= table.capacity' /\ table.capacity' \in Nat
    BY <1>1, <1>3
  <2>. QED
    BY <1>1, <1>2, <1>3, <2>1, <2>2, <2>3 DEF ArraysOK
<1>7. NamesOK'
  BY DEF IInv, NamesOK, NameOf
<1>8. SlotsOK'
  BY <1>3, <1>4 DEF IInv, SlotsOK
<1>9. SymbolsAreReachable'
  BY <1>4 DEF SymbolsAreReachable
<1>. QED
  BY <1>5, <1>6, <1>7, <1>8, <1>9 DEF IInv

-------------------------------------------------------------------------------
(* A symbol put in the first free slot from its home occupies that one     *)
(* slot more, is reached, and the others stay where they are.              *)
LEMMA PutInFreeSlot ==
  ASSUME ArraysOK, NamesOK, SlotsOK, SymbolsAreReachable,
         table.load < table.capacity, NEW item \in Nat \ {0},
         NEW home \in 0 .. table.capacity - 1, NEW stops \in SUBSET Slots,
         FreeSlots(table) \subseteq stops,
         NEW free, free = Probe(stops, home, table.capacity), free \in FreeSlots(table),
         \A slot \in Slots : slot \notin stops => slot \in Occupied,
         table'.items = [table.items EXCEPT ![free] = item],
         table'.capacity = table.capacity
  PROVE  /\ free \notin Occupied
         /\ Occupied' = Occupied \cup {free}
         /\ table'.items[free] = item
         /\ \A slot \in Occupied : table'.items[slot] = table.items[slot]
         /\ Reaches(home, free, Occupied', table.capacity)
         /\ \A slot \in Occupied :
              Reaches(getIndex(symbols[table.items[slot]].hash, table.capacity), slot,
                      Occupied', table.capacity)
<1>1. /\ table.capacity \in Nat \ {0} /\ table.items \in Arrays(table.capacity)
      /\ free \in Slots /\ table.items[free] = NULL
  BY DEF ArraysOK, FreeSlots, Slots
<1>2. free \notin Occupied /\ table'.items[free] = item
      /\ \A slot \in Slots : slot # free => table'.items[slot] = table.items[slot]
  BY <1>1 DEF Occupied, Arrays, Slots
<1>3. Occupied' = Occupied \cup {free}
  BY <1>1, <1>2 DEF Occupied, Slots, NULL
<1>4. \A slot \in Occupied : table'.items[slot] = table.items[slot]
  BY <1>2, FreeSlotsAreTheOthers
<1>5. Reaches(home, free, Occupied', table.capacity)
  <2>1. ProbeEnds(stops)
    BY DEF ProbeEnds
  <2>2. (0 .. table.capacity - 1) \ stops \subseteq Occupied
    BY DEF Slots
  <2>. QED
    BY <1>1, <1>3, <2>1, <2>2, FirstFreeIsReached DEF Slots
<1>6. ASSUME NEW slot \in Occupied
      PROVE  Reaches(getIndex(symbols[table.items[slot]].hash, table.capacity), slot,
                     Occupied', table.capacity)
  BY <1>3, ReachableMeansReached, StaysReached
<1>. QED
  BY <1>2, <1>3, <1>4, <1>5, <1>6

(* A slot of the old array is moved: its symbol, if there is one, is now   *)
(* in the new array and nowhere else.                                      *)
LEMMA MoveSlotIInv ==
  ASSUME IInv, MoveSlot
  PROVE  IInv'
<1>. USE DEF MoveSlot
<1>. DEFINE item == old.items[old.next]
            home == getIndex(symbols[item].hash, table.capacity)
            free == Probe(FreeSlots(table), home, table.capacity)
<1>1. /\ old = [items |-> old.items, next |-> old.next, capacity |-> old.capacity]
      /\ old.next \in Nat /\ old.capacity \in Nat /\ old.next < old.capacity
      /\ old.items \in Arrays(old.capacity)
      /\ table = [items |-> table.items, load |-> table.load, capacity |-> table.capacity]
      /\ table.capacity = 2 * old.capacity /\ table.load <= old.capacity /\ table.load \in Nat
      /\ Fits(table.capacity) /\ table.items \in Arrays(table.capacity)
      /\ ~ AtPrompt /\ at < Len(line)
  BY DEF IInv, ArraysOK, Moving
<1>2. table' = PutFrom(table, item, IF item = NULL THEN 0 ELSE home)
  BY DEF Move
<1>3. /\ NotMoved' = NotMoved \ {old.next}
      /\ \A slot \in NotMoved' : old'.items[slot] = old.items[slot]
  <2>1. CASE old.next + 1 = old.capacity
    BY <1>1, <2>1 DEF NotMoved, NotMoving
  <2>2. CASE old.next + 1 # old.capacity
    <3>1. old' = [items |-> old.items, next |-> old.next + 1, capacity |-> old.capacity]
      BY <1>1, <2>2
    <3>. QED
      BY <1>1, <3>1 DEF NotMoved
  <2>. QED
    BY <2>1, <2>2
<1>4. item \in {NULL} \cup DOMAIN symbols
  BY <1>1 DEF Arrays
<1>5. LinesOK' /\ NamesOK'
  BY DEF IInv, LinesOK, AtPrompt, NamesOK, NameOf
<1>6. ASSUME table' = [items |-> table'.items, load |-> table.load, capacity |-> table.capacity],
             table'.items \in Arrays(table.capacity)
      PROVE  ArraysOK'
  <2>1. table.capacity' # 0 /\ table.load' <= table.capacity'
    BY <1>1, <1>6 DEF Fits
  <2>2. CASE old.next + 1 = old.capacity
    <3>1. old' = NotMoving /\ ~ Moving'
      BY <2>2 DEF NotMoving, Moving
    <3>. QED
      BY <1>1, <1>6, <2>1, <3>1 DEF ArraysOK, Arrays, Fits
  <2>3. CASE old.next + 1 # old.capacity
    <3>1. old' = [items |-> old.items, next |-> old.next + 1, capacity |-> old.capacity]
      BY <1>1, <2>3
    <3>2. Moving' /\ ~ AtPrompt' /\ (at < Len(line))'
      BY <1>1, <2>3, <3>1 DEF Moving, AtPrompt
    <3>. QED
      BY <1>1, <1>6, <2>1, <3>1, <3>2, SMTT(30) DEF ArraysOK, Arrays, Fits
  <2>. QED
    BY <2>2, <2>3
<1>7. CASE item = NULL
  <2>1. table' = table
    BY <1>2, <1>7 DEF PutFrom
  <2>2. ArraysOK'
    BY <1>1, <1>6, <2>1
  <2>3. NotMoved' = NotMoved
    BY <1>3, <1>7 DEF NotMoved
  <2>4. Occupied' = Occupied
    BY <2>1 DEF Occupied, Slots
  <2>5. SlotsOK'
    BY <1>3, <2>1, <2>3, <2>4 DEF IInv, SlotsOK
  <2>6. SymbolsAreReachable'
    BY <2>1, <2>4 DEF IInv, SymbolsAreReachable
  <2>. QED
    BY <1>5, <2>2, <2>5, <2>6 DEF IInv
<1>8. CASE item # NULL
  <2>1. item \in DOMAIN symbols /\ item \in Nat \ {0} /\ symbols[item].hash \in Nat
    BY <1>4, <1>8, SymbolFields DEF IInv, NamesOK
  <2>2. home \in 0 .. table.capacity - 1
    BY <1>1, <2>1, IndexIsASlot
  <2>3. table.capacity \in Nat \ {0} /\ table.load < table.capacity
    BY <1>1 DEF Fits
  <2>4. free \in FreeSlots(table)
    <3>1. ProbeEnds(FreeSlots(table))
      BY <2>3, RoomInTable DEF IInv
    <3>2. FreeSlots(table) \in SUBSET (0 .. table.capacity - 1)
      BY DEF FreeSlots
    <3>. HIDE DEF home
    <3>. QED
      BY <2>2, <2>3, <3>1, <3>2, ProbeFinds
  <2>5. table' = [items |-> [table.items EXCEPT ![free] = item], load |-> table.load,
                  capacity |-> table.capacity]
    BY <1>1, <1>2, <1>8 DEF PutFrom
  <2>6. ArraysOK'
    <3>1. [table.items EXCEPT ![free] = item] \in Arrays(table.capacity)
      BY <1>1, <2>1 DEF Arrays
    <3>. HIDE DEF free, item
    <3>. QED
      BY <1>6, <2>5, <3>1
  <2>7. /\ free \notin Occupied
        /\ Occupied' = Occupied \cup {free}
        /\ table'.items[free] = item
        /\ \A slot \in Occupied : table'.items[slot] = table.items[slot]
        /\ Reaches(home, free, Occupied', table.capacity)
        /\ \A slot \in Occupied :
             Reaches(getIndex(symbols[table.items[slot]].hash, table.capacity), slot,
                     Occupied', table.capacity)
    <3>1. /\ table'.items = [table.items EXCEPT ![free] = item]
          /\ table'.capacity = table.capacity
      BY <2>5
    <3>2. FreeSlots(table) \in SUBSET Slots
          /\ \A slot \in Slots : slot \notin FreeSlots(table) => slot \in Occupied
      BY FreeSlotsAreTheOthers
    <3>. DEFINE stops == FreeSlots(table)
    <3>3. free = Probe(stops, home, table.capacity) /\ FreeSlots(table) \subseteq stops
      OBVIOUS
    <3>. HIDE DEF free, home, item, stops
    <3>. QED
      BY <2>1, <2>2, <2>3, <2>4, <3>1, <3>2, <3>3, PutInFreeSlot DEF IInv, stops
  <2>8. old.next \in NotMoved
    BY <1>1, <1>8 DEF NotMoved
  <2>. HIDE DEF free, home
  <2>9. SlotsOK'
    <3>1. ASSUME NEW symbol \in DOMAIN symbols
          PROVE  \/ \E slot \in Occupied' : table'.items[slot] = symbol
                 \/ \E slot \in NotMoved' : old'.items[slot] = symbol
      BY <1>3, <2>7 DEF IInv, SlotsOK
    <3>2. ASSUME NEW slot \in Occupied', NEW other \in Occupied',
                 table'.items[slot] = table'.items[other]
          PROVE  slot = other
      BY <2>7, <2>8, <3>2 DEF IInv, SlotsOK
    <3>3. ASSUME NEW slot \in NotMoved', NEW other \in NotMoved',
                 old'.items[slot] = old'.items[other]
          PROVE  slot = other
      BY <1>3, <3>3 DEF IInv, SlotsOK
    <3>4. ASSUME NEW slot \in Occupied', NEW other \in NotMoved'
          PROVE  table'.items[slot] # old'.items[other]
      BY <1>3, <2>7, <2>8 DEF IInv, SlotsOK
    <3>5. table'.load = Len(symbols)
      BY <2>5 DEF IInv, SlotsOK
    <3>. QED
      BY <3>1, <3>2, <3>3, <3>4, <3>5 DEF SlotsOK
  <2>10. SymbolsAreReachable'
    <3>1. ASSUME NEW slot \in Occupied'
          PROVE  Reaches(getIndex(symbols[table'.items[slot]].hash, table'.capacity), slot,
                         Occupied', table'.capacity)
      <4>1. table'.capacity = table.capacity
        BY <2>5
      <4>2. CASE slot = free
        BY <2>7, <4>1, <4>2 DEF home
      <4>3. CASE slot \in Occupied
        BY <2>7, <4>1, <4>3
      <4>. QED
        BY <2>7, <4>2, <4>3
    <3>. QED
      BY <3>1 DEF SymbolsAreReachable, Reaches
  <2>. QED
    BY <1>5, <2>6, <2>9, <2>10 DEF IInv
<1>. QED
  BY <1>7, <1>8

-------------------------------------------------------------------------------
(* A call that need not allocate or grow.                                  *)
Probing == LookingUp /\ ~ MustAllocate(table) /\ ~ MustGrow(table)

LEMMA ProbingFacts ==
  ASSUME IInv, Probing
  PROVE  /\ line[at + 1] \in Names /\ at + 1 \in 1 .. Len(line) /\ ~ AtPrompt
         /\ old = NotMoving /\ ~ Moving /\ NotMoved = {}
         /\ table.load \in Nat /\ table.load < table.capacity
         /\ Fits(table.capacity) /\ table.capacity \in Nat \ {0}
         /\ table.items \in Arrays(table.capacity)
         /\ ProbeEnds(FreeSlots(table))
<1>1. /\ old = NotMoving /\ ~ Moving /\ ~ AtPrompt /\ table.load \in Nat
      /\ Fits(table.capacity) /\ table.items \in Arrays(table.capacity)
      /\ table.capacity \in Nat \ {0} /\ ~ (4 * table.load >= 3 * table.capacity)
  BY DEF IInv, ArraysOK, Probing, LookingUp, MustAllocate, MustGrow
<1>2. table.load < table.capacity
  BY <1>1
<1>3. at \in -1 .. Len(line) /\ at # -1 /\ at < Len(line) /\ line \in Seq(Names)
  BY DEF IInv, LinesOK, Probing, LookingUp, AtPrompt
<1>4. Len(line) \in Nat
  BY <1>3, LenProperties
<1>5. at + 1 \in 1 .. Len(line)
  BY <1>3, <1>4
<1>6. line[at + 1] \in Names
  BY <1>3, <1>5, ElementOfSeq
<1>7. NotMoved = {}
  BY <1>1 DEF NotMoved, NotMoving
<1>8. ProbeEnds(FreeSlots(table))
  BY <1>2, RoomInTable DEF IInv
<1>. QED
  BY <1>1, <1>2, <1>5, <1>6, <1>7, <1>8

(* The probe for a name stops at its symbol if it has one, and otherwise   *)
(* at a free slot.                                                         *)
LEMMA FoundIsTheSymbol ==
  ASSUME IInv, Probing, NEW name, name = line[at + 1]
  PROVE  /\ StopsFor(name) \in SUBSET Slots /\ FreeSlots(table) \subseteq StopsFor(name)
         /\ \A slot \in Slots : slot \notin StopsFor(name) => slot \in Occupied
         /\ getIndex(hashSymbol[name], table.capacity) \in 0 .. table.capacity - 1
         /\ table.items[Found(name)] = NULL =>
              Found(name) \in FreeSlots(table) /\ name \notin DOMAIN handedOut
         /\ table.items[Found(name)] # NULL =>
              name \in DOMAIN handedOut /\ handedOut[name] = table.items[Found(name)]
<1>. DEFINE home == getIndex(hashSymbol[name], table.capacity)
            stops == StopsFor(name)
            found == Found(name)
<1>1. /\ name \in Names /\ NotMoved = {} /\ table.items \in Arrays(table.capacity)
      /\ Fits(table.capacity) /\ table.capacity \in Nat \ {0} /\ ProbeEnds(FreeSlots(table))
  BY ProbingFacts
<1>2. home \in 0 .. table.capacity - 1
  <2>1. hashSymbol[name] \in Nat
    BY <1>1, HashAssumption
  <2>. QED
    BY <1>1, <2>1, IndexIsASlot
<1>3. stops \in SUBSET Slots /\ FreeSlots(table) \subseteq stops
  BY FreeSlotsAreTheOthers DEF StopsFor, Slots
<1>4. \A slot \in Slots : slot \notin stops => slot \in Occupied
  BY <1>3, FreeSlotsAreTheOthers
<1>5. stops \in SUBSET (0 .. table.capacity - 1) /\ ProbeEnds(stops)
  BY <1>1, <1>3 DEF Slots, ProbeEnds
<1>6. found = Probe(stops, home, table.capacity)
  BY DEF Found
<1>7. found \in stops /\ found \in Slots
  <2>. HIDE DEF stops, home, found
  <2>. QED
    BY <1>1, <1>2, <1>5, <1>6, ProbeFinds DEF Slots
<1>8. ASSUME table.items[found] = NULL
      PROVE  found \in FreeSlots(table) /\ name \notin DOMAIN handedOut
  <2>1. found \in FreeSlots(table)
    BY <1>7, <1>8 DEF FreeSlots, Slots
  <2>2. ASSUME name \in DOMAIN handedOut PROVE FALSE
    <3>. DEFINE symbol == handedOut[name]
    <3>1. symbol \in DOMAIN symbols /\ NameOf(symbol) = name
          /\ symbols[symbol].hash = hashSymbol[name]
      BY <2>2 DEF IInv, NamesOK
    <3>2. PICK slot \in Occupied : table.items[slot] = symbol
      BY <1>1, <3>1 DEF IInv, SlotsOK
    <3>3. slot \in stops
      BY <3>1, <3>2, FreeSlotsAreTheOthers DEF StopsFor, Matches, NameOf, Slots
    <3>4. Reaches(home, slot, Occupied, table.capacity)
      BY <3>1, <3>2, ReachableMeansReached DEF IInv
    <3>5. found \in Occupied
      <4>. HIDE DEF stops, home, found
      <4>. QED
        BY <1>1, <1>2, <1>5, <1>6, <3>3, <3>4, ReachedIsFound
    <3>. QED
      BY <1>8, <3>5 DEF Occupied
  <2>. QED
    BY <2>1, <2>2
<1>9. ASSUME table.items[found] # NULL
      PROVE  name \in DOMAIN handedOut /\ handedOut[name] = table.items[found]
  <2>1. Matches(table.items[found], name)
    BY <1>7, <1>9 DEF StopsFor, FreeSlots
  <2>2. table.items[found] \in DOMAIN symbols
    BY <1>1, <1>7, <1>9 DEF Arrays, Slots
  <2>3. NameOf(table.items[found]) = name
    BY <2>1 DEF Matches, NameOf
  <2>. QED
    BY <2>2, <2>3 DEF IInv, NamesOK
<1>. QED
  BY <1>2, <1>3, <1>4, <1>8, <1>9

(* Asking for a name that has a symbol changes nothing but the place in    *)
(* the line.                                                               *)
LEMMA KnownName ==
  ASSUME IInv, GetOrCreate, table.items[Found(line[at + 1])] # NULL
  PROVE  UNCHANGED <<table, old, symbols, buffers, line, handedOut>> /\ at' = at + 1
<1>. DEFINE name == line[at + 1]
<1>1. Probing
  BY DEF GetOrCreate, Probing
<1>2. name \in DOMAIN handedOut /\ handedOut[name] = table.items[Found(name)]
  BY <1>1, FoundIsTheSymbol
<1>3. handedOut' = [n \in DOMAIN handedOut \cup {name} |->
                     IF n = name THEN table.items[Found(name)] ELSE handedOut[n]]
  BY DEF GetOrCreate, LookUp, Return
<1>4. handedOut = [n \in DOMAIN handedOut |-> handedOut[n]]
  BY DEF IInv, NamesOK
<1>5. handedOut' = handedOut
  <2>. HIDE DEF name
  <2>. QED
    BY <1>2, <1>3, <1>4
<1>. QED
  BY <1>5 DEF GetOrCreate, LookUp

(* A new name gets the next symbol, whose text is this occurrence of it.   *)
NewSymbol ==
  Symbol_new([buffer |-> Len(buffers) + 1, at |-> at + 1], hashSymbol[line[at + 1]])

LEMMA NewName ==
  ASSUME IInv, GetOrCreate, table.items[Found(line[at + 1])] = NULL
  PROVE  /\ symbols' = Append(symbols, NewSymbol)
         /\ table' = [items |-> [table.items EXCEPT ![Found(line[at + 1])] = Len(symbols) + 1],
                      load |-> table.load + 1, capacity |-> table.capacity]
         /\ handedOut' = [n \in DOMAIN handedOut \cup {line[at + 1]} |->
                            IF n = line[at + 1] THEN Len(symbols) + 1 ELSE handedOut[n]]
         /\ line[at + 1] \notin DOMAIN handedOut
         /\ at' = at + 1 /\ UNCHANGED <<old, buffers, line>>
<1>1. line[at + 1] \notin DOMAIN handedOut
  BY FoundIsTheSymbol DEF GetOrCreate, Probing
<1>2. table = [items |-> table.items, load |-> table.load, capacity |-> table.capacity]
  BY DEF IInv, ArraysOK
<1>. QED
  BY <1>1, <1>2 DEF GetOrCreate, LookUp, Return, NewSymbol

(* The symbols made before are as they were, and the new one is for the    *)
(* name at this place of this line.                                        *)
LEMMA HeapAfterNewName ==
  ASSUME IInv, Probing, symbols' = Append(symbols, NewSymbol), UNCHANGED <<buffers, line>>
  PROVE  /\ symbols' \in Seq(Symbols) /\ Len(symbols') = Len(symbols) + 1 /\ Len(symbols) \in Nat
         /\ DOMAIN symbols' = DOMAIN symbols \cup {Len(symbols) + 1}
         /\ DOMAIN symbols = 1 .. Len(symbols)
         /\ \A symbol \in DOMAIN symbols :
              symbols'[symbol] = symbols[symbol] /\ NameOf(symbol)' = NameOf(symbol)
         /\ symbols'[Len(symbols) + 1].hash = hashSymbol[line[at + 1]]
         /\ Inside(symbols'[Len(symbols) + 1].text, buffers, line)
         /\ TextAt(symbols'[Len(symbols) + 1].text, buffers, line) = line[at + 1]
<1>. DEFINE new == Len(symbols) + 1
<1>1. /\ buffers \in Seq(Seq(Names)) /\ line \in Seq(Names)
      /\ line[at + 1] \in Names /\ at + 1 \in 1 .. Len(line)
  BY ProbingFacts DEF IInv, LinesOK
<1>2. /\ DOMAIN Append(buffers, line) = 1 .. Len(buffers) + 1
      /\ Append(buffers, line)[Len(buffers) + 1] = line
      /\ Len(buffers) \in Nat /\ Len(line) \in Nat /\ DOMAIN line = 1 .. Len(line)
  BY <1>1, AppendProperties, LenProperties
<1>3. NewSymbol = [text |-> [buffer |-> Len(buffers) + 1, at |-> at + 1], hash |-> hashSymbol[line[at + 1]]]
  BY DEF NewSymbol, Symbol_new
<1>4. NewSymbol \in Symbols
  <2>1. hashSymbol[line[at + 1]] \in 0 .. HashSpace - 1
    BY <1>1, HashAssumption
  <2>2. Len(buffers) + 1 \in Nat /\ at + 1 \in Nat
    BY <1>1, <1>2
  <2>. QED
    BY <1>3, <2>1, <2>2 DEF Symbols
<1>5. symbols \in Seq(Symbols) /\ Len(symbols) \in Nat /\ DOMAIN symbols = 1 .. Len(symbols)
  BY LenProperties DEF IInv, NamesOK
<1>6. /\ symbols' \in Seq(Symbols) /\ Len(symbols') = new /\ DOMAIN symbols' = 1 .. new
      /\ \A symbol \in 1 .. Len(symbols) : symbols'[symbol] = symbols[symbol]
      /\ symbols'[new] = NewSymbol
  BY <1>4, <1>5, AppendProperties, LenProperties
<1>7. DOMAIN symbols' = DOMAIN symbols \cup {new}
  BY <1>5, <1>6
<1>8. \A symbol \in DOMAIN symbols : NameOf(symbol)' = NameOf(symbol)
  BY <1>5, <1>6 DEF NameOf
<1>9. symbols'[new].text.buffer = Len(buffers) + 1 /\ symbols'[new].text.at = at + 1
      /\ symbols'[new].hash = hashSymbol[line[at + 1]]
  BY <1>3, <1>6
<1>10. Len(buffers) + 1 \in DOMAIN Append(buffers, line) /\ at + 1 \in DOMAIN line
  BY <1>1, <1>2
<1>11. Inside(symbols'[new].text, buffers, line)
  BY <1>2, <1>9, <1>10 DEF Inside
<1>12. TextAt(symbols'[new].text, buffers, line) = line[at + 1]
  BY <1>2, <1>9, <1>10 DEF TextAt
<1>. QED
  BY <1>5, <1>6, <1>7, <1>8, <1>9, <1>11, <1>12

LEMMA NewNameIInv ==
  ASSUME IInv, GetOrCreate, table.items[Found(line[at + 1])] = NULL
  PROVE  IInv'
<1>. DEFINE name == line[at + 1]
            new == Len(symbols) + 1
            home == getIndex(hashSymbol[name], table.capacity)
            free == Found(name)
<1>1. Probing
  BY DEF GetOrCreate, Probing
<1>2. /\ symbols' = Append(symbols, NewSymbol)
      /\ table' = [items |-> [table.items EXCEPT ![free] = new], load |-> table.load + 1,
                   capacity |-> table.capacity]
      /\ handedOut' = [n \in DOMAIN handedOut \cup {name} |->
                         IF n = name THEN new ELSE handedOut[n]]
      /\ name \notin DOMAIN handedOut
      /\ at' = at + 1 /\ UNCHANGED <<old, buffers, line>>
  BY NewName
<1>3. /\ name \in Names /\ at + 1 \in 1 .. Len(line) /\ ~ AtPrompt
      /\ old = NotMoving /\ ~ Moving /\ NotMoved = {}
      /\ table.load \in Nat /\ table.load < table.capacity
      /\ Fits(table.capacity) /\ table.capacity \in Nat \ {0}
      /\ table.items \in Arrays(table.capacity)
  BY <1>1, ProbingFacts
<1>4. /\ symbols' \in Seq(Symbols) /\ Len(symbols') = new /\ Len(symbols) \in Nat
      /\ DOMAIN symbols' = DOMAIN symbols \cup {new}
      /\ DOMAIN symbols = 1 .. Len(symbols)
      /\ \A symbol \in DOMAIN symbols :
           symbols'[symbol] = symbols[symbol] /\ NameOf(symbol)' = NameOf(symbol)
      /\ symbols'[new].hash = hashSymbol[name]
      /\ Inside(symbols'[new].text, buffers, line)
      /\ TextAt(symbols'[new].text, buffers, line) = name
  BY <1>1, <1>2, HeapAfterNewName
<1>5. /\ StopsFor(name) \in SUBSET Slots /\ FreeSlots(table) \subseteq StopsFor(name)
      /\ \A slot \in Slots : slot \notin StopsFor(name) => slot \in Occupied
      /\ home \in 0 .. table.capacity - 1
      /\ free \in FreeSlots(table)
  BY <1>1, FoundIsTheSymbol
<1>6. /\ free \notin Occupied
      /\ Occupied' = Occupied \cup {free}
      /\ table'.items[free] = new
      /\ \A slot \in Occupied : table'.items[slot] = table.items[slot]
      /\ Reaches(home, free, Occupied', table.capacity)
      /\ \A slot \in Occupied :
           Reaches(getIndex(symbols[table.items[slot]].hash, table.capacity), slot,
                   Occupied', table.capacity)
  <2>1. /\ table'.items = [table.items EXCEPT ![free] = new]
        /\ table'.capacity = table.capacity
    BY <1>2
  <2>2. free = Probe(StopsFor(name), home, table.capacity)
    BY DEF Found
  <2>3. new \in Nat \ {0}
    BY <1>4
  <2>. HIDE DEF free, home, new, name
  <2>. QED
    BY <1>3, <1>5, <2>1, <2>2, <2>3, PutInFreeSlot DEF IInv
<1>7. \A slot \in Occupied : table.items[slot] \in DOMAIN symbols
  BY <1>3 DEF Occupied, Slots, Arrays
<1>8. new \notin DOMAIN symbols
  BY <1>4
<1>9. LinesOK'
  BY <1>2, <1>3 DEF IInv, LinesOK, AtPrompt
<1>10. ArraysOK'
  <2>1. table'.items \in Arrays(table.capacity)'
    <3>1. free \in 0 .. table.capacity - 1
      BY <1>5 DEF FreeSlots
    <3>. HIDE DEF free, new
    <3>. QED
      BY <1>2, <1>3, <1>4, <3>1 DEF Arrays
  <2>2. ~ Moving' /\ old' = NotMoving
    BY <1>2, <1>3 DEF Moving
  <2>3. table'.load \in Nat /\ table'.load <= table'.capacity /\ table'.capacity = table.capacity
        /\ table' = [items |-> table'.items, load |-> table'.load, capacity |-> table'.capacity]
    BY <1>2, <1>3
  <2>. QED
    BY <1>3, <2>1, <2>2, <2>3 DEF ArraysOK
<1>. HIDE DEF free, home, new, name
<1>11. NamesOK'
  <2>1. /\ DOMAIN handedOut' = DOMAIN handedOut \cup {name}
        /\ handedOut'[name] = new
        /\ \A n \in DOMAIN handedOut : handedOut'[n] = handedOut[n]
    BY <1>2
  <2>2. handedOut' \in [DOMAIN handedOut' -> DOMAIN symbols']
    <3>1. \A n \in DOMAIN handedOut : handedOut[n] \in DOMAIN symbols
      BY DEF IInv, NamesOK
    <3>. QED
      BY <1>2, <1>4, <2>1, <3>1
  <2>3. DOMAIN handedOut' \subseteq Names
    BY <1>3, <2>1 DEF IInv, NamesOK
  <2>4. \A n \in DOMAIN handedOut' : NameOf(handedOut[n])' = n
    <3>1. ASSUME NEW n \in DOMAIN handedOut PROVE NameOf(handedOut[n])' = n
      <4>1. handedOut[n] \in DOMAIN symbols /\ NameOf(handedOut[n]) = n
        BY DEF IInv, NamesOK
      <4>2. handedOut'[n] = handedOut[n]
        BY <2>1
      <4>. QED
        BY <1>4, <4>1, <4>2 DEF NameOf
    <3>2. ASSUME NEW n, n = name PROVE NameOf(handedOut[n])' = n
      BY <1>2, <1>4, <2>1, <3>2 DEF NameOf
    <3>. QED
      BY <2>1, <3>1, <3>2
  <2>5. ASSUME NEW symbol \in DOMAIN symbols'
        PROVE  /\ Inside(symbols'[symbol].text, buffers', line')
               /\ NameOf(symbol)' \in DOMAIN handedOut'
               /\ handedOut'[NameOf(symbol)'] = symbol
               /\ symbols'[symbol].hash = hashSymbol[NameOf(symbol)']
    <3>1. CASE symbol = new
      <4>1. NameOf(symbol)' = name
        BY <1>2, <1>4, <3>1 DEF NameOf
      <4>. QED
        BY <1>2, <1>4, <2>1, <3>1, <4>1
    <3>2. CASE symbol \in DOMAIN symbols
      BY <1>2, <1>4, <2>1, <3>2 DEF IInv, NamesOK
    <3>. QED
      BY <1>4, <3>1, <3>2
  <2>. QED
    BY <1>4, <2>2, <2>3, <2>4, <2>5 DEF NamesOK
<1>12. SlotsOK'
  <2>1. NotMoved' = {}
    BY <1>2, <1>3 DEF NotMoved, NotMoving
  <2>2. table'.load = Len(symbols')
    BY <1>2, <1>4 DEF IInv, SlotsOK, new
  <2>3. ASSUME NEW symbol \in DOMAIN symbols'
        PROVE  \E slot \in Occupied' : table'.items[slot] = symbol
    BY <1>3, <1>4, <1>6 DEF IInv, SlotsOK
  <2>4. ASSUME NEW slot \in Occupied', NEW other \in Occupied',
               table'.items[slot] = table'.items[other]
        PROVE  slot = other
    BY <1>6, <1>7, <1>8, <2>4 DEF IInv, SlotsOK
  <2>. QED
    BY <2>1, <2>2, <2>3, <2>4 DEF SlotsOK
<1>13. SymbolsAreReachable'
  <2>1. ASSUME NEW slot \in Occupied'
        PROVE  Reaches(getIndex(symbols'[table'.items[slot]].hash, table'.capacity), slot,
                       Occupied', table'.capacity)
    <3>1. table'.capacity = table.capacity
      BY <1>2
    <3>2. CASE slot = free
      BY <1>4, <1>6, <3>1, <3>2 DEF home
    <3>3. CASE slot \in Occupied
      BY <1>4, <1>6, <1>7, <3>1, <3>3
    <3>. QED
      BY <1>6, <3>2, <3>3
  <2>. QED
    BY <2>1 DEF SymbolsAreReachable, Reaches
<1>. QED
  BY <1>9, <1>10, <1>11, <1>12, <1>13 DEF IInv

LEMMA GetOrCreateIInv ==
  ASSUME IInv, GetOrCreate
  PROVE  IInv'
<1>1. CASE table.items[Found(line[at + 1])] = NULL
  BY <1>1, NewNameIInv
<1>2. CASE table.items[Found(line[at + 1])] # NULL
  <2>1. UNCHANGED <<table, old, symbols, buffers, line, handedOut>> /\ at' = at + 1
    BY <1>2, KnownName
  <2>2. at + 1 \in 1 .. Len(line) /\ ~ AtPrompt /\ ~ Moving /\ Len(line) \in Nat
    BY ProbingFacts, LenProperties DEF GetOrCreate, Probing, IInv, LinesOK
  <2>3. ~ AtPrompt' /\ ~ Moving'
    BY <2>1, <2>2 DEF AtPrompt, Moving
  <2>4. LinesOK'
    BY <2>1, <2>2, <2>3 DEF IInv, LinesOK
  <2>5. ArraysOK'
    BY <2>1, <2>2, <2>3 DEF IInv, ArraysOK, Arrays
  <2>6. NamesOK' /\ SlotsOK' /\ SymbolsAreReachable'
    BY <2>1 DEF IInv, NamesOK, SlotsOK, SymbolsAreReachable, NameOf, Occupied, NotMoved, Slots
  <2>. QED
    BY <2>4, <2>5, <2>6 DEF IInv
<1>. QED
  BY <1>1, <1>2

-------------------------------------------------------------------------------
LEMMA StepIInv == IInv /\ [Next]_vars => IInv'
<1>. SUFFICES ASSUME IInv, [Next]_vars PROVE IInv'
  OBVIOUS
<1>1. ASSUME NEW names \in Lines, ReadLine(names) PROVE IInv'
  BY <1>1, ReadLineIInv
<1>2. CASE AllocateTable
  BY <1>2, AllocateTableIInv
<1>3. CASE GrowTable
  BY <1>3, GrowTableIInv
<1>4. CASE MoveSlot
  BY <1>4, MoveSlotIInv
<1>5. CASE GetOrCreate
  BY <1>5, GetOrCreateIInv
<1>6. CASE EndLine
  BY <1>6, EndLineIInv
<1>7. CASE UNCHANGED vars
  BY <1>7 DEF vars, IInv, LinesOK, ArraysOK, NamesOK, SlotsOK, SymbolsAreReachable, Arrays,
              AtPrompt, Moving, NameOf, Occupied, NotMoved, Slots
<1>. QED
  BY <1>1, <1>2, <1>3, <1>4, <1>5, <1>6, <1>7 DEF Next, Compile

LEMMA Invariance == Spec => []IInv
BY InitIInv, StepIInv, PTL DEF Spec

(* Every slot of the arrays is free or holds a symbol that was made.       *)
THEOREM TypeCorrect == Spec => []TypeOK
<1>1. IInv => TypeOK
  <2>. SUFFICES ASSUME IInv PROVE TypeOK
    OBVIOUS
  <2>1. /\ table.capacity \in Nat /\ table.load \in Nat
        /\ at \in -1 .. Len(line) /\ Len(buffers) <= MaxLines
    BY DEF IInv, ArraysOK, LinesOK
  <2>2. ASSUME NEW slot \in Slots PROVE table.items[slot] \in {NULL} \cup DOMAIN symbols
    BY <2>1, SMTT(30) DEF IInv, ArraysOK, Arrays, Slots
  <2>3. ASSUME NEW slot \in 0 .. old.capacity - 1
        PROVE  old.items[slot] \in {NULL} \cup DOMAIN symbols
    <3>1. CASE Moving
      BY <3>1 DEF IInv, ArraysOK, Arrays
    <3>2. CASE ~ Moving
      BY <3>2 DEF IInv, ArraysOK, NotMoving
    <3>. QED
      BY <3>1, <3>2
  <2>. QED
    BY <2>1, <2>2, <2>3 DEF TypeOK
<1>. QED
  BY <1>1, Invariance, PTL

(* The text of every symbol is the name it was made for, as long as the    *)
(* session lasts: SymbolTable_getOrCreate and the buffers main keeps.      *)
THEOREM TextsReadable == Spec => []TextsStayReadable
<1>1. IInv => TextsStayReadable
  BY DEF IInv, NamesOK, TextsStayReadable
<1>. QED
  BY <1>1, Invariance, PTL

(* The probe of SymbolTable_getOrCreate passes no free slot on its way to  *)
(* a symbol, before, while and after the array grows.                      *)
THEOREM Reachable == Spec => []SymbolsAreReachable
<1>1. IInv => SymbolsAreReachable
  BY DEF IInv
<1>. QED
  BY <1>1, Invariance, PTL

(* No symbol is lost or doubled by growing, and load counts them.          *)
THEOREM OneSlot == Spec => []EverySymbolHasOneSlot
<1>1. IInv => EverySymbolHasOneSlot
  <2>. SUFFICES ASSUME IInv PROVE EverySymbolHasOneSlot
    OBVIOUS
  <2>1. ASSUME NEW symbol \in DOMAIN symbols, NEW slot \in Occupied, table.items[slot] = symbol
        PROVE  /\ \A other \in Occupied : (table.items[other] = symbol) <=> (other = slot)
               /\ \A other \in NotMoved : old.items[other] # symbol
    BY <2>1 DEF IInv, SlotsOK
  <2>2. ASSUME NEW symbol \in DOMAIN symbols, NEW slot \in NotMoved, old.items[slot] = symbol
        PROVE  /\ \A other \in NotMoved : (old.items[other] = symbol) <=> (other = slot)
               /\ \A other \in Occupied : table.items[other] # symbol
    BY <2>2 DEF IInv, SlotsOK
  <2>. QED
    BY <2>1, <2>2 DEF IInv, SlotsOK, EverySymbolHasOneSlot
<1>. QED
  BY <1>1, Invariance, PTL

(* Neither the probe for a name nor the one that moves a symbol ever runs  *)
(* around an array without a free slot: growing at three quarters is in    *)
(* time. It is the safety part of LinesEnd.                                *)
THEOREM ProbesEnd == Spec => [](Probing \/ Moving => ProbeEnds(FreeSlots(table)))
<1>1. IInv => (Probing \/ Moving => ProbeEnds(FreeSlots(table)))
  <2>. SUFFICES ASSUME IInv, Probing \/ Moving PROVE ProbeEnds(FreeSlots(table))
    OBVIOUS
  <2>1. CASE Probing
    BY <2>1, ProbingFacts
  <2>2. CASE Moving
    <3>1. table.load < table.capacity
      BY <2>2 DEF IInv, ArraysOK, Moving
    <3>. QED
      BY <3>1, RoomInTable DEF IInv
  <2>. QED
    BY <2>1, <2>2
<1>. QED
  BY <1>1, Invariance, PTL

(* A name has one symbol, the same each time it is asked for, and no two   *)
(* names share one: the table implements Interning.                        *)
THEOREM Refinement == Spec => Implements
<1>1. Init => I!Init
  BY DEF Init, I!Init, I!Known
<1>2. IInv /\ [Next]_vars => [I!Next]_handedOut
  <2>. SUFFICES ASSUME IInv, [Next]_vars PROVE [I!Next]_handedOut
    OBVIOUS
  <2>1. CASE GetOrCreate
    <3>1. CASE table.items[Found(line[at + 1])] # NULL
      BY <2>1, <3>1, KnownName
    <3>2. CASE table.items[Found(line[at + 1])] = NULL
      <4>1. line[at + 1] \in Names
        BY <2>1, ProbingFacts DEF GetOrCreate, Probing
      <4>2. /\ handedOut' = [n \in DOMAIN handedOut \cup {line[at + 1]} |->
                              IF n = line[at + 1] THEN Len(symbols) + 1 ELSE handedOut[n]]
            /\ line[at + 1] \notin DOMAIN handedOut
        BY <2>1, <3>2, NewName
      <4>3. Len(symbols) + 1 \notin {handedOut[n] : n \in DOMAIN handedOut}
        <5>1. DOMAIN symbols = 1 .. Len(symbols) /\ Len(symbols) \in Nat
          BY SymbolFields DEF IInv, NamesOK
        <5>2. \A n \in DOMAIN handedOut : handedOut[n] \in DOMAIN symbols
          BY DEF IInv, NamesOK
        <5>. QED
          BY <5>1, <5>2
      <4>. DEFINE name == line[at + 1]
      <4>4. I!Intern(name)
        <5>. HIDE DEF name
        <5>. QED
          BY <4>2, <4>3 DEF I!Intern, I!Known, I!Taken, name
      <4>. QED
        BY <4>1, <4>4 DEF I!Next
    <3>. QED
      BY <3>1, <3>2
  <2>2. CASE UNCHANGED handedOut
    BY <2>2
  <2>3. CASE Next /\ ~ GetOrCreate
    BY <2>2, <2>3 DEF Next, Compile, ReadLine, AllocateTable, GrowTable, MoveSlot, EndLine
  <2>. QED
    BY <2>1, <2>2, <2>3 DEF vars
<1>. QED
  BY <1>1, <1>2, Invariance, PTL DEF Spec, Implements, I!Spec
===============================================================================
