------------------------------ MODULE ReplProofs ------------------------------
(***************************************************************************)
(* Proofs about the lines of a session, for every program of every         *)
(* nesting, every first capacity of the code and wherever realloc puts it. *)
(*                                                                         *)
(* Compiling a node takes a compilation to one that keeps it (Keeps): it   *)
(* adds bytes and symbols behind those that were there, patches no byte    *)
(* below the place it began at, lengthens the line runs by what it added   *)
(* and closes the scopes it opened. That is shown for each case of         *)
(* Compiler_emitNode, given that the nodes below keep what they find, and  *)
(* so by induction for every tree. The inductive invariant of the session  *)
(* says that between lines no scope is open and that the line runs end     *)
(* where the code does with a run that is not empty, which is what         *)
(* ByteCode_rewind needs to find the end of the lines before.              *)
(***************************************************************************)
EXTENDS Repl, ByteCodeLemmas

-------------------------------------------------------------------------------
(* The trees: the recursive function exists, so each nesting has the trees *)
(* its definition says.                                                    *)
TreesUpTo(n, trees) ==
  trees = [k \in 0 .. n |-> IF k = 0 THEN Leaves ELSE Leaves \cup TreesOf(trees[k - 1])]

LEMMA TreesUpToExist == \A n \in Nat : \E trees : TreesUpTo(n, trees)
<1>. DEFINE T == {n \in Nat : \E trees : TreesUpTo(n, trees)}
<1>1. 0 \in T
  <2>1. TreesUpTo(0, [k \in 0 .. 0 |-> Leaves])
    BY DEF TreesUpTo
  <2>. QED
    BY <2>1
<1>2. ASSUME NEW n \in Nat, n \in T PROVE n + 1 \in T
  <2>1. PICK trees : TreesUpTo(n, trees)
    BY <1>2
  <2>. DEFINE more == [k \in 0 .. n + 1 |-> IF k = n + 1 THEN Leaves \cup TreesOf(trees[n]) ELSE trees[k]]
  <2>2. \A k \in 0 .. n : more[k] = trees[k]
    OBVIOUS
  <2>3. \A k \in 0 .. n : trees[k] = IF k = 0 THEN Leaves ELSE Leaves \cup TreesOf(trees[k - 1])
    BY <2>1 DEF TreesUpTo
  <2>4. ASSUME NEW k \in 0 .. n + 1
        PROVE  more[k] = IF k = 0 THEN Leaves ELSE Leaves \cup TreesOf(more[k - 1])
    <3>1. CASE k = n + 1
      <4>1. more[k] = Leaves \cup TreesOf(trees[n]) /\ k # 0 /\ k - 1 = n /\ n \in 0 .. n
        BY <3>1
      <4>. QED
        BY <4>1, <2>2
    <3>2. CASE k # n + 1 /\ k # 0
      <4>1. k \in 0 .. n /\ k - 1 \in 0 .. n
        BY <3>2
      <4>. QED
        BY <4>1, <3>2, <2>2, <2>3
    <3>3. CASE k = 0
      <4>1. 0 \in 0 .. n /\ n + 1 # 0
        OBVIOUS
      <4>2. more[0] = trees[0] /\ trees[0] = Leaves
        BY <4>1, <2>2, <2>3
      <4>. QED
        BY <4>2, <3>3
    <3>. QED
      BY <3>1, <3>2, <3>3
  <2>5. DOMAIN more = 0 .. n + 1 /\ more = [k \in 0 .. n + 1 |-> more[k]]
    OBVIOUS
  <2>. HIDE DEF more
  <2>6. TreesUpTo(n + 1, more)
    BY <2>4, <2>5 DEF TreesUpTo
  <2>. QED
    BY <2>6
<1>3. Nat \subseteq T
  <2>. HIDE DEF T
  <2>. QED
    BY <1>1, <1>2, Induction
<1>. QED
  BY <1>3

LEMMA TreesUpToAgree ==
  ASSUME NEW n \in Nat, NEW m \in Nat, NEW trees, NEW other,
         TreesUpTo(n, trees), TreesUpTo(m, other)
  PROVE  \A k \in Nat : k <= n /\ k <= m => trees[k] = other[k]
<1>. DEFINE T == {k \in Nat : k <= n /\ k <= m => trees[k] = other[k]}
<1>1. \A k \in 0 .. n : trees[k] = IF k = 0 THEN Leaves ELSE Leaves \cup TreesOf(trees[k - 1])
  BY DEF TreesUpTo
<1>2. \A k \in 0 .. m : other[k] = IF k = 0 THEN Leaves ELSE Leaves \cup TreesOf(other[k - 1])
  BY DEF TreesUpTo
<1>3. 0 \in T
  <2>1. 0 \in 0 .. n /\ 0 \in 0 .. m
    OBVIOUS
  <2>2. trees[0] = Leaves
    BY <1>1, <2>1
  <2>3. other[0] = Leaves
    BY <1>2, <2>1
  <2>. QED
    BY <2>2, <2>3
<1>4. ASSUME NEW k \in Nat, k \in T PROVE k + 1 \in T
  <2>. SUFFICES ASSUME k + 1 <= n, k + 1 <= m PROVE trees[k + 1] = other[k + 1]
    OBVIOUS
  <2>1. k + 1 \in 0 .. n /\ k + 1 \in 0 .. m /\ (k + 1) - 1 = k /\ k + 1 # 0 /\ k <= n /\ k <= m
    OBVIOUS
  <2>2. trees[k] = other[k]
    BY <1>4, <2>1
  <2>3. trees[k + 1] = Leaves \cup TreesOf(trees[(k + 1) - 1])
    BY <1>1, <2>1
  <2>4. other[k + 1] = Leaves \cup TreesOf(other[(k + 1) - 1])
    BY <1>2, <2>1
  <2>. QED
    BY <2>1, <2>2, <2>3, <2>4
<1>5. Nat \subseteq T
  <2>. HIDE DEF T
  <2>. QED
    BY <1>3, <1>4, Induction
<1>. QED
  BY <1>5

LEMMA TreesAreDefined ==
  /\ Trees[0] = Leaves
  /\ \A n \in Nat : Trees[n + 1] = Leaves \cup TreesOf(Trees[n])
<1>. DEFINE UpTo(n) == CHOOSE trees : TreesUpTo(n, trees)
            all == [n \in Nat |-> UpTo(n)[n]]
<1>1. \A n \in Nat : TreesUpTo(n, UpTo(n))
  BY TreesUpToExist
<1>. HIDE DEF UpTo
<1>2. ASSUME NEW n \in Nat
      PROVE  all[n] = IF n = 0 THEN Leaves ELSE Leaves \cup TreesOf(all[n - 1])
  <2>1. all[n] = UpTo(n)[n] /\ n \in 0 .. n
    OBVIOUS
  <2>2. UpTo(n)[n] = IF n = 0 THEN Leaves ELSE Leaves \cup TreesOf(UpTo(n)[n - 1])
    BY <1>1, <2>1 DEF TreesUpTo
  <2>3. n # 0 => UpTo(n)[n - 1] = all[n - 1]
    <3>. SUFFICES ASSUME n # 0 PROVE UpTo(n)[n - 1] = all[n - 1]
      OBVIOUS
    <3>1. n - 1 \in Nat /\ n - 1 <= n /\ n - 1 <= n - 1
      OBVIOUS
    <3>2. UpTo(n)[n - 1] = UpTo(n - 1)[n - 1]
      BY <1>1, <3>1, TreesUpToAgree
    <3>. QED
      BY <3>1, <3>2
  <2>. QED
    BY <2>1, <2>2, <2>3
<1>3. all = [n \in Nat |-> IF n = 0 THEN Leaves ELSE Leaves \cup TreesOf(all[n - 1])]
  <2>1. all = [n \in Nat |-> all[n]]
    OBVIOUS
  <2>. HIDE DEF all
  <2>. QED
    BY <1>2, <2>1
<1>. HIDE DEF all
<1>4. Trees = [n \in Nat |-> IF n = 0 THEN Leaves ELSE Leaves \cup TreesOf(Trees[n - 1])]
  BY <1>3 DEF Trees
<1>. HIDE DEF Trees
<1>5. Trees[0] = Leaves
  BY <1>4
<1>6. ASSUME NEW n \in Nat PROVE Trees[n + 1] = Leaves \cup TreesOf(Trees[n])
  <2>1. n + 1 \in Nat /\ n + 1 # 0 /\ (n + 1) - 1 = n
    OBVIOUS
  <2>. QED
    BY <1>4, <2>1
<1>. QED
  BY <1>5, <1>6

(* What the fields of a tree are, whose operands are these.                *)
OperandsIn(node, S) ==
  /\ node.type \in UnaryTypes => node.arg0 \in S
  /\ node.type \in BinaryTypes \cup TernaryTypes => node.arg0 \in S /\ node.arg1 \in S
  /\ node.type \in TernaryTypes => node.arg2 = NULL \/ node.arg2 \in S
  /\ node.type = "BLOCK" => node.items \in Seq(S)
  /\ node.type = "CALL" => node.arg0 \in S /\ node.arg1.items \in Seq(S)
  /\ node.type \in {"CONTINUE", "BREAK"} => LoopCount(node.arg0) \in Int
  /\ node.type = "BREAK" => node.arg1 = NULL \/ node.arg1 \in S

LeafFields(node) ==
  /\ node.type = "INTEGER_LITERAL" => node.integer \in Int
  /\ node.type = "SYMBOL" => node.symbol \in STRING
  /\ node.type = "UTF8_LITERAL" => node.text \in STRING

InnerTypes ==
  UnaryTypes \cup BinaryTypes \cup TernaryTypes \cup {"BLOCK", "CALL", "CONTINUE", "BREAK"}

LEMMA LeavesAreLeaves ==
  ASSUME NEW node \in Leaves
  PROVE  node.type \in LeafTypes /\ LeafFields(node)
<1>1. CASE node \in IntegerLeaves
  BY <1>1 DEF IntegerLeaves, LeafTypes, AtomTypes, LeafFields
<1>2. CASE node \in {Nil, [type |-> "UTF32_LITERAL"], EndOfFile}
  BY <1>2 DEF Nil, EndOfFile, LeafTypes, AtomTypes, LeafFields
<1>3. CASE node \in [type : {"BOOLEAN_LITERAL"}, boolean : BOOLEAN]
  BY <1>3 DEF LeafTypes, AtomTypes, LeafFields
<1>4. CASE node \in [type : {"SYMBOL"}, symbol : STRING]
  BY <1>4 DEF LeafTypes, AtomTypes, LeafFields
<1>5. CASE node \in [type : {"UTF8_LITERAL"}, text : STRING]
  BY <1>5 DEF LeafTypes, AtomTypes, LeafFields
<1>. QED
  BY <1>1, <1>2, <1>3, <1>4, <1>5 DEF Leaves

LEMMA TypesAreDisjoint ==
  /\ LeafTypes \cap InnerTypes = {}
  /\ UnaryTypes \cap (BinaryTypes \cup TernaryTypes) = {}
  /\ BinaryTypes \cap TernaryTypes = {}
  /\ (UnaryTypes \cup BinaryTypes \cup TernaryTypes) \cap {"BLOCK", "CALL", "CONTINUE", "BREAK"} = {}
BY DEF LeafTypes, AtomTypes, InnerTypes, UnaryTypes, BinaryTypes, TernaryTypes, ComparisonTypes

LEMMA InnerNodes ==
  ASSUME NEW S, NEW node \in TreesOf(S)
  PROVE  node.type \in InnerTypes /\ OperandsIn(node, S)
<1>. USE TypesAreDisjoint DEF InnerTypes, OperandsIn
<1>1. CASE node \in [type : UnaryTypes, arg0 : S]
  BY <1>1
<1>2. CASE node \in [type : BinaryTypes, arg0 : S, arg1 : S]
  BY <1>2
<1>3. CASE node \in [type : TernaryTypes, arg0 : S, arg1 : S, arg2 : {NULL} \cup S]
  BY <1>3
<1>4. CASE node \in [type : {"BLOCK"}, items : Seq(S)]
  BY <1>4
<1>5. CASE node \in [type : {"CALL"}, arg0 : S, arg1 : [type : {"COMMA_SEPARATED"}, items : Seq(S)]]
  BY <1>5
<1>6. ASSUME NEW depth \in {NULL} \cup IntegerLeaves PROVE LoopCount(depth) \in Int
  BY DEF LoopCount, IntegerLeaves
<1>7. CASE node \in [type : {"CONTINUE"}, arg0 : {NULL} \cup IntegerLeaves]
  BY <1>6, <1>7
<1>8. CASE node \in [type : {"BREAK"}, arg0 : {NULL} \cup IntegerLeaves, arg1 : {NULL} \cup S]
  BY <1>6, <1>8
<1>. QED
  BY <1>1, <1>2, <1>3, <1>4, <1>5, <1>7, <1>8 DEF TreesOf

LEMMA MoreTrees ==
  ASSUME NEW S, NEW R, S \subseteq R
  PROVE  TreesOf(S) \subseteq TreesOf(R)
<1>1. Seq(S) \subseteq Seq(R)
  BY SeqDef
<1>2. [type : UnaryTypes, arg0 : S] \subseteq [type : UnaryTypes, arg0 : R]
  OBVIOUS
<1>3. [type : BinaryTypes, arg0 : S, arg1 : S] \subseteq [type : BinaryTypes, arg0 : R, arg1 : R]
  OBVIOUS
<1>4. [type : TernaryTypes, arg0 : S, arg1 : S, arg2 : {NULL} \cup S]
        \subseteq [type : TernaryTypes, arg0 : R, arg1 : R, arg2 : {NULL} \cup R]
  OBVIOUS
<1>5. [type : {"BLOCK"}, items : Seq(S)] \subseteq [type : {"BLOCK"}, items : Seq(R)]
  BY <1>1
<1>6. [type : {"CALL"}, arg0 : S, arg1 : [type : {"COMMA_SEPARATED"}, items : Seq(S)]]
        \subseteq [type : {"CALL"}, arg0 : R, arg1 : [type : {"COMMA_SEPARATED"}, items : Seq(R)]]
  BY <1>1
<1>7. [type : {"BREAK"}, arg0 : {NULL} \cup IntegerLeaves, arg1 : {NULL} \cup S]
        \subseteq [type : {"BREAK"}, arg0 : {NULL} \cup IntegerLeaves, arg1 : {NULL} \cup R]
  OBVIOUS
<1>. QED
  BY <1>2, <1>3, <1>4, <1>5, <1>6, <1>7 DEF TreesOf

LEMMA TreesGrow == \A n \in Nat : Trees[n] \subseteq Trees[n + 1]
<1>. DEFINE T == {n \in Nat : Trees[n] \subseteq Trees[n + 1]}
<1>1. 0 \in T
  <2>1. 0 + 1 \in Nat /\ Trees[0] = Leaves /\ Trees[0 + 1] = Leaves \cup TreesOf(Trees[0])
    BY TreesAreDefined
  <2>. QED
    BY <2>1
<1>2. ASSUME NEW n \in Nat, n \in T PROVE n + 1 \in T
  <2>1. TreesOf(Trees[n]) \subseteq TreesOf(Trees[n + 1])
    BY <1>2, MoreTrees
  <2>2. n + 1 \in Nat /\ Trees[n + 1] = Leaves \cup TreesOf(Trees[n])
        /\ Trees[(n + 1) + 1] = Leaves \cup TreesOf(Trees[n + 1])
    BY TreesAreDefined
  <2>. QED
    BY <2>1, <2>2
<1>3. Nat \subseteq T
  <2>. HIDE DEF T
  <2>. QED
    BY <1>1, <1>2, Induction
<1>. QED
  BY <1>3

(* A tree is a leaf, or a node whose operands are trees of less nesting.   *)
LEMMA Unnest ==
  ASSUME NEW n \in Nat, NEW node \in Trees[n]
  PROVE  \/ node.type \in LeafTypes /\ LeafFields(node)
         \/ /\ n # 0 /\ n - 1 \in Nat
            /\ node.type \in InnerTypes /\ OperandsIn(node, Trees[n - 1])
<1>1. CASE node \in Leaves
  BY <1>1, LeavesAreLeaves
<1>2. CASE node \notin Leaves
  <2>1. n # 0
    BY <1>2, TreesAreDefined
  <2>2. n - 1 \in Nat /\ (n - 1) + 1 = n
    BY <2>1
  <2>3. Trees[(n - 1) + 1] = Leaves \cup TreesOf(Trees[n - 1])
    BY <2>2, TreesAreDefined
  <2>4. node \in TreesOf(Trees[n - 1])
    BY <1>2, <2>2, <2>3
  <2>. QED
    BY <2>1, <2>2, <2>4, InnerNodes
<1>. QED
  BY <1>1, <1>2

-------------------------------------------------------------------------------
(* One compilation follows from another: what compiling a node may do.     *)

(* The line runs after so many more bytes of a line.                       *)
RunsAfter(lineRuns, line, count) ==
  IF count = 0 THEN lineRuns ELSE ByteCode_updateLineRuns(lineRuns, line, count)

StartsWith(longer, shorter) ==
  /\ Len(shorter) <= Len(longer)
  /\ \A k \in 1 .. Len(shorter) : longer[k] = shorter[k]

(* The bytes below a place no remembered break is below stay, and no break *)
(* of a place below it is remembered.                                      *)
KeepsBytes(c, d) ==
  /\ Count(c) <= Count(d)
  /\ \A n \in 0 .. Count(c) : (\A b \in c.breaks : n <= b.index) =>
       /\ \A b \in d.breaks : n <= b.index
       /\ \A k \in 1 .. n : d.code.items[k] = c.code.items[k]

KeepsRuns(c, d) == d.code.lineRuns = RunsAfter(c.code.lineRuns, c.line, Count(d) - Count(c))

KeepsCode(c, d) == d \in Compilations /\ d.line = c.line /\ KeepsBytes(c, d) /\ KeepsRuns(c, d)

KeepsSymbols(c, d) ==
  d.symbols.scopes = c.symbols.scopes /\ StartsWith(d.symbols.items, c.symbols.items)

Keeps(c, d) == KeepsCode(c, d) /\ KeepsSymbols(c, d)

(* The same, with a scope more that was opened on the way.                 *)
OpenedIn(c, d) ==
  \E scope \in [start : Nat, checkpoint : Nat, type : {"GENERIC", "BREAKABLE"}] :
    /\ scope.checkpoint = Len(c.symbols.items)
    /\ d.symbols.scopes = Append(c.symbols.scopes, scope)

Within(c, d) ==
  KeepsCode(c, d) /\ OpenedIn(c, d) /\ StartsWith(d.symbols.items, c.symbols.items)

LEMMA CompilationFields ==
  ASSUME NEW c \in Compilations
  PROVE  /\ c.symbols \in SymbolLists /\ c.breaks \in SUBSET [depth : Int, index : Nat]
         /\ c.hasErrors \in BOOLEAN /\ c.code \in ByteCodes /\ c.line \in Nat
         /\ c.code.items \in Seq(Int) /\ c.code.capacity \in Nat /\ c.code.block \in Nat
         /\ c.code.lineRuns \in LineRuns /\ c.code.lineRuns # <<>> /\ c.code.blobs \in Seq(STRING)
         /\ Count(c) \in Nat /\ Count(c) = Len(c.code.items)
         /\ Len(c.symbols.items) \in Nat /\ Len(c.symbols.scopes) \in Nat
<1>1. /\ c.symbols \in SymbolLists /\ c.breaks \in SUBSET [depth : Int, index : Nat]
      /\ c.hasErrors \in BOOLEAN /\ c.code \in ByteCodes /\ c.line \in Nat
  BY DEF Compilations
<1>2. /\ c.code.items \in Seq(Int) /\ c.code.capacity \in Nat /\ c.code.block \in Nat
      /\ c.code.lineRuns \in LineRuns /\ c.code.lineRuns # <<>> /\ c.code.blobs \in Seq(STRING)
  BY <1>1 DEF ByteCodes, LineRuns
<1>3. Len(c.code.items) \in Nat
  BY <1>2, LenProperties
<1>4. Len(c.symbols.items) \in Nat /\ Len(c.symbols.scopes) \in Nat
  BY <1>1 DEF SymbolLists
<1>. QED
  BY <1>1, <1>2, <1>3, <1>4 DEF Count, ByteCode_count

LEMMA UpdatedRuns ==
  ASSUME NEW runs \in LineRuns, runs # <<>>, NEW line \in Nat, NEW count \in Nat
  PROVE  /\ ByteCode_updateLineRuns(runs, line, count) \in LineRuns \ {<<>>}
         /\ RunsAfter(runs, line, count) \in LineRuns \ {<<>>}
<1>. DEFINE Runs == [line : Nat, run : Nat]
            last == Len(runs)
            longer == [runs[last] EXCEPT !.run = @ + count]
            other == [line |-> line, run |-> count]
<1>1. runs \in Seq(Runs) /\ last \in Nat \ {0} /\ last \in 1 .. Len(runs)
  BY EmptySeq DEF LineRuns
<1>2. runs[last] \in Runs
  <2>. HIDE DEF Runs, last
  <2>. QED
    BY <1>1, ElementOfSeq
<1>3. longer \in Runs /\ other \in Runs
  BY <1>2
<1>4. /\ [runs EXCEPT ![last] = longer] \in Seq(Runs) /\ Len([runs EXCEPT ![last] = longer]) = last
      /\ Append(runs, other) \in Seq(Runs) /\ Append(runs, other) # <<>>
  <2>. HIDE DEF Runs, longer, other
  <2>. QED
    BY <1>1, <1>3, ExceptSeq, AppendProperties
<1>5. [runs EXCEPT ![last] = longer] # <<>>
  <2>. HIDE DEF Runs, longer, other
  <2>. QED
    BY <1>1, <1>4, EmptySeq
<1>6. ByteCode_updateLineRuns(runs, line, count) \in LineRuns \ {<<>>}
  <2>1. CASE runs[last].line = line
    BY <2>1, <1>4, <1>5 DEF ByteCode_updateLineRuns, LineRuns
  <2>2. CASE runs[last].line # line
    BY <2>2, <1>4 DEF ByteCode_updateLineRuns, LineRuns
  <2>. QED
    BY <2>1, <2>2
<1>. QED
  BY <1>6 DEF RunsAfter

(* Emitting twice is emitting once what is emitted.                        *)
LEMMA UpdatedTwice ==
  ASSUME NEW runs \in LineRuns, runs # <<>>, NEW line \in Nat, NEW i \in Nat, NEW j \in Nat
  PROVE  RunsAfter(RunsAfter(runs, line, i), line, j) = RunsAfter(runs, line, i + j)
<1>1. CASE i = 0 \/ j = 0
  <2>1. i + 0 = i /\ 0 + j = j
    OBVIOUS
  <2>. QED
    BY <1>1, <2>1 DEF RunsAfter
<1>2. CASE i # 0 /\ j # 0
  <2>. DEFINE Runs == [line : Nat, run : Nat]
              last == Len(runs)
              once == ByteCode_updateLineRuns(runs, line, i)
              twice == ByteCode_updateLineRuns(once, line, j)
              Longer(k) == [runs[last] EXCEPT !.run = @ + k]
              Other(k) == [line |-> line, run |-> k]
  <2>1. runs \in Seq(Runs) /\ last \in Nat \ {0} /\ last \in 1 .. Len(runs)
    BY EmptySeq DEF LineRuns
  <2>2. runs[last] \in Runs
    <3>. HIDE DEF Runs, last
    <3>. QED
      BY <2>1, ElementOfSeq
  <2>3. /\ Longer(i) \in Runs /\ Other(i) \in Runs /\ Longer(i).line = runs[last].line
        /\ [Longer(i) EXCEPT !.run = @ + j] = Longer(i + j)
        /\ Other(i + j) \in Runs
        /\ Other(i).line = line /\ [Other(i) EXCEPT !.run = @ + j] = Other(i + j)
    <3>1. runs[last] = [line |-> runs[last].line, run |-> runs[last].run]
          /\ runs[last].line \in Nat /\ runs[last].run \in Nat
      BY <2>2
    <3>2. (runs[last].run + i) + j = runs[last].run + (i + j) /\ runs[last].run + i \in Nat
      BY <3>1
    <3>3. \A k \in Nat : Longer(k) = [line |-> runs[last].line, run |-> runs[last].run + k]
      BY <3>1
    <3>4. i + j \in Nat
      OBVIOUS
    <3>5. Longer(i) \in Runs /\ Longer(i).line = runs[last].line
      BY <3>1, <3>2, <3>3
    <3>6. [Longer(i) EXCEPT !.run = @ + j] = Longer(i + j)
      BY <3>2, <3>3, <3>4
    <3>. QED
      BY <3>4, <3>5, <3>6
  <2>. SUFFICES twice = ByteCode_updateLineRuns(runs, line, i + j)
    BY <1>2 DEF RunsAfter
  <2>4. CASE runs[last].line = line
    <3>1. /\ once = [runs EXCEPT ![last] = Longer(i)]
          /\ ByteCode_updateLineRuns(runs, line, i + j) = [runs EXCEPT ![last] = Longer(i + j)]
      BY <2>4 DEF ByteCode_updateLineRuns
    <3>2. Len(once) = last /\ once[last] = Longer(i)
      <4>. HIDE DEF Runs, once, Longer
      <4>. QED
        BY <2>1, <2>3, <3>1, ExceptSeq
    <3>3. twice = [once EXCEPT ![last] = [Longer(i) EXCEPT !.run = @ + j]]
      <4>. HIDE DEF once, Longer, last
      <4>. QED
        BY <2>3, <2>4, <3>2 DEF ByteCode_updateLineRuns
    <3>4. twice = [once EXCEPT ![last] = Longer(i + j)]
      BY <2>3, <3>3
    <3>5. [once EXCEPT ![last] = Longer(i + j)] = [runs EXCEPT ![last] = Longer(i + j)]
      <4>. HIDE DEF once, Longer
      <4>. QED
        BY <3>1
    <3>. QED
      BY <3>1, <3>4, <3>5
  <2>5. CASE runs[last].line # line
    <3>1. /\ once = Append(runs, Other(i))
          /\ ByteCode_updateLineRuns(runs, line, i + j) = Append(runs, Other(i + j))
      BY <2>5 DEF ByteCode_updateLineRuns
    <3>2. Len(once) = last + 1 /\ once[last + 1] = Other(i)
      <4>. HIDE DEF Runs, once, Other
      <4>. QED
        BY <2>1, <2>3, <3>1, AppendProperties
    <3>3. twice = [once EXCEPT ![last + 1] = [Other(i) EXCEPT !.run = @ + j]]
      <4>. HIDE DEF once, Other, last
      <4>. QED
        BY <2>3, <3>2 DEF ByteCode_updateLineRuns
    <3>4. twice = [once EXCEPT ![last + 1] = Other(i + j)]
      BY <2>3, <3>3
    <3>5. [once EXCEPT ![last + 1] = Other(i + j)] = Append(runs, Other(i + j))
      <4>. DEFINE left == [once EXCEPT ![last + 1] = Other(i + j)]
                  right == Append(runs, Other(i + j))
      <4>1. once \in Seq(Runs) /\ last + 1 \in 1 .. Len(once)
            /\ \A k \in 1 .. last : once[k] = runs[k]
        <5>. HIDE DEF once, Other, Runs
        <5>. QED
          BY <2>1, <2>3, <3>1, <3>2, AppendProperties
      <4>. HIDE DEF once, Other, Runs
      <4>2. /\ left \in Seq(Runs) /\ Len(left) = last + 1
            /\ \A k \in 1 .. last + 1 : left[k] = IF k = last + 1 THEN Other(i + j) ELSE once[k]
        BY <2>3, <3>2, <4>1, ExceptSeq
      <4>3. /\ right \in Seq(Runs) /\ Len(right) = last + 1
            /\ \A k \in 1 .. last : right[k] = runs[k]
            /\ right[last + 1] = Other(i + j)
        BY <2>1, <2>3, AppendProperties
      <4>. HIDE DEF left, right
      <4>4. ASSUME NEW k \in 1 .. last + 1 PROVE left[k] = right[k]
        <5>1. CASE k = last + 1
          BY <5>1, <4>2, <4>3
        <5>2. CASE k # last + 1
          <6>1. k \in 1 .. last
            BY <2>1, <5>2
          <6>. QED
            BY <5>2, <6>1, <4>1, <4>2, <4>3
        <5>. QED
          BY <5>1, <5>2
      <4>5. left = right
        BY <4>2, <4>3, <4>4, SeqEqual
      <4>. QED
        BY <4>5 DEF left, right
    <3>. QED
      BY <3>1, <3>4, <3>5
  <2>. QED
    BY <2>4, <2>5
<1>. QED
  BY <1>1, <1>2

LEMMA KeepsItself ==
  ASSUME NEW c \in Compilations
  PROVE  Keeps(c, c)
<1>1. Count(c) \in Nat /\ Count(c) - Count(c) = 0 /\ Len(c.symbols.items) \in Nat
  BY CompilationFields
<1>2. KeepsCode(c, c)
  BY <1>1 DEF KeepsCode, KeepsBytes, KeepsRuns, RunsAfter
<1>3. KeepsSymbols(c, c)
  BY <1>1 DEF KeepsSymbols, StartsWith
<1>. QED
  BY <1>2, <1>3 DEF Keeps

LEMMA KeepsCodeOn ==
  ASSUME NEW c \in Compilations, NEW d, NEW e, KeepsCode(c, d), KeepsCode(d, e)
  PROVE  KeepsCode(c, e)
<1>1. d \in Compilations /\ e \in Compilations /\ d.line = c.line /\ e.line = c.line
  BY DEF KeepsCode
<1>2. Count(c) \in Nat /\ Count(d) \in Nat /\ Count(e) \in Nat /\ Count(c) <= Count(d) /\ Count(d) <= Count(e)
  BY <1>1, CompilationFields DEF KeepsCode, KeepsBytes
<1>3. KeepsBytes(c, e)
  <2>1. ASSUME NEW n \in 0 .. Count(c), \A b \in c.breaks : n <= b.index
        PROVE  /\ \A b \in e.breaks : n <= b.index
               /\ \A k \in 1 .. n : e.code.items[k] = c.code.items[k]
    <3>1. /\ \A b \in d.breaks : n <= b.index
          /\ \A k \in 1 .. n : d.code.items[k] = c.code.items[k]
      BY <2>1 DEF KeepsCode, KeepsBytes
    <3>2. n \in 0 .. Count(d)
      BY <1>2
    <3>3. /\ \A b \in e.breaks : n <= b.index
          /\ \A k \in 1 .. n : e.code.items[k] = d.code.items[k]
      BY <3>1, <3>2 DEF KeepsCode, KeepsBytes
    <3>. QED
      BY <3>1, <3>3
  <2>. QED
    BY <1>2, <2>1 DEF KeepsBytes
<1>4. KeepsRuns(c, e)
  <2>. DEFINE i == Count(d) - Count(c)
              j == Count(e) - Count(d)
  <2>1. i \in Nat /\ j \in Nat /\ i + j = Count(e) - Count(c)
    BY <1>2
  <2>2. d.code.lineRuns = RunsAfter(c.code.lineRuns, c.line, i)
        /\ e.code.lineRuns = RunsAfter(d.code.lineRuns, c.line, j)
    BY <1>1 DEF KeepsCode, KeepsRuns
  <2>3. c.code.lineRuns \in LineRuns /\ c.code.lineRuns # <<>> /\ c.line \in Nat
    BY CompilationFields
  <2>4. RunsAfter(RunsAfter(c.code.lineRuns, c.line, i), c.line, j) = RunsAfter(c.code.lineRuns, c.line, i + j)
    <3>. DEFINE runs == c.code.lineRuns
                line == c.line
    <3>. HIDE DEF i, j, runs, line
    <3>1. RunsAfter(RunsAfter(runs, line, i), line, j) = RunsAfter(runs, line, i + j)
      <4>1. runs \in LineRuns /\ runs # <<>> /\ line \in Nat
        BY <2>3 DEF runs, line
      <4>. QED
        BY <2>1, <4>1, UpdatedTwice
    <3>. QED
      BY <3>1 DEF runs, line
  <2>. HIDE DEF i, j
  <2>. QED
    BY <2>1, <2>2, <2>4 DEF KeepsRuns
<1>. QED
  BY <1>1, <1>3, <1>4 DEF KeepsCode

LEMMA StartsOn ==
  ASSUME NEW first, NEW second, NEW third, Len(first) \in Nat, Len(second) \in Nat, Len(third) \in Nat,
         StartsWith(second, first), StartsWith(third, second)
  PROVE  StartsWith(third, first)
BY DEF StartsWith

LEMMA KeepsOn ==
  ASSUME NEW c \in Compilations, NEW d, NEW e, Keeps(c, d), Keeps(d, e)
  PROVE  Keeps(c, e)
<1>1. KeepsCode(c, e) /\ d \in Compilations /\ e \in Compilations
  BY KeepsCodeOn DEF Keeps, KeepsCode
<1>2. Len(c.symbols.items) \in Nat /\ Len(d.symbols.items) \in Nat /\ Len(e.symbols.items) \in Nat
  BY <1>1, CompilationFields
<1>3. KeepsSymbols(c, e)
  BY <1>2, StartsOn DEF Keeps, KeepsSymbols
<1>. QED
  BY <1>1, <1>3 DEF Keeps

LEMMA WithinOn ==
  ASSUME NEW c \in Compilations, NEW d, NEW e, Within(c, d), Keeps(d, e)
  PROVE  Within(c, e)
<1>1. KeepsCode(c, e) /\ d \in Compilations /\ e \in Compilations
  BY KeepsCodeOn DEF Within, Keeps, KeepsCode
<1>2. Len(c.symbols.items) \in Nat /\ Len(d.symbols.items) \in Nat /\ Len(e.symbols.items) \in Nat
  BY <1>1, CompilationFields
<1>3. OpenedIn(c, e) /\ StartsWith(e.symbols.items, c.symbols.items)
  BY <1>2, StartsOn DEF Within, Keeps, KeepsSymbols, OpenedIn
<1>. QED
  BY <1>1, <1>3 DEF Within

-------------------------------------------------------------------------------
(* What emits bytes, and what only takes note.                             *)

OpNames == {Instructions[i] : i \in DOMAIN Instructions}

LEMMA OpsAreBytes == \A op \in OpNames : OP[op] \in Int
<1>. SUFFICES ASSUME NEW op \in OpNames PROVE OP[op] \in Int
  OBVIOUS
<1>. DEFINE position == CHOOSE i \in DOMAIN Instructions : Instructions[i] = op
<1>1. DOMAIN Instructions = 1 .. 31
  BY DEF Instructions
<1>2. position \in 1 .. 31
  <2>. HIDE DEF Instructions
  <2>1. \E i \in DOMAIN Instructions : Instructions[i] = op
    BY DEF OpNames
  <2>. QED
    BY <1>1, <2>1
<1>3. OP[op] = position - 1
  BY DEF OP, OpNames
<1>. HIDE DEF position
<1>. QED
  BY <1>2, <1>3

LEMMA OpsHaveNames ==
  {"NIL", "TRUE", "FALSE", "INTEGER", "UTF8", "BUILTIN", "GET", "SET", "NEGATE", "NOT",
   "ADD", "SUBTRACT", "MULTIPLY", "IDIVIDE", "DUP", "DROP", "ROT3", "JUMP", "JUMP_TRUE",
   "JUMP_FALSE", "SCOPE_OPEN", "SCOPE_CLOSE", "CALL", "RETURN"} \cup ComparisonTypes
     \subseteq OpNames
<1>1. DOMAIN Instructions = 1 .. 31
  BY DEF Instructions
<1>2. \A i \in 1 .. 31 : Instructions[i] \in OpNames
  <2>. HIDE DEF Instructions
  <2>. QED
    BY <1>1 DEF OpNames
<1>3. /\ Instructions[1] = "NIL" /\ Instructions[2] = "TRUE" /\ Instructions[3] = "FALSE"
      /\ Instructions[4] = "INTEGER" /\ Instructions[5] = "UTF8" /\ Instructions[7] = "BUILTIN"
      /\ Instructions[8] = "GET" /\ Instructions[9] = "SET" /\ Instructions[10] = "NEGATE"
      /\ Instructions[11] = "NOT" /\ Instructions[12] = "ADD" /\ Instructions[13] = "SUBTRACT"
      /\ Instructions[14] = "MULTIPLY" /\ Instructions[15] = "IDIVIDE"
      /\ Instructions[16] = "LESS_THAN" /\ Instructions[17] = "LESS_THAN_EQUAL"
      /\ Instructions[18] = "GREATER_THAN" /\ Instructions[19] = "GREATER_THAN_EQUAL"
      /\ Instructions[20] = "EQUAL" /\ Instructions[21] = "NOT_EQUAL"
      /\ Instructions[22] = "DUP" /\ Instructions[23] = "DROP" /\ Instructions[24] = "ROT3"
      /\ Instructions[25] = "JUMP" /\ Instructions[26] = "JUMP_TRUE" /\ Instructions[27] = "JUMP_FALSE"
      /\ Instructions[28] = "SCOPE_OPEN" /\ Instructions[29] = "SCOPE_CLOSE"
      /\ Instructions[30] = "CALL" /\ Instructions[31] = "RETURN"
  BY DEF Instructions
<1>. HIDE DEF Instructions, OpNames
<1>4. /\ Instructions[1] \in OpNames /\ Instructions[2] \in OpNames /\ Instructions[3] \in OpNames
      /\ Instructions[4] \in OpNames /\ Instructions[5] \in OpNames /\ Instructions[7] \in OpNames
      /\ Instructions[8] \in OpNames /\ Instructions[9] \in OpNames /\ Instructions[10] \in OpNames
      /\ Instructions[11] \in OpNames /\ Instructions[12] \in OpNames /\ Instructions[13] \in OpNames
      /\ Instructions[14] \in OpNames /\ Instructions[15] \in OpNames
  BY <1>2
<1>5. \A i \in 16 .. 31 : Instructions[i] \in OpNames
  BY <1>2
<1>6. /\ Instructions[16] \in OpNames /\ Instructions[17] \in OpNames /\ Instructions[18] \in OpNames
      /\ Instructions[19] \in OpNames /\ Instructions[20] \in OpNames /\ Instructions[21] \in OpNames
      /\ Instructions[22] \in OpNames /\ Instructions[23] \in OpNames /\ Instructions[24] \in OpNames
      /\ Instructions[25] \in OpNames /\ Instructions[26] \in OpNames /\ Instructions[27] \in OpNames
      /\ Instructions[28] \in OpNames /\ Instructions[29] \in OpNames /\ Instructions[30] \in OpNames
      /\ Instructions[31] \in OpNames
  BY <1>5
<1>. QED
  BY <1>3, <1>4, <1>6 DEF ComparisonTypes

(* Emitting no byte and forgetting nothing.                                *)
LEMMA TakingNoteKeeps ==
  ASSUME NEW c \in Compilations, NEW d \in Compilations, d.line = c.line,
         d.code.items = c.code.items, d.code.lineRuns = c.code.lineRuns,
         d.breaks = c.breaks
  PROVE  /\ KeepsCode(c, d) /\ Count(d) = Count(c)
         /\ KeepsSymbols(c, d) => Keeps(c, d)
         /\ d.symbols = c.symbols => Keeps(c, d)
<1>1. Count(d) = Count(c) /\ Count(c) \in Nat
  BY CompilationFields DEF Count, ByteCode_count
<1>2. KeepsCode(c, d)
  <2>1. Count(d) - Count(c) = 0
    BY <1>1
  <2>2. KeepsRuns(c, d)
    BY <2>1 DEF KeepsRuns, RunsAfter
  <2>3. KeepsBytes(c, d)
    BY <1>1 DEF KeepsBytes
  <2>. QED
    BY <2>2, <2>3 DEF KeepsCode
<1>3. d.symbols = c.symbols => KeepsSymbols(c, d)
  BY CompilationFields DEF KeepsSymbols, StartsWith
<1>. QED
  BY <1>1, <1>2, <1>3 DEF Keeps

LEMMA RequireKeeps ==
  ASSUME NEW c \in Compilations, NEW condition, NEW assertion \in Assertions
  PROVE  /\ Keeps(c, Abort(c, assertion)) /\ Count(Abort(c, assertion)) = Count(c)
         /\ Keeps(c, Require(c, condition, assertion))
         /\ Count(Require(c, condition, assertion)) = Count(c)
         /\ Require(c, condition, assertion).symbols = c.symbols
<1>1. Keeps(c, Abort(c, assertion)) /\ Count(Abort(c, assertion)) = Count(c)
      /\ Abort(c, assertion).symbols = c.symbols
  <2>1. CASE c.fault # NoAbort
    BY <2>1, KeepsItself DEF Abort
  <2>2. CASE c.fault = NoAbort
    <3>. DEFINE d == [c EXCEPT !.fault = assertion]
    <3>1. /\ d \in Compilations /\ d.line = c.line /\ d.code = c.code
          /\ d.breaks = c.breaks /\ d.symbols = c.symbols
      BY DEF Compilations
    <3>2. Abort(c, assertion) = d
      BY <2>2 DEF Abort
    <3>. HIDE DEF d
    <3>. QED
      BY <3>1, <3>2, TakingNoteKeeps
  <2>. QED
    BY <2>1, <2>2
<1>. QED
  BY <1>1, KeepsItself DEF Require

LEMMA ReportKeeps ==
  ASSUME NEW c \in Compilations
  PROVE  Keeps(c, Report(c))
<1>. DEFINE d == [c EXCEPT !.hasErrors = TRUE]
<1>1. /\ d \in Compilations /\ d.line = c.line /\ d.code = c.code
      /\ d.breaks = c.breaks /\ d.symbols = c.symbols
  BY DEF Compilations
<1>2. Report(c) = d
  BY DEF Report
<1>. HIDE DEF d
<1>. QED
  BY <1>1, <1>2, TakingNoteKeeps

LEMMA EmitBytesKeeps ==
  ASSUME NEW c \in Compilations, NEW bytes \in Seq(Int), bytes # <<>>
  PROVE  /\ Keeps(c, EmitBytes(c, bytes))
         /\ Count(EmitBytes(c, bytes)) = Count(c) + Len(bytes)
         /\ EmitBytes(c, bytes).symbols = c.symbols
<1>. DEFINE code == c.code
            room == IF ByteCode_canInsert(code, Len(bytes)) THEN code ELSE ByteCode_grow(code)
            items == code.items \o bytes
            runs == ByteCode_updateLineRuns(code.lineRuns, c.line, Len(bytes))
            d == EmitBytes(c, bytes)
<1>1. Len(bytes) \in Nat \ {0}
  BY EmptySeq
<1>2. code \in ByteCodes /\ code.lineRuns \in LineRuns /\ code.lineRuns # <<>> /\ c.line \in Nat
      /\ code.items \in Seq(Int) /\ Len(code.items) \in Nat /\ Count(c) = Len(code.items)
  BY CompilationFields
<1>3. room \in ByteCodes /\ room.items = code.items /\ room.lineRuns = code.lineRuns
  <2>1. code.capacity \in Nat /\ code.block \in Nat
    BY <1>2 DEF ByteCodes
  <2>2. code.capacity * 2 \in Nat /\ code.block + 1 \in Nat
    BY <2>1
  <2>. DEFINE moved == IF CodeMoves THEN code.block + 1 ELSE code.block
              big == code.capacity * 2
  <2>3. moved \in Nat /\ big \in Nat /\ ByteCode_grow(code) = [code EXCEPT !.capacity = big, !.block = moved]
    BY <2>1, <2>2 DEF ByteCode_grow
  <2>. HIDE DEF moved, big
  <2>4. /\ ByteCode_grow(code) \in ByteCodes /\ ByteCode_grow(code).items = code.items
        /\ ByteCode_grow(code).lineRuns = code.lineRuns
    <3>. HIDE DEF code
    <3>. QED
      BY <1>2, <2>3 DEF ByteCodes
  <2>. QED
    BY <1>2, <2>4
<1>4. runs \in LineRuns \ {<<>>}
  BY <1>1, <1>2, UpdatedRuns
<1>5. items \in Seq(Int) /\ Len(items) = Len(code.items) + Len(bytes)
      /\ \A k \in 1 .. Len(code.items) : items[k] = code.items[k]
  BY <1>1, <1>2, ConcatProperties
<1>6. d = [c EXCEPT !.code = [room EXCEPT !.items = items, !.lineRuns = runs]]
  BY <1>3 DEF EmitBytes, AppendBytes
<1>7. /\ d \in Compilations /\ d.line = c.line /\ d.breaks = c.breaks /\ d.symbols = c.symbols
      /\ d.code.items = items /\ d.code.lineRuns = runs
  <2>. HIDE DEF items, runs, room, d
  <2>1. [room EXCEPT !.items = items, !.lineRuns = runs] \in ByteCodes
    BY <1>3, <1>4, <1>5 DEF ByteCodes, LineRuns
  <2>2. room = [items |-> room.items, capacity |-> room.capacity, block |-> room.block,
                lineRuns |-> room.lineRuns, blobs |-> room.blobs]
    BY <1>3 DEF ByteCodes
  <2>. QED
    BY <1>6, <2>1, <2>2 DEF Compilations
<1>. HIDE DEF items, runs, room, d
<1>8. Count(d) = Count(c) + Len(bytes) /\ Count(c) \in Nat
  BY <1>2, <1>5, <1>7 DEF Count, ByteCode_count
<1>9. KeepsBytes(c, d)
  <2>1. \A k \in 1 .. Count(c) : d.code.items[k] = c.code.items[k]
    BY <1>2, <1>5, <1>7
  <2>2. Count(c) <= Count(d)
    BY <1>1, <1>8
  <2>. QED
    BY <1>7, <1>8, <2>1, <2>2 DEF KeepsBytes
<1>10. KeepsRuns(c, d)
  <2>1. Count(d) - Count(c) = Len(bytes) /\ Len(bytes) # 0
    BY <1>1, <1>8
  <2>. QED
    BY <1>7, <2>1 DEF KeepsRuns, RunsAfter, runs
<1>11. KeepsSymbols(c, d)
  BY <1>7, CompilationFields DEF KeepsSymbols, StartsWith
<1>. QED
  BY <1>7, <1>8, <1>9, <1>10, <1>11 DEF Keeps, KeepsCode, d

LEMMA EmitOpKeeps ==
  ASSUME NEW c \in Compilations, NEW op \in OpNames
  PROVE  /\ Keeps(c, EmitOp(c, op)) /\ Count(EmitOp(c, op)) = Count(c) + 1
         /\ EmitOp(c, op).symbols = c.symbols
<1>1. OP[op] \in Int
  BY OpsAreBytes
<1>2. <<OP[op]>> \in Seq(Int) /\ <<OP[op]>> # <<>> /\ Len(<<OP[op]>>) = 1
  BY <1>1
<1>. QED
  BY <1>2, EmitBytesKeeps DEF EmitOp

LEMMA EmitInt16Keeps ==
  ASSUME NEW c \in Compilations, NEW i \in Int
  PROVE  Keeps(c, EmitInt16(c, i)) /\ Count(EmitInt16(c, i)) = Count(c) + 2
<1>1. i % 256 \in Int /\ (i \div 256) % 256 \in Int
  OBVIOUS
<1>2. Int16Bytes(i) \in Seq(Int) /\ Int16Bytes(i) # <<>> /\ Len(Int16Bytes(i)) = 2
  BY <1>1 DEF Int16Bytes
<1>. QED
  BY <1>2, EmitBytesKeeps DEF EmitInt16

-------------------------------------------------------------------------------
(* Emitters one after the other.                                           *)

(* What a node may be compiled by.                                         *)
Emitting == {emitter \in [Compilations -> Compilations] : \A c \in Compilations : Keeps(c, emitter[c])}

LEMMA StagesAreDefined ==
  ASSUME NEW c \in Compilations, NEW emitters \in Seq(Emitting)
  PROVE  /\ Stages(emitters, c)[0] = c
         /\ \A i \in 1 .. Len(emitters) :
              Stages(emitters, c)[i] = emitters[i][Stages(emitters, c)[i - 1]]
<1>. DEFINE D == 0 .. Len(emitters)
            size == [i \in D |-> i]
            base == [i \in D |-> c]
            step == [i \in D |-> IF i = 0 THEN [d \in Compilations |-> d] ELSE emitters[i]]
            next == [i \in D |-> IF i = 0 THEN 0 ELSE i - 1]
            Solves(f) == f = [i \in D |-> IF i = 0 THEN c ELSE emitters[i][f[i - 1]]]
<1>1. Len(emitters) \in Nat /\ 0 \in D
  BY LenProperties
<1>2. \A i \in 1 .. Len(emitters) : emitters[i] \in [Compilations -> Compilations]
  <2>1. \A i \in 1 .. Len(emitters) : emitters[i] \in Emitting
    BY ElementOfSeq
  <2>. QED
    BY <2>1 DEF Emitting
<1>3. size \in [D -> Nat] /\ base \in [D -> Compilations] /\ next \in [D -> D] /\ {0} \in SUBSET D
  BY <1>1
<1>4. step \in [D -> [Compilations -> Compilations]]
  <2>1. \A i \in D : i # 0 => i \in 1 .. Len(emitters)
    BY <1>1
  <2>. QED
    BY <1>2, <2>1
<1>5. \A i \in D : i \notin {0} => size[next[i]] < size[i]
  BY <1>1
<1>6. Descends(D, Compilations, size, {0}, base, step, next)
  <2>. HIDE DEF D, size, base, step, next
  <2>. QED
    BY <1>3, <1>4, <1>5 DEF Descends
<1>7. PICK f \in [D -> Compilations] :
        \A i \in D : f[i] = IF i \in {0} THEN base[i] ELSE step[i][f[next[i]]]
  <2>. HIDE DEF D, size, base, step, next
  <2>. QED
    BY <1>6, RecursionExists
<1>8. ASSUME NEW i \in D PROVE f[i] = IF i = 0 THEN c ELSE emitters[i][f[i - 1]]
  BY <1>7
<1>9. Solves(f)
  <2>1. f = [i \in D |-> f[i]]
    BY <1>7
  <2>. QED
    BY <1>8, <2>1
<1>10. Stages(emitters, c) = CHOOSE g : Solves(g)
  BY DEF Stages
<1>11. Solves(Stages(emitters, c))
  <2>. HIDE DEF Solves
  <2>. QED
    BY <1>9, <1>10
<1>. DEFINE stages == Stages(emitters, c)
<1>12. \A i \in D : stages[i] = IF i = 0 THEN c ELSE emitters[i][stages[i - 1]]
  BY <1>11
<1>. HIDE DEF stages
<1>13. stages[0] = c
  BY <1>1, <1>12
<1>14. ASSUME NEW i \in 1 .. Len(emitters) PROVE stages[i] = emitters[i][stages[i - 1]]
  <2>1. i \in D /\ i # 0
    BY <1>1
  <2>. QED
    BY <1>12, <2>1
<1>. QED
  BY <1>13, <1>14 DEF stages

LEMMA InTurnKeeps ==
  ASSUME NEW c \in Compilations, NEW emitters \in Seq(Emitting)
  PROVE  /\ \A i \in 0 .. Len(emitters) : Keeps(c, Stages(emitters, c)[i])
         /\ Keeps(c, InTurn(emitters, c))
<1>. DEFINE stages == Stages(emitters, c)
            T == {i \in Nat : i <= Len(emitters) => Keeps(c, stages[i])}
<1>1. Len(emitters) \in Nat
  BY LenProperties
<1>2. /\ stages[0] = c
      /\ \A i \in 1 .. Len(emitters) : stages[i] = emitters[i][stages[i - 1]]
  BY StagesAreDefined
<1>. HIDE DEF stages
<1>3. 0 \in T
  BY <1>2, KeepsItself
<1>4. ASSUME NEW i \in Nat, i \in T PROVE i + 1 \in T
  <2>. SUFFICES ASSUME i + 1 <= Len(emitters) PROVE Keeps(c, stages[i + 1])
    OBVIOUS
  <2>1. i <= Len(emitters) /\ i + 1 \in 1 .. Len(emitters) /\ (i + 1) - 1 = i
    BY <1>1
  <2>2. Keeps(c, stages[i]) /\ stages[i] \in Compilations
    BY <1>4, <2>1 DEF Keeps, KeepsCode
  <2>3. emitters[i + 1] \in Emitting
    BY <2>1, ElementOfSeq
  <2>4. stages[i + 1] = emitters[i + 1][stages[i]]
    BY <1>2, <2>1
  <2>5. Keeps(stages[i], stages[i + 1])
    BY <2>2, <2>3, <2>4 DEF Emitting
  <2>. QED
    BY <2>2, <2>5, KeepsOn
<1>5. Nat \subseteq T
  <2>. HIDE DEF T
  <2>. QED
    BY <1>3, <1>4, Induction
<1>6. \A i \in 0 .. Len(emitters) : Keeps(c, stages[i])
  BY <1>1, <1>5
<1>7. Len(emitters) \in 0 .. Len(emitters)
  BY <1>1
<1>. QED
  BY <1>6, <1>7 DEF stages, InTurn

LEMMA IsSequence ==
  ASSUME NEW S, NEW n \in Nat, NEW f \in [1 .. n -> S]
  PROVE  f \in Seq(S) /\ Len(f) = n
<1>1. f \in Seq(S)
  BY SeqDef
<1>2. Len(f) \in Nat /\ DOMAIN f = 1 .. Len(f) /\ DOMAIN f = 1 .. n
  BY <1>1, LenProperties
<1>. QED
  BY <1>1, <1>2

LEMMA EmitOpsKeeps ==
  ASSUME NEW c \in Compilations, NEW ops \in Seq(OpNames)
  PROVE  Keeps(c, EmitOps(c, ops))
<1>. DEFINE Emitter(i) == [d \in Compilations |-> EmitOp(d, ops[i])]
            emitters == [i \in DOMAIN ops |-> Emitter(i)]
<1>1. Len(ops) \in Nat /\ DOMAIN ops = 1 .. Len(ops)
  BY LenProperties
<1>2. ASSUME NEW i \in 1 .. Len(ops) PROVE Emitter(i) \in Emitting
  <2>1. ops[i] \in OpNames
    BY ElementOfSeq
  <2>2. \A d \in Compilations : Keeps(d, EmitOp(d, ops[i])) /\ EmitOp(d, ops[i]) \in Compilations
    BY <2>1, EmitOpKeeps DEF Keeps, KeepsCode
  <2>. QED
    BY <2>2 DEF Emitting
<1>. HIDE DEF Emitter
<1>3. emitters \in [1 .. Len(ops) -> Emitting]
  BY <1>1, <1>2
<1>4. emitters \in Seq(Emitting)
  <2>. HIDE DEF emitters
  <2>. QED
    BY <1>1, <1>3, IsSequence
<1>5. Keeps(c, InTurn(emitters, c))
  <2>. HIDE DEF emitters
  <2>. QED
    BY <1>4, InTurnKeeps
<1>. QED
  BY <1>5 DEF EmitOps, Emitter

-------------------------------------------------------------------------------
(* Writing operands that were left open.                                   *)

(* Other bytes in the places of a compilation from somewhere on.           *)
LEMMA WritingKeeps ==
  ASSUME NEW c \in Compilations, NEW d \in Compilations, Keeps(c, d), NEW e \in Compilations,
         e.line = d.line, e.symbols = d.symbols, e.code.lineRuns = d.code.lineRuns,
         Len(e.code.items) = Len(d.code.items),
         NEW first \in Nat, first >= Count(c),
         \A k \in 1 .. Len(d.code.items) : k <= first => e.code.items[k] = d.code.items[k],
         \A b \in e.breaks : \E a \in d.breaks : b.index = a.index
  PROVE  Keeps(c, e)
<1>1. Count(e) = Count(d) /\ Count(c) \in Nat /\ Count(d) \in Nat /\ Count(d) = Len(d.code.items)
      /\ Count(c) <= Count(d)
  BY CompilationFields DEF Count, ByteCode_count, Keeps, KeepsCode, KeepsBytes
<1>2. KeepsBytes(c, e)
  <2>1. ASSUME NEW n \in 0 .. Count(c), \A b \in c.breaks : n <= b.index
        PROVE  /\ \A b \in e.breaks : n <= b.index
               /\ \A k \in 1 .. n : e.code.items[k] = c.code.items[k]
    <3>1. /\ \A b \in d.breaks : n <= b.index
          /\ \A k \in 1 .. n : d.code.items[k] = c.code.items[k]
      BY <2>1 DEF Keeps, KeepsCode, KeepsBytes
    <3>2. \A b \in e.breaks : n <= b.index
      BY <3>1
    <3>3. ASSUME NEW k \in 1 .. n PROVE e.code.items[k] = c.code.items[k]
      <4>1. k \in 1 .. Len(d.code.items) /\ k <= first
        BY <1>1
      <4>. QED
        BY <3>1, <4>1
    <3>. QED
      BY <3>2, <3>3
  <2>. QED
    BY <1>1, <2>1 DEF KeepsBytes
<1>3. KeepsRuns(c, e)
  BY <1>1 DEF Keeps, KeepsCode, KeepsRuns
<1>. QED
  BY <1>2, <1>3 DEF Keeps, KeepsCode, KeepsSymbols

LEMMA BackpatchKeeps ==
  ASSUME NEW c \in Compilations, NEW d, Keeps(c, d),
         NEW pointer, pointer.index \in Nat, pointer.index >= Count(c)
  PROVE  Keeps(c, Backpatch(d, pointer))
<1>. DEFINE i == Count(d) - pointer.index
            at == pointer.index
            low == Int16Bytes(i)[1]
            high == Int16Bytes(i)[2]
            items == [d.code.items EXCEPT ![at + 1] = low, ![at + 2] = high]
            e == [d EXCEPT !.code = [d.code EXCEPT !.items = items]]
<1>1. d \in Compilations /\ d.code.items \in Seq(Int) /\ Count(d) \in Nat /\ Len(d.code.items) \in Nat
      /\ at \in Nat /\ d.code \in ByteCodes
  BY CompilationFields DEF Keeps, KeepsCode
<1>2. CASE pointer.block # d.code.block
  <2>1. Backpatch(d, pointer) = [d EXCEPT !.code = d.code]
    BY <1>2 DEF Backpatch, PatchThrough
  <2>2. Backpatch(d, pointer) = d
    BY <1>1, <2>1 DEF Compilations
  <2>. QED
    BY <2>2
<1>3. CASE pointer.block = d.code.block
  <2>1. Backpatch(d, pointer) = e
    BY <1>3 DEF Backpatch, PatchThrough, PatchAt
  <2>2. i \in Int
    BY <1>1
  <2>3. low \in Int /\ high \in Int
    <3>. HIDE DEF i
    <3>1. i % 256 \in Int /\ (i \div 256) % 256 \in Int
      BY <2>2
    <3>. QED
      BY <3>1 DEF Int16Bytes
  <2>. HIDE DEF low, high, at
  <2>4. items \in [1 .. Len(d.code.items) -> Int] /\ \A k \in 1 .. Len(d.code.items) : k <= at => items[k] = d.code.items[k]
    <3>1. d.code.items \in [1 .. Len(d.code.items) -> Int]
      BY <1>1, LenProperties
    <3>. DEFINE first == [d.code.items EXCEPT ![at + 1] = low]
    <3>2. /\ first \in [1 .. Len(d.code.items) -> Int]
          /\ \A k \in 1 .. Len(d.code.items) : k # at + 1 => first[k] = d.code.items[k]
      BY <2>3, <3>1
    <3>3. items = [first EXCEPT ![at + 2] = high]
      OBVIOUS
    <3>. HIDE DEF first, items
    <3>4. /\ items \in [1 .. Len(d.code.items) -> Int]
          /\ \A k \in 1 .. Len(d.code.items) : k # at + 2 => items[k] = first[k]
      BY <2>3, <3>2, <3>3
    <3>5. \A k \in 1 .. Len(d.code.items) : k <= at => k # at + 1 /\ k # at + 2
      BY <1>1
    <3>. QED
      BY <3>2, <3>4, <3>5
  <2>. HIDE DEF items
  <2>5. items \in Seq(Int) /\ Len(items) = Len(d.code.items)
    BY <1>1, <2>4, IsSequence
  <2>6. /\ e \in Compilations /\ e.line = d.line /\ e.symbols = d.symbols /\ e.breaks = d.breaks
        /\ e.code.lineRuns = d.code.lineRuns /\ e.code.items = items
    <3>1. [d.code EXCEPT !.items = items] \in ByteCodes
      BY <1>1, <2>5 DEF ByteCodes
    <3>2. [d.code EXCEPT !.items = items].lineRuns = d.code.lineRuns
          /\ [d.code EXCEPT !.items = items].items = items
      BY <1>1 DEF ByteCodes
    <3>. QED
      BY <1>1, <3>1, <3>2 DEF Compilations
  <2>. HIDE DEF e
  <2>7. at >= Count(c)
    BY DEF at
  <2>8. \A b \in e.breaks : \E a \in d.breaks : b.index = a.index
    BY <2>6
  <2>9. Len(e.code.items) = Len(d.code.items)
        /\ \A k \in 1 .. Len(d.code.items) : k <= at => e.code.items[k] = d.code.items[k]
    BY <2>4, <2>5, <2>6
  <2>10. Keeps(c, e)
    BY <1>1, <2>6, <2>7, <2>8, <2>9, WritingKeeps
  <2>. QED
    BY <2>1, <2>10
<1>. QED
  BY <1>2, <1>3

LEMMA Int16BytesAreIntegers ==
  \A i \in Int : Int16Bytes(i)[1] \in Int /\ Int16Bytes(i)[2] \in Int
<1>1. \A i \in Int : i % 256 \in Int /\ (i \div 256) % 256 \in Int
  OBVIOUS
<1>. QED
  BY <1>1 DEF Int16Bytes

(* A break is remembered at the place its operand will have, and what is   *)
(* patched at the end of a loop are such places.                           *)
LEMMA PatchBreaksKeeps ==
  ASSUME NEW c \in Compilations
  PROVE  Keeps(c, PatchBreaks(c))
<1>. DEFINE indexes == {b.index : b \in Arrived(c.breaks)}
            size == Len(c.code.items)
            target == Count(c)
            Byte(k) == IF k - 1 \in indexes THEN Int16Bytes(target - (k - 1))[1]
                       ELSE IF k - 2 \in indexes THEN Int16Bytes(target - (k - 2))[2]
                       ELSE c.code.items[k]
            items == [k \in 1 .. size |-> Byte(k)]
            breaks == Nearer(c.breaks) \ Arrived(c.breaks)
            e == [c EXCEPT !.code = [c.code EXCEPT !.items = items], !.breaks = breaks]
<1>1. /\ size \in Nat /\ target \in Nat /\ target = size /\ c.code.items \in Seq(Int)
      /\ c.code \in ByteCodes /\ c.breaks \in SUBSET [depth : Int, index : Nat]
  BY CompilationFields
<1>2. PatchBreaks(c) = e
  BY DEF PatchBreaks, PatchAll
<1>3. Nearer(c.breaks) \in SUBSET [depth : Int, index : Nat]
      /\ \A b \in Nearer(c.breaks) : \E a \in c.breaks : b.index = a.index
  BY <1>1 DEF Nearer
<1>4. breaks \in SUBSET [depth : Int, index : Nat]
      /\ \A b \in breaks : \E a \in c.breaks : b.index = a.index
  BY <1>3
<1>5. indexes \subseteq Nat /\ \A index \in indexes : \E a \in c.breaks : index = a.index
  BY <1>3 DEF Arrived
<1>. HIDE DEF indexes, breaks, size, target
<1>6. ASSUME NEW k \in 1 .. size PROVE Byte(k) \in Int
  <2>1. target - (k - 1) \in Int /\ target - (k - 2) \in Int
    BY <1>1
  <2>2. c.code.items[k] \in Int
    BY <1>1, ElementOfSeq DEF size
  <2>3. Int16Bytes(target - (k - 1))[1] \in Int /\ Int16Bytes(target - (k - 2))[2] \in Int
    BY <2>1, Int16BytesAreIntegers
  <2>. QED
    BY <2>2, <2>3
<1>7. ASSUME NEW n \in 0 .. size, \A b \in c.breaks : n <= b.index
      PROVE  \A k \in 1 .. n : Byte(k) = c.code.items[k]
  <2>1. \A index \in indexes : index \in Nat /\ n <= index
    BY <1>5, <1>7
  <2>2. \A k \in 1 .. n : k - 1 \notin indexes /\ k - 2 \notin indexes
    BY <1>1, <2>1
  <2>. QED
    BY <2>2
<1>. HIDE DEF Byte
<1>8. items \in [1 .. size -> Int]
  BY <1>6
<1>9. items \in Seq(Int) /\ Len(items) = size
  <2>. HIDE DEF items
  <2>. QED
    BY <1>1, <1>8, IsSequence
<1>10. \A k \in 1 .. size : items[k] = Byte(k)
  OBVIOUS
<1>. HIDE DEF items
<1>11. /\ e \in Compilations /\ e.line = c.line /\ e.symbols = c.symbols /\ e.breaks = breaks
       /\ e.code.lineRuns = c.code.lineRuns /\ e.code.items = items
  <2>1. [c.code EXCEPT !.items = items] \in ByteCodes
    BY <1>1, <1>9 DEF ByteCodes
  <2>2. [c.code EXCEPT !.items = items].lineRuns = c.code.lineRuns
        /\ [c.code EXCEPT !.items = items].items = items
    BY <1>1 DEF ByteCodes
  <2>. QED
    BY <1>4, <2>1, <2>2 DEF Compilations
<1>. HIDE DEF e
<1>12. Count(e) = size /\ Count(c) = size
  BY <1>1, <1>9, <1>11 DEF Count, ByteCode_count, target
<1>13. KeepsBytes(c, e)
  <2>1. ASSUME NEW n \in 0 .. size, \A b \in c.breaks : n <= b.index
        PROVE  /\ \A b \in e.breaks : n <= b.index
               /\ \A k \in 1 .. n : e.code.items[k] = c.code.items[k]
    <3>1. \A k \in 1 .. n : k \in 1 .. size
      BY <1>1
    <3>2. \A k \in 1 .. n : e.code.items[k] = c.code.items[k]
      BY <1>7, <1>10, <1>11, <2>1, <3>1
    <3>3. \A b \in e.breaks : n <= b.index
      BY <1>4, <1>11, <2>1
    <3>. QED
      BY <3>2, <3>3
  <2>. QED
    BY <1>1, <1>12, <2>1 DEF KeepsBytes
<1>14. KeepsRuns(c, e)
  BY <1>1, <1>11, <1>12 DEF KeepsRuns, RunsAfter
<1>15. KeepsSymbols(c, e)
  BY <1>11, CompilationFields DEF KeepsSymbols, StartsWith
<1>. QED
  BY <1>2, <1>11, <1>13, <1>14, <1>15 DEF Keeps, KeepsCode

LEMMA PatchLowBytesKeeps ==
  ASSUME NEW c \in Compilations, NEW d, Keeps(c, d), NEW target \in Int,
         NEW indexes, \A index \in indexes : index \in Nat /\ Count(c) <= index
  PROVE  Keeps(c, [d EXCEPT !.code = PatchLowBytes(@, indexes, target)])
<1>. DEFINE size == Len(d.code.items)
            Byte(k) == IF k - 1 \in indexes THEN (target - (k - 1)) % 256 ELSE d.code.items[k]
            items == [k \in 1 .. size |-> Byte(k)]
            e == [d EXCEPT !.code = [d.code EXCEPT !.items = items]]
<1>1. d \in Compilations /\ d.code.items \in Seq(Int) /\ size \in Nat /\ d.code \in ByteCodes
      /\ Count(c) \in Nat
  BY CompilationFields DEF Keeps, KeepsCode
<1>2. [d EXCEPT !.code = PatchLowBytes(@, indexes, target)] = e
  BY DEF PatchLowBytes
<1>3. ASSUME NEW k \in 1 .. size PROVE Byte(k) \in Int
  <2>1. d.code.items[k] \in Int
    BY <1>1, ElementOfSeq
  <2>2. (target - (k - 1)) % 256 \in Int
    OBVIOUS
  <2>. QED
    BY <2>1, <2>2
<1>4. \A k \in 1 .. size : k <= Count(c) => Byte(k) = d.code.items[k]
  BY <1>1
<1>. HIDE DEF Byte
<1>5. items \in [1 .. size -> Int] /\ \A k \in 1 .. size : k <= Count(c) => items[k] = d.code.items[k]
  BY <1>3, <1>4
<1>. HIDE DEF items
<1>6. items \in Seq(Int) /\ Len(items) = size
  BY <1>1, <1>5, IsSequence
<1>7. /\ e \in Compilations /\ e.line = d.line /\ e.symbols = d.symbols /\ e.breaks = d.breaks
      /\ e.code.lineRuns = d.code.lineRuns /\ e.code.items = items
  <2>1. [d.code EXCEPT !.items = items] \in ByteCodes
    BY <1>1, <1>6 DEF ByteCodes
  <2>2. [d.code EXCEPT !.items = items].lineRuns = d.code.lineRuns
        /\ [d.code EXCEPT !.items = items].items = items
    BY <1>1 DEF ByteCodes
  <2>. QED
    BY <1>1, <2>1, <2>2 DEF Compilations
<1>. HIDE DEF e
<1>8. \A b \in e.breaks : \E a \in d.breaks : b.index = a.index
  BY <1>7
<1>9. Len(e.code.items) = Len(d.code.items)
      /\ \A k \in 1 .. Len(d.code.items) : k <= Count(c) => e.code.items[k] = d.code.items[k]
  BY <1>5, <1>6, <1>7
<1>10. Keeps(c, e)
  BY <1>1, <1>7, <1>8, <1>9, WritingKeeps
<1>. QED
  BY <1>2, <1>10

-------------------------------------------------------------------------------
(* Scopes, symbols and breaks.                                             *)

LEMMA OpenScopeStarts ==
  ASSUME NEW c \in Compilations, NEW type \in {"GENERIC", "BREAKABLE"}
  PROVE  Within(c, OpenScope(c, type))
<1>. DEFINE scope == [start |-> Count(c), checkpoint |-> Len(c.symbols.items), type |-> type]
            Scopes == [start : Nat, checkpoint : Nat, type : {"GENERIC", "BREAKABLE"}]
            symbols == [c.symbols EXCEPT !.scopes = Append(@, scope)]
            d == [c EXCEPT !.symbols = symbols]
            checked == Require(d, Len(c.symbols.scopes) < MaxScopeDepth, "scopeDepth < UINT8_MAX")
            e == EmitOp(checked, "SCOPE_OPEN")
<1>1. c.symbols \in SymbolLists /\ Count(c) \in Nat /\ Len(c.symbols.items) \in Nat
      /\ Len(c.symbols.scopes) \in Nat
  BY CompilationFields
<1>2. scope \in Scopes /\ c.symbols.scopes \in Seq(Scopes)
  BY <1>1 DEF SymbolLists
<1>3. Append(c.symbols.scopes, scope) \in Seq(Scopes)
  <2>. HIDE DEF Scopes, scope
  <2>. QED
    BY <1>2, AppendProperties
<1>4. symbols \in SymbolLists /\ symbols.items = c.symbols.items
      /\ symbols.scopes = Append(c.symbols.scopes, scope)
  <2>. HIDE DEF scope
  <2>. QED
    BY <1>1, <1>3 DEF SymbolLists
<1>5. d \in Compilations /\ d.line = c.line /\ d.code = c.code /\ d.breaks = c.breaks /\ d.symbols = symbols
  <2>. HIDE DEF symbols
  <2>. QED
    BY <1>4 DEF Compilations
<1>6. scope.checkpoint = Len(c.symbols.items)
  OBVIOUS
<1>. HIDE DEF d, symbols
<1>7. OpenedIn(c, d)
  BY <1>2, <1>4, <1>5, <1>6 DEF OpenedIn
<1>8. KeepsCode(c, d) /\ StartsWith(d.symbols.items, c.symbols.items)
  BY <1>1, <1>4, <1>5, TakingNoteKeeps DEF StartsWith
<1>9. Keeps(d, checked) /\ checked \in Compilations
  <2>. DEFINE condition == Len(c.symbols.scopes) < MaxScopeDepth
  <2>1. Keeps(d, Require(d, condition, "scopeDepth < UINT8_MAX"))
    <3>. HIDE DEF condition
    <3>1. "scopeDepth < UINT8_MAX" \in Assertions
      BY DEF Assertions
    <3>. QED
      BY <1>5, <3>1, RequireKeeps
  <2>. QED
    BY <2>1 DEF Keeps, KeepsCode
<1>10. Keeps(checked, e)
  <2>. HIDE DEF checked
  <2>. QED
    BY <1>9, EmitOpKeeps, OpsHaveNames
<1>11. OpenScope(c, type) = e
  BY DEF OpenScope, SymbolList_openScope, d, symbols
<1>12. Within(c, d)
  BY <1>7, <1>8 DEF Within
<1>. HIDE DEF checked, e
<1>13. Within(c, checked)
  BY <1>9, <1>12, WithinOn
<1>14. Within(c, e)
  BY <1>10, <1>13, WithinOn
<1>. QED
  BY <1>11, <1>14

LEMMA CloseScopeKeeps ==
  ASSUME NEW c \in Compilations, NEW d, Within(c, d)
  PROVE  Keeps(c, CloseScope(d))
<1>. DEFINE closed == EmitOp(d, "SCOPE_CLOSE")
            symbols == SymbolList_closeScope(closed.symbols)
            e == [closed EXCEPT !.symbols = symbols]
            Entry == [symbol : STRING, definedOnLine : Nat, isMutable : BOOLEAN]
            Scopes == [start : Nat, checkpoint : Nat, type : {"GENERIC", "BREAKABLE"}]
<1>1. d \in Compilations
  BY DEF Within, KeepsCode
<1>2. Keeps(d, closed)
  BY <1>1, EmitOpKeeps, OpsHaveNames
<1>. HIDE DEF closed
<1>3. Within(c, closed) /\ closed \in Compilations
  BY <1>2, WithinOn DEF Keeps, KeepsCode
<1>4. PICK scope \in Scopes :
        /\ scope.checkpoint = Len(c.symbols.items)
        /\ closed.symbols.scopes = Append(c.symbols.scopes, scope)
  BY <1>3 DEF Within, OpenedIn
<1>5. /\ c.symbols.scopes \in Seq(Scopes) /\ c.symbols.items \in Seq(Entry)
      /\ closed.symbols.items \in Seq(Entry)
      /\ Len(c.symbols.items) \in Nat /\ Len(closed.symbols.items) \in Nat /\ Len(c.symbols.scopes) \in Nat
  BY <1>3, CompilationFields DEF SymbolLists
<1>6. Len(c.symbols.items) <= Len(closed.symbols.items)
      /\ \A k \in 1 .. Len(c.symbols.items) : closed.symbols.items[k] = c.symbols.items[k]
  BY <1>3 DEF Within, StartsWith
<1>. HIDE DEF Entry, Scopes
<1>7. Len(closed.symbols.scopes) = Len(c.symbols.scopes) + 1
      /\ closed.symbols.scopes[Len(closed.symbols.scopes)] = scope
      /\ closed.symbols.scopes \in Seq(Scopes)
      /\ \A k \in 1 .. Len(c.symbols.scopes) : closed.symbols.scopes[k] = c.symbols.scopes[k]
  BY <1>4, <1>5, AppendProperties
<1>8. SubSeq(closed.symbols.items, 1, Len(c.symbols.items)) = c.symbols.items
  <2>. DEFINE n == Len(c.symbols.items)
              cut == SubSeq(closed.symbols.items, 1, n)
  <2>1. n \in 0 .. Len(closed.symbols.items)
    BY <1>5, <1>6
  <2>2. cut \in Seq(Entry) /\ Len(cut) = n /\ \A k \in 1 .. n : cut[k] = closed.symbols.items[k]
    BY <1>5, <2>1, Prefix
  <2>. HIDE DEF cut
  <2>. QED
    BY <1>5, <1>6, <2>2, SeqEqual DEF cut
<1>9. SubSeq(closed.symbols.scopes, 1, Len(closed.symbols.scopes) - 1) = c.symbols.scopes
  <2>. DEFINE n == Len(c.symbols.scopes)
              cut == SubSeq(closed.symbols.scopes, 1, n)
  <2>1. n \in 0 .. Len(closed.symbols.scopes) /\ Len(closed.symbols.scopes) - 1 = n
    BY <1>5, <1>7
  <2>2. cut \in Seq(Scopes) /\ Len(cut) = n /\ \A k \in 1 .. n : cut[k] = closed.symbols.scopes[k]
    BY <1>7, <2>1, Prefix
  <2>. HIDE DEF cut
  <2>3. cut = c.symbols.scopes
    BY <1>5, <1>7, <2>2, SeqEqual
  <2>. QED
    BY <2>1, <2>3 DEF cut
<1>10. symbols = [items |-> c.symbols.items, scopes |-> c.symbols.scopes]
  BY <1>4, <1>7, <1>8, <1>9 DEF SymbolList_closeScope
<1>11. symbols = c.symbols /\ symbols \in SymbolLists
  BY <1>10, CompilationFields DEF SymbolLists
<1>. HIDE DEF symbols
<1>12. /\ e \in Compilations /\ e.line = closed.line /\ e.code = closed.code
       /\ e.breaks = closed.breaks /\ e.symbols = c.symbols
  BY <1>3, <1>11 DEF Compilations
<1>. HIDE DEF e
<1>13. KeepsCode(closed, e)
  BY <1>3, <1>12, TakingNoteKeeps
<1>14. KeepsCode(c, closed)
  BY <1>3 DEF Within
<1>15. KeepsCode(c, e)
  BY <1>13, <1>14, KeepsCodeOn
<1>16. KeepsSymbols(c, e)
  BY <1>5, <1>12 DEF KeepsSymbols, StartsWith
<1>17. CloseScope(d) = e
  BY DEF CloseScope, e, closed, symbols
<1>. QED
  BY <1>15, <1>16, <1>17 DEF Keeps

LEMMA EmitBreakKeeps ==
  ASSUME NEW c \in Compilations, NEW depth \in Int
  PROVE  Keeps(c, EmitBreak(c, depth))
<1>. DEFINE breaks == c.breaks \cup {[depth |-> depth, index |-> Count(c)]}
            d == [c EXCEPT !.breaks = breaks]
<1>1. Count(c) \in Nat /\ breaks \in SUBSET [depth : Int, index : Nat]
      /\ \A b \in breaks : b \in c.breaks \/ b.index = Count(c)
  BY CompilationFields
<1>2. EmitBreak(c, depth) = d
  BY DEF EmitBreak
<1>. HIDE DEF breaks
<1>3. d \in Compilations /\ d.line = c.line /\ d.code = c.code /\ d.symbols = c.symbols /\ d.breaks = breaks
  BY <1>1 DEF Compilations
<1>. HIDE DEF d
<1>4. Count(d) = Count(c) /\ Count(d) - Count(c) = 0
  BY <1>1, <1>3 DEF Count
<1>5. KeepsBytes(c, d)
  BY <1>1, <1>3, <1>4 DEF KeepsBytes
<1>6. KeepsRuns(c, d)
  BY <1>3, <1>4 DEF KeepsRuns, RunsAfter
<1>7. KeepsSymbols(c, d)
  BY <1>3, CompilationFields DEF KeepsSymbols, StartsWith
<1>. QED
  BY <1>2, <1>3, <1>5, <1>6, <1>7 DEF Keeps, KeepsCode

LEMMA DeclareKeeps ==
  ASSUME NEW c \in Compilations, NEW symbol \in STRING, NEW isMutable \in BOOLEAN
  PROVE  Keeps(c, Declare(c, symbol, isMutable))
<1>. DEFINE Entry == [symbol : STRING, definedOnLine : Nat, isMutable : BOOLEAN]
            entry == [symbol |-> symbol, definedOnLine |-> c.line, isMutable |-> isMutable]
            items == Append(c.symbols.items, entry)
            symbols == [c.symbols EXCEPT !.items = items]
            d == [c EXCEPT !.symbols = symbols]
<1>1. c.symbols \in SymbolLists /\ c.line \in Nat /\ Len(c.symbols.items) \in Nat
      /\ c.symbols.items \in Seq(Entry) /\ entry \in Entry
  BY CompilationFields DEF SymbolLists
<1>2. items \in Seq(Entry) /\ Len(items) = Len(c.symbols.items) + 1
      /\ \A k \in 1 .. Len(c.symbols.items) : items[k] = c.symbols.items[k]
  <2>. HIDE DEF Entry, entry
  <2>. QED
    BY <1>1, AppendProperties
<1>. HIDE DEF items
<1>3. symbols \in SymbolLists /\ symbols.items = items /\ symbols.scopes = c.symbols.scopes
  BY <1>1, <1>2 DEF SymbolLists
<1>. HIDE DEF symbols
<1>4. d \in Compilations /\ d.line = c.line /\ d.code = c.code /\ d.breaks = c.breaks /\ d.symbols = symbols
  BY <1>3 DEF Compilations
<1>. HIDE DEF d
<1>5. KeepsSymbols(c, d)
  <2>1. d.symbols.items = items /\ d.symbols.scopes = c.symbols.scopes
    BY <1>3, <1>4
  <2>2. StartsWith(items, c.symbols.items)
    BY <1>1, <1>2 DEF StartsWith
  <2>. QED
    BY <2>1, <2>2 DEF KeepsSymbols
<1>6. Keeps(c, d)
  BY <1>4, <1>5, TakingNoteKeeps
<1>7. Keeps(d, EmitOp(d, "NIL"))
  BY <1>4, EmitOpKeeps, OpsHaveNames
<1>8. Declare(c, symbol, isMutable) = EmitOp(d, "NIL")
  BY DEF Declare, SymbolList_append, d, symbols, items
<1>. QED
  BY <1>6, <1>7, <1>8, KeepsOn

-------------------------------------------------------------------------------
(* The same, behind what was compiled before.                              *)

(* The nodes that are compiled by these emitters keep what was there.      *)
CompilesAll(emit, nodes) == \A node \in nodes : emit[node] \in Emitting

LEMMA ThenOp ==
  ASSUME NEW c \in Compilations, NEW d, Keeps(c, d), NEW op \in OpNames
  PROVE  Keeps(c, EmitOp(d, op))
BY EmitOpKeeps, KeepsOn DEF Keeps, KeepsCode

LEMMA ThenOps ==
  ASSUME NEW c \in Compilations, NEW d, Keeps(c, d), NEW ops \in Seq(OpNames)
  PROVE  Keeps(c, EmitOps(d, ops))
<1>1. d \in Compilations
  BY DEF Keeps, KeepsCode
<1>2. Keeps(d, EmitOps(d, ops))
  BY <1>1, EmitOpsKeeps
<1>. QED
  BY <1>2, KeepsOn

LEMMA ThenBytes ==
  ASSUME NEW c \in Compilations, NEW d, Keeps(c, d), NEW bytes \in Seq(Int), bytes # <<>>
  PROVE  Keeps(c, EmitBytes(d, bytes))
<1>1. d \in Compilations
  BY DEF Keeps, KeepsCode
<1>2. Keeps(d, EmitBytes(d, bytes))
  BY <1>1, EmitBytesKeeps
<1>. QED
  BY <1>2, KeepsOn

LEMMA ThenInt16 ==
  ASSUME NEW c \in Compilations, NEW d, Keeps(c, d), NEW i \in Int
  PROVE  Keeps(c, EmitInt16(d, i))
BY EmitInt16Keeps, KeepsOn DEF Keeps, KeepsCode

LEMMA ThenRequire ==
  ASSUME NEW c \in Compilations, NEW d, Keeps(c, d), NEW condition, NEW assertion \in Assertions
  PROVE  Keeps(c, Require(d, condition, assertion))
<1>1. d \in Compilations
  BY DEF Keeps, KeepsCode
<1>2. Keeps(d, Require(d, condition, assertion))
  BY <1>1, RequireKeeps
<1>. QED
  BY <1>2, KeepsOn

LEMMA ThenNode ==
  ASSUME NEW c \in Compilations, NEW d, Keeps(c, d),
         NEW emit, NEW nodes, CompilesAll(emit, nodes), NEW node \in nodes
  PROVE  Keeps(c, emit[node][d])
<1>1. d \in Compilations /\ emit[node] \in Emitting
  BY DEF Keeps, KeepsCode, CompilesAll
<1>2. Keeps(d, emit[node][d])
  BY <1>1 DEF Emitting
<1>. QED
  BY <1>2, KeepsOn

LEMMA ThenScoped ==
  ASSUME NEW c \in Compilations, NEW d, Keeps(c, d), NEW type \in {"GENERIC", "BREAKABLE"},
         NEW emit, NEW nodes, CompilesAll(emit, nodes), NEW node \in nodes
  PROVE  Keeps(c, EmitScoped(emit, d, type, node))
<1>. DEFINE opened == OpenScope(d, type)
            body == emit[node][opened]
<1>1. d \in Compilations
  BY DEF Keeps, KeepsCode
<1>2. Within(d, opened)
  BY <1>1, OpenScopeStarts
<1>. HIDE DEF opened
<1>3. opened \in Compilations
  BY <1>2 DEF Within, KeepsCode
<1>4. Keeps(opened, body)
  BY <1>3, KeepsItself, ThenNode
<1>. HIDE DEF body
<1>5. Keeps(d, CloseScope(body))
  BY <1>1, <1>2, <1>4, WithinOn, CloseScopeKeeps
<1>. QED
  BY <1>5, KeepsOn DEF EmitScoped, body, opened

LEMMA EmitAllKeeps ==
  ASSUME NEW c \in Compilations, NEW nodes, NEW list \in Seq(nodes),
         NEW emit, CompilesAll(emit, nodes)
  PROVE  Keeps(c, EmitAll(emit, c, list))
<1>. DEFINE emitters == [i \in DOMAIN list |-> emit[list[i]]]
<1>1. Len(list) \in Nat /\ DOMAIN list = 1 .. Len(list)
  BY LenProperties
<1>2. ASSUME NEW i \in 1 .. Len(list) PROVE emit[list[i]] \in Emitting
  BY ElementOfSeq DEF CompilesAll
<1>3. emitters \in [1 .. Len(list) -> Emitting]
  BY <1>1, <1>2
<1>. HIDE DEF emitters
<1>4. emitters \in Seq(Emitting)
  BY <1>1, <1>3, IsSequence
<1>. QED
  BY <1>4, InTurnKeeps DEF EmitAll, emitters

LEMMA ThenAll ==
  ASSUME NEW c \in Compilations, NEW d, Keeps(c, d), NEW nodes, NEW list \in Seq(nodes),
         NEW emit, CompilesAll(emit, nodes)
  PROVE  Keeps(c, EmitAll(emit, d, list))
<1>1. d \in Compilations
  BY DEF Keeps, KeepsCode
<1>2. Keeps(d, EmitAll(emit, d, list))
  BY <1>1, EmitAllKeeps
<1>. QED
  BY <1>2, KeepsOn

(* An operand to fill in later lies behind what was there.                 *)
LEMMA HereIsBehind ==
  ASSUME NEW c \in Compilations, NEW d, KeepsCode(c, d)
  PROVE  Here(d).index \in Nat /\ Here(d).index >= Count(c)
<1>1. Count(d) \in Nat /\ Count(c) \in Nat /\ Count(c) <= Count(d)
  BY CompilationFields DEF KeepsCode, KeepsBytes
<1>2. Here(d).index = Count(d)
  BY DEF Here, ByteCode_pc
<1>. QED
  BY <1>1, <1>2

-------------------------------------------------------------------------------
(* The leaves.                                                             *)

LEMMA FindIsAnIndex ==
  ASSUME NEW c \in Compilations, NEW symbol
  PROVE  SymbolList_find(c.symbols, symbol) \in Int
<1>. DEFINE found == {i \in DOMAIN c.symbols.items : c.symbols.items[i].symbol = symbol}
            least == CHOOSE i \in found : \A j \in found : i <= j
<1>1. CASE found = {}
  BY <1>1 DEF SymbolList_find, NoSymbol
<1>2. CASE found # {}
  <2>1. DOMAIN c.symbols.items = 1 .. Len(c.symbols.items)
    BY CompilationFields DEF SymbolLists
  <2>2. found \subseteq Nat
    BY <2>1
  <2>3. SymbolList_find(c.symbols, symbol) = least - 1
    BY <1>2 DEF SymbolList_find
  <2>. HIDE DEF found
  <2>4. \E i \in found : \A j \in found : i <= j
    BY <1>2, <2>2, LeastNatural
  <2>5. least \in Nat
    BY <2>2, <2>4
  <2>. HIDE DEF least
  <2>. QED
    BY <2>3, <2>5
<1>. QED
  BY <1>1, <1>2

LEMMA BuiltinsHaveIndexes ==
  ASSUME NEW name, IsBuiltin(name)
  PROVE  Builtin_index(name) \in Int
<1>. DEFINE position == CHOOSE i \in DOMAIN Builtins : Builtins[i] = name
<1>1. DOMAIN Builtins = 1 .. 4
  BY DEF Builtins
<1>2. position \in 1 .. 4
  <2>. HIDE DEF Builtins
  <2>. QED
    BY <1>1 DEF IsBuiltin
<1>3. Builtin_index(name) = position - 1
  BY DEF Builtin_index
<1>. HIDE DEF position
<1>. QED
  BY <1>2, <1>3

LEMMA IndexedKeeps ==
  ASSUME NEW c \in Compilations, NEW d, Keeps(c, d), NEW op \in OpNames, NEW index \in Int
  PROVE  Keeps(c, EmitIndexed(d, op, index))
BY ThenOp, ThenInt16 DEF EmitIndexed

LEMMA IntegerKeeps ==
  ASSUME NEW c \in Compilations, NEW node, node.integer \in Int
  PROVE  Keeps(c, EmitInteger(c, node))
<1>. DEFINE i == node.integer
            checked == Require(c, i # TooBig, "result <= INT32_MAX")
            bytes == Int32Bytes(i)
<1>1. "result <= INT32_MAX" \in Assertions
  BY DEF Assertions
<1>2. Keeps(c, checked)
  <2>. DEFINE condition == i # TooBig
  <2>. HIDE DEF condition
  <2>1. Keeps(c, Require(c, condition, "result <= INT32_MAX"))
    BY <1>1, RequireKeeps
  <2>. QED
    BY <2>1 DEF condition
<1>3. bytes \in Seq(Int) /\ bytes # <<>>
  <2>. HIDE DEF i
  <2>1. i \in Int
    BY DEF i
  <2>2. i % 256 \in Int /\ (i \div 256) % 256 \in Int /\ (i \div 65536) % 256 \in Int
        /\ (i \div 16777216) % 256 \in Int
    BY <2>1
  <2>. QED
    BY <2>2 DEF Int32Bytes
<1>. HIDE DEF checked, bytes
<1>4. Keeps(c, EmitBytes(EmitOp(checked, "INTEGER"), bytes))
  <2>1. Keeps(c, EmitOp(checked, "INTEGER"))
    BY <1>2, ThenOp, OpsHaveNames
  <2>. QED
    BY <1>3, <2>1, ThenBytes
<1>. QED
  BY <1>4 DEF EmitInteger, checked, bytes

LEMMA UTF8Keeps ==
  ASSUME NEW c \in Compilations, NEW node, node.text \in STRING
  PROVE  Keeps(c, EmitUTF8(c, node))
<1>. DEFINE index == Len(c.code.blobs)
            code == BlobList_append(c.code, node.text)
            stored == [c EXCEPT !.code = code]
            condition == index <= 255
            checked == Require(stored, condition, "index <= UINT8_MAX")
<1>1. c.code \in ByteCodes /\ c.code.blobs \in Seq(STRING) /\ index \in Nat
  BY CompilationFields, LenProperties
<1>2. Append(c.code.blobs, node.text) \in Seq(STRING)
  BY <1>1, AppendProperties
<1>3. code \in ByteCodes /\ code.items = c.code.items /\ code.lineRuns = c.code.lineRuns
  BY <1>1, <1>2 DEF BlobList_append, ByteCodes
<1>4. EmitUTF8(c, node) = EmitBytes(EmitOp(checked, "UTF8"), <<index % 256>>)
  BY DEF EmitUTF8, BlobList_append
<1>. HIDE DEF code
<1>5. /\ stored \in Compilations /\ stored.line = c.line /\ stored.code = code
      /\ stored.breaks = c.breaks /\ stored.symbols = c.symbols
  BY <1>3 DEF Compilations
<1>. HIDE DEF stored
<1>6. Keeps(c, stored)
  BY <1>3, <1>5, TakingNoteKeeps
<1>. HIDE DEF condition
<1>7. Keeps(c, checked)
  <2>1. "index <= UINT8_MAX" \in Assertions
    BY DEF Assertions
  <2>. QED
    BY <1>6, <2>1, ThenRequire
<1>. HIDE DEF checked
<1>8. Keeps(c, EmitOp(checked, "UTF8"))
  BY <1>7, ThenOp, OpsHaveNames
<1>9. <<index % 256>> \in Seq(Int) /\ <<index % 256>> # <<>>
  BY <1>1
<1>. HIDE DEF index
<1>10. Keeps(c, EmitBytes(EmitOp(checked, "UTF8"), <<index % 256>>))
  BY <1>8, <1>9, ThenBytes
<1>. QED
  BY <1>4, <1>10

LEMMA SymbolKeeps ==
  ASSUME NEW c \in Compilations, NEW node
  PROVE  Keeps(c, EmitSymbol(c, node))
<1>. DEFINE index == SymbolList_find(c.symbols, node.symbol)
<1>1. index \in Int
  BY FindIsAnIndex
<1>2. CASE index # NoSymbol
  <2>1. EmitSymbol(c, node) = EmitIndexed(c, "GET", index)
    BY <1>2 DEF EmitSymbol
  <2>. HIDE DEF index
  <2>. QED
    BY <1>1, <2>1, KeepsItself, IndexedKeeps, OpsHaveNames
<1>3. CASE index = NoSymbol /\ IsBuiltin(node.symbol)
  <2>. DEFINE bytes == <<Builtin_index(node.symbol)>>
  <2>1. bytes \in Seq(Int) /\ bytes # <<>>
    BY <1>3, BuiltinsHaveIndexes
  <2>2. EmitSymbol(c, node) = EmitBytes(EmitOp(c, "BUILTIN"), bytes)
    BY <1>3 DEF EmitSymbol
  <2>. HIDE DEF bytes
  <2>3. Keeps(c, EmitOp(c, "BUILTIN"))
    BY EmitOpKeeps, OpsHaveNames
  <2>. QED
    BY <2>1, <2>2, <2>3, ThenBytes
<1>4. CASE index = NoSymbol /\ ~ IsBuiltin(node.symbol)
  <2>1. EmitSymbol(c, node) = Report(c)
    BY <1>4 DEF EmitSymbol
  <2>. QED
    BY <2>1, ReportKeeps
<1>. QED
  BY <1>2, <1>3, <1>4

LEMMA LeafKeeps ==
  ASSUME NEW c \in Compilations, NEW node, node.type \in LeafTypes, LeafFields(node)
  PROVE  Keeps(c, EmitLeaf(c, node))
<1>. USE DEF LeafFields
<1>1. CASE node.type = "INTEGER_LITERAL"
  BY <1>1, IntegerKeeps DEF EmitLeaf
<1>2. CASE node.type = "NIL_LITERAL"
  BY <1>2, EmitOpKeeps, OpsHaveNames DEF EmitLeaf
<1>3. CASE node.type = "BOOLEAN_LITERAL"
  BY <1>3, EmitOpKeeps, OpsHaveNames DEF EmitLeaf, EmitBoolean
<1>4. CASE node.type = "UTF8_LITERAL"
  BY <1>4, UTF8Keeps DEF EmitLeaf
<1>5. CASE node.type = "SYMBOL"
  BY <1>5, SymbolKeeps DEF EmitLeaf
<1>6. CASE node.type \in {"UTF32_LITERAL", "EOF"}
  <2>1. "assert(false)" \in Assertions
    BY DEF Assertions
  <2>. QED
    BY <1>6, <2>1, RequireKeeps DEF EmitLeaf
<1>. QED
  BY <1>1, <1>2, <1>3, <1>4, <1>5, <1>6 DEF LeafTypes, AtomTypes

-------------------------------------------------------------------------------
(* The nodes with operands, given what compiles those.                     *)

LEMMA SetKeeps ==
  ASSUME NEW c \in Compilations, NEW d, Keeps(c, d), NEW index \in Int
  PROVE  Keeps(c, EmitSet(d, index))
<1>1. Keeps(c, EmitIndexed(d, "SET", index))
  BY IndexedKeeps, OpsHaveNames
<1>. QED
  BY <1>1, ThenOp, OpsHaveNames DEF EmitSet

(* What is assigned to must be a symbol, or an assertion fails.            *)
LEMMA SymbolOrFault ==
  ASSUME NEW c \in Compilations, NEW d, Keeps(c, d), NEW name, NEW n \in Nat, name \in Trees[n]
  PROVE  LET valued == Require(d, name.type = "SYMBOL", "assignment to a symbol") IN
           Keeps(c, valued) /\ (valued.fault = NoAbort => name.symbol \in STRING)
<1>. DEFINE valued == Require(d, name.type = "SYMBOL", "assignment to a symbol")
<1>1. "assignment to a symbol" \in Assertions /\ NoAbort \notin Assertions
  BY DEF Assertions, NoAbort
<1>2. Keeps(c, valued)
  <2>. DEFINE condition == name.type = "SYMBOL"
  <2>. HIDE DEF condition
  <2>1. Keeps(c, Require(d, condition, "assignment to a symbol"))
    BY <1>1, ThenRequire
  <2>. QED
    BY <2>1 DEF condition
<1>3. CASE name.type = "SYMBOL"
  <2>1. name.type \in LeafTypes /\ LeafFields(name)
    <3>1. name.type \notin InnerTypes
      BY <1>3 DEF InnerTypes, UnaryTypes, BinaryTypes, TernaryTypes, ComparisonTypes
    <3>. QED
      BY <3>1, Unnest
  <2>. QED
    BY <1>2, <1>3, <2>1 DEF LeafFields
<1>4. CASE name.type # "SYMBOL"
  <2>1. valued = Abort(d, "assignment to a symbol")
    BY <1>4 DEF Require
  <2>2. d \in Compilations
    BY DEF Keeps, KeepsCode
  <2>3. Abort(d, "assignment to a symbol").fault # NoAbort
    BY <1>1, <2>2 DEF Abort, Compilations
  <2>. QED
    BY <1>2, <2>1, <2>3
<1>. QED
  BY <1>3, <1>4

LEMMA AssignKeeps ==
  ASSUME NEW c \in Compilations, NEW n \in Nat, NEW emit, CompilesAll(emit, Trees[n]),
         NEW node, node.arg0 \in Trees[n], node.arg1 \in Trees[n]
  PROVE  Keeps(c, EmitAssign(emit, c, node))
<1>. DEFINE d == emit[node.arg1][c]
            name == node.arg0
            valued == Require(d, name.type = "SYMBOL", "assignment to a symbol")
            index == SymbolList_find(valued.symbols, name.symbol)
            e == EmitAssign(emit, c, node)
<1>1. Keeps(c, d)
  BY KeepsItself, ThenNode
<1>2. Keeps(c, valued) /\ (valued.fault = NoAbort => name.symbol \in STRING)
  <2>. HIDE DEF d
  <2>. QED
    BY <1>1, SymbolOrFault
<1>3. e = IF valued.fault # NoAbort THEN valued
          ELSE IF index = NoSymbol THEN Declare(valued, name.symbol, FALSE)
          ELSE IF SymbolList_isMutable(valued.symbols, index) THEN EmitSet(valued, index)
          ELSE Report(valued)
  BY DEF EmitAssign
<1>. HIDE DEF valued, name, e
<1>4. valued \in Compilations
  BY <1>2 DEF Keeps, KeepsCode
<1>5. index \in Int
  BY <1>4, FindIsAnIndex
<1>. HIDE DEF index
<1>6. valued.fault = NoAbort => Keeps(c, Declare(valued, name.symbol, FALSE))
  BY <1>2, <1>4, DeclareKeeps, KeepsOn
<1>7. Keeps(c, EmitSet(valued, index))
  BY <1>2, <1>5, SetKeeps
<1>8. Keeps(c, Report(valued))
  BY <1>2, <1>4, ReportKeeps, KeepsOn
<1>9. Keeps(c, e)
  BY <1>2, <1>3, <1>6, <1>7, <1>8
<1>. QED
  BY <1>9 DEF e

LEMMA MutKeeps ==
  ASSUME NEW c \in Compilations, NEW n \in Nat, NEW emit, CompilesAll(emit, Trees[n]),
         NEW node, node.arg0 \in Trees[n]
  PROVE  Keeps(c, EmitMut(emit, c, node))
<1>. DEFINE assign == node.arg0
            d == emit[assign.arg1][c]
            name == assign.arg0
            valued == Require(d, name.type = "SYMBOL", "assignment to a symbol")
            e == EmitMut(emit, c, node)
<1>1. CASE assign.type # "ASSIGN"
  <2>1. "mut of an assignment" \in Assertions
    BY DEF Assertions
  <2>2. e = Abort(c, "mut of an assignment")
    BY <1>1 DEF EmitMut
  <2>. QED
    BY <2>1, <2>2, RequireKeeps
<1>2. CASE assign.type = "ASSIGN"
  <2>1. \E m \in Nat : m + 1 = n /\ name \in Trees[m] /\ assign.arg1 \in Trees[m]
    <3>1. assign.type \notin LeafTypes /\ assign.type \in BinaryTypes
      BY <1>2 DEF LeafTypes, AtomTypes, BinaryTypes
    <3>2. n # 0 /\ n - 1 \in Nat /\ OperandsIn(assign, Trees[n - 1])
      BY <3>1, Unnest
    <3>3. (n - 1) + 1 = n
      BY <3>2
    <3>. QED
      BY <3>1, <3>2, <3>3 DEF OperandsIn
  <2>2. PICK m \in Nat : m + 1 = n /\ name \in Trees[m] /\ assign.arg1 \in Trees[m]
    BY <2>1
  <2>3. assign.arg1 \in Trees[n]
    BY <2>2, TreesGrow
  <2>4. Keeps(c, d)
    BY <2>3, KeepsItself, ThenNode
  <2>5. Keeps(c, valued) /\ (valued.fault = NoAbort => name.symbol \in STRING)
    <3>. HIDE DEF d, name
    <3>. QED
      BY <2>2, <2>4, SymbolOrFault
  <2>6. e = IF valued.fault # NoAbort THEN valued
            ELSE IF SymbolList_find(valued.symbols, name.symbol) = NoSymbol
            THEN Declare(valued, name.symbol, TRUE)
            ELSE EmitOp(Report(valued), "NIL")
    BY <1>2 DEF EmitMut
  <2>. HIDE DEF valued, name, e
  <2>7. valued \in Compilations
    BY <2>5 DEF Keeps, KeepsCode
  <2>8. valued.fault = NoAbort => Keeps(c, Declare(valued, name.symbol, TRUE))
    BY <2>5, <2>7, DeclareKeeps, KeepsOn
  <2>9. Keeps(c, Report(valued))
    BY <2>5, <2>7, ReportKeeps, KeepsOn
  <2>10. Keeps(c, EmitOp(Report(valued), "NIL"))
    BY <2>9, ThenOp, OpsHaveNames
  <2>. QED
    BY <2>5, <2>6, <2>8, <2>10 DEF e
<1>. QED
  BY <1>1, <1>2

LEMMA BinaryNodeKeeps ==
  ASSUME NEW c \in Compilations, NEW nodes, NEW emit, CompilesAll(emit, nodes),
         NEW op \in OpNames, NEW node, node.arg0 \in nodes, node.arg1 \in nodes
  PROVE  Keeps(c, EmitBinaryNode(emit, c, op, node))
<1>. DEFINE list == <<node.arg0, node.arg1>>
            d == EmitAll(emit, c, list)
<1>1. list \in Seq(nodes)
  OBVIOUS
<1>. HIDE DEF list
<1>2. Keeps(c, d)
  BY <1>1, EmitAllKeeps
<1>. HIDE DEF d
<1>3. Keeps(c, EmitOp(d, op))
  BY <1>2, ThenOp
<1>. QED
  BY <1>3 DEF EmitBinaryNode, d, list

LEMMA LogicalKeeps ==
  ASSUME NEW c \in Compilations, NEW nodes, NEW emit, CompilesAll(emit, nodes),
         NEW jump \in OpNames, NEW settled \in OpNames,
         NEW node, node.arg0 \in nodes, node.arg1 \in nodes
  PROVE  Keeps(c, EmitLogical(emit, c, node, jump, settled))
<1>. DEFINE ops == <<settled, "JUMP">>
            d == EmitInt16(EmitOp(emit[node.arg0][c], jump), 6)
            tested == EmitOps(d, ops)
            second == emit[node.arg1][EmitInt16(tested, 0)]
<1>1. Keeps(c, emit[node.arg0][c])
  BY KeepsItself, ThenNode
<1>2. Keeps(c, EmitOp(emit[node.arg0][c], jump))
  BY <1>1, ThenOp
<1>3. Keeps(c, d)
  BY <1>2, ThenInt16
<1>4. ops \in Seq(OpNames)
  BY OpsHaveNames
<1>. HIDE DEF d, ops
<1>5. Keeps(c, tested)
  BY <1>3, <1>4, ThenOps
<1>. HIDE DEF tested
<1>6. Keeps(c, EmitInt16(tested, 0))
  BY <1>5, ThenInt16
<1>7. Keeps(c, second)
  BY <1>6, ThenNode
<1>. HIDE DEF second
<1>8. Here(tested).index \in Nat /\ Here(tested).index >= Count(c)
  BY <1>5, HereIsBehind DEF Keeps
<1>9. Keeps(c, Backpatch(second, Here(tested)))
  BY <1>7, <1>8, BackpatchKeeps
<1>. QED
  BY <1>9 DEF EmitLogical, second, tested, d, ops

LEMMA BlockKeeps ==
  ASSUME NEW c \in Compilations, NEW nodes, NEW emit, CompilesAll(emit, nodes),
         NEW node, node.items \in Seq(nodes)
  PROVE  Keeps(c, EmitBlock(emit, c, node))
<1>. DEFINE items == node.items
            Item(i) == [d \in Compilations |->
              IF i < Len(items) THEN EmitOp(emit[items[i]][d], "DROP") ELSE emit[items[i]][d]]
            emitters == [i \in DOMAIN items |-> Item(i)]
            opened == OpenScope(c, "GENERIC")
            body == InTurn(emitters, opened)
<1>1. Len(items) \in Nat /\ DOMAIN items = 1 .. Len(items)
  BY LenProperties
<1>2. ASSUME NEW i \in 1 .. Len(items) PROVE Item(i) \in Emitting
  <2>1. items[i] \in nodes
    BY ElementOfSeq
  <2>2. ASSUME NEW d \in Compilations PROVE Keeps(d, Item(i)[d]) /\ Item(i)[d] \in Compilations
    <3>1. Keeps(d, emit[items[i]][d])
      BY <2>1, KeepsItself, ThenNode
    <3>2. Keeps(d, EmitOp(emit[items[i]][d], "DROP"))
      BY <3>1, ThenOp, OpsHaveNames
    <3>. QED
      BY <3>1, <3>2 DEF Keeps, KeepsCode
  <2>3. Item(i) = [d \in Compilations |-> Item(i)[d]]
    OBVIOUS
  <2>. HIDE DEF Item
  <2>. QED
    BY <2>2, <2>3 DEF Emitting
<1>. HIDE DEF Item
<1>3. emitters \in [1 .. Len(items) -> Emitting]
  BY <1>1, <1>2
<1>. HIDE DEF emitters
<1>4. emitters \in Seq(Emitting)
  BY <1>1, <1>3, IsSequence
<1>5. Within(c, opened)
  BY OpenScopeStarts
<1>. HIDE DEF opened
<1>6. opened \in Compilations
  BY <1>5 DEF Within, KeepsCode
<1>7. Keeps(opened, body)
  BY <1>4, <1>6, InTurnKeeps
<1>. HIDE DEF body
<1>8. Within(c, body)
  BY <1>5, <1>7, WithinOn
<1>9. Keeps(c, CloseScope(body))
  BY <1>8, CloseScopeKeeps
<1>. QED
  BY <1>9 DEF EmitBlock, body, opened, emitters, Item

LEMMA LoopKeeps ==
  ASSUME NEW c \in Compilations, NEW nodes, NEW emit, CompilesAll(emit, nodes),
         NEW node, node.arg0 \in nodes
  PROVE  Keeps(c, EmitLoop(emit, c, node))
<1>. DEFINE ops == <<"DROP", "JUMP">>
            scoped == EmitScoped(emit, c, "BREAKABLE", node.arg0)
            body == EmitOps(scoped, ops)
            i == Count(c) - Count(body)
<1>1. Keeps(c, scoped)
  BY KeepsItself, ThenScoped
<1>2. ops \in Seq(OpNames)
  BY OpsHaveNames
<1>. HIDE DEF scoped, ops
<1>3. Keeps(c, body)
  BY <1>1, <1>2, ThenOps
<1>. HIDE DEF body
<1>4. body \in Compilations
  BY <1>3 DEF Keeps, KeepsCode
<1>5. Keeps(c, PatchBreaks(body))
  BY <1>3, <1>4, PatchBreaksKeeps, KeepsOn
<1>6. i \in Int
  BY <1>4, CompilationFields
<1>. HIDE DEF i
<1>7. Keeps(c, EmitInt16(PatchBreaks(body), i))
  BY <1>5, <1>6, ThenInt16
<1>. QED
  BY <1>7 DEF EmitLoop, i, body, scoped, ops

LEMMA ElseKeeps ==
  ASSUME NEW c \in Compilations, NEW d, Keeps(c, d), NEW nodes, NEW emit, CompilesAll(emit, nodes),
         NEW node, node = NULL \/ node \in nodes
  PROVE  Keeps(c, EmitElse(emit, d, node))
<1>1. CASE node = NULL
  BY <1>1, ThenOp, OpsHaveNames DEF EmitElse
<1>2. CASE node # NULL
  BY <1>2, ThenScoped DEF EmitElse
<1>. QED
  BY <1>1, <1>2

LEMMA IfKeeps ==
  ASSUME NEW c \in Compilations, NEW nodes, NEW emit, CompilesAll(emit, nodes),
         NEW node, node.arg0 \in nodes, node.arg1 \in nodes, node.arg2 = NULL \/ node.arg2 \in nodes
  PROVE  Keeps(c, EmitIf(emit, c, node))
<1>. DEFINE tested == EmitOp(emit[node.arg0][c], "JUMP_FALSE")
            scoped == EmitScoped(emit, EmitInt16(tested, 0), "GENERIC", node.arg1)
            branch == EmitOp(scoped, "JUMP")
            patched == Backpatch(EmitInt16(branch, 0), Here(tested))
            other == EmitElse(emit, patched, node.arg2)
<1>1. Keeps(c, emit[node.arg0][c])
  BY KeepsItself, ThenNode
<1>2. Keeps(c, tested)
  BY <1>1, ThenOp, OpsHaveNames
<1>. HIDE DEF tested
<1>3. Keeps(c, EmitInt16(tested, 0))
  BY <1>2, ThenInt16
<1>4. Keeps(c, scoped)
  BY <1>3, ThenScoped
<1>. HIDE DEF scoped
<1>5. Keeps(c, branch)
  BY <1>4, ThenOp, OpsHaveNames
<1>. HIDE DEF branch
<1>6. Keeps(c, EmitInt16(branch, 0))
  BY <1>5, ThenInt16
<1>7. Here(tested).index \in Nat /\ Here(tested).index >= Count(c)
  BY <1>2, HereIsBehind DEF Keeps
<1>8. Keeps(c, patched)
  BY <1>6, <1>7, BackpatchKeeps
<1>. HIDE DEF patched
<1>9. Keeps(c, other)
  BY <1>8, ElseKeeps
<1>. HIDE DEF other
<1>10. Here(branch).index \in Nat /\ Here(branch).index >= Count(c)
  BY <1>5, HereIsBehind DEF Keeps
<1>11. Keeps(c, Backpatch(other, Here(branch)))
  BY <1>9, <1>10, BackpatchKeeps
<1>. QED
  BY <1>11 DEF EmitIf, other, patched, branch, scoped, tested

LEMMA WhileKeeps ==
  ASSUME NEW c \in Compilations, NEW nodes, NEW emit, CompilesAll(emit, nodes), NEW exit \in OpNames,
         NEW node, node.arg0 \in nodes, node.arg1 \in nodes, node.arg2 = NULL \/ node.arg2 \in nodes
  PROVE  Keeps(c, EmitWhile(emit, c, node, exit))
<1>. DEFINE opened == OpenScope(c, "BREAKABLE")
            tested == EmitOp(emit[node.arg0][opened], exit)
            body == emit[node.arg1][EmitInt16(tested, 0)]
            ops == <<"DROP", "JUMP">>
            round == EmitOps(CloseScope(body), ops)
            i == Count(c) - Count(round)
            left == Backpatch(EmitInt16(round, i), Here(tested))
            other == EmitElse(emit, left, node.arg2)
<1>1. Within(c, opened) /\ opened \in Compilations
  BY OpenScopeStarts DEF Within, KeepsCode
<1>. HIDE DEF opened
<1>2. Keeps(opened, emit[node.arg0][opened])
  BY <1>1, KeepsItself, ThenNode
<1>3. Keeps(opened, tested)
  BY <1>1, <1>2, ThenOp
<1>. HIDE DEF tested
<1>4. Keeps(opened, EmitInt16(tested, 0))
  BY <1>1, <1>3, ThenInt16
<1>5. Keeps(opened, body)
  BY <1>1, <1>4, ThenNode
<1>. HIDE DEF body
<1>6. Within(c, tested) /\ Within(c, body)
  BY <1>1, <1>3, <1>5, WithinOn
<1>7. Keeps(c, CloseScope(body))
  BY <1>6, CloseScopeKeeps
<1>8. ops \in Seq(OpNames)
  BY OpsHaveNames
<1>. HIDE DEF ops
<1>9. Keeps(c, round)
  BY <1>7, <1>8, ThenOps
<1>. HIDE DEF round
<1>10. i \in Int
  BY <1>9, CompilationFields DEF Keeps, KeepsCode
<1>. HIDE DEF i
<1>11. Keeps(c, EmitInt16(round, i))
  BY <1>9, <1>10, ThenInt16
<1>12. Here(tested).index \in Nat /\ Here(tested).index >= Count(c)
  BY <1>6, HereIsBehind DEF Within
<1>13. Keeps(c, left)
  BY <1>11, <1>12, BackpatchKeeps
<1>. HIDE DEF left
<1>14. Keeps(c, other)
  BY <1>13, ElseKeeps
<1>. HIDE DEF other
<1>15. Keeps(c, PatchBreaks(other))
  BY <1>14, PatchBreaksKeeps, KeepsOn DEF Keeps, KeepsCode
<1>. QED
  BY <1>15 DEF EmitWhile, other, left, i, round, ops, body, tested, opened

LEMMA LastOfIsOne ==
  ASSUME NEW n \in Nat, NEW positions, positions \subseteq 1 .. n, positions # {}
  PROVE  LastOf(positions) \in positions
<1>1. positions \subseteq Nat /\ \A i \in positions : i <= n
  OBVIOUS
<1>2. \E i \in positions : \A j \in positions : j <= i
  BY <1>1, GreatestNatural
<1>. QED
  BY <1>2 DEF LastOf

LEMMA LoopsLeftAreScopes ==
  ASSUME NEW c \in Compilations, NEW loopCount
  PROVE  LoopsLeft(c.symbols, loopCount) \subseteq 1 .. Len(c.symbols.scopes)
         /\ Len(c.symbols.scopes) \in Nat
<1>1. DOMAIN c.symbols.scopes = 1 .. Len(c.symbols.scopes) /\ Len(c.symbols.scopes) \in Nat
  BY CompilationFields DEF SymbolLists
<1>. QED
  BY <1>1 DEF LoopsLeft

LEMMA ScopeClosesKeep ==
  ASSUME NEW c \in Compilations, NEW d, Keeps(c, d), NEW loopCount
  PROVE  Keeps(c, EmitScopeCloses(d, loopCount))
<1>. DEFINE loops == LoopsLeft(d.symbols, loopCount)
            depth == Len(d.symbols.scopes)
            n == ScopesClosed(d.symbols, loopCount)
            ops == [i \in 1 .. n |-> "SCOPE_CLOSE"]
<1>1. d \in Compilations
  BY DEF Keeps, KeepsCode
<1>2. loops \subseteq 1 .. depth /\ depth \in Nat
  BY <1>1, LoopsLeftAreScopes
<1>3. n \in Nat
  <2>. HIDE DEF loops, depth
  <2>1. n = depth - (IF loops = {} THEN 0 ELSE LastOf(loops) - 1)
    BY DEF ScopesClosed, loops, depth
  <2>2. CASE loops = {}
    BY <1>2, <2>1, <2>2
  <2>3. CASE loops # {}
    <3>. DEFINE last == LastOf(loops)
    <3>1. last \in 1 .. depth
      BY <1>2, <2>3, LastOfIsOne
    <3>2. n = depth - (last - 1)
      BY <2>1, <2>3
    <3>. HIDE DEF last, n
    <3>. QED
      BY <1>2, <3>1, <3>2
  <2>. QED
    BY <2>2, <2>3
<1>. HIDE DEF n
<1>4. "SCOPE_CLOSE" \in OpNames
  BY OpsHaveNames
<1>5. ops \in [1 .. n -> OpNames]
  BY <1>4
<1>. HIDE DEF ops
<1>6. ops \in Seq(OpNames)
  BY <1>3, <1>5, IsSequence
<1>7. Keeps(c, EmitOps(d, ops))
  BY <1>6, ThenOps
<1>. QED
  BY <1>7 DEF EmitScopeCloses, ops, n

LEMMA LoopCountRequired ==
  ASSUME NEW c \in Compilations, NEW d, Keeps(c, d), NEW node
  PROVE  Keeps(c, RequireLoopCount(d, node))
<1>. DEFINE condition == LoopCount(node) > 0 /\ LoopCount(node) < 256
<1>1. "0 < depth < 256" \in Assertions
  BY DEF Assertions
<1>2. RequireLoopCount(d, node) = Require(d, condition, "0 < depth < 256")
  BY DEF RequireLoopCount
<1>. HIDE DEF condition
<1>. QED
  BY <1>1, <1>2, ThenRequire

LEMMA ContinueKeeps ==
  ASSUME NEW c \in Compilations, NEW node
  PROVE  Keeps(c, EmitContinue(c, node))
<1>. DEFINE loopCount == LoopCount(node.arg0)
            loops == LoopsLeft(c.symbols, loopCount)
            checked == RequireLoopCount(EmitNilToDrop(c), node.arg0)
            ops == <<"DROP", "JUMP">>
            closed == EmitOps(EmitScopeCloses(checked, loopCount), ops)
            start == LoopLeft(c.symbols, loopCount).start
            i == start - Count(closed)
<1>1. CASE loops = {}
  <2>1. "i >= 0" \in Assertions
    BY DEF Assertions
  <2>2. EmitContinue(c, node) = Abort(c, "i >= 0")
    BY <1>1 DEF EmitContinue
  <2>. QED
    BY <2>1, <2>2, RequireKeeps
<1>2. CASE loops # {}
  <2>1. EmitContinue(c, node) = EmitInt16(closed, i)
    BY <1>2 DEF EmitContinue
  <2>2. Keeps(c, EmitNilToDrop(c))
    BY EmitOpKeeps, OpsHaveNames DEF EmitNilToDrop
  <2>3. Keeps(c, checked)
    BY <2>2, LoopCountRequired
  <2>. HIDE DEF checked
  <2>4. Keeps(c, EmitScopeCloses(checked, loopCount))
    BY <2>3, ScopeClosesKeep
  <2>5. ops \in Seq(OpNames)
    BY OpsHaveNames
  <2>. HIDE DEF ops
  <2>6. Keeps(c, closed)
    BY <2>4, <2>5, ThenOps
  <2>. HIDE DEF closed
  <2>7. start \in Nat
    <3>. DEFINE Scopes == [start : Nat, checkpoint : Nat, type : {"GENERIC", "BREAKABLE"}]
                last == LastOf(loops)
    <3>. HIDE DEF loopCount
    <3>1. loops \subseteq 1 .. Len(c.symbols.scopes) /\ Len(c.symbols.scopes) \in Nat
      BY LoopsLeftAreScopes
    <3>2. c.symbols.scopes \in Seq(Scopes)
      BY CompilationFields DEF SymbolLists
    <3>3. last \in 1 .. Len(c.symbols.scopes)
      <4>. HIDE DEF loops
      <4>. QED
        BY <1>2, <3>1, LastOfIsOne
    <3>. HIDE DEF last
    <3>4. c.symbols.scopes[last] \in Scopes
      <4>. HIDE DEF Scopes
      <4>. QED
        BY <3>2, <3>3, ElementOfSeq
    <3>. QED
      BY <3>4 DEF LoopLeft, last
  <2>8. i \in Int
    <3>1. Count(closed) \in Nat
      BY <2>6, CompilationFields DEF Keeps, KeepsCode
    <3>. HIDE DEF start
    <3>. QED
      BY <2>7, <3>1
  <2>. HIDE DEF i
  <2>. QED
    BY <2>1, <2>6, <2>8, ThenInt16
<1>. QED
  BY <1>1, <1>2

LEMMA BreakKeeps ==
  ASSUME NEW c \in Compilations, NEW nodes, NEW emit, CompilesAll(emit, nodes),
         NEW node, LoopCount(node.arg0) \in Int, node.arg1 = NULL \/ node.arg1 \in nodes
  PROVE  Keeps(c, EmitBreakStatement(emit, c, node))
<1>. DEFINE loopCount == LoopCount(node.arg0)
            valued == IF node.arg1 = NULL THEN EmitOp(c, "NIL") ELSE emit[node.arg1][c]
            checked == RequireLoopCount(valued, node.arg0)
            scopes == EmitScopeCloses(checked, loopCount)
            closed == EmitOp(scopes, "JUMP")
            remembered == EmitBreak(closed, loopCount)
<1>1. Keeps(c, valued)
  <2>1. Keeps(c, EmitOp(c, "NIL"))
    BY EmitOpKeeps, OpsHaveNames
  <2>2. node.arg1 # NULL => Keeps(c, emit[node.arg1][c])
    BY KeepsItself, ThenNode
  <2>. QED
    BY <2>1, <2>2
<1>. HIDE DEF valued
<1>2. Keeps(c, checked)
  BY <1>1, LoopCountRequired
<1>. HIDE DEF checked
<1>3. Keeps(c, scopes)
  BY <1>2, ScopeClosesKeep
<1>. HIDE DEF scopes
<1>4. Keeps(c, closed)
  BY <1>3, ThenOp, OpsHaveNames
<1>. HIDE DEF closed
<1>5. Keeps(closed, remembered)
  BY <1>4, EmitBreakKeeps DEF Keeps, KeepsCode
<1>. HIDE DEF remembered
<1>6. Keeps(c, remembered)
  BY <1>4, <1>5, KeepsOn
<1>7. Keeps(c, EmitInt16(remembered, 0))
  BY <1>6, ThenInt16
<1>. QED
  BY <1>7 DEF EmitBreakStatement, remembered, closed, scopes, checked, valued

LEMMA CallKeeps ==
  ASSUME NEW c \in Compilations, NEW nodes, NEW emit, CompilesAll(emit, nodes),
         NEW node, node.arg0 \in nodes, node.arg1.items \in Seq(nodes)
  PROVE  Keeps(c, EmitCall(emit, c, node))
<1>. DEFINE arguments == node.arg1.items
            called == EmitAll(emit, emit[node.arg0][c], arguments)
            condition == Len(arguments) < 255
            checked == Require(called, condition, "argumentNode->count < UINT8_MAX")
            bytes == <<Len(arguments)>>
<1>1. "argumentNode->count < UINT8_MAX" \in Assertions
  BY DEF Assertions
<1>2. Keeps(c, emit[node.arg0][c])
  BY KeepsItself, ThenNode
<1>3. Keeps(c, called)
  BY <1>2, ThenAll
<1>4. bytes \in Seq(Int) /\ bytes # <<>>
  <2>1. Len(arguments) \in Nat
    BY LenProperties
  <2>. HIDE DEF arguments
  <2>. QED
    BY <2>1
<1>. HIDE DEF called, condition, bytes
<1>5. Keeps(c, checked)
  BY <1>1, <1>3, ThenRequire
<1>. HIDE DEF checked
<1>6. Keeps(c, EmitOp(checked, "CALL"))
  BY <1>5, ThenOp, OpsHaveNames
<1>7. Keeps(c, EmitBytes(EmitOp(checked, "CALL"), bytes))
  BY <1>4, <1>6, ThenBytes
<1>. QED
  BY <1>7 DEF EmitCall, checked, called, condition, bytes

-------------------------------------------------------------------------------
(* Chains of comparisons.                                                  *)

Comparisons(n) == {node \in Trees[n] : isComparison(node)}

LEMMA ComparisonOperands ==
  ASSUME NEW n \in Nat, NEW node \in Comparisons(n)
  PROVE  /\ n # 0 /\ n - 1 \in Nat /\ node.type \in ComparisonTypes
         /\ node.arg0 \in Trees[n - 1] /\ node.arg1 \in Trees[n - 1]
         /\ node.arg0 \in Trees[n]
<1>1. node \in Trees[n] /\ node.type \in ComparisonTypes
  BY DEF Comparisons, isComparison
<1>2. node.type \in BinaryTypes /\ node.type \notin LeafTypes
  BY <1>1 DEF BinaryTypes, LeafTypes, AtomTypes, ComparisonTypes
<1>3. n # 0 /\ n - 1 \in Nat /\ OperandsIn(node, Trees[n - 1])
  BY <1>1, <1>2, Unnest
<1>4. node.arg0 \in Trees[n - 1] /\ node.arg1 \in Trees[n - 1]
  BY <1>2, <1>3 DEF OperandsIn
<1>5. Trees[n - 1] \subseteq Trees[n]
  <2>1. (n - 1) + 1 = n
    BY <1>3
  <2>. QED
    BY <1>3, <2>1, TreesGrow
<1>. QED
  BY <1>1, <1>3, <1>4, <1>5

LEMMA ChainIsOfComparisons ==
  ASSUME NEW n \in Nat, NEW node \in Comparisons(n)
  PROVE  Chain(node) \in Seq(Comparisons(n)) \ {<<>>}
<1>. DEFINE R == Seq(Comparisons(n)) \ {<<>>}
            D == 0 .. MaxNesting
            Longer(s) == IF isComparison(s[1].arg0) THEN <<s[1].arg0>> \o s ELSE s
            size == [i \in D |-> i]
            base == [i \in D |-> <<node>>]
            step == [i \in D |-> [s \in R |-> Longer(s)]]
            next == [i \in D |-> IF i = 0 THEN 0 ELSE i - 1]
            Solves(f) == f = [i \in D |-> IF i = 0 THEN <<node>> ELSE Longer(f[i - 1])]
<1>1. MaxNesting \in Nat /\ 0 \in D /\ MaxNesting \in D
  BY NestingAssumption
<1>2. <<node>> \in R
  OBVIOUS
<1>3. ASSUME NEW s \in R PROVE Longer(s) \in R
  <2>1. s \in Seq(Comparisons(n)) /\ 1 \in 1 .. Len(s)
    BY EmptySeq
  <2>2. s[1] \in Comparisons(n)
    BY <2>1, ElementOfSeq
  <2>. DEFINE operand == s[1].arg0
  <2>3. operand \in Trees[n]
    BY <2>2, ComparisonOperands
  <2>. HIDE DEF operand
  <2>4. isComparison(operand) => operand \in Comparisons(n)
    BY <2>3 DEF Comparisons
  <2>5. isComparison(operand) => <<operand>> \o s \in R
    <3>. SUFFICES ASSUME isComparison(operand) PROVE <<operand>> \o s \in R
      OBVIOUS
    <3>1. <<operand>> \in Seq(Comparisons(n)) /\ Len(<<operand>>) = 1
      BY <2>4
    <3>. DEFINE single == <<operand>>
    <3>. HIDE DEF single
    <3>2. single \o s \in Seq(Comparisons(n)) /\ Len(single \o s) = Len(single) + Len(s)
      BY <2>1, <3>1, ConcatProperties DEF single
    <3>3. single \o s # <<>>
      BY <2>1, <3>1, <3>2, EmptySeq DEF single
    <3>. QED
      BY <3>2, <3>3 DEF single
  <2>. QED
    BY <2>5 DEF operand
<1>. HIDE DEF Longer
<1>4. /\ size \in [D -> Nat] /\ base \in [D -> R] /\ next \in [D -> D] /\ {0} \in SUBSET D
      /\ step \in [D -> [R -> R]]
  BY <1>1, <1>2, <1>3
<1>5. \A i \in D : i \notin {0} => size[next[i]] < size[i]
  BY <1>1
<1>6. Descends(D, R, size, {0}, base, step, next)
  <2>. HIDE DEF D, R, size, base, step, next
  <2>. QED
    BY <1>4, <1>5 DEF Descends
<1>7. PICK f \in [D -> R] :
        \A i \in D : f[i] = IF i \in {0} THEN base[i] ELSE step[i][f[next[i]]]
  <2>. HIDE DEF D, R, size, base, step, next
  <2>. QED
    BY <1>6, RecursionExists
<1>8. ASSUME NEW i \in D PROVE f[i] = IF i = 0 THEN <<node>> ELSE Longer(f[i - 1])
  <2>1. CASE i = 0
    BY <1>7, <2>1
  <2>2. CASE i # 0
    <3>1. i - 1 \in D /\ next[i] = i - 1
      BY <1>1, <2>2
    <3>2. f[i - 1] \in R
      BY <3>1
    <3>3. step[i][f[i - 1]] = Longer(f[i - 1])
      <4>. HIDE DEF R
      <4>. QED
        BY <3>2
    <3>. QED
      BY <1>7, <2>2, <3>1, <3>3
  <2>. QED
    BY <2>1, <2>2
<1>9. Solves(f)
  <2>1. f = [i \in D |-> f[i]]
    BY <1>7
  <2>. QED
    BY <1>8, <2>1
<1>. DEFINE found == CHOOSE g : Solves(g)
<1>10. Chain(node) = found[MaxNesting]
  BY DEF Chain, Longer
<1>11. Solves(found)
  <2>. HIDE DEF Solves
  <2>. QED
    BY <1>9
<1>. HIDE DEF found
<1>12. \A i \in D : found[i] = IF i = 0 THEN <<node>> ELSE Longer(found[i - 1])
  BY <1>11
<1>. DEFINE T == {i \in Nat : i \in D => found[i] \in R}
<1>13. 0 \in T
  BY <1>1, <1>2, <1>12
<1>14. ASSUME NEW i \in Nat, i \in T PROVE i + 1 \in T
  <2>. SUFFICES ASSUME i + 1 \in D PROVE found[i + 1] \in R
    OBVIOUS
  <2>1. i \in D /\ i + 1 # 0 /\ (i + 1) - 1 = i
    BY <1>1
  <2>2. found[i] \in R
    BY <1>14, <2>1
  <2>3. found[i + 1] = Longer(found[i])
    BY <1>12, <2>1
  <2>. QED
    BY <1>3, <2>2, <2>3
<1>15. Nat \subseteq T
  <2>. HIDE DEF T
  <2>. QED
    BY <1>13, <1>14, Induction
<1>. QED
  BY <1>1, <1>10, <1>15

LEMMA ComparisonKeeps ==
  ASSUME NEW c \in Compilations, NEW n \in Nat, NEW emit, n # 0, CompilesAll(emit, Trees[n - 1]),
         NEW node \in Comparisons(n)
  PROVE  Keeps(c, EmitComparison(emit, c, node))
<1>. DEFINE nodes == Trees[n - 1]
            chain == Chain(node)
            last == Len(chain)
            pair == <<chain[1].arg0, chain[1].arg1>>
            operands == EmitAll(emit, c, pair)
            Link(i) == [d \in Compilations |-> EmitLink(emit, d, chain[i], chain[i + 1])]
            emitters == [i \in 1 .. last - 1 |-> Link(i)]
            links == Stages(emitters, operands)
            shortCircuits == {Count(links[i]) + 4 : i \in 0 .. last - 2}
            ops == <<chain[last].type, "JUMP">>
            joined == EmitInt16(EmitOps(links[last - 1], ops), 4)
            rest == <<"DROP", "FALSE">>
            failed == EmitOps(joined, rest)
            patched == [failed EXCEPT !.code = PatchLowBytes(@, shortCircuits, Count(joined))]
<1>1. chain \in Seq(Comparisons(n)) /\ chain # <<>> /\ last \in Nat \ {0}
  BY ChainIsOfComparisons, EmptySeq
<1>2. ASSUME NEW i \in 1 .. last
      PROVE  chain[i].type \in OpNames /\ chain[i].arg0 \in nodes /\ chain[i].arg1 \in nodes
  <2>1. chain[i] \in Comparisons(n)
    <3>. HIDE DEF chain
    <3>. QED
      BY <1>1, ElementOfSeq
  <2>2. chain[i].type \in ComparisonTypes
    BY <2>1, ComparisonOperands
  <2>3. chain[i].type \in OpNames
    <3>. HIDE DEF chain
    <3>. QED
      BY <2>2, OpsHaveNames
  <2>. QED
    BY <2>1, <2>3, ComparisonOperands
<1>3. node.type \in OpNames /\ node.arg0 \in nodes /\ node.arg1 \in nodes
  <2>1. node.type \in ComparisonTypes
    BY ComparisonOperands
  <2>. QED
    BY <2>1, ComparisonOperands, OpsHaveNames
<1>4. CASE last = 1
  <2>1. EmitComparison(emit, c, node) = EmitBinaryNode(emit, c, node.type, node)
    BY <1>4 DEF EmitComparison
  <2>. QED
    BY <1>3, <2>1, BinaryNodeKeeps
<1>5. CASE last # 1 /\ last - 1 > MaxShortCircuits
  <2>1. "shortCircuitStarts overrun" \in Assertions
    BY DEF Assertions
  <2>2. EmitComparison(emit, c, node) = Abort(c, "shortCircuitStarts overrun")
    BY <1>5 DEF EmitComparison
  <2>. QED
    BY <2>1, <2>2, RequireKeeps
<1>6. CASE last # 1 /\ ~ (last - 1 > MaxShortCircuits)
  <2>1. EmitComparison(emit, c, node) = patched
    BY <1>6 DEF EmitComparison
  <2>. HIDE DEF chain, last
  <2>2. last - 1 \in Nat /\ 1 \in 1 .. last /\ last \in 1 .. last /\ last - 1 \in 0 .. last - 1
    BY <1>1
  <2>3. pair \in Seq(nodes)
    <3>1. chain[1].arg0 \in nodes /\ chain[1].arg1 \in nodes
      BY <1>2, <2>2
    <3>. HIDE DEF nodes
    <3>. QED
      BY <3>1
  <2>. HIDE DEF pair, nodes
  <2>4. Keeps(c, operands)
    BY <2>3, EmitAllKeeps DEF nodes
  <2>5. operands \in Compilations
    BY <2>4 DEF Keeps, KeepsCode
  <2>. HIDE DEF operands
  <2>6. ASSUME NEW i \in 1 .. last - 1 PROVE Link(i) \in Emitting
    <3>1. i \in 1 .. last /\ i + 1 \in 1 .. last
      BY <2>2
    <3>2. chain[i].type \in OpNames /\ chain[i + 1].arg1 \in nodes
      BY <1>2, <3>1
    <3>3. ASSUME NEW d \in Compilations
          PROVE  Keeps(d, Link(i)[d]) /\ Link(i)[d] \in Compilations
      <4>. DEFINE list == <<"DUP", "ROT3", chain[i].type, "JUMP_FALSE">>
      <4>1. list \in Seq(OpNames)
        BY <3>2, OpsHaveNames
      <4>. HIDE DEF list
      <4>2. Keeps(d, EmitInt16(EmitOps(d, list), 0))
        BY <4>1, KeepsItself, ThenOps, ThenInt16
      <4>3. Keeps(d, emit[chain[i + 1].arg1][EmitInt16(EmitOps(d, list), 0)])
        BY <3>2, <4>2, ThenNode DEF nodes
      <4>4. Link(i)[d] = emit[chain[i + 1].arg1][EmitInt16(EmitOps(d, list), 0)]
        BY DEF EmitLink, list
      <4>. QED
        BY <4>3, <4>4 DEF Keeps, KeepsCode
    <3>4. Link(i) = [d \in Compilations |-> Link(i)[d]]
      OBVIOUS
    <3>. HIDE DEF Link
    <3>. QED
      BY <3>3, <3>4 DEF Emitting
  <2>. HIDE DEF Link
  <2>7. emitters \in [1 .. last - 1 -> Emitting]
    BY <2>6
  <2>. HIDE DEF emitters
  <2>8. emitters \in Seq(Emitting) /\ Len(emitters) = last - 1
    BY <2>2, <2>7, IsSequence
  <2>9. \A i \in 0 .. last - 1 : Keeps(operands, links[i])
    BY <2>5, <2>8, InTurnKeeps
  <2>. HIDE DEF links
  <2>10. \A i \in 0 .. last - 1 : Keeps(c, links[i])
    BY <2>4, <2>9, KeepsOn
  <2>11. \A index \in shortCircuits : index \in Nat /\ Count(c) <= index
    <3>1. ASSUME NEW i \in 0 .. last - 2
          PROVE  Count(links[i]) + 4 \in Nat /\ Count(c) <= Count(links[i]) + 4
      <4>1. i \in 0 .. last - 1
        BY <2>2
      <4>2. Keeps(c, links[i])
        BY <2>10, <4>1
      <4>3. Count(links[i]) \in Nat /\ Count(c) \in Nat /\ Count(c) <= Count(links[i])
        BY <4>2, CompilationFields DEF Keeps, KeepsCode, KeepsBytes
      <4>. QED
        BY <4>3
    <3>. QED
      BY <3>1
  <2>. HIDE DEF shortCircuits
  <2>12. ops \in Seq(OpNames) /\ rest \in Seq(OpNames)
    <3>1. chain[last].type \in OpNames
      BY <1>2, <2>2
    <3>. QED
      BY <3>1, OpsHaveNames
  <2>. HIDE DEF ops, rest
  <2>13. Keeps(c, EmitOps(links[last - 1], ops))
    <3>1. Keeps(c, links[last - 1])
      BY <2>2, <2>10
    <3>. QED
      BY <2>12, <3>1, ThenOps
  <2>14. Keeps(c, joined)
    BY <2>13, ThenInt16
  <2>15. Count(joined) \in Int
    BY <2>14, CompilationFields DEF Keeps, KeepsCode
  <2>. HIDE DEF joined
  <2>16. Keeps(c, failed)
    BY <2>12, <2>14, ThenOps
  <2>. HIDE DEF failed
  <2>17. Keeps(c, patched)
    BY <2>11, <2>15, <2>16, PatchLowBytesKeeps
  <2>. QED
    BY <2>1, <2>17
<1>. QED
  BY <1>4, <1>5, <1>6

-------------------------------------------------------------------------------
(* Every tree.                                                             *)

LEMMA TreeKeeps ==
  ASSUME NEW c \in Compilations, NEW n \in Nat, n # 0, NEW emit, CompilesAll(emit, Trees[n - 1]),
         NEW node \in Trees[n], node.type \in InnerTypes, OperandsIn(node, Trees[n - 1])
  PROVE  Keeps(c, EmitTree(emit, c, node))
<1>. DEFINE nodes == Trees[n - 1]
            e == EmitTree(emit, c, node)
<1>1. n - 1 \in Nat /\ CompilesAll(emit, nodes) /\ OperandsIn(node, nodes)
  OBVIOUS
<1>2. CASE node.type \in UnaryTypes
  <2>1. node.arg0 \in nodes
    BY <1>1, <1>2 DEF OperandsIn
  <2>2. Keeps(c, emit[node.arg0][c])
    <3>. HIDE DEF nodes
    <3>. QED
      BY <1>1, <2>1, KeepsItself, ThenNode
  <2>. HIDE DEF nodes
  <2>3. CASE node.type = "PARENS"
    BY <2>2, <2>3 DEF EmitTree, isComparison, ComparisonTypes
  <2>4. CASE node.type = "MUT"
    <3>1. e = EmitMut(emit, c, node)
      BY <2>4 DEF EmitTree, isComparison, ComparisonTypes
    <3>. HIDE DEF e
    <3>. QED
      BY <1>1, <2>1, <3>1, MutKeeps DEF nodes, e
  <2>5. CASE node.type = "NEGATE"
    <3>1. e = EmitOp(emit[node.arg0][c], "NEGATE")
      BY <2>5 DEF EmitTree, EmitUnaryNode, isComparison, ComparisonTypes
    <3>. QED
      BY <2>2, <3>1, ThenOp, OpsHaveNames
  <2>6. CASE node.type = "LOGICAL_NOT"
    <3>1. e = EmitOp(emit[node.arg0][c], "NOT")
      BY <2>6 DEF EmitTree, EmitUnaryNode, isComparison, ComparisonTypes
    <3>. QED
      BY <2>2, <3>1, ThenOp, OpsHaveNames
  <2>7. CASE node.type = "LOOP"
    <3>1. e = EmitLoop(emit, c, node)
      BY <2>7 DEF EmitTree, isComparison, ComparisonTypes
    <3>. QED
      BY <1>1, <2>1, <3>1, LoopKeeps
  <2>. QED
    BY <1>2, <2>3, <2>4, <2>5, <2>6, <2>7 DEF UnaryTypes
<1>3. CASE node.type \in BinaryTypes
  <2>1. node.arg0 \in nodes /\ node.arg1 \in nodes
    BY <1>1, <1>3 DEF OperandsIn
  <2>. HIDE DEF nodes
  <2>2. CASE node.type = "ASSIGN"
    <3>1. e = EmitAssign(emit, c, node)
      BY <2>2 DEF EmitTree, isComparison, ComparisonTypes
    <3>. HIDE DEF e
    <3>. QED
      BY <1>1, <2>1, <3>1, AssignKeeps DEF nodes, e
  <2>3. CASE node.type \in {"ADD", "SUBTRACT", "MULTIPLY"}
    <3>1. e = EmitBinaryNode(emit, c, node.type, node)
      BY <2>3 DEF EmitTree, isComparison, ComparisonTypes
    <3>2. node.type \in OpNames
      BY <2>3, OpsHaveNames
    <3>. QED
      BY <1>1, <2>1, <3>1, <3>2, BinaryNodeKeeps
  <2>4. CASE node.type = "INTEGER_DIVIDE"
    <3>1. e = EmitBinaryNode(emit, c, "IDIVIDE", node)
      BY <2>4 DEF EmitTree, isComparison, ComparisonTypes
    <3>2. "IDIVIDE" \in OpNames
      BY OpsHaveNames
    <3>. QED
      BY <1>1, <2>1, <3>1, <3>2, BinaryNodeKeeps
  <2>5. CASE node.type \in ComparisonTypes
    <3>1. node \in Comparisons(n)
      BY <2>5 DEF Comparisons, isComparison
    <3>2. e = EmitComparison(emit, c, node)
      BY <2>5 DEF EmitTree, isComparison, ComparisonTypes
    <3>. HIDE DEF e
    <3>. QED
      BY <3>1, <3>2, ComparisonKeeps DEF e
  <2>6. CASE node.type = "AND"
    <3>1. e = EmitLogical(emit, c, node, "JUMP_TRUE", "FALSE")
      BY <2>6 DEF EmitTree, isComparison, ComparisonTypes
    <3>2. "JUMP_TRUE" \in OpNames /\ "FALSE" \in OpNames
      BY OpsHaveNames
    <3>. QED
      BY <1>1, <2>1, <3>1, <3>2, LogicalKeeps
  <2>7. CASE node.type = "OR"
    <3>1. e = EmitLogical(emit, c, node, "JUMP_FALSE", "TRUE")
      BY <2>7 DEF EmitTree, isComparison, ComparisonTypes
    <3>2. "JUMP_FALSE" \in OpNames /\ "TRUE" \in OpNames
      BY OpsHaveNames
    <3>. QED
      BY <1>1, <2>1, <3>1, <3>2, LogicalKeeps
  <2>. QED
    BY <1>3, <2>2, <2>3, <2>4, <2>5, <2>6, <2>7 DEF BinaryTypes
<1>4. CASE node.type \in TernaryTypes
  <2>1. node.arg0 \in nodes /\ node.arg1 \in nodes /\ (node.arg2 = NULL \/ node.arg2 \in nodes)
    BY <1>1, <1>4 DEF OperandsIn
  <2>. HIDE DEF nodes
  <2>2. CASE node.type = "IF"
    <3>1. e = EmitIf(emit, c, node)
      BY <2>2 DEF EmitTree, isComparison, ComparisonTypes
    <3>. QED
      BY <1>1, <2>1, <3>1, IfKeeps
  <2>3. CASE node.type = "WHILE"
    <3>1. e = EmitWhile(emit, c, node, "JUMP_FALSE")
      BY <2>3 DEF EmitTree, isComparison, ComparisonTypes
    <3>2. "JUMP_FALSE" \in OpNames
      BY OpsHaveNames
    <3>. QED
      BY <1>1, <2>1, <3>1, <3>2, WhileKeeps
  <2>4. CASE node.type = "UNTIL"
    <3>1. e = EmitWhile(emit, c, node, "JUMP_TRUE")
      BY <2>4 DEF EmitTree, isComparison, ComparisonTypes
    <3>2. "JUMP_TRUE" \in OpNames
      BY OpsHaveNames
    <3>. QED
      BY <1>1, <2>1, <3>1, <3>2, WhileKeeps
  <2>. QED
    BY <1>4, <2>2, <2>3, <2>4 DEF TernaryTypes
<1>5. CASE node.type = "BLOCK"
  <2>1. e = EmitBlock(emit, c, node)
    BY <1>5 DEF EmitTree, isComparison, ComparisonTypes
  <2>2. node.items \in Seq(nodes)
    BY <1>1, <1>5 DEF OperandsIn
  <2>. HIDE DEF nodes, e
  <2>. QED
    BY <1>1, <2>1, <2>2, BlockKeeps DEF e
<1>6. CASE node.type = "CALL"
  <2>1. e = EmitCall(emit, c, node)
    BY <1>6 DEF EmitTree, isComparison, ComparisonTypes
  <2>2. node.arg0 \in nodes /\ node.arg1.items \in Seq(nodes)
    BY <1>1, <1>6 DEF OperandsIn
  <2>. HIDE DEF nodes, e
  <2>. QED
    BY <1>1, <2>1, <2>2, CallKeeps DEF e
<1>7. CASE node.type = "CONTINUE"
  <2>1. e = EmitContinue(c, node)
    BY <1>7 DEF EmitTree, isComparison, ComparisonTypes
  <2>. QED
    BY <2>1, ContinueKeeps
<1>8. CASE node.type = "BREAK"
  <2>1. e = EmitBreakStatement(emit, c, node)
    BY <1>8 DEF EmitTree, isComparison, ComparisonTypes
  <2>2. LoopCount(node.arg0) \in Int /\ (node.arg1 = NULL \/ node.arg1 \in nodes)
    BY <1>1, <1>8 DEF OperandsIn
  <2>. HIDE DEF nodes, e
  <2>. QED
    BY <1>1, <2>1, <2>2, BreakKeeps DEF e
<1>. QED
  BY <1>2, <1>3, <1>4, <1>5, <1>6, <1>7, <1>8 DEF InnerTypes

(* What compiles the trees of a nesting, given what compiles those of one  *)
(* less.                                                                   *)
EmittersFrom(emit, n) ==
  [node \in Trees[n] |-> [c \in Compilations |->
     IF c.fault # NoAbort THEN c
     ELSE IF node.type \in LeafTypes THEN EmitLeaf(c, node)
     ELSE EmitTree(emit, c, node)]]

LEMMA EmittersFromKeep ==
  ASSUME NEW n \in Nat, NEW emit, n # 0 => CompilesAll(emit, Trees[n - 1])
  PROVE  CompilesAll(EmittersFrom(emit, n), Trees[n])
<1>. SUFFICES ASSUME NEW node \in Trees[n] PROVE EmittersFrom(emit, n)[node] \in Emitting
  BY DEF CompilesAll
<1>. DEFINE e(c) == IF c.fault # NoAbort THEN c
                    ELSE IF node.type \in LeafTypes THEN EmitLeaf(c, node)
                    ELSE EmitTree(emit, c, node)
<1>1. EmittersFrom(emit, n)[node] = [c \in Compilations |-> e(c)]
  BY DEF EmittersFrom
<1>2. ASSUME NEW c \in Compilations PROVE Keeps(c, e(c)) /\ e(c) \in Compilations
  <2>1. Keeps(c, c)
    BY KeepsItself
  <2>2. node.type \in LeafTypes => Keeps(c, EmitLeaf(c, node))
    <3>1. node.type \in LeafTypes => LeafFields(node)
      BY TypesAreDisjoint, Unnest
    <3>. QED
      BY <3>1, LeafKeeps
  <2>3. node.type \notin LeafTypes => Keeps(c, EmitTree(emit, c, node))
    <3>. SUFFICES ASSUME node.type \notin LeafTypes PROVE Keeps(c, EmitTree(emit, c, node))
      OBVIOUS
    <3>1. n # 0 /\ node.type \in InnerTypes /\ OperandsIn(node, Trees[n - 1])
      BY Unnest
    <3>. QED
      BY <3>1, TreeKeeps
  <2>4. Keeps(c, e(c))
    BY <2>1, <2>2, <2>3
  <2>. QED
    BY <2>4 DEF Keeps, KeepsCode
<1>. HIDE DEF e
<1>. QED
  BY <1>1, <1>2 DEF Emitting

(* The recursive function exists.                                          *)
EmittersUpTo(n, emitters) == emitters = [k \in 0 .. n |-> EmittersFrom(emitters[k - 1], k)]

LEMMA LeavesNeedNoEmitters == \A emit, other : EmittersFrom(emit, 0) = EmittersFrom(other, 0)
<1>. SUFFICES ASSUME NEW emit, NEW other PROVE EmittersFrom(emit, 0) = EmittersFrom(other, 0)
  OBVIOUS
<1>1. \A node \in Trees[0] : node.type \in LeafTypes
  BY TreesAreDefined, LeavesAreLeaves
<1>. QED
  BY <1>1 DEF EmittersFrom

LEMMA EmittersUpToExist == \A n \in Nat : \E emitters : EmittersUpTo(n, emitters)
<1>. DEFINE T == {n \in Nat : \E emitters : EmittersUpTo(n, emitters)}
<1>1. 0 \in T
  <2>. DEFINE only == [k \in 0 .. 0 |-> EmittersFrom({}, 0)]
  <2>1. \A k \in 0 .. 0 : k = 0
    OBVIOUS
  <2>2. \A k \in 0 .. 0 : only[k] = EmittersFrom(only[k - 1], k)
    BY <2>1, LeavesNeedNoEmitters
  <2>3. only = [k \in 0 .. 0 |-> only[k]]
    OBVIOUS
  <2>. HIDE DEF only
  <2>4. EmittersUpTo(0, only)
    BY <2>2, <2>3 DEF EmittersUpTo
  <2>. QED
    BY <2>4
<1>2. ASSUME NEW n \in Nat, n \in T PROVE n + 1 \in T
  <2>1. PICK emitters : EmittersUpTo(n, emitters)
    BY <1>2
  <2>. DEFINE more == [k \in 0 .. n + 1 |-> IF k = n + 1 THEN EmittersFrom(emitters[n], n + 1) ELSE emitters[k]]
  <2>2. \A k \in 0 .. n : more[k] = emitters[k]
    OBVIOUS
  <2>3. \A k \in 0 .. n : emitters[k] = EmittersFrom(emitters[k - 1], k)
    BY <2>1 DEF EmittersUpTo
  <2>4. ASSUME NEW k \in 0 .. n + 1 PROVE more[k] = EmittersFrom(more[k - 1], k)
    <3>1. CASE k = n + 1
      <4>1. more[k] = EmittersFrom(emitters[n], n + 1) /\ k - 1 = n /\ n \in 0 .. n
        BY <3>1
      <4>. QED
        BY <3>1, <4>1, <2>2
    <3>2. CASE k # n + 1 /\ k # 0
      <4>1. k \in 0 .. n /\ k - 1 \in 0 .. n
        BY <3>2
      <4>. QED
        BY <4>1, <2>2, <2>3
    <3>3. CASE k = 0
      <4>1. 0 \in 0 .. n
        OBVIOUS
      <4>2. more[0] = EmittersFrom(emitters[0 - 1], 0)
        BY <4>1, <2>2, <2>3
      <4>. QED
        BY <3>3, <4>2, LeavesNeedNoEmitters
    <3>. QED
      BY <3>1, <3>2, <3>3
  <2>5. DOMAIN more = 0 .. n + 1 /\ more = [k \in 0 .. n + 1 |-> more[k]]
    OBVIOUS
  <2>. HIDE DEF more
  <2>6. EmittersUpTo(n + 1, more)
    BY <2>4, <2>5 DEF EmittersUpTo
  <2>. QED
    BY <2>6
<1>3. Nat \subseteq T
  <2>. HIDE DEF T
  <2>. QED
    BY <1>1, <1>2, Induction
<1>. QED
  BY <1>3

LEMMA EmittersUpToAgree ==
  ASSUME NEW n \in Nat, NEW m \in Nat, NEW emitters, NEW other,
         EmittersUpTo(n, emitters), EmittersUpTo(m, other)
  PROVE  \A k \in Nat : k <= n /\ k <= m => emitters[k] = other[k]
<1>. DEFINE T == {k \in Nat : k <= n /\ k <= m => emitters[k] = other[k]}
<1>1. \A k \in 0 .. n : emitters[k] = EmittersFrom(emitters[k - 1], k)
  BY DEF EmittersUpTo
<1>2. \A k \in 0 .. m : other[k] = EmittersFrom(other[k - 1], k)
  BY DEF EmittersUpTo
<1>3. 0 \in T
  <2>1. 0 \in 0 .. n /\ 0 \in 0 .. m
    OBVIOUS
  <2>2. emitters[0] = EmittersFrom(emitters[0 - 1], 0)
    BY <1>1, <2>1
  <2>3. other[0] = EmittersFrom(other[0 - 1], 0)
    BY <1>2, <2>1
  <2>. QED
    BY <2>2, <2>3, LeavesNeedNoEmitters
<1>4. ASSUME NEW k \in Nat, k \in T PROVE k + 1 \in T
  <2>. SUFFICES ASSUME k + 1 <= n, k + 1 <= m PROVE emitters[k + 1] = other[k + 1]
    OBVIOUS
  <2>1. k + 1 \in 0 .. n /\ k + 1 \in 0 .. m /\ (k + 1) - 1 = k /\ k <= n /\ k <= m
    OBVIOUS
  <2>2. emitters[k] = other[k]
    BY <1>4, <2>1
  <2>3. emitters[k + 1] = EmittersFrom(emitters[(k + 1) - 1], k + 1)
    BY <1>1, <2>1
  <2>4. other[k + 1] = EmittersFrom(other[(k + 1) - 1], k + 1)
    BY <1>2, <2>1
  <2>. QED
    BY <2>1, <2>2, <2>3, <2>4
<1>5. Nat \subseteq T
  <2>. HIDE DEF T
  <2>. QED
    BY <1>3, <1>4, Induction
<1>. QED
  BY <1>5

LEMMA EmittersAreDefined ==
  /\ \A emit : Emitters[0] = EmittersFrom(emit, 0)
  /\ \A n \in Nat : Emitters[n + 1] = EmittersFrom(Emitters[n], n + 1)
<1>. DEFINE UpTo(n) == CHOOSE emitters : EmittersUpTo(n, emitters)
            all == [n \in Nat |-> UpTo(n)[n]]
            Solves(f) == f = [n \in Nat |-> EmittersFrom(f[n - 1], n)]
<1>1. \A n \in Nat : EmittersUpTo(n, UpTo(n))
  BY EmittersUpToExist
<1>. HIDE DEF UpTo
<1>2. ASSUME NEW n \in Nat PROVE all[n] = EmittersFrom(all[n - 1], n)
  <2>1. all[n] = UpTo(n)[n] /\ n \in 0 .. n
    OBVIOUS
  <2>2. UpTo(n)[n] = EmittersFrom(UpTo(n)[n - 1], n)
    BY <1>1, <2>1 DEF EmittersUpTo
  <2>3. CASE n # 0
    <3>1. n - 1 \in Nat /\ n - 1 <= n /\ n - 1 <= n - 1
      BY <2>3
    <3>2. UpTo(n)[n - 1] = UpTo(n - 1)[n - 1]
      BY <1>1, <3>1, EmittersUpToAgree
    <3>3. UpTo(n)[n - 1] = all[n - 1]
      BY <3>1, <3>2
    <3>. QED
      BY <2>1, <2>2, <3>3
  <2>4. CASE n = 0
    BY <2>1, <2>2, <2>4, LeavesNeedNoEmitters
  <2>. QED
    BY <2>3, <2>4
<1>3. Solves(all)
  <2>1. all = [n \in Nat |-> all[n]]
    OBVIOUS
  <2>. HIDE DEF all
  <2>. QED
    BY <1>2, <2>1
<1>. HIDE DEF all
<1>4. Emitters = CHOOSE f : Solves(f)
  BY DEF Emitters, EmittersFrom
<1>5. Solves(Emitters)
  <2>. HIDE DEF Solves
  <2>. QED
    BY <1>3, <1>4
<1>. HIDE DEF Emitters
<1>6. \A n \in Nat : Emitters[n] = EmittersFrom(Emitters[n - 1], n)
  BY <1>5
<1>7. ASSUME NEW emit PROVE Emitters[0] = EmittersFrom(emit, 0)
  BY <1>6, LeavesNeedNoEmitters
<1>8. ASSUME NEW n \in Nat PROVE Emitters[n + 1] = EmittersFrom(Emitters[n], n + 1)
  <2>1. n + 1 \in Nat /\ (n + 1) - 1 = n
    OBVIOUS
  <2>. QED
    BY <1>6, <2>1
<1>. QED
  BY <1>7, <1>8

(* Compiling a tree, however deep, keeps what was there before it.         *)
LEMMA EmittersKeep == \A n \in Nat : CompilesAll(Emitters[n], Trees[n])
<1>. DEFINE T == {n \in Nat : CompilesAll(Emitters[n], Trees[n])}
<1>1. 0 \in T
  <2>1. CompilesAll(EmittersFrom({}, 0), Trees[0])
    BY EmittersFromKeep
  <2>. QED
    BY <2>1, EmittersAreDefined
<1>2. ASSUME NEW n \in Nat, n \in T PROVE n + 1 \in T
  <2>1. (n + 1) - 1 = n /\ n + 1 \in Nat /\ CompilesAll(Emitters[n], Trees[n])
    BY <1>2
  <2>2. CompilesAll(Emitters[n], Trees[(n + 1) - 1])
    BY <2>1
  <2>3. CompilesAll(EmittersFrom(Emitters[n], n + 1), Trees[n + 1])
    BY <2>1, <2>2, EmittersFromKeep
  <2>. QED
    BY <2>1, <2>3, EmittersAreDefined
<1>3. Nat \subseteq T
  <2>. HIDE DEF T
  <2>. QED
    BY <1>1, <1>2, Induction
<1>. QED
  BY <1>3

LEMMA NodeKeeps ==
  ASSUME NEW c \in Compilations, NEW d, Keeps(c, d), NEW node \in Trees[MaxNesting]
  PROVE  Keeps(c, EmitNode(d, node))
<1>1. CompilesAll(Emitters[MaxNesting], Trees[MaxNesting])
  BY NestingAssumption, EmittersKeep
<1>. QED
  BY <1>1, ThenNode DEF EmitNode

-------------------------------------------------------------------------------
(* What a line adds to the line runs, and what ByteCode_rewind takes back. *)

(* The runs of earlier lines end with one that is not empty, which is how  *)
(* ByteCode_rewind finds where they end.                                   *)
Settled(runs, count) ==
  /\ runs \in LineRuns /\ runs # <<>>
  /\ RunsUpTo(runs, Len(runs)) = count
  /\ Len(runs) # 1 => runs[Len(runs)].run # 0

(* More bytes lengthen the last run, or follow in a run of their own.      *)
Lengthened(runs, after, count) ==
  /\ Len(after) = Len(runs)
  /\ \A i \in 1 .. Len(runs) - 1 : after[i] = runs[i]
  /\ after[Len(runs)].line = runs[Len(runs)].line
  /\ after[Len(runs)].run = runs[Len(runs)].run + count

Followed(runs, after, count) ==
  /\ Len(after) = Len(runs) + 1
  /\ \A i \in 1 .. Len(runs) : after[i] = runs[i]
  /\ after[Len(runs) + 1].run = count /\ count # 0

LEMMA RunsGrow ==
  ASSUME NEW runs \in LineRuns, runs # <<>>, NEW line \in Nat, NEW count \in Nat
  PROVE  LET after == RunsAfter(runs, line, count) IN
           Lengthened(runs, after, count) \/ Followed(runs, after, count)
<1>. DEFINE Runs == [line : Nat, run : Nat]
            last == Len(runs)
            after == RunsAfter(runs, line, count)
            longer == [runs[last] EXCEPT !.run = @ + count]
            other == [line |-> line, run |-> count]
<1>1. runs \in Seq(Runs) /\ last \in Nat \ {0} /\ last \in 1 .. Len(runs)
  BY EmptySeq DEF LineRuns
<1>2. runs[last] \in Runs
  <2>. HIDE DEF Runs, last
  <2>. QED
    BY <1>1, ElementOfSeq
<1>3. longer \in Runs /\ other \in Runs /\ longer.line = runs[last].line
      /\ longer.run = runs[last].run + count /\ other.run = count /\ runs[last].run \in Nat
  BY <1>2
<1>. HIDE DEF Runs, longer, other
<1>4. CASE count = 0
  <2>1. after = runs
    BY <1>4 DEF RunsAfter
  <2>2. runs[last].run + count = runs[last].run
    BY <1>3, <1>4
  <2>. HIDE DEF after
  <2>3. Lengthened(runs, after, count)
    BY <1>1, <2>1, <2>2 DEF Lengthened
  <2>. QED
    BY <2>3 DEF after
<1>5. CASE count # 0 /\ runs[last].line = line
  <2>1. after = [runs EXCEPT ![last] = longer]
    BY <1>5 DEF RunsAfter, ByteCode_updateLineRuns, longer
  <2>2. Len(after) = last /\ \A i \in 1 .. last : after[i] = IF i = last THEN longer ELSE runs[i]
    <3>. HIDE DEF after
    <3>. QED
      BY <1>1, <1>3, <2>1, ExceptSeq
  <2>. HIDE DEF after
  <2>3. Lengthened(runs, after, count)
    BY <1>1, <1>3, <2>2 DEF Lengthened
  <2>. QED
    BY <2>3 DEF after
<1>6. CASE count # 0 /\ runs[last].line # line
  <2>1. after = Append(runs, other)
    BY <1>6 DEF RunsAfter, ByteCode_updateLineRuns, other
  <2>2. Len(after) = last + 1 /\ after[last + 1] = other /\ \A i \in 1 .. last : after[i] = runs[i]
    <3>. HIDE DEF after
    <3>. QED
      BY <1>1, <1>3, <2>1, AppendProperties
  <2>. HIDE DEF after
  <2>3. Followed(runs, after, count)
    BY <1>3, <1>6, <2>2 DEF Followed
  <2>. QED
    BY <2>3 DEF after
<1>. QED
  BY <1>4, <1>5, <1>6

(* The sums of the runs of earlier lines only grow at the last of them.    *)
LEMMA SumsAfter ==
  ASSUME NEW runs \in LineRuns, runs # <<>>, NEW line \in Nat, NEW count \in Nat
  PROVE  LET after == RunsAfter(runs, line, count) IN
           /\ after \in LineRuns /\ after # <<>>
           /\ Len(runs) \in Nat \ {0} /\ Len(after) \in Nat /\ Len(runs) <= Len(after)
           /\ \A i \in 0 .. Len(runs) - 1 : RunsUpTo(after, i) = RunsUpTo(runs, i)
           /\ RunsUpTo(after, Len(runs)) >= RunsUpTo(runs, Len(runs))
           /\ RunsUpTo(after, Len(after)) = RunsUpTo(runs, Len(runs)) + count
           /\ \A i \in 1 .. Len(runs) : after[i].line = runs[i].line
           /\ after[Len(runs)].run = runs[Len(runs)].run
                + (RunsUpTo(after, Len(runs)) - RunsUpTo(runs, Len(runs)))
           /\ \A i \in 1 .. Len(runs) - 1 : after[i] = runs[i]
<1>. DEFINE after == RunsAfter(runs, line, count)
            last == Len(runs)
<1>1. after \in LineRuns /\ after # <<>> /\ Len(after) \in Nat /\ last \in Nat \ {0}
  <2>1. after \in LineRuns /\ after # <<>>
    BY UpdatedRuns
  <2>. HIDE DEF after
  <2>. QED
    BY <2>1, EmptySeq DEF LineRuns
<1>2. Lengthened(runs, after, count) \/ Followed(runs, after, count)
  BY RunsGrow
<1>. HIDE DEF after
<1>3. last <= Len(after) /\ \A i \in 1 .. last - 1 : after[i] = runs[i]
  BY <1>1, <1>2 DEF Lengthened, Followed
<1>4. \A i \in 0 .. last - 1 : RunsUpTo(after, i) = RunsUpTo(runs, i)
  <2>1. last - 1 \in Nat /\ last - 1 <= Len(runs) /\ last - 1 <= Len(after)
    BY <1>1, <1>3
  <2>2. \A i \in 1 .. last - 1 : runs[i].run = after[i].run
    BY <1>3
  <2>. HIDE DEF last
  <2>3. \A i \in 0 .. last - 1 : RunsUpTo(runs, i) = RunsUpTo(after, i)
    BY <1>1, <2>1, <2>2, SumsAgree
  <2>. QED
    BY <2>3
<1>5. /\ RunsUpTo(runs, last) = RunsUpTo(runs, last - 1) + runs[last].run
      /\ RunsUpTo(after, last) = RunsUpTo(runs, last - 1) + after[last].run
      /\ RunsUpTo(runs, last - 1) \in Nat /\ runs[last].run \in Nat /\ after[last].run \in Nat
  <2>1. last \in 1 .. Len(runs) /\ last \in 1 .. Len(after) /\ last - 1 \in 0 .. last - 1
        /\ last - 1 \in 0 .. Len(runs)
    BY <1>1, <1>3
  <2>2. RunsUpTo(runs, last) = RunsUpTo(runs, last - 1) + runs[last].run
    BY <2>1, SumStep
  <2>3. RunsUpTo(after, last) = RunsUpTo(after, last - 1) + after[last].run
    BY <1>1, <2>1, SumStep
  <2>4. RunsUpTo(after, last - 1) = RunsUpTo(runs, last - 1)
    BY <1>4, <2>1
  <2>5. RunsUpTo(runs, last - 1) \in Nat
    BY <2>1, SumsAreNatural
  <2>6. runs[last].run \in Nat
    BY <2>1, RunFields
  <2>7. after[last].run \in Nat
    BY <1>1, <2>1, RunFields
  <2>. QED
    BY <2>2, <2>3, <2>4, <2>5, <2>6, <2>7
<1>6. CASE Lengthened(runs, after, count)
  <2>1. Len(after) = last /\ after[last].line = runs[last].line /\ after[last].run = runs[last].run + count
    BY <1>6 DEF Lengthened
  <2>2. RunsUpTo(after, last) = RunsUpTo(runs, last) + count
        /\ RunsUpTo(runs, last) \in Nat
        /\ RunsUpTo(after, last) - RunsUpTo(runs, last) = count
    BY <1>5, <2>1
  <2>3. \A i \in 1 .. last : after[i].line = runs[i].line
    BY <1>1, <1>3, <2>1
  <2>4. RunsUpTo(after, last) >= RunsUpTo(runs, last)
    BY <2>2
  <2>. QED
    BY <1>1, <1>3, <1>4, <2>1, <2>2, <2>3, <2>4 DEF after
<1>7. CASE Followed(runs, after, count)
  <2>1. Len(after) = last + 1 /\ after[last + 1].run = count /\ \A i \in 1 .. last : after[i] = runs[i]
    BY <1>7 DEF Followed
  <2>2. after[last] = runs[last]
    BY <1>1, <2>1
  <2>3. RunsUpTo(after, last) = RunsUpTo(runs, last) /\ RunsUpTo(runs, last) \in Nat
    BY <1>5, <2>2
  <2>4. RunsUpTo(after, last + 1) = RunsUpTo(runs, last) + count
    <3>1. last + 1 \in 1 .. Len(after) /\ (last + 1) - 1 = last
      BY <1>1, <2>1
    <3>2. RunsUpTo(after, last + 1) = RunsUpTo(after, (last + 1) - 1) + after[last + 1].run
      BY <1>1, <3>1, SumStep
    <3>. QED
      BY <2>1, <2>3, <3>1, <3>2
  <2>5. runs[last].run = runs[last].run + (RunsUpTo(after, last) - RunsUpTo(runs, last))
        /\ RunsUpTo(after, last) >= RunsUpTo(runs, last)
    BY <1>5, <2>3
  <2>. QED
    BY <1>1, <1>3, <1>4, <2>1, <2>2, <2>4, <2>5 DEF after
<1>. QED
  BY <1>2, <1>6, <1>7

LEMMA StillSettled ==
  ASSUME NEW runs, NEW start \in Nat, Settled(runs, start), NEW line \in Nat, NEW count \in Nat
  PROVE  Settled(RunsAfter(runs, line, count), start + count)
<1>. DEFINE after == RunsAfter(runs, line, count)
            last == Len(runs)
<1>1. runs \in LineRuns /\ runs # <<>> /\ RunsUpTo(runs, last) = start
      /\ (last # 1 => runs[last].run # 0)
  BY DEF Settled
<1>2. after \in LineRuns /\ after # <<>> /\ RunsUpTo(after, Len(after)) = start + count
      /\ last \in Nat \ {0}
  BY <1>1, SumsAfter
<1>3. Lengthened(runs, after, count) \/ Followed(runs, after, count)
  BY <1>1, RunsGrow
<1>. HIDE DEF after
<1>4. CASE Lengthened(runs, after, count)
  <2>1. runs[last].run \in Nat
    <3>1. last \in 1 .. Len(runs)
      BY <1>2
    <3>. QED
      BY <1>1, <3>1, RunFields
  <2>2. Len(after) = last /\ after[last].run = runs[last].run + count
    BY <1>4 DEF Lengthened
  <2>3. Len(after) # 1 => after[Len(after)].run # 0
    BY <1>1, <2>1, <2>2
  <2>. QED
    BY <1>2, <2>3 DEF Settled, after
<1>5. CASE Followed(runs, after, count)
  <2>1. after[Len(after)].run # 0
    BY <1>5 DEF Followed
  <2>. QED
    BY <1>2, <2>1 DEF Settled, after
<1>. QED
  BY <1>3, <1>4, <1>5

(* What ByteCode_rewind leaves of the line runs, and what ByteCode_getLine *)
(* reads in them.                                                          *)
RunsBefore(lineRuns, count) ==
  LET last == FirstOf({i \in 1 .. Len(lineRuns) : RunsUpTo(lineRuns, i) >= count})
      excess == RunsUpTo(lineRuns, last) - count
  IN [SubSeq(lineRuns, 1, last) EXCEPT ![last].run = @ - excess]

LineAt(lineRuns, index) ==
  lineRuns[FirstOf({i \in 1 .. Len(lineRuns) : RunsUpTo(lineRuns, i) > index})].line

LEMMA RewindFindsTheEnd ==
  ASSUME NEW runs, NEW start \in Nat, Settled(runs, start), NEW line \in Nat, NEW count \in Nat
  PROVE  RunsBefore(RunsAfter(runs, line, count), start) = runs
<1>. DEFINE after == RunsAfter(runs, line, count)
            size == Len(runs)
            ending == {i \in 1 .. Len(after) : RunsUpTo(after, i) >= start}
            last == FirstOf(ending)
            excess == RunsUpTo(after, last) - start
            cut == SubSeq(after, 1, last)
            Runs == [line : Nat, run : Nat]
<1>1. runs \in LineRuns /\ runs # <<>> /\ RunsUpTo(runs, size) = start /\ (size # 1 => runs[size].run # 0)
  BY DEF Settled
<1>2. /\ after \in LineRuns /\ size \in Nat \ {0} /\ Len(after) \in Nat /\ size <= Len(after)
      /\ \A i \in 0 .. size - 1 : RunsUpTo(after, i) = RunsUpTo(runs, i)
      /\ RunsUpTo(after, size) >= RunsUpTo(runs, size)
      /\ \A i \in 1 .. size : after[i].line = runs[i].line
      /\ after[size].run = runs[size].run + (RunsUpTo(after, size) - RunsUpTo(runs, size))
      /\ \A i \in 1 .. size - 1 : after[i] = runs[i]
  BY <1>1, SumsAfter
<1>. HIDE DEF after
<1>3. size \in ending /\ ending \subseteq Nat
  BY <1>1, <1>2
<1>4. ASSUME NEW i \in ending, i < size PROVE FALSE
  <2>1. size # 1 /\ i \in 1 .. size - 1 /\ i \in 0 .. size - 1 /\ size - 1 \in 1 .. Len(runs)
        /\ size \in 1 .. Len(runs) /\ size - 1 \in i .. Len(runs)
        /\ i \in 0 .. Len(runs) /\ size - 1 \in 0 .. Len(runs)
    BY <1>2, <1>4
  <2>2. RunsUpTo(runs, i) >= start
    BY <1>2, <1>4, <2>1
  <2>3. RunsUpTo(runs, i) <= RunsUpTo(runs, size - 1)
    BY <1>1, <2>1, SumsGrow
  <2>4. RunsUpTo(runs, size) = RunsUpTo(runs, size - 1) + runs[size].run
    BY <1>1, <2>1, SumStep
  <2>5. runs[size].run \in Nat /\ RunsUpTo(runs, size - 1) \in Nat /\ RunsUpTo(runs, i) \in Nat
    BY <1>1, <2>1, RunFields, SumsAreNatural
  <2>. QED
    BY <1>1, <2>1, <2>2, <2>3, <2>4, <2>5
<1>5. last = size
  <2>. HIDE DEF ending
  <2>1. last \in ending /\ last <= size
    BY <1>3, FirstIsLeast
  <2>2. last \in Nat /\ ~ (last < size)
    BY <1>3, <1>4, <2>1
  <2>. QED
    BY <1>2, <2>1, <2>2
<1>. HIDE DEF last
<1>6. after \in Seq(Runs) /\ runs \in Seq(Runs) /\ size \in 0 .. Len(after) /\ size \in 1 .. Len(runs)
      /\ size \in 1 .. Len(after)
  BY <1>1, <1>2 DEF LineRuns
<1>7. cut \in Seq(Runs) /\ Len(cut) = size /\ \A i \in 1 .. size : cut[i] = after[i]
  <2>. HIDE DEF Runs
  <2>. QED
    BY <1>5, <1>6, Prefix
<1>8. after[size] \in Runs /\ runs[size] \in Runs
  <2>. HIDE DEF Runs
  <2>. QED
    BY <1>6, ElementOfSeq
<1>9. RunsUpTo(after, size) \in Nat
  <2>1. size \in 0 .. Len(after)
    BY <1>6
  <2>. QED
    BY <1>2, <2>1, SumsAreNatural
<1>10. [after[size] EXCEPT !.run = @ - excess] = runs[size]
  <2>1. excess = RunsUpTo(after, size) - start
    BY <1>5
  <2>2. after[size].run = runs[size].run + excess
    BY <1>1, <1>2, <2>1
  <2>3. excess \in Int
    BY <1>9, <2>1
  <2>. HIDE DEF excess
  <2>4. after[size].run - excess = runs[size].run
    BY <1>8, <2>2, <2>3
  <2>5. after[size].line = runs[size].line
    BY <1>2, <1>6
  <2>6. runs[size] = [line |-> runs[size].line, run |-> runs[size].run]
        /\ after[size] = [line |-> after[size].line, run |-> after[size].run]
    BY <1>8
  <2>. QED
    BY <2>4, <2>5, <2>6
<1>. HIDE DEF excess, cut
<1>11. [cut EXCEPT ![last].run = @ - excess] = [cut EXCEPT ![size] = runs[size]]
  <2>1. cut[size] = after[size]
    BY <1>6, <1>7
  <2>. QED
    BY <1>5, <1>10, <2>1
<1>12. [cut EXCEPT ![size] = runs[size]] = runs
  <2>. DEFINE left == [cut EXCEPT ![size] = runs[size]]
  <2>. HIDE DEF Runs
  <2>1. left \in Seq(Runs) /\ Len(left) = size
        /\ \A i \in 1 .. size : left[i] = IF i = size THEN runs[size] ELSE cut[i]
    BY <1>6, <1>7, <1>8, ExceptSeq
  <2>. HIDE DEF left
  <2>2. ASSUME NEW i \in 1 .. size PROVE left[i] = runs[i]
    <3>1. CASE i = size
      BY <2>1, <3>1
    <3>2. CASE i # size
      <4>1. i \in 1 .. size - 1
        BY <1>2, <3>2
      <4>. QED
        BY <1>2, <1>7, <2>1, <3>2, <4>1
    <3>. QED
      BY <3>1, <3>2
  <2>3. left = runs
    BY <1>6, <2>1, <2>2, SeqEqual
  <2>. QED
    BY <2>3 DEF left
<1>. QED
  BY <1>11, <1>12 DEF RunsBefore, after, last, ending, excess, cut

LEMMA LinesStay ==
  ASSUME NEW runs, NEW start \in Nat, Settled(runs, start), NEW line \in Nat, NEW count \in Nat,
         NEW index \in 0 .. start - 1
  PROVE  LineAt(RunsAfter(runs, line, count), index) = LineAt(runs, index)
<1>. DEFINE after == RunsAfter(runs, line, count)
            size == Len(runs)
            now == {i \in 1 .. Len(after) : RunsUpTo(after, i) > index}
            before == {i \in 1 .. Len(runs) : RunsUpTo(runs, i) > index}
            first == FirstOf(before)
            new == FirstOf(now)
<1>1. runs \in LineRuns /\ runs # <<>> /\ RunsUpTo(runs, size) = start
  BY DEF Settled
<1>2. /\ after \in LineRuns /\ size \in Nat \ {0} /\ Len(after) \in Nat /\ size <= Len(after)
      /\ \A i \in 0 .. size - 1 : RunsUpTo(after, i) = RunsUpTo(runs, i)
      /\ RunsUpTo(after, size) >= RunsUpTo(runs, size)
      /\ \A i \in 1 .. size : after[i].line = runs[i].line
  BY <1>1, SumsAfter
<1>. HIDE DEF after
<1>3. /\ \A i \in 0 .. size : RunsUpTo(runs, i) \in Nat
      /\ RunsUpTo(after, size) \in Nat
  <2>1. size \in 0 .. Len(after)
    BY <1>2
  <2>. QED
    BY <1>1, <1>2, <2>1, SumsAreNatural
<1>4. size \in before /\ before \subseteq Nat /\ now \subseteq Nat
  BY <1>1, <1>2
<1>5. \A i \in before : i \in now
  <2>. SUFFICES ASSUME NEW i \in before PROVE i \in now
    OBVIOUS
  <2>1. i \in 1 .. size /\ i \in 1 .. Len(after) /\ RunsUpTo(runs, i) > index
    BY <1>2
  <2>2. CASE i = size
    <3>1. RunsUpTo(after, size) > index
      BY <1>1, <1>2, <1>3
    <3>. QED
      BY <2>1, <2>2, <3>1
  <2>3. CASE i # size
    <3>1. i \in 0 .. size - 1
      BY <1>2, <2>1, <2>3
    <3>. QED
      BY <1>2, <2>1, <3>1
  <2>. QED
    BY <2>2, <2>3
<1>6. \A i \in now : i < size => i \in before
  <2>. SUFFICES ASSUME NEW i \in now, i < size PROVE i \in before
    OBVIOUS
  <2>1. i \in 0 .. size - 1 /\ i \in 1 .. Len(runs)
    BY <1>2
  <2>. QED
    BY <1>2, <2>1
<1>7. first \in before /\ first <= size
  <2>. HIDE DEF before
  <2>. QED
    BY <1>4, FirstIsLeast
<1>8. new \in now /\ new <= first
  <2>1. first \in now /\ now # {}
    BY <1>5, <1>7
  <2>. HIDE DEF now, first
  <2>. QED
    BY <1>4, <2>1, FirstIsLeast
<1>9. new = first
  <2>1. first \in Nat /\ new \in Nat
    BY <1>4, <1>7, <1>8
  <2>. SUFFICES ASSUME new < first PROVE FALSE
    BY <1>8, <2>1
  <2>2. new < size
    BY <1>2, <1>7, <2>1
  <2>3. new \in before
    BY <1>6, <1>8, <2>2
  <2>4. first <= new
    <3>. HIDE DEF before
    <3>. QED
      BY <1>4, <2>3, FirstIsLeast
  <2>. QED
    BY <2>1, <2>4
<1>10. first \in 1 .. size
  BY <1>7
<1>. HIDE DEF first, new
<1>11. after[new].line = runs[first].line
  BY <1>2, <1>9, <1>10
<1>. QED
  BY <1>11 DEF LineAt, new, first, after

-------------------------------------------------------------------------------
(* A line.                                                                 *)

LEMMA StatementsKeep ==
  ASSUME NEW c \in Compilations, NEW statements, IsParsed(statements)
  PROVE  Keeps(c, EmitStatements(c, statements))
<1>. DEFINE Nodes == Trees[MaxNesting]
            Emitted(d, i) ==
              IF statements[i] = SyntaxError THEN Report(d)
              ELSE EmitNode(IF NoneBefore(statements, i) THEN d ELSE EmitOp(d, "DROP"), statements[i])
            Statement(i) == [d \in Compilations |-> Emitted(d, i)]
            emitters == [i \in DOMAIN statements |-> Statement(i)]
<1>1. statements \in Seq(Nodes \cup {SyntaxError})
  BY DEF IsParsed
<1>2. Len(statements) \in Nat /\ DOMAIN statements = 1 .. Len(statements)
  <2>. HIDE DEF Nodes
  <2>. QED
    BY <1>1, LenProperties
<1>3. ASSUME NEW i \in 1 .. Len(statements), NEW d \in Compilations
      PROVE  Keeps(d, Emitted(d, i))
  <2>. DEFINE dropped == IF NoneBefore(statements, i) THEN d ELSE EmitOp(d, "DROP")
  <2>1. CASE statements[i] = SyntaxError
    BY <2>1, ReportKeeps
  <2>2. CASE statements[i] # SyntaxError
    <3>1. statements[i] \in Nodes
      <4>1. statements[i] \in Nodes \cup {SyntaxError}
        <5>. HIDE DEF Nodes
        <5>. QED
          BY <1>1, ElementOfSeq
      <4>. QED
        BY <2>2, <4>1
    <3>2. Keeps(d, EmitOp(d, "DROP"))
      BY EmitOpKeeps, OpsHaveNames
    <3>3. Keeps(d, dropped)
      BY <3>2, KeepsItself
    <3>. HIDE DEF dropped
    <3>4. Keeps(d, EmitNode(dropped, statements[i]))
      BY <3>1, <3>3, NodeKeeps
    <3>. QED
      BY <2>2, <3>4 DEF dropped
  <2>. QED
    BY <2>1, <2>2
<1>. HIDE DEF Emitted
<1>4. ASSUME NEW i \in 1 .. Len(statements) PROVE Statement(i) \in Emitting
  <2>1. \A d \in Compilations : Keeps(d, Emitted(d, i)) /\ Emitted(d, i) \in Compilations
    BY <1>3 DEF Keeps, KeepsCode
  <2>. QED
    BY <2>1 DEF Emitting
<1>. HIDE DEF Statement
<1>5. emitters \in [1 .. Len(statements) -> Emitting]
  BY <1>2, <1>4
<1>6. emitters \in Seq(Emitting)
  <2>. HIDE DEF emitters
  <2>. QED
    BY <1>2, <1>5, IsSequence
<1>7. Keeps(c, InTurn(emitters, c))
  <2>. HIDE DEF emitters
  <2>. QED
    BY <1>6, InTurnKeeps
<1>. QED
  BY <1>7 DEF EmitStatements, Statement, Emitted

(* Between lines: no scope is open, and the runs end where the code does.  *)
SettledIn(c) ==
  /\ c \in Compilations
  /\ c.symbols.scopes = <<>>
  /\ Settled(c.code.lineRuns, Count(c))

LEMMA StartsALine ==
  ASSUME NEW c \in Compilations
  PROVE  LET s == StartLine(c) IN
           /\ s \in Compilations /\ s.symbols = c.symbols /\ s.code = c.code /\ s.breaks = {}
           /\ Count(s) = Count(c)
<1>1. c.line \in Nat
  BY CompilationFields
<1>2. c.line + 1 \in Nat
  BY <1>1
<1>. QED
  BY <1>2 DEF StartLine, Compilations, Count

(* What a line leaves of the lines before it.                              *)
Extends(c, d) ==
  /\ SubSeq(d.code.items, 1, Count(c)) = c.code.items
  /\ \A index \in 0 .. Count(c) - 1 : ByteCode_getLine(d.code, index) = ByteCode_getLine(c.code, index)
  /\ SubSeq(d.symbols.items, 1, Len(c.symbols.items)) = c.symbols.items

LEMMA LineExtends ==
  ASSUME NEW c, SettledIn(c), NEW d, Keeps(StartLine(c), d)
  PROVE  /\ SettledIn(d) /\ Extends(c, d)
         /\ Count(c) \in Nat /\ Count(d) \in Nat /\ Count(c) <= Count(d)
         /\ d.code.lineRuns = RunsAfter(c.code.lineRuns, StartLine(c).line, Count(d) - Count(c))
         /\ Len(c.symbols.items) \in 0 .. Len(d.symbols.items)
<1>. DEFINE s == StartLine(c)
            line == s.line
            size == Count(d) - Count(c)
            start == Count(c)
            runs == c.code.lineRuns
            Entry == [symbol : STRING, definedOnLine : Nat, isMutable : BOOLEAN]
<1>1. c \in Compilations /\ c.symbols.scopes = <<>> /\ Settled(runs, start)
  BY DEF SettledIn
<1>2. /\ s \in Compilations /\ s.symbols = c.symbols /\ s.code = c.code /\ s.breaks = {}
      /\ Count(s) = Count(c)
  BY <1>1, StartsALine
<1>3. KeepsCode(s, d) /\ KeepsSymbols(s, d) /\ d \in Compilations
  BY DEF Keeps, KeepsCode
<1>. HIDE DEF s
<1>4. /\ start \in Nat /\ start = Len(c.code.items) /\ c.code.items \in Seq(Int)
      /\ Len(c.symbols.items) \in Nat /\ c.symbols.items \in Seq(Entry)
  BY <1>1, CompilationFields DEF SymbolLists
<1>5. /\ Count(d) \in Nat /\ Count(d) = Len(d.code.items) /\ d.code.items \in Seq(Int)
      /\ Len(d.symbols.items) \in Nat /\ d.symbols.items \in Seq(Entry)
  BY <1>3, CompilationFields DEF SymbolLists
<1>6. line \in Nat
  BY <1>2, CompilationFields
<1>7. start <= Count(d) /\ \A k \in 1 .. start : d.code.items[k] = c.code.items[k]
  <2>1. start \in 0 .. start
    BY <1>4
  <2>. QED
    BY <1>2, <1>3, <2>1 DEF KeepsCode, KeepsBytes
<1>8. size \in Nat /\ start + size = Count(d)
  BY <1>4, <1>5, <1>7
<1>9. d.code.lineRuns = RunsAfter(runs, line, size)
  BY <1>2, <1>3 DEF KeepsCode, KeepsRuns
<1>10. Settled(d.code.lineRuns, Count(d))
  <2>. HIDE DEF size, line, start, runs
  <2>1. Settled(RunsAfter(runs, line, size), start + size)
    BY <1>1, <1>4, <1>6, <1>8, StillSettled
  <2>. QED
    BY <1>8, <1>9, <2>1
<1>11. SettledIn(d)
  BY <1>1, <1>2, <1>3, <1>10 DEF SettledIn, KeepsSymbols
<1>12. SubSeq(d.code.items, 1, start) = c.code.items
  <2>1. start \in 0 .. Len(d.code.items)
    BY <1>4, <1>5, <1>7
  <2>. DEFINE items == d.code.items
              before == c.code.items
  <2>2. items \in Seq(Int) /\ before \in Seq(Int) /\ start = Len(before) /\ start \in 0 .. Len(items)
        /\ \A k \in 1 .. start : items[k] = before[k]
    BY <1>4, <1>5, <1>7, <2>1
  <2>. HIDE DEF items, before, start
  <2>3. SubSeq(items, 1, start) \in Seq(Int) /\ Len(SubSeq(items, 1, start)) = start
        /\ \A k \in 1 .. start : SubSeq(items, 1, start)[k] = items[k]
    BY <2>2, Prefix
  <2>4. SubSeq(items, 1, start) = before
    BY <2>2, <2>3, SeqEqual
  <2>. QED
    BY <2>4 DEF items, before
<1>13. /\ Len(c.symbols.items) \in 0 .. Len(d.symbols.items)
       /\ SubSeq(d.symbols.items, 1, Len(c.symbols.items)) = c.symbols.items
  <2>. DEFINE items == d.symbols.items
              before == c.symbols.items
              count == Len(c.symbols.items)
  <2>1. StartsWith(items, before)
    BY <1>2, <1>3 DEF KeepsSymbols
  <2>2. items \in Seq(Entry) /\ before \in Seq(Entry) /\ count = Len(before) /\ count \in 0 .. Len(items)
        /\ \A k \in 1 .. count : items[k] = before[k]
    <3>1. count = Len(before) /\ count <= Len(items) /\ \A k \in 1 .. count : items[k] = before[k]
      BY <2>1 DEF StartsWith
    <3>2. count \in Nat /\ Len(items) \in Nat /\ items \in Seq(Entry) /\ before \in Seq(Entry)
      BY <1>4, <1>5
    <3>. HIDE DEF items, before, count, Entry
    <3>. QED
      BY <3>1, <3>2
  <2>. HIDE DEF items, before, count, Entry
  <2>3. SubSeq(items, 1, count) \in Seq(Entry) /\ Len(SubSeq(items, 1, count)) = count
        /\ \A k \in 1 .. count : SubSeq(items, 1, count)[k] = items[k]
    BY <2>2, Prefix
  <2>4. SubSeq(items, 1, count) = before
    BY <2>2, <2>3, SeqEqual
  <2>. QED
    BY <2>2, <2>4 DEF items, before, count
<1>14. ASSUME NEW index \in 0 .. start - 1
       PROVE  ByteCode_getLine(d.code, index) = ByteCode_getLine(c.code, index)
  <2>1. LineAt(RunsAfter(runs, line, size), index) = LineAt(runs, index)
    <3>. HIDE DEF size, line, start, runs
    <3>. QED
      BY <1>1, <1>4, <1>6, <1>8, LinesStay
  <2>2. LineAt(d.code.lineRuns, index) = LineAt(c.code.lineRuns, index)
    <3>. HIDE DEF line, size
    <3>. QED
      BY <1>9, <2>1
  <2>. QED
    BY <2>2 DEF ByteCode_getLine, LineAt
<1>. QED
  BY <1>4, <1>5, <1>7, <1>9, <1>11, <1>12, <1>13, <1>14 DEF Extends, s

(* Taking a line back leaves what was there before it.                     *)
LEMMA LineIsTakenBack ==
  ASSUME NEW c, SettledIn(c), NEW d, Keeps(StartLine(c), d)
  PROVE  LET after == [d EXCEPT !.code = ByteCode_rewind(@, Count(c)),
                                !.symbols = SymbolList_rewind(@, Len(c.symbols.items))]
         IN /\ SettledIn(after) /\ Extends(c, after)
            /\ after.code.items = c.code.items
            /\ after.code.lineRuns = c.code.lineRuns
            /\ after.symbols = c.symbols
<1>. DEFINE code == ByteCode_rewind(d.code, Count(c))
            symbols == SymbolList_rewind(d.symbols, Len(c.symbols.items))
            after == [d EXCEPT !.code = code, !.symbols = symbols]
            line == StartLine(c).line
            size == Count(d) - Count(c)
            start == Count(c)
            runs == c.code.lineRuns
<1>1. /\ SettledIn(d) /\ Extends(c, d) /\ start \in Nat /\ Count(d) \in Nat /\ start <= Count(d)
      /\ d.code.lineRuns = RunsAfter(runs, line, size)
  BY LineExtends
<1>2. size \in Nat
  BY <1>1
<1>3. c \in Compilations /\ c.symbols.scopes = <<>> /\ Settled(runs, start) /\ d \in Compilations
  BY <1>1 DEF SettledIn
<1>4. line \in Nat
  BY <1>3, StartsALine, CompilationFields
<1>5. code = [d.code EXCEPT !.items = c.code.items, !.lineRuns = runs]
  <2>1. RunsBefore(RunsAfter(runs, line, size), start) = runs
    <3>. HIDE DEF size, line, start, runs
    <3>. QED
      BY <1>1, <1>2, <1>3, <1>4, RewindFindsTheEnd
  <2>2. RunsBefore(d.code.lineRuns, start) = runs
    <3>. HIDE DEF line, size
    <3>. QED
      BY <1>1, <2>1
  <2>3. code = [d.code EXCEPT !.items = SubSeq(@, 1, start), !.lineRuns = RunsBefore(@, start)]
    BY DEF ByteCode_rewind, RunsBefore
  <2>4. SubSeq(d.code.items, 1, start) = c.code.items
    BY <1>1 DEF Extends
  <2>. HIDE DEF code, start, runs
  <2>. QED
    BY <2>2, <2>3, <2>4
<1>6. symbols = c.symbols
  <2>1. symbols = [items |-> c.symbols.items, scopes |-> <<>>]
    BY <1>1 DEF SymbolList_rewind, Extends
  <2>2. c.symbols = [items |-> c.symbols.items, scopes |-> c.symbols.scopes]
    BY <1>3, CompilationFields DEF SymbolLists
  <2>. QED
    BY <1>3, <2>1, <2>2
<1>7. /\ c.symbols \in SymbolLists /\ c.code.items \in Seq(Int) /\ runs \in LineRuns /\ runs # <<>>
      /\ d.code \in ByteCodes /\ c.symbols.items = symbols.items
  BY <1>3, <1>6, CompilationFields
<1>8. code.items = c.code.items /\ code.lineRuns = runs /\ code \in ByteCodes
  BY <1>5, <1>7 DEF ByteCodes, LineRuns
<1>. HIDE DEF code, symbols
<1>9. after \in Compilations /\ after.code = code /\ after.symbols = symbols
  BY <1>3, <1>6, <1>7, <1>8 DEF Compilations
<1>. HIDE DEF after
<1>10. Count(after) = Count(c)
  BY <1>8, <1>9 DEF Count, ByteCode_count
<1>11. SettledIn(after)
  BY <1>3, <1>6, <1>8, <1>9, <1>10 DEF SettledIn
<1>12. Extends(c, after)
  <2>1. SubSeq(c.code.items, 1, Count(c)) = c.code.items
    <3>1. Count(c) = Len(c.code.items) /\ c.code.items \in Seq(Int)
      BY <1>3, CompilationFields
    <3>. QED
      BY <3>1, SubSeqFull
  <2>2. SubSeq(c.symbols.items, 1, Len(c.symbols.items)) = c.symbols.items
    <3>. DEFINE Entry == [symbol : STRING, definedOnLine : Nat, isMutable : BOOLEAN]
    <3>1. c.symbols.items \in Seq(Entry)
      BY <1>7 DEF SymbolLists
    <3>. HIDE DEF Entry
    <3>. QED
      BY <3>1, SubSeqFull
  <2>3. \A index \in 0 .. Count(c) - 1 : ByteCode_getLine(after.code, index) = ByteCode_getLine(c.code, index)
    BY <1>8, <1>9 DEF ByteCode_getLine
  <2>. QED
    BY <1>6, <1>8, <1>9, <2>1, <2>2, <2>3 DEF Extends
<1>. QED
  BY <1>6, <1>8, <1>9, <1>11, <1>12 DEF after, code, symbols

(* Emitting an instruction does not touch the flag.                        *)
LEMMA EmitOpReportsNothing ==
  ASSUME NEW c \in Compilations, NEW op
  PROVE  EmitOp(c, op).hasErrors = c.hasErrors
BY DEF EmitOp, EmitBytes, Compilations

(* A line compiles onto the end of the code, or not at all.                *)
LEMMA CompileExtends ==
  ASSUME NEW c, SettledIn(c), NEW statements, IsParsed(statements)
  PROVE  LET after == Compile(c, statements) IN
           /\ SettledIn(after) /\ Extends(c, after)
           /\ after.hasErrors =>
                /\ after.code.items = c.code.items
                /\ after.code.lineRuns = c.code.lineRuns
                /\ after.symbols = c.symbols
<1>. DEFINE s == StartLine(c)
            emitted == EmitStatements(s, statements)
            finished == IF NoneBefore(statements, Len(statements) + 1) THEN EmitOp(emitted, "NIL") ELSE emitted
            returned == EmitOp(finished, "RETURN")
            rewound == [emitted EXCEPT !.code = ByteCode_rewind(@, Count(c)),
                                       !.symbols = SymbolList_rewind(@, Len(c.symbols.items))]
            after == Compile(c, statements)
<1>1. after = IF emitted.hasErrors THEN rewound ELSE returned
  BY DEF Compile
<1>2. s \in Compilations
  BY StartsALine DEF SettledIn
<1>3. Keeps(s, emitted) /\ emitted \in Compilations
  <2>. HIDE DEF s
  <2>. QED
    BY <1>2, StatementsKeep DEF Keeps, KeepsCode
<1>. HIDE DEF emitted, after
<1>4. /\ Keeps(s, finished) /\ finished \in Compilations
      /\ finished.hasErrors = emitted.hasErrors
  <2>. HIDE DEF s
  <2>1. Keeps(s, EmitOp(emitted, "NIL")) /\ EmitOp(emitted, "NIL").hasErrors = emitted.hasErrors
    BY <1>2, <1>3, ThenOp, OpsHaveNames, EmitOpReportsNothing
  <2>. QED
    BY <1>3, <2>1 DEF Keeps, KeepsCode
<1>. HIDE DEF finished
<1>5. Keeps(s, returned) /\ returned.hasErrors = emitted.hasErrors
  <2>. HIDE DEF s
  <2>. QED
    BY <1>2, <1>4, ThenOp, OpsHaveNames, EmitOpReportsNothing
<1>. HIDE DEF returned
<1>6. CASE emitted.hasErrors
  <2>1. /\ SettledIn(rewound) /\ Extends(c, rewound)
        /\ rewound.code.items = c.code.items
        /\ rewound.code.lineRuns = c.code.lineRuns
        /\ rewound.symbols = c.symbols
    BY <1>3, LineIsTakenBack
  <2>. HIDE DEF rewound
  <2>. QED
    BY <1>1, <1>6, <2>1 DEF after
<1>7. CASE ~ emitted.hasErrors
  <2>1. SettledIn(returned) /\ Extends(c, returned)
    BY <1>5, LineExtends
  <2>. QED
    BY <1>1, <1>5, <1>7, <2>1 DEF after
<1>. QED
  BY <1>6, <1>7

-------------------------------------------------------------------------------
(* A session.                                                              *)

IInv == SettledIn(compiler)

LEMMA InitIInv == Init => IInv
<1>. DEFINE run == [line |-> 1, run |-> 0]
<1>1. <<run>> \in LineRuns /\ Len(<<run>>) = 1 /\ <<run>>[1] = run /\ <<run>> # <<>>
  BY DEF LineRuns
<1>2. RunsUpTo(<<run>>, 1) = 0
  <2>. HIDE DEF run
  <2>1. 1 \in 1 .. Len(<<run>>) /\ 1 - 1 = 0
    BY <1>1
  <2>2. RunsUpTo(<<run>>, 1) = RunsUpTo(<<run>>, 0) + <<run>>[1].run /\ RunsUpTo(<<run>>, 0) = 0
    BY <1>1, <2>1, SumStep
  <2>. QED
    BY <1>1, <2>2 DEF run
<1>. DEFINE runs == <<run>>
<1>3. Settled(runs, 0)
  <2>. HIDE DEF runs
  <2>1. runs \in LineRuns /\ runs # <<>> /\ Len(runs) = 1 /\ RunsUpTo(runs, 1) = 0
    BY <1>1, <1>2 DEF runs
  <2>. QED
    BY <2>1 DEF Settled
<1>4. runs \in Seq([line : Nat, run : Nat]) \ {<<>>}
  BY <1>1 DEF LineRuns
<1>. DEFINE first == Compiler_init
<1>5. /\ first.symbols.scopes = <<>> /\ first.code.lineRuns = runs /\ first.code.items = <<>>
  BY DEF Compiler_init, SymbolList_init, ByteCode_init
<1>. HIDE DEF runs
<1>6. ByteCode_init \in ByteCodes
  BY <1>4, CodeCapacityAssumption DEF ByteCode_init, ByteCodes, runs
<1>7. SymbolList_init \in SymbolLists
  BY DEF SymbolList_init, SymbolLists
<1>8. first \in Compilations
  BY <1>6, <1>7 DEF Compiler_init, Compilations
<1>9. Count(first) = 0
  BY <1>5 DEF Count, ByteCode_count
<1>. HIDE DEF first
<1>10. SettledIn(first)
  BY <1>3, <1>5, <1>8, <1>9 DEF SettledIn
<1>. QED
  BY <1>10 DEF Init, IInv, first

(* A step of the session compiles a line, or leaves the compiler alone.    *)
LEMMA StepCompiles ==
  ASSUME IInv, [Next]_vars
  PROVE  \/ compiler' = compiler
         \/ /\ SettledIn(compiler') /\ Extends(compiler, compiler')
            /\ compiler'.hasErrors =>
                 /\ compiler'.code.items = compiler.code.items
                 /\ compiler'.code.lineRuns = compiler.code.lineRuns
                 /\ compiler'.symbols = compiler.symbols
                 /\ thread' = thread
<1>1. CASE Step
  BY <1>1 DEF Step
<1>2. ASSUME NEW statements \in Programs, Enter(statements)
      PROVE  /\ SettledIn(compiler') /\ Extends(compiler, compiler')
             /\ compiler'.hasErrors =>
                  /\ compiler'.code.items = compiler.code.items
                  /\ compiler'.code.lineRuns = compiler.code.lineRuns
                  /\ compiler'.symbols = compiler.symbols
                  /\ thread' = thread
  <2>1. IsParsed(statements)
    BY ProgramsAssumption
  <2>2. compiler' = Compile(compiler, statements)
    BY <1>2 DEF Enter, CompileAndRun
  <2>3. compiler'.hasErrors => thread' = thread
    <3>1. compiler'.hasErrors => mode' # "running"
      BY <1>2 DEF Enter, CompileAndRun
    <3>. QED
      BY <1>2, <3>1 DEF Enter, CompileAndRun
  <2>4. /\ SettledIn(compiler') /\ Extends(compiler, compiler')
        /\ compiler'.hasErrors =>
             /\ compiler'.code.items = compiler.code.items
             /\ compiler'.code.lineRuns = compiler.code.lineRuns
             /\ compiler'.symbols = compiler.symbols
    BY <2>1, <2>2, CompileExtends DEF IInv
  <2>. QED
    BY <2>3, <2>4
<1>3. CASE UNCHANGED vars
  BY <1>3 DEF vars
<1>. QED
  BY <1>1, <1>2, <1>3 DEF Next

LEMMA StepIInv == IInv /\ [Next]_vars => IInv'
BY StepCompiles DEF IInv, SettledIn

LEMMA Invariance == Spec => []IInv
<1>. QED
  BY InitIInv, StepIInv, PTL DEF Spec

(* However a line is nested, whatever errors it has and however it leaves  *)
(* its loops, Compiler_compile comes back with every scope closed.         *)
THEOREM ScopesAreClosed == Spec => []EveryScopeIsClosed
<1>1. IInv => EveryScopeIsClosed
  BY DEF IInv, SettledIn, EveryScopeIsClosed
<1>. QED
  BY <1>1, Invariance, PTL

(* A line with an error leaves nothing: ByteCode_rewind finds where the    *)
(* earlier lines ended, and no patch of the line was below that.           *)
THEOREM ErrorsAreTakenBack == Spec => ErrorsLeaveNoTrace
<1>. DEFINE Taken ==
       compiler'.hasErrors /\ compiler' # compiler =>
         /\ compiler'.code.items = compiler.code.items
         /\ compiler'.code.lineRuns = compiler.code.lineRuns
         /\ compiler'.symbols = compiler.symbols
         /\ thread' = thread
<1>1. IInv /\ [Next]_vars => [Taken]_vars
  BY StepCompiles
<1>. HIDE DEF Taken
<1>2. Spec => [][Taken]_vars
  BY <1>1, Invariance, PTL DEF Spec
<1>. QED
  BY <1>2 DEF ErrorsLeaveNoTrace, Taken

(* No line changes what an earlier line compiled to.                       *)
THEOREM EarlierLinesAreKept == Spec => EarlierLinesStay
<1>. DEFINE Kept ==
       compiler' # compiler =>
         /\ SubSeq(compiler'.code.items, 1, Count(compiler)) = compiler.code.items
         /\ \A index \in 0 .. Count(compiler) - 1 :
              ByteCode_getLine(compiler'.code, index) = ByteCode_getLine(compiler.code, index)
         /\ SubSeq(compiler'.symbols.items, 1, Len(Symbols)) = Symbols
<1>1. IInv /\ [Next]_vars => [Kept]_vars
  BY StepCompiles DEF Extends, Symbols
<1>. HIDE DEF Kept
<1>2. Spec => [][Kept]_vars
  BY <1>1, Invariance, PTL DEF Spec
<1>. QED
  BY <1>2 DEF EarlierLinesStay, Kept

===============================================================================
