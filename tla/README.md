# fur in TLA+

Models, model checks and proofs for the `fur` interpreter: a prompt that reads
one line after another, compiles it onto the end of a growing array of bytecode
and runs it on a stack machine. The program is single-threaded and keeps nothing on
disk, so nothing here is about interleavings or crashes. What is hard in it:

- raw pointers into blocks that `realloc` moves (the operand stack, the code);
- two structures that must stay in step without ever being compared: the
  compiler's list of symbols and the machine's stack of values, where the index
  of a symbol *is* the index of its value;
- jumps as byte offsets, patched after the fact, that cross scopes, loops and
  short circuits;
- errors half way: a statement that does not parse and what recovery makes of
  the rest of its line, a line that fails to compile after some of it was
  compiled, a line that panics after some of it ran, and the lines that come
  after.

Paths below are relative to the repository (`src/src/` holds the code).

## 1. Inventory

| component | state | operations | interacts with | correct when |
|---|---|---|---|---|
| operand stack `stack.h/.c` | block of values, `top`, `maxTop`, `currentScope`, saved scopes and their block | push, pop, pushIndex, popToIndex, openScope, closeScope | called by every instruction | pointers follow the block; closing a scope returns its last value and nothing else; no assertion fails |
| bytecode `instruction.h/.c`, `blob.h` | bytes, line runs, literals | append 1/2/4 bytes, patch through an address, getLine, rewind | written by the compiler, read by the thread | bytes are those emitted; every byte reports its line; rewinding leaves no trace |
| symbol list `symbol_list.h/.c` | symbols with mutability, open scopes with checkpoints | find, append, openScope, closeScope, rewind | the compiler's view of the stack | index of a symbol = index of its value |
| compiler `compiler.c` | symbol list, breaks to patch, `hasErrors` | one case per node type, `Compiler_compile` | parser → compiler → bytecode | compiled code does what the tree means; a failing line leaves no trace |
| virtual machine `thread.h/.c`, `builtins.h`, `value.h` | stack, `pcIndex`, `panic` | one case per opcode, clearPanic | bytecode, stack, native functions | every path leaves one value and the scopes it found |
| prompt `main.c` | all of the above, for the session | append a line, compile, run, clear a panic, keep the line's buffer | everything | a line means what it would in a fresh session with the same variables |
| syntax trees `node.h/.c` | tree of one statement | constructors | parser → compiler | – |
| parser `parser.c` | tokenizer, `panic` | one function per construct, `Parser_clearPanic`, `Parser_appendLine` | tokenizer → parser → compiler | accepts the programs and no others; every token in the tree, operators bound as documented; every error reported once and got over |
| tokenizer `tokenizer.c` | line, position, line number, one token of lookahead | scan, peek, appendLine | prompt, parser | the tokens of the line, each the longest; never past its end |
| symbol table `symbol_table.c`, `symbol.c` | open-addressing table of interned names, whose texts lie in the lines | getOrCreate | compiler, and the lines `main` keeps | one symbol per name, for ever |
| object, text, debug, error | – | – | – | object heap unused; messages only |

The hazards of each, at the line where they bite, are in `PROJECT.json` under
`hazards`, with the properties that cover them.

## 2. Modules

```
Interning        what the symbol table promises             (abstract)
SymbolTableOps   symbol_table.c, symbol.c, BufferList of main.c
  SymbolTable    ... line after line, implements Interning           MCSymbolTable
  SymbolTableProofs
                 probing and the texts of symbols; the theorems
Characters       names for characters that are punctuation of TLA+ too
Lexicon          what the tokens of a line are              (reference)
TokenStreamOps   peek and scan, as the parser sees them
TokenStream      what the tokenizer promises                (abstract)
TokenizerOps     tokenizer.c: one operator per function
  Tokenizer      ... peeked at and scanned, implements TokenStream   MCTokenizer
  TokenizerLemmas
                 what the longest token at the front of a text is, proved
  TokenizerProofs
                 what each function scans; the theorems
Grammar          what a program is, how operators bind      (reference)
Parser           parser.c: one operator per function   (TokenStreamOps, Syntax)
  Parsing        ... statement by statement, with recovery           MCParsing
ScopedStack      what the operand stack promises            (abstract)
StackOps         stack.h, stack.c: one operator per function
  Stack          ... as a state machine, implements ScopedStack      MCStack
  StackProofs    what each operation does to a stack; the theorems
ByteCodeOps      instruction.c, blob.h
  ByteCode       ... as a state machine                              MCByteCode
  ByteCodeLemmas line runs and their sums, proved
  ByteCodeProofs the theorems
SymbolListOps    symbol_list.h, symbol_list.c
NatLemmas        least elements, induction, recursive functions, remainders
Syntax           node.c: the trees
ValueOps         value.h, builtins.h, the arithmetic of thread.c
Semantics        what a line means: evaluates the tree      (abstract)
Compiler         compiler.c        (ByteCodeOps, SymbolListOps, ValueOps, Syntax)
Thread           thread.c, thread.h        (ByteCodeOps, ValueOps, StackOps)
  CompilerFlow   every path of what Compiler emits                   MCCompilerFlow
  Repl           main.c: Compiler and Thread over a session, against a meaning  MCRepl
  ReplProofs     what compiling a line keeps, for every tree; the theorems
  Session        main.c: Tokenizer, Parser and Repl over typed text  MCSession
```

Functions of the code that work on one struct are operators from a record to
the record they leave (`Stack_push(s, item, base)`,
`ByteCode_rewind(code, count)`, `EmitIf(c, node)`, `ExecuteCall(t, code)`), so
that the same definitions serve the small state machine of the component and
the composition. A name with an underscore is the C name; `Emit...` is a case
of `Compiler_emitNode`, `Execute...` a case of `Thread_run`. A failed assertion
is a state (`fault`), never an unenabled action.

- **Addresses.** `StackOps` models pointers as integers and a block as a base
  address with cells. `realloc` puts a grown block at any address of `Bases`,
  including the old one. `ReallocZero` and `ZeroRoom` are what the platform does
  for `realloc(p, 0)`: glibc frees the block and returns NULL on the second
  call, and gives 24 bytes (3 pointers) on the first; other platforms give a
  small block each time.
- **Code addresses.** In `ByteCodeOps` an address the compiler keeps
  (`ByteCode_pc`) remembers which block it pointed into; a write through it
  after the block moved is lost (`PatchThrough`). Writes by index (`PatchAt`:
  breaks, chains of comparisons) are never stale.
- **Bytes are bytes.** The compiler emits the bytes of the C enum and its
  little-endian operands, the thread decodes them; a jump to the wrong byte
  executes whatever is there, and bytes that are no opcode are skipped, as the
  `switch` does. The emitted code was compared with that of the real compiler.
- **Trees and nodes.** `Trees[n]` of `Syntax` are the trees of nesting `n`, and
  what the parser returns nests up to `MaxNesting`, a constant: C bounds it by
  its stack, a run by what its lines need (the sets that can be enumerated are
  small ones; membership is all a run asks of `Trees`). The compiler is written
  without recursive operators, so that it can be proved about: `EmitIf(emit, c,
  node)` and the like take what compiles the nodes below as a function from
  trees to functions from compilations to compilations, and `Emitters` is those
  functions for each nesting. The breaks to patch are a set: no two are at the
  same byte.
- **Values** have a type and the union member of that type. Arithmetic is that
  of `int32_t`; an operation that overflows is undefined in C and a fault here.
- **A panic** pops its operands, reports the line of the instruction and
  leaves the rest of the stack as it is; `Thread_clearPanic` moves `pcIndex` to
  the end of the code and nothing else.
- **Characters and tokens.** The tokenizer works on sequences of characters, an
  index standing for a pointer into the line and the NUL behind it for the end.
  The parser's tokens carry what it copies into the tree: an atom is its own
  token, every other token is its type. What is left of a line is a sequence of
  tokens and the one that comes for ever after it (the end of the line, or the
  error of a character that is never consumed). `TokenStreamOps` is the seam:
  the tokenizer is shown to implement it, the parser is built on it. The
  texts of error tokens are left out. `TokenStream` is about any language: which
  tokens a text has is its constant `StreamOf`, and `Tokenizer` gives it the
  operator of `Lexicon`.
- **Panic and NULL.** A parser function leaves a parser with `panic`, `node` and
  the number of errors printed. `Unless` is "if(self->panic) return NULL",
  `Checked` the same with the assertion that the failed call returned `NULL`,
  `Always` a call after which the code does not look. A failed assertion or a
  loop that never ends is `stop`.
- **Lexicon and Grammar** are not models of code: `Lexicon` says what the
  longest token at the front of a text is, by sets and not by scanning, and
  `Grammar` which sequences of tokens are programs, by splitting them, and how
  tightly each operand may bind, by the table of `OPERATORS.md`. Where nothing
  in the repository says what the language is (a missing comma, a semicolon
  behind a block) they agree with the code and a note in `hazards` says so.
- **Hashes.** The 64-bit product of `getIndex` becomes one modulo `HashSpace`,
  with a multiplier in the same proportion; FNV-1a becomes a function from names
  to hashes, which may be equal. A text is a pointer to a place in a line.
- **A syntax error** is the statement `SyntaxError`: the compiler goes on with
  the next statement and takes everything back at the end.
- **Atomicity.** `Repl` compiles a line in one step and executes one instruction
  per step; `Session` scans a token or parses a statement per step, and scans
  the tokens of a line before it parses them. Nothing can run in between, so
  this loses no behaviour and shows every intermediate stack. In `SymbolTable`
  a call that grows the table is one step per slot.
- **Semantics** is not a model of code: it is what compiler and machine
  together are checked against, in the way `ScopedStack` is for `Stack`. `Repl`
  has it as the constant `MeaningOf`, so what is proved of sessions holds whatever
  lines mean. Where
  the language promises nothing (an operand no instruction accepts without
  aborting, a block with no statement) it is `stuck`.

A definition whose comment begins with *Mutant* is a plausible bug in the one
below it; no specification uses it. Each is there to show that a property fails
when the code is wrong in that way.

## 3. Runs

| run | question | bounds |
|---|---|---|
| `stack` | do pointers, values and scopes survive every sequence of operations and reallocations; is `ScopedStack` implemented | blocks of 2 cells growing to 4 and 8, 5 values, 2 scopes, 2 addresses |
| `bytecode` | are bytes and lines right after appends, patches, growth and rewinds in any order | a block of 4 bytes, 5 bytes of code, 2 lines |
| `compiler_flow` | does every path through the code of a line agree on stack and scopes | about 1,500 lines after each of 3 first lines |
| `repl` | does every session show what its lines mean and keep symbols and stack in step | 3 lines out of 24, 10 rounds of a loop in the meaning |
| `symbol_table` | does a name keep its symbol while the table grows, wraps around and collides | 4 lines out of 7, 7 names, 5 bits of hash, 4 slots growing to 16 |
| `tokenizer` | are the tokens of a line the ones a lexicon gives it, in whatever order they are peeked at and scanned | lines of up to 5 pieces of 5 alphabets, every beginning of every keyword and encoding with what may follow, then a second line |
| `parsing` | are exactly the programs accepted, is every token kept, does every operator bind as documented where a line has at most one assignment, is every error reported and got over | some 17,400 lines: every sequence of up to 4, 5 or 6 pieces of five alphabets, and chains of operators; any number of them in any order |
| `session` | does the text of a line mean what it shows, with all four stages keeping their state | 3 lines out of 14, 20 rounds of a loop in the meaning |
| `glibc_scopes`, `panic_slot`, `moved_code`, `failed_argument` | where the code does not do what its own comments, assertions and guides say (section 5) | the shortest session or line that shows it |

**Why the bounds are enough.** Growth of a block is the same computation at
every size: two growths with scopes open on both sides of each cover it, and
the proofs of section 4 remove the bound. A line run can be extended, split and
cut with two lines and five bytes. Three lines are a declaration, something
that goes wrong or loops, and a use: `SlotsMatchSymbols` and `ScopesBalance`
say that a line leaves the session as it found it but for its variables, so a
longer session adds no new kind of state. `compiler_flow` follows paths with an
abstract stack; its `MaxDepth` only stops a path that grows in every round of a
loop, which none does. It enumerates each statement form around each kind of
operand, declaration, break and continue, to a nesting of two loops. Two
growths of the symbol table with a collision, a wrap-around and a shared hash
are every case of the probe and of moving a slot. The tokenizer decides by the
character it is at and at most one more, but in words, which are tried cut short
at every place; the parser by one token and the precedence it is called with,
so so many tokens hold an operator of each side of an operand, a construct inside
another of every kind, and an error before, inside and behind one. Lines follow
one another because recovery and lookahead are what survives a line.

**Deadlock.** `stack`, `bytecode`, `tokenizer` and `parsing` are checked for it:
as long as nothing failed something can be done. `repl`, `compiler_flow`,
`symbol_table` and `session` stop after their last line, as a session does when
the user leaves; those that show an assertion failing stop there.

**Fairness.** `Repl` has `WF_vars(Step)` only: `Thread_run` is a loop that
executes the next instruction until it returns, and nothing can keep it from
it. Nobody has to enter a line. `LinesFinish` (a running line gets back to the
prompt) is about jumps: every loop of the programs ends by its meaning, so a
line that does not come back has jumped to a wrong place. In the same way
`SymbolTable` is fair to the steps of compiling a line (`LinesEnd`: no probe
runs around a full table), `Parsing` to parsing and recovering (`LinesAreRead`:
every round of the loop of `Compiler_compile` gets further in the line), and
`Session` to everything between a line and the next prompt (`PromptComesBack`).
The last two state the fairness without ENABLED, as "infinitely often at the
prompt or infinitely often a step": computing whether a recursive parser could
take a step is what TLC spends its time on otherwise. `Tokenizer` has no
liveness: whoever asks for tokens decides when to stop.

**The properties that say most.**
- `ShowsTheMeaning` compares what the prompt shows with the tree evaluated on
  its own: both branches, rounds, breaks with values out of several loops,
  chains evaluated once per operand, errors.
- `SlotsMatchSymbols`: at the prompt the stack holds exactly the variables the
  session gave, at the indexes the compiler will use, with the values the
  meaning gave them.
- `PathsAgree`, `OperandsAreThere`, `PathsReturnOneValue`: the invariant a
  bytecode verifier would check, over all paths and not only those taken.
- `PanicNamesItsLine`, `ErrorsLeaveNoTrace`, `NextLineRunsNext`: errors in the
  middle of a line, then more lines.
- `EarlierLinesStay`, `EveryScopeIsClosed`: no jump, break or short circuit is
  patched into the code of an earlier line, and what a line declares in a block
  is gone with it.
- `PointersFollowTheBlock`, `LiveCellsWritten`, `Implements`.
- `ParsesTheLanguage`, `TokensAreKept`, `OneAssignmentBindsAsDocumented`: the
  parser against a grammar written the other way round, for right and wrong
  lines. Of `=` below `=` the document says left and the code does right: those
  lines are in `parsing` for the other properties, and `OperatorsBindAsDocumented`,
  which has no such condition, fails of them (section 5).
- `ErrorsAreReported`, `ErrorsHideNoErrors`: what happens to the rest of the
  line, and to the blocks around it, when a statement does not parse.
- `Implements` of `Tokenizer` and `SymbolTable` (both proved in section 4): longest tokens over peeks, scans
  and new lines; one symbol per name over growth and collisions.
- `RightLinesAreRead`, `PromptComesBack`: the four stages together.

**What the programs of the passing runs keep clear of.** What is known to go
wrong has its own run, a line in section 5 or a note in `hazards`: loops that end
by their condition, panics after a declaration in the same line, blocks with no
statement, loops of exactly 226 bytes, code that crosses byte 256 below a jump,
chains with an operand of more than 255 bytes, assignments below an operator
(`1 + {x = 2; x}`), breaks outside a loop, in a `while`'s else or before a loop
inside of theirs, tests that are not booleans, and overflow; in `parsing`, lines
with a lone `!`, a call with an error in it that is itself an argument, a
condition or in a block, an error behind a `break with` in a block, and a
condition that is not closed; in `tokenizer` and `session`, encodings that are
unknown or cut short. Within those limits the properties hold.

## 4. Proofs

Four components are proved about, the operand stack, the symbol table, the
bytecode and the tokenizer, and what the compiler does to a session. Every
invariant and every refinement that the runs of those components check is a
theorem, but for `LinesEnd` of the symbol table, which is liveness; of the
properties of a session those are that hold for every program (see the end of the
section).

### The operand stack: `StackProofs`

For every initial size, every set of values, every set of addresses `realloc`
may choose and every platform:

| theorem | statement |
|---|---|
| `TypeCorrect` | `Spec => []TypeOK` |
| `PointersFollow` | `Spec => []PointersFollowTheBlock` |
| `LiveCells` | `Spec => []LiveCellsWritten` |
| `NeverFaults` | `RoomForScopes => (Spec => []NoFaults)` |
| `Refinement` | `Spec => Implements` |

The inductive invariant `IInv` says that the struct *holds* the values and marks
read off its pointers (`Holds`: the marks are nested, the
block is in use up to `top`, each scope pointer is the block plus its mark, the
scopes block has the room the platform gave it) and that, as long as nothing
failed, these are the values and marks the calls so far should have left. None
of the properties is inductive by itself: `PointersFollowTheBlock` says nothing
about the size of the block or the nesting of the marks, which `CloseScope` and
the growth of `Push` need. There is a lemma for each operation: it takes a
stack that represents some values and marks to the stack the operation leaves and
the values and marks that one represents; the step lemmas combine it with the
history variables, and the refinement follows because those values and marks
are the ones of the abstract action. `NeverFaults` needs `RoomForScopes`; the
`glibc_scopes` run shows what happens without it. `Refinement` does not: a scope
that cannot be opened ends the program and is a stutter of the abstract stack.

### The symbol table: `SymbolTableProofs`

For all names, hashes, lines, multipliers and first capacities:

| theorem | statement |
|---|---|
| `TypeCorrect` | `Spec => []TypeOK` |
| `TextsReadable` | `Spec => []TextsStayReadable` |
| `Reachable` | `Spec => []SymbolsAreReachable` |
| `OneSlot` | `Spec => []EverySymbolHasOneSlot` |
| `ProbesEnd` | while a name is looked up or a slot moved, the array has a free slot for the probe to end at |
| `Refinement` | `Spec => Implements`, one symbol per name, for ever |

Assumed are the names of `SymbolTableOps` and `SymbolTable`: a hash is a number
below `HashSpace`, `HashSpace` and the first capacity are powers of two (said
as what the proof uses: doubling a capacity that divides `HashSpace` gives one
that divides it, until it is reached), and there are fewer names than would
make the array as large as `HashSpace`, which is 2^64 in the code: more do not
fit in memory. Without the last two `getIndex` could leave the array.

The inductive invariant is `LinesOK` (where `main` and the compiler are in the
lines), `ArraysOK` (the arrays have as many slots as `getIndex` can reach; while
slots are moved the new one is twice the old), `NamesOK` (symbols and names
belong to each other one to one, and every text lies in a line that is kept),
`SlotsOK` (the symbols are the contents of the occupied slots of both arrays,
none twice) and `SymbolsAreReachable`. The last is what finding a name again
rests on, and is not inductive without the others: that a free slot ends a
probe says nothing of a symbol that still lies in the old array. The lemmas say
what a probe does: from the index of a hash every slot comes up within one
round (`AllSlotsCome`), the first slot that stops it is the one it ends at
(`ProbeFinds`), and putting something into that slot cuts off no other symbol
(`StaysReached`, `FirstFreeIsReached`). The array
grows before a probe that would find three quarters of it in use, which gives
the free slot of `ProbesEnd`, the safety half of `LinesEnd`.

### The bytecode: `ByteCodeLemmas`, `ByteCodeProofs`

For every set of bytes and lines and every initial capacity of at least 4, so
that one doubling makes room for the longest operand (the code starts with 256):

| theorem | statement |
|---|---|
| `TypeCorrect` | `Spec => []TypeOK` |
| `CodeIsKept` | `Spec => []CodeIsWhatWasEmitted` |
| `LinesAreRight` | `Spec => []LinesAreReported` |

The invariant is `BlockOK` (the bytes fit the block), `BytesOK` (the bytes are
those recorded, and the checkpoint is within them) and `Covers`: the runs
*cover* the bytes, that is, there is at least one, their lengths add up to the
number of bytes, and every byte between two sums has the line of the run. `LinesAreReported`
is not inductive: it says what `ByteCode_getLine` finds, and `ByteCode_rewind`
cuts the runs in the middle, or leaves none. The work is in the sums of runs
(`SumStep`, `SumsGrow`, `SumsAgree`), in which run is the first to reach a byte
(`FirstRunReaching`, `FirstRunPassing`), and in that appending
(`AddedBytesAreCovered`) and rewinding (`BytesLeftAreCovered`) keep the cover.

### The tokenizer: `TokenizerLemmas`, `TokenizerProofs`

For every set of lines without a NUL inside (`LinesAssumption`: a line is a C
string), of any length and of any characters:

| theorem | statement |
|---|---|
| `TypeCorrect` | `Spec => []TypeOK`: never past the NUL, and a line appended only where the last one was used up |
| `Refinement` | `Spec => Implements`: the tokens are the longest that `Lexicon` knows, with their types, texts and lines, however they are peeked at and scanned |
| `KnownNeverStops` | `KnownEncodings => (Spec => []NeverStops)`: no assertion fails where the lines have known encodings |

`KnownEncodings` says of the lines that no string in them has a letter or a
digit behind it and its longest encoding (`UnknownEncoding` of `Lexicon`), where
a string is one that begins a token, not any quote. It is no more than is needed:
such a text fails the assertion behind the `strncmp` calls of `Tokenizer_string`
(`'a'x`). `MCTokenizer` assumes it of its lines, so TLC evaluates it, and encodings
cut short are among them. Nothing else is asked of the lines.

The inductive invariant `IInv` is `Good(tokenizer)`: it *stands* in its line
(`Standing`: the position is one of the line or of its NUL), the lookahead is a
token and is the one returned, and the end of a line has been returned only at
its end. The argument has four parts.

1. *What the lexicon says* (`TokenizerLemmas`). The tables of keywords and signs
   of the tokenizer and those of `Lexicon` are the same. By the first character
   of a text, the longest token in front of it is a run of digits
   (`NumberIsLongest`), the longer of two signs (`SignIsLongest`), a word up to
   the first character that is not part of one (`WordIsLongest`), a string up to
   the first quote of its kind, whatever is in front of it, with its encoding
   (`StringIsLongest`), or none (`NoSign`, `OpenString`, `EndOfText`).
   `TokensOf` of `Lexicon` is a recursive function over texts; that there is one
   (`TokensOfText`) and that an endless stream goes on behind its first token
   (`EndlessGoesOn`) are lemmas too.
2. *What the tokenizer does*. Each function is shown to `Emit` that longest
   token, to `Return` the error or the end, or to `Stop` (an unknown encoding)
   without using anything up: `ScanningNumber`, `ScanningSign`, `ScanningKeyword`
   and `ScanningWord`, `ScanningEncoded` and `ScanningString`, and `Scanning` for
   `Tokenizer_scanInternal` with the whitespace in front (`SkippingSpace`, by
   induction over the characters skipped). The closing quote that the loop of
   `Tokenizer_string` finds is the first one that `Lexicon` admits by induction
   from the end of the line (`ClosingQuoteIs`).
3. *Steps*: `ScanStep`, `PeekStep` and `AppendStep` carry the above over the
   lookahead to what is left of the stream, which is the refinement.
4. *What stops it*. `EncodingsKnown` is a recursive function over texts as well
   (`KnownText`), and each of the lemmas above also says that it is kept for what
   is left of the line. Where no encoding fits, the text has an unknown one
   (`UnknownIs`), so a tokenizer stops only where it was not known. The invariant
   needed for `KnownNeverStops` is `GoesOn`: the tokenizer goes on, and what is left
   of the line has known encodings, wherever in the line it is.

### The lines of a session: `ReplProofs`

For every set of programs, that is, for any lines of any statements of the trees
of any nesting, syntax errors among them, every initial capacity of the code of
at least 4, wherever `realloc` moves it, and whatever lines mean and the machine
does:

| theorem | statement |
|---|---|
| `ScopesAreClosed` | `Spec => []EveryScopeIsClosed`: between lines the compiler is in no scope |
| `ErrorsAreTakenBack` | `Spec => ErrorsLeaveNoTrace`: a line with an error changes neither bytes, line runs, symbols nor the machine |
| `EarlierLinesAreKept` | `Spec => EarlierLinesStay`: the bytes of earlier lines, the lines they report and the variables they name by index stay |

The argument is about one relation. A compilation `d` *keeps* a compilation `c`
(`Keeps`) when the bytes of `c` below any place that lies before all breaks
remembered in `c` are those of `d`, and no break of `d` lies before that place
either; its line runs are those of `c` lengthened by the bytes added on this line;
its symbols begin with those of `c`, and the same scopes are open. `Within` is the
same with one scope more. A line begins with no breaks, so what keeps its
beginning keeps every byte of the lines before. The relation is transitive
(`KeepsOn`), so it is enough that every step of every case of `Compiler_emitNode`
keeps what it found. What could break it is what is written late: a jump operand
written through a pointer (`BackpatchKeeps`: the pointer was taken behind the
beginning, and when it went stale the write is lost, not written elsewhere),
breaks patched at the end of a loop (`PatchBreaksKeeps`, which may reach a break of
an outer loop but nothing before it), the low bytes of a chain
(`PatchLowBytesKeeps`), and a block, whose symbols are cut off again down to those
at its opening (`CloseScopeKeeps`). There is a lemma for each case (`LoopKeeps`,
`WhileKeeps`, `ComparisonKeeps`, `CallKeeps`, ...), stated for any emitters of the
nodes below that keep what they find; induction over the nesting (`EmittersKeep`, on
the set of nestings for which it holds) gives it for every tree (`NodeKeeps`), and
induction over the statements for every line (`StatementsKeep`).

A line that compiles is then kept with its return (`LineExtends`); one with an
error is cut back (`LineIsTakenBack`). The latter needs the inductive invariant
`IInv`, which is `SettledIn(compiler)`: between lines no scope is open, the line
runs add up to the bytes, and the last run is not empty. `ErrorsLeaveNoTrace` is not
inductive without it. `ByteCode_rewind` looks for the run that the byte count
falls into, and finds the last run of the earlier lines only if the lengths agree
with the bytes and that run holds a byte (`RewindFindsTheEnd`); a scope left open
by an earlier line would be closed by a later one, with symbols of the session.

### What the proofs lean on, and what stays with TLC

`NatLemmas` says induction, and that a recursive definition has a solution, of a
*set* of numbers or of functions rather than of an operator, so that the provers
can use it: the step is to define the set of the numbers for which the claim
holds. `TokensOf`, `EncodingsKnown`, the sums of line runs, the probe, the trees
and the compiler are functions (or least and greatest elements of sets) for that
reason, not `RECURSIVE` operators.

Only model-checked:

- Liveness: `LinesEnd`, `LinesFinish`, `LinesAreRead` and `PromptComesBack`.
- `PathsAgree`, `OperandsAreThere`, `PathsReturnOneValue` of
  `CompilerFlow` and `SlotsMatchSymbols`, `ScopesBalance`, `ShowsTheMeaning`,
  `NeverAborts`, `NextLineRunsNext`, `PanicNamesItsLine` and
  `ImmutablesNeverChange` of `Repl`: each is false of some program (section 5:
  loops left by their condition, empty blocks, breaks patched too early, panics
  after a declaration), or holds only because the machine stays on instructions,
  which those programs leave. A theorem would have to say which programs are
  meant, as a condition on trees as long as the compiler.
- The properties of `Parsing` and `Session`, and the meaning in `ShowsTheMeaning`:
  `Parser` and `Semantics` recurse over tokens and trees by operators declared
  `RECURSIVE`, which the provers cannot expand.

## 5. Where the code does not do what it says

Shown by a run:

| run | what happens | where |
|---|---|---|
| `glibc_scopes` | the scopes block has capacity 0 for ever; on glibc the second scope at the outermost level fails `assert(self->scopes != NULL)` | `stack.c:36-48` |
| `panic_slot` | a panic leaves symbols without values; using one fails the assertion of `stack.h:64` | `thread.h:22-27` |
| `moved_code` | a jump operand is patched through a pointer into code that has moved; `false and true` shows `true` | `compiler.c:531-534` |
| `failed_argument` | parentheses, calls and breaks return a tree although their operand panicked; `f(g(1+))` fails `assert(next == NULL)` | `parser.c:484`, `577` |

In the models too, but without a run of its own. The set in the third column is at
the end of an `MC` module: with it for `Programs`, `Lines` or `Texts` in that
module's `.cfg`, no check for deadlock and the property of the last column
alone, TLC shows how it fails.

| what happens | where | lines | property |
|---|---|---|---|
| `while` and `until` leave their scope by the condition without closing it | `compiler.c:613-657` | `MCRepl!WhileExits` | `ScopesBalance` |
| `{}` closes a scope with nothing to return and fails the assertion of `stack.c:61` | `compiler.c:330-344` | `MCRepl!EmptyBlock` | `NeverAborts` |
| `break` out of a `loop` lands on the operand of the jump back; in a loop of 226 bytes it reads as `OP_RETURN` | `compiler.c:569` | `MCRepl!LongLoop` | `NeverAborts` |
| the end of an inner loop patches a break of the outer one that stands before it | `compiler.c:53-74` | `MCCompilerFlow!BreakBeforeLoop` | `PathsAgree` |
| the short circuit of a chain of comparisons keeps only its low byte; past an operand of 257 bytes, `2 < 1 < ...` shows `true` | `compiler.c:325` | `MCRepl!LongChain` | `ShowsTheMeaning` |
| 257 comparisons write behind an array of 255; the message about 256 is never shown | `compiler.c:229-254` | `MCRepl!ManyComparisons` with `MaxNesting` 257, and `-Xss16m` for Java | `NeverAborts` |
| the literals of a line with an error are kept, and 256 are all there can be | `compiler.c:161`, `872` | `MCRepl!LostLiterals` | – (left out of `ErrorsLeaveNoTrace`) |
| `'abcdef'u` is accepted and shows `'abc'` | `compiler.c:129`, `tokenizer.c:103-109` | `MCSession!ShortSuffix` | `ShowsTheMeaning` |
| a lone `!` is never consumed; recovery hangs | `tokenizer.c:210-220` | `MCParsing!Bang` | `LinesAreRead` |
| `if(true 1` prints its error with the wrong arguments and crashes | `parser.c:270` | `MCParsing!UnclosedCondition` | `LinesAreRead` |
| `1 + ; 2 2;` reports one error of two | `parser.c:442` | `MCParsing!SwallowedSemicolon` | `EveryErrorIsReported` |
| `x = x = 1` is read as `x = (x = 1)`; `OPERATORS.md:23` has `=` associate to the left | `parser.c:83` | `MCParsing!TwoAssignments` | `OperatorsBindAsDocumented` |
| `if(true)` makes the end of the line a branch and fails the compiler's `assert(false)` | `parser.c:282` | `MCParsing!MissingBranch` | – (counted as not accepted) |

All were also seen in the program built from this source on Linux with glibc:
`glibc_scopes` in the program as it is, the others (where they need more than
one scope) with `stack.c:36-44` repaired so that it gets that far.

## 6. Not modelled, and why

- **Reading input**: `readline`, its history, the `\stack` command, and the end
  of the input, at which the loop of `main` asks for a line for ever.
- **Memory**: allocation failure, freeing and leaks of trees and literals.
- **What is printed**: `print`, `println`, messages and `\stack`.
- **FNV-1a** as arithmetic: a hash is any function of the name.
- **Limits that need very long input**: 256 literals, 65535 symbols, jumps over
  32767 bytes, which do not fit their `int16_t`. The models carry the limit
  where it is control (an abort, a truncated operand); no run reaches it.
- **UTF-32 and escapes**: a string with a backslash, with a character that is
  not ASCII, or with the encoding `utf32` is tokenized and parsed here, and fails
  an assertion of the compiler, which `Session` does not take it to.
- **Integer literals** that do not fit an `int32_t` reach the compiler model as
  trees of their own, not as digits.

## 7. Plan

1. Done: stack, bytecode, symbol list, values, compiler, machine, session,
   paths, meaning; tokenizer, parser, symbol table and the session of typed
   text.
2. Proved: stack, symbol table, bytecode and tokenizer, each with its
   refinement where it has an abstract specification; what a line keeps of the
   lines before it.
3. To prove next: that every jump of a line lands in that line, which needs of a
   tree that its breaks are inside loops; then `PathsAgree` for the trees without
   the constructs of section 5.
4. Further runs: several panics in a session and what a repaired
   `Thread_clearPanic` would have to restore, breaks outside loops, assignments
   below operators, what `print` writes and in which order.
