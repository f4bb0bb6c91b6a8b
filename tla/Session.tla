-------------------------------- MODULE Session --------------------------------
(***************************************************************************)
(* The whole program (src/src/main.c): what is typed at the prompt goes    *)
(* through tokenizer, parser, compiler and thread, each of which keeps its *)
(* state from line to line. Repl starts from the trees of a line; here     *)
(* they come from its text.                                                *)
(***************************************************************************)
EXTENDS Repl

LOCAL INSTANCE SequencesExt

T == INSTANCE TokenizerOps
P == INSTANCE Parser

CONSTANT Texts   \* what may be typed: a text, and the statements it is meant for

(* A line with an error is meant for nothing.                              *)
Nothing == <<SyntaxError>>

(* main keeps empty lines and those that begin with a backslash to itself. *)
ASSUME TextsAssumption ==
  \A typed \in Texts : typed.text # "" /\ SubSeq(typed.text, 1, 1) # "\\"

VARIABLES
  tokenizer,  \* the Tokenizer
  parser,     \* what else there is of the Parser
  typed,      \* the line being read
  tokens,     \* those scanned from it so far
  statements, \* and the trees parsed
  phase       \* "idle", "scanning" or "parsing"

reading == <<tokenizer, parser, typed, tokens, statements, phase>>

Untyped == [text |-> "", statements |-> <<>>]

SessionInit ==
  /\ Init
  /\ tokenizer = T!Tokenizer_init(<<>>, 0)
  /\ parser = P!Parser_init
  /\ typed = Untyped /\ tokens = <<>> /\ statements = <<>>
  /\ phase = "idle"

Chars(text) == [i \in 1 .. Len(text) |-> SubSeq(text, i, i)]
TextOf(chars) == FoldLeft(LAMBDA text, char : text \o char, "", chars)

(* Compiler_atomNodeToInteger, for what is short enough for an int32_t.    *)
IntegerOf(digits) ==
  FoldLeft(LAMBDA i, digit : 10 * i + CHOOSE d \in 0 .. 9 : ToString(d) = digit, 0, digits)

(* Compiler_emitUTF8 takes the text of a string from between its quotes.   *)
(* An encoding behind it is taken to be "utf8" in full.                    *)
SuffixLength(lexeme) == IF lexeme[Len(lexeme)] \in {"'", "\""} THEN 1 ELSE 5
Between(lexeme) == TextOf(SubSeq(lexeme, 2, Len(lexeme) - SuffixLength(lexeme)))

(* What the parser makes of a token, and the compiler of its text.         *)
AtomNode_new(token) ==
  CASE token.type = "INTEGER_LITERAL" -> Num(IntegerOf(token.lexeme))
    [] token.type = "NIL" -> Nil
    [] token.type \in {"TRUE", "FALSE"} -> Bool(token.type = "TRUE")
    [] token.type = "SYMBOL" -> Sym(TextOf(token.lexeme))
    [] token.type = "UTF8_LITERAL" -> Str(Between(token.lexeme))
    [] OTHER -> [type |-> token.type]

-------------------------------------------------------------------------------
(* The tokens of a line are scanned and then parsed: the parser cannot     *)
(* tell that from scanning them one by one as it goes.                     *)

(* Where an assertion of tokenizer or parser fails the program ends.       *)
GoOnUnless(stopped) == mode' = IF stopped THEN "aborted" ELSE mode

Type(line) ==
  /\ phase = "idle" /\ mode = "prompt" /\ compiler.line < MaxLines
  /\ typed' = line
  /\ tokenizer' = T!Tokenizer_appendLine(tokenizer, Chars(line.text))
  /\ phase' = "scanning"
  /\ GoOnUnless(tokenizer'.stop # T!NotStopped)
  /\ UNCHANGED <<parser, tokens, statements, compiler, thread, meaning>>

(* A token that is still there once it was scanned is the last.            *)
ScanToken ==
  /\ phase = "scanning" /\ mode = "prompt"
  /\ \E next \in {T!Tokenizer_peek(tokenizer)} : \E passed \in {T!Tokenizer_scan(next)} :
       IF next = T!Tokenizer_peek(passed)
       THEN /\ tokenizer' = next
            /\ parser' = P!Parser_appendLine(parser, tokens, AtomNode_new(next.token))
            /\ tokens' = <<>>
            /\ phase' = "parsing"
       ELSE /\ tokenizer' = passed
            /\ tokens' = Append(tokens, AtomNode_new(next.token))
            /\ UNCHANGED <<parser, phase>>
  /\ GoOnUnless(tokenizer'.stop # T!NotStopped \/ parser'.stop # P!NotStopped)
  /\ UNCHANGED <<typed, statements, compiler, thread, meaning>>

(* A round of the loop of Compiler_compile: a statement, or an error and   *)
(* the recovery from it.                                                   *)
ParseStatement ==
  /\ phase = "parsing" /\ mode = "prompt"
  /\ \E parsed \in {P!NextStatement(parser)} :
       /\ parsed.node # EndOfFile
       /\ parser' = IF parsed.panic THEN P!Parser_clearPanic(parsed) ELSE parsed
       /\ statements' = Append(statements, IF parsed.panic THEN SyntaxError ELSE parsed.node)
  /\ GoOnUnless(parser'.stop # P!NotStopped)
  /\ UNCHANGED <<tokenizer, typed, tokens, phase, compiler, thread, meaning>>

(* The line is read. It is compiled, and run if there was no error.        *)
FinishLine ==
  /\ phase = "parsing" /\ mode = "prompt"
  /\ \E parsed \in {P!NextStatement(parser)} :
       /\ parsed.node = EndOfFile
       /\ parser' = [parsed EXCEPT !.node = NULL, !.errors = 0]
  /\ CompileAndRun(statements, typed.statements)
  /\ typed' = Untyped /\ statements' = <<>>
  /\ phase' = "idle"
  /\ UNCHANGED <<tokenizer, tokens>>

Run == Step /\ UNCHANGED reading

Work == ScanToken \/ ParseStatement \/ FinishLine \/ Run

SessionNext == Work \/ \E line \in Texts : Type(line)

sessionVars == <<compiler, thread, mode, meaning, tokenizer, parser, typed, tokens, statements, phase>>

AtPrompt == phase = "idle" /\ mode = "prompt"

(* Nothing keeps the program from going on with a line, unless an          *)
(* assertion failed; nobody has to type another. This is                   *)
(* WF_sessionVars(Work) with its ENABLED written out.                      *)
SessionSpec ==
  /\ SessionInit /\ [][SessionNext]_sessionVars
  /\ []<>(AtPrompt \/ mode = "aborted") \/ []<><<Work>>_sessionVars

-------------------------------------------------------------------------------
(* A line is taken for one with an error if it is meant for nothing, and   *)
(* only then: no word is mistaken for a keyword, no encoding, no operator  *)
(* and no lookahead of the line before stands in the way.                  *)
RightLinesAreRead ==
  [][phase = "parsing" /\ phase' = "idle" =>
       (SyntaxError \in {statements[i] : i \in DOMAIN statements} <=> typed.statements = Nothing)]_sessionVars

(* A line that was typed is scanned, parsed, compiled and run to its end,  *)
(* and the prompt comes back.                                              *)
PromptComesBack == phase # "idle" ~> AtPrompt

===============================================================================
