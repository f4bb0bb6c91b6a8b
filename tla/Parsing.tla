-------------------------------- MODULE Parsing --------------------------------
(***************************************************************************)
(* One line after another is given to the parser and read statement by     *)
(* statement, with recovery from every error, the way Compiler_compile     *)
(* does it (src/src/compiler.c, src/src/parser.c).                         *)
(***************************************************************************)
EXTENDS Parser, Grammar

LOCAL INSTANCE SequencesExt
LOCAL INSTANCE FiniteSetsExt

CONSTANT Lines   \* the lines that may be entered: the tokens of each, and the one that comes for ever

VARIABLES
  parser,      \* the Parser
  line,        \* the tokens of the line
  statements,  \* the trees read from it so far
  hasErrors,   \* Compiler.hasErrors: one of its statements had none
  mode         \* "prompt", "parsing", "recovering" from a panic, or "read" to the end

vars == <<parser, line, statements, hasErrors, mode>>

Init ==
  /\ parser = Parser_init
  /\ line = <<>>
  /\ statements = <<>>
  /\ hasErrors = FALSE
  /\ mode = "prompt"

CanGoOn == parser.stop = NotStopped

Enter ==
  /\ mode = "prompt" /\ CanGoOn
  /\ \E entered \in Lines :
       /\ line' = entered.tokens
       /\ parser' = Parser_appendLine(parser, entered.tokens, entered.last)
  /\ hasErrors' = FALSE
  /\ mode' = "parsing"
  /\ UNCHANGED statements

(* A round of the loop of Compiler_compile that finds no error.            *)
ParseStatement ==
  /\ mode = "parsing" /\ CanGoOn
  /\ parser' = NextStatement(parser)
  /\ ~ parser'.panic
  /\ mode' = IF parser'.node = EndOfFile THEN "read" ELSE mode
  /\ statements' = IF parser'.node \in {EndOfFile, NULL} THEN statements ELSE Append(statements, parser'.node)
  /\ UNCHANGED <<line, hasErrors>>

(* A round that finds one, up to the recovery ...                          *)
FindError ==
  /\ mode = "parsing" /\ CanGoOn
  /\ parser' = NextStatement(parser)
  /\ parser'.panic
  /\ hasErrors' = TRUE
  /\ mode' = IF parser'.stop = NotStopped THEN "recovering" ELSE mode
  /\ UNCHANGED <<line, statements>>

(* ... and its end.                                                        *)
Recover ==
  /\ mode = "recovering" /\ CanGoOn
  /\ parser' = Parser_clearPanic(parser)
  /\ mode' = IF parser'.stop = NotStopped THEN "parsing" ELSE mode
  /\ UNCHANGED <<line, statements, hasErrors>>

(* Back to main. What is kept of the line is forgotten.                    *)
Finish ==
  /\ mode = "read"
  /\ parser' = [parser EXCEPT !.errors = 0, !.node = NULL]
  /\ line' = <<>>
  /\ statements' = <<>>
  /\ hasErrors' = FALSE
  /\ mode' = "prompt"

Next == Enter \/ ParseStatement \/ FindError \/ Recover \/ Finish

(* Compiler_compile goes on until it has read the line; nobody has to      *)
(* enter another. This is WF_vars(Compiling) with its ENABLED written out. *)
Compiling == ParseStatement \/ FindError \/ Recover \/ Finish
Waiting == mode = "prompt" \/ ~ CanGoOn
Spec ==
  /\ Init /\ [][Next]_vars
  /\ []<>Waiting \/ []<><<Compiling>>_vars

-------------------------------------------------------------------------------
Accepted == parser.errors = 0

(* The end of the line stands where a branch should.                       *)
Dangling == EndOfFile \in Range(TokensOfAll(statements))

(* A line is read without an error exactly when it is a program, however   *)
(* its blocks, branches, calls and semicolons are nested.                  *)
ParsesTheLanguage == mode = "read" => ((Accepted /\ ~ Dangling) <=> IsProgram(line))

(* As long as there is no error, the trees and what is left of the line    *)
(* are the line: no token is dropped, doubled or moved.                    *)
TokensAreKept ==
  mode \in {"parsing", "read"} /\ Accepted /\ ~ Dangling =>
    TokensOfAll(statements) \o SelectSeq(parser.stream.tokens, LAMBDA t : t \notin Separators) =
      SelectSeq(line, LAMBDA t : t \notin Separators)

(* The operators of every tree bind as the table of OPERATORS.md says:     *)
(* by its order, and all that stand between operands to the left. The      *)
(* parser takes one assignment as the value of another, to the right.      *)
OperatorsBindAsDocumented ==
  \A i \in DOMAIN statements : Binds(statements[i], Loosest)

(* They do wherever the side of assignment does not matter: in every line  *)
(* with at most one of them.                                               *)
OneAssignmentBindsAsDocumented ==
  Cardinality({i \in DOMAIN line : line[i] = Token("EQUALS")}) <= 1 => OperatorsBindAsDocumented

(* Whenever an error is printed the compiler learns of it, and when it is  *)
(* told of one an error was printed.                                       *)
ErrorsAreReported == CanGoOn => (hasErrors <=> ~ Accepted)

(* Where the statements of a line of operators and atoms end, each with    *)
(* its semicolon if it has one.                                            *)
Ending(i) == i = 0 \/ i = Len(line) \/ line[i] = Token("SEMICOLON")
Single(segment) ==
  \A i \in DOMAIN segment : segment[i] = Token("SEMICOLON") => i = Len(segment)
OfOperators ==
  \A i \in DOMAIN line : line[i].type \in AtomTypes \cup {"SEMICOLON"} \/ line[i] \in InfixOperators

(* How many of them have an error. *)
Mistakes ==
  Cardinality({i \in 0 .. Len(line) - 1 :
    /\ Ending(i)
    /\ \E j \in i + 1 .. Len(line) :
         Ending(j) /\ Single(SubSeq(line, i + 1, j)) /\ ~ IsProgram(SubSeq(line, i + 1, j))})

(* Every statement with an error gets an error of its own: recovery stops  *)
(* behind the semicolon of the statement it began in.                      *)
EveryErrorIsReported == mode = "read" /\ OfOperators => parser.errors >= Mistakes

(* The same where no operand is missing before a semicolon.                *)
ErrorsHideNoErrors ==
  (\A i \in DOMAIN line : line[i] = Token("SEMICOLON") => i > 1 /\ line[i - 1].type \in AtomTypes)
    => EveryErrorIsReported

(* The compiler gets to the end of every line: no line ends the program or *)
(* keeps it for ever.                                                      *)
LinesAreRead == mode # "prompt" ~> mode = "prompt"

(* A call that panics returns NULL, as the caller asserts:                 *)
(* "assert(next == NULL)".                                                 *)
FailedCallsReturnNULL == parser.stop # "assert(next == NULL)"

===============================================================================
