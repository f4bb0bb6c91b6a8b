------------------------------- MODULE Tokenizer -------------------------------
(***************************************************************************)
(* The tokenizer at work: the parser peeks at tokens and scans them in any *)
(* order it likes, and main appends a line once the end of the last one    *)
(* was seen (src/src/tokenizer.c, src/src/parser.c, src/src/main.c).       *)
(***************************************************************************)
EXTENDS TokenizerOps, Lexicon

CONSTANTS
  Lines,       \* the texts that may be entered first, sequences of characters
  LaterLines,  \* the texts that may be entered after that
  MaxLine      \* bound: the number of the last line

(* A line is a C string: it has no NUL but the one behind it.              *)
ASSUME LinesAssumption == Lines \cup LaterLines \subseteq Seq(STRING \ {NUL})

(* What is behind the closing quote of a string is an encoding, one that   *)
(* is cut short, or no letter and no digit.                                *)
KnownEncodings == \A text \in Lines \cup LaterLines : EncodingsKnown[text]

VARIABLE tokenizer

(* Parser_init of main: an empty source on line 0. Parser_appendLine peeks *)
(* at its end before the first line.                                       *)
Init == tokenizer = Tokenizer_init(<<>>, 0)

CanGoOn == tokenizer.stop = NotStopped

Scan == CanGoOn /\ tokenizer' = Tokenizer_scan(tokenizer)

Peek == CanGoOn /\ tokenizer' = Tokenizer_peek(tokenizer)

AppendLine ==
  /\ CanGoOn
  /\ tokenizer.token.type = "EOF" /\ tokenizer.token.line < MaxLine
  /\ \E text \in IF tokenizer.token.line = 0 THEN Lines ELSE LaterLines :
       tokenizer' = [Tokenizer_appendLine(tokenizer, text) EXCEPT !.token = NoToken]

Next == Scan \/ Peek \/ AppendLine

Spec == Init /\ [][Next]_tokenizer

-------------------------------------------------------------------------------
(* Whatever is cut short at the end of the line, the tokenizer never reads *)
(* past its NUL.                                                           *)
StaysInTheLine == tokenizer.current \in 1 .. Len(tokenizer.source) + 1

(* The shape of the tokenizer, that it stays in its line, and that a line  *)
(* is appended only where the last one was used up, as is asserted there:  *)
(* only an unknown encoding stops it.                                      *)
TypeOK ==
  /\ StaysInTheLine /\ tokenizer.line \in Nat
  /\ tokenizer.hasLookahead \in BOOLEAN
  /\ tokenizer.hasLookahead => tokenizer.token = tokenizer.lookahead
  /\ tokenizer.stop \in {NotStopped, "assert(false)"}

(* No line whose strings have a known encoding ends the program.           *)
NeverStops == CanGoOn

(* What is left of the line, and the lookahead in front of it, are the     *)
(* tokens that were promised; peeking, scanning and the next line do to    *)
(* them what they should.                                                  *)
Left ==
  LET t == tokenizer
      rest == TokensOf[SubSeq(t.source, t.current, Len(t.source))][t.line]
  IN Endless[IF t.hasLookahead THEN <<t.lookahead>> \o rest ELSE rest]

Promise == INSTANCE TokenStream WITH source <- tokenizer.source, stream <- Left, token <- tokenizer.token

(* The tokenizer keeps the promise of TokenStream.                         *)
Implements == Promise!Spec

===============================================================================
