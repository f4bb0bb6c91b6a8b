------------------------------ MODULE TokenStream ------------------------------
(***************************************************************************)
(* What the tokenizer promises the parser: the tokens of one line after    *)
(* another, whatever they are (Lexicon says it for the language).          *)
(***************************************************************************)
EXTENDS Naturals, TokenStreamOps

CONSTANT StreamOf(_, _)   \* the tokens of a text that begins on a line

VARIABLES
  source,   \* the line that was entered last
  stream,   \* the tokens that are left
  token     \* the one returned last

vars == <<source, stream, token>>

Init ==
  /\ source = <<>>
  /\ stream = StreamOf(source, 0)
  /\ token = NoToken

Scan == token' = Upcoming(stream) /\ stream' = Rest(stream) /\ UNCHANGED source

Peek == token' = Upcoming(stream) /\ UNCHANGED <<source, stream>>

(* A new line comes only once the end of the last one was returned.        *)
AppendLine ==
  /\ token.type = "EOF"
  /\ source' \in Seq(STRING) /\ stream' = StreamOf(source', token.line + 1)
  /\ token' = NoToken

Next == Scan \/ Peek \/ AppendLine

Spec == Init /\ [][Next]_vars
===============================================================================
