---------------------------- MODULE TokenStreamOps ----------------------------
(***************************************************************************)
(* What the parser sees of the tokenizer: the tokens that are left of the  *)
(* line, and the one that is returned again and again once they are used   *)
(* up: TOKEN_EOF, or the TOKEN_ERROR of a character that is never          *)
(* consumed. Peeking changes nothing.                                      *)
(***************************************************************************)
EXTENDS Sequences

Stream(tokens, last) == [tokens |-> tokens, last |-> last]

(* Tokenizer_peek                                                          *)
Upcoming(stream) == IF stream.tokens = <<>> THEN stream.last ELSE Head(stream.tokens)

(* What Tokenizer_scan leaves.                                             *)
Rest(stream) ==
  IF stream.tokens = <<>> THEN stream ELSE [stream EXCEPT !.tokens = Tail(@)]

(* NO_TOKEN, before anything was returned.                                 *)
NoToken == [type |-> "NO_TOKEN", lexeme |-> <<>>, line |-> 0]

===============================================================================
