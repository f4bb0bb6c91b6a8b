------------------------------ MODULE Characters ------------------------------
(***************************************************************************)
(* Names for the characters that are punctuation of TLA+ as well. The      *)
(* others stand for themselves, as strings of length one.                  *)
(***************************************************************************)
Blank == " "
Comma == ","
Semicolon == ";"
OpenBrace == "{"
CloseBrace == "}"
DoubleQuote == "\""
===============================================================================
