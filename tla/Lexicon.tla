-------------------------------- MODULE Lexicon --------------------------------
(***************************************************************************)
(* What the tokenizer should do, said without scanning: which texts are    *)
(* tokens, and the tokens of a line. A text is a sequence of characters.   *)
(***************************************************************************)
EXTENDS Naturals, Characters, TokenStreamOps

LOCAL INSTANCE SequencesExt
LOCAL INSTANCE FiniteSetsExt

Lower == {"a", "b", "c", "d", "e", "f", "g", "h", "i", "j", "k", "l", "m",
          "n", "o", "p", "q", "r", "s", "t", "u", "v", "w", "x", "y", "z"}
Upper == {"A", "B", "C", "D", "E", "F", "G", "H", "I", "J", "K", "L", "M",
          "N", "O", "P", "Q", "R", "S", "T", "U", "V", "W", "X", "Y", "Z"}
Digit == {"0", "1", "2", "3", "4", "5", "6", "7", "8", "9"}
Space == {Blank, "\t", "\r", "\n"}
Quotes == {"'", DoubleQuote}

Signs ==
  { <<"SEMICOLON", <<Semicolon>>>>, <<"COMMA", <<Comma>>>>, <<"PLUS", <<"+">>>>, <<"MINUS", <<"-">>>>,
    <<"ASTERISK", <<"*">>>>, <<"SLASH_SLASH", <<"/", "/">>>>, <<"LESS_THAN", <<"<">>>>,
    <<"LESS_THAN_EQUALS", <<"<", "=">>>>, <<"GREATER_THAN", <<">">>>>,
    <<"GREATER_THAN_EQUALS", <<">", "=">>>>, <<"EQUALS", <<"=">>>>, <<"EQUALS_EQUALS", <<"=", "=">>>>,
    <<"BANG_EQUALS", <<"!", "=">>>>, <<"OPEN_PAREN", <<"(">>>>, <<"CLOSE_PAREN", <<")">>>>,
    <<"OPEN_BRACE", <<OpenBrace>>>>, <<"CLOSE_BRACE", <<CloseBrace>>>> }

ReservedWords ==
  { <<"AND", <<"a", "n", "d">>>>, <<"BREAK", <<"b", "r", "e", "a", "k">>>>,
    <<"CONTINUE", <<"c", "o", "n", "t", "i", "n", "u", "e">>>>, <<"ELSE", <<"e", "l", "s", "e">>>>,
    <<"FALSE", <<"f", "a", "l", "s", "e">>>>, <<"IF", <<"i", "f">>>>, <<"LOOP", <<"l", "o", "o", "p">>>>,
    <<"MUT", <<"m", "u", "t">>>>, <<"NIL", <<"n", "i", "l">>>>, <<"NOT", <<"n", "o", "t">>>>,
    <<"OR", <<"o", "r">>>>, <<"TRUE", <<"t", "r", "u", "e">>>>, <<"UNTIL", <<"u", "n", "t", "i", "l">>>>,
    <<"WHILE", <<"w", "h", "i", "l", "e">>>>, <<"WITH", <<"w", "i", "t", "h">>>> }

Spellings == Signs \cup ReservedWords

EncodingNames ==
  { <<"CODE_POINT_LITERAL", <<"c", "h">>>>, <<"UTF8_LITERAL", <<"u", "t", "f", "8">>>>,
    <<"UTF32_LITERAL", <<"u", "t", "f", "3", "2">>>> }

(* A string with the length of its encoding behind the closing quote. An   *)
(* encoding may be cut short, and "u", "ut" and "utf" stand for utf8.      *)
IsString(text, type) ==
  /\ Len(text) > 1 /\ text[1] \in Quotes
  /\ \E closing \in 2 .. Len(text) :
       /\ text[closing] = text[1]
       /\ \A i \in 2 .. closing - 1 : text[i] # text[1]
       /\ LET suffix == SubSeq(text, closing + 1, Len(text))
          IN \/ suffix = <<>> /\ type = "UTF8_LITERAL"
             \/ /\ suffix # <<>>
                /\ \E encoding \in EncodingNames : encoding[1] = type /\ IsPrefix(suffix, encoding[2])
                /\ type = "UTF32_LITERAL" => Len(suffix) > 3

IsWord(text) == text[1] \in Lower \cup Upper /\ ToSet(text) \subseteq Lower \cup Upper \cup Digit

(* The type of a token, or none.                                           *)
TypesOf(text) ==
  {entry[1] : entry \in {e \in Spellings : e[2] = text}}
    \cup {type \in {"INTEGER_LITERAL"} : ToSet(text) \subseteq Digit}
    \cup {type \in {"SYMBOL"} : IsWord(text) /\ \A word \in ReservedWords : text # word[2]}
    \cup {type \in {"CODE_POINT_LITERAL", "UTF8_LITERAL", "UTF32_LITERAL"} : IsString(text, type)}

-------------------------------------------------------------------------------
(* Tokens that are not in the line: of its end, and of characters that     *)
(* begin no token.                                                         *)
Unwritten(type, line) == [type |-> type, lexeme |-> <<>>, line |-> line]

TokenTypes ==
  {entry[1] : entry \in Spellings \cup EncodingNames} \cup {"INTEGER_LITERAL", "SYMBOL", "EOF", "ERROR"}

Tokens == [type : TokenTypes, lexeme : Seq(STRING), line : Nat]

(* How long the tokens at the front of a text are, and the longest one.    *)
Lengths(text) == {n \in DOMAIN text : TypesOf(SubSeq(text, 1, n)) # {}}

LongestToken(text, line) ==
  LET lexeme == SubSeq(text, 1, Max(Lengths(text)))
  IN [type |-> CHOOSE type \in TypesOf(lexeme) : TRUE, lexeme |-> lexeme, line |-> line]

(* The end of the line, and a "!" without "=", are never passed.           *)
IsLast(text) == text = <<>> \/ (text[1] = "!" /\ Lengths(text) = {})

(* How much of a text its front takes, and the tokens it is. A string that *)
(* is not closed takes the rest with it, and any other character that      *)
(* begins no token is an error of its own.                                 *)
Taken(text) ==
  IF text[1] \in Space THEN 1
  ELSE IF Lengths(text) # {} THEN Max(Lengths(text))
  ELSE IF text[1] \in Quotes THEN Len(text) ELSE 1

TokensInFront(text, line) ==
  IF text = <<>> THEN <<Unwritten("EOF", line)>>
  ELSE IF text[1] \in Space THEN <<>>
  ELSE IF Lengths(text) # {} THEN <<LongestToken(text, line)>> ELSE <<Unwritten("ERROR", line)>>

Behind(text) == SubSeq(text, Taken(text) + 1, Len(text))

LineBehind(text, line) == IF text[1] = "\n" THEN line + 1 ELSE line

(* The tokens of a text that begins on a line, the last of them the one    *)
(* that is returned for ever.                                              *)
TokensOf[text \in Seq(STRING)] ==
  [line \in Nat |->
     IF IsLast(text) THEN TokensInFront(text, line)
     ELSE TokensInFront(text, line) \o TokensOf[Behind(text)][LineBehind(text, line)]]

(* A letter or a digit directly behind a string and the longest encoding   *)
(* of it: there is no encoding of that name.                               *)
UnknownEncoding(text) ==
  /\ text[1] \in Quotes /\ Lengths(text) # {}
  /\ Max(Lengths(text)) < Len(text)
  /\ text[Max(Lengths(text)) + 1] \in Lower \cup Upper \cup Digit

(* No string of the text has an unknown encoding.                          *)
EncodingsKnown[text \in Seq(STRING)] ==
  \/ IsLast(text)
  \/ ~ UnknownEncoding(text) /\ EncodingsKnown[Behind(text)]

(* The stream of these tokens, the last of them for ever.                  *)
Endless[tokens \in Seq(Tokens)] ==
  LET last == tokens[Len(tokens)]
      others == {i \in DOMAIN tokens : tokens[i] # last}
  IN Stream(IF others = {} THEN <<>> ELSE SubSeq(tokens, 1, Max(others)), last)

StreamOf(text, line) == Endless[TokensOf[text][line]]

===============================================================================
