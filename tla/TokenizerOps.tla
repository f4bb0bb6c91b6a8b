----------------------------- MODULE TokenizerOps -----------------------------
(***************************************************************************)
(* The tokenizer (src/src/tokenizer.c): one operator per C function, from  *)
(* a tokenizer to the tokenizer it leaves:                                 *)
(*   source, current   the line and the place in it                        *)
(*   line              its number                                          *)
(*   lookahead, hasLookahead   the token that was peeked at                *)
(*   token             what the function returned                          *)
(*   stop              the assertion that failed; nothing happens after it *)
(* A line is a sequence of characters, strings of length one, with a NUL   *)
(* behind it. A pointer into it is an index.                               *)
(***************************************************************************)
EXTENDS Naturals, FiniteSets, Characters, TokenStreamOps

LOCAL INSTANCE SequencesExt
LOCAL INSTANCE FiniteSetsExt

NotStopped == "none"

NUL == "NUL"

Digits == {"0", "1", "2", "3", "4", "5", "6", "7", "8", "9"}

Letters ==
  {"a", "b", "c", "d", "e", "f", "g", "h", "i", "j", "k", "l", "m",
   "n", "o", "p", "q", "r", "s", "t", "u", "v", "w", "x", "y", "z",
   "A", "B", "C", "D", "E", "F", "G", "H", "I", "J", "K", "L", "M",
   "N", "O", "P", "Q", "R", "S", "T", "U", "V", "W", "X", "Y", "Z"}

Whitespace == {"\n", Blank, "\t", "\r"}

(* isSymbolChar                                                            *)
SymbolChars == Letters \cup Digits

Token(type, lexeme, line) == [type |-> type, lexeme |-> lexeme, line |-> line]

Tokenizer_init(source, startLine) ==
  [source |-> source, current |-> 1, line |-> startLine, lookahead |-> NoToken, hasLookahead |-> FALSE,
   token |-> NoToken, stop |-> NotStopped]

CharAt(t, i) == IF i \in DOMAIN t.source THEN t.source[i] ELSE NUL

(* The first place from i on that has none of the characters.              *)
Past(t, i, chars) == Min({j \in i .. Len(t.source) + 1 : CharAt(t, j) \notin chars})

(* Return the token from first up to current, or one with a message, the   *)
(* text of which is left out.                                              *)
ReturnLexeme(t, type, first) ==
  [t EXCEPT !.token = Token(type, SubSeq(t.source, first, t.current - 1), t.line)]
ReturnMessage(t, type) == [t EXCEPT !.token = Token(type, <<>>, t.line)]

Advance(t, n) == [t EXCEPT !.current = @ + n]

Tokenizer_consume(t, type, length) == ReturnLexeme(Advance(t, length), type, t.current)

Newlines(t, i, j) == {k \in i .. j : CharAt(t, k) = "\n"}

Tokenizer_handleWhitespace(t) ==
  LET next == Past(t, t.current, Whitespace)
  IN [t EXCEPT !.current = next,
               !.line = @ + Cardinality(Newlines(t, t.current, next - 1))]

Tokenizer_completeSymbol(t, first) ==
  ReturnLexeme([t EXCEPT !.current = Past(t, t.current, SymbolChars)], "SYMBOL", first)

(* How much of the suffix of a keyword is there.                           *)
Matching(t, suffix) ==
  Max({n \in 0 .. Len(suffix) : \A i \in 1 .. n : CharAt(t, t.current + i - 1) = suffix[i]})

(* Mutant: a keyword may go on as a symbol.                                *)
Tokenizer_keyword(t, first, suffix, type) ==
  LET n == Matching(t, suffix)
      next == Advance(t, n)
  IN IF n = Len(suffix) THEN ReturnLexeme(next, type, first) ELSE Tokenizer_completeSymbol(next, first)

Tokenizer_keywordOrSymbol(t, first, suffix, type) ==
  LET n == Matching(t, suffix)
      next == Advance(t, n)
  IN IF n < Len(suffix) THEN Tokenizer_completeSymbol(next, first)
     ELSE IF CharAt(next, next.current) \in SymbolChars
     THEN Tokenizer_completeSymbol(Advance(next, 1), first)
     ELSE ReturnLexeme(next, type, first)

-------------------------------------------------------------------------------
(* The suffix of a string, compared by strncmp up to the length of what is *)
(* in the line: any beginning of the name of an encoding will do.          *)
Encodings ==
  << [name |-> <<"c", "h">>, type |-> "CODE_POINT_LITERAL"],
     [name |-> <<"u", "t", "f", "8">>, type |-> "UTF8_LITERAL"],
     [name |-> <<"u", "t", "f", "3", "2">>, type |-> "UTF32_LITERAL"] >>

(* Mutant: strcmp in place of strncmp.                                     *)
FitsExactly(suffix, name) == suffix = name

Fits(suffix, name) == IsPrefix(suffix, name)

(* Behind the closing quote: the encoding and the token.                   *)
EncodedString(t, first) ==
  LET next == [t EXCEPT !.current = Past(t, t.current, SymbolChars)]
      suffix == SubSeq(t.source, t.current, next.current - 1)
      fitting == {i \in DOMAIN Encodings : Fits(suffix, Encodings[i].name)}
  IN IF suffix = <<>> THEN ReturnLexeme(next, "UTF8_LITERAL", first)
     ELSE IF fitting # {} THEN ReturnLexeme(next, Encodings[Min(fitting)].type, first)
     ELSE [t EXCEPT !.current = first, !.stop = "assert(false)"]

(* The place of the closing quote, or of the NUL if there is none. A       *)
(* backslash keeps no quote from closing the string.                       *)
ClosingQuote(t) ==
  LET open == CharAt(t, t.current)
      from[i \in t.current + 1 .. Len(t.source) + 1] ==
        CASE CharAt(t, i) \in {open, NUL} -> i
          [] CharAt(t, i) = "\\" /\ CharAt(t, i + 1) \in {"0", "n", "t"} -> from[i + 2]
          [] OTHER -> from[i + 1]
  IN from[t.current + 1]

(* Mutant: the NUL is consumed like a closing quote.                       *)
Tokenizer_stringPastNUL(t) ==
  LET next == [t EXCEPT !.current = ClosingQuote(t) + 1]
  IN IF CharAt(t, next.current - 1) = NUL THEN ReturnMessage(next, "ERROR") ELSE EncodedString(next, t.current)

Tokenizer_string(t) ==
  LET closing == ClosingQuote(t)
  IN IF CharAt(t, closing) = NUL THEN ReturnMessage([t EXCEPT !.current = closing], "ERROR")
     ELSE EncodedString([t EXCEPT !.current = closing + 1], t.current)

-------------------------------------------------------------------------------
(* The tokens of one character, those that an "=" behind them changes, and *)
(* the keywords by their first characters.                                 *)

Single ==
  [char \in {Semicolon, Comma, "+", "-", "*", "(", ")", OpenBrace, CloseBrace} |->
     CASE char = Semicolon -> "SEMICOLON" [] char = Comma -> "COMMA" [] char = "+" -> "PLUS"
       [] char = "-" -> "MINUS" [] char = "*" -> "ASTERISK" [] char = "(" -> "OPEN_PAREN"
       [] char = ")" -> "CLOSE_PAREN" [] char = OpenBrace -> "OPEN_BRACE"
       [] char = CloseBrace -> "CLOSE_BRACE"]

WithEquals ==
  [char \in {"<", ">", "="} |->
     CASE char = "<" -> <<"LESS_THAN", "LESS_THAN_EQUALS">>
       [] char = ">" -> <<"GREATER_THAN", "GREATER_THAN_EQUALS">>
       [] char = "=" -> <<"EQUALS", "EQUALS_EQUALS">>]

Keyword(start, suffix, type) == [start |-> start, suffix |-> suffix, type |-> type]

Keywords ==
  { Keyword(<<"a">>, <<"n", "d">>, "AND"),
    Keyword(<<"b">>, <<"r", "e", "a", "k">>, "BREAK"),
    Keyword(<<"c">>, <<"o", "n", "t", "i", "n", "u", "e">>, "CONTINUE"),
    Keyword(<<"e">>, <<"l", "s", "e">>, "ELSE"),
    Keyword(<<"f">>, <<"a", "l", "s", "e">>, "FALSE"),
    Keyword(<<"i">>, <<"f">>, "IF"),
    Keyword(<<"l">>, <<"o", "o", "p">>, "LOOP"),
    Keyword(<<"m">>, <<"u", "t">>, "MUT"),
    Keyword(<<"n", "i">>, <<"l">>, "NIL"),
    Keyword(<<"n", "o">>, <<"t">>, "NOT"),
    Keyword(<<"o">>, <<"r">>, "OR"),
    Keyword(<<"t">>, <<"r", "u", "e">>, "TRUE"),
    Keyword(<<"u">>, <<"n", "t", "i", "l">>, "UNTIL"),
    Keyword(<<"w", "h">>, <<"i", "l", "e">>, "WHILE"),
    Keyword(<<"w", "i">>, <<"t", "h">>, "WITH") }

(* A token that begins with a letter.                                      *)
ScanWord(t) ==
  LET starting == {k \in Keywords : \A i \in DOMAIN k.start : CharAt(t, t.current + i - 1) = k.start[i]}
      keyword == CHOOSE k \in starting : TRUE
  IN IF starting = {} THEN Tokenizer_completeSymbol(Advance(t, 1), t.current)
     ELSE Tokenizer_keywordOrSymbol(Advance(t, Len(keyword.start)), t.current, keyword.suffix, keyword.type)

(* A token that is none of the line's words, numbers and strings. A "!"    *)
(* without "=" stays where it is.                                          *)
ScanSign(t) ==
  LET char == CharAt(t, t.current)
      next == CharAt(t, t.current + 1)
  IN CASE char = NUL -> ReturnMessage(t, "EOF")
       [] char \in DOMAIN Single -> Tokenizer_consume(t, Single[char], 1)
       [] char \in DOMAIN WithEquals ->
            IF next = "=" THEN Tokenizer_consume(t, WithEquals[char][2], 2)
            ELSE Tokenizer_consume(t, WithEquals[char][1], 1)
       [] char = "/" /\ next = "/" -> Tokenizer_consume(t, "SLASH_SLASH", 2)
       [] char = "!" /\ next = "=" -> Tokenizer_consume(t, "BANG_EQUALS", 2)
       [] char = "!" /\ next # "=" -> ReturnMessage(t, "ERROR")
       [] OTHER -> ReturnMessage(Advance(t, 1), "ERROR")

Tokenizer_scanInternal(tokenizer) ==
  LET t == Tokenizer_handleWhitespace(tokenizer)
      char == CharAt(t, t.current)
  IN CASE char \in Digits -> ReturnLexeme([t EXCEPT !.current = Past(t, t.current, Digits)], "INTEGER_LITERAL", t.current)
       [] char \in Letters -> ScanWord(t)
       [] char \in {"'", DoubleQuote} -> Tokenizer_string(t)
       [] OTHER -> ScanSign(t)

-------------------------------------------------------------------------------
Tokenizer_scan(t) ==
  IF t.hasLookahead THEN [t EXCEPT !.token = t.lookahead, !.hasLookahead = FALSE]
  ELSE Tokenizer_scanInternal(t)

Tokenizer_peek(t) ==
  IF t.hasLookahead THEN [t EXCEPT !.token = t.lookahead]
  ELSE LET next == Tokenizer_scanInternal(t)
       IN IF next.stop # NotStopped THEN next
          ELSE [next EXCEPT !.lookahead = next.token, !.hasLookahead = TRUE]

(* Mutant: what was peeked at stays.                                       *)
Tokenizer_appendLineKept(t, line) ==
  LET peeked == Tokenizer_peek(t)
  IN IF peeked.token.type # "EOF" THEN [peeked EXCEPT !.stop = "peek == TOKEN_EOF"]
     ELSE [peeked EXCEPT !.source = line, !.current = 1, !.line = @ + 1]

Tokenizer_appendLine(t, line) ==
  LET peeked == Tokenizer_peek(t)
  IN IF peeked.token.type # "EOF" THEN [peeked EXCEPT !.stop = "peek == TOKEN_EOF"]
     ELSE [peeked EXCEPT !.source = line, !.current = 1, !.line = @ + 1, !.hasLookahead = FALSE]

===============================================================================
