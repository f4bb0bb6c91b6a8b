---------------------------- MODULE TokenizerLemmas ----------------------------
(***************************************************************************)
(* What Lexicon says of the longest token at the front of a text, by the   *)
(* character it begins with, and what each function of TokenizerOps makes  *)
(* of a line.                                                              *)
(***************************************************************************)
EXTENDS TokenizerOps, Lexicon, NatLemmas, SequenceTheorems, FiniteSetTheorems, TLAPS

LOCAL INSTANCE SequencesExt
LOCAL INSTANCE FiniteSetsExt

SignChars ==
  {Semicolon, Comma, "+", "-", "*", "/", "<", ">", "=", "!", "(", ")", OpenBrace, CloseBrace}

Named == {Blank, Comma, Semicolon, OpenBrace, CloseBrace, DoubleQuote}

(* The characters that have names are different from all others. *)
LEMMA NamedAreDifferent ==
  /\ Comma # Blank /\ Semicolon # Blank /\ OpenBrace # Blank /\ CloseBrace # Blank
  /\ Semicolon # Comma /\ OpenBrace # Comma /\ CloseBrace # Comma
  /\ OpenBrace # Semicolon /\ CloseBrace # Semicolon /\ CloseBrace # OpenBrace
  /\ Blank # DoubleQuote /\ Comma # DoubleQuote /\ Semicolon # DoubleQuote
  /\ OpenBrace # DoubleQuote /\ CloseBrace # DoubleQuote
  /\ \A c \in Named : c \notin Letters
  /\ \A c \in Named : c \notin Digits
  /\ \A c \in Named : c # "'" /\ c # "\t" /\ c # "\r" /\ c # "\n" /\ c # "\\" /\ c # NUL
  /\ \A c \in Named : c # "+" /\ c # "-" /\ c # "*" /\ c # "/" /\ c # "(" /\ c # ")"
  /\ \A c \in Named : c # "<" /\ c # ">" /\ c # "=" /\ c # "!"
<1>. USE DEF Named, Blank, Comma, Semicolon, OpenBrace, CloseBrace, DoubleQuote
<1>1. /\ Comma # Blank /\ Semicolon # Blank /\ OpenBrace # Blank /\ CloseBrace # Blank
      /\ Semicolon # Comma /\ OpenBrace # Comma /\ CloseBrace # Comma
      /\ OpenBrace # Semicolon /\ CloseBrace # Semicolon /\ CloseBrace # OpenBrace
  BY Zenon
<1>2. /\ Blank # DoubleQuote /\ Comma # DoubleQuote /\ Semicolon # DoubleQuote
      /\ OpenBrace # DoubleQuote /\ CloseBrace # DoubleQuote
  BY Zenon
<1>3. \A c \in Named : c \notin Letters
  BY ZenonT(30) DEF Letters
<1>4. \A c \in Named : c \notin Digits
  BY Zenon DEF Digits
<1>5. \A c \in Named : c # "'" /\ c # "\t" /\ c # "\r" /\ c # "\n" /\ c # "\\" /\ c # NUL
  BY Zenon DEF NUL
<1>6. \A c \in Named : c # "+" /\ c # "-" /\ c # "*" /\ c # "/" /\ c # "(" /\ c # ")"
  BY Zenon
<1>7. \A c \in Named : c # "<" /\ c # ">" /\ c # "=" /\ c # "!"
  BY Zenon
<1>. QED
  BY <1>1, <1>2, <1>3, <1>4, <1>5, <1>6, <1>7

LEMMA SameAlphabets ==
  /\ Letters = Lower \cup Upper /\ Digits = Digit /\ Whitespace = Space
  /\ SymbolChars = Lower \cup Upper \cup Digit
BY DEF Letters, Lower, Upper, Digits, Digit, Whitespace, Space, SymbolChars

LEMMA Different ==
  /\ \A c \in Digits : c \notin Letters
  /\ \A c \in Digits : c \notin Quotes /\ c \notin Space
  /\ \A c \in Digits : c \notin SignChars
  /\ \A c \in Letters : c \notin Quotes /\ c \notin Space
  /\ \A c \in Letters : c \notin SignChars
  /\ \A c \in Quotes : c \notin Space
  /\ \A c \in Quotes : c \notin SignChars
  /\ \A c \in Space : c \notin SignChars
  /\ NUL \notin SymbolChars /\ NUL \notin Space /\ NUL \notin Quotes /\ NUL \notin SignChars
<1>. USE NamedAreDifferent DEF Named
<1>1. \A c \in Digits : c \notin Letters
  BY DEF Digits, Letters
<1>2. \A c \in Digits : c \notin Quotes /\ c \notin Space
  BY DEF Digits, Quotes, Space
<1>3. \A c \in Digits : c \notin SignChars
  BY DEF Digits, SignChars
<1>4. \A c \in Letters : c \notin Quotes /\ c \notin Space
  BY DEF Letters, Quotes, Space
<1>5. \A c \in Letters : c \notin SignChars
  BY DEF Letters, SignChars
<1>6. \A c \in Quotes : c \notin Space
  BY DEF Quotes, Space
<1>7. \A c \in Quotes : c \notin SignChars
  BY DEF Quotes, SignChars
<1>8. \A c \in Space : c \notin SignChars
  BY DEF Space, SignChars
<1>9. NUL \notin SymbolChars /\ NUL \notin Space /\ NUL \notin Quotes /\ NUL \notin SignChars
  BY DEF NUL, SymbolChars, Letters, Digits, Space, Quotes, SignChars
<1>. QED
  BY <1>1, <1>2, <1>3, <1>4, <1>5, <1>6, <1>7, <1>8, <1>9

-------------------------------------------------------------------------------
(* The spellings of Lexicon.                                               *)

LEMMA SignShapes ==
  \A e \in Signs : Len(e[2]) \in 1 .. 2 /\ e[2][1] \in SignChars
<1>1. \A e \in Signs : Len(e[2]) \in 1 .. 2
  BY DEF Signs
<1>2. \A e \in Signs : e[2][1] \in SignChars
  BY DEF Signs, SignChars
<1>. QED
  BY <1>1, <1>2

LEMMA WordShapes ==
  \A e \in ReservedWords : /\ Len(e[2]) \in 2 .. 8
                           /\ \A i \in 1 .. Len(e[2]) : e[2][i] \in Lower
<1>1. \A e \in ReservedWords : Len(e[2]) \in 2 .. 8
  BY DEF ReservedWords
<1>2. \A e \in ReservedWords : \A i \in 1 .. Len(e[2]) : e[2][i] \in Lower
  BY DEF ReservedWords, Lower
<1>. QED
  BY <1>1, <1>2

(* The tables of the tokenizer spell the signs of Lexicon.                 *)
SingleChars == {Semicolon, Comma, "+", "-", "*", "(", ")", OpenBrace, CloseBrace}
EqualsChars == {"<", ">", "="}

LEMMA SignTables ==
  /\ DOMAIN Single = SingleChars /\ DOMAIN WithEquals = EqualsChars
  /\ \A c \in SingleChars : <<Single[c], <<c>>>> \in Signs
  /\ \A c \in EqualsChars : /\ <<WithEquals[c][1], <<c>>>> \in Signs
                            /\ <<WithEquals[c][2], <<c, "=">>>> \in Signs
  /\ <<"SLASH_SLASH", <<"/", "/">>>> \in Signs /\ <<"BANG_EQUALS", <<"!", "=">>>> \in Signs
<1>1. DOMAIN Single = SingleChars
  BY DEF Single, SingleChars
<1>2. DOMAIN WithEquals = EqualsChars
  BY DEF WithEquals, EqualsChars
<1>3. /\ Single[Semicolon] = "SEMICOLON" /\ Single[Comma] = "COMMA" /\ Single["+"] = "PLUS"
      /\ Single["-"] = "MINUS" /\ Single["*"] = "ASTERISK" /\ Single["("] = "OPEN_PAREN"
      /\ Single[")"] = "CLOSE_PAREN" /\ Single[OpenBrace] = "OPEN_BRACE"
      /\ Single[CloseBrace] = "CLOSE_BRACE"
  BY NamedAreDifferent DEF Single, Named
<1>4. \A c \in SingleChars : <<Single[c], <<c>>>> \in Signs
  <2>1. /\ <<"SEMICOLON", <<Semicolon>>>> \in Signs /\ <<"COMMA", <<Comma>>>> \in Signs
        /\ <<"PLUS", <<"+">>>> \in Signs /\ <<"MINUS", <<"-">>>> \in Signs
        /\ <<"ASTERISK", <<"*">>>> \in Signs /\ <<"OPEN_PAREN", <<"(">>>> \in Signs
        /\ <<"CLOSE_PAREN", <<")">>>> \in Signs /\ <<"OPEN_BRACE", <<OpenBrace>>>> \in Signs
        /\ <<"CLOSE_BRACE", <<CloseBrace>>>> \in Signs
    BY DEF Signs
  <2>. QED
    BY <1>3, <2>1 DEF SingleChars
<1>5. /\ WithEquals["<"] = <<"LESS_THAN", "LESS_THAN_EQUALS">>
      /\ WithEquals[">"] = <<"GREATER_THAN", "GREATER_THAN_EQUALS">>
      /\ WithEquals["="] = <<"EQUALS", "EQUALS_EQUALS">>
  BY DEF WithEquals
<1>6. \A c \in EqualsChars : /\ <<WithEquals[c][1], <<c>>>> \in Signs
                            /\ <<WithEquals[c][2], <<c, "=">>>> \in Signs
  <2>1. /\ <<"LESS_THAN", <<"<">>>> \in Signs /\ <<"LESS_THAN_EQUALS", <<"<", "=">>>> \in Signs
        /\ <<"GREATER_THAN", <<">">>>> \in Signs /\ <<"GREATER_THAN_EQUALS", <<">", "=">>>> \in Signs
        /\ <<"EQUALS", <<"=">>>> \in Signs /\ <<"EQUALS_EQUALS", <<"=", "=">>>> \in Signs
    BY DEF Signs
  <2>. QED
    BY <1>5, <2>1 DEF EqualsChars
<1>7. <<"SLASH_SLASH", <<"/", "/">>>> \in Signs /\ <<"BANG_EQUALS", <<"!", "=">>>> \in Signs
  BY DEF Signs
<1>. QED
  BY <1>1, <1>2, <1>4, <1>6, <1>7

LEMMA SignLengths ==
  /\ \A e \in Signs : Len(e[2]) = 1 => e[2][1] \in SingleChars \cup EqualsChars
  /\ \A e \in Signs : Len(e[2]) = 2 =>
        \/ e[2][1] = "/" /\ e[2][2] = "/"
        \/ e[2][1] \in EqualsChars \cup {"!"} /\ e[2][2] = "="
<1>1. \A e \in Signs : Len(e[2]) = 1 => e[2][1] \in SingleChars \cup EqualsChars
  BY DEF Signs, SingleChars, EqualsChars
<1>2. \A e \in Signs : Len(e[2]) = 2 =>
        \/ e[2][1] = "/" /\ e[2][2] = "/"
        \/ e[2][1] \in EqualsChars \cup {"!"} /\ e[2][2] = "="
  BY DEF Signs, EqualsChars
<1>. QED
  BY <1>1, <1>2

LEMMA SignsDiffer == \A e, f \in Signs : e[2] = f[2] => e[1] = f[1]
<1>1. \A e, f \in Signs : Len(e[2]) = Len(f[2]) /\ e[2][1] = f[2][1] => e[1] = f[1]
  BY NamedAreDifferent DEF Signs, Named
<1>. QED
  BY <1>1

(* A keyword of the tokenizer, in two parts, and the word it is.           *)
Spelled(k, text) ==
  /\ Len(text) = Len(k.start) + Len(k.suffix)
  /\ \A i \in 1 .. Len(k.start) : text[i] = k.start[i]
  /\ \A i \in 1 .. Len(k.suffix) : text[Len(k.start) + i] = k.suffix[i]

LEMMA WordsAreKeywords ==
  \A e \in ReservedWords : \E k \in Keywords : e[1] = k.type /\ Spelled(k, e[2])
BY DEF Spelled, Keywords, Keyword, ReservedWords

LEMMA KeywordShapes ==
  \A k \in Keywords :
    /\ Len(k.start) \in 1 .. 2 /\ Len(k.suffix) \in 1 .. 7
    /\ \A i \in 1 .. Len(k.start) : k.start[i] \in Lower
    /\ \A i \in 1 .. Len(k.suffix) : k.suffix[i] \in Lower
<1>1. \A k \in Keywords : Len(k.start) \in 1 .. 2 /\ Len(k.suffix) \in 1 .. 7
  BY DEF Keywords, Keyword
<1>2. \A k \in Keywords : \A i \in 1 .. Len(k.start) : k.start[i] \in Lower
  BY DEF Keywords, Keyword, Lower
<1>3. \A k \in Keywords : \A i \in 1 .. Len(k.suffix) : k.suffix[i] \in Lower
  BY DEF Keywords, Keyword, Lower
<1>. QED
  BY <1>1, <1>2, <1>3

(* The first characters tell the keywords apart. *)
LEMMA KeywordsDiffer ==
  \A k, l \in Keywords :
    k.start[1] = l.start[1] => k = l \/ (Len(k.start) = 2 /\ Len(l.start) = 2 /\ k.start[2] # l.start[2])
BY DEF Keywords, Keyword

(* Each keyword is a reserved word. *)
LEMMA KeywordsAreWords ==
  \A k \in Keywords : \E e \in ReservedWords : e[1] = k.type /\ Spelled(k, e[2])
<1>1. \A k \in Keywords : \E e \in ReservedWords : e[1] = k.type
  <2>. DEFINE Types == {e[1] : e \in ReservedWords}
  <2>1. {"AND", "BREAK", "CONTINUE", "ELSE", "FALSE"} \subseteq Types
    BY DEF ReservedWords
  <2>2. {"IF", "LOOP", "MUT", "NIL", "NOT"} \subseteq Types
    BY DEF ReservedWords
  <2>3. {"OR", "TRUE", "UNTIL", "WHILE", "WITH"} \subseteq Types
    BY DEF ReservedWords
  <2>4. \A k \in Keywords : k.type \in Types
    <3>. HIDE DEF Types
    <3>. QED
      BY <2>1, <2>2, <2>3 DEF Keywords, Keyword
  <2>. QED
    BY <2>4
<1>2. \A k, l \in Keywords : k.type = l.type => k = l
  BY DEF Keywords, Keyword
<1>. QED
  BY <1>1, <1>2, WordsAreKeywords

-------------------------------------------------------------------------------
(* The types of a text, by the character it begins with.                   *)

AllIn(text, chars) == \A i \in 1 .. Len(text) : text[i] \in chars

StringTypes == {"CODE_POINT_LITERAL", "UTF8_LITERAL", "UTF32_LITERAL"}

LEMMA TypeMeans ==
  ASSUME NEW text \in Seq(STRING), NEW type
  PROVE  type \in TypesOf(text) <=>
           \/ \E e \in Spellings : e[2] = text /\ type = e[1]
           \/ type = "INTEGER_LITERAL" /\ AllIn(text, Digits)
           \/ /\ type = "SYMBOL" /\ text[1] \in Letters /\ AllIn(text, SymbolChars)
              /\ \A e \in ReservedWords : text # e[2]
           \/ type \in StringTypes /\ IsString(text, type)
<1>1. DOMAIN text = 1 .. Len(text)
  BY LenProperties
<1>2. \A chars : ToSet(text) \subseteq chars <=> AllIn(text, chars)
  BY <1>1 DEF ToSet, AllIn
<1>. DEFINE Spelt == {entry[1] : entry \in {e \in Spellings : e[2] = text}}
<1>3. type \in Spelt <=> \E e \in Spellings : e[2] = text /\ type = e[1]
  OBVIOUS
<1>4. ToSet(text) \subseteq Digit <=> AllIn(text, Digits)
  BY <1>2, SameAlphabets
<1>5. IsWord(text) <=> text[1] \in Letters /\ AllIn(text, SymbolChars)
  BY <1>2, SameAlphabets DEF IsWord
<1>6. TypesOf(text) =
        Spelt
          \cup {t \in {"INTEGER_LITERAL"} : ToSet(text) \subseteq Digit}
          \cup {t \in {"SYMBOL"} : IsWord(text) /\ \A word \in ReservedWords : text # word[2]}
          \cup {t \in StringTypes : IsString(text, t)}
  BY DEF TypesOf, StringTypes
<1>. HIDE DEF Spelt
<1>. QED
  BY <1>3, <1>4, <1>5, <1>6

LEMMA NumberTypes ==
  ASSUME NEW text \in Seq(STRING), text # <<>>, text[1] \in Digits, NEW type
  PROVE  type \in TypesOf(text) <=> type = "INTEGER_LITERAL" /\ AllIn(text, Digits)
<1>1. \A e \in Spellings : e[2] # text
  BY SignShapes, WordShapes, Different, SameAlphabets DEF Spellings
<1>2. text[1] \notin Letters /\ ~ IsString(text, type)
  BY Different DEF IsString
<1>. QED
  BY <1>1, <1>2, TypeMeans

LEMMA WordTypes ==
  ASSUME NEW text \in Seq(STRING), text # <<>>, text[1] \in Letters, NEW type
  PROVE  type \in TypesOf(text) <=>
           /\ AllIn(text, SymbolChars)
           /\ \/ \E e \in ReservedWords : e[2] = text /\ type = e[1]
              \/ type = "SYMBOL" /\ \A e \in ReservedWords : e[2] # text
<1>1. \A e \in Signs : e[2] # text
  BY SignShapes, Different
<1>2. \A e \in ReservedWords : e[2] = text => AllIn(text, SymbolChars)
  BY WordShapes, SameAlphabets DEF AllIn
<1>3. ~ IsString(text, type)
  BY Different DEF IsString
<1>4. ~ AllIn(text, Digits)
  <2>1. 1 \in 1 .. Len(text)
    BY LenProperties, EmptySeq
  <2>. QED
    BY <2>1, Different DEF AllIn
<1>. QED
  BY <1>1, <1>2, <1>3, <1>4, TypeMeans DEF Spellings

LEMMA StringTokenTypes ==
  ASSUME NEW text \in Seq(STRING), text # <<>>, text[1] \in Quotes, NEW type
  PROVE  type \in TypesOf(text) <=> type \in StringTypes /\ IsString(text, type)
<1>0. 1 \in 1 .. Len(text)
  BY LenProperties, EmptySeq
<1>1. \A e \in Spellings : e[2] # text
  BY <1>0, SignShapes, WordShapes, Different, SameAlphabets DEF Spellings
<1>2. text[1] \notin Letters /\ text[1] \notin Digits
  BY Different
<1>3. ~ AllIn(text, Digits)
  BY <1>0, <1>2 DEF AllIn
<1>. QED
  BY <1>1, <1>2, <1>3, TypeMeans

LEMMA SignTypes ==
  ASSUME NEW text \in Seq(STRING), text # <<>>, text[1] \notin SymbolChars, text[1] \notin Quotes,
         NEW type
  PROVE  type \in TypesOf(text) <=> \E e \in Signs : e[2] = text /\ type = e[1]
<1>0. 1 \in 1 .. Len(text)
  BY LenProperties, EmptySeq
<1>1. \A e \in ReservedWords : e[2] # text
  BY <1>0, WordShapes, SameAlphabets
<1>2. text[1] \notin Letters /\ text[1] \notin Digits /\ ~ IsString(text, type)
  BY DEF SymbolChars, IsString
<1>3. ~ AllIn(text, Digits)
  BY <1>0, <1>2 DEF AllIn
<1>. QED
  BY <1>1, <1>2, <1>3, TypeMeans DEF Spellings

-------------------------------------------------------------------------------
(* The recursion of Lexicon.                                               *)

Least(S) == Min(S)

LEMMA LeastIs ==
  ASSUME NEW S, S \subseteq Nat, S # {}
  PROVE  Least(S) \in S /\ \A k \in S : Least(S) <= k
<1>1. \E m \in S : \A k \in S : m <= k
  BY LeastNatural
<1>. QED
  BY <1>1 DEF Least, Min

LEMMA MaxIs ==
  ASSUME NEW S \in SUBSET Nat, NEW m \in S, \A k \in S : k <= m
  PROVE  Max(S) = m
<1>1. \E x \in S : \A y \in S : x >= y
  OBVIOUS
<1>2. Max(S) \in S /\ \A y \in S : Max(S) >= y
  BY <1>1 DEF Max
<1>3. Max(S) \in Nat /\ m \in Nat /\ Max(S) >= m /\ Max(S) <= m
  BY <1>2
<1>. QED
  BY <1>3

Greatest(S) == Max(S)

LEMMA GreatestIs ==
  ASSUME NEW S \in SUBSET Nat, NEW bound \in Nat, S # {}, \A k \in S : k <= bound
  PROVE  Greatest(S) \in S /\ \A k \in S : k <= Greatest(S)
<1>1. PICK m \in S : \A k \in S : k <= m
  BY GreatestNatural
<1>. QED
  BY <1>1, MaxIs DEF Greatest

LEMMA FrontOfText ==
  ASSUME NEW text \in Seq(STRING), NEW n \in 1 .. Len(text)
  PROVE  /\ SubSeq(text, 1, n) \in Seq(STRING) /\ SubSeq(text, 1, n) # <<>>
         /\ Len(SubSeq(text, 1, n)) = n
         /\ \A i \in 1 .. n : SubSeq(text, 1, n)[i] = text[i]
BY LenProperties, EmptySeq, SubSeqProperties, ElementOfSeq

LEMMA FrontChars ==
  ASSUME NEW text \in Seq(STRING)
  PROVE  /\ Len(text) >= 1 => SubSeq(text, 1, 1) = <<text[1]>>
         /\ Len(text) >= 2 => SubSeq(text, 1, 2) = <<text[1], text[2]>>
<1>1. Len(text) \in Nat
  BY LenProperties
<1>2. ASSUME Len(text) >= 1 PROVE SubSeq(text, 1, 1) = <<text[1]>>
  <2>. DEFINE part == SubSeq(text, 1, 1)
  <2>1. text[1] \in STRING /\ 1 \in 1 .. Len(text)
    BY <1>1, <1>2, ElementOfSeq
  <2>2. part \in Seq(STRING) /\ Len(part) = 1 /\ part[1] = text[1]
    BY <2>1, FrontOfText
  <2>. HIDE DEF part
  <2>3. part = <<text[1]>>
    BY <2>2
  <2>. QED
    BY <2>3 DEF part
<1>3. ASSUME Len(text) >= 2 PROVE SubSeq(text, 1, 2) = <<text[1], text[2]>>
  <2>. DEFINE part == SubSeq(text, 1, 2)
  <2>1. 2 \in 1 .. Len(text)
    BY <1>1, <1>3
  <2>2. part \in Seq(STRING) /\ Len(part) = 2 /\ part[1] = text[1] /\ part[2] = text[2]
    BY <2>1, FrontOfText
  <2>. HIDE DEF part
  <2>3. part = <<text[1], text[2]>>
    BY <2>2
  <2>. QED
    BY <2>3 DEF part
<1>. QED
  BY <1>2, <1>3

LEMMA TypesAreTokenTypes ==
  ASSUME NEW text \in Seq(STRING)
  PROVE  TypesOf(text) \subseteq TokenTypes
<1>1. \A e \in Spellings : e[1] \in TokenTypes
  BY DEF TokenTypes
<1>2. StringTypes \subseteq TokenTypes
  <2>1. \A type \in StringTypes : \E entry \in EncodingNames : entry[1] = type
    BY DEF StringTypes, EncodingNames
  <2>. QED
    BY <2>1 DEF TokenTypes
<1>3. "INTEGER_LITERAL" \in TokenTypes /\ "SYMBOL" \in TokenTypes
  BY DEF TokenTypes
<1>. QED
  BY <1>1, <1>2, <1>3, TypeMeans

(* The end of the line is none of the types of a text.                     *)
LEMMA NoTextIsEnd ==
  ASSUME NEW text \in Seq(STRING), NEW type \in TypesOf(text)
  PROVE  type # "EOF"
<1>1. \A e \in Signs : e[1] # "EOF"
  BY DEF Signs
<1>2. \A e \in ReservedWords : e[1] # "EOF"
  BY DEF ReservedWords
<1>3. "EOF" \notin StringTypes
  BY DEF StringTypes
<1>. QED
  BY <1>1, <1>2, <1>3, TypeMeans DEF Spellings

LEMMA LengthsAreLengths ==
  ASSUME NEW text \in Seq(STRING), Lengths(text) # {}
  PROVE  /\ Max(Lengths(text)) \in Lengths(text)
         /\ Lengths(text) \subseteq 1 .. Len(text)
<1>1. Lengths(text) \subseteq 1 .. Len(text) /\ Len(text) \in Nat
  BY LenProperties DEF Lengths
<1>2. Lengths(text) \subseteq Nat /\ \A n \in Lengths(text) : n <= Len(text)
  BY <1>1
<1>3. \E m \in Lengths(text) : \A n \in Lengths(text) : n <= m
  BY <1>1, <1>2, GreatestNatural
<1>. QED
  BY <1>1, <1>2, <1>3, MaxIs

LEMMA FrontIsTokens ==
  ASSUME NEW text \in Seq(STRING), NEW line \in Nat
  PROVE  /\ TokensInFront(text, line) \in Seq(Tokens)
         /\ IsLast(text) => TokensInFront(text, line) # <<>>
<1>1. Unwritten("EOF", line) \in Tokens /\ Unwritten("ERROR", line) \in Tokens
  BY DEF Unwritten, Tokens, TokenTypes
<1>2. CASE Lengths(text) # {}
  <2>. DEFINE n == Max(Lengths(text))
              lexeme == SubSeq(text, 1, n)
  <2>1. n \in 1 .. Len(text) /\ TypesOf(lexeme) # {}
    BY <1>2, LengthsAreLengths DEF Lengths
  <2>2. lexeme \in Seq(STRING)
    BY <2>1, FrontOfText
  <2>3. (CHOOSE type \in TypesOf(lexeme) : TRUE) \in TokenTypes
    BY <2>1, <2>2, TypesAreTokenTypes
  <2>4. LongestToken(text, line) \in Tokens
    BY <2>2, <2>3 DEF LongestToken, Tokens
  <2>. QED
    BY <1>1, <1>2, <2>4 DEF TokensInFront, IsLast
<1>3. CASE Lengths(text) = {}
  <2>1. text[1] = "!" => text[1] \notin Space
    BY NamedAreDifferent DEF Space, Named
  <2>. QED
    BY <1>1, <1>3, <2>1 DEF TokensInFront, IsLast
<1>. QED
  BY <1>2, <1>3

LEMMA BehindIsShorter ==
  ASSUME NEW text \in Seq(STRING), text # <<>>
  PROVE  Taken(text) \in 1 .. Len(text) /\ Behind(text) \in Seq(STRING)
         /\ Len(Behind(text)) = Len(text) - Taken(text)
<1>1. 1 \in 1 .. Len(text) /\ Len(text) \in 1 .. Len(text) /\ Len(text) \in Nat
  BY LenProperties, EmptySeq
<1>2. Taken(text) \in 1 .. Len(text)
  BY <1>1, LengthsAreLengths DEF Taken
<1>. QED
  BY <1>1, <1>2, SubSeqProperties, ElementOfSeq DEF Behind

(* TokensOf is what its recursion says, and lines of at least one token.   *)
LEMMA TokensOfText ==
  /\ TokensOf \in [Seq(STRING) -> [Nat -> Seq(Tokens) \ {<<>>}]]
  /\ \A text \in Seq(STRING) : \A line \in Nat :
       TokensOf[text][line] =
         IF IsLast(text) THEN TokensInFront(text, line)
         ELSE TokensInFront(text, line) \o TokensOf[Behind(text)][LineBehind(text, line)]
<1>. DEFINE D == Seq(STRING)
            Streams == Seq(Tokens) \ {<<>>}
            R == [Nat -> Streams]
            size == [text \in D |-> Len(text)]
            Stops == {text \in D : IsLast(text)}
            base == [text \in D |-> [line \in Nat |->
                       IF IsLast(text) THEN TokensInFront(text, line) ELSE <<Unwritten("EOF", line)>>]]
            step == [text \in D |-> [rest \in R |-> [line \in Nat |->
                       TokensInFront(text, line) \o rest[LineBehind(text, line)]]]]
            next == [text \in D |-> IF IsLast(text) THEN text ELSE Behind(text)]
            Value(f, text, line) ==
              IF IsLast(text) THEN TokensInFront(text, line)
              ELSE TokensInFront(text, line) \o f[Behind(text)][LineBehind(text, line)]
            Solves(f) == f = [text \in D |-> [line \in Nat |-> Value(f, text, line)]]
<1>1. size \in [D -> Nat] /\ Stops \in SUBSET D
  BY LenProperties
<1>2. base \in [D -> R]
  <2>. SUFFICES ASSUME NEW text \in D, NEW line \in Nat
                PROVE  (IF IsLast(text) THEN TokensInFront(text, line) ELSE <<Unwritten("EOF", line)>>)
                         \in Streams
    OBVIOUS
  <2>1. Unwritten("EOF", line) \in Tokens
    BY DEF Unwritten, Tokens, TokenTypes
  <2>. QED
    BY <2>1, FrontIsTokens
<1>3. \A text \in D : \A line \in Nat : LineBehind(text, line) \in Nat
  BY DEF LineBehind
<1>4. \A front \in Seq(Tokens) : \A rest \in Streams : front \o rest \in Streams
  <2>. SUFFICES ASSUME NEW front \in Seq(Tokens), NEW rest \in Streams
                PROVE  front \o rest \in Streams
    OBVIOUS
  <2>1. front \o rest \in Seq(Tokens) /\ Len(front \o rest) = Len(front) + Len(rest)
    BY ConcatProperties
  <2>2. Len(rest) # 0 /\ Len(rest) \in Nat /\ Len(front) \in Nat
    BY LenProperties, EmptySeq
  <2>. QED
    BY <2>1, <2>2
<1>5. step \in [D -> [R -> R]]
  <2>. SUFFICES ASSUME NEW text \in D, NEW rest \in R, NEW line \in Nat
                PROVE  TokensInFront(text, line) \o rest[LineBehind(text, line)] \in Streams
    OBVIOUS
  <2>1. rest[LineBehind(text, line)] \in Streams
    BY <1>3
  <2>. HIDE DEF Streams
  <2>. QED
    BY <1>4, <2>1, FrontIsTokens
<1>6. next \in [D -> D] /\ \A text \in D : text \notin Stops => size[next[text]] < size[text]
  <2>1. ASSUME NEW text \in D, ~ IsLast(text)
        PROVE  Behind(text) \in D /\ Len(Behind(text)) < Len(text)
    <3>1. text # <<>>
      BY <2>1 DEF IsLast
    <3>2. Taken(text) \in 1 .. Len(text) /\ Behind(text) \in D
          /\ Len(Behind(text)) = Len(text) - Taken(text) /\ Len(text) \in Nat
      BY <3>1, BehindIsShorter, LenProperties
    <3>. QED
      BY <3>2
  <2>. QED
    BY <2>1
<1>7. \E f \in [D -> R] :
        \A text \in D : f[text] = IF text \in Stops THEN base[text] ELSE step[text][f[next[text]]]
  <2>1. next \in [D -> D]
    BY <1>6
  <2>2. \A text \in D : text \notin Stops => size[next[text]] < size[text]
    BY <1>6
  <2>. HIDE DEF D, R, size, Stops, base, step, next
  <2>3. Descends(D, R, size, Stops, base, step, next)
    BY <1>1, <1>2, <1>5, <2>1, <2>2 DEF Descends
  <2>. QED
    BY <2>3, RecursionExists
<1>8. PICK f \in [D -> R] :
        \A text \in D : f[text] = IF text \in Stops THEN base[text] ELSE step[text][f[next[text]]]
  BY <1>7
<1>9. ASSUME NEW text \in D PROVE f[text] = [line \in Nat |-> Value(f, text, line)]
  <2>1. CASE IsLast(text)
    <3>1. f[text] = base[text]
      BY <1>8, <2>1
    <3>. QED
      BY <2>1, <3>1
  <2>2. CASE ~ IsLast(text)
    <3>1. f[text] = step[text][f[next[text]]] /\ next[text] = Behind(text) /\ next[text] \in D
      BY <1>6, <1>8, <2>2
    <3>2. f[Behind(text)] \in R
      BY <3>1
    <3>. QED
      BY <2>2, <3>1, <3>2
  <2>. QED
    BY <2>1, <2>2
<1>10. Solves(f)
  BY <1>9
<1>11. TokensOf = CHOOSE g : Solves(g)
  BY DEF TokensOf
<1>12. Solves(TokensOf)
  <2>. HIDE DEF Solves
  <2>. QED
    BY <1>10, <1>11
<1>13. \A text \in D : TokensOf[text] = [line \in Nat |-> Value(TokensOf, text, line)]
  <2>. HIDE DEF Value
  <2>. QED
    BY <1>12
<1>14. \A text \in D : \A line \in Nat : TokensOf[text][line] = Value(TokensOf, text, line)
  <2>. HIDE DEF Value
  <2>. QED
    BY <1>13
<1>15. \A text \in D : TokensOf[text] \in R
  <2>. DEFINE T == {n \in Nat : \A text \in D : Len(text) <= n => TokensOf[text] \in R}
  <2>1. ASSUME NEW text \in D, \A shorter \in D : Len(shorter) < Len(text) => TokensOf[shorter] \in R
        PROVE  TokensOf[text] \in R
    <3>1. ASSUME NEW line \in Nat PROVE Value(TokensOf, text, line) \in Streams
      <4>1. CASE IsLast(text)
        BY <4>1, FrontIsTokens
      <4>2. CASE ~ IsLast(text)
        <5>1. Behind(text) \in D /\ Len(Behind(text)) < Len(text)
          BY <1>6, <4>2
        <5>2. TokensOf[Behind(text)][LineBehind(text, line)] \in Streams
          BY <1>3, <2>1, <5>1
        <5>3. Value(TokensOf, text, line) =
                TokensInFront(text, line) \o TokensOf[Behind(text)][LineBehind(text, line)]
          BY <4>2
        <5>. HIDE DEF Value, Streams
        <5>. QED
          BY <1>4, <5>2, <5>3, FrontIsTokens
      <4>. QED
        BY <4>1, <4>2
    <3>. HIDE DEF Value, Streams
    <3>. QED
      BY <1>13, <3>1
  <2>. HIDE DEF R
  <2>2. 0 \in T
    <3>. SUFFICES ASSUME NEW text \in D, Len(text) <= 0 PROVE TokensOf[text] \in R
      OBVIOUS
    <3>1. \A shorter \in D : ~ (Len(shorter) < Len(text))
      BY LenProperties
    <3>. QED
      BY <2>1, <3>1
  <2>3. ASSUME NEW n \in Nat, n \in T PROVE n + 1 \in T
    <3>. SUFFICES ASSUME NEW text \in D, Len(text) <= n + 1 PROVE TokensOf[text] \in R
      OBVIOUS
    <3>1. ASSUME NEW shorter \in D, Len(shorter) < Len(text) PROVE TokensOf[shorter] \in R
      <4>1. Len(shorter) \in Nat /\ Len(text) \in Nat
        BY LenProperties
      <4>2. Len(shorter) <= n
        BY <3>1, <4>1
      <4>. QED
        BY <2>3, <4>2
    <3>. QED
      BY <2>1, <3>1
  <2>4. Nat \subseteq T
    <3>. HIDE DEF T
    <3>. QED
      BY <2>2, <2>3, Induction
  <2>5. ASSUME NEW text \in D PROVE TokensOf[text] \in R
    <3>1. Len(text) \in Nat /\ Len(text) \in T
      BY <2>4, LenProperties
    <3>. QED
      BY <3>1
  <2>. QED
    BY <2>5
<1>16. TokensOf = [text \in D |-> TokensOf[text]]
  <2>. DEFINE E(text) == [line \in Nat |-> Value(TokensOf, text, line)]
  <2>1. TokensOf = [text \in D |-> E(text)]
    BY <1>12
  <2>. HIDE DEF E
  <2>. QED
    BY <2>1
<1>17. TokensOf \in [D -> R]
  <2>. HIDE DEF R
  <2>. QED
    BY <1>15, <1>16
<1>. QED
  BY <1>14, <1>17

(* EncodingsKnown is what its recursion says.                              *)
LEMMA KnownText ==
  ASSUME NEW text \in Seq(STRING)
  PROVE  EncodingsKnown[text] <=>
           IsLast(text) \/ (~ UnknownEncoding(text) /\ EncodingsKnown[Behind(text)])
<1>. DEFINE D == Seq(STRING)
            size == [s \in D |-> Len(s)]
            Stops == {s \in D : IsLast(s)}
            base == [s \in D |-> TRUE]
            step == [s \in D |-> [rest \in BOOLEAN |-> ~ UnknownEncoding(s) /\ rest]]
            next == [s \in D |-> IF IsLast(s) THEN s ELSE Behind(s)]
            Value(f, s) == IsLast(s) \/ (~ UnknownEncoding(s) /\ f[Behind(s)])
            Solves(f) == f = [s \in D |-> Value(f, s)]
<1>1. size \in [D -> Nat] /\ Stops \in SUBSET D /\ base \in [D -> BOOLEAN]
  BY LenProperties
<1>2. step \in [D -> [BOOLEAN -> BOOLEAN]]
  BY DEF UnknownEncoding
<1>3. /\ next \in [D -> D] /\ \A s \in D : s \notin Stops => size[next[s]] < size[s]
      /\ \A s \in D : ~ IsLast(s) => next[s] = Behind(s) /\ Behind(s) \in D
  <2>1. ASSUME NEW s \in D, ~ IsLast(s)
        PROVE  Behind(s) \in D /\ Len(Behind(s)) < Len(s)
    <3>1. s # <<>>
      BY <2>1 DEF IsLast
    <3>2. Taken(s) \in 1 .. Len(s) /\ Behind(s) \in D
          /\ Len(Behind(s)) = Len(s) - Taken(s) /\ Len(s) \in Nat
      BY <3>1, BehindIsShorter, LenProperties
    <3>. QED
      BY <3>2
  <2>. QED
    BY <2>1
<1>4. PICK f \in [D -> BOOLEAN] :
        \A s \in D : f[s] = IF s \in Stops THEN base[s] ELSE step[s][f[next[s]]]
  <2>1. next \in [D -> D]
    BY <1>3
  <2>2. \A s \in D : s \notin Stops => size[next[s]] < size[s]
    BY <1>3
  <2>. HIDE DEF D, size, Stops, base, step, next
  <2>3. Descends(D, BOOLEAN, size, Stops, base, step, next)
    BY <1>1, <1>2, <2>1, <2>2 DEF Descends
  <2>. QED
    BY <2>3, RecursionExists
<1>5. ASSUME NEW s \in D PROVE f[s] = Value(f, s)
  <2>1. CASE IsLast(s)
    <3>1. f[s] = base[s]
      BY <1>4, <2>1
    <3>. QED
      BY <2>1, <3>1
  <2>2. CASE ~ IsLast(s)
    <3>1. f[s] = step[s][f[next[s]]] /\ next[s] = Behind(s) /\ next[s] \in D
      BY <1>3, <1>4, <2>2
    <3>2. f[Behind(s)] \in BOOLEAN
      BY <3>1
    <3>3. f[s] = (~ UnknownEncoding(s) /\ f[Behind(s)])
      BY <3>1, <3>2
    <3>. QED
      BY <2>2, <3>3
  <2>. QED
    BY <2>1, <2>2
<1>6. Solves(f)
  BY <1>5
<1>7. EncodingsKnown = CHOOSE g : Solves(g)
  BY DEF EncodingsKnown
<1>8. Solves(EncodingsKnown)
  <2>. HIDE DEF Solves
  <2>. QED
    BY <1>6, <1>7
<1>9. EncodingsKnown[text] = Value(EncodingsKnown, text)
  <2>. HIDE DEF Value
  <2>. QED
    BY <1>8
<1>. QED
  BY <1>9

-------------------------------------------------------------------------------
(* The stream of some tokens ends where they differ from the last of them  *)
(* for the last time.                                                      *)
LEMMA EndlessIs ==
  ASSUME NEW tokens \in Seq(Tokens), tokens # <<>>, NEW m \in 0 .. Len(tokens),
         m # 0 => tokens[m] # tokens[Len(tokens)],
         \A i \in m + 1 .. Len(tokens) : tokens[i] = tokens[Len(tokens)]
  PROVE  Endless[tokens] = Stream(SubSeq(tokens, 1, m), tokens[Len(tokens)])
<1>. DEFINE last == tokens[Len(tokens)]
            others == {i \in DOMAIN tokens : tokens[i] # last}
<1>1. DOMAIN tokens = 1 .. Len(tokens) /\ Len(tokens) \in Nat /\ m \in Nat
  BY LenProperties
<1>2. Endless[tokens] = Stream(IF others = {} THEN <<>> ELSE SubSeq(tokens, 1, Max(others)), last)
  BY DEF Endless
<1>3. \A i \in others : i \in 1 .. m
  BY <1>1
<1>4. CASE m = 0
  <2>1. others = {}
    BY <1>3, <1>4
  <2>2. SubSeq(tokens, 1, m) = <<>>
    BY <1>4, SubSeqEmpty
  <2>. HIDE DEF others
  <2>. QED
    BY <1>2, <2>1, <2>2
<1>5. CASE m # 0
  <2>1. m \in others
    BY <1>1, <1>5
  <2>2. others \subseteq Nat /\ \A i \in others : i <= m
    BY <1>1, <1>3
  <2>. HIDE DEF others
  <2>3. Max(others) = m
    BY <2>1, <2>2, MaxIs
  <2>. QED
    BY <1>2, <2>1, <2>3
<1>. QED
  BY <1>4, <1>5

LEMMA EndlessEnds ==
  ASSUME NEW tokens \in Seq(Tokens), tokens # <<>>
  PROVE  \E m \in 0 .. Len(tokens) :
           /\ m # 0 => tokens[m] # tokens[Len(tokens)]
           /\ \A i \in m + 1 .. Len(tokens) : tokens[i] = tokens[Len(tokens)]
<1>. DEFINE Ends == {m \in 0 .. Len(tokens) : \A i \in m + 1 .. Len(tokens) : tokens[i] = tokens[Len(tokens)]}
<1>1. Len(tokens) \in Nat
  BY LenProperties
<1>2. Ends \subseteq Nat /\ Len(tokens) \in Ends
  BY <1>1
<1>3. PICK m \in Ends : \A n \in Ends : m <= n
  <2>. HIDE DEF Ends
  <2>. QED
    BY <1>2, LeastNatural
<1>4. ASSUME m # 0 PROVE tokens[m] # tokens[Len(tokens)]
  <2>. SUFFICES ASSUME tokens[m] = tokens[Len(tokens)] PROVE FALSE
    OBVIOUS
  <2>1. m - 1 \in 0 .. Len(tokens) /\ m \in Nat
    BY <1>1, <1>3, <1>4
  <2>2. \A i \in (m - 1) + 1 .. Len(tokens) : i = m \/ i \in m + 1 .. Len(tokens)
    BY <1>1, <2>1
  <2>3. m - 1 \in Ends
    BY <1>3, <2>1, <2>2
  <2>4. ~ (m <= m - 1)
    BY <2>1
  <2>. QED
    BY <1>3, <2>3, <2>4
<1>. QED
  BY <1>3, <1>4

LEMMA RestOfStream ==
  ASSUME NEW tokens, NEW last, tokens # <<>>
  PROVE  Rest(Stream(tokens, last)) = Stream(Tail(tokens), last)
<1>. DEFINE stream == Stream(tokens, last)
            left == Rest(stream)
<1>1. stream = [field \in {"tokens", "last"} |-> IF field = "tokens" THEN tokens ELSE last]
  BY DEF Stream
<1>2. stream.tokens = tokens /\ stream.last = last /\ DOMAIN stream = {"tokens", "last"}
  BY <1>1
<1>. HIDE DEF stream
<1>3. left = [field \in DOMAIN stream |-> IF field = "tokens" THEN Tail(stream.tokens) ELSE stream[field]]
  BY <1>2 DEF Rest
<1>4. Stream(Tail(tokens), last)
        = [field \in {"tokens", "last"} |-> IF field = "tokens" THEN Tail(tokens) ELSE last]
  BY DEF Stream
<1>. HIDE DEF left
<1>5. left = Stream(Tail(tokens), last)
  BY <1>2, <1>3, <1>4
<1>. QED
  BY <1>5 DEF left, stream

(* Its first token and the stream behind it are those of the tokens.       *)
LEMMA EndlessGoesOn ==
  ASSUME NEW token \in Tokens, NEW rest \in Seq(Tokens), rest # <<>>
  PROVE  /\ Upcoming(Endless[<<token>> \o rest]) = token
         /\ Rest(Endless[<<token>> \o rest]) = Endless[rest]
<1>. DEFINE all == <<token>> \o rest
            last == rest[Len(rest)]
<1>1. /\ all \in Seq(Tokens) /\ Len(all) = Len(rest) + 1
      /\ Len(rest) \in Nat \ {0}
      /\ all[1] = token /\ \A i \in 1 .. Len(rest) : all[i + 1] = rest[i]
  BY LenProperties, EmptySeq, ConcatProperties
<1>2. all # <<>> /\ all[Len(all)] = last
  BY <1>1
<1>3. PICK m \in 0 .. Len(rest) :
        /\ m # 0 => rest[m] # last
        /\ \A i \in m + 1 .. Len(rest) : rest[i] = last
  BY EndlessEnds
<1>4. Endless[rest] = Stream(SubSeq(rest, 1, m), last)
  BY <1>3, EndlessIs
<1>5. \A i \in m + 2 .. Len(all) : all[i] = last
  <2>. SUFFICES ASSUME NEW i \in m + 2 .. Len(all) PROVE all[i] = last
    OBVIOUS
  <2>1. i - 1 \in m + 1 .. Len(rest) /\ i - 1 \in 1 .. Len(rest) /\ (i - 1) + 1 = i
    BY <1>1
  <2>. HIDE DEF all, last
  <2>. QED
    BY <1>1, <1>3, <2>1
<1>. HIDE DEF all, last
<1>6. CASE m = 0 /\ token = last
  <2>1. \A i \in 0 + 1 .. Len(all) : all[i] = all[Len(all)]
    <3>. SUFFICES ASSUME NEW i \in 1 .. Len(all) PROVE all[i] = last
      BY <1>2
    <3>1. CASE i = 1
      BY <1>1, <1>6, <3>1
    <3>2. CASE i # 1
      BY <1>1, <1>5, <1>6, <3>2
    <3>. QED
      BY <3>1, <3>2
  <2>2. 0 \in 0 .. Len(all)
    BY <1>1
  <2>3. Endless[all] = Stream(SubSeq(all, 1, 0), last)
    BY <1>1, <1>2, <2>1, <2>2, EndlessIs
  <2>4. SubSeq(all, 1, 0) = <<>> /\ SubSeq(rest, 1, m) = <<>>
    BY <1>6, SubSeqEmpty
  <2>. QED
    BY <1>4, <1>6, <2>3, <2>4 DEF Stream, Upcoming, Rest, all
<1>7. CASE ~ (m = 0 /\ token = last)
  <2>1. m + 1 \in 0 .. Len(all) /\ m + 1 # 0 /\ m + 1 \in 1 .. Len(all) /\ m \in Nat
    BY <1>1
  <2>2. all[m + 1] # all[Len(all)]
    BY <1>1, <1>2, <1>3, <1>7, <2>1
  <2>3. \A i \in (m + 1) + 1 .. Len(all) : all[i] = all[Len(all)]
    BY <1>2, <1>5, <2>1
  <2>4. Endless[all] = Stream(SubSeq(all, 1, m + 1), last)
    BY <1>1, <1>2, <2>1, <2>2, <2>3, EndlessIs
  <2>. DEFINE tokens == SubSeq(all, 1, m + 1)
              others == SubSeq(rest, 1, m)
  <2>5. /\ tokens \in Seq(Tokens) /\ Len(tokens) = m + 1
        /\ \A i \in 1 .. m + 1 : tokens[i] = all[i]
    BY <1>1, <2>1, SubSeqProperties, ElementOfSeq
  <2>6. /\ others \in Seq(Tokens) /\ Len(others) = m
        /\ \A i \in 1 .. m : others[i] = rest[i]
    BY <1>1, <2>1, SubSeqProperties, ElementOfSeq
  <2>. HIDE DEF tokens, others
  <2>7. tokens # <<>> /\ Head(tokens) = token
    BY <1>1, <2>1, <2>5, HeadTailProperties
  <2>8. Tail(tokens) = others
    <3>1. /\ Tail(tokens) \in Seq(Tokens) /\ Len(Tail(tokens)) = m
          /\ \A i \in 1 .. m : Tail(tokens)[i] = tokens[i + 1]
      BY <2>1, <2>5, <2>7, HeadTailProperties
    <3>2. \A i \in 1 .. m : i + 1 \in 1 .. m + 1 /\ i \in 1 .. Len(rest)
      BY <1>1, <2>1
    <3>3. \A i \in 1 .. m : Tail(tokens)[i] = others[i]
      BY <1>1, <2>5, <2>6, <3>1, <3>2
    <3>. QED
      BY <2>6, <3>1, <3>3, SeqEqual
  <2>9. Endless[all] = Stream(tokens, last) /\ Endless[rest] = Stream(others, last)
    BY <1>4, <2>4 DEF tokens, others
  <2>10. Upcoming(Endless[all]) = token
    BY <2>7, <2>9 DEF Upcoming, Stream
  <2>11. Rest(Endless[all]) = Endless[rest]
    BY <2>7, <2>8, <2>9, RestOfStream
  <2>. QED
    BY <2>10, <2>11 DEF all
<1>. QED
  BY <1>6, <1>7

(* One token is the last one for ever.                                     *)
LEMMA EndlessStays ==
  ASSUME NEW token \in Tokens
  PROVE  /\ Upcoming(Endless[<<token>>]) = token
         /\ Rest(Endless[<<token>>]) = Endless[<<token>>]
         /\ Endless[<<token>> \o <<token>>] = Endless[<<token>>]
<1>. DEFINE one == <<token>>
            two == <<token>> \o <<token>>
<1>1. one \in Seq(Tokens) /\ one # <<>> /\ Len(one) = 1 /\ one[1] = token
  OBVIOUS
<1>2. two \in Seq(Tokens) /\ Len(two) = 2 /\ two[1] = token /\ two[2] = token
  BY ConcatProperties
<1>. HIDE DEF one, two
<1>3. Endless[one] = Stream(SubSeq(one, 1, 0), token)
  <2>1. 0 \in 0 .. Len(one) /\ \A i \in 0 + 1 .. Len(one) : one[i] = one[Len(one)]
    BY <1>1
  <2>. QED
    BY <1>1, <2>1, EndlessIs
<1>4. Endless[two] = Stream(SubSeq(two, 1, 0), token)
  <2>1. two # <<>> /\ 0 \in 0 .. Len(two) /\ two[Len(two)] = token
    BY <1>2
  <2>2. \A i \in 0 + 1 .. Len(two) : two[i] = two[Len(two)]
    BY <1>2
  <2>. QED
    BY <1>2, <2>1, <2>2, EndlessIs
<1>5. SubSeq(one, 1, 0) = <<>> /\ SubSeq(two, 1, 0) = <<>>
  BY SubSeqEmpty
<1>. QED
  BY <1>3, <1>4, <1>5 DEF Stream, Upcoming, Rest, one, two

-------------------------------------------------------------------------------
(* The tokens of a text, by the character it begins with.                  *)

LEMMA PartOfText ==
  ASSUME NEW text \in Seq(STRING), NEW i \in Nat \ {0}, NEW j \in Nat, i <= j + 1, j <= Len(text)
  PROVE  /\ SubSeq(text, i, j) \in Seq(STRING)
         /\ Len(SubSeq(text, i, j)) = j + 1 - i
         /\ \A k \in 1 .. j + 1 - i : SubSeq(text, i, j)[k] = text[i + k - 1]
<1>1. Len(text) \in Nat
  BY LenProperties
<1>2. \A k \in i .. j : text[k] \in STRING
  BY <1>1, ElementOfSeq
<1>3. j - i + 1 = j + 1 - i
  OBVIOUS
<1>. QED
  BY <1>2, <1>3, SubSeqProperties

(* The first n characters are a token of the type, and no longer part is.  *)
LongestIs(text, n, type) ==
  /\ n \in 1 .. Len(text) /\ text[1] \notin Space
  /\ \A other : other \in TypesOf(SubSeq(text, 1, n)) <=> other = type
  /\ \A k \in n + 1 .. Len(text) : \A other : other \notin TypesOf(SubSeq(text, 1, k))

LEMMA BehindLongest ==
  ASSUME NEW text \in Seq(STRING), NEW n, NEW type, LongestIs(text, n, type), NEW line \in Nat
  PROVE  /\ Token(type, SubSeq(text, 1, n), line) \in Tokens
         /\ TokensOf[text][line] =
              <<Token(type, SubSeq(text, 1, n), line)>> \o TokensOf[SubSeq(text, n + 1, Len(text))][line]
         /\ EncodingsKnown[text] => EncodingsKnown[SubSeq(text, n + 1, Len(text))]
<1>1. n \in 1 .. Len(text) /\ Len(text) \in Nat /\ DOMAIN text = 1 .. Len(text)
  BY LenProperties DEF LongestIs
<1>2. n \in Lengths(text) /\ \A k \in Lengths(text) : k <= n
  <2>1. type \in TypesOf(SubSeq(text, 1, n))
    BY DEF LongestIs
  <2>2. ASSUME NEW k \in Lengths(text), ~ (k <= n) PROVE FALSE
    <3>1. k \in n + 1 .. Len(text) /\ \E other : other \in TypesOf(SubSeq(text, 1, k))
      BY <1>1, <2>2 DEF Lengths
    <3>. QED
      BY <3>1 DEF LongestIs
  <2>. QED
    BY <1>1, <2>1, <2>2 DEF Lengths
<1>3. Max(Lengths(text)) = n
  <2>1. Lengths(text) \in SUBSET Nat
    BY <1>1 DEF Lengths
  <2>. QED
    BY <1>2, <2>1, MaxIs
<1>4. TypesOf(SubSeq(text, 1, n)) = {type}
  BY DEF LongestIs
<1>5. LongestToken(text, line) = Token(type, SubSeq(text, 1, n), line)
  BY <1>3, <1>4 DEF LongestToken, Token
<1>6. text # <<>> /\ ~ IsLast(text)
  BY <1>1, <1>2, EmptySeq, LenProperties DEF IsLast
<1>7. TokensInFront(text, line) = <<Token(type, SubSeq(text, 1, n), line)>>
  BY <1>2, <1>5, <1>6 DEF TokensInFront, LongestIs
<1>8. Behind(text) = SubSeq(text, n + 1, Len(text))
  BY <1>2, <1>3 DEF Behind, Taken, LongestIs
<1>9. LineBehind(text, line) = line
  BY DEF LineBehind, LongestIs, Space
<1>10. Token(type, SubSeq(text, 1, n), line) \in Tokens
  <2>1. SubSeq(text, 1, n) \in Seq(STRING)
    BY <1>1, FrontOfText
  <2>2. type \in TokenTypes
    BY <1>4, <2>1, TypesAreTokenTypes
  <2>. QED
    BY <2>1, <2>2 DEF Token, Tokens
<1>11. EncodingsKnown[text] => EncodingsKnown[SubSeq(text, n + 1, Len(text))]
  BY <1>6, <1>8, KnownText
<1>. QED
  BY <1>6, <1>7, <1>8, <1>9, <1>10, <1>11, TokensOfText

(* A number is all the digits there are.                                   *)
LEMMA NumberIsLongest ==
  ASSUME NEW text \in Seq(STRING), NEW n \in 1 .. Len(text), text[1] \in Digits,
         \A i \in 1 .. n : text[i] \in Digits,
         n < Len(text) => text[n + 1] \notin Digits
  PROVE  LongestIs(text, n, "INTEGER_LITERAL")
<1>1. Len(text) \in Nat
  BY LenProperties
<1>2. \A k \in 1 .. Len(text) : \A other :
        other \in TypesOf(SubSeq(text, 1, k)) <=>
          other = "INTEGER_LITERAL" /\ \A i \in 1 .. k : text[i] \in Digits
  <2>. SUFFICES ASSUME NEW k \in 1 .. Len(text), NEW other
                PROVE  other \in TypesOf(SubSeq(text, 1, k)) <=>
                         other = "INTEGER_LITERAL" /\ \A i \in 1 .. k : text[i] \in Digits
    OBVIOUS
  <2>1. /\ SubSeq(text, 1, k) \in Seq(STRING) /\ SubSeq(text, 1, k) # <<>>
        /\ Len(SubSeq(text, 1, k)) = k
        /\ \A i \in 1 .. k : SubSeq(text, 1, k)[i] = text[i]
    BY FrontOfText
  <2>. DEFINE part == SubSeq(text, 1, k)
  <2>2. part \in Seq(STRING) /\ part # <<>> /\ part[1] \in Digits
    BY <2>1
  <2>3. AllIn(part, Digits) <=> \A i \in 1 .. k : text[i] \in Digits
    BY <2>1 DEF AllIn
  <2>. HIDE DEF part
  <2>4. other \in TypesOf(part) <=> other = "INTEGER_LITERAL" /\ AllIn(part, Digits)
    BY <2>2, NumberTypes
  <2>. QED
    BY <2>3, <2>4 DEF part
<1>3. \A other : other \in TypesOf(SubSeq(text, 1, n)) <=> other = "INTEGER_LITERAL"
  BY <1>2
<1>4. \A k \in n + 1 .. Len(text) : n + 1 \in 1 .. k /\ k \in 1 .. Len(text) /\ n < Len(text)
  BY <1>1
<1>5. \A k \in n + 1 .. Len(text) : \A other : other \notin TypesOf(SubSeq(text, 1, k))
  BY <1>2, <1>4
<1>. QED
  BY <1>3, <1>5, Different DEF LongestIs

(* A sign is one of the signs, and no longer one begins like it.           *)
LEMMA SignIsLongest ==
  ASSUME NEW text \in Seq(STRING), NEW n \in 1 .. Len(text), text[1] \in SignChars,
         NEW e \in Signs, e[2] = SubSeq(text, 1, n),
         \A other \in Signs : other[2] = e[2] => other[1] = e[1],
         n < 2 => \A other \in Signs : Len(text) > 1 => other[2] # SubSeq(text, 1, 2)
  PROVE  LongestIs(text, n, e[1])
<1>1. Len(text) \in Nat /\ text[1] \notin SymbolChars /\ text[1] \notin Quotes
  BY LenProperties, Different DEF SymbolChars
<1>2. \A k \in 1 .. Len(text) : \A type :
        type \in TypesOf(SubSeq(text, 1, k)) <=>
          \E other \in Signs : other[2] = SubSeq(text, 1, k) /\ type = other[1]
  <2>. SUFFICES ASSUME NEW k \in 1 .. Len(text), NEW type
                PROVE  type \in TypesOf(SubSeq(text, 1, k)) <=>
                         \E other \in Signs : other[2] = SubSeq(text, 1, k) /\ type = other[1]
    OBVIOUS
  <2>1. /\ SubSeq(text, 1, k) \in Seq(STRING) /\ SubSeq(text, 1, k) # <<>>
        /\ Len(SubSeq(text, 1, k)) = k
        /\ \A i \in 1 .. k : SubSeq(text, 1, k)[i] = text[i]
    BY FrontOfText
  <2>. DEFINE part == SubSeq(text, 1, k)
  <2>2. part \in Seq(STRING) /\ part # <<>> /\ part[1] \notin SymbolChars /\ part[1] \notin Quotes
    BY <1>1, <2>1
  <2>. HIDE DEF part
  <2>3. type \in TypesOf(part) <=> \E other \in Signs : other[2] = part /\ type = other[1]
    BY <2>2, SignTypes
  <2>. QED
    BY <2>3 DEF part
<1>3. ASSUME NEW k \in n + 1 .. Len(text), NEW type PROVE type \notin TypesOf(SubSeq(text, 1, k))
  <2>1. k \in 1 .. Len(text) /\ Len(SubSeq(text, 1, k)) = k /\ n \in Nat
    BY <1>1, FrontOfText
  <2>2. \A other \in Signs : other[2] # SubSeq(text, 1, k)
    <3>1. CASE k > 2
      BY <2>1, <3>1, SignShapes
    <3>2. CASE k <= 2
      <4>1. k = 2 /\ n < 2 /\ Len(text) > 1
        BY <1>1, <2>1, <3>2
      <4>. QED
        BY <4>1
    <3>. QED
      BY <2>1, <3>1, <3>2
  <2>. QED
    BY <1>2, <2>1, <2>2
<1>4. \A type : type \in TypesOf(SubSeq(text, 1, n)) <=> type = e[1]
  BY <1>2
<1>5. text[1] \notin Space
  BY Different
<1>. QED
  BY <1>3, <1>4, <1>5 DEF LongestIs

(* A word is a keyword if it is spelled like one, and like no more than    *)
(* one.                                                                    *)
LEMMA OneKeyword ==
  ASSUME NEW text, NEW k \in Keywords, NEW l \in Keywords, Spelled(k, text), Spelled(l, text)
  PROVE  k = l
<1>1. Len(k.start) \in 1 .. 2 /\ Len(l.start) \in 1 .. 2
  BY KeywordShapes
<1>2. /\ \A i \in 1 .. Len(k.start) : text[i] = k.start[i]
      /\ \A i \in 1 .. Len(l.start) : text[i] = l.start[i]
  BY DEF Spelled
<1>3. k.start[1] = l.start[1]
  <2>1. 1 \in 1 .. Len(k.start) /\ 1 \in 1 .. Len(l.start)
    BY <1>1, SMTT(30)
  <2>2. text[1] = k.start[1] /\ text[1] = l.start[1]
    BY <1>2, <2>1
  <2>. QED
    BY <2>2
<1>4. ASSUME Len(k.start) = 2, Len(l.start) = 2 PROVE k.start[2] = l.start[2]
  <2>1. text[2] = k.start[2] /\ text[2] = l.start[2]
    BY <1>2, <1>4
  <2>. QED
    BY <2>1
<1>. QED
  BY <1>3, <1>4, KeywordsDiffer

LEMMA WordsAreSequences == \A e \in ReservedWords : e[2] \in Seq(Lower)
<1>1. \A e \in ReservedWords : e[2] = [i \in 1 .. Len(e[2]) |-> e[2][i]]
  BY DEF ReservedWords
<1>2. ASSUME NEW e \in ReservedWords PROVE e[2] \in Seq(Lower)
  <2>. DEFINE word == e[2]
  <2>1. /\ word = [i \in 1 .. Len(word) |-> word[i]] /\ Len(word) \in Nat
        /\ \A i \in 1 .. Len(word) : word[i] \in Lower
    BY <1>1, WordShapes
  <2>. HIDE DEF word
  <2>2. word \in [1 .. Len(word) -> Lower]
    BY <2>1
  <2>3. word \in Seq(Lower)
    BY <2>1, <2>2, SeqDef
  <2>. QED
    BY <2>3 DEF word
<1>. QED
  BY <1>2

LEMMA SpelledWords ==
  ASSUME NEW text \in Seq(STRING), NEW type
  PROVE  (\E e \in ReservedWords : e[2] = text /\ type = e[1])
           <=> \E k \in Keywords : Spelled(k, text) /\ type = k.type
<1>1. ASSUME NEW k \in Keywords, Spelled(k, text)
      PROVE  \E e \in ReservedWords : e[2] = text /\ k.type = e[1]
  <2>1. PICK e \in ReservedWords : e[1] = k.type /\ Spelled(k, e[2])
    BY KeywordsAreWords
  <2>. DEFINE word == e[2]
  <2>2. word \in Seq(Lower) /\ Spelled(k, word)
    BY <2>1, WordsAreSequences
  <2>. HIDE DEF word
  <2>3. /\ Len(k.start) \in Nat /\ Len(k.suffix) \in Nat
        /\ Len(text) = Len(k.start) + Len(k.suffix) /\ Len(word) = Len(text)
    BY <1>1, <2>2, KeywordShapes DEF Spelled
  <2>4. ASSUME NEW i \in 1 .. Len(text) PROVE text[i] = word[i]
    <3>. DEFINE m == Len(k.start)
                n == Len(k.suffix)
    <3>1. /\ \A j \in 1 .. m : text[j] = k.start[j] /\ word[j] = k.start[j]
          /\ \A j \in 1 .. n : text[m + j] = k.suffix[j] /\ word[m + j] = k.suffix[j]
      BY <1>1, <2>2 DEF Spelled
    <3>2. m \in Nat /\ n \in Nat /\ i \in 1 .. m + n
      BY <2>3
    <3>. HIDE DEF m, n
    <3>3. CASE i <= m
      BY <3>1, <3>2, <3>3
    <3>4. CASE i > m
      <4>1. i - m \in 1 .. n /\ m + (i - m) = i
        BY <3>2, <3>4
      <4>. QED
        BY <3>1, <4>1
    <3>. QED
      BY <3>2, <3>3, <3>4
  <2>5. text \in Seq(Lower)
    <3>1. \A i \in 1 .. Len(text) : text[i] \in Lower
      BY <2>2, <2>3, <2>4, ElementOfSeq
    <3>2. text = [i \in 1 .. Len(text) |-> text[i]] /\ Len(text) \in Nat
      BY LenProperties
    <3>. QED
      BY <3>1, <3>2, SeqDef
  <2>6. text = word
    BY <2>2, <2>3, <2>4, <2>5, SeqEqual
  <2>. QED
    BY <2>1, <2>6 DEF word
<1>. QED
  BY <1>1, WordsAreKeywords

WordType(text, type) ==
  \/ \E k \in Keywords : Spelled(k, text) /\ type = k.type
  \/ type = "SYMBOL" /\ \A k \in Keywords : ~ Spelled(k, text)

LEMMA WordIsLongest ==
  ASSUME NEW text \in Seq(STRING), NEW n \in 1 .. Len(text), text[1] \in Letters,
         \A i \in 1 .. n : text[i] \in SymbolChars,
         n < Len(text) => text[n + 1] \notin SymbolChars,
         NEW type, WordType(SubSeq(text, 1, n), type)
  PROVE  LongestIs(text, n, type)
<1>1. Len(text) \in Nat
  BY LenProperties
<1>2. \A k \in 1 .. Len(text) : \A other :
        other \in TypesOf(SubSeq(text, 1, k)) <=>
          WordType(SubSeq(text, 1, k), other) /\ \A i \in 1 .. k : text[i] \in SymbolChars
  <2>. SUFFICES ASSUME NEW k \in 1 .. Len(text), NEW other
                PROVE  other \in TypesOf(SubSeq(text, 1, k)) <=>
                         WordType(SubSeq(text, 1, k), other) /\ \A i \in 1 .. k : text[i] \in SymbolChars
    OBVIOUS
  <2>1. /\ SubSeq(text, 1, k) \in Seq(STRING) /\ SubSeq(text, 1, k) # <<>>
        /\ Len(SubSeq(text, 1, k)) = k
        /\ \A i \in 1 .. k : SubSeq(text, 1, k)[i] = text[i]
    BY FrontOfText
  <2>. DEFINE part == SubSeq(text, 1, k)
  <2>2. part \in Seq(STRING) /\ part # <<>> /\ part[1] \in Letters
    BY <2>1
  <2>3. AllIn(part, SymbolChars) <=> \A i \in 1 .. k : text[i] \in SymbolChars
    BY <2>1 DEF AllIn
  <2>. HIDE DEF part
  <2>4. other \in TypesOf(part) <=>
          /\ AllIn(part, SymbolChars)
          /\ \/ \E e \in ReservedWords : e[2] = part /\ other = e[1]
             \/ other = "SYMBOL" /\ \A e \in ReservedWords : e[2] # part
    BY <2>2, WordTypes
  <2>5. \A t : (\E e \in ReservedWords : e[2] = part /\ t = e[1])
                 <=> \E l \in Keywords : Spelled(l, part) /\ t = l.type
    BY <2>2, SpelledWords
  <2>6. (\A e \in ReservedWords : e[2] # part) <=> \A l \in Keywords : ~ Spelled(l, part)
    BY <2>5
  <2>. QED
    BY <2>3, <2>4, <2>5, <2>6 DEF part, WordType
<1>3. \A other : other \in TypesOf(SubSeq(text, 1, n)) <=> other = type
  <2>1. \A other : WordType(SubSeq(text, 1, n), other) <=> other = type
    BY OneKeyword DEF WordType
  <2>. QED
    BY <1>2, <2>1
<1>4. \A k \in n + 1 .. Len(text) : n + 1 \in 1 .. k /\ k \in 1 .. Len(text) /\ n < Len(text)
  BY <1>1
<1>5. \A k \in n + 1 .. Len(text) : \A other : other \notin TypesOf(SubSeq(text, 1, k))
  BY <1>2, <1>4
<1>. QED
  BY <1>3, <1>5, Different DEF LongestIs

(* What may be behind the closing quote of a string.                       *)
SuffixIs(suffix, type) ==
  \/ suffix = <<>> /\ type = "UTF8_LITERAL"
  \/ /\ suffix # <<>>
     /\ \E encoding \in EncodingNames : encoding[1] = type /\ IsPrefix(suffix, encoding[2])
     /\ type = "UTF32_LITERAL" => Len(suffix) > 3

LEMMA PrefixMeans ==
  ASSUME NEW S, NEW text \in Seq(S), NEW name \in Seq(S)
  PROVE  IsPrefix(text, name) <=>
           Len(text) <= Len(name) /\ \A i \in 1 .. Len(text) : text[i] = name[i]
<1>1. Len(text) \in Nat /\ Len(name) \in Nat
  BY LenProperties
<1>2. SubSeq(text, 1, Len(text)) = text
  BY SubSeqFull
<1>3. ASSUME Len(text) <= Len(name)
      PROVE  (text = SubSeq(name, 1, Len(text))) <=> \A i \in 1 .. Len(text) : text[i] = name[i]
  <2>. DEFINE part == SubSeq(name, 1, Len(text))
  <2>1. \A i \in 1 .. Len(text) : name[i] \in S
    BY <1>1, <1>3, ElementOfSeq
  <2>2. part \in Seq(S) /\ Len(part) = Len(text) /\ \A i \in 1 .. Len(text) : part[i] = name[i]
    BY <1>1, <2>1, SubSeqProperties
  <2>. HIDE DEF part
  <2>3. (\A i \in 1 .. Len(text) : text[i] = name[i]) => text = part
    BY <2>2, SeqEqual
  <2>. QED
    BY <2>2, <2>3 DEF part
<1>. QED
  BY <1>2, <1>3 DEF IsPrefix

LEMMA EncodingShapes ==
  /\ \A i \in 1 .. 3 : Encodings[i].name \in Seq(Lower \cup Digit) /\ Len(Encodings[i].name) <= 5
  /\ DOMAIN Encodings = 1 .. 3
  /\ \A type : \A name : <<type, name>> \in EncodingNames
                          <=> \E i \in 1 .. 3 : type = Encodings[i].type /\ name = Encodings[i].name
  /\ \A encoding \in EncodingNames : encoding = <<encoding[1], encoding[2]>>
<1>1. ASSUME NEW i \in 1 .. 3
      PROVE  Encodings[i].name \in Seq(Lower \cup Digit) /\ Len(Encodings[i].name) <= 5
  <2>. DEFINE name == Encodings[i].name
  <2>0. \/ name = <<"c", "h">> \/ name = <<"u", "t", "f", "8">>
        \/ name = <<"u", "t", "f", "3", "2">>
    BY DEF Encodings
  <2>. HIDE DEF name
  <2>. DEFINE S == Lower \cup Digit
  <2>1. /\ "c" \in S /\ "h" \in S /\ "u" \in S /\ "t" \in S /\ "f" \in S
        /\ "8" \in S /\ "3" \in S /\ "2" \in S
    BY DEF Lower, Digit
  <2>. HIDE DEF S
  <2>2. /\ <<"c", "h">> \in Seq(S)
        /\ <<"u", "t", "f", "8">> \in Seq(S)
        /\ <<"u", "t", "f", "3", "2">> \in Seq(S)
    BY <2>1
  <2>3. /\ Len(<<"c", "h">>) <= 5 /\ Len(<<"u", "t", "f", "8">>) <= 5
        /\ Len(<<"u", "t", "f", "3", "2">>) <= 5
    OBVIOUS
  <2>4. name \in Seq(S) /\ Len(name) <= 5
    BY <2>0, <2>2, <2>3
  <2>. QED
    BY <2>4 DEF S, name
<1>2. DOMAIN Encodings = 1 .. 3
  BY DEF Encodings
<1>3. \A type : \A name : <<type, name>> \in EncodingNames
                          <=> \E i \in 1 .. 3 : type = Encodings[i].type /\ name = Encodings[i].name
  BY DEF Encodings, EncodingNames
<1>4. \A encoding \in EncodingNames : encoding = <<encoding[1], encoding[2]>>
  BY DEF EncodingNames
<1>. QED
  BY <1>1, <1>2, <1>3, <1>4

LEMMA FitsMeans ==
  ASSUME NEW suffix \in Seq(STRING), NEW i \in 1 .. 3
  PROVE  Fits(suffix, Encodings[i].name) <=>
           /\ Len(suffix) <= Len(Encodings[i].name)
           /\ \A k \in 1 .. Len(suffix) : suffix[k] = Encodings[i].name[k]
<1>. DEFINE S == STRING \cup Lower \cup Digit
            name == Encodings[i].name
<1>1. name \in Seq(Lower \cup Digit)
  BY EncodingShapes
<1>2. suffix \in Seq(S) /\ name \in Seq(S)
  <2>. HIDE DEF name
  <2>. QED
    BY <1>1, SeqDef
<1>. HIDE DEF S, name
<1>3. IsPrefix(suffix, name) <=>
        Len(suffix) <= Len(name) /\ \A k \in 1 .. Len(suffix) : suffix[k] = name[k]
  BY <1>2, PrefixMeans
<1>. QED
  BY <1>3 DEF Fits, name

LEMMA SuffixMeans ==
  ASSUME NEW suffix \in Seq(STRING), suffix # <<>>, NEW type
  PROVE  SuffixIs(suffix, type) <=>
           /\ \E i \in 1 .. 3 : type = Encodings[i].type /\ Fits(suffix, Encodings[i].name)
           /\ type = "UTF32_LITERAL" => Len(suffix) > 3
<1>1. (\E encoding \in EncodingNames : encoding[1] = type /\ IsPrefix(suffix, encoding[2]))
        <=> \E name : <<type, name>> \in EncodingNames /\ IsPrefix(suffix, name)
  <2>1. ASSUME NEW encoding \in EncodingNames, encoding[1] = type, IsPrefix(suffix, encoding[2])
        PROVE  \E name : <<type, name>> \in EncodingNames /\ IsPrefix(suffix, name)
    <3>1. <<type, encoding[2]>> \in EncodingNames
      BY <2>1, EncodingShapes
    <3>. QED
      BY <2>1, <3>1
  <2>2. ASSUME NEW name, <<type, name>> \in EncodingNames, IsPrefix(suffix, name)
        PROVE  \E encoding \in EncodingNames : encoding[1] = type /\ IsPrefix(suffix, encoding[2])
    BY <2>2
  <2>. QED
    BY <2>1, <2>2
<1>2. (\E name : <<type, name>> \in EncodingNames /\ IsPrefix(suffix, name))
        <=> \E i \in 1 .. 3 : type = Encodings[i].type /\ Fits(suffix, Encodings[i].name)
  <2>1. \A name : <<type, name>> \in EncodingNames
                  <=> \E i \in 1 .. 3 : type = Encodings[i].type /\ name = Encodings[i].name
    BY EncodingShapes
  <2>. QED
    BY <2>1 DEF Fits
<1>. QED
  BY <1>1, <1>2 DEF SuffixIs

LEMMA EncodingTypes ==
  /\ Encodings[1].type = "CODE_POINT_LITERAL" /\ Encodings[1].name = <<"c", "h">>
  /\ Encodings[2].type = "UTF8_LITERAL" /\ Encodings[2].name = <<"u", "t", "f", "8">>
  /\ Encodings[3].type = "UTF32_LITERAL" /\ Encodings[3].name = <<"u", "t", "f", "3", "2">>
BY DEF Encodings

(* The first encoding that fits is the one that is meant.                  *)
LEMMA FirstFits ==
  ASSUME NEW suffix \in Seq(STRING), suffix # <<>>,
         NEW fitting, fitting = {i \in 1 .. 3 : Fits(suffix, Encodings[i].name)}, fitting # {}
  PROVE  /\ Encodings[Least(fitting)].type \in StringTypes
         /\ \A type : SuffixIs(suffix, type) <=> type = Encodings[Least(fitting)].type
<1>. DEFINE F(i) == Fits(suffix, Encodings[i].name)
            Matches(i) == \A k \in 1 .. Len(suffix) : suffix[k] = Encodings[i].name[k]
<1>1. Len(suffix) \in Nat \ {0} /\ 1 \in 1 .. Len(suffix)
  BY LenProperties, EmptySeq
<1>2. \A i \in 1 .. 3 : F(i) <=> Len(suffix) <= Len(Encodings[i].name) /\ Matches(i)
  BY FitsMeans
<1>3. /\ F(1) <=> Len(suffix) <= 2 /\ \A k \in 1 .. Len(suffix) : suffix[k] = <<"c", "h">>[k]
      /\ F(2) <=> Len(suffix) <= 4 /\ \A k \in 1 .. Len(suffix) : suffix[k] = <<"u", "t", "f", "8">>[k]
      /\ F(3) <=> Len(suffix) <= 5 /\ \A k \in 1 .. Len(suffix) : suffix[k] = <<"u", "t", "f", "3", "2">>[k]
  <2>. HIDE DEF F
  <2>1. F(1) <=> Len(suffix) <= Len(Encodings[1].name) /\ Matches(1)
    BY <1>2
  <2>2. F(2) <=> Len(suffix) <= Len(Encodings[2].name) /\ Matches(2)
    BY <1>2
  <2>3. F(3) <=> Len(suffix) <= Len(Encodings[3].name) /\ Matches(3)
    BY <1>2
  <2>4. Len(Encodings[1].name) = 2 /\ Len(Encodings[2].name) = 4 /\ Len(Encodings[3].name) = 5
    BY EncodingTypes
  <2>. QED
    BY <2>1, <2>2, <2>3, <2>4, EncodingTypes
<1>. HIDE DEF F
<1>4. /\ F(1) => suffix[1] = "c"
      /\ F(2) => suffix[1] = "u" /\ (Len(suffix) > 3 => suffix[4] = "8")
      /\ F(3) => suffix[1] = "u" /\ (Len(suffix) > 3 => suffix[4] = "3")
  <2>1. Len(suffix) > 3 => 4 \in 1 .. Len(suffix)
    BY <1>1
  <2>2. F(1) => suffix[1] = "c"
    BY <1>1, <1>3
  <2>3. F(2) => suffix[1] = "u" /\ (Len(suffix) > 3 => suffix[4] = "8")
    BY <1>1, <1>3, <2>1
  <2>4. F(3) => suffix[1] = "u" /\ (Len(suffix) > 3 => suffix[4] = "3")
    BY <1>1, <1>3, <2>1
  <2>. QED
    BY <2>2, <2>3, <2>4
<1>5. F(3) /\ ~ (Len(suffix) > 3) => F(2)
  <2>. SUFFICES ASSUME F(3), ~ (Len(suffix) > 3) PROVE F(2)
    OBVIOUS
  <2>1. Len(suffix) <= 3 /\ Len(suffix) <= 4
    BY <1>1
  <2>2. \A k \in 1 .. Len(suffix) : suffix[k] = <<"u", "t", "f", "3", "2">>[k]
    BY <1>3
  <2>3. \A k \in 1 .. Len(suffix) : k = 1 \/ k = 2 \/ k = 3
    BY <1>1, <2>1
  <2>4. \A k \in 1 .. Len(suffix) : suffix[k] = <<"u", "t", "f", "8">>[k]
    BY <2>2, <2>3
  <2>. QED
    BY <1>3, <2>1, <2>4
<1>6. ~ (F(1) /\ F(2)) /\ ~ (F(1) /\ F(3)) /\ ~ (F(2) /\ F(3) /\ Len(suffix) > 3)
  BY <1>4
<1>7. \A type : SuffixIs(suffix, type) <=>
        \/ F(1) /\ type = "CODE_POINT_LITERAL"
        \/ F(2) /\ type = "UTF8_LITERAL"
        \/ F(3) /\ type = "UTF32_LITERAL" /\ Len(suffix) > 3
  <2>1. \A type : SuffixIs(suffix, type) <=>
          /\ \E i \in 1 .. 3 : type = Encodings[i].type /\ F(i)
          /\ type = "UTF32_LITERAL" => Len(suffix) > 3
    BY SuffixMeans DEF F
  <2>2. \A i : i \in 1 .. 3 <=> i = 1 \/ i = 2 \/ i = 3
    OBVIOUS
  <2>3. \A type : (\E i \in 1 .. 3 : type = Encodings[i].type /\ F(i)) <=>
          \/ F(1) /\ type = "CODE_POINT_LITERAL"
          \/ F(2) /\ type = "UTF8_LITERAL"
          \/ F(3) /\ type = "UTF32_LITERAL"
    BY <2>2, EncodingTypes
  <2>. QED
    BY <2>1, <2>3
<1>8. fitting \in SUBSET Nat /\ \A i \in 1 .. 3 : i \in fitting <=> F(i)
  BY DEF F
<1>9. \A i : i \in 1 .. 3 <=> i = 1 \/ i = 2 \/ i = 3
  OBVIOUS
<1>10. \A i \in fitting : i = 1 \/ i = 2 \/ i = 3
  BY <1>9
<1>11. CASE F(1)
  <2>1. 1 \in fitting /\ \A i \in fitting : i = 1
    BY <1>6, <1>8, <1>10, <1>11
  <2>2. Least(fitting) = 1
    BY <2>1 DEF Least, Min
  <2>. QED
    BY <1>6, <1>7, <1>11, <2>2, EncodingTypes DEF StringTypes
<1>12. CASE F(2)
  <2>1. 2 \in fitting /\ \A i \in fitting : i = 2 \/ i = 3
    BY <1>6, <1>8, <1>10, <1>12
  <2>2. Least(fitting) = 2
    BY <2>1 DEF Least, Min
  <2>. QED
    BY <1>6, <1>7, <1>12, <2>2, EncodingTypes DEF StringTypes
<1>13. CASE F(3) /\ ~ F(2) /\ ~ F(1)
  <2>1. 3 \in fitting /\ \A i \in fitting : i = 3
    BY <1>8, <1>10, <1>13
  <2>2. Least(fitting) = 3
    BY <2>1 DEF Least, Min
  <2>. QED
    BY <1>5, <1>7, <1>13, <2>2, EncodingTypes DEF StringTypes
<1>. QED
  BY <1>8, <1>10, <1>11, <1>12, <1>13

LEMMA SuffixesAreSymbols ==
  ASSUME NEW suffix \in Seq(STRING), NEW type, SuffixIs(suffix, type)
  PROVE  AllIn(suffix, SymbolChars)
<1>1. CASE suffix = <<>>
  BY <1>1 DEF AllIn
<1>2. CASE suffix # <<>>
  <2>1. PICK i \in 1 .. 3 : Fits(suffix, Encodings[i].name)
    BY <1>2, SuffixMeans
  <2>. DEFINE name == Encodings[i].name
  <2>2. name \in Seq(Lower \cup Digit)
    BY EncodingShapes
  <2>3. Len(suffix) <= Len(name) /\ \A k \in 1 .. Len(suffix) : suffix[k] = name[k]
    BY <2>1, FitsMeans
  <2>. HIDE DEF name
  <2>4. \A k \in 1 .. Len(name) : name[k] \in Lower \cup Digit
    BY <2>2, ElementOfSeq
  <2>5. Len(suffix) \in Nat /\ Len(name) \in Nat
    BY <2>2, LenProperties
  <2>6. \A k \in 1 .. Len(suffix) : k \in 1 .. Len(name)
    BY <2>3, <2>5
  <2>. QED
    BY <2>3, <2>4, <2>6, SameAlphabets DEF AllIn
<1>. QED
  BY <1>1, <1>2

(* The quote that closes a string is the first one like that it begins     *)
(* with.                                                                   *)
Closes(text, closing) ==
  /\ text[1] \in Quotes /\ closing \in 2 .. Len(text) /\ text[closing] = text[1]
  /\ \A i \in 2 .. closing - 1 : text[i] # text[1]

LEMMA StringMeans ==
  ASSUME NEW text \in Seq(STRING), NEW closing, Closes(text, closing), NEW k \in 1 .. Len(text), NEW type
  PROVE  type \in TypesOf(SubSeq(text, 1, k)) <=>
           type \in StringTypes /\ closing <= k /\ SuffixIs(SubSeq(text, closing + 1, k), type)
<1>. DEFINE part == SubSeq(text, 1, k)
<1>1. /\ part \in Seq(STRING) /\ part # <<>> /\ Len(part) = k
      /\ \A i \in 1 .. k : part[i] = text[i]
  BY FrontOfText
<1>2. /\ Len(text) \in Nat /\ closing \in Nat /\ k \in Nat /\ k <= Len(text) /\ 2 <= closing
      /\ closing <= Len(text)
  BY LenProperties DEF Closes
<1>3. part[1] = text[1] /\ part[1] \in Quotes
  BY <1>1 DEF Closes
<1>4. ASSUME closing <= k
      PROVE  SubSeq(part, closing + 1, Len(part)) = SubSeq(text, closing + 1, k)
  <2>. DEFINE a == SubSeq(part, closing + 1, Len(part))
              b == SubSeq(text, closing + 1, k)
  <2>. HIDE DEF part
  <2>1. /\ a \in Seq(STRING) /\ Len(a) = k - closing
        /\ \A i \in 1 .. k - closing : a[i] = part[closing + i]
    <3>1. closing + 1 \in Nat \ {0} /\ k \in Nat /\ closing + 1 <= k + 1 /\ k + 1 - (closing + 1) = k - closing
      BY <1>2, <1>4
    <3>. QED
      BY <1>1, <1>2, <3>1, PartOfText
  <2>2. /\ b \in Seq(STRING) /\ Len(b) = k - closing
        /\ \A i \in 1 .. k - closing : b[i] = text[closing + i]
    <3>1. closing + 1 \in Nat \ {0} /\ k \in Nat /\ closing + 1 <= k + 1 /\ k + 1 - (closing + 1) = k - closing
      BY <1>2, <1>4
    <3>. QED
      BY <1>2, <3>1, PartOfText
  <2>3. \A i \in 1 .. k - closing : a[i] = b[i]
    BY <1>1, <1>2, <2>1, <2>2
  <2>. HIDE DEF a, b
  <2>. QED
    BY <2>1, <2>2, <2>3, SeqEqual DEF a, b
<1>. HIDE DEF part
<1>5. \A c \in 2 .. k : (part[c] = part[1] /\ \A i \in 2 .. c - 1 : part[i] # part[1]) <=> c = closing
  <2>. SUFFICES ASSUME NEW c \in 2 .. k
                PROVE (part[c] = part[1] /\ \A i \in 2 .. c - 1 : part[i] # part[1]) <=> c = closing
    OBVIOUS
  <2>1. CASE c = closing
    BY <1>1, <1>2, <1>3, <2>1 DEF Closes
  <2>2. CASE c < closing
    <3>1. c \in 2 .. closing - 1
      BY <1>2, <2>2
    <3>. QED
      BY <1>1, <1>2, <1>3, <2>2, <3>1 DEF Closes
  <2>3. CASE c > closing
    <3>1. closing \in 2 .. c - 1 /\ closing \in 1 .. k
      BY <1>2, <2>3
    <3>2. part[closing] = part[1]
      BY <1>1, <1>3, <3>1 DEF Closes
    <3>. QED
      BY <2>3, <3>1, <3>2
  <2>. QED
    BY <1>2, <2>1, <2>2, <2>3
<1>6. IsString(part, type) <=> closing <= k /\ SuffixIs(SubSeq(part, closing + 1, Len(part)), type)
  <2>1. closing <= k <=> closing \in 2 .. k
    BY <1>2
  <2>2. closing <= k => k > 1
    BY <1>2
  <2>3. IsString(part, type) <=>
          \E c \in 2 .. k : /\ part[c] = part[1]
                            /\ \A i \in 2 .. c - 1 : part[i] # part[1]
                            /\ SuffixIs(SubSeq(part, c + 1, Len(part)), type)
    <3>1. \A c \in 2 .. k : k > 1
      BY <1>2
    <3>. QED
      BY <1>1, <1>3, <3>1 DEF IsString, SuffixIs
  <2>. QED
    BY <1>5, <2>1, <2>3
<1>7. type \in TypesOf(part) <=> type \in StringTypes /\ IsString(part, type)
  BY <1>1, <1>3, StringTokenTypes
<1>. QED
  BY <1>4, <1>6, <1>7 DEF part

LEMMA StringIsLongest ==
  ASSUME NEW text \in Seq(STRING), NEW closing, Closes(text, closing), NEW n \in closing .. Len(text),
         \A i \in closing + 1 .. n : text[i] \in SymbolChars,
         n < Len(text) => text[n + 1] \notin SymbolChars,
         NEW type \in StringTypes,
         \A other : SuffixIs(SubSeq(text, closing + 1, n), other) <=> other = type
  PROVE  LongestIs(text, n, type)
<1>1. /\ Len(text) \in Nat /\ closing \in Nat /\ 2 <= closing /\ closing <= n /\ n \in 1 .. Len(text)
      /\ text[1] \notin Space
  BY LenProperties, Different DEF Closes
<1>2. \A other : other \in TypesOf(SubSeq(text, 1, n)) <=> other = type
  BY <1>1, StringMeans
<1>3. ASSUME NEW k \in n + 1 .. Len(text), NEW other PROVE other \notin TypesOf(SubSeq(text, 1, k))
  <2>1. k \in 1 .. Len(text) /\ k \in Nat /\ n \in Nat /\ n < Len(text) /\ n < k
    BY <1>1
  <2>. DEFINE suffix == SubSeq(text, closing + 1, k)
  <2>2. /\ suffix \in Seq(STRING) /\ Len(suffix) = k - closing
        /\ \A i \in 1 .. k - closing : suffix[i] = text[closing + i]
    <3>1. closing + 1 \in Nat \ {0} /\ closing + 1 <= k + 1 /\ k + 1 - (closing + 1) = k - closing
          /\ k <= Len(text)
      BY <1>1, <2>1
    <3>. QED
      BY <1>1, <2>1, <3>1, PartOfText
  <2>. HIDE DEF suffix
  <2>3. n + 1 - closing \in 1 .. k - closing /\ closing + (n + 1 - closing) = n + 1
    BY <1>1, <2>1
  <2>4. suffix[n + 1 - closing] \notin SymbolChars
    BY <2>1, <2>2, <2>3
  <2>5. ~ SuffixIs(suffix, other)
    <3>1. ~ AllIn(suffix, SymbolChars)
      BY <2>2, <2>3, <2>4 DEF AllIn
    <3>. QED
      BY <2>2, <3>1, SuffixesAreSymbols
  <2>6. other \in TypesOf(SubSeq(text, 1, k)) =>
           SuffixIs(SubSeq(text, closing + 1, k), other)
    BY <2>1, StringMeans
  <2>. QED
    BY <2>5, <2>6 DEF suffix
<1>. QED
  BY <1>1, <1>2, <1>3 DEF LongestIs

(* Behind the closing quote, all the letters and digits there are make no  *)
(* encoding: a beginning of them may.                                      *)
LEMMA UnknownIs ==
  ASSUME NEW text \in Seq(STRING), NEW closing, Closes(text, closing), NEW n \in closing + 1 .. Len(text),
         \A i \in closing + 1 .. n : text[i] \in SymbolChars,
         n < Len(text) => text[n + 1] \notin SymbolChars,
         \A type : ~ SuffixIs(SubSeq(text, closing + 1, n), type)
  PROVE  ~ IsLast(text) /\ UnknownEncoding(text)
<1>1. /\ Len(text) \in Nat /\ closing \in Nat /\ 2 <= closing /\ closing < n /\ n \in Nat /\ n <= Len(text)
      /\ DOMAIN text = 1 .. Len(text) /\ text[1] \in Quotes /\ text # <<>>
  BY LenProperties, EmptySeq DEF Closes
<1>2. closing \in Lengths(text)
  <2>1. closing \in 1 .. Len(text) /\ closing + 1 > closing
    BY <1>1
  <2>2. SubSeq(text, closing + 1, closing) = <<>>
    BY <1>1, <2>1, SubSeqEmpty
  <2>3. SuffixIs(SubSeq(text, closing + 1, closing), "UTF8_LITERAL")
    BY <2>2 DEF SuffixIs
  <2>4. "UTF8_LITERAL" \in TypesOf(SubSeq(text, 1, closing))
    BY <1>1, <2>1, <2>3, StringMeans DEF StringTypes
  <2>. QED
    BY <1>1, <2>1, <2>4 DEF Lengths
<1>. DEFINE m == Greatest(Lengths(text))
<1>3. m \in Lengths(text) /\ \A k \in Lengths(text) : k <= m
  <2>1. Lengths(text) \in SUBSET Nat /\ \A k \in Lengths(text) : k <= Len(text)
    BY <1>1 DEF Lengths
  <2>. QED
    BY <1>1, <1>2, <2>1, GreatestIs
<1>. HIDE DEF m
<1>4. m \in 1 .. Len(text) /\ m \in Nat /\ closing <= m
  BY <1>1, <1>2, <1>3 DEF Lengths
<1>5. PICK type : SuffixIs(SubSeq(text, closing + 1, m), type)
  <2>1. \E type : type \in TypesOf(SubSeq(text, 1, m))
    BY <1>3 DEF Lengths
  <2>. QED
    BY <1>4, <2>1, StringMeans
<1>6. m # n
  BY <1>5
<1>7. ~ (m > n)
  <2>. SUFFICES ASSUME m > n PROVE FALSE
    OBVIOUS
  <2>. DEFINE suffix == SubSeq(text, closing + 1, m)
  <2>1. /\ suffix \in Seq(STRING) /\ Len(suffix) = m - closing
        /\ \A i \in 1 .. m - closing : suffix[i] = text[closing + i]
    <3>1. closing + 1 \in Nat \ {0} /\ closing + 1 <= m + 1 /\ m + 1 - (closing + 1) = m - closing
          /\ m <= Len(text)
      BY <1>1, <1>4
    <3>. QED
      BY <1>1, <1>4, <3>1, PartOfText
  <2>2. n + 1 - closing \in 1 .. m - closing /\ closing + (n + 1 - closing) = n + 1 /\ n < Len(text)
    BY <1>1, <1>4
  <2>3. SuffixIs(suffix, type)
    BY <1>5
  <2>. HIDE DEF suffix
  <2>4. suffix[n + 1 - closing] \notin SymbolChars
    BY <2>1, <2>2
  <2>5. AllIn(suffix, SymbolChars)
    BY <2>1, <2>3, SuffixesAreSymbols
  <2>. QED
    BY <2>1, <2>2, <2>4, <2>5 DEF AllIn
<1>8. m < n /\ m + 1 \in closing + 1 .. n /\ m < Len(text)
  BY <1>1, <1>4, <1>6, <1>7
<1>9. text[m + 1] \in Lower \cup Upper \cup Digit
  BY <1>8, SameAlphabets
<1>10. UnknownEncoding(text)
  BY <1>1, <1>2, <1>8, <1>9 DEF UnknownEncoding, m, Greatest
<1>11. ~ IsLast(text)
  BY <1>1, <1>2 DEF IsLast
<1>. QED
  BY <1>10, <1>11

-------------------------------------------------------------------------------
(* Texts that begin with no token.                                         *)

BeginsNoToken(text) == \A k \in 1 .. Len(text) : \A type : type \notin TypesOf(SubSeq(text, 1, k))

LEMMA LengthsOfNone ==
  ASSUME NEW text \in Seq(STRING), BeginsNoToken(text)
  PROVE  Lengths(text) = {}
<1>1. DOMAIN text = 1 .. Len(text)
  BY LenProperties
<1>. QED
  BY <1>1 DEF BeginsNoToken, Lengths

(* A string that is not closed takes the line with it.                     *)
LEMMA OpenString ==
  ASSUME NEW text \in Seq(STRING), text # <<>>, text[1] \in Quotes,
         \A i \in 2 .. Len(text) : text[i] # text[1],
         NEW line \in Nat
  PROVE  /\ TokensOf[text][line] =
              <<Unwritten("ERROR", line)>> \o TokensOf[SubSeq(text, Len(text) + 1, Len(text))][line]
         /\ EncodingsKnown[text] => EncodingsKnown[SubSeq(text, Len(text) + 1, Len(text))]
<1>1. Len(text) \in Nat
  BY LenProperties
<1>2. BeginsNoToken(text)
  <2>. SUFFICES ASSUME NEW k \in 1 .. Len(text), NEW type PROVE type \notin TypesOf(SubSeq(text, 1, k))
    BY DEF BeginsNoToken
  <2>. DEFINE part == SubSeq(text, 1, k)
  <2>1. /\ part \in Seq(STRING) /\ part # <<>> /\ Len(part) = k
        /\ \A i \in 1 .. k : part[i] = text[i]
    BY FrontOfText
  <2>2. part[1] \in Quotes /\ \A i \in 2 .. k : part[i] # part[1]
    BY <1>1, <2>1
  <2>. HIDE DEF part
  <2>3. ~ IsString(part, type)
    BY <2>1, <2>2 DEF IsString
  <2>4. type \notin TypesOf(part)
    BY <2>1, <2>2, <2>3, StringTokenTypes
  <2>. QED
    BY <2>4 DEF part
<1>3. Lengths(text) = {}
  BY <1>2, LengthsOfNone
<1>4. /\ text[1] \notin Space /\ text[1] # "!" /\ text[1] # "\n"
  BY Different DEF SignChars, Space
<1>5. ~ IsLast(text) /\ TokensInFront(text, line) = <<Unwritten("ERROR", line)>>
      /\ Behind(text) = SubSeq(text, Len(text) + 1, Len(text)) /\ LineBehind(text, line) = line
  BY <1>3, <1>4 DEF IsLast, TokensInFront, Behind, Taken, LineBehind
<1>6. EncodingsKnown[text] => EncodingsKnown[SubSeq(text, Len(text) + 1, Len(text))]
  BY <1>5, KnownText
<1>. QED
  BY <1>5, <1>6, TokensOfText

(* A character that begins no sign is an error of its own, and a "!" one   *)
(* that is never passed.                                                   *)
LEMMA NoSign ==
  ASSUME NEW text \in Seq(STRING), text # <<>>, text[1] \notin Space, text[1] \notin Quotes,
         text[1] \notin SymbolChars, \A k \in 1 .. Len(text) : \A e \in Signs : e[2] # SubSeq(text, 1, k),
         NEW line \in Nat
  PROVE  /\ TokensOf[text][line] =
              IF text[1] = "!" THEN <<Unwritten("ERROR", line)>>
              ELSE <<Unwritten("ERROR", line)>> \o TokensOf[SubSeq(text, 2, Len(text))][line]
         /\ text[1] # "!" /\ EncodingsKnown[text] => EncodingsKnown[SubSeq(text, 2, Len(text))]
<1>1. BeginsNoToken(text)
  <2>. SUFFICES ASSUME NEW k \in 1 .. Len(text), NEW type PROVE type \notin TypesOf(SubSeq(text, 1, k))
    BY DEF BeginsNoToken
  <2>. DEFINE part == SubSeq(text, 1, k)
  <2>1. /\ part \in Seq(STRING) /\ part # <<>> /\ Len(part) = k
        /\ \A i \in 1 .. k : part[i] = text[i]
    BY FrontOfText
  <2>2. part[1] \notin Quotes /\ part[1] \notin SymbolChars /\ \A e \in Signs : e[2] # part
    BY <2>1
  <2>. HIDE DEF part
  <2>3. type \notin TypesOf(part)
    BY <2>1, <2>2, SignTypes
  <2>. QED
    BY <2>3 DEF part
<1>2. Lengths(text) = {}
  BY <1>1, LengthsOfNone
<1>3. TokensInFront(text, line) = <<Unwritten("ERROR", line)>>
  BY <1>2 DEF TokensInFront
<1>4. LineBehind(text, line) = line
  BY DEF LineBehind, Space
<1>5. IsLast(text) <=> text[1] = "!"
  BY <1>2 DEF IsLast
<1>6. Behind(text) = SubSeq(text, 2, Len(text))
  BY <1>2 DEF Behind, Taken
<1>7. text[1] # "!" /\ EncodingsKnown[text] => EncodingsKnown[SubSeq(text, 2, Len(text))]
  BY <1>5, <1>6, KnownText
<1>. QED
  BY <1>3, <1>4, <1>5, <1>6, <1>7, TokensOfText

LEMMA EndOfText ==
  ASSUME NEW line \in Nat
  PROVE  TokensOf[<<>>][line] = <<Unwritten("EOF", line)>>
<1>1. <<>> \in Seq(STRING) /\ IsLast(<<>>) /\ TokensInFront(<<>>, line) = <<Unwritten("EOF", line)>>
  BY EmptySeq DEF IsLast, TokensInFront
<1>. QED
  BY <1>1, TokensOfText

(* Space is no token, and counts the lines.                                *)
LEMMA BehindSpace ==
  ASSUME NEW text \in Seq(STRING), text # <<>>, text[1] \in Space, NEW line \in Nat
  PROVE  /\ TokensOf[text][line] = TokensOf[SubSeq(text, 2, Len(text))][LineBehind(text, line)]
         /\ EncodingsKnown[text] => EncodingsKnown[SubSeq(text, 2, Len(text))]
<1>1. text[1] # "!"
  BY Different DEF SignChars
<1>2. ~ IsLast(text) /\ TokensInFront(text, line) = <<>> /\ Behind(text) = SubSeq(text, 2, Len(text))
  BY <1>1 DEF IsLast, TokensInFront, Behind, Taken
<1>. DEFINE rest == TokensOf[Behind(text)][LineBehind(text, line)]
<1>3. rest \in Seq(Tokens)
  <2>1. Behind(text) \in Seq(STRING) /\ LineBehind(text, line) \in Nat
    BY BehindIsShorter DEF LineBehind
  <2>. QED
    BY <2>1, TokensOfText
<1>4. <<>> \o rest = rest
  <2>. HIDE DEF rest
  <2>. QED
    BY <1>3, ConcatEmptySeq
<1>5. EncodingsKnown[text] => EncodingsKnown[SubSeq(text, 2, Len(text))]
  BY <1>2, KnownText
<1>. QED
  BY <1>2, <1>4, <1>5, TokensOfText

===============================================================================
