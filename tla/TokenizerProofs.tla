---------------------------- MODULE TokenizerProofs ----------------------------
(***************************************************************************)
(* The tokenizer returns the tokens of Lexicon, whatever lines are entered *)
(* and in whatever order it is peeked at and scanned.                      *)
(***************************************************************************)
EXTENDS Tokenizer, TokenizerLemmas

Fields == {"source", "current", "line", "lookahead", "hasLookahead", "token", "stop"}

Standing(t) ==
  /\ DOMAIN t = Fields
  /\ t.source \in Seq(STRING \ {NUL})
  /\ t.current \in 1 .. Len(t.source) + 1
  /\ t.line \in Nat

(* The text behind a tokenizer, the tokens of it, and whether the          *)
(* encodings in it are known.                                              *)
TextLeft(t) == SubSeq(t.source, t.current, Len(t.source))

TokensLeft(t) == TokensOf[TextLeft(t)][t.line]

Known(t) == EncodingsKnown[TextLeft(t)]

LEMMA Standings ==
  ASSUME NEW t, Standing(t)
  PROVE  /\ t.source \in Seq(STRING \ {NUL}) /\ t.source \in Seq(STRING) /\ Len(t.source) \in Nat
         /\ t.current \in Nat \ {0} /\ t.current <= Len(t.source) + 1
         /\ t.line \in Nat
<1>1. t.source \in Seq(STRING \ {NUL}) /\ Len(t.source) \in Nat
  BY LenProperties DEF Standing
<1>2. t.source \in Seq(STRING)
  BY <1>1, SeqDef
<1>. QED
  BY <1>1, <1>2 DEF Standing

LEMMA CharIs ==
  ASSUME NEW t, Standing(t), NEW i \in Nat \ {0}
  PROVE  /\ i <= Len(t.source) => CharAt(t, i) = t.source[i] /\ CharAt(t, i) # NUL
         /\ i > Len(t.source) => CharAt(t, i) = NUL
<1>1. DOMAIN t.source = 1 .. Len(t.source) /\ Len(t.source) \in Nat
  BY Standings, LenProperties
<1>2. ASSUME i <= Len(t.source) PROVE i \in 1 .. Len(t.source) /\ t.source[i] \in STRING \ {NUL}
  BY <1>1, <1>2, Standings, ElementOfSeq
<1>3. ASSUME i > Len(t.source) PROVE i \notin 1 .. Len(t.source)
  BY <1>1, <1>3
<1>. QED
  BY <1>1, <1>2, <1>3 DEF CharAt

LEMMA TextLeftIs ==
  ASSUME NEW t, Standing(t)
  PROVE  /\ TextLeft(t) \in Seq(STRING)
         /\ Len(TextLeft(t)) = Len(t.source) + 1 - t.current
         /\ \A i \in 1 .. Len(TextLeft(t)) :
              TextLeft(t)[i] = CharAt(t, t.current + i - 1) /\ TextLeft(t)[i] # NUL
<1>1. /\ t.source \in Seq(STRING) /\ Len(t.source) \in Nat
      /\ t.current \in Nat \ {0} /\ t.current <= Len(t.source) + 1
  BY Standings
<1>3. /\ TextLeft(t) \in Seq(STRING)
      /\ Len(TextLeft(t)) = Len(t.source) + 1 - t.current
      /\ \A i \in 1 .. Len(t.source) + 1 - t.current : TextLeft(t)[i] = t.source[t.current + i - 1]
  BY <1>1, PartOfText, SMTT(30) DEF TextLeft
<1>4. ASSUME NEW i \in 1 .. Len(TextLeft(t))
      PROVE  TextLeft(t)[i] = CharAt(t, t.current + i - 1) /\ TextLeft(t)[i] # NUL
  <2>1. t.current + i - 1 \in Nat \ {0} /\ t.current + i - 1 <= Len(t.source)
    BY <1>1, <1>3
  <2>. QED
    BY <1>1, <1>3, <2>1, CharIs
<1>. QED
  BY <1>3, <1>4

LEMMA TextChars ==
  ASSUME NEW t, Standing(t)
  PROVE  \A i \in 1 .. Len(TextLeft(t)) : TextLeft(t)[i] = t.source[t.current + i - 1]
<1>1. /\ t.source \in Seq(STRING) /\ Len(t.source) \in Nat
      /\ t.current \in Nat \ {0} /\ t.current <= Len(t.source) + 1
      /\ Len(TextLeft(t)) = Len(t.source) + 1 - t.current
  BY Standings, TextLeftIs
<1>. QED
  BY <1>1, PartOfText, SMTT(30) DEF TextLeft

(* Where it goes on, and what it left behind.                              *)
LEMMA Moved ==
  ASSUME NEW t, Standing(t), NEW n \in 0 .. Len(TextLeft(t))
  PROVE  /\ t.current + n \in 1 .. Len(t.source) + 1
         /\ SubSeq(t.source, t.current, t.current + n - 1) = SubSeq(TextLeft(t), 1, n)
         /\ SubSeq(t.source, t.current + n, Len(t.source)) = SubSeq(TextLeft(t), n + 1, Len(TextLeft(t)))
<1>. DEFINE source == t.source
            current == t.current
            text == TextLeft(t)
<1>1. /\ source \in Seq(STRING) /\ Len(source) \in Nat
      /\ current \in Nat \ {0} /\ current <= Len(source) + 1 /\ n \in Nat
      /\ text \in Seq(STRING) /\ Len(text) = Len(source) + 1 - current /\ n <= Len(text)
  BY Standings, TextLeftIs
<1>4. \A i \in 1 .. Len(text) : text[i] = source[current + i - 1]
  BY TextChars
<1>. HIDE DEF source, current, text
<1>5. SubSeq(source, current, current + n - 1) = SubSeq(text, 1, n)
  <2>. DEFINE a == SubSeq(source, current, current + n - 1)
              b == SubSeq(text, 1, n)
  <2>1. /\ a \in Seq(STRING) /\ Len(a) = n
        /\ \A i \in 1 .. n : a[i] = source[current + i - 1]
    <3>1. current + n - 1 \in Nat /\ (current + n - 1) + 1 - current = n
      BY <1>1
    <3>2. current <= (current + n - 1) + 1 /\ current + n - 1 <= Len(source)
      BY <1>1
    <3>. QED
      BY <1>1, <3>1, <3>2, PartOfText
  <2>2. /\ b \in Seq(STRING) /\ Len(b) = n
        /\ \A i \in 1 .. n : b[i] = text[i]
    BY <1>1, PartOfText
  <2>3. \A i \in 1 .. n : a[i] = b[i]
    BY <1>1, <1>4, <2>1, <2>2
  <2>. HIDE DEF a, b
  <2>. QED
    BY <2>1, <2>2, <2>3, SeqEqual DEF a, b
<1>6. SubSeq(source, current + n, Len(source)) = SubSeq(text, n + 1, Len(text))
  <2>. DEFINE a == SubSeq(source, current + n, Len(source))
              b == SubSeq(text, n + 1, Len(text))
  <2>1. /\ a \in Seq(STRING) /\ Len(a) = Len(text) - n
        /\ \A i \in 1 .. Len(text) - n : a[i] = source[current + n + i - 1]
    <3>1. current + n \in Nat \ {0} /\ current + n <= Len(source) + 1
      BY <1>1
    <3>2. Len(source) + 1 - (current + n) = Len(text) - n
      BY <1>1
    <3>. QED
      BY <1>1, <3>1, <3>2, PartOfText
  <2>2. /\ b \in Seq(STRING) /\ Len(b) = Len(text) - n
        /\ \A i \in 1 .. Len(text) - n : b[i] = text[n + i]
    <3>1. Len(text) + 1 - (n + 1) = Len(text) - n /\ n + 1 \in Nat \ {0} /\ n + 1 <= Len(text) + 1
      BY <1>1
    <3>. QED
      BY <1>1, <3>1, PartOfText
  <2>3. \A i \in 1 .. Len(text) - n : a[i] = b[i]
    BY <1>1, <1>4, <2>1, <2>2
  <2>. HIDE DEF a, b
  <2>. QED
    BY <2>1, <2>2, <2>3, SeqEqual DEF a, b
<1>7. current + n \in 1 .. Len(source) + 1
  BY <1>1
<1>. QED
  BY <1>5, <1>6, <1>7 DEF source, current, text

LEMMA PastIs ==
  ASSUME NEW t, Standing(t), NEW i \in 1 .. Len(t.source) + 1, NEW chars, NUL \notin chars
  PROVE  /\ Past(t, i, chars) \in i .. Len(t.source) + 1
         /\ CharAt(t, Past(t, i, chars)) \notin chars
         /\ \A j \in i .. Past(t, i, chars) - 1 : CharAt(t, j) \in chars
<1>. DEFINE S == {j \in i .. Len(t.source) + 1 : CharAt(t, j) \notin chars}
            p == Past(t, i, chars)
<1>1. Len(t.source) \in Nat
  BY Standings
<1>2. Len(t.source) + 1 \in S
  BY <1>1, CharIs
<1>3. S \subseteq Nat
  OBVIOUS
<1>4. p \in S /\ \A j \in S : p <= j
  <2>1. Past(t, i, chars) = Least(S)
    BY DEF Past, Least
  <2>. HIDE DEF S, p
  <2>2. Least(S) \in S /\ \A j \in S : Least(S) <= j
    BY <1>2, <1>3, LeastIs
  <2>. QED
    BY <2>1, <2>2 DEF p
<1>5. ASSUME NEW j \in i .. p - 1 PROVE CharAt(t, j) \in chars
  <2>1. p \in i .. Len(t.source) + 1
    BY <1>4
  <2>2. j \in i .. Len(t.source) + 1 /\ ~ (p <= j)
    BY <1>1, <2>1
  <2>. QED
    BY <1>4, <2>2
<1>. QED
  BY <1>4, <1>5

-------------------------------------------------------------------------------
(* What scanning may do to a tokenizer.                                    *)

Rests(t, u) ==
  /\ DOMAIN u = Fields /\ u.source = t.source
  /\ u.lookahead = t.lookahead /\ u.hasLookahead = t.hasLookahead

Moves(t, u) == Rests(t, u) /\ u.line = t.line /\ u.stop = t.stop

Emits(t, u, type, n) ==
  /\ Moves(t, u)
  /\ u.current = t.current + n
  /\ u.token = Token(type, SubSeq(TextLeft(t), 1, n), t.line)

(* It stops at an unknown encoding and has used up nothing, or returns the *)
(* first of the tokens that were left.                                     *)
Stops(t, u) ==
  /\ t.current <= Len(t.source) /\ ~ Known(t)
  /\ u.stop = "assert(false)" /\ u.token = t.token /\ TokensLeft(u) = TokensLeft(t)

Returns(t, u) ==
  /\ u.stop = t.stop /\ u.token \in Tokens
  /\ u.token.type = "EOF" => u.current = Len(u.source) + 1 /\ u.token.line = u.line
  /\ t.current = Len(t.source) + 1 => u.token.type = "EOF" /\ u.line = t.line
  /\ \/ TokensLeft(t) = <<u.token>> \o TokensLeft(u)
     \/ TokensLeft(t) = <<u.token>> /\ TokensLeft(u) = <<u.token>>
  /\ Known(t) => Known(u)

Scanned(t, u) == Standing(u) /\ Rests(t, u) /\ (Stops(t, u) \/ Returns(t, u))

LEMMA TokenFields ==
  \A type : \A lexeme : \A line :
    /\ Token(type, lexeme, line).type = type /\ Token(type, lexeme, line).lexeme = lexeme
    /\ Token(type, lexeme, line).line = line
BY DEF Token

LEMMA EmitsLongest ==
  ASSUME NEW t, Standing(t), NEW u, NEW type, NEW n, LongestIs(TextLeft(t), n, type), Emits(t, u, type, n)
  PROVE  Scanned(t, u)
<1>. DEFINE text == TextLeft(t)
<1>1. text \in Seq(STRING) /\ Len(text) = Len(t.source) + 1 - t.current
  BY TextLeftIs
<1>2. n \in 1 .. Len(text) /\ n \in 0 .. Len(text) /\ Len(t.source) \in Nat /\ t.current \in Nat
      /\ t.line \in Nat
  BY <1>1, Standings DEF LongestIs
<1>3. /\ t.current + n \in 1 .. Len(t.source) + 1
      /\ SubSeq(t.source, t.current + n, Len(t.source)) = SubSeq(text, n + 1, Len(text))
  BY <1>2, Moved
<1>4. Standing(u)
  BY <1>3 DEF Standing, Emits, Moves, Rests
<1>5. /\ TokensLeft(u) = TokensOf[SubSeq(text, n + 1, Len(text))][t.line]
      /\ Known(u) <=> EncodingsKnown[SubSeq(text, n + 1, Len(text))]
  BY <1>3 DEF TokensLeft, TextLeft, Known, Emits, Moves, Rests
<1>6. u.token \in Tokens /\ TokensLeft(t) = <<u.token>> \o TokensLeft(u) /\ (Known(t) => Known(u))
  <2>. DEFINE line == t.line
  <2>0. line \in Nat /\ LongestIs(text, n, type)
    BY <1>2
  <2>. HIDE DEF text, line
  <2>1. /\ Token(type, SubSeq(text, 1, n), line) \in Tokens
        /\ TokensOf[text][line] =
              <<Token(type, SubSeq(text, 1, n), line)>> \o TokensOf[SubSeq(text, n + 1, Len(text))][line]
        /\ EncodingsKnown[text] => EncodingsKnown[SubSeq(text, n + 1, Len(text))]
    BY <1>1, <2>0, BehindLongest
  <2>2. u.token = Token(type, SubSeq(text, 1, n), t.line)
    BY DEF Emits, text
  <2>3. TokensLeft(t) = TokensOf[text][t.line] /\ (Known(t) <=> EncodingsKnown[text])
    BY DEF TokensLeft, Known, text
  <2>. QED
    BY <1>5, <2>1, <2>2, <2>3 DEF line
<1>7. u.token.type # "EOF"
  <2>1. SubSeq(text, 1, n) \in Seq(STRING)
    BY <1>1, <1>2, FrontOfText
  <2>2. type \in TypesOf(SubSeq(text, 1, n))
    BY DEF LongestIs
  <2>3. type # "EOF"
    BY <2>1, <2>2, NoTextIsEnd
  <2>. QED
    BY <2>3, TokenFields DEF Emits
<1>8. t.current # Len(t.source) + 1
  BY <1>1, <1>2
<1>. QED
  BY <1>4, <1>6, <1>7, <1>8 DEF Scanned, Returns, Emits, Moves

(* How the functions move and return.                                      *)

LEMMA Moving ==
  ASSUME NEW t, NEW u, Moves(t, u), NEW place
  PROVE  Moves(t, [u EXCEPT !.current = place]) /\ [u EXCEPT !.current = place].current = place
BY DEF Moves, Rests, Fields

LEMMA Advancing ==
  ASSUME NEW t, NEW u, Moves(t, u), NEW n
  PROVE  Moves(t, Advance(u, n)) /\ Advance(u, n).current = u.current + n
BY DEF Moves, Rests, Fields, Advance

LEMMA SameCharacters ==
  ASSUME NEW t, NEW u, Moves(t, u)
  PROVE  /\ \A i : CharAt(u, i) = CharAt(t, i)
         /\ \A i : \A chars : Past(u, i, chars) = Past(t, i, chars)
BY DEF Moves, Rests, CharAt, Past

LEMMA ReturningLexeme ==
  ASSUME NEW t, Standing(t), NEW u, Moves(t, u), u.current \in t.current .. Len(t.source) + 1, NEW type
  PROVE  Emits(t, ReturnLexeme(u, type, t.current), type, u.current - t.current)
<1>. DEFINE n == u.current - t.current
            v == ReturnLexeme(u, type, t.current)
<1>1. /\ Len(TextLeft(t)) = Len(t.source) + 1 - t.current /\ Len(t.source) \in Nat
      /\ t.current \in Nat \ {0} /\ t.current <= Len(t.source) + 1
  BY TextLeftIs, Standings
<1>2. n \in 0 .. Len(TextLeft(t)) /\ t.current + n = u.current
  BY <1>1
<1>3. SubSeq(t.source, t.current, u.current - 1) = SubSeq(TextLeft(t), 1, n)
  <2>. HIDE DEF n
  <2>1. SubSeq(t.source, t.current, t.current + n - 1) = SubSeq(TextLeft(t), 1, n)
    BY <1>2, Moved
  <2>2. u.current - 1 = t.current + n - 1
    BY <1>1, <1>2
  <2>. QED
    BY <2>1, <2>2
<1>4. Moves(t, v) /\ v.current = u.current
      /\ v.token = Token(type, SubSeq(u.source, t.current, u.current - 1), u.line)
  BY DEF Moves, Rests, Fields, ReturnLexeme
<1>5. u.source = t.source /\ u.line = t.line
  BY DEF Moves, Rests
<1>. HIDE DEF n, v
<1>. QED
  BY <1>2, <1>3, <1>4, <1>5 DEF Emits, n, v

LEMMA MovesNot ==
  ASSUME NEW t, Standing(t)
  PROVE  Moves(t, t)
BY DEF Standing, Moves, Rests

LEMMA FirstChar ==
  ASSUME NEW t, Standing(t), CharAt(t, t.current) # NUL
  PROVE  /\ t.current <= Len(t.source) /\ TextLeft(t) # <<>> /\ 1 \in 1 .. Len(TextLeft(t))
         /\ TextLeft(t)[1] = CharAt(t, t.current)
<1>1. t.current \in Nat \ {0} /\ t.current <= Len(t.source) + 1 /\ Len(t.source) \in Nat
  BY Standings
<1>2. t.current <= Len(t.source)
  BY <1>1, CharIs
<1>3. 1 \in 1 .. Len(TextLeft(t)) /\ t.current + 1 - 1 = t.current
  BY <1>1, <1>2, TextLeftIs
<1>. QED
  BY <1>2, <1>3, TextLeftIs, EmptySeq

(* A run of characters in the line is one in the text.                     *)
LEMMA RunInText ==
  ASSUME NEW t, Standing(t), NEW i \in Nat, i >= t.current,
         NEW place \in i .. Len(t.source) + 1, NEW chars,
         \A j \in i .. place - 1 : CharAt(t, j) \in chars, CharAt(t, place) \notin chars,
         NEW n, n = place - t.current
  PROVE  /\ n \in 0 .. Len(TextLeft(t))
         /\ \A k \in i + 1 - t.current .. n : TextLeft(t)[k] \in chars
         /\ n < Len(TextLeft(t)) => TextLeft(t)[n + 1] \notin chars
<1>. DEFINE text == TextLeft(t)
            current == t.current
            length == Len(t.source)
<1>1. /\ current \in Nat \ {0} /\ length \in Nat /\ Len(text) = length + 1 - current
      /\ \A k \in 1 .. Len(text) : text[k] = CharAt(t, current + k - 1)
  BY Standings, TextLeftIs
<1>2. place \in Nat /\ current <= i /\ i <= place /\ place <= length + 1
  BY <1>1
<1>. HIDE DEF text, current, length
<1>3. n \in 0 .. Len(text) /\ n \in Nat /\ current + n = place
  BY <1>1, <1>2 DEF current
<1>4. ASSUME NEW k \in i + 1 - current .. n PROVE text[k] \in chars
  <2>1. k \in 1 .. Len(text) /\ current + k - 1 \in i .. place - 1
    BY <1>1, <1>2, <1>3
  <2>. QED
    BY <1>1, <2>1
<1>5. ASSUME n < Len(text) PROVE text[n + 1] \notin chars
  <2>1. n + 1 \in 1 .. Len(text) /\ current + (n + 1) - 1 = place
    BY <1>1, <1>3, <1>5, SMTT(30)
  <2>. QED
    BY <1>1, <2>1
<1>. QED
  BY <1>3, <1>4, <1>5 DEF text, current

(* The functions, one by one.                                              *)

LEMMA ScanningNumber ==
  ASSUME NEW t, Standing(t), CharAt(t, t.current) \in Digits
  PROVE  Scanned(t, ReturnLexeme([t EXCEPT !.current = Past(t, t.current, Digits)], "INTEGER_LITERAL", t.current))
<1>. DEFINE place == Past(t, t.current, Digits)
            u == [t EXCEPT !.current = place]
            n == place - t.current
            text == TextLeft(t)
<1>1. NUL \notin Digits /\ CharAt(t, t.current) # NUL
  BY Different DEF SymbolChars
<1>2. /\ t.current \in 1 .. Len(t.source) + 1 /\ t.current \in Nat /\ t.current >= t.current
      /\ Len(t.source) \in Nat
  BY Standings
<1>3. /\ place \in t.current .. Len(t.source) + 1
      /\ CharAt(t, place) \notin Digits
      /\ \A j \in t.current .. place - 1 : CharAt(t, j) \in Digits
  BY <1>1, <1>2, PastIs
<1>4. /\ text \in Seq(STRING) /\ text # <<>> /\ text[1] \in Digits
  BY <1>1, FirstChar, TextLeftIs
<1>. HIDE DEF place
<1>5. /\ n \in 0 .. Len(text)
      /\ \A k \in t.current + 1 - t.current .. n : text[k] \in Digits
      /\ n < Len(text) => text[n + 1] \notin Digits
  BY <1>2, <1>3, RunInText
<1>6. n \in 1 .. Len(text) /\ \A k \in 1 .. n : text[k] \in Digits
  <2>1. place # t.current
    BY <1>3
  <2>2. n # 0 /\ n \in Nat /\ t.current + 1 - t.current = 1
    BY <1>2, <1>3, <2>1
  <2>. QED
    BY <1>5, <2>2
<1>. HIDE DEF n, text
<1>7. LongestIs(text, n, "INTEGER_LITERAL")
  BY <1>4, <1>5, <1>6, NumberIsLongest
<1>8. Moves(t, u) /\ u.current = place
  BY Moving, MovesNot
<1>. HIDE DEF u
<1>9. Emits(t, ReturnLexeme(u, "INTEGER_LITERAL", t.current), "INTEGER_LITERAL", n)
  BY <1>3, <1>8, ReturningLexeme DEF n
<1>. QED
  BY <1>7, <1>9, EmitsLongest DEF text, u, place

LEMMA CompletingSymbol ==
  ASSUME NEW t, Standing(t), CharAt(t, t.current) \in Letters,
         NEW u, Moves(t, u), u.current \in t.current + 1 .. Len(t.source) + 1,
         \A j \in t.current .. u.current - 1 : CharAt(t, j) \in SymbolChars
  PROVE  LET place == Past(t, u.current, SymbolChars)
         IN /\ place \in u.current .. Len(t.source) + 1
            /\ CharAt(t, place) \notin SymbolChars
            /\ \A j \in t.current .. place - 1 : CharAt(t, j) \in SymbolChars
            /\ Emits(t, Tokenizer_completeSymbol(u, t.current), "SYMBOL", place - t.current)
<1>. DEFINE place == Past(t, u.current, SymbolChars)
            v == [u EXCEPT !.current = place]
<1>1. /\ u.current \in 1 .. Len(t.source) + 1 /\ t.current \in Nat \ {0} /\ Len(t.source) \in Nat
      /\ t.current < u.current
  BY Standings
<1>2. /\ place \in u.current .. Len(t.source) + 1
      /\ CharAt(t, place) \notin SymbolChars
      /\ \A j \in u.current .. place - 1 : CharAt(t, j) \in SymbolChars
  BY <1>1, Different, PastIs
<1>3. ASSUME NEW j \in t.current .. place - 1 PROVE CharAt(t, j) \in SymbolChars
  <2>1. j \in t.current .. u.current - 1 \/ j \in u.current .. place - 1
    BY <1>1, <1>2
  <2>. QED
    BY <1>2, <2>1
<1>4. Moves(t, v) /\ v.current = place
  BY Moving
<1>5. place \in t.current .. Len(t.source) + 1
  BY <1>1, <1>2
<1>6. Tokenizer_completeSymbol(u, t.current) = ReturnLexeme(v, "SYMBOL", t.current)
  BY SameCharacters DEF Tokenizer_completeSymbol
<1>. HIDE DEF v, place
<1>7. Emits(t, ReturnLexeme(v, "SYMBOL", t.current), "SYMBOL", place - t.current)
  BY <1>4, <1>5, ReturningLexeme
<1>. QED
  BY <1>2, <1>3, <1>6, <1>7 DEF place

LEMMA MatchingIs ==
  ASSUME NEW t, NEW u, Moves(t, u), NEW suffix, Len(suffix) \in Nat
  PROVE  LET n == Matching(u, suffix)
         IN /\ n \in 0 .. Len(suffix)
            /\ \A i \in 1 .. n : CharAt(t, u.current + i - 1) = suffix[i]
            /\ n < Len(suffix) => ~ \A i \in 1 .. n + 1 : CharAt(t, u.current + i - 1) = suffix[i]
<1>. DEFINE Matches(n) == \A i \in 1 .. n : CharAt(t, u.current + i - 1) = suffix[i]
            S == {n \in 0 .. Len(suffix) : Matches(n)}
            m == Matching(u, suffix)
<1>1. m = Greatest(S)
  <2>1. \A i : CharAt(u, i) = CharAt(t, i)
    BY SameCharacters
  <2>2. S = {n \in 0 .. Len(suffix) : \A i \in 1 .. n : CharAt(u, u.current + i - 1) = suffix[i]}
    BY <2>1
  <2>. HIDE DEF S
  <2>. QED
    BY <2>2 DEF Matching, Greatest
<1>2. S \in SUBSET Nat /\ 0 \in S /\ \A n \in S : n <= Len(suffix)
  OBVIOUS
<1>3. m \in S /\ \A n \in S : n <= m
  <2>. HIDE DEF S, m
  <2>. QED
    BY <1>1, <1>2, GreatestIs
<1>4. ASSUME m < Len(suffix), Matches(m + 1) PROVE FALSE
  <2>. HIDE DEF Matches, m
  <2>1. m + 1 \in S /\ m \in Nat /\ ~ (m + 1 <= m)
    BY <1>3, <1>4
  <2>. QED
    BY <1>3, <2>1
<1>. HIDE DEF m
<1>5. m \in 0 .. Len(suffix) /\ Matches(m) /\ (m < Len(suffix) => ~ Matches(m + 1))
  BY <1>3, <1>4
<1>. QED
  BY <1>5 DEF m

LEMMA SpelledInText ==
  ASSUME NEW t, Standing(t), NEW n \in 1 .. Len(TextLeft(t)), NEW k \in Keywords
  PROVE  Spelled(k, SubSeq(TextLeft(t), 1, n)) <=>
           /\ n = Len(k.start) + Len(k.suffix)
           /\ \A i \in 1 .. Len(k.start) : CharAt(t, t.current + i - 1) = k.start[i]
           /\ \A i \in 1 .. Len(k.suffix) : CharAt(t, t.current + Len(k.start) + i - 1) = k.suffix[i]
<1>. DEFINE text == TextLeft(t)
            part == SubSeq(text, 1, n)
            a == Len(k.start)
            b == Len(k.suffix)
            current == t.current
<1>1. text \in Seq(STRING) /\ \A i \in 1 .. Len(text) : text[i] = CharAt(t, current + i - 1)
  BY TextLeftIs
<1>2. Len(part) = n /\ \A i \in 1 .. n : part[i] = text[i]
  <2>. HIDE DEF text
  <2>. QED
    BY <1>1, FrontOfText DEF text
<1>3. a \in Nat /\ b \in Nat /\ Len(text) \in Nat /\ n \in Nat /\ n <= Len(text) /\ current \in Nat
  BY <1>1, KeywordShapes, LenProperties, Standings
<1>4. Spelled(k, part) <=>
        /\ Len(part) = a + b
        /\ \A i \in 1 .. a : part[i] = k.start[i]
        /\ \A i \in 1 .. b : part[a + i] = k.suffix[i]
  BY DEF Spelled
<1>. HIDE DEF text, part, a, b, current
<1>5. \A i \in 1 .. n : part[i] = CharAt(t, current + i - 1)
  BY <1>1, <1>2, <1>3
<1>6. ASSUME n = a + b
      PROVE  /\ \A i \in 1 .. a : part[i] = CharAt(t, current + i - 1)
             /\ \A i \in 1 .. b : part[a + i] = CharAt(t, current + a + i - 1)
  <2>1. \A i \in 1 .. a : i \in 1 .. n
    BY <1>3, <1>6
  <2>2. \A i \in 1 .. b : a + i \in 1 .. n /\ current + (a + i) - 1 = current + a + i - 1
    BY <1>3, <1>6
  <2>. QED
    BY <1>5, <2>1, <2>2
<1>7. Spelled(k, part) <=>
        /\ n = a + b
        /\ \A i \in 1 .. a : CharAt(t, current + i - 1) = k.start[i]
        /\ \A i \in 1 .. b : CharAt(t, current + a + i - 1) = k.suffix[i]
  BY <1>2, <1>4, <1>6
<1>. QED
  BY <1>7 DEF text, part, a, b, current

LEMMA ScanningWordTo ==
  ASSUME NEW t, Standing(t), CharAt(t, t.current) \in Letters,
         NEW place \in t.current + 1 .. Len(t.source) + 1, CharAt(t, place) \notin SymbolChars,
         \A j \in t.current .. place - 1 : CharAt(t, j) \in SymbolChars,
         NEW type, WordType(SubSeq(TextLeft(t), 1, place - t.current), type),
         NEW u, Emits(t, u, type, place - t.current)
  PROVE  Scanned(t, u)
<1>. DEFINE n == place - t.current
            text == TextLeft(t)
<1>1. CharAt(t, t.current) # NUL
  BY Different DEF SymbolChars
<1>2. /\ t.current \in Nat /\ t.current >= t.current
      /\ Len(t.source) \in Nat /\ place \in t.current .. Len(t.source) + 1
  BY Standings
<1>3. /\ text \in Seq(STRING) /\ text # <<>> /\ text[1] \in Letters
  BY <1>1, FirstChar, TextLeftIs
<1>4. /\ n \in 0 .. Len(text)
      /\ \A k \in t.current + 1 - t.current .. n : text[k] \in SymbolChars
      /\ n < Len(text) => text[n + 1] \notin SymbolChars
  BY <1>2, RunInText
<1>5. n \in 1 .. Len(text) /\ \A k \in 1 .. n : text[k] \in SymbolChars
  <2>1. n >= 1 /\ n \in Nat /\ t.current + 1 - t.current = 1
    BY <1>2
  <2>. QED
    BY <1>4, <2>1
<1>6. WordType(SubSeq(text, 1, n), type) /\ Emits(t, u, type, n)
  OBVIOUS
<1>. HIDE DEF n, text
<1>7. LongestIs(text, n, type)
  BY <1>3, <1>4, <1>5, <1>6, WordIsLongest
<1>. QED
  BY <1>6, <1>7, EmitsLongest DEF text

Starts(t, k) == \A i \in 1 .. Len(k.start) : CharAt(t, t.current + i - 1) = k.start[i]

LEMMA NotSpelled ==
  ASSUME NEW t, Standing(t), NEW n \in 1 .. Len(TextLeft(t)), NEW k \in Keywords,
         \A l \in Keywords : Starts(t, l) => l = k, ~ Spelled(k, SubSeq(TextLeft(t), 1, n))
  PROVE  WordType(SubSeq(TextLeft(t), 1, n), "SYMBOL")
<1>1. \A l \in Keywords : Spelled(l, SubSeq(TextLeft(t), 1, n)) => Starts(t, l)
  BY SpelledInText DEF Starts
<1>. QED
  BY <1>1 DEF WordType

LEMMA TwoRuns ==
  ASSUME NEW t, NEW chars, NEW from \in Nat, NEW a \in Nat, NEW n \in Nat,
         NEW middle \in Nat, middle = from + a, NEW last \in Nat, last = middle + n,
         \A i \in 1 .. a : CharAt(t, from + i - 1) \in chars,
         \A i \in 1 .. n : CharAt(t, middle + i - 1) \in chars
  PROVE  \A j \in from .. last - 1 : CharAt(t, j) \in chars
<1>. SUFFICES ASSUME NEW j \in from .. last - 1 PROVE CharAt(t, j) \in chars
  OBVIOUS
<1>1. CASE j < middle
  <2>1. j + 1 - from \in 1 .. a /\ from + (j + 1 - from) - 1 = j
    BY <1>1
  <2>. QED
    BY <2>1
<1>2. CASE j >= middle
  <2>1. j + 1 - middle \in 1 .. n /\ middle + (j + 1 - middle) - 1 = j
    BY <1>2
  <2>. QED
    BY <2>1
<1>. QED
  BY <1>1, <1>2

(* A keyword whose first characters are there is completed, or a symbol.   *)
LEMMA ScanningKeyword ==
  ASSUME NEW t, Standing(t), CharAt(t, t.current) \in Letters,
         NEW k \in Keywords, Starts(t, k), \A l \in Keywords : Starts(t, l) => l = k
  PROVE  Scanned(t, Tokenizer_keywordOrSymbol(Advance(t, Len(k.start)), t.current, k.suffix, k.type))
<1>. DEFINE a == Len(k.start)
            b == Len(k.suffix)
            current == t.current
            end == Len(t.source) + 1
            v == Advance(t, a)
            n == Matching(v, k.suffix)
            next == Advance(v, n)
            u == Tokenizer_keywordOrSymbol(v, current, k.suffix, k.type)
            middle == current + a
            last == middle + n
<1>1. /\ a \in 1 .. 2 /\ b \in 1 .. 7 /\ current \in Nat \ {0} /\ end \in Nat
      /\ Len(TextLeft(t)) = end - current
      /\ \A i \in 1 .. a : k.start[i] \in SymbolChars
      /\ \A i \in 1 .. b : k.suffix[i] \in SymbolChars
  BY Standings, TextLeftIs, KeywordShapes, SameAlphabets, SMTT(30)
<1>2. Moves(t, v) /\ v.current = middle
  BY Advancing, MovesNot
<1>3. /\ n \in 0 .. b
      /\ \A i \in 1 .. n : CharAt(t, v.current + i - 1) = k.suffix[i]
      /\ n < b => ~ \A i \in 1 .. n + 1 : CharAt(t, v.current + i - 1) = k.suffix[i]
  <2>. DEFINE suffix == k.suffix
  <2>1. Len(suffix) \in Nat /\ Moves(t, v)
    BY <1>1, <1>2
  <2>. HIDE DEF suffix, v
  <2>2. /\ Matching(v, suffix) \in 0 .. Len(suffix)
        /\ \A i \in 1 .. Matching(v, suffix) : CharAt(t, v.current + i - 1) = suffix[i]
        /\ Matching(v, suffix) < Len(suffix) =>
             ~ \A i \in 1 .. Matching(v, suffix) + 1 : CharAt(t, v.current + i - 1) = suffix[i]
    BY <2>1, MatchingIs
  <2>. QED
    BY <2>2 DEF suffix
<1>4. Moves(t, next) /\ next.current = last
  BY <1>2, Advancing
<1>5. u = IF n < b THEN Tokenizer_completeSymbol(next, current)
         ELSE IF CharAt(next, next.current) \in SymbolChars
         THEN Tokenizer_completeSymbol(Advance(next, 1), current)
         ELSE ReturnLexeme(next, k.type, current)
  BY DEF Tokenizer_keywordOrSymbol
<1>. HIDE DEF n, next, v, u, a, b, end
<1>6. /\ a \in Nat /\ b \in Nat /\ n \in Nat /\ a > 0 /\ n <= b /\ end \in Nat /\ Len(t.source) \in Nat
      /\ end = Len(t.source) + 1 /\ current \in Nat /\ current > 0
      /\ middle = current + a /\ middle \in Nat /\ last = middle + n /\ last \in Nat /\ last > current
  BY <1>1, <1>3, Standings, SMTT(30) DEF end
<1>7. /\ \A i \in 1 .. a : CharAt(t, current + i - 1) = k.start[i]
      /\ \A i \in 1 .. n : CharAt(t, middle + i - 1) = k.suffix[i]
      /\ n < b => ~ \A i \in 1 .. n + 1 : CharAt(t, middle + i - 1) = k.suffix[i]
  BY <1>2, <1>3 DEF Starts, a
<1>. HIDE DEF current, middle, last
<1>8. \A j \in current .. last - 1 : CharAt(t, j) \in SymbolChars
  <2>1. \A i \in 1 .. a : CharAt(t, current + i - 1) \in SymbolChars
    BY <1>1, <1>7
  <2>2. \A i \in 1 .. n : CharAt(t, middle + i - 1) \in SymbolChars
    <3>1. \A i \in 1 .. n : i \in 1 .. b
      BY <1>6
    <3>. QED
      BY <1>1, <1>7, <3>1
  <2>. QED
    BY <1>6, <2>1, <2>2, TwoRuns
<1>9. last \in current + 1 .. end
  <2>1. last - 1 \in current .. last - 1 /\ last - 1 \in Nat \ {0}
    BY <1>6
  <2>2. CharAt(t, last - 1) # NUL
    BY <1>8, <2>1, Different
  <2>3. last - 1 <= Len(t.source)
    BY <1>6, <2>1, <2>2, CharIs
  <2>. QED
    BY <1>6, <2>1, <2>3
<1>10. ASSUME NEW w, Moves(t, w), w.current \in current + 1 .. end,
             \A j \in current .. w.current - 1 : CharAt(t, j) \in SymbolChars,
             n < b \/ w.current > last
      PROVE  Scanned(t, Tokenizer_completeSymbol(w, current))
  <2>. DEFINE place == Past(t, w.current, SymbolChars)
              m == place - current
  <2>1. /\ place \in w.current .. end
        /\ CharAt(t, place) \notin SymbolChars
        /\ \A j \in current .. place - 1 : CharAt(t, j) \in SymbolChars
        /\ Emits(t, Tokenizer_completeSymbol(w, current), "SYMBOL", place - current)
    BY <1>10, CompletingSymbol DEF end, current
  <2>. HIDE DEF place
  <2>2. m \in 1 .. Len(TextLeft(t)) /\ place \in current + 1 .. end
    <3>1. Len(TextLeft(t)) = end - current
      BY <1>1
    <3>. QED
      BY <1>6, <1>10, <2>1, <3>1
  <2>3. ~ Spelled(k, SubSeq(TextLeft(t), 1, m))
    <3>. SUFFICES ASSUME Spelled(k, SubSeq(TextLeft(t), 1, m)) PROVE FALSE
      OBVIOUS
    <3>1. m = a + b /\ \A i \in 1 .. b : CharAt(t, middle + i - 1) = k.suffix[i]
      BY <2>2, SpelledInText DEF a, b, current, middle
    <3>2. CASE n < b
      <4>1. \A i \in 1 .. n + 1 : i \in 1 .. b
        BY <1>6, <3>2
      <4>. QED
        BY <1>7, <3>1, <3>2, <4>1
    <3>3. CASE n = b
      <4>1. m > a + b
        BY <1>6, <1>10, <2>1, <2>2, <3>3
      <4>. QED
        BY <1>6, <3>1, <4>1
    <3>. QED
      BY <1>6, <3>2, <3>3
  <2>. HIDE DEF m
  <2>4. WordType(SubSeq(TextLeft(t), 1, m), "SYMBOL")
    BY <2>2, <2>3, NotSpelled
  <2>. QED
    BY <2>1, <2>2, <2>4, ScanningWordTo DEF m, end, current
<1>11. ASSUME n < b PROVE Scanned(t, u)
  <2>1. u = Tokenizer_completeSymbol(next, current)
    BY <1>5, <1>11
  <2>. QED
    BY <1>4, <1>8, <1>9, <1>10, <1>11, <2>1
<1>12. ASSUME n = b, CharAt(t, last) \in SymbolChars PROVE Scanned(t, u)
  <2>. DEFINE w == Advance(next, 1)
  <2>1. CharAt(next, next.current) \in SymbolChars
    BY <1>4, <1>12, SameCharacters
  <2>2. u = Tokenizer_completeSymbol(w, current)
    BY <1>5, <1>6, <1>12, <2>1
  <2>3. Moves(t, w) /\ w.current = last + 1
    BY <1>4, Advancing
  <2>4. \A j \in current .. (last + 1) - 1 : j \in current .. last - 1 \/ j = last
    BY <1>6
  <2>5. last + 1 \in current + 1 .. end
    <3>1. last \in Nat \ {0} /\ CharAt(t, last) # NUL
      BY <1>6, <1>12, Different
    <3>2. last <= Len(t.source)
      BY <1>6, <3>1, CharIs
    <3>. QED
      BY <1>6, <3>1, <3>2
  <2>6. w.current > last
    BY <1>6, <2>3
  <2>7. \A j \in current .. w.current - 1 : CharAt(t, j) \in SymbolChars
    BY <1>8, <1>12, <2>3, <2>4
  <2>. HIDE DEF w
  <2>. QED
    BY <1>10, <2>2, <2>3, <2>5, <2>6, <2>7
<1>13. ASSUME n = b, CharAt(t, last) \notin SymbolChars PROVE Scanned(t, u)
  <2>. DEFINE m == last - current
  <2>1. CharAt(next, next.current) \notin SymbolChars
    BY <1>4, <1>13, SameCharacters
  <2>2. u = ReturnLexeme(next, k.type, current)
    BY <1>5, <1>6, <1>13, <2>1
  <2>3. next.current \in current .. Len(t.source) + 1 /\ next.current = last
    BY <1>6, <1>4, <1>9
  <2>4. m \in 1 .. Len(TextLeft(t)) /\ m = a + b
    <3>1. Len(TextLeft(t)) = end - current
      BY <1>1
    <3>. QED
      BY <1>6, <1>9, <1>13, <3>1
  <2>5. \A i \in 1 .. b : CharAt(t, middle + i - 1) = k.suffix[i]
    BY <1>7, <1>13
  <2>. HIDE DEF m
  <2>6. Spelled(k, SubSeq(TextLeft(t), 1, m))
    BY <1>7, <2>4, <2>5, SpelledInText DEF a, b, current, middle
  <2>7. WordType(SubSeq(TextLeft(t), 1, m), k.type)
    BY <2>6 DEF WordType
  <2>8. Emits(t, u, k.type, m)
    BY <1>4, <2>2, <2>3, ReturningLexeme DEF m, current
  <2>9. last \in current + 1 .. Len(t.source) + 1
    BY <1>6, <1>9
  <2>. QED
    BY <1>8, <1>13, <2>7, <2>8, <2>9, ScanningWordTo DEF m, current
<1>14. Scanned(t, u)
  BY <1>6, <1>11, <1>12, <1>13
<1>. QED
  BY <1>14 DEF u, v, a, current

(* No two keywords begin with the same characters.                         *)
LEMMA OneStarts ==
  ASSUME NEW t, NEW k \in Keywords, NEW l \in Keywords, Starts(t, k), Starts(t, l)
  PROVE  k = l
<1>. DEFINE first == CharAt(t, t.current + 1 - 1)
            second == CharAt(t, t.current + 2 - 1)
<1>1. ASSUME NEW word \in Keywords, Starts(t, word)
      PROVE  word.start[1] = first /\ (Len(word.start) = 2 => word.start[2] = second)
  <2>1. Len(word.start) \in 1 .. 2
    BY KeywordShapes
  <2>2. Len(word.start) = 1 \/ Len(word.start) = 2
    BY <2>1
  <2>. QED
    BY <1>1, <2>2 DEF Starts
<1>. HIDE DEF first, second
<1>2. k.start[1] = l.start[1] /\ (Len(k.start) = 2 /\ Len(l.start) = 2 => k.start[2] = l.start[2])
  BY <1>1
<1>. QED
  BY <1>2, KeywordsDiffer

LEMMA ScanningWord ==
  ASSUME NEW t, Standing(t), CharAt(t, t.current) \in Letters
  PROVE  Scanned(t, ScanWord(t))
<1>. DEFINE starting == {k \in Keywords : \A i \in DOMAIN k.start : CharAt(t, t.current + i - 1) = k.start[i]}
<1>1. \A k \in Keywords : k \in starting <=> Starts(t, k)
  <2>1. \A k \in Keywords : DOMAIN k.start = 1 .. Len(k.start)
    BY DEF Keywords, Keyword
  <2>. QED
    BY <2>1 DEF Starts
<1>2. ASSUME starting # {} PROVE Scanned(t, ScanWord(t))
  <2>. DEFINE k == CHOOSE l \in starting : TRUE
  <2>1. k \in Keywords /\ Starts(t, k)
    BY <1>1, <1>2
  <2>2. ScanWord(t) = Tokenizer_keywordOrSymbol(Advance(t, Len(k.start)), t.current, k.suffix, k.type)
    BY <1>2 DEF ScanWord
  <2>. HIDE DEF k
  <2>3. \A l \in Keywords : Starts(t, l) => l = k
    BY <2>1, OneStarts
  <2>. QED
    BY <2>1, <2>2, <2>3, ScanningKeyword
<1>3. ASSUME starting = {} PROVE Scanned(t, ScanWord(t))
  <2>. DEFINE u == Advance(t, 1)
              place == Past(t, u.current, SymbolChars)
              n == place - t.current
              end == Len(t.source) + 1
  <2>1. ScanWord(t) = Tokenizer_completeSymbol(u, t.current)
    BY <1>3 DEF ScanWord
  <2>2. Moves(t, u) /\ u.current = t.current + 1
    BY Advancing, MovesNot
  <2>3. /\ t.current \in Nat /\ Len(t.source) \in Nat /\ t.current <= Len(t.source)
        /\ CharAt(t, t.current) \in SymbolChars
        /\ Len(TextLeft(t)) = end - t.current
    BY Different, FirstChar, Standings, TextLeftIs DEF SymbolChars
  <2>4. \A j \in t.current .. u.current - 1 : CharAt(t, j) \in SymbolChars
    <3>1. \A j \in t.current .. u.current - 1 : j = t.current
      BY <2>2, <2>3
    <3>. QED
      BY <2>3, <3>1
  <2>5. u.current \in t.current + 1 .. end
    BY <2>2, <2>3
  <2>. HIDE DEF u
  <2>6. /\ place \in u.current .. end
        /\ CharAt(t, place) \notin SymbolChars
        /\ \A j \in t.current .. place - 1 : CharAt(t, j) \in SymbolChars
        /\ Emits(t, Tokenizer_completeSymbol(u, t.current), "SYMBOL", place - t.current)
    BY <2>2, <2>4, <2>5, CompletingSymbol
  <2>. HIDE DEF place
  <2>7. place \in t.current + 1 .. end /\ n \in 1 .. Len(TextLeft(t))
    BY <2>2, <2>3, <2>6
  <2>8. WordType(SubSeq(TextLeft(t), 1, n), "SYMBOL")
    <3>1. \A k \in Keywords : ~ Starts(t, k)
      BY <1>1, <1>3
    <3>. HIDE DEF n
    <3>2. \A k \in Keywords : Spelled(k, SubSeq(TextLeft(t), 1, n)) => Starts(t, k)
      BY <2>7, SpelledInText DEF Starts
    <3>. QED
      BY <3>1, <3>2 DEF WordType
  <2>. QED
    BY <2>1, <2>6, <2>7, <2>8, ScanningWordTo
<1>. QED
  BY <1>2, <1>3

LEMMA Consuming ==
  ASSUME NEW t, Standing(t), CharAt(t, t.current) \in SignChars, NEW n \in 1 .. Len(TextLeft(t)),
         NEW e \in Signs, e[2] = SubSeq(TextLeft(t), 1, n),
         n < 2 => \A other \in Signs : Len(TextLeft(t)) > 1 => other[2] # SubSeq(TextLeft(t), 1, 2)
  PROVE  Scanned(t, Tokenizer_consume(t, e[1], n))
<1>. DEFINE text == TextLeft(t)
            v == Advance(t, n)
            u == Tokenizer_consume(t, e[1], n)
<1>1. /\ text \in Seq(STRING) /\ text # <<>> /\ text[1] \in SignChars
      /\ Len(text) = Len(t.source) + 1 - t.current
      /\ Len(t.source) \in Nat /\ t.current \in Nat
  BY Different, FirstChar, TextLeftIs, Standings
<1>2. LongestIs(text, n, e[1])
  <2>1. n < 2 => \A other \in Signs : Len(text) > 1 => other[2] # SubSeq(text, 1, 2)
    OBVIOUS
  <2>2. n \in 1 .. Len(text) /\ e[2] = SubSeq(text, 1, n)
    OBVIOUS
  <2>3. \A other \in Signs : other[2] = e[2] => other[1] = e[1]
    BY SignsDiffer
  <2>. HIDE DEF text
  <2>. QED
    BY <1>1, <2>1, <2>2, <2>3, SignIsLongest
<1>3. Moves(t, v) /\ v.current = t.current + n
  BY Advancing, MovesNot
<1>4. v.current \in t.current .. Len(t.source) + 1 /\ v.current - t.current = n
  BY <1>1, <1>3
<1>5. u = ReturnLexeme(v, e[1], t.current)
  BY DEF Tokenizer_consume
<1>. HIDE DEF v, u
<1>6. Emits(t, u, e[1], n)
  BY <1>3, <1>4, <1>5, ReturningLexeme
<1>. QED
  BY <1>2, <1>6, EmitsLongest DEF u, text

LEMMA ReturningMessage ==
  ASSUME NEW t, Standing(t), NEW u, Moves(t, u), NEW type
  PROVE  /\ Moves(t, ReturnMessage(u, type)) /\ ReturnMessage(u, type).current = u.current
         /\ ReturnMessage(u, type).token = Unwritten(type, t.line)
<1>. DEFINE v == ReturnMessage(u, type)
<1>1. Moves(t, v) /\ v.current = u.current /\ v.token = Token(type, <<>>, u.line)
  BY DEF Moves, Rests, Fields, ReturnMessage
<1>2. u.line = t.line
  BY DEF Moves
<1>. QED
  BY <1>1, <1>2 DEF Unwritten, Token

LEMMA UnwrittenFields ==
  ASSUME NEW line \in Nat
  PROVE  /\ Unwritten("EOF", line) \in Tokens /\ Unwritten("ERROR", line) \in Tokens
         /\ Unwritten("EOF", line).type = "EOF" /\ Unwritten("EOF", line).line = line
         /\ Unwritten("ERROR", line).type = "ERROR"
BY DEF Unwritten, Tokens, TokenTypes

(* The end of the line.                                                    *)
LEMMA ScanningEnd ==
  ASSUME NEW t, Standing(t), CharAt(t, t.current) = NUL
  PROVE  Scanned(t, ReturnMessage(t, "EOF"))
<1>. DEFINE u == ReturnMessage(t, "EOF")
<1>1. /\ t.current \in Nat \ {0} /\ Len(t.source) \in Nat /\ t.current <= Len(t.source) + 1
      /\ t.line \in Nat
  BY Standings
<1>2. t.current = Len(t.source) + 1
  <2>1. ~ (t.current <= Len(t.source))
    BY <1>1, CharIs
  <2>. QED
    BY <1>1, <2>1
<1>3. TextLeft(t) = <<>>
  BY <1>1, <1>2, SubSeqEmpty DEF TextLeft
<1>4. TokensLeft(t) = <<Unwritten("EOF", t.line)>>
  BY <1>1, <1>3, EndOfText DEF TokensLeft
<1>5. Moves(t, u) /\ u.current = t.current /\ u.token = Unwritten("EOF", t.line)
  BY MovesNot, ReturningMessage
<1>. HIDE DEF u
<1>6. Standing(u) /\ TokensLeft(u) = TokensLeft(t) /\ (Known(t) => Known(u))
  BY <1>5 DEF Standing, Moves, Rests, TokensLeft, TextLeft, Known
<1>7. Returns(t, u)
  BY <1>1, <1>2, <1>4, <1>5, <1>6, UnwrittenFields DEF Returns, Moves, Rests
<1>. QED
  BY <1>5, <1>6, <1>7 DEF Scanned, Moves, u

(* A character that is no sign: an error, and the next character, or the   *)
(* same once more.                                                         *)
LEMMA ScanningNoSign ==
  ASSUME NEW t, Standing(t), CharAt(t, t.current) # NUL, CharAt(t, t.current) \notin Space,
         CharAt(t, t.current) \notin Quotes, CharAt(t, t.current) \notin SymbolChars,
         \A k \in 1 .. Len(TextLeft(t)) : \A e \in Signs : e[2] # SubSeq(TextLeft(t), 1, k)
  PROVE  Scanned(t, ReturnMessage(IF CharAt(t, t.current) = "!" THEN t ELSE Advance(t, 1), "ERROR"))
<1>. DEFINE text == TextLeft(t)
            v == IF CharAt(t, t.current) = "!" THEN t ELSE Advance(t, 1)
            u == ReturnMessage(v, "ERROR")
<1>1. /\ text \in Seq(STRING) /\ text # <<>> /\ text[1] = CharAt(t, t.current)
      /\ 1 \in 0 .. Len(text) /\ t.current <= Len(t.source) /\ t.line \in Nat
      /\ Len(t.source) \in Nat /\ t.current \in Nat
  <2>1. 1 \in 1 .. Len(text)
    BY FirstChar
  <2>2. 1 \in 0 .. Len(text)
    BY <2>1
  <2>. QED
    BY <2>2, FirstChar, TextLeftIs, Standings
<1>2. /\ TokensLeft(t) =
           IF text[1] = "!" THEN <<Unwritten("ERROR", t.line)>>
           ELSE <<Unwritten("ERROR", t.line)>> \o TokensOf[SubSeq(text, 2, Len(text))][t.line]
      /\ text[1] # "!" /\ Known(t) => EncodingsKnown[SubSeq(text, 2, Len(text))]
  <2>. DEFINE line == t.line
  <2>1. \A k \in 1 .. Len(text) : \A e \in Signs : e[2] # SubSeq(text, 1, k)
    OBVIOUS
  <2>2. line \in Nat /\ TokensLeft(t) = TokensOf[text][line] /\ (Known(t) <=> EncodingsKnown[text])
    BY <1>1 DEF TokensLeft, Known
  <2>3. text[1] \notin Space /\ text[1] \notin Quotes /\ text[1] \notin SymbolChars
    BY <1>1
  <2>. HIDE DEF text, line
  <2>4. /\ TokensOf[text][line] =
             IF text[1] = "!" THEN <<Unwritten("ERROR", line)>>
             ELSE <<Unwritten("ERROR", line)>> \o TokensOf[SubSeq(text, 2, Len(text))][line]
        /\ text[1] # "!" /\ EncodingsKnown[text] => EncodingsKnown[SubSeq(text, 2, Len(text))]
    BY <1>1, <2>1, <2>2, <2>3, NoSign
  <2>. QED
    BY <2>2, <2>4 DEF line
<1>3. Moves(t, v) /\ v.current = IF text[1] = "!" THEN t.current ELSE t.current + 1
  BY <1>1, Advancing, MovesNot
<1>. HIDE DEF v
<1>4. Moves(t, u) /\ u.current = v.current /\ u.token = Unwritten("ERROR", t.line)
  BY <1>3, ReturningMessage
<1>. HIDE DEF u
<1>5. Standing(u)
  <2>1. u.current \in 1 .. Len(t.source) + 1
    BY <1>1, <1>3, <1>4, Standings
  <2>. QED
    BY <1>4, <2>1 DEF Standing, Moves, Rests
<1>6. CASE text[1] = "!"
  <2>1. TokensLeft(u) = TokensLeft(t) /\ (Known(t) => Known(u))
    BY <1>3, <1>4, <1>6 DEF Moves, Rests, TokensLeft, TextLeft, Known
  <2>2. TokensLeft(t) = <<u.token>>
    BY <1>2, <1>4, <1>6
  <2>3. Returns(t, u)
    BY <1>1, <1>4, <2>1, <2>2, UnwrittenFields DEF Returns, Moves, Rests
  <2>. QED
    BY <1>4, <1>5, <2>3 DEF Scanned, Moves, u, v
<1>7. CASE text[1] # "!"
  <2>1. SubSeq(t.source, t.current + 1, Len(t.source)) = SubSeq(text, 1 + 1, Len(text))
    BY <1>1, Moved
  <2>2. /\ TokensLeft(u) = TokensOf[SubSeq(text, 2, Len(text))][t.line]
        /\ Known(u) <=> EncodingsKnown[SubSeq(text, 2, Len(text))]
    <3>1. u.source = t.source /\ u.line = t.line /\ u.current = t.current + 1
      BY <1>3, <1>4, <1>7 DEF Moves, Rests
    <3>2. SubSeq(u.source, u.current, Len(u.source)) = SubSeq(text, 2, Len(text))
      <4>. HIDE DEF text
      <4>1. 1 + 1 = 2
        OBVIOUS
      <4>2. SubSeq(t.source, t.current + 1, Len(t.source)) = SubSeq(text, 2, Len(text))
        BY <2>1, <4>1
      <4>3. SubSeq(u.source, u.current, Len(u.source)) = SubSeq(t.source, t.current + 1, Len(t.source))
        BY <3>1
      <4>. QED
        BY <4>2, <4>3
    <3>. HIDE DEF text
    <3>. QED
      BY <3>1, <3>2 DEF TokensLeft, TextLeft, Known
  <2>3. TokensLeft(t) = <<u.token>> \o TokensLeft(u) /\ (Known(t) => Known(u))
    BY <1>2, <1>4, <1>7, <2>2
  <2>4. Returns(t, u)
    BY <1>1, <1>4, <2>3, UnwrittenFields DEF Returns, Moves, Rests
  <2>. QED
    BY <1>4, <1>5, <2>4 DEF Scanned, Moves, u, v
<1>. QED
  BY <1>6, <1>7

(* The signs of one character and of two.                                  *)
LEMMA OneOrTwo ==
  ASSUME NEW c, NEW d, NEW e \in Signs
  PROVE  /\ e[2] = <<c>> => c \in SingleChars \cup EqualsChars
         /\ e[2] = <<c, d>> => (c = "/" /\ d = "/") \/ (c \in EqualsChars \cup {"!"} /\ d = "=")
<1>1. ASSUME e[2] = <<c>> PROVE c \in SingleChars \cup EqualsChars
  <2>1. Len(e[2]) = 1 /\ e[2][1] = c
    BY <1>1
  <2>. QED
    BY <2>1, SignLengths
<1>2. ASSUME e[2] = <<c, d>>
      PROVE  (c = "/" /\ d = "/") \/ (c \in EqualsChars \cup {"!"} /\ d = "=")
  <2>1. Len(e[2]) = 2 /\ e[2][1] = c /\ e[2][2] = d
    BY <1>2
  <2>. QED
    BY <2>1, SignLengths
<1>. QED
  BY <1>1, <1>2

LEMMA ScanningSign ==
  ASSUME NEW t, Standing(t), CharAt(t, t.current) \notin Space,
         CharAt(t, t.current) \notin Quotes, CharAt(t, t.current) \notin SymbolChars
  PROVE  Scanned(t, ScanSign(t))
<1>. DEFINE char == CharAt(t, t.current)
            next == CharAt(t, t.current + 1)
            text == TextLeft(t)
            u == ScanSign(t)
<1>1. u = CASE char = NUL -> ReturnMessage(t, "EOF")
            [] char \in SingleChars -> Tokenizer_consume(t, Single[char], 1)
            [] char \in EqualsChars ->
                 IF next = "=" THEN Tokenizer_consume(t, WithEquals[char][2], 2)
                 ELSE Tokenizer_consume(t, WithEquals[char][1], 1)
            [] char = "/" /\ next = "/" -> Tokenizer_consume(t, "SLASH_SLASH", 2)
            [] char = "!" /\ next = "=" -> Tokenizer_consume(t, "BANG_EQUALS", 2)
            [] char = "!" /\ next # "=" -> ReturnMessage(t, "ERROR")
            [] OTHER -> ReturnMessage(Advance(t, 1), "ERROR")
  BY SignTables DEF ScanSign
<1>2. /\ NUL \notin SingleChars /\ NUL \notin EqualsChars /\ NUL # "/" /\ NUL # "!" /\ NUL # "="
      /\ \A c \in EqualsChars : c \notin SingleChars /\ c # "/" /\ c # "!"
      /\ "/" \notin SingleChars /\ "!" \notin SingleChars
      /\ SingleChars \subseteq SignChars /\ EqualsChars \subseteq SignChars
      /\ "/" \in SignChars /\ "!" \in SignChars
  <2>1. NUL \notin SingleChars /\ NUL \notin EqualsChars /\ NUL # "/" /\ NUL # "!" /\ NUL # "="
    BY NamedAreDifferent DEF Named, NUL, SingleChars, EqualsChars
  <2>2. \A c \in EqualsChars : c \notin SingleChars /\ c # "/" /\ c # "!"
    BY NamedAreDifferent DEF Named, SingleChars, EqualsChars
  <2>3. "/" \notin SingleChars /\ "!" \notin SingleChars
    BY NamedAreDifferent DEF Named, SingleChars
  <2>4. SingleChars \subseteq SignChars /\ EqualsChars \subseteq SignChars
        /\ "/" \in SignChars /\ "!" \in SignChars
    BY DEF SingleChars, EqualsChars, SignChars
  <2>. QED
    BY <2>1, <2>2, <2>3, <2>4
<1>3. CASE char = NUL
  <2>1. u = ReturnMessage(t, "EOF")
    BY <1>1, <1>2, <1>3
  <2>. QED
    BY <1>3, <2>1, ScanningEnd
<1>. SUFFICES ASSUME char # NUL PROVE Scanned(t, u)
  BY <1>3
<1>4. /\ text \in Seq(STRING) /\ text # <<>> /\ text[1] = char /\ Len(text) \in Nat \ {0}
      /\ Len(text) >= 2 => text[2] = next
      /\ Len(text) < 2 => next = NUL
      /\ Len(text) = Len(t.source) + 1 - t.current
      /\ t.current \in Nat \ {0} /\ Len(t.source) \in Nat
  <2>1. /\ text \in Seq(STRING) /\ text # <<>> /\ text[1] = char /\ 1 \in 1 .. Len(text)
        /\ Len(text) = Len(t.source) + 1 - t.current /\ Len(text) \in Nat
        /\ t.current \in Nat \ {0} /\ Len(t.source) \in Nat
    BY FirstChar, TextLeftIs, Standings, LenProperties
  <2>2. ASSUME Len(text) >= 2 PROVE text[2] = next
    <3>1. 2 \in 1 .. Len(text) /\ t.current + 2 - 1 = t.current + 1
      BY <2>1, <2>2
    <3>2. text[2] = CharAt(t, t.current + 2 - 1)
      BY <3>1, TextLeftIs
    <3>. QED
      BY <3>1, <3>2
  <2>3. ASSUME Len(text) < 2 PROVE next = NUL
    <3>1. t.current + 1 > Len(t.source) /\ t.current + 1 \in Nat \ {0}
      BY <2>1, <2>3
    <3>. QED
      BY <3>1, CharIs
  <2>. QED
    BY <2>1, <2>2, <2>3
<1>5. /\ SubSeq(text, 1, 1) = <<char>>
      /\ Len(text) >= 2 => SubSeq(text, 1, 2) = <<char, next>>
  <2>. HIDE DEF text
  <2>1. SubSeq(text, 1, 1) = <<text[1]>>
    BY <1>4, FrontChars
  <2>2. Len(text) >= 2 => SubSeq(text, 1, 2) = <<text[1], text[2]>>
    BY <1>4, FrontChars
  <2>. QED
    BY <1>4, <2>1, <2>2
<1>. HIDE DEF u, text, char, next
(* One character, if no sign of two begins there.                          *)
<1>6. ASSUME NEW e \in Signs, e[2] = <<char>>, char \in SignChars,
             Len(text) >= 2 => \A other \in Signs : other[2] # <<char, next>>
      PROVE  Scanned(t, Tokenizer_consume(t, e[1], 1))
  <2>1. /\ 1 \in 1 .. Len(text) /\ e[2] = SubSeq(text, 1, 1)
        /\ \A other \in Signs : Len(text) > 1 => other[2] # SubSeq(text, 1, 2)
    BY <1>4, <1>5, <1>6
  <2>. QED
    BY <1>6, <2>1, Consuming DEF text, char
(* Two characters. *)
<1>7. ASSUME NEW e \in Signs, e[2] = <<char, next>>, char \in SignChars, next # NUL
      PROVE  Scanned(t, Tokenizer_consume(t, e[1], 2))
  <2>1. 2 \in 1 .. Len(text) /\ ~ (2 < 2)
    BY <1>4, <1>7
  <2>2. e[2] = SubSeq(text, 1, 2)
    BY <1>4, <1>5, <1>7, <2>1
  <2>. QED
    BY <1>7, <2>1, <2>2, Consuming DEF text, char
<1>8. CASE char \in SingleChars
  <2>1. u = Tokenizer_consume(t, Single[char], 1)
    BY <1>1, <1>2, <1>8
  <2>2. \A other \in Signs : other[2] # <<char, next>>
    BY <1>2, <1>8, OneOrTwo
  <2>3. <<Single[char], <<char>>>> \in Signs /\ char \in SignChars
    BY <1>2, <1>8, SignTables
  <2>4. Scanned(t, Tokenizer_consume(t, <<Single[char], <<char>>>>[1], 1))
    BY <1>6, <2>2, <2>3
  <2>. QED
    BY <2>1, <2>4
<1>9. CASE char \in EqualsChars /\ next = "="
  <2>1. u = Tokenizer_consume(t, WithEquals[char][2], 2)
    BY <1>1, <1>2, <1>9
  <2>2. <<WithEquals[char][2], <<char, next>>>> \in Signs /\ char \in SignChars /\ next # NUL
    BY <1>2, <1>9, SignTables
  <2>3. Scanned(t, Tokenizer_consume(t, <<WithEquals[char][2], <<char, next>>>>[1], 2))
    BY <1>7, <2>2
  <2>. QED
    BY <2>1, <2>3
<1>10. CASE char \in EqualsChars /\ next # "="
  <2>1. u = Tokenizer_consume(t, WithEquals[char][1], 1)
    BY <1>1, <1>2, <1>10
  <2>2. \A other \in Signs : other[2] # <<char, next>>
    BY <1>2, <1>10, OneOrTwo
  <2>3. <<WithEquals[char][1], <<char>>>> \in Signs /\ char \in SignChars
    BY <1>2, <1>10, SignTables
  <2>4. Scanned(t, Tokenizer_consume(t, <<WithEquals[char][1], <<char>>>>[1], 1))
    BY <1>6, <2>2, <2>3
  <2>. QED
    BY <2>1, <2>4
<1>11. CASE char = "/" /\ next = "/"
  <2>1. u = Tokenizer_consume(t, "SLASH_SLASH", 2)
    BY <1>1, <1>2, <1>11
  <2>2. <<"SLASH_SLASH", <<char, next>>>> \in Signs /\ char \in SignChars /\ next # NUL
    BY <1>2, <1>11, SignTables
  <2>3. Scanned(t, Tokenizer_consume(t, <<"SLASH_SLASH", <<char, next>>>>[1], 2))
    BY <1>7, <2>2
  <2>. QED
    BY <2>1, <2>3
<1>12. CASE char = "!" /\ next = "="
  <2>1. u = Tokenizer_consume(t, "BANG_EQUALS", 2)
    BY <1>1, <1>2, <1>12
  <2>2. <<"BANG_EQUALS", <<char, next>>>> \in Signs /\ char \in SignChars /\ next # NUL
    BY <1>2, <1>12, SignTables
  <2>3. Scanned(t, Tokenizer_consume(t, <<"BANG_EQUALS", <<char, next>>>>[1], 2))
    BY <1>7, <2>2
  <2>. QED
    BY <2>1, <2>3
<1>13. CASE /\ char \notin SingleChars /\ char \notin EqualsChars
            /\ ~ (char = "/" /\ next = "/") /\ ~ (char = "!" /\ next = "=")
  <2>1. u = ReturnMessage(IF char = "!" THEN t ELSE Advance(t, 1), "ERROR")
    BY <1>1, <1>2, <1>13
  <2>2. \A e \in Signs : e[2] # <<char>> /\ e[2] # <<char, next>>
    BY <1>13, OneOrTwo
  <2>3. ASSUME NEW k \in 1 .. Len(text), NEW e \in Signs PROVE e[2] # SubSeq(text, 1, k)
    <3>1. k \in Nat /\ Len(SubSeq(text, 1, k)) = k
      BY <1>4, FrontOfText
    <3>2. CASE k > 2
      <4>1. Len(e[2]) \in 1 .. 2
        BY SignShapes
      <4>2. Len(SubSeq(text, 1, k)) \notin 1 .. 2
        BY <3>1, <3>2
      <4>. QED
        BY <4>1, <4>2
    <3>3. CASE k <= 2
      <4>1. k = 1 \/ (k = 2 /\ Len(text) >= 2)
        BY <1>4, <3>1, <3>3
      <4>. QED
        BY <1>5, <2>2, <4>1
    <3>. QED
      BY <3>1, <3>2, <3>3
  <2>. QED
    BY <2>1, <2>3, ScanningNoSign DEF char, text
<1>. QED
  BY <1>8, <1>9, <1>10, <1>11, <1>12, <1>13

-------------------------------------------------------------------------------
(* Strings.                                                                *)

ClosesAt(t, i, place) ==
  /\ place \in i .. Len(t.source) + 1
  /\ CharAt(t, place) \in {CharAt(t, t.current), NUL}
  /\ \A j \in i .. place - 1 : CharAt(t, j) \notin {CharAt(t, t.current), NUL}

LEMMA ClosingQuoteIs ==
  ASSUME NEW t, Standing(t), CharAt(t, t.current) \in Quotes
  PROVE  ClosesAt(t, t.current + 1, ClosingQuote(t))
<1>. DEFINE open == CharAt(t, t.current)
            length == Len(t.source)
            D == t.current + 1 .. length + 1
            Escapes(i) == CharAt(t, i) = "\\" /\ CharAt(t, i + 1) \in {"0", "n", "t"}
            size == [i \in D |-> length + 1 - i]
            Stop == {i \in D : CharAt(t, i) \in {open, NUL}}
            base == [i \in D |-> i]
            step == [i \in D |-> [place \in D |-> place]]
            next == [i \in D |-> IF i \in Stop THEN i ELSE IF Escapes(i) THEN i + 2 ELSE i + 1]
            Value(f, i) ==
              CASE CharAt(t, i) \in {open, NUL} -> i
                [] CharAt(t, i) = "\\" /\ CharAt(t, i + 1) \in {"0", "n", "t"} -> f[i + 2]
                [] OTHER -> f[i + 1]
            Solves(f) == f = [i \in D |-> Value(f, i)]
            from == CHOOSE f : Solves(f)
<1>0. \A c \in {open, NUL} : c # "\\"
  BY NamedAreDifferent DEF Named, Quotes, NUL
<1>1. ClosingQuote(t) = from[t.current + 1]
  BY DEF ClosingQuote
<1>2. /\ t.current \in Nat \ {0} /\ length \in Nat /\ t.current <= length
      /\ \A i \in Nat \ {0} : CharAt(t, i) # NUL => i <= length
  <2>1. CharAt(t, t.current) # NUL
    BY Different
  <2>2. \A i \in Nat \ {0} : CharAt(t, i) # NUL => i <= length
    <3>. SUFFICES ASSUME NEW i \in Nat \ {0}, CharAt(t, i) # NUL PROVE i <= length
      OBVIOUS
    <3>1. length \in Nat /\ ~ (i > length)
      BY CharIs, Standings
    <3>. QED
      BY <3>1
  <2>. QED
    BY <2>1, <2>2, FirstChar, Standings
(* The scan goes on in the line.                                           *)
<1>3. ASSUME NEW i \in D, i \notin Stop
      PROVE  /\ i + 1 \in D
             /\ Escapes(i) => i + 2 \in D /\ CharAt(t, i + 1) \notin {open, NUL}
  <2>1. i \in Nat \ {0} /\ CharAt(t, i) # NUL
    BY <1>2, <1>3
  <2>2. i <= length
    BY <1>2, <2>1
  <2>3. ASSUME Escapes(i) PROVE i + 1 <= length /\ CharAt(t, i + 1) \notin {open, NUL}
    <3>1. CharAt(t, i + 1) # NUL
      <4>1. NUL \notin {"0", "n", "t"}
        BY DEF NUL
      <4>. QED
        BY <2>3, <4>1
    <3>2. CharAt(t, i + 1) \notin Quotes
      <4>1. {"0", "n", "t"} \subseteq SymbolChars
        BY DEF SymbolChars, Letters, Digits
      <4>. QED
        BY <2>3, <4>1, Different DEF SymbolChars
    <3>3. i + 1 \in Nat \ {0}
      BY <2>1
    <3>. QED
      BY <1>2, <3>1, <3>2, <3>3
  <2>. QED
    BY <1>2, <2>1, <2>2, <2>3
<1>4. \E f \in [D -> D] :
        \A i \in D : f[i] = IF i \in Stop THEN base[i] ELSE step[i][f[next[i]]]
  <2>1. size \in [D -> Nat] /\ Stop \in SUBSET D /\ base \in [D -> D] /\ step \in [D -> [D -> D]]
    BY <1>2
  <2>2. next \in [D -> D]
    <3>. SUFFICES ASSUME NEW i \in D
                  PROVE  (IF i \in Stop THEN i ELSE IF Escapes(i) THEN i + 2 ELSE i + 1) \in D
      OBVIOUS
    <3>. HIDE DEF D, Stop, Escapes
    <3>. QED
      BY <1>3
  <2>3. \A i \in D : i \notin Stop => size[next[i]] < size[i]
    <3>. SUFFICES ASSUME NEW i \in D, i \notin Stop PROVE size[next[i]] < size[i]
      OBVIOUS
    <3>1. next[i] \in D /\ next[i] \in {i + 1, i + 2}
      <4>1. next[i] \in D
        <5>. HIDE DEF D, next
        <5>. QED
          BY <2>2
      <4>. QED
        BY <4>1
    <3>2. size[next[i]] = length + 1 - next[i] /\ size[i] = length + 1 - i
      <4>. HIDE DEF D, next
      <4>. QED
        BY <3>1
    <3>. HIDE DEF size, next
    <3>. QED
      BY <1>2, <3>1, <3>2
  <2>. HIDE DEF D, size, Stop, base, step, next
  <2>4. Descends(D, D, size, Stop, base, step, next)
    BY <2>1, <2>2, <2>3 DEF Descends
  <2>. QED
    BY <2>4, RecursionExists
<1>5. PICK f \in [D -> D] :
        \A i \in D : f[i] = IF i \in Stop THEN base[i] ELSE step[i][f[next[i]]]
  BY <1>4
<1>6. ASSUME NEW i \in D PROVE f[i] = Value(f, i)
  <2>1. CASE i \in Stop
    <3>1. Value(f, i) = i /\ base[i] = i
      BY <1>0, <2>1
    <3>2. f[i] = base[i]
      <4>. HIDE DEF D, Stop, base, step, next
      <4>. QED
        BY <1>5, <2>1
    <3>. QED
      BY <3>1, <3>2
  <2>2. CASE i \notin Stop
    <3>1. f[i] = step[i][f[next[i]]] /\ CharAt(t, i) \notin {open, NUL}
      BY <1>5, <2>2
    <3>2. next[i] = IF Escapes(i) THEN i + 2 ELSE i + 1
      BY <2>2
    <3>3. next[i] \in D
      <4>. HIDE DEF D, next, Stop, Escapes
      <4>. QED
        BY <1>3, <2>2, <3>2
    <3>4. f[next[i]] \in D
      <4>. HIDE DEF D, next
      <4>. QED
        BY <3>3
    <3>5. step[i][f[next[i]]] = f[next[i]]
      <4>. HIDE DEF D, next
      <4>. QED
        BY <3>4
    <3>. HIDE DEF D, next, step
    <3>. QED
      BY <3>1, <3>2, <3>5
  <2>. QED
    BY <2>1, <2>2
<1>7. Solves(f)
  <2>. HIDE DEF Value, D
  <2>. QED
    BY <1>6
<1>8. Solves(from)
  <2>. HIDE DEF Solves
  <2>. QED
    BY <1>7
<1>9. \A i \in D : from[i] = Value(from, i)
  <2>. HIDE DEF Value, D, from
  <2>. QED
    BY <1>8
<1>. HIDE DEF from
(* From the end of the line backwards.                                     *)
<1>. DEFINE Found == {n \in Nat : \A i \in D : size[i] <= n => ClosesAt(t, i, from[i])}
<1>10. ASSUME NEW i \in D, i \in Stop PROVE ClosesAt(t, i, from[i])
  <2>1. from[i] = Value(from, i)
    <3>. HIDE DEF D, Value, Stop
    <3>. QED
      BY <1>9, <1>10
  <2>2. from[i] = i
    BY <1>0, <1>10, <2>1
  <2>. QED
    BY <1>2, <1>10, <2>2 DEF ClosesAt
<1>11. ASSUME NEW i \in D, i \notin Stop, NEW k \in D, k = IF Escapes(i) THEN i + 2 ELSE i + 1,
              ClosesAt(t, k, from[k])
       PROVE  ClosesAt(t, i, from[i])
  <2>1. from[i] = from[k] /\ CharAt(t, i) \notin {open, NUL}
    BY <1>9, <1>11
  <2>2. from[k] \in k .. length + 1 /\ CharAt(t, from[k]) \in {open, NUL}
        /\ \A j \in k .. from[k] - 1 : CharAt(t, j) \notin {open, NUL}
    BY <1>11 DEF ClosesAt
  <2>3. /\ i \in Nat /\ k \in Nat /\ length \in Nat
        /\ k = i + 1 \/ (k = i + 2 /\ CharAt(t, i + 1) \notin {open, NUL})
    BY <1>2, <1>3, <1>11
  <2>4. from[k] \in i .. length + 1
    BY <2>2, <2>3
  <2>5. ASSUME NEW j \in i .. from[k] - 1 PROVE CharAt(t, j) \notin {open, NUL}
    <3>1. j = i \/ (j = i + 1 /\ k = i + 2) \/ j \in k .. from[k] - 1
      BY <2>2, <2>3
    <3>. QED
      BY <2>1, <2>2, <2>3, <3>1
  <2>. QED
    BY <2>1, <2>2, <2>4, <2>5 DEF ClosesAt
<1>12. 0 \in Found
  <2>. SUFFICES ASSUME NEW i \in D, size[i] <= 0 PROVE ClosesAt(t, i, from[i])
    OBVIOUS
  <2>1. i = length + 1
    BY <1>2
  <2>2. i \in Stop
    BY <1>2, <2>1, CharIs
  <2>. QED
    BY <1>10, <2>2
<1>13. ASSUME NEW n \in Nat, n \in Found PROVE n + 1 \in Found
  <2>. SUFFICES ASSUME NEW i \in D, size[i] <= n + 1 PROVE ClosesAt(t, i, from[i])
    <3>1. n + 1 \in Nat
      OBVIOUS
    <3>. HIDE DEF D, size
    <3>. QED
      BY <3>1
  <2>1. CASE i \in Stop
    BY <1>10, <2>1
  <2>2. CASE i \notin Stop
    <3>. DEFINE k == IF Escapes(i) THEN i + 2 ELSE i + 1
    <3>1. k \in D
      <4>. HIDE DEF D, Stop, Escapes
      <4>. QED
        BY <1>3, <2>2
    <3>2. size[k] <= n
      <4>1. size[k] = length + 1 - k /\ size[i] = length + 1 - i /\ k \in {i + 1, i + 2}
        BY <3>1
      <4>2. i \in Nat
        BY <1>2
      <4>. HIDE DEF size, k
      <4>. QED
        BY <1>2, <4>1, <4>2
    <3>3. ClosesAt(t, k, from[k])
      <4>. HIDE DEF size, k, D
      <4>. QED
        BY <1>13, <3>1, <3>2
    <3>. QED
      <4>1. k = IF Escapes(i) THEN i + 2 ELSE i + 1
        OBVIOUS
      <4>. HIDE DEF k, Escapes, D, Stop
      <4>. QED
        BY <1>11, <2>2, <3>1, <3>3, <4>1
  <2>. QED
    BY <2>1, <2>2
<1>14. Nat \subseteq Found
  <2>. HIDE DEF Found
  <2>. QED
    BY <1>12, <1>13, Induction
<1>15. t.current + 1 \in D /\ size[t.current + 1] \in Nat
  BY <1>2
<1>16. ClosesAt(t, t.current + 1, from[t.current + 1])
  <2>1. size[t.current + 1] \in Found
    <3>. HIDE DEF Found, size
    <3>. QED
      BY <1>14, <1>15
  <2>2. size[t.current + 1] <= size[t.current + 1]
    BY <1>15
  <2>. HIDE DEF size, D
  <2>. QED
    BY <1>15, <2>1, <2>2
<1>. QED
  BY <1>1, <1>16

LEMMA PieceOfRest ==
  ASSUME NEW source \in Seq(STRING), NEW length \in Nat, length = Len(source),
         NEW from \in Nat \ {0}, from <= length + 1,
         NEW n \in Nat, NEW m \in Nat, n <= m, m <= length + 1 - from
  PROVE  /\ SubSeq(source, from + n, from + m - 1) = SubSeq(SubSeq(source, from, length), n + 1, m)
         /\ SubSeq(source, from + n, from + m - 1) \in Seq(STRING)
<1>. DEFINE rest == SubSeq(source, from, length)
            size == length + 1 - from
            i == from + n
            j == from + m - 1
            a == SubSeq(source, i, j)
            b == SubSeq(rest, n + 1, m)
            piece == m - n
<1>1. /\ i \in Nat \ {0} /\ j \in Nat /\ i <= j + 1 /\ j <= length /\ j + 1 - i = piece
      /\ n + 1 \in Nat \ {0} /\ n + 1 <= m + 1 /\ m + 1 - (n + 1) = piece /\ m <= size
  OBVIOUS
<1>2. rest \in Seq(STRING) /\ Len(rest) = size /\ \A k \in 1 .. size : rest[k] = source[from + k - 1]
  BY PartOfText
<1>. HIDE DEF rest
<1>3. /\ a \in Seq(STRING) /\ Len(a) = piece
      /\ \A k \in 1 .. piece : a[k] = source[i + k - 1]
  <2>. HIDE DEF piece, i, j
  <2>. QED
    BY <1>1, PartOfText
<1>4. /\ b \in Seq(STRING) /\ Len(b) = piece
      /\ \A k \in 1 .. piece : b[k] = rest[(n + 1) + k - 1]
  <2>. HIDE DEF piece, size, i, j
  <2>. QED
    BY <1>1, <1>2, PartOfText
<1>5. \A k \in 1 .. piece : a[k] = b[k]
  <2>. SUFFICES ASSUME NEW k \in 1 .. piece PROVE a[k] = b[k]
    OBVIOUS
  <2>1. a[k] = source[i + k - 1] /\ b[k] = rest[(n + 1) + k - 1]
    <3>. HIDE DEF a, b, i, j, piece
    <3>. QED
      BY <1>3, <1>4
  <2>2. (n + 1) + k - 1 \in 1 .. size /\ from + ((n + 1) + k - 1) - 1 = i + k - 1
    OBVIOUS
  <2>. HIDE DEF a, b, i, size
  <2>. QED
    BY <1>2, <2>1, <2>2
<1>. HIDE DEF a, b, piece
<1>6. a = b
  BY <1>3, <1>4, <1>5, SeqEqual
<1>. QED
  BY <1>3, <1>6 DEF a, b, rest

LEMMA PieceInText ==
  ASSUME NEW t, Standing(t), NEW n \in Nat, NEW m \in Nat, n <= m, m <= Len(TextLeft(t))
  PROVE  /\ SubSeq(t.source, t.current + n, t.current + m - 1) = SubSeq(TextLeft(t), n + 1, m)
         /\ SubSeq(t.source, t.current + n, t.current + m - 1) \in Seq(STRING)
<1>. DEFINE source == t.source
            length == Len(source)
            from == t.current
<1>1. /\ source \in Seq(STRING) /\ length \in Nat /\ from \in Nat \ {0} /\ from <= length + 1
      /\ m <= length + 1 - from /\ length = Len(source) /\ TextLeft(t) = SubSeq(source, from, length)
  BY Standings, TextLeftIs DEF TextLeft
<1>. HIDE DEF source, length, from
<1>2. /\ SubSeq(source, from + n, from + m - 1) = SubSeq(SubSeq(source, from, length), n + 1, m)
      /\ SubSeq(source, from + n, from + m - 1) \in Seq(STRING)
  BY <1>1, PieceOfRest
<1>. QED
  BY <1>1, <1>2 DEF source, from

LEMMA NoSuffix == \A type : SuffixIs(<<>>, type) <=> type = "UTF8_LITERAL"
BY DEF SuffixIs

LEMMA ClosedInText ==
  ASSUME NEW t, Standing(t), CharAt(t, t.current) \in Quotes,
         NEW place, ClosesAt(t, t.current + 1, place), CharAt(t, place) # NUL,
         NEW closing, closing = place + 1 - t.current
  PROVE  Closes(TextLeft(t), closing) /\ place <= Len(t.source)
<1>. DEFINE text == TextLeft(t)
            current == t.current
            open == CharAt(t, t.current)
<1>1. /\ open # NUL /\ current \in Nat \ {0} /\ Len(t.source) \in Nat
      /\ Len(text) = Len(t.source) + 1 - current
      /\ \A i \in 1 .. Len(text) : text[i] = CharAt(t, current + i - 1)
      /\ text[1] = open
  BY Different, Standings, TextLeftIs, FirstChar
<1>2. /\ place \in current + 1 .. Len(t.source) + 1 /\ CharAt(t, place) = open
      /\ \A j \in current + 1 .. place - 1 : CharAt(t, j) # open
  BY DEF ClosesAt
<1>3. place <= Len(t.source)
  <2>1. place \in Nat \ {0}
    BY <1>1, <1>2
  <2>2. ~ (place > Len(t.source))
    BY <1>1, <1>2, <2>1, CharIs
  <2>. QED
    BY <1>1, <2>1, <2>2
<1>. DEFINE length == Len(t.source)
<1>7. closing = place + 1 - current
  OBVIOUS
<1>. HIDE DEF text, current, open, length
<1>4. closing \in 2 .. Len(text) /\ closing \in 1 .. Len(text) /\ current + closing - 1 = place
  <2>1. /\ current \in Nat \ {0} /\ length \in Nat /\ Len(text) = length + 1 - current
        /\ place \in current + 1 .. length + 1 /\ place <= length
    BY <1>1, <1>2, <1>3 DEF length
  <2>. QED
    BY <1>7, <2>1
<1>5. text[closing] = text[1]
  BY <1>1, <1>2, <1>4
<1>6. ASSUME NEW i \in 2 .. closing - 1 PROVE text[i] # text[1]
  <2>1. i \in 1 .. Len(text) /\ current + i - 1 \in current + 1 .. place - 1
    <3>1. /\ current \in Nat \ {0} /\ length \in Nat /\ Len(text) = length + 1 - current
          /\ place \in current + 1 .. length + 1 /\ place <= length
      BY <1>1, <1>2, <1>3 DEF length
    <3>2. Len(text) \in Nat /\ closing \in 2 .. Len(text) /\ i \in 2 .. closing - 1
      BY <1>4, <1>6, <3>1
    <3>. QED
      BY <1>7, <3>1, <3>2
  <2>. QED
    BY <1>1, <1>2, <2>1
<1>. QED
  BY <1>1, <1>3, <1>4, <1>5, <1>6 DEF Closes, text, open

LEMMA ScanningEncoded ==
  ASSUME NEW t, Standing(t), CharAt(t, t.current) \in Quotes,
         NEW place, ClosesAt(t, t.current + 1, place), CharAt(t, place) # NUL,
         NEW u, Moves(t, u), u.current = place + 1, u.token = t.token
  PROVE  Scanned(t, EncodedString(u, t.current))
<1>. DEFINE text == TextLeft(t)
            current == t.current
            end == Past(t, place + 1, SymbolChars)
            next == [u EXCEPT !.current = end]
            closing == place + 1 - current
            n == end - current
            suffix == SubSeq(text, closing + 1, n)
            fitting == {i \in 1 .. 3 : Fits(suffix, Encodings[i].name)}
            v == EncodedString(u, current)
<1>1. /\ current \in Nat \ {0} /\ Len(t.source) \in Nat /\ current <= Len(t.source)
      /\ text \in Seq(STRING) /\ Len(text) = Len(t.source) + 1 - current
  BY Different, Standings, TextLeftIs, FirstChar
<1>2. place \in current + 1 .. Len(t.source) + 1
  BY DEF ClosesAt
<1>3. Closes(text, closing) /\ place <= Len(t.source)
  BY ClosedInText
<1>4. /\ end \in place + 1 .. Len(t.source) + 1
      /\ CharAt(t, end) \notin SymbolChars
      /\ \A j \in place + 1 .. end - 1 : CharAt(t, j) \in SymbolChars
  <2>1. place + 1 \in 1 .. Len(t.source) + 1
    BY <1>1, <1>2, <1>3
  <2>. QED
    BY <2>1, PastIs, Different
<1>5. Moves(t, next) /\ next.current = end
  BY Moving
<1>6. v = IF SubSeq(u.source, u.current, next.current - 1) = <<>> THEN ReturnLexeme(next, "UTF8_LITERAL", current)
          ELSE IF {i \in DOMAIN Encodings : Fits(SubSeq(u.source, u.current, next.current - 1), Encodings[i].name)} # {}
          THEN ReturnLexeme(next,
                 Encodings[Least({i \in DOMAIN Encodings :
                                  Fits(SubSeq(u.source, u.current, next.current - 1), Encodings[i].name)})].type, current)
          ELSE [u EXCEPT !.current = current, !.stop = "assert(false)"]
  <2>1. end = Past(u, u.current, SymbolChars)
    BY SameCharacters
  <2>. QED
    BY <2>1 DEF EncodedString, Least
<1>. HIDE DEF end, next, v
<1>7. SubSeq(u.source, u.current, next.current - 1) = suffix /\ suffix \in Seq(STRING)
  <2>1. /\ closing \in Nat /\ n \in Nat /\ closing <= n /\ n <= Len(text)
        /\ u.current = current + closing /\ next.current - 1 = current + n - 1
    <3>. DEFINE length == Len(t.source)
    <3>1. /\ place \in Nat /\ end \in Nat /\ current \in Nat /\ length \in Nat
          /\ current < place /\ place < end /\ end <= length + 1
          /\ Len(text) = length + 1 - current
      BY <1>1, <1>2, <1>4
    <3>2. u.current = place + 1 /\ next.current = end
      BY <1>5
    <3>. HIDE DEF current, length, text
    <3>. QED
      BY <3>1, <3>2
  <2>. HIDE DEF closing, n
  <2>2. /\ SubSeq(t.source, current + closing, current + n - 1) = SubSeq(text, closing + 1, n)
        /\ SubSeq(t.source, current + closing, current + n - 1) \in Seq(STRING)
    BY <2>1, PieceInText
  <2>3. u.source = t.source
    BY DEF Moves, Rests
  <2>. HIDE DEF text, current
  <2>. QED
    BY <2>1, <2>2, <2>3
<1>8. v = IF suffix = <<>> THEN ReturnLexeme(next, "UTF8_LITERAL", current)
          ELSE IF fitting # {} THEN ReturnLexeme(next, Encodings[Least(fitting)].type, current)
          ELSE [u EXCEPT !.current = current, !.stop = "assert(false)"]
  <2>1. DOMAIN Encodings = 1 .. 3
    BY EncodingShapes
  <2>. HIDE DEF suffix
  <2>. QED
    BY <1>6, <1>7, <2>1
<1>. HIDE DEF fitting
<1>9. /\ n \in closing .. Len(text)
      /\ \A i \in closing + 1 .. n : text[i] \in SymbolChars
      /\ n < Len(text) => text[n + 1] \notin SymbolChars
  <2>1. /\ n \in 0 .. Len(text)
        /\ \A k \in (place + 1) + 1 - current .. n : text[k] \in SymbolChars
        /\ n < Len(text) => text[n + 1] \notin SymbolChars
    <3>1. place + 1 \in Nat /\ place + 1 >= current
      BY <1>1, <1>2
    <3>. QED
      BY <1>4, <3>1, RunInText
  <2>2. (place + 1) + 1 - current = closing + 1 /\ n \in closing .. Len(text)
    <3>1. /\ current \in Nat \ {0} /\ place \in Nat /\ end \in Nat /\ place + 1 <= end
          /\ current <= place /\ n \in 0 .. Len(text)
      BY <1>1, <1>2, <1>4, <2>1
    <3>. HIDE DEF current, text
    <3>. QED
      BY <3>1
  <2>3. \A i \in closing + 1 .. n : text[i] \in SymbolChars
    BY <2>1, <2>2
  <2>. QED
    BY <2>1, <2>2, <2>3
<1>10. ASSUME NEW type \in StringTypes, \A other : SuffixIs(suffix, other) <=> other = type,
              v = ReturnLexeme(next, type, current)
       PROVE  Scanned(t, v)
  <2>1. Emits(t, v, type, n)
    <3>1. next.current \in current .. Len(t.source) + 1 /\ n = next.current - current
      BY <1>1, <1>2, <1>4, <1>5
    <3>. HIDE DEF n
    <3>. QED
      BY <1>5, <1>10, <3>1, ReturningLexeme
  <2>2. \A other : SuffixIs(SubSeq(text, closing + 1, n), other) <=> other = type
    BY <1>10
  <2>. HIDE DEF suffix, n, closing, text
  <2>3. LongestIs(text, n, type)
    BY <1>1, <1>3, <1>9, <1>10, <2>2, StringIsLongest
  <2>. QED
    BY <2>1, <2>3, EmitsLongest DEF text
<1>. HIDE DEF suffix
<1>11. CASE suffix = <<>>
  <2>1. v = ReturnLexeme(next, "UTF8_LITERAL", current)
    BY <1>8, <1>11
  <2>2. "UTF8_LITERAL" \in StringTypes
    BY DEF StringTypes
  <2>3. \A other : SuffixIs(suffix, other) <=> other = "UTF8_LITERAL"
    BY <1>11, NoSuffix
  <2>4. Scanned(t, v)
    BY <1>10, <2>1, <2>2, <2>3
  <2>. QED
    BY <2>4 DEF v
<1>12. CASE suffix # <<>> /\ fitting # {}
  <2>1. v = ReturnLexeme(next, Encodings[Least(fitting)].type, current)
    BY <1>8, <1>12
  <2>2. /\ Encodings[Least(fitting)].type \in StringTypes
        /\ \A other : SuffixIs(suffix, other) <=> other = Encodings[Least(fitting)].type
    BY <1>7, <1>12, FirstFits DEF fitting
  <2>3. Scanned(t, v)
    BY <1>10, <2>1, <2>2
  <2>. QED
    BY <2>3 DEF v
<1>13. CASE suffix # <<>> /\ fitting = {}
  <2>1. v = [u EXCEPT !.current = current, !.stop = "assert(false)"]
    BY <1>8, <1>13
  <2>2. /\ Rests(t, v) /\ v.current = current /\ v.line = t.line /\ v.stop = "assert(false)" /\ v.token = t.token
    BY <2>1 DEF Moves, Rests, Fields
  <2>3. Standing(v) /\ TokensLeft(v) = TokensLeft(t)
    BY <2>2 DEF Standing, Rests, TokensLeft, TextLeft
  <2>4. \A type : ~ SuffixIs(suffix, type)
    <3>1. \A i \in 1 .. 3 : ~ Fits(suffix, Encodings[i].name)
      BY <1>13 DEF fitting
    <3>. QED
      BY <1>7, <1>13, <3>1, SuffixMeans
  <2>5. ~ Known(t)
    <3>1. n # closing
      <4>1. closing + 1 > closing /\ closing \in Nat
        BY <1>3 DEF Closes
      <4>. QED
        BY <1>13, <4>1, SubSeqEmpty DEF suffix
    <3>2. n \in closing + 1 .. Len(text)
      <4>1. closing \in Nat /\ Len(text) \in Nat
        BY <1>1, <1>3, LenProperties DEF Closes
      <4>. HIDE DEF closing, n, text
      <4>. QED
        BY <1>9, <3>1, <4>1
    <3>3. \A type : ~ SuffixIs(SubSeq(text, closing + 1, n), type)
      BY <2>4 DEF suffix
    <3>. HIDE DEF closing, n, text
    <3>4. ~ IsLast(text) /\ UnknownEncoding(text)
      BY <1>1, <1>3, <1>9, <3>2, <3>3, UnknownIs
    <3>5. ~ EncodingsKnown[text]
      BY <1>1, <3>4, KnownText
    <3>. QED
      BY <3>5 DEF Known, text
  <2>6. Scanned(t, v)
    BY <1>1, <2>2, <2>3, <2>5 DEF Scanned, Stops
  <2>. QED
    BY <2>6 DEF v
<1>. QED
  BY <1>11, <1>12, <1>13

LEMMA ScanningString ==
  ASSUME NEW t, Standing(t), CharAt(t, t.current) \in Quotes
  PROVE  Scanned(t, Tokenizer_string(t))
<1>. DEFINE closing == ClosingQuote(t)
            text == TextLeft(t)
<1>1. ClosesAt(t, t.current + 1, closing)
  BY ClosingQuoteIs
<1>2. Tokenizer_string(t) =
        IF CharAt(t, closing) = NUL THEN ReturnMessage([t EXCEPT !.current = closing], "ERROR")
        ELSE EncodedString([t EXCEPT !.current = closing + 1], t.current)
  BY DEF Tokenizer_string
<1>. HIDE DEF closing
<1>3. CASE CharAt(t, closing) # NUL
  <2>. DEFINE u == [t EXCEPT !.current = closing + 1]
  <2>1. Moves(t, u) /\ u.current = closing + 1
    BY Moving, MovesNot
  <2>2. u.token = t.token
    BY DEF Standing, Fields
  <2>3. Tokenizer_string(t) = EncodedString(u, t.current)
    BY <1>2, <1>3
  <2>. HIDE DEF u
  <2>. QED
    BY <1>1, <1>3, <2>1, <2>2, <2>3, ScanningEncoded
<1>4. CASE CharAt(t, closing) = NUL
  <2>. DEFINE v == [t EXCEPT !.current = closing]
              u == ReturnMessage(v, "ERROR")
              open == CharAt(t, t.current)
  <2>1. /\ t.current \in Nat \ {0} /\ Len(t.source) \in Nat /\ t.line \in Nat /\ t.current <= Len(t.source)
        /\ text \in Seq(STRING) /\ text # <<>> /\ text[1] = open /\ Len(text) = Len(t.source) + 1 - t.current
        /\ \A i \in 1 .. Len(text) : text[i] = CharAt(t, t.current + i - 1)
    BY Different, Standings, TextLeftIs, FirstChar
  <2>2. closing = Len(t.source) + 1
    <3>1. closing \in t.current + 1 .. Len(t.source) + 1
      BY <1>1 DEF ClosesAt
    <3>2. closing \in Nat \ {0} /\ ~ (closing <= Len(t.source))
      BY <1>4, <2>1, <3>1, CharIs
    <3>. QED
      BY <2>1, <3>1, <3>2
  <2>3. ASSUME NEW i \in 2 .. Len(text) PROVE text[i] # text[1]
    <3>1. i \in 1 .. Len(text) /\ t.current + i - 1 \in t.current + 1 .. closing - 1
      <4>. DEFINE current == t.current
                  length == Len(t.source)
      <4>1. /\ current \in Nat \ {0} /\ length \in Nat /\ current <= length
            /\ Len(text) = length + 1 - current /\ closing = length + 1
        BY <2>1, <2>2
      <4>. HIDE DEF current, length, text, closing
      <4>2. i \in 1 .. Len(text) /\ current + i - 1 \in current + 1 .. closing - 1
        BY <4>1
      <4>. QED
        BY <4>2 DEF current
    <3>2. CharAt(t, t.current + i - 1) # open
      BY <1>1, <3>1 DEF ClosesAt
    <3>. QED
      BY <2>1, <3>1, <3>2
  <2>4. Moves(t, v) /\ v.current = closing
    BY Moving, MovesNot
  <2>. HIDE DEF v
  <2>5. Moves(t, u) /\ u.current = closing /\ u.token = Unwritten("ERROR", t.line)
    BY <2>4, ReturningMessage
  <2>6. /\ TokensLeft(t) = <<Unwritten("ERROR", t.line)>> \o TokensOf[SubSeq(text, Len(text) + 1, Len(text))][t.line]
        /\ Known(t) => EncodingsKnown[SubSeq(text, Len(text) + 1, Len(text))]
    <3>. DEFINE line == t.line
    <3>1. /\ line \in Nat /\ text[1] \in Quotes /\ TokensLeft(t) = TokensOf[text][line]
          /\ Known(t) <=> EncodingsKnown[text]
      BY <2>1 DEF TokensLeft, Known
    <3>. HIDE DEF line, text
    <3>2. /\ TokensOf[text][line]
               = <<Unwritten("ERROR", line)>> \o TokensOf[SubSeq(text, Len(text) + 1, Len(text))][line]
          /\ EncodingsKnown[text] => EncodingsKnown[SubSeq(text, Len(text) + 1, Len(text))]
      BY <2>1, <2>3, <3>1, OpenString
    <3>. QED
      BY <3>1, <3>2 DEF line
  <2>. HIDE DEF u
  <2>7. Standing(u)
    BY <2>1, <2>2, <2>5 DEF Standing, Moves, Rests
  <2>8. /\ TokensLeft(u) = TokensOf[SubSeq(text, Len(text) + 1, Len(text))][t.line]
        /\ Known(u) <=> EncodingsKnown[SubSeq(text, Len(text) + 1, Len(text))]
    <3>1. Len(text) \in 0 .. Len(text) /\ t.current + Len(text) = closing
      BY <2>1, <2>2
    <3>2. SubSeq(t.source, t.current + Len(text), Len(t.source)) = SubSeq(text, Len(text) + 1, Len(text))
      BY <3>1, Moved
    <3>3. u.source = t.source /\ u.line = t.line /\ u.current = t.current + Len(text)
      BY <2>5, <3>1 DEF Moves, Rests
    <3>. HIDE DEF text
    <3>. QED
      BY <3>2, <3>3 DEF TokensLeft, TextLeft, Known
  <2>9. Returns(t, u)
    <3>1. TokensLeft(t) = <<u.token>> \o TokensLeft(u) /\ (Known(t) => Known(u))
      BY <2>5, <2>6, <2>8
    <3>. QED
      BY <2>1, <2>5, <3>1, UnwrittenFields DEF Returns, Moves, Rests
  <2>10. Tokenizer_string(t) = u
    BY <1>2, <1>4 DEF u, v
  <2>. QED
    BY <2>5, <2>7, <2>9, <2>10 DEF Scanned, Moves
<1>. QED
  BY <1>3, <1>4

-------------------------------------------------------------------------------
(* The space in front of a token.                                          *)

LEMMA OneSpace ==
  ASSUME NEW t, Standing(t), CharAt(t, t.current) \in Space,
         NEW u, Rests(t, u), u.current = t.current + 1,
         u.line = t.line + IF CharAt(t, t.current) = "\n" THEN 1 ELSE 0
  PROVE  Standing(u) /\ TokensLeft(u) = TokensLeft(t) /\ (Known(t) => Known(u))
<1>. DEFINE text == TextLeft(t)
            line == t.line
<1>1. /\ t.current \in Nat \ {0} /\ t.current <= Len(t.source) /\ Len(t.source) \in Nat
      /\ line \in Nat /\ text \in Seq(STRING) /\ text # <<>> /\ text[1] = CharAt(t, t.current)
      /\ text[1] \in Space /\ 1 \in 1 .. Len(text)
  BY Different, Standings, TextLeftIs, FirstChar
<1>2. TokensLeft(t) = TokensOf[text][line] /\ (Known(t) <=> EncodingsKnown[text])
  BY DEF TokensLeft, Known
<1>3. TextLeft(u) = SubSeq(text, 2, Len(text))
  <2>1. 1 \in 0 .. Len(text) /\ 1 + 1 = 2
    BY <1>1
  <2>2. SubSeq(t.source, t.current + 1, Len(t.source)) = SubSeq(text, 1 + 1, Len(text))
    BY <2>1, Moved
  <2>3. TextLeft(u) = SubSeq(t.source, t.current + 1, Len(t.source))
    BY DEF TextLeft, Rests
  <2>. HIDE DEF text
  <2>. QED
    BY <2>1, <2>2, <2>3
<1>4. u.line = LineBehind(text, line)
  BY <1>1 DEF LineBehind
<1>. HIDE DEF text, line
<1>5. /\ TokensOf[text][line] = TokensOf[SubSeq(text, 2, Len(text))][LineBehind(text, line)]
      /\ EncodingsKnown[text] => EncodingsKnown[SubSeq(text, 2, Len(text))]
  BY <1>1, BehindSpace
<1>6. Standing(u)
  <2>1. u.line \in Nat
    BY <1>1 DEF line
  <2>2. u.current \in 1 .. Len(t.source) + 1
    BY <1>1
  <2>. QED
    BY <2>1, <2>2 DEF Standing, Rests
<1>. QED
  BY <1>2, <1>3, <1>4, <1>5, <1>6 DEF TokensLeft, Known

LEMMA OneNewlineMore ==
  ASSUME NEW t, NEW i \in Nat, NEW j \in Nat, i <= j + 1
  PROVE  /\ Cardinality(Newlines(t, i, j)) \in Nat
         /\ Cardinality(Newlines(t, i, j + 1))
              = Cardinality(Newlines(t, i, j)) + IF CharAt(t, j + 1) = "\n" THEN 1 ELSE 0
<1>1. IsFiniteSet(i .. j)
  BY FS_Interval
<1>2. IsFiniteSet(Newlines(t, i, j))
  BY <1>1, FS_Subset DEF Newlines
<1>3. CASE CharAt(t, j + 1) = "\n"
  <2>1. Newlines(t, i, j + 1) = Newlines(t, i, j) \cup {j + 1} /\ j + 1 \notin Newlines(t, i, j)
    BY <1>3 DEF Newlines
  <2>. QED
    BY <1>2, <1>3, <2>1, FS_AddElement, FS_CardinalityType
<1>4. CASE CharAt(t, j + 1) # "\n"
  <2>1. Newlines(t, i, j + 1) = Newlines(t, i, j)
    BY <1>4 DEF Newlines
  <2>2. Cardinality(Newlines(t, i, j)) \in Nat
    BY <1>2, FS_CardinalityType
  <2>. QED
    BY <1>4, <2>1, <2>2
<1>. QED
  BY <1>3, <1>4

LEMMA SkippingSpace ==
  ASSUME NEW t, Standing(t), NEW u, u = Tokenizer_handleWhitespace(t)
  PROVE  /\ Standing(u) /\ Rests(t, u) /\ u.stop = t.stop /\ u.token = t.token
         /\ TokensLeft(u) = TokensLeft(t) /\ (Known(t) => Known(u)) /\ CharAt(u, u.current) \notin Space
         /\ t.current = Len(t.source) + 1 => u.current = t.current /\ u.line = t.line
<1>. DEFINE current == t.current
            place == Past(t, current, Space)
            Crossed(n) == Cardinality(Newlines(t, current, current + n - 1))
            At(n) == [t EXCEPT !.current = current + n, !.line = t.line + Crossed(n)]
            Same(n) == Standing(At(n)) /\ TokensLeft(At(n)) = TokensLeft(t) /\ (Known(t) => Known(At(n)))
            Through == {n \in Nat : n <= place - current => Same(n)}
<1>1. /\ current \in Nat \ {0} /\ current \in 1 .. Len(t.source) + 1 /\ Len(t.source) \in Nat /\ t.line \in Nat
      /\ place \in current .. Len(t.source) + 1
      /\ CharAt(t, place) \notin Space
      /\ \A j \in current .. place - 1 : CharAt(t, j) \in Space
  <2>1. current \in Nat \ {0} /\ current \in 1 .. Len(t.source) + 1 /\ Len(t.source) \in Nat /\ t.line \in Nat
    BY Standings
  <2>. QED
    BY <2>1, PastIs, Different
<1>2. u = [t EXCEPT !.current = place, !.line = t.line + Cardinality(Newlines(t, current, place - 1))]
  BY SameAlphabets DEF Tokenizer_handleWhitespace
<1>3. DOMAIN t = Fields
  BY DEF Standing
<1>. HIDE DEF place, current
<1>4. \A n : /\ DOMAIN At(n) = Fields /\ Rests(t, At(n)) /\ At(n).stop = t.stop /\ At(n).token = t.token
             /\ At(n).current = current + n /\ At(n).line = t.line + Crossed(n)
  <2>. HIDE DEF Crossed
  <2>. QED
    BY <1>3 DEF Rests, Fields
<1>5. Crossed(0) = 0
  <2>1. Newlines(t, current, current + 0 - 1) = {}
    BY <1>1 DEF Newlines
  <2>. QED
    BY <2>1, FS_EmptySet
<1>6. 0 \in Through
  <2>1. At(0).current = current /\ At(0).line = t.line
    <3>1. current + 0 = current /\ t.line + 0 = t.line
      BY <1>1
    <3>. HIDE DEF Crossed, At
    <3>. QED
      BY <1>4, <1>5, <3>1
  <2>2. At(0).source = t.source
    <3>. HIDE DEF At
    <3>. QED
      BY <1>4 DEF Rests
  <2>. HIDE DEF At
  <2>3. Same(0)
    BY <1>4, <2>1, <2>2 DEF Standing, TokensLeft, TextLeft, Known, current
  <2>. QED
    BY <2>3
<1>7. ASSUME NEW n \in Nat, n \in Through PROVE n + 1 \in Through
  <2>. SUFFICES ASSUME n + 1 <= place - current PROVE Same(n + 1)
    <3>1. n + 1 \in Nat
      OBVIOUS
    <3>. HIDE DEF Same
    <3>. QED
      BY <3>1
  <2>1. n <= place - current /\ current + n \in current .. place - 1
    BY <1>1
  <2>2. Standing(At(n)) /\ TokensLeft(At(n)) = TokensLeft(t) /\ (Known(t) => Known(At(n)))
    <3>. HIDE DEF At
    <3>. QED
      BY <1>7, <2>1
  <2>3. Crossed(n + 1) = Crossed(n) + (IF CharAt(t, current + n) = "\n" THEN 1 ELSE 0) /\ Crossed(n) \in Nat
    <3>. DEFINE j == current + n - 1
    <3>1. j \in Nat /\ current <= j + 1 /\ j + 1 = current + n /\ current + (n + 1) - 1 = j + 1
      BY <1>1
    <3>. HIDE DEF j
    <3>2. /\ Cardinality(Newlines(t, current, j)) \in Nat
          /\ Cardinality(Newlines(t, current, j + 1))
               = Cardinality(Newlines(t, current, j)) + IF CharAt(t, j + 1) = "\n" THEN 1 ELSE 0
      BY <1>1, <3>1, OneNewlineMore
    <3>3. Crossed(n + 1) = Cardinality(Newlines(t, current, j + 1)) /\ Crossed(n) = Cardinality(Newlines(t, current, j))
      <4>1. Crossed(n) = Cardinality(Newlines(t, current, j))
        BY DEF j
      <4>2. Crossed(n + 1) = Cardinality(Newlines(t, current, j + 1))
        BY <3>1
      <4>. QED
        BY <4>1, <4>2
    <3>. HIDE DEF Crossed
    <3>. QED
      BY <3>1, <3>2, <3>3
  <2>. DEFINE w == At(n)
              next == At(n + 1)
  <2>4. /\ Rests(t, w) /\ w.current = current + n /\ w.line = t.line + Crossed(n)
        /\ Rests(t, next) /\ next.current = current + (n + 1) /\ next.line = t.line + Crossed(n + 1)
    <3>. HIDE DEF At, Crossed
    <3>. QED
      BY <1>4
  <2>5. Standing(w) /\ TokensLeft(w) = TokensLeft(t) /\ (Known(t) => Known(w))
    BY <2>2
  <2>. HIDE DEF w, next, Crossed
  <2>6. \A i : CharAt(w, i) = CharAt(t, i)
    BY <2>4 DEF Rests, CharAt
  <2>7. CharAt(w, w.current) \in Space
    BY <1>1, <2>1, <2>4, <2>6
  <2>8. Rests(w, next) /\ next.current = w.current + 1
    BY <1>1, <2>4 DEF Rests
  <2>9. next.line = w.line + IF CharAt(w, w.current) = "\n" THEN 1 ELSE 0
    BY <1>1, <2>3, <2>4, <2>6
  <2>10. Standing(next) /\ TokensLeft(next) = TokensLeft(w) /\ (Known(w) => Known(next))
    BY <2>5, <2>7, <2>8, <2>9, OneSpace
  <2>. QED
    BY <2>5, <2>10 DEF next
<1>8. Nat \subseteq Through
  <2>. HIDE DEF Through
  <2>. QED
    BY <1>6, <1>7, Induction
<1>. DEFINE m == place - current
<1>9. m \in Nat /\ current + m = place /\ current + m - 1 = place - 1 /\ m <= place - current
  BY <1>1
<1>10. u = At(m)
  BY <1>2, <1>9
<1>11. Same(m)
  <2>1. m \in Through
    <3>. HIDE DEF Through, m
    <3>. QED
      BY <1>8, <1>9
  <2>. HIDE DEF Same, m
  <2>. QED
    BY <1>9, <2>1
<1>12. /\ Rests(t, u) /\ u.stop = t.stop /\ u.token = t.token /\ u.current = place
       /\ u.line = t.line + Crossed(m)
  <2>. HIDE DEF At, m, Crossed
  <2>. QED
    BY <1>4, <1>9, <1>10
<1>13. Standing(u) /\ TokensLeft(u) = TokensLeft(t) /\ (Known(t) => Known(u))
  BY <1>10, <1>11
<1>14. CharAt(u, u.current) \notin Space
  BY <1>1, <1>12 DEF Rests, CharAt
<1>15. ASSUME current = Len(t.source) + 1 PROVE u.current = current /\ u.line = t.line
  <2>1. place = current /\ m = 0
    BY <1>1, <1>15
  <2>. HIDE DEF Crossed, m
  <2>. QED
    BY <1>1, <1>5, <1>12, <2>1
<1>. QED
  BY <1>12, <1>13, <1>14, <1>15 DEF current

(* Tokenizer_scanInternal stops, or returns the next token.                *)
LEMMA Scanning ==
  ASSUME NEW t, Standing(t)
  PROVE  Scanned(t, Tokenizer_scanInternal(t))
<1>. DEFINE v == Tokenizer_handleWhitespace(t)
            char == CharAt(v, v.current)
            u == Tokenizer_scanInternal(t)
<1>1. u = CASE char \in Digits ->
                 ReturnLexeme([v EXCEPT !.current = Past(v, v.current, Digits)], "INTEGER_LITERAL", v.current)
            [] char \in Letters -> ScanWord(v)
            [] char \in {"'", DoubleQuote} -> Tokenizer_string(v)
            [] OTHER -> ScanSign(v)
  BY DEF Tokenizer_scanInternal
<1>2. /\ Standing(v) /\ Rests(t, v) /\ v.stop = t.stop /\ v.token = t.token
      /\ TokensLeft(v) = TokensLeft(t) /\ (Known(t) => Known(v)) /\ char \notin Space
      /\ t.current = Len(t.source) + 1 => v.current = t.current /\ v.line = t.line
  BY SkippingSpace
<1>3. /\ \A c \in Digits : c \notin Letters /\ c \notin Quotes
      /\ \A c \in Letters : c \notin Quotes
      /\ Quotes = {"'", DoubleQuote} /\ SymbolChars = Letters \cup Digits
  BY Different DEF Quotes, SymbolChars
<1>. HIDE DEF v, char, u
<1>4. ASSUME char \in Digits PROVE Scanned(v, u)
  <2>1. u = ReturnLexeme([v EXCEPT !.current = Past(v, v.current, Digits)], "INTEGER_LITERAL", v.current)
    BY <1>1, <1>3, <1>4
  <2>. QED
    BY <1>2, <1>4, <2>1, ScanningNumber DEF char
<1>5. ASSUME char \in Letters PROVE Scanned(v, u)
  <2>1. u = ScanWord(v)
    BY <1>1, <1>3, <1>5
  <2>. QED
    BY <1>2, <1>5, <2>1, ScanningWord DEF char
<1>6. ASSUME char \in Quotes PROVE Scanned(v, u)
  <2>1. u = Tokenizer_string(v)
    BY <1>1, <1>3, <1>6
  <2>. QED
    BY <1>2, <1>6, <2>1, ScanningString DEF char
<1>7. ASSUME char \notin Digits /\ char \notin Letters /\ char \notin Quotes
      PROVE  Scanned(v, u)
  <2>1. u = ScanSign(v) /\ char \notin SymbolChars
    BY <1>1, <1>3, <1>7
  <2>. QED
    BY <1>2, <1>7, <2>1, ScanningSign DEF char
<1>8. Scanned(v, u)
  BY <1>4, <1>5, <1>6, <1>7
<1>9. Standing(u) /\ Rests(t, u)
  BY <1>2, <1>8 DEF Scanned, Rests
<1>10. ASSUME Stops(v, u) PROVE Stops(t, u)
  <2>1. v.current <= Len(t.source) /\ v.source = t.source
    BY <1>2, <1>10 DEF Stops, Rests
  <2>2. t.current <= Len(t.source) + 1 /\ Len(t.source) \in Nat /\ t.current \in Nat
    BY Standings
  <2>3. t.current # Len(t.source) + 1
    BY <1>2, <2>1, <2>2
  <2>4. t.current <= Len(t.source)
    BY <2>2, <2>3
  <2>. QED
    BY <1>2, <1>10, <2>4 DEF Stops
<1>11. ASSUME Returns(v, u) PROVE Returns(t, u)
  <2>1. v.source = t.source
    BY <1>2 DEF Rests
  <2>. QED
    BY <1>2, <1>11, <2>1 DEF Returns
<1>12. Scanned(t, u)
  BY <1>8, <1>9, <1>10, <1>11 DEF Scanned
<1>. QED
  BY <1>12 DEF u

-------------------------------------------------------------------------------
(* The invariant: the tokenizer is in its line, what was peeked at is the  *)
(* token returned last, and when that is the end of the line, nothing of   *)
(* the line is left. It is why the next line overwrites no token.          *)
Good(t) ==
  /\ Standing(t)
  /\ t.hasLookahead \in BOOLEAN
  /\ t.stop \in {NotStopped, "assert(false)"}
  /\ t.hasLookahead => t.token = t.lookahead /\ t.token \in Tokens
  /\ t.token.type = "EOF" => t.current = Len(t.source) + 1 /\ t.token.line = t.line

IInv == Good(tokenizer)

LeftOf(t) == Endless[IF t.hasLookahead THEN <<t.lookahead>> \o TokensLeft(t) ELSE TokensLeft(t)]

LEMMA LeftAreTokens ==
  ASSUME NEW t, Standing(t)
  PROVE  TokensLeft(t) \in Seq(Tokens) /\ TokensLeft(t) # <<>>
<1>1. TextLeft(t) \in Seq(STRING) /\ t.line \in Nat
  BY TextLeftIs, Standings
<1>. QED
  BY <1>1, TokensOfText DEF TokensLeft

(* What was peeked at is what is scanned next.                             *)
LEMMA WithLookahead ==
  ASSUME NEW t, Good(t), t.hasLookahead
  PROVE  /\ t.token = Upcoming(LeftOf(t)) /\ Rest(LeftOf(t)) = Endless[TokensLeft(t)]
         /\ t.lookahead = t.token
<1>. DEFINE token == t.lookahead
            rest == TokensLeft(t)
<1>1. token = t.token /\ token \in Tokens /\ rest \in Seq(Tokens) /\ rest # <<>>
  BY LeftAreTokens DEF Good
<1>2. LeftOf(t) = Endless[<<token>> \o rest]
  BY DEF LeftOf
<1>. HIDE DEF token, rest
<1>3. /\ Upcoming(Endless[<<token>> \o rest]) = token
      /\ Rest(Endless[<<token>> \o rest]) = Endless[rest]
  BY <1>1, EndlessGoesOn
<1>. QED
  BY <1>1, <1>2, <1>3 DEF token, rest

(* What the next token leaves, and that it may be put back in front.       *)
LEMMA WithoutLookahead ==
  ASSUME NEW t, Good(t), ~ t.hasLookahead, NEW u, Standing(u), Rests(t, u), Returns(t, u)
  PROVE  /\ u.token = Upcoming(LeftOf(t)) /\ Rest(LeftOf(t)) = Endless[TokensLeft(u)]
         /\ Endless[<<u.token>> \o TokensLeft(u)] = LeftOf(t)
<1>. DEFINE token == u.token
            rest == TokensLeft(u)
<1>1. token \in Tokens /\ rest \in Seq(Tokens) /\ rest # <<>>
  BY LeftAreTokens DEF Returns
<1>2. LeftOf(t) = Endless[TokensLeft(t)]
  BY DEF LeftOf
<1>3. \/ TokensLeft(t) = <<token>> \o rest
      \/ TokensLeft(t) = <<token>> /\ rest = <<token>>
  BY DEF Returns
<1>. HIDE DEF token, rest
<1>4. CASE TokensLeft(t) = <<token>> \o rest
  <2>1. /\ Upcoming(Endless[<<token>> \o rest]) = token
        /\ Rest(Endless[<<token>> \o rest]) = Endless[rest]
    BY <1>1, EndlessGoesOn
  <2>. QED
    BY <1>2, <1>4, <2>1 DEF token, rest
<1>5. CASE TokensLeft(t) = <<token>> /\ rest = <<token>>
  <2>1. /\ Upcoming(Endless[<<token>>]) = token
        /\ Rest(Endless[<<token>>]) = Endless[<<token>>]
        /\ Endless[<<token>> \o <<token>>] = Endless[<<token>>]
    BY <1>1, EndlessStays
  <2>. QED
    BY <1>2, <1>5, <2>1 DEF token, rest
<1>. QED
  BY <1>3, <1>4, <1>5

LEMMA ScannedIsGood ==
  ASSUME NEW t, Good(t), t.stop = NotStopped, ~ t.hasLookahead, NEW u, Scanned(t, u)
  PROVE  Good(u) /\ ~ u.hasLookahead /\ u.source = t.source
<1>1. Standing(u) /\ u.source = t.source /\ u.hasLookahead = t.hasLookahead
  BY DEF Scanned, Rests
<1>2. ASSUME Stops(t, u) PROVE u.stop = "assert(false)" /\ u.token.type # "EOF"
  <2>1. t.current <= Len(t.source) /\ t.current \in Nat /\ Len(t.source) \in Nat
    BY <1>2, Standings DEF Stops, Good
  <2>2. t.current # Len(t.source) + 1
    BY <2>1
  <2>. QED
    BY <1>2, <2>2 DEF Stops, Good
<1>3. ASSUME Returns(t, u)
      PROVE  /\ u.stop = NotStopped
             /\ u.token.type = "EOF" => u.current = Len(u.source) + 1 /\ u.token.line = u.line
  BY <1>3 DEF Returns
<1>. QED
  BY <1>1, <1>2, <1>3 DEF Scanned, Good

LEMMA ScanStep ==
  ASSUME NEW t, Good(t), t.stop = NotStopped, NEW u, u = Tokenizer_scan(t)
  PROVE  /\ Good(u) /\ u.source = t.source
         /\ \/ u.token = t.token /\ LeftOf(u) = LeftOf(t)
            \/ u.token = Upcoming(LeftOf(t)) /\ LeftOf(u) = Rest(LeftOf(t))
<1>1. CASE t.hasLookahead
  <2>1. /\ t.token = Upcoming(LeftOf(t)) /\ Rest(LeftOf(t)) = Endless[TokensLeft(t)]
        /\ t.lookahead = t.token
    BY <1>1, WithLookahead
  <2>2. u = [t EXCEPT !.token = t.lookahead, !.hasLookahead = FALSE] /\ DOMAIN t = Fields
    BY <1>1 DEF Tokenizer_scan, Good, Standing
  <2>3. /\ DOMAIN u = Fields /\ u.source = t.source /\ u.current = t.current /\ u.line = t.line
        /\ u.stop = t.stop /\ u.token = t.lookahead /\ u.hasLookahead = FALSE
    BY <2>2 DEF Fields
  <2>4. Good(u)
    BY <2>1, <2>3 DEF Good, Standing
  <2>5. LeftOf(u) = Endless[TokensLeft(t)]
    BY <2>3 DEF LeftOf, TokensLeft, TextLeft
  <2>. QED
    BY <2>1, <2>3, <2>4, <2>5
<1>2. CASE ~ t.hasLookahead
  <2>1. Scanned(t, u)
    BY <1>2, Scanning DEF Tokenizer_scan, Good
  <2>2. Good(u) /\ ~ u.hasLookahead /\ u.source = t.source
    BY <1>2, <2>1, ScannedIsGood
  <2>3. LeftOf(u) = Endless[TokensLeft(u)] /\ LeftOf(t) = Endless[TokensLeft(t)]
    BY <1>2, <2>2 DEF LeftOf
  <2>4. ASSUME Stops(t, u) PROVE u.token = t.token /\ LeftOf(u) = LeftOf(t)
    BY <2>3, <2>4 DEF Stops
  <2>5. ASSUME Returns(t, u) PROVE u.token = Upcoming(LeftOf(t)) /\ LeftOf(u) = Rest(LeftOf(t))
    BY <1>2, <2>1, <2>3, <2>5, WithoutLookahead DEF Scanned
  <2>. QED
    BY <2>1, <2>2, <2>4, <2>5 DEF Scanned
<1>. QED
  BY <1>1, <1>2

LEMMA PeekStep ==
  ASSUME NEW t, Good(t), t.stop = NotStopped, NEW u, u = Tokenizer_peek(t)
  PROVE  /\ Good(u) /\ u.source = t.source /\ LeftOf(u) = LeftOf(t)
         /\ u.token = t.token \/ u.token = Upcoming(LeftOf(t))
<1>1. CASE t.hasLookahead
  <2>1. t.token = Upcoming(LeftOf(t)) /\ t.lookahead = t.token
    BY <1>1, WithLookahead
  <2>2. u = [t EXCEPT !.token = t.lookahead] /\ DOMAIN t = Fields
    BY <1>1 DEF Tokenizer_peek, Good, Standing
  <2>3. /\ DOMAIN u = Fields /\ u.source = t.source /\ u.current = t.current /\ u.line = t.line
        /\ u.stop = t.stop /\ u.token = t.lookahead /\ u.hasLookahead = t.hasLookahead
        /\ u.lookahead = t.lookahead
    BY <2>2 DEF Fields
  <2>4. Good(u)
    BY <2>1, <2>3 DEF Good, Standing
  <2>5. LeftOf(u) = LeftOf(t)
    BY <2>3 DEF LeftOf, TokensLeft, TextLeft
  <2>. QED
    BY <2>1, <2>3, <2>4, <2>5
<1>2. CASE ~ t.hasLookahead
  <2>. DEFINE next == Tokenizer_scanInternal(t)
  <2>1. Scanned(t, next)
    BY Scanning DEF Good
  <2>2. u = IF next.stop # NotStopped THEN next
            ELSE [next EXCEPT !.lookahead = next.token, !.hasLookahead = TRUE]
    BY <1>2 DEF Tokenizer_peek
  <2>. HIDE DEF next
  <2>3. Good(next) /\ ~ next.hasLookahead /\ next.source = t.source
    BY <1>2, <2>1, ScannedIsGood
  <2>4. LeftOf(t) = Endless[TokensLeft(t)] /\ LeftOf(next) = Endless[TokensLeft(next)]
    BY <1>2, <2>3 DEF LeftOf
  <2>5. CASE Stops(t, next)
    <3>1. next.stop # NotStopped
      BY <2>5 DEF Stops, NotStopped
    <3>2. u = next /\ next.token = t.token /\ LeftOf(next) = LeftOf(t)
      BY <2>2, <2>4, <2>5, <3>1 DEF Stops
    <3>. QED
      BY <2>3, <3>2
  <2>6. CASE Returns(t, next)
    <3>1. next.stop = NotStopped /\ next.token \in Tokens
      BY <2>6 DEF Returns
    <3>2. u = [next EXCEPT !.lookahead = next.token, !.hasLookahead = TRUE] /\ DOMAIN next = Fields
      BY <2>2, <2>3, <3>1 DEF Good, Standing
    <3>3. /\ DOMAIN u = Fields /\ u.source = t.source /\ u.source = next.source /\ u.current = next.current
          /\ u.line = next.line /\ u.stop = next.stop /\ u.token = next.token /\ u.hasLookahead = TRUE
          /\ u.lookahead = next.token
      BY <2>3, <3>2 DEF Fields
    <3>4. Good(u)
      BY <2>3, <3>1, <3>3 DEF Good, Standing
    <3>5. LeftOf(u) = Endless[<<next.token>> \o TokensLeft(next)]
      BY <3>3 DEF LeftOf, TokensLeft, TextLeft
    <3>6. next.token = Upcoming(LeftOf(t)) /\ Endless[<<next.token>> \o TokensLeft(next)] = LeftOf(t)
      BY <1>2, <2>1, <2>6, WithoutLookahead DEF Scanned
    <3>. QED
      BY <3>3, <3>4, <3>5, <3>6
  <2>. QED
    BY <2>1, <2>5, <2>6 DEF Scanned
<1>. QED
  BY <1>1, <1>2

Appended(t, u, text) ==
  /\ u.source = text /\ u.token = NoToken
  /\ u.stop = NotStopped /\ TextLeft(u) = text
  /\ LeftOf(u) = StreamOf(text, t.token.line + 1)

(* The assertion of Tokenizer_appendLine holds where main calls it.        *)
LEMMA AppendStep ==
  ASSUME NEW t, Good(t), t.stop = NotStopped, t.token.type = "EOF", NEW text \in Seq(STRING \ {NUL}),
         NEW u, u = [Tokenizer_appendLine(t, text) EXCEPT !.token = NoToken]
  PROVE  Good(u) /\ Appended(t, u, text)
<1>. DEFINE peeked == Tokenizer_peek(t)
<1>1. t.current = Len(t.source) + 1 /\ t.token.line = t.line /\ DOMAIN t = Fields /\ t.line \in Nat
  BY DEF Good, Standing
<1>2. /\ DOMAIN peeked = Fields /\ peeked.token.type = "EOF" /\ peeked.line = t.line
      /\ peeked.stop = NotStopped
  <2>1. CASE t.hasLookahead
    <3>1. peeked = [t EXCEPT !.token = t.lookahead]
      BY <2>1 DEF Tokenizer_peek
    <3>. QED
      BY <1>1, <2>1, <3>1 DEF Good, Fields
  <2>2. CASE ~ t.hasLookahead
    <3>. DEFINE next == Tokenizer_scanInternal(t)
    <3>1. Scanned(t, next)
      BY Scanning DEF Good
    <3>2. peeked = IF next.stop # NotStopped THEN next
                   ELSE [next EXCEPT !.lookahead = next.token, !.hasLookahead = TRUE]
      BY <2>2 DEF Tokenizer_peek
    <3>. HIDE DEF next
    <3>3. ~ Stops(t, next)
      <4>1. Len(t.source) \in Nat
        BY Standings DEF Good
      <4>2. ~ (t.current <= Len(t.source))
        BY <1>1, <4>1
      <4>. QED
        BY <4>2 DEF Stops
    <3>4. Returns(t, next) /\ DOMAIN next = Fields
      BY <3>1, <3>3 DEF Scanned, Standing
    <3>5. next.stop = NotStopped /\ next.token.type = "EOF" /\ next.line = t.line
      BY <1>1, <3>4 DEF Returns
    <3>. HIDE DEF peeked
    <3>6. peeked = [next EXCEPT !.lookahead = next.token, !.hasLookahead = TRUE]
      BY <3>2, <3>5
    <3>. QED
      BY <3>4, <3>5, <3>6 DEF Fields
  <2>. QED
    BY <2>1, <2>2
<1>3. Tokenizer_appendLine(t, text)
        = [peeked EXCEPT !.source = text, !.current = 1, !.line = peeked.line + 1, !.hasLookahead = FALSE]
  BY <1>2 DEF Tokenizer_appendLine
<1>. HIDE DEF peeked
<1>4. /\ DOMAIN u = Fields /\ u.source = text /\ u.current = 1 /\ u.line = t.line + 1
      /\ u.hasLookahead = FALSE /\ u.token = NoToken /\ u.stop = NotStopped
  BY <1>2, <1>3 DEF Fields
<1>5. Len(text) \in Nat
  BY LenProperties
<1>6. NoToken.type # "EOF"
  BY DEF NoToken
<1>7. Good(u)
  <2>1. Standing(u)
    <3>1. 1 \in 1 .. Len(text) + 1 /\ t.line + 1 \in Nat
      BY <1>1, <1>5
    <3>. QED
      BY <1>4, <3>1 DEF Standing
  <2>2. u.token.type # "EOF"
    BY <1>4, <1>6
  <2>. QED
    BY <1>4, <2>1, <2>2 DEF Good
<1>8. SubSeq(text, 1, Len(text)) = text
  BY SubSeqFull
<1>9. LeftOf(u) = StreamOf(text, t.token.line + 1)
  BY <1>1, <1>4, <1>8 DEF LeftOf, TokensLeft, TextLeft, StreamOf
<1>10. TextLeft(u) = text
  BY <1>4, <1>8 DEF TextLeft
<1>. QED
  BY <1>4, <1>7, <1>9, <1>10 DEF Appended

LEMMA TextsEntered ==
  ASSUME NEW text \in IF tokenizer.token.line = 0 THEN Lines ELSE LaterLines
  PROVE  text \in Seq(STRING \ {NUL}) /\ text \in Seq(STRING)
<1>1. text \in Seq(STRING \ {NUL})
  BY LinesAssumption
<1>. QED
  BY <1>1, SeqDef

-------------------------------------------------------------------------------
LEMMA InitHolds == Init => IInv
<1>. SUFFICES ASSUME Init PROVE Good(tokenizer)
  BY DEF IInv
<1>1. /\ DOMAIN tokenizer = Fields /\ tokenizer.source = <<>> /\ tokenizer.current = 1
      /\ tokenizer.line = 0 /\ tokenizer.hasLookahead = FALSE /\ tokenizer.token = NoToken
      /\ tokenizer.stop = NotStopped
  BY DEF Init, Tokenizer_init, Fields
<1>2. <<>> \in Seq(STRING \ {NUL}) /\ Len(<<>>) = 0
  BY EmptySeq
<1>3. Standing(tokenizer)
  <2>1. 1 \in 1 .. Len(<<>>) + 1 /\ 0 \in Nat
    BY <1>2
  <2>. QED
    BY <1>1, <1>2, <2>1 DEF Standing
<1>4. tokenizer.token.type # "EOF"
  BY <1>1 DEF NoToken
<1>. QED
  BY <1>1, <1>3, <1>4 DEF Good

LEMMA NextHolds == IInv /\ [Next]_tokenizer => IInv'
<1>. SUFFICES ASSUME Good(tokenizer), [Next]_tokenizer PROVE Good(tokenizer')
  BY DEF IInv
<1>1. CASE Scan
  BY <1>1, ScanStep DEF Scan, CanGoOn
<1>2. CASE Peek
  BY <1>2, PeekStep DEF Peek, CanGoOn
<1>3. CASE AppendLine
  <2>1. PICK text \in IF tokenizer.token.line = 0 THEN Lines ELSE LaterLines :
          tokenizer' = [Tokenizer_appendLine(tokenizer, text) EXCEPT !.token = NoToken]
    BY <1>3 DEF AppendLine
  <2>. QED
    BY <1>3, <2>1, TextsEntered, AppendStep DEF AppendLine, CanGoOn
<1>4. CASE UNCHANGED tokenizer
  BY <1>4
<1>. QED
  BY <1>1, <1>2, <1>3, <1>4 DEF Next

LEMMA Invariance == Spec => []IInv
BY InitHolds, NextHolds, PTL DEF Spec

(* The tokenizer never leaves its line, the next line is appended only     *)
(* where the assertion of Tokenizer_appendLine holds, and nothing but an   *)
(* unknown encoding stops it.                                              *)
THEOREM TypeCorrect == Spec => []TypeOK
<1>1. IInv => TypeOK
  <2>. SUFFICES ASSUME Good(tokenizer) PROVE TypeOK
    BY DEF IInv
  <2>1. Standing(tokenizer)
    BY DEF Good
  <2>. QED
    BY <2>1 DEF Good, Standing, TypeOK, StaysInTheLine
<1>. QED
  BY <1>1, Invariance, PTL

(* Tokenizer_scan and Tokenizer_peek return the tokens of Lexicon, each    *)
(* the longest there is, in the order of the line and with its number,     *)
(* whatever the lines are and however the calls follow each other.         *)
THEOREM Refinement == Spec => Implements
<1>1. Left = LeftOf(tokenizer)
  BY DEF Left, LeftOf, TokensLeft, TextLeft
<1>4. Promise!Upcoming(Left) = Upcoming(Left) /\ Promise!Rest(Left) = Rest(Left) /\ Promise!NoToken = NoToken
  BY DEF Promise!Upcoming, Promise!Rest, Promise!NoToken, Upcoming, Rest, NoToken
<1>2. Init => Promise!Init
  <2>. SUFFICES ASSUME Init PROVE Promise!Init
    OBVIOUS
  <2>1. /\ tokenizer.source = <<>> /\ tokenizer.current = 1 /\ tokenizer.line = 0
        /\ tokenizer.hasLookahead = FALSE /\ tokenizer.token = NoToken
    BY DEF Init, Tokenizer_init
  <2>2. SubSeq(<<>>, 1, Len(<<>>)) = <<>>
    BY EmptySeq, SubSeqFull
  <2>3. Left = StreamOf(<<>>, 0)
    BY <2>1, <2>2 DEF Left, StreamOf
  <2>. QED
    BY <1>4, <2>1, <2>3 DEF Promise!Init
<1>3. IInv /\ [Next]_tokenizer => [Promise!Next]_(Promise!vars)
  <2>. SUFFICES ASSUME Good(tokenizer), [Next]_tokenizer PROVE [Promise!Next]_(Promise!vars)
    BY DEF IInv
  <2>1. Left' = LeftOf(tokenizer')
    BY DEF Left, LeftOf, TokensLeft, TextLeft
  <2>2. CASE Scan
    <3>1. /\ tokenizer'.source = tokenizer.source
          /\ \/ tokenizer'.token = tokenizer.token /\ LeftOf(tokenizer') = LeftOf(tokenizer)
             \/ /\ tokenizer'.token = Upcoming(LeftOf(tokenizer))
                /\ LeftOf(tokenizer') = Rest(LeftOf(tokenizer))
      BY <2>2, ScanStep DEF Scan, CanGoOn
    <3>. QED
      BY <1>1, <1>4, <2>1, <3>1 DEF Promise!Next, Promise!Scan, Promise!vars
  <2>3. CASE Peek
    <3>1. /\ tokenizer'.source = tokenizer.source /\ LeftOf(tokenizer') = LeftOf(tokenizer)
          /\ \/ tokenizer'.token = tokenizer.token
             \/ tokenizer'.token = Upcoming(LeftOf(tokenizer))
      BY <2>3, PeekStep DEF Peek, CanGoOn
    <3>. QED
      BY <1>1, <1>4, <2>1, <3>1 DEF Promise!Next, Promise!Peek, Promise!vars
  <2>4. CASE AppendLine
    <3>1. PICK text \in IF tokenizer.token.line = 0 THEN Lines ELSE LaterLines :
            tokenizer' = [Tokenizer_appendLine(tokenizer, text) EXCEPT !.token = NoToken]
      BY <2>4 DEF AppendLine
    <3>2. text \in Seq(STRING \ {NUL}) /\ text \in Seq(STRING)
      BY TextsEntered
    <3>4. tokenizer.token.type = "EOF" /\ tokenizer.stop = NotStopped
      BY <2>4 DEF AppendLine, CanGoOn
    <3>3. /\ tokenizer'.source = text /\ tokenizer'.token = NoToken
          /\ LeftOf(tokenizer') = StreamOf(text, tokenizer.token.line + 1)
      <4>1. Appended(tokenizer, tokenizer', text)
        BY <3>1, <3>2, <3>4, AppendStep
      <4>. QED
        BY <4>1 DEF Appended
    <3>. QED
      BY <1>4, <2>1, <3>2, <3>3, <3>4 DEF Promise!Next, Promise!AppendLine
  <2>5. CASE UNCHANGED tokenizer
    BY <1>1, <2>1, <2>5 DEF Promise!vars
  <2>. QED
    BY <2>2, <2>3, <2>4, <2>5 DEF Next
<1>. QED
  BY <1>2, <1>3, Invariance, PTL DEF Spec, Implements, Promise!Spec
-------------------------------------------------------------------------------
(* Where the encodings are known, nothing stops it.                        *)

LEMMA ScanningKnown ==
  ASSUME NEW t, Standing(t), t.stop = NotStopped, Known(t),
         NEW u, u = Tokenizer_scanInternal(t)
  PROVE  u.stop = NotStopped /\ Known(u) /\ DOMAIN u = Fields
<1>1. Scanned(t, u)
  BY Scanning
<1>2. ~ Stops(t, u)
  BY DEF Stops
<1>. QED
  BY <1>1, <1>2 DEF Scanned, Returns, Standing

LEMMA ScanGoesOn ==
  ASSUME NEW t, Good(t), t.stop = NotStopped, Known(t), NEW u, u = Tokenizer_scan(t)
  PROVE  u.stop = NotStopped /\ Known(u)
<1>1. CASE t.hasLookahead
  <2>1. u = [t EXCEPT !.token = t.lookahead, !.hasLookahead = FALSE] /\ DOMAIN t = Fields
    BY <1>1 DEF Tokenizer_scan, Good, Standing
  <2>2. u.source = t.source /\ u.current = t.current /\ u.stop = t.stop
    BY <2>1 DEF Fields
  <2>. QED
    BY <2>2 DEF Known, TextLeft
<1>2. CASE ~ t.hasLookahead
  BY <1>2, ScanningKnown DEF Tokenizer_scan, Good
<1>. QED
  BY <1>1, <1>2

LEMMA PeekGoesOn ==
  ASSUME NEW t, Good(t), t.stop = NotStopped, Known(t), NEW u, u = Tokenizer_peek(t)
  PROVE  u.stop = NotStopped /\ Known(u)
<1>1. CASE t.hasLookahead
  <2>1. u = [t EXCEPT !.token = t.lookahead] /\ DOMAIN t = Fields
    BY <1>1 DEF Tokenizer_peek, Good, Standing
  <2>2. u.source = t.source /\ u.current = t.current /\ u.stop = t.stop
    BY <2>1 DEF Fields
  <2>. QED
    BY <2>2 DEF Known, TextLeft
<1>2. CASE ~ t.hasLookahead
  <2>. DEFINE next == Tokenizer_scanInternal(t)
  <2>1. next.stop = NotStopped /\ Known(next) /\ DOMAIN next = Fields
    BY ScanningKnown DEF Good
  <2>2. u = IF next.stop # NotStopped THEN next
            ELSE [next EXCEPT !.lookahead = next.token, !.hasLookahead = TRUE]
    BY <1>2 DEF Tokenizer_peek
  <2>. HIDE DEF next
  <2>3. u.source = next.source /\ u.current = next.current /\ u.stop = next.stop
    BY <2>1, <2>2 DEF Fields
  <2>. QED
    BY <2>1, <2>3 DEF Known, TextLeft
<1>. QED
  BY <1>1, <1>2

(* The invariant that is needed for it: what is left of the line has no    *)
(* unknown encoding, wherever in the line the tokenizer is.                *)
LEMMA GoesOn ==
  ASSUME KnownEncodings
  PROVE  Spec => [](IInv /\ NeverStops /\ Known(tokenizer))
<1>. DEFINE Inv == IInv /\ NeverStops /\ Known(tokenizer)
<1>1. Init => Inv
  <2>. SUFFICES ASSUME Init PROVE Inv
    OBVIOUS
  <2>1. tokenizer.source = <<>> /\ tokenizer.current = 1 /\ tokenizer.stop = NotStopped
    BY DEF Init, Tokenizer_init
  <2>2. TextLeft(tokenizer) = <<>> /\ <<>> \in Seq(STRING)
    BY <2>1, EmptySeq, SubSeqFull DEF TextLeft
  <2>3. Known(tokenizer)
    BY <2>2, KnownText DEF Known, IsLast
  <2>. QED
    BY <2>1, <2>3, InitHolds DEF NeverStops, CanGoOn
<1>2. Inv /\ [Next]_tokenizer => Inv'
  <2>. SUFFICES ASSUME Inv, [Next]_tokenizer
                PROVE  tokenizer'.stop = NotStopped /\ Known(tokenizer')
    BY NextHolds DEF NeverStops, CanGoOn
  <2>. USE DEF NeverStops, CanGoOn, IInv
  <2>1. CASE Scan
    BY <2>1, ScanGoesOn DEF Scan
  <2>2. CASE Peek
    BY <2>2, PeekGoesOn DEF Peek
  <2>3. CASE AppendLine
    <3>1. PICK text \in IF tokenizer.token.line = 0 THEN Lines ELSE LaterLines :
            tokenizer' = [Tokenizer_appendLine(tokenizer, text) EXCEPT !.token = NoToken]
      BY <2>3 DEF AppendLine
    <3>2. text \in Seq(STRING \ {NUL}) /\ tokenizer.token.type = "EOF"
      BY <2>3, TextsEntered DEF AppendLine
    <3>3. Appended(tokenizer, tokenizer', text)
      BY <3>1, <3>2, AppendStep
    <3>4. EncodingsKnown[text]
      BY DEF KnownEncodings
    <3>. QED
      BY <3>3, <3>4 DEF Appended, Known
  <2>4. CASE UNCHANGED tokenizer
    BY <2>4 DEF Known, TextLeft
  <2>. QED
    BY <2>1, <2>2, <2>3, <2>4 DEF Next
<1>. QED
  BY <1>1, <1>2, PTL DEF Spec

(* The assertion behind an unknown encoding is the only one that can fail: *)
(* where every string of every line has a known encoding, no order of      *)
(* peeking, scanning and appending ends the program.                       *)
THEOREM KnownNeverStops == KnownEncodings => (Spec => []NeverStops)
<1>. SUFFICES ASSUME KnownEncodings PROVE Spec => []NeverStops
  OBVIOUS
<1>. QED
  BY GoesOn, PTL
===============================================================================
