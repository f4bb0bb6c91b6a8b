------------------------------ MODULE MCTokenizer ------------------------------
(***************************************************************************)
(* Lines for the tokenizer: every short sequence of the characters of an   *)
(* alphabet, and every beginning of a keyword with what may follow it.     *)
(***************************************************************************)
EXTENDS Tokenizer

LOCAL INSTANCE SequencesExt

(* Up to max of the pieces, one after another.                             *)
UpTo(pieces, max) ==
  UNION {{FlattenSeq(chosen) : chosen \in [1 .. n -> pieces]} : n \in 0 .. max}

Beginnings(text) == {SubSeq(text, 1, n) : n \in 0 .. Len(text)}

Operators == UpTo({<<"<">>, <<"=">>, <<"!">>, <<"/">>, <<"1">>}, 4)

Spaces == UpTo({<<"1">>, <<"a">>, <<" ">>, <<"\n">>, <<"@">>, <<"(">>}, 4)

Strings == UpTo({<<"'">>, <<"\"">>, <<"\\">>, <<"\\", "n">>, <<"+">>}, 5)

(* Strings with an encoding, cut short or not, and what may follow it.     *)
Encoded ==
  UNION {{<<"'", "c", "'">> \o begun \o next :
            begun \in Beginnings(Encodings[i].name), next \in {<<>>, <<" ">>, <<"'">>, <<"+">>}} :
         i \in DOMAIN Encodings}

Words ==
  UNION {{begun \o next \o <<";">> :
            begun \in Beginnings(keyword.start \o keyword.suffix),
            next \in {<<>>, <<"x">>, <<"1">>, <<" ">>, <<"l">>, <<"t">>}} :
         keyword \in Keywords}

MCLines == UNION {Operators, Spaces, Strings, Encoded, Words}

MCLaterLines == {<<>>, <<"x", "=">>}

(* What KnownNeverStops asks of the lines holds of these.                  *)
ASSUME MCEncodingsAreKnown == KnownEncodings

===============================================================================
