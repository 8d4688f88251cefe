---------------------------- MODULE MCFormatString ----------------------------
(* Formats of up to four pieces, in all orders, for arguments that are set  *)
(* or not; and values with colors that are cut and padded.                  *)
EXTENDS FormatString

Pieces ==
  {<<"a">>, <<"{">>, <<"}">>, <<"{", "{">>, <<"{", "}">>, <<"{", "?", "1", "}">>,
   <<"{", "/", "n", "}">>, <<"{", "?", "3", "}">>, <<"{", "?", "}">>, <<"{", "/", "}">>,
   <<"{", "-", "}">>}

ShortText(set) == IF set THEN <<"x">> ELSE <<>>
Pairs ==
  {<<[name |-> "m", text |-> ShortText(s), set |-> s],
     [name |-> "n", text |-> <<"y">>, set |-> t]>> : s, t \in BOOLEAN}

Blocks ==
  {[text |-> FlattenSeq(pieces), arguments |-> Pairs] :
     pieces \in UNION {[1..k -> Pieces] : k \in 0..4}}

(* Deeper ones of the pieces that open and close.                           *)
Nested ==
  {<<"a">>, <<"{", "?", "1", "}">>, <<"{", "?", "3", "}">>, <<"{", "/", "n", "}">>,
   <<"{", "?", "}">>, <<"{", "/", "}">>}

Deeper == {[text |-> FlattenSeq(pieces), arguments |-> Pairs] : pieces \in [1..5 -> Nested]}

Red == <<"ESC", "[", "3", ";", "1", "m">>
Reset == <<"ESC", "[", "m">>
Unended == <<"ESC", "[", "3">>
TwoBytes == <<"C3", "A9">>
Texts ==
  {<<>>, <<"x">>, <<"x", " ", "y">>, <<"x", "y", "z", "x", "y">>, <<"x">> \o Unended,
   <<"x">> \o TwoBytes \o TwoBytes \o <<"y">>}
Values ==
  {lead \o text \o trail : lead \in {<<>>, Red, Red \o Red}, text \in Texts,
                           trail \in {<<>>, Reset, Reset \o Reset}}

Numbers == {<<>>, <<"0">>, <<"1">>, <<"-", "1">>, <<"3">>, <<"-", "3">>, <<"-", "4">>, <<"6">>,
            <<"9", "9">>, <<"-", "9", "9">>, <<"-">>, <<"x">>}
Fits ==
  {[text |-> <<"{">> \o index \o <<sep>> \o number \o <<"}">>,
    arguments |-> {<<[name |-> "v", text |-> value, set |-> TRUE]>> : value \in Values}] :
     index \in {<<>>, <<"1">>, <<"v">>}, sep \in {":", "<", ">", "|", "~"}, number \in Numbers}

Others ==
  {[text |-> text,
    arguments |-> {<<[name |-> "v", text |-> value, set |-> TRUE]>> : value \in Values}] :
     text \in {<<"{", "~", "1", ",", "-", "1", "}">>, <<"{", "~", "-", "3", ",", "2", "}">>,
               <<"{", "~", "9", "9", ",", "}">>, <<"{", "~", ",", "2", ",", "}">>,
               <<"{", "$", "1", "}">>, <<"{", "$", "-", "2", "}">>, <<"{", "$", "-", "3", "}">>,
               <<"{", "$", "9", "9", "}">>, <<"{", "$", "1", "x", "}">>, <<"{", "$", "h", "}">>,
               <<"{", "$", "}">>, <<"{", "#", "}">>, <<"{", "#", "1", "}">>}}

MCFormats == Blocks \cup Deeper \cup Fits \cup Others
(* Of the characters in the arguments above.                                *)
MCParameterBytes == Range(Numerals) \cup {";"}
MCIntermediateBytes == {" "}
MCFinalBytes == {"m", "x", "y", "z", "["}
MCContinuationBytes == {"80", "A6", "A9"}
MCConstants == <<<<"c">>, <<"d">>>>
MCEnvironment == {[name |-> <<"h">>, text |-> <<"e">>]}
=============================================================================
