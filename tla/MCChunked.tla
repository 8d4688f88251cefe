------------------------------ MODULE MCChunked ------------------------------
EXTENDS Chunked

(* Chunks of one or two characters that look like anything a parser looks   *)
(* for, one with a longer size line, without and with a trailer.            *)
Texts == {<<"x">>, <<"0">>, <<LF>>, <<CR, LF>>, <<"0", LF>>, <<"x", "1">>}

GivenChunks == {[size |-> IF Len(d) = 1 THEN <<"1">> ELSE <<"2">>, ext |-> <<>>, data |-> d] : d \in Texts}
                 \cup {[size |-> <<"0", "1">>, ext |-> <<";", "2">>, data |-> <<"1">>]}

Trailers == {<<>>, <<"x", "0">> \o Crlf}

AllEncodings == {[chunks |-> c, trailer |-> t] :
                   c \in UNION {[1..k -> GivenChunks] : k \in 0..2}, t \in Trailers}

EncodedBodies == {Encode(e) : e \in AllEncodings}

(* Bodies put together of what the parser tells apart, well-formed or not,  *)
(* and encoded bodies that something follows.                               *)
Pieces == {<<"0">>, <<"1">>, <<"x">>, <<CR, LF>>, <<LF>>}

AnyBodies == {FlattenSeq(p) : p \in UNION {[1..k -> Pieces] : k \in 1..6}}
               \cup {b \o t : b \in EncodedBodies, t \in {<<"1">>, Crlf}}

(* Headers in whose last line the framing is.                               *)
FramingLast == {<<"status", "Transfer-Encoding">>,
                <<"status", "Content-Length", "other", "Transfer-Encoding">>,
                <<"status", "Transfer-Encoding", "other", "Content-Length">>}

(* The line that a server may well send last is of another kind.            *)
OtherLast == {<<"status", "Transfer-Encoding", "other">>,
              <<"status", "other", "Transfer-Encoding", "other">>}

AllResponses == [header : {<<"status", "Transfer-Encoding">>}, body : AnyBodies]
                  \cup [header : FramingLast \cup OtherLast, body : EncodedBodies]
==============================================================================
