------------------------------- MODULE Chunked -------------------------------
(* The chunked framing of networking_common.c: a body is looked at again    *)
(* each time more of it has arrived, until its last-chunk is found, decoded *)
(* where it lies, and put behind a header that gives its length instead.    *)
EXTENDS Integers, Sequences, FiniteSets, SequencesExt

CONSTANTS
  ChunkedResponses,    \* the lines of a header, each by the field it holds, and
                       \* what follows, a sequence of characters
  Encodings            \* the chunks and the trailer section of bodies that
                       \* keep to the grammar

Fields == {"status", "Content-Length", "Transfer-Encoding", "other"}

ASSUME ChunkedAssumption ==
  \A r \in ChunkedResponses : r.header \in Seq(Fields) /\ r.body \in Seq(STRING)

VARIABLES header, body, \* what the server sends
          received,     \* the characters of the body that have arrived
          framed,       \* what ffNetworkingChunkedComplete said of them
          answer        \* the response that is handed on

chunkedVars == <<header, body, received, framed, answer>>

CR == "\r"
LF == "\n"
HexDigits == [c \in {"0", "1", "2"} |-> CASE c = "0" -> 0 [] c = "1" -> 1 [] c = "2" -> 2]

IsHex(s, p) == p <= Len(s) /\ s[p] \in DOMAIN HexDigits

(* The first LF of s from p on, Len(s) + 1 if there is none.                *)
Eol(s, p) == CHOOSE e \in p..(Len(s) + 1) :
               /\ e = Len(s) + 1 \/ s[e] = LF
               /\ \A i \in p..(e - 1) : s[i] # LF

(* The number that hexadecimal digits give.                                 *)
Number(digits) ==
  LET value[i \in 0..Len(digits)] ==
        IF i = 0 THEN 0 ELSE 16 * value[i - 1] + HexDigits[digits[i]]
  IN value[Len(digits)]

(* strtoul(s + p, 16): the digits at p, which may have a prefix of their own*)
strtoul(s, p) ==
  LET start == IF IsHex(s, p) /\ s[p] = "0" /\ IsHex(s, p + 2) /\ s[p + 1] = "x"
               THEN p + 2 ELSE p
      end == CHOOSE e \in start..(Len(s) + 1) :
               ~IsHex(s, e) /\ \A i \in start..(e - 1) : IsHex(s, i)
  IN Number(SubSeq(s, start, end - 1))

More == [complete |-> 0, consumed |-> 0]
Malformed == [complete |-> -1, consumed |-> 0]

(* The trailer section, from any line on: it ends with an empty line.       *)
Lines(s) ==
  LET line[p \in 1..(Len(s) + 2)] ==
        LET e == Eol(s, p) IN
        IF p > Len(s) \/ e > Len(s) THEN More
        ELSE IF e = p \/ (e = p + 1 /\ s[p] = CR)
        THEN [complete |-> 1, consumed |-> e]
        ELSE line[e + 1]
  IN line

CompleteEarly(s) ==           \* mutant: the trailer section is not waited for
  LET chunk[p \in 1..(Len(s) + 2)] ==
        LET e == Eol(s, p)
            size == strtoul(s, p)
            data == e + 1
        IN IF p > Len(s) \/ e > Len(s) THEN More
           ELSE IF ~IsHex(s, p) THEN Malformed
           ELSE IF size = 0 THEN [complete |-> 1, consumed |-> e]
           ELSE IF data + size + 1 > Len(s) THEN More
           ELSE IF s[data + size] # CR \/ s[data + size + 1] # LF THEN Malformed
           ELSE chunk[data + size + 2]
  IN chunk

CompleteHasty(s) ==           \* mutant: the CRLF after the data is not waited for
  LET chunk[p \in 1..(Len(s) + 2)] ==
        LET e == Eol(s, p)
            size == strtoul(s, p)
            data == e + 1
        IN IF p > Len(s) \/ e > Len(s) THEN More
           ELSE IF ~IsHex(s, p) THEN Malformed
           ELSE IF size = 0 THEN Lines(s)[data]
           ELSE IF data + size - 1 > Len(s) THEN More
           ELSE IF data + size + 1 > Len(s) THEN Malformed
           ELSE IF s[data + size] # CR \/ s[data + size + 1] # LF THEN Malformed
           ELSE chunk[data + size + 2]
  IN chunk

(* What is said of the chunks from any place on.                            *)
Chunks(s) ==
  LET chunk[p \in 1..(Len(s) + 2)] ==
        LET e == Eol(s, p)
            size == strtoul(s, p)
            data == e + 1
        IN IF p > Len(s) \/ e > Len(s) THEN More
           ELSE IF ~IsHex(s, p) THEN Malformed
           ELSE IF size = 0 THEN Lines(s)[data]
           ELSE IF data + size + 1 > Len(s) THEN More
           ELSE IF s[data + size] # CR \/ s[data + size + 1] # LF THEN Malformed
           ELSE chunk[data + size + 2]
  IN chunk

ffNetworkingChunkedComplete(s) == Chunks(s)[1]

(* memmove() within a buffer.                                               *)
Move(buffer, to, from, size) ==
  [i \in 1..Len(buffer) |->
     IF i \in to..(to + size - 1) THEN buffer[from + i - to] ELSE buffer[i]]

(* One round of the loop that moves the chunks to the front: `pos` is where *)
(* it reads, behind `outLen` characters it will write. A size of 0 ends it. *)
Round(loop) ==
  LET size == IF loop.pos > Len(loop.buffer) THEN 0 ELSE strtoul(loop.buffer, loop.pos)
      data == Eol(loop.buffer, loop.pos) + 1
  IN IF size = 0 THEN loop
     ELSE [buffer |-> Move(loop.buffer, loop.outLen + 1, data, size),
           pos |-> data + size + 2, outLen |-> loop.outLen + size]

Rounds(s) ==
  LET loop[k \in 0..Len(s)] == IF k = 0 THEN [buffer |-> s, pos |-> 1, outLen |-> 0]
                               ELSE Round(loop[k - 1])
  IN loop

DecodeOverlong(s) ==          \* mutant: the payload lies behind its size lines
  SubSeq(s, 1, Rounds(s)[Len(s)].outLen)

Decode(s) == LET loop == Rounds(s)[Len(s)] IN SubSeq(loop.buffer, 1, loop.outLen)

(* rebuildResponse: headerEnd is in front of the last line's own end. What  *)
(* is not ended by a CRLF runs on into what follows it.                     *)
Dropped == {"Content-Length", "Transfer-Encoding"}

Kept(h) == SelectSeq(h, LAMBDA f : f \notin Dropped)

Rebuilt(h) == IF Last(h) \in Dropped
              THEN Append(Kept(h), "Content-Length")
              ELSE Append(Front(Kept(h)), "run-on")
-----------------------------------------------------------------------------
(* recv() returns: the body is looked at as far as it is there.             *)
RecvBody ==
  /\ framed.complete = 0
  /\ \E k \in (received + 1)..Len(body) :
       /\ received' = k
       /\ framed' = ffNetworkingChunkedComplete(SubSeq(body, 1, k))
  /\ UNCHANGED <<header, body, answer>>

(* ffNetworkingDecodeChunked                                                *)
DecodeChunked ==
  /\ framed.complete = 1 /\ answer = <<>>
  /\ answer' = <<Rebuilt(header), Decode(SubSeq(body, 1, received))>>
  /\ UNCHANGED <<header, body, received, framed>>

InitChunked ==
  /\ \E r \in ChunkedResponses : header = r.header /\ body = r.body
  /\ received = 0
  /\ framed = More
  /\ answer = <<>>

NextChunked == RecvBody \/ DecodeChunked

ChunkedSpec == InitChunked /\ [][NextChunked]_chunkedVars
-----------------------------------------------------------------------------
(* RFC 9112 7.1: a chunk has digits that give the length of its data, which *)
(* is not 0, and perhaps an extension in the same line; ...                 *)
Crlf == <<CR, LF>>

ChunkTexts == [size : Seq(DOMAIN HexDigits), ext : Seq(STRING), data : Seq(STRING)]

IsChunk(c) ==
  /\ c.data # <<>> /\ Number(c.size) = Len(c.data)
  /\ c.ext # <<>> => c.ext[1] = ";"
  /\ \A i \in DOMAIN c.ext : c.ext[i] # LF

(* ... and a trailer section has lines that are not empty.                  *)
IsTrailer(t) ==
  /\ t # <<>> => t[Len(t)] = LF
  /\ \A i \in DOMAIN t : t[i] = LF => i > 2 /\ t[i - 1] = CR /\ t[i - 2] # LF

ASSUME EncodingsAssumption ==
  \A e \in Encodings :
    /\ e.chunks \in Seq(ChunkTexts) /\ \A i \in DOMAIN e.chunks : IsChunk(e.chunks[i])
    /\ e.trailer \in Seq(STRING) /\ IsTrailer(e.trailer)

Chunk(c) == c.size \o c.ext \o Crlf \o c.data \o Crlf

Ending(trailer) == <<"0">> \o Crlf \o trailer \o Crlf

Encode(e) == FlattenSeq([i \in 1..Len(e.chunks) |-> Chunk(e.chunks[i])]) \o Ending(e.trailer)

(* The data of the chunks from any place on, read without moving any: of    *)
(* those that are there with the CRLF behind them.                          *)
DataFrom(s) ==
  LET data[p \in 1..(Len(s) + 2)] ==
        LET e == Eol(s, p)
            size == strtoul(s, p)
        IN IF p > Len(s) \/ size = 0 \/ e + size + 2 > Len(s) THEN <<>>
           ELSE SubSeq(s, e + 1, e + size) \o data[e + size + 3]
  IN data

Payload(s) == DataFrom(s)[1]

(* The segments a body arrives in make no difference: what is said of the   *)
(* first part of it that something can be said of is what the whole gives.  *)
SegmentsDontMatter ==
  framed.complete # 0 => framed = ffNetworkingChunkedComplete(body)

(* A body that keeps to the grammar is never called malformed or complete   *)
(* before its end, and its data are what was encoded.                       *)
EncodedAccepted ==
  \A e \in Encodings :
    body = Encode(e)
      => /\ framed.complete = IF received = Len(body) THEN 1 ELSE 0
         /\ answer # <<>> => answer[2] = FlattenSeq([i \in 1..Len(e.chunks) |-> e.chunks[i].data])

(* Decoding in place is safe (networking_common.c:192): moving the chunks   *)
(* over each other, and over the size lines, gives their data. And if the   *)
(* framing is in the last line of the header, the other lines stay as they  *)
(* are, in front of one that gives the length.                              *)
DecodedRight ==
  answer # <<>> =>
    /\ answer[2] = Payload(body)
    /\ Last(header) \in Dropped => answer[1] = Append(Kept(header), "Content-Length")
=============================================================================
