---------------------------- MODULE HttpResponse ----------------------------
(* ffNetworkingRecvHttpResponse (networking_linux.c): one HTTP response is  *)
(* received until it is framed, by its length, by its chunks or by the end  *)
(* of the connection, and then judged. Lengths are counted in units of a    *)
(* few bytes; what the units hold is given with the response.               *)
EXTENDS Integers

CONSTANTS Responses,   \* what the server may answer, see Response
          MaxSize,     \* FF_NETWORKING_MAX_RESPONSE_SIZE
          Initial,     \* what the caller allocated
          Margin,      \* allocated on top of a known Content-Length
          Width        \* uint32_t is arithmetic modulo Width

(* The first `head` units are the header: the status line, a Content-Length *)
(* of `cl` as strtoul() reads it (0: none), and a Transfer-Encoding. `sent` *)
(* units are sent in all.                                                   *)
(* `last` is the unit of the body that completes its last-chunk, `bad` the  *)
(* one that shows that it is no chunked body at all (0: there is none).     *)
Response == [head : Nat \ {0}, ok : BOOLEAN, cl : Nat,
             te : {"none", "chunked", "unsupported"},
             last : Nat, bad : Nat, sent : Nat, closes : BOOLEAN]

ASSUME ResponsesAssumption ==
  \A r \in Responses : r \in Response /\ (r.last = 0 \/ r.bad = 0)
(* What the buffer may be rounded up to; a size above the last of them      *)
(* would abort (FFstrbuf.c:73).                                             *)
Powers == {1, 2, 4, 8, 16, 32, 64, 128, 256, 512, 1024, 2048, 4096, 8192, 16384,
           32768, 65536, 131072, 262144, 524288, 1048576, 2097152, 4194304,
           8388608, 16777216, 33554432, 67108864, 134217728, 268435456}

ASSUME SizeAssumption ==
  /\ MaxSize \in Powers /\ 4 * MaxSize \in Powers
  /\ Initial \in 2..MaxSize /\ Margin \in 0..MaxSize
  /\ Width \in Nat /\ Width > 8 * MaxSize

VARIABLES response,     \* what the server sends
          timeout,      \* whether a receive timeout is set
          arrived,      \* the units the network has delivered
          connection,   \* "open", "closed" by the server, "reset"
          late,         \* a timeout or a reset cut the response short
          pc, length, allocated, headerEnd, contentLength, chunked,
          closings,       \* how often the socket was closed
          result

responseVars == <<response, timeout, arrived, connection, late, pc, length, allocated,
                  headerEnd, contentLength, chunked, closings, result>>

environment == <<response, timeout, arrived, connection>>

Least(a, b) == IF a < b THEN a ELSE b

(* ffStrbufEnsureFree: the next power of two above the length to be held,   *)
(* which is never 0.                                                        *)
RoundUp(n) == CHOOSE p \in Powers : n < p /\ p <= 2 * n

EnsureFree(have, used, free) ==
  IF have - used - 1 >= free THEN have ELSE RoundUp(used + free)

(* ffNetworkingChunkedComplete, for the first n units of the body.          *)
ChunkedComplete(n) == CASE response.bad \in 1..n  -> -1
                        [] response.last \in 1..n -> 1
                        [] OTHER                  -> 0
-----------------------------------------------------------------------------
(* The network and the server.                                              *)
Arrive ==
  /\ connection = "open" /\ arrived < response.sent
  /\ arrived' = arrived + 1
  /\ UNCHANGED <<response, timeout, connection, late, pc, length, allocated,
                 headerEnd, contentLength, chunked, closings, result>>

Fin ==
  /\ connection = "open" /\ response.closes /\ arrived = response.sent
  /\ connection' = "closed"
  /\ UNCHANGED <<response, timeout, arrived, late, pc, length, allocated,
                 headerEnd, contentLength, chunked, closings, result>>

(* What has arrived and was not read is lost.                               *)
ResetByPeer ==
  /\ connection = "open" /\ pc = "recv"
  /\ connection' = "reset"
  /\ arrived' = length
  /\ UNCHANGED <<response, timeout, late, pc, length, allocated, headerEnd,
                 contentLength, chunked, closings, result>>
-----------------------------------------------------------------------------
(* The receive loop. The buffer is grown at its top, then recv() blocks.    *)
GrownDoubled ==               \* mutant: room for as much as the buffer holds again
  IF allocated - length - 1 = 0
  THEN EnsureFree(allocated, length, allocated) ELSE allocated

Grown == IF allocated - length - 1 = 0
         THEN EnsureFree(allocated, length, MaxSize - length - 1)
         ELSE allocated

Full == allocated - length - 1 = 0 /\ allocated >= MaxSize

Free == Grown - length - 1

(* Only a response of known length is waited for as a whole.                *)
WaitAll == contentLength > 0 /\ headerEnd > 0

Remaining == (headerEnd + contentLength - length) % Width

Want == IF WaitAll THEN Least(Remaining, Free) ELSE Free

Unread == arrived - length

Ready == IF WaitAll THEN Unread >= Want \/ connection # "open"
                    ELSE Unread > 0 \/ connection # "open"

CloseSocket == closings' = closings + 1

Fail(error) == /\ pc' = "done"
               /\ result' = error
               /\ CloseSocket

(* The header ends within the first n units: it says how to go on.          *)
HeaderEnds(n) == headerEnd = 0 /\ n >= response.head

(* The cast to uint32_t keeps the length modulo Width, before it is looked  *)
(* at: a length of Width and more may pass for a small one, or for none.    *)
Counted == response.cl % Width

LengthAt(n) == IF HeaderEnds(n) THEN Counted ELSE contentLength

AllocatedAt(n) ==
  IF HeaderEnds(n) /\ Counted > 0
  THEN EnsureFree(Grown, n, Counted + Margin) ELSE Grown

ChunkedAt(n) == chunked \/ (HeaderEnds(n) /\ response.te = "chunked")

HeadAt(n) == IF HeaderEnds(n) THEN response.head ELSE headerEnd

(* The response is framed: it is not waited for more, nor for the FIN.      *)
FramedEarly(n) ==             \* mutant: the header is taken for the body's
  IF ChunkedAt(n) THEN ChunkedComplete(n - HeadAt(n)) > 0
  ELSE LengthAt(n) > 0 /\ n >= LengthAt(n)

FramedNever(n) == FALSE       \* mutant: the end of the connection is awaited

Framed(n) ==
  IF ChunkedAt(n) THEN ChunkedComplete(n - HeadAt(n)) > 0
  ELSE LengthAt(n) > 0 /\ n >= HeadAt(n) + LengthAt(n)

(* After n units in all.                                                    *)
Received(n) ==
  /\ length' = n
  /\ headerEnd' = HeadAt(n)
  /\ contentLength' = LengthAt(n)
  /\ IF HeaderEnds(n) /\ Counted > MaxSize
     THEN /\ Fail("Content-Length too large")
          /\ allocated' = Grown
          /\ UNCHANGED chunked
     ELSE /\ allocated' = AllocatedAt(n)
          /\ chunked' = ChunkedAt(n)
          /\ IF HeaderEnds(n) /\ response.te = "unsupported"
             THEN Fail("Unsupported Transfer-Encoding")
             ELSE IF ChunkedAt(n) /\ ChunkedComplete(n - HeadAt(n)) < 0
             THEN Fail("Malformed chunked body")
             ELSE /\ pc' = IF Framed(n) THEN "judge" ELSE "recv"
                  /\ UNCHANGED <<closings, result>>

(* recv() has nothing: the loop is left, and what came is judged.           *)
Leave ==
  /\ pc' = "judge"
  /\ allocated' = Grown
  /\ UNCHANGED <<length, headerEnd, contentLength, chunked, closings, result>>

TooLarge ==
  /\ pc = "recv" /\ Full
  /\ Fail("Response too large")
  /\ UNCHANGED <<environment, late, length, allocated, headerEnd,
                 contentLength, chunked>>

Recv ==
  /\ pc = "recv" /\ ~Full
  /\ Ready
  /\ IF Least(Want, Unread) > 0 THEN Received(length + Least(Want, Unread)) ELSE Leave
  /\ late' = (late \/ (connection = "reset" /\ Unread = 0))
  /\ UNCHANGED environment

(* SO_RCVTIMEO: recv() gives what it has, or an error.                      *)
RecvTimeout ==
  /\ pc = "recv" /\ ~Full
  /\ timeout /\ ~Ready
  /\ IF Unread > 0 THEN Received(length + Unread) ELSE Leave
  /\ late' = TRUE
  /\ UNCHANGED environment
-----------------------------------------------------------------------------
(* Once the loop is left: the answer, or what is wrong with it.             *)
VerdictLenient ==             \* mutant: the length is not compared
  IF length = 0 THEN "Empty server response received"
  ELSE IF headerEnd = 0 THEN "No HTTP header end found"
  ELSE IF chunked /\ ChunkedComplete(length - headerEnd) # 1
  THEN "Failed to decode chunked response"
  ELSE IF ~response.ok THEN "Invalid response" ELSE "ok"

Verdict ==
  IF length = 0 THEN "Empty server response received"
  ELSE IF headerEnd = 0 THEN "No HTTP header end found"
  ELSE IF chunked /\ ChunkedComplete(length - headerEnd) # 1
  THEN "Failed to decode chunked response"
  ELSE IF ~response.ok THEN "Invalid response"
  ELSE IF ~chunked /\ contentLength > 0 /\ length # headerEnd + contentLength
  THEN "Content length mismatch"
  ELSE "ok"

Judge ==
  /\ pc = "judge"
  /\ Fail(Verdict)
  /\ UNCHANGED <<environment, late, length, allocated, headerEnd,
                 contentLength, chunked>>

InitResponse ==
  /\ response \in Responses
  /\ timeout \in BOOLEAN
  /\ arrived = 0
  /\ connection = "open"
  /\ late = FALSE
  /\ pc = "recv"
  /\ length = 0
  /\ allocated = Initial
  /\ headerEnd = 0
  /\ contentLength = 0
  /\ chunked = FALSE
  /\ closings = 0
  /\ result = "none"

Client == Recv \/ RecvTimeout \/ TooLarge \/ Judge

NextResponse == Client \/ Arrive \/ Fin \/ ResetByPeer

(* recv() returns once it may, or the timeout strikes; TCP delivers what    *)
(* was sent, and the end of the connection.                                 *)
ResponseSpec == /\ InitResponse /\ [][NextResponse]_responseVars
                /\ WF_responseVars(Client) /\ WF_responseVars(Arrive \/ Fin)
-----------------------------------------------------------------------------
(* Growing on demand never lands past the cap (networking_linux.c:444), and *)
(* always leaves room for the end of the string; a Content-Length that was  *)
(* let through takes a bounded number of caps. The socket is closed exactly *)
(* once, however the response ends.                                         *)
Bounded ==
  /\ length < allocated
  /\ allocated <= IF contentLength = 0 THEN MaxSize ELSE 4 * MaxSize
  /\ closings = IF pc = "done" THEN 1 ELSE 0

Unframed == response.te # "chunked" /\ response.cl = 0

(* Where the response ends.                                                 *)
End == IF response.te = "chunked" THEN response.head + response.last
       ELSE IF response.cl > 0 THEN response.head + response.cl
       ELSE response.sent

(* A length that uint32_t does not hold (networking_linux.c:499).           *)
Truncated == response.te # "chunked" /\ response.cl >= Width

(* What is accepted is whole: every unit of the body was received, and no   *)
(* unit too many, unless only the end of the connection could have told, or *)
(* the length was truncated.                                                *)
AcceptsOnlyWhole ==
  result = "ok" /\ ~Truncated =>
    /\ Unframed \/ response.te = "chunked" \/ length = End
    /\ (Unframed /\ late) \/ length >= End

(* A server that does what HTTP asks for, and whose lengths uint32_t holds. *)
Wellformed ==
  /\ response.ok /\ response.te # "unsupported" /\ response.bad = 0 /\ ~Truncated
  /\ response.sent = End /\ response.sent > response.head
  /\ response.te = "chunked" => response.cl = 0 /\ response.last > 0

(* The units the network delivers the response in make no difference: a     *)
(* well-formed response that is not cut short is accepted, if it fits.      *)
AcceptsWellformed ==
  (pc = "done" /\ Wellformed /\ ~late)
    => \/ result = "ok"
       \/ response.sent >= MaxSize - 1 /\ result = "Response too large"
       \/ response.cl > MaxSize /\ result = "Content-Length too large"

(* A response that is framed ends without the server closing the            *)
(* connection, and with a timeout every one does.                           *)
Ends == (timeout \/ response.closes \/ (Wellformed /\ ~Unframed)) ~> (pc = "done")
=============================================================================
