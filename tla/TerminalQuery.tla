---------------------------- MODULE TerminalQuery ----------------------------
(* Questions to the terminal (common/impl/io_unix.c): ffGetTerminalResponse    *)
(* opens /dev/tty once, takes it out of line mode, writes a request and scans  *)
(* what comes back.  The terminal answers when it likes, in as many parts as   *)
(* it likes, or never; what it sends late is read by the next question, or by  *)
(* the shell.                                                                  *)
EXTENDS Integers, Sequences, FiniteSets, SequencesExt

CONSTANTS Base,      \* of the numbers in a reply: from Base on they have two digits
          Typed,     \* how many keys the user may hit meanwhile
          NumberKeys \* what keys send that numbers are made of: digits, or what parts them

\* What the tty brings: a digit and its value, or what is none
Tokens == {"csi", "sep", "end", "key", "digit"} \X Nat
ASSUME QueryAssumption == Base \in Nat \ {0, 1} /\ Typed \in Nat
ASSUME KeysAssumption == NumberKeys \subseteq Seq(Tokens)

VARIABLES
  ftty,       \* "closed" or "open"
  termios,    \* "lines" as the shell left it, or "bytes": without ICANON and ECHO
  restores,   \* is restoreTerm registered with atexit()?
  call,       \* the question under way: its kind, the step it is at, what was read, what it got
  wire,       \* what the terminal has sent and the tty has not received yet
  queue,      \* what the tty has received and nobody has read
  sent,       \* the replies sent so far, as <<kind, values>>
  trouble,    \* has a question failed or been cut, or was a key hit?
  typed,      \* keys hit so far
  numbers     \* was one of NumberKeys among them?

qvars == <<ftty, termios, restores, call, wire, queue, sent, trouble, typed, numbers>>

-----------------------------------------------------------------------------
(* Replies and how they are scanned                                            *)

Csi == <<"csi", 0>>
Sep == <<"sep", 0>>
End == <<"end", 0>>
Key == <<"key", 0>>
Digit(d) == <<"digit", d>>

\* The requests: the cursor position (logo.c), and the size of the terminal in cells and in pixels
Kinds == {"cursor", "cells", "pixels"}

\* What the reply to a request begins with
Opening(kind) ==
  CASE kind = "cursor" -> <<Csi>>
    [] kind = "cells"  -> <<Csi, Digit(8), Sep>>
    [] kind = "pixels" -> <<Csi, Digit(4), Sep>>

Digits(v) == IF v < Base THEN <<Digit(v)>> ELSE <<Digit(v \div Base), Digit(v % Base)>>
Body(values) == Digits(values[1]) \o <<Sep>> \o Digits(values[2]) \o <<End>>
Reply(kind, values) == Opening(kind) \o Body(values)

IsDigit(token) == token[1] = "digit"
\* The number of tokens at the beginning of s that are digits, or that are none
Run(s, digits) ==
  CHOOSE n \in 0..Len(s) : /\ \A i \in 1..n : IsDigit(s[i]) = digits
                           /\ n = Len(s) \/ IsDigit(s[n + 1]) # digits
ValueOf(s) ==
  LET value[i \in 0..Len(s)] == IF i = 0 THEN 0 ELSE value[i - 1] * Base + s[i][2]
  IN value[Len(s)]
Rest(s, n) == SubSeq(s, n + 1, Len(s))

\* "%hu;%hu": the numbers that vsscanf() converts.  A number ends where the data ends, too, and
\* nothing asks for the letter that closes a reply.
Numbers(s) ==
  LET first == Run(s, TRUE)
      tail == Rest(s, first + 1)
      second == Run(tail, TRUE)
      one == <<ValueOf(SubSeq(s, 1, first))>>
  IN IF first = 0 THEN <<>>
     ELSE IF first = Len(s) \/ s[first + 1] # Sep \/ second = 0 THEN one
     ELSE one \o <<ValueOf(SubSeq(tail, 1, second))>>

ScanAny(kind, s) ==
  LET skip == Run(s, FALSE) IN IF skip = 0 THEN <<>> ELSE Numbers(Rest(s, skip))
\* The formats: "%*[^0-9]%hu;%huR" skips what is in front of the position, but there has to be
\* something; the others begin with the reply's own head.
Scan(kind, s) ==
  LET skip == IF kind = "cursor" THEN Run(s, FALSE)
              ELSE IF IsPrefix(Opening(kind), s) THEN Len(Opening(kind)) ELSE 0
  IN IF skip = 0 THEN <<>> ELSE Numbers(Rest(s, skip))

-----------------------------------------------------------------------------
Idle == [kind |-> "none", step |-> "idle", buffer |-> <<>>, truth |-> <<>>, values |-> <<>>]

InitQuery ==
  /\ ftty = "closed" /\ termios = "lines" /\ restores = FALSE
  /\ call = Idle
  /\ wire = <<>> /\ queue = <<>>
  /\ sent = {} /\ trouble = FALSE /\ typed = 0 /\ numbers = FALSE

\* Set up only if the tty is not open: a set-up that failed half way is not tried again
Ask(kind) ==
  /\ call.step \in {"idle", "done"}
  /\ call' = [Idle EXCEPT !.kind = kind, !.step = IF ftty = "closed" THEN "open" ELSE "write"]
  /\ UNCHANGED <<ftty, termios, restores, wire, queue, sent, trouble, typed, numbers>>

Fails == /\ call' = [call EXCEPT !.step = "done", !.values = <<>>]
         /\ trouble' = TRUE
Goes(step) == call' = [call EXCEPT !.step = step] /\ UNCHANGED trouble

Open ==
  /\ call.step = "open"
  /\ \/ Fails /\ UNCHANGED ftty
     \/ Goes("get attributes") /\ ftty' = "open"
  /\ UNCHANGED <<termios, restores, wire, queue, sent, typed, numbers>>

GetAttributes ==
  /\ call.step = "get attributes"
  /\ Fails \/ Goes("set attributes")
  /\ UNCHANGED <<ftty, termios, restores, wire, queue, sent, typed, numbers>>

\* TCSAFLUSH: what was received before is thrown away
SetAttributes ==
  /\ call.step = "set attributes"
  /\ \/ Fails /\ UNCHANGED <<termios, queue>>
     \/ Goes("register") /\ termios' = "bytes" /\ queue' = <<>>
  /\ UNCHANGED <<ftty, restores, wire, sent, typed, numbers>>

Register ==
  /\ call.step = "register"
  /\ restores' = TRUE
  /\ Goes("write")
  /\ UNCHANGED <<ftty, termios, wire, queue, sent, typed, numbers>>

\* The request goes out; the terminal answers it with `values`, two numbers, or does not know it
Write(values) ==
  /\ call.step = "write"
  /\ call' = [call EXCEPT !.step = "wait", !.truth = values]
  /\ \/ UNCHANGED <<wire, sent>>
     \/ /\ values \in Nat \X Nat
        /\ wire' = wire \o Reply(call.kind, values)
        /\ sent' = sent \union {<<call.kind, values>>}
  /\ UNCHANGED <<ftty, termios, restores, queue, trouble, typed, numbers>>

\* A tty in line mode has nothing to read until a line ends, and no reply ends one
Readable == termios = "bytes" /\ queue # <<>>

\* poll() says that there is something, read() takes all of it, and all that was read is scanned
Read ==
  /\ call.step = "wait"
  /\ Readable
  /\ LET buffer == call.buffer \o queue
         values == Scan(call.kind, buffer)
     IN CASE Len(values) = 0 -> Fails
          [] Len(values) = 1 -> /\ call' = [call EXCEPT !.buffer = buffer]
                                /\ UNCHANGED trouble
          [] Len(values) = 2 -> /\ call' = [call EXCEPT !.step = "done", !.buffer = buffer,
                                                          !.values = values]
                                /\ trouble' = (trouble \/ Last(buffer) # End)
  /\ queue' = <<>>
  /\ UNCHANGED <<ftty, termios, restores, wire, sent, typed, numbers>>

\* FF_IO_TERM_RESP_WAIT_MS went by
Timeout ==
  /\ call.step = "wait"
  /\ ~Readable
  /\ Fails
  /\ UNCHANGED <<ftty, termios, restores, wire, queue, sent, typed, numbers>>

Question == Open \/ GetAttributes \/ SetAttributes \/ Register \/ Read \/ Timeout

-----------------------------------------------------------------------------
(* The other end                                                               *)

Deliver ==
  /\ \E n \in 1..Len(wire) : /\ queue' = queue \o SubSeq(wire, 1, n)
                             /\ wire' = Rest(wire, n)
  /\ UNCHANGED <<ftty, termios, restores, call, sent, trouble, typed, numbers>>

\* A key sends a byte that is no part of a number, or it is a digit, a semicolon, or an arrow with
\* its modifiers (Ctrl+Up is ESC[1;5A).  Left out: white space and signs, which "%hu" takes too,
\* and Enter, which ends a line for a tty in line mode.
Type ==
  /\ typed < Typed
  /\ \/ queue' = Append(queue, Key) /\ UNCHANGED numbers
     \/ \E key \in NumberKeys : queue' = queue \o key /\ numbers' = TRUE
  /\ typed' = typed + 1
  /\ trouble' = TRUE
  /\ UNCHANGED <<ftty, termios, restores, call, wire, sent>>

ExitQueryNow ==
  /\ IF restores THEN termios' = "lines" ELSE UNCHANGED termios
  /\ UNCHANGED <<ftty, restores, call, wire, queue, sent, trouble, typed, numbers>>
\* exit(): restoreTerm, if it is registered, with TCSAFLUSH
ExitQuery ==
  /\ IF restores THEN termios' = "lines" /\ queue' = <<>> ELSE UNCHANGED <<termios, queue>>
  /\ UNCHANGED <<ftty, restores, call, wire, sent, trouble, typed, numbers>>

-----------------------------------------------------------------------------
\* An answer that is accepted is the terminal's reply to this very request.  Named are the ways in
\* which it is not.  Its last number is cut short where a part of it ended, or something went wrong
\* before, so that the reply of an earlier request is still to be read: even then it is a reply to
\* a request of the same kind, never that to another one (io_unix.c:236).  Or the user typed
\* what numbers are made of: "%*[^0-9]%hu;%hu" takes the ESC[1;5A of Ctrl+Up for a position
\* (logo.c:259, image.c:81).  No other key is ever taken for an answer.
AnswersRight ==
  call.step = "done" /\ call.values # <<>> =>
    \/ call.values = call.truth
    \/ numbers
    \/ /\ trouble
       /\ \E reply \in sent :
            /\ reply[1] = call.kind
            /\ reply[2][1] = call.values[1]
            /\ call.values[2] \in {reply[2][2], reply[2][2] \div Base}
=============================================================================
