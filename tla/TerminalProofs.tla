---------------------------- MODULE TerminalProofs ----------------------------
(* The questions to the terminal. In the first part, whatever the logo, the      *)
(* modules and the terminal do, and wherever a signal ends the program: the      *)
(* terminal is left as it was, for every size of it, any options, and any number *)
(* of rounds and questions. In the second: when nothing troubled a question, its *)
(* answer is the one of the terminal, whatever came of the questions before it.  *)
EXTENDS LogoLines, NumberInduction, SequenceTheorems, TLAPS

(* Without line mode and not yet registered with atexit(): this is only between *)
(* two steps of the first question ...                                          *)
Modes == /\ termios \in {"lines", "bytes"} /\ restores \in BOOLEAN
         /\ "step" \in DOMAIN call
         /\ termios = "bytes" /\ ~restores => call.step = "register"

(* ... and while the program does anything else there is no question.           *)
Answered == at \in {"logo", "keys", "asleep"} => call.step \in {"idle", "done"}

Inv == Modes /\ Answered /\ Restored

(* The program starts with the terminal untouched.                              *)
LEMMA InitInv == Init => Inv
  <1> SUFFICES ASSUME Init PROVE Inv
    OBVIOUS
  <1>1. call.step = "idle" /\ "step" \in DOMAIN call
    BY DEF Init, InitQuery, Idle
  <1>2. termios = "lines" /\ restores = FALSE /\ queue = <<>>
    BY DEF Init, InitQuery
  <1> QED BY <1>1, <1>2 DEF Inv, Modes, Answered, Restored

(* A step that goes on without a question.                                      *)
LEMMA GoesOn ==
  ASSUME Inv, UNCHANGED qvars, at' \notin {"end", "killed"},
         at' \in {"logo", "keys", "asleep"} => call.step \in {"idle", "done"}
  PROVE  Inv'
  BY DEF qvars, Inv, Modes, Answered, Restored, Alive

(* A step that asks one.                                                        *)
LEMMA Asks ==
  ASSUME Inv, at \notin {"end", "killed"}, NEW kind, Ask(kind),
         at' \in {"cursor", "asking", "measuring", "unmeasured"}
  PROVE  Inv'
  <1>1. Modes'
    <2>1. call'.step \in {"open", "write"} /\ "step" \in DOMAIN call'
      BY DEF Ask, Idle
    <2>2. call.step # "register" /\ UNCHANGED <<termios, restores>>
      BY DEF Ask
    <2> QED BY <2>1, <2>2 DEF Inv, Modes
  <1> QED BY <1>1 DEF Inv, Answered, Restored, Alive

(* The steps of the program: an image that is sent to the terminal, ...         *)
LEMMA SentInv ==
  ASSUME Inv, LogoPrintRaw \/ PrintImageIterm \/ PrintImageKittyDirect \/ PrintImageKittyIcat
  PROVE  Inv'
  <1>1. PICK o, t, column : at = "logo" /\ \/ ImageSized(o, t)
                                           \/ ImageAtTop(o, t, column)
                                           \/ ImageAsked(o, t, column)
    <2>1. ASSUME NEW o, NEW t, PrintSent(o, t)
          PROVE  at = "logo" /\ \E column : \/ ImageSized(o, t)
                                           \/ ImageAtTop(o, t, column)
                                           \/ ImageAsked(o, t, column)
      BY <2>1 DEF PrintSent
    <2>2. CASE PrintImageKittyIcat
      BY <2>2 DEF PrintImageKittyIcat
    <2> QED BY <2>1, <2>2 DEF LogoPrintRaw, PrintImageIterm, PrintImageKittyDirect
  <1>2. CASE ImageSized(o, t) \/ ImageAtTop(o, t, column)
    <2>1. at' = "keys" /\ UNCHANGED qvars
      BY <1>2 DEF ImageSized, ImageAtTop
    <2> QED BY <1>1, <2>1, GoesOn DEF Inv, Answered
  <1>3. CASE ImageAsked(o, t, column)
    <2>1. at' = "cursor" /\ Ask("cursor")
      BY <1>3 DEF ImageAsked
    <2> QED BY <1>1, <2>1, Asks
  <1> QED BY <1>1, <1>2, <1>3

(* ... any image, ...                                                           *)
LEMMA ImageInv == ASSUME Inv, ImagePrint PROVE Inv'
  <1>1. CASE LogoPrintRaw \/ PrintImageIterm \/ PrintImageKittyDirect \/ PrintImageKittyIcat
    BY <1>1, SentInv
  <1>2. CASE ImagePlaced
    <2>1. call.step = "done" /\ at' = "keys" /\ UNCHANGED qvars
      BY <1>2 DEF ImagePlaced
    <2> QED BY <2>1, GoesOn
  <1>3. CASE Measure
    BY <1>3, Asks DEF Measure
  <1>4. CASE MeasureOn
    BY <1>4, Asks DEF MeasureOn
  <1>5. CASE PrintImagePixels \/ PrintImageChafa
    <2>1. Measured /\ at' = "keys" /\ UNCHANGED qvars
      BY <1>5 DEF PrintImagePixels, PrintImageChafa
    <2>2. call.step \in {"idle", "done"}
      BY <2>1 DEF Measured, Sized, Inv, Answered
    <2> QED BY <2>1, <2>2, GoesOn
  <1>6. CASE ImageFails
    <2>1. (at = "logo" \/ Measured \/ Unmeasured) /\ at' = "logo" /\ UNCHANGED qvars
      BY <1>6 DEF ImageFails
    <2>2. call.step \in {"idle", "done"}
      BY <2>1 DEF Measured, Unmeasured, Sized, Inv, Answered
    <2> QED BY <2>1, <2>2, GoesOn
  <1> QED BY <1>1, <1>2, <1>3, <1>4, <1>5, <1>6 DEF ImagePrint

(* ... a logo of any kind, ...                                                  *)
LEMMA PrintInv == ASSUME Inv, LogoPrint PROVE Inv'
  <1>1. CASE ImagePrint
    BY <1>1, ImageInv
  <1>2. CASE LogoPrintLines \/ LogoPrintNone \/ LogoPrintSpin \/ LogoPrintSpinFails
    <2>1. at = "logo" /\ at' = "keys" /\ UNCHANGED qvars
      BY <1>2 DEF LogoPrintLines, LogoPrintNone, LogoPrintSpin, LogoPrintSpinFails
    <2> QED BY <2>1, GoesOn DEF Inv, Answered
  <1> QED BY <1>1, <1>2 DEF LogoPrint

(* ... and what comes after the logo.                                           *)
LEMMA KeysInv ==
  ASSUME Inv, PrintKey \/ AskSize \/ SizeDetected \/ EndRound \/ Refresh \/ Zoom
  PROVE  Inv'
  <1>1. CASE PrintKey \/ EndRound \/ Refresh \/ Zoom
    <2>1. /\ at \in {"keys", "asleep"} /\ at' \in {"logo", "keys", "asleep"}
          /\ UNCHANGED qvars
      BY <1>1 DEF PrintKey, EndRound, Refresh, Zoom
    <2> QED BY <2>1, GoesOn DEF Inv, Answered
  <1>2. CASE SizeDetected
    <2>1. call.step = "done" /\ at' = "keys" /\ UNCHANGED qvars
      BY <1>2 DEF SizeDetected
    <2> QED BY <2>1, GoesOn
  <1>3. CASE AskSize
    BY <1>3, Asks DEF AskSize
  <1> QED BY <1>1, <1>2, <1>3

(* exit() restores what was registered; a signal may come before that.          *)
LEMMA ExitInv == ASSUME Inv, Finish \/ Signal PROVE Inv'
  <1>1. /\ ExitQuery /\ at' \in {"end", "killed"}
        /\ at' = "end" => at = "keys"
    BY DEF Finish, Signal
  <1>2. UNCHANGED <<call, restores>> /\ restores => termios' = "lines" /\ queue' = <<>>
    BY <1>1 DEF ExitQuery
  <1>3. ~restores => UNCHANGED termios
    BY <1>1 DEF ExitQuery
  <1>4. UNCHANGED <<call, restores>>
    BY <1>1 DEF ExitQuery
  <1>5. Modes'
    BY <1>2, <1>3, <1>4 DEF Inv, Modes
  <1>6. Restored'
    <2>1. termios' = "lines" \/ (at' = "killed" /\ call'.step = "register")
      BY <1>1, <1>2, <1>3, <1>4 DEF Inv, Modes, Answered
    <2>2. queue' = <<>> \/ ~restores'
      BY <1>2, <1>4 DEF Inv, Modes
    <2> QED BY <2>1, <2>2 DEF Restored
  <1> QED BY <1>1, <1>5, <1>6 DEF Inv, Answered

(* The scan of a reply gives no number, one or two.                             *)
LEMMA NumbersLength == \A s : Len(Numbers(s)) \in 0..2
  <1> SUFFICES ASSUME NEW s PROVE Len(Numbers(s)) \in 0..2
    OBVIOUS
  <1> DEFINE first == Run(s, TRUE)
             tail == Rest(s, first + 1)
             v == ValueOf(SubSeq(s, 1, first))
             w == ValueOf(SubSeq(tail, 1, Run(tail, TRUE)))
  <1>1. Numbers(s) = <<>> \/ Numbers(s) = <<v>> \/ Numbers(s) = <<v>> \o <<w>>
    BY DEF Numbers
  <1> HIDE DEF v, w
  <1>2. Len(<<v>> \o <<w>>) = 2
    OBVIOUS
  <1> QED BY <1>1, <1>2

(* So does that of any question.                                                *)
LEMMA ScanLength == \A kind, s : Len(Scan(kind, s)) \in 0..2
  <1> SUFFICES ASSUME NEW kind, NEW s PROVE Len(Scan(kind, s)) \in 0..2
    OBVIOUS
  <1>1. Scan(kind, s) = <<>> \/ \E rest : Scan(kind, s) = Numbers(rest)
    BY Zenon DEF Scan
  <1> QED BY <1>1, NumbersLength

(* The steps of a question.                                                     *)
LEMMA StepModes ==
  ASSUME Modes, Question \/ Write(Truth)
  PROVE  Modes' /\ call.step \notin {"idle", "done"}
  <1>1. CASE Open
    BY <1>1 DEF Open, Fails, Goes, Modes
  <1>2. CASE GetAttributes
    BY <1>2 DEF GetAttributes, Fails, Goes, Modes
  <1>3. CASE SetAttributes
    BY <1>3 DEF SetAttributes, Fails, Goes, Modes
  <1>4. CASE Register
    BY <1>4 DEF Register, Goes, Modes
  <1>5. CASE Write(Truth)
    BY <1>5 DEF Write, Modes
  <1>6. CASE Timeout
    BY <1>6 DEF Timeout, Fails, Modes
  <1>7. CASE Read
    <2>1. call.step = "wait" /\ UNCHANGED <<termios, restores>>
      BY <1>7 DEF Read
    <2>2. "step" \in DOMAIN call'
      <3> DEFINE buffer == call.buffer \o queue
                 n == Len(Scan(call.kind, buffer))
      <3>1. n = 0 \/ n = 1 \/ n = 2
        BY ScanLength
      <3>2. CASE n = 0
        BY <1>7, <3>2 DEF Read, Fails, Modes
      <3>3. CASE n = 1
        BY <1>7, <3>3 DEF Read, Modes
      <3>4. CASE n = 2
        BY <1>7, <3>4 DEF Read, Modes
      <3> QED BY <3>1, <3>2, <3>3, <3>4
    <2> QED BY <2>1, <2>2 DEF Modes
  <1> QED BY <1>1, <1>2, <1>3, <1>4, <1>5, <1>6, <1>7 DEF Question

(* All of what the program does, ...                                            *)
LEMMA RunningInv == ASSUME Inv, Running PROVE Inv'
  <1>1. Alive /\ UNCHANGED at /\ Modes' /\ call.step \notin {"idle", "done"}
    BY StepModes DEF Running, Asking, svars, Inv
  <1> QED BY <1>1 DEF Inv, Answered, Restored, Alive

(* ... what the terminal and its user do ...                                    *)
LEMMA OtherEndInv == ASSUME Inv, TheOtherEnd PROVE Inv'
  <1>1. Alive /\ UNCHANGED <<at, termios, restores, call>>
    BY DEF TheOtherEnd, Alive, Deliver, Type, svars
  <1> QED BY <1>1 DEF Inv, Modes, Answered, Restored, Alive

(* ... and so every step.                                                       *)
LEMMA NextInv == Inv /\ [Next]_vars => Inv'
  <1> SUFFICES ASSUME Inv, [Next]_vars PROVE Inv'
    OBVIOUS
  <1>1. CASE LogoPrint
    BY <1>1, PrintInv
  <1>2. CASE PrintKey \/ AskSize \/ SizeDetected \/ EndRound \/ Refresh \/ Zoom
    BY <1>2, KeysInv
  <1>3. CASE Finish \/ Signal
    BY <1>3, ExitInv
  <1>4. CASE Running
    BY <1>4, RunningInv
  <1>5. CASE TheOtherEnd
    BY <1>5, OtherEndInv
  <1>6. CASE UNCHANGED vars
    BY <1>6 DEF vars, svars, qvars, Inv, Modes, Answered, Restored, Alive
  <1> QED BY <1>1, <1>2, <1>3, <1>4, <1>5, <1>6 DEF Next

(* However the program ends, the terminal is as it was, and nothing that the    *)
(* tty had received by then is left for the shell, but for a signal between     *)
(* tcsetattr() and atexit() (io_unix.c:148, :197). What is still on its way to  *)
(* the tty is not spoken of: the shell reads it.                                *)
THEOREM RestoredTheorem == Spec => []Restored
  <1>1. Inv => Restored
    BY DEF Inv
  <1> QED BY <1>1, InitInv, NextInv, PTL DEF Spec

-----------------------------------------------------------------------------
(* Questions. What comes from the terminal is a stream of tokens: what was read  *)
(* for the question under way, what can be read, and what is on its way. First   *)
(* the scan: which numbers it reads, of which stream.                            *)
\* s is what w begins with, up to the first key
Agrees(s, w) ==
  \A j \in 1..Len(w) : j <= Len(s) => s[j] = w[j] \/ \E k \in 1..j : s[k] = Key

(* A run is of digits, or of no digits, and as long as there are any.           *)
LEMMA RunFacts ==
  ASSUME NEW s \in Seq(Tokens), NEW digits \in BOOLEAN
  PROVE  /\ Run(s, digits) \in 0..Len(s)
         /\ \A i \in 1..Run(s, digits) : IsDigit(s[i]) = digits
         /\ Run(s, digits) = Len(s) \/ IsDigit(s[Run(s, digits) + 1]) # digits
  <1> DEFINE Runs(n) == /\ \A i \in 1..n : IsDigit(s[i]) = digits
                        /\ n = Len(s) \/ IsDigit(s[n + 1]) # digits
             T == {n \in 0..Len(s) : n = Len(s) \/ IsDigit(s[n + 1]) # digits}
  <1>1. Len(s) \in Nat
    OBVIOUS
  <1>2. T \in SUBSET Nat /\ Len(s) \in T
    BY <1>1
  <1>3. PICK m \in T : \A k \in T : m <= k
    <2> HIDE DEF T
    <2> QED BY <1>2, LeastElement
  <1>4. ASSUME NEW i \in 1..m PROVE IsDigit(s[i]) = digits
    <2>1. i - 1 \in 0..Len(s) /\ i - 1 < m /\ (i - 1) + 1 = i
      BY <1>1, <1>3
    <2>2. ~(m <= i - 1)
      BY <1>3, <2>1
    <2>3. i - 1 \notin T
      <3> HIDE DEF T
      <3> QED BY <1>3, <2>2
    <2> QED BY <2>1, <2>3
  <1>5. m \in 0..Len(s) /\ Runs(m)
    BY <1>3, <1>4
  <1> HIDE DEF Runs
  <1>6. Run(s, digits) = CHOOSE n \in 0..Len(s) : Runs(n)
    BY Zenon DEF Run, Runs
  <1>7. Run(s, digits) \in 0..Len(s) /\ Runs(Run(s, digits))
    BY <1>5, <1>6, Zenon
  <1> QED BY <1>7 DEF Runs

(* What can come from the terminal can be told apart.                           *)
LEMMA TokenKinds ==
  /\ ~IsDigit(Csi) /\ ~IsDigit(Sep) /\ ~IsDigit(End) /\ ~IsDigit(Key)
  /\ \A d : IsDigit(Digit(d)) /\ Digit(d) # Csi /\ Digit(d) # Key
  /\ Csi # Sep /\ Csi # End /\ Csi # Key /\ Sep # End /\ Sep # Key /\ End # Key
  BY DEF IsDigit, Csi, Sep, End, Key, Digit

(* A number of one digit, ...                                                   *)
LEMMA OneDigit == ASSUME NEW d \in Nat PROVE ValueOf(<<Digit(d)>>) = d
  <1> DEFINE s == <<Digit(d)>>
             value[i \in 0..Len(s)] == IF i = 0 THEN 0 ELSE value[i - 1] * Base + s[i][2]
             g == [i \in 0..1 |-> IF i = 0 THEN 0 ELSE 0 * Base + d]
  <1>1. Len(s) = 1 /\ s[1][2] = d
    BY DEF Digit
  <1>2. Base \in Nat
    BY QueryAssumption
  <1>3. g = [i \in 0..1 |-> IF i = 0 THEN 0 ELSE g[i - 1] * Base + s[i][2]]
    BY <1>1, <1>2
  <1>4. value = [i \in 0..1 |-> IF i = 0 THEN 0 ELSE value[i - 1] * Base + s[i][2]]
    <2> HIDE DEF g
    <2> QED BY <1>1, <1>3, Zenon
  <1> HIDE DEF value
  <1>5. value[0] = 0
    BY <1>4
  <1>6. value[1] = d
    BY <1>1, <1>2, <1>4, <1>5
  <1>7. ValueOf(s) = value[Len(s)]
    BY Zenon DEF ValueOf, value
  <1> QED BY <1>1, <1>6, <1>7

(* ... and one of two, are read as what they were written from.                 *)
LEMMA TwoDigits ==
  ASSUME NEW v \in Nat, v >= Base
  PROVE  ValueOf(<<Digit(v \div Base), Digit(v % Base)>>) = v
  <1> DEFINE x == v \div Base
             y == v % Base
             s == <<Digit(x), Digit(y)>>
             value[i \in 0..Len(s)] == IF i = 0 THEN 0 ELSE value[i - 1] * Base + s[i][2]
             g == [i \in 0..2 |-> IF i = 0 THEN 0 ELSE IF i = 1 THEN x ELSE v]
  <1>1. Len(s) = 2 /\ s[1][2] = x /\ s[2][2] = y
    BY DEF Digit
  <1>2. Base \in Nat \ {0}
    BY QueryAssumption
  <1>3. x \in Int /\ y \in 0..Base - 1 /\ v = Base * x + y
    BY <1>2
  <1>4. x * Base + y = v /\ 0 * Base + x = x
    BY <1>2, <1>3
  <1> HIDE DEF x, y
  <1>5. g = [i \in 0..2 |-> IF i = 0 THEN 0 ELSE g[i - 1] * Base + s[i][2]]
    BY <1>1, <1>2, <1>3, <1>4
  <1>6. value = [i \in 0..2 |-> IF i = 0 THEN 0 ELSE value[i - 1] * Base + s[i][2]]
    <2> HIDE DEF g
    <2> QED BY <1>1, <1>5, Zenon
  <1> HIDE DEF value
  <1>7. value[0] = 0
    BY <1>6
  <1>8. value[1] = x
    BY <1>1, <1>4, <1>6, <1>7
  <1>9. value[2] = v
    BY <1>1, <1>4, <1>6, <1>8
  <1>10. ValueOf(s) = value[Len(s)]
    BY Zenon DEF ValueOf, value
  <1> QED BY <1>1, <1>9, <1>10 DEF x, y

(* How the numbers of a reply are told apart: each ends before something else.  *)
LEMMA DigitsFacts ==
  ASSUME NEW v \in Nat
  PROVE  /\ Digits(v) \in Seq(Tokens) /\ Len(Digits(v)) \in 1..2
         /\ \A i \in 1..Len(Digits(v)) : IsDigit(Digits(v)[i])
         /\ ValueOf(Digits(v)) = v
         /\ Len(Digits(v)) = 2 => ValueOf(<<Digits(v)[1]>>) = v \div Base
  <1>0. Base \in Nat \ {0}
    BY QueryAssumption
  <1>1. CASE v < Base
    <2>1. Digits(v) = <<Digit(v)>>
      BY <1>1 DEF Digits
    <2>2. Digit(v) \in Tokens
      BY DEF Digit, Tokens
    <2> QED BY <2>1, <2>2, OneDigit, TokenKinds
  <1>2. CASE v >= Base
    <2> DEFINE x == v \div Base
               y == v % Base
    <2>1. x \in Int /\ y \in 0..Base - 1 /\ v = Base * x + y
      BY <1>0
    <2>2. x \in Nat
      BY <1>0, <1>2
    <2>3. Digits(v) = <<Digit(x), Digit(y)>>
      BY <1>0, <1>2 DEF Digits
    <2>4. y \in Nat
      BY <1>0, <2>1
    <2> HIDE DEF x, y
    <2>5. Digit(x) \in Tokens /\ Digit(y) \in Tokens
      BY <2>2, <2>4 DEF Digit, Tokens
    <2>6. ValueOf(<<Digit(x), Digit(y)>>) = v
      BY <1>2, TwoDigits DEF x, y
    <2>7. ValueOf(<<Digit(x)>>) = x
      BY <2>2, OneDigit
    <2>8. IsDigit(Digit(x)) /\ IsDigit(Digit(y))
      BY TokenKinds
    <2>9. /\ Digits(v) \in Seq(Tokens) /\ Len(Digits(v)) = 2
          /\ Digits(v)[1] = Digit(x) /\ Digits(v)[2] = Digit(y)
      BY <2>3, <2>5
    <2>10. \A i \in 1..2 : i = 1 \/ i = 2
      OBVIOUS
    <2>11. \A i \in 1..Len(Digits(v)) : IsDigit(Digits(v)[i])
      BY <2>8, <2>9, <2>10
    <2>12. ValueOf(Digits(v)) = v
      BY <2>3, <2>6, Zenon
    <2>13. ValueOf(<<Digits(v)[1]>>) = v \div Base
      BY <2>7, <2>9, Zenon DEF x
    <2> QED BY <2>9, <2>11, <2>12, <2>13
  <1> QED BY <1>0, <1>1, <1>2

(* Two numbers are a pair of them.                                              *)
LEMMA Pair == \A v, w : <<v>> \o <<w>> = <<v, w>>
  <1> SUFFICES ASSUME NEW v, NEW w PROVE <<v>> \o <<w>> = <<v, w>>
    OBVIOUS
  <1> DEFINE a == <<v>> \o <<w>>
             b == <<v, w>>
             S == {v, w}
  <1>1. <<v>> \in Seq(S) /\ <<w>> \in Seq(S) /\ b \in Seq(S)
    OBVIOUS
  <1>2. a \in Seq(S) /\ Len(a) = 2
    BY <1>1, ConcatProperties
  <1>3. a[1] = v /\ a[2] = w
    BY <1>1, ConcatProperties
  <1>4. Len(b) = 2 /\ b[1] = v /\ b[2] = w
    OBVIOUS
  <1>5. \A i \in 1..2 : a[i] = b[i]
    <2>1. \A i \in 1..2 : i = 1 \/ i = 2
      OBVIOUS
    <2> HIDE DEF a, b
    <2> QED BY <1>3, <1>4, <2>1
  <1> HIDE DEF a, b, S
  <1> QED BY <1>1, <1>2, <1>4, <1>5, SeqEqual DEF a, b

(* Two numbers are two runs of digits with a separator between them.            *)
LEMMA TwoNumbers ==
  ASSUME NEW s \in Seq(Tokens), Len(Numbers(s)) = 2
  PROVE  \E n, m \in Nat \ {0} :
           /\ n + 1 + m <= Len(s)
           /\ \A i \in 1..n : IsDigit(s[i])
           /\ s[n + 1] = Sep
           /\ \A i \in 1..m : IsDigit(s[n + 1 + i])
           /\ n + 1 + m = Len(s) \/ ~IsDigit(s[n + 2 + m])
           /\ Numbers(s) = <<ValueOf(SubSeq(s, 1, n)), ValueOf(SubSeq(s, n + 2, n + 1 + m))>>
  <1> DEFINE n == Run(s, TRUE)
             tail == Rest(s, n + 1)
             m == Run(tail, TRUE)
             v == ValueOf(SubSeq(s, 1, n))
             w == ValueOf(SubSeq(tail, 1, m))
  <1>1. n # 0 /\ n # Len(s) /\ s[n + 1] = Sep /\ m # 0 /\ Numbers(s) = <<v>> \o <<w>>
    <2>1. \/ Numbers(s) = <<>> \/ Numbers(s) = <<v>>
          \/ n # 0 /\ n # Len(s) /\ s[n + 1] = Sep /\ m # 0 /\ Numbers(s) = <<v>> \o <<w>>
      BY DEF Numbers
    <2> HIDE DEF v, w
    <2>2. Len(<<v>>) # 2 /\ Len(<<>>) # 2
      OBVIOUS
    <2> QED BY <2>1, <2>2, Zenon
  <1>2. n \in 0..Len(s) /\ \A i \in 1..n : IsDigit(s[i])
    BY RunFacts
  <1>3. Len(s) \in Nat /\ n \in 1..Len(s) - 1
    <2> HIDE DEF n
    <2>1. Len(s) \in Nat
      OBVIOUS
    <2>2. n \in 0..Len(s) /\ n # 0 /\ n # Len(s)
      BY <1>1, <1>2
    <2> QED BY <2>1, <2>2
  <1>4. /\ tail \in Seq(Tokens) /\ Len(tail) = Len(s) - (n + 1)
        /\ \A i \in 1..Len(tail) : tail[i] = s[n + 1 + i]
    <2> HIDE DEF n
    <2>1. \A i \in (n + 1) + 1..Len(s) : s[i] \in Tokens
      BY <1>3
    <2> QED BY <1>3, <2>1, SubSeqProperties DEF Rest
  <1>5. /\ m \in 0..Len(tail)
        /\ \A i \in 1..m : IsDigit(tail[i])
        /\ m = Len(tail) \/ ~IsDigit(tail[m + 1])
    <2> HIDE DEF tail
    <2>1. IsDigit(tail[m + 1]) \in BOOLEAN
      BY DEF IsDigit
    <2> QED BY <1>4, RunFacts, <2>1
  <1>6. SubSeq(tail, 1, m) = SubSeq(s, n + 2, n + 1 + m)
    <2> HIDE DEF n, m, tail
    <2> DEFINE a == SubSeq(tail, 1, m)
               b == SubSeq(s, n + 2, n + 1 + m)
    <2>1. a \in Seq(Tokens) /\ Len(a) = m /\ \A i \in 1..m : a[i] = tail[i]
      BY <1>4, <1>5
    <2>2. b \in Seq(Tokens) /\ Len(b) = m /\ \A i \in 1..m : b[i] = s[n + 1 + i]
      BY <1>3, <1>4, <1>5
    <2>3. \A i \in 1..m : a[i] = b[i]
      BY <1>4, <1>5, <2>1, <2>2
    <2>4. a = b
      <3> HIDE DEF a, b
      <3>1. Len(a) = Len(b) /\ \A i \in 1..Len(a) : a[i] = b[i]
        BY <2>1, <2>2, <2>3, Zenon
      <3> QED BY <2>1, <2>2, <3>1, SeqEqual
    <2> QED BY <2>4, Zenon
  <1>7. Numbers(s) = <<v, w>>
    <2> HIDE DEF v, w
    <2> QED BY <1>1, Pair, Zenon
  <1> HIDE DEF m, tail, n
  <1>8. n \in Nat \ {0} /\ m \in Nat \ {0} /\ n + 1 + m <= Len(s)
    BY <1>1, <1>3, <1>4, <1>5
  <1>9. \A i \in 1..m : IsDigit(s[n + 1 + i])
    <2>1. \A i \in 1..m : i \in 1..Len(tail)
      BY <1>3, <1>4, <1>5
    <2> QED BY <1>4, <1>5, <2>1, Zenon
  <1>10. n + 1 + m = Len(s) \/ ~IsDigit(s[n + 2 + m])
    <2>1. m # Len(tail) => (m + 1) \in 1..Len(tail) /\ n + 1 + (m + 1) = n + 2 + m
      <3>1. Len(tail) \in Int /\ m \in 0..Len(tail) /\ n \in Int
        BY <1>3, <1>4, <1>5
      <3> QED BY <3>1
    <2>2. m = Len(tail) => n + 1 + m = Len(s)
      BY <1>3, <1>4
    <2>3. m # Len(tail) => tail[m + 1] = s[n + 2 + m]
      BY <1>4, <2>1, Zenon
    <2> QED BY <1>5, <2>2, <2>3, Zenon
  <1>11. Numbers(s) = <<ValueOf(SubSeq(s, 1, n)), ValueOf(SubSeq(s, n + 2, n + 1 + m))>>
    BY <1>6, <1>7, Zenon
  <1> QED BY <1>1, <1>2, <1>8, <1>9, <1>10, <1>11, Zenon

\* c is a and then b
Joins(c, a, b) ==
  /\ Len(a) \in Nat /\ Len(b) \in Nat
  /\ c \in Seq(Tokens) /\ Len(c) = Len(a) + Len(b)
  /\ \A i \in 1..Len(a) : c[i] = a[i]
  /\ \A i \in 1..Len(b) : c[Len(a) + i] = b[i]

(* What joins two sequences is each of them at its place.                       *)
LEMMA Join == \A a, b \in Seq(Tokens) : Joins(a \o b, a, b)
  BY DEF Joins

\* w is the numbers of the digits d and e, and what stands between and behind them
IsBody(w, d, e) ==
  LET p == Len(d)  q == Len(e)
  IN /\ w \in Seq(Tokens) /\ Len(w) = p + q + 2
     /\ \A i \in 1..p : w[i] = d[i]
     /\ w[p + 1] = Sep
     /\ \A i \in 1..q : w[p + 1 + i] = e[i]
     /\ w[p + q + 2] = End

(* The numbers of a reply, ...                                                  *)
LEMMA BodyFacts ==
  ASSUME NEW a \in Nat, NEW b \in Nat
  PROVE  IsBody(Body(<<a, b>>), Digits(a), Digits(b))
  <1> DEFINE w == Body(<<a, b>>)
             d == Digits(a)
             e == Digits(b)
             p == Len(d)
             q == Len(e)
  <1>1. d \in Seq(Tokens) /\ e \in Seq(Tokens) /\ p \in Nat /\ q \in Nat
    <2>1. d \in Seq(Tokens) /\ e \in Seq(Tokens)
      BY DigitsFacts
    <2> HIDE DEF d, e
    <2> QED BY <2>1
  <1>2. <<Sep>> \in Seq(Tokens) /\ <<End>> \in Seq(Tokens)
    BY DEF Sep, End, Tokens
  <1>3. w = ((d \o <<Sep>>) \o e) \o <<End>>
    BY DEF Body
  <1> HIDE DEF d, e, w
  <1> DEFINE f == d \o <<Sep>>
             g == f \o e
  <1>4. /\ f \in Seq(Tokens) /\ Len(f) = p + 1
        /\ \A i \in 1..p : f[i] = d[i]
        /\ f[p + 1] = Sep
    BY <1>1, <1>2
  <1> HIDE DEF f
  <1>5. /\ g \in Seq(Tokens) /\ Len(g) = p + 1 + q
        /\ \A i \in 1..p + 1 : g[i] = f[i]
        /\ \A i \in 1..q : g[p + 1 + i] = e[i]
    <2> HIDE DEF p, q
    <2>1. Joins(g, f, e)
      BY <1>1, <1>4, Join
    <2> HIDE DEF g
    <2>2. Len(e) = q
      BY DEF q
    <2> QED BY <1>4, <2>1, <2>2 DEF Joins
  <1>6. w = g \o <<End>>
    BY <1>3 DEF f
  <1> HIDE DEF g, p, q
  <1>7. /\ w \in Seq(Tokens) /\ Len(w) = p + 1 + q + 1
        /\ \A i \in 1..p + 1 + q : w[i] = g[i]
        /\ w[p + 1 + q + 1] = End
    <2>1. Len(<<End>>) = 1 /\ <<End>>[1] = End
      OBVIOUS
    <2> DEFINE r == <<End>>
    <2> HIDE DEF r
    <2>2. Joins(w, g, r)
      BY <1>2, <1>5, <1>6, Join DEF r
    <2>3. Len(r) = 1 /\ r[1] = End
      BY <2>1 DEF r
    <2>4. 1 \in 1..1
      OBVIOUS
    <2>5. w[Len(g) + 1] = End
      BY <2>2, <2>3, <2>4, Zenon DEF Joins
    <2>6. Len(g) = p + 1 + q /\ Len(w) = p + 1 + q + 1
      BY <1>5, <2>2, <2>3, Zenon DEF Joins
    <2> QED BY <1>5, <2>2, <2>5, <2>6, Zenon DEF Joins
  <1>8. /\ \A i \in 1..p : w[i] = d[i]
        /\ w[p + 1] = Sep
    <2>1. \A i \in 1..p + 1 : i \in 1..p + 1 + q
      BY <1>1
    <2>2. p + 1 \in 1..p + 1 /\ \A i \in 1..p : i \in 1..p + 1
      BY <1>1
    <2> QED BY <1>4, <1>5, <1>7, <2>1, <2>2, Zenon
  <1>9. \A i \in 1..q : w[p + 1 + i] = e[i]
    <2>1. \A i \in 1..q : p + 1 + i \in 1..p + 1 + q
      BY <1>1
    <2> QED BY <1>5, <1>7, <2>1, Zenon
  <1>10. Len(w) = p + q + 2 /\ w[p + q + 2] = End
    BY <1>1, <1>7
  <1> QED BY <1>7, <1>8, <1>9, <1>10 DEF IsBody, p, q, w, d, e

(* What is read of a reply, as far as it came and up to the first key: its two  *)
(* numbers, the second perhaps cut short.                                       *)
LEMMA ReplyRead ==
  ASSUME NEW a \in Nat, NEW b \in Nat, NEW s \in Seq(Tokens),
         Agrees(s, Body(<<a, b>>)), Len(Numbers(s)) = 2
  PROVE  /\ Numbers(s)[1] = a /\ Numbers(s)[2] \in {b, b \div Base}
         /\ s = Body(<<a, b>>) => Numbers(s)[2] = b
  <1> DEFINE w == Body(<<a, b>>)
             p == Len(Digits(a))
             q == Len(Digits(b))
  <1>1. PICK n, m \in Nat \ {0} :
           /\ n + 1 + m <= Len(s)
           /\ \A i \in 1..n : IsDigit(s[i])
           /\ s[n + 1] = Sep
           /\ \A i \in 1..m : IsDigit(s[n + 1 + i])
           /\ n + 1 + m = Len(s) \/ ~IsDigit(s[n + 2 + m])
           /\ Numbers(s) = <<ValueOf(SubSeq(s, 1, n)), ValueOf(SubSeq(s, n + 2, n + 1 + m))>>
    BY TwoNumbers
  <1>2. p \in 1..2 /\ q \in 1..2
    BY DigitsFacts
  <1>3. /\ w \in Seq(Tokens) /\ Len(w) = p + q + 2
        /\ \A i \in 1..p : w[i] = Digits(a)[i] /\ IsDigit(w[i])
        /\ w[p + 1] = Sep
        /\ \A i \in 1..q : w[p + 1 + i] = Digits(b)[i] /\ IsDigit(w[p + 1 + i])
        /\ w[p + q + 2] = End
    <2> HIDE DEF w
    <2>1. /\ w \in Seq(Tokens) /\ Len(w) = p + q + 2
          /\ \A i \in 1..p : w[i] = Digits(a)[i]
          /\ w[p + 1] = Sep
          /\ \A i \in 1..q : w[p + 1 + i] = Digits(b)[i]
          /\ w[p + q + 2] = End
      <3>1. IsBody(w, Digits(a), Digits(b))
        BY BodyFacts DEF w
      <3> QED BY <3>1 DEF IsBody
    <2>2. \A i \in 1..p : IsDigit(Digits(a)[i])
      BY DigitsFacts
    <2>3. \A i \in 1..q : IsDigit(Digits(b)[i])
      BY DigitsFacts
    <2> HIDE DEF p, q
    <2> QED BY <2>1, <2>2, <2>3
  <1> HIDE DEF w, p, q
  <1>4. \A i \in 1..n + 1 + m : s[i] # Key
    <2>1. \A i \in 1..n + 1 + m : i \in 1..n \/ i = n + 1 \/ (i - (n + 1) \in 1..m /\ n + 1 + (i - (n + 1)) = i)
      BY <1>1
    <2> QED BY <1>1, <2>1, TokenKinds
  <1>5. \A i \in 1..n + 1 + m : i <= Len(w) => s[i] = w[i]
    <2> SUFFICES ASSUME NEW i \in 1..n + 1 + m, i <= Len(w) PROVE s[i] = w[i]
      OBVIOUS
    <2>1. i \in 1..Len(w) /\ i <= Len(s) /\ \A k \in 1..i : k \in 1..n + 1 + m
      BY <1>1, <1>2, <1>3
    <2>2. ~\E k \in 1..i : s[k] = Key
      BY <1>4, <2>1
    <2>3. Agrees(s, w)
      BY DEF w
    <2> QED BY <2>1, <2>2, <2>3 DEF Agrees
  <1>6. n = p
    <2>1. ~(n < p)
      <3> SUFFICES ASSUME n < p PROVE FALSE
        OBVIOUS
      <3>1. n + 1 \in 1..n + 1 + m /\ n + 1 \in 1..p /\ n + 1 <= Len(w)
        BY <1>1, <1>2, <1>3
      <3> QED BY <1>1, <1>3, <1>5, <3>1, TokenKinds
    <2>2. ~(p < n)
      <3> SUFFICES ASSUME p < n PROVE FALSE
        OBVIOUS
      <3>1. p + 1 \in 1..n + 1 + m /\ p + 1 \in 1..n /\ p + 1 <= Len(w)
        BY <1>1, <1>2, <1>3
      <3> QED BY <1>1, <1>3, <1>5, <3>1, TokenKinds
    <2> QED BY <1>1, <1>2, <2>1, <2>2
  <1>7. m <= q
    <2> SUFFICES ASSUME q < m PROVE FALSE
      BY <1>1, <1>2
    <2>1. /\ p + q + 2 \in 1..n + 1 + m /\ q + 1 \in 1..m /\ n + 1 + (q + 1) = p + q + 2
          /\ p + q + 2 <= Len(w)
      BY <1>1, <1>2, <1>3, <1>6
    <2> QED BY <1>1, <1>3, <1>5, <2>1, TokenKinds
  <1>8. SubSeq(s, 1, n) = Digits(a)
    <2> DEFINE d == SubSeq(s, 1, n)
    <2>1. d \in Seq(Tokens) /\ Len(d) = n /\ \A i \in 1..n : d[i] = s[i]
      BY <1>1
    <2>2. Digits(a) \in Seq(Tokens) /\ Len(Digits(a)) = n
      BY <1>6, DigitsFacts DEF p
    <2>3. \A i \in 1..n : s[i] = Digits(a)[i]
      <3>1. \A i \in 1..n : i \in 1..n + 1 + m /\ i <= Len(w) /\ i \in 1..p
        BY <1>1, <1>2, <1>3, <1>6
      <3> QED BY <1>3, <1>5, <3>1
    <2>4. \A i \in 1..n : d[i] = Digits(a)[i]
      BY <2>1, <2>3
    <2> HIDE DEF d
    <2> QED BY <2>1, <2>2, <2>4, SeqEqual DEF d
  <1> DEFINE e == SubSeq(s, n + 2, n + 1 + m)
  <1>9. e \in Seq(Tokens) /\ Len(e) = m /\ \A i \in 1..m : e[i] = s[n + 1 + i]
    BY <1>1
  <1>10. \A i \in 1..m : s[n + 1 + i] = Digits(b)[i]
    <2>1. \A i \in 1..m : n + 1 + i \in 1..n + 1 + m /\ n + 1 + i <= Len(w) /\ i \in 1..q
      BY <1>1, <1>2, <1>3, <1>6, <1>7
    <2> QED BY <1>3, <1>5, <1>6, <2>1
  <1>11. \A i \in 1..m : e[i] = Digits(b)[i]
    BY <1>9, <1>10
  <1> HIDE DEF e
  <1>12. ValueOf(e) \in {b, b \div Base} /\ (s = w => ValueOf(e) = b)
    <2>1. CASE m = q
      <3>1. Digits(b) \in Seq(Tokens) /\ Len(Digits(b)) = m
        BY <2>1, DigitsFacts DEF q
      <3>2. e = Digits(b)
        BY <1>9, <1>11, <3>1, SeqEqual
      <3> QED BY <3>2, DigitsFacts
    <2>2. CASE m # q
      <3>1. m = 1 /\ q = 2
        BY <1>1, <1>2, <1>7, <2>2
      <3>2. e = <<Digits(b)[1]>>
        BY <1>9, <1>11, <3>1
      <3>3. s # w
        <4>1. s = w => IsDigit(s[p + 1 + 2]) /\ Len(s) = p + 4
          BY <1>2, <1>3, <3>1
        <4>2. n + 2 + m = p + 1 + 2 /\ n + 1 + m # p + 4
          BY <1>1, <1>2, <1>6, <3>1
        <4> QED BY <1>1, <4>1, <4>2
      <3> QED BY <3>1, <3>2, <3>3, DigitsFacts DEF q
    <2> QED BY <2>1, <2>2
  <1>13. Numbers(s)[1] = ValueOf(SubSeq(s, 1, n)) /\ Numbers(s)[2] = ValueOf(e)
    BY <1>1 DEF e
  <1> QED BY <1>8, <1>12, <1>13, DigitsFacts DEF w

(* Of a reply with one number only no two are read.                             *)
LEMMA OneRead ==
  ASSUME NEW s \in Seq(Tokens), NEW q \in Nat \ {0}, NEW e,
         \A i \in 1..q : IsDigit(e[i]),
         \A j \in 1..q + 1 : j <= Len(s) => \/ s[j] = IF j <= q THEN e[j] ELSE End
                                           \/ \E k \in 1..j : s[k] = Key
  PROVE  Len(Numbers(s)) # 2
  <1> SUFFICES ASSUME Len(Numbers(s)) = 2 PROVE FALSE
    OBVIOUS
  <1>1. PICK n, m \in Nat \ {0} : /\ n + 1 + m <= Len(s)
                                  /\ \A i \in 1..n : IsDigit(s[i])
                                  /\ s[n + 1] = Sep
    BY TwoNumbers
  <1>2. \A i \in 1..n + 1 : s[i] # Key /\ i <= Len(s)
    <2>1. \A i \in 1..n + 1 : (i \in 1..n \/ i = n + 1) /\ i <= Len(s)
      BY <1>1
    <2> QED BY <1>1, <2>1, TokenKinds
  <1>3. \A j \in 1..n + 1 : j <= q + 1 => s[j] = IF j <= q THEN e[j] ELSE End
    <2> SUFFICES ASSUME NEW j \in 1..n + 1, j <= q + 1
                 PROVE  s[j] = IF j <= q THEN e[j] ELSE End
      OBVIOUS
    <2>1. j \in 1..q + 1 /\ j <= Len(s) /\ \A k \in 1..j : k \in 1..n + 1
      BY <1>2
    <2>2. ~\E k \in 1..j : s[k] = Key
      BY <1>2, <2>1
    <2> QED BY <2>1, <2>2
  <1>4. CASE n < q
    <2>1. n + 1 \in 1..n + 1 /\ n + 1 <= q + 1 /\ n + 1 <= q /\ n + 1 \in 1..q
      BY <1>4
    <2>2. s[n + 1] = e[n + 1]
      BY <1>3, <2>1
    <2> QED BY <1>1, <2>1, <2>2, TokenKinds
  <1>5. CASE n >= q
    <2>1. q + 1 \in 1..n + 1 /\ ~(q + 1 <= q) /\ q + 1 <= q + 1
      BY <1>5
    <2>2. s[q + 1] = End
      BY <1>3, <2>1
    <2>3. q + 1 = n + 1 \/ q + 1 \in 1..n
      BY <1>5
    <2> QED BY <1>1, <2>2, <2>3, TokenKinds
  <1> QED BY <1>4, <1>5

(* ... what opens it ...                                                        *)
LEMMA OpeningFacts ==
  /\ Opening("cursor") = <<Csi>>
  /\ Opening("cells") = <<Csi, Digit(8), Sep>> /\ Opening("pixels") = <<Csi, Digit(4), Sep>>
  /\ \A kind \in Kinds : Opening(kind) \in Seq(Tokens)
  <1>1. Csi \in Tokens /\ Sep \in Tokens /\ Digit(8) \in Tokens /\ Digit(4) \in Tokens
    BY DEF Csi, Sep, Digit, Tokens
  <1>2. /\ Opening("cursor") = <<Csi>>
        /\ Opening("cells") = <<Csi, Digit(8), Sep>> /\ Opening("pixels") = <<Csi, Digit(4), Sep>>
    BY DEF Opening
  <1>3. <<Csi>> \in Seq(Tokens) /\ <<Csi, Digit(8), Sep>> \in Seq(Tokens) /\ <<Csi, Digit(4), Sep>> \in Seq(Tokens)
    BY <1>1
  <1> QED BY <1>2, <1>3 DEF Kinds

(* ... and all of it.                                                           *)
LEMMA ReplyFacts ==
  ASSUME NEW kind \in Kinds, NEW v \in Nat \X Nat
  PROVE  /\ Body(v) \in Seq(Tokens) /\ Reply(kind, v) \in Seq(Tokens)
         /\ Joins(Reply(kind, v), Opening(kind), Body(v))
         /\ IsBody(Body(v), Digits(v[1]), Digits(v[2]))
  <1>1. v = <<v[1], v[2]>> /\ v[1] \in Nat /\ v[2] \in Nat
    OBVIOUS
  <1>2. IsBody(Body(v), Digits(v[1]), Digits(v[2]))
    BY <1>1, BodyFacts
  <1>3. Body(v) \in Seq(Tokens)
    BY <1>2 DEF IsBody
  <1>4. Joins(Reply(kind, v), Opening(kind), Body(v))
    BY <1>3, OpeningFacts, Join DEF Reply
  <1> QED BY <1>2, <1>3, <1>4 DEF Joins

(* What is left of a sequence, and where.                                       *)
LEMMA RestFacts ==
  ASSUME NEW s \in Seq(Tokens), NEW n \in 0..Len(s)
  PROVE  /\ Rest(s, n) \in Seq(Tokens) /\ Len(Rest(s, n)) = Len(s) - n
         /\ \A i \in 1..Len(s) - n : Rest(s, n)[i] = s[n + i]
  <1>1. \A i \in n + 1..Len(s) : s[i] \in Tokens
    OBVIOUS
  <1> QED BY <1>1, SubSeqProperties DEF Rest

\* The numbers of a reply, the second perhaps cut short
Answers(values, v) == values[1] = v[1] /\ values[2] \in {v[2], v[2] \div Base}

\* The size question `kind` accepts b, which is of the reply to the question `other`
SizeReply(kind, b, other, v) ==
  /\ kind \in {"cells", "pixels"} /\ b \in Seq(Tokens)
  /\ IsPrefix(Opening(kind), b) /\ Len(Scan(kind, b)) = 2
  /\ other \in Kinds /\ v \in Nat \X Nat /\ Agrees(b, Reply(other, v))

(* What a size question accepts agrees with the reply to one of the same kind.  *)
LEMMA SizeScanned ==
  ASSUME NEW kind, NEW b, NEW other, NEW v, SizeReply(kind, b, other, v)
  PROVE  /\ other = kind /\ Answers(Scan(kind, b), v)
         /\ b = Reply(kind, v) => Scan(kind, b)[2] = v[2]
  <1> USE DEF SizeReply
  <1> DEFINE s == Rest(b, 3)
             w == Reply(other, v)
             d == IF kind = "cells" THEN 8 ELSE 4
             body == Body(v)
             p == Len(Digits(v[1]))
             q == Len(Digits(v[2]))
  <1>1. Len(Opening(kind)) = 3 /\ Opening(kind) = <<Csi, Digit(d), Sep>>
    BY OpeningFacts
  <1>2. Len(b) >= 3 /\ b[1] = Csi /\ b[2] = Digit(d) /\ b[3] = Sep
    <2> HIDE DEF d
    <2>1. Len(b) \in Nat
      OBVIOUS
    <2>2. 3 <= Len(b) /\ SubSeq(<<Csi, Digit(d), Sep>>, 1, 3) = SubSeq(b, 1, 3)
      BY <1>1, Zenon DEF IsPrefix
    <2>3. \A i \in 1..3 : b[i] = <<Csi, Digit(d), Sep>>[i]
      <3>0. 3 <= Len(b)
        BY <2>2
      <3>1. \A i \in 1..3 : SubSeq(b, 1, 3)[i] = b[i]
        BY <2>1, <3>0
      <3>2. \A i \in 1..3 : SubSeq(<<Csi, Digit(d), Sep>>, 1, 3)[i] = <<Csi, Digit(d), Sep>>[i]
        OBVIOUS
      <3> QED BY <2>2, <3>1, <3>2
    <2> QED BY <2>2, <2>3
  <1>3. Scan(kind, b) = Numbers(s)
    <2>1. kind # "cursor"
      OBVIOUS
    <2> QED BY <1>1, <2>1 DEF Scan
  <1>4. s \in Seq(Tokens) /\ Len(s) = Len(b) - 3 /\ \A i \in 1..Len(s) : s[i] = b[3 + i]
    BY <1>2, RestFacts
  <1>5. /\ body \in Seq(Tokens) /\ w \in Seq(Tokens) /\ Joins(w, Opening(other), body)
        /\ IsBody(body, Digits(v[1]), Digits(v[2]))
    BY ReplyFacts
  <1>6. \A j \in 1..3 : b[j] # Key
    BY <1>2, TokenKinds
  <1> HIDE DEF s, w, body, d, p, q
  <1>7. \A j \in 1..3 : j <= Len(w) => b[j] = w[j]
    <2> SUFFICES ASSUME NEW j \in 1..3, j <= Len(w) PROVE b[j] = w[j]
      OBVIOUS
    <2>1. j \in 1..Len(w) /\ j <= Len(b) /\ \A k \in 1..j : k \in 1..3
      BY <1>2, <1>5
    <2> QED BY <1>6, <2>1 DEF Agrees, w
  <1>8. p \in 1..2 /\ q \in 1..2 /\ v[1] \in Nat /\ v[2] \in Nat
    BY DigitsFacts DEF p, q
  <1>9. /\ Len(body) = p + q + 2
        /\ \A i \in 1..p : IsDigit(body[i])
        /\ body[p + 1] = Sep
        /\ \A i \in 1..q : IsDigit(body[p + 1 + i])
        /\ body[p + q + 2] = End
    <2>1. \A i \in 1..p : IsDigit(Digits(v[1])[i])
      BY <1>8, DigitsFacts DEF p
    <2>2. \A i \in 1..q : IsDigit(Digits(v[2])[i])
      BY <1>8, DigitsFacts DEF q
    <2> QED BY <1>5, <2>1, <2>2 DEF IsBody, p, q
  <1>10. other # "cursor"
    <2> SUFFICES ASSUME other = "cursor" PROVE FALSE
      OBVIOUS
    <2>1. Opening(other) = <<Csi>> /\ Len(Opening(other)) = 1
      BY OpeningFacts
    <2>2. Len(w) = p + q + 3 /\ \A i \in 1..p + q + 2 : w[1 + i] = body[i]
      <3>1. /\ Len(w) = Len(Opening(other)) + Len(body)
            /\ \A i \in 1..Len(body) : w[Len(Opening(other)) + i] = body[i]
        BY <1>5 DEF Joins
      <3>2. /\ Len(w) = 1 + (p + q + 2)
            /\ \A i \in 1..p + q + 2 : w[1 + i] = body[i]
        BY <1>9, <2>1, <3>1, Zenon
      <3> QED BY <1>8, <3>2
    <2>3. p = 1
      <3> SUFFICES ASSUME p = 2 PROVE FALSE
        BY <1>8
      <3>1. w[3] = body[2] /\ b[3] = w[3] /\ IsDigit(body[2])
        BY <1>7, <1>8, <1>9, <2>2
      <3> QED BY <1>2, <3>1, TokenKinds
    <2> DEFINE e == [i \in 1..q |-> body[p + 1 + i]]
    <2>4. \A i \in 1..q : IsDigit(e[i])
      BY <1>9
    <2>5. \A j \in 1..q + 1 : j <= Len(s) => \/ s[j] = IF j <= q THEN e[j] ELSE End
                                            \/ \E k \in 1..j : s[k] = Key
      <3> SUFFICES ASSUME NEW j \in 1..q + 1, j <= Len(s), ~\E k \in 1..j : s[k] = Key
                   PROVE  s[j] = IF j <= q THEN e[j] ELSE End
        OBVIOUS
      <3>1. /\ 3 + j \in 1..Len(w) /\ 3 + j <= Len(b) /\ 2 + j \in 1..p + q + 2
            /\ 1 + (2 + j) = 3 + j /\ s[j] = b[3 + j]
        BY <1>2, <1>4, <1>8, <2>2, <2>3
      <3>2. \A k \in 1..3 + j : b[k] # Key
        <4> SUFFICES ASSUME NEW k \in 1..3 + j PROVE b[k] # Key
          OBVIOUS
        <4>1. CASE k <= 3
          BY <1>6, <4>1
        <4>2. CASE k > 3
          <5>1. k - 3 \in 1..j /\ k - 3 \in 1..Len(s) /\ 3 + (k - 3) = k
            BY <1>2, <1>4, <4>2
          <5> QED BY <1>4, <5>1
        <4> QED BY <4>1, <4>2
      <3>3. b[3 + j] = w[3 + j]
        BY <3>1, <3>2 DEF Agrees, w
      <3>4. s[j] = body[2 + j]
        BY <2>2, <3>1, <3>3
      <3>5. CASE j <= q
        <4>1. j \in 1..q /\ p + 1 + j = 2 + j
          BY <1>8, <2>3, <3>5
        <4> QED BY <3>4, <3>5, <4>1
      <3>6. CASE j = q + 1
        <4>1. p + q + 2 = 2 + j /\ ~(j <= q)
          BY <1>8, <2>3, <3>6
        <4> QED BY <1>9, <3>4, <4>1
      <3> QED BY <1>8, <3>5, <3>6
    <2> HIDE DEF e
    <2>6. q \in Nat \ {0}
      BY <1>8
    <2> QED BY <1>3, <1>4, <2>4, <2>5, <2>6, OneRead
  <1>11. /\ Opening(other) = <<Csi, Digit(IF other = "cells" THEN 8 ELSE 4), Sep>>
         /\ other \in {"cells", "pixels"}
    BY <1>10, OpeningFacts DEF Kinds
  <1>12. /\ Len(Opening(other)) = 3
         /\ w[2] = Digit(IF other = "cells" THEN 8 ELSE 4)
         /\ Len(w) = 3 + Len(body) /\ Len(body) \in Nat
         /\ \A i \in 1..Len(body) : w[3 + i] = body[i]
    <2>1. /\ Len(Opening(other)) = 3
          /\ Opening(other)[2] = Digit(IF other = "cells" THEN 8 ELSE 4)
      BY <1>11
    <2> QED BY <1>5, <2>1 DEF Joins
  <1>13. other = kind
    <2>1. Digit(d) = Digit(IF other = "cells" THEN 8 ELSE 4)
      BY <1>2, <1>7, <1>12
    <2> QED BY <1>11, <2>1 DEF Digit, d
  <1>14. Agrees(s, body)
    <2> SUFFICES ASSUME NEW j \in 1..Len(body), j <= Len(s), ~\E k \in 1..j : s[k] = Key
                 PROVE  s[j] = body[j]
      BY DEF Agrees
    <2>1. 3 + j \in 1..Len(w) /\ 3 + j <= Len(b) /\ s[j] = b[3 + j]
      BY <1>2, <1>4, <1>12
    <2>2. \A k \in 1..3 + j : b[k] # Key
      <3> SUFFICES ASSUME NEW k \in 1..3 + j PROVE b[k] # Key
        OBVIOUS
      <3>1. CASE k <= 3
        BY <1>6, <3>1
      <3>2. CASE k > 3
        <4>1. k - 3 \in 1..j /\ k - 3 \in 1..Len(s) /\ 3 + (k - 3) = k
          BY <1>2, <1>4, <3>2
        <4> QED BY <1>4, <4>1
      <3> QED BY <3>1, <3>2
    <2>3. b[3 + j] = w[3 + j]
      BY <2>1, <2>2 DEF Agrees, w
    <2> QED BY <1>12, <2>1, <2>3
  <1>15. b = w => s = body
    <2> SUFFICES ASSUME b = w PROVE s = body
      OBVIOUS
    <2>1. Len(s) = Len(body) /\ \A i \in 1..Len(s) : s[i] = body[i]
      BY <1>4, <1>12
    <2> QED BY <1>4, <1>5, <2>1, SeqEqual
  <1>16. v = <<v[1], v[2]>>
    OBVIOUS
  <1>17. Agrees(s, Body(<<v[1], v[2]>>)) /\ (b = w => s = Body(<<v[1], v[2]>>))
    BY <1>14, <1>15, <1>16 DEF body
  <1>18. Len(Numbers(s)) = 2
    BY <1>3
  <1>19. /\ Numbers(s)[1] = v[1] /\ Numbers(s)[2] \in {v[2], v[2] \div Base}
         /\ b = w => Numbers(s)[2] = v[2]
    BY <1>4, <1>8, <1>17, <1>18, ReplyRead
  <1> QED BY <1>3, <1>13, <1>19 DEF w, Answers

\* From its i-th token on, s is w, at least up to the first key
Follows(s, i, w) ==
  \A j \in 1..Len(w) : \/ \E k \in i..i + j - 1 : k <= Len(s) /\ s[k] = Key
                       \/ i + j - 1 <= Len(s) /\ s[i + j - 1] = w[j]
\* b is what s begins with
Begins(b, s) == Len(b) <= Len(s) /\ \A k \in 1..Len(b) : b[k] = s[k]
FirstDigit(s, i) == i \in 1..Len(s) /\ IsDigit(s[i]) /\ \A k \in 1..i - 1 : ~IsDigit(s[k])

(* A reply that follows in all that may be read is what was read, so far.       *)
LEMMA FollowsAgrees ==
  ASSUME NEW s \in Seq(Tokens), NEW b \in Seq(Tokens), Begins(b, s),
         NEW i \in 1..Len(b), NEW w \in Seq(Tokens), Follows(s, i, w)
  PROVE  Agrees(Rest(b, i - 1), w)
  <1> DEFINE r == Rest(b, i - 1)
  <1>1. Len(b) \in Nat /\ i - 1 \in 0..Len(b)
    OBVIOUS
  <1>2. Len(r) = Len(b) - (i - 1) /\ \A k \in 1..Len(b) - (i - 1) : r[k] = b[i - 1 + k]
    BY <1>1, RestFacts
  <1> HIDE DEF r
  <1> SUFFICES ASSUME NEW j \in 1..Len(w), j <= Len(r), \A k \in 1..j : r[k] # Key
               PROVE  r[j] = w[j]
    BY DEF Agrees, r
  <1>3. \A k \in i..i + j - 1 : k \in 1..Len(b) /\ k - (i - 1) \in 1..j
    BY <1>1, <1>2
  <1>4. \A k \in i..i + j - 1 : s[k] # Key
    <2> SUFFICES ASSUME NEW k \in i..i + j - 1 PROVE s[k] # Key
      OBVIOUS
    <2>1. k - (i - 1) \in 1..j /\ k - (i - 1) \in 1..Len(b) - (i - 1) /\ i - 1 + (k - (i - 1)) = k
      BY <1>1, <1>2, <1>3
    <2>2. r[k - (i - 1)] = b[k]
      BY <1>2, <2>1
    <2>3. b[k] = s[k]
      BY <1>3 DEF Begins
    <2> QED BY <2>1, <2>2, <2>3
  <1>5. s[i + j - 1] = w[j]
    BY <1>4 DEF Follows
  <1>6. i + j - 1 \in 1..Len(b) /\ i - 1 + j = i + j - 1 /\ j \in 1..Len(b) - (i - 1)
    BY <1>1, <1>2
  <1> QED BY <1>2, <1>5, <1>6 DEF Begins

(* What the question for the cursor accepts begins with the first digit.        *)
LEMMA CursorScanned ==
  ASSUME NEW s \in Seq(Tokens), NEW b \in Seq(Tokens), Begins(b, s),
         Len(Scan("cursor", b)) = 2, NEW v \in Nat \X Nat,
         \A i \in 1..Len(s) : FirstDigit(s, i) => Follows(s, i, Body(v))
  PROVE  /\ Scan("cursor", b)[1] = v[1] /\ Scan("cursor", b)[2] \in {v[2], v[2] \div Base}
         /\ b = Reply("cursor", v) => Scan("cursor", b)[2] = v[2]
         /\ \E i \in 1..Len(b) : FirstDigit(s, i)
  <1> DEFINE skip == Run(b, FALSE)
             r == Rest(b, skip)
  <1>1. skip # 0 /\ Scan("cursor", b) = Numbers(r)
    <2>1. Scan("cursor", b) = IF skip = 0 THEN <<>> ELSE Numbers(r)
      BY DEF Scan
    <2>2. Len(<<>>) # 2
      OBVIOUS
    <2> QED BY <2>1, <2>2, Zenon
  <1>2. Len(b) \in Nat /\ Len(s) \in Nat
    OBVIOUS
  <1>3. /\ skip \in 0..Len(b) /\ \A i \in 1..skip : ~IsDigit(b[i])
        /\ skip = Len(b) \/ IsDigit(b[skip + 1])
    <2>1. IsDigit(b[skip + 1]) \in BOOLEAN
      BY DEF IsDigit
    <2>2. \A i \in 1..skip : IsDigit(b[i]) = FALSE
      BY RunFacts
    <2>3. skip \in 0..Len(b) /\ (skip = Len(b) \/ IsDigit(b[skip + 1]) # FALSE)
      BY RunFacts
    <2> HIDE DEF skip
    <2> QED BY <2>1, <2>2, <2>3
  <1>4. r \in Seq(Tokens) /\ Len(r) = Len(b) - skip /\ \A i \in 1..Len(b) - skip : r[i] = b[skip + i]
    BY <1>3, RestFacts
  <1> HIDE DEF skip
  <1>5. skip < Len(b)
    <2>1. PICK n, m \in Nat \ {0} : n + 1 + m <= Len(r)
      BY <1>1, <1>4, TwoNumbers
    <2> HIDE DEF r
    <2> QED BY <1>2, <1>3, <1>4, <2>1
  <1> DEFINE i == skip + 1
  <1>6. i \in 1..Len(b) /\ i \in 1..Len(s) /\ i - 1 = skip
    BY <1>2, <1>3, <1>5 DEF Begins
  <1>7. FirstDigit(s, i)
    <2>1. b[i] = s[i] /\ IsDigit(b[i])
      BY <1>3, <1>5, <1>6, <1>2 DEF Begins
    <2>2. \A k \in 1..i - 1 : ~IsDigit(s[k])
      <3>1. \A k \in 1..i - 1 : k \in 1..skip /\ k \in 1..Len(b)
        BY <1>2, <1>3, <1>6
      <3> QED BY <1>3, <3>1 DEF Begins
    <2> QED BY <1>6, <2>1, <2>2 DEF FirstDigit
  <1>8. Body(v) \in Seq(Tokens) /\ Joins(Reply("cursor", v), Opening("cursor"), Body(v)) /\ v = <<v[1], v[2]>>
    <2>1. "cursor" \in Kinds
      BY DEF Kinds
    <2> QED BY <2>1, ReplyFacts
  <1>9. Agrees(r, Body(v))
    <2>1. Follows(s, i, Body(v))
      BY <1>6, <1>7
    <2>2. Agrees(Rest(b, i - 1), Body(v))
      <3> HIDE DEF i
      <3> QED BY <1>6, <1>8, <2>1, FollowsAgrees
    <2> QED BY <1>6, <2>2
  <1>10. b = Reply("cursor", v) => r = Body(v)
    <2> SUFFICES ASSUME b = Reply("cursor", v) PROVE r = Body(v)
      OBVIOUS
    <2> DEFINE w == Body(v)
    <2>0. v[1] \in Nat /\ v[2] \in Nat
      OBVIOUS
    <2>1. /\ IsBody(w, Digits(v[1]), Digits(v[2])) /\ Len(w) \in Nat
          /\ Len(Digits(v[1])) \in 1..2 /\ Len(Digits(v[2])) \in 1..2
          /\ \A k \in 1..Len(Digits(v[1])) : IsDigit(Digits(v[1])[k])
      <3>1. "cursor" \in Kinds
        BY DEF Kinds
      <3>2. IsBody(w, Digits(v[1]), Digits(v[2]))
        BY <3>1, ReplyFacts
      <3>3. /\ Len(Digits(v[1])) \in 1..2
            /\ \A k \in 1..Len(Digits(v[1])) : IsDigit(Digits(v[1])[k])
        BY <2>0, DigitsFacts
      <3>4. Len(Digits(v[2])) \in 1..2
        BY <2>0, DigitsFacts
      <3>5. w \in Seq(Tokens)
        BY <3>2 DEF IsBody
      <3> HIDE DEF w
      <3>6. Len(w) \in Nat
        BY <3>5
      <3> QED BY <3>2, <3>3, <3>4, <3>6
    <2> HIDE DEF w
    <2>2. IsDigit(w[1])
      <3>0. \A k \in 1..2 : 1 \in 1..k
        OBVIOUS
      <3>1. 1 \in 1..Len(Digits(v[1]))
        BY <2>1, <3>0, Zenon
      <3>2. w[1] = Digits(v[1])[1]
        BY <2>1, <3>1, Zenon DEF IsBody
      <3> QED BY <2>1, <3>1, <3>2
    <2>3. Len(Opening("cursor")) = 1 /\ Opening("cursor")[1] = Csi
      BY OpeningFacts
    <2>4. Len(b) = 1 + Len(w) /\ b[1] = Csi /\ \A k \in 1..Len(w) : b[1 + k] = w[k]
      <3>1. Joins(b, Opening("cursor"), w)
        BY <1>8 DEF w
      <3>2. /\ Len(b) = Len(Opening("cursor")) + Len(w)
            /\ \A k \in 1..Len(Opening("cursor")) : b[k] = Opening("cursor")[k]
            /\ \A k \in 1..Len(w) : b[Len(Opening("cursor")) + k] = w[k]
        BY <3>1 DEF Joins
      <3>3. 1 \in 1..1
        OBVIOUS
      <3> QED BY <2>3, <3>2, <3>3, Zenon
    <2>5. Len(w) >= 1
      BY <2>1 DEF IsBody
    <2>6. IsDigit(b[2])
      BY <2>1, <2>2, <2>4, <2>5
    <2>7. skip = 1
      <3>1. ~(skip >= 2)
        BY <1>3, <2>6
      <3> QED BY <1>1, <1>3, <3>1
    <2>8. w \in Seq(Tokens)
      BY <1>8 DEF w
    <2>9. Len(r) = Len(w) /\ \A k \in 1..Len(w) : r[k] = w[k]
      <3> HIDE DEF r
      <3>1. Len(r) = Len(b) - 1 /\ \A k \in 1..Len(b) - 1 : r[k] = b[1 + k]
        BY <1>4, <2>7
      <3>2. Len(w) \in Nat
        BY <2>8
      <3>3. Len(b) - 1 = Len(w)
        BY <2>4, <3>2
      <3> QED BY <2>4, <3>1, <3>3
    <2> QED BY <1>4, <2>8, <2>9, SeqEqual DEF w
  <1>11. v[1] \in Nat /\ v[2] \in Nat
    OBVIOUS
  <1> HIDE DEF r
  <1>12. /\ Numbers(r)[1] = v[1] /\ Numbers(r)[2] \in {v[2], v[2] \div Base}
         /\ r = Body(v) => Numbers(r)[2] = v[2]
    <2>1. Agrees(r, Body(<<v[1], v[2]>>)) /\ Body(v) = Body(<<v[1], v[2]>>)
      BY <1>8, <1>9
    <2> QED BY <1>1, <1>4, <1>11, <2>1, ReplyRead
  <1> QED BY <1>1, <1>6, <1>7, <1>10, <1>12

(* Only the end of a reply looks like one.                                      *)
LEMMA WholeReply ==
  ASSUME NEW kind \in Kinds, NEW v \in Nat \X Nat, NEW b \in Seq(Tokens),
         Begins(b, Reply(kind, v)), b # <<>>, Last(b) = End
  PROVE  b = Reply(kind, v)
  <1> DEFINE w == Reply(kind, v)
             body == Body(v)
             o == Opening(kind)
             p == Len(Digits(v[1]))
             q == Len(Digits(v[2]))
  <1>1. /\ w \in Seq(Tokens) /\ Joins(w, o, body) /\ IsBody(body, Digits(v[1]), Digits(v[2]))
    BY ReplyFacts
  <1>2. p \in 1..2 /\ q \in 1..2 /\ v[1] \in Nat /\ v[2] \in Nat
    BY DigitsFacts
  <1>3. \A i \in 1..Len(o) : o[i] # End
    <2>1. o = <<Csi>> \/ \E d \in {4, 8} : o = <<Csi, Digit(d), Sep>>
      BY OpeningFacts DEF Kinds
    <2>2. \A d \in {4, 8} : Digit(d) # End
      BY TokenKinds
    <2>3. Csi # End /\ Sep # End
      BY TokenKinds
    <2> HIDE DEF o
    <2> QED BY <2>1, <2>2, <2>3
  <1>4. /\ Len(body) = p + q + 2
        /\ \A i \in 1..p : IsDigit(body[i])
        /\ body[p + 1] = Sep
        /\ \A i \in 1..q : IsDigit(body[p + 1 + i])
    <2>1. \A i \in 1..p : IsDigit(Digits(v[1])[i])
      BY <1>2, DigitsFacts
    <2>2. \A i \in 1..q : IsDigit(Digits(v[2])[i])
      BY <1>2, DigitsFacts
    <2> HIDE DEF body
    <2> QED BY <1>1, <2>1, <2>2 DEF IsBody
  <1> HIDE DEF w, body, o, p, q
  <1>5. \A i \in 1..p + q + 1 : body[i] # End
    <2>1. \A i \in 1..p + q + 1 : i \in 1..p \/ i = p + 1 \/ (i - (p + 1) \in 1..q /\ p + 1 + (i - (p + 1)) = i)
      BY <1>2
    <2> QED BY <1>4, <2>1, TokenKinds
  <1>6. \A i \in 1..Len(w) : w[i] = End => i = Len(w)
    <2>1. Len(o) \in Nat /\ Len(w) = Len(o) + (p + q + 2)
      BY <1>1, <1>2, <1>4 DEF Joins
    <2> SUFFICES ASSUME NEW i \in 1..Len(w), i # Len(w) PROVE w[i] # End
      OBVIOUS
    <2>2. CASE i <= Len(o)
      BY <1>1, <1>3, <2>2 DEF Joins
    <2>3. CASE i > Len(o)
      <3>1. i - Len(o) \in 1..p + q + 1 /\ i - Len(o) \in 1..Len(body) /\ Len(o) + (i - Len(o)) = i
        BY <1>2, <1>4, <2>1, <2>3
      <3>2. w[i] = body[i - Len(o)]
        BY <1>1, <3>1 DEF Joins
      <3> QED BY <1>5, <3>1, <3>2
    <2> QED BY <2>1, <2>2, <2>3
  <1>7. Len(b) \in Nat \ {0} /\ Len(b) <= Len(w) /\ Len(w) \in Nat /\ b[Len(b)] = End
    BY <1>1 DEF Begins, Last, w
  <1>8. Len(b) \in 1..Len(w) /\ w[Len(b)] = End
    BY <1>7 DEF Begins, w
  <1>9. Len(b) = Len(w)
    BY <1>6, <1>8
  <1> QED BY <1>1, <1>9, SeqEqual DEF Begins, w

(* Then the stream, which is genuine: keys apart, there are only replies in it,  *)
(* or what is left of them. That stays so whatever is read and typed.            *)
\* Every head of a reply in s begins a reply in R, complete but for a key in it
Genuine(s, R) ==
  \A i \in 1..Len(s) : s[i] = Csi => \E r \in R : Follows(s, i, Reply(r[1], r[2]))
OnlyKeys(s) == \A i \in 1..Len(s) : s[i] = Key
\* What the first digit of s begins is w
Heads(s, w) == \A i \in 1..Len(s) : FirstDigit(s, i) => Follows(s, i, w)

Drops(s, t, n) == n \in 0..Len(s) /\ Len(t) = Len(s) - n /\ \A i \in 1..Len(t) : t[i] = s[n + i]
Inserts(s, t, p) ==
  /\ p \in 0..Len(s) /\ Len(t) = Len(s) + 1
  /\ \A i \in 1..p : t[i] = s[i]
  /\ t[p + 1] = Key
  /\ \A i \in p + 1..Len(s) : t[i + 1] = s[i]

(* Where the front of a stream is read, a reply behind it still follows ...     *)
LEMMA DropsFollows ==
  ASSUME NEW s \in Seq(Tokens), NEW t \in Seq(Tokens), NEW n, Drops(s, t, n),
         NEW i \in 1..Len(t), NEW w \in Seq(Tokens), Follows(s, n + i, w)
  PROVE  Follows(t, i, w)
  <1>1. Len(s) \in Nat /\ Len(t) \in Nat /\ n \in 0..Len(s) /\ Len(t) = Len(s) - n
    BY DEF Drops
  <1>2. \A k \in 1..Len(t) : t[k] = s[n + k]
    BY DEF Drops
  <1> SUFFICES ASSUME NEW j \in 1..Len(w)
               PROVE  \/ \E k \in i..i + j - 1 : k <= Len(t) /\ t[k] = Key
                      \/ i + j - 1 <= Len(t) /\ t[i + j - 1] = w[j]
    BY DEF Follows
  <1>3. Len(w) \in Nat
    OBVIOUS
  <1>4. CASE \E k \in n + i..n + i + j - 1 : k <= Len(s) /\ s[k] = Key
    <2>1. PICK k \in n + i..n + i + j - 1 : k <= Len(s) /\ s[k] = Key
      BY <1>4
    <2>2. k - n \in i..i + j - 1 /\ k - n \in 1..Len(t) /\ n + (k - n) = k
      BY <1>1, <1>3, <2>1
    <2>3. t[k - n] = s[n + (k - n)]
      BY <1>2, <2>2
    <2>4. t[k - n] = Key /\ k - n <= Len(t)
      BY <2>1, <2>2, <2>3
    <2> QED BY <2>2, <2>4
  <1>5. CASE n + i + j - 1 <= Len(s) /\ s[n + i + j - 1] = w[j]
    <2>1. i + j - 1 \in 1..Len(t) /\ n + (i + j - 1) = n + i + j - 1
      BY <1>1, <1>3, <1>5
    <2> QED BY <1>2, <1>5, <2>1
  <1> QED BY <1>4, <1>5 DEF Follows

(* ... and the stream is as genuine as it was.                                  *)
LEMMA DropsGenuine ==
  ASSUME NEW s \in Seq(Tokens), NEW t \in Seq(Tokens), NEW n, Drops(s, t, n),
         NEW R \in SUBSET (Kinds \X (Nat \X Nat))
  PROVE  (Genuine(s, R) => Genuine(t, R)) /\ (OnlyKeys(s) => OnlyKeys(t))
  <1>1. \A i \in 1..Len(t) : n + i \in 1..Len(s) /\ t[i] = s[n + i]
    BY DEF Drops
  <1>2. OnlyKeys(s) => OnlyKeys(t)
    BY <1>1 DEF OnlyKeys
  <1>3. ASSUME Genuine(s, R), NEW i \in 1..Len(t), t[i] = Csi
        PROVE  \E r \in R : Follows(t, i, Reply(r[1], r[2]))
    <2>1. PICK r \in R : Follows(s, n + i, Reply(r[1], r[2]))
      BY <1>1, <1>3 DEF Genuine
    <2>2. Reply(r[1], r[2]) \in Seq(Tokens)
      <3>1. r[1] \in Kinds /\ r[2] \in Nat \X Nat
        OBVIOUS
      <3> QED BY <3>1, ReplyFacts
    <2> QED BY <2>1, <2>2, DropsFollows
  <1> QED BY <1>2, <1>3 DEF Genuine

\* Where a token of s is in t
Behind(p, i) == IF i <= p THEN i ELSE i + 1

(* Where a key is typed into a stream, a reply follows where it did, or breaks  *)
(* off there.                                                                   *)
LEMMA InsertsFollows ==
  ASSUME NEW s \in Seq(Tokens), NEW t \in Seq(Tokens), NEW p, Inserts(s, t, p),
         NEW i \in 1..Len(s), NEW w \in Seq(Tokens), Follows(s, i, w)
  PROVE  Follows(t, Behind(p, i), w)
  <1>1. Len(s) \in Nat /\ p \in 0..Len(s) /\ Len(t) = Len(s) + 1 /\ Len(w) \in Nat
    BY DEF Inserts
  <1>2. /\ \A k \in 1..p : t[k] = s[k]
        /\ t[p + 1] = Key
        /\ \A k \in p + 1..Len(s) : t[k + 1] = s[k]
    BY DEF Inserts
  <1> DEFINE h == Behind(p, i)
  <1> SUFFICES ASSUME NEW j \in 1..Len(w)
               PROVE  \/ \E k \in h..h + j - 1 : k <= Len(t) /\ t[k] = Key
                      \/ h + j - 1 <= Len(t) /\ t[h + j - 1] = w[j]
    BY DEF Follows
  <1>3. CASE i > p
    <2>1. h = i + 1
      BY <1>1, <1>3 DEF Behind
    <2> HIDE DEF h
    <2>2. CASE \E k \in i..i + j - 1 : k <= Len(s) /\ s[k] = Key
      <3>1. PICK k \in i..i + j - 1 : k <= Len(s) /\ s[k] = Key
        BY <2>2
      <3>2. k + 1 \in h..h + j - 1 /\ k + 1 <= Len(t) /\ k \in p + 1..Len(s)
        BY <1>1, <1>3, <2>1, <3>1
      <3> QED BY <1>2, <3>1, <3>2
    <2>3. CASE i + j - 1 <= Len(s) /\ s[i + j - 1] = w[j]
      <3>1. i + j - 1 \in p + 1..Len(s) /\ (i + j - 1) + 1 = h + j - 1 /\ h + j - 1 <= Len(t)
        BY <1>1, <1>3, <2>1, <2>3
      <3> QED BY <1>2, <2>3, <3>1
    <2> QED BY <2>2, <2>3 DEF Follows
  <1>4. CASE i <= p
    <2>1. h = i
      BY <1>4 DEF Behind
    <2> HIDE DEF h
    <2>2. CASE i + j - 1 >= p + 1
      <3>1. p + 1 \in h..h + j - 1 /\ p + 1 <= Len(t)
        BY <1>1, <1>4, <2>1, <2>2
      <3> QED BY <1>2, <3>1
    <2>3. CASE i + j - 1 < p + 1
      <3>1. CASE \E k \in i..i + j - 1 : k <= Len(s) /\ s[k] = Key
        <4>1. PICK k \in i..i + j - 1 : k <= Len(s) /\ s[k] = Key
          BY <3>1
        <4>2. k \in h..h + j - 1 /\ k <= Len(t) /\ k \in 1..p
          BY <1>1, <1>4, <2>1, <2>3, <4>1
        <4> QED BY <1>2, <4>1, <4>2
      <3>2. CASE i + j - 1 <= Len(s) /\ s[i + j - 1] = w[j]
        <4>1. i + j - 1 \in 1..p /\ i + j - 1 <= Len(t)
          BY <1>1, <1>4, <2>3
        <4> QED BY <1>2, <2>1, <3>2, <4>1
      <3> QED BY <3>1, <3>2 DEF Follows
    <2> QED BY <1>1, <2>2, <2>3
  <1> QED BY <1>1, <1>3, <1>4

(* What is no key was there before, ...                                         *)
LEMMA InsertsAt ==
  ASSUME NEW s \in Seq(Tokens), NEW t \in Seq(Tokens), NEW p, Inserts(s, t, p)
  PROVE  \A h \in 1..Len(t) : t[h] # Key =>
           \E i \in 1..Len(s) : h = Behind(p, i) /\ t[h] = s[i]
  <1>1. Len(s) \in Nat /\ p \in 0..Len(s) /\ Len(t) = Len(s) + 1
    BY DEF Inserts
  <1> SUFFICES ASSUME NEW h \in 1..Len(t), t[h] # Key
               PROVE  \E i \in 1..Len(s) : h = Behind(p, i) /\ t[h] = s[i]
    OBVIOUS
  <1>2. CASE h <= p
    <2>1. h \in 1..Len(s) /\ h = Behind(p, h) /\ h \in 1..p
      BY <1>1, <1>2 DEF Behind
    <2> QED BY <2>1 DEF Inserts
  <1>3. CASE h > p + 1
    <2>1. h - 1 \in 1..Len(s) /\ h = Behind(p, h - 1) /\ h - 1 \in p + 1..Len(s) /\ (h - 1) + 1 = h
      BY <1>1, <1>3 DEF Behind
    <2> QED BY <2>1 DEF Inserts
  <1>4. h # p + 1
    BY DEF Inserts
  <1> QED BY <1>1, <1>2, <1>3, <1>4

(* ... and the stream is as genuine as it was.                                  *)
LEMMA InsertsGenuine ==
  ASSUME NEW s \in Seq(Tokens), NEW t \in Seq(Tokens), NEW p, Inserts(s, t, p),
         NEW R \in SUBSET (Kinds \X (Nat \X Nat)), NEW w \in Seq(Tokens)
  PROVE  /\ Genuine(s, R) => Genuine(t, R)
         /\ OnlyKeys(s) => OnlyKeys(t)
         /\ Heads(s, w) => Heads(t, w)
         /\ (\E i \in 1..Len(t) : FirstDigit(t, i)) => \E i \in 1..Len(s) : FirstDigit(s, i)
  <1>1. OnlyKeys(s) => OnlyKeys(t)
    BY InsertsAt DEF OnlyKeys
  <1>2. ASSUME Genuine(s, R), NEW h \in 1..Len(t), t[h] = Csi
        PROVE  \E r \in R : Follows(t, h, Reply(r[1], r[2]))
    <2>1. PICK i \in 1..Len(s) : h = Behind(p, i) /\ t[h] = s[i]
      <3>1. t[h] # Key
        BY <1>2, TokenKinds, Zenon
      <3>2. \A k \in 1..Len(t) : t[k] # Key => \E i \in 1..Len(s) : k = Behind(p, i) /\ t[k] = s[i]
        BY InsertsAt
      <3> QED BY <3>1, <3>2, Zenon
    <2>2. PICK r \in R : Follows(s, i, Reply(r[1], r[2]))
      BY <1>2, <2>1 DEF Genuine
    <2>3. Reply(r[1], r[2]) \in Seq(Tokens)
      <3>1. r[1] \in Kinds /\ r[2] \in Nat \X Nat
        OBVIOUS
      <3> QED BY <3>1, ReplyFacts
    <2> QED BY <2>1, <2>2, <2>3, InsertsFollows
  <1>3. ASSUME NEW h \in 1..Len(t), FirstDigit(t, h)
        PROVE  \E i \in 1..Len(s) : h = Behind(p, i) /\ FirstDigit(s, i)
    <2>1. t[h] # Key
      BY <1>3, TokenKinds DEF FirstDigit
    <2>2. PICK i \in 1..Len(s) : h = Behind(p, i) /\ t[h] = s[i]
      BY <2>1, InsertsAt
    <2>3. \A k \in 1..i - 1 : ~IsDigit(s[k])
      <3> SUFFICES ASSUME NEW k \in 1..i - 1 PROVE ~IsDigit(s[k])
        OBVIOUS
      <3>1. Len(s) \in Nat /\ p \in 0..Len(s)
        BY DEF Inserts
      <3>2. CASE k <= p
        <4>1. k \in 1..p /\ k \in 1..h - 1
          BY <2>2, <3>1, <3>2 DEF Behind
        <4>2. t[k] = s[k]
          BY <4>1 DEF Inserts
        <4> QED BY <1>3, <4>1, <4>2 DEF FirstDigit
      <3>3. CASE k > p
        <4>1. k \in p + 1..Len(s) /\ k + 1 \in 1..h - 1
          BY <2>2, <3>1, <3>3 DEF Behind
        <4>2. t[k + 1] = s[k]
          BY <4>1 DEF Inserts
        <4> QED BY <1>3, <4>1, <4>2 DEF FirstDigit
      <3> QED BY <3>1, <3>2, <3>3
    <2> QED BY <1>3, <2>2, <2>3 DEF FirstDigit
  <1>4. ASSUME Heads(s, w), NEW h \in 1..Len(t), FirstDigit(t, h) PROVE Follows(t, h, w)
    <2>1. PICK i \in 1..Len(s) : h = Behind(p, i) /\ FirstDigit(s, i)
      BY <1>3, <1>4
    <2>2. Follows(s, i, w)
      BY <1>4, <2>1 DEF Heads
    <2> QED BY <2>1, <2>2, InsertsFollows
  <1> QED BY <1>1, <1>2, <1>3, <1>4 DEF Genuine, Heads

(* A reply that follows still does when more comes in.                          *)
LEMMA AppendsFollows ==
  ASSUME NEW s \in Seq(Tokens), NEW t \in Seq(Tokens), Begins(s, t),
         NEW i \in 1..Len(s), NEW w \in Seq(Tokens), Follows(s, i, w)
  PROVE  Follows(t, i, w)
  <1>1. Len(s) \in Nat /\ Len(t) \in Nat /\ Len(s) <= Len(t) /\ \A k \in 1..Len(s) : s[k] = t[k]
    BY DEF Begins
  <1> SUFFICES ASSUME NEW j \in 1..Len(w)
               PROVE  \/ \E k \in i..i + j - 1 : k <= Len(t) /\ t[k] = Key
                      \/ i + j - 1 <= Len(t) /\ t[i + j - 1] = w[j]
    BY DEF Follows
  <1>2. CASE \E k \in i..i + j - 1 : k <= Len(s) /\ s[k] = Key
    <2>1. PICK k \in i..i + j - 1 : k <= Len(s) /\ s[k] = Key
      BY <1>2
    <2>2. k \in 1..Len(s) /\ k <= Len(t)
      BY <1>1, <2>1
    <2> QED BY <1>1, <2>1, <2>2
  <1>3. CASE i + j - 1 <= Len(s) /\ s[i + j - 1] = w[j]
    <2>1. i + j - 1 \in 1..Len(s) /\ i + j - 1 <= Len(t)
      BY <1>1, <1>3
    <2> QED BY <1>1, <1>3, <2>1
  <1> QED BY <1>2, <1>3 DEF Follows

\* Only its first token begins a reply, and only the second of the cursor's is its first digit
LEMMA HeadOfReply ==
  ASSUME NEW kind \in Kinds, NEW v \in Nat \X Nat, NEW w, w = Reply(kind, v)
  PROVE  /\ Len(w) \in Nat \ {0} /\ w[1] = Csi
         /\ \A i \in 2..Len(w) : w[i] # Csi
         /\ kind = "cursor" => /\ Len(w) = 1 + Len(Body(v)) /\ IsDigit(w[2]) /\ Len(Body(v)) \in Nat \ {0}
                              /\ \A i \in 1..Len(Body(v)) : w[1 + i] = Body(v)[i]
  <1> DEFINE body == Body(v)
             o == Opening(kind)
             p == Len(Digits(v[1]))
             q == Len(Digits(v[2]))
  <1>1. /\ w \in Seq(Tokens) /\ Joins(w, o, body) /\ IsBody(body, Digits(v[1]), Digits(v[2]))
    BY ReplyFacts
  <1>2. p \in 1..2 /\ q \in 1..2 /\ v[1] \in Nat /\ v[2] \in Nat
    BY DigitsFacts
  <1>3. /\ o \in Seq(Tokens) /\ Len(o) \in Nat \ {0} /\ o[1] = Csi /\ \A i \in 2..Len(o) : o[i] # Csi
        /\ kind = "cursor" => Len(o) = 1
    <2>1. o = <<Csi>> \/ \E d \in {4, 8} : o = <<Csi, Digit(d), Sep>>
      BY OpeningFacts DEF Kinds
    <2>2. kind = "cursor" => o = <<Csi>>
      BY OpeningFacts
    <2>3. (\A d \in {4, 8} : Digit(d) # Csi) /\ Sep # Csi
      BY TokenKinds
    <2>4. o \in Seq(Tokens)
      BY OpeningFacts
    <2> HIDE DEF o
    <2>5. CASE o = <<Csi>>
      <3>1. Len(o) = 1 /\ o[1] = Csi
        BY <2>5
      <3> QED BY <2>4, <3>1
    <2>6. CASE \E d \in {4, 8} : o = <<Csi, Digit(d), Sep>>
      <3>1. PICK d \in {4, 8} : o = <<Csi, Digit(d), Sep>>
        BY <2>6
      <3>2. Len(o) = 3 /\ o[1] = Csi /\ o[2] = Digit(d) /\ o[3] = Sep
        BY <3>1
      <3>3. \A i \in 2..3 : i = 2 \/ i = 3
        OBVIOUS
      <3>4. \A i \in 2..Len(o) : o[i] # Csi
        BY <2>3, <3>2, <3>3
      <3>5. kind # "cursor"
        <4>1. Len(<<Csi>>) = 1
          OBVIOUS
        <4> QED BY <2>2, <3>2, <4>1
      <3> QED BY <2>4, <3>2, <3>4, <3>5
    <2> QED BY <2>1, <2>5, <2>6
  <1>4. /\ Len(body) = p + q + 2
        /\ \A i \in 1..p : IsDigit(body[i])
        /\ body[p + 1] = Sep
        /\ \A i \in 1..q : IsDigit(body[p + 1 + i])
        /\ body[p + q + 2] = End
    <2>1. \A i \in 1..p : IsDigit(Digits(v[1])[i])
      BY <1>2, DigitsFacts
    <2>2. \A i \in 1..q : IsDigit(Digits(v[2])[i])
      BY <1>2, DigitsFacts
    <2> HIDE DEF body
    <2> QED BY <1>1, <2>1, <2>2 DEF IsBody
  <1> HIDE DEF body, o, p, q
  <1>5. \A i \in 1..Len(body) : body[i] # Csi
    <2>1. \A i \in 1..Len(body) :
            \/ i \in 1..p \/ i = p + 1 \/ i = p + q + 2
            \/ i - (p + 1) \in 1..q /\ p + 1 + (i - (p + 1)) = i
      BY <1>2, <1>4
    <2> QED BY <1>4, <2>1, TokenKinds
  <1>6. /\ Len(w) = Len(o) + Len(body) /\ \A i \in 1..Len(o) : w[i] = o[i]
        /\ \A i \in 1..Len(body) : w[Len(o) + i] = body[i]
    BY <1>1 DEF Joins
  <1>7. Len(body) \in Nat \ {0}
    BY <1>2, <1>4
  <1>8. Len(w) \in Nat \ {0} /\ w[1] = Csi
    BY <1>3, <1>6, <1>7
  <1>9. \A i \in 2..Len(w) : w[i] # Csi
    <2> SUFFICES ASSUME NEW i \in 2..Len(w) PROVE w[i] # Csi
      OBVIOUS
    <2>1. CASE i <= Len(o)
      BY <1>3, <1>6, <2>1
    <2>2. CASE i > Len(o)
      <3>1. i - Len(o) \in 1..Len(body) /\ Len(o) + (i - Len(o)) = i
        BY <1>3, <1>6, <1>7, <2>2
      <3>2. w[i] = body[i - Len(o)]
        BY <1>6, <3>1
      <3> QED BY <1>5, <3>1, <3>2
    <2> QED BY <1>3, <2>1, <2>2
  <1>10. ASSUME kind = "cursor"
         PROVE  /\ Len(w) = 1 + Len(body) /\ IsDigit(w[2])
                /\ \A i \in 1..Len(body) : w[1 + i] = body[i]
    <2>1. Len(o) = 1
      BY <1>3, <1>10
    <2>2. IsDigit(body[1])
      BY <1>2, <1>4
    <2>3. Len(w) = 1 + Len(body) /\ \A i \in 1..Len(body) : w[1 + i] = body[i]
      BY <1>6, <2>1, Zenon
    <2>4. w[1 + 1] = body[1]
      <3>1. 1 \in 1..Len(body)
        BY <1>7
      <3> QED BY <2>3, <3>1
    <2> QED BY <2>2, <2>3, <2>4
  <1> QED BY <1>7, <1>8, <1>9, <1>10 DEF body

(* The stream is genuine when the terminal replies.                             *)
LEMMA Replied ==
  ASSUME NEW s \in Seq(Tokens), NEW kind \in Kinds, NEW v \in Nat \X Nat,
         NEW R \in SUBSET (Kinds \X (Nat \X Nat)), NEW t, t = s \o Reply(kind, v)
  PROVE  /\ Genuine(s, R) => Genuine(t, R \union {<<kind, v>>})
         /\ OnlyKeys(s) /\ kind = "cursor" => Heads(t, Body(v))
  <1> DEFINE w == Reply(kind, v)
             n == Len(s)
  <1>1. w \in Seq(Tokens) /\ Body(v) \in Seq(Tokens)
    BY ReplyFacts
  <1>2. Joins(t, s, w)
    BY <1>1, Join
  <1>3. /\ n \in Nat /\ Len(w) \in Nat /\ t \in Seq(Tokens) /\ Len(t) = n + Len(w)
        /\ (\A i \in 1..n : t[i] = s[i]) /\ \A i \in 1..Len(w) : t[n + i] = w[i]
    BY <1>2 DEF Joins
  <1>4. /\ Len(w) \in Nat \ {0} /\ w[1] = Csi
        /\ \A i \in 2..Len(w) : w[i] # Csi
        /\ kind = "cursor" => /\ Len(w) = 1 + Len(Body(v)) /\ IsDigit(w[2]) /\ Len(Body(v)) \in Nat \ {0}
                             /\ \A i \in 1..Len(Body(v)) : w[1 + i] = Body(v)[i]
    BY HeadOfReply
  <1> HIDE DEF w, n
  <1>5. ASSUME Genuine(s, R), NEW i \in 1..Len(t), t[i] = Csi
        PROVE  \E r \in R \union {<<kind, v>>} : Follows(t, i, Reply(r[1], r[2]))
    <2>1. CASE i <= n
      <3>1. i \in 1..n /\ s[i] = Csi
        BY <1>3, <1>5, <2>1
      <3>2. PICK r \in R : Follows(s, i, Reply(r[1], r[2]))
        BY <1>5, <3>1 DEF Genuine, n
      <3>3. Reply(r[1], r[2]) \in Seq(Tokens)
        <4>1. r[1] \in Kinds /\ r[2] \in Nat \X Nat
          OBVIOUS
        <4> QED BY <4>1, ReplyFacts
      <3>4. Begins(s, t)
        BY <1>3 DEF Begins, n
      <3>5. i \in 1..Len(s)
        BY <3>1 DEF n
      <3> QED BY <1>3, <3>2, <3>3, <3>4, <3>5, AppendsFollows
    <2>2. CASE i > n
      <3>1. i - n \in 1..Len(w) /\ n + (i - n) = i
        BY <1>3, <2>2
      <3>2. w[i - n] = Csi
        BY <1>3, <1>5, <3>1
      <3>3. i = n + 1
        <4>1. ~(i - n \in 2..Len(w))
          BY <1>4, <3>2
        <4> QED BY <1>3, <3>1, <4>1
      <3>4. Follows(t, i, w)
        <4> SUFFICES ASSUME NEW j \in 1..Len(w) PROVE i + j - 1 <= Len(t) /\ t[i + j - 1] = w[j]
          BY DEF Follows
        <4>1. i + j - 1 = n + j /\ n + j <= Len(t)
          BY <1>3, <3>3
        <4> QED BY <1>3, <4>1
      <3> DEFINE r == <<kind, v>>
      <3>5. r[1] = kind /\ r[2] = v /\ r \in R \union {r}
        OBVIOUS
      <3> QED BY <3>4, <3>5 DEF w
    <2> QED BY <1>3, <2>1, <2>2
  <1>6. ASSUME OnlyKeys(s), kind = "cursor", NEW i \in 1..Len(t), FirstDigit(t, i)
        PROVE  Follows(t, i, Body(v))
    <2>1. IsDigit(t[i]) /\ \A k \in 1..i - 1 : ~IsDigit(t[k])
      BY <1>6 DEF FirstDigit
    <2>2. ~(i <= n)
      <3> SUFFICES ASSUME i <= n PROVE FALSE
        OBVIOUS
      <3>1. i \in 1..n
        BY <1>3
      <3>2. t[i] = Key
        BY <1>3, <1>6, <3>1 DEF OnlyKeys, n
      <3> QED BY <2>1, <3>2, TokenKinds
    <2>3. i # n + 1
      <3>1. t[n + 1] = Csi
        <4>1. 1 \in 1..Len(w)
          BY <1>4
        <4> QED BY <1>3, <1>4, <4>1
      <3> QED BY <2>1, <3>1, TokenKinds
    <2>4. IsDigit(t[n + 2])
      <3>1. 2 \in 1..Len(w)
        BY <1>4, <1>6
      <3> QED BY <1>3, <1>4, <1>6, <3>1
    <2>5. i = n + 2
      <3>1. ~(n + 2 \in 1..i - 1)
        BY <2>1, <2>4
      <3> QED BY <1>3, <2>2, <2>3, <3>1
    <2> SUFFICES ASSUME NEW j \in 1..Len(Body(v)) PROVE i + j - 1 <= Len(t) /\ t[i + j - 1] = Body(v)[j]
      BY DEF Follows
    <2>6. i + j - 1 = n + (1 + j) /\ 1 + j \in 1..Len(w) /\ n + (1 + j) <= Len(t)
      BY <1>3, <1>4, <1>6, <2>5
    <2>7. w[1 + j] = Body(v)[j]
      BY <1>4, <1>6
    <2>8. t[n + (1 + j)] = w[1 + j]
      BY <1>3, <2>6
    <2> QED BY <2>6, <2>7, <2>8
  <1> QED BY <1>5, <1>6 DEF Genuine, Heads

(* At last the questions.                                                        *)
\* What was read for the question under way
Held == IF call.step = "wait" THEN call.buffer ELSE <<>>
\* All that may still be read
Stream == (Held \o queue) \o wire

Setup == {"open", "get attributes", "set attributes", "register", "write"}
Talking ==
  /\ {"kind", "step", "buffer", "truth", "values"} \subseteq DOMAIN call
  /\ call.step \in {"idle", "wait", "done"} \union Setup
  /\ call.step # "idle" => call.kind \in Kinds
  /\ call.buffer \in Seq(Tokens) /\ queue \in Seq(Tokens) /\ wire \in Seq(Tokens)
  /\ call.step \in Setup => call.buffer = <<>> /\ call.values = <<>>
  /\ call.values \in Seq(Nat)
  /\ sent \subseteq Kinds \X (Nat \X Nat)
Fresh == sent = {} => OnlyKeys(Stream)
Spoken == Genuine(Stream, sent)
First == call.kind = "cursor" /\ call.step \in Setup => sent = {}
Answering ==
  call.kind = "cursor" /\ call.step = "wait" =>
    /\ (\E i \in 1..Len(Stream) : FirstDigit(Stream, i)) => <<"cursor", call.truth>> \in sent
    /\ Heads(Stream, Body(call.truth))
Untroubled ==
  ~trouble => \/ Stream = <<>>
              \/ /\ call.step = "wait" /\ call.truth \in Nat \X Nat
                 /\ Stream = Reply(call.kind, call.truth)
Hearing == Fresh /\ Spoken /\ First /\ Answering /\ Untroubled
\* Once a digit is typed, nothing is known of what is heard
Talk == Talking /\ AnswersRight /\ (~numbers => Hearing)

(* The stream is one of tokens.                                                 *)
LEMMA StreamType == ASSUME Talking PROVE Held \in Seq(Tokens) /\ Held \o queue \in Seq(Tokens) /\ Stream \in Seq(Tokens)
  <1>1. Held \in Seq(Tokens)
    BY DEF Held, Talking
  <1>2. queue \in Seq(Tokens) /\ wire \in Seq(Tokens)
    BY DEF Talking
  <1> QED BY <1>1, <1>2 DEF Stream

(* Laws of the concatenation.                                                   *)
LEMMA EmptySides == \A s \in Seq(Tokens) : s \o <<>> = s /\ <<>> \o s = s
  OBVIOUS

(* Concatenation does not mind the brackets.                                    *)
LEMMA Regroup == \A a, b, c \in Seq(Tokens) : (a \o b) \o c = a \o (b \o c)
  BY ConcatAssociative

(* What is read is one or two numbers, or none.                                 *)
LEMMA PairScanned ==
  \A kind, s : Len(Scan(kind, s)) = 2 => Scan(kind, s) = <<Scan(kind, s)[1], Scan(kind, s)[2]>>
  <1> SUFFICES ASSUME NEW kind, NEW b, Len(Scan(kind, b)) = 2
               PROVE  Scan(kind, b) = <<Scan(kind, b)[1], Scan(kind, b)[2]>>
    OBVIOUS
  <1>1. Scan(kind, b) = <<>> \/ \E s : Scan(kind, b) = Numbers(s)
    BY Zenon DEF Scan
  <1>2. \A s : Numbers(s) = <<>> \/ (\E v : Numbers(s) = <<v>>) \/ \E v, w : Numbers(s) = <<v, w>>
    <2> SUFFICES ASSUME NEW s PROVE Numbers(s) = <<>> \/ (\E v : Numbers(s) = <<v>>) \/ \E v, w : Numbers(s) = <<v, w>>
      OBVIOUS
    <2> DEFINE first == Run(s, TRUE)
               tail == Rest(s, first + 1)
               v == ValueOf(SubSeq(s, 1, first))
               w == ValueOf(SubSeq(tail, 1, Run(tail, TRUE)))
    <2>1. Numbers(s) = <<>> \/ Numbers(s) = <<v>> \/ Numbers(s) = <<v>> \o <<w>>
      BY DEF Numbers
    <2> HIDE DEF v, w
    <2> QED BY <2>1, Pair, Zenon
  <1>3. PICK v, w : Scan(kind, b) = <<v, w>>
    <2>1. Scan(kind, b) = <<>> \/ (\E v : Scan(kind, b) = <<v>>) \/ \E v, w : Scan(kind, b) = <<v, w>>
      BY <1>1, <1>2, Zenon
    <2>2. Len(<<>>) # 2 /\ \A v : Len(<<v>>) # 2
      OBVIOUS
    <2> QED BY <2>1, <2>2, Zenon
  <1> QED BY <1>3

(* Digits are read as a number, ...                                             *)
LEMMA ValueType == ASSUME NEW s \in Seq(Tokens) PROVE ValueOf(s) \in Nat
  <1> DEFINE m == Len(s)
             value[i \in 0..m] == IF i = 0 THEN 0 ELSE value[i - 1] * Base + s[i][2]
             Step(i, x) == x * Base + s[i][2]
             G == [i \in 1..m |-> [x \in Nat |-> Step(i, x)]]
  <1>1. m \in Nat /\ \A i \in 1..m : s[i][2] \in Nat
    <2>1. \A i \in 1..m : s[i] \in Tokens
      OBVIOUS
    <2> QED BY <2>1 DEF Tokens
  <1> HIDE DEF m
  <1>2. \A i \in 1..m : \A x \in Nat : Step(i, x) \in Nat
    <2>1. \A x, y \in Nat : x * Base + y \in Nat
      BY QueryAssumption
    <2> QED BY <1>1, <2>1, Zenon
  <1>3. PICK f \in [0..m -> Nat] : f[0] = 0 /\ \A i \in 1..m : f[i] = G[i][f[i - 1]]
    <2> DEFINE V == Nat
               zero == 0
    <2> HIDE DEF Step
    <2>1. zero \in V /\ m \in Nat /\ Within(G, m, V)
      BY <1>1, <1>2 DEF Within
    <2> HIDE DEF G, V, zero
    <2>2. \E f \in [0..m -> V] : f[0] = zero /\ \A i \in 1..m : f[i] = G[i][f[i - 1]]
      BY <2>1, FromTheFront
    <2> QED BY <2>2 DEF V, zero
  <1>4. \A i \in 1..m : i # 0 /\ i - 1 \in 0..m
    BY <1>1
  <1>5. \A i \in 1..m : f[i] = Step(i, f[i - 1])
    <2> HIDE DEF Step
    <2> QED BY <1>3, <1>4
  <1>6. value = [i \in 0..m |-> IF i = 0 THEN 0 ELSE Step(i, value[i - 1])]
    <2>1. \A i \in 0..m : i = 0 \/ i \in 1..m
      BY <1>1
    <2>2. \A i \in 0..m : f[i] = IF i = 0 THEN 0 ELSE Step(i, f[i - 1])
      <3> HIDE DEF Step
      <3> QED BY <1>3, <1>4, <1>5, <2>1
    <2>3. f = [i \in 0..m |-> IF i = 0 THEN 0 ELSE Step(i, f[i - 1])]
      <3> HIDE DEF Step
      <3> QED BY <2>2
    <2> QED BY <2>3, Zenon
  <1> HIDE DEF value, Step
  <1>7. value[0] = 0 /\ \A i \in 1..m : value[i] = Step(i, value[i - 1])
    <2>1. 0 \in 0..m /\ \A i \in 1..m : i \in 0..m /\ i # 0
      BY <1>1
    <2> QED BY <1>6, <2>1
  <1> DEFINE T == {i \in Nat : i <= m => value[i] \in Nat}
  <1>8. 0 \in T
    BY <1>7
  <1>9. ASSUME NEW i \in Nat, i \in T PROVE i + 1 \in T
    <2> SUFFICES ASSUME i + 1 <= m PROVE value[i + 1] \in Nat
      OBVIOUS
    <2>1. value[i] \in Nat /\ i + 1 \in 1..m /\ (i + 1) - 1 = i
      BY <1>1, <1>9
    <2>2. value[i + 1] = Step(i + 1, value[i])
      BY <1>7, <2>1
    <2> QED BY <1>2, <2>1, <2>2
  <1>10. Nat \subseteq T
    <2> HIDE DEF T
    <2> QED BY <1>8, <1>9, Upward
  <1>11. value[m] \in Nat
    BY <1>1, <1>10
  <1>12. ValueOf(s) = value[m]
    BY Zenon DEF ValueOf, value, m, Step
  <1> QED BY <1>11, <1>12

(* ... a run is not longer than what it is in, ...                              *)
LEMMA RunRange ==
  \A s \in Seq(Tokens) : /\ Run(s, TRUE) \in 0..Len(s) /\ Run(s, FALSE) \in 0..Len(s)
                         /\ Len(s) \in Nat
  <1> SUFFICES ASSUME NEW s \in Seq(Tokens)
               PROVE  Run(s, TRUE) \in 0..Len(s) /\ Run(s, FALSE) \in 0..Len(s) /\ Len(s) \in Nat
    OBVIOUS
  <1>1. TRUE \in BOOLEAN /\ FALSE \in BOOLEAN /\ Len(s) \in Nat
    OBVIOUS
  <1>2. Run(s, TRUE) \in 0..Len(s) /\ Run(s, FALSE) \in 0..Len(s)
    BY <1>1, RunFacts, Zenon
  <1> QED BY <1>1, <1>2

(* ... and so whatever is read is numbers.                                      *)
LEMMA ScanType == ASSUME NEW kind \in Kinds, NEW b \in Seq(Tokens) PROVE Scan(kind, b) \in Seq(Nat)
  <1>0. \A x, y \in Nat : <<>> \in Seq(Nat) /\ <<x>> \in Seq(Nat) /\ <<x>> \o <<y>> \in Seq(Nat)
    OBVIOUS
  <1>1. \A s \in Seq(Tokens) : Numbers(s) \in Seq(Nat)
    <2> SUFFICES ASSUME NEW s \in Seq(Tokens) PROVE Numbers(s) \in Seq(Nat)
      OBVIOUS
    <2> DEFINE first == Run(s, TRUE)
               tail == Rest(s, first + 1)
               second == Run(tail, TRUE)
               v == ValueOf(SubSeq(s, 1, first))
               w == ValueOf(SubSeq(tail, 1, second))
    <2>1. first \in 0..Len(s) /\ Len(s) \in Nat
      BY RunRange
    <2> HIDE DEF first
    <2>2. v \in Nat
      <3>1. SubSeq(s, 1, first) \in Seq(Tokens)
        BY <2>1
      <3> QED BY <3>1, ValueType
    <2>3. CASE first = 0 \/ first = Len(s)
      <3>1. Numbers(s) = <<>> \/ Numbers(s) = <<v>>
        BY <2>3 DEF Numbers, first
      <3> HIDE DEF v
      <3> QED BY <1>0, <2>2, <3>1, Zenon
    <2>4. CASE first # 0 /\ first # Len(s)
      <3>1. tail \in Seq(Tokens)
        <4>1. first + 1 \in 0..Len(s)
          BY <2>1, <2>4
        <4> QED BY <4>1, RestFacts
      <3> HIDE DEF tail
      <3>2. second \in 0..Len(tail) /\ Len(tail) \in Nat
        BY <3>1, RunRange
      <3> HIDE DEF second
      <3>3. w \in Nat
        <4>1. SubSeq(tail, 1, second) \in Seq(Tokens)
          BY <3>1, <3>2
        <4> QED BY <4>1, ValueType
      <3>4. Numbers(s) = <<>> \/ Numbers(s) = <<v>> \/ Numbers(s) = <<v>> \o <<w>>
        BY DEF Numbers, first, tail, second
      <3> HIDE DEF v, w
      <3> QED BY <1>0, <2>2, <3>3, <3>4, Zenon
    <2> QED BY <2>3, <2>4
  <1> DEFINE skip == IF kind = "cursor" THEN Run(b, FALSE)
                     ELSE IF IsPrefix(Opening(kind), b) THEN Len(Opening(kind)) ELSE 0
  <1>2. skip \in 0..Len(b)
    <2>1. Run(b, FALSE) \in 0..Len(b) /\ Len(b) \in Nat
      BY RunRange
    <2>2. ASSUME kind # "cursor", IsPrefix(Opening(kind), b) PROVE Len(Opening(kind)) \in 0..Len(b)
      BY <2>2, OpeningFacts DEF IsPrefix, Kinds
    <2>3. 0 \in 0..Len(b)
      BY <2>1
    <2> QED BY <2>1, <2>2, <2>3, Zenon
  <1> HIDE DEF skip
  <1>3. Scan(kind, b) = IF skip = 0 THEN <<>> ELSE Numbers(Rest(b, skip))
    BY Zenon DEF Scan, skip
  <1>4. Rest(b, skip) \in Seq(Tokens)
    BY <1>2, RestFacts
  <1>5. <<>> \in Seq(Nat)
    OBVIOUS
  <1> QED BY <1>1, <1>3, <1>4, <1>5

(* Two numbers that are read are those of a reply, but for a digit that a key   *)
(* or the end of the buffer cut off; undisturbed, they are those of the reply   *)
(* to this question.                                                            *)
HeardRight(b, values) ==
  /\ \E reply \in sent : /\ reply[1] = call.kind
                         /\ reply[2][1] = values[1]
                         /\ values[2] \in {reply[2][2], reply[2][2] \div Base}
  /\ ~trouble /\ Last(b) = End => values = call.truth /\ wire = <<>>

LEMMA ScanRight ==
  ASSUME Talk, ~numbers, call.step = "wait", NEW b, b = call.buffer \o queue, b # <<>>,
         NEW values, values = Scan(call.kind, b), Len(values) = 2
  PROVE  HeardRight(b, values)
  <1> SUFFICES /\ \E reply \in sent : /\ reply[1] = call.kind
                                      /\ reply[2][1] = values[1]
                                      /\ values[2] \in {reply[2][2], reply[2][2] \div Base}
               /\ ~trouble /\ Last(b) = End => values = call.truth /\ wire = <<>>
    BY Zenon DEF HeardRight
  <1>1. /\ b \in Seq(Tokens) /\ wire \in Seq(Tokens) /\ Stream = b \o wire /\ call.kind \in Kinds
        /\ sent \subseteq Kinds \X (Nat \X Nat)
    BY DEF Talk, Talking, Stream, Held
  <1>2. Stream \in Seq(Tokens) /\ Begins(b, Stream)
    <2>1. Joins(Stream, b, wire)
      BY <1>1, Join
    <2> QED BY <2>1 DEF Joins, Begins
  <1>3. values = <<values[1], values[2]>>
    BY PairScanned
  <1>4. CASE call.kind # "cursor"
    <2>1. call.kind \in {"cells", "pixels"}
      BY <1>1, <1>4 DEF Kinds
    <2>2. IsPrefix(Opening(call.kind), b)
      <3> SUFFICES ASSUME ~IsPrefix(Opening(call.kind), b) PROVE FALSE
        OBVIOUS
      <3>1. values = <<>>
        BY <1>4 DEF Scan
      <3> QED BY <3>1
    <2>3. b[1] = Csi /\ 1 \in 1..Len(b)
      <3>1. /\ Len(Opening(call.kind)) = 3 /\ Opening(call.kind)[1] = Csi
            /\ Opening(call.kind) \in Seq(Tokens)
        <4>1. \E d \in {4, 8} : Opening(call.kind) = <<Csi, Digit(d), Sep>>
          BY <2>1, OpeningFacts
        <4>2. Opening(call.kind) \in Seq(Tokens)
          BY <1>1, OpeningFacts
        <4> QED BY <4>1, <4>2
      <3> DEFINE o == Opening(call.kind)
      <3>2. 3 <= Len(b) /\ SubSeq(o, 1, 3) = SubSeq(b, 1, 3)
        BY <2>2, <3>1, Zenon DEF IsPrefix
      <3> HIDE DEF o
      <3>3. Len(b) \in Nat /\ SubSeq(b, 1, 3)[1] = b[1]
        BY <1>1, <3>2
      <3>4. SubSeq(o, 1, 3)[1] = o[1]
        BY <3>1 DEF o
      <3> QED BY <3>1, <3>2, <3>3, <3>4 DEF o
    <2>4. PICK r \in sent : Follows(Stream, 1, Reply(r[1], r[2]))
      <3>1. 1 \in 1..Len(Stream) /\ Stream[1] = Csi
        BY <1>2, <2>3 DEF Begins
      <3> QED BY <3>1 DEF Talk, Hearing, Spoken, Genuine
    <2>5. r[1] \in Kinds /\ r[2] \in Nat \X Nat
      BY <1>1, <2>4
    <2>6. Agrees(b, Reply(r[1], r[2]))
      <3>1. Reply(r[1], r[2]) \in Seq(Tokens)
        BY <2>5, ReplyFacts
      <3>2. Agrees(Rest(b, 1 - 1), Reply(r[1], r[2]))
        BY <1>1, <1>2, <2>3, <2>4, <3>1, FollowsAgrees
      <3>3. Rest(b, 1 - 1) = b
        <4>1. SubSeq(b, 1, Len(b)) = b
          BY <1>1, SubSeqFull
        <4> QED BY <4>1 DEF Rest
      <3> QED BY <3>2, <3>3
    <2>7. r[1] = call.kind /\ values[1] = r[2][1] /\ values[2] \in {r[2][2], r[2][2] \div Base}
      <3> DEFINE kind == call.kind
                 other == r[1]
                 v == r[2]
      <3>1. SizeReply(kind, b, other, v) /\ values = Scan(kind, b)
        BY <1>1, <2>1, <2>2, <2>5, <2>6 DEF SizeReply
      <3> HIDE DEF kind, other, v
      <3>2. other = kind /\ Answers(Scan(kind, b), v)
        BY <3>1, SizeScanned
      <3> QED BY <3>1, <3>2 DEF kind, other, v, Answers
    <2>8. ASSUME ~trouble, Last(b) = End PROVE values = call.truth /\ b = Stream
      <3>1. Stream # <<>>
        BY <1>1, <1>2 DEF Begins
      <3>2. call.truth \in Nat \X Nat /\ Stream = Reply(call.kind, call.truth)
        BY <2>8, <3>1 DEF Talk, Hearing, Untroubled
      <3>3. b = Reply(call.kind, call.truth)
        BY <1>1, <1>2, <2>8, <3>2, WholeReply
      <3>4. Agrees(b, Reply(call.kind, call.truth))
        BY <3>3 DEF Agrees
      <3>5. values[1] = call.truth[1] /\ values[2] = call.truth[2]
        <4>1. SizeReply(call.kind, b, call.kind, call.truth)
          BY <1>1, <2>1, <2>2, <3>2, <3>4 DEF SizeReply
        <4>2. values[2] = call.truth[2] /\ values[1] = call.truth[1]
          BY <3>3, <4>1, SizeScanned DEF Answers
        <4> QED BY <4>2
      <3>6. call.truth = <<call.truth[1], call.truth[2]>>
        BY <3>2
      <3> QED BY <1>3, <3>2, <3>3, <3>5, <3>6, Zenon
    <2>9. b = Stream => wire = <<>>
      BY <1>1
    <2> QED BY <2>4, <2>7, <2>8, <2>9
  <1>5. CASE call.kind = "cursor"
    <2>1. Heads(Stream, Body(call.truth))
      BY <1>5 DEF Talk, Hearing, Answering
    <2>2. \E i \in 1..Len(Stream) : FirstDigit(Stream, i)
      <3> SUFFICES ASSUME ~\E i \in 1..Len(Stream) : FirstDigit(Stream, i) PROVE FALSE
        OBVIOUS
      <3>1. \A i \in 1..Len(Stream) : FirstDigit(Stream, i) => Follows(Stream, i, Body(<<0, 0>>))
        OBVIOUS
      <3>2. <<0, 0>> \in Nat \X Nat
        OBVIOUS
      <3> DEFINE v == <<0, 0>>
      <3> HIDE DEF v
      <3>3. \E i \in 1..Len(b) : FirstDigit(Stream, i)
        <4>1. v \in Nat \X Nat /\ \A i \in 1..Len(Stream) : FirstDigit(Stream, i) => Follows(Stream, i, Body(v))
          BY <3>1, <3>2 DEF v
        <4>2. Len(Scan("cursor", b)) = 2
          BY <1>5
        <4> QED BY <1>1, <1>2, <4>1, <4>2, CursorScanned
      <3>4. \A i \in 1..Len(b) : i \in 1..Len(Stream)
        BY <1>1, <1>2 DEF Begins
      <3> QED BY <3>3, <3>4
    <2>3. <<"cursor", call.truth>> \in sent /\ call.truth \in Nat \X Nat
      <3>1. <<"cursor", call.truth>> \in sent
        BY <1>5, <2>2 DEF Talk, Hearing, Answering
      <3> QED BY <1>1, <3>1
    <2> DEFINE truth == call.truth
    <2>4. /\ values[1] = truth[1] /\ values[2] \in {truth[2], truth[2] \div Base}
          /\ b = Reply("cursor", truth) => values[2] = truth[2]
      <3> HIDE DEF truth
      <3>1. truth \in Nat \X Nat /\ \A i \in 1..Len(Stream) : FirstDigit(Stream, i) => Follows(Stream, i, Body(truth))
        BY <2>1, <2>3 DEF truth, Heads
      <3>2. Len(Scan("cursor", b)) = 2 /\ values = Scan("cursor", b)
        BY <1>5
      <3> DEFINE st == Stream
      <3>3. st \in Seq(Tokens) /\ Begins(b, st) /\ b \in Seq(Tokens)
        BY <1>1, <1>2
      <3>4. \A i \in 1..Len(st) : FirstDigit(st, i) => Follows(st, i, Body(truth))
        BY <3>1
      <3> HIDE DEF st
      <3>5. /\ Scan("cursor", b)[1] = truth[1] /\ Scan("cursor", b)[2] \in {truth[2], truth[2] \div Base}
            /\ b = Reply("cursor", truth) => Scan("cursor", b)[2] = truth[2]
        BY <3>1, <3>2, <3>3, <3>4, CursorScanned
      <3> QED BY <3>2, <3>5
    <2>5. ASSUME ~trouble, Last(b) = End PROVE values = truth /\ b = Stream
      <3>1. Stream # <<>>
        BY <1>1, <1>2 DEF Begins
      <3>2. truth \in Nat \X Nat /\ Stream = Reply(call.kind, truth)
        BY <2>5, <3>1 DEF Talk, Hearing, Untroubled
      <3>3. b = Reply(call.kind, truth)
        BY <1>1, <1>2, <2>5, <3>2, WholeReply
      <3>4. values[2] = truth[2]
        BY <1>5, <2>4, <3>3
      <3>5. truth = <<truth[1], truth[2]>>
        BY <3>2
      <3> QED BY <1>3, <2>4, <3>2, <3>3, <3>4, <3>5, Zenon
    <2>6. b = Stream => wire = <<>>
      BY <1>1
    <2>7. \E reply \in sent : /\ reply[1] = call.kind
                              /\ reply[2][1] = values[1]
                              /\ values[2] \in {reply[2][2], reply[2][2] \div Base}
      <3> DEFINE reply == <<"cursor", truth>>
      <3>1. reply[1] = "cursor" /\ reply[2] = truth /\ reply \in sent
        BY <2>3
      <3> HIDE DEF reply, truth
      <3> QED BY <1>5, <2>4, <3>1
    <2> QED BY <2>5, <2>6, <2>7
  <1> QED BY <1>4, <1>5

(* A text of which nothing is new.                                              *)
LEMMA SameHearing ==
  ASSUME Hearing, Stream' = Stream, UNCHANGED <<sent, trouble>>,
         call'.kind = call.kind, call'.truth = call.truth,
         call'.step = call.step \/ (call.step \in Setup /\ call'.step \in Setup)
  PROVE  Hearing'
  <1>1. Fresh' /\ Spoken'
    BY DEF Hearing, Fresh, Spoken
  <1>2. First' /\ Answering'
    <2>1. call'.step = "wait" <=> call.step = "wait"
      <3>1. "wait" \notin Setup
        BY DEF Setup
      <3> QED BY <3>1, Zenon
    <2>2. call'.step \in Setup <=> call.step \in Setup
      OBVIOUS
    <2> QED BY <2>1, <2>2 DEF Hearing, First, Answering
  <1>3. Untroubled'
    <2>1. call'.step = "wait" <=> call.step = "wait"
      <3>1. "wait" \notin Setup
        BY DEF Setup
      <3> QED BY <3>1, Zenon
    <2> QED BY <2>1 DEF Hearing, Untroubled
  <1> QED BY <1>1, <1>2, <1>3 DEF Hearing

(* What remains of it when its beginning was read or thrown away.               *)
LEMMA DroppedHearing ==
  ASSUME Talking, Talking', Hearing, NEW n, Drops(Stream, Stream', n), UNCHANGED sent,
         call'.step # "wait", First',
         ~trouble' => Stream' = <<>>
  PROVE  Hearing'
  <1>1. Stream \in Seq(Tokens) /\ Stream' \in Seq(Tokens)
    <2>1. Stream \in Seq(Tokens)
      BY StreamType
    <2>2. Held' \in Seq(Tokens) /\ queue' \in Seq(Tokens) /\ wire' \in Seq(Tokens)
      BY DEF Held, Talking
    <2>3. Stream' \in Seq(Tokens)
      BY <2>2 DEF Stream
    <2> QED BY <2>1, <2>3
  <1>2. sent \in SUBSET (Kinds \X (Nat \X Nat))
    BY DEF Talking
  <1>3. (Genuine(Stream, sent) => Genuine(Stream', sent)) /\ (OnlyKeys(Stream) => OnlyKeys(Stream'))
    <2> DEFINE s == Stream
               t == Stream'
    <2> HIDE DEF s, t
    <2>1. s \in Seq(Tokens) /\ t \in Seq(Tokens) /\ Drops(s, t, n)
      BY <1>1 DEF s, t
    <2>2. (Genuine(s, sent) => Genuine(t, sent)) /\ (OnlyKeys(s) => OnlyKeys(t))
      BY <1>2, <2>1, DropsGenuine
    <2> QED BY <2>2 DEF s, t
  <1>4. Fresh' /\ Spoken'
    BY <1>3 DEF Hearing, Fresh, Spoken
  <1>5. Answering' /\ Untroubled'
    BY DEF Answering, Untroubled
  <1> QED BY <1>4, <1>5 DEF Hearing

(* Nothing is dropped, ...                                                      *)
LEMMA NoDrop == ASSUME NEW s \in Seq(Tokens) PROVE Drops(s, s, 0)
  BY DEF Drops

(* ... or a front is.                                                           *)
LEMMA TailDrops ==
  ASSUME NEW a \in Seq(Tokens), NEW b \in Seq(Tokens)
  PROVE  Drops(a \o b, b, Len(a))
  <1>1. Joins(a \o b, a, b)
    BY Join
  <1> QED BY <1>1 DEF Joins, Drops

(* The steps of a question, and what comes in meanwhile, keep all that is said  *)
(* of the stream: a question is asked, ...                                      *)
LEMMA AskTalk ==
  ASSUME Talk, NEW kind \in Kinds, Ask(kind), kind = "cursor" => sent = {}
  PROVE  Talk'
  <1>1. /\ call'.kind = kind /\ call'.step \in {"open", "write"} /\ call'.buffer = <<>>
        /\ call'.values = <<>> /\ {"kind", "step", "buffer", "truth", "values"} \subseteq DOMAIN call'
        /\ UNCHANGED <<queue, wire, sent, trouble, numbers>> /\ call.step \in {"idle", "done"}
    BY DEF Ask, Idle
  <1>2. Talking'
    <2>1. <<>> \in Seq(Tokens) /\ <<>> \in Seq(Nat)
      OBVIOUS
    <2> QED BY <1>1, <2>1 DEF Talk, Talking, Setup
  <1>3. Stream' = Stream
    <2>1. Held = <<>> /\ Held' = <<>>
      BY <1>1 DEF Held
    <2> QED BY <1>1, <2>1 DEF Stream
  <1>4. AnswersRight'
    BY <1>1 DEF AnswersRight
  <1> SUFFICES ASSUME ~numbers PROVE Hearing'
    BY <1>1, <1>2, <1>4 DEF Talk
  <1>5. First' /\ (~trouble' => Stream' = <<>>)
    BY <1>1, <1>3 DEF Talk, Hearing, First, Untroubled
  <1>6. Drops(Stream, Stream', 0)
    BY <1>3, StreamType, NoDrop DEF Talk
  <1> QED BY <1>1, <1>2, <1>5, <1>6, DroppedHearing DEF Talk

(* ... the terminal is opened and its modes are changed, which may discard what *)
(* came in, ...                                                                 *)
LEMMA SetupTalk ==
  ASSUME Talk, Open \/ GetAttributes \/ SetAttributes \/ Register
  PROVE  Talk'
  <1>1. /\ call.step \in Setup /\ UNCHANGED <<wire, sent, numbers>> /\ queue' \in {queue, <<>>}
        /\ \/ call'.step \in Setup /\ UNCHANGED trouble /\ call'.values = call.values
           \/ call'.step = "done" /\ trouble' = TRUE /\ call'.values = <<>> /\ UNCHANGED queue
        /\ call'.kind = call.kind /\ call'.truth = call.truth /\ call'.buffer = call.buffer
        /\ DOMAIN call' = DOMAIN call
    <2>1. CASE Open
      BY <2>1 DEF Open, Fails, Goes, Setup, Talk, Talking
    <2>2. CASE GetAttributes
      BY <2>2 DEF GetAttributes, Fails, Goes, Setup, Talk, Talking
    <2>3. CASE SetAttributes
      BY <2>3 DEF SetAttributes, Fails, Goes, Setup, Talk, Talking
    <2>4. CASE Register
      BY <2>4 DEF Register, Fails, Goes, Setup, Talk, Talking
    <2> QED BY <2>1, <2>2, <2>3, <2>4
  <1>2. Talking'
    <2>1. <<>> \in Seq(Tokens) /\ <<>> \in Seq(Nat) /\ "done" \notin Setup /\ "idle" \notin Setup
      BY DEF Setup
    <2>2. queue' \in Seq(Tokens) /\ wire' \in Seq(Tokens) /\ call'.buffer \in Seq(Tokens)
      BY <1>1, <2>1 DEF Talk, Talking
    <2>3. /\ call.buffer = <<>> /\ call.values = <<>> /\ call.kind \in Kinds
          /\ {"kind", "step", "buffer", "truth", "values"} \subseteq DOMAIN call
          /\ sent \subseteq Kinds \X (Nat \X Nat)
      BY <1>1, <2>1 DEF Talk, Talking
    <2>4. call'.step \in {"idle", "wait", "done"} \union Setup
      BY <1>1
    <2> QED BY <1>1, <2>1, <2>2, <2>3, <2>4 DEF Talking
  <1>3. AnswersRight'
    <2>1. "done" \notin Setup
      BY DEF Setup
    <2> QED BY <1>1, <2>1 DEF AnswersRight
  <1> SUFFICES ASSUME ~numbers PROVE Hearing'
    BY <1>1, <1>2, <1>3 DEF Talk
  <1>4. Held = <<>> /\ Held' = <<>> /\ call.step # "wait" /\ call'.step # "wait"
    BY <1>1 DEF Held, Setup
  <1>5. Stream = queue \o wire /\ Stream' = queue' \o wire /\ queue \in Seq(Tokens) /\ wire \in Seq(Tokens)
    <2>1. queue \in Seq(Tokens) /\ queue' \in Seq(Tokens) /\ wire \in Seq(Tokens)
      BY <1>2 DEF Talk, Talking
    <2> QED BY <1>1, <1>4, <2>1, EmptySides DEF Stream
  <1>6. \E n : Drops(Stream, Stream', n)
    <2>1. CASE queue' = queue
      <3>1. Stream' = Stream
        BY <1>5, <2>1
      <3> QED BY <3>1, StreamType, NoDrop DEF Talk
    <2>2. CASE queue' = <<>>
      <3>1. Stream' = wire
        BY <1>5, <2>2, EmptySides
      <3> QED BY <1>5, <3>1, TailDrops
    <2> QED BY <1>1, <2>1, <2>2
  <1>7. First'
    BY <1>1 DEF Talk, Hearing, First, Setup
  <1>8. ~trouble' => Stream' = <<>>
    <2> SUFFICES ASSUME ~trouble' PROVE Stream' = <<>>
      OBVIOUS
    <2>1. ~trouble
      BY <1>1
    <2>2. Stream = <<>>
      BY <1>4, <2>1 DEF Talk, Hearing, Untroubled
    <2>3. queue = <<>> /\ wire = <<>>
      <3>1. \A a, b \in Seq(Tokens) : a \o b = <<>> => a = <<>> /\ b = <<>>
        BY ConcatSimplifications!concIsEmpty
      <3> QED BY <1>5, <2>2, <3>1
    <2> QED BY <1>1, <1>5, <2>3
  <1>9. PICK n : Drops(Stream, Stream', n)
    BY <1>6
  <1>10. UNCHANGED sent
    BY <1>1
  <1> QED BY <1>2, <1>4, <1>7, <1>8, <1>9, <1>10, DroppedHearing DEF Talk

(* ... the request is written, and answered or not, ...                         *)
LEMMA WriteTalk ==
  ASSUME Talk, NEW v, Write(v)
  PROVE  Talk'
  <1>1. /\ call.step = "write" /\ call'.step = "wait" /\ call'.truth = v
        /\ call'.kind = call.kind /\ call'.buffer = call.buffer /\ call'.values = call.values
        /\ DOMAIN call' = DOMAIN call
        /\ UNCHANGED <<queue, trouble, numbers>>
    BY DEF Write, Talk, Talking
  <1>2. "write" \in Setup
    BY DEF Setup
  <1>3. /\ call.buffer = <<>> /\ call.values = <<>> /\ call.kind \in Kinds
        /\ queue \in Seq(Tokens) /\ wire \in Seq(Tokens) /\ sent \subseteq Kinds \X (Nat \X Nat)
        /\ {"kind", "step", "buffer", "truth", "values"} \subseteq DOMAIN call
    BY <1>1, <1>2 DEF Talk, Talking
  <1>4. Held = <<>> /\ Held' = <<>>
    BY <1>1, <1>3 DEF Held
  <1>5. AnswersRight'
    BY <1>1 DEF AnswersRight
  <1>9. <<>> \in Seq(Tokens) /\ <<>> \in Seq(Nat)
    OBVIOUS
  <1>12. Talking'
    <2>1. CASE UNCHANGED <<wire, sent>>
      BY <1>1, <1>3, <1>9, <2>1 DEF Talking
    <2>2. CASE /\ v \in Nat \X Nat
               /\ wire' = wire \o Reply(call.kind, v)
               /\ sent' = sent \union {<<call.kind, v>>}
      <3>1. wire' \in Seq(Tokens)
        BY <1>3, <2>2, ReplyFacts
      <3>2. sent' \subseteq Kinds \X (Nat \X Nat)
        BY <1>3, <2>2
      <3> QED BY <1>1, <1>3, <1>9, <3>1, <3>2 DEF Talking
    <2> QED BY <2>1, <2>2 DEF Write
  <1> SUFFICES ASSUME ~numbers PROVE Hearing'
    BY <1>1, <1>5, <1>12 DEF Talk
  <1>6. First'
    <2>1. "wait" \notin Setup
      BY DEF Setup
    <2> QED BY <1>1, <2>1 DEF First
  <1>7. ~trouble => Stream = <<>>
    BY <1>1 DEF Talk, Hearing, Untroubled
  <1>8. call.kind = "cursor" => sent = {} /\ OnlyKeys(Stream)
    BY <1>1, <1>2 DEF Talk, Hearing, First, Fresh
  <1>10. CASE UNCHANGED <<wire, sent>>
    <2>2. Stream' = Stream
      BY <1>1, <1>4, <1>10 DEF Stream
    <2>3. Fresh' /\ Spoken'
      BY <1>10, <2>2 DEF Talk, Hearing, Fresh, Spoken
    <2>4. Answering'
      <3> SUFFICES ASSUME call.kind = "cursor"
                   PROVE  \A i \in 1..Len(Stream) : ~FirstDigit(Stream, i)
        BY <1>1, <2>2 DEF Answering, Heads
      <3> QED BY <1>8, TokenKinds DEF OnlyKeys, FirstDigit
    <2>5. Untroubled'
      BY <1>1, <1>7, <2>2 DEF Untroubled
    <2> QED BY <1>6, <2>3, <2>4, <2>5 DEF Hearing
  <1>11. CASE /\ v \in Nat \X Nat
              /\ wire' = wire \o Reply(call.kind, v)
              /\ sent' = sent \union {<<call.kind, v>>}
    <2> DEFINE w == Reply(call.kind, v)
               kind == call.kind
    <2>1. w \in Seq(Tokens) /\ wire' = wire \o w
      BY <1>3, <1>11, ReplyFacts
    <2> HIDE DEF w
    <2>5. Stream' = Stream \o w /\ Stream \in Seq(Tokens)
      <3>1. Stream = queue \o wire /\ Stream' = queue \o (wire \o w)
        BY <1>1, <1>3, <1>4, <2>1, EmptySides DEF Stream
      <3>2. (queue \o wire) \o w = queue \o (wire \o w)
        BY <1>3, <2>1, ConcatAssociative
      <3>3. queue \o wire \in Seq(Tokens)
        BY <1>3
      <3> QED BY <3>1, <3>2, <3>3
    <2> DEFINE s == Stream
               t == Stream'
    <2>6. /\ Genuine(s, sent) => Genuine(t, sent \union {<<kind, v>>})
          /\ OnlyKeys(s) /\ kind = "cursor" => Heads(t, Body(v))
      <3>1. s \in Seq(Tokens) /\ kind \in Kinds /\ v \in Nat \X Nat /\ t = s \o Reply(kind, v)
            /\ sent \in SUBSET (Kinds \X (Nat \X Nat))
        BY <1>3, <1>11, <2>5 DEF w
      <3> HIDE DEF s, t, kind
      <3> QED BY <3>1, Replied
    <2>7. Spoken'
      BY <1>11, <2>6 DEF Talk, Hearing, Spoken
    <2>8. Fresh'
      BY <1>11 DEF Fresh
    <2>9. Answering'
      <3>1. <<call.kind, v>> \in sent'
        BY <1>11
      <3> QED BY <1>1, <1>8, <2>6, <3>1 DEF Answering
    <2>10. Untroubled'
      <3> SUFFICES ASSUME ~trouble' PROVE Stream' = Reply(call'.kind, call'.truth) /\ call'.truth \in Nat \X Nat
        BY <1>1 DEF Untroubled
      <3>1. Stream' = w
        BY <1>1, <1>7, <2>1, <2>5, EmptySides
      <3> QED BY <1>1, <1>11, <3>1 DEF w
    <2> QED BY <1>6, <2>7, <2>8, <2>9, <2>10 DEF Hearing
  <1> QED BY <1>10, <1>11 DEF Write

(* ... what came in is read and scanned, ...                                    *)
LEMMA ReadTalk ==
  ASSUME Talk, Read
  PROVE  Talk'
  <1> DEFINE b == call.buffer \o queue
             values == Scan(call.kind, b)
  <1>1. /\ call.step = "wait" /\ queue # <<>> /\ queue' = <<>> /\ UNCHANGED <<wire, sent, numbers>>
    BY DEF Read, Readable
  <1>2. /\ call.buffer \in Seq(Tokens) /\ queue \in Seq(Tokens) /\ wire \in Seq(Tokens)
        /\ call.kind \in Kinds /\ sent \subseteq Kinds \X (Nat \X Nat)
        /\ {"kind", "step", "buffer", "truth", "values"} \subseteq DOMAIN call
        /\ call.values \in Seq(Nat)
    BY <1>1 DEF Talk, Talking
  <1>3. b \in Seq(Tokens) /\ b # <<>> /\ Stream = b \o wire
    <2>1. b \in Seq(Tokens)
      BY <1>2
    <2>2. b # <<>>
      BY <1>1, <1>2, ConcatSimplifications!concIsEmpty
    <2> QED BY <1>1, <2>1, <2>2 DEF Stream, Held
  <1>4. Len(values) = 0 \/ Len(values) = 1 \/ Len(values) = 2
    BY ScanLength
  <1>5. <<>> \in Seq(Tokens) /\ <<>> \in Seq(Nat) /\ "done" \notin Setup /\ "wait" \notin Setup
    BY DEF Setup
  <1>6. ASSUME call'.step = "done" PROVE Drops(Stream, Stream', Len(b)) /\ Stream' = wire
    <2>1. Held' = <<>> /\ <<>> \o <<>> = <<>>
      BY <1>6 DEF Held
    <2>2. Stream' = wire
      BY <1>1, <1>2, <2>1, EmptySides DEF Stream
    <2> HIDE DEF b
    <2> QED BY <1>2, <1>3, <2>2, TailDrops
  <1> HIDE DEF b
  <1>7. CASE Len(values) = 0
    <2>1. /\ call'.step = "done" /\ call'.values = <<>> /\ trouble' = TRUE
          /\ call'.kind = call.kind /\ call'.buffer = call.buffer /\ DOMAIN call' = DOMAIN call
      <3>1. Fails
        BY <1>7 DEF Read, b
      <3> QED BY <1>2, <3>1 DEF Fails
    <2>2. Talking'
      BY <1>1, <1>2, <1>5, <2>1 DEF Talking
    <2>3. AnswersRight' /\ First'
      BY <1>5, <2>1 DEF AnswersRight, First
    <2>4. ~numbers => Hearing'
      BY <1>1, <1>6, <2>1, <2>2, <2>3, DroppedHearing DEF Talk
    <2> QED BY <1>1, <2>2, <2>3, <2>4 DEF Talk
  <1>8. CASE Len(values) = 1
    <2>1. /\ call'.step = "wait" /\ call'.values = call.values /\ UNCHANGED trouble
          /\ call'.kind = call.kind /\ call'.buffer = b /\ call'.truth = call.truth
          /\ DOMAIN call' = DOMAIN call
      BY <1>1, <1>2, <1>8 DEF Read, b
    <2>2. Talking'
      BY <1>1, <1>2, <1>3, <1>5, <2>1 DEF Talking
    <2>3. AnswersRight'
      BY <2>1 DEF AnswersRight
    <2>4. Stream' = Stream
      <3>1. Held' = b
        BY <2>1 DEF Held
      <3> QED BY <1>1, <1>3, <3>1, EmptySides DEF Stream
    <2>5. ~numbers => Hearing'
      BY <1>1, <2>1, <2>4, SameHearing DEF Talk
    <2> QED BY <1>1, <2>2, <2>3, <2>5 DEF Talk
  <1>9. CASE Len(values) = 2
    <2>1. /\ call'.step = "done" /\ call'.values = values /\ trouble' = (trouble \/ Last(b) # End)
          /\ call'.kind = call.kind /\ call'.buffer = b /\ call'.truth = call.truth
          /\ DOMAIN call' = DOMAIN call
      <3>1. /\ call' = [call EXCEPT !.step = "done", !.buffer = b, !.values = values]
            /\ trouble' = (trouble \/ Last(b) # End)
        BY <1>9 DEF Read, b
      <3> HIDE DEF values
      <3> QED BY <1>1, <1>2, <3>1
    <2>2. Talking'
      <3>1. values \in Seq(Nat)
        BY <1>2, <1>3, ScanType
      <3> HIDE DEF values
      <3> QED BY <1>1, <1>2, <1>3, <1>5, <2>1, <3>1 DEF Talking
    <2>3. ASSUME ~numbers
          PROVE
          /\ \E reply \in sent : /\ reply[1] = call.kind
                                 /\ reply[2][1] = values[1]
                                 /\ values[2] \in {reply[2][2], reply[2][2] \div Base}
          /\ ~trouble /\ Last(b) = End => values = call.truth /\ wire = <<>>
      <3>1. b = call.buffer \o queue
        BY DEF b
      <3> HIDE DEF values
      <3>2. values = Scan(call.kind, b)
        BY DEF values
      <3>3. Talk /\ call.step = "wait" /\ b # <<>> /\ Len(values) = 2
        BY <1>1, <1>3, <1>9, Zenon
      <3>4. HeardRight(b, values)
        BY <2>3, <3>1, <3>2, <3>3, ScanRight, Zenon
      <3> QED BY <3>4, Zenon DEF HeardRight
    <2> HIDE DEF values
    <2>4. AnswersRight'
      <3>1. CASE trouble' /\ ~numbers
        BY <1>1, <2>1, <2>3, <3>1 DEF AnswersRight
      <3>2. CASE ~trouble' /\ ~numbers
        BY <2>1, <2>3, <3>2 DEF AnswersRight
      <3>3. CASE numbers
        BY <1>1, <3>3 DEF AnswersRight
      <3> QED BY <3>1, <3>2, <3>3
    <2>5. First'
      BY <1>5, <2>1 DEF First
    <2>6. ~trouble' /\ ~numbers => Stream' = <<>>
      BY <1>6, <2>1, <2>3
    <2>7. ~numbers => Hearing'
      BY <1>1, <1>6, <2>1, <2>2, <2>5, <2>6, DroppedHearing DEF Talk
    <2> QED BY <1>1, <2>2, <2>4, <2>7 DEF Talk
  <1> QED BY <1>4, <1>7, <1>8, <1>9

(* ... nothing comes in, for too long, ...                                      *)
LEMMA TimeoutTalk ==
  ASSUME Talk, Timeout
  PROVE  Talk'
  <1>1. /\ call.step = "wait" /\ UNCHANGED <<queue, wire, sent, numbers>>
        /\ call'.step = "done" /\ call'.values = <<>> /\ trouble' = TRUE
        /\ call'.kind = call.kind /\ call'.buffer = call.buffer /\ DOMAIN call' = DOMAIN call
    BY DEF Timeout, Fails, Talk, Talking
  <1>2. /\ call.buffer \in Seq(Tokens) /\ queue \in Seq(Tokens) /\ wire \in Seq(Tokens)
    BY DEF Talk, Talking
  <1>3. "done" \notin Setup /\ <<>> \in Seq(Nat)
    BY DEF Setup
  <1>4. Talking'
    BY <1>1, <1>3 DEF Talk, Talking
  <1>5. AnswersRight' /\ First'
    BY <1>1, <1>3 DEF AnswersRight, First
  <1>6. Stream = (call.buffer \o queue) \o wire /\ Stream' = queue \o wire
    <2>1. Held = call.buffer /\ Held' = <<>>
      BY <1>1 DEF Held
    <2> QED BY <1>1, <1>2, <2>1, EmptySides DEF Stream
  <1>7. Stream = call.buffer \o (queue \o wire) /\ queue \o wire \in Seq(Tokens)
    <2> DEFINE a == call.buffer
    <2>1. a \in Seq(Tokens) /\ Stream = (a \o queue) \o wire
      BY <1>2, <1>6
    <2> HIDE DEF a
    <2>2. Stream = a \o (queue \o wire)
      BY <1>2, <2>1, ConcatAssociative
    <2> QED BY <1>2, <2>2 DEF a
  <1>8. Drops(Stream, Stream', Len(call.buffer))
    BY <1>2, <1>6, <1>7, TailDrops
  <1>9. ~numbers => Hearing'
    BY <1>1, <1>4, <1>5, <1>8, DroppedHearing DEF Talk
  <1> QED BY <1>1, <1>4, <1>5, <1>9 DEF Talk

(* ... more comes in, ...                                                       *)
LEMMA DeliverTalk ==
  ASSUME Talk, Deliver
  PROVE  Talk'
  <1>1. PICK n \in 1..Len(wire) : queue' = queue \o SubSeq(wire, 1, n) /\ wire' = Rest(wire, n)
    BY DEF Deliver
  <1>2. UNCHANGED <<call, sent, trouble, numbers>>
    BY DEF Deliver
  <1>3. Held \in Seq(Tokens) /\ queue \in Seq(Tokens) /\ wire \in Seq(Tokens)
    BY StreamType DEF Talk, Talking
  <1> DEFINE a == SubSeq(wire, 1, n)
             z == Rest(wire, n)
  <1>4. a \in Seq(Tokens) /\ z \in Seq(Tokens) /\ a \o z = wire
    <2>1. Len(wire) \in Nat /\ n \in 1..Len(wire)
      BY <1>3
    <2>2. z \in Seq(Tokens)
      BY <1>3, <2>1, RestFacts
    <2>3. a \in Seq(Tokens)
      BY <1>3, <2>1
    <2>4. a \o z = SubSeq(wire, 1, Len(wire))
      <3>1. 1 \in 1..Len(wire) + 1 /\ n \in 1 - 1..Len(wire) /\ Len(wire) \in n..Len(wire)
        BY <2>1
      <3> QED BY <1>3, <3>1, ConcatAdjacentSubSeq DEF Rest
    <2>5. SubSeq(wire, 1, Len(wire)) = wire
      BY <1>3, SubSeqFull
    <2> QED BY <2>2, <2>3, <2>4, <2>5
  <1> HIDE DEF a, z
  <1>5. queue' = queue \o a /\ wire' = z
    BY <1>1 DEF a, z
  <1>6. Talking'
    <2>1. queue' \in Seq(Tokens) /\ wire' \in Seq(Tokens)
      BY <1>3, <1>4, <1>5
    <2> QED BY <1>2, <2>1 DEF Talk, Talking
  <1>7. Stream' = Stream
    <2>1. Held' = Held
      BY <1>2 DEF Held
    <2> DEFINE h == Held
    <2> HIDE DEF h
    <2>2. h \in Seq(Tokens)
      BY <1>3 DEF h
    <2>3. (h \o (queue \o a)) \o z = (h \o queue) \o (a \o z)
      <3>1. h \o (queue \o a) = (h \o queue) \o a
        BY <1>3, <1>4, <2>2, Regroup
      <3>2. h \o queue \in Seq(Tokens)
        BY <1>3, <2>2
      <3>3. ((h \o queue) \o a) \o z = (h \o queue) \o (a \o z)
        BY <1>4, <3>2, Regroup
      <3> QED BY <3>1, <3>3
    <2> QED BY <1>4, <1>5, <2>1, <2>3 DEF Stream, h
  <1>8. AnswersRight'
    BY <1>2 DEF Talk, AnswersRight
  <1>9. ~numbers => Hearing'
    BY <1>2, <1>7, SameHearing DEF Talk
  <1> QED BY <1>2, <1>6, <1>8, <1>9 DEF Talk

(* ... or a key is typed.                                                       *)
LEMMA TypeTalk ==
  ASSUME Talk, Type
  PROVE  Talk'
  <1>0. /\ \/ queue' = Append(queue, Key) /\ UNCHANGED numbers
           \/ numbers' = TRUE /\ \E key \in Seq(Tokens) : queue' = queue \o key
        /\ trouble' = TRUE /\ UNCHANGED <<call, wire, sent>>
    BY KeysAssumption DEF Type
  <1>2. Held \in Seq(Tokens) /\ queue \in Seq(Tokens) /\ wire \in Seq(Tokens) /\ Key \in Tokens
    BY StreamType DEF Talk, Talking, Key, Tokens
  <1>3. queue' \in Seq(Tokens)
    <2>1. Append(queue, Key) \in Seq(Tokens)
      BY <1>2
    <2>2. \A key \in Seq(Tokens) : queue \o key \in Seq(Tokens)
      BY <1>2
    <2> QED BY <1>0, <2>1, <2>2, Zenon
  <1>4. Talking'
    BY <1>0, <1>3 DEF Talk, Talking
  <1>5. AnswersRight'
    BY <1>0 DEF Talk, AnswersRight
  <1> SUFFICES ASSUME ~numbers' PROVE Hearing'
    BY <1>4, <1>5 DEF Talk
  <1>1. /\ queue' = Append(queue, Key) /\ trouble' = TRUE /\ UNCHANGED <<call, wire, sent>>
        /\ ~numbers
    BY <1>0
  <1> DEFINE p == Len(Held \o queue)
  <1>6. Inserts(Stream, Stream', p) /\ Stream \in Seq(Tokens) /\ Stream' \in Seq(Tokens)
    <2> DEFINE h == Held
               a == h \o queue
               k == Append(queue, Key)
               c == h \o k
               s == a \o wire
               t == c \o wire
    <2>1. Stream = s /\ Stream' = t
      <3>1. Held' = Held
        BY <1>1 DEF Held
      <3> QED BY <1>1, <3>1 DEF Stream
    <2>2. h \in Seq(Tokens)
      BY <1>2
    <2> HIDE DEF h
    <2>3. /\ k \in Seq(Tokens) /\ Len(k) = Len(queue) + 1 /\ k[Len(queue) + 1] = Key
          /\ \A i \in 1..Len(queue) : k[i] = queue[i]
      BY <1>2
    <2> HIDE DEF k
    <2>4. Joins(a, h, queue) /\ Joins(c, h, k)
      BY <1>2, <2>2, <2>3, Join
    <2>5. a \in Seq(Tokens) /\ c \in Seq(Tokens)
      BY <2>4 DEF Joins
    <2> HIDE DEF a, c
    <2>6. Joins(s, a, wire) /\ Joins(t, c, wire)
      BY <1>2, <2>5, Join
    <2> HIDE DEF s, t
    <2>7. /\ Len(a) \in Nat /\ Len(c) = Len(a) + 1 /\ c[Len(a) + 1] = Key
          /\ \A i \in 1..Len(a) : c[i] = a[i]
      <3>1. /\ Len(h) \in Nat /\ Len(queue) \in Nat /\ Len(a) = Len(h) + Len(queue)
            /\ Len(c) = Len(h) + Len(k)
            /\ \A i \in 1..Len(h) : a[i] = h[i] /\ c[i] = h[i]
            /\ \A i \in 1..Len(queue) : a[Len(h) + i] = queue[i]
            /\ \A i \in 1..Len(k) : c[Len(h) + i] = k[i]
        BY <2>4 DEF Joins
      <3>2. Len(c) = Len(a) + 1 /\ Len(a) \in Nat
        BY <2>3, <3>1
      <3>3. c[Len(a) + 1] = Key
        <4>1. Len(queue) + 1 \in 1..Len(k) /\ Len(h) + (Len(queue) + 1) = Len(a) + 1
          BY <2>3, <3>1
        <4>2. c[Len(h) + (Len(queue) + 1)] = k[Len(queue) + 1]
          BY <3>1, <4>1, Zenon
        <4> QED BY <2>3, <4>1, <4>2
      <3>4. ASSUME NEW i \in 1..Len(a) PROVE c[i] = a[i]
        <4>1. CASE i <= Len(h)
          <5>1. i \in 1..Len(h)
            BY <3>1, <4>1
          <5> QED BY <3>1, <5>1
        <4>2. CASE i > Len(h)
          <5>1. /\ i - Len(h) \in 1..Len(queue) /\ i - Len(h) \in 1..Len(k)
                /\ Len(h) + (i - Len(h)) = i
            BY <2>3, <3>1, <4>2
          <5>2. a[Len(h) + (i - Len(h))] = queue[i - Len(h)] /\ c[Len(h) + (i - Len(h))] = k[i - Len(h)]
            BY <3>1, <5>1, Zenon
          <5>3. k[i - Len(h)] = queue[i - Len(h)]
            BY <2>3, <5>1, Zenon
          <5> QED BY <5>1, <5>2, <5>3
        <4> QED BY <3>1, <4>1, <4>2
      <3> QED BY <3>2, <3>3, <3>4
    <2>8. /\ Len(wire) \in Nat /\ Len(s) = Len(a) + Len(wire) /\ Len(t) = Len(c) + Len(wire)
          /\ \A i \in 1..Len(a) : s[i] = a[i]
          /\ \A i \in 1..Len(c) : t[i] = c[i]
          /\ \A i \in 1..Len(wire) : s[Len(a) + i] = wire[i] /\ t[Len(c) + i] = wire[i]
      BY <2>6 DEF Joins
    <2>9. Inserts(s, t, Len(a))
      <3>1. Len(a) \in 0..Len(s) /\ Len(t) = Len(s) + 1
        BY <2>7, <2>8
      <3>2. ASSUME NEW i \in 1..Len(a) PROVE t[i] = s[i]
        <4>1. i \in 1..Len(c)
          BY <2>7
        <4> QED BY <2>7, <2>8, <4>1
      <3>3. t[Len(a) + 1] = Key
        <4>1. Len(a) + 1 \in 1..Len(c)
          BY <2>7
        <4> QED BY <2>7, <2>8, <4>1
      <3>4. ASSUME NEW i \in Len(a) + 1..Len(s) PROVE t[i + 1] = s[i]
        <4>1. i - Len(a) \in 1..Len(wire) /\ Len(a) + (i - Len(a)) = i /\ Len(c) + (i - Len(a)) = i + 1
          BY <2>7, <2>8
        <4>2. s[Len(a) + (i - Len(a))] = wire[i - Len(a)] /\ t[Len(c) + (i - Len(a))] = wire[i - Len(a)]
          BY <2>8, <4>1, Zenon
        <4> QED BY <4>1, <4>2
      <3> QED BY <3>1, <3>2, <3>3, <3>4 DEF Inserts
    <2>10. s \in Seq(Tokens) /\ t \in Seq(Tokens)
      BY <2>6 DEF Joins
    <2> QED BY <2>1, <2>9, <2>10 DEF a, h
  <1> DEFINE s == Stream
             t == Stream'
  <1> HIDE DEF p, s, t
  <1>7. \A w \in Seq(Tokens) :
          /\ Genuine(s, sent) => Genuine(t, sent)
          /\ OnlyKeys(s) => OnlyKeys(t)
          /\ Heads(s, w) => Heads(t, w)
          /\ (\E i \in 1..Len(t) : FirstDigit(t, i)) => \E i \in 1..Len(s) : FirstDigit(s, i)
    <2>1. s \in Seq(Tokens) /\ t \in Seq(Tokens) /\ Inserts(s, t, p)
          /\ sent \in SUBSET (Kinds \X (Nat \X Nat))
      BY <1>6 DEF s, t, Talk, Talking
    <2> QED BY <2>1, InsertsGenuine
  <1>8. Genuine(t, sent) /\ (sent = {} => OnlyKeys(t))
    <2>1. <<>> \in Seq(Tokens)
      OBVIOUS
    <2>2. Genuine(s, sent) /\ (sent = {} => OnlyKeys(s))
      BY <1>1 DEF Talk, Hearing, Spoken, Fresh, s
    <2> QED BY <1>7, <2>1, <2>2
  <1>9. Fresh' /\ Spoken' /\ First' /\ Untroubled'
    BY <1>1, <1>8 DEF Talk, Hearing, Fresh, Spoken, First, Untroubled, t
  <1>10. Answering'
    <2> SUFFICES ASSUME call.kind = "cursor", call.step = "wait"
                 PROVE  /\ (\E i \in 1..Len(t) : FirstDigit(t, i)) => <<"cursor", call.truth>> \in sent
                        /\ Heads(t, Body(call.truth))
      BY <1>1 DEF Answering, t
    <2>1. /\ (\E i \in 1..Len(s) : FirstDigit(s, i)) => <<"cursor", call.truth>> \in sent
          /\ Heads(s, Body(call.truth))
      BY <1>1 DEF Talk, Hearing, Answering, s
    <2>2. CASE \E i \in 1..Len(t) : FirstDigit(t, i)
      <3>1. <<>> \in Seq(Tokens)
        OBVIOUS
      <3>2. <<"cursor", call.truth>> \in sent
        BY <1>7, <2>1, <2>2, <3>1
      <3>3. call.truth \in Nat \X Nat
        BY <3>2 DEF Talk, Talking
      <3>4. "cursor" \in Kinds
        BY DEF Kinds
      <3>5. Body(call.truth) \in Seq(Tokens)
        BY <3>3, <3>4, ReplyFacts
      <3> QED BY <1>7, <2>1, <3>2, <3>5
    <2>3. CASE ~\E i \in 1..Len(t) : FirstDigit(t, i)
      BY <2>3 DEF Heads
    <2> QED BY <2>2, <2>3
  <1> QED BY <1>9, <1>10 DEF Hearing

(* The logo that is printed comes in its order: while the terminal may be asked *)
(* where an image ends, it was asked nothing else.                              *)
Pictures ==
  /\ {"type", "next"} \subseteq DOMAIN options /\ InOrder(options)
  /\ at \in {"measuring", "unmeasured"} => options.type \in Decoded
  /\ at = "logo" /\ options.type \in Sent => sent = {}

HeardInv == Inv /\ AnswersRight /\ (Alive => Talk /\ Pictures)

\* Both say the same of what is tried
Alike(o, p) == DOMAIN p = DOMAIN o /\ p.type = o.type /\ p.next = o.next

(* The order of what is tried does not depend on where it is printed or on its  *)
(* lines, ...                                                                   *)
LEMMA AlikeOrder ==
  ASSUME NEW o, NEW p, Alike(o, p), {"type", "next"} \subseteq DOMAIN o, InOrder(o)
  PROVE  {"type", "next"} \subseteq DOMAIN p /\ InOrder(p)
  <1>1. Tried(p) = Tried(o)
    BY DEF Alike, Tried
  <1> QED BY <1>1 DEF Alike, InOrder

(* ... which are what changes when it is placed ...                             *)
LEMMA Placed == \A o, x : {"type", "next"} \subseteq DOMAIN o => Alike(o, [o EXCEPT !.position = x])
  BY DEF Alike

(* ... or decoded.                                                              *)
LEMMA Relined ==
  \A o, x, y : {"type", "next"} \subseteq DOMAIN o => Alike(o, [[o EXCEPT !.lines = x] EXCEPT !.position = y])
  BY DEF Alike

(* What fails is replaced by what comes next in the order; what the terminal    *)
(* decodes never comes after what fastfetch decodes.                            *)
LEMMA TriedNext ==
  ASSUME NEW o, {"type", "next"} \subseteq DOMAIN o, InOrder(o), o.type \in Sent \union Decoded, NEW lines,
         NEW p, p = [o EXCEPT !.type = Head(o.next), !.next = Tail(o.next), !.lines = lines]
  PROVE  /\ {"type", "next"} \subseteq DOMAIN p /\ InOrder(p)
         /\ o.type \in Decoded => p.type \notin Sent
  <1> DEFINE a == Tried(o)
             b == Tried(p)
             m == Len(o.next)
  <1>1. o.type \in Types /\ o.next \in Seq(Types) /\ m \in Nat
    BY DEF InOrder
  <1>2. Len(a) = m + 1 /\ a[1] = o.type /\ \A i \in 1..m : a[i + 1] = o.next[i]
    <2> DEFINE x == o.type
               y == o.next
    <2>1. x \in Types /\ y \in Seq(Types) /\ a = <<x>> \o y
      BY <1>1 DEF Tried
    <2> HIDE DEF x, y
    <2>2. Len(<<x>> \o y) = Len(y) + 1 /\ (<<x>> \o y)[1] = x /\ \A i \in 1..Len(y) : (<<x>> \o y)[i + 1] = y[i]
      BY <2>1
    <2> QED BY <2>1, <2>2 DEF x, y
  <1>3. \A i \in 1..Len(a) : /\ a[i] \in Sent \union Decoded => i < Len(a)
                             /\ a[i] \in Decoded => \A j \in i..Len(a) : a[j] \notin Sent
    BY Zenon DEF InOrder
  <1>4. m # 0
    <2>1. 1 \in 1..Len(a) /\ a[1] \in Sent \union Decoded
      BY <1>1, <1>2
    <2>2. 1 < Len(a)
      BY <1>3, <2>1
    <2> QED BY <1>1, <1>2, <2>2
  <1>5. o.next # <<>>
    BY <1>1, <1>4
  <1>6. /\ {"type", "next"} \subseteq DOMAIN p /\ p.type = Head(o.next) /\ p.next = Tail(o.next)
    OBVIOUS
  <1>7. b = o.next /\ p.type = o.next[1] /\ p.type \in Types /\ p.next \in Seq(Types)
    <2> DEFINE y == o.next
    <2>1. y \in Seq(Types) /\ y # <<>> /\ b = <<Head(y)>> \o Tail(y)
      BY <1>1, <1>5, <1>6 DEF Tried
    <2> HIDE DEF y
    <2>2. Head(y) \in Types /\ Tail(y) \in Seq(Types) /\ Head(y) = y[1] /\ <<Head(y)>> \o Tail(y) = y
      BY <2>1
    <2> QED BY <1>6, <2>1, <2>2 DEF y
  <1> HIDE DEF a, m
  <1>8. Len(b) = m /\ \A i \in 1..m : b[i] = a[i + 1] /\ i + 1 \in 1..Len(a)
    BY <1>1, <1>2, <1>7 DEF m
  <1> HIDE DEF b
  <1>9. \A i \in 1..Len(b) : /\ b[i] \in Sent \union Decoded => i < Len(b)
                             /\ b[i] \in Decoded => \A j \in i..Len(b) : b[j] \notin Sent
    <2> SUFFICES ASSUME NEW i \in 1..Len(b)
                 PROVE  /\ b[i] \in Sent \union Decoded => i < Len(b)
                        /\ b[i] \in Decoded => \A j \in i..Len(b) : b[j] \notin Sent
      OBVIOUS
    <2>1. m \in Nat /\ i \in 1..m /\ b[i] = a[i + 1] /\ i + 1 \in 1..Len(a) /\ Len(a) = m + 1
      BY <1>1, <1>2, <1>8 DEF m
    <2>2. b[i] \in Sent \union Decoded => i < Len(b)
      <3>1. a[i + 1] \in Sent \union Decoded => i + 1 < Len(a)
        BY <1>3, <2>1
      <3> QED BY <1>8, <2>1, <3>1
    <2>3. ASSUME b[i] \in Decoded, NEW j \in i..Len(b) PROVE b[j] \notin Sent
      <3>1. j \in 1..m /\ j + 1 \in i + 1..Len(a)
        BY <1>8, <2>1
      <3>2. a[j + 1] \notin Sent
        BY <1>3, <2>1, <2>3, <3>1
      <3> QED BY <1>8, <3>1, <3>2
    <2> QED BY <2>2, <2>3
  <1>10. InOrder(p)
    BY <1>7, <1>9, Zenon DEF InOrder, b
  <1>11. o.type \in Decoded => p.type \notin Sent
    <2> SUFFICES ASSUME o.type \in Decoded PROVE p.type \notin Sent
      OBVIOUS
    <2>1. 1 \in 1..Len(a) /\ 2 \in 1..Len(a) /\ 1 \in 1..m /\ a[1] \in Decoded
      BY <1>1, <1>2, <1>4 DEF m
    <2>2. a[2] \notin Sent
      BY <1>3, <2>1
    <2>3. a[1 + 1] = o.next[1]
      BY <1>2, <2>1
    <2> QED BY <1>7, <2>2, <2>3
  <1> QED BY <1>6, <1>10, <1>11

(* A step without a question, on a logo that is told in the same way.           *)
LEMMA GoesOnHearing ==
  ASSUME HeardInv, Inv', Alive, UNCHANGED qvars, Alike(options, options'),
         at' \notin {"logo", "measuring", "unmeasured"}
  PROVE  HeardInv'
  <1>1. Talk'
    BY DEF HeardInv, qvars, Talk, Talking, AnswersRight, Hearing, Fresh, Spoken, First, Answering,
           Untroubled, Stream, Held
  <1>2. Pictures'
    BY AlikeOrder DEF HeardInv, Pictures
  <1> QED BY <1>1, <1>2 DEF HeardInv, Talk

(* A step that asks a question.                                                 *)
LEMMA AsksHearing ==
  ASSUME HeardInv, Inv', Alive, NEW kind \in Kinds, Ask(kind), kind = "cursor" => sent = {},
         Alike(options, options'), at' \notin {"logo", "end", "killed"},
         at' \in {"measuring", "unmeasured"} => options.type \in Decoded
  PROVE  HeardInv'
  <1>1. Talk'
    BY AskTalk DEF HeardInv
  <1>2. Pictures'
    <2>1. options'.type = options.type
      BY DEF Alike
    <2>2. {"type", "next"} \subseteq DOMAIN options' /\ InOrder(options')
      BY AlikeOrder DEF HeardInv, Pictures
    <2> QED BY <2>1, <2>2 DEF Pictures
  <1> QED BY <1>1, <1>2 DEF HeardInv, Talk

(* Nothing changes.                                                             *)
LEMMA SameLogo == Alike(options, options)
  BY DEF Alike

(* The steps of the program keep HeardInv: an image that is sent to the         *)
(* terminal, ...                                                                *)
LEMMA SentHearing ==
  ASSUME HeardInv, Inv', LogoPrintRaw \/ PrintImageIterm \/ PrintImageKittyDirect \/ PrintImageKittyIcat
  PROVE  HeardInv'
  <1>1. at = "logo" /\ options.type \in Sent /\ options' = Resolved
        /\ \E t, column : \/ ImageSized(Resolved, t)
                          \/ ImageAtTop(Resolved, t, column)
                          \/ ImageAsked(Resolved, t, column)
    <2>1. ASSUME NEW t, PrintSent(Resolved, t)
          PROVE  at = "logo" /\ options' = Resolved
                 /\ \E column : \/ ImageSized(Resolved, t)
                                \/ ImageAtTop(Resolved, t, column)
                                \/ ImageAsked(Resolved, t, column)
      BY <2>1 DEF PrintSent
    <2>2. CASE PrintImageKittyIcat
      BY <2>2 DEF PrintImageKittyIcat, Sent
    <2>3. CASE LogoPrintRaw
      BY <2>1, <2>3 DEF LogoPrintRaw, Sent
    <2>4. CASE PrintImageIterm
      BY <2>1, <2>4 DEF PrintImageIterm, Sent
    <2>5. CASE PrintImageKittyDirect
      BY <2>1, <2>5 DEF PrintImageKittyDirect, Sent
    <2> QED BY <2>2, <2>3, <2>4, <2>5
  <1>2. PICK t, column : \/ ImageSized(Resolved, t)
                         \/ ImageAtTop(Resolved, t, column)
                         \/ ImageAsked(Resolved, t, column)
    BY <1>1
  <1>3. Alive
    BY <1>1 DEF Alive
  <1>4. Alike(options, options')
    BY <1>1, <1>3, Placed DEF Resolved, HeardInv, Pictures
  <1>5. CASE ImageSized(Resolved, t) \/ ImageAtTop(Resolved, t, column)
    <2>1. at' = "keys" /\ UNCHANGED qvars
      BY <1>5 DEF ImageSized, ImageAtTop
    <2> QED BY <1>3, <1>4, <2>1, GoesOnHearing
  <1>6. CASE ImageAsked(Resolved, t, column)
    <2>1. at' = "cursor" /\ Ask("cursor") /\ "cursor" \in Kinds
      BY <1>6 DEF ImageAsked, Kinds
    <2>2. sent = {}
      BY <1>1, <1>3 DEF HeardInv, Pictures
    <2> QED BY <1>3, <1>4, <2>1, <2>2, AsksHearing
  <1> QED BY <1>2, <1>5, <1>6

(* ... one that fails, ...                                                      *)
LEMMA FailsHearing ==
  ASSUME HeardInv, Inv', ImageFails
  PROVE  HeardInv'
  <1>1. /\ \/ at = "logo" /\ options.type \in Sent
           \/ Measured /\ options.type \in Decoded
           \/ Unmeasured
        /\ at' = "logo" /\ UNCHANGED qvars
    BY DEF ImageFails
  <1>2. Alive
    BY <1>1 DEF Measured, Unmeasured, Sized, Alive
  <1>3. {"type", "next"} \subseteq DOMAIN options /\ InOrder(options)
    BY <1>2 DEF HeardInv, Pictures
  <1>4. Unmeasured => options.type \in Decoded
    BY <1>2 DEF HeardInv, Pictures, Unmeasured, Sized
  <1>5. \/ options.type \in Sent /\ sent = {}
        \/ options.type \in Decoded
    BY <1>1, <1>2, <1>4 DEF HeardInv, Pictures
  <1>6. PICK o \in {options} \union
              (CASE options.type \in Sent -> {Resolved}
                 [] Measured -> {At(cells[1]) : cells \in CharacterSizes}
                 [] Unmeasured -> {}) :
       options' = [o EXCEPT !.type = Head(o.next), !.next = Tail(o.next),
                            !.lines = IF Head(o.next) = "lines" THEN o.detected ELSE o.lines]
    BY DEF ImageFails
  <1>7. Alike(options, o)
    <2>1. o = options \/ o = Resolved \/ \E cells : o = At(cells[1])
      <3>1. CASE options.type \in Sent
        BY <1>6, <3>1
      <3>2. CASE options.type \notin Sent /\ Measured
        BY <1>6, <3>2
      <3>3. CASE options.type \notin Sent /\ ~Measured
        BY <1>1, <1>6, <3>3
      <3> QED BY <3>1, <3>2, <3>3
    <2>2. Alike(options, Resolved) /\ \A width : Alike(options, At(width))
      BY <1>3, Placed DEF Resolved, At
    <2> QED BY <2>1, <2>2, SameLogo
  <1>8. {"type", "next"} \subseteq DOMAIN o /\ InOrder(o) /\ o.type = options.type
    <2>1. o.type = options.type
      BY <1>7 DEF Alike
    <2> QED BY <1>3, <1>7, <2>1, AlikeOrder
  <1> DEFINE lines == IF Head(o.next) = "lines" THEN o.detected ELSE o.lines
  <1>9. /\ {"type", "next"} \subseteq DOMAIN options' /\ InOrder(options')
        /\ o.type \in Decoded => options'.type \notin Sent
    <2>1. o.type \in Sent \union Decoded
      BY <1>5, <1>8
    <2> DEFINE p == options'
    <2>2. p = [o EXCEPT !.type = Head(o.next), !.next = Tail(o.next), !.lines = lines]
      BY <1>6
    <2> HIDE DEF lines, p
    <2>3. /\ {"type", "next"} \subseteq DOMAIN p /\ InOrder(p)
          /\ o.type \in Decoded => p.type \notin Sent
      BY <1>8, <2>1, <2>2, TriedNext
    <2> QED BY <2>3 DEF p
  <1>10. Pictures'
    <2>1. sent' = sent
      BY <1>1 DEF qvars
    <2> QED BY <1>1, <1>5, <1>8, <1>9, <2>1 DEF Pictures
  <1>11. Talk'
    BY <1>1, <1>2 DEF HeardInv, qvars, Talk, Talking, AnswersRight, Hearing, Fresh, Spoken, First,
           Answering, Untroubled, Stream, Held
  <1> QED BY <1>10, <1>11 DEF HeardInv, Talk

(* ... any image, ...                                                           *)
LEMMA ImageHearing == ASSUME HeardInv, Inv', ImagePrint PROVE HeardInv'
  <1>1. CASE LogoPrintRaw \/ PrintImageIterm \/ PrintImageKittyDirect \/ PrintImageKittyIcat
    BY <1>1, SentHearing
  <1>2. CASE ImagePlaced
    <2>1. at = "cursor" /\ at' = "keys" /\ UNCHANGED qvars /\ options' = options
      BY <1>2 DEF ImagePlaced
    <2> QED BY <2>1, GoesOnHearing, SameLogo DEF Alive
  <1>3. CASE Measure
    <2>1. /\ at = "logo" /\ options.type \in Decoded /\ at' = "measuring" /\ options' = options
          /\ \E kind \in Kinds \ {"cursor"} : Ask(kind)
      BY <1>3 DEF Measure, Kinds
    <2> QED BY <2>1, AsksHearing, SameLogo DEF Alive
  <1>4. CASE MeasureOn
    <2>1. /\ at = "measuring" /\ at' \in {"unmeasured", "measuring"} /\ options' = options
          /\ Ask("pixels") /\ "pixels" \in Kinds
      BY <1>4 DEF MeasureOn, Kinds
    <2>2. Alive /\ options.type \in Decoded
      BY <2>1 DEF Alive, HeardInv, Pictures
    <2> QED BY <2>1, <2>2, AsksHearing, SameLogo
  <1>5. CASE PrintImagePixels \/ PrintImageChafa
    <2>1. Measured /\ at' = "keys" /\ UNCHANGED qvars
      BY <1>5 DEF PrintImagePixels, PrintImageChafa
    <2>2. Alive
      BY <2>1 DEF Measured, Sized, Alive
    <2>3. Alike(options, options')
      <3>1. {"type", "next"} \subseteq DOMAIN options
        BY <2>2 DEF HeardInv, Pictures
      <3>2. CASE PrintImagePixels
        <4>1. \E width : options' = At(width)
          BY <3>2, Zenon DEF PrintImagePixels
        <4>2. \A width : Alike(options, At(width))
          BY <3>1, Placed, Zenon DEF At
        <4> QED BY <4>1, <4>2, Zenon
      <3>3. CASE PrintImageChafa
        <4>1. \E width, lines, position : options' = [[At(width) EXCEPT !.lines = lines] EXCEPT !.position = position]
          BY <3>3 DEF PrintImageChafa, LogoPrintChars
        <4>2. \A width : Alike(options, At(width))
          BY <3>1, Placed DEF At
        <4>3. \A width, lines, position :
                Alike(At(width), [[At(width) EXCEPT !.lines = lines] EXCEPT !.position = position])
          <5>1. \A width : {"type", "next"} \subseteq DOMAIN At(width)
            BY <3>1, <4>2 DEF Alike
          <5> HIDE DEF At
          <5> QED BY <5>1, Relined
        <4> QED BY <4>1, <4>2, <4>3 DEF Alike
      <3> QED BY <1>5, <3>2, <3>3
    <2> QED BY <2>1, <2>2, <2>3, GoesOnHearing
  <1>6. CASE ImageFails
    BY <1>6, FailsHearing
  <1> QED BY <1>1, <1>2, <1>3, <1>4, <1>5, <1>6 DEF ImagePrint

(* ... a logo of any kind, ...                                                  *)
LEMMA PrintHearing == ASSUME HeardInv, Inv', LogoPrint PROVE HeardInv'
  <1>1. CASE ImagePrint
    BY <1>1, ImageHearing
  <1>2. CASE LogoPrintLines \/ LogoPrintNone \/ LogoPrintSpin \/ LogoPrintSpinFails
    <2>1. at = "logo" /\ at' = "keys" /\ UNCHANGED qvars
      BY <1>2 DEF LogoPrintLines, LogoPrintNone, LogoPrintSpin, LogoPrintSpinFails
    <2>2. {"type", "next"} \subseteq DOMAIN options
      BY <2>1 DEF HeardInv, Pictures, Alive
    <2>3. Alike(options, options')
      <3>1. CASE LogoPrintLines
        BY <2>2, <3>1, Placed DEF LogoPrintLines, LogoPrintChars
      <3>2. CASE LogoPrintSpin
        <4>1. ASSUME NEW o, NEW t, LogoPrintChars(o, t)
              PROVE  \E y : options' = [o EXCEPT !.position = y]
          BY <4>1 DEF LogoPrintChars
        <4>2. \E frame, t : LogoPrintChars([options EXCEPT !.lines = frame], t)
          BY <3>2 DEF LogoPrintSpin
        <4>3. \E x, y : options' = [[options EXCEPT !.lines = x] EXCEPT !.position = y]
          BY <4>1, <4>2
        <4>4. PICK x, y : options' = [[options EXCEPT !.lines = x] EXCEPT !.position = y]
          BY <4>3, Zenon
        <4>5. Alike(options, [[options EXCEPT !.lines = x] EXCEPT !.position = y])
          BY <2>2, Relined, Zenon
        <4> QED BY <4>4, <4>5, Zenon
      <3>3. CASE LogoPrintNone \/ LogoPrintSpinFails
        <4>1. options' = options
          BY <3>3 DEF LogoPrintNone, LogoPrintSpinFails
        <4> QED BY <4>1, SameLogo
      <3> QED BY <1>2, <3>1, <3>2, <3>3
    <2> QED BY <2>1, <2>3, GoesOnHearing DEF Alive
  <1> QED BY <1>1, <1>2 DEF LogoPrint

(* ... what comes after the logo, ...                                           *)
LEMMA KeysHearing ==
  ASSUME HeardInv, Inv', PrintKey \/ AskSize \/ SizeDetected \/ EndRound \/ Refresh \/ Zoom
  PROVE  HeardInv'
  <1>1. CASE PrintKey \/ EndRound \/ Zoom \/ SizeDetected
    <2>1. /\ at \in {"keys", "asleep", "asking"} /\ at' \in {"keys", "asleep"}
          /\ UNCHANGED qvars /\ options' = options
      BY <1>1 DEF PrintKey, EndRound, Zoom, SizeDetected
    <2> QED BY <2>1, GoesOnHearing, SameLogo DEF Alive
  <1>2. CASE Refresh
    <2>1. /\ at = "asleep" /\ UNCHANGED qvars /\ options' = options
          /\ at' \in {"logo", "keys"} /\ (at' = "logo" => options.type = "spin")
      BY <1>2 DEF Refresh
    <2>2. "spin" \notin Sent
      BY DEF Sent
    <2>3. Pictures'
      BY <2>1, <2>2 DEF HeardInv, Pictures, Alive
    <2>4. Talk'
      BY <2>1 DEF HeardInv, Alive, qvars, Talk, Talking, AnswersRight, Hearing, Fresh, Spoken, First,
             Answering, Untroubled, Stream, Held
    <2> QED BY <2>3, <2>4 DEF HeardInv, Talk
  <1>3. CASE AskSize
    <2>1. /\ at = "keys" /\ at' = "asking" /\ options' = options
          /\ \E kind \in Kinds \ {"cursor"} : Ask(kind)
      BY <1>3 DEF AskSize
    <2> QED BY <2>1, AsksHearing, SameLogo DEF Alive
  <1> QED BY <1>1, <1>2, <1>3

(* ... the end of the program, ...                                              *)
LEMMA ExitHearing == ASSUME HeardInv, Inv', Finish \/ Signal PROVE HeardInv'
  <1>1. UNCHANGED <<call, sent, trouble, numbers>> /\ at' \in {"end", "killed"}
    BY DEF Finish, Signal, ExitQuery
  <1> QED BY <1>1 DEF HeardInv, AnswersRight, Alive

(* ... and so all that the program does, ...                                    *)
LEMMA RunningHearing == ASSUME HeardInv, Inv', Running PROVE HeardInv'
  <1>1. Alive /\ UNCHANGED <<at, options>> /\ (Question \/ Write(Truth)) /\ Talk /\ Modes
    BY DEF Running, Asking, svars, HeardInv, Inv
  <1>2. Talk'
    <2>1. CASE Open \/ GetAttributes \/ SetAttributes \/ Register
      BY <1>1, <2>1, SetupTalk
    <2>2. CASE Read
      BY <1>1, <2>2, ReadTalk
    <2>3. CASE Timeout
      BY <1>1, <2>3, TimeoutTalk
    <2>4. CASE Write(Truth)
      BY <1>1, <2>4, WriteTalk
    <2> QED BY <1>1, <2>1, <2>2, <2>3, <2>4 DEF Question
  <1>3. at # "logo"
    BY <1>1, StepModes DEF HeardInv, Inv, Answered
  <1>4. Pictures'
    BY <1>1, <1>3 DEF HeardInv, Pictures
  <1> QED BY <1>2, <1>4 DEF HeardInv, Talk

(* ... all that the terminal and its user do ...                                *)
LEMMA OtherEndHearing == ASSUME HeardInv, Inv', TheOtherEnd PROVE HeardInv'
  <1>1. Alive /\ UNCHANGED <<at, options, sent>> /\ (Deliver \/ Type) /\ Talk
    BY DEF TheOtherEnd, Alive, Deliver, Type, svars, HeardInv
  <1>2. Talk'
    BY <1>1, DeliverTalk, TypeTalk
  <1>3. Pictures'
    BY <1>1 DEF HeardInv, Pictures
  <1> QED BY <1>2, <1>3 DEF HeardInv, Talk

(* ... and every step.                                                          *)
LEMMA NextHearing == HeardInv /\ [Next]_vars => HeardInv'
  <1> SUFFICES ASSUME HeardInv, [Next]_vars PROVE HeardInv'
    OBVIOUS
  <1>0. Inv'
    BY NextInv DEF HeardInv
  <1>1. CASE LogoPrint
    BY <1>0, <1>1, PrintHearing
  <1>2. CASE PrintKey \/ AskSize \/ SizeDetected \/ EndRound \/ Refresh \/ Zoom
    BY <1>0, <1>2, KeysHearing
  <1>3. CASE Finish \/ Signal
    BY <1>0, <1>3, ExitHearing
  <1>4. CASE Running
    BY <1>0, <1>4, RunningHearing
  <1>5. CASE TheOtherEnd
    BY <1>0, <1>5, OtherEndHearing
  <1>6. CASE UNCHANGED vars
    <2>1. UNCHANGED qvars /\ UNCHANGED <<at, options>>
      BY <1>6 DEF vars, svars
    <2>2. Talk => Talk'
      BY <2>1 DEF qvars, Talk, Talking, AnswersRight, Hearing, Fresh, Spoken, First, Answering,
             Untroubled, Stream, Held
    <2>3. AnswersRight' /\ (Pictures => Pictures') /\ (Alive' => Alive)
      BY <2>1 DEF HeardInv, qvars, AnswersRight, Pictures, Alive
    <2> QED BY <1>0, <2>2, <2>3 DEF HeardInv
  <1> QED BY <1>1, <1>2, <1>3, <1>4, <1>5, <1>6 DEF Next

(* Nothing was asked, and nothing came in.                                      *)
LEMMA InitHearing == Init => HeardInv
  <1> SUFFICES ASSUME Init PROVE HeardInv
    OBVIOUS
  <1>1. /\ call = Idle /\ wire = <<>> /\ queue = <<>> /\ sent = {} /\ ~numbers /\ options \in Options
    BY DEF Init, InitQuery
  <1>2. <<>> \in Seq(Tokens) /\ <<>> \in Seq(Nat) /\ "idle" \notin Setup /\ Len(<<>>) = 0
    BY DEF Setup
  <1>3. Talking
    BY <1>1, <1>2 DEF Talking, Idle
  <1>4. Stream = <<>>
    <2>1. Held = <<>>
      BY <1>1 DEF Held, Idle
    <2> QED BY <1>1, <1>2, <2>1, EmptySides DEF Stream
  <1>5. AnswersRight
    BY <1>1 DEF AnswersRight, Idle
  <1>6. Fresh /\ Spoken
    BY <1>2, <1>4 DEF Fresh, Spoken, OnlyKeys, Genuine
  <1>7. First /\ Answering /\ Untroubled
    BY <1>1, <1>2, <1>4 DEF First, Answering, Untroubled, Idle
  <1>8. Pictures
    <2>1. at = "logo"
      BY DEF Init
    <2> QED BY <1>1, <2>1, OrderAssumption DEF Pictures
  <1>9. Talk
    BY <1>3, <1>5, <1>6, <1>7 DEF Talk, Hearing
  <1> QED BY <1>5, <1>8, <1>9, InitInv DEF HeardInv

(* An answer that is accepted is the terminal's reply to this very request, or  *)
(* something went wrong before: then it is still a reply to one of the same     *)
(* kind, whose last number may be cut short (io_unix.c:236), unless the user    *)
(* typed what numbers are made of. So it is for every base, all numbers and all *)
(* keys, however the replies are split, delayed or mixed with them.             *)
THEOREM AnswersAreRight == Spec => []AnswersRight
  <1>1. Init => HeardInv
    BY InitHearing
  <1>2. HeardInv /\ [Next]_vars => HeardInv'
    BY NextHearing
  <1>3. HeardInv => AnswersRight
    BY DEF HeardInv
  <1> QED BY <1>1, <1>2, <1>3, PTL DEF Spec
===============================================================================
