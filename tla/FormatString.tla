----------------------------- MODULE FormatString -----------------------------
(* The formats that modules are printed by (format.c): one pass over the    *)
(* bytes that counts the open conditionals of each kind, and a second       *)
(* scanner for what a conditional skips. The output is not a terminal, so   *)
(* that colors of the format are left out; those of the values are not.     *)
EXTENDS Integers, Sequences, SequencesExt, FiniteSetsExt

CONSTANTS Formats,       \* the formats, each with the arguments it may get
          Constants,     \* display.constants
          Environment,   \* the variables that are set
          ParameterBytes, IntermediateBytes, FinalBytes,    \* of an escape
          ContinuationBytes,    \* of a character of several, behind its first
          IntMax,        \* of an int32_t; the least of them is -IntMax - 1
          Nothing

Numerals == <<"0", "1", "2", "3", "4", "5", "6", "7", "8", "9">>
Markers == {"?", "/"}
Space == " "
Ellipsis == <<"E2", "80", "A6">>      \* the bytes of one character
Text == Seq(STRING)      \* of bytes

ASSUME FormatAssumption ==
  /\ IntMax \in Nat
  /\ \A f \in Formats :
       /\ f.text \in Text
       /\ \A list \in f.arguments : \A i \in DOMAIN list :
            list[i].text \in Text /\ Len(list[i].text) <= IntMax /\ list[i].set \in BOOLEAN

(* Of the bytes that no escape has at its end or within, this model has its *)
(* first one, and those of the ellipsis.                                    *)
ASSUME EscapeAssumption ==
  /\ "ESC" \notin ParameterBytes \cup IntermediateBytes \cup FinalBytes
  /\ {Space, "E2", "80", "A6"} \cap FinalBytes = {}
  /\ "[" \notin ParameterBytes \cup IntermediateBytes
  /\ ParameterBytes \cap FinalBytes = {}
  /\ IntermediateBytes \cap (ParameterBytes \cup FinalBytes) = {}

ASSUME CharacterAssumption ==
  {"80", "A6"} \subseteq ContinuationBytes /\ {Space, "E2"} \cap ContinuationBytes = {}

VARIABLES format, arguments,
          at,              \* what is read next
          argCounter,
          open,            \* numOpenIfs and numOpenNotIfs
          buffer,
          stopped,
          fitted           \* the last value that was cut or padded, and to what

input == <<format, arguments>>
formatVars == <<input, at, argCounter, open, buffer, stopped, fitted>>

Blanks(n) == [i \in 1..n |-> Space]
From(s, n) == SubSeq(s, n, Len(s))
Upto(s, n) == SubSeq(s, 1, n)
FirstChar(s) == IF s = <<>> THEN Nothing ELSE s[1]
Least(a, b) == IF a < b THEN a ELSE b
Find(s, n, chars) == Min({i \in n..Len(s) : s[i] \in chars} \cup {Len(s) + 1})
Digits(s) == Min({n \in 0..Len(s) : n = Len(s) \/ s[n + 1] \notin Range(Numerals)})

Numeral(c) == (CHOOSE d \in 1..10 : Numerals[d] = c) - 1
Natural(s) ==
  LET upto[n \in 0..Len(s)] == IF n = 0 THEN 0 ELSE 10 * upto[n - 1] + Numeral(s[n])
  IN upto[Len(s)]

(* strToInt32: a number that does not fit is clamped, and `rest` follows.   *)
ToInt32(s) ==
  LET minus == FirstChar(s) = "-"
      digits == IF minus THEN From(s, 2) ELSE s
      n == Digits(digits)
      value == Natural(Upto(digits, n)) * (IF minus THEN -1 ELSE 1)
  IN IF n = 0 THEN [value |-> 0, rest |-> s]
     ELSE [value |-> Max({Least(value, IntMax), -IntMax - 1}), rest |-> From(digits, n + 1)]

(* getArgumentIndex: 0 is for the next one, and -1 for none.                *)
ArgumentIndex(s) ==
  LET named == {i \in DOMAIN arguments : <<arguments[i].name>> = s}
  IN IF s = <<>> THEN 0
     ELSE IF Digits(s) = Len(s) /\ Natural(s) <= Len(arguments) THEN Natural(s)
     ELSE IF named # {} THEN Min(named) ELSE -1
-----------------------------------------------------------------------------
(* ansiEscapeLength, for an escape that begins at p.                        *)
Past(s, n, bytes) == Min({i \in n..Len(s) : s[i] \notin bytes} \cup {Len(s) + 1})
EscapeLength(s, p) ==
  LET end == Past(s, Past(s, p + 2, ParameterBytes), IntermediateBytes)
  IN IF end <= Len(s) /\ s[p] = "ESC" /\ s[p + 1] = "[" /\ s[end] \in FinalBytes
     THEN end + 1 - p ELSE 0

SkipFirstEscape(s) ==    \* mutant: only the first escape, and none at the end
  LET n == EscapeLength(s, 1)
  IN [lead |-> Upto(s, n), body |-> From(s, n + 1), trail |-> <<>>]

(* skipAnsiEscape: where the value begins and ends. What is at the end only *)
(* counts if there is something in front.                                   *)
BehindEscapes(s) ==
  LET behind[p \in 1..Len(s) + 1] ==
        IF EscapeLength(s, p) = 0 THEN p ELSE behind[p + EscapeLength(s, p)]
  IN behind[1]

BeforeEscapes(s, first) ==
  LET before[n \in first - 1..Len(s)] ==
        LET start == Max({i \in first..n : s[i] = "ESC"} \cup {first})
        IN IF n - first < 2 \/ EscapeLength(s, start) # n + 1 - start THEN n
           ELSE before[start - 1]
  IN before[Len(s)]

SkipAnsiEscape(s) ==
  LET first == BehindEscapes(s)
      last == IF first = 1 THEN Len(s) ELSE BeforeEscapes(s, first)
  IN [lead |-> Upto(s, first - 1), body |-> SubSeq(s, first, last),
      trail |-> From(s, last + 1)]

Around(skipped, body) == skipped.lead \o body \o skipped.trail

(* `:`, `<`, `>` and `|`: cut to a length, or padded to it. A negative one  *)
(* asks for an ellipsis, for which `:` leaves no room, and the others one   *)
(* byte.                                                                    *)
Fit(sep, number, body) ==
  LET ellipsis == number < 0
      length == IF ~ellipsis THEN number ELSE Least(-number, IntMax)
      cut == IF sep = ":" THEN Upto(body, length)
             ELSE Upto(body, IF ellipsis THEN length - 1 ELSE length)
      text == IF sep = ":" THEN Upto(cut, Max({0} \cup {i \in DOMAIN cut : cut[i] # Space}))
              ELSE cut
      free == length - Len(body)
  IN IF free < 0 THEN text \o (IF ellipsis THEN Ellipsis ELSE <<>>)
     ELSE CASE sep = ":" -> body
            [] sep = "<" -> body \o Blanks(free)
            [] sep = ">" -> Blanks(free) \o body
            [] OTHER -> Blanks(free \div 2) \o body \o Blanks(free - free \div 2)

(* `~`: a part of the value; both ends may count from its end.              *)
Part(numbers, body) ==
  LET start == ToInt32(numbers)
      hasEnd == FirstChar(start.rest) = ","
      end == ToInt32(From(start.rest, 2))
      Counted(n) == IF n < 0 THEN Len(body) + n ELSE n
      first == Counted(start.value)
      behind == IF hasEnd THEN Least(Counted(end.value), Len(body)) ELSE Len(body)
  IN [valid |-> (IF hasEnd THEN end.rest ELSE start.rest) = <<>>,
      text |-> IF first < 0 \/ first >= Len(body) THEN <<>>
               ELSE SubSeq(body, first + 1, behind)]
-----------------------------------------------------------------------------
(* {$...}: a constant by its number, or a variable.                         *)
ConstantText(value, original) ==
  LET number == ToInt32(From(value, 2))
      index == IF number.value < 0 THEN Len(Constants) + number.value + 1 ELSE number.value
      found == {v \in Environment : v.name = From(value, 2)}
  IN IF number.rest = From(value, 2)
     THEN IF found = {} THEN original ELSE (CHOOSE v \in found : TRUE).text
     ELSE IF number.rest # <<>> \/ index \notin DOMAIN Constants THEN original
     ELSE Constants[index]

(* A placeholder for an argument. The next one is used up even if it turns  *)
(* out that the rest is no number; and of a `~` the escapes of the value    *)
(* are printed by then.                                                     *)
ArgumentText(value, original, counter) ==
  LET n == Find(value, 1, {":", "<", ">", "|", "~"})
      asked == ArgumentIndex(Upto(value, n - 1))
      index == IF asked = 0 THEN counter + 1 ELSE asked
      used == [text |-> original, fitted |-> Nothing,
               counter |-> IF asked = 0 THEN counter + 1 ELSE counter]
      numbers == From(value, n + 1)
      text == arguments[index].text
      skipped == SkipAnsiEscape(text)
      part == Part(numbers, skipped.body)
      length == ToInt32(numbers)
      shown == Around(skipped, Fit(value[n], length.value, skipped.body))
  IN IF index \notin DOMAIN arguments THEN used
     ELSE IF n > Len(value) THEN [used EXCEPT !.text = text]
     ELSE IF value[n] = "~"
     THEN [used EXCEPT !.text = IF part.valid THEN Around(skipped, part.text)
                                ELSE Around(skipped, <<>>) \o original]
     ELSE IF length.rest # <<>> THEN used
     ELSE [used EXCEPT !.text = shown,
                       !.fitted = [sep |-> value[n], number |-> length.value,
                                   of |-> text, shown |-> shown]]

(* What stands for a placeholder that is no conditional and does not stop.  *)
Filled(value, original, counter) ==
  CASE FirstChar(value) = "#" -> [text |-> <<>>, counter |-> counter, fitted |-> Nothing]
    [] FirstChar(value) = "$" ->
         [text |-> ConstantText(value, original), counter |-> counter, fitted |-> Nothing]
    [] OTHER -> ArgumentText(value, original, counter)
-----------------------------------------------------------------------------
CloseOf(n) == Find(format, n, {"}"})
ValueAt(n) == SubSeq(format, n, CloseOf(n) - 1)
OriginalAt(n) == SubSeq(format, n - 1, Least(CloseOf(n), Len(format)))

Closes(value, marker) == value = <<marker>>
Opens(value, marker) ==
  /\ Len(value) > 1 /\ value[1] = marker
  /\ ArgumentIndex(Tail(value)) \in DOMAIN arguments

(* formatArgSet, for {?...}; the contrary for {/...}.                       *)
Holds(value) ==
  LET set == arguments[ArgumentIndex(Tail(value))].set
  IN IF value[1] = "?" THEN set ELSE ~set

ConditionalEndFlat(n, marker) ==    \* mutant: the first end, whatever it ends
  LET ends == {i \in n..Len(format) : format[i] = "{" /\ i < Len(format)
                                        /\ Closes(ValueAt(i + 1), marker)}
  IN IF ends = {} THEN Len(format) + 1 ELSE CloseOf(Min(ends) + 1) + 1

(* findConditionalEnd: where to go on behind the end of a conditional whose *)
(* content begins at n.                                                     *)
ConditionalEnd(n, marker) ==
  LET end[i \in 1..Len(format) + 2] ==
        [depth \in Nat |->
           IF i >= Len(format) THEN Len(format) + 1
           ELSE IF format[i] # "{" THEN end[i + 1][depth]
           ELSE IF format[i + 1] = "{" THEN end[i + 2][depth]
           ELSE LET next == CloseOf(i + 1) + 1
                IN IF Closes(ValueAt(i + 1), marker)
                   THEN IF depth = 0 THEN next ELSE end[next][depth - 1]
                   ELSE end[next][IF Opens(ValueAt(i + 1), marker) THEN depth + 1 ELSE depth]]
  IN end[n][0]

Busy == ~stopped /\ at <= Len(format)

(* A byte, "{{", or a "{" that ends the format.                             *)
Copy ==
  /\ Busy
  /\ \/ format[at] # "{" /\ buffer' = Append(buffer, format[at]) /\ at' = at + 1
     \/ /\ SubSeq(format, at, Least(at + 1, Len(format))) \in {<<"{">>, <<"{", "{">>}
        /\ buffer' = Append(buffer, "{") /\ at' = at + 2
  /\ UNCHANGED <<input, argCounter, open, stopped, fitted>>

AtPlaceholder == Busy /\ format[at] = "{" /\ at < Len(format) /\ format[at + 1] # "{"
Value == ValueAt(at + 1)
Original == OriginalAt(at + 1)
Behind == CloseOf(at + 1) + 1

Stop ==
  /\ AtPlaceholder /\ Value = <<"-">>
  /\ stopped' = TRUE
  /\ UNCHANGED <<input, at, argCounter, open, buffer, fitted>>

End(marker) ==
  /\ AtPlaceholder /\ Closes(Value, marker)
  /\ IF open[marker] = 0 THEN buffer' = buffer \o Original /\ UNCHANGED open
     ELSE open' = [open EXCEPT ![marker] = @ - 1] /\ UNCHANGED buffer
  /\ at' = Behind
  /\ UNCHANGED <<input, argCounter, stopped, fitted>>

Conditional(marker) ==
  /\ AtPlaceholder /\ Len(Value) > 1 /\ Value[1] = marker
  /\ CASE ~Opens(Value, marker) ->
            buffer' = buffer \o Original /\ at' = Behind /\ UNCHANGED open
       [] Opens(Value, marker) /\ Holds(Value) ->
            open' = [open EXCEPT ![marker] = @ + 1] /\ at' = Behind /\ UNCHANGED buffer
       [] Opens(Value, marker) /\ ~Holds(Value) ->
            at' = ConditionalEnd(Behind, marker) /\ UNCHANGED <<open, buffer>>
  /\ UNCHANGED <<input, argCounter, stopped, fitted>>

Fill ==
  /\ AtPlaceholder /\ Value # <<"-">>
  /\ FirstChar(Value) \notin Markers
  /\ LET filled == Filled(Value, Original, argCounter)
     IN /\ buffer' = buffer \o filled.text
        /\ argCounter' = filled.counter
        /\ fitted' = filled.fitted
  /\ at' = Behind
  /\ UNCHANGED <<input, open, stopped>>
-----------------------------------------------------------------------------
InitFormat ==
  /\ \E f \in Formats : format = f.text /\ arguments \in f.arguments
  /\ at = 1 /\ argCounter = 0 /\ open = [marker \in Markers |-> 0]
  /\ buffer = <<>> /\ stopped = FALSE /\ fitted = Nothing

NextFormat ==
  \/ Copy \/ Stop \/ Fill
  \/ \E marker \in Markers : End(marker) \/ Conditional(marker)

FormatSpec == InitFormat /\ [][NextFormat]_formatVars
-----------------------------------------------------------------------------
(* The same format, as a reader sees it: characters and placeholders, with  *)
(* the conditionals in one another.                                         *)
Visible(s) == ~s.stopped /\ \A i \in DOMAIN s.around : s.around[i].holds
Printed(s, text) == IF Visible(s) THEN [s EXCEPT !.text = text] ELSE s

ReadsPlaceholder(s, value, original) ==
  LET marker == FirstChar(value)
      filled == Filled(value, original, s.counter)
  IN IF \E x \in Markers : Closes(value, x)
     THEN IF \A i \in DOMAIN s.around : s.around[i].marker # marker
          THEN Printed(s, s.text \o original)
          ELSE IF Last(s.around).marker = marker THEN [s EXCEPT !.around = Front(@)]
          ELSE [s EXCEPT !.crossed = TRUE]
     ELSE IF \E x \in Markers : Opens(value, x)
     THEN [s EXCEPT !.around = Append(@, [marker |-> marker, holds |-> Holds(value)])]
     ELSE IF ~Visible(s) THEN s
     ELSE IF value = <<"-">> THEN [s EXCEPT !.stopped = TRUE]
     ELSE IF marker \in Markers THEN Printed(s, s.text \o original)
     ELSE [s EXCEPT !.text = @ \o filled.text, !.counter = filled.counter]

Reads(s) ==
  IF s.at > Len(format) THEN s
  ELSE IF format[s.at] # "{" \/ s.at = Len(format)
  THEN Printed([s EXCEPT !.at = @ + 1], Append(s.text, format[s.at]))
  ELSE IF format[s.at + 1] = "{" THEN Printed([s EXCEPT !.at = @ + 2], Append(s.text, "{"))
  ELSE ReadsPlaceholder([s EXCEPT !.at = CloseOf(@ + 1) + 1],
                        ValueAt(s.at + 1), OriginalAt(s.at + 1))

After[n \in 0..Len(format)] ==
  IF n = 0 THEN [at |-> 1, text |-> <<>>, around |-> <<>>, counter |-> 0,
                 stopped |-> FALSE, crossed |-> FALSE]
  ELSE Reads(After[n - 1])

Reading == After[Len(format)]

(* What is printed is what the format says when its conditionals are read   *)
(* as blocks, one in the other: the scanner that skips a block and the one  *)
(* that prints agree on where each ends, with "{{", invalid arguments, and  *)
(* ends that are missing or too many (format.c:351). Blocks that cross each *)
(* other are left out: the code counts each kind on its own.                *)
BlocksRight == ~Busy => Reading.crossed \/ buffer = Reading.text

(* The bytes of escapes, how many others there are, and of how many         *)
(* characters those are.                                                    *)
Hidden(s) == UNION {i..(i - 1 + EscapeLength(s, i)) : i \in {j \in DOMAIN s : s[j] = "ESC"}}
Bytes(s) == Len(s) - Cardinality(Hidden(s))
Width(s) == Cardinality({i \in DOMAIN s \ Hidden(s) : s[i] \notin ContinuationBytes})
OneByteEach(s) == \A i \in DOMAIN s : s[i] \notin ContinuationBytes
Escapes(s) ==
  LET upto[n \in 0..Len(s)] ==
        IF n = 0 THEN <<>>
        ELSE IF n \in Hidden(s) THEN Append(upto[n - 1], s[n]) ELSE upto[n - 1]
  IN upto[Len(s)]

(* Colors stand around a value that begins with one, or there are none.     *)
Enclosed(s) ==
  LET hidden == Hidden(s)
      plain == DOMAIN s \ hidden
  IN /\ hidden = {} \/ 1 \in hidden
     /\ \A i, j \in plain : i..j \subseteq plain

(* What is asked for, of a size: all of it, with one given up for the dots; *)
(* or with `:` no more than it, and the dots.                               *)
FillsOut(sep, n, size, sizeOf, dots) ==
  IF sep # ":" THEN size = IF dots = 0 THEN n ELSE n - 1 + dots
  ELSE size <= Least(n, sizeOf) + dots

(* A value that is cut or padded has the width that is asked for, or with   *)
(* `:` no more, and one for the ellipsis; the colors around it do not count *)
(* and are all still there (format.c:310). This is so if all its characters *)
(* have one byte. The code counts and cuts bytes (format.c:653): of any     *)
(* value, what is shown has as many as were asked for, two more with the    *)
(* ellipsis; with longer characters it is narrower than that, and may end   *)
(* within one.                                                              *)
WidthRight ==
  fitted # Nothing /\ Enclosed(fitted.of) =>
    LET n == Least(IF fitted.number < 0 THEN -fitted.number ELSE fitted.number, IntMax)
        dotted == fitted.number < 0 /\ Bytes(fitted.of) > n
    IN /\ FillsOut(fitted.sep, n, Bytes(fitted.shown), Bytes(fitted.of), IF dotted THEN 3 ELSE 0)
       /\ OneByteEach(fitted.of) =>
            FillsOut(fitted.sep, n, Width(fitted.shown), Width(fitted.of), IF dotted THEN 1 ELSE 0)
       /\ Escapes(fitted.shown) = Escapes(fitted.of)
=============================================================================
