------------------------------ MODULE LogoScreen ------------------------------
(* The screen of a terminal and what a logo of lines needs of it               *)
(* (logo/logo.c): its lines are put into a cache, to be printed one by one     *)
(* with the keys, or printed at once above them.                               *)
EXTENDS TerminalQuery

CONSTANTS Rows, Columns,   \* of the terminal; nothing here is longer or wider
          Options,         \* the values of instance.config.logo, with what happens to them: how
                           \* many keys a round has, what the modules ask, the terminal's size
          KeyWidths,       \* how wide they are
          Rounds,          \* how often --watch refreshes
          MinInfoWidth     \* FF_LOGO_AUTO_MIN_INFO_WIDTH

ASSUME LogoAssumption ==
  Rows \in Nat \ {0} /\ Columns \in Nat \ {0} /\ KeyWidths \subseteq Nat /\ MinInfoWidth \in Nat

VARIABLES
  at,            \* where run() is
  options,       \* instance.config.logo: the position "auto" is replaced when it is known
  cache,         \* instance.state.logoLineCache.lines
  nextLine,      \* the number of them that were printed
  rightOffset,   \* how far from the right edge they begin
  logoWidth, logoHeight, keysHeight,   \* of instance.state
  screen,        \* the cells of the terminal
  cursor,
  buffered,      \* the cursor moves that stdio still holds
  round,
  drawn,         \* the round the logo on the screen was drawn in, 0: there is none
  origin,        \* the row and column where it begins
  excuse,        \* "misplaced": the terminal did not say where it ends; "lost": it is gone
  shown,         \* the lines of keys of this round: where they began and how wide they are
  asked,         \* questions of modules so far
  size           \* what the terminal would say of its pixels

svars == <<at, options, cache, nextLine, rightOffset, logoWidth, logoHeight, keysHeight,
           screen, cursor, buffered, round, drawn, origin, excuse, shown, asked, size>>
vars == <<svars, qvars>>

Most(S) == CHOOSE n \in S : \A m \in S : m <= n
Least(a, b) == IF a < b THEN a ELSE b
Minus(a, b) == IF a > b THEN a - b ELSE 0

-----------------------------------------------------------------------------
(* The terminal: what is written changes a record of screen and cursor        *)

Blank == <<"blank", 0, 0>>
Shell == <<"shell", 0, 0>>   \* what was there before
LogoCell(line) == <<"logo", round, line>>
KeyCell == <<"key", round, Len(shown) + 1>>
Cells(n, cell) == [i \in 1..n |-> cell]

Terminal == [screen |-> screen, row |-> cursor[1], column |-> cursor[2]]

\* A row of the screen with text behind this column
With(cells, column, text) ==
  [c \in 1..Columns |-> IF c - column \in DOMAIN text THEN text[c - column] ELSE cells[c]]
Put(t, text) ==
  [t EXCEPT !.screen[t.row] = With(@, t.column, text),
            !.column = Least(t.column + Len(text), Columns - 1)]
NewLine(t) == [t EXCEPT !.row = Least(t.row + 1, Rows - 1), !.column = 0]
NewLines(t, n) == IF n = 0 THEN t ELSE [NewLine(t) EXCEPT !.row = Least(t.row + n, Rows - 1)]
Forward(t, n) == [t EXCEPT !.column = Least(t.column + n, Columns - 1)]
\* "\e[9999999C\e[<n>D", of which "\e[0D" moves by one
FromRight(t, n) == [t EXCEPT !.column = Minus(Columns - 1, Most({n, 1}))]
\* "\e[0A" is up by one line, too
UpBy(t, n) == [t EXCEPT !.row = Minus(t.row, Most({n, 1}))]
MoveTo(t, row, column) == [t EXCEPT !.row = row, !.column = column]
ClearLine(t) ==
  [t EXCEPT !.screen[t.row] = [c \in 1..Columns |-> IF c <= t.column THEN @[c] ELSE Blank]]
Empty == [r \in 0..Rows - 1 |-> Cells(Columns, Blank)]
ClearBelow(t) ==
  [ClearLine(t) EXCEPT
     !.screen = [r \in 0..Rows - 1 |-> IF r <= t.row THEN @[r] ELSE Cells(Columns, Blank)]]
ClearAll(t) == [t EXCEPT !.screen = Empty]
\* Lines behind this column, one below the other, each with a line feed
PutLines(t, column, texts) ==
  [t EXCEPT
     !.screen = [r \in 0..Rows - 1 |-> IF r - t.row + 1 \in DOMAIN texts
                                       THEN With(@[r], column, texts[r - t.row + 1]) ELSE @[r]],
     !.row = Least(t.row + Len(texts), Rows - 1),
     !.column = IF texts = <<>> THEN @ ELSE 0]

Apply(t, move) ==
  CASE move = "home"  -> MoveTo(t, 0, 0)
    [] move = "clear" -> ClearAll(t)
    [] move = "space" -> Put(t, <<Blank>>)
Applied(moves) ==
  LET after[n \in 0..Len(moves)] == IF n = 0 THEN Terminal ELSE Apply(after[n - 1], moves[n])
  IN after[Len(moves)]
\* What stdio holds reaches the terminal with whatever else goes through stdio ...
Flushed == Applied(buffered)
Shows(t) == screen' = t.screen /\ cursor' = <<t.row, t.column>>
Prints(t) == Shows(t) /\ buffered' = <<>>
\* ... but write(2) does not wait for it
Writes(t) == Shows(t) /\ UNCHANGED buffered

-----------------------------------------------------------------------------
(* The logo                                                                    *)

\* ffLogoSelectPosition
Position(o, width) ==
  IF o.position # "auto" THEN o.position
  ELSE IF Columns >= width /\ Columns - width >= MinInfoWidth THEN "left" ELSE "top"

\* logoLineCacheBuild: the lines of the logo with the padding, and lines without text up
\* to its height
LogoText(o, i) ==
  IF o.position = "right" THEN Cells(o.lines[i], LogoCell(i))
  ELSE Cells(o.left, Blank) \o Cells(o.lines[i], LogoCell(i))
MaxWidth(o) ==
  Most({o.width} \union {o.lines[i] + (IF o.position = "right" THEN 0 ELSE o.left) : i \in 1..Len(o.lines)})
Height(o) ==
  o.top + Most({IF o.type = "chafa" THEN 0 ELSE o.height, Minus(Len(o.lines), 1)})
Lines(o) ==
  [i \in 1..Height(o) + 1 |-> IF i - o.top \in 1..Len(o.lines) THEN LogoText(o, i - o.top) ELSE <<>>]

DrawnAt(row, column) == drawn' = round /\ origin' = <<row, column>>

\* ffLogoPrintChars: at the top it is printed at once, with write(2)
LogoPrintChars(o, t) ==
  LET position == Position(o, MaxWidth(o) + o.right)
      top == NewLines(PutLines(t, t.column, Lines(o)), o.bottom)
  IN /\ options' = [o EXCEPT !.position = position]
     /\ DrawnAt(t.row + o.top,
                IF position = "right" THEN FromRight(t, MaxWidth(o) + o.right - 1).column ELSE o.left)
     /\ nextLine' = 0
     /\ rightOffset' = MaxWidth(o) + o.right - 1
     /\ IF position = "top"
        THEN Shows(top) /\ cache' = <<>> /\ logoWidth' = 0 /\ logoHeight' = 0
        ELSE /\ Shows(t) /\ cache' = Lines(o)
             /\ logoHeight' = Height(o)
             /\ logoWidth' = IF position = "left" THEN MaxWidth(o) + o.right ELSE 0
===============================================================================
