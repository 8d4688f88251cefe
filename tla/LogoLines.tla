------------------------------ MODULE LogoLines ------------------------------
(* The logo and the keys beside it (logo/logo.c, logo/spin/spin.c), on the     *)
(* screen of a terminal, over the rounds of --watch (run() in fastfetch.c).    *)
(* A logo of lines is printed from a cache, line by line with the keys; an     *)
(* image is printed at once, by the actions of LogoImages.                     *)
EXTENDS LogoImages

LogoPrintLines ==
  /\ at = "logo" /\ options.type = "lines"
  /\ LogoPrintChars(options, Terminal)
  /\ at' = "keys"
  /\ UNCHANGED <<keysHeight, buffered, round, excuse, shown, asked, size, qvars>>

LogoPrintNone ==
  /\ at = "logo" /\ options.type = "none"
  /\ at' = "keys" /\ logoWidth' = 0 /\ logoHeight' = 0
  /\ UNCHANGED <<options, cache, nextLine, rightOffset, keysHeight, screen, cursor, buffered,
                 round, drawn, origin, excuse, shown, asked, size, qvars>>

\* fflush(stdout), and what a spin logo would do without it
FlushNot(moves) == [terminal |-> Terminal, held |-> moves]
Flush(moves) == [terminal |-> Applied(moves), held |-> <<>>]

\* ffSpinLogoPrint: the frame is drawn like lines, after stdio was flushed; a frame of
\* another size needs a clean screen first
LogoPrintSpin ==
  /\ at = "logo" /\ options.type = "spin"
  /\ \E frame \in options.frames :
       LET resized == drawn # 0 /\ frame # options.lines
           flushed == Flush(buffered \o (IF resized THEN <<"clear", "home">> ELSE <<>>))
       IN /\ LogoPrintChars([options EXCEPT !.lines = frame], flushed.terminal)
          /\ buffered' = flushed.held
  /\ at' = "keys" /\ excuse' = "none"
  /\ UNCHANGED <<keysHeight, round, shown, asked, size, qvars>>

\* The file of the logo is gone: nothing is drawn, over what was
LogoPrintSpinFails ==
  /\ at = "logo" /\ options.type = "spin" /\ options.mayVanish
  /\ at' = "keys" /\ logoWidth' = 0 /\ logoHeight' = 0
  /\ excuse' = "lost"
  /\ UNCHANGED <<options, cache, nextLine, rightOffset, keysHeight, screen, cursor, buffered,
                 round, drawn, origin, shown, asked, size, qvars>>

LogoPrint == LogoPrintLines \/ LogoPrintNone \/ LogoPrintSpin \/ LogoPrintSpinFails \/ ImagePrint

-----------------------------------------------------------------------------
(* The keys                                                                    *)

\* ffLogoPrintLine, up to where the key begins
LineBegun(t) ==
  IF cache # <<>>
  THEN IF nextLine < Len(cache)
       THEN LET text == cache[nextLine + 1]
            IN IF options.position = "right"
               THEN [Put(FromRight(t, rightOffset), text) EXCEPT !.column = 0]
               ELSE Put(t, text \o Cells(Minus(logoWidth, Len(text)), Blank))
       ELSE IF options.position = "left" THEN Put(t, Cells(logoWidth, Blank)) ELSE t
  ELSE IF logoWidth > 0 THEN Forward(t, logoWidth) ELSE t

PrintKey ==
  /\ at = "keys"
  /\ Len(shown) < options.keys
  /\ \E width \in KeyWidths :
       LET begun == LineBegun(Flushed)
           clean == IF options.watch /\ options.position = "left" THEN ClearLine(begun) ELSE begun
       IN /\ Prints(NewLine(Put(clean, Cells(width, KeyCell))))
          /\ shown' = Append(shown, <<clean.row, clean.column, width>>)
  /\ nextLine' = IF nextLine < Len(cache) THEN nextLine + 1 ELSE nextLine
  /\ keysHeight' = keysHeight + 1
  /\ UNCHANGED <<at, options, cache, rightOffset, logoWidth, logoHeight, round, drawn,
                 origin, excuse, asked, size, qvars>>

\* The module TerminalSize asks, each time it is detected
AskSize ==
  /\ at = "keys" /\ asked < options.questions
  /\ \E kind \in Kinds \ {"cursor"} : Ask(kind)
  /\ at' = "asking" /\ asked' = asked + 1
  /\ UNCHANGED <<options, cache, nextLine, rightOffset, logoWidth, logoHeight, keysHeight,
                 screen, cursor, buffered, round, drawn, origin, excuse, shown, size>>
SizeDetected ==
  /\ at = "asking" /\ call.step = "done"
  /\ at' = "keys"
  /\ UNCHANGED <<options, cache, nextLine, rightOffset, logoWidth, logoHeight, keysHeight,
                 screen, cursor, buffered, round, drawn, origin, excuse, shown, asked, size,
                 qvars>>

-----------------------------------------------------------------------------
(* The end of a round                                                          *)

\* ffLogoPrintRemaining: the lines of the logo that no key stands beside, or a way past the image
RemainingLines(t) ==
  LET begun == IF options.position = "right" THEN FromRight(t, rightOffset) ELSE t
  IN PutLines(t, begun.column, Rest(cache, nextLine))
Remaining(t) ==
  IF cache # <<>> THEN RemainingLines(t)
  ELSE IF keysHeight <= logoHeight THEN NewLines(t, logoHeight - keysHeight + 1) ELSE t
PrintRemaining == cache' = <<>> /\ nextLine' = 0

\* Without --watch the program is done
Finish ==
  /\ at = "keys" /\ ~options.watch
  /\ IF options.printRemaining
     THEN /\ Prints(Remaining(Flushed)) /\ PrintRemaining
          /\ keysHeight' = logoHeight + 1
     ELSE Prints(Flushed) /\ UNCHANGED <<cache, nextLine, keysHeight>>
  /\ at' = "end"
  /\ ExitQuery
  /\ UNCHANGED <<options, rightOffset, logoWidth, logoHeight, round, drawn, origin, excuse,
                 shown, asked, size>>

\* With it, what is below is cleared, and the program sleeps
EndRound ==
  /\ at = "keys" /\ options.watch
  /\ Prints(ClearBelow(Remaining(Flushed)))
  /\ PrintRemaining
  /\ keysHeight' = logoHeight + 1
  /\ at' = "asleep"
  /\ UNCHANGED <<options, rightOffset, logoWidth, logoHeight, round, drawn, origin, excuse,
                 shown, asked, size, qvars>>

\* The next round begins at the top; only a logo that spins is drawn again (ffSpinTick)
Refresh ==
  /\ at = "asleep" /\ round < Rounds
  /\ round' = round + 1
  /\ buffered' = Append(buffered, "home")
  /\ keysHeight' = 0
  /\ shown' = <<>>
  /\ at' = IF options.type = "spin" /\ drawn # 0 /\ options.turns THEN "logo" ELSE "keys"
  /\ UNCHANGED <<options, cache, nextLine, rightOffset, logoWidth, logoHeight, screen,
                 cursor, drawn, origin, excuse, asked, size, qvars>>

\* SIGINT, SIGTERM or SIGQUIT: exitSignalHandler calls exit()
Signal ==
  /\ at \notin {"end", "killed"}
  /\ at' = "killed"
  /\ ExitQuery
  /\ UNCHANGED <<options, cache, nextLine, rightOffset, logoWidth, logoHeight, keysHeight,
                 screen, cursor, buffered, round, drawn, origin, excuse, shown, asked, size>>

-----------------------------------------------------------------------------
(* The terminal answers with what holds when the request reaches it            *)
Truth == CASE call.kind = "cursor" -> <<cursor[1] + 1, cursor[2] + 1>>
           [] call.kind = "cells"  -> <<Rows, Columns>>
           [] call.kind = "pixels" -> size

Zoom ==
  /\ at = "asleep"
  /\ size' \in options.sizes \ {size}
  /\ UNCHANGED <<at, options, cache, nextLine, rightOffset, logoWidth, logoHeight,
                 keysHeight, screen, cursor, buffered, round, drawn, origin, excuse, shown,
                 asked, qvars>>

Asking == (Question \/ Write(Truth)) /\ UNCHANGED svars
TheOtherEnd == at \notin {"end", "killed"} /\ (Deliver \/ Type) /\ UNCHANGED svars

Init ==
  /\ InitQuery
  /\ options \in Options
  /\ at = "logo" /\ cache = <<>> /\ nextLine = 0 /\ rightOffset = 0
  /\ logoWidth = 0 /\ logoHeight = 0 /\ keysHeight = 0
  \* the alternate screen is entered with --watch; else the shell's cursor is somewhere
  /\ IF options.watch THEN cursor = <<0, 0>> /\ screen = Empty
     ELSE cursor = <<1, 0>> /\ screen = [Empty EXCEPT ![0] = Cells(Columns, Shell)]
  /\ buffered = <<>>
  /\ round = 1 /\ drawn = 0 /\ origin = <<0, 0>> /\ excuse = "none" /\ shown = <<>> /\ asked = 0
  /\ size = <<3, 5>>

Alive == at \notin {"end", "killed"}
Running == Alive /\ Asking
Next == \/ LogoPrint \/ PrintKey \/ AskSize \/ SizeDetected \/ Finish \/ EndRound \/ Refresh
        \/ Signal \/ Zoom \/ Running \/ TheOtherEnd

Spec == Init /\ [][Next]_vars

-----------------------------------------------------------------------------
\* However the program ends, the terminal is as it was, and nothing that the tty had received by
\* then is left for the shell to read (io_unix.c:148, :197).  Named is what the code leaves open: a
\* signal between tcsetattr() and atexit(), and a tty that could not be set up.  Not promised is
\* what is still on its way (`wire`) when exit() discards: it comes after the last state here, and
\* the shell reads it.
Restored ==
  ~Alive =>
    /\ termios = "lines" \/ (at = "killed" /\ call.step = "register")
    /\ queue = <<>> \/ ~restores

LogoStands ==
  \A i \in 1..Len(options.lines) : \A j \in 1..options.lines[i] :
    screen[origin[1] + i - 1][origin[2] + j] = <<"logo", drawn, i>>

\* An image on the right whose size is known: its height is set to 0, as if there were none
HeightForgotten ==
  /\ options.position = "right"
  /\ \/ options.type \in Sent /\ options.width > 0 /\ options.height > 0
     \/ options.type = "pixels"
Static == options.type # "spin" \/ ~options.turns

\* After an image at the top whose size is not given as many lines are fed as there is padding on
\* the right, after a sixel or kitty image none: the first key stands in their last row
InLastRow ==
  /\ options.position = "top"
  /\ \/ options.type = "pixels"
     \/ /\ options.type \in Sent /\ options.right = 0
        /\ options.width = 0 \/ options.height = 0
\* Of one row and nothing above it the height is 0, and "\e[0A" goes up by one
OneRow == /\ options.type = "pixels" /\ options.position # "top"
          /\ options.top = 0 /\ Len(options.lines) = 1

\* What the shell had written is there as a whole, or gone with the screen
ShellStands ==
  LET kept == {c \in 1..Columns : screen[0][c] = Shell}
  IN options.watch \/ OneRow \/ kept = {} \/ kept = 1..Columns

\* In every round of --watch, and at the end without it, the logo is on the screen as a whole, no
\* key is written over it or over what was there before, and every key of the round is there, one
\* below the other in one column, with nothing of an earlier round behind it (logo.c:746,
\* fastfetch.c:821).  Named is what the code leaves open: a logo whose end the terminal did not
\* tell or whose size was of another font, or that is gone, a logo above the keys that is not drawn
\* again, an image on the right whose height is forgotten, the first key in the last row of an image
\* at the top that feeds no lines, and the keys above a sixel or kitty image of one row.
KeysBesideLogo ==
  at \in {"asleep", "end"} /\ excuse = "none" =>
    /\ \/ drawn = 0 \/ LogoStands \/ ~options.printRemaining
       \/ HeightForgotten \/ (Static /\ options.position = "top" /\ round > 1)
    /\ ShellStands
    /\ \A i \in 1..Len(shown) :
         LET row == shown[i][1]  column == shown[i][2]  width == shown[i][3]
         IN /\ row = shown[1][1] + i - 1
            /\ column = shown[Len(shown)][2] \/ (InLastRow /\ i = 1)
            /\ \A c \in 1..width : screen[row][column + c] = <<"key", round, i>>
            /\ options.watch /\ options.position = "left" =>
                 \A c \in column + width + 1..Columns : screen[row][c] = Blank

\* Below the longer of the two the next thing is written: a round leaves nothing there, and the
\* prompt of the shell stands beside neither (logo.c:785).  Named: of an image of known size on the
\* right the code forgets the height, one of one row is taken for none, and a logo above the keys is
\* above them.
EndsBelow ==
  at \in {"asleep", "end"} /\ excuse = "none" /\ options.printRemaining =>
    /\ cursor[2] = 0
    /\ \A i \in 1..Len(shown) : shown[i][1] < cursor[1]
    /\ \/ drawn = 0 \/ options.position = "top"
       \/ HeightForgotten \/ OneRow
       \/ \A i \in 1..Len(options.lines) : origin[1] + i - 1 < cursor[1]
    /\ options.watch =>
         \A row \in cursor[1]..Rows - 1 : \A c \in 1..Columns : screen[row][c] = Blank
=============================================================================
