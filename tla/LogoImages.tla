------------------------------ MODULE LogoImages ------------------------------
(* Images (logo/image/image.c, and ffLogoPrintCharsRaw of logo/logo.c): bytes  *)
(* that the terminal draws.  Where they end is known by a size that was given, *)
(* by the size of the image and of a cell, or by asking for the cursor.  An    *)
(* image that cannot be printed gives way to another type of logo, at last to  *)
(* the lines of the detected one.                                              *)
EXTENDS LogoScreen

Sent == {"raw", "iterm", "direct", "icat"}
Decoded == {"pixels", "chafa"}
Types == Sent \union Decoded \union {"lines", "spin", "none"}

\* What is tried of a logo, in this order (ffLogoPrint): an image that the terminal decodes comes
\* before one that fastfetch decodes, and at last come lines, which do not fail
Tried(o) == <<o.type>> \o o.next
InOrder(o) ==
  /\ o.type \in Types /\ o.next \in Seq(Types)
  /\ \A i \in 1..Len(Tried(o)) :
       /\ Tried(o)[i] \in Sent \union Decoded => i < Len(Tried(o))
       /\ Tried(o)[i] \in Decoded => \A j \in i..Len(Tried(o)) : Tried(o)[j] \notin Sent

ASSUME OrderAssumption == \A o \in Options : {"type", "next"} \subseteq DOMAIN o /\ InOrder(o)

LogoOptions ==
  [type : Types, next : Seq(Types), position : {"left", "right", "top", "auto"},
   width : Nat, height : Nat, left : Nat, right : Nat, top : Nat, bottom : Nat,
   watch : BOOLEAN, printRemaining : BOOLEAN,
   lines : Seq(Nat),            \* how wide they are, of an image too
   detected : Seq(Nat),         \* those of the logo that is printed instead
   frames : SUBSET Seq(Nat), turns : BOOLEAN, mayVanish : BOOLEAN,
   questions : Nat, keys : Nat, sizes : SUBSET (Nat \X Nat),
   unknown : SUBSET Kinds, mistaken : SUBSET (Nat \X Nat)]

\* It all fits on the screen below the line of the shell, with a key beside it, and an image is a
\* rectangle that has the size it was given
Heights(o) ==
  {Len(o.lines), Len(o.detected)} \union {Len(frame) : frame \in o.frames}
    \union {cells[2] : cells \in o.mistaken}
Widths(o) ==
  {1, o.width} \union {cells[1] : cells \in o.mistaken}
    \union UNION {{text[i] : i \in 1..Len(text)} : text \in {o.lines, o.detected} \union o.frames}
FitsAcross(o) ==
  \A width \in Widths(o), key \in KeyWidths \union {1} : o.left + width + o.right + key < Columns
Rectangle(o) ==
  \A i \in 1..Len(o.lines) :
    o.lines[i] = o.lines[1] /\ (o.type \in Sent /\ o.width > 0 => o.lines[i] <= o.width)
Fits(o) ==
  /\ o \in LogoOptions /\ FitsAcross(o)
  /\ \A n \in Heights(o) :
       o.top + Most({o.height, n}) + o.bottom + o.right + o.keys + 4 <= Rows
  /\ o.type \in Sent \union Decoded =>
       Len(o.lines) > 0 /\ Rectangle(o) /\ \A cells \in o.mistaken : cells[2] > 0
  /\ o.type \in Sent /\ o.width > 0 /\ o.height > 0 => Len(o.lines) = o.height

ASSUME FitsAssumption == \A o \in Options : Fits(o)

\* The image is drawn where the cursor is, which it leaves behind its last line
Image(o, t) ==
  LET last == Len(o.lines)
      texts == [i \in 1..last |-> Cells(o.lines[i], LogoCell(i))]
  IN MoveTo(PutLines(t, t.column, texts), t.row + last - 1, t.column + o.lines[last])
Widest(o) == Most({o.lines[i] : i \in 1..Len(o.lines)})

\* "raw" does not flush what stdio holds, the protocols do
Begun(o) == IF o.type = "raw" THEN Terminal ELSE Flushed
Draws(o, t) == IF o.type = "raw" THEN Writes(t) ELSE Prints(t)

-----------------------------------------------------------------------------
(* Images that the terminal decodes                                            *)

\* With a size that is known no question is needed
ImageSized(o, t) ==
  LET down == NewLines(t, o.top)
      start == IF o.position = "right" THEN FromRight(down, o.right + o.width)
               ELSE Forward(down, o.left)
      below == NewLine(Image(o, start))
      height == o.top + o.height
  IN /\ DrawnAt(start.row, start.column)
     /\ CASE o.position = "left"  -> /\ Draws(o, UpBy(below, height))
                                     /\ logoWidth' = o.width + o.left + o.right
                                     /\ logoHeight' = height
          [] o.position = "top"   -> /\ Draws(o, NewLines(below, o.right))
                                     /\ logoWidth' = 0 /\ logoHeight' = 0
          [] o.position = "right" -> /\ Draws(o, UpBy(below, o.height))
                                     /\ logoWidth' = 0 /\ logoHeight' = 0
     /\ at' = "keys"
     /\ UNCHANGED qvars

\* With a size that is not: the screen is cleared, and the terminal is asked where the image ends
ImageAsked(o, t, column) ==
  /\ DrawnAt(o.top, column)
  /\ Draws(o, Image(o, MoveTo(ClearAll(t), o.top, column)))
  /\ logoWidth' = 0 /\ logoHeight' = 0
  /\ at' = "cursor"
  /\ Ask("cursor")

ImageAtTop(o, t, column) ==
  /\ DrawnAt(t.row + o.top, column)
  /\ Prints(NewLines(Image(o, Forward(NewLines(t, o.top), column)), o.right))
  /\ logoWidth' = 0 /\ logoHeight' = 0
  /\ at' = "keys"
  /\ UNCHANGED qvars

Resolved ==
  [options EXCEPT !.position = Position(options, options.width + options.left + options.right)]

\* On the right an image needs a width; `kitten` is not told where to begin, but on the left
Supported(o) ==
  IF o.type = "icat" THEN o.position = "left" \/ (o.position = "top" /\ o.width = 0)
  ELSE ~(o.position = "right" /\ o.width = 0)

PrintSent(o, t) ==
  /\ at = "logo" /\ Supported(o)
  /\ options' = o
  /\ IF o.width > 0 /\ o.height > 0 THEN ImageSized(o, t)
     ELSE IF o.position = "top" THEN ImageAtTop(o, t, o.left)
     ELSE ImageAsked(o, t, IF o.position = "right" THEN Minus(Columns - 1, o.right + o.width)
                           ELSE o.left)
  /\ UNCHANGED <<cache, nextLine, rightOffset, keysHeight, round, excuse, shown, asked, size>>

LogoPrintRaw == options.type = "raw" /\ PrintSent(Resolved, Begun(options))
PrintImageIterm == options.type = "iterm" /\ PrintSent(Resolved, Begun(options))
PrintImageKittyDirect == options.type = "direct" /\ PrintSent(Resolved, Begun(options))

\* appendIcatOutput: in the width that was asked for, `kitten` has centred the image, and that is
\* kept; output of an unknown layout keeps the carriage return it begins with
IcatColumns(o) ==
  IF o.width > 0 THEN {o.left + Minus(o.width, Widest(o)) \div 2} ELSE {o.left, 0}

PrintImageKittyIcat ==
  LET o == Resolved
  IN /\ at = "logo" /\ options.type = "icat" /\ Supported(o)
     /\ options' = o
     /\ \E column \in IcatColumns(o) :
          IF o.position = "top" THEN ImageAtTop(o, Flushed, column)
          ELSE ImageAsked(o, Flushed, column)
     /\ UNCHANGED <<cache, nextLine, rightOffset, keysHeight, round, excuse, shown, asked, size>>

\* Their rest, when the terminal has answered where the image ended, or has not
ImagePlaced ==
  /\ at = "cursor" /\ call.step = "done"
  /\ IF call.values = <<>> THEN UNCHANGED <<logoWidth, logoHeight, buffered>>
     ELSE /\ logoWidth' = IF options.position = "left"
                          THEN Most({call.values[2], options.width + options.left}) + options.right - 1
                          ELSE 0
          /\ logoHeight' = call.values[1]
          /\ buffered' = buffered \o (IF options.type = "iterm" THEN <<"space", "home">> ELSE <<"home">>)
  /\ excuse' = IF call.values # <<>> /\ call.values = call.truth THEN "none" ELSE "misplaced"
  /\ at' = "keys"
  /\ UNCHANGED <<options, cache, nextLine, rightOffset, keysHeight, screen, cursor, round,
                 drawn, origin, shown, asked, size, qvars>>

-----------------------------------------------------------------------------
(* Images that fastfetch decodes: sixel and kitty ("pixels"), and chafa, which *)
(* makes characters of them                                                    *)

\* getCharacterPixelDimensions: what the driver of the tty does not know is asked
Measure ==
  /\ at = "logo" /\ options.type \in Decoded
  /\ options.unknown # {}
  /\ Ask(IF "cells" \in options.unknown THEN "cells" ELSE "pixels")
  /\ at' = "measuring"
  /\ UNCHANGED <<options, cache, nextLine, rightOffset, logoWidth, logoHeight, keysHeight,
                 screen, cursor, buffered, round, drawn, origin, excuse, shown, asked, size>>
MeasureOn ==
  /\ at = "measuring" /\ call.step = "done" /\ call.kind = "cells"
  /\ Ask("pixels")
  /\ at' = IF call.values = <<>> THEN "unmeasured" ELSE "measuring"
  /\ UNCHANGED <<options, cache, nextLine, rightOffset, logoWidth, logoHeight, keysHeight,
                 screen, cursor, buffered, round, drawn, origin, excuse, shown, asked, size>>

Sized == at = "measuring" /\ call.step = "done" /\ call.kind = "pixels"
Measured == \/ at = "logo" /\ options.unknown = {}
            \/ Sized /\ call.values # <<>>
Unmeasured == \/ at = "unmeasured" /\ call.step = "done"
              \/ Sized /\ call.values = <<>>

\* Its columns and rows, unless a wrong answer is taken for the size of a cell, or what was not
\* given is read from the cache, where it was counted in the cells of another font
Misread == (at = "measuring" /\ trouble) \/ options.width = 0 \/ options.height = 0
CharacterSizes ==
  {<<Widest(options), Len(options.lines)>>} \union (IF Misread THEN options.mistaken ELSE {})
At(width) ==
  [options EXCEPT !.position = Position(options, width + options.left + options.right)]

\* printImageResult, printCachedPixel: the image leaves the cursor on its last row
PixelsDrawn(o, width, height, t) ==
  LET down == NewLines(t, o.top)
      start == IF o.position = "right" THEN FromRight(down, o.right + width)
               ELSE Forward(down, o.left)
      drawing == Image(o, start)
      lines == height + o.top - 1
  IN /\ DrawnAt(start.row, start.column)
     /\ Prints(IF o.position = "top" THEN drawing ELSE [UpBy(drawing, lines) EXCEPT !.column = 0])
     /\ logoWidth' = IF o.position = "left" THEN width + o.left + o.right ELSE 0
     /\ logoHeight' = IF o.position = "left" THEN lines ELSE 0

PrintImagePixels ==
  /\ Measured /\ options.type = "pixels"
  /\ \E cells \in CharacterSizes :
       /\ options' = At(cells[1])
       /\ PixelsDrawn(At(cells[1]), cells[1], cells[2], Flushed)
       /\ excuse' = IF cells = <<Widest(options), Len(options.lines)>> THEN "none" ELSE "misplaced"
  /\ at' = "keys"
  /\ UNCHANGED <<cache, nextLine, rightOffset, keysHeight, round, shown, asked, size, qvars>>

\* printImageChafa, printCachedChars
PrintImageChafa ==
  /\ Measured /\ options.type = "chafa"
  /\ \E cells \in CharacterSizes :
       LogoPrintChars([At(cells[1]) EXCEPT !.lines = [i \in 1..cells[2] |-> cells[1]]], Terminal)
  /\ at' = "keys"
  /\ UNCHANGED <<keysHeight, buffered, round, excuse, shown, asked, size, qvars>>

-----------------------------------------------------------------------------
(* What is printed instead                                                     *)

\* The image cannot be read, converted or measured, or not at this position.  By then "auto" may
\* have been replaced by the position that was right for the image.
ImageFails ==
  /\ \/ at = "logo" /\ options.type \in Sent /\ (options.mayVanish \/ ~Supported(Resolved))
     \/ Measured /\ options.type \in Decoded /\ options.mayVanish
     \/ Unmeasured
  /\ \E o \in {options} \union
              (CASE options.type \in Sent -> {Resolved}
                 [] Measured -> {At(cells[1]) : cells \in CharacterSizes}
                 [] Unmeasured -> {}) :
       options' = [o EXCEPT !.type = Head(o.next), !.next = Tail(o.next),
                            !.lines = IF Head(o.next) = "lines" THEN o.detected ELSE @]
  /\ at' = "logo"
  /\ UNCHANGED <<cache, nextLine, rightOffset, logoWidth, logoHeight, keysHeight, screen, cursor,
                 buffered, round, drawn, origin, excuse, shown, asked, size, qvars>>

ImagePrint == \/ LogoPrintRaw \/ PrintImageIterm \/ PrintImageKittyDirect \/ PrintImageKittyIcat
              \/ ImagePlaced \/ Measure \/ MeasureOn \/ PrintImagePixels \/ PrintImageChafa
              \/ ImageFails
=============================================================================
