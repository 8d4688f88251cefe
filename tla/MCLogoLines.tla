----------------------------- MODULE MCLogoLines -----------------------------
(* Logos of all types at all positions, with and without --watch, and modules  *)
(* that ask the terminal while the rounds go by.                               *)
EXTENDS LogoLines

Plain == [type |-> "none", position |-> "left", lines |-> <<>>, width |-> 0, height |-> 0,
          left |-> 1, right |-> 1, top |-> 1, bottom |-> 1, watch |-> TRUE,
          printRemaining |-> TRUE, frames |-> {}, turns |-> FALSE, mayVanish |-> FALSE,
          questions |-> 0, keys |-> 3, sizes |-> {},
          next |-> <<"lines">>, detected |-> <<1, 2>>, unknown |-> {}, mistaken |-> {}]

Positions == {"left", "right", "top", "auto"}
Text ==
  {[Plain EXCEPT !.type = "lines", !.lines = lines, !.position = position, !.watch = watch,
                 !.left = left, !.height = height] :
     lines \in {<<1>>, <<1, 2, 1>>}, position \in Positions, watch \in BOOLEAN,
     left \in 0..1, height \in {0, 2}}
Spinning ==
  {[Plain EXCEPT !.type = "spin", !.lines = <<2, 2>>, !.frames = {<<2, 2>>, <<1>>},
                 !.position = position, !.turns = turns, !.mayVanish = TRUE] :
     position \in Positions, turns \in BOOLEAN}
Images ==
  {[Plain EXCEPT !.type = "raw", !.lines = <<2, 2>>, !.width = given[1], !.height = given[2],
                 !.position = position, !.watch = watch, !.keys = 2] :
     given \in {<<2, 2>>, <<2, 0>>, <<0, 0>>}, position \in Positions, watch \in BOOLEAN}

\* The protocols; kitten centres an image in a width of 4
Protocols ==
  {[Plain EXCEPT !.type = type, !.lines = <<2, 2>>, !.width = given[1], !.height = given[2],
                 !.position = position, !.watch = FALSE, !.keys = 2, !.mayVanish = TRUE] :
     type \in {"iterm", "direct", "icat"}, given \in {<<2, 2>>, <<4, 0>>, <<0, 0>>},
     position \in Positions}
\* Sixel, kitty and chafa, with a size that is given, measured, or read from the cache
Measurable ==
  {[Plain EXCEPT !.type = type, !.lines = lines, !.width = given[1], !.height = given[2],
                 !.position = position, !.watch = watch, !.keys = 2, !.top = Len(lines) - 1,
                 !.mistaken = {<<1, 3>>}] :
     type \in Decoded, lines \in {<<2>>, <<2, 2>>}, given \in {<<2, 2>>, <<0, 0>>},
     position \in Positions, watch \in BOOLEAN}
\* Without padding on the right: no line is fed below an image at the top, and lines of one column
\* on the right begin two columns before the end
Unpadded ==
  {[Plain EXCEPT !.type = type, !.lines = IF type = "lines" THEN <<1, 1>> ELSE <<2, 2>>,
                 !.position = position, !.watch = watch, !.keys = 2, !.right = 0] :
     type \in Sent \union {"lines"}, position \in {"right", "top"}, watch \in BOOLEAN}
\* A logo without a type: a raw file, an image, and a file of text are tried
Untyped ==
  {[Plain EXCEPT !.type = "raw", !.next = <<"iterm", "pixels", "lines">>, !.lines = <<2, 2>>,
                 !.position = "auto", !.keys = 2, !.mayVanish = TRUE, !.unknown = unknown,
                 !.mistaken = {<<1, 3>>}] :
     unknown \in {{}, {"pixels"}, {"cells", "pixels"}}}
Others ==
  {[Plain EXCEPT !.questions = 2, !.keys = 1, !.sizes = {<<3, 5>>, <<9, 2>>}],
   [Plain EXCEPT !.type = "lines", !.lines = <<1, 1>>, !.watch = FALSE,
                 !.printRemaining = FALSE],
   [Plain EXCEPT !.type = "raw", !.lines = <<2, 2>>, !.questions = 1, !.keys = 1]}
\* Ctrl+Up
MCNumberKeys == {<<Csi, Digit(1), Sep, Digit(2), Key>>}
MCOptions == Text \union Spinning \union Images \union Protocols \union Measurable
               \union Unpadded \union Untyped \union Others
=============================================================================
