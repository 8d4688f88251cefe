------------------------------ MODULE GenConfig ------------------------------
(* The interactive configuration of `--gen-config` (genconfig.c): a list of *)
(* modules in columns that scroll, the keys that edit it, the bytes these   *)
(* keys are made of, and the question before a file is overwritten. What is *)
(* saved goes to ConfigFile.                                                *)
EXTENDS Integers, Sequences, SequencesExt, FiniteSetsExt

CONSTANTS Order,         \* the modules by their defaultOrder (compareModuleInfo)
          Break, Separator,
          NameLength,    \* the lengths of the names
          Starts,        \* what the program is started with, what the file is, and what
                         \* happens to the program
          TerminalSizes, \* what the terminal may be resized to
          ReadSize,      \* readKey reads so many bytes and uses the first key
          Blank,
          Missing, Foreign, \* no file; one that was there at the start
          Late,             \* one that somebody else makes while the keys are read
          MaxItems, MaxKeys, MaxTyped   \* bounds: the list, keys and resizes, bytes that wait

Names == Range(Order) \cup {Break, Separator}
Modules == Names \ {Break, Separator}

(* The choices for the logo, in the order the keys go through them.         *)
Types == <<"auto", "small", "none">>
Positions == <<"auto", "left", "right", "top">>

(* The keys as bytes: an arrow key is three. A letter is its own byte.      *)
CommandKeys == {"up", "k", "down", "j", "left", "right", "g", "G", "space", "f", "F", "J",
                "K", "b", "B", "d", "D", "l", "L", "p", "P", "o"}
SaveKeys == {"s", "enter"}
QuitKeys == {"q", "escape"}      \* and ^C, ^D, ^Z and ^\, which raise no signal
ArrowBytes == {<<"esc", "[", letter>> : letter \in {"A", "B", "C", "D"}}
Letters == (CommandKeys \cup SaveKeys \cup {"q", "y", "Y", "n", "N"})
             \ {"up", "down", "left", "right"}
Keyboard == ArrowBytes \cup {<<l>> : l \in Letters \cup {"esc"}}
Events == {<<"resize">>, <<"appear">>}

ASSUME GenConfigAssumption ==
  /\ Order \in Seq(Names) /\ Break # Separator /\ Modules # {}
  /\ \A i, j \in DOMAIN Order : Order[i] = Order[j] => i = j
  /\ Missing # Foreign /\ Late # Foreign
  /\ NameLength \in [Names -> Nat]
  /\ \A s \in TerminalSizes : s.rows \in Nat /\ s.cols \in Nat
  /\ ReadSize \in Nat \ {0}
  /\ \A s \in Starts :
       /\ s.file \in {Missing, Foreign}
       /\ s.logo.position \in Range(Positions)
       /\ s.keyboard \subseteq Keyboard \cup Events

VARIABLES phase,         \* "argv", then "start", "draw", "read", then "save", "write" or "cancel"
          size,          \* of the terminal
          typed,         \* bytes that wait to be read
          keys,          \* how many keys were pressed, and how often it was resized
          items, cursor, viewOffset, logo, fullConfig, confirming, layout,
          screen,        \* what the frame shows that the next key answers
          existed,       \* fileExists, as it was seen at the start
          file,          \* what is in the file now
          loadedLogo,    \* type and position of instance.config.logo
          structure, disabled, \* of FFdata: -s and --structure-disabled; main() sets them
          jsonOutput,    \* data->resultDoc: --format json was given, too
          keyboard       \* bound: the keys that are pressed, and what else happens

ui == <<items, cursor, viewOffset, logo, fullConfig, confirming, layout>>
data == <<loadedLogo, structure, disabled, jsonOutput, keyboard>>
uiVars == <<phase, size, typed, keys, ui, screen, existed, file, data>>

AtLeast(low, n) == IF n < low THEN low ELSE n
AtMost(high, n) == IF n > high THEN high ELSE n
CeilDiv(n, d) == (n + d - 1) \div d

Item(name, status) == [name |-> name, status |-> status]

(* Breaks and separators are neither selected nor not.                      *)
InitItems ==
  [i \in DOMAIN Order |->
     Item(Order[i],
          IF Order[i] \in {Break, Separator} THEN "special"
          ELSE IF Order[i] \in Range(structure) \ disabled THEN "selected"
          ELSE "unselected")]

Chosen(list) ==
  LET taken == SelectSeq(list, LAMBDA it : it.status # "unselected")
  IN [i \in DOMAIN taken |-> taken[i].name]
-----------------------------------------------------------------------------
(* The columns that the longest name leaves room for, and no more than the  *)
(* items need. Eleven rows are taken by everything else.                    *)
Layout(list) ==
  LET listRows == AtLeast(11, size.rows) - 11
      colWidth == Max({NameLength[list[i].name] : i \in DOMAIN list} \cup {0}) + 6
      gridWidth == IF size.cols > 4 THEN size.cols - 4 ELSE 1
      columns == IF list = <<>> \/ listRows = 0 THEN 1
                 ELSE AtMost(AtLeast(1, gridWidth \div colWidth),
                             CeilDiv(Len(list), listRows))
  IN [rows |-> listRows, columns |-> columns,
      perColumn |-> IF list = <<>> THEN 1 ELSE CeilDiv(Len(list), columns)]

(* recomputeView: every column is scrolled by the same number of rows.      *)
ViewNoScroll(lay, at) == viewOffset   \* mutant: the view stays where it is

View(lay, at) ==
  LET row == at % lay.perColumn
      top == IF row < viewOffset THEN row
             ELSE IF row >= viewOffset + lay.rows THEN row - lay.rows + 1
             ELSE viewOffset
  IN IF lay.perColumn <= lay.rows THEN 0 ELSE AtMost(lay.perColumn - lay.rows, top)

(* The item that a cell of the grid shows, if any (renderFrame).            *)
Cell(r, c) ==
  LET index == viewOffset + r + c * layout.perColumn
  IN IF r < layout.perColumn /\ index < Len(items) THEN index ELSE Blank

Cells == (0..(layout.rows - 1)) \X (0..(layout.columns - 1))

(* renderFrame: the list, and what is chosen for everything else.           *)
Draw ==
  /\ phase = "draw"
  /\ LET lay == Layout(items)
         at == AtMost(AtLeast(0, Len(items) - 1), cursor)
     IN /\ layout' = lay /\ cursor' = at
        /\ viewOffset' = View(lay, at)
  /\ screen' = [asked |-> confirming, logo |-> logo, full |-> fullConfig,
                list |-> Chosen(items)]
  /\ phase' = "read"
  /\ UNCHANGED <<size, typed, keys, items, logo, fullConfig, confirming, existed, file, data>>
-----------------------------------------------------------------------------
(* What the keys do to the list; the list is never empty for them.          *)
MoveCursor(to) == cursor' = to /\ UNCHANGED <<items, viewOffset, logo, fullConfig, layout>>

Final == IF items = <<>> THEN 0 ELSE Len(items) - 1

Up == MoveCursor(IF cursor > 0 THEN cursor - 1 ELSE Final)
Down == MoveCursor(IF cursor + 1 < Len(items) THEN cursor + 1 ELSE 0)
Left == MoveCursor(IF cursor >= layout.perColumn THEN cursor - layout.perColumn ELSE cursor)
Right == MoveCursor(IF cursor + layout.perColumn < Len(items)
                    THEN cursor + layout.perColumn ELSE cursor)

Edit(list, to) ==
  items' = list /\ cursor' = to /\ UNCHANGED <<viewOffset, logo, fullConfig, layout>>

Flipped(it) ==
  [it EXCEPT !.status = CASE @ = "selected" -> "unselected"
                          [] @ = "unselected" -> "selected"
                          [] OTHER -> @]

Toggle == Edit([items EXCEPT ![cursor + 1] = Flipped(@)], cursor)

SelectAll ==
  Edit([i \in DOMAIN items |-> [items[i] EXCEPT
          !.status = IF @ = "special" THEN @ ELSE "selected"]], cursor)

InvertAll == Edit([i \in DOMAIN items |-> Flipped(items[i])], cursor)

Swapped(i, j) == [items EXCEPT ![i] = items[j], ![j] = items[i]]

MoveItemDown ==
  IF cursor + 1 >= Len(items) THEN UNCHANGED ui
  ELSE Edit(Swapped(cursor + 1, cursor + 2), cursor + 1)

MoveItemUp ==
  IF cursor = 0 THEN UNCHANGED ui ELSE Edit(Swapped(cursor + 1, cursor), cursor - 1)

AddBelow(name) ==
  Len(items) < MaxItems /\ Edit(InsertAt(items, cursor + 2, Item(name, "special")), cursor)

Clamped(list) == IF cursor >= Len(list) /\ list # <<>> THEN Len(list) - 1 ELSE cursor

RemoveAny ==        \* mutant: a module can be deleted
  LET list == RemoveAt(items, cursor + 1) IN Edit(list, Clamped(list))

RemoveSpecial ==
  IF items[cursor + 1].status # "special" THEN UNCHANGED ui
  ELSE LET list == RemoveAt(items, cursor + 1) IN Edit(list, Clamped(list))

(* From the last item to the first.                                         *)
WithoutSpecial(list) ==
  LET left[k \in 0..Len(list)] ==
        IF k = 0 THEN list
        ELSE LET rest == left[k - 1]
                 i == Len(list) - k + 1
             IN IF rest[i].status = "special" THEN RemoveAt(rest, i) ELSE rest
  IN left[Len(list)]

RemoveAllBreaksSeparators ==
  LET list == WithoutSpecial(items) IN Edit(list, Clamped(list))

Cycled(seq, value, delta) ==
  LET i == CHOOSE k \in DOMAIN seq : seq[k] = value
  IN seq[((i - 1 + delta) % Len(seq)) + 1]

SetLogo(new) == logo' = new /\ UNCHANGED <<items, cursor, viewOffset, fullConfig, layout>>

CycleLogoType(delta) == SetLogo([logo EXCEPT !.type = Cycled(Types, @, delta)])
CycleLogoPosition(delta) == SetLogo([logo EXCEPT !.position = Cycled(Positions, @, delta)])

ToggleOutput ==
  fullConfig' = ~fullConfig /\ UNCHANGED <<items, cursor, viewOffset, logo, layout>>

Command(k) ==
  \/ k \in {"up", "k"} /\ Up
  \/ k \in {"down", "j"} /\ Down
  \/ k = "left" /\ Left
  \/ k = "right" /\ Right
  \/ k = "g" /\ MoveCursor(0)
  \/ k = "G" /\ MoveCursor(Final)
  \/ k = "space" /\ Toggle
  \/ k = "f" /\ SelectAll
  \/ k = "F" /\ InvertAll
  \/ k = "J" /\ MoveItemDown
  \/ k = "K" /\ MoveItemUp
  \/ k = "b" /\ AddBelow(Break)
  \/ k = "B" /\ AddBelow(Separator)
  \/ k = "d" /\ RemoveSpecial
  \/ k = "D" /\ RemoveAllBreaksSeparators
  \/ k = "l" /\ CycleLogoType(1)
  \/ k = "L" /\ CycleLogoType(-1)
  \/ k = "p" /\ CycleLogoPosition(1)
  \/ k = "P" /\ CycleLogoPosition(-1)
  \/ k = "o" /\ ToggleOutput

Ask == confirming' = TRUE /\ UNCHANGED <<items, cursor, viewOffset, logo, fullConfig, layout>>

Answer(answered) ==
  confirming' = ~answered /\ UNCHANGED <<items, cursor, viewOffset, logo, fullConfig, layout>>

(* handleKey: what a key does, and whether the loop goes on.                *)
Confirmed(k) == k \in {"y", "Y"}

HandleKey(k) ==
  IF confirming
  THEN IF Confirmed(k) THEN phase' = "save" /\ UNCHANGED ui
       ELSE phase' = "draw" /\ Answer(k \in {"n", "N", "escape", "enter"})
  ELSE \/ /\ k \in SaveKeys
          /\ IF existed THEN phase' = "draw" /\ Ask ELSE phase' = "save" /\ UNCHANGED ui
       \/ k \in QuitKeys /\ phase' = "cancel" /\ UNCHANGED ui
       \/ phase' = "draw" /\ Command(k) /\ UNCHANGED confirming
       \/ /\ k \notin SaveKeys \cup QuitKeys \cup CommandKeys
          /\ phase' = "draw" /\ UNCHANGED ui

(* readKey: the first key of what was read; the rest of it is dropped.      *)
Arrow(letter) ==
  CASE letter = "A" -> "up" [] letter = "B" -> "down"
    [] letter = "C" -> "right" [] letter = "D" -> "left" [] OTHER -> "unknown"

KeyOf(bytes) ==
  IF Head(bytes) # "esc" THEN Head(bytes)
  ELSE IF Len(bytes) = 1 \/ bytes[2] # "[" THEN "escape"
  ELSE IF Len(bytes) = 2 THEN "unknown"
  ELSE Arrow(bytes[3])

(* Bound: other keys than arrows are pressed when the last one was read.    *)
Press(bytes) ==
  /\ phase = "read" /\ keys < MaxKeys /\ bytes \in keyboard
  /\ IF bytes \in ArrowBytes THEN Len(typed) + 3 <= MaxTyped ELSE typed = <<>>
  /\ typed' = typed \o bytes /\ keys' = keys + 1
  /\ UNCHANGED <<phase, size, ui, screen, existed, file, data>>

(* As many bytes as have come, up to ReadSize.                              *)
Read(n) ==
  /\ phase = "read" /\ n <= AtMost(ReadSize, Len(typed))
  /\ typed' = SubSeq(typed, n + 1, Len(typed))
  /\ HandleKey(KeyOf(SubSeq(typed, 1, n)))
  /\ UNCHANGED <<size, keys, screen, existed, file, data>>

(* The terminal is resized: the poll ends, and the frame is drawn again.    *)
Resize(s) ==
  /\ phase = "read" /\ s # size /\ keys < MaxKeys /\ <<"resize">> \in keyboard
  /\ size' = s /\ phase' = "draw" /\ keys' = keys + 1
  /\ UNCHANGED <<typed, ui, screen, existed, file, data>>

(* ffGenConfigInteractive up to the loop.                                   *)
ExistsNever == FALSE     \* mutant: nobody looks for the file

Existed == file # Missing

Start ==
  /\ phase = "start"
  /\ existed' = Existed
  /\ items' = InitItems
  /\ logo' = [loadedLogo EXCEPT !.type = IF @ \in Range(Types) THEN @ ELSE "auto"]
  /\ phase' = "draw"
  /\ UNCHANGED <<size, typed, keys, cursor, viewOffset, fullConfig, confirming, layout,
                 screen, file, data>>

(* applyConfig, and the end of ffGenConfigInteractive.                      *)
ApplyConfig ==
  /\ phase = "save"
  /\ IF jsonOutput THEN phase' = "cancel" /\ UNCHANGED <<loadedLogo, structure>>
     ELSE phase' = "write" /\ structure' = Chosen(items) /\ loadedLogo' = logo
  /\ UNCHANGED <<size, typed, keys, ui, screen, existed, file, disabled, jsonOutput, keyboard>>

(* Somebody else creates the file while the keys are read.                  *)
Appear ==
  /\ phase \in {"draw", "read"} /\ file = Missing /\ <<"appear">> \in keyboard
  /\ file' = Late
  /\ UNCHANGED <<phase, size, typed, keys, ui, screen, existed, data>>
-----------------------------------------------------------------------------
InitUI(s) ==
  /\ phase = "argv" /\ size \in TerminalSizes
  /\ typed = <<>> /\ keys = 0
  /\ items = <<>> /\ cursor = 0 /\ viewOffset = 0
  /\ fullConfig = FALSE /\ confirming = FALSE
  /\ layout = [rows |-> 0, columns |-> 0, perColumn |-> 0]
  /\ screen = [asked |-> FALSE, logo |-> s.logo, full |-> FALSE, list |-> <<>>]
  /\ existed = FALSE
  /\ structure = <<>> /\ disabled = {} /\ jsonOutput = FALSE
  /\ loadedLogo = s.logo /\ logo = s.logo /\ file = s.file /\ keyboard = s.keyboard

UI ==
  \/ Start \/ Draw \/ ApplyConfig \/ Appear
  \/ \E n \in 1..ReadSize : Read(n)
  \/ \E s \in TerminalSizes : Resize(s)
  \/ \E bytes \in Keyboard : Press(bytes)
-----------------------------------------------------------------------------
(* Whatever the list, the size of the terminal and the scrolling: while the *)
(* program waits for a key (genconfig.c:988) the item that the key is about *)
(* is on the screen, unless there is no row for the list, and no item is    *)
(* there twice.                                                             *)
CursorSeen ==
  phase = "read" =>
    /\ cursor < Len(items)
    /\ layout.rows > 0 => \E p \in Cells : Cell(p[1], p[2]) = cursor
    /\ \A p, q \in Cells : p # q => Cell(p[1], p[2]) # Cell(q[1], q[2])
                                      \/ Cell(p[1], p[2]) = Blank

(* The keys move the modules about and delete what they have added, but     *)
(* every module stays in the list, once (genconfig.c:207, 231, 954).        *)
ModulesKept ==
  phase \in {"draw", "read", "save"} =>
    LET kept == {i \in DOMAIN items : items[i].name \in Modules}
    IN {items[i].name : i \in kept} = Modules /\ Cardinality(kept) = Cardinality(Modules)

(* What was there when the program started is only replaced after the       *)
(* question was on the screen (genconfig.c:706).                            *)
NoSilentOverwrite ==
  phase \in {"save", "write"} /\ file = Foreign => screen.asked
=============================================================================
