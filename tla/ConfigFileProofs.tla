--------------------------- MODULE ConfigFileProofs ---------------------------
(* Whatever modules, options, keys, bytes and sizes of the terminal there   *)
(* are: no file that was there when `--gen-config` started is replaced      *)
(* unless the question was on the screen; the item that a key is about is   *)
(* on the screen; and no module leaves the list. And whatever options and   *)
(* commands are given, in whatever order: the two readings of the arguments *)
(* leave what one reading of them means.                                    *)
EXTENDS ConfigFile, NumberInduction, SequenceTheorems, FiniteSetTheorems, TLAPS

(* What was there is known to have been there as long as keys are read,     *)
(* whatever another program makes meanwhile ...                             *)
KnownToExist ==
  interactive /\ phase \in {"draw", "read"} /\ file = Foreign => existed

(* ... and a key is handled in the mode that the frame shows.               *)
FrameIsCurrent == phase = "read" => screen.asked = confirming

(* The command line asks for a config without questions only where none is. *)
FoundNone ==
  phase = "argv" =>
    /\ world.exists = Existed
    /\ fdata.genConfig /\ ~interactive => ~world.exists

Members == {"genConfig", "interactive", "end"}

Inv == /\ confirming \in BOOLEAN
       /\ Members \subseteq DOMAIN fdata
       /\ phase = "argv" \/ reading = "done"
       /\ KnownToExist /\ FrameIsCurrent /\ FoundNone /\ NoSilentOverwrite

LEMMA InitInv == Init => Inv
  <1> SUFFICES ASSUME NEW s \in Starts, InitUI(s), InitArguments(s.line, Around(s))
               PROVE  Inv
    BY DEF Init
  <1>1. world.exists = Existed
    BY DEF InitArguments, InitUI, Existed, Around
  <1> QED
    BY <1>1 DEF InitUI, InitArguments, InitFdata, interactive, Members,
                Inv, KnownToExist, FrameIsCurrent, FoundNone, NoSilentOverwrite

(* No command but --gen-config asks for one, and it looks first.            *)
LEMMA CommandLooks ==
  ASSUME NEW d, NEW key, NEW value,
         Members \subseteq DOMAIN d,
         d.genConfig /\ ~d.interactive => ~world.exists
  PROVE  LET e == ParseCommand(d, key, value)
         IN /\ Members \subseteq DOMAIN e
            /\ e.genConfig /\ ~e.interactive => ~world.exists
  <1> DEFINE e == ParseCommand(d, key, value)
  <1>1. CASE key = "--gen-config"
    <2>1. e = GenConfigCommon(d, value)
      BY <1>1 DEF ParseCommand, Prints
    <2>2. \/ \E why : e = Exit(d, why)
          \/ /\ ~world.exists \/ value = Empty
             /\ e = [d EXCEPT !.docType = "config", !.genConfig = (value # Empty)]
          \/ e = [d EXCEPT !.interactive = TRUE, !.genConfig = (value # Empty)]
      BY <2>1, Zenon DEF GenConfigCommon, GenerateConfigFile
    <2> HIDE DEF e
    <2>3. /\ Members \subseteq DOMAIN e
          /\ e.genConfig /\ ~e.interactive => ~world.exists
      <3>1. CASE \E why : e = Exit(d, why)
        BY <3>1 DEF Exit, Members
      <3>2. CASE /\ ~world.exists \/ value = Empty
                 /\ e = [d EXCEPT !.docType = "config", !.genConfig = (value # Empty)]
        <4>1. DOMAIN e = DOMAIN d /\ e.genConfig = (value # Empty)
          BY <3>2 DEF Members
        <4> QED BY <3>2, <4>1
      <3>3. CASE e = [d EXCEPT !.interactive = TRUE, !.genConfig = (value # Empty)]
        BY <3>3 DEF Members
      <3> QED BY <2>2, <3>1, <3>2, <3>3
    <2> QED BY <2>3 DEF e
  <1>2. CASE key # "--gen-config"
    BY <1>2 DEF ParseCommand, Exit, OptionParseConfigFile, ParseJsoncFile, EnableJsonOutput, Members
  <1> QED BY <1>1, <1>2

LEMMA OptionKeeps ==
  ASSUME NEW d, NEW key, NEW value,
         Members \subseteq DOMAIN d
  PROVE  LET e == ParseOption(d, key, value)
         IN /\ Members \subseteq DOMAIN e
            /\ e.genConfig = d.genConfig /\ e.interactive = d.interactive
  BY DEF ParseOption, Exit, Members

LEMMA ConfigsKeep ==
  ASSUME NEW d, Members \subseteq DOMAIN d
  PROVE  LET e == ParseConfigFiles(d)
         IN /\ Members \subseteq DOMAIN e
            /\ e.genConfig = d.genConfig /\ e.interactive = d.interactive
  BY DEF ParseConfigFiles, ParseJsoncFile, Exit, Members

LEMMA ParseInv ==
  ASSUME Inv, ParseArguments, UNCHANGED <<uiVars, fileVars>>
  PROVE  Inv'
  <1>1. reading # "done" /\ UNCHANGED world
    BY DEF ParseArguments, SkipHandled, NotAnOption, ReadCommand, LoadConfig, ReadOption, Ready,
           Reading
  <1>2. phase = "argv" /\ phase' = "argv" /\ UNCHANGED <<confirming, file>>
    BY <1>1 DEF Inv, uiVars, ui
  <1> DEFINE Looked == /\ Members \subseteq DOMAIN fdata'
                       /\ fdata'.genConfig /\ ~fdata'.interactive => ~world.exists
  <1>3. fdata.genConfig /\ ~fdata.interactive => ~world.exists
    BY <1>2 DEF Inv, FoundNone, interactive
  <1>4. Members \subseteq DOMAIN fdata
    BY DEF Inv
  <1>5. Looked
    <2>1. CASE SkipHandled \/ Ready
      BY <2>1, <1>3, <1>4 DEF SkipHandled, Ready
    <2>2. CASE NotAnOption
      BY <2>2, <1>3, <1>4 DEF NotAnOption, Exit, Members
    <2>3. CASE ReadCommand
      BY <2>3, <1>3, <1>4, CommandLooks DEF ReadCommand, Members
    <2>4. CASE LoadConfig
      <3>1. CASE fdata' = Exit(fdata, "interval and document")
        BY <3>1, <1>3, <1>4 DEF Exit, Members
      <3>2. CASE fdata' = ParseConfigFiles(fdata)
        BY <3>2, <1>3, <1>4, ConfigsKeep DEF Members
      <3> QED BY <2>4, <3>1, <3>2 DEF LoadConfig
    <2>5. CASE ReadOption
      BY <2>5, <1>3, <1>4, OptionKeeps DEF ReadOption, Members
    <2> QED BY <2>1, <2>2, <2>3, <2>4, <2>5 DEF ParseArguments
  <1> QED
    BY <1>1, <1>2, <1>5 DEF Inv, KnownToExist, FrameIsCurrent, FoundNone, NoSilentOverwrite,
                            interactive, Existed

(* Without a terminal the config is written at once, but not over another. *)
LEMMA MainInv == ASSUME Inv, Main PROVE Inv'
  <1>1. file' = file /\ fdata' = fdata /\ confirming' = confirming /\ reading' = "done"
    BY DEF Main, ui
  <1>2. phase' = "write" => file # Foreign
    BY GenConfigAssumption DEF Main, Inv, FoundNone, Existed
  <1>3. phase' \in {"run", "start", "write"}
    BY DEF Main
  <1> QED BY <1>1, <1>2, <1>3 DEF Inv, KnownToExist, FrameIsCurrent, FoundNone, NoSilentOverwrite

(* The keys that are no answer and do not save only change the list, the    *)
(* logo and the view.                                                       *)
LEMMA CommandKeepsMode ==
  ASSUME NEW k, HandleKey(k), ~confirming, k \notin SaveKeys, k \notin QuitKeys
  PROVE  phase' = "draw" /\ confirming' = confirming
  BY DEF HandleKey, ui

LEMMA CommandHasKey == ASSUME NEW k, Command(k) PROVE k \in CommandKeys
  BY DEF Command, CommandKeys

(* The key saves at once only if there was no file.                         *)
LEMMA SaveAsksFirst ==
  ASSUME NEW k, HandleKey(k), ~confirming, k \in SaveKeys
  PROVE  \/ existed /\ phase' = "draw" /\ confirming' = TRUE
         \/ ~existed /\ phase' = "save" /\ confirming' = confirming
  <1>1. k \notin QuitKeys /\ k \notin CommandKeys
    BY DEF SaveKeys, QuitKeys, CommandKeys
  <1>2. IF existed THEN phase' = "draw" /\ Ask ELSE phase' = "save" /\ UNCHANGED ui
    BY <1>1, CommandHasKey, Zenon DEF HandleKey
  <1> QED BY <1>2 DEF Ask, ui

LEMMA ReadInv ==
  ASSUME Inv, interactive, UNCHANGED argVars, NEW n, Read(n)
  PROVE  Inv'
  <1> DEFINE k == KeyOf(SubSeq(typed, 1, n))
  <1>1. HandleKey(k) /\ phase = "read" /\ UNCHANGED <<screen, existed, file>>
    BY DEF Read
  <1> HIDE DEF k
  <1>2. CASE confirming
    <2>1. CASE Confirmed(k)
      <3>1. phase' = "save" /\ confirming' = confirming
        BY <1>1, <1>2, <2>1 DEF HandleKey, ui
      <3> QED BY <1>1, <1>2, <3>1
              DEF Inv, KnownToExist, FrameIsCurrent, FoundNone,
        NoSilentOverwrite, interactive, argVars
    <2>2. CASE ~Confirmed(k)
      <3>1. phase' = "draw" /\ confirming' \in BOOLEAN
        BY <1>1, <1>2, <2>2 DEF HandleKey, Answer
      <3> QED BY <1>1, <3>1 DEF Inv, KnownToExist, FrameIsCurrent, FoundNone,
        NoSilentOverwrite, interactive, argVars
    <2> QED BY <2>1, <2>2
  <1>3. CASE ~confirming /\ k \in SaveKeys
    <2>1. \/ existed /\ phase' = "draw" /\ confirming' = TRUE
          \/ ~existed /\ phase' = "save" /\ confirming' = confirming
      BY <1>1, <1>3, SaveAsksFirst
    <2> QED BY <1>1, <2>1 DEF Inv, KnownToExist, FrameIsCurrent, FoundNone,
        NoSilentOverwrite, interactive, argVars
  <1>4. CASE ~confirming /\ k \in QuitKeys
    <2>1. phase' = "cancel" /\ confirming' = confirming
      BY <1>1, <1>4, CommandHasKey DEF HandleKey, SaveKeys, QuitKeys, CommandKeys, ui
    <2> QED BY <1>1, <2>1 DEF Inv, KnownToExist, FrameIsCurrent, FoundNone,
        NoSilentOverwrite, interactive, argVars
  <1>5. CASE ~confirming /\ k \notin SaveKeys /\ k \notin QuitKeys
    <2>1. phase' = "draw" /\ confirming' = confirming
      BY <1>1, <1>5, CommandKeepsMode
    <2> QED BY <1>1, <2>1 DEF Inv, KnownToExist, FrameIsCurrent, FoundNone,
        NoSilentOverwrite, interactive, argVars
  <1> QED BY <1>2, <1>3, <1>4, <1>5

LEMMA UIInv ==
  ASSUME Inv, interactive, UNCHANGED argVars, UI
  PROVE  Inv'
  <1>1. CASE Start
    BY <1>1, GenConfigAssumption
    DEF Start, Existed, data, Inv, KnownToExist, FrameIsCurrent, FoundNone,
        NoSilentOverwrite, interactive, argVars
  <1>2. CASE Draw
    BY <1>2 DEF Draw, data, Inv, KnownToExist, FrameIsCurrent, FoundNone,
        NoSilentOverwrite, interactive, argVars
  <1>3. CASE ApplyConfig
    BY <1>3 DEF ApplyConfig, ui, Inv, KnownToExist, FrameIsCurrent, FoundNone,
        NoSilentOverwrite, interactive, argVars
  <1>4. CASE Appear
    BY <1>4, GenConfigAssumption
    DEF Appear, ui, data, Inv, KnownToExist, FrameIsCurrent, FoundNone,
        NoSilentOverwrite, interactive, argVars
  <1>5. CASE \E n \in 1..ReadSize : Read(n)
    BY <1>5, ReadInv
  <1>6. CASE \E s \in TerminalSizes : Resize(s)
    BY <1>6 DEF Resize, ui, data, Inv, KnownToExist, FrameIsCurrent, FoundNone,
        NoSilentOverwrite, interactive, argVars
  <1>7. CASE \E bytes \in Keyboard : Press(bytes)
    BY <1>7 DEF Press, ui, data, Inv, KnownToExist, FrameIsCurrent, FoundNone,
        NoSilentOverwrite, interactive, argVars
  <1> QED BY <1>1, <1>2, <1>3, <1>4, <1>5, <1>6, <1>7 DEF UI

LEMMA NextInv == Inv /\ [Next]_vars => Inv'
  <1> SUFFICES ASSUME Inv, [Next]_vars PROVE Inv'
    OBVIOUS
  <1>1. CASE interactive /\ UI /\ UNCHANGED <<fileVars, argVars>>
    BY <1>1, UIInv
  <1>2. CASE Main
    BY <1>2, MainInv
  <1>3. CASE ParseArguments /\ UNCHANGED <<uiVars, fileVars>>
    BY <1>3, ParseInv
  <1>4. CASE WriteConfigFile
    BY <1>4 DEF WriteConfigFile, ui, Inv, KnownToExist, FrameIsCurrent, FoundNone,
        NoSilentOverwrite, interactive, argVars
  <1>5. CASE NextRun
    BY <1>5 DEF NextRun, ui, data, Inv, KnownToExist, FrameIsCurrent, FoundNone,
        NoSilentOverwrite, interactive, argVars
  <1>6. CASE UNCHANGED vars
    BY <1>6 DEF vars, uiVars, fileVars, ui, data,
                Inv, KnownToExist, FrameIsCurrent, FoundNone,
        NoSilentOverwrite, interactive, argVars, Existed
  <1> QED BY <1>1, <1>2, <1>3, <1>4, <1>5, <1>6 DEF Next

(* What was there when the program started is only replaced after the       *)
(* question was on the screen (genconfig.c:706).                            *)
THEOREM NeverSilently == Spec => []NoSilentOverwrite
  <1>1. Inv => NoSilentOverwrite
    BY DEF Inv
  <1> QED BY <1>1, InitInv, NextInv, PTL DEF Spec
-----------------------------------------------------------------------------
(* The list of `--gen-config`.                                              *)
(* A part of a sequence.                                                     *)
LEMMA Slice ==
  ASSUME NEW S, NEW s \in Seq(S), NEW a \in 1..(Len(s) + 1), NEW b \in 0..Len(s), a <= b + 1
  PROVE  /\ SubSeq(s, a, b) \in Seq(S) /\ Len(SubSeq(s, a, b)) = b - a + 1
         /\ \A j \in 1..(b - a + 1) : SubSeq(s, a, b)[j] = s[a + j - 1]
  <1>1. Len(s) \in Nat
    OBVIOUS
  <1>2. a \in Int /\ b \in Int /\ (~(a <= b) => b - a + 1 = 0)
    OBVIOUS
  <1>3. \A i \in a..b : i \in 1..Len(s)
    BY <1>1
  <1>4. \A i \in a..b : s[i] \in S
    BY <1>3
  <1>5. /\ SubSeq(s, a, b) \in Seq(S)
        /\ Len(SubSeq(s, a, b)) = IF a <= b THEN b - a + 1 ELSE 0
        /\ \A i \in 1..(b - a + 1) : SubSeq(s, a, b)[i] = s[a + i - 1]
    BY <1>2, <1>4, SubSeqProperties
  <1> QED BY <1>2, <1>5

(* The place of each item after one was inserted ...                        *)
LEMMA InsertAtFacts ==
  ASSUME NEW S, NEW s \in Seq(S), NEW x \in S, NEW k \in 1..(Len(s) + 1)
  PROVE  /\ InsertAt(s, k, x) \in Seq(S) /\ Len(InsertAt(s, k, x)) = Len(s) + 1
         /\ \A j \in 1..(Len(s) + 1) :
              InsertAt(s, k, x)[j] = IF j < k THEN s[j] ELSE IF j = k THEN x ELSE s[j - 1]
  <1> DEFINE n == Len(s)
             u == SubSeq(s, 1, k - 1)
             v == <<x>>
             w == SubSeq(s, k, n)
  <1>1. n \in Nat /\ k \in 1..(n + 1)
    OBVIOUS
  <1>2. u \in Seq(S) /\ Len(u) = k - 1 /\ \A j \in 1..(k - 1) : u[j] = s[j]
    <2>1. 1 \in 1..(Len(s) + 1) /\ k - 1 \in 0..Len(s) /\ 1 <= (k - 1) + 1 /\ (k - 1) - 1 + 1 = k - 1
      BY <1>1
    <2>2. \A j \in 1..(k - 1) : 1 + j - 1 = j
      BY <1>1
    <2> DEFINE b == k - 1
    <2>3. b \in 0..Len(s) /\ 1 <= b + 1 /\ b - 1 + 1 = b
      BY <2>1
    <2> HIDE DEF b
    <2>4. /\ SubSeq(s, 1, b) \in Seq(S) /\ Len(SubSeq(s, 1, b)) = b - 1 + 1
          /\ \A j \in 1..(b - 1 + 1) : SubSeq(s, 1, b)[j] = s[1 + j - 1]
      BY <2>1, <2>3, Slice
    <2> QED BY <2>2, <2>3, <2>4 DEF b
  <1>3. v \in Seq(S) /\ Len(v) = 1 /\ v[1] = x
    OBVIOUS
  <1>4. w \in Seq(S) /\ Len(w) = n - k + 1 /\ \A j \in 1..(n - k + 1) : w[j] = s[k + j - 1]
    <2>1. n \in 0..Len(s) /\ k <= n + 1
      BY <1>1
    <2> QED BY <2>1, Slice
  <1>5. InsertAt(s, k, x) = (u \o v) \o w
    BY DEF InsertAt
  <1> HIDE DEF u, v, w, n
  <1>6. /\ u \o v \in Seq(S) /\ Len(u \o v) = k
        /\ \A j \in 1..k : (u \o v)[j] = IF j <= k - 1 THEN u[j] ELSE v[j - (k - 1)]
    <2>1. /\ u \o v \in Seq(S) /\ Len(u \o v) = Len(u) + Len(v)
          /\ \A j \in 1..(Len(u) + Len(v)) : (u \o v)[j] = IF j <= Len(u) THEN u[j] ELSE v[j - Len(u)]
      BY <1>2, <1>3, ConcatProperties
    <2>2. Len(u) + Len(v) = k
      BY <1>1, <1>2, <1>3
    <2> QED BY <1>2, <2>1, <2>2
  <1> DEFINE y == u \o v
  <1>7. y \in Seq(S) /\ Len(y) = k /\ \A j \in 1..k : y[j] = IF j < k THEN s[j] ELSE x
    <2>1. \A j \in 1..k : j < k => j <= k - 1 /\ j \in 1..(k - 1)
      BY <1>1
    <2>2. \A j \in 1..k : ~(j < k) => ~(j <= k - 1) /\ j - (k - 1) = 1
      BY <1>1
    <2> QED BY <1>2, <1>3, <1>6, <2>1, <2>2
  <1> HIDE DEF y
  <1>8. /\ y \o w \in Seq(S) /\ Len(y \o w) = n + 1
        /\ \A j \in 1..(n + 1) : (y \o w)[j] = IF j <= k THEN y[j] ELSE w[j - k]
    <2>1. /\ y \o w \in Seq(S) /\ Len(y \o w) = Len(y) + Len(w)
          /\ \A j \in 1..(Len(y) + Len(w)) : (y \o w)[j] = IF j <= Len(y) THEN y[j] ELSE w[j - Len(y)]
      BY <1>4, <1>7, ConcatProperties
    <2>2. Len(y) + Len(w) = n + 1
      BY <1>1, <1>4, <1>7
    <2> QED BY <1>7, <2>1, <2>2
  <1>9. \A j \in 1..(n + 1) : ~(j <= k) => w[j - k] = s[j - 1]
    <2>1. \A j \in 1..(n + 1) : ~(j <= k) => j - k \in 1..(n - k + 1) /\ k + (j - k) - 1 = j - 1
      BY <1>1
    <2> QED BY <1>4, <2>1
  <1>10. \A j \in 1..(n + 1) : j <= k => j \in 1..k
    BY <1>1
  <1>11. \A j \in 1..(n + 1) : (y \o w)[j] = IF j < k THEN s[j] ELSE IF j = k THEN x ELSE s[j - 1]
    <2> SUFFICES ASSUME NEW j \in 1..(n + 1)
                 PROVE  (y \o w)[j] = IF j < k THEN s[j] ELSE IF j = k THEN x ELSE s[j - 1]
      OBVIOUS
    <2>1. j < k \/ j = k \/ ~(j <= k)
      BY <1>1
    <2>2. CASE j < k
      <3>1. j <= k /\ j \in 1..k
        BY <1>1, <2>2
      <3> QED BY <1>7, <1>8, <2>2, <3>1
    <2>3. CASE j = k
      <3>1. j <= k /\ ~(j < k) /\ j \in 1..k
        BY <1>1, <2>3
      <3> QED BY <1>7, <1>8, <2>3, <3>1
    <2>4. CASE ~(j <= k)
      <3>1. ~(j < k) /\ j # k
        BY <1>1, <2>4
      <3> QED BY <1>8, <1>9, <2>4, <3>1
    <2> QED BY <2>1, <2>2, <2>3, <2>4
  <1> QED BY <1>5, <1>8, <1>11 DEF y, n

(* ... and after one was removed.                                           *)
LEMMA RemoveAtFacts ==
  ASSUME NEW S, NEW s \in Seq(S), NEW k \in 1..Len(s)
  PROVE  /\ RemoveAt(s, k) \in Seq(S) /\ Len(RemoveAt(s, k)) = Len(s) - 1
         /\ \A j \in 1..(Len(s) - 1) : RemoveAt(s, k)[j] = IF j < k THEN s[j] ELSE s[j + 1]
  <1> DEFINE n == Len(s)
             b == k - 1
             a == k + 1
             u == SubSeq(s, 1, b)
             w == SubSeq(s, a, n)
  <1>1. n \in Nat /\ k \in 1..n /\ b \in 0..n /\ a \in 1..(n + 1) /\ 1 \in 1..(n + 1)
        /\ 1 <= b + 1 /\ a <= n + 1 /\ n \in 0..n
    OBVIOUS
  <1>2. RemoveAt(s, k) = u \o w
    BY DEF RemoveAt
  <1>3. b = k - 1 /\ a = k + 1
    OBVIOUS
  <1>4. n = Len(s)
    OBVIOUS
  <1> HIDE DEF a, b, n
  <1>5. u \in Seq(S) /\ Len(u) = b - 1 + 1 /\ \A j \in 1..(b - 1 + 1) : u[j] = s[1 + j - 1]
    BY <1>1, <1>4, Slice
  <1>6. w \in Seq(S) /\ Len(w) = n - a + 1 /\ \A j \in 1..(n - a + 1) : w[j] = s[a + j - 1]
    BY <1>1, <1>4, Slice
  <1> HIDE DEF u, w
  <1>7. /\ u \o w \in Seq(S) /\ Len(u \o w) = Len(u) + Len(w)
        /\ \A j \in 1..(Len(u) + Len(w)) : (u \o w)[j] = IF j <= Len(u) THEN u[j] ELSE w[j - Len(u)]
    BY <1>5, <1>6, ConcatProperties
  <1>8. Len(u) = k - 1 /\ Len(w) = n - k /\ Len(u) + Len(w) = n - 1
    BY <1>1, <1>3, <1>5, <1>6
  <1>9. \A j \in 1..(n - 1) : (u \o w)[j] = IF j < k THEN s[j] ELSE s[j + 1]
    <2> SUFFICES ASSUME NEW j \in 1..(n - 1) PROVE (u \o w)[j] = IF j < k THEN s[j] ELSE s[j + 1]
      OBVIOUS
    <2>0. (u \o w)[j] = IF j <= k - 1 THEN u[j] ELSE w[j - (k - 1)]
      BY <1>7, <1>8
    <2>1. CASE j < k
      <3>1. j <= k - 1 /\ j \in 1..(b - 1 + 1) /\ 1 + j - 1 = j
        BY <1>1, <1>3, <2>1
      <3> QED BY <1>5, <2>0, <2>1, <3>1
    <2>2. CASE ~(j < k)
      <3>1. ~(j <= k - 1) /\ j - (k - 1) \in 1..(n - a + 1) /\ a + (j - (k - 1)) - 1 = j + 1
        BY <1>1, <1>3, <2>2
      <3> QED BY <1>6, <2>0, <2>2, <3>1
    <2> QED BY <2>1, <2>2
  <1> QED BY <1>2, <1>4, <1>7, <1>8, <1>9

(* A list of items that has every module once, and nothing that could be    *)
(* deleted among them.                                                      *)
Items == [name : Names, status : {"special", "selected", "unselected"}]

Told(list) == \A i \in DOMAIN list : list[i].name \in Modules <=> list[i].status # "special"

AllThere(list) == \A m \in Modules : \E i \in DOMAIN list : list[i].name = m

Once(list) == \A i, j \in DOMAIN list :
                list[i].name = list[j].name /\ list[i].name \in Modules => i = j

Arranged(list) == list \in Seq(Items) /\ Told(list) /\ AllThere(list) /\ Once(list)

(* A list with the same modules elsewhere, and what is special anywhere.    *)
Moves(old, new, from) ==
  /\ \A i \in DOMAIN new : new[i].name \in Modules =>
       from[i] \in DOMAIN old /\ old[from[i]].name = new[i].name
  /\ \A i, j \in DOMAIN new :
       new[i].name \in Modules /\ new[j].name \in Modules /\ from[i] = from[j] => i = j
  /\ \A k \in DOMAIN old : old[k].name \in Modules =>
       \E i \in DOMAIN new : new[i].name = old[k].name

(* A list stays arranged when its modules only move, and what is new or     *)
(* gone is special.                                                         *)
LEMMA StaysArranged ==
  ASSUME NEW old, NEW new, NEW from, Arranged(old), new \in Seq(Items), Told(new),
         Moves(old, new, from)
  PROVE  Arranged(new)
  <1> USE DEF Moves
  <1>1. AllThere(new)
    <2> SUFFICES ASSUME NEW m \in Modules PROVE \E i \in DOMAIN new : new[i].name = m
      BY DEF AllThere
    <2>1. PICK k \in DOMAIN old : old[k].name = m
      BY DEF Arranged, AllThere
    <2> QED BY <2>1
  <1>2. Once(new)
    <2> SUFFICES ASSUME NEW i \in DOMAIN new, NEW j \in DOMAIN new,
                        new[i].name = new[j].name, new[i].name \in Modules
                 PROVE  i = j
      BY DEF Once
    <2>1. /\ from[i] \in DOMAIN old /\ old[from[i]].name = new[i].name
          /\ from[j] \in DOMAIN old /\ old[from[j]].name = new[j].name
      OBVIOUS
    <2>2. from[i] = from[j]
      BY <2>1 DEF Arranged, Once
    <2> QED BY <2>2
  <1> QED BY <1>1, <1>2 DEF Arranged

(* So it does when an item is ticked, ...                                   *)
LEMMA ToggleArranged ==
  ASSUME NEW old, Arranged(old), NEW new \in Seq(Items), Len(new) = Len(old),
         \A i \in 1..Len(old) : /\ new[i].name = old[i].name
                                /\ new[i].status = "special" <=> old[i].status = "special"
  PROVE  Arranged(new)
  <1>1. DOMAIN new = 1..Len(old) /\ DOMAIN old = 1..Len(old)
    BY DEF Arranged
  <1> QED BY <1>1 DEF Arranged, Told, AllThere, Once

(* ... two of them change places, ...                                       *)
LEMMA SwapArranged ==
  ASSUME NEW old, Arranged(old), NEW i \in 1..Len(old), NEW j \in 1..Len(old)
  PROVE  /\ Arranged([old EXCEPT ![i] = old[j], ![j] = old[i]])
         /\ Len([old EXCEPT ![i] = old[j], ![j] = old[i]]) = Len(old)
  <1> DEFINE new == [old EXCEPT ![i] = old[j], ![j] = old[i]]
             from == [k \in 1..Len(old) |-> IF k = j THEN i ELSE IF k = i THEN j ELSE k]
  <1>1. old \in Seq(Items) /\ Len(old) \in Nat /\ DOMAIN old = 1..Len(old)
    BY DEF Arranged
  <1>2. new \in Seq(Items) /\ Len(new) = Len(old) /\ DOMAIN new = 1..Len(old)
    BY <1>1
  <1>3. \A k \in 1..Len(old) : from[k] \in 1..Len(old) /\ new[k] = old[from[k]]
    BY <1>1
  <1>4. \A k \in 1..Len(old) : from[from[k]] = k
    OBVIOUS
  <1> HIDE DEF new, from
  <1>5. Told(new)
    BY <1>1, <1>2, <1>3 DEF Told, Arranged
  <1>6. \A k, l \in DOMAIN new : from[k] = from[l] => k = l
    BY <1>2, <1>4, Zenon
  <1>7. \A k \in DOMAIN old : \E l \in DOMAIN new : new[l].name = old[k].name
    <2> SUFFICES ASSUME NEW k \in DOMAIN old PROVE \E l \in DOMAIN new : new[l].name = old[k].name
      OBVIOUS
    <2>1. from[k] \in DOMAIN new /\ new[from[k]] = old[k]
      BY <1>1, <1>2, <1>3, <1>4
    <2> QED BY <2>1
  <1>8. Arranged(new)
    <2>1. Moves(old, new, from)
      BY <1>1, <1>2, <1>3, <1>5, <1>6, <1>7 DEF Moves
    <2> QED BY <1>6, <1>7, <1>2, <1>5, <1>7, <2>1, StaysArranged
  <1> QED BY <1>2, <1>8 DEF new

(* ... a special one comes in ...                                           *)
LEMMA InsertArranged ==
  ASSUME NEW old, Arranged(old), NEW k \in 1..(Len(old) + 1), NEW x \in Items,
         x.status = "special", x.name \notin Modules
  PROVE  Arranged(InsertAt(old, k, x)) /\ Len(InsertAt(old, k, x)) = Len(old) + 1
  <1> DEFINE new == InsertAt(old, k, x)
             from == [i \in 1..(Len(old) + 1) |-> IF i < k THEN i ELSE i - 1]
  <1>1. old \in Seq(Items) /\ Len(old) \in Nat /\ DOMAIN old = 1..Len(old) /\ k \in 1..(Len(old) + 1)
    BY DEF Arranged
  <1>2. /\ new \in Seq(Items) /\ Len(new) = Len(old) + 1
        /\ \A i \in 1..(Len(old) + 1) : new[i] = IF i < k THEN old[i] ELSE IF i = k THEN x ELSE old[i - 1]
    BY <1>1, InsertAtFacts
  <1> HIDE DEF new
  <1>3. DOMAIN new = 1..(Len(old) + 1)
    BY <1>1, <1>2
  <1>4. \A i \in DOMAIN new : i = k \/ (from[i] \in DOMAIN old /\ new[i] = old[from[i]])
    BY <1>1, <1>2, <1>3
  <1>5. \A i, j \in DOMAIN new : i # k /\ j # k /\ from[i] = from[j] => i = j
    BY <1>1, <1>3
  <1>6. new[k] = x /\ k \in DOMAIN new
    BY <1>1, <1>2, <1>3
  <1>7. \A l \in DOMAIN old : \E i \in DOMAIN new : new[i] = old[l]
    <2> SUFFICES ASSUME NEW l \in DOMAIN old PROVE \E i \in DOMAIN new : new[i] = old[l]
      OBVIOUS
    <2>1. CASE l < k
      <3>1. l \in DOMAIN new /\ new[l] = old[l]
        BY <1>1, <1>2, <1>3, <2>1
      <3> QED BY <3>1
    <2>2. CASE ~(l < k)
      <3>1. l + 1 \in DOMAIN new /\ new[l + 1] = old[l]
        BY <1>1, <1>2, <1>3, <2>2
      <3> QED BY <3>1
    <2> QED BY <2>1, <2>2
  <1> HIDE DEF from
  <1>8. Told(new)
    <2> SUFFICES ASSUME NEW i \in DOMAIN new
                 PROVE  new[i].name \in Modules <=> new[i].status # "special"
      BY DEF Told
    <2>1. CASE i = k
      BY <1>6, <2>1
    <2>2. CASE i # k
      BY <1>4, <2>2 DEF Arranged, Told
    <2> QED BY <2>1, <2>2
  <1>9. \A i \in DOMAIN new : new[i].name \in Modules => i # k
    BY <1>6
  <1>10. Arranged(new)
    <2>1. Moves(old, new, from)
      BY <1>2, <1>4, <1>5, <1>7, <1>8, <1>9 DEF Moves
    <2> QED BY <1>8, <1>9, <1>2, <1>5, <1>7, <2>1, StaysArranged
  <1> QED BY <1>2, <1>10 DEF new

(* ... or goes.                                                             *)
LEMMA RemoveArranged ==
  ASSUME NEW old, Arranged(old), NEW k \in 1..Len(old), old[k].status = "special"
  PROVE  Arranged(RemoveAt(old, k)) /\ Len(RemoveAt(old, k)) = Len(old) - 1
  <1> DEFINE new == RemoveAt(old, k)
             from == [i \in 1..(Len(old) - 1) |-> IF i < k THEN i ELSE i + 1]
  <1>1. old \in Seq(Items) /\ Len(old) \in Nat /\ DOMAIN old = 1..Len(old) /\ k \in 1..Len(old)
    BY DEF Arranged
  <1>2. /\ new \in Seq(Items) /\ Len(new) = Len(old) - 1
        /\ \A i \in 1..(Len(old) - 1) : new[i] = IF i < k THEN old[i] ELSE old[i + 1]
    BY <1>1, RemoveAtFacts
  <1> HIDE DEF new
  <1>3. DOMAIN new = 1..(Len(old) - 1)
    BY <1>1, <1>2
  <1>4. \A i \in DOMAIN new : from[i] \in DOMAIN old /\ new[i] = old[from[i]]
    BY <1>1, <1>2, <1>3
  <1>5. \A i, j \in DOMAIN new : from[i] = from[j] => i = j
    BY <1>1, <1>3
  <1>6. \A l \in DOMAIN old : l # k => \E i \in DOMAIN new : new[i] = old[l]
    <2> SUFFICES ASSUME NEW l \in DOMAIN old, l # k PROVE \E i \in DOMAIN new : new[i] = old[l]
      OBVIOUS
    <2>1. CASE l < k
      <3>1. l \in DOMAIN new /\ new[l] = old[l]
        BY <1>1, <1>2, <1>3, <2>1
      <3> QED BY <3>1
    <2>2. CASE ~(l < k)
      <3>1. l - 1 \in DOMAIN new /\ ~(l - 1 < k) /\ (l - 1) + 1 = l
        BY <1>1, <1>2, <1>3, <2>2
      <3> QED BY <1>2, <1>3, <3>1
    <2> QED BY <2>1, <2>2
  <1> HIDE DEF from
  <1>7. Told(new)
    BY <1>4 DEF Arranged, Told
  <1>8. \A l \in DOMAIN old : old[l].name \in Modules => l # k
    BY <1>1 DEF Arranged, Told
  <1>9. Arranged(new)
    <2>1. Moves(old, new, from)
      BY <1>2, <1>4, <1>5, <1>6, <1>7, <1>8 DEF Moves
    <2> QED BY <1>7, <1>8, <1>2, <1>5, <1>7, <2>1, StaysArranged
  <1> QED BY <1>2, <1>9 DEF new

(* There is a module, so there is an item.                                  *)
LEMMA ArrangedHasItems ==
  ASSUME NEW list, Arranged(list) PROVE Len(list) \in Nat /\ Len(list) >= 1 /\ list # <<>>
  <1>1. PICK m \in Modules : TRUE
    BY GenConfigAssumption
  <1>2. PICK i \in DOMAIN list : list[i].name = m
    BY DEF Arranged, AllThere
  <1>3. list \in Seq(Items)
    BY DEF Arranged
  <1> QED BY <1>2, <1>3

(* Without its special items a list is still arranged.                      *)
LEMMA WithoutSpecialArranged ==
  ASSUME NEW list, Arranged(list) PROVE Arranged(WithoutSpecial(list))
  <1> DEFINE n == Len(list)
             Step(f, k) == IF k = 0 THEN list
                           ELSE LET rest == f[k - 1]
                                    i == Len(list) - k + 1
                                IN IF rest[i].status = "special" THEN RemoveAt(rest, i) ELSE rest
             Still(l, k) == Arranged(l) /\ Len(l) >= n - k
             Rest(l, k) == IF Still(l, k - 1)
                            THEN IF l[n - k + 1].status = "special" THEN RemoveAt(l, n - k + 1) ELSE l
                            ELSE l
             G == [k \in 1..n |-> [l \in Seq(Items) |-> Rest(l, k)]]
  <1>1. n \in Nat /\ list \in Seq(Items)
    BY ArrangedHasItems DEF Arranged
  <1>2. ASSUME NEW k \in 1..n, NEW l, Still(l, k - 1)
        PROVE  /\ l[n - k + 1].status = "special" => Still(RemoveAt(l, n - k + 1), k)
               /\ Still(l, k)
    <2> DEFINE i == n - k + 1
    <2>1. Len(l) \in Nat /\ i \in 1..Len(l) /\ Len(l) >= n - k + 1
      BY <1>1, <1>2, ArrangedHasItems
    <2> HIDE DEF i
    <2>2. l[i].status = "special" => Arranged(RemoveAt(l, i)) /\ Len(RemoveAt(l, i)) = Len(l) - 1
      BY <1>2, <2>1, RemoveArranged
    <2>3. Len(l) >= n - k /\ Len(l) - 1 >= n - k
      BY <1>1, <2>1
    <2> QED BY <1>2, <2>2, <2>3 DEF i
  <1>3. PICK f \in [0..n -> Seq(Items)] : f[0] = list /\ \A k \in 1..n : f[k] = G[k][f[k - 1]]
    <2> DEFINE W == Seq(Items)
    <2>1. Within(G, n, W)
      <3>1. \A k \in 1..n : \A l \in Seq(Items) : Rest(l, k) \in Seq(Items)
        <4> HIDE DEF n
        <4> QED BY <1>2 DEF Arranged
      <3> HIDE DEF n, Rest
      <3> QED BY <3>1 DEF Within
    <2>2. list \in W
      BY <1>1
    <2> HIDE DEF W, G, n
    <2> QED BY <1>1, <2>1, <2>2, FromTheFront DEF W
  <1> HIDE DEF G
  <1>4. Still(list, 0)
    BY <1>1
  <1> DEFINE T == {k \in Nat : k <= n => Still(f[k], k) /\ (k # 0 => f[k] = Step(f, k))}
  <1>5. Nat \subseteq T
    <2>1. 0 \in T
      BY <1>3, <1>4
    <2>2. ASSUME NEW k \in Nat, k \in T PROVE k + 1 \in T
      <3> SUFFICES ASSUME k + 1 <= n PROVE Still(f[k + 1], k + 1) /\ f[k + 1] = Step(f, k + 1)
        OBVIOUS
      <3>1. k + 1 \in 1..n /\ (k + 1) - 1 = k /\ k \in 0..n /\ k <= n /\ k + 1 # 0
        BY <1>1
      <3>2. Still(f[k], k)
        <4> HIDE DEF Still, Step
        <4> QED BY <2>2, <3>1
      <3>3. f[k] \in Seq(Items)
        BY <1>3, <3>1
      <3> HIDE DEF Still, n
      <3>4. f[k + 1] = IF f[k][n - (k + 1) + 1].status = "special" THEN RemoveAt(f[k], n - (k + 1) + 1)
                       ELSE f[k]
        BY <1>3, <3>1, <3>2, <3>3 DEF G
      <3>5. Still(f[k + 1], k + 1)
        BY <1>2, <3>1, <3>2, <3>4
      <3>6. f[k + 1] = Step(f, k + 1)
        BY <3>1, <3>4 DEF n
      <3> QED BY <3>5, <3>6
    <2> HIDE DEF T
    <2> QED BY <2>1, <2>2, Upward
  <1>6. \A k \in 0..n : f[k] = Step(f, k) /\ Still(f[k], k)
    <2> SUFFICES ASSUME NEW k \in 0..n PROVE f[k] = Step(f, k) /\ Still(f[k], k)
      OBVIOUS
    <2>1. k \in T /\ k <= n
      <3> HIDE DEF T
      <3> QED BY <1>1, <1>5
    <2> HIDE DEF Still, n
    <2>2. CASE k = 0
      BY <1>3, <1>4, <2>2
    <2>3. CASE k # 0
      <3> HIDE DEF Step
      <3> QED BY <2>1, <2>3
    <2> QED BY <2>2, <2>3
  <1> DEFINE left[k \in 0..Len(list)] ==
               IF k = 0 THEN list
               ELSE LET rest == left[k - 1]
                        i == Len(list) - k + 1
                    IN IF rest[i].status = "special" THEN RemoveAt(rest, i) ELSE rest
  <1>7. f = [k \in 0..n |-> Step(f, k)]
    <2> HIDE DEF Step, Still, n
    <2> QED BY <1>3, <1>6
  <1>8. left = [k \in 0..n |-> Step(left, k)]
    BY <1>7
  <1>9. WithoutSpecial(list) = left[n]
    BY DEF WithoutSpecial
  <1> HIDE DEF left
  <1> DEFINE U == {k \in Nat : k <= n => Still(left[k], k)}
  <1>10. Nat \subseteq U
    <2>1. 0 \in U
      <3>1. left[0] = list
        BY <1>1, <1>8
      <3> QED BY <1>4, <3>1
    <2>2. ASSUME NEW k \in Nat, k \in U PROVE k + 1 \in U
      <3> SUFFICES ASSUME k + 1 <= n PROVE Still(left[k + 1], k + 1)
        OBVIOUS
      <3>1. k + 1 \in 1..n /\ (k + 1) - 1 = k /\ k + 1 \in 0..n /\ k <= n /\ k + 1 # 0
        BY <1>1
      <3>2. Still(left[k], k)
        <4> HIDE DEF Still
        <4> QED BY <2>2, <3>1
      <3>3. left[k + 1] = Step(left, k + 1)
        <4> HIDE DEF Step, Still, n
        <4> QED BY <1>8, <3>1
      <3>4. left[k + 1] = IF left[k][n - (k + 1) + 1].status = "special"
                          THEN RemoveAt(left[k], n - (k + 1) + 1) ELSE left[k]
        BY <3>1, <3>3
      <3> HIDE DEF Still, n
      <3> QED BY <1>2, <3>1, <3>2, <3>4
    <2> HIDE DEF U
    <2> QED BY <2>1, <2>2, Upward
  <1>11. Still(left[n], n)
    <2> HIDE DEF Still
    <2> QED BY <1>1, <1>10
  <1> QED BY <1>9, <1>11

(* The list begins with all modules, each once.                             *)
LEMMA InitItemsArranged == Arranged(InitItems)
  <1>1. Order \in Seq(Names) /\ \A i, j \in DOMAIN Order : Order[i] = Order[j] => i = j
    BY GenConfigAssumption
  <1>2. DOMAIN Order = 1..Len(Order) /\ Len(Order) \in Nat
    BY <1>1
  <1>3. \A i \in DOMAIN Order : /\ Order[i] \in Names
                                /\ InitItems[i].name = Order[i]
                                /\ InitItems[i] \in Items
                                /\ InitItems[i].status = "special" <=> Order[i] \in {Break, Separator}
    <2> SUFFICES ASSUME NEW i \in DOMAIN Order
                 PROVE /\ Order[i] \in Names
                       /\ InitItems[i].name = Order[i]
                       /\ InitItems[i] \in Items
                       /\ InitItems[i].status = "special" <=> Order[i] \in {Break, Separator}
      OBVIOUS
    <2>1. Order[i] \in Names
      BY <1>1, <1>2
    <2>2. InitItems[i] = Item(Order[i],
          IF Order[i] \in {Break, Separator} THEN "special"
          ELSE IF Order[i] \in Range(structure) \ disabled THEN "selected"
          ELSE "unselected")
      BY DEF InitItems
    <2>3. CASE Order[i] \in {Break, Separator}
      BY <2>1, <2>2, <2>3 DEF Items, Item
    <2>4. CASE Order[i] \notin {Break, Separator}
      <3>1. InitItems[i] = Item(Order[i], "selected") \/ InitItems[i] = Item(Order[i], "unselected")
        BY <2>2, <2>4
      <3> QED BY <2>1, <2>4, <3>1 DEF Items, Item
    <2> QED BY <2>3, <2>4
  <1>4. InitItems \in Seq(Items) /\ DOMAIN InitItems = DOMAIN Order
    <2>1. InitItems = [i \in 1..Len(Order) |-> InitItems[i]]
      BY <1>2 DEF InitItems
    <2>2. \A i \in 1..Len(Order) : InitItems[i] \in Items
      BY <1>2, <1>3
    <2>3. InitItems \in [1..Len(Order) -> Items]
      BY <2>1, <2>2
    <2> QED BY <1>2, <2>1, <2>3
  <1>5. Told(InitItems)
    BY <1>3, <1>4 DEF Told, Modules
  <1>6. AllThere(InitItems)
    <2> SUFFICES ASSUME NEW m \in Modules PROVE \E i \in DOMAIN InitItems : InitItems[i].name = m
      BY DEF AllThere
    <2>1. m \in Range(Order)
      BY DEF Modules, Names
    <2>2. PICK i \in DOMAIN Order : Order[i] = m
      BY <2>1 DEF Range
    <2> QED BY <1>3, <1>4, <2>2
  <1>7. Once(InitItems)
    BY <1>1, <1>3, <1>4 DEF Once
  <1> QED BY <1>4, <1>5, <1>6, <1>7 DEF Arranged

(* Every module once: as many of its places as there are modules.           *)
LEMMA ArrangedKeeps ==
  ASSUME NEW list, Arranged(list)
  PROVE  LET kept == {i \in DOMAIN list : list[i].name \in Modules}
         IN {list[i].name : i \in kept} = Modules /\ Cardinality(kept) = Cardinality(Modules)
  <1> DEFINE kept == {i \in DOMAIN list : list[i].name \in Modules}
             name == [i \in kept |-> list[i].name]
  <1>1. list \in Seq(Items) /\ Len(list) \in Nat /\ DOMAIN list = 1..Len(list)
    BY DEF Arranged
  <1>2. {list[i].name : i \in kept} = Modules
    BY DEF Arranged, AllThere
  <1>3. IsFiniteSet(kept)
    <2>1. IsFiniteSet(1..Len(list))
      BY <1>1, FS_Interval
    <2>2. kept \subseteq 1..Len(list)
      BY <1>1
    <2> QED BY <2>1, <2>2, FS_Subset
  <1>4. name \in Bijection(kept, Modules)
    <2>1. name \in [kept -> Modules]
      OBVIOUS
    <2>2. \A i, j \in kept : name[i] = name[j] => i = j
      BY DEF Arranged, Once
    <2>3. \A m \in Modules : \E i \in kept : name[i] = m
      BY DEF Arranged, AllThere
    <2> HIDE DEF name, kept
    <2> QED BY <2>1, <2>2, <2>3 DEF Bijection, Injection, Surjection, IsInjective
  <1>5. Cardinality(Modules) = Cardinality(kept)
    <2>1. ExistsBijection(kept, Modules)
      BY <1>4 DEF ExistsBijection
    <2> HIDE DEF kept
    <2> QED BY <1>3, <2>1, FS_Bijection
  <1> QED BY <1>2, <1>5

-----------------------------------------------------------------------------
(* What a quotient and a remainder are.                                     *)
LEMMA Divided ==
  ASSUME NEW a \in Nat, NEW b \in Nat \ {0}
  PROVE  a \div b \in Nat /\ a % b \in 0..(b - 1) /\ a = b * (a \div b) + (a % b)
  <1>1. a \div b \in Int
    OBVIOUS
  <1>2. a % b \in 0..(b - 1)
    OBVIOUS
  <1>3. a = b * (a \div b) + (a % b)
    BY <1>1, <1>2
  <1> DEFINE q == a \div b
             r == a % b
  <1>4. q \in Int /\ r \in 0..(b - 1) /\ a = b * q + r
    BY <1>1, <1>2, <1>3
  <1> HIDE DEF q, r
  <1>5. q >= 0
    <2>1. SUFFICES ASSUME q <= -1 PROVE FALSE
      BY <1>4
    <2>2. b * q <= -b
      BY <1>4, <2>1
    <2> QED BY <1>4, <2>2
  <1>6. q \in Nat
    BY <1>4, <1>5
  <1> QED BY <1>4, <1>6 DEF q, r

(* There is a longest name.                                                 *)
LEMMA LongestName ==
  ASSUME NEW list \in Seq(Items)
  PROVE  Max({NameLength[list[i].name] : i \in DOMAIN list} \cup {0}) \in Nat
  <1> DEFINE n == Len(list)
             Some(k) == {NameLength[list[i].name] : i \in 1..k} \cup {0}
             T == {k \in Nat : k <= n => \E m \in Some(k) : \A y \in Some(k) : m >= y}
  <1>1. n \in Nat /\ DOMAIN list = 1..n /\ \A i \in 1..n : NameLength[list[i].name] \in Nat
    <2>1. n \in Nat /\ DOMAIN list = 1..n
      OBVIOUS
    <2>2. \A i \in 1..n : list[i].name \in Names
      <3>1. \A i \in 1..n : list[i] \in Items
        BY <2>1
      <3> QED BY <3>1 DEF Items
    <2>3. \A x \in Names : NameLength[x] \in Nat
      BY GenConfigAssumption
    <2> QED BY <2>1, <2>2, <2>3
  <1> HIDE DEF n
  <1>2. \A k \in Nat : k <= n => Some(k) \subseteq Nat
    BY <1>1
  <1>3. Nat \subseteq T
    <2>1. 0 \in T
      BY <1>1
    <2>2. ASSUME NEW k \in Nat, k \in T PROVE k + 1 \in T
      <3> SUFFICES ASSUME k + 1 <= n PROVE \E m \in Some(k + 1) : \A y \in Some(k + 1) : m >= y
        OBVIOUS
      <3>0. k <= n
        BY <1>1
      <3>1. PICK m \in Some(k) : \A y \in Some(k) : m >= y
        BY <2>2, <3>0
      <3> DEFINE z == NameLength[list[k + 1].name]
      <3>2. Some(k + 1) = Some(k) \cup {z}
        BY <1>1
      <3>3. z \in Nat /\ m \in Nat /\ Some(k) \subseteq Nat
        BY <1>1, <1>2, <3>0
      <3> HIDE DEF z, Some
      <3>4. CASE z >= m
        <4>1. \A y \in Some(k) \cup {z} : z >= y
          BY <3>1, <3>3, <3>4
        <4> QED BY <3>2, <4>1
      <3>5. CASE ~(z >= m)
        <4>1. \A y \in Some(k) \cup {z} : m >= y
          BY <3>1, <3>3, <3>5
        <4> QED BY <3>2, <4>1
      <3> QED BY <3>4, <3>5
    <2> HIDE DEF T
    <2> QED BY <2>1, <2>2, Upward
  <1> DEFINE S == Some(n)
  <1>4. \E m \in S : \A y \in S : m >= y
    <2>1. n \in T /\ n <= n
      <3> HIDE DEF T
      <3> QED BY <1>1, <1>3
    <2> HIDE DEF Some
    <2> QED BY <2>1
  <1>5. S \subseteq Nat
    BY <1>1, <1>2
  <1>6. S = {NameLength[list[i].name] : i \in DOMAIN list} \cup {0}
    BY <1>1
  <1> HIDE DEF S
  <1>7. Max(S) \in S
    BY <1>4 DEF Max
  <1> QED BY <1>5, <1>6, <1>7

(* At least one column, and room for every item.                            *)
LEMMA LayoutHolds ==
  ASSUME NEW list, Arranged(list), size.rows \in Nat, size.cols \in Nat
  PROVE  LET lay == Layout(list)
         IN /\ lay.rows \in Nat /\ lay.columns \in Nat \ {0} /\ lay.perColumn \in Nat \ {0}
            /\ Len(list) <= lay.columns * lay.perColumn
  <1> DEFINE n == Len(list)
             listRows == AtLeast(11, size.rows) - 11
             colWidth == Max({NameLength[list[i].name] : i \in DOMAIN list} \cup {0}) + 6
             gridWidth == IF size.cols > 4 THEN size.cols - 4 ELSE 1
             fitting == gridWidth \div colWidth
             columns == IF listRows = 0 THEN 1
                        ELSE AtMost(AtLeast(1, fitting), CeilDiv(n, listRows))
             perColumn == CeilDiv(n, columns)
             lay == Layout(list)
  <1>1. n \in Nat \ {0} /\ list # <<>> /\ list \in Seq(Items)
    BY ArrangedHasItems DEF Arranged
  <1>2. lay.rows = listRows /\ lay.columns = columns /\ lay.perColumn = perColumn
    BY <1>1 DEF Layout
  <1> HIDE DEF lay
  <1>3. listRows \in Nat
    BY DEF AtLeast
  <1>4. fitting \in Nat
    <2>1. colWidth \in Nat \ {0}
      BY <1>1, LongestName
    <2>2. gridWidth \in Nat
      OBVIOUS
    <2> HIDE DEF colWidth, gridWidth
    <2> QED BY <2>1, <2>2, Divided
  <1> HIDE DEF listRows, fitting, n
  <1>5. \A d \in Nat \ {0} : CeilDiv(n, d) \in Nat \ {0} /\ n <= d * CeilDiv(n, d)
    <2> SUFFICES ASSUME NEW d \in Nat \ {0}
                 PROVE  CeilDiv(n, d) \in Nat \ {0} /\ n <= d * CeilDiv(n, d)
      OBVIOUS
    <2> DEFINE a == n + d - 1
               q == a \div d
               r == a % d
    <2>1. a \in Nat /\ a = n + d - 1
      BY <1>1
    <2> HIDE DEF a
    <2>2. q \in Nat /\ r \in 0..(d - 1) /\ a = d * q + r
      BY <2>1, Divided
    <2>3. CeilDiv(n, d) = q
      BY DEF CeilDiv, a
    <2> HIDE DEF q, r
    <2>4. n <= d * q
      BY <1>1, <2>1, <2>2
    <2>5. q # 0
      BY <1>1, <2>2, <2>4
    <2> QED BY <2>2, <2>3, <2>4, <2>5
  <1>6. columns \in Nat \ {0}
    <2>1. CASE listRows = 0
      BY <2>1
    <2>2. CASE listRows # 0
      <3> DEFINE c == CeilDiv(n, listRows)
      <3>1. c \in Nat \ {0}
        BY <1>3, <1>5, <2>2
      <3> HIDE DEF c
      <3>2. columns = AtMost(AtLeast(1, fitting), c)
        BY <2>2 DEF c
      <3> QED BY <1>4, <3>1, <3>2 DEF AtMost, AtLeast
    <2> QED BY <2>1, <2>2
  <1> HIDE DEF columns
  <1>7. perColumn \in Nat \ {0} /\ n <= columns * perColumn
    BY <1>5, <1>6
  <1> QED BY <1>2, <1>3, <1>6, <1>7 DEF n, lay

(* Wherever the view was, it shows the row that it is given.                *)
LEMMA ViewHolds ==
  ASSUME NEW lay, lay.rows \in Nat, lay.perColumn \in Nat \ {0}, NEW at \in Nat, viewOffset \in Nat
  PROVE  /\ View(lay, at) \in Nat
         /\ lay.rows > 0 => (at % lay.perColumn) - View(lay, at) \in 0..(lay.rows - 1)
  <1> DEFINE row == at % lay.perColumn
             p == lay.perColumn
             h == lay.rows
  <1>1. row \in 0..(p - 1) /\ p \in Nat \ {0} /\ h \in Nat
    BY Divided
  <1>2. View(lay, at) = IF p <= h THEN 0
                        ELSE AtMost(p - h, IF row < viewOffset THEN row
                                           ELSE IF row >= viewOffset + h THEN row - h + 1
                                           ELSE viewOffset)
    BY DEF View
  <1> HIDE DEF row, p, h
  <1>3. CASE p <= h
    <2>1. View(lay, at) = 0
      BY <1>2, <1>3
    <2> QED BY <1>1, <1>3, <2>1 DEF row, h
  <1>4. CASE ~(p <= h)
    <2> DEFINE top == IF row < viewOffset THEN row
                      ELSE IF row >= viewOffset + h THEN row - h + 1 ELSE viewOffset
    <2>1. top \in Nat /\ (h > 0 => top <= row /\ row - top < h)
      BY <1>1
    <2>2. View(lay, at) = AtMost(p - h, top)
      BY <1>2, <1>4
    <2> HIDE DEF top
    <2>3. View(lay, at) \in Nat /\ (h > 0 => row - View(lay, at) \in 0..(h - 1))
      BY <1>1, <1>4, <2>1, <2>2 DEF AtMost
    <2> QED BY <2>3 DEF row, h
  <1> QED BY <1>3, <1>4

(* A frame shows the item of the cursor, and no item twice.                 *)
Shown == /\ cursor < Len(items)
         /\ layout.rows > 0 => \E p \in Cells : Cell(p[1], p[2]) = cursor
         /\ \A p, q \in Cells : p # q => Cell(p[1], p[2]) # Cell(q[1], q[2])
                                           \/ Cell(p[1], p[2]) = Blank

(* A place in the grid has one row and one column.                          *)
LEMMA OneColumnOnly ==
  ASSUME NEW p \in Nat \ {0}, NEW r \in 0..(p - 1), NEW s \in 0..(p - 1),
         NEW c \in Nat, NEW d \in Nat, r + c * p = s + d * p
  PROVE  r = s /\ c = d
  <1>1. c = d
    <2>1. ~(c < d)
      <3>1. c < d => d * p >= c * p + p
        OBVIOUS
      <3> QED BY <3>1
    <2>2. ~(d < c)
      <3>1. d < c => c * p >= d * p + p
        OBVIOUS
      <3> QED BY <3>1
    <2> QED BY <2>1, <2>2
  <1> QED BY <1>1

(* A frame that is drawn shows the item at the cursor, and none twice.      *)
LEMMA DrawShows ==
  ASSUME Draw, Arranged(items), size.rows \in Nat, size.cols \in Nat, cursor \in Nat, viewOffset \in Nat
  PROVE  /\ Shown' /\ cursor' \in Nat /\ viewOffset' \in Nat /\ layout'.perColumn \in Nat
         /\ items' = items /\ size' = size /\ phase' = "read"
  <1> DEFINE lay == Layout(items)
             n == Len(items)
             at == AtMost(AtLeast(0, n - 1), cursor)
             v == View(lay, at)
             p == lay.perColumn
             h == lay.rows
             w == lay.columns
             row == at % p
             column == at \div p
  <1>1. layout' = lay /\ cursor' = at /\ viewOffset' = v /\ items' = items /\ size' = size /\ phase' = "read"
    BY DEF Draw
  <1>2. n \in Nat \ {0}
    BY ArrangedHasItems
  <1>3. at \in Nat /\ at < n
    <2> HIDE DEF n
    <2> QED BY <1>2 DEF AtMost, AtLeast
  <1> HIDE DEF at
  <1>4. h \in Nat /\ w \in Nat \ {0} /\ p \in Nat \ {0} /\ n <= w * p
    BY LayoutHolds
  <1> HIDE DEF lay
  <1>5. v \in Nat /\ (h > 0 => row - v \in 0..(h - 1))
    BY <1>3, <1>4, ViewHolds
  <1>6. column \in Nat /\ row \in 0..(p - 1) /\ at = p * column + row
    BY <1>3, <1>4, Divided
  <1> HIDE DEF v, row, column, n
  <1> DEFINE Grid == (0..(h - 1)) \X (0..(w - 1))
             Shows(r, c) == IF r < p /\ v + r + c * p < n THEN v + r + c * p ELSE Blank
  <1>7. Cells' = Grid
    BY <1>1 DEF Cells
  <1> HIDE DEF p, h, w
  <1>9. ASSUME h > 0 PROVE \E x \in Grid : Shows(x[1], x[2]) = at
    <2>1. column \in 0..(w - 1)
      <3>1. column >= w => p * column >= w * p
        BY <1>4, <1>6
      <3> QED BY <1>2, <1>3, <1>4, <1>6, <3>1
    <2> DEFINE r == row - v
               x == <<r, column>>
    <2>2. r \in 0..(h - 1) /\ r < p /\ v + r + column * p = at
      BY <1>4, <1>5, <1>6, <1>9
    <2> HIDE DEF r
    <2>3. Shows(r, column) = at
      BY <1>3, <2>2
    <2>4. x \in Grid /\ x[1] = r /\ x[2] = column
      BY <2>1, <2>2
    <2> HIDE DEF x, Grid
    <2>5. Shows(x[1], x[2]) = at
      <3> HIDE DEF Shows
      <3> QED BY <2>3, <2>4
    <2> QED BY <2>4, <2>5
  <1>10. ASSUME NEW x \in Grid, NEW y \in Grid, x # y
         PROVE  Shows(x[1], x[2]) # Shows(y[1], y[2]) \/ Shows(x[1], x[2]) = Blank
    <2> SUFFICES ASSUME Shows(x[1], x[2]) = Shows(y[1], y[2]), Shows(x[1], x[2]) # Blank PROVE FALSE
      OBVIOUS
    <2> DEFINE a == x[1]
               b == x[2]
               c == y[1]
               d == y[2]
    <2>1. a \in 0..(h - 1) /\ b \in 0..(w - 1) /\ c \in 0..(h - 1) /\ d \in 0..(w - 1)
      OBVIOUS
    <2>2. x = <<a, b>> /\ y = <<c, d>>
      OBVIOUS
    <2>3. Shows(a, b) = Shows(c, d) /\ Shows(a, b) # Blank
      OBVIOUS
    <2> HIDE DEF a, b, c, d
    <2>4. a < p /\ c < p /\ v + a + b * p = v + c + d * p
      BY <2>3
    <2>5. b * p \in Int /\ d * p \in Int /\ a \in 0..(p - 1) /\ c \in 0..(p - 1) /\ b \in Nat /\ d \in Nat
      BY <1>4, <2>1, <2>4
    <2>6. a + b * p = c + d * p
      BY <1>5, <2>4, <2>5
    <2>7. a = c /\ b = d
      BY <1>4, <2>5, <2>6, OneColumnOnly
    <2> QED BY <1>10, <2>2, <2>7
  <1>11. cursor' < Len(items')
    BY <1>1, <1>3 DEF n
  <1>12. layout'.rows = h
    BY <1>1 DEF h
  <1>13. layout'.perColumn \in Nat
    BY <1>1, <1>4 DEF p
  <1>14. layout'.rows > 0 => \E x \in Cells' : Cell(x[1], x[2])' = cursor'
    <2> HIDE DEF Grid
    <2> QED BY <1>1, <1>7, <1>9, <1>12 DEF Cell, p, n
  <1>15. \A x, y \in Cells' : x # y => Cell(x[1], x[2])' # Cell(y[1], y[2])' \/ Cell(x[1], x[2])' = Blank
    <2> HIDE DEF Grid
    <2> QED BY <1>1, <1>7, <1>10 DEF Cell, p, n
  <1> QED BY <1>1, <1>3, <1>5, <1>11, <1>13, <1>14, <1>15 DEF Shown
-----------------------------------------------------------------------------
(* What the keys work on: the modules, a cursor and a view.                 *)
ListInv == /\ size.rows \in Nat /\ size.cols \in Nat
           /\ cursor \in Nat /\ viewOffset \in Nat
           /\ phase \in {"draw", "read", "save"} => Arranged(items)
           /\ phase = "read" => Shown /\ layout.perColumn \in Nat

(* The user interface has not begun.                                        *)
LEMMA InitListInv == Init => ListInv
  <1> SUFFICES ASSUME NEW s \in Starts, InitUI(s) PROVE ListInv
    BY DEF Init
  <1>1. size \in TerminalSizes /\ phase = "argv" /\ cursor = 0 /\ viewOffset = 0
    BY DEF InitUI
  <1>2. size.rows \in Nat /\ size.cols \in Nat
    BY <1>1, GenConfigAssumption
  <1> QED BY <1>1, <1>2 DEF ListInv

(* After a command there is a list again.                                   *)
Edited == Arranged(items') /\ cursor' \in Nat /\ viewOffset' = viewOffset

(* A command leaves a list with all modules, ...                            *)
LEMMA CommandEdits ==
  ASSUME NEW k, Command(k), Arranged(items), cursor \in Nat, cursor < Len(items), layout.perColumn \in Nat
  PROVE  Edited
  <1> DEFINE n == Len(items)
  <1>0. n \in Nat \ {0} /\ items # <<>> /\ items \in Seq(Items) /\ DOMAIN items = 1..n
    BY ArrangedHasItems DEF Arranged
  <1>1. ASSUME NEW to, MoveCursor(to), to \in Nat PROVE Edited
    BY <1>1 DEF MoveCursor, Edited
  <1>2. ASSUME NEW list, NEW to, Edit(list, to), Arranged(list), to \in Nat PROVE Edited
    BY <1>2 DEF Edit, Edited
  <1>3. Final \in Nat
    BY <1>0 DEF Final
  <1>4. ASSUME NEW list, Arranged(list) PROVE Clamped(list) \in Nat
    <2>1. Len(list) \in Nat /\ Len(list) >= 1
      BY <1>4, ArrangedHasItems
    <2> QED BY <2>1 DEF Clamped
  <1>5. CASE Up
    <2>1. (IF cursor > 0 THEN cursor - 1 ELSE Final) \in Nat
      BY <1>3
    <2> QED BY <1>1, <1>5, <2>1 DEF Up
  <1>6. CASE Down
    <2>1. (IF cursor + 1 < Len(items) THEN cursor + 1 ELSE 0) \in Nat
      OBVIOUS
    <2> QED BY <1>1, <1>6, <2>1 DEF Down
  <1>7. CASE Left
    <2>1. (IF cursor >= layout.perColumn THEN cursor - layout.perColumn ELSE cursor) \in Nat
      OBVIOUS
    <2> QED BY <1>1, <1>7, <2>1 DEF Left
  <1>8. CASE Right
    <2>1. (IF cursor + layout.perColumn < Len(items) THEN cursor + layout.perColumn ELSE cursor) \in Nat
      OBVIOUS
    <2> QED BY <1>1, <1>8, <2>1 DEF Right
  <1>9. CASE MoveCursor(0) \/ MoveCursor(Final)
    BY <1>1, <1>3, <1>9
  <1>10. \A i \in 1..n : /\ items[i] \in Items
                         /\ Flipped(items[i]) \in Items /\ Flipped(items[i]).name = items[i].name
                         /\ Flipped(items[i]).status = "special" <=> items[i].status = "special"
    <2> SUFFICES ASSUME NEW i \in 1..n
                 PROVE  /\ items[i] \in Items
                        /\ Flipped(items[i]) \in Items /\ Flipped(items[i]).name = items[i].name
                        /\ Flipped(items[i]).status = "special" <=> items[i].status = "special"
      OBVIOUS
    <2> DEFINE it == items[i]
    <2>1. it \in Items
      BY <1>0
    <2> HIDE DEF it
    <2>2. Flipped(it) \in Items /\ Flipped(it).name = it.name
          /\ (Flipped(it).status = "special" <=> it.status = "special")
      <3>1. CASE it.status = "selected"
        BY <2>1, <3>1 DEF Flipped, Items
      <3>2. CASE it.status = "unselected"
        BY <2>1, <3>2 DEF Flipped, Items
      <3>3. CASE it.status = "special"
        BY <2>1, <3>3 DEF Flipped, Items
      <3> QED BY <2>1, <3>1, <3>2, <3>3 DEF Items
    <2> QED BY <2>1, <2>2 DEF it
  <1>11. CASE Toggle
    <2> DEFINE list == [items EXCEPT ![cursor + 1] = Flipped(@)]
    <2>1. cursor + 1 \in 1..n
      BY <1>0
    <2>2. list \in Seq(Items) /\ Len(list) = n
      BY <1>0, <1>10, <2>1
    <2>3. \A i \in 1..n : list[i] = IF i = cursor + 1 THEN Flipped(items[i]) ELSE items[i]
      BY <1>0
    <2> HIDE DEF list
    <2>4. \A i \in 1..n : /\ list[i].name = items[i].name
                          /\ list[i].status = "special" <=> items[i].status = "special"
      BY <1>10, <2>3
    <2>5. Arranged(list)
      BY <2>2, <2>4, ToggleArranged
    <2> QED BY <1>2, <1>11, <2>5 DEF Toggle, list
  <1>12. CASE SelectAll
    <2> DEFINE Ticked(it) == [it EXCEPT !.status = IF @ = "special" THEN @ ELSE "selected"]
               list == [i \in DOMAIN items |-> Ticked(items[i])]
    <2>1. \A it \in Items : /\ Ticked(it) \in Items /\ Ticked(it).name = it.name
                            /\ Ticked(it).status = "special" <=> it.status = "special"
      BY DEF Items
    <2>2. \A i \in 1..n : items[i] \in Items /\ list[i] = Ticked(items[i])
      BY <1>0, <1>10
    <2>3. list = [i \in 1..n |-> list[i]]
      BY <1>0
    <2> HIDE DEF Ticked, list
    <2>4. list \in Seq(Items) /\ Len(list) = n
      BY <1>0, <2>1, <2>2, <2>3
    <2>5. Arranged(list)
      BY <2>1, <2>2, <2>4, ToggleArranged
    <2>6. Edit(list, cursor)
      BY <1>12 DEF SelectAll, list, Ticked
    <2> QED BY <1>2, <2>5, <2>6
  <1>13. CASE InvertAll
    <2> DEFINE list == [i \in DOMAIN items |-> Flipped(items[i])]
    <2>2. \A i \in 1..n : list[i] = Flipped(items[i])
      BY <1>0
    <2>3. list = [i \in 1..n |-> list[i]]
      BY <1>0
    <2> HIDE DEF list
    <2>4. list \in Seq(Items) /\ Len(list) = n
      BY <1>0, <1>10, <2>2, <2>3
    <2>5. Arranged(list)
      BY <1>10, <2>2, <2>4, ToggleArranged
    <2>6. Edit(list, cursor)
      BY <1>13 DEF InvertAll, list
    <2> QED BY <1>2, <2>5, <2>6
  <1>14. \A i, j \in 1..n : Arranged(Swapped(i, j))
    BY SwapArranged DEF Swapped
  <1>15. CASE MoveItemDown
    <2>1. CASE cursor + 1 >= n
      BY <1>15, <2>1 DEF MoveItemDown, ui, Edited
    <2>2. CASE ~(cursor + 1 >= n)
      <3> DEFINE i == cursor + 1
                 j == cursor + 2
      <3>1. i \in 1..n /\ j \in 1..n
        BY <1>0, <2>2
      <3> HIDE DEF i, j
      <3>2. Arranged(Swapped(i, j))
        BY <1>14, <3>1
      <3>3. Edit(Swapped(i, j), i)
        BY <1>15, <2>2 DEF MoveItemDown, i, j
      <3> QED BY <1>2, <3>1, <3>2, <3>3
    <2> QED BY <2>1, <2>2
  <1>16. CASE MoveItemUp
    <2>1. CASE cursor = 0
      BY <1>16, <2>1 DEF MoveItemUp, ui, Edited
    <2>2. CASE cursor # 0
      <3> DEFINE i == cursor + 1
                 to == cursor - 1
      <3>1. i \in 1..n /\ cursor \in 1..n /\ to \in Nat
        BY <1>0, <2>2
      <3> HIDE DEF i, to
      <3>2. Arranged(Swapped(i, cursor))
        BY <1>14, <3>1
      <3>3. Edit(Swapped(i, cursor), to)
        BY <1>16, <2>2 DEF MoveItemUp, i, to
      <3> QED BY <1>2, <3>1, <3>2, <3>3
    <2> QED BY <2>1, <2>2
  <1>17. ASSUME NEW name \in {Break, Separator}, AddBelow(name) PROVE Edited
    <2> DEFINE at == cursor + 2
               x == Item(name, "special")
    <2>1. at \in 1..(Len(items) + 1)
      BY <1>0
    <2>2. x \in Items /\ x.status = "special" /\ x.name \notin Modules
      BY DEF Items, Item, Modules, Names
    <2>3. Edit(InsertAt(items, at, x), cursor)
      BY <1>17 DEF AddBelow
    <2> HIDE DEF at, x
    <2>4. Arranged(InsertAt(items, at, x))
      BY <2>1, <2>2, InsertArranged
    <2> QED BY <1>2, <2>3, <2>4
  <1>18. CASE RemoveSpecial
    <2> DEFINE i == cursor + 1
    <2>1. i \in 1..n
      BY <1>0
    <2>2. CASE items[i].status # "special"
      BY <1>18, <2>2 DEF RemoveSpecial, ui, Edited
    <2>3. CASE items[i].status = "special"
      <3>1. Edit(RemoveAt(items, i), Clamped(RemoveAt(items, i)))
        BY <1>18, <2>3 DEF RemoveSpecial
      <3> HIDE DEF i
      <3>2. Arranged(RemoveAt(items, i))
        BY <2>1, <2>3, RemoveArranged
      <3> QED BY <1>2, <1>4, <3>1, <3>2
    <2> QED BY <2>2, <2>3
  <1>19. CASE RemoveAllBreaksSeparators
    <2>1. Arranged(WithoutSpecial(items))
      BY WithoutSpecialArranged
    <2> QED BY <1>2, <1>4, <1>19, <2>1 DEF RemoveAllBreaksSeparators
  <1>20. CASE (\E d \in {1, -1} : CycleLogoType(d) \/ CycleLogoPosition(d)) \/ ToggleOutput
    BY <1>20 DEF CycleLogoType, CycleLogoPosition, SetLogo, ToggleOutput, Edited
  <1> QED
    BY <1>5, <1>6, <1>7, <1>8, <1>9, <1>11, <1>12, <1>13, <1>15, <1>16, <1>17, <1>18, <1>19, <1>20, Zenon
    DEF Command

(* ... as does any key.                                                     *)
LEMMA ReadEdits ==
  ASSUME ListInv, NEW n, Read(n) PROVE Edited /\ size' = size /\ phase' # "read"
  <1> DEFINE k == KeyOf(SubSeq(typed, 1, n))
  <1>1. HandleKey(k) /\ phase = "read" /\ size' = size
    BY DEF Read
  <1> HIDE DEF k
  <1>2. Arranged(items) /\ cursor \in Nat /\ cursor < Len(items) /\ layout.perColumn \in Nat
    BY <1>1 DEF ListInv, Shown
  <1>3. phase' # "read"
    <2>1. CASE confirming
      BY <1>1, <2>1 DEF HandleKey
    <2>2. CASE ~confirming
      BY <1>1, <2>2 DEF HandleKey
    <2> QED BY <2>1, <2>2
  <1>4. ASSUME UNCHANGED ui \/ Ask \/ \E b : Answer(b) PROVE Edited
    <2>1. items' = items /\ cursor' = cursor /\ viewOffset' = viewOffset
      BY <1>4 DEF ui, Ask, Answer
    <2> QED BY <1>2, <2>1 DEF Edited
  <1>5. ASSUME Command(k) PROVE Edited
    BY <1>2, <1>5, CommandEdits
  <1>6. UNCHANGED ui \/ Ask \/ (\E b : Answer(b)) \/ Command(k)
    BY <1>1 DEF HandleKey
  <1> QED BY <1>1, <1>3, <1>4, <1>5, <1>6

(* And so does every step.                                                  *)
LEMMA NextListInv == ListInv /\ [Next]_vars => ListInv'
  <1> SUFFICES ASSUME ListInv, [Next]_vars PROVE ListInv'
    OBVIOUS
  <1>1. ASSUME UNCHANGED <<size, ui>>, phase' = phase PROVE ListInv'
    BY <1>1 DEF ListInv, Shown, Cells, Cell, ui
  <1>2. ASSUME UNCHANGED <<size, ui>>, phase' \notin {"draw", "read", "save"} PROVE ListInv'
    BY <1>2 DEF ListInv, ui
  <1>3. CASE UNCHANGED vars
    BY <1>1, <1>3 DEF vars, uiVars
  <1>4. CASE ParseArguments /\ UNCHANGED <<uiVars, fileVars>>
    BY <1>1, <1>4 DEF uiVars
  <1>5. CASE Main
    <2>1. phase' \in {"run", "start", "write"}
      BY <1>5 DEF Main
    <2> QED BY <1>2, <1>5, <2>1 DEF Main
  <1>6. CASE WriteConfigFile \/ NextRun
    <2>1. phase' \in {"written", "loaded"} /\ UNCHANGED <<size, ui>>
      BY <1>6 DEF WriteConfigFile, NextRun
    <2> QED BY <1>2, <2>1
  <1>7. CASE Start
    <2>1. items' = InitItems /\ phase' = "draw" /\ UNCHANGED <<size, cursor, viewOffset>>
      BY <1>7 DEF Start
    <2> QED BY <2>1, InitItemsArranged DEF ListInv
  <1>8. CASE Draw
    <2>1. Arranged(items) /\ cursor \in Nat /\ viewOffset \in Nat /\ size.rows \in Nat /\ size.cols \in Nat
      BY <1>8 DEF Draw, ListInv
    <2>2. /\ Shown' /\ cursor' \in Nat /\ viewOffset' \in Nat /\ layout'.perColumn \in Nat
          /\ items' = items /\ size' = size /\ phase' = "read"
      BY <1>8, <2>1, DrawShows
    <2> QED BY <2>1, <2>2 DEF ListInv
  <1>9. CASE ApplyConfig
    <2>1. phase' \in {"cancel", "write"} /\ UNCHANGED <<size, ui>>
      BY <1>9 DEF ApplyConfig
    <2> QED BY <1>2, <2>1
  <1>10. CASE Appear
    BY <1>1, <1>10 DEF Appear
  <1>11. CASE \E n \in 1..ReadSize : Read(n)
    <2>1. Edited /\ size' = size /\ phase' # "read"
      BY <1>11, ReadEdits
    <2> QED BY <2>1 DEF Edited, ListInv
  <1>12. CASE \E s \in TerminalSizes : Resize(s)
    <2>1. PICK s \in TerminalSizes : Resize(s)
      BY <1>12
    <2>2. phase = "read" /\ phase' = "draw" /\ size' = s /\ UNCHANGED ui
      BY <2>1 DEF Resize
    <2>3. s.rows \in Nat /\ s.cols \in Nat
      BY GenConfigAssumption
    <2> QED BY <2>2, <2>3 DEF ListInv, ui
  <1>13. CASE \E bytes \in Keyboard : Press(bytes)
    BY <1>1, <1>13 DEF Press
  <1> QED
    BY <1>3, <1>4, <1>5, <1>6, <1>7, <1>8, <1>9, <1>10, <1>11, <1>12, <1>13, Zenon DEF Next, UI

(* Whatever the list, the size of the terminal and the scrolling: the item  *)
(* that the next key is about is on the screen, and no item is there twice  *)
(* (genconfig.c:988).                                                       *)
THEOREM CursorIsSeen == Spec => []CursorSeen
  <1>1. ListInv => CursorSeen
    BY DEF ListInv, Shown, CursorSeen
  <1> QED BY <1>1, InitListInv, NextListInv, PTL DEF Spec

(* The keys move the modules about and delete what they have added, but     *)
(* every module stays in the list, once (genconfig.c:207, 231, 954).        *)
THEOREM ModulesStay == Spec => []ModulesKept
  <1>1. ListInv => ModulesKept
    BY ArrangedKeeps DEF ListInv, ModulesKept
  <1> QED BY <1>1, InitListInv, NextListInv, PTL DEF Spec
-----------------------------------------------------------------------------
(* The command line as it is given. Of the arguments before i some pairs    *)
(* are complete, and one may be waiting for its value.                      *)
IsLine(l) == l \in Seq(STRING) /\ Absent \notin {l[i] : i \in DOMAIN l}

Words == STRING \cup {Absent, Empty}
PairSet == Words \X Words
Readings == [pairs : Seq(PairSet), key : Words]

(* The arguments are texts, and none of them is the absent value.           *)
LEMMA LineIs ==
  ASSUME NEW l, IsLine(l)
  PROVE  Len(l) \in Nat /\ \A i \in 1..Len(l) : l[i] \in Words /\ l[i] # Absent
  <1>1. Len(l) \in Nat /\ DOMAIN l = 1..Len(l) /\ \A i \in 1..Len(l) : l[i] \in STRING
    BY DEF IsLine
  <1>2. \A i \in DOMAIN l : l[i] # Absent
    BY Zenon DEF IsLine
  <1> QED BY <1>1, <1>2 DEF Words

(* What an argument is added to stays a list of pairs.                      *)
LEMMA TakesIs ==
  ASSUME NEW s \in Readings, NEW a \in Words
  PROVE  Takes(s, a) \in Readings /\ Complete(s) \in Seq(PairSet)
  <1>1. s.pairs \in Seq(PairSet) /\ s.key \in Words /\ Absent \in Words
    BY DEF Readings, Words
  <1>2. <<s.key, a>> \in PairSet /\ <<s.key, Absent>> \in PairSet
    BY <1>1 DEF PairSet
  <1>3. \A p \in PairSet : Append(s.pairs, p) \in Seq(PairSet)
    BY <1>1
  <1>4. Append(s.pairs, <<s.key, a>>) \in Seq(PairSet) /\ Complete(s) \in Seq(PairSet)
    BY <1>1, <1>2, <1>3, Zenon DEF Complete
  <1>5. \A p \in Seq(PairSet), k \in Words : [pairs |-> p, key |-> k] \in Readings
    BY DEF Readings
  <1>6. Empty \in Words
    BY DEF Words
  <1> QED BY <1>4, <1>5, <1>6, Zenon DEF Takes

(* What is read of the line up to each argument, argument by argument.      *)
LEMMA TakenIs ==
  ASSUME NEW l, IsLine(l)
  PROVE  /\ Taken(l) \in [0..Len(l) -> Readings]
         /\ Taken(l)[0] = [pairs |-> <<>>, key |-> Empty]
         /\ \A i \in 1..Len(l) : Taken(l)[i] = Takes(Taken(l)[i - 1], l[i])
  <1> DEFINE m == Len(l)
             V == Readings
             first == [pairs |-> <<>>, key |-> Empty]
             At(f, i) == IF i = 0 THEN first ELSE Takes(f[i - 1], l[i])
             G == [i \in 1..m |-> [s \in V |-> Takes(s, l[i])]]
  <1>1. m \in Nat /\ \A i \in 1..m : l[i] \in Words
    BY LineIs
  <1>2. first \in V
    <2>1. <<>> \in Seq(PairSet)
      OBVIOUS
    <2> QED BY <2>1 DEF Readings, Words
  <1>3. Within(G, m, V)
    <2>1. \A i \in 1..m : \A s \in V : Takes(s, l[i]) \in V
      BY <1>1, TakesIs
    <2> HIDE DEF V, m
    <2> QED BY <2>1 DEF Within
  <1>4. PICK f \in [0..m -> V] : f[0] = first /\ \A k \in 1..m : f[k] = G[k][f[k - 1]]
    <2> HIDE DEF V, G, first, m
    <2> QED BY <1>1, <1>2, <1>3, FromTheFront
  <1>5. \A i \in 1..m : i - 1 \in 0..m /\ i # 0
    BY <1>1
  <1>6. \A i \in 1..m : f[i] = Takes(f[i - 1], l[i])
    <2> SUFFICES ASSUME NEW i \in 1..m PROVE f[i] = Takes(f[i - 1], l[i])
      OBVIOUS
    <2> HIDE DEF V, m
    <2>1. f[i - 1] \in V
      BY <1>4, <1>5
    <2> QED BY <1>4, <2>1
  <1>7. f = [i \in 0..m |-> At(f, i)]
    <2>1. \A i \in 0..m : f[i] = At(f, i)
      <3>1. \A i \in 0..m : i = 0 \/ i \in 1..m
        BY <1>1
      <3> HIDE DEF first, V, m
      <3> QED BY <1>4, <1>5, <1>6, <3>1
    <2> HIDE DEF At, m, V
    <2> QED BY <1>4, <2>1
  <1> DEFINE taken[i \in 0..Len(l)] ==
               IF i = 0 THEN [pairs |-> <<>>, key |-> Empty] ELSE Takes(taken[i - 1], l[i])
  <1>8. taken = [i \in 0..m |-> At(taken, i)]
    BY <1>7
  <1>9. Taken(l) = taken
    BY DEF Taken
  <1> HIDE DEF taken
  <1>10. \A i \in 0..m : taken[i] = At(taken, i)
    BY <1>8
  <1>11. taken[0] = first /\ \A i \in 1..m : taken[i] = Takes(taken[i - 1], l[i])
    <2>1. 0 \in 0..m /\ \A i \in 1..m : i \in 0..m /\ i # 0
      BY <1>1
    <2> HIDE DEF m, first
    <2> QED BY <1>10, <2>1
  <1> HIDE DEF first, V
  <1> DEFINE T == {k \in Nat : k <= m => taken[k] \in V}
  <1>12. Nat \subseteq T
    <2>1. 0 \in T
      BY <1>2, <1>11
    <2>2. ASSUME NEW k \in Nat, k \in T PROVE k + 1 \in T
      <3> SUFFICES ASSUME k + 1 <= m PROVE taken[k + 1] \in V
        OBVIOUS
      <3>1. taken[k] \in V /\ k + 1 \in 1..m /\ (k + 1) - 1 = k
        BY <1>1, <2>2
      <3>2. taken[k + 1] = Takes(taken[k], l[k + 1])
        BY <1>11, <3>1
      <3> QED BY <1>1, <3>1, <3>2, TakesIs DEF V
    <2> HIDE DEF T
    <2> QED BY <2>1, <2>2, Upward
  <1>13. \A k \in 0..m : taken[k] \in V
    BY <1>1, <1>12
  <1>14. taken = [k \in 0..m |-> taken[k]]
    BY <1>8
  <1>15. taken \in [0..m -> V]
    BY <1>13, <1>14
  <1> QED BY <1>9, <1>11, <1>15 DEF first, V

(* A value stands behind its option; anything else can begin a pair.        *)
IsValue(l, i) ==
  /\ i \in 1..Len(l) /\ Taken(l)[i - 1].key # Empty
  /\ ~IsKey(l[i]) \/ Taken(l)[i - 1].key = "--separator-string"
Boundary(l, i) == i \in 1..(Len(l) + 1) /\ ~IsValue(l, i)
GivenValue(l, i) == i < Len(l) /\ (~IsKey(l[i + 1]) \/ l[i] = "--separator-string")
PairsBefore(l, i) == Complete(Taken(l)[i - 1])

LEMMA LenIs == ASSUME NEW l, IsLine(l) PROVE Len(l) \in Nat
  BY LineIs

(* The reading before an argument, and the one after it.                    *)
LEMMA TakenAt ==
  ASSUME NEW l, IsLine(l), NEW i \in 1..(Len(l) + 1)
  PROVE  /\ Taken(l)[i - 1] \in Readings
         /\ i <= Len(l) =>
              /\ l[i] \in Words /\ Taken(l)[i] = Takes(Taken(l)[i - 1], l[i])
              /\ Taken(l)[i] \in Readings
  <1>1. Len(l) \in Nat
    BY LenIs
  <1>2. i - 1 \in 0..Len(l) /\ (i <= Len(l) => i \in 1..Len(l) /\ i \in 0..Len(l))
    BY <1>1
  <1> QED BY <1>2, LineIs, TakenIs, Zenon

(* An argument that begins a pair waits for its value.                      *)
LEMMA AtBoundary ==
  ASSUME NEW l, IsLine(l), NEW i \in 1..Len(l), Boundary(l, i)
  PROVE  Taken(l)[i].pairs = PairsBefore(l, i) /\ Taken(l)[i].key = l[i]
  <1>1. Len(l) \in Nat /\ i \in 1..(Len(l) + 1) /\ i <= Len(l)
    BY LenIs
  <1>2. Taken(l)[i] = Takes(Taken(l)[i - 1], l[i])
    BY <1>1, TakenAt
  <1>3. ~(Taken(l)[i - 1].key # Empty /\ (~IsKey(l[i]) \/ Taken(l)[i - 1].key = "--separator-string"))
    BY Zenon DEF Boundary, IsValue
  <1>4. Taken(l)[i] = [pairs |-> PairsBefore(l, i), key |-> l[i]]
    BY <1>2, <1>3, Zenon DEF Takes, PairsBefore
  <1> QED BY <1>4

(* The first argument begins a pair.                                        *)
LEMMA FirstBoundary ==
  ASSUME NEW l, IsLine(l)
  PROVE  Boundary(l, 1) /\ PairsBefore(l, 1) = <<>>
  <1>1. Len(l) \in Nat /\ 1 \in 1..(Len(l) + 1) /\ 1 - 1 = 0
    BY LenIs
  <1>2. Taken(l)[0] = [pairs |-> <<>>, key |-> Empty]
    BY TakenIs
  <1>3. Taken(l)[0].key = Empty /\ Taken(l)[0].pairs = <<>>
    BY <1>2
  <1> QED BY <1>1, <1>3, Zenon DEF Boundary, IsValue, PairsBefore, Complete

(* An empty argument begins a pair that nobody sees.                        *)
LEMMA EmptyArgument ==
  ASSUME NEW l, IsLine(l), NEW i \in 1..Len(l), Boundary(l, i), l[i] = Empty
  PROVE  Boundary(l, i + 1) /\ PairsBefore(l, i + 1) = PairsBefore(l, i)
  <1>1. Len(l) \in Nat /\ i + 1 \in 1..(Len(l) + 1) /\ (i + 1) - 1 = i
    BY LenIs
  <1>2. Taken(l)[i].pairs = PairsBefore(l, i) /\ Taken(l)[i].key = Empty
    BY AtBoundary, Zenon
  <1>3. Complete(Taken(l)[i]) = PairsBefore(l, i)
    BY <1>2 DEF Complete
  <1> QED BY <1>1, <1>2, <1>3, Zenon DEF Boundary, IsValue, PairsBefore

(* Any other is, for now, a pair without a value.                           *)
LEMMA KeyArgument ==
  ASSUME NEW l, IsLine(l), NEW i \in 1..Len(l), Boundary(l, i), l[i] # Empty
  PROVE  PairsBefore(l, i + 1) = Append(PairsBefore(l, i), <<l[i], Absent>>)
  <1>1. Len(l) \in Nat /\ (i + 1) - 1 = i
    BY LenIs
  <1>2. Taken(l)[i].pairs = PairsBefore(l, i) /\ Taken(l)[i].key = l[i]
    BY AtBoundary, Zenon
  <1> QED BY <1>1, <1>2, Zenon DEF PairsBefore, Complete

(* With a value behind it, the two make a pair.                             *)
LEMMA KeyWithValue ==
  ASSUME NEW l, IsLine(l), NEW i \in 1..Len(l), Boundary(l, i), l[i] # Empty, GivenValue(l, i)
  PROVE  /\ IsValue(l, i + 1) /\ Boundary(l, i + 2)
         /\ Taken(l)[i + 1].pairs = Append(PairsBefore(l, i), <<l[i], l[i + 1]>>)
         /\ PairsBefore(l, i + 2) = Taken(l)[i + 1].pairs
  <1>1. /\ Len(l) \in Nat /\ (i + 1) - 1 = i /\ i < Len(l) /\ i + 1 \in 1..Len(l)
        /\ i + 1 <= Len(l) /\ i + 1 \in 1..(Len(l) + 1) /\ i + 2 \in 1..(Len(l) + 1) /\ (i + 2) - 1 = i + 1
    BY LenIs DEF GivenValue
  <1>2. Taken(l)[i].pairs = PairsBefore(l, i) /\ Taken(l)[i].key = l[i]
    BY AtBoundary, Zenon
  <1>3. Taken(l)[i + 1] = Takes(Taken(l)[i], l[i + 1])
    BY <1>1, TakenAt
  <1>4. ~IsKey(l[i + 1]) \/ Taken(l)[i].key = "--separator-string"
    BY <1>2, Zenon DEF GivenValue
  <1>5. Taken(l)[i + 1] = [pairs |-> Append(Taken(l)[i].pairs, <<Taken(l)[i].key, l[i + 1]>>), key |-> Empty]
    BY <1>2, <1>3, <1>4, Zenon DEF Takes
  <1>6. Taken(l)[i + 1].pairs = Append(PairsBefore(l, i), <<l[i], l[i + 1]>>) /\ Taken(l)[i + 1].key = Empty
    BY <1>2, <1>5
  <1>7. IsValue(l, i + 1)
    BY <1>1, <1>2, <1>4, Zenon DEF IsValue
  <1>8. Boundary(l, i + 2)
    BY <1>1, <1>6, Zenon DEF Boundary, IsValue
  <1>9. PairsBefore(l, i + 2) = Taken(l)[i + 1].pairs
    BY <1>1, <1>6, Zenon DEF PairsBefore, Complete
  <1> QED BY <1>6, <1>7, <1>8, <1>9

(* With none, an option follows.                                            *)
LEMMA KeyWithoutValue ==
  ASSUME NEW l, IsLine(l), NEW i \in 1..Len(l), Boundary(l, i), l[i] # Empty, ~GivenValue(l, i)
  PROVE  /\ Boundary(l, i + 1)
         /\ i < Len(l) => IsKey(l[i + 1]) /\ l[i] # "--separator-string"
  <1>1. Len(l) \in Nat /\ (i + 1) - 1 = i /\ i + 1 \in 1..(Len(l) + 1)
        /\ (i + 1 \in 1..Len(l) => i < Len(l))
    BY LenIs
  <1>2. Taken(l)[i].key = l[i]
    BY AtBoundary, Zenon
  <1>3. i < Len(l) => IsKey(l[i + 1]) /\ l[i] # "--separator-string"
    BY Zenon DEF GivenValue
  <1> QED BY <1>1, <1>2, <1>3, Zenon DEF Boundary, IsValue

(* Every argument that begins no pair is the value of the one before it.    *)
LEMMA ValueFollows ==
  ASSUME NEW l, IsLine(l), NEW i \in 1..(Len(l) + 1), ~Boundary(l, i)
  PROVE  i - 1 \in 1..Len(l) /\ Boundary(l, i - 1) /\ l[i - 1] # Empty /\ GivenValue(l, i - 1)
  <1>1. Len(l) \in Nat /\ IsValue(l, i)
    BY LenIs DEF Boundary
  <1>2. i # 1
    BY FirstBoundary
  <1>3. /\ i - 1 \in 1..Len(l) /\ i - 1 \in 1..(Len(l) + 1) /\ i - 1 <= Len(l) /\ i - 1 < Len(l)
        /\ (i - 1) + 1 = i
    BY <1>1, <1>2 DEF IsValue
  <1>4. Taken(l)[i - 1] = Takes(Taken(l)[(i - 1) - 1], l[i - 1])
    BY <1>3, TakenAt
  <1>5. Boundary(l, i - 1)
    <2> SUFFICES ASSUME IsValue(l, i - 1) PROVE FALSE
      BY <1>3 DEF Boundary
    <2>1. Taken(l)[i - 1].key = Empty
      <3> DEFINE s == Taken(l)[(i - 1) - 1]
      <3>1. s.key # Empty /\ (~IsKey(l[i - 1]) \/ s.key = "--separator-string")
        BY Zenon DEF IsValue
      <3>2. Taken(l)[i - 1] = [pairs |-> Append(s.pairs, <<s.key, l[i - 1]>>), key |-> Empty]
        BY <1>4, <3>1, Zenon DEF Takes
      <3> QED BY <3>2
    <2> QED BY <1>1, <2>1 DEF IsValue
  <1>6. Taken(l)[i - 1].key = l[i - 1]
    BY <1>3, <1>5, AtBoundary, Zenon
  <1> QED BY <1>1, <1>3, <1>5, <1>6, Zenon DEF IsValue, GivenValue

(* The pairs that are complete stay what they are.                          *)
Begins(p, q) == Len(p) <= Len(q) /\ \A n \in 1..Len(p) : p[n] = q[n]
PairsOf(l) == Complete(Taken(l)[Len(l)])

(* A list begins itself, and what is made longer at its end.                *)
LEMMA AppendBegins ==
  ASSUME NEW S, NEW p \in Seq(S), NEW e \in S
  PROVE  /\ Begins(p, p) /\ Begins(p, Append(p, e))
         /\ Len(Append(p, e)) = Len(p) + 1 /\ Append(p, e)[Len(p) + 1] = e
  BY DEF Begins

(* What begins a beginning begins the whole.                                *)
LEMMA BeginsTransitive ==
  ASSUME NEW S, NEW p \in Seq(S), NEW q \in Seq(S), NEW r \in Seq(S), Begins(p, q), Begins(q, r)
  PROVE  Begins(p, r)
  <1>1. Len(p) \in Nat /\ Len(q) \in Nat /\ Len(r) \in Nat
    OBVIOUS
  <1>2. \A n \in 1..Len(p) : n \in 1..Len(q)
    BY <1>1 DEF Begins
  <1> QED BY <1>1, <1>2 DEF Begins

LEMMA ReadingIs ==
  ASSUME NEW s \in Readings
  PROVE  s.pairs \in Seq(PairSet) /\ s.key \in Words /\ <<s.key, Absent>> \in PairSet
  <1>1. s.pairs \in Seq(PairSet) /\ s.key \in Words /\ Absent \in Words
    BY DEF Readings, Words
  <1> QED BY <1>1 DEF PairSet

(* Completing the last pair leaves those before it.                         *)
LEMMA CompleteBegins == ASSUME NEW s \in Readings PROVE Begins(s.pairs, Complete(s))
  <1>1. Begins(s.pairs, s.pairs) /\ Begins(s.pairs, Append(s.pairs, <<s.key, Absent>>))
    BY ReadingIs, AppendBegins
  <1> QED BY <1>1, Zenon DEF Complete

(* So does the next argument.                                               *)
LEMMA TakesBegins ==
  ASSUME NEW s \in Readings, NEW a \in Words
  PROVE  Begins(s.pairs, Takes(s, a).pairs)
  <1>1. s.pairs \in Seq(PairSet) /\ <<s.key, a>> \in PairSet
    <2>1. s.pairs \in Seq(PairSet) /\ s.key \in Words
      BY ReadingIs
    <2> QED BY <2>1 DEF PairSet
  <1>2. Begins(s.pairs, Append(s.pairs, <<s.key, a>>))
    BY <1>1, AppendBegins
  <1>3. Takes(s, a).pairs = Append(s.pairs, <<s.key, a>>) \/ Takes(s, a).pairs = Complete(s)
    BY DEF Takes
  <1> QED BY <1>2, <1>3, CompleteBegins, Zenon

(* What is complete at any time is complete at the end.                     *)
LEMMA TakenBegins ==
  ASSUME NEW l, IsLine(l), NEW i \in 1..(Len(l) + 1)
  PROVE  Begins(Taken(l)[i - 1].pairs, PairsOf(l))
  <1> DEFINE m == Len(l) + 1
             S == {j \in 1..m : Begins(Taken(l)[j - 1].pairs, PairsOf(l))}
  <1>1. m \in Nat /\ Len(l) \in Nat
    BY LenIs
  <1>2. PairsOf(l) \in Seq(PairSet) /\ m \in S
    <2>1. m \in 1..(Len(l) + 1) /\ m - 1 = Len(l)
      BY <1>1
    <2>2. Taken(l)[Len(l)] \in Readings
      BY <2>1, TakenAt
    <2>3. Begins(Taken(l)[Len(l)].pairs, PairsOf(l))
      BY <2>2, CompleteBegins DEF PairsOf
    <2>4. PairsOf(l) \in Seq(PairSet)
      BY <2>2, TakesIs DEF PairsOf, Words
    <2> QED BY <2>1, <2>3, <2>4
  <1>3. ASSUME NEW p \in 1..m, \A q \in (p + 1)..m : q \in S PROVE p \in S
    <2>1. CASE p = m
      BY <1>2, <2>1
    <2>2. CASE p # m
      <3>1. p \in 1..(Len(l) + 1) /\ p <= Len(l) /\ p + 1 \in (p + 1)..m /\ (p + 1) - 1 = p
        BY <1>1, <2>2
      <3>2. p + 1 \in S
        BY <1>3, <3>1
      <3>3. Begins(Taken(l)[p].pairs, PairsOf(l))
        BY <3>1, <3>2
      <3>4. /\ Taken(l)[p - 1] \in Readings /\ l[p] \in Words /\ Taken(l)[p] \in Readings
            /\ Taken(l)[p] = Takes(Taken(l)[p - 1], l[p])
        BY <3>1, TakenAt
      <3>5. Begins(Taken(l)[p - 1].pairs, Taken(l)[p].pairs)
        BY <3>4, TakesBegins
      <3>6. Taken(l)[p - 1].pairs \in Seq(PairSet) /\ Taken(l)[p].pairs \in Seq(PairSet)
        BY <3>4, ReadingIs
      <3>7. Begins(Taken(l)[p - 1].pairs, PairsOf(l))
        BY <1>2, <3>3, <3>5, <3>6, BeginsTransitive
      <3> QED BY <3>7
    <2> QED BY <2>1, <2>2
  <1> HIDE DEF S, m
  <1>4. \A p \in 1..m : p \in S
    BY <1>1, <1>3, Downward
  <1> QED BY <1>4 DEF S, m

(* How many pairs begin before an argument.                                 *)
Begun(l, i) == Len(PairsBefore(l, i))

(* The pairs before an argument, and all of them, are pairs of words.       *)
LEMMA PairsBeforeAre ==
  ASSUME NEW l, IsLine(l), NEW i \in 1..(Len(l) + 1)
  PROVE  /\ PairsBefore(l, i) \in Seq(PairSet) /\ PairsOf(l) \in Seq(PairSet)
         /\ Begun(l, i) \in Nat
  <1>1. Len(l) \in Nat /\ Len(l) + 1 \in 1..(Len(l) + 1) /\ (Len(l) + 1) - 1 = Len(l)
    BY LenIs
  <1>2. PairsBefore(l, i) \in Seq(PairSet)
    BY TakenAt, TakesIs DEF PairsBefore, Words
  <1>3. Taken(l)[Len(l)] \in Readings
    BY <1>1, TakenAt
  <1>4. PairsOf(l) \in Seq(PairSet)
    BY <1>3, TakesIs DEF PairsOf, Words
  <1> QED BY <1>2, <1>4 DEF Begun

(* At the start no pair has begun, at the end all of them have.             *)
LEMMA BegunAtEnds ==
  ASSUME NEW l, IsLine(l)
  PROVE  Boundary(l, 1) /\ Begun(l, 1) = 0 /\ Begun(l, Len(l) + 1) = Len(PairsOf(l))
  <1>1. Len(l) \in Nat /\ (Len(l) + 1) - 1 = Len(l)
    BY LenIs
  <1>2. Boundary(l, 1) /\ PairsBefore(l, 1) = <<>>
    BY FirstBoundary
  <1>3. Len(<<>>) = 0
    OBVIOUS
  <1> QED BY <1>1, <1>2, <1>3 DEF Begun, PairsBefore, PairsOf

LEMMA PairIs ==
  ASSUME NEW l, IsLine(l), NEW i \in 1..Len(l), NEW v
  PROVE  Len(Append(PairsBefore(l, i), v)) = Begun(l, i) + 1
         /\ (v \in PairSet => Append(PairsBefore(l, i), v)[Begun(l, i) + 1] = v)
  <1>1. i \in 1..(Len(l) + 1)
    BY LenIs
  <1>2. PairsBefore(l, i) \in Seq(PairSet)
    BY <1>1, PairsBeforeAre
  <1> QED BY <1>2 DEF Begun

(* What an argument that begins a pair does: it is the next of the pairs.   *)
LEMMA NextPair ==
  ASSUME NEW l, IsLine(l), NEW i \in 1..Len(l), Boundary(l, i), l[i] # Empty
  PROVE  /\ Begun(l, i) + 1 \in 1..Len(PairsOf(l))
         /\ PairsOf(l)[Begun(l, i) + 1] = <<l[i], IF GivenValue(l, i) THEN l[i + 1] ELSE Absent>>
  <1> DEFINE v == IF GivenValue(l, i) THEN l[i + 1] ELSE Absent
             p == Append(PairsBefore(l, i), <<l[i], v>>)
  <1>1. Len(l) \in Nat /\ i \in 1..(Len(l) + 1) /\ i + 1 \in 1..(Len(l) + 1) /\ (i + 1) - 1 = i
    BY LenIs
  <1>2. <<l[i], v>> \in PairSet
    <2>1. l[i] \in Words /\ Absent \in Words
      BY LineIs DEF Words
    <2>2. GivenValue(l, i) => i + 1 \in 1..Len(l)
      BY <1>1 DEF GivenValue
    <2>3. v \in Words
      BY <2>1, <2>2, LineIs
    <2> QED BY <2>1, <2>3 DEF PairSet
  <1>3. Len(p) = Begun(l, i) + 1 /\ p[Begun(l, i) + 1] = <<l[i], v>>
    BY <1>2, PairIs
  <1>4. Begins(p, PairsOf(l))
    <2>1. CASE GivenValue(l, i)
      <3>1. i + 2 \in 1..(Len(l) + 1) /\ (i + 2) - 1 = i + 1
        BY <1>1, <2>1 DEF GivenValue
      <3>2. Taken(l)[i + 1].pairs = p
        BY <2>1, KeyWithValue
      <3>3. Begins(Taken(l)[(i + 2) - 1].pairs, PairsOf(l))
        BY <3>1, TakenBegins
      <3> QED BY <3>1, <3>2, <3>3
    <2>2. CASE ~GivenValue(l, i)
      <3>1. PairsBefore(l, i + 1) = p
        BY <2>2, KeyArgument
      <3>2. CASE i = Len(l)
        <4>1. PairsOf(l) = p
          BY <1>1, <3>1, <3>2 DEF PairsBefore, PairsOf
        <4>2. PairsOf(l) \in Seq(PairSet)
          BY <1>1, PairsBeforeAre
        <4> HIDE DEF p
        <4> QED BY <4>1, <4>2 DEF Begins
      <3>3. CASE i # Len(l)
        <4>1. i + 1 \in 1..Len(l) /\ i + 2 \in 1..(Len(l) + 1) /\ (i + 2) - 1 = i + 1
          BY <1>1, <3>3
        <4>2. Boundary(l, i + 1)
          BY <2>2, KeyWithoutValue
        <4>3. Taken(l)[i + 1].pairs = p
          BY <3>1, <4>1, <4>2, AtBoundary
        <4>4. Begins(Taken(l)[(i + 2) - 1].pairs, PairsOf(l))
          BY <4>1, TakenBegins
        <4> QED BY <4>1, <4>3, <4>4
      <3> QED BY <3>2, <3>3
    <2> QED BY <2>1, <2>2
  <1>5. Begun(l, i) \in Nat /\ PairsOf(l) \in Seq(PairSet)
    BY <1>1, PairsBeforeAre
  <1> HIDE DEF p
  <1>6. Len(p) <= Len(PairsOf(l)) /\ \A n \in 1..Len(p) : p[n] = PairsOf(l)[n]
    BY <1>4 DEF Begins
  <1>7. Begun(l, i) + 1 \in 1..Len(p) /\ Len(PairsOf(l)) \in Nat
    BY <1>3, <1>5
  <1> QED BY <1>3, <1>5, <1>6, <1>7

(* How the count of the pairs goes on.                                      *)
LEMMA BegunOn ==
  ASSUME NEW l, IsLine(l), NEW i \in 1..Len(l)
  PROVE  /\ Boundary(l, i) /\ l[i] = Empty => Boundary(l, i + 1) /\ Begun(l, i + 1) = Begun(l, i)
         /\ Boundary(l, i) /\ l[i] # Empty => Begun(l, i + 1) = Begun(l, i) + 1
         /\ ~Boundary(l, i) => Boundary(l, i + 1) /\ Begun(l, i + 1) = Begun(l, i)
  <1>1. CASE Boundary(l, i) /\ l[i] = Empty
    BY <1>1, EmptyArgument DEF Begun
  <1>2. CASE Boundary(l, i) /\ l[i] # Empty
    <2>1. PairsBefore(l, i + 1) = Append(PairsBefore(l, i), <<l[i], Absent>>)
      BY <1>2, KeyArgument
    <2>2. Len(Append(PairsBefore(l, i), <<l[i], Absent>>)) = Begun(l, i) + 1
      BY PairIs
    <2> QED BY <1>2, <2>1, <2>2 DEF Begun
  <1>3. CASE ~Boundary(l, i)
    <2> DEFINE j == i - 1
    <2>1. i \in 1..(Len(l) + 1) /\ j + 1 = i /\ j + 2 = i + 1
      BY LenIs
    <2>2. j \in 1..Len(l) /\ Boundary(l, j) /\ l[j] # Empty /\ GivenValue(l, j)
      BY <1>3, <2>1, ValueFollows
    <2> HIDE DEF j
    <2>3. PairsBefore(l, j + 1) = Append(PairsBefore(l, j), <<l[j], Absent>>)
      BY <2>2, KeyArgument
    <2>4. Boundary(l, j + 2) /\ PairsBefore(l, j + 2) = Append(PairsBefore(l, j), <<l[j], l[j + 1]>>)
      BY <2>2, KeyWithValue
    <2>5. /\ Len(Append(PairsBefore(l, j), <<l[j], Absent>>)) = Begun(l, j) + 1
          /\ Len(Append(PairsBefore(l, j), <<l[j], l[j + 1]>>)) = Begun(l, j) + 1
      BY <2>2, PairIs
    <2> QED BY <1>3, <2>1, <2>3, <2>4, <2>5 DEF Begun
  <1> QED BY <1>1, <1>2, <1>3
-----------------------------------------------------------------------------
(* The invariant. The first reading stands where a pair begins, and FFdata  *)
(* is what the commands among the pairs before say; the second may also     *)
(* stand at what is left of a command, and the options are what the pairs   *)
(* before make of those of the config. Of S, a set of pairs: none is among  *)
(* the first m, one at most is, or n is the last of them.                   *)
NoneOf(S, m) == \A n \in S : n > m
AtMostOne(S, m) == \A n, k \in S : n <= m /\ k <= m => n = k
Latest(S, m, n) == n \in S /\ n <= m /\ \A k \in S : k <= m => k <= n

Named(name) ==
  IF name \in {Empty, "none"} THEN Absent
  ELSE IF name = "-" THEN <<"stdin", "-">> ELSE First(Places(name))
Loads(path) == path # Absent => path \in DOMAIN world.files /\ ~world.files[path].broken
FromConfig(path, key) ==
  IF path # Absent /\ key \in DOMAIN world.files[path].sets THEN world.files[path].sets[key]
  ELSE Absent

Asked == Given("-w") \cup Given("--dynamic-interval")

(* What the commands among the first m pairs have made of FFdata.           *)
CommandsFit(m) == \A n \in 1..m : Pairs[n][1] \in Commands => Fits(n)

ConfigRead(d, m) ==
  /\ AtMostOne(Given("-c"), m) /\ Loads(d.configDoc)
  /\ \/ NoneOf(Given("-c"), m) /\ d.configLoaded = FALSE /\ d.configDoc = Absent
     \/ /\ d.configLoaded = TRUE
        /\ \E n \in Given("-c") : n <= m /\ d.configDoc = Named(ValueOf(n))

DocumentRead(d, m) ==
  /\ AtMostOne(Documents, m)
  /\ \/ NoneOf(Documents, m) /\ d.docType = "none"
     \/ \E n \in Documents :
          n <= m /\ d.docType = IF AsksForJson(n) THEN "json" ELSE "config"

GenRead(d, m) ==
  \/ NoneOf(Given("--gen-config"), m) /\ d.genConfig = FALSE
  \/ \E n : Latest(Given("--gen-config"), m, n) /\ d.genConfig = (ValueOf(n) # Empty)

IntervalRead(d, m) ==
  \/ NoneOf(Asked, m) /\ d.dynamicInterval = 0
  \/ \E n : Latest(Asked, m, n) /\ d.dynamicInterval = Milliseconds(n)

OptionsFrom(d) == d.options = [key \in DOMAIN OptionKind |-> FromConfig(d.configDoc, key)]

Fields == {"configLoaded", "configDoc", "docType", "genConfig", "interactive",
           "dynamicInterval", "end", "options"}
Going(d) == DOMAIN d = Fields /\ d.end = "none"

CommandsRead(d, m) ==
  /\ Going(d) /\ CommandsFit(m) /\ ConfigRead(d, m) /\ DocumentRead(d, m)
  /\ GenRead(d, m) /\ IntervalRead(d, m) /\ OptionsFrom(d)

(* Whether the first reading clears an argument.                            *)
Clears(l, i) == IF Boundary(l, i) THEN l[i] \in Commands ELSE l[i - 1] \in Commands

(* What the second reading goes by: the config, and what is left.           *)
Settled(d) ==
  /\ Going(d) /\ CommandsFit(Len(Pairs))
  /\ AtMostOne(Given("-c"), Len(Pairs)) /\ DocumentRead(d, Len(Pairs))
  /\ GenRead(d, Len(Pairs)) /\ IntervalRead(d, Len(Pairs))
  /\ d.configDoc = ConfigMeant /\ Loads(ConfigMeant)
  /\ d.dynamicInterval = 0 \/ d.docType = "none"

OptionsFit(m) == \A n \in 1..m : Pairs[n][1] \notin Commands => Fits(n)

OptionsRead(d, m) ==
  /\ DOMAIN d.options = DOMAIN OptionKind
  /\ \A key \in DOMAIN OptionKind :
       \/ NoneOf(Given(key), m) /\ d.options[key] = FromConfig(d.configDoc, key)
       \/ \E n \in Given(key) : /\ Latest(Given(key), m, n)
                                /\ d.options[key] = Understood(OptionKind[key], ValueOf(n))

ReadingCommands ==
  reading = "commands" =>
    /\ Boundary(line, arg) /\ CommandsRead(fdata, Begun(line, arg))
    /\ \A j \in 1..Len(line) :
         argv[j] = IF j < arg /\ Clears(line, j) THEN Empty ELSE line[j]

ReadingOptions ==
  reading = "options" =>
    /\ arg \in 1..(Len(line) + 1) /\ (Boundary(line, arg) \/ Clears(line, arg))
    /\ Settled(fdata) /\ OptionsRead(fdata, Begun(line, arg)) /\ OptionsFit(Begun(line, arg))
    /\ \A j \in 1..Len(line) : argv[j] = IF Clears(line, j) THEN Empty ELSE line[j]

Placed ==
  /\ IsLine(line) /\ Len(argv) = Len(line) /\ DOMAIN argv = 1..Len(line)
  /\ Absent \notin DOMAIN world.files

ArgumentsInv == Placed /\ ReadingCommands /\ ReadingOptions /\ ArgumentsRight

(* A pair that is not one of S says nothing about S.                        *)
LEMMA OtherPair ==
  ASSUME NEW S \in SUBSET Nat, NEW m \in Nat, m + 1 \notin S
  PROVE  /\ NoneOf(S, m) => NoneOf(S, m + 1)
         /\ AtMostOne(S, m) => AtMostOne(S, m + 1)
         /\ \A n : Latest(S, m, n) => Latest(S, m + 1, n)
  <1>1. \A n \in S : n <= m + 1 => n <= m
    OBVIOUS
  <1>2. \A n \in S : n > m => n > m + 1
    OBVIOUS
  <1>3. \A n \in S : n <= m => n <= m + 1
    OBVIOUS
  <1>4. NoneOf(S, m) => NoneOf(S, m + 1)
    BY <1>2 DEF NoneOf
  <1>5. AtMostOne(S, m) => AtMostOne(S, m + 1)
    BY <1>1, Zenon DEF AtMostOne
  <1>6. \A n : Latest(S, m, n) => Latest(S, m + 1, n)
    BY <1>1, <1>3, Zenon DEF Latest
  <1> QED BY <1>4, <1>5, <1>6

(* A pair of S is the latest of S, and the only one if none was there.      *)
LEMMA ThisPair ==
  ASSUME NEW S \in SUBSET Nat, NEW m \in Nat, m + 1 \in S
  PROVE  /\ Latest(S, m + 1, m + 1)
         /\ NoneOf(S, m) => AtMostOne(S, m + 1)
         /\ \A n \in S : n <= m => ~AtMostOne(S, Len(Pairs)) \/ ~(m + 1 <= Len(Pairs)) \/ Len(Pairs) \notin Nat
  <1>1. Latest(S, m + 1, m + 1)
    BY DEF Latest
  <1>2. NoneOf(S, m) => AtMostOne(S, m + 1)
    BY DEF NoneOf, AtMostOne
  <1>3. \A n \in S : n <= m => ~AtMostOne(S, Len(Pairs)) \/ ~(m + 1 <= Len(Pairs)) \/ Len(Pairs) \notin Nat
    BY DEF AtMostOne
  <1> QED BY <1>1, <1>2, <1>3

(* The pairs of each kind are numbers of pairs.                             *)
LEMMA PairsAre ==
  ASSUME IsLine(line)
  PROVE  /\ Pairs = PairsOf(line) /\ Pairs \in Seq(PairSet) /\ Len(Pairs) \in Nat
         /\ DOMAIN Pairs = 1..Len(Pairs)
         /\ \A k : Given(k) \in SUBSET Nat /\ Given(k) \subseteq 1..Len(Pairs)
         /\ Documents \in SUBSET Nat /\ Documents \subseteq 1..Len(Pairs)
         /\ Asked \in SUBSET Nat
  <1>1. Pairs = PairsOf(line)
    BY DEF Pairs, PairsOf
  <1>2. Len(line) + 1 \in 1..(Len(line) + 1)
    BY LenIs
  <1>3. Pairs \in Seq(PairSet)
    BY <1>1, <1>2, PairsBeforeAre
  <1>4. Len(Pairs) \in Nat /\ DOMAIN Pairs = 1..Len(Pairs)
    BY <1>3
  <1>5. \A k : Given(k) \subseteq DOMAIN Pairs
    BY DEF Given
  <1>6. Documents \subseteq DOMAIN Pairs
    BY DEF Documents
  <1>7. \A k : Given(k) \subseteq 1..Len(Pairs)
    BY <1>4, <1>5, Zenon
  <1>8. 1..Len(Pairs) \subseteq Nat
    BY <1>4
  <1>9. \A k : Given(k) \in SUBSET Nat
    BY <1>7, <1>8, Zenon
  <1>10. Asked \in SUBSET Nat
    BY <1>9, Zenon DEF Asked
  <1> QED BY <1>1, <1>3, <1>4, <1>6, <1>7, <1>8, <1>9, <1>10, Zenon

(* What each command must have.                                             *)
LEMMA FitsIs ==
  ASSUME NEW n, NEW key, NEW value, Pairs[n][1] = key, ValueOf(n) = value
  PROVE  /\ key \in Prints => ~Fits(n)
         /\ key = "--gen-config" =>
              (Fits(n) <=> /\ value # Absent \/ world.configDirs # <<>>
                           /\ world.terminal \/ ~world.exists \/ value = Empty)
         /\ key = "-c" =>
              (Fits(n) <=> /\ value # Absent
                           /\ value \in {Empty, "none", "-"} \/ First(Places(value)) # Absent)
         /\ key = "-j" => Fits(n)
         /\ key = "--format" => (Fits(n) <=> Readable("format", value))
         /\ key = "-w" => (Fits(n) <=> (Readable("number", value) \/ value = Absent))
         /\ key = "--dynamic-interval" => (Fits(n) <=> Readable("number", value))
         /\ key \notin Commands => (Fits(n) <=> (IsKey(key) /\ Readable(OptionKind[key], value)))
  <1>1. ASSUME key \in Prints PROVE ~Fits(n)
    BY <1>1 DEF Fits, Prints
  <1>2. ASSUME key = "--gen-config"
        PROVE  (Fits(n) <=> /\ value # Absent \/ world.configDirs # <<>>
                            /\ world.terminal \/ ~world.exists \/ value = Empty)
    BY <1>2 DEF Fits, Prints
  <1>3. ASSUME key = "-c"
        PROVE  (Fits(n) <=> /\ value # Absent
                            /\ value \in {Empty, "none", "-"} \/ First(Places(value)) # Absent)
    BY <1>3 DEF Fits, Prints
  <1>4. ASSUME key = "-j" PROVE Fits(n)
    BY <1>4 DEF Fits, Prints
  <1>5. ASSUME key = "--format" PROVE (Fits(n) <=> Readable("format", value))
    BY <1>5 DEF Fits, Prints
  <1>6. ASSUME key = "-w" PROVE (Fits(n) <=> (Readable("number", value) \/ value = Absent))
    BY <1>6 DEF Fits, Prints
  <1>7. ASSUME key = "--dynamic-interval" PROVE (Fits(n) <=> Readable("number", value))
    BY <1>7 DEF Fits, Prints
  <1>8. ASSUME key \notin Commands
        PROVE  (Fits(n) <=> (IsKey(key) /\ Readable(OptionKind[key], value)))
    BY <1>8 DEF Fits, Prints, Commands
  <1> QED BY <1>1, <1>2, <1>3, <1>4, <1>5, <1>6, <1>7, <1>8, Zenon

(* Two different members are more than one; at most one is at most one.     *)
LEMMA ManyOrOne ==
  ASSUME NEW N \in Nat, NEW S, S \subseteq 1..N
  PROVE  /\ \A a, b \in S : a # b => ~(Cardinality(S) <= 1)
         /\ AtMostOne(S, N) => Cardinality(S) <= 1
  <1>1. IsFiniteSet(S)
    <2>1. IsFiniteSet(1..N)
      BY FS_Interval
    <2> QED BY <2>1, FS_Subset
  <1>2. ASSUME NEW a \in S, NEW b \in S, a # b PROVE ~(Cardinality(S) <= 1)
    <2>1. Cardinality({a}) = 1 /\ IsFiniteSet({a})
      BY FS_Singleton
    <2>2. Cardinality({a} \cup {b}) = 2 /\ {a} \cup {b} \subseteq S
      BY <1>2, <2>1, FS_AddElement
    <2>3. Cardinality({a} \cup {b}) <= Cardinality(S) /\ Cardinality(S) \in Nat
      BY <1>1, <2>2, FS_Subset, FS_CardinalityType
    <2> QED BY <2>2, <2>3
  <1>3. ASSUME AtMostOne(S, N) PROVE Cardinality(S) <= 1
    <2>1. CASE S = {}
      BY <2>1, FS_EmptySet
    <2>2. CASE S # {}
      <3>1. PICK a \in S : TRUE
        BY <2>2
      <3>2. \A n \in S : n <= N
        OBVIOUS
      <3>3. S = {a}
        BY <1>3, <3>2 DEF AtMostOne
      <3>4. Cardinality({a}) = 1
        BY FS_Singleton
      <3> QED BY <3>3, <3>4
    <2> QED BY <2>1, <2>2
  <1> QED BY <1>2, <1>3, Zenon

(* What makes a command line unacceptable.                                  *)
LEMMA Refusals ==
  ASSUME IsLine(line)
  PROVE  /\ \A n \in 1..Len(Pairs) : ~Fits(n) => ~Acceptable
         /\ \A a, b \in Given("-c") : a # b => ~Acceptable
         /\ \A a, b \in Documents : a # b => ~Acceptable
  <1>1. \A n \in DOMAIN Pairs : ~Fits(n) => ~Acceptable
    BY Zenon DEF Acceptable
  <1>2. \A a, b \in Given("-c") : a # b => ~(Cardinality(Given("-c")) <= 1)
    BY PairsAre, ManyOrOne
  <1>3. \A a, b \in Documents : a # b => ~(Cardinality(Documents) <= 1)
    BY PairsAre, ManyOrOne
  <1>4. Acceptable => Cardinality(Given("-c")) <= 1 /\ Cardinality(Documents) <= 1
    BY Zenon DEF Acceptable
  <1> QED BY <1>1, <1>2, <1>3, <1>4, PairsAre, Zenon

SameBut(d, e, changed) == DOMAIN e = Fields /\ \A f \in Fields \ changed : e[f] = d[f]

(* A config that loads sets what it says, and what it does not say stays.   *)
LEMMA ParseJsoncFileIs ==
  ASSUME NEW d, Going(d), d.configDoc = Absent, OptionsFrom(d), Absent \notin DOMAIN world.files,
         NEW path, NEW e, e = ParseJsoncFile(d, path)
  PROVE  IF path \in DOMAIN world.files /\ ~world.files[path].broken
         THEN /\ SameBut(d, e, {"configDoc", "options"}) /\ OptionsFrom(e)
              /\ e.configDoc = path /\ e.end = "none"
         ELSE e.end # "none"
  <1>1. CASE ~(path \in DOMAIN world.files /\ ~world.files[path].broken)
    <2>1. e = Exit(d, "bad config")
      BY <1>1, Zenon DEF ParseJsoncFile
    <2>2. e.end = "bad config"
      BY <2>1 DEF Exit, Going, Fields
    <2> QED BY <1>1, <2>2
  <1>2. CASE path \in DOMAIN world.files /\ ~world.files[path].broken
    <2> DEFINE o == [key \in DOMAIN OptionKind |->
                       IF key \in DOMAIN world.files[path].sets THEN world.files[path].sets[key]
                       ELSE d.options[key]]
    <2>1. e = [d EXCEPT !.configDoc = path, !.options = o]
      BY <1>2, Zenon DEF ParseJsoncFile
    <2>2. path # Absent
      BY <1>2
    <2>3. \A key \in DOMAIN OptionKind : d.options[key] = Absent
      BY DEF OptionsFrom, FromConfig
    <2>4. o = [key \in DOMAIN OptionKind |-> FromConfig(path, key)]
      BY <2>2, <2>3 DEF FromConfig
    <2> HIDE DEF o
    <2>5. /\ SameBut(d, e, {"configDoc", "options"}) /\ e.configDoc = path /\ e.options = o
          /\ e.end = "none"
      BY <2>1 DEF Going, Fields, SameBut
    <2>6. OptionsFrom(e)
      BY <2>4, <2>5 DEF OptionsFrom
    <2> QED BY <1>2, <2>5, <2>6
  <1> QED BY <1>1, <1>2

(* -c: once only, a name that leads to a config, and a config that loads.   *)
LEMMA ConfigCommandIs ==
  ASSUME NEW d, Going(d), OptionsFrom(d), Absent \notin DOMAIN world.files,
         d.configLoaded \in BOOLEAN, ~d.configLoaded => d.configDoc = Absent,
         NEW name, NEW e, e = OptionParseConfigFile(d, name)
  PROVE  IF /\ ~d.configLoaded /\ name # Absent
            /\ name \in {Empty, "none", "-"} \/ First(Places(name)) # Absent
            /\ Loads(Named(name))
         THEN /\ SameBut(d, e, {"configLoaded", "configDoc", "options"}) /\ OptionsFrom(e)
              /\ e.configLoaded = TRUE /\ e.configDoc = Named(name) /\ e.end = "none"
         ELSE e.end # "none"
  <1> DEFINE loaded_ == [d EXCEPT !.configLoaded = TRUE]
  <1>1. /\ SameBut(d, loaded_, {"configLoaded"}) /\ Going(loaded_) /\ loaded_.configLoaded = TRUE
        /\ loaded_.configDoc = d.configDoc /\ loaded_.options = d.options
    BY DEF Going, Fields, SameBut
  <1>2. OptionsFrom(loaded_)
    BY <1>1 DEF OptionsFrom
  <1>3. Empty # "-"
    BY Zenon DEF Empty
  <1>4. \A why \in {"usage", "no such config"} : Exit(d, why).end # "none"
    BY DEF Exit, Going, Fields
  <1>5. ASSUME ~d.configLoaded, NEW path, NEW f, f = ParseJsoncFile(loaded_, path), path # Absent
        PROVE  IF Loads(path)
               THEN /\ SameBut(d, f, {"configLoaded", "configDoc", "options"}) /\ OptionsFrom(f)
                    /\ f.configLoaded = TRUE /\ f.configDoc = path /\ f.end = "none"
               ELSE f.end # "none"
    <2> HIDE DEF loaded_
    <2>1. IF path \in DOMAIN world.files /\ ~world.files[path].broken
          THEN /\ SameBut(loaded_, f, {"configDoc", "options"}) /\ OptionsFrom(f)
               /\ f.configDoc = path /\ f.end = "none"
          ELSE f.end # "none"
      BY <1>1, <1>2, <1>5, ParseJsoncFileIs
    <2>2. ASSUME SameBut(loaded_, f, {"configDoc", "options"})
          PROVE  SameBut(d, f, {"configLoaded", "configDoc", "options"}) /\ f.configLoaded = TRUE
      BY <1>1, <2>2 DEF SameBut, Fields
    <2> QED BY <1>5, <2>1, <2>2 DEF Loads
  <1>6. CASE d.configLoaded \/ name = Absent
    <2>1. e = Exit(d, "usage")
      BY <1>6 DEF OptionParseConfigFile
    <2> QED BY <1>4, <1>6, <2>1
  <1>7. CASE ~d.configLoaded /\ name # Absent /\ name \in {Empty, "none"}
    <2>1. e = loaded_ /\ Named(name) = Absent
      BY <1>3, <1>7 DEF OptionParseConfigFile, Named
    <2>2. SameBut(d, loaded_, {"configLoaded", "configDoc", "options"})
      BY <1>1 DEF SameBut
    <2> HIDE DEF loaded_
    <2> QED BY <1>1, <1>2, <1>7, <2>1, <2>2 DEF Loads, Going
  <1>8. CASE ~d.configLoaded /\ name # Absent /\ name \notin {Empty, "none"} /\ name = "-"
    <2>1. e = ParseJsoncFile(loaded_, <<"stdin", "-">>) /\ Named(name) = <<"stdin", "-">>
      BY <1>8 DEF OptionParseConfigFile, Named
    <2>2. Named(name) # Absent
      BY <2>1, ArgumentsAssumption
    <2> HIDE DEF loaded_
    <2> QED BY <1>5, <1>8, <2>1, <2>2
  <1>9. CASE ~d.configLoaded /\ name # Absent /\ name \notin {Empty, "none", "-"}
    <2>1. Named(name) = First(Places(name))
      BY <1>9 DEF Named
    <2>2. e = IF First(Places(name)) = Absent THEN Exit(d, "no such config")
              ELSE ParseJsoncFile(loaded_, First(Places(name)))
      BY <1>9 DEF OptionParseConfigFile
    <2> HIDE DEF loaded_
    <2>3. CASE First(Places(name)) = Absent
      BY <1>4, <1>9, <2>2, <2>3
    <2>4. CASE First(Places(name)) # Absent
      BY <1>5, <1>9, <2>1, <2>2, <2>4
    <2> QED BY <2>3, <2>4
  <1> QED BY <1>6, <1>7, <1>8, <1>9

(* --gen-config: with a terminal a user is asked, without one the file is   *)
(* written; with an empty path neither.                                     *)
LEMMA GenConfigCommonIs ==
  ASSUME NEW d, Going(d), NEW path, NEW e, e = GenConfigCommon(d, path)
  PROVE  IF /\ path # Absent \/ world.configDirs # <<>>
            /\ world.terminal \/ (d.docType = "none" /\ (~world.exists \/ path = Empty))
         THEN /\ SameBut(d, e, {"docType", "genConfig", "interactive"})
              /\ e.genConfig = (path # Empty)
              /\ e.docType = (IF world.terminal THEN d.docType ELSE "config") /\ e.end = "none"
         ELSE e.end # "none"
  <1>1. \A why \in {"duplicated", "no directory", "exists"} : Exit(d, why).end # "none"
    BY DEF Exit, Going, Fields
  <1>2. CASE ~world.terminal
    <2>1. e = GenerateConfigFile(d, path)
      BY <1>2, Zenon DEF GenConfigCommon
    <2>2. CASE \/ d.docType # "none" \/ (path = Absent /\ world.configDirs = <<>>)
               \/ world.exists /\ path # Empty
      BY <1>1, <1>2, <2>1, <2>2 DEF GenerateConfigFile
    <2>3. CASE ~(\/ d.docType # "none" \/ (path = Absent /\ world.configDirs = <<>>)
                 \/ world.exists /\ path # Empty)
      <3>1. e = [d EXCEPT !.docType = "config", !.genConfig = (path # Empty)]
        BY <2>1, <2>3 DEF GenerateConfigFile
      <3> QED BY <1>2, <2>3, <3>1 DEF Going, Fields, SameBut
    <2> QED BY <2>2, <2>3
  <1>3. CASE world.terminal
    <2>1. CASE path = Absent /\ world.configDirs = <<>>
      <3>1. e = Exit(d, "no directory")
        BY <1>3, <2>1, Zenon DEF GenConfigCommon
      <3> QED BY <1>1, <2>1, <3>1
    <2>2. CASE ~(path = Absent /\ world.configDirs = <<>>)
      <3>1. e = [d EXCEPT !.interactive = TRUE, !.genConfig = (path # Empty)]
        BY <1>3, <2>2, Zenon DEF GenConfigCommon
      <3> QED BY <1>3, <2>2, <3>1 DEF Going, Fields, SameBut
    <2> QED BY <2>1, <2>2
  <1> QED BY <1>2, <1>3

(* Two documents cannot be printed.                                         *)
LEMMA EnableJsonOutputIs ==
  ASSUME NEW d, Going(d), NEW e, e = EnableJsonOutput(d)
  PROVE  IF d.docType = "none"
         THEN SameBut(d, e, {"docType"}) /\ e.docType = "json" /\ e.end = "none"
         ELSE e.end # "none"
  BY DEF EnableJsonOutput, Exit, Going, Fields, SameBut

(* The pair after the first m ones, and where it belongs.                   *)
This(m, n, key, value) ==
  /\ m \in Nat /\ n = m + 1 /\ n \in 1..Len(Pairs)
  /\ Pairs[n][1] = key /\ ValueOf(n) = value

(* Which of the sets the pair after the first m belongs to.                 *)
LEMMA Belongs ==
  ASSUME IsLine(line), NEW m, NEW n, NEW key, NEW value, This(m, n, key, value)
  PROVE  /\ n \in Nat
         /\ \A k : n \in Given(k) <=> key = k
         /\ n \in Asked <=> key \in {"-w", "--dynamic-interval"}
         /\ AsksForJson(n) <=> \/ key = "-j" /\ IsTrue(value)
                               \/ key = "--format" /\ value = "json"
         /\ n \in Documents <=> \/ AsksForJson(n)
                                \/ key = "--gen-config" /\ ~world.terminal
  <1>1. n \in DOMAIN Pairs /\ Pairs[n][1] = key /\ ValueOf(n) = value /\ n \in Nat
    BY PairsAre DEF This
  <1>2. \A k : n \in Given(k) <=> key = k
    BY <1>1 DEF Given
  <1>3. n \in Asked <=> key \in {"-w", "--dynamic-interval"}
    BY <1>2, Zenon DEF Asked
  <1>4. AsksForJson(n) <=> \/ key = "-j" /\ IsTrue(value)
                           \/ key = "--format" /\ value = "json"
    BY <1>1, Zenon DEF AsksForJson
  <1>5. n \in Documents <=> AsksForJson(n) \/ (key = "--gen-config" /\ ~world.terminal)
    BY <1>1, Zenon DEF Documents
  <1> QED BY <1>1, <1>2, <1>3, <1>4, <1>5, Zenon

(* What has nothing to do with the pair stays as it was read.               *)
LEMMA Elsewhere ==
  ASSUME IsLine(line), NEW m \in Nat, NEW n, n = m + 1, NEW d, NEW e
  PROVE  /\ n \notin Given("-c") /\ ConfigRead(d, m)
            /\ e.configLoaded = d.configLoaded /\ e.configDoc = d.configDoc => ConfigRead(e, n)
         /\ n \notin Documents /\ DocumentRead(d, m) /\ e.docType = d.docType => DocumentRead(e, n)
         /\ n \notin Given("--gen-config") /\ GenRead(d, m) /\ e.genConfig = d.genConfig
              => GenRead(e, n)
         /\ n \notin Asked /\ IntervalRead(d, m) /\ e.dynamicInterval = d.dynamicInterval
              => IntervalRead(e, n)
         /\ e.options = d.options /\ e.configDoc = d.configDoc /\ OptionsFrom(d) => OptionsFrom(e)
         /\ CommandsFit(m) /\ (Pairs[n][1] \in Commands => Fits(n)) => CommandsFit(n)
  <1>1. \A S \in SUBSET Nat :
          /\ n \notin S => /\ NoneOf(S, m) => NoneOf(S, n)
                           /\ AtMostOne(S, m) => AtMostOne(S, n)
                           /\ \A k : Latest(S, m, k) => Latest(S, n, k)
          /\ \A k \in S : k <= m => k <= n
          /\ NoneOf(S, n) => NoneOf(S, m)
    <2> SUFFICES ASSUME NEW S \in SUBSET Nat
                 PROVE  /\ n \notin S => /\ NoneOf(S, m) => NoneOf(S, n)
                                         /\ AtMostOne(S, m) => AtMostOne(S, n)
                                         /\ \A k : Latest(S, m, k) => Latest(S, n, k)
                        /\ \A k \in S : k <= m => k <= n
                        /\ NoneOf(S, n) => NoneOf(S, m)
      OBVIOUS
    <2>1. \A k \in S : k <= m => k <= n
      OBVIOUS
    <2>2. NoneOf(S, n) => NoneOf(S, m)
      BY DEF NoneOf
    <2> QED BY <2>1, <2>2, OtherPair
  <1>2. /\ Given("-c") \in SUBSET Nat /\ Documents \in SUBSET Nat /\ Asked \in SUBSET Nat
        /\ Given("--gen-config") \in SUBSET Nat
    BY PairsAre
  <1>3. ASSUME n \notin Given("-c"), ConfigRead(d, m),
               e.configLoaded = d.configLoaded, e.configDoc = d.configDoc
        PROVE  ConfigRead(e, n)
    <2>1. AtMostOne(Given("-c"), n) /\ Loads(e.configDoc)
      BY <1>1, <1>2, <1>3, Zenon DEF ConfigRead
    <2>2. CASE NoneOf(Given("-c"), m) /\ d.configLoaded = FALSE /\ d.configDoc = Absent
      <3>1. NoneOf(Given("-c"), n)
        BY <1>1, <1>2, <1>3, <2>2, Zenon
      <3> QED BY <1>3, <2>1, <2>2, <3>1, Zenon DEF ConfigRead
    <2>3. CASE /\ d.configLoaded = TRUE
               /\ \E k \in Given("-c") : k <= m /\ d.configDoc = Named(ValueOf(k))
      <3>1. \E k \in Given("-c") : k <= n /\ e.configDoc = Named(ValueOf(k))
        BY <1>1, <1>2, <1>3, <2>3, Zenon
      <3> QED BY <1>3, <2>1, <2>3, <3>1, Zenon DEF ConfigRead
    <2> QED BY <1>3, <2>2, <2>3, Zenon DEF ConfigRead
  <1>4. ASSUME n \notin Documents, DocumentRead(d, m), e.docType = d.docType PROVE DocumentRead(e, n)
    <2>1. AtMostOne(Documents, n)
      BY <1>1, <1>2, <1>4, Zenon DEF DocumentRead
    <2>2. CASE NoneOf(Documents, m) /\ d.docType = "none"
      <3>1. NoneOf(Documents, n)
        BY <1>1, <1>2, <1>4, <2>2, Zenon
      <3> QED BY <1>4, <2>1, <2>2, <3>1, Zenon DEF DocumentRead
    <2>3. CASE \E k \in Documents :
                 k <= m /\ d.docType = IF AsksForJson(k) THEN "json" ELSE "config"
      <3>1. PICK k \in Documents : k <= m /\ d.docType = IF AsksForJson(k) THEN "json" ELSE "config"
        BY <2>3, Zenon
      <3>2. k <= n /\ e.docType = IF AsksForJson(k) THEN "json" ELSE "config"
        BY <1>1, <1>2, <1>4, <3>1, Zenon
      <3> QED BY <2>1, <3>2, Zenon DEF DocumentRead
    <2> QED BY <1>4, <2>2, <2>3, Zenon DEF DocumentRead
  <1>5. ASSUME n \notin Given("--gen-config"), GenRead(d, m), e.genConfig = d.genConfig
        PROVE  GenRead(e, n)
    <2>1. CASE NoneOf(Given("--gen-config"), m) /\ d.genConfig = FALSE
      BY <1>1, <1>2, <1>5, <2>1, Zenon DEF GenRead
    <2>2. CASE \E k : Latest(Given("--gen-config"), m, k) /\ d.genConfig = (ValueOf(k) # Empty)
      BY <1>1, <1>2, <1>5, <2>2, Zenon DEF GenRead
    <2> QED BY <1>5, <2>1, <2>2, Zenon DEF GenRead
  <1>6. ASSUME n \notin Asked, IntervalRead(d, m), e.dynamicInterval = d.dynamicInterval
        PROVE  IntervalRead(e, n)
    <2>1. CASE NoneOf(Asked, m) /\ d.dynamicInterval = 0
      BY <1>1, <1>2, <1>6, <2>1, Zenon DEF IntervalRead
    <2>2. CASE \E k : Latest(Asked, m, k) /\ d.dynamicInterval = Milliseconds(k)
      BY <1>1, <1>2, <1>6, <2>2, Zenon DEF IntervalRead
    <2> QED BY <1>6, <2>1, <2>2, Zenon DEF IntervalRead
  <1>7. e.options = d.options /\ e.configDoc = d.configDoc /\ OptionsFrom(d) => OptionsFrom(e)
    BY DEF OptionsFrom
  <1>8. ASSUME CommandsFit(m), Pairs[n][1] \in Commands => Fits(n) PROVE CommandsFit(n)
    <2>1. \A k \in 1..n : k = n \/ k \in 1..m
      OBVIOUS
    <2> QED BY <1>8, <2>1, Zenon DEF CommandsFit
  <1> QED BY <1>3, <1>4, <1>5, <1>6, <1>7, <1>8, Zenon

(* A command that prints ends the program.                                  *)
LEMMA PrintStep ==
  ASSUME IsLine(line), NEW m, NEW n, NEW key, NEW value, This(m, n, key, value), key \in Prints,
         NEW d, CommandsRead(d, m), NEW e, e = ParseCommand(d, key, value)
  PROVE  e.end # "none" /\ ~Acceptable
  <1>1. key \in Commands
    BY DEF Commands
  <1>2. e = Exit(d, "printed")
    BY <1>1 DEF ParseCommand, Prints
  <1>3. e.end # "none"
    BY <1>2 DEF CommandsRead, Going, Fields, Exit
  <1>4. ~Fits(n)
    BY FitsIs DEF This
  <1> QED BY <1>3, <1>4, Refusals DEF This

(* --gen-config does what it means, or nothing is acceptable.               *)
LEMMA GenConfigStep ==
  ASSUME IsLine(line), NEW m, NEW n, NEW key, NEW value, This(m, n, key, value),
         key = "--gen-config",
         NEW d, CommandsRead(d, m), NEW e, e = ParseCommand(d, key, value)
  PROVE  IF e.end = "none" THEN CommandsRead(e, n) ELSE ~Acceptable
  <1>1. key \in Commands /\ Going(d) /\ m \in Nat /\ n = m + 1 /\ n \in 1..Len(Pairs)
    BY DEF Commands, CommandsRead, This
  <1>2. e = GenConfigCommon(d, value)
    BY <1>1 DEF ParseCommand, Prints
  <1>3. n \in Nat /\ n \notin Given("-c") /\ n \notin Asked /\ n \in Given("--gen-config")
        /\ ~AsksForJson(n) /\ (n \in Documents <=> ~world.terminal)
    BY Belongs
  <1>4. Fits(n) <=> /\ value # Absent \/ world.configDirs # <<>>
                    /\ world.terminal \/ ~world.exists \/ value = Empty
    BY FitsIs DEF This
  <1>5. CASE /\ value # Absent \/ world.configDirs # <<>>
             /\ world.terminal \/ (d.docType = "none" /\ (~world.exists \/ value = Empty))
    <2>1. /\ SameBut(d, e, {"docType", "genConfig", "interactive"})
          /\ e.genConfig = (value # Empty)
          /\ e.docType = (IF world.terminal THEN d.docType ELSE "config") /\ e.end = "none"
      BY <1>1, <1>2, <1>5, GenConfigCommonIs
    <2>2. /\ Going(e) /\ e.configLoaded = d.configLoaded /\ e.configDoc = d.configDoc
          /\ e.dynamicInterval = d.dynamicInterval /\ e.options = d.options
      BY <2>1 DEF SameBut, Going, Fields
    <2>3. Fits(n)
      BY <1>4, <1>5
    <2>4. ConfigRead(e, n) /\ IntervalRead(e, n) /\ OptionsFrom(e) /\ CommandsFit(n)
      BY <1>1, <1>3, <2>2, <2>3, Elsewhere DEF CommandsRead
    <2>5. GenRead(e, n)
      <3>1. Latest(Given("--gen-config"), n, n)
        BY <1>1, <1>3, PairsAre, ThisPair
      <3>2. ValueOf(n) = value
        BY DEF This
      <3> QED BY <2>1, <3>1, <3>2, Zenon DEF GenRead
    <2>6. DocumentRead(e, n)
      <3>1. CASE world.terminal
        BY <1>1, <1>3, <2>1, <3>1, Elsewhere DEF CommandsRead
      <3>2. CASE ~world.terminal
        <4>1. NoneOf(Documents, m)
          <5>1. \A k \in Documents : (IF AsksForJson(k) THEN "json" ELSE "config") # "none"
            OBVIOUS
          <5> QED BY <1>5, <3>2, <5>1 DEF CommandsRead, DocumentRead
        <4>2. AtMostOne(Documents, n)
          BY <1>1, <1>3, <3>2, <4>1, PairsAre, ThisPair
        <4>3. n \in Documents /\ n <= n /\ e.docType = IF AsksForJson(n) THEN "json" ELSE "config"
          BY <1>3, <2>1, <3>2
        <4> QED BY <4>2, <4>3, Zenon DEF DocumentRead
      <3> QED BY <3>1, <3>2
    <2> QED BY <2>1, <2>2, <2>4, <2>5, <2>6 DEF CommandsRead
  <1>6. CASE ~(/\ value # Absent \/ world.configDirs # <<>>
               /\ world.terminal \/ (d.docType = "none" /\ (~world.exists \/ value = Empty)))
    <2>1. e.end # "none"
      BY <1>1, <1>2, <1>6, GenConfigCommonIs
    <2>2. CASE ~Fits(n)
      BY <1>1, <2>1, <2>2, Refusals
    <2>3. CASE Fits(n)
      <3>1. ~world.terminal /\ d.docType # "none"
        BY <1>4, <1>6, <2>3
      <3>2. PICK k \in Documents : k <= m
        BY <3>1 DEF CommandsRead, DocumentRead
      <3>3. n \in Documents /\ k # n
        BY <1>1, <1>3, <3>1, <3>2
      <3> QED BY <2>1, <3>2, <3>3, Refusals
    <2> QED BY <2>2, <2>3
  <1> QED BY <1>5, <1>6

(* Which config is meant.                                                   *)
LEMMA ConfigNamed ==
  ASSUME NEW n \in Given("-c"), \A k \in Given("-c") : k = n
  PROVE  ConfigMeant = Named(ValueOf(n))
  <1> DEFINE names == {ValueOf(k) : k \in Given("-c")}
  <1>1. names = {ValueOf(n)}
    OBVIOUS
  <1>2. (CHOOSE name \in {ValueOf(n)} : TRUE) = ValueOf(n)
    OBVIOUS
  <1>3. ConfigMeant = IF names \cap {Empty, "none"} # {} THEN Absent
                      ELSE IF names = {"-"} THEN <<"stdin", "-">>
                      ELSE IF names # {} THEN First(Places(CHOOSE name \in names : TRUE))
                      ELSE IF world.noConfig \/ Generates THEN Absent
                      ELSE First(Defaults)
    BY DEF ConfigMeant
  <1> HIDE DEF names
  <1>4. ConfigMeant = IF ValueOf(n) \in {Empty, "none"} THEN Absent
                      ELSE IF ValueOf(n) = "-" THEN <<"stdin", "-">>
                      ELSE First(Places(ValueOf(n)))
    <2>1. names \cap {Empty, "none"} # {} <=> ValueOf(n) \in {Empty, "none"}
      BY <1>1
    <2>2. names = {"-"} <=> ValueOf(n) = "-"
      BY <1>1
    <2>3. names # {}
      BY <1>1
    <2>4. First(Places(CHOOSE name \in names : TRUE)) = First(Places(ValueOf(n)))
      BY <1>1, <1>2
    <2> QED BY <1>3, <2>1, <2>2, <2>3, <2>4, Zenon
  <1> QED BY <1>4, Zenon DEF Named

(* Without -c the config that is meant is the first of the defaults.        *)
LEMMA ConfigUnnamed ==
  ASSUME Given("-c") = {}
  PROVE  ConfigMeant = IF world.noConfig \/ Generates THEN Absent
                       ELSE First(Defaults)
  <1>1. {ValueOf(k) : k \in Given("-c")} = {}
    OBVIOUS
  <1>2. {} \cap {Empty, "none"} = {} /\ {} # {"-"}
    OBVIOUS
  <1> QED BY <1>1, <1>2, Zenon DEF ConfigMeant

(* -c does what it means, or nothing is acceptable.                         *)
LEMMA ConfigStep ==
  ASSUME IsLine(line), NEW m, NEW n, NEW key, NEW value, This(m, n, key, value), key = "-c",
         Absent \notin DOMAIN world.files,
         NEW d, CommandsRead(d, m), NEW e, e = ParseCommand(d, key, value)
  PROVE  IF e.end = "none" THEN CommandsRead(e, n) ELSE ~Acceptable
  <1>1. key \in Commands /\ Going(d) /\ m \in Nat /\ n = m + 1 /\ n \in 1..Len(Pairs)
        /\ ValueOf(n) = value
    BY DEF Commands, CommandsRead, This
  <1>2. e = OptionParseConfigFile(d, value)
    BY <1>1 DEF ParseCommand, Prints
  <1>3. n \in Nat /\ n \in Given("-c") /\ n \notin Asked /\ n \notin Given("--gen-config")
        /\ n \notin Documents
    BY Belongs
  <1>4. Fits(n) <=> /\ value # Absent
                    /\ value \in {Empty, "none", "-"} \/ First(Places(value)) # Absent
    BY FitsIs DEF This
  <1>5. d.configLoaded \in BOOLEAN /\ (~d.configLoaded => d.configDoc = Absent) /\ OptionsFrom(d)
    BY DEF CommandsRead, ConfigRead
  <1> DEFINE Fine == /\ ~d.configLoaded /\ value # Absent
                     /\ value \in {Empty, "none", "-"} \/ First(Places(value)) # Absent
                     /\ Loads(Named(value))
  <1>6. IF Fine
        THEN /\ SameBut(d, e, {"configLoaded", "configDoc", "options"}) /\ OptionsFrom(e)
             /\ e.configLoaded = TRUE /\ e.configDoc = Named(value) /\ e.end = "none"
        ELSE e.end # "none"
    BY <1>1, <1>2, <1>5, ConfigCommandIs
  <1>7. CASE Fine
    <2>1. /\ Going(e) /\ e.docType = d.docType /\ e.genConfig = d.genConfig
          /\ e.dynamicInterval = d.dynamicInterval
      BY <1>6, <1>7 DEF SameBut, Going, Fields
    <2>2. Fits(n)
      BY <1>4, <1>7
    <2>3. DocumentRead(e, n) /\ IntervalRead(e, n) /\ GenRead(e, n) /\ CommandsFit(n)
      BY <1>1, <1>3, <2>1, <2>2, Elsewhere DEF CommandsRead
    <2>4. ConfigRead(e, n)
      <3>1. NoneOf(Given("-c"), m)
        BY <1>7 DEF CommandsRead, ConfigRead
      <3>2. AtMostOne(Given("-c"), n)
        BY <1>1, <1>3, <3>1, PairsAre, ThisPair
      <3>3. n <= n
        BY <1>3
      <3> QED BY <1>1, <1>3, <1>6, <1>7, <3>2, <3>3, Zenon DEF ConfigRead
    <2> QED BY <1>6, <1>7, <2>1, <2>3, <2>4 DEF CommandsRead
  <1>8. CASE ~Fine
    <2>1. CASE d.configLoaded
      <3>1. PICK k \in Given("-c") : k <= m
        BY <1>5, <2>1 DEF CommandsRead, ConfigRead
      <3>2. k # n
        BY <1>1, <3>1
      <3> QED BY <1>3, <1>6, <1>8, <3>1, <3>2, Refusals
    <2>2. CASE ~Fits(n)
      BY <1>1, <1>6, <1>8, <2>2, Refusals
    <2>3. CASE ~d.configLoaded /\ Fits(n)
      <3>1. ~Loads(Named(value))
        BY <1>4, <1>8, <2>3
      <3>2. ASSUME Acceptable PROVE FALSE
        <4>1. \A k \in Given("-c") : k = n
          BY <1>3, <3>2, Refusals
        <4>2. ConfigMeant = Named(value)
          BY <1>1, <1>3, <4>1, ConfigNamed
        <4>3. Loads(ConfigMeant)
          BY <3>2, Zenon DEF Acceptable, Loads
        <4> QED BY <3>1, <4>2, <4>3
      <3> QED BY <1>6, <1>8, <3>2
    <2> QED BY <2>1, <2>2, <2>3
  <1> QED BY <1>7, <1>8

(* -j and --format do what they mean, or nothing is acceptable.             *)
LEMMA JsonStep ==
  ASSUME IsLine(line), NEW m, NEW n, NEW key, NEW value, This(m, n, key, value),
         key \in {"-j", "--format"},
         NEW d, CommandsRead(d, m), NEW e, e = ParseCommand(d, key, value)
  PROVE  IF e.end = "none" THEN CommandsRead(e, n) ELSE ~Acceptable
  <1>1. key \in Commands /\ Going(d) /\ m \in Nat /\ n = m + 1 /\ n \in 1..Len(Pairs)
    BY DEF Commands, CommandsRead, This
  <1>2. n \in Nat /\ n \notin Given("-c") /\ n \notin Asked /\ n \notin Given("--gen-config")
        /\ (n \in Documents <=> AsksForJson(n))
    BY Belongs
  <1>3. AsksForJson(n) <=> (key = "-j" /\ IsTrue(value)) \/ (key = "--format" /\ value = "json")
    BY Belongs
  <1>4. CASE ~Fits(n)
    <2>1. key = "--format" /\ ~Readable("format", value)
      BY <1>4, FitsIs DEF This
    <2>2. e = Exit(d, "usage")
      BY <2>1 DEF ParseCommand, Prints
    <2>3. e.end # "none"
      BY <1>1, <2>2 DEF Exit, Going, Fields
    <2> QED BY <1>1, <1>4, <2>3, Refusals
  <1>5. CASE Fits(n)
    <2>1. e = IF AsksForJson(n) THEN EnableJsonOutput(d) ELSE d
      <3>1. key = "--format" => Readable("format", value)
        BY <1>5, FitsIs DEF This
      <3>2. CASE key = "-j"
        <4>1. e = IF IsTrue(value) THEN EnableJsonOutput(d) ELSE d
          BY <3>2 DEF ParseCommand, Prints
        <4> QED BY <1>3, <3>2, <4>1
      <3>3. CASE key = "--format"
        <4>1. e = IF ~Readable("format", value) THEN Exit(d, "usage")
                  ELSE IF value = "json" THEN EnableJsonOutput(d) ELSE d
          BY <3>3 DEF ParseCommand, Prints
        <4> QED BY <1>3, <3>1, <3>3, <4>1
      <3> QED BY <3>2, <3>3
    <2>2. CASE ~AsksForJson(n)
      <3>1. e = d
        BY <2>1, <2>2
      <3>2. ConfigRead(d, n) /\ DocumentRead(d, n) /\ GenRead(d, n) /\ IntervalRead(d, n)
            /\ CommandsFit(n)
        BY <1>1, <1>2, <1>5, <2>2, Elsewhere DEF CommandsRead
      <3> QED BY <1>1, <3>1, <3>2 DEF CommandsRead, Going
    <2>3. CASE AsksForJson(n) /\ d.docType = "none"
      <3>1. SameBut(d, e, {"docType"}) /\ e.docType = "json" /\ e.end = "none"
        BY <1>1, <2>1, <2>3, EnableJsonOutputIs
      <3>2. /\ Going(e) /\ e.configLoaded = d.configLoaded /\ e.configDoc = d.configDoc
            /\ e.dynamicInterval = d.dynamicInterval /\ e.options = d.options
            /\ e.genConfig = d.genConfig
        BY <3>1 DEF SameBut, Going, Fields
      <3>3. /\ ConfigRead(e, n) /\ GenRead(e, n) /\ IntervalRead(e, n) /\ CommandsFit(n)
            /\ OptionsFrom(e)
        BY <1>1, <1>2, <1>5, <3>2, Elsewhere DEF CommandsRead
      <3>4. DocumentRead(e, n)
        <4>1. NoneOf(Documents, m)
          <5>1. \A k \in Documents : (IF AsksForJson(k) THEN "json" ELSE "config") # "none"
            OBVIOUS
          <5> QED BY <2>3, <5>1 DEF CommandsRead, DocumentRead
        <4>2. AtMostOne(Documents, n)
          BY <1>1, <1>2, <2>3, <4>1, PairsAre, ThisPair
        <4>3. n \in Documents /\ n <= n /\ e.docType = IF AsksForJson(n) THEN "json" ELSE "config"
          BY <1>2, <2>3, <3>1
        <4> QED BY <4>2, <4>3, Zenon DEF DocumentRead
      <3> QED BY <3>1, <3>2, <3>3, <3>4 DEF CommandsRead
    <2>4. CASE AsksForJson(n) /\ d.docType # "none"
      <3>1. e.end # "none"
        BY <1>1, <2>1, <2>4, EnableJsonOutputIs
      <3>2. PICK k \in Documents : k <= m
        BY <2>4 DEF CommandsRead, DocumentRead
      <3>3. n \in Documents /\ k # n
        BY <1>1, <1>2, <2>4, <3>2
      <3> QED BY <3>1, <3>2, <3>3, Refusals
    <2> QED BY <2>2, <2>3, <2>4
  <1> QED BY <1>4, <1>5

(* -w and --dynamic-interval do what they mean, or nothing is acceptable.   *)
LEMMA IntervalStep ==
  ASSUME IsLine(line), NEW m, NEW n, NEW key, NEW value, This(m, n, key, value),
         key \in {"-w", "--dynamic-interval"},
         NEW d, CommandsRead(d, m), NEW e, e = ParseCommand(d, key, value)
  PROVE  IF e.end = "none" THEN CommandsRead(e, n) ELSE ~Acceptable
  <1>1. key \in Commands /\ Going(d) /\ m \in Nat /\ n = m + 1 /\ n \in 1..Len(Pairs)
        /\ Pairs[n][1] = key /\ ValueOf(n) = value
    BY DEF Commands, CommandsRead, This
  <1>2. n \in Nat /\ n \notin Given("-c") /\ n \in Asked /\ n \notin Given("--gen-config")
        /\ ~AsksForJson(n) /\ n \notin Documents
    BY Belongs
  <1>3. Fits(n) <=> Readable("number", value) \/ (key = "-w" /\ value = Absent)
    BY FitsIs DEF This
  <1>6. key = "-w" => e = IF value = Absent THEN [d EXCEPT !.dynamicInterval = 1000]
                          ELSE IF ~Readable("number", value) THEN Exit(d, "usage")
                          ELSE [d EXCEPT !.dynamicInterval = NumberOf[value] * 1000]
    BY DEF ParseCommand, Prints
  <1>7. key = "--dynamic-interval" =>
          e = IF ~Readable("number", value) THEN Exit(d, "usage")
              ELSE [d EXCEPT !.dynamicInterval = NumberOf[value] * 1]
    BY DEF ParseCommand, Prints
  <1>4. CASE ~Fits(n)
    <2>1. e = Exit(d, "usage")
      <3>1. CASE key = "-w"
        BY <1>3, <1>4, <1>6, <3>1, Zenon
      <3>2. CASE key = "--dynamic-interval"
        BY <1>3, <1>4, <1>7, <3>2, Zenon
      <3> QED BY <3>1, <3>2
    <2>2. e.end # "none"
      BY <1>1, <2>1 DEF Exit, Going, Fields
    <2> QED BY <1>1, <1>4, <2>2, Refusals
  <1>5. CASE Fits(n)
    <2>1. e = [d EXCEPT !.dynamicInterval = Milliseconds(n)]
      <3>1. ASSUME Readable("number", value) PROVE NumberOf[value] \in Int
        <4>1. value \in DOMAIN NumberOf
          BY <3>1 DEF Readable
        <4> QED BY <4>1, ArgumentsAssumption
      <3>2. CASE key = "-w" /\ value = Absent
        <4>1. Milliseconds(n) = 1000
          BY <1>1, <3>2 DEF Milliseconds
        <4>2. e = [d EXCEPT !.dynamicInterval = 1000]
          BY <1>6, <3>2, Zenon
        <4> QED BY <4>1, <4>2
      <3>3. CASE key = "-w" /\ value # Absent
        <4>1. Milliseconds(n) = 1000 * NumberOf[value]
          BY <1>1, <3>3 DEF Milliseconds
        <4>2. e = [d EXCEPT !.dynamicInterval = NumberOf[value] * 1000]
          BY <1>3, <1>5, <1>6, <3>3, Zenon
        <4>3. NumberOf[value] * 1000 = 1000 * NumberOf[value]
          BY <1>3, <1>5, <3>1, <3>3
        <4> QED BY <4>1, <4>2, <4>3
      <3>4. CASE key = "--dynamic-interval"
        <4>1. Milliseconds(n) = NumberOf[value]
          BY <1>1, <3>4 DEF Milliseconds
        <4>2. e = [d EXCEPT !.dynamicInterval = NumberOf[value] * 1]
          BY <1>3, <1>5, <1>7, <3>4
        <4>3. NumberOf[value] * 1 = NumberOf[value]
          BY <1>3, <1>5, <3>1, <3>4
        <4> QED BY <4>1, <4>2, <4>3
      <3> QED BY <3>2, <3>3, <3>4
    <2>2. /\ Going(e) /\ e.configLoaded = d.configLoaded /\ e.configDoc = d.configDoc
          /\ e.dynamicInterval = Milliseconds(n) /\ e.options = d.options
          /\ e.genConfig = d.genConfig /\ e.docType = d.docType
      BY <1>1, <2>1 DEF Going, Fields
    <2>3. /\ ConfigRead(e, n) /\ GenRead(e, n) /\ DocumentRead(e, n) /\ CommandsFit(n)
          /\ OptionsFrom(e)
      BY <1>1, <1>2, <1>5, <2>2, Elsewhere DEF CommandsRead
    <2>4. Latest(Asked, n, n)
      BY <1>1, <1>2, PairsAre, ThisPair
    <2>5. IntervalRead(e, n)
      BY <2>2, <2>4, Zenon DEF IntervalRead
    <2>6. e.end = "none"
      BY <2>2 DEF Going
    <2> QED BY <2>2, <2>3, <2>5, <2>6 DEF CommandsRead
  <1> QED BY <1>4, <1>5

(* A command does what it means, or nothing is acceptable.                  *)
LEMMA CommandStep ==
  ASSUME IsLine(line), NEW m, NEW n, NEW key, NEW value, This(m, n, key, value),
         key \in Commands, Absent \notin DOMAIN world.files,
         NEW d, CommandsRead(d, m), NEW e, e = ParseCommand(d, key, value)
  PROVE  IF e.end = "none" THEN CommandsRead(e, n) ELSE ~Acceptable
  <1>1. CASE key \in Prints
    BY <1>1, PrintStep
  <1>2. CASE key = "--gen-config"
    BY <1>2, GenConfigStep
  <1>3. CASE key = "-c"
    BY <1>3, ConfigStep
  <1>4. CASE key \in {"-j", "--format"}
    BY <1>4, JsonStep
  <1>5. CASE key \in {"-w", "--dynamic-interval"}
    BY <1>5, IntervalStep
  <1>6. \/ key \in Prints
        \/ key \in {"--gen-config", "-c", "-j", "--format", "-w", "--dynamic-interval"}
    BY DEF Commands
  <1> QED BY <1>1, <1>2, <1>3, <1>4, <1>5, <1>6

(* Any other pair is left to the second reading.                            *)
LEMMA OptionWaits ==
  ASSUME IsLine(line), NEW m, NEW n, NEW key, NEW value, This(m, n, key, value),
         key \notin Commands, NEW d, CommandsRead(d, m)
  PROVE  CommandsRead(d, n)
  <1>1. m \in Nat /\ n = m + 1 /\ Pairs[n][1] \notin Commands
    BY DEF This
  <1>2. /\ n \notin Given("-c") /\ n \notin Asked /\ n \notin Given("--gen-config")
        /\ n \notin Documents
    BY Belongs DEF Commands
  <1>3. ConfigRead(d, n) /\ GenRead(d, n) /\ DocumentRead(d, n) /\ IntervalRead(d, n) /\ CommandsFit(n)
    BY <1>1, <1>2, Elsewhere DEF CommandsRead
  <1> QED BY <1>3 DEF CommandsRead

(* What is known of all pairs.                                              *)
LEMMA AtTheEnd ==
  ASSUME NEW N \in Nat, NEW S, S \subseteq 1..N
  PROVE  /\ NoneOf(S, N) <=> S = {}
         /\ NoneOf(S, 0)
         /\ AtMostOne(S, N) <=> \A n, k \in S : n = k
         /\ \A n : Latest(S, N, n) => n \in S /\ Max(S) = n
  <1>1. NoneOf(S, N) <=> S = {}
    BY DEF NoneOf
  <1>2. NoneOf(S, 0)
    BY DEF NoneOf
  <1>3. \A n \in S : n <= N /\ n \in Int
    OBVIOUS
  <1>4. AtMostOne(S, N) <=> \A n, k \in S : n = k
    BY <1>3, Zenon DEF AtMostOne
  <1>5. ASSUME NEW n, Latest(S, N, n) PROVE n \in S /\ Max(S) = n
    <2>1. n \in S /\ \A k \in S : k <= n
      BY <1>3, <1>5 DEF Latest
    <2>2. \A k \in S : (\A j \in S : k >= j) => k = n
      BY <1>3, <2>1
    <2>3. \A k \in S : n >= k
      BY <1>3, <2>1
    <2> QED BY <2>1, <2>2, <2>3 DEF Max
  <1> QED BY <1>1, <1>2, <1>4, <1>5, Zenon

(* The interval is the last that was asked for.                             *)
LEMMA IntervalIs ==
  ASSUME IsLine(line), NEW d, IntervalRead(d, Len(Pairs))
  PROVE  d.dynamicInterval = IntervalMeant
  <1>1. Len(Pairs) \in Nat /\ Asked \subseteq 1..Len(Pairs)
    BY PairsAre, Zenon DEF Asked
  <1>2. IntervalMeant = IF Asked = {} THEN 0 ELSE Milliseconds(Max(Asked))
    BY Zenon DEF IntervalMeant, Asked
  <1>3. CASE NoneOf(Asked, Len(Pairs)) /\ d.dynamicInterval = 0
    BY <1>1, <1>2, <1>3, AtTheEnd
  <1>4. CASE \E n : Latest(Asked, Len(Pairs), n) /\ d.dynamicInterval = Milliseconds(n)
    <2>1. PICK n : Latest(Asked, Len(Pairs), n) /\ d.dynamicInterval = Milliseconds(n)
      BY <1>4, Zenon
    <2>2. n \in Asked /\ Max(Asked) = n
      BY <1>1, <2>1, AtTheEnd
    <2>3. Asked # {}
      BY <2>2
    <2> QED BY <1>2, <2>1, <2>2, <2>3, Zenon
  <1> QED BY <1>3, <1>4 DEF IntervalRead

(* A config is generated if the last path is not empty.                     *)
LEMMA GeneratesIs ==
  ASSUME IsLine(line), NEW d, GenRead(d, Len(Pairs))
  PROVE  d.genConfig = Generates
  <1> DEFINE G == Given("--gen-config")
  <1>1. Len(Pairs) \in Nat /\ G \subseteq 1..Len(Pairs)
    BY PairsAre, Zenon
  <1>2. Generates = (G # {} /\ ValueOf(Max(G)) # Empty)
    BY Zenon DEF Generates
  <1>3. \/ NoneOf(G, Len(Pairs)) /\ d.genConfig = FALSE
        \/ \E n : Latest(G, Len(Pairs), n) /\ d.genConfig = (ValueOf(n) # Empty)
    BY Zenon DEF GenRead
  <1> HIDE DEF G
  <1>4. CASE NoneOf(G, Len(Pairs)) /\ d.genConfig = FALSE
    <2>1. G = {}
      BY <1>1, <1>4, AtTheEnd
    <2> QED BY <1>2, <1>4, <2>1, Zenon
  <1>5. CASE \E n : Latest(G, Len(Pairs), n) /\ d.genConfig = (ValueOf(n) # Empty)
    <2>1. PICK n : Latest(G, Len(Pairs), n) /\ d.genConfig = (ValueOf(n) # Empty)
      BY <1>5, Zenon
    <2>2. n \in G /\ Max(G) = n
      BY <1>1, <2>1, AtTheEnd
    <2>3. G # {}
      BY <2>2
    <2> QED BY <1>2, <2>1, <2>2, <2>3, Zenon
  <1> QED BY <1>3, <1>4, <1>5

(* Of no pairs, all fit.                                                    *)
LEMMA NothingFitsNot == OptionsFit(0)
  <1>1. ASSUME NEW n \in 1..0 PROVE FALSE
    BY <1>1
  <1> QED BY <1>1, Zenon DEF OptionsFit

(* Between the readings the config is read that is meant, or nothing is     *)
(* acceptable.                                                              *)
LEMMA LoadConfigStep ==
  ASSUME IsLine(line), Absent \notin DOMAIN world.files,
         NEW d, CommandsRead(d, Len(Pairs)), NEW e,
         e = IF d.dynamicInterval # 0 /\ d.docType # "none"
             THEN Exit(d, "interval and document") ELSE ParseConfigFiles(d)
  PROVE  IF e.end = "none" THEN Settled(e) /\ OptionsRead(e, 0) /\ OptionsFit(0) ELSE ~Acceptable
  <1> DEFINE N == Len(Pairs)
  <1>1. /\ N \in Nat /\ \A k : Given(k) \subseteq 1..N
        /\ Documents \subseteq 1..N
    BY PairsAre
  <1>2. Going(d) /\ d.dynamicInterval = IntervalMeant
    BY IntervalIs DEF CommandsRead
  <1>3. CASE d.dynamicInterval # 0 /\ d.docType # "none"
    <2>1. e.end # "none"
      BY <1>2, <1>3 DEF Exit, Going, Fields
    <2>2. Documents # {}
      BY <1>3 DEF CommandsRead, DocumentRead
    <2>3. Acceptable => Documents = {} \/ IntervalMeant = 0
      BY Zenon DEF Acceptable
    <2> QED BY <1>2, <1>3, <2>1, <2>2, <2>3
  <1>4. CASE ~(d.dynamicInterval # 0 /\ d.docType # "none")
    <2>1. e = ParseConfigFiles(d)
      BY <1>4
    <2>2. ASSUME SameBut(d, e, {"configDoc", "options"}), OptionsFrom(e),
                 e.configDoc = ConfigMeant, e.end = "none", Loads(ConfigMeant)
          PROVE  Settled(e) /\ OptionsRead(e, 0) /\ OptionsFit(0)
      <3>1. /\ Going(e) /\ e.docType = d.docType /\ e.genConfig = d.genConfig
            /\ e.dynamicInterval = d.dynamicInterval
        BY <2>2 DEF SameBut, Fields, Going
      <3>2. DocumentRead(e, N) /\ GenRead(e, N) /\ IntervalRead(e, N)
        BY <3>1 DEF CommandsRead, DocumentRead, GenRead, IntervalRead
      <3>3. CommandsFit(N) /\ AtMostOne(Given("-c"), N)
        BY DEF CommandsRead, ConfigRead
      <3>4. e.dynamicInterval = 0 \/ e.docType = "none"
        BY <1>4, <3>1
      <3>5. Settled(e)
        BY <2>2, <3>1, <3>2, <3>3, <3>4 DEF Settled
      <3>6. OptionsRead(e, 0)
        <4>1. \A key : NoneOf(Given(key), 0)
          BY <1>1, AtTheEnd
        <4> QED BY <2>2, <4>1 DEF OptionsRead, OptionsFrom
      <3>7. OptionsFit(0)
        BY NothingFitsNot
      <3> QED BY <3>5, <3>6, <3>7
    <2>3. SameBut(d, d, {"configDoc", "options"}) /\ OptionsFrom(d) /\ d.end = "none" /\ Loads(d.configDoc)
      BY DEF SameBut, CommandsRead, Going, ConfigRead
    <2>4. CASE d.configLoaded
      <3>1. PICK n \in Given("-c") : d.configDoc = Named(ValueOf(n))
        BY <2>4 DEF CommandsRead, ConfigRead
      <3>2. \A k \in Given("-c") : k = n
        <4>1. AtMostOne(Given("-c"), N)
          BY Zenon DEF CommandsRead, ConfigRead
        <4>2. \A j, k \in Given("-c") : j = k
          BY <1>1, <4>1, AtTheEnd
        <4> QED BY <4>2
      <3>3. ConfigMeant = d.configDoc
        BY <3>1, <3>2, ConfigNamed
      <3>4. e = d
        BY <2>1, <2>4, Zenon DEF ParseConfigFiles
      <3> QED BY <2>2, <2>3, <3>3, <3>4
    <2>5. CASE ~d.configLoaded
      <3>1. d.configDoc = Absent /\ Given("-c") = {}
        BY <1>1, <2>5, AtTheEnd DEF CommandsRead, ConfigRead
      <3>2. d.genConfig = Generates
        BY GeneratesIs, Zenon DEF CommandsRead
      <3>3. ConfigMeant = IF world.noConfig \/ d.genConfig THEN Absent ELSE First(Defaults)
        BY <3>1, <3>2, ConfigUnnamed
      <3>4. CASE ConfigMeant = Absent
        <4>1. e = d
          BY <2>1, <2>5, <3>3, <3>4, Zenon DEF ParseConfigFiles
        <4> QED BY <2>2, <2>3, <3>1, <3>4, <4>1
      <3>5. CASE ConfigMeant # Absent
        <4>1. e = ParseJsoncFile(d, ConfigMeant)
          BY <2>1, <2>5, <3>3, <3>5, Zenon DEF ParseConfigFiles
        <4>2. IF ConfigMeant \in DOMAIN world.files /\ ~world.files[ConfigMeant].broken
              THEN /\ SameBut(d, e, {"configDoc", "options"}) /\ OptionsFrom(e)
                   /\ e.configDoc = ConfigMeant /\ e.end = "none"
              ELSE e.end # "none"
          BY <1>2, <2>3, <3>1, <4>1, ParseJsoncFileIs
        <4>3. CASE Loads(ConfigMeant)
          BY <2>2, <3>5, <4>2, <4>3 DEF Loads
        <4>4. CASE ~Loads(ConfigMeant)
          <5>1. Acceptable => Loads(ConfigMeant)
            BY Zenon DEF Acceptable, Loads
          <5> QED BY <3>5, <4>2, <4>4, <5>1 DEF Loads
        <4> QED BY <4>3, <4>4
      <3> QED BY <3>4, <3>5
    <2> QED BY <2>4, <2>5
  <1> QED BY <1>3, <1>4

(* A pair of some other option changes nothing of what is known of one.     *)
LEMMA OptionElsewhere ==
  ASSUME IsLine(line), NEW m \in Nat, NEW n, n = m + 1, NEW k, n \notin Given(k), NEW d,
         \/ NoneOf(Given(k), m) /\ d.options[k] = FromConfig(d.configDoc, k)
         \/ \E j \in Given(k) : /\ Latest(Given(k), m, j)
                                /\ d.options[k] = Understood(OptionKind[k], ValueOf(j))
  PROVE  \/ NoneOf(Given(k), n) /\ d.options[k] = FromConfig(d.configDoc, k)
         \/ \E j \in Given(k) : /\ Latest(Given(k), n, j)
                                /\ d.options[k] = Understood(OptionKind[k], ValueOf(j))
  <1>1. Given(k) \in SUBSET Nat
    BY PairsAre
  <1>2. /\ NoneOf(Given(k), m) => NoneOf(Given(k), n)
        /\ \A j : Latest(Given(k), m, j) => Latest(Given(k), n, j)
    BY <1>1, OtherPair
  <1> QED BY <1>2, Zenon

(* A command is not there for the second reading.                           *)
LEMMA CommandWaits ==
  ASSUME IsLine(line), NEW m, NEW n, NEW key, NEW value, This(m, n, key, value),
         key \in Commands, NEW d, OptionsRead(d, m), OptionsFit(m)
  PROVE  OptionsRead(d, n) /\ OptionsFit(n)
  <1>1. m \in Nat /\ n = m + 1 /\ Pairs[n][1] \in Commands
    BY DEF This
  <1>2. \A k \in DOMAIN OptionKind : k # key
    BY ArgumentsAssumption
  <1>3. \A k : n \in Given(k) <=> key = k
    BY Belongs
  <1>4. OptionsRead(d, n)
    <2>1. ASSUME NEW k \in DOMAIN OptionKind
          PROVE  \/ NoneOf(Given(k), n) /\ d.options[k] = FromConfig(d.configDoc, k)
                 \/ \E j \in Given(k) : /\ Latest(Given(k), n, j)
                                        /\ d.options[k] = Understood(OptionKind[k], ValueOf(j))
      <3>1. n \notin Given(k)
        BY <1>2, <1>3
      <3>2. \/ NoneOf(Given(k), m) /\ d.options[k] = FromConfig(d.configDoc, k)
            \/ \E j \in Given(k) : /\ Latest(Given(k), m, j)
                                   /\ d.options[k] = Understood(OptionKind[k], ValueOf(j))
        BY Zenon DEF OptionsRead
      <3> QED BY <1>1, <3>1, <3>2, OptionElsewhere
    <2> QED BY <2>1, Zenon DEF OptionsRead
  <1>5. \A k \in 1..n : k = n \/ k \in 1..m
    BY <1>1
  <1>6. OptionsFit(n)
    BY <1>1, <1>5, Zenon DEF OptionsFit
  <1> QED BY <1>4, <1>6

(* An option that fits is set; any other makes the line unacceptable.       *)
LEMMA OptionStep ==
  ASSUME IsLine(line), NEW m, NEW n, NEW key, NEW value, This(m, n, key, value),
         key \notin Commands,
         NEW d, Settled(d), OptionsRead(d, m), OptionsFit(m), NEW e, e = ParseOption(d, key, value)
  PROVE  IF e.end = "none" THEN Settled(e) /\ OptionsRead(e, n) /\ OptionsFit(n)
         ELSE ~Acceptable
  <1>1. /\ m \in Nat /\ n = m + 1 /\ n \in 1..Len(Pairs) /\ Pairs[n][1] = key /\ ValueOf(n) = value
        /\ DOMAIN d = Fields /\ d.end = "none"
    BY DEF This, Settled, Going
  <1>2. Fits(n) <=> IsKey(key) /\ Readable(OptionKind[key], value)
    BY <1>1, FitsIs
  <1>3. CASE ~Fits(n)
    <2>1. e = Exit(d, "usage")
      BY <1>2, <1>3, Zenon DEF ParseOption
    <2>2. e.end # "none"
      BY <1>1, <2>1 DEF Exit, Fields
    <2> QED BY <1>1, <1>3, <2>2, Refusals
  <1>4. CASE Fits(n)
    <2>1. e = [d EXCEPT !.options[key] = Understood(OptionKind[key], value)]
      BY <1>2, <1>4, Zenon DEF ParseOption
    <2>2. key \in DOMAIN OptionKind
      BY <1>2, <1>4 DEF IsKey
    <2>3. /\ Going(e) /\ e.configDoc = d.configDoc /\ e.docType = d.docType
          /\ e.genConfig = d.genConfig /\ e.dynamicInterval = d.dynamicInterval
          /\ e.end = "none"
      BY <1>1, <2>1 DEF Going, Fields
    <2>4. e.options = [d.options EXCEPT ![key] = Understood(OptionKind[key], value)]
      BY <1>1, <2>1 DEF Fields
    <2>5. /\ DOMAIN e.options = DOMAIN OptionKind
          /\ e.options[key] = Understood(OptionKind[key], value)
          /\ \A k \in DOMAIN OptionKind : k # key => e.options[k] = d.options[k]
      BY <2>2, <2>4 DEF OptionsRead
    <2>6. Settled(e)
      BY <2>3 DEF Settled, DocumentRead, GenRead, IntervalRead
    <2>7. ASSUME NEW k \in DOMAIN OptionKind
          PROVE  \/ NoneOf(Given(k), n) /\ e.options[k] = FromConfig(e.configDoc, k)
                 \/ \E j \in Given(k) : /\ Latest(Given(k), n, j)
                                        /\ e.options[k] = Understood(OptionKind[k], ValueOf(j))
      <3>1. CASE k = key
        <4>1. n \in Given(k) /\ Given(k) \in SUBSET Nat
          BY <3>1, Belongs, PairsAre
        <4>2. Latest(Given(k), n, n)
          BY <1>1, <4>1, ThisPair
        <4> QED BY <1>1, <2>5, <3>1, <4>1, <4>2, Zenon
      <3>2. CASE k # key
        <4>1. n \notin Given(k)
          BY <3>2, Belongs
        <4>2. \/ NoneOf(Given(k), m) /\ d.options[k] = FromConfig(d.configDoc, k)
              \/ \E j \in Given(k) : /\ Latest(Given(k), m, j)
                                     /\ d.options[k] = Understood(OptionKind[k], ValueOf(j))
          BY Zenon DEF OptionsRead
        <4>3. e.options[k] = d.options[k] /\ e.configDoc = d.configDoc
          BY <2>3, <2>5, <3>2
        <4>4. \/ NoneOf(Given(k), m) /\ e.options[k] = FromConfig(e.configDoc, k)
              \/ \E j \in Given(k) : /\ Latest(Given(k), m, j)
                                     /\ e.options[k] = Understood(OptionKind[k], ValueOf(j))
          BY <4>2, <4>3, Zenon
        <4> QED BY <1>1, <4>1, <4>4, OptionElsewhere
      <3> QED BY <3>1, <3>2
    <2>8. OptionsRead(e, n)
      BY <2>5, <2>7 DEF OptionsRead
    <2>9. OptionsFit(n)
      <3>1. \A k \in 1..n : k = n \/ k \in 1..m
        BY <1>1
      <3> QED BY <1>4, <3>1, Zenon DEF OptionsFit
    <2> QED BY <2>3, <2>6, <2>8, <2>9
  <1> QED BY <1>3, <1>4

(* What the second reading ends with is what is meant.                      *)
Meant(d) ==
  /\ Acceptable
  /\ d.configDoc = ConfigMeant
  /\ \A key \in DOMAIN OptionKind : d.options[key] = OptionMeant(key)
  /\ d.dynamicInterval = IntervalMeant
  /\ d.genConfig = Generates
  /\ d.docType = IF \E n \in Documents : AsksForJson(n) THEN "json"
                 ELSE IF Documents # {} THEN "config" ELSE "none"

(* When every option is read, FFdata is what is meant.                      *)
LEMMA ReadingEnds ==
  ASSUME IsLine(line), NEW d, Settled(d), OptionsRead(d, Len(Pairs)), OptionsFit(Len(Pairs))
  PROVE  Meant(d)
  <1> DEFINE N == Len(Pairs)
  <1>1. /\ N \in Nat /\ DOMAIN Pairs = 1..N /\ \A k : Given(k) \subseteq 1..N
        /\ Documents \subseteq 1..N
    BY PairsAre
  <1>2. /\ Going(d) /\ CommandsFit(N) /\ AtMostOne(Given("-c"), N) /\ DocumentRead(d, N)
        /\ GenRead(d, N) /\ IntervalRead(d, N)
        /\ d.configDoc = ConfigMeant /\ Loads(ConfigMeant)
        /\ d.dynamicInterval = 0 \/ d.docType = "none"
    BY Zenon DEF Settled
  <1>3. d.dynamicInterval = IntervalMeant
    BY <1>2, IntervalIs
  <1> HIDE DEF N
  <1>4. AtMostOne(Documents, N)
    BY <1>2, Zenon DEF DocumentRead
  <1>5. Acceptable
    <2>1. \A n \in DOMAIN Pairs : Fits(n)
      BY <1>1, <1>2, Zenon DEF CommandsFit, OptionsFit, N
    <2>2. Cardinality(Given("-c")) <= 1 /\ Cardinality(Documents) <= 1
      BY <1>1, <1>2, <1>4, ManyOrOne
    <2>3. d.docType = "none" => Documents = {}
      <3>1. \A n \in Documents : (IF AsksForJson(n) THEN "json" ELSE "config") # "none"
        OBVIOUS
      <3>2. NoneOf(Documents, N) => Documents = {}
        BY <1>1, AtTheEnd
      <3>3. AtMostOne(Documents, N) /\ (NoneOf(Documents, N) \/ \E n \in Documents : d.docType = IF AsksForJson(n) THEN "json" ELSE "config")
        BY <1>2, Zenon DEF DocumentRead
      <3>4. ASSUME d.docType = "none" PROVE NoneOf(Documents, N)
        BY <3>1, <3>3, <3>4, Zenon
      <3> QED BY <3>2, <3>4
    <2>4. Documents = {} \/ IntervalMeant = 0
      BY <1>2, <1>3, <2>3
    <2>5. ConfigMeant # Absent =>
            ConfigMeant \in DOMAIN world.files /\ ~world.files[ConfigMeant].broken
      BY <1>2, Zenon DEF Loads
    <2> QED BY <2>1, <2>2, <2>4, <2>5, Zenon DEF Acceptable
  <1>6. ASSUME NEW key \in DOMAIN OptionKind PROVE d.options[key] = OptionMeant(key)
    <2>1. Given(key) \subseteq 1..N
      BY <1>1
    <2>2. \/ NoneOf(Given(key), N) /\ d.options[key] = FromConfig(d.configDoc, key)
          \/ \E n \in Given(key) : /\ Latest(Given(key), N, n)
                                   /\ d.options[key] = Understood(OptionKind[key], ValueOf(n))
      BY Zenon DEF OptionsRead, N
    <2>3. CASE NoneOf(Given(key), N) /\ d.options[key] = FromConfig(d.configDoc, key)
      <3>1. Given(key) = {}
        BY <1>1, <2>1, <2>3, AtTheEnd
      <3> QED BY <1>2, <2>3, <3>1, Zenon DEF OptionMeant, FromConfig
    <2>4. CASE \E n \in Given(key) : /\ Latest(Given(key), N, n)
                                     /\ d.options[key] = Understood(OptionKind[key], ValueOf(n))
      <3>1. PICK n \in Given(key) : /\ Latest(Given(key), N, n)
                                    /\ d.options[key] = Understood(OptionKind[key], ValueOf(n))
        BY <2>4, Zenon
      <3>2. Max(Given(key)) = n /\ Given(key) # {}
        BY <1>1, <2>1, <3>1, AtTheEnd
      <3> QED BY <3>1, <3>2, Zenon DEF OptionMeant
    <2> QED BY <2>2, <2>3, <2>4
  <1>7. d.genConfig = Generates
    BY <1>2, GeneratesIs DEF N
  <1>8. d.docType = IF \E n \in Documents : AsksForJson(n) THEN "json"
                    ELSE IF Documents # {} THEN "config" ELSE "none"
    <2>1. CASE NoneOf(Documents, N) /\ d.docType = "none"
      <3>1. Documents = {}
        BY <1>1, <2>1, AtTheEnd
      <3>2. ~\E n \in Documents : AsksForJson(n)
        BY <3>1
      <3> QED BY <2>1, <3>1, <3>2, Zenon
    <2>2. CASE \E n \in Documents :
                 n <= N /\ d.docType = IF AsksForJson(n) THEN "json" ELSE "config"
      <3>1. PICK n \in Documents : d.docType = IF AsksForJson(n) THEN "json" ELSE "config"
        BY <2>2, Zenon
      <3>2. \A k \in Documents : k = n
        BY <1>1, <1>4, AtTheEnd
      <3>3. Documents # {}
        BY <3>1
      <3>4. (\E k \in Documents : AsksForJson(k)) <=> AsksForJson(n)
        BY <3>1, <3>2, Zenon
      <3> QED BY <3>1, <3>3, <3>4, Zenon
    <2> QED BY <1>2, <2>1, <2>2, Zenon DEF DocumentRead
  <1> QED BY <1>2, <1>3, <1>5, <1>6, <1>7, <1>8, Zenon DEF Meant
-----------------------------------------------------------------------------
(* The world and the line never change, and nothing that is said of them.   *)
LEMMA SteadyLine ==
  ASSUME world' = world, line' = line
  PROVE  /\ Pairs' = Pairs /\ (\A n : ValueOf(n)' = ValueOf(n)) /\ (\A key : Given(key)' = Given(key))
         /\ (\A n : AsksForJson(n)' = AsksForJson(n)) /\ (\A n : Milliseconds(n)' = Milliseconds(n))
         /\ Documents' = Documents /\ IntervalMeant' = IntervalMeant /\ Asked' = Asked
         /\ Generates' = Generates
  <1>1. Pairs' = Pairs
    BY DEF Pairs
  <1>2. \A n : Fused(n)' = Fused(n)
    BY <1>1 DEF Fused
  <1>3. \A n : ValueOf(n)' = ValueOf(n)
    BY <1>1, <1>2 DEF ValueOf
  <1>4. \A key : Given(key)' = Given(key)
    BY <1>1 DEF Given
  <1>5. \A n : AsksForJson(n)' = AsksForJson(n)
    BY <1>1, <1>3 DEF AsksForJson
  <1>6. \A n : Milliseconds(n)' = Milliseconds(n)
    BY <1>1, <1>3 DEF Milliseconds
  <1>7. Documents' = Documents
    BY <1>1, <1>5 DEF Documents
  <1>8. IntervalMeant' = IntervalMeant
    BY <1>4, <1>6 DEF IntervalMeant
  <1>9. Asked' = Asked
    BY <1>4 DEF Asked
  <1>10. Generates' = Generates
    BY <1>3, <1>4 DEF Generates
  <1> QED BY <1>1, <1>3, <1>4, <1>5, <1>6, <1>7, <1>8, <1>9, <1>10

LEMMA SteadyFiles ==
  ASSUME world' = world, line' = line
  PROVE  /\ (\A name : First(Places(name))' = First(Places(name))) /\ First(Defaults)' = First(Defaults)
         /\ (\A name : Named(name)' = Named(name)) /\ (\A path : Loads(path)' = Loads(path))
         /\ (\A path, key : FromConfig(path, key)' = FromConfig(path, key))
         /\ ConfigMeant' = ConfigMeant /\ \A n : Fits(n)' = Fits(n)
  <1>1. \A paths : First(paths)' = First(paths)
    BY DEF First
  <1>2. (\A name : Places(name)' = Places(name)) /\ Defaults' = Defaults
    BY DEF Places, Defaults
  <1>3. (\A name : First(Places(name))' = First(Places(name))) /\ First(Defaults)' = First(Defaults)
    BY <1>1, <1>2
  <1>4. \A name : Named(name)' = Named(name)
    BY <1>3 DEF Named
  <1>5. \A path : Loads(path)' = Loads(path)
    BY DEF Loads
  <1>6. \A path, key : FromConfig(path, key)' = FromConfig(path, key)
    BY DEF FromConfig
  <1>7. ConfigMeant' = ConfigMeant
    <2>1. Pairs' = Pairs /\ Generates' = Generates
      BY SteadyLine
    <2> QED BY <2>1, SMT DEF ConfigMeant, Given, ValueOf, Fused, First, Places, Defaults
  <1>8. \A n : Fits(n)' = Fits(n)
    <2> TAKE n
    <2>1. /\ Pairs' = Pairs /\ ValueOf(n)' = ValueOf(n)
          /\ First(Places(ValueOf(n)))' = First(Places(ValueOf(n)))
      BY <1>3, SteadyLine
    <2>2. \A kind, value : Readable(kind, value)' = Readable(kind, value)
      BY DEF Readable
    <2> QED BY <2>1, <2>2, SMT DEF Fits
  <1> QED BY <1>3, <1>4, <1>5, <1>6, <1>7, <1>8

LEMMA SteadyParts ==
  ASSUME world' = world, line' = line, NEW d, NEW m
  PROVE  /\ Going(d)' = Going(d) /\ CommandsFit(m)' = CommandsFit(m)
         /\ ConfigRead(d, m)' = ConfigRead(d, m) /\ DocumentRead(d, m)' = DocumentRead(d, m)
         /\ GenRead(d, m)' = GenRead(d, m) /\ IntervalRead(d, m)' = IntervalRead(d, m)
         /\ OptionsFrom(d)' = OptionsFrom(d)
         /\ AtMostOne(Given("-c"), m)' = AtMostOne(Given("-c"), m)
  <1>1. Going(d)' = Going(d)
    BY DEF Going
  <1>2. CommandsFit(m)' = CommandsFit(m)
    BY SteadyLine, SteadyFiles DEF CommandsFit
  <1>3. AtMostOne(Given("-c"), m)' = AtMostOne(Given("-c"), m)
    BY SteadyLine DEF AtMostOne
  <1>4. ConfigRead(d, m)' = ConfigRead(d, m)
    BY <1>3, SteadyLine, SteadyFiles DEF ConfigRead, NoneOf
  <1>5. DocumentRead(d, m)' = DocumentRead(d, m)
    BY SteadyLine DEF DocumentRead, NoneOf, AtMostOne
  <1>6. GenRead(d, m)' = GenRead(d, m)
    BY SteadyLine DEF GenRead, NoneOf, Latest
  <1>7. IntervalRead(d, m)' = IntervalRead(d, m)
    BY SteadyLine DEF IntervalRead, NoneOf, Latest
  <1>8. OptionsFrom(d)' = OptionsFrom(d)
    BY SteadyFiles DEF OptionsFrom
  <1> QED BY <1>1, <1>2, <1>3, <1>4, <1>5, <1>6, <1>7, <1>8

LEMMA SteadyCommands ==
  ASSUME world' = world, line' = line, NEW d, NEW m
  PROVE  CommandsRead(d, m)' = CommandsRead(d, m)
  BY SteadyParts DEF CommandsRead

LEMMA SteadySettled ==
  ASSUME world' = world, line' = line, NEW d
  PROVE  Settled(d)' = Settled(d)
  <1> DEFINE m == Len(Pairs)
  <1>1. m' = m
    BY SteadyLine
  <1>2. /\ Going(d)' = Going(d) /\ CommandsFit(m)' = CommandsFit(m)
        /\ AtMostOne(Given("-c"), m)' = AtMostOne(Given("-c"), m)
        /\ DocumentRead(d, m)' = DocumentRead(d, m) /\ GenRead(d, m)' = GenRead(d, m)
        /\ IntervalRead(d, m)' = IntervalRead(d, m)
    <2>1. ASSUME NEW k
          PROVE  /\ Going(d)' = Going(d) /\ CommandsFit(k)' = CommandsFit(k)
                 /\ AtMostOne(Given("-c"), k)' = AtMostOne(Given("-c"), k)
                 /\ DocumentRead(d, k)' = DocumentRead(d, k) /\ GenRead(d, k)' = GenRead(d, k)
                 /\ IntervalRead(d, k)' = IntervalRead(d, k)
      BY SteadyParts
    <2> QED BY <1>1, <2>1
  <1>3. ConfigMeant' = ConfigMeant /\ Loads(ConfigMeant)' = Loads(ConfigMeant)
    BY SteadyFiles
  <1> QED BY <1>2, <1>3 DEF Settled

LEMMA SteadyOptions ==
  ASSUME world' = world, line' = line, NEW d, NEW m
  PROVE  OptionsRead(d, m)' = OptionsRead(d, m) /\ OptionsFit(m)' = OptionsFit(m)
  <1>1. OptionsRead(d, m)' = OptionsRead(d, m)
    BY SteadyLine, SteadyFiles DEF OptionsRead, NoneOf, Latest
  <1>2. OptionsFit(m)' = OptionsFit(m)
    BY SteadyLine, SteadyFiles DEF OptionsFit
  <1> QED BY <1>1, <1>2

LEMMA SteadyAcceptable ==
  ASSUME world' = world, line' = line
  PROVE  Acceptable' = Acceptable
  BY SteadyLine, SteadyFiles DEF Acceptable

LEMMA SteadyMeant ==
  ASSUME world' = world, line' = line, NEW d
  PROVE  Meant(d)' = Meant(d)
  <1>1. \A key : OptionMeant(key)' = OptionMeant(key)
    BY SteadyLine, SteadyFiles DEF OptionMeant
  <1> QED BY <1>1, SteadyAcceptable, SteadyLine, SteadyFiles DEF Meant

(* The parts of the invariant after a step.                                 *)
LEMMA CommandsNext ==
  ASSUME world' = world, line' = line,
         reading' = "commands" =>
           /\ Boundary(line, arg') /\ CommandsRead(fdata', Begun(line, arg'))
           /\ \A j \in 1..Len(line) :
                argv'[j] = IF j < arg' /\ Clears(line, j) THEN Empty ELSE line[j]
  PROVE  ReadingCommands'
  <1>1. \A d, m : CommandsRead(d, m)' = CommandsRead(d, m)
    BY SteadyCommands
  <1> QED BY <1>1 DEF ReadingCommands

LEMMA OptionsNext ==
  ASSUME world' = world, line' = line,
         reading' = "options" =>
           /\ arg' \in 1..(Len(line) + 1) /\ (Boundary(line, arg') \/ Clears(line, arg'))
           /\ Settled(fdata') /\ OptionsRead(fdata', Begun(line, arg'))
           /\ OptionsFit(Begun(line, arg'))
           /\ \A j \in 1..Len(line) : argv'[j] = IF Clears(line, j) THEN Empty ELSE line[j]
  PROVE  ReadingOptions'
  <1>1. \A d : Settled(d)' = Settled(d)
    BY SteadySettled
  <1>2. \A d, m : OptionsRead(d, m)' = OptionsRead(d, m) /\ OptionsFit(m)' = OptionsFit(m)
    BY SteadyOptions
  <1> QED BY <1>1, <1>2 DEF ReadingOptions


LEMMA RightNext ==
  ASSUME world' = world, line' = line,
         reading' = "over" => ~Acceptable, reading' = "ready" => Meant(fdata')
  PROVE  ArgumentsRight'
  <1>1. Acceptable' = Acceptable
    BY SteadyAcceptable
  <1>2. \A d : Meant(d)' = Meant(d)
    BY SteadyMeant
  <1> QED BY <1>1, <1>2 DEF ArgumentsRight, Meant

LEMMA PlacedNext ==
  ASSUME Placed, world' = world, line' = line, Len(argv') = Len(argv), DOMAIN argv' = DOMAIN argv
  PROVE  Placed'
  BY DEF Placed, IsLine

(* The rest of the program leaves the arguments alone.                      *)
LEMMA ArgumentsRest ==
  ASSUME ArgumentsInv, UNCHANGED argVars
  PROVE  ArgumentsInv'
  <1>1. /\ world' = world /\ line' = line /\ argv' = argv /\ arg' = arg /\ reading' = reading
        /\ fdata' = fdata
    BY DEF argVars
  <1>2. Placed /\ ReadingCommands /\ ReadingOptions /\ ArgumentsRight
    BY DEF ArgumentsInv
  <1>3. Placed'
    BY <1>1, <1>2, PlacedNext
  <1>4. ReadingCommands'
    BY <1>1, <1>2, CommandsNext DEF ReadingCommands
  <1>5. ReadingOptions'
    BY <1>1, <1>2, OptionsNext DEF ReadingOptions
  <1>6. (reading = "over" => ~Acceptable) /\ (reading = "ready" => Meant(fdata))
    BY <1>2, Zenon DEF ArgumentsRight, Meant
  <1>7. ArgumentsRight'
    BY <1>1, <1>6, RightNext
  <1> QED BY <1>3, <1>4, <1>5, <1>7 DEF ArgumentsInv
-----------------------------------------------------------------------------
(* Nothing that is cleared is taken for an option.                          *)
LEMMA NotEmpty ==
  /\ ~IsKey(Empty) /\ ~Dashed(Empty) /\ Empty \notin Commands
  /\ \A a : Dashed(a) \/ IsKey(a) \/ a \in Commands => a # Empty
  <1>1. Empty \notin Commands
    BY Zenon DEF Empty, Commands, Prints
  <1>2. Empty \notin DOMAIN OptionKind /\ ~IsNegativeNumber(Empty)
    <2>1. Empty \notin DOMAIN OptionKind
      BY ArgumentsAssumption
    <2>2. Empty \in DOMAIN NumberOf => NumberOf[Empty] >= 0 /\ NumberOf[Empty] \in Int
      BY ArgumentsAssumption
    <2>3. ~IsNegativeNumber(Empty)
      BY <2>2 DEF IsNegativeNumber
    <2> QED BY <2>1, <2>3
  <1>3. ~IsKey(Empty)
    BY <1>1, <1>2, Zenon DEF IsKey
  <1>4. Empty # "-"
    BY Zenon DEF Empty
  <1>5. ~Dashed(Empty)
    BY <1>2, <1>3, <1>4, Zenon DEF Dashed
  <1> QED BY <1>1, <1>3, <1>5, Zenon

(* The pair that an argument begins, and what is behind it.                 *)
LEMMA PairHere ==
  ASSUME IsLine(line), NEW i \in 1..Len(line), Boundary(line, i), line[i] # Empty,
         NEW n, n = Begun(line, i) + 1
  PROVE  /\ Begun(line, i) \in Nat /\ n \in 1..Len(Pairs) /\ n \in DOMAIN Pairs
         /\ Pairs[n][1] = line[i]
         /\ Pairs[n][2] = IF GivenValue(line, i) THEN line[i + 1] ELSE Absent
         /\ Begun(line, i + 1) = n
         /\ GivenValue(line, i) => /\ i + 1 \in 1..Len(line) /\ ~Boundary(line, i + 1)
                                   /\ Boundary(line, i + 2) /\ Begun(line, i + 2) = n
         /\ ~GivenValue(line, i) => Boundary(line, i + 1)
  <1>1. Pairs = PairsOf(line) /\ DOMAIN Pairs = 1..Len(Pairs)
    BY PairsAre
  <1>2. Len(line) \in Nat /\ i \in 1..(Len(line) + 1)
    BY LenIs
  <1>3. Begun(line, i) \in Nat
    BY <1>2, PairsBeforeAre
  <1>4. n \in 1..Len(Pairs) /\ Pairs[n] = <<line[i], IF GivenValue(line, i) THEN line[i + 1] ELSE Absent>>
    BY <1>1, NextPair
  <1>5. Begun(line, i + 1) = n
    BY BegunOn
  <1>6. ASSUME GivenValue(line, i)
        PROVE  /\ i + 1 \in 1..Len(line) /\ ~Boundary(line, i + 1)
               /\ Boundary(line, i + 2) /\ Begun(line, i + 2) = n
    <2>1. i + 1 \in 1..Len(line) /\ (i + 1) + 1 = i + 2
      BY <1>2, <1>6 DEF GivenValue
    <2>2. ~Boundary(line, i + 1) /\ Boundary(line, i + 2)
      BY <1>6, KeyWithValue DEF Boundary
    <2>3. Begun(line, (i + 1) + 1) = Begun(line, i + 1)
      BY <2>1, <2>2, BegunOn
    <2> QED BY <1>5, <2>1, <2>2, <2>3
  <1>7. ~GivenValue(line, i) => Boundary(line, i + 1)
    BY KeyWithoutValue
  <1> QED BY <1>1, <1>3, <1>4, <1>5, <1>6, <1>7

(* Before the first reading has come to an argument it is what it was.      *)
LEMMA AtCommands ==
  ASSUME Placed, ReadingCommands, reading = "commands", arg <= Len(argv)
  PROVE  /\ IsLine(line) /\ arg \in 1..Len(line) /\ Boundary(line, arg) /\ argv[arg] = line[arg]
         /\ CommandsRead(fdata, Begun(line, arg))
         /\ \A j \in 1..Len(line) :
              argv[j] = IF j < arg /\ Clears(line, j) THEN Empty ELSE line[j]
         /\ HasValue(arg) <=> GivenValue(line, arg)
         /\ ValueAt(arg) = IF GivenValue(line, arg) THEN line[arg + 1] ELSE Absent
         /\ After(arg) = IF GivenValue(line, arg) THEN arg + 2 ELSE arg + 1
  <1>1. /\ IsLine(line) /\ Len(argv) = Len(line) /\ Boundary(line, arg)
        /\ CommandsRead(fdata, Begun(line, arg))
        /\ \A j \in 1..Len(line) :
             argv[j] = IF j < arg /\ Clears(line, j) THEN Empty ELSE line[j]
    BY DEF Placed, ReadingCommands
  <1>2. Len(line) \in Nat
    BY <1>1, LenIs
  <1>3. arg \in 1..Len(line)
    BY <1>1, <1>2 DEF Boundary
  <1>4. \A j \in 1..Len(line) : j >= arg => argv[j] = line[j]
    BY <1>1, <1>3
  <1>5. argv[arg] = line[arg] /\ (arg < Len(line) => argv[arg + 1] = line[arg + 1])
    BY <1>2, <1>3, <1>4
  <1>6. HasValue(arg) <=> GivenValue(line, arg)
    BY <1>1, <1>5, Zenon DEF HasValue, GivenValue
  <1>7. ValueAt(arg) = IF GivenValue(line, arg) THEN line[arg + 1] ELSE Absent
    BY <1>5, <1>6, Zenon DEF ValueAt, GivenValue
  <1>8. After(arg) = IF GivenValue(line, arg) THEN arg + 2 ELSE arg + 1
    BY <1>6, Zenon DEF After
  <1> QED BY <1>1, <1>3, <1>5, <1>6, <1>7, <1>8

(* In the second reading only what it has to read is there.                 *)
LEMMA AtOptions ==
  ASSUME Placed, ReadingOptions, reading = "options", arg <= Len(argv)
  PROVE  /\ IsLine(line) /\ arg \in 1..Len(line) /\ (Boundary(line, arg) \/ Clears(line, arg))
         /\ Settled(fdata) /\ OptionsRead(fdata, Begun(line, arg)) /\ OptionsFit(Begun(line, arg))
         /\ \A j \in 1..Len(line) : argv[j] = IF Clears(line, j) THEN Empty ELSE line[j]
         /\ argv[arg] # Empty => /\ Boundary(line, arg) /\ argv[arg] = line[arg]
                                 /\ line[arg] \notin Commands
  <1>1. /\ IsLine(line) /\ Len(argv) = Len(line) /\ arg \in 1..(Len(line) + 1)
        /\ Boundary(line, arg) \/ Clears(line, arg)
        /\ Settled(fdata) /\ OptionsRead(fdata, Begun(line, arg)) /\ OptionsFit(Begun(line, arg))
        /\ \A j \in 1..Len(line) : argv[j] = IF Clears(line, j) THEN Empty ELSE line[j]
    BY DEF Placed, ReadingOptions
  <1>2. Len(line) \in Nat
    BY <1>1, LenIs
  <1>3. arg \in 1..Len(line)
    BY <1>1, <1>2
  <1>4. argv[arg] # Empty => ~Clears(line, arg) /\ Boundary(line, arg) /\ argv[arg] = line[arg]
    BY <1>1, <1>3
  <1>5. argv[arg] # Empty => line[arg] \notin Commands
    BY <1>4, Zenon DEF Clears
  <1> QED BY <1>1, <1>3, <1>4, <1>5

(* An empty argument begins no pair; a cleared one begins a pair of a       *)
(* command, or is the value of one.                                         *)
LEMMA SkipStep ==
  ASSUME ArgumentsInv, SkipHandled
  PROVE  ArgumentsInv'
  <1>1. /\ reading \in {"commands", "options"} /\ arg <= Len(argv) /\ argv[arg] = Empty
        /\ arg' = arg + 1 /\ world' = world /\ line' = line /\ argv' = argv
        /\ reading' = reading /\ fdata' = fdata
    BY DEF SkipHandled, Reading
  <1>2. Placed /\ ReadingCommands /\ ReadingOptions
    BY DEF ArgumentsInv
  <1>3. Placed'
    BY <1>1, <1>2, PlacedNext
  <1>4. ReadingCommands'
    <2>1. ASSUME reading' = "commands"
          PROVE  /\ Boundary(line, arg') /\ CommandsRead(fdata', Begun(line, arg'))
                 /\ \A j \in 1..Len(line) :
                      argv'[j] = IF j < arg' /\ Clears(line, j) THEN Empty ELSE line[j]
      <3>1. /\ IsLine(line) /\ arg \in 1..Len(line) /\ Boundary(line, arg) /\ argv[arg] = line[arg]
            /\ CommandsRead(fdata, Begun(line, arg))
            /\ \A j \in 1..Len(line) :
                 argv[j] = IF j < arg /\ Clears(line, j) THEN Empty ELSE line[j]
        BY <1>1, <1>2, <2>1, AtCommands
      <3>2. Boundary(line, arg + 1) /\ Begun(line, arg + 1) = Begun(line, arg)
        BY <1>1, <3>1, BegunOn
      <3>3. \A j \in 1..Len(line) : j < arg + 1 <=> j < arg \/ j = arg
        BY <3>1
      <3>4. \A j \in 1..Len(line) :
              argv[j] = IF j < arg + 1 /\ Clears(line, j) THEN Empty ELSE line[j]
        BY <1>1, <3>1, <3>3, Zenon
      <3> QED BY <1>1, <3>1, <3>2, <3>4, Zenon
    <2> QED BY <1>1, <2>1, CommandsNext
  <1>5. ReadingOptions'
    <2>1. ASSUME reading' = "options"
          PROVE  /\ arg' \in 1..(Len(line) + 1) /\ (Boundary(line, arg') \/ Clears(line, arg'))
                 /\ Settled(fdata') /\ OptionsRead(fdata', Begun(line, arg'))
                 /\ OptionsFit(Begun(line, arg'))
                 /\ \A j \in 1..Len(line) : argv'[j] = IF Clears(line, j) THEN Empty ELSE line[j]
      <3>1. /\ IsLine(line) /\ arg \in 1..Len(line) /\ (Boundary(line, arg) \/ Clears(line, arg))
            /\ Settled(fdata) /\ OptionsRead(fdata, Begun(line, arg))
            /\ OptionsFit(Begun(line, arg))
            /\ \A j \in 1..Len(line) : argv[j] = IF Clears(line, j) THEN Empty ELSE line[j]
        BY <1>1, <1>2, <2>1, AtOptions
      <3>2. arg + 1 \in 1..(Len(line) + 1) /\ (arg + 1) - 1 = arg
        BY <3>1, LenIs
      <3>3. CASE ~Boundary(line, arg) \/ line[arg] = Empty
        <4>1. Boundary(line, arg + 1) /\ Begun(line, arg + 1) = Begun(line, arg)
          BY <3>1, <3>3, BegunOn
        <4> QED BY <1>1, <3>1, <3>2, <4>1
      <3>4. CASE Boundary(line, arg) /\ line[arg] # Empty
        <4> DEFINE n == Begun(line, arg) + 1
        <4>1. line[arg] \in Commands
          BY <1>1, <3>1, <3>4 DEF Clears
        <4>2. /\ Begun(line, arg) \in Nat /\ n \in 1..Len(Pairs) /\ Pairs[n][1] = line[arg]
              /\ Begun(line, arg + 1) = n
          BY <3>1, <3>4, PairHere
        <4> HIDE DEF n
        <4>3. This(Begun(line, arg), n, line[arg], ValueOf(n))
          BY <4>2 DEF This, n
        <4>4. OptionsRead(fdata, n) /\ OptionsFit(n)
          BY <3>1, <4>1, <4>3, CommandWaits
        <4>5. Boundary(line, arg + 1) \/ Clears(line, arg + 1)
          BY <3>2, <4>1 DEF Clears
        <4> QED BY <1>1, <3>1, <3>2, <4>2, <4>4, <4>5
      <3> QED BY <3>3, <3>4
    <2> QED BY <1>1, <2>1, OptionsNext
  <1>6. ArgumentsRight'
    BY <1>1, RightNext
  <1> QED BY <1>3, <1>4, <1>5, <1>6 DEF ArgumentsInv

(* What begins no option where one must begin fits nothing.                 *)
LEMMA NotAnOptionStep ==
  ASSUME ArgumentsInv, NotAnOption
  PROVE  ArgumentsInv'
  <1>1. /\ reading \in {"commands", "options"} /\ arg <= Len(argv) /\ argv[arg] # Empty
        /\ ~Dashed(argv[arg]) /\ fdata' = Exit(fdata, "usage")
        /\ reading' = IF fdata'.end = "none" THEN reading ELSE "over"
        /\ arg' = arg /\ world' = world /\ line' = line /\ argv' = argv
    BY DEF NotAnOption, Reading, Goes
  <1>2. Placed /\ ReadingCommands /\ ReadingOptions
    BY DEF ArgumentsInv
  <1>3. Placed'
    BY <1>1, <1>2, PlacedNext
  <1>4. IsLine(line) /\ arg \in 1..Len(line) /\ Boundary(line, arg) /\ argv[arg] = line[arg] /\ Going(fdata)
    <2>1. CASE reading = "commands"
      BY <1>1, <1>2, <2>1, AtCommands DEF CommandsRead
    <2>2. CASE reading = "options"
      BY <1>1, <1>2, <2>2, AtOptions DEF Settled
    <2> QED BY <1>1, <2>1, <2>2
  <1>5. reading' = "over"
    <2>1. fdata'.end # "none"
      BY <1>1, <1>4 DEF Exit, Going, Fields
    <2> QED BY <1>1, <2>1
  <1>6. ~Acceptable
    <2> DEFINE n == Begun(line, arg) + 1
    <2>1. n \in 1..Len(Pairs) /\ Pairs[n][1] = line[arg]
      BY <1>1, <1>4, PairHere
    <2> HIDE DEF n
    <2>2. ~IsKey(line[arg])
      BY <1>1, <1>4, Zenon DEF Dashed
    <2>3. ~Fits(n)
      BY <2>1, <2>2, FitsIs DEF IsKey
    <2> QED BY <1>4, <2>1, <2>3, Refusals
  <1>7. ReadingCommands' /\ ReadingOptions'
    BY <1>1, <1>5, CommandsNext, OptionsNext
  <1>8. ArgumentsRight'
    BY <1>1, <1>5, <1>6, RightNext
  <1> QED BY <1>3, <1>7, <1>8 DEF ArgumentsInv

(* Clearing leaves the other arguments where they are.                      *)
LEMMA ClearIs ==
  ASSUME Placed, NEW i
  PROVE  /\ Len(Clear(i)) = Len(argv) /\ DOMAIN Clear(i) = DOMAIN argv
         /\ \A j \in 1..Len(line) :
              Clear(i)[j] = IF j \in i..After(i) - 1 THEN Empty ELSE argv[j]
  <1>1. DOMAIN argv = 1..Len(line) /\ Len(argv) = Len(line) /\ Len(line) \in Nat
    BY LenIs DEF Placed
  <1>2. DOMAIN Clear(i) = 1..Len(line)
    BY <1>1, Zenon DEF Clear
  <1>3. \A j \in 1..Len(line) :
          Clear(i)[j] = IF j \in i..After(i) - 1 THEN Empty ELSE argv[j]
    BY <1>1, Zenon DEF Clear
  <1>4. Len(Clear(i)) = Len(line)
    BY <1>1 DEF Clear
  <1> QED BY <1>1, <1>2, <1>3, <1>4

(* A command is obeyed and cleared, with its value.                         *)
LEMMA CommandRead ==
  ASSUME ArgumentsInv, ReadCommand, argv[arg] \in Commands
  PROVE  ArgumentsInv'
  <1> DEFINE key == line[arg]
             value == IF GivenValue(line, arg) THEN line[arg + 1] ELSE Absent
             next == IF GivenValue(line, arg) THEN arg + 2 ELSE arg + 1
             n == Begun(line, arg) + 1
  <1>1. /\ reading = "commands" /\ arg <= Len(argv)
        /\ fdata' = ParseCommand(fdata, argv[arg], ValueAt(arg)) /\ argv' = Clear(arg)
        /\ arg' = After(arg) /\ reading' = IF fdata'.end = "none" THEN "commands" ELSE "over"
        /\ world' = world /\ line' = line
    BY DEF ReadCommand, Goes
  <1>2. Placed /\ ReadingCommands
    BY DEF ArgumentsInv
  <1>3. /\ IsLine(line) /\ arg \in 1..Len(line) /\ Boundary(line, arg) /\ argv[arg] = key
        /\ CommandsRead(fdata, Begun(line, arg))
        /\ \A j \in 1..Len(line) :
             argv[j] = IF j < arg /\ Clears(line, j) THEN Empty ELSE line[j]
        /\ ValueAt(arg) = value /\ After(arg) = next
    BY <1>1, <1>2, AtCommands, Zenon
  <1>4. key \in Commands /\ key # Empty
    BY <1>3, NotEmpty
  <1>5. /\ Begun(line, arg) \in Nat /\ n \in 1..Len(Pairs)
        /\ Pairs[n][1] = key /\ Pairs[n][2] = value
        /\ Begun(line, arg + 1) = n
        /\ GivenValue(line, arg) => /\ arg + 1 \in 1..Len(line) /\ ~Boundary(line, arg + 1)
                                    /\ Boundary(line, arg + 2) /\ Begun(line, arg + 2) = n
        /\ ~GivenValue(line, arg) => Boundary(line, arg + 1)
    BY <1>3, <1>4, PairHere
  <1> HIDE DEF n, value, key
  <1>6. Boundary(line, next) /\ Begun(line, next) = n
    BY <1>5
  <1>7. ValueOf(n) = value
    BY <1>4, <1>5, Zenon DEF ValueOf, Fused
  <1>8. This(Begun(line, arg), n, key, value)
    BY <1>5, <1>7 DEF This, n
  <1>9. fdata' = ParseCommand(fdata, key, value)
    BY <1>1, <1>3, Zenon
  <1>10. Absent \notin DOMAIN world.files
    BY <1>2 DEF Placed
  <1>11. IF fdata'.end = "none" THEN CommandsRead(fdata', n) ELSE ~Acceptable
    BY <1>3, <1>4, <1>8, <1>9, <1>10, CommandStep
  <1>12. Placed'
    BY <1>1, <1>2, ClearIs, PlacedNext
  <1>13. \A j \in 1..Len(line) :
           argv'[j] = IF j < next /\ Clears(line, j) THEN Empty ELSE line[j]
    <2> SUFFICES ASSUME NEW j \in 1..Len(line)
                 PROVE  argv'[j] = IF j < next /\ Clears(line, j) THEN Empty ELSE line[j]
      OBVIOUS
    <2>1. argv'[j] = IF j \in arg..next - 1 THEN Empty ELSE argv[j]
      BY <1>1, <1>2, <1>3, ClearIs
    <2>2. j < next <=> j < arg \/ j \in arg..next - 1
      BY <1>3
    <2>3. j < arg => j \notin arg..next - 1
      BY <1>3
    <2>4. j \in arg..next - 1 => Clears(line, j)
      <3>1. Clears(line, arg)
        BY <1>3, <1>4 DEF Clears, key
      <3>2. GivenValue(line, arg) => Clears(line, arg + 1)
        <4>1. (arg + 1) - 1 = arg
          BY <1>3
        <4> QED BY <1>4, <1>5, <4>1 DEF Clears, key
      <3>3. j \in arg..next - 1 => j = arg \/ (GivenValue(line, arg) /\ j = arg + 1)
        BY <1>3
      <3> QED BY <3>1, <3>2, <3>3
    <2>5. argv[j] = IF j < arg /\ Clears(line, j) THEN Empty ELSE line[j]
      BY <1>3
    <2> QED BY <2>1, <2>2, <2>3, <2>4, <2>5, Zenon
  <1>14. ReadingCommands'
    <2>1. ASSUME reading' = "commands"
          PROVE  /\ Boundary(line, arg') /\ CommandsRead(fdata', Begun(line, arg'))
                 /\ \A j \in 1..Len(line) :
                      argv'[j] = IF j < arg' /\ Clears(line, j) THEN Empty ELSE line[j]
      <3>1. fdata'.end = "none"
        BY <1>1, <2>1
      <3>2. arg' = next
        BY <1>1, <1>3
      <3>3. CommandsRead(fdata', n)
        BY <1>11, <3>1
      <3> HIDE DEF next
      <3> QED BY <1>6, <1>13, <3>2, <3>3
    <2> QED BY <1>1, <2>1, CommandsNext
  <1>15. reading' \in {"commands", "over"} /\ (reading' = "over" => ~Acceptable)
    BY <1>1, <1>11
  <1>16. ReadingOptions'
    BY <1>1, <1>15, OptionsNext
  <1>17. ArgumentsRight'
    BY <1>1, <1>15, RightNext
  <1> QED BY <1>12, <1>14, <1>16, <1>17 DEF ArgumentsInv

(* An option is left for the second reading.                                *)
LEMMA OptionPassed ==
  ASSUME ArgumentsInv, ReadCommand, argv[arg] \notin Commands
  PROVE  ArgumentsInv'
  <1> DEFINE key == line[arg]
             next == IF GivenValue(line, arg) THEN arg + 2 ELSE arg + 1
             n == Begun(line, arg) + 1
  <1>1. /\ reading = "commands" /\ arg <= Len(argv) /\ Dashed(argv[arg])
        /\ fdata' = fdata /\ argv' = argv
        /\ arg' = After(arg) /\ reading' = IF fdata'.end = "none" THEN "commands" ELSE "over"
        /\ world' = world /\ line' = line
    BY DEF ReadCommand, Goes
  <1>2. Placed /\ ReadingCommands
    BY DEF ArgumentsInv
  <1>3. /\ IsLine(line) /\ arg \in 1..Len(line) /\ Boundary(line, arg) /\ argv[arg] = key
        /\ CommandsRead(fdata, Begun(line, arg))
        /\ \A j \in 1..Len(line) :
             argv[j] = IF j < arg /\ Clears(line, j) THEN Empty ELSE line[j]
        /\ After(arg) = next
    BY <1>1, <1>2, AtCommands, Zenon
  <1>4. key \notin Commands /\ key # Empty
    BY <1>1, <1>3, NotEmpty
  <1>5. /\ Begun(line, arg) \in Nat /\ n \in 1..Len(Pairs) /\ Pairs[n][1] = key
        /\ Begun(line, arg + 1) = n
        /\ GivenValue(line, arg) => /\ arg + 1 \in 1..Len(line) /\ ~Boundary(line, arg + 1)
                                    /\ Boundary(line, arg + 2) /\ Begun(line, arg + 2) = n
        /\ ~GivenValue(line, arg) => Boundary(line, arg + 1)
    BY <1>3, <1>4, PairHere
  <1> HIDE DEF n, key
  <1>6. Boundary(line, next) /\ Begun(line, next) = n
    BY <1>5
  <1>7. This(Begun(line, arg), n, key, ValueOf(n))
    BY <1>5 DEF This, n
  <1>8. CommandsRead(fdata, n)
    BY <1>3, <1>4, <1>7, OptionWaits
  <1>9. \A j \in 1..Len(line) :
          argv'[j] = IF j < next /\ Clears(line, j) THEN Empty ELSE line[j]
    <2> SUFFICES ASSUME NEW j \in 1..Len(line)
                 PROVE  argv'[j] = IF j < next /\ Clears(line, j) THEN Empty ELSE line[j]
      OBVIOUS
    <2>1. j < next <=> j < arg \/ j \in arg..next - 1
      BY <1>3
    <2>2. j \in arg..next - 1 => ~Clears(line, j)
      <3>1. ~Clears(line, arg)
        BY <1>3, <1>4 DEF Clears, key
      <3>2. GivenValue(line, arg) => ~Clears(line, arg + 1)
        <4>1. (arg + 1) - 1 = arg
          BY <1>3
        <4> QED BY <1>4, <1>5, <4>1 DEF Clears, key
      <3>3. j \in arg..next - 1 => j = arg \/ (GivenValue(line, arg) /\ j = arg + 1)
        BY <1>3
      <3> QED BY <3>1, <3>2, <3>3
    <2>3. argv'[j] = IF j < arg /\ Clears(line, j) THEN Empty ELSE line[j]
      BY <1>1, <1>3
    <2> QED BY <2>1, <2>2, <2>3, Zenon
  <1>10. reading' = "commands" /\ arg' = next
    BY <1>1, <1>3 DEF CommandsRead, Going
  <1> HIDE DEF next
  <1>11. Placed' /\ ReadingOptions' /\ ArgumentsRight'
    BY <1>1, <1>2, <1>10, PlacedNext, OptionsNext, RightNext
  <1>12. ReadingCommands'
    BY <1>1, <1>6, <1>8, <1>9, <1>10, CommandsNext
  <1> QED BY <1>11, <1>12 DEF ArgumentsInv

(* At the end of a reading every pair has been read.                        *)
LEMMA AllRead ==
  ASSUME Placed, arg \in 1..(Len(line) + 1), arg > Len(argv)
  PROVE  IsLine(line) /\ arg = Len(line) + 1 /\ Begun(line, arg) = Len(Pairs)
  <1>1. IsLine(line) /\ Len(argv) = Len(line)
    BY DEF Placed
  <1>2. Len(line) \in Nat
    BY <1>1, LenIs
  <1>3. arg = Len(line) + 1
    BY <1>1, <1>2
  <1> QED BY <1>1, <1>3, BegunAtEnds, PairsAre

(* Between the readings every command has been read, and the config is      *)
(* loaded.                                                                  *)
LEMMA ConfigLoaded ==
  ASSUME ArgumentsInv, LoadConfig
  PROVE  ArgumentsInv'
  <1>1. /\ reading = "commands" /\ arg > Len(argv)
        /\ fdata' = IF fdata.dynamicInterval # 0 /\ fdata.docType # "none"
                    THEN Exit(fdata, "interval and document")
                    ELSE ParseConfigFiles(fdata)
        /\ arg' = 1 /\ reading' = IF fdata'.end = "none" THEN "options" ELSE "over"
        /\ world' = world /\ line' = line /\ argv' = argv
    BY DEF LoadConfig, Goes
  <1>2. Placed /\ ReadingCommands
    BY DEF ArgumentsInv
  <1>3. /\ Boundary(line, arg) /\ CommandsRead(fdata, Begun(line, arg))
        /\ \A j \in 1..Len(line) :
             argv[j] = IF j < arg /\ Clears(line, j) THEN Empty ELSE line[j]
    BY <1>1, <1>2 DEF ReadingCommands
  <1>4. IsLine(line) /\ arg = Len(line) + 1 /\ Begun(line, arg) = Len(Pairs)
    BY <1>1, <1>2, <1>3, AllRead DEF Boundary
  <1>5. Absent \notin DOMAIN world.files
    BY <1>2 DEF Placed
  <1>6. IF fdata'.end = "none"
        THEN Settled(fdata') /\ OptionsRead(fdata', 0) /\ OptionsFit(0) ELSE ~Acceptable
    BY <1>1, <1>3, <1>4, <1>5, LoadConfigStep
  <1>7. Placed'
    BY <1>1, <1>2, PlacedNext
  <1>8. \A j \in 1..Len(line) : argv'[j] = IF Clears(line, j) THEN Empty ELSE line[j]
    <2>1. \A j \in 1..Len(line) : j < arg
      BY <1>4, LenIs
    <2> QED BY <1>1, <1>3, <2>1, Zenon
  <1>9. Boundary(line, 1) /\ Begun(line, 1) = 0 /\ 1 \in 1..(Len(line) + 1)
    BY <1>4, BegunAtEnds, LenIs
  <1>10. ReadingOptions'
    <2>1. ASSUME reading' = "options"
          PROVE  /\ arg' \in 1..(Len(line) + 1) /\ (Boundary(line, arg') \/ Clears(line, arg'))
                 /\ Settled(fdata') /\ OptionsRead(fdata', Begun(line, arg'))
                 /\ OptionsFit(Begun(line, arg'))
                 /\ \A j \in 1..Len(line) : argv'[j] = IF Clears(line, j) THEN Empty ELSE line[j]
      <3>1. fdata'.end = "none"
        BY <1>1, <2>1
      <3> QED BY <1>1, <1>6, <1>8, <1>9, <3>1
    <2> QED BY <1>1, <2>1, OptionsNext
  <1>11. reading' \in {"options", "over"} /\ (reading' = "over" => ~Acceptable)
    BY <1>1, <1>6
  <1>12. ReadingCommands' /\ ArgumentsRight'
    BY <1>1, <1>11, CommandsNext, RightNext
  <1> QED BY <1>7, <1>10, <1>12 DEF ArgumentsInv

(* When all options are read the line is acceptable and means what was      *)
(* read.                                                                    *)
LEMMA AllIsReady ==
  ASSUME ArgumentsInv, Ready
  PROVE  ArgumentsInv'
  <1>1. /\ reading = "options" /\ arg > Len(argv) /\ reading' = "ready"
        /\ world' = world /\ line' = line /\ argv' = argv /\ arg' = arg /\ fdata' = fdata
    BY DEF Ready
  <1>2. Placed /\ ReadingOptions
    BY DEF ArgumentsInv
  <1>3. /\ arg \in 1..(Len(line) + 1)
        /\ Settled(fdata) /\ OptionsRead(fdata, Begun(line, arg)) /\ OptionsFit(Begun(line, arg))
    BY <1>1, <1>2 DEF ReadingOptions
  <1>4. IsLine(line) /\ Begun(line, arg) = Len(Pairs)
    BY <1>1, <1>2, <1>3, AllRead
  <1>5. Meant(fdata)
    BY <1>3, <1>4, ReadingEnds
  <1>6. Placed' /\ ReadingCommands' /\ ReadingOptions' /\ ArgumentsRight'
    BY <1>1, <1>2, <1>5, PlacedNext, CommandsNext, OptionsNext, RightNext
  <1> QED BY <1>6 DEF ArgumentsInv

(* What the second reading finds behind an option: its value, nothing, or   *)
(* what is left of a command, which then is the value.                      *)
LEMMA BehindOption ==
  ASSUME Placed, ReadingOptions, reading = "options", arg <= Len(argv), argv[arg] # Empty,
         NEW n, n = Begun(line, arg) + 1
  PROVE  \/ /\ ValueAt(arg) = ValueOf(n) /\ Boundary(line, After(arg))
            /\ Begun(line, After(arg)) = n
         \/ /\ ValueAt(arg) = ValueOf(n) /\ arg + 1 \in 1..Len(line)
            /\ Boundary(line, arg + 1) /\ line[arg + 1] \in Commands
            /\ Begun(line, arg + 1) = n /\ After(arg) = arg + 2
  <1>1. /\ IsLine(line) /\ arg \in 1..Len(line) /\ Boundary(line, arg) /\ argv[arg] = line[arg]
        /\ line[arg] \notin Commands
        /\ \A j \in 1..Len(line) : argv[j] = IF Clears(line, j) THEN Empty ELSE line[j]
    BY AtOptions
  <1>2. /\ n \in 1..Len(Pairs) /\ n \in DOMAIN Pairs
        /\ Pairs[n][1] = line[arg]
        /\ Pairs[n][2] = IF GivenValue(line, arg) THEN line[arg + 1] ELSE Absent
        /\ Begun(line, arg + 1) = n
        /\ GivenValue(line, arg) => /\ arg + 1 \in 1..Len(line) /\ ~Boundary(line, arg + 1)
                                    /\ Boundary(line, arg + 2) /\ Begun(line, arg + 2) = n
        /\ ~GivenValue(line, arg) => Boundary(line, arg + 1)
    BY <1>1, PairHere
  <1>3. Len(line) \in Nat /\ Len(argv) = Len(line) /\ (arg + 1) - 1 = arg
    BY <1>1, LenIs DEF Placed
  <1>4. CASE GivenValue(line, arg)
    <2>1. ~Clears(line, arg + 1) /\ argv[arg + 1] = line[arg + 1]
      BY <1>1, <1>2, <1>3, <1>4 DEF Clears
    <2>2. HasValue(arg)
      BY <1>1, <1>3, <1>4, <2>1, Zenon DEF HasValue, GivenValue
    <2>3. ValueAt(arg) = line[arg + 1] /\ After(arg) = arg + 2
      BY <2>1, <2>2, Zenon DEF ValueAt, After
    <2>4. line[arg + 1] # Absent
      BY <1>1, <1>2, <1>4, LineIs
    <2>5. ValueOf(n) = line[arg + 1]
      BY <1>2, <1>4, <2>4, Zenon DEF ValueOf, Fused
    <2> QED BY <1>2, <1>4, <2>3, <2>5
  <1>5. CASE arg = Len(line)
    <2>1. ~GivenValue(line, arg) /\ ~HasValue(arg)
      BY <1>3, <1>5 DEF GivenValue, HasValue
    <2>2. ValueAt(arg) = Absent /\ After(arg) = arg + 1
      BY <2>1, Zenon DEF ValueAt, After
    <2>3. n = Len(Pairs)
      BY <1>1, <1>2, <1>5, BegunAtEnds, PairsAre
    <2>4. ~(n < Len(Pairs))
      BY <1>1, <2>3, PairsAre
    <2>5. ValueOf(n) = Absent
      BY <1>2, <2>1, <2>4, Zenon DEF ValueOf, Fused
    <2> QED BY <1>2, <2>1, <2>2, <2>5
  <1>6. CASE ~GivenValue(line, arg) /\ arg # Len(line)
    <2> DEFINE k == arg + 1
    <2>1. k \in 1..Len(line) /\ arg < Len(line) /\ k + 1 = arg + 2
      BY <1>1, <1>3, <1>6
    <2>2. IsKey(line[k]) /\ line[arg] # "--separator-string" /\ Boundary(line, k)
      BY <1>1, <1>2, <1>6, <2>1, KeyWithoutValue
    <2> HIDE DEF k
    <2>3. line[k] # Empty
      BY <2>2, NotEmpty
    <2>4. n + 1 \in 1..Len(Pairs) /\ Pairs[n + 1][1] = line[k] /\ n < Len(Pairs)
      <3>1. n + 1 \in 1..Len(Pairs) /\ Pairs[n + 1][1] = line[k]
        BY <1>1, <1>2, <2>1, <2>2, <2>3, PairHere DEF k
      <3> QED BY <1>1, <1>2, <3>1, PairsAre
    <2>5. Clears(line, k) <=> line[k] \in Commands
      BY <2>2 DEF Clears
    <2>6. Pairs[n][2] = Absent /\ Pairs[n][1] \notin Commands
      BY <1>1, <1>2, <1>6
    <2>7. CASE line[k] \in Commands
      <3>1. argv[k] = Empty
        BY <1>1, <2>1, <2>5, <2>7
      <3>2. HasValue(arg)
        BY <1>3, <2>1, <3>1, NotEmpty DEF HasValue, k
      <3>3. ValueAt(arg) = Empty /\ After(arg) = arg + 2
        BY <3>1, <3>2, Zenon DEF ValueAt, After, k
      <3>4. Fused(n)
        BY <2>4, <2>6, <2>7, Zenon DEF Fused
      <3>5. ValueOf(n) = Empty
        BY <3>4, Zenon DEF ValueOf
      <3> QED BY <1>2, <2>1, <2>2, <2>7, <3>3, <3>5 DEF k
    <2>8. CASE line[k] \notin Commands
      <3>1. argv[k] = line[k]
        BY <1>1, <2>1, <2>5, <2>8
      <3>2. ~HasValue(arg)
        BY <1>1, <2>2, <3>1, Zenon DEF HasValue, k
      <3>3. ValueAt(arg) = Absent /\ After(arg) = arg + 1
        BY <3>2, Zenon DEF ValueAt, After
      <3>4. ValueOf(n) = Absent
        BY <2>4, <2>6, <2>8, Zenon DEF ValueOf, Fused
      <3> QED BY <1>2, <2>2, <3>3, <3>4 DEF k
    <2> QED BY <2>7, <2>8
  <1> QED BY <1>4, <1>5, <1>6

(* An option is set to the value it was given, or nothing is acceptable.    *)
LEMMA OptionSet ==
  ASSUME ArgumentsInv, ReadOption
  PROVE  ArgumentsInv'
  <1> DEFINE key == line[arg]
             m == Begun(line, arg)
             n == m + 1
  <1>1. /\ reading = "options" /\ arg <= Len(argv) /\ Dashed(argv[arg])
        /\ fdata' = ParseOption(fdata, argv[arg], ValueAt(arg))
        /\ arg' = After(arg) /\ reading' = IF fdata'.end = "none" THEN "options" ELSE "over"
        /\ world' = world /\ line' = line /\ argv' = argv
    BY DEF ReadOption, Goes
  <1>2. Placed /\ ReadingOptions
    BY DEF ArgumentsInv
  <1>3. argv[arg] # Empty
    BY <1>1, NotEmpty
  <1>4. /\ IsLine(line) /\ arg \in 1..Len(line) /\ Boundary(line, arg) /\ argv[arg] = key
        /\ key \notin Commands /\ key # Empty
        /\ Settled(fdata) /\ OptionsRead(fdata, m) /\ OptionsFit(m)
        /\ \A j \in 1..Len(line) : argv[j] = IF Clears(line, j) THEN Empty ELSE line[j]
    BY <1>1, <1>2, <1>3, AtOptions
  <1>5. m \in Nat /\ n \in 1..Len(Pairs) /\ Pairs[n][1] = key
    BY <1>4, PairHere
  <1>6. \/ /\ ValueAt(arg) = ValueOf(n) /\ Boundary(line, After(arg))
           /\ Begun(line, After(arg)) = n
        \/ /\ ValueAt(arg) = ValueOf(n) /\ arg + 1 \in 1..Len(line)
           /\ Boundary(line, arg + 1) /\ line[arg + 1] \in Commands
           /\ Begun(line, arg + 1) = n /\ After(arg) = arg + 2
    BY <1>1, <1>2, <1>3, BehindOption
  <1>7. This(m, n, key, ValueOf(n))
    BY <1>5 DEF This
  <1> HIDE DEF m, n, key
  <1>8. fdata' = ParseOption(fdata, key, ValueOf(n))
    BY <1>1, <1>4, <1>6, Zenon
  <1>9. IF fdata'.end = "none" THEN Settled(fdata') /\ OptionsRead(fdata', n) /\ OptionsFit(n)
        ELSE ~Acceptable
    BY <1>4, <1>7, <1>8, OptionStep
  <1>10. ASSUME fdata'.end = "none"
         PROVE  /\ arg' \in 1..(Len(line) + 1) /\ (Boundary(line, arg') \/ Clears(line, arg'))
                /\ OptionsRead(fdata', Begun(line, arg')) /\ OptionsFit(Begun(line, arg'))
    <2>1. CASE Boundary(line, After(arg)) /\ Begun(line, After(arg)) = n
      BY <1>1, <1>9, <1>10, <2>1 DEF Boundary
    <2>2. CASE /\ arg + 1 \in 1..Len(line)
               /\ Boundary(line, arg + 1) /\ line[arg + 1] \in Commands
               /\ Begun(line, arg + 1) = n /\ After(arg) = arg + 2
      <3> DEFINE k == arg + 1
      <3>1. /\ k \in 1..Len(line) /\ Boundary(line, k) /\ line[k] \in Commands
            /\ Begun(line, k) = n /\ arg' = k + 1 /\ k + 1 \in 1..(Len(line) + 1) /\ (k + 1) - 1 = k
        BY <1>1, <1>4, <2>2, LenIs
      <3> HIDE DEF k
      <3>2. line[k] # Empty
        BY <3>1, NotEmpty
      <3>3. /\ n \in Nat /\ n + 1 \in 1..Len(Pairs) /\ Pairs[n + 1][1] = line[k]
            /\ Begun(line, k + 1) = n + 1
        BY <1>4, <3>1, <3>2, PairHere
      <3>4. This(n, n + 1, line[k], ValueOf(n + 1))
        BY <3>3 DEF This
      <3>5. OptionsRead(fdata', n + 1) /\ OptionsFit(n + 1)
        BY <1>4, <1>9, <1>10, <3>1, <3>4, CommandWaits
      <3>6. Boundary(line, k + 1) \/ Clears(line, k + 1)
        BY <3>1 DEF Clears
      <3> QED BY <3>1, <3>3, <3>5, <3>6
    <2> QED BY <1>6, <2>1, <2>2
  <1>11. ReadingOptions'
    <2>1. ASSUME reading' = "options"
          PROVE  /\ arg' \in 1..(Len(line) + 1) /\ (Boundary(line, arg') \/ Clears(line, arg'))
                 /\ Settled(fdata') /\ OptionsRead(fdata', Begun(line, arg'))
                 /\ OptionsFit(Begun(line, arg'))
                 /\ \A j \in 1..Len(line) : argv'[j] = IF Clears(line, j) THEN Empty ELSE line[j]
      <3>1. fdata'.end = "none"
        BY <1>1, <2>1
      <3> QED BY <1>1, <1>4, <1>9, <1>10, <3>1
    <2> QED BY <1>1, <2>1, OptionsNext
  <1>12. reading' \in {"options", "over"} /\ (reading' = "over" => ~Acceptable)
    BY <1>1, <1>9
  <1>13. Placed' /\ ReadingCommands' /\ ArgumentsRight'
    BY <1>1, <1>2, <1>12, PlacedNext, CommandsNext, RightNext
  <1> QED BY <1>11, <1>13 DEF ArgumentsInv

(* None of the pairs is one of the first 0.                                 *)
LEMMA BeforeTheFirst ==
  ASSUME NEW S \in SUBSET Nat, NEW N \in Nat, S \subseteq 1..N
  PROVE  NoneOf(S, 0) /\ AtMostOne(S, 0)
  <1>1. \A n \in S : n > 0 /\ ~(n <= 0)
    OBVIOUS
  <1> QED BY <1>1, Zenon DEF NoneOf, AtMostOne

(* At the start nothing has been read.                                      *)
LEMMA CommandsUnread ==
  ASSUME IsLine(line), fdata = InitFdata
  PROVE  CommandsRead(fdata, 0)
  <1>1. /\ Len(Pairs) \in Nat /\ \A k : Given(k) \in SUBSET Nat /\ Given(k) \subseteq 1..Len(Pairs)
        /\ Documents \in SUBSET Nat /\ Documents \subseteq 1..Len(Pairs)
    BY PairsAre
  <1>2. /\ \A k : NoneOf(Given(k), 0) /\ AtMostOne(Given(k), 0)
        /\ NoneOf(Documents, 0) /\ AtMostOne(Documents, 0)
    BY <1>1, BeforeTheFirst
  <1>3. NoneOf(Asked, 0)
    BY <1>2, Zenon DEF Asked, NoneOf
  <1>4. /\ Going(fdata) /\ fdata.configLoaded = FALSE /\ fdata.configDoc = Absent
        /\ fdata.docType = "none" /\ fdata.genConfig = FALSE /\ fdata.dynamicInterval = 0
        /\ fdata.options = [key \in DOMAIN OptionKind |-> Absent]
    BY DEF InitFdata, Going, Fields
  <1>5. CommandsFit(0)
    <2>1. ASSUME NEW n \in 1..0 PROVE FALSE
      BY <2>1
    <2> QED BY <2>1, Zenon DEF CommandsFit
  <1>6. ConfigRead(fdata, 0)
    BY <1>2, <1>4, Zenon DEF ConfigRead, Loads
  <1>7. DocumentRead(fdata, 0)
    BY <1>2, <1>4, Zenon DEF DocumentRead
  <1>8. GenRead(fdata, 0)
    BY <1>2, <1>4 DEF GenRead
  <1>9. IntervalRead(fdata, 0)
    BY <1>3, <1>4, Zenon DEF IntervalRead
  <1>10. OptionsFrom(fdata)
    <2>1. \A key : FromConfig(Absent, key) = Absent
      BY Zenon DEF FromConfig
    <2> QED BY <1>4, <2>1 DEF OptionsFrom
  <1> QED BY <1>4, <1>5, <1>6, <1>7, <1>8, <1>9, <1>10 DEF CommandsRead

(* The invariant holds when the program starts ...                          *)
LEMMA InitArgumentsInv == Init => ArgumentsInv
  <1> SUFFICES ASSUME NEW s \in Starts, InitArguments(s.line, Around(s)) PROVE ArgumentsInv
    BY DEF Init
  <1>1. /\ line = s.line /\ argv = s.line /\ arg = 1 /\ reading = "commands" /\ fdata = InitFdata
        /\ world = Around(s)
    BY DEF InitArguments
  <1>2. s.line \in Seq(STRING) /\ Absent \notin {s.line[i] : i \in DOMAIN s.line}
        /\ Absent \notin DOMAIN s.world.files
    BY StartsAssumption, Zenon
  <1>3. IsLine(line)
    BY <1>1, <1>2, Zenon DEF IsLine
  <1>4. world.files = s.world.files
    BY <1>1 DEF Around
  <1>5. Placed
    BY <1>1, <1>2, <1>3, <1>4 DEF Placed
  <1>6. Boundary(line, 1) /\ Begun(line, 1) = 0
    BY <1>3, BegunAtEnds
  <1>7. CommandsRead(fdata, 0)
    BY <1>1, <1>3, CommandsUnread
  <1>8. \A j \in 1..Len(line) : ~(j < 1)
    BY <1>3, LenIs
  <1>9. ReadingCommands
    BY <1>1, <1>6, <1>7, <1>8, Zenon DEF ReadingCommands
  <1>10. ReadingOptions /\ ArgumentsRight
    BY <1>1 DEF ReadingOptions, ArgumentsRight
  <1> QED BY <1>5, <1>9, <1>10 DEF ArgumentsInv

(* main() takes over from the arguments.                                    *)
LEMMA MainIsDone ==
  ASSUME ArgumentsInv, Main
  PROVE  ArgumentsInv'
  <1>1. /\ reading' = "done" /\ world' = world /\ line' = line /\ argv' = argv
    BY DEF Main
  <1>2. Placed
    BY DEF ArgumentsInv
  <1>3. Placed' /\ ReadingCommands' /\ ReadingOptions' /\ ArgumentsRight'
    BY <1>1, <1>2, PlacedNext, CommandsNext, OptionsNext, RightNext
  <1> QED BY <1>3 DEF ArgumentsInv

(* ... and every step keeps it.                                             *)
LEMMA NextArgumentsInv == ArgumentsInv /\ [Next]_vars => ArgumentsInv'
  <1> SUFFICES ASSUME ArgumentsInv, [Next]_vars PROVE ArgumentsInv'
    OBVIOUS
  <1>1. CASE SkipHandled
    BY <1>1, SkipStep
  <1>2. CASE NotAnOption
    BY <1>2, NotAnOptionStep
  <1>3. CASE ReadCommand
    BY <1>3, CommandRead, OptionPassed
  <1>4. CASE LoadConfig
    BY <1>4, ConfigLoaded
  <1>5. CASE ReadOption
    BY <1>5, OptionSet
  <1>6. CASE Ready
    BY <1>6, AllIsReady
  <1>7. CASE Main
    BY <1>7, MainIsDone
  <1>8. CASE UNCHANGED argVars
    BY <1>8, ArgumentsRest
  <1>9. WriteConfigFile \/ NextRun \/ UNCHANGED vars => UNCHANGED argVars
    BY DEF WriteConfigFile, NextRun, vars
  <1> QED
    BY <1>1, <1>2, <1>3, <1>4, <1>5, <1>6, <1>7, <1>8, <1>9 DEF Next, ParseArguments

(* Reading the arguments twice, with commands cleared in between and a      *)
(* config read, leaves the options that reading them once means; a config   *)
(* is generated if the last --gen-config has a path, and not with an empty  *)
(* one (fastfetch.c:737, :929).                                             *)
THEOREM ArgumentsAreRight == Spec => []ArgumentsRight
  <1>1. ArgumentsInv => ArgumentsRight
    BY DEF ArgumentsInv
  <1> QED BY <1>1, InitArgumentsInv, NextArgumentsInv, PTL DEF Spec
=============================================================================
