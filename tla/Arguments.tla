------------------------------- MODULE Arguments -------------------------------
(* The command line (main() in fastfetch.c): it is read twice by the same   *)
(* loop, first for the commands, which say what the program does and which  *)
(* config it loads, and then for the options, which come after the config.  *)
(* What the first reading has used it clears, in place.                     *)
EXTENDS Integers, Sequences, FiniteSets, FiniteSetsExt

CONSTANTS OptionKind,  \* the options, with what their values are
          NumberOf,    \* the arguments that are numbers; the empty one is 0
          Absent       \* no value, no config

VARIABLES world,       \* the terminal, the environment, and the configs that there are
          line,        \* the arguments as the user gave them
          argv, arg,   \* as they are left, and the one that is read next
          reading,     \* "commands", "options", "ready", and "done" when main() goes on;
                       \* or "over"
          fdata        \* FFdata, instance.config and dynamicInterval

argVars == <<world, line, argv, arg, reading, fdata>>

Prints == {"-h", "-v", "--print-structure", "--list-modules"}
Commands ==
  Prints \cup {"--gen-config", "-c", "-j", "--format", "--dynamic-interval", "-w"}

(* What is left of an argument that a command was made of.                  *)
Empty == ""

ASSUME ArgumentsAssumption ==
  /\ NumberOf \in [DOMAIN NumberOf -> Int] /\ (Empty \in DOMAIN NumberOf => NumberOf[Empty] >= 0)
  /\ DOMAIN OptionKind \cap (Commands \cup {Empty}) = {}
  /\ Absent # <<"stdin", "-">>

(* An option begins with "-". "-" itself and negative numbers are values    *)
(* where one can stand, and options that nobody knows where none can.       *)
IsKey(a) == a \in Commands \cup DOMAIN OptionKind
IsNegativeNumber(a) == a \in DOMAIN NumberOf /\ NumberOf[a] < 0
Dashed(a) == IsKey(a) \/ a = "-" \/ IsNegativeNumber(a)

Exit(d, why) == [d EXCEPT !.end = why]
-----------------------------------------------------------------------------
(* option.c: what a value may be, and what is made of it.                   *)
Readable(kind, value) ==
  CASE kind = "text"   -> value # Absent
    [] kind = "number" -> value \in DOMAIN NumberOf /\ NumberOf[value] >= 0
    [] kind = "signed" -> value \in DOMAIN NumberOf
    [] kind = "flag"   -> TRUE
    [] kind = "format" -> value \in {"default", "json"}
    [] OTHER           -> FALSE      \* of a module (commandoption.c:13), or unknown

IsTrue(value) == value \in {Absent, Empty, "true", "yes", "on", "1"}

Understood(kind, value) ==
  CASE kind \in {"number", "signed"} -> NumberOf[value]
    [] kind = "flag" -> IsTrue(value)
    [] OTHER -> value
-----------------------------------------------------------------------------
(* parseJsoncFile: a config that opens but does not parse ends the program. *)
ParseJsoncFile(d, path) ==
  IF path \notin DOMAIN world.files \/ world.files[path].broken THEN Exit(d, "bad config")
  ELSE [d EXCEPT !.configDoc = path,
                 !.options = [key \in DOMAIN OptionKind |->
                                IF key \in DOMAIN world.files[path].sets
                                THEN world.files[path].sets[key] ELSE d.options[key]]]

(* The first of the paths that opens, if one does.                          *)
First(paths) ==
  LET there == {i \in DOMAIN paths : paths[i] \in DOMAIN world.files}
  IN IF there = {} THEN Absent ELSE paths[Min(there)]

Places(name) ==
  << <<"here", name>> >>
  \o [i \in DOMAIN world.configDirs |-> <<world.configDirs[i], name>>]
  \o << <<"presets", name>>, <<"program", name>>, <<"program/presets", name>> >>

Defaults ==
  [i \in 1..2 * Len(world.configDirs) |->
     <<world.configDirs[(i + 1) \div 2],
       IF i % 2 = 1 THEN "config.jsonc" ELSE "config.json5">>]

OptionParseConfigFile(d, name) ==
  LET loaded == [d EXCEPT !.configLoaded = TRUE]
      found == First(Places(name))
  IN IF d.configLoaded \/ name = Absent THEN Exit(d, "usage")
     ELSE IF name \in {Empty, "none"} THEN loaded
     ELSE IF name = "-" THEN ParseJsoncFile(loaded, <<"stdin", "-">>)
     ELSE IF found = Absent THEN Exit(d, "no such config")
     ELSE ParseJsoncFile(loaded, found)

(* parseConfigFiles: not for a config that is to be generated.              *)
ParseConfigFiles(d) ==
  IF d.configLoaded \/ world.noConfig \/ d.genConfig \/ First(Defaults) = Absent THEN d
  ELSE ParseJsoncFile(d, First(Defaults))
-----------------------------------------------------------------------------
EnableJsonOutput(d) ==
  IF d.docType # "none" THEN Exit(d, "duplicated") ELSE [d EXCEPT !.docType = "json"]

(* genConfig says that genConfigPath is not empty: the program goes by that *)
(* (fastfetch.c:737, :929), so `--gen-config ""` generates nothing, and no  *)
(* file has that path. Without a terminal nobody can be asked: the config   *)
(* is written when the arguments are read.                                  *)
GenerateConfigFile(d, path) ==
  IF d.docType # "none" THEN Exit(d, "duplicated")
  ELSE IF path = Absent /\ world.configDirs = <<>> THEN Exit(d, "no directory")
  ELSE IF world.exists /\ path # Empty THEN Exit(d, "exists")
  ELSE [d EXCEPT !.docType = "config", !.genConfig = (path # Empty)]

GenConfigCommon(d, path) ==
  IF ~world.terminal THEN GenerateConfigFile(d, path)
  ELSE IF path = Absent /\ world.configDirs = <<>> THEN Exit(d, "no directory")
  ELSE [d EXCEPT !.interactive = TRUE, !.genConfig = (path # Empty)]

(* parseCommand; an interval in milliseconds.                               *)
ParseCommand(d, key, value) ==
  CASE key \in Prints -> Exit(d, "printed")
    [] key = "--gen-config" -> GenConfigCommon(d, value)
    [] key = "-c" -> OptionParseConfigFile(d, value)
    [] key = "-j" -> IF IsTrue(value) THEN EnableJsonOutput(d) ELSE d
    [] key = "--format" ->
         IF ~Readable("format", value) THEN Exit(d, "usage")
         ELSE IF value = "json" THEN EnableJsonOutput(d) ELSE d
    [] key = "-w" /\ value = Absent -> [d EXCEPT !.dynamicInterval = 1000]
    [] OTHER ->
         IF ~Readable("number", value) THEN Exit(d, "usage")
         ELSE [d EXCEPT !.dynamicInterval = NumberOf[value] * IF key = "-w" THEN 1000 ELSE 1]

(* parseOption                                                              *)
ParseOption(d, key, value) ==
  IF IsKey(key) /\ Readable(OptionKind[key], value)
  THEN [d EXCEPT !.options[key] = Understood(OptionKind[key], value)]
  ELSE Exit(d, "usage")
-----------------------------------------------------------------------------
(* parseArguments: the value of an option is the argument behind it, unless *)
(* that is an option.                                                       *)
HasValue(i) ==
  i < Len(argv) /\ (~IsKey(argv[i + 1]) \/ argv[i] = "--separator-string")
ValueAt(i) == IF HasValue(i) THEN argv[i + 1] ELSE Absent
After(i) == IF HasValue(i) THEN i + 2 ELSE i + 1

ClearKey(i) == [argv EXCEPT ![i] = Empty]      \* mutant: the value of a command is left there
Clear(i) == [j \in DOMAIN argv |-> IF j \in i..After(i) - 1 THEN Empty ELSE argv[j]]

Reading == reading \in {"commands", "options"}
Goes(now) == reading' = IF fdata'.end = "none" THEN now ELSE "over"

SkipHandled ==
  /\ Reading /\ arg <= Len(argv) /\ argv[arg] = Empty
  /\ arg' = arg + 1
  /\ UNCHANGED <<world, line, argv, reading, fdata>>

NotAnOption ==
  /\ Reading /\ arg <= Len(argv) /\ argv[arg] # Empty /\ ~Dashed(argv[arg])
  /\ fdata' = Exit(fdata, "usage") /\ Goes(reading)
  /\ UNCHANGED <<world, line, argv, arg>>

ReadCommand ==
  /\ reading = "commands" /\ arg <= Len(argv) /\ Dashed(argv[arg])
  /\ IF argv[arg] \in Commands
     THEN fdata' = ParseCommand(fdata, argv[arg], ValueAt(arg)) /\ argv' = Clear(arg)
     ELSE UNCHANGED <<fdata, argv>>
  /\ arg' = After(arg) /\ Goes("commands")
  /\ UNCHANGED <<world, line>>

(* main() between the readings.                                             *)
LoadConfig ==
  /\ reading = "commands" /\ arg > Len(argv)
  /\ fdata' = IF fdata.dynamicInterval # 0 /\ fdata.docType # "none"
              THEN Exit(fdata, "interval and document")
              ELSE ParseConfigFiles(fdata)
  /\ arg' = 1 /\ Goes("options")
  /\ UNCHANGED <<world, line, argv>>

ReadOption ==
  /\ reading = "options" /\ arg <= Len(argv) /\ Dashed(argv[arg])
  /\ fdata' = ParseOption(fdata, argv[arg], ValueAt(arg))
  /\ arg' = After(arg) /\ Goes("options")
  /\ UNCHANGED <<world, line, argv>>

Ready ==
  /\ reading = "options" /\ arg > Len(argv)
  /\ reading' = "ready"
  /\ UNCHANGED <<world, line, argv, arg, fdata>>

InitFdata ==
  [configLoaded |-> FALSE, configDoc |-> Absent, docType |-> "none", genConfig |-> FALSE,
   interactive |-> FALSE, dynamicInterval |-> 0, end |-> "none",
   options |-> [key \in DOMAIN OptionKind |-> Absent]]

InitArguments(given, around) ==
  /\ world = around /\ line = given /\ argv = given /\ arg = 1
  /\ reading = "commands" /\ fdata = InitFdata

ParseArguments == SkipHandled \/ NotAnOption \/ ReadCommand \/ LoadConfig \/ ReadOption \/ Ready
-----------------------------------------------------------------------------
(* The command line read once: options with their values. What is known to  *)
(* differ is named: an option without a value that stands before a command  *)
(* gets an empty one, as the command was cleared (fastfetch.c:708).         *)
Complete(s) == IF s.key = Empty THEN s.pairs ELSE Append(s.pairs, <<s.key, Absent>>)
Takes(s, a) ==
  IF s.key # Empty /\ (~IsKey(a) \/ s.key = "--separator-string")
  THEN [pairs |-> Append(s.pairs, <<s.key, a>>), key |-> Empty]
  ELSE [pairs |-> Complete(s), key |-> a]

Taken(args) ==
  LET taken[i \in 0..Len(args)] ==
        IF i = 0 THEN [pairs |-> <<>>, key |-> Empty] ELSE Takes(taken[i - 1], args[i])
  IN taken

Pairs == Complete(Taken(line)[Len(line)])

Fused(n) ==
  /\ Pairs[n][1] \notin Commands /\ Pairs[n][2] = Absent
  /\ n < Len(Pairs) /\ Pairs[n + 1][1] \in Commands

Given(key) == {n \in DOMAIN Pairs : Pairs[n][1] = key}
ValueOf(n) == IF Fused(n) THEN Empty ELSE Pairs[n][2]

Generates ==
  Given("--gen-config") # {} /\ ValueOf(Max(Given("--gen-config"))) # Empty

ConfigMeant ==
  LET names == {ValueOf(n) : n \in Given("-c")}
  IN IF names \cap {Empty, "none"} # {} THEN Absent
     ELSE IF names = {"-"} THEN <<"stdin", "-">>
     ELSE IF names # {} THEN First(Places(CHOOSE name \in names : TRUE))
     ELSE IF world.noConfig \/ Generates THEN Absent
     ELSE First(Defaults)

AsksForJson(n) ==
  \/ Pairs[n][1] = "-j" /\ IsTrue(ValueOf(n))
  \/ Pairs[n][1] = "--format" /\ ValueOf(n) = "json"
Documents ==
  {n \in DOMAIN Pairs : AsksForJson(n) \/ (Pairs[n][1] = "--gen-config" /\ ~world.terminal)}

Milliseconds(n) ==
  IF Pairs[n][1] = "--dynamic-interval" THEN NumberOf[ValueOf(n)]
  ELSE IF ValueOf(n) = Absent THEN 1000 ELSE 1000 * NumberOf[ValueOf(n)]
IntervalMeant ==
  LET asked == Given("-w") \cup Given("--dynamic-interval")
  IN IF asked = {} THEN 0 ELSE Milliseconds(Max(asked))

Fits(n) ==
  LET key == Pairs[n][1]  value == ValueOf(n)
  IN CASE key \in Prints -> FALSE
       [] key = "--gen-config" -> /\ value # Absent \/ world.configDirs # <<>>
                                  /\ world.terminal \/ ~world.exists \/ value = Empty
       [] key = "-c" -> /\ value # Absent
                        /\ value \in {Empty, "none", "-"} \/ First(Places(value)) # Absent
       [] key = "-j" -> TRUE
       [] key = "--format" -> Readable("format", value)
       [] key \in {"-w", "--dynamic-interval"} ->
            Readable("number", value) \/ (key = "-w" /\ value = Absent)
       [] OTHER -> IsKey(key) /\ Readable(OptionKind[key], value)

Acceptable ==
  /\ \A n \in DOMAIN Pairs : Fits(n)
  /\ Cardinality(Given("-c")) <= 1 /\ Cardinality(Documents) <= 1
  /\ Documents = {} \/ IntervalMeant = 0
  /\ ConfigMeant # Absent => ConfigMeant \in DOMAIN world.files /\ ~world.files[ConfigMeant].broken

OptionMeant(key) ==
  IF Given(key) # {} THEN Understood(OptionKind[key], ValueOf(Max(Given(key))))
  ELSE IF ConfigMeant # Absent /\ key \in DOMAIN world.files[ConfigMeant].sets
  THEN world.files[ConfigMeant].sets[key]
  ELSE Absent

(* Reading the arguments twice is as good as once. "Command line flags will *)
(* always override options defined in config files" (CHANGELOG.md:2934),    *)
(* the last of them wins, and of all configs the one that was named, or     *)
(* else the first that is there, is the only one (CHANGELOG.md:2931). A     *)
(* config is generated, and no other one read in its place, if the last     *)
(* --gen-config has a path: with an empty one the program prints, from the  *)
(* default config, and what it prints without a terminal is a "config".     *)
ArgumentsRight ==
  /\ reading = "over" => ~Acceptable
  /\ reading = "ready" =>
       /\ Acceptable
       /\ fdata.configDoc = ConfigMeant
       /\ \A key \in DOMAIN OptionKind : fdata.options[key] = OptionMeant(key)
       /\ fdata.dynamicInterval = IntervalMeant
       /\ fdata.genConfig = Generates
       /\ fdata.docType = IF \E n \in Documents : AsksForJson(n) THEN "json"
                          ELSE IF Documents # {} THEN "config" ELSE "none"
=============================================================================
