------------------------------ MODULE ConfigFile ------------------------------
(* The program from its start to the next start, with `--gen-config`: the   *)
(* arguments, the options it has, the interactive configuration or none,    *)
(* the file that is written, and what a later run reads from it             *)
(* (fastfetch.c).                                                           *)
EXTENDS GenConfig, ModuleOptions, Arguments

CONSTANTS Unset, Torn, Refused,
          Lists,            \* the modules that -s or --structure-disabled name
          DefaultStructure

(* Every argument is a text, and every file has a name.                     *)
ASSUME StartsAssumption ==
  \A s \in Starts :
    /\ s.line \in Seq(STRING) /\ Absent \notin {s.line[i] : i \in DOMAIN s.line}
    /\ Absent \notin DOMAIN s.world.files

VARIABLES given,         \* bound: the one option that is not what it is at first
          report,        \* what the user is told of the file
          loaded         \* the options of the next run

fileVars == <<given, report, loaded>>
vars == <<uiVars, fileVars, argVars>>

interactive == fdata.interactive

(* The options of this run. The command line sets what is not a module's; a *)
(* config given with -c may set everything.                                 *)
With(part, first) ==
  IF given # Unset /\ given.part = part THEN [first EXCEPT ![given.key] = given.value]
  ELSE first

General == With("General", InitGeneral)
Display == With("Display", InitDisplay)
Logo(base, chosen) == [base EXCEPT !.type = chosen.type, !.position = chosen.position]
OptionsOf(name) == With(name, InitModule(name))
-----------------------------------------------------------------------------
(* main() when the arguments are read. Without a terminal nobody is asked.  *)
ListOf(key) ==
  IF fdata.options[key] \in {Absent, ""} THEN <<>> ELSE Lists[fdata.options[key]]

Main ==
  /\ phase = "argv" /\ reading = "ready"
  /\ phase' = IF ~fdata.genConfig THEN "run" ELSE IF interactive THEN "start" ELSE "write"
  /\ structure' = IF ListOf("-s") = <<>> THEN DefaultStructure ELSE ListOf("-s")
  /\ disabled' = Range(ListOf("--structure-disabled"))
  /\ jsonOutput' = (fdata.docType = "json")
  /\ reading' = "done"
  /\ UNCHANGED <<size, typed, keys, ui, screen, existed, file, loadedLogo, keyboard, fileVars,
                 world, line, argv, arg, fdata>>

(* writeConfigFile: what is written of the logo when nothing else is.       *)
LogoAlone(o) ==
  IF o.type = "none" THEN << <<"logo", Null>> >>
  ELSE IF o.type = "small" /\ o.position = "left" THEN << <<"logo", Str("small")>> >>
  ELSE IF o.type = "small" \/ o.position # "left"
  THEN << <<"logo", Obj((IF o.type = "small" THEN << <<"type", Str("small")>> >> ELSE <<>>)
                        \o IF o.position # "left" THEN << <<"position", Str(o.position)>> >>
                           ELSE <<>>)>> >>
  ELSE <<>>

(* genJsonConfig                                                            *)
ModuleConfig(name) ==
  LET pairs == GenerateModule(name, OptionsOf(name))
  IN IF fullConfig /\ pairs # <<>> THEN Obj(<< <<"type", Str(name)>> >> \o pairs)
     ELSE Str(name)

(* ffMigrateCommandOptionToJsonc: the key is made with the first module.    *)
ModulesConfig ==
  LET kept == SelectSeq(structure, LAMBDA name : name \notin disabled)
  IN IF kept = <<>> THEN <<>>
     ELSE << <<"modules", Arr([i \in DOMAIN kept |-> ModuleConfig(kept[i])])>> >>

DocumentLogoLast ==      \* mutant: the position is taken from the command line
  Obj((IF fullConfig THEN << <<"logo", GenerateLogo(With("Logo", InitLogo))>>,
                             <<"display", GenerateDisplay(Display)>>,
                             <<"general", GenerateGeneral(General)>> >>
       ELSE IF interactive THEN LogoAlone(loadedLogo) ELSE <<>>)
      \o ModulesConfig)

Document ==
  Obj((IF fullConfig THEN << <<"logo", GenerateLogo(Logo(With("Logo", InitLogo), loadedLogo))>>,
                             <<"display", GenerateDisplay(Display)>>,
                             <<"general", GenerateGeneral(General)>> >>
       ELSE IF interactive THEN LogoAlone(loadedLogo) ELSE <<>>)
      \o ModulesConfig)

(* ffWriteFileData truncates the file and writes once: a file that cannot   *)
(* be opened stays, one that takes nothing is lost, and one that takes a    *)
(* part of the data counts as written.                                      *)
WriteConfigFile ==
  /\ phase = "write"
  /\ \/ file' = file /\ report' = "failed"
     \/ file' = Torn /\ report' \in {"failed", "generated"}
     \/ file' = Document /\ report' = "generated"
  /\ phase' = "written"
  /\ UNCHANGED <<size, typed, keys, ui, screen, existed, data, given, loaded, argVars>>
-----------------------------------------------------------------------------
(* The member of a JSON object; yyjson_obj_get.                             *)
Get(j, key) == SelectSeq(j.v, LAMBDA pair : pair[1] = key)

Section(first, j, key, Parse(_, _)) ==
  LET found == Get(j, key) IN IF found = <<>> THEN {first} ELSE Parse(first, found[1][2])

ReadGeneral(o, j) == ForEach(o, j, ParseGeneral)
ReadDisplay(o, j) == ForEach(o, j, ParseDisplay)

(* printJsonConfig: a string is a module with its first options.            *)
ReadModule(j) ==
  IF j.t = "str" THEN {[name |-> j.v, options |-> InitModule(j.v)]}
  ELSE LET name == Get(j, "type")[1][2].v
       IN {[name |-> name, options |-> o] :
             o \in ParseModule(name, Obj(SelectSeq(j.v, LAMBDA p : p[1] # "type")))}

ReadModules(j) ==
  LET found == Get(j, "modules")
  IN IF found = <<>> THEN {<<>>}
     ELSE FoldLeft(LAMBDA lists, m : {Append(l, x) : l \in lists, x \in ReadModule(m)},
                   {<<>>}, found[1][2].v)

(* parseJsoncFile, and the modules when they are printed.                   *)
LoadFrom(j) ==
  {[logo |-> l, general |-> g, display |-> d, modules |-> m] :
     l \in Section(InitLogo, j, "logo", ParseLogo),
     g \in Section(InitGeneral, j, "general", ReadGeneral),
     d \in Section(InitDisplay, j, "display", ReadDisplay),
     m \in ReadModules(j)}

NextRun ==
  /\ phase = "written" /\ report = "generated"
  /\ loaded' \in IF file = Torn \/ LoadFrom(file) = {} THEN {Refused} ELSE LoadFrom(file)
  /\ phase' = "loaded"
  /\ UNCHANGED <<size, typed, keys, ui, screen, existed, file, data, given, report, argVars>>
-----------------------------------------------------------------------------
Around(s) ==
  [terminal |-> s.world.terminal, noConfig |-> s.world.noConfig, files |-> s.world.files,
   configDirs |-> s.world.configDirs, exists |-> s.file # Missing]

Init ==
  /\ \E s \in Starts :
       /\ InitUI(s) /\ given = s.given
       /\ InitArguments(s.line, Around(s))
  /\ report = "" /\ loaded = Unset

Next ==
  \/ ParseArguments /\ UNCHANGED <<uiVars, fileVars>>
  \/ interactive /\ UI /\ UNCHANGED <<fileVars, argVars>>
  \/ Main \/ WriteConfigFile \/ NextRun

Spec == Init /\ [][Next]_vars
-----------------------------------------------------------------------------
(* What the user was shown, or gave: the list, and the rest if all of it is *)
(* asked for.                                                               *)
List == IF interactive THEN screen.list ELSE structure
ChosenLogo == IF interactive THEN screen.logo ELSE [type |-> "auto", position |-> "left"]
Full == interactive /\ screen.full
Kept(first, all) == IF Full THEN all ELSE first

(* The options of a logo that is not printed, or does not turn, say nothing.*)
LogoShown(o) ==
  IF o.type = "none" THEN {"none"}
  ELSE {<<m, o[m]>> : m \in DOMAIN o \ (IF o.type = "spin" THEN {}
                       ELSE {"speedPerFrame", "speedPerRound", "tilt", "angle"})}

(* What is known to get lost. A digit count that the command line lets      *)
(* through is refused by the next run (options/display.c:736); "small" is   *)
(* read as the source of a logo (fastfetch.c:871); --structure-disabled     *)
(* wins over what was ticked (commandoption.c:318).                         *)
Unreadable ==
  /\ Full /\ given # Unset /\ given.part = "Display"
  /\ \/ given.key \in {"tempNdigits", "percentNdigits", "fractionNdigits"} /\ given.value > 9
     \/ given.key = "freqNdigits" /\ given.value \notin -1..9

(* A bit of the type that has no name is dropped; less than -1 digits of a  *)
(* fraction are as good as -1.                                              *)
Nameable(o) == [o EXCEPT !.percentType = @ \ {"bit 5"}, !.fractionNdigits = AtLeast(-1, @)]

SmallAsSource == ~Full /\ ChosenLogo = [type |-> "small", position |-> "left"]

(* Modules: `background` of colors is written as `block` (colors.c:274), of *)
(* the managers that packages leaves out only the first (packages.c:386),   *)
(* a text that is empty and a range that is not used are not written.       *)
LostKey(name, key, value) ==
  \/ name = "colors" /\ key \in {"symbol", "format"}
  \/ name = "packages" /\ key = "disabled"
  \/ key \in {"key", "keyIcon"} /\ value = ""
  \/ key = "temp" /\ ~value.use

ModuleShown(m) ==
  {<<k, m.options[k]>> : k \in {x \in KeysOf(m.name) :
                                 ~LostKey(m.name, x, OptionsOf(m.name)[x])}}

Keeps ==
  /\ loaded.general = Kept(InitGeneral, General)
  /\ loaded.display = Kept(InitDisplay, Nameable(Display))
  /\ SmallAsSource \/ LogoShown(loaded.logo) =
                        LogoShown(Logo(Kept(InitLogo, With("Logo", InitLogo)), ChosenLogo))
  /\ LET list == SelectSeq(List, LAMBDA name : name \notin disabled)
     IN /\ [i \in DOMAIN loaded.modules |-> loaded.modules[i].name] = list
        /\ \A i \in DOMAIN list :
             ModuleShown(loaded.modules[i])
               = ModuleShown([name |-> list[i],
                              options |-> Kept(InitModule(list[i]), OptionsOf(list[i]))])

(* A config that was reported as generated, and written as a whole, is read *)
(* by the next run as what the last frame showed and the options that were  *)
(* given with it (genconfig.c:1037, fastfetch.c:857), but for what is known *)
(* to get lost.                                                             *)
LoadsBack ==
  phase = "loaded" /\ file # Torn =>
    IF Unreadable THEN loaded = Refused ELSE loaded # Refused /\ Keeps
=============================================================================
