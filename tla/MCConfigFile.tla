---------------------------- MODULE MCConfigFile ----------------------------
EXTENDS ConfigFile

Long == <<"title", "packages", "colors">>
MCOrder ==
  <<"title", "separator", "packages", "break", "colors", "battery", "bluetooth", "brightness",
    "btrfs", "camera", "codec", "command", "cpu", "cpucache", "cpuusage", "custom", "disk",
    "diskio", "display", "dns", "gamepad", "gpu", "keyboard", "loadavg", "localip", "media",
    "memory", "mouse", "netio", "opengl", "physicaldisk", "physicalmemory", "processes",
    "publicip", "sound", "swap", "top", "users", "weather", "wifi", "wm", "zpool">>
MCLength == [x \in Range(MCOrder) |-> Len(x)]
MCSizes == {[rows |-> 13, cols |-> 30], [rows |-> 24, cols |-> 80]}

(* Command lines; the configs say what they set.                            *)
MCOptionKind ==
  "-s" :> "text" @@ "--structure-disabled" :> "text" @@ "--separator" :> "text"
    @@ "--logo-padding" :> "number" @@ "--processing-timeout" :> "signed" @@ "--pipe" :> "flag"
    @@ "--cpu-format" :> "module" @@ "--separator-string" :> "unknown"
MCNumberOf == "" :> 0 @@ "0" :> 0 @@ "7" :> 7 @@ "-5" :> -5

Words == {"", "none", "true", "json", "mine", "7", "-5", "-"}
MCLists ==
  [word \in (Words \ {""}) \cup Range(MCOrder) \cup {"long", "two"} |->
     CASE word = "long" -> Long
       [] word = "two" -> <<"packages", "title">>
       [] OTHER -> IF word \in Range(MCOrder) THEN <<word>> ELSE <<"title">>]

Sets(mark) == [broken |-> FALSE, sets |-> "--separator" :> mark @@ "--pipe" :> TRUE]
Broken == [broken |-> TRUE, sets |-> <<>>]
Home ==
  [terminal |-> TRUE, noConfig |-> FALSE, configDirs |-> <<"home", "etc">>,
   files |-> <<"home", "config.jsonc">> :> Sets("h") @@ <<"presets", "mine">> :> Sets("m")
               @@ <<"stdin", "-">> :> Sets("i")]
Worlds ==
  {Home, [Home EXCEPT !.terminal = FALSE],
   [Home EXCEPT !.noConfig = TRUE, !.configDirs = <<>>],
   [Home EXCEPT !.files = <<"etc", "config.json5">> :> Broken @@ <<"etc", "mine">> :> Sets("e")
                            @@ <<"presets", "mine">> :> Broken]}

Start0 == [line |-> <<"--gen-config">>, world |-> Home, file |-> Missing, given |-> Unset,
           logo |-> [type |-> "auto", position |-> "left"], keyboard |-> Keyboard \cup Events]

(* Sessions with every key.                                                 *)
Sessions ==
  {Start0,
   [Start0 EXCEPT !.line = <<"--gen-config", "-s", "two", "--structure-disabled", "packages">>,
                  !.logo = [type |-> "kitty", position |-> "top"], !.file = Foreign]}

Others ==
  {[Start0 EXCEPT !.line = l, !.world.terminal = terminal, !.file = there,
                  !.keyboard = {<<"s">>, <<"y">>}] :
     l \in {<<"--gen-config">>, <<"--gen-config", "--structure-disabled", "title">>,
               <<"--gen-config", "-j">>},
     terminal \in BOOLEAN, there \in {Missing, Foreign}}

Tokens == Commands \cup DOMAIN MCOptionKind \cup Words
Fewer == {"-c", "-j", "-w", "--gen-config", "--separator", "--logo-padding", "", "mine", "7"}
UpToTwo == UNION {[1..k -> Tokens \ {"-h", "--print-structure", "--list-modules"}] : k \in 0..2}
Started(lines, worlds, files) ==
  {[Start0 EXCEPT !.line = l, !.world = w, !.file = f, !.keyboard = {}] :
     l \in lines, w \in worlds, f \in files}
CommandLines ==
  Started(UpToTwo, Worlds, {Missing, Foreign})
    \cup Started([1..3 -> Fewer], Worlds, {Missing})
    \cup Started([1..4 -> Fewer], {Home}, {Missing})

(* One option after the other, in the full config.                          *)
Gives(part, key, value) == [part |-> part, key |-> key, value |-> value]
Of(part, arguments) ==
  UNION {{Gives(part, key, value) : value \in arguments[key]} : key \in DOMAIN arguments}

Saved(given_, structure_, logo_) ==
  [Start0 EXCEPT !.given = given_, !.line = <<"--gen-config", "-s", structure_>>,
                 !.logo = logo_, !.keyboard = {<<"o">>, <<"s">>}]

GivenLogo(g) ==
  IF g.key \in {"type", "position"} THEN [Start0.logo EXCEPT ![g.key] = g.value] ELSE Start0.logo

Swept ==
  {Saved(g, "long", Start0.logo) :
     g \in Of("General", GeneralArguments) \cup Of("Display", DisplayArguments)}
  \cup {Saved(g, "long", GivenLogo(g)) : g \in Of("Logo", LogoArguments)}
  \cup UNION {UNION {{Saved(Gives(name, key, v), name, Start0.logo) :
                        v \in FieldOf(name, key).values} : key \in KeysOf(name)} :
              name \in DOMAIN ModuleOptionsOf}

MCStarts == Sessions \cup Others \cup CommandLines \cup Swept
=============================================================================
