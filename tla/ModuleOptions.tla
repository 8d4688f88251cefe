---------------------------- MODULE ModuleOptions ----------------------------
(* The options of the modules (src/modules/): for each module that has some *)
(* of its own the keys of its JSON object, what they may hold, and what     *)
(* they hold at first. They can only be set by a config that was loaded.    *)
EXTENDS Options

Kind(k, values) == [kind |-> k, values |-> values]

Flag == Kind("flag", BOOLEAN)               \* yyjson_get_bool
CheckedFlag == Kind("bool", BOOLEAN)        \* another type is refused
Text == Kind("text", {"", "x"})             \* ffStrbufSetJsonVal, ffOptionParseColor
Unempty == Kind("string", {"-", "x"})       \* a string that is not empty
Uint == Kind("uint", {0, 7})                \* yyjson_get_uint
Count(low, high) == Kind("count", {low, high})   \* ffJsonConfigParseUInt32
Wait == Kind("wait", {1, 7})                \* the same, and 0 becomes 1
OneOf(names) == Kind("enum", names)         \* ffJsonConfigParseEnum
OneOfOrNull(names) == Kind("enum or null", names)   \* "none" is written as null
UintOrNull == Kind("uint or null", {-1, 0, 7})      \* -1 is null
Ignored == Kind("list", {<<>>, <<"x">>, <<"x", "y">>})
SetOf(names) == Kind("set", SUBSET names)
Strings(keys) == Kind("strings", [keys -> {"", "x"}])
ArgText == Kind("args", {"", "x"})          \* written if there is one
ArgWidth == Kind("width", {0, 7})
Unwritten == Kind("unwritten", {"", "x"})

Percentage == Kind("percent", [green : {50, 1}, yellow : {80, 1}, type : {0, 3}])
Temperature == Kind("temp", [use : BOOLEAN, green : {60, 1}, yellow : {80, 1}])

Field(key, kind, first) ==
  [key |-> key, kind |-> kind.kind, values |-> kind.values, first |-> first]

Green(green, yellow) == [green |-> green, yellow |-> yellow, type |-> 0]
NoTemp(green, yellow) == [use |-> FALSE, green |-> green, yellow |-> yellow]

(* percent.c and temps.c                                                    *)
WritePercent(v) ==
  Obj(<< <<"green", Num(v.green)>>, <<"yellow", Num(v.yellow)>>, <<"type", Num(v.type)>> >>)

ReadPercent(v, key, j) ==
  Put(v, key, IF key = "type" THEN GetUint(j, 8)
              ELSE IF j.t = "num" THEN IntIn(j, 0, 100) ELSE {0})

WriteTemp(v) ==
  IF ~v.use THEN Bool(FALSE)
  ELSE Obj(<< <<"green", Num(v.green)>>, <<"yellow", Num(v.yellow)>> >>)

ReadRange(v, key, j) == Put(v, key, IntIn(j, 0, 100))

ReadTemp(v, j) ==
  CASE j.t = "bool" -> {[v EXCEPT !.use = j.v]}
    [] j.t = "null" -> {[v EXCEPT !.use = FALSE]}
    [] OTHER -> ForEach([v EXCEPT !.use = TRUE], j, ReadRange)

(* packages: three of the managers that may be disabled, in the order they  *)
(* are looked for, and the one that is not. The first one found is written. *)
Managers == <<"am", "brew", "xbps">>
DisabledManagers == Kind("managers", SUBSET (Range(Managers) \cup {"installrelease"}))

WriteManagers(v) ==
  LET found == SelectSeq(Managers, LAMBDA manager : manager \in v)
  IN Arr(IF found = <<>> THEN <<>> ELSE <<Head(found)>>)

(* colors: the symbol that no case is for, and the block.                   *)
Symbol == Kind("symbol", {"block", "background", "circle", "diamond", "triangle",
                          "square", "star"})
WriteSymbol(v) == Str(IF v = "background" THEN "block" ELSE v)

Block == Kind("block", [width : {1, 3, 9}, range : {<<0, 15>>, <<3, 3>>}])
WriteBlock(v) ==
  Obj(<< <<"width", Num(v.width)>>, <<"range", Arr(<<Num(v.range[1]), Num(v.range[2])>>)>> >>)

ReadBlock(v, key, j) ==
  CASE key = "width" -> Put(v, "width", {IF j.v \in 1..9 THEN j.v ELSE v.width})
    [] key = "range" ->
         Put(v, "range", {IF \A i \in 1..2 : j.v[i].v \in 0..15 /\ j.v[1].v <= j.v[2].v
                          THEN <<j.v[1].v, j.v[2].v>> ELSE v.range})

(* localip: whether IPv6 is shown, and which.                               *)
Ipv6 == Kind("ipv6", {"off", "auto", "gua", "ula", "lla", "unknown"})
WriteIpv6(v) == IF v \in {"off", "auto"} THEN Bool(v = "auto") ELSE Str(v)
ReadIpv6(was, j) ==
  CASE j.t = "bool" -> {IF j.v THEN "auto" ELSE "off"}
    [] j.t = "str" /\ j.v \in {"auto", "gua", "ula", "lla", "unknown"} -> {j.v}
    [] OTHER -> {was}
-----------------------------------------------------------------------------
(* A value that a module refuses is complained about, and changes nothing.  *)
OrElse(values, was) == IF values = {} THEN {was} ELSE values

ReadString(v, key, j) == Put(v, key, GetStr(j))

ReadValue(f, was, j) ==
  CASE f.kind = "flag" -> GetBool(j)
    [] f.kind = "bool" -> {IF j.t = "bool" THEN j.v ELSE was}
    [] f.kind \in {"text", "args", "unwritten"} -> GetStr(j)
    [] f.kind = "string" -> {IF j.t = "str" /\ j.v # "" THEN j.v ELSE was}
    [] f.kind \in {"uint", "width"} -> GetUint32(j)
    [] f.kind = "uint or null" -> IF j.t = "null" THEN {-1} ELSE GetUint32(j)
    [] f.kind = "count" -> {IF IsUint(j) /\ j.v <= Max(f.values) THEN j.v ELSE was}
    [] f.kind = "wait" -> {IF ~IsUint(j) THEN was ELSE IF j.v = 0 THEN 1 ELSE j.v}
    [] f.kind \in {"enum", "symbol"} -> OrElse(EnumOf(j, f.values), was)
    [] f.kind = "enum or null" ->
         IF j.t = "null" THEN {"none"} ELSE OrElse(EnumOf(j, f.values), was)
    [] f.kind = "list" -> {was \o j.v}
    [] f.kind \in {"set", "managers"} -> {Range(j.v)}
    [] f.kind = "strings" -> ForEach(was, j, ReadString)
    [] f.kind = "block" -> ForEach(was, j, ReadBlock)
    [] f.kind = "percent" -> ForEach(was, j, ReadPercent)
    [] f.kind = "temp" -> ReadTemp(was, j)
    [] f.kind = "ipv6" -> ReadIpv6(was, j)

(* The fields that are left out of the object.                              *)
LeftOut(f, v) ==
  \/ f.kind = "unwritten"
  \/ f.kind = "args" /\ v = ""
  \/ f.kind = "width" /\ v = 0
  \/ f.kind = "list" /\ v = <<>>

WriteValue(f, v) ==
  CASE f.kind \in {"flag", "bool"} -> Bool(v)
    [] f.kind \in {"text", "string", "enum", "args"} -> Str(v)
    [] f.kind \in {"uint", "count", "wait", "width"} -> Num(v)
    [] f.kind = "uint or null" -> IF v = -1 THEN Null ELSE Num(v)
    [] f.kind = "enum or null" -> IF v = "none" THEN Null ELSE Str(v)
    [] f.kind = "list" -> Arr(v)
    [] f.kind = "set" -> Arr(SetToSeq(v))
    [] f.kind = "strings" -> Obj(SetToSeq({<<k, Str(v[k])>> : k \in DOMAIN v}))
    [] f.kind = "managers" -> WriteManagers(v)
    [] f.kind = "symbol" -> WriteSymbol(v)
    [] f.kind = "block" -> WriteBlock(v)
    [] f.kind = "percent" -> WritePercent(v)
    [] f.kind = "temp" -> WriteTemp(v)
    [] f.kind = "ipv6" -> WriteIpv6(v)
-----------------------------------------------------------------------------
(* ffJsonConfigParseModuleArgs, ffJsonConfigGenerateModuleArgsConfig.       *)
Args(key, icon) ==
  <<Field("key", ArgText, key), Field("format", ArgText, ""),
    Field("outputColor", ArgText, ""), Field("keyColor", ArgText, ""),
    Field("keyWidth", ArgWidth, 0), Field("keyIcon", ArgText, icon)>>

BatteryOptions == Args("", "icon") \o
  <<Field("temp", Temperature, NoTemp(60, 80)), Field("percent", Percentage, Green(50, 20))>>

BluetoothOptions == Args("", "icon") \o
  <<Field("showDisconnected", Flag, FALSE),
    Field("showType", OneOf({"classic", "le", "both"}), "both"),
    Field("percent", Percentage, Green(50, 20))>>

BrightnessOptions == Args("", "icon") \o
  <<Field("ddcciSleep", UintOrNull, 10), Field("percent", Percentage, Green(100, 100)),
    Field("compact", Flag, FALSE)>>

BtrfsOptions == Args("", "icon") \o <<Field("percent", Percentage, Green(50, 80))>>

CameraOptions == Args("", "icon")

CodecOptions == Args("", "icon") \o
  <<Field("splitGPU", Flag, FALSE), Field("useVulkan", Flag, FALSE),
    Field("showType", OneOf({"encoder", "decoder", "both"}), "both")>>

ColorsOptions ==
  SelectSeq(Args(" ", "icon"), LAMBDA f : f.key # "format") \o
  <<Field("format", Unwritten, ""), Field("symbol", Symbol, "background"),
    Field("paddingLeft", Count(0, 7), 0),
    Field("block", Block, [width |-> 3, range |-> <<0, 15>>]),
    Field("brightness", OneOf({"default", "normal", "light"}), "default")>>

CommandOptions == Args("", "icon") \o
  <<Field("shell", Text, "/bin/sh"), Field("param", Text, "-c"), Field("text", Text, ""),
    Field("useOutput", OneOf({"stdout", "stderr", "both"}), "both"),
    Field("parallel", Flag, TRUE), Field("splitLines", Flag, FALSE)>>

CPUOptions == Args("", "icon") \o
  <<Field("temp", Temperature, NoTemp(60, 80)), Field("showPeCoreCount", Flag, TRUE),
    Field("tempSensor", Text, "")>>

CPUCacheOptions == Args("", "icon") \o <<Field("compact", Flag, FALSE)>>

CPUUsageOptions == Args("", "icon") \o
  <<Field("separate", Flag, FALSE), Field("percent", Percentage, Green(50, 80)),
    Field("waitTime", Count(0, 200), 200)>>

CustomOptions == Args(" ", "icon")

DiskOptions == Args("", "icon") \o
  <<Field("showRegular", Flag, TRUE), Field("showExternal", Flag, TRUE),
    Field("showHidden", Flag, FALSE), Field("showSubvolumes", Flag, FALSE),
    Field("showReadOnly", Flag, TRUE), Field("showUnknown", Flag, FALSE),
    Field("folders", Text, ""), Field("hideFolders", Text, "/efi:/boot:/boot/*"),
    Field("hideFS", Text, ""), Field("useAvailable", Flag, FALSE),
    Field("percent", Percentage, Green(50, 80))>>

DiskIOOptions == Args("", "icon") \o
  <<Field("namePrefix", Text, ""), Field("detectTotal", Flag, FALSE),
    Field("waitTime", Wait, 250)>>

DisplayOptions == Args("", "icon") \o
  <<Field("compactType", OneOf({"none", "original", "scaled", "original-with-refresh-rate",
                                "scaled-with-refresh-rate"}), "none"),
    Field("preciseRefreshRate", Flag, FALSE),
    Field("order", OneOfOrNull({"none", "asc", "desc"}), "none")>>

DNSOptions == Args("", "icon") \o
  <<Field("showType", OneOf({"both", "ipv4", "ipv6"}), "both")>>

GamepadOptions == Args("", "icon") \o
  <<Field("ignores", Ignored, <<>>), Field("percent", Percentage, Green(50, 20))>>

GPUOptions == Args("", "icon") \o
  <<Field("driverSpecific", Flag, FALSE),
    Field("detectionMethod",
          OneOf({"auto", "pci", "vulkan", "opencl", "egl-ext", "opengl"}), "pci"),
    Field("temp", Temperature, NoTemp(60, 80)),
    Field("hideType", OneOf({"none", "unknown", "integrated", "discrete"}), "none"),
    Field("percent", Percentage, Green(50, 80))>>

KeyboardOptions == Args("", "icon") \o <<Field("ignores", Ignored, <<>>)>>

LoadavgOptions == Args("", "icon") \o
  <<Field("ndigits", Count(0, 9), 2), Field("compact", Flag, TRUE),
    Field("percent", Percentage, Green(50, 80))>>

LocalIpOptions == Args("", "icon") \o
  <<Field("showIpv4", Flag, TRUE), Field("showIpv6", Ipv6, "off"),
    Field("showMac", Flag, FALSE), Field("showLoop", Flag, FALSE),
    Field("showPrefixLen", Flag, TRUE), Field("showMtu", Flag, FALSE),
    Field("showSpeed", Flag, FALSE), Field("showFlags", Flag, FALSE),
    Field("compact", Flag, FALSE), Field("defaultRouteOnly", Flag, TRUE),
    Field("showAllIps", Flag, FALSE), Field("namePrefix", Text, "")>>

MediaOptions == Args("", "icon") \o <<Field("percent", Percentage, Green(100, 100))>>

MemoryOptions == Args("", "icon") \o <<Field("percent", Percentage, Green(50, 80))>>

MouseOptions == Args("", "icon") \o <<Field("ignores", Ignored, <<>>)>>

NetIOOptions == Args("", "icon") \o
  <<Field("namePrefix", Text, ""), Field("defaultRouteOnly", Flag, TRUE),
    Field("detectTotal", Flag, FALSE), Field("waitTime", Wait, 250)>>

OpenGLOptions == Args("", "icon") \o
  <<Field("library", OneOf({"auto", "egl", "glx"}), "auto")>>

PackagesOptions == Args("", "icon") \o
  <<Field("disabled", DisabledManagers, {}), Field("combined", Flag, FALSE)>>

PhysicalDiskOptions == Args("", "icon") \o
  <<Field("namePrefix", Text, ""), Field("temp", Temperature, NoTemp(50, 70)),
    Field("hideVirtual", CheckedFlag, FALSE), Field("hideUnused", CheckedFlag, TRUE)>>

PhysicalMemoryOptions == Args("", "icon") \o <<Field("showEmptySlots", Flag, FALSE)>>

ProcessesOptions == Args("", "icon") \o <<Field("countKprocs", Flag, FALSE)>>

PublicIPOptions == Args("", "icon") \o
  <<Field("url", Text, ""), Field("timeout", Uint, 0), Field("ipv6", Flag, FALSE)>>

SeparatorOptions ==
  <<Field("string", Unempty, "-"), Field("outputColor", Text, ""),
    Field("times", Count(0, 7), 0)>>

SoundOptions == Args("", "icon") \o
  <<Field("soundType", OneOf({"main", "active", "all"}), "main"),
    Field("percent", Percentage, Green(80, 90))>>

SwapOptions ==
  <<Field("percent", Percentage, Green(50, 80))>> \o Args("", "icon") \o
  <<Field("separate", Flag, FALSE)>>

TitleOptions == Args(" ", "icon") \o
  <<Field("fqdn", Flag, FALSE),
    Field("color", Strings({"user", "at", "host"}), [user |-> "", at |-> "", host |-> ""])>>

TopOptions == Args("", "icon") \o
  <<Field("showTypes", SetOf({"cpu", "memory", "disk", "threads"}), {"cpu", "memory", "disk"}),
    Field("sort", OneOf({"cpu", "memory", "disk-read", "disk-write", "start-time",
                         "threads"}), "cpu"),
    Field("processes", Uint, 5), Field("waitTime", Uint, 250), Field("compact", Flag, FALSE),
    Field("percent", Percentage, Green(50, 80))>>

UsersOptions == Args("", "icon") \o
  <<Field("compact", Flag, FALSE), Field("myselfOnly", Flag, FALSE)>>

WeatherOptions == Args("", "icon") \o
  <<Field("location", Text, ""), Field("outputFormat", Text, "%t+-+%C+(%l)"),
    Field("timeout", Uint, 0)>>

WifiOptions == Args("", "icon") \o <<Field("percent", Percentage, Green(75, 50))>>

WMOptions == Args("", "icon") \o <<Field("detectPlugin", Flag, TRUE)>>

ZpoolOptions == Args("", "icon") \o <<Field("percent", Percentage, Green(50, 80))>>

(* camera stands for the modules without options of their own. `break` has  *)
(* none at all.                                                             *)
ModuleOptionsOf ==
  [battery |-> BatteryOptions, bluetooth |-> BluetoothOptions, brightness |-> BrightnessOptions,
   btrfs |-> BtrfsOptions, camera |-> CameraOptions, custom |-> CustomOptions,
   media |-> MediaOptions, memory |-> MemoryOptions, wifi |-> WifiOptions,
   zpool |-> ZpoolOptions, codec |-> CodecOptions, colors |-> ColorsOptions,
   command |-> CommandOptions, cpu |-> CPUOptions, cpucache |-> CPUCacheOptions,
   cpuusage |-> CPUUsageOptions, disk |-> DiskOptions, diskio |-> DiskIOOptions,
   display |-> DisplayOptions, dns |-> DNSOptions, gamepad |-> GamepadOptions,
   gpu |-> GPUOptions, keyboard |-> KeyboardOptions, loadavg |-> LoadavgOptions,
   localip |-> LocalIpOptions, mouse |-> MouseOptions, netio |-> NetIOOptions,
   opengl |-> OpenGLOptions, packages |-> PackagesOptions,
   physicaldisk |-> PhysicalDiskOptions, physicalmemory |-> PhysicalMemoryOptions,
   processes |-> ProcessesOptions, publicip |-> PublicIPOptions,
   separator |-> SeparatorOptions, sound |-> SoundOptions, swap |-> SwapOptions,
   title |-> TitleOptions, top |-> TopOptions, users |-> UsersOptions,
   weather |-> WeatherOptions, wm |-> WMOptions, break |-> <<>>]
-----------------------------------------------------------------------------
FieldOf(name, key) ==
  LET fields == ModuleOptionsOf[name]
  IN fields[CHOOSE i \in DOMAIN fields : fields[i].key = key]

KeysOf(name) == {ModuleOptionsOf[name][i].key : i \in DOMAIN ModuleOptionsOf[name]}

InitModule(name) == [key \in KeysOf(name) |-> FieldOf(name, key).first]

(* The keys of an object that a module reads; of the others it complains.   *)
ReadKey(name, o, key, j) ==
  IF key \in KeysOf(name) THEN Put(o, key, ReadValue(FieldOf(name, key), o[key], j)) ELSE {o}

ParseModule(name, j) ==
  ForEach(InitModule(name), j, LAMBDA o, key, v : ReadKey(name, o, key, v))

GenerateModule(name, o) ==
  LET written == SelectSeq(ModuleOptionsOf[name], LAMBDA f : ~LeftOut(f, o[f.key]))
  IN [i \in DOMAIN written |-> <<written[i].key, WriteValue(written[i], o[written[i].key])>>]
=============================================================================
