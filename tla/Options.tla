------------------------------- MODULE Options -------------------------------
(* The options of src/options/: general.c, logo.c and display.c. What the   *)
(* program starts with, what the command line can set, how a full config is *)
(* generated, and how it is read. An object is a sequence of <<key, value>>;*)
(* it is read into a function from the members of the C structures to their *)
(* values. A reader gives the set of results: none if the program refuses   *)
(* the value and exits.                                                     *)
EXTENDS Integers, Sequences, SequencesExt, TLC

(* JSON values. A number that is not negative is read as unsigned.          *)
Bool(b) == [t |-> "bool", v |-> b]
Num(n) == [t |-> "num", v |-> n]
Str(s) == [t |-> "str", v |-> s]
Arr(seq) == [t |-> "arr", v |-> seq]
Obj(pairs) == [t |-> "obj", v |-> pairs]
Null == [t |-> "null", v |-> 0]

IsUint(j) == j.t = "num" /\ j.v >= 0

(* yyjson_get_bool, ffStrbufSetJsonVal, yyjson_get_uint: another type is    *)
(* false, empty or 0. A color is kept as the code it stands for, which is   *)
(* read as itself again.                                                    *)
GetBool(j) == {j.t = "bool" /\ j.v}
GetStr(j) == {IF j.t = "str" THEN j.v ELSE ""}
GetUint(j, bits) == {IF IsUint(j) THEN j.v % 2^bits ELSE 0}
GetUint32(j) == {IF IsUint(j) THEN j.v ELSE 0}     \* none here is as large as that
IntIn(j, low, high) == IF j.t = "num" /\ j.v \in low..high THEN {j.v} ELSE {}

(* ffJsonConfigParseEnum; a full config has no enum as a number.            *)
EnumOf(j, names) == IF j.t = "str" /\ j.v \in names THEN {j.v} ELSE {}

Put(o, member, values) == {[o EXCEPT ![member] = v] : v \in values}

(* yyjson_obj_foreach: the keys are read in the order they come in.         *)
ForEach(o, j, Parse(_, _, _)) ==
  IF j.t # "obj" THEN {}
  ELSE FoldLeft(LAMBDA os, pair : UNION {Parse(x, pair[1], pair[2]) : x \in os}, {o}, j.v)

Spaces == {"default", "always", "never"}
SizePrefixes == {"B", "kB", "MB", "GB", "TB", "PB", "EB", "ZB", "YB"}
KeyTypes == {"none", "string", "icon", "both-0", "both-1", "both-2", "both-3", "both-4"}
Flags == <<"num", "bar", "hide-others", "num-color", "bar-monochrome">>
CanvasModes == {"TRUECOLOR", "INDEXED_256", "INDEXED_240", "INDEXED_16",
                "FGBG_BGFG", "FGBG", "INDEXED_8", "INDEXED_16_8"}
ImageTypes == {"sixel", "kitty", "kitty-direct", "kitty-icat", "iterm", "chafa"}
AllTypes == {"auto", "builtin", "small", "file", "file-raw", "data", "data-raw",
             "command-raw", "raw", "spin", "none"} \cup ImageTypes
-----------------------------------------------------------------------------
(* general                                                                  *)
InitGeneral ==
  [processingTimeout |-> 5000, multithreading |-> TRUE, detectVersion |-> TRUE,
   playerName |-> "", dsForceDrm |-> "false"]

(* What the command line can make of the members.                           *)
GeneralArguments ==
  [processingTimeout |-> {-1, 0, 1}, multithreading |-> BOOLEAN, detectVersion |-> BOOLEAN,
   playerName |-> {"", "x"}, dsForceDrm |-> {"false", "sysfs-only", "true"}]

GenerateGeneral(o) ==
  Obj(<< <<"thread", Bool(o.multithreading)>>,
         <<"processingTimeout", Num(o.processingTimeout)>>,
         <<"detectVersion", Bool(o.detectVersion)>>,
         <<"playerName", Str(o.playerName)>>,
         <<"dsForceDrm", IF o.dsForceDrm = "sysfs-only" THEN Str(o.dsForceDrm)
                         ELSE Bool(o.dsForceDrm = "true")>> >>)

ParseGeneral(o, key, j) ==
  CASE key = "thread" -> Put(o, "multithreading", GetBool(j))
    [] key = "processingTimeout" ->
         Put(o, "processingTimeout", {IF j.t = "num" THEN j.v ELSE 0})
    [] key = "detectVersion" -> Put(o, "detectVersion", GetBool(j))
    [] key = "playerName" -> Put(o, "playerName", GetStr(j))
    [] key = "dsForceDrm" ->
         Put(o, "dsForceDrm",
             IF j.t = "str" THEN EnumOf(j, {"sysfs-only", "false", "true"})
             ELSE {IF j.t = "bool" /\ j.v THEN "true" ELSE "false"})
    [] OTHER -> {}
-----------------------------------------------------------------------------
(* logo: a mode of chafa that is not set is "", and one color is kept of 9. *)
InitLogo ==
  [type |-> "auto", source |-> "", logoColor |-> "", width |-> 0, height |-> 0,
   paddingTop |-> 0, paddingBottom |-> 0, paddingLeft |-> 0, paddingRight |-> 4,
   printRemaining |-> TRUE, preserveAspectRatio |-> FALSE, cache |-> "on",
   position |-> "left", animationFrame |-> 1, speedPerFrame |-> 0, speedPerRound |-> 0,
   tilt |-> 0, angle |-> 0, chafaFgOnly |-> FALSE, chafaSymbols |-> "block",
   chafaCanvasMode |-> "", chafaColorSpace |-> "", chafaDitherMode |-> ""]

LogoArguments ==
  [type |-> AllTypes, source |-> {"", "x"}, logoColor |-> {"", "31"},
   width |-> {0, 7}, height |-> {0, 7}, paddingTop |-> {0, 7}, paddingBottom |-> {0, 7},
   paddingLeft |-> {0, 7}, paddingRight |-> {0, 7}, printRemaining |-> BOOLEAN,
   preserveAspectRatio |-> BOOLEAN, cache |-> {"on", "off", "regen"},
   position |-> {"auto", "left", "right", "top"}, animationFrame |-> {-1, 0, 1},
   speedPerFrame |-> {-360, 360}, speedPerRound |-> {-3600, 3600}, tilt |-> {-80, 80},
   angle |-> {0, 360}, chafaFgOnly |-> BOOLEAN, chafaSymbols |-> {"", "x"},
   chafaCanvasMode |-> CanvasModes, chafaColorSpace |-> {"RGB", "DIN99D"},
   chafaDitherMode |-> {"NONE", "ORDERED", "DIFFUSION"}]

SizeOrNull(n) == IF n = 0 THEN Null ELSE Num(n)

Padding(o) ==
  Obj(<< <<"top", Num(o.paddingTop)>>, <<"left", Num(o.paddingLeft)>>,
         <<"bottom", Num(o.paddingBottom)>>, <<"right", Num(o.paddingRight)>> >>)

Spin(o) ==
  Obj(<< <<"speed", Obj(<< <<"perFrame", Num(o.speedPerFrame)>>,
                           <<"perRound", Num(o.speedPerRound)>> >>)>>,
         <<"tilt", Num(o.tilt)>>, <<"angle", Num(o.angle)>> >>)

Chafa(o) ==
  Obj(<< <<"fgOnly", Bool(o.chafaFgOnly)>>, <<"symbols", Str(o.chafaSymbols)>> >>
      \o SelectSeq(<< <<"canvasMode", Str(o.chafaCanvasMode)>>,
                      <<"colorSpace", Str(o.chafaColorSpace)>>,
                      <<"ditherMode", Str(o.chafaDitherMode)>> >>, LAMBDA p : p[2].v # ""))

(* `--logo none` is all that is left of the options of the logo.            *)
GenerateLogo(o) ==
  IF o.type = "none" THEN Null
  ELSE Obj(<< <<"type", Str(o.type)>>, <<"source", Str(o.source)>> >>
           \o (IF o.type = "spin" THEN << <<"spin", Spin(o)>> >> ELSE <<>>)
           \o << <<"color", Obj(<< <<"1", Str(o.logoColor)>> >>)>>,
                 <<"width", SizeOrNull(o.width)>>, <<"height", SizeOrNull(o.height)>>,
                 <<"padding", Padding(o)>>,
                 <<"printRemaining", Bool(o.printRemaining)>>,
                 <<"preserveAspectRatio", Bool(o.preserveAspectRatio)>>,
                 <<"cache", IF o.cache = "regen" THEN Str(o.cache) ELSE Bool(o.cache = "on")>>,
                 <<"position", Str(o.position)>>,
                 <<"animationFrame", Num(o.animationFrame)>>, <<"chafa", Chafa(o)>> >>)

ReadSizeOrNull(j) ==
  IF j.t = "null" THEN {0} ELSE IF IsUint(j) /\ j.v # 0 THEN {j.v} ELSE {}

ParsePadding(o, key, j) ==
  Put(o, [left |-> "paddingLeft", top |-> "paddingTop",
          right |-> "paddingRight", bottom |-> "paddingBottom"][key],
      IF IsUint(j) THEN {j.v} ELSE {})

ParseSpeed(o, key, j) ==
  CASE key = "perFrame" -> Put(o, "speedPerFrame", IntIn(j, -360, 360))
    [] key = "perRound" -> Put(o, "speedPerRound", IntIn(j, -3600, 3600))

ParseSpin(o, key, j) ==
  CASE key = "speed" -> ForEach(o, j, ParseSpeed)
    [] key = "tilt" -> Put(o, "tilt", IntIn(j, -80, 80))
    [] key = "angle" -> Put(o, "angle", IntIn(j, 0, 360))

ParseChafa(o, key, j) ==
  CASE key = "fgOnly" -> Put(o, "chafaFgOnly", GetBool(j))
    [] key = "symbols" -> Put(o, "chafaSymbols", GetStr(j))
    [] key = "canvasMode" -> Put(o, "chafaCanvasMode", EnumOf(j, CanvasModes))
    [] key = "colorSpace" -> Put(o, "chafaColorSpace", EnumOf(j, {"RGB", "DIN99D"}))
    [] key = "ditherMode" ->
         Put(o, "chafaDitherMode", EnumOf(j, {"NONE", "ORDERED", "DIFFUSION"}))

ParseLogoKey(o, key, j) ==
  CASE key = "type" -> Put(o, "type", EnumOf(j, AllTypes))
    [] key = "source" -> Put(o, "source", GetStr(j))
    [] key = "color" -> Put(o, "logoColor", GetStr(j.v[1][2]))
    [] key = "width" -> Put(o, "width", ReadSizeOrNull(j))
    [] key = "height" -> Put(o, "height", ReadSizeOrNull(j))
    [] key = "padding" -> ForEach(o, j, ParsePadding)
    [] key = "printRemaining" -> Put(o, "printRemaining", GetBool(j))
    [] key = "preserveAspectRatio" -> Put(o, "preserveAspectRatio", GetBool(j))
    [] key = "cache" ->
         Put(o, "cache", IF j.t = "bool" THEN {IF j.v THEN "on" ELSE "off"}
                         ELSE EnumOf(j, {"regen"}))
    [] key = "position" -> Put(o, "position", EnumOf(j, {"auto", "left", "top", "right"}))
    [] key = "animationFrame" -> Put(o, "animationFrame", IF j.t = "num" THEN {j.v} ELSE {})
    [] key = "spin" -> ForEach(o, j, ParseSpin)
    [] key = "chafa" -> ForEach(o, j, ParseChafa)
    [] OTHER -> {}

(* null is no logo, and a string is its source.                             *)
ParseLogo(o, j) ==
  CASE j.t = "null" -> {[o EXCEPT !.type = "none", !.paddingTop = 0, !.paddingBottom = 0,
                                  !.paddingLeft = 0, !.paddingRight = 0]}
    [] j.t = "str" -> {[o EXCEPT !.source = j.v]}
    [] OTHER -> ForEach(o, j, ParseLogoKey)
-----------------------------------------------------------------------------
(* display: colors by their codes. Bytes: what the command line casts a     *)
(* number to, which only --size-ndigits looks at first.                     *)
Colors == {"", "31"}
Bytes == {n % 256 : n \in {0, 9, 10, 256}}
SignedBytes == {-2, -1, 0, 9, 10}

InitDisplay ==
  [stat |-> -1, showErrors |-> FALSE, pipe |-> FALSE, disableLinewrap |-> FALSE,
   hideCursor |-> FALSE, keyValueSeparator |-> ": ", colorKeys |-> "", colorTitle |-> "",
   colorOutput |-> "", colorSeparator |-> "", brightColor |-> TRUE,
   durationAbbreviation |-> FALSE, durationSpaceBeforeUnit |-> "default",
   sizeMaxPrefix |-> "YB", sizeBinaryPrefix |-> "iec", sizeNdigits |-> 2,
   sizeSpaceBeforeUnit |-> "default", tempUnit |-> "D", tempNdigits |-> 1,
   tempColorGreen |-> "32", tempColorYellow |-> "93", tempColorRed |-> "91",
   tempSpaceBeforeUnit |-> "default", percentType |-> {"num", "num-color"},
   percentNdigits |-> 0, percentColorGreen |-> "32", percentColorYellow |-> "93",
   percentColorRed |-> "91", percentSpaceBeforeUnit |-> "default", percentWidth |-> 0,
   barCharElapsed |-> "#", barCharTotal |-> "-", barBorderLeft |-> "[ ",
   barBorderRight |-> " ]", barBorderLeftElapsed |-> "", barBorderRightElapsed |-> "",
   barColorElapsed |-> "auto", barColorTotal |-> "97", barColorBorder |-> "97",
   barWidth |-> 10, fractionNdigits |-> 2, fractionTrailingZeros |-> "default",
   noBuffer |-> FALSE, keyWidth |-> 0, keyType |-> "string", keyPaddingLeft |-> 0,
   keyLanguage |-> "en", freqNdigits |-> 2, freqSpaceBeforeUnit |-> "default",
   constants |-> <<>>]

DisplayArguments ==
  [stat |-> {-1, 0, 5}, showErrors |-> BOOLEAN, pipe |-> BOOLEAN, disableLinewrap |-> BOOLEAN,
   hideCursor |-> BOOLEAN, keyValueSeparator |-> {"", "x"}, colorKeys |-> Colors,
   colorTitle |-> Colors, colorOutput |-> Colors, colorSeparator |-> Colors,
   brightColor |-> BOOLEAN, durationAbbreviation |-> BOOLEAN,
   durationSpaceBeforeUnit |-> Spaces, sizeMaxPrefix |-> SizePrefixes,
   sizeBinaryPrefix |-> {"iec", "si", "jedec"}, sizeNdigits |-> 0..9,
   sizeSpaceBeforeUnit |-> Spaces, tempUnit |-> {"D", "C", "F", "K"},
   tempNdigits |-> Bytes, tempColorGreen |-> Colors, tempColorYellow |-> Colors,
   tempColorRed |-> Colors, tempSpaceBeforeUnit |-> Spaces,
   percentType |-> SUBSET (Range(Flags) \cup {"bit 5"}), percentNdigits |-> Bytes,
   percentColorGreen |-> Colors, percentColorYellow |-> Colors, percentColorRed |-> Colors,
   percentSpaceBeforeUnit |-> Spaces, percentWidth |-> Bytes, barCharElapsed |-> {"", "x"},
   barCharTotal |-> {"", "x"}, barBorderLeft |-> {"", "x"}, barBorderRight |-> {"", "x"},
   barBorderLeftElapsed |-> {"", "x"}, barBorderRightElapsed |-> {"", "x"},
   barColorElapsed |-> Colors \cup {"auto"}, barColorTotal |-> Colors,
   barColorBorder |-> Colors, barWidth |-> Bytes, fractionNdigits |-> SignedBytes,
   fractionTrailingZeros |-> Spaces, noBuffer |-> BOOLEAN, keyWidth |-> {0, 7},
   keyType |-> KeyTypes, keyPaddingLeft |-> {0, 7}, keyLanguage |-> {"en", "de", "zh_CN"},
   freqNdigits |-> SignedBytes, freqSpaceBeforeUnit |-> Spaces]

Color3(green, yellow, red) ==
  Obj(<< <<"green", Str(green)>>, <<"yellow", Str(yellow)>>, <<"red", Str(red)>> >>)

Color(o) ==
  Obj(<< <<"keys", Str(o.colorKeys)>>, <<"title", Str(o.colorTitle)>>,
         <<"output", Str(o.colorOutput)>>, <<"separator", Str(o.colorSeparator)>> >>)

Duration(o) ==
  Obj(<< <<"abbreviation", Bool(o.durationAbbreviation)>>,
         <<"spaceBeforeUnit", Str(o.durationSpaceBeforeUnit)>> >>)

Size(o) ==
  Obj(<< <<"maxPrefix", Str(o.sizeMaxPrefix)>>, <<"binaryPrefix", Str(o.sizeBinaryPrefix)>>,
         <<"ndigits", Num(o.sizeNdigits)>>, <<"spaceBeforeUnit", Str(o.sizeSpaceBeforeUnit)>> >>)

Temp(o) ==
  Obj(<< <<"unit", Str(o.tempUnit)>>, <<"ndigits", Num(o.tempNdigits)>>,
         <<"color", Color3(o.tempColorGreen, o.tempColorYellow, o.tempColorRed)>>,
         <<"spaceBeforeUnit", Str(o.tempSpaceBeforeUnit)>> >>)

Percent(o) ==
  Obj(<< <<"type", Arr(SelectSeq(Flags, LAMBDA f : f \in o.percentType))>>,
         <<"ndigits", Num(o.percentNdigits)>>,
         <<"color", Color3(o.percentColorGreen, o.percentColorYellow, o.percentColorRed)>>,
         <<"spaceBeforeUnit", Str(o.percentSpaceBeforeUnit)>>,
         <<"width", Num(o.percentWidth)>> >>)

Bar(o) ==
  Obj(<< <<"char", Obj(<< <<"elapsed", Str(o.barCharElapsed)>>,
                          <<"total", Str(o.barCharTotal)>> >>)>>,
         <<"border", Obj(<< <<"left", Str(o.barBorderLeft)>>, <<"right", Str(o.barBorderRight)>>,
                            <<"leftElapsed", Str(o.barBorderLeftElapsed)>>,
                            <<"rightElapsed", Str(o.barBorderRightElapsed)>> >>)>>,
         <<"color", Obj(<< <<"elapsed", Str(o.barColorElapsed)>>,
                           <<"total", Str(o.barColorTotal)>>,
                           <<"border", Str(o.barColorBorder)>> >>)>>,
         <<"width", Num(o.barWidth)>> >>)

Fraction(o) ==
  Obj(<< <<"ndigits", IF o.fractionNdigits < 0 THEN Null ELSE Num(o.fractionNdigits)>>,
         <<"trailingZeros", Str(o.fractionTrailingZeros)>> >>)

Key(o) ==
  Obj(<< <<"width", Num(o.keyWidth)>>, <<"type", Str(o.keyType)>>,
         <<"paddingLeft", Num(o.keyPaddingLeft)>>, <<"language", Str(o.keyLanguage)>> >>)

Freq(o) ==
  Obj(<< <<"ndigits", Num(o.freqNdigits)>>, <<"spaceBeforeUnit", Str(o.freqSpaceBeforeUnit)>> >>)

(* stat comes before showErrors, which it implies when it is read.          *)
Stat(o) == <<"stat", IF o.stat <= 0 THEN Bool(o.stat = 0) ELSE Num(o.stat)>>

GenerateDisplay(o) ==
  Obj(<< Stat(o), <<"pipe", Bool(o.pipe)>>, <<"showErrors", Bool(o.showErrors)>>,
         <<"disableLinewrap", Bool(o.disableLinewrap)>>,
         <<"hideCursor", Bool(o.hideCursor)>>, <<"separator", Str(o.keyValueSeparator)>>,
         <<"color", Color(o)>>, <<"brightColor", Bool(o.brightColor)>>,
         <<"duration", Duration(o)>>, <<"size", Size(o)>>, <<"temp", Temp(o)>>,
         <<"percent", Percent(o)>>, <<"bar", Bar(o)>>, <<"fraction", Fraction(o)>>,
         <<"noBuffer", Bool(o.noBuffer)>>, <<"key", Key(o)>>, <<"freq", Freq(o)>>,
         <<"constants", Arr(o.constants)>> >>)
-----------------------------------------------------------------------------
ParseStat(o, j) ==
  CASE j.t = "bool" -> IF j.v THEN {[o EXCEPT !.stat = 0, !.showErrors = TRUE]}
                       ELSE {[o EXCEPT !.stat = -1]}
    [] IsUint(j) -> {[o EXCEPT !.stat = j.v, !.showErrors = TRUE]}
    [] OTHER -> {}

ParseColor(o, key, j) ==
  Put(o, [keys |-> "colorKeys", title |-> "colorTitle", output |-> "colorOutput",
          separator |-> "colorSeparator"][key], GetStr(j))

ParseDuration(o, key, j) ==
  CASE key = "abbreviation" -> Put(o, "durationAbbreviation", GetBool(j))
    [] key = "spaceBeforeUnit" -> Put(o, "durationSpaceBeforeUnit", EnumOf(j, Spaces))

ParseSize(o, key, j) ==
  CASE key = "maxPrefix" -> Put(o, "sizeMaxPrefix", EnumOf(j, SizePrefixes))
    [] key = "binaryPrefix" -> Put(o, "sizeBinaryPrefix", EnumOf(j, {"iec", "si", "jedec"}))
    [] key = "ndigits" -> Put(o, "sizeNdigits", IntIn(j, 0, 9))
    [] key = "spaceBeforeUnit" -> Put(o, "sizeSpaceBeforeUnit", EnumOf(j, Spaces))

ParseTempColor(o, key, j) ==
  Put(o, [green |-> "tempColorGreen", yellow |-> "tempColorYellow",
          red |-> "tempColorRed"][key], GetStr(j))

ParseTemp(o, key, j) ==
  CASE key = "unit" -> Put(o, "tempUnit", EnumOf(j, {"D", "C", "F", "K"}))
    [] key = "ndigits" -> Put(o, "tempNdigits", IntIn(j, 0, 9))
    [] key = "color" -> ForEach(o, j, ParseTempColor)
    [] key = "spaceBeforeUnit" -> Put(o, "tempSpaceBeforeUnit", EnumOf(j, Spaces))

ParsePercentColor(o, key, j) ==
  Put(o, [green |-> "percentColorGreen", yellow |-> "percentColorYellow",
          red |-> "percentColorRed"][key], GetStr(j))

ParsePercentType(j) ==
  IF j.t = "arr" /\ Range(j.v) \subseteq Range(Flags) THEN {Range(j.v)} ELSE {}

ParsePercent(o, key, j) ==
  CASE key = "type" -> Put(o, "percentType", ParsePercentType(j))
    [] key = "ndigits" -> Put(o, "percentNdigits", IntIn(j, 0, 9))
    [] key = "color" -> ForEach(o, j, ParsePercentColor)
    [] key = "spaceBeforeUnit" -> Put(o, "percentSpaceBeforeUnit", EnumOf(j, Spaces))
    [] key = "width" -> Put(o, "percentWidth", GetUint(j, 8))

ParseBarChar(o, key, j) ==
  Put(o, [elapsed |-> "barCharElapsed", total |-> "barCharTotal"][key], GetStr(j))

ParseBarBorder(o, key, j) ==
  Put(o, [left |-> "barBorderLeft", right |-> "barBorderRight",
          leftElapsed |-> "barBorderLeftElapsed",
          rightElapsed |-> "barBorderRightElapsed"][key], GetStr(j))

ParseBarColor(o, key, j) ==
  Put(o, [elapsed |-> "barColorElapsed", total |-> "barColorTotal",
          border |-> "barColorBorder"][key], GetStr(j))

ParseBar(o, key, j) ==
  CASE key = "char" -> ForEach(o, j, ParseBarChar)
    [] key = "border" -> ForEach(o, j, ParseBarBorder)
    [] key = "color" -> ForEach(o, j, ParseBarColor)
    [] key = "width" -> Put(o, "barWidth", GetUint(j, 8))

NdigitsOrNull(j) == IF j.t = "null" THEN {-1} ELSE IntIn(j, -1, 9)

ParseFraction(o, key, j) ==
  CASE key = "ndigits" -> Put(o, "fractionNdigits", NdigitsOrNull(j))
    [] key = "trailingZeros" ->
         Put(o, "fractionTrailingZeros", IF j.t = "null" THEN {"default"} ELSE EnumOf(j, Spaces))

ParseKey(o, key, j) ==
  CASE key = "width" -> Put(o, "keyWidth", GetUint(j, 16))
    [] key = "type" -> Put(o, "keyType", EnumOf(j, KeyTypes))
    [] key = "paddingLeft" -> Put(o, "keyPaddingLeft", GetUint(j, 16))
    [] key = "language" -> Put(o, "keyLanguage", GetStr(j))

ParseFreq(o, key, j) ==
  CASE key = "ndigits" -> Put(o, "freqNdigits", NdigitsOrNull(j))
    [] key = "spaceBeforeUnit" -> Put(o, "freqSpaceBeforeUnit", EnumOf(j, Spaces))

ParseDisplay(o, key, j) ==
  CASE key = "stat" -> ParseStat(o, j)
    [] key \in {"pipe", "showErrors", "disableLinewrap", "hideCursor", "brightColor",
                "noBuffer"} -> Put(o, key, GetBool(j))
    [] key = "separator" -> Put(o, "keyValueSeparator", GetStr(j))
    [] key = "color" -> ForEach(o, j, ParseColor)
    [] key = "duration" -> ForEach(o, j, ParseDuration)
    [] key = "size" -> ForEach(o, j, ParseSize)
    [] key = "temp" -> ForEach(o, j, ParseTemp)
    [] key = "percent" -> ForEach(o, j, ParsePercent)
    [] key = "bar" -> ForEach(o, j, ParseBar)
    [] key = "fraction" -> ForEach(o, j, ParseFraction)
    [] key = "key" -> ForEach(o, j, ParseKey)
    [] key = "freq" -> ForEach(o, j, ParseFreq)
    [] key = "constants" -> Put(o, "constants", {o.constants \o j.v})
    [] OTHER -> {}
=============================================================================
