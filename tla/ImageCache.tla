----------------------------- MODULE ImageCache -----------------------------
(* The cache of rendered image logos (logo/image/image.c): a directory for  *)
(* each image and size, with a file for each rendering, files for the size  *)
(* and the frame, and one for the mtime of the image. The files outlive the *)
(* runs of fastfetch that write them, one after another; a run may be       *)
(* interrupted at any point, and the image may be edited at any time.       *)
EXTENDS Naturals, Sequences, Functions

CONSTANTS Scenarios,       \* what fastfetch is asked for, see Scenario
          MaxRuns, MaxEdits, \* bounds
          None             \* nothing was shown from the cache

Payloads == {"sixel", "kittyc", "kittyu", "kittyanim", "chafa"}
Files == Payloads \cup {"mtime", "width", "height", "frame"}

(* --logo-type, --logo-animation-frame and --logo-cache of a run.           *)
Request == [type : {"sixel", "kitty", "chafa"},
            frame : {"first", "other", "animate"},
            cache : {"on", "off", "regen"}]

(* Whether a run may be interrupted, the image has more frames than one,    *)
(* and there is a zlib.                                                     *)
Scenario == [requests : SUBSET Request, interrupts : BOOLEAN,
             animated : BOOLEAN, zlib : BOOLEAN]

ASSUME ScenariosAssumption == Scenarios \subseteq Scenario

(* A file that was written holds a version of the image, or its mtime, and  *)
(* a frame. From one that is absent or torn zero is read, or the first      *)
(* frame: these are the initial values of what is read into.                *)
Written(version, frame) == [state |-> "whole", version |-> version, frame |-> frame]
Absent == [state |-> "absent", version |-> 0, frame |-> "first"]
Torn == [state |-> "torn", version |-> 0, frame |-> "first"]

VARIABLES scenario,
          source,          \* the version of the image
          files,
          pc, request, sourceMtime, picture, todo,  \* the run, if there is one
          fromCache,       \* what the last run showed from the cache
          astray,          \* payloads that what is recorded beside them is not true of
          made,            \* what the cache has to have, see Keeps
          runs

disk == <<source, files, astray>>
run == <<request, sourceMtime, picture>>
cacheVars == <<scenario, disk, pc, run, todo, fromCache, made, runs>>
-----------------------------------------------------------------------------
(* printImageIfExistsSlowPath: mtime is 0 if it cannot be read.             *)
Removal == <<"mtime", "width", "height", "sixel", "kittyc", "kittyu",
             "kittyanim", "chafa", "frame">>

ToClean == pc' = "clean" /\ todo' = Removal
ToDecode == pc' = "decode" /\ todo' = <<>>

StartRun(r) ==
  /\ pc = "idle" /\ runs < MaxRuns
  /\ runs' = runs + 1 /\ request' = r /\ sourceMtime' \in {source, 0} /\ fromCache' = None
  /\ \/ r.cache = "on" /\ sourceMtime' # 0 /\ pc' = "look" /\ todo' = <<>>
     \/ (r.cache = "regen" \/ (r.cache = "on" /\ sourceMtime' = 0)) /\ ToClean
     \/ r.cache = "off" /\ ToDecode
  /\ UNCHANGED <<scenario, disk, picture, made>>

(* printCachedPixel and printCachedChars.                                   *)
Animation(r) == r.type = "kitty" /\ r.frame = "animate"

Payload ==
  CASE Animation(request) -> "kittyanim"
    [] request.type = "kitty" /\ request.frame # "animate"
         -> IF files["kittyc"] # Absent THEN "kittyc" ELSE "kittyu"
    [] OTHER -> request.type

Unchanged == files["mtime"].version = sourceMtime

SizeKnown == /\ files["width"].version # 0
             /\ files["height"].version # 0

FrameRight == request.frame = files["frame"].frame

Entry == /\ Unchanged
         /\ request.type = "chafa" \/ SizeKnown
         /\ Animation(request) \/ FrameRight
         /\ files[Payload] # Absent

(* Of torn files, those of pixels are sent as they are, an animation does   *)
(* not parse, and characters are printed unless there are none.             *)
Usable == files[Payload] = Torn => ~Animation(request)
Rejected == ~Entry \/ ~Usable \/ (files[Payload] = Torn /\ request.type = "chafa")

Hit ==
  /\ pc = "look" /\ Entry /\ Usable
  /\ fromCache' = [payload |-> files[Payload], astray |-> Payload \in astray,
               request |-> request, mtime |-> sourceMtime]
  /\ pc' = "idle"
  /\ UNCHANGED <<scenario, disk, run, todo, made, runs>>

Miss ==
  /\ pc = "look" /\ Rejected
  /\ IF Unchanged THEN ToDecode ELSE ToClean
  /\ UNCHANGED <<scenario, disk, run, fromCache, made, runs>>

(* removeCachedFiles                                                        *)
RemoveCachedFiles ==
  /\ pc = "clean"
  /\ IF todo = <<>>
     THEN ToDecode /\ UNCHANGED <<files, astray, made>>
     ELSE /\ files' = [files EXCEPT ![Head(todo)] = Absent]
          /\ astray' = astray \ {Head(todo)}
          /\ todo' = Tail(todo) /\ made' = {}
          /\ UNCHANGED pc
  /\ UNCHANGED <<scenario, source, run, fromCache, runs>>
-----------------------------------------------------------------------------
(* What is written, and in which order: printImageSixel, printImageKitty,   *)
(* printImageChafa, encodeKittyAnimation, which also writes the only frame  *)
(* of an image that has but one, and the mtime at last.                     *)
Sizes == <<"width", "height">>
KittyStill == <<IF scenario.zlib THEN "kittyc" ELSE "kittyu">> \o Sizes \o <<"frame">>

Rendering ==
  CASE Animation(request) /\ scenario.animated  -> <<"kittyanim">> \o Sizes
    [] Animation(request) /\ ~scenario.animated -> <<"kittyanim">> \o KittyStill
    [] request.type = "kitty" /\ request.frame # "animate" -> KittyStill
    [] request.type = "sixel" -> <<"sixel">> \o Sizes \o <<"frame">>
    [] request.type = "chafa" -> <<"chafa", "frame">>

ToWriteNoFrame ==           \* mutant: the frame is not recorded
  SelectSeq(Rendering, LAMBDA f : f # "frame") \o <<"mtime">>

ToWrite == Rendering \o <<"mtime">>

(* The image is read, or cannot be; only kitty plays an animation.          *)
DecodeFails ==
  /\ pc = "decode" /\ pc' = "idle"
  /\ UNCHANGED <<scenario, disk, run, todo, fromCache, made, runs>>

Decode ==
  /\ pc = "decode" /\ (request.frame = "animate" => request.type = "kitty")
  /\ picture' = source
  /\ pc' = "write" /\ todo' = IF request.cache = "off" THEN <<>> ELSE ToWrite
  /\ UNCHANGED <<scenario, disk, request, sourceMtime, fromCache, made, runs>>

(* A rendering that is added to those of other runs, whose mtime is there.   *)
Beside == files["mtime"].version # 0 /\ "mtime" \in Range(todo)

Stills == Payloads \ {"kittyanim"}
Rendered == {f \in Payloads : f \in Range(ToWrite) /\ f \notin Range(todo)}

(* The frame that is recorded is not that of the rendering.                  *)
OtherFrame == "frame" \in Range(todo) /\ files["frame"].frame # request.frame

(* "Switching --logo-protocol between two protocols that both have a payload *)
(* here, and asking for different frames" (image.c:477): the record is of    *)
(* the payload that was written last.                                        *)
Outdated == IF Beside /\ OtherFrame /\ Head(todo) = "frame" THEN Stills \ Rendered ELSE {}

(* ffWriteFileData: the file is truncated, and then written.                *)
Truncate ==
  /\ pc = "write" /\ todo # <<>>
  /\ files' = [files EXCEPT ![Head(todo)] = Torn]
  /\ astray' = astray \cup Outdated
  /\ pc' = "fill"
  /\ UNCHANGED <<scenario, source, run, todo, fromCache, made, runs>>

FillRestamps ==            \* mutant: the mtime that is recorded is that of now
  /\ pc = "fill"
  /\ LET f == Head(todo)
     IN files' = [files EXCEPT ![f] = Written(IF f = "mtime" THEN source ELSE picture,
                                              request.frame)]
  /\ astray' = astray \ {Head(todo)}
  /\ pc' = "write" /\ todo' = Tail(todo)
  /\ UNCHANGED <<scenario, source, run, fromCache, made, runs>>

Fill ==
  /\ pc = "fill"
  /\ LET f == Head(todo)
     IN files' = [files EXCEPT ![f] = Written(IF f = "mtime" THEN sourceMtime ELSE picture,
                                              request.frame)]
  /\ astray' = astray \ {Head(todo)}
  /\ pc' = "write" /\ todo' = Tail(todo)
  /\ UNCHANGED <<scenario, source, run, fromCache, made, runs>>

(* Renderings of the same version whose frame is the recorded one, and the  *)
(* animation, are there for the next run.                                   *)
Keeps == {x \in made : /\ x.version = sourceMtime
                       /\ x.frame = "animate" \/ x.frame = files["frame"].frame}

FinishRun ==
  /\ pc = "write" /\ todo = <<>>
  /\ made' = CASE request.cache = "off" -> made
               [] request.cache # "off" /\ picture = sourceMtime
                    -> Keeps \cup {[type |-> request.type, frame |-> request.frame,
                                    version |-> picture]}
               [] OTHER -> {}
  /\ pc' = "idle"
  /\ UNCHANGED <<scenario, disk, run, todo, fromCache, runs>>

(* exitSignalHandler, a crash, or the end of power. A run that found the     *)
(* image unchanged, but not this payload of it, did not remove the mtime: it *)
(* leaves a payload that is torn, or one whose frame is not recorded.        *)
Torso == IF pc = "fill" /\ Head(todo) \in Payloads THEN {Head(todo)} ELSE {}
Unrecorded ==
  IF ~OtherFrame THEN {} ELSE IF files["frame"] = Torn THEN Stills ELSE Stills \cap Rendered

Interrupt ==
  /\ scenario.interrupts /\ pc # "idle"
  /\ astray' = IF pc \in {"write", "fill"} /\ Beside THEN astray \cup Torso \cup Unrecorded
               ELSE astray
  /\ pc' = "idle" /\ made' = {}
  /\ UNCHANGED <<scenario, source, files, run, todo, fromCache, runs>>

Edit ==
  /\ source < MaxEdits + 1
  /\ source' = source + 1
  /\ UNCHANGED <<scenario, files, astray, pc, run, todo, fromCache, made, runs>>
-----------------------------------------------------------------------------
InitCache ==
  /\ scenario \in Scenarios
  /\ source = 1 /\ files = [f \in Files |-> Absent] /\ astray = {}
  /\ pc = "idle" /\ request \in scenario.requests
  /\ sourceMtime = 0 /\ picture = 0 /\ todo = <<>>
  /\ fromCache = None /\ made = {} /\ runs = 0

NextCache ==
  \/ \E r \in scenario.requests : StartRun(r)
  \/ Hit \/ Miss \/ RemoveCachedFiles
  \/ DecodeFails \/ Decode \/ Truncate \/ Fill \/ FinishRun
  \/ Interrupt \/ Edit

CacheSpec == InitCache /\ [][NextCache]_cacheVars
-----------------------------------------------------------------------------
(* What is shown from the cache is whole, is of the image as it was when    *)
(* the run looked at its mtime, and is the frame that was asked for: an     *)
(* entry "is never mistaken for a complete one" (image.c:482). What is      *)
(* known to go astray is what is added to an entry and interrupted, and the *)
(* payload of one protocol with the frame of another (image.c:477).         *)
ShownRight ==
  fromCache # None =>
    fromCache.astray \/ fromCache.payload = Written(fromCache.mtime, fromCache.request.frame)

(* The image is only decoded again if it has to be: a rendering that was    *)
(* made of it is found, whatever else was made with the same frame since.   *)
MissesJustified ==
  pc \in {"clean", "decode"} /\ request.cache = "on" /\ sourceMtime # 0 =>
    [type |-> request.type, frame |-> request.frame, version |-> sourceMtime] \notin made
=============================================================================
