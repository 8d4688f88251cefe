---------------------------- MODULE MCImageCache ----------------------------
(* Four runs on an image that is edited twice.                              *)
EXTENDS ImageCache

Asked(types, frames) == [type : types, frame : frames, cache : {"on", "off", "regen"}]

Of(requests, interrupts, animated) ==
  [requests : requests, interrupts : {interrupts}, animated : animated, zlib : {TRUE}]

Types == {"sixel", "kitty", "chafa"}
StillFrames == {"first", "other"}

(* Two protocols and two frames, or the animation and a frame, interrupted *)
(* anywhere; or all of them, and none of the runs interrupted.              *)
SoundScenarios ==
  Of({Asked({"sixel", "kitty"}, StillFrames)}, TRUE, {TRUE})
    \cup Of({Asked({"kitty", "chafa"}, {"other", "animate"})}, TRUE, BOOLEAN)
    \cup Of({Asked(Types, StillFrames \cup {"animate"})}, FALSE, BOOLEAN)
    \cup [requests : {Asked({"kitty"}, StillFrames)}, interrupts : {TRUE},
          animated : {TRUE}, zlib : {FALSE}]
=============================================================================
