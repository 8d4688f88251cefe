------------------------------ MODULE MCPasses ------------------------------
(* The programs TLC runs Passes on: every list of at most three modules of  *)
(* the given kinds, with and without --watch.                               *)
EXTENDS Passes

Kind(type, gate, parallel, fatal) ==
  [type |-> type, gate |-> gate, parallel |-> parallel, fatal |-> fatal]

Lists(kinds, n) == UNION {[1..k -> kinds] : k \in 0..n}

Runs(lists, structure, disabled) ==
  {p \in [modules : lists, structure : {structure}, disabled : disabled,
          watch : BOOLEAN, json : BOOLEAN] : ~(p.watch /\ p.json)}

(* What can be configured and is not refused in the middle of a print pass. *)
SoundKinds ==
  {Kind("command", "none", TRUE, FALSE), Kind("command", "none", FALSE, FALSE),
   Kind("command", "mismatch", TRUE, FALSE), Kind("command", "yes", FALSE, FALSE),
   Kind("weather", "none", TRUE, FALSE), Kind("weather", "no", TRUE, FALSE),
   Kind("publicip", "none", TRUE, TRUE), Kind("publicip", "yes", TRUE, TRUE),
   Kind("other", "none", TRUE, FALSE), Kind("other", "no", TRUE, TRUE),
   Kind("broken", "none", TRUE, FALSE)}

StructureKinds ==
  {Kind(t, "none", TRUE, FALSE) : t \in {"command", "weather", "other"}}

SoundPrograms ==
  Runs(Lists(SoundKinds, 3), FALSE, {{}, {"command"}})
    \cup Runs(Lists(StructureKinds, 3), TRUE, {{}, {"command"}})
=============================================================================
