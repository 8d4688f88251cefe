------------------------- MODULE ProcessOutputProofs -------------------------
(* The children of ProcessOutput, for any number of them, any pipe and any  *)
(* scripts.                                                                 *)
EXTENDS ProcessOutput, TLAPS

(* A child that ended had written all, unless it was killed or its pipe was *)
(* closed; it has nothing open.                                             *)
EndedOK == \A c \in Children :
  /\ child[c] \in {"zombie", "reaped"} => ~writing[c]
  /\ (child[c] = "zombie" /\ reading[c] /\ ~termed[c])
       => written[c] = script[c].writes /\ script[c].end # "hang"

(* The output of a child that is waited for without having been killed is   *)
(* all there.                                                               *)
ClosedOK == \A c \in Children :
  (child[c] = "running" /\ ~writing[c]) => written[c] = script[c].writes

(* What the parent has and has not done with a child.                       *)
Handled(c) ==
  /\ (pc = "spawn" /\ at <= c) => child[c] = "unborn" /\ result[c] = "none"
  /\ (child[c] # "unborn" /\ (pc = "spawn" \/ at <= c))
       => result[c] = "none" /\ reading[c] /\ child[c] \in {"running", "zombie"}
  /\ (termed[c] /\ result[c] = "none") => pc = "reap" /\ at = c
  /\ (pc \in {"read", "wait", "reap"} /\ at = c) => child[c] # "unborn"
  /\ (pc = "wait" /\ at = c) => pipe[c] = 0 /\ ~writing[c] /\ ~termed[c]

ParentOK == \A c \in Children : Handled(c)

Inv == TypeOK /\ EndedOK /\ ClosedOK /\ ParentOK /\ OkIsComplete /\ Reaped

LEMMA Types ==
  ASSUME TypeOK
  PROVE  /\ script \in [Children -> Scripts] /\ timeout \in BOOLEAN /\ ignored \in BOOLEAN
         /\ child \in [Children -> {"unborn", "running", "zombie", "reaped"}]
         /\ writing \in [Children -> BOOLEAN] /\ held \in [Children -> BOOLEAN]
         /\ termed \in [Children -> BOOLEAN] /\ reading \in [Children -> BOOLEAN]
         /\ written \in [Children -> Nat] /\ got \in [Children -> Nat]
         /\ pipe \in [Children -> 0..Capacity]
         /\ pc \in {"spawn", "poll", "read", "wait", "reap"}
         /\ at \in 1..(N + 1)
         /\ result \in [Children -> {"none", "ok", "command not found", "abnormally",
                              "posix_spawnp() failed", "read() failed", "timeout"}]
BY DEF TypeOK

LEMMA Numbers ==
  ASSUME TypeOK
  PROVE  /\ \A c \in Children : c \in Nat /\ c + 1 \in 1..(N + 1)
         /\ at \in Nat
         /\ \A c \in Children : /\ script[c].writes \in Nat /\ written[c] \in Nat
                                /\ got[c] \in Nat /\ pipe[c] \in Nat
<1>0. at \in 1..(N + 1)  BY Types
<1>1. at \in Nat  BY <1>0
<1>2. \A c \in Children : c \in Nat /\ c + 1 \in 1..(N + 1)
  BY NAssumption DEF Children
<1>3. ASSUME NEW c \in Children  PROVE  /\ script[c].writes \in Nat /\ written[c] \in Nat
                                        /\ got[c] \in Nat /\ pipe[c] \in Nat
  <2>1. script[c] \in Script  BY Types, ScriptsAssumption
  <2>2. script[c].writes \in Nat  BY <2>1 DEF Script
  <2>3. pipe[c] \in 0..Capacity  BY Types
  <2>4. written[c] \in Nat /\ got[c] \in Nat  BY Types
  <2>5. pipe[c] \in Nat  BY <2>3
  <2>. QED BY <2>2, <2>4, <2>5
<1>. QED BY <1>1, <1>2, <1>3

LEMMA WriteStep ==
  ASSUME Inv, NEW c \in Children, Write(c)
  PROVE  Inv'
<1>1. /\ TypeOK /\ Units /\ EndedOK /\ ClosedOK /\ ParentOK
      /\ OkIsComplete /\ Reaped
  BY DEF Inv, TypeOK
<1>2. child \in [Children -> {"unborn", "running", "zombie", "reaped"}]
  BY <1>1, Types
<1>3. writing \in [Children -> BOOLEAN]
  BY <1>1, Types
<1>4. written \in [Children -> Nat]
  BY <1>1, Types
<1>5. pipe \in [Children -> 0..Capacity]
  BY <1>1, Types
<1>6. at \in Nat /\ \A d \in Children : d \in Nat
  BY <1>1, Numbers
<1>7. \A d \in Children : /\ script[d].writes \in Nat /\ written[d] \in Nat
                            /\ got[d] \in Nat /\ pipe[d] \in Nat
  BY <1>1, Numbers
<1>8. Units'
  BY <1>1, <1>7, <1>4, <1>5 DEF Units, Write, external
<1>9. TypeOK'
  <2>1. (/\ child \in [Children -> {"unborn", "running", "zombie", "reaped"}]
         /\ written \in [Children -> Nat]
         /\ pipe \in [Children -> 0..Capacity])'
    BY <1>2, <1>4, <1>5, CapacityAssumption DEF Write, Dies
  <2>2. (/\ writing \in [Children -> BOOLEAN])'
    BY <1>3 DEF Write, Dies
  <2>3. (/\ script \in [Children -> Scripts] /\ timeout \in BOOLEAN /\ ignored \in BOOLEAN
         /\ held \in [Children -> BOOLEAN]
         /\ termed \in [Children -> BOOLEAN]
         /\ reading \in [Children -> BOOLEAN]
         /\ got \in [Children -> Nat]
         /\ result \in [Children -> {"none", "ok", "command not found", "abnormally",
                              "posix_spawnp() failed", "read() failed", "timeout"}])'
    BY <1>1, Types DEF Write, external
  <2>4. (pc \in {"spawn", "poll", "read", "wait", "reap"})'
    BY <1>1, Types DEF Write
  <2>5. (at \in 1..(N + 1))'
    BY <1>1, Types DEF Write
  <2>. QED BY <1>8, <2>1, <2>2, <2>3, <2>4, <2>5 DEF TypeOK
<1>10. EndedOK'
  BY <1>1, <1>2, <1>3, <1>4 DEF EndedOK, Write, Dies, external
<1>11. ClosedOK'
  BY <1>1, <1>2, <1>3, <1>4 DEF ClosedOK, Write, Dies, external
<1>12. ParentOK'
  <2>1. Handled(c)'
    BY <1>1, <1>6, <1>7 DEF ParentOK, Handled, ClosedOK, Write
  <2>2. ASSUME NEW d \in Children, d # c  PROVE Handled(d)'
    BY <1>1, <1>2, <1>3, <1>5, <2>2 DEF ParentOK, Handled, Write, Dies
  <2>. QED BY <2>1, <2>2 DEF ParentOK
<1>13. OkIsComplete'
  BY <1>1 DEF OkIsComplete, Write, external
<1>14. Reaped'
  BY <1>1, <1>2 DEF Reaped, Write, Dies
<1>. QED BY <1>9, <1>10, <1>11, <1>12, <1>13, <1>14 DEF Inv

LEMMA CloseOutputStep ==
  ASSUME Inv, NEW c \in Children, CloseOutput(c)
  PROVE  Inv'
<1>1. /\ TypeOK /\ Units /\ EndedOK /\ ClosedOK /\ ParentOK
      /\ OkIsComplete /\ Reaped
  BY DEF Inv, TypeOK
<1>2. writing \in [Children -> BOOLEAN]
  BY <1>1, Types
<1>3. at \in Nat /\ \A d \in Children : d \in Nat
  BY <1>1, Numbers
<1>4. \A d \in Children : /\ script[d].writes \in Nat /\ written[d] \in Nat
                            /\ got[d] \in Nat /\ pipe[d] \in Nat
  BY <1>1, Numbers
<1>5. Units'
  BY <1>1 DEF Units, CloseOutput, external
<1>6. TypeOK'
  <2>1. (/\ writing \in [Children -> BOOLEAN])'
    BY <1>2 DEF CloseOutput
  <2>2. (/\ script \in [Children -> Scripts] /\ timeout \in BOOLEAN /\ ignored \in BOOLEAN
         /\ child \in [Children -> {"unborn", "running", "zombie", "reaped"}]
         /\ held \in [Children -> BOOLEAN]
         /\ termed \in [Children -> BOOLEAN]
         /\ reading \in [Children -> BOOLEAN]
         /\ written \in [Children -> Nat]
         /\ got \in [Children -> Nat]
         /\ pipe \in [Children -> 0..Capacity]
         /\ result \in [Children -> {"none", "ok", "command not found", "abnormally",
                              "posix_spawnp() failed", "read() failed", "timeout"}])'
    BY <1>1, Types DEF CloseOutput, external
  <2>3. (pc \in {"spawn", "poll", "read", "wait", "reap"})'
    BY <1>1, Types DEF CloseOutput
  <2>4. (at \in 1..(N + 1))'
    BY <1>1, Types DEF CloseOutput
  <2>. QED BY <1>5, <2>1, <2>2, <2>3, <2>4 DEF TypeOK
<1>7. EndedOK'
  BY <1>1 DEF EndedOK, CloseOutput, external
<1>8. ClosedOK'
  BY <1>1 DEF ClosedOK, CloseOutput, external
<1>9. ParentOK'
  BY <1>1 DEF ParentOK, Handled, CloseOutput
<1>10. OkIsComplete'
  BY <1>1 DEF OkIsComplete, CloseOutput, external
<1>11. Reaped'
  BY <1>1 DEF Reaped, CloseOutput
<1>. QED BY <1>6, <1>7, <1>8, <1>9, <1>10, <1>11 DEF Inv

LEMMA EndStep ==
  ASSUME Inv, NEW c \in Children, End(c)
  PROVE  Inv'
<1>1. /\ TypeOK /\ Units /\ EndedOK /\ ClosedOK /\ ParentOK
      /\ OkIsComplete /\ Reaped
  BY DEF Inv, TypeOK
<1>2. child \in [Children -> {"unborn", "running", "zombie", "reaped"}]
  BY <1>1, Types
<1>3. writing \in [Children -> BOOLEAN]
  BY <1>1, Types
<1>4. at \in Nat /\ \A d \in Children : d \in Nat
  BY <1>1, Numbers
<1>5. \A d \in Children : /\ script[d].writes \in Nat /\ written[d] \in Nat
                            /\ got[d] \in Nat /\ pipe[d] \in Nat
  BY <1>1, Numbers
<1>6. Units'
  BY <1>1 DEF Units, End, external
<1>7. TypeOK'
  <2>1. (/\ child \in [Children -> {"unborn", "running", "zombie", "reaped"}])'
    BY <1>2 DEF End, Dies
  <2>2. (/\ writing \in [Children -> BOOLEAN])'
    BY <1>3 DEF End, Dies
  <2>3. (/\ script \in [Children -> Scripts] /\ timeout \in BOOLEAN /\ ignored \in BOOLEAN
         /\ held \in [Children -> BOOLEAN]
         /\ termed \in [Children -> BOOLEAN]
         /\ reading \in [Children -> BOOLEAN]
         /\ written \in [Children -> Nat]
         /\ got \in [Children -> Nat]
         /\ pipe \in [Children -> 0..Capacity]
         /\ result \in [Children -> {"none", "ok", "command not found", "abnormally",
                              "posix_spawnp() failed", "read() failed", "timeout"}])'
    BY <1>1, Types DEF End, external
  <2>4. (pc \in {"spawn", "poll", "read", "wait", "reap"})'
    BY <1>1, Types DEF End
  <2>5. (at \in 1..(N + 1))'
    BY <1>1, Types DEF End
  <2>. QED BY <1>6, <2>1, <2>2, <2>3, <2>4, <2>5 DEF TypeOK
<1>8. EndedOK'
  BY <1>1, <1>3 DEF EndedOK, End, Dies, external
<1>9. ClosedOK'
  BY <1>1 DEF ClosedOK, End, Dies, external
<1>10. ParentOK'
  BY <1>1 DEF ParentOK, Handled, End, Dies
<1>11. OkIsComplete'
  BY <1>1 DEF OkIsComplete, End, external
<1>12. Reaped'
  BY <1>1, <1>2 DEF Reaped, End, Dies
<1>. QED BY <1>7, <1>8, <1>9, <1>10, <1>11, <1>12 DEF Inv

LEMMA TerminatedStep ==
  ASSUME Inv, NEW c \in Children, Terminated(c)
  PROVE  Inv'
<1>1. /\ TypeOK /\ Units /\ EndedOK /\ ClosedOK /\ ParentOK
      /\ OkIsComplete /\ Reaped
  BY DEF Inv, TypeOK
<1>2. child \in [Children -> {"unborn", "running", "zombie", "reaped"}]
  BY <1>1, Types
<1>3. writing \in [Children -> BOOLEAN]
  BY <1>1, Types
<1>4. at \in Nat /\ \A d \in Children : d \in Nat
  BY <1>1, Numbers
<1>5. \A d \in Children : /\ script[d].writes \in Nat /\ written[d] \in Nat
                            /\ got[d] \in Nat /\ pipe[d] \in Nat
  BY <1>1, Numbers
<1>6. Units'
  BY <1>1 DEF Units, Terminated, external
<1>7. TypeOK'
  <2>1. (/\ child \in [Children -> {"unborn", "running", "zombie", "reaped"}])'
    BY <1>2 DEF Terminated, Dies
  <2>2. (/\ writing \in [Children -> BOOLEAN])'
    BY <1>3 DEF Terminated, Dies
  <2>3. (/\ script \in [Children -> Scripts] /\ timeout \in BOOLEAN /\ ignored \in BOOLEAN
         /\ held \in [Children -> BOOLEAN]
         /\ termed \in [Children -> BOOLEAN]
         /\ reading \in [Children -> BOOLEAN]
         /\ written \in [Children -> Nat]
         /\ got \in [Children -> Nat]
         /\ pipe \in [Children -> 0..Capacity]
         /\ result \in [Children -> {"none", "ok", "command not found", "abnormally",
                              "posix_spawnp() failed", "read() failed", "timeout"}])'
    BY <1>1, Types DEF Terminated, external
  <2>4. (pc \in {"spawn", "poll", "read", "wait", "reap"})'
    BY <1>1, Types DEF Terminated
  <2>5. (at \in 1..(N + 1))'
    BY <1>1, Types DEF Terminated
  <2>. QED BY <1>6, <2>1, <2>2, <2>3, <2>4, <2>5 DEF TypeOK
<1>8. EndedOK'
  BY <1>1, <1>3 DEF EndedOK, Terminated, Dies, external
<1>9. ClosedOK'
  BY <1>1, <1>2 DEF ClosedOK, Terminated, Dies, external
<1>10. ParentOK'
  BY <1>1 DEF ParentOK, Handled, Terminated, Dies
<1>11. OkIsComplete'
  BY <1>1 DEF OkIsComplete, Terminated, external
<1>12. Reaped'
  BY <1>1, <1>2 DEF Reaped, Terminated, Dies
<1>. QED BY <1>7, <1>8, <1>9, <1>10, <1>11, <1>12 DEF Inv

LEMMA OrphanEndsStep ==
  ASSUME Inv, NEW c \in Children, OrphanEnds(c)
  PROVE  Inv'
<1>1. /\ TypeOK /\ Units /\ EndedOK /\ ClosedOK /\ ParentOK
      /\ OkIsComplete /\ Reaped
  BY DEF Inv, TypeOK
<1>2. held \in [Children -> BOOLEAN]
  BY <1>1, Types
<1>3. at \in Nat /\ \A d \in Children : d \in Nat
  BY <1>1, Numbers
<1>4. \A d \in Children : /\ script[d].writes \in Nat /\ written[d] \in Nat
                            /\ got[d] \in Nat /\ pipe[d] \in Nat
  BY <1>1, Numbers
<1>5. Units'
  BY <1>1 DEF Units, OrphanEnds, external
<1>6. TypeOK'
  <2>1. (/\ held \in [Children -> BOOLEAN])'
    BY <1>2 DEF OrphanEnds
  <2>2. (/\ script \in [Children -> Scripts] /\ timeout \in BOOLEAN /\ ignored \in BOOLEAN
         /\ child \in [Children -> {"unborn", "running", "zombie", "reaped"}]
         /\ writing \in [Children -> BOOLEAN]
         /\ termed \in [Children -> BOOLEAN]
         /\ reading \in [Children -> BOOLEAN]
         /\ written \in [Children -> Nat]
         /\ got \in [Children -> Nat]
         /\ pipe \in [Children -> 0..Capacity]
         /\ result \in [Children -> {"none", "ok", "command not found", "abnormally",
                              "posix_spawnp() failed", "read() failed", "timeout"}])'
    BY <1>1, Types DEF OrphanEnds, external
  <2>3. (pc \in {"spawn", "poll", "read", "wait", "reap"})'
    BY <1>1, Types DEF OrphanEnds
  <2>4. (at \in 1..(N + 1))'
    BY <1>1, Types DEF OrphanEnds
  <2>. QED BY <1>5, <2>1, <2>2, <2>3, <2>4 DEF TypeOK
<1>7. EndedOK'
  BY <1>1 DEF EndedOK, OrphanEnds, external
<1>8. ClosedOK'
  BY <1>1 DEF ClosedOK, OrphanEnds, external
<1>9. ParentOK'
  BY <1>1 DEF ParentOK, Handled, OrphanEnds
<1>10. OkIsComplete'
  BY <1>1 DEF OkIsComplete, OrphanEnds, external
<1>11. Reaped'
  BY <1>1 DEF Reaped, OrphanEnds
<1>. QED BY <1>6, <1>7, <1>8, <1>9, <1>10, <1>11 DEF Inv

LEMMA SpawnStep ==
  ASSUME Inv, NEW c \in Children, Spawn(c)
  PROVE  Inv'
<1>1. /\ TypeOK /\ Units /\ EndedOK /\ ClosedOK /\ ParentOK
      /\ OkIsComplete /\ Reaped
  BY DEF Inv, TypeOK
<1>2. child \in [Children -> {"unborn", "running", "zombie", "reaped"}]
  BY <1>1, Types
<1>3. writing \in [Children -> BOOLEAN]
  BY <1>1, Types
<1>4. held \in [Children -> BOOLEAN]
  BY <1>1, Types
<1>5. reading \in [Children -> BOOLEAN]
  BY <1>1, Types
<1>6. result \in [Children -> {"none", "ok", "command not found", "abnormally",
                              "posix_spawnp() failed", "read() failed", "timeout"}]
  BY <1>1, Types
<1>7. at \in Nat /\ \A d \in Children : d \in Nat
  BY <1>1, Numbers
<1>8. \A d \in Children : /\ script[d].writes \in Nat /\ written[d] \in Nat
                            /\ got[d] \in Nat /\ pipe[d] \in Nat
  BY <1>1, Numbers
<1>9. Units'
  BY <1>1 DEF Units, Spawn, external
<1>10. TypeOK'
  <2>1. (/\ child \in [Children -> {"unborn", "running", "zombie", "reaped"}]
         /\ result \in [Children -> {"none", "ok", "command not found", "abnormally",
                              "posix_spawnp() failed", "read() failed", "timeout"}])'
    BY <1>2, <1>6 DEF Spawn, Spawned, NotSpawned, Return
  <2>2. (/\ writing \in [Children -> BOOLEAN]
         /\ held \in [Children -> BOOLEAN]
         /\ reading \in [Children -> BOOLEAN])'
    <3>1. script[c] \in Script  BY <1>1, Types, ScriptsAssumption
    <3>2. script[c].orphan \in BOOLEAN  BY <3>1 DEF Script
    <3>3. CASE Spawned(c)
      BY <3>2, <3>3, <1>1, Types DEF Spawned
    <3>4. CASE NotSpawned(c)
      BY <3>4, <1>1, Types DEF NotSpawned, Return
    <3>. QED BY <3>3, <3>4 DEF Spawn
  <2>3. (/\ script \in [Children -> Scripts] /\ timeout \in BOOLEAN /\ ignored \in BOOLEAN
         /\ termed \in [Children -> BOOLEAN]
         /\ written \in [Children -> Nat]
         /\ got \in [Children -> Nat]
         /\ pipe \in [Children -> 0..Capacity])'
    BY <1>1, Types DEF Spawn, external
  <2>4. (pc \in {"spawn", "poll", "read", "wait", "reap"})'
    BY DEF Spawn
  <2>5. (at \in 1..(N + 1))'
    BY <1>1, Numbers DEF Spawn, Spawned, NotSpawned, Return, external, process
  <2>. QED BY <1>9, <2>1, <2>2, <2>3, <2>4, <2>5 DEF TypeOK
<1>11. EndedOK'
  BY <1>1, <1>2, <1>3, <1>5 DEF EndedOK, Spawn, Spawned, NotSpawned, Return,
     external, process
<1>12. ClosedOK'
  BY <1>1, <1>2, <1>3 DEF ClosedOK, Spawn, Spawned, NotSpawned, external
<1>13. ParentOK'
  <2>1. at = c /\ pc = "spawn" /\ at' = c + 1 /\ pc' = "spawn"
    BY DEF Spawn, Spawned, NotSpawned, Return
  <2>2. \/ child'[c] = "running" /\ reading'[c] /\ result'[c] = result[c]
        \/ child'[c] = "unborn" /\ result'[c] # "none"
    <3>1. child[c] = "unborn"
      BY <1>1, <2>1, <1>7 DEF ParentOK, Handled
    <3>2. CASE Spawned(c)
      BY <3>2, <1>2, <1>5 DEF Spawned
    <3>3. CASE NotSpawned(c)
      BY <3>1, <3>3, <1>6 DEF NotSpawned, Return
    <3>. QED BY <3>2, <3>3 DEF Spawn
  <2>3. ASSUME NEW d \in Children, d # c
        PROVE  /\ result'[d] = result[d] /\ reading'[d] = reading[d]
               /\ child'[d] = child[d]
    BY <2>3, <1>2, <1>5, <1>6 DEF Spawn, Spawned, NotSpawned, Return
  <2>4. Handled(c) /\ termed' = termed
    BY <1>1 DEF ParentOK, Spawn
  <2>5. Handled(c)'
    BY <1>7, <2>1, <2>2, <2>4 DEF Handled
  <2>6. ASSUME NEW d \in Children, d # c  PROVE Handled(d)'
    <3>1. (at' <= d => at <= d) /\ at # d
      BY <1>7, <2>1, <2>6
    <3>2. Handled(d)
      BY <1>1 DEF ParentOK
    <3>. QED BY <2>1, <2>3, <2>4, <2>6, <3>1, <3>2 DEF Handled
  <2>. QED BY <2>5, <2>6 DEF ParentOK
<1>14. OkIsComplete'
  BY <1>1, <1>6 DEF OkIsComplete, Spawn, Spawned, NotSpawned, Return, external
<1>15. Reaped'
  <2>1. /\ at = c /\ pc = "spawn" /\ Handled(c)
    BY <1>1 DEF Spawn, ParentOK
  <2>2. child[c] = "unborn" /\ result[c] = "none"
    BY <2>1, <1>7 DEF Handled
  <2>3. CASE Spawned(c)
    BY <2>2, <2>3, <1>1, <1>2, <1>5 DEF Spawned, Reaped
  <2>4. CASE NotSpawned(c)
    BY <2>2, <2>4, <1>1, <1>5, <1>6 DEF NotSpawned, Return, Reaped
  <2>. QED BY <2>3, <2>4 DEF Spawn
<1>. QED BY <1>10, <1>11, <1>12, <1>13, <1>14, <1>15 DEF Inv

LEMMA SkipStep ==
  ASSUME Inv, NEW c \in Children, Skip(c)
  PROVE  Inv'
<1>1. /\ TypeOK /\ Units /\ EndedOK /\ ClosedOK /\ ParentOK
      /\ OkIsComplete /\ Reaped
  BY DEF Inv, TypeOK
<1>2. at \in Nat /\ \A d \in Children : d \in Nat
  BY <1>1, Numbers
<1>3. \A d \in Children : /\ script[d].writes \in Nat /\ written[d] \in Nat
                            /\ got[d] \in Nat /\ pipe[d] \in Nat
  BY <1>1, Numbers
<1>4. Units'
  BY <1>1 DEF Units, Skip, external, process
<1>5. TypeOK'
  <2>1. (/\ script \in [Children -> Scripts] /\ timeout \in BOOLEAN /\ ignored \in BOOLEAN
         /\ child \in [Children -> {"unborn", "running", "zombie", "reaped"}]
         /\ writing \in [Children -> BOOLEAN]
         /\ held \in [Children -> BOOLEAN]
         /\ termed \in [Children -> BOOLEAN]
         /\ reading \in [Children -> BOOLEAN]
         /\ written \in [Children -> Nat]
         /\ got \in [Children -> Nat]
         /\ pipe \in [Children -> 0..Capacity]
         /\ result \in [Children -> {"none", "ok", "command not found", "abnormally",
                              "posix_spawnp() failed", "read() failed", "timeout"}])'
    BY <1>1, Types DEF Skip, external, process
  <2>2. (pc \in {"spawn", "poll", "read", "wait", "reap"})'
    BY DEF Skip
  <2>3. (at \in 1..(N + 1))'
    BY <1>1, Numbers DEF Skip
  <2>. QED BY <1>4, <2>1, <2>2, <2>3 DEF TypeOK
<1>6. EndedOK'
  BY <1>1 DEF EndedOK, Skip, external, process
<1>7. ClosedOK'
  BY <1>1 DEF ClosedOK, Skip, external, process
<1>8. ParentOK'
  BY <1>1, <1>2 DEF ParentOK, Handled, Skip, process
<1>9. OkIsComplete'
  BY <1>1 DEF OkIsComplete, Skip, external
<1>10. Reaped'
  BY <1>1 DEF Reaped, Skip, process
<1>. QED BY <1>5, <1>6, <1>7, <1>8, <1>9, <1>10 DEF Inv

LEMMA PollStep ==
  ASSUME Inv, NEW c \in Children, Poll(c)
  PROVE  Inv'
<1>1. /\ TypeOK /\ Units /\ EndedOK /\ ClosedOK /\ ParentOK
      /\ OkIsComplete /\ Reaped
  BY DEF Inv, TypeOK
<1>2. termed \in [Children -> BOOLEAN]
  BY <1>1, Types
<1>3. at \in Nat /\ \A d \in Children : d \in Nat
  BY <1>1, Numbers
<1>4. \A d \in Children : /\ script[d].writes \in Nat /\ written[d] \in Nat
                            /\ got[d] \in Nat /\ pipe[d] \in Nat
  BY <1>1, Numbers
<1>5. Units'
  BY <1>1 DEF Units, Poll, external
<1>6. TypeOK'
  <2>1. (/\ termed \in [Children -> BOOLEAN])'
    BY <1>2 DEF Poll, Kill
  <2>2. (/\ script \in [Children -> Scripts] /\ timeout \in BOOLEAN /\ ignored \in BOOLEAN
         /\ child \in [Children -> {"unborn", "running", "zombie", "reaped"}]
         /\ writing \in [Children -> BOOLEAN]
         /\ held \in [Children -> BOOLEAN]
         /\ reading \in [Children -> BOOLEAN]
         /\ written \in [Children -> Nat]
         /\ got \in [Children -> Nat]
         /\ pipe \in [Children -> 0..Capacity]
         /\ result \in [Children -> {"none", "ok", "command not found", "abnormally",
                              "posix_spawnp() failed", "read() failed", "timeout"}])'
    BY <1>1, Types DEF Poll, Kill, external
  <2>3. (pc \in {"spawn", "poll", "read", "wait", "reap"})'
    BY DEF Poll, Kill
  <2>4. (at \in 1..(N + 1))'
    BY <1>1, Types DEF Poll, Kill
  <2>. QED BY <1>5, <2>1, <2>2, <2>3, <2>4 DEF TypeOK
<1>7. EndedOK'
  BY <1>1, <1>2 DEF EndedOK, Poll, Kill, external
<1>8. ClosedOK'
  BY <1>1 DEF ClosedOK, Poll, external
<1>9. ParentOK'
  BY <1>1, <1>2 DEF ParentOK, Handled, Poll, Kill
<1>10. OkIsComplete'
  BY <1>1 DEF OkIsComplete, Poll, Kill, external
<1>11. Reaped'
  BY <1>1 DEF Reaped, Poll, Kill
<1>. QED BY <1>6, <1>7, <1>8, <1>9, <1>10, <1>11 DEF Inv

LEMMA PollErrorStep ==
  ASSUME Inv, NEW c \in Children, PollError(c)
  PROVE  Inv'
<1>1. /\ TypeOK /\ Units /\ EndedOK /\ ClosedOK /\ ParentOK
      /\ OkIsComplete /\ Reaped
  BY DEF Inv, TypeOK
<1>2. termed \in [Children -> BOOLEAN]
  BY <1>1, Types
<1>3. at \in Nat /\ \A d \in Children : d \in Nat
  BY <1>1, Numbers
<1>4. \A d \in Children : /\ script[d].writes \in Nat /\ written[d] \in Nat
                            /\ got[d] \in Nat /\ pipe[d] \in Nat
  BY <1>1, Numbers
<1>5. Units'
  BY <1>1 DEF Units, PollError, external
<1>6. TypeOK'
  <2>1. (/\ termed \in [Children -> BOOLEAN])'
    BY <1>2 DEF PollError, Kill
  <2>2. (/\ script \in [Children -> Scripts] /\ timeout \in BOOLEAN /\ ignored \in BOOLEAN
         /\ child \in [Children -> {"unborn", "running", "zombie", "reaped"}]
         /\ writing \in [Children -> BOOLEAN]
         /\ held \in [Children -> BOOLEAN]
         /\ reading \in [Children -> BOOLEAN]
         /\ written \in [Children -> Nat]
         /\ got \in [Children -> Nat]
         /\ pipe \in [Children -> 0..Capacity]
         /\ result \in [Children -> {"none", "ok", "command not found", "abnormally",
                              "posix_spawnp() failed", "read() failed", "timeout"}])'
    BY <1>1, Types DEF PollError, Kill, external
  <2>3. (pc \in {"spawn", "poll", "read", "wait", "reap"})'
    BY DEF PollError, Kill
  <2>4. (at \in 1..(N + 1))'
    BY <1>1, Types DEF PollError, Kill
  <2>. QED BY <1>5, <2>1, <2>2, <2>3, <2>4 DEF TypeOK
<1>7. EndedOK'
  BY <1>1 DEF EndedOK, PollError, Kill, external
<1>8. ClosedOK'
  BY <1>1 DEF ClosedOK, PollError, external
<1>9. ParentOK'
  BY <1>1 DEF ParentOK, Handled, PollError, Kill
<1>10. OkIsComplete'
  BY <1>1 DEF OkIsComplete, PollError, Kill, external
<1>11. Reaped'
  BY <1>1 DEF Reaped, PollError, Kill
<1>. QED BY <1>6, <1>7, <1>8, <1>9, <1>10, <1>11 DEF Inv

LEMMA ReadStep ==
  ASSUME Inv, NEW c \in Children, Read(c)
  PROVE  Inv'
<1>1. /\ TypeOK /\ Units /\ EndedOK /\ ClosedOK /\ ParentOK
      /\ OkIsComplete /\ Reaped
  BY DEF Inv, TypeOK
<1>2. got \in [Children -> Nat]
  BY <1>1, Types
<1>3. pipe \in [Children -> 0..Capacity]
  BY <1>1, Types
<1>4. at \in Nat /\ \A d \in Children : d \in Nat
  BY <1>1, Numbers
<1>5. \A d \in Children : /\ script[d].writes \in Nat /\ written[d] \in Nat
                            /\ got[d] \in Nat /\ pipe[d] \in Nat
  BY <1>1, Numbers
<1>6. Units'
  BY <1>1, <1>2, <1>3 DEF Units, Read, ReadSome, external, process
<1>7. TypeOK'
  <2>1. (/\ got \in [Children -> Nat]
         /\ pipe \in [Children -> 0..Capacity])'
    BY <1>2, <1>3, CapacityAssumption DEF Read, ReadSome
  <2>2. (/\ script \in [Children -> Scripts] /\ timeout \in BOOLEAN /\ ignored \in BOOLEAN
         /\ child \in [Children -> {"unborn", "running", "zombie", "reaped"}]
         /\ writing \in [Children -> BOOLEAN]
         /\ held \in [Children -> BOOLEAN]
         /\ termed \in [Children -> BOOLEAN]
         /\ reading \in [Children -> BOOLEAN]
         /\ written \in [Children -> Nat]
         /\ result \in [Children -> {"none", "ok", "command not found", "abnormally",
                              "posix_spawnp() failed", "read() failed", "timeout"}])'
    BY <1>1, Types DEF Read, external, process
  <2>3. (pc \in {"spawn", "poll", "read", "wait", "reap"})'
    BY DEF Read, ReadSome
  <2>4. (at \in 1..(N + 1))'
    BY <1>1, Types DEF Read
  <2>. QED BY <1>6, <2>1, <2>2, <2>3, <2>4 DEF TypeOK
<1>8. EndedOK'
  BY <1>1 DEF EndedOK, Read, external, process
<1>9. ClosedOK'
  BY <1>1 DEF ClosedOK, Read, external, process
<1>10. ParentOK'
  BY <1>1, <1>4 DEF ParentOK, Handled, Read, ReadSome, Eof, process
<1>11. OkIsComplete'
  BY <1>1, <1>5, <1>2 DEF Units, OkIsComplete, Read, ReadSome, external
<1>12. Reaped'
  BY <1>1 DEF Reaped, Read, process
<1>. QED BY <1>7, <1>8, <1>9, <1>10, <1>11, <1>12 DEF Inv

LEMMA ReadErrorStep ==
  ASSUME Inv, NEW c \in Children, ReadError(c)
  PROVE  Inv'
<1>1. /\ TypeOK /\ Units /\ EndedOK /\ ClosedOK /\ ParentOK
      /\ OkIsComplete /\ Reaped
  BY DEF Inv, TypeOK
<1>2. result \in [Children -> {"none", "ok", "command not found", "abnormally",
                              "posix_spawnp() failed", "read() failed", "timeout"}]
  BY <1>1, Types
<1>3. reading \in [Children -> BOOLEAN]
  BY <1>1, Types
<1>4. at \in Nat /\ \A d \in Children : d \in Nat
  BY <1>1, Numbers
<1>5. \A d \in Children : /\ script[d].writes \in Nat /\ written[d] \in Nat
                            /\ got[d] \in Nat /\ pipe[d] \in Nat
  BY <1>1, Numbers
<1>6. Units'
  BY <1>1 DEF Units, ReadError, external, process
<1>7. TypeOK'
  <2>1. (/\ result \in [Children -> {"none", "ok", "command not found", "abnormally",
                              "posix_spawnp() failed", "read() failed", "timeout"}])'
    BY <1>2 DEF ReadError, Return
  <2>2. (/\ reading \in [Children -> BOOLEAN])'
    BY <1>3 DEF ReadError, Return
  <2>3. (/\ script \in [Children -> Scripts] /\ timeout \in BOOLEAN /\ ignored \in BOOLEAN
         /\ child \in [Children -> {"unborn", "running", "zombie", "reaped"}]
         /\ writing \in [Children -> BOOLEAN]
         /\ held \in [Children -> BOOLEAN]
         /\ termed \in [Children -> BOOLEAN]
         /\ written \in [Children -> Nat]
         /\ got \in [Children -> Nat]
         /\ pipe \in [Children -> 0..Capacity])'
    BY <1>1, Types DEF ReadError, external, process
  <2>4. (pc \in {"spawn", "poll", "read", "wait", "reap"})'
    BY DEF ReadError
  <2>5. (at \in 1..(N + 1))'
    BY <1>1, Numbers DEF ReadError, Return
  <2>. QED BY <1>6, <2>1, <2>2, <2>3, <2>4, <2>5 DEF TypeOK
<1>8. EndedOK'
  BY <1>1, <1>3 DEF EndedOK, ReadError, Return, external, process
<1>9. ClosedOK'
  BY <1>1 DEF ClosedOK, ReadError, external, process
<1>10. ParentOK'
  <2>1. at = c /\ pc # "spawn" /\ at' = c + 1 /\ pc' = "poll"
    BY DEF ReadError, Return
  <2>2. result'[c] # "none" /\ child' = child
    BY <1>2 DEF ReadError, Return, process
  <2>3. ASSUME NEW d \in Children, d # c
        PROVE  /\ result'[d] = result[d] /\ reading'[d] = reading[d]
               /\ child'[d] = child[d]
    BY <2>3, <1>2, <1>3 DEF ReadError, Return, process
  <2>4. Handled(c) /\ termed' = termed
    BY <1>1 DEF ParentOK, ReadError, process
  <2>5. Handled(c)'
    BY <1>4, <2>1, <2>2 DEF Handled
  <2>6. ASSUME NEW d \in Children, d # c  PROVE Handled(d)'
    <3>1. (at' <= d => at <= d) /\ at # d
      BY <1>4, <2>1, <2>6
    <3>2. Handled(d)
      BY <1>1 DEF ParentOK
    <3>. QED BY <2>1, <2>3, <2>4, <2>6, <3>1, <3>2 DEF Handled
  <2>. QED BY <2>5, <2>6 DEF ParentOK
<1>11. OkIsComplete'
  BY <1>1, <1>2 DEF OkIsComplete, ReadError, Return, external
<1>12. Reaped'
  BY <1>1, <1>2, <1>3 DEF Reaped, ReadError, Return, process
<1>. QED BY <1>7, <1>8, <1>9, <1>10, <1>11, <1>12 DEF Inv

LEMMA WaitStep ==
  ASSUME Inv, NEW c \in Children, Wait(c)
  PROVE  Inv'
<1>1. /\ TypeOK /\ Units /\ EndedOK /\ ClosedOK /\ ParentOK
      /\ OkIsComplete /\ Reaped
  BY DEF Inv, TypeOK
<1>2. child \in [Children -> {"unborn", "running", "zombie", "reaped"}]
  BY <1>1, Types
<1>3. result \in [Children -> {"none", "ok", "command not found", "abnormally",
                              "posix_spawnp() failed", "read() failed", "timeout"}]
  BY <1>1, Types
<1>4. reading \in [Children -> BOOLEAN]
  BY <1>1, Types
<1>5. at \in Nat /\ \A d \in Children : d \in Nat
  BY <1>1, Numbers
<1>6. \A d \in Children : /\ script[d].writes \in Nat /\ written[d] \in Nat
                            /\ got[d] \in Nat /\ pipe[d] \in Nat
  BY <1>1, Numbers
<1>7. Units'
  BY <1>1 DEF Units, Wait, external
<1>8. TypeOK'
  <2>1. (/\ child \in [Children -> {"unborn", "running", "zombie", "reaped"}]
         /\ result \in [Children -> {"none", "ok", "command not found", "abnormally",
                              "posix_spawnp() failed", "read() failed", "timeout"}])'
    BY <1>2, <1>3 DEF Wait, Return, Status, Ending
  <2>2. (/\ reading \in [Children -> BOOLEAN])'
    BY <1>4 DEF Wait, Return
  <2>3. (/\ script \in [Children -> Scripts] /\ timeout \in BOOLEAN /\ ignored \in BOOLEAN
         /\ writing \in [Children -> BOOLEAN]
         /\ held \in [Children -> BOOLEAN]
         /\ termed \in [Children -> BOOLEAN]
         /\ written \in [Children -> Nat]
         /\ got \in [Children -> Nat]
         /\ pipe \in [Children -> 0..Capacity])'
    BY <1>1, Types DEF Wait, external
  <2>4. (pc \in {"spawn", "poll", "read", "wait", "reap"})'
    BY DEF Wait
  <2>5. (at \in 1..(N + 1))'
    BY <1>1, Numbers DEF Wait, Return
  <2>. QED BY <1>7, <2>1, <2>2, <2>3, <2>4, <2>5 DEF TypeOK
<1>9. EndedOK'
  BY <1>1, <1>2, <1>4 DEF EndedOK, Wait, Return, external
<1>10. ClosedOK'
  BY <1>1, <1>2 DEF ClosedOK, Wait, external
<1>11. ParentOK'
  <2>1. at = c /\ pc # "spawn" /\ at' = c + 1 /\ pc' = "poll"
    BY DEF Wait, Return
  <2>2. result'[c] # "none" /\ child'[c] = "reaped"
    BY <1>2, <1>3 DEF Wait, Return, Status, Ending
  <2>3. ASSUME NEW d \in Children, d # c
        PROVE  /\ result'[d] = result[d] /\ reading'[d] = reading[d]
               /\ child'[d] = child[d]
    BY <2>3, <1>2, <1>3, <1>4 DEF Wait, Return
  <2>4. Handled(c) /\ termed' = termed
    BY <1>1 DEF ParentOK, Wait
  <2>5. Handled(c)'
    BY <1>5, <2>1, <2>2 DEF Handled
  <2>6. ASSUME NEW d \in Children, d # c  PROVE Handled(d)'
    <3>1. (at' <= d => at <= d) /\ at # d
      BY <1>5, <2>1, <2>6
    <3>2. Handled(d)
      BY <1>1 DEF ParentOK
    <3>. QED BY <2>1, <2>3, <2>4, <2>6, <3>1, <3>2 DEF Handled
  <2>. QED BY <2>5, <2>6 DEF ParentOK
<1>12. OkIsComplete'
  <2>1. ASSUME pc = "wait", Status(c) = "ok"
        PROVE  /\ got[c] = script[c].writes
               /\ script[c].end \in IF ignored THEN Endings ELSE {"exit"}
    <3>1. /\ child[c] = "zombie" /\ reading[c] /\ ~termed[c] /\ pipe[c] = 0
      BY <1>1, <2>1, <1>5 DEF ParentOK, Handled, Wait
    <3>2. got[c] = script[c].writes /\ script[c].end # "hang"
      BY <1>1, <3>1, <1>6 DEF EndedOK, Units
    <3>3. script[c] \in Script  BY <1>1, Types, ScriptsAssumption
    <3>4. script[c].end \in Endings
      BY <3>2, <3>3 DEF Script, Endings
    <3>5. ~ignored => script[c].end = "exit"
      BY <2>1 DEF Status, Ending
    <3>. QED BY <3>2, <3>4, <3>5
  <2>2. (result[c])' = "ok" => pc = "wait" /\ Status(c) = "ok"
    BY <1>3 DEF Wait, Return
  <2>3. UNCHANGED <<got, script, ignored>> /\ \A d \in Children \ {c} : result'[d] = result[d]
    BY DEF Wait, Return, external
  <2>. QED BY <1>1, <2>1, <2>2, <2>3 DEF OkIsComplete
<1>13. Reaped'
  BY <1>1, <1>2, <1>3, <1>4 DEF Reaped, Wait, Return
<1>. QED BY <1>8, <1>9, <1>10, <1>11, <1>12, <1>13 DEF Inv

LEMMA CollectStep ==
  ASSUME Inv, Collect
  PROVE  Inv'
<1>1. /\ TypeOK /\ Units /\ EndedOK /\ ClosedOK /\ ParentOK
      /\ OkIsComplete /\ Reaped
  BY DEF Inv, TypeOK
<1>2. at \in Nat /\ \A d \in Children : d \in Nat
  BY <1>1, Numbers
<1>3. \A d \in Children : /\ script[d].writes \in Nat /\ written[d] \in Nat
                            /\ got[d] \in Nat /\ pipe[d] \in Nat
  BY <1>1, Numbers
<1>4. Units'
  BY <1>1 DEF Units, Collect, external, process
<1>5. TypeOK'
  <2>1. (/\ script \in [Children -> Scripts] /\ timeout \in BOOLEAN /\ ignored \in BOOLEAN
         /\ child \in [Children -> {"unborn", "running", "zombie", "reaped"}]
         /\ writing \in [Children -> BOOLEAN]
         /\ held \in [Children -> BOOLEAN]
         /\ termed \in [Children -> BOOLEAN]
         /\ reading \in [Children -> BOOLEAN]
         /\ written \in [Children -> Nat]
         /\ got \in [Children -> Nat]
         /\ pipe \in [Children -> 0..Capacity]
         /\ result \in [Children -> {"none", "ok", "command not found", "abnormally",
                              "posix_spawnp() failed", "read() failed", "timeout"}])'
    BY <1>1, Types DEF Collect, external, process
  <2>2. (pc \in {"spawn", "poll", "read", "wait", "reap"})'
    BY DEF Collect
  <2>3. (at \in 1..(N + 1))'
    BY NAssumption DEF Collect
  <2>. QED BY <1>4, <2>1, <2>2, <2>3 DEF TypeOK
<1>6. EndedOK'
  BY <1>1 DEF EndedOK, Collect, external, process
<1>7. ClosedOK'
  BY <1>1 DEF ClosedOK, Collect, external, process
<1>8. ParentOK'
  BY <1>1 DEF ParentOK, Handled, Collect, process
<1>9. OkIsComplete'
  BY <1>1 DEF OkIsComplete, Collect, external
<1>10. Reaped'
  BY <1>1 DEF Reaped, Collect, process
<1>. QED BY <1>5, <1>6, <1>7, <1>8, <1>9, <1>10 DEF Inv

LEMMA StutterStep ==
  ASSUME Inv, UNCHANGED vars
  PROVE  Inv'
<1>. USE DEF vars, external, process
<1>1. TypeOK'  BY DEF Inv, TypeOK, Units
<1>2. EndedOK' /\ ClosedOK'  BY DEF Inv, EndedOK, ClosedOK
<1>3. ParentOK'  BY DEF Inv, ParentOK, Handled
<1>4. OkIsComplete' /\ Reaped'  BY DEF Inv, OkIsComplete, Reaped
<1>. QED BY <1>1, <1>2, <1>3, <1>4 DEF Inv

LEMMA InvInit == Init => Inv
<1>. SUFFICES ASSUME Init  PROVE Inv
  OBVIOUS
<1>1. \A c \in Children : c \in Nat /\ script[c].writes \in Nat
  <2>1. ASSUME NEW c \in Children  PROVE script[c] \in Script
    BY ScriptsAssumption DEF Init
  <2>. QED BY <2>1, NAssumption DEF Script, Children
<1>2. Units  BY <1>1 DEF Init, Units
<1>3. (at \in 1..(N + 1))  BY NAssumption DEF Init
<1>4. TypeOK  BY <1>2, <1>3, CapacityAssumption DEF Init, TypeOK
<1>5. EndedOK /\ ClosedOK  BY DEF Init, EndedOK, ClosedOK
<1>6. ParentOK  BY DEF Init, ParentOK, Handled
<1>7. OkIsComplete /\ Reaped  BY DEF Init, OkIsComplete, Reaped
<1>. QED BY <1>4, <1>5, <1>6, <1>7 DEF Inv

LEMMA InvStep == Inv /\ [Next]_vars => Inv'
<1>. SUFFICES ASSUME Inv, [Next]_vars  PROVE Inv'
  OBVIOUS
<1>1. CASE UNCHANGED vars  BY <1>1, StutterStep
<1>2. CASE Collect  BY <1>2, CollectStep
<1>3. ASSUME NEW c \in Children, ParentStep(c)  PROVE Inv'
  BY <1>3, SpawnStep, SkipStep, PollStep, ReadStep, WaitStep DEF ParentStep
<1>4. ASSUME NEW c \in Children,
             PollError(c) \/ ReadError(c) \/ CloseOutput(c) \/ OrphanEnds(c)
      PROVE  Inv'
  BY <1>4, PollErrorStep, ReadErrorStep, CloseOutputStep, OrphanEndsStep
<1>5. ASSUME NEW c \in Children, ChildStep(c)  PROVE Inv'
  BY <1>5, WriteStep, EndStep, TerminatedStep DEF ChildStep
<1>. QED BY <1>1, <1>2, <1>3, <1>4, <1>5 DEF Next, Parent

LEMMA InvHolds == Spec => []Inv
BY InvInit, InvStep, PTL DEF Spec

(* Nothing is read twice, and nothing is read that was not written: what    *)
(* ffProcessReadOutput has and what is in the pipe is what a child wrote.   *)
THEOREM TypeCorrect == Spec => []TypeOK
<1>1. Inv => TypeOK  BY DEF Inv
<1>. QED BY <1>1, InvHolds, PTL

(* ffProcessReadOutput returns no error only if it has the whole output of  *)
(* a child that has ended, and that ended well where this can be known.     *)
THEOREM OkIsCompleteTheorem == Spec => []OkIsComplete
<1>1. Inv => OkIsComplete  BY DEF Inv
<1>. QED BY <1>1, InvHolds, PTL

(* Each way out of ffProcessReadOutput but that of a failing read() closes  *)
(* the pipe and leaves neither a process nor a zombie.                      *)
THEOREM ReapedTheorem == Spec => []Reaped
<1>1. Inv => Reaped  BY DEF Inv
<1>. QED BY <1>1, InvHolds, PTL
-----------------------------------------------------------------------------
(* The parent is past a child only with its result, has no pipe of one that *)
(* was not spawned, and kills only after a poll().                          *)
Past(c) == (IF pc = "spawn" THEN c < at /\ child[c] = "unborn"
                            ELSE c < at \/ child[c] = "unborn") => result[c] # "none"

InOrder == /\ \A c \in Children : Past(c)
           /\ \A c \in Children : child[c] = "unborn" => ~reading[c]
           /\ pc = "reap" => timeout

(* What the parent goes on from with a result keeps this.                   *)
LEMMA GoesOn ==
  ASSUME Inv, InOrder, NEW c \in Children, at = c, at' = c + 1,
         (pc = "spawn") <=> (pc' = "spawn"),
         \A d \in Children : d # c => child'[d] = child[d] /\ result'[d] = result[d]
                                      /\ reading'[d] = reading[d],
         Past(c)', child'[c] = "unborn" => ~reading'[c], pc' # "reap"
  PROVE  InOrder'
<1>1. at \in Nat /\ \A d \in Children : d \in Nat  BY Numbers DEF Inv
<1>2. \A d \in Children : d # c => (d < at' <=> d < at)  BY <1>1
<1>3. ASSUME NEW d \in Children, d # c  PROVE Past(d)'
  BY <1>2, <1>3 DEF InOrder, Past
<1> QED BY <1>3 DEF InOrder

LEMMA InOrderStep ==
  ASSUME Inv, InOrder, [Next]_vars
  PROVE  InOrder'
<1>1. /\ at \in Nat /\ \A c \in Children : c \in Nat
      /\ child \in [Children -> {"unborn", "running", "zombie", "reaped"}]
      /\ result \in [Children -> {"none", "ok", "command not found", "abnormally",
                              "posix_spawnp() failed", "read() failed", "timeout"}]
      /\ reading \in [Children -> BOOLEAN]
  BY Types, Numbers DEF Inv
<1>2. CASE UNCHANGED vars
  BY <1>2 DEF InOrder, Past, vars, external, process
<1>3. CASE Collect
  <2>1. \A c \in Children : c < at /\ ~(c < at')
    <3>1. at \in 1..(N + 1) /\ at \notin Children /\ at' = 1
      BY <1>3, Types DEF Inv, Collect
    <3> QED BY <3>1, NAssumption DEF Children
  <2> QED BY <1>3, <2>1 DEF InOrder, Past, Collect, process, external
<1>4. ASSUME NEW c \in Children, Spawn(c)  PROVE InOrder'
  <2>1. at = c /\ at' = c + 1 /\ pc = "spawn" /\ pc' = "spawn"
    BY <1>4 DEF Spawn, Spawned, NotSpawned, Return
  <2>2. CASE Spawned(c)
    <3>1. child'[c] = "running"  BY <1>1, <2>2 DEF Spawned
    <3>2. \A d \in Children : d # c => child'[d] = child[d] /\ result'[d] = result[d]
                                       /\ reading'[d] = reading[d]
      BY <1>1, <2>2 DEF Spawned
    <3> QED BY <2>1, <3>1, <3>2, GoesOn DEF Past
  <2>3. CASE NotSpawned(c)
    <3>1. result'[c] # "none" /\ ~reading'[c]
      BY <1>1, <2>3 DEF NotSpawned, Return
    <3>2. \A d \in Children : d # c => child'[d] = child[d] /\ result'[d] = result[d]
                                       /\ reading'[d] = reading[d]
      BY <1>1, <2>3 DEF NotSpawned, Return
    <3> QED BY <2>1, <3>1, <3>2, GoesOn DEF Past
  <2> QED BY <1>4, <2>2, <2>3 DEF Spawn
<1>5. ASSUME NEW c \in Children, Skip(c)  PROVE InOrder'
  <2>1. /\ at = c /\ at' = c + 1 /\ pc = "poll" /\ child[c] = "unborn"
        /\ UNCHANGED <<pc, child, reading, result>>
    BY <1>5 DEF Skip, process
  <2>2. result[c] # "none" /\ ~reading[c]  BY <2>1 DEF InOrder, Past
  <2> QED BY <2>1, <2>2, GoesOn DEF Past
<1>6. ASSUME NEW c \in Children, Poll(c) \/ PollError(c)  PROVE InOrder'
  BY <1>6 DEF InOrder, Past, external, Poll, PollError, Kill
<1>7. ASSUME NEW c \in Children, Read(c)  PROVE InOrder'
  BY <1>7 DEF InOrder, Past, external, Read, ReadSome, process
<1>8. ASSUME NEW c \in Children, ReadError(c) \/ Wait(c)  PROVE InOrder'
  <2>1. /\ at = c /\ at' = c + 1 /\ pc # "spawn" /\ pc' = "poll"
        /\ reading' = [reading EXCEPT ![c] = FALSE]
        /\ \A d \in Children : d # c => child'[d] = child[d]
    BY <1>1, <1>8 DEF ReadError, Wait, Return, process
  <2>2. \E e : e # "none" /\ result' = [result EXCEPT ![c] = e]
    BY <1>8 DEF ReadError, Wait, Return, Status, Ending
  <2>3. result'[c] # "none" /\ ~reading'[c]
    BY <1>1, <2>1, <2>2
  <2>4. \A d \in Children : d # c => result'[d] = result[d] /\ reading'[d] = reading[d]
    BY <1>1, <2>1, <2>2
  <2> QED BY <2>1, <2>3, <2>4, GoesOn DEF Past
<1>9. ASSUME NEW c \in Children,
             ChildStep(c) \/ CloseOutput(c) \/ OrphanEnds(c)
      PROVE  InOrder'
  <2>1. UNCHANGED <<timeout, pc, at, reading, result>>
    BY <1>9 DEF external, ChildStep, Write, End, Terminated, CloseOutput, OrphanEnds
  <2>2. child' = child
          \/ (child[c] = "running" /\ child' = [child EXCEPT ![c] = "zombie"])
    BY <1>9 DEF ChildStep, Write, End, Terminated, CloseOutput, OrphanEnds, Dies
  <2>3. \A d \in Children : (child'[d] = "unborn") <=> (child[d] = "unborn")
    BY <1>1, <2>2
  <2> QED BY <2>1, <2>3 DEF InOrder, Past
<1> QED BY <1>2, <1>3, <1>4, <1>5, <1>6, <1>7, <1>8, <1>9
        DEF Next, Parent, ParentStep

(* The child that the parent reads has no result yet.                       *)
LEMMA AtHand ==
  ASSUME Inv, NEW c \in Children, pc # "spawn", at = c, child[c] # "unborn"
  PROVE  result[c] = "none" /\ reading[c] /\ child[c] \in {"running", "zombie"}
<1>1. at <= c  BY Numbers DEF Inv
<1> QED BY <1>1 DEF Inv, ParentOK, Handled

(* It is the turn of the child that the parent is at.                       *)
LEMMA ItsTurn ==
  ASSUME Inv, InOrder, NEW c \in Children, pc # "spawn", at = c, child[c] # "unborn"
  PROVE  Promise!Turn(c)
<1>1. at \in Nat /\ \A d \in Children : d \in Nat  BY Numbers DEF Inv
<1>2. Present[c] /\ result[c] = "none"
  BY AtHand DEF Present
<1>3. ASSUME NEW d \in Children  PROVE ~Promise!Fresh(d)
  <2>1. CASE d < at \/ child[d] = "unborn"
    BY <2>1 DEF InOrder, Past, Promise!Fresh
  <2>2. CASE ~(d < at) /\ child[d] # "unborn"
    <3>1. reading[d]  BY <1>1, <2>2 DEF Inv, ParentOK, Handled
    <3> QED BY <3>1 DEF Promise!Fresh, Present
  <2> QED BY <2>1, <2>2
<1>4. ASSUME NEW d \in Children, d < c  PROVE result[d] # "none"
  BY <1>4 DEF InOrder, Past
<1> QED BY <1>2, <1>3, <1>4 DEF Promise!Turn

(* A step that leaves the results, and who is there, is nothing to the      *)
(* modules.                                                                 *)
LEMMA Unseen ==
  ASSUME UNCHANGED <<external, result>>, UNCHANGED <<Present, Whole>>
  PROVE  UNCHANGED Promise!vars
<1>1. \A c \in Children : Ending(c)' = Ending(c)  BY DEF external, Ending
<1> QED BY <1>1 DEF Promise!vars, external

LEMMA PromisedChild ==
  ASSUME Inv, NEW c \in Children, ChildStep(c) \/ CloseOutput(c) \/ OrphanEnds(c)
  PROVE  UNCHANGED Promise!vars
<1>1. child \in [Children -> {"unborn", "running", "zombie", "reaped"}]
  BY Types DEF Inv
<1>2. UNCHANGED <<external, reading, got, result>>
  BY DEF ChildStep, Write, End, Terminated, CloseOutput, OrphanEnds
<1>3. child' = child \/ (child[c] = "running" /\ child' = [child EXCEPT ![c] = "zombie"])
  BY DEF ChildStep, Write, End, Terminated, CloseOutput, OrphanEnds, Dies
<1>4. Present' = Present  BY <1>1, <1>2, <1>3 DEF Present
<1>5. Whole' = Whole  BY <1>2 DEF Whole
<1> QED BY <1>2, <1>4, <1>5, Unseen

LEMMA PromisedPoll ==
  ASSUME Inv, NEW c \in Children, Skip(c) \/ Poll(c) \/ PollError(c)
  PROVE  UNCHANGED Promise!vars
<1>1. UNCHANGED <<external, child, reading, got, result>>
  BY DEF Skip, Poll, PollError, Kill, process
<1>2. Present' = Present /\ Whole' = Whole  BY <1>1 DEF Present, Whole
<1> QED BY <1>1, <1>2, Unseen

LEMMA PromisedRead ==
  ASSUME Inv, NEW c \in Children, Read(c)
  PROVE  UNCHANGED Promise!vars
<1>1. got \in [Children -> Nat] /\ at \in Nat  BY Types, Numbers DEF Inv
<1>2. UNCHANGED <<external, child, reading, result>>  BY DEF Read, process
<1>3. result[c] = "none"
  <2>1. pc = "read" /\ at = c  BY DEF Read
  <2>2. child[c] # "unborn"  BY <2>1 DEF Inv, ParentOK, Handled
  <2> QED BY <2>1, <2>2, AtHand
<1>4. \A d \in Children : d # c => got'[d] = got[d]
  BY <1>1 DEF Read, ReadSome
<1>5. Present' = Present  BY <1>2 DEF Present
<1>6. Whole' = Whole  BY <1>2, <1>3, <1>4 DEF Whole
<1> QED BY <1>2, <1>5, <1>6, Unseen

LEMMA PromisedSpawn ==
  ASSUME Inv, InOrder, NEW c \in Children, Spawn(c)
  PROVE  Promise!Next
<1>1. /\ child \in [Children -> {"unborn", "running", "zombie", "reaped"}]
      /\ reading \in [Children -> BOOLEAN]
      /\ result \in [Children -> {"none", "ok", "command not found", "abnormally",
                              "posix_spawnp() failed", "read() failed", "timeout"}]
  BY Types DEF Inv
<1>2. child[c] = "unborn" /\ result[c] = "none" /\ ~reading[c]
  <2>1. pc = "spawn" /\ at = c  BY DEF Spawn
  <2>2. at <= c  BY <2>1, Numbers DEF Inv
  <2> QED BY <2>1, <2>2 DEF Inv, ParentOK, Handled, InOrder
<1>3. Promise!Fresh(c)  BY <1>2 DEF Promise!Fresh, Present
<1>4. UNCHANGED <<external, got>>  BY DEF Spawn
<1>5. \A d \in Children : Ending(d)' = Ending(d)  BY <1>4 DEF external, Ending
<1>6. CASE Spawned(c)
  <2>1. Present' = [Present EXCEPT ![c] = TRUE] /\ Whole' = Whole /\ result' = result
    BY <1>1, <1>4, <1>6 DEF Present, Whole, Spawned
  <2> QED BY <1>3, <1>4, <1>5, <2>1 DEF Promise!Start, Promise!Next, external
<1>7. CASE NotSpawned(c)
  <2>1. PICK e \in {"command not found", "posix_spawnp() failed"} :
          result' = [result EXCEPT ![c] = e]
    BY <1>7 DEF NotSpawned, Return
  <2>2. Present' = Present
    BY <1>1, <1>2, <1>7 DEF Present, NotSpawned, Return
  <2>3. Whole' = Whole
    BY <1>1, <1>2, <1>4, <2>1 DEF Whole
  <2> QED BY <1>3, <1>4, <1>5, <2>1, <2>2, <2>3
          DEF Promise!Refuse, Promise!Next, external
<1> QED BY <1>6, <1>7 DEF Spawn

LEMMA PromisedReadError ==
  ASSUME Inv, InOrder, NEW c \in Children, ReadError(c)
  PROVE  Promise!Next
<1>1. /\ child \in [Children -> {"unborn", "running", "zombie", "reaped"}]
      /\ reading \in [Children -> BOOLEAN]
      /\ result \in [Children -> {"none", "ok", "command not found", "abnormally",
                              "posix_spawnp() failed", "read() failed", "timeout"}]
  BY Types DEF Inv
<1>2. /\ pc = "read" /\ at = c /\ result' = [result EXCEPT ![c] = "read() failed"]
      /\ reading' = [reading EXCEPT ![c] = FALSE]
      /\ UNCHANGED <<external, child, got>>
  BY DEF ReadError, Return, process
<1>3. child[c] \in {"running", "zombie"} /\ result[c] = "none"
  <2>1. child[c] # "unborn"  BY <1>2 DEF Inv, ParentOK, Handled
  <2> QED BY <1>2, <2>1, AtHand
<1>4. Promise!Turn(c)  BY <1>2, <1>3, ItsTurn
<1>5. Present' = Present  BY <1>1, <1>2, <1>3 DEF Present
<1>6. Whole' = Whole  BY <1>1, <1>2, <1>3 DEF Whole
<1>7. \A d \in Children : Ending(d)' = Ending(d)  BY <1>2 DEF external, Ending
<1> QED BY <1>2, <1>4, <1>5, <1>6, <1>7 DEF Promise!Abandon, Promise!Next, external

LEMMA PromisedWait ==
  ASSUME Inv, InOrder, NEW c \in Children, Wait(c)
  PROVE  Promise!Next
<1>1. /\ child \in [Children -> {"unborn", "running", "zombie", "reaped"}]
      /\ reading \in [Children -> BOOLEAN]
      /\ result \in [Children -> {"none", "ok", "command not found", "abnormally",
                              "posix_spawnp() failed", "read() failed", "timeout"}]
  BY Types DEF Inv
<1>2. /\ pc \in {"wait", "reap"} /\ at = c /\ child[c] = "zombie"
      /\ child' = [child EXCEPT ![c] = "reaped"]
      /\ reading' = [reading EXCEPT ![c] = FALSE]
      /\ UNCHANGED <<external, got>>
  BY DEF Wait, Return
<1>3. result[c] = "none"
  BY <1>2, AtHand
<1>4. Promise!Turn(c)  BY <1>2, ItsTurn
<1>5. Present' = [Present EXCEPT ![c] = FALSE]  BY <1>1, <1>2 DEF Present
<1>6. \A d \in Children : Ending(d)' = Ending(d)  BY <1>2 DEF external, Ending
<1>7. CASE pc = "wait"
  <2>1. result' = [result EXCEPT ![c] = Status(c)]  BY <1>7 DEF Wait, Return
  <2>2. Status(c) = "ok" => got[c] = script[c].writes
    <3>1. OkIsComplete'  BY WaitStep DEF Inv
    <3> QED BY <1>1, <1>2, <2>1, <3>1 DEF OkIsComplete, external
  <2>3. Whole' = [Whole EXCEPT ![c] = IF Status(c) = "ok" THEN script[c].writes ELSE 0]
    BY <1>1, <1>2, <2>1, <2>2 DEF Whole
  <2>4. Promise!Finish(c)
    BY <1>2, <1>4, <1>5, <1>6, <2>1, <2>3 DEF Promise!Finish, Promise!Known, Status, external
  <2> QED BY <2>4 DEF Promise!Next
<1>8. CASE pc = "reap"
  <2>1. result' = [result EXCEPT ![c] = "timeout"] /\ timeout
    BY <1>8 DEF Wait, Return, InOrder
  <2>2. Whole' = Whole  BY <1>1, <1>2, <1>3, <2>1 DEF Whole
  <2>3. Promise!GiveUp(c)
    BY <1>2, <1>4, <1>5, <1>6, <2>1, <2>2 DEF Promise!GiveUp, external
  <2> QED BY <2>3 DEF Promise!Next
<1> QED BY <1>2, <1>7, <1>8

(* The children and pipes of processing_linux.c keep what processing.h      *)
(* promises to the modules that run commands: nothing of how a child ended  *)
(* where SIGCHLD is ignored (processing_linux.c:219).                       *)
THEOREM Implements == Spec => KeepsPromise
<1>1. Init => Promise!Init /\ InOrder
  <2> SUFFICES ASSUME Init PROVE Promise!Init /\ InOrder
    OBVIOUS
  <2>1. ASSUME NEW c \in Children
        PROVE  [prints |-> script[c].writes, ends |-> Ending(c)] \in Promise!Nature
    <3>1. script[c] \in Script  BY ScriptsAssumption DEF Init
    <3> QED BY <3>1 DEF Script, Ending, Promise!Nature
  <2>2. /\ Present = [c \in Children |-> FALSE] /\ Whole = [c \in Children |-> 0]
    BY DEF Init, Present, Whole
  <2>3. Promise!Init  BY <2>1, <2>2 DEF Init, Promise!Init
  <2>4. InOrder
    <3>1. \A c \in Children : ~(c < at)  BY DEF Init, Children
    <3> QED BY <3>1 DEF Init, InOrder, Past
  <2> QED BY <2>3, <2>4
<1>2. Inv /\ InOrder /\ [Next]_vars => InOrder'
  BY InOrderStep
<1>3. Inv /\ InOrder /\ [Next]_vars => [Promise!Next]_(Promise!vars)
  <2> SUFFICES ASSUME Inv, InOrder, [Next]_vars PROVE [Promise!Next]_(Promise!vars)
    OBVIOUS
  <2>1. CASE UNCHANGED vars
    <3>1. Present' = Present /\ Whole' = Whole
      BY <2>1 DEF vars, process, Present, Whole
    <3> QED BY <2>1, <3>1, Unseen DEF vars
  <2>2. CASE Collect
    <3>1. UNCHANGED <<external, child, reading, got, result>>
      BY <2>2 DEF Collect, process
    <3>2. Present' = Present /\ Whole' = Whole  BY <3>1 DEF Present, Whole
    <3> QED BY <3>1, <3>2, Unseen
  <2>3. ASSUME NEW c \in Children, ParentStep(c)  PROVE [Promise!Next]_(Promise!vars)
    BY <2>3, PromisedSpawn, PromisedPoll, PromisedRead, PromisedWait DEF ParentStep
  <2>4. ASSUME NEW c \in Children, PollError(c) \/ ReadError(c)
        PROVE  [Promise!Next]_(Promise!vars)
    BY <2>4, PromisedPoll, PromisedReadError
  <2>5. ASSUME NEW c \in Children, ChildStep(c) \/ CloseOutput(c) \/ OrphanEnds(c)
        PROVE  [Promise!Next]_(Promise!vars)
    BY <2>5, PromisedChild
  <2> QED BY <2>1, <2>2, <2>3, <2>4, <2>5 DEF Next, Parent
<1> QED BY <1>1, <1>2, <1>3, InvHolds, PTL DEF Spec, KeepsPromise, Promise!Spec
=============================================================================
