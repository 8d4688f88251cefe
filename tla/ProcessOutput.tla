---------------------------- MODULE ProcessOutput ----------------------------
(* ffProcessSpawn and ffProcessReadOutput (processing_linux.c): some child  *)
(* processes are spawned, each with a pipe of its own, as the prepare pass  *)
(* does for `command`, and then read and reaped one after the other.        *)
EXTENDS Integers

CONSTANTS N,           \* the children, in the order they are spawned and read
          Capacity,    \* what a pipe holds
          Scripts      \* what a child may do, see Script

(* A child writes `writes` units, may close its output then and work on,    *)
(* and ends, or hangs. `orphan`: a process it has started keeps the output  *)
(* open. `deaf`: it ignores SIGTERM.                                        *)
Script == [writes : Nat, closes : BOOLEAN, orphan : BOOLEAN, deaf : BOOLEAN,
           end : {"exit", "exit127", "crash", "hang"}]

ASSUME NAssumption == N \in Nat
ASSUME CapacityAssumption == Capacity \in Nat \ {0}
ASSUME ScriptsAssumption == \A s \in Scripts : s \in Script

Children == 1..N

VARIABLES script, timeout,      \* the children, and whether processingTimeout >= 0
          ignored,              \* SIGCHLD is: fastfetch was started so, and leaves it
          child,                \* "unborn", "running", "zombie", "reaped"
          writing, held,        \* the child, its orphan have the write end open
          written, pipe,        \* units written, and in the pipe
          termed,               \* SIGTERM was sent
          pc, at,               \* the step of the parent, the child it is at
          reading,              \* the read end is open
          got, result

external == <<script, timeout, ignored>>
process == <<child, writing, held, written, termed>>
vars == <<external, process, pipe, pc, at, reading, got, result>>
-----------------------------------------------------------------------------
(* The children. Nobody reads what is written to a closed pipe: the writer  *)
(* dies of SIGPIPE.                                                         *)
Dies(c) == /\ child' = [child EXCEPT ![c] = "zombie"]
           /\ writing' = [writing EXCEPT ![c] = FALSE]

Write(c) ==
  /\ child[c] = "running" /\ written[c] < script[c].writes
  /\ IF reading[c]
     THEN /\ pipe[c] < Capacity
          /\ written' = [written EXCEPT ![c] = @ + 1]
          /\ pipe' = [pipe EXCEPT ![c] = @ + 1]
          /\ UNCHANGED <<child, writing>>
     ELSE Dies(c) /\ UNCHANGED <<written, pipe>>
  /\ UNCHANGED <<external, held, termed, pc, at, reading, got, result>>

CloseOutput(c) ==
  /\ child[c] = "running" /\ written[c] = script[c].writes
  /\ script[c].closes /\ writing[c]
  /\ writing' = [writing EXCEPT ![c] = FALSE]
  /\ UNCHANGED <<external, child, held, written, termed, pipe, pc, at, reading,
                 got, result>>

End(c) ==
  /\ child[c] = "running" /\ written[c] = script[c].writes
  /\ script[c].end # "hang"
  /\ Dies(c)
  /\ UNCHANGED <<external, held, written, termed, pipe, pc, at, reading, got, result>>

Terminated(c) ==
  /\ child[c] = "running" /\ termed[c] /\ ~script[c].deaf
  /\ Dies(c)
  /\ UNCHANGED <<external, held, written, termed, pipe, pc, at, reading, got, result>>

OrphanEnds(c) ==
  /\ held[c]
  /\ held' = [held EXCEPT ![c] = FALSE]
  /\ UNCHANGED <<external, child, writing, written, termed, pipe, pc, at, reading,
                 got, result>>
-----------------------------------------------------------------------------
Return(c, error) ==
  /\ result' = [result EXCEPT ![c] = error]
  /\ reading' = [reading EXCEPT ![c] = FALSE]
  /\ at' = c + 1

(* ffProcessSpawn: the read end is kept, the write end is the child's only  *)
(* (O_CLOEXEC, FF_AUTO_CLOSE_FD).                                           *)
Spawned(c) ==
  /\ child' = [child EXCEPT ![c] = "running"]
  /\ writing' = [writing EXCEPT ![c] = TRUE]
  /\ held' = [held EXCEPT ![c] = script[c].orphan]
  /\ reading' = [reading EXCEPT ![c] = TRUE]
  /\ at' = c + 1
  /\ UNCHANGED result

NotSpawned(c) ==
  /\ \E error \in {"command not found", "posix_spawnp() failed"} : Return(c, error)
  /\ UNCHANGED <<child, writing, held>>

Spawn(c) ==
  /\ pc = "spawn" /\ at = c
  /\ Spawned(c) \/ NotSpawned(c)
  /\ UNCHANGED <<external, written, termed, pipe, pc, got>>

(* All are spawned: they are read from the first on.                        *)
Collect ==
  /\ pc = "spawn" /\ at \notin Children
  /\ pc' = "poll" /\ at' = 1
  /\ UNCHANGED <<external, process, pipe, reading, got, result>>

SkipReads(c) ==              \* mutant: the error of the spawning is not looked at
  /\ pc = "poll" /\ at = c /\ child[c] = "unborn"
  /\ Return(c, "read() failed")
  /\ UNCHANGED <<external, process, pipe, pc, got>>

(* A child that was not spawned has left its error.                         *)
Skip(c) ==
  /\ pc = "poll" /\ at = c /\ child[c] = "unborn"
  /\ at' = c + 1
  /\ UNCHANGED <<external, process, pipe, pc, reading, got, result>>

(* The end of the file: nobody has the write end open.                      *)
EofInherited(c) ==           \* mutant: without O_CLOEXEC later children have it too
  /\ pipe[c] = 0 /\ ~writing[c] /\ ~held[c]
  /\ \A d \in Children : d > c => child[d] # "running"

Eof(c) == pipe[c] = 0 /\ ~writing[c] /\ ~held[c]

Ready(c) == pipe[c] > 0 \/ Eof(c)

(* poll(): readable, or the timeout, or an error, after which the child is  *)
(* asked to end and waited for.                                             *)
KillOnly(c) ==               \* mutant: the killed child is not waited for
  /\ termed' = [termed EXCEPT ![c] = TRUE]
  /\ Return(c, "timeout") /\ pc' = "poll"

Kill(c) ==
  /\ termed' = [termed EXCEPT ![c] = TRUE]
  /\ pc' = "reap"
  /\ UNCHANGED <<at, reading, result>>

Poll(c) ==
  /\ pc = "poll" /\ at = c /\ child[c] # "unborn"
  /\ \/ (timeout => Ready(c)) /\ pc' = "read" /\ UNCHANGED <<termed, at, reading, result>>
     \/ timeout /\ ~Ready(c) /\ Kill(c)
  /\ UNCHANGED <<external, child, writing, held, written, pipe, got>>

PollError(c) ==
  /\ pc = "poll" /\ at = c /\ child[c] # "unborn" /\ timeout
  /\ Kill(c)
  /\ UNCHANGED <<external, child, writing, held, written, pipe, got>>

ReadOnce(c) ==               \* mutant: what one read() gives is taken for all
  /\ got' = [got EXCEPT ![c] = @ + pipe[c]]
  /\ pipe' = [pipe EXCEPT ![c] = 0]
  /\ pc' = "wait"

ReadSome(c) ==
  /\ got' = [got EXCEPT ![c] = @ + pipe[c]]
  /\ pipe' = [pipe EXCEPT ![c] = 0]
  /\ pc' = "poll"

Read(c) ==
  /\ pc = "read" /\ at = c
  /\ IF pipe[c] > 0 THEN ReadSome(c)
     ELSE Eof(c) /\ pc' = "wait" /\ UNCHANGED <<got, pipe>>
  /\ UNCHANGED <<external, process, at, reading, result>>

(* read() fails: the loop is left.                                          *)
ReadError(c) ==
  /\ pc = "read" /\ at = c
  /\ Return(c, "read() failed") /\ pc' = "poll"
  /\ UNCHANGED <<external, process, pipe, got>>

(* waitpid() blocks until the child has ended. If SIGCHLD is ignored there  *)
(* is no zombie to collect then: it fails with ECHILD, and a child of which *)
(* no status is known goes for one that ended well.                         *)
Ending(c) == CASE script[c].end = "exit"    -> "ok"
               [] script[c].end = "exit127" -> "command not found"
               [] OTHER                     -> "abnormally"

Status(c) == IF ignored THEN "ok" ELSE Ending(c)

Wait(c) ==
  /\ pc \in {"wait", "reap"} /\ at = c
  /\ child[c] = "zombie"
  /\ child' = [child EXCEPT ![c] = "reaped"]
  /\ Return(c, IF pc = "reap" THEN "timeout" ELSE Status(c))
  /\ pc' = "poll"
  /\ UNCHANGED <<external, writing, held, written, termed, pipe, got>>
-----------------------------------------------------------------------------
Init ==
  /\ script \in [Children -> Scripts] /\ timeout \in BOOLEAN /\ ignored \in BOOLEAN
  /\ child = [c \in Children |-> "unborn"]
  /\ writing = [c \in Children |-> FALSE]
  /\ held = [c \in Children |-> FALSE]
  /\ written = [c \in Children |-> 0]
  /\ pipe = [c \in Children |-> 0]
  /\ termed = [c \in Children |-> FALSE]
  /\ pc = "spawn" /\ at = 1
  /\ reading = [c \in Children |-> FALSE]
  /\ got = [c \in Children |-> 0]
  /\ result = [c \in Children |-> "none"]

ChildStep(c) == Write(c) \/ End(c) \/ Terminated(c)

ParentStep(c) == Spawn(c) \/ Skip(c) \/ Poll(c) \/ Read(c) \/ Wait(c)

Parent == Collect \/ \E c \in Children : ParentStep(c)

Next ==
  \/ Parent
  \/ \E c \in Children : \/ PollError(c) \/ ReadError(c) \/ ChildStep(c)
                         \/ CloseOutput(c) \/ OrphanEnds(c)

(* A system call returns once it may, and poll() when its time is up. A     *)
(* child does what its script says, in its own time.                        *)
Spec == /\ Init /\ [][Next]_vars
        /\ WF_vars(Parent) /\ \A c \in Children : WF_vars(ChildStep(c))
-----------------------------------------------------------------------------
Done == pc = "poll" /\ at \notin Children

(* What was written is within the script, and was read, or is in the pipe.  *)
Units ==
  \A c \in Children : /\ written[c] <= script[c].writes
                      /\ got[c] + pipe[c] = written[c]

(* Every variable has its type, and nothing is read that was not written.   *)
TypeOK ==
  /\ script \in [Children -> Scripts] /\ timeout \in BOOLEAN /\ ignored \in BOOLEAN
  /\ child \in [Children -> {"unborn", "running", "zombie", "reaped"}]
  /\ writing \in [Children -> BOOLEAN] /\ held \in [Children -> BOOLEAN]
  /\ termed \in [Children -> BOOLEAN] /\ reading \in [Children -> BOOLEAN]
  /\ written \in [Children -> Nat] /\ got \in [Children -> Nat]
  /\ pipe \in [Children -> 0..Capacity]
  /\ pc \in {"spawn", "poll", "read", "wait", "reap"}
  /\ at \in 1..(N + 1)
  /\ Units
  /\ result \in [Children -> {"none", "ok", "command not found", "abnormally",
                              "posix_spawnp() failed", "read() failed", "timeout"}]

Endings == {"exit", "exit127", "crash"}

(* A result is only good if the child has ended, all it wrote was read, and *)
(* it ended well. The last is not known, and not asked for, where SIGCHLD   *)
(* is ignored: every ending is a good one there (processing_linux.c:219).   *)
OkIsComplete ==
  \A c \in Children :
    result[c] = "ok" => /\ got[c] = script[c].writes
                        /\ script[c].end \in IF ignored THEN Endings ELSE {"exit"}

(* However reading a child ends, but for a failing read(): it is reaped,    *)
(* and the pipe is closed.                                                  *)
Reaped ==
  \A c \in Children :
    result[c] \notin {"none", "read() failed"}
      => child[c] \in {"unborn", "reaped"} /\ ~reading[c]

(* What a caller sees of a child: whether it is there, and a good answer.   *)
Present == [c \in Children |-> child[c] \in {"running", "zombie"} \/ reading[c]]

Whole == [c \in Children |-> IF result[c] = "ok" THEN got[c] ELSE 0]

Promise == INSTANCE AnsweredOnce WITH
  Jobs <- Children,
  nature <- [c \in Children |-> [prints |-> script[c].writes, ends |-> Ending(c)]],
  patience <- timeout, blind <- ignored, open <- Present, answer <- result, output <- Whole

(* All this together is what the modules that run a command rely on         *)
(* (processing.h:38, "Destroys handle internally"): each answer is given    *)
(* once, in the order of the children, and nothing is left of a child.      *)
KeepsPromise == Promise!Spec

(* Children that end are all read in the end, though they wait for their    *)
(* turn on full pipes. With a timeout a child may hang if it ends when it is *)
(* asked to, and if it is asked: nobody asks one that has closed its output. *)
Ends(s) ==
  IF timeout
  THEN IF s.deaf THEN s.end # "hang" /\ s.writes <= Capacity
                 ELSE s.end # "hang" \/ ~s.closes
  ELSE s.end # "hang" /\ ~s.orphan

AllRead == (\A c \in Children : Ends(script[c])) ~> Done

(* "Set the timeout (ms) when waiting for child processes"                  *)
(* (json_schema.json:980): with a timeout no child is waited for for ever.  *)
TimeoutEnds == timeout ~> Done
=============================================================================
