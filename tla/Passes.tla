------------------------------- MODULE Passes -------------------------------
(* The prepare pass and the print pass over the configured modules, and the *)
(* loop of run() (fastfetch.c) that repeats them with --dynamic-interval.   *)
(*                                                                          *)
(* What takes long is started in the prepare pass and collected in the      *)
(* print pass: `command` modules through a FIFO of running processes, and   *)
(* `weather` and `publicip` through a status that holds one pending request *)
(* each. Nothing but the order of the modules ties the two passes together. *)
EXTENDS Integers, Sequences

CONSTANTS Programs,   \* what fastfetch may be asked to do, see Program
          Latches,    \* the modules with one pending request: weather, ...
          MaxRound,   \* bound on the rounds of --dynamic-interval
          None        \* no pending request, nothing printed yet

Types == Latches \cup {"command", "other", "broken"}

(* An element of the "modules" array. `gate` is its "condition": none, a    *)
(* "system" or "arch" that does not match, or a "succeeded". A broken one   *)
(* has no type; the options of a fatal one end the program when parsed.     *)
Modules == [type : Types, gate : {"none", "mismatch", "yes", "no"},
            parallel : BOOLEAN, fatal : BOOLEAN]

Program == [modules : Seq(Modules),
            structure : BOOLEAN,          \* --structure instead of the JSON config
            disabled : SUBSET (Types \ {"broken"}),  \* --structure-disabled
            watch : BOOLEAN,              \* --dynamic-interval, --watch
            json : BOOLEAN]               \* --json

ASSUME ProgramsAssumption ==
  /\ Programs \subseteq Program
  /\ \A p \in Programs :
       /\ ~(p.watch /\ p.json)
       /\ p.structure => \A i \in 1..Len(p.modules) : p.modules[i].type # "broken"
ASSUME LatchesAssumption == Latches \cap {"command", "other", "broken"} = {}
ASSUME RoundAssumption == MaxRound \in Nat \ {0}
ASSUME NoneAssumption ==
  None \notin [owner : Nat, round : Nat]
              \cup [idx : Nat, owner : Nat, preparedIn : Nat, printedIn : Nat]

VARIABLES program,        \* configuration and command line, read once
          pc,             \* where run() is
          idx,            \* the module the pass is at
          succeeded,      \* whether the last printed module had a result
          commandQueue,   \* detection/command/command.c
          status,         \* detection/weather/weather.c, publicip/publicip.c
          printed,        \* the last collected result, and where it came from
          altered,        \* the terminal has no cursor, or the other buffer
          round

vars == <<program, pc, idx, succeeded, commandQueue, status, printed, altered, round>>

N == Len(program.modules)
m == program.modules[idx]

Gated(x)    == ~program.structure /\ x.gate \in {"yes", "no"}
Mismatch(x) == ~program.structure /\ x.gate = "mismatch"
Disabled(x) == x.type \in program.disabled
Wants(x)    == x.gate = "yes"

Mine == [owner |-> idx, round |-> round]

InPass(pass) == pc = pass /\ idx \in 1..N

(* The pass goes on with the next module, or is over.                       *)
Advance == /\ idx' = idx + 1
           /\ UNCHANGED <<program, pc, altered, round>>

Over(next) == /\ pc' = next
              /\ idx' = 1
              /\ succeeded' = TRUE
              /\ UNCHANGED <<program, altered, round>>

(* exit() without ffFinish: the terminal is left as it is.                  *)
Exit == /\ pc' = "exited"
        /\ UNCHANGED <<program, idx, succeeded, commandQueue, status, printed,
                       altered, round>>
-----------------------------------------------------------------------------
(* The prepare pass: ffPrintJsonConfig(data, true), ffPrepareCommandOption. *)

AfterPrepare == IF round = 1 THEN "start" ELSE "print"

(* Whether a gated module is printed is not known yet: it is not prepared.  *)
PrepareSkips(x) == Mismatch(x) \/ Gated(x) \/ Disabled(x)

PrepareSkip ==
  /\ InPass("prepare")
  /\ PrepareSkips(m)
  /\ Advance
  /\ UNCHANGED <<succeeded, commandQueue, status, printed>>

PrepareRefuse ==
  /\ InPass("prepare")
  /\ ~PrepareSkips(m) /\ m.type = "broken"
  /\ Over(AfterPrepare)
  /\ UNCHANGED <<commandQueue, status, printed>>

(* ffPrepareCommand: spawned and queued when it runs in parallel.           *)
PrepareCommandAlways ==       \* mutant: `parallel` is not tested
  commandQueue' = Append(commandQueue, Mine)

ffPrepareCommand ==
  commandQueue' = IF m.parallel THEN Append(commandQueue, Mine) ELSE commandQueue

PrepareCommand ==
  /\ InPass("prepare")
  /\ ~PrepareSkips(m) /\ m.type = "command"
  /\ IF program.structure
     THEN Exit
     ELSE /\ ffPrepareCommand
          /\ Advance
          /\ UNCHANGED <<succeeded, status, printed>>

(* ffPrepareWeather, ffPreparePublicIp: one pending request, or exit(1).    *)
PrepareLatch ==
  /\ InPass("prepare")
  /\ ~PrepareSkips(m) /\ m.type \in Latches
  /\ IF status[m.type] # None \/ m.fatal
     THEN Exit
     ELSE /\ status' = [status EXCEPT ![m.type] = Mine]
          /\ Advance
          /\ UNCHANGED <<succeeded, commandQueue, printed>>

PrepareOther ==
  /\ InPass("prepare")
  /\ ~PrepareSkips(m) /\ m.type = "other"
  /\ Advance
  /\ UNCHANGED <<succeeded, commandQueue, status, printed>>

PrepareEnd ==
  /\ pc = "prepare" /\ idx = N + 1
  /\ Over(AfterPrepare)
  /\ UNCHANGED <<commandQueue, status, printed>>

(* ffStart and ffLogoPrint: hide the cursor, no line wrap, other buffer.    *)
Start ==
  /\ pc = "start"
  /\ pc' = "print"
  /\ altered' \in {a \in BOOLEAN : program.watch => a}
  /\ UNCHANGED <<program, idx, succeeded, commandQueue, status, printed, round>>
-----------------------------------------------------------------------------
(* The print pass: ffPrintJsonConfig(data, false), ffPrintCommandOption.    *)

(* A gated `command` module that runs in parallel is refused.               *)
PrintRefuses(x) == Gated(x) /\ x.type = "command" /\ x.parallel

(* A gate compares with the result of the last module that was printed.     *)
PrintSkips(x) ==
  \/ Mismatch(x)
  \/ ~PrintRefuses(x) /\ (Disabled(x) \/ (Gated(x) /\ succeeded # Wants(x)))

Prints(x) == ~PrintSkips(x) /\ ~PrintRefuses(x)

PrintSkip ==
  /\ InPass("print")
  /\ PrintSkips(m)
  /\ Advance
  /\ UNCHANGED <<succeeded, commandQueue, status, printed>>

(* An error ends the pass, whatever was prepared for the modules after it.  *)
PrintRefuse ==
  /\ InPass("print")
  /\ ~Mismatch(m)
  /\ PrintRefuses(m) \/ (Prints(m) /\ m.type = "broken")
  /\ Over("boundary")
  /\ UNCHANGED <<commandQueue, status, printed>>

(* ffDetectCommand: the oldest process of the queue, or one of its own.     *)
Shifted == IF commandQueue = <<>> THEN None ELSE Head(commandQueue)

Result(r) == [idx |-> idx, owner |-> r.owner, preparedIn |-> r.round,
              printedIn |-> round]

DetectNewestCommand ==        \* mutant: the queue is popped where it is pushed
  IF ~m.parallel
  THEN /\ printed' = Result(Mine)
       /\ succeeded' \in BOOLEAN
       /\ UNCHANGED commandQueue
  ELSE IF Shifted = None
  THEN /\ succeeded' = FALSE
       /\ UNCHANGED <<commandQueue, printed>>
  ELSE /\ printed' = Result(commandQueue[Len(commandQueue)])
       /\ succeeded' \in BOOLEAN
       /\ commandQueue' = SubSeq(commandQueue, 1, Len(commandQueue) - 1)

ffDetectCommand ==
  IF ~m.parallel
  THEN /\ printed' = Result(Mine)
       /\ succeeded' \in BOOLEAN
       /\ UNCHANGED commandQueue
  ELSE IF Shifted = None
  THEN /\ succeeded' = FALSE
       /\ UNCHANGED <<commandQueue, printed>>
  ELSE /\ printed' = Result(Shifted)
       /\ succeeded' \in BOOLEAN
       /\ commandQueue' = Tail(commandQueue)

PrintCommand ==
  /\ InPass("print")
  /\ Prints(m) /\ m.type = "command"
  /\ ffDetectCommand
  /\ Advance
  /\ UNCHANGED status

(* ffDetectWeather, ffDetectPublicIp: the pending request, or one that is   *)
(* sent now; either way nothing is pending afterwards.                      *)
DetectLatchKeeps ==           \* mutant: the status is never set back
  /\ printed' = Result(IF status[m.type] = None THEN Mine ELSE status[m.type])
  /\ UNCHANGED status
  /\ succeeded' \in BOOLEAN

DetectLatchKeepsFailed ==     \* mutant: ... unless an answer was received
  /\ printed' = Result(IF status[m.type] = None THEN Mine ELSE status[m.type])
  /\ succeeded' \in BOOLEAN
  /\ status' = [status EXCEPT ![m.type] = IF succeeded' THEN None ELSE @]

ffDetectLatch ==
  /\ printed' = Result(IF status[m.type] = None THEN Mine ELSE status[m.type])
  /\ status' = [status EXCEPT ![m.type] = None]
  /\ succeeded' \in BOOLEAN

PrintLatch ==
  /\ InPass("print")
  /\ Prints(m) /\ m.type \in Latches
  /\ IF status[m.type] = None /\ m.fatal
     THEN Exit
     ELSE /\ ffDetectLatch
          /\ Advance
          /\ UNCHANGED commandQueue

PrintOther ==
  /\ InPass("print")
  /\ Prints(m) /\ m.type = "other"
  /\ IF m.fatal
     THEN Exit
     ELSE /\ succeeded' \in BOOLEAN
          /\ Advance
          /\ UNCHANGED <<commandQueue, status, printed>>

PrintEnd ==
  /\ pc = "print" /\ idx = N + 1
  /\ Over("boundary")
  /\ UNCHANGED <<commandQueue, status, printed>>
-----------------------------------------------------------------------------
(* The frame boundary: sleep, go home, and prepare once more.               *)
NextRound ==
  /\ pc = "boundary" /\ program.watch
  /\ round < MaxRound
  /\ round' = round + 1
  /\ pc' = "prepare"
  /\ UNCHANGED <<program, idx, succeeded, commandQueue, status, printed, altered>>

(* The end of run() when it prints only once: ffFinish, or the JSON output. *)
Finish ==
  /\ pc = "boundary" /\ ~program.watch
  /\ pc' = "finished"
  /\ altered' = (altered /\ program.json)
  /\ UNCHANGED <<program, idx, succeeded, commandQueue, status, printed, round>>

(* SIGINT, SIGTERM, SIGQUIT: exitSignalHandler once ffStart installed it,   *)
(* and before that the default action, which ends the program.              *)
Signal ==
  /\ pc \notin {"finished", "exited"}
  /\ pc' = "exited"
  /\ altered' = FALSE
  /\ UNCHANGED <<program, idx, succeeded, commandQueue, status, printed, round>>

Init ==
  /\ program \in Programs
  /\ pc = "prepare"
  /\ idx = 1
  /\ succeeded = TRUE
  /\ commandQueue = <<>>
  /\ status = [t \in Latches |-> None]
  /\ printed = None
  /\ altered = FALSE
  /\ round = 1

PreparePass == PrepareSkip \/ PrepareRefuse \/ PrepareCommand \/ PrepareLatch
             \/ PrepareOther \/ PrepareEnd

PrintPass == PrintSkip \/ PrintRefuse \/ PrintCommand \/ PrintLatch \/ PrintOther
           \/ PrintEnd

Next == PreparePass \/ Start \/ PrintPass \/ NextRound \/ Finish \/ Signal

Spec == Init /\ [][Next]_vars

-----------------------------------------------------------------------------
Sources == [owner : Nat \ {0}, round : 1..MaxRound]
Results == [idx : Nat \ {0}, owner : Nat \ {0},
            preparedIn : 1..MaxRound, printedIn : 1..MaxRound]

(* Every variable has its type.                                             *)
TypeOK ==
  /\ program \in Programs
  /\ pc \in {"prepare", "start", "print", "boundary", "finished", "exited"}
  /\ idx \in 1..N + 1
  /\ succeeded \in BOOLEAN
  /\ commandQueue \in Seq(Sources)
  /\ status \in [Latches -> Sources \cup {None}]
  /\ printed \in Results \cup {None}
  /\ altered \in BOOLEAN
  /\ round \in 1..MaxRound

(* The prepare pass reaches module j and starts something for it.           *)
RefusedAt(j) == program.modules[j].type = "broken" /\ ~PrepareSkips(program.modules[j])
Reached(j)   == \A i \in 1..j : ~RefusedAt(i)
Prepared(j)  == Reached(j) /\ ~PrepareSkips(program.modules[j])

(* An enabled module of type t other than j, printed or not.                *)
Shared(t, j) == \E i \in 1..N : i # j /\ program.modules[i].type = t

(* A result is printed by the module it was prepared for, in the round it   *)
(* was prepared in, unless a second module of its type shares the one       *)
(* pending request (command.c:54, "must line up").                          *)
ResultsArePaired ==
  printed # None =>
    /\ printed.preparedIn = printed.printedIn
    /\ \/ printed.owner = printed.idx
       \/ /\ program.modules[printed.idx].type \in Latches
          /\ Shared(program.modules[printed.idx].type, printed.idx)

(* Nothing that was started in a round is left at its end: no process that  *)
(* nobody reads or reaps, no request that nobody receives.                  *)
Drained ==
  pc \in {"boundary", "finished"} =>
    commandQueue = <<>> /\ \A t \in Latches : status[t] = None

(* "... can only be used once" is only said of what is used more than once. *)
OnceOnly ==
  (InPass("prepare") /\ ~PrepareSkips(m) /\ m.type \in Latches /\ status[m.type] # None)
    => \E j \in 1..idx - 1 : program.modules[j].type = m.type /\ Prepared(j)

(* The options of a module that is not prepared are first parsed when it is *)
(* printed; a fatal one then ends the program in the middle of the output.  *)
FatalInPrint(x) == x.fatal /\ (x.type \notin Latches \/ Gated(x))

(* However the program ends, by itself, by a signal or because it refused   *)
(* its modules while preparing them, the terminal is as it was before. The  *)
(* JSON output is left out: run() then ends without ffFinish.               *)
ConsoleRestored ==
  (/\ pc = "exited" \/ (pc = "finished" /\ ~program.json)
   /\ ~\E i \in 1..N : FatalInPrint(program.modules[i]))
    => ~altered

-----------------------------------------------------------------------------
(* What makes them inductive. The modules whose preparation started         *)
(* something that the print pass has not come to yet:                       *)
Pending == {j \in 1..N : /\ Prepared(j)
                         /\ CASE pc = "prepare" -> j < idx
                              [] pc = "start"   -> TRUE
                              [] pc = "print"   -> j >= idx
                              [] OTHER          -> FALSE}

Queues(j) == program.modules[j].type = "command" /\ program.modules[j].parallel

(* No error that only the print pass finds can end it early.                *)
Sound == \A i \in 1..N : Gated(program.modules[i]) =>
           ~PrintRefuses(program.modules[i]) /\ program.modules[i].type # "broken"

(* A pass that is at idx was not ended before.                              *)
NotRefusedYet == pc \in {"prepare", "print"} => \A i \in 1..idx - 1 : ~RefusedAt(i)

Queued == {j \in Pending : Queues(j)}

(* The queue holds exactly the pending commands, in the order of the        *)
(* modules and of this round.                                               *)
QueueIsPending ==
  /\ \A k \in 1..Len(commandQueue) :
       commandQueue[k].owner \in Queued /\ commandQueue[k].round = round
  /\ \A k, l \in 1..Len(commandQueue) :
       k < l => commandQueue[k].owner < commandQueue[l].owner
  /\ \A j \in Queued : \E k \in 1..Len(commandQueue) : commandQueue[k].owner = j

(* A request is pending for a module that is, and for each one prepared.    *)
StatusIsPending ==
  /\ \A t \in Latches : status[t] # None =>
       /\ status[t].owner \in Pending /\ program.modules[status[t].owner].type = t
       /\ status[t].round = round
  /\ pc = "prepare" =>
       \A j \in Pending : program.modules[j].type \in Latches
                           => status[program.modules[j].type] # None

(* Preparing module j does not end the program.                             *)
Prepares(j) ==
  Prepared(j) =>
    /\ ~(program.structure /\ program.modules[j].type = "command")
    /\ program.modules[j].type \in Latches =>
         /\ ~program.modules[j].fatal
         /\ \A i \in 1..j - 1 :
              program.modules[i].type = program.modules[j].type => ~Prepared(i)

(* What was prepared once can be prepared in every round: an error of the   *)
(* prepare pass shows before ffStart touches the terminal.                  *)
PreparedBefore ==
  /\ pc = "prepare" => \A j \in 1..idx - 1 : Prepares(j)
  /\ (pc \in {"start", "print", "boundary"} \/ round > 1) =>
       \A j \in 1..N : Prepares(j)

(* The terminal is only touched once the first prepare pass is over.        *)
AlteredLate ==
  /\ pc = "finished" /\ ~program.json => ~altered
  /\ round = 1 /\ pc \in {"prepare", "start"} => ~altered

(* A pass starts with the first module.                                     *)
StartsAtFirst == pc \in {"start", "boundary"} => idx = 1

IInv ==
  /\ TypeOK
  /\ pc # "exited" =>
       /\ StartsAtFirst /\ AlteredLate
       /\ Sound => /\ NotRefusedYet /\ QueueIsPending /\ StatusIsPending
                   /\ PreparedBefore
  /\ Sound => ResultsArePaired /\ ConsoleRestored
=============================================================================
