---------------------------- MODULE AnsweredOnce ----------------------------
(* What common/processing.h promises to the modules that run a command, and *)
(* to the queue of `command`, with nothing said of pipes and signals: a job *)
(* has one answer, in the order of the jobs; a good one is the whole output *)
(* of a process that ended, and ended well unless nobody can know that; and *)
(* the answer leaves nothing behind.                                        *)
EXTENDS Integers

CONSTANT Jobs          \* numbers, in the order the jobs are started

VARIABLES nature,      \* what each process will print, and how it will end
          patience,    \* there is a timeout
          blind,       \* how a process ends is not to be learned: all go for well
          open,        \* open[j]: a process or a pipe of j is there
          answer,      \* "none" yet, "ok", or what went wrong
          output       \* what came with a good answer

vars == <<nature, patience, blind, open, answer, output>>

Nature == [prints : Nat, ends : {"ok", "command not found", "abnormally"}]

Init == /\ nature \in [Jobs -> Nature] /\ patience \in BOOLEAN /\ blind \in BOOLEAN
        /\ open = [j \in Jobs |-> FALSE]
        /\ answer = [j \in Jobs |-> "none"]
        /\ output = [j \in Jobs |-> 0]

Fresh(j) == answer[j] = "none" /\ ~open[j]

Start(j) == /\ Fresh(j)
            /\ open' = [open EXCEPT ![j] = TRUE]
            /\ UNCHANGED <<nature, patience, blind, answer, output>>

Refuse(j) == /\ Fresh(j)
             /\ answer' \in {[answer EXCEPT ![j] = e] :
                               e \in {"command not found", "posix_spawnp() failed"}}
             /\ UNCHANGED <<nature, patience, blind, open, output>>

(* It is j's turn once all were started and those before it were answered.  *)
Turn(j) == /\ open[j] /\ answer[j] = "none"
           /\ \A i \in Jobs : /\ ~Fresh(i)
                              /\ i < j => answer[i] # "none"

Known(j) == IF blind THEN "ok" ELSE nature[j].ends

Finish(j) ==
  /\ Turn(j)
  /\ answer' = [answer EXCEPT ![j] = Known(j)]
  /\ output' = [output EXCEPT ![j] = IF Known(j) = "ok" THEN nature[j].prints ELSE 0]
  /\ open' = [open EXCEPT ![j] = FALSE]
  /\ UNCHANGED <<nature, patience, blind>>

GiveUp(j) == /\ Turn(j) /\ patience
             /\ answer' = [answer EXCEPT ![j] = "timeout"]
             /\ open' = [open EXCEPT ![j] = FALSE]
             /\ UNCHANGED <<nature, patience, blind, output>>

(* The one answer that leaves the process behind.                           *)
Abandon(j) == /\ Turn(j)
              /\ answer' = [answer EXCEPT ![j] = "read() failed"]
              /\ UNCHANGED <<nature, patience, blind, open, output>>

Next == \E j \in Jobs : Start(j) \/ Refuse(j) \/ Finish(j) \/ GiveUp(j) \/ Abandon(j)

Spec == Init /\ [][Next]_vars
=============================================================================
