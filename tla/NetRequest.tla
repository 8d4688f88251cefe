----------------------------- MODULE NetRequest -----------------------------
(* The life of an HTTP request (networking_linux.c) and of the latch its    *)
(* caller keeps (weather.c, publicip.c): a prepare pass sends it, mostly    *)
(* from a thread of its own, other modules run meanwhile, and the detection *)
(* joins the thread, receives the response and resets the state. What is    *)
(* received is HttpResponse; here the socket, the addrinfo, the command     *)
(* buffer and the thread are followed from the first to the last step.      *)
EXTENDS Integers

CONSTANTS Requests,    \* the states: of Weather, of PublicIp for IPv4, for IPv6
          Tfo,         \* those that ask for TCP Fast Open
          Fds,         \* the descriptors a process has for them
          FailedHandles \* what a failed pthread_create() leaves of the handle:
                        \* FALSE (0), TRUE (a value), POSIX does not say

ASSUME TfoAssumption == Tfo \subseteq Requests
ASSUME FdsAssumption == Fds \subseteq Nat \ {0}
ASSUME HandlesAssumption == FailedHandles \in {{FALSE}, BOOLEAN}
ASSUME OthersAssumption == {"free", "other"} \cap Requests = {}

VARIABLES multithreading,   \* instance.config.general.multithreading
          at, who,          \* the step the main thread is at, and of which request
          detecting,        \* ffPrepare was called by ffDetect
          tpc,              \* the step the thread of a request is at
          sockfd, addr, thread, command,        \* FFNetworkingState
          status,           \* the latch: "uninitialized", "sent" or "error"
          opened,           \* who has a descriptor open
          addrs, commands,  \* what is allocated and was not freed
          onWire            \* "request": it was sent; "refused": the kernel did not
                            \* take it, which went for success; "nothing" before

state == <<sockfd, addr, thread, command>>
heap == <<addrs, commands>>
vars == <<multithreading, at, who, detecting, tpc, state, status, opened, heap, onWire>>

(* connect() and send() are called by the main thread or by the thread of   *)
(* the request: `pc` says where the caller is.                              *)
Main(r, step) == at = step /\ who = r

Goto(step) == at' = step /\ UNCHANGED <<who, detecting, tpc>>

(* The end of ffPrepareWeather or ffPreparePublicIp.                        *)
Prepared(r, result) ==
  /\ status' = [status EXCEPT ![r] = result]
  /\ at' = IF detecting THEN "detect" ELSE "idle"
  /\ UNCHANGED <<who, detecting, tpc>>

FreeAddr(r) == /\ addr' = [addr EXCEPT ![r] = FALSE]
               /\ addrs' = [addrs EXCEPT ![r] = @ - 1]

(* ffStrbufDestroy(&state->command)                                         *)
DestroyCommand(r) ==
  /\ command' = [command EXCEPT ![r] = FALSE]
  /\ commands' = [commands EXCEPT ![r] = IF command[r] THEN @ - 1 ELSE @]

CloseNoReset(r) ==           \* mutant: the closed descriptor stays in the state
  opened' = [opened EXCEPT ![sockfd[r]] = "free"] /\ UNCHANGED sockfd

Close(r) == /\ opened' = [opened EXCEPT ![sockfd[r]] = "free"]
            /\ sockfd' = [sockfd EXCEPT ![r] = -1]
-----------------------------------------------------------------------------
(* A module needs the request sent: in the prepare pass, or because it is   *)
(* printed without one.                                                     *)
Begin(r) ==
  /\ who' = r
  /\ IF status[r] = "uninitialized"
     THEN /\ at' = "resolve"
          /\ command' = [command EXCEPT ![r] = TRUE]
          /\ commands' = [commands EXCEPT ![r] = @ + 1]
          /\ thread' = [thread EXCEPT ![r] = FALSE]
     ELSE at' = "exited" /\ UNCHANGED <<command, commands, thread>>
  /\ UNCHANGED <<multithreading, tpc, sockfd, addr, status, opened, addrs, onWire>>

ffPrepare(r) == at = "idle" /\ Begin(r) /\ detecting' = FALSE

(* ffDetectWeather, ffDetectPublicIp                                        *)
ffDetect(r) ==
  /\ at = "idle"
  /\ IF status[r] = "uninitialized"
     THEN Begin(r) /\ detecting' = TRUE
     ELSE /\ at' = "detect" /\ who' = r /\ detecting' = TRUE
          /\ UNCHANGED <<multithreading, tpc, state, status, opened, heap, onWire>>

(* initNetworkingState                                                      *)
InitError(r) ==
  /\ IF addr[r] THEN FreeAddr(r) ELSE UNCHANGED <<addr, addrs>>
  /\ Prepared(r, "error")

Resolve(r) ==
  /\ Main(r, "resolve")
  /\ \/ /\ addr' = [addr EXCEPT ![r] = TRUE]
        /\ addrs' = [addrs EXCEPT ![r] = @ + 1]
        /\ Goto("socket")
        /\ UNCHANGED status
     \/ InitError(r)
  /\ UNCHANGED <<multithreading, sockfd, thread, command, opened, commands, onWire>>

Socket(r) ==
  /\ Main(r, "socket")
  /\ \/ \E fd \in Fds :
          /\ opened[fd] = "free"
          /\ opened' = [opened EXCEPT ![fd] = r]
          /\ sockfd' = [sockfd EXCEPT ![r] = fd]
          /\ Goto("fastpath")
          /\ UNCHANGED <<addr, addrs, status>>
     \/ /\ sockfd' = [sockfd EXCEPT ![r] = -1]
        /\ InitError(r)
        /\ UNCHANGED opened
  /\ UNCHANGED <<multithreading, thread, command, commands, onWire>>

(* tryNonThreadingFastPath: sendto() connects and sends at once, or fails.  *)
(* EAGAIN and EWOULDBLOCK go for success, although nothing was sent then.   *)
FastPath(r) ==
  /\ Main(r, "fastpath")
  /\ \/ /\ r \in Tfo
        /\ \E sent \in {"request", "refused"} : onWire' = [onWire EXCEPT ![r] = sent]
        /\ FreeAddr(r) /\ DestroyCommand(r)
        /\ Prepared(r, "sent")
     \/ /\ Goto("spawn")
        /\ UNCHANGED <<addr, command, heap, status, onWire>>
  /\ UNCHANGED <<multithreading, sockfd, thread, opened>>

(* ffThreadCreate: the handle tells whether there is a thread.              *)
Spawn(r) ==
  /\ Main(r, "spawn")
  /\ \/ /\ multithreading
        /\ thread' = [thread EXCEPT ![r] = TRUE]
        /\ tpc' = [tpc EXCEPT ![r] = "connect"]
        /\ status' = [status EXCEPT ![r] = "sent"]
        /\ at' = IF detecting THEN "detect" ELSE "idle"
        /\ UNCHANGED <<who, detecting>>
     \/ \E handle \in IF multithreading THEN FailedHandles ELSE {FALSE} :
          /\ thread' = [thread EXCEPT ![r] = handle]
          /\ IF handle THEN Prepared(r, "sent")
             ELSE Goto("connect") /\ UNCHANGED status
  /\ UNCHANGED <<multithreading, sockfd, addr, command, opened, heap, onWire>>
-----------------------------------------------------------------------------
(* connectAndSend, called by the main thread or in the request's own.       *)
Thread(r, step) == tpc[r] = step /\ at # "exited"

Step(r, from, to) ==
  \/ Main(r, from) /\ Goto(to)
  \/ /\ Thread(r, from) /\ tpc' = [tpc EXCEPT ![r] = to]
     /\ UNCHANGED <<at, who, detecting>>

Connect(r) ==
  /\ \E to \in {"send", "error"} : Step(r, "connect", to)
  /\ UNCHANGED <<multithreading, state, status, opened, heap, onWire>>

SendRetries(r) ==            \* mutant: a failed send() starts over
  /\ \/ Step(r, "send", "exit") /\ onWire' = [onWire EXCEPT ![r] = "request"]
     \/ Step(r, "send", "connect") /\ UNCHANGED onWire
  /\ UNCHANGED <<multithreading, state, status, opened, heap>>

Send(r) ==
  /\ \/ Step(r, "send", "exit") /\ onWire' = [onWire EXCEPT ![r] = "request"]
     \/ Step(r, "send", "error") /\ UNCHANGED onWire
  /\ UNCHANGED <<multithreading, state, status, opened, heap>>

SendError(r) ==
  /\ Step(r, "error", "exit")
  /\ Close(r)
  /\ UNCHANGED <<multithreading, addr, thread, command, status, heap, onWire>>

(* exit: the addrinfo and the command are released on either way.           *)
Release(r) == FreeAddr(r) /\ DestroyCommand(r)

Exit(r) ==
  /\ \/ Main(r, "exit") /\ Prepared(r, IF sockfd[r] = -1 THEN "error" ELSE "sent")
     \/ /\ Thread(r, "exit") /\ tpc' = [tpc EXCEPT ![r] = "ended"]
        /\ UNCHANGED <<at, who, detecting, status>>
  /\ Release(r)
  /\ UNCHANGED <<multithreading, sockfd, thread, opened, onWire>>
-----------------------------------------------------------------------------
(* The detection: an error of the request ends it.                          *)
DetectError(r) ==
  /\ Main(r, "detect") /\ status[r] = "error"
  /\ Goto("reset")
  /\ UNCHANGED <<multithreading, state, status, opened, heap, onWire>>

JoinForgotten(r) ==          \* mutant: the response is received right away
  /\ Main(r, "detect") /\ status[r] = "sent"
  /\ at' = IF sockfd[r] = -1 THEN "reset" ELSE "recv"
  /\ UNCHANGED <<multithreading, who, detecting, tpc, state, status, opened,
                 heap, onWire>>

(* ffNetworkingRecvHttpResponse: pthread_join() waits as long as it takes.  *)
Join(r) ==
  /\ Main(r, "detect") /\ status[r] = "sent"
  /\ IF thread[r]
     THEN /\ tpc[r] \in {"ended", "none"}
          /\ tpc' = [tpc EXCEPT ![r] = "none"]
          /\ thread' = [thread EXCEPT ![r] = FALSE]
     ELSE UNCHANGED <<tpc, thread>>
  /\ at' = IF sockfd[r] = -1 THEN "reset" ELSE "recv"
  /\ UNCHANGED <<multithreading, who, detecting, sockfd, addr, command, status,
                 opened, heap, onWire>>

(* See HttpResponse: whatever the response, its socket is closed once.      *)
Receive(r) ==
  /\ Main(r, "recv")
  /\ Close(r)
  /\ Goto("reset")
  /\ UNCHANGED <<multithreading, addr, thread, command, status, heap, onWire>>

(* ffNetworkingResetState, and the latch.                                   *)
ResetZeroes(r) ==            \* mutant: "a plain zeroing of the struct"
  command' = [command EXCEPT ![r] = FALSE] /\ UNCHANGED commands

ResetCommand(r) == DestroyCommand(r)

Reset(r) ==
  /\ Main(r, "reset")
  /\ ResetCommand(r)
  /\ sockfd' = [sockfd EXCEPT ![r] = 0]
  /\ addr' = [addr EXCEPT ![r] = FALSE]
  /\ thread' = [thread EXCEPT ![r] = FALSE]
  /\ status' = [status EXCEPT ![r] = "uninitialized"]
  /\ onWire' = [onWire EXCEPT ![r] = "nothing"]
  /\ at' = "idle" /\ detecting' = FALSE
  /\ UNCHANGED <<multithreading, who, tpc, opened, addrs>>

(* Other modules open and close descriptors of their own all the time.      *)
Others ==
  /\ at # "exited"
  /\ \E fd \in Fds :
       \/ opened[fd] = "free" /\ opened' = [opened EXCEPT ![fd] = "other"]
       \/ opened[fd] = "other" /\ opened' = [opened EXCEPT ![fd] = "free"]
  /\ UNCHANGED <<multithreading, at, who, detecting, tpc, state, status, heap, onWire>>
-----------------------------------------------------------------------------
Init ==
  /\ multithreading \in BOOLEAN
  /\ at = "idle" /\ who \in Requests /\ detecting = FALSE
  /\ tpc = [r \in Requests |-> "none"]
  /\ sockfd = [r \in Requests |-> 0]
  /\ addr = [r \in Requests |-> FALSE]
  /\ thread = [r \in Requests |-> FALSE]
  /\ command = [r \in Requests |-> FALSE]
  /\ status = [r \in Requests |-> "uninitialized"]
  /\ opened = [fd \in Fds |-> "free"]
  /\ addrs = [r \in Requests |-> 0]
  /\ commands = [r \in Requests |-> 0]
  /\ onWire = [r \in Requests |-> "nothing"]

Running(r) ==
  \/ Resolve(r) \/ Socket(r) \/ FastPath(r) \/ Spawn(r)
  \/ Connect(r) \/ Send(r) \/ SendError(r) \/ Exit(r)
  \/ DetectError(r) \/ Join(r) \/ Receive(r) \/ Reset(r)

Next == Others \/ \E r \in Requests : ffPrepare(r) \/ ffDetect(r) \/ Running(r)

(* A call that was begun is carried on: getaddrinfo(), connect() and send() *)
(* return, with an error at the latest when the kernel gives up.            *)
Spec == Init /\ [][Next]_vars /\ \A r \in Requests : WF_vars(Running(r))
-----------------------------------------------------------------------------
Steps == {"connect", "send", "error", "exit"}

Wire == {"nothing", "request", "refused"}

(* Every variable has its type.                                             *)
TypeOK ==
  /\ multithreading \in BOOLEAN
  /\ at \in Steps \cup {"idle", "resolve", "socket", "fastpath", "spawn",
                        "detect", "recv", "reset", "exited"}
  /\ who \in Requests /\ detecting \in BOOLEAN
  /\ tpc \in [Requests -> Steps \cup {"none", "ended"}]
  /\ sockfd \in [Requests -> Fds \cup {-1, 0}]
  /\ addr \in [Requests -> BOOLEAN]
  /\ thread \in [Requests -> BOOLEAN]
  /\ command \in [Requests -> BOOLEAN]
  /\ status \in [Requests -> {"uninitialized", "sent", "error"}]
  /\ opened \in [Fds -> Requests \cup {"free", "other"}]
  /\ addrs \in [Requests -> Nat]
  /\ commands \in [Requests -> Nat]
  /\ onWire \in [Requests -> Wire]

Working(r) == who = r /\ at \notin {"idle", "exited"}

(* While a request is connected, sent, failed over or received, its socket  *)
(* is its own: a descriptor that was closed may be another module's by now. *)
OwnSocket ==
  \A r \in Requests :
    (\/ \E step \in Steps \ {"exit"} : Main(r, step) \/ Thread(r, step)
     \/ Main(r, "recv"))
      => sockfd[r] \in Fds /\ opened[sockfd[r]] = r

(* A request that is given up holds nothing any more: no descriptor, no     *)
(* addrinfo, no buffer, no thread that was not joined.                      *)
NothingLeft ==
  \A r \in Requests :
    (status[r] = "uninitialized" /\ ~Working(r))
      => /\ \A fd \in Fds : opened[fd] # r
         /\ addrs[r] = 0 /\ commands[r] = 0 /\ tpc[r] = "none"

(* The main thread leaves a request alone while its thread works on it.     *)
Exclusive ==
  \A r \in Requests : (tpc[r] \in Steps /\ Working(r)) => at = "detect"

(* A response is only received for a request that was sent. The exception   *)
(* is TCP Fast Open: a request of which its sendto() took nothing, with     *)
(* EAGAIN or EWOULDBLOCK, is waited for as if it had been sent. Connecting  *)
(* and sending by hand leaves no such case, whoever's thread does it.       *)
SentBeforeReceived ==
  \A r \in Requests :
    Main(r, "recv") => \/ onWire[r] = "request"
                       \/ r \in Tfo /\ onWire[r] = "refused"

(* What the main thread has begun for a request ends.                       *)
CallsEnd == \A r \in Requests : Working(r) ~> ~Working(r)
=============================================================================
