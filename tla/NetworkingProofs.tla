-------------------------- MODULE NetworkingProofs --------------------------
(* Networking, for all values of the constants. First the requests of       *)
(* NetRequest, for any number of requests and descriptors and any           *)
(* interleaving with the threads; then HttpResponse: for every response,    *)
(* every buffer and every division into segments the buffer stays bounded,  *)
(* what is accepted is whole, and what is well-formed and fits is accepted; *)
(* then Chunked: the verdict on a body and its decoding in place, for       *)
(* bodies of any length, by induction over sets of places, and what is made *)
(* of a body that keeps to the grammar, by induction over its chunks.       *)
EXTENDS NetRequest, HttpResponse, Chunked, NumberInduction, SequenceTheorems, TLAPS

(* The addresses are held from getaddrinfo() to the end of connectAndSend.  *)
Holding == Steps \cup {"socket", "fastpath", "spawn"}

HeapOK == \A r \in Requests :
  /\ addrs[r] = IF addr[r] THEN 1 ELSE 0
  /\ commands[r] = IF command[r] THEN 1 ELSE 0

AddrOK == \A r \in Requests :
  addr[r] <=> (who = r /\ at \in Holding) \/ tpc[r] \in Steps

(* A descriptor is open for a request exactly if its state says so.         *)
SocketOK == \A r \in Requests : \A fd \in Fds : opened[fd] = r <=> sockfd[r] = fd

(* Before its thread has ended, the main thread can only wait for a request.*)
ThreadOK == \A r \in Requests :
  tpc[r] # "none" => /\ status[r] = "sent" /\ thread[r]
                     /\ who = r => at \in {"idle", "detect", "exited"}

HandleOK == \A r \in Requests : thread[r] => tpc[r] # "none"

PhaseOK == \A r \in Requests :
  /\ (who = r /\ at \in Holding \cup {"resolve"}) => status[r] = "uninitialized"
  /\ (who = r /\ at \in {"detect", "reset"}) => status[r] # "uninitialized"
  /\ (who = r /\ at = "recv") => status[r] = "sent"
  /\ (who = r /\ at \in {"resolve", "socket"}) => sockfd[r] = 0
  /\ (who = r /\ at = "reset") => sockfd[r] \notin Fds
  /\ status[r] = "error" => sockfd[r] \notin Fds
  /\ (status[r] = "uninitialized" /\ ~Working(r)) => sockfd[r] = 0 /\ ~command[r]

(* As long as something is done with it, the socket is open.                *)
LiveOK == \A r \in Requests :
  /\ (who = r /\ at \in {"fastpath", "spawn", "connect", "send", "error", "recv"})
       => sockfd[r] \in Fds
  /\ tpc[r] \in {"connect", "send", "error"} => sockfd[r] \in Fds

(* An open socket has carried the request, once sending is over, or TCP     *)
(* Fast Open has refused it.                                                *)
Carried(r) == onWire[r] = "request" \/ (r \in Tfo /\ onWire[r] = "refused")

WireOK == \A r \in Requests :
  \/ (status[r] = "sent" /\ tpc[r] \in {"none", "ended", "exit"})
  \/ who = r /\ at = "exit"
  => sockfd[r] = -1 \/ (sockfd[r] \in Fds /\ Carried(r))

Inv == /\ TypeOK /\ HeapOK /\ AddrOK /\ SocketOK /\ ThreadOK /\ HandleOK
       /\ PhaseOK /\ LiveOK /\ WireOK
-----------------------------------------------------------------------------
LEMMA ffPrepareStep ==
  ASSUME Inv, FailedHandles = {FALSE}, NEW r \in Requests, ffPrepare(r)
  PROVE  Inv'
  <1>1. TypeOK'
    <2>1. /\ at' \in Steps \cup {"idle", "resolve", "socket", "fastpath", "spawn",
                               "detect", "recv", "reset", "exited"}
          /\ who' \in Requests /\ tpc' \in [Requests -> Steps \cup {"none", "ended"}]
          /\ sockfd' \in [Requests -> Fds \cup {-1, 0}]
          /\ opened' \in [Fds -> Requests \cup {"free", "other"}]
          /\ status' \in [Requests -> {"uninitialized", "sent", "error"}]
      BY DEF Inv, TypeOK, ffPrepare, Begin
    <2>2. addrs' \in [Requests -> Nat] /\ commands' \in [Requests -> Nat]
      BY DEF Inv, TypeOK, ffPrepare, Begin
    <2>3. /\ detecting' \in BOOLEAN /\ multithreading' \in BOOLEAN
          /\ addr' \in [Requests -> BOOLEAN] /\ thread' \in [Requests -> BOOLEAN]
          /\ command' \in [Requests -> BOOLEAN] /\ onWire' \in [Requests -> Wire]
      BY DEF Inv, TypeOK, ffPrepare, Begin
    <2> QED BY <2>1, <2>2, <2>3 DEF TypeOK
  <1>2. HeapOK'
    BY DEF Inv, TypeOK, HeapOK, PhaseOK, Working, ffPrepare, Begin
  <1>3. AddrOK'
    BY DEF Inv, TypeOK, AddrOK, Holding, Steps, ffPrepare, Begin
  <1>4. SocketOK'
    BY DEF Inv, TypeOK, SocketOK, ffPrepare, Begin
  <1>5. ThreadOK'
    BY DEF Inv, TypeOK, ThreadOK, ffPrepare, Begin
  <1>6. HandleOK'
    BY DEF Inv, TypeOK, HandleOK, ffPrepare, Begin
  <1>7. PhaseOK'
    BY DEF Inv, TypeOK, PhaseOK, Holding, Steps, Working, ffPrepare, Begin
  <1>8. LiveOK'
    BY DEF Inv, TypeOK, LiveOK, ffPrepare, Begin
  <1>9. WireOK'
    BY DEF Inv, TypeOK, WireOK, Carried, ffPrepare, Begin
  <1> QED BY <1>1, <1>2, <1>3, <1>4, <1>5, <1>6, <1>7, <1>8, <1>9 DEF Inv

LEMMA ffDetectStep ==
  ASSUME Inv, FailedHandles = {FALSE}, NEW r \in Requests, ffDetect(r)
  PROVE  Inv'
  <1>1. TypeOK'
    <2>1. /\ at' \in Steps \cup {"idle", "resolve", "socket", "fastpath", "spawn",
                               "detect", "recv", "reset", "exited"}
          /\ who' \in Requests /\ tpc' \in [Requests -> Steps \cup {"none", "ended"}]
          /\ sockfd' \in [Requests -> Fds \cup {-1, 0}]
          /\ opened' \in [Fds -> Requests \cup {"free", "other"}]
          /\ status' \in [Requests -> {"uninitialized", "sent", "error"}]
      BY DEF Inv, TypeOK, state, ffDetect, Begin
    <2>2. addrs' \in [Requests -> Nat] /\ commands' \in [Requests -> Nat]
      BY DEF Inv, TypeOK, heap, ffDetect, Begin
    <2>3. /\ detecting' \in BOOLEAN /\ multithreading' \in BOOLEAN
          /\ addr' \in [Requests -> BOOLEAN] /\ thread' \in [Requests -> BOOLEAN]
          /\ command' \in [Requests -> BOOLEAN] /\ onWire' \in [Requests -> Wire]
      BY DEF Inv, TypeOK, state, ffDetect, Begin
    <2> QED BY <2>1, <2>2, <2>3 DEF TypeOK
  <1>2. HeapOK'
    BY DEF Inv, TypeOK, HeapOK, PhaseOK, Working, state, heap, ffDetect, Begin
  <1>3. AddrOK'
    BY DEF Inv, TypeOK, AddrOK, Holding, Steps, state, ffDetect, Begin
  <1>4. SocketOK'
    BY DEF Inv, TypeOK, SocketOK, state, ffDetect, Begin
  <1>5. ThreadOK'
    BY DEF Inv, TypeOK, ThreadOK, state, ffDetect, Begin
  <1>6. HandleOK'
    BY DEF Inv, TypeOK, HandleOK, state, ffDetect, Begin
  <1>7. PhaseOK'
    BY DEF Inv, TypeOK, PhaseOK, Holding, Steps, Working, state, ffDetect, Begin
  <1>8. LiveOK'
    BY DEF Inv, TypeOK, LiveOK, state, ffDetect, Begin
  <1>9. WireOK'
    BY DEF Inv, TypeOK, WireOK, Carried, state, ffDetect, Begin
  <1> QED BY <1>1, <1>2, <1>3, <1>4, <1>5, <1>6, <1>7, <1>8, <1>9 DEF Inv

LEMMA ResolveStep ==
  ASSUME Inv, FailedHandles = {FALSE}, NEW r \in Requests, Resolve(r)
  PROVE  Inv'
  <1>1. TypeOK'
    <2>1. /\ at' \in Steps \cup {"idle", "resolve", "socket", "fastpath", "spawn",
                               "detect", "recv", "reset", "exited"}
          /\ who' \in Requests /\ tpc' \in [Requests -> Steps \cup {"none", "ended"}]
          /\ sockfd' \in [Requests -> Fds \cup {-1, 0}]
          /\ opened' \in [Fds -> Requests \cup {"free", "other"}]
          /\ status' \in [Requests -> {"uninitialized", "sent", "error"}]
      BY DEF Inv, TypeOK, Resolve, Main, Goto, InitError, Prepared
    <2>2. addrs' \in [Requests -> Nat] /\ commands' \in [Requests -> Nat]
      BY DEF Inv, TypeOK, HeapOK, Resolve, Main, InitError, FreeAddr
    <2>3. /\ detecting' \in BOOLEAN /\ multithreading' \in BOOLEAN
          /\ addr' \in [Requests -> BOOLEAN] /\ thread' \in [Requests -> BOOLEAN]
          /\ command' \in [Requests -> BOOLEAN] /\ onWire' \in [Requests -> Wire]
      BY DEF Inv, TypeOK, Resolve, Main, Goto, InitError, FreeAddr, Prepared
    <2> QED BY <2>1, <2>2, <2>3 DEF TypeOK
  <1>2. HeapOK'
    BY DEF Inv, TypeOK, HeapOK, AddrOK, ThreadOK, Holding, Steps, Resolve, Main,
           InitError
  <1>3. AddrOK'
    BY DEF Inv, TypeOK, AddrOK, ThreadOK, Holding, Steps, Resolve, Main, Goto,
           InitError, Prepared
  <1>4. SocketOK'
    BY DEF Inv, TypeOK, SocketOK, Resolve, Main
  <1>5. ThreadOK'
    BY DEF Inv, TypeOK, ThreadOK, Resolve, Main, Goto, InitError, Prepared
  <1>6. HandleOK'
    BY DEF Inv, TypeOK, HandleOK, Resolve, Main, Goto, InitError, Prepared
  <1>7. PhaseOK'
    BY FdsAssumption DEF Inv, TypeOK, PhaseOK, Holding, Steps, Working, Resolve,
           Main, Goto, InitError, Prepared
  <1>8. LiveOK'
    BY DEF Inv, TypeOK, LiveOK, Resolve, Main, Goto, InitError, Prepared
  <1>9. WireOK'
    BY DEF Inv, TypeOK, WireOK, Carried, Resolve, Main, Goto, InitError, Prepared
  <1> QED BY <1>1, <1>2, <1>3, <1>4, <1>5, <1>6, <1>7, <1>8, <1>9 DEF Inv

LEMMA SocketStep ==
  ASSUME Inv, FailedHandles = {FALSE}, NEW r \in Requests, Socket(r)
  PROVE  Inv'
  <1>1. TypeOK'
    <2>1. /\ at' \in Steps \cup {"idle", "resolve", "socket", "fastpath", "spawn",
                               "detect", "recv", "reset", "exited"}
          /\ who' \in Requests /\ tpc' \in [Requests -> Steps \cup {"none", "ended"}]
          /\ sockfd' \in [Requests -> Fds \cup {-1, 0}]
          /\ opened' \in [Fds -> Requests \cup {"free", "other"}]
          /\ status' \in [Requests -> {"uninitialized", "sent", "error"}]
      BY DEF Inv, TypeOK, Socket, Main, Goto, InitError, Prepared
    <2>2. addrs' \in [Requests -> Nat] /\ commands' \in [Requests -> Nat]
      BY DEF Inv, TypeOK, HeapOK, Socket, Main, InitError, FreeAddr
    <2>3. /\ detecting' \in BOOLEAN /\ multithreading' \in BOOLEAN
          /\ addr' \in [Requests -> BOOLEAN] /\ thread' \in [Requests -> BOOLEAN]
          /\ command' \in [Requests -> BOOLEAN] /\ onWire' \in [Requests -> Wire]
      BY DEF Inv, TypeOK, Socket, Main, Goto, InitError, FreeAddr, Prepared
    <2> QED BY <2>1, <2>2, <2>3 DEF TypeOK
  <1>2. HeapOK'
    BY DEF Inv, TypeOK, HeapOK, Socket, Main, InitError, FreeAddr
  <1>3. AddrOK'
    BY DEF Inv, TypeOK, AddrOK, ThreadOK, Holding, Steps, Socket, Main, Goto,
           InitError, FreeAddr, Prepared
  <1>4. SocketOK'
    BY FdsAssumption, OthersAssumption DEF Inv, TypeOK, SocketOK, PhaseOK,
           Socket, Main
  <1>5. ThreadOK'
    BY DEF Inv, TypeOK, ThreadOK, Socket, Main, Goto, InitError, Prepared
  <1>6. HandleOK'
    BY DEF Inv, TypeOK, HandleOK, Socket, Main, Goto, InitError, Prepared
  <1>7. PhaseOK'
    BY FdsAssumption DEF Inv, TypeOK, PhaseOK, Holding, Steps, Working, Socket,
           Main, Goto, InitError, Prepared
  <1>8. LiveOK'
    BY DEF Inv, TypeOK, LiveOK, ThreadOK, Socket, Main, Goto, InitError, Prepared
  <1>9. WireOK'
    BY DEF Inv, TypeOK, WireOK, Carried, PhaseOK, Socket, Main, Goto, InitError, Prepared
  <1> QED BY <1>1, <1>2, <1>3, <1>4, <1>5, <1>6, <1>7, <1>8, <1>9 DEF Inv

LEMMA FastPathStep ==
  ASSUME Inv, FailedHandles = {FALSE}, NEW r \in Requests, FastPath(r)
  PROVE  Inv'
  <1>1. TypeOK'
    <2>1. /\ at' \in Steps \cup {"idle", "resolve", "socket", "fastpath", "spawn",
                               "detect", "recv", "reset", "exited"}
          /\ who' \in Requests /\ tpc' \in [Requests -> Steps \cup {"none", "ended"}]
          /\ sockfd' \in [Requests -> Fds \cup {-1, 0}]
          /\ opened' \in [Fds -> Requests \cup {"free", "other"}]
          /\ status' \in [Requests -> {"uninitialized", "sent", "error"}]
      BY DEF Inv, TypeOK, FastPath, Main, Goto, Prepared
    <2>2. addrs' \in [Requests -> Nat] /\ commands' \in [Requests -> Nat]
      BY DEF Inv, TypeOK, HeapOK, AddrOK, Holding, heap, FastPath, Main,
             FreeAddr, DestroyCommand
    <2>3. onWire' \in [Requests -> Wire]
      BY DEF Inv, TypeOK, Wire, FastPath
    <2>4. /\ detecting' \in BOOLEAN /\ multithreading' \in BOOLEAN
          /\ addr' \in [Requests -> BOOLEAN] /\ thread' \in [Requests -> BOOLEAN]
          /\ command' \in [Requests -> BOOLEAN]
      BY DEF Inv, TypeOK, FastPath, Main, Goto, FreeAddr, DestroyCommand, Prepared
    <2> QED BY <2>1, <2>2, <2>3, <2>4 DEF TypeOK
  <1>2. HeapOK'
    BY DEF Inv, TypeOK, HeapOK, AddrOK, Holding, heap, FastPath, Main, FreeAddr,
           DestroyCommand
  <1>3. AddrOK'
    BY DEF Inv, TypeOK, AddrOK, ThreadOK, Holding, Steps, FastPath, Main, Goto,
           FreeAddr, Prepared
  <1>4. SocketOK'
    BY DEF Inv, TypeOK, SocketOK, FastPath, Main
  <1>5. ThreadOK'
    BY DEF Inv, TypeOK, ThreadOK, FastPath, Main, Goto, Prepared
  <1>6. HandleOK'
    BY DEF Inv, TypeOK, HandleOK, FastPath, Main, Goto, Prepared
  <1>7. PhaseOK'
    BY DEF Inv, TypeOK, PhaseOK, Holding, Steps, Working, FastPath, Main, Goto,
           DestroyCommand, Prepared
  <1>8. LiveOK'
    BY DEF Inv, TypeOK, LiveOK, FastPath, Main, Goto, Prepared
  <1>9. WireOK'
    BY DEF Inv, TypeOK, WireOK, Carried, LiveOK, FastPath, Main, Goto, Prepared
  <1> QED BY <1>1, <1>2, <1>3, <1>4, <1>5, <1>6, <1>7, <1>8, <1>9 DEF Inv

LEMMA SpawnStep ==
  ASSUME Inv, FailedHandles = {FALSE}, NEW r \in Requests, Spawn(r)
  PROVE  Inv'
  <1>1. TypeOK'
    <2>1. /\ at' \in Steps \cup {"idle", "resolve", "socket", "fastpath", "spawn",
                               "detect", "recv", "reset", "exited"}
          /\ who' \in Requests /\ tpc' \in [Requests -> Steps \cup {"none", "ended"}]
          /\ sockfd' \in [Requests -> Fds \cup {-1, 0}]
          /\ opened' \in [Fds -> Requests \cup {"free", "other"}]
          /\ status' \in [Requests -> {"uninitialized", "sent", "error"}]
      BY DEF Inv, TypeOK, Steps, Spawn, Main, Goto
    <2>2. addrs' \in [Requests -> Nat] /\ commands' \in [Requests -> Nat]
      BY DEF Inv, TypeOK, heap, Spawn, Main
    <2>3. /\ detecting' \in BOOLEAN /\ multithreading' \in BOOLEAN
          /\ addr' \in [Requests -> BOOLEAN] /\ thread' \in [Requests -> BOOLEAN]
          /\ command' \in [Requests -> BOOLEAN] /\ onWire' \in [Requests -> Wire]
      BY DEF Inv, TypeOK, Spawn, Main, Goto
    <2> QED BY <2>1, <2>2, <2>3 DEF TypeOK
  <1>2. HeapOK'
    BY DEF Inv, TypeOK, HeapOK, heap, Spawn, Main
  <1>3. AddrOK'
    BY DEF Inv, TypeOK, AddrOK, Holding, Steps, Spawn, Main, Goto
  <1>4. SocketOK'
    BY DEF Inv, TypeOK, SocketOK, Spawn, Main
  <1>5. ThreadOK'
    BY DEF Inv, TypeOK, ThreadOK, Spawn, Main, Goto
  <1>6. HandleOK'
    BY DEF Inv, TypeOK, HandleOK, Spawn, Main, Goto
  <1>7. PhaseOK'
    BY DEF Inv, TypeOK, PhaseOK, Holding, Steps, Working, Spawn, Main, Goto
  <1>8. LiveOK'
    BY DEF Inv, TypeOK, LiveOK, Spawn, Main, Goto
  <1>9. WireOK'
    BY DEF Inv, TypeOK, WireOK, Carried, Spawn, Main, Goto
  <1> QED BY <1>1, <1>2, <1>3, <1>4, <1>5, <1>6, <1>7, <1>8, <1>9 DEF Inv

LEMMA ConnectStep ==
  ASSUME Inv, FailedHandles = {FALSE}, NEW r \in Requests, Connect(r)
  PROVE  Inv'
  <1>1. TypeOK'
    <2>1. /\ at' \in Steps \cup {"idle", "resolve", "socket", "fastpath", "spawn",
                               "detect", "recv", "reset", "exited"}
          /\ who' \in Requests /\ tpc' \in [Requests -> Steps \cup {"none", "ended"}]
          /\ sockfd' \in [Requests -> Fds \cup {-1, 0}]
          /\ opened' \in [Fds -> Requests \cup {"free", "other"}]
          /\ status' \in [Requests -> {"uninitialized", "sent", "error"}]
      BY DEF Inv, TypeOK, Steps, state, Connect, Step, Main, Goto
    <2>2. addrs' \in [Requests -> Nat] /\ commands' \in [Requests -> Nat]
      BY DEF Inv, TypeOK, heap, Connect, Step, Main
    <2>3. /\ detecting' \in BOOLEAN /\ multithreading' \in BOOLEAN
          /\ addr' \in [Requests -> BOOLEAN] /\ thread' \in [Requests -> BOOLEAN]
          /\ command' \in [Requests -> BOOLEAN] /\ onWire' \in [Requests -> Wire]
      BY DEF Inv, TypeOK, state, Connect, Step, Main, Goto
    <2> QED BY <2>1, <2>2, <2>3 DEF TypeOK
  <1>2. HeapOK'
    BY DEF Inv, TypeOK, HeapOK, state, heap, Connect, Step, Main
  <1>3. AddrOK'
    BY DEF Inv, TypeOK, AddrOK, Holding, Steps, state, Connect, Step, Main,
           Thread, Goto
  <1>4. SocketOK'
    BY DEF Inv, TypeOK, SocketOK, state, Connect, Step, Main
  <1>5. ThreadOK'
    BY DEF Inv, TypeOK, ThreadOK, state, Connect, Step, Main, Thread, Goto
  <1>6. HandleOK'
    BY DEF Inv, TypeOK, HandleOK, state, Connect, Step, Main, Goto
  <1>7. PhaseOK'
    BY DEF Inv, TypeOK, PhaseOK, Holding, Working, state, Connect, Step, Main,
           Goto
  <1>8. LiveOK'
    BY DEF Inv, TypeOK, LiveOK, state, Connect, Step, Main, Thread, Goto
  <1>9. WireOK'
    BY DEF Inv, TypeOK, WireOK, Carried, state, Connect, Step, Main, Goto
  <1> QED BY <1>1, <1>2, <1>3, <1>4, <1>5, <1>6, <1>7, <1>8, <1>9 DEF Inv

LEMMA SendStep ==
  ASSUME Inv, FailedHandles = {FALSE}, NEW r \in Requests, Send(r)
  PROVE  Inv'
  <1>1. TypeOK'
    <2>1. /\ at' \in Steps \cup {"idle", "resolve", "socket", "fastpath", "spawn",
                               "detect", "recv", "reset", "exited"}
          /\ who' \in Requests /\ tpc' \in [Requests -> Steps \cup {"none", "ended"}]
          /\ sockfd' \in [Requests -> Fds \cup {-1, 0}]
          /\ opened' \in [Fds -> Requests \cup {"free", "other"}]
          /\ status' \in [Requests -> {"uninitialized", "sent", "error"}]
      BY DEF Inv, TypeOK, Steps, state, Send, Step, Main, Goto
    <2>2. addrs' \in [Requests -> Nat] /\ commands' \in [Requests -> Nat]
      BY DEF Inv, TypeOK, heap, Send, Step, Main
    <2>3. /\ detecting' \in BOOLEAN /\ multithreading' \in BOOLEAN
          /\ addr' \in [Requests -> BOOLEAN] /\ thread' \in [Requests -> BOOLEAN]
          /\ command' \in [Requests -> BOOLEAN] /\ onWire' \in [Requests -> Wire]
      BY DEF Inv, TypeOK, Wire, state, Send, Step, Main, Goto
    <2> QED BY <2>1, <2>2, <2>3 DEF TypeOK
  <1>2. HeapOK'
    BY DEF Inv, TypeOK, HeapOK, state, heap, Send, Step, Main
  <1>3. AddrOK'
    BY DEF Inv, TypeOK, AddrOK, Holding, Steps, state, Send, Step, Main, Thread,
           Goto
  <1>4. SocketOK'
    BY DEF Inv, TypeOK, SocketOK, state, Send, Step, Main
  <1>5. ThreadOK'
    BY DEF Inv, TypeOK, ThreadOK, state, Send, Step, Main, Thread, Goto
  <1>6. HandleOK'
    BY DEF Inv, TypeOK, HandleOK, state, Send, Step, Main, Goto
  <1>7. PhaseOK'
    BY DEF Inv, TypeOK, PhaseOK, Holding, Working, state, Send, Step, Main, Goto
  <1>8. LiveOK'
    BY DEF Inv, TypeOK, LiveOK, state, Send, Step, Main, Thread, Goto
  <1>9. WireOK'
    BY DEF Inv, TypeOK, WireOK, Carried, LiveOK, state, Send, Step, Main, Thread, Goto
  <1> QED BY <1>1, <1>2, <1>3, <1>4, <1>5, <1>6, <1>7, <1>8, <1>9 DEF Inv

LEMMA SendErrorStep ==
  ASSUME Inv, FailedHandles = {FALSE}, NEW r \in Requests, SendError(r)
  PROVE  Inv'
  <1>1. TypeOK'
    <2>1. /\ at' \in Steps \cup {"idle", "resolve", "socket", "fastpath", "spawn",
                               "detect", "recv", "reset", "exited"}
          /\ who' \in Requests /\ tpc' \in [Requests -> Steps \cup {"none", "ended"}]
          /\ sockfd' \in [Requests -> Fds \cup {-1, 0}]
          /\ opened' \in [Fds -> Requests \cup {"free", "other"}]
          /\ status' \in [Requests -> {"uninitialized", "sent", "error"}]
      BY DEF Inv, TypeOK, Steps, SendError, Step, Main, Goto, Close
    <2>2. addrs' \in [Requests -> Nat] /\ commands' \in [Requests -> Nat]
      BY DEF Inv, TypeOK, heap, SendError, Step, Main
    <2>3. /\ detecting' \in BOOLEAN /\ multithreading' \in BOOLEAN
          /\ addr' \in [Requests -> BOOLEAN] /\ thread' \in [Requests -> BOOLEAN]
          /\ command' \in [Requests -> BOOLEAN] /\ onWire' \in [Requests -> Wire]
      BY DEF Inv, TypeOK, SendError, Step, Main, Goto
    <2> QED BY <2>1, <2>2, <2>3 DEF TypeOK
  <1>2. HeapOK'
    BY DEF Inv, TypeOK, HeapOK, heap, SendError, Step, Main
  <1>3. AddrOK'
    BY DEF Inv, TypeOK, AddrOK, Holding, Steps, SendError, Step, Main, Thread,
           Goto
  <1>4. SocketOK'
    BY FdsAssumption, OthersAssumption DEF Inv, TypeOK, SocketOK, SendError,
           Step, Main, Close
  <1>5. ThreadOK'
    BY DEF Inv, TypeOK, ThreadOK, SendError, Step, Main, Thread, Goto
  <1>6. HandleOK'
    BY DEF Inv, TypeOK, HandleOK, SendError, Step, Main, Goto
  <1>7. PhaseOK'
    BY DEF Inv, TypeOK, PhaseOK, ThreadOK, Holding, Working, SendError, Step,
           Main, Thread, Goto, Close
  <1>8. LiveOK'
    BY DEF Inv, TypeOK, LiveOK, ThreadOK, SendError, Step, Main, Thread, Goto,
           Close
  <1>9. WireOK'
    BY DEF Inv, TypeOK, WireOK, Carried, SendError, Step, Main, Goto, Close
  <1> QED BY <1>1, <1>2, <1>3, <1>4, <1>5, <1>6, <1>7, <1>8, <1>9 DEF Inv

LEMMA ExitStep ==
  ASSUME Inv, FailedHandles = {FALSE}, NEW r \in Requests, Exit(r)
  PROVE  Inv'
  <1>1. TypeOK'
    <2>1. /\ at' \in Steps \cup {"idle", "resolve", "socket", "fastpath", "spawn",
                               "detect", "recv", "reset", "exited"}
          /\ who' \in Requests /\ tpc' \in [Requests -> Steps \cup {"none", "ended"}]
          /\ sockfd' \in [Requests -> Fds \cup {-1, 0}]
          /\ opened' \in [Fds -> Requests \cup {"free", "other"}]
          /\ status' \in [Requests -> {"uninitialized", "sent", "error"}]
      BY DEF Inv, TypeOK, Exit, Main, Prepared
    <2>2. addrs' \in [Requests -> Nat] /\ commands' \in [Requests -> Nat]
      BY DEF Inv, TypeOK, HeapOK, AddrOK, Holding, Exit, Main, Thread, Release,
             FreeAddr, DestroyCommand
    <2>3. /\ detecting' \in BOOLEAN /\ multithreading' \in BOOLEAN
          /\ addr' \in [Requests -> BOOLEAN] /\ thread' \in [Requests -> BOOLEAN]
          /\ command' \in [Requests -> BOOLEAN] /\ onWire' \in [Requests -> Wire]
      BY DEF Inv, TypeOK, Exit, Main, Prepared, Release, FreeAddr, DestroyCommand
    <2> QED BY <2>1, <2>2, <2>3 DEF TypeOK
  <1>2. HeapOK'
    BY DEF Inv, TypeOK, HeapOK, AddrOK, Holding, Exit, Main, Thread, Release,
           FreeAddr, DestroyCommand
  <1>3. AddrOK'
    BY DEF Inv, TypeOK, AddrOK, ThreadOK, Holding, Steps, Exit, Main, Thread,
           Prepared, Release, FreeAddr
  <1>4. SocketOK'
    BY DEF Inv, TypeOK, SocketOK, Exit, Main
  <1>5. ThreadOK'
    BY DEF Inv, TypeOK, ThreadOK, Exit, Main, Thread, Prepared
  <1>6. HandleOK'
    BY DEF Inv, TypeOK, HandleOK, Exit, Main, Prepared
  <1>7. PhaseOK'
    BY FdsAssumption DEF Inv, TypeOK, PhaseOK, Holding, Steps, Working, Exit,
           Main, Prepared, Release, DestroyCommand
  <1>8. LiveOK'
    BY DEF Inv, TypeOK, LiveOK, Exit, Main, Prepared
  <1>9. WireOK'
    BY DEF Inv, TypeOK, WireOK, Carried, Exit, Main, Thread, Prepared
  <1> QED BY <1>1, <1>2, <1>3, <1>4, <1>5, <1>6, <1>7, <1>8, <1>9 DEF Inv

LEMMA DetectErrorStep ==
  ASSUME Inv, FailedHandles = {FALSE}, NEW r \in Requests, DetectError(r)
  PROVE  Inv'
  <1>1. TypeOK'
    <2>1. /\ at' \in Steps \cup {"idle", "resolve", "socket", "fastpath", "spawn",
                               "detect", "recv", "reset", "exited"}
          /\ who' \in Requests /\ tpc' \in [Requests -> Steps \cup {"none", "ended"}]
          /\ sockfd' \in [Requests -> Fds \cup {-1, 0}]
          /\ opened' \in [Fds -> Requests \cup {"free", "other"}]
          /\ status' \in [Requests -> {"uninitialized", "sent", "error"}]
      BY DEF Inv, TypeOK, state, DetectError, Main, Goto
    <2>2. addrs' \in [Requests -> Nat] /\ commands' \in [Requests -> Nat]
      BY DEF Inv, TypeOK, heap, DetectError, Main
    <2>3. /\ detecting' \in BOOLEAN /\ multithreading' \in BOOLEAN
          /\ addr' \in [Requests -> BOOLEAN] /\ thread' \in [Requests -> BOOLEAN]
          /\ command' \in [Requests -> BOOLEAN] /\ onWire' \in [Requests -> Wire]
      BY DEF Inv, TypeOK, state, DetectError, Main, Goto
    <2> QED BY <2>1, <2>2, <2>3 DEF TypeOK
  <1>2. HeapOK'
    BY DEF Inv, TypeOK, HeapOK, state, heap, DetectError, Main
  <1>3. AddrOK'
    BY DEF Inv, TypeOK, AddrOK, Holding, Steps, state, DetectError, Main, Goto
  <1>4. SocketOK'
    BY DEF Inv, TypeOK, SocketOK, state, DetectError, Main
  <1>5. ThreadOK'
    BY DEF Inv, TypeOK, ThreadOK, state, DetectError, Main, Goto
  <1>6. HandleOK'
    BY DEF Inv, TypeOK, HandleOK, state, DetectError, Main, Goto
  <1>7. PhaseOK'
    BY DEF Inv, TypeOK, PhaseOK, Holding, Steps, Working, state, DetectError,
           Main, Goto
  <1>8. LiveOK'
    BY DEF Inv, TypeOK, LiveOK, state, DetectError, Main, Goto
  <1>9. WireOK'
    BY DEF Inv, TypeOK, WireOK, Carried, state, DetectError, Main, Goto
  <1> QED BY <1>1, <1>2, <1>3, <1>4, <1>5, <1>6, <1>7, <1>8, <1>9 DEF Inv

LEMMA JoinStep ==
  ASSUME Inv, FailedHandles = {FALSE}, NEW r \in Requests, Join(r)
  PROVE  Inv'
  <1>1. TypeOK'
    <2>1. /\ at' \in Steps \cup {"idle", "resolve", "socket", "fastpath", "spawn",
                               "detect", "recv", "reset", "exited"}
          /\ who' \in Requests /\ tpc' \in [Requests -> Steps \cup {"none", "ended"}]
          /\ sockfd' \in [Requests -> Fds \cup {-1, 0}]
          /\ opened' \in [Fds -> Requests \cup {"free", "other"}]
          /\ status' \in [Requests -> {"uninitialized", "sent", "error"}]
      BY DEF Inv, TypeOK, Join, Main
    <2>2. addrs' \in [Requests -> Nat] /\ commands' \in [Requests -> Nat]
      BY DEF Inv, TypeOK, heap, Join, Main
    <2>3. /\ detecting' \in BOOLEAN /\ multithreading' \in BOOLEAN
          /\ addr' \in [Requests -> BOOLEAN] /\ thread' \in [Requests -> BOOLEAN]
          /\ command' \in [Requests -> BOOLEAN] /\ onWire' \in [Requests -> Wire]
      BY DEF Inv, TypeOK, Join, Main
    <2> QED BY <2>1, <2>2, <2>3 DEF TypeOK
  <1>2. HeapOK'
    BY DEF Inv, TypeOK, HeapOK, heap, Join, Main
  <1>3. AddrOK'
    BY DEF Inv, TypeOK, AddrOK, Holding, Steps, Join, Main
  <1>4. SocketOK'
    BY DEF Inv, TypeOK, SocketOK, Join, Main
  <1>5. ThreadOK'
    BY DEF Inv, TypeOK, ThreadOK, Join, Main
  <1>6. HandleOK'
    BY DEF Inv, TypeOK, HandleOK, Join, Main
  <1>7. PhaseOK'
    BY FdsAssumption DEF Inv, TypeOK, PhaseOK, Holding, Steps, Working, Join,
           Main
  <1>8. LiveOK'
    BY DEF Inv, TypeOK, LiveOK, WireOK, Carried, Steps, Join, Main
  <1>9. WireOK'
    BY DEF Inv, TypeOK, WireOK, Carried, Join, Main
  <1> QED BY <1>1, <1>2, <1>3, <1>4, <1>5, <1>6, <1>7, <1>8, <1>9 DEF Inv

LEMMA ReceiveStep ==
  ASSUME Inv, FailedHandles = {FALSE}, NEW r \in Requests, Receive(r)
  PROVE  Inv'
  <1>1. TypeOK'
    <2>1. /\ at' \in Steps \cup {"idle", "resolve", "socket", "fastpath", "spawn",
                               "detect", "recv", "reset", "exited"}
          /\ who' \in Requests /\ tpc' \in [Requests -> Steps \cup {"none", "ended"}]
          /\ sockfd' \in [Requests -> Fds \cup {-1, 0}]
          /\ opened' \in [Fds -> Requests \cup {"free", "other"}]
          /\ status' \in [Requests -> {"uninitialized", "sent", "error"}]
      BY DEF Inv, TypeOK, Receive, Main, Goto, Close
    <2>2. addrs' \in [Requests -> Nat] /\ commands' \in [Requests -> Nat]
      BY DEF Inv, TypeOK, heap, Receive, Main
    <2>3. /\ detecting' \in BOOLEAN /\ multithreading' \in BOOLEAN
          /\ addr' \in [Requests -> BOOLEAN] /\ thread' \in [Requests -> BOOLEAN]
          /\ command' \in [Requests -> BOOLEAN] /\ onWire' \in [Requests -> Wire]
      BY DEF Inv, TypeOK, Receive, Main, Goto
    <2> QED BY <2>1, <2>2, <2>3 DEF TypeOK
  <1>2. HeapOK'
    BY DEF Inv, TypeOK, HeapOK, heap, Receive, Main
  <1>3. AddrOK'
    BY DEF Inv, TypeOK, AddrOK, Holding, Steps, Receive, Main, Goto
  <1>4. SocketOK'
    BY FdsAssumption, OthersAssumption DEF Inv, TypeOK, SocketOK, Receive, Main,
           Close
  <1>5. ThreadOK'
    BY DEF Inv, TypeOK, ThreadOK, Receive, Main, Goto
  <1>6. HandleOK'
    BY DEF Inv, TypeOK, HandleOK, Receive, Main, Goto
  <1>7. PhaseOK'
    BY FdsAssumption DEF Inv, TypeOK, PhaseOK, Holding, Steps, Working, Receive,
           Main, Goto, Close
  <1>8. LiveOK'
    BY DEF Inv, TypeOK, LiveOK, ThreadOK, Receive, Main, Goto, Close
  <1>9. WireOK'
    BY DEF Inv, TypeOK, WireOK, Carried, Receive, Main, Goto, Close
  <1> QED BY <1>1, <1>2, <1>3, <1>4, <1>5, <1>6, <1>7, <1>8, <1>9 DEF Inv

LEMMA ResetStep ==
  ASSUME Inv, FailedHandles = {FALSE}, NEW r \in Requests, Reset(r)
  PROVE  Inv'
  <1>1. TypeOK'
    <2>1. /\ at' \in Steps \cup {"idle", "resolve", "socket", "fastpath", "spawn",
                               "detect", "recv", "reset", "exited"}
          /\ who' \in Requests /\ tpc' \in [Requests -> Steps \cup {"none", "ended"}]
          /\ sockfd' \in [Requests -> Fds \cup {-1, 0}]
          /\ opened' \in [Fds -> Requests \cup {"free", "other"}]
          /\ status' \in [Requests -> {"uninitialized", "sent", "error"}]
      BY DEF Inv, TypeOK, Reset, Main
    <2>2. addrs' \in [Requests -> Nat] /\ commands' \in [Requests -> Nat]
      BY DEF Inv, TypeOK, HeapOK, Reset, Main, ResetCommand, DestroyCommand
    <2>3. /\ detecting' \in BOOLEAN /\ multithreading' \in BOOLEAN
          /\ addr' \in [Requests -> BOOLEAN] /\ thread' \in [Requests -> BOOLEAN]
          /\ command' \in [Requests -> BOOLEAN] /\ onWire' \in [Requests -> Wire]
      BY DEF Inv, TypeOK, Wire, Reset, Main, ResetCommand, DestroyCommand
    <2> QED BY <2>1, <2>2, <2>3 DEF TypeOK
  <1>2. HeapOK'
    BY DEF Inv, TypeOK, HeapOK, AddrOK, PhaseOK, ThreadOK, Steps, Reset, Main,
           ResetCommand, DestroyCommand
  <1>3. AddrOK'
    BY DEF Inv, TypeOK, AddrOK, ThreadOK, Holding, Steps, Reset, Main
  <1>4. SocketOK'
    BY FdsAssumption DEF Inv, TypeOK, SocketOK, PhaseOK, Reset, Main
  <1>5. ThreadOK'
    BY DEF Inv, TypeOK, ThreadOK, Reset, Main
  <1>6. HandleOK'
    BY DEF Inv, TypeOK, HandleOK, Reset, Main
  <1>7. PhaseOK'
    BY DEF Inv, TypeOK, PhaseOK, Working, Reset, Main, ResetCommand,
           DestroyCommand
  <1>8. LiveOK'
    BY DEF Inv, TypeOK, LiveOK, ThreadOK, Reset, Main
  <1>9. WireOK'
    BY DEF Inv, TypeOK, WireOK, Carried, Reset, Main
  <1> QED BY <1>1, <1>2, <1>3, <1>4, <1>5, <1>6, <1>7, <1>8, <1>9 DEF Inv

LEMMA OthersStep ==
  ASSUME Inv, Others
  PROVE  Inv'
  <1>1. TypeOK'
    BY DEF Inv, TypeOK, Others, state, heap
  <1>2. SocketOK'
    BY OthersAssumption DEF Inv, TypeOK, SocketOK, Others, state
  <1>3. HeapOK' /\ AddrOK' /\ ThreadOK' /\ HandleOK' /\ PhaseOK' /\ LiveOK' /\ WireOK'
    BY DEF Inv, HeapOK, AddrOK, ThreadOK, HandleOK, PhaseOK, LiveOK, WireOK, Carried,
           Working, Others, state, heap
  <1> QED BY <1>1, <1>2, <1>3 DEF Inv

LEMMA InvInit == Init => Inv
  <1> SUFFICES ASSUME Init PROVE Inv
    OBVIOUS
  <1>1. TypeOK
    BY DEF Init, TypeOK, Steps, Wire
  <1>2. SocketOK
    BY FdsAssumption, OthersAssumption DEF Init, SocketOK
  <1>3. HeapOK /\ AddrOK /\ ThreadOK /\ HandleOK /\ PhaseOK /\ LiveOK /\ WireOK
    BY FdsAssumption DEF Init, HeapOK, AddrOK, ThreadOK, HandleOK, PhaseOK, LiveOK,
                         WireOK, Carried, Working, Holding, Steps
  <1> QED BY <1>1, <1>2, <1>3 DEF Inv

LEMMA InvStep ==
  ASSUME FailedHandles = {FALSE}, Inv, [Next]_vars
  PROVE  Inv'
  <1>1. CASE UNCHANGED vars
    BY <1>1 DEF vars, state, heap, Inv, TypeOK, HeapOK, AddrOK, SocketOK, ThreadOK,
                HandleOK, PhaseOK, LiveOK, WireOK, Carried, Working
  <1>2. CASE Others
    BY <1>2, OthersStep
  <1>3. ASSUME NEW r \in Requests, ffPrepare(r) \/ ffDetect(r) \/ Running(r)
        PROVE  Inv'
    BY <1>3, ffPrepareStep, ffDetectStep, ResolveStep, SocketStep, FastPathStep,
       SpawnStep, ConnectStep, SendStep, SendErrorStep, ExitStep, DetectErrorStep,
       JoinStep, ReceiveStep, ResetStep DEF Running
  <1> QED BY <1>1, <1>2, <1>3 DEF Next

LEMMA InvHolds == FailedHandles = {FALSE} => (Spec => []Inv)
  <1> SUFFICES ASSUME FailedHandles = {FALSE} PROVE Spec => []Inv
    OBVIOUS
  <1>1. Inv /\ [Next]_vars => Inv'
    BY InvStep
  <1> QED BY InvInit, <1>1, PTL DEF Spec
-----------------------------------------------------------------------------
(* If pthread_create() leaves no handle behind when it fails: no step uses  *)
(* a descriptor that is not the request's own.                              *)
THEOREM OwnSocketTheorem == FailedHandles = {FALSE} => (Spec => []OwnSocket)
  <1>1. Inv => OwnSocket
    BY DEF Inv, TypeOK, SocketOK, LiveOK, OwnSocket, Main, Thread, Steps
  <1> QED BY <1>1, InvHolds, PTL

(* Under the same condition a request that is given up holds nothing.       *)
THEOREM NothingLeftTheorem == FailedHandles = {FALSE} => (Spec => []NothingLeft)
  <1>1. Inv => NothingLeft
    <2> SUFFICES ASSUME Inv, NEW r \in Requests, status[r] = "uninitialized", ~Working(r)
                 PROVE  /\ \A fd \in Fds : opened[fd] # r
                        /\ addrs[r] = 0 /\ commands[r] = 0 /\ tpc[r] = "none"
      BY DEF NothingLeft
    <2>1. sockfd[r] = 0 /\ ~command[r]
      BY DEF Inv, PhaseOK
    <2>2. tpc[r] = "none"
      BY DEF Inv, ThreadOK
    <2>3. ~addr[r]
      BY <2>2 DEF Inv, AddrOK, Working, Holding, Steps
    <2>4. \A fd \in Fds : opened[fd] # r
      BY <2>1, FdsAssumption DEF Inv, SocketOK
    <2> QED BY <2>1, <2>2, <2>3, <2>4 DEF Inv, HeapOK
  <1> QED BY <1>1, InvHolds, PTL

(* Under the same condition the main thread leaves a request alone while    *)
(* the thread of the request works on it.                                   *)
THEOREM ExclusiveTheorem == FailedHandles = {FALSE} => (Spec => []Exclusive)
  <1>1. Inv => Exclusive
    BY DEF Inv, ThreadOK, Exclusive, Working, Steps
  <1> QED BY <1>1, InvHolds, PTL

(* Under the same condition a response is only waited for if the request    *)
(* was sent, or if TCP Fast Open was asked for and refused it.              *)
THEOREM SentTheorem == FailedHandles = {FALSE} => (Spec => []SentBeforeReceived)
  <1>1. Inv => SentBeforeReceived
    <2> SUFFICES ASSUME Inv, NEW r \in Requests, who = r, at = "recv"
                 PROVE  Carried(r)
      BY DEF SentBeforeReceived, Main, Carried
    <2>1. tpc[r] = "none" /\ status[r] = "sent" /\ sockfd[r] \in Fds
      BY DEF Inv, ThreadOK, PhaseOK, LiveOK
    <2> QED BY <2>1, FdsAssumption DEF Inv, WireOK
  <1> QED BY <1>1, InvHolds, PTL
-----------------------------------------------------------------------------
Limit == 268435456

Types ==
  /\ response \in Responses
  /\ arrived \in 0..response.sent /\ length \in 0..arrived
  /\ allocated \in Nat /\ closings \in Nat
  /\ connection \in {"open", "closed", "reset"} /\ late \in BOOLEAN
  /\ pc \in {"recv", "judge", "done"}
  /\ connection = "closed" => arrived = response.sent
  /\ pc # "done" => result = "none"

(* What is known of the header is what it says, once it is there.           *)
HeaderRead ==
  /\ headerEnd = IF length >= response.head THEN response.head ELSE 0
  /\ contentLength = IF length >= response.head THEN Counted ELSE 0
  /\ chunked \in BOOLEAN
  /\ pc # "done" => (chunked <=> headerEnd > 0 /\ response.te = "chunked")

(* The first n units are a framed response.                                 *)
Complete(n) ==
  /\ n >= response.head
  /\ IF response.te = "chunked" THEN ChunkedComplete(n - response.head) > 0
     ELSE Counted > 0 /\ n >= response.head + Counted

(* What is still received is not framed ...                                 *)
NotFramedYet == pc = "recv" => ~Complete(length)

(* ... and what is judged is, or everything was received. A response with a *)
(* length next to its chunks is waited for as if it had no chunks.          *)
TwoFramings == response.te = "chunked" /\ Counted > 0

JudgedWhenWhole ==
  pc = "judge" /\ ~late /\ ~TwoFramings =>
    Complete(length) \/ length = response.sent

ResponseInv ==
  /\ Types /\ HeaderRead /\ Bounded
  /\ NotFramedYet /\ JudgedWhenWhole
  /\ AcceptsOnlyWhole /\ AcceptsWellformed
-----------------------------------------------------------------------------
(* The sizes of the buffer                                                  *)
LEMMA Doubling == \A p, q \in Powers : p < q => 2 * p <= q
  BY SMTT(60) DEF Powers

(* What a buffer may be rounded up to are numbers, below a limit.           *)
LEMMA PowersAreNumbers == \A p \in Powers : p \in Nat /\ p >= 1 /\ p <= Limit
  BY DEF Powers, Limit

(* A size that is not too large is rounded up to the next power of two.     *)
LEMMA RoundUpFound ==
  ASSUME NEW n \in Nat, 0 < n, n < Limit
  PROVE  RoundUp(n) \in Powers /\ n < RoundUp(n) /\ RoundUp(n) <= 2 * n
  <1>1. \E p \in Powers : n < p /\ p <= 2 * n
    BY SMTT(60) DEF Powers, Limit
  <1> QED BY <1>1 DEF RoundUp

(* The next power above a number is not above any other power above it.     *)
LEMMA RoundUpLeast ==
  ASSUME NEW n \in Nat, 0 < n, n < Limit, NEW q \in Powers, n < q
  PROVE  RoundUp(n) \in Nat /\ n < RoundUp(n) /\ RoundUp(n) <= q
  <1>1. RoundUp(n) \in Powers /\ n < RoundUp(n) /\ RoundUp(n) <= 2 * n
    BY RoundUpFound
  <1>2. RoundUp(n) \in Nat /\ q \in Nat
    BY <1>1, PowersAreNumbers
  <1>3. q < RoundUp(n) => 2 * q <= RoundUp(n)
    BY <1>1, Doubling
  <1> QED BY <1>1, <1>2, <1>3

(* The sizes that the configuration gives are numbers.                      *)
LEMMA Sizes ==
  /\ MaxSize \in Nat /\ MaxSize >= 2 /\ 4 * MaxSize <= Limit
  /\ Initial \in 2..MaxSize /\ Margin \in 0..MaxSize
  BY SizeAssumption, PowersAreNumbers

(* What the server sends is counted in numbers.                             *)
LEMMA ResponseTypes ==
  ASSUME Types
  PROVE  /\ response.head \in Nat /\ response.head > 0 /\ response.ok \in BOOLEAN
         /\ response.cl \in Nat /\ response.last \in Nat /\ response.bad \in Nat
         /\ response.sent \in Nat /\ response.te \in {"none", "chunked", "unsupported"}
         /\ Width \in Nat /\ Width > 0 /\ Counted \in Nat /\ Counted < Width
         /\ response.cl < Width => Counted = response.cl
  <1>1. /\ response.head \in Nat /\ response.head > 0 /\ response.ok \in BOOLEAN
        /\ response.cl \in Nat /\ response.last \in Nat /\ response.bad \in Nat
        /\ response.sent \in Nat /\ response.te \in {"none", "chunked", "unsupported"}
    BY ResponsesAssumption DEF Types, Response
  <1>2. Width \in Nat /\ Width > 0
    BY SizeAssumption, PowersAreNumbers
  <1>3. ASSUME NEW a \in Nat, NEW b \in Nat, b > 0
        PROVE  a % b \in Nat /\ a % b < b /\ (a < b => a % b = a)
    BY <1>3
  <1> QED BY <1>1, <1>2, <1>3 DEF Counted

Bound(cl) == IF cl = 0 THEN MaxSize ELSE 4 * MaxSize

(* At the top of the loop there is room for at least one unit, and the cap  *)
(* is kept.                                                                 *)
LEMMA GrownBounded ==
  ASSUME Types, HeaderRead, Bounded, ~Full
  PROVE  /\ Grown \in Nat /\ Grown > length + 1 /\ Grown <= Bound(contentLength)
         /\ Free \in Nat /\ Free >= 1 /\ Free = Grown - length - 1
  <1> USE Sizes
  <1>0. length \in Nat /\ allocated \in Nat /\ contentLength \in Nat
    BY ResponseTypes DEF Types, HeaderRead
  <1>1. CASE allocated - length - 1 # 0
    BY <1>0, <1>1 DEF Grown, Free, Bounded, Bound
  <1>2. CASE allocated - length - 1 = 0
    <2>1. allocated < MaxSize /\ length + (MaxSize - length - 1) = MaxSize - 1
      BY <1>0, <1>2 DEF Full
    <2>2. Grown = RoundUp(MaxSize - 1)
      BY <1>0, <1>2, <2>1 DEF Grown, EnsureFree
    <2>3. MaxSize - 1 \in Nat /\ 0 < MaxSize - 1 /\ MaxSize - 1 < Limit
      BY DEF Limit
    <2>4. RoundUp(MaxSize - 1) \in Nat /\ MaxSize - 1 < RoundUp(MaxSize - 1)
          /\ RoundUp(MaxSize - 1) <= MaxSize
      BY <2>3, RoundUpLeast, SizeAssumption
    <2> QED BY <1>0, <1>2, <2>1, <2>2, <2>4 DEF Free, Bound
  <1> QED BY <1>1, <1>2

(* A Content-Length that is let through takes at most four caps.            *)
LEMMA AllocatedBounded ==
  ASSUME Types, HeaderRead, Bounded, ~Full,
         NEW n \in Nat, n < Grown, HeaderEnds(n), Counted > 0, Counted <= MaxSize
  PROVE  /\ EnsureFree(Grown, n, Counted + Margin) \in Nat
         /\ n < EnsureFree(Grown, n, Counted + Margin)
         /\ EnsureFree(Grown, n, Counted + Margin) <= 4 * MaxSize
  <1> USE Sizes, ResponseTypes
  <1>1. contentLength = 0 /\ Grown \in Nat /\ Grown <= MaxSize
    <2>1. contentLength = 0
      BY DEF HeaderEnds, HeaderRead, Types
    <2> QED BY <2>1, GrownBounded DEF Bound
  <1> DEFINE x == n + (Counted + Margin)
  <1>2. x \in Nat /\ 0 < x /\ x < 4 * MaxSize /\ x < Limit /\ n <= x
    BY <1>1 DEF Limit
  <1>3. RoundUp(x) \in Nat /\ x < RoundUp(x) /\ RoundUp(x) <= 4 * MaxSize
    BY <1>2, RoundUpLeast, SizeAssumption
  <1> HIDE DEF x
  <1>4. EnsureFree(Grown, n, Counted + Margin) \in {Grown, RoundUp(x)}
    BY DEF EnsureFree, x
  <1> QED BY <1>1, <1>2, <1>3, <1>4

(* What recv() is asked for fits, and is something unless there are two     *)
(* framings.                                                                *)
LEMMA WantFits ==
  ASSUME ResponseInv, pc = "recv", ~Full
  PROVE  Want \in Nat /\ Want <= Free /\ (~TwoFramings => Want >= 1)
  <1> USE ResponseTypes
  <1>0. Types /\ HeaderRead /\ Bounded /\ NotFramedYet
    BY DEF ResponseInv
  <1>1. Free \in Nat /\ Free >= 1
    BY <1>0, GrownBounded
  <1>2. CASE ~WaitAll
    BY <1>1, <1>2 DEF Want
  <1>3. CASE WaitAll
    <2> DEFINE left == headerEnd + contentLength - length
    <2>0. left \in Int /\ length \in Nat
      BY <1>0 DEF Types, HeaderRead
    <2>1. Remaining \in Nat /\ Remaining = left % Width
      BY <1>0, <2>0, Sizes DEF Remaining
    <2>2. ASSUME ~TwoFramings PROVE left > 0 /\ left < Width
      <3>1. headerEnd = response.head /\ contentLength = Counted /\ Counted > 0
        BY <1>0, <1>3 DEF WaitAll, HeaderRead, Types
      <3>2. ~chunked /\ response.te # "chunked"
        BY <1>0, <2>2, <3>1 DEF HeaderRead, TwoFramings
      <3>3. ~(length >= headerEnd + contentLength)
        BY <1>0, <2>0, <3>1, <3>2 DEF NotFramedYet, Complete
      <3>4. length >= response.head
        BY <1>0, <1>3 DEF WaitAll, HeaderRead
      <3> QED BY <2>0, <3>1, <3>3, <3>4, <1>0
    <2>3. ~TwoFramings => Remaining >= 1
      BY <1>0, <2>0, <2>1, <2>2
    <2>4. Want = Remaining \/ Want = Free
      BY <1>3 DEF Want, Least
    <2>5. Want <= Free
      BY <1>1, <1>3, <2>1 DEF Want, Least
    <2> QED BY <1>1, <2>1, <2>3, <2>4, <2>5
  <1> QED BY <1>2, <1>3
-----------------------------------------------------------------------------
(* A step of the receive loop that gets n units in all                      *)
LEMMA HeaderAt ==
  ASSUME Types, HeaderRead, pc = "recv", NEW n \in Nat, n >= length
  PROVE  /\ HeadAt(n) = IF n >= response.head THEN response.head ELSE 0
         /\ LengthAt(n) = IF n >= response.head THEN Counted ELSE 0
         /\ ChunkedAt(n) <=> n >= response.head /\ response.te = "chunked"
  <1> USE ResponseTypes
  <1>1. length \in Nat
    BY DEF Types
  <1>2. CASE length >= response.head
    BY <1>1, <1>2 DEF HeaderRead, HeaderEnds, HeadAt, LengthAt, ChunkedAt
  <1>3. CASE length < response.head
    <2>1. headerEnd = 0 /\ contentLength = 0 /\ ~chunked
      BY <1>1, <1>3 DEF HeaderRead
    <2> QED BY <1>1, <1>3, <2>1 DEF HeaderEnds, HeadAt, LengthAt, ChunkedAt
  <1> QED BY <1>1, <1>2, <1>3

(* What is said of the chunks that were received.                           *)
LEMMA ChunkedCompleteIs ==
  ASSUME Types, NEW n \in Nat
  PROVE  /\ ChunkedComplete(n) \in {-1, 0, 1}
         /\ ChunkedComplete(n) = -1 <=> response.bad \in 1..n
         /\ ChunkedComplete(n) = 1 => response.last \in 1..n
         /\ response.bad = 0 /\ response.last \in 1..n => ChunkedComplete(n) = 1
  <1> USE ResponseTypes
  <1>1. CASE response.bad \in 1..n
    <2>1. response.bad # 0 /\ response.last \notin 1..n
      BY <1>1, ResponsesAssumption DEF Types
    <2> QED BY <1>1, <2>1 DEF ChunkedComplete
  <1>2. CASE response.bad \notin 1..n /\ response.last \in 1..n
    BY <1>2 DEF ChunkedComplete
  <1>3. CASE response.bad \notin 1..n /\ response.last \notin 1..n
    BY <1>3 DEF ChunkedComplete
  <1> QED BY <1>1, <1>2, <1>3

(* The code finds a response framed to its end exactly when it is.          *)
LEMMA FramedIsComplete ==
  ASSUME Types, HeaderRead, pc = "recv", NEW n \in Nat, n >= length
  PROVE  Framed(n) <=> Complete(n)
  <1> USE ResponseTypes, HeaderAt
  <1>1. CASE n >= response.head /\ response.te = "chunked"
    BY <1>1 DEF Framed, Complete
  <1>2. CASE n >= response.head /\ response.te # "chunked"
    BY <1>2 DEF Framed, Complete
  <1>3. CASE ~(n >= response.head)
    BY <1>3 DEF Framed, Complete
  <1> QED BY <1>1, <1>2, <1>3

(* The outcomes of such a step.                                             *)
LEMMA ReceivedOutcome ==
  ASSUME Types, HeaderRead, pc = "recv", NEW n \in Nat, n >= length, Received(n)
  PROVE  /\ length' = n
         /\ \/ /\ pc' = "done" /\ closings' = closings + 1
               /\ \/ result' = "Content-Length too large" /\ Counted > MaxSize
                  \/ result' = "Unsupported Transfer-Encoding" /\ response.te = "unsupported"
                  \/ result' = "Malformed chunked body" /\ response.bad # 0
            \/ /\ pc' = (IF Complete(n) THEN "judge" ELSE "recv")
               /\ UNCHANGED <<closings, result>> /\ chunked' = ChunkedAt(n)
  <1> USE ResponseTypes
  <1>1. CASE HeaderEnds(n) /\ Counted > MaxSize
    BY <1>1 DEF Received, Fail, CloseSocket
  <1>2. CASE ~(HeaderEnds(n) /\ Counted > MaxSize)
    <2>1. CASE HeaderEnds(n) /\ response.te = "unsupported"
      BY <1>2, <2>1 DEF Received, Fail, CloseSocket
    <2>2. CASE ~(HeaderEnds(n) /\ response.te = "unsupported")
               /\ ChunkedAt(n) /\ ChunkedComplete(n - HeadAt(n)) < 0
      <3>1. n - HeadAt(n) \in Nat
        BY <2>2, HeaderAt
      <3>2. response.bad # 0
        BY <2>2, <3>1, ChunkedCompleteIs
      <3> QED BY <1>2, <2>2, <3>2 DEF Received, Fail, CloseSocket
    <2>3. CASE ~(HeaderEnds(n) /\ response.te = "unsupported")
               /\ ~(ChunkedAt(n) /\ ChunkedComplete(n - HeadAt(n)) < 0)
      BY <1>2, <2>3, FramedIsComplete DEF Received
    <2> QED BY <2>1, <2>2, <2>3
  <1> QED BY <1>1, <1>2

(* A step that receives has read what the header says once it is there, ... *)
LEMMA ReceivedHeader ==
  ASSUME Types, HeaderRead, pc = "recv", UNCHANGED response,
         NEW n \in Nat, n >= length, Received(n)
  PROVE  HeaderRead'
  <1> USE ResponseTypes
  <1>1. length' = n /\ headerEnd' = HeadAt(n) /\ contentLength' = LengthAt(n)
    BY DEF Received
  <1>2. chunked' \in {chunked, ChunkedAt(n)} /\ ChunkedAt(n) \in BOOLEAN
    BY DEF Received, ChunkedAt, HeaderRead
  <1>3. pc' # "done" => chunked' = ChunkedAt(n)
    BY ReceivedOutcome
  <1>4. (headerEnd' > 0 /\ response'.te = "chunked") <=> ChunkedAt(n)
    BY <1>1, HeaderAt
  <1>5. Counted' = Counted
    BY DEF Counted
  <1> QED BY <1>1, <1>2, <1>3, <1>4, <1>5, HeaderAt DEF HeaderRead

(* ... stays within the buffer that it has grown, ...                       *)
LEMMA ReceivedBounded ==
  ASSUME Types, HeaderRead, Bounded, pc = "recv", ~Full,
         NEW n \in Nat, n >= length, n < Grown, Received(n)
  PROVE  Bounded' /\ allocated' \in Nat
  <1> USE Sizes, ResponseTypes
  <1>1. Grown \in Nat /\ Grown <= Bound(contentLength)
    BY GrownBounded
  <1>2. closings' = IF pc' = "done" THEN 1 ELSE 0
    <2>1. closings = 0
      BY DEF Bounded
    <2>2. \/ pc' = "done" /\ closings' = closings + 1
          \/ pc' \in {"judge", "recv"} /\ closings' = closings
      BY ReceivedOutcome
    <2> QED BY <2>1, <2>2
  <1>3. length' = n /\ contentLength' = LengthAt(n)
    BY DEF Received
  <1>4. LengthAt(n) \in Nat /\ (contentLength # 0 => LengthAt(n) = contentLength)
    <2>1. contentLength # 0 => length >= response.head /\ contentLength = Counted
      BY DEF HeaderRead
    <2> QED BY <2>1, HeaderAt DEF Types
  <1>5. CASE ~HeaderEnds(n) \/ Counted = 0 \/ Counted > MaxSize
    <2>1. allocated' = Grown
      <3>1. AllocatedAt(n) = Grown \/ (HeaderEnds(n) /\ Counted > MaxSize)
        BY <1>5 DEF AllocatedAt
      <3> QED BY <3>1, Zenon DEF Received
    <2>2. Grown <= Bound(LengthAt(n))
      BY <1>1, <1>4 DEF Bound
    <2> QED BY <1>1, <1>2, <1>3, <2>1, <2>2 DEF Bounded, Bound
  <1>6. CASE HeaderEnds(n) /\ Counted > 0 /\ Counted <= MaxSize
    <2>1. allocated' = EnsureFree(Grown, n, Counted + Margin)
      <3>1. AllocatedAt(n) = EnsureFree(Grown, n, Counted + Margin)
        BY <1>6 DEF AllocatedAt
      <3>2. ~(Counted > MaxSize)
        BY <1>6
      <3> QED BY <3>1, <3>2, Zenon DEF Received
    <2>2. LengthAt(n) = Counted
      BY <1>6 DEF LengthAt
    <2> QED BY <1>2, <1>3, <1>6, <2>1, <2>2, AllocatedBounded DEF Bounded
  <1> QED BY <1>5, <1>6

(* ... and keeps the invariant.                                             *)
LEMMA ReceivedInv ==
  ASSUME ResponseInv, pc = "recv", ~Full, UNCHANGED environment, late' \in BOOLEAN,
         NEW n \in Nat, n >= length, n <= arrived, n < Grown, Received(n)
  PROVE  ResponseInv'
  <1> USE ResponseTypes
  <1>0. Types /\ HeaderRead /\ Bounded
    BY DEF ResponseInv
  <1>1. UNCHANGED <<response, arrived, connection>>
    BY DEF environment
  <1>2. HeaderRead'
    BY <1>0, <1>1, ReceivedHeader
  <1>3. Bounded' /\ allocated' \in Nat
    BY <1>0, ReceivedBounded
  <1>4. CASE pc' = "done"
    <2>1. length' = n /\ closings' = closings + 1
      BY <1>0, <1>4, ReceivedOutcome
    <2>2. \/ result' = "Content-Length too large" /\ Counted > MaxSize
          \/ result' = "Unsupported Transfer-Encoding" /\ response.te = "unsupported"
          \/ result' = "Malformed chunked body" /\ response.bad # 0
      BY <1>0, <1>4, ReceivedOutcome
    <2>3. Types'
      BY <1>0, <1>1, <1>3, <1>4, <2>1 DEF Types
    <2>4. AcceptsOnlyWhole' /\ AcceptsWellformed'
      <3>1. ~Truncated /\ Counted > MaxSize => response.cl > MaxSize \/ response.te = "chunked"
        BY <1>0 DEF Truncated
      <3>2. Wellformed /\ response.te = "chunked" => Counted = 0
        BY <1>0 DEF Wellformed
      <3>3. Counted = 0 => ~(Counted > MaxSize)
        BY Sizes
      <3>4. Wellformed /\ Counted > MaxSize => response.cl > MaxSize
        BY <3>1, <3>2, <3>3 DEF Wellformed
      <3>5. Wellformed' = Wellformed
        BY <1>1 DEF Wellformed, End, Truncated
      <3>6. Wellformed => response.te # "unsupported" /\ response.bad = 0
        BY DEF Wellformed
      <3> QED BY <1>1, <1>4, <2>2, <3>4, <3>5, <3>6 DEF AcceptsOnlyWhole, AcceptsWellformed
    <2> QED BY <1>2, <1>3, <1>4, <2>3, <2>4 DEF ResponseInv, NotFramedYet, JudgedWhenWhole
  <1>5. CASE pc' # "done"
    <2>1. /\ length' = n /\ UNCHANGED <<closings, result>>
          /\ pc' = (IF Complete(n) THEN "judge" ELSE "recv")
      BY <1>0, <1>5, ReceivedOutcome
    <2>2. Types'
      BY <1>0, <1>1, <1>3, <2>1 DEF Types
    <2>3. Complete(length)' <=> Complete(n)
      BY <1>1, <2>1 DEF Complete, ChunkedComplete, Counted
    <2>4. AcceptsOnlyWhole' /\ AcceptsWellformed'
      BY <1>0, <1>5, <2>1 DEF Types, AcceptsOnlyWhole, AcceptsWellformed
    <2> QED BY <1>2, <1>3, <2>1, <2>2, <2>3, <2>4 DEF ResponseInv, NotFramedYet, JudgedWhenWhole
  <1> QED BY <1>4, <1>5
-----------------------------------------------------------------------------
(* The other steps                                                          *)
LEMMA LeaveInv ==
  ASSUME ResponseInv, pc = "recv", ~Full, UNCHANGED environment, late' \in BOOLEAN, Leave,
         ~late' /\ ~TwoFramings => length = response.sent
  PROVE  ResponseInv'
  <1>0. Types /\ HeaderRead /\ Bounded
    BY DEF ResponseInv
  <1>1. /\ UNCHANGED <<response, arrived, connection>> /\ pc' = "judge"
        /\ UNCHANGED <<length, headerEnd, contentLength, chunked, closings, result>>
        /\ allocated' = Grown
    BY DEF environment, Leave
  <1>2. Grown \in Nat /\ Grown > length + 1 /\ Grown <= Bound(contentLength)
    BY <1>0, GrownBounded
  <1>3. length \in Nat
    BY <1>0, ResponseTypes DEF Types
  <1>4. Types'
    BY <1>0, <1>1, <1>2 DEF Types
  <1>5. HeaderRead'
    BY <1>0, <1>1 DEF HeaderRead, Counted
  <1>6. Bounded'
    BY <1>0, <1>1, <1>2, <1>3 DEF Bounded, Bound
  <1>7. AcceptsOnlyWhole' /\ AcceptsWellformed'
    BY <1>0, <1>1 DEF Types, AcceptsOnlyWhole, AcceptsWellformed
  <1>8. NotFramedYet' /\ JudgedWhenWhole'
    BY <1>1 DEF NotFramedYet, JudgedWhenWhole, TwoFramings, Counted
  <1> QED BY <1>4, <1>5, <1>6, <1>7, <1>8 DEF ResponseInv

(* recv() gives something, or the connection is at its end.                 *)
LEMMA RecvInv == ASSUME ResponseInv, Recv PROVE ResponseInv'
  <1>0. Types /\ HeaderRead /\ Bounded
    BY DEF ResponseInv
  <1>1. pc = "recv" /\ ~Full /\ Ready /\ UNCHANGED environment
    BY DEF Recv
  <1>2. late' \in BOOLEAN
    BY <1>0 DEF Recv, Types
  <1>3. Want \in Nat /\ Want <= Free /\ (~TwoFramings => Want >= 1)
    BY <1>1, WantFits
  <1>4. Grown \in Nat /\ Free = Grown - length - 1
    BY <1>0, <1>1, GrownBounded
  <1>5. length \in Nat /\ arrived \in Nat /\ Unread \in Nat /\ Unread = arrived - length
    BY <1>0, ResponseTypes DEF Types, Unread
  <1> DEFINE got == Least(Want, Unread)
  <1>6. got \in Nat /\ got <= Want /\ got <= Unread
        /\ (got = 0 => Want = 0 \/ Unread = 0)
    BY <1>3, <1>5 DEF Least
  <1>7. CASE got > 0
    <2>1. Received(length + got)
      BY <1>7 DEF Recv
    <2>2. /\ length + got \in Nat /\ length + got >= length
          /\ length + got <= arrived /\ length + got < Grown
      BY <1>3, <1>4, <1>5, <1>6
    <2> HIDE DEF got
    <2> QED BY <1>1, <1>2, <2>1, <2>2, ReceivedInv
  <1>8. CASE ~(got > 0)
    <2>1. Leave
      BY <1>8 DEF Recv
    <2>2. ASSUME ~late', ~TwoFramings PROVE length = response.sent
      <3>1. Unread = 0 /\ Want >= 1
        BY <1>3, <1>6, <1>8, <2>2
      <3>2. connection # "open"
        BY <1>1, <1>3, <3>1 DEF Ready
      <3>3. connection # "reset"
        BY <2>2, <3>1 DEF Recv
      <3> QED BY <1>0, <1>5, <3>1, <3>2, <3>3 DEF Types
    <2> QED BY <1>1, <1>2, <2>1, <2>2, LeaveInv
  <1> QED BY <1>7, <1>8

(* So does a timeout, ...                                                   *)
LEMMA RecvTimeoutInv == ASSUME ResponseInv, RecvTimeout PROVE ResponseInv'
  <1>0. Types /\ HeaderRead /\ Bounded
    BY DEF ResponseInv
  <1>1. pc = "recv" /\ ~Full /\ ~Ready /\ UNCHANGED environment /\ late' = TRUE
    BY DEF RecvTimeout
  <1>2. Want \in Nat /\ Want <= Free
    BY <1>1, WantFits
  <1>3. Grown \in Nat /\ Free \in Nat /\ Free >= 1 /\ Free = Grown - length - 1
    BY <1>0, <1>1, GrownBounded
  <1>4. length \in Nat /\ arrived \in Nat /\ Unread \in Nat /\ Unread = arrived - length
    BY <1>0, ResponseTypes DEF Types, Unread
  <1>5. Unread <= Want
    BY <1>1, <1>2, <1>3, <1>4 DEF Ready
  <1>6. CASE Unread > 0
    <2>1. Received(length + Unread)
      BY <1>6 DEF RecvTimeout
    <2>2. /\ length + Unread \in Nat /\ length + Unread >= length
          /\ length + Unread <= arrived /\ length + Unread < Grown
      BY <1>2, <1>3, <1>4, <1>5
    <2> QED BY <1>1, <2>1, <2>2, ReceivedInv
  <1>7. CASE ~(Unread > 0)
    <2>1. Leave
      BY <1>7 DEF RecvTimeout
    <2> QED BY <1>1, <2>1, LeaveInv
  <1> QED BY <1>6, <1>7

(* ... a response that does not fit ...                                     *)
LEMMA TooLargeInv == ASSUME ResponseInv, TooLarge PROVE ResponseInv'
  <1>0. Types /\ HeaderRead /\ Bounded
    BY DEF ResponseInv
  <1>1. /\ UNCHANGED <<response, arrived, connection, late, length, allocated>>
        /\ UNCHANGED <<headerEnd, contentLength, chunked>>
        /\ closings' = closings + 1
    BY DEF TooLarge, Fail, CloseSocket, environment
  <1>2. pc = "recv" /\ pc' = "done" /\ result' = "Response too large"
    BY DEF TooLarge, Fail
  <1>3. closings' = 1 /\ closings' \in Nat
    <2>1. closings = 0
      BY <1>0, <1>2 DEF Bounded
    <2> QED BY <1>1, <2>1
  <1>4. Types'
    BY <1>0, <1>1, <1>2, <1>3, Zenon DEF Types
  <1>5. HeaderRead'
    BY <1>0, <1>1, <1>2, Zenon DEF HeaderRead, Counted
  <1>6. Bounded'
    BY <1>0, <1>1, <1>2, <1>3 DEF Bounded
  <1>7. response.sent >= MaxSize - 1
    <2>1. length \in Nat /\ length <= response.sent /\ allocated \in Nat
      BY <1>0, ResponseTypes DEF Types
    <2>2. allocated - length - 1 = 0 /\ allocated >= MaxSize
      BY DEF TooLarge, Full
    <2> QED BY <2>1, <2>2, ResponseTypes, <1>0, Sizes
  <1>8. AcceptsOnlyWhole'
    BY <1>2 DEF AcceptsOnlyWhole
  <1>9. AcceptsWellformed'
    BY <1>1, <1>2, <1>7 DEF AcceptsWellformed
  <1> QED BY <1>2, <1>4, <1>5, <1>6, <1>8, <1>9 DEF ResponseInv, NotFramedYet, JudgedWhenWhole
-----------------------------------------------------------------------------
(* The verdict                                                              *)
LEMMA JudgedFacts ==
  ASSUME ResponseInv, pc = "judge"
  PROVE  /\ length \in Nat /\ length <= response.sent
         /\ headerEnd # 0 => /\ headerEnd = response.head /\ length >= response.head
                             /\ contentLength = Counted
                             /\ (chunked <=> response.te = "chunked")
         /\ headerEnd = 0 => length < response.head
  <1>1. Types /\ HeaderRead
    BY DEF ResponseInv
  <1> QED BY <1>1, ResponseTypes DEF Types, HeaderRead

(* A verdict is only good when all of the response is there, ...            *)
LEMMA OkIsWhole ==
  ASSUME ResponseInv, pc = "judge", Verdict = "ok", ~Truncated
  PROVE  /\ Unframed \/ response.te = "chunked" \/ length = End
         /\ (Unframed /\ late) \/ length >= End
  <1>0. Types
    BY DEF ResponseInv
  <1> USE <1>0, ResponseTypes, JudgedFacts
  <1>1. headerEnd # 0 /\ (chunked => ChunkedComplete(length - headerEnd) = 1)
        /\ (~chunked /\ contentLength > 0 => length = headerEnd + contentLength)
    BY DEF Verdict
  <1>2. CASE response.te = "chunked"
    <2>1. length - headerEnd \in Nat /\ ChunkedComplete(length - headerEnd) = 1
      BY <1>1, <1>2
    <2>2. response.last \in 1..(length - response.head)
      BY <1>1, <2>1, ChunkedCompleteIs
    <2> QED BY <1>2, <2>2 DEF End
  <1>3. CASE response.te # "chunked" /\ Counted > 0
    <2>1. Counted = response.cl
      BY <1>3 DEF Truncated
    <2> QED BY <1>1, <1>3, <2>1 DEF End
  <1>4. CASE Unframed
    <2>0. Counted = 0
      BY <1>4 DEF Unframed, Truncated
    <2>1. ~Complete(length) /\ ~TwoFramings
      BY <1>4, <2>0 DEF Unframed, Complete, TwoFramings
    <2>2. ~late => length = response.sent
      BY <2>1 DEF ResponseInv, JudgedWhenWhole
    <2> QED BY <1>4, <2>2 DEF Unframed, End
  <1>5. response.te = "chunked" \/ Counted = response.cl
    BY DEF Truncated
  <1> QED BY <1>2, <1>3, <1>4, <1>5 DEF Unframed

(* ... and is good of one that is well-formed when it is.                   *)
LEMMA WellformedIsOk ==
  ASSUME ResponseInv, pc = "judge", Wellformed, ~late
  PROVE  Verdict = "ok"
  <1>0. Types
    BY DEF ResponseInv
  <1> USE <1>0, ResponseTypes, JudgedFacts
  <1>a. Counted = response.cl
    BY DEF Wellformed, Truncated
  <1>1. ~TwoFramings
    BY <1>a DEF Wellformed, TwoFramings
  <1>2. Complete(length) \/ length = response.sent
    BY <1>1 DEF ResponseInv, JudgedWhenWhole
  <1>3. length >= response.head /\ headerEnd # 0 /\ length # 0
    BY <1>2 DEF Complete, Wellformed
  <1>4. CASE response.te = "chunked"
    <2>1. length - headerEnd \in Nat /\ length - headerEnd = length - response.head
      BY <1>3
    <2>2. ChunkedComplete(length - headerEnd) = 1
      <3>1. CASE Complete(length)
        BY <1>4, <2>1, <3>1, ChunkedCompleteIs DEF Complete
      <3>2. CASE length = response.sent
        <4>1. response.last \in 1..(length - headerEnd) /\ response.bad = 0
          BY <1>4, <2>1, <3>2 DEF Wellformed, End
        <4> QED BY <2>1, <4>1, ChunkedCompleteIs
      <3> QED BY <1>2, <3>1, <3>2
    <2>3. chunked /\ response.ok
      BY <1>3, <1>4 DEF Wellformed
    <2> QED BY <1>3, <2>2, <2>3 DEF Verdict
  <1>5. CASE response.te # "chunked"
    <2>1. ~chunked /\ response.ok
      BY <1>3, <1>5 DEF Wellformed
    <2>2. Counted > 0 => length = headerEnd + contentLength
      BY <1>a, <1>2, <1>3, <1>5 DEF Wellformed, End, Complete
    <2> QED BY <1>3, <2>1, <2>2 DEF Verdict
  <1> QED BY <1>4, <1>5

LEMMA JudgeInv == ASSUME ResponseInv, Judge PROVE ResponseInv'
  <1>0. Types /\ HeaderRead /\ Bounded
    BY DEF ResponseInv
  <1>1. /\ pc = "judge" /\ pc' = "done" /\ result' = Verdict /\ closings' = closings + 1
        /\ UNCHANGED <<response, arrived, connection, late, length, allocated,
                       headerEnd, contentLength, chunked>>
    BY DEF Judge, Fail, CloseSocket, environment
  <1>2. Types' /\ HeaderRead'
    BY <1>0, <1>1 DEF Types, HeaderRead, Counted
  <1>3. Bounded'
    BY <1>0, <1>1 DEF Bounded
  <1>4. UNCHANGED <<Unframed, End, Wellformed, Truncated>>
    BY <1>1 DEF Unframed, End, Wellformed, Truncated
  <1>5. AcceptsOnlyWhole'
    BY <1>1, <1>4, OkIsWhole DEF AcceptsOnlyWhole
  <1>6. AcceptsWellformed'
    BY <1>1, <1>4, WellformedIsOk DEF AcceptsWellformed
  <1> QED BY <1>1, <1>2, <1>3, <1>5, <1>6 DEF ResponseInv, NotFramedYet, JudgedWhenWhole
-----------------------------------------------------------------------------
(* What the network and the server do takes nothing that was received.      *)
LEMMA NetworkInv ==
  ASSUME ResponseInv, Arrive \/ Fin \/ ResetByPeer
  PROVE  ResponseInv'
  <1>0. Types
    BY DEF ResponseInv
  <1>1. UNCHANGED <<response, late, pc, length, allocated, headerEnd, contentLength,
                    chunked, closings, result>>
    BY DEF Arrive, Fin, ResetByPeer
  <1>2. Types'
    <2>1. CASE Arrive
      BY <1>0, <2>1, ResponseTypes DEF Types, Arrive
    <2>2. CASE Fin
      BY <1>0, <2>2 DEF Types, Fin
    <2>3. CASE ResetByPeer
      BY <1>0, <2>3, ResponseTypes DEF Types, ResetByPeer
    <2> QED BY <2>1, <2>2, <2>3
  <1>3. HeaderRead' /\ Bounded' /\ NotFramedYet' /\ JudgedWhenWhole'
    BY <1>1 DEF ResponseInv, HeaderRead, Bounded, NotFramedYet, JudgedWhenWhole, TwoFramings,
                Complete, ChunkedComplete, Counted
  <1>4. AcceptsOnlyWhole' /\ AcceptsWellformed'
    BY <1>1 DEF ResponseInv, AcceptsOnlyWhole, AcceptsWellformed, Unframed, End, Wellformed,
                Truncated
  <1> QED BY <1>2, <1>3, <1>4 DEF ResponseInv

LEMMA InitInv == InitResponse => ResponseInv
  <1> SUFFICES ASSUME InitResponse PROVE ResponseInv
    OBVIOUS
  <1>1. /\ response \in Responses /\ arrived = 0 /\ connection = "open" /\ late = FALSE
        /\ pc = "recv" /\ length = 0 /\ allocated = Initial /\ headerEnd = 0
        /\ contentLength = 0 /\ chunked = FALSE /\ closings = 0 /\ result = "none"
    BY DEF InitResponse
  <1>2. response \in Response
    BY <1>1, ResponsesAssumption
  <1>3. response.head \in Nat /\ response.head > 0 /\ response.sent \in Nat
    BY <1>2 DEF Response
  <1>4. 0 \in 0..response.sent /\ 0 \in 0..0 /\ ~(0 >= response.head)
        /\ Initial \in Nat /\ 0 < Initial /\ Initial <= MaxSize
    BY <1>3, Sizes
  <1>5. Types /\ HeaderRead
    <2>1. 0 \in Nat /\ (0 >= response.head <=> FALSE) /\ (0 > 0 <=> FALSE)
      BY <1>4
    <2>2. Types
      BY <1>1, <1>4, <2>1, Zenon DEF Types
    <2>3. HeaderRead
      BY <1>1, <2>1, Zenon DEF HeaderRead
    <2> QED BY <2>2, <2>3
  <1>6. Bounded /\ NotFramedYet
    BY <1>1, <1>4 DEF Bounded, NotFramedYet, Complete
  <1>7. JudgedWhenWhole /\ AcceptsOnlyWhole /\ AcceptsWellformed
    BY <1>1 DEF JudgedWhenWhole, AcceptsOnlyWhole, AcceptsWellformed
  <1> QED BY <1>5, <1>6, <1>7 DEF ResponseInv

LEMMA NextInv == ResponseInv /\ [NextResponse]_responseVars => ResponseInv'
  <1> SUFFICES ASSUME ResponseInv, [NextResponse]_responseVars PROVE ResponseInv'
    OBVIOUS
  <1>1. CASE Recv
    BY <1>1, RecvInv
  <1>2. CASE RecvTimeout
    BY <1>2, RecvTimeoutInv
  <1>3. CASE TooLarge
    BY <1>3, TooLargeInv
  <1>4. CASE Judge
    BY <1>4, JudgeInv
  <1>5. CASE Arrive \/ Fin \/ ResetByPeer
    BY <1>5, NetworkInv
  <1>6. CASE UNCHANGED responseVars
    <2>1. /\ response' = response /\ timeout' = timeout /\ arrived' = arrived
          /\ connection' = connection /\ late' = late /\ pc' = pc /\ length' = length
          /\ allocated' = allocated /\ headerEnd' = headerEnd /\ contentLength' = contentLength
          /\ chunked' = chunked /\ closings' = closings /\ result' = result
      BY <1>6 DEF responseVars
    <2>2. Types' = Types /\ HeaderRead' = HeaderRead /\ Bounded' = Bounded
      BY <2>1, SMTT(30) DEF Types, HeaderRead, Bounded, Counted
    <2>3. NotFramedYet' = NotFramedYet /\ JudgedWhenWhole' = JudgedWhenWhole
      BY <2>1, SMTT(30) DEF NotFramedYet, JudgedWhenWhole, TwoFramings, Complete, ChunkedComplete,
                           Counted
    <2>4. AcceptsOnlyWhole' = AcceptsOnlyWhole /\ AcceptsWellformed' = AcceptsWellformed
      BY <2>1, SMTT(30) DEF AcceptsOnlyWhole, AcceptsWellformed, Unframed, End, Wellformed,
                           Truncated
    <2> QED BY <2>2, <2>3, <2>4 DEF ResponseInv
  <1> QED BY <1>1, <1>2, <1>3, <1>4, <1>5, <1>6 DEF NextResponse, Client

LEMMA Invariance == ResponseSpec => []ResponseInv
  BY InitInv, NextInv, PTL DEF ResponseSpec
-----------------------------------------------------------------------------
(* Growing on demand stays within the cap, and a Content-Length that was    *)
(* let through takes four caps at most; the socket is closed once           *)
(* (networking_linux.c:444).                                                *)
THEOREM BoundedTheorem == ResponseSpec => []Bounded
  <1>1. ResponseInv => Bounded
    BY DEF ResponseInv
  <1> QED BY <1>1, Invariance, PTL

(* What is accepted is whole, however it was divided or cut, unless the     *)
(* length that was announced is one that the cast to uint32_t changes       *)
(* (networking_linux.c:499, :560).                                          *)
THEOREM OnlyWholeTheorem == ResponseSpec => []AcceptsOnlyWhole
  <1>1. ResponseInv => AcceptsOnlyWhole
    BY DEF ResponseInv
  <1> QED BY <1>1, Invariance, PTL

(* What is well-formed (of a length that uint32_t holds), is not cut short  *)
(* and fits is accepted                                                     *)
(* (networking_linux.c:538).                                                *)
THEOREM WellformedTheorem == ResponseSpec => []AcceptsWellformed
  <1>1. ResponseInv => AcceptsWellformed
    BY DEF ResponseInv
  <1> QED BY <1>1, Invariance, PTL
-----------------------------------------------------------------------------
(* Lines and numbers.                                                       *)
Text == Seq(STRING)

(* s is the first part of t, as far as from p on.                           *)
Agree(s, t, p) ==
  /\ s \in Text /\ t \in Text /\ Len(s) <= Len(t)
  /\ \A i \in p..Len(s) : s[i] = t[i]

(* The first part of a body agrees with the whole of it.                    *)
LEMMA FirstPartAgrees ==
  ASSUME NEW t \in Text, NEW k \in 0..Len(t)
  PROVE  Agree(SubSeq(t, 1, k), t, 1) /\ Len(SubSeq(t, 1, k)) = k /\ SubSeq(t, 1, k) \in Text
  <1>1. Len(t) \in Nat /\ k \in Nat /\ k <= Len(t)
    BY DEF Text
  <1>2. \A i \in 1..k : t[i] \in STRING
    BY <1>1 DEF Text
  <1>3. 1 \in Int /\ k \in Int /\ k - 1 + 1 = k /\ (~(1 <= k) => k = 0)
    BY <1>1
  <1>4. /\ SubSeq(t, 1, k) \in Seq(STRING)
        /\ Len(SubSeq(t, 1, k)) = IF 1 <= k THEN k - 1 + 1 ELSE 0
        /\ \A i \in 1..(k - 1 + 1) : SubSeq(t, 1, k)[i] = t[1 + i - 1]
    BY <1>2, <1>3, SubSeqProperties
  <1>5. \A i \in 1..k : 1 + i - 1 = i
    BY <1>1
  <1> QED BY <1>1, <1>3, <1>4, <1>5 DEF Agree, Text

IsEol(s, p, e) == /\ e \in p..(Len(s) + 1)
                  /\ e = Len(s) + 1 \/ s[e] = LF
                  /\ \A i \in p..(e - 1) : s[i] # LF

(* The first place from p on that is in a set, or the one behind the end.   *)
LEMMA FirstPlace ==
  ASSUME NEW m \in Nat, NEW p \in 1..(m + 1), NEW S
  PROVE  \E e \in p..(m + 1) : (e = m + 1 \/ e \in S) /\ \A i \in p..(e - 1) : i \notin S
  <1> DEFINE T == {i \in p..(m + 1) : i = m + 1 \/ i \in S}
  <1>1. T \in SUBSET Nat /\ T # {}
    <2>1. m + 1 \in T
      OBVIOUS
    <2> QED BY <2>1
  <1> HIDE DEF T
  <1>2. PICK e \in T : \A k \in T : e <= k
    BY <1>1, LeastElement
  <1>3. e \in p..(m + 1) /\ (e = m + 1 \/ e \in S)
    BY DEF T
  <1>4. ASSUME NEW i \in p..(e - 1), i \in S PROVE FALSE
    <2>1. i \in T
      BY <1>3, <1>4 DEF T
    <2> QED BY <1>2, <1>3, <1>4, <2>1
  <1> QED BY <1>3, <1>4

(* There is one end of a line, ...                                          *)
LEMMA EolFound ==
  ASSUME NEW s \in Text, NEW p \in 1..(Len(s) + 1)
  PROVE  IsEol(s, p, Eol(s, p)) /\ \A e : IsEol(s, p, e) => e = Eol(s, p)
  <1>1. Len(s) \in Nat
    BY DEF Text
  <1>2. \E e \in p..(Len(s) + 1) : IsEol(s, p, e)
    <2> DEFINE S == {i \in 1..Len(s) : s[i] = LF}
    <2> HIDE DEF S
    <2>1. PICK e \in p..(Len(s) + 1) :
            (e = Len(s) + 1 \/ e \in S) /\ \A i \in p..(e - 1) : i \notin S
      BY <1>1, FirstPlace
    <2> QED BY <1>1, <2>1 DEF IsEol, S
  <1>3. IsEol(s, p, Eol(s, p))
    BY <1>2 DEF IsEol, Eol
  <1>4. ASSUME NEW d, NEW e, IsEol(s, p, d), IsEol(s, p, e), d < e PROVE FALSE
    <2>1. d \in p..(e - 1) /\ d # Len(s) + 1
      BY <1>1, <1>4 DEF IsEol
    <2> QED BY <1>4, <2>1 DEF IsEol
  <1>5. ASSUME NEW e, IsEol(s, p, e) PROVE e = Eol(s, p)
    <2>1. e \in Nat /\ Eol(s, p) \in Nat
      BY <1>1, <1>3, <1>5 DEF IsEol
    <2>2. ~(e < Eol(s, p)) /\ ~(Eol(s, p) < e)
      BY <1>3, <1>4, <1>5
    <2> QED BY <2>1, <2>2
  <1> QED BY <1>3, <1>5

(* ... which more of the body does not move.                                *)
LEMMA EolAgrees ==
  ASSUME NEW s, NEW t, NEW p \in 1..(Len(s) + 1), Agree(s, t, p), Eol(s, p) <= Len(s)
  PROVE  Eol(t, p) = Eol(s, p)
  <1>1. Len(s) \in Nat /\ Len(t) \in Nat /\ s \in Text /\ t \in Text /\ p \in 1..(Len(t) + 1)
    BY DEF Agree, Text
  <1>2. IsEol(s, p, Eol(s, p))
    BY <1>1, EolFound
  <1>3. IsEol(t, p, Eol(s, p))
    BY <1>1, <1>2 DEF IsEol, Agree
  <1> QED BY <1>1, <1>3, EolFound

Digits == {"0", "1", "2"}

(* Digits have values.                                                      *)
LEMMA DigitsKnown == /\ DOMAIN HexDigits = Digits /\ \A d \in Digits : HexDigits[d] \in Nat
                     /\ LF \notin Digits /\ LF # "x"
  BY DEF HexDigits, Digits, LF

(* The values of the first digits of d.                                     *)
AreValues(v, d) ==
  /\ v[0] = 0 /\ \A k \in 0..Len(d) : v[k] \in Nat
  /\ \A k \in 1..Len(d) : v[k] = 16 * v[k - 1] + HexDigits[d[k]]
  /\ Number(d) = v[Len(d)]

(* The function that reckons the number of some digits exists, ...          *)
LEMMA NumberIs == ASSUME NEW d \in Seq(Digits) PROVE \E v : AreValues(v, d)
  <1> DEFINE m == Len(d)
             ValueOf(f, i) == IF i = 0 THEN 0 ELSE 16 * f[i - 1] + HexDigits[d[i]]
             value[i \in 0..m] == IF i = 0 THEN 0 ELSE 16 * value[i - 1] + HexDigits[d[i]]
             G == [i \in 1..m |-> [v \in Nat |-> 16 * v + HexDigits[d[i]]]]
  <1>1. m \in Nat /\ \A i \in 1..m : HexDigits[d[i]] \in Nat
    BY DigitsKnown
  <1>2. G \in [1..m -> [Nat -> Nat]]
    BY <1>1
  <1>3. PICK f \in [0..m -> Nat] : f[0] = 0 /\ \A k \in 1..m : f[k] = G[k][f[k - 1]]
    <2> DEFINE V == Nat
               zero == 0
    <2>1. zero \in V /\ m \in Nat /\ Within(G, m, V)
      BY <1>1, <1>2 DEF Within
    <2> HIDE DEF G, m, V, zero
    <2>2. \E f \in [0..m -> V] : f[0] = zero /\ \A k \in 1..m : f[k] = G[k][f[k - 1]]
      BY <2>1, FromTheFront, SMTT(60)
    <2> QED BY <2>2 DEF V, zero
  <1>4. \A k \in 1..m : k - 1 \in 0..m /\ k # 0
    BY <1>1
  <1>5. \A k \in 1..m : f[k] = 16 * f[k - 1] + HexDigits[d[k]]
    BY <1>1, <1>3, <1>4
  <1>6. \A k \in 0..m : f[k] = ValueOf(f, k)
    BY <1>1, <1>3, <1>5
  <1>7. f = [i \in 0..m |-> ValueOf(f, i)]
    <2> HIDE DEF ValueOf, m
    <2> QED BY <1>3, <1>6
  <1>8. value = [i \in 0..m |-> ValueOf(value, i)]
    BY <1>7
  <1> HIDE DEF value
  <1>9. \A k \in 0..m : value[k] = ValueOf(value, k)
    BY <1>8
  <1> DEFINE T == {k \in Nat : k <= m => value[k] \in Nat}
  <1>10. Nat \subseteq T
    <2>1. 0 \in T
      BY <1>1, <1>9
    <2>2. ASSUME NEW k \in Nat, k \in T PROVE k + 1 \in T
      <3> SUFFICES ASSUME k + 1 <= m PROVE value[k + 1] \in Nat
        OBVIOUS
      <3>1. value[k] \in Nat /\ k + 1 \in 1..m /\ k + 1 \in 0..m /\ (k + 1) - 1 = k /\ k + 1 # 0
        BY <1>1, <2>2
      <3>2. value[k + 1] = 16 * value[k] + HexDigits[d[k + 1]]
        BY <1>9, <3>1
      <3>3. HexDigits[d[k + 1]] \in Nat
        BY <1>1, <3>1
      <3> QED BY <3>1, <3>2, <3>3
    <2> HIDE DEF T
    <2> QED BY <2>1, <2>2, Upward
  <1>11. \A k \in 0..m : value[k] \in Nat
    BY <1>1, <1>10
  <1>12. value[0] = 0 /\ \A k \in 1..m : value[k] = 16 * value[k - 1] + HexDigits[d[k]]
    BY <1>1, <1>9
  <1>13. Number(d) = value[m]
    BY DEF Number, value
  <1>14. AreValues(value, d)
    BY <1>11, <1>12, <1>13 DEF AreValues
  <1> QED BY <1>14

(* ... so it is a number.                                                   *)
LEMMA NumberIsNat == ASSUME NEW d \in Seq(Digits) PROVE Number(d) \in Nat
  <1>1. Len(d) \in 0..Len(d)
    OBVIOUS
  <1>2. PICK v : AreValues(v, d)
    BY NumberIs
  <1> QED BY <1>1, <1>2, Zenon DEF AreValues

(* Where the digits at p begin and end.                                     *)
First(s, p) == IF IsHex(s, p) /\ s[p] = "0" /\ IsHex(s, p + 2) /\ s[p + 1] = "x"
               THEN p + 2 ELSE p

IsEnd(s, p, e) == /\ e \in p..(Len(s) + 1) /\ ~IsHex(s, e)
                  /\ \A i \in p..(e - 1) : IsHex(s, i)

DigitsEnd(s, p) == CHOOSE e \in p..(Len(s) + 1) : ~IsHex(s, e) /\ \A i \in p..(e - 1) : IsHex(s, i)

(* There is one end of some digits.                                         *)
LEMMA EndFound ==
  ASSUME NEW s \in Text, NEW p \in 1..(Len(s) + 1)
  PROVE  IsEnd(s, p, DigitsEnd(s, p)) /\ \A e : IsEnd(s, p, e) => e = DigitsEnd(s, p)
  <1>1. Len(s) \in Nat
    BY DEF Text
  <1>2. \E e \in p..(Len(s) + 1) : IsEnd(s, p, e)
    <2> DEFINE S == {i \in 1..Len(s) : ~IsHex(s, i)}
    <2> HIDE DEF S
    <2>1. PICK e \in p..(Len(s) + 1) :
            (e = Len(s) + 1 \/ e \in S) /\ \A i \in p..(e - 1) : i \notin S
      BY <1>1, FirstPlace
    <2>2. ~IsHex(s, Len(s) + 1)
      BY <1>1 DEF IsHex
    <2>3. \A i \in p..(e - 1) : i \in 1..Len(s)
      BY <1>1
    <2> QED BY <1>1, <2>1, <2>2, <2>3 DEF IsEnd, S
  <1>3. IsEnd(s, p, DigitsEnd(s, p))
    BY <1>2 DEF IsEnd, DigitsEnd
  <1>4. ASSUME NEW d, NEW e, IsEnd(s, p, d), IsEnd(s, p, e), d < e PROVE FALSE
    <2>1. d \in p..(e - 1)
      BY <1>1, <1>4 DEF IsEnd
    <2> QED BY <1>4, <2>1 DEF IsEnd
  <1>5. ASSUME NEW e, IsEnd(s, p, e) PROVE e = DigitsEnd(s, p)
    <2>1. e \in Nat /\ DigitsEnd(s, p) \in Nat
      BY <1>1, <1>3, <1>5 DEF IsEnd
    <2>2. ~(e < DigitsEnd(s, p)) /\ ~(DigitsEnd(s, p) < e)
      BY <1>3, <1>4, <1>5
    <2> QED BY <2>1, <2>2
  <1> QED BY <1>3, <1>5

(* strtoul() reads a number wherever there is something to read.            *)
LEMMA strtoulFacts ==
  ASSUME NEW s \in Text, NEW p \in 1..Len(s)
  PROVE  /\ strtoul(s, p) = Number(SubSeq(s, First(s, p), DigitsEnd(s, First(s, p)) - 1))
         /\ strtoul(s, p) \in Nat /\ First(s, p) \in 1..Len(s)
  <1>1. Len(s) \in Nat
    BY DEF Text
  <1>2. strtoul(s, p) = Number(SubSeq(s, First(s, p), DigitsEnd(s, First(s, p)) - 1))
    BY DEF strtoul, First, DigitsEnd
  <1> DEFINE a == First(s, p)
             e == DigitsEnd(s, a)
  <1>3. a \in 1..Len(s)
    BY <1>1 DEF First, IsHex
  <1> HIDE DEF a
  <1>4. IsEnd(s, a, e)
    BY <1>1, <1>3, EndFound
  <1> HIDE DEF e
  <1>5. a \in Int /\ e - 1 \in Int /\ \A i \in a..(e - 1) : s[i] \in Digits
    BY <1>1, <1>3, <1>4, DigitsKnown DEF IsEnd, IsHex
  <1>6. SubSeq(s, a, e - 1) \in Seq(Digits)
    BY <1>5, SubSeqProperties
  <1>7. Number(SubSeq(s, a, e - 1)) \in Nat
    BY <1>6, NumberIsNat
  <1> QED BY <1>2, <1>3, <1>7 DEF a, e

(* The same digits give the same number, if the line they are in is there.  *)
LEMMA strtoulAgrees ==
  ASSUME NEW s, NEW t, NEW p \in 1..Len(s), Agree(s, t, p), Eol(s, p) <= Len(s)
  PROVE  /\ strtoul(t, p) = strtoul(s, p)
         /\ IsHex(t, p) <=> IsHex(s, p)
  <1>1. /\ Len(s) \in Nat /\ Len(t) \in Nat /\ s \in Text /\ t \in Text /\ Len(s) <= Len(t)
        /\ \A i \in p..Len(s) : s[i] = t[i]
    BY DEF Agree, Text
  <1> DEFINE eol == Eol(s, p)
  <1>2. IsEol(s, p, eol)
    BY <1>1, EolFound
  <1>3. eol \in p..Len(s) /\ s[eol] = LF /\ t[eol] = LF /\ ~IsHex(s, eol) /\ ~IsHex(t, eol)
    BY <1>1, <1>2, DigitsKnown DEF IsEol, IsHex
  <1> HIDE DEF eol
  <1>4. \A i \in p..eol : (IsHex(s, i) <=> IsHex(t, i)) /\ s[i] = t[i]
    BY <1>1, <1>3 DEF IsHex
  <1>5. First(t, p) = First(s, p) /\ First(s, p) \in p..eol
    <2>1. CASE IsHex(s, p) /\ s[p] = "0" /\ (s[p + 1] = "x" \/ t[p + 1] = "x")
      <3>1. p \in p..eol /\ p # eol
        BY <1>3, <2>1
      <3>2. p + 1 \in p..eol
        BY <1>3, <3>1
      <3>3. p + 1 # eol
        BY <1>3, <1>4, <2>1, <3>2, DigitsKnown
      <3>4. p + 2 \in p..eol
        BY <1>3, <3>1, <3>2, <3>3
      <3> QED BY <1>3, <1>4, <3>1, <3>2, <3>4 DEF First
    <2>2. CASE ~(IsHex(s, p) /\ s[p] = "0" /\ (s[p + 1] = "x" \/ t[p + 1] = "x"))
      <3>1. p \in p..eol
        BY <1>3
      <3> QED BY <1>4, <2>2, <3>1 DEF First
    <2> QED BY <2>1, <2>2
  <1> DEFINE a == First(s, p)
             e == DigitsEnd(s, a)
  <1>6. a \in p..eol
    BY <1>5
  <1> HIDE DEF a
  <1>7. IsEnd(s, a, e)
    BY <1>1, <1>3, <1>6, EndFound
  <1> HIDE DEF e
  <1>8. e \in a..eol
    <2>1. ~(eol < e)
      <3> SUFFICES ASSUME eol < e PROVE FALSE
        OBVIOUS
      <3>1. eol \in a..(e - 1)
        BY <1>1, <1>3, <1>6, <1>7 DEF IsEnd
      <3> QED BY <1>3, <1>7, <3>1 DEF IsEnd
    <2> QED BY <1>1, <1>3, <1>6, <1>7, <2>1 DEF IsEnd
  <1>9. IsEnd(t, a, e)
    <2>1. e \in a..(Len(t) + 1) /\ e \in p..eol /\ \A i \in a..(e - 1) : i \in p..eol
      BY <1>1, <1>3, <1>6, <1>8
    <2> QED BY <1>4, <1>7, <2>1 DEF IsEnd
  <1>10. DigitsEnd(t, a) = e
    <2>1. a \in 1..(Len(t) + 1)
      BY <1>1, <1>3, <1>6
    <2> QED BY <1>1, <1>9, <2>1, EndFound
  <1>11. SubSeq(t, a, e - 1) = SubSeq(s, a, e - 1)
    <2>1. /\ a \in Int /\ e - 1 \in Int
          /\ \A i \in a..(e - 1) : s[i] \in STRING /\ t[i] \in STRING /\ s[i] = t[i]
      <3>1. \A i \in a..(e - 1) : i \in 1..Len(s) /\ i \in 1..Len(t) /\ i \in p..eol
        BY <1>1, <1>3, <1>6, <1>8
      <3>2. \A i \in 1..Len(s) : s[i] \in STRING
        BY <1>1 DEF Text
      <3>3. \A i \in 1..Len(t) : t[i] \in STRING
        BY <1>1 DEF Text
      <3> QED BY <1>3, <1>4, <1>6, <1>8, <3>1, <3>2, <3>3
    <2> DEFINE l == e - 1  u == SubSeq(s, a, l)  v == SubSeq(t, a, l)
    <2>2. /\ u \in Seq(STRING) /\ Len(u) = IF a <= l THEN l - a + 1 ELSE 0
          /\ \A i \in 1..(l - a + 1) : u[i] = s[a + i - 1]
      BY <2>1, SubSeqProperties
    <2>3. /\ v \in Seq(STRING) /\ Len(v) = IF a <= l THEN l - a + 1 ELSE 0
          /\ \A i \in 1..(l - a + 1) : v[i] = t[a + i - 1]
      BY <2>1, SubSeqProperties
    <2>4. \A i \in 1..Len(u) : i \in 1..(l - a + 1) /\ a + i - 1 \in a..l
      BY <2>1, <2>2
    <2> HIDE DEF l, u, v
    <2>5. \A i \in 1..Len(u) : u[i] = v[i]
      BY <2>1, <2>2, <2>3, <2>4 DEF l
    <2>6. u = v
      BY <2>2, <2>3, <2>5, SeqEqual
    <2> QED BY <2>6 DEF u, v, l
  <1>12. p \in 1..Len(t)
    BY <1>1
  <1>13. strtoul(s, p) = Number(SubSeq(s, a, e - 1)) /\ strtoul(t, p) = Number(SubSeq(t, a, e - 1))
    BY <1>1, <1>5, <1>10, <1>12, strtoulFacts DEF a, e
  <1>14. p \in p..eol
    BY <1>3
  <1> QED BY <1>4, <1>11, <1>13, <1>14

(* What is said of a trailer section, and of chunks, by what is said of the *)
(* rest of them: the definitions by recursion have the value they name.     *)
Verdicts == [complete : {-1, 0, 1}, consumed : Nat]

Whole(e) == [complete |-> 1, consumed |-> e]

(* The verdicts can be told apart.                                          *)
LEMMA VerdictFacts ==
  /\ More \in Verdicts /\ Malformed \in Verdicts /\ \A e \in Nat : Whole(e) \in Verdicts
  /\ More.complete = 0 /\ Malformed.complete = -1 /\ \A e : Whole(e).complete = 1
  BY DEF More, Malformed, Verdicts, Whole

(* The function of the trailer lines is what defines it, ...                *)
LEMMA LinesAre ==
  ASSUME NEW s \in Text, NEW p \in 1..(Len(s) + 2)
  PROVE  Lines(s)[p] = IF p > Len(s) \/ Eol(s, p) > Len(s) THEN More
                       ELSE IF Eol(s, p) = p \/ (Eol(s, p) = p + 1 /\ s[p] = CR)
                       THEN Whole(Eol(s, p))
                       ELSE Lines(s)[Eol(s, p) + 1]
  <1> DEFINE m == Len(s) + 2
             ValueOf(f, q) == LET e == Eol(s, q) IN
                           IF q > Len(s) \/ e > Len(s) THEN More
                           ELSE IF e = q \/ (e = q + 1 /\ s[q] = CR)
                           THEN [complete |-> 1, consumed |-> e]
                           ELSE f[e + 1]
             Open(q) == q > Len(s) \/ Eol(s, q) > Len(s)
             Blank(q) == Eol(s, q) = q \/ (Eol(s, q) = q + 1 /\ s[q] = CR)
             stop == {q \in 1..m : Open(q) \/ Blank(q)}
             base == [q \in 1..m |-> IF Open(q) THEN More ELSE IF Blank(q) THEN Whole(Eol(s, q)) ELSE More]
             follow == [q \in 1..m |-> IF q \in stop THEN q ELSE Eol(s, q) + 1]
             G == [q \in 1..m |-> [v \in Verdicts |-> v]]
  <1>1. Len(s) \in Nat /\ m \in Nat
    BY DEF Text
  <1>2. \A q \in 1..m : q <= Len(s) => Eol(s, q) \in q..(Len(s) + 1)
    BY <1>1, EolFound DEF IsEol
  <1>3. /\ stop \in SUBSET (1..m) /\ base \in [1..m -> Verdicts]
        /\ follow \in [1..m -> 1..m] /\ G \in [1..m -> [Verdicts -> Verdicts]]
        /\ \A q \in 1..m : q \notin stop => q < follow[q]
    <2>1. base \in [1..m -> Verdicts]
      <3>1. ASSUME NEW q \in 1..m, ~Open(q) PROVE Eol(s, q) \in Nat
        BY <1>1, <1>2, <3>1
      <3> HIDE DEF Open, Blank
      <3> QED BY <3>1, VerdictFacts
    <2>2. ASSUME NEW q \in 1..m, q \notin stop PROVE Eol(s, q) + 1 \in 1..m /\ q < Eol(s, q) + 1
      BY <1>1, <1>2, <2>2
    <2> HIDE DEF stop
    <2>3. follow \in [1..m -> 1..m] /\ \A q \in 1..m : q \notin stop => q < follow[q]
      BY <2>2
    <2>4. G \in [1..m -> [Verdicts -> Verdicts]]
      OBVIOUS
    <2> QED BY <2>1, <2>3, <2>4 DEF stop
  <1>4. PICK f \in [1..m -> Verdicts] :
          \A q \in 1..m : f[q] = IF q \in stop THEN base[q] ELSE G[q][f[follow[q]]]
    <2>1. GoesForward(stop, base, follow, G, m, Verdicts)
      <3> HIDE DEF stop, base, follow, G, m
      <3> QED BY <1>1, <1>3 DEF GoesForward
    <2> HIDE DEF stop, base, follow, G, m
    <2> QED BY <2>1, FromTheEnd
  <1>5. \A q \in 1..m : f[q] = ValueOf(f, q)
    <2> SUFFICES ASSUME NEW q \in 1..m PROVE f[q] = ValueOf(f, q)
      OBVIOUS
    <2>1. CASE q \in stop
      <3>1. f[q] = base[q]
        BY <1>4, <2>1
      <3> QED BY <2>1, <3>1 DEF Whole
    <2>2. CASE q \notin stop
      <3>1. f[q] = G[q][f[follow[q]]] /\ follow[q] = Eol(s, q) + 1 /\ follow[q] \in 1..m
        <4> HIDE DEF stop, G
        <4> QED BY <1>3, <1>4, <2>2
      <3>2. f[follow[q]] \in Verdicts
        BY <1>4, <3>1
      <3>3. f[q] = f[Eol(s, q) + 1]
        BY <3>1, <3>2
      <3> QED BY <2>2, <3>3
    <2> QED BY <2>1, <2>2
  <1> DEFINE line[q \in 1..(Len(s) + 2)] ==
               LET e == Eol(s, q) IN
               IF q > Len(s) \/ e > Len(s) THEN More
               ELSE IF e = q \/ (e = q + 1 /\ s[q] = CR)
               THEN [complete |-> 1, consumed |-> e]
               ELSE line[e + 1]
  <1>6. f = [q \in 1..m |-> ValueOf(f, q)]
    <2> HIDE DEF ValueOf, m
    <2> QED BY <1>4, <1>5
  <1>7. line = [q \in 1..m |-> ValueOf(line, q)]
    BY <1>6
  <1>8. Lines(s) = line
    BY DEF Lines
  <1> HIDE DEF line
  <1>9. line[p] = ValueOf(line, p)
    BY <1>7
  <1> QED BY <1>8, <1>9 DEF Whole

(* ... and gives verdicts.                                                  *)
LEMMA LinesTyped ==
  ASSUME NEW s \in Text PROVE \A p \in 1..(Len(s) + 2) : Lines(s)[p] \in Verdicts
  <1> DEFINE m == Len(s) + 2
             S == {q \in 1..m : Lines(s)[q] \in Verdicts}
  <1>1. Len(s) \in Nat /\ m \in Nat
    BY DEF Text
  <1>2. ASSUME NEW p \in 1..m, \A q \in (p + 1)..m : q \in S PROVE p \in S
    <2>1. CASE p > Len(s) \/ Eol(s, p) > Len(s)
      BY <2>1, LinesAre, VerdictFacts
    <2>2. CASE ~(p > Len(s) \/ Eol(s, p) > Len(s))
      <3>1. p \in 1..(Len(s) + 1)
        BY <1>1, <2>2
      <3>2. Eol(s, p) \in Nat /\ Eol(s, p) >= p /\ Eol(s, p) <= Len(s)
        BY <1>1, <2>2, <3>1, EolFound DEF IsEol
      <3>3. Eol(s, p) + 1 \in (p + 1)..m
        BY <1>1, <3>2
      <3>4. Lines(s)[Eol(s, p) + 1] \in Verdicts
        BY <1>2, <3>3
      <3>5. Lines(s)[p] = Whole(Eol(s, p)) \/ Lines(s)[p] = Lines(s)[Eol(s, p) + 1]
        BY <2>2, LinesAre
      <3> QED BY <3>2, <3>4, <3>5, VerdictFacts
    <2> QED BY <2>1, <2>2
  <1> HIDE DEF S, m
  <1>3. \A p \in 1..m : p \in S
    BY <1>1, <1>2, Downward
  <1> QED BY <1>3 DEF S, m

(* Where the chunk at p has its data, and whether the next one is looked at.*)
Data(s, p) == Eol(s, p) + 1

Behind(s, p) == Data(s, p) + strtoul(s, p) + 2

HasLine(s, p) == p <= Len(s) /\ Eol(s, p) <= Len(s)

HasData(s, p) == Data(s, p) + strtoul(s, p) + 1 <= Len(s)

HasCrlf(s, p) == s[Data(s, p) + strtoul(s, p)] = CR /\ s[Data(s, p) + strtoul(s, p) + 1] = LF

Passed(s, p) == /\ HasLine(s, p) /\ IsHex(s, p) /\ strtoul(s, p) # 0
                /\ HasData(s, p) /\ HasCrlf(s, p)

AtEnd(s, p) == IF ~HasLine(s, p) THEN More
               ELSE IF ~IsHex(s, p) THEN Malformed
               ELSE IF strtoul(s, p) = 0 THEN Lines(s)[Data(s, p)]
               ELSE IF ~HasData(s, p) THEN More
               ELSE Malformed

(* Where the size line of a chunk is there, and its data, they are within   *)
(* the body.                                                                *)
LEMMA LineFacts ==
  ASSUME NEW s \in Text, NEW p \in 1..(Len(s) + 2), HasLine(s, p)
  PROVE  /\ p \in 1..Len(s) /\ Eol(s, p) \in p..Len(s) /\ strtoul(s, p) \in Nat
         /\ Data(s, p) \in (p + 1)..(Len(s) + 1) /\ Len(s) \in Nat
         /\ HasData(s, p) => Behind(s, p) \in (p + 1)..(Len(s) + 1)
  <1>1. Len(s) \in Nat
    BY DEF Text
  <1>2. p \in 1..Len(s)
    BY <1>1 DEF HasLine
  <1>3. Eol(s, p) \in p..Len(s)
    BY <1>1, <1>2, EolFound DEF IsEol, HasLine
  <1>4. strtoul(s, p) \in Nat
    BY <1>2, strtoulFacts
  <1> QED BY <1>1, <1>2, <1>3, <1>4 DEF Data, Behind, HasData

(* The function of the chunks is what defines it: behind a whole chunk the  *)
(* next one decides.                                                        *)
LEMMA ChunksAre ==
  ASSUME NEW s \in Text, NEW p \in 1..(Len(s) + 2)
  PROVE  Chunks(s)[p] = IF Passed(s, p) THEN Chunks(s)[Behind(s, p)] ELSE AtEnd(s, p)
  <1> DEFINE m == Len(s) + 2
             ValueOf(f, q) == LET e == Eol(s, q)
                               size == strtoul(s, q)
                               data == e + 1
                           IN IF q > Len(s) \/ e > Len(s) THEN More
                              ELSE IF ~IsHex(s, q) THEN Malformed
                              ELSE IF size = 0 THEN Lines(s)[data]
                              ELSE IF data + size + 1 > Len(s) THEN More
                              ELSE IF s[data + size] # CR \/ s[data + size + 1] # LF THEN Malformed
                              ELSE f[data + size + 2]
             stop == {q \in 1..m : ~Passed(s, q)}
             base == [q \in 1..m |-> IF Passed(s, q) THEN More ELSE AtEnd(s, q)]
             follow == [q \in 1..m |-> IF Passed(s, q) THEN Behind(s, q) ELSE q]
             G == [q \in 1..m |-> [v \in Verdicts |-> v]]
  <1>1. Len(s) \in Nat /\ m \in Nat
    BY DEF Text
  <1>2. ASSUME NEW f, NEW q \in 1..m
        PROVE  ValueOf(f, q) = IF Passed(s, q) THEN f[Behind(s, q)] ELSE AtEnd(s, q)
    <2>1. CASE ~HasLine(s, q)
      <3>1. q > Len(s) \/ Eol(s, q) > Len(s)
        <4>1. CASE q > Len(s)
          BY <4>1
        <4>2. CASE q <= Len(s)
          <5>1. Eol(s, q) \in Nat
            BY <1>1, <4>2, EolFound DEF IsEol
          <5> QED BY <1>1, <2>1, <4>2, <5>1 DEF HasLine
        <4> QED BY <1>1, <4>1, <4>2
      <3> QED BY <2>1, <3>1 DEF Passed, AtEnd
    <2>2. CASE HasLine(s, q)
      <3>1. /\ q \in 1..Len(s) /\ Eol(s, q) \in q..Len(s) /\ strtoul(s, q) \in Nat /\ Len(s) \in Nat
        BY <2>2, LineFacts
      <3>2. ~(q > Len(s) \/ Eol(s, q) > Len(s))
        BY <3>1
      <3>3. (Eol(s, q) + 1 + strtoul(s, q) + 1 > Len(s)) <=> ~HasData(s, q)
        BY <3>1 DEF HasData, Data
      <3> QED BY <2>2, <3>2, <3>3, Zenon DEF Passed, AtEnd, HasCrlf, Behind, Data
    <2> QED BY <2>1, <2>2
  <1>3. \A q \in 1..m : Passed(s, q) => Behind(s, q) \in 1..m /\ q < Behind(s, q)
    BY <1>1, LineFacts DEF Passed
  <1>4. \A q \in 1..m : AtEnd(s, q) \in Verdicts
    <2> SUFFICES ASSUME NEW q \in 1..m PROVE AtEnd(s, q) \in Verdicts
      OBVIOUS
    <2>1. HasLine(s, q) => Lines(s)[Data(s, q)] \in Verdicts
      <3>1. HasLine(s, q) => Data(s, q) \in 1..(Len(s) + 2)
        BY LineFacts
      <3> QED BY <3>1, LinesTyped
    <2> QED BY <2>1, VerdictFacts DEF AtEnd
  <1>5. /\ stop \in SUBSET (1..m) /\ base \in [1..m -> Verdicts]
        /\ follow \in [1..m -> 1..m] /\ G \in [1..m -> [Verdicts -> Verdicts]]
        /\ \A q \in 1..m : q \notin stop => q < follow[q]
    BY <1>3, <1>4, VerdictFacts
  <1>6. PICK f \in [1..m -> Verdicts] :
          \A q \in 1..m : f[q] = IF q \in stop THEN base[q] ELSE G[q][f[follow[q]]]
    <2>1. GoesForward(stop, base, follow, G, m, Verdicts)
      <3> HIDE DEF stop, base, follow, G, m
      <3> QED BY <1>1, <1>5 DEF GoesForward
    <2> HIDE DEF stop, base, follow, G, m
    <2> QED BY <2>1, FromTheEnd
  <1>7. \A q \in 1..m : f[q] = IF Passed(s, q) THEN f[Behind(s, q)] ELSE AtEnd(s, q)
    BY <1>3, <1>6
  <1>8. \A q \in 1..m : f[q] = ValueOf(f, q)
    <2> HIDE DEF ValueOf
    <2> QED BY <1>2, <1>7
  <1> DEFINE chunk[q \in 1..(Len(s) + 2)] ==
               LET e == Eol(s, q)
                   size == strtoul(s, q)
                   data == e + 1
               IN IF q > Len(s) \/ e > Len(s) THEN More
                  ELSE IF ~IsHex(s, q) THEN Malformed
                  ELSE IF size = 0 THEN Lines(s)[data]
                  ELSE IF data + size + 1 > Len(s) THEN More
                  ELSE IF s[data + size] # CR \/ s[data + size + 1] # LF THEN Malformed
                  ELSE chunk[data + size + 2]
  <1>9. f = [q \in 1..m |-> ValueOf(f, q)]
    <2> HIDE DEF ValueOf, m
    <2> QED BY <1>6, <1>8
  <1>10. chunk = [q \in 1..m |-> ValueOf(chunk, q)]
    BY <1>9
  <1>11. Chunks(s) = chunk
    BY DEF Chunks
  <1> HIDE DEF chunk
  <1>12. chunk[p] = ValueOf(chunk, p)
    BY <1>10
  <1>13. p \in 1..m
    OBVIOUS
  <1> HIDE DEF ValueOf, m
  <1>14. ValueOf(chunk, p) = IF Passed(s, p) THEN chunk[Behind(s, p)] ELSE AtEnd(s, p)
    BY <1>2, <1>13
  <1> QED BY <1>11, <1>12, <1>14
-----------------------------------------------------------------------------
(* What is said of the first part of a body is said of all of it.           *)
LEMMA LineAgrees ==
  ASSUME NEW s, NEW t, Agree(s, t, 1), NEW p \in 1..(Len(s) + 2), HasLine(s, p)
  PROVE  /\ HasLine(t, p) /\ Eol(t, p) = Eol(s, p) /\ strtoul(t, p) = strtoul(s, p)
         /\ IsHex(t, p) <=> IsHex(s, p)
         /\ t[p] = s[p] /\ p \in 1..(Len(t) + 2)
  <1>1. s \in Text /\ t \in Text /\ Len(s) \in Nat /\ Len(t) \in Nat /\ Len(s) <= Len(t)
    BY DEF Agree, Text
  <1>2. p \in 1..Len(s) /\ Eol(s, p) \in p..Len(s)
    BY <1>1, LineFacts
  <1>3. Agree(s, t, p)
    BY <1>1, <1>2 DEF Agree
  <1>4. Eol(t, p) = Eol(s, p)
    BY <1>1, <1>2, <1>3, EolAgrees
  <1>5. strtoul(t, p) = strtoul(s, p) /\ (IsHex(t, p) <=> IsHex(s, p))
    BY <1>1, <1>2, <1>3, strtoulAgrees
  <1> QED BY <1>1, <1>2, <1>3, <1>4, <1>5 DEF HasLine, Agree

(* A verdict on the trailer of the first part is that on the trailer of the *)
(* whole ...                                                                *)
LEMMA LinesAgree ==
  ASSUME NEW s, NEW t, Agree(s, t, 1)
  PROVE  \A p \in 1..(Len(s) + 2) : Lines(s)[p].complete # 0 => Lines(t)[p] = Lines(s)[p]
  <1> DEFINE m == Len(s) + 2
             S == {p \in 1..m : Lines(s)[p].complete # 0 => Lines(t)[p] = Lines(s)[p]}
  <1>1. s \in Text /\ t \in Text /\ Len(s) \in Nat /\ m \in Nat
    BY DEF Agree, Text
  <1>2. ASSUME NEW p \in 1..m, \A q \in (p + 1)..m : q \in S PROVE p \in S
    <2> SUFFICES ASSUME Lines(s)[p].complete # 0 PROVE Lines(t)[p] = Lines(s)[p]
      OBVIOUS
    <2>1. HasLine(s, p)
      <3> SUFFICES ASSUME ~HasLine(s, p) PROVE FALSE
        OBVIOUS
      <3>1. p > Len(s) \/ Eol(s, p) > Len(s)
        <4>1. p <= Len(s) => Eol(s, p) \in Nat
          BY <1>1, EolFound DEF IsEol
        <4> QED BY <1>1, <4>1 DEF HasLine
      <3> QED BY <1>1, <3>1, LinesAre, VerdictFacts
    <2>2. /\ HasLine(t, p) /\ Eol(t, p) = Eol(s, p) /\ t[p] = s[p] /\ p \in 1..(Len(t) + 2)
      BY <2>1, LineAgrees
    <2>3. /\ p <= Len(s) /\ p <= Len(t) /\ Eol(s, p) <= Len(s) /\ Eol(s, p) <= Len(t)
          /\ Len(t) \in Nat /\ Eol(s, p) \in Nat /\ Data(s, p) \in (p + 1)..m
      BY <1>1, <2>1, <2>2, LineFacts DEF HasLine
    <2>4. ~(p > Len(s) \/ Eol(s, p) > Len(s)) /\ ~(p > Len(t) \/ Eol(t, p) > Len(t))
      BY <1>1, <2>2, <2>3
    <2> DEFINE Blank == Eol(s, p) = p \/ (Eol(s, p) = p + 1 /\ s[p] = CR)
    <2>5. Lines(s)[p] = IF Blank THEN Whole(Eol(s, p)) ELSE Lines(s)[Eol(s, p) + 1]
      BY <1>1, <2>4, LinesAre
    <2>6. Lines(t)[p] = IF Blank THEN Whole(Eol(s, p)) ELSE Lines(t)[Eol(s, p) + 1]
      BY <1>1, <2>2, <2>4, LinesAre
    <2>7. Lines(s)[Eol(s, p) + 1].complete # 0 =>
            Lines(t)[Eol(s, p) + 1] = Lines(s)[Eol(s, p) + 1]
      BY <1>2, <2>3 DEF Data
    <2> QED BY <2>5, <2>6, <2>7
  <1> HIDE DEF S, m
  <1>3. \A p \in 1..m : p \in S
    BY <1>1, <1>2, Downward
  <1> QED BY <1>3 DEF S, m

(* ... and so is one on the chunks: by induction from the end of the part.  *)
LEMMA ChunksAgree ==
  ASSUME NEW s, NEW t, Agree(s, t, 1)
  PROVE  \A p \in 1..(Len(s) + 2) : Chunks(s)[p].complete # 0 => Chunks(t)[p] = Chunks(s)[p]
  <1> DEFINE m == Len(s) + 2
             S == {p \in 1..m : Chunks(s)[p].complete # 0 => Chunks(t)[p] = Chunks(s)[p]}
  <1>1. s \in Text /\ t \in Text /\ Len(s) \in Nat /\ m \in Nat
    BY DEF Agree, Text
  <1>2. ASSUME NEW p \in 1..m, \A q \in (p + 1)..m : q \in S PROVE p \in S
    <2> SUFFICES ASSUME Chunks(s)[p].complete # 0 PROVE Chunks(t)[p] = Chunks(s)[p]
      OBVIOUS
    <2>1. HasLine(s, p)
      BY <1>1, ChunksAre, VerdictFacts DEF Passed, AtEnd
    <2>2. /\ HasLine(t, p) /\ Eol(t, p) = Eol(s, p) /\ strtoul(t, p) = strtoul(s, p)
          /\ IsHex(t, p) <=> IsHex(s, p)
          /\ t[p] = s[p] /\ p \in 1..(Len(t) + 2)
      BY <2>1, LineAgrees
    <2>3. /\ p \in 1..Len(s) /\ Eol(s, p) \in p..Len(s) /\ strtoul(s, p) \in Nat
          /\ Data(s, p) \in (p + 1)..(Len(s) + 1)
          /\ HasData(s, p) => Behind(s, p) \in (p + 1)..(Len(s) + 1)
      BY <1>1, <2>1, LineFacts
    <2>4. Data(t, p) = Data(s, p) /\ Behind(t, p) = Behind(s, p)
      BY <2>2 DEF Data, Behind
    <2>5. CASE ~IsHex(s, p)
      BY <1>1, <2>1, <2>2, <2>5, ChunksAre DEF Passed, AtEnd
    <2>6. CASE IsHex(s, p) /\ strtoul(s, p) = 0
      <3>1. Chunks(s)[p] = Lines(s)[Data(s, p)] /\ Chunks(t)[p] = Lines(t)[Data(s, p)]
        BY <1>1, <2>1, <2>2, <2>4, <2>6, ChunksAre DEF Passed, AtEnd
      <3>2. Data(s, p) \in 1..(Len(s) + 2)
        BY <1>1, <2>3
      <3> QED BY <3>1, <3>2, LinesAgree
    <2>7. CASE IsHex(s, p) /\ strtoul(s, p) # 0
      <3>1. HasData(s, p)
        BY <1>1, <2>1, <2>7, ChunksAre, VerdictFacts DEF Passed, AtEnd
      <3>2. HasData(t, p)
        <4>1. Len(s) <= Len(t) /\ Len(t) \in Nat
          BY DEF Agree, Text
        <4> QED BY <1>1, <2>2, <2>3, <2>4, <3>1, <4>1 DEF HasData
      <3>3. HasCrlf(s, p) <=> HasCrlf(t, p)
        <4>1. Data(s, p) + strtoul(s, p) \in 1..Len(s) /\ Data(s, p) + strtoul(s, p) + 1 \in 1..Len(s)
          BY <1>1, <2>3, <3>1 DEF HasData
        <4> QED BY <2>2, <2>4, <4>1 DEF HasCrlf, Agree
      <3>4. CASE HasCrlf(s, p)
        <4>1. Chunks(s)[p] = Chunks(s)[Behind(s, p)] /\ Chunks(t)[p] = Chunks(t)[Behind(s, p)]
          BY <1>1, <2>1, <2>2, <2>4, <2>7, <3>1, <3>2, <3>3, <3>4, ChunksAre DEF Passed
        <4>2. Behind(s, p) \in (p + 1)..m
          BY <1>1, <2>3, <3>1
        <4> QED BY <1>2, <4>1, <4>2
      <3>5. CASE ~HasCrlf(s, p)
        BY <1>1, <2>1, <2>2, <2>7, <3>1, <3>2, <3>3, <3>5, ChunksAre DEF Passed, AtEnd
      <3> QED BY <3>4, <3>5
    <2> QED BY <2>5, <2>6, <2>7
  <1> HIDE DEF S, m
  <1>3. \A p \in 1..m : p \in S
    BY <1>1, <1>2, Downward
  <1> QED BY <1>3 DEF S, m
-----------------------------------------------------------------------------
(* The data of the chunks, and the loop that moves them to the front.       *)
LastData(s, p) == p > Len(s) \/ strtoul(s, p) = 0 \/ Eol(s, p) + strtoul(s, p) + 2 > Len(s)

DataAt(s, p) == SubSeq(s, Eol(s, p) + 1, Eol(s, p) + strtoul(s, p))

(* A chunk with data is within the body, and the next one behind it.        *)
LEMMA DataFacts ==
  ASSUME NEW s \in Text, NEW p \in 1..(Len(s) + 2), ~LastData(s, p)
  PROVE  /\ HasLine(s, p) /\ HasData(s, p) /\ DataAt(s, p) \in Text
         /\ Eol(s, p) + strtoul(s, p) + 3 = Behind(s, p)
         /\ Behind(s, p) \in (p + 1)..(Len(s) + 1)
  <1>1. Len(s) \in Nat
    BY DEF Text
  <1>2. p \in 1..Len(s)
    BY <1>1 DEF LastData
  <1>3. Eol(s, p) \in p..(Len(s) + 1) /\ strtoul(s, p) \in Nat
    BY <1>1, <1>2, EolFound, strtoulFacts DEF IsEol
  <1>4. HasLine(s, p) /\ HasData(s, p)
    BY <1>1, <1>2, <1>3 DEF LastData, HasLine, HasData, Data
  <1>5. DataAt(s, p) \in Text
    <2> DEFINE a == Eol(s, p) + 1  b == Eol(s, p) + strtoul(s, p)
    <2>1. a \in 1..(Len(s) + 1) /\ b \in 0..Len(s) /\ a \in Int /\ b \in Int
      BY <1>1, <1>2, <1>3 DEF LastData
    <2>2. \A i \in a..b : i \in 1..Len(s)
      BY <1>1, <2>1
    <2>3. \A i \in a..b : s[i] \in STRING
      BY <2>2 DEF Text
    <2> HIDE DEF a, b
    <2>4. SubSeq(s, a, b) \in Seq(STRING)
      BY <2>1, <2>3, SubSeqProperties
    <2> QED BY <2>4 DEF DataAt, a, b, Text
  <1>6. Eol(s, p) + strtoul(s, p) + 3 = Behind(s, p)
    BY <1>3 DEF Behind, Data
  <1> QED BY <1>4, <1>5, <1>6, LineFacts

(* The data from some place on are those of the chunk there, and what       *)
(* follows.                                                                 *)
LEMMA DataFromIs ==
  ASSUME NEW s \in Text
  PROVE  \A p \in 1..(Len(s) + 2) :
           /\ DataFrom(s)[p] \in Text
           /\ DataFrom(s)[p] = IF LastData(s, p) THEN <<>>
                               ELSE DataAt(s, p) \o DataFrom(s)[Behind(s, p)]
  <1> DEFINE m == Len(s) + 2
             ValueOf(f, q) == LET e == Eol(s, q)
                               size == strtoul(s, q)
                           IN IF q > Len(s) \/ size = 0 \/ e + size + 2 > Len(s) THEN <<>>
                              ELSE SubSeq(s, e + 1, e + size) \o f[e + size + 3]
             stop == {q \in 1..m : LastData(s, q)}
             base == [q \in 1..m |-> <<>>]
             follow == [q \in 1..m |-> IF LastData(s, q) THEN q ELSE Behind(s, q)]
             G == [q \in 1..m |-> [v \in Text |-> IF LastData(s, q) THEN v ELSE DataAt(s, q) \o v]]
  <1>1. Len(s) \in Nat /\ m \in Nat
    BY DEF Text
  <1>2. \A f, q : q \in 1..m =>
          ValueOf(f, q) = IF LastData(s, q) THEN <<>> ELSE DataAt(s, q) \o f[Behind(s, q)]
    <2> SUFFICES ASSUME NEW f, NEW q \in 1..m
                 PROVE  ValueOf(f, q) = IF LastData(s, q) THEN <<>> ELSE DataAt(s, q) \o f[Behind(s, q)]
      OBVIOUS
    <2>1. CASE LastData(s, q)
      BY <2>1, Zenon DEF LastData
    <2>2. CASE ~LastData(s, q)
      <3>1. Eol(s, q) + strtoul(s, q) + 3 = Behind(s, q)
        BY <2>2, DataFacts
      <3> QED BY <2>2, <3>1, Zenon DEF LastData, DataAt
    <2> QED BY <2>1, <2>2
  <1>3. \A q \in 1..m : ~LastData(s, q) =>
          DataAt(s, q) \in Text /\ Behind(s, q) \in 1..m /\ q < Behind(s, q)
    BY <1>1, DataFacts
  <1>4. /\ stop \in SUBSET (1..m) /\ base \in [1..m -> Text]
        /\ follow \in [1..m -> 1..m] /\ G \in [1..m -> [Text -> Text]]
        /\ \A q \in 1..m : q \notin stop => q < follow[q]
    <2>1. base \in [1..m -> Text]
      BY DEF Text
    <2>2. \A q \in 1..m : \A v \in Text : ~LastData(s, q) => DataAt(s, q) \o v \in Text
      BY <1>3, ConcatProperties DEF Text
    <2>3. G \in [1..m -> [Text -> Text]]
      <3> HIDE DEF m
      <3> QED BY <2>2
    <2> QED BY <1>3, <2>1, <2>3
  <1>5. PICK f \in [1..m -> Text] :
          \A q \in 1..m : f[q] = IF q \in stop THEN base[q] ELSE G[q][f[follow[q]]]
    <2>1. GoesForward(stop, base, follow, G, m, Text)
      <3> HIDE DEF stop, base, follow, G, m
      <3> QED BY <1>1, <1>4 DEF GoesForward
    <2> HIDE DEF stop, base, follow, G, m
    <2> QED BY <2>1, FromTheEnd
  <1>6. \A q \in 1..m : f[q] = IF LastData(s, q) THEN <<>> ELSE DataAt(s, q) \o f[Behind(s, q)]
    <2> HIDE DEF m
    <2> SUFFICES ASSUME NEW q \in 1..m
                 PROVE  f[q] = IF LastData(s, q) THEN <<>> ELSE DataAt(s, q) \o f[Behind(s, q)]
      OBVIOUS
    <2>1. CASE LastData(s, q)
      <3>1. q \in stop /\ base[q] = <<>>
        BY <2>1
      <3> HIDE DEF stop, base
      <3> QED BY <1>5, <2>1, <3>1
    <2>2. CASE ~LastData(s, q)
      <3>1. q \notin stop /\ follow[q] = Behind(s, q) /\ f[Behind(s, q)] \in Text
        BY <1>3, <1>5, <2>2
      <3>2. G[q][f[Behind(s, q)]] = DataAt(s, q) \o f[Behind(s, q)]
        BY <2>2, <3>1
      <3> HIDE DEF stop, G, follow
      <3> QED BY <1>5, <2>2, <3>1, <3>2
    <2> QED BY <2>1, <2>2
  <1>7. \A q \in 1..m : f[q] = ValueOf(f, q)
    <2> HIDE DEF ValueOf
    <2> QED BY <1>2, <1>6
  <1> DEFINE data[q \in 1..(Len(s) + 2)] ==
               LET e == Eol(s, q)
                   size == strtoul(s, q)
               IN IF q > Len(s) \/ size = 0 \/ e + size + 2 > Len(s) THEN <<>>
                  ELSE SubSeq(s, e + 1, e + size) \o data[e + size + 3]
  <1>8. f = [q \in 1..m |-> ValueOf(f, q)]
    <2> HIDE DEF ValueOf, m
    <2> QED BY <1>5, <1>7
  <1>9. data = [q \in 1..m |-> ValueOf(data, q)]
    BY <1>8
  <1>10. DataFrom(s) = data
    BY DEF DataFrom
  <1> HIDE DEF data
  <1>11. \A q \in 1..m : data[q] = ValueOf(data, q)
    <2> HIDE DEF ValueOf
    <2> QED BY <1>9
  <1>12. \A q \in 1..m : data[q] = IF LastData(s, q) THEN <<>> ELSE DataAt(s, q) \o data[Behind(s, q)]
    <2> HIDE DEF ValueOf, m
    <2> QED BY <1>2, <1>11
  <1> DEFINE S == {q \in 1..m : data[q] \in Text}
  <1> HIDE DEF ValueOf
  <1>13. ASSUME NEW p \in 1..m, \A q \in (p + 1)..m : q \in S PROVE p \in S
    <2>1. CASE LastData(s, p)
      <3>1. data[p] = <<>>
        <4> HIDE DEF m, S
        <4> QED BY <1>12, <2>1, Zenon
      <3>2. <<>> \in Text
        BY DEF Text
      <3> QED BY <3>1, <3>2
    <2>2. CASE ~LastData(s, p)
      <3>1. Behind(s, p) \in (p + 1)..m
        BY <1>1, <2>2, DataFacts
      <3>2. data[Behind(s, p)] \in Text /\ DataAt(s, p) \in Text
        BY <1>3, <1>13, <2>2, <3>1
      <3>3. DataAt(s, p) \o data[Behind(s, p)] \in Text
        BY <3>2, ConcatProperties DEF Text
      <3> QED BY <1>12, <2>2, <3>3
    <2> QED BY <2>1, <2>2
  <1>14. \A p \in 1..m : p \in S
    <2> HIDE DEF S, m
    <2> QED BY <1>1, <1>13, Downward
  <1> QED BY <1>10, <1>12, <1>14

(* The loop has written what the chunks behind it held, and what it will    *)
(* read is still there.                                                     *)
LoopStates == [buffer : Text, pos : Nat, outLen : Nat]

Moved(loop, s, t) ==
  /\ loop \in LoopStates /\ Len(loop.buffer) = Len(s)
  /\ loop.pos \in 1..(Len(s) + 1) /\ loop.outLen < loop.pos
  /\ \A i \in loop.pos..Len(s) : loop.buffer[i] = t[i]
  /\ Chunks(s)[loop.pos].complete = 1
  /\ SubSeq(loop.buffer, 1, loop.outLen) \o DataFrom(t)[loop.pos] = Payload(t)

(* A round of the decoder moves the data of a chunk to those before it,     *)
(* leaves what it has not read yet as it was, and goes on behind the chunk, *)
(* or has come to the last one.                                             *)
LEMMA RoundMoves ==
  ASSUME NEW s, NEW t, Agree(s, t, 1), NEW loop, Moved(loop, s, t)
  PROVE  /\ Moved(Round(loop), s, t)
         /\ \/ Round(loop).pos > loop.pos
            \/ Round(loop) = loop /\ strtoul(t, loop.pos) = 0
  <1> DEFINE b == loop.buffer
             p == loop.pos
             o == loop.outLen
             data == Data(s, p)
             size == strtoul(s, p)
             next == Behind(s, p)
  <1>1. s \in Text /\ t \in Text /\ Len(s) \in Nat /\ Len(t) \in Nat /\ Len(s) <= Len(t)
    BY DEF Agree, Text
  <1>2. /\ b \in Text /\ p \in 1..(Len(s) + 2) /\ p \in Nat /\ o \in Nat /\ Len(b) = Len(s) /\ o < p
        /\ \A i \in p..Len(s) : b[i] = t[i]
    BY <1>1 DEF Moved, LoopStates
  <1>3. Chunks(s)[p].complete = 1 /\ SubSeq(b, 1, o) \o DataFrom(t)[p] = Payload(t)
    BY DEF Moved
  <1>a. loop = [buffer |-> b, pos |-> p, outLen |-> o]
    BY DEF Moved, LoopStates
  <1>b. Round(loop) = LET sz == IF p > Len(b) THEN 0 ELSE strtoul(b, p)
                          dt == Eol(b, p) + 1
                      IN IF sz = 0 THEN loop
                         ELSE [buffer |-> Move(b, o + 1, dt, sz), pos |-> dt + sz + 2, outLen |-> o + sz]
    BY DEF Round
  <1> HIDE DEF b, p, o
  <1>4. HasLine(s, p)
    BY <1>1, <1>2, <1>3, ChunksAre, VerdictFacts DEF Passed, AtEnd
  <1>5. /\ p \in 1..Len(s) /\ Eol(s, p) \in p..Len(s) /\ size \in Nat /\ data \in (p + 1)..(Len(s) + 1)
        /\ HasData(s, p) => next \in (p + 1)..(Len(s) + 1)
    BY <1>1, <1>2, <1>4, LineFacts
  <1>6. /\ HasLine(t, p) /\ Eol(t, p) = Eol(s, p) /\ strtoul(t, p) = size /\ p \in 1..(Len(t) + 2)
    BY <1>2, <1>4, LineAgrees
  <1>7. Agree(s, b, p)
    BY <1>1, <1>2, <1>5 DEF Agree
  <1>8. Eol(b, p) = Eol(s, p) /\ strtoul(b, p) = size
    <2>1. p \in 1..(Len(s) + 1) /\ Eol(s, p) <= Len(s)
      BY <1>1, <1>5
    <2> QED BY <1>5, <1>7, <2>1, EolAgrees, strtoulAgrees
  <1>9. CASE size = 0
    <2>1. Round(loop) = loop
      BY <1>b, <1>8, <1>9
    <2> QED BY <1>6, <1>9, <2>1 DEF p
  <1>10. CASE size # 0
    <2>1. Passed(s, p)
      BY <1>1, <1>2, <1>3, <1>4, <1>10, ChunksAre, VerdictFacts DEF AtEnd
    <2>2. Chunks(s)[next].complete = 1
      BY <1>1, <1>2, <1>3, <2>1, ChunksAre
    <2>3. next \in (p + 1)..(Len(s) + 1) /\ next = data + size + 2 /\ data + size + 1 <= Len(s)
      BY <1>5, <2>1 DEF Passed, Behind, HasData
    <2> DEFINE c == Move(b, o + 1, data, size)
    <2>4. Round(loop) = [buffer |-> c, pos |-> next, outLen |-> o + size]
      <3>1. ~(p > Len(b))
        BY <1>1, <1>2, <1>5
      <3> QED BY <1>b, <1>8, <1>10, <2>3, <3>1 DEF Data
    <2>5. /\ Len(c) = Len(s) /\ c \in Text
          /\ \A i \in 1..Len(s) : c[i] = IF i \in (o + 1)..(o + size) THEN b[data + i - (o + 1)] ELSE b[i]
      <3>1. o + 1 + size - 1 = o + size
        BY <1>2, <1>5
      <3>2. c = [i \in 1..Len(s) |-> IF i \in (o + 1)..(o + size) THEN b[data + i - (o + 1)] ELSE b[i]]
        BY <1>2, <3>1 DEF Move
      <3>3. \A i \in (o + 1)..(o + size) : data + i - (o + 1) \in 1..Len(s)
        <4>1. Len(s) \in Nat /\ o \in Nat /\ size \in Nat /\ data \in Nat /\ data >= 1
              /\ data + size + 1 <= Len(s)
          BY <1>1, <1>2, <1>5, <2>3
        <4> HIDE DEF data, size
        <4> QED BY <4>1
      <3>4. \A i \in 1..Len(s) : b[i] \in STRING
        BY <1>2 DEF Text
      <3> HIDE DEF c
      <3>5. c \in [1..Len(s) -> STRING]
        BY <3>2, <3>3, <3>4
      <3>6. c \in Seq(STRING) /\ Len(c) = Len(s)
        BY <1>1, <3>5
      <3> QED BY <3>2, <3>6 DEF Text
    <2> HIDE DEF c
    <2>6. \A i \in next..Len(s) : c[i] = t[i]
      <3>1. \A i \in next..Len(s) : i \in 1..Len(s) /\ i \notin (o + 1)..(o + size) /\ i \in p..Len(s)
        BY <1>1, <1>2, <1>5, <2>3
      <3> QED BY <1>2, <2>5, <3>1
    <2>7. SubSeq(c, 1, o + size) = SubSeq(b, 1, o) \o DataAt(t, p)
      <3> DEFINE u == SubSeq(c, 1, o + size)
                 v == SubSeq(b, 1, o)
                 w == DataAt(t, p)
                 n == o + size
      <3>1. o <= Len(s) /\ n <= Len(s) /\ n \in Nat
        BY <1>1, <1>2, <1>5, <2>3
      <3>2. u \in Text /\ Len(u) = n /\ \A i \in 1..n : u[i] = c[i]
        <4>1. \A i \in 1..n : i \in 1..Len(s) /\ c[i] \in STRING
          BY <1>1, <2>5, <3>1 DEF Text
        <4>2. 1 \in Int /\ n \in Int /\ n - 1 + 1 = n /\ (1 > n => n = 0)
          BY <3>1
        <4> HIDE DEF n
        <4>3. /\ SubSeq(c, 1, n) \in Seq(STRING)
              /\ Len(SubSeq(c, 1, n)) = IF 1 <= n THEN n - 1 + 1 ELSE 0
              /\ \A i \in 1..(n - 1 + 1) : SubSeq(c, 1, n)[i] = c[1 + i - 1]
          BY <4>1, <4>2, SubSeqProperties
        <4>4. \A i \in 1..n : 1 + i - 1 = i
          BY <3>1
        <4> QED BY <3>1, <4>2, <4>3, <4>4 DEF n, Text
      <3>3. v \in Text /\ Len(v) = o /\ \A i \in 1..o : v[i] = b[i]
        <4>1. \A i \in 1..o : i \in 1..Len(s) /\ b[i] \in STRING
          BY <1>1, <1>2, <3>1 DEF Text
        <4>2. 1 \in Int /\ o \in Int /\ o - 1 + 1 = o /\ (1 > o => o = 0)
          BY <1>2
        <4>3. /\ SubSeq(b, 1, o) \in Seq(STRING)
              /\ Len(SubSeq(b, 1, o)) = IF 1 <= o THEN o - 1 + 1 ELSE 0
              /\ \A i \in 1..(o - 1 + 1) : SubSeq(b, 1, o)[i] = b[1 + i - 1]
          BY <4>1, <4>2, SubSeqProperties
        <4>4. \A i \in 1..o : 1 + i - 1 = i
          BY <1>2
        <4> QED BY <1>2, <4>2, <4>3, <4>4 DEF Text
      <3>4. w \in Text /\ Len(w) = size /\ \A i \in 1..size : w[i] = t[data + i - 1]
        <4> DEFINE l == data + size - 1
        <4>1. w = SubSeq(t, data, l)
          <5>1. l = Eol(t, p) + strtoul(t, p) /\ data = Eol(t, p) + 1
            BY <1>5, <1>6 DEF Data
          <5> HIDE DEF l, data
          <5> QED BY <5>1, Zenon DEF DataAt
        <4>2. data \in Int /\ l \in Int /\ l - data + 1 = size /\ data <= l
          BY <1>5, <1>10
        <4>3. \A i \in data..l : i \in 1..Len(t) /\ t[i] \in STRING
          BY <1>1, <1>5, <2>3 DEF Text
        <4> HIDE DEF l, data, size, w
        <4>4. /\ SubSeq(t, data, l) \in Seq(STRING)
              /\ Len(SubSeq(t, data, l)) = IF data <= l THEN l - data + 1 ELSE 0
              /\ \A i \in 1..(l - data + 1) : SubSeq(t, data, l)[i] = t[data + i - 1]
          BY <4>2, <4>3, SubSeqProperties
        <4> QED BY <4>1, <4>2, <4>4 DEF Text
      <3> HIDE DEF u, v, w, data, size, next
      <3>5. /\ v \o w \in Seq(STRING) /\ Len(v \o w) = o + size
            /\ \A i \in 1..(o + size) : (v \o w)[i] = IF i <= o THEN v[i] ELSE w[i - o]
        BY <3>3, <3>4, ConcatProperties DEF Text
      <3>6. \A i \in 1..(o + size) : u[i] = (v \o w)[i]
        <4> SUFFICES ASSUME NEW i \in 1..(o + size) PROVE u[i] = (v \o w)[i]
          OBVIOUS
        <4>1. i \in 1..Len(s) /\ u[i] = c[i]
          BY <1>1, <1>2, <1>5, <3>1, <3>2
        <4>2. CASE i <= o
          <5>1. i \in 1..o /\ i \notin (o + 1)..(o + size)
            BY <1>2, <1>5, <4>2
          <5> QED BY <2>5, <3>3, <3>5, <4>1, <4>2, <5>1
        <4>3. CASE ~(i <= o)
          <5>1. i \in (o + 1)..(o + size) /\ i - o \in 1..size /\ data + (i - o) - 1 = data + i - (o + 1)
            BY <1>2, <1>5, <4>3
          <5>2. data + i - (o + 1) \in p..Len(s)
            BY <1>1, <1>2, <1>5, <2>3, <5>1
          <5>3. u[i] = t[data + i - (o + 1)]
            BY <1>2, <2>5, <4>1, <5>1, <5>2
          <5>4. w[i - o] = t[data + i - (o + 1)]
            BY <3>4, <5>1
          <5> QED BY <3>5, <4>3, <5>3, <5>4
        <4> QED BY <4>2, <4>3
      <3>7. u \in Seq(STRING) /\ Len(u) = Len(v \o w)
        BY <3>2, <3>5 DEF Text
      <3>8. u = v \o w
        BY <3>2, <3>5, <3>6, <3>7, SeqEqual
      <3> QED BY <3>8 DEF u, v, w
    <2>8. DataFrom(t)[p] = DataAt(t, p) \o DataFrom(t)[next] /\ DataFrom(t)[next] \in Text
      <3>1. ~LastData(t, p)
        BY <1>1, <1>5, <1>6, <1>10, <2>3 DEF LastData, Data
      <3>2. Behind(t, p) = next /\ next \in 1..(Len(t) + 2)
        BY <1>1, <1>6, <2>3 DEF Behind, Data
      <3> QED BY <1>1, <1>6, <3>1, <3>2, DataFromIs
    <2>9. SubSeq(c, 1, o + size) \o DataFrom(t)[next] = Payload(t)
      <3>1. SubSeq(b, 1, o) \in Text
        <4>1. o \in 0..Len(b)
          BY <1>1, <1>2, <1>5
        <4> QED BY <1>2, <4>1, FirstPartAgrees
      <3>2. DataAt(t, p) \in Text
        <4>1. ~LastData(t, p)
          BY <1>1, <1>5, <1>6, <1>10, <2>3 DEF LastData, Data
        <4> QED BY <1>1, <1>6, <4>1, DataFacts
      <3>3. (SubSeq(b, 1, o) \o DataAt(t, p)) \o DataFrom(t)[next]
              = SubSeq(b, 1, o) \o (DataAt(t, p) \o DataFrom(t)[next])
        <4> DEFINE x == SubSeq(b, 1, o)  y == DataAt(t, p)  z == DataFrom(t)[next]
        <4>1. x \in Seq(STRING) /\ y \in Seq(STRING) /\ z \in Seq(STRING)
          BY <2>8, <3>1, <3>2 DEF Text
        <4> HIDE DEF x, y, z
        <4>2. (x \o y) \o z = x \o (y \o z)
          BY <4>1, ConcatAssociative
        <4> QED BY <4>2 DEF x, y, z
      <3> QED BY <1>3, <2>7, <2>8, <3>3
    <2> HIDE DEF next, size, data
    <2>10. o + size \in Nat /\ o + size < next /\ next \in Nat /\ next \in 1..(Len(s) + 1) /\ next > p
      BY <1>1, <1>2, <1>5, <2>3
    <2> DEFINE after == [buffer |-> c, pos |-> next, outLen |-> o + size]
    <2>11. after \in LoopStates /\ after.buffer = c /\ after.pos = next /\ after.outLen = o + size
      BY <2>5, <2>10 DEF LoopStates
    <2> HIDE DEF after
    <2>12. Moved(after, s, t)
      BY <2>2, <2>5, <2>6, <2>9, <2>10, <2>11 DEF Moved
    <2> QED BY <2>4, <2>10, <2>11, <2>12 DEF after, p
  <1> QED BY <1>9, <1>10

(* After as many rounds as the body has characters the last chunk was       *)
(* reached.                                                                 *)
LEMMA RoundsAre ==
  ASSUME NEW s, NEW t, Agree(s, t, 1), Chunks(s)[1].complete = 1
  PROVE  \A k \in 0..Len(s) :
           /\ Moved(Rounds(s)[k], s, t)
           /\ Rounds(s)[k].pos > k \/ strtoul(t, Rounds(s)[k].pos) = 0
  <1> DEFINE m == Len(s)
             first == [buffer |-> s, pos |-> 1, outLen |-> 0]
             V == {l \in LoopStates : Moved(l, s, t)}
             ValueOf(f, k) == IF k = 0 THEN first ELSE Round(f[k - 1])
             G == [k \in 1..m |-> [l \in V |-> Round(l)]]
  <1>1. s \in Text /\ t \in Text /\ m \in Nat /\ \A i \in 1..m : s[i] = t[i]
    BY DEF Agree, Text
  <1>2. Moved(first, s, t)
    <2>1. first \in LoopStates /\ first.buffer = s /\ first.pos = 1 /\ first.outLen = 0
      BY <1>1 DEF LoopStates
    <2>2. SubSeq(s, 1, 0) \o DataFrom(t)[1] = Payload(t)
      <3>1. Len(t) \in Nat
        BY <1>1 DEF Text
      <3>2. 1 \in 1..(Len(t) + 2)
        BY <3>1
      <3>3. DataFrom(t)[1] \in Seq(STRING)
        BY <1>1, <3>2, DataFromIs DEF Text
      <3>4. SubSeq(s, 1, 0) = <<>>
        BY <1>1 DEF Text
      <3> QED BY <3>3, <3>4, ConcatEmptySeq DEF Payload
    <2> HIDE DEF first
    <2> QED BY <1>1, <2>1, <2>2 DEF Moved
  <1>3. \A l \in V : Round(l) \in V
    <2> SUFFICES ASSUME NEW l \in V PROVE Round(l) \in V
      OBVIOUS
    <2>1. Moved(Round(l), s, t)
      BY RoundMoves
    <2> QED BY <2>1 DEF Moved
  <1>4. first \in V
    BY <1>2 DEF Moved
  <1>5. PICK f \in [0..m -> V] : f[0] = first /\ \A k \in 1..m : f[k] = G[k][f[k - 1]]
    <2>1. Within(G, m, V)
      <3> HIDE DEF V
      <3> QED BY <1>3 DEF Within
    <2> HIDE DEF V, G, first
    <2>2. m \in Nat
      BY <1>1
    <2> HIDE DEF m
    <2> QED BY <1>4, <2>1, <2>2, FromTheFront
  <1>6. \A k \in 0..m : f[k] = ValueOf(f, k)
    <2> SUFFICES ASSUME NEW k \in 0..m PROVE f[k] = ValueOf(f, k)
      OBVIOUS
    <2>1. CASE k = 0
      BY <1>5, <2>1
    <2>2. CASE k # 0
      <3>1. k \in 1..m /\ k - 1 \in 0..m
        BY <1>1, <2>2
      <3> HIDE DEF V, first
      <3>2. f[k - 1] \in V
        BY <1>5, <3>1
      <3>3. G[k][f[k - 1]] = Round(f[k - 1])
        BY <3>1, <3>2
      <3> QED BY <1>5, <2>2, <3>1, <3>3
    <2> QED BY <2>1, <2>2
  <1> DEFINE loop[k \in 0..Len(s)] == IF k = 0 THEN [buffer |-> s, pos |-> 1, outLen |-> 0]
                                      ELSE Round(loop[k - 1])
  <1>7. f = [k \in 0..m |-> ValueOf(f, k)]
    <2> HIDE DEF ValueOf, m, V
    <2> QED BY <1>5, <1>6
  <1>8. loop = [k \in 0..m |-> ValueOf(loop, k)]
    BY <1>7
  <1>9. Rounds(s) = loop
    BY DEF Rounds
  <1> HIDE DEF loop
  <1>10. loop[0] = first
    BY <1>1, <1>8
  <1>11. ASSUME NEW k \in Nat, k + 1 <= m PROVE loop[k + 1] = Round(loop[k])
    <2>1. k + 1 \in 0..m /\ k + 1 # 0 /\ (k + 1) - 1 = k
      BY <1>1, <1>11
    <2>2. loop[k + 1] = ValueOf(loop, k + 1)
      <3> HIDE DEF ValueOf
      <3> QED BY <1>8, <2>1
    <2> QED BY <2>1, <2>2
  <1> DEFINE Holds(k) == /\ Moved(loop[k], s, t)
                         /\ loop[k].pos > k \/ strtoul(t, loop[k].pos) = 0
             T == {k \in Nat : k <= m => Holds(k)}
  <1>12. 0 \in T
    <2>1. first.pos > 0
      OBVIOUS
    <2> QED BY <1>2, <1>10, <2>1
  <1>13. ASSUME NEW k \in Nat, k \in T PROVE k + 1 \in T
    <2> SUFFICES ASSUME k + 1 <= m PROVE Holds(k + 1)
      OBVIOUS
    <2>1. Holds(k)
      <3> HIDE DEF Holds
      <3> QED BY <1>1, <1>13
    <2>2. loop[k + 1] = Round(loop[k])
      BY <1>11
    <2>3. /\ Moved(loop[k + 1], s, t)
          /\ \/ loop[k + 1].pos > loop[k].pos
             \/ loop[k + 1] = loop[k] /\ strtoul(t, loop[k].pos) = 0
      BY <2>1, <2>2, RoundMoves
    <2>4. loop[k].pos \in Nat /\ loop[k + 1].pos \in Nat
      BY <2>1, <2>3 DEF Moved, LoopStates
    <2>5. CASE strtoul(t, loop[k].pos) = 0 /\ loop[k + 1] = loop[k]
      BY <2>3, <2>5
    <2>6. CASE loop[k + 1].pos > loop[k].pos /\ loop[k].pos > k
      <3>1. loop[k + 1].pos > k + 1
        BY <2>4, <2>6
      <3> QED BY <2>3, <3>1
    <2>7. CASE loop[k + 1].pos > loop[k].pos /\ strtoul(t, loop[k].pos) = 0
      <3>1. Round(loop[k]) = loop[k]
        <4> DEFINE b == loop[k].buffer  p == loop[k].pos
        <4>1. /\ p \in 1..(Len(s) + 1) /\ Chunks(s)[p].complete = 1 /\ Len(s) \in Nat /\ Len(b) = Len(s)
              /\ b \in Text /\ \A i \in p..Len(s) : b[i] = t[i]
          BY <1>1, <2>1 DEF Moved, LoopStates
        <4>2. Round(loop[k]) = LET size == IF p > Len(b) THEN 0 ELSE strtoul(b, p)
                                   data == Eol(b, p) + 1
                               IN IF size = 0 THEN loop[k]
                                  ELSE [buffer |-> Move(b, loop[k].outLen + 1, data, size),
                                        pos |-> data + size + 2, outLen |-> loop[k].outLen + size]
          BY DEF Round
        <4> HIDE DEF b, p
        <4>3. p \in 1..(Len(s) + 2)
          BY <4>1
        <4>4. HasLine(s, p)
          BY <1>1, <4>1, <4>3, ChunksAre, VerdictFacts DEF Passed, AtEnd
        <4>5. strtoul(t, p) = strtoul(s, p)
          BY <4>3, <4>4, LineAgrees
        <4>6. p \in 1..Len(s) /\ Eol(s, p) \in p..Len(s)
          BY <1>1, <4>3, <4>4, LineFacts
        <4>7. Agree(s, b, p) /\ Eol(s, p) <= Len(s)
          BY <1>1, <4>1, <4>6 DEF Agree
        <4>8. strtoul(b, p) = strtoul(s, p)
          BY <4>6, <4>7, strtoulAgrees
        <4>9. strtoul(b, p) = 0
          BY <2>7, <4>5, <4>8 DEF p
        <4> QED BY <4>2, <4>9
      <3> QED BY <2>2, <2>4, <2>7, <3>1
    <2> QED BY <2>1, <2>3, <2>5, <2>6, <2>7
  <1>14. Nat \subseteq T
    <2> HIDE DEF T
    <2> QED BY <1>12, <1>13, Upward
  <1>15. \A k \in 0..m : Holds(k)
    <2> HIDE DEF Holds
    <2> QED BY <1>1, <1>14
  <1> QED BY <1>9, <1>15

(* Decoding in place gives the data of the chunks.                          *)
LEMMA DecodeIsPayload ==
  ASSUME NEW s, NEW t, Agree(s, t, 1), Chunks(s)[1].complete = 1
  PROVE  Decode(s) = Payload(t)
  <1> DEFINE m == Len(s)
             loop == Rounds(s)[m]
             p == loop.pos
  <1>1. s \in Text /\ t \in Text /\ m \in Nat /\ Len(t) \in Nat /\ m <= Len(t)
    BY DEF Agree, Text
  <1>2. m \in 0..m
    BY <1>1
  <1>3. Moved(loop, s, t) /\ (p > m \/ strtoul(t, p) = 0)
    BY <1>2, RoundsAre
  <1>4. Decode(s) = SubSeq(loop.buffer, 1, loop.outLen)
    BY DEF Decode
  <1> HIDE DEF loop, p
  <1>5. /\ p \in 1..(Len(s) + 1) /\ Chunks(s)[p].complete = 1
        /\ loop.buffer \in Text /\ loop.outLen \in Nat /\ loop.outLen <= Len(s) /\ Len(loop.buffer) = Len(s)
        /\ SubSeq(loop.buffer, 1, loop.outLen) \o DataFrom(t)[p] = Payload(t)
    BY <1>1, <1>3 DEF Moved, LoopStates, p
  <1>6. p \in 1..(Len(s) + 2) /\ p \in 1..(Len(t) + 2)
    BY <1>1, <1>5
  <1>7. HasLine(s, p)
    BY <1>1, <1>5, <1>6, ChunksAre, VerdictFacts DEF Passed, AtEnd
  <1>8. strtoul(t, p) = 0
    BY <1>1, <1>3, <1>5, <1>7 DEF HasLine
  <1>9. DataFrom(t)[p] = <<>>
    BY <1>1, <1>6, <1>8, DataFromIs DEF LastData
  <1>10. SubSeq(loop.buffer, 1, loop.outLen) \in Seq(STRING)
    <2> DEFINE b == loop.buffer  o == loop.outLen
    <2>1. b \in Text /\ o \in 0..Len(b)
      BY <1>1, <1>5
    <2> HIDE DEF b, o
    <2>2. SubSeq(b, 1, o) \in Text
      BY <2>1, FirstPartAgrees
    <2> QED BY <2>2 DEF b, o, Text
  <1>11. SubSeq(loop.buffer, 1, loop.outLen) \o <<>> = SubSeq(loop.buffer, 1, loop.outLen)
    BY <1>10, ConcatEmptySeq
  <1> QED BY <1>4, <1>5, <1>9, <1>11
-----------------------------------------------------------------------------
(* What is known of the characters that have arrived, and of the answer.    *)
Arrived == SubSeq(body, 1, received)

ChunkedInv ==
  /\ body \in Text /\ received \in 0..Len(body)
  /\ framed = ffNetworkingChunkedComplete(Arrived)
  /\ answer # <<>> => framed.complete = 1 /\ answer = <<Rebuilt(header), Decode(Arrived)>>

(* At every moment the verdict is that of what has arrived.                 *)
THEOREM ChunkedIsInv == ChunkedSpec => []ChunkedInv
  <1> USE ChunkedAssumption DEF ffNetworkingChunkedComplete, Arrived
  <1>1. InitChunked => ChunkedInv
    <2> SUFFICES ASSUME InitChunked PROVE ChunkedInv
      OBVIOUS
    <2>1. body \in Text /\ received = 0 /\ framed = More /\ answer = <<>>
      BY DEF InitChunked, Text
    <2> DEFINE s == SubSeq(body, 1, 0)
    <2>2. 0 \in 0..Len(body)
      BY <2>1 DEF Text
    <2>3. s \in Text /\ Len(s) = 0
      BY <2>1, <2>2, FirstPartAgrees DEF Agree
    <2> HIDE DEF s
    <2>4. ~HasLine(s, 1) /\ 1 \in 1..(Len(s) + 2)
      BY <2>3 DEF HasLine
    <2>5. Chunks(s)[1] = More
      BY <2>3, <2>4, ChunksAre DEF Passed, AtEnd
    <2> QED BY <2>1, <2>2, <2>5 DEF ChunkedInv, s
  <1>2. ChunkedInv /\ [NextChunked]_chunkedVars => ChunkedInv'
    <2> SUFFICES ASSUME ChunkedInv, [NextChunked]_chunkedVars PROVE ChunkedInv'
      OBVIOUS
    <2>1. CASE RecvBody
      <3>1. /\ received' \in (received + 1)..Len(body) /\ body' = body /\ answer' = answer
            /\ framed' = ffNetworkingChunkedComplete(SubSeq(body, 1, received'))
            /\ framed.complete = 0
        BY <2>1 DEF RecvBody
      <3>2. answer = <<>>
        BY <3>1 DEF ChunkedInv
      <3>3. received' \in 0..Len(body)
        BY <3>1 DEF ChunkedInv, Text
      <3> QED BY <3>1, <3>2, <3>3 DEF ChunkedInv
    <2>2. CASE DecodeChunked
      BY <2>2 DEF DecodeChunked, ChunkedInv
    <2>3. CASE UNCHANGED chunkedVars
      BY <2>3 DEF chunkedVars, ChunkedInv
    <2> QED BY <2>1, <2>2, <2>3 DEF NextChunked
  <1> QED BY <1>1, <1>2, PTL DEF ChunkedSpec

(* Whatever the segments, the verdict on a part is that on the whole.       *)
THEOREM VerdictOfTheWhole == ChunkedSpec => []SegmentsDontMatter
  <1>1. ChunkedInv => SegmentsDontMatter
    <2> SUFFICES ASSUME ChunkedInv, framed.complete # 0
                 PROVE  framed = ffNetworkingChunkedComplete(body)
      BY DEF SegmentsDontMatter
    <2>1. Agree(Arrived, body, 1) /\ Len(Arrived) = received /\ received \in Nat
      BY FirstPartAgrees DEF ChunkedInv, Arrived
    <2>2. 1 \in 1..(Len(Arrived) + 2)
      BY <2>1
    <2> QED BY <2>1, <2>2, ChunksAgree DEF ChunkedInv, ffNetworkingChunkedComplete
  <1> QED BY <1>1, ChunkedIsInv, PTL

(* Decoding in place loses and mixes up nothing, in bodies of any length.   *)
THEOREM InPlaceIsRight == ChunkedSpec => []DecodedRight
  <1>1. ChunkedInv => DecodedRight
    <2> SUFFICES ASSUME ChunkedInv, answer # <<>>
                 PROVE  /\ answer[2] = Payload(body)
                        /\ Last(header) \in Dropped => answer[1] = Append(Kept(header), "Content-Length")
      BY DEF DecodedRight
    <2>1. Agree(Arrived, body, 1)
      BY FirstPartAgrees DEF ChunkedInv, Arrived
    <2>2. Chunks(Arrived)[1].complete = 1 /\ answer[1] = Rebuilt(header) /\ answer[2] = Decode(Arrived)
      BY DEF ChunkedInv, ffNetworkingChunkedComplete
    <2>3. answer[2] = Payload(body)
      BY <2>1, <2>2, DecodeIsPayload
    <2> QED BY <2>2, <2>3, Zenon DEF Rebuilt
  <1> QED BY <1>1, ChunkedIsInv, PTL
-----------------------------------------------------------------------------
(* Bodies that keep to the grammar: first, what is put together lies at its *)
(* place.                                                                   *)
Symbols == STRING \cup Digits \cup {CR, LF}

Joined(f, parts, A) ==
  /\ f \in [0..Len(parts) -> Seq(A)] /\ f[0] = <<>>
  /\ \A k \in 1..Len(parts) : f[k] = f[k - 1] \o parts[k]

(* FlattenSeq joins the parts one by one.                                   *)
LEMMA FlattenIs ==
  ASSUME NEW A, NEW parts \in Seq(Seq(A))
  PROVE  \E f : Joined(f, parts, A) /\ FlattenSeq(parts) = f[Len(parts)]
  <1> DEFINE m == Len(parts)
             V == Seq(A)
             none == <<>>
             G == [k \in 1..m |-> [v \in V |-> v \o parts[k]]]
  <1>1. m \in Nat /\ none \in V /\ \A k \in 1..m : parts[k] \in V
    BY EmptySeq
  <1>2. Within(G, m, V)
    <2>1. \A k \in 1..m, v \in V : v \o parts[k] \in V
      BY <1>1, ConcatProperties
    <2> HIDE DEF m, V
    <2> QED BY <2>1 DEF Within
  <1>3. PICK f \in [0..m -> V] : f[0] = none /\ \A k \in 1..m : f[k] = G[k][f[k - 1]]
    <2> HIDE DEF G, m, V, none
    <2> QED BY <1>1, <1>2, FromTheFront
  <1>4. ASSUME NEW k \in 1..m PROVE f[k] = f[k - 1] \o parts[k]
    <2>1. k - 1 \in 0..m
      BY <1>1
    <2>2. f[k - 1] \in V
      BY <1>3, <2>1
    <2> HIDE DEF m, V
    <2> QED BY <1>3, <2>2
  <1>5. Joined(f, parts, A)
    BY <1>3, <1>4 DEF Joined
  <1>6. CASE m = 0
    <2>1. FlattenSeq(parts) = parts /\ parts = <<>>
      BY <1>6, EmptySeq DEF FlattenSeq
    <2> QED BY <1>3, <1>5, <1>6, <2>1
  <1>7. CASE m # 0
    <2> DEFINE ValueOf(g, i) == IF i = 1 THEN parts[i] ELSE g[i - 1] \o parts[i]
               flatten[i \in 1..m] == IF i = 1 THEN parts[i] ELSE flatten[i - 1] \o parts[i]
               g == [i \in 1..m |-> f[i]]
    <2>1. \A i \in 1..m : g[i] = ValueOf(g, i)
      <3> SUFFICES ASSUME NEW i \in 1..m PROVE g[i] = ValueOf(g, i)
        OBVIOUS
      <3>1. CASE i = 1
        <4>1. f[1] = f[0] \o parts[1] /\ f[0] = <<>> /\ parts[1] \in Seq(A)
          <5>1. 1 \in 1..m /\ 1 - 1 = 0
            BY <3>1
          <5> QED BY <1>1, <1>3, <1>4, <5>1
        <4>2. f[1] = parts[1]
          BY <4>1, ConcatEmptySeq
        <4> QED BY <3>1, <4>2
      <3>2. CASE i # 1
        <4>1. i - 1 \in 1..m
          BY <1>1, <3>2
        <4>2. g[i - 1] = f[i - 1] /\ g[i] = f[i]
          BY <4>1
        <4> HIDE DEF g, m
        <4> QED BY <1>4, <3>2, <4>2
      <3> QED BY <3>1, <3>2
    <2>2. g = [i \in 1..m |-> ValueOf(g, i)]
      <3>1. g = [i \in 1..m |-> g[i]]
        OBVIOUS
      <3> HIDE DEF g, m, ValueOf
      <3> QED BY <2>1, <3>1
    <2>3. flatten = [i \in 1..m |-> ValueOf(flatten, i)]
      <3> HIDE DEF g, m
      <3> QED BY <2>2
    <2>4. FlattenSeq(parts) = flatten[m]
      BY <1>7 DEF FlattenSeq
    <2> HIDE DEF flatten
    <2>5. \A i \in 1..m : flatten[i] = ValueOf(flatten, i)
      BY <2>3
    <2> DEFINE T == {k \in Nat : k + 1 <= m => flatten[k + 1] = f[k + 1]}
    <2>6. Nat \subseteq T
      <3>1. 0 \in T
        <4>1. 1 \in 1..m
          BY <1>1, <1>7
        <4>2. flatten[1] = parts[1] /\ g[1] = f[1] /\ g[1] = parts[1]
          BY <2>1, <2>5, <4>1
        <4> QED BY <4>2
      <3>2. ASSUME NEW k \in Nat, k \in T PROVE k + 1 \in T
        <4> SUFFICES ASSUME k + 1 + 1 <= m PROVE flatten[k + 1 + 1] = f[k + 1 + 1]
          OBVIOUS
        <4>1. k + 1 + 1 \in 1..m /\ k + 1 <= m /\ (k + 1 + 1) - 1 = k + 1 /\ k + 1 + 1 # 1
          BY <1>1
        <4>2. flatten[k + 1] = f[k + 1]
          BY <3>2, <4>1
        <4>3. flatten[k + 1 + 1] = flatten[k + 1] \o parts[k + 1 + 1]
          BY <2>5, <4>1
        <4>4. f[k + 1 + 1] = f[k + 1] \o parts[k + 1 + 1]
          BY <1>4, <4>1
        <4> QED BY <4>2, <4>3, <4>4
      <3> HIDE DEF T
      <3> QED BY <3>1, <3>2, Upward
    <2>7. flatten[m] = f[m]
      <3>1. m - 1 \in Nat /\ (m - 1) + 1 = m
        BY <1>1, <1>7
      <3>2. m - 1 \in T
        BY <2>6, <3>1
      <3> QED BY <3>1, <3>2
    <2> QED BY <1>5, <2>4, <2>7
  <1> QED BY <1>6, <1>7

(* u is in s from p on.                                                     *)
Lies(s, p, u) ==
  /\ p \in Nat \ {0} /\ p + Len(u) <= Len(s) + 1
  /\ \A i \in 1..Len(u) : s[p + i - 1] = u[i]

(* What is joined lies where its parts do.                                  *)
LEMMA LiesJoined ==
  ASSUME NEW A, NEW s \in Seq(A), NEW u \in Seq(A), NEW v \in Seq(A), NEW p
  PROVE  Lies(s, p, u \o v) <=> Lies(s, p, u) /\ Lies(s, p + Len(u), v)
  <1>1. /\ Len(s) \in Nat /\ Len(u) \in Nat /\ Len(v) \in Nat /\ Len(u \o v) = Len(u) + Len(v)
        /\ \A i \in 1..(Len(u) + Len(v)) : (u \o v)[i] = IF i <= Len(u) THEN u[i] ELSE v[i - Len(u)]
    BY ConcatProperties
  <1>2. ASSUME Lies(s, p, u \o v) PROVE Lies(s, p, u) /\ Lies(s, p + Len(u), v)
    <2>1. p \in Nat \ {0} /\ p + Len(u) + Len(v) <= Len(s) + 1
      BY <1>1, <1>2 DEF Lies
    <2>2. ASSUME NEW i \in 1..Len(u) PROVE s[p + i - 1] = u[i]
      <3>1. i \in 1..(Len(u) + Len(v)) /\ i <= Len(u)
        BY <1>1
      <3> QED BY <1>1, <1>2, <3>1 DEF Lies
    <2>3. ASSUME NEW i \in 1..Len(v) PROVE s[p + Len(u) + i - 1] = v[i]
      <3>1. /\ Len(u) + i \in 1..(Len(u) + Len(v)) /\ ~(Len(u) + i <= Len(u)) /\ (Len(u) + i) - Len(u) = i
            /\ p + (Len(u) + i) - 1 = p + Len(u) + i - 1
        BY <1>1, <2>1
      <3>2. s[p + (Len(u) + i) - 1] = (u \o v)[Len(u) + i]
        BY <1>1, <1>2, <3>1 DEF Lies
      <3>3. (u \o v)[Len(u) + i] = v[i]
        BY <1>1, <3>1
      <3> QED BY <3>1, <3>2, <3>3
    <2> QED BY <1>1, <2>1, <2>2, <2>3 DEF Lies
  <1>3. ASSUME Lies(s, p, u), Lies(s, p + Len(u), v) PROVE Lies(s, p, u \o v)
    <2>1. p \in Nat \ {0} /\ p + Len(u \o v) <= Len(s) + 1
      BY <1>1, <1>3 DEF Lies
    <2>2. ASSUME NEW i \in 1..Len(u \o v) PROVE s[p + i - 1] = (u \o v)[i]
      <3>1. i \in 1..(Len(u) + Len(v))
        BY <1>1
      <3>2. CASE i <= Len(u)
        BY <1>1, <1>3, <3>1, <3>2 DEF Lies
      <3>3. CASE ~(i <= Len(u))
        <4>1. i - Len(u) \in 1..Len(v) /\ p + Len(u) + (i - Len(u)) - 1 = p + i - 1
          BY <1>1, <2>1, <3>1, <3>3
        <4>2. s[p + Len(u) + (i - Len(u)) - 1] = v[i - Len(u)]
          BY <1>3, <4>1 DEF Lies
        <4> QED BY <1>1, <3>1, <3>3, <4>1, <4>2
      <3> QED BY <3>2, <3>3
    <2> QED BY <2>1, <2>2 DEF Lies
  <1> QED BY <1>2, <1>3

(* Each part lies behind those in front of it, and the rest behind them all.*)
Assembled(s, f, parts, t, A) ==
  /\ parts \in Seq(Seq(A)) /\ Joined(f, parts, A) /\ t \in Seq(A) /\ s \in Seq(A)
  /\ s = f[Len(parts)] \o t

Laid(s, f, parts, t) ==
  /\ \A k \in 1..Len(parts) : /\ Lies(s, Len(f[k - 1]) + 1, parts[k])
                              /\ Len(f[k]) = Len(f[k - 1]) + Len(parts[k])
  /\ Lies(s, Len(f[Len(parts)]) + 1, t) /\ Len(s) = Len(f[Len(parts)]) + Len(t)

LEMMA PartsLie ==
  ASSUME NEW A, NEW parts, NEW f, NEW t, NEW s, Assembled(s, f, parts, t, A)
  PROVE  Laid(s, f, parts, t)
  <1> USE DEF Assembled
  <1> DEFINE n == Len(parts)
             S == {k \in 1..(n + 1) : Lies(s, 1, f[k - 1])}
  <1>1. n \in Nat /\ n + 1 \in Nat /\ \A k \in 1..n : parts[k] \in Seq(A)
    OBVIOUS
  <1>2. \A k \in 0..n : f[k] \in Seq(A) /\ Len(f[k]) \in Nat
    <2>1. ASSUME NEW k \in 0..n PROVE f[k] \in Seq(A)
      BY DEF Joined
    <2> QED BY <2>1
  <1>3. n \in 0..n
    BY <1>1
  <1>4. Lies(s, 1, s)
    <2>1. Len(s) \in Nat /\ \A i \in 1..Len(s) : 1 + i - 1 = i
      OBVIOUS
    <2> QED BY <2>1 DEF Lies
  <1>5. Lies(s, 1, f[n]) /\ Lies(s, 1 + Len(f[n]), t)
    <2>1. Lies(s, 1, f[n] \o t)
      BY <1>4
    <2>2. f[n] \in Seq(A)
      BY <1>2, <1>3
    <2> HIDE DEF n
    <2> QED BY <2>1, <2>2, LiesJoined
  <1>6. \A k \in 1..n : f[k] = f[k - 1] \o parts[k] /\ k - 1 \in 0..n /\ k \in 0..n
    <2>1. \A k \in 1..n : f[k] = f[k - 1] \o parts[k]
      BY DEF Joined
    <2>2. \A k \in 1..n : k - 1 \in 0..n /\ k \in 0..n
      BY <1>1
    <2> QED BY <2>1, <2>2
  <1>7. ASSUME NEW k \in 1..n, Lies(s, 1, f[k])
        PROVE  Lies(s, 1, f[k - 1]) /\ Lies(s, 1 + Len(f[k - 1]), parts[k])
    <2>1. f[k - 1] \in Seq(A) /\ parts[k] \in Seq(A) /\ Lies(s, 1, f[k - 1] \o parts[k])
      BY <1>1, <1>2, <1>6, <1>7
    <2> QED BY <2>1, LiesJoined
  <1>8. \A k \in 1..(n + 1) : k \in S
    <2>1. ASSUME NEW k \in 1..(n + 1), \A q \in (k + 1)..(n + 1) : q \in S PROVE k \in S
      <3>1. CASE k = n + 1
        <4>1. k - 1 = n
          BY <1>1, <3>1
        <4> QED BY <1>5, <4>1
      <3>2. CASE k # n + 1
        <4>1. k \in 1..n /\ k + 1 \in (k + 1)..(n + 1) /\ (k + 1) - 1 = k
          BY <1>1, <3>2
        <4>2. Lies(s, 1, f[k])
          BY <2>1, <4>1
        <4>3. Lies(s, 1, f[k - 1])
          BY <1>7, <4>1, <4>2
        <4> QED BY <4>3
      <3> QED BY <3>1, <3>2
    <2> HIDE DEF S, n
    <2> QED BY <1>1, <2>1, Downward
  <1>9. ASSUME NEW k \in 1..n
        PROVE  Lies(s, Len(f[k - 1]) + 1, parts[k]) /\ Len(f[k]) = Len(f[k - 1]) + Len(parts[k])
    <2>1. k + 1 \in 1..(n + 1) /\ (k + 1) - 1 = k
      BY <1>1
    <2>2. Lies(s, 1, f[k])
      BY <1>8, <2>1
    <2>3. Lies(s, 1 + Len(f[k - 1]), parts[k])
      BY <1>7, <2>2
    <2>4. 1 + Len(f[k - 1]) = Len(f[k - 1]) + 1
      BY <1>2, <1>6
    <2>5. Len(f[k]) = Len(f[k - 1]) + Len(parts[k])
      <3>1. f[k - 1] \in Seq(A) /\ parts[k] \in Seq(A) /\ f[k] = f[k - 1] \o parts[k]
        BY <1>1, <1>2, <1>6
      <3> QED BY <3>1, ConcatProperties
    <2> QED BY <2>3, <2>4, <2>5
  <1>10. 1 + Len(f[n]) = Len(f[n]) + 1 /\ Len(s) = Len(f[n]) + Len(t)
    BY <1>2, <1>3, ConcatProperties
  <1> QED BY <1>5, <1>9, <1>10 DEF Laid

(* The symbols that the parser looks for are told apart.                    *)
LEMMA SymbolsDiffer ==
  /\ CR # LF /\ CR \notin Digits /\ CR # "x" /\ ";" \notin Digits /\ ";" # "x"
  /\ "x" \notin Digits /\ HexDigits["0"] = 0 /\ LF \notin Digits
  BY DEF CR, LF, Digits, HexDigits

(* No digits are 0, and so is the one.                                      *)
LEMMA NothingIsZero == Number(<<>>) = 0 /\ Number(<<"0">>) = 0
  <1>1. Number(<<>>) = 0
    <2> DEFINE d == <<>>
    <2>1. d \in Seq(Digits) /\ Len(d) = 0
      BY EmptySeq
    <2> HIDE DEF d
    <2>2. PICK v : AreValues(v, d)
      BY <2>1, NumberIs
    <2> QED BY <2>1, <2>2 DEF d, AreValues
  <1>2. Number(<<"0">>) = 0
    <2> DEFINE d == <<"0">>
    <2>1. d \in Seq(Digits) /\ Len(d) = 1 /\ d[1] = "0"
      BY DEF Digits
    <2> HIDE DEF d
    <2>2. PICK v : AreValues(v, d)
      BY <2>1, NumberIs
    <2>3. v[1] = 16 * v[1 - 1] + HexDigits["0"] /\ v[0] = 0 /\ Number(d) = v[1]
      BY <2>1, <2>2 DEF AreValues
    <2>4. 1 - 1 = 0 /\ 16 * 0 + 0 = 0
      OBVIOUS
    <2>5. v[1] = 0
      BY <2>3, <2>4, SymbolsDiffer
    <2> QED BY <2>3, <2>5 DEF d
  <1> QED BY <1>1, <1>2

(* Digits, behind which is something else, are read as their number.        *)
LEMMA DigitsRead ==
  ASSUME NEW s \in Text, NEW p, NEW d \in Seq(Digits), d # <<>>, Lies(s, p, d),
         p + Len(d) <= Len(s), s[p + Len(d)] \notin Digits, s[p + Len(d)] # "x"
  PROVE  p \in 1..Len(s) /\ IsHex(s, p) /\ strtoul(s, p) = Number(d)
  <1> DEFINE q == p + Len(d)
  <1>1. /\ Len(s) \in Nat /\ Len(d) \in Nat /\ Len(d) # 0 /\ p \in 1..Len(s) /\ q \in 1..Len(s) /\ p < q
        /\ q <= Len(s)
    <2>1. Len(s) \in Nat /\ Len(d) \in Nat /\ Len(d) # 0
      BY EmptySeq DEF Text
    <2> QED BY <2>1 DEF Lies
  <1>2. \A i \in p..(q - 1) : s[i] \in Digits /\ s[i] = d[i - p + 1] /\ IsHex(s, i) /\ i \in 1..Len(s)
    <2> SUFFICES ASSUME NEW i \in p..(q - 1)
                 PROVE  s[i] \in Digits /\ s[i] = d[i - p + 1] /\ IsHex(s, i) /\ i \in 1..Len(s)
      OBVIOUS
    <2>1. i - p + 1 \in 1..Len(d) /\ p + (i - p + 1) - 1 = i /\ i \in 1..Len(s)
      BY <1>1
    <2>2. s[p + (i - p + 1) - 1] = d[i - p + 1]
      BY <2>1 DEF Lies
    <2>3. d[i - p + 1] \in Digits
      BY <2>1
    <2> QED BY <1>1, <2>1, <2>2, <2>3, DigitsKnown DEF IsHex
  <1>3. ~IsHex(s, q) /\ s[q] # "x"
    BY DigitsKnown DEF IsHex
  <1> HIDE DEF q
  <1>4. IsHex(s, p)
    BY <1>1, <1>2
  <1>5. First(s, p) = p
    <2> SUFFICES ASSUME s[p + 1] = "x" PROVE FALSE
      BY DEF First
    <2>1. CASE p + 1 = q
      BY <1>3, <2>1
    <2>2. CASE p + 1 # q
      <3>1. p + 1 \in p..(q - 1)
        BY <1>1, <2>2
      <3> QED BY <1>2, <3>1, SymbolsDiffer
    <2> QED BY <2>1, <2>2
  <1>6. IsEnd(s, p, q)
    BY <1>1, <1>2, <1>3 DEF IsEnd
  <1>7. DigitsEnd(s, p) = q
    <2>1. p \in 1..(Len(s) + 1)
      BY <1>1
    <2> QED BY <1>6, <2>1, EndFound
  <1>8. SubSeq(s, p, q - 1) = d
    <2> DEFINE l == q - 1  u == SubSeq(s, p, l)
    <2>1. /\ u \in Seq(Digits) /\ Len(u) = IF p <= l THEN l - p + 1 ELSE 0
          /\ \A i \in 1..(l - p + 1) : u[i] = s[p + i - 1]
      <3>1. p \in Int /\ l \in Int /\ \A i \in p..l : s[i] \in Digits
        BY <1>1, <1>2
      <3> HIDE DEF l
      <3> QED BY <3>1, SubSeqProperties
    <2>2. p <= l /\ l - p + 1 = Len(d)
      BY <1>1 DEF q
    <2> HIDE DEF u, l
    <2>3. \A i \in 1..Len(d) : s[p + i - 1] = d[i]
      BY DEF Lies
    <2>4. Len(u) = Len(d) /\ \A i \in 1..Len(u) : u[i] = d[i]
      BY <2>1, <2>2, <2>3
    <2>5. u = d
      BY <2>1, <2>4, SeqEqual
    <2> QED BY <2>5 DEF u, l
  <1> QED BY <1>1, <1>4, <1>5, <1>7, <1>8, strtoulFacts

(* The length of what is joined.                                            *)
LEMMA JoinedLength ==
  ASSUME NEW A, NEW u \in Seq(A), NEW v \in Seq(A)
  PROVE  u \o v \in Seq(A) /\ Len(u \o v) = Len(u) + Len(v)
  BY ConcatProperties

(* The size line of a chunk, its data and the CRLF behind them are found.   *)
LEMMA ChunkRead ==
  ASSUME NEW s \in Text, NEW p, NEW c \in ChunkTexts, IsChunk(c), Lies(s, p, Chunk(c))
  PROVE  /\ Passed(s, p) /\ ~LastData(s, p) /\ Behind(s, p) = p + Len(Chunk(c))
         /\ DataAt(s, p) = c.data /\ p \in 1..Len(s)
  <1> DEFINE sizes == Len(c.size)
             exts == Len(c.ext)
             size == Len(c.data)
             m == Len(s)
             a == p + sizes
             b == a + exts
             q == b + 2
             r == q + size
             A == Symbols
  <1>1. c.size \in Seq(A) /\ c.ext \in Seq(A) /\ c.data \in Seq(A) /\ Crlf \in Seq(A) /\ s \in Seq(A)
    <2>1. c.size \in Seq(Digits) /\ c.ext \in Seq(STRING) /\ c.data \in Seq(STRING)
      BY DigitsKnown DEF ChunkTexts
    <2>2. Digits \subseteq A /\ STRING \subseteq A /\ CR \in A /\ LF \in A
      BY DEF Symbols
    <2> HIDE DEF A
    <2>3. \A S, t : S \subseteq A /\ t \in Seq(S) => t \in Seq(A)
      OBVIOUS
    <2>4. <<CR, LF>> \in Seq(A)
      BY <2>2
    <2> QED BY <2>1, <2>2, <2>3, <2>4, Zenon DEF Text, Crlf
  <1>2. sizes \in Nat /\ exts \in Nat /\ size \in Nat /\ m \in Nat /\ Len(Crlf) = 2 /\ p \in Nat /\ p >= 1
    BY <1>1 DEF Crlf, Lies
  <1> HIDE DEF A, sizes, exts, size, m
  <1>3. /\ Lies(s, p, c.size) /\ Lies(s, a, c.ext) /\ Lies(s, b, Crlf)
        /\ Lies(s, q, c.data) /\ Lies(s, r, Crlf) /\ p + Len(Chunk(c)) = r + 2
    <2> DEFINE u == c.size \o c.ext
               v == u \o Crlf
               w == v \o c.data
    <2>1. u \in Seq(A) /\ Len(u) = sizes + exts
      BY <1>1, ConcatProperties DEF sizes, exts
    <2>2. v \in Seq(A) /\ Len(v) = sizes + exts + 2
      <3> HIDE DEF u
      <3>1. v \in Seq(A) /\ Len(v) = Len(u) + Len(Crlf)
        BY <1>1, <2>1, JoinedLength, Zenon
      <3> QED BY <1>2, <2>1, <3>1, Zenon
    <2>3. w \in Seq(A) /\ Len(w) = sizes + exts + 2 + size
      <3> HIDE DEF v
      <3>1. w \in Seq(A) /\ Len(w) = Len(v) + Len(c.data)
        BY <1>1, <2>2, JoinedLength, Zenon
      <3> QED BY <2>2, <3>1, Zenon DEF size
    <2>4. Chunk(c) = w \o Crlf
      BY DEF Chunk
    <2>5. Len(Chunk(c)) = sizes + exts + 2 + size + 2
      <3> HIDE DEF w
      <3>1. Len(Chunk(c)) = Len(w) + Len(Crlf)
        BY <1>1, <2>3, <2>4, JoinedLength, Zenon
      <3> QED BY <1>2, <2>3, <3>1, Zenon
    <2>6. Lies(s, p, w) /\ Lies(s, p + Len(w), Crlf)
      <3> HIDE DEF w
      <3> QED BY <1>1, <2>3, <2>4, LiesJoined
    <2>7. Lies(s, p, v) /\ Lies(s, p + Len(v), c.data)
      <3> HIDE DEF v
      <3> QED BY <1>1, <2>2, <2>6, LiesJoined
    <2>8. Lies(s, p, u) /\ Lies(s, p + Len(u), Crlf)
      <3> HIDE DEF u
      <3> QED BY <1>1, <2>1, <2>7, LiesJoined
    <2>9. Lies(s, p, c.size) /\ Lies(s, p + sizes, c.ext)
      BY <1>1, <2>8, LiesJoined DEF sizes
    <2> DEFINE lu == Len(u)  lv == Len(v)  lw == Len(w)  l == Len(Chunk(c))
    <2> HIDE DEF u, v, w, lu, lv, lw, l
    <2>10. /\ lu = sizes + exts /\ lv = sizes + exts + 2 /\ lw = sizes + exts + 2 + size
           /\ l = sizes + exts + 2 + size + 2
      BY <2>1, <2>2, <2>3, <2>5, Zenon DEF lu, lv, lw, l
    <2>11. p + lu = b /\ p + lv = q /\ p + lw = r /\ p + l = r + 2
      BY <1>2, <2>10
    <2> QED BY <2>6, <2>7, <2>8, <2>9, <2>11, Zenon DEF lu, lv, lw, l
  <1>4. /\ p \in Nat /\ a \in Nat /\ b \in Nat /\ q \in Nat /\ r \in Nat /\ r + 1 <= m
        /\ p <= a /\ a <= b /\ q = b + 2 /\ p >= 1 /\ q <= r
    <2>1. r + Len(Crlf) <= m + 1
      BY <1>3, Zenon DEF Lies, m
    <2>2. r + 2 <= m + 1
      BY <1>2, <2>1
    <2> QED BY <1>2, <2>2
  <1>5. s[b] = CR /\ s[b + 1] = LF /\ s[r] = CR /\ s[r + 1] = LF
    <2>1. \A o : Lies(s, o, Crlf) => s[o + 1 - 1] = CR /\ s[o + 2 - 1] = LF
      BY <1>2 DEF Lies, Crlf
    <2>2. b + 1 - 1 = b /\ b + 2 - 1 = b + 1 /\ r + 1 - 1 = r /\ r + 2 - 1 = r + 1
      BY <1>4
    <2> QED BY <1>3, <2>1, <2>2
  <1>6. s[a] \notin Digits /\ s[a] # "x"
    <2>1. CASE c.ext = <<>>
      <3>1. exts = 0
        BY <2>1, EmptySeq DEF exts
      <3>2. a = b
        BY <1>2, <3>1
      <3> QED BY <1>5, <3>2, SymbolsDiffer
    <2>2. CASE c.ext # <<>>
      <3>1. 1 \in 1..Len(c.ext) /\ a + 1 - 1 = a
        <4>1. exts # 0
          BY <1>1, <2>2, EmptySeq DEF exts
        <4>2. 1 \in 1..exts /\ a + 1 - 1 = a
          BY <1>2, <4>1
        <4> QED BY <4>2 DEF exts
      <3>2. s[a + 1 - 1] = c.ext[1]
        BY <1>3, <3>1 DEF Lies
      <3>3. c.ext[1] = ";"
        BY <2>2 DEF IsChunk
      <3> QED BY <3>1, <3>2, <3>3, SymbolsDiffer
    <2> QED BY <2>1, <2>2
  <1>7. c.size \in Seq(Digits) /\ c.size # <<>>
    <2>1. c.size \in Seq(Digits)
      BY DigitsKnown DEF ChunkTexts
    <2>2. c.size # <<>>
      <3> SUFFICES ASSUME c.size = <<>> PROVE FALSE
        OBVIOUS
      <3>1. Number(<<>>) = 0
        BY NothingIsZero
      <3>2. Len(c.data) # 0
        BY <1>1, EmptySeq DEF IsChunk
      <3> QED BY <3>1, <3>2 DEF IsChunk
    <2> QED BY <2>1, <2>2
  <1>8. p \in 1..m /\ IsHex(s, p) /\ strtoul(s, p) = size /\ size # 0
    <2>1. a <= m
      BY <1>2, <1>4
    <2>2. p \in 1..m /\ IsHex(s, p) /\ strtoul(s, p) = Number(c.size)
      BY <1>3, <1>6, <1>7, <2>1, DigitsRead DEF sizes, m
    <2>3. size # 0
      BY <1>1, EmptySeq DEF IsChunk, size
    <2> QED BY <2>2, <2>3 DEF IsChunk, size
  <1>9. Eol(s, p) = b + 1
    <2>1. ASSUME NEW i \in p..b PROVE s[i] # LF
      <3>1. CASE i < a
        <4>1. i - p + 1 \in 1..sizes /\ p + (i - p + 1) - 1 = i
          BY <1>2, <1>4, <3>1
        <4>2. s[p + (i - p + 1) - 1] = c.size[i - p + 1]
          BY <1>3, <4>1 DEF Lies, sizes
        <4>3. c.size[i - p + 1] \in Digits
          BY <1>7, <4>1 DEF sizes
        <4> QED BY <4>1, <4>2, <4>3, SymbolsDiffer
      <3>2. CASE ~(i < a) /\ i < b
        <4>1. i - a + 1 \in 1..exts /\ a + (i - a + 1) - 1 = i
          BY <1>2, <1>4, <3>2
        <4>2. s[a + (i - a + 1) - 1] = c.ext[i - a + 1]
          BY <1>3, <4>1 DEF Lies, exts
        <4>3. DOMAIN c.ext = 1..exts
          BY <1>1 DEF exts
        <4>4. c.ext[i - a + 1] # LF
          BY <4>1, <4>3 DEF IsChunk
        <4> QED BY <4>1, <4>2, <4>4
      <3>3. CASE i = b
        BY <1>5, <3>3, SymbolsDiffer
      <3> HIDE DEF a, b
      <3> QED BY <1>4, <3>1, <3>2, <3>3
    <2> HIDE DEF a, b, q, r
    <2>2. b + 1 \in p..(m + 1) /\ p \in 1..(m + 1) /\ (b + 1) - 1 = b
      <3>1. b + 4 + size <= m + 1
        BY <1>2, <1>4 DEF q, r
      <3> QED BY <1>2, <1>4, <3>1
    <2>3. IsEol(s, p, b + 1)
      BY <1>5, <2>1, <2>2 DEF IsEol, m
    <2> QED BY <2>2, <2>3, EolFound DEF m
  <1>10. Data(s, p) = q /\ Data(s, p) + strtoul(s, p) = r /\ Behind(s, p) = r + 2
    BY <1>4, <1>8, <1>9 DEF Data, Behind
  <1>11. Passed(s, p)
    <2>1. p <= m /\ b + 1 <= m
      BY <1>2, <1>4, <1>8
    <2>2. HasLine(s, p)
      BY <1>9, <2>1, Zenon DEF HasLine, m
    <2>3. HasData(s, p)
      BY <1>4, <1>10, Zenon DEF HasData, m
    <2>4. HasCrlf(s, p)
      BY <1>5, <1>10, Zenon DEF HasCrlf
    <2> QED BY <1>8, <2>2, <2>3, <2>4 DEF Passed
  <1>12. ~LastData(s, p)
    <2>1. ~(p > m) /\ ~(b + 1 + size + 2 > m)
      BY <1>2, <1>4, <1>8
    <2> QED BY <1>8, <1>9, <2>1, Zenon DEF LastData, m
  <1>13. DataAt(s, p) = c.data
    <2> DEFINE l == Eol(s, p) + strtoul(s, p)  k == Eol(s, p) + 1  u == SubSeq(s, k, l)
    <2>1. k = q /\ l = r - 1
      <3>1. k = b + 1 + 1 /\ l = b + 1 + size
        BY <1>8, <1>9, Zenon
      <3> HIDE DEF k, l
      <3> QED BY <1>2, <1>4, <3>1
    <2>2. /\ u \in Seq(A) /\ Len(u) = IF k <= l THEN l - k + 1 ELSE 0
          /\ \A i \in 1..(l - k + 1) : u[i] = s[k + i - 1]
      <3> HIDE DEF k, l
      <3>1. k \in Int /\ l \in Int
        BY <1>4, <2>1
      <3>2. \A i \in k..l : i \in 1..m
        BY <1>2, <1>4, <2>1
      <3>3. \A i \in k..l : s[i] \in A
        BY <1>1, <3>2 DEF m
      <3> QED BY <3>1, <3>3, SubSeqProperties
    <2>3. k <= l /\ l - k + 1 = size
      <3> HIDE DEF k, l
      <3> QED BY <1>2, <1>4, <1>8, <2>1
    <2>4. \A i \in 1..Len(c.data) : s[k + i - 1] = c.data[i]
      <3> HIDE DEF k, q
      <3> QED BY <1>3, <2>1 DEF Lies
    <2> HIDE DEF u, k, l
    <2>5. Len(u) = size /\ \A i \in 1..Len(u) : u[i] = c.data[i]
      BY <2>2, <2>3, <2>4 DEF size
    <2>6. u = c.data
      BY <1>1, <2>2, <2>5, SeqEqual DEF size
    <2> QED BY <2>6 DEF DataAt, u, k, l
  <1> QED BY <1>3, <1>8, <1>10, <1>11, <1>12, <1>13 DEF m

(* A trailer section is read to the empty line behind it: by induction from *)
(* its end, over the places where a line begins.                            *)
LEMMA TrailerRead ==
  ASSUME NEW s \in Text, NEW r, NEW t \in Seq(STRING), IsTrailer(t), Lies(s, r, t),
         Lies(s, r + Len(t), Crlf), Len(s) = r + Len(t) + 1
  PROVE  Lines(s)[r] = Whole(Len(s))
  <1> DEFINE m == Len(s)
             n == Len(t)
             Begins(p) == p = r \/ (p > r /\ s[p - 1] = LF)
             S == {p \in 1..m : p >= r /\ p <= m - 1 /\ Begins(p) => Lines(s)[p] = Whole(m)}
  <1>1. m \in Nat /\ n \in Nat /\ r \in Nat /\ r >= 1 /\ m = r + n + 1
    BY DEF Lies, Text
  <1>2. s[m - 1] = CR /\ s[m] = LF
    <2>1. Len(Crlf) = 2 /\ Crlf[1] = CR /\ Crlf[2] = LF
      BY DEF Crlf
    <2>2. s[r + n + 1 - 1] = CR /\ s[r + n + 2 - 1] = LF
      BY <2>1 DEF Lies
    <2>3. r + n + 1 - 1 = m - 1 /\ r + n + 2 - 1 = m
      BY <1>1
    <2> QED BY <2>2, <2>3
  <1>3. \A i \in 1..n : s[r + i - 1] = t[i]
    BY DEF Lies
  <1>4. \A i \in 1..n : t[i] = LF => i > 2 /\ t[i - 1] = CR /\ t[i - 2] # LF
    <2>1. DOMAIN t = 1..n
      OBVIOUS
    <2> QED BY <2>1, Zenon DEF IsTrailer
  <1>5. n # 0 => t[n] = LF
    BY EmptySeq DEF IsTrailer
  <1> HIDE DEF m, n
  <1>6. ASSUME NEW i \in r..(m - 2), s[i] = LF
        PROVE  i - 2 >= r /\ s[i - 1] = CR /\ s[i - 2] # LF
    <2> DEFINE j == i - r + 1
    <2>1. j \in 1..n /\ r + j - 1 = i
      BY <1>1
    <2>2. t[j] = LF
      BY <1>3, <1>6, <2>1
    <2>3. j > 2 /\ t[j - 1] = CR /\ t[j - 2] # LF
      BY <1>4, <2>1, <2>2
    <2>4. /\ j - 1 \in 1..n /\ j - 2 \in 1..n /\ i - 2 >= r
          /\ r + (j - 1) - 1 = i - 1 /\ r + (j - 2) - 1 = i - 2
      BY <1>1, <2>1, <2>3
    <2> HIDE DEF j
    <2>5. s[r + (j - 1) - 1] = t[j - 1] /\ s[r + (j - 2) - 1] = t[j - 2]
      BY <1>3, <2>4
    <2> QED BY <2>3, <2>4, <2>5
  <1>7. ASSUME NEW p \in 1..m, \A q \in (p + 1)..m : q \in S PROVE p \in S
    <2> SUFFICES ASSUME p >= r, p <= m - 1, Begins(p) PROVE Lines(s)[p] = Whole(m)
      OBVIOUS
    <2> DEFINE e == Eol(s, p)
    <2>1. p \in 1..(m + 2) /\ p \in 1..(m + 1) /\ p \in Nat
      BY <1>1
    <2>2. IsEol(s, p, e)
      BY <2>1, EolFound DEF m
    <2> HIDE DEF e
    <2>3. e \in p..m /\ s[e] = LF
      <3>1. e \in p..(m + 1) /\ (e = m + 1 \/ s[e] = LF) /\ \A i \in p..(e - 1) : s[i] # LF
        BY <2>2 DEF IsEol, m
      <3>2. e # m + 1
        <4> SUFFICES ASSUME e = m + 1 PROVE FALSE
          OBVIOUS
        <4>1. m \in p..(e - 1)
          BY <1>1
        <4> QED BY <1>2, <3>1, <4>1
      <3> QED BY <1>1, <3>1, <3>2
    <2>4. \A i \in p..(e - 1) : s[i] # LF
      BY <2>2 DEF IsEol
    <2>5. ~(p > m \/ e > m)
      BY <1>1, <2>3
    <2>6. Lines(s)[p] = IF e = p \/ (e = p + 1 /\ s[p] = CR) THEN Whole(e) ELSE Lines(s)[e + 1]
      BY <2>1, <2>5, LinesAre DEF e, m
    <2>7. e # m - 1
      BY <1>2, <2>3, SymbolsDiffer
    <2>8. CASE e = m
      <3>1. p = m - 1
        <4> SUFFICES ASSUME p # m - 1 PROVE FALSE
          OBVIOUS
        <4>1. m - 2 \in p..(e - 1) /\ n # 0 /\ n \in 1..n /\ r + n - 1 = m - 2
          BY <1>1, <2>1, <2>8
        <4>2. s[m - 2] = LF
          BY <1>3, <1>5, <4>1
        <4> QED BY <2>4, <4>1, <4>2
      <3>2. e = p + 1 /\ s[p] = CR
        BY <1>1, <1>2, <2>8, <3>1
      <3> QED BY <2>6, <2>8, <3>2
    <2>9. CASE e # m
      <3>1. e \in r..(m - 2)
        BY <1>1, <2>1, <2>3, <2>7, <2>9
      <3>2. e - 2 >= r /\ s[e - 1] = CR /\ s[e - 2] # LF
        BY <1>6, <2>3, <3>1
      <3>3. p # e
        <4> SUFFICES ASSUME p = e PROVE FALSE
          OBVIOUS
        <4>1. p > r /\ p - 1 = e - 1
          BY <1>1, <3>1, <3>2
        <4>2. s[e - 1] = LF
          BY <1>1, <4>1
        <4> QED BY <3>2, <4>2, SymbolsDiffer
      <3>4. p # e - 1
        <4> SUFFICES ASSUME p = e - 1 PROVE FALSE
          OBVIOUS
        <4>1. p > r /\ p - 1 = e - 2
          BY <1>1, <3>1, <3>2
        <4> QED BY <1>1, <3>2, <4>1
      <3>5. ~(e = p \/ (e = p + 1 /\ s[p] = CR))
        BY <2>1, <2>3, <3>3, <3>4
      <3>6. e + 1 \in (p + 1)..m /\ e + 1 \in 1..m /\ e + 1 >= r /\ e + 1 <= m - 1 /\ (e + 1) - 1 = e /\ e + 1 > r
        BY <1>1, <2>1, <2>3, <3>1
      <3>7. Lines(s)[e + 1] = Whole(m)
        BY <1>7, <2>3, <3>6
      <3> QED BY <2>6, <3>5, <3>7
    <2> QED BY <2>8, <2>9
  <1> HIDE DEF S
  <1>8. \A p \in 1..m : p \in S
    BY <1>1, <1>7, Downward
  <1>9. r \in 1..m /\ r <= m - 1
    BY <1>1
  <1>10. Lines(s)[r] = Whole(m)
    BY <1>1, <1>8, <1>9 DEF S
  <1> QED BY <1>10 DEF m

(* The last chunk and what follows it end the body.                         *)
LEMMA EndingRead ==
  ASSUME NEW s \in Text, NEW p, NEW t \in Seq(STRING), IsTrailer(t),
         Lies(s, p, Ending(t)), Len(s) + 1 = p + Len(Ending(t))
  PROVE  /\ Chunks(s)[p] = Whole(Len(s)) /\ DataFrom(s)[p] = <<>>
         /\ p \in 1..Len(s)
  <1> DEFINE zero == <<"0">>
             u == zero \o Crlf
             v == u \o t
             A == Symbols
             m == Len(s)
             n == Len(t)
  <1>1. zero \in Seq(A) /\ Crlf \in Seq(A) /\ t \in Seq(A) /\ s \in Seq(A)
    <2>1. STRING \subseteq A /\ CR \in A /\ LF \in A /\ "0" \in A
      BY DEF Symbols, Digits
    <2> HIDE DEF A
    <2>2. \A S, w : S \subseteq A /\ w \in Seq(S) => w \in Seq(A)
      OBVIOUS
    <2>3. <<CR, LF>> \in Seq(A) /\ <<"0">> \in Seq(A)
      BY <2>1
    <2> QED BY <2>1, <2>2, <2>3, Zenon DEF Text, Crlf
  <1>2. Len(zero) = 1 /\ zero[1] = "0" /\ Len(Crlf) = 2 /\ Crlf[1] = CR /\ Crlf[2] = LF
    BY DEF Crlf
  <1>3. m \in Nat /\ n \in Nat /\ p \in Nat /\ p >= 1
    BY DEF Text, Lies
  <1>4. zero \in Seq(Digits) /\ zero # <<>> /\ Number(zero) = 0
    BY NothingIsZero DEF Digits
  <1> HIDE DEF A, zero
  <1>5. u \in Seq(A) /\ Len(u) = 3
    <2>1. u \in Seq(A) /\ Len(u) = Len(zero) + Len(Crlf)
      BY <1>1, JoinedLength, Zenon
    <2> HIDE DEF u
    <2> QED BY <1>2, <2>1
  <1>6. v \in Seq(A) /\ Len(v) = 3 + n
    <2> HIDE DEF u
    <2>1. v \in Seq(A) /\ Len(v) = Len(u) + Len(t)
      BY <1>1, <1>5, JoinedLength, Zenon
    <2> QED BY <1>5, <2>1, Zenon
  <1>7. Ending(t) = v \o Crlf /\ Len(Ending(t)) = 3 + n + 2
    <2>1. Ending(t) = v \o Crlf
      BY DEF Ending, zero
    <2> HIDE DEF v
    <2>2. Len(v \o Crlf) = Len(v) + Len(Crlf)
      BY <1>1, <1>6, JoinedLength, Zenon
    <2> QED BY <1>2, <1>6, <2>1, <2>2, Zenon
  <1>8. Lies(s, p, v) /\ Lies(s, p + (3 + n), Crlf)
    <2> HIDE DEF v
    <2>1. Lies(s, p, v \o Crlf)
      BY <1>7, Zenon
    <2>2. Lies(s, p, v) /\ Lies(s, p + Len(v), Crlf)
      BY <1>1, <1>6, <2>1, LiesJoined, Zenon
    <2> QED BY <1>6, <2>2, Zenon
  <1>9. Lies(s, p, u) /\ Lies(s, p + 3, t)
    <2> HIDE DEF u
    <2> QED BY <1>1, <1>5, <1>8, LiesJoined, Zenon
  <1>10. Lies(s, p, zero) /\ Lies(s, p + 1, Crlf)
    BY <1>1, <1>2, <1>9, LiesJoined, Zenon
  <1> HIDE DEF u, v
  <1>11. m + 1 = p + (3 + n + 2)
    BY <1>7, Zenon
  <1> HIDE DEF m, n
  <1>12. /\ p + 2 <= m /\ p + 1 \in Nat /\ p + 1 <= m /\ p + (3 + n) = (p + 3) + n
         /\ m = (p + 3) + n + 1 /\ p + 1 + 1 - 1 = p + 1 /\ p + 1 + 2 - 1 = p + 2 /\ p \in 1..m
    BY <1>3, <1>11
  <1>13. s[p + 1] = CR /\ s[p + 2] = LF
    <2>1. s[p + 1 + 1 - 1] = CR /\ s[p + 1 + 2 - 1] = LF
      BY <1>2, <1>10 DEF Lies
    <2> QED BY <1>12, <2>1
  <1>14. IsHex(s, p) /\ strtoul(s, p) = 0
    BY <1>2, <1>4, <1>10, <1>12, <1>13, SymbolsDiffer, DigitsRead DEF m
  <1>15. Eol(s, p) = p + 2
    <2>1. s[p] = "0"
      <3>1. p + 1 - 1 = p /\ 1 \in 1..1
        BY <1>3
      <3>2. s[p + 1 - 1] = "0"
        BY <1>2, <1>10, <3>1 DEF Lies
      <3> QED BY <3>1, <3>2
    <2>2. s[p] # LF
      BY <2>1 DEF LF
    <2>3. \A i \in p..((p + 2) - 1) : i = p \/ i = p + 1
      BY <1>3
    <2>4. \A i \in p..((p + 2) - 1) : s[i] # LF
      BY <1>13, <2>2, <2>3, SymbolsDiffer
    <2>5. p + 2 \in p..(m + 1) /\ p \in 1..(m + 1)
      BY <1>3, <1>12
    <2>6. IsEol(s, p, p + 2)
      BY <1>13, <2>4, <2>5 DEF IsEol, m
    <2> QED BY <2>5, <2>6, EolFound DEF m
  <1>16. p \in 1..(m + 2) /\ Data(s, p) = p + 3
    <2>1. p \in 1..(m + 2) /\ (p + 2) + 1 = p + 3
      BY <1>3, <1>12
    <2> QED BY <1>15, <2>1 DEF Data
  <1>17. HasLine(s, p)
    BY <1>12, <1>15 DEF HasLine, m
  <1>18. Chunks(s)[p] = Lines(s)[p + 3]
    BY <1>14, <1>16, <1>17, ChunksAre DEF Passed, AtEnd, m
  <1>19. Lines(s)[p + 3] = Whole(Len(s))
    <2>1. Lies(s, (p + 3) + Len(t), Crlf) /\ Len(s) = (p + 3) + Len(t) + 1
      BY <1>8, <1>12, Zenon DEF m, n
    <2> QED BY <1>9, <2>1, TrailerRead
  <1>20. DataFrom(s)[p] = <<>>
    BY <1>14, <1>16, DataFromIs DEF LastData, m
  <1> QED BY <1>12, <1>18, <1>19, <1>20 DEF m

(* The whole of what was encoded is complete at its end, and its data are   *)
(* those that were given: by induction over the chunks.                     *)
LEMMA EncodedRead ==
  ASSUME NEW e \in Encodings, NEW s \in Text, s = Encode(e)
  PROVE  /\ Chunks(s)[1] = Whole(Len(s)) /\ Len(s) # 0
         /\ Payload(s) = FlattenSeq([i \in 1..Len(e.chunks) |-> e.chunks[i].data])
  <1> DEFINE n == Len(e.chunks)
             A == Symbols
             parts == [i \in 1..n |-> Chunk(e.chunks[i])]
             data == [i \in 1..n |-> e.chunks[i].data]
             end == Ending(e.trailer)
  <1>1. /\ e.chunks \in Seq(ChunkTexts) /\ \A i \in DOMAIN e.chunks : IsChunk(e.chunks[i])
        /\ e.trailer \in Seq(STRING) /\ IsTrailer(e.trailer)
    BY EncodingsAssumption
  <1>2. n \in Nat /\ \A i \in 1..n : e.chunks[i] \in ChunkTexts /\ IsChunk(e.chunks[i])
    <2>1. DOMAIN e.chunks = 1..n
      BY <1>1
    <2> QED BY <1>1, <2>1
  <1>3. STRING \subseteq A /\ Digits \subseteq A /\ CR \in A /\ LF \in A /\ "0" \in A
    BY DEF Symbols, Digits
  <1> HIDE DEF A
  <1>4. \A S, w : S \subseteq A /\ w \in Seq(S) => w \in Seq(A)
    OBVIOUS
  <1>5. Crlf \in Seq(A) /\ <<"0">> \in Seq(A)
    BY <1>3 DEF Crlf
  <1>6. end \in Seq(A)
    <2>1. e.trailer \in Seq(A)
      BY <1>1, <1>3, <1>4, Zenon
    <2>2. <<"0">> \o Crlf \in Seq(A)
      BY <1>5, JoinedLength, Zenon
    <2>3. (<<"0">> \o Crlf) \o e.trailer \in Seq(A)
      BY <2>1, <2>2, JoinedLength, Zenon
    <2>4. ((<<"0">> \o Crlf) \o e.trailer) \o Crlf \in Seq(A)
      BY <1>5, <2>3, JoinedLength, Zenon
    <2> QED BY <2>4 DEF Ending
  <1>7. \A i \in 1..n : Chunk(e.chunks[i]) \in Seq(A) /\ e.chunks[i].data \in Seq(STRING)
    <2> SUFFICES ASSUME NEW i \in 1..n
                 PROVE  Chunk(e.chunks[i]) \in Seq(A) /\ e.chunks[i].data \in Seq(STRING)
      OBVIOUS
    <2> DEFINE c == e.chunks[i]
    <2>1. c \in ChunkTexts
      BY <1>2
    <2> HIDE DEF c
    <2>2. c.size \in Seq(Digits) /\ c.ext \in Seq(STRING) /\ c.data \in Seq(STRING)
      BY <2>1, DigitsKnown DEF ChunkTexts
    <2>3. c.size \in Seq(A) /\ c.ext \in Seq(A) /\ c.data \in Seq(A)
      BY <1>3, <1>4, <2>2, Zenon
    <2>4. c.size \o c.ext \in Seq(A)
      BY <2>3, JoinedLength, Zenon
    <2>5. (c.size \o c.ext) \o Crlf \in Seq(A)
      BY <1>5, <2>4, JoinedLength, Zenon
    <2>6. ((c.size \o c.ext) \o Crlf) \o c.data \in Seq(A)
      BY <2>3, <2>5, JoinedLength, Zenon
    <2>7. (((c.size \o c.ext) \o Crlf) \o c.data) \o Crlf \in Seq(A)
      BY <1>5, <2>6, JoinedLength, Zenon
    <2> QED BY <2>2, <2>7 DEF Chunk, c
  <1>8. parts \in Seq(Seq(A)) /\ Len(parts) = n /\ \A i \in 1..n : parts[i] = Chunk(e.chunks[i])
    BY <1>2, <1>7
  <1>9. data \in Seq(Seq(STRING)) /\ Len(data) = n /\ \A i \in 1..n : data[i] = e.chunks[i].data
    BY <1>2, <1>7
  <1>10. s = FlattenSeq(parts) \o end
    BY DEF Encode
  <1> HIDE DEF parts, data, end
  <1>11. PICK f : Joined(f, parts, A) /\ FlattenSeq(parts) = f[n]
    BY <1>8, FlattenIs
  <1>12. PICK g : Joined(g, data, STRING) /\ FlattenSeq(data) = g[n]
    BY <1>9, FlattenIs
  <1> DEFINE place(k) == Len(f[k]) + 1
  <1>13. s \in Seq(A)
    BY <1>3, <1>4, Zenon DEF Text
  <1>14. /\ \A k \in 1..n : Lies(s, place(k - 1), parts[k]) /\ Len(f[k]) = Len(f[k - 1]) + Len(parts[k])
         /\ Lies(s, place(n), end) /\ Len(s) = Len(f[n]) + Len(end)
    <2>1. s = f[Len(parts)] \o end
      BY <1>8, <1>10, <1>11
    <2>2. Laid(s, f, parts, end)
      <3>1. Assembled(s, f, parts, end, A)
        BY <1>6, <1>8, <1>11, <1>13, <2>1 DEF Assembled
      <3> QED BY <3>1, PartsLie
    <2> QED BY <1>8, <2>2 DEF Laid
  <1>15. \A k \in 0..n : Len(f[k]) \in Nat /\ g[k] \in Text
    <2>1. f \in [0..n -> Seq(A)] /\ g \in [0..n -> Seq(STRING)]
      BY <1>8, <1>9, <1>11, <1>12 DEF Joined
    <2> QED BY <2>1 DEF Text
  <1>16. Len(end) \in Nat /\ Len(s) \in Nat /\ n \in 0..n
    BY <1>2, <1>6 DEF Text
  <1>17. Chunks(s)[place(n)] = Whole(Len(s)) /\ DataFrom(s)[place(n)] = <<>> /\ place(n) \in 1..Len(s)
    <2>1. Len(s) + 1 = place(n) + Len(end)
      <3>1. Len(f[n]) \in Nat /\ Len(s) = Len(f[n]) + Len(end)
        BY <1>14, <1>15, <1>16
      <3> QED BY <1>16, <3>1
    <2> HIDE DEF place
    <2> QED BY <1>1, <1>14, <2>1, EndingRead DEF end
  <1>18. ASSUME NEW k \in 1..n
         PROVE  /\ Chunks(s)[place(k - 1)] = Chunks(s)[place(k)]
                /\ DataFrom(s)[place(k - 1)] = data[k] \o DataFrom(s)[place(k)]
                /\ place(k - 1) \in 1..Len(s)
    <2> DEFINE p == place(k - 1)
               c == e.chunks[k]
    <2>1. place(k) = p + Len(Chunk(c)) /\ Lies(s, p, Chunk(c))
      <3>1. parts[k] = Chunk(c) /\ Lies(s, p, parts[k]) /\ Len(f[k]) = Len(f[k - 1]) + Len(parts[k])
        BY <1>8, <1>14
      <3>2. Len(f[k]) \in Nat /\ Len(f[k - 1]) \in Nat
        <4>1. k \in 0..n /\ k - 1 \in 0..n
          BY <1>2
        <4> QED BY <1>15, <4>1
      <3>3. Len(parts[k]) \in Nat
        BY <1>8
      <3> HIDE DEF c
      <3>4. Len(f[k]) + 1 = Len(f[k - 1]) + 1 + Len(parts[k])
        BY <3>1, <3>2, <3>3
      <3> QED BY <3>1, <3>4, Zenon
    <2>2. c \in ChunkTexts /\ IsChunk(c) /\ data[k] = c.data
      BY <1>2, <1>9
    <2> HIDE DEF p, c, place
    <2>3. /\ Passed(s, p) /\ ~LastData(s, p) /\ Behind(s, p) = place(k) /\ DataAt(s, p) = data[k] /\ p \in 1..Len(s)
      BY <2>1, <2>2, ChunkRead
    <2>4. p \in 1..(Len(s) + 2)
      BY <1>16, <2>3
    <2>5. Chunks(s)[p] = Chunks(s)[place(k)]
      BY <2>3, <2>4, ChunksAre
    <2>6. DataFrom(s)[p] = data[k] \o DataFrom(s)[place(k)]
      BY <2>3, <2>4, DataFromIs
    <2> QED BY <2>3, <2>5, <2>6 DEF p
  <1>19. \A k \in 1..n : g[k] = g[k - 1] \o data[k]
    BY <1>9, <1>12 DEF Joined
  <1>20. f[0] = <<>> /\ g[0] = <<>>
    BY <1>11, <1>12 DEF Joined
  <1>21. place(0) = 1
    BY <1>20, EmptySeq
  <1>22. \A k \in 0..n : place(k) \in 1..(Len(s) + 2)
    <2> SUFFICES ASSUME NEW k \in 0..n PROVE place(k) \in 1..(Len(s) + 2)
      OBVIOUS
    <2> HIDE DEF place
    <2>1. CASE k = n
      BY <1>16, <1>17, <2>1
    <2>2. CASE k # n
      <3>1. k + 1 \in 1..n /\ (k + 1) - 1 = k
        BY <1>2, <2>2
      <3>2. place(k) \in 1..Len(s)
        BY <1>18, <3>1
      <3> QED BY <1>16, <3>2
    <2> QED BY <2>1, <2>2
  <1> HIDE DEF place
  <1> DEFINE Same(k) == Chunks(s)[place(k)] = Chunks(s)[1] /\ g[k] \o DataFrom(s)[place(k)] = Payload(s)
             T == {k \in Nat : k <= n => Same(k)}
  <1> HIDE DEF Same
  <1>23. Nat \subseteq T
    <2>1. 0 \in T
      <3>1. 1 \in 1..(Len(s) + 2)
        BY <1>16
      <3>2. DataFrom(s)[1] \in Seq(STRING)
        BY <3>1, DataFromIs DEF Text
      <3>3. <<>> \o DataFrom(s)[1] = DataFrom(s)[1]
        BY <3>2, ConcatEmptySeq
      <3>4. Same(0)
        BY <1>20, <1>21, <3>3 DEF Payload, Same
      <3> QED BY <3>4
    <2>2. ASSUME NEW k \in Nat, k \in T PROVE k + 1 \in T
      <3> SUFFICES ASSUME k + 1 <= n PROVE Same(k + 1)
        OBVIOUS
      <3>1. k + 1 \in 1..n /\ (k + 1) - 1 = k /\ k \in 0..n /\ k + 1 \in 0..n
        BY <1>2
      <3>2. Same(k)
        BY <1>2, <2>2, <3>1
      <3>3. Chunks(s)[place(k)] = Chunks(s)[place(k + 1)] /\ DataFrom(s)[place(k)] = data[k + 1] \o DataFrom(s)[place(k + 1)]
        BY <1>18, <3>1
      <3>4. g[k + 1] = g[k] \o data[k + 1]
        BY <1>19, <3>1
      <3>5. g[k] \in Seq(STRING) /\ data[k + 1] \in Seq(STRING) /\ DataFrom(s)[place(k + 1)] \in Seq(STRING)
        <4>1. g[k] \in Seq(STRING)
          BY <1>15, <3>1 DEF Text
        <4>2. data[k + 1] \in Seq(STRING)
          BY <1>9, <3>1
        <4>3. DataFrom(s)[place(k + 1)] \in Seq(STRING)
          BY <1>22, <3>1, DataFromIs DEF Text
        <4> QED BY <4>1, <4>2, <4>3
      <3>6. (g[k] \o data[k + 1]) \o DataFrom(s)[place(k + 1)] = g[k] \o (data[k + 1] \o DataFrom(s)[place(k + 1)])
        <4> DEFINE x == g[k]  y == data[k + 1]  z == DataFrom(s)[place(k + 1)]
        <4>1. x \in Seq(STRING) /\ y \in Seq(STRING) /\ z \in Seq(STRING)
          BY <3>5
        <4> HIDE DEF x, y, z
        <4>2. (x \o y) \o z = x \o (y \o z)
          BY <4>1, ConcatAssociative
        <4> QED BY <4>2 DEF x, y, z
      <3> QED BY <3>2, <3>3, <3>4, <3>6, Zenon DEF Same
    <2> HIDE DEF T
    <2> QED BY <2>1, <2>2, Upward
  <1>24. Same(n)
    <2>1. n \in T
      BY <1>2, <1>23
    <2> QED BY <1>2, <2>1
  <1> USE DEF Same
  <1>25. g[n] \o <<>> = g[n]
    <2>1. g[n] \in Seq(STRING)
      BY <1>15, <1>16 DEF Text
    <2> QED BY <2>1, ConcatEmptySeq
  <1>26. Chunks(s)[1] = Whole(Len(s)) /\ Payload(s) = FlattenSeq(data)
    BY <1>12, <1>17, <1>24, <1>25, Zenon
  <1>27. Len(s) # 0
    BY <1>16, <1>17
  <1> QED BY <1>26, <1>27 DEF data

(* What is complete is within what has arrived.                             *)
LEMMA WithinArrived ==
  ASSUME NEW s \in Text
  PROVE  \A p \in 1..(Len(s) + 2) : Chunks(s)[p].complete = 1 => Chunks(s)[p].consumed <= Len(s)
  <1> DEFINE m == Len(s) + 2
             Fits(v) == v.complete = 1 => v.consumed <= Len(s)
             L == {p \in 1..m : Fits(Lines(s)[p])}
             S == {p \in 1..m : Fits(Chunks(s)[p])}
  <1>1. Len(s) \in Nat /\ m \in Nat
    BY DEF Text
  <1>2. Fits(More) /\ Fits(Malformed) /\ \A k \in Nat : k <= Len(s) => Fits(Whole(k))
    BY DEF More, Malformed, Whole
  <1> HIDE DEF Fits
  <1>3. ASSUME NEW p \in 1..m, \A q \in (p + 1)..m : q \in L PROVE p \in L
    <2>1. CASE p > Len(s) \/ Eol(s, p) > Len(s)
      BY <1>2, <2>1, LinesAre
    <2>2. CASE ~(p > Len(s) \/ Eol(s, p) > Len(s))
      <3>1. p \in 1..(Len(s) + 1)
        BY <1>1, <2>2
      <3>2. Eol(s, p) \in Nat /\ Eol(s, p) >= p /\ Eol(s, p) <= Len(s)
        BY <1>1, <2>2, <3>1, EolFound DEF IsEol
      <3>3. Eol(s, p) + 1 \in (p + 1)..m
        BY <1>1, <3>2
      <3>4. Fits(Lines(s)[Eol(s, p) + 1]) /\ Fits(Whole(Eol(s, p)))
        BY <1>2, <1>3, <3>2, <3>3
      <3>5. Lines(s)[p] = Whole(Eol(s, p)) \/ Lines(s)[p] = Lines(s)[Eol(s, p) + 1]
        BY <2>2, LinesAre
      <3> QED BY <3>4, <3>5
    <2> QED BY <2>1, <2>2
  <1> HIDE DEF L, m
  <1>4. \A p \in 1..m : p \in L
    BY <1>1, <1>3, Downward
  <1>5. ASSUME NEW p \in 1..m, \A q \in (p + 1)..m : q \in S PROVE p \in S
    <2>1. p \in 1..(Len(s) + 2)
      BY DEF m
    <2>2. CASE Passed(s, p)
      <3>1. Behind(s, p) \in (p + 1)..(Len(s) + 1)
        BY <2>1, <2>2, LineFacts DEF Passed
      <3>2. Behind(s, p) \in (p + 1)..m
        BY <1>1, <3>1 DEF m
      <3>3. Chunks(s)[p] = Chunks(s)[Behind(s, p)]
        BY <2>1, <2>2, ChunksAre
      <3>4. Fits(Chunks(s)[Behind(s, p)])
        BY <1>5, <3>2
      <3> QED BY <3>3, <3>4
    <2>3. CASE ~Passed(s, p)
      <3>1. Chunks(s)[p] = AtEnd(s, p)
        BY <2>1, <2>3, ChunksAre
      <3>2. ASSUME HasLine(s, p) PROVE Fits(Lines(s)[Data(s, p)])
        <4>1. Data(s, p) \in (p + 1)..(Len(s) + 1)
          BY <2>1, <3>2, LineFacts
        <4>2. Data(s, p) \in 1..m
          BY <1>1, <2>1, <4>1 DEF m
        <4> QED BY <1>4, <4>2 DEF L
      <3>3. Fits(AtEnd(s, p))
        BY <1>2, <3>2 DEF AtEnd
      <3> QED BY <3>1, <3>3
    <2> QED BY <2>2, <2>3
  <1> HIDE DEF S
  <1>6. \A p \in 1..m : p \in S
    BY <1>1, <1>5, Downward
  <1> QED BY <1>6 DEF S, m, Fits

(* What keeps to the grammar is complete when all of it is there and no     *)
(* sooner, and gives the data that were encoded: for any list of chunks of  *)
(* any length.                                                              *)
THEOREM EncodedIsAccepted == ChunkedSpec => []EncodedAccepted
  <1>1. ChunkedInv => EncodedAccepted
    <2> SUFFICES ASSUME ChunkedInv, NEW e \in Encodings, body = Encode(e)
                 PROVE  /\ framed.complete = IF received = Len(body) THEN 1 ELSE 0
                        /\ answer # <<>> =>
                             answer[2] = FlattenSeq([i \in 1..Len(e.chunks) |-> e.chunks[i].data])
      BY DEF EncodedAccepted
    <2>1. /\ Agree(Arrived, body, 1) /\ Len(Arrived) = received /\ received \in 0..Len(body)
          /\ body \in Text /\ Arrived \in Text /\ Len(body) \in Nat
      BY FirstPartAgrees DEF ChunkedInv, Arrived, Text
    <2>2. /\ Chunks(body)[1] = Whole(Len(body)) /\ Len(body) # 0
          /\ Payload(body) = FlattenSeq([i \in 1..Len(e.chunks) |-> e.chunks[i].data])
      BY <2>1, EncodedRead
    <2>3. framed = Chunks(Arrived)[1] /\ 1 \in 1..(Len(Arrived) + 2)
      BY <2>1 DEF ChunkedInv, ffNetworkingChunkedComplete
    <2>4. framed.complete # 0 => framed = Whole(Len(body))
      BY <2>1, <2>2, <2>3, ChunksAgree
    <2>5. framed.complete # 0 => framed.complete = 1 /\ framed.consumed = Len(body)
      BY <2>4 DEF Whole
    <2>6. framed.complete = 1 => received = Len(body)
      <3> SUFFICES ASSUME framed.complete = 1 PROVE received = Len(body)
        OBVIOUS
      <3>1. framed.consumed <= received /\ framed.consumed = Len(body)
        BY <2>1, <2>3, <2>5, WithinArrived
      <3> QED BY <2>1, <3>1
    <2>7. received = Len(body) => framed.complete = 1
      <3> SUFFICES ASSUME received = Len(body) PROVE framed.complete = 1
        OBVIOUS
      <3>1. Arrived = body
        <4>1. Len(Arrived) = Len(body) /\ \A i \in 1..Len(Arrived) : Arrived[i] = body[i]
          BY <2>1 DEF Agree
        <4> QED BY <2>1, <4>1, SeqEqual DEF Text
      <3> QED BY <2>2, <2>3, <3>1 DEF Whole
    <2>8. answer # <<>> => answer[2] = Payload(body)
      <3> SUFFICES ASSUME answer # <<>> PROVE answer[2] = Payload(body)
        OBVIOUS
      <3>1. Chunks(Arrived)[1].complete = 1 /\ answer[2] = Decode(Arrived)
        BY DEF ChunkedInv, ffNetworkingChunkedComplete
      <3> QED BY <2>1, <3>1, DecodeIsPayload
    <2>9. framed.complete = IF received = Len(body) THEN 1 ELSE 0
      BY <2>5, <2>6, <2>7
    <2> QED BY <2>2, <2>8, <2>9
  <1> QED BY <1>1, ChunkedIsInv, PTL
=============================================================================
