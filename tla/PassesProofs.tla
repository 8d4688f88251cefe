---------------------------- MODULE PassesProofs ----------------------------
(* The prepare and print passes of Passes, for every list of modules and    *)
(* any number of rounds; and the formats that modules are printed by of     *)
(* FormatString, for every format and value.                                *)
EXTENDS Passes, FormatString, SequenceTheorems, FiniteSetTheorems, NumberInduction, TLAPS

-----------------------------------------------------------------------------
(* What the type invariant says of the module the pass is at.               *)
LEMMA Typed ==
  ASSUME TypeOK
  PROVE  /\ program \in Program
         /\ N \in Nat
         /\ \A i \in 1..N : program.modules[i] \in Modules
         /\ Mine \in [owner : Nat, round : 1..MaxRound]
         /\ idx # 0 => Mine \in Sources
         /\ None \notin Sources /\ None \notin Results
         /\ MaxRound \in Nat \ {0}
  <1>1. program \in Program
    BY ProgramsAssumption DEF TypeOK
  <1>2. program.modules \in Seq(Modules)
    BY <1>1 DEF Program
  <1>3. N \in Nat /\ \A i \in 1..N : program.modules[i] \in Modules
    BY <1>2 DEF N
  <1>4. idx \in Nat /\ round \in 1..MaxRound
    BY <1>3 DEF TypeOK
  <1>5. None \notin Sources /\ None \notin Results
    BY NoneAssumption, RoundAssumption DEF Sources, Results
  <1> QED BY <1>1, <1>3, <1>4, <1>5, RoundAssumption DEF Mine, Sources

(* The configuration does not change: neither does what follows from it.    *)
LEMMA Static ==
  ASSUME UNCHANGED program
  PROVE  /\ N' = N /\ (Sound <=> Sound')
         /\ \A j : /\ RefusedAt(j)' <=> RefusedAt(j)
                   /\ Reached(j)' <=> Reached(j)
                   /\ Prepared(j)' <=> Prepared(j)
                   /\ Queues(j)' <=> Queues(j)
                   /\ Prepares(j)' <=> Prepares(j)
  <1>1. N' = N /\ (Sound <=> Sound')
    BY DEF N, Sound, Gated, PrintRefuses
  <1>2. \A j : RefusedAt(j)' <=> RefusedAt(j)
    BY DEF RefusedAt, PrepareSkips, Mismatch, Gated, Disabled
  <1>3. \A j : Reached(j)' <=> Reached(j)
    BY <1>2 DEF Reached
  <1>4. \A j : Prepared(j)' <=> Prepared(j)
    BY <1>3 DEF Prepared, PrepareSkips, Mismatch, Gated, Disabled
  <1>5. \A j : (Queues(j)' <=> Queues(j)) /\ (Prepares(j)' <=> Prepares(j))
    BY <1>4 DEF Queues, Prepares
  <1> QED BY <1>1, <1>2, <1>3, <1>4, <1>5

LEMMA ResultTyped ==
  ASSUME TypeOK, InPass("print"), NEW r \in Sources
  PROVE  Result(r) \in Results
  BY DEF TypeOK, InPass, Result, Results, Sources

(* Each step leaves every variable its type.                                *)
LEMMA TypeStep == TypeOK /\ [Next]_vars => TypeOK'
  <1> SUFFICES ASSUME TypeOK, [Next]_vars PROVE TypeOK'
    OBVIOUS
  <1>0. /\ N \in Nat /\ (idx # 0 => Mine \in Sources)
        /\ None \notin Sources /\ MaxRound \in Nat \ {0}
        /\ idx \in 1..N + 1
    BY Typed DEF TypeOK
  <1> USE <1>0 DEF TypeOK
  <1>1. CASE UNCHANGED vars
    BY <1>1 DEF vars, N
  <1>2. CASE PrepareSkip \/ PrepareOther \/ PrintSkip
    BY <1>2 DEF PrepareSkip, PrepareOther, PrintSkip, InPass, Advance, N
  <1>3. CASE PrepareRefuse \/ PrepareEnd \/ PrintRefuse \/ PrintEnd
    <2>1. /\ UNCHANGED <<commandQueue, status, printed, program, altered, round>>
          /\ pc' \in {"start", "print", "boundary"} /\ idx' = 1 /\ succeeded' = TRUE
      BY <1>3 DEF PrepareRefuse, PrepareEnd, PrintRefuse, PrintEnd, Over,
                  AfterPrepare
    <2> QED BY <2>1 DEF N
  <1>4. CASE PrepareCommand
    <2>1. CASE program.structure
      BY <1>4, <2>1 DEF PrepareCommand, Exit, N
    <2>2. CASE ~program.structure
      <3>1. commandQueue' \in Seq(Sources)
        BY <1>4, <2>2 DEF PrepareCommand, ffPrepareCommand, InPass
      <3> QED BY <1>4, <2>2, <3>1 DEF PrepareCommand, Advance, InPass, N
    <2> QED BY <2>1, <2>2
  <1>5. CASE PrepareLatch
    <2>1. CASE status[m.type] # None \/ m.fatal
      BY <1>5, <2>1 DEF PrepareLatch, Exit, N
    <2>2. CASE ~(status[m.type] # None \/ m.fatal)
      <3>1. status' \in [Latches -> Sources \cup {None}]
        BY <1>5, <2>2 DEF PrepareLatch, InPass
      <3> QED BY <1>5, <2>2, <3>1 DEF PrepareLatch, Advance, InPass, N
    <2> QED BY <2>1, <2>2
  <1>6. CASE Start \/ Finish \/ Signal
    BY <1>6 DEF Start, Finish, Signal, N
  <1>10. CASE NextRound
    BY <1>10 DEF NextRound, N
  <1>7. CASE PrintCommand
    <2>1. /\ printed' \in Results \cup {None}
          /\ commandQueue' \in Seq(Sources)
          /\ succeeded' \in BOOLEAN
      <3>1. CASE ~m.parallel
        <4>1. Result(Mine) \in Results
          BY <1>7, ResultTyped DEF PrintCommand, InPass
        <4> QED BY <1>7, <3>1, <4>1 DEF PrintCommand, ffDetectCommand
      <3>2. CASE m.parallel /\ Shifted = None
        BY <1>7, <3>2 DEF PrintCommand, ffDetectCommand
      <3>3. CASE m.parallel /\ Shifted # None
        <4>1. commandQueue # <<>> /\ Shifted = Head(commandQueue)
          BY <3>3 DEF Shifted
        <4>2. Shifted \in Sources /\ Tail(commandQueue) \in Seq(Sources)
          BY <4>1, HeadTailProperties
        <4>3. Result(Shifted) \in Results
          BY <1>7, <4>2, ResultTyped DEF PrintCommand
        <4> QED BY <1>7, <3>3, <4>2, <4>3 DEF PrintCommand, ffDetectCommand
      <3> QED BY <3>1, <3>2, <3>3
    <2> QED BY <1>7, <2>1 DEF PrintCommand, Advance, InPass, N
  <1>8. CASE PrintLatch
    <2>1. CASE status[m.type] = None /\ m.fatal
      BY <1>8, <2>1 DEF PrintLatch, Exit, N
    <2>2. CASE ~(status[m.type] = None /\ m.fatal)
      <3> DEFINE s == IF status[m.type] = None THEN Mine ELSE status[m.type]
      <3>1. s \in Sources
        BY <1>8 DEF PrintLatch, InPass
      <3>2. /\ printed' = Result(s)
            /\ status' = [status EXCEPT ![m.type] = None]
            /\ succeeded' \in BOOLEAN
            /\ Advance /\ UNCHANGED commandQueue
        BY <1>8, <2>2 DEF PrintLatch, ffDetectLatch
      <3> HIDE DEF s
      <3>3. printed' \in Results
        BY <1>8, <3>1, <3>2, ResultTyped DEF PrintLatch
      <3>4. status' \in [Latches -> Sources \cup {None}]
        BY <3>2
      <3> QED BY <1>8, <3>2, <3>3, <3>4 DEF PrintLatch, Advance, InPass, N
    <2> QED BY <2>1, <2>2
  <1>9. CASE PrintOther
    BY <1>9 DEF PrintOther, Exit, Advance, InPass, N
  <1> QED BY <1>1, <1>2, <1>3, <1>4, <1>5, <1>6, <1>7, <1>8, <1>9, <1>10
          DEF Next, PreparePass, PrintPass

LEMMA TypeInit == Init => TypeOK
  <1> SUFFICES ASSUME Init PROVE TypeOK
    OBVIOUS
  <1>1. N \in Nat
    BY ProgramsAssumption DEF Init, Program, N
  <1>2. status \in [Latches -> Sources \cup {None}]
    BY DEF Init
  <1>3. commandQueue \in Seq(Sources) /\ idx \in 1..N + 1 /\ round \in 1..MaxRound
    BY <1>1, RoundAssumption DEF Init
  <1> QED BY <1>2, <1>3 DEF Init, TypeOK

(* Every variable has its type, whatever fastfetch is asked to do.          *)
THEOREM TypeCorrect == Spec => []TypeOK
  <1> QED BY TypeInit, TypeStep, PTL DEF Spec

-----------------------------------------------------------------------------
(* The bookkeeping of a round that is not refused half way.                 *)
Order == NotRefusedYet /\ QueueIsPending /\ StatusIsPending /\ PreparedBefore

(* What is started in the prepare pass is asked for in the print pass: a    *)
(* module that is skipped, or is where the print pass is refused, has       *)
(* nothing pending.                                                         *)
LEMMA SkippedIsNotPrepared ==
  ASSUME NEW x, PrintSkips(x)
  PROVE  PrepareSkips(x)
  BY DEF PrintSkips, PrepareSkips

LEMMA PrintedWasPrepared ==
  ASSUME TypeOK, Sound, NotRefusedYet, InPass("print"), Prints(m), ~Gated(m)
  PROVE  /\ ~PrepareSkips(m)
         /\ m.type # "broken" => Prepared(idx)
  <1>1. ~PrepareSkips(m)
    BY DEF Prints, PrintSkips, PrintRefuses, PrepareSkips
  <1>2. ASSUME m.type # "broken" PROVE Reached(idx)
    <2>1. ~RefusedAt(idx)
      BY <1>2 DEF RefusedAt, m
    <2>2. \A i \in 1..idx - 1 : ~RefusedAt(i)
      BY DEF NotRefusedYet, InPass
    <2>3. idx \in Nat
      BY Typed DEF InPass
    <2> QED BY <2>1, <2>2, <2>3 DEF Reached
  <1> QED BY <1>1, <1>2 DEF Prepared, m

(* The queue and the statuses follow the pending modules.                   *)
LEMMA SamePending ==
  ASSUME QueueIsPending, StatusIsPending,
         UNCHANGED <<program, commandQueue, status, round>>,
         Pending' = Pending,
         pc' = "prepare" => (pc = "prepare" \/ Pending = {})
  PROVE  QueueIsPending' /\ StatusIsPending'
  <1>1. Queued' = Queued
    BY Static DEF Queued
  <1> QED BY <1>1 DEF QueueIsPending, StatusIsPending

LEMMA NothingPending ==
  ASSUME TypeOK, QueueIsPending, StatusIsPending, Pending = {}
  PROVE  commandQueue = <<>> /\ \A t \in Latches : status[t] = None
  <1>1. commandQueue \in Seq(Sources)
    BY DEF TypeOK
  <1>2. ~(1 \in 1..Len(commandQueue))
    BY DEF QueueIsPending, Queued
  <1>3. commandQueue = <<>>
    BY <1>1, <1>2, EmptySeq
  <1> QED BY <1>3 DEF StatusIsPending

(* The head of the queue belongs to the command the print pass is at.       *)
LEMMA HeadIsMine ==
  ASSUME TypeOK, QueueIsPending, InPass("print"), idx \in Queued
  PROVE  /\ commandQueue # <<>>
         /\ commandQueue[1].owner = idx /\ commandQueue[1].round = round
         /\ \A k \in 2..Len(commandQueue) : commandQueue[k].owner # idx
  <1>1. PICK k \in 1..Len(commandQueue) : commandQueue[k].owner = idx
    BY DEF QueueIsPending
  <1>2. Len(commandQueue) \in Nat /\ 1 \in 1..Len(commandQueue)
    BY <1>1 DEF TypeOK
  <1>3. commandQueue # <<>>
    BY <1>2
  <1>4. commandQueue[1].owner >= idx /\ commandQueue[1].round = round
    BY <1>2 DEF QueueIsPending, Queued, Pending, InPass
  <1>5. \A i \in 1..Len(commandQueue) : commandQueue[i].owner \in Nat
    <2>1. \A i \in 1..Len(commandQueue) : commandQueue[i] \in Sources
      BY DEF TypeOK
    <2> QED BY <2>1 DEF Sources
  <1>6. idx \in Nat
    BY Typed DEF InPass
  <1>7. \A i, j \in 1..Len(commandQueue) :
          i < j => commandQueue[i].owner < commandQueue[j].owner
    BY DEF QueueIsPending
  <1>8. k = 1
    <2> SUFFICES ASSUME k # 1 PROVE FALSE
      OBVIOUS
    <2>1. commandQueue[1].owner < commandQueue[k].owner
      BY <1>2, <1>7
    <2> QED BY <1>1, <1>2, <1>4, <1>5, <1>6, <2>1
  <1> QED BY <1>1, <1>2, <1>3, <1>4, <1>5, <1>6, <1>7, <1>8

-----------------------------------------------------------------------------
(* One lemma per action: the bookkeeping after it.                          *)
LEMMA PrepareSkipOrder ==
  ASSUME TypeOK, Sound, Order, PrepareSkip \/ PrepareOther
  PROVE  Order'
  <1>1. /\ idx \in 1..N /\ N \in Nat
        /\ pc = "prepare" /\ pc' = "prepare" /\ idx' = idx + 1
        /\ UNCHANGED <<program, commandQueue, status, round>>
    BY Typed DEF PrepareSkip, PrepareOther, InPass, Advance
  <1>2. Prepared(idx) => m.type = "other" /\ m = program.modules[idx]
    BY DEF PrepareSkip, PrepareOther, Prepared, m
  <1>3. ~RefusedAt(idx)
    BY DEF PrepareSkip, PrepareOther, RefusedAt, m
  <1>4. NotRefusedYet'
    BY <1>1, <1>3, Static DEF Order, NotRefusedYet
  <1>5. Pending' = Pending \cup {j \in {idx} : Prepared(idx)}
    BY <1>1, Static DEF Pending
  <1>6. QueueIsPending'
    <2>1. Queued' = Queued
      BY <1>1, <1>2, <1>5, Static DEF Queued, Queues
    <2> QED BY <1>1, <2>1 DEF Order, QueueIsPending
  <1>7. StatusIsPending'
    BY <1>1, <1>2, <1>5, LatchesAssumption DEF Order, StatusIsPending
  <1>8. Prepares(idx)
    BY <1>2, LatchesAssumption DEF Prepares
  <1>9. PreparedBefore'
    BY <1>1, <1>8, Static DEF Order, PreparedBefore
  <1> QED BY <1>4, <1>6, <1>7, <1>9 DEF Order

LEMMA PrepareCommandOrder ==
  ASSUME TypeOK, Sound, Order, PrepareCommand, pc' # "exited"
  PROVE  Order'
  <1>1. /\ idx \in 1..N /\ N \in Nat
        /\ pc = "prepare" /\ pc' = "prepare" /\ idx' = idx + 1
        /\ UNCHANGED <<program, status, round>>
        /\ ~program.structure
        /\ ffPrepareCommand
    BY Typed DEF PrepareCommand, InPass, Advance, Exit
  <1>2. m.type = "command" /\ m = program.modules[idx]
    BY DEF PrepareCommand, m
  <1>3. NotRefusedYet'
    BY <1>1, <1>2, Static DEF Order, NotRefusedYet, RefusedAt
  <1>4. Prepared(idx)
    <2>1. Reached(idx)
      BY <1>1, <1>2 DEF Order, NotRefusedYet, Reached, RefusedAt
    <2> QED BY <2>1, <1>2 DEF Prepared, PrepareCommand
  <1>5. Pending' = Pending \cup {idx} /\ \A j \in Pending : j < idx
    BY <1>1, <1>4, Static DEF Pending
  <1>6. QueueIsPending'
    <2>1. CASE ~m.parallel
      <3>1. commandQueue' = commandQueue /\ ~Queues(idx)
        BY <1>1, <1>2, <2>1 DEF ffPrepareCommand, Queues
      <3>2. Queued' = Queued
        BY <1>1, <1>5, <3>1, Static DEF Queued
      <3> QED BY <1>1, <3>1, <3>2 DEF Order, QueueIsPending
    <2>2. CASE m.parallel
      <3> DEFINE n == Len(commandQueue)
      <3>1. /\ commandQueue \in Seq(Sources) /\ n \in Nat
            /\ Mine \in Sources /\ Mine.owner = idx /\ Mine.round = round
        BY <1>1, Typed DEF TypeOK, Mine
      <3>2. /\ Len(commandQueue') = n + 1
            /\ \A k \in 1..n : commandQueue'[k] = commandQueue[k]
            /\ commandQueue'[n + 1] = Mine
        BY <1>1, <2>2, <3>1 DEF ffPrepareCommand
      <3>3. /\ \A k \in 1..n : commandQueue[k].owner \in Queued
                               /\ commandQueue[k].round = round
            /\ \A k, l \in 1..n : k < l => commandQueue[k].owner < commandQueue[l].owner
            /\ \A j \in Queued : \E k \in 1..n : commandQueue[k].owner = j
        BY DEF Order, QueueIsPending
      <3>4. Queued' = Queued \cup {idx} /\ \A j \in Queued : j < idx
        BY <1>1, <1>2, <1>5, <2>2, Static DEF Queued, Queues
      <3> HIDE DEF n
      <3>5. \A k \in 1..n + 1 : k \in 1..n \/ k = n + 1
        BY <3>1
      <3>6. \A k \in 1..n + 1 : commandQueue'[k].owner \in Queued'
                                /\ commandQueue'[k].round = round'
        BY <1>1, <3>1, <3>2, <3>3, <3>4, <3>5
      <3>7. \A k, l \in 1..n + 1 :
              k < l => commandQueue'[k].owner < commandQueue'[l].owner
        <4> SUFFICES ASSUME NEW k \in 1..n + 1, NEW l \in 1..n + 1, k < l
                     PROVE  commandQueue'[k].owner < commandQueue'[l].owner
          OBVIOUS
        <4>1. k \in 1..n
          BY <3>1
        <4>2. CASE l \in 1..n
          BY <4>1, <4>2, <3>2, <3>3
        <4>3. CASE l = n + 1
          BY <4>1, <4>3, <3>1, <3>2, <3>3, <3>4
        <4> QED BY <3>5, <4>2, <4>3
      <3>8. \A j \in Queued' : \E k \in 1..n + 1 : commandQueue'[k].owner = j
        <4> SUFFICES ASSUME NEW j \in Queued'
                     PROVE  \E k \in 1..n + 1 : commandQueue'[k].owner = j
          OBVIOUS
        <4>1. CASE j = idx
          BY <4>1, <3>1, <3>2
        <4>2. CASE j \in Queued
          <5>1. PICK k \in 1..n : commandQueue[k].owner = j
            BY <4>2, <3>3
          <5>2. k \in 1..n + 1 /\ commandQueue'[k] = commandQueue[k]
            BY <3>1, <3>2
          <5> QED BY <5>1, <5>2
        <4> QED BY <3>4, <4>1, <4>2
      <3> QED BY <3>2, <3>6, <3>7, <3>8 DEF QueueIsPending
    <2> QED BY <2>1, <2>2
  <1>7. StatusIsPending'
    BY <1>1, <1>2, <1>5, LatchesAssumption DEF Order, StatusIsPending
  <1>8. Prepares(idx)
    BY <1>1, <1>2, LatchesAssumption DEF Prepares
  <1>9. PreparedBefore'
    BY <1>1, <1>8, Static DEF Order, PreparedBefore
  <1> QED BY <1>3, <1>6, <1>7, <1>9 DEF Order

LEMMA PrepareLatchOrder ==
  ASSUME TypeOK, Sound, Order, PrepareLatch, pc' # "exited"
  PROVE  Order'
  <1> DEFINE t == m.type
  <1>1. /\ idx \in 1..N /\ N \in Nat
        /\ pc = "prepare" /\ pc' = "prepare" /\ idx' = idx + 1
        /\ UNCHANGED <<program, commandQueue, round>>
        /\ status[t] = None /\ ~m.fatal
        /\ status' = [status EXCEPT ![t] = Mine]
    BY Typed DEF PrepareLatch, InPass, Advance, Exit
  <1>2. t \in Latches /\ t = program.modules[idx].type /\ t # "command" /\ t # "broken"
    BY LatchesAssumption DEF PrepareLatch, m
  <1>3. /\ Mine \in Sources /\ None \notin Sources
        /\ Mine.owner = idx /\ Mine.round = round
    BY <1>1, Typed DEF Mine
  <1>4. NotRefusedYet'
    BY <1>1, <1>2, Static DEF Order, NotRefusedYet, RefusedAt
  <1>5. Prepared(idx)
    <2>1. Reached(idx)
      BY <1>1, <1>2 DEF Order, NotRefusedYet, Reached, RefusedAt
    <2> QED BY <2>1 DEF Prepared, PrepareLatch, m
  <1>6. Pending' = Pending \cup {idx} /\ \A j \in Pending : j < idx
    BY <1>1, <1>5, Static DEF Pending
  <1>7. QueueIsPending'
    <2>1. Queued' = Queued
      BY <1>1, <1>2, <1>6, Static DEF Queued, Queues
    <2> QED BY <1>1, <2>1 DEF Order, QueueIsPending
  <1>8. StatusIsPending'
    <2>1. /\ DOMAIN status = Latches
          /\ status'[t] = Mine
          /\ \A u \in Latches : u # t => status'[u] = status[u]
      BY <1>1, <1>2 DEF TypeOK
    <2>2. \A u \in Latches : status'[u] # None =>
            /\ status'[u].owner \in Pending' /\ program.modules[status'[u].owner].type = u
            /\ status'[u].round = round
      <3> SUFFICES ASSUME NEW u \in Latches, status'[u] # None
                   PROVE  /\ status'[u].owner \in Pending'
                          /\ program.modules[status'[u].owner].type = u
                          /\ status'[u].round = round
        OBVIOUS
      <3>1. CASE u = t
        BY <3>1, <2>1, <1>2, <1>3, <1>6
      <3>2. CASE u # t
        BY <3>2, <2>1, <1>6 DEF Order, StatusIsPending
      <3> QED BY <3>1, <3>2
    <2>3. \A j \in Pending' : program.modules[j].type \in Latches
            => status'[program.modules[j].type] # None
      <3> SUFFICES ASSUME NEW j \in Pending', program.modules[j].type \in Latches
                   PROVE  status'[program.modules[j].type] # None
        OBVIOUS
      <3>1. CASE program.modules[j].type = t
        BY <3>1, <2>1, <1>3
      <3>2. CASE program.modules[j].type # t
        <4>1. j \in Pending
          BY <3>2, <1>2, <1>6
        <4>2. status[program.modules[j].type] # None
          BY <4>1, <1>1 DEF Order, StatusIsPending
        <4> QED BY <3>2, <4>2, <2>1
      <3> QED BY <3>1, <3>2
    <2> QED BY <1>1, <2>2, <2>3 DEF StatusIsPending
  <1>9. Prepares(idx)
    <2>1. ASSUME NEW i \in 1..idx - 1, program.modules[i].type = t, Prepared(i)
          PROVE  FALSE
      <3>1. i \in Pending
        BY <1>1, <2>1 DEF Pending
      <3> QED BY <3>1, <1>1, <1>2, <2>1 DEF Order, StatusIsPending
    <2> QED BY <1>1, <1>2, <2>1 DEF Prepares, m
  <1>10. PreparedBefore'
    BY <1>1, <1>9, Static DEF Order, PreparedBefore
  <1> QED BY <1>4, <1>7, <1>8, <1>10 DEF Order

(* The prepare pass ends at its first error, or after the last module.      *)
LEMMA PrepareOverOrder ==
  ASSUME TypeOK, Sound, Order, PrepareRefuse \/ PrepareEnd
  PROVE  Order'
  <1>1. /\ idx \in 1..N + 1 /\ N \in Nat
        /\ pc = "prepare" /\ pc' \in {"start", "print"} /\ idx' = 1
        /\ UNCHANGED <<program, commandQueue, status, round>>
    BY Typed DEF PrepareRefuse, PrepareEnd, InPass, Over, AfterPrepare, TypeOK
  <1>2. \A j \in idx..N : ~Prepared(j)
    <2>1. CASE PrepareRefuse
      <3>1. idx \in Nat /\ RefusedAt(idx)
        BY <1>1, <2>1 DEF PrepareRefuse, RefusedAt, m
      <3>2. \A j \in idx..N : idx \in 1..j
        BY <1>1
      <3> QED BY <3>1, <3>2 DEF Prepared, Reached
    <2>2. CASE PrepareEnd
      BY <2>2, <1>1 DEF PrepareEnd
    <2> QED BY <2>1, <2>2
  <1>3. Pending' = Pending
    <2>1. Pending' = {j \in 1..N : Prepared(j)}
      BY <1>1, Static DEF Pending
    <2>2. Pending = {j \in 1..N : Prepared(j) /\ j < idx}
      BY <1>1 DEF Pending
    <2>3. \A j \in 1..N : j < idx \/ j \in idx..N
      BY <1>1
    <2> QED BY <2>1, <2>2, <2>3, <1>2
  <1>4. QueueIsPending' /\ StatusIsPending'
    BY <1>1, <1>3, SamePending DEF Order
  <1>5. \A j \in 1..N : Prepares(j)
    <2> SUFFICES ASSUME NEW j \in 1..N PROVE Prepares(j)
      OBVIOUS
    <2>1. CASE j \in 1..idx - 1
      BY <1>1, <2>1 DEF Order, PreparedBefore
    <2>2. CASE j \in idx..N
      BY <1>2, <2>2 DEF Prepares
    <2> QED BY <1>1, <2>1, <2>2
  <1>6. NotRefusedYet' /\ PreparedBefore'
    BY <1>1, <1>5, Static DEF NotRefusedYet, PreparedBefore
  <1> QED BY <1>4, <1>6 DEF Order

LEMMA StartOrder ==
  ASSUME TypeOK, Sound, Order, StartsAtFirst, Start
  PROVE  Order'
  <1>1. /\ pc = "start" /\ pc' = "print" /\ idx = 1 /\ idx' = 1
        /\ UNCHANGED <<program, commandQueue, status, round>>
    BY DEF Start, StartsAtFirst
  <1>2. Pending' = Pending
    BY <1>1, Static DEF Pending
  <1>3. QueueIsPending' /\ StatusIsPending'
    BY <1>1, <1>2, SamePending DEF Order
  <1>4. NotRefusedYet' /\ PreparedBefore'
    BY <1>1, Static DEF Order, NotRefusedYet, PreparedBefore
  <1> QED BY <1>3, <1>4 DEF Order

LEMMA NextRoundOrder ==
  ASSUME TypeOK, Sound, Order, StartsAtFirst, NextRound
  PROVE  Order'
  <1>1. /\ pc = "boundary" /\ pc' = "prepare" /\ idx = 1 /\ idx' = 1
        /\ UNCHANGED <<program, commandQueue, status>>
    BY DEF NextRound, StartsAtFirst
  <1>2. Pending = {} /\ Pending' = {}
    BY <1>1, Static DEF Pending
  <1>3. commandQueue = <<>> /\ \A t \in Latches : status[t] = None
    BY <1>2, NothingPending DEF Order
  <1>4. QueueIsPending' /\ StatusIsPending'
    BY <1>1, <1>2, <1>3 DEF QueueIsPending, StatusIsPending, Queued
  <1>5. NotRefusedYet' /\ PreparedBefore'
    BY <1>1, Static DEF Order, NotRefusedYet, PreparedBefore
  <1> QED BY <1>4, <1>5 DEF Order

-----------------------------------------------------------------------------
(* The print pass: a step over module idx that leaves the queue alone.      *)
LEMMA PrintAdvance ==
  ASSUME TypeOK, Sound, Order, InPass("print"), Advance
  PROVE  /\ ~RefusedAt(idx) => NotRefusedYet'
         /\ PreparedBefore'
         /\ Pending' = Pending \ {idx}
         /\ (idx \notin Queued /\ UNCHANGED commandQueue) => QueueIsPending'
         /\ (\A t \in Latches : status[t] # None => status[t].owner # idx)
              /\ UNCHANGED status => StatusIsPending'
  <1>1. /\ idx \in 1..N /\ N \in Nat
        /\ pc = "print" /\ pc' = "print" /\ idx' = idx + 1
        /\ UNCHANGED <<program, round>>
    BY Typed DEF InPass, Advance
  <1>2. ~RefusedAt(idx) => NotRefusedYet'
    BY <1>1, Static DEF Order, NotRefusedYet
  <1>3. PreparedBefore'
    BY <1>1, Static DEF Order, PreparedBefore
  <1>4. Pending' = Pending \ {idx}
    <2>1. Pending' = {j \in 1..N : Prepared(j) /\ j >= idx + 1}
      BY <1>1, Static DEF Pending
    <2>2. Pending = {j \in 1..N : Prepared(j) /\ j >= idx}
      BY <1>1 DEF Pending
    <2>3. \A j \in 1..N : j >= idx + 1 <=> (j >= idx /\ j # idx)
      BY <1>1
    <2> QED BY <2>1, <2>2, <2>3
  <1>5. ASSUME idx \notin Queued, UNCHANGED commandQueue
        PROVE  QueueIsPending'
    <2>1. Queued' = Queued
      BY <1>1, <1>4, <1>5, Static DEF Queued
    <2> QED BY <1>1, <1>5, <2>1 DEF Order, QueueIsPending
  <1>6. ASSUME \A t \in Latches : status[t] # None => status[t].owner # idx,
               UNCHANGED status
        PROVE  StatusIsPending'
    BY <1>1, <1>4, <1>6 DEF Order, StatusIsPending
  <1> QED BY <1>2, <1>3, <1>4, <1>5, <1>6

LEMMA PrintSkipOrder ==
  ASSUME TypeOK, Sound, Order, PrintSkip \/ PrintOther, pc' # "exited"
  PROVE  Order'
  <1>1. /\ InPass("print") /\ Advance
        /\ UNCHANGED <<commandQueue, status>>
    BY DEF PrintSkip, PrintOther, Exit
  <1>2. Prepared(idx) => m.type = "other" /\ m = program.modules[idx]
    BY SkippedIsNotPrepared DEF PrintSkip, PrintOther, Prepared, m
  <1>3. ~RefusedAt(idx)
    BY SkippedIsNotPrepared DEF PrintSkip, PrintOther, RefusedAt, m
  <1>4. idx \notin Queued
    BY <1>2 DEF Queued, Pending, Queues
  <1>5. \A t \in Latches : status[t] # None => status[t].owner # idx
    BY <1>2, LatchesAssumption DEF Order, StatusIsPending, Pending
  <1> QED BY <1>1, <1>3, <1>4, <1>5, PrintAdvance DEF Order

LEMMA PrintCommandOrder ==
  ASSUME TypeOK, Sound, Order, PrintCommand
  PROVE  /\ Order'
         /\ /\ printed'.owner = idx /\ printed'.idx = idx
            /\ printed'.preparedIn = round /\ printed'.printedIn = round
  <1>1. /\ InPass("print") /\ Advance /\ UNCHANGED status
        /\ Prints(m) /\ ffDetectCommand
    BY DEF PrintCommand
  <1>2. m = program.modules[idx] /\ m.type = "command" /\ idx \in 1..N
    BY DEF PrintCommand, m, InPass
  <1>3. ~RefusedAt(idx)
    BY <1>2 DEF RefusedAt
  <1>4. \A t \in Latches : status[t] # None => status[t].owner # idx
    BY <1>2, LatchesAssumption DEF Order, StatusIsPending
  <1>5. CASE ~m.parallel
    <2>1. idx \notin Queued
      BY <1>2, <1>5 DEF Queued, Queues
    <2>2. UNCHANGED commandQueue /\ printed' = Result(Mine)
      BY <1>1, <1>5 DEF ffDetectCommand
    <2>3. Order'
      BY <1>1, <1>3, <1>4, <2>1, <2>2, PrintAdvance DEF Order
    <2> QED BY <2>2, <2>3 DEF Result, Mine
  <1>6. CASE m.parallel
    <2>1. ~Gated(m)
      BY <1>1, <1>2, <1>6 DEF Prints, PrintRefuses
    <2>2. Prepared(idx)
      BY <1>1, <1>2, <2>1, PrintedWasPrepared DEF Order
    <2>3. idx \in Queued
      BY <1>1, <1>2, <1>6, <2>2 DEF Queued, Queues, Pending, InPass
    <2>4. /\ commandQueue \in Seq(Sources)
          /\ commandQueue # <<>>
          /\ commandQueue[1].owner = idx /\ commandQueue[1].round = round
          /\ \A k \in 2..Len(commandQueue) : commandQueue[k].owner # idx
      BY <1>1, <2>3, HeadIsMine DEF Order, TypeOK
    <2> DEFINE n == Len(commandQueue)
               q == Tail(commandQueue)
    <2>5. /\ n \in Nat \ {0} /\ Len(q) = n - 1
          /\ \A k \in 1..n - 1 : q[k] = commandQueue[k + 1]
          /\ Head(commandQueue) = commandQueue[1] /\ commandQueue[1] \in Sources
      BY <2>4, HeadTailProperties, EmptySeq
    <2>6. Shifted = commandQueue[1] /\ Shifted # None
      BY <2>4, <2>5, Typed DEF Shifted
    <2>7. printed' = Result(commandQueue[1]) /\ commandQueue' = q
      BY <1>1, <1>6, <2>5, <2>6 DEF ffDetectCommand
    <2>8. /\ Queued' = Queued \ {idx}
          /\ NotRefusedYet' /\ PreparedBefore' /\ StatusIsPending'
          /\ UNCHANGED <<program, round>>
      <3>1. UNCHANGED <<program, round>>
        BY <1>1 DEF Advance
      <3>2. Pending' = Pending \ {idx}
        BY <1>1, PrintAdvance
      <3>3. Queued' = Queued \ {idx}
        BY <3>1, <3>2, Static DEF Queued
      <3> QED BY <1>1, <1>3, <1>4, <3>1, <3>3, PrintAdvance
    <2>9. /\ \A k \in 1..n : commandQueue[k].owner \in Queued
                             /\ commandQueue[k].round = round
          /\ \A k, l \in 1..n : k < l => commandQueue[k].owner < commandQueue[l].owner
          /\ \A j \in Queued : \E k \in 1..n : commandQueue[k].owner = j
      BY DEF Order, QueueIsPending
    <2>10. QueueIsPending'
      <3> HIDE DEF n, q
      <3>1. \A k \in 1..n - 1 : k + 1 \in 1..n /\ k + 1 \in 2..n
        BY <2>5
      <3>2. \A k \in 2..n : commandQueue[k].owner # idx
        BY <2>4 DEF n
      <3>3. \A k \in 1..n - 1 : q[k].owner \in Queued \ {idx} /\ q[k].round = round
        <4> SUFFICES ASSUME NEW k \in 1..n - 1
                     PROVE  q[k].owner \in Queued \ {idx} /\ q[k].round = round
          OBVIOUS
        <4>1. q[k] = commandQueue[k + 1] /\ k + 1 \in 1..n /\ k + 1 \in 2..n
          BY <2>5, <3>1
        <4> QED BY <4>1, <2>9, <3>2
      <3>4. \A k, l \in 1..n - 1 : k < l => q[k].owner < q[l].owner
        <4> SUFFICES ASSUME NEW k \in 1..n - 1, NEW l \in 1..n - 1, k < l
                     PROVE  q[k].owner < q[l].owner
          OBVIOUS
        <4>1. /\ q[k] = commandQueue[k + 1] /\ q[l] = commandQueue[l + 1]
              /\ k + 1 \in 1..n /\ l + 1 \in 1..n
          BY <2>5, <3>1
        <4>2. k + 1 < l + 1
          BY <2>5
        <4> QED BY <4>1, <4>2, <2>9
      <3>5. \A j \in Queued \ {idx} : \E k \in 1..n - 1 : q[k].owner = j
        <4> SUFFICES ASSUME NEW j \in Queued, j # idx
                     PROVE  \E k \in 1..n - 1 : q[k].owner = j
          OBVIOUS
        <4>1. PICK k \in 1..n : commandQueue[k].owner = j
          BY <2>9
        <4>2. k # 1
          BY <4>1, <2>4
        <4>3. k - 1 \in 1..n - 1 /\ (k - 1) + 1 = k
          BY <4>2, <2>5
        <4> QED BY <4>1, <4>3, <2>5
      <3> QED BY <2>5, <2>7, <2>8, <3>3, <3>4, <3>5 DEF QueueIsPending
    <2>11. Order'
      BY <2>8, <2>10 DEF Order
    <2> QED BY <2>4, <2>7, <2>11 DEF Result
  <1> QED BY <1>5, <1>6

LEMMA PrintLatchOrder ==
  ASSUME TypeOK, Sound, Order, PrintLatch, pc' # "exited"
  PROVE  /\ Order'
         /\ \E s \in Sources :
              /\ printed' = Result(s) /\ s.round = round
              /\ s.owner = idx \/ /\ m.type \in Latches
                                  /\ Shared(m.type, idx)
  <1> DEFINE t == m.type
             s == IF status[t] = None THEN Mine ELSE status[t]
  <1>1. /\ InPass("print") /\ Advance /\ UNCHANGED commandQueue
        /\ printed' = Result(s) /\ status' = [status EXCEPT ![t] = None]
    BY DEF PrintLatch, ffDetectLatch, Exit
  <1>2. m = program.modules[idx] /\ t \in Latches /\ t # "command" /\ t # "broken"
    BY LatchesAssumption DEF PrintLatch, m
  <1>3. ~RefusedAt(idx) /\ idx \notin Queued
    BY <1>2 DEF RefusedAt, Queued, Queues
  <1>4. /\ NotRefusedYet' /\ PreparedBefore' /\ QueueIsPending'
        /\ Pending' = Pending \ {idx} /\ UNCHANGED <<program, round>>
        /\ pc' = "print"
    BY <1>1, <1>3, PrintAdvance DEF InPass, Advance
  <1>5. StatusIsPending'
    <2>1. DOMAIN status = Latches
      BY DEF TypeOK
    <2>2. status'[t] = None /\ \A u \in Latches : u # t => status'[u] = status[u]
      BY <1>1, <1>2, <2>1
    <2> HIDE DEF t
    <2>3. ASSUME NEW u \in Latches, status'[u] # None
          PROVE  /\ status'[u].owner \in Pending'
                 /\ program.modules[status'[u].owner].type = u
                 /\ status'[u].round = round
      <3>1. u # t /\ status'[u] = status[u]
        BY <2>2, <2>3
      <3>2. /\ status[u].owner \in Pending
            /\ program.modules[status[u].owner].type = u
            /\ status[u].round = round
        BY <2>3, <3>1 DEF Order, StatusIsPending
      <3>3. status[u].owner # idx
        BY <1>2, <3>1, <3>2 DEF t
      <3> QED BY <1>4, <3>1, <3>2, <3>3
    <2> QED BY <1>4, <2>3 DEF StatusIsPending
  <1>6. s \in Sources /\ s.round = round /\ (s.owner = idx \/ Shared(t, idx))
    <2>1. CASE status[t] = None
      BY <1>1, <2>1, Typed DEF Mine, InPass
    <2>2. CASE status[t] # None
      <3>1. status[t] \in Sources
        BY <1>2, <2>2 DEF TypeOK
      <3>2. /\ status[t].owner \in Pending
            /\ program.modules[status[t].owner].type = t
            /\ status[t].round = round
        BY <1>2, <2>2 DEF Order, StatusIsPending
      <3>3. status[t].owner \in 1..N
        BY <3>2 DEF Pending
      <3> QED BY <2>2, <3>1, <3>2, <3>3 DEF Shared
    <2> QED BY <2>1, <2>2
  <1> HIDE DEF s
  <1>7. Order'
    BY <1>4, <1>5 DEF Order
  <1> QED BY <1>1, <1>2, <1>6, <1>7

(* The print pass ends after the last module, or at a broken one: nothing   *)
(* was prepared past it.                                                    *)
LEMMA PrintOverOrder ==
  ASSUME TypeOK, Sound, Order, PrintRefuse \/ PrintEnd
  PROVE  Order' /\ Pending = {}
  <1>1. /\ idx \in 1..N + 1 /\ N \in Nat
        /\ pc = "print" /\ pc' = "boundary" /\ idx' = 1
        /\ UNCHANGED <<program, commandQueue, status, round>>
    BY Typed DEF PrintRefuse, PrintEnd, InPass, Over, TypeOK
  <1>2. \A j \in idx..N : ~Prepared(j)
    <2>1. CASE PrintRefuse
      <3>1. idx \in 1..N /\ m = program.modules[idx] /\ InPass("print")
        BY <2>1 DEF PrintRefuse, InPass, m
      <3>2. ~PrintRefuses(m)
        BY <3>1 DEF Sound, PrintRefuses
      <3>3. Prints(m) /\ m.type = "broken"
        BY <2>1, <3>2 DEF PrintRefuse
      <3>4. ~PrepareSkips(m)
        BY <3>1, <3>3, PrintedWasPrepared DEF Sound, Order
      <3>5. RefusedAt(idx)
        BY <3>1, <3>3, <3>4 DEF RefusedAt
      <3>6. \A j \in idx..N : idx \in 1..j
        BY <3>1, <1>1
      <3> QED BY <3>5, <3>6 DEF Prepared, Reached
    <2>2. CASE PrintEnd
      BY <2>2, <1>1 DEF PrintEnd
    <2> QED BY <2>1, <2>2
  <1>3. Pending = {} /\ Pending' = {}
    <2>1. \A j \in 1..N : j >= idx => j \in idx..N
      BY <1>1
    <2> QED BY <1>1, <1>2, <2>1 DEF Pending
  <1>4. QueueIsPending' /\ StatusIsPending'
    BY <1>1, <1>3, SamePending DEF Order
  <1>5. NotRefusedYet' /\ PreparedBefore'
    BY <1>1, Static DEF Order, NotRefusedYet, PreparedBefore
  <1> QED BY <1>3, <1>4, <1>5 DEF Order

-----------------------------------------------------------------------------
(* Every step keeps the bookkeeping of a program that goes on.              *)
LEMMA OrderStep ==
  ASSUME TypeOK, Sound, Order, StartsAtFirst, Next, pc' \notin {"finished", "exited"}
  PROVE  Order'
  <1>1. CASE PreparePass
    BY <1>1, PrepareSkipOrder, PrepareCommandOrder, PrepareLatchOrder,
       PrepareOverOrder DEF PreparePass
  <1>2. CASE PrintPass
    BY <1>2, PrintSkipOrder, PrintCommandOrder, PrintLatchOrder, PrintOverOrder
    DEF PrintPass
  <1>3. CASE Start \/ NextRound \/ Finish \/ Signal
    BY <1>3, StartOrder, NextRoundOrder DEF Finish, Signal
  <1> QED BY <1>1, <1>2, <1>3 DEF Next

(* The end: nothing is pending, and nothing is started any more.            *)
LEMMA FinishOrder ==
  ASSUME TypeOK, Order, Finish
  PROVE  Order'
  <1>1. /\ pc = "boundary" /\ pc' = "finished"
        /\ UNCHANGED <<program, commandQueue, status, round>>
    BY DEF Finish
  <1>2. Pending' = Pending
    BY <1>1, Static DEF Pending
  <1>3. QueueIsPending' /\ StatusIsPending'
    BY <1>1, <1>2, SamePending DEF Order
  <1>4. NotRefusedYet' /\ PreparedBefore'
    BY <1>1, Static DEF Order, NotRefusedYet, PreparedBefore
  <1> QED BY <1>3, <1>4 DEF Order

(* A step that prints a result prints that of the module it is at.          *)
LEMMA PairedStep ==
  ASSUME TypeOK, Sound, Order, ResultsArePaired, Next
  PROVE  ResultsArePaired'
  <1>1. UNCHANGED program
    BY DEF Next, PreparePass, PrintPass, PrepareSkip, PrepareRefuse, PrepareCommand,
           PrepareLatch, PrepareOther, PrepareEnd, Start, PrintSkip, PrintRefuse,
           PrintCommand, PrintLatch, PrintOther, PrintEnd, NextRound, Finish,
           Signal, Advance, Over, Exit
  <1>2. CASE PrintCommand
    BY <1>2, PrintCommandOrder DEF ResultsArePaired
  <1>3. CASE PrintLatch /\ pc' # "exited"
    <2>1. PICK s \in Sources :
            /\ printed' = Result(s) /\ s.round = round
            /\ s.owner = idx \/ (m.type \in Latches /\ Shared(m.type, idx))
      BY <1>3, PrintLatchOrder
    <2>2. /\ printed'.preparedIn = round /\ printed'.printedIn = round
          /\ printed'.idx = idx /\ printed'.owner = s.owner
      BY <2>1 DEF Result
    <2>3. m = program'.modules[printed'.idx]
      BY <1>1, <2>2 DEF m
    <2>4. Shared(m.type, idx) =>
            Shared(program.modules[printed.idx].type, printed.idx)'
      BY <1>1, <2>2, <2>3 DEF Shared, N
    <2> QED BY <2>1, <2>2, <2>3, <2>4 DEF ResultsArePaired
  <1>4. CASE UNCHANGED printed
    <2>1. Shared(program.modules[printed.idx].type, printed.idx) <=>
            Shared(program.modules[printed.idx].type, printed.idx)'
      BY <1>1, <1>4 DEF Shared, N
    <2> QED BY <1>1, <1>4, <2>1 DEF ResultsArePaired
  <1>5. CASE PrintLatch /\ pc' = "exited"
    <2>1. UNCHANGED printed
      BY <1>5 DEF PrintLatch, Advance, Exit, InPass
    <2> QED BY <2>1, <1>4
  <1>6. CASE PreparePass \/ Start \/ NextRound \/ Finish \/ Signal
    <2>1. UNCHANGED printed
      BY <1>6 DEF PreparePass, PrepareSkip, PrepareRefuse, PrepareCommand,
           PrepareLatch, PrepareOther, PrepareEnd, Start, NextRound, Finish,
           Signal, Exit
    <2> QED BY <2>1, <1>4
  <1>7. CASE PrintSkip \/ PrintRefuse \/ PrintOther \/ PrintEnd
    <2>1. UNCHANGED printed
      BY <1>7 DEF PrintSkip, PrintRefuse, PrintOther, PrintEnd, Exit
    <2> QED BY <2>1, <1>4
  <1> QED BY <1>2, <1>3, <1>5, <1>6, <1>7 DEF Next, PrintPass

(* An error of a module's options ends the program before ffStart, or is    *)
(* one that only the print pass can find.                                   *)
LEMMA ExitStep ==
  ASSUME TypeOK, Sound, Order, AlteredLate, Next, pc # "exited", pc' = "exited",
         ~\E i \in 1..N : FatalInPrint(program.modules[i])
  PROVE  ~altered'
  <1>0. idx \in Nat /\ round \in Nat \ {0} /\ N \in Nat
    BY Typed DEF TypeOK
  <1>1. CASE Signal
    BY <1>1 DEF Signal
  <1>2. CASE PreparePass
    <2>1. pc = "prepare" /\ altered' = altered /\ idx \in 1..N
      BY <1>2 DEF PreparePass, PrepareSkip, PrepareRefuse, PrepareCommand,
                  PrepareLatch, PrepareOther, PrepareEnd, InPass, Advance, Over,
                  Exit, AfterPrepare
    <2>2. CASE round = 1
      BY <2>1, <2>2 DEF AlteredLate
    <2>3. CASE round # 1
      <3>1. Prepares(idx)
        BY <1>0, <2>1, <2>3 DEF Order, PreparedBefore
      <3>2. /\ m = program.modules[idx] /\ ~PrepareSkips(m)
            /\ \/ m.type = "command" /\ program.structure
               \/ m.type \in Latches /\ (status[m.type] # None \/ m.fatal)
        BY <1>2 DEF PreparePass, PrepareSkip, PrepareRefuse, PrepareCommand,
                    PrepareLatch, PrepareOther, PrepareEnd, Advance, Over,
                    AfterPrepare, m
      <3>3. Prepared(idx)
        <4>1. ~RefusedAt(idx)
          BY <3>2, LatchesAssumption DEF RefusedAt
        <4>2. Reached(idx)
          BY <1>0, <2>1, <4>1 DEF Order, NotRefusedYet, Reached
        <4> QED BY <3>2, <4>2 DEF Prepared
      <3>4. m.type \in Latches /\ status[m.type] # None
        BY <3>1, <3>2, <3>3 DEF Prepares
      <3>5. /\ status[m.type].owner \in 1..idx - 1 /\ Prepared(status[m.type].owner)
            /\ program.modules[status[m.type].owner].type = m.type
        BY <1>0, <2>1, <3>4 DEF Order, StatusIsPending, Pending
      <3> QED BY <3>1, <3>2, <3>3, <3>4, <3>5 DEF Prepares
    <2> QED BY <2>2, <2>3
  <1>3. CASE PrintPass
    <2>1. /\ InPass("print") /\ Prints(m) /\ m.fatal
          /\ m.type \in Latches \/ m.type = "other"
      BY <1>3 DEF PrintPass, PrintSkip, PrintRefuse, PrintCommand, PrintLatch,
                  PrintOther, PrintEnd, Advance, Over, InPass
    <2>2. m = program.modules[idx] /\ idx \in 1..N
      BY <2>1 DEF m, InPass
    <2>3. m.type \in Latches /\ ~Gated(m)
      BY <2>1, <2>2, LatchesAssumption DEF FatalInPrint
    <2>4. Prepared(idx)
      BY <2>1, <2>3, PrintedWasPrepared, LatchesAssumption DEF Order
    <2>5. Prepares(idx)
      BY <2>1, <2>2 DEF Order, PreparedBefore, InPass
    <2> QED BY <2>1, <2>2, <2>3, <2>4, <2>5 DEF Prepares
  <1>4. CASE Start \/ NextRound \/ Finish
    BY <1>4 DEF Start, NextRound, Finish
  <1> QED BY <1>1, <1>2, <1>3, <1>4 DEF Next

(* The invariant is inductive.                                              *)
LEMMA InitInv == Init => IInv
  <1> SUFFICES ASSUME Init PROVE IInv
    OBVIOUS
  <1>1. TypeOK
    BY TypeInit
  <1>2. StartsAtFirst /\ AlteredLate /\ ResultsArePaired /\ ConsoleRestored
    BY DEF Init, StartsAtFirst, AlteredLate, ResultsArePaired, ConsoleRestored
  <1>3. Pending = {}
    BY <1>1, Typed DEF Pending, Init
  <1>4. NotRefusedYet /\ QueueIsPending /\ StatusIsPending /\ PreparedBefore
    BY <1>3 DEF Init, NotRefusedYet, QueueIsPending, Queued, StatusIsPending,
                PreparedBefore
  <1> QED BY <1>1, <1>2, <1>4 DEF IInv

LEMMA StepInv == IInv /\ [Next]_vars => IInv'
  <1> SUFFICES ASSUME IInv, [Next]_vars PROVE IInv'
    OBVIOUS
  <1>1. TypeOK'
    BY TypeStep DEF IInv
  <1>2. CASE UNCHANGED vars
    <2>1. /\ UNCHANGED <<program, pc, idx, commandQueue, status, printed, altered, round>>
      BY <1>2 DEF vars
    <2>2. /\ N' = N /\ Pending' = Pending /\ Queued' = Queued
      BY <2>1, Static DEF Pending, Queued
    <2>3. (StartsAtFirst <=> StartsAtFirst') /\ (AlteredLate <=> AlteredLate')
      BY <2>1 DEF StartsAtFirst, AlteredLate
    <2>4. NotRefusedYet => NotRefusedYet'
      BY <2>1, Static DEF NotRefusedYet
    <2>5. QueueIsPending => QueueIsPending'
      BY <2>1, <2>2 DEF QueueIsPending
    <2>6. StatusIsPending => StatusIsPending'
      BY <2>1, <2>2 DEF StatusIsPending
    <2>7. PreparedBefore => PreparedBefore'
      BY <2>1, Static DEF PreparedBefore
    <2>8. ResultsArePaired => ResultsArePaired'
      BY <2>1 DEF ResultsArePaired, Shared, N
    <2>9. ConsoleRestored => ConsoleRestored'
      BY <2>1 DEF ConsoleRestored, FatalInPrint, Gated, N
    <2> QED BY <1>1, <2>1, <2>3, <2>4, <2>5, <2>6, <2>7, <2>8, <2>9, Static DEF IInv
  <1>3. CASE Next
    <2>0. UNCHANGED program
      BY <1>3 DEF Next, PreparePass, PrintPass, PrepareSkip, PrepareRefuse, PrepareCommand,
           PrepareLatch, PrepareOther, PrepareEnd, Start, PrintSkip, PrintRefuse,
           PrintCommand, PrintLatch, PrintOther, PrintEnd, NextRound, Finish,
           Signal, Advance, Over, Exit
    <2>1. pc # "exited" /\ pc # "finished"
      BY <1>3 DEF Next, PreparePass, PrintPass, PrepareSkip, PrepareRefuse, PrepareCommand,
           PrepareLatch, PrepareOther, PrepareEnd, Start, PrintSkip, PrintRefuse,
           PrintCommand, PrintLatch, PrintOther, PrintEnd, NextRound, Finish,
           Signal, InPass
    <2>2. TypeOK /\ StartsAtFirst /\ AlteredLate
      BY <2>1 DEF IInv
    <2>3. StartsAtFirst'
      BY <1>3, <2>2 DEF Next, PreparePass, PrintPass, PrepareSkip, PrepareRefuse,
           PrepareCommand, PrepareLatch, PrepareOther, PrepareEnd, Start,
           PrintSkip, PrintRefuse, PrintCommand, PrintLatch, PrintOther, PrintEnd,
           NextRound, Finish, Signal, Advance, Over, Exit, StartsAtFirst, InPass
    <2>4. pc' # "exited" => AlteredLate'
      <3>1. round \in Nat \ {0}
        BY <2>2, Typed DEF TypeOK
      <3>2. CASE Start \/ NextRound \/ Signal
        BY <3>1, <3>2, <2>2 DEF Start, NextRound, Signal, AlteredLate
      <3>5. CASE Finish
        <4>1. pc' = "finished" /\ (~program.json => ~altered') /\ program' = program
          BY <3>5 DEF Finish
        <4> QED BY <4>1 DEF AlteredLate
      <3>3. CASE PreparePass
        BY <3>3, <2>2 DEF PreparePass, PrepareSkip, PrepareRefuse,
           PrepareCommand, PrepareLatch, PrepareOther, PrepareEnd, Advance, Over,
           Exit, AfterPrepare, AlteredLate, InPass
      <3>4. CASE PrintPass
        <4>1. pc' \in {"print", "boundary", "exited"}
          BY <3>4 DEF PrintPass, PrintSkip, PrintRefuse, PrintCommand, PrintLatch,
             PrintOther, PrintEnd, Advance, Over, Exit, InPass
        <4> QED BY <4>1 DEF AlteredLate
      <3> QED BY <1>3, <3>2, <3>3, <3>4, <3>5 DEF Next
    <2>5. CASE ~Sound
      <3>1. ~Sound'
        BY <2>0, <2>5, Static
      <3> QED BY <1>1, <2>3, <2>4, <3>1 DEF IInv
    <2>6. CASE Sound
      <3>1. Order /\ ResultsArePaired
        BY <2>1, <2>6 DEF IInv, Order
      <3>2. pc' # "exited" => Order'
        <4>1. CASE pc' # "finished"
          BY <4>1, <1>3, <2>2, <2>6, <3>1, OrderStep
        <4>2. CASE pc' = "finished"
          <5>1. Finish
            BY <4>2, <1>3 DEF Next, PreparePass, PrintPass, PrepareSkip, PrepareRefuse,
               PrepareCommand, PrepareLatch, PrepareOther, PrepareEnd, Start,
               PrintSkip, PrintRefuse, PrintCommand, PrintLatch, PrintOther,
               PrintEnd, NextRound, Signal, Advance, Over, Exit, InPass,
               AfterPrepare
          <5> QED BY <5>1, <2>2, <3>1, FinishOrder
        <4> QED BY <4>1, <4>2
      <3>3. ResultsArePaired'
        BY <1>3, <2>2, <2>6, <3>1, PairedStep
      <3>4. ConsoleRestored'
        <4>1. (\E i \in 1..N : FatalInPrint(program.modules[i]))'
                <=> \E i \in 1..N : FatalInPrint(program.modules[i])
          BY <2>0 DEF FatalInPrint, Gated, N
        <4>2. CASE pc' = "exited"
          BY <4>1, <4>2, <1>3, <2>1, <2>2, <2>6, <3>1, ExitStep DEF ConsoleRestored
        <4>3. CASE pc' = "finished"
          BY <4>3, <2>4 DEF AlteredLate, ConsoleRestored
        <4>4. CASE pc' \notin {"finished", "exited"}
          BY <4>4 DEF ConsoleRestored
        <4> QED BY <4>2, <4>3, <4>4
      <3> QED BY <1>1, <2>3, <2>4, <3>2, <3>3, <3>4 DEF IInv, Order
    <2> QED BY <2>5, <2>6
  <1> QED BY <1>2, <1>3

LEMMA Inductive == Spec => []IInv
  BY InitInv, StepInv, PTL DEF Spec

(* What was prepared for a module is printed by that module, in that round. *)
THEOREM PairedTheorem == Spec => [](Sound => ResultsArePaired)
  <1>1. IInv => (Sound => ResultsArePaired)
    BY DEF IInv
  <1> QED BY <1>1, Inductive, PTL

(* No process and no request outlives the round it was started in.          *)
THEOREM DrainedTheorem == Spec => [](Sound => Drained)
  <1>1. IInv => (Sound => Drained)
    <2> SUFFICES ASSUME IInv, Sound, pc \in {"boundary", "finished"}
                 PROVE  commandQueue = <<>> /\ \A t \in Latches : status[t] = None
      BY DEF Drained
    <2>1. TypeOK /\ QueueIsPending /\ StatusIsPending
      BY DEF IInv
    <2>2. Pending = {}
      BY DEF Pending
    <2> QED BY <2>1, <2>2, NothingPending
  <1> QED BY <1>1, Inductive, PTL

(* "... can only be used once" is the answer to a second use, in any round. *)
THEOREM OnceOnlyTheorem == Spec => [](Sound => OnceOnly)
  <1>1. IInv => (Sound => OnceOnly)
    <2> SUFFICES ASSUME IInv, Sound, InPass("prepare"), m.type \in Latches,
                        status[m.type] # None
                 PROVE  \E j \in 1..idx - 1 : /\ program.modules[j].type = m.type
                                              /\ Prepared(j)
      BY DEF OnceOnly
    <2>1. TypeOK /\ StatusIsPending
      BY DEF IInv, InPass
    <2>2. /\ status[m.type].owner \in Pending
          /\ program.modules[status[m.type].owner].type = m.type
      BY <2>1 DEF StatusIsPending
    <2>3. status[m.type].owner \in 1..idx - 1 /\ Prepared(status[m.type].owner)
      BY <2>1, <2>2, Typed DEF Pending, InPass
    <2> QED BY <2>2, <2>3
  <1> QED BY <1>1, Inductive, PTL

(* The terminal is as it was when fastfetch ends, unless an error ends it   *)
(* that only printing the module finds.                                     *)
THEOREM RestoredTheorem == Spec => [](Sound => ConsoleRestored)
  <1>1. IInv => (Sound => ConsoleRestored)
    BY DEF IInv
  <1> QED BY <1>1, Inductive, PTL
-----------------------------------------------------------------------------
(* Formats: first, the least of some numbers, and the greatest.             *)
LEMMA MinOf ==
  ASSUME NEW S \in SUBSET Nat, S # {}
  PROVE  Min(S) \in S /\ \A x \in S : Min(S) <= x
  <1>1. \E x \in S : \A y \in S : x =< y
    BY LeastElement
  <1> QED BY <1>1 DEF Min

LEMMA MaxOf ==
  ASSUME NEW b \in Nat, NEW S \in SUBSET (0..b), S # {}
  PROVE  Max(S) \in S /\ \A x \in S : x <= Max(S)
  <1> DEFINE T == {n \in Nat : \E x \in S : n = b - x}
  <1>1. T \in SUBSET Nat /\ T # {}
    <2>1. PICK x \in S : TRUE
      OBVIOUS
    <2>2. b - x \in Nat
      OBVIOUS
    <2> QED BY <2>1, <2>2
  <1>2. PICK n \in T : \A k \in T : n <= k
    BY <1>1, LeastElement
  <1>3. PICK x \in S : n = b - x
    BY <1>2
  <1>4. \A y \in S : b - y \in T
    OBVIOUS
  <1>5. \A y \in S : x >= y
    BY <1>2, <1>3, <1>4
  <1>6. \E z \in S : \A y \in S : z >= y
    BY <1>5
  <1> HIDE DEF T
  <1>7. Max(S) \in S /\ \A y \in S : Max(S) >= y
    BY <1>6 DEF Max
  <1>8. \A y \in S : y \in Int
    OBVIOUS
  <1> QED BY <1>7, <1>8

(* What is past the bytes at a place.                                       *)
LEMMA PastIs ==
  ASSUME NEW C, NEW s \in Seq(C), NEW n \in 1..(Len(s) + 1), NEW bytes,
         NEW e, e = Past(s, n, bytes)
  PROVE  /\ e \in n..(Len(s) + 1)
         /\ \A i \in n..(e - 1) : s[i] \in bytes
         /\ e <= Len(s) => s[e] \notin bytes
  <1> DEFINE S == {i \in n..Len(s) : s[i] \notin bytes} \cup {Len(s) + 1}
  <1>1. S \in SUBSET Nat /\ S # {} /\ e = Min(S)
    BY DEF Past
  <1>2. e \in S /\ \A x \in S : e <= x
    BY <1>1, MinOf
  <1> QED BY <1>2

(* It is the only such place.                                               *)
LEMMA PastAt ==
  ASSUME NEW C, NEW s \in Seq(C), NEW n \in 1..(Len(s) + 1), NEW bytes,
         NEW e \in n..Len(s), \A i \in n..(e - 1) : s[i] \in bytes, s[e] \notin bytes
  PROVE  Past(s, n, bytes) = e
  <1> DEFINE f == Past(s, n, bytes)
  <1> HIDE DEF f
  <1>1. /\ f \in n..(Len(s) + 1)
        /\ \A i \in n..(f - 1) : s[i] \in bytes
        /\ f <= Len(s) => s[f] \notin bytes
    BY PastIs DEF f
  <1>2. ~(f < e)
    BY <1>1
  <1>3. ~(e < f)
    BY <1>1
  <1> QED BY <1>1, <1>2, <1>3 DEF f

LEMMA PastAll ==
  ASSUME NEW C, NEW s \in Seq(C), NEW n \in Nat, n > Len(s), NEW bytes
  PROVE  Past(s, n, bytes) = Len(s) + 1
  <1> DEFINE S == {i \in n..Len(s) : s[i] \notin bytes} \cup {Len(s) + 1}
  <1>1. S \in SUBSET Nat /\ S # {} /\ Past(s, n, bytes) = Min(S)
    BY DEF Past
  <1>2. \A x \in S : x = Len(s) + 1
    OBVIOUS
  <1> HIDE DEF S
  <1> QED BY <1>1, <1>2, MinOf

-----------------------------------------------------------------------------
(* A whole escape of a length, at a place.                                  *)
IsEscape(s, p, l) ==
  /\ p \in 1..Len(s) /\ l \in 3..(Len(s) + 1 - p)
  /\ s[p] = "ESC" /\ s[p + 1] = "["
  /\ \E k \in (p + 2)..(p + l - 1) :
       /\ \A i \in (p + 2)..(k - 1) : s[i] \in ParameterBytes
       /\ \A i \in k..(p + l - 2) : s[i] \in IntermediateBytes
  /\ s[p + l - 1] \in FinalBytes

(* ansiEscapeLength finds the one at a place, if there is one.              *)
LEMMA LengthIs ==
  ASSUME NEW C, NEW s \in Seq(C), NEW p \in 1..(Len(s) + 1), NEW l, l = EscapeLength(s, p)
  PROVE  l \in Nat /\ (l # 0 => IsEscape(s, p, l))
  <1> DEFINE k == Past(s, p + 2, ParameterBytes)
             e == Past(s, k, IntermediateBytes)
  <1>1. CASE p + 2 <= Len(s) + 1
    <2>1. /\ k \in (p + 2)..(Len(s) + 1)
          /\ \A i \in (p + 2)..(k - 1) : s[i] \in ParameterBytes
      BY <1>1, PastIs
    <2> HIDE DEF k
    <2>2. /\ e \in k..(Len(s) + 1)
          /\ \A i \in k..(e - 1) : s[i] \in IntermediateBytes
      BY <2>1, PastIs
    <2>3. l = IF e <= Len(s) /\ s[p] = "ESC" /\ s[p + 1] = "[" /\ s[e] \in FinalBytes
              THEN e + 1 - p ELSE 0
      BY DEF EscapeLength, k
    <2> HIDE DEF e
    <2>4. CASE l = 0
      BY <2>4
    <2>5. CASE l # 0
      <3>1. e <= Len(s) /\ s[p] = "ESC" /\ s[p + 1] = "[" /\ s[e] \in FinalBytes /\ l = e + 1 - p
        BY <2>3, <2>5
      <3>2. p \in 1..Len(s) /\ l \in 3..(Len(s) + 1 - p) /\ p + l - 1 = e /\ p + l - 2 = e - 1
        BY <2>1, <2>2, <3>1
      <3>3. k \in (p + 2)..e
        BY <2>1, <2>2
      <3>4. /\ \A i \in (p + 2)..(k - 1) : s[i] \in ParameterBytes
            /\ \A i \in k..(p + l - 2) : s[i] \in IntermediateBytes
            /\ k \in (p + 2)..(p + l - 1) /\ s[p + l - 1] \in FinalBytes
        BY <2>1, <2>2, <3>1, <3>2, <3>3
      <3>5. s[p] = "ESC" /\ s[p + 1] = "["
        BY <3>1
      <3>6. IsEscape(s, p, l)
        BY <3>2, <3>4, <3>5, Zenon DEF IsEscape
      <3>7. l \in Nat
        BY <3>2
      <3> QED BY <3>6, <3>7
    <2> QED BY <2>4, <2>5
  <1>2. CASE p + 2 > Len(s) + 1
    <2>1. k = Len(s) + 1
      BY <1>2, PastAll
    <2>2. Past(s, Len(s) + 1, IntermediateBytes) = Len(s) + 1
      BY PastAll
    <2>3. e = Len(s) + 1 /\ ~(Len(s) + 1 <= Len(s))
      BY <2>1, <2>2
    <2>4. l = 0
      BY <2>3 DEF EscapeLength
    <2> QED BY <2>4
  <1> QED BY <1>1, <1>2

LEMMA LengthOf ==
  ASSUME NEW C, NEW s \in Seq(C), NEW p, NEW l, IsEscape(s, p, l)
  PROVE  EscapeLength(s, p) = l
  <1>0. p \in 1..Len(s) /\ l \in 3..(Len(s) + 1 - p)
    BY DEF IsEscape
  <1> DEFINE e == p + l - 1
  <1>1. PICK k \in (p + 2)..e :
          /\ \A i \in (p + 2)..(k - 1) : s[i] \in ParameterBytes
          /\ \A i \in k..(p + l - 2) : s[i] \in IntermediateBytes
    BY DEF IsEscape
  <1>2. s[p] = "ESC" /\ s[p + 1] = "[" /\ s[e] \in FinalBytes
    BY DEF IsEscape
  <1>3. e \in Nat /\ e - 1 = p + l - 2 /\ e <= Len(s) /\ e + 1 - p = l /\ p \in Nat
    BY <1>0
  <1> HIDE DEF e
  <1>4. s[k] \notin ParameterBytes
    <2>1. k = e \/ k \in k..(p + l - 2)
      BY <1>1, <1>3
    <2> QED BY <1>1, <1>2, <2>1, EscapeAssumption
  <1>5. k \in (p + 2)..Len(s) /\ p + 2 \in 1..(Len(s) + 1) /\ k \in 1..(Len(s) + 1) /\ e \in k..Len(s)
    BY <1>0, <1>1, <1>3
  <1>6. Past(s, p + 2, ParameterBytes) = k
    BY <1>1, <1>4, <1>5, PastAt
  <1>7. \A i \in k..(e - 1) : s[i] \in IntermediateBytes
    BY <1>1, <1>3
  <1>8. s[e] \notin IntermediateBytes
    BY <1>2, EscapeAssumption
  <1>9. Past(s, k, IntermediateBytes) = e
    BY <1>5, <1>7, <1>8, PastAt
  <1> QED BY <1>2, <1>3, <1>6, <1>9 DEF EscapeLength

(* No escape begins within another.                                         *)
LEMMA Inside ==
  ASSUME NEW s, NEW p, NEW l, IsEscape(s, p, l), NEW i \in (p + 1)..(p + l - 1),
         Len(s) \in Nat
  PROVE  s[i] # "ESC"
  <1>0. p \in 1..Len(s) /\ l \in 3..(Len(s) + 1 - p)
    BY DEF IsEscape
  <1>1. PICK k \in (p + 2)..(p + l - 1) :
          /\ \A j \in (p + 2)..(k - 1) : s[j] \in ParameterBytes
          /\ \A j \in k..(p + l - 2) : s[j] \in IntermediateBytes
    BY DEF IsEscape
  <1>2. s[p + 1] = "[" /\ s[p + l - 1] \in FinalBytes
    BY DEF IsEscape
  <1>3. i = p + 1 \/ i = p + l - 1 \/ i \in (p + 2)..(k - 1) \/ i \in k..(p + l - 2)
    BY <1>0, <1>1
  <1>4. CASE i = p + 1
    BY <1>2, <1>4
  <1>5. CASE i # p + 1
    BY <1>1, <1>2, <1>3, <1>5, EscapeAssumption
  <1> QED BY <1>4, <1>5

(* Two that share a character are the same.                                 *)
LEMMA Overlap ==
  ASSUME NEW C, NEW s \in Seq(C), NEW p, NEW l, NEW q, NEW k, NEW i,
         IsEscape(s, p, l), IsEscape(s, q, k), i \in p..(p + l - 1), i \in q..(q + k - 1)
  PROVE  p = q /\ l = k
  <1>1. /\ p \in 1..Len(s) /\ l \in 3..(Len(s) + 1 - p) /\ s[p] = "ESC"
        /\ q \in 1..Len(s) /\ k \in 3..(Len(s) + 1 - q) /\ s[q] = "ESC"
    BY DEF IsEscape
  <1>2. ~(p < q)
    <2> SUFFICES ASSUME p < q PROVE FALSE
      OBVIOUS
    <2>1. q \in (p + 1)..(p + l - 1) /\ Len(s) \in Nat
      BY <1>1
    <2> QED BY <1>1, <2>1, Inside
  <1>3. ~(q < p)
    <2> SUFFICES ASSUME q < p PROVE FALSE
      OBVIOUS
    <2>1. p \in (q + 1)..(q + k - 1) /\ Len(s) \in Nat
      BY <1>1
    <2> QED BY <1>1, <2>1, Inside
  <1>4. p = q
    BY <1>1, <1>2, <1>3
  <1>5. EscapeLength(s, p) = l /\ EscapeLength(s, q) = k
    BY LengthOf
  <1> QED BY <1>4, <1>5

(* What is an escape only depends on its own characters.                    *)
LEMMA Moved ==
  ASSUME NEW C, NEW s \in Seq(C), NEW t \in Seq(C), NEW p, NEW l, IsEscape(s, p, l),
         NEW q \in Nat \ {0}, q + l - 1 <= Len(t), \A i \in 0..(l - 1) : t[q + i] = s[p + i]
  PROVE  IsEscape(t, q, l)
  <1>0. p \in 1..Len(s) /\ l \in 3..(Len(s) + 1 - p)
    BY DEF IsEscape
  <1>1. PICK k \in (p + 2)..(p + l - 1) :
          /\ \A j \in (p + 2)..(k - 1) : s[j] \in ParameterBytes
          /\ \A j \in k..(p + l - 2) : s[j] \in IntermediateBytes
    BY DEF IsEscape
  <1>2. s[p] = "ESC" /\ s[p + 1] = "[" /\ s[p + l - 1] \in FinalBytes
    BY DEF IsEscape
  <1>3. q \in 1..Len(t) /\ l \in 3..(Len(t) + 1 - q)
    BY <1>0
  <1>4. t[q] = "ESC" /\ t[q + 1] = "[" /\ t[q + l - 1] \in FinalBytes
    <2>1. /\ 0 \in 0..(l - 1) /\ 1 \in 0..(l - 1) /\ l - 1 \in 0..(l - 1)
          /\ q + 0 = q /\ p + 0 = p /\ q + (l - 1) = q + l - 1 /\ p + (l - 1) = p + l - 1
      BY <1>0
    <2> QED BY <1>2, <2>1
  <1> DEFINE h == k - p + q
  <1>5. h \in (q + 2)..(q + l - 1)
    BY <1>0, <1>1
  <1>6. \A j \in (q + 2)..(q + l - 2) : t[j] = s[j - q + p]
    <2> TAKE j \in (q + 2)..(q + l - 2)
    <2>1. j - q \in 0..(l - 1) /\ q + (j - q) = j /\ p + (j - q) = j - q + p
      BY <1>0
    <2> QED BY <2>1
  <1>7. \A j \in (q + 2)..(h - 1) : t[j] \in ParameterBytes
    <2> TAKE j \in (q + 2)..(h - 1)
    <2>1. j \in (q + 2)..(q + l - 2) /\ j - q + p \in (p + 2)..(k - 1)
      BY <1>0, <1>1
    <2> QED BY <1>1, <1>6, <2>1
  <1>8. \A j \in h..(q + l - 2) : t[j] \in IntermediateBytes
    <2> TAKE j \in h..(q + l - 2)
    <2>1. j \in (q + 2)..(q + l - 2) /\ j - q + p \in k..(p + l - 2)
      BY <1>0, <1>1
    <2> QED BY <1>1, <1>6, <2>1
  <1> HIDE DEF h
  <1> QED BY <1>3, <1>4, <1>5, <1>7, <1>8 DEF IsEscape

-----------------------------------------------------------------------------
(* A character that is part of an escape, and a part that is made of them.  *)
InEscape(s, i) == \E p \in 1..i : \E l \in Nat : IsEscape(s, p, l) /\ i <= p + l - 1

Tiled(s, lo, hi) ==
  \A i \in lo..hi : \E p \in lo..i : \E l \in Nat :
    IsEscape(s, p, l) /\ i <= p + l - 1 /\ p + l - 1 <= hi

LEMMA HiddenIs ==
  ASSUME NEW C, NEW s \in Seq(C), NEW i
  PROVE  i \in Hidden(s) <=> i \in 1..Len(s) /\ InEscape(s, i)
  <1>1. ASSUME i \in Hidden(s) PROVE i \in 1..Len(s) /\ InEscape(s, i)
    <2>1. PICK p \in DOMAIN s : s[p] = "ESC" /\ i \in p..(p - 1 + EscapeLength(s, p))
      BY <1>1 DEF Hidden
    <2> DEFINE l == EscapeLength(s, p)
    <2>2. p \in 1..Len(s) /\ p \in 1..(Len(s) + 1)
      BY <2>1
    <2>3. l \in Nat /\ (l # 0 => IsEscape(s, p, l))
      BY <2>2, LengthIs
    <2> HIDE DEF l
    <2>4. l # 0 /\ i \in p..(p - 1 + l)
      BY <2>1, <2>2, <2>3 DEF l
    <2>5. IsEscape(s, p, l) /\ l \in 3..(Len(s) + 1 - p)
      BY <2>3, <2>4 DEF IsEscape
    <2>6. p \in 1..i /\ i <= p + l - 1 /\ i \in 1..Len(s)
      BY <2>2, <2>4, <2>5
    <2> QED BY <2>3, <2>5, <2>6 DEF InEscape
  <1>2. ASSUME i \in 1..Len(s), InEscape(s, i) PROVE i \in Hidden(s)
    <2>1. PICK p \in 1..i, l \in Nat : IsEscape(s, p, l) /\ i <= p + l - 1
      BY <1>2 DEF InEscape
    <2>2. p \in DOMAIN s /\ s[p] = "ESC"
      BY <1>2, <2>1 DEF IsEscape
    <2>3. EscapeLength(s, p) = l
      BY <2>1, LengthOf
    <2>4. i \in p..(p - 1 + EscapeLength(s, p))
      BY <1>2, <2>1, <2>3
    <2> QED BY <2>2, <2>4 DEF Hidden
  <1> QED BY <1>1, <1>2

(* A part that is made of escapes begins with one, ...                      *)
LEMMA TiledBegins ==
  ASSUME NEW s, NEW lo \in Int, NEW hi \in Int, lo <= hi, Tiled(s, lo, hi)
  PROVE  s[lo] = "ESC"
  <1>1. lo \in lo..hi
    OBVIOUS
  <1>2. PICK p \in lo..lo, l \in Nat : IsEscape(s, p, l)
    BY <1>1 DEF Tiled
  <1>3. p = lo
    OBVIOUS
  <1> QED BY <1>2, <1>3 DEF IsEscape

(* ... an escape that begins in it ends in it, ...                          *)
LEMMA TiledKeeps ==
  ASSUME NEW C, NEW s \in Seq(C), NEW lo \in Int, NEW hi \in Int, Tiled(s, lo, hi),
         NEW p \in lo..hi, NEW l, IsEscape(s, p, l)
  PROVE  p + l - 1 <= hi
  <1>1. PICK q \in lo..p, k \in Nat : IsEscape(s, q, k) /\ p <= q + k - 1 /\ q + k - 1 <= hi
    BY DEF Tiled
  <1>2. p \in p..(p + l - 1) /\ p \in q..(q + k - 1)
    BY <1>1 DEF IsEscape
  <1>3. p = q /\ l = k
    BY <1>1, <1>2, Overlap
  <1> QED BY <1>1, <1>3

(* ... and so is what it makes with one before or behind it.                *)
LEMMA TiledJoins ==
  ASSUME NEW s, NEW lo \in Int, NEW mid \in Int, NEW hi \in Int, lo <= mid, mid <= hi + 1,
         Tiled(s, lo, mid - 1), Tiled(s, mid, hi)
  PROVE  Tiled(s, lo, hi)
  <1> SUFFICES ASSUME NEW i \in lo..hi
               PROVE  \E p \in lo..i : \E l \in Nat :
                        IsEscape(s, p, l) /\ i <= p + l - 1 /\ p + l - 1 <= hi
    BY DEF Tiled
  <1>1. CASE i \in lo..(mid - 1)
    <2>1. PICK p \in lo..i, l \in Nat : IsEscape(s, p, l) /\ i <= p + l - 1 /\ p + l - 1 <= mid - 1
      BY <1>1 DEF Tiled
    <2>2. p + l - 1 <= hi
      BY <2>1
    <2> QED BY <2>1, <2>2
  <1>2. CASE i \in mid..hi
    <2>1. PICK p \in mid..i, l \in Nat : IsEscape(s, p, l) /\ i <= p + l - 1 /\ p + l - 1 <= hi
      BY <1>2 DEF Tiled
    <2>2. p \in lo..i
      BY <1>2
    <2> QED BY <2>1, <2>2
  <1>3. i \in lo..(mid - 1) \/ i \in mid..hi
    OBVIOUS
  <1> QED BY <1>1, <1>2, <1>3

LEMMA TiledOne ==
  ASSUME NEW s, NEW p, NEW l, IsEscape(s, p, l), Len(s) \in Nat
  PROVE  Tiled(s, p, p + l - 1)
  <1>1. p \in 1..Len(s) /\ l \in 3..(Len(s) + 1 - p)
    BY DEF IsEscape
  <1>2. \A i \in p..(p + l - 1) : p \in p..i /\ i <= p + l - 1
    BY <1>1
  <1>3. l \in Nat /\ p + l - 1 <= p + l - 1
    BY <1>1
  <1> QED BY <1>2, <1>3 DEF Tiled

-----------------------------------------------------------------------------
(* The escapes that a value begins with are skipped, all of them.           *)
LEMMA BehindIs ==
  ASSUME NEW C, NEW s \in Seq(C), NEW first, first = BehindEscapes(s)
  PROVE  /\ first \in 1..(Len(s) + 1)
         /\ Tiled(s, 1, first - 1)
         /\ EscapeLength(s, first) = 0
  <1> DEFINE top == Len(s) + 1
             V == 1..top
             ValueOf(f, p) == IF EscapeLength(s, p) = 0 THEN p ELSE f[p + EscapeLength(s, p)]
             stop == {p \in 1..top : EscapeLength(s, p) = 0}
             base == [p \in 1..top |-> p]
             follow == [p \in 1..top |-> IF p \in stop THEN p ELSE p + EscapeLength(s, p)]
             G == [p \in 1..top |-> [v \in V |-> v]]
             behind[p \in 1..(Len(s) + 1)] ==
               IF EscapeLength(s, p) = 0 THEN p ELSE behind[p + EscapeLength(s, p)]
  <1>1. top \in Nat /\ 1 \in 1..top
    OBVIOUS
  <1>2. ASSUME NEW p \in 1..top, EscapeLength(s, p) # 0
        PROVE  /\ EscapeLength(s, p) \in Nat /\ IsEscape(s, p, EscapeLength(s, p))
               /\ p + EscapeLength(s, p) \in 1..top /\ p < p + EscapeLength(s, p)
    <2>1. EscapeLength(s, p) \in Nat /\ IsEscape(s, p, EscapeLength(s, p))
      BY <1>2, LengthIs
    <2>2. EscapeLength(s, p) \in 3..(Len(s) + 1 - p)
      BY <2>1 DEF IsEscape
    <2> QED BY <2>1, <2>2
  <1>3. /\ follow \in [1..top -> 1..top]
        /\ \A p \in 1..top : p \notin stop => p < follow[p] /\ follow[p] = p + EscapeLength(s, p)
    BY <1>2
  <1>4. PICK f \in [1..top -> V] :
          \A p \in 1..top : f[p] = IF p \in stop THEN base[p] ELSE G[p][f[follow[p]]]
    <2>1. stop \in SUBSET (1..top) /\ base \in [1..top -> V] /\ G \in [1..top -> [V -> V]]
      OBVIOUS
    <2> HIDE DEF stop, base, follow, G, top, V
    <2>2. GoesForward(stop, base, follow, G, top, V)
      BY <1>1, <1>3, <2>1 DEF GoesForward
    <2> QED BY <2>2, FromTheEnd
  <1>5. \A p \in 1..top : f[p] = ValueOf(f, p)
    <2> SUFFICES ASSUME NEW p \in 1..top PROVE f[p] = ValueOf(f, p)
      OBVIOUS
    <2>1. CASE p \in stop
      BY <1>4, <2>1
    <2>2. CASE p \notin stop
      <3>1. f[p] = G[p][f[follow[p]]] /\ follow[p] = p + EscapeLength(s, p) /\ follow[p] \in 1..top
        <4> HIDE DEF stop, G, follow
        <4> QED BY <1>3, <1>4, <2>2
      <3>2. f[follow[p]] \in V
        <4> HIDE DEF V, follow
        <4> QED BY <1>4, <3>1
      <3>3. G[p][f[follow[p]]] = f[follow[p]]
        <4> HIDE DEF V, follow
        <4> QED BY <3>2
      <3> QED BY <2>2, <3>1, <3>3
    <2> QED BY <2>1, <2>2
  <1>6. f = [p \in 1..top |-> ValueOf(f, p)]
    <2> HIDE DEF ValueOf, top
    <2> QED BY <1>4, <1>5
  <1>7. behind = [p \in 1..top |-> ValueOf(behind, p)]
    BY <1>6
  <1>8. first = behind[1]
    BY DEF BehindEscapes
  <1> HIDE DEF behind
  <1>9. \A p \in 1..top : behind[p] = ValueOf(behind, p)
    BY <1>7
  <1> DEFINE S == {p \in 1..top : /\ behind[p] \in p..top /\ Tiled(s, p, behind[p] - 1)
                                  /\ EscapeLength(s, behind[p]) = 0}
  <1>10. ASSUME NEW p \in 1..top, \A q \in (p + 1)..top : q \in S PROVE p \in S
    <2>1. CASE EscapeLength(s, p) = 0
      <3>1. behind[p] = p
        BY <1>9, <2>1
      <3>2. Tiled(s, p, p - 1)
        BY DEF Tiled
      <3> QED BY <2>1, <3>1, <3>2
    <2>2. CASE EscapeLength(s, p) # 0
      <3> DEFINE l == EscapeLength(s, p)
                 q == p + l
      <3>1. l \in Nat /\ IsEscape(s, p, l) /\ q \in 1..top /\ p < q
        BY <1>2, <2>2
      <3>2. behind[p] = behind[q]
        BY <1>9, <2>2
      <3>3. p + l - 1 = q - 1
        BY <3>1
      <3> HIDE DEF l, q, top
      <3>4. q \in (p + 1)..top
        BY <1>1, <3>1
      <3>5. behind[q] \in q..top /\ Tiled(s, q, behind[q] - 1) /\ EscapeLength(s, behind[q]) = 0
        BY <1>10, <3>4
      <3>6. Tiled(s, p, q - 1)
        BY <3>1, <3>3, TiledOne
      <3>7. p \in Int /\ q \in Int /\ behind[q] - 1 \in Int /\ p <= q /\ q <= (behind[q] - 1) + 1
        <4>1. \A b \in q..top : b - 1 \in Int /\ q <= (b - 1) + 1
          BY <1>1, <3>1
        <4>2. p \in Int /\ q \in Int /\ p <= q
          BY <1>1, <3>1
        <4> QED BY <3>5, <4>1, <4>2
      <3>8. Tiled(s, p, behind[q] - 1)
        BY <3>5, <3>6, <3>7, TiledJoins
      <3>9. behind[q] \in p..top
        BY <1>1, <3>4, <3>5
      <3> QED BY <3>2, <3>5, <3>8, <3>9
    <2> QED BY <2>1, <2>2
  <1> HIDE DEF S, top
  <1>11. \A p \in 1..top : p \in S
    BY <1>1, <1>10, Downward
  <1> QED BY <1>1, <1>8, <1>11 DEF S, top

-----------------------------------------------------------------------------
(* Where the last escape that ends at n may begin.                          *)
StartOf(s, first, n) == Max({i \in first..n : s[i] = "ESC"} \cup {first})

LEMMA StartIs ==
  ASSUME NEW s, NEW first \in Nat, NEW n \in Nat, first <= n
  PROVE  /\ StartOf(s, first, n) \in first..n
         /\ \A i \in first..n : s[i] = "ESC" => i <= StartOf(s, first, n)
  <1> DEFINE S == {i \in first..n : s[i] = "ESC"} \cup {first}
  <1>1. S \in SUBSET (0..n) /\ S # {}
    OBVIOUS
  <1>2. Max(S) \in S /\ \A x \in S : x <= Max(S)
    <2> HIDE DEF S
    <2> QED BY <1>1, MaxOf
  <1> QED BY <1>2 DEF StartOf

(* The escapes that a value ends with are skipped, all of them.             *)
LEMMA BeforeIs ==
  ASSUME NEW C, NEW s \in Seq(C), NEW first \in 1..(Len(s) + 1),
         NEW last, last = BeforeEscapes(s, first)
  PROVE  /\ last \in (first - 1)..Len(s)
         /\ Tiled(s, last + 1, Len(s))
         /\ \A p \in first..last : \A l : IsEscape(s, p, l) => p + l - 1 # last
  <1> DEFINE size == Len(s)
             top == size - first + 2
             V == (first - 1)..size
             StartAt(n) == StartOf(s, first, n)
             Ends(n) == n - first < 2 \/ EscapeLength(s, StartAt(n)) # n + 1 - StartAt(n)
             ValueOf(f, n) == IF Ends(n) THEN n ELSE f[StartAt(n) - 1]
             stop == {q \in 1..top : Ends(size + 1 - q)}
             base == [q \in 1..top |-> size + 1 - q]
             follow == [q \in 1..top |-> IF q \in stop THEN q ELSE size + 2 - StartAt(size + 1 - q)]
             G == [q \in 1..top |-> [v \in V |-> v]]
             before[n \in first - 1..Len(s)] ==
               LET start == Max({i \in first..n : s[i] = "ESC"} \cup {first})
               IN IF n - first < 2 \/ EscapeLength(s, start) # n + 1 - start THEN n
                  ELSE before[start - 1]
  <1>1. /\ size \in Nat /\ first \in Nat /\ first - 1 \in Nat /\ top \in Nat /\ size \in V /\ 1 \in 1..top
        /\ first <= size + 1
    OBVIOUS
  <1> HIDE DEF size
  <1>2. ASSUME NEW n \in V, ~Ends(n) PROVE first <= n /\ StartAt(n) \in first..n /\ StartAt(n) - 1 \in V
    <2>1. n \in Nat /\ first <= n /\ n <= size
      BY <1>1, <1>2
    <2>2. StartAt(n) \in first..n
      BY <1>1, <2>1, StartIs
    <2> HIDE DEF StartAt
    <2> QED BY <1>1, <2>1, <2>2
  <1>3. \A q \in 1..top : size + 1 - q \in V
    BY <1>1
  <1>4. ASSUME NEW q \in 1..top, q \notin stop
        PROVE  /\ follow[q] = size + 2 - StartAt(size + 1 - q) /\ follow[q] \in 1..top /\ q < follow[q]
    <2> DEFINE n == size + 1 - q
    <2>1. n \in V /\ ~Ends(n)
      BY <1>3, <1>4
    <2>2. first <= n /\ StartAt(n) \in first..n
      BY <1>2, <2>1
    <2>3. follow[q] = size + 2 - StartAt(n)
      BY <1>4
    <2> HIDE DEF stop, StartAt, Ends, follow
    <2> QED BY <1>1, <1>4, <2>2, <2>3
  <1>5. follow \in [1..top -> 1..top]
    <2>1. \A q \in 1..top : q \notin stop => size + 2 - StartAt(size + 1 - q) \in 1..top
      <3> HIDE DEF stop, StartAt
      <3> QED BY <1>4
    <2> HIDE DEF stop, StartAt
    <2> QED BY <2>1
  <1>6. PICK g \in [1..top -> V] :
          \A q \in 1..top : g[q] = IF q \in stop THEN base[q] ELSE G[q][g[follow[q]]]
    <2>1. stop \in SUBSET (1..top) /\ base \in [1..top -> V] /\ G \in [1..top -> [V -> V]]
      <3> HIDE DEF Ends, V
      <3> QED BY <1>3
    <2>2. \A q \in 1..top : q \notin stop => q < follow[q]
      BY <1>4
    <2> HIDE DEF stop, base, follow, G, top, V
    <2>3. GoesForward(stop, base, follow, G, top, V)
      BY <1>1, <1>5, <2>1, <2>2 DEF GoesForward
    <2> QED BY <2>3, FromTheEnd
  <1> DEFINE f == [n \in V |-> g[size + 1 - n]]
  <1>7. \A n \in V : f[n] = ValueOf(f, n)
    <2> SUFFICES ASSUME NEW n \in V PROVE f[n] = ValueOf(f, n)
      OBVIOUS
    <2> DEFINE q == size + 1 - n
    <2>1. q \in 1..top /\ size + 1 - q = n
      BY <1>1
    <2>2. f[n] = g[q]
      OBVIOUS
    <2> HIDE DEF f, q
    <2>3. CASE q \in stop
      <3>1. g[q] = n
        BY <1>6, <2>1, <2>3
      <3>2. Ends(n)
        BY <2>1, <2>3
      <3> QED BY <2>2, <3>1, <3>2
    <2>4. CASE q \notin stop
      <3>1. ~Ends(n)
        BY <2>1, <2>4
      <3>2. StartAt(n) \in first..n /\ StartAt(n) - 1 \in V
        BY <1>2, <3>1
      <3>3. follow[q] = size + 2 - StartAt(n) /\ follow[q] \in 1..top
        <4> HIDE DEF stop, follow, StartAt
        <4> QED BY <1>4, <2>1, <2>4
      <3>4. g[q] = g[follow[q]]
        <4>1. g[follow[q]] \in V /\ g[q] = G[q][g[follow[q]]]
          <5> HIDE DEF stop, follow, G, V
          <5> QED BY <1>6, <2>1, <2>4, <3>3
        <4> HIDE DEF V, follow
        <4> QED BY <2>1, <4>1
      <3>5. f[StartAt(n) - 1] = g[follow[q]]
        <4>1. size + 2 - StartAt(n) = size + 1 - (StartAt(n) - 1)
          <5> HIDE DEF StartAt
          <5> QED BY <1>1, <3>2
        <4> HIDE DEF StartAt, follow, V
        <4> QED BY <3>2, <3>3, <4>1 DEF f
      <3> QED BY <2>2, <3>1, <3>4, <3>5
    <2> QED BY <2>3, <2>4
  <1>8. f = [n \in V |-> ValueOf(f, n)]
    <2>1. f = [n \in V |-> f[n]]
      OBVIOUS
    <2> HIDE DEF ValueOf, V, f
    <2> QED BY <1>7, <2>1
  <1> HIDE DEF f
  <1>9. before = [n \in V |-> ValueOf(before, n)]
    BY <1>8 DEF StartOf, size
  <1>10. last = before[size]
    BY DEF BeforeEscapes, size
  <1> HIDE DEF before
  <1>11. \A n \in V : before[n] = ValueOf(before, n)
    BY <1>9
  <1> DEFINE Right(n, b) ==
               /\ b \in (first - 1)..n /\ Tiled(s, b + 1, n)
               /\ \A p \in first..b : \A l : IsEscape(s, p, l) => p + l - 1 # b
             S == {k \in Nat : k < first - 1 \/ k > size \/ Right(k, before[k])}
             T == {k \in Nat : \A n \in 0..k : n \in S}
  <1>12. ASSUME NEW n \in Nat, \A k \in 0..(n - 1) : k \in S PROVE n \in S
    <2> SUFFICES ASSUME n \in V PROVE Right(n, before[n])
      BY <1>1
    <2>1. CASE Ends(n)
      <3>1. before[n] = n /\ n \in (first - 1)..n /\ Tiled(s, n + 1, n)
        BY <1>1, <1>11, <2>1 DEF Tiled
      <3>2. ASSUME NEW p \in first..n, NEW l, IsEscape(s, p, l), p + l - 1 = n PROVE FALSE
        <4>1. p \in 1..size /\ l \in 3..(size + 1 - p) /\ s[p] = "ESC"
          BY <3>2 DEF IsEscape, size
        <4>2. first <= n /\ n \in Nat /\ size = Len(s)
          BY <1>1 DEF size
        <4>3. StartAt(n) \in first..n /\ p <= StartAt(n)
          BY <1>1, <3>2, <4>1, <4>2, StartIs
        <4>4. s[StartAt(n)] = "ESC" \/ StartAt(n) = first
          <5> DEFINE Q == {i \in first..n : s[i] = "ESC"} \cup {first}
          <5>1. Q \in SUBSET (0..n) /\ Q # {}
            BY <1>1
          <5> HIDE DEF Q
          <5>2. Max(Q) \in Q
            BY <4>2, <5>1, MaxOf
          <5> QED BY <5>2 DEF Q, StartOf
        <4> HIDE DEF StartAt
        <4>5. p = StartAt(n)
          <5> SUFFICES ASSUME p < StartAt(n) PROVE FALSE
            BY <4>1, <4>3
          <5>1. StartAt(n) \in (p + 1)..(p + l - 1) /\ StartAt(n) # first
            BY <1>1, <3>2, <4>1, <4>3
          <5>2. s[StartAt(n)] # "ESC"
            BY <3>2, <4>2, <5>1, Inside
          <5> QED BY <4>4, <5>1, <5>2
        <4>6. EscapeLength(s, p) = l
          BY <3>2, LengthOf
        <4>7. l = n + 1 - StartAt(n) /\ ~(n - first < 2)
          BY <1>1, <3>2, <4>1, <4>2, <4>3, <4>5
        <4> QED BY <2>1, <4>5, <4>6, <4>7
      <3> QED BY <3>1, <3>2
    <2>2. CASE ~Ends(n)
      <3> DEFINE a == StartAt(n)
      <3>1. first <= n /\ a \in first..n /\ a - 1 \in V
        BY <1>2, <2>2
      <3>2. before[n] = before[a - 1]
        BY <1>11, <2>2
      <3>3. EscapeLength(s, a) = n + 1 - a
        BY <2>2
      <3> HIDE DEF a
      <3>4. a \in 1..(Len(s) + 1) /\ n + 1 - a # 0 /\ a + (n + 1 - a) - 1 = n /\ Len(s) \in Nat
        BY <1>1, <3>1 DEF size
      <3>5. IsEscape(s, a, n + 1 - a)
        BY <3>3, <3>4, LengthIs
      <3>6. Tiled(s, a, n)
        BY <3>4, <3>5, TiledOne
      <3>7. a - 1 \in 0..(n - 1) /\ ~(a - 1 < first - 1) /\ ~(a - 1 > size)
        BY <1>1, <3>1
      <3>8. Right(a - 1, before[a - 1])
        <4> HIDE DEF Right
        <4> QED BY <1>12, <3>7
      <3> DEFINE b == before[a - 1]
      <3> HIDE DEF b
      <3>9. b \in (first - 1)..(a - 1) /\ Tiled(s, b + 1, a - 1)
        BY <3>8 DEF b
      <3>10. /\ b + 1 \in Int /\ a \in Int /\ n \in Int /\ b + 1 <= a /\ a <= n + 1
             /\ b \in (first - 1)..n
        BY <1>1, <3>1, <3>9
      <3>11. Tiled(s, b + 1, n)
        BY <3>6, <3>9, <3>10, TiledJoins
      <3>12. \A p \in first..b : \A l : IsEscape(s, p, l) => p + l - 1 # b
        BY <3>8 DEF b
      <3>13. before[n] = b
        BY <3>2 DEF b
      <3> QED BY <3>10, <3>11, <3>12, <3>13
    <2> QED BY <2>1, <2>2
  <1> HIDE DEF S
  <1>13. 0 \in T
    <2>1. \A k \in 0..(0 - 1) : k \in S
      OBVIOUS
    <2>2. 0 \in S
      BY <1>12, <2>1
    <2>3. \A n \in 0..0 : n = 0
      OBVIOUS
    <2> QED BY <2>2, <2>3
  <1>14. ASSUME NEW k \in Nat, k \in T PROVE k + 1 \in T
    <2>1. \A n \in 0..((k + 1) - 1) : n \in S
      BY <1>14
    <2>2. k + 1 \in S
      BY <1>12, <2>1
    <2>3. \A n \in 0..(k + 1) : n \in 0..((k + 1) - 1) \/ n = k + 1
      OBVIOUS
    <2> QED BY <2>1, <2>2, <2>3
  <1> HIDE DEF T
  <1>15. size \in T
    BY <1>1, <1>13, <1>14, Upward
  <1>16. size \in S
    BY <1>1, <1>15 DEF T
  <1>17. Right(size, before[size])
    BY <1>1, <1>16 DEF S
  <1> HIDE DEF before
  <1> QED BY <1>10, <1>17 DEF size

-----------------------------------------------------------------------------
(* What skipAnsiEscape makes of a value whose colors stand around it: the   *)
(* first a and all behind b are escapes, and between them none has a part.  *)
Parts(s, a, b) ==
  /\ a \in Nat /\ b \in Nat /\ a <= b /\ b <= Len(s)
  /\ Tiled(s, 1, a) /\ Tiled(s, b + 1, Len(s))
  /\ \A i \in (a + 1)..b : ~InEscape(s, i)

LEMMA PartsOf ==
  ASSUME NEW C, NEW s \in Seq(C), Enclosed(s)
  PROVE  \E a, b \in Nat :
           /\ Parts(s, a, b)
           /\ SkipAnsiEscape(s) =
                [lead |-> Upto(s, a), body |-> SubSeq(s, a + 1, b), trail |-> From(s, b + 1)]
  <1> DEFINE first == BehindEscapes(s)
             last == IF first = 1 THEN Len(s) ELSE BeforeEscapes(s, first)
             a == first - 1
             hidden == Hidden(s)
             plain == DOMAIN s \ hidden
  <1>1. first \in 1..(Len(s) + 1) /\ Tiled(s, 1, first - 1) /\ EscapeLength(s, first) = 0
    BY BehindIs
  <1>2. a \in Nat /\ first = a + 1 /\ Len(s) \in Nat
    BY <1>1
  <1>3. SkipAnsiEscape(s) =
          [lead |-> Upto(s, a), body |-> SubSeq(s, first, last), trail |-> From(s, last + 1)]
    BY DEF SkipAnsiEscape
  <1>4. /\ hidden = {} \/ 1 \in hidden
        /\ \A i, j \in plain : i..j \subseteq plain
    BY DEF Enclosed
  <1>5. /\ \A i : i \in plain <=> i \in 1..Len(s) /\ ~InEscape(s, i)
        /\ \A i : i \in hidden <=> i \in 1..Len(s) /\ InEscape(s, i)
    BY HiddenIs
  <1> HIDE DEF first, hidden, plain
  <1>6. CASE first = 1
    <2>1. last = Len(s) /\ a = 0
      BY <1>6
    <2>2. 1 \notin hidden
      <3> SUFFICES ASSUME 1 \in hidden PROVE FALSE
        OBVIOUS
      <3>1. PICK p \in 1..1, l \in Nat : IsEscape(s, p, l)
        BY <1>5 DEF InEscape
      <3>2. p = 1
        OBVIOUS
      <3>3. EscapeLength(s, 1) = l /\ l # 0
        <4>1. IsEscape(s, 1, l)
          BY <3>1, <3>2
        <4>2. l \in 3..(Len(s) + 1 - 1)
          BY <4>1 DEF IsEscape
        <4>3. EscapeLength(s, 1) = l
          BY <4>1, LengthOf
        <4> QED BY <1>2, <4>2, <4>3
      <3> QED BY <1>1, <1>6, <3>3
    <2>3. \A i \in (a + 1)..last : ~InEscape(s, i)
      BY <1>2, <1>4, <1>5, <2>1, <2>2
    <2>4. Tiled(s, 1, a) /\ Tiled(s, last + 1, Len(s))
      BY <1>2, <2>1 DEF Tiled
    <2>5. Parts(s, a, last) /\ last \in Nat
      <3> HIDE DEF a, last
      <3> QED BY <1>2, <2>1, <2>3, <2>4 DEF Parts
    <2> HIDE DEF last, a
    <2> QED BY <1>2, <1>3, <2>5
  <1>7. CASE first # 1
    <2>1. last = BeforeEscapes(s, first)
      BY <1>7
    <2> HIDE DEF last
    <2>2. /\ last \in (first - 1)..Len(s)
          /\ Tiled(s, last + 1, Len(s))
          /\ \A p \in first..last : \A l : IsEscape(s, p, l) => p + l - 1 # last
      BY <1>1, <2>1, BeforeIs
    <2> HIDE DEF a
    <2>3. last \in Nat /\ a <= last /\ last <= Len(s) /\ Tiled(s, 1, a)
      BY <1>1, <1>2, <2>2 DEF a
    <2>4. ASSUME NEW i \in (a + 1)..last, NEW p \in 1..i, NEW l, IsEscape(s, p, l), i <= p + l - 1
          PROVE  p > a
      <3> SUFFICES ASSUME p \in 1..a PROVE FALSE
        BY <1>2, <2>3
      <3>1. p + l - 1 <= a
        BY <1>2, <2>3, <2>4, TiledKeeps
      <3>2. p \in 1..Len(s) /\ l \in 3..(Len(s) + 1 - p)
        BY <2>4 DEF IsEscape
      <3> QED BY <1>2, <2>3, <2>4, <3>1, <3>2
    <2>5. a + 1 <= last => first \in plain
      <3> SUFFICES ASSUME a + 1 <= last, InEscape(s, first) PROVE FALSE
        BY <1>1, <1>2, <1>5, <2>3
      <3>1. first \in (a + 1)..last
        BY <1>2, <2>3
      <3>2. PICK p \in 1..first, l \in Nat : IsEscape(s, p, l) /\ first <= p + l - 1
        BY DEF InEscape
      <3>3. p > a
        BY <2>4, <3>1, <3>2
      <3>4. p = first
        BY <1>2, <3>3
      <3>5. EscapeLength(s, first) = l /\ l # 0
        <4>1. IsEscape(s, first, l)
          BY <3>2, <3>4
        <4>2. l \in 3..(Len(s) + 1 - first)
          BY <4>1 DEF IsEscape
        <4>3. EscapeLength(s, first) = l
          BY <4>1, LengthOf
        <4> QED BY <1>2, <4>2, <4>3
      <3> QED BY <1>1, <3>5
    <2>6. a + 1 <= last => last \in plain
      <3> SUFFICES ASSUME a + 1 <= last, InEscape(s, last) PROVE FALSE
        BY <1>2, <1>5, <2>3
      <3>1. last \in (a + 1)..last
        BY <1>2, <2>3
      <3>2. PICK p \in 1..last, l \in Nat : IsEscape(s, p, l) /\ last <= p + l - 1
        BY DEF InEscape
      <3>3. p > a
        BY <2>4, <3>1, <3>2
      <3>4. p \in first..last
        BY <1>2, <2>3, <3>3
      <3>5. p + l - 1 # last
        BY <2>2, <3>2, <3>4
      <3>6. l \in 3..(Len(s) + 1 - p)
        BY <3>2 DEF IsEscape
      <3>7. last + 1 <= p + l - 1 /\ last + 1 <= Len(s)
        BY <1>2, <2>3, <3>2, <3>4, <3>5, <3>6
      <3>8. s[last + 1] = "ESC"
        <4>1. last + 1 \in Int /\ Len(s) \in Int
          BY <1>2, <2>3
        <4> QED BY <2>2, <3>7, <4>1, TiledBegins
      <3>9. last + 1 \in (p + 1)..(p + l - 1)
        BY <1>2, <2>3, <3>4, <3>6, <3>7
      <3> QED BY <1>2, <3>2, <3>8, <3>9, Inside
    <2>7. \A i \in (a + 1)..last : ~InEscape(s, i)
      <3> TAKE i \in (a + 1)..last
      <3>1. first \in plain /\ last \in plain
        BY <1>2, <2>3, <2>5, <2>6
      <3>2. i \in first..last
        BY <1>2
      <3> QED BY <1>4, <1>5, <3>1, <3>2
    <2>8. Parts(s, a, last)
      BY <1>2, <2>2, <2>3, <2>7 DEF Parts
    <2>9. last = IF first = 1 THEN Len(s) ELSE BeforeEscapes(s, first)
      BY <2>1, <1>7
    <2> QED BY <1>2, <1>3, <2>3, <2>8
  <1> QED BY <1>6, <1>7

-----------------------------------------------------------------------------
(* Escapes stay escapes where they are copied to.                           *)
LEMMA TiledMoved ==
  ASSUME NEW C, NEW s \in Seq(C), NEW t \in Seq(C), NEW lo \in Nat \ {0}, NEW hi \in Int,
         NEW d \in Int, Tiled(s, lo, hi), lo + d >= 1, hi + d <= Len(t),
         \A i \in lo..hi : t[i + d] = s[i]
  PROVE  Tiled(t, lo + d, hi + d)
  <1> SUFFICES ASSUME NEW i \in (lo + d)..(hi + d)
               PROVE  \E p \in (lo + d)..i : \E l \in Nat :
                        IsEscape(t, p, l) /\ i <= p + l - 1 /\ p + l - 1 <= hi + d
    BY DEF Tiled
  <1>1. i - d \in lo..hi
    OBVIOUS
  <1>2. PICK p \in lo..(i - d), l \in Nat : IsEscape(s, p, l) /\ i - d <= p + l - 1 /\ p + l - 1 <= hi
    BY <1>1 DEF Tiled
  <1> DEFINE q == p + d
  <1>3. l \in 3..(Len(s) + 1 - p) /\ Len(t) \in Nat
    BY <1>2 DEF IsEscape
  <1>4. q \in Nat \ {0} /\ q + l - 1 <= Len(t)
    BY <1>2, <1>3
  <1>5. \A j \in 0..(l - 1) : t[q + j] = s[p + j]
    <2> TAKE j \in 0..(l - 1)
    <2>1. p + j \in lo..hi /\ (p + j) + d = q + j
      BY <1>2, <1>3
    <2> QED BY <2>1
  <1>6. q \in (lo + d)..i /\ i <= q + l - 1 /\ q + l - 1 <= hi + d
    BY <1>2, <1>3
  <1> HIDE DEF q
  <1>7. IsEscape(t, q, l)
    BY <1>2, <1>4, <1>5, Moved
  <1> QED BY <1>6, <1>7

LEMMA TiledHides ==
  ASSUME NEW s, NEW lo \in Nat \ {0}, NEW hi \in Int, Tiled(s, lo, hi)
  PROVE  \A i \in lo..hi : InEscape(s, i)
  <1> TAKE i \in lo..hi
  <1>1. PICK p \in lo..i, l \in Nat : IsEscape(s, p, l) /\ i <= p + l - 1
    BY DEF Tiled
  <1>2. p \in 1..i
    OBVIOUS
  <1> QED BY <1>1, <1>2 DEF InEscape

NoEscape(r) == \A p, l : ~IsEscape(r, p, l)

(* t is s with r instead of what is between its colors.                     *)
Laid(t, s, r, a, b) ==
  /\ Len(t) = a + Len(r) + (Len(s) - b)
  /\ \A i \in 1..a : t[i] = s[i]
  /\ \A i \in 1..Len(r) : t[a + i] = r[i]
  /\ \A i \in 1..(Len(s) - b) : t[a + Len(r) + i] = s[b + i]

(* Then the escapes of t are the ones of s, and those alone.                *)
LEMMA HiddenAround ==
  ASSUME NEW C, NEW s \in Seq(C), NEW t \in Seq(C), NEW r \in Seq(C),
         NEW a \in Nat, NEW b \in Nat, Parts(s, a, b), Laid(t, s, r, a, b), NoEscape(r)
  PROVE  Hidden(t) = (1..a) \cup ((a + Len(r) + 1)..Len(t))
  <1> DEFINE c == Len(r)
             size == Len(t)
             z == Len(s) - b
  <1>1. /\ c \in Nat /\ size \in Nat /\ z \in Nat /\ size = a + c + z /\ b <= Len(s) /\ Len(s) \in Nat
        /\ a <= b
    BY DEF Parts, Laid
  <1>2. /\ \A i \in 1..a : t[i] = s[i]
        /\ \A i \in 1..c : t[a + i] = r[i]
        /\ \A i \in 1..z : t[a + c + i] = s[b + i]
    BY DEF Laid
  <1>3. Tiled(s, 1, a) /\ Tiled(s, b + 1, Len(s))
    BY DEF Parts
  <1> HIDE DEF c, z
  <1>4. Tiled(t, 1, a)
    <2> DEFINE d == 0
    <2>1. \A i \in 1..a : t[i + d] = s[i]
      BY <1>1, <1>2
    <2>2. 1 \in Nat \ {0} /\ d \in Int /\ 1 + d >= 1 /\ a + d <= Len(t) /\ 1 + d = 1 /\ a + d = a /\ a \in Int
      BY <1>1
    <2> HIDE DEF d
    <2>3. Tiled(t, 1 + d, a + d)
      BY <1>3, <2>1, <2>2, TiledMoved
    <2> QED BY <2>2, <2>3
  <1>5. Tiled(t, a + c + 1, size)
    <2> DEFINE d == a + c - b
               lo == b + 1
               hi == Len(s)
    <2>1. /\ lo \in Nat \ {0} /\ hi \in Int /\ d \in Int /\ lo + d >= 1 /\ hi + d <= Len(t)
          /\ lo + d = a + c + 1 /\ hi + d = size
      BY <1>1 DEF z
    <2>2. \A i \in lo..hi : t[i + d] = s[i]
      <3> TAKE i \in lo..hi
      <3>1. i - b \in 1..z /\ a + c + (i - b) = i + d /\ b + (i - b) = i
        BY <1>1 DEF z
      <3> QED BY <1>2, <3>1
    <2>3. Tiled(s, lo, hi)
      BY <1>3
    <2> HIDE DEF d, lo, hi, size
    <2>4. Tiled(t, lo + d, hi + d)
      BY <2>1, <2>2, <2>3, TiledMoved
    <2> QED BY <2>1, <2>4
  <1>6. ASSUME NEW i \in 1..size, i <= a \/ i > a + c PROVE InEscape(t, i)
    <2>1. i \in 1..a \/ i \in (a + c + 1)..size
      BY <1>1, <1>6
    <2>2. 1 \in Nat \ {0} /\ a + c + 1 \in Nat \ {0} /\ a \in Int /\ size \in Int
      BY <1>1
    <2>3. CASE i \in 1..a
      BY <1>4, <2>2, <2>3, TiledHides
    <2>4. CASE i \in (a + c + 1)..size
      BY <1>5, <2>2, <2>4, TiledHides
    <2> QED BY <2>1, <2>3, <2>4
  <1>7. ASSUME NEW i \in (a + 1)..(a + c), InEscape(t, i) PROVE FALSE
    <2>1. PICK p \in 1..i, l \in Nat : IsEscape(t, p, l) /\ i <= p + l - 1
      BY <1>7 DEF InEscape
    <2>2. p \in 1..size /\ l \in 3..(size + 1 - p)
      BY <2>1 DEF IsEscape
    <2>3. CASE p <= a
      <3>1. p \in 1..a /\ 1 \in Int /\ a \in Int
        BY <1>1, <2>2, <2>3
      <3>2. p + l - 1 <= a
        BY <1>4, <2>1, <3>1, TiledKeeps
      <3> QED BY <1>1, <2>1, <3>2
    <2>4. CASE p > a /\ p + l - 1 <= a + c
      <3> DEFINE q == p - a
      <3>1. q \in Nat \ {0} /\ q + l - 1 <= Len(r)
        BY <1>1, <2>2, <2>4 DEF c
      <3>2. \A j \in 0..(l - 1) : r[q + j] = t[p + j]
        <4> TAKE j \in 0..(l - 1)
        <4>1. q + j \in 1..c /\ a + (q + j) = p + j
          BY <1>1, <2>2, <2>4
        <4> QED BY <1>2, <4>1
      <3> HIDE DEF q
      <3>3. IsEscape(r, q, l)
        BY <2>1, <3>1, <3>2, Moved
      <3> QED BY <3>3 DEF NoEscape
    <2>5. CASE p > a /\ p + l - 1 > a + c
      <3>1. a + c + 1 <= size /\ a + c + 1 \in (p + 1)..(p + l - 1) /\ a + c + 1 \in Int /\ size \in Int
        BY <1>1, <2>2, <2>5
      <3>2. t[a + c + 1] = "ESC"
        BY <1>5, <3>1, TiledBegins
      <3> QED BY <1>1, <2>1, <3>1, <3>2, Inside
    <2>6. a \in Int /\ p \in Int /\ p + l - 1 \in Int /\ a + c \in Int
      BY <1>1, <2>2
    <2> HIDE DEF size
    <2> QED BY <2>3, <2>4, <2>5, <2>6
  <1>8. \A i : i \in Hidden(t) <=> i \in 1..size /\ InEscape(t, i)
    BY HiddenIs
  <1>9. \A i \in 1..size : i \in (a + 1)..(a + c) \/ i <= a \/ i > a + c
    BY <1>1
  <1>10. \A i : i \in Hidden(t) <=> i \in 1..size /\ (i <= a \/ i > a + c)
    <2> HIDE DEF size
    <2>1. \A i \in 1..size : i \in (a + 1)..(a + c) => ~(i <= a \/ i > a + c)
      BY <1>1
    <2> QED BY <1>6, <1>7, <1>8, <1>9
  <1>11. \A i : i \in (1..a) \cup ((a + c + 1)..size) <=> i \in 1..size /\ (i <= a \/ i > a + c)
    BY <1>1
  <1>12. Hidden(t) = (1..a) \cup ((a + c + 1)..size)
    <2> HIDE DEF size
    <2> QED BY <1>10, <1>11
  <1> QED BY <1>12 DEF c

-----------------------------------------------------------------------------
(* What a value is cut or padded to: k of its bytes behind x blanks, and    *)
(* only blanks and the ellipsis around.                                     *)
Added == {Space, "E2", "80", "A6"}
Glyphs == STRING \cup Added

Filling(r, body, x, k) ==
  /\ x \in Nat /\ k \in 0..Len(body) /\ r \in Seq(Glyphs) /\ x + k <= Len(r)
  /\ \A i \in 1..Len(r) : i <= x \/ i > x + k => r[i] \in Added
  /\ \A i \in 1..k : r[x + i] = body[i]

LEMMA Parted ==
  ASSUME NEW C, NEW s \in Seq(C), NEW lo \in Int, NEW hi \in Int, 1 <= lo, lo <= hi + 1, hi <= Len(s)
  PROVE  /\ SubSeq(s, lo, hi) \in Seq(C)
         /\ Len(SubSeq(s, lo, hi)) = hi - lo + 1
         /\ \A i \in 1..(hi - lo + 1) : SubSeq(s, lo, hi)[i] = s[lo + i - 1]
  <1>1. \A i \in lo..hi : s[i] \in C
    OBVIOUS
  <1> QED BY <1>1, SubSeqProperties

LEMMA BlanksAre ==
  ASSUME NEW n \in Nat
  PROVE  /\ Blanks(n) \in Seq(Glyphs) /\ Len(Blanks(n)) = n
         /\ \A i \in 1..n : Blanks(n)[i] = Space
  <1>1. Space \in Glyphs
    BY DEF Glyphs, Added
  <1> HIDE DEF Glyphs
  <1> QED BY <1>1 DEF Blanks

(* Blanks in front, a part of the value, and what is behind it.             *)
InOrder(r, body, x, k, y) ==
  /\ x \in Nat /\ k \in 0..Len(body)
  /\ y \in Seq(Glyphs) /\ \A i \in 1..Len(y) : y[i] \in Added
  /\ r = Blanks(x) \o Upto(body, k) \o y

LEMMA FillingInOrder ==
  ASSUME NEW body \in Seq(Glyphs), NEW r, NEW x, NEW k, NEW y, InOrder(r, body, x, k, y)
  PROVE  /\ Filling(r, body, x, k) /\ Len(r) = x + k + Len(y)
         /\ \A i \in 1..x : r[i] = Space
         /\ \A i \in 1..Len(y) : r[x + k + i] = y[i]
  <1>0. /\ x \in Nat /\ k \in 0..Len(body)
        /\ y \in Seq(Glyphs) /\ \A i \in 1..Len(y) : y[i] \in Added
        /\ r = Blanks(x) \o Upto(body, k) \o y
    BY DEF InOrder
  <1> DEFINE u == Blanks(x)
             v == Upto(body, k)
             uv == u \o v
  <1>1. u \in Seq(Glyphs) /\ Len(u) = x /\ \A i \in 1..x : u[i] = Space
    BY <1>0, BlanksAre
  <1>2. v \in Seq(Glyphs) /\ Len(v) = k /\ \A i \in 1..k : v[i] = body[i]
    <2>1. k \in Int /\ 1 <= k + 1 /\ k <= Len(body) /\ k - 1 + 1 = k /\ \A i \in 1..k : 1 + i - 1 = i
      BY <1>0
    <2>2. /\ SubSeq(body, 1, k) \in Seq(Glyphs)
          /\ Len(SubSeq(body, 1, k)) = k - 1 + 1
          /\ \A i \in 1..(k - 1 + 1) : SubSeq(body, 1, k)[i] = body[1 + i - 1]
      BY <2>1, Parted
    <2>3. \A i \in 1..k : SubSeq(body, 1, k)[i] = body[i]
      BY <2>1, <2>2
    <2> QED BY <2>1, <2>2, <2>3 DEF Upto
  <1> HIDE DEF u, v
  <1>3. /\ uv \in Seq(Glyphs) /\ Len(uv) = x + k
        /\ \A i \in 1..(x + k) : uv[i] = IF i <= x THEN u[i] ELSE v[i - x]
    BY <1>0, <1>1, <1>2, ConcatProperties
  <1> HIDE DEF uv
  <1>4. /\ r \in Seq(Glyphs) /\ Len(r) = x + k + Len(y)
        /\ \A i \in 1..(x + k + Len(y)) : r[i] = IF i <= x + k THEN uv[i] ELSE y[i - (x + k)]
    <2>1. r = uv \o y
      BY <1>0 DEF uv, u, v
    <2>2. y \in Seq(Glyphs) /\ uv \in Seq(Glyphs) /\ Len(uv) = x + k
      BY <1>0, <1>3
    <2>3. /\ uv \o y \in Seq(Glyphs) /\ Len(uv \o y) = Len(uv) + Len(y)
          /\ \A i \in 1..(Len(uv) + Len(y)) : (uv \o y)[i] = IF i <= Len(uv) THEN uv[i] ELSE y[i - Len(uv)]
      BY <2>2, ConcatProperties
    <2> QED BY <2>1, <2>2, <2>3
  <1> DEFINE w == Len(y)
  <1>5. w \in Nat /\ x \in Nat /\ x + k \in Nat /\ k \in Nat
    BY <1>0
  <1>6. Space \in Added /\ \A i \in 1..w : y[i] \in Added
    BY <1>0 DEF Added
  <1>7. Len(r) = x + k + w /\ \A i \in 1..(x + k + w) : r[i] = IF i <= x + k THEN uv[i] ELSE y[i - (x + k)]
    BY <1>4
  <1> HIDE DEF w
  <1>8. \A i \in 1..Len(r) : i <= x \/ i > x + k => r[i] \in Added
    <2> SUFFICES ASSUME NEW i \in 1..(x + k + w), i <= x \/ i > x + k PROVE r[i] \in Added
      BY <1>7
    <2>1. CASE i <= x
      <3>1. i \in 1..x /\ i \in 1..(x + k) /\ i <= x + k
        BY <1>5, <2>1
      <3>2. r[i] = u[i]
        BY <1>3, <1>7, <2>1, <3>1
      <3> QED BY <1>1, <1>6, <3>1, <3>2
    <2>2. CASE i > x + k
      <3>1. i - (x + k) \in 1..w /\ ~(i <= x + k)
        BY <1>5, <2>2
      <3>2. r[i] = y[i - (x + k)]
        BY <1>7, <3>1
      <3> QED BY <1>6, <3>1, <3>2
    <2> QED BY <2>1, <2>2
  <1>9. \A i \in 1..k : r[x + i] = body[i]
    <2> TAKE i \in 1..k
    <2>1. /\ x + i \in 1..(x + k) /\ x + i \in 1..(x + k + w) /\ x + i <= x + k
          /\ ~(x + i <= x) /\ (x + i) - x = i
      BY <1>5
    <2>2. r[x + i] = v[i]
      BY <1>3, <1>7, <2>1
    <2> QED BY <1>2, <2>2
  <1>10. x + k <= Len(r)
    BY <1>5, <1>7
  <1>11. \A i \in 1..x : r[i] = Space
    <2> TAKE i \in 1..x
    <2>1. i \in 1..(x + k) /\ i \in 1..(x + k + w) /\ i <= x + k /\ i <= x
      BY <1>5
    <2>2. r[i] = u[i]
      BY <1>3, <1>7, <2>1
    <2> QED BY <1>1, <2>2
  <1>12. \A i \in 1..w : r[x + k + i] = y[i]
    <2> TAKE i \in 1..w
    <2>1. x + k + i \in 1..(x + k + w) /\ ~(x + k + i <= x + k) /\ (x + k + i) - (x + k) = i
      BY <1>5
    <2> QED BY <1>7, <2>1
  <1>13. Filling(r, body, x, k) /\ Len(r) = x + k + Len(y)
    BY <1>0, <1>4, <1>8, <1>9, <1>10 DEF Filling
  <1> QED BY <1>11, <1>12, <1>13 DEF w

(* No escape comes of it: an end in what was added ends none.               *)
LEMMA FillingClean ==
  ASSUME NEW body \in Seq(Glyphs), NEW r, NEW x, NEW k, Filling(r, body, x, k), NoEscape(body)
  PROVE  NoEscape(r)
  <1> SUFFICES ASSUME NEW p, NEW l, IsEscape(r, p, l) PROVE FALSE
    BY DEF NoEscape
  <1>1. p \in 1..Len(r) /\ l \in 3..(Len(r) + 1 - p) /\ r[p] = "ESC" /\ r[p + l - 1] \in FinalBytes
    BY DEF IsEscape
  <1>2. /\ x \in Nat /\ k \in 0..Len(body) /\ r \in Seq(Glyphs) /\ x + k <= Len(r)
        /\ \A i \in 1..Len(r) : i <= x \/ i > x + k => r[i] \in Added
        /\ \A i \in 1..k : r[x + i] = body[i]
    BY DEF Filling
  <1>3. p > x /\ p <= x + k
    <2>1. "ESC" \notin Added
      BY DEF Space, Added
    <2>2. ~(p <= x \/ p > x + k)
      BY <1>1, <1>2, <2>1
    <2> QED BY <1>1, <1>2, <2>2
  <1>4. p + l - 1 <= x + k
    <2> SUFFICES ASSUME p + l - 1 > x + k PROVE FALSE
      BY <1>1, <1>2
    <2>1. p + l - 1 \in 1..Len(r)
      BY <1>1, <1>2
    <2>2. r[p + l - 1] \in Added
      BY <1>2, <2>1
    <2> QED BY <1>1, <2>2, EscapeAssumption DEF Added
  <1> DEFINE q == p - x
  <1>5. q \in Nat \ {0} /\ q + l - 1 <= Len(body)
    BY <1>1, <1>2, <1>3, <1>4
  <1>6. \A j \in 0..(l - 1) : body[q + j] = r[p + j]
    <2> TAKE j \in 0..(l - 1)
    <2>1. q + j \in 1..k /\ x + (q + j) = p + j
      BY <1>1, <1>2, <1>3, <1>4
    <2> QED BY <1>2, <2>1
  <1> HIDE DEF q
  <1>7. IsEscape(body, q, l)
    BY <1>2, <1>5, <1>6, Moved
  <1> QED BY <1>7 DEF NoEscape

(* What a value is cut or padded to: w characters if the value has one byte *)
(* for each, and two bytes more if the ellipsis is one of them.             *)
Asked(number) == Least(IF number < 0 THEN -number ELSE number, IntMax)
Dotted(number, body) == number < 0 /\ Len(body) > Asked(number)
EndsAt(r, w) == \A i \in 1..Len(r) : r[i] \in ContinuationBytes <=> i > w
FitLength(r, w, sep, number, body) ==
  /\ Len(r) = (IF Dotted(number, body) THEN w + 2 ELSE w)
  /\ IF sep # ":" THEN w = Asked(number)
     ELSE w <= Least(Asked(number), Len(body)) + (IF Dotted(number, body) THEN 1 ELSE 0)
  /\ OneByteEach(body) => EndsAt(r, w)

(* The last of what is added is the only one that may end in longer         *)
(* characters.                                                              *)
LEMMA EndsBehind ==
  ASSUME NEW body \in Seq(Glyphs), NEW r, NEW x, NEW k, NEW y, InOrder(r, body, x, k, y),
         NEW v \in 0..Len(y), EndsAt(y, v), OneByteEach(body)
  PROVE  EndsAt(r, x + k + v)
  <1>1. /\ x \in Nat /\ k \in 0..Len(body) /\ y \in Seq(Glyphs)
        /\ Len(r) = x + k + Len(y)
        /\ \A i \in 1..x : r[i] = Space
        /\ \A i \in 1..k : r[x + i] = body[i]
        /\ \A i \in 1..Len(y) : r[x + k + i] = y[i]
    <2>1. /\ Filling(r, body, x, k) /\ Len(r) = x + k + Len(y)
          /\ \A i \in 1..x : r[i] = Space
          /\ \A i \in 1..Len(y) : r[x + k + i] = y[i]
      BY FillingInOrder
    <2>2. x \in Nat /\ k \in 0..Len(body) /\ y \in Seq(Glyphs)
      BY DEF InOrder
    <2>3. \A i \in 1..k : r[x + i] = body[i]
      BY <2>1 DEF Filling
    <2> QED BY <2>1, <2>2, <2>3
  <1>2. /\ Space \notin ContinuationBytes
        /\ \A i \in 1..Len(body) : body[i] \notin ContinuationBytes
        /\ \A i \in 1..Len(y) : y[i] \in ContinuationBytes <=> i > v
    BY CharacterAssumption DEF OneByteEach, EndsAt
  <1>3. Len(y) \in Nat /\ Len(body) \in Nat /\ v \in Nat /\ k \in Nat
    BY <1>1
  <1> SUFFICES ASSUME NEW i \in 1..(x + k + Len(y))
               PROVE  r[i] \in ContinuationBytes <=> i > x + k + v
    BY <1>1 DEF EndsAt
  <1>4. CASE i <= x
    <2>1. i \in 1..x /\ ~(i > x + k + v)
      BY <1>1, <1>3, <1>4
    <2> QED BY <1>1, <1>2, <2>1
  <1>5. CASE i > x /\ i <= x + k
    <2>1. i - x \in 1..k /\ i - x \in 1..Len(body) /\ x + (i - x) = i /\ ~(i > x + k + v)
      BY <1>1, <1>3, <1>5
    <2>2. r[i] = body[i - x]
      BY <1>1, <2>1
    <2> QED BY <1>2, <2>1, <2>2
  <1>6. CASE i > x + k
    <2>1. /\ i - (x + k) \in 1..Len(y) /\ x + k + (i - (x + k)) = i
          /\ (i - (x + k) > v <=> i > x + k + v)
      BY <1>1, <1>3, <1>6
    <2>2. r[i] = y[i - (x + k)]
      BY <1>1, <2>1
    <2> QED BY <1>2, <2>1, <2>2
  <1>7. i <= x \/ (i > x /\ i <= x + k) \/ i > x + k
    BY <1>1, <1>3
  <1> QED BY <1>4, <1>5, <1>6, <1>7

LEMMA FitIs ==
  ASSUME NEW body \in Seq(Glyphs), Len(body) <= IntMax, NEW sep,
         NEW number \in (-IntMax - 1)..IntMax, NEW r, r = Fit(sep, number, body)
  PROVE  /\ \E x, k \in Nat : Filling(r, body, x, k)
         /\ \E w \in Nat : FitLength(r, w, sep, number, body)
  <1> DEFINE size == Len(body)
             length == IF number < 0 THEN Least(-number, IntMax) ELSE number
             cut == IF sep = ":" THEN Upto(body, length)
                    ELSE Upto(body, IF number < 0 THEN length - 1 ELSE length)
             text == IF sep = ":" THEN Upto(cut, Max({0} \cup {i \in DOMAIN cut : cut[i] # Space}))
                     ELSE cut
             free == length - Len(body)
             dots == IF number < 0 THEN Ellipsis ELSE <<>>
             mark == IF number < 0 THEN 1 ELSE 0
  <1>1. /\ IntMax \in Nat /\ size \in Nat /\ size <= IntMax
        /\ length \in 0..IntMax /\ Asked(number) = length
        /\ number < 0 /\ size > 0 => length >= 1
        /\ free = length - size /\ free \in Int
        /\ Dotted(number, body) <=> number < 0 /\ free < 0
    BY FormatAssumption DEF Asked, Least, Dotted
  <1>2. r = IF free < 0 THEN text \o dots
            ELSE CASE sep = ":" -> body
                   [] sep = "<" -> body \o Blanks(free)
                   [] sep = ">" -> Blanks(free) \o body
                   [] OTHER -> Blanks(free \div 2) \o body \o Blanks(free - free \div 2)
    BY Zenon DEF Fit
  <1>3. /\ dots \in Seq(Glyphs) /\ \A i \in 1..Len(dots) : dots[i] \in Added
        /\ mark \in 0..Len(dots) /\ EndsAt(dots, mark)
        /\ Len(dots) = IF number < 0 THEN mark + 2 ELSE mark
    <2>1. CASE number < 0
      <3>1. dots = <<"E2", "80", "A6">> /\ mark = 1
        BY <2>1 DEF Ellipsis
      <3>2. {"E2", "80", "A6"} \subseteq Added /\ Added \subseteq Glyphs
        BY DEF Glyphs, Added
      <3> HIDE DEF Glyphs, Added, dots, mark
      <3>3. Len(dots) = 3 /\ dots[1] = "E2" /\ dots[2] = "80" /\ dots[3] = "A6"
        BY <3>1
      <3>4. dots \in Seq(Glyphs)
        BY <3>1, <3>2
      <3>5. \A i \in 1..Len(dots) : i = 1 \/ i = 2 \/ i = 3
        BY <3>3
      <3>6. \A i \in 1..Len(dots) : dots[i] \in Added
        BY <3>2, <3>3, <3>5
      <3>7. /\ "E2" \notin ContinuationBytes /\ "80" \in ContinuationBytes
            /\ "A6" \in ContinuationBytes
        BY CharacterAssumption
      <3>8. EndsAt(dots, mark)
        BY <3>1, <3>3, <3>5, <3>7 DEF EndsAt
      <3> QED BY <2>1, <3>1, <3>3, <3>4, <3>6, <3>8
    <2>2. CASE ~(number < 0)
      <3>1. dots = <<>> /\ mark = 0
        BY <2>2
      <3>2. Len(<<>>) = 0 /\ <<>> \in Seq(Glyphs) /\ \A i \in 1..0 : FALSE
        OBVIOUS
      <3> HIDE DEF dots, mark
      <3> QED BY <2>2, <3>1, <3>2 DEF EndsAt
    <2> QED BY <2>1, <2>2
  <1>4. Blanks(0) = <<>> /\ \A w : w \in Seq(Glyphs) => <<>> \o w = w /\ w \o <<>> = w
    <2>1. Blanks(0) = <<>>
      <3>1. Blanks(0) \in Seq(Glyphs) /\ Len(Blanks(0)) = 0
        BY BlanksAre
      <3> QED BY <3>1, EmptySeq
    <2> QED BY <2>1, ConcatEmptySeq
  <1>5. Upto(body, size) = body
    BY SubSeqFull DEF Upto
  <1>6. <<>> \in Seq(Glyphs) /\ Len(<<>>) = 0 /\ \A i \in 1..Len(<<>>) : <<>>[i] \in Added
    OBVIOUS
  <1> DEFINE Shaped(x, k, y) == InOrder(r, body, x, k, y)
  <1>7. ASSUME NEW x, NEW k, NEW y, NEW v \in 0..Len(y), Shaped(x, k, y), EndsAt(y, v)
        PROVE  /\ (\E i, j \in Nat : Filling(r, body, i, j)) /\ Len(r) = x + k + Len(y)
               /\ OneByteEach(body) => EndsAt(r, x + k + v)
    <2>1. Filling(r, body, x, k) /\ Len(r) = x + k + Len(y)
      BY <1>7, FillingInOrder
    <2>2. x \in Nat /\ k \in Nat
      BY <1>1, <1>7 DEF InOrder
    <2>3. OneByteEach(body) => EndsAt(r, x + k + v)
      BY <1>7, EndsBehind
    <2> QED BY <2>1, <2>2, <2>3
  <1>8. \A j \in 0..size : Upto(body, j) \in Seq(Glyphs) /\ Len(Upto(body, j)) = j
    <2> TAKE j \in 0..size
    <2>1. j \in Int /\ 1 <= j + 1 /\ j <= Len(body) /\ j - 1 + 1 = j /\ 1 \in Int /\ 1 <= 1
      OBVIOUS
    <2> HIDE DEF size
    <2> QED BY <2>1, Parted DEF Upto
  <1> HIDE DEF dots, free, mark
  <1>9. CASE free < 0 /\ sep = ":"
    <2>1. cut = Upto(body, length) /\ length \in 0..size /\ length < size
      BY <1>1, <1>9
    <2> DEFINE W == {0} \cup {i \in DOMAIN cut : cut[i] # Space}
               e == Max(W)
    <2> HIDE DEF cut, length, size
    <2>2. cut \in Seq(Glyphs) /\ Len(cut) = length
      BY <1>8, <2>1
    <2>3. W \in SUBSET (0..length) /\ W # {}
      BY <1>1, <2>1, <2>2
    <2>4. e \in 0..length
      <3>1. length \in Nat
        BY <1>1
      <3> HIDE DEF W
      <3>2. Max(W) \in W
        BY <2>3, <3>1, MaxOf
      <3> QED BY <2>3, <3>2
    <2>5. text = Upto(cut, e)
      BY <1>9
    <2> HIDE DEF e, text
    <2>6. Upto(cut, e) = Upto(body, e)
      <3>1. e \in 0..size
        BY <1>1, <2>1, <2>4
      <3>2. /\ Upto(body, e) \in Seq(Glyphs) /\ Len(Upto(body, e)) = e
        BY <1>8, <3>1
      <3>3. \A i \in 1..e : Upto(body, e)[i] = body[i] /\ cut[i] = body[i] /\ Upto(cut, e)[i] = cut[i]
        <4>1. /\ length \in Int /\ e \in Int /\ 1 <= length + 1 /\ 1 <= e + 1 /\ length <= Len(body)
              /\ e <= Len(body) /\ e <= Len(cut) /\ length - 1 + 1 = length /\ e - 1 + 1 = e /\ 1 \in Int /\ 1 <= 1
              /\ \A i \in 1..e : i \in 1..length /\ 1 + i - 1 = i
          BY <1>1, <2>1, <2>2, <2>4 DEF size
        <4>2. \A i \in 1..(length - 1 + 1) : SubSeq(body, 1, length)[i] = body[1 + i - 1]
          BY <4>1, Parted
        <4>3. \A i \in 1..(e - 1 + 1) : SubSeq(body, 1, e)[i] = body[1 + i - 1]
          BY <4>1, Parted
        <4>4. \A i \in 1..(e - 1 + 1) : SubSeq(cut, 1, e)[i] = cut[1 + i - 1]
          BY <2>2, <4>1, Parted
        <4> QED BY <2>1, <4>1, <4>2, <4>3, <4>4 DEF Upto
      <3>4. Upto(cut, e) \in Seq(Glyphs) /\ Len(Upto(cut, e)) = e
        <4>1. e \in Int /\ 1 <= e + 1 /\ e <= Len(cut) /\ e - 1 + 1 = e /\ 1 \in Int /\ 1 <= 1
          BY <1>1, <2>1, <2>2, <2>4
        <4> QED BY <2>2, <4>1, Parted DEF Upto
      <3> DEFINE v == Upto(cut, e)
                 u == Upto(body, e)
      <3>5. \A i \in 1..Len(v) : v[i] = u[i]
        BY <3>3, <3>4
      <3>6. v \in Seq(Glyphs) /\ u \in Seq(Glyphs) /\ Len(v) = Len(u)
        BY <3>2, <3>4
      <3> HIDE DEF u, v
      <3>7. v = u
        BY <3>5, <3>6, SeqEqual
      <3> QED BY <3>7 DEF u, v
    <2>7. e \in 0..size
      BY <1>1, <2>1, <2>4
    <2>8. r = Blanks(0) \o Upto(body, e) \o dots
      BY <1>2, <1>4, <1>8, <1>9, <2>5, <2>6, <2>7
    <2>9. Shaped(0, e, dots)
      BY <1>3, <2>7, <2>8 DEF InOrder, size
    <2>10. /\ (\E i, j \in Nat : Filling(r, body, i, j)) /\ Len(r) = 0 + e + Len(dots)
           /\ OneByteEach(body) => EndsAt(r, 0 + e + mark)
      <3> HIDE DEF Shaped
      <3> QED BY <1>3, <1>7, <2>9
    <2> DEFINE w == 0 + e + mark
    <2>11. /\ w \in Nat /\ w <= length + (IF number < 0 THEN 1 ELSE 0) /\ Least(length, size) = length
           /\ Len(r) = IF number < 0 THEN w + 2 ELSE w
      <3>1. mark = IF number < 0 THEN 1 ELSE 0
        BY DEF mark
      <3> QED BY <1>1, <1>3, <2>1, <2>4, <2>10, <3>1 DEF Least
    <2> HIDE DEF w
    <2>12. FitLength(r, w, sep, number, body)
      BY <1>1, <1>9, <2>10, <2>11 DEF FitLength, size, w
    <2> QED BY <2>10, <2>11, <2>12
  <1>10. CASE free < 0 /\ sep # ":"
    <2> DEFINE k == IF number < 0 THEN length - 1 ELSE length
    <2>1. k \in 0..size /\ k + (IF number < 0 THEN 1 ELSE 0) = length
      BY <1>1, <1>10
    <2>2. text = Upto(body, k)
      BY <1>10
    <2> HIDE DEF k, text, size, length
    <2>3. r = Blanks(0) \o Upto(body, k) \o dots
      BY <1>2, <1>4, <1>8, <1>10, <2>1, <2>2
    <2>4. Shaped(0, k, dots)
      BY <1>3, <2>1, <2>3 DEF InOrder, size
    <2>5. /\ (\E i, j \in Nat : Filling(r, body, i, j)) /\ Len(r) = 0 + k + Len(dots)
          /\ OneByteEach(body) => EndsAt(r, 0 + k + mark)
      <3> HIDE DEF Shaped
      <3> QED BY <1>3, <1>7, <2>4
    <2>6. 0 + k + mark = length /\ Len(r) = IF number < 0 THEN length + 2 ELSE length
      <3>1. mark = IF number < 0 THEN 1 ELSE 0
        BY DEF mark
      <3> QED BY <1>1, <1>3, <2>1, <2>5, <3>1
    <2>7. length \in Nat
      BY <1>1
    <2>8. FitLength(r, length, sep, number, body)
      BY <1>1, <1>10, <2>5, <2>6 DEF FitLength
    <2> QED BY <2>5, <2>7, <2>8
  <1>11. CASE ~(free < 0)
    <2> HIDE DEF text, length, size
    <2>1. free \in Nat /\ free \div 2 \in Nat /\ free - free \div 2 \in Nat
          /\ free \div 2 + (free - free \div 2) = free /\ size + free = length
      BY <1>1, <1>11
    <2>2. size \in 0..size
      BY <1>1
    <2> DEFINE Sized(n) == /\ (\E i, j \in Nat : Filling(r, body, i, j)) /\ Len(r) = n
                           /\ OneByteEach(body) => EndsAt(r, n)
    <2>6. ~Dotted(number, body) /\ length \in Nat
      BY <1>1, <1>11
    <2>7. Space \notin ContinuationBytes /\ Space \in Added
      BY CharacterAssumption DEF Added
    <2>3. CASE sep = ":"
      <3>1. r = Blanks(0) \o Upto(body, size) \o <<>>
        BY <1>2, <1>4, <1>5, <1>11, <2>3
      <3>2. Shaped(0, size, <<>>)
        BY <1>6, <2>2, <3>1 DEF InOrder, size
      <3>3. 0 \in 0..Len(<<>>) /\ EndsAt(<<>>, 0)
        BY <1>6 DEF EndsAt
      <3>4. 0 + size + 0 = size /\ 0 + size + Len(<<>>) = size
        BY <1>1, <1>6
      <3>5. Sized(size)
        <4>1. /\ (\E i, j \in Nat : Filling(r, body, i, j)) /\ Len(r) = 0 + size + Len(<<>>)
              /\ OneByteEach(body) => EndsAt(r, 0 + size + 0)
          <5> HIDE DEF Shaped
          <5> QED BY <1>7, <3>2, <3>3
        <4> QED BY <3>4, <4>1
      <3>6. size <= Least(length, size) + 0
        BY <1>1, <2>1 DEF Least
      <3>7. FitLength(r, size, sep, number, body)
        <4>1. Len(body) = size
          BY DEF size
        <4> QED BY <1>1, <2>3, <2>6, <3>5, <3>6, <4>1 DEF FitLength
      <3> QED BY <1>1, <3>5, <3>7
    <2>4. ASSUME NEW x \in Nat, NEW y \in Nat, x + y = free, sep # ":",
                 r = Blanks(x) \o body \o Blanks(y)
          PROVE  (\E i, j \in Nat : Filling(r, body, i, j)) /\ FitLength(r, length, sep, number, body)
      <3>1. r = Blanks(x) \o Upto(body, size) \o Blanks(y)
        BY <1>5, <2>4
      <3>2. /\ Blanks(y) \in Seq(Glyphs) /\ Len(Blanks(y)) = y
            /\ \A i \in 1..y : Blanks(y)[i] \in Added /\ Blanks(y)[i] \notin ContinuationBytes
        BY <2>7, BlanksAre
      <3>3. Shaped(x, size, Blanks(y))
        BY <2>2, <3>1, <3>2 DEF InOrder, size
      <3>4. y \in 0..Len(Blanks(y)) /\ EndsAt(Blanks(y), y)
        BY <3>2 DEF EndsAt
      <3>5. x + size + y = length
        BY <1>1, <2>1, <2>4
      <3>6. Sized(length)
        <4>1. /\ (\E i, j \in Nat : Filling(r, body, i, j)) /\ Len(r) = x + size + Len(Blanks(y))
              /\ OneByteEach(body) => EndsAt(r, x + size + y)
          <5> HIDE DEF Shaped
          <5> QED BY <1>7, <3>3, <3>4
        <4> QED BY <3>2, <3>5, <4>1
      <3> QED BY <1>1, <2>4, <2>6, <3>6 DEF FitLength
    <2>5. CASE sep # ":"
      <3>1. CASE sep = "<"
        <4>1. r = Blanks(0) \o body \o Blanks(free)
          BY <1>2, <1>4, <1>11, <2>5, <3>1
        <4>2. 0 + free = free /\ 0 \in Nat
          BY <2>1
        <4> QED BY <2>1, <2>4, <2>5, <2>6, <4>1, <4>2
      <3>2. CASE sep = ">"
        <4>1. r = Blanks(free) \o body
          BY <1>2, <1>11, <2>5, <3>2
        <4>2. Blanks(free) \o body \in Seq(Glyphs)
          BY <2>1, BlanksAre, ConcatProperties
        <4>3. r = Blanks(free) \o body \o Blanks(0)
          BY <1>4, <4>1, <4>2
        <4>4. free + 0 = free /\ 0 \in Nat
          BY <2>1
        <4> QED BY <2>1, <2>4, <2>5, <2>6, <4>3, <4>4
      <3>3. CASE sep # "<" /\ sep # ">"
        <4>1. r = Blanks(free \div 2) \o body \o Blanks(free - free \div 2)
          BY <1>2, <1>11, <2>5, <3>3
        <4> QED BY <2>1, <2>4, <2>5, <2>6, <4>1
      <3> QED BY <3>1, <3>2, <3>3
    <2> QED BY <2>3, <2>5
  <1> QED BY <1>9, <1>10, <1>11

-----------------------------------------------------------------------------
(* Only the first a bytes and those behind the next c are of escapes.       *)
HidesAround(t, a, c) == Hidden(t) = (1..a) \cup ((a + c + 1)..Len(t))

(* How many bytes are no part of an escape.                                 *)
LEMMA BytesAround ==
  ASSUME NEW a \in Nat, NEW c \in Nat, NEW t, Len(t) \in Nat, a + c <= Len(t),
         HidesAround(t, a, c)
  PROVE  Bytes(t) = c
  <1> DEFINE S == 1..a
             T == (a + c + 1)..Len(t)
  <1>1. a + c + 1 \in Int /\ Len(t) \in Int /\ a \in Int /\ 1 \in Int
    OBVIOUS
  <1>2. IsFiniteSet(S) /\ Cardinality(S) = IF 1 > a THEN 0 ELSE a - 1 + 1
    BY <1>1, FS_Interval
  <1>3. IsFiniteSet(T) /\ Cardinality(T) = IF a + c + 1 > Len(t) THEN 0 ELSE Len(t) - (a + c + 1) + 1
    BY <1>1, FS_Interval
  <1>4. S \cap T = {}
    BY <1>1
  <1>5. Hidden(t) = S \cup T
    BY Zenon DEF HidesAround
  <1> HIDE DEF S, T
  <1>6. Cardinality(S \cup T) = Cardinality(S) + Cardinality(T) - Cardinality(S \cap T)
    BY <1>2, <1>3, FS_Union
  <1>7. Cardinality(S \cap T) = 0
    BY <1>4, FS_EmptySet
  <1>8. Cardinality(S) = a /\ Cardinality(T) = Len(t) - (a + c)
    BY <1>2, <1>3
  <1>9. Cardinality(Hidden(t)) = a + (Len(t) - (a + c))
    <2>1. Cardinality(S \cup T) = a + (Len(t) - (a + c))
      BY <1>6, <1>7, <1>8
    <2> QED BY <1>5, <2>1, Zenon
  <1>10. Len(t) - (a + (Len(t) - (a + c))) = c
    OBVIOUS
  <1> QED BY <1>9, <1>10 DEF Bytes

(* And of how many characters they are, if only the last is of several.     *)
LEMMA WidthAround ==
  ASSUME NEW a \in Nat, NEW c \in Nat, NEW t, Len(t) \in Nat, DOMAIN t = 1..Len(t),
         a + c <= Len(t), HidesAround(t, a, c), NEW w \in 0..c,
         \A i \in 1..c : t[a + i] \in ContinuationBytes <=> i > w
  PROVE  Width(t) = w
  <1> DEFINE S == {i \in DOMAIN t \ Hidden(t) : t[i] \notin ContinuationBytes}
  <1>1. \A i : i \in DOMAIN t \ Hidden(t) <=> i \in (a + 1)..(a + c)
    BY DEF HidesAround
  <1>2. \A i \in (a + 1)..(a + c) : t[i] \notin ContinuationBytes <=> i <= a + w
    <2> TAKE i \in (a + 1)..(a + c)
    <2>1. i - a \in 1..c /\ a + (i - a) = i /\ (i - a > w <=> ~(i <= a + w))
      OBVIOUS
    <2> QED BY <2>1
  <1>3. \A i : i \in (a + 1)..(a + w) <=> i \in (a + 1)..(a + c) /\ i <= a + w
    OBVIOUS
  <1>4. S = (a + 1)..(a + w)
    BY <1>1, <1>2, <1>3
  <1>5. a + 1 \in Int /\ a + w \in Int
    OBVIOUS
  <1>6. Cardinality((a + 1)..(a + w)) = IF a + 1 > a + w THEN 0 ELSE a + w - (a + 1) + 1
    BY <1>5, FS_Interval
  <1>7. Cardinality((a + 1)..(a + w)) = w
    BY <1>6
  <1> QED BY <1>4, <1>7 DEF Width

(* And which are, in their order.                                           *)
InTheirOrder(C, t, a, c) ==
  /\ Escapes(t) \in Seq(C) /\ Len(Escapes(t)) = Len(t) - c
  /\ \A i \in 1..(Len(t) - c) : Escapes(t)[i] = IF i <= a THEN t[i] ELSE t[i + c]

LEMMA EscapesAround ==
  ASSUME NEW C, NEW t \in Seq(C), NEW a \in Nat, NEW c \in Nat, a + c <= Len(t),
         HidesAround(t, a, c)
  PROVE  InTheirOrder(C, t, a, c)
  <1> DEFINE size == Len(t)
             H == Hidden(t)
             V == Seq(C)
             none == <<>>
             ValueOf(f, n) == IF n = 0 THEN <<>>
                              ELSE IF n \in Hidden(t) THEN Append(f[n - 1], t[n]) ELSE f[n - 1]
             upto[n \in 0..Len(t)] ==
               IF n = 0 THEN <<>>
               ELSE IF n \in Hidden(t) THEN Append(upto[n - 1], t[n]) ELSE upto[n - 1]
             G == [n \in 1..size |-> [v \in V |-> IF n \in H THEN Append(v, t[n]) ELSE v]]
  <1>1. size \in Nat /\ \A n \in 1..size : t[n] \in C
    OBVIOUS
  <1>2. PICK f \in [0..size -> V] : f[0] = none /\ \A n \in 1..size : f[n] = G[n][f[n - 1]]
    <2>1. \A n \in 1..size : \A v \in V : (IF n \in H THEN Append(v, t[n]) ELSE v) \in V
      <3> HIDE DEF size, H
      <3> QED BY <1>1
    <2>2. none \in V
      OBVIOUS
    <2> HIDE DEF size, V, none, H
    <2>3. Within(G, size, V)
      BY <2>1 DEF Within
    <2> HIDE DEF G
    <2> QED BY <1>1, <2>2, <2>3, FromTheFront
  <1>3. \A n \in 0..size : f[n] = ValueOf(f, n)
    <2> SUFFICES ASSUME NEW n \in 0..size PROVE f[n] = ValueOf(f, n)
      OBVIOUS
    <2>1. CASE n = 0
      BY <1>2, <2>1
    <2>2. CASE n # 0
      <3>1. n \in 1..size /\ n - 1 \in 0..size
        BY <1>1, <2>2
      <3> HIDE DEF size, V, H
      <3>2. f[n - 1] \in V
        BY <1>2, <3>1
      <3>3. f[n] = IF n \in H THEN Append(f[n - 1], t[n]) ELSE f[n - 1]
        BY <1>2, <3>1, <3>2
      <3> QED BY <2>2, <3>3 DEF H
    <2> QED BY <2>1, <2>2
  <1>4. f = [n \in 0..size |-> ValueOf(f, n)]
    <2> HIDE DEF ValueOf, size
    <2> QED BY <1>2, <1>3
  <1>5. upto = [n \in 0..size |-> ValueOf(upto, n)]
    BY <1>4
  <1>6. Escapes(t) = upto[size]
    BY DEF Escapes
  <1> HIDE DEF upto
  <1>7. \A n \in 0..size : upto[n] = ValueOf(upto, n)
    BY <1>5
  <1> DEFINE Count(n) == IF n <= a THEN n ELSE IF n <= a + c THEN a ELSE n - c
             Right(v, n) == /\ v \in Seq(C) /\ Len(v) = Count(n)
                            /\ \A i \in 1..Count(n) : v[i] = IF i <= a THEN t[i] ELSE t[i + c]
             S == {n \in Nat : n <= size => Right(upto[n], n)}
  <1> HIDE DEF size
  <1>8. 0 \in S
    <2>1. upto[0] = <<>>
      BY <1>1, <1>7
    <2>2. Count(0) = 0 /\ <<>> \in Seq(C) /\ Len(<<>>) = 0
      OBVIOUS
    <2>3. Right(<<>>, 0)
      <3> HIDE DEF Count
      <3> QED BY <2>2
    <2> HIDE DEF Right
    <2>4. Right(upto[0], 0)
      BY <2>1, <2>3
    <2> QED BY <2>4
  <1>9. ASSUME NEW n \in Nat, n \in S PROVE n + 1 \in S
    <2> SUFFICES ASSUME n + 1 <= size PROVE Right(upto[n + 1], n + 1)
      OBVIOUS
    <2> DEFINE k == n + 1
               v == upto[n]
               w == upto[k]
    <2>1. k \in 0..size /\ k \in 1..size /\ k # 0 /\ k - 1 = n /\ n <= size /\ k \in Nat
      BY <1>1
    <2>2. w = IF k \in Hidden(t) THEN Append(v, t[k]) ELSE v
      <3> HIDE DEF k
      <3> QED BY <1>7, <2>1
    <2>3. Right(v, n)
      BY <1>9, <2>1
    <2>4. t[k] \in C /\ (k \in Hidden(t) <=> k <= a \/ k > a + c)
      <3>1. k \in (1..a) \cup ((a + c + 1)..size) <=> k <= a \/ k > a + c
        BY <1>1, <2>1
      <3> HIDE DEF k
      <3> QED BY <1>1, <2>1, <3>1 DEF size, HidesAround
    <2>5. CASE k <= a
      <3>1. w = Append(v, t[k]) /\ Count(n) = n /\ Count(k) = k
        BY <2>1, <2>2, <2>4, <2>5
      <3> HIDE DEF k, v, w
      <3>2. /\ w \in Seq(C) /\ Len(w) = n + 1 /\ \A i \in 1..n : w[i] = v[i]
            /\ w[n + 1] = t[k]
        BY <2>3, <2>4, <3>1, AppendProperties
      <3>3. \A i \in 1..k : w[i] = IF i <= a THEN t[i] ELSE t[i + c]
        <4> TAKE i \in 1..k
        <4>1. i <= a /\ (i \in 1..n \/ i = k)
          BY <2>1, <2>5 DEF k
        <4> QED BY <2>3, <3>1, <3>2, <4>1 DEF k
      <3> QED BY <3>1, <3>2, <3>3 DEF k, w
    <2>6. CASE k > a /\ k <= a + c
      <3>1. w = v /\ Count(n) = a /\ Count(k) = a
        BY <2>1, <2>2, <2>4, <2>6
      <3> HIDE DEF v, w
      <3> QED BY <2>3, <3>1 DEF w
    <2>7. CASE k > a + c
      <3> DEFINE j == Count(n)
      <3>1. w = Append(v, t[k]) /\ Count(k) = j + 1 /\ j \in Nat /\ j + 1 = k - c /\ j >= a
        BY <2>1, <2>2, <2>4, <2>7
      <3>2. v \in Seq(C) /\ Len(v) = j /\ \A i \in 1..j : v[i] = IF i <= a THEN t[i] ELSE t[i + c]
        BY <2>3
      <3> HIDE DEF k, v, w, j
      <3>3. /\ w \in Seq(C) /\ Len(w) = j + 1 /\ \A i \in 1..j : w[i] = v[i]
            /\ w[j + 1] = t[k]
        BY <2>4, <3>1, <3>2, AppendProperties
      <3>4. \A i \in 1..(j + 1) : w[i] = IF i <= a THEN t[i] ELSE t[i + c]
        <4> TAKE i \in 1..(j + 1)
        <4>1. i \in 1..j \/ (i = j + 1 /\ ~(i <= a) /\ i + c = k)
          BY <2>1, <3>1
        <4>2. CASE i \in 1..j
          BY <3>2, <3>3, <4>2
        <4>3. CASE i = j + 1 /\ ~(i <= a) /\ i + c = k
          BY <3>3, <4>3
        <4> QED BY <4>1, <4>2, <4>3
      <3>5. Right(w, k)
        BY <3>1, <3>3, <3>4
      <3> QED BY <3>5 DEF k, w
    <2> QED BY <2>1, <2>5, <2>6, <2>7
  <1> HIDE DEF S
  <1>10. size \in S
    BY <1>1, <1>8, <1>9, Upward
  <1>11. Right(upto[size], size)
    BY <1>1, <1>10 DEF S
  <1>12. Count(size) = size - c
    BY <1>1 DEF size
  <1> QED BY <1>6, <1>11, <1>12 DEF size, InTheirOrder

-----------------------------------------------------------------------------
(* The escapes around the first a characters and behind the first b.        *)
EscapesOf(C, t, s, a, b) ==
  /\ Escapes(t) \in Seq(C) /\ Len(Escapes(t)) = a + (Len(s) - b)
  /\ \A i \in 1..(a + (Len(s) - b)) : Escapes(t)[i] = IF i <= a THEN s[i] ELSE s[i - a + b]

(* So what was put between the colors of a value has its bytes and its      *)
(* characters, and no color is lost.                                        *)
LEMMA LaidRight ==
  ASSUME NEW C, NEW s \in Seq(C), NEW t \in Seq(C), NEW r \in Seq(C),
         NEW a \in Nat, NEW b \in Nat, Parts(s, a, b), Laid(t, s, r, a, b), NoEscape(r)
  PROVE  /\ Bytes(t) = Len(r) /\ EscapesOf(C, t, s, a, b)
         /\ \A w \in 0..Len(r) : EndsAt(r, w) => Width(t) = w
  <1> DEFINE c == Len(r)
             z == Len(s) - b
  <1>1. /\ c \in Nat /\ Len(t) \in Nat /\ z \in Nat /\ Len(t) = a + c + z /\ b <= Len(s) /\ Len(s) \in Nat
        /\ a <= b /\ a + c <= Len(t) /\ Len(t) - c = a + z
    BY DEF Parts, Laid
  <1>2. HidesAround(t, a, c)
    BY HiddenAround DEF HidesAround
  <1>3. /\ \A i \in 1..a : t[i] = s[i]
        /\ \A i \in 1..z : t[a + c + i] = s[b + i]
    BY DEF Laid
  <1> HIDE DEF c, z
  <1>4. Bytes(t) = c
    BY <1>1, <1>2, BytesAround
  <1>5. /\ Escapes(t) \in Seq(C) /\ Len(Escapes(t)) = Len(t) - c
        /\ \A i \in 1..(Len(t) - c) : Escapes(t)[i] = IF i <= a THEN t[i] ELSE t[i + c]
    <2>1. InTheirOrder(C, t, a, c)
      BY <1>1, <1>2, EscapesAround
    <2> QED BY <2>1 DEF InTheirOrder
  <1>6. \A i \in 1..(a + z) : Escapes(t)[i] = IF i <= a THEN s[i] ELSE s[i - a + b]
    <2> TAKE i \in 1..(a + z)
    <2>1. CASE i <= a
      <3>1. i \in 1..a /\ i \in 1..(Len(t) - c)
        BY <1>1, <2>1
      <3> QED BY <1>3, <1>5, <2>1, <3>1
    <2>2. CASE ~(i <= a)
      <3>1. i - a \in 1..z /\ a + c + (i - a) = i + c /\ b + (i - a) = i - a + b /\ i \in 1..(Len(t) - c)
        BY <1>1, <2>2
      <3>2. Escapes(t)[i] = t[i + c]
        BY <1>5, <2>2, <3>1
      <3>3. t[a + c + (i - a)] = s[b + (i - a)]
        BY <1>3, <3>1
      <3> QED BY <2>2, <3>1, <3>2, <3>3
    <2> QED BY <2>1, <2>2
  <1>7. ASSUME NEW w \in 0..c, EndsAt(r, w) PROVE Width(t) = w
    <2>1. \A i \in 1..c : t[a + i] = r[i]
      BY DEF Laid, c
    <2>2. \A i \in 1..c : t[a + i] \in ContinuationBytes <=> i > w
      BY <1>7, <2>1 DEF EndsAt, c
    <2>3. DOMAIN t = 1..Len(t)
      OBVIOUS
    <2> QED BY <1>1, <1>2, <2>2, <2>3, WidthAround
  <1> QED BY <1>1, <1>4, <1>5, <1>6, <1>7 DEF c, z, EscapesOf

(* A value that is laid out as its colors around something.                 *)
LEMMA AroundLaid ==
  ASSUME NEW C, NEW s \in Seq(C), NEW r \in Seq(C), NEW a \in Nat, NEW b \in Nat,
         a <= b, b <= Len(s),
         NEW t, t = Upto(s, a) \o r \o From(s, b + 1)
  PROVE  t \in Seq(C) /\ Laid(t, s, r, a, b)
  <1> DEFINE u == Upto(s, a)
             v == From(s, b + 1)
             ur == u \o r
             c == Len(r)
             size == Len(s)
             z == size - b
  <1>1. c \in Nat /\ size \in Nat /\ z \in Nat /\ a <= size
    OBVIOUS
  <1>2. u \in Seq(C) /\ Len(u) = a /\ \A i \in 1..a : u[i] = s[i]
    <2>1. a \in Int /\ 1 <= a + 1 /\ a <= Len(s) /\ a - 1 + 1 = a /\ \A i \in 1..a : 1 + i - 1 = i
      OBVIOUS
    <2>2. /\ SubSeq(s, 1, a) \in Seq(C)
          /\ Len(SubSeq(s, 1, a)) = a - 1 + 1
          /\ \A i \in 1..(a - 1 + 1) : SubSeq(s, 1, a)[i] = s[1 + i - 1]
      BY <2>1, Parted
    <2>3. \A i \in 1..a : SubSeq(s, 1, a)[i] = s[i]
      BY <2>1, <2>2
    <2> QED BY <2>1, <2>2, <2>3 DEF Upto
  <1>3. v \in Seq(C) /\ Len(v) = z /\ \A i \in 1..z : v[i] = s[b + i]
    <2> DEFINE lo == b + 1
    <2>1. /\ lo \in Int /\ 1 <= lo /\ lo <= size + 1 /\ size \in Int /\ size <= Len(s)
          /\ size - lo + 1 = z /\ \A i \in 1..z : lo + i - 1 = b + i
      OBVIOUS
    <2> HIDE DEF lo, z
    <2>2. /\ SubSeq(s, lo, size) \in Seq(C)
          /\ Len(SubSeq(s, lo, size)) = size - lo + 1
          /\ \A i \in 1..(size - lo + 1) : SubSeq(s, lo, size)[i] = s[lo + i - 1]
      BY <2>1, Parted
    <2>3. \A i \in 1..z : SubSeq(s, lo, size)[i] = s[b + i]
      BY <2>1, <2>2
    <2> QED BY <2>1, <2>2, <2>3 DEF From, lo
  <1>4. t = ur \o v
    OBVIOUS
  <1> HIDE DEF u, v, ur, z, size
  <1>5. /\ ur \in Seq(C) /\ Len(ur) = a + c
        /\ \A i \in 1..(a + c) : ur[i] = IF i <= a THEN u[i] ELSE r[i - a]
    <2>1. ur = u \o r
      BY DEF ur
    <2> QED BY <1>2, <2>1, ConcatProperties
  <1> DEFINE ac == a + c
  <1>6. /\ ur \o v \in Seq(C) /\ Len(ur \o v) = Len(ur) + Len(v)
        /\ \A i \in 1..(Len(ur) + Len(v)) : (ur \o v)[i] = IF i <= Len(ur) THEN ur[i] ELSE v[i - Len(ur)]
    BY <1>3, <1>5, ConcatProperties
  <1> HIDE DEF c
  <1>7. /\ t \in Seq(C) /\ Len(t) = ac + z
        /\ \A i \in 1..(ac + z) : t[i] = IF i <= ac THEN ur[i] ELSE v[i - ac]
    BY <1>3, <1>4, <1>5, <1>6
  <1>8. \A i \in 1..a : t[i] = s[i]
    <2> TAKE i \in 1..a
    <2>1. i \in 1..(ac + z) /\ i <= ac /\ i \in 1..(a + c) /\ i <= a
      BY <1>1
    <2> QED BY <1>2, <1>5, <1>7, <2>1
  <1>9. \A i \in 1..c : t[a + i] = r[i]
    <2> TAKE i \in 1..c
    <2>1. /\ a + i \in 1..(ac + z) /\ a + i <= ac /\ a + i \in 1..(a + c) /\ ~(a + i <= a)
          /\ (a + i) - a = i
      BY <1>1
    <2>2. t[a + i] = ur[a + i]
      BY <1>7, <2>1
    <2> QED BY <1>5, <2>1, <2>2
  <1>10. \A i \in 1..z : t[a + c + i] = s[b + i]
    <2> TAKE i \in 1..z
    <2>1. a + c + i \in 1..(ac + z) /\ ~(a + c + i <= ac) /\ (a + c + i) - ac = i
      BY <1>1
    <2>2. t[a + c + i] = v[i]
      BY <1>7, <2>1
    <2> QED BY <1>3, <2>2
  <1>11. Len(t) = a + c + z
    BY <1>1, <1>7
  <1> QED BY <1>7, <1>8, <1>9, <1>10, <1>11 DEF Laid, c, z, size

(* What is between the colors has no escape.                                *)
LEMMA BodyClean ==
  ASSUME NEW C, NEW s \in Seq(C), NEW a \in Nat, NEW b \in Nat, Parts(s, a, b)
  PROVE  LET body == SubSeq(s, a + 1, b)
         IN body \in Seq(C) /\ Len(body) = b - a /\ NoEscape(body) /\ Laid(s, s, body, a, b)
  <1> DEFINE body == SubSeq(s, a + 1, b)
             size == Len(s)
  <1>1. a <= b /\ b <= size /\ size \in Nat /\ \A i \in (a + 1)..b : ~InEscape(s, i)
    BY DEF Parts
  <1>2. body \in Seq(C) /\ Len(body) = b - a /\ \A i \in 1..(b - a) : body[i] = s[a + i]
    <2> DEFINE lo == a + 1
    <2>1. /\ lo \in Int /\ b \in Int /\ 1 <= lo /\ lo <= b + 1 /\ b <= Len(s)
          /\ b - lo + 1 = b - a /\ \A i \in 1..(b - a) : lo + i - 1 = a + i
      BY <1>1
    <2> HIDE DEF lo
    <2>2. /\ SubSeq(s, lo, b) \in Seq(C)
          /\ Len(SubSeq(s, lo, b)) = b - lo + 1
          /\ \A i \in 1..(b - lo + 1) : SubSeq(s, lo, b)[i] = s[lo + i - 1]
      BY <2>1, Parted
    <2>3. \A i \in 1..(b - a) : SubSeq(s, lo, b)[i] = s[a + i]
      BY <2>1, <2>2
    <2> QED BY <2>1, <2>2, <2>3 DEF lo
  <1> HIDE DEF body
  <1>3. NoEscape(body)
    <2> SUFFICES ASSUME NEW p, NEW l, IsEscape(body, p, l) PROVE FALSE
      BY DEF NoEscape
    <2>1. p \in 1..(b - a) /\ l \in 3..(b - a + 1 - p)
      BY <1>2 DEF IsEscape
    <2> DEFINE q == a + p
    <2>2. q \in Nat \ {0} /\ q + l - 1 <= Len(s) /\ q \in (a + 1)..b /\ q \in 1..q /\ q <= q + l - 1
          /\ l \in Nat
      BY <1>1, <2>1
    <2>3. \A j \in 0..(l - 1) : s[q + j] = body[p + j]
      <3> TAKE j \in 0..(l - 1)
      <3>1. p + j \in 1..(b - a) /\ a + (p + j) = q + j
        BY <1>1, <2>1
      <3> QED BY <1>2, <3>1
    <2> HIDE DEF q
    <2>4. IsEscape(s, q, l)
      <3>1. body \in Seq(C) /\ q \in Nat \ {0} /\ q + l - 1 <= Len(s)
        BY <1>2, <2>2
      <3> QED BY <2>3, <3>1, Moved
    <2>5. InEscape(s, q)
      BY <2>2, <2>4 DEF InEscape
    <2> QED BY <1>1, <2>2, <2>5
  <1>4. Laid(s, s, body, a, b)
    <2>1. size = a + (b - a) + (size - b)
      BY <1>1
    <2>2. \A i \in 1..(Len(s) - b) : a + (b - a) + i = b + i
      BY <1>1
    <2> QED BY <1>2, <2>1, <2>2 DEF Laid
  <1> QED BY <1>2, <1>3, <1>4 DEF body

(* A value that is cut or padded between its colors is as wide as it is to  *)
(* be, and has them all.                                                    *)
IsRight(shown, sep, number, of) ==
  LET n == Asked(number)
      dotted == number < 0 /\ Bytes(of) > n
  IN /\ FillsOut(sep, n, Bytes(shown), Bytes(of), IF dotted THEN 3 ELSE 0)
     /\ OneByteEach(of) => FillsOut(sep, n, Width(shown), Width(of), IF dotted THEN 1 ELSE 0)
     /\ Escapes(shown) = Escapes(of)

LEMMA FittedRight ==
  ASSUME NEW s \in Text, Len(s) <= IntMax, Enclosed(s), NEW sep,
         NEW number \in (-IntMax - 1)..IntMax, NEW shown,
         shown = Around(SkipAnsiEscape(s), Fit(sep, number, SkipAnsiEscape(s).body))
  PROVE  IsRight(shown, sep, number, s)
  <1>1. s \in Seq(STRING) /\ s \in Seq(Glyphs)
    <2>1. STRING \subseteq Glyphs
      BY DEF Glyphs
    <2>2. Seq(STRING) \subseteq Seq(Glyphs)
      <3> HIDE DEF Glyphs
      <3> QED BY <2>1, SeqMonotonic
    <2> QED BY <2>2 DEF Text
  <1>2. PICK a, b \in Nat :
           /\ Parts(s, a, b)
           /\ SkipAnsiEscape(s) =
                [lead |-> Upto(s, a), body |-> SubSeq(s, a + 1, b), trail |-> From(s, b + 1)]
    BY <1>1, PartsOf
  <1> DEFINE body == SubSeq(s, a + 1, b)
             r == Fit(sep, number, body)
  <1>3. body \in Seq(Glyphs) /\ Len(body) = b - a /\ NoEscape(body) /\ Laid(s, s, body, a, b)
    BY <1>1, <1>2, BodyClean
  <1>4. a <= b /\ b <= Len(s) /\ Len(s) \in Nat
    BY <1>1, <1>2 DEF Parts
  <1>5. Len(body) <= IntMax
    BY <1>3, <1>4, FormatAssumption
  <1>6. shown = Upto(s, a) \o r \o From(s, b + 1)
    BY <1>2 DEF Around
  <1> HIDE DEF body, r
  <1>7. /\ \E x, k \in Nat : Filling(r, body, x, k)
        /\ \E w \in Nat : FitLength(r, w, sep, number, body)
    BY <1>3, <1>5, FitIs DEF r
  <1>8. PICK x, k \in Nat : Filling(r, body, x, k)
    BY <1>7
  <1>9. r \in Seq(Glyphs) /\ NoEscape(r)
    BY <1>3, <1>8, FillingClean DEF Filling
  <1>10. shown \in Seq(Glyphs) /\ Laid(shown, s, r, a, b)
    BY <1>1, <1>4, <1>6, <1>9, AroundLaid
  <1>11. /\ Bytes(shown) = Len(r) /\ EscapesOf(Glyphs, shown, s, a, b)
         /\ \A w \in 0..Len(r) : EndsAt(r, w) => Width(shown) = w
    BY <1>1, <1>2, <1>9, <1>10, LaidRight
  <1>12. /\ Bytes(s) = Len(body) /\ EscapesOf(Glyphs, s, s, a, b)
         /\ \A w \in 0..Len(body) : EndsAt(body, w) => Width(s) = w
    BY <1>1, <1>2, <1>3, LaidRight
  <1>13. Escapes(shown) = Escapes(s)
    <2> DEFINE v == Escapes(shown)
               w == Escapes(s)
    <2>1. v \in Seq(Glyphs) /\ w \in Seq(Glyphs) /\ Len(v) = Len(w) /\ \A i \in 1..Len(v) : v[i] = w[i]
      BY <1>11, <1>12 DEF EscapesOf
    <2> HIDE DEF v, w
    <2>2. v = w
      BY <2>1, SeqEqual
    <2> QED BY <2>2 DEF v, w
  <1>14. PICK w \in Nat : FitLength(r, w, sep, number, body)
    BY <1>7
  <1> DEFINE n == Asked(number)
             dotted == number < 0 /\ Bytes(s) > n
  <1>15. /\ Len(r) \in Nat /\ Len(body) \in Nat /\ (dotted <=> Dotted(number, body))
         /\ n \in Int
    <2>1. n \in Int
      BY FormatAssumption DEF Asked, Least
    <2> QED BY <1>3, <1>9, <1>12, <2>1 DEF Dotted
  <1>16. FillsOut(sep, n, Bytes(shown), Bytes(s), IF dotted THEN 3 ELSE 0)
    <2>1. Bytes(shown) = Len(r) /\ Bytes(s) = Len(body)
      BY <1>11, <1>12
    <2> HIDE DEF dotted, n
    <2>2. /\ Len(r) = (IF dotted THEN w + 2 ELSE w)
          /\ IF sep # ":" THEN w = n ELSE w <= Least(n, Len(body)) + (IF dotted THEN 1 ELSE 0)
      BY <1>14, <1>15 DEF FitLength, n
    <2>3. Least(n, Len(body)) \in Int
      BY <1>15 DEF Least
    <2>4. CASE sep # ":"
      BY <1>15, <2>1, <2>2, <2>4 DEF FillsOut
    <2>5. CASE sep = ":"
      BY <1>15, <2>1, <2>2, <2>3, <2>5 DEF FillsOut
    <2> QED BY <2>4, <2>5
  <1>17. ASSUME OneByteEach(s)
         PROVE  FillsOut(sep, n, Width(shown), Width(s), IF dotted THEN 1 ELSE 0)
    <2>1. OneByteEach(body) /\ EndsAt(body, Len(body))
      <3>1. \A i \in 1..Len(body) : body[i] \notin ContinuationBytes
        <4> TAKE i \in 1..Len(body)
        <4>1. s[a + i] = body[i] /\ a + i \in 1..Len(s)
          BY <1>3, <1>4 DEF Laid
        <4> QED BY <1>1, <1>17, <4>1 DEF OneByteEach
      <3> QED BY <1>3, <3>1 DEF OneByteEach, EndsAt
    <2>2. EndsAt(r, w) /\ w <= Len(r)
      BY <1>14, <1>15, <2>1 DEF FitLength
    <2>3. Width(shown) = w
      BY <1>11, <1>15, <2>2
    <2>4. Width(s) = Len(body)
      BY <1>12, <1>15, <2>1
    <2> HIDE DEF dotted, n
    <2>5. IF sep # ":" THEN w = n ELSE w <= Least(n, Len(body)) + (IF dotted THEN 1 ELSE 0)
      BY <1>14, <1>15 DEF FitLength, n
    <2>6. Least(n, Len(body)) \in Int
      BY <1>15 DEF Least
    <2> QED BY <1>15, <2>3, <2>4, <2>5, <2>6 DEF FillsOut
  <1> QED BY <1>13, <1>16, <1>17, Zenon DEF IsRight

-----------------------------------------------------------------------------
(* What the format and its arguments are, and what was fitted last.         *)
IsFitted(x) ==
  /\ x.number \in (-IntMax - 1)..IntMax
  /\ x.of \in Text /\ Len(x.of) <= IntMax
  /\ x.shown = Around(SkipAnsiEscape(x.of), Fit(x.sep, x.number, SkipAnsiEscape(x.of).body))

FormatInv ==
  /\ format \in Text
  /\ \A i \in DOMAIN arguments : arguments[i].text \in Text /\ Len(arguments[i].text) <= IntMax
  /\ at \in Nat \ {0}
  /\ fitted # Nothing => IsFitted(fitted)

LEMMA FormatInit == InitFormat => FormatInv
  <1> SUFFICES ASSUME InitFormat PROVE FormatInv
    OBVIOUS
  <1>1. PICK f \in Formats : format = f.text /\ arguments \in f.arguments
    BY DEF InitFormat
  <1>2. format \in Text
    BY <1>1, FormatAssumption
  <1>3. \A i \in DOMAIN arguments : arguments[i].text \in Text /\ Len(arguments[i].text) <= IntMax
    BY <1>1, FormatAssumption
  <1>4. at = 1 /\ fitted = Nothing
    BY DEF InitFormat
  <1> QED BY <1>2, <1>3, <1>4 DEF FormatInv

(* The helpers find places, parts and numbers.                              *)
LEMMA FindIs ==
  ASSUME NEW C, NEW s \in Seq(C), NEW n \in Nat, NEW chars
  PROVE  Find(s, n, chars) \in Nat /\ Find(s, n, chars) <= Len(s) + 1
         /\ (n <= Len(s) + 1 => n <= Find(s, n, chars))
  <1> DEFINE S == {i \in n..Len(s) : s[i] \in chars} \cup {Len(s) + 1}
  <1>1. S \in SUBSET Nat /\ S # {} /\ Find(s, n, chars) = Min(S)
    BY DEF Find
  <1>2. Len(s) + 1 \in S /\ \A x \in S : n <= x \/ x = Len(s) + 1
    OBVIOUS
  <1> HIDE DEF S
  <1>3. Min(S) \in S /\ \A x \in S : Min(S) <= x
    BY <1>1, MinOf
  <1> QED BY <1>1, <1>2, <1>3

LEMMA FromIs ==
  ASSUME NEW C, NEW s \in Seq(C), NEW n \in Nat \ {0}
  PROVE  From(s, n) \in Seq(C)
  <1>1. n \in Int /\ Len(s) \in Int /\ \A i \in n..Len(s) : s[i] \in C
    OBVIOUS
  <1> QED BY <1>1, SubSeqProperties DEF From

LEMMA DigitsIs ==
  ASSUME NEW C, NEW s \in Seq(C), NEW n, n = Digits(s)
  PROVE  n \in 0..Len(s) /\ \A i \in 1..n : s[i] \in Range(Numerals)
  <1> DEFINE S == {k \in 0..Len(s) : k = Len(s) \/ s[k + 1] \notin Range(Numerals)}
  <1>1. S \in SUBSET Nat /\ Len(s) \in S /\ n = Min(S)
    BY DEF Digits
  <1>2. n \in S /\ \A k \in S : n <= k
    <2> HIDE DEF S
    <2> QED BY <1>1, MinOf
  <1>3. ASSUME NEW i \in 1..n PROVE s[i] \in Range(Numerals)
    <2> DEFINE k == i - 1
    <2>1. k \in 0..Len(s) /\ k # Len(s) /\ ~(n <= k) /\ k + 1 = i
      BY <1>2
    <2>2. k \notin S
      BY <1>2, <2>1
    <2> QED BY <2>1, <2>2
  <1> QED BY <1>2, <1>3

LEMMA NumeralIs ==
  ASSUME NEW c \in Range(Numerals) PROVE Numeral(c) \in 0..9
  <1>1. DOMAIN Numerals = 1..10
    BY DEF Numerals
  <1>2. \E d \in 1..10 : Numerals[d] = c
    BY <1>1 DEF Range
  <1> DEFINE e == CHOOSE d \in 1..10 : Numerals[d] = c
  <1>3. e \in 1..10
    BY <1>2
  <1> HIDE DEF e
  <1> QED BY <1>3 DEF Numeral, e

LEMMA NaturalIs ==
  ASSUME NEW C, NEW s \in Seq(C), \A i \in 1..Len(s) : s[i] \in Range(Numerals)
  PROVE  Natural(s) \in Nat
  <1> DEFINE size == Len(s)
             zero == 0
             V == Nat
             ValueOf(f, n) == IF n = 0 THEN 0 ELSE 10 * f[n - 1] + Numeral(s[n])
             upto[n \in 0..Len(s)] == IF n = 0 THEN 0 ELSE 10 * upto[n - 1] + Numeral(s[n])
             G == [n \in 1..size |-> [v \in V |-> 10 * v + Numeral(s[n])]]
  <1>1. size \in Nat /\ \A n \in 1..size : Numeral(s[n]) \in Nat
    <2>1. \A n \in 1..size : Numeral(s[n]) \in 0..9
      BY NumeralIs
    <2>2. \A x \in 0..9 : x \in Nat
      OBVIOUS
    <2> QED BY <2>1, <2>2
  <1>2. PICK f \in [0..size -> V] : f[0] = zero /\ \A n \in 1..size : f[n] = G[n][f[n - 1]]
    <2>1. \A n \in 1..size : \A v \in V : 10 * v + Numeral(s[n]) \in V
      BY <1>1
    <2>2. zero \in V
      OBVIOUS
    <2>3. size \in Nat
      BY <1>1
    <2> HIDE DEF size, V, zero
    <2>4. Within(G, size, V)
      BY <2>1 DEF Within
    <2> HIDE DEF G
    <2>5. \E f \in [0..size -> V] : f[0] = zero /\ \A n \in 1..size : f[n] = G[n][f[n - 1]]
      BY <2>2, <2>3, <2>4, FromTheFront, SMTT(60)
    <2> QED BY <2>5
  <1>3. \A n \in 0..size : f[n] = ValueOf(f, n)
    <2> SUFFICES ASSUME NEW n \in 0..size PROVE f[n] = ValueOf(f, n)
      OBVIOUS
    <2>1. CASE n = 0
      BY <1>2, <2>1
    <2>2. CASE n # 0
      <3>1. n \in 1..size /\ n - 1 \in 0..size
        BY <1>1, <2>2
      <3> HIDE DEF size, V
      <3>2. f[n - 1] \in V
        BY <1>2, <3>1
      <3>3. f[n] = 10 * f[n - 1] + Numeral(s[n])
        BY <1>2, <3>1, <3>2
      <3> QED BY <2>2, <3>3
    <2> QED BY <2>1, <2>2
  <1>4. f = [n \in 0..size |-> ValueOf(f, n)]
    <2> HIDE DEF ValueOf, size
    <2> QED BY <1>2, <1>3
  <1>5. upto = [n \in 0..size |-> ValueOf(upto, n)]
    BY <1>4
  <1>6. Natural(s) = upto[size]
    BY DEF Natural
  <1> HIDE DEF upto
  <1>7. \A n \in 0..size : upto[n] = ValueOf(upto, n)
    BY <1>5
  <1> DEFINE S == {n \in Nat : n <= size => upto[n] \in Nat}
  <1> HIDE DEF size
  <1>8. 0 \in S
    BY <1>1, <1>7
  <1>9. ASSUME NEW n \in Nat, n \in S PROVE n + 1 \in S
    <2> SUFFICES ASSUME n + 1 <= size PROVE upto[n + 1] \in Nat
      OBVIOUS
    <2>1. upto[n] \in Nat /\ n + 1 \in 0..size /\ n + 1 \in 1..size /\ n + 1 # 0 /\ (n + 1) - 1 = n
      BY <1>1, <1>9
    <2>2. upto[n + 1] = 10 * upto[n] + Numeral(s[n + 1])
      BY <1>7, <2>1
    <2>3. Numeral(s[n + 1]) \in Nat
      BY <1>1, <2>1
    <2> QED BY <2>1, <2>2, <2>3
  <1> HIDE DEF S
  <1>10. size \in S
    BY <1>1, <1>8, <1>9, Upward
  <1> QED BY <1>1, <1>6, <1>10 DEF S

LEMMA ToInt32Is ==
  ASSUME NEW s \in Text
  PROVE  ToInt32(s).value \in (-IntMax - 1)..IntMax
  <1> DEFINE minus == FirstChar(s) = "-"
             digits == IF minus THEN From(s, 2) ELSE s
             n == Digits(digits)
             w == Natural(Upto(digits, n))
             value == w * (IF minus THEN -1 ELSE 1)
             W == {Least(value, IntMax), -IntMax - 1}
  <1>1. digits \in Seq(STRING)
    <2>1. From(s, 2) \in Seq(STRING)
      BY FromIs DEF Text
    <2> QED BY <2>1 DEF Text
  <1> HIDE DEF digits
  <1>2. n \in 0..Len(digits) /\ \A i \in 1..n : digits[i] \in Range(Numerals)
    BY <1>1, DigitsIs
  <1> HIDE DEF n
  <1>3. w \in Nat
    <2> DEFINE d == Upto(digits, n)
    <2>1. n \in Int /\ 1 \in Int /\ 1 <= 1 /\ 1 <= n + 1 /\ n <= Len(digits) /\ n - 1 + 1 = n
          /\ \A i \in 1..n : 1 + i - 1 = i
      BY <1>1, <1>2
    <2>2. d \in Seq(STRING) /\ Len(d) = n /\ \A i \in 1..n : d[i] = digits[1 + i - 1]
      BY <1>1, <2>1, Parted DEF Upto
    <2>3. \A i \in 1..Len(d) : d[i] \in Range(Numerals)
      BY <1>2, <2>1, <2>2
    <2> HIDE DEF d
    <2>4. Natural(d) \in Nat
      BY <2>2, <2>3, NaturalIs
    <2> QED BY <2>4 DEF d
  <1> HIDE DEF w, minus
  <1>4. value \in Int /\ IntMax \in Nat
    <2>1. CASE minus
      <3>1. value = w * (-1)
        BY <2>1
      <3> QED BY <1>3, <3>1, FormatAssumption
    <2>2. CASE ~minus
      <3>1. value = w * 1
        BY <2>2
      <3> QED BY <1>3, <3>1, FormatAssumption
    <2> QED BY <2>1, <2>2
  <1> HIDE DEF value
  <1>5. Max(W) \in (-IntMax - 1)..IntMax
    <2> DEFINE x == Least(value, IntMax)
               y == -IntMax - 1
    <2>1. x \in Int /\ y \in Int /\ x <= IntMax /\ y <= IntMax
      BY <1>4 DEF Least
    <2> HIDE DEF x, y
    <2>2. \E i \in {x, y} : \A j \in {x, y} : i >= j
      BY <2>1
    <2>3. Max({x, y}) \in {x, y} /\ \A j \in {x, y} : Max({x, y}) >= j
      BY <2>2 DEF Max
    <2>4. Max({x, y}) \in y..IntMax
      BY <1>4, <2>1, <2>3
    <2> QED BY <2>4 DEF x, y
  <1>6. ToInt32(s) = IF n = 0 THEN [value |-> 0, rest |-> s]
                     ELSE [value |-> Max(W), rest |-> From(digits, n + 1)]
    BY DEF ToInt32, value, w, n, digits, minus
  <1>7. 0 \in (-IntMax - 1)..IntMax
    BY <1>4
  <1> HIDE DEF W
  <1> QED BY <1>5, <1>6, <1>7

-----------------------------------------------------------------------------
(* What the scanner for the end of a conditional does at each place.        *)
PlaceholderAt(p) == format[p] = "{" /\ p # Len(format) /\ format[p + 1] # "{"

Scans(end, marker, i, depth) ==
  LET next == CloseOf(i + 1) + 1
      value == ValueAt(i + 1)
  IN /\ i >= Len(format) => end[i][depth] = Len(format) + 1
     /\ i < Len(format) /\ format[i] # "{" => end[i][depth] = end[i + 1][depth]
     /\ i < Len(format) /\ format[i] = "{" /\ format[i + 1] = "{"
          => end[i][depth] = end[i + 2][depth]
     /\ i < Len(format) /\ PlaceholderAt(i) /\ Closes(value, marker)
          => end[i][depth] = IF depth = 0 THEN next ELSE end[next][depth - 1]
     /\ i < Len(format) /\ PlaceholderAt(i) /\ ~Closes(value, marker)
          => end[i][depth] = end[next][IF Opens(value, marker) THEN depth + 1 ELSE depth]

IsScanner(end, marker) ==
  \A i \in 1..(Len(format) + 2) : \A depth \in Nat : Scans(end, marker, i, depth)

LEMMA ScannerIs ==
  ASSUME format \in Text, NEW marker
  PROVE  \E end : /\ IsScanner(end, marker)
                  /\ \A start \in 1..(Len(format) + 2) : ConditionalEnd(start, marker) = end[start][0]
  <1> DEFINE size == Len(format)
             top == size + 2
             P == Nat \ {0}
             V == [Nat -> P]
             Simple(i) == format[i] # "{" \/ format[i + 1] = "{"
             next(i) == CloseOf(i + 1) + 1
             Turn(v, i, depth) ==
               IF format[i] # "{" THEN v[depth]
               ELSE IF format[i + 1] = "{" THEN v[depth]
               ELSE IF Closes(ValueAt(i + 1), marker)
               THEN IF depth = 0 THEN next(i) ELSE v[depth - 1]
               ELSE v[IF Opens(ValueAt(i + 1), marker) THEN depth + 1 ELSE depth]
             ValueOf(f, i, depth) ==
               IF i >= Len(format) THEN Len(format) + 1
               ELSE IF format[i] # "{" THEN f[i + 1][depth]
               ELSE IF format[i + 1] = "{" THEN f[i + 2][depth]
               ELSE IF Closes(ValueAt(i + 1), marker)
               THEN IF depth = 0 THEN CloseOf(i + 1) + 1 ELSE f[CloseOf(i + 1) + 1][depth - 1]
               ELSE f[CloseOf(i + 1) + 1][IF Opens(ValueAt(i + 1), marker) THEN depth + 1 ELSE depth]
             end[i \in 1..Len(format) + 2] ==
               [depth \in Nat |->
                  IF i >= Len(format) THEN Len(format) + 1
                  ELSE IF format[i] # "{" THEN end[i + 1][depth]
                  ELSE IF format[i + 1] = "{" THEN end[i + 2][depth]
                  ELSE LET behind == CloseOf(i + 1) + 1
                       IN IF Closes(ValueAt(i + 1), marker)
                          THEN IF depth = 0 THEN behind ELSE end[behind][depth - 1]
                          ELSE end[behind][IF Opens(ValueAt(i + 1), marker) THEN depth + 1 ELSE depth]]
             stop == {i \in 1..top : i >= size}
             base == [i \in 1..top |-> [depth \in Nat |-> size + 1]]
             to(i) == IF format[i] # "{" THEN i + 1 ELSE IF format[i + 1] = "{" THEN i + 2 ELSE next(i)
             follow == [i \in 1..top |-> IF i \in stop THEN i ELSE to(i)]
             G == [i \in 1..top |-> [v \in V |-> [depth \in Nat |->
                     IF i \in stop THEN 1 ELSE Turn(v, i, depth)]]]
  <1>1. size \in Nat /\ top \in Nat /\ size + 1 \in P
    BY DEF Text
  <1>2. ASSUME NEW i \in 1..top, i \notin stop
        PROVE  next(i) \in P /\ next(i) <= top /\ i + 1 < next(i)
    <2> DEFINE j == i + 1
    <2>1. j \in Nat /\ j <= Len(format) + 1 /\ i + 1 = j
      BY <1>1, <1>2
    <2>2. format \in Seq(STRING)
      BY DEF Text
    <2> HIDE DEF j
    <2>3. CloseOf(j) \in Nat /\ CloseOf(j) <= Len(format) + 1 /\ j <= CloseOf(j)
      BY <2>1, <2>2, FindIs DEF CloseOf
    <2>4. next(i) = CloseOf(j) + 1
      BY <2>1
    <2> HIDE DEF next
    <2> QED BY <1>1, <2>1, <2>3, <2>4 DEF size
  <1>3. ASSUME NEW i \in 1..top, i \notin stop
        PROVE  to(i) \in 1..top /\ i < to(i)
    <2>1. i < size /\ i + 1 \in 1..top /\ i + 2 \in 1..top /\ i < i + 1 /\ i < i + 2
      BY <1>1, <1>3
    <2>2. next(i) \in 1..top /\ i < next(i)
      <3>1. next(i) \in P /\ next(i) <= top /\ i + 1 < next(i)
        BY <1>2, <1>3
      <3> HIDE DEF next, top, size
      <3> QED BY <1>1, <3>1
    <2> HIDE DEF next, top, size, stop
    <2> QED BY <2>1, <2>2
  <1>4. follow \in [1..top -> 1..top] /\ \A i \in 1..top : i \notin stop => i < follow[i] /\ follow[i] = to(i)
    <2> HIDE DEF to, top, stop
    <2> QED BY <1>3
  <1>5. ASSUME NEW i \in 1..top, i \notin stop, NEW v \in V, NEW depth \in Nat
        PROVE  Turn(v, i, depth) \in P
    <2>1. next(i) \in P
      BY <1>2, <1>5
    <2>2. v[depth] \in P /\ v[depth + 1] \in P /\ (depth # 0 => v[depth - 1] \in P)
      <3>1. depth + 1 \in Nat /\ (depth # 0 => depth - 1 \in Nat)
        OBVIOUS
      <3> HIDE DEF P
      <3> QED BY <3>1
    <2> HIDE DEF P, V, next, size, top, stop
    <2>3. CASE Closes(ValueAt(i + 1), marker)
      BY <2>1, <2>2, <2>3
    <2>4. CASE ~Closes(ValueAt(i + 1), marker)
      BY <2>1, <2>2, <2>4
    <2> QED BY <2>3, <2>4
  <1>6. PICK f \in [1..top -> V] :
          \A i \in 1..top : f[i] = IF i \in stop THEN base[i] ELSE G[i][f[follow[i]]]
    <2>1. stop \in SUBSET (1..top) /\ base \in [1..top -> V]
      <3> HIDE DEF P
      <3> QED BY <1>1
    <2>2. G \in [1..top -> [V -> V]]
      <3>1. \A i \in 1..top : \A v \in V : \A depth \in Nat :
              (IF i \in stop THEN 1 ELSE Turn(v, i, depth)) \in P
        <4>1. 1 \in P
          OBVIOUS
        <4> HIDE DEF P, V, Turn, stop, top
        <4> QED BY <1>5, <4>1
      <3> HIDE DEF P, Turn, stop, top
      <3>2. \A i \in 1..top : \A v \in V :
              [depth \in Nat |-> IF i \in stop THEN 1 ELSE Turn(v, i, depth)] \in V
        BY <3>1
      <3> HIDE DEF V
      <3> QED BY <3>2
    <2>3. \A i \in 1..top : i \notin stop => i < follow[i]
      BY <1>4
    <2> HIDE DEF stop, base, follow, G, top, V
    <2>4. GoesForward(stop, base, follow, G, top, V)
      BY <1>1, <1>4, <2>1, <2>2, <2>3 DEF GoesForward
    <2> QED BY <2>4, FromTheEnd
  <1>7. \A i \in 1..top : f[i] = [depth \in Nat |-> ValueOf(f, i, depth)]
    <2> SUFFICES ASSUME NEW i \in 1..top PROVE f[i] = [depth \in Nat |-> ValueOf(f, i, depth)]
      OBVIOUS
    <2>1. CASE i \in stop
      <3>1. f[i] = [depth \in Nat |-> size + 1]
        BY <1>6, <2>1
      <3>2. \A depth \in Nat : ValueOf(f, i, depth) = size + 1
        BY <2>1
      <3> HIDE DEF ValueOf, size
      <3> QED BY <3>1, <3>2
    <2>2. CASE i \notin stop
      <3>1. f[i] = G[i][f[to(i)]] /\ to(i) \in 1..top
        <4> HIDE DEF stop, G, follow, to, top, V
        <4> QED BY <1>3, <1>4, <1>6, <2>2
      <3> DEFINE v == f[to(i)]
      <3>2. v \in V
        <4> HIDE DEF V, to, top
        <4> QED BY <1>6, <3>1
      <3>3. G[i][v] = [depth \in Nat |-> Turn(v, i, depth)]
        <4> HIDE DEF V, v, Turn
        <4>1. G[i][v] = [depth \in Nat |-> IF i \in stop THEN 1 ELSE Turn(v, i, depth)]
          <5> HIDE DEF stop, top
          <5> QED BY <3>2
        <4> HIDE DEF stop
        <4> QED BY <2>2, <4>1
      <3>4. \A depth \in Nat : Turn(v, i, depth) = ValueOf(f, i, depth)
        <4> TAKE depth \in Nat
        <4>1. ~(i >= Len(format))
          BY <1>1, <2>2
        <4>2. CASE format[i] # "{"
          <5>1. v = f[i + 1]
            BY <4>2
          <5> HIDE DEF v
          <5> QED BY <4>1, <4>2, <5>1
        <4>3. CASE format[i] = "{" /\ format[i + 1] = "{"
          <5>1. v = f[i + 2]
            BY <4>3
          <5> HIDE DEF v
          <5> QED BY <4>1, <4>3, <5>1
        <4>4. CASE format[i] = "{" /\ format[i + 1] # "{"
          <5>1. v = f[CloseOf(i + 1) + 1]
            BY <4>4
          <5> HIDE DEF v
          <5> QED BY <4>1, <4>4, <5>1
        <4> QED BY <4>2, <4>3, <4>4
      <3>5. f[i] = [depth \in Nat |-> Turn(v, i, depth)]
        <4> HIDE DEF Turn, G, to, top
        <4> QED BY <3>1, <3>3
      <3> HIDE DEF Turn, ValueOf, v
      <3> QED BY <3>4, <3>5
    <2> QED BY <2>1, <2>2
  <1>8. f = [i \in 1..top |-> [depth \in Nat |-> ValueOf(f, i, depth)]]
    <2> HIDE DEF ValueOf, top, V
    <2> QED BY <1>6, <1>7
  <1>9. end = [i \in 1..top |-> [depth \in Nat |-> ValueOf(end, i, depth)]]
    BY <1>8
  <1>10. \A start \in 1..(Len(format) + 2) : ConditionalEnd(start, marker) = end[start][0]
    BY DEF ConditionalEnd
  <1> HIDE DEF end
  <1>11. \A i \in 1..top : end[i] = [depth \in Nat |-> ValueOf(end, i, depth)]
    <2> HIDE DEF ValueOf, top
    <2> QED BY <1>9
  <1>12. ASSUME NEW i \in 1..top, NEW depth \in Nat PROVE Scans(end, marker, i, depth)
    <2>1. end[i][depth] = ValueOf(end, i, depth)
      <3> HIDE DEF ValueOf, top
      <3> QED BY <1>11
    <2>2. i < Len(format) <=> ~(i >= Len(format))
      BY <1>1
    <2>3. i < Len(format) => i # Len(format)
      BY <1>1
    <2> HIDE DEF top, P, V
    <2> QED BY <2>1, <2>2, <2>3 DEF Scans, PlaceholderAt
  <1>13. IsScanner(end, marker)
    <2> HIDE DEF end, ValueOf
    <2> QED BY <1>12 DEF IsScanner
  <1> HIDE DEF ValueOf, top, P, V
  <1> QED BY <1>10, <1>13, Zenon

(* So the place the scanner finds is one of the format, or just behind it.   *)
LEMMA ConditionalEndIs ==
  ASSUME format \in Text, NEW start \in 1..(Len(format) + 2), NEW marker
  PROVE  ConditionalEnd(start, marker) \in Nat \ {0}
  <1> DEFINE size == Len(format)
             top == size + 2
             P == Nat \ {0}
             next(i) == CloseOf(i + 1) + 1
  <1>1. size \in Nat /\ top \in Nat /\ start \in 1..top /\ size + 1 \in P
    BY DEF Text
  <1>2. PICK end : /\ IsScanner(end, marker)
                   /\ \A i \in 1..(Len(format) + 2) : ConditionalEnd(i, marker) = end[i][0]
    BY ScannerIs
  <1>3. ASSUME NEW i \in 1..top, i < size
        PROVE  next(i) \in P /\ next(i) <= top /\ i + 1 < next(i)
    <2> DEFINE j == i + 1
    <2>1. j \in Nat /\ j <= Len(format) + 1 /\ i + 1 = j
      BY <1>1, <1>3
    <2>2. format \in Seq(STRING)
      BY DEF Text
    <2> HIDE DEF j
    <2>3. CloseOf(j) \in Nat /\ CloseOf(j) <= Len(format) + 1 /\ j <= CloseOf(j)
      BY <2>1, <2>2, FindIs DEF CloseOf
    <2>4. next(i) = CloseOf(j) + 1
      BY <2>1
    <2> HIDE DEF next
    <2> QED BY <1>1, <2>1, <2>3, <2>4 DEF size
  <1> DEFINE S == {i \in 1..top : \A depth \in Nat : end[i][depth] \in P}
  <1>4. ASSUME NEW i \in 1..top, \A q \in (i + 1)..top : q \in S PROVE i \in S
    <2> SUFFICES ASSUME NEW depth \in Nat PROVE end[i][depth] \in P
      OBVIOUS
    <2>1. Scans(end, marker, i, depth)
      BY <1>2 DEF IsScanner
    <2>2. CASE i >= size
      <3>1. end[i][depth] = size + 1
        BY <2>1, <2>2 DEF Scans
      <3> HIDE DEF P, size, top
      <3> QED BY <1>1, <3>1
    <2>3. CASE i < size
      <3>1. next(i) \in P /\ next(i) <= top /\ i + 1 < next(i)
        BY <1>3, <2>3
      <3>2. i + 1 \in (i + 1)..top /\ i + 2 \in (i + 1)..top
        BY <1>1, <2>3
      <3>3. next(i) \in (i + 1)..top
        <4> HIDE DEF next, top
        <4> QED BY <1>1, <3>1
      <3>4. i # size
        BY <1>1, <2>3
      <3> HIDE DEF top, P
      <3>5. /\ \A d \in Nat : end[i + 1][d] \in P /\ end[i + 2][d] \in P
            /\ \A d \in Nat : end[next(i)][d] \in P
        <4> HIDE DEF next
        <4> QED BY <1>4, <3>2, <3>3
      <3>6. depth + 1 \in Nat /\ (depth # 0 => depth - 1 \in Nat)
        OBVIOUS
      <3>7. CASE format[i] # "{" \/ format[i + 1] = "{"
        BY <2>1, <2>3, <3>5, <3>7 DEF Scans
      <3>8. CASE PlaceholderAt(i) /\ Closes(ValueAt(i + 1), marker)
        BY <2>1, <2>3, <3>1, <3>5, <3>6, <3>8 DEF Scans
      <3>9. CASE PlaceholderAt(i) /\ ~Closes(ValueAt(i + 1), marker)
        BY <2>1, <2>3, <3>5, <3>6, <3>9 DEF Scans
      <3> QED BY <3>4, <3>7, <3>8, <3>9 DEF PlaceholderAt
    <2> QED BY <1>1, <2>2, <2>3
  <1> HIDE DEF S, top
  <1>5. \A i \in 1..top : i \in S
    BY <1>1, <1>4, Downward
  <1>6. end[start][0] \in P
    <2> HIDE DEF P
    <2> QED BY <1>1, <1>5 DEF S
  <1> QED BY <1>1, <1>2, <1>6 DEF top

-----------------------------------------------------------------------------
(* What an argument is cut or padded to is what Fit makes of it.            *)
LEMMA ArgumentTextIs ==
  ASSUME FormatInv, NEW value \in Text, NEW original, NEW counter,
         NEW x, x = ArgumentText(value, original, counter).fitted, x # Nothing
  PROVE  IsFitted(x)
  <1> DEFINE n == Find(value, 1, {":", "<", ">", "|", "~"})
             asked == ArgumentIndex(Upto(value, n - 1))
             index == IF asked = 0 THEN counter + 1 ELSE asked
             used == [text |-> original, fitted |-> Nothing,
                      counter |-> IF asked = 0 THEN counter + 1 ELSE counter]
             numbers == From(value, n + 1)
             text == arguments[index].text
             skipped == SkipAnsiEscape(text)
             part == Part(numbers, skipped.body)
             length == ToInt32(numbers)
             shown == Around(skipped, Fit(value[n], length.value, skipped.body))
             record == [sep |-> value[n], number |-> length.value, of |-> text, shown |-> shown]
             cut == IF part.valid THEN Around(skipped, part.text) ELSE Around(skipped, <<>>) \o original
  <1>1. n \in Nat
    <2>1. value \in Seq(STRING)
      BY DEF Text
    <2> QED BY <2>1, FindIs
  <1>2. numbers \in Text
    <2>1. n + 1 \in Nat \ {0} /\ value \in Seq(STRING)
      BY <1>1 DEF Text
    <2> HIDE DEF n
    <2> QED BY <2>1, FromIs DEF Text
  <1>3. ArgumentText(value, original, counter) =
          IF index \notin DOMAIN arguments THEN used
          ELSE IF n > Len(value) THEN [used EXCEPT !.text = text]
          ELSE IF value[n] = "~" THEN [used EXCEPT !.text = cut]
          ELSE IF length.rest # <<>> THEN used
          ELSE [used EXCEPT !.text = shown, !.fitted = record]
    BY Zenon DEF ArgumentText
  <1> HIDE DEF n, asked, index, numbers, text, length, shown, record, cut
  <1>4. /\ used.fitted = Nothing /\ \A t : [used EXCEPT !.text = t].fitted = Nothing
        /\ \A t, y : [used EXCEPT !.text = t, !.fitted = y].fitted = y
    OBVIOUS
  <1> HIDE DEF used
  <1>5. index \in DOMAIN arguments /\ x = record
    BY <1>3, <1>4
  <1>6. text \in Text /\ Len(text) <= IntMax
    BY <1>5 DEF FormatInv, text
  <1>7. length.value \in (-IntMax - 1)..IntMax
    BY <1>2, ToInt32Is DEF length
  <1>8. x.sep = value[n] /\ x.number = length.value /\ x.of = text /\ x.shown = shown
    BY <1>5 DEF record
  <1>9. x.shown = Around(SkipAnsiEscape(x.of), Fit(x.sep, x.number, SkipAnsiEscape(x.of).body))
    BY <1>8, Zenon DEF shown
  <1> QED BY <1>6, <1>7, <1>8, <1>9, Zenon DEF IsFitted

LEMMA FilledIs ==
  ASSUME FormatInv, NEW value \in Text, NEW original, NEW counter,
         NEW x, x = Filled(value, original, counter).fitted, x # Nothing
  PROVE  IsFitted(x)
  <1> DEFINE c == FirstChar(value)
  <1>1. CASE c = "#"
    <2>1. Filled(value, original, counter) = [text |-> <<>>, counter |-> counter, fitted |-> Nothing]
      BY <1>1 DEF Filled
    <2> QED BY <2>1
  <1>2. CASE c = "$"
    <2>1. Filled(value, original, counter) =
            [text |-> ConstantText(value, original), counter |-> counter, fitted |-> Nothing]
      BY <1>2 DEF Filled
    <2> QED BY <2>1
  <1>3. CASE c # "#" /\ c # "$"
    <2>1. Filled(value, original, counter) = ArgumentText(value, original, counter)
      BY <1>3 DEF Filled
    <2> QED BY <2>1, ArgumentTextIs
  <1> QED BY <1>1, <1>2, <1>3

(* Where a placeholder ends, and what is in it.                             *)
LEMMA PlaceholderIs ==
  ASSUME FormatInv, AtPlaceholder
  PROVE  Value \in Text /\ Behind \in 1..(Len(format) + 2)
  <1> DEFINE n == at + 1
  <1>1. format \in Seq(STRING) /\ at \in Nat \ {0} /\ at < Len(format) /\ Len(format) \in Nat
    <2>1. at < Len(format)
      BY Zenon DEF AtPlaceholder
    <2>2. format \in Seq(STRING) /\ at \in Nat \ {0}
      BY DEF FormatInv, Text
    <2> QED BY <2>1, <2>2
  <1>2. n \in Nat /\ n <= Len(format) + 1 /\ n >= 1
    BY <1>1
  <1> HIDE DEF n
  <1>3. CloseOf(n) \in Nat /\ CloseOf(n) <= Len(format) + 1 /\ n <= CloseOf(n)
    BY <1>1, <1>2, FindIs DEF CloseOf
  <1> DEFINE e == CloseOf(n) - 1
  <1>4. e \in Int /\ n \in Int /\ 1 <= n /\ n <= e + 1 /\ e <= Len(format)
    BY <1>1, <1>2, <1>3
  <1>5. Behind \in 1..(Len(format) + 2)
    BY <1>1, <1>3 DEF Behind, n
  <1>6. Value = SubSeq(format, n, e)
    BY DEF Value, ValueAt, n
  <1> HIDE DEF e
  <1>7. SubSeq(format, n, e) \in Seq(STRING)
    BY <1>1, <1>4, Parted
  <1> QED BY <1>5, <1>6, <1>7 DEF Text

LEMMA FormatStep == FormatInv /\ [NextFormat]_formatVars => FormatInv'
  <1> SUFFICES ASSUME FormatInv, [NextFormat]_formatVars PROVE FormatInv'
    OBVIOUS
  <1>0. /\ format \in Text /\ at \in Nat \ {0} /\ Len(format) \in Nat
        /\ fitted # Nothing => IsFitted(fitted)
    BY DEF FormatInv, Text
  <1>1. ASSUME UNCHANGED input, at' \in Nat \ {0}, fitted' # Nothing => IsFitted(fitted')
        PROVE  FormatInv'
    <2>1. format' = format /\ arguments' = arguments
      BY <1>1 DEF input
    <2>2. IsFitted(fitted)' <=> IsFitted(fitted')
      BY DEF IsFitted
    <2> QED BY <1>1, <2>1, <2>2 DEF FormatInv
  <1>2. CASE Copy
    <2>1. at + 1 \in Nat \ {0} /\ at + 2 \in Nat \ {0}
      BY <1>0
    <2>2. UNCHANGED input /\ fitted' = fitted /\ (at' = at + 1 \/ at' = at + 2)
      BY <1>2 DEF Copy
    <2> QED BY <1>0, <1>1, <2>1, <2>2
  <1>3. CASE Stop
    BY <1>0, <1>1, <1>3 DEF Stop
  <1>4. CASE Fill
    <2>1. AtPlaceholder /\ UNCHANGED input /\ at' = Behind
      BY <1>4 DEF Fill
    <2>2. Value \in Text /\ Behind \in 1..(Len(format) + 2)
      BY <2>1, PlaceholderIs
    <2>3. fitted' = Filled(Value, Original, argCounter).fitted
      BY <1>4 DEF Fill
    <2>4. fitted' # Nothing => IsFitted(fitted')
      BY <2>2, <2>3, FilledIs
    <2>5. at' \in Nat \ {0}
      BY <1>0, <2>1, <2>2
    <2> QED BY <1>1, <2>1, <2>4, <2>5
  <1>5. ASSUME NEW marker \in Markers, End(marker) PROVE FormatInv'
    <2>1. AtPlaceholder /\ UNCHANGED input /\ at' = Behind /\ fitted' = fitted
      BY <1>5 DEF End
    <2>2. Behind \in 1..(Len(format) + 2)
      BY <2>1, PlaceholderIs
    <2>3. at' \in Nat \ {0}
      BY <1>0, <2>1, <2>2
    <2> QED BY <1>0, <1>1, <2>1, <2>3
  <1>6. ASSUME NEW marker \in Markers, Conditional(marker) PROVE FormatInv'
    <2>1. AtPlaceholder /\ UNCHANGED input /\ fitted' = fitted
      BY <1>6 DEF Conditional
    <2>2. Behind \in 1..(Len(format) + 2)
      BY <2>1, PlaceholderIs
    <2>3. ConditionalEnd(Behind, marker) \in Nat \ {0}
      BY <1>0, <2>2, ConditionalEndIs
    <2>4. at' = Behind \/ at' = ConditionalEnd(Behind, marker)
      <3>1. CASE ~Opens(Value, marker)
        BY <1>6, <3>1 DEF Conditional
      <3>2. CASE Opens(Value, marker) /\ Holds(Value)
        BY <1>6, <3>2 DEF Conditional
      <3>3. CASE Opens(Value, marker) /\ ~Holds(Value)
        BY <1>6, <3>3 DEF Conditional
      <3> QED BY <3>1, <3>2, <3>3
    <2>5. at' \in Nat \ {0}
      BY <1>0, <2>2, <2>3, <2>4
    <2> QED BY <1>0, <1>1, <2>1, <2>5
  <1>7. CASE UNCHANGED formatVars
    <2>1. UNCHANGED input /\ at' = at /\ fitted' = fitted
      BY <1>7 DEF formatVars, input
    <2> QED BY <1>0, <1>1, <2>1
  <1> QED BY <1>2, <1>3, <1>4, <1>5, <1>6, <1>7 DEF NextFormat

LEMMA FormatIsInv == FormatSpec => []FormatInv
  BY FormatInit, FormatStep, PTL DEF FormatSpec

(* A value that is cut or padded has as many bytes as are asked for, two    *)
(* more with the ellipsis, whatever escapes are around it, and has them all *)
(* (format.c:310, :653); and if its characters have one byte each it is as  *)
(* wide as is asked for. Of longer characters the theorem says nothing but  *)
(* how many bytes there are.                                                *)
THEOREM WidthIsRight == FormatSpec => []WidthRight
  <1>1. FormatInv => WidthRight
    <2> SUFFICES ASSUME FormatInv, fitted # Nothing, Enclosed(fitted.of)
                 PROVE  IsRight(fitted.shown, fitted.sep, fitted.number, fitted.of)
      BY Zenon DEF WidthRight, IsRight, Asked
    <2>1. IsFitted(fitted)
      BY DEF FormatInv
    <2> DEFINE s == fitted.of
               number == fitted.number
               sep == fitted.sep
               shown == fitted.shown
    <2>2. /\ number \in (-IntMax - 1)..IntMax /\ s \in Text /\ Len(s) <= IntMax
          /\ shown = Around(SkipAnsiEscape(s), Fit(sep, number, SkipAnsiEscape(s).body))
          /\ Enclosed(s)
      BY <2>1 DEF IsFitted
    <2> HIDE DEF s, number, sep, shown
    <2>3. IsRight(shown, sep, number, s)
      BY <2>2, FittedRight
    <2> QED BY <2>3 DEF s, number, sep, shown
  <1> QED BY <1>1, FormatIsInv, PTL

-----------------------------------------------------------------------------
(* A simulation of the printer by the reader of blocks that BlocksRight    *)
(* compares it with (Follows): while no conditional is crossed, the reader  *)
(* stands where the printer does, with the same text, in conditionals that  *)
(* all hold and that the printer counts; the scanner that skips a block is  *)
(* followed piece by piece (Skips).                                         *)
(* A reader that is at p, within the conditionals `around`.                 *)
Reader(p, text, around, counter, stop, crossed) ==
  [at |-> p, text |-> text, around |-> around, counter |-> counter,
   stopped |-> stop, crossed |-> crossed]
Entries == [marker : Markers, holds : BOOLEAN]
Shown(around, stop) == ~stop /\ \A i \in DOMAIN around : around[i].holds
Shows(around, stop, more, text) == IF Shown(around, stop) THEN more ELSE text
Reaches(s, t) == Reads(s) = t

(* The recursion of the reader has a solution.                              *)
LEMMA AfterIs ==
  ASSUME Len(format) \in Nat
  PROVE  /\ After[0] = Reader(1, <<>>, <<>>, 0, FALSE, FALSE)
         /\ \A k \in 1..Len(format) : After[k] = Reads(After[k - 1])
  <1> DEFINE size == Len(format)
             first == Reader(1, <<>>, <<>>, 0, FALSE, FALSE)
             Right(f, j) == f[0] = first /\ \A k \in 1..j : f[k] = Reads(f[k - 1])
             T == {j \in Nat : \E f : Right(f, j)}
  <1>1. 0 \in T
    <2> DEFINE f == [k \in 0..0 |-> first]
    <2>1. Right(f, 0)
      <3>1. f[0] = first
        <4> HIDE DEF first
        <4> QED OBVIOUS
      <3>2. 1..0 = {}
        OBVIOUS
      <3> QED BY <3>1, <3>2
    <2> HIDE DEF f, Right
    <2> QED BY <2>1
  <1>2. ASSUME NEW j \in Nat, j \in T PROVE j + 1 \in T
    <2>1. PICK f : Right(f, j)
      BY <1>2
    <2> DEFINE g == [k \in 0..j + 1 |-> IF k <= j THEN f[k] ELSE Reads(f[j])]
    <2> HIDE DEF first
    <2>2. \A k \in 0..j : g[k] = f[k]
      OBVIOUS
    <2>3. g[j + 1] = Reads(f[j])
      OBVIOUS
    <2> HIDE DEF g
    <2>4. g[0] = first
      BY <2>1, <2>2
    <2>5. ASSUME NEW k \in 1..(j + 1) PROVE g[k] = Reads(g[k - 1])
      <3>1. CASE k <= j
        <4>1. k \in 1..j /\ k \in 0..j /\ k - 1 \in 0..j
          BY <3>1
        <4> QED BY <2>1, <2>2, <4>1
      <3>2. CASE k = j + 1
        <4>1. j \in 0..j /\ k - 1 = j
          BY <3>2
        <4> QED BY <2>2, <2>3, <3>2, <4>1
      <3> QED BY <3>1, <3>2
    <2>6. Right(g, j + 1)
      BY <2>4, <2>5
    <2> HIDE DEF Right
    <2> QED BY <2>6
  <1>3. size \in T
    <2> HIDE DEF T
    <2> QED BY <1>1, <1>2, Upward
  <1>4. PICK f : Right(f, size)
    BY <1>3
  <1> DEFINE g == [n \in 0..size |-> f[n]]
             Turn(h, n) == IF n = 0 THEN first ELSE Reads(h[n - 1])
  <1>5. \A n \in 0..size : g[n] = Turn(g, n)
    <2> SUFFICES ASSUME NEW n \in 0..size PROVE g[n] = Turn(g, n)
      OBVIOUS
    <2> HIDE DEF first
    <2>1. CASE n = 0
      BY <1>4, <2>1
    <2>2. CASE n # 0
      <3>1. n \in 1..size /\ n - 1 \in 0..size
        BY <2>2
      <3>2. g[n] = f[n] /\ g[n - 1] = f[n - 1] /\ f[n] = Reads(f[n - 1])
        BY <1>4, <3>1
      <3> QED BY <2>2, <3>2
    <2> QED BY <2>1, <2>2
  <1>6. g = [n \in 0..size |-> Turn(g, n)]
    <2> HIDE DEF Turn
    <2> QED BY <1>5
  <1>7. After = [n \in 0..size |-> Turn(After, n)]
    <2> HIDE DEF g
    <2>1. \E h : h = [n \in 0..size |-> Turn(h, n)]
      BY <1>6
    <2> QED BY <2>1 DEF After, Reader
  <1>8. \A n \in 0..size : After[n] = Turn(After, n)
    <2> HIDE DEF Turn
    <2> QED BY <1>7
  <1>9. After[0] = first
    <2>1. 0 \in 0..size
      OBVIOUS
    <2> HIDE DEF first
    <2> QED BY <1>8, <2>1
  <1>10. \A k \in 1..size : After[k] = Reads(After[k - 1])
    <2> HIDE DEF first
    <2>1. \A k \in 1..size : k \in 0..size /\ k # 0
      OBVIOUS
    <2> QED BY <1>8, <2>1
  <1> QED BY <1>9, <1>10

(* What each piece does to a reader.                                        *)
MovedTo(s, y) == [s EXCEPT !.at = y]
Writing(s, y) == [s EXCEPT !.text = y]
InBlocks(s, y) == [s EXCEPT !.around = y]
Counting(s, y) == [s EXCEPT !.counter = y]
Stopping(s, y) == [s EXCEPT !.stopped = y]

LEMMA Fields ==
  ASSUME NEW p, NEW x, NEW around, NEW c, NEW st, NEW crossed
  PROVE  /\ Reader(p, x, around, c, st, crossed).at = p
         /\ Reader(p, x, around, c, st, crossed).text = x
         /\ Reader(p, x, around, c, st, crossed).around = around
         /\ Reader(p, x, around, c, st, crossed).counter = c
         /\ Reader(p, x, around, c, st, crossed).stopped = st
         /\ Reader(p, x, around, c, st, crossed).crossed = crossed
  BY DEF Reader

LEMMA MovedToIs ==
  ASSUME NEW p, NEW x, NEW around, NEW c, NEW st, NEW crossed, NEW y
  PROVE  MovedTo(Reader(p, x, around, c, st, crossed), y) = Reader(y, x, around, c, st, crossed)
  BY DEF Reader, MovedTo

Moves(s, y, t) == MovedTo(s, y) = t
Stops(s, t) == Stopping(s, TRUE) = t

LEMMA MovesIs ==
  ASSUME NEW p, NEW x, NEW around, NEW c, NEW st, NEW crossed, NEW y
  PROVE  Moves(Reader(p, x, around, c, st, crossed), y, Reader(y, x, around, c, st, crossed))
  BY MovedToIs DEF Moves

LEMMA WritingIs ==
  ASSUME NEW p, NEW x, NEW around, NEW c, NEW st, NEW crossed, NEW y
  PROVE  Writing(Reader(p, x, around, c, st, crossed), y) = Reader(p, y, around, c, st, crossed)
  BY DEF Reader, Writing

LEMMA InBlocksIs ==
  ASSUME NEW p, NEW x, NEW around, NEW c, NEW st, NEW crossed, NEW y
  PROVE  InBlocks(Reader(p, x, around, c, st, crossed), y) = Reader(p, x, y, c, st, crossed)
  BY DEF Reader, InBlocks

LEMMA CountingIs ==
  ASSUME NEW p, NEW x, NEW around, NEW c, NEW st, NEW crossed, NEW y
  PROVE  Counting(Reader(p, x, around, c, st, crossed), y) = Reader(p, x, around, y, st, crossed)
  BY DEF Reader, Counting

LEMMA StoppingIs ==
  ASSUME NEW p, NEW x, NEW around, NEW c, NEW st, NEW crossed, NEW y
  PROVE  Stopping(Reader(p, x, around, c, st, crossed), y) = Reader(p, x, around, c, y, crossed)
  BY DEF Reader, Stopping

LEMMA StopsIs ==
  ASSUME NEW p, NEW x, NEW around, NEW c, NEW st, NEW crossed
  PROVE  Stops(Reader(p, x, around, c, st, crossed), Reader(p, x, around, c, TRUE, crossed))
  <1> DEFINE y == TRUE
  <1> HIDE DEF y
  <1>1. Stopping(Reader(p, x, around, c, st, crossed), y) = Reader(p, x, around, c, y, crossed)
    BY StoppingIs
  <1> QED BY <1>1 DEF Stops, y

Crosses(s, t) == [s EXCEPT !.crossed = TRUE] = t

LEMMA CrossesIs ==
  ASSUME NEW p, NEW x, NEW around, NEW c, NEW st, NEW crossed
  PROVE  Crosses(Reader(p, x, around, c, st, crossed), Reader(p, x, around, c, st, TRUE))
  <1> DEFINE y == TRUE
  <1> HIDE DEF y
  <1>1. [Reader(p, x, around, c, st, crossed) EXCEPT !.crossed = y]
          = Reader(p, x, around, c, st, y)
    BY DEF Reader
  <1> QED BY <1>1 DEF Crosses, y

Gives(s, text, t) == Printed(s, text) = t

LEMMA PrintedIs ==
  ASSUME NEW p, NEW x, NEW around, NEW c, NEW st, NEW crossed, NEW text
  PROVE  Gives(Reader(p, x, around, c, st, crossed), text,
                Reader(p, Shows(around, st, text, x), around, c, st, crossed))
  <1> DEFINE s == Reader(p, x, around, c, st, crossed)
  <1>1. Visible(s) <=> Shown(around, st)
    BY DEF Visible, Shown, Reader
  <1>2. [s EXCEPT !.text = text] = Reader(p, text, around, c, st, crossed)
    BY DEF Reader
  <1> HIDE DEF s
  <1>3. CASE Shown(around, st)
    <2>1. Shows(around, st, text, x) = text
      BY <1>3 DEF Shows
    <2>2. Printed(s, text) = [s EXCEPT !.text = text]
      BY <1>1, <1>3, Zenon DEF Printed
    <2> QED BY <1>2, <2>1, <2>2, Zenon DEF s, Gives
  <1>4. CASE ~Shown(around, st)
    <2>1. Shows(around, st, text, x) = x
      BY <1>4 DEF Shows
    <2>2. Printed(s, text) = s
      BY <1>1, <1>4, Zenon DEF Printed
    <2> QED BY <2>1, <2>2, Zenon DEF s, Gives
  <1> QED BY <1>3, <1>4

LEMMA NotBehind ==
  ASSUME NEW n \in Nat, NEW p \in 1..n
  PROVE  ~(p > n)
  OBVIOUS

LEMMA ReadsChar ==
  ASSUME Len(format) \in Nat, NEW p \in 1..Len(format),
         NEW x, NEW around, NEW c, NEW st, NEW crossed,
         format[p] # "{" \/ p = Len(format)
  PROVE  Reaches(Reader(p, x, around, c, st, crossed),
                 Reader(p + 1, Shows(around, st, Append(x, format[p]), x), around, c, st, crossed))
  <1> DEFINE s == Reader(p, x, around, c, st, crossed)
             q == p + 1
             t == Reader(q, x, around, c, st, crossed)
  <1>1. s.at = p /\ s.text = x
    BY DEF Reader
  <1>2. ~(p > Len(format))
    BY NotBehind
  <1>3. [s EXCEPT !.at = p + 1] = t
    <2> HIDE DEF q
    <2>1. Moves(s, q, t)
      BY MovesIs, Zenon
    <2> QED BY <2>1, Zenon DEF q, MovedTo, Moves
  <1> HIDE DEF s, t
  <1>4. Reads(s) = Printed(t, Append(x, format[p]))
    BY <1>1, <1>2, <1>3, Zenon DEF Reads
  <1> HIDE DEF q
  <1>5. Gives(t, Append(x, format[p]), Reader(q, Shows(around, st, Append(x, format[p]), x), around, c, st, crossed))
    BY PrintedIs, Zenon DEF t
  <1> QED BY <1>4, <1>5, Zenon DEF s, q, Reaches, Gives

LEMMA ReadsBrace ==
  ASSUME Len(format) \in Nat, NEW p \in 1..Len(format),
         NEW x, NEW around, NEW c, NEW st, NEW crossed,
         format[p] = "{", p # Len(format), format[p + 1] = "{"
  PROVE  Reaches(Reader(p, x, around, c, st, crossed),
                 Reader(p + 2, Shows(around, st, Append(x, "{"), x), around, c, st, crossed))
  <1> DEFINE s == Reader(p, x, around, c, st, crossed)
             q == p + 2
             t == Reader(q, x, around, c, st, crossed)
  <1>1. s.at = p /\ s.text = x
    BY DEF Reader
  <1>2. ~(p > Len(format))
    BY NotBehind
  <1>3. [s EXCEPT !.at = p + 2] = t
    <2> HIDE DEF q
    <2>1. Moves(s, q, t)
      BY MovesIs, Zenon
    <2> QED BY <2>1, Zenon DEF q, MovedTo, Moves
  <1> HIDE DEF s, t
  <1>4. Reads(s) = Printed(t, Append(x, "{"))
    BY <1>1, <1>2, <1>3, Zenon DEF Reads
  <1> HIDE DEF q
  <1>5. Gives(t, Append(x, "{"), Reader(q, Shows(around, st, Append(x, "{"), x), around, c, st, crossed))
    BY PrintedIs, Zenon DEF t
  <1> QED BY <1>4, <1>5, Zenon DEF s, q, Reaches, Gives

LEMMA ReadsHolder ==
  ASSUME Len(format) \in Nat, NEW p \in 1..Len(format),
         NEW x, NEW around, NEW c, NEW st, NEW crossed, PlaceholderAt(p)
  PROVE  Reads(Reader(p, x, around, c, st, crossed))
           = ReadsPlaceholder(Reader(CloseOf(p + 1) + 1, x, around, c, st, crossed),
                              ValueAt(p + 1), OriginalAt(p + 1))
  <1> DEFINE s == Reader(p, x, around, c, st, crossed)
  <1>1. /\ s.at = p /\ s.text = x
        /\ [s EXCEPT !.at = CloseOf(@ + 1) + 1]
             = Reader(CloseOf(p + 1) + 1, x, around, c, st, crossed)
    BY DEF Reader
  <1> HIDE DEF s
  <1>2. ~(p > Len(format))
    OBVIOUS
  <1>3. Reads(s) = ReadsPlaceholder(Reader(CloseOf(p + 1) + 1, x, around, c, st, crossed),
                                    ValueAt(p + 1), OriginalAt(p + 1))
    BY <1>1, <1>2 DEF Reads, PlaceholderAt
  <1> QED BY <1>3 DEF s

LEMMA Closing ==
  ASSUME NEW value, NEW marker, Closes(value, marker)
  PROVE  /\ FirstChar(value) = marker /\ Len(value) = 1 /\ value # <<>>
         /\ \A y : Closes(value, y) => y = marker
         /\ \A y : ~Opens(value, y)
  BY DEF Closes, FirstChar, Opens

LEMMA Opening ==
  ASSUME NEW value \in Text, NEW marker, Len(value) > 1, value[1] = marker
  PROVE  /\ FirstChar(value) = marker
         /\ \A y : ~Closes(value, y)
         /\ \A y : Opens(value, y) => y = marker
  <1>1. value # <<>>
    OBVIOUS
  <1>2. \A y : ~Closes(value, y)
    <2> SUFFICES ASSUME NEW y, value = <<y>> PROVE FALSE
      BY Zenon DEF Closes
    <2>1. Len(<<y>>) = 1
      OBVIOUS
    <2> QED BY <2>1
  <1> QED BY <1>1, <1>2, Zenon DEF FirstChar, Opens

(* The end of a conditional: there is none, it is the last, or it crosses.  *)
EndOf(t, p, x, around, c, st, crossed, marker, original) ==
  /\ (\A i \in DOMAIN around : around[i].marker # marker)
       => t = Reader(p, Shows(around, st, x \o original, x), around, c, st, crossed)
  /\ ~(\A i \in DOMAIN around : around[i].marker # marker)
       => IF Last(around).marker = marker
          THEN t = Reader(p, x, Front(around), c, st, crossed)
          ELSE t = Reader(p, x, around, c, st, TRUE)

LEMMA ReadsEnd ==
  ASSUME NEW p, NEW x, NEW around, NEW c, NEW st, NEW crossed,
         NEW marker \in Markers, NEW value, NEW original, Closes(value, marker)
  PROVE  EndOf(ReadsPlaceholder(Reader(p, x, around, c, st, crossed), value, original),
               p, x, around, c, st, crossed, marker, original)
  <1> DEFINE s == Reader(p, x, around, c, st, crossed)
             t == ReadsPlaceholder(s, value, original)
  <1>1. FirstChar(value) = marker /\ \E y \in Markers : Closes(value, y)
    BY Closing
  <1>2. /\ s.around = around /\ s.text = x
        /\ [s EXCEPT !.around = Front(@)] = Reader(p, x, Front(around), c, st, crossed)
    BY DEF Reader
  <1>8. Crosses(s, Reader(p, x, around, c, st, TRUE))
    BY CrossesIs, Zenon
  <1>3. Gives(s, x \o original, Reader(p, Shows(around, st, x \o original, x), around, c, st, crossed))
    BY PrintedIs, Zenon
  <1> HIDE DEF s
  <1>4. t = IF \A i \in DOMAIN around : around[i].marker # marker
            THEN Printed(s, x \o original)
            ELSE IF Last(around).marker = marker THEN [s EXCEPT !.around = Front(@)]
            ELSE [s EXCEPT !.crossed = TRUE]
    BY <1>1, <1>2 DEF ReadsPlaceholder
  <1> HIDE DEF t
  <1>5. CASE \A i \in DOMAIN around : around[i].marker # marker
    BY <1>3, <1>4, <1>5, Zenon DEF s, t, EndOf, Gives
  <1>6. CASE ~(\A i \in DOMAIN around : around[i].marker # marker) /\ Last(around).marker = marker
    BY <1>2, <1>4, <1>6, Zenon DEF s, t, EndOf
  <1>7. CASE ~(\A i \in DOMAIN around : around[i].marker # marker) /\ Last(around).marker # marker
    BY <1>4, <1>7, <1>8, Zenon DEF s, t, EndOf, Crosses
  <1> QED BY <1>5, <1>6, <1>7

BeginOf(t, p, x, around, c, st, crossed, marker, value) ==
  t = Reader(p, x, Append(around, [marker |-> marker, holds |-> Holds(value)]), c, st, crossed)

LEMMA ReadsBegin ==
  ASSUME NEW p, NEW x, NEW around, NEW c, NEW st, NEW crossed,
         NEW marker \in Markers, NEW value \in Text, NEW original, Opens(value, marker)
  PROVE  BeginOf(ReadsPlaceholder(Reader(p, x, around, c, st, crossed), value, original),
                 p, x, around, c, st, crossed, marker, value)
  <1> DEFINE s == Reader(p, x, around, c, st, crossed)
  <1>1. FirstChar(value) = marker /\ \A y : ~Closes(value, y)
    BY Opening DEF Opens
  <1>2. [s EXCEPT !.around = Append(@, [marker |-> marker, holds |-> Holds(value)])]
          = Reader(p, x, Append(around, [marker |-> marker, holds |-> Holds(value)]), c, st, crossed)
    <2> DEFINE more == [marker |-> marker, holds |-> Holds(value)]
    <2> HIDE DEF more
    <2>1. [s EXCEPT !.around = Append(@, more)] = [s EXCEPT !.around = Append(around, more)]
      BY DEF Reader
    <2> DEFINE y == Append(around, more)
    <2> HIDE DEF y
    <2>2. [s EXCEPT !.around = y] = Reader(p, x, y, c, st, crossed)
      BY DEF Reader
    <2> QED BY <2>1, <2>2, Zenon DEF more, y
  <1> HIDE DEF s
  <1>3. \E y \in Markers : Opens(value, y)
    OBVIOUS
  <1>4. ReadsPlaceholder(s, value, original)
          = [s EXCEPT !.around = Append(@, [marker |-> FirstChar(value), holds |-> Holds(value)])]
    BY <1>1, <1>3, Zenon DEF ReadsPlaceholder
  <1> QED BY <1>1, <1>2, <1>4, Zenon DEF s, BeginOf

(* What is neither the end nor the begin of a conditional.                  *)
Plain(value) == \A y \in Markers : ~Closes(value, y) /\ ~Opens(value, y)

LEMMA ReadsHidden ==
  ASSUME NEW p, NEW x, NEW around, NEW c, NEW st, NEW crossed,
         NEW value, NEW original, Plain(value), ~Shown(around, st)
  PROVE  ReadsPlaceholder(Reader(p, x, around, c, st, crossed), value, original)
           = Reader(p, x, around, c, st, crossed)
  <1> DEFINE s == Reader(p, x, around, c, st, crossed)
  <1>1. Visible(s) <=> Shown(around, st)
    BY DEF Visible, Shown, Reader
  <1> HIDE DEF s
  <1>2. ReadsPlaceholder(s, value, original) = s
    BY <1>1, Zenon DEF ReadsPlaceholder, Plain
  <1> QED BY <1>2 DEF s

ShownOf(t, p, x, around, c, st, crossed, value, original) ==
  LET filled == Filled(value, original, c)
  IN /\ value = <<"-">> => t = Reader(p, x, around, c, TRUE, crossed)
     /\ value # <<"-">> /\ FirstChar(value) \in Markers
          => t = Reader(p, x \o original, around, c, st, crossed)
     /\ value # <<"-">> /\ FirstChar(value) \notin Markers
          => t = Reader(p, x \o filled.text, around, filled.counter, st, crossed)

LEMMA ReadsShown ==
  ASSUME NEW p, NEW x, NEW around, NEW c, NEW st, NEW crossed,
         NEW value, NEW original, Plain(value), Shown(around, st)
  PROVE  ShownOf(ReadsPlaceholder(Reader(p, x, around, c, st, crossed), value, original),
                 p, x, around, c, st, crossed, value, original)
  <1> DEFINE s == Reader(p, x, around, c, st, crossed)
             t == ReadsPlaceholder(s, value, original)
             filled == Filled(value, original, c)
  <1>1. Visible(s) <=> Shown(around, st)
    BY DEF Visible, Shown, Reader
  <1>2. /\ s.text = x /\ s.counter = c
        /\ [s EXCEPT !.stopped = TRUE] = Reader(p, x, around, c, TRUE, crossed)
        /\ [s EXCEPT !.text = @ \o filled.text, !.counter = filled.counter]
             = Reader(p, x \o filled.text, around, filled.counter, st, crossed)
    <2>1. s.text = x /\ s.counter = c
      BY Fields
    <2>2. Stops(s, Reader(p, x, around, c, TRUE, crossed))
      BY StopsIs, Zenon
    <2>3. Writing(s, x \o filled.text) = Reader(p, x \o filled.text, around, c, st, crossed)
      BY WritingIs
    <2>4. Counting(Reader(p, x \o filled.text, around, c, st, crossed), filled.counter)
            = Reader(p, x \o filled.text, around, filled.counter, st, crossed)
      BY CountingIs
    <2> HIDE DEF s, filled
    <2>5. [s EXCEPT !.stopped = TRUE] = Reader(p, x, around, c, TRUE, crossed)
      BY <2>2, Zenon DEF Stopping, Stops
    <2>6. [s EXCEPT !.text = @ \o filled.text, !.counter = filled.counter]
            = Reader(p, x \o filled.text, around, filled.counter, st, crossed)
      BY <2>1, <2>3, <2>4, Zenon DEF Writing, Counting
    <2> QED BY <2>1, <2>5, <2>6, Zenon
  <1>3. Printed(s, x \o original) = Reader(p, x \o original, around, c, st, crossed)
    <2>1. Gives(s, x \o original, Reader(p, Shows(around, st, x \o original, x), around, c, st, crossed))
      BY PrintedIs, Zenon
    <2>2. Shows(around, st, x \o original, x) = x \o original
      BY DEF Shows
    <2> HIDE DEF s
    <2> QED BY <2>1, <2>2, Zenon DEF Gives
  <1> HIDE DEF s
  <1>4. t = IF value = <<"-">> THEN [s EXCEPT !.stopped = TRUE]
            ELSE IF FirstChar(value) \in Markers THEN Printed(s, s.text \o original)
            ELSE [s EXCEPT !.text = @ \o Filled(value, original, s.counter).text,
                           !.counter = Filled(value, original, s.counter).counter]
    BY <1>1, Zenon DEF ReadsPlaceholder, Plain
  <1> HIDE DEF t, filled
  <1>5. CASE value = <<"-">>
    BY <1>2, <1>4, <1>5, Zenon DEF s, t, filled, ShownOf
  <1>6. CASE value # <<"-">> /\ FirstChar(value) \in Markers
    BY <1>2, <1>3, <1>4, <1>6, Zenon DEF s, t, filled, ShownOf
  <1>7. CASE value # <<"-">> /\ FirstChar(value) \notin Markers
    BY <1>2, <1>4, <1>7, Zenon DEF s, t, filled, ShownOf
  <1> QED BY <1>5, <1>6, <1>7

-----------------------------------------------------------------------------
(* How many of the conditionals around are of a kind, from one on.          *)
Count(around, from, marker) ==
  Cardinality({i \in from..Len(around) : around[i].marker = marker})

LEMMA CountIs ==
  ASSUME NEW around \in Seq(Entries), NEW from \in Nat, NEW marker
  PROVE  /\ Count(around, from, marker) \in Nat
         /\ Count(around, from, marker) = 0
              <=> \A i \in from..Len(around) : around[i].marker # marker
  <1> DEFINE S == {i \in from..Len(around) : around[i].marker = marker}
  <1>1. IsFiniteSet(S)
    <2>1. IsFiniteSet(from..Len(around))
      <3>1. from \in Int /\ Len(around) \in Int
        OBVIOUS
      <3> QED BY <3>1, FS_Interval
    <2> QED BY <2>1, FS_Subset
  <1>2. Cardinality(S) = Count(around, from, marker)
    BY DEF Count
  <1>3. S = {} <=> \A i \in from..Len(around) : around[i].marker # marker
    OBVIOUS
  <1> HIDE DEF S
  <1>4. Cardinality(S) \in Nat /\ (Cardinality(S) = 0 <=> S = {})
    BY <1>1, FS_CardinalityType, FS_EmptySet
  <1> QED BY <1>2, <1>3, <1>4

LEMMA CountAppend ==
  ASSUME NEW around \in Seq(Entries), NEW e \in Entries, NEW from \in Nat,
         1 <= from, from <= Len(around) + 1, NEW marker
  PROVE  Count(Append(around, e), from, marker)
           = IF e.marker = marker THEN Count(around, from, marker) + 1
             ELSE Count(around, from, marker)
  <1> DEFINE n == Len(around)
             longer == Append(around, e)
             S == {i \in from..n : around[i].marker = marker}
             T == {i \in from..Len(longer) : longer[i].marker = marker}
  <1>1. n \in Nat /\ Len(longer) = n + 1 /\ longer[n + 1] = e
    OBVIOUS
  <1>2. \A i \in 1..n : longer[i] = around[i]
    OBVIOUS
  <1>3. IsFiniteSet(S) /\ n + 1 \notin S
    <2>1. IsFiniteSet(from..n)
      <3>1. from \in Int /\ n \in Int
        BY <1>1
      <3> QED BY <3>1, FS_Interval
    <2>2. S \subseteq from..n /\ n + 1 \notin from..n
      BY <1>1
    <2> QED BY <2>1, <2>2, FS_Subset
  <1> HIDE DEF n, longer
  <1>4. T = IF e.marker = marker THEN S \cup {n + 1} ELSE S
    <2>1. from..Len(longer) = (from..n) \cup {n + 1} /\ n + 1 \notin from..n
      BY <1>1, from <= n + 1 DEF n
    <2>2. \A i \in from..n : longer[i] = around[i]
      BY <1>1, <1>2
    <2> QED BY <1>1, <2>1, <2>2
  <1>5. Count(longer, from, marker) = Cardinality(T) /\ Count(around, from, marker) = Cardinality(S)
    BY DEF Count, n
  <1> HIDE DEF S, T
  <1>6. Cardinality(S \cup {n + 1}) = Cardinality(S) + 1
    BY <1>3, FS_AddElement
  <1> QED BY <1>4, <1>5, <1>6 DEF longer

LEMMA FrontIs ==
  ASSUME NEW around \in Seq(Entries), around # <<>>
  PROVE  /\ Front(around) \in Seq(Entries) /\ Len(Front(around)) = Len(around) - 1
         /\ \A i \in 1..(Len(around) - 1) : Front(around)[i] = around[i]
         /\ Last(around) \in Entries /\ around = Append(Front(around), Last(around))
  <1> DEFINE n == Len(around)
             f == Front(around)
  <1>1. n \in Nat /\ n # 0
    OBVIOUS
  <1>2. f = SubSeq(around, 1, n - 1)
    BY DEF Front
  <1>3. /\ f \in Seq(Entries) /\ Len(f) = n - 1
        /\ \A i \in 1..(n - 1) : f[i] = around[i]
    <2> DEFINE hi == n - 1
    <2>1. hi \in Int /\ 1 \in Int /\ 1 <= 1 /\ 1 <= hi + 1 /\ hi <= Len(around)
      BY <1>1
    <2> HIDE DEF hi, f
    <2>2. /\ SubSeq(around, 1, hi) \in Seq(Entries) /\ Len(SubSeq(around, 1, hi)) = hi - 1 + 1
          /\ \A i \in 1..(hi - 1 + 1) : SubSeq(around, 1, hi)[i] = around[1 + i - 1]
      BY <2>1, Parted
    <2>3. hi - 1 + 1 = hi /\ \A i \in 1..hi : 1 + i - 1 = i
      BY <2>1
    <2>4. \A i \in 1..hi : SubSeq(around, 1, hi)[i] = around[i]
      BY <2>2, <2>3
    <2> QED BY <1>2, <2>2, <2>3, <2>4 DEF hi
  <1>4. Last(around) = around[n] /\ around[n] \in Entries
    BY <1>1 DEF Last
  <1> HIDE DEF f
  <1>5. around = Append(f, Last(around))
    <2> DEFINE g == Append(f, Last(around))
    <2>1. g \in Seq(Entries) /\ Len(g) = n
      BY <1>1, <1>3, <1>4
    <2>2. \A i \in 1..n : g[i] = around[i]
      BY <1>1, <1>3, <1>4
    <2> HIDE DEF g
    <2>3. Len(g) = Len(around) /\ \A i \in 1..Len(g) : g[i] = around[i]
      BY <2>1, <2>2
    <2>4. g = around
      BY <2>1, <2>3, SeqEqual
    <2> QED BY <2>4 DEF g
  <1> QED BY <1>3, <1>4, <1>5 DEF f

LEMMA CountFront ==
  ASSUME NEW around \in Seq(Entries), around # <<>>, NEW from \in Nat,
         1 <= from, from <= Len(around), NEW marker
  PROVE  Count(around, from, marker)
           = IF Last(around).marker = marker THEN Count(Front(around), from, marker) + 1
             ELSE Count(Front(around), from, marker)
  <1> DEFINE f == Front(around)
             e == Last(around)
  <1>1. /\ f \in Seq(Entries) /\ e \in Entries /\ Len(f) = Len(around) - 1
        /\ around = Append(f, e)
    BY FrontIs
  <1>2. from <= Len(f) + 1
    BY <1>1
  <1> HIDE DEF f, e
  <1>3. Count(Append(f, e), from, marker)
          = IF e.marker = marker THEN Count(f, from, marker) + 1 ELSE Count(f, from, marker)
    BY <1>1, <1>2, CountAppend
  <1> QED BY <1>1, <1>3 DEF f, e

-----------------------------------------------------------------------------
(* What is behind a piece.                                                  *)
LEMMA HolderIs ==
  ASSUME format \in Text, NEW p \in 1..Len(format), p # Len(format)
  PROVE  CloseOf(p + 1) + 1 \in (p + 2)..(Len(format) + 2) /\ ValueAt(p + 1) \in Text
  <1> DEFINE n == p + 1
  <1>1. format \in Seq(STRING) /\ Len(format) \in Nat
    BY DEF Text
  <1>2. n \in Nat /\ n <= Len(format) + 1 /\ n >= 1 /\ n = p + 1
    BY <1>1
  <1> HIDE DEF n
  <1>3. CloseOf(n) \in Nat /\ CloseOf(n) <= Len(format) + 1 /\ n <= CloseOf(n)
    BY <1>1, <1>2, FindIs DEF CloseOf
  <1> DEFINE e == CloseOf(n) - 1
  <1>4. e \in Int /\ n \in Int /\ 1 <= n /\ n <= e + 1 /\ e <= Len(format)
    BY <1>1, <1>2, <1>3
  <1>5. CloseOf(n) + 1 \in (p + 2)..(Len(format) + 2)
    BY <1>1, <1>2, <1>3
  <1>6. ValueAt(n) = SubSeq(format, n, e)
    BY DEF ValueAt
  <1> HIDE DEF e
  <1>7. SubSeq(format, n, e) \in Seq(STRING)
    BY <1>1, <1>4, Parted
  <1> QED BY <1>2, <1>5, <1>6, <1>7 DEF Text

ArgumentsSet == \A i \in DOMAIN arguments : arguments[i].set \in BOOLEAN

LEMMA HoldsIs ==
  ASSUME ArgumentsSet, NEW value, NEW marker, Opens(value, marker)
  PROVE  Holds(value) \in BOOLEAN
  <1>1. ArgumentIndex(Tail(value)) \in DOMAIN arguments
    BY DEF Opens
  <1>2. arguments[ArgumentIndex(Tail(value))].set \in BOOLEAN
    BY <1>1 DEF ArgumentsSet
  <1> QED BY <1>2 DEF Holds

(* Each piece takes the reader on; what it has crossed it has crossed, and  *)
(* when it has stopped it writes no more.                                   *)
Becomes(t, p, x, st, crossed) ==
  \E q \in (p + 1)..(Len(format) + 2) : \E y : \E around \in Seq(Entries) : \E d :
    \E stop, cross \in BOOLEAN :
      /\ t = Reader(q, y, around, d, stop, cross)
      /\ crossed => cross
      /\ st => stop /\ y = x

LEMMA BecomesIs ==
  ASSUME NEW p, NEW x, NEW st, NEW crossed, NEW q \in (p + 1)..(Len(format) + 2), NEW y,
         NEW around \in Seq(Entries), NEW d, NEW stop \in BOOLEAN, NEW cross \in BOOLEAN,
         NEW t, t = Reader(q, y, around, d, stop, cross),
         crossed => cross, st => stop /\ y = x
  PROVE  Becomes(t, p, x, st, crossed)
  BY Zenon DEF Becomes

LEMMA ReadsOne ==
  ASSUME format \in Text, ArgumentsSet, NEW p \in 1..Len(format), NEW x,
         NEW around \in Seq(Entries), NEW c, NEW st \in BOOLEAN, NEW crossed \in BOOLEAN
  PROVE  Becomes(Reads(Reader(p, x, around, c, st, crossed)), p, x, st, crossed)
  <1> DEFINE t == Reads(Reader(p, x, around, c, st, crossed))
             Writes(y) == Shows(around, st, y, x)
  <1>0. Len(format) \in Nat
    BY DEF Text
  <1>1. ASSUME NEW y PROVE st => Writes(y) = x
    BY DEF Shown, Shows
  <1>2. CASE format[p] # "{" \/ p = Len(format)
    <2>1. t = Reader(p + 1, Writes(Append(x, format[p])), around, c, st, crossed)
      <3> HIDE DEF t
      <3>1. Reaches(Reader(p, x, around, c, st, crossed),
                    Reader(p + 1, Shows(around, st, Append(x, format[p]), x), around, c, st, crossed))
        BY <1>0, <1>2, ReadsChar
      <3> QED BY <3>1, Zenon DEF Reaches, t
    <2>2. p + 1 \in (p + 1)..(Len(format) + 2)
      BY <1>0
    <2>3. st => Writes(Append(x, format[p])) = x
      BY <1>1
    <2> HIDE DEF t, Writes
    <2> DEFINE q == p + 1
               y == Writes(Append(x, format[p]))
    <2> HIDE DEF q, y
    <2>4. t = Reader(q, y, around, c, st, crossed) /\ q \in (p + 1)..(Len(format) + 2) /\ (st => y = x)
      BY <2>1, <2>2, <2>3, Zenon DEF q, y
    <2>5. Becomes(t, p, x, st, crossed)
      BY <2>4, BecomesIs
    <2> QED BY <2>5 DEF t
  <1>3. CASE format[p] = "{" /\ p # Len(format) /\ format[p + 1] = "{"
    <2>1. t = Reader(p + 2, Writes(Append(x, "{")), around, c, st, crossed)
      <3> HIDE DEF t
      <3>1. Reaches(Reader(p, x, around, c, st, crossed),
                    Reader(p + 2, Shows(around, st, Append(x, "{"), x), around, c, st, crossed))
        BY <1>0, <1>3, ReadsBrace
      <3> QED BY <3>1, Zenon DEF Reaches, t
    <2>2. p + 2 \in (p + 1)..(Len(format) + 2)
      BY <1>0
    <2>3. st => Writes(Append(x, "{")) = x
      BY <1>1
    <2> HIDE DEF t, Writes
    <2> DEFINE q == p + 2
               y == Writes(Append(x, "{"))
    <2> HIDE DEF q, y
    <2>4. t = Reader(q, y, around, c, st, crossed) /\ q \in (p + 1)..(Len(format) + 2) /\ (st => y = x)
      BY <2>1, <2>2, <2>3, Zenon DEF q, y
    <2>5. Becomes(t, p, x, st, crossed)
      BY <2>4, BecomesIs
    <2> QED BY <2>5 DEF t
  <1>4. CASE PlaceholderAt(p)
    <2> DEFINE q == CloseOf(p + 1) + 1
               value == ValueAt(p + 1)
               original == OriginalAt(p + 1)
    <2>1. t = ReadsPlaceholder(Reader(q, x, around, c, st, crossed), value, original)
      BY <1>0, <1>4, ReadsHolder
    <2>2. q \in (p + 2)..(Len(format) + 2) /\ value \in Text
      BY <1>4, HolderIs DEF PlaceholderAt
    <2> HIDE DEF q, value, original
    <2>3. q \in (p + 1)..(Len(format) + 2)
      BY <1>0, <2>2
    <2> HIDE DEF t
    <2>4. ASSUME NEW marker \in Markers, Closes(value, marker)
          PROVE  Becomes(t, p, x, st, crossed)
      <3>1. CASE \A i \in DOMAIN around : around[i].marker # marker
        <4>1. t = Reader(q, Writes(x \o original), around, c, st, crossed)
          <5>1. EndOf(t, q, x, around, c, st, crossed, marker, original)
            BY <2>1, <2>4, ReadsEnd, Zenon
          <5> QED BY <3>1, <5>1, Zenon DEF EndOf
        <4>2. st => Writes(x \o original) = x
          BY <1>1
        <4> HIDE DEF Writes
        <4> QED BY <2>3, <4>1, <4>2, BecomesIs
      <3>2. CASE ~(\A i \in DOMAIN around : around[i].marker # marker)
        <4>1. t = Reader(q, x, Front(around), c, st, crossed) \/ t = Reader(q, x, around, c, st, TRUE)
          <5>1. EndOf(t, q, x, around, c, st, crossed, marker, original)
            BY <2>1, <2>4, ReadsEnd, Zenon
          <5> QED BY <3>2, <5>1, Zenon DEF EndOf
        <4>2. around # <<>>
          BY <3>2
        <4>3. Front(around) \in Seq(Entries)
          BY <4>2, FrontIs
        <4>4. CASE t = Reader(q, x, Front(around), c, st, crossed)
          BY <2>3, <4>3, <4>4, BecomesIs
        <4>5. CASE t = Reader(q, x, around, c, st, TRUE)
          BY <2>3, <4>5, BecomesIs
        <4> QED BY <4>1, <4>4, <4>5
      <3> QED BY <3>1, <3>2
    <2>5. ASSUME NEW marker \in Markers, Opens(value, marker)
          PROVE  Becomes(t, p, x, st, crossed)
      <3> DEFINE e == [marker |-> marker, holds |-> Holds(value)]
                 longer == Append(around, e)
      <3>1. t = Reader(q, x, longer, c, st, crossed)
        <4>1. BeginOf(t, q, x, around, c, st, crossed, marker, value)
          BY <2>1, <2>2, <2>5, ReadsBegin, Zenon
        <4> QED BY <4>1, Zenon DEF BeginOf
      <3>2. e \in Entries
        BY <2>5, HoldsIs DEF Entries
      <3> HIDE DEF e
      <3>3. longer \in Seq(Entries)
        BY <3>2
      <3> HIDE DEF longer
      <3> QED BY <2>3, <3>1, <3>3, BecomesIs
    <2>6. CASE Plain(value) /\ ~Shown(around, st)
      <3>1. t = Reader(q, x, around, c, st, crossed)
        BY <2>1, <2>6, ReadsHidden
      <3>2. Becomes(t, p, x, st, crossed)
        BY <2>3, <3>1, BecomesIs
      <3> QED BY <3>2 DEF t
    <2>7. CASE Plain(value) /\ Shown(around, st)
      <3>1. ~st
        BY <2>7 DEF Shown
      <3> DEFINE filled == Filled(value, original, c)
      <3>2. \/ t = Reader(q, x, around, c, TRUE, crossed)
            \/ t = Reader(q, x \o original, around, c, st, crossed)
            \/ t = Reader(q, x \o filled.text, around, filled.counter, st, crossed)
        <4>1. ShownOf(t, q, x, around, c, st, crossed, value, original)
        BY <2>1, <2>7, ReadsShown, Zenon
      <4> QED BY <4>1, Zenon DEF ShownOf
      <3> HIDE DEF filled
      <3>3. CASE t = Reader(q, x, around, c, TRUE, crossed)
        BY <2>3, <3>1, <3>3, BecomesIs DEF t
      <3>4. CASE t = Reader(q, x \o original, around, c, st, crossed)
        BY <2>3, <3>1, <3>4, BecomesIs DEF t
      <3>5. CASE t = Reader(q, x \o filled.text, around, filled.counter, st, crossed)
        BY <2>3, <3>1, <3>5, BecomesIs DEF t
      <3> QED BY <3>2, <3>3, <3>4, <3>5
    <2>8. Plain(value) \/ \E marker \in Markers : Closes(value, marker) \/ Opens(value, marker)
      BY DEF Plain
    <2> QED BY <2>4, <2>5, <2>6, <2>7, <2>8 DEF t
  <1>5. PlaceholderAt(p) \/ format[p] # "{" \/ p = Len(format) \/ format[p + 1] = "{"
    BY DEF PlaceholderAt
  <1> QED BY <1>2, <1>3, <1>4, <1>5

-----------------------------------------------------------------------------
Finished(s) == s.stopped \/ s.at > Len(format)
Keeps(s, t) ==
  /\ s.crossed => t.crossed
  /\ Finished(s) => Finished(t) /\ t.text = s.text
ReaderAt(s, k) ==
  \E q \in (k + 1)..(Len(format) + 2) : \E y : \E around \in Seq(Entries) : \E d :
    \E stop, cross \in BOOLEAN : s = Reader(q, y, around, d, stop, cross)

LEMMA AfterOne ==
  ASSUME format \in Text, ArgumentsSet, NEW k \in 1..Len(format), ReaderAt(After[k - 1], k - 1)
  PROVE  ReaderAt(After[k], k) /\ Keeps(After[k - 1], After[k])
  <1> DEFINE s == After[k - 1]
             t == After[k]
  <1>0. Len(format) \in Nat /\ k \in Nat /\ k <= Len(format) /\ k - 1 + 1 = k
    BY DEF Text
  <1>1. t = Reads(s)
    BY <1>0, AfterIs
  <1> HIDE DEF s, t
  <1>2. PICK q \in k..(Len(format) + 2) : \E y : \E around \in Seq(Entries) : \E d :
          \E stop, cross \in BOOLEAN : s = Reader(q, y, around, d, stop, cross)
    BY <1>0, Zenon DEF ReaderAt, s
  <1>7. PICK y : \E around \in Seq(Entries) : \E d : \E stop, cross \in BOOLEAN :
          s = Reader(q, y, around, d, stop, cross)
    BY <1>2
  <1>8. PICK around \in Seq(Entries) : \E d : \E stop, cross \in BOOLEAN :
          s = Reader(q, y, around, d, stop, cross)
    BY <1>7
  <1>3. PICK d : \E stop, cross \in BOOLEAN : s = Reader(q, y, around, d, stop, cross)
    BY <1>8
  <1>9. PICK stop \in BOOLEAN, cross \in BOOLEAN : s = Reader(q, y, around, d, stop, cross)
    BY <1>3
  <1>4. s.at = q /\ s.text = y /\ s.stopped = stop /\ s.crossed = cross
    BY <1>9, Fields
  <1>5. CASE q > Len(format)
    <2>1. t = s
      BY <1>1, <1>4, <1>5 DEF Reads
    <2>2. q \in (k + 1)..(Len(format) + 2)
      BY <1>0, <1>5
    <2>3. ReaderAt(t, k)
      BY <1>9, <2>1, <2>2, Zenon DEF ReaderAt
    <2>4. Keeps(s, t)
      BY <2>1 DEF Keeps
    <2> QED BY <2>3, <2>4 DEF s, t
  <1>6. CASE ~(q > Len(format))
    <2>1. q \in 1..Len(format)
      BY <1>0, <1>6
    <2>2. Becomes(t, q, y, stop, cross)
      BY <1>1, <1>9, <2>1, ReadsOne
    <2> DEFINE Is(r, z, blocks, e, stop2, cross2) ==
                 /\ t = Reader(r, z, blocks, e, stop2, cross2)
                 /\ cross => cross2
                 /\ stop => stop2 /\ z = y
    <2>8. PICK r \in (q + 1)..(Len(format) + 2) :
            \E z : \E blocks \in Seq(Entries) : \E e : \E stop2, cross2 \in BOOLEAN :
              Is(r, z, blocks, e, stop2, cross2)
      BY <2>2, Zenon DEF Becomes
    <2> HIDE DEF Is
    <2>9. PICK z : \E blocks \in Seq(Entries) : \E e : \E stop2, cross2 \in BOOLEAN :
            Is(r, z, blocks, e, stop2, cross2)
      BY <2>8
    <2>10. PICK blocks \in Seq(Entries) : \E e : \E stop2, cross2 \in BOOLEAN :
             Is(r, z, blocks, e, stop2, cross2)
      BY <2>9
    <2>11. PICK e : \E stop2, cross2 \in BOOLEAN : Is(r, z, blocks, e, stop2, cross2)
      BY <2>10
    <2>12. PICK stop2 \in BOOLEAN, cross2 \in BOOLEAN : Is(r, z, blocks, e, stop2, cross2)
      BY <2>11
    <2>3. /\ t = Reader(r, z, blocks, e, stop2, cross2)
          /\ cross => cross2
          /\ stop => stop2 /\ z = y
      BY <2>12 DEF Is
    <2>4. t.at = r /\ t.text = z /\ t.stopped = stop2 /\ t.crossed = cross2
      BY <2>3, Fields
    <2>5. r \in (k + 1)..(Len(format) + 2)
      BY <1>0
    <2>6. ReaderAt(t, k)
      BY <2>3, <2>5, Zenon DEF ReaderAt
    <2>7. Keeps(s, t)
      BY <1>4, <1>6, <2>3, <2>4 DEF Keeps, Finished
    <2> QED BY <2>6, <2>7 DEF s, t
  <1> QED BY <1>5, <1>6

LEMMA AfterTyped ==
  ASSUME format \in Text, ArgumentsSet
  PROVE  \A k \in 0..Len(format) : ReaderAt(After[k], k)
  <1> DEFINE T == {k \in Nat : k <= Len(format) => ReaderAt(After[k], k)}
  <1>0. Len(format) \in Nat
    BY DEF Text
  <1>1. 0 \in T
    <2>1. After[0] = Reader(1, <<>>, <<>>, 0, FALSE, FALSE)
      BY <1>0, AfterIs
    <2>2. 1 \in (0 + 1)..(Len(format) + 2) /\ <<>> \in Seq(Entries)
      BY <1>0
    <2>3. ReaderAt(After[0], 0)
      BY <2>1, <2>2, Zenon DEF ReaderAt
    <2> QED BY <2>3
  <1>2. ASSUME NEW k \in Nat, k \in T PROVE k + 1 \in T
    <2> SUFFICES ASSUME k + 1 <= Len(format) PROVE ReaderAt(After[k + 1], k + 1)
      OBVIOUS
    <2> DEFINE n == k + 1
    <2>1. n \in 1..Len(format) /\ n - 1 = k /\ k <= Len(format)
      BY <1>0
    <2>2. ReaderAt(After[k], k)
      BY <1>2, <2>1
    <2> HIDE DEF n
    <2>3. ReaderAt(After[n], n)
      BY <2>1, <2>2, AfterOne
    <2> QED BY <2>3 DEF n
  <1> HIDE DEF T
  <1>3. Nat \subseteq T
    BY <1>1, <1>2, Upward
  <1> QED BY <1>0, <1>3 DEF T

LEMMA AfterKeeps ==
  ASSUME format \in Text, ArgumentsSet, NEW k \in 0..Len(format)
  PROVE  Keeps(After[k], Reading)
  <1> DEFINE T == {j \in Nat : k <= j /\ j <= Len(format) => Keeps(After[k], After[j])}
  <1>0. Len(format) \in Nat /\ k \in Nat /\ k <= Len(format)
    BY DEF Text
  <1>1. Keeps(After[k], After[k])
    BY DEF Keeps
  <1>2. 0 \in T
    <2> SUFFICES ASSUME k <= 0 PROVE Keeps(After[k], After[0])
      OBVIOUS
    <2>1. k = 0
      BY <1>0
    <2> QED BY <1>1, <2>1
  <1>3. ASSUME NEW j \in Nat, j \in T PROVE j + 1 \in T
    <2> SUFFICES ASSUME k <= j + 1, j + 1 <= Len(format) PROVE Keeps(After[k], After[j + 1])
      OBVIOUS
    <2>1. CASE k = j + 1
      BY <1>1, <2>1
    <2>2. CASE k <= j
      <3> DEFINE n == j + 1
      <3>1. n \in 1..Len(format) /\ n - 1 = j /\ j \in 0..Len(format) /\ j <= Len(format)
        BY <1>0
      <3>2. Keeps(After[k], After[j]) /\ ReaderAt(After[j], j)
        BY <1>3, <2>2, <3>1, AfterTyped
      <3> HIDE DEF n
      <3>3. Keeps(After[j], After[n])
        BY <3>1, <3>2, AfterOne
      <3>4. Keeps(After[k], After[n])
        BY <3>2, <3>3, Zenon DEF Keeps
      <3> QED BY <3>4 DEF n
    <2> QED BY <1>0, <2>1, <2>2
  <1> HIDE DEF T
  <1>4. Nat \subseteq T
    BY <1>2, <1>3, Upward
  <1> QED BY <1>0, <1>4 DEF T, Reading

-----------------------------------------------------------------------------
(* A reader that is in a block that does not hold, and in `depth` more of   *)
(* the kind in it.                                                          *)
Beyond(around, blocks, marker, depth) ==
  /\ Len(blocks) + 1 <= Len(around)
  /\ \A i \in 1..Len(blocks) : around[i] = blocks[i]
  /\ around[Len(blocks) + 1] = [marker |-> marker, holds |-> FALSE]
  /\ Count(around, Len(blocks) + 2, marker) = depth

LEMMA BeyondHides ==
  ASSUME NEW blocks \in Seq(Entries), NEW around \in Seq(Entries), NEW marker, NEW depth,
         NEW st, Beyond(around, blocks, marker, depth)
  PROVE  /\ ~Shown(around, st) /\ around # <<>>
         /\ ~(\A i \in DOMAIN around : around[i].marker # marker)
  <1> DEFINE n == Len(blocks) + 1
             e == [marker |-> marker, holds |-> FALSE]
  <1>1. n \in 1..Len(around) /\ around[n] = e
    BY DEF Beyond
  <1>2. e.marker = marker /\ ~e.holds
    OBVIOUS
  <1> HIDE DEF n, e
  <1>3. DOMAIN around = 1..Len(around) /\ around # <<>>
    BY <1>1
  <1> QED BY <1>1, <1>2, <1>3 DEF Shown

LEMMA BeyondBegin ==
  ASSUME NEW blocks \in Seq(Entries), NEW around \in Seq(Entries), NEW marker, NEW depth \in Nat,
         NEW e \in Entries, Beyond(around, blocks, marker, depth)
  PROVE  Beyond(Append(around, e), blocks, marker,
                IF e.marker = marker THEN depth + 1 ELSE depth)
  <1> DEFINE n == Len(blocks) + 1
             longer == Append(around, e)
             more == IF e.marker = marker THEN depth + 1 ELSE depth
  <1>1. /\ n \in 1..Len(around) /\ around[n] = [marker |-> marker, holds |-> FALSE]
        /\ \A i \in 1..Len(blocks) : around[i] = blocks[i]
    BY DEF Beyond
  <1>2. Len(longer) = Len(around) + 1 /\ \A i \in 1..Len(around) : longer[i] = around[i]
    OBVIOUS
  <1>3. Count(longer, Len(blocks) + 2, marker) = more
    <2> DEFINE from == Len(blocks) + 2
    <2>1. from \in Nat /\ 1 <= from /\ from <= Len(around) + 1
      BY <1>1
    <2>2. Count(around, from, marker) = depth
      BY DEF Beyond
    <2> HIDE DEF from, longer, more
    <2>3. Count(longer, from, marker) = IF e.marker = marker THEN Count(around, from, marker) + 1
                                        ELSE Count(around, from, marker)
      BY <2>1, CountAppend DEF longer
    <2> QED BY <2>2, <2>3 DEF from, more
  <1> HIDE DEF longer, more
  <1>4. Beyond(longer, blocks, marker, more)
    <2>1. n <= Len(longer) /\ \A i \in 1..Len(blocks) : i \in 1..Len(around)
      BY <1>1, <1>2
    <2>2. \A i \in 1..Len(blocks) : longer[i] = blocks[i]
      BY <1>1, <1>2, <2>1
    <2>3. longer[n] = [marker |-> marker, holds |-> FALSE]
      BY <1>1, <1>2
    <2> QED BY <1>3, <2>1, <2>2, <2>3 DEF Beyond
  <1> QED BY <1>4 DEF longer, more

LEMMA BeyondEnd ==
  ASSUME NEW blocks \in Seq(Entries), NEW around \in Seq(Entries), NEW marker, NEW depth \in Nat,
         Beyond(around, blocks, marker, depth)
  PROVE  /\ Last(around).marker = marker /\ depth = 0 => Front(around) = blocks
         /\ Last(around).marker = marker /\ depth # 0
              => Beyond(Front(around), blocks, marker, depth - 1)
         /\ Last(around).marker # marker => Beyond(Front(around), blocks, marker, depth)
  <1> DEFINE n == Len(blocks) + 1
             f == Front(around)
             e == Last(around)
             from == Len(blocks) + 2
  <1>1. /\ n \in 1..Len(around) /\ around[n] = [marker |-> marker, holds |-> FALSE]
        /\ \A i \in 1..Len(blocks) : around[i] = blocks[i]
        /\ Count(around, from, marker) = depth
        /\ from = n + 1 /\ from \in Nat /\ 1 <= from
    BY DEF Beyond
  <1>2. around # <<>>
    BY BeyondHides
  <1>3. /\ f \in Seq(Entries) /\ Len(f) = Len(around) - 1
        /\ \A i \in 1..(Len(around) - 1) : f[i] = around[i]
    BY <1>2, FrontIs
  <1>4. e = around[Len(around)]
    BY DEF Last
  <1> HIDE DEF f, e, from
  <1>5. CASE n = Len(around)
    <2>1. e.marker = marker
      BY <1>1, <1>4, <1>5
    <2>2. Count(around, from, marker) = 0
      <3>1. from..Len(around) = {}
        BY <1>1, <1>5
      <3> QED BY <1>1, <3>1, CountIs
    <2>3. f = blocks
      <3>1. Len(f) = Len(blocks)
        BY <1>3, <1>5
      <3>2. \A i \in 1..Len(f) : f[i] = blocks[i]
        BY <1>1, <1>3, <1>5
      <3> QED BY <1>3, <3>1, <3>2, SeqEqual
    <2>4. depth = 0
      BY <1>1, <2>2
    <2> QED BY <2>1, <2>3, <2>4 DEF f, e
  <1>6. CASE n # Len(around)
    <2>1. n <= Len(f) /\ from <= Len(around) /\ n \in 1..(Len(around) - 1)
      BY <1>1, <1>3, <1>6
    <2>2. depth = IF e.marker = marker THEN Count(f, from, marker) + 1 ELSE Count(f, from, marker)
      BY <1>1, <1>2, <2>1, CountFront DEF f, e
    <2>3. Count(f, from, marker) \in Nat
      BY <1>1, <1>3, CountIs
    <2>4. \A i \in 1..Len(blocks) : f[i] = blocks[i]
      BY <1>1, <1>3, <2>1
    <2>5. f[n] = [marker |-> marker, holds |-> FALSE]
      BY <1>1, <1>3, <2>1
    <2>6. Beyond(f, blocks, marker, Count(f, from, marker))
      BY <2>1, <2>4, <2>5 DEF Beyond, from
    <2>7. CASE e.marker = marker
      <3>1. depth # 0 /\ Count(f, from, marker) = depth - 1
        BY <2>2, <2>3, <2>7
      <3> QED BY <2>6, <2>7, <3>1 DEF f, e
    <2>8. CASE e.marker # marker
      <3>1. Count(f, from, marker) = depth
        BY <2>2, <2>8
      <3> QED BY <2>6, <2>8, <3>1 DEF f, e
    <2> QED BY <2>7, <2>8
  <1> QED BY <1>5, <1>6

-----------------------------------------------------------------------------
(* Where the reader meets the printer that has skipped the block.           *)
Skipping(s, p, x, blocks, c, marker, depth) ==
  \E around \in Seq(Entries) :
    /\ s = Reader(p, x, around, c, FALSE, FALSE)
    /\ Beyond(around, blocks, marker, depth)

Meets(e, x, blocks, c) ==
  \/ \E j \in 0..Len(format) : After[j].crossed
  \/ \E j \in 0..Len(format) : After[j] = Reader(e, x, blocks, c, FALSE, FALSE)
  \/ ~(e <= Len(format)) /\ \E j \in 0..Len(format) : Finished(After[j]) /\ After[j].text = x

(* A piece of a block that does not hold leaves the reader in it, or ends   *)
(* it, or crosses it.                                                       *)
Passed(t, p, x, blocks, c, marker, depth) ==
  /\ format[p] # "{" => Skipping(t, p + 1, x, blocks, c, marker, depth)
  /\ format[p] = "{" /\ format[p + 1] = "{" => Skipping(t, p + 2, x, blocks, c, marker, depth)
  /\ PlaceholderAt(p) =>
       LET next == CloseOf(p + 1) + 1
           value == ValueAt(p + 1)
       IN IF Closes(value, marker)
          THEN \/ t.crossed
               \/ depth = 0 /\ t = Reader(next, x, blocks, c, FALSE, FALSE)
               \/ depth # 0 /\ Skipping(t, next, x, blocks, c, marker, depth - 1)
          ELSE \/ t.crossed
               \/ Skipping(t, next, x, blocks, c, marker,
                           IF Opens(value, marker) THEN depth + 1 ELSE depth)

LEMMA ReadsPast ==
  ASSUME format \in Text, ArgumentsSet, NEW p \in 1..Len(format), p # Len(format), NEW x,
         NEW blocks \in Seq(Entries), NEW c, NEW marker \in Markers, NEW depth \in Nat,
         NEW s, Skipping(s, p, x, blocks, c, marker, depth)
  PROVE  Passed(Reads(s), p, x, blocks, c, marker, depth)
  <1>0. Len(format) \in Nat
    BY DEF Text
  <1>1. PICK around \in Seq(Entries) :
          s = Reader(p, x, around, c, FALSE, FALSE) /\ Beyond(around, blocks, marker, depth)
    BY DEF Skipping
  <1>2. /\ ~Shown(around, FALSE) /\ around # <<>>
        /\ ~(\A i \in DOMAIN around : around[i].marker # marker)
    BY <1>1, BeyondHides
  <1>3. ASSUME NEW y PROVE Shows(around, FALSE, y, x) = x
    BY <1>2 DEF Shows
  <1> DEFINE t == Reads(s)
  <1>4. ASSUME NEW q, t = Reader(q, x, around, c, FALSE, FALSE)
        PROVE  Skipping(t, q, x, blocks, c, marker, depth)
    BY <1>1, <1>4, Zenon DEF Skipping
  <1>5. format[p] # "{" => t = Reader(p + 1, x, around, c, FALSE, FALSE)
    <2> SUFFICES ASSUME format[p] # "{" PROVE t = Reader(p + 1, x, around, c, FALSE, FALSE)
      OBVIOUS
    <2> HIDE DEF t
    <2>1. Reaches(Reader(p, x, around, c, FALSE, FALSE),
                  Reader(p + 1, Shows(around, FALSE, Append(x, format[p]), x), around, c, FALSE, FALSE))
      BY <1>0, ReadsChar
    <2> QED BY <1>1, <1>3, <2>1, Zenon DEF Reaches, t
  <1>6. format[p] = "{" /\ format[p + 1] = "{" => t = Reader(p + 2, x, around, c, FALSE, FALSE)
    <2> SUFFICES ASSUME format[p] = "{", format[p + 1] = "{"
                 PROVE  t = Reader(p + 2, x, around, c, FALSE, FALSE)
      OBVIOUS
    <2> HIDE DEF t
    <2>1. Reaches(Reader(p, x, around, c, FALSE, FALSE),
                  Reader(p + 2, Shows(around, FALSE, Append(x, "{"), x), around, c, FALSE, FALSE))
      BY <1>0, ReadsBrace
    <2> QED BY <1>1, <1>3, <2>1, Zenon DEF Reaches, t
  <1> DEFINE next == CloseOf(p + 1) + 1
             value == ValueAt(p + 1)
             original == OriginalAt(p + 1)
             deeper == IF Opens(value, marker) THEN depth + 1 ELSE depth
             Right == IF Closes(value, marker)
                      THEN \/ t.crossed
                           \/ depth = 0 /\ t = Reader(next, x, blocks, c, FALSE, FALSE)
                           \/ depth # 0 /\ Skipping(t, next, x, blocks, c, marker, depth - 1)
                      ELSE t.crossed \/ Skipping(t, next, x, blocks, c, marker, deeper)
  <1>7. ASSUME PlaceholderAt(p) PROVE Right
    <2>1. t = ReadsPlaceholder(Reader(next, x, around, c, FALSE, FALSE), value, original)
      BY <1>0, <1>1, <1>7, ReadsHolder
    <2>2. value \in Text
      BY <1>7, HolderIs
    <2> HIDE DEF next, value, original, t, deeper
    <2>3. ASSUME NEW other \in Markers, Closes(value, other) PROVE Right
      <3>1. EndOf(t, next, x, around, c, FALSE, FALSE, other, original)
        BY <2>1, <2>3, ReadsEnd, Zenon
      <3>2. deeper = depth /\ (Closes(value, marker) <=> other = marker)
        <4>1. ~Opens(value, marker) /\ (Closes(value, marker) => marker = other)
          BY <2>3, Closing
        <4> QED BY <2>3, <4>1 DEF deeper
      <3>3. CASE \A i \in DOMAIN around : around[i].marker # other
        <4>1. t = Reader(next, Shows(around, FALSE, x \o original, x), around, c, FALSE, FALSE)
          BY <3>1, <3>3, Zenon DEF EndOf
        <4>2. t = Reader(next, x, around, c, FALSE, FALSE)
          BY <1>3, <4>1, Zenon
        <4>3. Skipping(t, next, x, blocks, c, marker, depth)
          BY <1>1, <4>2, Zenon DEF Skipping
        <4>4. ~Closes(value, marker)
          BY <1>2, <3>2, <3>3
        <4> QED BY <3>2, <4>3, <4>4, Zenon
      <3>4. CASE ~(\A i \in DOMAIN around : around[i].marker # other) /\ Last(around).marker # other
        <4>1. t = Reader(next, x, around, c, FALSE, TRUE)
          BY <3>1, <3>4, Zenon DEF EndOf
        <4>2. t.crossed
          BY <4>1 DEF Reader
        <4> QED BY <4>2, Zenon
      <3>5. CASE ~(\A i \in DOMAIN around : around[i].marker # other) /\ Last(around).marker = other
        <4> DEFINE f == Front(around)
        <4>1. t = Reader(next, x, f, c, FALSE, FALSE)
          BY <3>1, <3>5, Zenon DEF EndOf
        <4>2. f \in Seq(Entries)
          BY <1>2, FrontIs
        <4>3. /\ Last(around).marker = marker /\ depth = 0 => f = blocks
              /\ Last(around).marker = marker /\ depth # 0 => Beyond(f, blocks, marker, depth - 1)
              /\ Last(around).marker # marker => Beyond(f, blocks, marker, depth)
          BY <1>1, BeyondEnd
        <4> HIDE DEF f
        <4>4. CASE other = marker /\ depth = 0
          <5>1. f = blocks
            BY <3>5, <4>3, <4>4
          <5> QED BY <3>2, <4>1, <4>4, <5>1, Zenon
        <4>5. CASE other = marker /\ depth # 0
          <5>1. Beyond(f, blocks, marker, depth - 1)
            BY <3>5, <4>3, <4>5
          <5>2. Skipping(t, next, x, blocks, c, marker, depth - 1)
            BY <4>1, <4>2, <5>1, Zenon DEF Skipping
          <5> QED BY <3>2, <4>5, <5>2, Zenon
        <4>6. CASE other # marker
          <5>1. Beyond(f, blocks, marker, depth)
            BY <3>5, <4>3, <4>6
          <5>2. Skipping(t, next, x, blocks, c, marker, depth)
            BY <4>1, <4>2, <5>1, Zenon DEF Skipping
          <5> QED BY <3>2, <4>6, <5>2, Zenon
        <4> QED BY <4>4, <4>5, <4>6
      <3> QED BY <3>3, <3>4, <3>5
    <2>4. ASSUME NEW other \in Markers, Opens(value, other) PROVE Right
      <3> DEFINE e == [marker |-> other, holds |-> Holds(value)]
                 longer == Append(around, e)
      <3>1. t = Reader(next, x, longer, c, FALSE, FALSE)
        <4>1. BeginOf(t, next, x, around, c, FALSE, FALSE, other, value)
          BY <2>1, <2>2, <2>4, ReadsBegin, Zenon
        <4> QED BY <4>1, Zenon DEF BeginOf
      <3>2. e \in Entries /\ e.marker = other
        BY <2>4, HoldsIs DEF Entries
      <3>3. ~Closes(value, marker) /\ (Opens(value, marker) <=> other = marker)
        <4>1. ~Closes(value, marker) /\ (Opens(value, marker) => marker = other)
          <5>1. Len(value) > 1 /\ value[1] = other
            BY <2>4 DEF Opens
          <5> QED BY <2>2, <5>1, Opening
        <4> QED BY <2>4, <4>1
      <3> HIDE DEF e
      <3>4. longer \in Seq(Entries) /\ Beyond(longer, blocks, marker, deeper)
        <4>1. longer \in Seq(Entries)
          BY <3>2
        <4>2. Beyond(longer, blocks, marker, IF e.marker = marker THEN depth + 1 ELSE depth)
          BY <1>1, <3>2, BeyondBegin
        <4> HIDE DEF longer
        <4>3. (IF e.marker = marker THEN depth + 1 ELSE depth) = deeper
          BY <3>2, <3>3 DEF deeper
        <4> QED BY <4>1, <4>2, <4>3
      <3> HIDE DEF longer
      <3>5. Skipping(t, next, x, blocks, c, marker, deeper)
        BY <3>1, <3>4, Zenon DEF Skipping
      <3> QED BY <3>3, <3>5, Zenon
    <2>5. CASE Plain(value)
      <3>1. t = Reader(next, x, around, c, FALSE, FALSE)
        BY <1>2, <2>1, <2>5, ReadsHidden
      <3>2. Skipping(t, next, x, blocks, c, marker, depth)
        BY <1>1, <3>1, Zenon DEF Skipping
      <3>3. ~Closes(value, marker) /\ deeper = depth
        BY <2>5 DEF Plain, deeper
      <3> QED BY <3>2, <3>3, Zenon
    <2>6. Plain(value) \/ \E other \in Markers : Closes(value, other) \/ Opens(value, other)
      BY DEF Plain
    <2> QED BY <2>3, <2>4, <2>5, <2>6
  <1> QED BY <1>4, <1>5, <1>6, <1>7, Zenon DEF Passed

-----------------------------------------------------------------------------
(* A reader has read no more pieces than it has characters behind it.       *)
LEMMA NextOf ==
  ASSUME format \in Text, ArgumentsSet, NEW k \in 0..Len(format),
         NEW p \in 1..Len(format), After[k].at = p
  PROVE  k + 1 \in 0..Len(format) /\ After[k + 1] = Reads(After[k])
  <1>0. Len(format) \in Nat
    BY DEF Text
  <1>1. PICK q \in (k + 1)..(Len(format) + 2) : \E y : \E around \in Seq(Entries) : \E d :
          \E stop, cross \in BOOLEAN : After[k] = Reader(q, y, around, d, stop, cross)
    BY AfterTyped, Zenon DEF ReaderAt
  <1>2. After[k].at = q
    BY <1>1, Fields
  <1>3. k + 1 <= Len(format)
    BY <1>0, <1>2
  <1> DEFINE n == k + 1
  <1>4. n \in 1..Len(format) /\ n - 1 = k
    BY <1>0, <1>3
  <1> HIDE DEF n
  <1>5. After[n] = Reads(After[k])
    BY <1>0, <1>4, AfterIs
  <1>6. n \in 0..Len(format)
    BY <1>0, <1>4
  <1> QED BY <1>5, <1>6 DEF n

LEMMA Skips ==
  ASSUME format \in Text, ArgumentsSet, NEW marker \in Markers, NEW end, IsScanner(end, marker),
         NEW x, NEW blocks \in Seq(Entries), NEW c
  PROVE  \A i \in 1..(Len(format) + 2) : \A depth \in Nat : \A k \in 0..Len(format) :
           Skipping(After[k], i, x, blocks, c, marker, depth)
             => Meets(end[i][depth], x, blocks, c)
  <1> DEFINE top == Len(format) + 2
             Met(i) == \A depth \in Nat : \A k \in 0..Len(format) :
                         Skipping(After[k], i, x, blocks, c, marker, depth)
                           => Meets(end[i][depth], x, blocks, c)
             S == {i \in 1..top : Met(i)}
  <1>0. Len(format) \in Nat /\ top \in Nat
    BY DEF Text
  <1>1. ASSUME NEW i \in 1..top, \A q \in (i + 1)..top : q \in S PROVE i \in S
    <2> SUFFICES ASSUME NEW depth \in Nat, NEW k \in 0..Len(format),
                        Skipping(After[k], i, x, blocks, c, marker, depth)
                 PROVE  Meets(end[i][depth], x, blocks, c)
      OBVIOUS
    <2>1. PICK around \in Seq(Entries) :
            After[k] = Reader(i, x, around, c, FALSE, FALSE) /\ Beyond(around, blocks, marker, depth)
      BY DEF Skipping
    <2>2. After[k].at = i /\ After[k].text = x
      BY <2>1 DEF Reader
    <2>6. Scans(end, marker, i, depth)
      BY DEF IsScanner
    <2>3. CASE i > Len(format)
      <3>1. end[i][depth] = Len(format) + 1
        <4>1. i >= Len(format)
          BY <1>0, <2>3
        <4> QED BY <2>6, <4>1, Zenon DEF Scans
      <3>2. Finished(After[k])
        BY <2>2, <2>3 DEF Finished
      <3>3. ~(Len(format) + 1 <= Len(format))
        BY <1>0
      <3> QED BY <2>2, <3>1, <3>2, <3>3 DEF Meets
    <2>4. CASE i = Len(format)
      <3>1. end[i][depth] = Len(format) + 1 /\ ~(Len(format) + 1 <= Len(format)) /\ i \in 1..Len(format)
        <4>1. i >= Len(format)
          BY <1>0, <2>4
        <4>2. end[i][depth] = Len(format) + 1
          BY <2>6, <4>1, Zenon DEF Scans
        <4>3. ~(Len(format) + 1 <= Len(format)) /\ i \in 1..Len(format)
          BY <1>0, <2>4
        <4> QED BY <4>2, <4>3
      <3> DEFINE n == k + 1
      <3>2. n \in 0..Len(format) /\ After[n] = Reads(After[k])
        BY <2>2, <3>1, NextOf
      <3> HIDE DEF n
      <3>3. Reaches(Reader(i, x, around, c, FALSE, FALSE),
                    Reader(i + 1, Shows(around, FALSE, Append(x, format[i]), x), around, c, FALSE, FALSE))
        BY <1>0, <2>4, <3>1, ReadsChar
      <3>4. Shows(around, FALSE, Append(x, format[i]), x) = x
        BY <2>1, BeyondHides DEF Shows
      <3> DEFINE r == i + 1
      <3>5. r > Len(format)
        BY <1>0, <2>4
      <3> HIDE DEF r
      <3>6. After[n] = Reader(r, x, around, c, FALSE, FALSE)
        BY <2>1, <3>2, <3>3, <3>4, Zenon DEF Reaches, r
      <3>7. After[n].at = r /\ After[n].text = x
        BY <3>6 DEF Reader
      <3>8. Finished(After[n])
        BY <3>5, <3>7 DEF Finished
      <3> QED BY <3>1, <3>2, <3>7, <3>8 DEF Meets
    <2>5. CASE i < Len(format)
      <3>1. i \in 1..Len(format) /\ i # Len(format)
        BY <1>0, <2>5
      <3> DEFINE n == k + 1
                 t == Reads(After[k])
                 next == CloseOf(i + 1) + 1
                 value == ValueAt(i + 1)
      <3>2. n \in 0..Len(format) /\ After[n] = t
        BY <2>2, <3>1, NextOf
      <3> HIDE DEF n, t
      <3>3. Passed(t, i, x, blocks, c, marker, depth)
        BY <3>1, ReadsPast DEF t
      <3>4. t.crossed => Meets(end[i][depth], x, blocks, c)
        BY <3>2, Zenon DEF Meets
      <3>5. ASSUME NEW q \in (i + 1)..top, NEW d \in Nat, Skipping(t, q, x, blocks, c, marker, d),
                   end[i][depth] = end[q][d]
            PROVE  Meets(end[i][depth], x, blocks, c)
        <4>1. Met(q)
          BY <1>1, <3>5
        <4> QED BY <3>2, <3>5, <4>1
      <3>6. CASE format[i] # "{"
        <4> DEFINE q == i + 1
        <4>1. q \in (i + 1)..top
          BY <1>0, <3>1
        <4>2. end[i][depth] = end[q][depth]
          BY <1>0, <2>6, <2>5, <3>6 DEF Scans
        <4>3. Skipping(t, q, x, blocks, c, marker, depth)
          BY <3>3, <3>6, Zenon DEF Passed
        <4> HIDE DEF q
        <4> QED BY <3>5, <4>1, <4>2, <4>3
      <3>7. CASE format[i] = "{" /\ format[i + 1] = "{"
        <4> DEFINE q == i + 2
        <4>1. q \in (i + 1)..top
          BY <1>0, <3>1
        <4>2. end[i][depth] = end[q][depth]
          BY <1>0, <2>6, <2>5, <3>7 DEF Scans
        <4>3. Skipping(t, q, x, blocks, c, marker, depth)
          BY <3>3, <3>7, Zenon DEF Passed
        <4> HIDE DEF q
        <4> QED BY <3>5, <4>1, <4>2, <4>3
      <3>8. CASE PlaceholderAt(i)
        <4>1. next \in (i + 2)..(Len(format) + 2)
          BY <3>1, HolderIs
        <4> HIDE DEF next, value
        <4>2. next \in (i + 1)..top
          BY <1>0, <4>1
        <4>3. CASE Closes(value, marker)
          <5>1. end[i][depth] = IF depth = 0 THEN next ELSE end[next][depth - 1]
            BY <1>0, <2>6, <2>5, <3>8, <4>3 DEF Scans, next, value
          <5>2. \/ t.crossed
                \/ depth = 0 /\ t = Reader(next, x, blocks, c, FALSE, FALSE)
                \/ depth # 0 /\ Skipping(t, next, x, blocks, c, marker, depth - 1)
            BY <3>3, <3>8, <4>3, Zenon DEF Passed, next, value
          <5>3. CASE depth = 0 /\ t = Reader(next, x, blocks, c, FALSE, FALSE)
            <6>1. end[i][depth] = next
              BY <5>1, <5>3
            <6> QED BY <3>2, <5>3, <6>1, Zenon DEF Meets
          <5>4. CASE depth # 0 /\ Skipping(t, next, x, blocks, c, marker, depth - 1)
            <6> DEFINE d == depth - 1
            <6>1. end[i][depth] = end[next][d] /\ d \in Nat
              BY <5>1, <5>4
            <6>2. Skipping(t, next, x, blocks, c, marker, d)
              BY <5>4
            <6> HIDE DEF d
            <6> QED BY <3>5, <4>2, <6>1, <6>2
          <5> QED BY <3>4, <5>2, <5>3, <5>4
        <4>4. CASE ~Closes(value, marker)
          <5> DEFINE d == IF Opens(value, marker) THEN depth + 1 ELSE depth
          <5>1. end[i][depth] = end[next][d] /\ d \in Nat
            <6>1. end[i][depth] = end[next][d]
              BY <2>5, <2>6, <3>8, <4>4, Zenon DEF Scans, next, value
            <6>2. d \in Nat
              OBVIOUS
            <6> HIDE DEF d
            <6> QED BY <6>1, <6>2
          <5>2. t.crossed \/ Skipping(t, next, x, blocks, c, marker, d)
            BY <3>3, <3>8, <4>4, Zenon DEF Passed, next, value
          <5> HIDE DEF d
          <5> QED BY <3>4, <3>5, <4>2, <5>1, <5>2
        <4> QED BY <4>3, <4>4
      <3>9. format[i] # "{" \/ format[i + 1] = "{" \/ PlaceholderAt(i)
        BY <3>1 DEF PlaceholderAt
      <3> QED BY <3>6, <3>7, <3>8, <3>9
    <2> QED BY <1>0, <2>3, <2>4, <2>5
  <1> HIDE DEF S, top
  <1>2. \A i \in 1..top : i \in S
    BY <1>0, <1>1, Downward
  <1> QED BY <1>2 DEF S, top

-----------------------------------------------------------------------------
(* The conditionals that the reader is in all hold, and are those that the  *)
(* two counters count.                                                      *)
OpenAre(around, counts) ==
  /\ \A i \in DOMAIN around : around[i].holds
  /\ counts \in [Markers -> Nat]
  /\ \A marker \in Markers : counts[marker] = Count(around, 1, marker)

Crossed == \E k \in 0..Len(format) : After[k].crossed
Ended(x) == \E k \in 0..Len(format) : Finished(After[k]) /\ After[k].text = x
InStep(p, x, c, counts) ==
  \E k \in 0..Len(format) : \E around \in Seq(Entries) :
    After[k] = Reader(p, x, around, c, FALSE, FALSE) /\ OpenAre(around, counts)

Follows ==
  \/ Crossed
  \/ ~Busy /\ Ended(buffer)
  \/ ~stopped /\ InStep(at, buffer, argCounter, open)

BlocksInv == format \in Text /\ ArgumentsSet /\ Follows

LEMMA OpenBegin ==
  ASSUME NEW around \in Seq(Entries), NEW counts, OpenAre(around, counts),
         NEW marker \in Markers, NEW e, e = [marker |-> marker, holds |-> TRUE]
  PROVE  OpenAre(Append(around, e), [counts EXCEPT ![marker] = @ + 1])
  <1> DEFINE longer == Append(around, e)
             more == [counts EXCEPT ![marker] = @ + 1]
  <1>1. e \in Entries /\ e.marker = marker /\ e.holds
    BY DEF Entries
  <1>2. longer \in Seq(Entries) /\ Len(longer) = Len(around) + 1 /\ longer[Len(around) + 1] = e
        /\ \A i \in 1..Len(around) : longer[i] = around[i]
    BY <1>1
  <1>3. \A i \in DOMAIN longer : longer[i].holds
    <2> SUFFICES ASSUME NEW i \in DOMAIN longer PROVE longer[i].holds
      OBVIOUS
    <2>1. i \in 1..(Len(around) + 1)
      BY <1>2
    <2>2. CASE i = Len(around) + 1
      BY <1>1, <1>2, <2>2
    <2>3. CASE i # Len(around) + 1
      <3>1. i \in 1..Len(around) /\ i \in DOMAIN around
        BY <2>1, <2>3
      <3> HIDE DEF longer
      <3> QED BY <1>2, <3>1 DEF OpenAre
    <2> QED BY <2>2, <2>3
  <1>4. more \in [Markers -> Nat]
    BY DEF OpenAre
  <1>5. ASSUME NEW other \in Markers PROVE more[other] = Count(longer, 1, other)
    <2>1. counts[other] = Count(around, 1, other)
      BY DEF OpenAre
    <2>2. 1 <= Len(around) + 1
      OBVIOUS
    <2>3. Count(longer, 1, other) = IF e.marker = other THEN Count(around, 1, other) + 1
                                    ELSE Count(around, 1, other)
      BY <1>1, <2>2, CountAppend
    <2>4. counts \in [Markers -> Nat]
      BY DEF OpenAre
    <2> HIDE DEF longer
    <2>5. more[other] = IF marker = other THEN counts[other] + 1 ELSE counts[other]
      BY <2>4
    <2> HIDE DEF more
    <2> QED BY <1>1, <2>1, <2>3, <2>5
  <1> HIDE DEF longer, more
  <1>6. OpenAre(longer, more)
    BY <1>3, <1>4, <1>5 DEF OpenAre
  <1> QED BY <1>6 DEF longer, more

LEMMA OpenEnd ==
  ASSUME NEW around \in Seq(Entries), NEW counts, OpenAre(around, counts), around # <<>>,
         NEW marker \in Markers, Last(around).marker = marker
  PROVE  OpenAre(Front(around), [counts EXCEPT ![marker] = @ - 1])
  <1> DEFINE f == Front(around)
             fewer == [counts EXCEPT ![marker] = @ - 1]
  <1>1. /\ f \in Seq(Entries) /\ Len(f) = Len(around) - 1
        /\ \A i \in 1..(Len(around) - 1) : f[i] = around[i]
    BY FrontIs
  <1>2. counts \in [Markers -> Nat]
    BY DEF OpenAre
  <1>3. \A i \in DOMAIN f : f[i].holds
    <2> SUFFICES ASSUME NEW i \in DOMAIN f PROVE f[i].holds
      OBVIOUS
    <2> HIDE DEF f
    <2>1. i \in 1..(Len(around) - 1) /\ i \in DOMAIN around
      BY <1>1
    <2> QED BY <1>1, <2>1 DEF OpenAre
  <1>4. ASSUME NEW other \in Markers
        PROVE  fewer[other] = Count(f, 1, other) /\ Count(f, 1, other) \in Nat
    <2>1. counts[other] = Count(around, 1, other)
      BY DEF OpenAre
    <2>2. 1 <= Len(around)
      OBVIOUS
    <2>3. Count(around, 1, other) = IF marker = other THEN Count(f, 1, other) + 1
                                    ELSE Count(f, 1, other)
      BY <2>2, CountFront
    <2> HIDE DEF f
    <2>4. Count(f, 1, other) \in Nat
      BY <1>1, CountIs
    <2>5. fewer[other] = IF marker = other THEN counts[other] - 1 ELSE counts[other]
      BY <1>2
    <2> HIDE DEF fewer
    <2> QED BY <2>1, <2>3, <2>4, <2>5
  <1> HIDE DEF f
  <1>5. fewer \in [Markers -> Nat]
    <2>1. DOMAIN fewer = Markers /\ fewer = [other \in Markers |-> fewer[other]]
      BY <1>2
    <2> HIDE DEF fewer
    <2> QED BY <1>4, <2>1
  <1> HIDE DEF fewer
  <1>6. OpenAre(f, fewer)
    BY <1>3, <1>4, <1>5 DEF OpenAre
  <1> QED BY <1>6 DEF f, fewer

(* Where the reader is when it and the printer are in step.                 *)
Together(k, around) ==
  /\ format \in Text /\ ArgumentsSet /\ Busy
  /\ k \in 0..Len(format) /\ around \in Seq(Entries)
  /\ After[k] = Reader(at, buffer, around, argCounter, FALSE, FALSE)
  /\ OpenAre(around, open)

LEMMA TogetherIs ==
  ASSUME NEW k, NEW around, Together(k, around)
  PROVE  /\ Len(format) \in Nat /\ at \in 1..Len(format) /\ Shown(around, FALSE)
         /\ \A x, y : Shows(around, FALSE, x, y) = x
         /\ k + 1 \in 0..Len(format)
         /\ After[k + 1] = Reads(Reader(at, buffer, around, argCounter, FALSE, FALSE))
  <1>1. Len(format) \in Nat /\ at <= Len(format) /\ k \in 0..Len(format)
    BY DEF Together, Busy, Text
  <1>2. After[k] = Reader(at, buffer, around, argCounter, FALSE, FALSE)
    BY DEF Together
  <1>3. at \in 1..Len(format)
    <2>1. ReaderAt(After[k], k)
      BY <1>1, AfterTyped DEF Together
    <2>2. PICK q \in (k + 1)..(Len(format) + 2) : \E y : \E ar \in Seq(Entries) : \E d :
          \E stop, cross \in BOOLEAN : After[k] = Reader(q, y, ar, d, stop, cross)
      BY <2>1, Zenon DEF ReaderAt
    <2>3. After[k].at = q
      BY <2>2, Fields
    <2>4. After[k].at = at
      BY <1>2 DEF Reader
    <2> QED BY <1>1, <2>3, <2>4
  <1>4. Shown(around, FALSE)
    BY DEF Together, OpenAre, Shown
  <1>5. \A x, y : Shows(around, FALSE, x, y) = x
    BY <1>4 DEF Shows
  <1>6. After[k].at = at
    BY <1>2 DEF Reader
  <1>7. k + 1 \in 0..Len(format) /\ After[k + 1] = Reads(After[k])
    BY <1>1, <1>3, <1>6, NextOf DEF Together
  <1> QED BY <1>1, <1>2, <1>3, <1>4, <1>5, <1>7

-----------------------------------------------------------------------------
(* The reader reads the same format, whatever the printer does.             *)
LEMMA AfterSame ==
  ASSUME UNCHANGED input
  PROVE  After' = After
  <1>0. format' = format /\ arguments' = arguments
    BY DEF input
  <1>1. ASSUME NEW v PROVE ArgumentIndex(v)' = ArgumentIndex(v)
    BY <1>0 DEF ArgumentIndex
  <1>2. ASSUME NEW v, NEW y PROVE Opens(v, y)' <=> Opens(v, y)
    BY <1>0, <1>1 DEF Opens
  <1>3. ASSUME NEW v PROVE Holds(v)' = Holds(v)
    BY <1>0, <1>1 DEF Holds
  <1>4. ASSUME NEW n
        PROVE  CloseOf(n)' = CloseOf(n) /\ ValueAt(n)' = ValueAt(n) /\ OriginalAt(n)' = OriginalAt(n)
    BY <1>0 DEF CloseOf, ValueAt, OriginalAt
  <1>5. ASSUME NEW v, NEW o, NEW c PROVE ArgumentText(v, o, c)' = ArgumentText(v, o, c)
    BY <1>0, <1>1 DEF ArgumentText
  <1>6. ASSUME NEW v, NEW o, NEW c PROVE Filled(v, o, c)' = Filled(v, o, c)
    BY <1>5 DEF Filled
  <1>7. ASSUME NEW s, NEW v, NEW o PROVE ReadsPlaceholder(s, v, o)' = ReadsPlaceholder(s, v, o)
    BY <1>2, <1>3, <1>6 DEF ReadsPlaceholder
  <1>8. ASSUME NEW s PROVE Reads(s)' = Reads(s)
    BY <1>0, <1>4, <1>7 DEF Reads
  <1>9. After' = After
    BY <1>0, <1>8 DEF After
  <1> QED BY <1>9

LEMMA ToFollows ==
  ASSUME UNCHANGED input
  PROVE  /\ Crossed => Follows'
         /\ ~Busy' /\ Ended(buffer') => Follows'
         /\ ~stopped' /\ InStep(at', buffer', argCounter', open') => Follows'
  <1>1. After' = After /\ format' = format
    BY AfterSame DEF input
  <1>2. Crossed => Crossed'
    BY <1>1 DEF Crossed
  <1>3. Ended(buffer') => Ended(buffer)'
    BY <1>1 DEF Ended, Finished
  <1>4. InStep(at', buffer', argCounter', open') => InStep(at, buffer, argCounter, open)'
    BY <1>1 DEF InStep
  <1> QED BY <1>2, <1>3, <1>4 DEF Follows

LEMMA OneOrTwo ==
  ASSUME NEW c, NEW part, part = <<c>> \/ part = <<c, c>>
  PROVE  part[1] = c /\ (Len(part) = 2 => part[2] = c)
  OBVIOUS

LEMMA CopyFollows ==
  ASSUME NEW k, NEW around, Together(k, around), Copy
  PROVE  Follows'
  <1> DEFINE n == k + 1
             s == Reader(at, buffer, around, argCounter, FALSE, FALSE)
  <1>1. /\ Len(format) \in Nat /\ at \in 1..Len(format) /\ n \in 0..Len(format)
        /\ After[n] = Reads(s)
        /\ \A x, y : Shows(around, FALSE, x, y) = x
    BY TogetherIs
  <1>2. UNCHANGED input /\ argCounter' = argCounter /\ open' = open /\ stopped' = stopped
    BY DEF Copy
  <1>3. ~stopped /\ OpenAre(around, open) /\ around \in Seq(Entries) /\ format \in Seq(STRING)
    BY DEF Together, Busy, Text
  <1>4. ASSUME NEW p, at' = p, NEW x, buffer' = x,
               After[n] = Reader(p, x, around, argCounter, FALSE, FALSE)
        PROVE  Follows'
    <2> HIDE DEF n
    <2>1. InStep(p, x, argCounter, open)
      BY <1>1, <1>3, <1>4, Zenon DEF InStep
    <2> QED BY <1>2, <1>3, <1>4, <2>1, ToFollows
  <1>5. CASE format[at] # "{" /\ buffer' = Append(buffer, format[at]) /\ at' = at + 1
    <2>1. Reaches(s, Reader(at + 1, Shows(around, FALSE, Append(buffer, format[at]), buffer),
                            around, argCounter, FALSE, FALSE))
      BY <1>1, <1>5, ReadsChar
    <2> HIDE DEF s, n
    <2>2. After[n] = Reader(at + 1, Append(buffer, format[at]), around, argCounter, FALSE, FALSE)
      BY <1>1, <2>1, Zenon DEF Reaches
    <2> QED BY <1>4, <1>5, <2>2
  <1>6. CASE /\ SubSeq(format, at, Least(at + 1, Len(format))) \in {<<"{">>, <<"{", "{">>}
             /\ buffer' = Append(buffer, "{") /\ at' = at + 2
    <2> DEFINE hi == Least(at + 1, Len(format))
               part == SubSeq(format, at, hi)
    <2>8. Len(format) \in Nat /\ at \in 1..Len(format)
      BY <1>1, Zenon
    <2>7. buffer' = Append(buffer, "{") /\ at' = at + 2
      BY <1>6, Zenon
    <2>1. /\ hi \in Nat /\ at <= hi /\ hi <= Len(format)
          /\ hi = IF at = Len(format) THEN at ELSE at + 1
      BY <1>1 DEF Least
    <2> HIDE DEF hi
    <2>2. Len(part) = hi - at + 1 /\ \A i \in 1..(hi - at + 1) : part[i] = format[at + i - 1]
      <3>1. at \in Int /\ hi \in Int /\ 1 <= at /\ at <= hi + 1 /\ hi <= Len(format)
        BY <1>1, <2>1
      <3>2. format \in Seq(STRING)
        BY <1>3, Zenon
      <3> QED BY <3>1, <3>2, Parted
    <2>3. part = <<"{">> \/ part = <<"{", "{">>
      BY <1>6 DEF hi
    <2> HIDE DEF part
    <2>4. format[at] = "{"
      <3>1. part[1] = "{"
        BY <2>3, OneOrTwo
      <3>2. 1 \in 1..(hi - at + 1) /\ at + 1 - 1 = at
        BY <1>1, <2>1
      <3> QED BY <2>2, <3>1, <3>2
    <2>5. CASE at = Len(format)
      <3>1. Reaches(s, Reader(at + 1, Shows(around, FALSE, Append(buffer, format[at]), buffer),
                              around, argCounter, FALSE, FALSE))
        BY <1>1, <2>5, ReadsChar
      <3> DEFINE t == After[n]
      <3> HIDE DEF s, n
      <3>2. t = Reader(at + 1, Append(buffer, format[at]), around, argCounter, FALSE, FALSE)
        BY <1>1, <3>1, Zenon DEF Reaches
      <3>3. t.at = at + 1 /\ t.text = Append(buffer, format[at])
        BY <3>2 DEF Reader
      <3>4. Finished(t) /\ t.text = buffer'
        <4>1. at + 1 > Len(format)
          BY <2>5, <2>8
        <4> QED BY <2>4, <2>7, <3>3, <4>1, Zenon DEF Finished
      <3>5. Ended(buffer')
        BY <1>1, <3>4 DEF Ended
      <3>6. ~Busy'
        <4>1. at' > Len(format) /\ format' = format
          <5>1. at + 2 > Len(format)
            BY <2>5, <2>8
          <5>2. format' = format
            BY <1>2 DEF input
          <5> QED BY <2>7, <5>1, <5>2, Zenon
        <4>2. at + 2 > Len(format) /\ ~(at + 2 <= Len(format))
          BY <2>5, <2>8
        <4> QED BY <2>7, <4>1, <4>2, Zenon DEF Busy
      <3> QED BY <1>2, <3>5, <3>6, ToFollows
    <2>6. CASE at # Len(format)
      <3>1. format[at + 1] = "{"
        <4>1. part[2] = "{"
          <5>1. Len(part) = 2
            BY <1>1, <2>1, <2>2, <2>6
          <5> QED BY <2>3, <5>1, OneOrTwo
        <4>2. 2 \in 1..(hi - at + 1) /\ at + 2 - 1 = at + 1
          BY <1>1, <2>1, <2>6
        <4> QED BY <2>2, <4>1, <4>2
      <3>2. Reaches(s, Reader(at + 2, Shows(around, FALSE, Append(buffer, "{"), buffer),
                              around, argCounter, FALSE, FALSE))
        BY <1>1, <2>4, <2>6, <3>1, ReadsBrace
      <3> HIDE DEF s, n
      <3>3. After[n] = Reader(at + 2, Append(buffer, "{"), around, argCounter, FALSE, FALSE)
        BY <1>1, <3>2, Zenon DEF Reaches
      <3> QED BY <1>4, <1>6, <3>3
    <2> QED BY <2>5, <2>6
  <1> QED BY <1>5, <1>6 DEF Copy

(* At a placeholder.                                                        *)
LEMMA HolderTogether ==
  ASSUME NEW k, NEW around, Together(k, around), AtPlaceholder
  PROVE  /\ Value \in Text
         /\ Behind \in 1..(Len(format) + 2)
         /\ k + 1 \in 0..Len(format)
         /\ After[k + 1]
              = ReadsPlaceholder(Reader(Behind, buffer, around, argCounter, FALSE, FALSE),
                                 Value, Original)
  <1> DEFINE n == k + 1
             s == Reader(at, buffer, around, argCounter, FALSE, FALSE)
  <1>1. /\ Len(format) \in Nat /\ at \in 1..Len(format) /\ n \in 0..Len(format)
        /\ After[n] = Reads(s)
    BY TogetherIs
  <1>2. PlaceholderAt(at) /\ at # Len(format) /\ format \in Text
    <2>1. format[at] = "{" /\ at < Len(format) /\ format[at + 1] # "{"
      BY Zenon DEF AtPlaceholder
    <2>3. Len(format) \in Nat /\ at \in 1..Len(format)
      BY <1>1, Zenon
    <2>4. at < Len(format)
      BY <2>1, Zenon
    <2>2. at # Len(format)
      BY <2>3, <2>4
    <2> QED BY <2>1, <2>2, Zenon DEF PlaceholderAt, Together
  <1>3. CloseOf(at + 1) + 1 \in (at + 2)..(Len(format) + 2) /\ ValueAt(at + 1) \in Text
    BY <1>1, <1>2, HolderIs
  <1>4. Behind \in 1..(Len(format) + 2) /\ Value \in Text
    BY <1>1, <1>3 DEF Behind, Value
  <1>5. Reads(s) = ReadsPlaceholder(Reader(CloseOf(at + 1) + 1, buffer, around, argCounter, FALSE, FALSE),
                                    ValueAt(at + 1), OriginalAt(at + 1))
    BY <1>1, <1>2, ReadsHolder
  <1> HIDE DEF s
  <1>6. Reads(s) = ReadsPlaceholder(Reader(Behind, buffer, around, argCounter, FALSE, FALSE),
                                    Value, Original)
    BY <1>5, Zenon DEF Behind, Value, Original
  <1> QED BY <1>1, <1>4, <1>6

-----------------------------------------------------------------------------
(* The reader and the printer go on together, or the reader has crossed.    *)
LEMMA StaysTogether ==
  ASSUME NEW k, NEW around, Together(k, around), UNCHANGED input, stopped' = stopped,
         NEW blocks \in Seq(Entries), NEW x, NEW c, NEW counts, NEW n \in 0..Len(format), NEW p,
         After[n] = Reader(p, x, blocks, c, FALSE, FALSE), OpenAre(blocks, counts),
         at' = p, buffer' = x, argCounter' = c, open' = counts
  PROVE  Follows'
  <1>1. InStep(p, x, c, counts)
    BY Zenon DEF InStep
  <1>2. ~stopped'
    BY DEF Together, Busy
  <1> QED BY <1>1, <1>2, ToFollows

LEMMA StopFollows ==
  ASSUME NEW k, NEW around, Together(k, around), Stop
  PROVE  Follows'
  <1> DEFINE n == k + 1
             t == After[n]
  <1>1. /\ AtPlaceholder /\ Value = <<"-">> /\ stopped' = TRUE
        /\ UNCHANGED input /\ buffer' = buffer
    BY DEF Stop
  <1>2. /\ n \in 0..Len(format)
        /\ t = ReadsPlaceholder(Reader(Behind, buffer, around, argCounter, FALSE, FALSE),
                                Value, Original)
    BY <1>1, HolderTogether
  <1> HIDE DEF n, t
  <1>3. Plain(Value)
    <2>1. "-" # "?" /\ "-" # "/" /\ Len(<<"-">>) = 1
      OBVIOUS
    <2>2. ASSUME NEW y \in Markers PROVE ~Closes(Value, y)
      <3>1. <<y>> = <<"-">> => y = "-"
        OBVIOUS
      <3> QED BY <1>1, <2>1, <3>1 DEF Closes, Markers
    <2>3. ASSUME NEW y \in Markers PROVE ~Opens(Value, y)
      BY <1>1, <2>1 DEF Opens
    <2> QED BY <2>2, <2>3 DEF Plain
  <1>4. ShownOf(t, Behind, buffer, around, argCounter, FALSE, FALSE, Value, Original)
    <2>1. Shown(around, FALSE)
      BY TogetherIs
    <2> QED BY <1>2, <1>3, <2>1, ReadsShown, Zenon
  <1>5. t = Reader(Behind, buffer, around, argCounter, TRUE, FALSE)
    BY <1>1, <1>4, Zenon DEF ShownOf
  <1>6. t.stopped /\ t.text = buffer
    BY <1>5 DEF Reader
  <1>7. Ended(buffer')
    BY <1>1, <1>2, <1>6, Zenon DEF Ended, Finished, t
  <1>8. ~Busy'
    BY <1>1, Zenon DEF Busy
  <1> QED BY <1>1, <1>7, <1>8, ToFollows

LEMMA FillFollows ==
  ASSUME NEW k, NEW around, Together(k, around), Fill
  PROVE  Follows'
  <1> DEFINE n == k + 1
             t == After[n]
             filled == Filled(Value, Original, argCounter)
  <1>1. /\ AtPlaceholder /\ Value # <<"-">> /\ FirstChar(Value) \notin Markers
        /\ UNCHANGED input /\ open' = open /\ stopped' = stopped /\ at' = Behind
        /\ buffer' = buffer \o filled.text /\ argCounter' = filled.counter
    BY DEF Fill
  <1>2. /\ n \in 0..Len(format) /\ Value \in Text
        /\ t = ReadsPlaceholder(Reader(Behind, buffer, around, argCounter, FALSE, FALSE),
                                Value, Original)
    BY <1>1, HolderTogether
  <1> HIDE DEF n, t, filled
  <1>3. Plain(Value)
    <2>1. ASSUME NEW y \in Markers PROVE ~Closes(Value, y)
      BY <1>1, Closing
    <2>2. ASSUME NEW y \in Markers PROVE ~Opens(Value, y)
      <3>1. Opens(Value, y) => Len(Value) > 1 /\ Value[1] = y
        BY DEF Opens
      <3> QED BY <1>1, <1>2, <3>1, Opening
    <2> QED BY <2>1, <2>2 DEF Plain
  <1>4. ShownOf(t, Behind, buffer, around, argCounter, FALSE, FALSE, Value, Original)
    <2>1. Shown(around, FALSE)
      BY TogetherIs
    <2> QED BY <1>2, <1>3, <2>1, ReadsShown, Zenon
  <1>5. t = Reader(Behind, buffer \o filled.text, around, filled.counter, FALSE, FALSE)
    BY <1>1, <1>4, Zenon DEF ShownOf, filled
  <1>6. around \in Seq(Entries) /\ OpenAre(around, open)
    BY DEF Together
  <1> QED BY <1>1, <1>2, <1>5, <1>6, StaysTogether DEF t

LEMMA EndFollows ==
  ASSUME NEW k, NEW around, Together(k, around), NEW marker \in Markers, End(marker)
  PROVE  Follows'
  <1> DEFINE n == k + 1
             t == After[n]
  <1>1. /\ AtPlaceholder /\ Closes(Value, marker)
        /\ UNCHANGED input /\ argCounter' = argCounter /\ stopped' = stopped /\ at' = Behind
    BY DEF End
  <1>2. /\ n \in 0..Len(format)
        /\ t = ReadsPlaceholder(Reader(Behind, buffer, around, argCounter, FALSE, FALSE),
                                Value, Original)
    BY <1>1, HolderTogether
  <1>3. around \in Seq(Entries) /\ OpenAre(around, open)
    BY DEF Together
  <1> HIDE DEF n, t
  <1>4. EndOf(t, Behind, buffer, around, argCounter, FALSE, FALSE, marker, Original)
    BY <1>1, <1>2, ReadsEnd, Zenon
  <1>5. open[marker] = 0 <=> \A i \in DOMAIN around : around[i].marker # marker
    <2>1. open[marker] = Count(around, 1, marker)
      BY <1>3 DEF OpenAre
    <2>2. DOMAIN around = 1..Len(around)
      BY <1>3
    <2>3. Count(around, 1, marker) = 0 <=> \A i \in 1..Len(around) : around[i].marker # marker
      BY <1>3, CountIs
    <2> QED BY <2>1, <2>2, <2>3
  <1>6. CASE open[marker] = 0
    <2>1. buffer' = buffer \o Original /\ open' = open
      BY <1>6 DEF End
    <2>2. t = Reader(Behind, Shows(around, FALSE, buffer \o Original, buffer), around, argCounter,
                     FALSE, FALSE)
      BY <1>4, <1>5, <1>6, Zenon DEF EndOf
    <2>3. Shows(around, FALSE, buffer \o Original, buffer) = buffer \o Original
      BY TogetherIs
    <2>4. t = Reader(Behind, buffer \o Original, around, argCounter, FALSE, FALSE)
      BY <2>2, <2>3, Zenon
    <2> QED BY <1>1, <1>2, <1>3, <2>1, <2>4, StaysTogether DEF t
  <1>7. CASE open[marker] # 0 /\ Last(around).marker = marker
    <2> DEFINE f == Front(around)
               fewer == [open EXCEPT ![marker] = @ - 1]
    <2>1. buffer' = buffer /\ open' = fewer
      BY <1>7 DEF End
    <2>2. around # <<>>
      BY <1>5, <1>7
    <2>3. f \in Seq(Entries) /\ OpenAre(f, fewer)
      BY <1>3, <1>7, <2>2, FrontIs, OpenEnd
    <2>4. t = Reader(Behind, buffer, f, argCounter, FALSE, FALSE)
      BY <1>4, <1>5, <1>7, Zenon DEF EndOf
    <2> HIDE DEF f, fewer
    <2> QED BY <1>1, <1>2, <2>1, <2>3, <2>4, StaysTogether DEF t
  <1>8. CASE open[marker] # 0 /\ Last(around).marker # marker
    <2>1. t = Reader(Behind, buffer, around, argCounter, FALSE, TRUE)
      BY <1>4, <1>5, <1>8, Zenon DEF EndOf
    <2>2. t.crossed
      BY <2>1 DEF Reader
    <2>3. Crossed
      BY <1>2, <2>2, Zenon DEF Crossed, t
    <2> QED BY <1>1, <2>3, ToFollows
  <1> QED BY <1>6, <1>7, <1>8

LEMMA ConditionalFollows ==
  ASSUME NEW k, NEW around, Together(k, around), NEW marker \in Markers, Conditional(marker)
  PROVE  Follows'
  <1> DEFINE n == k + 1
             t == After[n]
  <1>1. /\ AtPlaceholder /\ Len(Value) > 1 /\ Value[1] = marker
        /\ UNCHANGED input /\ argCounter' = argCounter /\ stopped' = stopped
    BY DEF Conditional
  <1>2. /\ n \in 0..Len(format) /\ Value \in Text /\ Behind \in 1..(Len(format) + 2)
        /\ t = ReadsPlaceholder(Reader(Behind, buffer, around, argCounter, FALSE, FALSE),
                                Value, Original)
    BY <1>1, HolderTogether
  <1>3. around \in Seq(Entries) /\ OpenAre(around, open) /\ format \in Text /\ ArgumentsSet
    BY DEF Together
  <1>4. /\ FirstChar(Value) = marker /\ \A y : ~Closes(Value, y)
        /\ \A y : Opens(Value, y) => y = marker
    BY <1>1, <1>2, Opening
  <1> HIDE DEF n, t
  <1>5. CASE ~Opens(Value, marker)
    <2>1. buffer' = buffer \o Original /\ open' = open /\ at' = Behind
      BY <1>5 DEF Conditional
    <2>2. Plain(Value)
      BY <1>4, <1>5 DEF Plain
    <2>3. ShownOf(t, Behind, buffer, around, argCounter, FALSE, FALSE, Value, Original)
      <3>1. Shown(around, FALSE)
        BY TogetherIs
      <3> QED BY <1>2, <2>2, <3>1, ReadsShown, Zenon
    <2>4. Value # <<"-">>
      <3>1. Len(<<"-">>) = 1
        OBVIOUS
      <3>2. ~(1 > 1)
        OBVIOUS
      <3> QED BY <1>1, <3>1, <3>2, Zenon
    <2>5. t = Reader(Behind, buffer \o Original, around, argCounter, FALSE, FALSE)
      BY <1>4, <2>3, <2>4, Zenon DEF ShownOf
    <2> QED BY <1>1, <1>2, <1>3, <2>1, <2>5, StaysTogether DEF t
  <1>6. ASSUME Opens(Value, marker), NEW h \in BOOLEAN, Holds(Value) = h
        PROVE  LET e == [marker |-> marker, holds |-> h]
               IN t = Reader(Behind, buffer, Append(around, e), argCounter, FALSE, FALSE)
    <2>1. BeginOf(t, Behind, buffer, around, argCounter, FALSE, FALSE, marker, Value)
      BY <1>2, <1>6, ReadsBegin, Zenon
    <2> QED BY <1>6, <2>1, Zenon DEF BeginOf
  <1>7. CASE Opens(Value, marker) /\ Holds(Value)
    <2> DEFINE e == [marker |-> marker, holds |-> TRUE]
               longer == Append(around, e)
               more == [open EXCEPT ![marker] = @ + 1]
    <2>1. buffer' = buffer /\ open' = more /\ at' = Behind
      BY <1>7 DEF Conditional
    <2>2. Holds(Value) = TRUE
      BY <1>3, <1>7, HoldsIs
    <2>3. t = Reader(Behind, buffer, longer, argCounter, FALSE, FALSE)
      BY <1>6, <1>7, <2>2
    <2>4. longer \in Seq(Entries)
      <3>1. e \in Entries
        BY DEF Entries
      <3> HIDE DEF e
      <3> QED BY <1>3, <3>1
    <2>5. OpenAre(longer, more)
      BY <1>3, OpenBegin
    <2> HIDE DEF longer, more
    <2> QED BY <1>1, <1>2, <2>1, <2>3, <2>4, <2>5, StaysTogether DEF t
  <1>8. CASE Opens(Value, marker) /\ ~Holds(Value)
    <2> DEFINE e == [marker |-> marker, holds |-> FALSE]
               longer == Append(around, e)
    <2>1. buffer' = buffer /\ open' = open /\ at' = ConditionalEnd(Behind, marker)
      BY <1>8 DEF Conditional
    <2>2. Holds(Value) = FALSE
      BY <1>3, <1>8, HoldsIs
    <2>3. t = Reader(Behind, buffer, longer, argCounter, FALSE, FALSE)
      BY <1>6, <1>8, <2>2
    <2>4. e \in Entries
      BY DEF Entries
    <2>5. longer \in Seq(Entries) /\ Beyond(longer, around, marker, 0)
      <3>1. /\ longer \in Seq(Entries) /\ Len(longer) = Len(around) + 1
            /\ longer[Len(around) + 1] = e /\ \A i \in 1..Len(around) : longer[i] = around[i]
        <4> HIDE DEF e
        <4> QED BY <1>3, <2>4
      <3> HIDE DEF longer
      <3>2. Count(longer, Len(around) + 2, marker) = 0
        <4> DEFINE from == Len(around) + 2
        <4>1. from \in Nat /\ from..Len(longer) = {}
          BY <1>3, <3>1
        <4> HIDE DEF from
        <4>2. Count(longer, from, marker) = 0
          BY <3>1, <4>1, CountIs
        <4> QED BY <4>2 DEF from
      <3>3. Len(around) + 1 <= Len(longer)
        BY <1>3, <3>1
      <3> QED BY <3>1, <3>2, <3>3, Zenon DEF Beyond
    <2> HIDE DEF longer
    <2>6. Skipping(t, Behind, buffer, around, argCounter, marker, 0)
      BY <2>3, <2>5, Zenon DEF Skipping
    <2>7. PICK end : /\ IsScanner(end, marker)
                     /\ \A start \in 1..(Len(format) + 2) :
                          ConditionalEnd(start, marker) = end[start][0]
      BY <1>3, ScannerIs
    <2>8. Meets(end[Behind][0], buffer, around, argCounter)
      <3>1. \A i \in 1..(Len(format) + 2) : \A depth \in Nat : \A j \in 0..Len(format) :
              Skipping(After[j], i, buffer, around, argCounter, marker, depth)
                => Meets(end[i][depth], buffer, around, argCounter)
        BY <1>3, <2>7, Skips
      <3>2. 0 \in Nat
        OBVIOUS
      <3> QED BY <1>2, <2>6, <3>1, <3>2, Zenon DEF t
    <2>9. end[Behind][0] = at'
      BY <1>2, <2>1, <2>7
    <2>10. CASE \E j \in 0..Len(format) : After[j].crossed
      <3>1. Crossed
        BY <2>10, Zenon DEF Crossed
      <3> QED BY <1>1, <3>1, ToFollows
    <2>11. CASE \E j \in 0..Len(format) : After[j] = Reader(at', buffer, around, argCounter, FALSE, FALSE)
      <3>1. PICK j \in 0..Len(format) : After[j] = Reader(at', buffer, around, argCounter, FALSE, FALSE)
        BY <2>11
      <3> QED BY <1>1, <1>3, <2>1, <3>1, StaysTogether
    <2>12. CASE /\ ~(at' <= Len(format))
                /\ \E j \in 0..Len(format) : Finished(After[j]) /\ After[j].text = buffer
      <3>1. Ended(buffer')
        BY <2>1, <2>12, Zenon DEF Ended
      <3>2. ~Busy'
        BY <1>1, <2>12, Zenon DEF Busy, input
      <3> QED BY <1>1, <3>1, <3>2, ToFollows
    <2> QED BY <2>8, <2>9, <2>10, <2>11, <2>12, Zenon DEF Meets
  <1> QED BY <1>5, <1>7, <1>8

-----------------------------------------------------------------------------
LEMMA BlocksInit == InitFormat => BlocksInv
  <1> SUFFICES ASSUME InitFormat PROVE BlocksInv
    OBVIOUS
  <1>1. PICK f \in Formats : format = f.text /\ arguments \in f.arguments
    BY DEF InitFormat
  <1>2. format \in Text /\ Len(format) \in Nat
    BY <1>1, FormatAssumption DEF Text
  <1>3. ArgumentsSet
    BY <1>1, FormatAssumption DEF ArgumentsSet
  <1>4. /\ at = 1 /\ argCounter = 0 /\ open = [marker \in Markers |-> 0]
        /\ buffer = <<>> /\ ~stopped
    BY DEF InitFormat
  <1>5. <<>> \in Seq(Entries) /\ OpenAre(<<>>, open)
    <2>1. <<>> \in Seq(Entries) /\ DOMAIN <<>> = {} /\ 1..Len(<<>>) = {}
      OBVIOUS
    <2>2. \A marker : Count(<<>>, 1, marker) = 0
      BY <2>1, CountIs
    <2>3. open \in [Markers -> Nat] /\ \A marker \in Markers : open[marker] = 0
      BY <1>4
    <2> QED BY <2>1, <2>2, <2>3 DEF OpenAre
  <1>6. After[0] = Reader(at, buffer, <<>>, argCounter, FALSE, FALSE)
    BY <1>2, <1>4, AfterIs
  <1>7. InStep(at, buffer, argCounter, open)
    <2>1. 0 \in 0..Len(format)
      BY <1>2
    <2> QED BY <1>5, <1>6, <2>1, Zenon DEF InStep
  <1> QED BY <1>2, <1>3, <1>4, <1>7 DEF BlocksInv, Follows

LEMMA BlocksStep == BlocksInv /\ [NextFormat]_formatVars => BlocksInv'
  <1> SUFFICES ASSUME BlocksInv, [NextFormat]_formatVars PROVE BlocksInv'
    OBVIOUS
  <1>1. UNCHANGED input
    <2>1. CASE Copy \/ Stop \/ Fill
      BY <2>1 DEF Copy, Stop, Fill
    <2>2. CASE \E marker \in Markers : End(marker) \/ Conditional(marker)
      BY <2>2 DEF End, Conditional
    <2>3. CASE UNCHANGED formatVars
      BY <2>3 DEF formatVars
    <2> QED BY <2>1, <2>2, <2>3 DEF NextFormat
  <1>2. (format \in Text /\ ArgumentsSet)'
    BY <1>1 DEF BlocksInv, ArgumentsSet, input
  <1>3. Follows'
    <2>1. CASE Crossed
      BY <1>1, <2>1, ToFollows
    <2>2. CASE UNCHANGED formatVars
      <3>1. /\ at' = at /\ buffer' = buffer /\ argCounter' = argCounter /\ open' = open
            /\ stopped' = stopped /\ format' = format
        BY <2>2 DEF formatVars, input
      <3>2. Busy' <=> Busy
        BY <3>1 DEF Busy
      <3>3. Follows
        BY DEF BlocksInv
      <3> QED BY <1>1, <3>1, <3>2, <3>3, ToFollows DEF Follows
    <2>3. CASE NextFormat /\ ~Crossed
      <3>1. Busy
        <4>1. CASE Copy
          BY <4>1 DEF Copy
        <4>2. CASE Stop \/ Fill
          BY <4>2 DEF Stop, Fill, AtPlaceholder
        <4>3. CASE \E marker \in Markers : End(marker) \/ Conditional(marker)
          BY <4>3 DEF End, Conditional, AtPlaceholder
        <4> QED BY <2>3, <4>1, <4>2, <4>3 DEF NextFormat
      <3>2. InStep(at, buffer, argCounter, open) /\ format \in Text /\ ArgumentsSet
        BY <2>3, <3>1 DEF BlocksInv, Follows
      <3>3. PICK k \in 0..Len(format) : \E around \in Seq(Entries) :
              /\ After[k] = Reader(at, buffer, around, argCounter, FALSE, FALSE)
              /\ OpenAre(around, open)
        BY <3>2, Zenon DEF InStep
      <3>4. PICK around \in Seq(Entries) :
              /\ After[k] = Reader(at, buffer, around, argCounter, FALSE, FALSE)
              /\ OpenAre(around, open)
        BY <3>3
      <3>5. Together(k, around)
        BY <3>1, <3>2, <3>4, Zenon DEF Together
      <3>6. CASE Copy
        BY <3>5, <3>6, CopyFollows
      <3>7. CASE Stop
        BY <3>5, <3>7, StopFollows
      <3>8. CASE Fill
        BY <3>5, <3>8, FillFollows
      <3>9. ASSUME NEW marker \in Markers, End(marker) PROVE Follows'
        BY <3>5, <3>9, EndFollows
      <3>10. ASSUME NEW marker \in Markers, Conditional(marker) PROVE Follows'
        BY <3>5, <3>10, ConditionalFollows
      <3> QED BY <2>3, <3>6, <3>7, <3>8, <3>9, <3>10 DEF NextFormat
    <2> QED BY <2>1, <2>2, <2>3
  <1> QED BY <1>2, <1>3 DEF BlocksInv

(* What is printed is what the format says when its conditionals are read   *)
(* as blocks, one in the other, unless some cross (format.c:351).           *)
THEOREM BlocksAreRight == FormatSpec => []BlocksRight
  <1>1. BlocksInv => BlocksRight
    <2> SUFFICES ASSUME BlocksInv, ~Busy PROVE Reading.crossed \/ buffer = Reading.text
      BY DEF BlocksRight
    <2>1. format \in Text /\ ArgumentsSet /\ Follows
      BY DEF BlocksInv
    <2>2. CASE Crossed
      <3>1. PICK k \in 0..Len(format) : After[k].crossed
        BY <2>2 DEF Crossed
      <3>2. Keeps(After[k], Reading)
        BY <2>1, AfterKeeps
      <3> QED BY <3>1, <3>2 DEF Keeps
    <2>3. CASE Ended(buffer)
      <3>1. PICK k \in 0..Len(format) : Finished(After[k]) /\ After[k].text = buffer
        BY <2>3 DEF Ended
      <3>2. Keeps(After[k], Reading)
        BY <2>1, AfterKeeps
      <3> QED BY <3>1, <3>2 DEF Keeps
    <2>4. CASE ~stopped /\ InStep(at, buffer, argCounter, open)
      <3>1. ~(at <= Len(format))
        BY <2>4 DEF Busy
      <3>2. PICK k \in 0..Len(format) : \E around \in Seq(Entries) :
              After[k] = Reader(at, buffer, around, argCounter, FALSE, FALSE)
        BY <2>4, Zenon DEF InStep
      <3>3. PICK around \in Seq(Entries) :
              After[k] = Reader(at, buffer, around, argCounter, FALSE, FALSE)
        BY <3>2
      <3>4. After[k].at = at /\ After[k].text = buffer
        BY <3>3 DEF Reader
      <3>5. Finished(After[k])
        <4>1. ReaderAt(After[k], k) /\ Len(format) \in Nat
          BY <2>1, AfterTyped DEF Text
        <4>2. PICK q \in (k + 1)..(Len(format) + 2) : \E y : \E ar \in Seq(Entries) : \E d :
                \E stop, cross \in BOOLEAN : After[k] = Reader(q, y, ar, d, stop, cross)
          BY <4>1, Zenon DEF ReaderAt
        <4>3. After[k].at = q
          BY <4>2, Fields
        <4> QED BY <3>1, <3>4, <4>1, <4>3 DEF Finished
      <3>6. Keeps(After[k], Reading)
        BY <2>1, AfterKeeps
      <3> QED BY <3>4, <3>5, <3>6 DEF Keeps
    <2> QED BY <2>1, <2>2, <2>3, <2>4 DEF Follows
  <1> QED BY <1>1, BlocksInit, BlocksStep, PTL DEF FormatSpec
=============================================================================
