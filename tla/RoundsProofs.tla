---------------------------- MODULE RoundsProofs ----------------------------
(* What is kept from one round to the next. In the first part, the cache of *)
(* FFcache.c, for every set of entries, every dependency between their      *)
(* inits and any number of rounds. In the second, the baselines of sampled  *)
(* rates, for any modules, rounds and changes of what there is.             *)
EXTENDS ResultCache, Sampling, NumberInduction, SequenceTheorems, TLAPS

-----------------------------------------------------------------------------
(* Sequences: an element pushed at the front, as registerEntry does.        *)
LEMMA PushFront ==
  ASSUME NEW S, NEW s \in Seq(S), NEW x \in S
  PROVE  /\ <<x>> \o s \in Seq(S)
         /\ Len(<<x>> \o s) = Len(s) + 1
         /\ \A i \in 1..Len(s) + 1 :
              (<<x>> \o s)[i] = IF i = 1 THEN x ELSE s[i - 1]
  OBVIOUS

(* Sequences: the last element popped off, as when an init returns.         *)
LEMMA PopRange ==
  ASSUME NEW n \in Nat \ {0}
  PROVE  /\ n - 1 \in Int
         /\ (IF 1 <= n - 1 THEN (n - 1) - 1 + 1 ELSE 0) = n - 1
         /\ (n - 1) - 1 + 1 = n - 1
         /\ 1..n - 1 \subseteq 1..n
         /\ \A i \in 1..n - 1 : 1 + i - 1 = i
  OBVIOUS

LEMMA PopLast ==
  ASSUME NEW S, NEW s \in Seq(S), s # <<>>
  PROVE  /\ Pop(s) \in Seq(S)
         /\ Len(Pop(s)) = Len(s) - 1
         /\ \A i \in 1..Len(s) - 1 : Pop(s)[i] = s[i]
  <1> DEFINE n == Len(s)
  <1>1. n \in Nat \ {0}
    BY EmptySeq
  <1>2. \A i \in 1..n : s[i] \in S
    OBVIOUS
  <1> HIDE DEF n
  <1>3. 1 \in Int /\ n - 1 \in Int /\ \A i \in 1..n - 1 : s[i] \in S
    BY <1>1, <1>2, PopRange
  <1>4. /\ SubSeq(s, 1, n - 1) \in Seq(S)
        /\ Len(SubSeq(s, 1, n - 1)) = IF 1 <= n - 1 THEN (n - 1) - 1 + 1 ELSE 0
        /\ \A i \in 1..(n - 1) - 1 + 1 : SubSeq(s, 1, n - 1)[i] = s[1 + i - 1]
    BY <1>3, SubSeqProperties
  <1>5. /\ Len(SubSeq(s, 1, n - 1)) = n - 1
        /\ \A i \in 1..n - 1 : SubSeq(s, 1, n - 1)[i] = s[i]
    BY <1>1, <1>4, PopRange
  <1> QED BY <1>4, <1>5 DEF n, Pop

(* registerEntry keeps the list a list, adds e, and disturbs no other link. *)
LEMMA Registering ==
  ASSUME NEW e \in Entries, entries \in Seq(Entries), RegistryOK,
         registerEntry(e)
  PROVE  /\ entries' \in Seq(Entries)
         /\ Registered' = Registered \cup {e}
         /\ \A i, j \in 1..Len(entries') : entries'[i] = entries'[j] => i = j
  <1>1. CASE e \in Registered
    BY <1>1 DEF registerEntry, RegistryOK, Registered
  <1>2. CASE e \notin Registered
    <2>1. /\ entries' \in Seq(Entries)
          /\ Len(entries') = Len(entries) + 1
          /\ \A i \in 1..Len(entries) + 1 :
               entries'[i] = IF i = 1 THEN e ELSE entries[i - 1]
      BY <1>2, PushFront DEF registerEntry
    <2>2. Registered' = Registered \cup {e}
      <3>1. \A i \in 1..Len(entries) : i + 1 \in 1..Len(entries') /\ entries'[i + 1] = entries[i]
        BY <2>1
      <3>2. \A i \in 1..Len(entries') : entries'[i] \in Registered \cup {e}
        BY <2>1 DEF Registered
      <3>3. 1 \in 1..Len(entries') /\ entries'[1] = e
        BY <2>1
      <3> QED BY <3>1, <3>2, <3>3 DEF Registered
    <2>3. \A i \in 1..Len(entries) : entries[i] # e
      BY <1>2 DEF Registered
    <2>4. \A i, j \in 1..Len(entries') : entries'[i] = entries'[j] => i = j
      <3> SUFFICES ASSUME NEW i \in 1..Len(entries'), NEW j \in 1..Len(entries'),
                          entries'[i] = entries'[j], i # j
                   PROVE  FALSE
        OBVIOUS
      <3>1. CASE i = 1
        BY <3>1, <2>1, <2>3
      <3>2. CASE j = 1
        BY <3>2, <2>1, <2>3
      <3>3. CASE i # 1 /\ j # 1
        <4>1. /\ i - 1 \in 1..Len(entries) /\ j - 1 \in 1..Len(entries)
              /\ entries[i - 1] = entries[j - 1]
          BY <3>3, <2>1
        <4> QED BY <4>1 DEF RegistryOK
      <3> QED BY <3>1, <3>2, <3>3
    <2> QED BY <2>1, <2>2, <2>4
  <1> QED BY <1>1, <1>2

(* The stack after a request names the same entries in the same places.     *)
LEMMA Asking ==
  ASSUME NEW e \in Entries, stack \in Seq(Frames)
  PROVE  /\ Asked(e) \in Seq(Frames)
         /\ Len(Asked(e)) = Len(stack)
         /\ \A i \in 1..Len(stack) : Asked(e)[i].entry = stack[i].entry
  <1>1. CASE stack = <<>>
    BY <1>1 DEF Asked
  <1>2. CASE stack # <<>>
    <2>1. Len(stack) \in 1..Len(stack)
      BY <1>2, EmptySeq
    <2> DEFINE f == [stack[Len(stack)] EXCEPT !.todo = @ \ {e}]
    <2>2. stack[Len(stack)] \in Frames
      BY <2>1
    <2>3. f \in Frames /\ f.entry = stack[Len(stack)].entry
      BY <2>2 DEF Frames
    <2>4. Asked(e) = [stack EXCEPT ![Len(stack)] = f]
      BY <1>2, <2>1 DEF Asked
    <2> HIDE DEF f
    <2> QED BY <2>1, <2>3, <2>4
  <1> QED BY <1>1, <1>2

-----------------------------------------------------------------------------
(* The invariant holds when fastfetch starts: nothing was ever requested.   *)
LEMMA InitInv == Init => IInv
  BY RoundAssumption
  DEF Init, IInv, TypeOK, RegistryOK, FreshAnswers, NoRecursion,
      PartialStaysInside, SweepBehind, MarkedIsStored, MarkedIsCurrent,
      PartialIsBuilding, Registered, Building, Rounds, Values, Dropped,
      Frames

(* A request that finds the value.                                          *)
LEMMA HitInv ==
  ASSUME IInv, NEW e \in Entries, Hit(e)
  PROVE  IInv'
  <1> USE DEF IInv
  <1>1. entries' = entries /\ Registered' = Registered
    BY DEF Hit, registerEntry, RegistryOK, Registered
  <1>2. /\ stack' \in Seq(Frames)
        /\ Len(stack') = Len(stack)
        /\ \A i \in 1..Len(stack) : stack'[i].entry = stack[i].entry
    BY Asking DEF Hit, TypeOK
  <1>3. Building' = Building
    BY <1>2 DEF Building
  <1>4. UNCHANGED <<initialized, storage, round, sweep>> /\ sweep = 0
    BY DEF Hit, MayAsk
  <1>5. storage[e] \in Values /\ storage[e].round = round /\ round \in Rounds
    BY <1>4 DEF Hit, TypeOK, MarkedIsCurrent
  <1>6. CASE stack = <<>>
    <2>1. /\ shown' = [entry |-> e, builtIn |-> round, givenIn |-> round]
          /\ consulted' = consulted
      BY <1>5, <1>6 DEF Hit
    <2>2. shown' \in Shown /\ FreshAnswers'
      BY <2>1, <1>5 DEF Shown, FreshAnswers
    <2>3. TypeOK'
      BY <1>1, <1>2, <1>4, <2>1, <2>2 DEF TypeOK
    <2>4. PartialStaysInside'
      BY <2>1 DEF PartialStaysInside
    <2> QED
      BY <1>1, <1>2, <1>3, <1>4, <2>2, <2>3, <2>4
      DEF RegistryOK, NoRecursion, SweepBehind, MarkedIsStored,
          MarkedIsCurrent, PartialIsBuilding
  <1>7. CASE stack # <<>>
    <2>1. /\ consulted' = [entry |-> e, whole |-> storage[e].state = "whole",
                           within |-> e \in Building]
          /\ shown' = shown
      BY <1>7 DEF Hit
    <2>2. storage[e].state = "whole" \/ e \in Building
      BY <1>5 DEF Hit, MarkedIsStored, PartialIsBuilding, Values
    <2>3. consulted' \in Consulted /\ PartialStaysInside'
      <3> DEFINE w == storage[e].state = "whole"
                 b == e \in Building
      <3>1. consulted' = [entry |-> e, whole |-> w, within |-> b]
        BY <2>1
      <3>2. w \in BOOLEAN /\ b \in BOOLEAN /\ (w \/ b)
        BY <2>2
      <3> HIDE DEF w, b
      <3>3. consulted' \in Consulted
        BY <3>1, <3>2, Zenon DEF Consulted
      <3>4. consulted'.whole = w /\ consulted'.within = b
        BY <3>1, Zenon
      <3> QED BY <3>2, <3>3, <3>4, Zenon DEF PartialStaysInside
    <2>4. TypeOK'
      BY <1>1, <1>2, <1>4, <2>1, <2>3 DEF TypeOK
    <2>5. FreshAnswers'
      BY <2>1 DEF FreshAnswers
    <2> QED
      BY <1>1, <1>2, <1>3, <1>4, <1>7, <2>3, <2>4, <2>5
      DEF RegistryOK, NoRecursion, SweepBehind, MarkedIsStored,
          MarkedIsCurrent, PartialIsBuilding
  <1> QED BY <1>6, <1>7

(* A request that finds a stale entry: its init is entered.                 *)
LEMMA BeginInitInv ==
  ASSUME IInv, NEW e \in Entries, ffCacheBeginInit(e)
  PROVE  IInv'
  <1> USE DEF IInv
  <1> DEFINE f == [entry |-> e, todo |-> Deps[e]]
             n == Len(stack) + 1
  <1>1. /\ entries' \in Seq(Entries)
        /\ Registered' = Registered \cup {e}
        /\ \A i, j \in 1..Len(entries') : entries'[i] = entries'[j] => i = j
    BY Registering DEF ffCacheBeginInit, TypeOK
  <1>2. f \in Frames /\ f.entry = e
    BY DepsAssumption DEF Frames
  <1>3. /\ stack' \in Seq(Frames) /\ Len(stack') = n
        /\ stack'[n] = f
        /\ \A i \in 1..Len(stack) : stack'[i].entry = stack[i].entry
    <2>1. /\ Asked(e) \in Seq(Frames) /\ Len(Asked(e)) = Len(stack)
          /\ \A i \in 1..Len(stack) : Asked(e)[i].entry = stack[i].entry
      BY Asking DEF TypeOK
    <2>2. stack' = Append(Asked(e), f)
      BY DEF ffCacheBeginInit
    <2> HIDE DEF f
    <2>3. /\ stack' \in Seq(Frames) /\ Len(stack') = Len(Asked(e)) + 1
          /\ stack'[Len(Asked(e)) + 1] = f
          /\ \A i \in 1..Len(Asked(e)) : stack'[i] = Asked(e)[i]
      BY <2>1, <2>2, <1>2, AppendProperties
    <2> QED BY <2>1, <2>3
  <1>4. /\ initialized' = initialized \cup {e}
        /\ storage' = [storage EXCEPT ![e] = Partial]
        /\ UNCHANGED <<shown, consulted, round, sweep>>
        /\ e \notin initialized /\ sweep = 0
    BY DEF ffCacheBeginInit, MayAsk
  <1>5. Partial \in Values /\ Partial.state = "partial" /\ Partial.round = round
    BY RoundAssumption DEF TypeOK, Partial, Values, Rounds
  <1>6. TypeOK'
    BY <1>1, <1>3, <1>4, <1>5 DEF TypeOK
  <1>7. RegistryOK'
    BY <1>1, <1>4 DEF RegistryOK
  <1>8. Building' = Building \cup {e}
    <2>1. n \in 1..n /\ 1..n = 1..Len(stack) \cup {n} /\ Len(stack) \in Nat
      BY DEF TypeOK
    <2>2. Building' = {stack'[i].entry : i \in 1..n}
      BY <1>3 DEF Building
    <2> QED BY <2>1, <2>2, <1>2, <1>3 DEF Building
  <1>9. e \notin Building
    BY <1>4 DEF MarkedIsStored, PartialIsBuilding
  <1>10. NoRecursion'
    <2> SUFFICES ASSUME NEW i \in 1..n, NEW j \in 1..n,
                        stack'[i].entry = stack'[j].entry
                 PROVE  i = j
      BY <1>3 DEF NoRecursion
    <2>1. 1..n = 1..Len(stack) \cup {n} /\ Len(stack) \in Nat
      BY DEF TypeOK
    <2>2. \A k \in 1..Len(stack) : stack'[k].entry # e
      BY <1>3, <1>9 DEF Building
    <2>3. stack'[n].entry = e
      BY <1>2, <1>3
    <2> HIDE DEF n
    <2> QED BY <2>1, <2>2, <2>3, <1>3 DEF NoRecursion
  <1>11. FreshAnswers' /\ PartialStaysInside'
    BY <1>4 DEF FreshAnswers, PartialStaysInside
  <1>12. SweepBehind'
    <2>1. Len(entries') \in Nat /\ \A i \in 1..Len(entries') : ~(i < 0)
      BY <1>1
    <2> QED BY <1>4, <2>1 DEF SweepBehind
  <1>13. MarkedIsStored' /\ MarkedIsCurrent'
    BY <1>4, <1>5 DEF MarkedIsStored, MarkedIsCurrent, TypeOK
  <1>14. PartialIsBuilding'
    BY <1>4, <1>5, <1>8 DEF PartialIsBuilding, TypeOK
  <1> QED BY <1>6, <1>7, <1>10, <1>11, <1>12, <1>13, <1>14

(* The innermost init returns.                                              *)
LEMMA FinishInitInv ==
  ASSUME IInv, FinishInit
  PROVE  IInv'
  <1> USE DEF IInv
  <1> DEFINE n == Len(stack)
             e == stack[n].entry
  <1>1. n \in Nat \ {0} /\ n \in 1..n /\ stack[n] \in Frames
    BY EmptySeq DEF FinishInit, TypeOK
  <1>2. e \in Entries
    BY <1>1 DEF Frames
  <1>3. /\ stack' \in Seq(Frames) /\ Len(stack') = n - 1
        /\ \A i \in 1..n - 1 : stack'[i] = stack[i]
    BY PopLast DEF FinishInit, TypeOK
  <1>4. /\ UNCHANGED <<entries, initialized, round, sweep>>
        /\ storage' = [storage EXCEPT ![e] = Whole]
        /\ sweep = 0
    BY DEF FinishInit, Top, SweepBehind
  <1>5. Whole \in Values /\ Whole.state = "whole" /\ Whole.round = round
        /\ round \in Rounds
    BY RoundAssumption DEF TypeOK, Whole, Values, Rounds
  <1>6. Building' = Building \ {e} /\ e \in Building
    <2>1. \A i \in 1..n - 1 : stack[i].entry # e
      BY <1>1 DEF NoRecursion
    <2>2. 1..n = 1..n - 1 \cup {n}
      BY <1>1
    <2>3. Building' = {stack'[i].entry : i \in 1..n - 1}
      BY <1>3 DEF Building
    <2>4. Building' = {stack[i].entry : i \in 1..n - 1}
      BY <2>3, <1>3
    <2>5. Building = {stack[i].entry : i \in 1..n}
      BY DEF Building
    <2> HIDE DEF n
    <2>6. Building = {stack[i].entry : i \in 1..n - 1} \cup {stack[n].entry}
      BY <2>2, <2>5
    <2> QED BY <2>1, <2>4, <2>6
  <1>7. NoRecursion'
    <2>1. 1..n - 1 \subseteq 1..n
      BY <1>1
    <2> QED BY <2>1, <1>3 DEF NoRecursion
  <1>8. /\ shown' \in Shown \cup {None} /\ FreshAnswers'
        /\ consulted' \in Consulted \cup {None} /\ PartialStaysInside'
    <2> DEFINE a == [entry |-> e, builtIn |-> round, givenIn |-> round]
               c == [entry |-> e, whole |-> TRUE, within |-> FALSE]
    <2>1. \/ shown' = a /\ consulted' = consulted
          \/ shown' = shown /\ consulted' = c
      BY DEF FinishInit, Top
    <2>2. a \in Shown /\ a.builtIn = a.givenIn
      BY <1>2, <1>5 DEF Shown
    <2>3. c \in Consulted /\ c.whole
      BY <1>2 DEF Consulted
    <2> HIDE DEF a, c
    <2> QED BY <2>1, <2>2, <2>3 DEF TypeOK, FreshAnswers, PartialStaysInside
  <1>9. TypeOK'
    BY <1>3, <1>4, <1>5, <1>8 DEF TypeOK
  <1>10. RegistryOK' /\ SweepBehind'
    BY <1>4 DEF RegistryOK, SweepBehind, Registered, TypeOK
  <1>11. MarkedIsStored' /\ MarkedIsCurrent'
    BY <1>2, <1>4, <1>5, <1>6
    DEF MarkedIsStored, MarkedIsCurrent, PartialIsBuilding, TypeOK
  <1>12. PartialIsBuilding'
    BY <1>2, <1>4, <1>5, <1>6 DEF PartialIsBuilding, TypeOK
  <1> QED BY <1>7, <1>8, <1>9, <1>10, <1>11, <1>12

(* The sweep starts, goes on, and ends.                                     *)
LEMMA BeginSweepInv ==
  ASSUME IInv, BeginInvalidateAll
  PROVE  IInv'
  <1>1. round + 1 \in Rounds /\ Len(entries) \in Nat
    BY RoundAssumption DEF IInv, BeginInvalidateAll, TypeOK, Rounds
  <1>2. FreshAnswers' /\ PartialStaysInside'
    BY DEF IInv, BeginInvalidateAll, FreshAnswers, PartialStaysInside
  <1>3. SweepBehind'
    BY <1>1 DEF IInv, BeginInvalidateAll, SweepBehind
  <1>4. TypeOK' /\ RegistryOK'
    BY <1>1 DEF IInv, BeginInvalidateAll, TypeOK, RegistryOK, Registered
  <1> QED
    BY <1>1, <1>2, <1>3, <1>4
    DEF IInv, BeginInvalidateAll, NoRecursion, MarkedIsStored,
        MarkedIsCurrent, PartialIsBuilding, Building

LEMMA InvalidateInv ==
  ASSUME IInv, InvalidateNext
  PROVE  IInv'
  <1> DEFINE e == entries[sweep]
  <1>1. e \in Entries /\ sweep \in 1..Len(entries) /\ Len(entries) \in Nat
    BY DEF IInv, TypeOK, InvalidateNext
  <1>2. /\ initialized' = initialized \ {e}
        /\ storage' = [storage EXCEPT ![e] = IF e \in initialized THEN Dropped ELSE @]
        /\ sweep' = sweep + 1
        /\ UNCHANGED <<entries, stack, shown, consulted, round>>
    BY DEF InvalidateNext, ffCacheInvalidate
  <1>3. Dropped \in Values /\ Dropped.state = "none"
    BY RoundAssumption DEF Dropped, Values
  <1> HIDE DEF e
  <1>4. TypeOK'
    <2>1. storage' \in [Entries -> Values]
      BY <1>1, <1>2, <1>3 DEF IInv, TypeOK
    <2> QED BY <1>1, <1>2, <2>1 DEF IInv, TypeOK
  <1>5. RegistryOK' /\ NoRecursion' /\ FreshAnswers' /\ PartialStaysInside'
    BY <1>2 DEF IInv, RegistryOK, Registered, NoRecursion, FreshAnswers,
                PartialStaysInside
  <1>6. SweepBehind'
    <2>1. \A i \in 1..Len(entries) : i < sweep + 1 => i < sweep \/ i = sweep
      BY <1>1
    <2>2. entries[sweep] = e
      BY DEF e
    <2>3. sweep + 1 <= Len(entries) + 1 /\ stack = <<>>
      BY <1>1 DEF IInv, SweepBehind
    <2> QED BY <1>2, <2>1, <2>2, <2>3 DEF IInv, SweepBehind
  <1>7. MarkedIsStored' /\ MarkedIsCurrent'
    BY <1>1, <1>2, <1>3 DEF IInv, MarkedIsStored, MarkedIsCurrent, TypeOK
  <1>8. PartialIsBuilding'
    <2>1. Building = {} /\ Building' = {}
      BY <1>1, <1>2 DEF IInv, SweepBehind, Building
    <2> QED BY <1>1, <1>2, <1>3, <2>1 DEF IInv, PartialIsBuilding, TypeOK
  <1> QED BY <1>4, <1>5, <1>6, <1>7, <1>8 DEF IInv

(* When the sweep has reached the end of the list, nothing is marked.       *)
LEMMA SweepLeavesNothing ==
  ASSUME IInv, EndInvalidateAll
  PROVE  initialized = {}
  <1>1. \A i \in 1..Len(entries) : entries[i] \notin initialized
    BY DEF IInv, SweepBehind, EndInvalidateAll, TypeOK
  <1> QED BY <1>1 DEF IInv, RegistryOK, Registered

LEMMA EndSweepInv ==
  ASSUME IInv, EndInvalidateAll
  PROVE  IInv'
  <1>1. initialized = {} /\ Len(entries) \in Nat
    BY SweepLeavesNothing DEF IInv, TypeOK
  <1> QED
    BY <1>1
    DEF IInv, EndInvalidateAll, TypeOK, RegistryOK, Registered, NoRecursion,
        FreshAnswers, PartialStaysInside, SweepBehind, MarkedIsStored,
        MarkedIsCurrent, PartialIsBuilding, Building

(* Every step of the cache preserves the invariant.                         *)
LEMMA NextInv == IInv /\ [Next]_vars => IInv'
  <1> SUFFICES ASSUME IInv, [Next]_vars PROVE IInv'
    OBVIOUS
  <1>1. CASE \E e \in Entries : Hit(e) \/ ffCacheBeginInit(e)
    BY <1>1, HitInv, BeginInitInv
  <1>2. CASE FinishInit
    BY <1>2, FinishInitInv
  <1>3. CASE BeginInvalidateAll
    BY <1>3, BeginSweepInv
  <1>4. CASE InvalidateNext
    BY <1>4, InvalidateInv
  <1>5. CASE EndInvalidateAll
    BY <1>5, EndSweepInv
  <1>6. CASE UNCHANGED vars
    BY <1>6
    DEF vars, IInv, TypeOK, RegistryOK, Registered, NoRecursion,
        FreshAnswers, PartialStaysInside, SweepBehind, MarkedIsStored,
        MarkedIsCurrent, PartialIsBuilding, Building
  <1> QED BY <1>1, <1>2, <1>3, <1>4, <1>5, <1>6 DEF Next

-----------------------------------------------------------------------------
(* The inductive invariant holds in every state of every run.               *)
THEOREM Invariance == Spec => []IInv
  BY InitInv, NextInv, PTL DEF Spec

(* Every variable of the cache has its type.                                *)
THEOREM TypeCorrect == Spec => []TypeOK
  <1>1. IInv => TypeOK
    BY DEF IInv
  <1> QED BY <1>1, Invariance, PTL

(* Modules only get values of the current round.                            *)
THEOREM AnswersAreFresh == Spec => []FreshAnswers
  <1>1. IInv => FreshAnswers
    BY DEF IInv
  <1> QED BY <1>1, Invariance, PTL

(* A value that is not ready only goes to inits that run within the entry's. *)
THEOREM PartialIsPrivate == Spec => []PartialStaysInside
  <1>1. IInv => PartialStaysInside
    BY DEF IInv
  <1> QED BY <1>1, Invariance, PTL

(* The registry stays a list without repetition that holds every value in   *)
(* use.                                                                     *)
THEOREM RegistrySound == Spec => []RegistryOK
  <1>1. IInv => RegistryOK
    BY DEF IInv
  <1> QED BY <1>1, Invariance, PTL

(* No init is ever entered from within itself.                              *)
THEOREM InitsDoNotRecur == Spec => []NoRecursion
  <1>1. IInv => NoRecursion
    BY DEF IInv
  <1> QED BY <1>1, Invariance, PTL

(* Only the init of a stale entry writes to its storage, and a stale entry  *)
(* holds nothing: what the previous round built was destroyed.              *)
THEOREM NothingOverwritten == Spec => NoOverwrite
  <1> DEFINE A == \A e \in Entries :
                    (storage[e].state # "partial" /\ storage'[e].state = "partial")
                      => storage[e].state = "none"
  <1>1. IInv /\ [Next]_vars => [A]_vars
    <2> SUFFICES ASSUME IInv, [Next]_vars, NEW e \in Entries,
                        storage[e].state # "partial",
                        storage'[e].state = "partial"
                 PROVE  storage[e].state = "none"
      OBVIOUS
    <2>1. CASE \E d \in Entries : Hit(d)
      BY <2>1 DEF Hit
    <2>2. CASE \E d \in Entries : ffCacheBeginInit(d)
      <3> PICK d \in Entries : ffCacheBeginInit(d)
        BY <2>2
      <3>1. d \notin initialized /\ storage' = [storage EXCEPT ![d] = Partial]
        BY DEF ffCacheBeginInit
      <3>2. CASE d = e
        BY <3>1, <3>2 DEF IInv, MarkedIsStored
      <3>3. CASE d # e
        BY <3>1, <3>3 DEF IInv, TypeOK
      <3> QED BY <3>2, <3>3
    <2>3. CASE FinishInit
      BY <2>3 DEF FinishInit, Whole, IInv, TypeOK
    <2>4. CASE InvalidateNext
      BY <2>4 DEF InvalidateNext, ffCacheInvalidate, Dropped, IInv, TypeOK
    <2>5. CASE BeginInvalidateAll \/ EndInvalidateAll \/ UNCHANGED vars
      BY <2>5 DEF BeginInvalidateAll, EndInvalidateAll, vars
    <2> QED BY <2>1, <2>2, <2>3, <2>4, <2>5 DEF Next
  <1> QED BY <1>1, Invariance, PTL DEF Spec, NoOverwrite

-----------------------------------------------------------------------------
(* Every step of the cache is, for the modules, a build, a reuse, the start *)
(* of a round, or nothing at all.                                           *)
LEMMA PromisedInit == Init => Promise!Init
  BY DEF Init, Promise!Init, Built, Dropped

LEMMA PromisedHit ==
  ASSUME IInv, NEW e \in Entries, Hit(e)
  PROVE  [Promise!Next]_(Promise!vars)
  <1>1. /\ sweep = 0 /\ UNCHANGED <<storage, sweep, round>>
        /\ storage[e] \in Values /\ storage[e].round = round
    BY DEF Hit, MayAsk, IInv, TypeOK, MarkedIsCurrent
  <1>2. Built' = Built
    BY <1>1 DEF Built
  <1>3. CASE stack = <<>>
    <2>1. storage[e].state = "whole"
      <3>1. Building = {}
        BY <1>3 DEF Building
      <3> QED BY <3>1, <1>1 DEF Hit, IInv, MarkedIsStored, PartialIsBuilding, Values
    <2>2. Built[e] = round
      BY <1>1, <2>1 DEF Built
    <2>3. shown' = [entry |-> e, builtIn |-> round, givenIn |-> round]
      BY <1>1, <1>3 DEF Hit
    <2>4. Promise!Reuse(e)
      BY <1>1, <1>2, <2>2, <2>3 DEF Promise!Reuse
    <2> QED BY <2>4 DEF Promise!Next
  <1>4. CASE stack # <<>>
    BY <1>1, <1>2, <1>4 DEF Hit, Promise!vars
  <1> QED BY <1>3, <1>4

LEMMA PromisedBeginInit ==
  ASSUME IInv, NEW e \in Entries, ffCacheBeginInit(e)
  PROVE  UNCHANGED Promise!vars
  <1>1. /\ storage' = [storage EXCEPT ![e] = Partial] /\ sweep = 0
        /\ UNCHANGED <<sweep, round, shown>>
        /\ storage[e].state = "none" /\ storage \in [Entries -> Values]
    BY DEF ffCacheBeginInit, MayAsk, IInv, MarkedIsStored, TypeOK
  <1>2. Built' = Built
    BY <1>1 DEF Built, Partial
  <1> QED BY <1>1, <1>2 DEF Promise!vars

LEMMA PromisedFinishInit ==
  ASSUME IInv, FinishInit
  PROVE  [Promise!Next]_(Promise!vars)
  <1> DEFINE e == Top.entry
  <1>1. Len(stack) \in 1..Len(stack) /\ stack[Len(stack)] \in Frames
    BY EmptySeq DEF FinishInit, IInv, TypeOK
  <1>2. e \in Entries /\ e \in Building
    BY <1>1 DEF Top, Frames, Building
  <1>3. /\ storage' = [storage EXCEPT ![e] = Whole] /\ sweep = 0
        /\ UNCHANGED <<sweep, round>> /\ storage \in [Entries -> Values]
    BY DEF FinishInit, IInv, SweepBehind, TypeOK
  <1>4. storage[e].state = "partial"
    BY <1>2 DEF IInv, PartialIsBuilding
  <1>5. \/ shown' = [entry |-> e, builtIn |-> round, givenIn |-> round]
        \/ shown' = shown
    BY DEF FinishInit
  <1> HIDE DEF e
  <1>6. Built[e] = 0 /\ Built' = [Built EXCEPT ![e] = round]
    BY <1>2, <1>3, <1>4 DEF Built, Whole
  <1>7. Promise!Build(e)
    BY <1>3, <1>5, <1>6 DEF Promise!Build
  <1> QED BY <1>2, <1>7 DEF Promise!Next

LEMMA PromisedSweep ==
  ASSUME IInv, BeginInvalidateAll \/ InvalidateNext \/ EndInvalidateAll
  PROVE  [Promise!Next]_(Promise!vars)
  <1>1. CASE BeginInvalidateAll
    <2>1. Built' = [e \in Entries |-> 0] /\ round' = round + 1 /\ shown' = shown
      BY <1>1 DEF BeginInvalidateAll, Built
    <2> QED BY <2>1 DEF Promise!NewRound, Promise!Next
  <1>2. CASE InvalidateNext
    <2>1. sweep # 0 /\ sweep' # 0 /\ UNCHANGED <<round, shown>>
      BY <1>2 DEF InvalidateNext, IInv, TypeOK
    <2>2. Built' = Built
      BY <2>1 DEF Built
    <2> QED BY <2>1, <2>2 DEF Promise!vars
  <1>3. CASE EndInvalidateAll
    <2>1. initialized = {}
      BY <1>3, SweepLeavesNothing
    <2>2. \A e \in Entries : storage[e].state = "none"
      BY <2>1 DEF IInv, MarkedIsStored
    <2>3. sweep # 0 /\ UNCHANGED <<storage, round, shown>>
      BY <1>3 DEF EndInvalidateAll, IInv, TypeOK
    <2>4. Built' = Built
      BY <2>2, <2>3 DEF Built
    <2> QED BY <2>3, <2>4 DEF Promise!vars
  <1> QED BY <1>1, <1>2, <1>3

(* The cache of FFcache.c implements what FFcache.h promises.               *)
THEOREM Implements == Spec => KeepsPromise
  <1>1. IInv /\ [Next]_vars => [Promise!Next]_(Promise!vars)
    <2> SUFFICES ASSUME IInv, [Next]_vars PROVE [Promise!Next]_(Promise!vars)
      OBVIOUS
    <2>1. CASE UNCHANGED vars
      BY <2>1 DEF vars, Promise!vars, Built
    <2> QED
      BY <2>1, PromisedHit, PromisedBeginInit, PromisedFinishInit, PromisedSweep
      DEF Next
  <1> QED BY <1>1, PromisedInit, Invariance, PTL
          DEF Spec, KeepsPromise, Promise!Spec

-----------------------------------------------------------------------------
Types ==
  /\ program \in Programs
  /\ pc \in {"prepare", "detect", "sleep", "compare"}
  /\ idx \in Nat \ {0}
  /\ now \in Nat \ {0}
  /\ baseTime \in 0..now

(* A module at work is one that samples, and the baseline is for it.        *)
AtWork == pc \in {"sleep", "compare"} => idx <= Count /\ baseWhat = m.what

(* A baseline without a time was read by the module that sleeps.            *)
JustRead == pc = "sleep" /\ baseTime = 0 => \A i \in DOMAIN base : base[i].at = now

(* Without a `top` the baseline was taken for one of the modules.           *)
TakenFor ==
  baseTime # 0 /\ program.kind # "top" =>
    \E i \in 1..Count : baseWhat = program.modules[i].what

(* What has no time of its own was read at some time.                       *)
Slow ==
  pc = "compare" =>
    /\ Waited
    /\ baseTime = 0 => \A i \in DOMAIN base : base[i].at \in Int

Inv == Types /\ AtWork /\ JustRead /\ TakenFor /\ Slow

(* The modules of netio, and those of cpuusage, all ask for the same.       *)
Alike ==
  \A p \in Programs : p.kind # "top" =>
    \A i, j \in 1..Len(p.modules) : p.modules[i].what = p.modules[j].what
-----------------------------------------------------------------------------
LEMMA MaxOfTwo ==
  ASSUME NEW a \in Int, NEW b \in Int
  PROVE  Max({a, b}) \in {a, b} /\ Max({a, b}) >= a /\ Max({a, b}) >= b
<1>1. \E x \in {a, b} : \A y \in {a, b} : x >= y
  <2>1. CASE a >= b  BY <2>1
  <2>2. CASE ~(a >= b)  BY <2>2
  <2> QED  BY <2>1, <2>2
<1> QED  BY <1>1 DEF Max

(* The counters of a snapshot are those of now.                             *)
LEMMA SnapshotNow ==
  ASSUME NEW opt
  PROVE  \A i \in DOMAIN Snapshot(opt) : Snapshot(opt)[i].at = now
BY DEF Snapshot

LEMMA ModuleFacts ==
  ASSUME Types, idx <= Count
  PROVE  /\ idx \in 1..Count
         /\ m.wait \in Nat \ {0}
         /\ program.kind \in {"netio", "top", "cpuusage"}
BY ProgramsAssumption DEF Types, Count, m

(* What is waited for ends after what is asked, and never before now.       *)
LEMMA SleptEnough ==
  ASSUME Types, idx <= Count
  PROVE  /\ Slept \in Nat \ {0} /\ Slept >= now
         /\ IF baseTime # 0 THEN Slept - baseTime >= m.wait ELSE Slept - now >= m.wait
<1>1. m.wait \in Nat \ {0}  BY ModuleFacts
<1>2. now \in Nat \ {0} /\ baseTime \in 0..now  BY DEF Types
<1>3. CASE baseTime = 0  BY <1>1, <1>2, <1>3 DEF Slept
<1>4. CASE baseTime # 0
  <2>1. now \in Int /\ baseTime + m.wait \in Int  BY <1>1, <1>2
  <2>2. /\ Max({now, baseTime + m.wait}) \in {now, baseTime + m.wait}
        /\ Max({now, baseTime + m.wait}) >= now
        /\ Max({now, baseTime + m.wait}) >= baseTime + m.wait
    BY <2>1, MaxOfTwo
  <2> QED  BY <1>1, <1>2, <1>4, <2>2 DEF Slept
<1> QED  BY <1>3, <1>4
-----------------------------------------------------------------------------
LEMMA NotWorking ==
  ASSUME pc' \in {"prepare", "detect"}
  PROVE  AtWork' /\ JustRead' /\ Slow'
BY DEF AtWork, JustRead, Slow

LEMMA SameBaseline ==
  ASSUME TakenFor, UNCHANGED program, UNCHANGED baseline
  PROVE  TakenFor'
BY DEF TakenFor, baseline, Count

LEMMA TakenForModule ==
  ASSUME Types, idx <= Count, UNCHANGED program, baseWhat' = m.what
  PROVE  TakenFor'
<1>1. idx \in 1..Count  BY ModuleFacts
<1> QED  BY <1>1 DEF TakenFor, Count, m

LEMMA InitSound == InitSampling => Inv
BY DEF InitSampling, Inv, Types, AtWork, JustRead, TakenFor, Slow

LEMMA PreparePassInv == Inv /\ PreparePass => Inv'
<1> SUFFICES ASSUME Inv, PreparePass  PROVE Inv'  OBVIOUS
<1> USE DEF Inv
<1>1. Types'
  BY DEF PreparePass, Prepare, TakeBaseline, baseline, world, Types
<1>2. AtWork' /\ JustRead' /\ Slow'
  BY NotWorking DEF PreparePass
<1>3. TakenFor'
  <2>1. CASE UNCHANGED baseline
    BY <2>1, SameBaseline DEF PreparePass
  <2>2. CASE TakeBaseline(m)
    BY <2>2, TakenForModule DEF PreparePass, TakeBaseline
  <2> QED  BY <2>1, <2>2 DEF PreparePass, Prepare
<1> QED  BY <1>1, <1>2, <1>3

LEMMA PrintPassInv == Inv /\ PrintPass => Inv'
<1> SUFFICES ASSUME Inv, PrintPass  PROVE Inv'  OBVIOUS
<1> USE DEF Inv
<1>1. Types'  BY DEF PrintPass, baseline, Types
<1>2. AtWork' /\ JustRead' /\ Slow'  BY NotWorking DEF PrintPass
<1>3. TakenFor'  BY SameBaseline DEF PrintPass
<1> QED  BY <1>1, <1>2, <1>3

LEMMA NextRoundInv == Inv /\ NextRound => Inv'
<1> SUFFICES ASSUME Inv, NextRound  PROVE Inv'  OBVIOUS
<1> USE DEF Inv
<1>1. Types'  BY DEF NextRound, baseline, Types
<1>2. AtWork' /\ JustRead' /\ Slow'  BY NotWorking DEF NextRound
<1>3. TakenFor'  BY SameBaseline DEF NextRound
<1> QED  BY <1>1, <1>2, <1>3
-----------------------------------------------------------------------------
(* Detect either ends with the module, or goes on to sleep.                 *)
LEMMA DetectInv == Alike /\ Inv /\ Detect => Inv'
<1> SUFFICES ASSUME Alike, Inv, Detect  PROVE Inv'  OBVIOUS
<1> USE DEF Inv
<1>0. /\ idx <= Count /\ idx \in 1..Count
      /\ program.kind \in {"netio", "top", "cpuusage"}
      /\ UNCHANGED <<program, now>>
  BY ModuleFacts DEF Detect
<1>1. CASE NextModule /\ UNCHANGED baseline
  <2>1. Types'  BY <1>0, <1>1 DEF NextModule, baseline, Types
  <2>2. AtWork' /\ JustRead' /\ Slow'  BY <1>1, NotWorking DEF NextModule
  <2>3. TakenFor'  BY <1>0, <1>1, SameBaseline
  <2> QED  BY <2>1, <2>2, <2>3
<1>2. CASE NextModule /\ baseTime = 0 /\ UNCHANGED <<baseTime, baseWhat>>
  <2>1. Types'  BY <1>0, <1>2 DEF NextModule, Types
  <2>2. AtWork' /\ JustRead' /\ Slow'  BY <1>2, NotWorking DEF NextModule
  <2>3. TakenFor'  BY <1>2 DEF TakenFor
  <2> QED  BY <2>1, <2>2, <2>3
<1>3. CASE /\ ~Refused /\ ~m.once
           /\ IF baseTime = 0
              THEN IF program.kind = "cpuusage" THEN ReadCores ELSE TakeBaseline(m)
              ELSE UNCHANGED baseline
           /\ pc' = "sleep"
           /\ UNCHANGED idx
  <2>1. baseWhat' = m.what
    <3>1. CASE baseTime = 0
      BY <1>3, <3>1 DEF ReadCores, TakeBaseline
    <3>2. CASE baseTime # 0 /\ program.kind = "top"
      BY <1>3, <3>2 DEF Refused, baseline
    <3>3. CASE baseTime # 0 /\ program.kind # "top"
      <4>1. PICK i \in 1..Count : baseWhat = program.modules[i].what
        BY <3>3 DEF TakenFor
      <4>2. program.modules[i].what = program.modules[idx].what
        BY <1>0, <3>3, <4>1 DEF Alike, Types, Count
      <4> QED  BY <1>3, <3>3, <4>1, <4>2 DEF m, baseline
    <3> QED  BY <3>1, <3>2, <3>3
  <2>2. Types'
    BY <1>0, <1>3 DEF ReadCores, TakeBaseline, baseline, Types
  <2>3. AtWork'
    BY <1>0, <1>3, <2>1 DEF AtWork, Count, m
  <2>4. JustRead'
    <3>1. CASE baseTime = 0 /\ program.kind = "cpuusage"
      BY <1>0, <1>3, <3>1, SnapshotNow DEF JustRead, ReadCores
    <3>2. CASE ~(baseTime = 0 /\ program.kind = "cpuusage")
      BY <1>3, <3>2 DEF JustRead, TakeBaseline, baseline, Types
    <3> QED  BY <3>1, <3>2
  <2>5. TakenFor'  BY <1>0, <2>1, TakenForModule
  <2>6. Slow'  BY <1>3 DEF Slow
  <2> QED  BY <2>2, <2>3, <2>4, <2>5, <2>6
<1> QED  BY <1>1, <1>2, <1>3 DEF Detect

(* Who has slept has waited since the baseline, whenever that was read.     *)
LEMMA SleepInv == Inv /\ Sleep => Inv'
<1> SUFFICES ASSUME Inv, Sleep  PROVE Inv'  OBVIOUS
<1> USE DEF Inv
<1>0. /\ idx <= Count /\ baseWhat = m.what
      /\ UNCHANGED program /\ UNCHANGED baseline
  BY DEF Sleep, AtWork
<1>1. /\ Slept \in Nat \ {0} /\ Slept >= now
      /\ IF baseTime # 0 THEN Slept - baseTime >= m.wait ELSE Slept - now >= m.wait
  BY <1>0, SleptEnough
<1>2. Types'
  <2>1. now' \in {now, Slept} /\ pc' \in {"detect", "compare"} /\ idx' \in {idx, idx + 1}
    BY DEF Sleep, NextModule
  <2> QED  BY <1>0, <1>1, <2>1 DEF baseline, Types
<1>3. TakenFor'  BY <1>0, SameBaseline
<1>4. CASE NextModule
  BY <1>2, <1>3, <1>4, NotWorking DEF NextModule
<1>5. CASE now' = Slept /\ pc' = "compare" /\ UNCHANGED idx
  <2>1. AtWork' /\ JustRead'
    BY <1>0, <1>5 DEF AtWork, JustRead, Count, m, baseline
  <2>2. m' = m  BY <1>0, <1>5 DEF m
  <2>3. baseTime = 0 => \A i \in DOMAIN base : base[i].at = now
    BY DEF JustRead, Sleep
  <2>4. Waited'  BY <1>0, <1>1, <1>5, <2>2, <2>3 DEF Waited, baseline
  <2>5. Slow'  BY <1>0, <2>3, <2>4 DEF Slow, baseline, Types
  <2> QED  BY <1>2, <1>3, <2>1, <2>5
<1> QED  BY <1>4, <1>5 DEF Sleep

LEMMA ReadErrorInv == Inv /\ ReadError => Inv'
<1> SUFFICES ASSUME Inv, ReadError  PROVE Inv'  OBVIOUS
<1> USE DEF Inv
<1>0. UNCHANGED <<program, now, baseTime>> /\ pc' = "detect" /\ idx' = idx + 1
  BY DEF ReadError, NextModule, baseline
<1>1. Types'  BY <1>0 DEF Types
<1>2. AtWork' /\ JustRead' /\ Slow'  BY NotWorking DEF ReadError, NextModule
<1>3. TakenFor'  BY SameBaseline DEF ReadError
<1> QED  BY <1>1, <1>2, <1>3

LEMMA CompareInv == Inv /\ Compare => Inv'
<1> SUFFICES ASSUME Inv, Compare  PROVE Inv'  OBVIOUS
<1> USE DEF Inv
<1>0. idx <= Count /\ baseWhat = m.what  BY DEF Compare, AtWork
<1>1. program.kind \in {"netio", "top", "cpuusage"}  BY <1>0, ModuleFacts
<1>2. baseTime' \in {baseTime, now} /\ UNCHANGED baseWhat
  <2>1. CASE program.kind = "netio"
    BY <2>1 DEF Compare, CompareNetIO, baseline
  <2>2. CASE program.kind = "top"
    BY <2>2 DEF Compare, CompareTop
  <2>3. CASE program.kind = "cpuusage"
    BY <2>3 DEF Compare, CompareCPU, baseline
  <2> QED  BY <1>1, <2>1, <2>2, <2>3
<1>3. Types'  BY <1>2 DEF Compare, NextModule, Types
<1>4. AtWork' /\ JustRead' /\ Slow'  BY NotWorking DEF Compare, NextModule
<1>5. TakenFor'  BY <1>0, <1>2, TakenForModule DEF Compare
<1> QED  BY <1>3, <1>4, <1>5

LEMMA StandsStillInv == Inv /\ StandsStill => Inv'
<1> SUFFICES ASSUME Inv, StandsStill  PROVE Inv'  OBVIOUS
<1> USE DEF Inv
<1>0. /\ UNCHANGED program /\ UNCHANGED baseline
      /\ idx <= Count /\ baseWhat = m.what
  BY DEF StandsStill, AtWork
<1>1. m.wait \in Nat \ {0}  BY <1>0, ModuleFacts
<1>2. TakenFor'  BY <1>0, SameBaseline
<1>3. CASE NextModule /\ UNCHANGED now
  <2>1. Types'  BY <1>0, <1>3 DEF NextModule, baseline, Types
  <2> QED  BY <1>2, <1>3, <2>1, NotWorking DEF NextModule
<1>4. CASE now' = now + m.wait /\ UNCHANGED <<pc, idx>>
  <2>1. Types'  BY <1>0, <1>1, <1>4 DEF baseline, Types
  <2>2. AtWork' /\ JustRead'
    BY <1>0, <1>4 DEF AtWork, JustRead, Count, m, baseline, StandsStill
  <2>3. m' = m  BY <1>0, <1>4 DEF m
  <2>4. pc = "compare"  BY DEF StandsStill
  <2>5. Waited'
    <3>1. CASE baseTime # 0
      BY <1>0, <1>1, <1>4, <2>3, <2>4, <3>1 DEF Slow, Waited, Types, baseline
    <3>2. CASE baseTime = 0
      BY <1>0, <1>1, <1>4, <2>3, <2>4, <3>2 DEF Slow, Waited, Types, baseline
    <3> QED  BY <3>1, <3>2
  <2>6. Slow'  BY <1>0, <2>4, <2>5 DEF Slow, baseline
  <2> QED  BY <1>2, <2>1, <2>2, <2>6
<1> QED  BY <1>3, <1>4 DEF StandsStill

LEMMA ChangeInv == ASSUME NEW x \in Names PROVE Inv /\ Change(x) => Inv'
<1> SUFFICES ASSUME Inv, Change(x)  PROVE Inv'  OBVIOUS
<1> USE DEF Inv
<1>0. UNCHANGED <<program, now, pc, idx>> /\ UNCHANGED baseline  BY DEF Change
<1>1. Types'  BY <1>0 DEF baseline, Types
<1>2. AtWork' /\ JustRead'  BY <1>0 DEF AtWork, JustRead, Count, m, baseline
<1>3. TakenFor'  BY <1>0, SameBaseline
<1>4. Slow'  BY <1>0 DEF Slow, Waited, m, baseline
<1> QED  BY <1>1, <1>2, <1>3, <1>4

LEMMA StutterInv == Inv /\ UNCHANGED samplingVars => Inv'
<1> SUFFICES ASSUME Inv, UNCHANGED samplingVars  PROVE Inv'  OBVIOUS
<1> USE DEF Inv
<1>0. UNCHANGED <<program, now, pc, idx>> /\ UNCHANGED baseline  BY DEF samplingVars
<1>1. Types'  BY <1>0 DEF baseline, Types
<1>2. AtWork' /\ JustRead'  BY <1>0 DEF AtWork, JustRead, Count, m, baseline
<1>3. TakenFor'  BY <1>0, SameBaseline
<1>4. Slow'  BY <1>0 DEF Slow, Waited, m, baseline
<1> QED  BY <1>1, <1>2, <1>3, <1>4
-----------------------------------------------------------------------------
(* No module compares with a baseline that is younger than its waitTime, or *)
(* that was taken for something else, as long as the modules of netio, and  *)
(* those of cpuusage, ask for the same; `top` may be asked for any types    *)
(* (netio.c:45, top.c:72, cpuusage.c:30).                                   *)
THEOREM ComparesWithItsOwn == ASSUME Alike PROVE SamplingSpec => []ComparesRight
<1>1. InitSampling => Inv  BY InitSound
<1>2. Inv /\ [NextSampling]_samplingVars => Inv'
  BY PreparePassInv, PrintPassInv, NextRoundInv, DetectInv, SleepInv,
     ReadErrorInv, CompareInv, StandsStillInv, ChangeInv, StutterInv
  DEF NextSampling, Module
<1>3. Inv => ComparesRight  BY DEF Inv, Slow, AtWork, ComparesRight
<1> QED  BY <1>1, <1>2, <1>3, PTL DEF SamplingSpec
-----------------------------------------------------------------------------
(* What is listed, name by name.                                            *)
Selects(f, S) ==
  /\ f[0] = <<>> /\ \A k \in 0..Len(Order) : f[k] \in Seq(Names)
  /\ \A k \in 1..Len(Order) :
       f[k] = IF Order[k] \in S THEN Append(f[k - 1], Order[k]) ELSE f[k - 1]
  /\ Listing(S) = f[Len(Order)]

(* The function that lists them exists, ...                                 *)
LEMMA ListingIs == ASSUME NEW S PROVE \E f : Selects(f, S)
<1> DEFINE n == Len(Order)
           V == Seq(Names)
           none == <<>>
           Longer(v, k) == IF Order[k] \in S THEN Append(v, Order[k]) ELSE v
           G == [k \in 1..n |-> [v \in V |-> Longer(v, k)]]
           ValueOf(f, k) == IF k = 0 THEN <<>> ELSE Longer(f[k - 1], k)
           upTo[i \in 0..n] ==
             IF i = 0 THEN <<>>
             ELSE IF Order[i] \in S THEN Append(upTo[i - 1], Order[i]) ELSE upTo[i - 1]
<1>1. n \in Nat /\ none \in V /\ \A k \in 1..n : Order[k] \in Names
  BY OrderAssumption DEF Names
<1>2. \A k \in 1..n : \A v \in V : Longer(v, k) \in V
  BY <1>1
<1>3. PICK f \in [0..n -> V] : f[0] = none /\ \A k \in 1..n : f[k] = G[k][f[k - 1]]
  <2> HIDE DEF Longer, V, n
  <2>1. Within(G, n, V)
    BY <1>2 DEF Within
  <2> HIDE DEF G, none
  <2> QED BY <1>1, <2>1, FromTheFront
<1>4. \A k \in 1..n : k - 1 \in 0..n /\ k # 0 /\ k \in 0..n
  BY <1>1
<1> HIDE DEF Longer
<1>5. \A k \in 1..n : f[k] = Longer(f[k - 1], k)
  <2> HIDE DEF V
  <2> QED BY <1>3, <1>4
<1>6. \A k \in 0..n : f[k] = ValueOf(f, k)
  BY <1>1, <1>3, <1>5
<1>7. f = [k \in 0..n |-> ValueOf(f, k)]
  <2> HIDE DEF ValueOf, n, V
  <2> QED BY <1>3, <1>6
<1>8. upTo = [k \in 0..n |-> ValueOf(upTo, k)]
  BY <1>7 DEF Longer
<1> HIDE DEF upTo
<1>9. \A k \in 0..n : upTo[k] = ValueOf(upTo, k)
  <2> HIDE DEF ValueOf, n
  <2> QED BY <1>8
<1>10. \A k \in 1..n : upTo[k] = Longer(upTo[k - 1], k)
  BY <1>4, <1>9
<1>11. upTo[0] = <<>>
  <2>1. 0 \in 0..n
    BY <1>1
  <2> QED BY <1>9, <2>1
<1>12. \A k \in 0..n : upTo[k] \in V
  <2> DEFINE T == {k \in Nat : k <= n => upTo[k] \in V}
  <2>1. 0 \in T
    BY <1>1, <1>11
  <2>2. ASSUME NEW k \in Nat, k \in T PROVE k + 1 \in T
    <3> SUFFICES ASSUME k + 1 <= n PROVE upTo[k + 1] \in V
      OBVIOUS
    <3> HIDE DEF V
    <3>1. k + 1 \in 1..n /\ (k + 1) - 1 = k /\ upTo[k] \in V
      BY <1>1, <2>2
    <3>2. upTo[k + 1] = Longer(upTo[k], k + 1)
      BY <1>10, <3>1
    <3> QED BY <1>2, <3>1, <3>2 DEF Longer
  <2>3. Nat \subseteq T
    <3> HIDE DEF T
    <3> QED BY <2>1, <2>2, Upward
  <2> QED BY <1>1, <2>3
<1>13. Listing(S) = upTo[n]
  BY DEF Listing, upTo
<1> QED BY <1>10, <1>11, <1>12, <1>13 DEF Selects, Longer

LEMMA ListingType == ASSUME NEW S PROVE Listing(S) \in Seq(Names)
<1>1. PICK f : Selects(f, S)  BY ListingIs
<1>2. Len(Order) \in 0..Len(Order)  BY OrderAssumption
<1> QED  BY <1>1, <1>2 DEF Selects

(* ... and of two sets, one within the other, the lists differ in length,   *)
(* or not at all.                                                           *)
LEMMA ListingsAlike ==
  ASSUME NEW S, NEW T, S \subseteq T, Len(Listing(S)) = Len(Listing(T))
  PROVE  Listing(S) = Listing(T)
<1>1. PICK f : Selects(f, S)  BY ListingIs
<1>2. PICK g : Selects(g, T)  BY ListingIs
<1> DEFINE n == Len(Order)
           Alongside(k) == Len(f[k]) <= Len(g[k]) /\ (Len(f[k]) = Len(g[k]) => f[k] = g[k])
           P == {k \in Nat : k <= n => Alongside(k)}
<1>3. n \in Nat /\ \A k \in 1..n : Order[k] \in Names  BY OrderAssumption DEF Names
<1>4. 0 \in P  BY <1>1, <1>2 DEF Selects
<1>5. ASSUME NEW k \in Nat, k \in P PROVE k + 1 \in P
  <2> SUFFICES ASSUME k + 1 <= n PROVE Alongside(k + 1)
    OBVIOUS
  <2>1. k + 1 \in 1..n /\ (k + 1) - 1 = k /\ k \in 0..n /\ Alongside(k)  BY <1>3, <1>5
  <2> DEFINE x == Order[k + 1]
  <2>2. x \in Names /\ f[k] \in Seq(Names) /\ g[k] \in Seq(Names)
    BY <1>1, <1>2, <1>3, <2>1 DEF Selects
  <2>3. f[k + 1] = IF x \in S THEN Append(f[k], x) ELSE f[k]
    BY <1>1, <2>1 DEF Selects
  <2>4. g[k + 1] = IF x \in T THEN Append(g[k], x) ELSE g[k]
    BY <1>2, <2>1 DEF Selects
  <2> HIDE DEF x
  <2>5. /\ Len(Append(f[k], x)) = Len(f[k]) + 1 /\ Len(Append(g[k], x)) = Len(g[k]) + 1
        /\ Len(f[k]) \in Nat /\ Len(g[k]) \in Nat
    BY <2>2
  <2>6. CASE x \in S
    BY <2>1, <2>3, <2>4, <2>5, <2>6
  <2>7. CASE x \notin S
    BY <2>1, <2>3, <2>4, <2>5, <2>7
  <2> QED  BY <2>6, <2>7
<1>6. Nat \subseteq P
  <2> HIDE DEF P
  <2> QED  BY <1>4, <1>5, Upward
<1>7. Alongside(n)  BY <1>3, <1>6
<1> QED  BY <1>1, <1>2, <1>7 DEF Selects
-----------------------------------------------------------------------------
(* What netio and top compare was all read at baseTime, until an interface  *)
(* took the place of another.                                               *)
Timed == program.kind \in {"netio", "top"}
Listed == DOMAIN base = 1..Len(base)
OfOneMoment ==
  "name changed" \notin said => \A i \in DOMAIN base : base[i].at = baseTime
BornOnce == program.kind = "netio" => \A i \in DOMAIN base : base[i].born = 1

Rates == Timed /\ Listed /\ OfOneMoment /\ BornOnce /\ RatesRight

LEMMA SnapshotIs ==
  ASSUME NEW opt
  PROVE  /\ DOMAIN Snapshot(opt) = 1..Len(Snapshot(opt))
         /\ program.kind # "top" =>
              \A i \in DOMAIN Snapshot(opt) : Snapshot(opt)[i].born = 1
         /\ Len(Snapshot(opt)) = Len(Listing(There(opt)))
         /\ \A i \in DOMAIN Snapshot(opt) : Snapshot(opt)[i].name = Listing(There(opt))[i]
<1> DEFINE there == Listing(There(opt))
<1>1. Len(there) \in Nat
  <2>1. there \in Seq(Names)  BY ListingType
  <2> HIDE DEF there
  <2> QED  BY <2>1
<1>2. Snapshot(opt)
        = [i \in 1..Len(there) |->
             [name |-> there[i], born |-> Incarnation(there[i]), at |-> now]]
  BY DEF Snapshot
<1> HIDE DEF there
<1>3. DOMAIN Snapshot(opt) = 1..Len(Snapshot(opt)) /\ Len(Snapshot(opt)) = Len(there)
  BY <1>1, <1>2
<1>4. Len(Snapshot(opt)) = Len(Listing(There(opt)))  BY <1>3 DEF there
<1>5. \A i \in DOMAIN Snapshot(opt) : Snapshot(opt)[i].name = Listing(There(opt))[i]
  <2>1. \A i \in DOMAIN Snapshot(opt) : Snapshot(opt)[i].name = there[i]  BY <1>2
  <2> QED  BY <2>1 DEF there
<1>6. program.kind # "top" => \A i \in DOMAIN Snapshot(opt) : Snapshot(opt)[i].born = 1
  BY <1>2 DEF Incarnation
<1> QED  BY <1>3, <1>4, <1>5, <1>6, Zenon

(* The baseline is kept, or taken.                                          *)
LEMMA KeptOrTaken ==
  ASSUME Rates, NEW opt, UNCHANGED baseline \/ TakeBaseline(opt),
         UNCHANGED program, said \subseteq said'
  PROVE  Timed' /\ Listed' /\ OfOneMoment' /\ BornOnce'
<1>1. Timed'  BY DEF Rates, Timed
<1>2. CASE UNCHANGED baseline
  BY <1>1, <1>2 DEF Rates, Listed, OfOneMoment, BornOnce, baseline
<1>3. CASE base' = <<>>
  BY <1>1, <1>3 DEF Listed, OfOneMoment, BornOnce
<1>4. CASE base' = Snapshot(opt) /\ baseTime' = now
  <2>1. Listed' /\ BornOnce'  BY <1>4, SnapshotIs DEF Listed, BornOnce
  <2>2. OfOneMoment'  BY <1>4, SnapshotNow DEF OfOneMoment
  <2> QED  BY <1>1, <2>1, <2>2
<1> QED  BY <1>2, <1>3, <1>4 DEF TakeBaseline

(* No rate is right or wrong by anything but `result` and `said`.           *)
LEMMA NothingNew ==
  ASSUME Rates, UNCHANGED program, said \subseteq said',
         result'.rates \in {{}, result.rates}
  PROVE  RatesRight'
BY DEF Rates, Timed, RatesRight

LEMMA FailSays ==
  ASSUME NEW error, Fail(error)
  PROVE  result'.rates = {} /\ said \subseteq said'
BY DEF Fail

LEMMA CompareNetIORates ==
  ASSUME Rates, NEW second, CompareNetIO(second), UNCHANGED <<program, now>>,
         program.kind = "netio",
         DOMAIN second = 1..Len(second),
         \A i \in DOMAIN second : second[i].at = now /\ second[i].born = 1
  PROVE  Rates'
<1> DEFINE differ == {i \in 1..Len(base) : base[i].name # second[i].name}
           equal == IF differ = {} THEN Len(base) ELSE Min(differ) - 1
<1>0. Timed'  BY DEF Rates, Timed
<1>1. CASE Len(second) # Len(base)
  <2>1. Fail("different number") /\ UNCHANGED baseline
    BY <1>1 DEF CompareNetIO
  <2>2. result'.rates = {} /\ said \subseteq said'  BY <2>1, FailSays
  <2> QED  BY <2>1, <2>2, KeptOrTaken, NothingNew DEF Rates
<1>2. CASE Len(second) = Len(base)
  <2>1. base' = [i \in 1..Len(base) |-> IF i <= equal THEN second[i] ELSE base[i]]
    BY <1>2 DEF CompareNetIO
  <2>2. Len(base) \in Nat /\ DOMAIN base = 1..Len(base)  BY <1>2 DEF Rates, Listed
  <2> HIDE DEF equal
  <2>3. Listed'  BY <2>1, <2>2 DEF Listed
  <2>4. BornOnce'  BY <1>2, <2>1, <2>2 DEF BornOnce, Rates
  <2>5. CASE differ # {}
    <3>1. "name changed" \in said' 
      BY <1>2, <2>5 DEF CompareNetIO, Fail
    <3> QED  BY <1>0, <2>3, <2>4, <3>1 DEF Rates, OfOneMoment, RatesRight
  <2>6. CASE differ = {}
    <3>1. /\ Report({Rate(base[i], second[i]) : i \in 1..Len(base)})
          /\ baseTime' = now
      BY <1>2, <2>6 DEF CompareNetIO
    <3>2. equal = Len(base)  BY <2>6 DEF equal
    <3>3. \A i \in 1..Len(base) : base'[i] = second[i]
      BY <2>1, <2>2, <3>2
    <3>4. OfOneMoment'
      BY <1>2, <2>1, <3>1, <3>3 DEF OfOneMoment
    <3>5. RatesRight'
      <4> SUFFICES ASSUME "name changed" \notin said,
                          NEW i \in 1..Len(base)
                   PROVE  LET r == Rate(base[i], second[i])
                          IN r.same /\ r.to - r.since = r.over
        BY <3>1 DEF Report, RatesRight
      <4>1. base[i].name = second[i].name  BY <2>6
      <4>2. base[i].born = 1 /\ base[i].at = baseTime
        BY <2>2 DEF Rates, BornOnce, OfOneMoment
      <4>3. second[i].born = 1  BY <1>2
      <4> QED  BY <4>1, <4>2, <4>3 DEF Rate
    <3> QED  BY <1>0, <2>3, <2>4, <3>4, <3>5 DEF Rates
  <2> QED  BY <2>5, <2>6
<1> QED  BY <1>1, <1>2

LEMMA CompareTopRates ==
  ASSUME Rates, NEW second, CompareTop(second), UNCHANGED <<program, now>>,
         program.kind = "top",
         DOMAIN second = 1..Len(second),
         \A i \in DOMAIN second : second[i].at = now
  PROVE  Rates'
<1>1. Timed' /\ Listed' /\ BornOnce' /\ OfOneMoment'
  BY DEF CompareTop, Report, Rates, Timed, Listed, BornOnce, OfOneMoment
<1>2. RatesRight'
  <2> SUFFICES ASSUME "name changed" \notin said, NEW p \in Pairs(second)
               PROVE  LET r == Rate(p[1], p[2])
                      IN r.same /\ r.to - r.since = r.over
    BY DEF CompareTop, Report, RatesRight
  <2>1. p[1].name = p[2].name /\ p[1].born = p[2].born  BY DEF Pairs
  <2>2. PICK i \in DOMAIN base : p[1] = base[i]  BY DEF Pairs, Range
  <2>3. p[1].at = baseTime  BY <2>2 DEF Rates, OfOneMoment
  <2> QED  BY <2>1, <2>3 DEF Rate
<1> QED  BY <1>1, <1>2 DEF Rates

LEMMA RatesInit ==
  ASSUME program.kind # "cpuusage", InitSampling
  PROVE  Rates
BY ProgramsAssumption
DEF InitSampling, Rates, Timed, Listed, OfOneMoment, BornOnce, RatesRight

LEMMA RatesNext == ASSUME Rates, [NextSampling]_samplingVars PROVE Rates'
<1>1. ASSUME UNCHANGED <<program, result, said>>,
             UNCHANGED baseline \/ TakeBaseline(m)
      PROVE  Rates'
  BY <1>1, KeptOrTaken, NothingNew DEF Rates
<1>2. ASSUME NEW error, Fail(error), UNCHANGED program, UNCHANGED baseline
      PROVE  Rates'
  <2>1. result'.rates = {} /\ said \subseteq said'  BY <1>2, FailSays
  <2> QED  BY <1>2, <2>1, KeptOrTaken, NothingNew DEF Rates
<1>3. CASE PreparePass
  BY <1>1, <1>3 DEF PreparePass, Prepare
<1>4. CASE PrintPass \/ NextRound \/ (\E x \in Names : Change(x)) \/ UNCHANGED samplingVars
  BY <1>1, <1>4 DEF PrintPass, NextRound, Change, samplingVars
<1>5. CASE Detect
  <2>0. UNCHANGED program /\ program.kind # "cpuusage"
    BY <1>5 DEF Detect, Rates, Timed
  <2>1. CASE Fail("different showTypes") /\ UNCHANGED baseline
    BY <1>2, <2>0, <2>1
  <2>2. CASE Fail("not readable") /\ UNCHANGED baseline
    BY <1>2, <2>0, <2>2
  <2>3. CASE Report({}) /\ UNCHANGED baseline
    <3>1. result'.rates = {} /\ said \subseteq said'  BY <2>3 DEF Report
    <3> QED  BY <2>0, <2>3, <3>1, KeptOrTaken, NothingNew DEF Rates
  <2>4. CASE /\ UNCHANGED baseline \/ TakeBaseline(m)
             /\ UNCHANGED <<result, said>>
    BY <1>1, <2>0, <2>4
  <2> QED  BY <1>5, <2>0, <2>1, <2>2, <2>3, <2>4 DEF Detect
<1>6. CASE Sleep
  <2>1. UNCHANGED program /\ UNCHANGED baseline  BY <1>6 DEF Sleep
  <2> QED  BY <1>1, <1>2, <1>6, <2>1 DEF Sleep
<1>7. CASE ReadError
  BY <1>2, <1>7 DEF ReadError
<1>8. CASE Compare
  <2>1. UNCHANGED <<program, now>>  BY <1>8 DEF Compare
  <2>2. CASE program.kind = "netio"
    <3>1. CompareNetIO(Snapshot(m))  BY <1>8, <2>2 DEF Compare
    <3> QED  BY <2>1, <2>2, <3>1, SnapshotIs, SnapshotNow, CompareNetIORates
  <2>3. CASE program.kind = "top"
    <3>1. CompareTop(Snapshot(m))  BY <1>8, <2>3 DEF Compare
    <3> QED  BY <2>1, <2>3, <3>1, SnapshotIs, SnapshotNow, CompareTopRates
  <2> QED  BY <2>2, <2>3 DEF Rates, Timed
<1>9. CASE StandsStill
  BY <1>9 DEF StandsStill, Rates, Timed
<1> QED
  BY <1>3, <1>4, <1>5, <1>6, <1>7, <1>8, <1>9 DEF NextSampling, Module

-----------------------------------------------------------------------------
(* Of cores only the number is compared. Until the second change, those of  *)
(* the baseline are those that there are, or there is one more or less.     *)
Online == {x \in Names : up[x] # 0}
SetOfCores(S) ==
  /\ Len(base) = Len(Listing(S)) /\ \A i \in DOMAIN base : base[i].name = Listing(S)[i]
  /\ S \subseteq Online \/ Online \subseteq S
  /\ changes = 0 => S = Online
CoresKnown == base = <<>> \/ changes > 1 \/ \E S : SetOfCores(S)
NeverBorn == \A i \in DOMAIN base : base[i].born = 1
Machine ==
  program.kind = "cpuusage" /\ changes \in Nat /\ up \in [Names -> {0, 1}]

Cores == Machine /\ Listed /\ NeverBorn /\ CoresKnown /\ RatesRight

(* The counters are those that were read, or they are read again.           *)
LEMMA CoresRead ==
  ASSUME Cores, NEW opt, UNCHANGED <<program, world>>,
         base' = base \/ base' = <<>> \/ base' = Snapshot(opt)
  PROVE  Machine' /\ Listed' /\ NeverBorn' /\ CoresKnown'
<1>1. Machine'  BY DEF Cores, Machine, world
<1>2. Online' = Online /\ UNCHANGED <<up, changes>>  BY DEF Online, world
<1>3. CASE base' = base
  <2>1. ASSUME NEW S, SetOfCores(S) PROVE SetOfCores(S)'
    BY <1>2, <1>3, <2>1 DEF SetOfCores
  <2> QED  BY <1>1, <1>2, <1>3, <2>1 DEF Cores, Listed, NeverBorn, CoresKnown
<1>4. CASE base' = <<>>
  BY <1>1, <1>4 DEF Listed, NeverBorn, CoresKnown
<1>5. CASE base' = Snapshot(opt)
  <2>1. There(opt) = Online
    BY DEF Cores, Machine, There, AskedFor, Online
  <2>2. SetOfCores(Online)'
    BY <1>2, <1>5, <2>1, SnapshotIs DEF SetOfCores
  <2>3. Listed' /\ NeverBorn'
    BY <1>5, SnapshotIs DEF Listed, NeverBorn, Cores, Machine
  <2> QED  BY <1>1, <2>2, <2>3 DEF CoresKnown
<1> QED  BY <1>3, <1>4, <1>5

(* A rate that was right stays right.                                       *)
LEMMA NoNewRates ==
  ASSUME Cores, UNCHANGED program, changes' \in Nat, changes' >= changes,
         said \subseteq said', result'.rates \in {{}, result.rates}
  PROVE  RatesRight'
<1>0. changes > 1 => changes' > 1
  <2>1. \A i, j \in Nat : j >= i /\ i > 1 => j > 1  OBVIOUS
  <2>2. changes \in Nat  BY DEF Cores, Machine
  <2> QED  BY <2>1, <2>2, Zenon
<1> SUFFICES ASSUME "name changed" \notin said', NEW r \in result'.rates
             PROVE  (r.same \/ changes' > 1) /\ r.to - r.since = r.over
  BY DEF RatesRight, Cores, Machine
<1>1. "name changed" \notin said /\ r \in result.rates  OBVIOUS
<1>2. (r.same \/ changes > 1) /\ r.to - r.since = r.over
  BY <1>1 DEF Cores, RatesRight
<1> QED  BY <1>0, <1>2, Zenon

LEMMA CompareCPURates ==
  ASSUME Cores, NEW opt, CompareCPU(Snapshot(opt)), UNCHANGED <<program, world, now>>
  PROVE  Cores'
<1> DEFINE second == Snapshot(opt)
<1>0. UNCHANGED changes /\ changes \in Nat  BY DEF world, Cores, Machine
<1>1. CASE Len(second) # Len(base)
  <2>1. Fail("different number") /\ UNCHANGED baseline  BY <1>1 DEF CompareCPU
  <2>2. result'.rates = {} /\ said \subseteq said'  BY <2>1, FailSays
  <2>3. RatesRight'  BY <1>0, <2>2, NoNewRates
  <2> QED  BY <2>1, <2>3, CoresRead DEF baseline, Cores
<1>2. CASE Len(second) = Len(base)
  <2> DEFINE RateOf(i) == [Rate(base[i], second[i]) EXCEPT !.over = now - base[i].at]
  <2>1. /\ Report({RateOf(i) : i \in 1..Len(base)})
        /\ base' = second
    BY <1>2 DEF CompareCPU
  <2>2. Machine' /\ Listed' /\ NeverBorn' /\ CoresKnown'  BY <2>1, CoresRead
  <2>3. \A i \in 1..Len(base) : i \in DOMAIN base /\ i \in DOMAIN second
    BY <1>2, SnapshotIs DEF Cores, Listed
  <2>4. ASSUME NEW i \in 1..Len(base), ~(changes > 1)
        PROVE  base[i].name = second[i].name
    <3>1. PICK S : SetOfCores(S)
      <4>1. base # <<>>  BY <2>3
      <4> QED  BY <2>4, <4>1 DEF Cores, CoresKnown
    <3>2. There(opt) = Online
      BY DEF Cores, Machine, There, AskedFor, Online
    <3>3. Len(Listing(S)) = Len(Listing(Online))
      BY <1>2, <3>1, <3>2, SnapshotIs DEF SetOfCores
    <3>4. Listing(S) = Listing(Online)
      BY <3>1, <3>3, ListingsAlike DEF SetOfCores
    <3> QED  BY <2>3, <3>1, <3>2, <3>4, SnapshotIs DEF SetOfCores
  <2>5. ASSUME NEW i \in 1..Len(base)
        PROVE  /\ RateOf(i).same \/ changes > 1
               /\ RateOf(i).to - RateOf(i).since = RateOf(i).over
    <3>1. RateOf(i).to = now /\ RateOf(i).since = base[i].at
          /\ RateOf(i).over = now - base[i].at
          /\ RateOf(i).same = (base[i].name = second[i].name /\ base[i].born = second[i].born)
      BY DEF Rate
    <3>2. base[i].born = 1 /\ second[i].born = 1
      BY <2>3, SnapshotIs DEF Cores, NeverBorn, Machine
    <3> HIDE DEF RateOf
    <3> QED  BY <2>4, <3>1, <3>2
  <2>6. RatesRight'
    <3> SUFFICES ASSUME NEW r \in result'.rates
                 PROVE  (r.same \/ changes' > 1) /\ r.to - r.since = r.over
      BY DEF RatesRight, Cores, Machine
    <3>1. PICK i \in 1..Len(base) : r = RateOf(i)  BY <2>1 DEF Report
    <3> HIDE DEF RateOf
    <3> QED  BY <1>0, <2>5, <3>1
  <2> QED  BY <2>2, <2>6 DEF Cores
<1> QED  BY <1>1, <1>2

(* A core more or less.                                                     *)
LEMMA CoreChanges == ASSUME Cores, NEW x \in Names, Change(x) PROVE Cores'
<1>1. /\ UNCHANGED <<program, base, result, said>> /\ changes' = changes + 1
      /\ up' = [up EXCEPT ![x] = IF @ # 0 THEN 0 ELSE 1]
      /\ changes \in Nat /\ up \in [Names -> {0, 1}] /\ program.kind = "cpuusage"
  BY DEF Change, Cores, Machine, baseline
<1>2. Machine'  BY <1>1 DEF Machine
<1>3. Listed' /\ NeverBorn'  BY <1>1 DEF Cores, Listed, NeverBorn
<1>4. RatesRight'  BY <1>1, NoNewRates
<1>5. Online \subseteq Online' \/ Online' \subseteq Online
  <2>1. \A y \in Names : y # x => up'[y] = up[y]  BY <1>1
  <2>2. CASE up[x] # 0  BY <2>1, <2>2 DEF Online
  <2>3. CASE up[x] = 0  BY <2>1, <2>3 DEF Online
  <2> QED  BY <2>2, <2>3
<1>6. CoresKnown'
  <2>1. CASE base = <<>>  BY <1>1, <2>1 DEF CoresKnown
  <2>2. CASE changes # 0  BY <1>1, <2>2 DEF CoresKnown
  <2>3. CASE base # <<>> /\ changes = 0
    <3>1. PICK S : SetOfCores(S)  BY <2>3 DEF Cores, CoresKnown
    <3>2. SetOfCores(S)'  BY <1>1, <1>5, <2>3, <3>1 DEF SetOfCores
    <3> QED  BY <3>2 DEF CoresKnown
  <2> QED  BY <2>1, <2>2, <2>3
<1> QED  BY <1>2, <1>3, <1>4, <1>6 DEF Cores

LEMMA CoresInit ==
  ASSUME InitSampling, program.kind = "cpuusage" PROVE Cores
BY DEF InitSampling, Cores, Machine, Listed, NeverBorn, CoresKnown, RatesRight

LEMMA CoresNext == ASSUME Cores, [NextSampling]_samplingVars PROVE Cores'
<1>1. ASSUME UNCHANGED <<program, world>>, said \subseteq said',
             base' = base \/ base' = <<>> \/ base' = Snapshot(m),
             result'.rates \in {{}, result.rates}
      PROVE  Cores'
  <2>1. changes' = changes /\ changes \in Nat  BY <1>1 DEF world, Cores, Machine
  <2>2. RatesRight'  BY <1>1, <2>1, NoNewRates
  <2> QED  BY <1>1, <2>2, CoresRead DEF Cores
<1>2. \A error : Fail(error) => result'.rates = {} /\ said \subseteq said'
  BY FailSays
<1>3. CASE PreparePass
  <2>1. base' = base \/ base' = <<>> \/ base' = Snapshot(m)
    BY <1>3 DEF PreparePass, Prepare, TakeBaseline, baseline
  <2> QED  BY <1>1, <1>3, <2>1 DEF PreparePass
<1>4. CASE PrintPass \/ NextRound
  BY <1>1, <1>4 DEF PrintPass, NextRound, baseline
<1>5. CASE UNCHANGED samplingVars
  BY <1>1, <1>5 DEF samplingVars, baseline
<1>6. CASE Detect
  <2>1. base' = base \/ base' = <<>> \/ base' = Snapshot(m)
    BY <1>6 DEF Detect, ReadCores, TakeBaseline, baseline
  <2>2. said \subseteq said' /\ result'.rates \in {{}, result.rates}
    <3>1. CASE UNCHANGED <<result, said>>  BY <3>1
    <3>2. CASE Report({})  BY <3>2 DEF Report
    <3>3. CASE Fail("different showTypes") \/ Fail("not readable")  BY <1>2, <3>3
    <3> QED  BY <1>6, <3>1, <3>2, <3>3 DEF Detect
  <2> QED  BY <1>1, <1>6, <2>1, <2>2 DEF Detect
<1>7. CASE Sleep
  BY <1>1, <1>2, <1>7 DEF Sleep, baseline
<1>8. CASE ReadError
  BY <1>1, <1>2, <1>8 DEF ReadError, baseline
<1>9. CASE Compare
  BY <1>9, CompareCPURates DEF Compare, Cores, Machine
<1>10. CASE StandsStill
  BY <1>1, <1>2, <1>10 DEF StandsStill, baseline
<1>11. CASE \E x \in Names : Change(x)
  BY <1>11, CoreChanges
<1> QED
  BY <1>3, <1>4, <1>5, <1>6, <1>7, <1>8, <1>9, <1>10, <1>11 DEF NextSampling, Module

(* A rate is what one thing did, divided by the time it had for that        *)
(* (netio.c:72, top.c:149, cpuusage.c:64), until the name of an interface   *)
(* has changed, and for cores until the second change: for any modules and  *)
(* errors of reading, whatever comes and goes.                              *)
THEOREM RatesAreRight == SamplingSpec => []RatesRight
<1>1. InitSampling => Rates \/ Cores  BY RatesInit, CoresInit
<1>2. (Rates \/ Cores) /\ [NextSampling]_samplingVars => (Rates \/ Cores)'
  BY RatesNext, CoresNext
<1>3. Rates \/ Cores => RatesRight  BY DEF Rates, Cores
<1> QED  BY <1>1, <1>2, <1>3, PTL DEF SamplingSpec
=============================================================================
