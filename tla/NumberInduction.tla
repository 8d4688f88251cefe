--------------------------- MODULE NumberInduction ---------------------------
(* Induction over the numbers, and the functions that are defined by it,    *)
(* for provers that take no operator as a parameter: a property is a set of *)
(* numbers, and a step is a function.                                       *)
EXTENDS Integers, WellFoundedInduction, TLAPS

(* Induction over the numbers, as a property of sets of them.               *)
LEMMA LeastElement ==
  ASSUME NEW T \in SUBSET Nat, T # {}
  PROVE  \E m \in T : \A k \in T : m <= k
  <1> DEFINE R == {pair \in Nat \X Nat : pair[1] < pair[2]}
  <1>1. OpToRel(<, Nat) = R
    BY Zenon DEF OpToRel
  <1>2. IsWellFoundedOn(R, Nat)
    BY <1>1, NatLessThanWellFounded, Zenon
  <1>3. \A i, j \in Nat : i < j => <<i, j>> \in R
    OBVIOUS
  <1> HIDE DEF R
  <1>4. T \subseteq Nat
    OBVIOUS
  <1>5. PICK m \in T : \A k \in T : <<k, m>> \notin R
    BY <1>2, <1>4, WFMin, Zenon
  <1>6. \A k \in T : ~(k < m)
    BY <1>3, <1>4, <1>5, Zenon
  <1>7. m \in Nat /\ \A k \in T : k \in Nat
    BY <1>4
  <1> QED BY <1>6, <1>7

(* What holds of 0, and of a successor when it holds of the number, ...     *)
LEMMA Upward ==
  ASSUME NEW S, 0 \in S, \A k \in Nat : k \in S => k + 1 \in S
  PROVE  Nat \subseteq S
  <1> SUFFICES ASSUME Nat \ S # {} PROVE FALSE
    OBVIOUS
  <1>1. PICK m \in Nat \ S : \A k \in Nat \ S : m <= k
    <2> DEFINE T == Nat \ S
    <2>1. T \in SUBSET Nat /\ T # {}
      OBVIOUS
    <2> HIDE DEF T
    <2>2. \E m \in T : \A k \in T : m <= k
      BY <2>1, LeastElement
    <2> QED BY <2>2 DEF T
  <1>2. m # 0 /\ m - 1 \in Nat
    BY <1>1
  <1>3. m - 1 \in S
    BY <1>1, <1>2
  <1>4. (m - 1) + 1 \in S
    BY <1>2, <1>3
  <1> QED BY <1>1, <1>2, <1>4

(* ... or of each number when it holds of those above it, holds of all.     *)
LEMMA Downward ==
  ASSUME NEW m \in Nat, NEW S,
         \A p \in 1..m : (\A q \in (p + 1)..m : q \in S) => p \in S
  PROVE  \A p \in 1..m : p \in S
  <1> DEFINE T == {k \in Nat : k <= m => \A p \in (m - k + 1)..m : p \in 1..m => p \in S}
  <1>1. 0 \in T
    OBVIOUS
  <1>2. ASSUME NEW k \in Nat, k \in T PROVE k + 1 \in T
    <2> SUFFICES ASSUME k + 1 <= m, NEW p \in (m - (k + 1) + 1)..m, p \in 1..m PROVE p \in S
      OBVIOUS
    <2>1. \A q \in (m - k + 1)..m : q \in 1..m => q \in S
      BY <1>2
    <2>2. \A q \in (p + 1)..m : q \in (m - k + 1)..m /\ q \in 1..m
      OBVIOUS
    <2> QED BY <2>1, <2>2
  <1> HIDE DEF T
  <1>3. m \in T
    BY <1>1, <1>2, Upward
  <1> QED BY <1>3 DEF T

Within(G, m, V) == G \in [1..m -> [V -> V]]

(* A function of a number and of its own value before it, and one of its own*)
(* value at some place behind, exist: so do those that are defined by them. *)
LEMMA FromTheFront ==
  ASSUME NEW V, NEW a \in V, NEW m \in Nat, NEW G, Within(G, m, V)
  PROVE  \E f \in [0..m -> V] : f[0] = a /\ \A k \in 1..m : f[k] = G[k][f[k - 1]]
  <1> DEFINE Right(f, j) == f[0] = a /\ \A k \in 1..j : f[k] = G[k][f[k - 1]]
             T == {j \in Nat : j <= m => \E f \in [0..m -> V] : Right(f, j)}
  <1>1. 0 \in T
    <2>1. [k \in 0..m |-> a] \in [0..m -> V] /\ Right([k \in 0..m |-> a], 0)
      OBVIOUS
    <2> QED BY <2>1
  <1>2. ASSUME NEW j \in Nat, j \in T PROVE j + 1 \in T
    <2> SUFFICES ASSUME j + 1 <= m PROVE \E f \in [0..m -> V] : Right(f, j + 1)
      OBVIOUS
    <2>1. PICK f \in [0..m -> V] : Right(f, j)
      BY <1>2
    <2> DEFINE g == [f EXCEPT ![j + 1] = G[j + 1][f[j]]]
    <2>2. j + 1 \in 1..m /\ j \in 0..m
      OBVIOUS
    <2>3. G[j + 1][f[j]] \in V
      BY <2>2 DEF Within
    <2>4. g \in [0..m -> V] /\ \A k \in 0..m : g[k] = IF k = j + 1 THEN G[j + 1][f[j]] ELSE f[k]
      BY <2>2, <2>3
    <2> HIDE DEF g
    <2>5. \A k \in 1..(j + 1) : k = j + 1 \/ k \in 1..j
      OBVIOUS
    <2>6. \A k \in 1..(j + 1) : k \in 0..m /\ k - 1 \in 0..m /\ k - 1 # j + 1 /\ (k = j + 1 => k - 1 = j)
      BY <2>2
    <2>7. \A k \in 1..(j + 1) : g[k] = G[k][g[k - 1]]
      BY <2>1, <2>4, <2>5, <2>6
    <2>8. 0 \in 0..m /\ 0 # j + 1
      OBVIOUS
    <2> QED BY <2>1, <2>4, <2>7, <2>8
  <1>3. m \in T
    <2> HIDE DEF T
    <2> QED BY <1>1, <1>2, Upward
  <1> QED BY <1>3

(* From where a function that is defined from the end on goes on, and what  *)
(* it makes of its value there.                                             *)
GoesForward(stop, base, follow, G, m, V) ==
  /\ m \in Nat /\ stop \in SUBSET (1..m) /\ base \in [1..m -> V]
  /\ follow \in [1..m -> 1..m] /\ G \in [1..m -> [V -> V]]
  /\ \A p \in 1..m : p \notin stop => p < follow[p]

(* The same from the end: where a value follows from a later one.           *)
LEMMA FromTheEnd ==
  ASSUME NEW V, NEW m, NEW stop, NEW base, NEW follow, NEW G,
         GoesForward(stop, base, follow, G, m, V)
  PROVE  \E f \in [1..m -> V] :
           \A p \in 1..m : f[p] = IF p \in stop THEN base[p] ELSE G[p][f[follow[p]]]
  <1> USE DEF GoesForward
  <1> DEFINE At(f, p) == IF p \in stop THEN base[p] ELSE G[p][f[follow[p]]]
             Done(j) == \E f \in [1..m -> V] : \A p \in (m - j + 1)..m : f[p] = At(f, p)
             T == {j \in Nat : j <= m => Done(j)}
  <1>1. Done(0)
    <2>1. \A p \in (m - 0 + 1)..m : base[p] = At(base, p)
      OBVIOUS
    <2> QED BY <2>1
  <1>2. ASSUME NEW j \in Nat, j + 1 <= m, Done(j) PROVE Done(j + 1)
    <2>1. PICK f \in [1..m -> V] : \A p \in (m - j + 1)..m : f[p] = At(f, p)
      BY <1>2, Zenon
    <2> DEFINE q == m - j
               g == [f EXCEPT ![q] = At(f, q)]
    <2>2. q \in 1..m
      BY <1>2
    <2>3. At(f, q) \in V
      BY <2>2
    <2>4. g \in [1..m -> V] /\ \A p \in 1..m : g[p] = IF p = q THEN At(f, q) ELSE f[p]
      BY <2>2, <2>3
    <2>5. \A p \in (m - (j + 1) + 1)..m : p \in 1..m /\ p >= q /\ (p = q \/ p \in (m - j + 1)..m)
      BY <1>2
    <2> HIDE DEF g, q
    <2>6. \A p \in 1..m : p >= q /\ p \notin stop => follow[p] # q /\ follow[p] \in 1..m
      BY <2>2
    <2>7. \A p \in 1..m : p >= q => At(g, p) = At(f, p)
      BY <2>4, <2>6
    <2>8. \A p \in (m - (j + 1) + 1)..m : g[p] = At(g, p)
      BY <2>1, <2>4, <2>5, <2>7
    <2> QED BY <2>4, <2>8
  <1> HIDE DEF Done
  <1>3. 0 \in T /\ \A j \in Nat : j \in T => j + 1 \in T
    BY <1>1, <1>2
  <1>4. Nat \subseteq T
    <2> HIDE DEF T
    <2> QED BY <1>3, Upward
  <1>5. Done(m)
    BY <1>4
  <1>6. m - m + 1 = 1
    OBVIOUS
  <1> QED BY <1>5, <1>6 DEF Done
=============================================================================
