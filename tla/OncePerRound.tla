---------------------------- MODULE OncePerRound ----------------------------
(* What common/FFcache.h promises to the modules that print, with nothing   *)
(* said of how: within one round of --dynamic-interval a value is built at  *)
(* most once, an answer given to a module is a value of the current round,  *)
(* and a new round starts with every value of the previous one gone.        *)
EXTENDS Naturals

CONSTANTS Entries,   \* the cached values: os, shell, terminal, gtk3, ...
          None       \* no answer was given yet

VARIABLES gen,       \* the round the program is in
          built,     \* built[e]: the round e was built in, 0 when it is gone
          shown      \* the last answer given to a module

vars == <<gen, built, shown>>

Answer == [entry : Entries, builtIn : Nat \ {0}, givenIn : Nat \ {0}]

Init == /\ gen = 1
        /\ built = [e \in Entries |-> 0]
        /\ shown = None

(* e is built; a module that asked for it gets the new value.               *)
Build(e) == /\ built[e] = 0
            /\ built' = [built EXCEPT ![e] = gen]
            /\ shown' \in {shown, [entry |-> e, builtIn |-> gen, givenIn |-> gen]}
            /\ UNCHANGED gen

(* A module asks again: the value built in this round is good enough.       *)
Reuse(e) == /\ built[e] = gen
            /\ shown' = [entry |-> e, builtIn |-> gen, givenIn |-> gen]
            /\ UNCHANGED <<gen, built>>

NewRound == /\ gen' = gen + 1
            /\ built' = [e \in Entries |-> 0]
            /\ UNCHANGED shown

Next == NewRound \/ \E e \in Entries : Build(e) \/ Reuse(e)

Spec == Init /\ [][Next]_vars
=============================================================================
