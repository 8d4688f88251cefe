---------------------------- MODULE ResultCache -----------------------------
(* common/impl/FFcache.c: the cache of detection results shared by the      *)
(* modules, and the sweep that drops it between --dynamic-interval rounds.  *)
(*                                                                          *)
(* An entry links itself into the list `entries` the first time it is used, *)
(* and is marked initialized before its init runs, so that a request made   *)
(* from within an init gets the partially built value and does not recurse. *)
(* The sweep walks the list and drops whatever is initialized.              *)
EXTENDS Integers, Sequences

CONSTANTS Entries,     \* the FFcacheEntry statics of the detections
          Deps,        \* Deps[e]: the entries the init of e may request
          MaxRound,    \* bound on the rounds of --dynamic-interval
          None         \* no answer was given yet

ASSUME DepsAssumption == Deps \in [Entries -> SUBSET Entries]
ASSUME RoundAssumption == MaxRound \in Nat \ {0}
ASSUME NoneAssumption == None \notin [entry : Entries, builtIn : Nat, givenIn : Nat]

VARIABLES entries,       \* the linked list, from its head
          initialized,   \* the entries whose `initialized` is set
          storage,       \* what is behind entry->storage
          stack,         \* the inits that are running, the innermost last
          shown,         \* the last answer a module got
          consulted,     \* the last answer an init got
          round,         \* how many times the loop of run() was entered
          sweep          \* position of ffCacheInvalidateAll, 0 when not in it

vars == <<entries, initialized, storage, stack, shown, consulted, round, sweep>>

Rounds  == 1..MaxRound
Dropped == [state |-> "none", round |-> 0]
Partial == [state |-> "partial", round |-> round]
Whole   == [state |-> "whole", round |-> round]

Values == [state : {"none", "partial", "whole"}, round : 0..MaxRound]
Frames == [entry : Entries, todo : SUBSET Entries]
Shown  == [entry : Entries, builtIn : Rounds, givenIn : Rounds]
Consulted == [entry : Entries, whole : BOOLEAN, within : BOOLEAN]

Registered == {entries[i] : i \in 1..Len(entries)}
Building   == {stack[i].entry : i \in 1..Len(stack)}
Top        == stack[Len(stack)]
Pop(s)     == SubSeq(s, 1, Len(s) - 1)

-----------------------------------------------------------------------------
(* registerEntry: once linked, an entry stays in the list for the whole run *)
registerEntryTwice(e) ==      \* mutant: `registered` is not tested
  entries' = <<e>> \o entries

registerEntry(e) ==
  entries' = IF e \in Registered THEN entries ELSE <<e>> \o entries

(* The stack after the innermost init has asked for e.                      *)
Asked(e) ==
  IF stack = <<>> THEN stack
  ELSE [stack EXCEPT ![Len(stack)].todo = @ \ {e}]

(* A module asks when no init runs; an init asks for what it depends on.    *)
MayAsk(e) == sweep = 0 /\ (stack # <<>> => e \in Top.todo)

(* ffCacheGet or ffCacheBeginInit on an entry that is marked initialized.   *)
Hit(e) ==
  /\ MayAsk(e)
  /\ e \in initialized
  /\ registerEntry(e)
  /\ stack' = Asked(e)
  /\ IF stack = <<>>
     THEN /\ shown' = [entry |-> e, builtIn |-> storage[e].round, givenIn |-> round]
          /\ UNCHANGED consulted
     ELSE /\ consulted' = [entry |-> e, whole |-> storage[e].state = "whole",
                           within |-> e \in Building]
          /\ UNCHANGED shown
  /\ UNCHANGED <<initialized, storage, round, sweep>>

(* ffCacheBeginInit on a stale entry: it is marked, and then its init runs. *)
BeginInitMarksLate(e) ==      \* mutant: the mark is set only when init returned
  /\ MayAsk(e)
  /\ e \notin initialized
  /\ registerEntry(e)
  /\ storage' = [storage EXCEPT ![e] = Partial]
  /\ stack' = Append(Asked(e), [entry |-> e, todo |-> Deps[e]])
  /\ UNCHANGED <<initialized, shown, consulted, round, sweep>>

BeginInitGlobalGuard(e) ==    \* mutant: no init runs while any other init does
  /\ MayAsk(e)
  /\ e \notin initialized
  /\ registerEntry(e)
  /\ initialized' = initialized \cup {e}
  /\ storage' = [storage EXCEPT ![e] = Partial]
  /\ stack' = IF stack = <<>> THEN <<[entry |-> e, todo |-> Deps[e]]>> ELSE Asked(e)
  /\ UNCHANGED <<shown, consulted, round, sweep>>

BeginInitAlways(e) ==         \* mutant: `initialized` is not tested
  /\ MayAsk(e)
  /\ registerEntry(e)
  /\ initialized' = initialized \cup {e}
  /\ storage' = [storage EXCEPT ![e] = Partial]
  /\ stack' = Append(Asked(e), [entry |-> e, todo |-> Deps[e]])
  /\ UNCHANGED <<shown, consulted, round, sweep>>

ffCacheBeginInit(e) ==
  /\ MayAsk(e)
  /\ e \notin initialized
  /\ registerEntry(e)
  /\ initialized' = initialized \cup {e}
  /\ storage' = [storage EXCEPT ![e] = Partial]
  /\ stack' = Append(Asked(e), [entry |-> e, todo |-> Deps[e]])
  /\ UNCHANGED <<shown, consulted, round, sweep>>

(* The innermost init returns, and its caller gets the finished value.      *)
FinishInit ==
  /\ stack # <<>>
  /\ storage' = [storage EXCEPT ![Top.entry] = Whole]
  /\ stack' = Pop(stack)
  /\ IF Len(stack) = 1
     THEN /\ shown' = [entry |-> Top.entry, builtIn |-> round, givenIn |-> round]
          /\ UNCHANGED consulted
     ELSE /\ consulted' = [entry |-> Top.entry, whole |-> TRUE, within |-> FALSE]
          /\ UNCHANGED shown
  /\ UNCHANGED <<entries, initialized, round, sweep>>

-----------------------------------------------------------------------------
(* run() calls ffCacheInvalidateAll on the frame boundary: no module runs.  *)
BeginInvalidateAll ==
  /\ sweep = 0 /\ stack = <<>>
  /\ round < MaxRound
  /\ round' = round + 1
  /\ sweep' = 1
  /\ UNCHANGED <<entries, initialized, storage, stack, shown, consulted>>

(* ffCacheInvalidate: unmark, then destroy; nothing when it is not marked.  *)
ffCacheInvalidate(e) ==
  /\ initialized' = initialized \ {e}
  /\ storage' = [storage EXCEPT ![e] = IF e \in initialized THEN Dropped ELSE @]

InvalidateNext ==
  /\ sweep \in 1..Len(entries)
  /\ ffCacheInvalidate(entries[sweep])
  /\ sweep' = sweep + 1
  /\ UNCHANGED <<entries, stack, shown, consulted, round>>

EndInvalidateEarly ==         \* mutant: the last entry of the list is not visited
  /\ sweep # 0 /\ sweep >= Len(entries)
  /\ sweep' = 0
  /\ UNCHANGED <<entries, initialized, storage, stack, shown, consulted, round>>

EndInvalidateAll ==
  /\ sweep = Len(entries) + 1
  /\ sweep' = 0
  /\ UNCHANGED <<entries, initialized, storage, stack, shown, consulted, round>>

Init ==
  /\ entries = <<>>
  /\ initialized = {}
  /\ storage = [e \in Entries |-> Dropped]
  /\ stack = <<>>
  /\ shown = None
  /\ consulted = None
  /\ round = 1
  /\ sweep = 0

Next ==
  \/ \E e \in Entries : Hit(e) \/ ffCacheBeginInit(e)
  \/ FinishInit
  \/ BeginInvalidateAll
  \/ InvalidateNext
  \/ EndInvalidateAll

Spec == Init /\ [][Next]_vars

-----------------------------------------------------------------------------
(* Every variable has its type.                                             *)
TypeOK ==
  /\ entries \in Seq(Entries)
  /\ initialized \subseteq Entries
  /\ storage \in [Entries -> Values]
  /\ stack \in Seq(Frames)
  /\ shown \in Shown \cup {None}
  /\ consulted \in Consulted \cup {None}
  /\ round \in Rounds
  /\ sweep \in Nat

(* The list holds every entry that is in use, each one once: a sweep can    *)
(* neither miss a value nor run round a cycle of `next` links, which is     *)
(* what linking an entry twice would make of the list.                      *)
RegistryOK ==
  /\ initialized \subseteq Registered
  /\ \A i, j \in 1..Len(entries) : entries[i] = entries[j] => i = j

(* A module is only ever given a value that was built in the round it asks  *)
(* in: the sweep of run() (fastfetch.c:827) left nothing of an older round. *)
FreshAnswers == shown # None => shown.builtIn = shown.givenIn

(* A partially built value is only visible to callers that run within the   *)
(* init of that very entry (FFcache.h: "a call made from within `init`").   *)
PartialStaysInside ==
  consulted # None => (consulted.whole \/ consulted.within)

(* No init runs inside itself, whatever the inits request of each other.    *)
NoRecursion ==
  \A i, j \in 1..Len(stack) : stack[i].entry = stack[j].entry => i = j

(* Building a value never overwrites one that was not destroyed before: the *)
(* buffers behind it would be leaked once per round.                        *)
NoOverwrite ==
  [][\A e \in Entries :
        (storage[e].state # "partial" /\ storage'[e].state = "partial")
          => storage[e].state = "none"]_vars

(* What makes them inductive: the sweep runs when no init does and leaves   *)
(* nothing marked behind it; a mark stands for a value; outside a sweep a   *)
(* marked value is of this round; and it is partial while its init runs.    *)
SweepBehind ==
  /\ sweep <= Len(entries) + 1
  /\ sweep # 0 => stack = <<>>
  /\ \A i \in 1..Len(entries) : i < sweep => entries[i] \notin initialized

MarkedIsStored == \A e \in Entries :
  e \in initialized <=> storage[e].state # "none"

MarkedIsCurrent == sweep = 0 => \A e \in initialized : storage[e].round = round

PartialIsBuilding == \A e \in Entries :
  storage[e].state = "partial" <=> e \in Building

IInv == /\ TypeOK /\ RegistryOK /\ FreshAnswers /\ NoRecursion /\ PartialStaysInside
        /\ SweepBehind /\ MarkedIsStored /\ MarkedIsCurrent /\ PartialIsBuilding

-----------------------------------------------------------------------------
(* What the cache promises, for the values that are completely built. The   *)
(* round changes, for the modules, when the sweep begins.                   *)
Built == [e \in Entries |->
            IF sweep = 0 /\ storage[e].state = "whole" THEN storage[e].round ELSE 0]

Promise == INSTANCE OncePerRound WITH gen <- round, built <- Built

(* The cache of FFcache.c keeps the promise of FFcache.h: each value built  *)
(* at most once per round, every answer of the current round.               *)
KeepsPromise == Promise!Spec
=============================================================================
