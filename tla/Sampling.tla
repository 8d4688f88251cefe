------------------------------ MODULE Sampling ------------------------------
(* The rates of netio.c (and of diskio.c, which is the same but for names), *)
(* of top.c and of cpuusage.c: counters are read in the prepare pass and    *)
(* again when a module is printed, and what was read last is the baseline   *)
(* of the next module of the type, and of the next round. There is one      *)
(* baseline for a type.                                                     *)
EXTENDS Integers, Sequences, SequencesExt, FiniteSetsExt

CONSTANTS Order,       \* the names of interfaces, processes or cores, as they are listed
          Programs,    \* the detections, with the modules of their type
          MaxRounds, MaxChanges,  \* bounds: rounds, and changes of what there is
          NoError      \* what a module that printed rates says

Names == Range(Order)

(* `what` a module asks for: the names that match namePrefix, or showTypes. *)
(* `once`: it needs no second reading, as no CPU usage does.                *)
(* `gated`: it is not prepared.                                             *)
ASSUME OrderAssumption == Order \in Seq(Range(Order))

ASSUME ProgramsAssumption ==
  \A p \in Programs :
    /\ p.kind \in {"netio", "top", "cpuusage"}
    /\ Len(p.modules) \in Nat \ {0}
    /\ \A i \in 1..Len(p.modules) : p.modules[i].wait \in Nat \ {0}

VARIABLES program,
          up, changes,     \* what there is, each with its incarnation; 0: nothing
          now,
          pc, idx, rounds, \* the pass and the module in it
          base, baseTime,  \* the baseline; baseTime = 0: none yet
          baseWhat,        \* what it was taken for: top.c keeps it, netio.c does not
          retries,         \* of cpuusage.c, while the counters stand still
          result,          \* what the last module printed
          said             \* the errors that were ever printed

world == <<up, changes>>
baseline == <<base, baseTime, baseWhat>>
samplingVars == <<program, world, now, pc, idx, rounds, baseline, retries, result, said>>

m == program.modules[idx]
Count == Len(program.modules)

(* The counters of all that a module asks for, read at once. Only processes *)
(* can be told from others of the same name, by when they were started.     *)
AskedFor(opt) == IF program.kind = "netio" THEN opt.what ELSE Names

Incarnation(x) == IF program.kind = "top" THEN up[x] ELSE 1

There(opt) == {x \in Names : up[x] # 0} \cap AskedFor(opt)

(* One by one, as they are read (netio_linux.c:76, cpuusage_linux.c:32).    *)
Listing(S) ==
  LET upTo[i \in 0..Len(Order)] ==
        IF i = 0 THEN <<>>
        ELSE IF Order[i] \in S THEN Append(upTo[i - 1], Order[i]) ELSE upTo[i - 1]
  IN upTo[Len(Order)]

Snapshot(opt) ==
  LET there == Listing(There(opt))
  IN [i \in 1..Len(there) |-> [name |-> there[i], born |-> Incarnation(there[i]), at |-> now]]

(* ffPrepareNetIO, ffPrepareTopProcesses, ffPrepareCPUUsage: whether the    *)
(* reading failed is not asked.                                             *)
TakeBaseline(opt) ==
  /\ base' \in {<<>>, Snapshot(opt)}
  /\ baseTime' = now
  /\ baseWhat' = opt.what

Prepare(opt) ==
  IF opt.once \/ baseTime # 0 THEN UNCHANGED baseline ELSE TakeBaseline(opt)

PreparePass ==
  /\ pc = "prepare" /\ idx <= Count
  /\ IF m.gated THEN UNCHANGED baseline ELSE Prepare(m)
  /\ idx' = idx + 1
  /\ UNCHANGED <<program, world, now, pc, rounds, retries, result, said>>

PrintPass ==
  /\ pc = "prepare" /\ idx > Count
  /\ pc' = "detect" /\ idx' = 1
  /\ UNCHANGED <<program, world, now, rounds, baseline, retries, result, said>>
-----------------------------------------------------------------------------
Report(rates) == result' = [error |-> NoError, rates |-> rates] /\ UNCHANGED said

Fail(error) ==
  /\ result' = [error |-> error, rates |-> {}]
  /\ said' = said \cup {error}

NextModule == pc' = "detect" /\ idx' = idx + 1

(* ffGetCpuUsageResult, not prepared: when it read is not kept yet.         *)
ReadCores == base' = Snapshot(m) /\ baseWhat' = m.what /\ UNCHANGED baseTime

RefusedNever == FALSE      \* mutant: the types are not compared

Refused == program.kind = "top" /\ ~m.once /\ m.what # baseWhat

(* ffDetectNetIO up to the wait, ffDetectTopProcesses likewise.             *)
Detect ==
  /\ pc = "detect" /\ idx <= Count
  /\ \/ Refused /\ Fail("different showTypes") /\ NextModule /\ UNCHANGED baseline
     \/ /\ m.once
        /\ Report({}) \/ Fail("not readable")
        /\ NextModule /\ UNCHANGED baseline
     \/ /\ ~Refused /\ ~m.once
        /\ IF baseTime = 0
           THEN IF program.kind = "cpuusage" THEN ReadCores ELSE TakeBaseline(m)
           ELSE UNCHANGED baseline
        /\ pc' = "sleep"
        /\ UNCHANGED <<idx, result, said>>
     \/ /\ program.kind = "cpuusage" /\ baseTime = 0
        /\ Fail("not readable")
        /\ NextModule
        /\ base' = <<>> /\ UNCHANGED <<baseTime, baseWhat>>
  /\ retries' = 0
  /\ UNCHANGED <<program, world, now, rounds>>

(* The interval runs from the baseline, not from the call.                  *)
Slept == IF baseTime = 0 THEN now + m.wait ELSE Max({now, baseTime + m.wait})

Sleep ==
  /\ pc = "sleep"
  /\ IF base = <<>>
     THEN /\ now' = IF program.kind = "netio" THEN now ELSE Slept
          /\ Fail("nothing found") /\ NextModule
     ELSE /\ now' = Slept
          /\ pc' = "compare"
          /\ UNCHANGED <<idx, result, said>>
  /\ UNCHANGED <<program, world, rounds, baseline, retries>>

(* The second reading fails: the baseline stays.                            *)
ReadError ==
  /\ pc = "compare"
  /\ Fail("not readable") /\ NextModule
  /\ UNCHANGED <<program, world, now, rounds, baseline, retries>>

Rate(old, new) == [same |-> old.name = new.name /\ old.born = new.born,
                   since |-> old.at, over |-> now - baseTime, to |-> now]

(* netio.c: line by line, up to the first interface that is another one.    *)
CompareNetIOStale(second) ==   \* mutant: the time of the baseline is kept
  IF Len(second) # Len(base)
  THEN Fail("different number") /\ UNCHANGED baseline
  ELSE /\ base' = second /\ UNCHANGED <<baseTime, baseWhat>>
       /\ Report({Rate(base[i], second[i]) : i \in 1..Len(base)})

CompareNetIO(second) ==
  LET differ == {i \in 1..Len(base) : base[i].name # second[i].name}
      equal == IF differ = {} THEN Len(base) ELSE Min(differ) - 1
  IN IF Len(second) # Len(base)
     THEN Fail("different number") /\ UNCHANGED baseline
     ELSE /\ base' = [i \in 1..Len(base) |-> IF i <= equal THEN second[i] ELSE base[i]]
          /\ IF differ # {}
             THEN Fail("name changed") /\ UNCHANGED baseTime
             ELSE /\ Report({Rate(base[i], second[i]) : i \in 1..Len(base)})
                  /\ baseTime' = now
          /\ UNCHANGED baseWhat

(* top.c: process by process, for those that are still the same.            *)
Pairs(second) ==
  {p \in Range(base) \X Range(second) : p[1].name = p[2].name /\ p[1].born = p[2].born}

CompareTop(second) ==
  /\ Report({Rate(p[1], p[2]) : p \in Pairs(second)})
  /\ base' = second /\ baseTime' = now
  /\ UNCHANGED baseWhat

(* cpuusage.c: core by core, by their place in the list.                    *)
CompareCPU(second) ==
  IF Len(second) # Len(base)
  THEN Fail("different number") /\ UNCHANGED baseline
  ELSE /\ Report({[Rate(base[i], second[i]) EXCEPT !.over = now - base[i].at] : i \in 1..Len(base)})
       /\ base' = second /\ baseTime' = now
       /\ UNCHANGED baseWhat

Compare ==
  /\ pc = "compare"
  /\ CASE program.kind = "netio" -> CompareNetIO(Snapshot(m))
       [] program.kind = "top" -> CompareTop(Snapshot(m))
       [] program.kind = "cpuusage" -> CompareCPU(Snapshot(m))
  /\ NextModule
  /\ UNCHANGED <<program, world, now, rounds, retries>>

(* The time of a core did not increase: another reading, three times.       *)
StandsStill ==
  /\ pc = "compare" /\ program.kind = "cpuusage"
  /\ Len(Snapshot(m)) = Len(base)
  /\ IF retries < 3
     THEN /\ retries' = retries + 1 /\ now' = now + m.wait
          /\ UNCHANGED <<pc, idx, result, said>>
     ELSE /\ Fail("did not increase") /\ NextModule
          /\ UNCHANGED <<retries, now>>
  /\ UNCHANGED <<program, world, rounds, baseline>>

(* --watch: the next round prepares again, a while later.                   *)
NextRound ==
  /\ pc = "detect" /\ idx > Count /\ rounds < MaxRounds
  /\ pc' = "prepare" /\ idx' = 1 /\ rounds' = rounds + 1 /\ now' = now + 1
  /\ UNCHANGED <<program, world, baseline, retries, result, said>>

(* An interface or a core goes down or up, a process ends, or another one   *)
(* gets its pid.                                                            *)
Change(x) ==
  /\ changes < MaxChanges
  /\ changes' = changes + 1
  /\ up' = [up EXCEPT ![x] = IF @ # 0 THEN 0
                             ELSE IF program.kind = "top" THEN changes + 2 ELSE 1]
  /\ UNCHANGED <<program, now, pc, idx, rounds, baseline, retries, result, said>>
-----------------------------------------------------------------------------
InitSampling ==
  /\ program \in Programs
  /\ up \in [Names -> {0, 1}] /\ changes = 0
  /\ now = 1
  /\ pc = "prepare" /\ idx = 1 /\ rounds = 1
  /\ base = <<>> /\ baseTime = 0 /\ baseWhat = {} /\ retries = 0
  /\ result = [error |-> NoError, rates |-> {}] /\ said = {}

Module == PreparePass \/ Detect \/ Sleep \/ ReadError \/ Compare \/ StandsStill

NextSampling == Module \/ PrintPass \/ NextRound \/ \E x \in Names : Change(x)

SamplingSpec == InitSampling /\ [][NextSampling]_samplingVars
-----------------------------------------------------------------------------
(* Rates are per second (netio.c:72): a rate is what one interface, process *)
(* or core did, divided by the time it had for that. Not so once an         *)
(* interface has taken the place of another (netio.c:64), or a core that of *)
(* another: of cores only the number is compared (cpuusage.c:48).           *)
RatesRight ==
  "name changed" \notin said =>
    \A r \in result.rates :
      /\ r.same \/ (program.kind = "cpuusage" /\ changes > 1)
      /\ r.to - r.since = r.over

(* Nothing is measured over less than the waitTime that is asked for; and   *)
(* "the baseline always matches the second snapshot and needs no            *)
(* re-validation" (netio.c:19): it was taken for what the module asks for,  *)
(* if the modules of netio all ask for the same.                            *)
Waited ==
  IF baseTime # 0 THEN now - baseTime >= m.wait
  ELSE \A i \in DOMAIN base : now - base[i].at >= m.wait

ComparesRight == pc = "compare" => Waited /\ baseWhat = m.what
=============================================================================
