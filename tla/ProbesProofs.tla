---------------------------- MODULE ProbesProofs ----------------------------
(***************************************************************************)
(* What the watchdog promises with input watchers that are not always exact, *)
(* for every configuration: the invariants of ControllerProofs that do not   *)
(* depend on what a watcher answers, and the promptness of a wake.           *)
(***************************************************************************)
EXTENDS Probes, ControllerProofs

(* The measurement kept by a cached watcher is of the past, and no younger   *)
(* than the input it was taken of; the Windows watcher keeps none.           *)
CacheInv ==
  /\ kind \in {"cached", "ticks"} /\ failing \in BOOLEAN /\ haveCache \in BOOLEAN
  /\ lastAt \in Nat /\ lastIdle \in Int /\ lastAt <= now
  /\ haveCache => kind = "cached"
  /\ haveCache /\ ~failed => lastIdle >= lastAt - lastInput

(* Input that off-mode has not noticed yet is younger than the next tick by  *)
(* no more than the latency, and a measurement that is kept is older.        *)
TouchInv ==
  Punctual /\ ~failing /\ "On" \notin Faults /\ Latency < ActiveThreshold
    /\ Running /\ offMode /\ pc # "wake" /\ lastInput > offSince =>
       /\ polling => tickAt - lastInput <= Latency
       /\ kind = "cached" /\ haveCache => lastAt <= lastInput

ProbeInv == AnyInv /\ Punctuality /\ Reassertion /\ CacheInv /\ TouchInv

-----------------------------------------------------------------------------
(* The answers of the watchers                                               *)

LEMMA ProbeConstants ==
  /\ TTL \in Nat \ {0} /\ Wrap \in Nat \ {0} /\ BootTick \in Nat
  /\ \A k \in Kinds : k \in {"cached", "ticks"}
  <1>1. TTL \in Nat \ {0} /\ Wrap \in Nat \ {0} /\ BootTick \in 0..Wrap - 1 /\ Kinds \subseteq {"cached", "ticks"}
    BY ProbeAssumption
  <1>. QED BY <1>1

(* A wrapping count runs behind what it counts, or not at all.               *)
LEMMA WrapDifference ==
  ASSUME NEW w \in Nat \ {0}, NEW x \in Nat, NEW y \in Nat, y <= x
  PROVE  /\ x % w \in Nat /\ y % w \in Nat
         /\ (x % w) - (y % w) <= x - y
  <1> DEFINE p == x \div w
             q == y \div w
  <1>1. /\ p \in Int /\ q \in Int
        /\ x = w * p + (x % w) /\ x % w \in 0..w - 1
        /\ y = w * q + (y % w) /\ y % w \in 0..w - 1
    OBVIOUS
  <1>. HIDE DEF p, q
  <1>2. ASSUME NEW a \in 0..w - 1, NEW b \in 0..w - 1, x = w * p + a, y = w * q + b
        PROVE  a - b <= x - y
    <2>1. q <= p
      <3>. SUFFICES ASSUME p + 1 <= q PROVE FALSE
        BY <1>1
      <3>1. w * (q - p - 1) >= 0
        BY <1>1
      <3>2. w * q >= w * p + w
        BY <1>1, <3>1
      <3>. QED BY <1>1, <1>2, <3>2
    <2>2. w * (p - q) >= 0
      BY <1>1, <2>1
    <2>3. w * p >= w * q
      BY <1>1, <2>2
    <2>. QED BY <1>1, <1>2, <2>3
  <1>. QED BY <1>1, <1>2

LEMMA TickIdleBound ==
  ASSUME TypeOK, PastOnly
  PROVE  TickIdle \in Nat /\ TickIdle <= now - lastInput
  <1>1. /\ BootTick + now \in Nat /\ BootTick + lastInput \in Nat /\ Wrap \in Nat \ {0}
        /\ BootTick + lastInput <= BootTick + now
        /\ (BootTick + now) - (BootTick + lastInput) = now - lastInput /\ now - lastInput \in Nat
    BY ProbeConstants, Times DEF PastOnly
  <1>2. /\ TickOf(now) \in Nat /\ TickOf(lastInput) \in Nat
        /\ TickOf(now) - TickOf(lastInput) <= now - lastInput
    BY <1>1, WrapDifference DEF TickOf
  <1>. QED BY <1>1, <1>2 DEF TickIdle

LEMMA AnswerTyped ==
  ASSUME TypeOK, PastOnly, CacheInv, NEW idle \in {-1, lastIdle, now - lastInput, TickIdle}
  PROVE  idle \in Int
  <1>1. TickIdle \in Int /\ now - lastInput \in Int /\ lastIdle \in Int
    BY TickIdleBound, Times DEF CacheInv
  <1>. QED BY <1>1

(* An answer that is not older than an input wakes the display for it.       *)
LEMMA Eligible ==
  ASSUME TypeOK, NEW idle \in Int, 0 <= idle, idle <= now - lastInput,
         lastInput > offSince, now - lastInput < ActiveThreshold
  PROVE  WakeEligible(idle)
  BY Times, Durations DEF WakeEligible

-----------------------------------------------------------------------------
(* The steps                                                                 *)

ProbeEnv == DisplayLit \/ Input \/ Signal \/ Tick \/ \E st \in EntityStates : Report(st)

LEMMA ProbeStepKinds ==
  ASSUME [ProbeNext]_probeVars
  PROVE  /\ UNCHANGED machine
         /\ \/ /\ offMode
               /\ \E idle \in {-1, lastIdle, now - lastInput, TickIdle} : Probe(idle) /\ WatchTick(idle)
            \/ ~offMode /\ WatchTick(-1) /\ UNCHANGED cache
            \/ (LoopStep \/ ProbeEnv \/ UNCHANGED vars) /\ UNCHANGED cache
  BY DEF ProbeNext, ProbeLoop, ProbeTick, ProbeEnv, probeVars

LEMMA ProbeIsAny ==
  ASSUME ProbeInv, [ProbeNext]_probeVars
  PROVE  [AnyNext]_vars
  <1>1. ASSUME NEW idle \in {-1, lastIdle, now - lastInput, TickIdle}, WatchTick(idle)
        PROVE  AnyNext
    BY <1>1, AnswerTyped DEF ProbeInv, AnyInv, AnyNext
  <1>2. ASSUME ProbeEnv PROVE Environment
    BY <1>2 DEF ProbeEnv, Environment
  <1>. QED BY <1>1, <1>2, ProbeStepKinds DEF AnyNext

LEMMA ProbeInitially ==
  ASSUME ProbeInit
  PROVE  ProbeInv
  <1>1. AnyInv /\ Punctuality /\ Reassertion /\ offMode = FALSE /\ now = 0
    BY Initially DEF ProbeInit, IInv, Init, Punctuality, Reassertion
  <1>2. CacheInv
    <2>1. failing \in BOOLEAN
      BY DEF ProbeInit
    <2>2. kind \in {"cached", "ticks"} /\ Empty
      BY ProbeConstants DEF ProbeInit
    <2>3. haveCache = FALSE /\ haveCache \in BOOLEAN /\ ~haveCache
      BY <2>2, Zenon DEF Empty
    <2>4. lastAt \in Nat /\ lastIdle \in Int /\ lastAt <= now
      BY <1>1, <2>2 DEF Empty
    <2>. QED BY <2>1, <2>2, <2>3, <2>4, Zenon DEF CacheInv
  <1>3. TouchInv
    BY <1>1 DEF TouchInv
  <1>. QED BY <1>1, <1>2, <1>3 DEF ProbeInv

(* The clock and the input only go forward.                                  *)
LEMMA Forward ==
  ASSUME ProbeInv, [ProbeNext]_probeVars
  PROVE  now' >= now /\ lastInput' >= lastInput
  <1>. USE Times DEF ProbeInv, AnyInv, PastOnly
  <1>1. ASSUME NEW idle, WatchTick(idle) PROVE UNCHANGED <<now, lastInput>>
    BY <1>1 DEF WatchTick, env
  <1>2. ASSUME LoopStep PROVE UNCHANGED <<now, lastInput>>
    BY <1>2 DEF LoopStep, InitialSyncFails, StartPoll, Receive, SyncReturns, Shutdown, InitialSync,
                QueryReturns, BlankReturns, LightReturns, WakeReturns, ForceReturns, RestoreReturns, env
  <1>3. ASSUME ProbeEnv PROVE now' \in {now, now + 1} /\ lastInput' \in {lastInput, now}
    BY <1>3 DEF ProbeEnv, DisplayLit, Input, Signal, Tick, Report, env
  <1>4. UNCHANGED vars => UNCHANGED <<now, lastInput>>
    BY DEF vars, env
  <1>5. now' \in {now, now + 1} /\ lastInput' \in {lastInput, now}
    BY <1>1, <1>2, <1>3, <1>4, ProbeStepKinds
  <1>. QED BY <1>5

LEMMA CacheKept ==
  ASSUME ProbeInv, [ProbeNext]_probeVars
  PROVE  CacheInv'
  <1>1. /\ now' >= now /\ lastInput' >= lastInput
        /\ {now, now', lastInput, lastInput'} \subseteq Nat
    BY Forward, ProbeIsAny, Typing, Times DEF ProbeInv, AnyInv, TypeOK, Memory
  <1>2. kind' \in {"cached", "ticks"} /\ failing' \in BOOLEAN
    BY ProbeStepKinds DEF ProbeInv, CacheInv, machine
  <1>3. UNCHANGED kind
    BY ProbeStepKinds DEF machine
  <1>4. CASE UNCHANGED cache
    BY <1>1, <1>2, <1>3, <1>4 DEF ProbeInv, CacheInv, cache
  <1>5. ASSUME NEW idle, kind = "cached", Measured(idle) PROVE CacheInv'
    BY <1>1, <1>2, <1>3, <1>5 DEF Measured, CacheInv
  <1>6. ASSUME NEW idle, kind = "cached", ProbeFails(idle) PROVE CacheInv'
    BY <1>1, <1>2, <1>3, <1>6 DEF ProbeFails, ProbeInv, CacheInv
  <1>7. CASE kind = "ticks" /\ UNCHANGED measurement
    BY <1>1, <1>2, <1>3, <1>7 DEF measurement, ProbeInv, CacheInv
  <1>. QED BY <1>4, <1>5, <1>6, <1>7, ProbeStepKinds DEF Probe, Remembered, Ticks, TicksFail

(* A wake whose On works ends off-mode.                                      *)
LEMMA WakeEnds ==
  ASSUME AnyInv, "On" \notin Faults, Returns, offMode'
  PROVE  pc # "wake"
  <1>1. ASSUME NEW ok \in BOOLEAN, WakeReturns(ok), pc = "wake" PROVE FALSE
    <2>1. ok
      BY <1>1 DEF WakeReturns, On
    <2>. QED BY <1>1, <2>1 DEF WakeReturns
  <1>. QED BY <1>1 DEF Returns, InitialSyncFails, SyncReturns, Shutdown, AtSelect, QueryReturns,
                       BlankReturns, LightReturns, ForceReturns, RestoreReturns

LEMMA InputKept ==
  ASSUME Returns \/ StartPoll
  PROVE  lastInput' = lastInput
  BY DEF Returns, StartPoll, InitialSyncFails, SyncReturns, Shutdown, QueryReturns, BlankReturns,
         LightReturns, WakeReturns, ForceReturns, RestoreReturns, env

(* A tick of a goroutine on time that has an answer no older than the input  *)
(* wakes the display.                                                        *)
LEMMA TickWakes ==
  ASSUME TypeOK, NEW idle \in Int, offMode, WatchTick(idle), 0 <= idle, idle <= now - lastInput,
         lastInput > offSince, now - lastInput < ActiveThreshold
  PROVE  pc' = "wake"
  BY Eligible DEF WatchTick, Watch

LEMMA LatencyBound ==
  ASSUME CacheInv
  PROVE  /\ Latency \in Nat /\ WatchInterval <= Latency
         /\ kind = "cached" => Latency = WatchInterval + TTL - 1
  BY ProbeConstants, Durations DEF Latency, CacheInv

LEMMA TouchKept ==
  ASSUME ProbeInv, [ProbeNext]_probeVars
  PROVE  TouchInv'
  <1> DEFINE Soon == polling => tickAt - lastInput <= Latency
             Old  == kind = "cached" /\ haveCache => lastAt <= lastInput
  <1>0. UNCHANGED <<kind, failing, Latency>>
    BY ProbeStepKinds DEF machine, Latency
  <1>. SUFFICES ASSUME Punctual, ~failing, "On" \notin Faults, Latency < ActiveThreshold,
                       Running', offMode', pc' # "wake", lastInput' > offSince'
       PROVE  Soon' /\ Old'
    BY <1>0 DEF TouchInv
  <1>1. Running /\ offMode /\ pc # "wake" /\ lastInput > offSince => Soon /\ Old
    BY DEF ProbeInv, TouchInv
  <1>2. /\ AnyInv /\ TypeOK /\ Punctuality /\ CacheInv
        /\ Latency \in Nat /\ WatchInterval <= Latency
        /\ {now, tickAt, offSince, lastInput, lastAt} \subseteq Nat
        /\ lastInput <= now /\ lastAt <= now
    BY LatencyBound, Times DEF ProbeInv, AnyInv, PastOnly, CacheInv
  <1>3. CASE Returns /\ UNCHANGED cache
    <2>1. Running /\ offMode /\ pc # "wake" /\ UNCHANGED <<polling, tickAt, lastInput, offSince>>
      BY <1>2, <1>3, WakeEnds, InputKept, Timeless
    <2>. QED BY <1>0, <1>1, <1>3, <2>1 DEF cache
  <1>4. CASE ((ProbeEnv /\ ~Tick) \/ UNCHANGED vars) /\ UNCHANGED cache
    <2>1. Running /\ offMode /\ pc # "wake" /\ UNCHANGED <<pc, polling, tickAt, offSince, now>>
      BY <1>4, <1>2, Timeless, SurroundingsScreen DEF ProbeEnv, Surroundings
    <2>2. CASE lastInput' = lastInput
      BY <1>0, <1>1, <1>4, <2>1, <2>2 DEF cache
    <2>3. CASE lastInput' = now
      <3>1. polling => tickAt <= now + WatchInterval
        BY <1>2, <2>1 DEF Punctuality
      <3>2. Soon'
        <4>1. polling => tickAt - now <= Latency
          BY <1>2, <3>1, Durations
        <4>. QED BY <1>0, <2>1, <2>3, <4>1
      <3>3. Old'
        BY <1>0, <1>2, <1>4, <2>3 DEF cache
      <3>. QED BY <3>2, <3>3
    <2>4. lastInput' \in {lastInput, now}
      BY <1>4 DEF ProbeEnv, DisplayLit, Input, Signal, Report, vars, env
    <2>. QED BY <2>2, <2>3, <2>4
  <1>5. CASE StartPoll
    <2>1. Running /\ offMode /\ ~polling /\ UNCHANGED <<lastInput, offSince>>
      BY <1>5 DEF StartPoll, Running, Halted, fields, env
    <2>2. offSince = now
      BY <1>2, <2>1 DEF Punctuality
    <2>. QED BY <1>2, <2>1, <2>2
  <1>6. CASE (Receive \/ \E st \in EntityStates : InitialSync(st)) /\ UNCHANGED cache
    <2>1. CASE UNCHANGED <<offMode, offSince, lastOffAssert>>
      <3>1. Running /\ offMode /\ pc # "wake" /\ UNCHANGED <<polling, tickAt, lastInput, offSince>>
        BY <1>2, <1>6, <2>1, Reported
      <3>. QED BY <1>0, <1>1, <1>6, <3>1 DEF cache
    <2>2. CASE offSince' = now
      <3>1. lastInput' = lastInput
        BY <1>2, <1>6, Reported
      <3>. QED BY <1>2, <2>2, <3>1
    <2>. QED BY <1>2, <1>6, <2>1, <2>2, Reported
  <1>7. CASE Tick /\ UNCHANGED cache
    <2>1. Running /\ offMode /\ pc # "wake" /\ UNCHANGED <<polling, tickAt, lastInput, offSince>>
      BY <1>2, <1>7, ClockStep DEF Running, Halted
    <2>. QED BY <1>0, <1>1, <1>7, <2>1 DEF cache
  <1>8. ASSUME ~offMode, NEW idle, WatchTick(idle) PROVE FALSE
    BY <1>8 DEF WatchTick
  <1>9. ASSUME offMode, NEW idle \in {-1, lastIdle, now - lastInput, TickIdle}, Probe(idle), WatchTick(idle)
        PROVE  Soon' /\ Old'
    <2>0. idle \in Int
      BY <1>2, AnswerTyped DEF AnyInv
    <2>1. /\ polling /\ Running /\ now = tickAt /\ tickAt' = now + WatchInterval
          /\ UNCHANGED <<lastInput, offSince>>
      BY <1>2, <1>9, <2>0, TickStep
    <2>2. pc # "wake"
      BY <1>9 DEF WatchTick, AtSelect
    <2>3. lastInput > offSince /\ now - lastInput < ActiveThreshold /\ Old
      BY <1>1, <1>2, <1>9, <2>1, <2>2, Durations
    <2>4. ~(0 <= idle /\ idle <= now - lastInput)
      BY <1>2, <1>9, <2>0, <2>3, TickWakes
    <2>5. ~(kind = "ticks" /\ idle = TickIdle)
      BY <1>2, <2>4, TickIdleBound DEF AnyInv
    <2>6. ~Measured(idle) /\ ~ProbeFails(idle) /\ ~TicksFail(idle)
      BY <1>2, <2>4 DEF Measured, ProbeFails, TicksFail
    <2>7. kind = "cached" /\ haveCache /\ now - lastAt < TTL /\ UNCHANGED cache
      BY <1>9, <2>5, <2>6 DEF Probe, Ticks, Remembered, Cached
    <2>8. lastAt <= lastInput /\ Latency = WatchInterval + TTL - 1 /\ TTL \in Nat /\ WatchInterval \in Nat
      BY <1>2, <2>3, <2>7, LatencyBound, ProbeConstants, Durations
    <2>9. tickAt' - lastInput <= Latency
      BY <1>2, <2>1, <2>7, <2>8
    <2>. QED BY <1>0, <2>1, <2>7, <2>8, <2>9 DEF cache
  <1>10. \/ Returns /\ UNCHANGED cache
         \/ ((ProbeEnv /\ ~Tick) \/ UNCHANGED vars) /\ UNCHANGED cache
         \/ Tick /\ UNCHANGED cache
         \/ StartPoll
         \/ (Receive \/ \E st \in EntityStates : InitialSync(st)) /\ UNCHANGED cache
         \/ ~offMode /\ WatchTick(-1)
         \/ offMode /\ \E idle \in {-1, lastIdle, now - lastInput, TickIdle} : Probe(idle) /\ WatchTick(idle)
    BY ProbeStepKinds DEF LoopStep, Returns, ProbeEnv
  <1>. QED BY <1>3, <1>4, <1>5, <1>6, <1>7, <1>8, <1>9, <1>10

-----------------------------------------------------------------------------
(* What holds of every watcher                                               *)

(* The invariants of the controller and those of the watcher always hold,    *)
(* whichever watcher it is.                                                  *)
THEOREM ProbeInvariance == ProbeSpec => []ProbeInv
  <1>1. ProbeInv /\ [ProbeNext]_probeVars => ProbeInv'
    <2>. SUFFICES ASSUME ProbeInv, [ProbeNext]_probeVars PROVE ProbeInv'
      OBVIOUS
    <2>1. AnyInv /\ Punctuality /\ Reassertion /\ [AnyNext]_vars
      BY ProbeIsAny DEF ProbeInv
    <2>2. AnyInv' /\ Punctuality' /\ Reassertion'
      BY <2>1, Typing, MemoryKept, PunctualityKept, ReassertionKept DEF AnyInv, Memory
    <2>. QED BY <2>2, CacheKept, TouchKept DEF ProbeInv
  <1>. QED BY <1>1, ProbeInitially, PTL DEF ProbeSpec

(* A display that something else lit in off-mode is dark again a re-assert   *)
(* interval and a tick later, whatever the watcher answers.                  *)
THEOREM ProbeDarkSoon == ProbeSpec => []DarkAgain
  <1>1. ProbeInv => DarkAgain
    BY TimeIsDark DEF ProbeInv
  <1>. QED BY <1>1, ProbeInvariance, PTL

(* A touch after off-mode was entered wakes the display within the latency.  *)
THEOREM TouchAnswered == ProbeSpec => []TouchWakes
  <1>1. ProbeInv => TouchWakes
    <2>. SUFFICES ASSUME ProbeInv, Punctual, ~failing, "On" \notin Faults, Latency < ActiveThreshold,
                         offMode, AtSelect, lastInput > offSince
         PROVE  now - lastInput <= Latency
      BY DEF TouchWakes
    <2>1. polling /\ Running /\ pc # "wake"
      BY DEF AtSelect, Running, Halted
    <2>2. tickAt - lastInput <= Latency /\ now <= tickAt
      BY <2>1 DEF ProbeInv, TouchInv, Punctuality
    <2>3. {now, tickAt, lastInput, Latency} \subseteq Int
      BY Times, LatencyBound DEF ProbeInv, AnyInv
    <2>. QED BY <2>2, <2>3
  <1>. QED BY <1>1, ProbeInvariance, PTL

(* Only a tick in off-mode decides to wake, on the answer of the watcher.    *)
LEMMA ProbeWakeStep ==
  ASSUME ProbeInv, [ProbeNext]_probeVars, pc # "wake", pc' = "wake"
  PROVE  \E idle \in {-1, lastIdle, now - lastInput, TickIdle} : Probe(idle) /\ WakeEligible(idle)
  <1>1. ~LoopStep /\ ~ProbeEnv /\ ~(UNCHANGED vars)
    BY OnlyTickWakes DEF ProbeInv, AnyInv, ProbeEnv, Environment, vars
  <1>2. ASSUME ~offMode, WatchTick(-1) PROVE FALSE
    BY <1>2 DEF WatchTick, AtSelect
  <1>. QED BY <1>1, <1>2, ProbeStepKinds DEF WatchTick, Watch

(* A wake that no failed probe and no wrap has caused is owed to an input    *)
(* younger than the threshold and the life of a measurement together.        *)
THEOREM WakeRecent == ProbeSpec => WakeIsRecent
  <1>1. ProbeInv /\ [ProbeNext]_probeVars =>
          [pc # "wake" /\ pc' = "wake" /\ ~failed' /\ kind # "ticks" =>
             now - lastInput < ActiveThreshold + TTL]_probeVars
    <2>. SUFFICES ASSUME ProbeInv, [ProbeNext]_probeVars, pc # "wake", pc' = "wake", ~failed', kind # "ticks"
         PROVE  now - lastInput < ActiveThreshold + TTL
      OBVIOUS
    <2>1. PICK idle \in {-1, lastIdle, now - lastInput, TickIdle} : Probe(idle) /\ WakeEligible(idle)
      BY ProbeWakeStep
    <2>2. idle < ActiveThreshold
      BY <2>1 DEF WakeEligible
    <2>3. /\ {now, lastInput, lastAt, ActiveThreshold} \subseteq Int /\ TTL \in Nat \ {0} /\ lastIdle \in Int
          /\ haveCache /\ ~failed => lastIdle >= lastAt - lastInput
      BY Times, ProbeConstants, Durations DEF ProbeInv, AnyInv, CacheInv
    <2>4. CASE Remembered(idle)
      <3>1. haveCache /\ ~failed /\ now - lastAt < TTL /\ idle = lastIdle
        BY <2>4 DEF Remembered, Cached, cache
      <3>. QED BY <2>2, <2>3, <3>1
    <2>5. CASE Measured(idle)
      BY <2>2, <2>3, <2>5 DEF Measured
    <2>6. ~ProbeFails(idle)
      BY DEF ProbeFails
    <2>. QED BY <2>1, <2>4, <2>5, <2>6 DEF Probe
  <1>. QED BY <1>1, ProbeInvariance, PTL DEF ProbeSpec, WakeIsRecent

(* A tick of the Windows watcher whose probe works never overlooks an input  *)
(* after off-mode that is younger than the threshold, whether its tick count *)
(* wraps or not.                                                             *)
THEOREM ReturnNoticed == ProbeSpec => ReturnIsNoticed
  <1>1. ProbeInv /\ [ProbeNext]_probeVars =>
          [WatchServed /\ kind = "ticks" /\ ~failed'
             /\ lastInput > offSince /\ now - lastInput < ActiveThreshold => pc' = "wake"]_probeVars
    <2>. SUFFICES ASSUME ProbeInv, [ProbeNext]_probeVars, WatchServed, kind = "ticks", ~failed',
                         lastInput > offSince, now - lastInput < ActiveThreshold
         PROVE  pc' = "wake"
      OBVIOUS
    <2>1. TypeOK /\ PastOnly
      BY DEF ProbeInv, AnyInv
    <2>2. AtSelect /\ offMode /\ tickAt' # tickAt
      BY DEF WatchServed
    <2>3. ~LoopStep
      BY <2>2 DEF AtSelect, LoopStep, InitialSyncFails, StartPoll, Receive, SyncReturns, Shutdown,
                  InitialSync, QueryReturns, BlankReturns, LightReturns, WakeReturns, ForceReturns, RestoreReturns
    <2>4. ~ProbeEnv /\ ~(UNCHANGED vars)
      BY <2>2 DEF ProbeEnv, DisplayLit, Input, Signal, Tick, Report, vars
    <2>5. PICK idle \in {-1, lastIdle, now - lastInput, TickIdle} : Probe(idle) /\ WatchTick(idle)
      BY <2>2, <2>3, <2>4, ProbeStepKinds
    <2>6. idle = TickIdle
      BY <2>5 DEF Probe, Ticks, TicksFail
    <2>. QED BY <2>1, <2>2, <2>5, <2>6, TickIdleBound, TickWakes
  <1>. QED BY <1>1, ProbeInvariance, PTL DEF ProbeSpec, ReturnIsNoticed
=============================================================================
