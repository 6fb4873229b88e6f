-------------------------- MODULE ControllerProofs --------------------------
(* Proofs about the watchdog of Controller, for every value of its constants. *)
EXTENDS Controller, TLAPS

-----------------------------------------------------------------------------
(* The inductive invariant                                                   *)

(* The screen commands of off-mode are issued in off-mode only.              *)
OffModeCalls ==
  /\ pc \in {"blank", "wake", "query", "force"} => offMode
  /\ pc = "sync" => ~offMode

(* What the fields and the environment remember lies in the past.            *)
PastOnly == offSince <= now /\ lastOffAssert <= now /\ lastInput <= now

(* A wake in progress is owed to an input younger than off-mode.             *)
WakeOwed == pc = "wake" => lastInput > offSince

(* All but WakeOwed holds whatever an input watcher answers; Probes relies   *)
(* on that.                                                                  *)
AnyInv == TypeOK /\ OnIsNeverStale /\ OffModeCalls /\ PastOnly
IInv   == AnyInv /\ WakeOwed

AnyNext == LoopStep \/ (\E idle \in Int : WatchTick(idle)) \/ Environment

LEMMA AnyAnswer ==
  ASSUME TypeOK, NEW idle \in IdleSince
  PROVE  idle \in Int
  BY ConfigAssumption DEF TypeOK, IdleSince

LEMMA NextIsAny ==
  ASSUME TypeOK, [Next]_vars
  PROVE  [AnyNext]_vars
  BY AnyAnswer DEF Next, MainLoop, AnyNext

-----------------------------------------------------------------------------

(* The next tick of the ticker is a time.                                    *)
LEMMA NextTickIsTime ==
  ASSUME TypeOK, now >= tickAt
  PROVE  NextTick \in Nat
  <1>1. now - tickAt \in Nat /\ WatchInterval \in Nat \ {0}
    BY ConfigAssumption DEF TypeOK
  <1>2. (now - tickAt) \div WatchInterval \in Nat
    BY <1>1
  <1>. QED BY <1>1, <1>2 DEF NextTick, TypeOK

(* Acting on a report keeps the fields typed.                                *)
LEMMA HandleTyped ==
  ASSUME TypeOK, NEW st \in EntityStates, HandleHAState(st)
  PROVE  /\ pc' \in PCs
         /\ lastState' \in EntityStates \cup {None}
         /\ offMode' \in BOOLEAN
         /\ offSince' \in 0..MaxTime /\ lastOffAssert' \in 0..MaxTime
  <1>1. CASE SteadyState(st) /\ pc' = "select" /\ UNCHANGED fields
    BY <1>1 DEF TypeOK, fields, PCs
  <1>2. CASE EnterOffMode
    BY <1>2 DEF TypeOK, EnterOffMode, PCs
  <1>3. CASE pc' = "light" /\ UNCHANGED fields
    BY <1>3 DEF TypeOK, fields, PCs
  <1>4. CASE lastState' = st /\ pc' = "select" /\ UNCHANGED <<offMode, offSince, lastOffAssert>>
    BY <1>4 DEF TypeOK, PCs
  <1>. QED BY <1>1, <1>2, <1>3, <1>4 DEF HandleHAState

(* A screen command keeps the display typed, whether it works or fails.      *)
LEMMA ScreenTyped ==
  ASSUME TypeOK, NEW ok \in BOOLEAN,
         On(ok) \/ Off(ok) \/ \E o \in Outputs : Lit({o})
  PROVE  lit' \subseteq Outputs /\ litAt' \in 0..MaxTime
  BY DEF TypeOK, On, Off, Lit, Dark, screen

(* What the commands do to the display as a whole.                           *)
LEMMA OnEffect ==
  ASSUME TypeOK, NEW ok \in BOOLEAN, On(ok)
  PROVE  /\ ok => lit' = Outputs /\ display' = "on"
         /\ display' = display \/ display' = "on"
  <1>1. CASE ok /\ Lit(Outputs)
    BY <1>1, ConfigAssumption DEF TypeOK, Lit, display
  <1>2. ASSUME NEW outs \in SUBSET Outputs, ~ok, Lit(outs)
        PROVE  display' = display \/ display' = "on"
    BY <1>2 DEF Lit, display
  <1>. QED BY <1>1, <1>2 DEF On

LEMMA OffEffect ==
  ASSUME NEW ok \in BOOLEAN, Off(ok)
  PROVE  display' = display \/ display' = "off"
  <1>1. ASSUME NEW outs \in SUBSET Outputs, Dark(outs)
        PROVE  display' = display \/ display' = "off"
    BY <1>1 DEF Dark, display
  <1>. QED BY <1>1 DEF Off

(* The type invariant is preserved by every step.                            *)
LEMMA Typing ==
  ASSUME TypeOK, [AnyNext]_vars
  PROVE  TypeOK'
  <1>1. ASSUME NEW st \in EntityStates, InitialSync(st)
        PROVE  TypeOK'
    BY <1>1, HandleTyped DEF InitialSync, TypeOK, screen, env
  <1>2. CASE InitialSyncFails
    BY <1>2 DEF InitialSyncFails, TypeOK, fields, screen, env, PCs
  <1>3. CASE StartPoll
    BY <1>3, ConfigAssumption DEF StartPoll, TypeOK, fields, screen, env
  <1>4. CASE Receive
    <2>1. Head(haStateCh) \in EntityStates
      BY <1>4 DEF Receive, TypeOK
    <2>2. /\ haStateCh' \in Seq(EntityStates)
          /\ Len(haStateCh') <= QueueCap
      BY <1>4, ConfigAssumption DEF Receive, TypeOK
    <2>. QED BY <1>4, <2>1, <2>2, HandleTyped DEF Receive, TypeOK, screen, env
  <1>5. ASSUME NEW idle \in Int, WatchTick(idle)
        PROVE  TypeOK'
    <2>1. tickAt' \in Nat
      BY <1>5, NextTickIsTime DEF WatchTick
    <2>2. pc' \in PCs /\ lastOffAssert' \in 0..MaxTime
      BY <1>5 DEF WatchTick, Watch, TypeOK, PCs
    <2>. QED BY <1>5, <2>1, <2>2 DEF WatchTick, TypeOK, screen, env
  <1>6. ASSUME NEW ok \in BOOLEAN,
               BlankReturns(ok) \/ LightReturns(ok) \/ WakeReturns(ok)
                 \/ ForceReturns(ok) \/ RestoreReturns(ok)
        PROVE  TypeOK'
    <2>1. lit' \subseteq Outputs /\ litAt' \in 0..MaxTime
      BY <1>6, ScreenTyped
         DEF BlankReturns, LightReturns, WakeReturns, ForceReturns, RestoreReturns
    <2>2. CASE BlankReturns(ok) \/ LightReturns(ok) \/ WakeReturns(ok)
      BY <2>1, <2>2
         DEF BlankReturns, LightReturns, WakeReturns, TypeOK, EntityStates, PCs, env
    <2>3. CASE ForceReturns(ok) \/ RestoreReturns(ok)
      BY <2>1, <2>3 DEF ForceReturns, RestoreReturns, TypeOK, PCs, Halted, fields, env
    <2>. QED BY <1>6, <2>2, <2>3
  <1>7. CASE SyncReturns \/ Shutdown \/ \E answer \in IsOff : QueryReturns(answer)
    BY <1>7 DEF SyncReturns, Shutdown, QueryReturns, TypeOK, PCs, fields, screen, env
  <1>8. ASSUME NEW st \in EntityStates, Report(st)
        PROVE  TypeOK'
    <2>1. haStateCh' \in Seq(EntityStates) /\ Len(haStateCh') <= QueueCap
      BY <1>8, ConfigAssumption DEF Report, TypeOK
    <2>. QED BY <1>8, <2>1 DEF Report, TypeOK, fields, screen, env
  <1>9. CASE DisplayLit
    <2>1. lit' \subseteq Outputs /\ litAt' \in 0..MaxTime
      BY <1>9, ScreenTyped DEF DisplayLit
    <2>. QED BY <1>9, <2>1 DEF DisplayLit, TypeOK, fields, env
  <1>10. CASE Input \/ Signal \/ Kill
    BY <1>10 DEF Input, Signal, Kill, TypeOK, PCs, Halted, fields, screen, env
  <1>11. CASE Restart
    <2>1. haStateCh' \in Seq(EntityStates) /\ Len(haStateCh') <= QueueCap
      BY <1>11, ConfigAssumption DEF Restart, Boot
    <2>2. restarts' \in 0..MaxRestarts
      BY <1>11, ConfigAssumption DEF Restart, TypeOK
    <2>3. /\ offSince' \in 0..MaxTime /\ lastOffAssert' \in 0..MaxTime
          /\ tickAt' \in Nat /\ lastInput' \in 0..MaxTime
      BY <1>11, ConfigAssumption DEF Restart, Boot, TypeOK
    <2>. QED BY <1>11, <2>1, <2>2, <2>3 DEF Restart, Boot, TypeOK, PCs, screen
  <1>12. CASE Tick
    BY <1>12, ConfigAssumption DEF Tick, TypeOK, fields, screen
  <1>13. CASE UNCHANGED vars
    BY <1>13 DEF vars, TypeOK, fields, screen, env
  <1>. QED
    BY <1>1, <1>2, <1>3, <1>4, <1>5, <1>6, <1>7, <1>8, <1>9, <1>10, <1>11, <1>12, <1>13
       DEF AnyNext, LoopStep, Environment

(* The parts of the invariant that are not typing.                           *)
Memory == OnIsNeverStale /\ OffModeCalls /\ PastOnly

(* Acting on a report keeps them, from either place the code does it.        *)
LEMMA HandleKeepsMemory ==
  ASSUME AnyInv, NEW st \in EntityStates, pc \in {"init", "select"}, HandleHAState(st),
         UNCHANGED <<now, lastInput>>
  PROVE  Memory'
  <1>. USE DEF AnyInv, Memory, OnIsNeverStale, OffModeCalls, PastOnly, Running, Halted
  <1>1. CASE SteadyState(st) /\ pc' = "select" /\ UNCHANGED fields
    BY <1>1 DEF fields
  <1>2. CASE EnterOffMode
    <2>1. OnIsNeverStale' /\ OffModeCalls'
      BY <1>2 DEF EnterOffMode
    <2>2. now \in Int
      BY ConfigAssumption DEF TypeOK
    <2>3. offSince' <= now' /\ lastOffAssert' <= now' /\ pc' = "blank"
      BY <1>2, <2>2 DEF EnterOffMode
    <2>. QED BY <2>1, <2>3
  <1>3. CASE pc' = "light" /\ UNCHANGED fields
    BY <1>3 DEF fields
  <1>4. CASE /\ st \in OtherStates \/ (st = StateOff /\ offMode)
             /\ lastState' = st
             /\ pc' = "select" /\ UNCHANGED <<offMode, offSince, lastOffAssert>>
    <2>1. st # StateOn
      BY <1>4, ConfigAssumption DEF StateOn, StateOff
    <2>. QED BY <1>4, <2>1
  <1>. QED BY <1>1, <1>2, <1>3, <1>4 DEF HandleHAState

(* Every step preserves them.                                                *)
LEMMA MemoryKept ==
  ASSUME AnyInv, [AnyNext]_vars
  PROVE  Memory'
  <1>. USE DEF AnyInv, Memory, OnIsNeverStale, OffModeCalls, PastOnly, Running, Halted
  <1>1. ASSUME NEW st \in EntityStates, InitialSync(st)
        PROVE  Memory'
    BY <1>1, HandleKeepsMemory DEF InitialSync, env
  <1>2. CASE InitialSyncFails \/ StartPoll \/ SyncReturns \/ Shutdown
               \/ \E answer \in IsOff : QueryReturns(answer)
    BY <1>2 DEF InitialSyncFails, StartPoll, SyncReturns, Shutdown, QueryReturns, AtSelect,
                fields, env
  <1>3. CASE Receive
    <2>1. Head(haStateCh) \in EntityStates
      BY <1>3 DEF Receive, TypeOK
    <2>. QED BY <1>3, <2>1, HandleKeepsMemory DEF Receive, AtSelect, env
  <1>4. ASSUME NEW idle \in Int, WatchTick(idle)
        PROVE  Memory'
    <2>1. lastOffAssert' \in {lastOffAssert, now} /\ now \in Int
      BY <1>4, ConfigAssumption DEF WatchTick, Watch, TypeOK
    <2>. QED BY <1>4, <2>1 DEF WatchTick, Watch, AtSelect, env
  <1>5. ASSUME NEW ok \in BOOLEAN,
               BlankReturns(ok) \/ LightReturns(ok) \/ WakeReturns(ok)
                 \/ ForceReturns(ok) \/ RestoreReturns(ok)
        PROVE  Memory'
    BY <1>5 DEF BlankReturns, LightReturns, WakeReturns, ForceReturns, RestoreReturns,
                StateOn, StateOff, fields, env
  <1>6. CASE DisplayLit \/ Signal \/ Kill \/ \E st \in EntityStates : Report(st)
    BY <1>6 DEF DisplayLit, Signal, Kill, Report, fields, env
  <1>7. CASE Input
    BY <1>7 DEF Input, TypeOK, fields
  <1>8. CASE Restart
    <2>1. OnIsNeverStale' /\ OffModeCalls' /\ pc' = "init"
      BY <1>8 DEF Restart, Boot, StateOn, None
    <2>2. offSince' <= now' /\ lastOffAssert' <= now' /\ lastInput' <= now'
      BY <1>8, ConfigAssumption DEF Restart, Boot, TypeOK
    <2>. QED BY <2>1, <2>2
  <1>9. CASE Tick
    BY <1>9 DEF Tick, TypeOK, fields
  <1>10. CASE UNCHANGED vars
    BY <1>10 DEF vars, fields, env
  <1>. QED
    BY <1>1, <1>2, <1>3, <1>4, <1>5, <1>6, <1>7, <1>8, <1>9, <1>10 DEF AnyNext, LoopStep, Environment

(* A wake is decided on an input younger than off-mode. Only the real        *)
(* watcher can say so: an answer of noopWatcher is never below a threshold.   *)
LEMMA WakeNeedsInput ==
  ASSUME TypeOK, NEW idle \in IdleSince, WakeEligible(idle)
  PROVE  HasInput /\ lastInput > offSince /\ now - lastInput < ActiveThreshold
  BY ConfigAssumption DEF TypeOK, IdleSince, WakeEligible

(* No other step decides to wake the display.                                *)
LEMMA OnlyTickWakes ==
  ASSUME TypeOK, LoopStep \/ Environment, pc' = "wake"
  PROVE  pc = "wake"
  <1>1. ASSUME NEW st \in EntityStates, HandleHAState(st)
        PROVE  FALSE
    BY <1>1 DEF HandleHAState, EnterOffMode
  <1>2. CASE Receive
    <2>1. Head(haStateCh) \in EntityStates
      BY <1>2 DEF Receive, TypeOK
    <2>. QED BY <1>1, <1>2, <2>1 DEF Receive
  <1>. QED
    BY <1>1, <1>2
       DEF LoopStep, Environment, InitialSync, InitialSyncFails,
           StartPoll, SyncReturns, Shutdown, QueryReturns, BlankReturns, LightReturns, WakeReturns,
           ForceReturns, RestoreReturns, DisplayLit, Signal, Kill, Report, Input, Restart, Boot, Tick

LEMMA WakeStep ==
  ASSUME TypeOK, [Next]_vars, pc # "wake", pc' = "wake"
  PROVE  /\ HasInput /\ lastInput > offSince /\ now - lastInput < ActiveThreshold
         /\ UNCHANGED <<lastInput, offSince>>
  <1>1. PICK idle \in IdleSince : WatchTick(idle)
    BY OnlyTickWakes DEF Next, MainLoop, vars
  <1>2. WakeEligible(idle) /\ UNCHANGED <<lastInput, offSince>>
    BY <1>1 DEF WatchTick, Watch, env
  <1>. QED BY <1>2, WakeNeedsInput

LEMMA WakeStaysOwed ==
  ASSUME IInv, [Next]_vars
  PROVE  WakeOwed'
  <1>1. CASE pc' # "wake"
    BY <1>1 DEF WakeOwed
  <1>2. CASE pc' = "wake" /\ pc # "wake"
    BY <1>2, WakeStep DEF IInv, AnyInv, WakeOwed
  <1>3. CASE pc' = "wake" /\ pc = "wake"
    <2>1. lastInput > offSince /\ lastInput <= now /\ {now, lastInput, offSince} \subseteq Int
      BY <1>3, ConfigAssumption DEF IInv, AnyInv, WakeOwed, PastOnly, TypeOK
    <2>2. ~MainLoop
      BY <1>3 DEF MainLoop, LoopStep, InitialSync, InitialSyncFails, StartPoll, Receive, AtSelect,
                  SyncReturns, Shutdown, QueryReturns, BlankReturns, LightReturns, WakeReturns,
                  ForceReturns, RestoreReturns, WatchTick
    <2>3. ~Restart /\ ~Kill
      BY <1>3 DEF Restart, Kill, Running, Halted
    <2>4. offSince' = offSince /\ lastInput' \in {lastInput, now}
      BY <2>2, <2>3 DEF Next, Environment, vars, fields, env, DisplayLit, Input, Signal, Tick, Report
    <2>. QED BY <2>1, <2>4 DEF WakeOwed
  <1>. QED BY <1>1, <1>2, <1>3

LEMMA Initially ==
  ASSUME Init
  PROVE  IInv
  <1>1. haStateCh \in Seq(EntityStates) /\ Len(haStateCh) <= QueueCap
    BY ConfigAssumption DEF Init
  <1>2. TypeOK
    <2>1. 0 \in 0..MaxTime /\ 0 \in 0..MaxRestarts /\ 0 \in Nat
      BY ConfigAssumption
    <2>. QED BY <1>1, <2>1 DEF Init, TypeOK, PCs
  <1>3. OnIsNeverStale /\ OffModeCalls /\ PastOnly /\ WakeOwed
    BY DEF Init, OnIsNeverStale, OffModeCalls, PastOnly, WakeOwed
  <1>. QED BY <1>2, <1>3 DEF IInv, AnyInv

(* The inductive invariant holds in every reachable state.                   *)
THEOREM Invariance == Spec => []IInv
  <1>1. IInv /\ [Next]_vars => IInv'
    BY NextIsAny, Typing, MemoryKept, WakeStaysOwed DEF IInv, AnyInv, Memory
  <1>. QED BY <1>1, Initially, PTL DEF Spec

-----------------------------------------------------------------------------
(* What follows from it                                                      *)

(* The fields, the channel and the environment stay within their types.      *)
THEOREM TypeCorrect == Spec => []TypeOK
  <1>1. IInv => TypeOK
    BY DEF IInv, AnyInv
  <1>. QED BY <1>1, Invariance, PTL

(* While off-mode lasts, no report of "on" is dropped as steady state.       *)
THEOREM OnNeverStale == Spec => []OnIsNeverStale
  <1>1. IInv => OnIsNeverStale
    BY DEF IInv, AnyInv
  <1>. QED BY <1>1, Invariance, PTL

(* Only a step that lights every output ends off-mode.                       *)
LEMMA OffModeEndsStep ==
  ASSUME IInv, [Next]_vars, offMode, ~offMode', Running
  PROVE  lit' = Outputs
  <1>. USE DEF IInv, AnyInv, Running, Halted
  <1>1. ASSUME NEW ok \in BOOLEAN, LightReturns(ok) \/ WakeReturns(ok)
        PROVE  lit' = Outputs
    BY <1>1, OnEffect DEF LightReturns, WakeReturns
  <1>2. ASSUME NEW st \in EntityStates, HandleHAState(st)
        PROVE  offMode'
    BY <1>2 DEF HandleHAState, EnterOffMode, fields
  <1>3. CASE Receive
    <2>1. Head(haStateCh) \in EntityStates
      BY <1>3 DEF Receive, TypeOK
    <2>. QED BY <1>2, <1>3, <2>1 DEF Receive
  <1>. QED
    BY <1>1, <1>2, <1>3
       DEF Next, MainLoop, LoopStep, Environment, vars, fields, env, InitialSync, InitialSyncFails,
           StartPoll, SyncReturns, Shutdown, QueryReturns, WatchTick, BlankReturns, ForceReturns,
           RestoreReturns, DisplayLit, Signal, Kill, Report, Input, Restart, Tick

(* Off-mode is left only with every output lit.                              *)
THEOREM EndsLit == Spec => OffModeEndsLit
  <1>1. IInv /\ [Next]_vars => [offMode /\ ~offMode' /\ Running => lit' = Outputs]_vars
    BY OffModeEndsStep
  <1>. QED BY <1>1, Invariance, PTL DEF Spec, OffModeEndsLit

(* A wake is owed to input that is younger than off-mode and the threshold.  *)
THEOREM Fresh == Spec => WakeIsFresh
  <1>1. IInv /\ [Next]_vars =>
          [pc # "wake" /\ pc' = "wake" =>
             HasInput /\ lastInput > offSince /\ now - lastInput < ActiveThreshold]_vars
    BY WakeStep DEF IInv, AnyInv
  <1>. QED BY <1>1, Invariance, PTL DEF Spec, WakeIsFresh

(* Only enterOffMode and a new process set offSince, and neither happens in  *)
(* the middle of off-mode.                                                   *)
LEMMA WindowStep ==
  ASSUME IInv, [Next]_vars, offMode, offMode'
  PROVE  offSince' = offSince
  <1>1. ASSUME NEW st \in EntityStates, HandleHAState(st)
        PROVE  offSince' = offSince
    BY <1>1 DEF HandleHAState, SteadyState, fields
  <1>2. CASE Receive
    <2>1. Head(haStateCh) \in EntityStates
      BY <1>2 DEF Receive, IInv, AnyInv, TypeOK
    <2>. QED BY <1>1, <1>2, <2>1 DEF Receive
  <1>. QED
    BY <1>1, <1>2
       DEF Next, MainLoop, LoopStep, Environment, vars, fields, InitialSync, InitialSyncFails, WatchTick,
           StartPoll, SyncReturns, Shutdown, QueryReturns, BlankReturns, LightReturns, WakeReturns,
           ForceReturns, RestoreReturns, DisplayLit, Signal, Kill, Report, Input, Restart, Boot, Tick

(* Repeated reports of "off" never move the start of off-mode.               *)
THEOREM WindowStable == Spec => InputWindowStable
  <1>1. IInv /\ [Next]_vars => [offMode /\ offMode' => offSince' = offSince]_vars
    BY WindowStep
  <1>. QED BY <1>1, Invariance, PTL DEF Spec, InputWindowStable

-----------------------------------------------------------------------------
(* The watchdog implements ScreenPolicy                                      *)

(* Acting on a report is hearing it, or nothing the policy sees.             *)
LEMMA HandleIsPolicy ==
  ASSUME TypeOK, NEW st \in EntityStates, pc \in {"init", "select"}, HandleHAState(st),
         UNCHANGED <<screen, now, lastInput>>
  PROVE  [Policy!Next]_(Policy!vars)
  <1>. USE DEF screen, display
  <1>1. CASE SteadyState(st) /\ pc' = "select" /\ UNCHANGED fields
    BY <1>1 DEF Policy!vars, fields
  <1>2. CASE ~offMode /\ EnterOffMode
    <2>1. Policy!HearOff
      BY <1>2 DEF EnterOffMode, Policy!HearOff
    <2>. QED BY <2>1 DEF Policy!Next
  <1>3. CASE pc' = "light" /\ UNCHANGED fields
    <2>1. Policy!HearOn
      BY <1>3 DEF Policy!HearOn, fields
    <2>. QED BY <2>1 DEF Policy!Next
  <1>4. CASE /\ lastState' = st
             /\ pc' = "select" /\ UNCHANGED <<offMode, offSince, lastOffAssert>>
    BY <1>4 DEF Policy!vars
  <1>. QED BY <1>1, <1>2, <1>3, <1>4 DEF HandleHAState

(* A screen command that returns is what the policy allows of the display.   *)
LEMMA CommandIsPolicy ==
  ASSUME IInv, NEW ok \in BOOLEAN,
         BlankReturns(ok) \/ LightReturns(ok) \/ WakeReturns(ok)
           \/ ForceReturns(ok) \/ RestoreReturns(ok)
  PROVE  [Policy!Next]_(Policy!vars)
  <1>. USE OnEffect, OffEffect DEF IInv, AnyInv, OffModeCalls, PastOnly, WakeOwed, fields, env
  <1>1. CASE BlankReturns(ok)
    <2>1. Policy!Forget
      BY <1>1 DEF BlankReturns, Policy!Forget
    <2>. QED BY <2>1 DEF Policy!Next
  <1>2. CASE LightReturns(ok)
    <2>1. CASE ok /\ offMode
      <3>1. Policy!Rise
        BY <1>2, <2>1 DEF LightReturns, Policy!Rise
      <3>. QED BY <3>1 DEF Policy!Next
    <2>2. CASE ~(ok /\ offMode)
      <3>1. offMode' = offMode
        BY <1>2, <2>2 DEF LightReturns, TypeOK
      <3>2. Policy!Forget
        BY <1>2, <3>1 DEF LightReturns, Policy!Forget
      <3>. QED BY <3>2 DEF Policy!Next
    <2>. QED BY <2>1, <2>2
  <1>3. CASE WakeReturns(ok)
    <2>1. CASE ok
      <3>1. Policy!Rise
        BY <1>3, <2>1 DEF WakeReturns, Policy!Rise
      <3>. QED BY <3>1 DEF Policy!Next
    <2>2. CASE ~ok
      <3>1. offMode' = offMode
        BY <1>3, <2>2 DEF WakeReturns, TypeOK
      <3>2. Policy!Light \/ UNCHANGED Policy!vars
        BY <1>3, <2>2, <3>1 DEF WakeReturns, Policy!Light, Policy!vars
      <3>. QED BY <3>2 DEF Policy!Next
    <2>. QED BY <2>1, <2>2
  <1>4. CASE ForceReturns(ok)
    <2>1. Policy!Blank \/ UNCHANGED Policy!vars
      BY <1>4 DEF ForceReturns, Policy!Blank, Policy!vars
    <2>. QED BY <2>1 DEF Policy!Next
  <1>5. CASE RestoreReturns(ok)
    <2>1. Policy!Light \/ UNCHANGED Policy!vars
      BY <1>5 DEF RestoreReturns, Policy!Light, Policy!vars
    <2>. QED BY <2>1 DEF Policy!Next
  <1>. QED BY <1>1, <1>2, <1>3, <1>4, <1>5

(* Every step of the watchdog and its environment is one of the policy's.    *)
LEMMA StepIsPolicy ==
  ASSUME IInv, [Next]_vars
  PROVE  [Policy!Next]_(Policy!vars)
  <1>1. ASSUME NEW st \in EntityStates, InitialSync(st)
        PROVE  [Policy!Next]_(Policy!vars)
    BY <1>1, HandleIsPolicy DEF InitialSync, IInv, AnyInv, env
  <1>2. CASE Receive
    <2>1. Head(haStateCh) \in EntityStates
      BY <1>2 DEF Receive, IInv, AnyInv, TypeOK
    <2>. QED BY <1>2, <2>1, HandleIsPolicy DEF Receive, AtSelect, IInv, AnyInv, env
  <1>3. CASE \/ InitialSyncFails \/ StartPoll \/ SyncReturns \/ Shutdown \/ Signal
             \/ \E answer \in IsOff : QueryReturns(answer)
             \/ \E idle \in IdleSince : WatchTick(idle)
             \/ \E st \in EntityStates : Report(st)
    BY <1>3 DEF InitialSyncFails, StartPoll, SyncReturns, Shutdown, Signal, QueryReturns, Report,
                WatchTick, Watch, AtSelect, Policy!vars, fields, screen, display, env
  <1>4. CASE \E ok \in BOOLEAN :
               BlankReturns(ok) \/ LightReturns(ok) \/ WakeReturns(ok)
                 \/ ForceReturns(ok) \/ RestoreReturns(ok)
    BY <1>4, CommandIsPolicy
  <1>5. CASE DisplayLit
    <2>1. Policy!Light
      BY <1>5 DEF DisplayLit, Lit, display, Policy!Light, fields, env
    <2>. QED BY <2>1 DEF Policy!Next
  <1>6. CASE Input
    <2>1. Policy!Touch
      BY <1>6 DEF Input, Policy!Touch, fields, screen, display
    <2>. QED BY <2>1 DEF Policy!Next
  <1>7. CASE Kill
    <2>1. Policy!Forget \/ UNCHANGED Policy!vars
      BY <1>7 DEF Kill, Running, Halted, Policy!Forget, Policy!vars, fields, screen, display, env
    <2>. QED BY <2>1 DEF Policy!Next
  <1>8. CASE Restart
    <2>1. Policy!Reset
      BY <1>8 DEF Restart, Boot, Policy!Reset, screen, display
    <2>. QED BY <2>1 DEF Policy!Next
  <1>9. CASE Tick
    <2>1. Policy!Pass
      BY <1>9 DEF Tick, Policy!Pass, fields, screen, display
    <2>. QED BY <2>1 DEF Policy!Next
  <1>10. CASE UNCHANGED vars
    BY <1>10 DEF vars, Policy!vars, fields, screen, display, env
  <1>. QED
    BY <1>1, <1>2, <1>3, <1>4, <1>5, <1>6, <1>7, <1>8, <1>9, <1>10 DEF Next, MainLoop, LoopStep, Environment

(* The display goes dark on a report of "off" only, and comes back for a     *)
(* report of "on" or for input younger than the darkness only.               *)
THEOREM Implements == Spec => PolicySpec
  <1>1. Init => Policy!Init
    BY DEF Init, Policy!Init, display
  <1>2. IInv /\ [Next]_vars => [Policy!Next]_(Policy!vars)
    BY StepIsPolicy
  <1>. QED BY <1>1, <1>2, Invariance, PTL DEF Spec, PolicySpec, Policy!Spec

-----------------------------------------------------------------------------
(* A goroutine that is never late, whatever its watcher answers              *)

(* The clock never passes a tick that is not read, and stands still until    *)
(* there is a ticker.                                                        *)
Punctuality ==
  Punctual /\ Running =>
    /\ polling => now <= tickAt /\ tickAt <= now + WatchInterval
    /\ ~polling /\ offMode => offSince = now /\ lastOffAssert = now

(* The screen commands work: the last re-assert is less than an interval and *)
(* a tick ago when the next tick comes, and a display that is lit has been   *)
(* lit since.                                                                *)
Works == Faults \cap {"On", "Off", "IsOff"} = {}
Reassertion ==
  Punctual /\ Works /\ Running /\ offMode =>
    /\ polling /\ pc # "wake" => tickAt - lastOffAssert < ForceOffEvery + WatchInterval
    /\ pc \in {"init", "select", "light"} /\ lit # {} => lastOffAssert <= litAt

LEMMA Durations ==
  {WatchInterval, ForceOffEvery, ActiveThreshold} \subseteq Nat \ {0}
  BY ConfigAssumption

LEMMA Times ==
  ASSUME TypeOK
  PROVE  /\ {now, tickAt, offSince, lastOffAssert, litAt, lastInput} \subseteq Nat
         /\ offMode \in BOOLEAN /\ polling \in BOOLEAN
  BY ConfigAssumption DEF TypeOK

(* The tick of a goroutine that is on time is the only one it has missed.    *)
LEMMA TickOnTime ==
  ASSUME TypeOK, now = tickAt
  PROVE  NextTick = now + WatchInterval
  <1>1. now - tickAt = 0 /\ WatchInterval \in Nat \ {0} /\ tickAt \in Nat /\ now \in Nat
    BY Times, Durations
  <1>2. (now - tickAt) \div WatchInterval = 0
    BY <1>1
  <1>. QED BY <1>1, <1>2 DEF NextTick

(* Of the fields with a time, acting on a report changes two, and both to    *)
(* now: when it enters off-mode.                                             *)
LEMMA HandleTimes ==
  ASSUME NEW st \in EntityStates, HandleHAState(st)
  PROVE  \/ UNCHANGED <<offMode, offSince, lastOffAssert>> /\ pc' \in {"select", "light"}
         \/ offMode' /\ ~offMode /\ offSince' = now /\ lastOffAssert' = now /\ pc' = "blank"
  <1>1. CASE SteadyState(st) /\ pc' = "select" /\ UNCHANGED fields
    BY <1>1 DEF fields
  <1>2. CASE ~offMode /\ EnterOffMode
    BY <1>2 DEF EnterOffMode
  <1>3. CASE pc' = "light" /\ UNCHANGED fields
    BY <1>3 DEF fields
  <1>4. CASE pc' = "select" /\ UNCHANGED <<offMode, offSince, lastOffAssert>>
    BY <1>4
  <1>. QED BY <1>1, <1>2, <1>3, <1>4 DEF HandleHAState

(* What the steps do to the ticker and the clock.                            *)
LEMMA TickStep ==
  ASSUME TypeOK, Punctual, Punctuality, NEW idle \in Int, WatchTick(idle)
  PROVE  /\ polling /\ polling' /\ Running /\ Running' /\ now' = now /\ now = tickAt
         /\ tickAt' = now + WatchInterval
         /\ UNCHANGED <<offMode, offSince, lastInput, lit, litAt>>
  <1>1. /\ AtSelect /\ now >= tickAt /\ tickAt' = NextTick
        /\ UNCHANGED <<polling, now, offMode, offSince, lastInput, lit, litAt>>
    BY DEF WatchTick, env, screen
  <1>2. Running /\ polling
    BY <1>1 DEF AtSelect, Running, Halted
  <1>3. now = tickAt
    BY <1>1, <1>2, Times DEF Punctuality
  <1>4. Running'
    BY <1>2 DEF WatchTick, Watch, AtSelect, Running, Halted
  <1>. QED BY <1>1, <1>2, <1>3, <1>4, TickOnTime

LEMMA ClockStep ==
  ASSUME TypeOK, Punctual, Tick
  PROVE  /\ now' = now + 1
         /\ UNCHANGED <<pc, polling, offMode, offSince, lastOffAssert, tickAt, lit, litAt, lastInput>>
         /\ Running => AtSelect /\ polling /\ now < tickAt
  <1>1. ~Busy /\ now' = now + 1
    BY DEF Tick
  <1>2. Running => AtSelect /\ polling /\ ~(now >= tickAt)
    BY <1>1 DEF Busy, AtSelect
  <1>3. ~(now >= tickAt) => now < tickAt
    BY Times
  <1>4. UNCHANGED <<pc, polling, offMode, offSince, lastOffAssert, tickAt, lit, litAt, lastInput>>
    BY DEF Tick, fields, screen
  <1>. QED BY <1>1, <1>2, <1>3, <1>4, Zenon

(* The steps that leave the clock, the ticker and the stamps alone.          *)
Returns == \/ InitialSyncFails \/ SyncReturns \/ Shutdown \/ (\E answer \in IsOff : QueryReturns(answer))
           \/ \E ok \in BOOLEAN :
                BlankReturns(ok) \/ LightReturns(ok) \/ WakeReturns(ok) \/ ForceReturns(ok) \/ RestoreReturns(ok)
Surroundings == DisplayLit \/ Input \/ Signal \/ Kill \/ (\E st \in EntityStates : Report(st))

LEMMA Timeless ==
  ASSUME TypeOK, Returns \/ Surroundings \/ UNCHANGED vars
  PROVE  /\ UNCHANGED <<polling, offSince, lastOffAssert, tickAt, now>>
         /\ offMode' => offMode
         /\ Running' => Running
  <1>. USE DEF Running, Halted, fields, env, screen, vars
  <1>1. ASSUME NEW ok \in BOOLEAN,
               BlankReturns(ok) \/ LightReturns(ok) \/ WakeReturns(ok) \/ ForceReturns(ok) \/ RestoreReturns(ok)
        PROVE  /\ UNCHANGED <<polling, offSince, lastOffAssert, tickAt, now>>
               /\ offMode' => offMode
               /\ Running' => Running
    <2>1. CASE BlankReturns(ok)     BY <2>1 DEF BlankReturns
    <2>2. CASE LightReturns(ok)     BY <2>2 DEF LightReturns
    <2>3. CASE WakeReturns(ok)      BY <2>3 DEF WakeReturns
    <2>4. CASE ForceReturns(ok)     BY <2>4 DEF ForceReturns
    <2>5. CASE RestoreReturns(ok)   BY <2>5 DEF RestoreReturns
    <2>. QED BY <1>1, <2>1, <2>2, <2>3, <2>4, <2>5
  <1>2. CASE InitialSyncFails \/ SyncReturns \/ Shutdown \/ \E answer \in IsOff : QueryReturns(answer)
    BY <1>2 DEF InitialSyncFails, SyncReturns, Shutdown, QueryReturns, AtSelect
  <1>3. CASE Surroundings
    BY <1>3 DEF Surroundings, DisplayLit, Input, Signal, Kill, Report
  <1>. QED BY <1>1, <1>2, <1>3 DEF Returns

LEMMA StepKinds ==
  ASSUME [AnyNext]_vars
  PROVE  \/ Returns \/ Surroundings \/ UNCHANGED vars
         \/ StartPoll \/ Receive \/ (\E st \in EntityStates : InitialSync(st))
         \/ (\E idle \in Int : WatchTick(idle))
         \/ Restart \/ Tick
  BY DEF AnyNext, LoopStep, Environment, Returns, Surroundings

(* Acting on a report, from either place the code does it.                   *)
LEMMA Reported ==
  ASSUME TypeOK, Receive \/ \E st \in EntityStates : InitialSync(st)
  PROVE  /\ pc \in {"init", "select"} /\ (pc = "init" \/ polling) /\ Running /\ Running'
         /\ UNCHANGED <<polling, tickAt, now, lastInput, lit, litAt>>
         /\ \/ UNCHANGED <<offMode, offSince, lastOffAssert>> /\ pc' \in {"select", "light"}
            \/ offMode' /\ ~offMode /\ offSince' = now /\ lastOffAssert' = now /\ pc' = "blank"
  <1>. USE DEF Running, Halted, env, screen
  <1>1. CASE Receive
    <2>1. Head(haStateCh) \in EntityStates
      BY <1>1 DEF Receive, TypeOK
    <2>. QED BY <1>1, <2>1, HandleTimes DEF Receive, AtSelect
  <1>2. CASE \E st \in EntityStates : InitialSync(st)
    BY <1>2, HandleTimes DEF InitialSync
  <1>. QED BY <1>1, <1>2

LEMMA PunctualityKept ==
  ASSUME AnyInv, Punctuality, [AnyNext]_vars
  PROVE  Punctuality'
  <1>. SUFFICES ASSUME Punctual, Running'
       PROVE  /\ polling' => now' <= tickAt' /\ tickAt' <= now' + WatchInterval
              /\ ~polling' /\ offMode' => offSince' = now' /\ lastOffAssert' = now'
    BY DEF Punctuality
  <1>. USE Times, Durations DEF AnyInv
  <1>1. CASE Returns \/ Surroundings \/ UNCHANGED vars
    BY <1>1, Timeless DEF Punctuality
  <1>2. CASE StartPoll
    BY <1>2 DEF StartPoll, env
  <1>3. CASE Receive \/ \E st \in EntityStates : InitialSync(st)
    BY <1>3, Reported DEF Punctuality
  <1>4. ASSUME NEW idle \in Int, WatchTick(idle)
        PROVE  polling' /\ now' <= tickAt' /\ tickAt' <= now' + WatchInterval
    BY <1>4, TickStep
  <1>5. CASE Restart
    BY <1>5 DEF Restart, Boot
  <1>6. CASE Tick
    <2>1. Running
      BY <1>6, ClockStep DEF Running, Halted
    <2>. QED BY <1>6, <2>1, ClockStep DEF Punctuality
  <1>. QED BY <1>1, <1>2, <1>3, <1>4, <1>5, <1>6, StepKinds

(* With screen commands that work, a return that leaves off-mode on leaves   *)
(* the display dark, or as it was.                                           *)
LEMMA WorkingCommands ==
  ASSUME TypeOK, Works, NEW ok \in BOOLEAN
  PROVE  /\ On(ok) => ok
         /\ Off(ok) => lit' = {}
  <1>1. "On" \notin Faults /\ "Off" \notin Faults
    BY DEF Works
  <1>2. On(ok) => ok
    BY <1>1 DEF On
  <1>3. ASSUME Off(ok) PROVE lit' = {}
    <2>1. Dark(Outputs)
      BY <1>1, <1>3 DEF Off
    <2>. QED BY <2>1 DEF Dark, TypeOK
  <1>. QED BY <1>2, <1>3

LEMMA WorkingReturns ==
  ASSUME AnyInv, Works, Returns, offMode'
  PROVE  pc # "wake" /\ (pc' \in {"init", "select", "light"} /\ lit' # {} =>
                           pc = "init" /\ UNCHANGED <<lit, litAt>>)
  <1>. USE DEF AnyInv, OffModeCalls, fields, screen
  <1>1. CASE InitialSyncFails
    BY <1>1 DEF InitialSyncFails
  <1>2. CASE SyncReturns
    BY <1>2 DEF SyncReturns
  <1>3. CASE Shutdown
    BY <1>3 DEF Shutdown, AtSelect
  <1>4. ASSUME NEW answer \in IsOff, QueryReturns(answer)
        PROVE  pc # "wake" /\ (pc' \in {"init", "select", "light"} => lit' = {})
    <2>1. answer \in {"ErrNoQuery", display}
      BY DEF IsOff, Works
    <2>. QED BY <1>4, <2>1 DEF QueryReturns, display
  <1>5. ASSUME NEW ok \in BOOLEAN, BlankReturns(ok) \/ ForceReturns(ok)
        PROVE  pc # "wake" /\ lit' = {}
    BY <1>5, WorkingCommands DEF BlankReturns, ForceReturns
  <1>6. ASSUME NEW ok \in BOOLEAN, LightReturns(ok) \/ WakeReturns(ok)
        PROVE  FALSE
    BY <1>6, WorkingCommands DEF LightReturns, WakeReturns
  <1>7. ASSUME NEW ok \in BOOLEAN, RestoreReturns(ok)
        PROVE  pc # "wake" /\ pc' = "done"
    BY <1>7 DEF RestoreReturns
  <1>. QED BY <1>1, <1>2, <1>3, <1>4, <1>5, <1>6, <1>7 DEF Returns

(* The environment lights the display, at this instant, or leaves it alone.  *)
LEMMA SurroundingsScreen ==
  ASSUME Surroundings \/ UNCHANGED vars, Running'
  PROVE  pc' = pc /\ (UNCHANGED <<lit, litAt>> \/ litAt' = now \/ (litAt' = litAt /\ lit # {}))
  <1>1. CASE DisplayLit
    BY <1>1 DEF DisplayLit, Lit
  <1>2. CASE Input \/ Signal \/ Kill \/ (\E st \in EntityStates : Report(st)) \/ UNCHANGED vars
    BY <1>2 DEF Input, Signal, Kill, Report, Running, Halted, vars, screen
  <1>. QED BY <1>1, <1>2 DEF Surroundings

LEMMA ReassertionKept ==
  ASSUME AnyInv, Punctuality, Reassertion, [AnyNext]_vars
  PROVE  Reassertion'
  <1> DEFINE Soon == polling /\ pc # "wake" => tickAt - lastOffAssert < ForceOffEvery + WatchInterval
             Late == pc \in {"init", "select", "light"} /\ lit # {} => lastOffAssert <= litAt
  <1>. SUFFICES ASSUME Punctual, Works, Running', offMode' PROVE Soon' /\ Late'
    BY DEF Reassertion
  <1>0. Running /\ offMode => Soon /\ Late
    BY DEF Reassertion
  <1>. USE Times, Durations DEF AnyInv
  <1>1. CASE Returns
    BY <1>0, <1>1, WorkingReturns, Timeless
  <1>2. CASE Surroundings \/ UNCHANGED vars
    BY <1>0, <1>2, SurroundingsScreen, Timeless DEF PastOnly
  <1>3. CASE StartPoll
    <2>1. /\ pc = "select" /\ Running /\ offMode /\ lastOffAssert' = now /\ tickAt' = now + WatchInterval
          /\ UNCHANGED <<pc, lit, litAt, lastOffAssert>>
      BY <1>3 DEF StartPoll, Punctuality, Running, Halted, fields, screen
    <2>2. tickAt' - lastOffAssert' = WatchInterval /\ WatchInterval < ForceOffEvery + WatchInterval
      BY <2>1
    <2>. QED BY <1>0, <2>1, <2>2
  <1>4. CASE Receive \/ \E st \in EntityStates : InitialSync(st)
    <2>1. CASE UNCHANGED <<offMode, offSince, lastOffAssert>>
      <3>1. /\ pc \in {"init", "select"} /\ Running /\ offMode /\ lastOffAssert' = lastOffAssert
            /\ UNCHANGED <<polling, tickAt, lit, litAt>>
        BY <1>4, <2>1, Reported
      <3>. QED BY <1>0, <3>1
    <2>2. CASE lastOffAssert' = now /\ pc' = "blank"
      <3>1. Running /\ UNCHANGED <<polling, tickAt>>
        BY <1>4, Reported
      <3>2. polling => tickAt <= now + WatchInterval
        BY <3>1 DEF Punctuality
      <3>3. polling => tickAt' - lastOffAssert' < ForceOffEvery + WatchInterval
        BY <2>2, <3>1, <3>2
      <3>. QED BY <2>2, <3>1, <3>3
    <2>. QED BY <1>4, <2>1, <2>2, Reported
  <1>5. ASSUME NEW idle \in Int, WatchTick(idle) PROVE Soon' /\ Late'
    <2>1. /\ polling /\ Running /\ now = tickAt /\ tickAt' = now + WatchInterval
          /\ offMode /\ UNCHANGED <<lit, litAt>>
      BY <1>5, TickStep
    <2>2. pc = "select" /\ Watch(idle)
      BY <1>5, <2>1 DEF WatchTick, AtSelect
    <2>3. \/ pc' = "wake"
          \/ now - lastOffAssert < ForceOffEvery /\ UNCHANGED <<pc, lastOffAssert>>
          \/ lastOffAssert' = now /\ pc' = "query"
      BY <2>2 DEF Watch
    <2>4. CASE pc' = "wake"
      BY <2>4
    <2>5. CASE now - lastOffAssert < ForceOffEvery /\ UNCHANGED <<pc, lastOffAssert>>
      <3>1. tickAt' - lastOffAssert' < ForceOffEvery + WatchInterval
        BY <2>1, <2>5
      <3>. QED BY <1>0, <2>1, <2>2, <2>5, <3>1
    <2>6. CASE lastOffAssert' = now /\ pc' = "query"
      <3>1. tickAt' - lastOffAssert' < ForceOffEvery + WatchInterval
        BY <2>1, <2>6
      <3>. QED BY <2>6, <3>1
    <2>. QED BY <2>3, <2>4, <2>5, <2>6
  <1>6. CASE Restart
    BY <1>6 DEF Restart, Boot
  <1>7. CASE Tick
    <2>1. Running /\ UNCHANGED <<pc, polling, offMode, tickAt, lastOffAssert, lit, litAt>>
      BY <1>7, ClockStep DEF Running, Halted
    <2>. QED BY <1>0, <2>1
  <1>. QED BY <1>1, <1>2, <1>3, <1>4, <1>5, <1>6, <1>7, StepKinds

(* The invariants of time imply the property.                                *)
LEMMA TimeIsDark ==
  ASSUME AnyInv, Punctuality, Reassertion
  PROVE  DarkAgain
  <1>. SUFFICES ASSUME Punctual, Works, offMode, AtSelect, lit # {}
       PROVE  now - litAt <= ForceOffEvery + WatchInterval
    BY DEF DarkAgain, Works, display
  <1>1. Running /\ polling /\ pc = "select"
    BY DEF AtSelect, Running, Halted
  <1>2. now <= tickAt /\ tickAt - lastOffAssert < ForceOffEvery + WatchInterval /\ lastOffAssert <= litAt
    BY <1>1 DEF Punctuality, Reassertion
  <1>. QED BY <1>2, Times, Durations DEF AnyInv

(* A display that something else lit in off-mode is dark again a re-assert   *)
(* interval and a tick later, at the latest.                                 *)
THEOREM DarkSoon == Spec => []DarkAgain
  <1> DEFINE Inv == AnyInv /\ Punctuality /\ Reassertion
  <1>1. Init => Inv
    BY Initially DEF IInv, Init, Punctuality, Reassertion
  <1>2. Inv /\ [Next]_vars => Inv'
    BY NextIsAny, Typing, MemoryKept, PunctualityKept, ReassertionKept DEF AnyInv, Memory
  <1>3. Inv => DarkAgain
    BY TimeIsDark
  <1>. QED BY <1>1, <1>2, <1>3, PTL DEF Spec
=============================================================================
