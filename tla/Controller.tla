----------------------------- MODULE Controller -----------------------------
(***************************************************************************)
(* The display watchdog of internal/controller/controller.go: the goroutine *)
(* that runs Controller.Run, with the display, the input watcher, the       *)
(* process signals and the reports of Home Assistant as its environment.    *)
(*                                                                         *)
(* The goroutine blocks in calls to the outside (a screen command, a REST   *)
(* request). Each such call is a program point of its own, so that time     *)
(* passes, reports arrive and the user moves between a decision and its     *)
(* effect. Reports are arbitrary here; Watchdog.tla puts the Home Assistant *)
(* client in their place.                                                   *)
(***************************************************************************)
EXTENDS Integers, Sequences

CONSTANTS
  Outputs,          \* the monitors a screen command addresses
  OtherStates,      \* entity states besides "on" and "off": "unavailable", ...
  QueueCap,         \* capacity of haStateCh (8 in New)
  WatchInterval,    \* the three durations of the configuration, in clock units
  ForceOffEvery,
  ActiveThreshold,
  Hour,             \* the idle time noopWatcher reports, in clock units
  HasInput,         \* FALSE: the input watcher could not start, noopWatcher stands in
  CanQuery,         \* FALSE: IsOff answers ErrNoQuery (Windows, ddc)
  Faults,           \* the calls that may fail
  Punctual,         \* TRUE: the clock waits for the goroutine
  MaxTime,          \* bound of the clock
  MaxRestarts       \* bound of the restarts of the process

StateOn  == "on"
StateOff == "off"
None     == ""      \* lastState before the first report
EntityStates == {StateOn, StateOff} \cup OtherStates
Calls == {"State", "On", "Off", "IsOff", "IdleSince"}

ASSUME ConfigAssumption ==
  /\ Outputs # {}
  /\ {StateOn, StateOff} \cap OtherStates = {}    \* but None may be reported: State of an empty body
  /\ QueueCap \in Nat \ {0} /\ WatchInterval \in Nat \ {0}
  /\ ForceOffEvery \in Nat \ {0} /\ ActiveThreshold \in Nat \ {0}
  /\ Hour \in Nat /\ ActiveThreshold <= Hour    \* maxActiveThresholdMs is one hour
  /\ {HasInput, CanQuery, Punctual} \subseteq BOOLEAN
  /\ Faults \subseteq Calls
  /\ MaxTime \in Nat /\ MaxRestarts \in Nat

VARIABLES
  pc,             \* where the goroutine of Run is
  polling,        \* the goroutines of ha.Poll have been started
  lastState,      \* the fields of Controller, under their names
  offMode,
  offSince,
  lastOffAssert,
  haStateCh,      \* the channel of reports
  tickAt,         \* when the watch ticker fires next (or has fired, unread)
  ctxDone,        \* the context of Run is cancelled (SIGINT, SIGTERM)
  lit,            \* the outputs that are on
  litAt,          \* when the display last changed from off to on
  now,
  lastInput,      \* the last input event the input watcher knows
  restarts

fields == <<lastState, offMode, offSince, lastOffAssert>>
screen == <<lit, litAt>>
env    == <<ctxDone, now, lastInput, restarts>>
vars   == <<pc, polling, fields, haStateCh, tickAt, screen, env>>

(* Program points: "init" syncFromHA; "select" the select of Run; "blank" Off *)
(* in enterOffMode; "light" On in handleHAState; "wake" On in watch; "sync"   *)
(* TurnOn; "query" IsOff; "force" Off in watch; "restore" On on shutdown.     *)
Halted == {"done", "killed"}
PCs == {"init", "select", "blank", "light", "wake", "sync", "query", "force", "restore"}
         \cup Halted

Running  == pc \notin Halted
AtSelect == pc = "select" /\ polling

(* A new process: New and the zero values of Controller.                    *)
Boot ==
  /\ pc' = "init" /\ polling' = FALSE
  /\ lastState' = None /\ offMode' = FALSE /\ offSince' = 0 /\ lastOffAssert' = 0
  /\ haStateCh' = <<>> /\ tickAt' = 0 /\ ctxDone' = FALSE

Init ==
  /\ pc = "init" /\ polling = FALSE
  /\ lastState = None /\ offMode = FALSE /\ offSince = 0 /\ lastOffAssert = 0
  /\ haStateCh = <<>> /\ tickAt = 0 /\ ctxDone = FALSE
  /\ lit \in {Outputs, {}} /\ litAt = 0
  /\ now = 0 /\ lastInput = 0 /\ restarts = 0

-----------------------------------------------------------------------------
(* The screen.Controller interface. A failing command may have worked all   *)
(* the same, on some of the outputs or on all of them (a broadcast that      *)
(* times out on one window, a killed helper).                                *)

display == IF lit = {} THEN "off" ELSE "on"     \* dark only when every output is

Lit(outs)  == lit' = lit \cup outs
                /\ litAt' = IF lit = {} /\ outs # {} THEN now ELSE litAt
Dark(outs) == lit' = lit \ outs /\ UNCHANGED litAt

On(ok) ==
  \/ ok /\ Lit(Outputs)
  \/ ~ok /\ "On" \in Faults /\ \E outs \in SUBSET Outputs : Lit(outs)
Off(ok) ==
  \/ ok /\ Dark(Outputs)
  \/ ~ok /\ "Off" \in Faults /\ \E outs \in SUBSET Outputs : Dark(outs)

(* IsOff: the outcomes watch tells apart.                                    *)
IsOff_AnyDark ==                  \* mutant: one dark output counts as off
  {IF lit = Outputs THEN "on" ELSE "off"}
IsOff == (IF CanQuery THEN {display} ELSE {"ErrNoQuery"})
           \cup (IF CanQuery /\ "IsOff" \in Faults THEN {"error"} ELSE {})

(* input.Watcher.IdleSince: exact (evdev, GetLastInputInfo), -1 when the     *)
(* probe fails, or the constant answer of noopWatcher.                       *)
IdleSince == IF HasInput
             THEN {now - lastInput} \cup (IF "IdleSince" \in Faults THEN {-1} ELSE {})
             ELSE {Hour}

-----------------------------------------------------------------------------
(* handleHAState, up to the screen command it issues.                        *)

EnterOffMode_LateStamp ==         \* mutant: offSince is left at its old value
  /\ offMode' = TRUE /\ lastOffAssert' = now
  /\ pc' = "blank"
  /\ UNCHANGED <<lastState, offSince>>

EnterOffMode ==
  /\ offMode' = TRUE /\ offSince' = now /\ lastOffAssert' = now
  /\ pc' = "blank"
  /\ UNCHANGED lastState

SteadyState_NoException(st) == st = lastState  \* mutant: "off" after a wake is steady state too
SteadyState(st) == st = lastState /\ (st # StateOff \/ offMode)

HandleHAState_Restamp(st) ==      \* mutant: no test of offMode before enterOffMode
  \/ st # StateOff /\ pc' = "select" /\ UNCHANGED fields
  \/ st = StateOff /\ EnterOffMode

HandleHAState(st) ==
  \/ /\ SteadyState(st)
     /\ pc' = "select" /\ UNCHANGED fields
  \/ /\ ~SteadyState(st)
     /\ \/ st = StateOff /\ ~offMode /\ EnterOffMode
        \/ st = StateOn /\ pc' = "light" /\ UNCHANGED fields
        \/ /\ st \in OtherStates \/ (st = StateOff /\ offMode)
           /\ lastState' = st
           /\ pc' = "select" /\ UNCHANGED <<offMode, offSince, lastOffAssert>>

(* enterOffMode's Off returns; its error is only logged.                     *)
BlankReturns_Forget(ok) ==        \* mutant: lastState is not updated
  /\ pc = "blank" /\ Off(ok) /\ pc' = "select"
  /\ UNCHANGED <<fields, polling, haStateCh, tickAt, env>>

BlankReturns(ok) ==
  /\ pc = "blank" /\ Off(ok)
  /\ lastState' = StateOff /\ pc' = "select"
  /\ UNCHANGED <<offMode, offSince, lastOffAssert, polling, haStateCh, tickAt, env>>

(* handleHAState's On returns; a failure leaves every field as it was.       *)
LightReturns_Eager(ok) ==         \* mutant: off-mode is cleared though On failed
  /\ pc = "light" /\ On(ok) /\ pc' = "select"
  /\ offMode' = FALSE /\ lastState' = StateOn
  /\ UNCHANGED <<offSince, lastOffAssert, polling, haStateCh, tickAt, env>>

LightReturns_Remember(ok) ==      \* mutant: the report counts as served though On failed
  /\ pc = "light" /\ On(ok) /\ pc' = "select"
  /\ offMode' = (offMode /\ ~ok) /\ lastState' = StateOn
  /\ UNCHANGED <<offSince, lastOffAssert, polling, haStateCh, tickAt, env>>

LightReturns(ok) ==
  /\ pc = "light" /\ On(ok) /\ pc' = "select"
  /\ IF ok THEN offMode' = FALSE /\ lastState' = StateOn
           ELSE UNCHANGED <<offMode, lastState>>
  /\ UNCHANGED <<offSince, lastOffAssert, polling, haStateCh, tickAt, env>>

-----------------------------------------------------------------------------
(* watch                                                                     *)

WakeEligible_AnyInput(idle) ==    \* mutant: input before off-mode counts
  idle >= 0 /\ idle < ActiveThreshold
WakeEligible_Interval(idle) ==    \* mutant: the wrong one of two neighbouring durations
  idle >= 0 /\ idle < WatchInterval /\ now - idle > offSince

WakeEligible(idle) ==
  /\ idle >= 0 /\ idle < ActiveThreshold
  /\ now - idle > offSince

Watch(idle) ==
  \/ WakeEligible(idle) /\ pc' = "wake" /\ UNCHANGED lastOffAssert
  \/ /\ ~WakeEligible(idle) /\ now - lastOffAssert < ForceOffEvery
     /\ UNCHANGED <<pc, lastOffAssert>>
  \/ /\ ~WakeEligible(idle) /\ now - lastOffAssert >= ForceOffEvery
     /\ lastOffAssert' = now /\ pc' = "query"

(* The On of watch returns: off-mode ends only if it worked.                 *)
WakeReturns(ok) ==
  /\ pc = "wake" /\ On(ok)
  /\ offMode' = (offMode /\ ~ok)
  /\ pc' = IF ok THEN "sync" ELSE "select"
  /\ UNCHANGED <<lastState, offSince, lastOffAssert, polling, haStateCh, tickAt, env>>

(* TurnOn returns; its error is only logged. The 10 s context bounds it.     *)
SyncReturns ==
  /\ pc = "sync" /\ pc' = "select"
  /\ UNCHANGED <<fields, polling, haStateCh, tickAt, screen, env>>

QueryReturns(answer) ==
  /\ pc = "query" /\ answer \in IsOff
  /\ pc' = IF answer \in {"ErrNoQuery", "on"} THEN "force" ELSE "select"
  /\ UNCHANGED <<fields, polling, haStateCh, tickAt, screen, env>>

ForceReturns(ok) ==
  /\ pc = "force" /\ Off(ok) /\ pc' = "select"
  /\ UNCHANGED <<fields, polling, haStateCh, tickAt, env>>

-----------------------------------------------------------------------------
(* Run                                                                       *)

InitialSync(st) ==
  /\ pc = "init" /\ HandleHAState(st)
  /\ UNCHANGED <<polling, haStateCh, tickAt, screen, env>>

InitialSyncFails ==
  /\ pc = "init" /\ ("State" \in Faults \/ ctxDone) /\ pc' = "select"
  /\ UNCHANGED <<fields, polling, haStateCh, tickAt, screen, env>>

StartPoll ==
  /\ pc = "select" /\ ~polling
  /\ polling' = TRUE /\ tickAt' = now + WatchInterval
  /\ UNCHANGED <<pc, fields, haStateCh, screen, env>>

Receive ==
  /\ AtSelect /\ haStateCh # <<>>
  /\ HandleHAState(Head(haStateCh)) /\ haStateCh' = Tail(haStateCh)
  /\ UNCHANGED <<polling, tickAt, screen, env>>

(* A Go ticker drops the ticks nobody reads: the next one is the first      *)
(* multiple of the interval after now.                                      *)
NextTick == tickAt + WatchInterval * ((now - tickAt) \div WatchInterval + 1)

WatchTick(idle) ==
  /\ AtSelect /\ now >= tickAt /\ tickAt' = NextTick
  /\ IF offMode THEN Watch(idle) ELSE UNCHANGED <<pc, lastOffAssert>>
  /\ UNCHANGED <<polling, lastState, offMode, offSince, haStateCh, screen, env>>

Shutdown_Drain ==                 \* mutant: the pending reports are served first
  /\ AtSelect /\ ctxDone /\ haStateCh = <<>> /\ pc' = "restore"
  /\ UNCHANGED <<fields, polling, haStateCh, tickAt, screen, env>>

Shutdown ==
  /\ AtSelect /\ ctxDone /\ pc' = "restore"
  /\ UNCHANGED <<fields, polling, haStateCh, tickAt, screen, env>>

RestoreReturns(ok) ==
  /\ pc = "restore" /\ On(ok) /\ pc' = "done"
  /\ UNCHANGED <<fields, polling, haStateCh, tickAt, env>>

LoopStep ==        \* every step of the goroutine but the watch tick
  \/ InitialSyncFails \/ StartPoll \/ Receive \/ SyncReturns \/ Shutdown
  \/ \E st \in EntityStates : InitialSync(st)
  \/ \E answer \in IsOff : QueryReturns(answer)
  \/ \E ok \in BOOLEAN :
       BlankReturns(ok) \/ LightReturns(ok) \/ WakeReturns(ok) \/ ForceReturns(ok) \/ RestoreReturns(ok)

MainLoop == LoopStep \/ \E idle \in IdleSince : WatchTick(idle)

-----------------------------------------------------------------------------
(* The environment                                                           *)

(* onChange of Run's Poll callback: a report enters the channel if it fits.  *)
Report_Unbounded(st) ==           \* mutant: the channel has no capacity
  /\ polling /\ Running /\ haStateCh' = Append(haStateCh, st)
  /\ UNCHANGED <<pc, polling, fields, tickAt, screen, env>>

Report(st) ==
  /\ polling /\ Running /\ Len(haStateCh) < QueueCap
  /\ haStateCh' = Append(haStateCh, st)
  /\ UNCHANGED <<pc, polling, fields, tickAt, screen, env>>

(* A notification or another program lights an output.                       *)
DisplayLit == (\E o \in Outputs : Lit({o})) /\ UNCHANGED <<pc, polling, fields, haStateCh, tickAt, env>>

Input ==
  /\ lastInput' = now
  /\ UNCHANGED <<pc, polling, fields, haStateCh, tickAt, screen, ctxDone, now, restarts>>

Signal ==
  /\ Running /\ ctxDone' = TRUE
  /\ UNCHANGED <<pc, polling, fields, haStateCh, tickAt, screen, now, lastInput, restarts>>

(* A hard kill: no deferred function runs (taskkill /F, kill -9).             *)
Kill ==
  /\ Running /\ pc' = "killed"
  /\ UNCHANGED <<polling, fields, haStateCh, tickAt, screen, env>>

(* The supervisor starts a new process; newEvdev stamps its clock with now.  *)
Restart ==
  /\ ~Running /\ restarts < MaxRestarts
  /\ restarts' = restarts + 1 /\ Boot
  /\ lastInput' \in {lastInput, now}
  /\ UNCHANGED <<screen, now>>

Busy == \/ Running /\ ~AtSelect
        \/ AtSelect /\ (haStateCh # <<>> \/ ctxDone \/ now >= tickAt)

Tick ==
  /\ now < MaxTime /\ (Punctual => ~Busy)
  /\ now' = now + 1
  /\ UNCHANGED <<pc, polling, fields, haStateCh, tickAt, screen, ctxDone, lastInput, restarts>>

Environment ==
  \/ DisplayLit \/ Input \/ Signal \/ Kill \/ Restart \/ Tick
  \/ \E st \in EntityStates : Report(st)

Next == MainLoop \/ Environment

Spec == Init /\ [][Next]_vars

(* The goroutine runs, its calls return, and Go's select, choosing uniformly *)
(* among the ready cases, does not ignore ctx.Done for ever.                 *)
Fairness == WF_vars(MainLoop) /\ SF_vars(Shutdown)
FairSpec == Spec /\ Fairness

-----------------------------------------------------------------------------
(* Properties                                                                *)

(* The fields, the channel and the environment stay within their types, and  *)
(* the channel within its capacity.                                          *)
TypeOK ==
  /\ pc \in PCs /\ polling \in BOOLEAN
  /\ lastState \in EntityStates \cup {None}
  /\ offMode \in BOOLEAN /\ offSince \in 0..MaxTime /\ lastOffAssert \in 0..MaxTime
  /\ haStateCh \in Seq(EntityStates) /\ Len(haStateCh) <= QueueCap
  /\ tickAt \in Nat /\ ctxDone \in BOOLEAN
  /\ lit \subseteq Outputs /\ litAt \in 0..MaxTime
  /\ now \in 0..MaxTime /\ lastInput \in 0..MaxTime
  /\ restarts \in 0..MaxRestarts

(* A report of "on" is never taken for steady state while off-mode is        *)
(* active: outside enterOffMode's own screen command, lastState is not "on"  *)
(* in off-mode (the deduplication at the head of handleHAState).             *)
OnIsNeverStale == Running /\ offMode /\ lastState = StateOn => pc = "blank"

(* Off-mode is left only with every output lit: an On that failed, or worked *)
(* on some of them only, keeps the watchdog watching (comments in            *)
(* handleHAState and watch). That an On without an error lit them all is     *)
(* assumed: of two calls, screen_windows.go:110-116 looks at one result only. *)
OffModeEndsLit == [][offMode /\ ~offMode' /\ Running => lit' = Outputs]_vars

(* watch wakes the display only for an input after off-mode was entered and  *)
(* younger than the threshold; never for the click that switched HA off,     *)
(* never for a probe that failed, never with the noop watcher.               *)
WakeIsFresh ==
  [][pc # "wake" /\ pc' = "wake" =>
       HasInput /\ lastInput > offSince /\ now - lastInput < ActiveThreshold]_vars

(* Repeated reports of "off" do not restart off-mode: the instant after      *)
(* which input counts stays where it was for as long as off-mode lasts.      *)
InputWindowStable == [][offMode /\ offMode' => offSince' = offSince]_vars

(* With screen commands that work and a goroutine that is never late, the    *)
(* display is dark again at most one re-assert interval and one tick after   *)
(* something else lit it. (Where On fails, watch may put off the re-assert   *)
(* for as long as there is input: the wake comes first, and leaves           *)
(* lastOffAssert as it was.)                                                 *)
DarkAgain ==
  Punctual /\ Faults \cap {"On", "Off", "IsOff"} = {} /\ offMode /\ AtSelect /\ display = "on" =>
    now - litAt <= ForceOffEvery + WatchInterval

(* A cancelled context ends the process with the display restored, even if   *)
(* reports never stop coming and whatever call the goroutine is in, unless   *)
(* it is killed hard. The run has an On that works: Run only logs a restore  *)
(* that fails (controller.go:65), and the process ends with a dark display.  *)
ShutdownRestores == ctxDone ~> (pc = "done" /\ display = "on") \/ pc = "killed"

(* The controller implements the promise of ScreenPolicy.                    *)
Policy == INSTANCE ScreenPolicy WITH
  dark <- offMode, since <- offSince, heard <- lastInput, clock <- now,
  told <- IF pc = "light" THEN "on" ELSE IF pc = "blank" THEN "off" ELSE "none"

PolicySpec == Policy!Spec
=============================================================================
