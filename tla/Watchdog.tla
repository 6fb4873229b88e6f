------------------------------ MODULE Watchdog ------------------------------
(***************************************************************************)
(* The watchdog at work: the goroutine of Controller, fed by the Home        *)
(* Assistant client (what StateFeed promises of it), with the entity in Home *)
(* Assistant, its users and the turn_on service at the other end. The two    *)
(* meet in the channel haStateCh, in the State call of the initial sync and  *)
(* in the TurnOn call of watch.                                              *)
(***************************************************************************)
EXTENDS Controller

CONSTANTS
  NoState,       \* not a state of the entity
  MaxEvents,     \* bound of the events of the stream on their way
  MaxChanges,    \* bound of the changes others make to the entity
  TurnOnFaults,  \* what may go wrong with TurnOn: "reject", "late"
  Blanks         \* {None} if Home Assistant may answer without a state, or {}

ASSUME SystemAssumption ==
  /\ NoState \notin EntityStates /\ {MaxEvents, MaxChanges} \subseteq Nat
  /\ TurnOnFaults \subseteq {"reject", "late"}
  /\ Blanks \subseteq OtherStates \cap {None}

VARIABLES
  entity, answer, events, reported,   \* those of StateFeed
  changes,       \* how often others changed the entity
  request,       \* "sent": a turn_on request Home Assistant has yet to serve, or "none"
  woken          \* input woke the display and nobody switched the entity off since

Feed == INSTANCE StateFeed WITH States <- EntityStates \ Blanks

feed == <<entity, answer, events, reported>>
service == <<changes, request, woken>>
systemVars == <<vars, feed, service>>

SystemInit ==
  /\ Init /\ Feed!Init
  /\ changes = 0 /\ request = "none" /\ woken = FALSE

-----------------------------------------------------------------------------
(* The controller                                                            *)

(* syncFromHA: the State call is a question of the feed, asked before the    *)
(* goroutines of Poll exist; its answer is handled at once.                  *)
SyncFromHA ==
  /\ \/ \E st \in EntityStates : answer = st /\ InitialSync(st)
     \/ InitialSyncFails
  /\ answer' = NoState /\ UNCHANGED <<entity, events, reported, service>>

(* On has returned: the wake is done, and TurnOn sends its request.          *)
Wake(ok) ==
  /\ WakeReturns(ok)
  /\ IF ok THEN request' = "sent" /\ woken' = TRUE ELSE UNCHANGED <<request, woken>>
  /\ UNCHANGED <<feed, changes>>

(* TurnOn returns when it is answered, or (10 s) without an answer.          *)
Sync ==
  /\ SyncReturns
  /\ request = "none" \/ "late" \in TurnOnFaults
  /\ UNCHANGED <<feed, service>>

Proceed ==
  /\ \/ StartPoll \/ Receive \/ Shutdown
     \/ \E idle \in IdleSince : WatchTick(idle)
     \/ \E answered \in IsOff : QueryReturns(answered)
     \/ \E ok \in BOOLEAN :
          BlankReturns(ok) \/ LightReturns(ok) \/ ForceReturns(ok) \/ RestoreReturns(ok)
  /\ UNCHANGED <<feed, service>>

-----------------------------------------------------------------------------
(* The client: onChange of Run puts a report into haStateCh                  *)

Asking   == Running /\ (pc = "init" \/ polling) /\ UNCHANGED <<vars, service>>
Ask      == Asking /\ Feed!Ask
AskBlank == Asking /\ Feed!AskBlank
Lose     == polling /\ ((ctxDone /\ Feed!Forget) \/ Feed!Lose) /\ UNCHANGED <<vars, service>>
Poll     == Feed!ReportAnswer /\ Report(answer) /\ UNCHANGED service
Stream   == Feed!ReportEvent /\ Report(Head(events)) /\ UNCHANGED service

-----------------------------------------------------------------------------
(* Home Assistant and its users                                              *)

(* A change is an event only once Poll may have opened its stream.           *)
Change(st) == Feed!Change(st) /\ (polling \/ UNCHANGED events)

UserChange(st) ==
  /\ changes < MaxChanges /\ changes' = changes + 1
  /\ Change(st)
  /\ woken' = (woken /\ st # StateOff)
  /\ UNCHANGED <<vars, request>>

ServeTurnOn ==
  /\ request = "sent" /\ request' = "none"
  /\ Change(StateOn)
  /\ UNCHANGED <<vars, changes, woken>>

RejectTurnOn ==
  /\ request = "sent" /\ "reject" \in TurnOnFaults /\ request' = "none"
  /\ woken' = FALSE
  /\ UNCHANGED <<vars, feed, changes>>

(* The process is killed, and its connections with it.                       *)
Crash ==
  /\ Kill
  /\ answer' = NoState /\ events' = <<>> /\ woken' = FALSE
  /\ UNCHANGED <<entity, reported, changes, request>>

Around ==
  /\ DisplayLit \/ Input \/ Signal \/ Restart \/ Tick
  /\ UNCHANGED <<feed, service>>

-----------------------------------------------------------------------------

SystemNext ==
  \/ SyncFromHA \/ Sync \/ Proceed \/ (\E ok \in BOOLEAN : Wake(ok))
  \/ Ask \/ AskBlank \/ Lose \/ Poll \/ Stream
  \/ ServeTurnOn \/ RejectTurnOn \/ Crash \/ Around
  \/ \E st \in EntityStates \ Blanks : UserChange(st)

SystemSpec == SystemInit /\ [][SystemNext]_systemVars

(* The goroutine runs and its calls return; a request to Home Assistant is   *)
(* answered or times out; the polling floor gets a state through again and   *)
(* again (HAClient!CatchesUp); a screen command does not fail for ever.      *)
SystemFairness ==
  /\ WF_systemVars(Proceed \/ Sync \/ (\E ok \in BOOLEAN : Wake(ok)) \/ (answer # NoState /\ SyncFromHA))
  /\ SF_systemVars(Ask) /\ SF_systemVars(Poll)
  /\ WF_systemVars(ServeTurnOn \/ RejectTurnOn)
  /\ SF_systemVars(LightReturns(TRUE) /\ UNCHANGED <<feed, service>>)

FairSystemSpec == SystemSpec /\ SystemFairness

-----------------------------------------------------------------------------
(* Properties                                                                *)

Following == Running /\ ~ctxDone

(* An entity that stays "on" ends with the watchdog out of off-mode and the  *)
(* display lit, whatever was stale, lost, failed or killed on the way.       *)
SettlesOn == <>[](entity = StateOn /\ Following) => <>[](~offMode /\ display = "on")

(* An entity that stays "off" makes the watchdog go dark again after every   *)
(* wake: input alone does not end the darkness Home Assistant asks for. So   *)
(* where Home Assistant rejects turn_on, and the entity stays "off", a wake  *)
(* lasts only until the next report of it. (README.md:273-276 says of that   *)
(* case: "the screen still wakes".)                                          *)
SettlesOff == <>[](entity = StateOff /\ Following) => []<>offMode

(* What README.md:41-43 promises of a wake: the display stays lit until      *)
(* somebody switches the entity off again.                                   *)
WakeHolds == woken /\ request = "none" => ~offMode
=============================================================================
