--------------------------- MODULE WatchdogProofs ---------------------------
(***************************************************************************)
(* The watchdog at work is the watchdog of Controller: what the client, Home *)
(* Assistant and its users do is, to the goroutine of Run, one of the        *)
(* reports and calls that Controller allows. So every property of Controller *)
(* holds in the composed system.                                             *)
(***************************************************************************)
EXTENDS Watchdog, ControllerProofs

(* What is on its way can be reported. ("" is one of Controller's states     *)
(* where Home Assistant may answer without one.)                             *)
FeedTyped ==
  /\ entity \in EntityStates
  /\ answer \in EntityStates \cup {NoState}
  /\ events \in Seq(EntityStates)

LEMMA BlankState == Blanks \subseteq EntityStates
  <1>1. Blanks \subseteq OtherStates \cap {None}
    BY SystemAssumption
  <1>. QED BY <1>1 DEF EntityStates

LEMMA FeedKept ==
  ASSUME FeedTyped, [SystemNext]_systemVars
  PROVE  FeedTyped'
  <1>. USE DEF FeedTyped, feed, service
  <1>1. CASE UNCHANGED feed
    BY <1>1
  <1>2. CASE SyncFromHA
    BY <1>2 DEF SyncFromHA
  <1>3. ASSUME NEW st \in EntityStates, Feed!Change(st) PROVE FeedTyped'
    <2>1. events \in Seq(EntityStates) /\ {st} \cup Blanks \subseteq EntityStates
      BY BlankState
    <2>2. events' \in Seq(EntityStates)
      BY <1>3, <2>1 DEF Feed!Change
    <2>. QED BY <1>3, <2>2 DEF Feed!Change
  <1>4. CASE Feed!Ask \/ Feed!AskBlank \/ Feed!Forget
    BY <1>4, BlankState DEF Feed!Ask, Feed!AskBlank, Feed!Forget
  <1>5. CASE Feed!Lose
    <2>1. PICK n \in 2..Len(events) + 1 : events' = SubSeq(events, n, Len(events))
      BY <1>5 DEF Feed!Lose
    <2>2. events' \in Seq(EntityStates)
      BY <2>1
    <2>. QED BY <1>5, <2>2 DEF Feed!Lose
  <1>6. CASE Feed!ReportAnswer \/ Feed!ReportEvent
    BY <1>6 DEF Feed!ReportAnswer, Feed!ReportEvent
  <1>7. CASE Crash
    <2>1. events' \in Seq(EntityStates)
      BY <1>7 DEF Crash
    <2>. QED BY <1>7, <2>1 DEF Crash
  <1>8. StateOn \in EntityStates
    BY DEF EntityStates
  <1>. QED
    BY <1>1, <1>2, <1>3, <1>4, <1>5, <1>6, <1>7, <1>8
       DEF SystemNext, systemVars, Sync, Proceed, Wake, Asking, Ask, AskBlank, Lose, Poll, Stream,
           Change, UserChange, ServeTurnOn, RejectTurnOn, Around

(* What a step of the system is to the goroutine of Run.                     *)
LEMMA SystemStep ==
  ASSUME FeedTyped, [SystemNext]_systemVars
  PROVE  [Next]_vars
  <1>1. CASE SyncFromHA
    BY <1>1 DEF SyncFromHA, Next, MainLoop, LoopStep
  <1>2. CASE Sync
    BY <1>2 DEF Sync, Next, MainLoop, LoopStep
  <1>3. CASE Proceed
    BY <1>3 DEF Proceed, Next, MainLoop, LoopStep
  <1>4. ASSUME NEW ok \in BOOLEAN, Wake(ok) PROVE Next
    BY <1>4 DEF Wake, Next, MainLoop, LoopStep
  <1>5. CASE Poll
    <2>1. answer \in EntityStates
      BY <1>5 DEF Poll, FeedTyped, Feed!ReportAnswer
    <2>. QED BY <1>5, <2>1 DEF Poll, Next, Environment
  <1>6. CASE Stream
    <2>1. Head(events) \in EntityStates
      BY <1>6 DEF Stream, FeedTyped, Feed!ReportEvent
    <2>. QED BY <1>6, <2>1 DEF Stream, Next, Environment
  <1>7. CASE Crash
    BY <1>7 DEF Crash, Next, Environment
  <1>8. CASE Around
    BY <1>8 DEF Around, Next, Environment
  <1>9. CASE UNCHANGED vars
    BY <1>9
  <1>. QED
    BY <1>1, <1>2, <1>3, <1>4, <1>5, <1>6, <1>7, <1>8, <1>9
       DEF SystemNext, systemVars, Asking, Ask, AskBlank, Lose, UserChange, ServeTurnOn, RejectTurnOn

(* Every behaviour of the composed system is one of the watchdog's own.      *)
THEOREM IsWatchdog == SystemSpec => Spec
  <1>1. SystemInit => FeedTyped /\ Init
    BY DEF SystemInit, Feed!Init, FeedTyped
  <1>2. FeedTyped /\ [SystemNext]_systemVars => FeedTyped'
    BY FeedKept
  <1>3. FeedTyped /\ [SystemNext]_systemVars => [Next]_vars
    BY SystemStep
  <1>. QED BY <1>1, <1>2, <1>3, PTL DEF SystemSpec, Spec

(* So it shows what the policy allows: the display goes dark on a report of  *)
(* "off" only, and off-mode ends by a report of "on" or by fresh input.      *)
THEOREM SystemPolicy == SystemSpec => PolicySpec
  BY IsWatchdog, Implements, PTL

(* No report of "on" is dropped as steady state while the system is dark.    *)
THEOREM SystemOnNeverStale == SystemSpec => []OnIsNeverStale
  BY IsWatchdog, OnNeverStale, PTL
=============================================================================
