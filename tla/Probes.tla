------------------------------- MODULE Probes -------------------------------
(***************************************************************************)
(* The watchdog with the input watchers that, unlike the one of Controller,  *)
(* are not always exact:                                                     *)
(*   - "cached": ioreg (macOS) and xprintidle (X11), which remember the last *)
(*     idle time for a second, as it was measured, and answer with it again  *)
(*     when a later probe fails;                                             *)
(*   - "ticks": GetLastInputInfo (Windows), which subtracts two tick counts  *)
(*     of the system; the count wraps (every 49.7 days, at 2^32 ms), and a   *)
(*     last input that seems to lie in the future is taken for the present.  *)
(* Controller is everything else, an answer of -1 included.                   *)
(***************************************************************************)
EXTENDS Controller

CONSTANTS
  Kinds,       \* the watchers of this instance
  TTL,         \* the second a measurement is kept, in clock units
  Wrap,        \* the tick count wraps at this value (2^32)
  BootTick     \* the count when the clock of Controller is at 0

ASSUME ProbeAssumption ==
  /\ HasInput /\ Kinds \subseteq {"cached", "ticks"}
  /\ TTL \in Nat \ {0} /\ Wrap \in Nat \ {0} /\ BootTick \in 0..Wrap - 1

VARIABLES
  kind,         \* the watcher of this machine,
  failing,      \* and whether its probes may fail; both for good
  lastAt,       \* the fields of the cached watchers: when it last probed,
  lastIdle,     \* the idle time it measured last,
  haveCache,    \* whether it measured any
  failed        \* the last answer stands for a probe that failed

machine == <<kind, failing>>
cache == <<lastAt, lastIdle, haveCache, failed>>
probeVars == <<vars, machine, cache>>

measurement == <<lastAt, lastIdle, haveCache>>

Empty == lastAt = 0 /\ lastIdle = 0 /\ haveCache = FALSE /\ failed = FALSE

ProbeInit ==
  /\ Init /\ Empty
  /\ kind \in Kinds
  /\ failing \in BOOLEAN /\ (failing => "IdleSince" \in Faults)

-----------------------------------------------------------------------------
(* IdleSince                                                                 *)

Cached_Forever == haveCache       \* mutant: a measurement never expires
Cached == haveCache /\ now - lastAt < TTL

Remembered(idle) == Cached /\ idle = lastIdle /\ UNCHANGED cache

Measured(idle) ==
  /\ ~Cached /\ idle = now - lastInput
  /\ lastAt' = now /\ lastIdle' = idle /\ haveCache' = TRUE /\ failed' = FALSE

ProbeFails(idle) ==
  /\ ~Cached /\ failing
  /\ idle = IF haveCache THEN lastIdle ELSE -1
  /\ lastAt' = now /\ failed' = TRUE /\ UNCHANGED <<lastIdle, haveCache>>

TickOf(t) == (BootTick + t) % Wrap

(* GetLastInputInfo may fail. When it does not, the two counts are compared: *)
(* getTick comes after GetLastInputInfo, in the same clock unit.             *)
TickIdle_Unknown ==               \* mutant: a wrapped count is no answer
  LET dwTime == TickOf(lastInput)
      tick   == TickOf(now)
  IN  IF dwTime > tick THEN -1 ELSE tick - dwTime
TickIdle ==
  LET dwTime == TickOf(lastInput)
      tick   == TickOf(now)
  IN  IF dwTime > tick THEN 0 ELSE tick - dwTime


Ticks(idle)     == idle = TickIdle /\ failed' = FALSE /\ UNCHANGED measurement
TicksFail(idle) == failing /\ idle = -1 /\ failed' = TRUE /\ UNCHANGED measurement

Probe(idle) ==
  \/ kind = "ticks" /\ (Ticks(idle) \/ TicksFail(idle))
  \/ kind = "cached" /\ (Remembered(idle) \/ Measured(idle) \/ ProbeFails(idle))

-----------------------------------------------------------------------------
(* The steps of Controller, with the probe of watch in off-mode              *)

ProbeTick ==
  \/ offMode /\ \E idle \in {-1, lastIdle, now - lastInput, TickIdle} : Probe(idle) /\ WatchTick(idle)
  \/ ~offMode /\ WatchTick(-1) /\ UNCHANGED cache

ProbeLoop == (ProbeTick \/ (LoopStep /\ UNCHANGED cache)) /\ UNCHANGED machine

(* One process: a new one would start with an empty cache, like the first.   *)
(* Bound: once it has ended the model stops.                                 *)
ProbeNext ==
  \/ ProbeLoop
  \/ /\ Running /\ (DisplayLit \/ Input \/ Signal \/ Tick \/ \E st \in EntityStates : Report(st))
     /\ UNCHANGED <<machine, cache>>

ProbeSpec == ProbeInit /\ [][ProbeNext]_probeVars
FairProbeSpec ==
  ProbeSpec /\ WF_probeVars(ProbeLoop) /\ SF_probeVars(Shutdown /\ UNCHANGED <<machine, cache>>)

-----------------------------------------------------------------------------
(* Properties                                                                *)

(* The promise of the product: a touch of mouse or keyboard after the screen *)
(* went off wakes it by the next watch tick, plus the second a measurement   *)
(* may be kept, less the instant it expires, whenever that is below the      *)
(* activity threshold and the probe and On work. (watch, wakeEligible; with  *)
(* an interval as long as the threshold a single touch may be overlooked.)   *)
Latency == WatchInterval + IF kind = "cached" THEN TTL - 1 ELSE 0
TouchWakes ==
  Punctual /\ ~failing /\ "On" \notin Faults /\ Latency < ActiveThreshold /\ offMode /\ AtSelect
    /\ lastInput > offSince => now - lastInput <= Latency

(* What is true of a wake that no failed probe and no wrap has caused: the   *)
(* input it is owed to is younger than the threshold and the second of the   *)
(* cache together.                                                           *)
WakeIsRecent ==
  [][pc # "wake" /\ pc' = "wake" /\ ~failed' /\ kind # "ticks" =>
       now - lastInput < ActiveThreshold + TTL]_probeVars

(* To treat a wrap as activity is the safe side for the user's return: input *)
(* after off-mode and younger than the threshold is never overlooked by a    *)
(* tick of the Windows watcher, wrap or not (comment in IdleSince), except   *)
(* by a tick whose probe fails: its answer is -1, which is no activity.      *)
WatchServed == AtSelect /\ offMode /\ tickAt' # tickAt
ReturnIsNoticed ==
  [][WatchServed /\ kind = "ticks" /\ ~failed'
       /\ lastInput > offSince /\ now - lastInput < ActiveThreshold => pc' = "wake"]_probeVars

(* What internal/controller/controller.go:150-152 says of every watcher:     *)
(* input that predates off-mode does not wake the display. With "cached" the *)
(* remembered idle time does not age while the clock goes on; with "ticks",  *)
(* against input_windows.go:37, a wrap makes an old input a present one.     *)
WakeIsAfterOff == [][pc # "wake" /\ pc' = "wake" => lastInput > offSince]_probeVars
=============================================================================
