---------------------------- MODULE ScreenPolicy ----------------------------
(***************************************************************************)
(* What scroff promises its user about the display, whatever the order of   *)
(* Home Assistant reports, input events and failing screen commands:        *)
(*                                                                         *)
(*   - the watchdog goes dark only when it acts on a report of "off";       *)
(*   - the display is switched off by the watchdog only while it is dark;   *)
(*   - it stops being dark only by lighting the display, and only because   *)
(*     it acts on a report of "on" or because the user touched mouse or     *)
(*     keyboard after it went dark.                                         *)
(*                                                                         *)
(* This is the package comment of internal/controller/controller.go (lines  *)
(* 4-12) as a specification; Controller.tla is shown to implement it.       *)
(***************************************************************************)
EXTENDS Integers

CONSTANT MaxTime    \* bound of the clock

VARIABLES
  display,   \* "on" or "off": the power state of the display
  dark,      \* off-mode: the watchdog keeps the display off
  since,     \* when the watchdog went dark
  heard,     \* when the user last touched mouse or keyboard
  clock,     \* the time
  told       \* the report being acted on: "on", "off" or "none"

vars == <<display, dark, since, heard, clock, told>>

Told == {"on", "off", "none"}

Init ==
  /\ display \in {"on", "off"}
  /\ dark = FALSE
  /\ since = 0
  /\ heard = 0
  /\ clock = 0
  /\ told \in {"none"}

\* A report arrives; a report of "off" makes the watchdog go dark.
HearOn  == told = "none" /\ told' = "on" /\ UNCHANGED <<display, dark, since, heard, clock>>
HearOff ==
  /\ told = "none" /\ ~dark
  /\ told' = "off" /\ dark' = TRUE /\ since' = clock
  /\ UNCHANGED <<display, heard, clock>>

\* The report has been dealt with. A failed "on" leaves the watchdog dark.
Forget == told # "none" /\ told' = "none" /\ UNCHANGED <<dark, since, heard, clock>>
            /\ (display' = display \/ display' = "on" \/ (dark /\ display' = "off"))

\* The display is switched off, only while dark.
Blank == dark /\ display' = "off" /\ UNCHANGED <<dark, since, heard, clock, told>>

\* Anything may light the display: a notification, another program, the restore on exit.
Light == display' = "on" /\ UNCHANGED <<dark, since, heard, clock, told>>

\* The end of darkness: the display is lit, for one of the two good reasons.
Rise ==
  /\ dark
  /\ told = "on" \/ heard > since
  /\ dark' = FALSE /\ display' = "on" /\ told' = "none"
  /\ UNCHANGED <<since, heard, clock>>

\* The process ends (its memory is gone), and a new one starts from nothing.
Reset ==
  /\ dark' = FALSE /\ since' = 0 /\ told' = "none"
  /\ heard' \in {heard, clock}
  /\ UNCHANGED <<display, clock>>

Touch == heard' = clock /\ UNCHANGED <<display, dark, since, clock, told>>
Pass  == clock < MaxTime /\ clock' = clock + 1 /\ UNCHANGED <<display, dark, since, heard, told>>

Next == HearOn \/ HearOff \/ Forget \/ Blank \/ Light \/ Rise \/ Reset \/ Touch \/ Pass

Spec == Init /\ [][Next]_vars
=============================================================================
