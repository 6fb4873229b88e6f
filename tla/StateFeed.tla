------------------------------ MODULE StateFeed ------------------------------
(***************************************************************************)
(* What ha.Client.Poll promises the watchdog about one entity: every state   *)
(* it reports is one the entity really had when the report set out, or       *)
(* stands for an answer or an event that came without one; the reports of    *)
(* the event stream come in the order of the changes, though any of them may *)
(* be lost; an answer of the polling floor may be overtaken by the stream    *)
(* and arrive stale.                                                         *)
(*                                                                         *)
(* HAClient.tla implements this promise; Watchdog.tla relies on it.          *)
(***************************************************************************)
EXTENDS Integers, Sequences

CONSTANTS
  States,        \* the states of the entity
  Blanks,        \* what is reported for an answer or event without a state, if there may be one
  NoState,       \* none of these
  MaxEvents      \* bound of the events on their way

VARIABLES
  entity,     \* the state of the entity in Home Assistant
  answer,     \* the answer of a poll on its way, or NoState
  events,     \* the events of the stream on their way
  reported    \* the state reported last, or NoState

vars == <<entity, answer, events, reported>>

Init ==
  /\ entity \in States
  /\ answer = NoState /\ events = <<>> /\ reported = NoState

(* The entity changes (or only its attributes do), by a user, an automation   *)
(* or the watchdog's turn_on; if a stream is open the change is an event,    *)
(* which may lack the state.                                                 *)
Change(st) ==
  /\ entity' = st
  /\ \/ events' = events
     \/ Len(events) < MaxEvents /\ \E r \in {st} \cup Blanks : events' = Append(events, r)
  /\ UNCHANGED <<answer, reported>>

(* A poll is answered with the state of the entity, or without one.          *)
Ask      == answer = NoState /\ answer' = entity /\ UNCHANGED <<entity, events, reported>>
AskBlank == answer = NoState /\ answer' \in Blanks /\ UNCHANGED <<entity, events, reported>>
Forget   == answer # NoState /\ answer' = NoState /\ UNCHANGED <<entity, events, reported>>

(* Events are lost: a line too long, or a connection that ends.              *)
Lose == /\ \E n \in 2..Len(events) + 1 : events' = SubSeq(events, n, Len(events))
        /\ UNCHANGED <<entity, answer, reported>>

ReportAnswer ==
  /\ answer # NoState
  /\ reported' = answer /\ answer' = NoState
  /\ UNCHANGED <<entity, events>>

ReportEvent ==
  /\ events # <<>>
  /\ reported' = Head(events) /\ events' = Tail(events)
  /\ UNCHANGED <<entity, answer>>

Next ==
  \/ \E st \in States : Change(st)
  \/ Ask \/ AskBlank \/ Forget \/ Lose \/ ReportAnswer \/ ReportEvent

Spec == Init /\ [][Next]_vars
=============================================================================
