------------------------------ MODULE HAClient ------------------------------
(***************************************************************************)
(* The Home Assistant client of internal/ha/ha.go: the goroutine of pollLoop, *)
(* the goroutine of Poll with its event stream, and the monitor goroutines   *)
(* that rotate or abort a connection. Home Assistant, the proxies on the way *)
(* and the callback onChange are the environment.                            *)
(*                                                                         *)
(* Timers are untimed: the ticker, the retry delay and the rotation timer    *)
(* may expire at any moment, whatever was read before, so idle.Reset leaves  *)
(* no trace. With the timers of go 1.22 a Reset does not recall an expiry    *)
(* that already happened, so a healthy stream may be rotated too. The logged *)
(* mode is left out.                                                         *)
(*                                                                         *)
(* An event of the stream is three lines: its type, its data and the blank   *)
(* line that ends it. The data is the state of the entity, or Foreign. An    *)
(* answer or an event may also lack the state; what is reported for it is "", *)
(* the member of Blanks.                                                     *)
(***************************************************************************)
EXTENDS Selection

CONSTANTS
  States,        \* the states of the entity
  Blanks,        \* what an answer or an event without a state is reported as
  NoState,       \* none of these
  MaxChanges,    \* bound of the changes of the entity
  MaxEvents,     \* bound of the events on their way
  Aliens,        \* the events that are not a change of the entity: [type, data]
  Conns,         \* names of connections; a name is free once its monitor has ended
  Faults         \* what may go wrong: "Fetch", "Dial", "Status", "Auth", "Line"

NoConn  == 0
Foreign == "foreign"    \* data about something else
Reports == States \cup Blanks
Types   == {"state_changed", "other", "none"}    \* "none": another field's line

ASSUME ClientAssumption ==
  /\ NoState \notin States /\ {MaxChanges, MaxEvents} \subseteq Nat
  /\ NoConn \notin Conns /\ {Foreign, ""} \cap States = {}
  /\ Blanks \cap (States \cup {NoState, Foreign, ""}) = {}    \* here "" is the parser's: no data yet
  /\ Aliens \subseteq [type : Types, data : States \cup {Foreign}]
  /\ \A e \in Aliens : e.type # "state_changed" \/ e.data = Foreign
  /\ Faults \subseteq {"Fetch", "Dial", "Status", "Auth", "Line"}

VARIABLES
  entity, changes,   \* the entity in Home Assistant, and how often it changed
  ctxDone,           \* the context of Poll is cancelled
  poll,              \* program point of pollLoop
  answer,            \* the state State returned to it
  stream,            \* program point of Poll and streamAndRead
  conn,              \* the connection of the current streamAndRead
  pipe,              \* events on their way on it, the head one partly read
  line,              \* which of its lines comes next
  evType, data,      \* what streamAndRead has of it
  event,             \* the state being reported
  watching,          \* the connections whose monitor goroutine is alive
  fired,             \* those whose rotation timer has expired, unread
  closed,            \* the body of the current connection is closed, or its other end
  rotated,           \* its flag rotated
  refused,           \* Home Assistant has answered 401 or 403 to a stream request
  reported           \* the last state handed to onChange, or NoState

server  == <<entity, changes, pipe, line>>
poller  == <<poll, answer>>
parser  == <<evType, data>>
streamer == <<stream, conn, event, parser>>
monitor == <<watching, fired, closed, rotated>>
ghosts  == <<refused, reported>>
vars    == <<server, ctxDone, poller, streamer, monitor, ghosts>>

(* poll is "fetch": State in flight; "deliver": in onChange (or the answer   *)
(* is still on its way); "wait": the select on the ticker; "exit".           *)
(* stream is "head": the test of the loop; "dial": stream.Do; "read":        *)
(* readSSELine; "deliver": in onChange; "retry": the delay; "auth": waiting  *)
(* for ctx.Done; "exit".                                                     *)

Reading(c) == conn = c /\ stream \in {"read", "deliver"}

Init ==
  /\ entity \in States /\ changes = 0 /\ ctxDone = FALSE
  /\ poll = "fetch" /\ answer = NoState
  /\ stream = "head" /\ conn = NoConn /\ pipe = <<>> /\ event = NoState
  /\ line = "event" /\ evType = "" /\ data = ""
  /\ watching = {} /\ fired = {} /\ closed = FALSE /\ rotated = FALSE
  /\ refused = FALSE /\ reported = NoState

-----------------------------------------------------------------------------
(* pollLoop. Its first State (syncOnce) is the fetch it starts in.           *)

PollTick ==
  /\ poll = "wait" /\ poll' = "fetch"
  /\ UNCHANGED <<server, ctxDone, answer, streamer, monitor, ghosts>>

FetchAnswers ==
  /\ poll = "fetch" /\ poll' = "deliver" /\ answer' = entity
  /\ UNCHANGED <<server, ctxDone, streamer, monitor, ghosts>>

(* A body that is empty or names no state is no error to do and State.       *)
FetchBlank ==
  /\ poll = "fetch" /\ poll' = "deliver" /\ answer' \in Blanks
  /\ UNCHANGED <<server, ctxDone, streamer, monitor, ghosts>>

FetchFails_Exit ==                \* mutant: pollLoop returns on an error
  /\ poll = "fetch" /\ ("Fetch" \in Faults \/ ctxDone) /\ poll' = "exit"
  /\ UNCHANGED <<server, ctxDone, answer, streamer, monitor, ghosts>>
FetchFails ==
  /\ poll = "fetch" /\ ("Fetch" \in Faults \/ ctxDone) /\ poll' = "wait"
  /\ UNCHANGED <<server, ctxDone, answer, streamer, monitor, ghosts>>

PollDelivers ==
  /\ poll = "deliver" /\ poll' = "wait"
  /\ reported' = answer /\ answer' = NoState
  /\ UNCHANGED <<server, ctxDone, streamer, monitor, refused>>

(* onChange gives up: the callback of Run selects ctx.Done too. An answer    *)
(* still on its way is lost with the request.                                *)
PollGivesUp_Never == FALSE        \* mutant: the callback only sends
PollGivesUp ==
  /\ poll = "deliver" /\ ctxDone /\ poll' = "wait" /\ answer' = NoState
  /\ UNCHANGED <<server, ctxDone, streamer, monitor, ghosts>>

PollExits ==
  /\ poll = "wait" /\ ctxDone /\ poll' = "exit"
  /\ UNCHANGED <<server, ctxDone, answer, streamer, monitor, ghosts>>

PollLoop == PollTick \/ FetchAnswers \/ FetchBlank \/ FetchFails \/ PollGivesUp \/ PollExits

-----------------------------------------------------------------------------
(* Poll and streamAndRead                                                    *)

StreamHead ==
  /\ stream = "head" /\ stream' = IF ctxDone THEN "exit" ELSE "dial"
  /\ UNCHANGED <<server, ctxDone, poller, conn, event, parser, monitor, ghosts>>

(* How Poll goes on when streamAndRead returned an error that is neither a   *)
(* rotation nor a rejected token.                                            *)
StreamFails == stream' = IF ctxDone THEN "exit" ELSE "retry"

DialFails ==
  /\ stream = "dial" /\ (Faults \cap {"Dial", "Status"} # {} \/ ctxDone)
  /\ StreamFails
  /\ UNCHANGED <<server, ctxDone, poller, conn, event, parser, monitor, ghosts>>

DialRefused_Retry ==              \* mutant: a rejected token is retried
  /\ stream = "dial" /\ "Auth" \in Faults
  /\ refused' = TRUE /\ StreamFails
  /\ UNCHANGED <<server, ctxDone, poller, conn, event, parser, monitor, reported>>

DialRefused ==
  /\ stream = "dial" /\ "Auth" \in Faults
  /\ refused' = TRUE /\ stream' = IF ctxDone THEN "exit" ELSE "auth"
  /\ UNCHANGED <<server, ctxDone, poller, conn, event, parser, monitor, reported>>

(* 200: the monitor goroutine starts. The pipe holds the changes from here.  *)
DialConnects(c) ==
  /\ stream = "dial" /\ c \in Conns \ watching
  /\ stream' = "read" /\ conn' = c
  /\ watching' = watching \cup {c} /\ closed' = FALSE /\ rotated' = FALSE
  /\ UNCHANGED <<entity, changes, pipe, line, ctxDone, poller, event, parser, fired, ghosts>>

(* One line of the head event. Lines buffered before the body was closed are *)
(* still read; data longer than the buffer is drained and skipped.           *)
ReadLine ==
  /\ stream = "read" /\ pipe # <<>>
  /\ \/ /\ line = "event" /\ line' = "data"
        /\ evType' = IF Head(pipe).type = "none" THEN evType ELSE Head(pipe).type
        /\ UNCHANGED data
     \/ /\ line = "data" /\ line' = "blank"
        /\ data' = Head(pipe).data /\ UNCHANGED evType
  /\ UNCHANGED <<entity, changes, pipe, ctxDone, poller, stream, conn, event, monitor, ghosts>>

ReadTooLong ==
  /\ stream = "read" /\ pipe # <<>> /\ "Line" \in Faults
  /\ line = "data" /\ line' = "blank"
  /\ UNCHANGED <<entity, changes, pipe, ctxDone, poller, streamer, monitor, ghosts>>

(* The blank line ends the event: it is reported if it is a change of the    *)
(* entity, and forgotten.                                                    *)
IsChange == evType = "state_changed" /\ data \in Reports

ReadBlank_Keep ==                 \* mutant: evType and data outlive their event
  /\ stream = "read" /\ pipe # <<>> /\ line = "blank"
  /\ line' = "event" /\ pipe' = Tail(pipe)
  /\ IF IsChange THEN event' = data /\ stream' = "deliver" ELSE UNCHANGED <<event, stream>>
  /\ UNCHANGED <<entity, changes, ctxDone, poller, conn, parser, monitor, ghosts>>
ReadBlank ==
  /\ stream = "read" /\ pipe # <<>> /\ line = "blank"
  /\ line' = "event" /\ pipe' = Tail(pipe)
  /\ IF IsChange THEN event' = data /\ stream' = "deliver" ELSE UNCHANGED <<event, stream>>
  /\ evType' = "" /\ data' = ""
  /\ UNCHANGED <<entity, changes, ctxDone, poller, conn, monitor, ghosts>>

StreamDelivers ==
  /\ stream = "deliver" /\ stream' = "read"
  /\ reported' = event /\ event' = NoState
  /\ UNCHANGED <<server, ctxDone, poller, conn, parser, monitor, refused>>

StreamGivesUp ==
  /\ stream = "deliver" /\ ctxDone /\ stream' = "read" /\ event' = NoState
  /\ UNCHANGED <<server, ctxDone, poller, conn, parser, monitor, ghosts>>

(* The read fails: streamAndRead returns, its deferred function closes       *)
(* released and stops the timer. After a rotation Poll reconnects at once.   *)
ReadFails ==
  /\ stream = "read" /\ (closed \/ ctxDone)
  /\ IF ~ctxDone /\ rotated THEN stream' = "head" ELSE StreamFails
  /\ pipe' = <<>> /\ line' = "event" /\ evType' = "" /\ data' = ""
  /\ conn' = NoConn /\ closed' = FALSE /\ rotated' = FALSE
  /\ UNCHANGED <<entity, changes, ctxDone, poller, event, watching, fired, ghosts>>

RetryExpires ==
  /\ stream = "retry" /\ stream' = "head"
  /\ UNCHANGED <<server, ctxDone, poller, conn, event, parser, monitor, ghosts>>

StreamExits ==
  /\ stream \in {"retry", "auth"} /\ ctxDone /\ stream' = "exit"
  /\ UNCHANGED <<server, ctxDone, poller, conn, event, parser, monitor, ghosts>>

StreamLoop ==
  \/ StreamHead \/ DialFails \/ DialRefused \/ ReadLine \/ ReadTooLong \/ ReadBlank \/ StreamGivesUp
  \/ ReadFails \/ RetryExpires \/ StreamExits
  \/ \E c \in Conns : DialConnects(c)

-----------------------------------------------------------------------------
(* The monitor goroutine of connection c and its rotation timer              *)

TimerFires(c) ==
  /\ Reading(c) /\ c \in watching \ fired
  /\ fired' = fired \cup {c}
  /\ UNCHANGED <<server, ctxDone, poller, streamer, watching, closed, rotated, ghosts>>

CloseBody(c) == closed' = (closed \/ conn = c)

MonitorAborts(c) ==
  /\ c \in watching /\ ctxDone
  /\ CloseBody(c) /\ watching' = watching \ {c} /\ fired' = fired \ {c}
  /\ UNCHANGED <<server, ctxDone, poller, streamer, rotated, ghosts>>

MonitorRotates_Shared(c) ==       \* mutant: rotated belongs to the client, not to the connection
  /\ c \in watching /\ c \in fired
  /\ rotated' = TRUE
  /\ CloseBody(c) /\ watching' = watching \ {c} /\ fired' = fired \ {c}
  /\ UNCHANGED <<server, ctxDone, poller, streamer, ghosts>>

(* The flag is stored and the body closed in one step: in between, a read     *)
(* that fails by itself already counts as a rotation, as it does after it.    *)
MonitorRotates(c) ==
  /\ c \in watching /\ c \in fired
  /\ rotated' = (rotated \/ conn = c)
  /\ CloseBody(c) /\ watching' = watching \ {c} /\ fired' = fired \ {c}
  /\ UNCHANGED <<server, ctxDone, poller, streamer, ghosts>>

MonitorReleased(c) ==
  /\ c \in watching /\ ~Reading(c)
  /\ watching' = watching \ {c} /\ fired' = fired \ {c}
  /\ UNCHANGED <<server, ctxDone, poller, streamer, closed, rotated, ghosts>>

Monitor(c) == MonitorAborts(c) \/ MonitorRotates(c) \/ MonitorReleased(c)

-----------------------------------------------------------------------------
(* The environment                                                           *)

(* Home Assistant or a proxy sends an event, if there is a stream for it.    *)
Send(e) ==
  /\ conn # NoConn /\ ~closed /\ Len(pipe) + (IF event = NoState THEN 0 ELSE 1) < MaxEvents
  /\ pipe' = Append(pipe, e)

(* The entity changes, or only its attributes; a proxy may keep the event,   *)
(* and the new state in it may lack its state.                               *)
Change(st) ==
  /\ changes < MaxChanges
  /\ entity' = st /\ changes' = changes + 1
  /\ UNCHANGED pipe \/ \E r \in {st} \cup Blanks : Send([type |-> "state_changed", data |-> r])
  /\ UNCHANGED <<line, ctxDone, poller, streamer, monitor, ghosts>>

SendAlien ==
  /\ \E e \in Aliens : Send(e)
  /\ UNCHANGED <<entity, changes, line, ctxDone, poller, streamer, monitor, ghosts>>

ServerEnds ==
  /\ conn # NoConn /\ closed' = TRUE
  /\ UNCHANGED <<server, ctxDone, poller, streamer, watching, fired, rotated, ghosts>>

Cancel ==
  /\ ctxDone' = TRUE
  /\ UNCHANGED <<server, poller, streamer, monitor, ghosts>>

Environment ==
  \/ ServerEnds \/ Cancel \/ PollDelivers \/ StreamDelivers \/ SendAlien
  \/ \E st \in States : Change(st)
  \/ \E c \in Conns : TimerFires(c)

Next == PollLoop \/ StreamLoop \/ (\E c \in Conns : Monitor(c)) \/ Environment

Spec == Init /\ [][Next]_vars

(* The goroutines run. Nothing is assumed of onChange, and nothing of the    *)
(* stream but that a cancelled context aborts the request. SF: a select      *)
(* with ctx.Done ready does not choose another case for ever.                *)
Fairness ==
  /\ WF_vars(PollLoop) /\ SF_vars(PollExits)
  /\ WF_vars(StreamHead \/ StreamGivesUp \/ ReadFails \/ RetryExpires \/ (ctxDone /\ DialFails))
  /\ SF_vars(StreamExits)
  /\ \A c \in Conns : WF_vars(Monitor(c))

FairSpec == Spec /\ Fairness

-----------------------------------------------------------------------------
(* Properties                                                                *)

(* A rejected token is never offered to the stream again: the client stays   *)
(* with polling until it ends (comment at errAuthFailed).                    *)
AuthNeverHammers == refused => stream \in {"auth", "exit"}

(* Only the monitor that sees its own connection's timer expire lets Poll    *)
(* reconnect without a delay, and it has closed the body by then.            *)
RotationIsOwn == rotated => closed /\ conn \notin watching

(* The guaranteed polling floor: if onChange returns and Home Assistant       *)
(* answers with the state again and again, the last state reported ends up   *)
(* being the state of the entity, whatever the stream does, but for answers  *)
(* without a state in between.                                               *)
Answering == WF_vars(PollDelivers) /\ SF_vars(FetchAnswers)
CatchesUp ==
  Answering => /\ <>[](ctxDone \/ reported \in {entity} \cup Blanks)
               /\ []<>(ctxDone \/ reported = entity)

(* A cancelled context ends every goroutine, even if nobody takes reports.   *)
AllExit == ctxDone ~> poll = "exit" /\ stream = "exit" /\ watching = {}

(* The client implements the promise of StateFeed: whatever else comes on    *)
(* the stream, in pieces or too long, what it reports is one of the changes  *)
(* of the entity, each at most once and in their order, or the answer of a   *)
(* poll; what is no state of the entity came without one.                    *)
OwnEvents == Select(pipe, [type : {"state_changed"}, data : Reports])
StatesOf(es) == [i \in DOMAIN es |-> es[i].data]
Feed == INSTANCE StateFeed WITH
  events <- IF stream = "deliver" THEN <<event>> \o StatesOf(OwnEvents) ELSE StatesOf(OwnEvents)

FeedSpec == Feed!Spec
=============================================================================
