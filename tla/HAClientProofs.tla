--------------------------- MODULE HAClientProofs ---------------------------
(***************************************************************************)
(* The safety properties of HAClient for any states, events, connections and *)
(* faults: what a rejected token and a rotated connection lead to, and that  *)
(* the client keeps the promise of StateFeed.                                *)
(***************************************************************************)
EXTENDS HAClient, SelectionProofs

Events == [type : Types, data : Reports \cup {Foreign}]
OwnSet == [type : {"state_changed"}, data : Reports]

TypeOK ==
  /\ entity \in States /\ answer \in Reports \cup {NoState}
  /\ poll \in {"fetch", "deliver", "wait", "exit"}
  /\ stream \in {"head", "dial", "read", "deliver", "retry", "auth", "exit"}
  /\ event \in Reports \cup {NoState} /\ reported \in Reports \cup {NoState}
  /\ pipe \in Seq(Events) /\ line \in {"event", "data", "blank"}
  /\ closed \in BOOLEAN /\ rotated \in BOOLEAN /\ refused \in BOOLEAN

(* There is an answer, or an event, exactly while it is being delivered.     *)
Delivering ==
  /\ answer # NoState <=> poll = "deliver"
  /\ event # NoState <=> stream = "deliver"

(* What streamAndRead has of an event is of the event it is reading.         *)
Parsing ==
  /\ line = "event" => evType = "" /\ data = ""
  /\ line # "event" => pipe # <<>> /\ evType \in {"", Head(pipe).type}
  /\ line = "data"  => data = ""
  /\ line = "blank" => data \in {"", Head(pipe).data}

IInv == TypeOK /\ Delivering /\ Parsing /\ AuthNeverHammers /\ RotationIsOwn

-----------------------------------------------------------------------------
(* The assumption, in the parts the proofs use                               *)

LEMMA StateNames ==
  /\ NoState \notin Reports /\ Foreign \notin Reports /\ "" \notin Reports
  /\ NoConn \notin Conns
  <1>1. /\ NoState \notin States /\ NoConn \notin Conns /\ {Foreign, ""} \cap States = {}
        /\ Blanks \cap (States \cup {NoState, Foreign, ""}) = {}
    BY ClientAssumption, Zenon
  <1>. QED BY <1>1 DEF Reports

LEMMA AlienEvents ==
  ASSUME NEW e \in Aliens
  PROVE  e \in Events /\ e \notin OwnSet
  <1>1. e \in Events
    <2>1. e \in [type : Types, data : States \cup {Foreign}]
      BY ClientAssumption, Zenon
    <2>. QED BY <2>1 DEF Events, Reports
  <1>2. e.type # "state_changed" \/ e.data = Foreign
    BY ClientAssumption, Zenon
  <1>3. ASSUME e \in OwnSet PROVE e.type = "state_changed" /\ e.data \in Reports
    BY <1>3 DEF OwnSet
  <1>. QED BY <1>1, <1>2, <1>3, StateNames, Zenon

LEMMA OwnEvent ==
  ASSUME NEW st \in Reports
  PROVE  LET e == [type |-> "state_changed", data |-> st] IN e \in Events /\ e \in OwnSet /\ e.data = st
  BY DEF Events, OwnSet, Types

-----------------------------------------------------------------------------
(* The pipe                                                                  *)

LEMMA Sent ==
  ASSUME TypeOK, NEW e \in Events, Send(e)
  PROVE  /\ pipe' \in Seq(Events)
         /\ pipe' = Append(pipe, e)
         /\ pipe # <<>> => pipe' # <<>> /\ Head(pipe') = Head(pipe)
  <1>1. pipe \in Seq(Events) /\ pipe' = Append(pipe, e)
    BY DEF TypeOK, Send
  <1>2. ASSUME NEW s \in Seq(Events), s # <<>>
        PROVE  Append(s, e) # <<>> /\ Head(Append(s, e)) = Head(s)
    BY <1>2
  <1>. QED BY <1>1, <1>2

LEMMA Rest ==
  ASSUME TypeOK, pipe # <<>>
  PROVE  Tail(pipe) \in Seq(Events) /\ Head(pipe) \in Events
  BY DEF TypeOK

LEMMA HeadFields ==
  ASSUME NEW e \in Events
  PROVE  /\ e.type \in Types /\ e.data \in Reports \cup {Foreign}
         /\ e = [type |-> e.type, data |-> e.data]
         /\ e \in OwnSet <=> e.type = "state_changed" /\ e.data \in Reports
  BY DEF Events, OwnSet

(* A line of the head event makes what the parser has of it no older.        *)
LEMMA LineParsed ==
  ASSUME TypeOK, Parsing, ReadLine \/ ReadTooLong
  PROVE  Parsing'
  <1>1. CASE ReadTooLong
    BY <1>1 DEF ReadTooLong, Parsing, server, streamer, parser
  <1>2. CASE ReadLine
    BY <1>2 DEF ReadLine, Parsing
  <1>. QED BY <1>1, <1>2

-----------------------------------------------------------------------------
(* The inductive invariant                                                   *)

LEMMA Initially ==
  ASSUME Init
  PROVE  IInv
  <1>1. pipe \in Seq(Events)
    BY EmptySeq, Zenon DEF Init
  <1>2. TypeOK
    BY <1>1 DEF Init, TypeOK
  <1>3. Delivering /\ Parsing /\ AuthNeverHammers /\ RotationIsOwn
    BY DEF Init, Delivering, Parsing, AuthNeverHammers, RotationIsOwn
  <1>. QED BY <1>2, <1>3 DEF IInv

LEMMA PollLoopKeeps ==
  ASSUME IInv, PollLoop \/ PollDelivers
  PROVE  IInv'
  <1>. USE DEF server, streamer, parser, monitor, ghosts
  <1>1. UNCHANGED <<entity, pipe, line, evType, data, stream, event, closed, rotated, refused, conn, watching>>
    BY DEF PollLoop, PollTick, FetchAnswers, FetchBlank, FetchFails, PollGivesUp, PollExits, PollDelivers
  <1>2. Parsing' /\ AuthNeverHammers' /\ RotationIsOwn'
    BY <1>1 DEF IInv, Parsing, AuthNeverHammers, RotationIsOwn
  <1>3. /\ poll' \in {"fetch", "deliver", "wait", "exit"}
        /\ answer' \in Reports \cup {NoState} /\ reported' \in Reports \cup {NoState}
        /\ answer' # NoState <=> poll' = "deliver"
    <2>. USE StateNames DEF IInv, TypeOK, Delivering
    <2>1. CASE PollTick       BY <2>1 DEF PollTick
    <2>2. CASE FetchAnswers   BY <2>2 DEF FetchAnswers, Reports
    <2>3. CASE FetchBlank     BY <2>3 DEF FetchBlank, Reports
    <2>4. CASE FetchFails     BY <2>4 DEF FetchFails
    <2>5. CASE PollGivesUp    BY <2>5 DEF PollGivesUp
    <2>6. CASE PollExits      BY <2>6 DEF PollExits
    <2>7. CASE PollDelivers   BY <2>7 DEF PollDelivers
    <2>. QED BY <2>1, <2>2, <2>3, <2>4, <2>5, <2>6, <2>7 DEF PollLoop
  <1>4. TypeOK' /\ Delivering'
    BY <1>1, <1>3 DEF IInv, TypeOK, Delivering
  <1>. QED BY <1>2, <1>4 DEF IInv

(* The steps of Poll between two connections.                                *)
LEMMA BetweenConnections ==
  ASSUME IInv, StreamHead \/ DialFails \/ DialRefused \/ RetryExpires \/ StreamExits
  PROVE  IInv'
  <1>. USE DEF server, poller, parser, monitor, ghosts
  <1>1. UNCHANGED <<entity, pipe, line, poll, answer, evType, data, event, closed, rotated, conn, watching, reported>>
    BY DEF StreamHead, DialFails, DialRefused, RetryExpires, StreamExits
  <1>2. /\ stream' \in {"head", "dial", "retry", "auth", "exit"} /\ stream # "deliver"
        /\ refused' \in BOOLEAN /\ (refused' => stream' \in {"auth", "exit"})
    <2>. USE DEF StreamFails, IInv, TypeOK, AuthNeverHammers
    <2>1. CASE StreamHead     BY <2>1 DEF StreamHead
    <2>2. CASE DialFails      BY <2>2 DEF DialFails
    <2>3. CASE DialRefused    BY <2>3 DEF DialRefused
    <2>4. CASE RetryExpires   BY <2>4 DEF RetryExpires
    <2>5. CASE StreamExits    BY <2>5 DEF StreamExits
    <2>. QED BY <2>1, <2>2, <2>3, <2>4, <2>5
  <1>3. TypeOK' /\ Delivering' /\ Parsing' /\ RotationIsOwn'
    BY <1>1, <1>2 DEF IInv, TypeOK, Delivering, Parsing, RotationIsOwn
  <1>. QED BY <1>2, <1>3 DEF IInv, AuthNeverHammers

LEMMA ConnectKeeps ==
  ASSUME IInv, NEW c \in Conns, DialConnects(c)
  PROVE  IInv'
  <1>. USE DEF poller, parser, ghosts
  <1>1. AuthNeverHammers' /\ RotationIsOwn'
    BY DEF IInv, DialConnects, AuthNeverHammers, RotationIsOwn
  <1>2. TypeOK' /\ Delivering' /\ Parsing'
    BY DEF IInv, DialConnects, TypeOK, Delivering, Parsing
  <1>. QED BY <1>1, <1>2 DEF IInv

(* The steps of streamAndRead on a connection.                               *)
LEMMA ReadingKeeps ==
  ASSUME IInv, ReadLine \/ ReadTooLong \/ ReadBlank \/ StreamDelivers \/ StreamGivesUp \/ ReadFails
  PROVE  IInv'
  <1>. USE DEF server, poller, streamer, parser, monitor, ghosts
  <1>1. RotationIsOwn'
    <2>1. CASE ReadFails
      BY <2>1 DEF ReadFails, RotationIsOwn
    <2>2. CASE UNCHANGED <<conn, watching, closed, rotated>>
      BY <2>2 DEF IInv, RotationIsOwn
    <2>. QED BY <2>1, <2>2 DEF ReadLine, ReadTooLong, ReadBlank, StreamDelivers, StreamGivesUp
  <1>2. AuthNeverHammers'
    BY DEF IInv, AuthNeverHammers, ReadLine, ReadTooLong, ReadBlank, StreamDelivers, StreamGivesUp, ReadFails
  <1>3. Parsing'
    <2>1. CASE ReadLine \/ ReadTooLong
      BY <2>1, LineParsed DEF IInv
    <2>2. CASE ReadBlank \/ ReadFails
      BY <2>2 DEF ReadBlank, ReadFails, Parsing
    <2>3. CASE StreamDelivers \/ StreamGivesUp
      BY <2>3 DEF StreamDelivers, StreamGivesUp, IInv, Parsing
    <2>. QED BY <2>1, <2>2, <2>3
  <1>4. /\ pipe' \in Seq(Events)
        /\ UNCHANGED <<entity, poll, answer, refused>>
        /\ line' \in {"event", "data", "blank"}
        /\ closed' \in BOOLEAN /\ rotated' \in BOOLEAN
    <2>1. <<>> \in Seq(Events)
      OBVIOUS
    <2>. QED BY <2>1, Rest DEF IInv, TypeOK, ReadLine, ReadTooLong, ReadBlank, StreamDelivers,
                               StreamGivesUp, ReadFails
  <1>5. /\ event' \in Reports \cup {NoState} /\ reported' \in Reports \cup {NoState}
        /\ stream' \in {"head", "read", "deliver", "retry", "exit"}
        /\ event' # NoState <=> stream' = "deliver"
    <2>. USE StateNames DEF IInv, TypeOK, Delivering
    <2>1. CASE ReadLine       BY <2>1 DEF ReadLine
    <2>2. CASE ReadTooLong    BY <2>2 DEF ReadTooLong
    <2>3. CASE ReadBlank      BY <2>3 DEF ReadBlank, IsChange
    <2>4. CASE StreamDelivers BY <2>4 DEF StreamDelivers
    <2>5. CASE StreamGivesUp  BY <2>5 DEF StreamGivesUp
    <2>6. CASE ReadFails      BY <2>6 DEF ReadFails, StreamFails
    <2>. QED BY <2>1, <2>2, <2>3, <2>4, <2>5, <2>6
  <1>6. TypeOK' /\ Delivering'
    BY <1>4, <1>5 DEF IInv, TypeOK, Delivering
  <1>. QED BY <1>1, <1>2, <1>3, <1>6 DEF IInv

(* The monitors, the timers, the other end of the connection, the context.   *)
LEMMA MonitorKeeps ==
  ASSUME IInv, ServerEnds \/ Cancel \/ \E c \in Conns : Monitor(c) \/ TimerFires(c)
  PROVE  IInv'
  <1>. USE DEF server, poller, streamer, parser, monitor, ghosts, Monitor
  <1>1. UNCHANGED <<entity, pipe, line, poll, answer, stream, evType, data, event, refused, reported, conn>>
    BY DEF ServerEnds, Cancel, MonitorAborts, MonitorRotates, MonitorReleased, TimerFires
  <1>2. closed' \in BOOLEAN /\ rotated' \in BOOLEAN /\ RotationIsOwn'
    <2>. USE DEF IInv, TypeOK, RotationIsOwn, CloseBody
    <2>1. ASSUME ServerEnds \/ Cancel
          PROVE  closed' \in BOOLEAN /\ rotated' \in BOOLEAN /\ RotationIsOwn'
      <3>1. closed' \in {TRUE, closed} /\ UNCHANGED <<conn, watching, rotated>>
        BY <2>1 DEF ServerEnds, Cancel
      <3>. QED BY <3>1, Zenon
    <2>2. ASSUME NEW c \in Conns, MonitorAborts(c) \/ MonitorRotates(c)
          PROVE  /\ closed' = (closed \/ conn = c) /\ watching' = watching \ {c}
                 /\ rotated' \in {rotated, rotated \/ conn = c} /\ UNCHANGED conn
      BY <2>2 DEF MonitorAborts, MonitorRotates
    <2>3. ASSUME NEW c \in Conns, MonitorAborts(c) \/ MonitorRotates(c)
          PROVE  closed' \in BOOLEAN /\ rotated' \in BOOLEAN /\ RotationIsOwn'
      <3>1. closed' \in BOOLEAN
        BY <2>2, <2>3, Zenon
      <3>2. rotated' \in BOOLEAN
        BY <2>2, <2>3, Zenon
      <3>3. RotationIsOwn'
        <4>1. /\ rotated' => rotated \/ conn = c
              /\ rotated => closed /\ conn \notin watching
          BY <2>2, <2>3, Zenon
        <4>2. /\ closed' = (closed \/ conn = c) /\ conn' = conn
              /\ conn \notin watching' <=> conn \notin watching \/ conn = c
          BY <2>2, <2>3, Zenon
        <4>. QED BY <4>1, <4>2, Zenon
      <3>. QED BY <3>1, <3>2, <3>3
    <2>4. ASSUME NEW c \in Conns, MonitorReleased(c)
          PROVE  closed' \in BOOLEAN /\ rotated' \in BOOLEAN /\ RotationIsOwn'
      BY <2>4 DEF MonitorReleased
    <2>5. ASSUME NEW c \in Conns, TimerFires(c)
          PROVE  closed' \in BOOLEAN /\ rotated' \in BOOLEAN /\ RotationIsOwn'
      BY <2>5 DEF TimerFires
    <2>. QED BY <2>1, <2>3, <2>4, <2>5
  <1>3. TypeOK' /\ Delivering' /\ Parsing' /\ AuthNeverHammers'
    BY <1>1, <1>2 DEF IInv, TypeOK, Delivering, Parsing, AuthNeverHammers
  <1>. QED BY <1>2, <1>3 DEF IInv

(* A change of the entity, or an alien event.                                *)
LEMMA SendKeeps ==
  ASSUME IInv, SendAlien \/ \E st \in States : Change(st)
  PROVE  IInv'
  <1>. USE DEF poller, streamer, parser, monitor, ghosts
  <1>1. /\ UNCHANGED <<line, poll, answer, stream, conn, event, evType, data, watching,
                       closed, rotated, refused, reported>>
        /\ entity' \in States
    BY DEF SendAlien, Change, IInv, TypeOK
  <1>2. /\ pipe' \in Seq(Events)
        /\ pipe # <<>> => pipe' # <<>> /\ Head(pipe') = Head(pipe)
    <2>1. CASE UNCHANGED pipe
      BY <2>1 DEF IInv, TypeOK
    <2>2. ASSUME NEW e \in Events, Send(e) PROVE <1>2!:
      BY <2>2, Sent DEF IInv
    <2>3. CASE SendAlien
      BY <2>3, <2>2, AlienEvents DEF SendAlien
    <2>4. ASSUME NEW st \in States, Change(st) PROVE <1>2!:
      <3>1. ASSUME NEW r \in {st} \cup Blanks, Send([type |-> "state_changed", data |-> r]) PROVE <1>2!:
        BY <3>1, <2>2, OwnEvent DEF Reports
      <3>. QED BY <2>4, <2>1, <3>1 DEF Change
    <2>. QED BY <2>3, <2>4
  <1>3. TypeOK' /\ Delivering' /\ AuthNeverHammers' /\ RotationIsOwn'
    BY <1>1, <1>2 DEF IInv, TypeOK, Delivering, AuthNeverHammers, RotationIsOwn
  <1>4. Parsing'
    BY <1>1, <1>2 DEF IInv, Parsing
  <1>. QED BY <1>3, <1>4 DEF IInv

LEMMA StutterKeeps ==
  ASSUME IInv, UNCHANGED vars
  PROVE  IInv'
  <1>. USE DEF vars, server, poller, streamer, parser, monitor, ghosts
  <1>1. TypeOK' /\ Delivering'
    BY DEF IInv, TypeOK, Delivering
  <1>2. Parsing' /\ AuthNeverHammers' /\ RotationIsOwn'
    BY DEF IInv, Parsing, AuthNeverHammers, RotationIsOwn
  <1>. QED BY <1>1, <1>2 DEF IInv

(* TypeOK, Delivering, Parsing and the two properties below always hold.     *)
THEOREM ClientInvariance == Spec => []IInv
  <1>1. IInv /\ [Next]_vars => IInv'
    <2>. SUFFICES ASSUME IInv, [Next]_vars PROVE IInv'
      OBVIOUS
    <2>1. ASSUME NEW c \in Conns, DialConnects(c) PROVE IInv'
      BY <2>1, ConnectKeeps
    <2>. QED BY <2>1, PollLoopKeeps, BetweenConnections, ReadingKeeps, MonitorKeeps, SendKeeps, StutterKeeps
             DEF Next, StreamLoop, Environment
  <1>. QED BY <1>1, Initially, PTL DEF Spec

(* A rejected token is never offered to the stream again.                    *)
THEOREM NeverHammers == Spec => []AuthNeverHammers
  <1>1. IInv => AuthNeverHammers
    BY DEF IInv
  <1>. QED BY <1>1, ClientInvariance, PTL

(* Only a monitor that has closed its own connection's body lets Poll        *)
(* reconnect without a delay.                                                *)
THEOREM RotatedByOwn == Spec => []RotationIsOwn
  <1>1. IInv => RotationIsOwn
    BY DEF IInv
  <1>. QED BY <1>1, ClientInvariance, PTL

-----------------------------------------------------------------------------
(* Sequences of states                                                       *)

LEMMA SameSeq ==
  ASSUME NEW S, NEW s \in Seq(S), NEW t \in Seq(S), Len(s) = Len(t),
         \A i \in 1..Len(s) : s[i] = t[i]
  PROVE  s = t
  BY SeqEqual

LEMMA StatesTyped ==
  ASSUME NEW es \in Seq(OwnSet)
  PROVE  /\ StatesOf(es) \in Seq(Reports) /\ Len(StatesOf(es)) = Len(es)
         /\ \A i \in 1..Len(es) : StatesOf(es)[i] = es[i].data
  <1> DEFINE n == Len(es)
  <1>1. n \in Nat /\ DOMAIN es = 1..n
    BY LenProperties
  <1>2. ASSUME NEW i \in 1..n PROVE es[i].data \in Reports
    <2>1. es[i] \in OwnSet
      BY <1>1, ElementOfSeq
    <2>. QED BY <2>1 DEF OwnSet
  <1>3. StatesOf(es) = [i \in 1..n |-> es[i].data]
    BY <1>1 DEF StatesOf
  <1>4. StatesOf(es) \in [1..n -> Reports]
    BY <1>2, <1>3
  <1>. HIDE DEF n
  <1>5. StatesOf(es) \in Seq(Reports) /\ Len(StatesOf(es)) = n
    BY <1>1, <1>4, FunctionIsSeq
  <1>6. \A i \in 1..n : StatesOf(es)[i] = es[i].data
    BY <1>3
  <1>. QED BY <1>5, <1>6 DEF n

LEMMA StatesEmpty == StatesOf(<<>>) = <<>>
  <1>1. <<>> \in Seq(OwnSet) /\ Len(<<>>) = 0
    BY EmptySeq
  <1>2. StatesOf(<<>>) \in Seq(Reports) /\ Len(StatesOf(<<>>)) = 0
    BY <1>1, StatesTyped
  <1>. QED BY <1>2, EmptySeq

LEMMA StatesAppend ==
  ASSUME NEW es \in Seq(OwnSet), NEW e \in OwnSet
  PROVE  StatesOf(Append(es, e)) = Append(StatesOf(es), e.data)
  <1> DEFINE l == StatesOf(Append(es, e))
             r == Append(StatesOf(es), e.data)
             n == Len(es)
  <1>1. /\ Append(es, e) \in Seq(OwnSet) /\ Len(Append(es, e)) = n + 1 /\ n \in Nat
        /\ \A i \in 1..n : Append(es, e)[i] = es[i]
        /\ Append(es, e)[n + 1] = e
    BY AppendProperties, LenProperties
  <1>2. /\ StatesOf(es) \in Seq(Reports) /\ Len(StatesOf(es)) = n
        /\ \A i \in 1..n : StatesOf(es)[i] = es[i].data
    BY StatesTyped
  <1>3. e.data \in Reports
    BY DEF OwnSet
  <1>4. /\ r \in Seq(Reports) /\ Len(r) = n + 1
        /\ \A i \in 1..n : r[i] = es[i].data
        /\ r[n + 1] = e.data
    BY <1>2, <1>3, AppendProperties
  <1>5. /\ l \in Seq(Reports) /\ Len(l) = n + 1
        /\ \A i \in 1..n + 1 : l[i] = Append(es, e)[i].data
    BY <1>1, StatesTyped
  <1>. HIDE DEF l, r, n
  <1>6. \A i \in 1..n + 1 : i \in 1..n \/ i = n + 1
    BY <1>1
  <1>7. \A i \in 1..n : i \in 1..n + 1
    BY <1>1
  <1>8. n + 1 \in 1..n + 1
    BY <1>1
  <1>9. \A i \in 1..n + 1 : l[i] = r[i]
    BY <1>1, <1>4, <1>5, <1>6, <1>7, <1>8, Zenon
  <1>10. l = r
    BY <1>4, <1>5, <1>9, SameSeq
  <1>. QED BY <1>10 DEF l, r

LEMMA Cons ==
  ASSUME NEW S, NEW x \in S, NEW s \in Seq(S)
  PROVE  LET t == <<x>> \o s IN
           /\ t \in Seq(S) /\ Len(t) = Len(s) + 1 /\ Len(s) \in Nat /\ t # <<>>
           /\ t[1] = x /\ \A i \in 1..Len(s) : t[i + 1] = s[i]
           /\ Head(t) = x /\ Tail(t) = s
  <1> DEFINE t == <<x>> \o s
  <1>1. <<x>> \in Seq(S) /\ Len(<<x>>) = 1 /\ <<x>>[1] = x /\ Len(s) \in Nat
    BY LenProperties
  <1>2. t \in Seq(S) /\ Len(t) = Len(s) + 1
    BY <1>1, ConcatProperties
  <1>3. t[1] = x /\ \A i \in 1..Len(s) : t[i + 1] = s[i]
    BY <1>1
  <1>4. t # <<>> /\ Head(t) = x
    <2>1. Len(t) # 0
      BY <1>1, <1>2
    <2>2. t # <<>>
      BY <2>1
    <2>. QED BY <1>2, <1>3, <2>2, HeadTailProperties
  <1>5. Tail(t) = s
    <2>1. /\ Tail(t) \in Seq(S) /\ Len(Tail(t)) = Len(t) - 1
          /\ \A i \in 1..Len(Tail(t)) : Tail(t)[i] = t[i + 1]
      BY <1>2, <1>4, HeadTailProperties
    <2>2. Len(Tail(t)) = Len(s)
      BY <2>1, <1>1, <1>2
    <2>. QED BY <2>1, <2>2, <1>3, SameSeq
  <1>. QED BY <1>1, <1>2, <1>3, <1>4, <1>5

LEMMA StatesCons ==
  ASSUME NEW e \in OwnSet, NEW es \in Seq(OwnSet)
  PROVE  StatesOf(<<e>> \o es) = <<e.data>> \o StatesOf(es)
  <1> DEFINE c == <<e>> \o es
             l == StatesOf(c)
             r == <<e.data>> \o StatesOf(es)
             n == Len(es)
  <1>1. /\ c \in Seq(OwnSet) /\ Len(c) = n + 1 /\ n \in Nat
        /\ c[1] = e /\ \A i \in 1..n : c[i + 1] = es[i]
    BY Cons
  <1>2. /\ StatesOf(es) \in Seq(Reports) /\ Len(StatesOf(es)) = n
        /\ \A i \in 1..n : StatesOf(es)[i] = es[i].data
    BY StatesTyped
  <1>3. e.data \in Reports
    BY DEF OwnSet
  <1>4. /\ r \in Seq(Reports) /\ Len(r) = n + 1 /\ r[1] = e.data
        /\ \A i \in 1..n : r[i + 1] = es[i].data
    BY <1>2, <1>3, Cons
  <1>. HIDE DEF c
  <1>5. /\ l \in Seq(Reports) /\ Len(l) = n + 1
        /\ \A i \in 1..n + 1 : l[i] = c[i].data
    BY <1>1, StatesTyped
  <1>. HIDE DEF l, r, n
  <1>6. \A i \in 1..n + 1 : i = 1 \/ \E j \in 1..n : i = j + 1
    <2>1. \A i \in 1..n + 1 : i = 1 \/ (i - 1 \in 1..n /\ i = (i - 1) + 1)
      BY <1>1
    <2>. QED BY <2>1
  <1>7. 1 \in 1..n + 1 /\ \A j \in 1..n : j + 1 \in 1..n + 1
    BY <1>1
  <1>8. ASSUME NEW i \in 1..n + 1 PROVE l[i] = r[i]
    <2>1. CASE i = 1
      BY <2>1, <1>1, <1>4, <1>5, <1>7, Zenon
    <2>2. ASSUME NEW j \in 1..n, i = j + 1 PROVE l[i] = r[i]
      <3>1. l[j + 1] = c[j + 1].data
        BY <1>5, <1>7
      <3>. QED BY <2>2, <3>1, <1>1, <1>4
    <2>. QED BY <1>6, <2>1, <2>2
  <1>9. l = r
    BY <1>4, <1>5, <1>8, SameSeq
  <1>. QED BY <1>9 DEF l, r, c

(* What Feed!Lose loses: the first state, or all of them.                    *)
LEMMA LoseFirst ==
  ASSUME NEW S, NEW x \in S, NEW s \in Seq(S)
  PROVE  LET t == <<x>> \o s IN \E n \in 2..Len(t) + 1 : s = SubSeq(t, n, Len(t))
  <1> DEFINE t == <<x>> \o s
  <1>1. /\ t \in Seq(S) /\ Len(t) = Len(s) + 1 /\ Len(s) \in Nat
        /\ \A i \in 1..Len(s) : t[i + 1] = s[i]
    BY Cons
  <1>. HIDE DEF t
  <1>2. 2 \in 2..Len(t) + 1 /\ \A l \in Nat : l + 1 - 2 + 1 = l
    BY <1>1
  <1>3. /\ SubSeq(t, 2, Len(t)) \in Seq(S) /\ Len(SubSeq(t, 2, Len(t))) = Len(s)
        /\ \A i \in 1..Len(s) : SubSeq(t, 2, Len(t))[i] = t[i + 1]
    BY <1>1
  <1>4. s = SubSeq(t, 2, Len(t))
    BY <1>1, <1>3, SameSeq
  <1>. QED BY <1>2, <1>4 DEF t

LEMMA LoseAll ==
  ASSUME NEW S, NEW s \in Seq(S), s # <<>>
  PROVE  \E n \in 2..Len(s) + 1 : <<>> = SubSeq(s, n, Len(s))
  <1>1. Len(s) \in Nat /\ Len(s) # 0
    BY EmptySeq, LenProperties
  <1>2. Len(s) + 1 \in 2..Len(s) + 1
    BY <1>1
  <1>3. SubSeq(s, Len(s) + 1, Len(s)) \in Seq(S) /\ Len(SubSeq(s, Len(s) + 1, Len(s))) = 0
    BY <1>1
  <1>4. SubSeq(s, Len(s) + 1, Len(s)) = <<>>
    BY <1>3, EmptySeq
  <1>. QED BY <1>2, <1>4

-----------------------------------------------------------------------------
(* The client keeps the promise of StateFeed                                 *)

Pending == IF stream = "deliver" THEN <<event>> \o StatesOf(OwnEvents) ELSE StatesOf(OwnEvents)

FeedNext == [Feed!Next]_(Feed!vars)

LEMMA OwnTyped ==
  ASSUME TypeOK
  PROVE  /\ OwnEvents \in Seq(OwnSet) /\ Len(OwnEvents) <= Len(pipe) /\ Len(OwnEvents) \in Nat
         /\ StatesOf(OwnEvents) \in Seq(Reports) /\ Len(StatesOf(OwnEvents)) = Len(OwnEvents)
  <1>1. pipe \in Seq(Events) /\ OwnEvents = Select(pipe, OwnSet) /\ Len(pipe) \in Nat
    BY LenProperties DEF TypeOK, OwnEvents, OwnSet
  <1>2. OwnEvents \in Seq(Events \cap OwnSet) /\ Len(OwnEvents) \in 0..Len(pipe)
    BY <1>1, SelectTyped
  <1>3. Events \cap OwnSet = OwnSet
    BY DEF Events, OwnSet, Types
  <1>4. OwnEvents \in Seq(OwnSet)
    BY <1>2, <1>3
  <1>5. Len(OwnEvents) <= Len(pipe) /\ Len(OwnEvents) \in Nat
    BY <1>1, <1>2
  <1>. QED BY <1>4, <1>5, StatesTyped

LEMMA PendingTyped ==
  ASSUME TypeOK, Delivering
  PROVE  /\ Pending \in Seq(Reports) /\ Len(Pending) \in Nat
         /\ Len(Pending) <= Len(pipe) + IF event = NoState THEN 0 ELSE 1
  <1>0. Len(pipe) \in Nat
    BY LenProperties DEF TypeOK
  <1>1. CASE stream = "deliver"
    <2>1. event \in Reports /\ event # NoState
      BY <1>1 DEF TypeOK, Delivering
    <2>2. Pending = <<event>> \o StatesOf(OwnEvents)
      BY <1>1 DEF Pending
    <2>3. Pending \in Seq(Reports) /\ Len(Pending) = Len(StatesOf(OwnEvents)) + 1
      BY <2>1, <2>2, OwnTyped, Cons
    <2>. QED BY <1>0, <2>1, <2>3, OwnTyped
  <1>2. CASE stream # "deliver"
    <2>1. event = NoState /\ Pending = StatesOf(OwnEvents)
      BY <1>2 DEF Delivering, Pending
    <2>. QED BY <1>0, <2>1, OwnTyped
  <1>. QED BY <1>1, <1>2

(* What an event on its way adds to what is pending.                         *)
LEMMA PendingGrows ==
  ASSUME TypeOK, Delivering, NEW e \in Events, Send(e), UNCHANGED <<stream, event>>
  PROVE  Pending' = IF e \in OwnSet THEN Append(Pending, e.data) ELSE Pending
  <1>1. pipe \in Seq(Events) /\ pipe' = Append(pipe, e)
    BY DEF TypeOK, Send
  <1>2. OwnEvents' = IF e \in OwnSet THEN Append(OwnEvents, e) ELSE OwnEvents
    BY <1>1, SelectAppend DEF OwnEvents, OwnSet
  <1>3. CASE e \notin OwnSet
    BY <1>2, <1>3 DEF Pending
  <1>4. CASE e \in OwnSet
    <2>1. StatesOf(OwnEvents') = Append(StatesOf(OwnEvents), e.data)
      BY <1>2, <1>4, OwnTyped, StatesAppend
    <2>2. StatesOf(OwnEvents)' = Append(StatesOf(OwnEvents), e.data)
      BY <2>1 DEF StatesOf
    <2>3. CASE stream # "deliver"
      BY <1>4, <2>2, <2>3 DEF Pending
    <2>4. CASE stream = "deliver"
      <3>1. event \in Reports /\ e.data \in Reports
        BY <1>4, <2>4 DEF TypeOK, Delivering, OwnSet
      <3>2. StatesOf(OwnEvents) \in Seq(Reports)
        BY OwnTyped
      <3>3. \A s \in Seq(Reports) : \A x, y \in Reports : <<x>> \o Append(s, y) = Append(<<x>> \o s, y)
        OBVIOUS
      <3>. QED BY <1>4, <2>2, <2>4, <3>1, <3>2, <3>3 DEF Pending
    <2>. QED BY <2>3, <2>4
  <1>. QED BY <1>3, <1>4

(* What is pending of the head event and of the rest.                        *)
LEMMA PendingHead ==
  ASSUME TypeOK, pipe # <<>>
  PROVE  /\ Select(Tail(pipe), OwnSet) \in Seq(OwnSet)
         /\ StatesOf(Select(Tail(pipe), OwnSet)) \in Seq(Reports)
         /\ StatesOf(OwnEvents) =
              IF Head(pipe) \in OwnSet
                THEN <<Head(pipe).data>> \o StatesOf(Select(Tail(pipe), OwnSet))
                ELSE StatesOf(Select(Tail(pipe), OwnSet))
  <1>1. pipe \in Seq(Events) /\ Tail(pipe) \in Seq(Events)
    BY Rest DEF TypeOK
  <1>2. Select(Tail(pipe), OwnSet) \in Seq(OwnSet)
    <2>1. Select(Tail(pipe), OwnSet) \in Seq(Events \cap OwnSet)
      BY <1>1, SelectTyped
    <2>2. Events \cap OwnSet = OwnSet
      BY DEF Events, OwnSet, Types
    <2>. QED BY <2>1, <2>2
  <1>3. OwnEvents = IF Head(pipe) \in OwnSet THEN <<Head(pipe)>> \o Select(Tail(pipe), OwnSet)
                                             ELSE Select(Tail(pipe), OwnSet)
    BY <1>1, SelectTail DEF OwnEvents, OwnSet
  <1>4. CASE Head(pipe) \in OwnSet
    BY <1>2, <1>3, <1>4, StatesCons, StatesTyped
  <1>5. CASE Head(pipe) \notin OwnSet
    BY <1>2, <1>3, <1>5, StatesTyped
  <1>. QED BY <1>4, <1>5

-----------------------------------------------------------------------------
(* The steps of the client, as those of the promise                          *)

LEMMA Unseen ==
  ASSUME UNCHANGED <<entity, answer, reported>>, Pending' = Pending
  PROVE  FeedNext
  BY DEF FeedNext, Feed!vars, Pending

LEMMA Lost ==
  ASSUME UNCHANGED <<entity, answer, reported>>,
         \E n \in 2..Len(Pending) + 1 : Pending' = SubSeq(Pending, n, Len(Pending))
  PROVE  FeedNext
  <1>1. Feed!Lose
    BY DEF Feed!Lose, Pending
  <1>. QED BY <1>1 DEF FeedNext, Feed!Next

LEMMA SameStream ==
  ASSUME UNCHANGED <<stream, event, pipe>>
  PROVE  Pending' = Pending
  BY DEF Pending, OwnEvents, StatesOf

LEMMA PollerIsFeed ==
  ASSUME IInv, PollLoop \/ PollDelivers
  PROVE  FeedNext
  <1>. USE DEF server, streamer, parser, monitor, ghosts
  <1>1. Pending' = Pending
    BY SameStream DEF PollLoop, PollTick, FetchAnswers, FetchBlank, FetchFails, PollGivesUp, PollExits, PollDelivers
  <1>2. CASE PollTick \/ FetchFails \/ PollExits
    BY <1>1, <1>2, Unseen DEF PollTick, FetchFails, PollExits
  <1>3. CASE FetchAnswers
    <2>1. Feed!Ask
      BY <1>1, <1>3 DEF FetchAnswers, Feed!Ask, IInv, Delivering, Pending
    <2>. QED BY <2>1 DEF FeedNext, Feed!Next
  <1>4. CASE FetchBlank
    <2>1. Feed!AskBlank
      BY <1>1, <1>4 DEF FetchBlank, Feed!AskBlank, IInv, Delivering, Pending
    <2>. QED BY <2>1 DEF FeedNext, Feed!Next
  <1>5. CASE PollGivesUp
    <2>1. Feed!Forget
      BY <1>1, <1>5 DEF PollGivesUp, Feed!Forget, IInv, Delivering, Pending
    <2>. QED BY <2>1 DEF FeedNext, Feed!Next
  <1>6. CASE PollDelivers
    <2>1. Feed!ReportAnswer
      BY <1>1, <1>6 DEF PollDelivers, Feed!ReportAnswer, IInv, Delivering, Pending
    <2>. QED BY <2>1 DEF FeedNext, Feed!Next
  <1>. QED BY <1>2, <1>3, <1>4, <1>5, <1>6 DEF PollLoop

(* The steps that read no whole event and report none.                       *)
LEMMA QuietIsFeed ==
  ASSUME IInv,
         \/ StreamHead \/ DialFails \/ DialRefused \/ RetryExpires \/ StreamExits
         \/ ReadLine \/ ReadTooLong \/ ServerEnds \/ Cancel
         \/ \E c \in Conns : DialConnects(c) \/ Monitor(c) \/ TimerFires(c)
  PROVE  FeedNext
  <1>. USE DEF server, poller, streamer, parser, monitor, ghosts
  <1>1. /\ UNCHANGED <<entity, answer, reported, event, pipe>>
        /\ (stream # "deliver" /\ stream' # "deliver") \/ UNCHANGED stream
    BY DEF StreamHead, DialFails, DialRefused, RetryExpires, StreamExits, StreamFails, ReadLine,
           ReadTooLong, ServerEnds, Cancel, DialConnects, Monitor, MonitorAborts, MonitorRotates,
           MonitorReleased, TimerFires
  <1>2. Pending' = Pending
    BY <1>1 DEF Pending, OwnEvents, StatesOf
  <1>. QED BY <1>1, <1>2, Unseen

LEMMA BlankIsFeed ==
  ASSUME IInv, ReadBlank
  PROVE  FeedNext
  <1> DEFINE rest == StatesOf(Select(Tail(pipe), OwnSet))
  <1>1. /\ stream = "read" /\ pipe # <<>> /\ line = "blank" /\ pipe' = Tail(pipe)
        /\ UNCHANGED <<entity, answer, reported>>
    BY DEF ReadBlank, poller, ghosts
  <1>2. /\ rest \in Seq(Reports)
        /\ Pending = IF Head(pipe) \in OwnSet THEN <<Head(pipe).data>> \o rest ELSE rest
    BY <1>1, PendingHead DEF IInv, Pending
  <1>3. Head(pipe) \in Events
    BY <1>1, Rest DEF IInv
  <1>4. StatesOf(OwnEvents)' = rest
    BY <1>1 DEF OwnEvents, StatesOf, OwnSet
  <1>. HIDE DEF rest
  <1>5. CASE IsChange
    <2>1. evType = "state_changed" /\ data \in Reports
      BY <1>5 DEF IsChange
    <2>2. Head(pipe).type = "state_changed" /\ Head(pipe).data = data
      BY <1>1, <2>1, StateNames DEF IInv, Parsing
    <2>3. Head(pipe) \in OwnSet
      BY <1>3, <2>1, <2>2, HeadFields
    <2>4. Pending' = <<data>> \o rest
      BY <1>4, <1>5 DEF ReadBlank, Pending
    <2>. QED BY <1>1, <1>2, <2>2, <2>3, <2>4, Unseen
  <1>6. CASE ~IsChange
    <2>1. Pending' = rest
      BY <1>1, <1>4, <1>6 DEF ReadBlank, Pending
    <2>2. CASE Head(pipe) \notin OwnSet
      BY <1>1, <1>2, <2>1, <2>2, Unseen
    <2>3. CASE Head(pipe) \in OwnSet
      <3>1. Head(pipe).data \in Reports
        BY <2>3 DEF OwnSet
      <3>2. \E n \in 2..Len(Pending) + 1 : rest = SubSeq(Pending, n, Len(Pending))
        BY <1>2, <2>3, <3>1, LoseFirst
      <3>. QED BY <1>1, <2>1, <3>2, Lost
    <2>. QED BY <2>2, <2>3
  <1>. QED BY <1>5, <1>6

LEMMA DeliveryIsFeed ==
  ASSUME IInv, StreamDelivers \/ StreamGivesUp
  PROVE  FeedNext
  <1>1. /\ stream = "deliver" /\ stream' = "read" /\ UNCHANGED <<entity, answer, pipe>>
        /\ event \in Reports
    BY DEF StreamDelivers, StreamGivesUp, server, poller, IInv, TypeOK, Delivering
  <1>2. /\ StatesOf(OwnEvents) \in Seq(Reports)
        /\ Pending = <<event>> \o StatesOf(OwnEvents)
        /\ Pending' = StatesOf(OwnEvents)
    BY <1>1, OwnTyped DEF IInv, Pending, OwnEvents, StatesOf
  <1>3. CASE StreamDelivers
    <2>1. Pending # <<>> /\ Head(Pending) = event /\ Tail(Pending) = StatesOf(OwnEvents)
      BY <1>1, <1>2, Cons
    <2>2. reported' = event
      BY <1>3 DEF StreamDelivers
    <2>3. Pending # <<>> /\ reported' = Head(Pending) /\ Pending' = Tail(Pending)
      BY <1>2, <2>1, <2>2
    <2>4. Feed!ReportEvent
      BY <1>1, <2>3 DEF Feed!ReportEvent, Pending
    <2>. QED BY <2>4 DEF FeedNext, Feed!Next
  <1>4. CASE StreamGivesUp
    <2>1. reported' = reported
      BY <1>4 DEF StreamGivesUp, ghosts
    <2>. QED BY <1>1, <1>2, <2>1, LoseFirst, Lost
  <1>. QED BY <1>3, <1>4

LEMMA EndIsFeed ==
  ASSUME IInv, ReadFails
  PROVE  FeedNext
  <1>1. /\ stream = "read" /\ stream' # "deliver" /\ pipe' = <<>>
        /\ UNCHANGED <<entity, answer, reported>>
    BY DEF ReadFails, StreamFails, poller, ghosts
  <1>2. Pending' = <<>>
    <2>1. OwnEvents' = <<>>
      BY <1>1, SelectEmpty DEF OwnEvents
    <2>2. StatesOf(OwnEvents') = <<>>
      BY <2>1, StatesEmpty
    <2>. QED BY <1>1, <2>2 DEF Pending, StatesOf
  <1>3. CASE Pending = <<>>
    BY <1>1, <1>2, <1>3, Unseen
  <1>4. CASE Pending # <<>>
    BY <1>1, <1>2, <1>4, PendingTyped, LoseAll, Lost DEF IInv
  <1>. QED BY <1>3, <1>4

LEMMA SendIsFeed ==
  ASSUME IInv, SendAlien \/ \E st \in States : Change(st)
  PROVE  FeedNext
  <1>. USE DEF streamer, poller, ghosts
  <1>1. CASE SendAlien
    <2>1. PICK e \in Aliens : Send(e)
      BY <1>1 DEF SendAlien
    <2>2. e \in Events /\ e \notin OwnSet
      BY AlienEvents
    <2>3. UNCHANGED <<stream, event, entity, answer, reported>>
      BY <1>1 DEF SendAlien
    <2>4. Pending' = Pending
      BY <2>1, <2>2, <2>3, PendingGrows DEF IInv
    <2>. QED BY <2>3, <2>4, Unseen
  <1>2. ASSUME NEW st \in States, Change(st) PROVE FeedNext
    <2>1. UNCHANGED <<stream, event, answer, reported>> /\ entity' = st
      BY <1>2 DEF Change
    <2>2. \/ Pending' = Pending
          \/ Len(Pending) < MaxEvents /\ \E r \in {st} \cup Blanks : Pending' = Append(Pending, r)
      <3>1. CASE UNCHANGED pipe
        BY <2>1, <3>1, SameStream
      <3>2. ASSUME NEW r \in {st} \cup Blanks, Send([type |-> "state_changed", data |-> r])
            PROVE  Len(Pending) < MaxEvents /\ Pending' = Append(Pending, r)
        <4> DEFINE e == [type |-> "state_changed", data |-> r]
        <4>1. e \in Events /\ e \in OwnSet /\ e.data = r
          BY OwnEvent DEF Reports
        <4>2. Pending' = Append(Pending, r)
          BY <2>1, <3>2, <4>1, PendingGrows DEF IInv
        <4>3. /\ Len(pipe) + (IF event = NoState THEN 0 ELSE 1) < MaxEvents
              /\ Len(pipe) \in Nat /\ MaxEvents \in Nat
          BY <3>2, LenProperties, ClientAssumption DEF Send, IInv, TypeOK
        <4>4. /\ Len(Pending) \in Nat
              /\ Len(Pending) <= Len(pipe) + IF event = NoState THEN 0 ELSE 1
          BY PendingTyped DEF IInv
        <4>5. Len(Pending) < MaxEvents
          BY <4>3, <4>4
        <4>. QED BY <4>2, <4>5
      <3>. QED BY <1>2, <3>1, <3>2 DEF Change
    <2>3. Feed!Change(st)
      BY <2>1, <2>2 DEF Feed!Change, Pending
    <2>. QED BY <2>3 DEF FeedNext, Feed!Next
  <1>. QED BY <1>1, <1>2

(* The client implements the promise of StateFeed: what it reports is one of *)
(* the changes of the entity, each at most once and in their order, or the   *)
(* answer of a poll; what is no state of the entity came without a state.    *)
THEOREM KeepsPromise == Spec => FeedSpec
  <1>1. Init => Feed!Init
    <2>. SUFFICES ASSUME Init PROVE Feed!Init
      OBVIOUS
    <2>1. StatesOf(OwnEvents) = <<>>
      BY SelectEmpty, StatesEmpty DEF Init, OwnEvents
    <2>. QED BY <2>1 DEF Init, Feed!Init
  <1>2. IInv /\ [Next]_vars => [Feed!Next]_(Feed!vars)
    <2>. SUFFICES ASSUME IInv, [Next]_vars PROVE FeedNext
      BY DEF FeedNext
    <2>1. CASE UNCHANGED vars
      BY <2>1, SameStream, Unseen DEF vars, server, poller, streamer, ghosts
    <2>2. ASSUME NEW c \in Conns, DialConnects(c) \/ Monitor(c) \/ TimerFires(c) PROVE FeedNext
      BY <2>2, QuietIsFeed
    <2>. QED BY <2>1, <2>2, PollerIsFeed, QuietIsFeed, BlankIsFeed, DeliveryIsFeed, EndIsFeed, SendIsFeed
             DEF Next, StreamLoop, Environment
  <1>. QED BY <1>1, <1>2, ClientInvariance, PTL DEF Spec, FeedSpec, Feed!Spec
=============================================================================
