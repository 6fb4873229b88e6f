----------------------------- MODULE EvdevProofs -----------------------------
(***************************************************************************)
(* The safety properties of Evdev, for any devices, descriptors, queues and  *)
(* clock: who owns a descriptor, and how late an event can be.               *)
(***************************************************************************)
EXTENDS Evdev, SequenceTheorems, TLAPS

Times  == {NoActivity} \cup Nat     \* of a queued event
Points == {"open", "add", "idle", "failed", "exit"}
Scans  == [pc : Points, todo : SUBSET Devices, fd : Fds \cup {NoFd},
           dev : Devices \cup {NoPath}, boot : BOOLEAN]

TypeOK ==
  /\ pathOf \in [Fds -> Devices \cup {NoPath}] /\ last \in Nat /\ closed \in BOOLEAN
  /\ scan \in Scans
  /\ reader \in [Fds -> {"off", "read", "stamp", "remove"}]
  /\ found \in [Fds -> {NoTime} \cup Nat]
  /\ closer \in {"waiting", "drain", "returned"}
  /\ plugged \subseteq Devices
  /\ desc \in [Fds -> Devices \cup {"free", "dead", "foreign"}]
  /\ queue \in [Fds -> Seq(Times)]
  /\ now \in Nat /\ newest \in Nat /\ misclosed \in BOOLEAN

(* A descriptor in the table is open on a device and has a reader; the one   *)
(* that openDevice is about to enter is open on a device too, and nobody     *)
(* else's; no other descriptor is open on a device.                          *)
InTable  == \A f \in Table : Stat(f) /\ reader[f] # "off"
Adding   == scan.pc = "add" => /\ scan.fd \in Fds \ Table /\ Stat(scan.fd)
                               /\ scan.dev \in Devices
NoOther  == \A f \in Fds : Stat(f) => f \in Table \/ (scan.pc = "add" /\ scan.fd = f)

(* After Close nothing enters the table again.                               *)
Drained  == /\ closed = (closer # "waiting")
            /\ closer = "returned" => Table = {}

(* Whatever is on its way from the kernel to last is no newer than the       *)
(* newest input, and a reader about to stamp has a time.                     *)
NotAhead ==
  /\ newest <= now /\ last <= newest
  /\ \A f \in Fds : /\ found[f] <= newest
                    /\ \A i \in 1..Len(queue[f]) : queue[f][i] <= newest
                    /\ reader[f] = "stamp" => found[f] # NoTime

IInv == /\ TypeOK /\ InTable /\ Adding /\ NoOther /\ Drained /\ NotAhead
        /\ ClosesOwn /\ OneReaderPerDevice

-----------------------------------------------------------------------------
(* The event queues                                                          *)

(* What a read leaves in a queue, and what it takes out, was in the queue.   *)
LEMMA BatchOfQueue ==
  ASSUME TypeOK, NEW f \in Fds
  PROVE  /\ Batch(f) \in Seq(Times) /\ Len(Batch(f)) \in 0..2
         /\ \A i \in 1..Len(Batch(f)) : i \in 1..Len(queue[f]) /\ Batch(f)[i] = queue[f][i]
<1> DEFINE n == IF Len(queue[f]) < 2 THEN Len(queue[f]) ELSE 2
<1>1. queue[f] \in Seq(Times)
  BY DEF TypeOK
<1>2. Len(queue[f]) \in Nat
  BY <1>1, LenProperties
<1>3. n \in 0..2 /\ n <= Len(queue[f])
  <2>1. \A l \in Nat : LET m == IF l < 2 THEN l ELSE 2 IN m \in 0..2 /\ m <= l
    OBVIOUS
  <2> QED BY <1>2, <2>1, Zenon
<1> HIDE DEF n
<1>4. \A i \in 1..n : queue[f][i] \in Times
  BY <1>1, <1>2, <1>3, ElementOfSeq
<1>5. /\ SubSeq(queue[f], 1, n) \in Seq(Times)
      /\ Len(SubSeq(queue[f], 1, n)) = IF 1 <= n THEN n - 1 + 1 ELSE 0
      /\ \A i \in 1..n - 1 + 1 : SubSeq(queue[f], 1, n)[i] = queue[f][1 + i - 1]
  BY <1>3, <1>4, SubSeqProperties
<1>6. Batch(f) = SubSeq(queue[f], 1, n)
  BY DEF Batch, n
<1>7. \A i \in 1..n : Batch(f)[i] = queue[f][i]
  BY <1>3, <1>5, <1>6
<1>8. Len(Batch(f)) = n
  BY <1>3, <1>5, <1>6
<1> QED BY <1>2, <1>3, <1>5, <1>6, <1>7, <1>8

LEMMA RestOfQueue ==
  ASSUME TypeOK, NEW f \in Fds
  PROVE  /\ Rest(f) \in Seq(Times)
         /\ \A i \in 1..Len(Rest(f)) : \E j \in 1..Len(queue[f]) : Rest(f)[i] = queue[f][j]
<1>1. queue[f] \in Seq(Times)
  BY DEF TypeOK
<1>2. Len(queue[f]) \in Nat /\ Len(Batch(f)) \in Nat
  BY <1>1, LenProperties, BatchOfQueue
<1> DEFINE m == Len(Batch(f)) + 1
           l == Len(queue[f])
<1>3. m \in Int /\ l \in Int /\ m >= 1
  BY <1>2
<1>4. \A i \in m..l : queue[f][i] \in Times
  BY <1>1, <1>2, ElementOfSeq
<1> HIDE DEF m, l
<1>5. /\ SubSeq(queue[f], m, l) \in Seq(Times)
      /\ Len(SubSeq(queue[f], m, l)) = IF m <= l THEN l - m + 1 ELSE 0
      /\ \A i \in 1..l - m + 1 : SubSeq(queue[f], m, l)[i] = queue[f][m + i - 1]
  BY <1>3, <1>4, SubSeqProperties
<1>6. Rest(f) = SubSeq(queue[f], m, l)
  BY DEF Rest, m, l
<1>7. ASSUME NEW i \in 1..Len(Rest(f))
      PROVE  m + i - 1 \in 1..l /\ Rest(f)[i] = queue[f][m + i - 1]
  BY <1>3, <1>5, <1>6, <1>7
<1> QED BY <1>5, <1>6, <1>7 DEF l

(* The time a batch yields is that of one of its events, if any is activity. *)
LEMMA ParsedTime ==
  ASSUME TypeOK, NEW f \in Fds
  PROVE  LET ts == ParseIsActivity(Batch(f))
         IN  ts = NoTime \/ (ts \in Nat /\ \E i \in 1..Len(queue[f]) : ts = queue[f][i])
<1> DEFINE b == Batch(f)
           acts == {i \in 1..Len(b) : b[i] # NoActivity}
           latest == CHOOSE i \in acts : \A j \in acts : j <= i
<1>1. b \in Seq(Times) /\ Len(b) \in 0..2 /\ acts \subseteq 1..2
  BY BatchOfQueue
<1>2. \A i \in 1..Len(b) : i \in 1..Len(queue[f]) /\ b[i] = queue[f][i]
  BY BatchOfQueue
<1>3. ParseIsActivity(b) = IF acts = {} THEN NoTime ELSE b[latest]
  BY DEF ParseIsActivity
<1>4. \A i \in 1..Len(b) : b[i] \in Times
  BY <1>1, ElementOfSeq
<1>5. ASSUME acts # {} PROVE latest \in acts
  <2>1. \E i \in acts : \A j \in acts : j <= i
    <3>1. CASE 2 \in acts
      BY <1>1, <3>1
    <3>2. CASE 2 \notin acts
      BY <1>1, <1>5, <3>2
    <3> QED BY <3>1, <3>2
  <2> HIDE DEF acts
  <2> QED BY <2>1
<1>6. \A i \in acts : b[i] \in Nat /\ b[i] = queue[f][i] /\ i \in 1..Len(queue[f])
  BY <1>2, <1>4 DEF Times
<1> HIDE DEF b, acts, latest
<1>7. CASE acts = {}
  BY <1>3, <1>7 DEF b
<1>8. CASE acts # {}
  BY <1>3, <1>5, <1>6, <1>8 DEF b
<1> QED BY <1>7, <1>8
-----------------------------------------------------------------------------
(* Every step keeps the types                                                *)

LEMMA CloseTyped ==
  ASSUME TypeOK, NEW fs \in SUBSET Fds, CloseFds(fs)
  PROVE  /\ desc' \in [Fds -> Devices \cup {"free", "dead", "foreign"}]
         /\ queue' \in [Fds -> Seq(Times)] /\ misclosed' \in BOOLEAN
<1>1. <<>> \in Seq(Times)
  OBVIOUS
<1> QED BY <1>1 DEF CloseFds, TypeOK

(* An event enters a queue of the right type.                                *)
LEMMA QueuedTyped ==
  ASSUME TypeOK, NEW ts \in Times, NEW dev \in Devices, Queued(ts, dev)
  PROVE  queue' \in [Fds -> Seq(Times)]
<1>1. \A f \in Fds : Append(queue[f], ts) \in Seq(Times) /\ <<ts>> \in Seq(Times)
  BY AppendProperties DEF TypeOK
<1> QED BY <1>1 DEF Queued, TypeOK

LEMMA NextTypeOK ==
  ASSUME TypeOK, Adding, [Next]_vars
  PROVE  TypeOK'
<1> USE DEF TypeOK, watcher, kernel, bounds, ghosts
<1>1. ASSUME NEW dev \in Devices, NEW fd \in Fds, Open(dev, fd) PROVE TypeOK'
  BY <1>1 DEF Open, Scans, Points
<1>2. ASSUME NEW dev \in Devices, OpenFails(dev) PROVE TypeOK'
  BY <1>2 DEF OpenFails, Scans, Points
<1>3. CASE Add
  <2>1. scan' \in Scans
    BY <1>3 DEF Add, Scans, Points
  <2>2. CASE Added
    BY <1>3, <2>1, <2>2 DEF Add, Scans
  <2>3. CASE ~Added
    <3>1. {scan.fd} \subseteq Fds
      BY <1>3 DEF Add, Adding
    <3>2. /\ desc' \in [Fds -> Devices \cup {"free", "dead", "foreign"}]
          /\ queue' \in [Fds -> Seq(Times)] /\ misclosed' \in BOOLEAN
      BY <1>3, <2>3, <3>1, CloseTyped DEF Add
    <3> QED BY <1>3, <2>1, <2>3, <3>2 DEF Add
  <2> QED BY <2>2, <2>3
<1>4. CASE ScanEnds
  BY <1>4 DEF ScanEnds, Scans, Points
<1>5. CASE Rescan \/ RescanExits
  BY <1>5 DEF Rescan, RescanExits, Scans, Points
<1>6. ASSUME NEW f \in Fds, Read(f) PROVE TypeOK'
  <2>1. Rest(f) \in Seq(Times)
    BY RestOfQueue
  <2>2. ParseIsActivity(Batch(f)) \in {NoTime} \cup Nat
    BY ParsedTime
  <2> QED BY <1>6, <2>1, <2>2 DEF Read
<1>7. ASSUME NEW f \in Fds, Stamp(f) PROVE TypeOK'
  BY <1>7 DEF Stamp, StampOf
<1>8. ASSUME NEW f \in Fds, ReadFails(f) PROVE TypeOK'
  BY <1>8 DEF ReadFails
<1>9. ASSUME NEW f \in Fds, RemoveFd(f) PROVE TypeOK'
  <2>1. /\ desc' \in [Fds -> Devices \cup {"free", "dead", "foreign"}]
        /\ queue' \in [Fds -> Seq(Times)] /\ misclosed' \in BOOLEAN
    BY <1>9, CloseTyped DEF RemoveFd
  <2> QED BY <1>9, <2>1 DEF RemoveFd
<1>10. CASE CloseBegins
  BY <1>10 DEF CloseBegins
<1>11. CASE Drain
  <2>1. /\ desc' \in [Fds -> Devices \cup {"free", "dead", "foreign"}]
        /\ queue' \in [Fds -> Seq(Times)] /\ misclosed' \in BOOLEAN
    BY <1>11, CloseTyped DEF Drain, Table
  <2> QED BY <1>11, <2>1 DEF Drain
<1>12. ASSUME NEW dev \in Devices, Plug(dev) \/ Unplug(dev) PROVE TypeOK'
  <2>1. <<>> \in Seq(Times)
    OBVIOUS
  <2> QED BY <1>12, <2>1 DEF Plug, Unplug
<1>13. ASSUME NEW dev \in Devices, Input(dev) \/ OtherEvent(dev) PROVE TypeOK'
  <2>1. queue' \in [Fds -> Seq(Times)]
    BY <1>13, QueuedTyped DEF Input, OtherEvent, Times
  <2> QED BY <1>13, <2>1 DEF Input, OtherEvent
<1>14. ASSUME NEW f \in Fds, ForeignOpen(f) \/ ForeignClose(f) PROVE TypeOK'
  BY <1>14 DEF ForeignOpen, ForeignClose
<1>15. CASE Tick
  BY <1>15 DEF Tick
<1>16. CASE UNCHANGED vars
  BY <1>16 DEF vars
<1> QED
  BY <1>1, <1>2, <1>3, <1>4, <1>5, <1>6, <1>7, <1>8, <1>9, <1>10, <1>11, <1>12, <1>13, <1>14, <1>15,
     <1>16 DEF Next, Scanner, Reader, Environment
-----------------------------------------------------------------------------
(* Every step keeps the ownership of descriptors                             *)

Ownership == /\ InTable /\ Adding /\ NoOther /\ Drained
             /\ ClosesOwn /\ OneReaderPerDevice

(* What a step has to leave alone to be no matter of ownership: the table,   *)
(* what descriptors are open on, who is where.                               *)
LEMMA OwnershipFrame ==
  ASSUME TypeOK, Ownership,
         UNCHANGED <<pathOf, closed, closer, misclosed>>,
         \A f \in Fds : Stat(f) <=> Stat(f)',
         \A f \in Table : reader[f]' # "off",
         (scan'.pc # "add" /\ scan.pc # "add") \/ UNCHANGED scan
  PROVE  Ownership'
<1>1. Table' = Table /\ Table \subseteq Fds
  BY DEF Table
<1>2. InTable'
  BY <1>1 DEF Ownership, InTable
<1>3. Adding' /\ NoOther'
  BY <1>1 DEF Ownership, Adding, NoOther
<1>4. Drained' /\ ClosesOwn' /\ OneReaderPerDevice'
  BY <1>1 DEF Ownership, Drained, ClosesOwn, OneReaderPerDevice
<1> QED BY <1>2, <1>3, <1>4 DEF Ownership

(* close(2) on descriptors of devices frees them and misses none.            *)
LEMMA CloseOwn ==
  ASSUME TypeOK, ClosesOwn, NEW fs \in SUBSET Fds, CloseFds(fs), \A f \in fs : Stat(f)
  PROVE  /\ ClosesOwn'
         /\ \A f \in Fds : Stat(f)' <=> Stat(f) /\ f \notin fs
<1>1. ClosesOwn'
  BY DEF ClosesOwn, CloseFds
<1>2. "free" \notin Devices \cup {"dead"}
  BY EvdevAssumption
<1>3. ASSUME NEW f \in Fds PROVE Stat(f)' <=> Stat(f) /\ f \notin fs
  <2>1. desc'[f] = IF f \in fs THEN "free" ELSE desc[f]
    BY DEF CloseFds
  <2> QED BY <1>2, <2>1 DEF Stat
<1> QED BY <1>1, <1>3

LEMMA NextOwnership ==
  ASSUME TypeOK, Ownership, [Next]_vars
  PROVE  Ownership'
<1> USE DEF watcher, kernel, bounds, ghosts
<1>1. ASSUME NEW dev \in Devices, NEW fd \in Fds, Open(dev, fd) PROVE Ownership'
  <2>1. ~Stat(fd)
    BY <1>1, EvdevAssumption DEF Open, Stat
  <2>2. Table' = Table /\ fd \notin Table
    BY <1>1, <2>1 DEF Open, Table, Ownership, InTable
  <2>3. \A f \in Fds : Stat(f)' <=> Stat(f) \/ f = fd
    BY <1>1 DEF Open, Stat, TypeOK
  <2>4. scan'.pc = "add" /\ scan'.fd = fd /\ scan'.dev = dev /\ scan.pc = "open"
    BY <1>1 DEF Open, TypeOK, Scans
  <2>5. InTable' /\ Adding'
    BY <1>1, <2>2, <2>3, <2>4 DEF Open, Ownership, InTable, Adding, Table
  <2>6. NoOther'
    BY <2>2, <2>3, <2>4 DEF Ownership, NoOther
  <2>7. Drained' /\ ClosesOwn' /\ OneReaderPerDevice'
    BY <1>1, <2>2 DEF Open, Ownership, Drained, ClosesOwn, OneReaderPerDevice
  <2> QED BY <2>5, <2>6, <2>7 DEF Ownership
<1>2. CASE Add
  <2>1. scan.fd \in Fds \ Table /\ Stat(scan.fd) /\ scan.dev \in Devices /\ scan.pc = "add"
    BY <1>2 DEF Add, Ownership, Adding
  <2>2. scan'.pc # "add"
    BY <1>2 DEF Add, TypeOK, Scans
  <2>3. CASE Added
    <3>1. /\ Table' = Table \cup {scan.fd}
          /\ \A f \in Table : pathOf'[f] = pathOf[f]
          /\ pathOf'[scan.fd] = scan.dev
      BY <1>2, <2>1, <2>3, EvdevAssumption DEF Add, Table, TypeOK
    <3>2. \A f \in Fds : Stat(f)' <=> Stat(f)
      BY <1>2, <2>3 DEF Add, Stat
    <3>3. InTable' /\ Adding'
      <4>1. reader' = [reader EXCEPT ![scan.fd] = "read"]
        BY <1>2, <2>3 DEF Add
      <4>2. \A f \in Table : reader'[f] # "off"
        BY <2>1, <4>1 DEF Ownership, InTable, TypeOK, Table
      <4>3. reader'[scan.fd] # "off" /\ Table \subseteq Fds
        BY <2>1, <4>1 DEF TypeOK, Table
      <4> QED BY <2>1, <2>2, <3>1, <3>2, <4>2, <4>3 DEF Ownership, InTable, Adding
    <3>6. NoOther'
      BY <2>1, <2>2, <3>1, <3>2 DEF Ownership, NoOther
    <3>4. Drained' /\ ClosesOwn'
      BY <1>2, <2>3 DEF Add, Added, Ownership, Drained, ClosesOwn
    <3>5. OneReaderPerDevice'
      BY <2>1, <2>3, <3>1 DEF Added, Ownership, OneReaderPerDevice
    <3> QED BY <3>3, <3>4, <3>5, <3>6 DEF Ownership
  <2>4. CASE ~Added
    <3>1. ClosesOwn' /\ \A f \in Fds : Stat(f)' <=> Stat(f) /\ f # scan.fd
      BY <1>2, <2>1, <2>4, CloseOwn DEF Add, Ownership
    <3>2. Table' = Table
      BY <1>2, <2>4 DEF Add, Table
    <3>3. InTable' /\ Adding'
      BY <1>2, <2>1, <2>2, <2>4, <3>1, <3>2 DEF Add, Ownership, InTable, Adding, Table
    <3>4. NoOther'
      BY <2>2, <3>1, <3>2 DEF Ownership, NoOther
    <3>5. Drained' /\ OneReaderPerDevice'
      BY <1>2, <2>4, <3>2 DEF Add, Ownership, Drained, OneReaderPerDevice
    <3> QED BY <3>1, <3>3, <3>4, <3>5 DEF Ownership
  <2> QED BY <2>3, <2>4
<1>3. CASE ScanEnds \/ Rescan \/ RescanExits \/ \E dev \in Devices : OpenFails(dev)
  <2>1. scan'.pc # "add" /\ scan.pc # "add"
    BY <1>3 DEF ScanEnds, Rescan, RescanExits, OpenFails, TypeOK, Scans
  <2>2. UNCHANGED <<pathOf, closed, closer, misclosed, desc, reader>>
    BY <1>3 DEF ScanEnds, Rescan, RescanExits, OpenFails
  <2> QED BY <2>1, <2>2, OwnershipFrame DEF Stat, Ownership, InTable
<1>4. ASSUME NEW f \in Fds, Read(f) \/ Stamp(f) \/ ReadFails(f) PROVE Ownership'
  <2>1. UNCHANGED <<pathOf, closed, closer, misclosed, desc, scan>>
    BY <1>4 DEF Read, Stamp, ReadFails
  <2>2. \A g \in Fds : reader[g] # "off" => reader'[g] # "off"
    BY <1>4 DEF Read, Stamp, ReadFails, TypeOK
  <2>3. \A g \in Table : reader[g]' # "off"
    BY <2>2 DEF Ownership, InTable, Table
  <2> QED BY <2>1, <2>3, OwnershipFrame DEF Stat
<1>5. ASSUME NEW f \in Fds, RemoveFd(f) PROVE Ownership'
  <2>1. ClosesOwn' /\ \A g \in Fds : Stat(g)' <=> Stat(g) /\ g \notin {f} \cap Table
    BY <1>5, CloseOwn DEF RemoveFd, Ownership, InTable, Table
  <2>2. Table' = Table \ {f} /\ \A g \in Fds \ {f} : pathOf'[g] = pathOf[g]
    BY <1>5 DEF RemoveFd, Table, TypeOK
  <2>3. /\ UNCHANGED <<scan, closed, closer>>
        /\ \A g \in Fds \ {f} : reader'[g] = reader[g]
    BY <1>5 DEF RemoveFd, TypeOK
  <2>4. Table \subseteq Fds
    BY DEF Table
  <2> QED BY <2>1, <2>2, <2>3, <2>4
        DEF Ownership, InTable, Adding, NoOther, Drained, OneReaderPerDevice
<1>6. CASE CloseBegins
  BY <1>6 DEF CloseBegins, Ownership, InTable, Adding, NoOther, Drained, ClosesOwn,
              OneReaderPerDevice, Table, Stat
<1>7. CASE Drain
  <2>1. ClosesOwn' /\ \A f \in Fds : Stat(f)' <=> Stat(f) /\ f \notin Table
    BY <1>7, CloseOwn DEF Drain, Ownership, InTable, Table
  <2>2. Table' = {}
    BY <1>7 DEF Drain, Table
  <2> QED BY <1>7, <2>1, <2>2
        DEF Drain, Ownership, InTable, Adding, NoOther, Drained, OneReaderPerDevice
<1>8. ASSUME NEW dev \in Devices, Plug(dev) \/ Unplug(dev) \/ Input(dev) \/ OtherEvent(dev)
      PROVE  Ownership'
  <2>1. UNCHANGED <<pathOf, closed, closer, misclosed, reader, scan>>
    BY <1>8 DEF Plug, Unplug, Input, OtherEvent
  <2>2. \A f \in Fds : Stat(f)' <=> Stat(f)
    BY <1>8 DEF Plug, Unplug, Input, OtherEvent, Stat
  <2> QED BY <2>1, <2>2, OwnershipFrame DEF Ownership, InTable
<1>9. ASSUME NEW f \in Fds, ForeignOpen(f) \/ ForeignClose(f) PROVE Ownership'
  <2>1. UNCHANGED <<pathOf, closed, closer, misclosed, reader, scan>>
    BY <1>9 DEF ForeignOpen, ForeignClose
  <2>2. \A g \in Fds : Stat(g)' <=> Stat(g)
    BY <1>9, EvdevAssumption DEF ForeignOpen, ForeignClose, Stat, TypeOK
  <2> QED BY <2>1, <2>2, OwnershipFrame DEF Ownership, InTable
<1>10. CASE Tick \/ UNCHANGED vars
  <2>1. UNCHANGED <<pathOf, closed, closer, misclosed, reader, scan, desc>>
    BY <1>10 DEF Tick, vars
  <2> QED BY <2>1, OwnershipFrame DEF Stat, Ownership, InTable
<1> QED
  BY <1>1, <1>2, <1>3, <1>4, <1>5, <1>6, <1>7, <1>8, <1>9, <1>10
     DEF Next, Scanner, Reader, Environment
-----------------------------------------------------------------------------
(* Every step keeps the events late                                          *)

(* Nothing in f, or on its way to it, is newer than m.                       *)
LateBy(f, m) == found[f] <= m /\ \A i \in 1..Len(queue[f]) : queue[f][i] <= m

(* The input of a later time leaves what was late as late as it was.         *)
LEMMA LaterStill ==
  ASSUME TypeOK, NEW f \in Fds, NEW m \in Nat, NEW n \in Nat, m <= n, LateBy(f, m)
  PROVE  LateBy(f, n)
<1>1. found[f] \in Int
  BY DEF TypeOK, NoTime
<1>2. \A i \in 1..Len(queue[f]) : queue[f][i] \in Int
  <2>1. queue[f] \in Seq(Times)
    BY DEF TypeOK
  <2>2. \A i \in 1..Len(queue[f]) : queue[f][i] \in Times
    BY <2>1, ElementOfSeq
  <2> QED BY <2>2 DEF Times, NoActivity
<1> QED BY <1>1, <1>2 DEF LateBy

(* An event enters every queue as the last or the only one in it.            *)
LEMMA QueuedLate ==
  ASSUME TypeOK, NEW ts \in Times, NEW dev \in Devices, Queued(ts, dev),
         NEW m \in Nat, ts <= m, NEW f \in Fds, LateBy(f, m), UNCHANGED found
  PROVE  LateBy(f, m)'
<1>1. queue[f] \in Seq(Times) /\ Len(queue[f]) \in Nat
  BY LenProperties DEF TypeOK
<1>2. CASE queue'[f] = queue[f]
  BY <1>2 DEF LateBy
<1>3. CASE queue'[f] = Append(queue[f], ts)
  <2>1. /\ Len(Append(queue[f], ts)) = Len(queue[f]) + 1
        /\ \A i \in 1..Len(queue[f]) : Append(queue[f], ts)[i] = queue[f][i]
        /\ Append(queue[f], ts)[Len(queue[f]) + 1] = ts
    BY <1>1, AppendProperties
  <2>2. ASSUME NEW i \in 1..Len(queue'[f]) PROVE queue'[f][i] <= m
    <3>1. i \in 1..Len(queue[f]) \/ i = Len(queue[f]) + 1
      BY <1>1, <1>3, <2>1
    <3> QED BY <1>3, <2>1, <3>1 DEF LateBy
  <2> QED BY <2>2 DEF LateBy
<1>4. CASE queue'[f] = <<ts>>
  BY <1>4 DEF LateBy
<1> QED BY <1>2, <1>3, <1>4 DEF Queued

(* What close(2) and the end of a device leave in a queue was there before.  *)
LEMMA EmptiedLate ==
  ASSUME NEW f \in Fds, NEW m \in Nat, LateBy(f, m), UNCHANGED found,
         queue'[f] = <<>> \/ queue'[f] = queue[f]
  PROVE  LateBy(f, m)'
BY DEF LateBy

LEMMA NextNotAhead ==
  ASSUME TypeOK, NotAhead, [Next]_vars
  PROVE  NotAhead'
<1> USE DEF watcher, kernel, bounds, ghosts
<1> DEFINE Waiting(f) == LateBy(f, newest) /\ (reader[f] = "stamp" => found[f] # NoTime)
<1>0. NotAhead <=> newest <= now /\ last <= newest /\ \A f \in Fds : Waiting(f)
  BY DEF NotAhead, LateBy
<1>1. NotAhead' <=> (newest <= now)' /\ (last <= newest)' /\ \A f \in Fds : Waiting(f)'
  BY DEF NotAhead, LateBy
<1> HIDE DEF Waiting
<1>2. ASSUME UNCHANGED <<reader, found, queue>>,
             newest' \in Nat, newest <= newest'
      PROVE  \A f \in Fds : Waiting(f)'
  <2>1. \A f \in Fds : LateBy(f, newest')
    BY <1>0, <1>2, LaterStill DEF TypeOK, Waiting
  <2>2. \A f \in Fds : LateBy(f, newest)'
    BY <1>2, <2>1 DEF LateBy
  <2> QED BY <1>0, <1>2, <2>2 DEF Waiting
<1>3. ASSUME UNCHANGED <<found, newest>>,
             \A f \in Fds : queue'[f] = <<>> \/ queue'[f] = queue[f],
             \A f \in Fds : reader'[f] = "stamp" => reader[f] = "stamp"
      PROVE  \A f \in Fds : Waiting(f)'
  <2>1. \A f \in Fds : LateBy(f, newest)'
    BY <1>0, <1>3, EmptiedLate DEF TypeOK, Waiting
  <2> QED BY <1>0, <1>3, <2>1 DEF Waiting
<1>4. CASE \E dev \in Devices : OpenFails(dev) \/ (\E fd \in Fds : Open(dev, fd)) \/ Plug(dev)
  <2>1. UNCHANGED <<reader, found, queue, now, newest, last>>
    BY <1>4 DEF OpenFails, Open, Plug
  <2> QED BY <1>0, <1>1, <1>2, <2>1 DEF TypeOK
<1>5. CASE Add
  <2>1. UNCHANGED <<found, newest, last, now>>
    BY <1>5 DEF Add
  <2>2. \A f \in Fds : queue'[f] = <<>> \/ queue'[f] = queue[f]
    BY <1>5 DEF Add, CloseFds
  <2>3. \A f \in Fds : reader'[f] = "stamp" => reader[f] = "stamp"
    BY <1>5 DEF Add, TypeOK
  <2> QED BY <1>0, <1>1, <1>3, <2>1, <2>2, <2>3
<1>6. CASE ScanEnds
  <2>1. UNCHANGED <<reader, found, queue, now>>
    BY <1>6 DEF ScanEnds
  <2>2. newest' \in Nat /\ newest <= newest' /\ newest' <= now' /\ last' <= newest'
    BY <1>0, <1>6 DEF ScanEnds, TypeOK
  <2> QED BY <1>1, <1>2, <2>1, <2>2
<1>7. CASE Rescan \/ RescanExits \/ CloseBegins \/ \E f \in Fds : ForeignOpen(f) \/ ForeignClose(f)
  BY <1>0, <1>1, <1>2, <1>7 DEF Rescan, RescanExits, CloseBegins, ForeignOpen, ForeignClose, TypeOK
<1>8. ASSUME NEW f \in Fds, Read(f) PROVE NotAhead'
  <2> DEFINE ts == ParseIsActivity(Batch(f))
  <2>1. ts = NoTime \/ (ts \in Nat /\ \E i \in 1..Len(queue[f]) : ts = queue[f][i])
    BY ParsedTime
  <2> HIDE DEF ts
  <2>2. LateBy(f, newest)
    BY <1>0 DEF Waiting
  <2>3. ts <= newest
    BY <2>1, <2>2 DEF LateBy, NoTime, TypeOK
  <2>4. \A i \in 1..Len(Rest(f)) : Rest(f)[i] <= newest
    BY <2>2, RestOfQueue DEF LateBy
  <2>5. /\ queue' = [queue EXCEPT ![f] = Rest(f)] /\ found' = [found EXCEPT ![f] = ts]
        /\ reader' = [reader EXCEPT ![f] = IF found'[f] = NoTime THEN "read" ELSE "stamp"]
        /\ UNCHANGED <<now, newest, last>>
    BY <1>8 DEF Read, ts
  <2>6. queue'[f] = Rest(f) /\ found'[f] = ts
    BY <2>5 DEF TypeOK
  <2>7. LateBy(f, newest)'
    BY <2>3, <2>4, <2>5, <2>6 DEF LateBy
  <2>8. Waiting(f)'
    BY <2>5, <2>7 DEF Waiting, TypeOK
  <2>9. ASSUME NEW g \in Fds, g # f PROVE Waiting(g)'
    <3>1. UNCHANGED <<queue[g], found[g], reader[g]>>
      BY <2>5, <2>9 DEF TypeOK
    <3> QED BY <1>0, <2>5, <3>1 DEF Waiting, LateBy
  <2> QED BY <1>0, <1>1, <2>5, <2>8, <2>9
<1>9. ASSUME NEW f \in Fds, Stamp(f) PROVE NotAhead'
  <2>1. /\ last' = found[f] /\ found' = [found EXCEPT ![f] = NoTime]
        /\ reader' = [reader EXCEPT ![f] = "read"] /\ UNCHANGED <<now, newest, queue>>
    BY <1>0, <1>9 DEF Stamp, StampOf, Waiting
  <2>2. found[f] <= newest
    BY <1>0 DEF Waiting, LateBy
  <2>3. ASSUME NEW g \in Fds PROVE Waiting(g)'
    <3>1. CASE g = f
      BY <1>0, <2>1, <3>1 DEF Waiting, LateBy, TypeOK, NoTime
    <3>2. CASE g # f
      <4>1. UNCHANGED <<queue[g], found[g], reader[g]>>
        BY <2>1, <3>2 DEF TypeOK
      <4> QED BY <1>0, <2>1, <4>1 DEF Waiting, LateBy
    <3> QED BY <3>1, <3>2
  <2> QED BY <1>0, <1>1, <2>1, <2>2, <2>3
<1>10. ASSUME NEW f \in Fds, ReadFails(f) \/ RemoveFd(f) PROVE NotAhead'
  <2>1. UNCHANGED <<found, newest, last, now>>
    BY <1>10 DEF ReadFails, RemoveFd
  <2>2. \A g \in Fds : queue'[g] = <<>> \/ queue'[g] = queue[g]
    BY <1>10 DEF ReadFails, RemoveFd, CloseFds
  <2>3. \A g \in Fds : reader'[g] = "stamp" => reader[g] = "stamp"
    BY <1>10 DEF ReadFails, RemoveFd, TypeOK
  <2> QED BY <1>0, <1>1, <1>3, <2>1, <2>2, <2>3
<1>11. CASE Drain \/ \E dev \in Devices : Unplug(dev)
  <2>1. UNCHANGED <<found, newest, last, now, reader>>
    BY <1>11 DEF Drain, Unplug
  <2>2. \A g \in Fds : queue'[g] = <<>> \/ queue'[g] = queue[g]
    BY <1>11 DEF Drain, Unplug, CloseFds
  <2> QED BY <1>0, <1>1, <1>3, <2>1, <2>2
<1>12. ASSUME NEW dev \in Devices, Input(dev) \/ OtherEvent(dev) PROVE NotAhead'
  <2>1. PICK ts \in Times : Queued(ts, dev) /\ newest' \in Nat /\ newest <= newest' /\ ts <= newest'
                              /\ newest' <= now
    BY <1>0, <1>12 DEF Input, OtherEvent, Times, NoActivity, TypeOK
  <2>2. UNCHANGED <<found, last, now, reader>>
    BY <1>12 DEF Input, OtherEvent
  <2>3. \A f \in Fds : LateBy(f, newest')
    BY <1>0, <2>1, LaterStill DEF TypeOK, Waiting
  <2>4. ASSUME NEW f \in Fds PROVE LateBy(f, newest)'
    <3> DEFINE m == newest'
    <3>1. m \in Nat /\ ts <= m /\ LateBy(f, m)
      BY <2>1, <2>3
    <3> HIDE DEF m
    <3>2. found'[f] <= m /\ \A i \in 1..Len(queue'[f]) : queue'[f][i] <= m
      BY <2>1, <2>2, <3>1, QueuedLate DEF LateBy
    <3> QED BY <3>2 DEF LateBy, m
  <2>5. \A f \in Fds : Waiting(f)'
    BY <1>0, <2>2, <2>4 DEF Waiting
  <2>6. (newest <= now)' /\ (last <= newest)'
    BY <1>0, <2>1, <2>2 DEF TypeOK
  <2> QED BY <1>1, <2>5, <2>6
<1>13. CASE Tick \/ UNCHANGED vars
  <2>1. UNCHANGED <<found, newest, last, reader, queue>> /\ now <= now' /\ now' \in Nat
    BY <1>13 DEF Tick, vars, TypeOK
  <2> QED BY <1>0, <1>1, <1>2, <2>1 DEF TypeOK
<1> QED
  BY <1>4, <1>5, <1>6, <1>7, <1>8, <1>9, <1>10, <1>11, <1>12, <1>13
     DEF Next, Scanner, Reader, Environment

-----------------------------------------------------------------------------
(* The theorems                                                              *)

LEMMA InitIInv == Init => IInv
<1> SUFFICES ASSUME Init PROVE IInv
  OBVIOUS
<1>1. <<>> \in Seq(Times) /\ Len(<<>>) = 0
  OBVIOUS
<1>2. TypeOK
  BY <1>1 DEF Init, TypeOK, Scans, Points
<1>3. Table = {} /\ \A f \in Fds : ~Stat(f)
  BY EvdevAssumption DEF Init, Table, Stat
<1>4. InTable /\ Adding /\ NoOther /\ Drained /\ ClosesOwn /\ OneReaderPerDevice
  BY <1>3 DEF Init, InTable, Adding, NoOther, Drained, ClosesOwn, OneReaderPerDevice
<1>5. NotAhead
  BY <1>1 DEF Init, NotAhead, NoTime
<1> QED BY <1>2, <1>4, <1>5 DEF IInv

(* The inductive invariant holds in every reachable state.                   *)
THEOREM EvdevInvariance == Spec => []IInv
<1>1. IInv /\ [Next]_vars => IInv'
  <2> SUFFICES ASSUME IInv, [Next]_vars PROVE IInv'
    OBVIOUS
  <2>1. TypeOK /\ Adding /\ NotAhead /\ Ownership
    BY DEF IInv, Ownership
  <2>2. TypeOK' /\ Ownership' /\ NotAhead'
    BY <2>1, NextTypeOK, NextOwnership, NextNotAhead
  <2> QED BY <2>2 DEF IInv, Ownership
<1> QED BY <1>1, InitIInv, PTL DEF Spec

(* The watcher closes the descriptors it opened, each once, and never one    *)
(* whose number has come to mean another file.                               *)
THEOREM OnlyOwnClosed == Spec => []ClosesOwn
<1>1. IInv => ClosesOwn
  BY DEF IInv
<1> QED BY <1>1, EvdevInvariance, PTL

(* No device is read by two readers at once.                                 *)
THEOREM ReadOnce == Spec => []OneReaderPerDevice
<1>1. IInv => OneReaderPerDevice
  BY DEF IInv
<1> QED BY <1>1, EvdevInvariance, PTL

(* Once Close has returned, no descriptor of a device is open but one that   *)
(* openDevice is about to close.                                             *)
THEOREM AllClosed == Spec => []NoFdLeak
<1>1. IInv => NoFdLeak
  BY DEF IInv, NoOther, Drained, NoFdLeak
<1> QED BY <1>1, EvdevInvariance, PTL

(* The watcher never claims input younger than the newest there was.         *)
THEOREM NeverAhead == Spec => []NeverTooFresh
<1>1. IInv => NeverTooFresh
  BY DEF IInv, NotAhead, NeverTooFresh
<1> QED BY <1>1, EvdevInvariance, PTL
=============================================================================
