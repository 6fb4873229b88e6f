-------------------------------- MODULE Evdev --------------------------------
(***************************************************************************)
(* The primary input watcher of Linux, internal/input/input_linux.go: one    *)
(* goroutine per open /dev/input device reads events and stamps the time of  *)
(* the last one; newEvdev and its rescan loop open devices as they appear;   *)
(* Close gives everything back. The kernel, with its descriptors, devices    *)
(* and event queues, and the rest of the process, which opens descriptors    *)
(* of its own, are the environment.                                          *)
(*                                                                         *)
(* The fields fds and pathOf always change together and have one domain:     *)
(* pathOf stands for both, with NoPath for a descriptor not in them.         *)
(***************************************************************************)
EXTENDS Integers, Sequences, FiniteSets

CONSTANTS
  Devices,     \* the paths /dev/input/event*
  Fds,         \* descriptor numbers
  NoPath,      \* not a path
  MaxQueue,    \* capacity of a descriptor's event queue
  MaxTime,     \* bound of the clock
  MaxUnplugs   \* bound of the devices pulled out (and so of those plugged in again)

ASSUME EvdevAssumption ==
  /\ NoPath \notin Devices /\ Devices \cap {"free", "dead", "foreign"} = {}
  /\ {MaxQueue, MaxTime} \subseteq Nat \ {0} /\ MaxUnplugs \in Nat

NoFd == "none"
NoTime     == -1    \* the zero time.Time; Unix(0, 0) is the time 0 here, long before the start at 1
NoActivity == -2    \* an event of another type than EV_KEY, EV_REL and EV_ABS

VARIABLES
  pathOf,      \* the fields of the watcher, under their names
  last,
  closed,
  scan,        \* the goroutine that opens devices: [pc, todo, dev, fd]
  reader,      \* program point of the readLoop of each descriptor
  found,       \* the time it has parsed
  closer,      \* program point of the caller of Close
  plugged,     \* the devices present
  desc,        \* what each descriptor is open on: a device, "dead" (one that
               \* was pulled out), "foreign" (a file of the rest of the process), "free"
  queue,       \* the events queued on it, by their times
  now, unplugs,
  newest,      \* the time of the newest input (or of the start)
  misclosed    \* the watcher closed a descriptor it did not have

watcher == <<pathOf, last, closed>>
kernel  == <<plugged, desc, queue>>
bounds  == <<now, unplugs>>
ghosts  == <<newest, misclosed>>
vars    == <<watcher, scan, reader, found, closer, kernel, bounds, ghosts>>

Table    == {f \in Fds : pathOf[f] # NoPath}
Stat(f)  == desc[f] \in Devices \cup {"dead"}     \* open on a device, present or not

(* "boot": newEvdev; "open", "add": in openDevice; "idle": the select of     *)
(* rescanLoop; "failed": newEvdev returned an error; "exit".                 *)
Init ==
  /\ pathOf = [f \in Fds |-> NoPath] /\ last = 0 /\ closed = FALSE
  /\ plugged \in SUBSET Devices
  /\ scan = [pc |-> "open", todo |-> plugged, fd |-> NoFd, dev |-> NoPath, boot |-> TRUE]
  /\ reader = [f \in Fds |-> "off"] /\ found = [f \in Fds |-> NoTime]
  /\ closer = "waiting"
  /\ desc = [f \in Fds |-> "free"] /\ queue = [f \in Fds |-> <<>>]
  /\ now = 1 /\ unplugs = 0 /\ newest = 1 /\ misclosed = FALSE

-----------------------------------------------------------------------------
(* System calls of the watcher                                               *)

(* close(2) on the descriptors of fs.                                        *)
CloseFds(fs) ==
  /\ desc' = [f \in Fds |-> IF f \in fs THEN "free" ELSE desc[f]]
  /\ queue' = [f \in Fds |-> IF f \in fs THEN <<>> ELSE queue[f]]
  /\ misclosed' = (misclosed \/ \E f \in fs : ~Stat(f))

-----------------------------------------------------------------------------
(* openDevice, in newEvdev and in rescanLoop                                 *)

Open(dev, fd) ==
  /\ scan.pc = "open" /\ dev \in scan.todo /\ dev \in plugged /\ desc[fd] = "free"
  /\ desc' = [desc EXCEPT ![fd] = dev]
  /\ scan' = [scan EXCEPT !.pc = "add", !.todo = @ \ {dev}, !.fd = fd, !.dev = dev]
  /\ UNCHANGED <<watcher, reader, found, closer, plugged, queue, bounds, ghosts>>

(* No permission, pulled out meanwhile, or no descriptor left.               *)
OpenFails(dev) ==
  /\ scan.pc = "open" /\ dev \in scan.todo
  /\ scan' = [scan EXCEPT !.todo = @ \ {dev}]
  /\ UNCHANGED <<watcher, reader, found, closer, kernel, bounds, ghosts>>

Added_Unchecked == \A f \in Table : pathOf[f] # scan.dev    \* mutant: closed is not looked at
Added_Twice     == ~closed                                \* mutant: no dedupe on the path
Added           == ~closed /\ \A f \in Table : pathOf[f] # scan.dev

Add ==
  /\ scan.pc = "add"
  /\ scan' = [scan EXCEPT !.pc = "open", !.fd = NoFd, !.dev = NoPath]
  /\ IF Added
     THEN /\ pathOf' = [pathOf EXCEPT ![scan.fd] = scan.dev]
          /\ reader' = [reader EXCEPT ![scan.fd] = "read"]
          /\ UNCHANGED <<desc, queue, misclosed>>
     ELSE CloseFds({scan.fd}) /\ UNCHANGED <<pathOf, reader>>
  /\ UNCHANGED <<last, closed, found, closer, plugged, bounds, newest>>

(* Every device has been tried: newEvdev counts what it has, the rescan loop *)
(* goes back to its select.                                                  *)
ScanEnds ==
  /\ scan.pc = "open" /\ scan.todo = {}
  /\ scan' = [scan EXCEPT !.boot = FALSE,
                          !.pc = IF scan.boot /\ Table = {} THEN "failed" ELSE "idle"]
  /\ last' = IF scan.boot /\ Table # {} THEN now ELSE last
  /\ newest' = IF scan.boot THEN now ELSE newest
  /\ UNCHANGED <<pathOf, closed, reader, found, closer, kernel, bounds, misclosed>>

Rescan ==
  /\ scan.pc = "idle"
  /\ scan' = [scan EXCEPT !.pc = "open", !.todo = plugged]
  /\ UNCHANGED <<watcher, reader, found, closer, kernel, bounds, ghosts>>

RescanExits ==
  /\ scan.pc = "idle" /\ closed /\ scan' = [scan EXCEPT !.pc = "exit"]
  /\ UNCHANGED <<watcher, reader, found, closer, kernel, bounds, ghosts>>

Scanner ==
  \/ Add \/ ScanEnds \/ Rescan \/ RescanExits
  \/ \E dev \in Devices : OpenFails(dev) \/ \E fd \in Fds : Open(dev, fd)

-----------------------------------------------------------------------------
(* readLoop                                                                  *)

(* The buffer of 64 bytes takes two whole events.                            *)
Batch(f) == SubSeq(queue[f], 1, IF Len(queue[f]) < 2 THEN Len(queue[f]) ELSE 2)
Rest(f)  == SubSeq(queue[f], Len(Batch(f)) + 1, Len(queue[f]))

(* parseIsActivity: the time of the last event in it that is an activity.    *)
ParseIsActivity(batch) ==
  LET acts == {i \in 1..Len(batch) : batch[i] # NoActivity}
  IN  IF acts = {} THEN NoTime ELSE batch[CHOOSE i \in acts : \A j \in acts : j <= i]

Read(f) ==
  /\ reader[f] = "read" /\ desc[f] \in Devices /\ queue[f] # <<>>
  /\ queue' = [queue EXCEPT ![f] = Rest(f)]
  /\ found' = [found EXCEPT ![f] = ParseIsActivity(Batch(f))]
  /\ reader' = [reader EXCEPT ![f] = IF found'[f] = NoTime THEN "read" ELSE "stamp"]
  /\ UNCHANGED <<watcher, scan, closer, plugged, desc, bounds, ghosts>>

StampOf_Now(ts) == now            \* mutant: the time of the read, not of the event
StampOf(ts) == IF ts = NoTime THEN now ELSE ts

Stamp(f) ==
  /\ reader[f] = "stamp" /\ last' = StampOf(found[f])
  /\ reader' = [reader EXCEPT ![f] = "read"] /\ found' = [found EXCEPT ![f] = NoTime]
  /\ UNCHANGED <<pathOf, closed, scan, closer, kernel, bounds, ghosts>>

(* The device is gone, or Close took the descriptor away (after which its    *)
(* number may mean a foreign file). A read that was blocked may go on being. *)
ReadFails(f) ==
  /\ reader[f] = "read" /\ desc[f] \in {"dead", "free", "foreign"}
  /\ reader' = [reader EXCEPT ![f] = "remove"]
  /\ UNCHANGED <<watcher, scan, found, closer, kernel, bounds, ghosts>>

RemoveFd_Always(f) ==             \* mutant: no test of the table
  /\ reader[f] = "remove" /\ reader' = [reader EXCEPT ![f] = "off"]
  /\ pathOf' = [pathOf EXCEPT ![f] = NoPath] /\ CloseFds({f})
  /\ UNCHANGED <<last, closed, scan, found, closer, plugged, bounds, newest>>
RemoveFd_KeepPath(f) ==           \* mutant: the path stays in pathOf
  /\ reader[f] = "remove" /\ reader' = [reader EXCEPT ![f] = "off"]
  /\ CloseFds({f} \cap Table)
  /\ UNCHANGED <<pathOf, last, closed, scan, found, closer, plugged, bounds, newest>>

RemoveFd(f) ==
  /\ reader[f] = "remove" /\ reader' = [reader EXCEPT ![f] = "off"]
  /\ pathOf' = [pathOf EXCEPT ![f] = NoPath]
  /\ CloseFds({f} \cap Table)
  /\ UNCHANGED <<last, closed, scan, found, closer, plugged, bounds, newest>>

Reader(f) == Read(f) \/ Stamp(f) \/ ReadFails(f) \/ RemoveFd(f)

-----------------------------------------------------------------------------
(* Close, called once newEvdev has returned a watcher                        *)

CloseBegins ==
  /\ closer = "waiting" /\ ~scan.boot /\ scan.pc # "failed"
  /\ closed' = TRUE /\ closer' = "drain"
  /\ UNCHANGED <<pathOf, last, scan, reader, found, kernel, bounds, ghosts>>

Drain ==
  /\ closer = "drain" /\ closer' = "returned"
  /\ pathOf' = [f \in Fds |-> NoPath] /\ CloseFds(Table)
  /\ UNCHANGED <<last, closed, scan, reader, found, plugged, bounds, newest>>

-----------------------------------------------------------------------------
(* The kernel, the user and the rest of the process                          *)

Plug(dev) ==
  /\ dev \notin plugged /\ plugged' = plugged \cup {dev}
  /\ UNCHANGED <<watcher, scan, reader, found, closer, desc, queue, bounds, ghosts>>

Unplug(dev) ==
  /\ dev \in plugged /\ unplugs < MaxUnplugs /\ unplugs' = unplugs + 1
  /\ plugged' = plugged \ {dev}
  /\ desc' = [f \in Fds |-> IF desc[f] = dev THEN "dead" ELSE desc[f]]
  /\ queue' = [f \in Fds |-> IF desc[f] = dev THEN <<>> ELSE queue[f]]
  /\ UNCHANGED <<watcher, scan, reader, found, closer, now, ghosts>>

(* An event enters the queue of every descriptor of the device; a full queue *)
(* keeps the newest event only.                                              *)
Queued(ts, dev) ==
  queue' = [f \in Fds |-> IF desc[f] # dev THEN queue[f]
                          ELSE IF Len(queue[f]) < MaxQueue THEN Append(queue[f], ts) ELSE <<ts>>]

Input(dev) ==
  /\ dev \in plugged /\ Queued(now, dev) /\ newest' = now
  /\ UNCHANGED <<watcher, scan, reader, found, closer, plugged, desc, bounds, misclosed>>

OtherEvent(dev) ==
  /\ dev \in plugged /\ Queued(NoActivity, dev)
  /\ UNCHANGED <<watcher, scan, reader, found, closer, plugged, desc, bounds, ghosts>>

ForeignOpen(f) ==
  /\ desc[f] = "free" /\ desc' = [desc EXCEPT ![f] = "foreign"]
  /\ UNCHANGED <<watcher, scan, reader, found, closer, plugged, queue, bounds, ghosts>>

ForeignClose(f) ==
  /\ desc[f] = "foreign" /\ desc' = [desc EXCEPT ![f] = "free"]
  /\ UNCHANGED <<watcher, scan, reader, found, closer, plugged, queue, bounds, ghosts>>

Tick ==
  /\ now < MaxTime /\ now' = now + 1
  /\ UNCHANGED <<watcher, scan, reader, found, closer, kernel, unplugs, ghosts>>

Environment ==
  \/ Tick
  \/ \E dev \in Devices : Plug(dev) \/ Unplug(dev) \/ OtherEvent(dev) \/ Input(dev)
  \/ \E f \in Fds : ForeignOpen(f) \/ ForeignClose(f)

Next == Scanner \/ (\E f \in Fds : Reader(f)) \/ CloseBegins \/ Drain \/ Environment

Spec == Init /\ [][Next]_vars

(* The goroutines run, though a read that Close left blocked may stay so; a   *)
(* device that is present can be opened in one scan or another.            *)
Fairness ==
  /\ WF_vars(Add) /\ WF_vars(ScanEnds) /\ WF_vars(Rescan)
  /\ \A dev \in Devices : SF_vars(\E fd \in Fds : Open(dev, fd))
  /\ WF_vars(\E dev \in Devices : OpenFails(dev))
  /\ \A f \in Fds : WF_vars(desc[f] # "free" /\ Reader(f))
  /\ WF_vars(Drain)

FairSpec == Spec /\ Fairness

-----------------------------------------------------------------------------
(* Properties                                                                *)

(* Each descriptor is closed exactly once, by its reader or by Close, and    *)
(* never after its number has come to mean another file (comments at fds,    *)
(* readLoop and removeFd).                                                   *)
ClosesOwn == ~misclosed

(* No device is read twice, though newEvdev and every scan open it again     *)
(* (the dedupe of openDevice).                                               *)
OneReaderPerDevice ==
  \A f, g \in Table : pathOf[f] = pathOf[g] => f = g

(* When Close has returned, no descriptor of a device stays open but the one *)
(* openDevice is about to close (comment in openDevice).                     *)
NoFdLeak == closer = "returned" => \A f \in Fds : Stat(f) => scan.fd = f

(* What is read late from a queue does not count as new: the watcher never   *)
(* claims input younger than the newest there was (comment in readLoop).     *)
NeverTooFresh == last <= newest

(* A device that stays plugged in ends up with a reader, whatever was pulled *)
(* out and plugged in before, and however the scan crossed it (comment at    *)
(* rescanLoop).                                                              *)
PicksUp ==
  \A dev \in Devices :
    <>[](dev \in plugged /\ ~closed /\ scan.pc # "failed" /\ \E f \in Fds : desc[f] \in {dev, "free"})
      => <>[](\E f \in Table : desc[f] = dev /\ pathOf[f] = dev)
=============================================================================
