------------------------------- MODULE Daemon -------------------------------
(***************************************************************************)
(* How watchdog processes are started, found and stopped: cmdServe of        *)
(* main.go, the single-instance lock, the pid file, Spawn and Stop of        *)
(* internal/daemon. Any number of `serve`, `serve -d` and `stop` commands    *)
(* run at once; processes are killed and their pids are given to others.     *)
(***************************************************************************)
EXTENDS Integers, FiniteSets

CONSTANTS
  Pids,          \* the pids: of serve processes, one after another, and of other programs
  Spawners,      \* the `serve -d` commands
  Stoppers,      \* the `stop` commands
  NoPid,         \* not a pid
  Graceful,      \* TRUE: terminate sends SIGTERM (unix); FALSE: taskkill /F
  WriteFails,    \* TRUE: the pid file may be impossible to write
  Tolerance,     \* start times that differ by no more are one (3 s in Stop)
  MaxTime        \* bound of the clock

Commands == Spawners \cup Stoppers

ASSUME DaemonAssumption ==
  /\ NoPid \notin Pids \cup Commands /\ Pids \cap {"absent", "truncated"} = {}
  /\ Pids \cap Commands = {} /\ Spawners \cap Stoppers = {}
  /\ {Graceful, WriteFails} \subseteq BOOLEAN /\ Tolerance \in Nat /\ MaxTime \in Nat \ {0}

VARIABLES
  pc,            \* program point of each serve process
  owner,         \* who has the pid: "none", "scroff" or "other"
  started,       \* when the owner started
  wrote,         \* the process has written the pid file (its defer is registered)
  signalled,     \* SIGTERM is pending
  lock,          \* who holds the single-instance lock
  pidfile,       \* the pid in the pid file, "absent" or "truncated"
  recorded,      \* the start time beside it
  spawn,         \* the state of each `serve -d` command
  stop,          \* the state of each `stop` command
  now,
  struck         \* the `stop` commands that terminated another program they found at the pid

process == <<pc, owner, started, wrote, signalled>>
file    == <<pidfile, recorded>>
vars    == <<process, lock, file, spawn, stop, now, struck>>

(* "idle": never started; "lock": about to call Lock; "open", "write": in    *)
(* WritePID; "setup": up to signal.NotifyContext; "run": in Run; "unlink"    *)
(* and "release": the deferred calls; "gone": exited or killed.              *)
ServePCs == {"idle", "lock", "open", "write", "setup", "run", "unlink", "release", "gone"}
Files    == Pids \cup {"absent", "truncated"}

Init ==
  /\ pc = [p \in Pids |-> "idle"] /\ owner = [p \in Pids |-> "none"]
  /\ started = [p \in Pids |-> 0]
  /\ wrote = [p \in Pids |-> FALSE] /\ signalled = [p \in Pids |-> FALSE]
  /\ lock = NoPid /\ pidfile = "absent" /\ recorded = 0
  /\ spawn = [k \in Spawners |-> [pc |-> "start", child |-> NoPid, born |-> 0]]
  /\ stop = [k \in Stoppers |-> [pc |-> "read", pid |-> NoPid, start |-> 0, since |-> 0, named |-> 0]]
  /\ now = 1 /\ struck = {}

(* processAlive, exactly. In the code any error of kill(pid, 0), or of        *)
(* OpenProcess, counts as not running, also that of another user's process.  *)
Alive(p) == owner[p] # "none"

-----------------------------------------------------------------------------
(* cmdServe                                                                  *)

(* A pid that nobody has; the system gives one again only later than the     *)
(* tolerance of Stop, to a serve process or to another program.              *)
Free(p) ==
  /\ pc[p] \in {"idle", "gone"} /\ owner[p] = "none"
  /\ pc[p] = "gone" => now > started[p] + Tolerance

Launch(p) ==
  /\ Free(p)
  /\ pc' = [pc EXCEPT ![p] = "lock"] /\ owner' = [owner EXCEPT ![p] = "scroff"]
  /\ started' = [started EXCEPT ![p] = now]
  /\ wrote' = [wrote EXCEPT ![p] = FALSE] /\ signalled' = [signalled EXCEPT ![p] = FALSE]

(* A foreground serve: a scheduled task, a service, a terminal.              *)
Serve(p) == Launch(p) /\ UNCHANGED <<lock, file, spawn, stop, now, struck>>

(* The process ends: the system frees its pid and its lock.                  *)
Ends(p) ==
  /\ pc' = [pc EXCEPT ![p] = "gone"] /\ owner' = [owner EXCEPT ![p] = "none"]
  /\ lock' = IF lock = p THEN NoPid ELSE lock
  /\ UNCHANGED <<started, wrote, signalled>>

Goto(p, next) ==
  pc' = [pc EXCEPT ![p] = next] /\ UNCHANGED <<owner, started, wrote, signalled>>

TryLock_PidFile(p) ==             \* mutant: the pid file decides instead of the lock
  /\ pc[p] = "lock"
  /\ \/ (pidfile \in Pids => ~Alive(pidfile)) /\ lock' = p /\ Goto(p, "open")
     \/ (pidfile \in Pids /\ Alive(pidfile)) /\ Ends(p)
  /\ UNCHANGED <<file, spawn, stop, now, struck>>

TryLock(p) ==
  /\ pc[p] = "lock"
  /\ \/ lock = NoPid /\ lock' = p /\ Goto(p, "open")
     \/ lock # NoPid /\ Ends(p)
  /\ UNCHANGED <<file, spawn, stop, now, struck>>

(* WritePID is not atomic: WriteFile truncates, then writes. Either may      *)
(* fail; the watchdog runs on, with no pid in the file.                      *)
OpenPID(p) ==
  /\ pc[p] = "open"
  /\ \/ pidfile' = "truncated" /\ Goto(p, "write")
     \/ WriteFails /\ UNCHANGED pidfile /\ Goto(p, "setup")
  /\ UNCHANGED <<lock, recorded, spawn, stop, now, struck>>

WritePID(p) ==
  /\ pc[p] = "write"
  /\ \/ /\ pidfile' = p /\ recorded' = started[p]
        /\ pc' = [pc EXCEPT ![p] = "setup"] /\ wrote' = [wrote EXCEPT ![p] = TRUE]
        /\ UNCHANGED <<owner, started, signalled>>
     \/ WriteFails /\ UNCHANGED file /\ Goto(p, "setup")
  /\ UNCHANGED <<lock, spawn, stop, now, struck>>

(* Where a return of cmdServe leads: RemovePID is deferred only once it wrote. *)
Unwind(p) == IF wrote[p] THEN "unlink" ELSE "release"

(* screen.New or ha.New fails, or Run is entered.                            *)
Setup(p) ==
  /\ pc[p] = "setup"
  /\ \E next \in {"run", Unwind(p)} : Goto(p, next)
  /\ UNCHANGED <<lock, file, spawn, stop, now, struck>>

(* Run returns after a signal, the screen restored (Controller!Shutdown).    *)
Finish(p) ==
  /\ pc[p] = "run" /\ signalled[p]
  /\ Goto(p, Unwind(p))
  /\ UNCHANGED <<lock, file, spawn, stop, now, struck>>

(* The deferred calls, in the reverse order of their defers.                 *)
Unlink_AfterRelease(p) ==         \* mutant: the lock is released before the pid file is removed
  /\ pc[p] = "unlink"
  /\ \/ lock = p /\ lock' = NoPid /\ UNCHANGED <<pidfile, process>>
     \/ lock # p /\ pidfile' = "absent" /\ Ends(p)
  /\ UNCHANGED <<recorded, spawn, stop, now, struck>>

Unlink(p) ==
  /\ pc[p] = "unlink" /\ pidfile' = "absent" /\ Goto(p, "release")
  /\ UNCHANGED <<lock, recorded, spawn, stop, now, struck>>

Release(p) ==
  /\ pc[p] = "release" /\ Ends(p)
  /\ UNCHANGED <<file, spawn, stop, now, struck>>

(* SIGTERM before NotifyContext has its default action.                      *)
DieOfSignal(p) ==
  /\ signalled[p] /\ pc[p] \in {"lock", "open", "write", "setup"} /\ Ends(p)
  /\ UNCHANGED <<file, spawn, stop, now, struck>>

(* kill -9, taskkill /F, a crash.                                            *)
Kill(p) ==
  /\ pc[p] \notin {"idle", "gone"} /\ Ends(p)
  /\ UNCHANGED <<file, spawn, stop, now, struck>>

ServeStep(p) ==
  TryLock(p) \/ OpenPID(p) \/ WritePID(p) \/ Setup(p) \/ Finish(p) \/ Unlink(p) \/ Release(p)

(* terminate                                                                 *)
Terminate(p) ==
  IF Graceful \/ owner[p] # "scroff"
  THEN /\ signalled' = [signalled EXCEPT ![p] = (owner[p] = "scroff")]
       /\ owner' = IF owner[p] = "other" THEN [owner EXCEPT ![p] = "none"] ELSE owner
       /\ UNCHANGED <<pc, started, wrote, lock>>
  ELSE Ends(p)

-----------------------------------------------------------------------------
(* Spawn, in the process of a `serve -d`. The pid of the child may be the    *)
(* one a stale pid file still holds.                                         *)

SpawnGoto(k, next) == spawn' = [spawn EXCEPT ![k].pc = next]

SpawnStart(k, p) ==
  /\ spawn[k].pc = "start" /\ Launch(p)
  /\ spawn' = [spawn EXCEPT ![k] = [pc |-> "poll", child |-> p, born |-> now]]
  /\ UNCHANGED <<lock, file, stop, now, struck>>

SpawnSees(k) ==
  /\ spawn[k].pc = "poll" /\ pidfile = spawn[k].child /\ SpawnGoto(k, "grace")
  /\ UNCHANGED <<process, lock, file, stop, now, struck>>

SpawnConfirms(k) ==
  /\ spawn[k].pc = "grace"
  /\ SpawnGoto(k, IF Alive(spawn[k].child) THEN "ok" ELSE "probe")
  /\ UNCHANGED <<process, lock, file, stop, now, struck>>

SpawnLosesChild(k) ==
  /\ spawn[k].pc = "poll" /\ pidfile # spawn[k].child /\ ~Alive(spawn[k].child)
  /\ SpawnGoto(k, "probe")
  /\ UNCHANGED <<process, lock, file, stop, now, struck>>

(* The 5 s are over.                                                         *)
SpawnTimesOut_Orphan(k) ==        \* mutant: the child is left alone
  /\ spawn[k].pc = "poll" /\ pidfile # spawn[k].child
  /\ SpawnGoto(k, "probe")
  /\ UNCHANGED <<process, lock, file, stop, now, struck>>

SpawnTimesOut(k) ==
  /\ spawn[k].pc = "poll" /\ pidfile # spawn[k].child
  /\ Terminate(spawn[k].child) /\ SpawnGoto(k, "probe")
  /\ UNCHANGED <<file, stop, now, struck>>

(* spawnFail: lockHeld takes the lock to see whether it can.                 *)
SpawnProbes(k) ==
  /\ spawn[k].pc = "probe"
  /\ IF lock = NoPid THEN lock' = k /\ SpawnGoto(k, "unprobe")
                     ELSE UNCHANGED lock /\ SpawnGoto(k, "another")
  /\ UNCHANGED <<process, file, stop, now, struck>>

SpawnUnprobes(k) ==
  /\ spawn[k].pc = "unprobe" /\ lock' = NoPid /\ SpawnGoto(k, "failed")
  /\ UNCHANGED <<process, file, stop, now, struck>>

SpawnStep(k) ==
  \/ SpawnSees(k) \/ SpawnConfirms(k) \/ SpawnLosesChild(k) \/ SpawnProbes(k) \/ SpawnUnprobes(k)

-----------------------------------------------------------------------------
(* Stop, in the process of a `stop`                                          *)

StopGoto(k, next) == stop' = [stop EXCEPT ![k].pc = next]

StopReads_Unparsed(k) ==          \* mutant: the error of ReadPID is not looked at
  /\ stop[k].pc = "read"
  /\ stop' = [stop EXCEPT ![k] = [pc |-> "alive", pid |-> pidfile, start |-> 0,
                                      since |-> 0, named |-> recorded]]
  /\ UNCHANGED <<process, lock, file, spawn, now, struck>>

(* ReadPID. A missing or truncated file ends the command with an error.      *)
(* Noted beside the pid: since when its owner has it, and the start time that *)
(* the file names.                                                           *)
StopReads(k) ==
  /\ stop[k].pc = "read"
  /\ stop' = [stop EXCEPT ![k] = IF pidfile \in Pids
                THEN [pc |-> "alive", pid |-> pidfile, start |-> 0,
                      since |-> started[pidfile], named |-> recorded]
                ELSE [@ EXCEPT !.pc = "error"]]
  /\ UNCHANGED <<process, lock, file, spawn, now, struck>>

StopAlive(k) ==
  /\ stop[k].pc = "alive"
  /\ StopGoto(k, IF Alive(stop[k].pid) THEN "recorded" ELSE "clean")
  /\ UNCHANGED <<process, lock, file, spawn, now, struck>>

(* recordedStartSec reads the file again; 0 when it finds no start time.     *)
StopRecorded(k) ==
  /\ stop[k].pc = "recorded"
  /\ stop' = [stop EXCEPT ![k].start = IF pidfile \in Pids THEN recorded ELSE 0,
                          ![k].pc = IF pidfile \in Pids THEN "compare" ELSE "terminate"]
  /\ UNCHANGED <<process, lock, file, spawn, now, struck>>

SameStart_Always(p, start) == TRUE \* mutant: the pid-reuse guard is missing
SameStart_Ticks(p, start) ==      \* mutant: clock ticks are compared with seconds
  2 * started[p] - start \in -Tolerance..Tolerance \/ ~Alive(p)
SameStart(p, start) ==
  started[p] - start \in -Tolerance..Tolerance \/ ~Alive(p)

StopCompares(k) ==
  /\ stop[k].pc = "compare"
  /\ StopGoto(k, IF SameStart(stop[k].pid, stop[k].start) THEN "terminate" ELSE "clean")
  /\ UNCHANGED <<process, lock, file, spawn, now, struck>>

(* The pid is another program's, and was when Stop read it.                  *)
Foreign(k) ==
  owner[stop[k].pid] = "other" /\ started[stop[k].pid] = stop[k].since

StopTerminates(k) ==
  /\ stop[k].pc = "terminate"
  /\ IF Alive(stop[k].pid) THEN Terminate(stop[k].pid) /\ StopGoto(k, "remove")
     ELSE StopGoto(k, "error") /\ UNCHANGED <<process, lock>>
  /\ struck' = IF Foreign(k) THEN struck \cup {k} ELSE struck
  /\ UNCHANGED <<file, spawn, now>>

(* RemovePID, after terminate or of a file found stale: that is an error.    *)
StopRemoves(k) ==
  /\ \/ stop[k].pc = "remove" /\ StopGoto(k, "done")
     \/ stop[k].pc = "clean" /\ StopGoto(k, "stale")
  /\ pidfile' = "absent"
  /\ UNCHANGED <<process, lock, recorded, spawn, now, struck>>

StopStep(k) ==
  \/ StopReads(k) \/ StopAlive(k) \/ StopRecorded(k) \/ StopCompares(k)
  \/ StopTerminates(k) \/ StopRemoves(k)

-----------------------------------------------------------------------------
(* The rest of the system                                                    *)

(* Another program gets the pid of a dead watchdog.                          *)
Reuse(p) ==
  /\ pc[p] = "gone" /\ Free(p)
  /\ owner' = [owner EXCEPT ![p] = "other"] /\ started' = [started EXCEPT ![p] = now]
  /\ UNCHANGED <<pc, wrote, signalled, lock, file, spawn, stop, now, struck>>

OtherExits(p) ==
  /\ owner[p] = "other" /\ owner' = [owner EXCEPT ![p] = "none"]
  /\ UNCHANGED <<pc, started, wrote, signalled, lock, file, spawn, stop, now, struck>>

Tick ==
  /\ now < MaxTime /\ now' = now + 1
  /\ UNCHANGED <<process, lock, file, spawn, stop, struck>>

Next ==
  \/ \E p \in Pids : Serve(p) \/ ServeStep(p) \/ DieOfSignal(p) \/ Kill(p) \/ Reuse(p) \/ OtherExits(p)
  \/ \E k \in Spawners : SpawnStep(k) \/ SpawnTimesOut(k) \/ \E p \in Pids : SpawnStart(k, p)
  \/ \E k \in Stoppers : StopStep(k)
  \/ Tick

Spec == Init /\ [][Next]_vars

(* Every process runs, and a pending SIGTERM is delivered. A watchdog in Run *)
(* leaves it only for a signal.                                              *)
Fairness ==
  /\ \A p \in Pids : WF_vars(ServeStep(p) \/ DieOfSignal(p))
  /\ \A k \in Spawners : WF_vars(SpawnStep(k) \/ SpawnTimesOut(k))
  /\ \A k \in Stoppers : WF_vars(StopStep(k))

FairSpec == Spec /\ Fairness

-----------------------------------------------------------------------------
(* Properties                                                                *)

SpawnStates ==
  [pc : {"start", "poll", "grace", "ok", "probe", "unprobe", "failed", "another"},
   child : Pids \cup {NoPid}, born : 0..MaxTime]
StopStates ==
  [pc : {"read", "alive", "recorded", "compare", "terminate", "remove", "clean",
         "done", "stale", "error"},
   pid : Pids \cup {NoPid}, start : 0..MaxTime, since : 0..MaxTime, named : 0..MaxTime]

TypeOK ==
  /\ pc \in [Pids -> ServePCs] /\ owner \in [Pids -> {"none", "scroff", "other"}]
  /\ started \in [Pids -> 0..MaxTime]
  /\ wrote \in [Pids -> BOOLEAN] /\ signalled \in [Pids -> BOOLEAN]
  /\ lock \in Pids \cup Spawners \cup {NoPid}
  /\ pidfile \in Files /\ recorded \in 0..MaxTime
  /\ spawn \in [Spawners -> SpawnStates] /\ stop \in [Stoppers -> StopStates]
  /\ now \in 1..MaxTime /\ struck \subseteq Stoppers

(* At most one process is past Lock, whatever was killed and whatever the    *)
(* pid file says (comment at Lock).                                          *)
Holding == {p \in Pids : pc[p] \in {"open", "write", "setup", "run", "unlink", "release"}}
OneWatchdog == \A p, q \in Holding : p = q

(* A watchdog that runs and has not been told to stop is the one the pid     *)
(* file names, start time and all, so that `stop` can find it                *)
(* (README.md:114-117).                                                      *)
StopFindsRunner ==
  \A p \in Pids :
    pc[p] = "run" /\ wrote[p] /\ ~signalled[p] => pidfile = p /\ recorded = started[p]

(* That much is true until a `stop` has removed the pid file: kills, failed  *)
(* starts, reused pids and instances that end do not take it away from one   *)
(* that runs.                                                                *)
PidFileNamesRunner ==
  (\A k \in Stoppers : stop[k].pc \notin {"done", "stale"}) => StopFindsRunner

(* A `serve -d` that fails leaves no child behind (comment in Spawn).        *)
Ended(p, start) == pc[p] = "gone" \/ started[p] # start
NoOrphan ==
  \A k \in Spawners :
    spawn[k].pc \in {"failed", "another"}
      ~> \E p \in Pids : spawn[k].child = p /\ Ended(p, spawn[k].born)

(* A `stop` that claims to have stopped a watchdog, or to have found none    *)
(* running, is right about the one whose pid and start time it read: that    *)
(* one ends, and a later process with its pid is another.                    *)
StopWorks ==
  \A k \in Stoppers :
    stop[k].pc \in {"done", "stale"}
      ~> \E p \in Pids : stop[k].pid = p /\ Ended(p, stop[k].named)

(* Stop terminates another program that it found at the pid only if its two  *)
(* reads of the pid file, one of the pid and one of the start time, found    *)
(* different entries.                                                        *)
StopSparesOthers == \A k \in struck : stop[k].start # stop[k].named

(* If the number now belongs to an unrelated process, Stop refuses to touch  *)
(* it (comment at Stop).                                                     *)
StopTouchesNoOther == struck = {}
=============================================================================
