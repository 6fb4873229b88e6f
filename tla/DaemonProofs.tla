---------------------------- MODULE DaemonProofs ----------------------------
(* Proofs about the processes of Daemon, for any number of commands.          *)
EXTENDS Daemon, TLAPS

-----------------------------------------------------------------------------
(* The inductive invariant                                                   *)

(* Who is past Lock, or probes the lock, holds it.                           *)
LockHeld ==
  /\ \A p \in Holding : lock = p
  /\ \A k \in Spawners : spawn[k].pc = "unprobe" => lock = k

(* Only WritePID writes a name, and only a `stop` takes it from the writer.  *)
Untouched == \A k \in Stoppers : stop[k].pc \notin {"done", "stale"}
FileNames ==
  /\ \A p \in Pids : wrote[p] => pc[p] \in {"setup", "run", "unlink", "release", "gone"}
  /\ Untouched =>
       \A p \in Pids : wrote[p] /\ pc[p] \in {"setup", "run", "unlink"} =>
                         pidfile = p /\ recorded = started[p]

(* A `serve -d` has a child.                                                 *)
Children == \A k \in Spawners : spawn[k].pc # "start" => spawn[k].child \in Pids

(* A pid changes hands forward in time, and another program has it by more   *)
(* than the tolerance after the start recorded for it.                       *)
Starts ==
  /\ \A p \in Pids : /\ IF pc[p] = "idle" THEN owner[p] = "none" ELSE started[p] >= 1
                     /\ owner[p] = "other" => pc[p] = "gone"
  /\ pidfile \in Pids =>
       /\ pc[pidfile] # "idle" /\ recorded >= 1 /\ started[pidfile] >= recorded
       /\ owner[pidfile] = "other" => started[pidfile] > recorded + Tolerance

(* What a `stop` knows of the pid it read: its owner does not get older, and *)
(* another program that had it then will not be terminated on two reads that *)
(* agree.                                                                    *)
Informed(k) ==
  /\ stop[k].pid \in Pids /\ pc[stop[k].pid] # "idle"
  /\ stop[k].named >= 1 /\ started[stop[k].pid] >= stop[k].since
  /\ Foreign(k) => stop[k].since > stop[k].named + Tolerance
  /\ Foreign(k) /\ stop[k].pc = "terminate" => stop[k].start # stop[k].named

Guarded ==
  \A k \in Stoppers :
    stop[k].pc \in {"alive", "recorded", "compare", "terminate"} => Informed(k)

Struck ==
  \A k \in struck : stop[k].pc \in {"remove", "done"} /\ stop[k].start # stop[k].named

IInv == TypeOK /\ LockHeld /\ FileNames /\ Children /\ Starts /\ Guarded /\ Struck

-----------------------------------------------------------------------------

(* Initially the invariant holds.                                            *)
LEMMA Initially == Init => IInv
  <1>. SUFFICES ASSUME Init PROVE IInv
    OBVIOUS
  <1>1. TypeOK
    <2>1. spawn \in [Spawners -> SpawnStates] /\ stop \in [Stoppers -> StopStates]
      <3>1. [pc |-> "start", child |-> NoPid, born |-> 0] \in SpawnStates
        BY DaemonAssumption DEF SpawnStates
      <3>2. [pc |-> "read", pid |-> NoPid, start |-> 0, since |-> 0, named |-> 0] \in StopStates
        BY DaemonAssumption DEF StopStates
      <3>. QED BY <3>1, <3>2 DEF Init
    <2>2. /\ pc \in [Pids -> ServePCs] /\ owner \in [Pids -> {"none", "scroff", "other"}]
          /\ started \in [Pids -> 0..MaxTime]
      BY DaemonAssumption DEF Init, ServePCs
    <2>3. wrote \in [Pids -> BOOLEAN] /\ signalled \in [Pids -> BOOLEAN]
      BY Zenon DEF Init
    <2>4. /\ lock \in Pids \cup Spawners \cup {NoPid} /\ pidfile \in Files
          /\ recorded \in 0..MaxTime /\ now \in 1..MaxTime
      BY DaemonAssumption DEF Init, Files
    <2>5. struck \subseteq Stoppers
      BY Zenon DEF Init
    <2>. QED BY <2>1, <2>2, <2>3, <2>4, <2>5 DEF TypeOK
  <1>2. LockHeld
    BY DEF Init, LockHeld, Holding
  <1>3. FileNames
    BY DaemonAssumption DEF Init, FileNames
  <1>4. Children /\ Guarded /\ Struck
    BY DEF Init, Children, Guarded, Struck
  <1>5. Starts
    BY DaemonAssumption DEF Init, Starts
  <1>. QED BY <1>1, <1>2, <1>3, <1>4, <1>5 DEF IInv

-----------------------------------------------------------------------------
(* Type correctness                                                          *)

(* What a step does to a process keeps it typed: started, ended, moved on or *)
(* told to end.                                                              *)
LEMMA ProcessTyped ==
  ASSUME TypeOK, NEW p \in Pids, NEW next \in ServePCs,
         \/ Launch(p) /\ UNCHANGED lock
         \/ Ends(p)
         \/ Goto(p, next) /\ lock' \in Pids \cup Spawners \cup {NoPid}
         \/ Terminate(p)
  PROVE  /\ pc' \in [Pids -> ServePCs] /\ owner' \in [Pids -> {"none", "scroff", "other"}]
         /\ started' \in [Pids -> 0..MaxTime]
         /\ wrote' \in [Pids -> BOOLEAN] /\ signalled' \in [Pids -> BOOLEAN]
         /\ lock' \in Pids \cup Spawners \cup {NoPid}
  <1>1. CASE Launch(p) /\ UNCHANGED lock
    BY <1>1 DEF Launch, TypeOK, ServePCs
  <1>2. CASE Ends(p)
    BY <1>2 DEF Ends, TypeOK, ServePCs
  <1>3. CASE Goto(p, next) /\ lock' \in Pids \cup Spawners \cup {NoPid}
    BY <1>3 DEF Goto, TypeOK
  <1>4. CASE Terminate(p) /\ ~Ends(p)
    BY <1>4 DEF Terminate, TypeOK
  <1>. QED BY <1>1, <1>2, <1>3, <1>4

(* The type invariant is preserved by every step.                            *)
LEMMA Typing ==
  ASSUME TypeOK, Children, Guarded, [Next]_vars
  PROVE  TypeOK'
  <1>1. ASSUME NEW p \in Pids, Serve(p) \/ DieOfSignal(p) \/ Kill(p)
        PROVE  TypeOK'
    <2>1. "idle" \in ServePCs
      BY DEF ServePCs
    <2>. QED BY <1>1, <2>1, ProcessTyped DEF Serve, DieOfSignal, Kill, TypeOK, file
  <1>2. ASSUME NEW p \in Pids, TryLock(p) \/ Setup(p) \/ Finish(p) \/ Release(p)
        PROVE  TypeOK'
    <2>1. {"open", "run", "unlink", "release"} \subseteq ServePCs /\ Unwind(p) \in {"unlink", "release"}
      BY DEF ServePCs, Unwind
    <2>. QED
      BY <1>2, <2>1, ProcessTyped DEF TryLock, Setup, Finish, Release, TypeOK, file
  <1>3. ASSUME NEW p \in Pids, OpenPID(p) \/ Unlink(p)
        PROVE  TypeOK'
    <2>1. {"write", "setup", "release"} \subseteq ServePCs
      BY DEF ServePCs
    <2>. QED BY <1>3, <2>1, ProcessTyped DEF OpenPID, Unlink, TypeOK, Files
  <1>4. ASSUME NEW p \in Pids, WritePID(p)
        PROVE  TypeOK'
    <2>1. "setup" \in ServePCs
      BY DEF ServePCs
    <2>2. CASE WriteFails /\ UNCHANGED file /\ Goto(p, "setup")
      BY <1>4, <2>1, <2>2, ProcessTyped DEF WritePID, TypeOK, file
    <2>3. CASE ~(WriteFails /\ UNCHANGED file /\ Goto(p, "setup"))
      <3>1. /\ pidfile' = p /\ recorded' = started[p]
            /\ pc' = [pc EXCEPT ![p] = "setup"] /\ wrote' = [wrote EXCEPT ![p] = TRUE]
            /\ UNCHANGED <<owner, started, signalled, lock, spawn, stop, now, struck>>
        BY <1>4, <2>3 DEF WritePID
      <3>2. pc' \in [Pids -> ServePCs] /\ wrote' \in [Pids -> BOOLEAN]
        BY <2>1, <3>1 DEF TypeOK
      <3>. QED BY <3>1, <3>2 DEF TypeOK, Files
    <2>. QED BY <2>2, <2>3
  <1>5. ASSUME NEW p \in Pids, Reuse(p) \/ OtherExits(p)
        PROVE  TypeOK'
    BY <1>5 DEF Reuse, OtherExits, TypeOK, file
  <1>6. ASSUME NEW k \in Spawners, NEW p \in Pids, SpawnStart(k, p)
        PROVE  TypeOK'
    <2>1. "idle" \in ServePCs
      BY DEF ServePCs
    <2>2. spawn' \in [Spawners -> SpawnStates]
      BY <1>6 DEF SpawnStart, TypeOK, SpawnStates
    <2>. QED BY <1>6, <2>1, <2>2, ProcessTyped DEF SpawnStart, TypeOK, file
  <1>7. ASSUME NEW k \in Spawners, SpawnStep(k)
        PROVE  TypeOK'
    BY <1>7 DEF SpawnStep, SpawnSees, SpawnConfirms, SpawnLosesChild, SpawnProbes,
                SpawnUnprobes, SpawnGoto, TypeOK, SpawnStates, process, file
  <1>8. ASSUME NEW k \in Spawners, SpawnTimesOut(k)
        PROVE  TypeOK'
    <2>1. spawn[k].child \in Pids /\ "idle" \in ServePCs
      BY <1>8 DEF SpawnTimesOut, Children, ServePCs
    <2>. QED BY <1>8, <2>1, ProcessTyped DEF SpawnTimesOut, SpawnGoto, TypeOK, SpawnStates, file
  <1>9. ASSUME NEW k \in Stoppers, StopReads(k) \/ StopAlive(k) \/ StopRecorded(k) \/ StopCompares(k)
        PROVE  TypeOK'
    <2>1. stop[k] \in StopStates
      BY DEF TypeOK
    <2>2. ASSUME NEW state \in StopStates, stop' = [stop EXCEPT ![k] = state]
          PROVE  stop' \in [Stoppers -> StopStates]
      BY <2>2 DEF TypeOK
    <2>3. ASSUME StopReads(k)
          PROVE  stop' \in [Stoppers -> StopStates]
      <3>1. CASE pidfile \in Pids
        <4>. DEFINE state == [pc |-> "alive", pid |-> pidfile, start |-> 0,
                              since |-> started[pidfile], named |-> recorded]
        <4>1. state \in StopStates
          BY <3>1, DaemonAssumption DEF TypeOK, StopStates
        <4>2. stop' = [stop EXCEPT ![k] = state]
          BY <2>3, <3>1 DEF StopReads
        <4>. QED BY <2>2, <4>1, <4>2
      <3>2. CASE pidfile \notin Pids
        <4>1. stop' = [stop EXCEPT ![k] = [stop[k] EXCEPT !.pc = "error"]]
          BY <2>3, <3>2 DEF StopReads
        <4>2. [stop[k] EXCEPT !.pc = "error"] \in StopStates
          BY <2>1 DEF StopStates
        <4>. QED BY <2>2, <4>1, <4>2
      <3>. QED BY <3>1, <3>2
    <2>4. CASE StopAlive(k) \/ StopCompares(k)
      BY <2>4 DEF StopAlive, StopCompares, StopGoto, TypeOK, StopStates, process, file
    <2>5. CASE StopRecorded(k)
      BY <2>5, DaemonAssumption DEF StopRecorded, TypeOK, StopStates, process, file
    <2>6. StopReads(k) => TypeOK'
      BY <2>3 DEF StopReads, TypeOK, process, file
    <2>. QED BY <1>9, <2>4, <2>5, <2>6
  <1>10. ASSUME NEW k \in Stoppers, StopTerminates(k)
         PROVE  TypeOK'
    <2>1. stop[k].pid \in Pids /\ "idle" \in ServePCs
      BY <1>10 DEF StopTerminates, Guarded, Informed, ServePCs
    <2>2. struck' \subseteq Stoppers
      BY <1>10 DEF StopTerminates, TypeOK
    <2>3. stop' \in [Stoppers -> StopStates]
      BY <1>10 DEF StopTerminates, StopGoto, TypeOK, StopStates
    <2>. QED
      BY <1>10, <2>1, <2>2, <2>3, ProcessTyped DEF StopTerminates, TypeOK, process, file
  <1>11. ASSUME NEW k \in Stoppers, StopRemoves(k)
         PROVE  TypeOK'
    BY <1>11 DEF StopRemoves, StopGoto, TypeOK, StopStates, Files, process
  <1>12. CASE Tick \/ UNCHANGED vars
    BY <1>12, DaemonAssumption DEF Tick, vars, TypeOK, process, file
  <1>. QED
    BY <1>1, <1>2, <1>3, <1>4, <1>5, <1>6, <1>7, <1>8, <1>9, <1>10, <1>11, <1>12
       DEF Next, ServeStep, StopStep

-----------------------------------------------------------------------------
(* The moves of the commands                                                 *)

LEMMA SpawnMoves ==
  ASSUME TypeOK, NEW k \in Spawners, NEW next, SpawnGoto(k, next)
  PROVE  \A j \in Spawners : /\ spawn'[j].pc = IF j = k THEN next ELSE spawn[j].pc
                             /\ spawn'[j].child = spawn[j].child
  <1>1. DOMAIN spawn = Spawners /\ spawn[k] \in SpawnStates
    BY DEF TypeOK
  <1>2. spawn'[k] = [spawn[k] EXCEPT !.pc = next] /\ \A j \in Spawners : j # k => spawn'[j] = spawn[j]
    BY <1>1 DEF SpawnGoto
  <1>3. spawn'[k].pc = next /\ spawn'[k].child = spawn[k].child
    BY <1>1, <1>2 DEF SpawnStates
  <1>. QED BY <1>2, <1>3

LEMMA StopMoves ==
  ASSUME TypeOK, NEW k \in Stoppers, NEW next, StopGoto(k, next)
  PROVE  \A j \in Stoppers : /\ stop'[j].pc = IF j = k THEN next ELSE stop[j].pc
                             /\ stop'[j].pid = stop[j].pid /\ stop'[j].start = stop[j].start
                             /\ stop'[j].since = stop[j].since
                             /\ stop'[j].named = stop[j].named
  <1>1. DOMAIN stop = Stoppers /\ stop[k] \in StopStates
    BY DEF TypeOK
  <1>2. stop'[k] = [stop[k] EXCEPT !.pc = next] /\ \A j \in Stoppers : j # k => stop'[j] = stop[j]
    BY <1>1 DEF StopGoto
  <1>3. /\ stop'[k].pc = next /\ stop'[k].pid = stop[k].pid /\ stop'[k].start = stop[k].start
        /\ stop'[k].since = stop[k].since /\ stop'[k].named = stop[k].named
    BY <1>1, <1>2 DEF StopStates
  <1>. QED BY <1>2, <1>3

-----------------------------------------------------------------------------
(* The lock                                                                  *)

(* Who ends leaves the lock to the others, and is not past it.               *)
LEMMA EndsKeepsLock ==
  ASSUME TypeOK, LockHeld, NEW p \in Pids, Ends(p), spawn' = spawn
  PROVE  LockHeld'
  <1>1. ASSUME NEW q \in Holding'
        PROVE  q \in Holding /\ q # p /\ lock = q
    BY <1>1 DEF Ends, Holding, LockHeld, TypeOK
  <1>2. ASSUME NEW k \in Spawners, spawn[k].pc = "unprobe"
        PROVE  lock = k /\ k # p
    BY <1>2, DaemonAssumption DEF LockHeld, Commands
  <1>. QED BY <1>1, <1>2 DEF Ends, LockHeld

(* A process that comes to be past the lock has just taken it.               *)
LEMMA LockKept ==
  ASSUME TypeOK, LockHeld, Children, Guarded, [Next]_vars
  PROVE  LockHeld'
  <1>1. ASSUME NEW p \in Pids, Serve(p) \/ \E k \in Spawners : SpawnStart(k, p)
        PROVE  LockHeld'
    <2>1. Holding' = Holding /\ lock' = lock
      BY <1>1 DEF Serve, SpawnStart, Launch, Free, Holding, TypeOK
    <2>2. \A k \in Spawners : spawn'[k].pc = "unprobe" => spawn[k].pc = "unprobe"
      BY <1>1 DEF Serve, SpawnStart, TypeOK
    <2>. QED BY <2>1, <2>2 DEF LockHeld
  <1>2. ASSUME NEW p \in Pids, TryLock(p)
        PROVE  LockHeld'
    <2>1. CASE lock = NoPid /\ lock' = p /\ Goto(p, "open")
      <3>1. Holding = {} /\ \A k \in Spawners : spawn[k].pc # "unprobe"
        BY <2>1, DaemonAssumption DEF LockHeld, Holding, Commands
      <3>2. Holding' = {p}
        BY <2>1, <3>1 DEF Goto, Holding, TypeOK
      <3>. QED BY <1>2, <2>1, <3>1, <3>2 DEF TryLock, LockHeld
    <2>. QED BY <1>2, <2>1, EndsKeepsLock DEF TryLock
  <1>3. ASSUME NEW p \in Pids, OpenPID(p) \/ WritePID(p) \/ Setup(p) \/ Finish(p) \/ Unlink(p)
        PROVE  LockHeld'
    <2>1. Holding' \subseteq Holding /\ lock' = lock /\ spawn' = spawn
      BY <1>3 DEF OpenPID, WritePID, Setup, Finish, Unlink, Goto, Holding, TypeOK
    <2>. QED BY <2>1 DEF LockHeld
  <1>4. ASSUME NEW p \in Pids, Release(p) \/ DieOfSignal(p) \/ Kill(p)
        PROVE  LockHeld'
    BY <1>4, EndsKeepsLock DEF Release, DieOfSignal, Kill
  <1>5. ASSUME NEW p \in Pids, Reuse(p) \/ OtherExits(p)
        PROVE  LockHeld'
    BY <1>5 DEF Reuse, OtherExits, LockHeld, Holding
  <1>6. ASSUME NEW p \in Pids, Terminate(p), NEW k \in Spawners,
               spawn' = spawn \/ SpawnGoto(k, "probe")
        PROVE  LockHeld'
    <2>1. \A j \in Spawners : spawn'[j].pc = "unprobe" => spawn[j].pc = "unprobe"
      BY <1>6, SpawnMoves
    <2>2. CASE Ends(p)
      <3>1. \A q \in Holding' : q # p /\ lock = q
        BY <2>2 DEF Ends, Holding, LockHeld, TypeOK
      <3>2. \A j \in Spawners : spawn[j].pc = "unprobe" => lock = j /\ j # p
        BY DaemonAssumption DEF LockHeld, Commands
      <3>. QED BY <2>1, <2>2, <3>1, <3>2 DEF Ends, LockHeld
    <2>3. CASE ~Ends(p)
      <3>1. pc' = pc /\ lock' = lock
        BY <1>6, <2>3 DEF Terminate
      <3>. QED BY <2>1, <3>1 DEF LockHeld, Holding
    <2>. QED BY <2>2, <2>3
  <1>7. ASSUME NEW k \in Spawners, SpawnTimesOut(k)
        PROVE  LockHeld'
    <2>1. spawn[k].child \in Pids
      BY <1>7 DEF SpawnTimesOut, Children
    <2>. QED BY <1>6, <1>7, <2>1 DEF SpawnTimesOut
  <1>8. ASSUME NEW k \in Spawners, SpawnSees(k) \/ SpawnConfirms(k) \/ SpawnLosesChild(k)
        PROVE  LockHeld'
    <2>1. \A j \in Spawners : spawn'[j].pc = "unprobe" => spawn[j].pc = "unprobe"
      <3>1. ASSUME NEW next \in {"grace", "ok", "probe"}, SpawnGoto(k, next)
            PROVE  \A j \in Spawners : spawn'[j].pc = "unprobe" => spawn[j].pc = "unprobe"
        BY <3>1, SpawnMoves
      <3>. QED BY <1>8, <3>1 DEF SpawnSees, SpawnConfirms, SpawnLosesChild
    <2>2. pc' = pc /\ lock' = lock
      BY <1>8 DEF SpawnSees, SpawnConfirms, SpawnLosesChild, process
    <2>. QED BY <2>1, <2>2 DEF LockHeld, Holding
  <1>9. ASSUME NEW k \in Spawners, SpawnProbes(k)
        PROVE  LockHeld'
    <2>1. pc' = pc
      BY <1>9 DEF SpawnProbes, process
    <2>2. CASE lock = NoPid
      <3>1. Holding = {} /\ \A j \in Spawners : spawn[j].pc # "unprobe"
        BY <2>2, DaemonAssumption DEF LockHeld, Holding, Commands
      <3>2. lock' = k /\ \A j \in Spawners : spawn'[j].pc = "unprobe" => j = k
        BY <1>9, <2>2, <3>1 DEF SpawnProbes, SpawnGoto, TypeOK
      <3>. QED BY <2>1, <3>1, <3>2 DEF LockHeld, Holding
    <2>3. CASE lock # NoPid
      <3>1. lock' = lock /\ \A j \in Spawners : spawn'[j].pc = "unprobe" => spawn[j].pc = "unprobe"
        <4>1. lock' = lock /\ SpawnGoto(k, "another")
          BY <1>9, <2>3 DEF SpawnProbes
        <4>. QED BY <4>1, SpawnMoves
      <3>. QED BY <2>1, <3>1 DEF LockHeld, Holding
    <2>. QED BY <2>2, <2>3
  <1>10. ASSUME NEW k \in Spawners, SpawnUnprobes(k)
         PROVE  LockHeld'
    <2>1. lock = k /\ pc' = pc
      BY <1>10 DEF SpawnUnprobes, LockHeld, process
    <2>2. Holding = {}
      BY <2>1, DaemonAssumption DEF LockHeld, Holding, Commands
    <2>3. \A j \in Spawners : spawn'[j].pc # "unprobe"
      BY <1>10, <2>1 DEF SpawnUnprobes, SpawnGoto, LockHeld, TypeOK
    <2>. QED BY <2>1, <2>2, <2>3 DEF LockHeld, Holding
  <1>11. ASSUME NEW k \in Stoppers, StopStep(k)
         PROVE  LockHeld'
    <2>1. CASE StopTerminates(k) /\ Alive(stop[k].pid)
      <3>1. stop[k].pid \in Pids /\ Terminate(stop[k].pid) /\ spawn' = spawn
        BY <2>1 DEF StopTerminates, Guarded, Informed
      <3>2. CASE Ends(stop[k].pid)
        BY <3>1, <3>2, EndsKeepsLock
      <3>3. CASE ~Ends(stop[k].pid)
        BY <3>1, <3>3 DEF Terminate, LockHeld, Holding
      <3>. QED BY <3>2, <3>3
    <2>2. CASE ~(StopTerminates(k) /\ Alive(stop[k].pid))
      <3>1. UNCHANGED <<pc, lock, spawn>>
        BY <1>11, <2>2
           DEF StopStep, StopReads, StopAlive, StopRecorded, StopCompares, StopTerminates,
               StopRemoves, process
      <3>. QED BY <3>1 DEF LockHeld, Holding
    <2>. QED BY <2>1, <2>2
  <1>12. CASE Tick \/ UNCHANGED vars
    BY <1>12 DEF Tick, vars, process, LockHeld, Holding
  <1>. QED
    BY <1>1, <1>2, <1>3, <1>4, <1>5, <1>7, <1>8, <1>9, <1>10, <1>11, <1>12
       DEF Next, ServeStep, SpawnStep

-----------------------------------------------------------------------------
(* The pid file                                                              *)

(* A `stop` that has ended changes no more.                                  *)
LEMMA DoneForEver ==
  ASSUME TypeOK, [Next]_vars, NEW j \in Stoppers, stop[j].pc \in {"done", "stale"}
  PROVE  stop'[j] = stop[j]
  <1>1. ASSUME NEW k \in Stoppers, StopStep(k)
        PROVE  stop'[j] = stop[j]
    <2>1. stop[k].pc \notin {"done", "stale"}
      BY <1>1 DEF StopStep, StopReads, StopAlive, StopRecorded, StopCompares, StopTerminates,
                  StopRemoves
    <2>. QED
      BY <1>1, <2>1
         DEF StopStep, StopReads, StopAlive, StopRecorded, StopCompares, StopTerminates,
             StopRemoves, StopGoto, TypeOK
  <1>2. CASE stop' = stop
    BY <1>2
  <1>. QED
    BY <1>1, <1>2
       DEF Next, vars, Serve, ServeStep, TryLock, OpenPID, WritePID, Setup, Finish, Unlink, Release,
           DieOfSignal, Kill, Reuse, OtherExits, SpawnStep, SpawnSees, SpawnConfirms,
           SpawnLosesChild, SpawnProbes, SpawnUnprobes, SpawnTimesOut, SpawnStart, Tick

LEMMA TouchedForEver ==
  ASSUME TypeOK, [Next]_vars, Untouched'
  PROVE  Untouched
  BY DoneForEver DEF Untouched

(* The name in the file stays where it is as long as the processes only move *)
(* on from where they wrote it, or begin anew.                               *)
LEMMA FileQuiet ==
  ASSUME TypeOK, FileNames, [Next]_vars, UNCHANGED <<pidfile, recorded>>,
         \A q \in Pids :
           \/ ~wrote'[q]
           \/ /\ UNCHANGED <<wrote[q], started[q]>>
              /\ \/ pc'[q] = pc[q] \/ pc'[q] \in {"release", "gone"}
                 \/ pc[q] \in {"setup", "run"} /\ pc'[q] \in {"run", "unlink"}
           \/ wrote'[q] = wrote[q] /\ pc[q] = "gone" /\ pc'[q] = "gone"
  PROVE  FileNames'
  BY TouchedForEver DEF FileNames

LEMMA FileKept ==
  ASSUME TypeOK, LockHeld, FileNames, [Next]_vars
  PROVE  FileNames'
  <1>1. ASSUME NEW p \in Pids, lock = p, pc[p] \in {"open", "unlink"},
               pc'[p] = IF pc[p] = "open" THEN "write" ELSE "release",
               wrote' = wrote, \A q \in Pids : q # p => pc'[q] = pc[q]
        PROVE  FileNames'
    <2>1. \A q \in Pids : pc[q] \in {"setup", "run", "unlink"} => q = p
      BY <1>1 DEF LockHeld, Holding
    <2>. QED BY <1>1, <2>1 DEF FileNames
  <1>2. ASSUME NEW p \in Pids, OpenPID(p) \/ WritePID(p), Goto(p, "setup"), UNCHANGED file
        PROVE  FileNames'
    <2>1. ~wrote[p]
      BY <1>2 DEF OpenPID, WritePID, FileNames, TypeOK
    <2>. QED BY <1>2, <2>1, FileQuiet DEF Goto, TypeOK, file
  <1>3. ASSUME NEW p \in Pids, OpenPID(p)
        PROVE  FileNames'
    <2>1. CASE pidfile' = "truncated" /\ Goto(p, "write")
      <3>1. lock = p /\ pc[p] = "open"
        BY <1>3 DEF OpenPID, LockHeld, Holding
      <3>. QED BY <1>1, <2>1, <3>1 DEF Goto, TypeOK
    <2>. QED BY <1>2, <1>3, <2>1 DEF OpenPID, file
  <1>4. ASSUME NEW p \in Pids, WritePID(p)
        PROVE  FileNames'
    <2>1. CASE pidfile' = p
      <3>1. \A q \in Pids : pc[q] \in {"setup", "run", "unlink"} => q = p
        BY <1>4 DEF WritePID, LockHeld, Holding
      <3>2. CASE pc' = [pc EXCEPT ![p] = "setup"] /\ wrote' = [wrote EXCEPT ![p] = TRUE]
                 /\ recorded' = started[p] /\ started' = started
        <4>1. /\ wrote'[p] /\ pc'[p] = "setup"
              /\ \A q \in Pids : q # p => pc'[q] = pc[q] /\ wrote'[q] = wrote[q]
          BY <3>2 DEF TypeOK
        <4>. QED BY <2>1, <3>1, <3>2, <4>1 DEF FileNames
      <3>. QED BY <1>2, <1>4, <3>2 DEF WritePID
    <2>. QED BY <1>2, <1>4, <2>1 DEF WritePID
  <1>5. ASSUME NEW p \in Pids, Unlink(p)
        PROVE  FileNames'
    <2>1. lock = p /\ pc[p] = "unlink"
      BY <1>5 DEF Unlink, LockHeld, Holding
    <2>. QED BY <1>1, <1>5, <2>1 DEF Unlink, Goto, TypeOK
  <1>6. ASSUME NEW k \in Stoppers, StopRemoves(k)
        PROVE  FileNames'
    <2>1. ~Untouched' /\ UNCHANGED <<pc, wrote>>
      BY <1>6, StopMoves DEF StopRemoves, Untouched, process
    <2>. QED BY <2>1 DEF FileNames
  <1>7. ASSUME NEW p \in Pids, Launch(p), UNCHANGED file
        PROVE  FileNames'
    BY <1>7, FileQuiet DEF Launch, TypeOK, file
  <1>8. ASSUME NEW p \in Pids \cup {NoPid}, Ends(p) \/ Terminate(p), UNCHANGED file
        PROVE  FileNames'
    <2>1. /\ UNCHANGED <<wrote, started>>
          /\ \A q \in Pids : pc'[q] = pc[q] \/ pc'[q] = "gone"
      BY <1>8 DEF Ends, Terminate, TypeOK
    <2>. QED BY <1>8, <2>1, FileQuiet DEF file
  <1>9. ASSUME NEW p \in Pids, TryLock(p)
        PROVE  FileNames'
    <2>1. CASE Goto(p, "open")
      <3>1. ~wrote[p]
        BY <1>9 DEF TryLock, FileNames, TypeOK
      <3>. QED BY <1>9, <2>1, <3>1, FileQuiet DEF TryLock, Goto, TypeOK, file
    <2>. QED BY <1>8, <1>9, <2>1 DEF TryLock
  <1>10. ASSUME NEW p \in Pids, Setup(p) \/ Finish(p)
         PROVE  FileNames'
    <2>1. UNCHANGED <<pidfile, recorded, wrote, started>> /\ \A q \in Pids : q # p => pc'[q] = pc[q]
      BY <1>10 DEF Setup, Finish, Goto, TypeOK, file
    <2>2. pc[p] \in {"setup", "run"} /\ (wrote[p] => pc'[p] \in {"run", "unlink"})
      BY <1>10 DEF Setup, Finish, Goto, Unwind, TypeOK
    <2>3. ~wrote[p] => ~wrote'[p]
      BY <2>1
    <2>. QED BY <2>1, <2>2, <2>3, FileQuiet
  <1>11. ASSUME NEW p \in Pids, Serve(p) \/ Release(p) \/ DieOfSignal(p) \/ Kill(p)
         PROVE  FileNames'
    BY <1>7, <1>8, <1>11 DEF Serve, Release, DieOfSignal, Kill
  <1>12. ASSUME NEW k \in Spawners, NEW p \in Pids, SpawnStart(k, p)
         PROVE  FileNames'
    BY <1>7, <1>12 DEF SpawnStart
  <1>13. ASSUME NEW k \in Spawners, SpawnTimesOut(k)
         PROVE  FileNames'
    <2>1. spawn[k].child \in Pids \cup {NoPid}
      BY DEF TypeOK, SpawnStates
    <2>. QED BY <1>8, <1>13, <2>1 DEF SpawnTimesOut
  <1>14. ASSUME NEW k \in Stoppers, StopTerminates(k), Alive(stop[k].pid)
         PROVE  FileNames'
    <2>1. stop[k].pid \in Pids \cup {NoPid}
      BY DEF TypeOK, StopStates
    <2>. QED BY <1>8, <1>14, <2>1 DEF StopTerminates
  <1>15. ASSUME NEW p \in Pids, Reuse(p)
         PROVE  FileNames'
    <2>1. /\ UNCHANGED <<pidfile, recorded, wrote, pc>> /\ pc[p] = "gone"
          /\ \A q \in Pids : q # p => started'[q] = started[q]
      BY <1>15 DEF Reuse, TypeOK, file
    <2>. QED BY <2>1, FileQuiet
  <1>16. CASE UNCHANGED <<file, wrote, pc, started>>
    BY <1>16, FileQuiet DEF file
  <1>. QED
    BY <1>3, <1>4, <1>5, <1>6, <1>9, <1>10, <1>11, <1>12, <1>13, <1>14, <1>15, <1>16
       DEF Next, vars, process, file, ServeStep, OtherExits, SpawnStep, SpawnSees,
           SpawnConfirms, SpawnLosesChild, SpawnProbes, SpawnUnprobes, StopStep, StopReads,
           StopAlive, StopRecorded, StopCompares, StopTerminates, Tick

-----------------------------------------------------------------------------
(* Pids and the programs that have them                                      *)

(* Once a pid has been used, it only goes on to programs that started later. *)
LEMMA Handover ==
  ASSUME TypeOK, [Next]_vars, NEW q \in Pids, pc[q] # "idle"
  PROVE  /\ pc'[q] # "idle" /\ started'[q] >= started[q]
         /\ owner'[q] = "other" =>
              (owner[q] = "other" /\ started'[q] = started[q]) \/ started'[q] > started[q]
  <1>. DEFINE Same   == /\ pc'[q] # "idle" /\ started'[q] = started[q]
                        /\ owner'[q] = "other" => owner[q] = "other"
              Passed == /\ pc'[q] # "idle" /\ started'[q] >= started[q]
                        /\ owner'[q] = "other" =>
                             (owner[q] = "other" /\ started'[q] = started[q]) \/ started'[q] > started[q]
  <1>. started[q] \in Nat /\ now \in Nat /\ Tolerance \in Nat
    BY DaemonAssumption DEF TypeOK
  <1>0. Same => Passed
    OBVIOUS
  <1>1. ASSUME NEW p \in Pids \cup {NoPid}, Ends(p) \/ Terminate(p)
        PROVE  Same
    BY <1>1 DEF Ends, Terminate, TypeOK
  <1>2. ASSUME NEW p \in Pids, Launch(p)
        PROVE  Passed
    BY <1>2 DEF Launch, Free, TypeOK
  <1>3. ASSUME NEW p \in Pids, ServeStep(p) \/ DieOfSignal(p) \/ Kill(p)
        PROVE  Same
    <2>1. ASSUME NEW next, next # "idle", Goto(p, next)
          PROVE  Same
      BY <2>1 DEF Goto, TypeOK
    <2>2. CASE WritePID(p) /\ ~Goto(p, "setup")
      BY <2>2 DEF WritePID, TypeOK
    <2>3. Unwind(p) # "idle"
      BY DEF Unwind
    <2>. QED
      BY <1>1, <1>3, <2>1, <2>2, <2>3
         DEF ServeStep, TryLock, OpenPID, Setup, Finish, Unlink, Release, DieOfSignal, Kill
  <1>4. ASSUME NEW p \in Pids, Reuse(p)
        PROVE  Passed
    <2>1. /\ pc' = pc /\ started'[q] = IF q = p THEN now ELSE started[q]
          /\ owner'[q] = IF q = p THEN "other" ELSE owner[q]
          /\ now > started[p] + Tolerance
      BY <1>4 DEF Reuse, Free, TypeOK
    <2>. QED BY <2>1
  <1>5. ASSUME NEW p \in Pids, OtherExits(p)
        PROVE  Same
    BY <1>5 DEF OtherExits, TypeOK
  <1>6. ASSUME NEW k \in Spawners, SpawnTimesOut(k)
        PROVE  Same
    <2>1. spawn[k].child \in Pids \cup {NoPid}
      BY DEF TypeOK, SpawnStates
    <2>. QED BY <1>1, <1>6, <2>1 DEF SpawnTimesOut
  <1>7. ASSUME NEW k \in Stoppers, StopTerminates(k)
        PROVE  Same
    <2>1. stop[k].pid \in Pids \cup {NoPid}
      BY DEF TypeOK, StopStates
    <2>. QED BY <1>1, <1>7, <2>1 DEF StopTerminates, process
  <1>8. ASSUME UNCHANGED <<pc, owner, started>>
        PROVE  Same
    BY <1>8
  <1>. HIDE DEF Same, Passed
  <1>9. Passed
    BY <1>0, <1>2, <1>3, <1>4, <1>5, <1>6, <1>7, <1>8
       DEF Next, vars, process, Serve, SpawnStart, SpawnStep, SpawnSees, SpawnConfirms,
           SpawnLosesChild, SpawnProbes, SpawnUnprobes, StopStep, StopReads, StopAlive,
           StopRecorded, StopCompares, StopRemoves, Tick
  <1>. QED BY <1>9 DEF Passed

(* A `serve -d` keeps the child it started.                                  *)
LEMMA ChildrenKept ==
  ASSUME TypeOK, Children, [Next]_vars
  PROVE  Children'
  <1>1. ASSUME NEW k \in Spawners, NEW p \in Pids, SpawnStart(k, p)
        PROVE  Children'
    <2>1. spawn'[k].child = p /\ \A j \in Spawners : j # k => spawn'[j] = spawn[j]
      BY <1>1 DEF SpawnStart, TypeOK
    <2>. QED BY <2>1 DEF Children
  <1>2. ASSUME NEW k \in Spawners, SpawnStep(k) \/ SpawnTimesOut(k)
        PROVE  Children'
    <2>1. spawn[k].pc # "start" /\ \E next : SpawnGoto(k, next)
      BY <1>2 DEF SpawnStep, SpawnSees, SpawnConfirms, SpawnLosesChild, SpawnProbes,
                  SpawnUnprobes, SpawnTimesOut
    <2>. QED BY <2>1, SpawnMoves DEF Children
  <1>3. CASE spawn' = spawn
    BY <1>3 DEF Children
  <1>. QED
    BY <1>1, <1>2, <1>3
       DEF Next, vars, Serve, ServeStep, TryLock, OpenPID, WritePID, Setup, Finish, Unlink, Release,
           DieOfSignal, Kill, Reuse, OtherExits, StopStep, StopReads, StopAlive, StopRecorded,
           StopCompares, StopTerminates, StopRemoves, Tick

(* The start time in the file is that of the watchdog named there.           *)
LEMMA StartsKept ==
  ASSUME TypeOK, Children, Starts, Guarded, [Next]_vars
  PROVE  Starts'
  <1>. now \in Nat /\ now >= 1 /\ Tolerance \in Nat /\ \A q \in Pids : started[q] \in Nat
    BY DaemonAssumption DEF TypeOK
  <1>. recorded \in Nat
    BY DaemonAssumption DEF TypeOK
  <1>1. ASSUME pidfile' \notin Pids \/ UNCHANGED <<pidfile, recorded>>,
               \A q \in Pids : /\ started'[q] = started[q]
                               /\ pc'[q] = "idle" <=> pc[q] = "idle"
                               /\ owner'[q] \in {owner[q], "none"}
                               /\ owner'[q] = "other" => pc'[q] = pc[q]
        PROVE  Starts'
    <2>1. ASSUME NEW q \in Pids
          PROVE  /\ IF pc'[q] = "idle" THEN owner'[q] = "none" ELSE started'[q] >= 1
                 /\ owner'[q] = "other" => pc'[q] = "gone" /\ owner[q] = "other"
      BY <1>1, <2>1 DEF Starts
    <2>2. pidfile' \in Pids => /\ pc'[pidfile'] # "idle"
                               /\ recorded' >= 1 /\ started'[pidfile'] >= recorded'
                               /\ owner'[pidfile'] = "other" => started'[pidfile'] > recorded' + Tolerance
      BY <1>1, <2>1 DEF Starts
    <2>. QED BY <2>1, <2>2 DEF Starts
  <1>2. ASSUME NEW p \in Pids, Launch(p), UNCHANGED <<pidfile, recorded>>
        PROVE  Starts'
    <2>1. pidfile = p => now >= recorded
      BY <1>2 DEF Launch, Free, Starts
    <2>2. /\ started'[p] = now /\ owner'[p] = "scroff"
          /\ \A q \in Pids : q # p => started'[q] = started[q] /\ owner'[q] = owner[q] /\ pc'[q] = pc[q]
      BY <1>2 DEF Launch, TypeOK
    <2>3. pc'[p] = "lock"
      BY <1>2 DEF Launch, TypeOK
    <2>. QED BY <1>2, <2>1, <2>2, <2>3 DEF Starts
  <1>3. ASSUME NEW p \in Pids, (Ends(p) /\ pc[p] # "idle") \/ Terminate(p), UNCHANGED <<pidfile, recorded>>
        PROVE  Starts'
    <2>1. CASE Ends(p) /\ pc[p] # "idle"
      BY <1>1, <1>3, <2>1 DEF Ends, TypeOK
    <2>2. CASE Terminate(p) /\ ~Ends(p)
      BY <1>1, <1>3, <2>2 DEF Terminate, TypeOK, Starts
    <2>3. CASE Terminate(p) /\ Ends(p)
      <3>1. CASE Graceful \/ owner[p] # "scroff"
        BY <1>1, <1>3, <2>3, <3>1 DEF Terminate, TypeOK, Starts
      <3>2. CASE ~(Graceful \/ owner[p] # "scroff")
        <4>1. pc[p] # "idle"
          BY <3>2 DEF Starts
        <4>. QED BY <2>1, <2>3, <4>1
      <3>. QED BY <3>1, <3>2
    <2>. QED BY <1>3, <2>1, <2>2, <2>3
  <1>4. ASSUME NEW p \in Pids, NEW next, next # "idle", Goto(p, next),
               pc[p] \notin {"idle", "gone"}, pidfile' \notin Pids \/ UNCHANGED <<pidfile, recorded>>
        PROVE  Starts'
    <2>1. owner[p] # "other"
      BY <1>4 DEF Starts
    <2>2. /\ UNCHANGED <<owner, started>> /\ pc'[p] # "idle"
          /\ \A q \in Pids : q # p => pc'[q] = pc[q]
      BY <1>4 DEF Goto, TypeOK
    <2>. QED BY <1>1, <1>4, <2>1, <2>2
  <1>5. ASSUME NEW p \in Pids, WritePID(p)
        PROVE  Starts'
    <2>0. CASE WriteFails /\ UNCHANGED file /\ Goto(p, "setup")
      BY <1>4, <1>5, <2>0 DEF WritePID, file
    <2>00. SUFFICES ASSUME ~(WriteFails /\ UNCHANGED file /\ Goto(p, "setup"))
                    PROVE  Starts'
      BY <2>0
    <2>1. owner[p] # "other" /\ started[p] >= 1
      BY <1>5 DEF WritePID, Starts
    <2>2. /\ pidfile' = p /\ recorded' = started[p] /\ UNCHANGED <<owner, started>>
          /\ pc'[p] = "setup" /\ \A q \in Pids : q # p => pc'[q] = pc[q]
      BY <1>5, <2>00 DEF WritePID, TypeOK
    <2>. QED BY <2>1, <2>2 DEF Starts
  <1>6. ASSUME NEW p \in Pids, Reuse(p)
        PROVE  Starts'
    <2>1. /\ started'[p] = now /\ now > started[p] + Tolerance /\ pc[p] = "gone"
          /\ UNCHANGED <<pc, pidfile, recorded>>
          /\ \A q \in Pids : q # p => started'[q] = started[q] /\ owner'[q] = owner[q]
      BY <1>6 DEF Reuse, Free, TypeOK, file
    <2>. QED BY <2>1 DEF Starts
  <1>7. ASSUME NEW p \in Pids, OtherExits(p)
        PROVE  Starts'
    BY <1>1, <1>7 DEF OtherExits, TypeOK, file
  <1>8. ASSUME NEW p \in Pids, ServeStep(p) \/ DieOfSignal(p) \/ Kill(p) \/ Serve(p)
        PROVE  Starts'
    <2>1. CASE OpenPID(p)
      <3>1. pidfile' \notin Pids \/ UNCHANGED <<pidfile, recorded>>
        BY <2>1, DaemonAssumption DEF OpenPID
      <3>. QED BY <1>4, <2>1, <3>1 DEF OpenPID
    <2>2. CASE Unlink(p)
      <3>1. pidfile' \notin Pids
        BY <2>2, DaemonAssumption DEF Unlink
      <3>. QED BY <1>4, <2>2, <3>1 DEF Unlink
    <2>3. CASE TryLock(p) \/ Setup(p) \/ Finish(p)
      BY <1>3, <1>4, <2>3 DEF TryLock, Setup, Finish, Unwind, file
    <2>4. CASE Release(p) \/ DieOfSignal(p) \/ Kill(p)
      BY <1>3, <2>4 DEF Release, DieOfSignal, Kill, file
    <2>5. CASE Serve(p)
      BY <1>2, <2>5 DEF Serve, file
    <2>. QED BY <1>5, <1>8, <2>1, <2>2, <2>3, <2>4, <2>5 DEF ServeStep
  <1>9. ASSUME NEW k \in Spawners, SpawnStep(k) \/ SpawnTimesOut(k) \/ \E p \in Pids : SpawnStart(k, p)
        PROVE  Starts'
    <2>1. CASE \E p \in Pids : SpawnStart(k, p)
      BY <1>2, <2>1 DEF SpawnStart, file
    <2>2. CASE SpawnTimesOut(k)
      <3>1. spawn[k].child \in Pids
        BY <2>2 DEF SpawnTimesOut, Children
      <3>. QED BY <1>3, <2>2, <3>1 DEF SpawnTimesOut, file
    <2>3. CASE SpawnStep(k)
      BY <1>1, <2>3
         DEF SpawnStep, SpawnSees, SpawnConfirms, SpawnLosesChild, SpawnProbes, SpawnUnprobes,
             process, file
    <2>. QED BY <1>9, <2>1, <2>2, <2>3
  <1>10. ASSUME NEW k \in Stoppers, StopStep(k)
         PROVE  Starts'
    <2>1. CASE StopTerminates(k) /\ Alive(stop[k].pid)
      <3>1. stop[k].pid \in Pids
        BY <2>1 DEF StopTerminates, Guarded, Informed
      <3>. QED BY <1>3, <2>1, <3>1 DEF StopTerminates, file
    <2>2. CASE StopRemoves(k)
      <3>1. pidfile' \notin Pids /\ UNCHANGED process
        BY <2>2, DaemonAssumption DEF StopRemoves
      <3>. QED BY <1>1, <3>1 DEF process
    <2>3. CASE ~StopRemoves(k) /\ ~(StopTerminates(k) /\ Alive(stop[k].pid))
      <3>1. UNCHANGED <<process, file>>
        BY <1>10, <2>3
           DEF StopStep, StopReads, StopAlive, StopRecorded, StopCompares, StopTerminates
      <3>. QED BY <1>1, <3>1 DEF process, file
    <2>. QED BY <2>1, <2>2, <2>3
  <1>11. CASE Tick \/ UNCHANGED vars
    BY <1>1, <1>11 DEF Tick, vars, process, file
  <1>. QED
    BY <1>6, <1>7, <1>8, <1>9, <1>10, <1>11 DEF Next

-----------------------------------------------------------------------------
(* The guard of Stop                                                         *)

(* What a `stop` knows of a pid stays true as the pid changes hands.         *)
LEMMA GuardHolds ==
  ASSUME TypeOK, TypeOK', [Next]_vars, NEW j \in Stoppers, stop'[j] = stop[j], Informed(j)
  PROVE  Informed(j)'
  <1>. DEFINE q == stop[j].pid
  <1>1. q \in Pids /\ pc[q] # "idle" /\ started[q] >= stop[j].since
    BY DEF Informed
  <1>2. started[q] \in Nat /\ stop[j].since \in Nat /\ started'[q] \in Nat
    BY <1>1, DaemonAssumption DEF TypeOK, StopStates
  <1>3. /\ pc'[q] # "idle" /\ started'[q] >= started[q]
        /\ owner'[q] = "other" =>
             (owner[q] = "other" /\ started'[q] = started[q]) \/ started'[q] > started[q]
    BY <1>1, Handover
  <1>4. Foreign(j)' => Foreign(j)
    BY <1>1, <1>2, <1>3 DEF Foreign
  <1>. QED BY <1>1, <1>2, <1>3, <1>4 DEF Informed

LEMMA GuardedKept ==
  ASSUME TypeOK, TypeOK', Starts, Guarded, [Next]_vars
  PROVE  Guarded'
  <1>. DEFINE G(j) == stop[j].pc \in {"alive", "recorded", "compare", "terminate"} => Informed(j)
  <1>1. ASSUME NEW j \in Stoppers, stop'[j] = stop[j]
        PROVE  G(j)'
    <2>1. G(j)
      BY DEF Guarded
    <2>. QED BY <1>1, <2>1, GuardHolds
  <1>2. CASE stop' = stop
    BY <1>1, <1>2 DEF Guarded
  <1>3. ASSUME NEW k \in Stoppers, StopStep(k)
        PROVE  Guarded'
    <2>1. \A j \in Stoppers : j # k => stop'[j] = stop[j]
      BY <1>3
         DEF StopStep, StopReads, StopAlive, StopRecorded, StopCompares, StopTerminates,
             StopRemoves, StopGoto, TypeOK
    <2>2. SUFFICES G(k)'
      BY <1>1, <2>1 DEF Guarded
    <2>3. /\ stop[k] \in StopStates /\ DOMAIN stop = Stoppers /\ Tolerance \in Nat
          /\ \A p \in Pids : started[p] \in Nat
      BY DaemonAssumption DEF TypeOK
    <2>4. CASE StopReads(k)
      <3>1. UNCHANGED <<process, file>>
        BY <2>4 DEF StopReads
      <3>2. CASE pidfile \in Pids
        <4>1. stop'[k] = [pc |-> "alive", pid |-> pidfile, start |-> 0,
                          since |-> started[pidfile], named |-> recorded]
          BY <2>3, <2>4, <3>2 DEF StopReads
        <4>2. /\ pc[pidfile] # "idle" /\ recorded >= 1
              /\ owner[pidfile] = "other" => started[pidfile] > recorded + Tolerance
          BY <3>2 DEF Starts
        <4>. QED BY <2>3, <3>1, <3>2, <4>1, <4>2 DEF Informed, Foreign, process
      <3>3. CASE pidfile \notin Pids
        <4>1. stop'[k] = [stop[k] EXCEPT !.pc = "error"]
          BY <2>3, <2>4, <3>3 DEF StopReads
        <4>. QED BY <2>3, <4>1 DEF StopStates
      <3>. QED BY <3>2, <3>3
    <2>5. CASE StopAlive(k)
      <3>1. UNCHANGED <<process, file>> /\ stop[k].pc = "alive" /\ stop'[k].pc \in {"recorded", "clean"}
        BY <2>5, StopMoves DEF StopAlive
      <3>2. /\ stop'[k].pid = stop[k].pid /\ stop'[k].since = stop[k].since
            /\ stop'[k].named = stop[k].named
        BY <2>5, StopMoves DEF StopAlive
      <3>3. Informed(k)
        BY <3>1 DEF Guarded
      <3>. QED BY <3>1, <3>2, <3>3 DEF Informed, Foreign, process
    <2>6. CASE StopRecorded(k)
      <3>1. /\ UNCHANGED <<process, file>> /\ stop[k].pc = "recorded"
            /\ stop'[k] = [stop[k] EXCEPT !.start = IF pidfile \in Pids THEN recorded ELSE 0,
                                          !.pc = IF pidfile \in Pids THEN "compare" ELSE "terminate"]
        BY <2>3, <2>6 DEF StopRecorded
      <3>2. /\ stop'[k].pid = stop[k].pid /\ stop'[k].since = stop[k].since
            /\ stop'[k].named = stop[k].named
            /\ stop'[k].pc = "terminate" => stop'[k].start = 0
        BY <2>3, <3>1 DEF StopStates
      <3>3. Informed(k)
        BY <3>1 DEF Guarded
      <3>. QED BY <3>1, <3>2, <3>3 DEF Informed, Foreign, process
    <2>7. CASE StopCompares(k)
      <3>1. /\ UNCHANGED <<process, file>> /\ stop[k].pc = "compare"
            /\ stop'[k].pc = IF SameStart(stop[k].pid, stop[k].start) THEN "terminate" ELSE "clean"
        BY <2>7, StopMoves DEF StopCompares
      <3>2. /\ stop'[k].pid = stop[k].pid /\ stop'[k].since = stop[k].since
            /\ stop'[k].named = stop[k].named /\ stop'[k].start = stop[k].start
        BY <2>7, StopMoves DEF StopCompares
      <3>3. Informed(k)
        BY <3>1 DEF Guarded
      <3>4. Foreign(k) /\ stop'[k].pc = "terminate" => stop[k].start # stop[k].named
        <4>1. SUFFICES ASSUME Foreign(k), SameStart(stop[k].pid, stop[k].start),
                              stop[k].start = stop[k].named
                       PROVE  FALSE
          BY <3>1
        <4>2. started[stop[k].pid] - stop[k].start \in -Tolerance..Tolerance
          BY <4>1 DEF SameStart, Alive, Foreign
        <4>3. started[stop[k].pid] = stop[k].since /\ stop[k].since > stop[k].named + Tolerance
          BY <3>3, <4>1 DEF Informed, Foreign
        <4>4. stop[k].start \in Nat /\ stop[k].since \in Nat
          BY <2>3, DaemonAssumption DEF StopStates
        <4>. QED BY <2>3, <4>1, <4>2, <4>3, <4>4
      <3>. QED BY <3>1, <3>2, <3>3, <3>4 DEF Informed, Foreign, process
    <2>8. CASE StopTerminates(k) \/ StopRemoves(k)
      <3>1. stop'[k].pc \in {"remove", "error", "done", "stale"}
        BY <2>8, StopMoves DEF StopTerminates, StopRemoves
      <3>. QED BY <3>1
    <2>. QED BY <1>3, <2>4, <2>5, <2>6, <2>7, <2>8 DEF StopStep
  <1>. QED
    BY <1>2, <1>3
       DEF Next, vars, Serve, ServeStep, TryLock, OpenPID, WritePID, Setup, Finish, Unlink, Release,
           DieOfSignal, Kill, Reuse, OtherExits, SpawnStep, SpawnSees, SpawnConfirms,
           SpawnLosesChild, SpawnProbes, SpawnUnprobes, SpawnTimesOut, SpawnStart, Tick

(* Stop terminates another program only if its guard could not know better.  *)
LEMMA Sparing ==
  ASSUME TypeOK, Guarded, Struck, [Next]_vars
  PROVE  Struck'
  <1>1. ASSUME NEW k \in Stoppers, StopTerminates(k)
        PROVE  Struck'
    <2>1. stop[k].pc = "terminate" /\ Informed(k) /\ k \notin struck
      BY <1>1 DEF StopTerminates, Guarded, Struck
    <2>2. \A j \in Stoppers : j # k => stop'[j] = stop[j]
      BY <1>1 DEF StopTerminates, StopGoto, TypeOK
    <2>3. struck' = IF Foreign(k) THEN struck \cup {k} ELSE struck
      BY <1>1 DEF StopTerminates
    <2>4. CASE Foreign(k)
      <3>1. StopGoto(k, "remove")
        BY <1>1, <2>4 DEF StopTerminates, Foreign, Alive
      <3>2. stop'[k].pc = "remove" /\ stop'[k].start # stop'[k].named
        BY <2>1, <2>4, <3>1, StopMoves DEF Informed
      <3>. QED BY <2>2, <2>3, <3>2 DEF Struck, TypeOK
    <2>. QED BY <2>1, <2>2, <2>3, <2>4 DEF Struck, TypeOK
  <1>2. ASSUME NEW k \in Stoppers, StopRemoves(k)
        PROVE  Struck'
    <2>1. struck' = struck /\ \A j \in Stoppers : j # k => stop'[j] = stop[j]
      BY <1>2 DEF StopRemoves, StopGoto, TypeOK
    <2>2. k \in struck => /\ stop'[k].pc = "done"
                          /\ stop'[k].start = stop[k].start /\ stop'[k].named = stop[k].named
      BY <1>2, StopMoves DEF StopRemoves, Struck
    <2>. QED BY <2>1, <2>2 DEF Struck, TypeOK
  <1>3. ASSUME NEW k \in Stoppers,
               StopReads(k) \/ StopAlive(k) \/ StopRecorded(k) \/ StopCompares(k)
        PROVE  Struck'
    <2>1. struck' = struck /\ k \notin struck
      BY <1>3 DEF StopReads, StopAlive, StopRecorded, StopCompares, Struck
    <2>2. \A j \in Stoppers : j # k => stop'[j] = stop[j]
      BY <1>3 DEF StopReads, StopAlive, StopRecorded, StopCompares, StopGoto, TypeOK
    <2>. QED BY <2>1, <2>2 DEF Struck, TypeOK
  <1>4. CASE UNCHANGED <<stop, struck>>
    BY <1>4 DEF Struck
  <1>. QED
    BY <1>1, <1>2, <1>3, <1>4
       DEF Next, vars, Serve, ServeStep, TryLock, OpenPID, WritePID, Setup, Finish, Unlink, Release,
           DieOfSignal, Kill, Reuse, OtherExits, SpawnStep, SpawnSees, SpawnConfirms,
           SpawnLosesChild, SpawnProbes, SpawnUnprobes, SpawnTimesOut, SpawnStart, StopStep, Tick

-----------------------------------------------------------------------------
(* Theorems                                                                  *)

(* The invariant is inductive: serve, serve -d and stop keep it, in whatever *)
(* order they run and wherever they are killed.                              *)
THEOREM DaemonInvariance == Spec => []IInv
  <1>1. IInv /\ [Next]_vars => IInv'
    <2>. SUFFICES ASSUME IInv, [Next]_vars PROVE IInv'
      OBVIOUS
    <2>1. TypeOK'
      BY Typing DEF IInv
    <2>. QED
      BY <2>1, LockKept, FileKept, ChildrenKept, StartsKept, GuardedKept, Sparing DEF IInv
  <1>. QED BY Initially, <1>1, PTL DEF Spec

(* The variables of the daemon model keep their types.                       *)
THEOREM DaemonTypeCorrect == Spec => []TypeOK
  <1>1. IInv => TypeOK
    BY DEF IInv
  <1>. QED BY <1>1, DaemonInvariance, PTL

(* At most one watchdog is past Lock, whatever is killed and whatever the    *)
(* pid file says (acquireLock is what decides, daemon.go).                   *)
THEOREM SingleInstance == Spec => []OneWatchdog
  <1>1. IInv => OneWatchdog
    BY DEF IInv, LockHeld, OneWatchdog
  <1>. QED BY <1>1, DaemonInvariance, PTL

(* Until a `stop` has removed it, the pid file names the watchdog that runs  *)
(* (WritePID and RemovePID happen under the lock).                           *)
THEOREM PidFileRight == Spec => []PidFileNamesRunner
  <1>1. IInv => PidFileNamesRunner
    BY DEF IInv, FileNames, Untouched, PidFileNamesRunner, StopFindsRunner
  <1>. QED BY <1>1, DaemonInvariance, PTL

(* Stop terminates a program it found at the pid of a dead watchdog only if  *)
(* its two reads of the pid file found different entries, for any number of  *)
(* commands and any tolerance.                                               *)
THEOREM StopRight == Spec => []StopSparesOthers
  <1>1. IInv => StopSparesOthers
    BY DEF IInv, Struck, StopSparesOthers
  <1>. QED BY <1>1, DaemonInvariance, PTL
=============================================================================
