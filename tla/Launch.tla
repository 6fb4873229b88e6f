------------------------------- MODULE Launch -------------------------------
(***************************************************************************)
(* How a scroff command gets going: run() of main.go with console.Attach,    *)
(* startBackground and the child it re-executes, config.Load, the dialogue   *)
(* of setup, and the config file they share. Any command may run while       *)
(* another one writes the file, and may be killed at any point.              *)
(*                                                                         *)
(* A config is reduced to whether it names a Home Assistant and to one of    *)
(* its five durations; all five are treated alike. What cmdServe does with   *)
(* the lock and the pid file is in Daemon.tla.                               *)
(***************************************************************************)
EXTENDS Integers, FiniteSets

CONSTANTS
  Procs,          \* processes, each used once
  Invocations,    \* the commands as typed, or as a launcher runs them
  MaxLaunches,    \* bound of the commands typed
  Numbers,        \* the durations a user may enter
  Seeds,          \* the configs the files may hold at first
  Default, Limit  \* the default of a duration and its upper bound

Files    == {"home", "here"}   \* config.json in ~/.config/scroff, and in the user's directory
NoFile   == "none"
Consoles == {"shared", "owned", "parent", "none"}   \* elsewhere than on Windows: "shared"
Commands == {"serve", "off", "setup", "stop", "bare"}
Configs  == [is : {"whole"}, ha : BOOLEAN, duration : Numbers \cup {Default}]
Absent   == [is |-> "absent"]
Emptied  == [is |-> "emptied"]    \* truncated, not written yet
Torn     == [is |-> "torn"]       \* any other content that is not JSON

ASSUME LaunchAssumption ==
  /\ IsFiniteSet(Procs) /\ Procs \subseteq Nat /\ MaxLaunches \in Nat
  /\ Numbers \subseteq Int /\ Default \in Nat \ {0} /\ Limit \in Nat /\ Default <= Limit
  /\ Seeds \subseteq Configs
  /\ Invocations \subseteq
       [cmd     : Commands,
        d       : {"", "-d", "-d=true"},        \* the background flag as written
        path    : {"default", "absolute", "relative"},   \* --config: not given, home, config.json
        flags   : BOOLEAN,                      \* --url and --token are given
        console : Consoles, redirected : BOOLEAN]  \* what it is started on; stderr is a file

VARIABLES
  disk,       \* each file: Absent, Emptied, Torn or a config
  written,    \* the configs each file has held, complete
  logOK,      \* the log file can be opened
  pc,         \* program point of each process, or how it ended
  args,       \* its invocation
  child,      \* SCROFF_DAEMON is set in its environment
  parent,     \* the process that spawned it, or itself
  attached,   \* what console.Attach reported
  path,       \* the value of configPath: a file, or "none" for ""
  read,       \* the file its settings come from, or "none"
  settings,   \* the config it goes on with
  sink        \* where its log lines go

file   == <<disk, written, logOK>>
detail == <<args, child, parent, attached, path, read, settings, sink>>
vars   == <<file, pc, detail>>

NoArgs   == [cmd |-> "stop", d |-> "", path |-> "default", flags |-> FALSE,
             console |-> "none", redirected |-> FALSE]
Defaults == [is |-> "whole", ha |-> FALSE, duration |-> Default]

Init ==
  /\ disk \in [Files -> {Absent, Torn} \cup Seeds]
  /\ written = [f \in Files |-> {disk[f]} \cap Seeds]
  /\ logOK \in BOOLEAN
  /\ pc = [p \in Procs |-> "idle"] /\ args = [p \in Procs |-> NoArgs]
  /\ child = [p \in Procs |-> FALSE] /\ parent = [p \in Procs |-> p]
  /\ attached = [p \in Procs |-> TRUE] /\ path = [p \in Procs |-> NoFile]
  /\ read = [p \in Procs |-> NoFile] /\ settings = [p \in Procs |-> Defaults]
  /\ sink = [p \in Procs |-> "stderr"]

Goto(p, point) == pc' = [pc EXCEPT ![p] = point]

Fresh(p) == pc[p] = "idle" /\ \A q \in Procs : q < p => pc[q] # "idle"
Typed == {p \in Procs : pc[p] # "idle" /\ ~child[p]}

(* A user types a command, or a task, a service or a shortcut runs one.      *)
Type(p, inv) ==
  /\ Fresh(p) /\ Cardinality(Typed) < MaxLaunches
  /\ Goto(p, "start") /\ args' = [args EXCEPT ![p] = inv]
  /\ UNCHANGED <<file, child, parent, attached, path, read, settings, sink>>

-----------------------------------------------------------------------------
(* run, up to the command                                                    *)

(* A console of its own is silenced and freed; one the parent lends is kept. *)
Attach(p) == args[p].console \in {"shared", "parent"}

(* defaultConfigPath looks for the file; a relative path means another file  *)
(* in the directory Spawn gives the child.                                   *)
Resolve(p) ==
  CASE args[p].path = "default"  -> IF disk["home"] = Absent THEN NoFile ELSE "home"
    [] args[p].path = "absolute" -> "home"
    [] args[p].path = "relative" -> IF child[p] THEN "home" ELSE "here"

Detaches_Anywhere(p) ==           \* mutant: -d detaches without a terminal too
  args[p].cmd = "serve" /\ args[p].d # "" /\ ~child[p]
Detaches(p) ==
  /\ args[p].cmd = "serve" /\ args[p].d # ""
  /\ ~child[p] /\ attached'[p]

LoadsConfig_All(p) == args[p].cmd # "bare"      \* mutant: every command reads the config
LoadsConfig(p) == args[p].cmd \in {"serve", "off"}

Dispatch(p) ==
  /\ pc[p] = "start"
  /\ attached' = [attached EXCEPT ![p] = child[p] \/ Attach(p)]
  /\ path' = [path EXCEPT ![p] = Resolve(p)]
  /\ Goto(p, IF args[p].cmd = "bare" THEN "done"
             ELSE IF Detaches(p) THEN "spawn"
             ELSE IF LoadsConfig(p) THEN "load" ELSE "begin")
  /\ UNCHANGED <<file, args, child, parent, read, settings, sink>>

(* A flag that is unknown or written with the wrong dashes, -v, -h.          *)
BadFlags(p) ==
  /\ pc[p] = "start" /\ Goto(p, "usage")
  /\ UNCHANGED <<file, detail>>

(* startBackground and Spawn: a new process with the arguments less "-d".    *)
(* Whether it confirms its start is in Daemon.tla. Procs bounds the children. *)
Spawn(p) ==
  /\ pc[p] = "spawn"
  /\ \/ /\ ~logOK /\ Goto(p, "disk") /\ UNCHANGED <<args, child, parent>>
     \/ \E q \in Procs :
          /\ logOK /\ Fresh(q)
          /\ pc' = [pc EXCEPT ![p] = "done", ![q] = "start"]
          /\ args' = [args EXCEPT ![q] = [args[p] EXCEPT !.d = IF @ = "-d" THEN "" ELSE @]]
          /\ child' = [child EXCEPT ![q] = TRUE] /\ parent' = [parent EXCEPT ![q] = p]
  /\ UNCHANGED <<file, attached, path, read, settings, sink>>

-----------------------------------------------------------------------------
(* config.Load                                                               *)

Bounded(v) == IF v <= 0 THEN Default ELSE IF v > Limit THEN Limit ELSE v

ApplyDefaults(c) == [c EXCEPT !.duration = Bounded(@)]

Override(p, c) == [c EXCEPT !.ha = @ \/ args[p].flags]

Found(p) == IF path[p] = NoFile THEN Absent ELSE disk[path[p]]

LoadFails(p) ==
  /\ pc[p] = "load" /\ Found(p) # Absent /\ Goto(p, "config")   \* not JSON, or not readable
  /\ UNCHANGED <<file, detail>>

Load_Lenient(p) ==                \* mutant: a file that is not JSON counts as missing
  /\ pc[p] = "load" /\ Goto(p, "begin")
  /\ read' = [read EXCEPT ![p] = path[p]]
  /\ settings' = [settings EXCEPT ![p] =
       Override(p, IF Found(p) \in Configs THEN ApplyDefaults(Found(p)) ELSE Defaults)]
  /\ UNCHANGED <<file, args, child, parent, attached, path, sink>>

Load(p) ==
  /\ pc[p] = "load" /\ Goto(p, "begin")
  /\ \/ /\ Found(p) = Absent /\ UNCHANGED read
        /\ settings' = [settings EXCEPT ![p] = Override(p, Defaults)]
     \/ /\ Found(p) \in Configs /\ read' = [read EXCEPT ![p] = path[p]]
        /\ settings' = [settings EXCEPT ![p] = Override(p, ApplyDefaults(Found(p)))]
  /\ UNCHANGED <<file, args, child, parent, attached, path, sink>>

Stderr(p) ==
  IF child[p] THEN "log"
  ELSE IF args[p].redirected THEN "file"
  ELSE IF attached[p] THEN "terminal" ELSE "void"

SetupLogging_Stderr(p) == Stderr(p)             \* mutant: always to stderr
SetupLogging(p) ==
  IF ~attached[p] /\ args[p].cmd = "serve" /\ logOK THEN "log" ELSE Stderr(p)

(* setupLogging, and the command: the one-shot ones act and end; cmdServe     *)
(* holds the lock while it runs.                                             *)
Begin(p) ==
  /\ pc[p] = "begin"
  /\ sink' = [sink EXCEPT ![p] = SetupLogging(p)]
  /\ \/ args[p].cmd \in {"off", "stop"} /\ Goto(p, "done")
     \/ args[p].cmd = "setup" /\ Goto(p, "token")
     \/ args[p].cmd = "serve" /\ ~settings[p].ha /\ Goto(p, "unconfigured")
     \/ /\ args[p].cmd = "serve" /\ settings[p].ha
        /\ \/ Goto(p, "refused")        \* lock held, no backend, invalid entity
           \/ (\A q \in Procs : pc[q] # "run") /\ Goto(p, "run")
  /\ UNCHANGED <<file, args, child, parent, attached, path, read, settings>>

-----------------------------------------------------------------------------
(* setup.Interactive                                                         *)

Target(p) == IF path[p] = NoFile THEN "home" ELSE path[p]

(* Every question but the token's takes its default when the input ends.     *)
Token(p) ==
  /\ pc[p] = "token" /\ (Goto(p, "stat") \/ Goto(p, "stdin"))
  /\ UNCHANGED <<file, detail>>

(* ConfigPath makes the directory; that, or looking at the file, may fail.   *)
StatTarget(p) ==
  /\ pc[p] = "stat"
  /\ \/ Goto(p, IF disk[Target(p)] = Absent THEN "open" ELSE "overwrite")
     \/ Goto(p, "disk")
  /\ UNCHANGED <<file, detail>>

Overwrite(p) ==
  /\ pc[p] = "overwrite" /\ (Goto(p, "open") \/ Goto(p, "declined"))
  /\ UNCHANGED <<file, detail>>

(* os.WriteFile: truncate, then write. An error leaves what there is.        *)
Truncate(p) ==
  /\ pc[p] = "open"
  /\ \/ Goto(p, "disk") /\ UNCHANGED disk
     \/ Goto(p, "write") /\ disk' = [disk EXCEPT ![Target(p)] = Emptied]
  /\ UNCHANGED <<written, logOK, detail>>

(* A shorter text over that of another setup, written since the truncation,  *)
(* leaves the end of the other's.                                            *)
Write(p) ==
  /\ pc[p] = "write"
  /\ \/ Goto(p, "disk") /\ UNCHANGED <<disk, written>>
     \/ /\ disk[Target(p)] # Emptied /\ Goto(p, "spoiled")
        /\ disk' = [disk EXCEPT ![Target(p)] = Torn] /\ UNCHANGED written
     \/ \E c \in Configs :
          /\ Goto(p, "done")
          /\ disk' = [disk EXCEPT ![Target(p)] = c]
          /\ written' = [written EXCEPT ![Target(p)] = @ \cup {c}]
  /\ UNCHANGED <<logOK, detail>>

(* At the other points a kill is like one of their failures.                 *)
Kill(p) ==
  /\ pc[p] \in {"token", "write", "run"} /\ Goto(p, "killed")
  /\ UNCHANGED <<file, detail>>

-----------------------------------------------------------------------------
Step(p) ==
  \/ Dispatch(p) \/ BadFlags(p) \/ Spawn(p) \/ LoadFails(p) \/ Load(p) \/ Begin(p)
  \/ Token(p) \/ StatTarget(p) \/ Overwrite(p) \/ Truncate(p) \/ Write(p)

Next == \E p \in Procs : Step(p) \/ Kill(p) \/ \E inv \in Invocations : Type(p, inv)

(* A started process goes on; the user answers setup, or ends its input.     *)
Fairness == \A p \in Procs : WF_vars(Step(p))

Spec == Init /\ [][Next]_vars /\ Fairness

-----------------------------------------------------------------------------
Serving(p) == pc[p] = "run"

(* A watchdog that runs has settings it can run with: its durations are      *)
(* within bounds (a ticker of 0 or of an overflown duration panics), it has   *)
(* a Home Assistant, and all of it comes from one config that was completely  *)
(* written, or from the defaults when there was none: never from a file that *)
(* setup was in the middle of rewriting. (config.Load, applyDefaults,        *)
(* setup.Interactive)                                                        *)
RunsWhatWasWritten ==
  \A p \in Procs : Serving(p) =>
    /\ settings[p].duration \in 1..Limit /\ settings[p].ha
    /\ LET h == settings[p].ha  d == settings[p].duration IN
       IF read[p] = NoFile THEN d = Default /\ args[p].flags
       ELSE \E c \in written[read[p]] :
              /\ d = c.duration \/ (c.duration \notin 1..Limit /\ d \in {Default, Limit})
              /\ c.ha \/ args[p].flags

(* A launcher that gave scroff no terminal keeps the process it started: -d  *)
(* detaches nothing there, and a spawned child spawns no further one,        *)
(* however its flag is written. (run, startBackground, console.Attach: this  *)
(* is about Windows; elsewhere Attach always answers TRUE, as for a console     *)
(* that is "shared", and only the part about children remains.)              *)
TaskKeepsControl ==
  \A p \in Procs : child[p] =>
    /\ ~child[parent[p]]
    /\ args[parent[p]].console \notin {"owned", "none"}

(* What a watchdog logs can be read: unless the log file cannot be opened,   *)
(* one that runs detached, or on no console, writes to it. (setupLogging,    *)
(* Spawn. Consoles that are "owned" or missing are those of Windows.)        *)
HeadlessIsLogged ==
  \A p \in Procs : Serving(p) /\ logOK =>
    /\ sink[p] # "void"
    /\ (child[p] \/ args[p].console \in {"owned", "none"}) => sink[p] = "log"

(* setup repairs a file that is not JSON: the file is complete when it ends, *)
(* unless it is called wrongly, refused an answer, killed, cannot write, or  *)
(* puts its text over that of another setup that wrote between its truncation *)
(* and its write. (One of those may also spoil the file after it has ended.) *)
(* (run's list of the commands that load the config, setup.Interactive)      *)
SetupRepairs ==
  \A p \in Procs, f \in Files :
    pc[p] = "start" /\ args[p].cmd = "setup" /\ Resolve(p) = f /\ disk[f] \in {Emptied, Torn}
    ~> \/ pc[p] = "done" /\ disk[f] \in Configs
       \/ pc[p] \in {"usage", "stdin", "declined", "disk", "killed", "spoiled"}
=============================================================================
