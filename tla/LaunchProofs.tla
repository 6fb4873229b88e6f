---------------------------- MODULE LaunchProofs ----------------------------
(***************************************************************************)
(* The safety properties of Launch, for any number of processes, any         *)
(* invocations and durations: the config a watchdog runs on, who keeps       *)
(* control of it, and where it logs.                                         *)
(***************************************************************************)
EXTENDS Launch, TLAPS

Args ==
  [cmd : Commands, d : {"", "-d", "-d=true"}, path : {"default", "absolute", "relative"},
   flags : BOOLEAN, console : Consoles, redirected : BOOLEAN]
Contents == {Absent, Emptied, Torn} \cup Configs
Settings == [is : {"whole"}, ha : BOOLEAN, duration : Int]
Points ==
  {"idle", "start", "usage", "spawn", "load", "config", "begin", "unconfigured", "refused", "run",
   "token", "stdin", "stat", "overwrite", "declined", "open", "write", "disk", "done", "spoiled",
   "killed"}

TypeOK ==
  /\ disk \in [Files -> Contents] /\ written \in [Files -> SUBSET Configs] /\ logOK \in BOOLEAN
  /\ pc \in [Procs -> Points] /\ args \in [Procs -> Args]
  /\ child \in [Procs -> BOOLEAN] /\ parent \in [Procs -> Procs] /\ attached \in [Procs -> BOOLEAN]
  /\ path \in [Procs -> Files \cup {NoFile}] /\ read \in [Procs -> Files \cup {NoFile}]
  /\ settings \in [Procs -> Settings]
  /\ sink \in [Procs -> {"stderr", "log", "file", "terminal", "void"}]

(* What is whole in a file was written there.                                *)
Recorded == \A f \in Files : disk[f] \in Configs => disk[f] \in written[f]

(* The settings of p are those of a config its file has held, or defaults.   *)
Sound(p) ==
  /\ settings[p].duration \in 1..Limit
  /\ read[p] = NoFile => settings[p].duration = Default /\ (settings[p].ha => args[p].flags)
  /\ read[p] # NoFile => \E c \in written[read[p]] :
       /\ settings[p].duration = c.duration
          \/ (c.duration \notin 1..Limit /\ settings[p].duration \in {Default, Limit})
       /\ settings[p].ha => c.ha \/ args[p].flags

(* Where a process has to be in its way for what it knows.                   *)
Unread(p)  == pc[p] \in {"idle", "start", "spawn", "load"} => read[p] = NoFile
Loaded(p)  == pc[p] \in {"begin", "run"} /\ LoadsConfig(p) => Sound(p)
Serves(p)  == pc[p] = "run" => args[p].cmd = "serve" /\ settings[p].ha

HasTerminal(p) == args[p].console \in {"shared", "parent"}
Attaches(p) == pc[p] \in {"load", "begin"} => (attached[p] <=> child[p] \/ HasTerminal(p))
Spawns(p)   == pc[p] = "spawn" => ~child[p] /\ HasTerminal(p)
Born(p) ==
  /\ pc[p] = "idle" => ~child[p]
  /\ child[p] => pc[parent[p]] # "idle" /\ ~child[parent[p]] /\ HasTerminal(parent[p])
Logs(p) ==
  pc[p] = "run" /\ logOK =>
    sink[p] # "void" /\ (child[p] \/ ~HasTerminal(p) => sink[p] = "log")

IInv ==
  /\ TypeOK /\ Recorded
  /\ \A p \in Procs : /\ Unread(p) /\ Loaded(p) /\ Serves(p)
                      /\ Attaches(p) /\ Spawns(p) /\ Born(p) /\ Logs(p)

-----------------------------------------------------------------------------
(* The assumption on the constants, in the parts the proofs use.             *)
LEMMA ConstantFacts ==
  /\ Procs \subseteq Nat /\ Numbers \subseteq Int /\ Seeds \subseteq Configs
  /\ Default \in Nat \ {0} /\ Limit \in Nat /\ Default <= Limit
BY LaunchAssumption

LEMMA TypedArgs == Invocations \subseteq Args
BY LaunchAssumption DEF Args

(* config.Load                                                               *)

(* bounded answers within the bounds, and changes nothing that is in them.   *)
LEMMA BoundedRange ==
  ASSUME NEW v \in Int
  PROVE  /\ Bounded(v) \in 1..Limit
         /\ v \in 1..Limit => Bounded(v) = v
         /\ v \notin 1..Limit => Bounded(v) \in {Default, Limit}
BY ConstantFacts DEF Bounded

(* A config is not one of the contents that are not JSON.                    *)
LEMMA ConfigsAreWhole ==
  /\ Absent \notin Configs /\ Emptied \notin Configs /\ Torn \notin Configs
  /\ \A c \in Configs : c.ha \in BOOLEAN /\ c.duration \in Int /\ c \in Settings
<1>1. \A c \in Configs : c.is = "whole"
  BY DEF Configs
<1>2. Absent \notin Configs /\ Emptied \notin Configs /\ Torn \notin Configs
  BY <1>1 DEF Absent, Emptied, Torn
<1>3. Numbers \cup {Default} \subseteq Int
  BY ConstantFacts
<1>4. \A c \in Configs : c.ha \in BOOLEAN /\ c.duration \in Int /\ c \in Settings
  BY <1>3 DEF Configs, Settings
<1> QED BY <1>2, <1>4

(* Loading a config bounds its duration and keeps or overrides the rest.     *)
LEMMA LoadedSettings ==
  ASSUME NEW p \in Procs, NEW c \in Configs, TypeOK
  PROVE  /\ Override(p, ApplyDefaults(c)) \in Settings
         /\ Override(p, ApplyDefaults(c)).duration = Bounded(c.duration)
         /\ Override(p, ApplyDefaults(c)).ha = (c.ha \/ args[p].flags)
<1>1. c \in Settings /\ Bounded(c.duration) \in Int
  BY ConfigsAreWhole, BoundedRange, ConstantFacts DEF Bounded
<1>2. args[p].flags \in BOOLEAN
  BY DEF TypeOK, Args
<1> DEFINE a == ApplyDefaults(c)
<1>3. a \in Settings /\ a.duration = Bounded(c.duration) /\ a.ha = c.ha
  BY <1>1 DEF ApplyDefaults, Settings
<1> HIDE DEF a
<1>4. Override(p, a) \in Settings /\ Override(p, a).duration = a.duration
        /\ Override(p, a).ha = (a.ha \/ args[p].flags)
  BY <1>2, <1>3 DEF Override, Settings
<1> QED BY <1>3, <1>4 DEF a

LEMMA DefaultSettings ==
  ASSUME NEW p \in Procs, TypeOK
  PROVE  /\ Override(p, Defaults) \in Settings
         /\ Override(p, Defaults).duration = Default
         /\ Override(p, Defaults).ha = args[p].flags
<1>1. args[p].flags \in BOOLEAN
  BY DEF TypeOK, Args
<1> QED BY <1>1, ConstantFacts DEF Override, Defaults, Settings

-----------------------------------------------------------------------------
(* The invariant holds at first, and every step keeps it                     *)

LEMMA InitIInv == Init => IInv
<1> SUFFICES ASSUME Init PROVE IInv
  OBVIOUS
<1>1. TypeOK
  <2>1. disk \in [Files -> Contents] /\ written \in [Files -> SUBSET Configs] /\ logOK \in BOOLEAN
    BY ConstantFacts DEF Init, Contents
  <2>2. NoArgs \in Args
    BY DEF NoArgs, Args, Commands, Consoles
  <2>3. Defaults \in Settings
    BY ConstantFacts DEF Defaults, Settings
  <2> QED BY <2>1, <2>2, <2>3 DEF Init, TypeOK, Points
<1>2. Recorded
  BY ConfigsAreWhole DEF Init, Recorded
<1>3. \A p \in Procs : /\ Unread(p) /\ Loaded(p) /\ Serves(p)
                       /\ Attaches(p) /\ Spawns(p) /\ Born(p) /\ Logs(p)
  BY DEF Init, Unread, Loaded, Serves, Attaches, Spawns, Born, Logs
<1> QED BY <1>1, <1>2, <1>3 DEF IInv

(* Each step keeps the types.                                                *)
LEMMA NextTypeOK == TypeOK /\ [Next]_vars => TypeOK'
<1> SUFFICES ASSUME TypeOK, [Next]_vars PROVE TypeOK'
  OBVIOUS
<1> USE DEF TypeOK
<1>1. ASSUME NEW p \in Procs, NEW inv \in Invocations, Type(p, inv) PROVE TypeOK'
  <2>1. inv \in Args
    BY TypedArgs
  <2> QED BY <1>1, <2>1 DEF Type, Goto, file, Points
<1>2. ASSUME NEW p \in Procs, Dispatch(p) PROVE TypeOK'
  <2>1. Resolve(p) \in Files \cup {NoFile}
    BY DEF Resolve, Files, Args
  <2>2. child[p] \/ Attach(p) \in BOOLEAN
    BY DEF Attach
  <2>3. pc' \in [Procs -> Points]
    BY <1>2 DEF Dispatch, Goto, Points
  <2> QED BY <1>2, <2>1, <2>2, <2>3 DEF Dispatch, file
<1>3. ASSUME NEW p \in Procs, BadFlags(p) PROVE TypeOK'
  BY <1>3 DEF BadFlags, Goto, file, detail, Points
<1>4. ASSUME NEW p \in Procs, Spawn(p) PROVE TypeOK'
  <2>1. CASE ~logOK /\ Goto(p, "disk") /\ UNCHANGED <<args, child, parent>>
    BY <1>4, <2>1 DEF Spawn, Goto, file, Points
  <2>2. ASSUME NEW q \in Procs,
               pc' = [pc EXCEPT ![p] = "done", ![q] = "start"],
               args' = [args EXCEPT ![q] = [args[p] EXCEPT !.d = IF @ = "-d" THEN "" ELSE @]],
               child' = [child EXCEPT ![q] = TRUE], parent' = [parent EXCEPT ![q] = p]
        PROVE TypeOK'
    <3>1. [args[p] EXCEPT !.d = IF @ = "-d" THEN "" ELSE @] \in Args
      <4>1. args[p] \in Args
        OBVIOUS
      <4>2. [args[p] EXCEPT !.d = args[p].d] \in Args /\ [args[p] EXCEPT !.d = ""] \in Args
        BY <4>1 DEF Args
      <4> QED BY <4>2
    <3> QED BY <1>4, <2>2, <3>1 DEF Spawn, file, Points
  <2> QED BY <1>4, <2>1, <2>2 DEF Spawn
<1>5. ASSUME NEW p \in Procs, LoadFails(p) PROVE TypeOK'
  BY <1>5 DEF LoadFails, Goto, file, detail, Points
<1>6. ASSUME NEW p \in Procs, Load(p) PROVE TypeOK'
  <2>1. \A c \in Configs : Override(p, ApplyDefaults(c)) \in Settings
    BY LoadedSettings
  <2>2. Override(p, Defaults) \in Settings
    BY DefaultSettings
  <2> QED BY <1>6, <2>1, <2>2 DEF Load, Goto, file, Points
<1>7. ASSUME NEW p \in Procs, Begin(p) PROVE TypeOK'
  <2>1. SetupLogging(p) \in {"stderr", "log", "file", "terminal", "void"}
    BY DEF SetupLogging, Stderr
  <2>2. pc' \in [Procs -> Points]
    BY <1>7 DEF Begin, Goto, Points
  <2> QED BY <1>7, <2>1, <2>2 DEF Begin, file
<1>8. ASSUME NEW p \in Procs, Token(p) \/ StatTarget(p) \/ Overwrite(p) \/ Kill(p) PROVE TypeOK'
  BY <1>8 DEF Token, StatTarget, Overwrite, Kill, Goto, file, detail, Points
<1>9. ASSUME NEW p \in Procs, Truncate(p) PROVE TypeOK'
  BY <1>9 DEF Truncate, Goto, detail, Points, Contents
<1>10. ASSUME NEW p \in Procs, Write(p) PROVE TypeOK'
  BY <1>10 DEF Write, Goto, detail, Points, Contents
<1>11. CASE UNCHANGED vars
  BY <1>11 DEF vars, file, detail
<1> QED
  BY <1>1, <1>2, <1>3, <1>4, <1>5, <1>6, <1>7, <1>8, <1>9, <1>10, <1>11 DEF Next, Step

(* Only setup writes the files, and what it completes is recorded.           *)
LEMMA NextRecorded ==
  ASSUME TypeOK, Recorded, [Next]_vars
  PROVE  Recorded' /\ \A f \in Files : written[f] \subseteq written'[f]
<1>1. ASSUME NEW p \in Procs, Write(p)
      PROVE  Recorded' /\ \A f \in Files : written[f] \subseteq written'[f]
  BY <1>1, ConfigsAreWhole DEF Write, TypeOK, Recorded
<1>2. ASSUME NEW p \in Procs, Truncate(p)
      PROVE  Recorded' /\ \A f \in Files : written[f] \subseteq written'[f]
  BY <1>2, ConfigsAreWhole DEF Truncate, TypeOK, Recorded
<1>3. CASE UNCHANGED <<disk, written>>
  BY <1>3 DEF Recorded
<1> QED
  BY <1>1, <1>2, <1>3
  DEF Next, Step, Dispatch, BadFlags, Spawn, LoadFails, Load, Begin, Token, StatTarget, Overwrite,
      Type, Kill, vars, file, detail

Local(x) == Unread(x) /\ Loaded(x) /\ Serves(x) /\ Attaches(x) /\ Spawns(x) /\ Logs(x)

(* A process that takes no step keeps what it knows, while files are written. *)
LEMMA Frame ==
  ASSUME NEW x \in Procs, TypeOK, Local(x), logOK' = logOK,
         \A f \in Files : written[f] \subseteq written'[f],
         pc'[x] = pc[x], args'[x] = args[x], child'[x] = child[x], attached'[x] = attached[x],
         read'[x] = read[x], settings'[x] = settings[x], sink'[x] = sink[x]
  PROVE  Local(x)'
<1>1. (Unread(x) /\ Serves(x) /\ Attaches(x) /\ Spawns(x) /\ Logs(x))'
  BY DEF Local, Unread, Serves, Attaches, Spawns, Logs, HasTerminal
<1>2. Sound(x) => Sound(x)'
  BY DEF TypeOK, Sound
<1>3. Loaded(x)'
  BY <1>2 DEF Local, Loaded, LoadsConfig
<1> QED BY <1>1, <1>3 DEF Local

(* What a process knows after a step of its own.                             *)
LEMMA OwnStep ==
  ASSUME NEW p \in Procs, IInv, TypeOK', Step(p) \/ Kill(p), ~Spawn(p), ~Load(p), ~Begin(p), ~Dispatch(p)
  PROVE  Local(p)'
<1>1. /\ UNCHANGED <<logOK, detail>>
      /\ pc'[p] \in {"usage", "config", "stat", "stdin", "open", "overwrite", "disk", "declined",
                    "write", "done", "spoiled", "killed"}
  BY DEF IInv, TypeOK, Step, BadFlags, LoadFails, Token, StatTarget, Overwrite, Truncate, Write,
         Kill, Goto, file
<1> QED BY <1>1 DEF Local, Unread, Loaded, Serves, Attaches, Spawns, Logs

LEMMA DispatchLocal ==
  ASSUME NEW p \in Procs, IInv, Dispatch(p)
  PROVE  Local(p)'
<1> USE DEF IInv, TypeOK
<1>1. attached'[p] = (child[p] \/ HasTerminal(p))
  BY DEF Dispatch, Attach, HasTerminal
<1>2. pc'[p] \in {"done", "spawn", "load", "begin"}
  BY DEF Dispatch, Goto
<1>3. pc'[p] = "spawn" => ~child[p] /\ HasTerminal(p)
  BY <1>1 DEF Dispatch, Goto, Detaches
<1>4. pc'[p] = "begin" => ~LoadsConfig(p)
  BY DEF Dispatch, Goto
<1>5. args' = args /\ child' = child /\ read' = read /\ read[p] = NoFile
  BY DEF Dispatch, Unread
<1> QED
  BY <1>1, <1>2, <1>3, <1>4, <1>5
  DEF Local, Unread, Loaded, LoadsConfig, Serves, Attaches, Spawns, Logs, HasTerminal

LEMMA LoadLocal ==
  ASSUME NEW p \in Procs, IInv, Load(p)
  PROVE  Local(p)'
<1> USE DEF IInv, TypeOK
<1>1. /\ pc[p] = "load" /\ pc'[p] = "begin" /\ read[p] = NoFile
      /\ UNCHANGED <<written, logOK, args, child, attached>>
  BY DEF Load, Goto, file, Unread
<1>2. Sound(p)'
  <2>1. CASE Found(p) = Absent /\ UNCHANGED read
               /\ settings' = [settings EXCEPT ![p] = Override(p, Defaults)]
    <3>1. settings'[p].duration = Default /\ settings'[p].ha = args[p].flags /\ read'[p] = NoFile
      BY <1>1, <2>1, DefaultSettings
    <3> QED BY <1>1, <3>1, ConstantFacts DEF Sound
  <2>2. CASE Found(p) \in Configs /\ read' = [read EXCEPT ![p] = path[p]]
               /\ settings' = [settings EXCEPT ![p] = Override(p, ApplyDefaults(Found(p)))]
    <3>1. path[p] \in Files /\ Found(p) = disk[path[p]] /\ Found(p) \in written[path[p]]
      BY <2>2, ConfigsAreWhole DEF Found, Recorded
    <3>2. read'[p] = path[p] /\ path[p] # NoFile
      BY <2>2, <3>1 DEF Files, NoFile
    <3>3. /\ settings'[p].duration = Bounded(Found(p).duration)
          /\ settings'[p].ha = (Found(p).ha \/ args[p].flags)
      BY <2>2, LoadedSettings
    <3>4. Found(p).duration \in Int
      BY <2>2, ConfigsAreWhole
    <3>5. /\ settings'[p].duration \in 1..Limit
          /\ settings'[p].duration = Found(p).duration
             \/ (Found(p).duration \notin 1..Limit /\ settings'[p].duration \in {Default, Limit})
      BY <3>3, <3>4, BoundedRange
    <3> QED BY <1>1, <3>1, <3>2, <3>3, <3>5 DEF Sound
  <2> QED BY <2>1, <2>2 DEF Load
<1>3. Attaches(p)'
  BY <1>1 DEF Attaches, HasTerminal
<1> QED BY <1>1, <1>2, <1>3 DEF Local, Unread, Loaded, Serves, Spawns, Logs

LEMMA BeginLocal ==
  ASSUME NEW p \in Procs, IInv, Begin(p)
  PROVE  Local(p)'
<1> USE DEF IInv, TypeOK
<1>1. /\ pc[p] = "begin" /\ pc'[p] \in {"done", "token", "unconfigured", "refused", "run"}
      /\ UNCHANGED <<written, logOK, args, child, attached, read, settings>>
  BY DEF Begin, Goto, file
<1>2. pc'[p] = "run" => args[p].cmd = "serve" /\ settings[p].ha
  BY DEF Begin, Goto
<1>3. Loaded(p)'
  BY <1>1 DEF Loaded, LoadsConfig, Sound
<1>4. ~child[p] /\ ~HasTerminal(p) => ~attached[p]
  BY <1>1 DEF Attaches
<1>5. ~attached[p] /\ logOK /\ args[p].cmd = "serve" => SetupLogging(p) = "log"
  BY DEF SetupLogging
<1>6. attached[p] => SetupLogging(p) = Stderr(p) /\ SetupLogging(p) # "void"
  BY DEF SetupLogging, Stderr
<1>7. child[p] => SetupLogging(p) = "log"
  BY <1>6 DEF SetupLogging, Stderr
<1>8. Logs(p)'
  BY <1>1, <1>2, <1>4, <1>5, <1>6, <1>7 DEF Begin, Logs, HasTerminal
<1> QED BY <1>1, <1>2, <1>3, <1>8 DEF Local, Unread, Serves, Attaches, Spawns

(* A child is a process that was not used yet: nobody's parent either.       *)
LEMMA SpawnStep ==
  ASSUME NEW p \in Procs, IInv, TypeOK', Spawn(p), NEW x \in Procs
  PROVE  Local(x)' /\ Born(x)'
<1>1. TypeOK /\ Local(p) /\ Local(x) /\ Born(x) /\ pc[p] = "spawn" /\ ~child[p] /\ HasTerminal(p)
  BY DEF IInv, Local, Spawn, Spawns
<1>2. UNCHANGED <<disk, written, logOK, attached, path, read, settings, sink>>
  BY DEF Spawn, file
<1>3. \A f \in Files : written[f] \subseteq written'[f]
  BY <1>2
<1>4. CASE pc' = [pc EXCEPT ![p] = "disk"] /\ UNCHANGED <<args, child, parent>>
  <2>1. ASSUME x = p PROVE Local(x)'
    BY <1>1, <1>4, <2>1 DEF TypeOK, Local, Unread, Loaded, Serves, Attaches, Spawns, Logs
  <2>2. ASSUME x # p PROVE Local(x)'
    <3>1. pc'[x] = pc[x] /\ args'[x] = args[x] /\ child'[x] = child[x]
      BY <1>4, <2>2 DEF TypeOK
    <3> QED BY <1>1, <1>2, <1>3, <3>1, Frame
  <2>3. Local(x)'
    BY <2>1, <2>2
  <2>4. Born(x)'
    BY <1>1, <1>4 DEF TypeOK, Born, HasTerminal
  <2> QED BY <2>3, <2>4
<1>5. ASSUME NEW q \in Procs, NEW r, Fresh(q),
             pc' = [pc EXCEPT ![p] = "done", ![q] = "start"], args' = [args EXCEPT ![q] = r],
             child' = [child EXCEPT ![q] = TRUE], parent' = [parent EXCEPT ![q] = p]
      PROVE  Local(x)' /\ Born(x)'
  <2>1. p # q /\ pc[q] = "idle" /\ pc'[p] = "done" /\ pc'[q] = "start" /\ Unread(q)
    BY <1>1, <1>5 DEF Fresh, TypeOK, IInv
  <2>2. child'[p] = child[p] /\ args'[p] = args[p] /\ child'[q] /\ parent'[q] = p
    BY <1>1, <1>5, <2>1 DEF TypeOK
  <2>3. CASE x \in {p, q}
    <3>1. pc'[x] \in {"done", "start"} /\ read'[x] = read[x]
            /\ (pc'[x] = "start" => read[x] = NoFile)
      BY <1>2, <2>1, <2>3 DEF Unread
    <3>2. Local(x)'
      BY <3>1 DEF Local, Unread, Loaded, Serves, Attaches, Spawns, Logs
    <3>3. HasTerminal(p)' /\ ~child'[p]
      BY <1>1, <2>2 DEF HasTerminal
    <3>4. Born(x)'
      BY <1>1, <2>1, <2>2, <2>3, <3>3 DEF Born
    <3> QED BY <3>2, <3>4
  <2>4. CASE x \notin {p, q}
    <3>1. /\ pc'[x] = pc[x] /\ args'[x] = args[x]
          /\ child'[x] = child[x] /\ parent'[x] = parent[x]
      <4>1. x # p /\ x # q
        BY <2>4
      <4>2. pc'[x] = pc[x] /\ args'[x] = args[x]
        BY <1>1, <1>5, <4>1 DEF TypeOK
      <4>3. child'[x] = child[x]
        BY <1>1, <1>5, <4>1 DEF TypeOK
      <4>4. parent'[x] = parent[x]
        BY <1>1, <1>5, <4>1 DEF TypeOK
      <4> QED BY <4>2, <4>3, <4>4
    <3>2. Local(x)'
      BY <1>1, <1>2, <1>3, <3>1, Frame
    <3>3. ASSUME child[x]
          PROVE  pc'[parent[x]] # "idle" /\ ~child'[parent[x]] /\ HasTerminal(parent[x])'
      <4>1. parent[x] # q /\ parent[x] \in Procs
        BY <1>1, <2>1, <3>3 DEF TypeOK, Born
      <4>2. /\ child'[parent[x]] = child[parent[x]] /\ args'[parent[x]] = args[parent[x]]
            /\ pc'[parent[x]] \in {pc[parent[x]], "done"}
        BY <1>1, <1>5, <4>1 DEF TypeOK
      <4>3. pc[parent[x]] # "idle" /\ ~child[parent[x]] /\ HasTerminal(parent[x])
        BY <1>1, <3>3 DEF Born
      <4>4. parent'[x] = parent[x]
        BY <3>1
      <4>5. pc'[parent[x]] # "idle" /\ ~child'[parent[x]]
        BY <4>2, <4>3
      <4>6. HasTerminal(parent[x])'
        BY <4>2, <4>3, <4>4 DEF HasTerminal
      <4> QED BY <4>5, <4>6
    <3>4. Born(x)'
      BY <1>1, <3>1, <3>3 DEF Born, HasTerminal
    <3> QED BY <3>2, <3>4
  <2> QED BY <2>3, <2>4
<1> QED BY <1>4, <1>5 DEF Spawn, Goto

LEMMA TypeStep ==
  ASSUME NEW p \in Procs, NEW inv \in Invocations, IInv, TypeOK', Type(p, inv), NEW x \in Procs
  PROVE  Local(x)' /\ Born(x)'
<1>1. TypeOK /\ Local(x) /\ Born(x)
  BY DEF IInv, Local
<1>2. /\ pc[p] = "idle" /\ pc' = [pc EXCEPT ![p] = "start"] /\ args' = [args EXCEPT ![p] = inv]
      /\ UNCHANGED <<disk, written, logOK, child, parent, attached, path, read, settings, sink>>
  BY DEF Type, Fresh, Goto, file
<1>3. \A f \in Files : written[f] \subseteq written'[f]
  BY <1>2
<1>4. ASSUME x = p PROVE Local(x)'
  BY <1>1, <1>2, <1>4 DEF TypeOK, Local, Unread, Loaded, Serves, Attaches, Spawns, Logs
<1>5. ASSUME x # p PROVE Local(x)'
  <2>1. pc'[x] = pc[x] /\ args'[x] = args[x]
    BY <1>1, <1>2, <1>5 DEF TypeOK
  <2> QED BY <1>1, <1>2, <1>3, <2>1, Frame
<1>6. Born(x)'
  <2>1. pc'[x] = "idle" => pc[x] = "idle"
    BY <1>1, <1>2 DEF TypeOK
  <2>2. ASSUME child[x] PROVE /\ parent[x] # p /\ pc'[parent[x]] = pc[parent[x]]
                              /\ args'[parent[x]] = args[parent[x]]
    BY <1>1, <1>2, <2>2 DEF TypeOK, Born
  <2> QED BY <1>1, <1>2, <2>1, <2>2 DEF Born, HasTerminal
<1>7. Local(x)'
  BY <1>4, <1>5
<1> QED BY <1>6, <1>7

(* The other steps leave every process as it was born.                       *)
LEMMA StepOnly ==
  ASSUME NEW p \in Procs, IInv, TypeOK', Step(p) \/ Kill(p), ~Spawn(p),
         \A f \in Files : written[f] \subseteq written'[f], NEW x \in Procs
  PROVE  Local(x)' /\ Born(x)'
<1>1. TypeOK /\ Local(x) /\ Born(x)
  BY DEF IInv, Local
<1>2. Local(p)'
  BY OwnStep, DispatchLocal, LoadLocal, BeginLocal
<1>3. /\ UNCHANGED <<logOK, args, child, parent>>
      /\ pc[p] # "idle" /\ pc'[p] # "idle" /\ \A y \in Procs \ {p} : pc'[y] = pc[y]
  BY <1>1 DEF TypeOK, Step, Dispatch, BadFlags, LoadFails, Load, Begin, Token, StatTarget,
              Overwrite, Truncate, Write, Kill, Goto, file, detail
<1>4. \A y \in Procs \ {p} :
        /\ attached'[y] = attached[y] /\ read'[y] = read[y] /\ settings'[y] = settings[y]
        /\ sink'[y] = sink[y]
  BY <1>1 DEF TypeOK, Step, Dispatch, BadFlags, LoadFails, Load, Begin, Token, StatTarget,
              Overwrite, Truncate, Write, Kill, detail
<1>5. ASSUME x # p PROVE Local(x)'
  <2>1. /\ pc'[x] = pc[x] /\ attached'[x] = attached[x] /\ read'[x] = read[x]
        /\ settings'[x] = settings[x] /\ sink'[x] = sink[x]
    BY <1>3, <1>4, <1>5
  <2> QED BY <1>1, <1>3, <2>1, Frame
<1>6. Born(x)'
  <2>1. \A y \in Procs : pc'[y] = "idle" <=> pc[y] = "idle"
    BY <1>3
  <2> QED BY <1>1, <1>3, <2>1 DEF TypeOK, Born, HasTerminal
<1>7. Local(x)'
  BY <1>2, <1>5
<1> QED BY <1>6, <1>7

LEMMA NextIInv == IInv /\ [Next]_vars => IInv'
<1> SUFFICES ASSUME IInv, [Next]_vars PROVE IInv'
  OBVIOUS
<1>1. TypeOK' /\ Recorded' /\ \A f \in Files : written[f] \subseteq written'[f]
  BY NextTypeOK, NextRecorded DEF IInv
<1>2. ASSUME NEW x \in Procs PROVE Local(x)' /\ Born(x)'
  <2>1. ASSUME NEW p \in Procs, Step(p) \/ Kill(p) PROVE Local(x)' /\ Born(x)'
    <3>1. CASE Spawn(p)
      BY <1>1, <3>1, SpawnStep
    <3>2. CASE ~Spawn(p)
      BY <1>1, <2>1, <3>2, StepOnly
    <3> QED BY <3>1, <3>2
  <2>2. ASSUME NEW p \in Procs, NEW inv \in Invocations, Type(p, inv) PROVE Local(x)' /\ Born(x)'
    BY <1>1, <2>2, TypeStep
  <2>3. CASE UNCHANGED vars
    <3>1. Local(x)'
      <4>1. TypeOK /\ Local(x)
        BY DEF IInv, Local
      <4> QED BY <1>1, <2>3, <4>1, Frame DEF vars, file, detail
    <3>2. Born(x)'
      BY <2>3 DEF IInv, Born, HasTerminal, vars, detail
    <3> QED BY <3>1, <3>2
  <2> QED BY <2>1, <2>2, <2>3 DEF Next
<1> QED BY <1>1, <1>2 DEF IInv, Local

-----------------------------------------------------------------------------
(* The invariant says what the properties say                                *)

(* The invariant holds in every reachable state, for any processes,          *)
(* invocations and durations.                                                *)
THEOREM LaunchInvariance == Spec => []IInv
<1>1. Init => IInv
  BY InitIInv
<1>2. IInv /\ [Next]_vars => IInv'
  BY NextIInv
<1> QED BY <1>1, <1>2, PTL DEF Spec

(* A watchdog runs on one complete config, bounded and overridden, or on the *)
(* defaults: whatever setups and kills there were before it loaded the file. *)
(* (config.Load, applyDefaults, run)                                         *)
THEOREM RunsWritten == Spec => []RunsWhatWasWritten
<1>1. IInv => RunsWhatWasWritten
  <2> SUFFICES ASSUME IInv, NEW p \in Procs, Serving(p)
               PROVE  /\ settings[p].duration \in 1..Limit /\ settings[p].ha
                      /\ IF read[p] = NoFile THEN settings[p].duration = Default /\ args[p].flags
                         ELSE \E c \in written[read[p]] :
                           /\ settings[p].duration = c.duration
                              \/ (c.duration \notin 1..Limit /\ settings[p].duration \in {Default, Limit})
                           /\ c.ha \/ args[p].flags
    BY DEF RunsWhatWasWritten
  <2>1. settings[p].ha /\ Sound(p)
    BY DEF IInv, Serving, Loaded, Serves, LoadsConfig
  <2> QED BY <2>1 DEF Sound
<1> QED BY <1>1, LaunchInvariance, PTL

(* Only a process with a terminal detaches a child, and no child detaches    *)
(* another, however the flag is written. (run, startBackground)              *)
THEOREM KeepsControl == Spec => []TaskKeepsControl
<1>1. IInv => TaskKeepsControl
  BY DEF IInv, TypeOK, Born, HasTerminal, TaskKeepsControl
<1> QED BY <1>1, LaunchInvariance, PTL

(* A watchdog that is detached, or has no terminal, logs to the log file if  *)
(* it can be opened, and none logs to nowhere then. (setupLogging, Spawn)    *)
THEOREM Logged == Spec => []HeadlessIsLogged
<1>1. IInv => HeadlessIsLogged
  BY DEF IInv, TypeOK, Logs, HasTerminal, HeadlessIsLogged, Serving
<1> QED BY <1>1, LaunchInvariance, PTL
=============================================================================
