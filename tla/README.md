# A TLA+ verification of scroff

scroff ("HA Screen Off", the Go program in this repository) keeps the display
of a computer in step with an entity of Home Assistant: the entity is switched
off, the display goes dark and stays dark; the user touches mouse or keyboard,
the display wakes and the entity is switched on again. These modules model the
parts of it where order, timing and failure matter, check them with TLC and
prove the safety properties of every component, for all values of the
constants, with TLAPS. Liveness is model-checked.

All paths below are relative to the repository; `controller.go` stands for
`internal/controller/controller.go`, and so on.

## 1. The system

| part | state it keeps | operations | talks to |
|---|---|---|---|
| **controller** (`controller.go`) | `lastState`, `offMode`, `offSince`, `lastOffAssert`, the channel `haStateCh` | `Run` (initial sync, select loop, restore), `handleHAState`, `enterOffMode`, `watch`, `wakeEligible` | one goroutine; calls screen, input and ha, and is called back by ha |
| **ha** (`ha.go`) | `modeLog`, `lastLog`; per connection a rotation timer, `rotated`, `released` | `State`, `TurnOn`, `Poll`, `pollLoop`, `streamAndRead`, `readSSELine` | goroutines of `Poll`, `pollLoop` and one monitor per connection; HTTP to Home Assistant; `onChange` into `haStateCh` |
| **daemon** (`daemon*.go`, `main.go`: `cmdServe`, `startBackground`, `cmdStop`) | lock file, pid file (pid, start time), processes | `Lock`, `WritePID`, `RemovePID`, `Spawn`, `Stop` | any number of processes over two files and signals |
| **input** (`input*.go`) | evdev: `fds`, `pathOf`, `last`, `closed`; xprintidle and macOS: a cached idle time; Windows: none | `IdleSince`, `Close`, hotplug rescan | the kernel; asked by `watch` |
| **screen** (`screen*.go`) | none | `On`, `Off`, `IsOff` | commands of the desktop or Win32 |
| **config** (`config.go`) | none; the file `config.json` | `Load`, `applyDefaults`, `bounded` | read once at start of a command |
| **setup** (`setup.go`, `term_*.go`) | the file `config.json` | `Interactive` | the terminal; rewrites the file other commands load |
| **console** (`console_*.go`) | the standard handles of the process | `Attach` | Windows; tells `main` whether there is a terminal |
| **main** (`main.go`) | none that lasts | the command line, `startBackground`, `setupLogging`, the commands | everything above |

How they interact: Home Assistant's state reaches the controller three ways,
the initial `State` call, the polling loop and the event stream; the last two
run concurrently and meet in a channel of capacity 8, so reports can be late
and overtake each other. `watch` runs on a ticker, in off-mode only, asks the
input watcher for the idle time and blocks in `On` and `TurnOn` (up to 10 s)
while reports queue up. SIGINT and SIGTERM cancel the context all goroutines
select on; a hard kill runs nothing. `serve`, `serve -d` and `stop` are
processes that share a lock file and a pid file without any other coordination;
they and the one-shot commands load a config file that `setup` may be rewriting.

What makes it hard: reports that were true when they were read; screen
commands that fail, or fail and work, or work on one output of several; idle times that are cached, wrapped or
unknown; a select that picks any ready case; goroutines that have to end;
kills between any two steps; pids that come back as other programs; descriptor
numbers that come back as other files.

What makes each part correct:

- controller: a report of `on` is never lost to the dedupe in off-mode; a
  failed command never ends off-mode; only the user's return after the
  screen-off wakes; the window for that does not move; an unwanted wake is
  undone; shutdown restores.
- ha: what it reports was true of the entity, or came without a state, and in
  order per source; the polling floor catches up with anything; a rejected token is not retried;
  connections, timers and goroutines do not mix up or pile up.
- daemon: one watchdog at most; the pid file names it; `serve -d` answers for
  its own child; `stop` ends the watchdog and nothing else (the code falls short
  of the last three in the cases of section 4).
- config, setup, main: a watchdog runs on a config that was complete and within
  bounds, the one it was told to use (a child of `serve -d` may not: section 4),
  stays with the launcher that started it, and its log can be read; setup repairs
  a broken file.
- input: never input that was not there, never input overlooked; descriptors
  closed once; devices picked up again.
- the whole: it settles on what the entity says.

## 2. The modules

`ScreenPolicy` and `StateFeed` are abstract specifications; the others follow
the code, one action per handler or per step between two calls that block.

**Controller** is the goroutine of `Run`. Its program points are the calls it
may be blocked in: `"init"` (State), `"blank"` (Off in `enterOffMode`),
`"light"` (On in `handleHAState`), `"wake"` (On in `watch`), `"sync"` (TurnOn),
`"query"` (IsOff), `"force"` (Off in `watch`), `"restore"` (On on shutdown), and
`"select"`. `HandleHAState`, `Watch` and `WakeEligible` follow `handleHAState`,
`watch` and `wakeEligible` condition by condition; `BlankReturns`,
`LightReturns`, `WakeReturns`, ... are what follows the call. A command that
fails may have changed the display all the same, or some of its `Outputs` only
(`lit`); IsOff reports darkness when every output is dark. The ticker drops ticks as Go's
does (`NextTick`). Reports are arbitrary, the user, other programs, signals,
kills and restarts may interfere anywhere. Three readings of the clock that the
code takes within one call-free stretch are one.

**ScreenPolicy** is the package comment of `controller.go` (lines 4-12) as a
specification over the display, the darkness, the report being acted on and the
user's last touch. `PolicySpec` maps off-mode to `dark`, `offSince` to `since`
and the program points `"light"` and `"blank"` to the report being acted on.

**HAClient** is the client: the goroutine of `pollLoop` (`Poll...`, `Fetch...`),
that of `Poll` with `streamAndRead` (`Stream...`, `Dial...`, `Read...`) and one
monitor per connection (`Monitor...`). Timers are untimed, they may expire at
any moment, which covers the Reset of a timer that has already fired. The stream
is read as the code reads it, line by line: a type, a data line and a blank line
per event, events of other types or without one among them, data lines too long
to keep. **StateFeed**
is what it promises: every report was true when it set out, or stands for an
answer or an event that had no state (`Blanks`: `do` takes an empty body for an
answer, `ha.go:133`, and `State` returns ""), events are in order but may be lost,
an answer of a poll may be overtaken. The refinement takes the event being
delivered as the head of the events on their way.

**Watchdog** composes Controller with StateFeed, the turn_on service (served,
served late, rejected) and the users of Home Assistant, through `haStateCh`, the
initial sync and `TurnOn`.

**Daemon** has the processes of `serve` (`TryLock` to `Release`, with the deferred
calls in their order), of `serve -d` (`Spawn...`) and of `stop` (`Stop...`) over
the lock, the pid file (truncated before it is written), pids and start times.
The pid of a process that is gone may be given again, to another program
(`Reuse`) or to another serve (`Launch`); a process is told from an earlier one with its pid by
its start time (`started`). `Graceful` chooses between SIGTERM and `taskkill /F`.

**Probes** is Controller with the input watchers that do not measure exactly, one
per machine: the one-second cache of xprintidle and ioreg, which answers with its
last value when a probe fails, and the wrapping tick count of Windows, whose
GetLastInputInfo may fail too (`TicksFail`). **Evdev** is the
exact one: the goroutine that scans for devices, the readers, `Close`, and a
kernel that reuses descriptor numbers.

**Launch** is what comes before: `run()` from `console.Attach` to the command
(`Dispatch`, `Spawn`, `Load`, `Begin`), the child that `-d` re-executes, and the
dialogue of setup (`Token` to `Write`, with the truncation and the writing of
`os.WriteFile` as two steps) as processes over the config files. A config is
reduced to whether it names a Home Assistant and to one duration, which stands
for the five; an invocation to the command, how `-d` and `--config` are written,
whether the connection is given by flags, and the console it is started on. What
`cmdServe` does with the lock and the pid file is Daemon's; here only one process
serves at a time.

**ControllerProofs**, **HAClientProofs**, **WatchdogProofs**, **DaemonProofs**,
**ProbesProofs**, **EvdevProofs** and **LaunchProofs** hold the theorems about the
module they are named after. **Selection** defines the elements of a sequence that
belong to a set, which HAClient needs to say which events are the entity's own:
the standard `SelectSeq` is recursive and cannot be reasoned about, so `Select`
finds each element by its rank. **SelectionProofs** has its lemmas, and
`MCHAClient` assumes, for TLC to evaluate, that `Select` and `SelectSeq` agree on
all sequences of up to four elements. `MCController`, `MCHAClient`,
`MCWatchdog`, `MCProbes` and `MCLaunch` give names to the sets the
configurations choose from; Daemon and Evdev need none. A definition whose name
has a suffix (`Report_Unbounded`) is a mutant: the definition as it would read
with a plausible bug, kept to show that a property notices it.

## 3. The runs

| run | what it shows | instance |
|---|---|---|
| `Controller_faults` | `OnIsNeverStale`, `OffModeEndsLit`, `InputWindowStable`, `WakeIsFresh`, `PolicySpec` with every call failing at will, a kill and a restart | 2 outputs, 3 clock units, 2 queued reports, two unexpected states, one of them empty |
| `HAClient_poll` | `AuthNeverHammers`, `RotationIsOwn`, `FeedSpec`, `AllExit`, `CatchesUp` | 2 changes of the entity, 2 events of three lines on their way, events without a type whose data says "on", answers and events without a state, 2 connections, every fault |
| `Watchdog_settles` | `SettlesOn`, `SettlesOff` with failing screen commands, answers without a state, turn_on late or rejected, a crash and a restart | 1 change, 1 queued report, 1 event, 1 clock unit |
| `Watchdog_stale` | violation of `WakeHolds`, see below | no faults at all |
| `Daemon_commands` | `OneWatchdog`, `PidFileNamesRunner`, `StopSparesOthers`, `NoOrphan`, `StopWorks` | 2 pids, each used twice, one `serve -d`, one `stop`, a pid file that may fail to be written |
| `Daemon_twostops` | violation of `StopTouchesNoOther` | 1 pid, used twice, 2 `stop` |
| `Daemon_lostpid` | violation of `StopFindsRunner` | 2 pids, one `stop`, a clock that stands still |
| `Probes_live` | `DarkAgain`, `TouchWakes`, `ShutdownRestores`, `WakeIsRecent`, `ReturnIsNoticed` | each watcher, 2 outputs, probes that may fail, a clock of 5 that waits for the goroutine, a cache of 2, a count that wraps at 5 |
| `Probes_click` | violation of `WakeIsAfterOff` | the cache, punctual goroutine, no faults |
| `Probes_wrap` | violation of `WakeIsAfterOff` | the tick count, punctual goroutine, no faults |
| `Evdev_devices` | `ClosesOwn`, `OneReaderPerDevice`, `NoFdLeak`, `NeverTooFresh`, `PicksUp` | 2 devices, 2 descriptors, queues of 2, one device pulled out and plugged in again |
| `Launch_commands` | `RunsWhatWasWritten`, `TaskKeepsControl`, `HeadlessIsLogged`, `SetupRepairs` | 3 processes, 2 of them typed, ten invocations, durations below, within and above the bounds, files absent, broken or whole |

`Controller_faults` and `Daemon_commands` check the type invariant of their
module too, which their proofs use.

**Bounds.** The clock (`MaxTime`), restarts, changes, events on their way,
connections, unplugged devices and queues are bounded in the guards. The clock
need only pass one threshold, one re-assert interval and one tick after
off-mode was entered; the durations are 1 to 3 units so that each can be
shorter or longer than another. Two reports make an overtaking; two outputs make a
display that is partly lit, and no third adds a case. Two connections
make an old monitor meet a new connection, two processes make a race for the
lock; one descriptor more than readers of a device is enough for a reuse.
Daemon's clock starts at 1 because 0 means "no start time" in the code, Evdev's
because 0 is the zero of the Unix clock. `Daemon_*` allow deadlock: processes
really end. In `Watchdog_settles` the clock stops, and with it the input
that wakes the display; what remains is whether the watchdog ends on the right side.
Probes has one process and stops with it: its fields do not outlive it, and kills
and restarts are in `Controller_faults`. In Launch two typed commands make a
reader and a writer, or two writers, and the third process is the child of one.

**Fairness.** `Controller`: the goroutine goes on (its calls return, which no
timeout guarantees for screen commands, see 6), and a select does not ignore a
ready `ctx.Done` for ever (Go chooses among ready cases at random): strong
fairness of `Shutdown`; `Probes` likewise. `Launch`: a process that was started
goes on, and the user answers setup's questions or ends its input. `HAClient`: the goroutines go on and the same holds of
their selects; nothing is assumed of the stream, so a dial may hang. `CatchesUp`
carries its own assumption, that onChange returns and Home Assistant answers
with a state again and again; answers without one may come in between.
`Watchdog`: the same of the composed parts, and a screen command does not fail
for ever. `Daemon`: every process goes on and a pending
SIGTERM is delivered. `Evdev`: the scan and the readers go on; a device that is
there can be opened in one scan or another; input and reads that Close left
blocked are promised nothing.

## 4. Where code and comments disagree

Five runs are violations: they check a sentence of the repository against the
model of the code.

- `Watchdog_stale`: `README.md:41-43` says input "wakes the screen, and flips
  the entity back to `on`". A poll may have read `off` just before; its report
  is handled after the wake, finds `lastState` "off" and off-mode over, and the
  exception of the dedupe (`controller.go:116`), there so that a second `off` is
  not lost, starts off-mode again. The next report of `on` ends it (`SettlesOn`),
  but the user sees the display go dark again.
- `Probes_click`: `controller.go:150-152` says "the very click used to
  toggle the HA switch must not wake the screen". The cached idle time
  (`input_linux.go:248`, `input_darwin.go:38`) is not aged, so a later tick
  computes an input time that lies after the screen-off.
  `WakeIsRecent` bounds the damage: threshold plus one second. A probe that
  fails answers with the cached value too, however old, so a failure can
  wake the display, against the comment at `input_linux.go:254-255`; `WakeIsRecent`
  leaves those wakes out.
- `Probes_wrap`: `input_windows.go:37` says the wrap is "fine here"; after it
  every idle time is 0 until the next input, and off-mode ends by itself.
- `Daemon_lostpid`: `README.md:114-117` says the pid file lets `stop` terminate
  the running instance; a `stop` that found a dead pid removes the file of an
  instance that started meanwhile. `PidFileNamesRunner` is what remains true.
- `Daemon_twostops`: `daemon.go:260-262` says that `Stop` refuses to touch an
  unrelated process that has the number. It reads the file once for the pid and
  again for the start time (`daemon.go:272`), and compares nothing if the second
  read fails: another `stop` that has just removed the stale file makes this one
  terminate the program. `StopSparesOthers` is what remains true: with two reads
  that found the same entry, a program that had the pid at the first is spared.

Met while modelling, and not kept as runs: `serve -d` starts its child in
`~/.config/scroff` (`daemon.go:181`) with the arguments as typed, so that a relative
`--config`, of which `README.md:94` says "choose the config file", names another
file there (`Resolve` of Launch); Spawn returns "once the child has confirmed it
is alive by writing its pid file" (`daemon.go:163-164`), but takes for that a stale
file with the number that the system happens to give the child (`daemon.go:196`),
which then may not have reached `WritePID`, or could not write (in Daemon, a
`SpawnSees` after a `Launch` of a used pid); `spawnFail` takes the lock of its own
child, just told to end, for another instance's (`daemon.go:224`), and while
`lockHeld` tries the lock a `serve` that starts is refused; an answer with an
empty body is no error (`ha.go:133`), so the watchdog is told of a state "", which
it remembers and does nothing else about (`controller.go:137-141`); two evdev readers may store their stamps in the wrong order
(`input_linux.go:160`), so `last` is not always the most recent event, only never
too recent (`NeverTooFresh`); the branch for events without a time
(`input_linux.go:157`) cannot be taken, `time.Unix(0, 0)` is not the zero time,
though kernels do stamp every event; `screen.go:34` says IsOff answers
`(false, nil)` where it answers `ErrNoQuery`; the comment at On in
`screen_windows.go` expects the polling loop to call it constantly, which the
dedupe of `handleHAState` prevents; `setup` shows the URL as "[required]" and
takes an empty one, on which `serve` then refuses to start (`setup.go:50`,
`main.go:314`); it rewrites the config in place, so a `serve` started in that
moment fails to load it, as after a kill in between (`setup.go:92`;
`RunsWhatWasWritten`: it never runs on half of it), and of two at once the one that
writes a shorter text last leaves the end of the other's, which is not JSON, while
both report success (`SetupRepairs` leaves that out: `"spoiled"`); Run only logs
a restore that fails and ends with a dark display (`controller.go:65`), so
`ShutdownRestores` is checked with an On that works; where Home Assistant rejects
turn_on, `README.md:273-276` says "the screen still wakes", and it does, until
the next report of `off`; a GetLastInputInfo that fails makes the tick
overlook input (`input_windows.go:45-49`), which `ReturnIsNoticed` leaves out; a watchdog without a terminal
that ends with an error reports it on the silenced stderr and not in its log
(`main.go:73`). An event stream whose events carry no `event:` line reports
nothing (`ha.go:283`): the client then lives on its polling floor alone.

Two more came out of the proofs, as steps that could not be proved and that TLC
then showed to be wrong. `watch` tries a wake before it looks at the re-assert
and leaves `lastOffAssert` alone when On fails (`controller.go:179-199`): as long
as there is input and On keeps failing, a display that something else lit is
never put back, so `DarkAgain` is stated for commands that work. And
`wakeEligible` compares strictly: with a watch interval as long as the activity
threshold, which `config.go` admits, a single touch at the instant of a tick is
exactly one threshold old at the next and is overlooked; `TouchWakes` is stated
for a `Latency` (the interval, and for the cached watchers what a measurement may
age) below the threshold.

## 5. What is proved

`ControllerProofs`, for all values of the constants that satisfy
`ConfigAssumption` (durations are positive, which `bounded` of `config.go`
guarantees; the threshold is at most the noop watcher's hour,
`maxActiveThresholdMs`; the channel has a capacity; unexpected states are not
"on" or "off"):

- `Invariance`: `IInv` is inductive. It is `AnyInv` and `WakeOwed`. `AnyInv` is
  the type invariant, `OnIsNeverStale` and two facts they need: `OffModeCalls`
  says in which calls off-mode is certain, so that what follows the call may
  rely on it although reports arrived meanwhile; `PastOnly` says that no
  remembered instant lies ahead. Without the first, `OnIsNeverStale` is not
  preserved by the return of `enterOffMode`'s command. `AnyInv` is proved for
  `AnyNext`, where the input watcher may answer any integer, so that it serves
  Probes too. `WakeOwed` needs an exact watcher: a wake in progress was decided
  for an input after `offSince`; without it, a wake could not be mapped to the
  policy's.
- `TypeCorrect`, `OnNeverStale`: the two invariants of the runs.
- `EndsLit`, `Fresh`, `WindowStable`: the action properties, each from `IInv`
  and the actions. `Fresh` includes the noop watcher at a threshold of one hour:
  the strict comparison in `wakeEligible` is what saves it.
- `Implements`: `Spec => PolicySpec`, every step of the controller is a step of
  ScreenPolicy or a stutter.
- `DarkSoon`: `DarkAgain`, from two more invariants about time. `Punctuality`: with
  a goroutine that is never late the next tick lies at most an interval ahead,
  and before the ticker exists off-mode was entered at this very instant.
  `Reassertion`: with commands that work, the tick by which `watch` re-asserts
  comes less than an interval after it falls due, and a display found lit at the
  select was lit after the last assertion.

`HAClientProofs`, for any states, unrelated events, connections and faults
(`ClientAssumption`: the values are told apart):

- `ClientInvariance`: `IInv` is inductive. Beside the type invariant and the two
  properties it has `Delivering` (there is an answer, or an event, exactly while
  `onChange` has it) and `Parsing` (what the reader has put together of an event
  is of the event at the head of the stream, whatever was cut or came without a
  type).
- `NeverHammers`, `RotatedByOwn`: the two invariants of the run.
- `KeepsPromise`: `Spec => FeedSpec`, the refinement of StateFeed. The mapping
  takes the event being delivered, followed by the entity's own events of the
  pipe, as the events on their way (of a report without a state it says that the
  answer or the event had none): a line read is a stutter, an event
  completed leaves the sequence as it is, one that is cut or without a type, or
  a connection lost, drops a first part of it. `SelectAppend` and `SelectTail`
  of SelectionProofs carry the steps, two lemmas about sequences and not about
  the code; they are proved without induction over
  sequences, from `LeastNumber` (a set of numbers that is not empty has a least
  one) and the cardinalities of the library.

`WatchdogProofs`: `IsWatchdog`, `SystemSpec => Spec`, every behaviour of the
composed system is one of Controller, because a report that leaves the feed is
one of a state of the entity (`FeedTyped`). `SystemPolicy` and
`SystemOnNeverStale` follow. The composition is not shown to be a StateFeed
itself: a crash takes the answer and the events away in one step, which
StateFeed does in two.

`ProbesProofs`, for any cache life, any wrap and any tick count at boot
(`ProbeAssumption`):

- `ProbeInvariance`: `AnyInv`, `Punctuality` and `Reassertion` hold with every
  watcher; `CacheInv`: a measurement that did not fail is of the past and no younger
  than the input it was taken of; `TouchInv`: input that off-mode has not noticed
  comes no more than a `Latency` before the next tick, and a measurement that is
  kept is older than it. The last one is what the cache makes necessary: an old
  measurement may hide a touch at one tick, and is expired by the next that
  matters.
- `ProbeDarkSoon`, `TouchAnswered`: `DarkAgain` and `TouchWakes`.
- `WakeRecent`, `ReturnNoticed`: the two action properties, the second for ticks
  whose GetLastInputInfo works. It rests on
  `WrapDifference`, the lemma that two counts modulo any `Wrap` are never further
  apart than what they count, so that a wrapped count never makes input older.

`EvdevProofs`, for any devices, descriptors, queues and clock
(`EvdevAssumption`):

- `EvdevInvariance`: `IInv` is inductive. `InTable`: a descriptor in the table is
  open on a device and has a reader. `Adding`: the one `openDevice` is about to enter
  is open, and nobody else's. `NoOther`: no other descriptor is open on a
  device. `Drained`: after `Close` the table stays empty. `NotAhead`: whatever is on
  its way from the kernel to `last` is no newer than the newest input.
- `OnlyOwnClosed`, `ReadOnce`, `AllClosed`, `NeverAhead`: the four invariants of the
  run. That the kernel gives a closed number to another file at once is in the
  model; ownership is what keeps a second close from hitting it.

`DaemonProofs`, for any number of processes and commands, graceful termination
or not, any tolerance of start times (`DaemonAssumption`: pids, commands and
the empty values are told apart):

- `DaemonInvariance`: `IInv` is inductive. `LockHeld`: who is past Lock holds
  it, and a probe of `lockHeld` only while it lasts. `FileNames`: the pid file
  names who wrote it, until it unlinks or a `stop` has removed it; it is
  preserved because writing and unlinking happen under the lock. `Children`:
  a `serve -d` has a child. `Starts`: a pid is given again only to a program that
  starts later, and to another program only later than the recorded start plus
  the tolerance. `Guarded`: what a `stop` knows of the pid it read (`Informed`)
  stays true while the pid changes hands; it is what connects the two reads of
  the file, the comparison and the signal. `Struck`: a `stop` that terminated another
  program had read two different entries.
- `DaemonTypeCorrect`, and `SingleInstance`, `PidFileRight`, `StopRight`: the type
  invariant and the three safety properties of the run. `StopRight` speaks of the
  program that had the pid when the file was first read; one that gets the pid
  between the comparison and the signal is beyond any guard of this kind.

`LaunchProofs`, for any number of processes, any invocations and durations
(`LaunchAssumption`: the default lies within the bounds):

- `LaunchInvariance`: `IInv` is inductive. `Recorded`: a config that is whole in a
  file was written there, which holds because setup empties the file before it
  writes and two setups at once leave a whole text or one that is not JSON. `Loaded`:
  what a process read came from such a config, through `Bounded` and `Override`,
  and stays so when the file changes afterwards. `Born`: a child's parent is in
  use, detaches only once and had a terminal, so that a process number cannot be
  taken for the parent of another's child. `Attaches`: what Attach answered.
- `RunsWritten`, `KeepsControl`, `Logged`: the three invariants of the run.
  `BoundedRange` is the lemma on `bounded`: for every integer it answers within
  the bounds, and changes nothing that is in them.

Model-checked only: liveness (`ShutdownRestores`, `CatchesUp`, `AllExit`,
`SettlesOn`, `SettlesOff`, `NoOrphan`, `StopWorks`, `PicksUp`,
`SetupRepairs`), because the prover does not handle fairness or ENABLED; and
that `Select` is `SelectSeq`, because that takes induction over data. No
recursive operator is used.

## 6. What is not modelled

- The choice of a screen backend and the parsing of the tools' output; commands
  that never return: nothing in `screen_linux.go` bounds them, and the runs with
  fairness assume that they do.
- Bytes: JSON, the text of lines, log files, `/proc`. The logged mode of the
  client and the rate limit of its messages.
- The other settings of the config (names, levels, the backend); the standard
  handles and console modes that `Attach` sets; the echo of the terminal while a
  token is typed (`term_*.go`).
- `on`, `off`, `status`, `logs`, `version` and `help` beyond their end: they
  print or make one call.
- Errors of `processAlive` other than "no such process": a pid that may not be
  signalled counts as not running in the code (`daemon_unix.go:42`,
  `daemon_windows.go:76-79`) and as running in `Daemon`.
- On Windows, an On that reports success though one of its two calls failed
  (`screen_windows.go:110-116`).
- The noop watcher is in `Controller` (`HasInput`), but in no run: its hour lies
  beyond their clock. `Fresh` covers it.
- macOS `Stop` without start times: the guard against reused pids is off there.

## 7. Plan

Done: Controller with ScreenPolicy (the most important part), HAClient with
StateFeed, Watchdog, the composition, Daemon, the input watchers in Probes and
Evdev, Launch with config, setup and console, and the proofs of all safety
properties the runs check. Next:

1. What holds of the composed system and not of its parts: a report on its way
   was true of the entity, so off-mode is entered only if the entity was `off`
   at some time.
2. That the composed system implements StateFeed, with a crash that forgets in
   two steps or a StateFeed that forgets in one.
3. How much of `DarkAgain` is left where commands fail: the bound with an On
   that fails and no input.
