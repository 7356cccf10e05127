# Formal models of Auto Reverse

Auto Reverse turns the direction of scrolling around per kind of input device on
macOS. It is one executable: a settings window with a menu-bar icon, which also
runs the event tap that rewrites scroll events; a headless runtime that runs only
the tap; and commands that edit the same configuration and leave again. Up to
three kinds of process share one TOML file, one lock that allows one event tap,
one lock that allows one settings window, a socket and a one-slot mailbox. That
sharing is what these modules are about.

Everything here is translated from the Rust sources under `src/src`. Comments in
the modules name the function or the line they model.

## 1. Inventory

`PROJECT.json` lists every part with its sources. The parts that carry state, and
what makes each of them correct:

| Part | State | Operations | Talks to | What is hard | What makes it correct |
|---|---|---|---|---|---|
| Configuration store (`config/store.rs`) | `config.toml`, its advisory lock, temporary and backup files | load, `save_if_unchanged`, `update`, `load_or_create`, `repair_with_defaults` | every process, through the file | several writers; a failing sync after the rename; repair in several steps | no committed edit is lost; a crash leaves old or new bytes |
| Shared configuration (`ui.rs`, `tray.rs`, `runtime_ipc.rs`) | per process an `RwLock<AppConfig>`, in the window also the widgets' copy and `config_revision` | edit and save, tray click, external reload, listener reload | mailbox, tray slot, reload socket | five actors and three lossy channels | every save is made from the revision it presents; copies converge to the file |
| Reload socket (`runtime_ipc.rs`) | a datagram socket, a listener thread | bind, initial reload, receive and reload, notify | commands, window, tap owner | a lost datagram, an owner that starts between commit and notification | the running tap ends up with what is stored |
| Temporary pause (`runtime.rs`) | paused until | pause, resume, run out, ended by the switch | window, tap | reload while a save conflicts | a pause does not outlive the switch |
| Tap lifecycle (`ui/runtime.rs`) | lifecycle state, event channel, wake recovery, watchdog | start, retry, disable, wait for permission, poll, recover, watch | tap thread, permission, power events | state known only through a lagging channel; four places that may start a thread | one tap thread, never forgotten; a dead tap is repaired or shown |
| Tap watchdog (`tap_watchdog.rs`) | next sample, unhealthy and healthy counts, attempts, exhausted | observe, suspend, reset | tap lifecycle | bounded retries with a reset on health | restarts come to an end |
| Event tap thread (`platform/macos/event_tap.rs`) | mach port registry, tap, run loop | lock, create, register, enable, run, unregister, free, unlock, report | main thread, macOS | raw pointers used by other threads; teardown order; panic | a registered port is alive; one tap on the machine |
| Run lock (`daemon_lock.rs`) | a lock file with a pid | try to acquire, record the pid, release | headless runtime, window | process death | at most one holder |
| Single settings process (`activation.rs`) | `ui.lock`, pid in it, mailbox `ui.activate` | acquire or activate, probe, publish, claim, dispatch | launches, commands, primary | hard links, renames and unlinks by many processes on one slot | an edit or a request to open reaches the primary |
| Scroll scheduler and dynamics (`scroll_scheduler`, `scroll_dynamics`) | sessions and tails of two axes, a wake lease, a fail-open latch | input, poll, deliver, cancel, reset | not connected to the tap yet | late, repeated and superseded callbacks; overflow | no stale sample is delivered; a fault opens the path |
| Event path (`device_classifier.rs`, `device_attribution.rs`, `hid.rs`, `gesture.rs`, `scroll_events.rs`, the callback of `event_tap.rs`) | pinned continuous source, last touch, last wheel tick with its identity, live hint | touch, wheel tick, inventory change, scroll event, start and stop of the monitors | devices, configuration | evidence that arrives late, is old or belongs to another device; reused addresses | one gesture has one source; a rule reaches only the wheel that ticked |
| Scroll transformation (`scroll.rs`, `input_policy.rs`) and device rules (`config/profiles.rs`, `config/device_rules.rs`) | none: functions of the configuration and the event | resolve, bypass, reverse, give the reason, edit a list of rules | event path, panel, console | precedence of overlapping rules; two places that work out one decision | resolution by specificity, field by field; an edit changes its target only |
| Settings panel (`ui.rs`, `ui/device_rules.rs`, `ui/preset_preview.rs`, `ui/config_transfer.rs`, `tray/device_rules.rs`) | drafts of alias fields, questions, trial, import under review | every control that edits the configuration | store, tray, other processes | a dialog or a draft that outlives what it was opened for | valid rules; no edit beyond its target |
| Startup ownership (`login_item.rs`, `startup.rs`, `main.rs`) | a login item, a LaunchAgent, a flag in the configuration | enable, register, exchange, roll back, reconcile, uninstall | launchd, configuration | each of several calls may fail; no common lock | not both, and not silently neither |
| Device list (`hid.rs`, `refresh_policy.rs`, `ui.rs`) | inventory generation, acknowledged generation, backstop | change, poll, list, acknowledge | HID monitor, window | the list is read before the generation that is acknowledged | a wrong list is corrected within the backstop |
| Device test (`device_test.rs`, `debug_log.rs`) | a session per device, the ring of decisions | start, draw, drop; push without waiting | tap thread | the ring drops and keeps what it should not | Detected means this device moved since |
| Benchmark (`scroll_benchmark.rs`, `ui/scroll_benchmark.rs`) | cases, trial, results | start, frame, continue, end | window | several events per frame, clamping, settling | a result is earned by a trial and says what its track says |
| Logs and audit (`debug_log.rs`, `recovery_audit.rs`, `recovery_log.rs`, `debug_console.rs`) | two rings, counters per reason | push, record, filter, export | tap thread, console | rings that have gone round | counts and summaries agree with what is kept |
| Computations (`statistics.rs`, `event_rate.rs`, `tap_metrics.rs`, `latency_budget.rs`, `scroll_lab.rs`, `scroll_trace.rs`, `dynamics_gate.rs`, `settings_search.rs`, `cli.rs`, `config/schema.rs`, `config/transfer/`, `app_session.rs`) | none, or a value the caller holds | compute, parse, validate, pin | the above | boundaries, orders of samples, overlapping options | the result is the one the definition gives |

What is left (layout and wording, the AppKit and IOKit glue, packaging) keeps no
state that another part decides on; `PROJECT.json` says so part by part.

## 2. Modules

| Module | Models | Kind |
|---|---|---|
| `ConfigRegister` | what the configuration subsystem promises: one stored and one live configuration | abstract specification |
| `ConfigSync` | the file, all its copies and the channels between them | detailed, implements `ConfigRegister` |
| `ConfigSyncProofs` | theorems about `ConfigSync` | proofs |
| `TapRuntime` | tap lifecycle, watchdog, tap thread, port registry, run.lock, headless runtime | detailed |
| `TapRuntimeProofs` | theorems about `TapRuntime` | proofs |
| `Activation` | ui.lock, the pid in it, the mailbox, launches and commands | detailed |
| `ActivationProofs` | theorems about `Activation` | proofs |
| `ScrollDynamics` | one axis of the smooth scrolling: sessions, tail, ledger | operators |
| `ScrollScheduler` | the two axes, the wake lease, the fail-open latch and a caller with late timers | detailed |
| `ScrollSchedulerProofs` | theorems about `ScrollScheduler` | proofs |
| `AtomicStore` | what the store promises its callers: operations that replace one document in one step, a repair in two | abstract specification |
| `StoreFiles` | the store's operations one system call at a time, with failures, kills and power losses | detailed, implements `AtomicStore` |
| `StoreFilesProofs` | theorems about `StoreFiles` | proofs |
| `SourceClassifier`, `ScrollTransform`, `DeviceRules` | the classifier's record; what becomes of an event; rules, their resolution, edits and catalogue | operators |
| `EventPath` | the callbacks of the tap's run loop, the devices behind them and what one event leaves for the next | detailed |
| `EventPathProofs` | theorems about `EventPath` | proofs |
| `SettingsPanel` | what the settings window lets its user do to the configuration | detailed |
| `StartupOwnership` | login item, LaunchAgent and flag, one fallible call at a time | detailed |
| `DeviceList`, `DeviceTest` | the list of devices and its refresh; the test of one and the ring it reads | detailed |
| `SettingsWindowProofs` | theorems about `SettingsPanel`, `StartupOwnership`, `DeviceList`, `DeviceTest` and `ScrollBenchmark` | proofs |
| `ScrollBenchmark` | the benchmark's matrix, trials and session | detailed |
| `Measurements`, `WheelDynamics`, `DynamicsGate`, `Traces`, `CommandLine`, `Diagnostics`, `AppSession`, `ConfigDocument` | the computations of the program, from quantiles to argument parsing | operators |
| `Computations` | those computations beside reference definitions, as named assumptions | assumptions |
| `ComputationsProofs` | theorems about `Traces`, `DynamicsGate`, `ConfigDocument`, `Diagnostics` and `AppSession` | proofs |
| `MCConfigSync`, `MCTapRuntime`, `MCActivation`, `MCStoreFiles`, `MCTapThread`, `MCSettingsWindow` | values of the constants | for TLC |

### ConfigSync

A configuration is the set of edits it contains. Edits touch different settings,
except those in `Toggles`, which all flip the master switch; so "a later save
dropped an earlier edit" is visible as an element that disappears, and nothing
else about the settings matters. Comparing two revisions byte by byte becomes
comparing two sets, which is exact because no run makes the same bytes from
different edits.

| Model | Code |
|---|---|
| `disk` | `config.toml` |
| `shared["gui"]`, `shared["daemon"]` | the `Arc<RwLock<AppConfig>>` of the settings process and of the headless runtime |
| `widgets`, `revision` | `SettingsApp.config`, `SettingsApp.config_revision` (`{}` for `None`) |
| `slot` | the tray's atomic `PENDING_ACTION` |
| `mailbox` | is a request waiting in `ui.activate`? |
| `main`, `caller`, `loaded`, `draft` | where the main thread of the window is, and the locals it carries from one step to the next |
| `owner`, `listener`, `snapshot`, `datagrams` | the process with the tap, its listener thread, the configuration this has read, the socket's queue |
| `cli` | per command: before its commit, before each notification, done |

The main thread runs one handler at a time, but its steps are cut wherever another
thread or process can be seen in between: between a read of the file and the
publication of the result, between a save and its notification. A file operation
may fail before or after the rename (`SaveFails`); `SaveIfUnchanged` is one step
because it runs under the file's lock. `Notify` drops what the socket cannot hold.

### TapRuntime

`main` walks through the tick of the window in the order of `ui.rs`: power signal,
poll of the channel, permission, wake recovery, watchdog, re-arming, widgets. A tap
thread is a program counter `phase` that follows
`install_and_run_with_ready` from the lock to the report, with an error exit at
each fallible call, and a panic that drops the channel. `live`, `enabled` and
`port` are the taps that exist, that macOS has enabled and that is registered.
The watchdog's clock is reduced to `due`, whether the next sample is due.

### Activation

Every process commits an edit, takes or fails to take `ui.lock`, and, when it
failed, writes a request for the pid it reads there. Each system call is a step:
lock, truncate, write the pid, read it, look at the mailbox, hard link, look again,
rename. The primary loads, claims (a rename and a read) and acts.

### ScrollDynamics and ScrollScheduler

An axis is one record. `last` and `input` are `last_timestamp_us` and
`last_input_timestamp_us`, `generation` the session, `pending`, `sampled` and
`deadline` the tail. Distances are whole numbers of some unit. How much of a tick
is emitted at once and how much of a tail by a sample comes out of floating-point
products; here it may be any share, so what holds does not depend on presets or
rounding. The four numbers of the ledger appear as one, `owed`: accepted, neither
emitted nor cancelled. `HandleInput` and `Sample` are the sets of axes an accepted
call may leave.

`ScrollScheduler` adds the lease (`wake`, `lastWakeId`), the latch and what the
caller has in its hands: `timers`, the tokens it may still poll with (the current
one and one more; the scheduler compares a token with the current one only), and
`held`, a sample not posted yet. `sampled` is a history variable. Events that
return at once and change nothing (synthetic, continuous, or behind the latch) are
not steps. Invalid distances and timestamps from the past are `WheelTrips`. The
scheduler is not connected to the event tap in this version, so its caller is
modelled from its interface: any timer may fire at any time, any event may be
stamped now or one unit ago.

### StoreFiles

What `ConfigSync` takes as one step is here a sequence of system calls, each of
which may fail, and between any two of them the process may be killed (its lock is
released, its files stay) or the machine may lose power.

| Model | Code |
|---|---|
| `dir.config`, `dir.tmp[p]`, `dir.bak[p]` | `config.toml`, and the temporary and the `.broken.` backup with the names this operation chose |
| `lock` | the advisory lock on `config.toml.lock`; `Nobody` when it is free |
| `pc`, `base` | where an operation is, and the file it found, or for a save the one its caller has edited |
| `flushed` | which writers' bytes `sync_all` has put on the disk |
| `past` | what the directory may be after a power loss |
| `kept`, `broken` | history: edits acknowledged, and broken documents, that no editor has overwritten since |

A document is known by who wrote it, by the user's document it derives from and by
the edits in it, so "the same bytes" and "these edits are still there" can be said
without bytes. A power loss leaves one of the directories since the last sync of
the directory: changes of names reach the disk in order, as on a file system with
an ordered journal, and contents only by `sync_all`. `write_all` and `sync_all` are
one step (the temporary has no other name before the rename). A process performs
one operation; names contain the process id and a counter, so those of two
operations never meet. An editor takes no lock; it writes whole documents while no
operation is under way (otherwise a save would overwrite it, which the store does
not promise to avoid). `ConfigSync` and `StoreFiles` share no variable: the former
adds what callers do between the calls, the latter what is inside them.

`AtomicStore` is what lies between the two. It has no lock, no temporary file and no
failing call: one document, what each repair has set aside, the stores a power loss may
leave, and per operation an answer. An operation replaces the document by one made of
what is there *at that moment*; "ok" means that the change is there for good, and a
failure or a death that it is there as a whole or not at all. `StoreFiles` implements it
with `config.toml` as the document and the backups as what is set aside
(`Seen`, `Outcome`). A `SaveIfUnchanged` of `ConfigSync` is its `Replace` and
`Acknowledge`, and a `SaveFails` its `Refuse`, alone or after a `Replace`.

### EventPath and the operators it is made of

The callbacks of one tap run on one run loop, so each is one step: a touch, a wheel
tick, an inventory change, a scroll event. What can go wrong is their order and what
they find. `classifier` is the record of `device_classifier.rs`, `liveHint` is
the hint the HID monitor publishes, `gestureUp` the flag of `gesture.rs`, `wheel` is
`LAST_WHEEL`. Instants
are kept as ages, which count up to the first value at which no comparison of the
code can change. What the tap makes of an event is a function of the state,
`Delivered`, so a property can ask of *every* event in *every* state what would
happen to it; a step is only what an event leaves behind. `sensed`, `moved`,
`proven`, `gesture` and `ticker` are history variables. `ScrollTransform` has both
accounts the code gives of one event, the transformation and the reason worked out
again for the console.

### SettingsPanel

A step is one frame of the window with one input in it, or one tray click with the
tick that reads it, or a write of the file by somebody else. `panel` is the widgets'
copy and the shared copy, which agree after every frame (how they come to differ
inside one is `ConfigSync`'s subject). A save succeeds, meets another's write and
takes it over, or fails with or without the file in place. Rules are records with a
selector and optional fields; a device without rules inherits everything.

### StartupOwnership

Each operation of the window (row, reconciliation, Restore all defaults) and of the
commands (`enable-startup`, `disable-startup`, `uninstall`) is the sequence of its
calls into ServiceManagement, the LaunchAgent's file, launchctl and the
configuration; each may fail and then takes the exit, or the rollback, the code
has. `solo` remembers the operation that has run without company, with the owners
it found and its failures.

### DeviceList, DeviceTest and ScrollBenchmark

`DeviceList` has the monitor's notice, the generation it counts up, and the window's
refresh in the three steps the code takes: decide, list, acknowledge. `since` is
when the list became wrong. `DeviceTest` has the ring of decisions, which the tap
pushes to or skips, and per device the session that reads it. `ScrollBenchmark` is
the session with its trials; several events may fall into one frame, and one of
them may not be a finite number. `track` is a history variable: where the document
was after each event.

### Computations

The modules of operators are compared with what they are to compute: a quantile
with the nearest rank, the rate from the ring with the median over the session's
intervals, the verdict with the latest five readings, a replayed trace with the
record it was made of, the parser with the sets of words each command allows, the
read of a changing file with the versions it could have been. They are assumptions
over bounded inputs, without variables, and the run `store_files` evaluates them.
`ComputationsProofs` proves some of them for every input.

## 3. Runs

| Run | Asks | Expect |
|---|---|---|
| `config_headless` | does any interleaving of window, menu, two commands and one failing file operation lose an edit, show a copy that is out of order, or hide that the switch went off? Does the subsystem implement `ConfigRegister`? | pass |
| `config_handover` | does the running tap obey the file whoever owns it, through starts, stops, crashes and failed listeners? | pass |
| `config_pause` | "compare with the state the UI lifecycle last processed", or the reload hides a transition and skips its effects | violation |
| `config_overwrite` | "neither UI surface can overwrite a newer CLI write" with the tap in the window's process | violation |
| `tap_lifecycle` | one tap, one thread, no re-arm of a freed port, a window that knows what the thread does, and an end to every failure | pass |
| `tap_budget` | "a permission flap cannot create an unbounded restart loop" | violation |
| `store_files` | can an interleaving of the store's operations, two failing calls and a kill or power loss lose an acknowledged edit or the bytes of a broken document, leave a file without contents, or a stray one? Does the store implement `AtomicStore`? | pass |
| `tap_thread` | whatever comes in whatever order between the events of a scroll, is each attributed to a device there is evidence for, and does a gesture keep its source and direction? Do timers that are late, early, repeated or outdated, faults and resets ever strand a tail, unbalance a ledger, sample a lease twice or deliver motion long after the input? | pass |
| `settings_window` | can edits, resets, imports, drafts and trials reach beyond their target; can a moved login start end with two owners or none; does a device list stay wrong, a test detect another device, a benchmark count what did not happen? | pass |
| `activation` | is there one primary, with its pid in the lock file; does any step lose an edit or a request to open on its way to the primary, and do they reach it? | pass |
| `activation_probe` | a launch becomes primary or activates an existing one | violation |
| `activation_downgrade` | a reload never downgrades a pending request to open | violation |

The five violations are places where a comment or document says more than the code
does. `PROJECT.json`, "findings", quotes the lines and gives the scenario.

The type invariant is checked where it carries more than types: the watchdog's budget
(`tap_lifecycle`) and one rule per selector (`settings_window`). In the other modules
`TypeOK` is no property of a run, but a theorem for every value of the constants
(section 4).

What the passing properties say, and why each could be wrong:

* `CopiesInOrder` - the saves are compare-and-swap on the revision, but they write
  a *copy* that is kept elsewhere. It holds that copy and revision move together
  through every handler, failure exits included; the moment they come apart
  (a listener's late snapshot, a second menu action in the slot) a save with a
  current revision writes old contents. `NoLostEdit` and `ImplementsRegister`
  follow from it.
* `WindowAgreesWhenQuiet`, `LiveAgreesWhenQuiet` - when every channel is empty
  the copies agree: no notification is lost between a commit and the copies.
* `LiveConverges`, `WindowConverges` - and they get there.
* `PauseOutlivesOnlyByConflict` - switching off has its effects whoever switched, with
  one exception. The window's own switching off may meet a save conflict; the reload
  then takes the unsaved edit for the state it compares with, and if the file is off
  as well, nobody ends the pause. That is what `config_pause` finds, against the
  comment there (`ui.rs:585`). The passing property says that this step is the
  only one: failed clicks that are undone, reloads, conflicts over other settings and
  pauses begun from either place hide nothing.
* `OneTap`, `RegisteredPortAlive`, `OneTapThread` - see the modules' comments:
  mutual exclusion through start and teardown, and the agreement of the main
  thread's view with a thread it hears of only by channel.
* `PollTellsTruth` - the window knows the tap by messages only; after each poll it
  says "Running" exactly while the thread is in its loop, and "Starting" exactly while
  one is on its way there or back, whatever it has missed and retried.
* `SwitchOnSettles`, `RestartsEnd` - a tap that should work works, or the window
  says it does not; automatic restarts do not go on for ever.
* `OnePrimary` - truncating, writing and reading the pid are separate calls, a launch
  may die between any two of them, and so may the primary.
* `NewsIsKept`, `OpenIsKept` - no single step of anybody loses an edit the primary has
  yet to load, or a window it has yet to show: what makes the next two safe.
* `CommitReachesWindow`, `OpenDelivered` - coalescing of requests on a one-slot
  mailbox loses neither an edit nor a window, while the primary stays the same.
* `WakeCoversTails` - the lease is recomputed by every event and every poll, from
  two axes that each may have begun, joined, cancelled or finished a tail; a miss
  leaves distance that nobody ever pays out.
* `LedgerBalanced` - the residual is rounding only, on every path.
* `MotionStaysNearInput` - three delays add up (a timer, its poll, the post), and
  generations restart after a fault, so that a sample from before it can match
  again. Expiry is counted from when the sample was due, which is what keeps the
  sum bounded.
* `LeaseSampledOnce` - wake ids survive the reset of the latch; timers do too.
* `AcknowledgedEditsStay`, `WholeDocument`, `BrokenBytesSurvive` - speak of every
  directory a power loss may leave, so each needs its sync in the right place:
  of the directory before the caller hears of success, of the temporary before the
  rename, of the backup before `config.toml` lets go of it.
* `ImplementsAtomicStore` - the two-step answer "written, then synced", the compare
  and swap on bytes, and the repair that may undo itself at five places, seen as single
  steps by whoever calls.
* `NoStrayFiles`, `FailedRepairRestores` - what is left after one failing call,
  whichever it is. After two, the clean-up or the rollback itself may have failed;
  `BrokenBytesSurvive` holds even then.

* `TouchDecidesOnce` - a touch is kept for the next scroll, of whatever device; a
  wheel tick in between or a hot-plug applied at the next event must neither lend an
  old touch to a later gesture nor lose a fresh one. The one exception in the code
  is in the property: an inventory change that is applied with the next event takes
  the touches sensed after it along.
* `MagicMouseNeedsEvidence`, `GestureSteady` - of every event in every state: with
  monitors that fail, phases in any order, and momentum, wheel ticks and other
  programs' events in between.
* `IdentityOfTicker` - the cached identity goes by the address of a device, which is
  reused; the property says when that can give a wheel another's identity, and that
  nothing else can.
* `EditReachesItsTargetOnly` - rules of different scopes overlap, rows merge
  connected and remembered devices, and dialogs, drafts and reviews outlive the
  state they were opened for. The property compares the configuration resolved for
  every device before and after every save.
* `OwnershipMovesWhole` - nine operations, eleven fallible calls, three rollbacks.
  With another operation beside it none promises anything (see section 6).
* `ListIsCorrected` - a device that comes between listing and acknowledgement is
  acknowledged unseen; then only the backstop corrects the list.
* `TestNeedsItsDevice` - the ring keeps events from before the test and those of a
  twin, holds events other programs posted, and loses some.
* `BenchmarkResultEarned` - compares the counts kept step by step with the whole
  track of the trial.

### Bounds

* Edits: one of the window, one of the menu, one or two of commands. Every way two
  copies can come apart needs two writers and one reader between them; with two
  commands a third commit can come in between. Every edit is made once.
* `MaxClicksPerTick = 1`: at most one menu action between two ticks of the window.
  This is a real assumption: the slot holds one action, and with two the widgets
  stay behind (listed among the hazards). The tick is 250 ms.
* `SocketCapacity = 1`: the smallest socket that can be full.
* `MaxStarts = 2`, `MaxFaults = 1`: a second owner after the first; one failing
  operation at any point. `config_headless` has the fault, `config_handover` the
  second owner.
* Toggles: in `config_headless` and `config_pause` the window, the menu and a command
  move the switch, in `config_handover` the window and a command do.
* Two thread slots: were a second thread spawned beside the first, it would exist
  and the properties would see it. Attempts 3, samples 2 and 3 are the constants of
  the source. Two disturbances (user actions, permission flips, wake-ups, starts of
  the headless runtime); failures of macOS and of threads are not bounded.
* `tap_thread` explores the events and the tails one at a time: they share no
  variable, so a product would add nothing. For the tails: three wheel events out of
  three vectors (each axis alone, and both with one in reverse), one reset, a clock of nine values. Interval 2, time to live 2, tail 3, gap
  4 and threshold 1 keep the order of the constants in the source (2, 8, 60 to 120 and
  150 ms) as far as a small clock can and make every branch reachable: a joined,
  a reversed, an expired and a lapsed tail, a late poll, an overflow of each kind
  (`U64Max = 8` is the largest timestamp and counter).
* `store_files`: one process for each of the four operations, a valid and a broken
  document that may be there at first or be written by the editor at any time, two
  failing calls (the second may hit the clean-up of the first) and one kill or power
  loss. Operations run one after the other under the lock, so two more of a kind add
  nothing but longer histories, and the theorems are for any number of everything.
  About 720 000 states.
  The system stops when every operation has ended, so deadlock is not checked.
* For the events: two wheels of one model on two addresses, one of them virtual, every
  inventory of trackpad and Magic Mouse, 14 kinds of events, a configuration that
  treats the sources differently and that one switched off. Touch window 1, reset
  window 1, high 0, timeout 1, observation and cache 2 reach both sides of every
  comparison. About 2.4 million states with those of the tails. The tails end when their
  bounds are reached, so deadlock is not checked.
* `settings_window` explores the panel, the startup operations, the device list, the
  device test and the benchmark one at a time: they share no variable, so a product
  would add nothing. A mouse with a serial number and one without, which share a
  model's rule; two edits and writes from elsewhere and one open dialog (a dialog
  outlives at most one foreign write and one edit of its own window); the window and
  two commands; a backstop of three units and six of time; a ring of two with three
  events; a matrix of two cases, five units of time and four events a session, enough
  to overshoot, turn back and settle. About 1.03 million states.
* Two launches, a command that reloads and one that opens; one settings process
  may end.

### Fairness

The window repaints at least every 250 ms, so its main thread takes steps (weak
fairness on `MainStep`, on the primary's steps, and on the passing of time in
`TapRuntime`); a thread or process that was started and not killed runs (weak
fairness on each `ThreadStep`, on the listener, on each command after its commit).
The runs `tap_thread`, `settings_window` and `store_files` check safety only and assume none.
Nothing is assumed of the user, of macOS, of the headless runtime's start and end,
or of failures: those actions never have fairness. A command has no fairness
before its commit.

## 4. Proofs

| Theorem | For every | Says |
|---|---|---|
| `ConfigSyncProofs!TypeCorrect` | value of the constants | `TypeOK` |
| `ConfigSyncProofs!CopiesStayInOrder` | edits, faults, starts, socket | `CopiesInOrder` |
| `ConfigSyncProofs!NoEditIsLost` | same | `NoLostEdit` |
| `ConfigSyncProofs!HeadlessImplementsRegister` | same | `ConfigSync` implements `ConfigRegister` |
| `ConfigSyncProofs!WindowsAgree` | same | `WindowAgreesWhenQuiet` |
| `ConfigSyncProofs!PausesOutliveOnlyByConflict` | same | `PauseOutlivesOnlyByConflict` |
| `ConfigSyncProofs!LiveCopiesAgree` | edits, owners, starts, socket | `LiveAgreesWhenQuiet` |
| `ActivationProofs!TypeCorrect` | launches, commands, ends | `TypeOK` |
| `ActivationProofs!ThereIsOnePrimary` | same | `OnePrimary` |
| `ActivationProofs!NewsIsNeverLost` | same | `NewsIsKept` |
| `ActivationProofs!OpenIsNeverLost` | same | `OpenIsKept` |
| `TapRuntimeProofs!TypeCorrect` | limits, threads | `TypeOK`: in particular the budget is never exceeded |
| `TapRuntimeProofs!AtMostOneTap` | same | `OneTap` |
| `TapRuntimeProofs!PortsStayAlive` | same | `RegisteredPortAlive` |
| `TapRuntimeProofs!OneThreadAttended` | same | `OneTapThread` |
| `TapRuntimeProofs!PollsTellTruth` | same | `PollTellsTruth` |
| `ScrollSchedulerProofs!TypeCorrect` | preset, interval, time to live, gap, inputs, largest timestamp | `TypeOK`: no overflow |
| `ScrollSchedulerProofs!TailsStayCovered` | same | `WakeCoversTails` |
| `ScrollSchedulerProofs!LedgerStaysBalanced` | same | `LedgerBalanced` |
| `ScrollSchedulerProofs!MotionStaysNear` | same | `MotionStaysNearInput` |
| `ScrollSchedulerProofs!OneSamplePerLease` | same | `LeaseSampledOnce` |
| `StoreFilesProofs!TypeCorrect` | processes, operations, documents, failures, crashes | `TypeOK` |
| `StoreFilesProofs!EditsStay` | same | `AcknowledgedEditsStay` |
| `StoreFilesProofs!WholeDocumentAlways` | same | `WholeDocument` |
| `StoreFilesProofs!BrokenSurvive` | same | `BrokenBytesSurvive` |
| `StoreFilesProofs!NoStray` | same | `NoStrayFiles` |
| `StoreFilesProofs!FailedRepairsRestore` | same | `FailedRepairRestores` |
| `StoreFilesProofs!StoreIsAtomic` | same | `StoreFiles` implements `AtomicStore` |
| `EventPathProofs!TypeCorrect` | devices, events, configurations, time limits | `TypeOK` |
| `EventPathProofs!TouchesDecideOnce` | same | `TouchDecidesOnce` |
| `EventPathProofs!MagicMiceAreProven` | same | `MagicMouseNeedsEvidence` |
| `EventPathProofs!GesturesAreSteady` | same | `GestureSteady` |
| `EventPathProofs!IdentitiesAreTickers` | same | `IdentityOfTicker` |
| `SettingsWindowProofs!RulesStayValid` | devices, names, presets, files | `TypeOK`: at most one rule per selector |
| `SettingsWindowProofs!EditsReachTheirTargets` | same | `EditReachesItsTargetOnly` |
| `SettingsWindowProofs!OperationsKeepToTheirCalls` | commands | the types, and which call belongs to which operation |
| `SettingsWindowProofs!OwnershipMoves` | same | `OwnershipMovesWhole` |
| `SettingsWindowProofs!ListsAreCorrected` | devices | `ListIsCorrected` |
| `SettingsWindowProofs!TestsDetectTheirDevice` | devices, size of the ring | `TestNeedsItsDevice` |
| `SettingsWindowProofs!ResultsEarned` | matrices, scroll amounts | `BenchmarkResultEarned` |
| `ComputationsProofs!ReplayExplainsItself` | configuration, event, distance | a replayed sample comes out as observed, or is counted as lacking context, or is a notch of a device with a rule |
| `ComputationsProofs!ExperimentNeedsEvidence` | preset, evidence, environment | this build runs no experiment, and none runs without evidence |
| `ComputationsProofs!ExportComesBack` | valid configuration | what is exported is read as it was, by an import and by the store |
| `ComputationsProofs!PreviewsAgreeWithTheStore` | document | what an import offers is valid and is what the store would read |
| `ComputationsProofs!RingKeepsTheLatest` | capacity, history of records and held locks | the ring has the latest that were not dropped, and the count of those that were |
| `ComputationsProofs!SessionsKeepTheirTarget` | limits, history of inputs | targets of one generation are one target |

Each rests on the assumptions on its module's constants alone (that `None`, `Never`,
"none" and the like are not values of the sets beside them, that time limits are in
the order of the source, that the configurations given are valid ones), except that
those of `ConfigSync` after the first have hypotheses. For all but `LiveCopiesAgree` it
is `Headless`: the window's process does not own the tap and there is at most one menu
action per tick. Both parts are needed: run `config_overwrite` is the counterexample
without the first, and with two actions per tick `CopiesFollowRevision` fails.
`LiveCopiesAgree` is for every owner, the window's process included, but asks that no
file operation fails, that every command notifies the owner and for the one menu
action; each is what `config_handover` assumes.

*ConfigSync.* `NoLostEdit` is not inductive, nor is "the copy equals the
revision": between a tray click and its save, or between a failed save and its
restore, the copy is ahead, and what it will be put back to is a local of the
handler. `CopiesInOrder` says what the copy, the local, the slot and the widgets
are at every point of every handler (`CopiesFollowRevision`, `SlotHoldsLastClick`),
that an edit still to come is nowhere yet (`EditsAreNew`), and that what the
listener carries was committed (`LiveBehindDisk`). With `TypeOK` it is inductive.
The lost-edit theorem and the step simulation follow for each action.
The agreements when quiet are of another kind: their invariants say who still owes
the news. `WindowDue`: a revision that is not the file's is about to be compared
again, or the mailbox or a command has yet to say so. `LiveDue`: a tap whose copy is
not the file has a datagram, a reload or a sender ahead of it; where the window owns
the tap, also a click that is being undone, which is why a failed click must leave
"failed" in the slot *and* a revision that is out of date until the next load.
`SwitchSteady`: the widgets and the shared copy agree on the switch until a click or a
save has changed one of them, an "enabled" waits in the slot, or the widgets hold an
edit in conflict. With it, each step either keeps the pause with the switch the
lifecycle was last told of, or is the one of `config_pause`.

*Activation.* `OnePrimary` says that a process is in the places of a holder exactly
while the lock is its own; `Addressed` that who is about to write a request has read
a pid. `NewsIsKept` needs one fact more, `Uncommitted`: a launch commits nothing before
the lock was refused to it, so whoever takes the lock has nothing in the file that nobody
would tell of. What the primary is still promised (`Promised`) is in what it has seen, in
the mailbox, in a request it has claimed, or with a process on its way to ask; each
system call moves a promise from one of these to another, and the one that could drop
it is the hard link that finds a file, after which a process looks again before it
renames. `OpenIsKept` is the same argument about one request.

*TapRuntime.* `OneTap` and `RegisteredPortAlive` follow from `Ownership`: which
phase of a thread goes with which holder of the lock, which tap and which
registration. `OneTapThread` needs `Attended`: which lifecycle states go with a
thread that is gone, has a message in the channel, or is still running. For
`PollTellsTruth` it takes what the channel says: `Unspoken`, a thread has an outcome only
once it returns, and `Heard`, the last event that was sent or heard is "Running" exactly
while the thread is in its loop, and a thread that is gone has said so or has hung up.

*ScrollScheduler.* `AxisInv` says of one axis that its tail belongs to its latest
input and ends within the preset's duration of it; `FinishFacts` to `InputInv` show
that inputs and samples keep it, whatever the shares. On top of it `IInv` relates
the lease to the tails, ids to the latest sample, and each held sample to an input
(`HeldNear`). The last is what needs care: `MotionStaysNearInput` is not inductive,
since a sample that is not deliverable can become so when, after a fault, the
generations count up to its own again. It then does so by an input at the present
time, and every sample expires within one time to live of the present.

*StoreFiles.* `GoodDir` is asked of every directory in `past`, so a power loss, which
picks one of them, needs no argument of its own. `LockInv` is what the operation
with the lock knows at each of its calls: that the temporary holds its draft, that
`config.toml` is what it read, that a backup has the broken document before anything
overwrites or removes it. It is a statement about one process because only that one
moves; `Clean` and `Fresh` are about the others: what they left behind, and that an
operation that has not begun has no backup that a new link could hide. A save needs
to know that the document it loaded does not derive from a broken one (in `Fresh`),
since equal bytes are all it compares.
`LockInv` is two conjuncts, `Replacing` for the three operations that write and
`Repairing` for the one that also sets a document aside. The refinement adds nothing to
the invariant but `OneUndoes`: only the operation with the lock undoes anything. Each action then
maps to one step of `AtomicStore` or to none; the rename is `Replace`, because under
the lock what was read is still what is there, and the sync of the directory is
`Acknowledge`, which leaves one store a power loss can find.

*EventPath.* Four invariants beside `TypeOK`, one per property. `EvidenceInv`: the
classifier has a Magic Mouse in any of its three memories only when one finger was
sensed or it is the only source. `TouchInv`: the touch kept is the one last sensed,
of the same age, unless the hint has changed. `WheelInv`: the identity and
transport kept are those of the wheel that ticked last, unless it took over an address. `GestureInv`: the pinned source
and the axes flipped are those the gesture began with. `GestureSteady` then follows
because the transformation of a hardware event reads nothing else of the state.

*SettingsPanel.* `FilesOK` and `RestOK`: the file, the panel, the review and the
known revision are configurations the program could have loaded, and a trial, a
draft, a question or a review is about something that exists. The work is in the lemmas on rule lists: an update of one
selector keeps a list valid and every other selector's rules (`UpdateKeeps`), so
does clearing one (`ClearedKeeps`), and the sections copied by an import together
are every field that was compared (`SectionsAreComplete`).

*StartupOwnership.* `SoloInv` says, for each operation that has had no company and
each of its calls, what it has done so far and what its failures can have left
(`Progress`): the property speaks of the last step only. Each of the eleven calls
carries `Progress` from one call of an operation to the next.

*DeviceList and DeviceTest.* `BackstopInv` ties the next backstop to the moment the
list became wrong, which no poll, notice or acknowledgement moves. For the test it is
enough that every physical record in the ring is of a device that moved then.

*ScrollBenchmark.* `Agrees` says that the counts of a trial are those of its track so
far. The track's turns, its farthest point and its last movement are defined by
quantifiers over its places, and lemmas say what one more place does to each; no
recursion is needed.

*Computations.* The recursions over a history (the ring, the sessions) are proved from
one lemma, `AllReached`, which the library's minimal element of a set of numbers gives:
the hypothesis of a theorem is that each state is made of the one before. For the ring
the step is `PushedLatest`; for the sessions `Remembered` says what the pin still knows
of the targets told. The trace's theorem is a case for each reason.

Only model-checked: everything under fairness (`LiveConverges`, `WindowConverges`,
`SwitchOnSettles`, `RestartsEnd`, `CommitReachesWindow`, `OpenDelivered`), since
the provers do not reason about ENABLED and liveness - of the last two and of
`SwitchOnSettles` the steps they rest on are theorems (`NewsIsKept`, `OpenIsKept`,
`PollTellsTruth`); and those assumptions of `Computations` that are about folds over
sequences (quantiles, rates, verdicts, the lab, the search) or about finitely many words.

## 5. Plan

1. Done: `ConfigRegister`, `ConfigSync`, `TapRuntime`, `Activation`, their runs, and
   the theorems above.
2. Done: `ScrollDynamics` and `ScrollScheduler`, their run and all its properties as
   theorems.
3. Done: `EventPath`, its run and all its properties as theorems.
4. Done: `StoreFiles`, its run and all its properties as theorems.
5. Done: `SettingsPanel`, `StartupOwnership`, `DeviceList`, `DeviceTest`,
   `ScrollBenchmark`, their run and all their properties as theorems.
6. Done: the algorithms, against reference definitions on small domains, and six
   theorems about them.
7. Done: proofs of one primary at a time and of what reaches it in `Activation`, of the
   agreement when quiet and of how a pause can outlive the switch in `ConfigSync`, of what a poll says in
   `TapRuntime`.
8. Done: `AtomicStore`, and that `StoreFiles` implements it.
9. Left: theorems about the remaining computations (recovery audit, latency verdicts,
   the reports of the command line); what startup operations of two processes promise,
   once they share a lock.

## 6. Not modelled

* Of the store: the lookup of the path, the refusal to repair anything but a
  regular file, paths without a parent and the search for a free backup name.
  `inspect_existing`, which reads without the lock, changes nothing. While a repair is
  under way it may find no file, although its comment (`store.rs:123`) promises either
  the old or the new revision: `AtomicStore` shows that moment, between `TakeAway` and
  `Replace`.
* In `ConfigSync`, a configuration file that becomes invalid (`StoreFiles` has it);
  import and reset arrive there as edits of the widgets' copy (`SettingsPanel` has them).
* The floating-point curve of the smooth scrolling (any split of a distance stands
  for it) and its velocity, which is only reported.
* Drawing, wording, layout, the console's tables, TOML syntax, the texts of plists
  and of exports.
* `WillSleep`, which only replaces an unread event in the power signal.
* Real time: the tick, the retry and the sample intervals appear as fairness and as
  "due" flags.
* Everything marked `not_modelled` in `PROJECT.json`, with the reason given there.

### Behaviour worth knowing

The models follow the code, also where a reader may expect something else:

* Startup operations of two processes take no common lock; together they can leave
  both owners, or none, with each reporting success. `OwnershipMovesWhole` is about
  operations without company.
* A device test that has timed out still turns Detected on a later event.
* An inventory change reaches the classifier with the next scroll event and then
  discards a touch sensed after it.
* A continuous event posted by another program uses up the touch: it is classified
  before its provenance is looked at.
* A wheel that takes over the address of another within the cache's idle time is
  given the other's identity.
* The summary of recoveries shows nothing for a reason whose records have left the
  ring; clearing the console also resets the attempts of the permission's record.
* Reading a file to import notices a change by its length and modification time.
* A replayed trace's count of samples without context misses notches where a rule
  set the step or reversed an axis that is off.
* The text of an alias field stays after a save that failed, a reload or an import.
