------------------------------ MODULE TapRuntime ------------------------------
(***************************************************************************)
(* Who owns the scroll event tap, and how the settings process keeps its   *)
(* own tap alive.                                                          *)
(*                                                                         *)
(* The settings process runs a tap on a thread of its own.  Its main       *)
(* thread only hears of that thread through a channel (Started, then       *)
(* Finished) and through the registry of mach ports; once per tick of the  *)
(* window it polls the channel, refreshes the permission, recovers from a  *)
(* wake-up and samples the tap's health with the bounded watchdog          *)
(* (ui/runtime.rs, tap_watchdog.rs, the callers in ui.rs).  A headless     *)
(* runtime in another process competes for run.lock.  macOS may disable a  *)
(* tap, end its run loop, refuse to create or re-enable one and revoke the *)
(* permission at any moment.                                               *)
(*                                                                         *)
(* Between two steps of the main thread any step of a tap thread, of the   *)
(* other process or of macOS may happen.                                   *)
(***************************************************************************)
EXTENDS Integers, Sequences

CONSTANTS
    Threads,            \* tap threads of this process that can exist at once
    MaxAttempts,        \* WATCHDOG_MAX_ATTEMPTS
    UnhealthySamples,   \* UNHEALTHY_HYSTERESIS
    HealthySamples,     \* HEALTHY_RESET_HYSTERESIS
    MaxDisturbances     \* bound: user actions, permission changes, wake-ups
                        \* and headless starts, all together

ASSUME ConstantsAssumption ==
    /\ "none" \notin Threads /\ "daemon" \notin Threads
    /\ MaxAttempts \in Nat /\ MaxDisturbances \in Nat
    /\ UnhealthySamples \in Nat \ {0} /\ HealthySamples \in Nat \ {0}

VARIABLES
    switch,       \* the master switch, as the window's configuration has it
    trusted,      \* is Accessibility granted, according to macOS?
    ready,        \* SettingsApp.permissions_ready, the answer last read
    refreshDue,   \* is a refresh of the permission requested or due?
    woke,         \* is DidWake waiting in the power signal?
    main,         \* what the main thread does next
    state,        \* TapRuntime.state
    receiver,     \* thread whose channel TapRuntime.events reads, or "none"
    events,       \* lifecycle states reported on that channel, unread
    wake,         \* WakeRecovery
    dog,          \* TapWatchdog
    phase,        \* per tap thread: what it does next
    outcome,      \* per tap thread: what it is about to report, or "none"
    lock,         \* holder of run.lock: a thread, "daemon" or "none"
    port,         \* TAP_PORTS.active: the thread whose tap is registered
    live,         \* threads whose CGEventTap exists
    enabled,      \* those whose tap macOS has enabled
    signalled,    \* those owed a "tap disabled" callback
    daemon,       \* the headless runtime: "off", "locked" or "tapped"
    disturbances  \* disturbances so far

lifeVars == <<state, receiver, events, phase, outcome>>
tapVars == <<lock, port, live, enabled, signalled>>
inputVars == <<switch, trusted, ready, refreshDue, woke>>
vars == <<inputVars, main, wake, dog, lifeVars, tapVars, daemon, disturbances>>

Disturb == disturbances < MaxDisturbances /\ disturbances' = disturbances + 1

LifecycleStates == {"Idle", "WaitingForPermissions", "Starting", "Running",
                    "AlreadyRunning", "Stopped", "Failed"}
CanStartAutomatically == state \in {"Idle", "WaitingForPermissions"}
CanRetry == state \in {"AlreadyRunning", "Stopped", "Failed"}

-------------------------------------------------------------------------------
(* TapWatchdog: a pure record.  due is "no next_sample, or it has passed";  *)
(* the two sample counters saturate where the code stops telling them apart.*)

FreshDog == [due |-> TRUE, unhealthy |-> 0, healthy |-> 0, attempts |-> 0,
             exhausted |-> FALSE]

SuspendForgetting(d) == FreshDog    \* mutant of Suspended: the budget too

Suspended(d) == [d EXCEPT !.due = TRUE, !.unhealthy = 0, !.healthy = 0]

Saturating(n, top) == IF n < top THEN n + 1 ELSE top

SpentOneLate(d) == d.attempts > MaxAttempts    \* mutant of BudgetSpent

BudgetSpent(d) == d.attempts >= MaxAttempts

(* The action a bad observation calls for, were the budget unlimited. *)
Remedy(observed, restartAllowed) ==
    CASE observed = "Disabled" -> "Rearm"
      [] observed = "NotInstalled" /\ restartAllowed -> "Restart"
      [] OTHER -> "None"

AfterHealthy(d) ==
    LET seen == Saturating(d.healthy, HealthySamples)
        sampled == [d EXCEPT !.due = FALSE, !.unhealthy = 0, !.healthy = seen]
    IN IF seen < HealthySamples THEN sampled
       ELSE [sampled EXCEPT !.attempts = 0, !.exhausted = FALSE]

(* observe(): the watchdog after a sample, and the action it returns. *)
Observe(d, observed, restartAllowed) ==
    LET bad == [d EXCEPT !.due = FALSE, !.healthy = 0,
                         !.unhealthy = Saturating(@, UnhealthySamples)]
        remedy == Remedy(observed, restartAllowed)
    IN IF ~d.due THEN [dog |-> d, action |-> "None"]
       ELSE IF observed = "Enabled"
            THEN [dog |-> AfterHealthy(d), action |-> "None"]
       ELSE IF bad.unhealthy < UnhealthySamples \/ remedy = "None"
            THEN [dog |-> bad, action |-> "None"]
       ELSE IF BudgetSpent(bad)
            THEN [dog |-> [bad EXCEPT !.exhausted = TRUE], action |-> "None"]
       ELSE [dog |-> [bad EXCEPT !.attempts = @ + 1, !.unhealthy = 0],
             action |-> remedy]

-------------------------------------------------------------------------------
(* The registry of tap ports, read and used under one mutex.                *)

TapEnabledState ==
    CASE port = "none" -> "NotInstalled"
      [] port \in enabled -> "Enabled"
      [] OTHER -> "Disabled"

(* rearm_if_installed: macOS is asked to enable the tap; it may not comply. *)
RearmIfInstalled ==
    /\ \/ port # "none" /\ enabled' = enabled \cup {port}
       \/ UNCHANGED enabled
    /\ UNCHANGED <<lock, port, live, signalled>>

-------------------------------------------------------------------------------
(* TapRuntime's own operations, called by the main thread.                  *)

Spawn ==
    \E t \in Threads :
        /\ phase[t] = "gone"
        /\ phase' = [phase EXCEPT ![t] = "new"]
        /\ state' = "Starting"
        /\ receiver' = t
        /\ events' = <<>>
        /\ UNCHANGED outcome

StartIfReady ==
    IF CanStartAutomatically THEN dog' = FreshDog /\ Spawn
    ELSE UNCHANGED <<dog, lifeVars>>

WaitForPermissions ==
    /\ dog' = Suspended(dog)
    /\ state' = IF state \in {"Starting", "Running"} THEN state
                ELSE "WaitingForPermissions"
    /\ UNCHANGED <<receiver, events, phase, outcome>>

StartOrWait(permitted) == IF permitted THEN StartIfReady ELSE WaitForPermissions

WakeClosed == [window |-> "closed", rearmed |-> FALSE, restarted |-> FALSE]

DisabledForgettingStart ==    \* mutant of Disabled: a Starting thread too
    /\ wake' = WakeClosed
    /\ dog' = FreshDog
    /\ IF state = "Running" THEN UNCHANGED lifeVars
       ELSE /\ state' = "Idle" /\ receiver' = "none" /\ events' = <<>>
            /\ UNCHANGED <<phase, outcome>>

Disabled ==
    /\ wake' = WakeClosed
    /\ dog' = FreshDog
    /\ IF state \in {"Starting", "Running"} THEN UNCHANGED lifeVars
       ELSE /\ state' = "Idle" /\ receiver' = "none" /\ events' = <<>>
            /\ UNCHANGED <<phase, outcome>>

-------------------------------------------------------------------------------
(* The main thread: load once, then tick.                                   *)

Load ==
    /\ main = "load"
    /\ main' = "poll"
    /\ IF switch THEN StartOrWait(ready) ELSE UNCHANGED <<dog, lifeVars>>
    /\ UNCHANGED <<inputVars, wake, tapVars, daemon, disturbances>>

LastEvent == IF events = <<>> THEN state ELSE events[Len(events)]

PollIgnoringHangup ==    \* mutant of PollEvents: no word is no news
    /\ state' = LastEvent
    /\ events' = <<>>
    /\ UNCHANGED <<receiver, phase, outcome>>

(* poll(): the last event reported wins; a channel whose thread is gone is  *)
(* dropped, and a thread gone without a word has failed.                    *)
PollEvents ==
    LET hungUp == receiver # "none" /\ phase[receiver] = "gone" IN
    /\ state' = IF hungUp /\ LastEvent = "Starting" THEN "Failed" ELSE LastEvent
    /\ receiver' = IF hungUp THEN "none" ELSE receiver
    /\ events' = <<>>
    /\ UNCHANGED <<phase, outcome>>

Poll ==
    /\ main = "poll"
    /\ main' = "refresh"
    /\ PollEvents
    /\ UNCHANGED <<inputVars, wake, dog, tapVars, daemon, disturbances>>

(* Power event, permission refresh, wake-recovery request. *)
Refresh ==
    /\ main = "refresh"
    /\ main' = "recover"
    /\ woke' = FALSE
    /\ refreshDue' = FALSE
    /\ ready' = IF refreshDue \/ woke THEN trusted ELSE ready
    /\ IF switch /\ (refreshDue \/ woke) THEN StartOrWait(ready')
       ELSE UNCHANGED <<dog, lifeVars>>
    /\ wake' = IF switch /\ woke THEN [WakeClosed EXCEPT !.window = "open"]
               ELSE wake
    /\ UNCHANGED <<switch, trusted, tapVars, daemon, disturbances>>

(* recover_after_wake: one re-arm that found a tap, at most one restart. *)
WakeAction ==
    CASE wake.window = "closed" -> "None"
      [] wake.window = "late" -> "Cancel"
      [] wake.window = "open" /\ ~ready -> "None"
      [] wake.window = "open" /\ ready /\ state = "Running" /\ ~wake.rearmed ->
            "Rearm"
      [] wake.window = "open" /\ ready /\ ~wake.restarted
         /\ state \in {"Idle", "WaitingForPermissions", "Stopped", "Failed"} ->
            "Restart"
      [] OTHER -> "None"

Recover ==
    /\ main = "recover"
    /\ main' = "watch"
    /\ LET action == IF switch THEN WakeAction ELSE "None" IN
       \/ action = "None" /\ UNCHANGED <<wake, lifeVars, tapVars>>
       \/ action = "Cancel" /\ wake' = WakeClosed /\ UNCHANGED <<lifeVars, tapVars>>
       \/ /\ action = "Rearm"
          /\ wake' = [wake EXCEPT !.rearmed = port # "none"]
          /\ RearmIfInstalled
          /\ UNCHANGED lifeVars
       \/ /\ action = "Restart"
          /\ wake' = [wake EXCEPT !.rearmed = TRUE, !.restarted = TRUE]
          /\ Spawn
          /\ UNCHANGED tapVars
    /\ UNCHANGED <<inputVars, dog, daemon, disturbances>>

(* poll_watchdog, or disabled() while the switch is off.  The port may be   *)
(* unregistered between the observation and a re-arm.                       *)
Watch ==
    /\ main = "watch"
    /\ \/ /\ ~switch
          /\ Disabled
          /\ main' = "frame"
       \/ /\ switch
          /\ ~ready \/ state \notin {"Running", "Stopped", "Failed"}
          /\ dog' = Suspended(dog)
          /\ main' = "frame"
          /\ UNCHANGED <<wake, lifeVars>>
       \/ /\ switch /\ ready
          /\ state \in {"Running", "Stopped", "Failed"}
          /\ LET seen == Observe(dog, TapEnabledState, state # "Running") IN
             /\ dog' = seen.dog
             /\ main' = IF seen.action = "Rearm" THEN "rearm" ELSE "frame"
             /\ IF seen.action = "Restart" THEN Spawn ELSE UNCHANGED lifeVars
          /\ UNCHANGED wake
    /\ UNCHANGED <<inputVars, tapVars, daemon, disturbances>>

Rearm ==
    /\ main = "rearm"
    /\ main' = "frame"
    /\ RearmIfInstalled
    /\ UNCHANGED <<inputVars, wake, dog, lifeVars, daemon, disturbances>>

(* The end of the tick: the panel is drawn, if the window is visible. *)
Frame ==
    /\ main = "frame"
    /\ main' = "poll"
    /\ \/ switch /\ StartOrWait(ready)
       \/ UNCHANGED <<dog, lifeVars>>
    /\ UNCHANGED <<inputVars, wake, tapVars, daemon, disturbances>>

(* The user flips the switch, in the window or in the menu. *)
Toggle ==
    /\ main = "frame"
    /\ Disturb
    /\ switch' = ~switch
    /\ \/ switch /\ Disabled /\ UNCHANGED ready
       \/ /\ ~switch
          /\ ready' = trusted
          /\ StartOrWait(trusted)
          /\ UNCHANGED wake
    /\ UNCHANGED <<trusted, refreshDue, woke, main, tapVars, daemon>>

(* retry(), from the error label of the panel or after registering the      *)
(* login item.                                                              *)
Retry ==
    /\ main = "frame" /\ switch /\ ready
    /\ Disturb
    /\ \/ /\ dog.exhausted /\ state = "Running"
          /\ RearmIfInstalled
          /\ UNCHANGED lifeVars
       \/ CanRetry /\ Spawn /\ UNCHANGED tapVars
    /\ dog' = FreshDog
    /\ UNCHANGED <<inputVars, main, wake, daemon>>

-------------------------------------------------------------------------------
(* A tap thread: install_and_run_with_ready, then its report.               *)

(* Sending on a channel whose receiver was dropped has no effect. *)
Send(t, event) ==
    events' = IF receiver = t THEN Append(events, event) ELSE events

Advance(t, from, to) ==
    phase[t] = from /\ phase' = [phase EXCEPT ![t] = to]

(* Returning drops the locals from there on, last declared first. *)
Return(t, from, drop, result) ==
    /\ Advance(t, from, drop)
    /\ outcome' = [outcome EXCEPT ![t] = result]

threadRest == <<inputVars, main, state, receiver, wake, dog, daemon, disturbances>>

TryAcquire(t) ==
    /\ \/ /\ lock = "none"
          /\ Advance(t, "new", "locked")
          /\ lock' = t
          /\ UNCHANGED outcome
       \/ /\ lock # "none"
          /\ Return(t, "new", "report", "AlreadyRunning")
          /\ UNCHANGED lock
    /\ UNCHANGED <<threadRest, events, port, live, enabled, signalled>>

(* CGEventTap::new is refused without Accessibility, and may always be. *)
CreateTap(t) ==
    /\ \/ /\ trusted
          /\ Advance(t, "locked", "created")
          /\ live' = live \cup {t}
          /\ UNCHANGED outcome
       \/ Return(t, "locked", "unlock", "Failed") /\ UNCHANGED live
    /\ UNCHANGED <<threadRest, events, lock, port, enabled, signalled>>

(* The run-loop source, the listener and the monitors, then the registry.   *)
(* Only the source and the registry can fail the whole thread.              *)
RegisterPort(t) ==
    /\ \/ /\ port = "none"
          /\ Advance(t, "created", "registered")
          /\ port' = t
          /\ UNCHANGED outcome
       \/ Return(t, "created", "freetap", "Failed") /\ UNCHANGED port
    /\ UNCHANGED <<threadRest, events, lock, live, enabled, signalled>>

EnableAndReport(t) ==
    /\ Advance(t, "registered", "running")
    /\ enabled' = enabled \cup {t}
    /\ Send(t, "Running")
    /\ UNCHANGED <<threadRest, outcome, lock, port, live, signalled>>

(* The callback that tells of a disabled tap re-arms what is registered. *)
RecoverDisabledTap(t) ==
    /\ phase[t] = "running"
    /\ t \in signalled
    /\ signalled' = signalled \ {t}
    /\ \/ port # "none" /\ enabled' = enabled \cup {port}
       \/ UNCHANGED enabled
    /\ UNCHANGED <<threadRest, events, phase, outcome, lock, port, live>>

RunLoopEndsUnguarded(t) ==    \* mutant of RunLoopEnds: the port stays
    /\ Return(t, "running", "freetap", "Stopped")
    /\ UNCHANGED <<threadRest, events, tapVars>>

RunLoopEnds(t) ==
    /\ Return(t, "running", "unregister", "Stopped")
    /\ UNCHANGED <<threadRest, events, tapVars>>

Unregister(t) ==
    /\ Advance(t, "unregister", "freetap")
    /\ port' = IF port = t THEN "none" ELSE port
    /\ UNCHANGED <<threadRest, events, outcome, lock, live, enabled, signalled>>

FreeTapAfterUnlock(t) ==    \* mutant of FreeTap: the lock goes first
    /\ Advance(t, "freetap", "unlock")
    /\ lock' = "none"
    /\ UNCHANGED <<threadRest, events, outcome, port, live, enabled, signalled>>

FreeTap(t) ==
    /\ Advance(t, "freetap", "unlock")
    /\ live' = live \ {t}
    /\ enabled' = enabled \ {t}
    /\ signalled' = signalled \ {t}
    /\ UNCHANGED <<threadRest, events, outcome, lock, port>>

Unlock(t) ==
    /\ Advance(t, "unlock", "report")
    /\ lock' = "none"
    /\ UNCHANGED <<threadRest, events, outcome, port, live, enabled, signalled>>

Report(t) ==
    /\ Return(t, "report", "gone", "none")
    /\ Send(t, outcome[t])
    /\ UNCHANGED <<threadRest, tapVars>>

(* A panic before the run loop unwinds the whole thread without a report. *)
Panic(t) ==
    /\ phase[t] \in {"new", "locked", "created"}
    /\ phase' = [phase EXCEPT ![t] = "gone"]
    /\ live' = live \ {t}
    /\ lock' = IF lock = t THEN "none" ELSE lock
    /\ UNCHANGED <<threadRest, events, outcome, port, enabled, signalled>>

-------------------------------------------------------------------------------
(* The other process, macOS and time.                                       *)

outsideRest == <<inputVars, main, wake, dog, lifeVars>>

DaemonAcquires ==
    /\ daemon = "off" /\ lock = "none"
    /\ Disturb
    /\ daemon' = "locked"
    /\ lock' = "daemon"
    /\ UNCHANGED <<outsideRest, port, live, enabled, signalled>>

DaemonInstalls ==
    /\ daemon = "locked"
    /\ daemon' = "tapped"
    /\ UNCHANGED <<outsideRest, tapVars, disturbances>>

(* It exits, crashes or is killed; its tap and its lock go with it. *)
DaemonExits ==
    /\ daemon # "off"
    /\ daemon' = "off"
    /\ lock' = "none"
    /\ UNCHANGED <<outsideRest, port, live, enabled, signalled, disturbances>>

(* macOS disables a tap, with or without telling its callback. *)
TapDisabled(t) ==
    /\ phase[t] = "running" /\ t \in enabled
    /\ enabled' = enabled \ {t}
    /\ signalled' \in {signalled, signalled \cup {t}}
    /\ UNCHANGED <<outsideRest, lock, port, live, daemon, disturbances>>

PermissionFlips ==
    /\ Disturb
    /\ trusted' = ~trusted
    /\ UNCHANGED <<switch, ready, refreshDue, woke, main, wake, dog, lifeVars,
                   tapVars, daemon>>

DidWake ==
    /\ Disturb
    /\ woke' = TRUE
    /\ UNCHANGED <<switch, trusted, ready, refreshDue, main, wake, dog, lifeVars,
                   tapVars, daemon>>

(* The 30 s backstop passes, or the application becomes active. *)
RefreshComesDue ==
    /\ ~refreshDue
    /\ refreshDue' = TRUE
    /\ UNCHANGED <<switch, trusted, ready, woke, main, wake, dog, lifeVars,
                   tapVars, daemon, disturbances>>

SampleComesDue ==
    /\ ~dog.due
    /\ dog' = [dog EXCEPT !.due = TRUE]
    /\ UNCHANGED <<inputVars, main, wake, lifeVars, tapVars, daemon, disturbances>>

WakeWindowCloses ==
    /\ wake.window = "open"
    /\ wake' = [wake EXCEPT !.window = "late"]
    /\ UNCHANGED <<inputVars, main, dog, lifeVars, tapVars, daemon, disturbances>>

-------------------------------------------------------------------------------
Init ==
    /\ switch \in BOOLEAN
    /\ trusted \in BOOLEAN
    /\ ready = trusted
    /\ refreshDue = FALSE
    /\ woke = FALSE
    /\ main = "load"
    /\ state = "Idle"
    /\ receiver = "none"
    /\ events = <<>>
    /\ wake = WakeClosed
    /\ dog = FreshDog
    /\ phase = [t \in Threads |-> "gone"]
    /\ outcome = [t \in Threads |-> "none"]
    /\ lock = "none"
    /\ port = "none"
    /\ live = {}
    /\ enabled = {}
    /\ signalled = {}
    /\ daemon = "off"
    /\ disturbances = 0

MainStep == Load \/ Poll \/ Refresh \/ Recover \/ Watch \/ Rearm \/ Frame

User == Toggle \/ Retry

ThreadStep(t) ==
    \/ TryAcquire(t) \/ CreateTap(t) \/ RegisterPort(t) \/ EnableAndReport(t)
    \/ RecoverDisabledTap(t) \/ Unregister(t) \/ FreeTap(t) \/ Unlock(t)
    \/ Report(t)

Mishap(t) == RunLoopEnds(t) \/ Panic(t) \/ TapDisabled(t)

Outside == DaemonAcquires \/ DaemonInstalls \/ DaemonExits \/ PermissionFlips \/ DidWake

Clock == RefreshComesDue \/ SampleComesDue \/ WakeWindowCloses

Next ==
    \/ MainStep \/ User \/ Outside \/ Clock
    \/ \E t \in Threads : ThreadStep(t) \/ Mishap(t)

Spec == Init /\ [][Next]_vars

(* The event loop ticks, a spawned thread runs, time passes.  Neither the   *)
(* user nor macOS nor the other process has to do anything.                 *)
Fairness ==
    /\ WF_vars(MainStep)
    /\ WF_vars(RefreshComesDue) /\ WF_vars(SampleComesDue)
    /\ WF_vars(WakeWindowCloses)
    /\ \A t \in Threads : WF_vars(ThreadStep(t))

FairSpec == Spec /\ Fairness

-------------------------------------------------------------------------------
Phases == {"gone", "new", "locked", "created", "registered", "running",
           "unregister", "freetap", "unlock", "report"}
Returning == {"unregister", "freetap", "unlock", "report"}
Outcomes == {"AlreadyRunning", "Stopped", "Failed"}
UnhealthyCounts == 0..UnhealthySamples
HealthyCounts == 0..HealthySamples
Budget == 0..MaxAttempts
Dogs == [due : BOOLEAN, unhealthy : UnhealthyCounts, healthy : HealthyCounts,
         attempts : Budget, exhausted : BOOLEAN]
Wakes == [window : {"closed", "open", "late"}, rearmed : BOOLEAN,
          restarted : BOOLEAN]

(* Every variable has its type; in particular the watchdog never spends     *)
(* more than its budget.                                                    *)
TypeOK ==
    /\ switch \in BOOLEAN /\ trusted \in BOOLEAN /\ ready \in BOOLEAN
    /\ refreshDue \in BOOLEAN /\ woke \in BOOLEAN
    /\ main \in {"load", "poll", "refresh", "recover", "watch", "rearm", "frame"}
    /\ state \in LifecycleStates
    /\ receiver \in Threads \cup {"none"}
    /\ events \in Seq({"Running"} \cup Outcomes)
    /\ wake \in Wakes
    /\ dog \in Dogs
    /\ phase \in [Threads -> Phases]
    /\ outcome \in [Threads -> Outcomes \cup {"none"}]
    /\ \A t \in Threads : phase[t] \in Returning => outcome[t] \in Outcomes
    /\ lock \in Threads \cup {"none", "daemon"}
    /\ port \in Threads \cup {"none"}
    /\ live \subseteq Threads
    /\ enabled \subseteq Threads
    /\ signalled \subseteq Threads
    /\ daemon \in {"off", "locked", "tapped"}
    /\ disturbances \in 0..MaxDisturbances

(* At most one event tap exists on the machine, whichever way it was        *)
(* started and however it ended: two taps would reverse every event twice   *)
(* (daemon_lock.rs:6).                                                      *)
OneTap ==
    /\ \A s, t \in live : s = t
    /\ daemon = "tapped" => live = {}

(* The watchdog, wake recovery and the callback re-arm through the registry *)
(* only: a registered port belongs to a tap that still exists, at whatever  *)
(* point of its teardown the thread is, and no freed tap is ever enabled    *)
(* (event_tap.rs:58).                                                       *)
RegisteredPortAlive == (port # "none" => port \in live) /\ enabled \subseteq live

(* The settings process never has two tap threads, and never loses touch    *)
(* with the one it has: four places may start one, on the word of a channel *)
(* that lags behind and of a switch that may flip while a thread starts     *)
(* (runtime.rs:392).                                                        *)
OneTapThread ==
    \A t \in Threads : phase[t] # "gone" =>
        /\ receiver = t
        /\ \A s \in Threads : phase[s] # "gone" => s = t

(* The main thread is behind the tap thread only until it polls: whatever    *)
(* the thread did since the last poll, run, fail, stop or die without a word,*)
(* and whatever the switch and the permission did to the state meanwhile, a  *)
(* poll leaves Running exactly if a thread is inside its run loop or has yet *)
(* to report its end, and Starting exactly if one is on its way there        *)
(* (runtime.rs:357): no dead tap is taken for a live one, nor one lost.      *)
InLoop(t) == phase[t] = "running" \/ outcome[t] = "Stopped"

PollTellsTruth ==
    [][main = "poll" /\ main' # "poll" =>
        /\ state' = "Running" <=> \E t \in Threads : InLoop(t)
        /\ state' = "Starting" <=>
            \E t \in Threads : phase[t] # "gone" /\ ~InLoop(t)]_vars

ErrorShown == CanRetry \/ dog.exhausted
TapWorks == port # "none" /\ port \in enabled

(* With the switch on and the permission granted for good, the tap works    *)
(* again and again, or the window says that it does not: no failure of      *)
(* macOS or of the thread leaves a dead tap reported as fine for ever.      *)
SwitchOnSettles ==
    (<>[](switch /\ trusted)) => []<>(TapWorks \/ ErrorShown)

(* However often starting the tap fails, automatic restarts come to an end  *)
(* unless a tap recovers for three healthy samples in between               *)
(* (tap_watchdog.rs:77): the suspension of sampling during each start must  *)
(* keep the budget.                                                         *)
RestartsEnd ==
    ([]<>(dog.healthy = HealthySamples)) \/ <>[](state # "Starting")

(* architecture.md:202 and tap_watchdog.rs:77: the attempt budget is reset  *)
(* only by three healthy samples or an explicit retry, and survives a       *)
(* permission flap.  (Switching off, which the documents do not mention,    *)
(* resets it too and is exempted here.)                                     *)
BudgetSurvivesFlap ==
    [][dog'.attempts < dog.attempts =>
        dog'.healthy = HealthySamples \/ Retry \/ ~switch \/ ~switch']_vars
==============================================================================
