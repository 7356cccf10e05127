--------------------------- MODULE TapRuntimeProofs ---------------------------
(***************************************************************************)
(* Theorems about TapRuntime for any set of tap threads, any watchdog      *)
(* limits and any number of disturbances: type correctness, one tap on the *)
(* machine, no registered port without its tap, and one tap thread in the  *)
(* settings process.                                                       *)
(***************************************************************************)
EXTENDS TapRuntime, TLAPS

(* TypeOK by groups of variables: an operation keeps a group's type by what *)
(* it does, the others because it leaves them alone.                        *)
InputType ==
    /\ switch \in BOOLEAN /\ trusted \in BOOLEAN /\ ready \in BOOLEAN
    /\ refreshDue \in BOOLEAN /\ woke \in BOOLEAN
    /\ main \in {"load", "poll", "refresh", "recover", "watch", "rearm", "frame"}
    /\ daemon \in {"off", "locked", "tapped"}
    /\ disturbances \in 0..MaxDisturbances
PolicyType == wake \in Wakes /\ dog \in Dogs
LifeType ==
    /\ state \in LifecycleStates
    /\ receiver \in Threads \cup {"none"}
    /\ events \in Seq({"Running"} \cup Outcomes)
    /\ phase \in [Threads -> Phases]
    /\ outcome \in [Threads -> Outcomes \cup {"none"}]
    /\ \A t \in Threads : phase[t] \in Returning => outcome[t] \in Outcomes
TapType ==
    /\ lock \in Threads \cup {"none", "daemon"}
    /\ port \in Threads \cup {"none"}
    /\ live \subseteq Threads
    /\ enabled \subseteq Threads
    /\ signalled \subseteq Threads

LEMMA TypeParts == TypeOK <=> InputType /\ PolicyType /\ LifeType /\ TapType
  BY DEF TypeOK, InputType, PolicyType, LifeType, TapType
LEMMA TypePartsNext ==
  TypeOK' <=> InputType' /\ PolicyType' /\ LifeType' /\ TapType'
  BY DEF TypeOK, InputType, PolicyType, LifeType, TapType

-------------------------------------------------------------------------------
(* The operations the actions are built from.                               *)

LEMMA Counts ==
  /\ 0 \in UnhealthyCounts /\ 0 \in HealthyCounts /\ 0 \in Budget
  /\ \A n \in UnhealthyCounts : Saturating(n, UnhealthySamples) \in UnhealthyCounts
  /\ \A n \in HealthyCounts : Saturating(n, HealthySamples) \in HealthyCounts
  /\ \A n \in Budget : ~(n >= MaxAttempts) => n + 1 \in Budget
  BY ConstantsAssumption
  DEF ConstantsAssumption, UnhealthyCounts, HealthyCounts, Budget, Saturating

LEMMA FreshDogType == FreshDog \in Dogs
  BY Counts DEF FreshDog, Dogs

LEMMA SuspendedType == ASSUME NEW d \in Dogs PROVE Suspended(d) \in Dogs
  BY Counts DEF Suspended, Dogs

LEMMA AfterHealthyType == ASSUME NEW d \in Dogs PROVE AfterHealthy(d) \in Dogs
<1> DEFINE seen == Saturating(d.healthy, HealthySamples)
           sampled == [d EXCEPT !.due = FALSE, !.unhealthy = 0, !.healthy = seen]
<1>1. seen \in HealthyCounts
  BY Counts DEF Dogs
<1> HIDE DEF seen
<1>2. sampled \in Dogs
  BY <1>1, Counts DEF Dogs
<1> HIDE DEF sampled
<1>3. [sampled EXCEPT !.attempts = 0, !.exhausted = FALSE] \in Dogs
  BY <1>2, Counts DEF Dogs
<1>4. QED
  BY <1>2, <1>3 DEF AfterHealthy, sampled, seen

(* One sample keeps the watchdog within its budget. *)
LEMMA ObserveType ==
  ASSUME NEW d \in Dogs, NEW observed, NEW restartAllowed
  PROVE  Observe(d, observed, restartAllowed).dog \in Dogs
<1> DEFINE unhealthy == Saturating(d.unhealthy, UnhealthySamples)
           bad == [d EXCEPT !.due = FALSE, !.healthy = 0, !.unhealthy = unhealthy]
<1>1. unhealthy \in UnhealthyCounts
  BY Counts DEF Dogs
<1> HIDE DEF unhealthy
<1>2. bad \in Dogs
  BY <1>1, Counts DEF Dogs
<1> HIDE DEF bad
<1>3. [bad EXCEPT !.exhausted = TRUE] \in Dogs
  BY <1>2 DEF Dogs
<1>4. ~BudgetSpent(bad) =>
        [bad EXCEPT !.attempts = bad.attempts + 1, !.unhealthy = 0] \in Dogs
  <2>1. SUFFICES ASSUME ~BudgetSpent(bad)
                 PROVE  [bad EXCEPT !.attempts = bad.attempts + 1,
                                    !.unhealthy = 0] \in Dogs
    OBVIOUS
  <2>2. bad.attempts + 1 \in Budget
    BY <1>2, <2>1, Counts DEF Dogs, BudgetSpent
  <2>3. QED
    BY <1>2, <2>2, Counts DEF Dogs
<1>5. QED
  BY <1>2, <1>3, <1>4, AfterHealthyType DEF Observe, bad, unhealthy

LEMMA WakeClosedType == WakeClosed \in Wakes
  BY DEF WakeClosed, Wakes

LEMMA SpawnType == ASSUME LifeType, Spawn PROVE LifeType'
  BY DEF LifeType, Spawn, LifecycleStates, Phases, Returning

LEMMA LifeUnchanged == ASSUME LifeType, UNCHANGED lifeVars PROVE LifeType'
  BY DEF LifeType, lifeVars

LEMMA TapUnchanged == ASSUME TapType, UNCHANGED tapVars PROVE TapType'
  BY DEF TapType, tapVars

LEMMA StartIfReadyType ==
  ASSUME LifeType, dog \in Dogs, StartIfReady PROVE LifeType' /\ dog' \in Dogs
  BY SpawnType, FreshDogType, LifeUnchanged DEF StartIfReady

LEMMA StartOrWaitType ==
  ASSUME LifeType, dog \in Dogs, NEW permitted, StartOrWait(permitted)
  PROVE  LifeType' /\ dog' \in Dogs
<1>1. CASE permitted
  BY <1>1, StartIfReadyType DEF StartOrWait
<1>2. CASE ~permitted
  BY <1>2, SuspendedType DEF StartOrWait, WaitForPermissions, LifeType, LifecycleStates
<1>3. QED BY <1>1, <1>2

LEMMA DisabledType ==
  ASSUME LifeType, Disabled PROVE LifeType' /\ dog' \in Dogs /\ wake' \in Wakes
<1>1. CASE state \in {"Starting", "Running"}
  BY <1>1, FreshDogType, WakeClosedType, LifeUnchanged DEF Disabled
<1>2. CASE state \notin {"Starting", "Running"}
  <2>1. state' \in LifecycleStates /\ receiver' \in Threads \cup {"none"}
    BY <1>2 DEF Disabled, LifecycleStates
  <2>2. events' \in Seq({"Running"} \cup Outcomes)
    BY <1>2 DEF Disabled
  <2>3. QED
    BY <1>2, <2>1, <2>2, FreshDogType, WakeClosedType DEF Disabled, LifeType
<1>3. QED BY <1>1, <1>2

LEMMA PollEventsType == ASSUME LifeType, PollEvents PROVE LifeType'
<1>1. LastEvent \in LifecycleStates
  BY DEF LastEvent, LifeType, LifecycleStates, Outcomes
<1>2. QED
  BY <1>1 DEF PollEvents, LifeType, LifecycleStates

LEMMA RearmType == ASSUME TapType, RearmIfInstalled PROVE TapType'
  BY DEF TapType, RearmIfInstalled

-------------------------------------------------------------------------------
(* Type correctness: no action takes a variable out of its type, and the    *)
(* watchdog never exceeds its budget, whatever the other actors do.         *)
THEOREM TypeCorrect == Spec => []TypeOK
<1>1. Init => TypeOK
  <2> SUFFICES ASSUME Init PROVE TypeOK
    OBVIOUS
  <2>1. InputType /\ PolicyType
    <3>1. switch \in BOOLEAN /\ trusted \in BOOLEAN /\ ready \in BOOLEAN
          /\ refreshDue \in BOOLEAN /\ woke \in BOOLEAN
      BY DEF Init
    <3>2. disturbances \in 0..MaxDisturbances
      BY ConstantsAssumption DEF Init, ConstantsAssumption
    <3>3. QED
      BY <3>1, <3>2, FreshDogType, WakeClosedType DEF Init, InputType, PolicyType
  <2>2. state \in LifecycleStates /\ receiver \in Threads \cup {"none"}
        /\ events \in Seq({"Running"} \cup Outcomes)
    BY DEF Init, LifecycleStates
  <2>3. LifeType
    BY <2>2 DEF Init, LifeType, Phases, Returning
  <2>4. TapType
    BY DEF Init, TapType
  <2>5. QED BY <2>1, <2>3, <2>4, TypeParts
<1>2. TypeOK /\ [Next]_vars => TypeOK'
  <2> SUFFICES ASSUME TypeOK, [Next]_vars PROVE TypeOK'
    OBVIOUS
  <2>0. InputType /\ PolicyType /\ LifeType /\ TapType
    BY TypeParts
  <2> SUFFICES InputType' /\ PolicyType' /\ LifeType' /\ TapType'
    BY TypePartsNext
  <2>1. CASE Load
    BY <2>0, <2>1, StartOrWaitType, LifeUnchanged, TapUnchanged
    DEF Load, InputType, PolicyType, inputVars
  <2>2. CASE Poll
    BY <2>0, <2>2, PollEventsType, TapUnchanged
    DEF Poll, InputType, PolicyType, inputVars
  <2>3. CASE Refresh
    <3>1. LifeType' /\ dog' \in Dogs
      BY <2>0, <2>3, StartOrWaitType, LifeUnchanged DEF Refresh, PolicyType
    <3>2. wake' \in Wakes
      BY <2>0, <2>3, WakeClosedType DEF Refresh, PolicyType, Wakes, WakeClosed
    <3>3. InputType'
      BY <2>0, <2>3 DEF Refresh, InputType
    <3>4. QED
      BY <2>0, <2>3, <3>1, <3>2, <3>3, TapUnchanged DEF Refresh, PolicyType
  <2>4. CASE Recover
    <3>1. LifeType'
      BY <2>0, <2>4, SpawnType, LifeUnchanged DEF Recover
    <3>2. TapType'
      BY <2>0, <2>4, RearmType, TapUnchanged DEF Recover
    <3>3. wake' \in Wakes
      BY <2>0, <2>4, WakeClosedType DEF Recover, PolicyType, Wakes
    <3>4. QED
      BY <2>0, <2>4, <3>1, <3>2, <3>3 DEF Recover, PolicyType, InputType, inputVars
  <2>5. CASE Watch
    <3>1. LifeType' /\ PolicyType'
      <4>1. CASE ~switch
        BY <2>0, <2>5, <4>1, DisabledType DEF Watch, PolicyType
      <4>2. CASE switch
        BY <2>0, <2>5, <4>2, SuspendedType, ObserveType, SpawnType, LifeUnchanged
        DEF Watch, PolicyType
      <4>3. QED BY <2>0, <4>1, <4>2 DEF InputType
    <3>2. InputType' /\ TapType'
      BY <2>0, <2>5, TapUnchanged DEF Watch, InputType, inputVars
    <3>3. QED BY <3>1, <3>2
  <2>6. CASE Rearm
    BY <2>0, <2>6, RearmType, LifeUnchanged
    DEF Rearm, InputType, PolicyType, inputVars
  <2>7. CASE Frame
    BY <2>0, <2>7, StartOrWaitType, LifeUnchanged, TapUnchanged
    DEF Frame, InputType, PolicyType, inputVars
  <2>8. CASE Toggle
    <3>1. LifeType' /\ PolicyType'
      BY <2>0, <2>8, DisabledType, StartOrWaitType DEF Toggle, PolicyType
    <3>2. InputType' /\ TapType'
      BY <2>0, <2>8, TapUnchanged, ConstantsAssumption
      DEF Toggle, Disturb, InputType, ConstantsAssumption
    <3>3. QED BY <3>1, <3>2
  <2>9. CASE Retry
    <3>1. LifeType' /\ TapType'
      BY <2>0, <2>9, SpawnType, RearmType, LifeUnchanged, TapUnchanged DEF Retry
    <3>2. InputType' /\ PolicyType'
      BY <2>0, <2>9, FreshDogType, ConstantsAssumption
      DEF Retry, Disturb, InputType, PolicyType, inputVars, ConstantsAssumption
    <3>3. QED BY <3>1, <3>2
  <2>10. CASE Outside
    <3>1. InputType'
      <4>1. disturbances' \in 0..MaxDisturbances
        BY <2>0, <2>10, ConstantsAssumption
        DEF Outside, DaemonAcquires, DaemonInstalls, DaemonExits,
            PermissionFlips, DidWake, Disturb, InputType, ConstantsAssumption
      <4>2. daemon' \in {"off", "locked", "tapped"} /\ main' = main
        BY <2>0, <2>10
        DEF Outside, DaemonAcquires, DaemonInstalls, DaemonExits,
            PermissionFlips, DidWake, outsideRest, InputType
      <4>3. trusted' \in BOOLEAN /\ woke' \in BOOLEAN
            /\ UNCHANGED <<switch, ready, refreshDue>>
        BY <2>0, <2>10
        DEF Outside, DaemonAcquires, DaemonInstalls, DaemonExits,
            PermissionFlips, DidWake, outsideRest, inputVars, InputType
      <4>4. QED BY <2>0, <4>1, <4>2, <4>3 DEF InputType
    <3>2. PolicyType' /\ LifeType'
      BY <2>0, <2>10, LifeUnchanged
      DEF Outside, DaemonAcquires, DaemonInstalls, DaemonExits, PermissionFlips,
          DidWake, outsideRest, PolicyType
    <3>3. TapType'
      BY <2>0, <2>10
      DEF Outside, DaemonAcquires, DaemonInstalls, DaemonExits, PermissionFlips,
          DidWake, TapType, tapVars
    <3>4. QED BY <3>1, <3>2, <3>3
  <2>11. CASE Clock
    <3>1. [dog EXCEPT !.due = TRUE] \in Dogs /\ [wake EXCEPT !.window = "late"] \in Wakes
      BY <2>0 DEF PolicyType, Dogs, Wakes
    <3>2. PolicyType'
      BY <2>0, <2>11, <3>1
      DEF Clock, RefreshComesDue, SampleComesDue, WakeWindowCloses, PolicyType
    <3>3. LifeType' /\ TapType'
      BY <2>0, <2>11, LifeUnchanged, TapUnchanged
      DEF Clock, RefreshComesDue, SampleComesDue, WakeWindowCloses
    <3>4. InputType'
      BY <2>0, <2>11
      DEF Clock, RefreshComesDue, SampleComesDue, WakeWindowCloses, inputVars,
          InputType
    <3>5. QED BY <3>2, <3>3, <3>4
  <2>12. ASSUME NEW t \in Threads, ThreadStep(t) \/ Mishap(t)
         PROVE  InputType' /\ PolicyType' /\ LifeType' /\ TapType'
    <3>1. InputType' /\ PolicyType' /\ state' = state /\ receiver' = receiver
      BY <2>0, <2>12
      DEF ThreadStep, Mishap, TryAcquire, CreateTap, RegisterPort,
          EnableAndReport, RecoverDisabledTap, Unregister, FreeTap, Unlock,
          Report, RunLoopEnds, Panic, TapDisabled, threadRest, outsideRest,
          inputVars, lifeVars, InputType, PolicyType
    <3>2. /\ phase' \in [Threads -> Phases]
          /\ outcome' \in [Threads -> Outcomes \cup {"none"}]
          /\ \A u \in Threads : phase'[u] \in Returning => outcome'[u] \in Outcomes
      BY <2>0, <2>12
      DEF ThreadStep, Mishap, TryAcquire, CreateTap, RegisterPort,
          EnableAndReport, RecoverDisabledTap, Unregister, FreeTap, Unlock,
          Report, RunLoopEnds, Panic, TapDisabled, outsideRest, lifeVars,
          Advance, Return, LifeType, Phases, Returning, Outcomes
    <3>3. TapType'
      BY <2>0, <2>12
      DEF ThreadStep, Mishap, TryAcquire, CreateTap, RegisterPort,
          EnableAndReport, RecoverDisabledTap, Unregister, FreeTap, Unlock,
          Report, RunLoopEnds, Panic, TapDisabled, TapType, tapVars
    <3>4. events' \in Seq({"Running"} \cup Outcomes)
      <4>1. CASE Report(t)
        BY <2>0, <4>1 DEF Report, Return, Advance, Send, LifeType, Returning
      <4>2. CASE EnableAndReport(t)
        BY <2>0, <4>2 DEF EnableAndReport, Send, LifeType
      <4>3. CASE ~Report(t) /\ ~EnableAndReport(t)
        BY <2>0, <2>12, <4>3
        DEF ThreadStep, Mishap, TryAcquire, CreateTap, RegisterPort,
            RecoverDisabledTap, Unregister, FreeTap, Unlock, RunLoopEnds, Panic,
            TapDisabled, outsideRest, lifeVars, LifeType
      <4>4. QED BY <4>1, <4>2, <4>3
    <3>5. QED BY <2>0, <3>1, <3>2, <3>3, <3>4 DEF LifeType
  <2>13. CASE UNCHANGED vars
    BY <2>0, <2>13, LifeUnchanged, TapUnchanged
    DEF vars, inputVars, InputType, PolicyType
  <2>14. QED
    BY <2>1, <2>2, <2>3, <2>4, <2>5, <2>6, <2>7, <2>8, <2>9, <2>10, <2>11, <2>12,
       <2>13
    DEF Next, MainStep, User
<1>3. QED BY <1>1, <1>2, PTL DEF Spec

-------------------------------------------------------------------------------
(* Ownership: how far a thread is decides whether it holds run.lock, whether *)
(* its tap exists and whether its port is registered.                       *)

Holding == {"locked", "created", "registered", "running", "unregister",
            "freetap", "unlock"}
Tapping == {"created", "registered", "running", "unregister", "freetap"}
Registered == {"registered", "running", "unregister"}

Ownership ==
    /\ \A t \in Threads : phase[t] \in Holding <=> lock = t
    /\ daemon # "off" <=> lock = "daemon"
    /\ \A t \in Threads : t \in live <=> phase[t] \in Tapping
    /\ \A t \in Threads : port = t <=> phase[t] \in Registered
    /\ \A t \in enabled : phase[t] \in Registered \cup {"freetap"}

LEMMA OwnershipSuffices ==
  ASSUME TypeOK, Ownership PROVE OneTap /\ RegisteredPortAlive
<1>1. OneTap
  BY ConstantsAssumption
  DEF ConstantsAssumption, OneTap, Ownership, TypeOK, Holding, Tapping
<1>2. RegisteredPortAlive
  BY DEF RegisteredPortAlive, Ownership, TypeOK, Registered, Tapping
<1>3. QED BY <1>1, <1>2

(* The main thread, the user and time touch a tap only by re-arming what is *)
(* registered, and a thread only by spawning it.                            *)
LEMMA OwnershipKept ==
  ASSUME TypeOK, Ownership,
         UNCHANGED <<lock, port, live, daemon>>,
         enabled' = enabled \/ (port # "none" /\ enabled' = enabled \cup {port}),
         phase' = phase \/ Spawn
  PROVE  Ownership'
<1>1. \A t \in Threads : phase'[t] = phase[t]
                          \/ (phase[t] = "gone" /\ phase'[t] = "new")
  BY DEF Spawn, TypeOK
<1>2. \A t \in enabled' : phase[t] \in Registered \cup {"freetap"}
  BY DEF Ownership, TypeOK
<1>3. \A t \in enabled' : phase'[t] \in Registered \cup {"freetap"}
  BY <1>1, <1>2 DEF TypeOK, Registered
<1>4. QED
  BY <1>1, <1>3 DEF Ownership, Holding, Tapping, Registered

LEMMA OwnershipStep ==
  ASSUME TypeOK, Ownership, [Next]_vars PROVE Ownership'
<1>1. CASE MainStep
  <2> USE DEF tapVars, lifeVars, RearmIfInstalled
  <2>1. CASE Load
    BY <2>1, OwnershipKept DEF Load, StartOrWait, StartIfReady, WaitForPermissions
  <2>2. CASE Poll
    BY <2>2, OwnershipKept DEF Poll, PollEvents
  <2>3. CASE Refresh
    BY <2>3, OwnershipKept DEF Refresh, StartOrWait, StartIfReady, WaitForPermissions
  <2>4. CASE Recover
    BY <2>4, OwnershipKept DEF Recover
  <2>5. CASE Watch
    BY <2>5, OwnershipKept DEF Watch, Disabled
  <2>6. CASE Rearm
    BY <2>6, OwnershipKept DEF Rearm
  <2>7. CASE Frame
    BY <2>7, OwnershipKept DEF Frame, StartOrWait, StartIfReady, WaitForPermissions
  <2>8. QED BY <1>1, <2>1, <2>2, <2>3, <2>4, <2>5, <2>6, <2>7 DEF MainStep
<1>2. CASE User
  BY <1>2, OwnershipKept
  DEF User, Toggle, Retry, Disabled, StartOrWait, StartIfReady,
      WaitForPermissions, RearmIfInstalled, tapVars, lifeVars
<1>3. CASE Clock
  BY <1>3, OwnershipKept
  DEF Clock, RefreshComesDue, SampleComesDue, WakeWindowCloses, tapVars, lifeVars
<1>4. CASE Outside
  BY <1>4, ConstantsAssumption
  DEF Outside, DaemonAcquires, DaemonInstalls, DaemonExits, PermissionFlips,
      DidWake, outsideRest, tapVars, lifeVars, Ownership, TypeOK,
      ConstantsAssumption, Holding, Tapping, Registered
<1>5. ASSUME NEW t \in Threads, ThreadStep(t) \/ Mishap(t) PROVE Ownership'
  <2> USE ConstantsAssumption
      DEF ConstantsAssumption, Ownership, TypeOK, Advance, Return, Holding,
          Tapping, Registered, threadRest, tapVars
  <2>1. CASE TryAcquire(t) BY <2>1 DEF TryAcquire
  <2>2. CASE CreateTap(t) BY <2>2 DEF CreateTap
  <2>3. CASE RegisterPort(t) BY <2>3 DEF RegisterPort
  <2>4. CASE EnableAndReport(t) BY <2>4 DEF EnableAndReport
  <2>5. CASE RecoverDisabledTap(t) BY <2>5, OwnershipKept DEF RecoverDisabledTap
  <2>6. CASE Unregister(t) BY <2>6 DEF Unregister
  <2>7. CASE FreeTap(t) BY <2>7 DEF FreeTap
  <2>8. CASE Unlock(t) BY <2>8 DEF Unlock
  <2>9. CASE Report(t) BY <2>9 DEF Report
  <2>10. CASE RunLoopEnds(t) BY <2>10 DEF RunLoopEnds
  <2>11. CASE Panic(t) BY <2>11 DEF Panic
  <2>12. CASE TapDisabled(t) BY <2>12 DEF TapDisabled, outsideRest, lifeVars
  <2>13. QED
    BY <1>5, <2>1, <2>2, <2>3, <2>4, <2>5, <2>6, <2>7, <2>8, <2>9, <2>10, <2>11,
       <2>12
    DEF ThreadStep, Mishap
<1>6. CASE UNCHANGED vars
  BY <1>6, OwnershipKept DEF vars, tapVars, lifeVars
<1>7. QED
  BY <1>1, <1>2, <1>3, <1>4, <1>5, <1>6 DEF Next

LEMMA OwnershipHolds == Spec => []Ownership
<1>1. Init => Ownership
  BY ConstantsAssumption
  DEF ConstantsAssumption, Init, Ownership, Holding, Tapping, Registered
<1>2. TypeOK /\ Ownership /\ [Next]_vars => Ownership'
  BY OwnershipStep
<1>3. QED BY <1>1, <1>2, TypeCorrect, PTL DEF Spec

(* Two event taps never exist at once, on this machine: whichever process   *)
(* starts, stops or crashes when, run.lock is held from before a tap is     *)
(* created until after it is freed (daemon_lock.rs:6, event_tap.rs:179).    *)
THEOREM AtMostOneTap == Spec => []OneTap
<1>1. TypeOK /\ Ownership => OneTap
  BY OwnershipSuffices
<1>2. QED BY <1>1, OwnershipHolds, TypeCorrect, PTL

(* What is registered can be re-armed at any moment without touching a tap  *)
(* that was freed (event_tap.rs:58).                                        *)
THEOREM PortsStayAlive == Spec => []RegisteredPortAlive
<1>1. TypeOK /\ Ownership => RegisteredPortAlive
  BY OwnershipSuffices
<1>2. QED BY <1>1, OwnershipHolds, TypeCorrect, PTL

-------------------------------------------------------------------------------
(* The lifecycle state tells the truth about the thread: while one exists    *)
(* its channel is the one being read, nothing but Started is waiting in it, *)
(* and the state is one from which nobody spawns.                           *)
Attended ==
    \A t \in Threads : phase[t] # "gone" =>
        /\ receiver = t
        /\ state \in {"Starting", "Running"}
        /\ \A i \in 1..Len(events) : events[i] = "Running"

LEMMA AttendedSuffices == ASSUME Attended PROVE OneTapThread
  BY DEF Attended, OneTapThread

LEMMA SpawnAttended ==
  ASSUME TypeOK, Attended, Spawn, state \notin {"Starting", "Running"}
  PROVE  Attended'
<1>1. PICK t \in Threads : /\ phase' = [phase EXCEPT ![t] = "new"]
                           /\ state' = "Starting" /\ receiver' = t /\ events' = <<>>
  BY DEF Spawn
<1>2. \A s \in Threads : phase[s] = "gone"
  BY DEF Attended
<1>3. Len(events') = 0
  BY <1>1
<1>4. QED
  BY <1>1, <1>2, <1>3 DEF Attended, TypeOK

LEMMA LifeUnchangedAttended == ASSUME Attended, UNCHANGED lifeVars PROVE Attended'
  BY DEF Attended, lifeVars

LEMMA StartOrWaitAttended ==
  ASSUME TypeOK, Attended, NEW permitted, StartOrWait(permitted) PROVE Attended'
<1>1. CASE permitted
  BY <1>1, SpawnAttended, LifeUnchangedAttended
  DEF StartOrWait, StartIfReady, CanStartAutomatically
<1>2. CASE ~permitted
  BY <1>2 DEF StartOrWait, WaitForPermissions, Attended
<1>3. QED BY <1>1, <1>2

LEMMA DisabledAttended == ASSUME TypeOK, Attended, Disabled PROVE Attended'
<1>1. CASE state \in {"Starting", "Running"}
  BY <1>1, LifeUnchangedAttended DEF Disabled
<1>2. CASE state \notin {"Starting", "Running"}
  BY <1>2 DEF Disabled, Attended
<1>3. QED BY <1>1, <1>2

LEMMA PollAttended == ASSUME TypeOK, Attended, PollEvents PROVE Attended'
<1> SUFFICES ASSUME NEW t \in Threads, phase'[t] # "gone"
             PROVE  /\ receiver' = t
                    /\ state' \in {"Starting", "Running"}
                    /\ \A i \in 1..Len(events') : events'[i] = "Running"
  BY DEF Attended
<1>1. phase[t] # "gone" /\ events' = <<>>
  BY DEF PollEvents
<1>2. receiver = t /\ state \in {"Starting", "Running"}
  BY <1>1 DEF Attended
<1>3. LastEvent \in {"Starting", "Running"}
  <2>1. CASE events = <<>>
    BY <1>2, <2>1 DEF LastEvent
  <2>2. CASE events # <<>>
    <3>1. Len(events) \in 1..Len(events)
      BY <2>2 DEF TypeOK
    <3>2. QED BY <1>1, <2>2, <3>1 DEF LastEvent, Attended
  <2>3. QED BY <2>1, <2>2
<1>4. QED
  BY <1>1, <1>2, <1>3 DEF PollEvents

LEMMA ThreadAttended ==
  ASSUME TypeOK, Attended, NEW t \in Threads, ThreadStep(t) \/ Mishap(t)
  PROVE  Attended'
<1> USE DEF threadRest, tapVars
<1>1. CASE EnableAndReport(t)
  <2>1. phase[t] # "gone" /\ events' = Append(events, "Running")
        /\ UNCHANGED <<state, receiver>>
    BY <1>1 DEF EnableAndReport, Advance, Send, Attended
  <2>2. \A i \in 1..Len(events') : events'[i] = "Running"
    BY <2>1 DEF Attended, TypeOK
  <2>3. QED
    BY <1>1, <2>1, <2>2 DEF EnableAndReport, Advance, Attended, TypeOK
<1>2. CASE Report(t)
  <2>1. \A s \in Threads : phase'[s] = "gone"
    BY <1>2 DEF Report, Return, Advance, Attended, TypeOK
  <2>2. QED BY <2>1 DEF Attended
<1>3. CASE ~EnableAndReport(t) /\ ~Report(t)
  <2>1. UNCHANGED <<state, receiver, events>>
    BY <1>3
    DEF ThreadStep, Mishap, TryAcquire, CreateTap, RegisterPort,
        RecoverDisabledTap, Unregister, FreeTap, Unlock, RunLoopEnds, Panic,
        TapDisabled, outsideRest, lifeVars
  <2>2. \A s \in Threads : phase'[s] # "gone" => phase[s] # "gone"
    BY <1>3
    DEF ThreadStep, Mishap, TryAcquire, CreateTap, RegisterPort,
        RecoverDisabledTap, Unregister, FreeTap, Unlock, RunLoopEnds, Panic,
        TapDisabled, outsideRest, lifeVars, Advance, Return, TypeOK
  <2>3. QED BY <2>1, <2>2 DEF Attended
<1>4. QED BY <1>1, <1>2, <1>3

LEMMA AttendedStep == ASSUME TypeOK, Attended, [Next]_vars PROVE Attended'
<1>1. CASE Load
  BY <1>1, StartOrWaitAttended, LifeUnchangedAttended DEF Load
<1>2. CASE Poll
  BY <1>2, PollAttended DEF Poll
<1>3. CASE Refresh
  BY <1>3, StartOrWaitAttended, LifeUnchangedAttended DEF Refresh
<1>4. CASE Recover
  BY <1>4, SpawnAttended, LifeUnchangedAttended DEF Recover, WakeAction
<1>5. CASE Watch
  <2>1. CASE ~switch
    BY <1>5, <2>1, DisabledAttended DEF Watch
  <2>2. CASE switch /\ state = "Running"
    <3>1. Observe(dog, TapEnabledState, FALSE).action # "Restart"
      BY DEF Observe, Remedy
    <3>2. QED
      BY <1>5, <2>2, <3>1, LifeUnchangedAttended DEF Watch
  <2>3. CASE switch /\ state # "Running"
    BY <1>5, <2>3, SpawnAttended, LifeUnchangedAttended DEF Watch
  <2>4. QED BY <2>1, <2>2, <2>3 DEF TypeOK
<1>6. CASE Rearm
  BY <1>6, LifeUnchangedAttended DEF Rearm
<1>7. CASE Frame
  BY <1>7, StartOrWaitAttended, LifeUnchangedAttended DEF Frame
<1>8. CASE Toggle
  BY <1>8, DisabledAttended, StartOrWaitAttended DEF Toggle
<1>9. CASE Retry
  BY <1>9, SpawnAttended, LifeUnchangedAttended DEF Retry, CanRetry
<1>10. CASE Outside \/ Clock \/ UNCHANGED vars
  BY <1>10, LifeUnchangedAttended
  DEF Outside, DaemonAcquires, DaemonInstalls, DaemonExits, PermissionFlips,
      DidWake, Clock, RefreshComesDue, SampleComesDue, WakeWindowCloses,
      outsideRest, vars
<1>11. QED
  BY <1>1, <1>2, <1>3, <1>4, <1>5, <1>6, <1>7, <1>8, <1>9, <1>10, ThreadAttended
  DEF Next, MainStep, User

(* The settings process never has two tap threads, nor one whose reports it *)
(* no longer reads (runtime.rs:392).                                        *)
THEOREM OneThreadAttended == Spec => []OneTapThread
<1>1. Init => Attended
  BY DEF Init, Attended
<1>2. TypeOK /\ Attended /\ [Next]_vars => Attended'
  BY AttendedStep
<1>3. Attended => OneTapThread
  BY AttendedSuffices
<1>4. QED BY <1>1, <1>2, <1>3, TypeCorrect, PTL DEF Spec

-------------------------------------------------------------------------------
(* What the channel still holds: a thread inside its run loop has said so,   *)
(* one on its way there nothing, one that is gone has said so or hung up.    *)
Unspoken == \A t \in Threads : outcome[t] # "none" => phase[t] \in Returning

Heard ==
    /\ \A t \in Threads : phase[t] # "gone" =>
        IF InLoop(t) THEN LastEvent = "Running" ELSE state = "Starting" /\ events = <<>>
    /\ (\A t \in Threads : phase[t] = "gone") =>
        \/ LastEvent \notin {"Starting", "Running"}
        \/ LastEvent = "Starting" /\ receiver # "none"

HInv == TypeOK /\ Attended /\ Unspoken /\ Heard

LEMMA UnspokenStep == ASSUME TypeOK, Unspoken, [Next]_vars PROVE Unspoken'
<1>1. CASE MainStep \/ User
  <2>1. /\ UNCHANGED outcome
        /\ UNCHANGED phase \/ Spawn
    BY <1>1
    DEF MainStep, User, Load, Poll, Refresh, Recover, Watch, Rearm, Frame, Toggle, Retry,
        StartOrWait, StartIfReady, WaitForPermissions, Disabled, PollEvents, Spawn, lifeVars
  <2>2. \A t \in Threads : phase[t] \in Returning => phase'[t] = phase[t]
    BY <2>1 DEF Spawn, Returning, TypeOK
  <2>3. QED BY <2>1, <2>2 DEF Unspoken
<1>2. CASE Outside \/ Clock \/ UNCHANGED vars
  BY <1>2
  DEF Outside, DaemonAcquires, DaemonInstalls, DaemonExits, PermissionFlips, DidWake,
      Clock, RefreshComesDue, SampleComesDue, WakeWindowCloses, outsideRest, vars,
      lifeVars, Unspoken
<1>3. ASSUME NEW t \in Threads, ThreadStep(t) \/ Mishap(t) PROVE Unspoken'
  <2> USE DEF Unspoken, TypeOK, Advance, Return, Returning, Outcomes
  <2>1. CASE TryAcquire(t) BY <2>1 DEF TryAcquire
  <2>2. CASE CreateTap(t) BY <2>2 DEF CreateTap
  <2>3. CASE RegisterPort(t) BY <2>3 DEF RegisterPort
  <2>4. CASE EnableAndReport(t) BY <2>4 DEF EnableAndReport
  <2>5. CASE RecoverDisabledTap(t) BY <2>5 DEF RecoverDisabledTap
  <2>6. CASE Unregister(t) BY <2>6 DEF Unregister
  <2>7. CASE FreeTap(t) BY <2>7 DEF FreeTap
  <2>8. CASE Unlock(t) BY <2>8 DEF Unlock
  <2>9. CASE Report(t) BY <2>9 DEF Report
  <2>10. CASE RunLoopEnds(t) BY <2>10 DEF RunLoopEnds
  <2>11. CASE Panic(t) BY <2>11 DEF Panic
  <2>12. CASE TapDisabled(t) BY <2>12 DEF TapDisabled, outsideRest, lifeVars
  <2>13. QED
    BY <1>3, <2>1, <2>2, <2>3, <2>4, <2>5, <2>6, <2>7, <2>8, <2>9, <2>10, <2>11, <2>12
    DEF ThreadStep, Mishap
<1>4. QED BY <1>1, <1>2, <1>3 DEF Next

LEMMA HeardUnchanged == ASSUME Heard, UNCHANGED lifeVars PROVE Heard'
  BY DEF Heard, LastEvent, InLoop, lifeVars

(* A new thread has a channel of its own and has said nothing. *)
LEMMA SpawnHeard ==
  ASSUME HInv, Spawn, state \notin {"Starting", "Running"} PROVE Heard'
<1>1. PICK t \in Threads : /\ phase[t] = "gone" /\ phase' = [phase EXCEPT ![t] = "new"]
                           /\ state' = "Starting" /\ receiver' = t /\ events' = <<>>
                           /\ UNCHANGED outcome
  BY DEF Spawn
<1>2. \A s \in Threads : phase[s] = "gone" /\ outcome[s] = "none"
  BY DEF HInv, Attended, Unspoken, Returning
<1>3. \A s \in Threads : s # t => phase'[s] = "gone"
  BY <1>1, <1>2 DEF HInv, TypeOK
<1>4. phase'[t] = "new" /\ outcome'[t] = "none"
  BY <1>1, <1>2 DEF HInv, TypeOK
<1>5. QED
  BY <1>1, <1>3, <1>4 DEF Heard, InLoop

LEMMA WaitHeard == ASSUME HInv, WaitForPermissions PROVE Heard'
<1>1. CASE state \in {"Starting", "Running"}
  BY <1>1, HeardUnchanged DEF WaitForPermissions, HInv, lifeVars
<1>2. CASE state \notin {"Starting", "Running"}
  <2>1. /\ \A t \in Threads : phase[t] = "gone"
        /\ state' = "WaitingForPermissions" /\ UNCHANGED <<events, phase>>
    BY <1>2 DEF HInv, Attended, WaitForPermissions
  <2>2. LastEvent' \notin {"Starting", "Running"}
    <3>1. CASE events = <<>>
      BY <2>1, <3>1 DEF LastEvent
    <3>2. CASE events # <<>>
      <4>1. Len(events) \in 1..Len(events)
        BY <3>2 DEF HInv, TypeOK
      <4>2. LastEvent # "Starting" /\ LastEvent' = LastEvent
        BY <2>1, <3>2, <4>1 DEF HInv, TypeOK, LastEvent, Outcomes
      <4>3. QED BY <2>1, <4>2 DEF HInv, Heard
    <3>3. QED BY <3>1, <3>2
  <2>3. QED BY <2>1, <2>2 DEF Heard
<1>3. QED BY <1>1, <1>2

LEMMA StartOrWaitHeard ==
  ASSUME HInv, NEW permitted, StartOrWait(permitted) PROVE Heard'
<1>1. CASE permitted
  BY <1>1, SpawnHeard, HeardUnchanged
  DEF StartOrWait, StartIfReady, CanStartAutomatically, HInv
<1>2. CASE ~permitted
  BY <1>2, WaitHeard DEF StartOrWait
<1>3. QED BY <1>1, <1>2

LEMMA DisabledHeard == ASSUME HInv, Disabled PROVE Heard'
<1>1. CASE state \in {"Starting", "Running"}
  BY <1>1, HeardUnchanged DEF Disabled, HInv
<1>2. CASE state \notin {"Starting", "Running"}
  BY <1>2 DEF Disabled, HInv, Attended, Heard, LastEvent
<1>3. QED BY <1>1, <1>2

(* What a poll leaves is true, and stays all there is to know. *)
LEMMA PollIsTrue ==
  ASSUME HInv, PollEvents
  PROVE  /\ Heard'
         /\ state' = "Running" <=> \E t \in Threads : InLoop(t)
         /\ state' = "Starting" <=> \E t \in Threads : phase[t] # "gone" /\ ~InLoop(t)
<1>0. events' = <<>> /\ UNCHANGED <<phase, outcome>> /\ LastEvent' = state'
  BY DEF PollEvents, LastEvent
<1>1. \A t \in Threads : InLoop(t) => phase[t] # "gone"
  BY DEF HInv, Unspoken, InLoop, Returning
<1>2. ASSUME NEW t \in Threads, phase[t] # "gone"
      PROVE  /\ Heard'
             /\ state' = "Running" <=> \E s \in Threads : InLoop(s)
             /\ state' = "Starting" <=> \E s \in Threads : phase[s] # "gone" /\ ~InLoop(s)
  <2>1. \A s \in Threads : phase[s] # "gone" => s = t
    BY <1>2 DEF HInv, Attended
  <2>2. receiver = t /\ state' = LastEvent
    BY <1>2 DEF HInv, Attended, PollEvents
  <2>3. LastEvent = IF InLoop(t) THEN "Running" ELSE "Starting"
    BY <1>2 DEF HInv, Heard, LastEvent
  <2>4. Heard'
    BY <1>0, <1>2, <2>1, <2>2, <2>3 DEF Heard, InLoop
  <2>5. QED
    BY <1>1, <1>2, <2>1, <2>2, <2>3, <2>4
<1>3. CASE \A t \in Threads : phase[t] = "gone"
  <2>1. state' \notin {"Starting", "Running"}
    <3>1. CASE receiver = "none"
      BY <1>3, <3>1 DEF HInv, Heard, PollEvents
    <3>2. CASE receiver # "none"
      BY <1>3, <3>2 DEF HInv, TypeOK, Heard, PollEvents
    <3>3. QED BY <3>1, <3>2
  <2>2. QED
    BY <1>0, <1>1, <1>3, <2>1 DEF Heard
<1>4. QED BY <1>2, <1>3

LEMMA ThreadHeard ==
  ASSUME HInv, NEW t \in Threads, ThreadStep(t) \/ Mishap(t)
  PROVE  Heard'
<1> USE DEF threadRest, tapVars
<1>1. ASSUME phase[t] # "gone"
      PROVE  /\ receiver = t
             /\ \A s \in Threads : s # t => phase[s] = "gone"
  BY <1>1 DEF HInv, Attended
<1>2. CASE RecoverDisabledTap(t) \/ TapDisabled(t)
  BY <1>2, HeardUnchanged DEF RecoverDisabledTap, TapDisabled, outsideRest, lifeVars, HInv
<1>3. CASE TryAcquire(t) \/ CreateTap(t) \/ RegisterPort(t)
  <2>1. /\ phase[t] \in {"new", "locked", "created"}
        /\ phase'[t] \notin {"gone", "running"} /\ outcome'[t] \notin {"Stopped"}
        /\ \A s \in Threads : s # t => phase'[s] = phase[s]
        /\ UNCHANGED <<state, events>>
    BY <1>3 DEF TryAcquire, CreateTap, RegisterPort, Advance, Return, HInv, TypeOK,
       Unspoken, Returning
  <2>2. ~InLoop(t)
    BY <2>1 DEF InLoop, HInv, Unspoken, Returning
  <2>3. QED
    BY <1>1, <2>1, <2>2 DEF HInv, Heard, InLoop
<1>4. CASE EnableAndReport(t)
  <2>1. /\ phase[t] = "registered" /\ phase'[t] = "running"
        /\ \A s \in Threads : s # t => phase'[s] = phase[s]
    BY <1>4 DEF EnableAndReport, Advance, HInv, TypeOK
  <2>2. events' = Append(events, "Running")
    BY <1>1, <1>4, <2>1 DEF EnableAndReport, Send
  <2>3. LastEvent' = "Running"
    BY <2>2 DEF LastEvent, HInv, TypeOK
  <2>4. QED
    BY <1>1, <2>1, <2>3 DEF Heard, InLoop
<1>5. CASE RunLoopEnds(t) \/ Unregister(t) \/ FreeTap(t) \/ Unlock(t)
  <2>1. /\ phase[t] \in {"running", "unregister", "freetap", "unlock"}
        /\ phase'[t] \in Returning
        /\ \A s \in Threads : s # t => phase'[s] = phase[s]
        /\ outcome'[t] = IF phase[t] = "running" THEN "Stopped" ELSE outcome[t]
        /\ UNCHANGED <<state, events>>
    BY <1>5 DEF RunLoopEnds, Unregister, FreeTap, Unlock, Advance, Return, HInv, TypeOK,
       Returning
  <2>2. InLoop(t)' <=> InLoop(t)
    BY <2>1 DEF InLoop, Returning
  <2>3. LastEvent' = LastEvent
    BY <2>1 DEF LastEvent
  <2>4. QED
    BY <1>1, <2>1, <2>2, <2>3 DEF HInv, Heard, Returning
<1>6. CASE Report(t)
  <2>1. phase[t] = "report" /\ outcome[t] \in Outcomes
    BY <1>6 DEF Report, Return, Advance, HInv, TypeOK, Returning
  <2>2. events' = Append(events, outcome[t])
    BY <1>1, <1>6, <2>1 DEF Report, Send
  <2>3. LastEvent' = outcome[t]
    BY <2>1, <2>2 DEF LastEvent, HInv, TypeOK
  <2>4. \A s \in Threads : phase'[s] = "gone"
    BY <1>1, <1>6, <2>1 DEF Report, Return, Advance, HInv, TypeOK
  <2>5. QED
    BY <2>1, <2>3, <2>4 DEF Heard, Outcomes
<1>7. CASE Panic(t)
  <2>1. phase[t] \in {"new", "locked", "created"} /\ UNCHANGED <<state, events, receiver>>
    BY <1>7 DEF Panic
  <2>2. ~InLoop(t)
    BY <2>1 DEF InLoop, HInv, Unspoken, Returning
  <2>3. state = "Starting" /\ events = <<>> /\ receiver # "none"
    BY <1>1, <2>1, <2>2, ConstantsAssumption DEF HInv, Heard, ConstantsAssumption
  <2>4. \A s \in Threads : phase'[s] = "gone"
    BY <1>1, <1>7, <2>1 DEF Panic, HInv, TypeOK
  <2>5. QED
    BY <2>1, <2>3, <2>4 DEF Heard, LastEvent
<1>8. QED
  BY <1>2, <1>3, <1>4, <1>5, <1>6, <1>7 DEF ThreadStep, Mishap

LEMMA HeardStep == ASSUME HInv, [Next]_vars PROVE Heard'
<1>0. Heard
  BY DEF HInv
<1>1. CASE Load
  BY <1>0, <1>1, StartOrWaitHeard, HeardUnchanged DEF Load
<1>2. CASE Poll
  BY <1>2, PollIsTrue DEF Poll
<1>3. CASE Refresh
  BY <1>0, <1>3, StartOrWaitHeard, HeardUnchanged DEF Refresh
<1>4. CASE Recover
  BY <1>0, <1>4, SpawnHeard, HeardUnchanged DEF Recover, WakeAction
<1>5. CASE Watch
  <2>1. CASE ~switch
    BY <1>5, <2>1, DisabledHeard DEF Watch
  <2>2. CASE switch /\ state = "Running"
    <3>1. Observe(dog, TapEnabledState, FALSE).action # "Restart"
      BY DEF Observe, Remedy
    <3>2. QED
      BY <1>0, <1>5, <2>2, <3>1, HeardUnchanged DEF Watch
  <2>3. CASE switch /\ state # "Running"
    BY <1>0, <1>5, <2>3, SpawnHeard, HeardUnchanged DEF Watch
  <2>4. QED BY <2>1, <2>2, <2>3 DEF HInv, TypeOK
<1>6. CASE Rearm
  BY <1>0, <1>6, HeardUnchanged DEF Rearm
<1>7. CASE Frame
  BY <1>0, <1>7, StartOrWaitHeard, HeardUnchanged DEF Frame
<1>8. CASE Toggle
  BY <1>8, DisabledHeard, StartOrWaitHeard DEF Toggle
<1>9. CASE Retry
  BY <1>0, <1>9, SpawnHeard, HeardUnchanged DEF Retry, CanRetry
<1>10. CASE Outside \/ Clock \/ UNCHANGED vars
  BY <1>0, <1>10, HeardUnchanged
  DEF Outside, DaemonAcquires, DaemonInstalls, DaemonExits, PermissionFlips,
      DidWake, Clock, RefreshComesDue, SampleComesDue, WakeWindowCloses,
      outsideRest, vars
<1>11. QED
  BY <1>1, <1>2, <1>3, <1>4, <1>5, <1>6, <1>7, <1>8, <1>9, <1>10, ThreadHeard
  DEF Next, MainStep, User

(* The main thread is never deceived for longer than until its next poll:    *)
(* that leaves the state as the thread is at that moment, although the thread *)
(* may have died without a word and the state may have been overwritten by   *)
(* the switch or the permission (runtime.rs:357).                            *)
THEOREM PollsTellTruth == Spec => PollTellsTruth
<1>1. Init => Attended /\ Unspoken /\ Heard
  BY DEF Init, Attended, Unspoken, Heard, LastEvent
<1>2. TypeOK /\ Attended /\ Unspoken /\ Heard /\ [Next]_vars =>
        Attended' /\ Unspoken' /\ Heard'
  BY AttendedStep, UnspokenStep, HeardStep DEF HInv
<1>3. TypeOK /\ Attended /\ Unspoken /\ Heard /\ [Next]_vars =>
        [main = "poll" /\ main' # "poll" =>
          /\ state' = "Running" <=> \E t \in Threads : InLoop(t)
          /\ state' = "Starting" <=>
              \E t \in Threads : phase[t] # "gone" /\ ~InLoop(t)]_vars
  <2> SUFFICES ASSUME HInv, Next, main = "poll", main' # "poll"
               PROVE  /\ state' = "Running" <=> \E t \in Threads : InLoop(t)
                      /\ state' = "Starting" <=>
                          \E t \in Threads : phase[t] # "gone" /\ ~InLoop(t)
    BY DEF HInv
  <2>1. Poll
    BY DEF Next, MainStep, User, Outside, Clock, ThreadStep, Mishap, Load, Poll, Refresh,
       Recover, Watch, Rearm, Frame, Toggle, Retry, DaemonAcquires, DaemonInstalls,
       DaemonExits, PermissionFlips, DidWake, RefreshComesDue, SampleComesDue,
       WakeWindowCloses, TryAcquire, CreateTap, RegisterPort, EnableAndReport,
       RecoverDisabledTap, Unregister, FreeTap, Unlock, Report, RunLoopEnds, Panic,
       TapDisabled, outsideRest, threadRest
  <2>2. QED BY <2>1, PollIsTrue DEF Poll
<1>4. QED BY <1>1, <1>2, <1>3, TypeCorrect, PTL DEF Spec, PollTellsTruth
==============================================================================
