--------------------------- MODULE ScrollScheduler ----------------------------
(***************************************************************************)
(* The scheduler of the experimental smooth scrolling: it owns the two axes*)
(* of ScrollDynamics and at most one wake lease.  Its caller holds timers  *)
(* for the leases it was given, which may fire late, early, more than once *)
(* and after they were replaced, and keeps a produced sample for a while   *)
(* before it posts it.  Any error drops the pending distance and latches   *)
(* fail-open until an explicit reset (scroll_scheduler.rs, schedule.rs).   *)
(*                                                                         *)
(* Continuous and synthetic events and events while the latch is set change*)
(* nothing and are not steps here.                                         *)
(***************************************************************************)
EXTENDS ScrollDynamics, FiniteSets

CONSTANTS
    SampleInterval,   \* SAMPLE_INTERVAL_US
    SampleTtl,        \* SCHEDULED_SAMPLE_TTL_US
    Inputs,           \* the distances of a wheel event: [Axes -> Int]
    MaxEvents,        \* bound: wheel events
    MaxResets         \* bound: resets of the latch

Axes == {"vertical", "horizontal"}

ASSUME SchedulerAssumption ==
    /\ SampleInterval \in Nat \ {0} /\ SampleTtl \in Nat
    /\ Inputs \subseteq [Axes -> Int]
    /\ MaxEvents \in Nat /\ MaxResets \in Nat

VARIABLES
    clock,        \* the caller's clock
    axes,         \* ScrollScheduler.dynamics
    wake,         \* TailSchedule.wake: {} or {token}
    lastWakeId,   \* TailSchedule.last_wake_id
    fault,        \* is the fail-open latch set?
    timers,       \* tokens the caller may poll with, current or not
    held,         \* sample the caller has not posted yet: {} or {sample}
    sampled,      \* history: the lease of the latest sample
    events, resets

schedulerVars == <<clock, axes, wake, lastWakeId, fault, timers, held, sampled,
                   events, resets>>

Generation(x) == [a \in Axes |-> x[a].generation]

Earliest(S) == CHOOSE t \in S : \A u \in S : t <= u

Deadlines(x) == {x[a].deadline : a \in {b \in Axes : Active(x[b])}}

(* sync fails when a tail was due by now and when the ids are used up. *)
SyncFails(x, now) ==
    /\ Deadlines(x) # {}
    /\ (\E t \in Deadlines(x) : t <= now) \/ lastWakeId = U64Max

DueWithoutDeadline(x, now) ==    \* mutant of DueAt: no look at the deadline
    now + SampleInterval

DueAt(x, now) ==
    LET due == Earliest(Deadlines(x))
    IN  IF now + SampleInterval > U64Max \/ now + SampleInterval > due
        THEN due ELSE now + SampleInterval

(* The lease follows the tails; the caller sets a timer for the new lease   *)
(* and may or may not clear one that is still set (two are enough: the      *)
(* scheduler compares a token with the current one only).                   *)
Sync(x, now) ==
    IF Deadlines(x) = {}
    THEN wake' = {} /\ UNCHANGED <<lastWakeId, timers>>
    ELSE LET token == [id |-> lastWakeId + 1, due |-> DueAt(x, now),
                       generation |-> Generation(x)]
         IN  /\ wake' = {token}
             /\ lastWakeId' = lastWakeId + 1
             /\ timers' = {token} \/ \E old \in timers : timers' = {token, old}

LatchFault ==
    /\ axes' = [a \in Axes |-> Fresh]
    /\ wake' = {}
    /\ fault' = TRUE
    /\ UNCHANGED <<lastWakeId, timers>>

-------------------------------------------------------------------------------
(* handle_event of a wheel event stamped t, by now or a little ago. *)
Stamps == {t \in Timestamps : t = clock \/ t = clock - 1}

Wheel(t, d) ==
    /\ ~fault /\ events < MaxEvents
    /\ \A a \in Axes : ~InputRejected(axes[a], t, d[a])
    /\ \E v \in HandleInput(axes["vertical"], t, d["vertical"]),
          h \in HandleInput(axes["horizontal"], t, d["horizontal"]) :
        LET x == [a \in Axes |-> IF a = "vertical" THEN v ELSE h]
        IN  IF SyncFails(x, t)
            THEN LatchFault
            ELSE axes' = x /\ Sync(x, t) /\ UNCHANGED fault
    /\ events' = events + 1
    /\ UNCHANGED <<clock, held, sampled, resets>>

(* ... or one whose distance is no valid number, or that an axis rejects. *)
WheelTrips ==
    /\ ~fault /\ events < MaxEvents
    /\ LatchFault
    /\ events' = events + 1
    /\ UNCHANGED <<clock, held, sampled, resets>>

ExpiryFromCallback(w) == clock + SampleTtl    \* mutant of Expiry

Expiry(w) == w.due + SampleTtl

(* poll goes on only with the current token and not before it is due. *)
Polled(w) == w \in timers /\ wake = {w} /\ clock >= w.due

PollTooLate(w) ==
    /\ Polled(w)
    /\ clock > Expiry(w) \/ Expiry(w) > U64Max
       \/ \E a \in Axes : clock < axes[a].last
    /\ LatchFault
    /\ UNCHANGED <<clock, held, sampled, events, resets>>

Poll(w) ==
    /\ Polled(w)
    /\ clock <= Expiry(w) /\ Expiry(w) <= U64Max
    /\ \A a \in Axes : clock >= axes[a].last
    /\ \E v \in Sample(axes["vertical"], clock),
          h \in Sample(axes["horizontal"], clock) :
        LET x == [a \in Axes |-> IF a = "vertical" THEN v ELSE h]
        IN  IF SyncFails(x, clock)
            THEN LatchFault /\ UNCHANGED <<held, sampled>>
            ELSE /\ axes' = x /\ Sync(x, clock) /\ UNCHANGED fault
                 /\ held' = {[id |-> w.id, generation |-> w.generation,
                              expires |-> Expiry(w)]}
                 /\ sampled' = w.id
    /\ UNCHANGED <<clock, events, resets>>

(* The caller posts the sample it holds, or drops it: sample_disposition. *)
Deliverable(s) == s.generation = Generation(axes) /\ clock <= s.expires

Post ==
    /\ held # {}
    /\ held' = {}
    /\ UNCHANGED <<clock, axes, wake, lastWakeId, fault, timers, sampled, events,
                   resets>>

ResetForgettingIds ==    \* mutant of ResetAfterFault: a new TailSchedule
    /\ fault /\ resets < MaxResets
    /\ axes' = [a \in Axes |-> Fresh] /\ wake' = {} /\ fault' = FALSE
    /\ lastWakeId' = 0 /\ resets' = resets + 1
    /\ UNCHANGED <<clock, timers, held, sampled, events>>

ResetAfterFault ==
    /\ fault /\ resets < MaxResets
    /\ axes' = [a \in Axes |-> Fresh] /\ wake' = {} /\ fault' = FALSE
    /\ resets' = resets + 1
    /\ UNCHANGED <<clock, lastWakeId, timers, held, sampled, events>>

ClockTick ==
    /\ clock < U64Max
    /\ clock' = clock + 1
    /\ UNCHANGED <<axes, wake, lastWakeId, fault, timers, held, sampled, events,
                   resets>>

SchedulerInit ==
    /\ clock = 0
    /\ axes = [a \in Axes |-> Fresh]
    /\ wake = {} /\ lastWakeId = 0 /\ fault = FALSE
    /\ timers = {} /\ held = {} /\ sampled = 0
    /\ events = 0 /\ resets = 0

SchedulerNext ==
    \/ WheelTrips \/ Post \/ ResetAfterFault \/ ClockTick
    \/ \E t \in Stamps, d \in Inputs : Wheel(t, d)
    \/ \E w \in timers : Poll(w) \/ PollTooLate(w)

SchedulerSpec == SchedulerInit /\ [][SchedulerNext]_schedulerVars

-------------------------------------------------------------------------------
AxisStates == [last : Timestamps \cup {Never}, input : Timestamps \cup {Never},
               direction : {-1, 0, 1}, generation : 0..U64Max, pending : Int,
               sampled : Timestamps, deadline : Timestamps, owed : Int]
Ids == 1..U64Max
Tokens == [id : Ids, due : Timestamps, generation : [Axes -> 0..U64Max]]
Samples == [id : Ids, generation : [Axes -> 0..U64Max], expires : Timestamps]

(* Every variable has its type; no timestamp and no counter exceeds its     *)
(* width, and there is at most one lease.                                   *)
SchedulerTypeOK ==
    /\ clock \in Timestamps
    /\ axes \in [Axes -> AxisStates]
    /\ wake \in SUBSET Tokens /\ \A v, w \in wake : v = w
    /\ lastWakeId \in 0..U64Max
    /\ fault \in BOOLEAN
    /\ timers \in SUBSET Tokens
    /\ held \in SUBSET Samples
    /\ sampled \in 0..U64Max
    /\ events \in 0..MaxEvents
    /\ resets \in 0..MaxResets

(* "A wake exists only while either axis has pending distance" (DYNAMICS.md),*)
(* and as long as there is some: it is of the present sessions and due by   *)
(* the first deadline, so no tail is stranded or paid out late for want of  *)
(* a wake-up, whatever cancelled, joined or ended a tail in between.        *)
WakeCoversTails ==
    /\ wake = {} <=> \A a \in Axes : ~Active(axes[a])
    /\ \A w \in wake :
        /\ w.id = lastWakeId
        /\ w.generation = Generation(axes)
        /\ \A a \in Axes : Active(axes[a]) => w.due <= axes[a].deadline

(* "input = emitted + pending + residual + canceled" (DYNAMICS.md), with a  *)
(* residual that is nothing but rounding: what the ledger owes is exactly   *)
(* what the tail will pay, across reversals, gaps, joined tails and samples.*)
(* And a tail never moves against the latest input of its axis.             *)
LedgerBalanced ==
    \A a \in Axes :
        /\ axes[a].owed = axes[a].pending
        /\ Active(axes[a]) => Direction(axes[a].pending) = axes[a].direction

(* "a stale tail cannot jump after sleep": whatever a sample's timer, its   *)
(* sampling and its posting were delayed by, a sample that may be posted    *)
(* comes within the tail and one time to live of the latest input of an     *)
(* axis.                                                                    *)
MotionStaysNearInput ==
    \A s \in held : Deliverable(s) =>
        \E a \in Axes :
            /\ axes[a].input # Never
            /\ clock <= axes[a].input + TailDuration + SampleTtl

(* A lease is sampled once: not again by the same timer, nor by a timer     *)
(* left from before it or from before a fault ("overflow is an error, not a *)
(* token reuse.  Disarm/fault reset preserves the wake-id counter").        *)
LeaseSampledOnce == [][\A s \in held' \ held : s.id > sampled]_schedulerVars
===============================================================================
