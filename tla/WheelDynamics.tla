----------------------------- MODULE WheelDynamics -----------------------------
(***************************************************************************)
(* Around the axis of ScrollDynamics: the two axes together and what an     *)
(* outside action does to them (scroll_dynamics.rs), and the rate of the    *)
(* input of one session (scroll_dynamics/rate.rs, the tracking of axis.rs). *)
(* An optional value is a set of at most one.                               *)
(***************************************************************************)
EXTENDS ScrollDynamics, SequencesExt, TLC

CONSTANTS
    MaxPoints,      \* MAX_ABS_INPUT_POINTS
    WindowSize,     \* RATE_WINDOW_CAPACITY
    MinIntervals    \* MIN_RATE_INTERVALS

-------------------------------------------------------------------------------
(* Two axes.  Either both of them take an event or neither does; continuous *)
(* events, as trackpads send them, go past both.                            *)

Both == {"vertical", "horizontal"}

ValidPoints(d) == d \in -MaxPoints .. MaxPoints

(* handle_event: the pairs of axes that may follow, none when refused. *)
HandleEvent(pair, t, d, continuous) ==
    CASE \E a \in Both : ~ValidPoints(d[a]) -> {}
      [] (\A a \in Both : ValidPoints(d[a])) /\ continuous -> {pair}
      [] OTHER -> IF \E a \in Both : InputRejected(pair[a], t, d[a]) THEN {}
                  ELSE {[a \in Both |-> IF a = "vertical" THEN v ELSE h] :
                           v \in HandleInput(pair["vertical"], t, d["vertical"]),
                           h \in HandleInput(pair["horizontal"], t, d["horizontal"])}

SampleBoth(pair, t) ==
    IF \E a \in Both : t < pair[a].last THEN {}
    ELSE {[a \in Both |-> IF a = "vertical" THEN v ELSE h] :
             v \in Sample(pair["vertical"], t), h \in Sample(pair["horizontal"], t)}

(* cancel_external: the tail is dropped and the next input begins a session *)
(* of its own; the number of the session stays the same until then.         *)
CancelExternal(x, t) == [CancelPending(x) EXCEPT !.input = Never, !.direction = 0, !.last = t]

(* cancel, for a trigger that the policy, a set of triggers, allows or not. *)
Cancel(pair, t, trigger, policy) ==
    IF trigger \notin policy THEN {pair}
    ELSE IF \E a \in Both : t < pair[a].last THEN {}
    ELSE {[a \in Both |-> CancelExternal(pair[a], t)]}

-------------------------------------------------------------------------------
(* rate.rs.                                                                 *)

MinInputDt == 1000
MaxInputDt == 50000

(* normalize_input_delta; a time before the previous one is refused. *)
NormalizedDelta(previous, current) ==
    LET raw == current - previous
    IN  IF raw < 0 THEN {}
        ELSE IF raw < MinInputDt THEN {[raw |-> raw, used |-> MinInputDt, clamp |-> "Minimum"]}
        ELSE IF raw > MaxInputDt THEN {[raw |-> raw, used |-> MaxInputDt, clamp |-> "Maximum"]}
        ELSE {[raw |-> raw, used |-> raw, clamp |-> "None"]}

(* InputRateEstimator: a ring of intervals, written round and round. *)
NewEstimator == [slots |-> [i \in 0 .. WindowSize - 1 |-> 0], len |-> 0, next |-> 0]

Observe(ring, interval) ==
    IF ring.len < WindowSize
    THEN [slots |-> [ring.slots EXCEPT ![ring.len] = interval], len |-> ring.len + 1,
          next |-> (ring.len + 1) % WindowSize]
    ELSE [ring EXCEPT !.slots[ring.next] = interval, !.next = (@ + 1) % WindowSize]

Estimate(ring) ==
    LET filled == SortSeq([i \in 1 .. ring.len |-> ring.slots[i - 1]], <)
        median == filled[(ring.len + 1) \div 2]
    IN  IF ring.len < MinIntervals THEN {}
        ELSE {[count |-> ring.len, median |-> median, millihertz |-> 1000000000 \div median]}

(* The tracking of handle_input: an input that begins a session, by its     *)
(* Boundary on the axis x, forgets the rate of the one before.              *)
NewTracker == [ring |-> NewEstimator, delta |-> {}, velocity |-> {}]

Track(tracker, x, t, d) ==
    LET begins == Boundary(x, t, d) # "none"
        delta == IF begins THEN {} ELSE NormalizedDelta(x.input, t)
        ring == IF begins THEN NewEstimator
                ELSE Observe(tracker.ring, (CHOOSE n \in delta : TRUE).used)
    IN  IF d = 0 THEN tracker
        ELSE [ring |-> ring, delta |-> delta,
              velocity |-> {d * e.millihertz : e \in Estimate(ring)}]
================================================================================
