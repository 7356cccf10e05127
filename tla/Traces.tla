-------------------------------- MODULE Traces --------------------------------
(***************************************************************************)
(* Privacy traces of scroll events and what the trace lab makes of them: a  *)
(* trace written from the debug console's events, validated and replayed    *)
(* (ui/debug_console/export.rs, scroll_trace.rs) and the measurements over  *)
(* it (scroll_lab.rs).  A sample has the axis, the distance that went in    *)
(* and the one that came out, and the reason, but no device and no process. *)
(***************************************************************************)
EXTENDS ScrollTransform, SequencesExt, TLC

CONSTANTS
    I64Max,       \* the largest distance
    MaxSamples    \* MAX_TRACE_SAMPLES

Measure == INSTANCE Measurements

Axes == {"vertical", "horizontal"}

Saturated(n) == IF n > I64Max THEN I64Max ELSE IF n < -I64Max - 1 THEN -I64Max - 1 ELSE n

Magnitude(n) == IF n < 0 THEN -n ELSE n

Sign(n) == IF n > 0 THEN 1 ELSE IF n < 0 THEN -1 ELSE 0

(* The numbers of transform_event: a notch grows by the factor, a distance  *)
(* on a flipped axis changes its sign.                                      *)
Output(decision, axis, n) ==
    LET grown == IF Magnitude(n) = 1 THEN Saturated(n * decision.factor) ELSE n
    IN  IF axis \in decision.flips THEN Saturated(-grown) ELSE grown

(* What the callback records of an axis of an event it has transformed, or,  *)
(* paused, let pass.                                                         *)
RecordOf(config, e, paused, axis, n, at) ==
    LET decision == IF paused THEN Untouched ELSE TransformEvent(config, e)
    IN  [at |-> at, kind |-> e.kind, continuous |-> e.continuous, axis |-> axis, input |-> n,
         output |-> Output(decision, axis, n),
         reason |-> DecisionReason(config, e, paused, axis \in decision.flips)]

-------------------------------------------------------------------------------
(* Writing.  A record of the console becomes a sample; the first one shown  *)
(* is the origin of time.                                                   *)

SampleOf(record, origin) ==
    [at |-> record.at - origin, kind |-> record.kind, continuous |-> record.continuous,
     axis |-> record.axis, input |-> record.input, output |-> record.output,
     reason |-> record.reason]

ValidTrace(samples) ==
    /\ samples # << >> /\ Len(samples) <= MaxSamples
    /\ samples[1].at = 0
    /\ \A i \in 2 .. Len(samples) : samples[i].at >= samples[i - 1].at

(* events_to_trace: no trace of no events, nor one that is not valid. *)
TraceOf(records) ==
    LET samples == [i \in DOMAIN records |-> SampleOf(records[i], records[1].at)]
    IN  IF records # << >> /\ ValidTrace(samples) THEN {samples} ELSE {}

-------------------------------------------------------------------------------
(* Replaying.  to_scroll_event: what made the event pass untouched is told  *)
(* by the reason; its device is not known.                                  *)

EventOf(s) ==
    [kind |-> s.kind, identity |-> None, continuous |-> s.continuous,
     synthetic |-> s.reason = "SyntheticEvent",
     source |-> CASE s.reason = "VirtualHidSource" -> "Virtual"
                  [] s.reason = "UnknownHidSource" -> "Unknown"
                  [] OTHER -> "NotObserved",
     posted |-> s.reason = "RawInputGuard"]

RequiresOmittedContext(s) ==
    s.reason \in {"TemporarilyPaused", "DeviceRuleReversed", "DeviceRuleDisabled"}

Replayed(config, s) == Output(TransformEvent(config, EventOf(s)), s.axis, s.input)

MatchesObserved(config, s) == s.output = Replayed(config, s)

-------------------------------------------------------------------------------
(* The lab.                                                                 *)

ValidOptions(gain, gap) == gain \in 1 .. 100 /\ gap \in 1 .. 60000000

UniqueTimes(samples) ==
    LET first == {i \in DOMAIN samples : i = 1 \/ samples[i].at # samples[i - 1].at}
        kept == SetToSortSeq(first, <)
    IN  [i \in DOMAIN kept |-> samples[kept[i]].at]

SessionCount(samples, gap) ==
    1 + Cardinality({i \in 2 .. Len(samples) : samples[i].at - samples[i - 1].at > gap})

(* The baseline to compare with: the same reversal with a constant gain in  *)
(* place of the step, on discrete events only.                              *)
ConstantGain(config, s, gain) ==
    LET t == TransformEvent([config EXCEPT !.step = 0], EventOf(s))
        out == Output(t, s.axis, s.input)
    IN  IF ~s.continuous /\ s.axis \in t.flips THEN Saturated(out * gain) ELSE out

(* direction_changes: the signs seen on each axis, forgotten after a gap.   *)
Turned(state, s, gap) ==
    LET signs == IF state.at # {} /\ (\E t \in state.at : s.at - t > gap)
                 THEN [a \in Axes |-> 0] ELSE state.signs
        sign == Sign(s.input)
    IN  [at |-> {s.at},
         signs |-> IF sign = 0 THEN signs ELSE [signs EXCEPT ![s.axis] = sign],
         changes |-> state.changes + IF sign # 0 /\ signs[s.axis] = -sign THEN 1 ELSE 0]

DirectionChanges(samples, gap) ==
    FoldLeft(LAMBDA state, s : Turned(state, s, gap),
             [at |-> {}, signs |-> [a \in Axes |-> 0], changes |-> 0], samples).changes

SumOf(samples, Value(_)) == FoldLeft(LAMBDA sum, s : sum + Value(s), 0, samples)

AxisMetrics(config, samples, axis, gain) ==
    LET own == SelectSeq(samples, LAMBDA s : s.axis = axis)
        Distances(Value(_)) == [signed |-> SumOf(own, Value),
                                absolute |-> SumOf(own, LAMBDA s : Magnitude(Value(s)))]
    IN  [samples |-> Len(own),
         input |-> Distances(LAMBDA s : s.input),
         observed |-> Distances(LAMBDA s : s.output),
         replayed |-> Distances(LAMBDA s : Replayed(config, s)),
         baseline |-> Distances(LAMBDA s : ConstantGain(config, s, gain))]

CountOf(samples, Holds(_)) == Cardinality({i \in DOMAIN samples : Holds(samples[i])})

Analyze(config, samples, gain, gap) ==
    IF ~ValidOptions(gain, gap) THEN {}
    ELSE LET times == UniqueTimes(samples) IN
      {[duration  |-> Last(times),
        sessions  |-> SessionCount(samples, gap),
        turns     |-> DirectionChanges(samples, gap),
        discrete  |-> CountOf(samples, LAMBDA s : ~s.continuous),
        matches   |-> CountOf(samples, LAMBDA s : MatchesObserved(config, s)),
        omitted   |-> CountOf(samples, RequiresOmittedContext),
        magnitude |-> Measure!Distribution([i \in DOMAIN samples |-> Magnitude(samples[i].input)]),
        intervals |-> Measure!Distribution(Measure!Intervals(times)),
        rates     |-> Measure!AnalyzeEventRates(samples, gap),
        axes      |-> [a \in Axes |-> AxisMetrics(config, samples, a, gain)]]}
================================================================================
