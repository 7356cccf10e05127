----------------------------- MODULE Measurements -----------------------------
(***************************************************************************)
(* What the debug console and the trace lab compute from numbers: quantiles *)
(* (statistics.rs), event rates per kind of device (event_rate.rs), the     *)
(* latency of the tap as the window server reports it (tap_metrics.rs) and  *)
(* the verdict on the latest readings of it (latency_budget.rs).  Times are *)
(* in microseconds; an optional value is a set of at most one.              *)
(***************************************************************************)
EXTENDS Integers, SequencesExt, TLC

Ceiling(n, d) == (n + d - 1) \div d

Greatest(a, b) == IF a > b THEN a ELSE b

-------------------------------------------------------------------------------
(* statistics.rs.                                                           *)

Percentile(sorted, percent) ==
    sorted[Greatest(1, Ceiling(Len(sorted) * percent, 100))]

Distribution(values) ==
    LET sorted == SortSeq(values, <)
    IN  IF values = << >> THEN {}
        ELSE {[min |-> sorted[1], p50 |-> Percentile(sorted, 50),
               p95 |-> Percentile(sorted, 95), max |-> Last(sorted)]}

(* What it means: the nearest rank.  The smallest of the values that at     *)
(* least so many per cent of them do not exceed.                            *)
NearestRank(values, percent) ==
    CHOOSE v \in Range(values) :
        LET AtMost(w) == {i \in DOMAIN values : values[i] <= w}
            Enough(w) == 100 * Cardinality(AtMost(w)) >= percent * Len(values)
        IN  Enough(v) /\ \A w \in Range(values) : Enough(w) => v <= w

-------------------------------------------------------------------------------
(* event_rate.rs.  A sample is [at, kind]; the rates are in millihertz.     *)

DeviceKinds == {"Mouse", "Trackpad", "MagicMouse", "Unknown"}

ActiveGap == 150000

RateOf(interval) == 1000000000 \div interval

(* Arrivals on both axes of one report carry one timestamp and count once. *)
Arrivals(samples, kind) ==
    SetToSortSeq({samples[i].at : i \in {j \in DOMAIN samples : samples[j].kind = kind}}, <)

Intervals(times) == [i \in 1 .. Len(times) - 1 |-> times[i + 1] - times[i]]

Rates(times, gap) ==
    LET near == SelectSeq(Intervals(times), LAMBDA i : i <= gap)
    IN  [i \in DOMAIN near |-> RateOf(near[i])]

(* below_30_hz .. at_least_240_hz. *)
Bin(rate) == Cardinality({b \in {30000, 60000, 120000, 240000} : b <= rate})

Histogram(rates) ==
    [b \in 0 .. 4 |-> Cardinality({i \in DOMAIN rates : Bin(rates[i]) = b})]

AnalyzeDevice(samples, kind, gap) ==
    LET times == Arrivals(samples, kind)
        rates == Rates(times, gap)
    IN  {[kind |-> kind, timestamps |-> Len(times), rates |-> d,
          histogram |-> Histogram(rates)] : d \in Distribution(rates)}

AnalyzeEventRates(samples, gap) ==
    UNION {AnalyzeDevice(samples, kind, gap) : kind \in DeviceKinds}

-------------------------------------------------------------------------------
(* tap_metrics.rs.  CoreGraphics is asked twice, for the number of taps and *)
(* for the taps; count is its first answer, filled and listed its second,   *)
(* and taps may come and go in between.  An error is [error |-> ...].       *)

MaxEventTaps == 4096
GrowthHeadroom == 16

Failure(what) == [error |-> what]

TapCapacity(count) ==
    IF count + GrowthHeadroom < MaxEventTaps THEN count + GrowthHeadroom ELSE MaxEventTaps

IsActiveScrollTap(tap, pid) == tap.process = pid /\ ~tap.listenOnly /\ tap.scrolls

ValidLatency(tap) == 0 <= tap.min /\ tap.min <= tap.avg /\ tap.avg <= tap.max

Snapshot(count, filled, listed, pid) ==
    LET own == SelectSeq(listed, LAMBDA tap : IsActiveScrollTap(tap, pid))
    IN  IF count > MaxEventTaps THEN Failure("TooManyTaps")
        ELSE IF count = 0 THEN [listed |-> 0, truncated |-> FALSE, taps |-> << >>]
        ELSE IF filled > TapCapacity(count) THEN Failure("InvalidFilledCount")
        ELSE IF \E i \in DOMAIN own : ~ValidLatency(own[i]) THEN Failure("InvalidLatency")
        ELSE [listed |-> filled, truncated |-> filled = TapCapacity(count), taps |-> own]

-------------------------------------------------------------------------------
(* latency_budget.rs.  A reading is [average, maximum], a budget [average,  *)
(* tail]; the history holds the latest five readings.                       *)

HistoryCapacity == 5
MinReadings == 3
BreachesForWarning == 2

CallbackBudget == [average |-> 1000, tail |-> 8000]
SchedulerBudget == [average |-> 2000, tail |-> 8000]

ValidBudget(budget) == 0 < budget.average /\ budget.average <= budget.tail

ValidReading(r) == 0 <= r.average /\ r.average <= r.maximum

PushReading(readings, r) ==
    Append(IF Len(readings) = HistoryCapacity THEN Tail(readings) ELSE readings, r)

AverageBreaches(readings, budget) ==
    Cardinality({i \in DOMAIN readings : readings[i].average > budget.average})

TailBreaches(readings, budget) ==
    Cardinality({i \in DOMAIN readings : readings[i].maximum > budget.tail})

LatencyStatus(readings, budget) ==
    IF Len(readings) < MinReadings THEN "Collecting"
    ELSE IF AverageBreaches(readings, budget) >= BreachesForWarning THEN "SustainedLatency"
    ELSE IF TailBreaches(readings, budget) >= BreachesForWarning THEN "RepeatedTailStalls"
    ELSE "WithinBudget"

(* record_latency_readings of the debug console: a tap that is enabled gets *)
(* a reading, one that is listed keeps its history, any other loses it; a   *)
(* reading that is not valid leaves all histories as they are.  The ids of  *)
(* the taps of one snapshot differ.                                         *)
RecordReadings(histories, taps) ==
    LET ReadingOf(tap) == [average |-> tap.avg, maximum |-> tap.max]
        Enabled == {taps[i] : i \in {j \in DOMAIN taps : taps[j].enabled}}
        Kept(id) == IF id \in DOMAIN histories THEN histories[id] ELSE << >>
        Taps == Enabled \cup {tap \in ToSet(taps) : tap.id \in DOMAIN histories}
    IN  IF \E tap \in Enabled : ~ValidReading(ReadingOf(tap)) THEN histories
        ELSE [id \in {tap.id : tap \in Taps} |->
                LET tap == CHOOSE t \in Taps : t.id = id
                IN  IF tap.enabled THEN PushReading(Kept(id), ReadingOf(tap)) ELSE Kept(id)]
================================================================================
