------------------------------ MODULE Computations ------------------------------
(* The pure computations of the program, compared with what they are to     *)
(* compute over bounded inputs.  A run that extends this module evaluates   *)
(* its assumptions; they constrain no constant.                             *)
EXTENDS Integers, FiniteSets, SequencesExt, TLC

CONSTANT None    \* Rust's None, where a module has it as a value of its own

Measure == INSTANCE Measurements
Dynamics == INSTANCE WheelDynamics WITH
    U64Max <- 2000000, TailDuration <- 60000, SessionGap <- 150000, StopThreshold <- 0,
    MaxPoints <- 5, WindowSize <- 3, MinIntervals <- 2
DynamicsGate == INSTANCE DynamicsGate

Numerals == ("0" :> 0) @@ ("7" :> 7) @@ ("-7" :> -7) @@ ("100" :> 100) @@ ("101" :> 101)
DashedWords == {"-7", "--help", "--dy", "--baseline-gain"}

Cli == INSTANCE CommandLine WITH
    Integer <- Numerals,
    Hex <- ("0x7" :> 7), Trimmed <- ("7" :> "7") @@ (" 7" :> "7") @@ ("-7" :> "-7"),
    Dashed <- DashedWords, U32Max <- 127, U64Max <- 255

ReasonsByCode ==
    <<"AxisDisabled", "DeviceReversalOff", "DeviceRuleDisabled", "DeviceRuleReversed",
      "RawInputGuard", "Reversed", "ScrollReversalOff", "SyntheticEvent", "TemporarilyPaused",
      "TrackpadNatural", "UnknownDeviceNotReversed", "UnknownHidSource", "VirtualHidSource">>

Diagnose == INSTANCE Diagnostics WITH
    Capacity <- 3, AuditCapacity <- 3, U32Max <- 4, ReasonsInOrder <- ReasonsByCode
Session == INSTANCE AppSession WITH IdleTimeout <- 5, U64Max <- 2
Document == INSTANCE ConfigDocument WITH ConfigVersion <- 1, U32Max <- 7, MaxBytes <- 5
Trace == INSTANCE Traces WITH I64Max <- 7, MaxSamples <- 4

-------------------------------------------------------------------------------
(* Quantiles are nearest ranks.                                             *)
ASSUME QuantilesAreNearestRanks ==
    \A values \in BoundedSeq(1 .. 3, 5) \cup {[i \in 1 .. 40 |-> (i * 7) % 41]} :
        \A d \in Measure!Distribution(values) :
            /\ d.p50 = Measure!NearestRank(values, 50)
            /\ d.p95 = Measure!NearestRank(values, 95)
            /\ d.min <= d.p50 /\ d.p50 <= d.p95 /\ d.p95 <= d.max

(* The order in which samples were recorded, and a report on both axes at   *)
(* once, make no difference to a rate; a pause is no interval.              *)
SomeArrivals == BoundedSeq([at : {0, 1, 10, 200000}, kind : {"Mouse", "Trackpad"}], 3)

ASSUME RatesIgnoreOrderAndAxes ==
    \A samples \in SomeArrivals :
        LET rates == Measure!AnalyzeEventRates(samples, Measure!ActiveGap) IN
        /\ rates = Measure!AnalyzeEventRates(Reverse(samples), Measure!ActiveGap)
        /\ rates = Measure!AnalyzeEventRates(samples \o samples, Measure!ActiveGap)
        /\ \A r \in rates : /\ r.rates.min > Measure!RateOf(Measure!ActiveGap + 1)
                            /\ FoldFunction(+, 0, r.histogram) < r.timestamps

(* The verdict on the tap depends on the latest five readings only; one     *)
(* outlier among them is none, and two of a kind are one.                   *)
Calm == [average |-> 200, maximum |-> 900]
Outlier == [average |-> 200, maximum |-> 12000]
Slow == [average |-> 1500, maximum |-> 3000]

ReadingsKept(readings) == FoldLeft(Measure!PushReading, << >>, readings)
Verdict(readings) == Measure!LatencyStatus(ReadingsKept(readings), Measure!CallbackBudget)

ASSUME OutliersAreForgotten ==
    /\ \A b \in {Measure!CallbackBudget, Measure!SchedulerBudget} : Measure!ValidBudget(b)
    /\ \A readings \in BoundedSeq({Calm, Outlier, Slow}, 7) :
        LET n == Len(readings)
            Latest(r) == Cardinality({i \in 1 .. n : i > n - 5 /\ readings[i] = r})
        IN  Verdict(readings) = IF n < 3 THEN "Collecting"
                                ELSE IF Latest(Slow) >= 2 THEN "SustainedLatency"
                                ELSE IF Latest(Outlier) >= 2 THEN "RepeatedTailStalls"
                                ELSE "WithinBudget"

(* A snapshot that is not marked truncated lists every tap there is by the  *)
(* second call, which fills no more than the room it is given.              *)
TapOf(id, avg) ==
    [id |-> id, process |-> 1, listenOnly |-> FALSE, scrolls |-> TRUE, enabled |-> TRUE,
     min |-> 0, avg |-> avg, max |-> 9]

ASSUME SnapshotsAdmitTruncation ==
    \A count \in {0, 1, 4080, 4081, 4096, 4097}, extra \in {-1, 0, 1, 15, 16, 17} :
        LET room == Measure!TapCapacity(count)
            present == count + extra    \* how many there are by the second call
            filled == IF present < room THEN present ELSE room
            s == Measure!Snapshot(count, filled, <<TapOf(1, 5)>>, 1)
        IN  "error" \in DOMAIN s \/ count = 0 \/ s.truncated \/ s.listed = present

(* A history lasts exactly as long as its tap is listed.                    *)
ASSUME HistoriesFollowTheirTaps ==
    LET one == Measure!RecordReadings(<< >>, <<TapOf(1, 5), TapOf(2, 7)>>)
        two == Measure!RecordReadings(one, <<TapOf(2, 8), [TapOf(3, 1) EXCEPT !.enabled = FALSE]>>)
    IN  /\ DOMAIN one = {1, 2} /\ DOMAIN two = {2} /\ Len(two[2]) = 2
        /\ Measure!RecordReadings(two, <<TapOf(2, 10)>>) = two

-------------------------------------------------------------------------------
(* The rate of an input is the median of the latest intervals between the   *)
(* inputs of its session, however the ring has gone round: a session begins *)
(* where the direction turns and after a pause.                             *)
Pulses == BoundedSeq([after : {500, 9000, 60000, 160000}, d : {1, -1}], 5)

TimeOf(pulses, i) == FoldFunctionOnSet(+, 0, [j \in DOMAIN pulses |-> pulses[j].after], 1 .. i)

Opens(pulses, i) ==
    i = 1 \/ pulses[i].after > 150000 \/ pulses[i].d # pulses[i - 1].d

SessionIntervals(pulses) ==
    LET n == Len(pulses)
        first == CHOOSE i \in 1 .. n :
                    Opens(pulses, i) /\ \A j \in i + 1 .. n : ~Opens(pulses, j)
        Clamped(v) == IF v < 1000 THEN 1000 ELSE IF v > 50000 THEN 50000 ELSE v
    IN  [i \in 1 .. n - first |-> Clamped(pulses[first + i].after)]

AfterPulse(state, pulse) ==
    LET t == state.t + pulse.after
        axis == CHOOSE y \in Dynamics!HandleInput(state.axis, t, pulse.d) : TRUE
    IN  [t |-> t, axis |-> axis, tracker |-> Dynamics!Track(state.tracker, state.axis, t, pulse.d)]

AtRest == [t |-> 0, axis |-> Dynamics!Fresh, tracker |-> Dynamics!NewTracker]

ASSUME RateIsOfTheSession ==
    \A pulses \in Pulses \ {<< >>} :
        LET latest == LET s == SessionIntervals(pulses)
                      IN  SubSeq(s, 1 + (IF Len(s) > 3 THEN Len(s) - 3 ELSE 0), Len(s))
            tracker == FoldLeft(AfterPulse, AtRest, pulses).tracker
        IN  {e.median : e \in Dynamics!Estimate(tracker.ring)}
                = IF Len(latest) < 2 THEN {} ELSE {Measure!NearestRank(latest, 50)}

(* A click that the policy lets cancel the motion leaves nothing pending or *)
(* owed, and the next input begins a session; an event goes to both axes or *)
(* to neither, and a continuous one to neither.                             *)
TwoAxes(x, y) == [a \in Dynamics!Both |-> IF a = "vertical" THEN x ELSE y]

Moving == {FoldLeft(AfterPulse, AtRest, p).axis : p \in BoundedSeq([after : {9000}, d : {3, -2}], 2)}

ASSUME CancelledForGood ==
    \A x, y \in Moving, t \in {9000, 18000, 30000} :
        /\ \A pair \in Dynamics!Cancel(TwoAxes(x, y), t, "click", {"click"}), a \in Dynamics!Both :
            /\ pair[a].pending = 0 /\ pair[a].owed = 0
            /\ Dynamics!SampleBoth(pair, t + 9000) # {}
            /\ Dynamics!Boundary(pair[a], t + 200000, 1) = "initial"
        /\ Dynamics!Cancel(TwoAxes(x, y), t, "click", {"action"}) = {TwoAxes(x, y)}
        /\ Dynamics!HandleEvent(TwoAxes(x, y), t, TwoAxes(1, 6), FALSE) = {}
        /\ Dynamics!HandleEvent(TwoAxes(x, y), t, TwoAxes(1, 2), TRUE) = {TwoAxes(x, y)}

ASSUME PresetsAreValid ==
    \A preset \in DynamicsGate!Presets : DynamicsGate!ValidParameters(DynamicsGate!Parameters(preset))

(* The experiment never runs on its own: whatever is asked for and whatever *)
(* the environment says, this build answers off; and a build that enables   *)
(* it still needs complete evidence.                                        *)
Evidence == [classes : {5, 6}, sessions : {29, 30}, regression : {-9, 500, 501},
             schedulerTail : {8000, 8001}, violations : {0, 1}]

Complete(e) == /\ e.classes >= 6 /\ e.sessions >= 30 /\ e.regression <= 500
               /\ e.schedulerTail <= 8000 /\ e.violations = 0

ASSUME ExperimentStaysOff ==
    \A preset \in DynamicsGate!Presets :
        /\ \A value \in {{}, {""}, {"0"}, {"1"}} :
               DynamicsGate!RuntimeDecision(preset, value).effective = "off"
        /\ \A e \in Evidence, killed \in BOOLEAN :
               (DynamicsGate!Gate(preset, killed, TRUE, {e}).effective = preset)
                   <=> (preset = "off" \/ (Complete(e) /\ ~killed))

-------------------------------------------------------------------------------
(* Traces.  A record that the debug console shows, a sample written of it,  *)
(* and the event replayed from the sample.                                  *)
Mouse == [model |-> "m", serial |-> "s", port |-> None]
RuleOf(reverse, step) ==
    [model |-> "m", serial |-> "s", port |-> None, alias |-> None, reverse |-> reverse,
     step |-> step, preset |-> None]

Settings ==
    [enabled : BOOLEAN, axes : SUBSET Trace!Axes, step : {0, 3}, preset : {"off"},
     reversedKinds : {{}, {"Mouse"}}, reverseOnlyRawInput : BOOLEAN,
     rules : {{}} \cup {{RuleOf(reverse, step)} : reverse \in {None, TRUE, FALSE}, step \in {None, 5}}]

Scrolls ==
    [kind : {"Mouse", "Trackpad"}, identity : {None, Mouse}, synthetic : BOOLEAN, posted : BOOLEAN,
     source : {"NotObserved", "Physical", "Virtual"}, continuous : BOOLEAN]

(* A replay under the configuration of the recording comes out as observed  *)
(* or the sample is counted as lacking context, save for a notch where a    *)
(* rule of the device has set the step, or has reversed it with the axis    *)
(* off: the reason tells of neither, so the count does not cover them.      *)
ASSUME ReplayExplainsItself ==
    \A config \in Settings, e \in Scrolls, paused \in BOOLEAN, n \in {-8, -1, 0, 1, 4} :
        LET s == Trace!RecordOf(config, e, paused, "vertical", n, 0)
        IN  \/ Trace!MatchesObserved(config, s)
            \/ Trace!RequiresOmittedContext(s)
            \/ /\ ~e.continuous /\ n \in {-1, 1}
               /\ \/ Trace!RuleValue(config.rules, e.identity, "step") # None
                  \/ Trace!RuleDecides(config, e) /\ s.reason = "AxisDisabled"

(* Records in the order of the ring make a trace, which starts at zero and  *)
(* keeps their intervals; without rules and pauses all of it is reproduced. *)
Plain == [enabled |-> TRUE, axes |-> {"vertical"}, step |-> 3, preset |-> "off", rules |-> {},
          reversedKinds |-> {"Mouse"}, reverseOnlyRawInput |-> TRUE]

PlainScroll == [kind |-> "Mouse", identity |-> None, synthetic |-> FALSE, posted |-> FALSE,
                source |-> "Physical", continuous |-> FALSE]

Recording(inputs, times) ==
    [i \in DOMAIN inputs |->
        Trace!RecordOf(Plain, PlainScroll, FALSE, inputs[i][1], inputs[i][2], times[i])]

Inputs == {<<"vertical", 1>>, <<"vertical", -2>>, <<"vertical", 0>>, <<"horizontal", 1>>}

ASSUME RecordingsMakeTraces ==
    \A inputs \in BoundedSeq(Inputs, 3) \ {<< >>}, gaps \in [1 .. 3 -> {0, 5, 9}] :
        LET times == [i \in DOMAIN inputs |-> 100 + FoldFunctionOnSet(+, 0, gaps, 1 .. i)]
            Mirrored == [i \in DOMAIN inputs |-> <<inputs[i][1], -inputs[i][2]>>]
        IN  /\ Trace!TraceOf(Recording(inputs, times)) # {}
            /\ \A samples \in Trace!TraceOf(Recording(inputs, times)) :
                \A lab \in Trace!Analyze(Plain, samples, 2, 6) :
                  /\ lab.matches = Len(inputs) /\ lab.omitted = 0
                  /\ lab.duration = times[Len(inputs)] - times[1]
                  /\ \A d \in lab.intervals : d.min > 0
                  /\ lab.axes["vertical"].samples + lab.axes["horizontal"].samples = Len(inputs)
                  /\ lab.turns = Trace!DirectionChanges(
                        CHOOSE t \in Trace!TraceOf(Recording(Mirrored, times)) : TRUE, 6)
                  /\ lab.sessions + lab.turns <= Len(inputs) + 1

-------------------------------------------------------------------------------
(* The order of flags makes no difference, the last of a flag counts, what  *)
(* was refused stays refused, and no identity is half given.                *)
FlagPairs ==
    {<<"--vendor-id", "0x7">>, <<"--product-id", "7">>, <<"--serial-number", " 7">>,
     <<"--location-id", "0">>, <<"--location-id", "7">>, <<"--dy", "-7">>, <<"--delta-y", "7">>,
     <<"--continuous", "yes">>, <<"--dx", "--dy">>}

Flat(pairs) == FlattenSeq(pairs)

FieldOf(pair) == Cli!SimulateFlags[pair[1]]

ASSUME SimulateReadsItsFlags ==
    \A pairs \in BoundedSeq(FlagPairs, 3), extra \in FlagPairs :
        LET r == Cli!ParseSimulate(Flat(pairs))
            more == Cli!ParseSimulate(Flat(pairs \o <<extra>>))
        IN  /\ (\A i, j \in DOMAIN pairs : i # j => FieldOf(pairs[i]) # FieldOf(pairs[j]))
                    => Cli!ParseSimulate(Flat(Reverse(pairs))) = r
            /\ (\E i \in DOMAIN pairs : pairs[i][2] \in {"0", "--dy"}) => more.command = "Usage"
            /\ Cli!ParseSimulate(Append(Flat(pairs), extra[1])).command = "Usage"
            /\ r.command = "Simulate" =>
                 LET o == r.options
                     e == Cli!SimulatedEvent(o, Mouse)
                 IN /\ (o.vendor = {}) = (o.product = {})
                    /\ o.serial \cup o.location # {} => o.vendor # {}
                    /\ e.continuous => e.identity = {}
                    /\ more.command = "Simulate" /\ FieldOf(extra) = "dy"
                         => more.options = [o EXCEPT !.dy = Numerals[extra[2]]]

(* The lab is given options it accepts, and a path that is not a flag.      *)
LabWords == {"--baseline-gain", "--clutch-gap-ms", "0", "7", "100", "101", "-7", "--help", "t.toml"}

ASSUME LabOptionsAreValid ==
    \A words \in BoundedSeq(LabWords, 5) :
        LET r == Cli!ParseArgs(<<"trace-lab">> \o words) IN
        r.command = "TraceLab" =>
            /\ Trace!ValidOptions(r.options["--baseline-gain"], r.options["--clutch-gap-ms"])
            /\ r.options["path"] \cap DashedWords = {} /\ r.options["path"] # {}
            /\ Len(words) = 1 + 2 * Cardinality({i \in DOMAIN words : words[i] \in Cli!TraceLabFlags})

(* Reports agree: the file that is valid to validate-config is the one the  *)
(* diagnostics use; doctor's verdict is what run meets; and startup-status  *)
(* warns exactly when it says the two are out of sync.                      *)
ASSUME ReportsAgree ==
    /\ \A file \in {"missing", "valid", "invalid", "unreadable"} :
        /\ Cli!Validation(file).ok <=> Cli!DiagnosticConfig(file, FALSE).state # "Error"
        /\ \A beta \in BOOLEAN, words \in BoundedSeq({"--latest", "--all"}, 2) :
              LET r == Cli!ParseArgs(<<"open-releases">> \o words)
              IN  r.command = "OpenReleases"
                    => (Cli!ReleaseChannel(r.options, file, beta) = {}
                            <=> words = << >> /\ ~Cli!Validation(file).ok)
        /\ ~Cli!DiagnosticConfig(file, FALSE).writes
    /\ \A enabled, accessible \in BOOLEAN :
        (Cli!DoctorStatus(enabled, accessible) = "ON")
            <=> Cli!RunOutcome(enabled, accessible, "AlreadyRunning")
                    # Cli!RunOutcome(enabled, accessible, "Stopped")
    /\ \A report \in [flag : BOOLEAN, installed : BOOLEAN, forThisBinary : BOOLEAN] :
        Cli!ReportInSync(report) <=> Cli!SyncWarning(report) = {}
    /\ Cli!CommandForLaunch(<< >>, TRUE) = [command |-> "Ui"]
    /\ \A words \in BoundedSeq({"run", "ui"}, 2) :
        words # << >> => Cli!CommandForLaunch(words, TRUE) = Cli!CommandForLaunch(words, FALSE)

-------------------------------------------------------------------------------
(* A configuration that is exported comes back as it was, and only a valid  *)
(* one is exported; whatever document is previewed, what is offered is      *)
(* valid, and is what the store would read.  A document of a newer version  *)
(* is told to be newer, not to have unknown fields, in both places.         *)
RuleTable(f, value) == ("vendor_id" :> 1) @@ ("product_id" :> 2) @@ (f :> value)

RuleTables ==
    {("vendor_id" :> 1), ("vendor_id" :> 1) @@ ("product_id" :> 2), RuleTable("reverse", TRUE),
     RuleTable("colour", 1), RuleTable("step_size", 21), RuleTable("step_size", 20),
     RuleTable("location_id", 0), RuleTable("location_id", 3) @@ ("serial_number" :> <<"a">>),
     RuleTable("location_id", 3), RuleTable("serial_number", <<"blank", "a">>),
     RuleTable("alias", <<"a", "blank", "b">>), RuleTable("alias", <<"a", "control", "b">>)}

Versions == {[is |-> "absent"], [is |-> "other"]} \cup {[is |-> "integer", value |-> v] : v \in -1 .. 2}

FieldSets ==
    {("discrete_scroll_step_size" :> n) : n \in {-1, 0, 20, 21}}
        \cup {("device_rules" :> rules) @@ ("enabled" :> FALSE) : rules \in BoundedSeq(RuleTables, 2)}
        \cup {("colour" :> 1), ("reverse_mouse" :> FALSE)}

Documents == [version : Versions, fields : FieldSets, wellTyped : BOOLEAN]

Offered(outcome) == "candidate" \in DOMAIN outcome

ASSUME DocumentsComeBack ==
    \A doc \in Documents :
        LET p == Document!Preview(doc)
            s == Document!StoreReads(doc)
            newer == doc.version.is = "integer" /\ doc.version.value > 1
        IN  /\ Offered(p) =>
                 /\ Document!Valid(1, p.candidate)
                 /\ \A copy \in Document!Export(p.candidate) :
                        Document!Preview(copy) = [candidate |-> p.candidate, migrated |-> FALSE]
                 /\ Document!Export(p.candidate) # {}
                 /\ \A f \in DOMAIN doc.fields \ {"device_rules"} : p.candidate[f] = doc.fields[f]
                 /\ ~p.migrated \/ doc.version.is = "absent" => s = [candidate |-> p.candidate]
            /\ newer => p = Document!Refusal("UnsupportedVersion")
            /\ newer /\ Document!ConfigOf(doc) # {} => s = Document!Refusal("InvalidConfig")
            /\ Offered(s) => Document!Export(s.candidate) # {}

(* The summary says that nothing is reversed only if no device is.          *)
ASSUME SummaryTellsOfRules ==
    \A enabled, mouse, pinned \in BOOLEAN :
        LET rules == IF pinned THEN <<Document!RuleOf(RuleTable("reverse", TRUE))>> ELSE << >>
            config == [Document!DefaultConfig EXCEPT !.enabled = enabled, !.reverse_mouse = mouse,
                         !.reverse_magic_mouse = FALSE, !.device_rules = rules]
        IN  (Document!Summary(config).says \in {"disabled", "no device"})
                <=> ~(enabled /\ (mouse \/ pinned))

(* What is read is the whole contents that the file had when it was opened, *)
(* a private regular file that was selected, as long as no write leaves the *)
(* time of modification as it was.                                          *)
FileKinds == {"file", "symlink", "directory"}

FilesAt(times) ==
    [kind : FileKinds, id : {1, 2}, worldWritable : BOOLEAN, modified : times, length : {4, 6}]

ASSUME ReadsOneVersion ==
    \A selected, opened \in FilesAt({1}), t \in [{"begin", "end", "after"} -> 1 .. 3], n \in {4, 6} :
        t["begin"] <= t["end"] /\ t["end"] <= t["after"] =>
            LET After == [opened EXCEPT !.modified = t["after"]]
                Read == [opened EXCEPT !.length = IF t["begin"] = 1 /\ t["end"] = 1 THEN @ ELSE n]
            IN  Document!ReadSecurely(selected, opened, Read, After) =>
                    /\ t["begin"] = 1 /\ t["end"] = 1 /\ Read.length <= 5
                    /\ opened.kind = "file" /\ ~opened.worldWritable /\ opened.id = selected.id

-------------------------------------------------------------------------------
(* The ring has the latest records that did not meet a held lock, in order, *)
(* and the others are counted.                                              *)
ASSUME RingKeepsTheLatest ==
    \A contended \in BoundedSeq(BOOLEAN, 6) :
        LET log == FoldLeft(LAMBDA l, i : Diagnose!TryPush(l, i, contended[i]), Diagnose!EmptyLog,
                            [i \in DOMAIN contended |-> i])
            written == SelectSeq([i \in DOMAIN contended |-> i], LAMBDA i : ~contended[i])
            from == IF Len(written) > 3 THEN Len(written) - 3 ELSE 0
        IN  /\ log.events = SubSeq(written, from + 1, Len(written))
            /\ log.dropped = Len(contended) - Len(written)

(* Attempts of one reason leave those of another alone; the summary has for *)
(* a reason the attempts made, or nothing once its records are displaced; a *)
(* permission is only said to be restored after a loss.                     *)
Recorded(audit, step) ==
    IF step[2] THEN Diagnose!RecordAttempt(audit, step[1], "Rearmed")
    ELSE Diagnose!RecordStatus(audit, step[1], "Restored")

ASSUME AttemptsAreOfTheirReason ==
    \A steps \in BoundedSeq({"Wake", "TapTimeout"} \X BOOLEAN, 6) :
        LET audit == FoldLeft(Recorded, Diagnose!NewAudit, steps)
            shown == Diagnose!RecoveryAttempts(audit.records)
            Made(r) == Cardinality({i \in DOMAIN steps : steps[i] = <<r, TRUE>>})
        IN  /\ \A r \in {"Wake", "TapTimeout"} :
                 /\ audit.attempts[r] = (IF Made(r) > 4 THEN 4 ELSE Made(r))
                 /\ r \in DOMAIN shown => shown[r] = audit.attempts[r]
                 /\ (\E i \in DOMAIN steps : i > Len(steps) - 3 /\ steps[i] = <<r, TRUE>>)
                        => r \in DOMAIN shown
            /\ \A i \in 2 .. Len(audit.records) :
                    audit.records[i].sequence = audit.records[i - 1].sequence + 1

ASSUME RestoredAfterLoss ==
    \A seen \in BoundedSeq(BOOLEAN \X BOOLEAN, 3) :
        LET Step(s, o) == [audit |-> Diagnose!PermissionObserved(s.audit, o[1], s.was, o[2]), was |-> o[2]]
            records == FoldLeft(Step, [audit |-> Diagnose!NewAudit, was |-> TRUE], seen).audit.records
        IN  \A i \in DOMAIN records :
                records[i].action = "Restored" => \E j \in 1 .. i - 1 : records[j].action = "Suspended"

(* Every decision is counted once in the summary: in one outcome, one kind  *)
(* and one reason, whichever the transformation gives; the filters of the   *)
(* console part the events among them; a failed export keeps the receipt.   *)
Decisions ==
    {[kind |-> e.kind, reason |-> Trace!DecisionReason(config, e, paused, flipped)] :
        config \in Settings, e \in Scrolls, paused \in BOOLEAN, flipped \in BOOLEAN}

SumOver(f) == FoldFunction(+, 0, f)

ASSUME SummaryCountsAll ==
    \A events \in [1 .. 2 -> Decisions] \cup {<< >>} :
        LET reasons == Diagnose!ReasonCounts(events) IN
        /\ SumOver(Diagnose!OutcomeCounts(events)) = Len(events)
        /\ SumOver(Diagnose!KindCounts(events)) = Len(events)
        /\ SumOver([i \in DOMAIN reasons |-> reasons[i].count]) = Len(events)
        /\ \A i \in 2 .. Len(reasons) : reasons[i].count <= reasons[i - 1].count
        /\ Len(events) = SumOver([f \in {"Reversed", "Passed", "Ignored"} |->
                                    Len(Diagnose!Filtered(events, f, LAMBDA e : TRUE))])

ASSUME ReceiptsOfTheLatestExport ==
    \A results \in BoundedSeq({[outcome |-> "receipt", value |-> "a"], [outcome |-> "receipt", value |-> "b"],
                               [outcome |-> "cancelled"], [outcome |-> "error", value |-> "e"]}, 4) :
        LET console == FoldLeft(Diagnose!ExportApplied,
                                [receipt |-> {}, exportError |-> {}, revealError |-> {}], results)
            made == SelectSeq(results, LAMBDA r : r.outcome = "receipt")
            telling == SelectSeq(results, LAMBDA r : r.outcome # "cancelled")
        IN  /\ console.receipt = IF made = << >> THEN {} ELSE {Last(made).value}
            /\ (console.exportError # {}) <=> (telling # << >> /\ Last(telling).outcome = "error")
            /\ Diagnose!ExportDirectory(console.receipt, {}) = {"config"}
            /\ Diagnose!ExportDirectory(console.receipt, {"a", "b", "Debug Logs"})
                    = IF made = << >> THEN {"Debug Logs"} ELSE console.receipt

(* Taking each letter where it first comes finds a word exactly if its      *)
(* letters are there in order; a word found whole beats one that is not.    *)
Words == BoundedSeq({"a", "b", "c"}, 4)

Embeds(haystack, needle) ==
    \E places \in [DOMAIN needle -> DOMAIN haystack] :
        \A i \in DOMAIN needle :
            haystack[places[i]] = needle[i] /\ \A j \in 1 .. i - 1 : places[j] < places[i]

ASSUME SearchFindsSubsequences ==
    \A h \in Words, n \in BoundedSeq({"a", "b"}, 3) \ {<< >>} :
        LET score == Diagnose!FuzzyScore(h, n) IN
        /\ score # {} <=> Embeds(h, n)
        /\ \A x \in score : x >= 500 <=> \E i \in 0 .. Len(h) - Len(n) : SubSeq(h, i + 1, i + Len(n)) = n

(* A session keeps its target and its generation until it ends or pauses,   *)
(* whatever the pointer is over, and generations only grow.                 *)
Moves == [pids : {{}, {0}, {7}, {8}}, phase : {"Direct", "Momentum", "Ended"}, after : {0, 5, 6}]

Observed(state, move) ==
    LET t == state.t + move.after
        results == Session!Observe(state.pin, move.pids, move.phase, t)
    IN  [t |-> t, pin |-> Session!PinAfter(state.pin, move.pids, move.phase, t),
         log |-> Append(state.log, UNION {r.targets : r \in results})]

ASSUME SessionsKeepTheirTarget ==
    \A moves \in BoundedSeq(Moves, 3) :
        LET log == FoldLeft(Observed, [t |-> 0, pin |-> Session!NoSession, log |-> << >>], moves).log
        IN  \A i \in DOMAIN log : \A x \in log[i] :
              /\ 0 \notin x.targets
              /\ x.new => /\ moves[i].phase = "Direct"
                          /\ \A j \in 1 .. i - 1 : \A y \in log[j] : y.generation < x.generation
              /\ ~x.new => /\ i > 1 /\ moves[i].after <= 5 /\ moves[i - 1].phase # "Ended"
                           /\ \E y \in log[i - 1] : y.targets = x.targets /\ y.generation = x.generation
=================================================================================
