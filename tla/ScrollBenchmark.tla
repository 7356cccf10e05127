---------------------------- MODULE ScrollBenchmark ----------------------------
(***************************************************************************)
(* The scroll benchmark: the matrix of cases, a trial's incremental         *)
(* measurement (scroll_benchmark.rs) and the session around it, one event   *)
(* of a frame of its window per step (ui/scroll_benchmark.rs).  Distances   *)
(* are in multiples of a step of the wheel and times in multiples of 33 ms; *)
(* what the window only displays (the latest result, errors, the place of   *)
(* the last export) is left out.                                            *)
(***************************************************************************)
EXTENDS Integers, Sequences, FiniteSets

CONSTANTS
    Matrices,    \* the matrices of the presets: sequences of cases
    Deltas,      \* scroll amounts that one event of a frame may carry
    Bad,         \* an amount that is not a finite number
    NoTrial,     \* no trial
    MaxClock,    \* bound: time
    MaxEvents    \* bound: events of a session

VARIABLES
    clock,       \* ui_time_us
    phase,       \* "Setup", "Ready", "Running", "Review" or "Results"
    cases,       \* the cases of the session
    current,     \* current_case, from 1
    measured,    \* the trial under way, or NoTrial
    frame,       \* {} between frames, else {the events of the frame still to come}
    results,     \* the results of the session
    track        \* history: the positions of the trial, [at, position]

benchmarkVars == <<clock, phase, cases, current, measured, frame, results, track>>

SettleTime == 2    \* SETTLE_TIME_US

-------------------------------------------------------------------------------
(* The matrix: every combination, distances outermost, or nothing if an     *)
(* axis is empty, there are too many or one case makes no sense.            *)

MaxCases == 128
MaxDistance == 100000

ValidCase(c) ==
    /\ c.distance \in 1 .. MaxDistance
    /\ c.viewport \in 160 .. 1200
    /\ c.tolerance > 0 /\ 2 * c.tolerance < c.viewport /\ c.tolerance < c.distance

Combination(distances, viewports, tolerances, i) ==
    [distance  |-> distances[i \div (Len(viewports) * Len(tolerances)) + 1],
     viewport  |-> viewports[((i \div Len(tolerances)) % Len(viewports)) + 1],
     tolerance |-> tolerances[(i % Len(tolerances)) + 1]]

FromAxes(distances, viewports, tolerances) ==
    LET count == Len(distances) * Len(viewports) * Len(tolerances)
        all == [i \in 1 .. count |-> Combination(distances, viewports, tolerances, i - 1)]
    IN IF count \in 1 .. MaxCases /\ \A i \in 1 .. count : ValidCase(all[i]) THEN all ELSE << >>

Lower(c) == c.distance - c.tolerance
Upper(c) == c.distance + c.tolerance

(* What the presets hold, and what the window hands on of an event. *)
ASSUME BenchmarkAssumption ==
    /\ \A m \in Matrices :
        /\ m # << >> /\ m \in Seq([distance : Int, viewport : Int, tolerance : Int])
        /\ \A i \in DOMAIN m : ValidCase(m[i])
    /\ Deltas \ {Bad} \subseteq Int

InTolerance(c, position) == position \in Lower(c) .. Upper(c)

-------------------------------------------------------------------------------
(* One trial.                                                               *)

Larger(x, y) == IF x > y THEN x ELSE y

NewTrial(c) ==
    [case |-> c, started |-> clock, lastMovement |-> clock, position |-> 0, direction |-> 0,
     overshot |-> FALSE, switchbacks |-> 0, overshoot |-> 0, events |-> 0]

(* apply_delta: the document begins at 0, and what the clamp eats is no     *)
(* movement.                                                                *)
ApplyDelta(t, delta) ==
    LET position == Larger(t.position + delta, 0)
        direction == IF position > t.position THEN 1 ELSE -1
        over == Larger(position - Upper(t.case), 0)
    IN IF position = t.position THEN t
       ELSE [t EXCEPT !.position = position,
                      !.switchbacks = IF t.overshot /\ t.direction \notin {0, direction}
                                      THEN @ + 1 ELSE @,
                      !.direction = direction,
                      !.lastMovement = clock,
                      !.events = @ + 1,
                      !.overshot = @ \/ over > 0,
                      !.overshoot = Larger(@, over)]

ForgetfulDelta(t, delta) ==    \* mutant of Applied: a clamped event counts as a movement
    LET after == ApplyDelta(t, delta)
    IN [after EXCEPT !.direction = IF delta > 0 THEN 1 ELSE -1, !.events = t.events + 1]

Applied(t, delta) == ApplyDelta(t, delta)

UnsettledWait(t) == clock - t.lastMovement >= SettleTime - 1    \* mutant of Waited

Waited(t) == clock - t.lastMovement >= SettleTime

Settled(t) == t.events # 0 /\ InTolerance(t.case, t.position) /\ Waited(t)

Result(t) ==
    [case |-> t.case, time |-> clock - t.started, switchbacks |-> t.switchbacks,
     overshoot |-> t.overshoot, events |-> t.events]

-------------------------------------------------------------------------------
(* The session.                                                             *)

StartSession(matrix) ==
    /\ phase = "Setup" /\ frame = {}
    /\ phase' = "Ready" /\ cases' = matrix /\ current' = 1
    /\ measured' = NoTrial /\ results' = << >> /\ track' = << >>
    /\ UNCHANGED <<clock, frame>>

EndSession ==
    /\ phase # "Setup" /\ frame = {}
    /\ phase' = "Setup" /\ measured' = NoTrial /\ track' = << >>
    /\ UNCHANGED <<clock, frame, cases, current, results>>

StartTrial ==
    /\ phase = "Ready" /\ frame = {}
    /\ phase' = "Running"
    /\ measured' = NewTrial(cases[current])
    /\ track' = << >>
    /\ UNCHANGED <<clock, frame, cases, current, results>>

(* The pointer is over the stage: all events that have come are taken. *)
BeginFrame(deltas) ==
    /\ phase = "Running" /\ frame = {}
    /\ frame' = {deltas}
    /\ UNCHANGED <<clock, phase, cases, current, measured, results, track>>

(* One event; an amount that cannot be used ends the loop and the trial. *)
ApplyEvent ==
    \E deltas \in frame :
        /\ deltas # << >>
        /\ IF Head(deltas) = Bad
           THEN /\ frame' = {<< >>} /\ phase' = "Review"
                /\ UNCHANGED <<measured, track>>
           ELSE /\ frame' = {Tail(deltas)} /\ UNCHANGED phase
                /\ measured' = Applied(measured, Head(deltas))
                /\ track' = Append(track, [at |-> clock, position |-> measured'.position])
        /\ UNCHANGED <<clock, cases, current, results>>

(* Then the question whether the target is reached, even after a bad event. *)
EndFrame ==
    /\ << >> \in frame
    /\ frame' = {}
    /\ IF Settled(measured)
       THEN phase' = "Review" /\ results' = Append(results, Result(measured))
       ELSE UNCHANGED <<phase, results>>
    /\ UNCHANGED <<clock, cases, current, measured, track>>

ContinueReview ==
    /\ phase = "Review" /\ frame = {}
    /\ measured' = NoTrial /\ track' = << >>
    /\ IF current = Len(cases) THEN phase' = "Results" /\ UNCHANGED current
                               ELSE phase' = "Ready" /\ current' = current + 1
    /\ UNCHANGED <<clock, cases, frame, results>>

Tick ==
    /\ clock < MaxClock /\ frame = {}
    /\ clock' = clock + 1
    /\ UNCHANGED <<phase, frame, cases, current, measured, results, track>>

BenchmarkInit ==
    /\ clock = 0 /\ phase = "Setup" /\ cases = << >> /\ current = 1
    /\ measured = NoTrial /\ frame = {} /\ results = << >> /\ track = << >>

(* What the stage may see of the wheel in a frame; the bounds are on events. *)
MaxPerFrame == 2

FrameEvents ==
    {deltas \in UNION {[1 .. n -> Deltas] : n \in 0 .. MaxPerFrame} :
        Len(track) + Len(deltas) <= MaxEvents}

BenchmarkNext ==
    \/ \E matrix \in Matrices : StartSession(matrix)
    \/ EndSession \/ StartTrial \/ ContinueReview \/ Tick
    \/ (\E deltas \in FrameEvents : BeginFrame(deltas)) \/ ApplyEvent \/ EndFrame

BenchmarkSpec == BenchmarkInit /\ [][BenchmarkNext]_benchmarkVars

-------------------------------------------------------------------------------
(* What the measurements mean, said of the whole track of a trial.          *)

Moves(trail) ==
    {i \in DOMAIN trail :
        trail[i].position # (IF i = 1 THEN 0 ELSE trail[i - 1].position)}

Forward(trail, i) == trail[i].position > (IF i = 1 THEN 0 ELSE trail[i - 1].position)

Turns(trail) ==
    {i \in Moves(trail) :
        \E j \in Moves(trail) :
            /\ j < i /\ \A k \in Moves(trail) : k <= j \/ k >= i
            /\ Forward(trail, i) # Forward(trail, j)}

SwitchbacksOf(trail, c) ==
    Cardinality({i \in Turns(trail) : \E j \in 1 .. i - 1 : trail[j].position > Upper(c)})

OvershootOf(trail, c) ==
    CHOOSE n \in {0} \cup {trail[i].position - Upper(c) : i \in DOMAIN trail} :
        n >= 0 /\ \A i \in DOMAIN trail : trail[i].position - Upper(c) <= n

(* A result enters the session only from the running trial of the current   *)
(* case, at most once, when the position rests in the tolerance and nothing *)
(* has moved for the settling time; and what the trial has counted step by  *)
(* step is what the track says of it: turns after the target was first      *)
(* overshot, the farthest overshoot, and the movements that moved.          *)
BenchmarkResultEarned ==
    [][LET r == results'[Len(results')]
           rest == track'[Len(track')]
       IN Len(results') > Len(results) =>
          /\ frame # {} /\ results' = Append(results, r)
          /\ Len(results) < current /\ r.case = cases[current]
          /\ InTolerance(r.case, rest.position)
          /\ \A i \in Moves(track') : clock - track'[i].at >= SettleTime
          /\ r.switchbacks = SwitchbacksOf(track', r.case)
          /\ r.overshoot = OvershootOf(track', r.case)
          /\ r.events = Cardinality(Moves(track'))]_benchmarkVars
================================================================================
