---------------------------- MODULE ScrollDynamics ----------------------------
(***************************************************************************)
(* One axis of the experimental smooth scrolling (scroll_dynamics/axis.rs):*)
(* part of a wheel tick is emitted at once, the rest becomes a tail that is*)
(* paid out until its deadline; a tick in the other direction or after a   *)
(* long gap begins a new session and cancels the tail of the old one.      *)
(*                                                                         *)
(* Distances are whole numbers of some unit, and which share of a distance *)
(* goes out now is left open: it may be any.  The ledger is one number, the*)
(* distance accepted and neither emitted nor cancelled.                    *)
(***************************************************************************)
EXTENDS Integers

CONSTANTS
    U64Max,         \* the largest timestamp and counter
    TailDuration,   \* tail_duration_us of the preset; 0 for SmoothPreset::Off
    SessionGap,     \* SESSION_GAP_US
    StopThreshold   \* STOP_THRESHOLD_POINTS

ASSUME DynamicsAssumption ==
    /\ U64Max \in Nat /\ TailDuration \in Nat /\ SessionGap \in Nat
    /\ StopThreshold \in Nat

Never == -1
Timestamps == 0..U64Max

(* An idle axis has pending = 0; sampled and deadline then mean nothing. *)
Fresh == [last |-> Never, input |-> Never, direction |-> 0, generation |-> 0,
          pending |-> 0, sampled |-> 0, deadline |-> 0, owed |-> 0]

Active(x) == x.pending # 0

Direction(d) == IF d > 0 THEN 1 ELSE IF d < 0 THEN -1 ELSE 0

(* The distances that are a share of d, none and all of it included. *)
Shares(d) == IF d > 0 THEN 0..d ELSE d..0

(* A tail no longer than the threshold is not kept. *)
Settle(d) == IF d \in -StopThreshold..StopThreshold THEN 0 ELSE d

(* What may be left of the tail at time t. *)
Remaining(x, t) ==
    IF t <= x.sampled THEN {x.pending}
    ELSE IF t >= x.deadline THEN {0}
    ELSE {Settle(d) : d \in Shares(x.pending)}

(* finish_emission: an axis that is idle emits whatever the ledger owes. *)
Finish(x, emitted) ==
    [x EXCEPT !.owed = IF x.pending = 0 THEN 0 ELSE @ - emitted]

CancelNothing(x) == x    \* mutant of CancelPending

CancelPending(x) == [x EXCEPT !.pending = 0, !.owed = 0]

Boundary(x, t, d) ==
    IF d = 0 THEN "none"
    ELSE IF x.input = Never THEN "initial"
    ELSE IF t - x.input > SessionGap THEN "gap"
    ELSE IF x.direction # 0 /\ x.direction # Direction(d) THEN "reversal"
    ELSE "none"

(* handle_input refuses a timestamp from the past, a deadline beyond the    *)
(* largest timestamp and a session beyond the largest counter.              *)
InputRejected(x, t, d) ==
    \/ t < x.last
    \/ d # 0 /\ TailDuration # 0 /\ t + TailDuration > U64Max
    \/ Boundary(x, t, d) # "none" /\ x.generation = U64Max

(* The axis in the session that an input of distance d belongs to. *)
InSession(x, t, d) ==
    CASE Boundary(x, t, d) = "none" -> x
      [] Boundary(x, t, d) = "initial" ->
            [x EXCEPT !.generation = @ + 1, !.direction = 0]
      [] OTHER ->
            [CancelPending(x) EXCEPT !.generation = @ + 1, !.direction = 0]

(* The share of an input that goes out at once is everything when the preset*)
(* is Off and the preset's percentage, here any share, otherwise.           *)
Immediate(d) == IF TailDuration = 0 THEN {d} ELSE Shares(d)

(* The axis once the tail was advanced to left and the part now of the      *)
(* input emitted with it.                                                   *)
AcceptedInput(x, t, d, left, now) ==
    LET end == t + TailDuration
    IN  Finish([last |-> t, input |-> t, direction |-> Direction(d),
                generation |-> x.generation, pending |-> Settle(left + d - now),
                sampled |-> t, owed |-> x.owed + d,
                deadline |-> IF left # 0 /\ x.deadline > end THEN x.deadline
                             ELSE end],
               x.pending - left + now)

Advanced(x, t, left) ==
    Finish([x EXCEPT !.last = t, !.pending = left, !.sampled = t],
           x.pending - left)

(* handle_input: the states an accepted input may lead to. *)
HandleInput(x, t, d) ==
    LET s == InSession(x, t, d)
    IN  IF d = 0
        THEN {Advanced(s, t, left) : left \in Remaining(s, t)}
        ELSE {AcceptedInput(s, t, d, left, now) :
                left \in Remaining(s, t), now \in Immediate(d)}

(* sample: the states a sample may lead to; refused before last. *)
Sample(x, t) == {Advanced(x, t, left) : left \in Remaining(x, t)}
===============================================================================
