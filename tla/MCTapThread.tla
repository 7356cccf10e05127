------------------------------ MODULE MCTapThread -------------------------------
(* What the thread of a tap computes: the source and the transformation of  *)
(* each scroll event, and the tails of the smooth scrolling.  The two share *)
(* no variable, so every behaviour of the thread, seen from one of them, is *)
(* a behaviour of that one alone: TLC explores them one at a time.          *)
EXTENDS EventPath, ScrollScheduler, TLC

VARIABLE part    \* the part that TLC explores

ThreadInit ==
    /\ Init /\ SchedulerInit
    /\ part \in {"events", "tails"}
    /\ part = "tails" => config.enabled /\ pads = {"Trackpad"}

ThreadNext ==
    /\ UNCHANGED part
    /\ IF part = "events" THEN Next ELSE UNCHANGED vars
    /\ IF part = "tails" THEN SchedulerNext ELSE UNCHANGED schedulerVars

ThreadSpec == ThreadInit /\ [][ThreadNext]_<<vars, schedulerVars, part>>

-------------------------------------------------------------------------------
(* Two wheels of one model on two addresses, the second a virtual device;   *)
(* the phases and origins of events that the code tells apart; a            *)
(* configuration that treats the sources differently, on and off.           *)
CONSTANTS w1, w2

TwoWheels == {w1, w2}
OneModel == (w1 :> [model |-> "m", serial |-> "s1", port |-> None])
              @@ (w2 :> [model |-> "m", serial |-> "s2", port |-> None])
OneVirtual == (w1 :> "Physical") @@ (w2 :> "Virtual")

Event(continuous, phase, momentum) ==
    [continuous |-> continuous, phase |-> phase, momentum |-> momentum,
     posted |-> FALSE, synthetic |-> FALSE, held |-> "free"]
Direct(phase) == Event(TRUE, phase, "None")
Notch == Event(FALSE, "None", "None")

SomeInventories == {{"Trackpad"}, {"MagicMouse"}, {"Trackpad", "MagicMouse"}}

SomeEvents ==
    {Direct(p) : p \in {"None", "Began", "Changed", "Ended", "MayBegin"}}
      \cup {Event(TRUE, "None", m) : m \in {"Coasting", "Unknown"}}
      \cup {[Direct(p) EXCEPT !.posted = TRUE] : p \in {"Began", "Changed"}}
      \cup {Notch, [Notch EXCEPT !.posted = TRUE], [Notch EXCEPT !.held = "contended"],
            [Direct("Began") EXCEPT !.held = "paused"],
            [Direct("Changed") EXCEPT !.synthetic = TRUE]}

ReverseMice ==
    [enabled |-> TRUE, axes |-> {"vertical"}, reversedKinds |-> {"Mouse", "MagicMouse"},
     step |-> 3, preset |-> "Off", reverseOnlyRawInput |-> TRUE,
     rules |-> {[InheritingFor(OneModel[w1]) EXCEPT !.reverse = FALSE]}]
OnAndOff == {ReverseMice, [ReverseMice EXCEPT !.enabled = FALSE]}

AddressesAlike == Permutations(Addresses)

(* Ticks of either axis alone, and of both with one of them in reverse. *)
Vector(v, h) == [a \in Axes |-> IF a = "vertical" THEN v ELSE h]
WheelTicks == {Vector(3, 0), Vector(-3, 2), Vector(0, 3)}
================================================================================
