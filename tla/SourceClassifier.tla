--------------------------- MODULE SourceClassifier ---------------------------
(***************************************************************************)
(* The heuristic that tells a trackpad from a Magic Mouse                   *)
(* (device_classifier.rs), as operators on the classifier's record:         *)
(*   hint      what the inventory says is connected;                        *)
(*   touch     the gesture observation not yet consumed by a scroll, its    *)
(*             kind and age, or NoTouch;                                    *)
(*   lastKind  the kind of the last continuous scroll, lastAge its age;     *)
(*   active    the kind the direct gesture in progress is pinned to, or     *)
(*             "none".                                                      *)
(*                                                                         *)
(* Instants are kept as ages: an age counts up to the first value at which  *)
(* no comparison of the code can change, and stays there.  An event is a    *)
(* record with the fields continuous, phase and momentum.                   *)
(***************************************************************************)
EXTENDS Naturals

CONSTANTS
    TouchWindow,    \* TRACKPAD_TOUCH_WINDOW, the first age that is too old
    ResetWindow     \* SOURCE_RESET_WINDOW, the last age that still counts

ASSUME WindowsAssumption == TouchWindow \in Nat /\ ResetWindow \in Nat

Hints == {"TrackpadOnly", "MagicMouseOnly", "Both", "Unknown"}
ContinuousKinds == {"Trackpad", "MagicMouse"}
Fallback == "Trackpad"

NoTouch == [kind |-> "none", age |-> 0]

(* ContinuousSourceHint::from_presence *)
HintOf(present) ==
    CASE present = {"Trackpad"} -> "TrackpadOnly"
      [] present = {"MagicMouse"} -> "MagicMouseOnly"
      [] present = {"Trackpad", "MagicMouse"} -> "Both"
      [] OTHER -> "Unknown"

NewClassifier(hint) ==
    [hint     |-> hint,
     touch    |-> NoTouch,
     lastKind |-> IF hint = "MagicMouseOnly" THEN "MagicMouse" ELSE "Trackpad",
     lastAge  |-> ResetWindow + 1,
     active   |-> "none"]

TouchedBy(fingers) == IF fingers = 1 THEN "MagicMouse" ELSE "Trackpad"

ObserveGesture(c, fingers) ==
    IF fingers = 0 THEN c
    ELSE [c EXCEPT !.touch = [kind |-> TouchedBy(fingers), age |-> 0]]

HintSwapped(c, hint) == [c EXCEPT !.hint = hint]    \* mutant of UpdateHint: old evidence stays

UpdateHint(c, hint) == IF c.hint = hint THEN c ELSE NewClassifier(hint)

Older(age, top) == IF age < top THEN age + 1 ELSE top

AgedTouch(t) == IF t = NoTouch THEN NoTouch ELSE [t EXCEPT !.age = Older(@, TouchWindow)]

Aged(c) == [c EXCEPT !.lastAge = Older(@, ResetWindow + 1), !.touch = AgedTouch(@)]

-------------------------------------------------------------------------------
(* The decision with both sources connected.                                *)

FirstOf(kind, other) == IF kind # "none" THEN kind ELSE other

Observed(c) == IF c.touch.age < TouchWindow THEN c.touch.kind ELSE "none"

DirectPhases == {"Began", "Changed", "Ended", "Cancelled", "MayBegin"}

RestartedDirect(c, phase) ==    \* mutant of DirectKind: nothing is pinned
    FirstOf(Observed(c), Fallback)

DirectKind(c, phase) ==
    CASE phase = "Changed" -> FirstOf(Observed(c), FirstOf(c.active, Fallback))
      [] phase \in {"Ended", "Cancelled"} ->
             FirstOf(c.active, FirstOf(Observed(c), Fallback))
      [] OTHER -> FirstOf(Observed(c), Fallback)

ActiveAfter(c, phase, kind) ==
    CASE phase \in {"Began", "Changed"} -> kind
      [] phase \in {"Ended", "Cancelled"} -> "none"
      [] OTHER -> c.active

MomentumKind(c, momentum) ==
    CASE momentum = "Coasting" -> c.lastKind    \* Began, Continued and Ended
      [] momentum = "Unknown" -> FirstOf(Observed(c), Fallback)
      [] OTHER -> FirstOf(Observed(c),
                          IF c.lastAge <= ResetWindow THEN c.lastKind ELSE Fallback)

MagicByElimination(c, e) ==    \* mutant of KindWithBoth: not a trackpad, so a mouse
    FirstOf(Observed(c), "MagicMouse")

KindWithBoth(c, e) ==
    IF e.phase \in DirectPhases THEN DirectKind(c, e.phase)
    ELSE MomentumKind(c, e.momentum)

-------------------------------------------------------------------------------
(* classify_scroll_with_phases: the kind, and the classifier afterwards.    *)

KindOf(c, e) ==
    CASE ~e.continuous -> "Mouse"
      [] e.continuous /\ c.hint = "Both" -> KindWithBoth(c, e)
      [] e.continuous /\ c.hint = "MagicMouseOnly" -> "MagicMouse"
      [] OTHER -> "Trackpad"

TouchKept(c) == c    \* mutant of Consumed: a touch serves any number of scrolls

Consumed(c) == [c EXCEPT !.touch = NoTouch]

Classified(c, e) ==
    IF ~e.continuous THEN Consumed(c)
    ELSE [Consumed(c) EXCEPT
             !.lastKind = KindOf(c, e),
             !.lastAge = 0,
             !.active = IF c.hint = "Both" THEN ActiveAfter(c, e.phase, KindOf(c, e))
                        ELSE @]

(* classify_without_gesture: the gesture tap is down, nothing is consumed. *)
KindWithoutGesture(c, e) ==
    CASE ~e.continuous -> "Mouse"
      [] e.continuous /\ c.hint = "MagicMouseOnly" -> "MagicMouse"
      [] OTHER -> "Trackpad"
================================================================================
