---------------------------- MODULE ScrollTransform ----------------------------
(***************************************************************************)
(* What becomes of one scroll event, as a function of the configuration and *)
(* of what is known of the event: the transformation (input_policy.rs,      *)
(* scroll.rs) and the debug console's account of it, which is worked out    *)
(* again from the outcome (decision_reason of event_tap.rs).                *)
(*                                                                         *)
(* An input has kind, identity, source (the class of its transport),        *)
(* synthetic, posted (by another process) and continuous.                   *)
(***************************************************************************)
EXTENDS Integers, DeviceRules

InputBypassed(config, e) ==
    \/ e.synthetic
    \/ e.source \in {"Virtual", "Unknown"}
    \/ e.posted /\ config.reverseOnlyRawInput

(* The axes whose direction is flipped, and by how much a single notch is   *)
(* multiplied. *)
Untouched == [flips |-> {}, factor |-> 1]

TransformEvent(config, e) ==
    LET profile == Profile(config, e.kind, e.identity)
        step == ~e.continuous /\ profile.step > 0
    IN IF ~config.enabled \/ InputBypassed(config, e) \/ ~profile.reverse THEN Untouched
       ELSE [flips |-> config.axes, factor |-> IF step THEN profile.step ELSE 1]

-------------------------------------------------------------------------------
(* The reason recorded for an axis, of which it is known whether it was     *)
(* flipped and whether the tap was paused.                                  *)

BypassReason(e) ==
    CASE e.synthetic -> "SyntheticEvent"
      [] ~e.synthetic /\ e.source = "Virtual" -> "VirtualHidSource"
      [] ~e.synthetic /\ e.source = "Unknown" -> "UnknownHidSource"
      [] OTHER -> "RawInputGuard"

(* Does a rule, and not the kind's flag, say whether to reverse? *)
RuleDecides(config, e) == RuleValue(config.rules, e.identity, "reverse") # None

NotReversedReason(config, e) ==
    CASE e.kind = "Unknown" -> "UnknownDeviceNotReversed"
      [] e.kind # "Unknown" /\ RuleDecides(config, e) -> "DeviceRuleDisabled"
      [] e.kind = "Trackpad" /\ ~RuleDecides(config, e) -> "TrackpadNatural"
      [] OTHER -> "DeviceReversalOff"

ReversedReason(config, e) ==
    IF RuleDecides(config, e) THEN "DeviceRuleReversed" ELSE "Reversed"

DecisionReason(config, e, paused, flipped) ==
    IF ~config.enabled THEN "ScrollReversalOff"
    ELSE IF paused THEN "TemporarilyPaused"
    ELSE IF InputBypassed(config, e) THEN BypassReason(e)
    ELSE IF flipped THEN ReversedReason(config, e)
    ELSE IF ~Profile(config, e.kind, e.identity).reverse THEN NotReversedReason(config, e)
    ELSE "AxisDisabled"

(* DecisionReason::category. *)
Category(reason) ==
    CASE reason \in {"Reversed", "DeviceRuleReversed"} -> "Reversed"
      [] reason \in {"TrackpadNatural", "AxisDisabled"} -> "Passed"
      [] OTHER -> "Ignored"
================================================================================
