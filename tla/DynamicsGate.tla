------------------------------ MODULE DynamicsGate ------------------------------
(***************************************************************************)
(* The presets of the experimental smooth scrolling                         *)
(* (scroll_dynamics/preset.rs) and the gate that keeps the experiment off   *)
(* until there is evidence for it (dynamics_gate.rs).  An optional value is *)
(* a set of at most one.                                                    *)
(***************************************************************************)
EXTENDS Integers

Presets == {"off", "precise", "balanced", "fast"}

Parameters(preset) ==
    CASE preset = "off"      -> [immediate |-> 1000, tail |-> 0]
      [] preset = "precise"  -> [immediate |-> 350, tail |-> 120000]
      [] preset = "balanced" -> [immediate |-> 550, tail |-> 90000]
      [] preset = "fast"     -> [immediate |-> 750, tail |-> 60000]

ValidParameters(p) ==
    IF p.tail = 0 THEN p.immediate = 1000 ELSE 0 < p.immediate /\ p.immediate < 1000

-------------------------------------------------------------------------------
(* dynamics_gate.rs.                                                        *)

EnabledByDefault == FALSE

(* What is missing for acceptance, in the order it is asked for. *)
EvidenceGap(e) ==
    IF e.classes < 6 THEN "PhysicalClassCoverage"
    ELSE IF e.sessions < 30 THEN "SessionCoverage"
    ELSE IF e.regression > 500 THEN "MovementRegression"
    ELSE IF e.schedulerTail > 8000 THEN "SchedulerTail"
    ELSE IF e.violations > 0 THEN "FailOpenViolation"
    ELSE "Accepted"

GateReason(requested, killed, enabled, evidence) ==
    IF requested = "off" THEN "PresetOff"
    ELSE IF killed THEN "RuntimeKillSwitch"
    ELSE IF ~enabled THEN "ReleaseDefaultOff"
    ELSE IF evidence = {} THEN "MissingAcceptanceEvidence"
    ELSE EvidenceGap(CHOOSE e \in evidence : TRUE)

(* evaluate_dynamics_gate. *)
Gate(requested, killed, enabled, evidence) ==
    LET reason == GateReason(requested, killed, enabled, evidence)
        accepted == reason \in {"Accepted", "PresetOff"}
    IN  [requested |-> requested, reason |-> reason,
         effective |-> IF accepted THEN requested ELSE "off",
         rollback |-> requested # "off" /\ ~accepted]

(* kill_switch_from_value: absent or an explicit no; anything else kills. *)
KillSwitch(value) == value # {} /\ value \cap {"0", "false", "off", "no"} = {}

RuntimeDecision(requested, variable) ==
    Gate(requested, KillSwitch(variable), EnabledByDefault, {})
================================================================================
