------------------------------ MODULE DeviceRules ------------------------------
(***************************************************************************)
(* The per-device rules of the configuration: which rule a device matches,  *)
(* what a rule list says of a device field by field, and the edits the      *)
(* settings window, the tray and the resets make to the list                *)
(* (config/device_rules.rs, config/profiles.rs, config/reset.rs,            *)
(* tray/device_rules.rs, device_catalog.rs, the checks of schema.rs).       *)
(*                                                                         *)
(* A rule list is a set: a valid one has no two rules with one selector, so *)
(* neither its order nor a repetition can matter.  The vendor and product   *)
(* pair is one value, model; the product name a rule carries for display is *)
(* left out.  None is Rust's None.                                          *)
(***************************************************************************)
EXTENDS Naturals

CONSTANT None    \* a value that is no serial, port, alias, flag or number

ProfileFields == {"alias", "reverse", "step", "preset"}

Selector(r) == <<r.model, r.serial, r.port>>

-------------------------------------------------------------------------------
(* Matching.                                                                *)

(* matches(): a rule with both qualifiers matches nothing. *)
Matches(r, i) ==
    /\ r.model = i.model
    /\ r.serial = None \/ r.port = None
    /\ r.serial # None => r.serial = i.serial
    /\ r.port # None => r.port = i.port

Specificity(r) == IF r.serial # None THEN 2 ELSE IF r.port # None THEN 1 ELSE 0

(* The narrowest selector a device supports: serial, else port, else model. *)
NarrowestPort(i) == IF i.serial = None THEN i.port ELSE None

AnyMatchPreferred(r, i) == Matches(r, i)    \* mutant of IsPreferredFor: any rule that applies

IsPreferredFor(r, i) == Selector(r) = <<i.model, i.serial, NarrowestPort(i)>>

(* preferred_device_rule: the one rule the device's own control shows. *)
Preferred(rules, i) == {r \in rules : IsPreferredFor(r, i)}

InheritingFor(i) ==
    [model |-> i.model, serial |-> i.serial, port |-> NarrowestPort(i),
     alias |-> None, reverse |-> None, step |-> None, preset |-> None]

HasOverrides(r) == \E f \in ProfileFields : r[f] # None

-------------------------------------------------------------------------------
(* Resolution: each field from the most specific matching rule that has it. *)

Speaking(rules, i, f) == {r \in rules : Matches(r, i) /\ r[f] # None}

Loudest(rs) == CHOOSE r \in rs : \A q \in rs : Specificity(q) <= Specificity(r)

RuleValue(rules, i, f) ==
    IF i = None \/ Speaking(rules, i, f) = {} THEN None
    ELSE Loudest(Speaking(rules, i, f))[f]

OrElse(value, default) == IF value # None THEN value ELSE default

(* resolve_device_profile: rules, then the kind's flag or the global value. *)
Profile(config, kind, i) ==
    [reverse |-> OrElse(RuleValue(config.rules, i, "reverse"),
                        kind \in config.reversedKinds),
     step    |-> OrElse(RuleValue(config.rules, i, "step"), config.step),
     preset  |-> OrElse(RuleValue(config.rules, i, "preset"), config.preset)]

-------------------------------------------------------------------------------
(* What AppConfig::validate asks of a rule list; the ranges of the numbers  *)
(* and the shape of the texts are left out.                                 *)

OneQualifier(rules) == \A r \in rules : r.serial = None \/ r.port = None

NoDuplicates(rules) == \A r, q \in rules : Selector(r) = Selector(q) => r = q

ValidRules(rules) == OneQualifier(rules) /\ NoDuplicates(rules)

-------------------------------------------------------------------------------
(* Edits.  Each replaces only the device's preferred rule.                  *)

AddBeside(rules, i, f, value) ==    \* mutant of UpdatePreferred: the old rule stays
    rules \cup {[InheritingFor(i) EXCEPT ![f] = value]}

UpdatePreferred(rules, i, f, value) ==
    LET own == Preferred(rules, i)
        base == IF own = {} THEN InheritingFor(i) ELSE CHOOSE r \in own : TRUE
        edited == [base EXCEPT ![f] = value]
    IN (rules \ own) \cup IF HasOverrides(edited) THEN {edited} ELSE {}

(* The three-state control: Reverse, Don't reverse or Default (None). *)
WithSelection(rules, i, selection) == UpdatePreferred(rules, i, "reverse", selection)

WithAlias(rules, i, alias) == UpdatePreferred(rules, i, "alias", alias)

(* The tray's two-state mark cannot show Don't reverse and leaves it alone. *)
CanToggle(rules, i) == \A r \in Preferred(rules, i) : r.reverse # FALSE

Toggled(rules, i) ==
    LET marked == \E r \in Preferred(rules, i) : r.reverse = TRUE
    IN WithSelection(rules, i, IF marked THEN None ELSE TRUE)

WithoutProfile(rules, i) == rules \ Preferred(rules, i)

Cleared(rules, fields) ==
    {r \in {[f \in DOMAIN q |-> IF f \in fields THEN None ELSE q[f]] : q \in rules} :
        HasOverrides(r)}

(* with_dynamics_defaults, and the narrower emergency rollback. *)
DynamicsDefaults(config, default) ==
    [config EXCEPT !.step = default.step, !.preset = default.preset,
                   !.rules = Cleared(config.rules, {"step", "preset"})]

DynamicsRollback(config, default) ==
    [config EXCEPT !.preset = default.preset,
                   !.rules = Cleared(config.rules, {"preset"})]

-------------------------------------------------------------------------------
(* The catalogue the Devices tab lists: what is connected, then the rules   *)
(* that match nothing connected, then devices with no usable identity.      *)

IdentityForRule(r) == [model |-> r.model, serial |-> r.serial, port |-> r.port]

Entry(state, i, alias) == [state |-> state, identity |-> i, alias |-> alias]

Catalog(observed, rules) ==
    LET connected == observed \ {None}
        forgotten == {r \in rules : \A i \in connected : ~Matches(r, i)}
    IN {Entry("Connected", i, RuleValue(rules, i, "alias")) : i \in connected}
         \cup {Entry("Remembered", IdentityForRule(r), r.alias) : r \in forgotten}
         \cup {Entry("Unavailable", None, None) : i \in observed \cap {None}}
================================================================================
