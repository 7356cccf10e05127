--------------------------- MODULE ComputationsProofs ---------------------------
(***************************************************************************)
(* The pure computations of the program, for every input: what a trace      *)
(* replayed says of the configuration it was recorded under, and when the   *)
(* experiment runs.                                                        *)
(***************************************************************************)
EXTENDS Traces, DynamicsGate, SequenceTheorems, WellFoundedInduction, TLAPS

CONSTANTS
    ConfigVersion, U32Max, MaxBytes,           \* of ConfigDocument
    Capacity, AuditCapacity, ReasonsInOrder,   \* of Diagnostics
    IdleTimeout, U64Max                        \* of AppSession

Document == INSTANCE ConfigDocument
Diagnose == INSTANCE Diagnostics
Session == INSTANCE AppSession

-------------------------------------------------------------------------------
(* Traces.                                                                  *)

(* What a configuration says of directions and notches, an event of the tap, *)
(* which attributes no event of an unknown kind to a device, and a distance. *)
IsConfig(c) == c.enabled \in BOOLEAN /\ c.axes \subseteq Axes /\ c.step \in Nat

IsEvent(e) ==
    /\ e.synthetic \in BOOLEAN /\ e.posted \in BOOLEAN /\ e.continuous \in BOOLEAN
    /\ e.source \in {"NotObserved", "Physical", "Virtual", "Unknown"}
    /\ e.kind = "Unknown" => e.identity = None

(* Where a replay may differ and the sample is not counted as lacking        *)
(* context: a notch of a device with a rule of its own, which has set the    *)
(* step, or has reversed it with the axis off.                               *)
RuleUntold(config, e, s) ==
    /\ ~e.continuous /\ s.input \in {-1, 1}
    /\ \/ RuleValue(config.rules, e.identity, "step") # None
       \/ RuleDecides(config, e) /\ s.reason = "AxisDisabled"

(* The factor is felt by single notches only. *)
LEMMA OutputOfDirection ==
  ASSUME NEW d, NEW g, NEW axis, NEW n \in Int,
         axis \in d.flips <=> axis \in g.flips, Magnitude(n) # 1 \/ d.factor = g.factor
  PROVE  Output(d, axis, n) = Output(g, axis, n)
BY DEF Output

LEMMA Notch == ASSUME NEW n \in Int, Magnitude(n) = 1 PROVE n \in {-1, 1}
BY DEF Magnitude

(* What let an event pass does so again in the replay. *)
LEMMA BypassReplayed ==
  ASSUME NEW config, NEW e, IsEvent(e), InputBypassed(config, e),
         NEW s, s.reason = BypassReason(e)
  PROVE  InputBypassed(config, EventOf(s))
<1>1. CASE e.synthetic
  BY <1>1 DEF BypassReason, EventOf, InputBypassed
<1>2. CASE ~e.synthetic /\ e.source = "Virtual"
  BY <1>2 DEF BypassReason, EventOf, InputBypassed
<1>3. CASE ~e.synthetic /\ e.source = "Unknown"
  BY <1>3 DEF BypassReason, EventOf, InputBypassed
<1>4. CASE ~e.synthetic /\ e.source \notin {"Virtual", "Unknown"}
  <2>1. s.reason = "RawInputGuard" /\ e.posted /\ config.reverseOnlyRawInput
    BY <1>4 DEF BypassReason, InputBypassed
  <2> QED
    BY <2>1 DEF EventOf, InputBypassed
<1> QED
  BY <1>1, <1>2, <1>3, <1>4 DEF IsEvent

(* The other reasons let the replay transform the event by its kind alone. *)
LEMMA ReplayByKind ==
  ASSUME NEW config, IsConfig(config), config.enabled, NEW s,
         s.reason \in {"Reversed", "DeviceReversalOff", "TrackpadNatural",
                       "UnknownDeviceNotReversed", "AxisDisabled"}
  PROVE  TransformEvent(config, EventOf(s)) =
            IF s.kind \in config.reversedKinds
            THEN [flips |-> config.axes,
                  factor |-> IF ~s.continuous /\ config.step > 0 THEN config.step ELSE 1]
            ELSE Untouched
<1>1. ~InputBypassed(config, EventOf(s)) /\ EventOf(s).kind = s.kind
      /\ EventOf(s).identity = None /\ EventOf(s).continuous = s.continuous
  BY DEF InputBypassed, EventOf
<1>2. RuleValue(config.rules, None, "reverse") = None
      /\ RuleValue(config.rules, None, "step") = None
  BY DEF RuleValue
<1>3. Profile(config, s.kind, None).reverse = (s.kind \in config.reversedKinds)
      /\ Profile(config, s.kind, None).step = config.step
  BY <1>2 DEF Profile, OrElse
<1> QED
  BY <1>1, <1>3 DEF TransformEvent

(* Replayed under the configuration it was recorded under, a sample comes    *)
(* out as it was observed, or it is counted as lacking context, or it is a   *)
(* notch of which the reason does not tell that a rule was in play           *)
(* (scroll_trace.rs, replay, requires_omitted_context; event_tap.rs,         *)
(* decision_reason).                                                        *)
THEOREM ReplayExplainsItself ==
  ASSUME NEW config, IsConfig(config), NEW e, IsEvent(e), NEW paused \in BOOLEAN,
         NEW axis \in Axes, NEW n \in Int, NEW at
  PROVE  LET s == RecordOf(config, e, paused, axis, n, at) IN
         \/ MatchesObserved(config, s)
         \/ RequiresOmittedContext(s)
         \/ RuleUntold(config, e, s)
<1> DEFINE d == IF paused THEN Untouched ELSE TransformEvent(config, e)
           s == RecordOf(config, e, paused, axis, n, at)
           r == TransformEvent(config, EventOf(s))
           p == Profile(config, e.kind, e.identity)
<1>1. /\ s.kind = e.kind /\ s.continuous = e.continuous /\ s.axis = axis /\ s.input = n
      /\ s.output = Output(d, axis, n)
      /\ s.reason = DecisionReason(config, e, paused, axis \in d.flips)
  BY DEF RecordOf
<1> SUFFICES MatchesObserved(config, s) \/ RequiresOmittedContext(s) \/ RuleUntold(config, e, s)
  BY DEF s
<1> HIDE DEF s
<1>2. ASSUME axis \in d.flips <=> axis \in r.flips, Magnitude(n) # 1 \/ d.factor = r.factor
      PROVE  MatchesObserved(config, s)
  BY <1>1, <1>2, OutputOfDirection DEF MatchesObserved, Replayed
<1>3. CASE ~config.enabled
  BY <1>2, <1>3 DEF TransformEvent
<1>4. CASE config.enabled /\ paused
  BY <1>1, <1>4 DEF DecisionReason, RequiresOmittedContext
<1>5. CASE config.enabled /\ ~paused /\ InputBypassed(config, e)
  <2>1. s.reason = BypassReason(e)
    BY <1>1, <1>5 DEF DecisionReason
  <2>2. d = Untouched /\ r = Untouched
    BY <1>5, <2>1, BypassReplayed DEF TransformEvent
  <2> QED
    BY <1>2, <2>2
<1>6. CASE config.enabled /\ ~paused /\ ~InputBypassed(config, e) /\ ~p.reverse
  <2>1. d = Untouched /\ s.reason = NotReversedReason(config, e)
    BY <1>1, <1>6 DEF TransformEvent, DecisionReason, Untouched
  <2>2. CASE RuleDecides(config, e)
    <3>1. e.kind # "Unknown"
      BY <2>2 DEF IsEvent, RuleDecides, RuleValue
    <3> QED
      BY <2>1, <2>2, <3>1 DEF NotReversedReason, RequiresOmittedContext
  <2>3. CASE ~RuleDecides(config, e)
    <3>1. e.kind \notin config.reversedKinds
      BY <1>6, <2>3 DEF RuleDecides, Profile, OrElse
    <3>2. s.reason \in {"UnknownDeviceNotReversed", "TrackpadNatural", "DeviceReversalOff"}
      BY <2>1, <2>3 DEF NotReversedReason
    <3>3. r = Untouched
      BY <1>1, <1>6, <3>1, <3>2, ReplayByKind
    <3> QED
      BY <1>2, <2>1, <3>3
  <2> QED
    BY <2>2, <2>3
<1>7. CASE config.enabled /\ ~paused /\ ~InputBypassed(config, e) /\ p.reverse
  <2>1. d = [flips |-> config.axes,
             factor |-> IF ~e.continuous /\ p.step > 0 THEN p.step ELSE 1]
    BY <1>7 DEF TransformEvent
  <2>2. s.reason = IF axis \in config.axes THEN ReversedReason(config, e) ELSE "AxisDisabled"
    BY <1>1, <1>7, <2>1 DEF DecisionReason
  <2>3. CASE RuleDecides(config, e) /\ axis \in config.axes
    BY <2>2, <2>3 DEF ReversedReason, RequiresOmittedContext
  <2>4. CASE RuleDecides(config, e) => axis \notin config.axes
    <3>1. s.reason \in {"Reversed", "AxisDisabled"}
      BY <2>2, <2>4 DEF ReversedReason
    <3>2. r = IF e.kind \in config.reversedKinds
              THEN [flips |-> config.axes,
                    factor |-> IF ~e.continuous /\ config.step > 0 THEN config.step ELSE 1]
              ELSE Untouched
      BY <1>1, <1>7, <3>1, ReplayByKind
    <3>3. ~RuleDecides(config, e) => e.kind \in config.reversedKinds
      BY <1>7 DEF RuleDecides, Profile, OrElse
    <3>4. axis \in d.flips <=> axis \in r.flips
      BY <2>1, <2>4, <3>2, <3>3 DEF Untouched
    <3>5. CASE Magnitude(n) # 1 \/ d.factor = r.factor
      BY <1>2, <3>4, <3>5
    <3>6. CASE Magnitude(n) = 1 /\ d.factor # r.factor
      <4>1. n \in {-1, 1}
        BY <3>6, Notch
      <4>2. CASE RuleDecides(config, e)
        <5>1. s.reason = "AxisDisabled"
          BY <2>2, <2>4, <4>2
        <5>2. ~e.continuous
          BY <2>1, <3>2, <3>6 DEF Untouched
        <5> QED
          BY <1>1, <4>1, <4>2, <5>1, <5>2 DEF RuleUntold
      <4>3. CASE ~RuleDecides(config, e)
        <5>1. r.factor = IF ~e.continuous /\ config.step > 0 THEN config.step ELSE 1
          BY <3>2, <3>3, <4>3
        <5>2. ~e.continuous /\ p.step # config.step
          BY <2>1, <3>6, <5>1
        <5>3. RuleValue(config.rules, e.identity, "step") # None
          BY <5>2 DEF Profile, OrElse
        <5> QED
          BY <1>1, <4>1, <5>2, <5>3 DEF RuleUntold
      <4> QED
        BY <4>2, <4>3
    <3> QED
      BY <3>5, <3>6
  <2> QED
    BY <2>3, <2>4
<1>8. p.reverse \/ ~p.reverse
  OBVIOUS
<1> QED
  BY <1>3, <1>4, <1>5, <1>6, <1>7, <1>8

-------------------------------------------------------------------------------
(* The experiment.                                                          *)

Complete(e) == /\ e.classes >= 6 /\ e.sessions >= 30 /\ e.regression <= 500
               /\ e.schedulerTail <= 8000 /\ e.violations = 0

IsEvidence(e) == e.classes \in Nat /\ e.sessions \in Nat /\ e.regression \in Int
                 /\ e.schedulerTail \in Nat /\ e.violations \in Nat

(* Whatever is asked for and whatever the environment says, this build runs  *)
(* no experiment, and a build that enables it runs one with parameters that  *)
(* are valid, and only on complete evidence and if it is not killed          *)
(* (dynamics_gate.rs, evaluate_dynamics_gate; preset.rs).                    *)
THEOREM ExperimentNeedsEvidence ==
  ASSUME NEW requested \in Presets, NEW killed \in BOOLEAN, NEW enabled \in BOOLEAN,
         NEW evidence, \A e \in evidence : IsEvidence(e), NEW variable
  PROVE  /\ RuntimeDecision(requested, variable).effective = "off"
         /\ LET run == Gate(requested, killed, enabled, evidence).effective IN
              /\ run \in {"off", requested} /\ ValidParameters(Parameters(run))
              /\ run # "off" => /\ enabled /\ ~killed
                                /\ \E e \in evidence : Complete(e)
<1> DEFINE run == Gate(requested, killed, enabled, evidence).effective
           shown == CHOOSE e \in evidence : TRUE
<1>1. RuntimeDecision(requested, variable).effective = "off"
  BY DEF RuntimeDecision, Gate, GateReason, EnabledByDefault, EvidenceGap
<1>2. run \in {"off", requested}
  BY DEF Gate
<1>3. ASSUME run # "off" PROVE enabled /\ ~killed /\ \E e \in evidence : Complete(e)
  <2>1. GateReason(requested, killed, enabled, evidence) = "Accepted"
    BY <1>3 DEF Gate, GateReason, EvidenceGap
  <2>2. enabled /\ ~killed /\ evidence # {} /\ EvidenceGap(shown) = "Accepted"
    BY <2>1 DEF GateReason
  <2>3. shown \in evidence
    BY <2>2
  <2>4. IsEvidence(shown)
    BY <2>3
  <2>5. Complete(shown)
    BY <2>2, <2>4 DEF EvidenceGap, Complete, IsEvidence
  <2> QED
    BY <2>2, <2>3, <2>5
<1>4. \A preset \in Presets : ValidParameters(Parameters(preset))
  BY DEF Presets, Parameters, ValidParameters
<1>5. "off" \in Presets
  BY DEF Presets
<1>6. ValidParameters(Parameters(run))
  BY <1>2, <1>4, <1>5
<1> QED
  BY <1>1, <1>2, <1>3, <1>6

-------------------------------------------------------------------------------
(* Documents.                                                               *)

(* A configuration, which has every field, and every field of every rule. *)
IsWhole(c, Values) ==
    /\ c \in [Document!RootFields -> Values]
    /\ c.device_rules \in Seq([Document!RuleFields -> Values])
    /\ \A i \in DOMAIN c.device_rules :
        c.device_rules[i].vendor_id # None /\ c.device_rules[i].product_id # None

(* What an export writes of a rule. *)
Written(r) == Document!Restrict(r, {f \in DOMAIN r : r[f] # None})

(* What is not written of a rule is read as what was not there. *)
LEMMA RuleComesBack ==
  ASSUME NEW Values, NEW r \in [Document!RuleFields -> Values]
  PROVE  Document!RuleOf(Written(r)) = r
BY DEF Document!RuleOf, Document!Filled, Document!Restrict, Written

(* A table of known fields with both ids, of a rule that is valid. *)
LEMMA WrittenRule ==
  ASSUME NEW Values, NEW r \in [Document!RuleFields -> Values],
         r.vendor_id # None, r.product_id # None
  PROVE  /\ DOMAIN Written(r) \subseteq Document!RuleFields
         /\ {"vendor_id", "product_id"} \subseteq DOMAIN Written(r)
BY DEF Document!Restrict, Document!RuleFields, Written

(* A valid configuration is exported, and the document comes back as it was, *)
(* to an import, which sees no older version in it, and to the store         *)
(* (config/transfer/document.rs, export_document, preview_import_document;   *)
(* config/schema.rs, parse).                                                 *)
THEOREM ExportComesBack ==
  ASSUME NEW Values, NEW c, IsWhole(c, Values), Document!Valid(ConfigVersion, c),
         ConfigVersion \in Nat, ConfigVersion # 0, U32Max \in Nat, ConfigVersion <= U32Max
  PROVE  /\ Document!Export(c) # {}
         /\ \A copy \in Document!Export(c) :
              /\ Document!Preview(copy) = [candidate |-> c, migrated |-> FALSE]
              /\ Document!StoreReads(copy) = [candidate |-> c]
<1> DEFINE rules == c.device_rules
           written == [i \in DOMAIN rules |-> Written(rules[i])]
           fields == [c EXCEPT !.device_rules = written]
           copy == [version |-> [is |-> "integer", value |-> ConfigVersion], wellTyped |-> TRUE,
                    fields |-> fields]
           filled == Document!Filled(fields, Document!DefaultConfig)
<1>1. Document!Export(c) = {copy}
  BY DEF Document!Export, Written
<1>2. "device_rules" \in Document!RootFields
  BY DEF Document!RootFields
<1>3. c = [f \in Document!RootFields |-> c[f]] /\ DOMAIN c = Document!RootFields
  BY DEF IsWhole
<1>4. /\ DOMAIN fields = Document!RootFields /\ fields.device_rules = written
      /\ \A f \in Document!RootFields : f # "device_rules" => fields[f] = c[f]
  BY <1>2, <1>3
<1>5. /\ DOMAIN rules = 1 .. Len(rules)
      /\ \A i \in DOMAIN rules : rules[i] \in [Document!RuleFields -> Values]
      /\ rules = [i \in DOMAIN rules |-> rules[i]]
  BY DEF IsWhole
<1>6. \A i \in DOMAIN rules :
        /\ DOMAIN written[i] \subseteq Document!RuleFields
        /\ {"vendor_id", "product_id"} \subseteq DOMAIN written[i]
        /\ Document!RuleOf(written[i]) = rules[i]
  <2> TAKE i \in DOMAIN rules
  <2>1. rules[i] \in [Document!RuleFields -> Values] /\ rules[i].vendor_id # None
        /\ rules[i].product_id # None
    BY <1>5 DEF IsWhole
  <2>2. written[i] = Written(rules[i])
    OBVIOUS
  <2> HIDE DEF rules, written
  <2> QED
    BY <2>1, <2>2, WrittenRule, RuleComesBack
<1>7. filled = fields
  <2>1. DOMAIN Document!DefaultConfig = Document!RootFields
    BY DEF Document!DefaultConfig
  <2>2. filled = [f \in Document!RootFields |-> fields[f]]
    BY <1>4, <2>1 DEF Document!Filled
  <2>3. fields = [f \in Document!RootFields |-> fields[f]]
    BY <1>3
  <2> QED
    BY <2>2, <2>3
<1>8. [i \in DOMAIN filled.device_rules |-> Document!RuleOf(filled.device_rules[i])] = rules
  <2>1. filled.device_rules = written /\ DOMAIN written = DOMAIN rules
    BY <1>4, <1>7
  <2> QED
    BY <1>5, <1>6, <2>1
<1>9. [filled EXCEPT !.device_rules
          = [i \in DOMAIN @ |-> Document!RuleOf(@[i])]] = c
  <2>1. [filled EXCEPT !.device_rules = rules] = c
    BY <1>2, <1>3, <1>4, <1>7
  <2> QED
    BY <1>8, <2>1
<1>10. Document!ConfigOf(copy) = {c}
  <2>1. copy.wellTyped = TRUE /\ copy.fields = fields
    OBVIOUS
  <2>2. \A i \in DOMAIN fields.device_rules :
            {"vendor_id", "product_id"} \subseteq DOMAIN fields.device_rules[i]
    BY <1>4, <1>6
  <2> HIDE DEF copy, fields
  <2> QED
    BY <1>9, <2>1, <2>2 DEF Document!ConfigOf
<1>11. ~Document!UnknownFields(copy)
  BY <1>4, <1>6 DEF Document!UnknownFields
<1>12. Document!VersionOf(copy) = {ConfigVersion}
  BY DEF Document!VersionOf
<1>13. Document!Preview(copy) = [candidate |-> c, migrated |-> FALSE]
  <2> HIDE DEF copy
  <2>1. (CHOOSE v \in Document!VersionOf(copy) : TRUE) = ConfigVersion
    BY <1>12
  <2>2. (CHOOSE x \in Document!ConfigOf(copy) : TRUE) = c
    BY <1>10
  <2>3. Document!VersionOf(copy) # {} /\ ~(ConfigVersion > ConfigVersion)
    BY <1>12
  <2>4. ~(\A x \in Document!ConfigOf(copy) : ~Document!Valid(ConfigVersion, x))
    BY <1>10
  <2> QED
    BY <1>11, <2>1, <2>2, <2>3, <2>4 DEF Document!Preview
<1>14. Document!StoreReads(copy) = [candidate |-> c]
  <2>1. copy.version.is = "integer" /\ copy.version.value = ConfigVersion
    OBVIOUS
  <2> HIDE DEF copy
  <2> QED
    BY <1>10, <2>1 DEF Document!StoreReads
<1> QED
  BY <1>1, <1>13, <1>14

(* What a document is said to be of, in the cases of parse_version. *)
IsDocument(doc) ==
    \/ doc.version.is \in {"absent", "other"}
    \/ doc.version.is = "integer" /\ doc.version.value \in Int

LEMMA OneConfiguration ==
  ASSUME NEW doc, NEW c \in Document!ConfigOf(doc)
  PROVE  Document!ConfigOf(doc) = {c}
BY DEF Document!ConfigOf

(* Whatever document is previewed, what is offered is valid, and is what the *)
(* store would read, unless the document says that it has an older version;  *)
(* one of a newer version is told to be newer, and is valid to neither.      *)
THEOREM PreviewsAgreeWithTheStore ==
  ASSUME NEW doc, IsDocument(doc), ConfigVersion \in Nat \ {0}, U32Max \in Nat,
         ConfigVersion <= U32Max
  PROVE  /\ \A c : Document!Preview(doc) \in
                     {[candidate |-> c, migrated |-> TRUE], [candidate |-> c, migrated |-> FALSE]}
            => /\ Document!Valid(ConfigVersion, c)
               /\ \/ Document!StoreReads(doc) = [candidate |-> c]
                  \/ doc.version.is = "integer" /\ doc.version.value < ConfigVersion
         /\ doc.version.is = "integer" /\ doc.version.value \in ConfigVersion + 1 .. U32Max
            => /\ Document!Preview(doc) = Document!Refusal("UnsupportedVersion")
               /\ Document!ConfigOf(doc) # {}
                     => Document!StoreReads(doc) = Document!Refusal("InvalidConfig")
<1> DEFINE version == CHOOSE v \in Document!VersionOf(doc) : TRUE
           chosen == CHOOSE c \in Document!ConfigOf(doc) : TRUE
<1>1. ASSUME NEW c, Document!Preview(doc) \in
                {[candidate |-> c, migrated |-> TRUE], [candidate |-> c, migrated |-> FALSE]}
      PROVE  /\ Document!Valid(ConfigVersion, c)
             /\ \/ Document!StoreReads(doc) = [candidate |-> c]
                \/ doc.version.is = "integer" /\ doc.version.value < ConfigVersion
  <2>1. Document!Preview(doc).candidate = c /\ "candidate" \in DOMAIN Document!Preview(doc)
    BY <1>1
  <2>2. \A reason : "candidate" \notin DOMAIN Document!Refusal(reason)
    BY DEF Document!Refusal
  <2>3. /\ Document!VersionOf(doc) # {} /\ ~(version > ConfigVersion)
        /\ ~(\A x \in Document!ConfigOf(doc) : ~Document!Valid(ConfigVersion, x))
        /\ Document!Preview(doc) = [candidate |-> chosen, migrated |-> version = 0]
    BY <2>1, <2>2 DEF Document!Preview
  <2>4. PICK x \in Document!ConfigOf(doc) : Document!Valid(ConfigVersion, x)
    BY <2>3
  <2>5. Document!ConfigOf(doc) = {x} /\ chosen = x /\ c = x
    BY <2>1, <2>3, <2>4, OneConfiguration
  <2>6. CASE doc.version.is = "absent"
    BY <2>4, <2>5, <2>6 DEF Document!StoreReads
  <2>7. CASE doc.version.is = "integer" /\ ~(doc.version.value < ConfigVersion)
    <3>1. doc.version.value \in Int
      BY <2>7 DEF IsDocument
    <3>2. doc.version.value \in 0 .. U32Max /\ version = doc.version.value
      BY <2>3, <2>7 DEF Document!VersionOf
    <3> HIDE DEF version
    <3>3. doc.version.value = ConfigVersion
      BY <2>3, <2>7, <3>1, <3>2
    <3>4. Document!Valid(doc.version.value, x) /\ ConfigVersion \in 0 .. U32Max
      BY <2>4, <3>3
    <3>5. Document!StoreReads(doc) = [candidate |-> chosen]
      BY <2>5, <2>7, <3>2, <3>4 DEF Document!StoreReads
    <3> QED
      BY <2>4, <2>5, <3>5
  <2>8. doc.version.is # "other"
    BY <2>3 DEF Document!VersionOf
  <2> QED
    BY <2>4, <2>5, <2>6, <2>7, <2>8 DEF IsDocument
<1>2. ASSUME doc.version.is = "integer", doc.version.value \in ConfigVersion + 1 .. U32Max
      PROVE  /\ Document!Preview(doc) = Document!Refusal("UnsupportedVersion")
             /\ Document!ConfigOf(doc) # {}
                   => Document!StoreReads(doc) = Document!Refusal("InvalidConfig")
  <2>1. Document!VersionOf(doc) = {doc.version.value}
    BY <1>2 DEF Document!VersionOf
  <2>2. version = doc.version.value /\ doc.version.value > ConfigVersion
    BY <1>2, <2>1
  <2>3. Document!Preview(doc) = Document!Refusal("UnsupportedVersion")
    BY <2>1, <2>2 DEF Document!Preview
  <2>4. \A c : ~Document!Valid(doc.version.value, c)
    BY <2>2 DEF Document!Valid
  <2>5. doc.version.value \in 0 .. U32Max
    BY <1>2
  <2> QED
    BY <1>2, <2>3, <2>4, <2>5 DEF Document!StoreReads
<1> QED
  BY <1>1, <1>2

-------------------------------------------------------------------------------
(* Histories.                                                               *)

(* A set that has zero, and with a number the next one, has them all. *)
LEMMA AllReached ==
  ASSUME NEW S, 0 \in S, \A n \in Nat : n \in S => n + 1 \in S
  PROVE  Nat \subseteq S
<1> DEFINE Missing == Nat \ S
<1> SUFFICES ASSUME Missing # {} PROVE FALSE
  OBVIOUS
<1>1. PICK x \in Missing : \A y \in Missing : ~(y < x)
  <2>1. Missing \subseteq Nat
    OBVIOUS
  <2> HIDE DEF Missing
  <2>2. PICK x \in Missing : \A y \in Missing : ~(<<y, x>> \in OpToRel(<, Nat))
    BY <2>1, WFMin, NatLessThanWellFounded
  <2>3. \A y \in Missing : y < x => <<y, x>> \in OpToRel(<, Nat)
    BY <2>1, <2>2 DEF OpToRel
  <2> QED
    BY <2>2, <2>3
<1>2. x - 1 \in Nat /\ x - 1 < x
  OBVIOUS
<1>3. x - 1 \in S
  BY <1>1, <1>2
<1> QED
  BY <1>2, <1>3

(* The latest elements of a sequence, as many as a queue has room for. *)
Latest(s, capacity) ==
    SubSeq(s, (IF Len(s) > capacity THEN Len(s) - capacity ELSE 0) + 1, Len(s))

LEMMA LatestProperties ==
  ASSUME NEW S, NEW s \in Seq(S), NEW capacity \in Nat
  PROVE  LET k == IF Len(s) > capacity THEN Len(s) - capacity ELSE 0 IN
         /\ Latest(s, capacity) \in Seq(S)
         /\ Len(Latest(s, capacity)) = Len(s) - k
         /\ \A i \in 1 .. Len(s) - k : Latest(s, capacity)[i] = s[k + i]
<1> DEFINE k == IF Len(s) > capacity THEN Len(s) - capacity ELSE 0
<1>1. Len(s) \in Nat /\ k \in Nat /\ k <= Len(s) /\ \A i \in 1 .. Len(s) : s[i] \in S
  BY LenProperties
<1>2. Latest(s, capacity) = SubSeq(s, k + 1, Len(s))
  BY DEF Latest
<1> HIDE DEF k
<1>3. \A i \in k + 1 .. Len(s) : s[i] \in S
  BY <1>1
<1>4. /\ SubSeq(s, k + 1, Len(s)) \in Seq(S)
      /\ Len(SubSeq(s, k + 1, Len(s)))
            = IF k + 1 <= Len(s) THEN Len(s) - (k + 1) + 1 ELSE 0
      /\ \A i \in 1 .. Len(s) - (k + 1) + 1 : SubSeq(s, k + 1, Len(s))[i] = s[k + 1 + i - 1]
  BY <1>1, <1>3, SubSeqProperties
<1>5. \A i \in 1 .. Len(s) - k : k + 1 + i - 1 = k + i
  BY <1>1
<1>6. /\ Len(SubSeq(s, k + 1, Len(s))) = Len(s) - k
      /\ \A i \in 1 .. Len(s) - k : SubSeq(s, k + 1, Len(s))[i] = s[k + i]
  BY <1>1, <1>4, <1>5
<1> QED
  BY <1>2, <1>4, <1>6 DEF k

(* An element pushed onto the latest leaves the latest. *)
LEMMA PushedLatest ==
  ASSUME NEW S, NEW s \in Seq(S), NEW e \in S, NEW capacity \in Nat \ {0}
  PROVE  Diagnose!Pushed(Latest(s, capacity), e, capacity) = Latest(Append(s, e), capacity)
<1> DEFINE q == Latest(s, capacity)
           kept == IF Len(q) >= capacity THEN Tail(q) ELSE q
           a == Append(s, e)
           b == Append(kept, e)
           c == Latest(a, capacity)
           k == IF Len(s) > capacity THEN Len(s) - capacity ELSE 0
           m == IF Len(s) >= capacity THEN Len(s) + 1 - capacity ELSE 0
<1>1. capacity \in Nat /\ capacity # 0 /\ Len(s) \in Nat
  BY LenProperties
<1>2. /\ k \in Nat /\ m \in Nat /\ m <= Len(s) /\ k <= Len(s)
      /\ m = IF Len(s) + 1 > capacity THEN Len(s) + 1 - capacity ELSE 0
      /\ m = IF Len(s) - k >= capacity THEN k + 1 ELSE k
  BY <1>1
<1>3. q \in Seq(S) /\ Len(q) = Len(s) - k /\ \A i \in 1 .. Len(s) - k : q[i] = s[k + i]
  BY <1>1, LatestProperties
<1>4. /\ a \in Seq(S) /\ Len(a) = Len(s) + 1 /\ a[Len(s) + 1] = e
      /\ \A i \in 1 .. Len(s) : a[i] = s[i]
  BY AppendProperties
<1>5. c \in Seq(S) /\ Len(c) = Len(s) + 1 - m /\ \A i \in 1 .. Len(s) + 1 - m : c[i] = a[m + i]
  <2> DEFINE j == IF Len(a) > capacity THEN Len(a) - capacity ELSE 0
  <2> HIDE DEF a
  <2>1. c \in Seq(S) /\ Len(c) = Len(a) - j /\ \A i \in 1 .. Len(a) - j : c[i] = a[j + i]
    BY <1>1, <1>4, LatestProperties
  <2>2. j = m /\ Len(a) - j = Len(s) + 1 - m
    BY <1>2, <1>4
  <2> HIDE DEF m, c, j
  <2> QED
    BY <2>1, <2>2
<1> HIDE DEF q, a, c, k, m
<1>6. kept \in Seq(S) /\ Len(kept) = Len(s) - m /\ \A i \in 1 .. Len(s) - m : kept[i] = s[m + i]
  <2>1. CASE Len(q) >= capacity
    <3>1. q # << >> /\ m = k + 1
      BY <1>1, <1>2, <1>3, <2>1
    <3>2. /\ Tail(q) \in Seq(S) /\ Len(Tail(q)) = Len(q) - 1
          /\ \A i \in 1 .. Len(Tail(q)) : Tail(q)[i] = q[i + 1]
      BY <1>3, <3>1, HeadTailProperties
    <3>3. \A i \in 1 .. Len(s) - m : i + 1 \in 1 .. Len(s) - k /\ k + (i + 1) = m + i
      BY <1>1, <1>2, <3>1
    <3>4. Len(q) - 1 = Len(s) - m
      <4>1. Len(q) = Len(s) - k
        BY <1>3
      <4> QED
        BY <1>1, <1>2, <3>1, <4>1
    <3>5. \A i \in 1 .. Len(s) - m : Tail(q)[i] = s[m + i]
      BY <1>3, <3>2, <3>3, <3>4
    <3> QED
      BY <2>1, <3>2, <3>4, <3>5
  <2>2. CASE ~(Len(q) >= capacity)
    <3>1. m = k
      BY <1>1, <1>2, <1>3, <2>2
    <3> QED
      BY <1>3, <2>2, <3>1
  <2> QED
    BY <2>1, <2>2
<1> HIDE DEF kept
<1>7. /\ b \in Seq(S) /\ Len(b) = Len(kept) + 1 /\ b[Len(kept) + 1] = e
      /\ \A i \in 1 .. Len(kept) : b[i] = kept[i]
  BY <1>6, AppendProperties
<1> HIDE DEF b
<1>8. Len(b) = Len(c)
  BY <1>1, <1>2, <1>5, <1>6, <1>7
<1>9. \A i \in 1 .. Len(b) : b[i] = c[i]
  <2> SUFFICES ASSUME NEW i \in 1 .. Len(b) PROVE b[i] = c[i]
    OBVIOUS
  <2>1. i \in 1 .. Len(s) + 1 - m /\ c[i] = a[m + i]
    BY <1>1, <1>2, <1>5, <1>8
  <2> DEFINE l == Len(kept)  n == Len(s)
  <2>4. l = n - m /\ n \in Nat /\ m \in Nat /\ m <= n
    BY <1>1, <1>2, <1>6
  <2>5. i \in Int /\ i >= 1 /\ i <= n + 1 - m
    BY <2>1, <2>4
  <2> HIDE DEF l, n
  <2>2. CASE i = Len(kept) + 1
    <3>1. m + i = Len(s) + 1
      BY <2>2, <2>4, <2>5 DEF l, n
    <3> QED
      BY <1>4, <1>7, <2>1, <2>2, <3>1
  <2>3. CASE i # Len(kept) + 1
    <3>1. i \in 1 .. Len(kept) /\ i \in 1 .. Len(s) - m /\ m + i \in 1 .. Len(s)
      BY <2>3, <2>4, <2>5 DEF l, n
    <3> QED
      BY <1>4, <1>6, <1>7, <2>1, <3>1
  <2> QED
    BY <2>2, <2>3
<1>10. b = c
  BY <1>5, <1>7, <1>8, <1>9, SeqEqual
<1> QED
  BY <1>10 DEF Diagnose!Pushed, b, c, kept, q, a

(* The ring after n records, of which those in w were written. *)
RingOf(w, n) == [events |-> Latest(w, Capacity), dropped |-> n - Len(w)]

(* The n-th record finds the lock held or not. *)
RingRuns(log, written, record, contended) ==
    /\ log[0] = Diagnose!EmptyLog /\ written[0] = << >>
    /\ \A n \in Nat :
        /\ log[n + 1] = Diagnose!TryPush(log[n], record[n], contended[n])
        /\ written[n + 1] = IF contended[n] THEN written[n] ELSE Append(written[n], record[n])

LEMMA RingWritten ==
  ASSUME Capacity \in Nat \ {0}, NEW Records, NEW w \in Seq(Records), NEW r \in Records,
         NEW n \in Nat
  PROVE  Diagnose!TryPush(RingOf(w, n), r, FALSE) = RingOf(Append(w, r), n + 1)
<1>1. Diagnose!Pushed(Latest(w, Capacity), r, Capacity) = Latest(Append(w, r), Capacity)
  BY PushedLatest
<1>2. Len(w) \in Nat /\ Len(Append(w, r)) = Len(w) + 1
  BY AppendProperties, LenProperties
<1>3. n - Len(w) = n + 1 - Len(Append(w, r))
  BY <1>2
<1> QED
  BY <1>1, <1>3 DEF Diagnose!TryPush, RingOf

LEMMA RingMissed ==
  ASSUME NEW Records, NEW w \in Seq(Records), NEW r \in Records, NEW n \in Nat
  PROVE  Diagnose!TryPush(RingOf(w, n), r, TRUE) = RingOf(w, n + 1)
<1>1. Len(w) \in Nat
  BY LenProperties
<1>2. n - Len(w) + 1 = n + 1 - Len(w)
  BY <1>1
<1> QED
  BY <1>2 DEF Diagnose!TryPush, RingOf

(* The ring of decisions: whatever records met a held lock, it has the       *)
(* latest of the others, in order, and the rest are counted                  *)
(* (debug_log.rs, try_push).                                                 *)
THEOREM RingKeepsTheLatest ==
  ASSUME Capacity \in Nat \ {0}, NEW Records, NEW record \in [Nat -> Records],
         NEW contended \in [Nat -> BOOLEAN], NEW log, NEW written,
         RingRuns(log, written, record, contended)
  PROVE  \A n \in Nat : log[n] = [events |-> Latest(written[n], Capacity),
                                dropped |-> n - Len(written[n])]
<1> DEFINE S == {k \in Nat : written[k] \in Seq(Records) /\ log[k] = RingOf(written[k], k)}
<1>1. 0 \in S
  <2>1. << >> \in Seq(Records) /\ Len(<< >>) = 0
    OBVIOUS
  <2>2. Latest(<< >>, Capacity) = << >>
    BY <2>1, SubSeqEmpty DEF Latest
  <2>3. RingOf(<< >>, 0) = Diagnose!EmptyLog
    BY <2>1, <2>2 DEF Diagnose!EmptyLog, RingOf
  <2> QED
    BY <2>1, <2>3 DEF RingRuns
<1>2. ASSUME NEW n \in Nat, n \in S PROVE n + 1 \in S
  <2> DEFINE w == written[n]  l == log[n]  r == record[n]
  <2>1. /\ log[n + 1] = Diagnose!TryPush(l, r, contended[n])
        /\ written[n + 1] = IF contended[n] THEN w ELSE Append(w, r)
    BY DEF RingRuns
  <2>2. w \in Seq(Records) /\ l = RingOf(w, n) /\ r \in Records /\ contended[n] \in BOOLEAN
    BY <1>2
  <2> SUFFICES written[n + 1] \in Seq(Records) /\ log[n + 1] = RingOf(written[n + 1], n + 1)
    OBVIOUS
  <2> HIDE DEF w, l, r
  <2>3. CASE contended[n] = TRUE
    <3>1. Diagnose!TryPush(RingOf(w, n), r, TRUE) = RingOf(w, n + 1)
      BY <2>2, RingMissed
    <3> QED
      BY <2>1, <2>2, <2>3, <3>1
  <2>4. CASE contended[n] = FALSE
    <3>1. Append(w, r) \in Seq(Records)
      BY <2>2, AppendProperties
    <3>2. Diagnose!TryPush(RingOf(w, n), r, FALSE) = RingOf(Append(w, r), n + 1)
      BY <2>2, RingWritten
    <3> QED
      BY <2>1, <2>2, <2>4, <3>1, <3>2
  <2> QED
    BY <2>2, <2>3, <2>4
<1>3. Nat \subseteq S
  <2> HIDE DEF S
  <2> QED
    BY <1>1, <1>2, AllReached
<1> QED
  BY <1>3 DEF RingOf

-------------------------------------------------------------------------------
(* Sessions.                                                                *)

IsPin(pin, Pids) ==
    /\ pin \in [active : SUBSET [targets : SUBSET Pids, generation : Nat, at : Nat], last : Nat]
    /\ \A s, r \in pin.active : s = r
    /\ \A s \in pin.active : s.generation = pin.last

IsInput(i, Pids) == i \in [pids : SUBSET Pids, phase : {"Direct", "Momentum", "Ended"}, at : Nat]

TargetsOf(pin, i) == UNION {r.targets : r \in Session!Observe(pin, i.pids, i.phase, i.at)}

(* The session of an input, open or ended, and what an input makes of the    *)
(* pin: a session of its own, its target in the one there was, or none.      *)
Open(pids, generation, i) == [targets |-> pids, generation |-> generation, at |-> i.at]

Pin(active, last) == [active |-> active, last |-> last]

Fresh(pin, i, x, after) ==
    /\ x = Session!Target(i.pids \ {0}, pin.last + 1, TRUE) /\ i.phase = "Direct"
    /\ after = Pin({Open(i.pids \ {0}, pin.last + 1, i)}, pin.last + 1)

Continued(pin, i, x, after) ==
    \E s \in pin.active :
        /\ x = Session!Target(s.targets, s.generation, FALSE)
        /\ s.at <= i.at /\ i.at - s.at <= IdleTimeout
        /\ after \in {Pin({}, pin.last), Pin({Open(s.targets, s.generation, i)}, pin.last)}

Unanswered(pin, after) == after \in {pin, Pin({}, pin.last)}

(* An input has one target or none; an error has none. *)
Answered(pin, i, targets, after) ==
    /\ \A x \in targets : Fresh(pin, i, x, after) \/ Continued(pin, i, x, after)
    /\ targets = {} => Unanswered(pin, after)

LEMMA OpenedPin ==
  ASSUME U64Max \in Nat, NEW Pids, NEW pin, IsPin(pin, Pids), NEW i, IsInput(i, Pids),
         NEW r \in Session!Opened(pin, i.pids \ {0}, i.phase, i.at)
  PROVE  /\ Session!Opened(pin, i.pids \ {0}, i.phase, i.at) = {r}
         /\ Answered(pin, i, r.targets, r.pin)
<1> DEFINE pids == i.pids \ {0}
           x == Session!Target(pids, pin.last + 1, TRUE)
           opened == Pin({Open(pids, pin.last + 1, i)}, pin.last + 1)
<1>1. CASE i.phase = "Direct"
  <2>1. Session!Opened(pin, pids, i.phase, i.at) = {Session!Result(opened, {x})}
    BY <1>1 DEF Session!Opened, Session!StartSession, Pin, Open
  <2> HIDE DEF opened, x
  <2>2. r.pin = opened /\ r.targets = {x}
    <3>1. r = Session!Result(opened, {x})
      BY <2>1
    <3> QED
      BY <3>1 DEF Session!Result
  <2>3. Fresh(pin, i, x, opened)
    BY <1>1 DEF Fresh, x, opened
  <2> QED
    BY <2>1, <2>2, <2>3 DEF Answered
<1>2. CASE i.phase # "Direct"
  <2>1. Session!Opened(pin, pids, i.phase, i.at) = {Session!Result(pin, {})}
    BY <1>2 DEF Session!Opened
  <2>2. r.pin = pin /\ r.targets = {}
    <3>1. r = Session!Result(pin, {})
      BY <2>1
    <3> QED
      BY <3>1 DEF Session!Result
  <2> QED
    BY <2>1, <2>2 DEF Answered, Unanswered
<1> QED
  BY <1>1, <1>2

LEMMA ObservedPin ==
  ASSUME U64Max \in Nat, IdleTimeout \in Nat, NEW Pids, NEW pin, IsPin(pin, Pids),
         NEW i, IsInput(i, Pids)
  PROVE  Answered(pin, i, TargetsOf(pin, i), Session!PinAfter(pin, i.pids, i.phase, i.at))
<1> DEFINE results == Session!Observe(pin, i.pids, i.phase, i.at)
           after == Session!PinAfter(pin, i.pids, i.phase, i.at)
           pids == i.pids \ {0}
           s == CHOOSE x \in pin.active : TRUE
           idle == [pin EXCEPT !.active = {}]
<1> SUFFICES Answered(pin, i, TargetsOf(pin, i), after)
  OBVIOUS
<1>1. ASSUME NEW r, results = {r}, Answered(pin, i, r.targets, r.pin)
      PROVE  Answered(pin, i, TargetsOf(pin, i), after)
  <2>1. TargetsOf(pin, i) = r.targets
    BY <1>1 DEF TargetsOf
  <2>2. (CHOOSE q \in results : TRUE) = r
    BY <1>1
  <2>3. after = r.pin
    BY <1>1, <2>2 DEF Session!PinAfter
  <2> QED
    BY <1>1, <2>1, <2>3
<1>2. ASSUME results = {}
      PROVE  Answered(pin, i, TargetsOf(pin, i), after)
  <2>1. TargetsOf(pin, i) = {}
    BY <1>2 DEF TargetsOf
  <2>2. after = [pin EXCEPT !.active = {x \in pin.active : i.at - x.at <= IdleTimeout}]
    BY <1>2 DEF Session!PinAfter
  <2>3. {x \in pin.active : i.at - x.at <= IdleTimeout} \in {{}, pin.active}
    BY DEF IsPin
  <2> QED
    BY <2>1, <2>2, <2>3 DEF Answered, Unanswered, IsPin, Pin
<1> HIDE DEF results, after
<1>3. CASE pin.active = {}
  <2>1. results = Session!Opened(pin, pids, i.phase, i.at)
    BY <1>3 DEF Session!Observe, results
  <2>2. ASSUME NEW r \in results PROVE Answered(pin, i, TargetsOf(pin, i), after)
    BY <1>1, <2>1, <2>2, OpenedPin
  <2> QED
    BY <1>2, <2>2
<1>4. CASE pin.active # {} /\ i.at < s.at
  BY <1>2, <1>4 DEF Session!Observe, results
<1>5. CASE pin.active # {} /\ ~(i.at < s.at) /\ i.at - s.at > IdleTimeout
  <2>1. results = Session!Opened(idle, pids, i.phase, i.at)
    BY <1>5 DEF Session!Observe, results
  <2>2. IsPin(idle, Pids) /\ idle.last = pin.last /\ idle.active = {} /\ idle = Pin({}, pin.last)
    BY DEF IsPin, Pin
  <2>3. ASSUME NEW targets, NEW p, Answered(idle, i, targets, p) PROVE Answered(pin, i, targets, p)
    BY <2>2, <2>3 DEF Answered, Fresh, Continued, Unanswered
  <2> HIDE DEF idle
  <2>4. ASSUME NEW r \in results PROVE Answered(pin, i, TargetsOf(pin, i), after)
    <3>1. results = {r} /\ Answered(idle, i, r.targets, r.pin)
      BY <2>1, <2>2, <2>4, OpenedPin
    <3> QED
      BY <1>1, <2>3, <3>1
  <2> QED
    BY <1>2, <2>4
<1>6. CASE pin.active # {} /\ ~(i.at < s.at) /\ ~(i.at - s.at > IdleTimeout)
  <2>1. s \in pin.active
    BY <1>6
  <2>2. s \in [targets : SUBSET Pids, generation : Nat, at : Nat]
    BY <2>1 DEF IsPin
  <2>3. i.at \in Nat
    BY DEF IsInput
  <2> DEFINE moved == Open(s.targets, s.generation, i)
             kept == IF i.phase = "Ended" THEN {} ELSE {[s EXCEPT !.at = i.at]}
             x == Session!Target(s.targets, s.generation, FALSE)
             p == [pin EXCEPT !.active = kept]
  <2>4. results = {Session!Result(p, {x})}
    BY <1>6 DEF Session!Observe, results
  <2>5. Session!Result(p, {x}).pin = p /\ Session!Result(p, {x}).targets = {x}
    BY DEF Session!Result
  <2> HIDE DEF s
  <2>6. [s EXCEPT !.at = i.at] = moved
    BY <2>2 DEF Open
  <2>7. p = Pin(kept, pin.last) /\ kept \in {{}, {moved}}
    BY <2>6 DEF IsPin, Pin
  <2> HIDE DEF p, kept
  <2>8. Continued(pin, i, x, p)
    <3>1. s.at <= i.at /\ i.at - s.at <= IdleTimeout
      BY <1>6, <2>2, <2>3
    <3> QED
      BY <2>1, <2>7, <3>1 DEF Continued
  <2>9. Answered(pin, i, {x}, p)
    BY <2>8 DEF Answered
  <2> QED
    BY <1>1, <2>4, <2>5, <2>9
<1> QED
  BY <1>3, <1>4, <1>5, <1>6

(* A run of the pin over inputs, and the targets of its n-th input. *)
PinRuns(pin, input, Pids) ==
    /\ pin[0] = Session!NoSession
    /\ \A n \in Nat :
        /\ IsInput(input[n], Pids)
        /\ pin[n + 1] = Session!PinAfter(pin[n], input[n].pids, input[n].phase, input[n].at)

Told(pin, input, n) == TargetsOf(pin[n], input[n])

(* What the pin has kept of the n inputs before: generations seen are not    *)
(* above its last, and those of the open session have the session's target.  *)
Remembered(pin, input, n, Pids) ==
    /\ IsPin(pin[n], Pids)
    /\ \A s \in pin[n].active :
        /\ 0 \notin s.targets
        /\ \E m \in 0 .. n - 1 : \E y \in Told(pin, input, m) : y.new /\ y.generation = s.generation
    /\ \A m \in 0 .. n - 1 : \A y \in Told(pin, input, m) :
        /\ y.generation \in Nat /\ y.generation <= pin[n].last
        /\ \A s \in pin[n].active : y.generation = s.generation => y.targets = s.targets

(* The target x, told by the n-th input, agrees with those told before. *)
Consistent(pin, input, n, x) ==
    /\ 0 \notin x.targets
    /\ x.new => /\ input[n].phase = "Direct"
                /\ \A m \in 0 .. n - 1 : \A y \in Told(pin, input, m) : y.generation < x.generation
    /\ ~x.new => \E m \in 0 .. n - 1 : \E y \in Told(pin, input, m) :
                    y.new /\ y.generation = x.generation
    /\ \A m \in 0 .. n - 1 : \A y \in Told(pin, input, m) :
        y.generation = x.generation => y.targets = x.targets

LEMMA PinRemembers ==
  ASSUME U64Max \in Nat, IdleTimeout \in Nat, NEW Pids, NEW pin, NEW input,
         PinRuns(pin, input, Pids), NEW n \in Nat, Remembered(pin, input, n, Pids)
  PROVE  /\ \A x \in Told(pin, input, n) : Consistent(pin, input, n, x)
         /\ Remembered(pin, input, n + 1, Pids)
<1> DEFINE p == pin[n]  q == pin[n + 1]  i == input[n]  now == Told(pin, input, n)
           Before(m, y) == m \in 0 .. n - 1 /\ y \in Told(pin, input, m)
<1>1. IsPin(p, Pids) /\ IsInput(i, Pids) /\ q = Session!PinAfter(p, i.pids, i.phase, i.at)
  BY DEF Remembered, PinRuns
<1>2. now = TargetsOf(p, i)
  BY DEF Told
<1>3. /\ \A s \in p.active : /\ 0 \notin s.targets
                            /\ \E m, y : Before(m, y) /\ y.new /\ y.generation = s.generation
      /\ \A m, y : Before(m, y) =>
            /\ y.generation \in Nat /\ y.generation <= p.last
            /\ \A s \in p.active : y.generation = s.generation => y.targets = s.targets
  BY DEF Remembered
<1>4. \A m, y : m \in 0 .. (n + 1) - 1 /\ y \in Told(pin, input, m)
                 <=> Before(m, y) \/ (m = n /\ y \in now)
  <2>1. 0 .. (n + 1) - 1 = (0 .. n - 1) \cup {n}
    OBVIOUS
  <2> QED
    BY <2>1
<1> HIDE DEF p, q, i, now, Before
<1>5. Answered(p, i, now, q)
  BY <1>1, <1>2, ObservedPin
<1>6. /\ p.last \in Nat /\ i.at \in Nat /\ i.pids \ {0} \in SUBSET Pids
      /\ \A s \in p.active : s.generation = p.last /\ s.targets \in SUBSET Pids
  BY <1>1 DEF IsPin, IsInput
<1>7. ASSUME NEW x \in now PROVE Consistent(pin, input, n, x)
  <2>1. \A m, y : Before(m, y) <=> m \in 0 .. n - 1 /\ y \in Told(pin, input, m)
    BY DEF Before
  <2>2. CASE Fresh(p, i, x, q)
    <3>1. x.targets = i.pids \ {0} /\ x.generation = p.last + 1 /\ x.new = TRUE
          /\ i.phase = "Direct"
      BY <2>2 DEF Fresh, Session!Target
    <3>2. \A m, y : Before(m, y) => y.generation < x.generation
      BY <1>3, <1>6, <3>1
    <3>3. \A m, y : Before(m, y) => y.generation # x.generation
      BY <1>3, <1>6, <3>1
    <3> QED
      BY <2>1, <3>1, <3>2, <3>3 DEF Consistent, i
  <2>3. CASE Continued(p, i, x, q)
    <3>1. PICK s \in p.active : x = Session!Target(s.targets, s.generation, FALSE)
      BY <2>3 DEF Continued
    <3>2. x.targets = s.targets /\ x.generation = s.generation /\ x.new = FALSE
      BY <3>1 DEF Session!Target
    <3> QED
      BY <1>3, <2>1, <3>2 DEF Consistent
  <2> QED
    BY <1>5, <2>2, <2>3 DEF Answered
<1>8. ASSUME IsPin(q, Pids),
             \A s \in q.active : /\ 0 \notin s.targets
                                 /\ \E m, y : /\ Before(m, y) \/ (m = n /\ y \in now)
                                              /\ y.new /\ y.generation = s.generation,
             \A m, y : Before(m, y) \/ (m = n /\ y \in now) =>
                /\ y.generation \in Nat /\ y.generation <= q.last
                /\ \A s \in q.active : y.generation = s.generation => y.targets = s.targets
      PROVE  Remembered(pin, input, n + 1, Pids)
  BY <1>4, <1>8 DEF Remembered, q
<1>9. ASSUME NEW x \in now, Fresh(p, i, x, q) PROVE Remembered(pin, input, n + 1, Pids)
  <2> DEFINE o == Open(i.pids \ {0}, p.last + 1, i)
  <2>1. x.targets = i.pids \ {0} /\ x.generation = p.last + 1 /\ x.new = TRUE
    BY <1>9 DEF Fresh, Session!Target
  <2>2. q = Pin({o}, p.last + 1)
    BY <1>9 DEF Fresh
  <2>3. /\ o \in [targets : SUBSET Pids, generation : Nat, at : Nat]
        /\ o.targets = x.targets /\ o.generation = x.generation
    BY <1>6, <2>1 DEF Open
  <2> HIDE DEF o
  <2>4. q.active = {o} /\ q.last = p.last + 1 /\ IsPin(q, Pids)
    BY <1>6, <2>1, <2>2, <2>3 DEF Pin, IsPin
  <2>5. \A m, y : Before(m, y) => /\ y.generation \in Nat /\ y.generation <= p.last + 1
                                 /\ y.generation # x.generation
    BY <1>3, <1>6, <2>1
  <2>6. ASSUME NEW y \in now PROVE y.generation = x.generation /\ y.targets = x.targets
    <3>1. CASE Fresh(p, i, y, q)
      BY <2>1, <3>1 DEF Fresh, Session!Target
    <3>2. CASE Continued(p, i, y, q)
      <4>1. q.last = p.last
        BY <3>2 DEF Continued, Pin
      <4> QED
        BY <1>6, <2>4, <4>1
    <3> QED
      BY <1>5, <3>1, <3>2 DEF Answered
  <2>7. x.generation \in Nat /\ x.generation <= q.last
    BY <1>6, <2>1, <2>4
  <2>8. \A s \in q.active : 0 \notin s.targets /\ s.generation = x.generation /\ s.targets = x.targets
    BY <2>1, <2>3, <2>4
  <2> QED
    BY <1>8, <2>1, <2>4, <2>5, <2>6, <2>7, <2>8
<1>10. ASSUME \A x \in now : ~Fresh(p, i, x, q) PROVE Remembered(pin, input, n + 1, Pids)
  <2>1. ASSUME NEW x \in now
        PROVE  \E s \in p.active :
                    /\ x.targets = s.targets /\ x.generation = s.generation
                    /\ q \in {Pin({}, p.last), Pin({Open(s.targets, s.generation, i)}, p.last)}
    <3>1. Continued(p, i, x, q)
      BY <1>5, <1>10 DEF Answered
    <3>2. PICK s \in p.active :
            /\ x = Session!Target(s.targets, s.generation, FALSE)
            /\ q \in {Pin({}, p.last), Pin({Open(s.targets, s.generation, i)}, p.last)}
      BY <3>1 DEF Continued
    <3>3. x.targets = s.targets /\ x.generation = s.generation
      BY <3>2 DEF Session!Target
    <3> QED
      BY <3>2, <3>3
  <2>2. \/ q = p
        \/ q = Pin({}, p.last)
        \/ \E s \in p.active : q = Pin({Open(s.targets, s.generation, i)}, p.last)
    <3>1. CASE now = {}
      BY <1>5, <3>1 DEF Answered, Unanswered
    <3> QED
      BY <2>1, <3>1
  <2>3. /\ IsPin(q, Pids) /\ q.last = p.last
        /\ \A o \in q.active : \E s \in p.active : o.targets = s.targets /\ o.generation = s.generation
    <3>1. CASE q = p
      BY <1>1, <3>1
    <3>2. CASE q = Pin({}, p.last)
      BY <1>6, <3>2 DEF Pin, IsPin
    <3>3. ASSUME NEW s \in p.active, q = Pin({Open(s.targets, s.generation, i)}, p.last)
          PROVE  <2>3
      <4> DEFINE o == Open(s.targets, s.generation, i)
      <4>1. /\ o \in [targets : SUBSET Pids, generation : Nat, at : Nat]
            /\ o.targets = s.targets /\ o.generation = s.generation
        BY <1>6 DEF Open
      <4> HIDE DEF o
      <4>2. q.active = {o} /\ q.last = p.last /\ IsPin(q, Pids)
        BY <1>6, <3>3, <4>1 DEF Pin, IsPin, o
      <4> QED
        BY <4>1, <4>2
    <3> QED
      BY <2>2, <3>1, <3>2, <3>3
  <2>4. \A s, r \in p.active : s.targets = r.targets /\ s.generation = r.generation
    BY <1>1 DEF IsPin
  <2>5. \A o \in q.active : /\ 0 \notin o.targets
                           /\ \E m, y : Before(m, y) /\ y.new /\ y.generation = o.generation
    BY <1>3, <2>3
  <2>6. \A m, y : Before(m, y) =>
            /\ y.generation \in Nat /\ y.generation <= q.last
            /\ \A o \in q.active : y.generation = o.generation => y.targets = o.targets
    BY <1>3, <2>3
  <2>7. \A y \in now :
            /\ y.generation \in Nat /\ y.generation <= q.last
            /\ \A o \in q.active : y.generation = o.generation => y.targets = o.targets
    <3> TAKE y \in now
    <3>1. PICK s \in p.active : y.targets = s.targets /\ y.generation = s.generation
      BY <2>1
    <3>2. y.generation \in Nat /\ y.generation <= q.last
      BY <1>6, <2>3, <3>1
    <3>3. \A o \in q.active : o.targets = y.targets
      BY <2>3, <2>4, <3>1
    <3> QED
      BY <3>2, <3>3
  <2> QED
    BY <1>8, <2>3, <2>5, <2>6, <2>7
<1> QED
  BY <1>7, <1>9, <1>10 DEF now

(* A session keeps its target and its generation until it ends or pauses,    *)
(* whatever the pointer is over: targets of one generation are the same, a   *)
(* new one comes of a direct event and has a generation above all before,    *)
(* and one that is not new was told as new before (app_session.rs).          *)
THEOREM SessionsKeepTheirTarget ==
  ASSUME U64Max \in Nat, IdleTimeout \in Nat, NEW Pids, NEW pin, NEW input,
         PinRuns(pin, input, Pids)
  PROVE  \A n \in Nat : \A x \in Told(pin, input, n) : Consistent(pin, input, n, x)
<1> DEFINE S == {k \in Nat : Remembered(pin, input, k, Pids)}
<1>1. 0 \in S
  <2>1. pin[0].active = {} /\ pin[0].last = 0 /\ IsPin(pin[0], Pids)
    BY DEF PinRuns, Session!NoSession, IsPin
  <2>2. 0 .. 0 - 1 = {}
    OBVIOUS
  <2>3. Remembered(pin, input, 0, Pids)
    BY <2>1, <2>2 DEF Remembered
  <2> QED
    BY <2>3
<1>2. ASSUME NEW n \in Nat, n \in S PROVE n + 1 \in S
  <2>1. Remembered(pin, input, n + 1, Pids)
    BY <1>2, PinRemembers
  <2> QED
    BY <2>1
<1>3. Nat \subseteq S
  <2> HIDE DEF S
  <2> QED
    BY <1>1, <1>2, AllReached
<1> QED
  BY <1>3, PinRemembers
===============================================================================
