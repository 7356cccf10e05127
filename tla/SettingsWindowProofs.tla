-------------------------- MODULE SettingsWindowProofs --------------------------
(***************************************************************************)
(* The settings window.  SettingsPanel, for any devices, aliases, presets,  *)
(* files and bounds: the rules stay valid, and an edit reaches only what it *)
(* was made on.  DeviceList, for any devices and as long as the window      *)
(* polls: a wrong list is corrected within the backstop.  DeviceTest, for   *)
(* any devices and size of the ring: a test detects only its own device.    *)
(* ScrollBenchmark, for any matrices and events: a result is earned.        *)
(* StartupOwnership, for any commands: each operation makes its own calls   *)
(* only, and the ownership of the login start moves as a whole.             *)
(***************************************************************************)
EXTENDS SettingsPanel, StartupOwnership, DeviceList, DeviceTest, ScrollBenchmark, FiniteSetTheorems, TLAPS

IsRuleList(rules) == (\A r \in rules : IsRule(r)) /\ ValidRules(rules)

-------------------------------------------------------------------------------
(* The operators on rule lists.                                             *)

(* The selector of a device's own rule is its narrowest. *)
LEMMA InheritingFacts ==
  ASSUME NEW d
  PROVE  /\ IsRule(InheritingFor(d)) /\ IsPreferredFor(InheritingFor(d), d)
         /\ d.serial = None \/ NarrowestPort(d) = None
BY DEF IsRule, InheritingFor, RuleFields, Texts, IsPreferredFor, Selector, NarrowestPort

(* An edit of the device's own rule keeps a list valid. *)
LEMMA UpdateKeeps ==
  ASSUME NEW rules, IsRuleList(rules), NEW d, NEW f \in {"alias", "reverse"}, NEW value,
         f = "alias" => value \in Texts
  PROVE  /\ IsRuleList(UpdatePreferred(rules, d, f, value))
         /\ \A r \in UpdatePreferred(rules, d, f, value) :
               r \in rules \/ IsPreferredFor(r, d)
         /\ \A r \in rules :
               r \in UpdatePreferred(rules, d, f, value) \/ IsPreferredFor(r, d)
<1> DEFINE own == Preferred(rules, d)
           base == IF own = {} THEN InheritingFor(d) ELSE CHOOSE r \in own : TRUE
           edited == [base EXCEPT ![f] = value]
           new == UpdatePreferred(rules, d, f, value)
<1>1. own = {r \in rules : IsPreferredFor(r, d)}
  BY DEF Preferred
<1>2. IsRule(base) /\ IsPreferredFor(base, d)
  <2>1. CASE own = {}
    BY <2>1, InheritingFacts
  <2>2. CASE own # {}
    <3>1. base \in own
      BY <2>2
    <3> QED
      BY <1>1, <3>1 DEF IsRuleList
  <2> QED
    BY <2>1, <2>2
<1> HIDE DEF base
<1>3. IsRule(edited) /\ IsPreferredFor(edited, d)
  <2>1. CASE f = "alias"
    BY <1>2, <2>1 DEF IsRule, IsPreferredFor, Selector, RuleFields
  <2>2. CASE f = "reverse"
    BY <1>2, <2>2 DEF IsRule, IsPreferredFor, Selector, RuleFields
  <2> QED
    BY <2>1, <2>2
<1>4. new = (rules \ own) \cup IF HasOverrides(edited) THEN {edited} ELSE {}
  BY DEF UpdatePreferred, base
<1> HIDE DEF edited, own, new
<1>5. /\ \A r \in new : (r \in rules /\ ~IsPreferredFor(r, d)) \/ r = edited
      /\ \A r \in rules : r \in new \/ IsPreferredFor(r, d)
  BY <1>1, <1>4
<1>6. edited.serial = None \/ edited.port = None
  BY <1>3, InheritingFacts DEF IsPreferredFor, Selector
<1>7. \A r \in new : IsRule(r) /\ (r.serial = None \/ r.port = None)
  BY <1>3, <1>5, <1>6 DEF IsRuleList, ValidRules, OneQualifier
<1>8. \A r, q \in new : Selector(r) = Selector(q) => r = q
  BY <1>3, <1>5 DEF IsRuleList, ValidRules, NoDuplicates, IsPreferredFor
<1> QED
  BY <1>3, <1>5, <1>7, <1>8 DEF IsRuleList, ValidRules, OneQualifier, NoDuplicates, new

(* Dropping a device's own rule keeps a list valid. *)
LEMMA WithoutKeeps ==
  ASSUME NEW rules, IsRuleList(rules), NEW d
  PROVE  /\ IsRuleList(WithoutProfile(rules, d))
         /\ \A r \in WithoutProfile(rules, d) : r \in rules
         /\ \A r \in rules : r \in WithoutProfile(rules, d) \/ IsPreferredFor(r, d)
BY DEF WithoutProfile, Preferred, IsRuleList, ValidRules, OneQualifier, NoDuplicates

(* Clearing fields that are no part of a selector keeps a list valid. *)
LEMMA ClearedKeeps ==
  ASSUME NEW rules, IsRuleList(rules)
  PROVE  IsRuleList(Cleared(rules, {"step", "preset"}))
<1> DEFINE Clear(q) ==
             [f \in DOMAIN q |-> IF f \in {"step", "preset"} THEN None ELSE q[f]]
<1>1. \A q \in rules : /\ IsRule(Clear(q)) /\ Selector(Clear(q)) = Selector(q)
                       /\ Clear(q).serial = q.serial /\ Clear(q).port = q.port
  BY DEF IsRuleList, IsRule, RuleFields, Selector
<1>2. \A r \in Cleared(rules, {"step", "preset"}) : \E q \in rules : r = Clear(q)
  BY DEF Cleared
<1> HIDE DEF Clear
<1>3. \A r \in Cleared(rules, {"step", "preset"}) :
         IsRule(r) /\ (r.serial = None \/ r.port = None)
  BY <1>1, <1>2 DEF IsRuleList, ValidRules, OneQualifier
<1>4. \A r, s \in Cleared(rules, {"step", "preset"}) : Selector(r) = Selector(s) => r = s
  BY <1>1, <1>2 DEF IsRuleList, ValidRules, NoDuplicates
<1> QED
  BY <1>3, <1>4 DEF IsRuleList, ValidRules, OneQualifier, NoDuplicates

(* The value a list has for a device depends on the rules that match it. *)
LEMMA SameRules ==
  ASSUME NEW rules, NEW new, NEW i, \A r : Matches(r, i) => (r \in rules <=> r \in new)
  PROVE  \A f : RuleValue(new, i, f) = RuleValue(rules, i, f)
<1>1. \A f : Speaking(new, i, f) = Speaking(rules, i, f)
  BY DEF Speaking
<1> QED
  BY <1>1 DEF RuleValue

(* A device that a row does not cover matches none of the rules it edits. *)
LEMMA ApartFromOwn ==
  ASSUME NEW d, NEW i, Apart(i, d), NEW r, IsPreferredFor(r, d)
  PROVE  ~Matches(r, i)
BY DEF Apart, Matches, IsPreferredFor, Selector, InheritingFor

-------------------------------------------------------------------------------
(* The inductive invariant: every copy is one the program could have loaded.*)

FilesOK ==
    /\ IsConfig(disk) /\ IsConfig(panel) /\ (known = None \/ IsConfig(known))
    /\ edits \in 0 .. MaxEdits

RestOK ==
    /\ observed \subseteq Devices /\ tab \in Tabs
    /\ drafts \in [Devices -> Texts \cup {"absent"}]
    /\ focus \in Devices \cup {None}
    /\ asked \in [device : Devices \cup {None}, dynamics : BOOLEAN, all : BOOLEAN]
    /\ trial = None \/ trial \in [committed : Presets, candidate : Presets]
    /\ review \in Importable \cup {None}

IInv == FilesOK /\ RestOK

(* Whatever comes of a save, the copies are configurations. *)
LEMMA SaveKeeps ==
  ASSUME FilesOK, NEW new, IsConfig(new), Save(new)
  PROVE  FilesOK' /\ panel' \in {panel, disk, new}
<1>1. edits' \in 0 .. MaxEdits
  BY IdentitiesAssumption DEF Save, Saved, NotSaved, Count, FilesOK
<1>2. CASE Saved(new)
  BY <1>1, <1>2 DEF Saved, FilesOK
<1>3. CASE NotSaved(new)
  BY <1>1, <1>3 DEF NotSaved, FilesOK
<1> QED
  BY <1>2, <1>3 DEF Save

(* Nothing is saved. *)
LEMMA NothingKeeps ==
  ASSUME FilesOK, NothingSaved
  PROVE  FilesOK' /\ panel' = panel
BY DEF FilesOK, NothingSaved, files

(* A save that replaces the rules of one device's row. *)
RowOutcome(d) ==
    Overtaken \/ /\ panel' = [panel EXCEPT !.rules = panel'.rules]
                 /\ \A i \in Devices : Apart(i, d) => SameFor(i)

LEMMA RowSave ==
  ASSUME FilesOK, NEW d \in Devices, NEW rules, IsRuleList(rules),
         \A r \in rules : r \in panel.rules \/ IsPreferredFor(r, d),
         \A r \in panel.rules : r \in rules \/ IsPreferredFor(r, d),
         Save(WithRules(rules))
  PROVE  FilesOK' /\ RowOutcome(d)
<1> DEFINE new == WithRules(rules)
<1>1. /\ IsConfig(new) /\ new.rules = rules /\ new.step = panel.step
      /\ new.preset = panel.preset /\ new.reversedKinds = panel.reversedKinds
      /\ new = [panel EXCEPT !.rules = new.rules]
  BY DEF FilesOK, IsConfig, IsRuleList, ConfigFields, WithRules
<1>2. FilesOK' /\ panel' \in {panel, disk, new}
  BY <1>1, SaveKeeps
<1> HIDE DEF new
<1>3. ASSUME NEW i \in Devices, Apart(i, d), panel' = new
      PROVE  SameFor(i)
  <2>1. \A r : Matches(r, i) => (r \in panel.rules <=> r \in rules)
    BY <1>3, ApartFromOwn
  <2>2. \A f : RuleValue(rules, i, f) = RuleValue(panel.rules, i, f)
    BY <2>1, SameRules
  <2> QED
    BY <1>1, <1>3, <2>2 DEF SameFor, Profile
<1> QED
  BY <1>1, <1>2, <1>3 DEF RowOutcome, Overtaken

(* The same for the two fields a row edits. *)
LEMMA RowUpdate ==
  ASSUME FilesOK, NEW d \in Devices, NEW f \in {"alias", "reverse"}, NEW value,
         f = "alias" => value \in Texts,
         Save(WithRules(UpdatePreferred(panel.rules, d, f, value)))
  PROVE  FilesOK' /\ RowOutcome(d)
<1>1. IsRuleList(panel.rules)
  BY DEF FilesOK, IsConfig, IsRuleList
<1> DEFINE edited == UpdatePreferred(panel.rules, d, f, value)
<1>2. /\ IsRuleList(edited)
      /\ \A r \in edited : r \in panel.rules \/ IsPreferredFor(r, d)
      /\ \A r \in panel.rules : r \in edited \/ IsPreferredFor(r, d)
  BY <1>1, UpdateKeeps
<1> HIDE DEF edited
<1>3. Save(WithRules(edited)) => FilesOK' /\ RowOutcome(d)
  BY <1>2, RowSave
<1> QED
  BY <1>3 DEF edited

(* A committed alias, or nothing to commit. *)
LEMMA AliasCommitted ==
  ASSUME FilesOK, NEW d \in Devices, NEW text \in Texts, CommitAlias(d, text)
  PROVE  FilesOK' /\ RowOutcome(d)
<1>1. CASE NothingSaved
  BY <1>1, NothingKeeps DEF RowOutcome, Overtaken
<1>2. CASE Save(WithRules(WithAlias(panel.rules, d, text)))
  BY <1>2, RowUpdate DEF WithAlias
<1> QED
  BY <1>1, <1>2 DEF CommitAlias

(* Every edit of a row or a mark. *)
LEMMA RowKeeps ==
  ASSUME IInv, NEW d \in Devices, RowEdit(d)
  PROVE  IInv' /\ RowOutcome(d)
<1>0. FilesOK /\ RestOK
  BY DEF IInv
<1>1. CASE \E selection \in {TRUE, FALSE, None} : Select(d, selection)
  <2>1. PICK selection \in {TRUE, FALSE, None} :
             Save(WithRules(UpdatePreferred(panel.rules, d, "reverse", selection)))
    BY <1>1 DEF Select, WithSelection
  <2>2. FilesOK' /\ RowOutcome(d)
    BY <1>0, <2>1, RowUpdate
  <2> QED
    BY <1>0, <1>1, <2>2 DEF IInv, RestOK, Select, fields, dialogs
<1>2. CASE \E text \in Texts, blanks \in BOOLEAN : Type(d, text, blanks)
  <2>1. PICK text \in Texts, blanks \in BOOLEAN : Type(d, text, blanks)
    BY <1>2
  <2>2. FilesOK' /\ RowOutcome(d)
    BY <1>0, <2>1, AliasCommitted, NothingKeeps DEF Type, RowOutcome, Overtaken
  <2>3. RestOK'
    BY <1>0, <2>1 DEF RestOK, Type, dialogs
  <2> QED
    BY <2>2, <2>3 DEF IInv
<1>3. CASE Leave(d)
  <2>1. drafts[d] \in Texts
    BY <1>0, <1>3 DEF Leave, OnRow, RestOK
  <2>2. FilesOK' /\ RowOutcome(d)
    BY <1>0, <1>3, <2>1, AliasCommitted DEF Leave
  <2>3. RestOK'
    BY <1>0, <1>3 DEF RestOK, Leave, dialogs
  <2> QED
    BY <2>2, <2>3 DEF IInv
<1>4. CASE ResetDevice(d)
  <2>1. IsRuleList(panel.rules)
    BY <1>0 DEF FilesOK, IsConfig, IsRuleList
  <2>2. Save(WithRules(WithoutProfile(panel.rules, d))) => FilesOK' /\ RowOutcome(d)
    BY <1>0, <2>1, WithoutKeeps, RowSave
  <2>3. NothingSaved => FilesOK' /\ RowOutcome(d)
    BY <1>0, NothingKeeps DEF RowOutcome, Overtaken
  <2>4. RestOK'
    BY <1>0, <1>4 DEF RestOK, ResetDevice
  <2> QED
    BY <1>4, <2>2, <2>3, <2>4 DEF IInv, ResetDevice
<1>5. CASE ToggleInTray(d)
  <2>1. PICK value : Save(WithRules(UpdatePreferred(panel.rules, d, "reverse", value)))
    BY <1>5 DEF ToggleInTray, Toggled, WithSelection
  <2>2. FilesOK' /\ RowOutcome(d)
    BY <1>0, <2>1, RowUpdate
  <2> QED
    BY <1>0, <1>5, <2>2 DEF IInv, RestOK, ToggleInTray, fields, dialogs
<1> QED
  BY <1>1, <1>2, <1>3, <1>4, <1>5 DEF RowEdit

-------------------------------------------------------------------------------
(* The edits of other things.                                               *)

(* Using a preset keeps the rules, and the trial's preset is the saved one. *)
LEMMA PresetKeeps ==
  ASSUME IInv, UsePreset
  PROVE  IInv' /\ panel.preset = trial.committed
<1>1. FilesOK /\ RestOK /\ trial # None /\ trial.committed = panel.preset
  BY DEF IInv, UsePreset, CanConfirm, Pending
<1>2. trial.candidate \in Presets
  BY <1>1 DEF RestOK
<1>3. IsConfig([panel EXCEPT !.preset = trial.candidate])
  BY <1>1, <1>2 DEF FilesOK, IsConfig, ConfigFields
<1>4. FilesOK'
  BY <1>1, <1>3, SaveKeeps DEF UsePreset
<1> QED
  BY <1>1, <1>4 DEF IInv, RestOK, UsePreset, fields

(* What is copied section by section is the whole of the candidate. *)
LEMMA SectionsAreComplete ==
  ASSUME NEW c, NEW candidate, IsConfig(c), IsConfig(candidate)
  PROVE  WithSections(c, candidate, Changes(c, candidate)) = candidate
<1> DEFINE shown == Changes(c, candidate)
           copied == UNION {CopiedFields[s] : s \in shown}
<1>1. \A s \in Sections : CopiedFields[s] = ComparedFields[s]
  BY DEF Sections, CopiedFields, ComparedFields
<1>2. \A f \in ConfigFields : \E s \in Sections : f \in ComparedFields[s]
  BY DEF ConfigFields, Sections, ComparedFields
<1>3. \A f \in ConfigFields : f \in copied \/ c[f] = candidate[f]
  BY <1>1, <1>2 DEF Changes
<1> HIDE DEF copied
<1>4. WithSections(c, candidate, shown) =
         [f \in ConfigFields |-> IF f \in copied THEN candidate[f] ELSE c[f]]
  BY DEF WithSections, IsConfig, copied
<1>5. WithSections(c, candidate, shown) = [f \in ConfigFields |-> candidate[f]]
  BY <1>3, <1>4
<1> QED
  BY <1>5 DEF IsConfig

(* An import that was saved is the file that was reviewed. *)
LEMMA ImportKeeps ==
  ASSUME IInv, ApplyImport
  PROVE  IInv' /\ (Overtaken \/ panel' = review)
<1>1. FilesOK /\ RestOK /\ IsConfig(panel) /\ IsConfig(review)
  BY ConfigsAssumption DEF IInv, FilesOK, RestOK, ApplyImport
<1>2. Save(review)
  BY <1>1, SectionsAreComplete DEF ApplyImport
<1>3. FilesOK' /\ panel' \in {panel, disk, review}
  BY <1>1, <1>2, SaveKeeps
<1> QED
  BY <1>1, <1>3 DEF IInv, RestOK, ApplyImport, fields, Overtaken

(* Resets of the dynamics and of everything. *)
LEMMA ResetsKeep ==
  ASSUME IInv, ResetDynamics \/ RestoreAll
  PROVE  IInv'
<1>1. FilesOK /\ RestOK /\ IsConfig(panel) /\ IsConfig(Defaults)
  BY ConfigsAssumption DEF IInv, FilesOK
<1>2. IsConfig(DynamicsDefaults(panel, Defaults))
  <2> DEFINE cleared == Cleared(panel.rules, {"step", "preset"})
  <2>1. IsRuleList(cleared)
    BY <1>1, ClearedKeeps DEF IsConfig, IsRuleList
  <2> HIDE DEF cleared
  <2>2. DynamicsDefaults(panel, Defaults) =
           [panel EXCEPT !.step = Defaults.step, !.preset = Defaults.preset,
                         !.rules = cleared]
    BY DEF DynamicsDefaults, cleared
  <2> QED
    BY <1>1, <2>1, <2>2 DEF IsConfig, IsRuleList, ConfigFields
<1>3. FilesOK'
  BY <1>1, <1>2, SaveKeeps, NothingKeeps DEF ResetDynamics, RestoreAll
<1>4. RestOK'
  <2>1. asked' \in [device : Devices \cup {None}, dynamics : BOOLEAN, all : BOOLEAN]
    <3>1. CASE ResetDynamics
      <4>1. asked' = [asked EXCEPT !.dynamics = FALSE]
        BY <3>1 DEF ResetDynamics
      <4> QED
        BY <1>1, <4>1 DEF RestOK
    <3>2. CASE RestoreAll
      <4>1. asked' = [device |-> None, dynamics |-> FALSE, all |-> FALSE]
        BY <3>2 DEF RestoreAll
      <4> QED
        BY <4>1
    <3> QED
      BY <3>1, <3>2
  <2> QED
    BY <1>1, <2>1 DEF RestOK, ResetDynamics, RestoreAll, fields
<1> QED
  BY <1>3, <1>4 DEF IInv

(* The settings of their own. *)
LEMMA OwnSettingsKeep ==
  ASSUME IInv,
         \/ ToggleEnabled \/ ToggleIcon \/ \E n \in Steps : SetStep(n)
         \/ \E kind \in Kinds : ToggleKind(kind)
  PROVE  IInv'
<1>1. FilesOK /\ RestOK /\ IsConfig(panel)
  BY DEF IInv, FilesOK
<1>2. \A value : /\ IsConfig([panel EXCEPT !.enabled = value])
                 /\ IsConfig([panel EXCEPT !.icon = value])
                 /\ IsConfig([panel EXCEPT !.step = value])
                 /\ IsConfig([panel EXCEPT !.reversedKinds = value])
  BY <1>1 DEF IsConfig, ConfigFields
<1>3. FilesOK'
  <2>1. CASE ToggleEnabled
    BY <1>1, <1>2, <2>1, SaveKeeps DEF ToggleEnabled
  <2>2. CASE ToggleIcon
    BY <1>1, <1>2, <2>2, SaveKeeps DEF ToggleIcon
  <2>3. CASE \E n \in Steps : SetStep(n)
    BY <1>1, <1>2, <2>3, SaveKeeps DEF SetStep
  <2>4. ASSUME NEW kind \in Kinds, ToggleKind(kind)
        PROVE  FilesOK'
    <3>1. PICK value : Save([panel EXCEPT !.reversedKinds = value])
      BY <2>4 DEF ToggleKind
    <3> QED
      BY <1>1, <1>2, <3>1, SaveKeeps
  <2> QED
    BY <2>1, <2>2, <2>3, <2>4
<1>4. RestOK'
  BY <1>1 DEF RestOK, ToggleEnabled, ToggleIcon, SetStep, ToggleKind, fields, dialogs
<1> QED
  BY <1>3, <1>4 DEF IInv

(* Looking around changes no configuration. *)
LEMMA BrowseKeeps ==
  ASSUME IInv, Browse
  PROVE  IInv' /\ panel' = panel
<1>1. FilesOK /\ RestOK
  BY DEF IInv
<1>2. UNCHANGED <<files, edits, observed>>
  BY DEF Browse, Draw, SwitchTab, FocusField, AskResetDevice, TryPreset, EndTrial, ChooseImport,
         CancelImport, Ask, Withdraw
<1>3. FilesOK' /\ panel' = panel
  BY <1>1, <1>2 DEF FilesOK, files
<1>4. RestOK'
  <2>1. CASE Draw
    <3>1. \A d \in Devices : ConfiguredAlias(panel, d) \in Texts
      BY <1>1 DEF ConfiguredAlias, Preferred, Texts, FilesOK, IsConfig, IsRuleList, IsRule
    <3>2. drafts' \in [Devices -> Texts \cup {"absent"}]
      BY <1>1, <2>1, <3>1 DEF Draw, Drawn, RestOK
    <3> QED
      BY <1>1, <2>1, <3>2 DEF Draw, RestOK, dialogs
  <2>2. CASE SwitchTab
    BY <1>1, <2>2 DEF SwitchTab, RestOK, dialogs
  <2>3. CASE \E d \in Devices : FocusField(d) \/ AskResetDevice(d)
    BY <1>1, <2>3 DEF FocusField, AskResetDevice, RestOK, dialogs, fields
  <2>4. CASE \E p \in Presets : TryPreset(p)
    BY <1>1, <2>4 DEF TryPreset, RestOK, fields, FilesOK, IsConfig
  <2>5. CASE EndTrial \/ ChooseImport \/ CancelImport
    BY <1>1, <2>5 DEF EndTrial, ChooseImport, CancelImport, RestOK, fields
  <2>6. CASE \E which \in {"dynamics", "all"} : Ask(which) \/ Withdraw(which)
    BY <1>1, <2>6 DEF Ask, Withdraw, RestOK, fields
  <2> QED
    BY <2>1, <2>2, <2>3, <2>4, <2>5, <2>6 DEF Browse
<1> QED
  BY <1>3, <1>4 DEF IInv

(* Writes from elsewhere, reloads and lists. *)
LEMMA OutsideKeeps ==
  ASSUME IInv, WriteElsewhere \/ Reload \/ ListDevices \/ UNCHANGED vars
  PROVE  IInv'
<1>1. FilesOK /\ RestOK
  BY DEF IInv
<1>2. FilesOK'
  BY <1>1, IdentitiesAssumption, ConfigsAssumption
  DEF FilesOK, WriteElsewhere, Count, Reload, ListDevices, vars, files
<1>3. RestOK'
  BY <1>1 DEF RestOK, WriteElsewhere, Reload, ListDevices, vars, fields, dialogs
<1> QED
  BY <1>2, <1>3 DEF IInv

(* The invariant holds at first. *)
LEMMA InvInit ==
  ASSUME Init
  PROVE  IInv
<1>1. FilesOK
  BY IdentitiesAssumption, ConfigsAssumption DEF Init, FilesOK
<1>2. RestOK
  BY DEF Init, RestOK, Tabs
<1> QED
  BY <1>1, <1>2 DEF IInv

(* Every step keeps it. *)
LEMMA InvNext ==
  ASSUME IInv, [Next]_vars
  PROVE  IInv'
BY RowKeeps, PresetKeeps, ImportKeeps, ResetsKeep, OwnSettingsKeep, BrowseKeeps, OutsideKeeps
DEF Next, Edit

-------------------------------------------------------------------------------
(* Whatever is edited, reset, imported or marked in whatever order, the     *)
(* rules stay ones the program would load again (schema.rs:158-170).        *)
THEOREM RulesStayValid == Spec => []TypeOK
<1>1. Init => IInv
  BY InvInit
<1>2. IInv /\ [Next]_vars => IInv'
  BY InvNext
<1>3. IInv => TypeOK
  BY DEF IInv, FilesOK, RestOK, TypeOK, IsConfig, IsRuleList
<1> QED
  BY <1>1, <1>2, <1>3, PTL DEF Spec

(* An edit reaches what it was made on and nothing else, with any devices   *)
(* and rules: rules of several scopes that add up cannot carry it further,  *)
(* an import that was saved leaves the file that was reviewed, and a preset *)
(* replaces the one it was tried against (device_rules.rs, diff.rs:69-71,   *)
(* preset_preview.rs:37). *)
THEOREM EditsReachTheirTargets == Spec => EditReachesItsTargetOnly
<1>1. Init => IInv
  BY InvInit
<1>2. IInv /\ [Next]_vars => IInv'
  BY InvNext
<1> DEFINE Reach ==
      ~Overtaken =>
         /\ \A d \in Devices : RowEdit(d) =>
               /\ panel' = [panel EXCEPT !.rules = panel'.rules]
               /\ \A i \in Devices : Apart(i, d) => SameFor(i)
         /\ ApplyImport => panel' = review
         /\ UsePreset => panel.preset = trial.committed
<1>3. IInv => Reach
  BY RowKeeps, PresetKeeps, ImportKeeps DEF RowOutcome
<1> HIDE DEF Reach
<1>4. IInv /\ [Next]_vars => [Reach]_vars
  BY <1>3
<1>5. [Reach]_vars => [~Overtaken =>
         /\ \A d \in Devices : RowEdit(d) =>
               /\ panel' = [panel EXCEPT !.rules = panel'.rules]
               /\ \A i \in Devices : Apart(i, d) => SameFor(i)
         /\ ApplyImport => panel' = review
         /\ UsePreset => panel.preset = trial.committed]_vars
  BY DEF Reach
<1> QED
  BY <1>1, <1>2, <1>4, <1>5, PTL DEF Spec, EditReachesItsTargetOnly

-------------------------------------------------------------------------------
(* The device list.                                                         *)

(* A poll leaves the backstop ahead of the time; a list that is wrong, and  *)
(* is not about to be drawn up again, has been so since before the present  *)
(* backstop was set. *)
BackstopInv ==
    /\ time \in Nat /\ next \in Nat /\ since \in Nat \cup {Never}
    /\ next <= time + Backstop
    /\ polled => time < next
    /\ since # Never => /\ since <= time
                        /\ time <= since + Backstop
                        /\ refresh # "list" => next <= since + Backstop

(* When a list is found wrong. *)
LEMMA WrongSinceFacts ==
  ASSUME NEW list, NEW error, NEW devices, time \in Nat, since \in Nat \cup {Never}
  PROVE  /\ WrongSince(list, error, devices) \in {Never, since, time}
         /\ error \/ list = devices => WrongSince(list, error, devices) = Never
BY DEF WrongSince

(* Every step keeps the backstop ahead. *)
LEMMA BackstopStep ==
  ASSUME BackstopInv, [ListNext]_listVars
  PROVE  BackstopInv'
<1> USE DEF BackstopInv
<1>1. CASE \E d \in Mice : Plug(d)
  <2>1. /\ since' \in {Never, since, time}
        /\ UNCHANGED <<time, next, polled, refresh>>
    BY <1>1, WrongSinceFacts DEF Plug, policy
  <2> QED
    BY <2>1 DEF Backstop
<1>2. CASE \E attention \in BOOLEAN : Poll(attention)
  <2>1. /\ next' = IF time >= next THEN time + Backstop ELSE next
        /\ time >= next => refresh' = "list"
        /\ UNCHANGED <<time, since>> /\ refresh = "none"
    BY <1>2 DEF Poll, BackstopDue
  <2>2. CASE time >= next
    BY <2>1, <2>2 DEF Backstop
  <2>3. CASE ~(time >= next)
    BY <2>1, <2>3 DEF Backstop
  <2> QED
    BY <2>2, <2>3
<1>3. CASE InventoryChanged
  BY <1>3 DEF InventoryChanged, policy
<1>4. CASE RefreshDevices
  BY <1>4 DEF RefreshDevices
<1>5. CASE List
  <2>1. since' = Never
    BY <1>5, WrongSinceFacts DEF List
  <2> QED
    BY <1>5, <2>1 DEF List
<1>6. CASE Acknowledge
  BY <1>6 DEF Acknowledge
<1>7. CASE Elapse
  <2>1. /\ time' = time + 1 /\ polled' = FALSE /\ polled /\ refresh = "none"
        /\ UNCHANGED <<next, refresh, since>>
    BY <1>7 DEF Elapse
  <2> QED
    BY <2>1 DEF Backstop
<1>8. CASE UNCHANGED listVars
  BY <1>8 DEF listVars, policy
<1> QED
  BY <1>1, <1>2, <1>3, <1>4, <1>5, <1>6, <1>7, <1>8 DEF ListNext

(* The tab never shows a wrong list for longer than the backstop, whichever *)
(* device change was acknowledged without having been listed. *)
THEOREM ListsAreCorrected == ListSpec => []ListIsCorrected
<1>1. ListInit => BackstopInv
  BY DEF ListInit, BackstopInv, Backstop
<1>2. BackstopInv /\ [ListNext]_listVars => BackstopInv'
  BY BackstopStep
<1>3. BackstopInv => ListIsCorrected
  BY DEF BackstopInv, ListIsCorrected, Backstop
<1> QED
  BY <1>1, <1>2, <1>3, PTL DEF ListSpec

-------------------------------------------------------------------------------
(* The test of a device: the ring holds records of scroll events, and a     *)
(* physical one of a device only if that device moved at that time.         *)
Records == [identity : Units, at : Nat, physical : BOOLEAN]

Recorded == \A i \in DOMAIN ring : ring[i].physical => <<ring[i].identity, ring[i].at>> \in moves

Sessions == [started : Nat, detected : Nat \cup {NotYet}]

TestInv ==
    /\ now \in Nat
    /\ ring \in Seq(Records)
    /\ tests \in [Units -> Sessions \cup {NotYet}]
    /\ Recorded
    /\ TestNeedsItsDevice

(* Whether the ring is full or not, what is in it afterwards was in it, or  *)
(* is the new record. *)
LEMMA PushedFacts ==
  ASSUME NEW r \in Seq(Records), NEW e \in Records
  PROVE  /\ Pushed(r, e) \in Seq(Records)
         /\ \A i \in DOMAIN Pushed(r, e) :
                Pushed(r, e)[i] = e \/ \E j \in DOMAIN r : Pushed(r, e)[i] = r[j]
<1> DEFINE kept == IF Len(r) >= Capacity THEN Tail(r) ELSE r
<1>1. /\ kept \in Seq(Records)
      /\ \A i \in DOMAIN kept : \E j \in DOMAIN r : kept[i] = r[j]
  <2>1. CASE Len(r) >= Capacity
    <3>1. Len(r) \in Nat /\ Len(r) # 0 /\ kept = Tail(r)
      BY <2>1, CapacityAssumption
    <3>2. r # << >>
      BY <3>1
    <3>3. Tail(r) \in Seq(Records) /\ Len(Tail(r)) = Len(r) - 1
      BY <3>2
    <3>4. \A i \in 1 .. Len(r) - 1 : Tail(r)[i] = r[i + 1] /\ i + 1 \in 1 .. Len(r)
      BY <3>1, <3>2
    <3>5. \A i \in DOMAIN Tail(r) : \E j \in DOMAIN r : Tail(r)[i] = r[j]
      <4>1. DOMAIN Tail(r) = 1 .. Len(r) - 1 /\ DOMAIN r = 1 .. Len(r)
        BY <3>3
      <4> QED
        BY <3>4, <4>1
    <3> QED
      BY <3>1, <3>3, <3>5
  <2>2. CASE ~(Len(r) >= Capacity)
    BY <2>2
  <2> QED
    BY <2>1, <2>2
<1>2. Pushed(r, e) = Append(kept, e)
  BY DEF Pushed
<1> HIDE DEF kept
<1>3. Append(kept, e) \in Seq(Records) /\ Len(Append(kept, e)) = Len(kept) + 1
  BY <1>1
<1>4. \A i \in 1 .. Len(kept) + 1 :
        Append(kept, e)[i] = e \/ (i \in DOMAIN kept /\ Append(kept, e)[i] = kept[i])
  BY <1>1
<1> QED
  BY <1>1, <1>2, <1>3, <1>4

(* An event of the tap: if its record enters the ring, what it tells of a   *)
(* physical movement is true. *)
LEMMA ScrollKeeps ==
  ASSUME TestInv, NEW d \in Units, NEW physical \in BOOLEAN, Scroll(d, physical)
  PROVE  TestInv'
<1> DEFINE e == [identity |-> d, at |-> now, physical |-> physical]
<1>1. UNCHANGED <<now, tests>> /\ moves \subseteq moves' /\ (physical => <<d, now>> \in moves')
  BY DEF Scroll
<1>2. e \in Records /\ ring' \in {ring, Pushed(ring, e)}
  BY DEF Scroll, TestInv, Records
<1>3. ring' \in Seq(Records)
  BY <1>2, PushedFacts DEF TestInv
<1>4. Recorded'
  <2>1. CASE ring' = ring
    BY <1>1, <2>1 DEF TestInv, Recorded
  <2>2. CASE ring' = Pushed(ring, e)
    <3> SUFFICES ASSUME NEW i \in DOMAIN ring', ring'[i].physical
                 PROVE  <<ring'[i].identity, ring'[i].at>> \in moves'
      BY DEF Recorded
    <3>1. CASE ring'[i] = e
      BY <1>1, <3>1
    <3>2. CASE \E j \in DOMAIN ring : ring'[i] = ring[j]
      BY <1>1, <3>2 DEF TestInv, Recorded
    <3> HIDE DEF e
    <3> QED
      BY <1>2, <2>2, <3>1, <3>2, PushedFacts DEF TestInv
  <2> QED
    BY <1>2, <2>1, <2>2
<1> QED
  BY <1>1, <1>3, <1>4 DEF TestInv, TestNeedsItsDevice

(* Drawing a row detects what the ring records of that device. *)
LEMMA DrawRowKeeps ==
  ASSUME TestInv, NEW d \in Units, DrawRow(d)
  PROVE  TestInv'
<1>1. PICK t \in Activity(d) : /\ t >= tests[d].started
                               /\ tests' = [tests EXCEPT ![d].detected = t]
  BY DEF DrawRow
<1>2. UNCHANGED <<now, ring, moves>> /\ tests[d] # NotYet
  BY DEF DrawRow
<1>3. t \in Nat /\ <<d, t>> \in moves
  <2>1. PICK i \in DOMAIN ring : ring[i].physical /\ ring[i].identity = d /\ ring[i].at = t
    BY <1>1 DEF Activity
  <2>2. ring[i] \in Records
    BY DEF TestInv
  <2> QED
    BY <2>1, <2>2 DEF TestInv, Recorded, Records
<1>4. tests[d] \in Sessions
  BY <1>2 DEF TestInv
<1>5. tests'[d] = [tests[d] EXCEPT !.detected = t] /\ \A q \in Units \ {d} : tests'[q] = tests[q]
  BY <1>1 DEF TestInv
<1>6. tests'[d] \in Sessions /\ tests'[d].detected = t /\ tests'[d].started = tests[d].started
  BY <1>3, <1>4, <1>5 DEF Sessions
<1>7. tests' \in [Units -> Sessions \cup {NotYet}]
  BY <1>1, <1>5, <1>6 DEF TestInv
<1>8. TestNeedsItsDevice'
  BY <1>1, <1>2, <1>3, <1>5, <1>6 DEF TestInv, TestNeedsItsDevice
<1> QED
  BY <1>2, <1>7, <1>8 DEF TestInv, Recorded

(* Beginning a test, or forgetting it, detects nothing. *)
LEMMA OtherTestStepsKeep ==
  ASSUME TestInv, NEW d \in Units, StartTest(d) \/ DropTest(d)
  PROVE  TestInv'
<1> DEFINE begun == [started |-> now, detected |-> NotYet]
<1>1. begun \in Sessions /\ begun.detected = NotYet
  BY DEF TestInv, Sessions
<1>2. UNCHANGED <<now, ring, moves>>
  BY DEF StartTest, DropTest
<1>3. PICK s \in {begun, NotYet} : tests' = [tests EXCEPT ![d] = s]
  BY DEF StartTest, DropTest
<1>4. tests'[d] = s /\ \A q \in Units \ {d} : tests'[q] = tests[q]
  BY <1>3 DEF TestInv
<1>5. tests' \in [Units -> Sessions \cup {NotYet}]
  BY <1>1, <1>3 DEF TestInv
<1>6. TestNeedsItsDevice'
  BY <1>1, <1>2, <1>3, <1>4 DEF TestInv, TestNeedsItsDevice
<1> QED
  BY <1>2, <1>5, <1>6 DEF TestInv, Recorded

(* "Detected" beside a device means that this very device moved after its   *)
(* test began, whatever else is plugged in and whatever the ring has kept,  *)
(* dropped or lost (device_test.rs). *)
THEOREM TestsDetectTheirDevice == TestSpec => []TestNeedsItsDevice
<1>1. TestInit => TestInv
  BY DEF TestInit, TestInv, Recorded, TestNeedsItsDevice
<1>2. TestInv /\ [TestNext]_testVars => TestInv'
  <2> SUFFICES ASSUME TestInv, [TestNext]_testVars PROVE TestInv'
    OBVIOUS
  <2>1. CASE \E d \in Units : StartTest(d) \/ DropTest(d)
    BY <2>1, OtherTestStepsKeep
  <2>2. CASE \E d \in Units : DrawRow(d)
    BY <2>2, DrawRowKeeps
  <2>3. CASE \E d \in Units, physical \in BOOLEAN : Scroll(d, physical)
    BY <2>3, ScrollKeeps
  <2>4. CASE ClearRing
    BY <2>4 DEF ClearRing, TestInv, Recorded, TestNeedsItsDevice
  <2>5. CASE Pass
    BY <2>5 DEF Pass, TestInv, Recorded, TestNeedsItsDevice
  <2>6. CASE UNCHANGED testVars
    BY <2>6 DEF testVars, TestInv, Recorded, TestNeedsItsDevice
  <2> QED
    BY <2>1, <2>2, <2>3, <2>4, <2>5, <2>6 DEF TestNext
<1>3. TestInv => TestNeedsItsDevice
  BY DEF TestInv
<1> QED
  BY <1>1, <1>2, <1>3, PTL DEF TestSpec

-------------------------------------------------------------------------------
(* The benchmark.  A point of the track; where the document was before a     *)
(* point; and what the trial has counted beside what the track says.         *)
Points == [at : Int, position : Nat]
BenchmarkCases == [distance : Int, viewport : Int, tolerance : Int]

Before(trail, i) == IF i = 1 THEN 0 ELSE trail[i - 1].position

Backs(trail, c) == {i \in Turns(trail) : \E j \in 1 .. i - 1 : trail[j].position > Upper(c)}

LatestMove(trail, i) == i \in Moves(trail) /\ \A k \in Moves(trail) : k <= i

Trials ==
    [case : BenchmarkCases, started : Int, lastMovement : Int, position : Nat,
     direction : {-1, 0, 1}, overshot : BOOLEAN, switchbacks : Int, overshoot : Nat, events : Int]

Agrees(t, trail) ==
    /\ t.position = Before(trail, Len(trail) + 1)
    /\ \A i \in Moves(trail) : trail[i].at <= t.lastMovement
    /\ \/ t.direction = 0 /\ Moves(trail) = {}
       \/ \E i \in Moves(trail) :
            LatestMove(trail, i) /\ t.direction = IF Forward(trail, i) THEN 1 ELSE -1
    /\ t.overshot <=> \E j \in DOMAIN trail : trail[j].position > Upper(t.case)
    /\ \A i \in DOMAIN trail : trail[i].position - Upper(t.case) <= t.overshoot
    /\ t.overshoot = 0 \/ \E i \in DOMAIN trail : trail[i].position - Upper(t.case) = t.overshoot
    /\ t.switchbacks = Cardinality(Backs(trail, t.case))
    /\ t.events = Cardinality(Moves(trail))

(* A track one point longer: what was a move or a turn stays one, and        *)
(* whether the last point is, only it and the latest move decide.            *)
LEMMA LongerTrack ==
  ASSUME NEW trail \in Seq(Points), NEW x \in Points, NEW c \in BenchmarkCases
  PROVE  LET longer == Append(trail, x)
             n == Len(trail) + 1
             moved == x.position # Before(trail, n)
         IN  /\ longer \in Seq(Points) /\ Len(longer) = n /\ longer[n] = x
             /\ \A i \in DOMAIN trail : longer[i] = trail[i] /\ i \in DOMAIN longer /\ i < n
             /\ DOMAIN longer = DOMAIN trail \cup {n}
             /\ Moves(longer) = Moves(trail) \cup (IF moved THEN {n} ELSE {})
             /\ \A i \in Moves(trail) : Forward(longer, i) <=> Forward(trail, i)
             /\ Forward(longer, n) <=> x.position > Before(trail, n)
<1> DEFINE longer == Append(trail, x)
           n == Len(trail) + 1
           moved == x.position # Before(trail, n)
<1>1. /\ longer \in Seq(Points) /\ Len(longer) = n /\ longer[n] = x /\ n \in Nat \ {0}
      /\ DOMAIN trail = 1 .. n - 1 /\ DOMAIN longer = 1 .. n
      /\ \A i \in 1 .. n - 1 : longer[i] = trail[i]
      /\ n \in 1 .. n /\ (n = 1 \/ n - 1 \in 1 .. n - 1)
  OBVIOUS
<1> HIDE DEF longer
<1>2. \A i \in 1 .. n : (IF i = 1 THEN 0 ELSE longer[i - 1].position) = Before(trail, i)
  BY <1>1 DEF Before
<1>3. \A i \in 1 .. n - 1 : i \in Moves(longer) <=> i \in Moves(trail)
  BY <1>1, <1>2 DEF Moves, Before
<1>4. n \in Moves(longer) <=> moved
  <2>1. (IF n = 1 THEN 0 ELSE longer[n - 1].position) = Before(trail, n)
    BY <1>1, <1>2
  <2> QED
    BY <1>1, <2>1 DEF Moves
<1>5. Moves(longer) \subseteq 1 .. n /\ Moves(trail) \subseteq 1 .. n - 1
  BY <1>1 DEF Moves
<1>6. Moves(longer) = Moves(trail) \cup (IF moved THEN {n} ELSE {})
  <2> HIDE DEF moved, longer
  <2> QED
    BY <1>1, <1>3, <1>4, <1>5
<1>7. \A i \in 1 .. n - 1 : Forward(longer, i) <=> Forward(trail, i)
  BY <1>1, <1>2 DEF Forward, Before
<1>8. Forward(longer, n) <=> x.position > Before(trail, n)
  <2>1. (IF n = 1 THEN 0 ELSE longer[n - 1].position) = Before(trail, n)
    BY <1>1, <1>2
  <2> QED
    BY <1>1, <2>1 DEF Forward
<1> QED
  BY <1>1, <1>5, <1>6, <1>7, <1>8 DEF longer

(* The turns, and those after an overshoot, of the longer track.             *)
LEMMA LongerTurns ==
  ASSUME NEW trail \in Seq(Points), NEW x \in Points, NEW c \in BenchmarkCases
  PROVE  LET longer == Append(trail, x)
             n == Len(trail) + 1
             turned == /\ x.position # Before(trail, n)
                       /\ \E j \in Moves(trail) :
                            LatestMove(trail, j)
                            /\ ~ (Forward(trail, j) <=> x.position > Before(trail, n))
             after == \E j \in DOMAIN trail : trail[j].position > Upper(c)
         IN  /\ n \notin Backs(trail, c)
             /\ Backs(longer, c) = Backs(trail, c) \cup (IF turned /\ after THEN {n} ELSE {})
<1> DEFINE longer == Append(trail, x)
           n == Len(trail) + 1
           turned == /\ x.position # Before(trail, n)
                     /\ \E j \in Moves(trail) :
                          LatestMove(trail, j)
                          /\ ~ (Forward(trail, j) <=> x.position > Before(trail, n))
           after == \E j \in DOMAIN trail : trail[j].position > Upper(c)
           M == Moves(trail)
<1>1. /\ n \in Nat \ {0} /\ DOMAIN trail = 1 .. n - 1 /\ M \subseteq 1 .. n - 1
      /\ \A i \in 1 .. n - 1 : longer[i] = trail[i]
  BY DEF Moves
<1>2. /\ Moves(longer) = M \cup (IF x.position # Before(trail, n) THEN {n} ELSE {})
      /\ \A i \in M : Forward(longer, i) <=> Forward(trail, i)
      /\ Forward(longer, n) <=> x.position > Before(trail, n)
  BY LongerTrack
<1> HIDE DEF longer, M
<1>3. \A i \in M : i \in Turns(longer) <=> i \in Turns(trail)
  <2> SUFFICES ASSUME NEW i \in M PROVE i \in Turns(longer) <=> i \in Turns(trail)
    OBVIOUS
  <2>1. i \in Moves(longer) /\ i < n /\ i \in Nat
    BY <1>1, <1>2
  <2>2. ASSUME NEW j \in M, j < i
        PROVE  /\ (\A k \in Moves(longer) : k <= j \/ k >= i) <=> (\A k \in M : k <= j \/ k >= i)
               /\ Forward(longer, i) # Forward(longer, j) <=> Forward(trail, i) # Forward(trail, j)
    <3>1. j \in Nat /\ j < n
      BY <1>1, <2>2
    <3>2. \A k \in Moves(longer) : k \in M \/ (k = n /\ k >= i)
      BY <1>2, <2>1
    <3>3. \A k \in M : k \in Moves(longer)
      BY <1>2
    <3>4. (\A k \in Moves(longer) : k <= j \/ k >= i) <=> (\A k \in M : k <= j \/ k >= i)
      BY <3>2, <3>3
    <3>5. (Forward(longer, i) <=> Forward(trail, i)) /\ (Forward(longer, j) <=> Forward(trail, j))
      BY <1>2
    <3> QED
      BY <3>4, <3>5 DEF Forward
  <2>3. \A j \in Moves(longer) : j < i => j \in M
    BY <1>2, <2>1
  <2> QED
    BY <2>1, <2>2, <2>3, <1>2 DEF Turns, M
<1>4. n \in Turns(longer) <=> turned
  <2>1. ASSUME x.position # Before(trail, n), NEW j \in M
        PROVE  /\ j < n /\ j \in Moves(longer) /\ j \in Nat
               /\ (\A k \in Moves(longer) : k <= j \/ k >= n) <=> LatestMove(trail, j)
               /\ Forward(longer, n) # Forward(longer, j)
                    <=> ~ (Forward(trail, j) <=> x.position > Before(trail, n))
    BY <1>1, <1>2, <2>1 DEF LatestMove, M, Forward
  <2>2. \A j \in Moves(longer) : j < n => j \in M
    BY <1>1, <1>2
  <2>3. x.position = Before(trail, n) => n \notin Moves(longer)
    BY <1>1, <1>2
  <2>4. x.position # Before(trail, n) => n \in Moves(longer)
    BY <1>2
  <2> QED
    BY <2>1, <2>2, <2>3, <2>4 DEF Turns, M
<1>5. Turns(longer) \subseteq M \cup {n} /\ Turns(trail) \subseteq M
  BY <1>2 DEF Turns, M
<1>6. \A i \in 1 .. n : (\E j \in 1 .. i - 1 : longer[j].position > Upper(c))
                          <=> (\E j \in 1 .. i - 1 : trail[j].position > Upper(c))
  BY <1>1
<1>7. \A i \in M : i \in Backs(longer, c) <=> i \in Backs(trail, c)
  <2> SUFFICES ASSUME NEW i \in M PROVE i \in Backs(longer, c) <=> i \in Backs(trail, c)
    OBVIOUS
  <2>1. i \in 1 .. n
    BY <1>1
  <2>2. i \in Turns(longer) <=> i \in Turns(trail)
    BY <1>3
  <2> QED
    BY <1>6, <2>1, <2>2 DEF Backs
<1>8. n \in Backs(longer, c) <=> turned /\ after
  BY <1>1, <1>4, <1>6 DEF Backs
<1>9. Backs(longer, c) \subseteq M \cup {n} /\ Backs(trail, c) \subseteq M /\ n \notin M
  BY <1>1, <1>5 DEF Backs
<1> HIDE DEF turned, after
<1>10. Backs(longer, c) = Backs(trail, c) \cup (IF turned /\ after THEN {n} ELSE {})
  BY <1>7, <1>8, <1>9
<1> QED
  BY <1>9, <1>10 DEF turned, after, longer

(* One event keeps what the trial counts and what its track says together.   *)
LEMMA CountsFollow ==
  ASSUME NEW t \in Trials, NEW trail \in Seq(Points), NEW delta \in Int, clock \in Int,
         Agrees(t, trail), t.lastMovement <= clock, Upper(t.case) \in Nat
  PROVE  LET after == Applied(t, delta)
         IN  /\ after \in Trials /\ after.case = t.case /\ after.lastMovement <= clock
             /\ [at |-> clock, position |-> after.position] \in Points
             /\ Agrees(after, Append(trail, [at |-> clock, position |-> after.position]))
<1> DEFINE position == Larger(t.position + delta, 0)
           direction == IF position > t.position THEN 1 ELSE -1
           over == Larger(position - Upper(t.case), 0)
           moved == position # t.position
           turns == t.overshot /\ t.direction \notin {0, direction}
           after == Applied(t, delta)
           x == [at |-> clock, position |-> after.position]
           longer == Append(trail, x)
           n == Len(trail) + 1
<1>1. /\ position \in Nat /\ direction \in {-1, 1} /\ over \in Nat
      /\ over > 0 <=> position > Upper(t.case)
      /\ over > 0 => over = position - Upper(t.case)
      /\ position - Upper(t.case) <= over
      /\ t.position \in Nat /\ t.case \in BenchmarkCases /\ t.switchbacks \in Int /\ t.events \in Int
      /\ t.overshoot \in Nat /\ t.direction \in {-1, 0, 1} /\ t.lastMovement \in Int
      /\ t.overshot \in BOOLEAN
  BY DEF Larger, Trials
<1>2. CASE ~ moved
  <2>1. after = t /\ position = t.position
    BY <1>2 DEF Applied, ApplyDelta
  <2> QED
    <3> HIDE DEF after, position, over, direction
    <3>1. x \in Points
      BY <2>1, <1>1 DEF Points
    <3>2. x.position = Before(trail, n)
      BY <2>1 DEF Agrees
    <3>6. x.position = t.position
      BY <2>1
    <3> HIDE DEF x
    <3>3. /\ longer \in Seq(Points) /\ Len(longer) = n /\ longer[n] = x
          /\ \A i \in DOMAIN trail : longer[i] = trail[i] /\ i \in DOMAIN longer /\ i < n
          /\ DOMAIN longer = DOMAIN trail \cup {n}
          /\ Moves(longer) = Moves(trail)
          /\ \A i \in Moves(trail) : Forward(longer, i) <=> Forward(trail, i)
      <4>1. Moves(longer) = Moves(trail) \cup (IF x.position # Before(trail, n) THEN {n} ELSE {})
        BY <3>1, <1>1, LongerTrack
      <4>2. Moves(longer) = Moves(trail)
        BY <4>1, <3>2
      <4> QED
        BY <3>1, <4>2, <1>1, LongerTrack
    <3>4. Backs(longer, t.case) = Backs(trail, t.case)
      <4> DEFINE turned == /\ x.position # Before(trail, n)
                           /\ \E j \in Moves(trail) :
                                LatestMove(trail, j)
                                /\ ~ (Forward(trail, j) <=> x.position > Before(trail, n))
                 earlier == \E j \in DOMAIN trail : trail[j].position > Upper(t.case)
      <4>1. Backs(longer, t.case) = Backs(trail, t.case) \cup (IF turned /\ earlier THEN {n} ELSE {})
        BY <3>1, <1>1, LongerTurns
      <4> QED
        BY <4>1, <3>2
    <3>5. Moves(trail) \subseteq DOMAIN trail /\ n \in Nat \ {0}
      BY DEF Moves
    <3> HIDE DEF longer
    <3>7. /\ t.position = Before(longer, Len(longer) + 1)
          /\ \A i \in Moves(longer) : longer[i].at <= t.lastMovement
      BY <3>3, <3>5, <3>6 DEF Agrees, Before
    <3>8. \/ t.direction = 0 /\ Moves(longer) = {}
          \/ \E i \in Moves(longer) :
               LatestMove(longer, i) /\ t.direction = IF Forward(longer, i) THEN 1 ELSE -1
      BY <3>3 DEF Agrees, LatestMove
    <3>9. t.position > Upper(t.case) => t.overshot
      <4>1. CASE n = 1
        BY <4>1, <3>2, <3>6, <1>1 DEF Before
      <4>2. CASE n # 1
        BY <4>2, <3>2, <3>6, <3>5, <1>1 DEF Before, Agrees
      <4> QED
        BY <4>1, <4>2
    <3>10. t.position - Upper(t.case) <= t.overshoot
      <4>1. CASE n = 1
        BY <4>1, <3>2, <3>6, <1>1 DEF Before
      <4>2. CASE n # 1
        BY <4>2, <3>2, <3>6, <3>5, <1>1 DEF Before, Agrees
      <4> QED
        BY <4>1, <4>2
    <3>11. /\ t.overshot <=> \E j \in DOMAIN longer : longer[j].position > Upper(t.case)
           /\ \A i \in DOMAIN longer : longer[i].position - Upper(t.case) <= t.overshoot
           /\ t.overshoot = 0 \/ \E i \in DOMAIN longer : longer[i].position - Upper(t.case) = t.overshoot
      BY <3>3, <3>6, <3>9, <3>10 DEF Agrees
    <3>12. t.switchbacks = Cardinality(Backs(longer, t.case)) /\ t.events = Cardinality(Moves(longer))
      BY <3>3, <3>4 DEF Agrees
    <3>13. Agrees(t, longer)
      BY <3>7, <3>8, <3>11, <3>12 DEF Agrees
    <3> QED
      BY <2>1, <3>1, <3>13, <1>1 DEF longer, x, after
<1>3. CASE moved
  <2>1. /\ after.position = position /\ after.direction = direction /\ after.lastMovement = clock
        /\ after.events = t.events + 1 /\ after.overshot = (t.overshot \/ over > 0)
        /\ after.overshoot = Larger(t.overshoot, over) /\ after.case = t.case
        /\ after.switchbacks = (IF turns THEN t.switchbacks + 1 ELSE t.switchbacks)
        /\ after \in Trials
    <3> HIDE DEF position, direction, over
    <3>1. after = [t EXCEPT !.position = position,
                      !.switchbacks = IF turns THEN @ + 1 ELSE @,
                      !.direction = direction, !.lastMovement = clock, !.events = @ + 1,
                      !.overshot = @ \/ over > 0, !.overshoot = Larger(@, over)]
      BY <1>3 DEF Applied, ApplyDelta, position, direction, over
    <3>2. Larger(t.overshoot, over) \in Nat
      BY <1>1 DEF Larger
    <3> HIDE DEF after, turns
    <3>3. t = [case |-> t.case, started |-> t.started, lastMovement |-> t.lastMovement,
               position |-> t.position, direction |-> t.direction, overshot |-> t.overshot,
               switchbacks |-> t.switchbacks, overshoot |-> t.overshoot, events |-> t.events]
          /\ t.started \in Int
      BY DEF Trials
    <3>4. after = [case |-> t.case, started |-> t.started, lastMovement |-> clock,
                   position |-> position, direction |-> direction,
                   overshot |-> (t.overshot \/ over > 0),
                   switchbacks |-> (IF turns THEN t.switchbacks + 1 ELSE t.switchbacks),
                   overshoot |-> Larger(t.overshoot, over), events |-> t.events + 1]
      BY <3>1, <3>3
    <3>5. (IF turns THEN t.switchbacks + 1 ELSE t.switchbacks) \in Int /\ t.events + 1 \in Int
      BY <1>1
    <3> QED
      BY <1>1, <3>2, <3>3, <3>4, <3>5 DEF Trials
  <2> HIDE DEF position, over, after
  <2>2. x \in Points /\ x.position = position /\ x.at = clock
    BY <2>1, <1>1 DEF Points
  <2> HIDE DEF x
  <2>3. t.position = Before(trail, n)
    BY DEF Agrees
  <2>4. x.position # Before(trail, n)
    BY <2>2, <2>3, <1>3
  <2>5. /\ longer \in Seq(Points) /\ Len(longer) = n /\ longer[n] = x
        /\ \A i \in DOMAIN trail : longer[i] = trail[i] /\ i \in DOMAIN longer /\ i < n
        /\ DOMAIN longer = DOMAIN trail \cup {n}
        /\ Moves(longer) = Moves(trail) \cup {n}
        /\ \A i \in Moves(trail) : Forward(longer, i) <=> Forward(trail, i)
        /\ Forward(longer, n) <=> x.position > Before(trail, n)
    BY <2>2, <2>4, <1>1, LongerTrack
  <2> DEFINE turned == \E j \in Moves(trail) :
                          LatestMove(trail, j)
                          /\ ~ (Forward(trail, j) <=> x.position > Before(trail, n))
             over_before == \E j \in DOMAIN trail : trail[j].position > Upper(t.case)
  <2>6. /\ n \notin Backs(trail, t.case)
        /\ Backs(longer, t.case) = Backs(trail, t.case) \cup (IF turned /\ over_before THEN {n} ELSE {})
    BY <2>2, <2>4, <1>1, LongerTurns
  <2>7. turns <=> turned /\ over_before
    <3>1. t.overshot <=> over_before
      BY DEF Agrees
    <3>2. direction = IF x.position > Before(trail, n) THEN 1 ELSE -1
      BY <2>2, <2>3
    <3>3. ASSUME NEW i \in Moves(trail), NEW j \in Moves(trail), LatestMove(trail, i), LatestMove(trail, j)
          PROVE  i = j
      BY <3>3 DEF LatestMove, Moves
    <3>4. t.direction \notin {0, direction} <=> turned
      <4>1. CASE t.direction = 0 /\ Moves(trail) = {}
        BY <4>1
      <4>2. ASSUME NEW i \in Moves(trail), LatestMove(trail, i),
                   t.direction = IF Forward(trail, i) THEN 1 ELSE -1
            PROVE  t.direction \notin {0, direction} <=> turned
        <5>1. turned <=> ~ (Forward(trail, i) <=> x.position > Before(trail, n))
          BY <4>2, <3>3
        <5> QED
          BY <4>2, <5>1, <3>2
      <4> QED
        BY <4>1, <4>2 DEF Agrees
    <3> QED
      BY <3>1, <3>4
  <2> HIDE DEF longer, turned, over_before, turns, direction
  <2>8. IsFiniteSet(Moves(trail)) /\ IsFiniteSet(Backs(trail, t.case)) /\ n \notin Moves(trail)
    <3>1. IsFiniteSet(1 .. Len(trail))
      BY FS_Interval
    <3>2. Moves(trail) \subseteq 1 .. Len(trail) /\ Backs(trail, t.case) \subseteq 1 .. Len(trail)
      BY DEF Moves, Backs, Turns
    <3> QED
      BY <3>1, <3>2, FS_Subset
  <2>9. Cardinality(Moves(longer)) = Cardinality(Moves(trail)) + 1
    <3> HIDE DEF n
    <3>1. Cardinality(Moves(trail) \cup {n}) = Cardinality(Moves(trail)) + 1
      BY <2>8, FS_AddElement
    <3> QED
      BY <2>5, <3>1
  <2>10. Cardinality(Backs(longer, t.case)) = after.switchbacks
    <3> HIDE DEF n
    <3>0. Cardinality(Backs(trail, t.case) \cup {n}) = Cardinality(Backs(trail, t.case)) + 1
      BY <2>6, <2>8, FS_AddElement
    <3>1. CASE turns
      BY <3>1, <2>1, <2>6, <2>7, <3>0 DEF Agrees
    <3>2. CASE ~ turns
      BY <3>2, <2>1, <2>6, <2>7 DEF Agrees
    <3> QED
      BY <3>1, <3>2
  <2>11. Moves(trail) \subseteq DOMAIN trail /\ n \in Nat \ {0} /\ n \in DOMAIN longer
    BY <2>5 DEF Moves
  <2>12. /\ after.position = Before(longer, Len(longer) + 1)
         /\ \A i \in Moves(longer) : longer[i].at <= after.lastMovement
    <3>0. \A i \in DOMAIN trail : trail[i] \in Points
      OBVIOUS
    <3>1. \A i \in Moves(trail) : trail[i].at \in Int /\ trail[i].at <= t.lastMovement
      BY <2>11, <3>0 DEF Agrees, Points
    <3> QED
      BY <3>1, <2>1, <2>2, <2>5, <2>11, <1>1 DEF Before
  <2>13. LatestMove(longer, n) /\ n \in Moves(longer) /\ after.direction = IF Forward(longer, n) THEN 1 ELSE -1
    <3>1. \A k \in Moves(longer) : k <= n
      BY <2>5, <2>11
    <3> QED
      BY <3>1, <2>1, <2>2, <2>3, <2>5 DEF LatestMove, direction
  <2>14. after.overshot <=> \E j \in DOMAIN longer : longer[j].position > Upper(t.case)
    BY <2>1, <2>2, <2>5, <1>1 DEF Agrees
  <2>15. /\ \A i \in DOMAIN longer : longer[i].position - Upper(t.case) <= after.overshoot
         /\ after.overshoot = 0 \/ \E i \in DOMAIN longer : longer[i].position - Upper(t.case) = after.overshoot
    <3>1. after.overshoot = IF t.overshoot > over THEN t.overshoot ELSE over
      BY <2>1 DEF Larger
    <3>0. \A i \in DOMAIN trail : trail[i] \in Points
      OBVIOUS
    <3>2. \A i \in DOMAIN trail : /\ trail[i].position \in Nat
                                  /\ trail[i].position - Upper(t.case) <= t.overshoot
      BY <3>0 DEF Agrees, Points
    <3>3. \A i \in DOMAIN longer : longer[i].position - Upper(t.case) <= after.overshoot
      BY <3>1, <3>2, <1>1, <2>2, <2>5
    <3>4. after.overshoot = 0 \/ \E i \in DOMAIN longer : longer[i].position - Upper(t.case) = after.overshoot
      <4>1. CASE t.overshoot > over
        <5>1. after.overshoot = t.overshoot /\ t.overshoot # 0
          BY <4>1, <3>1, <1>1
        <5>2. PICK i \in DOMAIN trail : trail[i].position - Upper(t.case) = t.overshoot
          BY <5>1 DEF Agrees
        <5> QED
          BY <5>1, <5>2, <2>5
      <4>2. CASE ~ (t.overshoot > over)
        <5>1. after.overshoot = over
          BY <4>2, <3>1
        <5>2. CASE over = 0
          BY <5>1, <5>2
        <5>3. CASE over # 0
          <6>1. longer[n].position - Upper(t.case) = after.overshoot
            BY <5>1, <5>3, <1>1, <2>2, <2>5
          <6> QED
            BY <6>1, <2>11
        <5> QED
          BY <5>2, <5>3
      <4> QED
        BY <4>1, <4>2
    <3> QED
      BY <3>3, <3>4
  <2>16. Agrees(after, longer)
    BY <2>1, <2>9, <2>10, <2>12, <2>13, <2>14, <2>15 DEF Agrees
  <2> QED
    BY <2>1, <2>2, <2>16, <1>1 DEF longer, x, after
<1> QED
  BY <1>2, <1>3

(* The session: which case is due, and that a trial that may still bring a   *)
(* result is of that case, has had none, and has counted what it shows.      *)
Results == [case : BenchmarkCases, time : Int, switchbacks : Int, overshoot : Int, events : Int]

SessionOK ==
    /\ clock \in Int /\ current \in Nat \ {0} /\ results \in Seq(Results)
    /\ phase \in {"Setup", "Ready", "Running", "Review", "Results"}
    /\ phase # "Setup" =>
        /\ cases \in Seq(BenchmarkCases) /\ current \in 1 .. Len(cases) /\ Len(results) <= current
        /\ \A i \in DOMAIN cases : Upper(cases[i]) \in Nat
    /\ phase \in {"Ready", "Running"} \/ frame # {} => Len(results) < current
    /\ frame = {} \/ \E deltas \in Seq(Deltas) : frame = {deltas}
    /\ frame # {} => phase \in {"Running", "Review"}

TrialOK ==
    phase = "Running" \/ frame # {} =>
        /\ measured \in Trials /\ measured.case = cases[current]
        /\ measured.lastMovement <= clock
        /\ track \in Seq(Points) /\ Agrees(measured, track)

BenchmarkInv == SessionOK /\ TrialOK

(* The cases of every matrix can be measured.                                *)
LEMMA MatricesMakeSense ==
  ASSUME NEW m \in Matrices
  PROVE  m \in Seq(BenchmarkCases) /\ 1 \in 1 .. Len(m) /\ \A i \in DOMAIN m : Upper(m[i]) \in Nat
<1>1. m # << >> /\ m \in Seq(BenchmarkCases) /\ \A i \in DOMAIN m : ValidCase(m[i])
  BY BenchmarkAssumption DEF BenchmarkCases
<1>2. \A c \in BenchmarkCases : ValidCase(c) => Upper(c) \in Nat
  BY DEF ValidCase, BenchmarkCases, Upper
<1>3. 1 \in 1 .. Len(m)
  BY <1>1
<1> QED
  BY <1>1, <1>2, <1>3

(* A trial begins with nothing counted and an empty track.                   *)
LEMMA TrialBegins ==
  ASSUME NEW c \in BenchmarkCases, clock \in Int, Upper(c) \in Nat
  PROVE  /\ NewTrial(c) \in Trials /\ NewTrial(c).case = c /\ NewTrial(c).lastMovement <= clock
         /\ << >> \in Seq(Points) /\ Agrees(NewTrial(c), << >>)
<1>1. /\ NewTrial(c) \in Trials /\ NewTrial(c).case = c /\ NewTrial(c).lastMovement = clock
      /\ NewTrial(c).position = 0 /\ NewTrial(c).direction = 0 /\ NewTrial(c).overshot = FALSE
      /\ NewTrial(c).switchbacks = 0 /\ NewTrial(c).overshoot = 0 /\ NewTrial(c).events = 0
  BY DEF NewTrial, Trials
<1>2. Moves(<< >>) = {} /\ Backs(<< >>, c) = {}
  BY DEF Moves, Backs, Turns
<1>3. Before(<< >>, Len(<< >>) + 1) = 0
  BY DEF Before
<1>4. << >> \in Seq(Points) /\ DOMAIN << >> = {}
  OBVIOUS
<1> HIDE DEF NewTrial
<1>5. Cardinality({}) = 0
  BY FS_EmptySet
<1>6. Agrees(NewTrial(c), << >>)
  BY <1>1, <1>2, <1>3, <1>4, <1>5 DEF Agrees
<1> QED
  BY <1>1, <1>4, <1>6

(* The invariant is inductive.                                               *)
LEMMA BenchmarkStarts ==
  ASSUME BenchmarkInit
  PROVE  BenchmarkInv
BY DEF BenchmarkInit, BenchmarkInv, SessionOK, TrialOK

LEMMA BenchmarkKeeps ==
  ASSUME BenchmarkInv, [BenchmarkNext]_benchmarkVars
  PROVE  BenchmarkInv'
<1> USE DEF BenchmarkInv
<1>1. ASSUME NEW matrix \in Matrices, StartSession(matrix)
      PROVE  BenchmarkInv'
  <2>1. /\ matrix \in Seq(BenchmarkCases) /\ 1 \in 1 .. Len(matrix)
        /\ \A i \in DOMAIN matrix : Upper(matrix[i]) \in Nat
    BY MatricesMakeSense
  <2>2. Len(<< >>) = 0 /\ << >> \in Seq(Results)
    OBVIOUS
  <2> QED
    BY <1>1, <2>1, <2>2 DEF StartSession, SessionOK, TrialOK, Upper
<1>2. CASE EndSession
  BY <1>2 DEF EndSession, SessionOK, TrialOK
<1>3. CASE StartTrial
  <2>1. /\ cases[current] \in BenchmarkCases /\ Upper(cases[current]) \in Nat
        /\ UNCHANGED <<clock, frame, cases, current, results>> /\ phase' = "Running"
        /\ phase = "Ready" /\ frame = {}
        /\ measured' = NewTrial(cases[current]) /\ track' = << >>
    BY <1>3 DEF StartTrial, SessionOK
  <2>2. SessionOK'
    BY <2>1 DEF SessionOK, Upper
  <2>3. TrialOK'
    BY <2>1, TrialBegins DEF SessionOK, TrialOK
  <2> QED
    BY <2>2, <2>3
<1>4. CASE ContinueReview
  BY <1>4 DEF ContinueReview, SessionOK, TrialOK
<1>5. CASE Tick
  <2>1. SessionOK'
    BY <1>5 DEF Tick, SessionOK, Upper
  <2>2. TrialOK'
    BY <1>5 DEF Tick, SessionOK, TrialOK, Trials
  <2> QED
    BY <2>1, <2>2
<1>6. ASSUME NEW deltas \in FrameEvents, BeginFrame(deltas)
      PROVE  BenchmarkInv'
  <2>1. deltas \in Seq(Deltas)
    BY DEF FrameEvents
  <2> QED
    BY <1>6, <2>1 DEF BeginFrame, SessionOK, TrialOK
<1>7. CASE ApplyEvent
  <2>1. PICK deltas \in frame : ApplyEvent!(deltas)
    BY <1>7 DEF ApplyEvent
  <2>2. frame = {deltas} /\ deltas \in Seq(Deltas) /\ deltas # << >>
    BY <2>1 DEF SessionOK
  <2>3. /\ phase \in {"Running", "Review"} /\ phase # "Setup"
        /\ UNCHANGED <<clock, cases, current, results>> /\ phase' \in {"Running", "Review"}
    BY <2>1, <2>2 DEF SessionOK
  <2>4. frame' # {} /\ \E rest \in Seq(Deltas) : frame' = {rest}
    <3>1. << >> \in Seq(Deltas) /\ Tail(deltas) \in Seq(Deltas)
      BY <2>2
    <3> QED
      BY <2>1, <3>1
  <2>5. SessionOK'
    BY <2>2, <2>3, <2>4 DEF SessionOK, Upper
  <2>6. CASE Head(deltas) = Bad
    BY <2>1, <2>2, <2>3, <2>5, <2>6 DEF TrialOK
  <2>7. CASE Head(deltas) # Bad
    <3>1. Head(deltas) \in Int
      BY <2>2, <2>7, BenchmarkAssumption
    <3>2. /\ measured \in Trials /\ measured.case = cases[current] /\ measured.lastMovement <= clock
          /\ track \in Seq(Points) /\ Agrees(measured, track) /\ clock \in Int
          /\ Upper(measured.case) \in Nat
      BY <2>2, <2>3 DEF TrialOK, SessionOK
    <3>3. /\ measured' = Applied(measured, Head(deltas))
          /\ track' = Append(track, [at |-> clock, position |-> Applied(measured, Head(deltas)).position])
      BY <2>1, <2>7
    <3>4. LET after == Applied(measured, Head(deltas))
          IN  /\ after \in Trials /\ after.case = measured.case /\ after.lastMovement <= clock
              /\ [at |-> clock, position |-> after.position] \in Points
              /\ Agrees(after, Append(track, [at |-> clock, position |-> after.position]))
      BY <3>1, <3>2, CountsFollow
    <3>5. track' \in Seq(Points)
      BY <3>2, <3>3, <3>4
    <3>6. TrialOK'
      BY <2>3, <3>2, <3>3, <3>4, <3>5 DEF TrialOK
    <3> QED
      BY <2>5, <3>6
  <2> QED
    BY <2>6, <2>7
<1>8. CASE EndFrame
  <2>1. /\ << >> \in frame /\ frame # {} /\ frame' = {} /\ phase \in {"Running", "Review"}
        /\ UNCHANGED <<clock, cases, current, measured, track>> /\ Len(results) < current
    BY <1>8 DEF EndFrame, SessionOK
  <2>2. TrialOK'
    BY <1>8, <2>1 DEF EndFrame, TrialOK
  <2>3. CASE Settled(measured)
    <3>1. phase' = "Review" /\ results' = Append(results, Result(measured))
      BY <1>8, <2>3 DEF EndFrame
    <3>2. Result(measured) \in Results
      <4>1. measured \in Trials /\ clock \in Int
        BY <2>1 DEF TrialOK, SessionOK
      <4>2. /\ measured.case \in BenchmarkCases /\ clock - measured.started \in Int
            /\ measured.switchbacks \in Int /\ measured.overshoot \in Int /\ measured.events \in Int
        BY <4>1 DEF Trials
      <4> QED
        BY <4>2 DEF Result, Results
    <3>3. results' \in Seq(Results) /\ Len(results') = Len(results) + 1 /\ Len(results) \in Nat
      BY <3>1, <3>2 DEF SessionOK
    <3> QED
      BY <2>1, <2>2, <3>1, <3>3 DEF SessionOK, Upper
  <2>4. CASE ~ Settled(measured)
    BY <1>8, <2>1, <2>2, <2>4 DEF EndFrame, SessionOK, Upper
  <2> QED
    BY <2>3, <2>4
<1>9. CASE UNCHANGED benchmarkVars
  BY <1>9 DEF benchmarkVars, SessionOK, TrialOK, Upper
<1> QED
  BY <1>1, <1>2, <1>3, <1>4, <1>5, <1>6, <1>7, <1>8, <1>9 DEF BenchmarkNext

(* The farthest overshoot counted is the farthest of the track.              *)
LEMMA OvershootIsFarthest ==
  ASSUME NEW t \in Trials, NEW trail \in Seq(Points), Agrees(t, trail), Upper(t.case) \in Nat
  PROVE  t.overshoot = OvershootOf(trail, t.case)
<1> DEFINE Over == {0} \cup {trail[i].position - Upper(t.case) : i \in DOMAIN trail}
           Farthest(n) == n >= 0 /\ \A i \in DOMAIN trail : trail[i].position - Upper(t.case) <= n
<1>1. /\ t.overshoot \in Nat /\ t.overshoot \in Over /\ Farthest(t.overshoot)
  BY DEF Agrees, Trials
<1>2. \A i \in DOMAIN trail : trail[i] \in Points
  OBVIOUS
<1>3. \A n \in Over : n \in Int
  BY <1>2 DEF Points
<1>4. \A m, n \in Over : Farthest(m) /\ Farthest(n) => m = n
  <2>1. \A m, n \in Over : Farthest(n) => m <= n
    BY <1>3
  <2> HIDE DEF Over, Farthest
  <2>2. ASSUME NEW m \in Over, NEW n \in Over, Farthest(m), Farthest(n) PROVE m = n
    <3>1. m <= n /\ n <= m /\ m \in Int /\ n \in Int
      BY <1>3, <2>1, <2>2
    <3> QED
      BY <3>1
  <2> QED
    BY <2>2
<1> HIDE DEF Over, Farthest
<1>5. t.overshoot = CHOOSE n \in Over : Farthest(n)
  BY <1>1, <1>4
<1> QED
  BY <1>5 DEF OvershootOf, Over, Farthest

(* A result is appended by the end of a frame of the due case's trial, whose *)
(* counts agree with its track.                                              *)
LEMMA ResultsAreEarned ==
  ASSUME BenchmarkInv, [BenchmarkNext]_benchmarkVars, Len(results') > Len(results)
  PROVE  /\ frame # {} /\ results' = Append(results, results'[Len(results')])
         /\ Len(results) < current /\ results'[Len(results')].case = cases[current]
         /\ InTolerance(results'[Len(results')].case, track'[Len(track')].position)
         /\ \A i \in Moves(track') : clock - track'[i].at >= SettleTime
         /\ results'[Len(results')].switchbacks = SwitchbacksOf(track', results'[Len(results')].case)
         /\ results'[Len(results')].overshoot = OvershootOf(track', results'[Len(results')].case)
         /\ results'[Len(results')].events = Cardinality(Moves(track'))
<1> USE DEF BenchmarkInv
<1>1. EndFrame /\ Settled(measured)
  <2>1. results' # results /\ results' # << >>
    BY DEF SessionOK
  <2> QED
    BY <2>1 DEF BenchmarkNext, StartSession, EndSession, StartTrial, ContinueReview, Tick, BeginFrame,
                ApplyEvent, EndFrame, benchmarkVars
<1>2. /\ results' = Append(results, Result(measured)) /\ track' = track /\ frame # {}
      /\ results \in Seq(Results) /\ Len(results) < current
  BY <1>1 DEF EndFrame, SessionOK
<1>3. /\ measured \in Trials /\ measured.case = cases[current] /\ measured.lastMovement <= clock
      /\ track \in Seq(Points) /\ Agrees(measured, track) /\ clock \in Int
      /\ Upper(measured.case) \in Nat
  BY <1>2 DEF TrialOK, SessionOK
<1>4. results'[Len(results')] = Result(measured)
  <2>1. Result(measured) \in Results
    BY <1>3 DEF Result, Results, Trials
  <2> QED
    BY <1>2, <2>1
<1>5. /\ Result(measured).case = measured.case /\ Result(measured).switchbacks = measured.switchbacks
      /\ Result(measured).overshoot = measured.overshoot /\ Result(measured).events = measured.events
  BY DEF Result
<1>6. measured.events # 0 /\ InTolerance(measured.case, measured.position) /\ Waited(measured)
  BY <1>1 DEF Settled
<1>7. measured.position = track[Len(track)].position
  <2>1. Moves(track) # {}
    BY <1>3, <1>6, FS_EmptySet DEF Agrees
  <2>2. Len(track) \in Nat /\ Len(track) # 0
    BY <1>3, <2>1 DEF Moves
  <2> QED
    BY <1>3, <2>2 DEF Agrees, Before
<1>8. \A i \in Moves(track) : clock - track[i].at >= SettleTime
  <2>1. \A i \in Moves(track) : track[i] \in Points /\ track[i].at <= measured.lastMovement
    BY <1>3 DEF Agrees, Moves
  <2>2. measured.lastMovement \in Int
    BY <1>3 DEF Trials
  <2> QED
    BY <1>3, <1>6, <2>1, <2>2 DEF Points, Waited, SettleTime
<1>9. measured.overshoot = OvershootOf(track, measured.case)
  BY <1>3, OvershootIsFarthest
<1>10. measured.switchbacks = SwitchbacksOf(track, measured.case) /\ measured.events = Cardinality(Moves(track))
  BY <1>3 DEF Agrees, SwitchbacksOf, Backs
<1> QED
  BY <1>2, <1>3, <1>4, <1>5, <1>6, <1>7, <1>8, <1>9, <1>10

(* A result is only ever that of the due case's trial, at most one per case, *)
(* when the target has been held long enough; and its counts, kept event by  *)
(* event, are those of the whole track (scroll_benchmark.rs, apply_delta and *)
(* finish_if_settled).                                                       *)
THEOREM ResultsEarned == BenchmarkSpec => BenchmarkResultEarned
<1>1. BenchmarkInit => BenchmarkInv
  BY BenchmarkStarts
<1>2. BenchmarkInv /\ [BenchmarkNext]_benchmarkVars => BenchmarkInv'
  BY BenchmarkKeeps
<1>3. BenchmarkInv /\ [BenchmarkNext]_benchmarkVars => [BenchmarkResultEarned!1]_benchmarkVars
  BY ResultsAreEarned
<1> QED
  BY <1>1, <1>2, <1>3, PTL DEF BenchmarkSpec, BenchmarkResultEarned

-------------------------------------------------------------------------------
(* StartupOwnership: the login start.                                       *)

Calls == {"start", "read", "register", "unregister", "recheck", "remove", "rollback",
          "bootout", "look", "write", "retract", "save"}

SoloType ==
    /\ solo.process \in Processes \cup {"none"}
    /\ solo.owners \subseteq {"item", "agent"}
    /\ solo.failures \in Nat
    /\ solo = [process |-> solo.process, owners |-> solo.owners, failures |-> solo.failures]

Typed == StartupTypeOK /\ step \in [Processes -> Calls] /\ SoloType

-------------------------------------------------------------------------------
(* How a process goes on.                                                   *)

(* The operations that make a call. *)
LEMMA CallersOf ==
  ASSUME Typed, NEW p \in Processes
  PROVE  /\ At(p, "read") => op[p] \in {"row", "register", "reconcile", "restore",
                                        "enable", "uninstall"}
         /\ At(p, "register") => op[p] = "register"
         /\ At(p, "unregister") => op[p] \in {"unregister", "restore", "enable", "uninstall"}
         /\ At(p, "recheck") => op[p] = "uninstall"
         /\ At(p, "rollback") => op[p] = "register"
         /\ At(p, "look") => op[p] = "reconcile"
         /\ At(p, "write") => op[p] = "enable"
         /\ At(p, "remove") => op[p] \in {"register", "reconcile", "disable", "uninstall"}
         /\ At(p, "retract") => op[p] = "enable"
         /\ At(p, "bootout") => op[p] \in {"register", "reconcile", "disable", "uninstall"}
         /\ At(p, "save") => op[p] \in {"restore", "enable", "disable", "uninstall"}
<1>1. op[p] \in Operations \cup {"none"} /\ step[p] \in StepsOf(op[p])
  BY DEF Typed, StartupTypeOK
<1> QED
  BY <1>1 DEF At, StepsOf, Operations, GuiOperations, CommandOperations

(* The processes after p has moved: it is at one of its own calls, and the  *)
(* others are where they were. *)
Moved(p) ==
    /\ op' \in [Processes -> Operations \cup {"none"}]
    /\ step' \in [Processes -> Calls]
    /\ \A q \in Processes : step'[q] \in StepsOf(op'[q])
    /\ \A q \in Processes \ {p} : op'[q] = op[q]

(* Going on keeps the operation. *)
LEMMA GoFacts ==
  ASSUME Typed, NEW p \in Processes, NEW s \in Calls, s \in StepsOf(op[p]), Go(p, s)
  PROVE  Moved(p) /\ op' = op /\ step'[p] = s
<1>1. step' = [step EXCEPT ![p] = s] /\ op' = op
  BY DEF Go
<1>2. \A q \in Processes : step'[q] = IF q = p THEN s ELSE step[q]
  BY <1>1 DEF Typed
<1> QED
  BY <1>1, <1>2 DEF Moved, Typed, StartupTypeOK

(* An ended operation is none. *)
LEMMA EndFacts ==
  ASSUME Typed, NEW p \in Processes, End(p)
  PROVE  Moved(p) /\ op'[p] = "none"
<1>1. op' = [op EXCEPT ![p] = "none"] /\ step' = [step EXCEPT ![p] = "start"]
  BY DEF End
<1>2. "start" \in Calls /\ "start" \in StepsOf("none")
  BY DEF Calls, StepsOf
<1>3. op \in [Processes -> Operations \cup {"none"}] /\ step \in [Processes -> Calls]
  BY DEF Typed, StartupTypeOK
<1>4. /\ \A q \in Processes : op'[q] = IF q = p THEN "none" ELSE op[q]
      /\ \A q \in Processes : step'[q] = IF q = p THEN "start" ELSE step[q]
  BY <1>1, <1>3
<1>5. \A q \in Processes : step[q] \in StepsOf(op[q])
  BY DEF Typed, StartupTypeOK
<1> QED
  BY <1>1, <1>2, <1>3, <1>4, <1>5 DEF Moved

(* Beginning another operation in its place. *)
LEMMA BecomesFacts ==
  ASSUME Typed, NEW p \in Processes, NEW o \in Operations, NEW s \in Calls, s \in StepsOf(o),
         op' = [op EXCEPT ![p] = o], step' = [step EXCEPT ![p] = s]
  PROVE  Moved(p) /\ op'[p] = o /\ step'[p] = s
<1>1. op \in [Processes -> Operations \cup {"none"}] /\ step \in [Processes -> Calls]
  BY DEF Typed, StartupTypeOK
<1>2. /\ \A q \in Processes : op'[q] = IF q = p THEN o ELSE op[q]
      /\ \A q \in Processes : step'[q] = IF q = p THEN s ELSE step[q]
  BY <1>1
<1>3. \A q \in Processes : step[q] \in StepsOf(op[q])
  BY DEF Typed, StartupTypeOK
<1> QED
  BY <1>1, <1>2, <1>3 DEF Moved

(* The account of failures. *)
LEMMA FailedFacts ==
  ASSUME SoloType, NEW p, Failed(p)
  PROVE  /\ SoloType'
         /\ solo'.process = solo.process /\ solo'.owners = solo.owners
         /\ solo.process = p => solo'.failures = solo.failures + 1
<1>1. CASE solo.process = p
  <2> DEFINE n == solo.failures + 1
  <2>1. solo' = [solo EXCEPT !.failures = n]
    BY <1>1 DEF Failed
  <2>2. n \in Nat
    BY DEF SoloType
  <2> HIDE DEF n
  <2>3. solo' = [process |-> solo.process, owners |-> solo.owners, failures |-> n]
    BY <2>1 DEF SoloType
  <2> QED
    BY <2>2, <2>3, <1>1 DEF SoloType, n
<1>2. CASE solo.process # p
  BY <1>2 DEF Failed, SoloType
<1> QED
  BY <1>1, <1>2

-------------------------------------------------------------------------------
(* What an operation without company has done by the call it is at.         *)

HadItem == "item" \in solo.owners
HadAgent == "agent" \in solo.owners
Installed == agent # "absent"
Untouched == (item <=> HadItem) /\ (Installed <=> HadAgent)

AtRegister(p) ==
    /\ step[p] \in {"read", "register"} => Untouched
    /\ step[p] = "register" => ~item /\ ~was[p]
    /\ step[p] = "remove" => /\ item /\ (Installed <=> HadAgent)
                             /\ was[p] => HadItem
    /\ step[p] = "rollback" => item /\ Installed
    /\ step[p] = "bootout" => item /\ ~Installed

AtReconcile(p) ==
    /\ step[p] \in {"read", "look", "remove"} => Untouched
    /\ step[p] \in {"look", "remove", "bootout"} => item
    /\ step[p] = "remove" => Installed
    /\ step[p] = "bootout" => ~Installed

AtEnable(p) ==
    /\ step[p] \in {"read", "write"} => Untouched
    /\ step[p] = "write" => (was[p] <=> item)
    /\ step[p] \in {"unregister", "retract"} => item /\ HadItem /\ agent = "mine"
    /\ step[p] = "save" => ~item /\ agent = "mine"

AtDisable(p) ==
    /\ step[p] = "remove" => Untouched
    /\ step[p] \in {"bootout", "save"} => ~Installed /\ (item <=> HadItem)

AtUninstall(p) ==
    /\ step[p] \in {"read", "unregister"} => Untouched
    /\ step[p] \in {"recheck", "remove"} => ~item /\ (Installed <=> HadAgent)
    /\ step[p] \in {"bootout", "save"} => ~item /\ ~Installed

Progress(p) ==
    /\ solo.failures = IF step[p] \in {"rollback", "retract"} THEN 1 ELSE 0
    /\ op[p] \in {"row", "unregister", "restore"} => Untouched
    /\ op[p] = "register" => AtRegister(p)
    /\ op[p] = "reconcile" => AtReconcile(p)
    /\ op[p] = "enable" => AtEnable(p)
    /\ op[p] = "disable" => AtDisable(p)
    /\ op[p] = "uninstall" => AtUninstall(p)

(* What the ownership is when the operation ends. *)
Outcome(p) ==
    /\ solo'.failures = 0 => \A o \in Operations : o = op[p] => Achieved(o)'
    /\ Owners' = {"item", "agent"} =>
          solo.owners = {"item", "agent"} \/ solo'.failures > 1
    /\ Owners' = {} =>
          \/ solo.owners = {}
          \/ op[p] \in {"disable", "unregister", "uninstall", "restore"}

OnOrEnded(p) ==
    /\ op'[p] # "none" => Progress(p)'
    /\ op'[p] = "none" => Outcome(p)

(* The owners, as a set and one by one. *)
LEMMA OwnersFacts ==
  ASSUME Typed
  PROVE  /\ (Owners = {"item", "agent"}) <=> (item /\ Installed)
         /\ (Owners = {}) <=> (~item /\ ~Installed)
         /\ (Owners = {"item"}) <=> (item /\ ~Installed)
         /\ (Owners = {"agent"}) <=> (~item /\ Installed)
         /\ (solo.owners = {"item", "agent"}) <=> (HadItem /\ HadAgent)
         /\ (solo.owners = {}) <=> (~HadItem /\ ~HadAgent)
<1>1. item \in BOOLEAN /\ solo.owners \subseteq {"item", "agent"}
  BY DEF Typed, StartupTypeOK
<1>2. /\ (Owners = {"item", "agent"}) <=> (item /\ Installed)
      /\ (Owners = {}) <=> (~item /\ ~Installed)
      /\ (Owners = {"item"}) <=> (item /\ ~Installed)
      /\ (Owners = {"agent"}) <=> (~item /\ Installed)
  <2>1. CASE item /\ agent # "absent"
    BY <2>1 DEF Owners, Installed
  <2>2. CASE item /\ agent = "absent"
    BY <2>2 DEF Owners, Installed
  <2>3. CASE ~item /\ agent # "absent"
    BY <2>3 DEF Owners, Installed
  <2>4. CASE ~item /\ agent = "absent"
    BY <2>4 DEF Owners, Installed
  <2> QED
    BY <1>1, <2>1, <2>2, <2>3, <2>4
<1> QED
  BY <1>1, <1>2 DEF HadItem, HadAgent

(* An operation one of whose calls fails ends well if it leaves the owners  *)
(* as they were, or one of them, or has failed to take back as well. *)
LEMMA FailureEnds ==
  ASSUME Typed, Typed', NEW p \in Processes, solo.process = p, Failed(p),
         solo.failures = 0 \/ solo.failures = 1,
         \/ Untouched'
         \/ ~(item' /\ Installed') /\ (item' \/ Installed')
         \/ ~(item' /\ Installed') /\ op[p] \in {"disable", "unregister", "uninstall", "restore"}
         \/ item' /\ solo.failures = 1
  PROVE  Outcome(p)
<1>1. /\ solo'.owners = solo.owners /\ solo'.failures = solo.failures + 1
  BY FailedFacts DEF Typed
<1>2. solo'.failures # 0 /\ (solo.failures = 1 => solo'.failures > 1)
  BY <1>1
<1>3. (HadItem' <=> HadItem) /\ (HadAgent' <=> HadAgent)
  BY <1>1 DEF HadItem, HadAgent
<1>4. /\ (Owners = {"item", "agent"})' <=> (item /\ Installed)'
      /\ (Owners = {})' <=> (~item /\ ~Installed)'
      /\ (solo.owners = {"item", "agent"}) <=> (HadItem /\ HadAgent)
      /\ (solo.owners = {}) <=> (~HadItem /\ ~HadAgent)
  BY OwnersFacts, PTL
<1> QED
  BY <1>2, <1>3, <1>4 DEF Outcome, Untouched

-------------------------------------------------------------------------------
(* Types.                                                                   *)

(* What is left to show of a step that Moved describes. *)
LEMMA MovedTypes ==
  ASSUME NEW p \in Processes, Moved(p), SoloType', solo'.process = solo.process,
         item' \in BOOLEAN, agent' \in {"absent", "mine", "other"}, job' \in BOOLEAN,
         flag' \in BOOLEAN, was' \in [Processes -> BOOLEAN]
  PROVE  Typed'
BY DEF Typed, StartupTypeOK, Moved, SoloType

StepTypes(p) == Typed' /\ Moved(p) /\ solo'.process = solo.process /\ solo'.owners = solo.owners

(* A step of a process keeps the types and leaves the others alone. *)
LEMMA ProceedTypes ==
  ASSUME Typed, NEW p \in Processes, Proceed(p)
  PROVE  StepTypes(p)
<1>0. /\ item \in BOOLEAN /\ agent \in {"absent", "mine", "other"} /\ job \in BOOLEAN
      /\ flag \in BOOLEAN /\ was \in [Processes -> BOOLEAN] /\ SoloType
  BY DEF Typed, StartupTypeOK
<1> DEFINE SoloStep == SoloType' /\ solo'.process = solo.process /\ solo'.owners = solo.owners
<1>a. Unfailed \/ Failed(p) => SoloStep
  BY <1>0, FailedFacts DEF Unfailed, SoloType, Typed
<1>b. End(p) => Moved(p)
  BY EndFacts
<1>c. \A s \in Calls : s \in StepsOf(op[p]) /\ Go(p, s) => Moved(p)
  BY GoFacts
<1>d. /\ op[p] = "register" => {"read", "register", "remove", "rollback", "bootout"} = StepsOf(op[p])
      /\ op[p] = "reconcile" => {"read", "look", "remove", "bootout"} = StepsOf(op[p])
      /\ op[p] = "restore" => {"save", "read", "unregister"} = StepsOf(op[p])
      /\ op[p] = "enable" => {"read", "write", "unregister", "retract", "save"} = StepsOf(op[p])
      /\ op[p] = "disable" => {"remove", "bootout", "save"} = StepsOf(op[p])
      /\ op[p] = "uninstall" =>
           {"read", "unregister", "recheck", "remove", "bootout", "save"} = StepsOf(op[p])
  BY DEF StepsOf
<1>e. Calls = {"start", "read", "register", "unregister", "recheck", "remove", "rollback",
               "bootout", "look", "write", "retract", "save"}
  BY DEF Calls
<1> HIDE DEF SoloStep
<1> SUFFICES /\ Moved(p) /\ SoloStep
             /\ item' \in BOOLEAN /\ agent' \in {"absent", "mine", "other"}
             /\ job' \in BOOLEAN /\ flag' \in BOOLEAN /\ was' \in [Processes -> BOOLEAN]
  BY MovedTypes DEF StepTypes, SoloStep
<1>1. CASE ReadItem(p)
  <2>1. op[p] \in {"row", "register", "reconcile", "restore", "enable", "uninstall"}
    BY <1>1, CallersOf DEF ReadItem
  <2>2. Moved(p)
    <3>1. CASE op[p] = "row"
      <4>1. /\ op' = [op EXCEPT ![p] = IF item THEN "unregister" ELSE "register"]
            /\ step' = [step EXCEPT ![p] = IF item THEN "unregister" ELSE "read"]
        BY <1>1, <3>1 DEF ReadItem
      <4>2. /\ "unregister" \in StepsOf("unregister") /\ "read" \in StepsOf("register")
            /\ {"unregister", "register"} \subseteq Operations
        BY DEF StepsOf, Operations, GuiOperations
      <4> QED
        BY <1>e, <4>1, <4>2, BecomesFacts
    <3>2. CASE op[p] = "reconcile"
      BY <1>1, <1>b, <1>c, <1>d, <1>e, <3>2 DEF ReadItem
    <3>3. CASE op[p] = "restore"
      BY <1>1, <1>b, <1>c, <1>d, <1>e, <3>3 DEF ReadItem
    <3>4. CASE op[p] \in {"register", "enable", "uninstall"}
      <4>1. Go(p, StepAfterRead(op[p]))
        BY <1>1, <3>4 DEF ReadItem
      <4>2. StepAfterRead(op[p]) \in StepsOf(op[p]) /\ StepAfterRead(op[p]) \in Calls
        BY <1>d, <1>e, <3>4 DEF StepAfterRead
      <4> QED
        BY <1>c, <4>1, <4>2
    <3> QED
      BY <2>1, <3>1, <3>2, <3>3, <3>4
  <2> QED
    BY <1>0, <1>1, <1>a, <2>2 DEF ReadItem, Unfailed
<1>2. CASE Register(p)
  <2>1. op[p] = "register"
    BY <1>2, CallersOf DEF Register
  <2> QED
    BY <1>0, <1>2, <1>a, <1>b, <1>c, <1>d, <1>e, <2>1 DEF Register
<1>3. CASE Unregister(p)
  <2>1. op[p] \in {"unregister", "restore", "enable", "uninstall"}
    BY <1>3, CallersOf DEF Unregister
  <2>2. Moved(p)
    <3>1. CASE op[p] \in {"unregister", "restore"}
      BY <1>3, <1>b, <3>1 DEF Unregister, StepAfterUnregister, UnregisterFails
    <3>2. CASE op[p] = "enable"
      BY <1>3, <1>b, <1>c, <1>d, <1>e, <3>2 DEF Unregister, StepAfterUnregister, UnregisterFails
    <3>3. CASE op[p] = "uninstall"
      BY <1>3, <1>b, <1>c, <1>d, <1>e, <3>3 DEF Unregister, StepAfterUnregister, UnregisterFails
    <3> QED
      BY <2>1, <3>1, <3>2, <3>3
  <2> QED
    BY <1>0, <1>3, <1>a, <2>2 DEF Unregister
<1>4. CASE Recheck(p)
  <2>1. op[p] = "uninstall"
    BY <1>4, CallersOf DEF Recheck
  <2> QED
    BY <1>0, <1>4, <1>a, <1>b, <1>c, <1>d, <1>e, <2>1 DEF Recheck
<1>5. CASE RollBack(p)
  BY <1>0, <1>5, <1>a, <1>b DEF RollBack
<1>6. CASE LookForAgent(p)
  <2>1. op[p] = "reconcile"
    BY <1>6, CallersOf DEF LookForAgent
  <2>2. Moved(p)
    BY <1>6, <1>b, <1>c, <1>d, <1>e, <2>1 DEF LookForAgent
  <2> QED
    BY <1>0, <1>6, <1>a, <2>2 DEF LookForAgent, Unfailed
<1>7. CASE WriteAgent(p)
  <2>1. op[p] = "enable"
    BY <1>7, CallersOf DEF WriteAgent
  <2>2. Moved(p)
    BY <1>7, <1>b, <1>c, <1>d, <1>e, <2>1 DEF WriteAgent
  <2> QED
    BY <1>0, <1>7, <1>a, <2>2 DEF WriteAgent
<1>8. CASE RemoveAgent(p)
  <2>1. op[p] \in {"register", "reconcile", "disable", "uninstall"}
    BY <1>8, CallersOf DEF RemoveAgent
  <2>2. "bootout" \in StepsOf(op[p]) /\ (op[p] = "register" => "rollback" \in StepsOf(op[p]))
    BY <1>d, <2>1
  <2>3. Moved(p)
    BY <1>8, <1>b, <1>c, <1>e, <2>2 DEF RemoveAgent, RemoveFails
  <2> QED
    BY <1>0, <1>8, <1>a, <2>3 DEF RemoveAgent
<1>9. CASE Retract(p)
  BY <1>0, <1>9, <1>a, <1>b DEF Retract
<1>10. CASE Bootout(p)
  <2>1. op[p] \in {"disable", "uninstall"} => "save" \in StepsOf(op[p])
    BY <1>d
  <2>2. Moved(p)
    BY <1>10, <1>b, <1>c, <1>e, <2>1 DEF Bootout
  <2> QED
    BY <1>0, <1>10, <1>a, <2>2 DEF Bootout, Unfailed
<1>11. CASE SaveFlag(p)
  <2>1. op[p] = "restore" => "read" \in StepsOf(op[p])
    BY <1>d
  <2>2. Moved(p)
    BY <1>11, <1>b, <1>c, <1>e, <2>1 DEF SaveFlag
  <2>3. flag' \in BOOLEAN
    BY <1>0, <1>11 DEF SaveFlag
  <2> QED
    BY <1>0, <1>11, <1>a, <2>2, <2>3 DEF SaveFlag
<1> QED
  BY <1>1, <1>2, <1>3, <1>4, <1>5, <1>6, <1>7, <1>8, <1>9, <1>10, <1>11 DEF Proceed

-------------------------------------------------------------------------------
(* The call by call account of an operation without company.                *)

(* What a call that goes on, or ends the operation, well has to show. *)
LEMMA WellDone ==
  ASSUME Typed, Typed', NEW p \in Processes, Unfailed, op'[p] = "none",
         solo.failures = 0 => \A o \in Operations : o = op[p] => Achieved(o)',
         item' /\ Installed' => HadItem /\ HadAgent,
         \/ item' \/ Installed' \/ ~(HadItem \/ HadAgent)
         \/ op[p] \in {"disable", "unregister", "uninstall", "restore"}
  PROVE  OnOrEnded(p)
<1>1. solo' = solo
  BY DEF Unfailed
<1>2. /\ (Owners = {"item", "agent"})' <=> (item /\ Installed)'
      /\ (Owners = {})' <=> (~item /\ ~Installed)'
      /\ (solo.owners = {"item", "agent"}) <=> (HadItem /\ HadAgent)
      /\ (solo.owners = {}) <=> (~HadItem /\ ~HadAgent)
  BY OwnersFacts, PTL
<1> QED
  BY <1>1, <1>2 DEF OnOrEnded, Outcome

(* A failed call that ends the operation. *)
LEMMA BadlyDone ==
  ASSUME Typed, Typed', NEW p \in Processes, solo.process = p, Failed(p), op'[p] = "none",
         solo.failures = 0 \/ solo.failures = 1,
         \/ Untouched'
         \/ ~(item' /\ Installed') /\ (item' \/ Installed')
         \/ ~(item' /\ Installed') /\ op[p] \in {"disable", "unregister", "uninstall", "restore"}
         \/ item' /\ solo.failures = 1
  PROVE  OnOrEnded(p)
BY FailureEnds DEF OnOrEnded

(* What the owners were is what they were. *)
LEMMA HadFacts ==
  ASSUME solo'.owners = solo.owners
  PROVE  (HadItem' <=> HadItem) /\ (HadAgent' <=> HadAgent)
BY DEF HadItem, HadAgent

(* The common case of a call: typed, and where it leads. *)
Alone(p) ==
    /\ Typed /\ Typed' /\ StepTypes(p)
    /\ p \in Processes /\ solo.process = p /\ op[p] # "none" /\ Progress(p)

(* Reading the login item changes nothing but what is known of it. *)
LEMMA ReadAlone ==
  ASSUME NEW p, Alone(p), ReadItem(p)
  PROVE  OnOrEnded(p)
<1> USE DEF Alone
<1>1. op[p] \in {"row", "register", "reconcile", "restore", "enable", "uninstall"}
  BY CallersOf DEF ReadItem
<1>2. /\ step[p] = "read"
      /\ item' = item /\ agent' = agent /\ solo' = solo /\ Unfailed
      /\ was'[p] = item
  BY DEF ReadItem, At, Typed, StartupTypeOK, Unfailed
<1>3. Untouched /\ Untouched' /\ solo.failures = 0 /\ solo'.failures = 0
  BY <1>1, <1>2 DEF Progress, AtRegister, AtReconcile, AtEnable, AtUninstall, Untouched,
                    HadItem, HadAgent, Installed
<1>4. CASE op[p] = "row"
  <2>1. op'[p] \in {"unregister", "register"} /\ step'[p] \in {"unregister", "read"}
    <3>1. /\ op' = [op EXCEPT ![p] = IF item THEN "unregister" ELSE "register"]
          /\ step' = [step EXCEPT ![p] = IF item THEN "unregister" ELSE "read"]
      BY <1>4 DEF ReadItem
    <3> QED
      BY <3>1 DEF Typed, StartupTypeOK
  <2>2. op'[p] = "register" => step'[p] = "read"
    <3>1. /\ op' = [op EXCEPT ![p] = IF item THEN "unregister" ELSE "register"]
          /\ step' = [step EXCEPT ![p] = IF item THEN "unregister" ELSE "read"]
      BY <1>4 DEF ReadItem
    <3> QED
      BY <3>1 DEF Typed, StartupTypeOK
  <2> QED
    BY <1>3, <2>1, <2>2 DEF OnOrEnded, Progress, AtRegister
<1>5. CASE op[p] \in {"reconcile", "restore"} /\ ~item
  <2>1. End(p)
    BY <1>5 DEF ReadItem
  <2>2. op'[p] = "none"
    BY <2>1, EndFacts
  <2>3. \A o \in Operations : o = op[p] => Achieved(o)'
    <3>1. (Owners = {"item", "agent"})' <=> (item /\ Installed)'
      BY OwnersFacts, PTL
    <3> QED
      BY <1>2, <1>5, <3>1 DEF Achieved
  <2> QED
    BY <1>2, <1>3, <1>5, <2>2, <2>3, WellDone DEF Untouched, Installed
<1>6. CASE op[p] = "reconcile" /\ item
  <2>1. Go(p, "look")
    BY <1>6 DEF ReadItem
  <2>2. op' = op /\ step'[p] = "look"
    BY <1>6, <2>1, GoFacts DEF Calls, StepsOf
  <2> QED
    BY <1>2, <1>3, <1>6, <2>2 DEF OnOrEnded, Progress, AtReconcile
<1>7. CASE op[p] = "restore" /\ item
  <2>1. Go(p, "unregister")
    BY <1>7 DEF ReadItem
  <2>2. op' = op /\ step'[p] = "unregister"
    BY <1>7, <2>1, GoFacts DEF Calls, StepsOf
  <2> QED
    BY <1>3, <1>7, <2>2 DEF OnOrEnded, Progress
<1>8. CASE op[p] \in {"register", "enable", "uninstall"}
  <2> DEFINE s == StepAfterRead(op[p])
  <2>1. Go(p, s)
    BY <1>8 DEF ReadItem
  <2>2. /\ op[p] = "register" => s = IF item THEN "remove" ELSE "register"
        /\ op[p] = "enable" => s = "write"
        /\ op[p] = "uninstall" => s = IF item THEN "unregister" ELSE "remove"
    BY <1>8 DEF StepAfterRead
  <2>3. s \in Calls /\ s \in StepsOf(op[p])
    BY <1>8, <2>2 DEF Calls, StepsOf
  <2> HIDE DEF s
  <2>4. op' = op /\ step'[p] = s
    BY <2>1, <2>3, GoFacts
  <2>5. CASE op[p] = "register"
    BY <1>2, <1>3, <2>2, <2>4, <2>5, HadFacts
    DEF OnOrEnded, Progress, AtRegister, Untouched
  <2>6. CASE op[p] = "enable"
    BY <1>2, <1>3, <2>2, <2>4, <2>6 DEF OnOrEnded, Progress, AtEnable
  <2>7. CASE op[p] = "uninstall"
    BY <1>2, <1>3, <2>2, <2>4, <2>7 DEF OnOrEnded, Progress, AtUninstall, Untouched
  <2> QED
    BY <1>8, <2>5, <2>6, <2>7
<1> QED
  BY <1>1, <1>4, <1>5, <1>6, <1>7, <1>8

(* A registration that fails leaves the owners as they were. *)
LEMMA RegisterAlone ==
  ASSUME NEW p, Alone(p), Register(p)
  PROVE  OnOrEnded(p)
<1> USE DEF Alone
<1>1. op[p] = "register" /\ step[p] = "register" /\ agent' = agent /\ was' = was
  BY CallersOf DEF Register, At
<1>2. Untouched /\ ~item /\ ~was'[p] /\ solo.failures = 0
  BY <1>1 DEF Progress, AtRegister
<1>3. CASE item' = TRUE /\ Go(p, "remove") /\ Unfailed
  <2>1. op' = op /\ step'[p] = "remove"
    BY <1>1, <1>3, GoFacts DEF Calls, StepsOf
  <2> QED
    BY <1>1, <1>2, <1>3, <2>1
    DEF OnOrEnded, Progress, AtRegister, Untouched, Unfailed, HadItem, HadAgent, Installed
<1>4. CASE item' = item /\ End(p) /\ Failed(p)
  <2>1. op'[p] = "none" /\ solo'.owners = solo.owners
    BY <1>4, EndFacts, FailedFacts DEF Typed
  <2>2. Untouched'
    BY <1>1, <1>2, <1>4, <2>1 DEF Untouched, Installed, HadItem, HadAgent
  <2> QED
    BY <1>2, <1>4, <2>1, <2>2, BadlyDone
<1> QED
  BY <1>3, <1>4 DEF Register

(* The login item is turned off for good, or on the way to the agent; one   *)
(* that stays leaves the agent to be taken back. *)
LEMMA UnregisterAlone ==
  ASSUME NEW p, Alone(p), Unregister(p)
  PROVE  OnOrEnded(p)
<1> USE DEF Alone
<1>1. /\ op[p] \in {"unregister", "restore", "enable", "uninstall"}
      /\ step[p] = "unregister" /\ agent' = agent /\ was' = was
  BY CallersOf DEF Unregister, At
<1>2. /\ solo.failures = 0
      /\ op[p] # "enable" => Untouched
      /\ op[p] = "enable" => item /\ HadItem /\ agent = "mine"
  BY <1>1 DEF Progress, AtEnable, AtUninstall
<1>3. CASE /\ item' = FALSE
           /\ IF StepAfterUnregister(op[p]) = "end" THEN End(p)
              ELSE Go(p, StepAfterUnregister(op[p]))
           /\ Unfailed
  <2>1. CASE op[p] \in {"unregister", "restore"}
    <3>1. op'[p] = "none"
      BY <1>3, <2>1, EndFacts DEF StepAfterUnregister
    <3>2. \A o \in Operations : o = op[p] => Achieved(o)'
      BY <1>3, <2>1 DEF Achieved
    <3> QED
      BY <1>2, <1>3, <2>1, <3>1, <3>2, WellDone
  <2>2. CASE op[p] = "enable"
    <3>1. op' = op /\ step'[p] = "save"
      BY <1>3, <2>2, GoFacts DEF StepAfterUnregister, Calls, StepsOf
    <3> QED
      BY <1>1, <1>2, <1>3, <2>2, <3>1 DEF OnOrEnded, Progress, AtEnable, Unfailed
  <2>3. CASE op[p] = "uninstall"
    <3>1. op' = op /\ step'[p] = "recheck"
      BY <1>3, <2>3, GoFacts DEF StepAfterUnregister, Calls, StepsOf
    <3> QED
      BY <1>1, <1>2, <1>3, <2>3, <3>1
      DEF OnOrEnded, Progress, AtUninstall, Unfailed, Untouched, Installed, HadAgent
  <2> QED
    BY <1>1, <2>1, <2>2, <2>3
<1>4. CASE item' = item /\ UnregisterFails(p) /\ Failed(p)
  <2>0. solo'.owners = solo.owners /\ solo'.failures = 1
    BY <1>2, <1>4, FailedFacts DEF Typed
  <2>1. CASE op[p] = "enable"
    <3>1. op' = op /\ step'[p] = "retract"
      BY <1>4, <2>1, GoFacts DEF UnregisterFails, Calls, StepsOf
    <3> QED
      BY <1>1, <1>2, <1>4, <2>0, <2>1, <3>1 DEF OnOrEnded, Progress, AtEnable, HadItem
  <2>2. CASE op[p] # "enable"
    <3>1. op'[p] = "none"
      BY <1>4, <2>2, EndFacts DEF UnregisterFails
    <3>2. Untouched'
      BY <1>1, <1>2, <1>4, <2>0, <2>2 DEF Untouched, Installed, HadItem, HadAgent
    <3> QED
      BY <1>2, <1>4, <3>1, <3>2, BadlyDone
  <2> QED
    BY <2>1, <2>2
<1> QED
  BY <1>3, <1>4 DEF Unregister

(* An uninstall whose login item is still there stops. *)
LEMMA RecheckAlone ==
  ASSUME NEW p, Alone(p), Recheck(p)
  PROVE  OnOrEnded(p)
<1> USE DEF Alone
<1>1. /\ op[p] = "uninstall" /\ step[p] = "recheck"
      /\ item' = item /\ agent' = agent
  BY CallersOf DEF Recheck, At
<1>2. ~item /\ (Installed <=> HadAgent) /\ solo.failures = 0
  BY <1>1 DEF Progress, AtUninstall
<1>3. Go(p, "remove") /\ Unfailed
  BY <1>2 DEF Recheck
<1>4. op' = op /\ step'[p] = "remove"
  BY <1>1, <1>3, GoFacts DEF Calls, StepsOf
<1> QED
  BY <1>1, <1>2, <1>3, <1>4
  DEF OnOrEnded, Progress, AtUninstall, Unfailed, Installed, HadAgent

(* A registration is rolled back, or the rollback fails as well. *)
LEMMA RollBackAlone ==
  ASSUME NEW p, Alone(p), RollBack(p)
  PROVE  OnOrEnded(p)
<1> USE DEF Alone
<1>1. op[p] = "register" /\ step[p] = "rollback" /\ agent' = agent /\ End(p)
  BY CallersOf DEF RollBack, At
<1>2. item /\ Installed /\ Installed' /\ solo.failures = 1
  BY <1>1 DEF Progress, AtRegister, Installed
<1>3. op'[p] = "none"
  BY <1>1, EndFacts
<1>4. CASE item' = FALSE /\ Unfailed
  BY <1>2, <1>3, <1>4, WellDone
<1>5. CASE item' = item /\ Failed(p)
  BY <1>2, <1>3, <1>5, BadlyDone
<1> QED
  BY <1>4, <1>5 DEF RollBack

(* Reconciliation goes on when it finds both. *)
LEMMA LookAlone ==
  ASSUME NEW p, Alone(p), LookForAgent(p)
  PROVE  OnOrEnded(p)
<1> USE DEF Alone
<1>1. /\ op[p] = "reconcile" /\ step[p] = "look"
      /\ item' = item /\ agent' = agent /\ solo' = solo /\ Unfailed
  BY CallersOf DEF LookForAgent, At, Unfailed
<1>2. item /\ Untouched /\ Untouched' /\ solo.failures = 0
  BY <1>1 DEF Progress, AtReconcile, Untouched, Installed, HadItem, HadAgent
<1>3. CASE Installed
  <2>1. Go(p, "remove")
    BY <1>3 DEF LookForAgent, Installed
  <2>2. op' = op /\ step'[p] = "remove"
    BY <1>1, <2>1, GoFacts DEF Calls, StepsOf
  <2> QED
    BY <1>1, <1>2, <1>3, <2>2 DEF OnOrEnded, Progress, AtReconcile, Installed
<1>4. CASE ~Installed
  <2>1. End(p)
    BY <1>4 DEF LookForAgent, Installed
  <2>2. op'[p] = "none"
    BY <2>1, EndFacts
  <2>3. (Owners = {"item", "agent"})' <=> (item /\ Installed)'
    BY OwnersFacts, PTL
  <2>4. ~Installed' /\ item'
    BY <1>1, <1>2, <1>4 DEF Installed
  <2>5. \A o \in Operations : o = op[p] => Achieved(o)'
    BY <1>1, <2>3, <2>4 DEF Achieved
  <2> QED
    BY <1>1, <2>2, <2>4, <2>5, WellDone
<1> QED
  BY <1>3, <1>4

(* The agent is written, or the owners are as they were. *)
LEMMA WriteAlone ==
  ASSUME NEW p, Alone(p), WriteAgent(p)
  PROVE  OnOrEnded(p)
<1> USE DEF Alone
<1>1. op[p] = "enable" /\ step[p] = "write" /\ item' = item
  BY CallersOf DEF WriteAgent, At
<1>2. Untouched /\ (was[p] <=> item) /\ solo.failures = 0
  BY <1>1 DEF Progress, AtEnable
<1>3. CASE /\ agent' = "mine"
           /\ Go(p, IF MustUnregister(p) THEN "unregister" ELSE "save")
           /\ Unfailed
  <2> DEFINE s == IF was[p] THEN "unregister" ELSE "save"
  <2>1. Go(p, s) /\ s \in Calls /\ s \in StepsOf(op[p])
    BY <1>1, <1>3 DEF MustUnregister, Calls, StepsOf
  <2> HIDE DEF s
  <2>2. op' = op /\ step'[p] = s
    BY <2>1, GoFacts
  <2>3. s = IF item THEN "unregister" ELSE "save"
    BY <1>2 DEF s
  <2> QED
    BY <1>1, <1>2, <1>3, <2>2, <2>3
    DEF OnOrEnded, Progress, AtEnable, Unfailed, Untouched, HadItem
<1>4. CASE agent' = agent /\ End(p) /\ Failed(p)
  <2>1. op'[p] = "none" /\ solo'.owners = solo.owners
    BY <1>4, EndFacts, FailedFacts DEF Typed
  <2>2. Untouched'
    BY <1>1, <1>2, <1>4, <2>1 DEF Untouched, Installed, HadItem, HadAgent
  <2> QED
    BY <1>2, <1>4, <2>1, <2>2, BadlyDone
<1> QED
  BY <1>3, <1>4 DEF WriteAgent

(* The agent file is removed; a fresh registration beside one that stays is *)
(* to be rolled back. *)
LEMMA RemoveAlone ==
  ASSUME NEW p, Alone(p), RemoveAgent(p)
  PROVE  OnOrEnded(p)
<1> USE DEF Alone
<1>1. /\ op[p] \in {"register", "reconcile", "disable", "uninstall"}
      /\ step[p] = "remove" /\ item' = item /\ was' = was
  BY CallersOf DEF RemoveAgent, At
<1>2. /\ solo.failures = 0
      /\ op[p] = "register" => item /\ (Installed <=> HadAgent) /\ (was[p] => HadItem)
      /\ op[p] = "reconcile" => Untouched /\ item /\ Installed
      /\ op[p] = "disable" => Untouched
      /\ op[p] = "uninstall" => ~item
  BY <1>1 DEF Progress, AtRegister, AtReconcile, AtDisable, AtUninstall
<1>3. CASE agent' = "absent" /\ Go(p, "bootout") /\ Unfailed
  <2>1. op' = op /\ step'[p] = "bootout"
    BY <1>1, <1>3, GoFacts DEF Calls, StepsOf
  <2>2. ~Installed' /\ solo' = solo
    BY <1>3 DEF Installed, Unfailed
  <2> QED
    BY <1>1, <1>2, <2>1, <2>2
    DEF OnOrEnded, Progress, AtRegister, AtReconcile, AtDisable, AtUninstall, Untouched,
        HadItem
<1>4. CASE agent # "absent" /\ agent' = agent /\ RemoveFails(p) /\ Failed(p)
  <2>1. Installed /\ Installed' /\ solo'.owners = solo.owners /\ solo'.failures = 1
    BY <1>2, <1>4, FailedFacts DEF Installed, Typed
  <2>2. CASE op[p] = "register" /\ ~was[p]
    <3>1. op' = op /\ step'[p] = "rollback"
      BY <1>4, <2>2, GoFacts DEF RemoveFails, Calls, StepsOf
    <3> QED
      BY <1>1, <1>2, <2>1, <2>2, <3>1 DEF OnOrEnded, Progress, AtRegister
  <2>3. CASE ~(op[p] = "register" /\ ~was[p])
    <3>1. op'[p] = "none"
      BY <1>4, <2>3, EndFacts DEF RemoveFails
    <3>2. op[p] # "uninstall" => Untouched'
      BY <1>1, <1>2, <2>1, <2>3 DEF Untouched, HadItem, HadAgent
    <3>3. op[p] = "uninstall" => ~(item' /\ Installed')
      BY <1>1, <1>2
    <3> QED
      BY <1>2, <1>4, <3>1, <3>2, <3>3, BadlyDone
  <2> QED
    BY <2>2, <2>3
<1> QED
  BY <1>3, <1>4 DEF RemoveAgent

(* The agent is taken back, or both are left by two failures. *)
LEMMA RetractAlone ==
  ASSUME NEW p, Alone(p), Retract(p)
  PROVE  OnOrEnded(p)
<1> USE DEF Alone
<1>1. op[p] = "enable" /\ step[p] = "retract" /\ item' = item /\ End(p)
  BY CallersOf DEF Retract, At
<1>2. item /\ solo.failures = 1
  BY <1>1 DEF Progress, AtEnable
<1>3. op'[p] = "none"
  BY <1>1, EndFacts
<1>4. CASE agent' = "absent" /\ Unfailed
  <2>1. ~Installed'
    BY <1>4 DEF Installed
  <2> QED
    BY <1>1, <1>2, <1>3, <1>4, <2>1, WellDone
<1>5. CASE Failed(p)
  BY <1>1, <1>2, <1>3, <1>5, BadlyDone
<1> QED
  BY <1>4, <1>5 DEF Retract

(* The job is stopped last, or before the configuration is saved. *)
LEMMA BootoutAlone ==
  ASSUME NEW p, Alone(p), Bootout(p)
  PROVE  OnOrEnded(p)
<1> USE DEF Alone
<1>1. /\ op[p] \in {"register", "reconcile", "disable", "uninstall"} /\ step[p] = "bootout"
      /\ item' = item /\ agent' = agent /\ solo' = solo /\ Unfailed
  BY CallersOf DEF Bootout, At, Unfailed
<1>2. /\ solo.failures = 0 /\ ~Installed
      /\ op[p] \in {"register", "reconcile"} => item
      /\ op[p] = "disable" => (item <=> HadItem)
      /\ op[p] = "uninstall" => ~item
  BY <1>1 DEF Progress, AtRegister, AtReconcile, AtDisable, AtUninstall
<1>3. ~Installed'
  BY <1>1, <1>2 DEF Installed
<1>4. CASE op[p] \in {"disable", "uninstall"}
  <2>1. Go(p, "save")
    BY <1>4 DEF Bootout
  <2>2. op' = op /\ step'[p] = "save"
    BY <1>4, <2>1, GoFacts DEF Calls, StepsOf
  <2> QED
    BY <1>1, <1>2, <1>3, <1>4, <2>2 DEF OnOrEnded, Progress, AtDisable, AtUninstall, HadItem
<1>5. CASE op[p] \in {"register", "reconcile"}
  <2>1. op'[p] = "none"
    BY <1>5, EndFacts DEF Bootout
  <2>2. /\ (Owners = {"item"})' <=> (item /\ ~Installed)'
        /\ (Owners = {"item", "agent"})' <=> (item /\ Installed)'
    BY OwnersFacts, PTL
  <2>3. \A o \in Operations : o = op[p] => Achieved(o)'
    BY <1>1, <1>2, <1>3, <1>5, <2>2 DEF Achieved
  <2> QED
    BY <1>1, <1>2, <1>3, <1>5, <2>1, <2>3, WellDone
<1> QED
  BY <1>1, <1>4, <1>5

(* The configuration is saved when the owners are settled. *)
LEMMA SaveAlone ==
  ASSUME NEW p, Alone(p), SaveFlag(p)
  PROVE  OnOrEnded(p)
<1> USE DEF Alone
<1>1. /\ op[p] \in {"restore", "enable", "disable", "uninstall"} /\ step[p] = "save"
      /\ item' = item /\ agent' = agent
  BY CallersOf DEF SaveFlag, At
<1>2. /\ solo.failures = 0
      /\ op[p] = "restore" => Untouched
      /\ op[p] = "enable" => ~item /\ agent = "mine"
      /\ op[p] = "disable" => ~Installed
      /\ op[p] = "uninstall" => ~item /\ ~Installed
  BY <1>1 DEF Progress, AtEnable, AtDisable, AtUninstall
<1>3. (Installed' <=> Installed)
  BY <1>1 DEF Installed
<1>4. CASE op[p] = "restore" /\ Go(p, "read") /\ Unfailed
  <2>1. op' = op /\ step'[p] = "read"
    BY <1>4, GoFacts DEF Calls, StepsOf
  <2> QED
    BY <1>1, <1>2, <1>3, <1>4, <2>1
    DEF OnOrEnded, Progress, Untouched, Unfailed, HadItem, HadAgent
<1>5. CASE op[p] # "restore" /\ flag' = (op[p] = "enable") /\ End(p) /\ Unfailed
  <2>1. op'[p] = "none"
    BY <1>5, EndFacts
  <2>2. /\ (Owners = {"agent"})' <=> (~item /\ Installed)'
        /\ (Owners = {})' <=> (~item /\ ~Installed)'
    BY OwnersFacts, PTL
  <2>3. CASE op[p] = "enable"
    <3>1. agent' = "mine" /\ flag' = TRUE /\ Installed' /\ ~item'
      BY <1>1, <1>2, <1>5, <2>3 DEF Installed
    <3>2. \A o \in Operations : o = op[p] => Achieved(o)'
      BY <2>2, <2>3, <3>1 DEF Achieved, InSync
    <3> QED
      BY <1>5, <2>1, <3>1, <3>2, WellDone
  <2>4. CASE op[p] = "disable"
    <3>1. agent' = "absent" /\ flag' = FALSE /\ ~Installed'
      BY <1>1, <1>2, <1>5, <2>4 DEF Installed
    <3>2. \A o \in Operations : o = op[p] => Achieved(o)'
      BY <2>4, <3>1 DEF Achieved, InSync
    <3> QED
      BY <1>5, <2>1, <2>4, <3>1, <3>2, WellDone
  <2>5. CASE op[p] = "uninstall"
    <3>1. \A o \in Operations : o = op[p] => Achieved(o)'
      BY <1>1, <1>2, <1>3, <2>2, <2>5 DEF Achieved
    <3> QED
      BY <1>1, <1>2, <1>3, <1>5, <2>1, <2>5, <3>1, WellDone
  <2> QED
    BY <1>1, <1>5, <2>3, <2>4, <2>5
<1>6. CASE End(p) /\ Failed(p)
  <2>1. op'[p] = "none" /\ solo'.owners = solo.owners
    BY <1>6, EndFacts, FailedFacts DEF Typed
  <2>2. op[p] = "restore" => Untouched'
    BY <1>1, <1>2, <1>3, <2>1 DEF Untouched, HadItem, HadAgent
  <2>3. op[p] = "enable" => ~(item' /\ Installed') /\ (item' \/ Installed')
    BY <1>1, <1>2, <1>3 DEF Installed
  <2>4. op[p] \in {"disable", "uninstall"} => ~(item' /\ Installed')
    BY <1>1, <1>2, <1>3
  <2> QED
    BY <1>1, <1>2, <1>6, <2>1, <2>2, <2>3, <2>4, BadlyDone
<1> QED
  BY <1>1, <1>4, <1>5, <1>6 DEF SaveFlag

(* Each call of an operation without company. *)
LEMMA ProceedAlone ==
  ASSUME NEW p, Alone(p), Proceed(p)
  PROVE  OnOrEnded(p)
BY ReadAlone, RegisterAlone, UnregisterAlone, RecheckAlone, RollBackAlone, LookAlone,
   WriteAlone, RemoveAlone, RetractAlone, BootoutAlone, SaveAlone DEF Proceed

-------------------------------------------------------------------------------
(* The inductive invariant: the operation without company is the only one,  *)
(* and it has done what its next call says.                                 *)

SoloInv ==
    solo.process \in Processes =>
        /\ \A q \in Processes \ {solo.process} : op[q] = "none"
        /\ op[solo.process] # "none" => Progress(solo.process)

StartupInv == Typed /\ SoloInv

(* One call of one process. *)
LEMMA ProceedStep ==
  ASSUME StartupInv, NEW p \in Processes, Proceed(p)
  PROVE  /\ StartupInv'
         /\ \A q \in Processes : EndsAlone(q) => Outcome(q)
<1>1. StepTypes(p)
  BY ProceedTypes DEF StartupInv
<1>2. Typed' /\ solo'.process = solo.process /\ \A q \in Processes \ {p} : op'[q] = op[q]
  BY <1>1 DEF StepTypes, Moved
<1>3. op[p] # "none"
  BY DEF Proceed, ReadItem, Register, Unregister, Recheck, RollBack, LookForAgent, WriteAgent,
         RemoveAgent, Retract, Bootout, SaveFlag, At
<1>4. CASE solo.process = p
  <2>1. Alone(p)
    BY <1>1, <1>2, <1>3, <1>4 DEF Alone, StartupInv, SoloInv
  <2>2. OnOrEnded(p)
    BY <2>1, ProceedAlone
  <2>3. SoloInv'
    BY <1>2, <1>4, <2>2 DEF SoloInv, OnOrEnded, StartupInv
  <2> QED
    BY <1>2, <1>4, <2>2, <2>3 DEF StartupInv, EndsAlone, OnOrEnded
<1>5. CASE solo.process # p
  <2>1. solo.process \notin Processes
    BY <1>3, <1>5 DEF StartupInv, SoloInv
  <2> QED
    BY <1>2, <2>1 DEF StartupInv, SoloInv, EndsAlone
<1> QED
  BY <1>4, <1>5

(* An operation begins, alone if nothing else is running. *)
LEMMA BeginStep ==
  ASSUME StartupInv, NEW p \in Processes,
         NEW o \in {"row", "reconcile", "restore", "enable", "disable", "uninstall"},
         Begin(p, o)
  PROVE  /\ StartupInv'
         /\ \A q \in Processes : ~EndsAlone(q)
<1>1. /\ op[p] = "none" /\ item' = item /\ agent' = agent /\ job' = job /\ flag' = flag
      /\ op' = [op EXCEPT ![p] = o] /\ step' = [step EXCEPT ![p] = FirstStep(o)]
      /\ was' = [was EXCEPT ![p] = FALSE]
  BY DEF Begin
<1>2. FirstStep(o) = CASE o = "disable" -> "remove" [] o = "restore" -> "save" [] OTHER -> "read"
  BY DEF FirstStep
<1>3. o \in Operations /\ FirstStep(o) \in Calls /\ FirstStep(o) \in StepsOf(o)
  BY <1>2 DEF Operations, GuiOperations, CommandOperations, Calls, StepsOf
<1>4. Moved(p) /\ op'[p] = o /\ step'[p] = FirstStep(o)
  BY <1>1, <1>3, BecomesFacts DEF StartupInv
<1>5. /\ item \in BOOLEAN /\ agent \in {"absent", "mine", "other"} /\ job \in BOOLEAN
      /\ flag \in BOOLEAN /\ was \in [Processes -> BOOLEAN]
      /\ op \in [Processes -> Operations \cup {"none"}]
      /\ \A q \in Processes : step[q] \in StepsOf(op[q])
  BY DEF StartupInv, Typed, StartupTypeOK
<1>6. /\ SoloType'
      /\ solo' = NoSolo \/ solo' = [process |-> p, owners |-> Owners, failures |-> 0]
      /\ solo'.process \in {p, "none"}
      /\ solo'.process = p => Idle /\ solo'.owners = Owners /\ solo'.failures = 0
  <2>1. Owners \subseteq {"item", "agent"}
    BY DEF Owners
  <2>2. solo' = IF Idle THEN [process |-> p, owners |-> Owners, failures |-> 0] ELSE NoSolo
    BY DEF Begin
  <2> QED
    BY <2>1, <2>2, ProcessesAssumption DEF SoloType, NoSolo
<1>7. was' \in [Processes -> BOOLEAN]
  BY <1>1, <1>5
<1>8. Typed'
  BY <1>1, <1>4, <1>5, <1>6, <1>7 DEF Typed, StartupTypeOK, Moved, SoloType
<1>9. SoloInv'
  <2>1. CASE solo'.process = p
    <3>1. \A q \in Processes \ {p} : op'[q] = "none"
      BY <1>4, <1>6, <2>1 DEF Moved, Idle
    <3>2. Untouched'
      <4>1. Owners' = Owners
        BY <1>1 DEF Owners
      <4>2. ("item" \in Owners <=> item) /\ ("agent" \in Owners <=> Installed)
        BY DEF Owners, Installed
      <4> QED
        BY <1>1, <1>6, <2>1, <4>2 DEF Untouched, HadItem, HadAgent, Installed
    <3>3. Progress(p)'
      BY <1>2, <1>4, <1>6, <2>1, <3>2
      DEF Progress, AtRegister, AtReconcile, AtEnable, AtDisable, AtUninstall
    <3> QED
      BY <2>1, <3>1, <3>3 DEF SoloInv
  <2>2. CASE solo'.process = "none"
    BY <2>2, ProcessesAssumption DEF SoloInv
  <2> QED
    BY <1>6, <2>1, <2>2
<1>10. \A q \in Processes : ~EndsAlone(q)
  <2>1. \A q \in Processes : op'[q] = "none" => op[q] = "none"
    BY <1>3, <1>4, <1>1 DEF Moved, Operations, GuiOperations, CommandOperations
  <2> QED
    BY <2>1 DEF EndsAlone
<1> QED
  BY <1>8, <1>9, <1>10 DEF StartupInv

(* Steps of nobody: a login, another copy's agent, a stutter. *)
LEMMA OutsideStep ==
  ASSUME StartupInv, Login \/ Elsewhere \/ UNCHANGED startupVars
  PROVE  /\ StartupInv'
         /\ \A q \in Processes : ~EndsAlone(q)
<1>1. op' = op /\ step' = step /\ was' = was /\ solo' = solo /\ item' = item /\ flag' = flag
  BY DEF Login, Elsewhere, startupVars
<1>2. agent' \in {"absent", "mine", "other"} /\ job' \in BOOLEAN
  BY DEF Login, Elsewhere, startupVars, StartupInv, Typed, StartupTypeOK
<1>3. Typed'
  BY <1>1, <1>2 DEF StartupInv, Typed, StartupTypeOK, SoloType
<1>4. SoloInv'
  <2>1. CASE Idle
    BY <1>1, <2>1 DEF Idle, SoloInv
  <2>2. CASE UNCHANGED startupVars
    BY <2>2 DEF startupVars, StartupInv, SoloInv, Progress, Untouched, AtRegister, AtReconcile, AtEnable,
                AtDisable, AtUninstall, HadItem, HadAgent, Installed
  <2> QED
    BY <2>1, <2>2 DEF Login, Elsewhere
<1> QED
  BY <1>1, <1>3, <1>4 DEF StartupInv, EndsAlone

(* The invariant holds at first. *)
LEMMA StartupStarts ==
  ASSUME StartupInit
  PROVE  StartupInv
<1>1. solo = NoSolo /\ SoloType
  BY DEF StartupInit, NoSolo, SoloType
<1>2. "start" \in Calls /\ "start" \in StepsOf("none")
  BY DEF Calls, StepsOf
<1>3. Typed
  BY <1>1, <1>2 DEF StartupInit, Typed, StartupTypeOK, SoloType
<1> QED
  BY <1>1, <1>3, ProcessesAssumption DEF StartupInv, SoloInv, NoSolo

(* Every step keeps the invariant and ends an operation well or not at all. *)
LEMMA StartupKeeps ==
  ASSUME StartupInv, [StartupNext]_startupVars
  PROVE  /\ StartupInv'
         /\ \A q \in Processes : EndsAlone(q) => Outcome(q)
<1>1. CASE \E o \in {"row", "reconcile", "restore"} : Begin(Gui, o)
  BY <1>1, BeginStep DEF Processes
<1>2. CASE \E p \in Commands, o \in CommandOperations : Begin(p, o)
  BY <1>2, BeginStep DEF Processes, CommandOperations
<1>3. CASE \E p \in Processes : Proceed(p)
  BY <1>3, ProceedStep
<1>4. CASE Login \/ Elsewhere \/ UNCHANGED startupVars
  BY <1>4, OutsideStep
<1> QED
  BY <1>1, <1>2, <1>3, <1>4 DEF StartupNext

-------------------------------------------------------------------------------
(* Each operation makes its own calls only (the order of the calls in       *)
(* login_item.rs, main.rs:482-507 and startup.rs), so what one registered   *)
(* or installed is taken back by that one alone.                            *)
THEOREM OperationsKeepToTheirCalls == StartupSpec => []StartupTypeOK
<1>1. StartupInit => StartupInv
  BY StartupStarts
<1>2. StartupInv /\ [StartupNext]_startupVars => StartupInv'
  BY StartupKeeps
<1>3. StartupInv => StartupTypeOK
  BY DEF StartupInv, Typed
<1> QED
  BY <1>1, <1>2, <1>3, PTL DEF StartupSpec

(* With any number of commands, an operation that had no company moves the  *)
(* ownership of the login start as a whole: it does what it says, or leaves *)
(* two owners or none only where it met them or its rollback failed too     *)
(* (login_item.rs, main.rs:482-507). *)
THEOREM OwnershipMoves == StartupSpec => OwnershipMovesWhole
<1>1. StartupInit => StartupInv
  BY StartupStarts
<1>2. StartupInv /\ [StartupNext]_startupVars => StartupInv'
  BY StartupKeeps
<1> DEFINE Step == [\A p \in Processes : EndsAlone(p) => Outcome(p)]_startupVars
<1>3. StartupInv /\ [StartupNext]_startupVars => Step
  BY StartupKeeps
<1>4. Step => [\A p \in Processes : EndsAlone(p) =>
          /\ solo'.failures = 0 => \A o \in Operations : o = op[p] => Achieved(o)'
          /\ Owners' = {"item", "agent"} =>
                solo.owners = {"item", "agent"} \/ solo'.failures > 1
          /\ Owners' = {} =>
                \/ solo.owners = {}
                \/ op[p] \in {"disable", "unregister", "uninstall", "restore"}]_startupVars
  BY DEF Outcome
<1> HIDE DEF Step
<1> QED
  BY <1>1, <1>2, <1>3, <1>4, PTL DEF StartupSpec, OwnershipMovesWhole
================================================================================
