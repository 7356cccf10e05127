----------------------------- MODULE SettingsPanel -----------------------------
(***************************************************************************)
(* What the settings window lets its user do to the configuration: device   *)
(* rules with their alias fields, presets on trial, scoped resets, imports  *)
(* under review, Restore all defaults, and the tray's device marks (ui.rs,  *)
(* ui/device_rules.rs, ui/preset_preview.rs, ui/config_transfer.rs,         *)
(* preset_preview.rs, config/transfer/, tray/device_rules.rs).              *)
(*                                                                         *)
(* A step is one frame of the window with one input in it, or one tray      *)
(* click with the tick that reads its result, or a write of the file by     *)
(* somebody else; how such writes interleave inside a save is the subject   *)
(* of ConfigSync.  The widgets' copy and the shared copy are one, panel:    *)
(* after every frame they agree.                                            *)
(***************************************************************************)
EXTENDS DeviceRules, FiniteSets

CONSTANTS
    Devices,     \* identities of the devices that can be plugged in
    Aliases,     \* names the user may type
    Presets,     \* smooth presets
    Steps,       \* wheel step sizes
    Kinds,       \* device kinds with a box of their own
    Defaults,    \* AppConfig::default()
    Written,     \* configurations other programs may write to the file
    Importable,  \* configurations in the files the user may choose
    MaxEdits,    \* bound: edits and writes from elsewhere
    MaxDialogs   \* bound: questions, trials and reviews open at a time

ASSUME IdentitiesAssumption ==
    /\ \A d \in Devices : d.serial = None \/ d.port = None
    /\ None \notin Aliases \cup Presets
    /\ MaxEdits \in Nat /\ MaxDialogs \in Nat

Texts == Aliases \cup {None}    \* None is the empty field

(* The shape of a rule and of a configuration, as far as the window edits   *)
(* them: what the program has loaded has it.                                *)
RuleFields == {"model", "serial", "port", "alias", "reverse", "step", "preset"}

IsRule(r) == r = [f \in RuleFields |-> r[f]] /\ r.alias \in Texts

ConfigFields == {"enabled", "reversedKinds", "step", "preset", "rules", "login", "icon"}

IsConfig(c) ==
    /\ c = [f \in ConfigFields |-> c[f]] /\ c.preset \in Presets
    /\ ValidRules(c.rules) /\ \A r \in c.rules : IsRule(r)

ASSUME ConfigsAssumption ==
    \A c \in {Defaults} \cup Written \cup Importable : IsConfig(c)

VARIABLES
    disk,       \* config.toml
    known,      \* the revision the window believes in, or None
    panel,      \* the configuration the widgets show and the tap uses
    observed,   \* the devices the window has listed
    tab,        \* "General", "Devices" or "Advanced"
    drafts,     \* device_alias_edits: per device the field's text, or "absent"
    focus,      \* the device whose alias field has the focus, or None
    asked,      \* the confirmations on display
    trial,      \* PresetPreview.pending, or None
    review,     \* the candidate of the pending import, or None
    edits       \* edits made and writes from elsewhere so far

files == <<disk, known, panel>>
fields == <<tab, drafts, focus>>
dialogs == <<asked, trial, review>>
vars == <<files, observed, fields, dialogs, edits>>

(* The bound on what is open, for the guards of what opens more. *)
RoomForDialog ==
    Cardinality({w \in {"dynamics", "all"} : asked[w]}
                  \cup ({asked.device, trial, review} \ {None})) < MaxDialogs

Tabs == {"General", "Devices", "Advanced"}

-------------------------------------------------------------------------------
(* Saving.                                                                  *)

Count == edits < MaxEdits /\ edits' = edits + 1

(* save_if_unchanged found the revision the window knows. *)
Saved(new) ==
    /\ Count
    /\ known = disk
    /\ disk' = new /\ known' = new /\ panel' = new

(* Somebody else's write is met: it is taken over and the edit is dropped.  *)
(* Any other failure puts the shared copy back, even one after which the    *)
(* file is in place; so does a window that never loaded its configuration.  *)
NotSaved(new) ==
    /\ Count
    /\ \/ known \notin {None, disk} /\ panel' = disk /\ known' = disk /\ UNCHANGED disk
       \/ /\ UNCHANGED <<panel, known>>
          /\ \/ UNCHANGED disk
             \/ known = disk /\ disk' = new

Save(new) == Saved(new) \/ NotSaved(new)

NothingSaved == UNCHANGED <<files, edits>>

-------------------------------------------------------------------------------
(* The Devices tab.                                                         *)

Rows(config) == {e.identity : e \in Catalog(observed, config.rules)} \ {None}

ConfiguredAlias(config, d) ==
    LET own == Preferred(config.rules, d)
    IN IF own = {} THEN None ELSE (CHOOSE r \in own : TRUE).alias

(* A row that is drawn without a text takes the configured one, and keeps   *)
(* it until the field is left.                                              *)
Drawn(texts, config) ==
    [d \in Devices |->
        IF texts[d] = "absent" /\ d \in Rows(config) THEN ConfiguredAlias(config, d)
                                                     ELSE texts[d]]

Draw ==
    /\ tab = "Devices"
    /\ drafts' = Drawn(drafts, panel)
    /\ UNCHANGED <<files, observed, edits, tab, focus, dialogs>>

(* A row that can be used is one that has been drawn. *)
OnRow(d) == tab = "Devices" /\ d \in Rows(panel) /\ drafts[d] # "absent"

WithRules(rules) == [panel EXCEPT !.rules = rules]

Select(d, selection) ==
    /\ OnRow(d)
    /\ selection \notin {r.reverse : r \in Preferred(panel.rules, d)}
    /\ Save(WithRules(WithSelection(panel.rules, d, selection)))
    /\ UNCHANGED <<observed, fields, dialogs>>

CommitAlias(d, text) ==
    IF text = ConfiguredAlias(panel, d) THEN NothingSaved
    ELSE Save(WithRules(WithAlias(panel.rules, d, text)))

FocusField(d) ==
    /\ OnRow(d)
    /\ focus' = d
    /\ UNCHANGED <<files, observed, edits, tab, drafts, dialogs>>

(* Text with blanks around it is not saved while it is being typed. *)
Type(d, text, blanks) ==
    /\ OnRow(d) /\ focus = d
    /\ drafts' = [drafts EXCEPT ![d] = text]
    /\ IF blanks THEN NothingSaved ELSE CommitAlias(d, text)
    /\ UNCHANGED <<observed, tab, focus, dialogs>>

(* Enter, or the focus goes elsewhere. *)
Leave(d) ==
    /\ OnRow(d) /\ focus = d
    /\ CommitAlias(d, drafts[d])
    /\ drafts' = [drafts EXCEPT ![d] = "absent"]
    /\ focus' = None
    /\ UNCHANGED <<observed, tab, dialogs>>

AskResetDevice(d) ==
    /\ OnRow(d) /\ Preferred(panel.rules, d) # {} /\ RoomForDialog
    /\ asked' = [asked EXCEPT !.device = d]
    /\ UNCHANGED <<files, observed, edits, fields, trial, review>>

ResetDevice(d) ==
    /\ OnRow(d) /\ Preferred(panel.rules, d) # {} /\ asked.device = d
    /\ \/ Save(WithRules(WithoutProfile(panel.rules, d)))
          /\ drafts' = [drafts EXCEPT ![d] = "absent"]
       \/ NothingSaved /\ UNCHANGED drafts
    /\ asked' = [asked EXCEPT !.device = None]
    /\ UNCHANGED <<observed, tab, focus, trial, review>>

(* The tray's menu, from its own list of devices. *)
ToggleInTray(d) ==
    /\ CanToggle(panel.rules, d)
    /\ Save(WithRules(Toggled(panel.rules, d)))
    /\ UNCHANGED <<observed, fields, dialogs>>

SwitchTab ==
    /\ focus = None \/ focus \notin Rows(panel)
    /\ tab' \in Tabs \ {tab}
    /\ focus' = None
    /\ UNCHANGED <<files, observed, edits, drafts, dialogs>>

-------------------------------------------------------------------------------
(* Presets on trial.  A trial belongs to the preset that was saved when it  *)
(* began.                                                                   *)

Pending == trial # None /\ trial.committed = panel.preset

TryPreset(p) ==
    /\ tab = "Advanced" /\ (trial # None \/ RoomForDialog)
    /\ trial' = IF p = panel.preset THEN None
                ELSE [committed |-> panel.preset, candidate |-> p]
    /\ UNCHANGED <<files, observed, edits, fields, asked, review>>

ConfirmAny == trial # None    \* mutant of CanConfirm: whatever is saved by now

CanConfirm == Pending

UsePreset ==
    /\ tab = "Advanced" /\ CanConfirm
    /\ Save([panel EXCEPT !.preset = trial.candidate])
    /\ trial' = None
    /\ UNCHANGED <<observed, fields, asked, review>>

(* Reverted by the user, superseded by another saved preset, or expired. *)
EndTrial ==
    /\ trial # None
    /\ trial' = None
    /\ UNCHANGED <<files, observed, edits, fields, asked, review>>

-------------------------------------------------------------------------------
(* Import: the review is compared again with the panel in every frame, and  *)
(* applied section by section.                                              *)

ComparedFields ==
    [General |-> {"enabled", "reversedKinds", "step", "preset"}, Devices |-> {"rules"},
     Startup |-> {"login"}, Advanced |-> {"icon"}]

Sections == DOMAIN ComparedFields

PresetForgotten ==    \* mutant of CopiedFields: shown in the review, not copied
    [ComparedFields EXCEPT !.General = @ \ {"preset"}]

CopiedFields ==
    [General |-> {"enabled", "reversedKinds", "step", "preset"}, Devices |-> {"rules"},
     Startup |-> {"login"}, Advanced |-> {"icon"}]

Changes(current, candidate) ==
    {s \in Sections : \E f \in ComparedFields[s] : current[f] # candidate[f]}

WithSections(current, candidate, sections) ==
    LET copied == UNION {CopiedFields[s] : s \in sections}
    IN [f \in DOMAIN current |-> IF f \in copied THEN candidate[f] ELSE current[f]]

(* A file that cannot be read or is not valid ends the review before it. *)
ChooseImport ==
    /\ tab = "Advanced" /\ (review # None \/ RoomForDialog)
    /\ review' \in Importable \cup {None}
    /\ UNCHANGED <<files, observed, edits, fields, asked, trial>>

ApplyImport ==
    /\ tab = "Advanced" /\ review # None
    /\ LET shown == Changes(panel, review) IN
          /\ shown # {}
          /\ Save(WithSections(panel, review, shown))
    /\ review' = None
    /\ UNCHANGED <<observed, fields, asked, trial>>

CancelImport ==
    /\ tab = "Advanced" /\ review # None
    /\ review' = None
    /\ UNCHANGED <<files, observed, edits, fields, asked, trial>>

-------------------------------------------------------------------------------
(* Resets of more than one device.                                          *)

Ask(which) ==
    /\ RoomForDialog /\ (which = "dynamics" => tab = "Advanced")
    /\ asked' = [asked EXCEPT ![which] = TRUE]
    /\ UNCHANGED <<files, observed, edits, fields, trial, review>>

Withdraw(which) ==
    /\ asked[which] /\ (which = "dynamics" => tab = "Advanced")
    /\ asked' = [asked EXCEPT ![which] = FALSE]
    /\ UNCHANGED <<files, observed, edits, fields, trial, review>>

ResetDynamics ==
    /\ tab = "Advanced" /\ asked.dynamics
    /\ LET reset == DynamicsDefaults(panel, Defaults)
       IN IF reset = panel THEN NothingSaved ELSE Save(reset)
    /\ trial' = None
    /\ asked' = [asked EXCEPT !.dynamics = FALSE]
    /\ UNCHANGED <<observed, fields, review>>

(* Once the defaults are in the file, a pause ends (ConfigSync) and the     *)
(* login item goes (StartupOwnership).                                      *)
RestoreAll ==
    /\ asked.all
    /\ Save(Defaults)
    /\ asked' = [device |-> None, dynamics |-> FALSE, all |-> FALSE]
    /\ trial' = None
    /\ UNCHANGED <<observed, fields, review>>

-------------------------------------------------------------------------------
(* Settings of their own.  The master switch is above the tabs; what the    *)
(* tap makes of it is TapRuntime's.  The boxes for the directions are like  *)
(* those for the devices, and left out.                                     *)

ToggleEnabled ==
    /\ Save([panel EXCEPT !.enabled = ~@])
    /\ UNCHANGED <<observed, fields, dialogs>>

ToggleKind(kind) ==
    /\ tab = "General" /\ panel.enabled
    /\ Save([panel EXCEPT !.reversedKinds =
                IF kind \in @ THEN @ \ {kind} ELSE @ \cup {kind}])
    /\ UNCHANGED <<observed, fields, dialogs>>

SetStep(n) ==
    /\ tab = "General" /\ panel.enabled /\ "Mouse" \in panel.reversedKinds
    /\ n # panel.step
    /\ Save([panel EXCEPT !.step = n])
    /\ UNCHANGED <<observed, fields, dialogs>>

ToggleIcon ==
    /\ tab = "Advanced"
    /\ Save([panel EXCEPT !.icon = ~@])
    /\ UNCHANGED <<observed, fields, dialogs>>

-------------------------------------------------------------------------------
(* The outside.                                                             *)

WriteElsewhere ==
    /\ Count
    /\ disk' \in Written
    /\ UNCHANGED <<known, panel, observed, fields, dialogs>>

(* reload_external_config, asked for through the mailbox: the fields keep   *)
(* their texts.                                                             *)
Reload ==
    /\ known # disk
    /\ known' = disk /\ panel' = disk
    /\ UNCHANGED <<disk, observed, fields, dialogs, edits>>

(* refresh_devices: what is connected by then; an error leaves the list empty. *)
ListDevices ==
    /\ observed' \in SUBSET Devices
    /\ UNCHANGED <<files, fields, dialogs, edits>>

-------------------------------------------------------------------------------
(* The first load may have failed: the panel then shows the defaults. *)
Init ==
    /\ disk \in Written \cup {Defaults}
    /\ \/ known = disk /\ panel = disk
       \/ known = None /\ panel = Defaults
    /\ observed \in SUBSET Devices
    /\ tab = "Devices"
    /\ drafts = [d \in Devices |-> "absent"]
    /\ focus = None
    /\ asked = [device |-> None, dynamics |-> FALSE, all |-> FALSE]
    /\ trial = None
    /\ review = None
    /\ edits = 0

RowEdit(d) ==
    \/ \E selection \in {TRUE, FALSE, None} : Select(d, selection)
    \/ \E text \in Texts, blanks \in BOOLEAN : Type(d, text, blanks)
    \/ Leave(d)
    \/ ResetDevice(d)
    \/ ToggleInTray(d)

Edit ==
    \/ \E d \in Devices : RowEdit(d)
    \/ UsePreset \/ ApplyImport \/ ResetDynamics \/ RestoreAll
    \/ ToggleEnabled \/ ToggleIcon \/ (\E n \in Steps : SetStep(n))
    \/ \E kind \in Kinds : ToggleKind(kind)

Browse ==
    \/ Draw \/ SwitchTab
    \/ \E d \in Devices : FocusField(d) \/ AskResetDevice(d)
    \/ \E p \in Presets : TryPreset(p)
    \/ EndTrial \/ ChooseImport \/ CancelImport
    \/ \E which \in {"dynamics", "all"} : Ask(which) \/ Withdraw(which)

Next == Edit \/ Browse \/ WriteElsewhere \/ Reload \/ ListDevices

Spec == Init /\ [][Next]_vars

-------------------------------------------------------------------------------
(* Types; and whatever is edited, reset, imported or marked in whatever     *)
(* order, the rules stay ones the program would load again                  *)
(* (schema.rs:158-170): the file never holds two rules for one device.      *)
TypeOK ==
    /\ \A c \in {disk, panel} : ValidRules(c.rules) /\ c.preset \in Presets
    /\ known = None \/ ValidRules(known.rules)
    /\ observed \subseteq Devices
    /\ tab \in Tabs
    /\ drafts \in [Devices -> Texts \cup {"absent"}]
    /\ focus \in Devices \cup {None}
    /\ asked \in [device : Devices \cup {None}, dynamics : BOOLEAN, all : BOOLEAN]
    /\ trial = None \/ trial \in [committed : Presets, candidate : Presets]
    /\ review \in Importable \cup {None}
    /\ edits \in 0 .. MaxEdits

(* A step took over what somebody else had written, or was given up. *)
Overtaken == panel' \in {panel, disk}

(* d's own selector does not cover i. *)
Apart(i, d) == ~Matches(InheritingFor(d), i)

SameFor(i) ==
    /\ Profile(panel', "Mouse", i) = Profile(panel, "Mouse", i)
    /\ RuleValue(panel'.rules, i, "alias") = RuleValue(panel.rules, i, "alias")

(* An edit reaches what it was made on and nothing else.  One made in a     *)
(* device's row or mark changes nothing for a device that row does not      *)
(* cover and no other setting, although rules of several scopes add up; an  *)
(* import that was saved leaves exactly the file that was reviewed; and a   *)
(* preset that was on trial is saved only over the one it was tried         *)
(* against (diff.rs:69-71, recommendation.md:1357).                         *)
EditReachesItsTargetOnly ==
    [][~Overtaken =>
         /\ \A d \in Devices : RowEdit(d) =>
               /\ panel' = [panel EXCEPT !.rules = panel'.rules]
               /\ \A i \in Devices : Apart(i, d) => SameFor(i)
         /\ ApplyImport => panel' = review
         /\ UsePreset => panel.preset = trial.committed]_vars
================================================================================
