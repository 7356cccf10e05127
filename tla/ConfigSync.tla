------------------------------ MODULE ConfigSync ------------------------------
(***************************************************************************)
(* The one TOML configuration and everybody who holds a copy of it:        *)
(*   - the file, replaced atomically under an advisory lock (store.rs);    *)
(*   - the shared copy in each process, read on every scroll event, one in *)
(*     the settings process ("gui") and one in a headless runtime          *)
(*     ("daemon");                                                         *)
(*   - the widgets' copy and the file revision the window believes in;     *)
(* and the three channels that carry changes between them: the tray's      *)
(* single pending-action slot, the window's mailbox file and the reload    *)
(* socket of whichever process owns the event tap.                         *)
(*                                                                         *)
(* A configuration is the set of edits it contains: every edit touches a   *)
(* setting of its own, except that the edits in Toggles all flip the       *)
(* master switch.  Two configurations are equal iff their bytes are.       *)
(*                                                                         *)
(* The main thread of the settings process runs one handler at a time, but *)
(* command-line processes and the reload listener (a thread of the tap     *)
(* owner, which may be that same process) run between any two of its steps.*)
(***************************************************************************)
EXTENDS Integers, FiniteSets

CONSTANTS
    Seed,               \* the edits already in the file at start
    UiEdits,            \* edits the user makes in the window
    TrayEdits,          \* edits the user makes in the menu-bar menu
    CliEdits,           \* edits made by command-line processes, one each
    WindowOnlyEdits,    \* those that notify the window but not the tap owner
    Toggles,            \* edits that flip the master switch
    Owners,             \* the processes that may come to own the tap
    MaxClicksPerTick,   \* bound: menu actions between two ticks of the window
    SocketCapacity,     \* datagrams the reload socket holds
    MaxStarts,          \* bound: how often a tap owner starts
    MaxFaults           \* bound: how many file operations fail

Edits == Seed \cup UiEdits \cup TrayEdits \cup CliEdits
Configs == SUBSET Edits
Processes == {"gui", "daemon"}

ASSUME ConstantsAssumption ==
    /\ Owners \subseteq Processes
    /\ WindowOnlyEdits \subseteq CliEdits
    /\ UiEdits \cap TrayEdits = {}
    /\ (UiEdits \cup TrayEdits) \cap (CliEdits \cup Seed) = {}
    /\ CliEdits \cap Seed = {}
    /\ IsFiniteSet(Edits)
    /\ MaxClicksPerTick \in Nat /\ MaxStarts \in Nat /\ MaxFaults \in Nat
    /\ SocketCapacity \in Nat \ {0}

VARIABLES
    disk,        \* contents of config.toml
    shared,      \* per process: the copy its event tap reads
    widgets,     \* SettingsApp.config, the copy the widgets edit
    revision,    \* SettingsApp.config_revision: {} for None, {c} for Some(c)
    paused,      \* is the temporary pause of the window's process on?
    slot,        \* PENDING_ACTION of the tray
    mailbox,     \* is a request waiting in ui.activate?
    main,        \* what the window's main thread does next
    caller,      \* the handler that asked for a reload or a notification
    loaded,      \* configuration that handler read
    draft,       \* configuration a tray click is about to save
    clicks,      \* menu actions since the slot was last polled
    todo,        \* edits the user has not made yet
    owner,       \* holder of run.lock, or "none"
    listener,    \* what the owner's reload listener does next
    snapshot,    \* configuration the listener read and has not published
    datagrams,   \* reload requests in the socket
    cli,         \* per edit of CliEdits: progress of its process
    starts,      \* tap owners started so far
    faults       \* file operations failed so far

guiVars == <<widgets, revision, paused, slot, main, caller, loaded, draft,
             clicks, todo>>
tapVars == <<owner, listener, snapshot, starts>>
vars == <<disk, shared, mailbox, datagrams, cli, faults, guiVars, tapVars>>

(* The master switch is on in the default configuration. *)
Enabled(c) == Cardinality(c \cap Toggles) % 2 = 0

-------------------------------------------------------------------------------
(* Handing over.  A datagram sent while no endpoint is bound is refused,    *)
(* which the sender ignores; one that does not fit is dropped.              *)

EndpointBound == listener \notin {"off", "bind", "deaf"}

Notify ==
    datagrams' = IF EndpointBound /\ datagrams < SocketCapacity
                 THEN datagrams + 1 ELSE datagrams

Fail == faults < MaxFaults /\ faults' = faults + 1

SwitchIgnored(old, new) == UNCHANGED paused    \* mutant of SwitchMoved

(* handle_enabled_changed, called when the switch moved from old to new:    *)
(* switching off also ends a temporary pause.                               *)
SwitchMoved(old, new) ==
    paused' = (paused /\ ~(Enabled(old) /\ ~Enabled(new)))

SaveAnyway(c) ==    \* mutant of SaveIfUnchanged: no comparison
    disk' = c /\ revision' = {c} /\ UNCHANGED faults

(* ConfigStore::save_if_unchanged: compare and replace under the file lock. *)
SaveIfUnchanged(c) ==
    /\ revision = {disk}
    /\ disk' = c
    /\ revision' = {c}
    /\ UNCHANGED faults

(* The same call failing for a reason other than a stale revision: nothing  *)
(* was written, or the new file is in place but syncing its directory was   *)
(* refused.                                                                 *)
SaveFails(c) ==
    /\ Fail
    /\ revision # {}
    /\ disk' = disk \/ (revision = {disk} /\ disk' = c)
    /\ UNCHANGED revision

-------------------------------------------------------------------------------
(* The window's main thread.                                                *)

AfterHandler == [mailbox |-> "tray", click |-> "idle", failed |-> "frame",
                 save |-> "idle"]

(* The user edits a widget; SettingsApp::save commits the widgets' copy. *)
EditWidget(e) ==
    /\ main = "frame"
    /\ e \in todo \cap UiEdits
    /\ todo' = todo \ {e}
    /\ LET edited == widgets \cup {e} IN
       \/ /\ SaveIfUnchanged(edited)
          /\ widgets' = edited
          /\ SwitchMoved(widgets, edited)
          /\ main' = "publish"
          /\ UNCHANGED caller
       \/ /\ revision \notin {{}, {disk}}
          /\ widgets' = edited
          /\ main' = "load"
          /\ caller' = "save"
          /\ UNCHANGED <<disk, revision, paused, faults>>
       \/ /\ \/ SaveFails(edited)
             \/ revision = {} /\ UNCHANGED <<disk, revision, faults>>
          /\ widgets' = shared["gui"]
          /\ main' = "idle"
          /\ UNCHANGED <<paused, caller>>
    /\ UNCHANGED <<shared, slot, loaded, draft, clicks, mailbox, datagrams,
                   cli, tapVars>>

PublishSave ==
    /\ main = "publish"
    /\ shared' = [shared EXCEPT !["gui"] = widgets]
    /\ main' = "notify"
    /\ caller' = "save"
    /\ UNCHANGED <<disk, widgets, revision, paused, slot, loaded, draft,
                   clicks, todo, mailbox, datagrams, cli, faults, tapVars>>

(* What a caller of reload_external_config does when it returns Ok(false)   *)
(* or an error: only save puts the shared copy back into the widgets.       *)
NothingReloaded ==
    /\ widgets' = IF caller = "save" THEN shared["gui"] ELSE widgets
    /\ main' = AfterHandler[caller]

(* SettingsApp::reload_external_config, up to the comparison of revisions. *)
LoadExternal ==
    /\ main = "load"
    /\ \/ /\ revision # {disk}
          /\ loaded' = disk
          /\ main' = "adopt"
          /\ UNCHANGED <<widgets, faults>>
       \/ /\ NothingReloaded
          /\ Fail \/ (revision = {disk} /\ UNCHANGED faults)
          /\ UNCHANGED loaded
    /\ UNCHANGED <<disk, shared, revision, paused, slot, caller, draft,
                   clicks, todo, mailbox, datagrams, cli, tapVars>>

AdoptInWindowOnly ==    \* mutant of AdoptExternal: nothing is published
    /\ main = "adopt"
    /\ widgets' = loaded
    /\ revision' = {loaded}
    /\ SwitchMoved(widgets, loaded)
    /\ loaded' = {}
    /\ main' = "notify"
    /\ UNCHANGED <<disk, shared, slot, caller, draft, clicks, todo, mailbox,
                   datagrams, cli, faults, tapVars>>

AdoptExternal ==
    /\ main = "adopt"
    /\ widgets' = loaded
    /\ shared' = [shared EXCEPT !["gui"] = loaded]
    /\ revision' = {loaded}
    /\ SwitchMoved(widgets, loaded)
    /\ loaded' = {}
    /\ main' = "notify"
    /\ UNCHANGED <<disk, slot, caller, draft, clicks, todo, mailbox,
                   datagrams, cli, faults, tapVars>>

NotifyNobody ==    \* mutant of NotifyOwner
    /\ main = "notify"
    /\ main' = AfterHandler[caller]
    /\ UNCHANGED <<disk, shared, widgets, revision, paused, slot, caller,
                   loaded, draft, clicks, todo, mailbox, datagrams, cli,
                   faults, tapVars>>

NotifyOwner ==
    /\ main = "notify"
    /\ Notify
    /\ main' = AfterHandler[caller]
    /\ UNCHANGED <<disk, shared, widgets, revision, paused, slot, caller,
                   loaded, draft, clicks, todo, mailbox, cli, faults, tapVars>>

(* A tick of the window begins.  A pause that has run out is over. *)
BeginTick ==
    /\ main = "idle"
    /\ main' = "mailbox"
    /\ paused' \in {paused, FALSE}
    /\ UNCHANGED <<disk, shared, widgets, revision, slot, caller, loaded,
                   draft, clicks, todo, mailbox, datagrams, cli, faults,
                   tapVars>>

(* ActivationInbox::poll claims the request before it is acted upon. *)
PollMailbox ==
    /\ main = "mailbox"
    /\ mailbox' = FALSE
    /\ main' = IF mailbox THEN "load" ELSE "tray"
    /\ caller' = IF mailbox THEN "mailbox" ELSE caller
    /\ UNCHANGED <<disk, shared, widgets, revision, paused, slot, loaded,
                   draft, clicks, todo, datagrams, cli, faults, tapVars>>

DeviceActionOnly == {"device", "failed"}    \* mutant of ResyncActions

(* The tray actions after which the widgets are read back from the shared   *)
(* copy.                                                                    *)
ResyncActions == {"enabled", "device", "failed"}

(* tray::poll_action and the match on its result. *)
PollTray ==
    /\ main = "tray"
    /\ slot' = "none"
    /\ clicks' = 0
    /\ widgets' = IF slot \in ResyncActions THEN shared["gui"]
                                                ELSE widgets
    /\ IF slot = "enabled" THEN SwitchMoved(widgets, shared["gui"])
                           ELSE UNCHANGED paused
    /\ main' = IF slot = "failed" THEN "load" ELSE "frame"
    /\ caller' = IF slot = "failed" THEN "failed" ELSE caller
    /\ UNCHANGED <<disk, shared, revision, loaded, draft, todo, mailbox,
                   datagrams, cli, faults, tapVars>>

(* A frame without an edit.  The header's button pauses or resumes while    *)
(* the switch is on.                                                        *)
EndFrame ==
    /\ main = "frame"
    /\ main' = "idle"
    /\ paused' \in IF Enabled(widgets) THEN BOOLEAN ELSE {paused}
    /\ UNCHANGED <<disk, shared, widgets, revision, slot, caller,
                   loaded, draft, clicks, todo, mailbox, datagrams, cli,
                   faults, tapVars>>

(* A menu click on the switch or on a device: the shared copy changes      *)
(* first, then the new value is saved, and put back if that fails.          *)
ClickToggle(e) ==
    /\ main = "idle"
    /\ clicks < MaxClicksPerTick
    /\ e \in todo \cap TrayEdits
    /\ todo' = todo \ {e}
    /\ clicks' = clicks + 1
    /\ loaded' = shared["gui"]
    /\ draft' = shared["gui"] \cup {e}
    /\ shared' = [shared EXCEPT !["gui"] = @ \cup {e}]
    /\ main' = "click"
    /\ UNCHANGED <<disk, widgets, revision, paused, slot, caller, mailbox,
                   datagrams, cli, faults, tapVars>>

SaveClick ==
    /\ main = "click"
    /\ \/ /\ SaveIfUnchanged(draft)
          /\ slot' = IF Enabled(draft) # Enabled(loaded) THEN "enabled"
                                                         ELSE "device"
          /\ loaded' = {}
          /\ main' = "notify"
          /\ caller' = "click"
       \/ /\ \/ SaveFails(draft)
             \/ revision # {disk} /\ UNCHANGED <<disk, revision, faults>>
          /\ main' = "restore"
          /\ UNCHANGED <<slot, loaded, caller>>
    /\ draft' = {}
    /\ UNCHANGED <<shared, widgets, paused, clicks, todo, mailbox,
                   datagrams, cli, tapVars>>

RestoreNothing ==    \* mutant of RestoreShared
    /\ main = "restore"
    /\ loaded' = {}
    /\ slot' = "failed"
    /\ main' = "idle"
    /\ UNCHANGED <<disk, shared, widgets, revision, paused, caller, draft,
                   clicks, todo, mailbox, datagrams, cli, faults, tapVars>>

RestoreShared ==
    /\ main = "restore"
    /\ shared' = [shared EXCEPT !["gui"] = loaded]
    /\ loaded' = {}
    /\ slot' = "failed"
    /\ main' = "idle"
    /\ UNCHANGED <<disk, widgets, revision, paused, caller, draft, clicks,
                   todo, mailbox, datagrams, cli, faults, tapVars>>

(* Open Settings, the debug console, pause and resume only take the slot;   *)
(* the menu offers to pause while the shared copy is switched on.           *)
ClickOther ==
    /\ main = "idle"
    /\ clicks < MaxClicksPerTick
    /\ clicks' = clicks + 1
    /\ slot' = "other"
    /\ paused' \in {paused, FALSE, Enabled(shared["gui"])}
    /\ UNCHANGED <<disk, shared, widgets, revision, main, caller, loaded,
                   draft, todo, mailbox, datagrams, cli, faults, tapVars>>

-------------------------------------------------------------------------------
(* A command-line process: ConfigStore::update, then the owner's socket,    *)
(* then the window's mailbox.  A command that fails notifies nobody.        *)

CliCommit(e) ==
    /\ cli[e] = "ready"
    /\ \/ /\ disk' = disk \cup {e}
          /\ cli' = [cli EXCEPT ![e] = IF e \in WindowOnlyEdits THEN "window"
                                                                ELSE "tap"]
          /\ UNCHANGED faults
       \/ /\ Fail
          /\ disk' \in {disk, disk \cup {e}}
          /\ cli' = [cli EXCEPT ![e] = "failed"]
    /\ UNCHANGED <<shared, mailbox, datagrams, guiVars, tapVars>>

CliNotifyTap(e) ==
    /\ cli[e] = "tap"
    /\ Notify
    /\ cli' = [cli EXCEPT ![e] = "window"]
    /\ UNCHANGED <<disk, shared, mailbox, faults, guiVars, tapVars>>

CliForgetsWindow(e) ==    \* mutant of CliNotifyWindow
    /\ cli[e] = "window"
    /\ cli' = [cli EXCEPT ![e] = "done"]
    /\ UNCHANGED <<disk, shared, mailbox, datagrams, faults, guiVars, tapVars>>

CliNotifyWindow(e) ==
    /\ cli[e] = "window"
    /\ mailbox' = TRUE
    /\ cli' = [cli EXCEPT ![e] = "done"]
    /\ UNCHANGED <<disk, shared, datagrams, faults, guiVars, tapVars>>

-------------------------------------------------------------------------------
(* The tap owner and its reload listener.                                   *)

(* A process takes run.lock.  A headless runtime reads the file first and   *)
(* declines when the switch is off; the window starts the tap with the      *)
(* copy it already shares.                                                  *)
StartTap(p) ==
    /\ owner = "none"
    /\ p \in Owners
    /\ starts < MaxStarts
    /\ IF p = "daemon" THEN Enabled(disk) ELSE Enabled(widgets)
    /\ shared' = IF p = "daemon" THEN [shared EXCEPT ![p] = disk] ELSE shared
    /\ owner' = p
    /\ listener' = "bind"
    /\ starts' = starts + 1
    /\ UNCHANGED <<disk, snapshot, mailbox, datagrams, cli, faults, guiVars>>

BindWithoutReload ==    \* mutant of BindSocket: no initial reload
    /\ listener = "bind"
    /\ datagrams' = 0
    /\ listener' = "receive"
    /\ UNCHANGED <<disk, shared, owner, snapshot, starts, mailbox, cli,
                   faults, guiVars>>

(* The endpoint is bound and the initial reload follows, or it cannot be    *)
(* bound and the tap runs on without hearing of external edits.             *)
BindSocket ==
    /\ listener = "bind"
    /\ datagrams' = 0
    /\ \/ listener' = "load" /\ UNCHANGED faults
       \/ listener' = "deaf" /\ Fail
    /\ UNCHANGED <<disk, shared, owner, snapshot, starts, mailbox, cli,
                   guiVars>>

(* reload_config: the file is read under its lock, the result is published  *)
(* after that lock is released.                                             *)
LoadReload ==
    /\ listener = "load"
    /\ \/ /\ snapshot' = disk
          /\ listener' = "publish"
          /\ UNCHANGED faults
       \/ /\ Fail
          /\ snapshot' = {}
          /\ listener' = "receive"
    /\ UNCHANGED <<disk, shared, owner, starts, mailbox, datagrams, cli,
                   guiVars>>

PublishReload ==
    /\ listener = "publish"
    /\ shared' = [shared EXCEPT ![owner] = snapshot]
    /\ snapshot' = {}
    /\ listener' = "receive"
    /\ UNCHANGED <<disk, owner, starts, mailbox, datagrams, cli,
                   faults, guiVars>>

Receive ==
    /\ listener = "receive"
    /\ datagrams > 0
    /\ datagrams' = datagrams - 1
    /\ listener' = "load"
    /\ UNCHANGED <<disk, shared, owner, snapshot, starts, mailbox, cli,
                   faults, guiVars>>

(* Receiving fails for good: the listener thread ends and so does its socket.*)
ListenerEnds ==
    /\ listener = "receive"
    /\ Fail
    /\ listener' = "deaf"
    /\ datagrams' = 0
    /\ UNCHANGED <<disk, shared, owner, snapshot, starts, mailbox, cli, guiVars>>

(* The owner lets go: the window's tap thread joins its listener first, a   *)
(* headless runtime may be killed anywhere.                                 *)
StopTap ==
    /\ owner # "none"
    /\ owner = "gui" => listener \in {"receive", "deaf"}
    /\ owner' = "none"
    /\ listener' = "off"
    /\ snapshot' = {}
    /\ datagrams' = 0
    /\ UNCHANGED <<disk, shared, starts, mailbox, cli, faults, guiVars>>

-------------------------------------------------------------------------------
(* SettingsApp::load may fail to read the file; the window then shows the   *)
(* defaults and holds no revision.                                          *)
Init ==
    /\ disk = Seed
    /\ \/ widgets = Seed /\ revision = {Seed} /\ faults = 0
       \/ widgets = {} /\ revision = {} /\ faults = 1 /\ MaxFaults > 0
    /\ shared = [p \in Processes |-> IF p = "gui" THEN widgets ELSE {}]
    /\ paused = FALSE
    /\ slot = "none" /\ clicks = 0 /\ mailbox = FALSE
    /\ main = "idle" /\ caller = "mailbox"
    /\ loaded = {} /\ draft = {}
    /\ todo = UiEdits \cup TrayEdits
    /\ owner = "none" /\ listener = "off" /\ snapshot = {}
    /\ datagrams = 0 /\ starts = 0
    /\ cli = [e \in CliEdits |-> "ready"]

(* What the processes do by themselves once started. *)
MainStep ==
    \/ BeginTick \/ PollMailbox \/ PollTray \/ EndFrame
    \/ PublishSave \/ LoadExternal \/ AdoptExternal \/ NotifyOwner
    \/ SaveClick \/ RestoreShared

CliStep(e) == CliNotifyTap(e) \/ CliNotifyWindow(e)

ListenerStep == BindSocket \/ LoadReload \/ PublishReload \/ Receive

(* What users and the system decide. *)
UserStep ==
    \/ \E e \in UiEdits : EditWidget(e)
    \/ \E e \in TrayEdits : ClickToggle(e)
    \/ ClickOther
    \/ \E e \in CliEdits : CliCommit(e)
    \/ \E p \in Processes : StartTap(p)
    \/ ListenerEnds \/ StopTap

Next == MainStep \/ ListenerStep \/ UserStep \/ \E e \in CliEdits : CliStep(e)

Spec == Init /\ [][Next]_vars

(* The window ticks at least every 250 ms, a thread that was not killed     *)
(* runs, a command that has committed goes on to notify.  Nobody is obliged *)
(* to make an edit, start a tap owner or end one.                           *)
FairSpec ==
    /\ Spec
    /\ WF_vars(MainStep)
    /\ WF_vars(ListenerStep)
    /\ \A e \in CliEdits : WF_vars(CliStep(e))

-------------------------------------------------------------------------------
TypeOK ==
    /\ disk \in Configs
    /\ shared \in [Processes -> Configs]
    /\ widgets \in Configs
    /\ revision \in SUBSET Configs
    /\ paused \in BOOLEAN
    /\ slot \in {"none", "enabled", "device", "failed", "other"}
    /\ mailbox \in BOOLEAN
    /\ main \in {"idle", "mailbox", "tray", "frame", "load", "adopt",
                 "publish", "notify", "click", "restore"}
    /\ caller \in {"mailbox", "failed", "save", "click"}
    /\ loaded \in Configs
    /\ draft \in Configs
    /\ clicks \in 0..MaxClicksPerTick
    /\ todo \in SUBSET (UiEdits \cup TrayEdits)
    /\ owner \in Owners \cup {"none"}
    /\ listener \in {"off", "bind", "load", "publish", "receive", "deaf"}
    /\ snapshot \in Configs
    /\ datagrams \in 0..SocketCapacity
    /\ cli \in [CliEdits -> {"ready", "tap", "window", "done", "failed"}]
    /\ starts \in 0..MaxStarts
    /\ faults \in 0..MaxFaults

(* No writer ever drops an edit that was committed before it, neither by    *)
(* saving over it (store.rs, save_if_unchanged: "cooperating GUI/CLI        *)
(* writers cannot race between compare and replace") nor by saving from a   *)
(* copy older than the revision it presents.                                *)
NoLostEdit == [][disk \subseteq disk']_vars

(* Once every notification has been consumed and nobody is in the middle of *)
(* a step, the running tap obeys the file, and the window shows it and      *)
(* holds its revision: no notification is lost between a commit and the     *)
(* copies it must reach, whatever starts or stops in between ("Close the    *)
(* only startup race", ConfigReloadListener::start_at).                     *)
Quiet ==
    /\ main = "idle" /\ slot = "none" /\ ~mailbox
    /\ listener \in {"off", "receive"} /\ datagrams = 0
    /\ \A e \in CliEdits : cli[e] \in {"ready", "done", "failed"}

LiveAgreesWhenQuiet == Quiet /\ owner # "none" => shared[owner] = disk

WindowAgreesWhenQuiet ==
    Quiet /\ faults = 0 => widgets = disk /\ revision = {disk}

(* "so neither UI surface can overwrite a newer CLI write", the comment of  *)
(* SettingsApp.config_revision.                                             *)
CliWriteKept == [][disk \cap CliEdits \subseteq disk']_vars

(* Every save is made from a copy of exactly the revision it presents: the  *)
(* copy a tray click starts from, and the widgets once the slot is empty.   *)
(* A window that could not read the file has no revision and never saves.   *)
CopiesFollowRevision ==
    \A r \in revision :
        /\ main \notin {"publish", "click", "restore"} => shared["gui"] = r
        /\ main \in {"click", "restore"} => loaded = r
        /\ slot \notin {"enabled", "device"}
              /\ ~(main \in {"load", "adopt"} /\ caller = "save")
           => widgets = r

(* A menu action is in the slot only until the next tick takes it out, and  *)
(* no second one can have displaced it.                                     *)
SlotHoldsLastClick ==
    /\ slot # "none" => clicks > 0
    /\ main \in {"click", "restore"} => clicks > 0
    /\ main \in {"frame", "publish", "click", "restore"} => slot = "none"
    /\ main \in {"load", "adopt", "notify"} /\ caller = "failed"
       => slot = "none"

(* An edit that is still to come is in no committed configuration. *)
EditsAreNew ==
    /\ todo \cap disk = {}
    /\ \A e \in CliEdits : cli[e] = "ready" => e \notin disk
    /\ main = "click" => /\ shared["gui"] = draft
                         /\ \E e \in TrayEdits \ (disk \cup todo) :
                               draft = loaded \cup {e}

(* What a running headless tap obeys, and what its listener is about to     *)
(* publish, was committed, in this order.                                   *)
LiveBehindDisk ==
    /\ shared["daemon"] \subseteq disk
    /\ listener = "publish" => /\ shared["daemon"] \subseteq snapshot
                               /\ snapshot \subseteq disk

(* The four together survive every step while the window does not own the   *)
(* tap and sees every menu action.                                          *)
CopiesInOrder ==
    /\ CopiesFollowRevision
    /\ SlotHoldsLastClick
    /\ EditsAreNew
    /\ LiveBehindDisk

(* "Compare with the state the UI lifecycle last processed", or the reload  *)
(* would "hide a real enable/disable transition and skip lifecycle effects" *)
(* (reload_external_config): whoever switches off, the pause ends with it.  *)
PauseEndsWithSwitch ==
    main = "idle" /\ slot = "none" /\ ~Enabled(widgets) => ~paused

(* The switch the lifecycle was last told of, which is not the one of an    *)
(* edit that turned out to be in conflict and is about to be dropped.       *)
InConflict == main \in {"load", "adopt"} /\ caller = "save"

LifecycleEnabled == Enabled(IF InConflict THEN shared["gui"] ELSE widgets)

PauseFollowsSwitch == paused => LifecycleEnabled

(* In one way only does a pause come to outlive the switch: the file that   *)
(* replaces an edit in conflict is off, and so was the edit.  No other      *)
(* order of clicks, edits, commands, reloads, failures and rollbacks hides  *)
(* that the switch went off.                                                *)
OffHiddenByConflict ==
    /\ AdoptExternal /\ InConflict
    /\ Enabled(shared["gui"]) /\ ~Enabled(widgets) /\ ~Enabled(loaded)

PauseOutlivesOnlyByConflict ==
    [][PauseFollowsSwitch /\ ~PauseFollowsSwitch' => OffHiddenByConflict]_vars

(* The running tap ends up with what is stored, and so does the window as   *)
(* long as no file operation fails.                                         *)
LiveConverges == <>[](owner # "none" => shared[owner] = disk)
WindowConverges == <>[](faults = 0 => widgets = disk /\ revision = {disk})

(* Seen from outside, a headless runtime obeys ConfigRegister. *)
Register == INSTANCE ConfigRegister WITH stored <- disk,
                                         live <- shared["daemon"]
ImplementsRegister == Register!Spec
===============================================================================
