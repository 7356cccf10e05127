--------------------------- MODULE ConfigSyncProofs ---------------------------
(***************************************************************************)
(* Theorems about ConfigSync, for every set of edits and every bound.      *)
(* Always: types.  As long as the window's process does not own the tap    *)
(* and the tray's slot sees one menu action per tick: the file and the     *)
(* headless runtime implement ConfigRegister, so no committed edit is ever *)
(* lost; a pause ends with the switch; a quiet window shows the file.  As  *)
(* long as nothing fails and every command notifies the tap's owner: a     *)
(* quiet tap obeys the file, whoever owns it.                              *)
(***************************************************************************)
EXTENDS ConfigSync, TLAPS

(* Every variable keeps its type, whoever owns the tap. *)
THEOREM TypeCorrect == Spec => []TypeOK
<1>1. Init => TypeOK
  <2> SUFFICES ASSUME Init PROVE TypeOK
    OBVIOUS
  <2> USE ConstantsAssumption DEF ConstantsAssumption, Init
  <2>1. Seed \in Configs /\ {} \in Configs
    BY DEF Configs, Edits
  <2>2. widgets \in Configs /\ revision \in SUBSET Configs /\ faults \in 0..MaxFaults
    BY <2>1
  <2>3. shared \in [Processes -> Configs]
    BY <2>1, <2>2
  <2>4. clicks \in 0..MaxClicksPerTick /\ datagrams \in 0..SocketCapacity
        /\ starts \in 0..MaxStarts
    OBVIOUS
  <2>5. cli \in [CliEdits -> {"ready", "tap", "window", "done", "failed"}]
    OBVIOUS
  <2>6. todo \in SUBSET (UiEdits \cup TrayEdits) /\ owner \in Owners \cup {"none"}
    OBVIOUS
  <2>7. paused \in BOOLEAN /\ mailbox \in BOOLEAN
    OBVIOUS
  <2> QED
    BY <2>1, <2>2, <2>3, <2>4, <2>5, <2>6, <2>7 DEF TypeOK
<1>2. TypeOK /\ [Next]_vars => TypeOK'
  <2> SUFFICES ASSUME TypeOK, [Next]_vars PROVE TypeOK'
    OBVIOUS
  <2> USE ConstantsAssumption DEF TypeOK, guiVars, tapVars
  <2> Configs = SUBSET Edits
    BY DEF Configs
  <2>0. Processes = {"gui", "daemon"}
    BY DEF Processes
  <2>1. CASE BeginTick
    BY <2>0, <2>1 DEF BeginTick
  <2>2. CASE PollMailbox
    BY <2>0, <2>2 DEF PollMailbox
  <2>3. CASE PollTray
    <3>1. paused' \in BOOLEAN
      BY <2>3, Zenon DEF PollTray, SwitchMoved
    <3> QED
      BY <2>0, <2>3, <3>1 DEF PollTray, ResyncActions
  <2>4. CASE EndFrame
    BY <2>0, <2>4 DEF EndFrame
  <2>5. CASE PublishSave
    BY <2>0, <2>5 DEF PublishSave
  <2>6. CASE LoadExternal
    BY <2>0, <2>6 DEF LoadExternal, NothingReloaded, Fail, AfterHandler
  <2>7. CASE AdoptExternal
    BY <2>0, <2>7 DEF AdoptExternal, SwitchMoved
  <2>8. CASE NotifyOwner
    BY <2>0, <2>8 DEF NotifyOwner, Notify, EndpointBound, AfterHandler
  <2>9. CASE SaveClick
    BY <2>0, <2>9 DEF SaveClick, SaveIfUnchanged, SaveFails, Fail
  <2>10. CASE RestoreShared
    BY <2>0, <2>10 DEF RestoreShared
  <2>11. CASE BindSocket
    BY <2>0, <2>11 DEF BindSocket, Fail
  <2>12. CASE LoadReload
    BY <2>0, <2>12 DEF LoadReload, Fail
  <2>13. CASE PublishReload
    BY <2>0, <2>13 DEF PublishReload
  <2>14. CASE Receive
    BY <2>0, <2>14 DEF Receive
  <2>15. CASE ClickOther
    <3>1. paused' \in BOOLEAN
      BY <2>15 DEF ClickOther, Enabled
    <3> QED
      BY <2>15, <3>1 DEF ClickOther
  <2>16. CASE StopTap
    BY <2>0, <2>16 DEF StopTap
  <2>17. ASSUME NEW e \in UiEdits, EditWidget(e) PROVE TypeOK'
    <3>1. paused' \in BOOLEAN
      BY <2>17, Zenon DEF EditWidget, SwitchMoved
    <3>2. widgets \cup {e} \in Configs /\ shared["gui"] \in Configs
      BY <2>0 DEF Edits
    <3>3. /\ disk' \in Configs /\ widgets' \in Configs
          /\ revision' \in SUBSET Configs
          /\ faults' \in 0..MaxFaults
      BY <2>17, <3>2 DEF EditWidget, SaveIfUnchanged, SaveFails, Fail
    <3>4. /\ main' \in {"publish", "load", "idle"}
          /\ caller' \in {"mailbox", "failed", "save", "click"}
      BY <2>17 DEF EditWidget
    <3> QED
      BY <2>17, <3>1, <3>3, <3>4 DEF EditWidget
  <2>18. ASSUME NEW e \in TrayEdits, ClickToggle(e) PROVE TypeOK'
    BY <2>0, <2>18 DEF ClickToggle, Edits
  <2>19. ASSUME NEW e \in CliEdits, CliCommit(e) PROVE TypeOK'
    <3>1. disk \cup {e} \in Configs
      BY DEF Edits
    <3>2. disk' \in Configs /\ faults' \in 0..MaxFaults
      BY <2>19, <3>1 DEF CliCommit, Fail
    <3>3. PICK s \in {"tap", "window", "failed"} :
             cli' = [cli EXCEPT ![e] = s]
      BY <2>19 DEF CliCommit
    <3> QED
      BY <2>19, <3>2, <3>3 DEF CliCommit
  <2>20. ASSUME NEW e \in CliEdits, CliNotifyTap(e) PROVE TypeOK'
    BY <2>0, <2>20 DEF CliNotifyTap, Notify, EndpointBound
  <2>21. ASSUME NEW e \in CliEdits, CliNotifyWindow(e) PROVE TypeOK'
    BY <2>0, <2>21 DEF CliNotifyWindow
  <2>22. ASSUME NEW p \in Processes, StartTap(p) PROVE TypeOK'
    BY <2>0, <2>22 DEF StartTap
  <2>23. CASE ListenerEnds
    BY <2>0, <2>23 DEF ListenerEnds, Fail
  <2>24. CASE UNCHANGED vars
    BY <2>24 DEF vars
  <2> QED
    BY <2>1, <2>2, <2>3, <2>4, <2>5, <2>6, <2>7, <2>8, <2>9, <2>10, <2>11,
       <2>12, <2>13, <2>14, <2>15, <2>16, <2>17, <2>18, <2>19, <2>20, <2>21,
       <2>22, <2>23, <2>24
    DEF Next, MainStep, CliStep, ListenerStep, UserStep
<1> QED
  BY <1>1, <1>2, PTL DEF Spec

-------------------------------------------------------------------------------
(* The tap is only ever owned by a headless runtime, and the window's tick  *)
(* comes round before a second menu action.                                 *)
Headless == "gui" \notin Owners /\ MaxClicksPerTick = 1

(* One step of the system keeps every copy in order. *)
LEMMA CopiesInOrderStep ==
  ASSUME Headless, TypeOK, CopiesInOrder, [Next]_vars
  PROVE  CopiesInOrder'
<1> USE ConstantsAssumption
    DEF Headless, CopiesInOrder, CopiesFollowRevision, SlotHoldsLastClick,
        EditsAreNew, LiveBehindDisk, guiVars, tapVars
<1>0. Processes = {"gui", "daemon"}
  BY DEF Processes
<1>a. /\ shared \in [Processes -> Configs] /\ clicks \in 0..MaxClicksPerTick
      /\ cli \in [CliEdits -> {"ready", "tap", "window", "done", "failed"}]
      /\ caller \in {"mailbox", "failed", "save", "click"}
      /\ todo \subseteq UiEdits \cup TrayEdits
      /\ owner # "gui"
  BY DEF TypeOK
<1>1. CASE BeginTick
  BY <1>0, <1>a, <1>1 DEF BeginTick
<1>2. CASE PollMailbox
  BY <1>0, <1>a, <1>2 DEF PollMailbox
<1>3. CASE PollTray
  BY <1>0, <1>a, <1>3 DEF PollTray, ResyncActions
<1>4. CASE EndFrame
  BY <1>0, <1>a, <1>4 DEF EndFrame
<1>5. CASE PublishSave
  BY <1>0, <1>a, <1>5 DEF PublishSave
<1>6. CASE LoadExternal
  BY <1>0, <1>a, <1>6 DEF LoadExternal, NothingReloaded, AfterHandler
<1>7. CASE AdoptExternal
  BY <1>0, <1>a, <1>7 DEF AdoptExternal, OffHiddenByConflict
<1>8. CASE NotifyOwner
  BY <1>0, <1>a, <1>8 DEF NotifyOwner, AfterHandler
<1>9. CASE SaveClick
  BY <1>0, <1>a, <1>9 DEF SaveClick, SaveIfUnchanged, SaveFails
<1>10. CASE RestoreShared
  BY <1>0, <1>a, <1>10 DEF RestoreShared
<1>11. CASE BindSocket
  BY <1>0, <1>a, <1>11 DEF BindSocket
<1>12. CASE LoadReload
  BY <1>0, <1>a, <1>12 DEF LoadReload
<1>13. CASE PublishReload
  BY <1>0, <1>a, <1>13 DEF PublishReload
<1>14. CASE Receive
  BY <1>0, <1>a, <1>14 DEF Receive
<1>15. CASE ClickOther
  BY <1>0, <1>a, <1>15 DEF ClickOther
<1>16. CASE StopTap
  BY <1>0, <1>a, <1>16 DEF StopTap
<1>17. ASSUME NEW e \in UiEdits, EditWidget(e) PROVE CopiesInOrder'
  BY <1>0, <1>a, <1>17 DEF EditWidget, SaveIfUnchanged, SaveFails
<1>18. ASSUME NEW e \in TrayEdits, ClickToggle(e) PROVE CopiesInOrder'
  BY <1>0, <1>a, <1>18 DEF ClickToggle
<1>19. ASSUME NEW e \in CliEdits, CliCommit(e) PROVE CopiesInOrder'
  BY <1>0, <1>a, <1>19 DEF CliCommit
<1>20. ASSUME NEW e \in CliEdits, CliNotifyTap(e) PROVE CopiesInOrder'
  BY <1>0, <1>a, <1>20 DEF CliNotifyTap
<1>21. ASSUME NEW e \in CliEdits, CliNotifyWindow(e) PROVE CopiesInOrder'
  BY <1>0, <1>a, <1>21 DEF CliNotifyWindow
<1>22. ASSUME NEW p \in Processes, StartTap(p) PROVE CopiesInOrder'
  BY <1>0, <1>a, <1>22 DEF StartTap
<1>23. CASE ListenerEnds
  BY <1>0, <1>a, <1>23 DEF ListenerEnds
<1>24. CASE UNCHANGED vars
  BY <1>24 DEF vars
<1> QED
  BY <1>1, <1>2, <1>3, <1>4, <1>5, <1>6, <1>7, <1>8, <1>9, <1>10, <1>11,
     <1>12, <1>13, <1>14, <1>15, <1>16, <1>17, <1>18, <1>19, <1>20, <1>21,
     <1>22, <1>23, <1>24
  DEF Next, MainStep, CliStep, ListenerStep, UserStep

(* The copies stay in order for ever. *)
THEOREM CopiesStayInOrder ==
  ASSUME Headless
  PROVE  Spec => []CopiesInOrder
<1>1. Init => CopiesInOrder
  BY ConstantsAssumption
  DEF Init, CopiesInOrder, CopiesFollowRevision, SlotHoldsLastClick,
      EditsAreNew, LiveBehindDisk, Processes
<1>2. TypeOK /\ CopiesInOrder /\ [Next]_vars => CopiesInOrder'
  BY CopiesInOrderStep
<1> QED
  BY <1>1, <1>2, TypeCorrect, PTL DEF Spec

(* Every step of the system is one step of the register: a commit adds one  *)
(* edit to the file and leaves the live copy alone, a reload moves the live *)
(* copy forward, anything else leaves both.                                 *)
LEMMA RegisterStep ==
  ASSUME Headless, TypeOK, CopiesInOrder, [Next]_vars
  PROVE  [Register!Next]_<<disk, shared["daemon"]>>
<1> USE ConstantsAssumption DEF guiVars, tapVars
<1>0. /\ Processes = {"gui", "daemon"}
      /\ shared \in [Processes -> Configs]
      /\ owner # "gui"
      /\ disk \in Configs /\ snapshot \in Configs
  BY DEF Processes, TypeOK, Headless
<1>1. ASSUME NEW e \in Edits, e \notin disk, disk' = disk \cup {e},
             UNCHANGED shared
      PROVE  Register!Next
  BY <1>1 DEF Register!Next, Register!Commit
<1>2. ASSUME disk' = disk, UNCHANGED shared
      PROVE  UNCHANGED <<disk, shared["daemon"]>>
  BY <1>2
<1>3. ASSUME NEW e \in UiEdits, EditWidget(e)
      PROVE  [Register!Next]_<<disk, shared["daemon"]>>
  <2>1. e \in Edits /\ e \notin disk /\ UNCHANGED shared
    BY <1>3 DEF EditWidget, Edits, CopiesInOrder, EditsAreNew
  <2>2. revision = {disk} => widgets = disk
    BY <1>3 DEF EditWidget, CopiesInOrder, CopiesFollowRevision,
                SlotHoldsLastClick
  <2>3. disk' = disk \/ disk' = disk \cup {e}
    BY <1>3, <2>2 DEF EditWidget, SaveIfUnchanged, SaveFails
  <2> QED
    BY <1>1, <1>2, <2>1, <2>3
<1>4. CASE SaveClick
  <2>1. PICK e \in TrayEdits \ disk : draft = loaded \cup {e}
    BY <1>4 DEF SaveClick, CopiesInOrder, EditsAreNew
  <2>2. e \in Edits /\ UNCHANGED shared
    BY <1>4 DEF SaveClick, Edits
  <2>3. revision = {disk} => loaded = disk
    BY <1>4 DEF SaveClick, CopiesInOrder, CopiesFollowRevision
  <2>4. disk' = disk \/ disk' = disk \cup {e}
    BY <1>4, <2>1, <2>3 DEF SaveClick, SaveIfUnchanged, SaveFails
  <2> QED
    BY <1>1, <1>2, <2>1, <2>2, <2>4
<1>5. ASSUME NEW e \in CliEdits, CliCommit(e)
      PROVE  [Register!Next]_<<disk, shared["daemon"]>>
  <2>1. e \in Edits /\ e \notin disk /\ UNCHANGED shared
    BY <1>5 DEF CliCommit, Edits, CopiesInOrder, EditsAreNew
  <2>2. disk' = disk \/ disk' = disk \cup {e}
    BY <1>5 DEF CliCommit
  <2> QED
    BY <1>1, <1>2, <2>1, <2>2
<1>6. ASSUME shared'["daemon"] \subseteq disk, disk' = disk,
             shared["daemon"] \subseteq shared'["daemon"]
      PROVE  Register!Next
  BY <1>6 DEF Register!Next, Register!PickUp
<1>7. CASE PublishReload
  <2>1. shared'["daemon"] \in {shared["daemon"], snapshot} /\ disk' = disk
    BY <1>0, <1>7 DEF PublishReload
  <2> QED
    BY <1>6, <1>7, <2>1 DEF PublishReload, CopiesInOrder, LiveBehindDisk
<1>8. ASSUME NEW p \in Processes, StartTap(p)
      PROVE  [Register!Next]_<<disk, shared["daemon"]>>
  <2>1. shared'["daemon"] \in {shared["daemon"], disk} /\ disk' = disk
    BY <1>0, <1>8 DEF StartTap
  <2> QED
    BY <1>6, <2>1 DEF CopiesInOrder, LiveBehindDisk
<1>9. ASSUME PublishSave \/ AdoptExternal \/ RestoreShared
             \/ \E e \in TrayEdits : ClickToggle(e)
      PROVE  UNCHANGED <<disk, shared["daemon"]>>
  BY <1>0, <1>9 DEF PublishSave, AdoptExternal, RestoreShared, ClickToggle
<1>10. ASSUME \/ BeginTick \/ PollMailbox \/ PollTray \/ EndFrame
              \/ LoadExternal \/ NotifyOwner \/ BindSocket \/ LoadReload
              \/ Receive \/ ListenerEnds \/ ClickOther \/ StopTap
              \/ UNCHANGED vars
              \/ \E e \in CliEdits : CliNotifyTap(e) \/ CliNotifyWindow(e)
       PROVE  UNCHANGED <<disk, shared["daemon"]>>
  BY <1>2, <1>10
  DEF BeginTick, PollMailbox, PollTray, EndFrame, LoadExternal, NotifyOwner,
      BindSocket, LoadReload, Receive, ListenerEnds, ClickOther, StopTap,
      CliNotifyTap, CliNotifyWindow, vars
<1> QED
  BY <1>3, <1>4, <1>5, <1>7, <1>8, <1>9, <1>10
  DEF Next, MainStep, CliStep, ListenerStep, UserStep

(* The file and a headless runtime's copy are a ConfigRegister: every       *)
(* commit extends all earlier ones by one edit, and the tap only moves      *)
(* forward through committed configurations.                                *)
THEOREM HeadlessImplementsRegister ==
  ASSUME Headless
  PROVE  Spec => ImplementsRegister
<1>1. Init => Register!Init
  BY ConstantsAssumption DEF Init, Register!Init, Edits, Processes
<1>2. TypeOK /\ CopiesInOrder /\ [Next]_vars
      => [Register!Next]_<<disk, shared["daemon"]>>
  BY RegisterStep
<1> QED
  BY <1>1, <1>2, TypeCorrect, CopiesStayInOrder, PTL
  DEF Spec, ImplementsRegister, Register!Spec

(* So no edit that was ever committed disappears from the file. *)
THEOREM NoEditIsLost ==
  ASSUME Headless
  PROVE  Spec => NoLostEdit
<1>1. [Register!Next]_<<disk, shared["daemon"]>> => [disk \subseteq disk']_vars
  BY DEF Register!Next, Register!Commit, Register!PickUp
<1>2. TypeOK /\ CopiesInOrder /\ [Next]_vars => [disk \subseteq disk']_vars
  BY <1>1, RegisterStep
<1> QED
  BY <1>2, TypeCorrect, CopiesStayInOrder, PTL DEF Spec, NoLostEdit

-------------------------------------------------------------------------------
(* Where the switch is known: the widgets and the shared copy agree on it    *)
(* until a click or a save has changed one of them, an "enabled" waits in    *)
(* the slot, or the widgets hold an edit that is in conflict.                *)
SwitchSteady ==
    /\ main \in {"click", "restore"} => (Enabled(loaded) <=> Enabled(widgets))
    /\ main \notin {"click", "restore", "publish"} /\ ~InConflict /\ slot # "enabled" =>
         (Enabled(shared["gui"]) <=> Enabled(widgets))
    /\ InConflict => slot = "none"

(* Every step keeps track of the switch, and ends a pause with it or is the  *)
(* one that does not. *)
SwitchGoal ==
    SwitchSteady' /\ (PauseFollowsSwitch => PauseFollowsSwitch' \/ OffHiddenByConflict)

LEMMA SwitchStep ==
  ASSUME Headless, TypeOK, CopiesInOrder, SwitchSteady, [Next]_vars
  PROVE  SwitchGoal
<1> USE ConstantsAssumption
    DEF Headless, SwitchSteady, SwitchGoal, PauseFollowsSwitch, LifecycleEnabled, InConflict,
        CopiesInOrder, SlotHoldsLastClick, SwitchMoved, guiVars, tapVars
<1>0. Processes = {"gui", "daemon"}
  BY DEF Processes
<1>a. /\ shared \in [Processes -> Configs] /\ clicks \in 0..MaxClicksPerTick
      /\ caller \in {"mailbox", "failed", "save", "click"}
      /\ paused \in BOOLEAN /\ owner # "gui"
  BY DEF TypeOK
<1>1. CASE BeginTick
  <2>1. paused' => paused
    BY <1>a, <1>1 DEF BeginTick
  <2> QED
    BY <1>0, <1>a, <1>1, <2>1 DEF BeginTick
<1>2. CASE PollMailbox
  BY <1>0, <1>a, <1>2 DEF PollMailbox
<1>3. CASE PollTray
  BY <1>0, <1>a, <1>3 DEF PollTray, ResyncActions
<1>4. CASE EndFrame
  BY <1>0, <1>a, <1>4 DEF EndFrame
<1>5. CASE PublishSave
  BY <1>0, <1>a, <1>5 DEF PublishSave
<1>6. CASE LoadExternal
  BY <1>0, <1>a, <1>6 DEF LoadExternal, NothingReloaded, AfterHandler, Fail
<1>7. CASE AdoptExternal
  BY <1>0, <1>a, <1>7 DEF AdoptExternal, OffHiddenByConflict
<1>8. CASE NotifyOwner
  BY <1>0, <1>a, <1>8 DEF NotifyOwner, AfterHandler
<1>9. CASE SaveClick
  BY <1>0, <1>a, <1>9 DEF SaveClick, SaveIfUnchanged, SaveFails, EditsAreNew
<1>10. CASE RestoreShared
  BY <1>0, <1>a, <1>10 DEF RestoreShared
<1>11. CASE BindSocket
  BY <1>0, <1>a, <1>11 DEF BindSocket, Fail
<1>12. CASE LoadReload
  BY <1>0, <1>a, <1>12 DEF LoadReload, Fail
<1>13. CASE PublishReload
  BY <1>0, <1>a, <1>13 DEF PublishReload
<1>14. CASE Receive
  BY <1>0, <1>a, <1>14 DEF Receive
<1>15. CASE ClickOther
  <2>1. paused' => paused \/ Enabled(shared["gui"])
    BY <1>15 DEF ClickOther
  <2> QED
    BY <1>0, <1>a, <1>15, <2>1 DEF ClickOther
<1>16. CASE StopTap
  BY <1>0, <1>a, <1>16 DEF StopTap
<1>17. ASSUME NEW e \in UiEdits, EditWidget(e) PROVE SwitchGoal
  <2>1. slot = "none" /\ main = "frame" /\ (Enabled(shared["gui"]) <=> Enabled(widgets))
    BY <1>17 DEF EditWidget
  <2> DEFINE edited == widgets \cup {e}
  <2>2. \/ /\ widgets' = edited /\ main' = "publish" /\ SwitchMoved(widgets, edited)
        \/ widgets' = edited /\ main' = "load" /\ caller' = "save" /\ UNCHANGED paused
        \/ widgets' = shared["gui"] /\ main' = "idle" /\ UNCHANGED paused
    BY <1>17 DEF EditWidget
  <2>3. UNCHANGED <<shared, slot, loaded>>
    BY <1>17 DEF EditWidget
  <2> HIDE DEF edited
  <2>4. CASE widgets' = edited /\ main' = "publish" /\ SwitchMoved(widgets, edited)
    <3>1. paused' => paused /\ (Enabled(widgets) => Enabled(edited))
      BY <2>4
    <3> QED
      BY <2>1, <2>3, <2>4, <3>1
  <2>5. CASE widgets' = edited /\ main' = "load" /\ caller' = "save" /\ UNCHANGED paused
    BY <2>1, <2>3, <2>5
  <2>6. CASE widgets' = shared["gui"] /\ main' = "idle" /\ UNCHANGED paused
    BY <2>1, <2>3, <2>6
  <2> QED
    BY <2>2, <2>4, <2>5, <2>6
<1>18. ASSUME NEW e \in TrayEdits, ClickToggle(e) PROVE SwitchGoal
  BY <1>0, <1>a, <1>18 DEF ClickToggle
<1>19. ASSUME NEW e \in CliEdits, CliCommit(e) PROVE SwitchGoal
  BY <1>0, <1>a, <1>19 DEF CliCommit, Fail
<1>20. ASSUME NEW e \in CliEdits, CliNotifyTap(e) PROVE SwitchGoal
  BY <1>0, <1>a, <1>20 DEF CliNotifyTap
<1>21. ASSUME NEW e \in CliEdits, CliNotifyWindow(e) PROVE SwitchGoal
  BY <1>0, <1>a, <1>21 DEF CliNotifyWindow
<1>22. ASSUME NEW p \in Processes, StartTap(p) PROVE SwitchGoal
  BY <1>0, <1>a, <1>22 DEF StartTap
<1>23. CASE ListenerEnds
  BY <1>0, <1>a, <1>23 DEF ListenerEnds, Fail
<1>24. CASE UNCHANGED vars
  BY <1>24 DEF vars
<1> QED
  BY <1>1, <1>2, <1>3, <1>4, <1>5, <1>6, <1>7, <1>8, <1>9, <1>10, <1>11,
     <1>12, <1>13, <1>14, <1>15, <1>16, <1>17, <1>18, <1>19, <1>20, <1>21,
     <1>22, <1>23, <1>24
  DEF Next, MainStep, CliStep, ListenerStep, UserStep

(* A pause comes to outlive the switch only where the window's own switching *)
(* off is dropped for a file that is off as well (ui.rs,                     *)
(* reload_external_config and the tray's actions), wherever else the switch  *)
(* moved, in the window, the menu or a command.                              *)
THEOREM PausesOutliveOnlyByConflict ==
  ASSUME Headless
  PROVE  Spec => PauseOutlivesOnlyByConflict
<1>1. Init => SwitchSteady
  BY DEF Init, SwitchSteady, InConflict, Processes
<1>2. TypeOK /\ CopiesInOrder /\ SwitchSteady /\ [Next]_vars
        => SwitchSteady' /\ [PauseFollowsSwitch /\ ~PauseFollowsSwitch'
                                => OffHiddenByConflict]_vars
  BY SwitchStep DEF SwitchGoal
<1> QED
  BY <1>1, <1>2, TypeCorrect, CopiesStayInOrder, PTL DEF Spec, PauseOutlivesOnlyByConflict

-------------------------------------------------------------------------------
(* As long as no file operation fails, a window whose revision is not the    *)
(* file's will hear of it: a command has yet to tell, the mailbox has been   *)
(* told, or the handler that reads the file is under way.                    *)
CliDue == \E e \in CliEdits : cli[e] \in {"tap", "window"}

WindowDue ==
    faults = 0 =>
        /\ revision # {} /\ \A r, s \in revision : r = s
        /\ revision = {disk} \/ CliDue \/ mailbox \/ main \in {"load", "adopt"}
        /\ main = "adopt" => loaded = disk \/ CliDue \/ mailbox

(* No step loses the window's news of the file. *)
LEMMA WindowDueStep ==
  ASSUME TypeOK, WindowDue, [Next]_vars
  PROVE  WindowDue'
<1> USE ConstantsAssumption
    DEF WindowDue, CliDue, guiVars, tapVars
<1>0. Processes = {"gui", "daemon"}
  BY DEF Processes
<1>a. /\ cli \in [CliEdits -> {"ready", "tap", "window", "done", "failed"}]
      /\ faults \in 0..MaxFaults
      /\ caller \in {"mailbox", "failed", "save", "click"}
  BY DEF TypeOK
<1>1. CASE BeginTick
  BY <1>0, <1>a, <1>1 DEF BeginTick
<1>2. CASE PollMailbox
  BY <1>0, <1>a, <1>2 DEF PollMailbox
<1>3. CASE PollTray
  BY <1>0, <1>a, <1>3 DEF PollTray, ResyncActions
<1>4. CASE EndFrame
  BY <1>0, <1>a, <1>4 DEF EndFrame
<1>5. CASE PublishSave
  BY <1>0, <1>a, <1>5 DEF PublishSave
<1>6. CASE LoadExternal
  BY <1>0, <1>a, <1>6 DEF LoadExternal, NothingReloaded, AfterHandler, Fail
<1>7. CASE AdoptExternal
  BY <1>0, <1>a, <1>7 DEF AdoptExternal, OffHiddenByConflict
<1>8. CASE NotifyOwner
  BY <1>0, <1>a, <1>8 DEF NotifyOwner, AfterHandler
<1>9. CASE SaveClick
  BY <1>0, <1>a, <1>9 DEF SaveClick, SaveIfUnchanged, SaveFails, Fail
<1>10. CASE RestoreShared
  BY <1>0, <1>a, <1>10 DEF RestoreShared
<1>11. CASE BindSocket
  BY <1>0, <1>a, <1>11 DEF BindSocket, Fail
<1>12. CASE LoadReload
  BY <1>0, <1>a, <1>12 DEF LoadReload, Fail
<1>13. CASE PublishReload
  BY <1>0, <1>a, <1>13 DEF PublishReload
<1>14. CASE Receive
  BY <1>0, <1>a, <1>14 DEF Receive
<1>15. CASE ClickOther
  BY <1>0, <1>a, <1>15 DEF ClickOther
<1>16. CASE StopTap
  BY <1>0, <1>a, <1>16 DEF StopTap
<1>17. ASSUME NEW e \in UiEdits, EditWidget(e) PROVE WindowDue'
  <2>1. \/ SaveIfUnchanged(widgets \cup {e}) /\ main' = "publish"
        \/ main' = "load" /\ revision # {} /\ UNCHANGED <<disk, revision, faults>>
        \/ SaveFails(widgets \cup {e})
        \/ revision = {} /\ UNCHANGED <<disk, revision, faults>>
    BY <1>17 DEF EditWidget
  <2>2. CASE SaveIfUnchanged(widgets \cup {e}) /\ main' = "publish"
    BY <2>2 DEF SaveIfUnchanged
  <2>3. CASE main' = "load" /\ revision # {} /\ UNCHANGED <<disk, revision, faults>>
    BY <2>3
  <2>4. CASE SaveFails(widgets \cup {e})
    BY <1>a, <2>4 DEF SaveFails, Fail
  <2> QED
    BY <2>1, <2>2, <2>3, <2>4
<1>18. ASSUME NEW e \in TrayEdits, ClickToggle(e) PROVE WindowDue'
  BY <1>0, <1>a, <1>18 DEF ClickToggle
<1>19. ASSUME NEW e \in CliEdits, CliCommit(e) PROVE WindowDue'
  BY <1>0, <1>a, <1>19 DEF CliCommit, Fail
<1>20. ASSUME NEW e \in CliEdits, CliNotifyTap(e) PROVE WindowDue'
  BY <1>0, <1>a, <1>20 DEF CliNotifyTap
<1>21. ASSUME NEW e \in CliEdits, CliNotifyWindow(e) PROVE WindowDue'
  BY <1>0, <1>a, <1>21 DEF CliNotifyWindow
<1>22. ASSUME NEW p \in Processes, StartTap(p) PROVE WindowDue'
  BY <1>0, <1>a, <1>22 DEF StartTap
<1>23. CASE ListenerEnds
  BY <1>0, <1>a, <1>23 DEF ListenerEnds, Fail
<1>24. CASE UNCHANGED vars
  BY <1>24 DEF vars
<1> QED
  BY <1>1, <1>2, <1>3, <1>4, <1>5, <1>6, <1>7, <1>8, <1>9, <1>10, <1>11,
     <1>12, <1>13, <1>14, <1>15, <1>16, <1>17, <1>18, <1>19, <1>20, <1>21,
     <1>22, <1>23, <1>24
  DEF Next, MainStep, CliStep, ListenerStep, UserStep


(* Once all is quiet and nothing has failed, the window shows the file and   *)
(* holds its revision: no notification is lost on the way (ui.rs, cli).      *)
THEOREM WindowsAgree ==
  ASSUME Headless
  PROVE  Spec => []WindowAgreesWhenQuiet
<1>1. Init => WindowDue
  BY DEF Init, WindowDue
<1>2. TypeOK /\ WindowDue /\ [Next]_vars => WindowDue'
  BY WindowDueStep
<1>3. CopiesInOrder /\ WindowDue => WindowAgreesWhenQuiet
  BY DEF CopiesInOrder, CopiesFollowRevision, WindowDue, CliDue, WindowAgreesWhenQuiet, Quiet
<1> QED
  BY <1>1, <1>2, <1>3, TypeCorrect, CopiesStayInOrder, PTL DEF Spec

-------------------------------------------------------------------------------
(* No file operation fails, every command notifies the tap's owner, and the  *)
(* window's tick comes round before a second menu action; the owner may be   *)
(* the window's process or a headless one, in turns.                         *)
AllNotify == MaxFaults = 0 /\ WindowOnlyEdits = {} /\ MaxClicksPerTick <= 1

(* The edit of a command that has not committed is in no copy.               *)
ReadyEditsAreNew ==
    \A e \in CliEdits : cli[e] = "ready" =>
        /\ e \notin disk \cup widgets \cup loaded \cup draft \cup snapshot
        /\ \A r \in revision : e \notin r
        /\ \A p \in Processes : e \notin shared[p]

(* The slot is empty when the menu is clicked.                               *)
ClickInSlot ==
    /\ slot # "none" => clicks > 0
    /\ main \in {"click", "restore"} => clicks > 0 /\ slot = "none"

(* The owner's listener is about to read the file, or has been told to, or   *)
(* somebody is about to tell it.                                             *)
TapNoticeDue ==
    \/ listener \in {"bind", "load"}
    \/ datagrams > 0
    \/ \E e \in CliEdits : cli[e] = "tap"
    \/ main \in {"publish", "notify"}

(* The window's own thread is about to put the copy it shares in order, and  *)
(* to tell the listener.                                                     *)
WindowNoticeDue ==
    \/ main \in {"click", "restore", "adopt"}
    \/ (slot = "failed" \/ main = "load") /\ revision # {disk}

LiveDue ==
    /\ owner = "none" <=> listener = "off"
    /\ listener # "deaf"
    /\ revision # {}
    /\ main = "restore" => revision # {disk}
    /\ listener = "publish" => snapshot = disk \/ TapNoticeDue
    /\ listener = "receive" => \/ shared[owner] = disk
                               \/ TapNoticeDue
                               \/ owner = "gui" /\ WindowNoticeDue

(* Every step keeps the edits of waiting commands out of all copies. *)
LEMMA ReadyStep ==
  ASSUME TypeOK, ReadyEditsAreNew, [Next]_vars
  PROVE  ReadyEditsAreNew'
<1> USE ConstantsAssumption
    DEF ReadyEditsAreNew, guiVars, tapVars
<1>0. Processes = {"gui", "daemon"}
  BY DEF Processes
<1>a. /\ shared \in [Processes -> Configs] /\ owner \in Processes \cup {"none"}
      /\ cli \in [CliEdits -> {"ready", "tap", "window", "done", "failed"}]
      /\ caller \in {"mailbox", "failed", "save", "click"}
  BY DEF TypeOK
<1>1. CASE BeginTick
  BY <1>0, <1>a, <1>1 DEF BeginTick
<1>2. CASE PollMailbox
  BY <1>0, <1>a, <1>2 DEF PollMailbox
<1>3. CASE PollTray
  BY <1>0, <1>a, <1>3 DEF PollTray, ResyncActions
<1>4. CASE EndFrame
  BY <1>0, <1>a, <1>4 DEF EndFrame
<1>5. CASE PublishSave
  BY <1>0, <1>a, <1>5 DEF PublishSave
<1>6. CASE LoadExternal
  BY <1>0, <1>a, <1>6 DEF LoadExternal, NothingReloaded, AfterHandler, Fail
<1>7. CASE AdoptExternal
  BY <1>0, <1>a, <1>7 DEF AdoptExternal, OffHiddenByConflict
<1>8. CASE NotifyOwner
  BY <1>0, <1>a, <1>8 DEF NotifyOwner, AfterHandler
<1>9. CASE SaveClick
  BY <1>0, <1>a, <1>9 DEF SaveClick, SaveIfUnchanged, SaveFails, Fail
<1>10. CASE RestoreShared
  BY <1>0, <1>a, <1>10 DEF RestoreShared
<1>11. CASE BindSocket
  BY <1>0, <1>a, <1>11 DEF BindSocket, Fail
<1>12. CASE LoadReload
  BY <1>0, <1>a, <1>12 DEF LoadReload, Fail
<1>13. CASE PublishReload
  BY <1>0, <1>a, <1>13 DEF PublishReload
<1>14. CASE Receive
  BY <1>0, <1>a, <1>14 DEF Receive
<1>15. CASE ClickOther
  BY <1>0, <1>a, <1>15 DEF ClickOther
<1>16. CASE StopTap
  BY <1>0, <1>a, <1>16 DEF StopTap
<1>17. ASSUME NEW e \in UiEdits, EditWidget(e) PROVE ReadyEditsAreNew'
  BY <1>0, <1>a, <1>17 DEF EditWidget, SaveIfUnchanged, SaveFails, Fail
<1>18. ASSUME NEW e \in TrayEdits, ClickToggle(e) PROVE ReadyEditsAreNew'
  BY <1>0, <1>a, <1>18 DEF ClickToggle
<1>19. ASSUME NEW e \in CliEdits, CliCommit(e) PROVE ReadyEditsAreNew'
  BY <1>0, <1>a, <1>19 DEF CliCommit, Fail
<1>20. ASSUME NEW e \in CliEdits, CliNotifyTap(e) PROVE ReadyEditsAreNew'
  BY <1>0, <1>a, <1>20 DEF CliNotifyTap
<1>21. ASSUME NEW e \in CliEdits, CliNotifyWindow(e) PROVE ReadyEditsAreNew'
  BY <1>0, <1>a, <1>21 DEF CliNotifyWindow
<1>22. ASSUME NEW p \in Processes, StartTap(p) PROVE ReadyEditsAreNew'
  BY <1>0, <1>a, <1>22 DEF StartTap
<1>23. CASE ListenerEnds
  BY <1>0, <1>a, <1>23 DEF ListenerEnds, Fail
<1>24. CASE UNCHANGED vars
  BY <1>24 DEF vars
<1> QED
  BY <1>1, <1>2, <1>3, <1>4, <1>5, <1>6, <1>7, <1>8, <1>9, <1>10, <1>11,
     <1>12, <1>13, <1>14, <1>15, <1>16, <1>17, <1>18, <1>19, <1>20, <1>21,
     <1>22, <1>23, <1>24
  DEF Next, MainStep, CliStep, ListenerStep, UserStep

(* Every step keeps the slot empty under a click. *)
LEMMA ClickInSlotStep ==
  ASSUME AllNotify, TypeOK, ClickInSlot, [Next]_vars
  PROVE  ClickInSlot'
<1> USE ConstantsAssumption
    DEF AllNotify, ClickInSlot, guiVars, tapVars
<1>0. Processes = {"gui", "daemon"}
  BY DEF Processes
<1>a. /\ clicks \in 0..MaxClicksPerTick
      /\ caller \in {"mailbox", "failed", "save", "click"}
  BY DEF TypeOK
<1>1. CASE BeginTick
  BY <1>0, <1>a, <1>1 DEF BeginTick
<1>2. CASE PollMailbox
  BY <1>0, <1>a, <1>2 DEF PollMailbox
<1>3. CASE PollTray
  BY <1>0, <1>a, <1>3 DEF PollTray, ResyncActions
<1>4. CASE EndFrame
  BY <1>0, <1>a, <1>4 DEF EndFrame
<1>5. CASE PublishSave
  BY <1>0, <1>a, <1>5 DEF PublishSave
<1>6. CASE LoadExternal
  BY <1>0, <1>a, <1>6 DEF LoadExternal, NothingReloaded, AfterHandler, Fail
<1>7. CASE AdoptExternal
  BY <1>0, <1>a, <1>7 DEF AdoptExternal, OffHiddenByConflict
<1>8. CASE NotifyOwner
  BY <1>0, <1>a, <1>8 DEF NotifyOwner, AfterHandler
<1>9. CASE SaveClick
  BY <1>0, <1>a, <1>9 DEF SaveClick, SaveIfUnchanged, SaveFails, Fail
<1>10. CASE RestoreShared
  BY <1>0, <1>a, <1>10 DEF RestoreShared
<1>11. CASE BindSocket
  BY <1>0, <1>a, <1>11 DEF BindSocket, Fail
<1>12. CASE LoadReload
  BY <1>0, <1>a, <1>12 DEF LoadReload, Fail
<1>13. CASE PublishReload
  BY <1>0, <1>a, <1>13 DEF PublishReload
<1>14. CASE Receive
  BY <1>0, <1>a, <1>14 DEF Receive
<1>15. CASE ClickOther
  BY <1>0, <1>a, <1>15 DEF ClickOther
<1>16. CASE StopTap
  BY <1>0, <1>a, <1>16 DEF StopTap
<1>17. ASSUME NEW e \in UiEdits, EditWidget(e) PROVE ClickInSlot'
  BY <1>0, <1>a, <1>17 DEF EditWidget, SaveIfUnchanged, SaveFails, Fail
<1>18. ASSUME NEW e \in TrayEdits, ClickToggle(e) PROVE ClickInSlot'
  BY <1>0, <1>a, <1>18 DEF ClickToggle
<1>19. ASSUME NEW e \in CliEdits, CliCommit(e) PROVE ClickInSlot'
  BY <1>0, <1>a, <1>19 DEF CliCommit, Fail
<1>20. ASSUME NEW e \in CliEdits, CliNotifyTap(e) PROVE ClickInSlot'
  BY <1>0, <1>a, <1>20 DEF CliNotifyTap
<1>21. ASSUME NEW e \in CliEdits, CliNotifyWindow(e) PROVE ClickInSlot'
  BY <1>0, <1>a, <1>21 DEF CliNotifyWindow
<1>22. ASSUME NEW p \in Processes, StartTap(p) PROVE ClickInSlot'
  BY <1>0, <1>a, <1>22 DEF StartTap
<1>23. CASE ListenerEnds
  BY <1>0, <1>a, <1>23 DEF ListenerEnds, Fail
<1>24. CASE UNCHANGED vars
  BY <1>24 DEF vars
<1> QED
  BY <1>1, <1>2, <1>3, <1>4, <1>5, <1>6, <1>7, <1>8, <1>9, <1>10, <1>11,
     <1>12, <1>13, <1>14, <1>15, <1>16, <1>17, <1>18, <1>19, <1>20, <1>21,
     <1>22, <1>23, <1>24
  DEF Next, MainStep, CliStep, ListenerStep, UserStep

(* No step loses the owner's news of the file. *)
LEMMA LiveDueStep ==
  ASSUME AllNotify, TypeOK, ReadyEditsAreNew, ClickInSlot, LiveDue, [Next]_vars
  PROVE  LiveDue'
<1> USE ConstantsAssumption
    DEF AllNotify, ClickInSlot, LiveDue, TapNoticeDue, WindowNoticeDue, Notify,
        EndpointBound, guiVars, tapVars
<1>0. Processes = {"gui", "daemon"}
  BY DEF Processes
<1>a. /\ shared \in [Processes -> Configs] /\ owner \in Processes \cup {"none"}
      /\ cli \in [CliEdits -> {"ready", "tap", "window", "done", "failed"}]
      /\ caller \in {"mailbox", "failed", "save", "click"}
      /\ clicks \in 0..MaxClicksPerTick /\ datagrams \in 0..SocketCapacity
      /\ faults = 0
  BY DEF TypeOK
<1>1. CASE BeginTick
  BY <1>0, <1>a, <1>1 DEF BeginTick
<1>2. CASE PollMailbox
  BY <1>0, <1>a, <1>2 DEF PollMailbox
<1>3. CASE PollTray
  BY <1>0, <1>a, <1>3 DEF PollTray, ResyncActions
<1>4. CASE EndFrame
  BY <1>0, <1>a, <1>4 DEF EndFrame
<1>5. CASE PublishSave
  BY <1>0, <1>a, <1>5 DEF PublishSave
<1>6. CASE LoadExternal
  BY <1>0, <1>a, <1>6 DEF LoadExternal, NothingReloaded, AfterHandler, Fail
<1>7. CASE AdoptExternal
  BY <1>0, <1>a, <1>7 DEF AdoptExternal, OffHiddenByConflict
<1>8. CASE NotifyOwner
  BY <1>0, <1>a, <1>8 DEF NotifyOwner, AfterHandler
<1>9. CASE SaveClick
  BY <1>0, <1>a, <1>9 DEF SaveClick, SaveIfUnchanged, SaveFails, Fail
<1>10. CASE RestoreShared
  BY <1>0, <1>a, <1>10 DEF RestoreShared
<1>11. CASE BindSocket
  BY <1>0, <1>a, <1>11 DEF BindSocket, Fail
<1>12. CASE LoadReload
  BY <1>0, <1>a, <1>12 DEF LoadReload, Fail
<1>13. CASE PublishReload
  BY <1>0, <1>a, <1>13 DEF PublishReload
<1>14. CASE Receive
  BY <1>0, <1>a, <1>14 DEF Receive
<1>15. CASE ClickOther
  BY <1>0, <1>a, <1>15 DEF ClickOther
<1>16. CASE StopTap
  BY <1>0, <1>a, <1>16 DEF StopTap
<1>17. ASSUME NEW e \in UiEdits, EditWidget(e) PROVE LiveDue'
  BY <1>0, <1>a, <1>17 DEF EditWidget, SaveIfUnchanged, SaveFails, Fail
<1>18. ASSUME NEW e \in TrayEdits, ClickToggle(e) PROVE LiveDue'
  BY <1>0, <1>a, <1>18 DEF ClickToggle
<1>19. ASSUME NEW e \in CliEdits, CliCommit(e) PROVE LiveDue'
  BY <1>0, <1>a, <1>19 DEF CliCommit, Fail, ReadyEditsAreNew
<1>20. ASSUME NEW e \in CliEdits, CliNotifyTap(e) PROVE LiveDue'
  BY <1>0, <1>a, <1>20 DEF CliNotifyTap
<1>21. ASSUME NEW e \in CliEdits, CliNotifyWindow(e) PROVE LiveDue'
  BY <1>0, <1>a, <1>21 DEF CliNotifyWindow
<1>22. ASSUME NEW p \in Processes, StartTap(p) PROVE LiveDue'
  BY <1>0, <1>a, <1>22 DEF StartTap
<1>23. CASE ListenerEnds
  BY <1>0, <1>a, <1>23 DEF ListenerEnds, Fail
<1>24. CASE UNCHANGED vars
  BY <1>24 DEF vars
<1> QED
  BY <1>1, <1>2, <1>3, <1>4, <1>5, <1>6, <1>7, <1>8, <1>9, <1>10, <1>11,
     <1>12, <1>13, <1>14, <1>15, <1>16, <1>17, <1>18, <1>19, <1>20, <1>21,
     <1>22, <1>23, <1>24
  DEF Next, MainStep, CliStep, ListenerStep, UserStep


(* Once all is quiet, the running tap obeys the file, whichever process owns *)
(* it and however often it has changed hands ("Close the only startup race", *)
(* ConfigReloadListener::start_at). *)
THEOREM LiveCopiesAgree ==
  ASSUME AllNotify
  PROVE  Spec => []LiveAgreesWhenQuiet
<1> DEFINE Inv == ReadyEditsAreNew /\ ClickInSlot /\ LiveDue
<1>1. Init => Inv
  <2> SUFFICES ASSUME Init PROVE Inv
    OBVIOUS
  <2>1. ReadyEditsAreNew
    BY ConstantsAssumption DEF Init, ReadyEditsAreNew, Processes
  <2>2. ClickInSlot /\ LiveDue
    BY ConstantsAssumption DEF Init, ClickInSlot, LiveDue, AllNotify
  <2> QED
    BY <2>1, <2>2
<1>2. TypeOK /\ Inv /\ [Next]_vars => Inv'
  BY ReadyStep, ClickInSlotStep, LiveDueStep
<1>3. LiveDue => LiveAgreesWhenQuiet
  BY DEF LiveDue, TapNoticeDue, WindowNoticeDue, LiveAgreesWhenQuiet, Quiet
<1> QED
  BY <1>1, <1>2, <1>3, TypeCorrect, PTL DEF Spec
===============================================================================
