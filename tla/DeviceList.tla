------------------------------ MODULE DeviceList ------------------------------
(***************************************************************************)
(* The list of plugged-in devices that the Devices tab shows, refreshed on  *)
(* the notices of the HID monitor, on waking or activation, on request and  *)
(* by a backstop (refresh_policy.rs, ui.rs, platform/macos/hid.rs).         *)
(*                                                                         *)
(* The monitor's callbacks run on the tap's thread, the rest on the         *)
(* window's.  A unit of time is a third of the backstop's 30 s; the window  *)
(* asks for a repaint every 250 ms, so it polls in every unit.              *)
(***************************************************************************)
EXTENDS Naturals

CONSTANTS
    Mice,        \* the devices
    Never,       \* no time
    MaxTime,     \* bound: units of time
    MaxPlugs     \* bound: devices plugged in or out

ASSUME NeverAssumption == Never \notin Nat

VARIABLES
    time,        \* Instant::now()
    plugged,     \* devices that are plugged in
    notice,      \* is a callback of the HID monitor due?
    generation,  \* INVENTORY_GENERATION
    plugs,       \* devices plugged in or out so far
    seen,        \* RefreshPolicy.seen_device_generation
    next,        \* RefreshPolicy.next_backstop
    refresh,     \* "none", "list" or "acknowledge": the rest of refresh_devices
    listed,      \* the devices of the tab
    failed,      \* devices_error
    polled,      \* has the window polled in this unit of time?
    since        \* history: since when the list has been wrong without an error

inventory == <<plugged, notice, generation, plugs>>
policy == <<seen, next, refresh, listed, failed, polled>>
listVars == <<time, inventory, policy, since>>

Backstop == 3

-------------------------------------------------------------------------------
(* The hardware and the HID monitor.                                        *)

(* When the list became wrong, given the list and the devices of a state. *)
WrongSince(list, error, devices) ==
    IF error \/ list = devices THEN Never ELSE IF since = Never THEN time ELSE since

Plug(d) ==
    /\ plugs < MaxPlugs
    /\ plugs' = plugs + 1
    /\ plugged' = IF d \in plugged THEN plugged \ {d} ELSE plugged \cup {d}
    /\ notice' \in {TRUE, notice}       \* the monitor may not be running
    /\ since' = WrongSince(listed, failed, plugged')
    /\ UNCHANGED <<time, generation, policy>>

InventoryChanged ==
    /\ notice
    /\ notice' = FALSE
    /\ generation' = generation + 1
    /\ UNCHANGED <<time, plugged, plugs, policy, since>>

-------------------------------------------------------------------------------
(* RefreshPolicy::poll.  attention: the app became active or woke up.       *)

NoBackstop == FALSE    \* mutant of BackstopDue: notices are relied on

BackstopDue == time >= next

Poll(attention) ==
    /\ refresh = "none"
    /\ polled' = TRUE
    /\ next' = IF BackstopDue THEN time + Backstop ELSE next
    /\ seen' = generation
    /\ refresh' = IF generation # seen \/ attention \/ BackstopDue THEN "list" ELSE "none"
    /\ UNCHANGED <<time, inventory, listed, failed, since>>

RefreshDevices ==
    /\ refresh = "none"
    /\ refresh' = "list"
    /\ UNCHANGED <<time, inventory, seen, next, listed, failed, polled, since>>

(* refresh_devices lists, which may fail, and then acknowledges whatever    *)
(* the generation is by then.                                                *)
List ==
    /\ refresh = "list"
    /\ refresh' = "acknowledge"
    /\ failed' \in BOOLEAN
    /\ listed' = IF failed' THEN {} ELSE plugged
    /\ since' = WrongSince(listed', failed', plugged)
    /\ UNCHANGED <<time, inventory, seen, next, polled>>

Acknowledge ==
    /\ refresh = "acknowledge"
    /\ refresh' = "none"
    /\ seen' = generation
    /\ UNCHANGED <<time, inventory, next, listed, failed, polled, since>>
-------------------------------------------------------------------------------
Elapse ==
    /\ time < MaxTime /\ polled /\ refresh = "none"
    /\ time' = time + 1
    /\ polled' = FALSE
    /\ UNCHANGED <<inventory, seen, next, refresh, listed, failed, since>>

(* SettingsApp::load reads the generation and then lists the devices. *)
ListInit ==
    /\ time = 0
    /\ plugged \in SUBSET Mice /\ notice = FALSE /\ generation = 0 /\ plugs = 0
    /\ seen = 0 /\ next = Backstop /\ refresh = "list" /\ listed = {} /\ failed = FALSE
    /\ polled = FALSE
    /\ since = (IF plugged = {} THEN Never ELSE 0)

ListNext ==
    \/ \E d \in Mice : Plug(d)
    \/ \E attention \in BOOLEAN : Poll(attention)
    \/ InventoryChanged \/ RefreshDevices \/ List \/ Acknowledge \/ Elapse

ListSpec == ListInit /\ [][ListNext]_listVars

-------------------------------------------------------------------------------
(* A device that comes or goes between the listing and the acknowledgement  *)
(* is acknowledged without having been listed.  Even then, and without the  *)
(* monitor, the tab never shows a wrong list for longer than the backstop:  *)
(* if its list is not an error, it is right or has become wrong at most one *)
(* backstop ago (refresh_policy.rs).                                        *)
ListIsCorrected == since # Never => time - since <= Backstop
================================================================================
