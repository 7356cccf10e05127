------------------------------ MODULE DeviceTest ------------------------------
(***************************************************************************)
(* "Test this device" of the Devices tab and the ring of scroll events it   *)
(* reads (device_test.rs, ui/device_rules.rs, platform/macos/debug_log.rs). *)
(* The tap's thread pushes, the window's starts tests and draws rows; which *)
(* rows it draws depends on the list of devices and is left open here.      *)
(***************************************************************************)
EXTENDS Naturals, Sequences

CONSTANTS
    Units,        \* devices, all of one model, told apart by serial or port
    NotYet,       \* no time
    Capacity,     \* CAPACITY of the ring
    MaxNow,       \* bound: seconds
    MaxScrolls    \* bound: scroll events

ASSUME CapacityAssumption == Capacity \in Nat \ {0}

VARIABLES
    now,          \* now_monotonic_micros, in seconds
    ring,         \* DEBUG_LOG: attributed scroll events, oldest first
    scrolls,      \* scroll events so far
    tests,        \* device_tests: per device [started, detected], or NotYet
    moves         \* history: <<device, time>> of what really moved

testVars == <<now, ring, scrolls, tests, moves>>

(* The ring.  The tap never waits for it: while the window holds its lock   *)
(* the record is dropped.                                                   *)

Pushed(r, e) == Append(IF Len(r) >= Capacity THEN Tail(r) ELSE r, e)

(* A physical tick of d, or posted input that arrives while d's tick is the *)
(* latest one.                                                              *)
Scroll(d, physical) ==
    /\ scrolls < MaxScrolls
    /\ scrolls' = scrolls + 1
    /\ ring' \in {ring, Pushed(ring, [identity |-> d, at |-> now, physical |-> physical])}
    /\ moves' = IF physical THEN moves \cup {<<d, now>>} ELSE moves
    /\ UNCHANGED <<now, tests>>

ClearRing ==
    /\ ring # << >>
    /\ ring' = << >>
    /\ UNCHANGED <<now, scrolls, tests, moves>>

-------------------------------------------------------------------------------
(* The row of a device that is connected.                                   *)

StartTest(d) ==
    /\ tests' = [tests EXCEPT ![d] = [started |-> now, detected |-> NotYet]]
    /\ UNCHANGED <<now, ring, scrolls, moves>>

(* The times at which the ring shows that d was active. *)
ActivityOfModel(d) ==    \* mutant of Activity: any unit of the model will do
    {ring[i].at : i \in {j \in DOMAIN ring : ring[j].physical}}

Activity(d) ==
    {ring[i].at : i \in {j \in DOMAIN ring : ring[j].physical /\ ring[j].identity = d}}

(* DeviceTestSession::observe, when the row is drawn.  Once detected, a     *)
(* session stays so; one that has timed out still listens.                  *)
DrawRow(d) ==
    /\ tests[d] # NotYet /\ tests[d].detected = NotYet
    /\ \E t \in Activity(d) :
        /\ t >= tests[d].started
        /\ \A u \in Activity(d) : u <= t
        /\ tests' = [tests EXCEPT ![d].detected = t]
    /\ UNCHANGED <<now, ring, scrolls, moves>>

(* "Reset device" forgets the session along with the saved profile. *)
DropTest(d) ==
    /\ tests[d] # NotYet
    /\ tests' = [tests EXCEPT ![d] = NotYet]
    /\ UNCHANGED <<now, ring, scrolls, moves>>

Pass ==
    /\ now < MaxNow
    /\ now' = now + 1
    /\ UNCHANGED <<ring, scrolls, tests, moves>>

TestInit ==
    now = 0 /\ ring = << >> /\ scrolls = 0 /\ tests = [d \in Units |-> NotYet] /\ moves = {}

TestNext ==
    \/ \E d \in Units : StartTest(d) \/ DrawRow(d) \/ DropTest(d)
    \/ \E d \in Units, physical \in BOOLEAN : Scroll(d, physical)
    \/ ClearRing \/ Pass

TestSpec == TestInit /\ [][TestNext]_testVars

-------------------------------------------------------------------------------
(* "Detected" beside a device means that this very unit moved after its     *)
(* test began: neither its twin, nor posted input, nor an event that the    *)
(* ring kept from before can say so.                                        *)
TestNeedsItsDevice ==
    \A d \in Units :
        tests[d] # NotYet /\ tests[d].detected # NotYet =>
            tests[d].detected >= tests[d].started /\ <<d, tests[d].detected>> \in moves
================================================================================
