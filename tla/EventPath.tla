------------------------------- MODULE EventPath -------------------------------
(***************************************************************************)
(* The path of one scroll event through the tap's callback, and what it     *)
(* depends on: the live inventory of continuous devices, the gesture tap's  *)
(* touches, the last wheel tick seen by the HID monitor and the             *)
(* configuration (event_tap.rs, gesture.rs, hid.rs, scroll_events.rs and    *)
(* device_attribution.rs).                                                  *)
(*                                                                         *)
(* The callbacks of one tap run on one run loop, so each is one step; what  *)
(* may go wrong is their order and what they find: a device changes before  *)
(* the inventory callback is served, a touch is sensed for one scroll and   *)
(* met by another, two wheels tick, an address is reused, a monitor does    *)
(* not start.  What the tap makes of an event is a function of the state,   *)
(* Delivered; the state is what one event leaves behind for the next.       *)
(***************************************************************************)
EXTENDS ScrollTransform, SourceClassifier

CONSTANTS
    Wheels,         \* mouse wheels that can be plugged in
    Addresses,      \* the IOHIDDeviceRefs they get, reused after removal
    IdentityOf,     \* per wheel: its identity, or None
    SourceOf,       \* per wheel: the class of its transport
    Events,         \* the scroll events that can arrive
    Configs,        \* the configurations the window can switch between
    Inventories,    \* the sets of continuous devices that can be connected
    HighAge,        \* HIGH_CONFIDENCE_MAX_AGE
    TimeoutAge,     \* ATTRIBUTION_TIMEOUT
    ObservedAge,    \* WHEEL_OBSERVATION_WINDOW
    IdleAge         \* IDENTITY_CACHE_MAX_IDLE

(* An event of the callback: its momentum phases Began, Continued and Ended *)
(* are one, Coasting; held tells what else keeps the tap from acting on it. *)
EventType ==
    [continuous : BOOLEAN, posted : BOOLEAN, synthetic : BOOLEAN,
     phase : DirectPhases \cup {"None"}, momentum : {"None", "Coasting", "Unknown"},
     held : {"free", "paused", "contended"}]

ASSUME InputsAssumption ==
    /\ None \notin Addresses
    /\ \A w \in Wheels : SourceOf[w] \in {"Physical", "Virtual", "Unknown"}
    /\ Events \subseteq EventType
    /\ \A c \in Configs : c.axes \subseteq {"vertical", "horizontal"}
    /\ Inventories \subseteq SUBSET ContinuousKinds

ASSUME AgesAssumption ==
    /\ {HighAge, TimeoutAge, ObservedAge, IdleAge} \subseteq Nat
    /\ HighAge <= TimeoutAge /\ TimeoutAge <= ObservedAge /\ ObservedAge <= IdleAge

VARIABLES
    config,        \* the shared configuration
    sockets,       \* per address: the wheel there, or None
    pads,          \* the continuous devices connected
    unserved,      \* has a device change not had its callback yet?
    running,       \* is a tap's run loop serving callbacks?
    liveHint,      \* LIVE_CONTINUOUS_HINT, or "none" while not ready
    gestureUp,     \* GESTURE_AVAILABLE
    classifier,    \* CLASSIFIER
    wheel,         \* LAST_WHEEL: token, identity, source and age, or NoWheel
    \* history, read by the properties only:
    sensed,        \* the touch since the last scroll, as NoTouch or [kind, age]
    moved,         \* has the hint changed since the last scroll?
    proven,        \* has one finger been sensed since the evidence was dropped?
    gesture,       \* the gesture in progress and what it was begun with
    ticker         \* the wheel that ticked last, and whether it took over the
                   \* address of one that ticked shortly before

inputVars == <<config, sockets, pads, unserved>>
historyVars == <<sensed, moved, proven, gesture, ticker>>
vars == <<inputVars, running, liveHint, gestureUp, classifier, wheel, historyVars>>

NoWheel == [token |-> None, identity |-> None, source |-> "Unknown", age |-> IdleAge + 1]
NoGesture == [kind |-> "none", flips |-> {}]
NoTicker == [wheel |-> None, heir |-> FALSE]

-------------------------------------------------------------------------------
(* What the callback makes of a scroll event.                               *)

(* classify_scroll: the live hint, when there is one, is applied first. *)
Current == IF liveHint = "none" THEN classifier ELSE UpdateHint(classifier, liveHint)

KindFor(e) == IF gestureUp THEN KindOf(Current, e) ELSE KindWithoutGesture(Current, e)

(* The wheel a discrete hardware event may be attributed to. *)
Attributable(e) == ~e.continuous /\ ~e.posted /\ wheel.age <= ObservedAge

Attribution(e) ==
    CASE e.continuous \/ e.posted -> "NotApplicable"
      [] ~e.continuous /\ ~e.posted /\ ~Attributable(e) -> "MissingObservation"
      [] Attributable(e) /\ wheel.age <= HighAge -> "High"
      [] Attributable(e) /\ HighAge < wheel.age /\ wheel.age <= TimeoutAge -> "Medium"
      [] OTHER -> "TimedOut"

AcceptObserved(e) == Attributable(e)    \* mutant of Accepted: timed-out ticks too

Accepted(e) == Attribution(e) \in {"High", "Medium"}

IdentityFor(e) == IF Accepted(e) THEN wheel.identity ELSE None

SourceFor(e) == IF Accepted(e) THEN wheel.source ELSE "NotObserved"

(* The normalized event of scroll_events.rs: what transform_event is told. *)
Input(e) ==
    [kind |-> KindFor(e), identity |-> IdentityFor(e), source |-> SourceFor(e),
     synthetic |-> e.synthetic, posted |-> e.posted, continuous |-> e.continuous]

Transform(e) == TransformEvent(config, Input(e))

(* A paused tap and one that meets a writer of the configuration pass the   *)
(* event through unchanged; but it has been classified. *)
Delivered(e) == IF e.held # "free" THEN Untouched ELSE Transform(e)

-------------------------------------------------------------------------------
(* Starting and stopping a tap's monitors.                                  *)

(* The HID monitor starts and lists the devices, or fails and the inventory *)
(* is read once, or that fails too; then the gesture tap starts or fails.   *)
Start ==
    /\ ~running
    /\ running' = TRUE
    /\ \E monitor, inventory, tap \in BOOLEAN :
         /\ liveHint' = IF monitor THEN HintOf(pads) ELSE "none"
         /\ classifier' = NewClassifier(IF monitor \/ inventory THEN HintOf(pads)
                                        ELSE "Unknown")
         /\ gestureUp' = tap
    /\ unserved' = FALSE
    /\ UNCHANGED <<config, sockets, pads, wheel, historyVars>>

(* The gesture monitor is dropped when the run loop ends. *)
Stop ==
    /\ running
    /\ running' = FALSE
    /\ gestureUp' = FALSE
    /\ classifier' = IF gestureUp THEN NewClassifier("Unknown") ELSE classifier
    /\ sensed' = NoTouch
    /\ moved' = FALSE
    /\ proven' = FALSE
    /\ gesture' = NoGesture
    /\ UNCHANGED <<inputVars, liveHint, wheel, ticker>>

-------------------------------------------------------------------------------
(* The other callbacks of the run loop.                                     *)

(* handle_gesture_event: AppKit reports how many fingers touch. *)
Touch(fingers) ==
    /\ running /\ gestureUp
    /\ classifier' = ObserveGesture(classifier, fingers)
    /\ IF fingers = 0 THEN UNCHANGED historyVars
       ELSE /\ sensed' = [kind |-> TouchedBy(fingers), age |-> 0]
            /\ proven' = (proven \/ fingers = 1)
            /\ gesture' = NoGesture
            /\ UNCHANGED <<moved, ticker>>
    /\ UNCHANGED <<inputVars, running, liveHint, gestureUp, wheel>>

CacheByLastTick(a) == wheel.age <= IdleAge    \* mutant of Cached: whatever the device

(* The identity read for a device is reused while it keeps ticking. *)
Cached(a) == wheel.token = a /\ wheel.age <= IdleAge

(* wheel_value_callback, while a monitor delivers values. *)
WheelTick(a) ==
    /\ running /\ liveHint # "none" /\ sockets[a] # None
    /\ wheel' = [token    |-> a,
                 identity |-> IF Cached(a) THEN wheel.identity ELSE IdentityOf[sockets[a]],
                 source   |-> IF Cached(a) THEN wheel.source ELSE SourceOf[sockets[a]],
                 age      |-> 0]
    /\ ticker' = [wheel |-> sockets[a],
                  heir  |-> /\ wheel.token = a /\ wheel.age <= IdleAge
                            /\ ticker.heir \/ ticker.wheel # sockets[a]]
    /\ UNCHANGED <<inputVars, running, liveHint, gestureUp, classifier,
                   sensed, moved, proven, gesture>>

(* pointing_device_inventory_changed. *)
InventoryChanged ==
    /\ running /\ liveHint # "none" /\ unserved
    /\ unserved' = FALSE
    /\ liveHint' = HintOf(pads)
    /\ moved' = (moved \/ liveHint' # liveHint)
    /\ gesture' = IF liveHint' # liveHint THEN NoGesture ELSE gesture
    /\ UNCHANGED <<config, sockets, pads, running, gestureUp, classifier,
                   wheel, sensed, proven, ticker>>

ByHardware(e) == [e EXCEPT !.posted = FALSE, !.synthetic = FALSE]

GestureAfter(e) ==
    CASE e.continuous /\ e.phase = "Began" ->
             [kind |-> KindFor(e), flips |-> Transform(ByHardware(e)).flips]
      [] e.continuous /\ e.phase \in {"Ended", "Cancelled"} -> NoGesture
      [] OTHER -> gesture

(* handle_event_inner, for a scroll event. *)
Scroll(e) ==
    /\ running
    /\ classifier' = IF gestureUp THEN Classified(Current, e) ELSE Current
    /\ sensed' = NoTouch
    /\ moved' = FALSE
    /\ proven' = (proven /\ Current = classifier)
    /\ gesture' = GestureAfter(e)
    /\ UNCHANGED <<inputVars, running, liveHint, gestureUp, wheel, ticker>>

-------------------------------------------------------------------------------
(* The devices, the user and time.                                          *)

ConnectPads(present) ==
    /\ present # pads
    /\ pads' = present
    /\ unserved' = TRUE
    /\ UNCHANGED <<config, sockets, running, liveHint, gestureUp, classifier,
                   wheel, historyVars>>

Plug(a, w) ==
    /\ sockets[a] # w
    /\ w # None => sockets[a] = None /\ \A b \in Addresses : sockets[b] # w
    /\ sockets' = [sockets EXCEPT ![a] = w]
    /\ UNCHANGED <<config, pads, unserved, running, liveHint, gestureUp,
                   classifier, wheel, historyVars>>

Configure(c) ==
    /\ c # config
    /\ config' = c
    /\ gesture' = NoGesture
    /\ UNCHANGED <<sockets, pads, unserved, running, liveHint, gestureUp, classifier,
                   wheel, sensed, moved, proven, ticker>>

Tick ==
    /\ classifier' = Aged(classifier)
    /\ wheel' = [wheel EXCEPT !.age = Older(@, IdleAge + 1)]
    /\ sensed' = AgedTouch(sensed)
    /\ UNCHANGED <<inputVars, running, liveHint, gestureUp, moved, proven, gesture, ticker>>

-------------------------------------------------------------------------------
Init ==
    /\ config \in Configs
    /\ sockets = [a \in Addresses |-> None]
    /\ pads \in Inventories
    /\ unserved = FALSE
    /\ running = FALSE
    /\ liveHint = "none"
    /\ gestureUp = FALSE
    /\ classifier = NewClassifier("Unknown")
    /\ wheel = NoWheel
    /\ sensed = NoTouch
    /\ moved = FALSE
    /\ proven = FALSE
    /\ gesture = NoGesture
    /\ ticker = NoTicker

Next ==
    \/ Start
    \/ Stop
    \/ \E fingers \in 0 .. 2 : Touch(fingers)
    \/ \E a \in Addresses : WheelTick(a)
    \/ InventoryChanged
    \/ \E e \in Events : Scroll(e)
    \/ \E present \in Inventories : ConnectPads(present)
    \/ \E a \in Addresses, w \in Wheels \cup {None} : Plug(a, w)
    \/ \E c \in Configs : Configure(c)
    \/ Tick

Spec == Init /\ [][Next]_vars

-------------------------------------------------------------------------------
(* Types.  The kinds of a classifier are those of continuous sources; the   *)
(* ages saturate one past the last value the code tells apart.              *)
TouchType == [kind : ContinuousKinds \cup {"none"}, age : 0 .. TouchWindow]

TypeOK ==
    /\ config \in Configs
    /\ sockets \in [Addresses -> Wheels \cup {None}]
    /\ pads \in Inventories
    /\ unserved \in BOOLEAN /\ running \in BOOLEAN /\ gestureUp \in BOOLEAN
    /\ liveHint \in Hints \cup {"none"}
    /\ classifier \in [hint : Hints, touch : TouchType, lastKind : ContinuousKinds,
                       lastAge : 0 .. ResetWindow + 1,
                       active : ContinuousKinds \cup {"none"}]
    /\ wheel \in [token : Addresses \cup {None},
                  identity : {IdentityOf[w] : w \in Wheels} \cup {None},
                  source : {"Physical", "Virtual", "Unknown"},
                  age : 0 .. IdleAge + 1]
    /\ sensed \in TouchType
    /\ moved \in BOOLEAN /\ proven \in BOOLEAN
    /\ gesture \in [kind : ContinuousKinds \cup {"none"},
                    flips : SUBSET {"vertical", "horizontal"}]
    /\ ticker \in [wheel : Wheels \cup {None}, heir : BOOLEAN]

(* A touch decides at most one scroll.  With both sources connected, a      *)
(* gesture that begins is a Magic Mouse's only if the touch sensed since    *)
(* the previous scroll event, of whatever device, was of one finger and is  *)
(* recent (device_classifier.rs:211: a wheel tick in between must not lend  *)
(* a stale touch to a later device); and such a touch does decide, unless   *)
(* the inventory changed since that scroll: the change is applied at the    *)
(* next event and takes the touches sensed after it along.                  *)
TouchDecidesOnce ==
    gestureUp /\ Current.hint = "Both" =>
        \A e \in Events : e.continuous /\ e.phase = "Began" =>
            LET recent == sensed.kind # "none" /\ sensed.age < TouchWindow IN
            /\ KindFor(e) = "MagicMouse" => recent /\ sensed.kind = "MagicMouse"
            /\ recent /\ ~moved => KindFor(e) = sensed.kind

(* A scroll counts as a Magic Mouse's only on positive evidence: it is the  *)
(* only source connected, or one finger was sensed since the classifier     *)
(* last dropped its evidence; no loss of touches, no order of phases, no    *)
(* failed monitor makes one of a trackpad (device_classifier.rs:134-139).   *)
MagicMouseNeedsEvidence ==
    \A e \in Events : running /\ e.continuous /\ KindFor(e) = "MagicMouse" =>
        proven \/ Current.hint = "MagicMouseOnly"

(* A gesture keeps its direction.  From its beginning to its end a direct   *)
(* scroll keeps the kind, and a hardware one the flipped axes, whatever     *)
(* wheel ticks, momentum and other events come in between, unless a finger  *)
(* is sensed, the inventory changes, or the user changes the settings       *)
(* (event_tap.rs and the pinning of device_classifier.rs).                  *)
GestureSteady ==
    gesture.kind # "none" =>
        \A e \in Events : running /\ e.continuous /\ e.phase \in {"Changed", "Ended", "Cancelled"} =>
            /\ KindFor(e) = gesture.kind
            /\ e.held = "free" /\ e = ByHardware(e) => Delivered(e).flips = gesture.flips

(* A rule is applied only to the wheel that ticked.  An event is given an   *)
(* identity only if it is a discrete one of the hardware and a wheel ticked *)
(* at most ATTRIBUTION_TIMEOUT ago; the identity and the transport are that *)
(* wheel's, or those of the one whose address it took over while the cached *)
(* identity was still in use (hid.rs:290).                                  *)
IdentityOfTicker ==
    \A e \in Events : Accepted(e) =>
        /\ ~e.continuous /\ ~e.posted
        /\ wheel.age <= TimeoutAge
        /\ \/ ticker.heir
           \/ /\ ticker.wheel \in Wheels
              /\ IdentityFor(e) = IdentityOf[ticker.wheel]
              /\ SourceFor(e) = SourceOf[ticker.wheel]
================================================================================
