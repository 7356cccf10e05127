---------------------------- MODULE EventPathProofs ----------------------------
(***************************************************************************)
(* Theorems about EventPath for every set of devices, events and            *)
(* configurations and all windows of the classifier: types, and what the    *)
(* properties of the run say of the next event in every reachable state.    *)
(***************************************************************************)
EXTENDS EventPath, TLAPS

USE DEF WindowsAssumption, AgesAssumption, InputsAssumption

Classifiers ==
    [hint : Hints, touch : TouchType, lastKind : ContinuousKinds,
     lastAge : 0 .. ResetWindow + 1, active : ContinuousKinds \cup {"none"}]

-------------------------------------------------------------------------------
(* Aging stays below its top and never passes it. *)
LEMMA OlderFacts ==
  ASSUME NEW top \in Nat, NEW age \in 0 .. top
  PROVE  /\ Older(age, top) \in 0 .. top
         /\ age = top => Older(age, top) = top
BY DEF Older

(* A new classifier is one, and remembers a Magic Mouse only when it is the *)
(* only source. *)
LEMMA NewFacts ==
  ASSUME NEW h \in Hints
  PROVE  LET c == NewClassifier(h) IN
         /\ c \in Classifiers
         /\ c.hint = h /\ c.touch = NoTouch /\ c.active = "none"
         /\ c.lastKind = IF h = "MagicMouseOnly" THEN "MagicMouse" ELSE "Trackpad"
<1>1. ResetWindow + 1 \in 0 .. ResetWindow + 1 /\ 0 \in 0 .. TouchWindow
  BY WindowsAssumption
<1>2. NoTouch \in TouchType
  BY <1>1 DEF NoTouch, TouchType
<1> QED
  BY <1>1, <1>2 DEF NewClassifier, Classifiers, ContinuousKinds

(* What the inventory says is a hint. *)
LEMMA HintOfType == \A present : HintOf(present) \in Hints
BY DEF HintOf, Hints

(* What a touch leaves in the classifier. *)
LEMMA ObserveFacts ==
  ASSUME NEW c \in Classifiers, NEW fingers \in 0 .. 2, fingers # 0
  PROVE  LET d == ObserveGesture(c, fingers) IN
         /\ d \in Classifiers
         /\ d.touch = [kind |-> TouchedBy(fingers), age |-> 0]
         /\ d.touch \in TouchType
         /\ d.hint = c.hint /\ d.lastKind = c.lastKind /\ d.active = c.active
<1> DEFINE t == [kind |-> TouchedBy(fingers), age |-> 0]
<1>1. t \in TouchType
  <2>1. 0 \in 0 .. TouchWindow
    BY WindowsAssumption
  <2> QED
    BY <2>1 DEF TouchedBy, TouchType, ContinuousKinds
<1>2. ObserveGesture(c, fingers) = [c EXCEPT !.touch = t]
  BY DEF ObserveGesture
<1> HIDE DEF t
<1> QED
  BY <1>1, <1>2 DEF Classifiers, t

(* Aging changes ages only, and the touch as it does the one remembered. *)
LEMMA AgedTouchType ==
  ASSUME NEW t \in TouchType
  PROVE  /\ AgedTouch(t) \in TouchType
         /\ AgedTouch(t).kind = t.kind
<1>1. TouchWindow \in Nat
  BY WindowsAssumption
<1>2. t.age \in 0 .. TouchWindow
  BY DEF TouchType
<1>3. Older(t.age, TouchWindow) \in 0 .. TouchWindow
  BY <1>1, <1>2, OlderFacts
<1> QED
  BY <1>3 DEF AgedTouch, TouchType, NoTouch

LEMMA AgedFacts ==
  ASSUME NEW c \in Classifiers
  PROVE  /\ Aged(c) \in Classifiers
         /\ Aged(c).touch = AgedTouch(c.touch)
         /\ Aged(c).hint = c.hint /\ Aged(c).lastKind = c.lastKind
         /\ Aged(c).active = c.active
<1> DEFINE a == Older(c.lastAge, ResetWindow + 1)
           t == AgedTouch(c.touch)
<1>1. a \in 0 .. ResetWindow + 1
  <2>1. ResetWindow + 1 \in Nat /\ c.lastAge \in 0 .. ResetWindow + 1
    BY WindowsAssumption DEF Classifiers
  <2> QED
    BY <2>1, OlderFacts
<1>2. t \in TouchType
  BY AgedTouchType DEF Classifiers
<1>3. Aged(c) = [c EXCEPT !.lastAge = a, !.touch = t]
  BY DEF Aged, Classifiers
<1> HIDE DEF a, t
<1> QED
  BY <1>1, <1>2, <1>3 DEF Classifiers, t

-------------------------------------------------------------------------------
(* Kinds.                                                                   *)

(* A continuous event is classified as one of the continuous sources. *)
LEMMA KindType ==
  ASSUME NEW c \in Classifiers, NEW e
  PROVE  /\ KindOf(c, e) \in ContinuousKinds \cup {"Mouse"}
         /\ KindWithoutGesture(c, e) \in ContinuousKinds \cup {"Mouse"}
         /\ e.continuous => /\ KindOf(c, e) \in ContinuousKinds
                            /\ KindWithoutGesture(c, e) \in ContinuousKinds
<1>1. KindWithBoth(c, e) \in ContinuousKinds
  BY DEF KindWithBoth, DirectKind, MomentumKind, FirstOf, Observed, Fallback,
         Classifiers, TouchType, ContinuousKinds
<1> QED
  BY <1>1 DEF KindOf, KindWithoutGesture, ContinuousKinds

(* What a scroll leaves in the classifier. *)
LEMMA ClassifiedFacts ==
  ASSUME NEW c \in Classifiers, NEW e
  PROVE  LET d == Classified(c, e) IN
         /\ d \in Classifiers
         /\ d.hint = c.hint /\ d.touch = NoTouch
         /\ d.lastKind = IF e.continuous THEN KindOf(c, e) ELSE c.lastKind
         /\ d.active = IF e.continuous /\ c.hint = "Both"
                       THEN ActiveAfter(c, e.phase, KindOf(c, e)) ELSE c.active
<1> DEFINE k == KindOf(c, e)
           a == IF c.hint = "Both" THEN ActiveAfter(c, e.phase, k) ELSE c.active
           b == Consumed(c)
<1>1. /\ b \in Classifiers
      /\ b.hint = c.hint /\ b.touch = NoTouch /\ b.lastKind = c.lastKind
      /\ b.active = c.active
  <2>1. NoTouch \in TouchType
    <3>1. 0 \in 0 .. TouchWindow
      BY WindowsAssumption
    <3> QED
      BY <3>1 DEF NoTouch, TouchType
  <2> QED
    BY <2>1 DEF Consumed, Classifiers
<1>2. CASE ~e.continuous
  <2>1. Classified(c, e) = b
    BY <1>2 DEF Classified
  <2> QED
    BY <2>1, <1>1, <1>2
<1>3. CASE e.continuous
  <2>1. Classified(c, e) = [b EXCEPT !.lastKind = k, !.lastAge = 0, !.active = a]
    BY <1>1, <1>3 DEF Classified
  <2>2. k \in ContinuousKinds
    BY <1>3, KindType
  <2>3. a \in ContinuousKinds \cup {"none"}
    BY <2>2 DEF ActiveAfter, Classifiers
  <2>4. 0 \in 0 .. ResetWindow + 1
    BY WindowsAssumption
  <2>5. a = IF e.continuous /\ c.hint = "Both"
            THEN ActiveAfter(c, e.phase, KindOf(c, e)) ELSE c.active
    BY <1>3
  <2> HIDE DEF a, b
  <2>6. /\ [b EXCEPT !.lastKind = k, !.lastAge = 0, !.active = a] \in Classifiers
        /\ [b EXCEPT !.lastKind = k, !.lastAge = 0, !.active = a].hint = b.hint
        /\ [b EXCEPT !.lastKind = k, !.lastAge = 0, !.active = a].touch = b.touch
        /\ [b EXCEPT !.lastKind = k, !.lastAge = 0, !.active = a].lastKind = k
        /\ [b EXCEPT !.lastKind = k, !.lastAge = 0, !.active = a].active = a
    <3> HIDE DEF k
    <3> QED
      BY <1>1, <2>2, <2>3, <2>4 DEF Classifiers
  <2> QED
    BY <1>1, <1>3, <2>1, <2>5, <2>6
<1> QED
  BY <1>2, <1>3

-------------------------------------------------------------------------------
(* Types.                                                                   *)

(* A transformation flips only the axes the configuration reverses. *)
LEMMA FlipsType ==
  ASSUME NEW c \in Configs, NEW x
  PROVE  TransformEvent(c, x).flips \subseteq {"vertical", "horizontal"}
<1>1. TransformEvent(c, x).flips \in {{}, c.axes}
  BY DEF TransformEvent, Untouched
<1>2. c.axes \subseteq {"vertical", "horizontal"}
  BY InputsAssumption
<1> QED
  BY <1>1, <1>2

(* Before an event is classified the live hint is applied, and a change of  *)
(* the hint drops everything the classifier remembers. *)
LEMMA CurrentFacts ==
  ASSUME TypeOK
  PROVE  /\ Current \in Classifiers
         /\ liveHint # "none" => Current.hint = liveHint
         /\ liveHint = "none" \/ classifier.hint = liveHint => Current = classifier
         /\ Current # classifier => /\ liveHint \in Hints
                                    /\ Current = NewClassifier(liveHint)
<1>1. classifier \in Classifiers /\ liveHint \in Hints \cup {"none"}
  BY DEF TypeOK, Classifiers
<1>2. CASE liveHint = "none" \/ classifier.hint = liveHint
  BY <1>1, <1>2 DEF Current, UpdateHint
<1>3. CASE ~(liveHint = "none" \/ classifier.hint = liveHint)
  <2>1. Current = NewClassifier(liveHint)
    BY <1>3 DEF Current, UpdateHint
  <2> QED
    BY <1>1, <1>3, <2>1, NewFacts
<1> QED
  BY <1>2, <1>3

(* The kinds the callback gives events. *)
LEMMA KindForType ==
  ASSUME TypeOK, NEW e
  PROVE  /\ KindFor(e) \in ContinuousKinds \cup {"Mouse"}
         /\ e.continuous => KindFor(e) \in ContinuousKinds
BY CurrentFacts, KindType DEF KindFor

TypesAtStart == Init => TypeOK

(* The initial state is of the types stated. *)
LEMMA InitTypes == TypesAtStart
<1> SUFFICES ASSUME Init PROVE TypeOK
  BY DEF TypesAtStart
<1>1. classifier \in Classifiers
  BY NewFacts DEF Init, Hints
<1>2. IdleAge + 1 \in 0 .. IdleAge + 1 /\ 0 \in 0 .. TouchWindow
  BY AgesAssumption, WindowsAssumption
<1>3. wheel \in [token : Addresses \cup {None},
                 identity : {IdentityOf[w] : w \in Wheels} \cup {None},
                 source : {"Physical", "Virtual", "Unknown"},
                 age : 0 .. IdleAge + 1]
  BY <1>2 DEF Init, NoWheel
<1>4. sensed \in TouchType
  BY <1>2 DEF Init, NoTouch, TouchType
<1> QED
  BY <1>1, <1>3, <1>4 DEF Init, TypeOK, Classifiers, NoGesture, NoTicker

(* Every step keeps the types. *)
LEMMA StepTypes ==
  ASSUME TypeOK, [Next]_vars
  PROVE  TypeOK'
<1> DEFINE WheelType == [token : Addresses \cup {None},
                         identity : {IdentityOf[w] : w \in Wheels} \cup {None},
                         source : {"Physical", "Virtual", "Unknown"},
                         age : 0 .. IdleAge + 1]
           GestureType == [kind : ContinuousKinds \cup {"none"},
                           flips : SUBSET {"vertical", "horizontal"}]
           TickerType == [wheel : Wheels \cup {None}, heir : BOOLEAN]
           Inputs == /\ config \in Configs
                     /\ sockets \in [Addresses -> Wheels \cup {None}]
                     /\ pads \in Inventories
                     /\ unserved \in BOOLEAN
           Tap == /\ running \in BOOLEAN /\ gestureUp \in BOOLEAN
                  /\ liveHint \in Hints \cup {"none"}
           History == /\ sensed \in TouchType
                      /\ moved \in BOOLEAN /\ proven \in BOOLEAN
                      /\ gesture \in GestureType
                      /\ ticker \in TickerType
<1>0. Inputs /\ Tap /\ classifier \in Classifiers /\ wheel \in WheelType /\ History
  BY DEF TypeOK, Classifiers
<1> SUFFICES Inputs' /\ Tap' /\ classifier' \in Classifiers /\ wheel' \in WheelType
             /\ History'
  BY DEF TypeOK, Classifiers
<1>a. NoTouch \in TouchType /\ NoGesture \in GestureType
  <2>1. 0 \in 0 .. TouchWindow
    BY WindowsAssumption
  <2> QED
    BY <2>1 DEF NoTouch, TouchType, NoGesture
<1>1. CASE Start
  <2>1. classifier' \in Classifiers
    <3>1. PICK h \in Hints : classifier' = NewClassifier(h)
      BY <1>1, HintOfType DEF Start, Hints
    <3> QED
      BY <3>1, NewFacts
  <2>2. liveHint' \in Hints \cup {"none"} /\ gestureUp' \in BOOLEAN
    BY <1>1, HintOfType DEF Start
  <2>3. /\ running' = TRUE /\ unserved' = FALSE
        /\ UNCHANGED <<config, sockets, pads, wheel, sensed, moved, proven, gesture, ticker>>
    BY <1>1 DEF Start, historyVars
  <2> QED
    BY <1>0, <2>1, <2>2, <2>3
<1>2. CASE Stop
  <2>1. classifier' \in Classifiers
    BY <1>0, <1>2, NewFacts DEF Stop, Hints
  <2> QED
    BY <1>0, <1>2, <1>a, <2>1 DEF Stop, inputVars
<1>3. CASE \E fingers \in 0 .. 2 : Touch(fingers)
  <2>1. PICK fingers \in 0 .. 2 : Touch(fingers)
    BY <1>3
  <2>2. CASE fingers = 0
    <3>1. classifier' = classifier
      BY <2>1, <2>2 DEF Touch, ObserveGesture
    <3> QED
      BY <1>0, <2>1, <2>2, <3>1 DEF Touch, inputVars, historyVars
  <2>3. CASE fingers # 0
    <3>1. classifier' \in Classifiers /\ sensed' \in TouchType
      BY <1>0, <2>1, <2>3, ObserveFacts DEF Touch
    <3>2. proven' \in BOOLEAN /\ gesture' \in GestureType /\ UNCHANGED <<moved, ticker>>
      BY <1>0, <1>a, <2>1, <2>3 DEF Touch
    <3> QED
      BY <1>0, <2>1, <3>1, <3>2 DEF Touch, inputVars
  <2> QED
    BY <2>2, <2>3
<1>4. CASE \E a \in Addresses : WheelTick(a)
  <2>1. PICK a \in Addresses : WheelTick(a)
    BY <1>4
  <2>2. sockets[a] \in Wheels
    BY <1>0, <2>1 DEF WheelTick
  <2>3. wheel' \in WheelType
    <3>1. 0 \in 0 .. IdleAge + 1
      BY AgesAssumption
    <3>2. SourceOf[sockets[a]] \in {"Physical", "Virtual", "Unknown"}
      BY <2>2, InputsAssumption
    <3> QED
      BY <1>0, <2>1, <2>2, <3>1, <3>2 DEF WheelTick
  <2>4. ticker' \in TickerType
    BY <1>0, <2>1, <2>2 DEF WheelTick
  <2> QED
    BY <1>0, <2>1, <2>3, <2>4 DEF WheelTick, inputVars
<1>5. CASE InventoryChanged
  BY <1>0, <1>5, <1>a, HintOfType DEF InventoryChanged
<1>6. CASE \E e \in Events : Scroll(e)
  <2>1. PICK e \in Events : Scroll(e)
    BY <1>6
  <2>2. classifier' \in Classifiers
    BY <2>1, CurrentFacts, ClassifiedFacts DEF Scroll
  <2>3. gesture' \in GestureType
    <3>1. e.continuous => KindFor(e) \in ContinuousKinds
      BY KindForType
    <3>2. Transform(ByHardware(e)).flips \subseteq {"vertical", "horizontal"}
      BY <1>0, FlipsType DEF Transform
    <3> QED
      BY <1>0, <1>a, <2>1, <3>1, <3>2 DEF Scroll, GestureAfter
  <2> QED
    BY <1>0, <1>a, <2>1, <2>2, <2>3 DEF Scroll, inputVars
<1>7. CASE \E present \in Inventories : ConnectPads(present)
  BY <1>0, <1>7 DEF ConnectPads, historyVars
<1>8. CASE \E a \in Addresses, w \in Wheels \cup {None} : Plug(a, w)
  BY <1>0, <1>8 DEF Plug, historyVars
<1>9. CASE \E c \in Configs : Configure(c)
  BY <1>0, <1>9, <1>a DEF Configure
<1>10. CASE Tick
  <2>1. classifier' \in Classifiers
    BY <1>0, <1>10, AgedFacts DEF Tick
  <2>2. wheel' \in WheelType
    <3>1. IdleAge + 1 \in Nat /\ wheel.age \in 0 .. IdleAge + 1
      BY <1>0, AgesAssumption
    <3>2. Older(wheel.age, IdleAge + 1) \in 0 .. IdleAge + 1
      BY <3>1, OlderFacts
    <3> QED
      BY <1>0, <1>10, <3>2 DEF Tick
  <2>3. sensed' \in TouchType
    BY <1>0, <1>10, AgedTouchType DEF Tick
  <2> QED
    BY <1>0, <1>10, <2>1, <2>2, <2>3 DEF Tick, inputVars
<1>11. CASE UNCHANGED vars
  BY <1>0, <1>11 DEF vars, inputVars, historyVars
<1> QED
  BY <1>1, <1>2, <1>3, <1>4, <1>5, <1>6, <1>7, <1>8, <1>9, <1>10, <1>11 DEF Next

(* Every state of the event path is of the types stated. *)
THEOREM TypeCorrect == Spec => []TypeOK
<1>1. Init => TypeOK
  BY InitTypes DEF TypesAtStart
<1>2. TypeOK /\ [Next]_vars => TypeOK'
  BY StepTypes
<1> QED
  BY <1>1, <1>2, PTL DEF Spec

-------------------------------------------------------------------------------
(* What one event leaves behind for the next.                               *)

(* What the state remembers of a Magic Mouse, one finger has told it, unless *)
(* the Magic Mouse is the only source. *)
EvidenceInv ==
    gestureUp /\ classifier.hint # "MagicMouseOnly" =>
        \/ proven
        \/ "MagicMouse" \notin {classifier.touch.kind, classifier.lastKind, classifier.active}

(* The touch that waits for a scroll is the one sensed since the last, and  *)
(* the hint in use is the live one unless that has moved since. *)
TouchInv ==
    /\ ~running => ~gestureUp /\ sensed = NoTouch /\ ~moved /\ gesture = NoGesture
    /\ gestureUp => classifier.touch = sensed
    /\ running /\ ~moved => Current = classifier

(* The wheel that is remembered is the one that ticked, unless it took over *)
(* an address. *)
WheelInv ==
    /\ wheel.token = None => wheel.age = IdleAge + 1
    /\ wheel.token # None /\ ~ticker.heir =>
         /\ ticker.wheel \in Wheels
         /\ wheel.identity = IdentityOf[ticker.wheel]
         /\ wheel.source = SourceOf[ticker.wheel]

(* Evidence appears only when one finger is sensed, and all of it goes when *)
(* the hint changes. *)
LEMMA EvidenceStep ==
  ASSUME TypeOK, TouchInv, EvidenceInv, [Next]_vars
  PROVE  EvidenceInv'
<1>0. classifier \in Classifiers /\ liveHint \in Hints \cup {"none"} /\ proven \in BOOLEAN
      /\ gestureUp \in BOOLEAN
  BY DEF TypeOK, Classifiers
<1> DEFINE Remembered(c) == {c.touch.kind, c.lastKind, c.active}
           Plain(c) == "MagicMouse" \notin Remembered(c)
<1>n. \A h \in Hints : h # "MagicMouseOnly" => Plain(NewClassifier(h))
  BY NewFacts DEF NoTouch
<1>1. CASE Start
  <2>1. PICK h \in Hints : classifier' = NewClassifier(h)
    BY <1>1, HintOfType DEF Start, Hints
  <2>2. classifier'.hint = h
    BY <2>1, NewFacts
  <2> QED
    BY <1>n, <2>1, <2>2 DEF EvidenceInv
<1>2. CASE Stop
  BY <1>2 DEF Stop, EvidenceInv
<1>3. CASE \E fingers \in 0 .. 2 : Touch(fingers)
  <2>1. PICK fingers \in 0 .. 2 : Touch(fingers)
    BY <1>3
  <2>2. CASE fingers = 0
    BY <2>1, <2>2 DEF Touch, ObserveGesture, EvidenceInv, historyVars
  <2>3. CASE fingers = 1
    <3>1. proven' = (proven \/ fingers = 1)
      BY <1>0, <2>1, <2>3 DEF Touch
    <3>2. proven'
      BY <2>3, <3>1
    <3> QED
      BY <3>2 DEF EvidenceInv
  <2>4. CASE fingers = 2
    <3>1. /\ classifier'.touch.kind = "Trackpad"
          /\ classifier'.hint = classifier.hint
          /\ classifier'.lastKind = classifier.lastKind
          /\ classifier'.active = classifier.active
      BY <1>0, <2>1, <2>4, ObserveFacts DEF Touch, TouchedBy
    <3>2. gestureUp' = gestureUp /\ (proven => proven')
      BY <1>0, <2>1, <2>4 DEF Touch
    <3> QED
      BY <1>0, <3>1, <3>2 DEF EvidenceInv
  <2> QED
    BY <2>2, <2>3, <2>4
<1>4. CASE \E a \in Addresses : WheelTick(a)
  BY <1>4 DEF WheelTick, EvidenceInv
<1>5. CASE InventoryChanged
  BY <1>5 DEF InventoryChanged, EvidenceInv
<1>6. CASE \E e \in Events : Scroll(e)
  <2>1. PICK e \in Events : Scroll(e)
    BY <1>6
  <2>2. CASE ~gestureUp
    BY <2>1, <2>2 DEF Scroll, EvidenceInv
  <2>3. CASE gestureUp /\ Current = classifier /\ proven
    <3>1. proven' = TRUE
      BY <2>1, <2>3 DEF Scroll
    <3> QED
      BY <3>1 DEF EvidenceInv
  <2>4. CASE gestureUp /\ Current.hint # "MagicMouseOnly" /\ Plain(Current)
    <3>1. KindOf(Current, e) # "MagicMouse"
      <4>1. KindWithBoth(Current, e) # "MagicMouse"
        BY <2>4 DEF KindWithBoth, DirectKind, MomentumKind, FirstOf, Observed, Fallback
      <4> QED
        BY <2>4, <4>1 DEF KindOf
    <3>2. Current \in Classifiers
      BY CurrentFacts
    <3>3. LET d == Classified(Current, e) IN
            /\ d.touch = NoTouch
            /\ d.lastKind = IF e.continuous THEN KindOf(Current, e) ELSE Current.lastKind
            /\ d.active = IF e.continuous /\ Current.hint = "Both"
                          THEN ActiveAfter(Current, e.phase, KindOf(Current, e))
                          ELSE Current.active
      BY <3>2, ClassifiedFacts
    <3>4. Plain(Classified(Current, e))
      BY <2>4, <3>1, <3>3 DEF ActiveAfter, NoTouch
    <3> QED
      BY <2>1, <2>4, <3>4 DEF Scroll, EvidenceInv
  <2>5. CASE gestureUp /\ Current.hint = "MagicMouseOnly"
    <3>1. classifier'.hint = "MagicMouseOnly"
      BY <2>1, <2>5, CurrentFacts, ClassifiedFacts DEF Scroll
    <3> QED
      BY <3>1 DEF EvidenceInv
  <2>6. CASE gestureUp /\ Current # classifier /\ Current.hint # "MagicMouseOnly"
    <3>1. Plain(Current)
      BY <1>n, <2>6, CurrentFacts
    <3> QED
      BY <2>4, <2>6, <3>1
  <2> QED
    BY <1>0, <2>2, <2>3, <2>4, <2>5, <2>6 DEF EvidenceInv
<1>7. CASE \E present \in Inventories : ConnectPads(present)
  BY <1>7 DEF ConnectPads, historyVars, EvidenceInv
<1>8. CASE \E a \in Addresses, w \in Wheels \cup {None} : Plug(a, w)
  BY <1>8 DEF Plug, historyVars, EvidenceInv
<1>9. CASE \E c \in Configs : Configure(c)
  BY <1>9 DEF Configure, EvidenceInv
<1>10. CASE Tick
  <2>1. /\ classifier'.touch.kind = classifier.touch.kind
        /\ classifier'.hint = classifier.hint
        /\ classifier'.lastKind = classifier.lastKind
        /\ classifier'.active = classifier.active
    BY <1>0, <1>10, AgedFacts, AgedTouchType DEF Tick, Classifiers
  <2> QED
    BY <1>10, <2>1 DEF Tick, EvidenceInv
<1>11. CASE UNCHANGED vars
  BY <1>11 DEF vars, inputVars, historyVars, EvidenceInv
<1> QED
  BY <1>1, <1>2, <1>3, <1>4, <1>5, <1>6, <1>7, <1>8, <1>9, <1>10, <1>11 DEF Next

(* A touch reaches the classifier and the history together, a scroll takes  *)
(* it from both, and only the inventory makes the live hint move. *)
LEMMA TouchStep ==
  ASSUME TypeOK, TouchInv, [Next]_vars
  PROVE  TouchInv'
<1>0. /\ classifier \in Classifiers /\ liveHint \in Hints \cup {"none"} /\ sensed \in TouchType
      /\ running \in BOOLEAN /\ gestureUp \in BOOLEAN /\ moved \in BOOLEAN
  BY DEF TypeOK, Classifiers
<1>1. CASE Start
  <2>1. /\ classifier'.touch = NoTouch
        /\ liveHint' = "none" \/ liveHint' = classifier'.hint
    BY <1>1, HintOfType, NewFacts DEF Start, Hints
  <2>2. running' /\ sensed' = NoTouch
    BY <1>1 DEF Start, historyVars, TouchInv
  <2> QED
    BY <2>1, <2>2 DEF TouchInv, Current, UpdateHint
<1>2. CASE Stop
  BY <1>2 DEF Stop, TouchInv
<1>3. CASE \E fingers \in 0 .. 2 : Touch(fingers)
  <2>1. PICK fingers \in 0 .. 2 : Touch(fingers)
    BY <1>3
  <2>2. CASE fingers = 0
    BY <2>1, <2>2
    DEF Touch, ObserveGesture, historyVars, inputVars, TouchInv, Current
  <2>3. CASE fingers # 0
    <3>1. /\ classifier'.touch = [kind |-> TouchedBy(fingers), age |-> 0]
          /\ classifier'.hint = classifier.hint
      BY <1>0, <2>1, <2>3, ObserveFacts DEF Touch
    <3>2. /\ sensed' = [kind |-> TouchedBy(fingers), age |-> 0]
          /\ UNCHANGED <<running, liveHint, gestureUp, moved>>
          /\ running
      BY <2>1, <2>3 DEF Touch
    <3>3. ~moved => liveHint = "none" \/ liveHint = classifier.hint
      BY <1>0, <3>2, CurrentFacts DEF TouchInv
    <3> QED
      BY <3>1, <3>2, <3>3 DEF TouchInv, Current, UpdateHint
  <2> QED
    BY <2>2, <2>3
<1>4. CASE \E a \in Addresses : WheelTick(a)
  BY <1>4 DEF WheelTick, TouchInv, Current
<1>5. CASE InventoryChanged
  <2>1. /\ running /\ UNCHANGED <<running, classifier, sensed, gestureUp>>
        /\ moved' = (moved \/ liveHint' # liveHint)
    BY <1>5 DEF InventoryChanged
  <2>2. ~moved' => ~moved /\ liveHint' = liveHint
    BY <2>1
  <2> QED
    BY <2>1, <2>2 DEF TouchInv, Current
<1>6. CASE \E e \in Events : Scroll(e)
  <2>1. PICK e \in Events : Scroll(e)
    BY <1>6
  <2>2. Current \in Classifiers /\ (liveHint # "none" => Current.hint = liveHint)
    BY CurrentFacts
  <2>3. classifier'.hint = Current.hint
    BY <2>1, <2>2, ClassifiedFacts DEF Scroll
  <2>4. gestureUp' => classifier'.touch = NoTouch
    BY <2>1, <2>2, ClassifiedFacts DEF Scroll
  <2>5. /\ sensed' = NoTouch /\ running' = running /\ running /\ liveHint' = liveHint
    BY <2>1 DEF Scroll
  <2> QED
    BY <2>2, <2>3, <2>4, <2>5 DEF TouchInv, Current, UpdateHint
<1>7. CASE \E present \in Inventories : ConnectPads(present)
  BY <1>7 DEF ConnectPads, historyVars, TouchInv, Current
<1>8. CASE \E a \in Addresses, w \in Wheels \cup {None} : Plug(a, w)
  BY <1>8 DEF Plug, historyVars, TouchInv, Current
<1>9. CASE \E c \in Configs : Configure(c)
  BY <1>9 DEF Configure, TouchInv, Current
<1>10. CASE Tick
  <2>1. classifier'.touch = AgedTouch(classifier.touch) /\ classifier'.hint = classifier.hint
    BY <1>0, <1>10, AgedFacts DEF Tick
  <2>2. /\ sensed' = AgedTouch(sensed)
        /\ UNCHANGED <<running, liveHint, gestureUp, moved, gesture>>
    BY <1>10 DEF Tick
  <2>3. running /\ ~moved => liveHint = "none" \/ liveHint = classifier.hint
    BY <1>0, CurrentFacts DEF TouchInv
  <2> QED
    BY <2>1, <2>2, <2>3 DEF TouchInv, Current, UpdateHint, AgedTouch
<1>11. CASE UNCHANGED vars
  BY <1>11 DEF vars, inputVars, historyVars, TouchInv, Current
<1> QED
  BY <1>1, <1>2, <1>3, <1>4, <1>5, <1>6, <1>7, <1>8, <1>9, <1>10, <1>11 DEF Next

(* A tick either reads the device or finds what it last read of the same    *)
(* address: then the wheel is the same, or it is the heir. *)
LEMMA WheelStep ==
  ASSUME TypeOK, WheelInv, [Next]_vars
  PROVE  WheelInv'
<1>1. CASE UNCHANGED <<wheel, ticker>>
  BY <1>1 DEF WheelInv
<1>2. CASE \E a \in Addresses : WheelTick(a)
  <2>1. PICK a \in Addresses : WheelTick(a)
    BY <1>2
  <2>2. sockets[a] \in Wheels /\ a # None
    BY <2>1, InputsAssumption DEF WheelTick, TypeOK
  <2>3. /\ wheel' = [token    |-> a,
                     identity |-> IF Cached(a) THEN wheel.identity ELSE IdentityOf[sockets[a]],
                     source   |-> IF Cached(a) THEN wheel.source ELSE SourceOf[sockets[a]],
                     age      |-> 0]
        /\ ticker' = [wheel |-> sockets[a],
                      heir  |-> Cached(a) /\ (ticker.heir \/ ticker.wheel # sockets[a])]
    BY <2>1 DEF WheelTick, Cached
  <2>4. CASE ~Cached(a)
    BY <2>2, <2>3, <2>4 DEF WheelInv
  <2>5. CASE Cached(a) /\ ~ticker.heir /\ ticker.wheel = sockets[a]
    <3>1. wheel.token # None
      BY <2>2, <2>5 DEF Cached
    <3>2. wheel.identity = IdentityOf[sockets[a]] /\ wheel.source = SourceOf[sockets[a]]
      BY <2>5, <3>1 DEF WheelInv
    <3> QED
      BY <2>2, <2>3, <2>5, <3>2 DEF WheelInv
  <2>6. CASE Cached(a) /\ (ticker.heir \/ ticker.wheel # sockets[a])
    <3>1. ticker'.heir
      BY <2>3, <2>6
    <3>2. wheel'.token # None
      BY <2>2, <2>3
    <3> QED
      BY <3>1, <3>2 DEF WheelInv
  <2> QED
    BY <2>4, <2>5, <2>6
<1>3. CASE Tick
  <2>1. /\ wheel \in [token : Addresses \cup {None},
                      identity : {IdentityOf[w] : w \in Wheels} \cup {None},
                      source : {"Physical", "Virtual", "Unknown"},
                      age : 0 .. IdleAge + 1]
        /\ wheel' = [wheel EXCEPT !.age = Older(@, IdleAge + 1)]
        /\ ticker' = ticker
    BY <1>3 DEF Tick, TypeOK
  <2>2. IdleAge + 1 \in Nat /\ wheel.age \in 0 .. IdleAge + 1
    BY <2>1, AgesAssumption
  <2>3. wheel.age = IdleAge + 1 => wheel'.age = IdleAge + 1
    BY <2>1, <2>2, OlderFacts
  <2>4. /\ wheel'.token = wheel.token /\ wheel'.identity = wheel.identity
        /\ wheel'.source = wheel.source
    BY <2>1
  <2> QED
    BY <2>1, <2>3, <2>4 DEF WheelInv
<1> QED
  BY <1>1, <1>2, <1>3
  DEF Next, Start, Stop, Touch, InventoryChanged, Scroll, ConnectPads, Plug, Configure,
      vars, inputVars, historyVars

(* The kinds of a gesture with both sources, when nothing was sensed. *)
LEMMA UntouchedKinds ==
  ASSUME NEW c, NEW e, c.touch = NoTouch
  PROVE  /\ Observed(c) = "none"
         /\ e.phase = "Changed" =>
              KindWithBoth(c, e) = IF c.active = "none" THEN "Trackpad" ELSE c.active
         /\ e.phase \in {"Ended", "Cancelled"} =>
              KindWithBoth(c, e) = IF c.active = "none" THEN "Trackpad" ELSE c.active
         /\ e.phase = "Began" => KindWithBoth(c, e) = "Trackpad"
BY DEF Observed, NoTouch, KindWithBoth, DirectPhases, DirectKind, FirstOf, Fallback

(* What the touch invariant says of the next gesture. *)
LEMMA TouchImplies ==
  ASSUME TypeOK, TouchInv
  PROVE  TouchDecidesOnce
<1> SUFFICES ASSUME gestureUp, Current.hint = "Both",
                    NEW e \in Events, e.continuous, e.phase = "Began"
             PROVE  LET recent == sensed.kind # "none" /\ sensed.age < TouchWindow IN
                    /\ KindFor(e) = "MagicMouse" => recent /\ sensed.kind = "MagicMouse"
                    /\ recent /\ ~moved => KindFor(e) = sensed.kind
  BY DEF TouchDecidesOnce
<1>1. KindFor(e) = KindWithBoth(Current, e)
  BY DEF KindFor, KindOf
<1>2. running
  BY DEF TouchInv, TypeOK
<1>3. CASE Current = classifier
  <2>1. Current.touch = sensed
    BY <1>3 DEF TouchInv
  <2>2. KindWithBoth(Current, e) = FirstOf(Observed(Current), "Trackpad")
    BY DEF KindWithBoth, DirectPhases, DirectKind, Fallback
  <2> QED
    BY <1>1, <2>1, <2>2 DEF FirstOf, Observed
<1>4. CASE Current # classifier
  <2>1. Current.touch = NoTouch
    BY <1>4, CurrentFacts, NewFacts
  <2>2. KindWithBoth(Current, e) = "Trackpad"
    BY <2>1, UntouchedKinds
  <2>3. moved
    BY <1>2, <1>4 DEF TouchInv
  <2> QED
    BY <1>1, <2>2, <2>3
<1> QED
  BY <1>3, <1>4

(* What the evidence invariant says of the next scroll. *)
LEMMA EvidenceImplies ==
  ASSUME TypeOK, EvidenceInv
  PROVE  MagicMouseNeedsEvidence
<1> SUFFICES ASSUME NEW e \in Events, e.continuous, KindFor(e) = "MagicMouse",
                    Current.hint # "MagicMouseOnly"
             PROVE  proven
  BY DEF MagicMouseNeedsEvidence
<1>1. gestureUp /\ KindOf(Current, e) = "MagicMouse"
  BY DEF KindFor, KindWithoutGesture
<1>2. KindWithBoth(Current, e) = "MagicMouse"
  BY <1>1 DEF KindOf
<1>3. "MagicMouse" \in {Current.touch.kind, Current.lastKind, Current.active}
  BY <1>2 DEF KindWithBoth, DirectKind, MomentumKind, FirstOf, Observed, Fallback
<1>4. Current = classifier
  <2> SUFFICES ASSUME Current # classifier PROVE FALSE
    OBVIOUS
  <2>1. /\ Current.touch = NoTouch /\ Current.active = "none"
        /\ Current.lastKind = IF liveHint = "MagicMouseOnly" THEN "MagicMouse" ELSE "Trackpad"
        /\ Current.hint = liveHint
    BY CurrentFacts, NewFacts
  <2> QED
    BY <1>3, <2>1 DEF NoTouch
<1> QED
  BY <1>1, <1>3, <1>4 DEF EvidenceInv

(* What the wheel invariant says of an attributed event. *)
LEMMA WheelImplies ==
  ASSUME TypeOK, WheelInv
  PROVE  IdentityOfTicker
<1> SUFFICES ASSUME NEW e \in Events, Accepted(e)
             PROVE  /\ ~e.continuous /\ ~e.posted
                    /\ wheel.age <= TimeoutAge
                    /\ \/ ticker.heir
                       \/ /\ ticker.wheel \in Wheels
                          /\ IdentityFor(e) = IdentityOf[ticker.wheel]
                          /\ SourceFor(e) = SourceOf[ticker.wheel]
  BY DEF IdentityOfTicker
<1>1. HighAge \in Nat /\ TimeoutAge \in Nat /\ IdleAge \in Nat
      /\ HighAge <= TimeoutAge /\ TimeoutAge <= IdleAge
  BY AgesAssumption
<1>2. wheel.age \in 0 .. IdleAge + 1
  BY DEF TypeOK
<1>3. Attributable(e) /\ (wheel.age <= HighAge \/ wheel.age <= TimeoutAge)
  BY DEF Accepted, Attribution, Attributable
<1>4. wheel.age <= TimeoutAge
  BY <1>1, <1>2, <1>3
<1>5. wheel.token # None
  <2>1. wheel.age # IdleAge + 1
    BY <1>1, <1>2, <1>4
  <2> QED
    BY <2>1 DEF WheelInv
<1>6. IdentityFor(e) = wheel.identity /\ SourceFor(e) = wheel.source
  BY DEF IdentityFor, SourceFor
<1> QED
  BY <1>3, <1>4, <1>5, <1>6 DEF Attributable, WheelInv

PathInv == TypeOK /\ EvidenceInv /\ TouchInv /\ WheelInv

(* The invariants hold of the initial state. *)
LEMMA PathInit ==
  ASSUME Init
  PROVE  PathInv
<1>1. TypeOK
  BY InitTypes DEF TypesAtStart
<1> QED
  BY <1>1 DEF Init, PathInv, EvidenceInv, TouchInv, WheelInv, NoWheel, NoGesture, NoTouch

(* The invariants hold of every state. *)
LEMMA PathInvariant == Spec => []PathInv
<1>1. Init => PathInv
  BY PathInit
<1>2. PathInv /\ [Next]_vars => PathInv'
  BY StepTypes, EvidenceStep, TouchStep, WheelStep DEF PathInv
<1> QED
  BY <1>1, <1>2, PTL DEF Spec

(* A touch decides the scroll it was sensed for, and no later one. *)
THEOREM TouchesDecideOnce == Spec => []TouchDecidesOnce
<1>1. PathInv => TouchDecidesOnce
  BY TouchImplies DEF PathInv
<1> QED
  BY <1>1, PathInvariant, PTL

(* No scroll counts as a Magic Mouse's without positive evidence. *)
THEOREM MagicMiceAreProven == Spec => []MagicMouseNeedsEvidence
<1>1. PathInv => MagicMouseNeedsEvidence
  BY EvidenceImplies DEF PathInv
<1> QED
  BY <1>1, PathInvariant, PTL

(* An event that is given an identity is given that of the wheel that       *)
(* ticked, unless an address was taken over. *)
THEOREM IdentitiesAreTickers == Spec => []IdentityOfTicker
<1>1. PathInv => IdentityOfTicker
  BY WheelImplies DEF PathInv
<1> QED
  BY <1>1, PathInvariant, PTL

-------------------------------------------------------------------------------
(* A gesture in progress.                                                   *)

(* What transform_event is told of a continuous event of the hardware. *)
DirectInput(kind) ==
    [kind |-> kind, identity |-> None, source |-> "NotObserved",
     synthetic |-> FALSE, posted |-> FALSE, continuous |-> TRUE]

(* A gesture in progress is the hint's kind, or the one it is pinned to, and *)
(* flips what the present configuration flips of that kind. *)
GestureInv ==
    gesture.kind # "none" =>
        /\ Current = classifier
        /\ gestureUp => classifier.touch = NoTouch
        /\ classifier.hint = "MagicMouseOnly" => gesture.kind = "MagicMouse"
        /\ classifier.hint \in {"TrackpadOnly", "Unknown"} => gesture.kind = "Trackpad"
        /\ classifier.hint = "Both" =>
             gesture.kind = IF gestureUp THEN classifier.active ELSE "Trackpad"
        /\ gesture.flips = TransformEvent(config, DirectInput(gesture.kind)).flips

(* A continuous event is told by its kind and its origin alone. *)
LEMMA DirectInputs ==
  ASSUME NEW e \in EventType, e.continuous
  PROVE  /\ KindFor(ByHardware(e)) = KindFor(e)
         /\ Transform(ByHardware(e)) = TransformEvent(config, DirectInput(KindFor(e)))
         /\ e = ByHardware(e) =>
              Transform(e) = TransformEvent(config, DirectInput(KindFor(e)))
<1> DEFINE h == ByHardware(e)
<1>1. /\ h.continuous = e.continuous /\ h.phase = e.phase /\ h.momentum = e.momentum
      /\ h.posted = FALSE /\ h.synthetic = FALSE
  BY DEF ByHardware, EventType
<1>2. e.continuous = TRUE
  BY DEF EventType
<1> HIDE DEF h
<1>3. KindFor(h) = KindFor(e)
  BY <1>1 DEF KindFor, KindOf, KindWithoutGesture, KindWithBoth
<1>4. ~Accepted(h)
  BY <1>1, <1>2 DEF Accepted, Attribution, Attributable
<1>5. Input(h) = DirectInput(KindFor(e))
  BY <1>1, <1>2, <1>3, <1>4 DEF Input, DirectInput, IdentityFor, SourceFor
<1> QED
  BY <1>3, <1>5 DEF Transform, h

(* The kind of the event that continues or ends a gesture. *)
LEMMA ContinuedKind ==
  ASSUME TypeOK, GestureInv, gesture.kind # "none",
         NEW e \in Events, e.continuous, e.phase \in {"Changed", "Ended", "Cancelled"}
  PROVE  KindFor(e) = gesture.kind
<1>1. classifier.hint \in Hints /\ gesture.kind \in ContinuousKinds
  BY DEF TypeOK
<1>2. CASE classifier.hint # "Both" \/ ~gestureUp
  BY <1>1, <1>2 DEF GestureInv, KindFor, KindOf, KindWithoutGesture, Hints
<1>3. CASE classifier.hint = "Both" /\ gestureUp
  <2>1. classifier.active = gesture.kind /\ classifier.touch = NoTouch /\ Current = classifier
    BY <1>3 DEF GestureInv
  <2>2. KindWithBoth(classifier, e) = classifier.active
    BY <1>1, <2>1, UntouchedKinds DEF ContinuousKinds
  <2> QED
    BY <1>3, <2>1, <2>2 DEF KindFor, KindOf
<1> QED
  BY <1>2, <1>3

(* A step that ends no gesture and begins none leaves it as it was. *)
LEMMA GestureStep ==
  ASSUME TypeOK, TouchInv, GestureInv, [Next]_vars
  PROVE  GestureInv'
<1>0. classifier \in Classifiers /\ Current \in Classifiers /\ gestureUp \in BOOLEAN
  BY CurrentFacts DEF TypeOK, Classifiers
<1>1. CASE Start
  <2>1. gesture'.kind = "none"
    BY <1>1 DEF Start, historyVars, TouchInv, NoGesture
  <2> QED
    BY <2>1 DEF GestureInv
<1>2. CASE Stop
  BY <1>2 DEF Stop, GestureInv, NoGesture
<1>3. CASE \E fingers \in 0 .. 2 : Touch(fingers)
  <2>1. PICK fingers \in 0 .. 2 : Touch(fingers)
    BY <1>3
  <2>2. CASE fingers = 0
    BY <2>1, <2>2
    DEF Touch, ObserveGesture, inputVars, historyVars, GestureInv, Current
  <2>3. CASE fingers # 0
    <3>1. gesture' = NoGesture
      BY <2>1, <2>3 DEF Touch
    <3> QED
      BY <3>1 DEF GestureInv, NoGesture
  <2> QED
    BY <2>2, <2>3
<1>4. CASE \E a \in Addresses : WheelTick(a)
  BY <1>4 DEF WheelTick, inputVars, GestureInv, Current
<1>5. CASE InventoryChanged
  <2>1. CASE liveHint' # liveHint
    BY <1>5, <2>1 DEF InventoryChanged, GestureInv, NoGesture
  <2>2. CASE liveHint' = liveHint
    BY <1>5, <2>2 DEF InventoryChanged, GestureInv, Current
  <2> QED
    BY <2>1, <2>2
<1>6. CASE \E e \in Events : Scroll(e)
  <2>1. PICK e \in Events : Scroll(e)
    BY <1>6
  <2>2. e \in EventType
    BY InputsAssumption
  <2>3. /\ classifier' = IF gestureUp THEN Classified(Current, e) ELSE Current
        /\ gesture' = GestureAfter(e)
        /\ UNCHANGED <<config, liveHint, gestureUp>>
    BY <2>1 DEF Scroll, inputVars
  <2>4. classifier'.hint = Current.hint
    BY <1>0, <2>3, ClassifiedFacts
  <2>5. Current' = classifier'
    BY <2>3, <2>4, CurrentFacts DEF Current, UpdateHint
  <2>6. CASE e.continuous /\ e.phase \in {"Ended", "Cancelled"}
    <3>1. gesture' = NoGesture
      BY <2>3, <2>6 DEF GestureAfter
    <3> QED
      BY <3>1 DEF GestureInv, NoGesture
  <2>7. CASE e.continuous /\ e.phase = "Began"
    <3>1. gesture'.kind = KindFor(e) /\ KindFor(e) \in ContinuousKinds
      BY <2>3, <2>7, KindForType DEF GestureAfter
    <3>2. gesture'.flips = TransformEvent(config', DirectInput(gesture'.kind)).flips
      BY <2>2, <2>3, <2>7, <3>1, DirectInputs DEF GestureAfter
    <3>3. /\ classifier'.hint = "MagicMouseOnly" => gesture'.kind = "MagicMouse"
          /\ classifier'.hint \in {"TrackpadOnly", "Unknown"} => gesture'.kind = "Trackpad"
      BY <2>4, <2>7, <3>1 DEF KindFor, KindOf, KindWithoutGesture
    <3>4. CASE gestureUp
      <4>1. classifier'.touch = NoTouch
        BY <1>0, <2>3, <3>4, ClassifiedFacts
      <4>2. classifier'.hint = "Both" => classifier'.active = gesture'.kind
        BY <1>0, <2>3, <2>4, <2>7, <3>1, <3>4, ClassifiedFacts DEF KindFor, ActiveAfter
      <4> QED
        BY <2>3, <2>5, <3>2, <3>3, <3>4, <4>1, <4>2 DEF GestureInv
    <3>5. CASE ~gestureUp
      <4>1. classifier'.hint = "Both" => gesture'.kind = "Trackpad"
        BY <2>4, <2>7, <3>1, <3>5 DEF KindFor, KindWithoutGesture
      <4> QED
        BY <2>3, <2>5, <3>2, <3>3, <3>5, <4>1 DEF GestureInv
    <3> QED
      BY <1>0, <3>4, <3>5
  <2>8. CASE ~(e.continuous /\ e.phase \in {"Began", "Ended", "Cancelled"})
    <3>1. gesture' = gesture
      BY <2>3, <2>8 DEF GestureAfter
    <3>2. CASE gesture.kind = "none"
      BY <3>1, <3>2 DEF GestureInv
    <3>3. CASE gesture.kind # "none"
      <4>1. Current = classifier
        BY <3>3 DEF GestureInv
      <4>2. CASE ~gestureUp
        BY <2>3, <2>5, <3>1, <3>3, <4>1, <4>2 DEF GestureInv
      <4>3. CASE gestureUp
        <5>1. classifier'.touch = NoTouch
          BY <1>0, <2>3, <4>3, ClassifiedFacts
        <5>2. classifier.hint = "Both" => classifier'.active = classifier.active
          <6>1. CASE e.continuous /\ e.phase = "Changed" /\ classifier.hint = "Both"
            <7>1. KindFor(e) = gesture.kind /\ gesture.kind = classifier.active
              BY <3>3, <4>3, <6>1, ContinuedKind DEF GestureInv
            <7> QED
              BY <1>0, <2>3, <4>1, <4>3, <6>1, <7>1, ClassifiedFacts DEF KindFor, ActiveAfter
          <6>2. CASE ~(e.continuous /\ e.phase = "Changed")
            BY <1>0, <2>3, <2>8, <4>1, <4>3, <6>2, ClassifiedFacts DEF ActiveAfter
          <6> QED
            BY <6>1, <6>2
        <5> QED
          BY <2>3, <2>4, <2>5, <3>1, <3>3, <4>1, <4>3, <5>1, <5>2 DEF GestureInv
      <4> QED
        BY <1>0, <4>2, <4>3
    <3> QED
      BY <3>2, <3>3
  <2> QED
    BY <2>6, <2>7, <2>8
<1>7. CASE \E present \in Inventories : ConnectPads(present)
  BY <1>7 DEF ConnectPads, historyVars, GestureInv, Current
<1>8. CASE \E a \in Addresses, w \in Wheels \cup {None} : Plug(a, w)
  BY <1>8 DEF Plug, historyVars, GestureInv, Current
<1>9. CASE \E c \in Configs : Configure(c)
  BY <1>9 DEF Configure, GestureInv, NoGesture
<1>10. CASE Tick
  <2>1. /\ classifier'.touch = AgedTouch(classifier.touch)
        /\ classifier'.hint = classifier.hint
        /\ classifier'.active = classifier.active
    BY <1>0, <1>10, AgedFacts DEF Tick
  <2>2. UNCHANGED <<config, liveHint, gestureUp, gesture>>
    BY <1>10 DEF Tick, inputVars
  <2>3. gesture.kind # "none" => liveHint = "none" \/ liveHint = classifier.hint
    BY <1>0, CurrentFacts DEF GestureInv
  <2> QED
    BY <2>1, <2>2, <2>3 DEF GestureInv, Current, UpdateHint, AgedTouch
<1>11. CASE UNCHANGED vars
  BY <1>11 DEF vars, inputVars, historyVars, GestureInv, Current
<1> QED
  BY <1>1, <1>2, <1>3, <1>4, <1>5, <1>6, <1>7, <1>8, <1>9, <1>10, <1>11 DEF Next

(* What the gesture invariant says of the event that goes on with it. *)
LEMMA GestureImplies ==
  ASSUME TypeOK, GestureInv
  PROVE  GestureSteady
<1> SUFFICES ASSUME gesture.kind # "none", NEW e \in Events, e.continuous,
                    e.phase \in {"Changed", "Ended", "Cancelled"}
             PROVE  /\ KindFor(e) = gesture.kind
                    /\ e.held = "free" /\ e = ByHardware(e) =>
                         Delivered(e).flips = gesture.flips
  BY DEF GestureSteady
<1>1. KindFor(e) = gesture.kind
  BY ContinuedKind
<1>2. e \in EventType
  BY InputsAssumption
<1> QED
  BY <1>1, <1>2, DirectInputs DEF GestureInv, Delivered

(* A gesture keeps its kind and the axes it flips from beginning to end. *)
THEOREM GesturesAreSteady == Spec => []GestureSteady
<1> DEFINE GInv == PathInv /\ GestureInv
<1>1. Init => GInv
  <2> SUFFICES ASSUME Init PROVE GInv
    OBVIOUS
  <2>1. gesture.kind = "none"
    BY DEF Init, NoGesture
  <2> QED
    BY <2>1, PathInit DEF GestureInv
<1>2. GInv /\ [Next]_vars => GInv'
  BY StepTypes, EvidenceStep, TouchStep, WheelStep, GestureStep DEF PathInv
<1>3. GInv => GestureSteady
  BY GestureImplies DEF PathInv
<1> QED
  BY <1>1, <1>2, <1>3, PTL DEF Spec
================================================================================
