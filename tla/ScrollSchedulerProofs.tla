------------------------ MODULE ScrollSchedulerProofs -------------------------
(***************************************************************************)
(* Theorems about ScrollScheduler for every preset, interval, time to live *)
(* and gap, every set of inputs and up to the largest timestamp: types, the*)
(* lease covers the tails, the ledger balances, a sample that may be posted*)
(* is near an input, and a lease is sampled once.                          *)
(***************************************************************************)
EXTENDS ScrollScheduler, TLAPS

USE DynamicsAssumption, SchedulerAssumption DEF DynamicsAssumption, SchedulerAssumption

(* An axis in any reachable state: its tail belongs to its latest input. *)
AxisInv(x) ==
    /\ x \in AxisStates
    /\ x.input <= x.last
    /\ x.input # Never => x.generation > 0
    /\ x.owed = x.pending
    /\ Active(x) => /\ TailDuration # 0
                    /\ Direction(x.pending) = x.direction
                    /\ x.input # Never
                    /\ x.deadline <= x.input + TailDuration

-------------------------------------------------------------------------------
(* finish_emission touches nothing but the ledger. *)
LEMMA FinishFacts ==
  ASSUME NEW x \in AxisStates, NEW e \in Int
  PROVE  LET y == Finish(x, e)
         IN  /\ y \in AxisStates /\ y.last = x.last /\ y.input = x.input
             /\ y.direction = x.direction /\ y.generation = x.generation
             /\ y.pending = x.pending /\ y.deadline = x.deadline
             /\ y.owed = IF x.pending = 0 THEN 0 ELSE x.owed - e
<1> DEFINE o == IF x.pending = 0 THEN 0 ELSE x.owed - e
<1>1. o \in Int
  BY DEF AxisStates
<1>2. Finish(x, e) = [x EXCEPT !.owed = o]
  BY DEF Finish, AxisStates
<1> HIDE DEF o
<1>3. LET y == [x EXCEPT !.owed = o]
      IN  /\ y \in AxisStates /\ y.last = x.last /\ y.input = x.input
          /\ y.direction = x.direction /\ y.generation = x.generation
          /\ y.pending = x.pending /\ y.deadline = x.deadline
          /\ y.owed = o
  BY <1>1 DEF AxisStates
<1> QED
  BY <1>2, <1>3 DEF o

(* cancel_pending ends the tail and forgives what it owed, nothing else. *)
LEMMA CancelFacts ==
  ASSUME NEW x \in AxisStates
  PROVE  LET c == CancelPending(x)
         IN  /\ c \in AxisStates /\ c.last = x.last /\ c.input = x.input
             /\ c.generation = x.generation /\ c.deadline = x.deadline
             /\ c.pending = 0 /\ c.owed = 0
<1> DEFINE c == [x EXCEPT !.pending = 0]
<1>1. /\ c \in AxisStates /\ c.last = x.last /\ c.input = x.input
      /\ c.generation = x.generation /\ c.deadline = x.deadline
      /\ c.pending = 0
  BY DEF AxisStates
<1>2. CancelPending(x) = [c EXCEPT !.owed = 0]
  BY DEF CancelPending
<1> HIDE DEF c
<1> QED
  BY <1>1, <1>2 DEF AxisStates

(* A tail is kept as it is or not at all. *)
LEMMA SettleChoice == ASSUME NEW d \in Int PROVE Settle(d) = 0 \/ Settle(d) = d
  BY DEF Settle

(* What is left of a tail is a share of it, and an idle axis has nothing. *)
LEMMA RemainingShare ==
  ASSUME NEW x, x \in AxisStates, NEW t \in Timestamps, NEW left \in Remaining(x, t)
  PROVE  left \in Int /\ (left # 0 => Active(x) /\ Direction(left) = Direction(x.pending))
<1>0. x.pending \in Int /\ x.sampled \in Int /\ x.deadline \in Int /\ t \in Int
  BY DEF AxisStates, Timestamps
<1>1. CASE left = 0
  BY <1>1
<1>2. CASE left = x.pending
  BY <1>0, <1>2 DEF Active
<1>3. CASE left # 0 /\ left # x.pending
  <2>1. PICK d \in Shares(x.pending) : left = Settle(d)
    BY <1>3 DEF Remaining
  <2>2. d \in Int
    BY <1>0, <2>1 DEF Shares
  <2>3. left = d
    BY <1>3, <2>1, <2>2, SettleChoice
  <2> QED
    BY <1>0, <1>3, <2>1, <2>2, <2>3 DEF Shares, Active, Direction
<1> QED
  BY <1>1, <1>2, <1>3

(* The session an accepted input belongs to. *)
LEMMA SessionFacts ==
  ASSUME NEW x, AxisInv(x), NEW t \in Timestamps, NEW d \in Int,
         ~InputRejected(x, t, d)
  PROVE  LET s == InSession(x, t, d)
         IN  /\ s \in AxisStates
             /\ s.input = x.input /\ s.last = x.last /\ s.deadline = x.deadline
             /\ s.owed = s.pending
             /\ Active(s) => Active(x) /\ s = x
             /\ d = 0 => s = x
             /\ d # 0 => s.generation > 0
             /\ s.generation # x.generation => d # 0
             /\ d # 0 /\ Active(s) => Direction(s.pending) = Direction(d)
<1> DEFINE b == Boundary(x, t, d)
<1>0. x.generation \in 0..U64Max /\ (b # "none" => x.generation + 1 \in 0..U64Max)
  BY DEF InputRejected, AxisInv, AxisStates
<1>1. CASE b = "none"
  <2>1. InSession(x, t, d) = x
    BY <1>1 DEF InSession
  <2>2. d # 0 => x.input # Never
    BY <1>1 DEF Boundary
  <2>3. ASSUME d # 0, Active(x) PROVE Direction(x.pending) = Direction(d)
    <3>1. x.direction # 0 => x.direction = Direction(d)
      BY <1>1, <2>3 DEF Boundary
    <3>2. x.direction # 0
      BY <2>3 DEF AxisInv, AxisStates, Active, Direction
    <3> QED
      BY <2>3, <3>1, <3>2 DEF AxisInv
  <2> QED
    BY <2>1, <2>2, <2>3 DEF AxisInv
<1>2. CASE b = "initial"
  <2> DEFINE s == [x EXCEPT !.generation = @ + 1, !.direction = 0]
  <2>1. InSession(x, t, d) = s
    BY <1>2 DEF InSession
  <2>2. d # 0 /\ x.input = Never
    BY <1>2 DEF Boundary
  <2>3. s \in AxisStates /\ s.input = x.input /\ s.last = x.last
        /\ s.deadline = x.deadline /\ s.owed = x.owed /\ s.pending = x.pending
        /\ s.generation = x.generation + 1
    BY <1>0, <1>2 DEF AxisInv, AxisStates
  <2>4. ~Active(s) /\ s.owed = s.pending /\ s.generation > 0
    BY <1>0, <2>2, <2>3 DEF AxisInv, Active
  <2> HIDE DEF s
  <2> QED
    BY <2>1, <2>2, <2>3, <2>4
<1>3. CASE b \in {"gap", "reversal"}
  <2> DEFINE c == CancelPending(x)
             s == [c EXCEPT !.generation = @ + 1, !.direction = 0]
  <2>1. InSession(x, t, d) = s
    BY <1>3 DEF InSession
  <2>2. d # 0
    BY <1>3 DEF Boundary
  <2>3. c \in AxisStates /\ c.input = x.input /\ c.last = x.last
        /\ c.deadline = x.deadline /\ c.owed = 0 /\ c.pending = 0
        /\ c.generation = x.generation
    BY CancelFacts DEF AxisInv
  <2> HIDE DEF c
  <2>4. s \in AxisStates /\ s.input = x.input /\ s.last = x.last
        /\ s.deadline = x.deadline /\ s.owed = 0 /\ s.pending = 0
        /\ s.generation = x.generation + 1
    BY <1>0, <1>3, <2>3 DEF AxisStates
  <2>5. ~Active(s) /\ s.generation > 0
    BY <1>0, <2>4 DEF Active
  <2> HIDE DEF s
  <2> QED
    BY <2>1, <2>2, <2>4, <2>5
<1> QED
  BY <1>1, <1>2, <1>3 DEF Boundary

(* finish_emission keeps the ledger balanced if what was emitted is what    *)
(* the tail no longer owes.                                                 *)
LEMMA AdvancedInv ==
  ASSUME NEW x, AxisInv(x), NEW t \in Timestamps, x.last <= t,
         NEW left \in Remaining(x, t)
  PROVE  LET y == Advanced(x, t, left)
         IN  AxisInv(y) /\ y.last = t /\ y.input = x.input
             /\ y.generation = x.generation
             /\ (Active(y) => y.deadline = x.deadline /\ Active(x))
<1>1. left \in Int /\ (left # 0 => Active(x) /\ Direction(left) = Direction(x.pending))
  BY RemainingShare DEF AxisInv
<1> DEFINE z == [x EXCEPT !.last = t, !.pending = left, !.sampled = t]
           y == Finish(z, x.pending - left)
<1>2. Advanced(x, t, left) = y
  BY DEF Advanced
<1>3. z \in AxisStates /\ z.owed = x.pending /\ z.pending = left /\ z.last = t
      /\ z.input = x.input /\ z.direction = x.direction
      /\ z.deadline = x.deadline /\ z.generation = x.generation
  BY <1>1 DEF AxisInv, AxisStates
<1> HIDE DEF z
<1>7. y \in AxisStates /\ y.owed = left /\ y.pending = left /\ y.last = t
      /\ y.input = x.input /\ y.direction = x.direction
      /\ y.deadline = x.deadline /\ y.generation = x.generation
  BY <1>1, <1>3 DEF AxisInv, AxisStates, Finish
<1>4. x.input \in Int /\ x.last \in Int /\ t \in Int
  BY DEF AxisInv, AxisStates, Timestamps, Never
<1>5. Active(y) => left # 0
  BY <1>7 DEF Active
<1>6. y.input <= y.last
  BY <1>7, <1>4 DEF AxisInv
<1> HIDE DEF y
<1> QED
  BY <1>1, <1>2, <1>5, <1>6, <1>7 DEF AxisInv

(* An accepted input leaves the axis in order, at the time of the input; a  *)
(* new session begins with an input.                                        *)
LEMMA InputInv ==
  ASSUME NEW x, AxisInv(x), NEW t \in Timestamps, NEW d \in Int,
         ~InputRejected(x, t, d), NEW y \in HandleInput(x, t, d)
  PROVE  /\ AxisInv(y) /\ y.last = t
         /\ y.input = IF d = 0 THEN x.input ELSE t
         /\ y.generation # x.generation => d # 0
<1> DEFINE s == InSession(x, t, d)
<1>1. /\ s \in AxisStates
      /\ s.input = x.input /\ s.last = x.last /\ s.deadline = x.deadline
      /\ s.owed = s.pending
      /\ Active(s) => Active(x) /\ s = x
      /\ d = 0 => s = x
      /\ d # 0 => s.generation > 0
      /\ s.generation # x.generation => d # 0
      /\ d # 0 /\ Active(s) => Direction(s.pending) = Direction(d)
  BY SessionFacts
<1>2. x.last <= t
  BY DEF InputRejected, AxisInv, AxisStates, Timestamps, Never
<1>3. CASE d = 0
  <2>1. PICK left \in Remaining(x, t) : y = Advanced(x, t, left)
    BY <1>1, <1>3 DEF HandleInput
  <2> QED
    BY <1>2, <1>3, <2>1, AdvancedInv
<1>4. CASE d # 0
  <2>1. PICK left \in Remaining(s, t), now \in Immediate(d) :
            y = AcceptedInput(s, t, d, left, now)
    BY <1>4 DEF HandleInput
  <2>2. left \in Int /\ (left # 0 => Active(s) /\ Direction(left) = Direction(s.pending))
    BY <1>1, <2>1, RemainingShare
  <2>3. now \in Shares(d) /\ now \in Int /\ (TailDuration = 0 => now = d)
    BY <1>4, <2>1 DEF Immediate, Shares
  <2> DEFINE p == Settle(left + d - now)
             end == IF left # 0 /\ s.deadline > t + TailDuration
                    THEN s.deadline ELSE t + TailDuration
  <2>4. p \in Int /\ (p = 0 \/ p = left + d - now)
    BY <2>2, <2>3, SettleChoice
  <2>5. p # 0 => Direction(p) = Direction(d) /\ TailDuration # 0
    <3>1. left # 0 => TailDuration # 0 /\ Direction(left) = Direction(d)
      BY <1>1, <1>4, <2>2 DEF AxisInv
    <3> QED
      BY <2>2, <2>3, <2>4, <3>1 DEF Direction, Shares
  <2>6. end = t + TailDuration /\ end \in Timestamps
    <3>1. left # 0 => s.deadline <= x.input + TailDuration
      BY <1>1, <2>2 DEF AxisInv
    <3>2. x.input <= t /\ x.input \in Int /\ s.deadline \in Int /\ t \in 0..U64Max
      BY <1>1, <1>2 DEF AxisInv, AxisStates, Timestamps, Never
    <3>3. TailDuration # 0 => t + TailDuration <= U64Max
      BY <1>4 DEF InputRejected, Timestamps
    <3> QED
      BY <3>1, <3>2, <3>3 DEF Timestamps
  <2> DEFINE z == [last |-> t, input |-> t, direction |-> Direction(d),
                   generation |-> s.generation, pending |-> p, sampled |-> t,
                   owed |-> s.owed + d, deadline |-> end]
  <2>7. y = Finish(z, s.pending - left + now)
    BY <2>1 DEF AcceptedInput
  <2>8. z \in AxisStates
    BY <1>1, <2>4, <2>6 DEF AxisStates, Direction
  <2>9. p # 0 => s.owed + d - (s.pending - left + now) = p
    BY <1>1, <2>2, <2>3, <2>4 DEF AxisStates
  <2>10. /\ y \in AxisStates /\ y.last = t /\ y.input = t
         /\ y.direction = Direction(d) /\ y.pending = p /\ y.owed = p
         /\ y.deadline = end /\ y.generation = s.generation
    <3> DEFINE e == s.pending - left + now
               o == s.owed + d
    <3>1. e \in Int /\ (p # 0 => o - e = p)
      BY <1>1, <2>2, <2>3, <2>9 DEF AxisStates
    <3> HIDE DEF p, end, e, o
    <3>2. /\ z.last = t /\ z.input = t /\ z.direction = Direction(d)
          /\ z.pending = p /\ z.owed = o /\ z.deadline = end
          /\ z.generation = s.generation
      BY DEF o
    <3>3. y = Finish(z, e)
      BY <2>7 DEF e
    <3> HIDE DEF z
    <3>4. /\ y \in AxisStates /\ y.last = z.last /\ y.input = z.input
          /\ y.direction = z.direction /\ y.generation = z.generation
          /\ y.pending = z.pending /\ y.deadline = z.deadline
          /\ y.owed = IF z.pending = 0 THEN 0 ELSE z.owed - e
      BY <2>8, <3>1, <3>3, FinishFacts
    <3> QED
      BY <3>1, <3>2, <3>4
  <2>11. y.input <= y.last /\ y.input # Never /\ y.generation > 0
    BY <1>1, <1>4, <2>10 DEF Timestamps, Never
  <2> HIDE DEF p, end
  <2> QED
    BY <1>1, <1>4, <2>5, <2>6, <2>10, <2>11 DEF AxisInv, Active
<1> QED
  BY <1>3, <1>4

(* A fresh dynamics is in order. *)
LEMMA FreshInv == AxisInv(Fresh) /\ Fresh.generation = 0 /\ ~Active(Fresh)
  BY DEF AxisInv, Fresh, AxisStates, Timestamps, Never, Active

-------------------------------------------------------------------------------
(* The schedule. *)

LEMMA EarliestFacts ==
  ASSUME NEW x \in [Axes -> AxisStates], Deadlines(x) # {}
  PROVE  /\ Earliest(Deadlines(x)) \in Deadlines(x) \cap Timestamps
         /\ \A u \in Deadlines(x) : Earliest(Deadlines(x)) <= u
<1> DEFINE D == Deadlines(x)
           v == x["vertical"].deadline
           h == x["horizontal"].deadline
<1>1. v \in Timestamps /\ h \in Timestamps
  BY DEF AxisStates, Axes
<1>2. D \subseteq {v, h}
  BY DEF Deadlines, Axes
<1>3. \E t \in D : \A u \in D : t <= u
  <2> HIDE DEF D, v, h
  <2>1. v \in Int /\ h \in Int
    BY <1>1 DEF Timestamps
  <2>2. CASE v \in D /\ (h \in D => v <= h)
    BY <1>2, <2>1, <2>2
  <2>3. CASE h \in D /\ (v \in D => h <= v)
    BY <1>2, <2>1, <2>3
  <2>4. v \in D \/ h \in D
    BY <1>2 DEF D
  <2> QED
    BY <2>1, <2>2, <2>3, <2>4
<1>4. Earliest(D) \in D /\ \A u \in D : Earliest(D) <= u
  <2> HIDE DEF D
  <2> QED
    BY <1>3 DEF Earliest
<1> QED
  BY <1>1, <1>2, <1>4

(* What a sync that does not fail leaves behind: a lease exactly when there *)
(* is a tail, with an id never used before and due by the first deadline.   *)
LEMMA SyncFacts ==
  ASSUME NEW x \in [Axes -> AxisStates], NEW now \in Timestamps,
         lastWakeId \in 0..U64Max, timers \in SUBSET Tokens,
         ~SyncFails(x, now), Sync(x, now)
  PROVE  /\ wake' \in SUBSET Tokens /\ \A v, w \in wake' : v = w
         /\ lastWakeId' \in 0..U64Max /\ lastWakeId <= lastWakeId'
         /\ timers' \in SUBSET Tokens
         /\ wake' = {} <=> \A a \in Axes : ~Active(x[a])
         /\ \A w \in wake' : /\ w.id = lastWakeId' /\ w.id > lastWakeId
                              /\ w.generation = Generation(x)
                              /\ \A a \in Axes : Active(x[a]) => w.due <= x[a].deadline
<1>0. Deadlines(x) = {} <=> \A a \in Axes : ~Active(x[a])
  BY DEF Deadlines
<1>1. CASE Deadlines(x) = {}
  BY <1>0, <1>1 DEF Sync
<1>2. CASE Deadlines(x) # {}
  <2> DEFINE token == [id |-> lastWakeId + 1, due |-> DueAt(x, now),
                       generation |-> Generation(x)]
             due == Earliest(Deadlines(x))
  <2>1. lastWakeId + 1 \in Ids
    BY <1>2 DEF SyncFails, Ids
  <2>2. due \in Timestamps /\ \A u \in Deadlines(x) : due <= u
    BY <1>2, EarliestFacts
  <2>3. DueAt(x, now) \in Timestamps /\ DueAt(x, now) <= due
    BY <2>2 DEF DueAt, Timestamps
  <2>4. ASSUME NEW a \in Axes, Active(x[a]) PROVE DueAt(x, now) <= x[a].deadline
    <3>1. x[a].deadline \in Deadlines(x) /\ x[a].deadline \in Timestamps
      BY <2>4 DEF Deadlines, AxisStates
    <3> HIDE DEF due
    <3> QED
      BY <2>2, <2>3, <3>1 DEF Timestamps
  <2>5. Generation(x) \in [Axes -> 0..U64Max]
    BY DEF Generation, AxisStates
  <2>6. token \in Tokens
    BY <2>1, <2>3, <2>5 DEF Tokens
  <2>7. wake' = {token} /\ lastWakeId' = lastWakeId + 1
        /\ (timers' = {token} \/ \E old \in timers : timers' = {token, old})
    BY <1>2 DEF Sync
  <2>8. token.id = lastWakeId + 1 /\ token.due = DueAt(x, now)
        /\ token.generation = Generation(x)
    OBVIOUS
  <2> HIDE DEF token
  <2> QED
    BY <1>0, <1>2, <2>1, <2>4, <2>6, <2>7, <2>8 DEF Ids
<1> QED
  BY <1>1, <1>2

-------------------------------------------------------------------------------
(* A sample the caller holds comes from a session with an input, and expires*)
(* close to an input of the present sessions if it is of these.             *)
HeldNear(s, x, now) ==
    /\ s.expires <= now + SampleTtl
    /\ TailDuration # 0
    /\ \E a \in Axes : s.generation[a] > 0
    /\ s.generation = Generation(x) =>
        \E a \in Axes : /\ x[a].input # Never
                        /\ s.expires <= x[a].input + TailDuration + SampleTtl

IInv ==
    /\ SchedulerTypeOK
    /\ \A a \in Axes : AxisInv(axes[a])
    /\ WakeCoversTails
    /\ sampled <= lastWakeId
    /\ \A w \in wake : w.id > sampled
    /\ \A s \in held : HeldNear(s, axes, clock)

(* Initially the dynamics are fresh and nothing is scheduled or held. *)
LEMMA InitInv == SchedulerInit => IInv
<1> SUFFICES ASSUME SchedulerInit PROVE IInv
  OBVIOUS
<1>1. axes \in [Axes -> AxisStates] /\ \A a \in Axes : axes[a] = Fresh
  BY FreshInv DEF SchedulerInit, AxisInv
<1>2. SchedulerTypeOK
  <2>1. /\ clock \in Timestamps /\ lastWakeId \in 0..U64Max
        /\ sampled \in 0..U64Max /\ events \in 0..MaxEvents
        /\ resets \in 0..MaxResets
    BY DEF SchedulerInit, Timestamps
  <2>2. wake = {} /\ timers = {} /\ held = {} /\ fault = FALSE
    BY DEF SchedulerInit
  <2> QED
    BY <1>1, <2>1, <2>2 DEF SchedulerTypeOK
<1>3. \A a \in Axes : AxisInv(axes[a])
  BY <1>1, FreshInv
<1>4. WakeCoversTails
  BY <1>1, FreshInv DEF SchedulerInit, WakeCoversTails
<1> QED
  BY <1>2, <1>3, <1>4 DEF SchedulerInit, IInv

(* A latched fault, whatever else the step does to the counters. *)
LEMMA LatchInv ==
  ASSUME IInv, LatchFault, UNCHANGED <<clock, held, sampled, resets>>,
         events' \in 0..MaxEvents
  PROVE  IInv'
<1>1. \A a \in Axes : axes'[a] = Fresh
  BY DEF LatchFault
<1>2. axes' \in [Axes -> AxisStates]
  BY FreshInv DEF LatchFault, AxisInv
<1>3. SchedulerTypeOK'
  BY <1>2 DEF IInv, SchedulerTypeOK, LatchFault
<1>4. (\A a \in Axes : AxisInv(axes[a]))'
  BY <1>1, FreshInv
<1>5. WakeCoversTails'
  BY <1>1, FreshInv DEF LatchFault, WakeCoversTails
<1>6. ASSUME NEW s \in held PROVE HeldNear(s, axes', clock')
  <2>1. HeldNear(s, axes, clock)
    BY DEF IInv
  <2>2. \A a \in Axes : Generation(axes')[a] = 0
    BY <1>1, FreshInv DEF Generation
  <2>3. \E a \in Axes : s.generation[a] > 0
    BY <2>1 DEF HeldNear
  <2>4. s.generation # Generation(axes')
    BY <2>2, <2>3
  <2> QED
    BY <2>1, <2>4 DEF HeldNear
<1> QED
  BY <1>3, <1>4, <1>5, <1>6 DEF IInv, LatchFault

(* An accepted event: each axis is in order, and a session that changes     *)
(* changes at the present.                                                  *)
LEMMA WheelInv ==
  ASSUME IInv, NEW t \in Stamps, NEW d \in Inputs, Wheel(t, d)
  PROVE  IInv'
<1>1. t \in Timestamps /\ clock <= t + 1 /\ d \in [Axes -> Int]
  BY DEF Stamps, Timestamps, IInv, SchedulerTypeOK
<1>2. events' \in 0..MaxEvents /\ UNCHANGED <<clock, held, sampled, resets>>
  BY DEF Wheel, IInv, SchedulerTypeOK
<1>3. PICK v \in HandleInput(axes["vertical"], t, d["vertical"]),
           h \in HandleInput(axes["horizontal"], t, d["horizontal"]) :
        LET x == [a \in Axes |-> IF a = "vertical" THEN v ELSE h]
        IN  IF SyncFails(x, t)
            THEN LatchFault
            ELSE axes' = x /\ Sync(x, t) /\ UNCHANGED fault
  BY DEF Wheel
<1> DEFINE x == [a \in Axes |-> IF a = "vertical" THEN v ELSE h]
<1>4. CASE SyncFails(x, t)
  BY <1>2, <1>3, <1>4, LatchInv
<1>5. CASE ~SyncFails(x, t)
  <2>1. ASSUME NEW a \in Axes
        PROVE  /\ AxisInv(x[a]) /\ AxisInv(axes[a])
               /\ x[a].last = t /\ axes[a].last <= t
               /\ x[a].input = IF d[a] = 0 THEN axes[a].input ELSE t
               /\ x[a].generation # axes[a].generation => d[a] # 0
    <3>1. AxisInv(axes[a]) /\ ~InputRejected(axes[a], t, d[a]) /\ d[a] \in Int
      BY <1>1 DEF IInv, Wheel
    <3>2. x[a] \in HandleInput(axes[a], t, d[a])
      BY <1>3 DEF Axes
    <3>3. axes[a].last <= t
      BY <3>1, <1>1 DEF InputRejected, AxisInv, AxisStates, Timestamps, Never
    <3> HIDE DEF x
    <3> QED
      BY <1>1, <3>1, <3>2, <3>3, InputInv
  <2>2. axes' = x /\ Sync(x, t) /\ UNCHANGED fault
    BY <1>3, <1>5
  <2>3. x \in [Axes -> AxisStates]
    <3>1. \A a \in Axes : x[a] \in AxisStates
      BY <2>1 DEF AxisInv
    <3> QED
      BY <3>1
  <2> HIDE DEF x
  <2>4. /\ wake' \in SUBSET Tokens /\ \A w, u \in wake' : w = u
        /\ lastWakeId' \in 0..U64Max /\ lastWakeId <= lastWakeId'
        /\ timers' \in SUBSET Tokens
        /\ wake' = {} <=> \A a \in Axes : ~Active(x[a])
        /\ \A w \in wake' : /\ w.id = lastWakeId' /\ w.id > lastWakeId
                             /\ w.generation = Generation(x)
                             /\ \A a \in Axes : Active(x[a]) => w.due <= x[a].deadline
    BY <1>1, <1>5, <2>2, <2>3, SyncFacts DEF IInv, SchedulerTypeOK
  <2>5. SchedulerTypeOK'
    BY <1>2, <2>2, <2>3, <2>4 DEF IInv, SchedulerTypeOK
  <2>6. WakeCoversTails'
    BY <2>2, <2>4 DEF WakeCoversTails
  <2>7. sampled' <= lastWakeId' /\ \A w \in wake' : w.id > sampled'
    BY <1>2, <2>4 DEF IInv, SchedulerTypeOK, Tokens, Ids
  <2>8. ASSUME NEW s \in held PROVE HeldNear(s, x, clock)
    <3>1. HeldNear(s, axes, clock) /\ s.expires \in Int /\ clock \in Int
      BY DEF IInv, SchedulerTypeOK, Samples, Timestamps
    <3>2. ASSUME s.generation = Generation(x)
          PROVE  \E a \in Axes : /\ x[a].input # Never
                                 /\ s.expires <= x[a].input + TailDuration + SampleTtl
      <4>1. CASE \E a \in Axes : x[a].generation # axes[a].generation
        <5>1. PICK a \in Axes : x[a].generation # axes[a].generation
          BY <4>1
        <5>2. x[a].input = t
          BY <2>1, <5>1
        <5>3. TailDuration >= 1 /\ s.expires <= clock + SampleTtl
          BY <3>1 DEF HeldNear
        <5> QED
          BY <1>1, <3>1, <5>2, <5>3 DEF Timestamps, Never
      <4>2. CASE \A a \in Axes : x[a].generation = axes[a].generation
        <5>1. Generation(x) = Generation(axes)
          BY <4>2 DEF Generation
        <5>2. PICK a \in Axes : /\ axes[a].input # Never
                               /\ s.expires <= axes[a].input + TailDuration + SampleTtl
          BY <3>1, <3>2, <5>1 DEF HeldNear
        <5>3. x[a].input = axes[a].input \/ x[a].input = t
          BY <2>1
        <5>4. axes[a].input \in Int /\ axes[a].input <= t /\ t \in Int /\ t # Never
          BY <1>1, <2>1 DEF AxisInv, AxisStates, Timestamps, Never
        <5> QED
          BY <3>1, <5>2, <5>3, <5>4
      <4> QED
        BY <4>1, <4>2
    <3> QED
      BY <3>1, <3>2 DEF HeldNear
  <2> QED
    BY <1>2, <2>1, <2>2, <2>5, <2>6, <2>7, <2>8 DEF IInv
<1> QED
  BY <1>4, <1>5

(* A poll that is neither early nor late: the sample is of the lease, which *)
(* was due by the first deadline, and the new lease has a later id.         *)
LEMMA PollInv ==
  ASSUME IInv, NEW w \in timers, Poll(w)
  PROVE  IInv' /\ \A s \in held' \ held : s.id > sampled
<1>1. w \in wake /\ w \in Tokens /\ clock \in Timestamps /\ w.due <= clock
      /\ Expiry(w) \in Timestamps
  BY DEF Poll, Polled, IInv, SchedulerTypeOK, Expiry, Tokens, Timestamps
<1>2. UNCHANGED <<clock, events, resets>>
  BY DEF Poll
<1>3. PICK v \in Sample(axes["vertical"], clock),
           h \in Sample(axes["horizontal"], clock) :
        LET x == [a \in Axes |-> IF a = "vertical" THEN v ELSE h]
        IN  IF SyncFails(x, clock)
            THEN LatchFault /\ UNCHANGED <<held, sampled>>
            ELSE /\ axes' = x /\ Sync(x, clock) /\ UNCHANGED fault
                 /\ held' = {[id |-> w.id, generation |-> w.generation,
                              expires |-> Expiry(w)]}
                 /\ sampled' = w.id
  BY DEF Poll
<1> DEFINE x == [a \in Axes |-> IF a = "vertical" THEN v ELSE h]
           s == [id |-> w.id, generation |-> w.generation, expires |-> Expiry(w)]
<1>4. CASE SyncFails(x, clock)
  <2>1. LatchFault /\ UNCHANGED <<held, sampled>>
    BY <1>3, <1>4
  <2>2. events' \in 0..MaxEvents
    BY <1>2 DEF IInv, SchedulerTypeOK
  <2> QED
    BY <1>2, <2>1, <2>2, LatchInv
<1>5. CASE ~SyncFails(x, clock)
  <2>1. ASSUME NEW a \in Axes
        PROVE  /\ AxisInv(x[a]) /\ AxisInv(axes[a])
               /\ x[a].input = axes[a].input
               /\ x[a].generation = axes[a].generation
    <3>1. AxisInv(axes[a]) /\ axes[a].last <= clock
      BY <1>1 DEF IInv, Poll, AxisInv, AxisStates, Timestamps, Never
    <3>2. x[a] \in Sample(axes[a], clock)
      BY <1>3 DEF Axes
    <3>3. PICK left \in Remaining(axes[a], clock) : x[a] = Advanced(axes[a], clock, left)
      BY <3>2 DEF Sample
    <3> HIDE DEF x
    <3> QED
      BY <1>1, <3>1, <3>3, AdvancedInv
  <2>2. axes' = x /\ Sync(x, clock) /\ UNCHANGED fault
        /\ held' = {s} /\ sampled' = w.id
    BY <1>3, <1>5
  <2>3. x \in [Axes -> AxisStates]
    <3>1. \A a \in Axes : x[a] \in AxisStates
      BY <2>1 DEF AxisInv
    <3> QED
      BY <3>1
  <2> HIDE DEF x
  <2>4. /\ wake' \in SUBSET Tokens /\ \A u, z \in wake' : u = z
        /\ lastWakeId' \in 0..U64Max /\ lastWakeId <= lastWakeId'
        /\ timers' \in SUBSET Tokens
        /\ wake' = {} <=> \A a \in Axes : ~Active(x[a])
        /\ \A u \in wake' : /\ u.id = lastWakeId' /\ u.id > lastWakeId
                             /\ u.generation = Generation(x)
                             /\ \A a \in Axes : Active(x[a]) => u.due <= x[a].deadline
    BY <1>1, <1>5, <2>2, <2>3, SyncFacts DEF IInv, SchedulerTypeOK
  <2>5. s \in Samples /\ s.id = w.id /\ s.generation = w.generation
        /\ s.expires = Expiry(w)
    BY <1>1 DEF Samples, Tokens
  <2> HIDE DEF s
  <2>6. w.id \in Int /\ w.id \in 0..U64Max /\ w.due \in Int
    BY <1>1 DEF Tokens, Ids, Timestamps
  <2>7. SchedulerTypeOK'
    BY <1>2, <2>2, <2>3, <2>4, <2>5, <2>6 DEF IInv, SchedulerTypeOK
  <2>8. WakeCoversTails'
    BY <2>2, <2>4 DEF WakeCoversTails
  <2>9. w.id = lastWakeId /\ w.id > sampled /\ w.generation = Generation(axes)
    BY <1>1 DEF IInv, WakeCoversTails
  <2>10. sampled' <= lastWakeId' /\ \A u \in wake' : u.id > sampled'
    BY <2>2, <2>4, <2>9
  <2>11. HeldNear(s, x, clock)
    <3>1. PICK a \in Axes : Active(axes[a])
      BY <1>1 DEF IInv, WakeCoversTails
    <3>2. w.due <= axes[a].deadline
      BY <1>1, <3>1 DEF IInv, WakeCoversTails
    <3>3. /\ TailDuration # 0 /\ axes[a].input # Never
          /\ axes[a].deadline <= axes[a].input + TailDuration
          /\ axes[a].generation > 0
          /\ axes[a].deadline \in Int /\ axes[a].input \in Int
      BY <2>1, <3>1 DEF AxisInv, AxisStates, Timestamps, Never
    <3>4. s.generation[a] > 0
      BY <2>5, <2>9, <3>3 DEF Generation
    <3>5. s.expires = w.due + SampleTtl
      BY <2>5 DEF Expiry
    <3>6. s.expires <= clock + SampleTtl
      BY <1>1, <2>6, <3>5 DEF Timestamps
    <3>7. s.expires <= x[a].input + TailDuration + SampleTtl /\ x[a].input # Never
      BY <2>1, <2>6, <3>2, <3>3, <3>5
    <3> QED
      BY <3>3, <3>4, <3>6, <3>7 DEF HeldNear
  <2>12. IInv'
    BY <1>2, <2>1, <2>2, <2>7, <2>8, <2>10, <2>11 DEF IInv
  <2> QED
    BY <2>2, <2>5, <2>9, <2>12
<1> QED
  BY <1>4, <1>5

(* The actions that only move the clock, the sample held or the latch. *)
LEMMA OtherInv ==
  ASSUME IInv, Post \/ ResetAfterFault \/ ClockTick \/ UNCHANGED schedulerVars
  PROVE  IInv' /\ held' \subseteq held
<1>1. CASE Post
  BY <1>1 DEF Post, IInv, SchedulerTypeOK, WakeCoversTails, HeldNear
<1>2. CASE ResetAfterFault
  <2>1. \A a \in Axes : axes'[a] = Fresh
    BY <1>2 DEF ResetAfterFault
  <2>2. axes' \in [Axes -> AxisStates]
    BY <1>2, FreshInv DEF ResetAfterFault, AxisInv
  <2>3. SchedulerTypeOK'
    <3>1. resets' \in 0..MaxResets
      BY <1>2 DEF IInv, SchedulerTypeOK, ResetAfterFault
    <3>2. wake' = {} /\ fault' = FALSE
          /\ UNCHANGED <<clock, lastWakeId, timers, held, sampled, events>>
      BY <1>2 DEF ResetAfterFault
    <3> QED
      BY <2>2, <3>1, <3>2 DEF IInv, SchedulerTypeOK
  <2>4. (\A a \in Axes : AxisInv(axes[a]))'
    BY <2>1, FreshInv
  <2>5. WakeCoversTails'
    BY <1>2, <2>1, FreshInv DEF ResetAfterFault, WakeCoversTails
  <2>6. ASSUME NEW s \in held PROVE HeldNear(s, axes', clock')
    <3>1. HeldNear(s, axes, clock) /\ clock' = clock
      BY <1>2 DEF IInv, ResetAfterFault
    <3>2. \A a \in Axes : Generation(axes')[a] = 0
      BY <2>1, FreshInv DEF Generation
    <3>3. \E a \in Axes : s.generation[a] > 0
      BY <3>1 DEF HeldNear
    <3> QED
      BY <3>1, <3>2, <3>3 DEF HeldNear
  <2> QED
    BY <1>2, <2>3, <2>4, <2>5, <2>6 DEF IInv, ResetAfterFault
<1>3. CASE ClockTick
  <2>1. /\ clock' = clock + 1 /\ clock' \in Timestamps
        /\ UNCHANGED <<axes, wake, lastWakeId, fault, timers, held, sampled,
                       events, resets>>
    BY <1>3 DEF ClockTick, IInv, SchedulerTypeOK, Timestamps
  <2>2. SchedulerTypeOK' /\ WakeCoversTails' /\ (\A a \in Axes : AxisInv(axes[a]))'
    BY <2>1 DEF IInv, SchedulerTypeOK, WakeCoversTails
  <2>3. ASSUME NEW s \in held PROVE HeldNear(s, axes', clock')
    <3>1. HeldNear(s, axes, clock) /\ s.expires \in Int /\ clock \in Int
      BY DEF IInv, SchedulerTypeOK, Samples, Timestamps
    <3> QED
      BY <2>1, <3>1 DEF HeldNear
  <2> QED
    BY <2>1, <2>2, <2>3 DEF IInv
<1>4. CASE UNCHANGED schedulerVars
  BY <1>4 DEF schedulerVars, IInv, SchedulerTypeOK, WakeCoversTails
<1> QED
  BY <1>1, <1>2, <1>3, <1>4

(* Every step keeps the invariant and samples no lease a second time. *)
LEMMA StepInv ==
  ASSUME IInv, [SchedulerNext]_schedulerVars
  PROVE  IInv' /\ \A s \in held' \ held : s.id > sampled
<1>1. CASE WheelTrips
  <2>1. LatchFault /\ UNCHANGED <<clock, held, sampled, resets>>
        /\ events' \in 0..MaxEvents
    BY <1>1 DEF WheelTrips, IInv, SchedulerTypeOK
  <2> QED
    BY <2>1, LatchInv
<1>2. ASSUME NEW t \in Stamps, NEW d \in Inputs, Wheel(t, d)
      PROVE  IInv' /\ held' = held
  BY <1>2, WheelInv DEF Wheel
<1>3. ASSUME NEW w \in timers, PollTooLate(w)
      PROVE  IInv' /\ held' = held
  <2>1. LatchFault /\ UNCHANGED <<clock, held, sampled, events, resets>>
    BY <1>3 DEF PollTooLate
  <2> QED
    BY <2>1, LatchInv DEF IInv, SchedulerTypeOK
<1>4. CASE Post \/ ResetAfterFault \/ ClockTick \/ UNCHANGED schedulerVars
  BY <1>4, OtherInv
<1> QED
  BY <1>1, <1>2, <1>3, <1>4, PollInv DEF SchedulerNext

-------------------------------------------------------------------------------
(* The inductive invariant is one. *)
THEOREM Inductive == SchedulerSpec => []IInv
<1>1. SchedulerInit => IInv
  BY InitInv
<1>2. IInv /\ [SchedulerNext]_schedulerVars => IInv'
  BY StepInv
<1> QED
  BY <1>1, <1>2, PTL DEF SchedulerSpec

(* Every variable keeps its type: no timestamp, deadline, id or generation  *)
(* the scheduler computes exceeds its width, and there is one lease at most.*)
THEOREM TypeCorrect == SchedulerSpec => []SchedulerTypeOK
<1>1. IInv => SchedulerTypeOK
  BY DEF IInv
<1> QED
  BY <1>1, Inductive, PTL

(* There is a lease exactly while there is a tail, of the present sessions  *)
(* and due by the first deadline.                                           *)
THEOREM TailsStayCovered == SchedulerSpec => []WakeCoversTails
<1>1. IInv => WakeCoversTails
  BY DEF IInv
<1> QED
  BY <1>1, Inductive, PTL

(* What each axis owes is what its tail will pay, in the direction of the   *)
(* latest input.                                                            *)
THEOREM LedgerStaysBalanced == SchedulerSpec => []LedgerBalanced
<1>1. IInv => LedgerBalanced
  BY DEF IInv, AxisInv, LedgerBalanced
<1> QED
  BY <1>1, Inductive, PTL

(* A sample that may be posted comes within a tail and one time to live of  *)
(* an input, also when generations start again after a fault.               *)
THEOREM MotionStaysNear == SchedulerSpec => []MotionStaysNearInput
<1>1. IInv => MotionStaysNearInput
  <2> SUFFICES ASSUME IInv, NEW s \in held, Deliverable(s)
               PROVE  \E a \in Axes :
                        /\ axes[a].input # Never
                        /\ clock <= axes[a].input + TailDuration + SampleTtl
    BY DEF MotionStaysNearInput
  <2>1. PICK a \in Axes : /\ axes[a].input # Never
                         /\ s.expires <= axes[a].input + TailDuration + SampleTtl
    BY DEF IInv, HeldNear, Deliverable
  <2>2. s.expires \in Int /\ clock \in Int /\ axes[a].input \in Int
    BY DEF IInv, SchedulerTypeOK, Samples, Timestamps, AxisStates, Never
  <2>3. clock <= s.expires
    BY DEF Deliverable
  <2> QED
    BY <2>1, <2>2, <2>3
<1> QED
  BY <1>1, Inductive, PTL

(* No lease is sampled twice, whichever of the caller's timers fires. *)
THEOREM OneSamplePerLease == SchedulerSpec => LeaseSampledOnce
<1>1. IInv /\ [SchedulerNext]_schedulerVars => [\A s \in held' \ held : s.id > sampled]_schedulerVars
  BY StepInv
<1> QED
  BY <1>1, Inductive, PTL DEF SchedulerSpec, LeaseSampledOnce
===============================================================================
