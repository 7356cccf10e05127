---------------------------- MODULE ActivationProofs ----------------------------
(***************************************************************************)
(* Theorems about Activation, for any launches and commands, whoever starts,*)
(* commits, asks and ends when: every request is addressed to a process     *)
(* whose pid was read, and there is one primary, whose pid can be read.     *)
(***************************************************************************)
EXTENDS Activation, TLAPS

Places ==
    {"idle", "commit", "acquire", "clear", "record", "release", "pid", "check",
     "link", "recheck", "replace", "load", "primary", "done", "failed", "gone"}

(* Where a process knows whom to address. *)
Addressing == {"check", "link", "recheck", "replace"}

Addressed == \A p \in Processes : pc[p] \in Addressing => target[p] \in Processes

IInv == TypeOK /\ OnePrimary /\ Addressed

(* A move of one process, as far as its own places go. *)
LEMMA Moves ==
  ASSUME IInv, NEW p \in Processes, NEW from, NEW to \in Places, Advance(p, from, to)
  PROVE  /\ pc[p] = from /\ pc'[p] = to
         /\ \A q \in Processes : q # p => pc'[q] = pc[q]
         /\ pc' \in [Processes -> Places]
BY DEF IInv, TypeOK, Advance, Places

(* Taking and leaving the lock. *)
LEMMA LockSteps ==
  ASSUME IInv, NEW p \in Processes,
         \/ Commit(p) \/ TryAcquire(p) \/ ClearPid(p) \/ RecordPid(p) \/ ReleaseProbe(p)
         \/ Begin(p)
  PROVE  IInv'
<1> USE ConstantsAssumption
<1>1. PICK from \in Places, to \in Places : Advance(p, from, to)
  BY DEF Commit, TryAcquire, ClearPid, RecordPid, ReleaseProbe, Begin, Places
<1>2. /\ pc[p] = from /\ pc'[p] = to /\ pc' \in [Processes -> Places]
      /\ \A q \in Processes : q # p => pc'[q] = pc[q]
  BY <1>1, Moves
<1>3. /\ stored' \subseteq Processes /\ lock' \in Processes \cup {"none"}
      /\ pid' \in Processes \cup {"none"}
      /\ UNCHANGED <<mailbox, target, primaryVars>>
  BY DEF Commit, TryAcquire, ClearPid, RecordPid, ReleaseProbe, Begin, IInv, TypeOK
<1>4. TypeOK'
  BY <1>2, <1>3 DEF IInv, TypeOK, Places, primaryVars
<1>5. OnePrimary'
  <2> USE DEF IInv, OnePrimary, Holding, Recorded, Advance
  <2>1. CASE Commit(p)
    BY <1>2, <2>1 DEF Commit
  <2>2. CASE TryAcquire(p)
    BY <1>2, <2>2 DEF TryAcquire
  <2>3. CASE ClearPid(p)
    BY <1>2, <2>3 DEF ClearPid
  <2>4. CASE RecordPid(p)
    BY <1>2, <2>4 DEF RecordPid
  <2>5. CASE ReleaseProbe(p)
    BY <1>2, <2>5 DEF ReleaseProbe
  <2>6. CASE Begin(p)
    BY <1>2, <2>6 DEF Begin
  <2> QED
    BY <2>1, <2>2, <2>3, <2>4, <2>5, <2>6
<1>6. Addressed'
  <2>1. to \notin Addressing
    BY <1>2 DEF Commit, TryAcquire, ClearPid, RecordPid, ReleaseProbe, Begin, Advance, Addressing
  <2> QED
    BY <1>2, <1>3, <2>1 DEF IInv, Addressed
<1> QED
  BY <1>4, <1>5, <1>6 DEF IInv

(* Leaving a request: what is written is addressed to the pid that was read. *)
LEMMA RequestSteps ==
  ASSUME IInv, NEW p \in Processes,
         ReadPid(p) \/ CheckPending(p) \/ Link(p) \/ Recheck(p) \/ Replace(p)
  PROVE  IInv'
<1>1. PICK from \in Places, to \in Places : Advance(p, from, to)
  BY DEF ReadPid, CheckPending, Link, Recheck, Replace, Places
<1>2. /\ pc[p] = from /\ pc'[p] = to /\ pc' \in [Processes -> Places]
      /\ \A q \in Processes : q # p => pc'[q] = pc[q]
  BY <1>1, Moves
<1>3. UNCHANGED <<stored, lock, pid, primaryVars>>
  BY DEF ReadPid, CheckPending, Link, Recheck, Replace
<1>4. /\ from \in Addressing \cup {"pid"} /\ to \in Addressing \cup {"failed", "done"}
  BY <1>2 DEF ReadPid, CheckPending, Link, Recheck, Replace, Advance, Addressing
<1>5. /\ target' \in [Processes -> Processes \cup {"none"}]
      /\ \A q \in Processes : q # p => target'[q] = target[q]
      /\ to \in Addressing => target'[p] \in Processes
  <2>1. CASE ReadPid(p)
    <3>1. CASE pid = "none"
      <4>1. UNCHANGED target /\ pc'[p] = "failed"
        BY <2>1, <3>1 DEF ReadPid, Advance, IInv, TypeOK
      <4> QED
        BY <1>2, <4>1 DEF IInv, TypeOK, Addressing
    <3>2. CASE pid # "none"
      BY <2>1, <3>2 DEF ReadPid, IInv, TypeOK
    <3> QED
      BY <3>1, <3>2
  <2>2. CASE CheckPending(p) \/ Link(p) \/ Recheck(p) \/ Replace(p)
    <3>1. UNCHANGED target /\ from \in Addressing
      BY <1>2, <2>2 DEF CheckPending, Link, Recheck, Replace, Advance, Addressing
    <3> QED
      BY <1>2, <3>1 DEF IInv, TypeOK, Addressed
  <2> QED
    BY <2>1, <2>2
<1>6. mailbox' \in Requests \cup {NoRequest}
  <2>1. UNCHANGED mailbox \/ (mailbox' = RequestOf(p) /\ from \in Addressing)
    BY <1>2 DEF ReadPid, CheckPending, Link, Recheck, Replace, Publish, Advance, Addressing
  <2>2. from \in Addressing => RequestOf(p) \in Requests
    BY <1>2 DEF IInv, Addressed, RequestOf, ActionOf, Requests
  <2> QED
    BY <2>1, <2>2 DEF IInv, TypeOK
<1>7. TypeOK'
  BY <1>2, <1>3, <1>5, <1>6 DEF IInv, TypeOK, Places, primaryVars
<1>8. OnePrimary'
  BY <1>2, <1>3, <1>4 DEF IInv, OnePrimary, Holding, Recorded, Addressing
<1>9. Addressed'
  BY <1>2, <1>5 DEF IInv, Addressed
<1> QED
  BY <1>7, <1>8, <1>9 DEF IInv

(* The primary, until it ends. *)
LEMMA PrimarySteps ==
  ASSUME IInv, NEW p \in Launches, PrimaryStep(p) \/ HideWindow(p) \/ End(p)
  PROVE  IInv'
<1> USE ConstantsAssumption
<1>0. p \in Processes
  BY DEF Processes
<1>1. CASE Load(p)
  <2>1. /\ pc[p] = "load" /\ pc'[p] = "primary" /\ pc' \in [Processes -> Places]
        /\ \A q \in Processes : q # p => pc'[q] = pc[q]
    BY <1>0, <1>1, Moves DEF Load, Places
  <2>2. UNCHANGED <<stored, lock, pid, mailbox, target, quits>>
    BY <1>1 DEF Load
  <2>3. /\ seen' \in [Launches -> SUBSET Processes]
        /\ claimed' \in Requests \cup {NoRequest} /\ window' \in BOOLEAN
    BY <1>1 DEF Load, IInv, TypeOK
  <2>4. TypeOK'
    BY <2>1, <2>2, <2>3 DEF IInv, TypeOK, Places
  <2> QED
    BY <2>1, <2>2, <2>4 DEF IInv, OnePrimary, Addressed, Holding, Recorded, Addressing
<1>2. CASE Claim(p)
  BY <1>2 DEF Claim, IInv, TypeOK, OnePrimary, Addressed
<1>3. CASE Act(p)
  <2>1. /\ seen' \in [Launches -> SUBSET Processes]
        /\ claimed' \in Requests \cup {NoRequest} /\ window' \in BOOLEAN
    BY <1>3 DEF Act, IInv, TypeOK
  <2> QED
    BY <1>3, <2>1 DEF Act, IInv, TypeOK, OnePrimary, Addressed
<1>4. CASE HideWindow(p)
  BY <1>4 DEF HideWindow, IInv, TypeOK, OnePrimary, Addressed
<1>5. CASE End(p)
  <2>1. /\ lock = p /\ pc'[p] = "gone" /\ pc' \in [Processes -> Places]
        /\ \A q \in Processes : q # p => pc'[q] = pc[q]
    BY <1>0, <1>5 DEF End, IInv, TypeOK, Places
  <2>2. /\ lock' = "none" /\ claimed' = NoRequest /\ window' = FALSE
        /\ quits' \in 0..MaxQuits /\ UNCHANGED <<stored, pid, mailbox, target, seen>>
    BY <1>5 DEF End, IInv, TypeOK
  <2>3. TypeOK'
    BY <2>1, <2>2 DEF IInv, TypeOK, Places
  <2> QED
    BY <1>0, <2>1, <2>2, <2>3 DEF IInv, OnePrimary, Addressed, Holding, Recorded, Addressing
<1> QED
  BY <1>1, <1>2, <1>3, <1>4, <1>5 DEF PrimaryStep

(* Nobody runs at first, or one primary that has long recorded its pid. *)
LEMMA InvInit ==
  ASSUME Init
  PROVE  IInv
<1> USE ConstantsAssumption DEF Init
<1>1. CASE Running = {}
  BY <1>1 DEF IInv, TypeOK, OnePrimary, Addressed, Holding, Recorded, Addressing, Processes
<1>2. ASSUME NEW g \in Launches, Running = {g} PROVE IInv
  <2>1. lock = g /\ pid = g /\ g \in Processes
    BY <1>2 DEF Processes
  <2> QED
    BY <1>2, <2>1 DEF IInv, TypeOK, OnePrimary, Addressed, Holding, Recorded, Addressing
<1> QED
  BY <1>1, <1>2

(* The invariant is inductive. *)
LEMMA InvNext ==
  ASSUME IInv, [Next]_vars
  PROVE  IInv'
<1>1. CASE \E p \in Processes : Begin(p) \/ Step(p)
  BY <1>1, LockSteps, RequestSteps DEF Step
<1>2. CASE \E p \in Launches : PrimaryStep(p) \/ HideWindow(p) \/ End(p)
  BY <1>2, PrimarySteps
<1>3. CASE UNCHANGED vars
  BY <1>3 DEF vars, IInv, TypeOK, OnePrimary, Addressed
<1> QED
  BY <1>1, <1>2, <1>3 DEF Next

(* Every variable keeps its type: in particular no request is ever addressed *)
(* to nobody (activation.rs, write_request).                                 *)
THEOREM TypeCorrect == Spec => []TypeOK
<1>1. Init => IInv
  BY InvInit
<1>2. IInv /\ [Next]_vars => IInv'
  BY InvNext
<1>3. IInv => TypeOK
  BY DEF IInv
<1> QED
  BY <1>1, <1>2, <1>3, PTL DEF Spec

(* There is one settings process: whoever is about to load or has loaded the *)
(* window holds ui.lock, and the pid in it is its own, so that requests are  *)
(* addressed to it (activation.rs, acquire_or_activate).                     *)
THEOREM ThereIsOnePrimary == Spec => []OnePrimary
<1>1. Init => IInv
  BY InvInit
<1>2. IInv /\ [Next]_vars => IInv'
  BY InvNext
<1>3. IInv => OnePrimary
  BY DEF IInv
<1> QED
  BY <1>1, <1>2, <1>3, PTL DEF Spec

-------------------------------------------------------------------------------
(* What the settled primary was promised.                                    *)

(* A launch commits nothing before ui.lock was refused to it. *)
NotYet == {"idle", "acquire", "commit"}

Uncommitted == \A p \in Launches : pc[p] \in NotYet => p \notin stored

LEMMA UncommittedInit ==
  ASSUME Init
  PROVE  Uncommitted
BY DEF Init, Uncommitted

LEMMA UncommittedNext ==
  ASSUME IInv, Uncommitted, [Next]_vars
  PROVE  Uncommitted'
<1> SUFFICES ASSUME NEW p \in Launches, pc'[p] \in NotYet
             PROVE  p \notin stored'
  BY DEF Uncommitted
<1>0. p \in Processes
  BY DEF Processes
<1>1. ASSUME NEW q \in Processes, NEW from, NEW to \in Places, Advance(q, from, to),
             q = p => from \in NotYet
      PROVE  pc[p] \in NotYet
  BY <1>0, <1>1, Moves
<1>2. ASSUME NEW q \in Processes, Begin(q) \/ Step(q) PROVE p \notin stored'
  <2>1. CASE Commit(q)
    <3>1. pc'[q] \notin NotYet \/ q \notin Launches
      BY <2>1, Moves DEF Commit, NotYet, Places
    <3>2. q # p /\ pc[p] \in NotYet
      BY <1>0, <2>1, <3>1, Moves DEF Commit, Places
    <3> QED
      BY <2>1, <3>2 DEF Commit, Uncommitted
  <2>2. CASE TryAcquire(q) \/ Begin(q)
    <3>1. pc[p] \in NotYet
      BY <1>0, <2>2, Moves DEF TryAcquire, Begin, NotYet, Places
    <3> QED
      BY <2>2, <3>1 DEF TryAcquire, Begin, Uncommitted
  <2>3. CASE ClearPid(q) \/ RecordPid(q) \/ ReleaseProbe(q)
    <3>1. pc[p] \in NotYet
      BY <1>0, <2>3, Moves DEF ClearPid, RecordPid, ReleaseProbe, NotYet, Places
    <3> QED
      BY <2>3, <3>1 DEF ClearPid, RecordPid, ReleaseProbe, Uncommitted
  <2>4. CASE ReadPid(q) \/ CheckPending(q) \/ Link(q) \/ Recheck(q) \/ Replace(q)
    <3>1. pc[p] \in NotYet
      BY <1>0, <2>4, Moves
      DEF ReadPid, CheckPending, Link, Recheck, Replace, NotYet, Places
    <3> QED
      BY <2>4, <3>1 DEF ReadPid, CheckPending, Link, Recheck, Replace, Uncommitted
  <2> QED
    BY <1>2, <2>1, <2>2, <2>3, <2>4 DEF Step
<1>3. ASSUME NEW q \in Launches, PrimaryStep(q) \/ HideWindow(q) \/ End(q)
      PROVE  p \notin stored'
  <2>0. q \in Processes
    BY DEF Processes
  <2>1. UNCHANGED stored
    BY <1>3 DEF PrimaryStep, Load, Claim, Act, HideWindow, End
  <2>2. CASE Load(q)
    BY <1>0, <2>0, <2>1, <2>2, Moves DEF Load, NotYet, Places, Uncommitted
  <2>3. CASE Claim(q) \/ Act(q) \/ HideWindow(q)
    BY <2>1, <2>3 DEF Claim, Act, HideWindow, Uncommitted
  <2>4. CASE End(q)
    BY <1>0, <2>0, <2>1, <2>4 DEF End, NotYet, IInv, TypeOK, Uncommitted
  <2> QED
    BY <1>3, <2>2, <2>3, <2>4 DEF PrimaryStep
<1>4. CASE UNCHANGED vars
  BY <1>4 DEF vars, Uncommitted
<1> QED
  BY <1>2, <1>3, <1>4 DEF Next

(* A promise once made outlives a step that keeps what is stored and shown, *)
(* asks g, or leaves whoever was going to ask on its way.                   *)
LEMMA StillPromised ==
  ASSUME NEW g, NEW p \in Promised(g), stored \subseteq stored', seen[g] \subseteq seen'[g],
         \/ mailbox'.target = g \/ claimed'.target = g
         \/ /\ UNCHANGED <<mailbox, claimed>>
            /\ pc[p] \in Notifying => pc'[p] \in Notifying
  PROVE  p \in Promised(g)'
BY DEF Promised

(* The steps around ui.lock. *)
LEMMA LockKeepsNews ==
  ASSUME IInv, Uncommitted, NEW g \in Launches, SettledOn(g), NEW q \in Processes,
         \/ Commit(q) \/ TryAcquire(q) \/ ClearPid(q) \/ RecordPid(q) \/ ReleaseProbe(q)
         \/ Begin(q)
  PROVE  Promised(g) \subseteq Promised(g)'
<1> SUFFICES ASSUME NEW p \in Promised(g) PROVE p \in Promised(g)'
  OBVIOUS
<1>0. p \in Processes /\ p \in stored /\ lock # "none"
  BY ConstantsAssumption DEF IInv, TypeOK, Promised, SettledOn, Processes
<1>1. /\ stored \subseteq stored' /\ seen[g] \subseteq seen'[g]
      /\ UNCHANGED <<mailbox, claimed>>
  BY DEF Commit, TryAcquire, ClearPid, RecordPid, ReleaseProbe, Begin, primaryVars
<1>2. ASSUME pc[p] \in Notifying PROVE pc'[p] \in Notifying
  <2>1. CASE TryAcquire(q)
    <3>1. q = p => pc[p] = "acquire" /\ p \notin Launches
      BY <1>0, <2>1 DEF TryAcquire, Advance, Uncommitted, NotYet
    <3>2. q = p => pc'[p] = "pid"
      BY <1>0, <2>1, <3>1, Moves DEF TryAcquire, Places
    <3> QED
      BY <1>0, <1>2, <2>1, <3>2, Moves DEF TryAcquire, Places, Notifying
  <2>2. CASE Commit(q) \/ ClearPid(q) \/ RecordPid(q) \/ ReleaseProbe(q) \/ Begin(q)
    BY <1>0, <1>2, <2>2, Moves
    DEF Commit, ClearPid, RecordPid, ReleaseProbe, Begin, Places, Notifying
  <2> QED
    BY <2>1, <2>2
<1> QED
  BY <1>1, <1>2, StillPromised

(* The steps of leaving a request: all of them address g, and one that leaves *)
(* none found another for g.                                                  *)
LEMMA RequestKeepsNews ==
  ASSUME IInv, NEW g \in Launches, SettledOn(g), NEW q \in Processes,
         ReadPid(q) \/ CheckPending(q) \/ Link(q) \/ Recheck(q) \/ Replace(q)
  PROVE  Promised(g) \subseteq Promised(g)'
<1> SUFFICES ASSUME NEW p \in Promised(g) PROVE p \in Promised(g)'
  OBVIOUS
<1>0. p \in Processes /\ pid = g /\ g # "none"
  BY ConstantsAssumption DEF IInv, TypeOK, Promised, SettledOn, Processes
<1>1. stored \subseteq stored' /\ seen[g] \subseteq seen'[g] /\ UNCHANGED claimed
  BY DEF ReadPid, CheckPending, Link, Recheck, Replace, primaryVars
<1>2. q # p => pc'[p] = pc[p]
  BY <1>0, Moves DEF ReadPid, CheckPending, Link, Recheck, Replace, Places
<1>3. CASE ReadPid(q)
  <2>1. pc'[q] \in Notifying /\ UNCHANGED mailbox
    BY <1>0, <1>3, Moves DEF ReadPid, Places, Notifying
  <2> QED
    BY <1>1, <1>2, <2>1, StillPromised
<1>4. CASE CheckPending(q) \/ Recheck(q)
  <2>1. pc[q] \in {"check", "recheck"} /\ UNCHANGED mailbox
    BY <1>4 DEF CheckPending, Recheck, Advance
  <2>2. target[q] = g
    BY <2>1 DEF SettledOn
  <2>3. CASE SameOwnerPending(q)
    BY <1>1, <2>1, <2>2, <2>3, StillPromised DEF SameOwnerPending
  <2>4. CASE ~SameOwnerPending(q)
    <3>1. pc'[q] \in Notifying
      BY <1>4, <2>4, Moves DEF CheckPending, Recheck, Places, Notifying
    <3> QED
      BY <1>1, <1>2, <2>1, <3>1, StillPromised
  <2> QED
    BY <2>3, <2>4
<1>5. CASE Link(q) \/ Replace(q)
  <2>1. target[q] = g
    BY <1>5 DEF Link, Replace, Advance, SettledOn
  <2>2. CASE Publish(q)
    BY <1>1, <2>1, <2>2, StillPromised DEF Publish, RequestOf
  <2>3. CASE ~Publish(q)
    <3>1. pc'[q] \in Notifying /\ UNCHANGED mailbox
      BY <1>5, <2>3, Moves DEF Link, Replace, Places, Notifying
    <3> QED
      BY <1>1, <1>2, <3>1, StillPromised
  <2> QED
    BY <2>2, <2>3
<1> QED
  BY <1>3, <1>4, <1>5

(* The steps of g itself: what it claims it has not acted on, and acting on a *)
(* request for itself it loads everything that is stored.                     *)
LEMMA PrimaryKeepsNews ==
  ASSUME IInv, NEW g \in Launches, SettledOn(g), pc'[g] = "primary",
         NEW q \in Launches, PrimaryStep(q) \/ HideWindow(q) \/ End(q)
  PROVE  Promised(g) \subseteq Promised(g)'
<1> SUFFICES ASSUME NEW p \in Promised(g) PROVE p \in Promised(g)'
  OBVIOUS
<1>0. q \in Processes /\ g \in Processes /\ g # "none" /\ pc[g] = "primary" /\ lock = g
  BY ConstantsAssumption DEF Processes, SettledOn
<1>1. ~Load(q)
  BY <1>0 DEF Load, Advance, IInv, OnePrimary, Holding
<1>2. CASE Claim(q)
  BY <1>0, <1>2 DEF Claim, NoRequest, Promised
<1>3. CASE Act(q)
  <2>1. q = g
    BY <1>0, <1>3 DEF Act, IInv, OnePrimary, Holding
  <2>2. CASE claimed.target = g
    <3>1. seen'[g] = stored /\ UNCHANGED stored
      BY <1>3, <2>1, <2>2 DEF Act, IInv, TypeOK
    <3> QED
      BY <3>1 DEF Promised
  <2>3. CASE claimed.target # g
    BY <1>3, <2>1, <2>3 DEF Act, Promised
  <2> QED
    BY <2>2, <2>3
<1>4. CASE HideWindow(q)
  BY <1>4 DEF HideWindow, Promised
<1>5. ~End(q)
  BY <1>0 DEF End, IInv, TypeOK
<1> QED
  BY <1>1, <1>2, <1>3, <1>4, <1>5 DEF PrimaryStep

(* Whoever does what in between - commands that coalesce their reloads,      *)
(* launches that are refused, the primary that claims, reloads and hides -   *)
(* no step loses an edit the settled primary was promised (activation.rs:131, *)
(* 238).                                                                     *)
THEOREM NewsIsNeverLost == Spec => NewsIsKept
<1>1. Init => IInv /\ Uncommitted
  BY InvInit, UncommittedInit
<1>2. IInv /\ Uncommitted /\ [Next]_vars => IInv' /\ Uncommitted'
  BY InvNext, UncommittedNext
<1>3. IInv /\ Uncommitted /\ [Next]_vars =>
        [\A g \in Launches :
          SettledOn(g) /\ pc'[g] = "primary" => Promised(g) \subseteq Promised(g)']_vars
  <2> SUFFICES ASSUME IInv, Uncommitted, Next, NEW g \in Launches,
                      SettledOn(g), pc'[g] = "primary"
               PROVE  Promised(g) \subseteq Promised(g)'
    OBVIOUS
  <2> QED
    BY LockKeepsNews, RequestKeepsNews, PrimaryKeepsNews DEF Next, Step
<1> QED
  BY <1>1, <1>2, <1>3, PTL DEF Spec, NewsIsKept

-------------------------------------------------------------------------------
(* An open request, once left for the settled primary, is there until it is  *)
(* acted on: whoever may replace it asks for the same.                       *)
LEMMA OpenKept ==
  ASSUME IInv, Next, NEW g \in Launches, SettledOn(g), OpenPending(g), pc'[g] = "primary",
         \A q \in Processes : pc[q] = "replace" => ActionOf(q) = "open"
  PROVE  OpenPending(g)' \/ window'
<1> DEFINE open == [target |-> g, action |-> "open"]
<1>0. g \in Processes /\ g # "none" /\ pc[g] = "primary" /\ lock = g /\ open # NoRequest
  BY ConstantsAssumption DEF Processes, SettledOn, NoRequest
<1>1. ASSUME NEW q \in Processes, Begin(q) \/ Step(q) PROVE OpenPending(g)'
  <2>1. UNCHANGED claimed
    BY <1>1 DEF Begin, Step, Commit, TryAcquire, ClearPid, RecordPid, ReleaseProbe, ReadPid,
                CheckPending, Link, Recheck, Replace, primaryVars
  <2>2. CASE UNCHANGED mailbox
    BY <2>1, <2>2 DEF OpenPending
  <2>3. CASE Replace(q)
    <3>1. target[q] = g /\ ActionOf(q) = "open"
      BY <2>3 DEF Replace, Advance, SettledOn
    <3> QED
      BY <2>3, <3>1 DEF Replace, Publish, RequestOf, OpenPending
  <2>4. CASE Link(q)
    BY <1>0, <2>1, <2>4 DEF Link, OpenPending
  <2> QED
    BY <1>1, <2>2, <2>3, <2>4 DEF Begin, Step, Commit, TryAcquire, ClearPid, RecordPid,
       ReleaseProbe, ReadPid, CheckPending, Recheck
<1>2. ASSUME NEW q \in Launches, PrimaryStep(q) \/ HideWindow(q) \/ End(q)
      PROVE  OpenPending(g)' \/ window'
  <2>0. q \in Processes
    BY DEF Processes
  <2>1. ~Load(q)
    BY <1>0, <2>0 DEF Load, Advance, IInv, OnePrimary, Holding
  <2>2. CASE Claim(q)
    BY <1>0, <2>2 DEF Claim, OpenPending
  <2>3. CASE Act(q)
    <3>1. q = g
      BY <1>0, <2>0, <2>3 DEF Act, IInv, OnePrimary, Holding
    <3>2. CASE claimed = open
      BY <2>3, <3>1, <3>2 DEF Act
    <3>3. CASE mailbox = open
      BY <2>3, <3>3 DEF Act, OpenPending
    <3> QED
      BY <3>2, <3>3 DEF OpenPending
  <2>4. CASE HideWindow(q)
    BY <2>4 DEF HideWindow, OpenPending
  <2>5. ~End(q)
    BY <1>0 DEF End, IInv, TypeOK
  <2> QED
    BY <1>2, <2>1, <2>2, <2>3, <2>4, <2>5 DEF PrimaryStep
<1> QED
  BY <1>1, <1>2 DEF Next

(* A request to show the window is neither downgraded nor lost before the    *)
(* primary acts on it, as long as no reload had found another owner's request *)
(* before (activation.rs:238).                                               *)
THEOREM OpenIsNeverLost == Spec => OpenIsKept
<1>1. Init => IInv
  BY InvInit
<1>2. IInv /\ [Next]_vars => IInv'
  BY InvNext
<1>3. IInv /\ [Next]_vars =>
        [\A g \in Launches :
          /\ SettledOn(g) /\ OpenPending(g) /\ pc'[g] = "primary"
          /\ \A q \in Processes : pc[q] = "replace" => ActionOf(q) = "open"
          => OpenPending(g)' \/ window']_vars
  BY OpenKept
<1> QED
  BY <1>1, <1>2, <1>3, PTL DEF Spec, OpenIsKept
==============================================================================
