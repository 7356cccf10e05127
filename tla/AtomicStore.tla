----------------------------- MODULE AtomicStore -----------------------------
(***************************************************************************)
(* What ConfigStore promises to those who call it: config.toml is one      *)
(* document, and an operation replaces it in one step by a document made   *)
(* of the one that is there at that moment.  An answer "Ok" means that the *)
(* change is there for good; an error or a death means that it is there as *)
(* a whole or not at all.  Only a repair takes two steps, with no document *)
(* between them: it sets an unreadable one aside, takes it away and puts   *)
(* its own in place, or puts the old one back when it gives up.  There is  *)
(* no lock, no temporary file and no failing call here: StoreFiles is the  *)
(* detailed system that implements this one.                               *)
(***************************************************************************)
CONSTANTS Procs, Operation, UserDocs, Broken, Defaults, Absent

VARIABLES
    store,      \* the document, and what each repair has set aside
    recent,     \* the stores a power loss may leave
    outcome     \* per operation: "idle", "asked", "written", "ok", "failed", "dead"

atomicVars == <<store, recent, outcome>>

Readable(document) == document # Absent /\ document.by \notin Broken

UserDocument(u) == [by |-> u, origin |-> u, edits |-> {}]

(* The document of an operation: the one that is stored, with the edit. *)
Made(p) ==
    IF Operation[p] \in {"update", "save"} /\ store.document # Absent
    THEN [by |-> p, origin |-> store.document.origin, edits |-> store.document.edits \cup {p}]
    ELSE [by |-> p, origin |-> Defaults, edits |-> IF Operation[p] = "update" THEN {p} ELSE {}]

(* When an operation may replace what is there. *)
MayReplace(p) ==
    CASE Operation[p] = "update" -> store.document = Absent \/ Readable(store.document)
      [] Operation[p] = "save"   -> Readable(store.document)
      [] OTHER                   -> store.document = Absent

Put(s) == store' = s /\ recent' = recent \cup {s}
Settle == UNCHANGED store /\ recent' = {store}
Rest == UNCHANGED <<store, recent>>
Becomes(p, what) == outcome' = [outcome EXCEPT ![p] = what]

Asked(p) == outcome[p] \in {"idle", "asked"}

-------------------------------------------------------------------------------
Begin(p) == outcome[p] = "idle" /\ Becomes(p, "asked") /\ Rest

Replace(p) ==
    /\ outcome[p] = "asked" /\ MayReplace(p)
    /\ Put([store EXCEPT !.document = Made(p)])
    /\ Becomes(p, "written")

Acknowledge(p) == outcome[p] = "written" /\ Settle /\ Becomes(p, "ok")

(* Nothing is to be done about a document that can be read. *)
FindGood(p) ==
    /\ Asked(p) /\ Operation[p] \in {"create", "repair"} /\ Readable(store.document)
    /\ Rest /\ Becomes(p, "ok")

Refuse(p) ==
    /\ Asked(p) \/ outcome[p] = "written"
    /\ Rest \/ Settle
    /\ Becomes(p, "failed")

(* A repair keeps the unreadable document before it lets go of it. *)
SetAside(p) ==
    /\ outcome[p] = "asked" /\ Operation[p] = "repair"
    /\ store.document # Absent /\ ~Readable(store.document)
    /\ Put([store EXCEPT !.aside[p] = store.document])
    /\ UNCHANGED outcome

TakeAway(p) ==
    /\ outcome[p] = "asked"
    /\ store.document # Absent /\ store.aside[p] = store.document
    /\ Put([store EXCEPT !.document = Absent])
    /\ UNCHANGED outcome

(* It gives up: before it has taken the document away ... *)
GiveUp(p) ==
    /\ outcome[p] = "asked"
    /\ store.document # Absent /\ store.aside[p] = store.document
    /\ Put([store EXCEPT !.aside[p] = Absent])
    /\ Becomes(p, "failed")

(* ... or after it has put its own in place. *)
Withdraw(p) ==
    /\ outcome[p] = "written" /\ store.aside[p] # Absent
    /\ Put([store EXCEPT !.document = Absent])
    /\ Becomes(p, "asked")

PutBack(p) ==
    /\ outcome[p] = "asked" /\ store.document = Absent /\ store.aside[p] # Absent
    /\ Put([store EXCEPT !.document = store.aside[p], !.aside[p] = Absent])
    /\ UNCHANGED outcome

(* What is there reaches the disk. *)
Flush(p) == outcome[p] = "asked" /\ Settle /\ UNCHANGED outcome

-------------------------------------------------------------------------------
(* The environment. *)

UserEdit(u) ==
    /\ store' = [store EXCEPT !.document = UserDocument(u)]
    /\ recent' = {store'}
    /\ UNCHANGED outcome

Die(p) == outcome[p] \in {"asked", "written"} /\ Becomes(p, "dead") /\ Rest

PowerLoss ==
    /\ store' \in recent /\ recent' = {store'}
    /\ outcome' = [p \in Procs |-> IF outcome[p] \in {"asked", "written"} THEN "dead"
                                                                      ELSE outcome[p]]

Init ==
    /\ \E document \in {UserDocument(u) : u \in UserDocs} \cup {Absent} :
        store = [document |-> document, aside |-> [p \in Procs |-> Absent]]
    /\ recent = {store}
    /\ outcome = [p \in Procs |-> "idle"]

Next ==
    \/ \E p \in Procs :
        \/ Begin(p) \/ Replace(p) \/ Acknowledge(p) \/ FindGood(p) \/ Refuse(p) \/ Die(p)
        \/ SetAside(p) \/ TakeAway(p) \/ GiveUp(p) \/ Withdraw(p) \/ PutBack(p) \/ Flush(p)
    \/ \E u \in UserDocs : UserEdit(u)
    \/ PowerLoss

Spec == Init /\ [][Next]_atomicVars
===============================================================================
