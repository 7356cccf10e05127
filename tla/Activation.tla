------------------------------ MODULE Activation ------------------------------
(***************************************************************************)
(* One settings process, many callers: ui.lock decides which launch becomes*)
(* the primary window, the pid written into it tells the others where to   *)
(* address the one-slot mailbox ui.activate, and the primary polls that    *)
(* slot (activation.rs, daemon_lock.rs, the callers in ui.rs and main.rs). *)
(*                                                                         *)
(* Every process commits one edit to the configuration before it asks the  *)
(* primary to reload, so an edit is the process that made it; a launch     *)
(* that becomes primary commits nothing.  Every system call is a step.     *)
(***************************************************************************)
EXTENDS Naturals

CONSTANTS
    Launches,     \* processes that run the settings window
    Reloaders,    \* commands that ask for a reload (ReloadOnly)
    Openers,      \* commands that restore the menu-bar icon (ReloadAndOpen)
    Running,      \* the launches already running at start: none or one
    MaxQuits      \* bound: how often a settings process ends

Commands == Reloaders \cup Openers
Processes == Launches \cup Commands

ASSUME ConstantsAssumption ==
    /\ Launches \cap Commands = {} /\ Reloaders \cap Openers = {}
    /\ "none" \notin Processes
    /\ Running = {} \/ \E p \in Launches : Running = {p}
    /\ MaxQuits \in Nat

VARIABLES
    stored,    \* edits in config.toml
    lock,      \* holder of ui.lock, or "none"
    pid,       \* process id readable in ui.lock, or "none"
    mailbox,   \* contents of ui.activate, or NoRequest
    pc,        \* per process: what it does next
    target,    \* per process: the pid its request is addressed to, or "none"
    seen,      \* per launch: the edits its window has loaded
    claimed,   \* request the primary has claimed and not acted on
    window,    \* is the primary's window visible?
    quits      \* settings processes ended so far

vars == <<stored, lock, pid, mailbox, pc, target, seen, claimed, window, quits>>

NoRequest == [target |-> "none", action |-> "none"]
Requests == [target : Processes, action : {"reload", "open"}]

(* ReloadAndOpen of a second launch and of `menu-bar show`, else ReloadOnly. *)
ActionOf(p) == IF p \in Reloaders THEN "reload" ELSE "open"
RequestOf(p) == [target |-> target[p], action |-> ActionOf(p)]

Advance(p, from, to) == pc[p] = from /\ pc' = [pc EXCEPT ![p] = to]

primaryVars == <<seen, claimed, window, quits>>

-------------------------------------------------------------------------------
(* Taking the lock: flock, then the pid is cleared and written.             *)

(* ConfigStore::update: commands commit first of all, a launch once refused.*)
Commit(p) ==
    /\ Advance(p, "commit", IF p \in Launches THEN "pid" ELSE "acquire")
    /\ stored' = stored \cup {p}
    /\ UNCHANGED <<lock, pid, mailbox, target, primaryVars>>

TryAcquireUnwritten(p) ==    \* mutant of TryAcquire: no pid is taken for no owner
    /\ \/ /\ lock = "none" \/ pid = "none"
          /\ Advance(p, "acquire", "clear")
          /\ lock' = p
       \/ /\ lock # "none" /\ pid # "none"
          /\ Advance(p, "acquire", IF p \in Launches THEN "commit" ELSE "pid")
          /\ UNCHANGED lock
    /\ UNCHANGED <<stored, pid, mailbox, target, primaryVars>>

TryAcquire(p) ==
    /\ \/ /\ lock = "none"
          /\ Advance(p, "acquire", "clear")
          /\ lock' = p
       \/ /\ lock # "none"
          /\ Advance(p, "acquire", IF p \in Launches THEN "commit" ELSE "pid")
          /\ UNCHANGED lock
    /\ UNCHANGED <<stored, pid, mailbox, target, primaryVars>>

ClearPid(p) ==
    /\ Advance(p, "clear", "record")
    /\ pid' = "none"
    /\ UNCHANGED <<stored, lock, mailbox, target, primaryVars>>

RecordPid(p) ==
    /\ Advance(p, "record", IF p \in Launches THEN "load" ELSE "release")
    /\ pid' = p
    /\ UNCHANGED <<stored, lock, mailbox, target, primaryVars>>

(* request_existing_gui_if_running found nobody: the lock is let go again. *)
ReleaseProbe(p) ==
    /\ Advance(p, "release", "done")
    /\ lock' = "none"
    /\ UNCHANGED <<stored, pid, mailbox, target, primaryVars>>

-------------------------------------------------------------------------------
(* Leaving a request: read the owner's pid, then write_request.             *)

Publish(p) == mailbox' = RequestOf(p)

ReadPid(p) ==
    /\ \/ pid = "none" /\ Advance(p, "pid", "failed") /\ UNCHANGED target
       \/ /\ pid # "none"
          /\ Advance(p, "pid", IF ActionOf(p) = "open" THEN "replace" ELSE "check")
          /\ target' = [target EXCEPT ![p] = pid]
    /\ UNCHANGED <<stored, lock, pid, mailbox, primaryVars>>

AnythingPending(p) == mailbox # NoRequest    \* mutant of SameOwnerPending

SameOwnerPending(p) == mailbox # NoRequest /\ mailbox.target = target[p]

(* A reload need not be written while the same owner has one pending. *)
CheckPending(p) ==
    /\ Advance(p, "check", IF SameOwnerPending(p) THEN "done" ELSE "link")
    /\ UNCHANGED <<stored, lock, pid, mailbox, target, primaryVars>>

LinkOver(p) ==    \* mutant of Link: rename even if a request appeared
    /\ Advance(p, "link", "done")
    /\ Publish(p)
    /\ UNCHANGED <<stored, lock, pid, target, primaryVars>>

(* hard_link creates the file, or finds that one exists after all. *)
Link(p) ==
    /\ \/ mailbox = NoRequest /\ Advance(p, "link", "done") /\ Publish(p)
       \/ mailbox # NoRequest /\ Advance(p, "link", "recheck") /\ UNCHANGED mailbox
    /\ UNCHANGED <<stored, lock, pid, target, primaryVars>>

(* The existing request is read; gone again or stale, it is replaced. *)
Recheck(p) ==
    /\ Advance(p, "recheck", IF SameOwnerPending(p) THEN "done" ELSE "replace")
    /\ UNCHANGED <<stored, lock, pid, mailbox, target, primaryVars>>

Replace(p) ==
    /\ Advance(p, "replace", "done")
    /\ Publish(p)
    /\ UNCHANGED <<stored, lock, pid, target, primaryVars>>

-------------------------------------------------------------------------------
(* The primary: load once, then poll the mailbox on every tick.             *)

Load(p) ==
    /\ Advance(p, "load", "primary")
    /\ seen' = [seen EXCEPT ![p] = stored]
    /\ claimed' = NoRequest
    /\ window' = TRUE
    /\ UNCHANGED <<stored, lock, pid, mailbox, target, quits>>

(* The file is renamed away before it is read. *)
Claim(p) ==
    /\ pc[p] = "primary" /\ claimed = NoRequest /\ mailbox # NoRequest
    /\ claimed' = mailbox
    /\ mailbox' = NoRequest
    /\ UNCHANGED <<stored, lock, pid, pc, target, seen, window, quits>>

(* A request for another process is dropped. *)
Act(p) ==
    /\ pc[p] = "primary" /\ claimed # NoRequest
    /\ claimed' = NoRequest
    /\ IF claimed.target = p
       THEN /\ seen' = [seen EXCEPT ![p] = stored]
            /\ window' = (window \/ claimed.action = "open")
       ELSE UNCHANGED <<seen, window>>
    /\ UNCHANGED <<stored, lock, pid, mailbox, pc, target, quits>>

(* Closing the window hides it. *)
HideWindow(p) ==
    /\ pc[p] = "primary" /\ window
    /\ window' = FALSE
    /\ UNCHANGED <<stored, lock, pid, mailbox, pc, target, seen, claimed, quits>>

(* The settings process ends, by Quit or by a crash; the kernel frees the   *)
(* lock, the pid and the mailbox stay as they are.                          *)
End(p) ==
    /\ p \in Launches /\ lock = p
    /\ quits < MaxQuits
    /\ quits' = quits + 1
    /\ pc' = [pc EXCEPT ![p] = "gone"]
    /\ lock' = "none"
    /\ claimed' = NoRequest
    /\ window' = FALSE
    /\ UNCHANGED <<stored, pid, mailbox, target, seen>>

(* Somebody starts the process. *)
Begin(p) ==
    /\ Advance(p, "idle", IF p \in Launches THEN "acquire" ELSE "commit")
    /\ UNCHANGED <<stored, lock, pid, mailbox, target, primaryVars>>

-------------------------------------------------------------------------------
Init ==
    /\ stored = {}
    /\ lock = IF Running = {} THEN "none" ELSE CHOOSE p \in Running : TRUE
    /\ pid = lock
    /\ mailbox = NoRequest
    /\ pc = [p \in Processes |-> IF p \in Running THEN "primary" ELSE "idle"]
    /\ target = [p \in Processes |-> "none"]
    /\ seen = [p \in Launches |-> {}]
    /\ claimed = NoRequest
    /\ window = (Running # {})
    /\ quits = 0

Step(p) ==
    \/ Commit(p) \/ TryAcquire(p) \/ ClearPid(p) \/ RecordPid(p)
    \/ ReleaseProbe(p) \/ ReadPid(p) \/ CheckPending(p) \/ Link(p) \/ Recheck(p)
    \/ Replace(p)

PrimaryStep(p) == Load(p) \/ Claim(p) \/ Act(p)

Next ==
    \/ \E p \in Processes : Begin(p) \/ Step(p)
    \/ \E p \in Launches : PrimaryStep(p) \/ HideWindow(p) \/ End(p)

Spec == Init /\ [][Next]_vars

(* A process that was started runs on, and the primary keeps ticking, its   *)
(* window visible or not.  Nobody has to start one, to hide or to quit.     *)
Fairness ==
    /\ \A p \in Processes : WF_vars(Step(p))
    /\ \A p \in Launches : WF_vars(PrimaryStep(p))

FairSpec == Spec /\ Fairness

-------------------------------------------------------------------------------
TypeOK ==
    /\ stored \subseteq Processes
    /\ lock \in Processes \cup {"none"}
    /\ pid \in Processes \cup {"none"}
    /\ mailbox \in Requests \cup {NoRequest}
    /\ pc \in [Processes -> {"idle", "commit", "acquire", "clear", "record",
                             "release", "pid", "check", "link", "recheck",
                             "replace", "load", "primary", "done", "failed",
                             "gone"}]
    /\ target \in [Processes -> Processes \cup {"none"}]
    /\ seen \in [Launches -> SUBSET Processes]
    /\ claimed \in Requests \cup {NoRequest}
    /\ window \in BOOLEAN
    /\ quits \in 0..MaxQuits

(* A process is where a holder of ui.lock can be exactly while the lock is   *)
(* its own, so there is one primary; and from the time it loads the window   *)
(* the pid that can be read is its own, so that requests are addressed to it *)
(* (activation.rs:69).                                                       *)
Holding == {"clear", "record", "release", "load", "primary"}
Recorded == {"release", "load", "primary"}

OnePrimary ==
    \A p \in Processes :
        /\ pc[p] \in Holding <=> lock = p
        /\ pc[p] \in Recorded => pid = p

(* Every request about to be written is addressed to g, the settled primary. *)
SettledOn(g) ==
    /\ lock = g /\ pid = g /\ pc[g] = "primary"
    /\ \A q \in Processes :
        pc[q] \in {"check", "link", "recheck", "replace"} => target[q] = g

(* Whatever interleaves - reloads coalesced into one, a request claimed     *)
(* while another is written, a window that is hidden - the settled primary  *)
(* comes to show an edit committed by a process that is about to notify it, *)
(* unless it ends first (activation.rs:131, 238).                           *)
CommitReachesWindow ==
    \A g \in Launches, p \in Processes :
        (SettledOn(g) /\ p \in stored /\ pc[p] \in {"acquire", "pid"})
            ~> (p \in seen[g] \/ pc[g] = "gone")

(* What g will show without anybody else's help: what it has loaded, the     *)
(* edits whose processes have yet to ask, and all of them once it is asked.  *)
Notifying == {"acquire", "pid", "check", "link", "recheck", "replace"}

Promised(g) ==
    {p \in stored : \/ p \in seen[g] \/ pc[p] \in Notifying
                    \/ mailbox.target = g \/ claimed.target = g}

(* The safety half of that: no step, of a command, of a launch or of the     *)
(* primary itself, loses an edit the settled primary was promised - a reload *)
(* coalesced into a pending one is covered by it, and a claimed request      *)
(* reloads all that is stored when it is acted on (activation.rs:131, 238).  *)
NewsIsKept ==
    [][\A g \in Launches :
        SettledOn(g) /\ pc'[g] = "primary" => Promised(g) \subseteq Promised(g)']_vars

(* A request to show the window that waits for the settled primary opens    *)
(* it, as long as no other process has already decided to replace what is   *)
(* in the mailbox (activation.rs:238).                                      *)
OpenDelivered ==
    \A g \in Launches :
        (/\ SettledOn(g)
         /\ mailbox = [target |-> g, action |-> "open"]
         /\ \A q \in Processes : pc[q] # "replace")
            ~> (window \/ pc[g] = "gone")

OpenPending(g) == [target |-> g, action |-> "open"] \in {mailbox, claimed}

(* The safety half of that: once the settled primary is asked to show its    *)
(* window it stays asked, whatever reloads are written, until it does, unless*)
(* a reload had already found another owner's request and is about to        *)
(* replace it (activation.rs:238).                                           *)
OpenIsKept ==
    [][\A g \in Launches :
        /\ SettledOn(g) /\ OpenPending(g) /\ pc'[g] = "primary"
        /\ \A q \in Processes : pc[q] = "replace" => ActionOf(q) = "open"
        => OpenPending(g)' \/ window']_vars

(* activation.rs:238: a later background-only edit never downgrades a       *)
(* pending request to expose the window.                                    *)
NoDowngrade ==
    [][mailbox.action = "open" /\ mailbox.target = lock =>
        mailbox' \in {mailbox, NoRequest} \/ mailbox'.action = "open"]_vars

(* activation.rs:69: a launch either becomes the primary or activates the   *)
(* existing one - a settings window is visible sooner or later, or the      *)
(* launch reports an error.                                                 *)
LaunchOpensWindow ==
    \A p \in Launches :
        pc[p] = "acquire" ~> (pc[p] \in {"failed", "gone"} \/ window)
==============================================================================
