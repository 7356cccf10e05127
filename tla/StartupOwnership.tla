--------------------------- MODULE StartupOwnership ---------------------------
(***************************************************************************)
(* Who starts Auto Reverse at login: the app's login item, kept by macOS's  *)
(* ServiceManagement, or the LaunchAgent file of the command line           *)
(* (login_item.rs, startup.rs, main.rs, ui.rs).                             *)
(*                                                                         *)
(* The settings process and the commands change both, one call at a time;   *)
(* each call can fail, and none of the operations takes a lock the others   *)
(* honour.  One that moves the ownership reads the login item first, sets   *)
(* the new owner, removes the old one and, if that fails, takes the new one *)
(* back.                                                                    *)
(***************************************************************************)
EXTENDS Naturals, FiniteSets

CONSTANTS
    Gui,         \* the settings process
    Commands     \* command-line processes

Processes == {Gui} \cup Commands

ASSUME ProcessesAssumption == "none" \notin Processes

VARIABLES
    item,       \* is the login item Enabled or RequiresApproval?
    agent,      \* the LaunchAgent file: "absent", "mine" or "other"'s binary
    job,        \* does launchd run the agent's job in this login?
    flag,       \* start_at_login in config.toml
    op,         \* per process: the operation it performs, or "none"
    step,       \* per process: the call it makes next
    was,        \* per process: the login item as it read it
    solo        \* history: the operation that has had no company so far

startupVars == <<item, agent, job, flag, op, step, was, solo>>

GuiOperations == {"row", "register", "unregister", "reconcile", "restore"}
CommandOperations == {"enable", "disable", "uninstall"}
Operations == GuiOperations \cup CommandOperations

Owners == (IF item THEN {"item"} ELSE {}) \cup (IF agent # "absent" THEN {"agent"} ELSE {})

Idle == \A p \in Processes : op[p] = "none"

NoSolo == [process |-> "none", owners |-> {}, failures |-> 0]

(* StartupReport::in_sync: what startup-status compares. *)
InSync == flag = (agent # "absent") /\ agent # "other"

-------------------------------------------------------------------------------
(* The shape of a call: it is this process's next one, and what follows.    *)

At(p, s) == op[p] # "none" /\ step[p] = s

Go(p, s) == step' = [step EXCEPT ![p] = s] /\ UNCHANGED op

End(p) == op' = [op EXCEPT ![p] = "none"] /\ step' = [step EXCEPT ![p] = "start"]

Failed(p) ==
    solo' = IF solo.process = p THEN [solo EXCEPT !.failures = @ + 1] ELSE solo

Unfailed == UNCHANGED solo

-------------------------------------------------------------------------------
(* Beginning an operation.  The row of the window shows Turn off or Turn on *)
(* by the status it has just read.                                          *)

FirstStep(o) ==
    CASE o = "disable" -> "remove"
      [] o = "restore" -> "save"
      [] OTHER -> "read"

Begin(p, o) ==
    /\ op[p] = "none"
    /\ op' = [op EXCEPT ![p] = o]
    /\ step' = [step EXCEPT ![p] = FirstStep(o)]
    /\ was' = [was EXCEPT ![p] = FALSE]
    /\ solo' = IF Idle THEN [process |-> p, owners |-> Owners, failures |-> 0] ELSE NoSolo
    /\ UNCHANGED <<item, agent, job, flag>>

(* login_item::status, and where the answer leads. *)
StepAfterRead(o) ==
    CASE o = "enable" -> "write"
      [] o = "uninstall" -> IF item THEN "unregister" ELSE "remove"
      [] o = "register" -> IF item THEN "remove" ELSE "register"
      [] OTHER -> "unregister"

ReadItem(p) ==
    /\ At(p, "read")
    /\ was' = [was EXCEPT ![p] = item]
    /\ CASE op[p] = "row" ->
              /\ op' = [op EXCEPT ![p] = IF item THEN "unregister" ELSE "register"]
              /\ step' = [step EXCEPT ![p] = IF item THEN "unregister" ELSE "read"]
         [] op[p] = "reconcile" -> IF item THEN Go(p, "look") ELSE End(p)
         [] op[p] = "restore" -> IF item THEN Go(p, "unregister") ELSE End(p)
         [] OTHER -> Go(p, StepAfterRead(op[p]))
    /\ UNCHANGED <<item, agent, job, flag, solo>>

-------------------------------------------------------------------------------
(* ServiceManagement.                                                       *)

(* register_main_app_service *)
Register(p) ==
    /\ At(p, "register")
    /\ \/ item' = TRUE /\ Go(p, "remove") /\ Unfailed
       \/ UNCHANGED item /\ End(p) /\ Failed(p)
    /\ UNCHANGED <<agent, job, flag, was>>

(* unregister_main_app_service, on the way or as the whole operation. *)
StepAfterUnregister(o) ==
    CASE o = "enable" -> "save"
      [] o = "uninstall" -> "recheck"
      [] OTHER -> "end"

KeepBoth(p) == End(p)    \* mutant of UnregisterFails: nothing is taken back

UnregisterFails(p) == IF op[p] = "enable" THEN Go(p, "retract") ELSE End(p)

Unregister(p) ==
    /\ At(p, "unregister")
    /\ \/ /\ item' = FALSE
          /\ IF StepAfterUnregister(op[p]) = "end" THEN End(p)
             ELSE Go(p, StepAfterUnregister(op[p]))
          /\ Unfailed
       \/ UNCHANGED item /\ UnregisterFails(p) /\ Failed(p)
    /\ UNCHANGED <<agent, job, flag, was>>

(* An uninstall believes only a status that shows the login item gone. *)
Recheck(p) ==
    /\ At(p, "recheck")
    /\ IF item THEN End(p) /\ Failed(p) ELSE Go(p, "remove") /\ Unfailed
    /\ UNCHANGED <<item, agent, job, flag, was>>

(* A fresh registration is rolled back when the agent could not be removed. *)
RollBack(p) ==
    /\ At(p, "rollback")
    /\ \/ item' = FALSE /\ Unfailed
       \/ UNCHANGED item /\ Failed(p)
    /\ End(p)
    /\ UNCHANGED <<agent, job, flag, was>>

-------------------------------------------------------------------------------
(* The LaunchAgent.                                                         *)

UnregisterUnread(p) == FALSE    \* mutant of MustUnregister: never mind the login item

MustUnregister(p) == was[p]

(* enable_at: a temporary file, renamed into place. *)
WriteAgent(p) ==
    /\ At(p, "write")
    /\ \/ /\ agent' = "mine"
          /\ Go(p, IF MustUnregister(p) THEN "unregister" ELSE "save")
          /\ Unfailed
       \/ UNCHANGED agent /\ End(p) /\ Failed(p)
    /\ UNCHANGED <<item, job, flag, was>>

RollBackAnyway(p) == Go(p, "rollback")    \* mutant of RemoveFails: whoever registered

RemoveFails(p) == IF op[p] = "register" /\ ~was[p] THEN Go(p, "rollback") ELSE End(p)

(* remove_agent_file: an absent file is as good as a removed one. *)
RemoveAgent(p) ==
    /\ At(p, "remove")
    /\ \/ agent' = "absent" /\ Go(p, "bootout") /\ Unfailed
       \/ agent # "absent" /\ UNCHANGED agent /\ RemoveFails(p) /\ Failed(p)
    /\ UNCHANGED <<item, job, flag, was>>

(* reconcile_startup_ownership: is there an agent beside the login item? *)
LookForAgent(p) ==
    /\ At(p, "look")
    /\ IF agent # "absent" THEN Go(p, "remove") ELSE End(p)
    /\ UNCHANGED <<item, agent, job, flag, was, solo>>

(* The agent that was to replace the login item is removed again. *)
Retract(p) ==
    /\ At(p, "retract")
    /\ \/ agent' = "absent" /\ job' \in {job, FALSE} /\ Unfailed
       \/ agent # "absent" /\ UNCHANGED <<agent, job>> /\ Failed(p)
    /\ End(p)
    /\ UNCHANGED <<item, flag, was>>

(* launchctl bootout, whose failure is only noted. *)
Bootout(p) ==
    /\ At(p, "bootout")
    /\ job' \in {job, FALSE}
    /\ IF op[p] \in {"disable", "uninstall"} THEN Go(p, "save") ELSE End(p)
    /\ UNCHANGED <<item, agent, flag, was, solo>>

(* The configuration is saved last, and by Restore all defaults first. *)
SaveFlag(p) ==
    /\ At(p, "save")
    /\ \/ /\ flag' = (op[p] = "enable")
          /\ IF op[p] = "restore" THEN Go(p, "read") ELSE End(p)
          /\ Unfailed
       \/ UNCHANGED flag /\ End(p) /\ Failed(p)
    /\ UNCHANGED <<item, agent, job, was>>

-------------------------------------------------------------------------------
(* macOS, another installation and the user.                                *)

(* Logging in starts the job of the agent that is installed. *)
Login ==
    /\ Idle
    /\ job' = (agent # "absent")
    /\ UNCHANGED <<item, agent, flag, op, step, was, solo>>

(* The program is moved, or another copy installed its agent. *)
Elsewhere ==
    /\ Idle /\ agent = "mine"
    /\ agent' = "other"
    /\ UNCHANGED <<item, job, flag, op, step, was, solo>>

-------------------------------------------------------------------------------
StartupInit ==
    /\ item \in BOOLEAN
    /\ agent \in {"absent", "mine", "other"}
    /\ job = (agent # "absent")
    /\ flag \in BOOLEAN
    /\ op = [p \in Processes |-> "none"]
    /\ step = [p \in Processes |-> "start"]
    /\ was = [p \in Processes |-> FALSE]
    /\ solo = NoSolo

Proceed(p) ==
    \/ ReadItem(p) \/ Register(p) \/ Unregister(p) \/ Recheck(p) \/ RollBack(p)
    \/ LookForAgent(p) \/ WriteAgent(p) \/ RemoveAgent(p) \/ Retract(p)
    \/ Bootout(p) \/ SaveFlag(p)

StartupNext ==
    \/ \E o \in {"row", "reconcile", "restore"} : Begin(Gui, o)
    \/ \E p \in Commands, o \in CommandOperations : Begin(p, o)
    \/ \E p \in Processes : Proceed(p)
    \/ Login
    \/ Elsewhere

StartupSpec == StartupInit /\ [][StartupNext]_startupVars

-------------------------------------------------------------------------------
StepsOf(o) ==
    CASE o = "none" -> {"start"}
      [] o = "row" -> {"read"}
      [] o = "register" -> {"read", "register", "remove", "rollback", "bootout"}
      [] o = "unregister" -> {"unregister"}
      [] o = "reconcile" -> {"read", "look", "remove", "bootout"}
      [] o = "restore" -> {"save", "read", "unregister"}
      [] o = "enable" -> {"read", "write", "unregister", "retract", "save"}
      [] o = "disable" -> {"remove", "bootout", "save"}
      [] o = "uninstall" -> {"read", "unregister", "recheck", "remove", "bootout", "save"}

(* Types; each operation makes its own calls only: what one has registered  *)
(* or installed is taken back by that one alone.                            *)
StartupTypeOK ==
    /\ item \in BOOLEAN /\ agent \in {"absent", "mine", "other"}
    /\ job \in BOOLEAN /\ flag \in BOOLEAN
    /\ op \in [Processes -> Operations \cup {"none"}]
    /\ \A p \in Processes : step[p] \in StepsOf(op[p])
    /\ was \in [Processes -> BOOLEAN]
    /\ solo.process \in Processes \cup {"none"}
    /\ solo.owners \subseteq {"item", "agent"}
    /\ solo.failures \in Nat

(* What an operation none of whose calls failed has achieved. *)
Achieved(o) ==
    CASE o = "enable" -> Owners = {"agent"} /\ InSync
      [] o = "disable" -> agent = "absent" /\ InSync
      [] o = "uninstall" -> Owners = {}
      [] o = "register" -> Owners = {"item"}
      [] o \in {"unregister", "restore"} -> ~item
      [] o = "reconcile" -> Owners # {"item", "agent"}
      [] OTHER -> FALSE

EndsAlone(p) == solo.process = p /\ op[p] # "none" /\ op'[p] = "none"

(* The ownership of the login start moves as a whole.  An operation that    *)
(* had no company and all of whose calls succeeded has done what it says,   *)
(* with one owner left, or none.  One that failed leaves two owners only if *)
(* it met two or its own rollback failed too, and leaves none only if there *)
(* was none or it was asked to remove one (login_item.rs, main.rs:482-507,  *)
(* readme.md:126-128).                                                      *)
OwnershipMovesWhole ==
    [][\A p \in Processes : EndsAlone(p) =>
          /\ solo'.failures = 0 => \A o \in Operations : o = op[p] => Achieved(o)'
          /\ Owners' = {"item", "agent"} =>
                solo.owners = {"item", "agent"} \/ solo'.failures > 1
          /\ Owners' = {} =>
                \/ solo.owners = {}
                \/ op[p] \in {"disable", "unregister", "uninstall", "restore"}]_startupVars
================================================================================
