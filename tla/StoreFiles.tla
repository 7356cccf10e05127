------------------------------ MODULE StoreFiles ------------------------------
(***************************************************************************)
(* ConfigStore one system call at a time (config/store.rs).  Processes take*)
(* the file lock, read config.toml and replace it: update, save_if_        *)
(* unchanged, load_or_create and repair_with_defaults.  Every call may     *)
(* fail, a process may be killed between two calls, and the machine may    *)
(* lose power: what the directory looks like then is one of its states     *)
(* since the last sync of the directory, in the order in which it changed, *)
(* and a file that was never synced has lost its contents.                 *)
(*                                                                         *)
(* A document is known by who wrote it, the user's document it derives from*)
(* and the edits it contains.                                              *)
(***************************************************************************)
EXTENDS Naturals

CONSTANTS
    Procs,        \* each performs one operation
    Operation,    \* [Procs -> {"update", "save", "create", "repair"}]
    UserDocs,     \* documents an editor writes, that takes no lock
    Broken,       \* those of them that do not parse or validate
    Defaults,     \* the origin of AppConfig::default()
    Nobody, NoFile,
    MaxFaults,    \* bound: failing calls
    MaxCrashes    \* bound: kills and power losses

ASSUME StoreAssumption ==
    /\ Operation \in [Procs -> {"update", "save", "create", "repair"}]
    /\ Broken \subseteq UserDocs /\ Defaults \notin UserDocs
    /\ Nobody \notin Procs \cup UserDocs /\ Procs \cap UserDocs = {}
    /\ MaxFaults \in Nat /\ MaxCrashes \in Nat

Files == [by : Procs \cup UserDocs, origin : UserDocs \cup {Defaults},
          edits : SUBSET Procs]

ASSUME NoFileAssumption == NoFile \notin Files

VARIABLES
    dir,       \* config, temporary and backup files as processes see them
    past,      \* the directories a power loss may leave
    flushed,   \* writers whose bytes are on the disk
    lock,      \* who holds config.toml.lock
    pc,        \* how far each operation is
    base,      \* what it read, or what its caller has edited
    kept,      \* history: acknowledged edits no editor has overwritten
    broken,    \* history: broken documents no editor has overwritten
    used,      \* user documents already written
    faults, crashes

files == <<dir, past>>
history == <<kept, broken, used, crashes>>
vars == <<dir, past, flushed, lock, pc, base, kept, broken, used, faults, crashes>>

Valid(f) == f.by \notin Broken

(* The temporary's contents: the document read with the edit, or defaults. *)
Draft(p) ==
    IF base[p] = NoFile \/ Operation[p] \in {"create", "repair"}
    THEN [by |-> p, origin |-> Defaults,
          edits |-> IF Operation[p] = "update" THEN {p} ELSE {}]
    ELSE [by |-> p, origin |-> base[p].origin, edits |-> base[p].edits \cup {p}]

Change(d) == dir' = d /\ past' = past \cup {d}
SyncDirectory == past' = {dir} /\ UNCHANGED dir

Works == UNCHANGED faults
Fails == faults < MaxFaults /\ faults' = faults + 1

At(p, at) == lock = p /\ pc[p] = at
Go(p, at) == pc' = [pc EXCEPT ![p] = at] /\ UNCHANGED lock

End(p, result) == pc' = [pc EXCEPT ![p] = result] /\ lock' = Nobody

-------------------------------------------------------------------------------
(* load_snapshot, before the caller of save_if_unchanged edits. *)
LoadSnapshot(p) ==
    /\ Operation[p] = "save" /\ pc[p] = "start" /\ lock = Nobody
    /\ IF dir.config # NoFile /\ Valid(dir.config)
       THEN base' = [base EXCEPT ![p] = dir.config] /\ pc' = [pc EXCEPT ![p] = "loaded"]
       ELSE UNCHANGED base /\ pc' = [pc EXCEPT ![p] = "failed"]
    /\ UNCHANGED <<files, flushed, lock, faults, history>>

EveryRevision(f, g) == f # NoFile /\ g # NoFile    \* mutant of SameBytes: no comparison

SameBytes(f, g) ==
    f # NoFile /\ g # NoFile /\ f.origin = g.origin /\ f.edits = g.edits

TakeLock(p) == lock = Nobody /\ pc[p] = IF Operation[p] = "save" THEN "loaded" ELSE "start"

(* What an operation goes on to do about the file it finds. *)
Decision(p) ==
    CASE Operation[p] = "save" ->
            IF SameBytes(dir.config, base[p]) THEN "create" ELSE "failed"
      [] Operation[p] # "save" /\ dir.config = NoFile -> "create"
      [] Operation[p] # "save" /\ dir.config # NoFile ->
            IF Valid(dir.config)
            THEN IF Operation[p] = "update" THEN "create" ELSE "ok"
            ELSE IF Operation[p] = "repair" THEN "link" ELSE "failed"

(* A save has its document from the caller, who made it of what was loaded. *)
Begin(p) ==
    /\ TakeLock(p)
    /\ base' = IF Operation[p] = "save" THEN base ELSE [base EXCEPT ![p] = dir.config]
    /\ pc' = [pc EXCEPT ![p] = Decision(p)]
    /\ lock' = IF Decision(p) \in {"ok", "failed"} THEN Nobody ELSE p
    /\ UNCHANGED <<files, flushed, faults, history>>

BeginFails(p) ==
    /\ TakeLock(p)
    /\ Fails /\ pc' = [pc EXCEPT ![p] = "failed"]
    /\ UNCHANGED <<files, flushed, lock, base, history>>

-------------------------------------------------------------------------------
(* write_unlocked *)

FailPlainly(p) == End(p, "failed")    \* mutant of WriteFailed: no rollback

(* Only a repair that has quarantined a document has something to restore. *)
WriteFailed(p) ==
    IF Operation[p] = "repair" /\ base[p] # NoFile THEN Go(p, "remove")
    ELSE End(p, "failed")

CreateTemporary(p) ==
    /\ At(p, "create")
    /\ \/ Works /\ Change([dir EXCEPT !.tmp[p] = Draft(p)]) /\ Go(p, "fill")
       \/ Fails /\ WriteFailed(p) /\ UNCHANGED files
    /\ UNCHANGED <<flushed, base, history>>

FillWithoutSync(p) ==    \* mutant of FillTemporary
    /\ At(p, "fill")
    /\ Go(p, "rename")
    /\ UNCHANGED <<files, flushed, base, faults, history>>

(* write_all and sync_all *)
FillTemporary(p) ==
    /\ At(p, "fill")
    /\ \/ Works /\ flushed' = flushed \cup {p} /\ Go(p, "rename")
       \/ Fails /\ UNCHANGED flushed /\ Go(p, "drop")
    /\ UNCHANGED <<files, base, history>>

ReplaceConfig(p) ==
    /\ At(p, "rename")
    /\ \/ /\ Works /\ Go(p, "commit")
          /\ Change([dir EXCEPT !.config = dir.tmp[p], !.tmp[p] = NoFile])
       \/ Fails /\ Go(p, "drop") /\ UNCHANGED files
    /\ UNCHANGED <<flushed, base, history>>

DropNothing(p) ==    \* mutant of DropTemporary
    /\ At(p, "drop")
    /\ WriteFailed(p)
    /\ UNCHANGED <<files, flushed, base, faults, history>>

(* A failure to remove the temporary is ignored. *)
DropTemporary(p) ==
    /\ At(p, "drop")
    /\ \/ Works /\ Change([dir EXCEPT !.tmp[p] = NoFile])
       \/ Fails /\ UNCHANGED files
    /\ WriteFailed(p)
    /\ UNCHANGED <<flushed, base, history>>

CommitWithoutSync(p) ==    \* mutant of Commit
    /\ At(p, "commit")
    /\ End(p, "ok")
    /\ kept' = IF Operation[p] \in {"update", "save"} THEN kept \cup {p} ELSE kept
    /\ UNCHANGED <<files, flushed, base, faults, broken, used, crashes>>

(* sync_parent_directory, and the caller learns the result. *)
Commit(p) ==
    /\ At(p, "commit")
    /\ \/ /\ Works /\ SyncDirectory /\ End(p, "ok")
          /\ kept' = IF Operation[p] \in {"update", "save"} THEN kept \cup {p} ELSE kept
       \/ Fails /\ WriteFailed(p) /\ UNCHANGED <<files, kept>>
    /\ UNCHANGED <<flushed, base, broken, used, crashes>>

-------------------------------------------------------------------------------
(* quarantine_invalid_config *)

LinkBackup(p) ==
    /\ At(p, "link")
    /\ \/ Works /\ Change([dir EXCEPT !.bak[p] = dir.config]) /\ Go(p, "sync backup")
       \/ Fails /\ End(p, "failed") /\ UNCHANGED files
    /\ UNCHANGED <<flushed, base, history>>

SyncBackupSkipped(p) ==    \* mutant of SyncBackup
    /\ At(p, "sync backup")
    /\ Go(p, "unlink")
    /\ UNCHANGED <<files, flushed, base, faults, history>>

SyncBackup(p) ==
    /\ At(p, "sync backup")
    /\ \/ Works /\ flushed' = flushed \cup {dir.bak[p].by} /\ Go(p, "unlink")
       \/ Fails /\ UNCHANGED flushed /\ Go(p, "drop backup")
    /\ UNCHANGED <<files, base, history>>

UnlinkConfig(p) ==
    /\ At(p, "unlink")
    /\ \/ Works /\ Change([dir EXCEPT !.config = NoFile]) /\ Go(p, "sync quarantine")
       \/ Fails /\ Go(p, "drop backup") /\ UNCHANGED files
    /\ UNCHANGED <<flushed, base, history>>

DropBackup(p) ==
    /\ At(p, "drop backup")
    /\ \/ Works /\ Change([dir EXCEPT !.bak[p] = NoFile])
       \/ Fails /\ UNCHANGED files
    /\ End(p, "failed")
    /\ UNCHANGED <<flushed, base, history>>

SyncQuarantine(p) ==
    /\ At(p, "sync quarantine")
    /\ \/ Works /\ SyncDirectory /\ Go(p, "create")
       \/ Fails /\ Go(p, "remove") /\ UNCHANGED files
    /\ UNCHANGED <<flushed, base, history>>

-------------------------------------------------------------------------------
(* restore_after_failed_repair *)

(* An absent replacement is no error. *)
RemoveReplacement(p) ==
    /\ At(p, "remove")
    /\ \/ Works /\ Change([dir EXCEPT !.config = NoFile]) /\ Go(p, "put back")
       \/ Fails /\ End(p, "failed") /\ UNCHANGED files
    /\ UNCHANGED <<flushed, base, history>>

PutBack(p) ==
    /\ At(p, "put back")
    /\ \/ /\ Works /\ Go(p, "sync back")
          /\ Change([dir EXCEPT !.config = dir.bak[p], !.bak[p] = NoFile])
       \/ Fails /\ End(p, "failed") /\ UNCHANGED files
    /\ UNCHANGED <<flushed, base, history>>

SyncBack(p) ==
    /\ At(p, "sync back")
    /\ \/ Works /\ SyncDirectory
       \/ Fails /\ UNCHANGED files
    /\ End(p, "failed")
    /\ UNCHANGED <<flushed, base, history>>

-------------------------------------------------------------------------------
(* The environment. *)

(* An editor replaces the file while no operation is under way.  Its own    *)
(* directory entry is on the disk; a document it left broken may not be.    *)
UserEdit(u) ==
    /\ lock = Nobody /\ u \notin used
    /\ LET d == [dir EXCEPT !.config = [by |-> u, origin |-> u, edits |-> {}]]
       IN  dir' = d /\ past' = {d}
    /\ flushed' = flushed \cup ({u} \ Broken)
    /\ broken' = (broken \ {b \in broken : dir.config # NoFile /\ dir.config.by = b})
                    \cup ({u} \cap Broken)
    /\ kept' = {} /\ used' = used \cup {u}
    /\ UNCHANGED <<lock, pc, base, faults, crashes>>

Running(p) == pc[p] \notin {"start", "ok", "failed", "dead"}

(* A process is killed: the kernel releases its lock, its files stay. *)
Kill(p) ==
    /\ Running(p) /\ crashes < MaxCrashes
    /\ pc' = [pc EXCEPT ![p] = "dead"]
    /\ lock' = IF lock = p THEN Nobody ELSE lock
    /\ crashes' = crashes + 1
    /\ UNCHANGED <<files, flushed, base, kept, broken, used, faults>>

PowerLoss ==
    /\ crashes < MaxCrashes
    /\ \E d \in past : dir' = d /\ past' = {d}
    /\ pc' = [p \in Procs |-> IF Running(p) THEN "dead" ELSE pc[p]]
    /\ lock' = Nobody
    /\ crashes' = crashes + 1
    /\ UNCHANGED <<flushed, base, kept, broken, used, faults>>

Init ==
    /\ \E u \in UserDocs \cup {Nobody} :
        LET f == IF u = Nobody THEN NoFile ELSE [by |-> u, origin |-> u, edits |-> {}]
        IN  /\ dir = [config |-> f, tmp |-> [p \in Procs |-> NoFile],
                      bak |-> [p \in Procs |-> NoFile]]
            /\ used = {u} \cap UserDocs /\ broken = {u} \cap Broken
            /\ flushed = ({u} \cap UserDocs) \ Broken
    /\ past = {dir}
    /\ lock = Nobody /\ pc = [p \in Procs |-> "start"]
    /\ base = [p \in Procs |-> NoFile]
    /\ kept = {} /\ faults = 0 /\ crashes = 0

Write(p) ==
    CreateTemporary(p) \/ FillTemporary(p) \/ ReplaceConfig(p) \/ DropTemporary(p)
    \/ Commit(p)

Quarantine(p) ==
    LinkBackup(p) \/ SyncBackup(p) \/ UnlinkConfig(p) \/ DropBackup(p)
    \/ SyncQuarantine(p)

Restore(p) == RemoveReplacement(p) \/ PutBack(p) \/ SyncBack(p)

Next ==
    \/ \E p \in Procs :
        \/ LoadSnapshot(p) \/ Begin(p) \/ BeginFails(p)
        \/ Write(p) \/ Quarantine(p) \/ Restore(p) \/ Kill(p)
    \/ \E u \in UserDocs : UserEdit(u)
    \/ PowerLoss

Spec == Init /\ [][Next]_vars

-------------------------------------------------------------------------------
Entries == Files \cup {NoFile}
Directories == [config : Entries, tmp : [Procs -> Entries], bak : [Procs -> Entries]]
Places == {"start", "loaded", "ok", "failed", "dead", "create", "fill", "rename",
           "drop", "commit", "link", "sync backup", "unlink", "drop backup",
           "sync quarantine", "remove", "put back", "sync back"}

(* Every variable has its type, what is seen now is among what a power loss *)
(* may leave, and only an operation under way holds the lock.               *)
TypeOK ==
    /\ past \subseteq Directories /\ dir \in past
    /\ flushed \subseteq Procs \cup UserDocs
    /\ lock \in Procs \cup {Nobody} /\ (lock # Nobody => Running(lock))
    /\ pc \in [Procs -> Places]
    /\ base \in [Procs -> Entries]
    /\ kept \subseteq Procs
    /\ broken \subseteq Broken /\ used \subseteq UserDocs
    /\ faults \in 0..MaxFaults /\ crashes \in 0..MaxCrashes

(* An edit whose operation returned Ok is in config.toml for as long as no  *)
(* editor overwrites it, whatever other operations, kills and failures come *)
(* after it, and also after a power loss.                                   *)
AcknowledgedEditsStay ==
    \A d \in past : kept # {} => d.config # NoFile /\ kept \subseteq d.config.edits

(* config.toml never names a file of ours whose bytes may be lost. *)
WholeDocument ==
    \A d \in past :
        d.config # NoFile /\ d.config.by \in Procs => d.config.by \in flushed

(* "Invalid bytes are moved intact to a unique sibling before defaults are  *)
(* written": whatever a repair has done when it fails, is killed or loses   *)
(* power, the broken document is config.toml or a backup, and its bytes are *)
(* on the disk before config.toml lets go of them.                          *)
BrokenBytesSurvive ==
    \A b \in broken, d \in past :
        \/ d.config # NoFile /\ d.config.by = b
        \/ b \in flushed /\ \E p \in Procs : d.bak[p] # NoFile /\ d.bak[p].by = b

(* An operation that ended, well or after one failing call, leaves no       *)
(* temporary file, and a backup only if it is a repair that succeeded.      *)
NoStrayFiles ==
    crashes = 0 /\ faults <= 1 =>
        \A p \in Procs : pc[p] \in {"ok", "failed"} =>
            /\ dir.tmp[p] = NoFile
            /\ dir.bak[p] # NoFile => pc[p] = "ok"

(* "If replacement fails, the original path is restored before returning":  *)
(* a repair that returns an error after one failing call leaves the very    *)
(* file it found, also when the replacement was in place already.           *)
FailedRepairRestores ==
    [][\A p \in Procs :
        /\ Operation[p] = "repair" /\ Running(p) /\ pc'[p] = "failed"
        /\ base[p] # NoFile /\ faults' <= 1
        => dir'.config = base[p]]_vars

-------------------------------------------------------------------------------
(* What callers see of a directory, and of an operation.  A repair whose    *)
(* document is in place is undoing a replacement, else it has none yet.     *)
Seen(d) == [document |-> d.config, aside |-> d.bak]

Outcome(p) ==
    CASE pc[p] \in {"ok", "failed", "dead"} -> pc[p]
      [] pc[p] = "start" -> "idle"
      [] pc[p] = "commit" \/ (pc[p] = "remove" /\ dir.config # NoFile) -> "written"
      [] OTHER -> "asked"

Atomic == INSTANCE AtomicStore WITH
    Absent <- NoFile, store <- Seen(dir), recent <- {Seen(d) : d \in past},
    outcome <- [p \in Procs |-> Outcome(p)]

(* "Atomic writers make either the old or new complete revision visible"    *)
(* (inspect_existing); "the check and atomic rename happen under one cross- *)
(* process lock" (save_if_unchanged): whatever calls an operation is made   *)
(* of and whichever fails or is the last, who looks sees one document       *)
(* replaced in one step, made of the very one it replaces; and "Ok" is for  *)
(* good.  A repair is the exception: it takes the broken document away in   *)
(* one step and puts its own in place in another, and who looks in between  *)
(* finds none (store.rs:383).                                               *)
ImplementsAtomicStore == Atomic!Spec
===============================================================================
