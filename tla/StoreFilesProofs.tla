--------------------------- MODULE StoreFilesProofs ---------------------------
(***************************************************************************)
(* Theorems about StoreFiles for any number of processes and documents, any*)
(* number of failing calls, kills and power losses.                        *)
(***************************************************************************)
EXTENDS StoreFiles, TLAPS

USE StoreAssumption, NoFileAssumption DEF StoreAssumption, NoFileAssumption

(* A file of ours has its bytes on the disk and derives from no broken      *)
(* document; one of the user's holds no edit of ours.                       *)
FileOK(f) ==
    f # NoFile => /\ f.by \in Procs => f.by \in flushed /\ f.origin \notin Broken
                  /\ f.by \in UserDocs => f.edits = {} /\ f.origin = f.by

(* What every directory that a power loss may leave has to satisfy. *)
GoodDir(d) ==
    /\ FileOK(d.config) /\ \A p \in Procs : FileOK(d.bak[p])
    /\ kept # {} => d.config # NoFile /\ kept \subseteq d.config.edits
    /\ \A b \in broken :
        \/ d.config # NoFile /\ d.config.by = b
        \/ b \in flushed /\ \E p \in Procs : d.bak[p] # NoFile /\ d.bak[p].by = b

Moved == {"create", "fill", "rename", "drop", "commit", "sync quarantine",
          "remove", "put back"}

(* What the operation that holds the lock knows: of the document it is to   *)
(* replace, ...                                                             *)
Replacing(p) ==
    /\ Operation[p] \in {"create", "repair"} => kept = {}
    /\ Operation[p] = "save" => base[p] # NoFile /\ base[p].origin \notin Broken
    /\ pc[p] \in {"fill", "rename"} => dir.tmp[p] = Draft(p)
    /\ pc[p] = "rename" => p \in flushed
    /\ pc[p] = "commit" => dir.config = Draft(p)
    /\ pc[p] \in {"create", "fill", "rename"} /\ Operation[p] = "update"
        => dir.config = base[p]
    /\ pc[p] \in {"create", "fill", "rename"} /\ Operation[p] = "save"
        => SameBytes(dir.config, base[p])
    /\ pc[p] \in {"create", "fill", "rename", "drop", "sync quarantine"}
       /\ Operation[p] \in {"create", "repair"} => dir.config = NoFile
    /\ pc[p] \in Moved => dir.config = NoFile \/ dir.config.by \notin Broken

(* ... and of the broken one that a repair sets aside. *)
Repairing(p) ==
    /\ pc[p] = "put back" => dir.config = NoFile
    /\ pc[p] \in {"link", "sync backup", "unlink", "drop backup", "sync back"}
        => dir.config = base[p]
    /\ pc[p] = "link" => dir.bak[p] = NoFile /\ dir.config.by \in Broken
    /\ pc[p] \in {"sync backup", "unlink", "drop backup"} => dir.bak[p] = base[p]
    /\ pc[p] = "unlink" => base[p].by \in flushed
    /\ pc[p] \in {"link", "sync backup", "unlink", "drop backup", "sync quarantine",
                  "remove", "put back", "sync back"}
        => Operation[p] = "repair" /\ base[p] # NoFile
    /\ pc[p] \in Moved /\ Operation[p] = "repair" /\ base[p] # NoFile
        => dir.bak[p] = base[p]
    /\ pc[p] \in {"drop", "drop backup", "remove", "put back", "sync back"}
        => faults >= 1

LockInv(p) == Replacing(p) /\ Repairing(p)

(* While nothing crashed and one call failed, files are accounted for. *)
Clean(p) ==
    crashes = 0 /\ faults <= 1 =>
        /\ dir.tmp[p] # NoFile => pc[p] \in {"fill", "rename", "drop"}
        /\ dir.bak[p] # NoFile =>
            \/ pc[p] = "ok"
            \/ /\ lock = p /\ Operation[p] = "repair" /\ base[p] # NoFile
               /\ pc[p] \notin {"link", "sync back"}

(* An operation that has not begun has no backup, and a document it loaded  *)
(* does not derive from a broken one.                                       *)
Fresh(p) ==
    /\ pc[p] \in {"start", "loaded"} => \A d \in past : d.bak[p] = NoFile
    /\ pc[p] = "loaded" => base[p] # NoFile /\ base[p].origin \notin Broken

IInv ==
    /\ TypeOK
    /\ \A d \in past : GoodDir(d)
    /\ lock # Nobody => LockInv(lock)
    /\ \A p \in Procs : Clean(p) /\ Fresh(p)

-------------------------------------------------------------------------------
(* The fields of a directory after each kind of change. *)
LEMMA SetTmp ==
  ASSUME NEW d \in Directories, NEW p \in Procs, NEW f \in Entries
  PROVE  LET e == [d EXCEPT !.tmp[p] = f]
         IN  /\ e \in Directories /\ e.config = d.config /\ e.bak = d.bak
             /\ e.tmp[p] = f /\ \A q \in Procs \ {p} : e.tmp[q] = d.tmp[q]
<1> DEFINE t == [d.tmp EXCEPT ![p] = f]
<1>1. t \in [Procs -> Entries] /\ t[p] = f /\ \A q \in Procs \ {p} : t[q] = d.tmp[q]
  BY DEF Directories
<1>2. [d EXCEPT !.tmp[p] = f] = [d EXCEPT !.tmp = t]
  BY DEF Directories
<1> HIDE DEF t
<1> QED
  BY <1>1, <1>2 DEF Directories

LEMMA SetBak ==
  ASSUME NEW d \in Directories, NEW p \in Procs, NEW f \in Entries
  PROVE  LET e == [d EXCEPT !.bak[p] = f]
         IN  /\ e \in Directories /\ e.config = d.config /\ e.tmp = d.tmp
             /\ e.bak[p] = f /\ \A q \in Procs \ {p} : e.bak[q] = d.bak[q]
<1> DEFINE t == [d.bak EXCEPT ![p] = f]
<1>1. t \in [Procs -> Entries] /\ t[p] = f /\ \A q \in Procs \ {p} : t[q] = d.bak[q]
  BY DEF Directories
<1>2. [d EXCEPT !.bak[p] = f] = [d EXCEPT !.bak = t]
  BY DEF Directories
<1> HIDE DEF t
<1> QED
  BY <1>1, <1>2 DEF Directories

LEMMA SetConfig ==
  ASSUME NEW d \in Directories, NEW f \in Entries
  PROVE  LET e == [d EXCEPT !.config = f]
         IN  e \in Directories /\ e.config = f /\ e.tmp = d.tmp /\ e.bak = d.bak
  BY DEF Directories

(* A rename of the temporary, and one of the backup, onto config.toml. *)
LEMMA RenameTmp ==
  ASSUME NEW d \in Directories, NEW p \in Procs
  PROVE  LET e == [d EXCEPT !.config = d.tmp[p], !.tmp[p] = NoFile]
         IN  /\ e \in Directories /\ e.config = d.tmp[p] /\ e.bak = d.bak
             /\ e.tmp[p] = NoFile /\ \A q \in Procs \ {p} : e.tmp[q] = d.tmp[q]
<1> DEFINE c == [d EXCEPT !.config = d.tmp[p]]
           e == [c EXCEPT !.tmp[p] = NoFile]
<1>1. d.tmp[p] \in Entries /\ NoFile \in Entries
  BY DEF Directories, Entries
<1>2. c \in Directories /\ c.config = d.tmp[p] /\ c.tmp = d.tmp /\ c.bak = d.bak
  BY <1>1, SetConfig
<1>3. e = [d EXCEPT !.config = d.tmp[p], !.tmp[p] = NoFile]
  OBVIOUS
<1> HIDE DEF c
<1>4. /\ e \in Directories /\ e.config = c.config /\ e.bak = c.bak
      /\ e.tmp[p] = NoFile /\ \A q \in Procs \ {p} : e.tmp[q] = c.tmp[q]
  BY <1>1, <1>2, SetTmp
<1> HIDE DEF e
<1> QED
  BY <1>2, <1>3, <1>4

LEMMA RenameBak ==
  ASSUME NEW d \in Directories, NEW p \in Procs
  PROVE  LET e == [d EXCEPT !.config = d.bak[p], !.bak[p] = NoFile]
         IN  /\ e \in Directories /\ e.config = d.bak[p] /\ e.tmp = d.tmp
             /\ e.bak[p] = NoFile /\ \A q \in Procs \ {p} : e.bak[q] = d.bak[q]
<1> DEFINE c == [d EXCEPT !.config = d.bak[p]]
           e == [c EXCEPT !.bak[p] = NoFile]
<1>1. d.bak[p] \in Entries /\ NoFile \in Entries
  BY DEF Directories, Entries
<1>2. c \in Directories /\ c.config = d.bak[p] /\ c.tmp = d.tmp /\ c.bak = d.bak
  BY <1>1, SetConfig
<1>3. e = [d EXCEPT !.config = d.bak[p], !.bak[p] = NoFile]
  OBVIOUS
<1> HIDE DEF c
<1>4. /\ e \in Directories /\ e.config = c.config /\ e.tmp = c.tmp
      /\ e.bak[p] = NoFile /\ \A q \in Procs \ {p} : e.bak[q] = c.bak[q]
  BY <1>1, <1>2, SetBak
<1> HIDE DEF e
<1> QED
  BY <1>2, <1>3, <1>4

(* The effect of a change of a backup, and of one of config.toml. *)
LEMMA ChangeBak ==
  ASSUME NEW p \in Procs, NEW f \in Entries, dir \in Directories,
         Change([dir EXCEPT !.bak[p] = f])
  PROVE  /\ dir' \in Directories /\ dir'.config = dir.config /\ dir'.tmp = dir.tmp
         /\ dir'.bak[p] = f /\ \A q \in Procs \ {p} : dir'.bak[q] = dir.bak[q]
<1> DEFINE e == [dir EXCEPT !.bak[p] = f]
<1>1. dir' = e
  BY DEF Change
<1>2. /\ e \in Directories /\ e.config = dir.config /\ e.tmp = dir.tmp
      /\ e.bak[p] = f /\ \A q \in Procs \ {p} : e.bak[q] = dir.bak[q]
  <2> HIDE DEF e
  <2> QED
    BY SetBak DEF e
<1> HIDE DEF e
<1> QED
  BY <1>1, <1>2

LEMMA ChangeConfig ==
  ASSUME NEW f \in Entries, dir \in Directories,
         Change([dir EXCEPT !.config = f])
  PROVE  /\ dir' \in Directories /\ dir'.config = f
         /\ dir'.tmp = dir.tmp /\ dir'.bak = dir.bak
  BY SetConfig DEF Change

(* How a failing call is counted. *)
LEMMA FaultCount ==
  ASSUME faults \in 0..MaxFaults, Fails
  PROVE  /\ faults' \in 0..MaxFaults /\ faults' >= 1 /\ faults' >= faults
         /\ (faults' <= 1 => faults <= 1) /\ (faults >= 1 => ~(faults' <= 1))
  BY DEF Fails

(* What is written is a file of the writer that keeps the edits it read. *)
LEMMA DraftFacts ==
  ASSUME NEW p \in Procs, base[p] \in Entries
  PROVE  /\ Draft(p) \in Files /\ Draft(p).by = p
         /\ Operation[p] \in {"update", "save"} /\ base[p] # NoFile
                => Draft(p).edits = base[p].edits \cup {p}
         /\ Operation[p] = "update" => p \in Draft(p).edits
  BY DEF Draft, Entries, Files

-------------------------------------------------------------------------------
(* A step of the operation that holds the lock: what it must see to. *)
LEMMA LockedStep ==
  ASSUME IInv, NEW p \in Procs, lock = p, NEW at \in Places \ {"start", "loaded"},
         pc' = [pc EXCEPT ![p] = at],
         lock' = Nobody \/ (lock' = p /\ Running(p)'),
         dir' \in Directories, past' \subseteq past \cup {dir'}, dir' \in past',
         \A q \in Procs \ {p} : dir'.tmp[q] = dir.tmp[q] /\ dir'.bak[q] = dir.bak[q],
         flushed \subseteq flushed', flushed' \subseteq Procs \cup UserDocs,
         faults' \in 0..MaxFaults, faults' >= faults,
         UNCHANGED <<base, history>>,
         GoodDir(dir)', lock' = p => LockInv(p)', Clean(p)'
  PROVE  IInv'
<1>1. TypeOK'
  BY DEF IInv, TypeOK, history
<1>2. ASSUME NEW d \in past PROVE GoodDir(d)'
  BY <1>2 DEF IInv, GoodDir, FileOK, history
<1>3. (\A d \in past : GoodDir(d))'
  BY <1>2
<1>4. ASSUME NEW q \in Procs, q # p PROVE Clean(q)'
  <2>1. pc'[q] = pc[q] /\ base'[q] = base[q] /\ lock # q /\ lock' # q
    BY <1>4 DEF IInv, TypeOK, history
  <2>2. Clean(q) /\ crashes' = crashes
        /\ (faults' <= 1 => faults <= 1)
    BY DEF IInv, TypeOK, history
  <2>3. dir'.tmp[q] = dir.tmp[q] /\ dir'.bak[q] = dir.bak[q]
    BY <1>4
  <2> QED
    BY <2>1, <2>2, <2>3 DEF Clean
<1>5. lock' # Nobody => LockInv(lock)'
  OBVIOUS
<1>6. ASSUME NEW q \in Procs PROVE Fresh(q)'
  <2>1. CASE q = p
    BY <2>1 DEF Fresh, IInv, TypeOK
  <2>2. CASE q # p
    <3>1. pc'[q] = pc[q] /\ dir'.bak[q] = dir.bak[q] /\ dir \in past /\ Fresh(q)
      BY <2>2 DEF IInv, TypeOK
    <3> QED
      BY <3>1 DEF Fresh, history
  <2> QED
    BY <2>1, <2>2
<1> QED
  BY <1>1, <1>3, <1>4, <1>5, <1>6 DEF IInv

(* Everything a step of write_unlocked or of a repair may use. *)
LEMMA Holding ==
  ASSUME IInv, NEW p \in Procs, lock = p
  PROVE  /\ LockInv(p) /\ Clean(p) /\ GoodDir(dir)
         /\ dir \in Directories /\ dir \in past /\ past \subseteq Directories
         /\ base[p] \in Entries /\ faults \in 0..MaxFaults
         /\ flushed \subseteq Procs \cup UserDocs /\ pc \in [Procs -> Places]
         /\ broken \subseteq Broken /\ p # Nobody
  BY DEF IInv, TypeOK

Busy == Places \ {"start", "loaded", "ok", "failed", "dead"}

(* A step after which the operation goes on. *)
LEMMA GoStep ==
  ASSUME IInv, NEW p \in Procs, lock = p, NEW at \in Busy, Go(p, at),
         Works \/ Fails,
         dir' \in Directories, past' \subseteq past \cup {dir'}, dir' \in past',
         \A q \in Procs \ {p} : dir'.tmp[q] = dir.tmp[q] /\ dir'.bak[q] = dir.bak[q],
         flushed \subseteq flushed', flushed' \subseteq Procs \cup UserDocs,
         UNCHANGED <<base, history>>,
         GoodDir(dir)', pc'[p] = at /\ lock' = p => LockInv(p)' /\ Clean(p)'
  PROVE  IInv'
<1>1. pc' = [pc EXCEPT ![p] = at] /\ pc'[p] = at /\ lock' = p
  BY Holding DEF Go
<1>2. Running(p)' /\ at \in Places \ {"start", "loaded"}
  BY <1>1 DEF Running, Busy
<1>3. faults' \in 0..MaxFaults /\ faults' >= faults
  BY Holding DEF Works, Fails
<1>4. LockInv(p)' /\ Clean(p)'
  BY <1>1
<1> QED
  BY <1>1, <1>2, <1>3, <1>4, LockedStep

(* A step after which the operation has failed. *)
LEMMA EndStep ==
  ASSUME IInv, NEW p \in Procs, lock = p, End(p, "failed"),
         Works \/ Fails,
         dir' \in Directories, past' \subseteq past \cup {dir'}, dir' \in past',
         \A q \in Procs \ {p} : dir'.tmp[q] = dir.tmp[q] /\ dir'.bak[q] = dir.bak[q],
         flushed' = flushed, UNCHANGED <<base, history>>, GoodDir(dir)',
         crashes = 0 /\ faults' <= 1 => dir'.tmp[p] = NoFile /\ dir'.bak[p] = NoFile
  PROVE  IInv'
<1>1. pc' = [pc EXCEPT ![p] = "failed"] /\ lock' = Nobody /\ lock' # p
  BY Holding DEF End
<1>2. faults' \in 0..MaxFaults /\ faults' >= faults
  BY Holding DEF Works, Fails
<1>3. Clean(p)'
  BY DEF Clean, history
<1>4. "failed" \in Places \ {"start", "loaded"} /\ flushed \subseteq flushed'
      /\ flushed' \subseteq Procs \cup UserDocs
  BY Holding DEF Places
<1>5. lock' = p => LockInv(p)'
  BY <1>1
<1>6. lock' = Nobody \/ (lock' = p /\ Running(p)')
  BY <1>1
<1> QED
  BY <1>1, <1>2, <1>3, <1>4, <1>5, <1>6, LockedStep

(* The end of a write that failed. *)
LEMMA WriteFailedFacts ==
  ASSUME NEW p \in Procs, lock = p, WriteFailed(p), pc \in [Procs -> Places]
  PROVE  \/ /\ Operation[p] = "repair" /\ base[p] # NoFile
            /\ pc' = [pc EXCEPT ![p] = "remove"] /\ pc'[p] = "remove"
            /\ lock' = p /\ Running(p)'
         \/ /\ ~(Operation[p] = "repair" /\ base[p] # NoFile)
            /\ pc' = [pc EXCEPT ![p] = "failed"] /\ pc'[p] = "failed"
            /\ lock' = Nobody
  BY DEF WriteFailed, Go, End, Running

(* A write that failed goes back to its caller, a repair to its rollback. *)
LEMMA FailedWrite ==
  ASSUME IInv, NEW p \in Procs, lock = p, pc[p] \in {"create", "drop", "commit"},
         WriteFailed(p), faults' \in 0..MaxFaults, faults' >= faults, faults' >= 1,
         dir' \in Directories, past' \subseteq past \cup {dir'}, dir' \in past',
         dir'.config = dir.config, dir'.bak = dir.bak,
         \A q \in Procs \ {p} : dir'.tmp[q] = dir.tmp[q],
         crashes = 0 /\ faults' <= 1 => dir'.tmp[p] = NoFile,
         UNCHANGED <<flushed, base, history>>
  PROVE  IInv'
<1>1. GoodDir(dir)'
  BY Holding DEF GoodDir, FileOK, history
<1>2. crashes' = crashes /\ base' = base /\ kept' = kept /\ flushed' = flushed
  BY DEF history
<1>3. LockInv(p) /\ Clean(p) /\ faults \in Nat /\ faults' \in Nat
  BY Holding
<1>4. CASE /\ Operation[p] = "repair" /\ base[p] # NoFile
           /\ pc' = [pc EXCEPT ![p] = "remove"] /\ pc'[p] = "remove"
           /\ lock' = p /\ Running(p)'
  <2>1. LockInv(p)'
    BY <1>2, <1>3, <1>4 DEF LockInv, Replacing, Repairing, Moved
  <2>2. Clean(p)'
    BY <1>2, <1>3, <1>4 DEF Clean
  <2> QED
    BY <1>1, <1>4, <2>1, <2>2, Holding, LockedStep DEF Places
<1>5. CASE /\ ~(Operation[p] = "repair" /\ base[p] # NoFile)
           /\ pc' = [pc EXCEPT ![p] = "failed"] /\ pc'[p] = "failed"
           /\ lock' = Nobody
  <2>1. faults' <= 1 => faults <= 1
    BY <1>3
  <2>2. Clean(p)'
    BY <1>2, <1>3, <1>5, <2>1 DEF Clean
  <2>3. "failed" \in Places \ {"start", "loaded"} /\ lock' # p /\ flushed \subseteq flushed'
        /\ flushed' \subseteq Procs \cup UserDocs
    BY <1>2, <1>5, Holding DEF Places
  <2>4. lock' = p => LockInv(p)'
    BY <2>3
  <2>5. lock' = Nobody \/ (lock' = p /\ Running(p)')
    BY <1>5
  <2> QED
    BY <1>1, <1>5, <2>2, <2>3, <2>4, <2>5, LockedStep
<1> QED
  BY <1>4, <1>5, Holding, WriteFailedFacts

-------------------------------------------------------------------------------
(* write_unlocked *)

(* The temporary is created, or the write has failed. *)
LEMMA CreateInv ==
  ASSUME IInv, NEW p \in Procs, CreateTemporary(p)
  PROVE  IInv'
<1>1. lock = p /\ pc[p] = "create" /\ UNCHANGED <<flushed, base, history>>
  BY DEF CreateTemporary, At
<1>2. CASE Works /\ Change([dir EXCEPT !.tmp[p] = Draft(p)]) /\ Go(p, "fill")
  <2>1. Draft(p) \in Entries
    BY <1>1, Holding, DraftFacts DEF Entries
  <2>2. /\ dir' \in Directories /\ dir'.config = dir.config /\ dir'.bak = dir.bak
        /\ dir'.tmp[p] = Draft(p) /\ \A q \in Procs \ {p} : dir'.tmp[q] = dir.tmp[q]
    BY <1>1, <1>2, <2>1, Holding, SetTmp DEF Change
  <2>3. faults' = faults /\ past' = past \cup {dir'}
    BY <1>2 DEF Works, Change
  <2>4. GoodDir(dir)'
    BY <1>1, <2>2, Holding DEF GoodDir, FileOK, history
  <2>5. ASSUME pc'[p] = "fill", lock' = p PROVE LockInv(p)' /\ Clean(p)'
    BY <1>1, <2>2, <2>3, <2>5, Holding DEF LockInv, Replacing, Repairing, Clean, Moved, Draft, history
  <2> QED
    BY <1>1, <1>2, <2>2, <2>3, <2>4, <2>5, Holding, GoStep DEF Busy, Places
<1>3. CASE Fails /\ WriteFailed(p) /\ UNCHANGED files
  <2>1. dir' = dir /\ past' = past /\ faults' >= 1 /\ faults' >= faults
        /\ faults' \in 0..MaxFaults /\ (faults' <= 1 => faults <= 1)
    BY <1>1, <1>3, Holding DEF Fails, files
  <2>2. crashes = 0 /\ faults' <= 1 => dir'.tmp[p] = NoFile
    BY <1>1, <2>1, Holding DEF Clean, LockInv, Replacing, Repairing
  <2> QED
    BY <1>1, <1>3, <2>1, <2>2, Holding, FailedWrite
<1> QED
  BY <1>2, <1>3 DEF CreateTemporary

(* The temporary is filled and synced, or is to be dropped. *)
LEMMA FillInv ==
  ASSUME IInv, NEW p \in Procs, FillTemporary(p)
  PROVE  IInv'
<1>1. lock = p /\ pc[p] = "fill" /\ UNCHANGED <<files, base, history>>
  BY DEF FillTemporary, At
<1>2. dir' = dir /\ past' = past
  BY <1>1 DEF files
<1>3. CASE Works /\ flushed' = flushed \cup {p} /\ Go(p, "rename")
  <2>1. GoodDir(dir)'
    BY <1>1, <1>2, <1>3, Holding DEF GoodDir, FileOK, history
  <2>2. ASSUME pc'[p] = "rename", lock' = p PROVE LockInv(p)' /\ Clean(p)'
    BY <1>1, <1>2, <1>3, <2>2, Holding DEF LockInv, Replacing, Repairing, Clean, Moved, Draft, Works, history
  <2> QED
    BY <1>1, <1>2, <1>3, <2>1, <2>2, Holding, GoStep DEF Busy, Places
<1>4. CASE Fails /\ UNCHANGED flushed /\ Go(p, "drop")
  <2>1. GoodDir(dir)'
    BY <1>1, <1>2, <1>4, Holding DEF GoodDir, FileOK, history
  <2>2. faults' >= 1 /\ (faults' <= 1 => faults <= 1)
    BY <1>4, <1>1, Holding DEF Fails
  <2>3. ASSUME pc'[p] = "drop", lock' = p PROVE LockInv(p)' /\ Clean(p)'
    BY <1>1, <1>2, <1>4, <2>2, <2>3, Holding DEF LockInv, Replacing, Repairing, Clean, Moved, Draft, history
  <2> QED
    BY <1>1, <1>2, <1>4, <2>1, <2>3, Holding, GoStep DEF Busy, Places
<1> QED
  BY <1>3, <1>4 DEF FillTemporary

(* The temporary takes the place of what was read, or of nothing: it holds  *)
(* the edits that must be kept, and no broken document is overwritten.      *)
LEMMA ReplaceInv ==
  ASSUME IInv, NEW p \in Procs, ReplaceConfig(p)
  PROVE  IInv'
<1>1. lock = p /\ pc[p] = "rename" /\ UNCHANGED <<flushed, base, history>>
  BY DEF ReplaceConfig, At
<1>2. CASE /\ Works /\ Go(p, "commit")
           /\ Change([dir EXCEPT !.config = dir.tmp[p], !.tmp[p] = NoFile])
  <2>1. /\ dir' \in Directories /\ dir'.config = Draft(p) /\ dir'.bak = dir.bak
        /\ dir'.tmp[p] = NoFile /\ \A q \in Procs \ {p} : dir'.tmp[q] = dir.tmp[q]
    <3>1. dir.tmp[p] = Draft(p)
      BY <1>1, Holding DEF LockInv, Replacing, Repairing
    <3>2. dir' = [dir EXCEPT !.config = dir.tmp[p], !.tmp[p] = NoFile]
      BY <1>2 DEF Change
    <3> DEFINE e == [dir EXCEPT !.config = dir.tmp[p], !.tmp[p] = NoFile]
    <3>3. /\ e \in Directories /\ e.config = dir.tmp[p] /\ e.bak = dir.bak
          /\ e.tmp[p] = NoFile /\ \A q \in Procs \ {p} : e.tmp[q] = dir.tmp[q]
      <4>1. dir \in Directories
        BY <1>1, Holding
      <4> HIDE DEF e
      <4> QED
        BY <4>1, RenameTmp DEF e
    <3> HIDE DEF e
    <3>4. dir' = e
      BY <3>2 DEF e
    <3> QED
      BY <3>1, <3>3, <3>4
  <2>2. faults' = faults /\ past' = past \cup {dir'}
    BY <1>2 DEF Works, Change
  <2>3. Draft(p) \in Files /\ Draft(p).by = p /\ Draft(p)' = Draft(p)
    BY <1>1, Holding, DraftFacts DEF Draft
  <2>4. kept # {} => kept \subseteq Draft(p).edits
    <3>1. CASE Operation[p] \in {"create", "repair"}
      BY <1>1, <3>1, Holding DEF LockInv, Replacing, Repairing
    <3>2. CASE Operation[p] \in {"update", "save"}
      <4>1. dir.config = base[p] \/ SameBytes(dir.config, base[p])
        BY <1>1, <3>2, Holding DEF LockInv, Replacing, Repairing
      <4>2. kept # {} => base[p] # NoFile /\ kept \subseteq base[p].edits
        BY <1>1, <4>1, Holding DEF GoodDir, SameBytes
      <4> QED
        BY <1>1, <3>2, <4>2, Holding, DraftFacts
    <3> QED
      BY <3>1, <3>2
  <2>5. GoodDir(dir)'
    <3>1. Draft(p) # NoFile /\ p \in flushed /\ p \notin UserDocs
      BY <1>1, <2>3, Holding DEF LockInv, Replacing, Repairing
    <3>2. Draft(p).origin \notin Broken
      <4>1. CASE Operation[p] \in {"update", "save"} /\ base[p] # NoFile
        <5>1. Operation[p] = "update" => base[p].origin \notin Broken
          <6>1. Operation[p] = "update" =>
                  dir.config = base[p] /\ dir.config.by \notin Broken /\ base[p] \in Files
            BY <1>1, <4>1, Holding DEF LockInv, Replacing, Repairing, Moved, Entries
          <6> QED
            BY <1>1, <4>1, <6>1, Holding DEF GoodDir, FileOK, Files
        <5>3. Operation[p] = "save" => base[p].origin \notin Broken
          BY <1>1, Holding DEF LockInv, Replacing, Repairing
        <5>2. base[p].origin \notin Broken
          BY <4>1, <5>1, <5>3
        <5> QED
          BY <4>1, <5>2 DEF Draft
      <4>2. CASE ~(Operation[p] \in {"update", "save"} /\ base[p] # NoFile)
        BY <4>2 DEF Draft
      <4> QED
        BY <4>1, <4>2
    <3>6. FileOK(dir.config)' /\ \A q \in Procs : FileOK(dir.bak[q])'
      BY <1>1, <2>1, <2>3, <3>1, <3>2, Holding DEF GoodDir, FileOK
    <3>3. (kept # {} => dir.config # NoFile /\ kept \subseteq dir.config.edits)'
      BY <1>1, <2>1, <2>4, <3>1 DEF history
    <3>4. dir.config = NoFile \/ dir.config.by \notin Broken
      BY <1>1, Holding DEF LockInv, Replacing, Repairing, Moved
    <3>5. (\A b \in broken :
            \/ dir.config # NoFile /\ dir.config.by = b
            \/ b \in flushed /\ \E q \in Procs : dir.bak[q] # NoFile /\ dir.bak[q].by = b)'
      BY <1>1, <2>1, <3>4, Holding DEF GoodDir, history
    <3> QED
      BY <3>3, <3>5, <3>6 DEF GoodDir
  <2>6. ASSUME pc'[p] = "commit", lock' = p PROVE LockInv(p)' /\ Clean(p)'
    BY <1>1, <2>1, <2>2, <2>3, <2>6, Holding DEF LockInv, Replacing, Repairing, Clean, Moved, history
  <2> QED
    BY <1>1, <1>2, <2>1, <2>2, <2>5, <2>6, Holding, GoStep DEF Busy, Places
<1>3. CASE Fails /\ Go(p, "drop") /\ UNCHANGED files
  <2>1. dir' = dir /\ past' = past /\ faults' >= 1 /\ (faults' <= 1 => faults <= 1)
    BY <1>1, <1>3, Holding DEF Fails, files
  <2>2. GoodDir(dir)'
    BY <1>1, <2>1, Holding DEF GoodDir, FileOK, history
  <2>3. ASSUME pc'[p] = "drop", lock' = p PROVE LockInv(p)' /\ Clean(p)'
    BY <1>1, <2>1, <2>3, Holding DEF LockInv, Replacing, Repairing, Clean, Moved, Draft, history
  <2> QED
    BY <1>1, <1>3, <2>1, <2>2, <2>3, Holding, GoStep DEF Busy, Places
<1> QED
  BY <1>2, <1>3 DEF ReplaceConfig

(* The temporary is dropped after a failure. *)
LEMMA DropInv ==
  ASSUME IInv, NEW p \in Procs, DropTemporary(p)
  PROVE  IInv'
<1>1. lock = p /\ pc[p] = "drop" /\ UNCHANGED <<flushed, base, history>>
      /\ WriteFailed(p) /\ faults >= 1
  BY Holding DEF DropTemporary, At, LockInv, Replacing, Repairing
<1>2. CASE Works /\ Change([dir EXCEPT !.tmp[p] = NoFile])
  <2>1. /\ dir' \in Directories /\ dir'.config = dir.config /\ dir'.bak = dir.bak
        /\ dir'.tmp[p] = NoFile /\ \A q \in Procs \ {p} : dir'.tmp[q] = dir.tmp[q]
    BY <1>1, <1>2, Holding, SetTmp DEF Change, Entries
  <2>2. faults' = faults /\ past' = past \cup {dir'}
    BY <1>2 DEF Works, Change
  <2> QED
    BY <1>1, <2>1, <2>2, Holding, FailedWrite
<1>3. CASE Fails /\ UNCHANGED files
  <2>1. dir' = dir /\ past' = past /\ faults' \in 0..MaxFaults /\ faults' > 1
        /\ faults' >= faults /\ ~(faults' <= 1)
    BY <1>1, <1>3, Holding DEF Fails, files
  <2> QED
    BY <1>1, <2>1, Holding, FailedWrite
<1> QED
  BY <1>2, <1>3 DEF DropTemporary

(* The directory is synced: what was acknowledged is there for good. *)
LEMMA CommitInv ==
  ASSUME IInv, NEW p \in Procs, Commit(p)
  PROVE  IInv'
<1>1. lock = p /\ pc[p] = "commit" /\ UNCHANGED <<flushed, base, broken, used, crashes>>
      /\ dir.config = Draft(p) /\ Draft(p) \in Files
  BY Holding, DraftFacts DEF Commit, At, LockInv, Replacing, Repairing
<1>2. CASE /\ Works /\ SyncDirectory /\ End(p, "ok")
           /\ kept' = IF Operation[p] \in {"update", "save"} THEN kept \cup {p} ELSE kept
  <2>1. dir' = dir /\ past' = {dir} /\ faults' = faults /\ lock' = Nobody
        /\ pc' = [pc EXCEPT ![p] = "ok"] /\ pc'[p] = "ok"
    BY <1>1, <1>2, Holding DEF SyncDirectory, Works, End
  <2>2. TypeOK'
    BY <1>1, <1>2, <2>1, Holding DEF IInv, TypeOK, Places
  <2>3. kept' \subseteq dir.config.edits /\ dir.config # NoFile
    <3>1. kept \subseteq Draft(p).edits
      BY <1>1, Holding DEF GoodDir
    <3>2. Operation[p] \in {"update", "save"} => p \in Draft(p).edits
      BY <1>1, Holding, DraftFacts DEF LockInv, Replacing, Repairing
    <3> QED
      BY <1>1, <1>2, <3>1, <3>2
  <2>4. GoodDir(dir)'
    BY <1>1, <2>1, <2>3, Holding DEF GoodDir, FileOK
  <2>5. ASSUME NEW q \in Procs PROVE Clean(q)' /\ Fresh(q)'
    <3>1. CASE q = p
      BY <1>1, <2>1, <3>1, Holding DEF Clean, Fresh
    <3>2. CASE q # p
      <4>1. Clean(q) /\ Fresh(q) /\ dir \in past
        BY DEF IInv, TypeOK
      <4> QED
        BY <1>1, <2>1, <3>2, <4>1, Holding DEF Clean, Fresh
    <3> QED
      BY <3>1, <3>2
  <2> QED
    BY <2>1, <2>2, <2>4, <2>5 DEF IInv
<1>3. CASE Fails /\ WriteFailed(p) /\ UNCHANGED <<files, kept>>
  <2>1. dir' = dir /\ past' = past /\ faults' >= 1 /\ faults' >= faults
        /\ faults' \in 0..MaxFaults /\ (faults' <= 1 => faults <= 1)
    BY <1>1, <1>3, Holding DEF Fails, files
  <2>2. crashes = 0 /\ faults' <= 1 => dir'.tmp[p] = NoFile
    BY <1>1, <2>1, Holding DEF Clean, LockInv, Replacing, Repairing
  <2> QED
    BY <1>1, <1>3, <2>1, <2>2, Holding, FailedWrite DEF history
<1> QED
  BY <1>2, <1>3 DEF Commit

-------------------------------------------------------------------------------
(* quarantine_invalid_config *)

(* The first name of the backup: nothing is overwritten by it. *)
LEMMA LinkInv ==
  ASSUME IInv, NEW p \in Procs, LinkBackup(p)
  PROVE  IInv'
<1>1. lock = p /\ pc[p] = "link" /\ UNCHANGED <<flushed, base, history>>
      /\ dir.config = base[p] /\ base[p] # NoFile /\ Operation[p] = "repair"
  BY Holding DEF LinkBackup, At, LockInv, Replacing, Repairing
<1>2. CASE Works /\ Change([dir EXCEPT !.bak[p] = dir.config]) /\ Go(p, "sync backup")
  <2>1. /\ dir' \in Directories /\ dir'.config = dir.config /\ dir'.tmp = dir.tmp
        /\ dir'.bak[p] = dir.config /\ \A q \in Procs \ {p} : dir'.bak[q] = dir.bak[q]
    <3>1. dir \in Directories /\ dir.config \in Entries
      BY <1>1, Holding DEF Directories
    <3> QED
      BY <1>2, <3>1, ChangeBak
  <2>2. faults' = faults /\ past' = past \cup {dir'}
    BY <1>2 DEF Works, Change
  <2>3. GoodDir(dir)'
    <3>1. FileOK(dir.config)' /\ \A q \in Procs : FileOK(dir.bak[q])'
      BY <1>1, <2>1, Holding DEF GoodDir, FileOK
    <3>2. kept' = kept /\ broken' = broken /\ flushed' = flushed /\ GoodDir(dir)
      BY <1>1, Holding DEF history
    <3>3. ASSUME NEW b \in broken
          PROVE  \/ dir'.config # NoFile /\ dir'.config.by = b
                 \/ /\ b \in flushed
                    /\ \E q \in Procs : dir'.bak[q] # NoFile /\ dir'.bak[q].by = b
      <4>1. CASE dir.config.by = b
        BY <1>1, <2>1, <4>1
      <4>2. CASE dir.config.by # b
        <5>1. PICK q \in Procs : dir.bak[q] # NoFile /\ dir.bak[q].by = b
          BY <3>2, <4>2 DEF GoodDir
        <5>2. b \in flushed
          BY <3>2, <4>2 DEF GoodDir
        <5>3. CASE q = p
          BY <1>1, <5>1, <5>3, Holding DEF LockInv, Replacing, Repairing
        <5>4. CASE q # p
          BY <2>1, <5>1, <5>2, <5>4
        <5> QED
          BY <5>3, <5>4
      <4> QED
        BY <4>1, <4>2
    <3> QED
      BY <2>1, <3>1, <3>2, <3>3 DEF GoodDir
  <2>4. ASSUME pc'[p] = "sync backup", lock' = p PROVE LockInv(p)' /\ Clean(p)'
    BY <1>1, <2>1, <2>2, <2>4, Holding DEF LockInv, Replacing, Repairing, Clean, Moved, history
  <2> QED
    BY <1>1, <1>2, <2>1, <2>2, <2>3, <2>4, Holding, GoStep DEF Busy, Places
<1>3. CASE Fails /\ End(p, "failed") /\ UNCHANGED files
  <2>1. dir' = dir /\ past' = past /\ (faults' <= 1 => faults <= 1)
    BY <1>1, <1>3, Holding DEF Fails, files
  <2>2. GoodDir(dir)'
    BY <1>1, <2>1, Holding DEF GoodDir, FileOK, history
  <2> QED
    BY <1>1, <1>3, <2>1, <2>2, Holding, EndStep DEF Clean
<1> QED
  BY <1>2, <1>3 DEF LinkBackup

(* A broken document has its bytes on the disk before config.toml lets go.  *)
LEMMA SyncBackupInv ==
  ASSUME IInv, NEW p \in Procs, SyncBackup(p)
  PROVE  IInv'
<1>1. lock = p /\ pc[p] = "sync backup" /\ UNCHANGED <<files, base, history>>
  BY DEF SyncBackup, At
<1>2. dir' = dir /\ past' = past
  BY <1>1 DEF files
<1>3. CASE Works /\ flushed' = flushed \cup {dir.bak[p].by} /\ Go(p, "unlink")
  <2>1. dir.bak[p] = base[p] /\ base[p] \in Files
    BY <1>1, Holding DEF LockInv, Replacing, Repairing, Entries
  <2>2. dir.bak[p].by \in Procs \cup UserDocs
    BY <2>1 DEF Files
  <2>3. GoodDir(dir)'
    BY <1>1, <1>2, <1>3, Holding DEF GoodDir, FileOK, history
  <2>4. ASSUME pc'[p] = "unlink", lock' = p PROVE LockInv(p)' /\ Clean(p)'
    BY <1>1, <1>2, <1>3, <2>1, <2>4, Holding DEF LockInv, Replacing, Repairing, Clean, Moved, Works, history
  <2> QED
    BY <1>1, <1>2, <1>3, <2>2, <2>3, <2>4, Holding, GoStep DEF Busy, Places
<1>4. CASE Fails /\ UNCHANGED flushed /\ Go(p, "drop backup")
  <2>1. GoodDir(dir)'
    BY <1>1, <1>2, <1>4, Holding DEF GoodDir, FileOK, history
  <2>2. faults' >= 1 /\ (faults' <= 1 => faults <= 1)
    BY <1>1, <1>4, Holding, FaultCount
  <2>3. ASSUME pc'[p] = "drop backup", lock' = p PROVE LockInv(p)' /\ Clean(p)'
    BY <1>1, <1>2, <1>4, <2>2, <2>3, Holding DEF LockInv, Replacing, Repairing, Clean, Moved, history
  <2> QED
    BY <1>1, <1>2, <1>4, <2>1, <2>3, Holding, GoStep DEF Busy, Places
<1> QED
  BY <1>3, <1>4 DEF SyncBackup

(* config.toml lets go of the broken document; the backup has it. *)
LEMMA UnlinkInv ==
  ASSUME IInv, NEW p \in Procs, UnlinkConfig(p)
  PROVE  IInv'
<1>1. lock = p /\ pc[p] = "unlink" /\ UNCHANGED <<flushed, base, history>>
      /\ dir.config = base[p] /\ dir.bak[p] = base[p] /\ base[p] # NoFile
      /\ base[p].by \in flushed /\ Operation[p] = "repair" /\ kept = {}
  BY Holding DEF UnlinkConfig, At, LockInv, Replacing, Repairing
<1>2. CASE Works /\ Change([dir EXCEPT !.config = NoFile]) /\ Go(p, "sync quarantine")
  <2>1. /\ dir' \in Directories /\ dir'.config = NoFile
        /\ dir'.tmp = dir.tmp /\ dir'.bak = dir.bak
    <3>1. dir \in Directories /\ NoFile \in Entries
      BY <1>1, Holding DEF Entries
    <3> QED
      BY <1>2, <3>1, ChangeConfig
  <2>2. faults' = faults /\ past' = past \cup {dir'}
    BY <1>2 DEF Works, Change
  <2>3. GoodDir(dir)'
    BY <1>1, <2>1, Holding DEF GoodDir, FileOK, history
  <2>4. ASSUME pc'[p] = "sync quarantine", lock' = p PROVE LockInv(p)' /\ Clean(p)'
    BY <1>1, <2>1, <2>2, <2>4, Holding DEF LockInv, Replacing, Repairing, Clean, Moved, history
  <2> QED
    BY <1>1, <1>2, <2>1, <2>2, <2>3, <2>4, Holding, GoStep DEF Busy, Places
<1>3. CASE Fails /\ Go(p, "drop backup") /\ UNCHANGED files
  <2>1. dir' = dir /\ past' = past /\ faults' >= 1 /\ (faults' <= 1 => faults <= 1)
    BY <1>1, <1>3, Holding, FaultCount DEF files
  <2>2. GoodDir(dir)'
    BY <1>1, <2>1, Holding DEF GoodDir, FileOK, history
  <2>3. ASSUME pc'[p] = "drop backup", lock' = p PROVE LockInv(p)' /\ Clean(p)'
    BY <1>1, <2>1, <2>3, Holding DEF LockInv, Replacing, Repairing, Clean, Moved, history
  <2> QED
    BY <1>1, <1>3, <2>1, <2>2, <2>3, Holding, GoStep DEF Busy, Places
<1> QED
  BY <1>2, <1>3 DEF UnlinkConfig

(* A backup is dropped only while config.toml still names its document. *)
LEMMA DropBackupInv ==
  ASSUME IInv, NEW p \in Procs, DropBackup(p)
  PROVE  IInv'
<1>1. lock = p /\ pc[p] = "drop backup" /\ UNCHANGED <<flushed, base, history>>
      /\ dir.config = base[p] /\ dir.bak[p] = base[p] /\ base[p] # NoFile
      /\ End(p, "failed") /\ faults >= 1
  BY Holding DEF DropBackup, At, LockInv, Replacing, Repairing
<1>2. CASE Works /\ Change([dir EXCEPT !.bak[p] = NoFile])
  <2>1. /\ dir' \in Directories /\ dir'.config = dir.config /\ dir'.tmp = dir.tmp
        /\ dir'.bak[p] = NoFile /\ \A q \in Procs \ {p} : dir'.bak[q] = dir.bak[q]
    <3>1. dir \in Directories /\ NoFile \in Entries
      BY <1>1, Holding DEF Entries
    <3> QED
      BY <1>2, <3>1, ChangeBak
  <2>2. faults' = faults /\ past' = past \cup {dir'}
    BY <1>2 DEF Works, Change
  <2>3. GoodDir(dir)'
    <3>1. /\ kept' = kept /\ broken' = broken /\ flushed' = flushed
          /\ GoodDir(dir) /\ NoFile \notin Files
      BY <1>1, Holding DEF history
    <3>2. \A q \in Procs : FileOK(dir.bak[q])'
      BY <2>1, <3>1 DEF GoodDir, FileOK
    <3>3. FileOK(dir.config)' /\ (kept # {} => dir.config # NoFile /\ kept \subseteq dir.config.edits)'
      BY <2>1, <3>1 DEF GoodDir, FileOK
    <3>4. ASSUME NEW b \in broken
          PROVE  \/ dir'.config # NoFile /\ dir'.config.by = b
                 \/ /\ b \in flushed
                    /\ \E q \in Procs : dir'.bak[q] # NoFile /\ dir'.bak[q].by = b
      <4>1. CASE dir.config.by = b
        BY <1>1, <2>1, <4>1
      <4>2. CASE dir.config.by # b
        <5>1. b \in flushed /\ \E q \in Procs : dir.bak[q] # NoFile /\ dir.bak[q].by = b
          BY <3>1, <4>2 DEF GoodDir
        <5>2. PICK q \in Procs : dir.bak[q] # NoFile /\ dir.bak[q].by = b
          BY <5>1
        <5>3. q # p
          BY <1>1, <4>2, <5>2
        <5> QED
          BY <2>1, <5>1, <5>2, <5>3
      <4> QED
        BY <4>1, <4>2
    <3> QED
      BY <3>1, <3>2, <3>3, <3>4 DEF GoodDir
  <2>4. crashes = 0 /\ faults' <= 1 => dir'.tmp[p] = NoFile
    BY <1>1, <2>1, <2>2, Holding DEF Clean
  <2> QED
    BY <1>1, <1>2, <2>1, <2>2, <2>3, <2>4, Holding, EndStep
<1>3. CASE Fails /\ UNCHANGED files
  <2>1. dir' = dir /\ past' = past /\ ~(faults' <= 1)
    BY <1>1, <1>3, Holding, FaultCount DEF files
  <2>2. GoodDir(dir)'
    BY <1>1, <2>1, Holding DEF GoodDir, FileOK, history
  <2> QED
    BY <1>1, <1>3, <2>1, <2>2, Holding, EndStep
<1> QED
  BY <1>2, <1>3 DEF DropBackup

(* A directory sync by an operation that goes on or has failed. *)
LEMMA SyncQuarantineInv ==
  ASSUME IInv, NEW p \in Procs, SyncQuarantine(p)
  PROVE  IInv'
<1>1. lock = p /\ pc[p] = "sync quarantine" /\ UNCHANGED <<flushed, base, history>>
      /\ Operation[p] = "repair" /\ base[p] # NoFile
  BY Holding DEF SyncQuarantine, At, LockInv, Replacing, Repairing
<1>2. dir' = dir /\ past' \subseteq past \cup {dir'} /\ dir' \in past'
  BY <1>1, Holding DEF SyncQuarantine, SyncDirectory, files
<1>3. GoodDir(dir)'
  BY <1>1, <1>2, Holding DEF GoodDir, FileOK, history
<1>4. CASE Works /\ SyncDirectory /\ Go(p, "create")
  <2>1. ASSUME pc'[p] = "create", lock' = p PROVE LockInv(p)' /\ Clean(p)'
    BY <1>1, <1>2, <1>4, <2>1, Holding DEF LockInv, Replacing, Repairing, Clean, Moved, Works, history
  <2> QED
    BY <1>1, <1>2, <1>3, <1>4, <2>1, Holding, GoStep DEF Busy, Places
<1>5. CASE Fails /\ Go(p, "remove") /\ UNCHANGED files
  <2>1. faults' >= 1 /\ (faults' <= 1 => faults <= 1)
    BY <1>1, <1>5, Holding, FaultCount
  <2>2. ASSUME pc'[p] = "remove", lock' = p PROVE LockInv(p)' /\ Clean(p)'
    BY <1>1, <1>2, <1>5, <2>1, <2>2, Holding DEF LockInv, Replacing, Repairing, Clean, Moved, history
  <2> QED
    BY <1>1, <1>2, <1>3, <1>5, <2>2, Holding, GoStep DEF Busy, Places
<1> QED
  BY <1>4, <1>5 DEF SyncQuarantine

-------------------------------------------------------------------------------
(* restore_after_failed_repair *)

(* Only a replacement that is not broken is removed. *)
LEMMA RemoveInv ==
  ASSUME IInv, NEW p \in Procs, RemoveReplacement(p)
  PROVE  IInv'
<1>1. lock = p /\ pc[p] = "remove" /\ UNCHANGED <<flushed, base, history>>
      /\ Operation[p] = "repair" /\ kept = {} /\ base[p] # NoFile /\ faults >= 1
      /\ (dir.config = NoFile \/ dir.config.by \notin Broken)
  BY Holding DEF RemoveReplacement, At, LockInv, Replacing, Repairing, Moved
<1>2. CASE Works /\ Change([dir EXCEPT !.config = NoFile]) /\ Go(p, "put back")
  <2>1. /\ dir' \in Directories /\ dir'.config = NoFile
        /\ dir'.tmp = dir.tmp /\ dir'.bak = dir.bak
    <3>1. dir \in Directories /\ NoFile \in Entries
      BY <1>1, Holding DEF Entries
    <3> QED
      BY <1>2, <3>1, ChangeConfig
  <2>2. faults' = faults /\ past' = past \cup {dir'}
    BY <1>2 DEF Works, Change
  <2>3. GoodDir(dir)'
    BY <1>1, <2>1, Holding DEF GoodDir, FileOK, history
  <2>4. ASSUME pc'[p] = "put back", lock' = p PROVE LockInv(p)' /\ Clean(p)'
    BY <1>1, <2>1, <2>2, <2>4, Holding DEF LockInv, Replacing, Repairing, Clean, Moved, history
  <2> QED
    BY <1>1, <1>2, <2>1, <2>2, <2>3, <2>4, Holding, GoStep DEF Busy, Places
<1>3. CASE Fails /\ End(p, "failed") /\ UNCHANGED files
  <2>1. dir' = dir /\ past' = past /\ ~(faults' <= 1)
    BY <1>1, <1>3, Holding, FaultCount DEF files
  <2>2. GoodDir(dir)'
    BY <1>1, <2>1, Holding DEF GoodDir, FileOK, history
  <2> QED
    BY <1>1, <1>3, <2>1, <2>2, Holding, EndStep
<1> QED
  BY <1>2, <1>3 DEF RemoveReplacement

(* The backup becomes config.toml again. *)
LEMMA PutBackInv ==
  ASSUME IInv, NEW p \in Procs, PutBack(p)
  PROVE  IInv'
<1>1. lock = p /\ pc[p] = "put back" /\ UNCHANGED <<flushed, base, history>>
      /\ Operation[p] = "repair" /\ kept = {} /\ base[p] # NoFile /\ faults >= 1
      /\ dir.config = NoFile /\ dir.bak[p] = base[p]
  BY Holding DEF PutBack, At, LockInv, Replacing, Repairing, Moved
<1>2. CASE /\ Works /\ Go(p, "sync back")
           /\ Change([dir EXCEPT !.config = dir.bak[p], !.bak[p] = NoFile])
  <2>1. /\ dir' \in Directories /\ dir'.config = base[p] /\ dir'.tmp = dir.tmp
        /\ dir'.bak[p] = NoFile /\ \A q \in Procs \ {p} : dir'.bak[q] = dir.bak[q]
    <3> DEFINE e == [dir EXCEPT !.config = dir.bak[p], !.bak[p] = NoFile]
    <3>1. dir \in Directories
      BY <1>1, Holding
    <3>2. dir' = e
      BY <1>2 DEF Change
    <3>3. /\ e \in Directories /\ e.config = dir.bak[p] /\ e.tmp = dir.tmp
          /\ e.bak[p] = NoFile /\ \A q \in Procs \ {p} : e.bak[q] = dir.bak[q]
      <4> HIDE DEF e
      <4> QED
        BY <3>1, RenameBak DEF e
    <3> HIDE DEF e
    <3> QED
      BY <1>1, <3>2, <3>3
  <2>2. faults' = faults /\ past' = past \cup {dir'}
    BY <1>2 DEF Works, Change
  <2>3. GoodDir(dir)'
    <3>1. /\ kept' = {} /\ broken' = broken /\ flushed' = flushed /\ GoodDir(dir)
      BY <1>1, Holding DEF history
    <3>2. FileOK(dir.config)' /\ \A q \in Procs : FileOK(dir.bak[q])'
      <4>1. \A q \in Procs : FileOK(dir.bak[q]) /\ (dir'.bak[q] = dir.bak[q] \/ q = p)
        BY <2>1, <3>1 DEF GoodDir
      <4>2. FileOK(dir.config)'
        BY <1>1, <2>1, <3>1, <4>1 DEF FileOK
      <4>3. FileOK(dir.bak[p])'
        BY <2>1 DEF FileOK
      <4>4. ASSUME NEW q \in Procs, q # p PROVE FileOK(dir.bak[q])'
        BY <2>1, <3>1, <4>1, <4>4 DEF FileOK
      <4> QED
        BY <4>2, <4>3, <4>4
    <3>3. ASSUME NEW b \in broken
          PROVE  \/ dir'.config # NoFile /\ dir'.config.by = b
                 \/ /\ b \in flushed
                    /\ \E q \in Procs : dir'.bak[q] # NoFile /\ dir'.bak[q].by = b
      <4>1. PICK q \in Procs : dir.bak[q] # NoFile /\ dir.bak[q].by = b
        BY <1>1, <3>1 DEF GoodDir
      <4>2. b \in flushed
        BY <1>1, <3>1 DEF GoodDir
      <4>3. CASE q = p
        BY <1>1, <2>1, <4>1, <4>3
      <4>4. CASE q # p
        BY <2>1, <4>1, <4>2, <4>4
      <4> QED
        BY <4>3, <4>4
    <3> QED
      BY <3>1, <3>2, <3>3 DEF GoodDir
  <2>4. ASSUME pc'[p] = "sync back", lock' = p PROVE LockInv(p)' /\ Clean(p)'
    BY <1>1, <2>1, <2>2, <2>4, Holding DEF LockInv, Replacing, Repairing, Clean, Moved, history
  <2> QED
    BY <1>1, <1>2, <2>1, <2>2, <2>3, <2>4, Holding, GoStep DEF Busy, Places
<1>3. CASE Fails /\ End(p, "failed") /\ UNCHANGED files
  <2>1. dir' = dir /\ past' = past /\ ~(faults' <= 1)
    BY <1>1, <1>3, Holding, FaultCount DEF files
  <2>2. GoodDir(dir)'
    BY <1>1, <2>1, Holding DEF GoodDir, FileOK, history
  <2> QED
    BY <1>1, <1>3, <2>1, <2>2, Holding, EndStep
<1> QED
  BY <1>2, <1>3 DEF PutBack

(* The end of a rollback. *)
LEMMA SyncBackInv ==
  ASSUME IInv, NEW p \in Procs, SyncBack(p)
  PROVE  IInv'
<1>1. lock = p /\ pc[p] = "sync back" /\ UNCHANGED <<flushed, base, history>>
      /\ End(p, "failed")
  BY DEF SyncBack, At
<1>2. dir' = dir /\ past' \subseteq past \cup {dir'} /\ dir' \in past'
      /\ (Works \/ Fails)
  BY <1>1, Holding DEF SyncBack, SyncDirectory, files
<1>3. GoodDir(dir)'
  BY <1>1, <1>2, Holding DEF GoodDir, FileOK, history
<1>4. faults' <= 1 => faults <= 1
  BY <1>1, <1>2, Holding, FaultCount DEF Works
<1>5. crashes = 0 /\ faults' <= 1 => dir'.tmp[p] = NoFile /\ dir'.bak[p] = NoFile
  BY <1>1, <1>2, <1>4, Holding DEF Clean
<1> QED
  BY <1>1, <1>2, <1>3, <1>5, Holding, EndStep

-------------------------------------------------------------------------------
(* Steps taken while the lock is free, and the environment. *)

(* An operation reads the directory and perhaps takes the lock. *)
LEMMA QuietStep ==
  ASSUME IInv, NEW p \in Procs, pc[p] \in {"start", "loaded"}, lock = Nobody,
         NEW at \in Places \ {"start"}, NEW f \in Entries,
         pc' = [pc EXCEPT ![p] = at], base' = [base EXCEPT ![p] = f],
         UNCHANGED <<files, flushed, history>>,
         faults' \in 0..MaxFaults, faults' >= faults,
         at = "loaded" => f # NoFile /\ f.origin \notin Broken,
         lock' = Nobody \/ (lock' = p /\ Running(p)' /\ LockInv(p)')
  PROVE  IInv'
<1>1. /\ dir' = dir /\ past' = past /\ kept' = kept /\ broken' = broken
      /\ used' = used /\ crashes' = crashes /\ flushed' = flushed
  BY DEF files, history
<1>2. TypeOK'
  BY <1>1 DEF IInv, TypeOK
<1>3. (\A d \in past : GoodDir(d))'
  BY <1>1 DEF IInv, GoodDir, FileOK
<1>4. (lock # Nobody => LockInv(lock))'
  OBVIOUS
<1>5. ASSUME NEW q \in Procs PROVE Clean(q)' /\ Fresh(q)'
  <2>1. /\ Clean(q) /\ Fresh(q) /\ dir \in past /\ (faults' <= 1 => faults <= 1)
        /\ pc \in [Procs -> Places] /\ base \in [Procs -> Entries]
    BY DEF IInv, TypeOK
  <2>2. CASE q = p
    BY <1>1, <2>1, <2>2 DEF Clean, Fresh
  <2>3. CASE q # p
    BY <1>1, <2>1, <2>3 DEF Clean, Fresh
  <2> QED
    BY <2>2, <2>3
<1> QED
  BY <1>2, <1>3, <1>4, <1>5 DEF IInv

(* The snapshot a caller of save_if_unchanged edits is a valid document. *)
LEMMA LoadInv ==
  ASSUME IInv, NEW p \in Procs, LoadSnapshot(p)
  PROVE  IInv'
<1>1. /\ pc[p] = "start" /\ lock = Nobody /\ lock' = Nobody /\ faults' = faults
      /\ UNCHANGED <<files, flushed, history>>
  BY DEF LoadSnapshot
<1>2. /\ faults' \in 0..MaxFaults /\ faults' >= faults /\ base \in [Procs -> Entries]
      /\ dir \in Directories /\ FileOK(dir.config)
  BY <1>1 DEF IInv, TypeOK, GoodDir
<1>3. CASE dir.config # NoFile /\ Valid(dir.config)
  <2>1. /\ base' = [base EXCEPT ![p] = dir.config] /\ pc' = [pc EXCEPT ![p] = "loaded"]
        /\ dir.config \in Files
    BY <1>2, <1>3 DEF LoadSnapshot, Directories, Entries
  <2>2. dir.config.origin \notin Broken
    BY <1>2, <1>3, <2>1 DEF Valid, FileOK, Files
  <2>3. "loaded" \in Places \ {"start"} /\ dir.config \in Entries
    BY <2>1 DEF Places, Entries
  <2> QED
    BY <1>1, <1>2, <1>3, <2>1, <2>2, <2>3, QuietStep
<1>4. CASE ~(dir.config # NoFile /\ Valid(dir.config))
  <2>1. base' = [base EXCEPT ![p] = base[p]] /\ pc' = [pc EXCEPT ![p] = "failed"]
    BY <1>2, <1>4 DEF LoadSnapshot
  <2>2. "failed" \in Places \ {"start"} /\ base[p] \in Entries
    BY <1>2 DEF Places
  <2> QED
    BY <1>1, <1>2, <2>1, <2>2, QuietStep
<1> QED
  BY <1>3, <1>4

(* The lock could not be taken, or the file could not be read. *)
LEMMA BeginFailsInv ==
  ASSUME IInv, NEW p \in Procs, BeginFails(p)
  PROVE  IInv'
<1>1. /\ pc[p] \in {"start", "loaded"} /\ lock = Nobody /\ lock' = Nobody
      /\ pc' = [pc EXCEPT ![p] = "failed"] /\ Fails
      /\ UNCHANGED <<files, flushed, history>>
  BY DEF BeginFails, TakeLock
<1>2. /\ faults' \in 0..MaxFaults /\ faults' >= faults /\ base \in [Procs -> Entries]
      /\ base' = [base EXCEPT ![p] = base[p]] /\ base[p] \in Entries
  BY <1>1, FaultCount DEF IInv, TypeOK, BeginFails
<1>3. "failed" \in Places \ {"start"}
  BY DEF Places
<1> QED
  BY <1>1, <1>2, <1>3, QuietStep

(* What an operation knows when it has taken the lock and goes on. *)
LEMMA BeginInv ==
  ASSUME IInv, NEW p \in Procs, Begin(p)
  PROVE  IInv'
<1>1. /\ pc[p] \in {"start", "loaded"} /\ lock = Nobody
      /\ (Operation[p] = "save" <=> pc[p] = "loaded")
      /\ base' = [base EXCEPT ![p] = IF Operation[p] = "save" THEN base[p] ELSE dir.config]
      /\ pc' = [pc EXCEPT ![p] = Decision(p)]
      /\ lock' = IF Decision(p) \in {"ok", "failed"} THEN Nobody ELSE p
      /\ faults' = faults /\ UNCHANGED <<files, flushed, history>>
  BY DEF Begin, TakeLock, IInv, TypeOK
<1>2. /\ faults' \in 0..MaxFaults /\ faults' >= faults /\ base \in [Procs -> Entries]
      /\ dir \in Directories /\ GoodDir(dir) /\ pc \in [Procs -> Places]
      /\ Fresh(p) /\ dir.bak[p] = NoFile /\ dir.config \in Entries
  BY <1>1 DEF IInv, TypeOK, Fresh, Directories
<1>3. Decision(p) \in {"create", "link", "ok", "failed"}
  BY DEF Decision
<1>4. Decision(p) \in Places \ {"start"} /\ Decision(p) # "loaded"
  BY <1>3 DEF Places
<1>5. /\ pc'[p] = Decision(p) /\ dir' = dir
      /\ base'[p] = IF Operation[p] = "save" THEN base[p] ELSE dir.config
      /\ flushed' = flushed /\ kept' = kept
  BY <1>1, <1>2 DEF files, history
<1>6. CASE Decision(p) = "create"
  <2>1. dir.config = NoFile \/ dir.config.by \notin Broken
    <3>1. CASE Operation[p] = "save"
      <4>1. SameBytes(dir.config, base[p])
        BY <1>6, <3>1 DEF Decision
      <4>2. dir.config.origin \notin Broken /\ dir.config \in Files
        BY <1>1, <1>2, <3>1, <4>1 DEF SameBytes, Fresh, Entries
      <4> QED
        BY <1>2, <4>2 DEF GoodDir, FileOK, Files
    <3>2. CASE Operation[p] # "save"
      BY <1>6, <3>2 DEF Decision, Valid
    <3> QED
      BY <3>1, <3>2
  <2>2. Operation[p] \in {"create", "repair"} => dir.config = NoFile
    BY <1>6 DEF Decision
  <2>3. Operation[p] = "save" =>
          SameBytes(dir.config, base[p]) /\ base[p] # NoFile /\ base[p].origin \notin Broken
    BY <1>1, <1>2, <1>6 DEF Decision, Fresh
  <2>4. LockInv(p)'
    BY <1>2, <1>5, <1>6, <2>1, <2>2, <2>3 DEF LockInv, Replacing, Repairing, Moved, GoodDir
  <2> QED
    BY <1>1, <1>2, <1>4, <1>5, <1>6, <2>4, QuietStep DEF Running
<1>7. CASE Decision(p) = "link"
  <2>1. Operation[p] = "repair" /\ dir.config # NoFile /\ dir.config.by \in Broken
    BY <1>7 DEF Decision, Valid
  <2>2. kept = {}
    BY <1>2, <2>1 DEF GoodDir, FileOK
  <2>3. LockInv(p)'
    BY <1>2, <1>5, <1>7, <2>1, <2>2 DEF LockInv, Replacing, Repairing, Moved
  <2> QED
    BY <1>1, <1>2, <1>4, <1>5, <1>7, <2>3, QuietStep DEF Running
<1>8. CASE Decision(p) \in {"ok", "failed"}
  <2>1. lock' = Nobody
    BY <1>1, <1>8
  <2> QED
    BY <1>1, <1>2, <1>4, <2>1, QuietStep
<1> QED
  BY <1>3, <1>6, <1>7, <1>8

(* An editor overwrites what was there. *)
LEMMA UserEditInv ==
  ASSUME IInv, NEW u \in UserDocs, UserEdit(u)
  PROVE  IInv'
<1> DEFINE f == [by |-> u, origin |-> u, edits |-> {}]
           e == [dir EXCEPT !.config = f]
<1>1. /\ lock = Nobody /\ lock' = Nobody /\ dir' = e /\ past' = {e}
      /\ flushed' = flushed \cup ({u} \ Broken)
      /\ broken' = (broken \ {b \in broken : dir.config # NoFile /\ dir.config.by = b})
                      \cup ({u} \cap Broken)
      /\ kept' = {} /\ used' = used \cup {u}
      /\ pc' = pc /\ base' = base /\ faults' = faults /\ crashes' = crashes
  BY DEF UserEdit
<1>2. f \in Entries /\ f # NoFile /\ f.by = u /\ f.edits = {} /\ f.origin = u
  BY DEF Entries, Files
<1>3. dir \in Directories /\ dir \in past /\ GoodDir(dir)
  BY DEF IInv, TypeOK
<1>4. e \in Directories /\ e.config = f /\ e.tmp = dir.tmp /\ e.bak = dir.bak
  <2> HIDE DEF f
  <2> QED
    BY <1>2, <1>3, SetConfig
<1> HIDE DEF e, f
<1>5. TypeOK'
  BY <1>1, <1>4 DEF IInv, TypeOK
<1>6. GoodDir(dir)'
  <2>1. dir'.config = f /\ dir'.bak = dir.bak
    BY <1>1, <1>4
  <2>2. FileOK(dir.config)'
    BY <1>2, <2>1 DEF FileOK
  <2>3. ASSUME NEW p \in Procs PROVE FileOK(dir.bak[p])'
    <3>1. FileOK(dir.bak[p]) /\ dir'.bak[p] = dir.bak[p] /\ flushed \subseteq flushed'
      BY <1>1, <1>3, <2>1 DEF GoodDir
    <3> QED
      BY <3>1 DEF FileOK
  <2>4. ASSUME NEW b \in broken'
        PROVE  \/ dir'.config # NoFile /\ dir'.config.by = b
               \/ /\ b \in flushed'
                  /\ \E p \in Procs : dir'.bak[p] # NoFile /\ dir'.bak[p].by = b
    BY <1>1, <1>2, <1>3, <2>1, <2>4 DEF GoodDir
  <2> QED
    BY <1>1, <2>2, <2>3, <2>4 DEF GoodDir
<1>7. ASSUME NEW q \in Procs PROVE Clean(q)' /\ Fresh(q)'
  <2>1. Clean(q) /\ Fresh(q)
    BY DEF IInv
  <2> QED
    BY <1>1, <1>3, <1>4, <2>1 DEF Clean, Fresh
<1> QED
  BY <1>1, <1>5, <1>6, <1>7 DEF IInv

(* The files of a process that is killed stay as they are. *)
LEMMA KillInv ==
  ASSUME IInv, NEW p \in Procs, Kill(p)
  PROVE  IInv'
<1>1. /\ pc' = [pc EXCEPT ![p] = "dead"] /\ crashes' = crashes + 1
      /\ lock' = (IF lock = p THEN Nobody ELSE lock) /\ crashes < MaxCrashes
      /\ dir' = dir /\ past' = past /\ flushed' = flushed /\ base' = base
      /\ kept' = kept /\ broken' = broken /\ used' = used /\ faults' = faults
  BY DEF Kill, files
<1>2. TypeOK /\ pc \in [Procs -> Places] /\ crashes \in Nat
  BY DEF IInv, TypeOK
<1>3. TypeOK'
  <2>1. "dead" \in Places
    BY DEF Places
  <2>4. crashes' \in 0..MaxCrashes
    BY <1>1, <1>2
  <2>3. pc' \in [Procs -> Places]
    BY <1>1, <1>2, <2>1
  <2>2. lock' # Nobody => Running(lock)'
    BY <1>1, <1>2 DEF TypeOK, Running
  <2> QED
    BY <1>1, <1>2, <2>1, <2>2, <2>3, <2>4 DEF TypeOK
<1>4. (\A d \in past : GoodDir(d))'
  BY <1>1 DEF IInv, GoodDir, FileOK
<1>5. ASSUME lock' # Nobody PROVE LockInv(lock)'
  <2>1. lock # p /\ lock' = lock /\ lock # Nobody /\ lock \in Procs /\ LockInv(lock)
    BY <1>1, <1>5 DEF IInv, TypeOK
  <2>2. pc'[lock] = pc[lock]
    BY <1>1, <1>2, <2>1
  <2>3. ASSUME NEW q \in Procs, LockInv(q), pc'[q] = pc[q] PROVE LockInv(q)'
    <3>1. dir' = dir /\ base' = base /\ kept' = kept /\ flushed' = flushed /\ faults' = faults
      BY <1>1
    <3>2. Draft(q)' = Draft(q)
          /\ (SameBytes(dir.config, base[q])' <=> SameBytes(dir.config, base[q]))
      BY <3>1 DEF Draft, SameBytes
    <3>3. Replacing(q)'
      BY <2>3, <3>1, <3>2 DEF LockInv, Replacing
    <3>4. Repairing(q)'
      BY <2>3, <3>1 DEF LockInv, Repairing
    <3> QED
      BY <3>3, <3>4 DEF LockInv
  <2> QED
    BY <2>1, <2>2, <2>3
<1>6. ASSUME NEW q \in Procs PROVE Clean(q)' /\ Fresh(q)'
  <2>1. Fresh(q) /\ crashes' # 0
    BY <1>1, <1>2 DEF IInv
  <2> QED
    BY <1>1, <1>2, <2>1 DEF Clean, Fresh
<1> QED
  BY <1>3, <1>4, <1>5, <1>6 DEF IInv

(* After a power loss the directory is one that was good already. *)
LEMMA PowerLossInv ==
  ASSUME IInv, PowerLoss
  PROVE  IInv'
<1>1. /\ pc' = [p \in Procs |-> IF Running(p) THEN "dead" ELSE pc[p]]
      /\ crashes' = crashes + 1 /\ lock' = Nobody /\ crashes < MaxCrashes
      /\ flushed' = flushed /\ base' = base
      /\ kept' = kept /\ broken' = broken /\ used' = used /\ faults' = faults
  BY DEF PowerLoss
<1>2. dir' \in past /\ past' = {dir'}
  BY DEF PowerLoss
<1>3. TypeOK /\ pc \in [Procs -> Places] /\ crashes \in Nat
  BY DEF IInv, TypeOK
<1>4. TypeOK'
  <2>1. "dead" \in Places
    BY DEF Places
  <2>4. crashes' \in 0..MaxCrashes
    BY <1>1, <1>3
  <2>3. pc' \in [Procs -> Places]
    BY <1>1, <1>3, <2>1
  <2>2. past' \subseteq Directories /\ dir' \in past'
    BY <1>2, <1>3 DEF TypeOK
  <2> QED
    BY <1>1, <1>3, <2>1, <2>2, <2>3, <2>4 DEF TypeOK
<1>5. (\A d \in past : GoodDir(d))'
  BY <1>1, <1>2 DEF IInv, GoodDir, FileOK
<1>6. ASSUME NEW q \in Procs PROVE Clean(q)' /\ Fresh(q)'
  <2>1. Fresh(q) /\ crashes' # 0
    BY <1>1, <1>3 DEF IInv
  <2> QED
    BY <1>1, <1>2, <2>1 DEF Clean, Fresh, Running
<1> QED
  BY <1>1, <1>4, <1>5, <1>6 DEF IInv

(* Nothing happens. *)
LEMMA StutterInv ==
  ASSUME IInv, UNCHANGED vars
  PROVE  IInv'
<1>1. TypeOK'
  BY DEF IInv, TypeOK, vars, Running
<1>2. (\A d \in past : GoodDir(d))'
  BY DEF IInv, GoodDir, FileOK, vars
<1>3. (lock # Nobody => LockInv(lock))'
  BY DEF IInv, LockInv, Replacing, Repairing, Draft, vars
<1>4. (\A p \in Procs : Clean(p) /\ Fresh(p))'
  BY DEF IInv, Clean, Fresh, vars
<1> QED
  BY <1>1, <1>2, <1>3, <1>4 DEF IInv

(* An empty directory or one user document, all of it on the disk. *)
LEMMA InitInv ==
  ASSUME Init
  PROVE  IInv
<1>1. PICK u \in UserDocs \cup {Nobody} :
        LET f == IF u = Nobody THEN NoFile ELSE [by |-> u, origin |-> u, edits |-> {}]
        IN  /\ dir = [config |-> f, tmp |-> [p \in Procs |-> NoFile],
                      bak |-> [p \in Procs |-> NoFile]]
            /\ used = {u} \cap UserDocs /\ broken = {u} \cap Broken
            /\ flushed = ({u} \cap UserDocs) \ Broken
  BY DEF Init
<1> DEFINE f == IF u = Nobody THEN NoFile ELSE [by |-> u, origin |-> u, edits |-> {}]
<1>2. /\ past = {dir} /\ lock = Nobody /\ pc = [p \in Procs |-> "start"]
      /\ base = [p \in Procs |-> NoFile]
      /\ kept = {} /\ faults = 0 /\ crashes = 0
  BY DEF Init
<1>3. dir.config = f /\ \A p \in Procs : dir.tmp[p] = NoFile /\ dir.bak[p] = NoFile
  BY <1>1
<1>4. f \in Entries /\ (u # Nobody => f # NoFile /\ f.by = u /\ f.origin = u /\ f.edits = {})
  BY DEF Entries, Files
<1>5. dir \in Directories
  BY <1>1, <1>4 DEF Directories, Entries
<1>6. broken \subseteq Broken /\ used \subseteq UserDocs /\ flushed \subseteq UserDocs
  BY <1>1
<1>7. broken = {u} \cap Broken
  BY <1>1
<1> HIDE DEF f
<1>8. TypeOK
  BY <1>2, <1>5, <1>6 DEF TypeOK, Places, Entries
<1>9. u = Nobody => f = NoFile
  BY DEF f
<1>10. GoodDir(dir)
  <2>1. FileOK(dir.config) /\ \A p \in Procs : FileOK(dir.bak[p])
    BY <1>3, <1>4, <1>9 DEF FileOK
  <2>2. ASSUME NEW b \in broken PROVE dir.config # NoFile /\ dir.config.by = b
    BY <1>3, <1>4, <1>7, <2>2
  <2> QED
    BY <1>2, <2>1, <2>2 DEF GoodDir
<1> QED
  BY <1>2, <1>3, <1>8, <1>10 DEF IInv, Clean, Fresh

-------------------------------------------------------------------------------
(* The specification. *)

(* The invariant is inductive: every call and every fault preserves it. *)
LEMMA StepInv ==
  ASSUME IInv, [Next]_vars
  PROVE  IInv'
<1>1. ASSUME NEW p \in Procs, Write(p) PROVE IInv'
  BY <1>1, CreateInv, FillInv, ReplaceInv, DropInv, CommitInv DEF Write
<1>2. ASSUME NEW p \in Procs, Quarantine(p) PROVE IInv'
  BY <1>2, LinkInv, SyncBackupInv, UnlinkInv, DropBackupInv, SyncQuarantineInv
  DEF Quarantine
<1>3. ASSUME NEW p \in Procs, Restore(p) PROVE IInv'
  BY <1>3, RemoveInv, PutBackInv, SyncBackInv DEF Restore
<1>4. ASSUME NEW p \in Procs, LoadSnapshot(p) \/ Begin(p) \/ BeginFails(p) \/ Kill(p)
      PROVE  IInv'
  BY <1>4, LoadInv, BeginInv, BeginFailsInv, KillInv
<1>5. ASSUME NEW u \in UserDocs, UserEdit(u) PROVE IInv'
  BY <1>5, UserEditInv
<1> QED
  BY <1>1, <1>2, <1>3, <1>4, <1>5, PowerLossInv, StutterInv DEF Next

(* IInv holds in every reachable state. *)
THEOREM Inductive == Spec => []IInv
  BY InitInv, StepInv, PTL DEF Spec

(* Every variable has its type and only an operation under way is locked. *)
THEOREM TypeCorrect == Spec => []TypeOK
<1>1. IInv => TypeOK
  BY DEF IInv
<1> QED
  BY <1>1, Inductive, PTL

(* No operation, failure, kill or power loss undoes an edit whose caller was*)
(* told that it is saved.                                                   *)
THEOREM EditsStay == Spec => []AcknowledgedEditsStay
<1>1. IInv => AcknowledgedEditsStay
  BY DEF IInv, GoodDir, AcknowledgedEditsStay
<1> QED
  BY <1>1, Inductive, PTL

(* config.toml is never a file of ours that a power loss could empty. *)
THEOREM WholeDocumentAlways == Spec => []WholeDocument
<1>1. IInv => WholeDocument
  BY DEF IInv, GoodDir, FileOK, WholeDocument
<1> QED
  BY <1>1, Inductive, PTL

(* No repair loses the broken document it replaces. *)
THEOREM BrokenSurvive == Spec => []BrokenBytesSurvive
<1>1. IInv => BrokenBytesSurvive
  BY DEF IInv, GoodDir, BrokenBytesSurvive
<1> QED
  BY <1>1, Inductive, PTL

(* One failing call leaves no file behind that no operation will remove. *)
THEOREM NoStray == Spec => []NoStrayFiles
<1>1. ASSUME IInv PROVE NoStrayFiles
  <2>1. ASSUME NEW p \in Procs, pc[p] \in {"ok", "failed"}, crashes = 0, faults <= 1
        PROVE  dir.tmp[p] = NoFile /\ (dir.bak[p] # NoFile => pc[p] = "ok")
    <3>1. lock # p /\ Clean(p)
      BY <1>1, <2>1 DEF IInv, TypeOK, Running
    <3> QED
      BY <2>1, <3>1 DEF Clean
  <2> QED
    BY <2>1 DEF NoStrayFiles
<1> QED
  BY <1>1, Inductive, PTL

(* An operation moves itself only. *)
LEMMA OwnStep ==
  ASSUME NEW q \in Procs, NEW p \in Procs, q # p, pc \in [Procs -> Places],
         \/ LoadSnapshot(q) \/ Begin(q) \/ BeginFails(q) \/ Kill(q)
         \/ Write(q) \/ Quarantine(q) \/ Restore(q)
  PROVE  pc'[p] = pc[p]
<1>1. CASE LoadSnapshot(q) \/ Begin(q) \/ BeginFails(q) \/ Kill(q)
  BY <1>1 DEF LoadSnapshot, Begin, BeginFails, Kill
<1>2. CASE Write(q)
  BY <1>2 DEF Write, CreateTemporary, FillTemporary, ReplaceConfig, DropTemporary,
              Commit, WriteFailed, Go, End
<1>3. CASE Quarantine(q)
  BY <1>3 DEF Quarantine, LinkBackup, SyncBackup, UnlinkConfig, DropBackup,
              SyncQuarantine, Go, End
<1>4. CASE Restore(q)
  BY <1>4 DEF Restore, RemoveReplacement, PutBack, SyncBack, Go, End
<1> QED
  BY <1>1, <1>2, <1>3, <1>4

(* The step on which a repair returns an error leaves what it found. *)
LEMMA RestoreStep ==
  ASSUME IInv, [Next]_vars, NEW p \in Procs,
         Operation[p] = "repair", Running(p), pc'[p] = "failed",
         base[p] # NoFile, faults' <= 1
  PROVE  dir'.config = base[p]
<1>1. pc \in [Procs -> Places] /\ faults \in 0..MaxFaults /\ p # Nobody
  BY DEF IInv, TypeOK
<1>2. pc[p] # "failed" /\ pc[p] # "start" /\ pc'[p] # pc[p]
  BY DEF Running
<1>3. /\ pc[p] # "dead" /\ pc'[p] # "dead" /\ ~PowerLoss /\ ~Kill(p)
      /\ ~\E u \in UserDocs : UserEdit(u)
  BY <1>1, <1>2 DEF PowerLoss, Kill, UserEdit, Running
<1>4. ~(LoadSnapshot(p) \/ Begin(p) \/ BeginFails(p))
  BY <1>2 DEF LoadSnapshot, Begin, BeginFails, TakeLock
<1>5. Write(p) \/ Quarantine(p) \/ Restore(p)
  BY <1>1, <1>2, <1>3, <1>4, OwnStep DEF Next, vars
<1>6. CASE Write(p)
  <2>1. pc'[p] # "failed"
    BY <1>1, <1>6 DEF Write, CreateTemporary, FillTemporary, ReplaceConfig,
                      DropTemporary, Commit, WriteFailed, Go, End
  <2> QED
    BY <2>1
<1>7. CASE Quarantine(p)
  <2>1. LinkBackup(p) \/ DropBackup(p)
    BY <1>1, <1>7 DEF Quarantine, SyncBackup, UnlinkConfig, SyncQuarantine, Go
  <2>2. lock = p /\ pc[p] \in {"link", "drop backup"}
    BY <2>1 DEF LinkBackup, DropBackup, At
  <2>3. dir.config = base[p] /\ dir \in Directories
    BY <2>2, Holding DEF LockInv, Replacing, Repairing
  <2>4. dir'.config = dir.config
    <3>1. CASE UNCHANGED files
      BY <3>1 DEF files
    <3>2. CASE Change([dir EXCEPT !.bak[p] = NoFile])
      BY <2>3, <3>2, ChangeBak DEF Entries
    <3>3. ~Go(p, "sync backup")
      BY <1>1 DEF Go
    <3> QED
      BY <2>1, <3>1, <3>2, <3>3 DEF LinkBackup, DropBackup
  <2> QED
    BY <2>3, <2>4
<1>8. CASE Restore(p)
  <2>1. lock = p /\ pc[p] \in {"remove", "put back", "sync back"}
    BY <1>8 DEF Restore, RemoveReplacement, PutBack, SyncBack, At
  <2>2. faults >= 1 /\ (pc[p] = "sync back" => dir.config = base[p])
    BY <2>1, Holding DEF LockInv, Replacing, Repairing
  <2>3. ~Fails
    BY <1>1, <2>2, FaultCount
  <2>4. ~Go(p, "put back") /\ ~Go(p, "sync back")
    BY <1>1 DEF Go
  <2>5. SyncBack(p)
    BY <1>8, <2>3, <2>4 DEF Restore, RemoveReplacement, PutBack
  <2>6. pc[p] = "sync back" /\ dir' = dir
    BY <2>3, <2>5 DEF SyncBack, At, SyncDirectory
  <2> QED
    BY <2>2, <2>6
<1> QED
  BY <1>5, <1>6, <1>7, <1>8

(* A repair that fails for one reason only leaves the file it found. *)
THEOREM FailedRepairsRestore == Spec => FailedRepairRestores
<1>1. ASSUME IInv, [Next]_vars
      PROVE  [\A p \in Procs :
                /\ Operation[p] = "repair" /\ Running(p) /\ pc'[p] = "failed"
                /\ base[p] # NoFile /\ faults' <= 1
                => dir'.config = base[p]]_vars
  BY <1>1, RestoreStep
<1> QED
  BY <1>1, Inductive, PTL DEF Spec, FailedRepairRestores

-------------------------------------------------------------------------------
(* StoreFiles implements AtomicStore.                                       *)

Stored == Seen(dir)
Recent == {Seen(d) : d \in past}
Outcomes == [p \in Procs |-> Outcome(p)]

(* Who undoes a repair holds the lock: what others do meanwhile is nothing. *)
OneUndoes == \A p \in Procs : pc[p] = "remove" => lock = p

(* What is seen of a directory after each kind of change. *)
LEMMA SeenFacts ==
  ASSUME NEW d \in Directories, NEW e \in Directories
  PROVE  /\ Seen(d).document = d.config /\ Seen(d).aside = d.bak
         /\ e.bak = d.bak => Seen(e) = [Seen(d) EXCEPT !.document = e.config]
         /\ e.bak = d.bak /\ e.config = d.config => Seen(e) = Seen(d)
  BY DEF Seen

LEMMA StoredAside ==
  ASSUME dir \in Directories, dir' \in Directories, NEW p \in Procs,
         NEW c, NEW f, dir'.config = c, dir'.bak[p] = f,
         \A q \in Procs \ {p} : dir'.bak[q] = dir.bak[q]
  PROVE  Stored' = [document |-> c, aside |-> [dir.bak EXCEPT ![p] = f]]
<1>1. dir'.bak \in [Procs -> Entries] /\ dir.bak \in [Procs -> Entries]
  BY DEF Directories
<1>2. dir'.bak = [dir.bak EXCEPT ![p] = f]
  BY <1>1
<1> QED
  BY <1>2 DEF Stored, Seen

(* What a power loss may leave, after each kind of change. *)
LEMMA RecentFacts ==
  ASSUME dir \in past
  PROVE  /\ Stored \in Recent
         /\ past' = past \cup {dir'} => Recent' = Recent \cup {Stored'}
         /\ past' = {dir'} => Recent' = {Stored'}
         /\ past' = past => Recent' = Recent
  BY DEF Stored, Recent

(* An operation that moves changes no outcome but its own. *)
LEMMA OutcomeMoves ==
  ASSUME TypeOK, OneUndoes, NEW p \in Procs, NEW at, pc' = [pc EXCEPT ![p] = at],
         dir'.config = dir.config \/ lock = p
  PROVE  /\ Outcomes' = [Outcomes EXCEPT ![p] = Outcome(p)']
         /\ Outcomes[p] = Outcome(p) /\ pc'[p] = at
<1>1. pc \in [Procs -> Places] /\ pc'[p] = at
  BY DEF TypeOK
<1>2. ASSUME NEW q \in Procs, q # p PROVE Outcome(q)' = Outcome(q)
  <2>1. pc'[q] = pc[q] /\ (pc[q] = "remove" => dir'.config = dir.config)
    BY <1>1, <1>2 DEF OneUndoes
  <2> QED
    BY <2>1 DEF Outcome
<1> QED
  BY <1>1, <1>2 DEF Outcomes
LEMMA UndoerInit ==
  ASSUME Init PROVE OneUndoes
  BY DEF Init, OneUndoes

(* Only who holds the lock begins to undo, and it lets go when it ends. *)
LEMMA UndoerStep ==
  ASSUME IInv, OneUndoes, [Next]_vars
  PROVE  OneUndoes'
<1>1. pc \in [Procs -> Places] /\ Nobody \notin Procs
  BY DEF IInv, TypeOK
<1>2. ASSUME NEW p \in Procs, LoadSnapshot(p) \/ Begin(p) \/ BeginFails(p) \/ Kill(p)
      PROVE  OneUndoes'
  <2>1. Decision(p) # "remove" /\ (lock' = lock \/ lock = Nobody \/ lock = p)
    BY <1>2 DEF Decision, LoadSnapshot, Begin, BeginFails, Kill, TakeLock
  <2>2. pc'[p] # "remove" /\ \A q \in Procs : q # p => pc'[q] = pc[q]
    BY <1>1, <1>2, <2>1 DEF LoadSnapshot, Begin, BeginFails, Kill
  <2> QED
    BY <1>1, <2>1, <2>2 DEF OneUndoes
<1>3. ASSUME NEW p \in Procs, Write(p) \/ Quarantine(p) \/ Restore(p) PROVE OneUndoes'
  <2>1. lock = p
    BY <1>3 DEF Write, Quarantine, Restore, CreateTemporary, FillTemporary, ReplaceConfig,
                DropTemporary, Commit, LinkBackup, SyncBackup, UnlinkConfig, DropBackup,
                SyncQuarantine, RemoveReplacement, PutBack, SyncBack, At
  <2>2. (\E at \in Places : Go(p, at)) \/ End(p, "ok") \/ End(p, "failed")
    <3>1. CASE Write(p)
      BY <3>1 DEF Write, CreateTemporary, FillTemporary, ReplaceConfig,
                  DropTemporary, Commit, WriteFailed, Places
    <3>2. CASE Quarantine(p)
      BY <3>2 DEF Quarantine, LinkBackup, SyncBackup, UnlinkConfig, DropBackup,
                  SyncQuarantine, Places
    <3>3. CASE Restore(p)
      BY <3>3 DEF Restore, RemoveReplacement, PutBack, SyncBack, Places
    <3> QED
      BY <1>3, <3>1, <3>2, <3>3
  <2>3. \A q \in Procs : q # p => pc'[q] = pc[q] /\ pc[q] # "remove"
    BY <1>1, <2>1, <2>2 DEF OneUndoes, Go, End
  <2>4. pc'[p] = "remove" => lock' = p
    BY <1>1, <2>1, <2>2 DEF Go, End
  <2> QED
    BY <2>3, <2>4 DEF OneUndoes
<1>4. ASSUME NEW u \in UserDocs, UserEdit(u) PROVE OneUndoes'
  BY <1>4 DEF UserEdit, OneUndoes
<1>5. CASE PowerLoss
  BY <1>5 DEF PowerLoss, OneUndoes, Running
<1>6. CASE UNCHANGED vars
  BY <1>6 DEF vars, OneUndoes
<1> QED
  BY <1>2, <1>3, <1>4, <1>5, <1>6 DEF Next

(* What an operation with the lock shows and may leave. *)
LEMMA Shown ==
  ASSUME IInv, OneUndoes, NEW p \in Procs, lock = p
  PROVE  /\ LockInv(p) /\ dir \in Directories /\ dir \in past /\ TypeOK
         /\ Stored.document = dir.config /\ Stored.aside = dir.bak
         /\ Stored \in Recent /\ Outcomes[p] = Outcome(p) /\ p # Nobody
  BY Holding, SeenFacts, RecentFacts DEF IInv, Stored, Outcomes

AtomicStep == [Atomic!Next]_<<Stored, Recent, Outcomes>>

(* A step that nobody sees. *)
LEMMA Unseen ==
  ASSUME Stored' = Stored, Recent' = Recent, Outcomes' = Outcomes
  PROVE  AtomicStep
  BY DEF AtomicStep

(* An operation ends with an error, whatever had reached the disk. *)
LEMMA Refused ==
  ASSUME NEW p \in Procs, Outcomes[p] \in {"idle", "asked", "written"},
         Stored' = Stored, Recent' \in {Recent, {Stored}},
         Outcomes' = [Outcomes EXCEPT ![p] = "failed"]
  PROVE  AtomicStep
<1>1. Atomic!Refuse(p)
  BY DEF Atomic!Refuse, Atomic!Asked, Atomic!Rest, Atomic!Settle, Atomic!Becomes,
         Stored, Recent, Outcomes
<1> QED
  BY <1>1 DEF AtomicStep, Atomic!Next
(* Callers see the same directory after a step that leaves config.toml and  *)
(* the backups.                                                             *)
LEMMA SeenStays ==
  ASSUME IInv, OneUndoes, NEW p \in Procs, lock = p, dir' \in Directories,
         dir'.config = dir.config, dir'.bak = dir.bak
  PROVE  /\ Stored' = Stored
         /\ past' \in {past, past \cup {dir'}} => Recent' = Recent
         /\ past' = {dir'} => Recent' = {Stored}
<1>1. dir \in Directories /\ dir \in past /\ Stored \in Recent
  BY Shown
<1>2. Stored' = Stored
  BY <1>1, SeenFacts DEF Stored
<1>3. past' = past \cup {dir'} => Recent' = Recent
  BY <1>1, <1>2, RecentFacts
<1> QED
  BY <1>1, <1>2, <1>3, RecentFacts

(* An operation with the lock that goes on and shows nothing new ... *)
LEMMA GoesUnseen ==
  ASSUME IInv, OneUndoes, NEW p \in Procs, lock = p, dir' \in Directories,
         dir'.config = dir.config, dir'.bak = dir.bak,
         past' \in {past, past \cup {dir'}},
         NEW at, Go(p, at), Outcome(p)' = Outcome(p)
  PROVE  AtomicStep
<1>1. Stored' = Stored /\ Recent' = Recent
  BY SeenStays
<1>2. Outcomes' = [Outcomes EXCEPT ![p] = Outcome(p)'] /\ Outcomes[p] = Outcome(p)
  BY Shown, OutcomeMoves DEF Go
<1>3. Outcomes' = Outcomes
  BY <1>2 DEF Outcomes
<1> QED
  BY <1>1, <1>3, Unseen

(* ... and one that ends with an error. *)
LEMMA EndsRefused ==
  ASSUME IInv, OneUndoes, NEW p \in Procs, lock = p, dir' \in Directories,
         dir'.config = dir.config, dir'.bak = dir.bak,
         past' \in {past, past \cup {dir'}, {dir'}},
         End(p, "failed"), Outcome(p) \in {"asked", "written"}
  PROVE  AtomicStep
<1>1. Stored' = Stored /\ Recent' \in {Recent, {Stored}}
  BY SeenStays
<1>2. /\ Outcomes' = [Outcomes EXCEPT ![p] = Outcome(p)']
      /\ Outcomes[p] = Outcome(p) /\ pc'[p] = "failed"
  BY Shown, OutcomeMoves DEF End
<1>3. Outcome(p)' = "failed"
  BY <1>2 DEF Outcome
<1> QED
  BY <1>1, <1>2, <1>3, Refused

(* A write that failed: a repair begins to undo what it has done. *)
LEMMA WriteEnds ==
  ASSUME IInv, OneUndoes, NEW p \in Procs, lock = p, dir' \in Directories,
         dir'.config = dir.config, dir'.bak = dir.bak,
         past' \in {past, past \cup {dir'}},
         WriteFailed(p), pc[p] \in {"create", "drop", "commit"}
  PROVE  AtomicStep
<1>1. Outcome(p) \in {"asked", "written"}
  BY DEF Outcome
<1>2. CASE Operation[p] = "repair" /\ base[p] # NoFile
  <2>1. Go(p, "remove") /\ pc'[p] = "remove"
    BY <1>2, Holding DEF WriteFailed, Go
  <2>2. pc[p] = "commit" => dir.config # NoFile
    <3>1. Draft(p) \in Files
      BY Holding, DraftFacts
    <3> QED
      BY <3>1, Holding DEF LockInv, Replacing
  <2>3. pc[p] # "commit" => dir.config = NoFile
    BY <1>2, Holding DEF LockInv, Replacing
  <2>4. Outcome(p)' = Outcome(p)
    BY <2>1, <2>2, <2>3 DEF Outcome
  <2> QED
    BY <2>1, <2>4, GoesUnseen
<1>3. CASE ~(Operation[p] = "repair" /\ base[p] # NoFile)
  BY <1>1, <1>3, EndsRefused DEF WriteFailed
<1> QED
  BY <1>2, <1>3

-------------------------------------------------------------------------------
(* write_unlocked replaces the document by its rename, and nothing else.    *)

LEMMA CreateShows ==
  ASSUME IInv, OneUndoes, NEW p \in Procs, CreateTemporary(p)
  PROVE  AtomicStep
<1>1. lock = p /\ pc[p] = "create"
  BY DEF CreateTemporary, At
<1>2. CASE Change([dir EXCEPT !.tmp[p] = Draft(p)]) /\ Go(p, "fill")
  <2>1. Draft(p) \in Entries
    BY <1>1, Holding, DraftFacts DEF Entries
  <2>2. dir' \in Directories /\ dir'.config = dir.config /\ dir'.bak = dir.bak
    BY <1>1, <1>2, <2>1, Holding, SetTmp DEF Change
  <2>3. Outcome(p)' = Outcome(p)
    BY <1>1, <1>2, Holding DEF Outcome, Go
  <2> QED
    BY <1>1, <1>2, <2>2, <2>3, GoesUnseen DEF Change
<1>3. CASE WriteFailed(p) /\ UNCHANGED files
  BY <1>1, <1>3, Holding, WriteEnds DEF files
<1> QED
  BY <1>2, <1>3 DEF CreateTemporary

LEMMA FillShows ==
  ASSUME IInv, OneUndoes, NEW p \in Procs, FillTemporary(p)
  PROVE  AtomicStep
<1>1. lock = p /\ pc[p] = "fill" /\ dir' = dir /\ past' = past
  BY DEF FillTemporary, At, files
<1>2. PICK at \in {"rename", "drop"} : Go(p, at)
  BY DEF FillTemporary
<1>3. Outcome(p)' = Outcome(p)
  BY <1>1, <1>2, Holding DEF Outcome, Go
<1> QED
  BY <1>1, <1>2, <1>3, Holding, GoesUnseen

(* The document that is made is made of the one that it replaces. *)
LEMMA ReplaceShows ==
  ASSUME IInv, OneUndoes, NEW p \in Procs, ReplaceConfig(p)
  PROVE  AtomicStep
<1>1. lock = p /\ pc[p] = "rename" /\ LockInv(p) /\ p # Nobody
  BY Holding DEF ReplaceConfig, At
<1>2. CASE Go(p, "commit") /\ Change([dir EXCEPT !.config = dir.tmp[p], !.tmp[p] = NoFile])
  <2> DEFINE e == [dir EXCEPT !.config = dir.tmp[p], !.tmp[p] = NoFile]
  <2>1. e \in Directories /\ e.config = dir.tmp[p] /\ e.bak = dir.bak
    <3>1. dir \in Directories
      BY <1>1, Holding
    <3> HIDE DEF e
    <3> QED
      BY <3>1, RenameTmp DEF e
  <2>2. dir' = e /\ past' = past \cup {dir'}
    BY <1>2 DEF Change
  <2> HIDE DEF e
  <2>3. dir.tmp[p] = Draft(p)
    BY <1>1 DEF LockInv, Replacing
  <2>4. Stored' = [Stored EXCEPT !.document = Draft(p)] /\ Recent' = Recent \cup {Stored'}
    BY <1>1, <2>1, <2>2, <2>3, Shown, SeenFacts, RecentFacts DEF Stored
  <2>5. Outcomes[p] = "asked" /\ Outcomes' = [Outcomes EXCEPT ![p] = "written"]
    <3>1. /\ Outcomes' = [Outcomes EXCEPT ![p] = Outcome(p)'] /\ Outcomes[p] = Outcome(p)
          /\ pc'[p] = "commit"
      BY <1>1, <1>2, Shown, OutcomeMoves DEF Go
    <3> QED
      BY <1>1, <3>1 DEF Outcome
  <2>6. Draft(p) = Atomic!Made(p) /\ Atomic!MayReplace(p)
    <3>1. /\ dir.config = NoFile \/ dir.config.by \notin Broken
          /\ Operation[p] \in {"update", "save", "create", "repair"}
      BY <1>1 DEF LockInv, Replacing, Moved
    <3>2. CASE Operation[p] = "update"
      <4>1. dir.config = base[p]
        BY <1>1, <3>2 DEF LockInv, Replacing
      <4> QED
        BY <3>1, <3>2, <4>1 DEF Draft, Seen, Atomic!Made, Atomic!MayReplace, Atomic!Readable
    <3>3. CASE Operation[p] = "save"
      <4>1. SameBytes(dir.config, base[p]) /\ base[p] # NoFile
        BY <1>1, <3>3 DEF LockInv, Replacing
      <4> QED
        BY <3>1, <3>3, <4>1
        DEF Draft, Seen, SameBytes, Atomic!Made, Atomic!MayReplace, Atomic!Readable
    <3>4. CASE Operation[p] \in {"create", "repair"}
      <4>1. dir.config = NoFile
        BY <1>1, <3>4 DEF LockInv, Replacing
      <4> QED
        BY <3>4, <4>1 DEF Draft, Seen, Atomic!Made, Atomic!MayReplace
    <3> QED
      BY <3>1, <3>2, <3>3, <3>4
  <2>7. Atomic!Replace(p)
    BY <2>4, <2>5, <2>6 DEF Atomic!Replace, Atomic!Put, Atomic!Becomes, Stored, Recent, Outcomes
  <2> QED
    BY <2>7 DEF AtomicStep, Atomic!Next
<1>3. CASE Go(p, "drop") /\ UNCHANGED files
  <2>1. Outcome(p)' = Outcome(p)
    BY <1>1, <1>3, Holding DEF Outcome, Go
  <2> QED
    BY <1>1, <1>3, <2>1, Holding, GoesUnseen DEF files
<1> QED
  BY <1>2, <1>3 DEF ReplaceConfig

LEMMA DropShows ==
  ASSUME IInv, OneUndoes, NEW p \in Procs, DropTemporary(p)
  PROVE  AtomicStep
<1>1. lock = p /\ pc[p] = "drop" /\ WriteFailed(p)
  BY DEF DropTemporary, At
<1>2. CASE Change([dir EXCEPT !.tmp[p] = NoFile])
  <2>1. dir' \in Directories /\ dir'.config = dir.config /\ dir'.bak = dir.bak
    BY <1>1, <1>2, Holding, SetTmp DEF Change, Entries
  <2> QED
    BY <1>1, <1>2, <2>1, WriteEnds DEF Change
<1>3. CASE UNCHANGED files
  BY <1>1, <1>3, Holding, WriteEnds DEF files
<1> QED
  BY <1>2, <1>3 DEF DropTemporary

(* "Ok" comes with the sync of the directory. *)
LEMMA CommitShows ==
  ASSUME IInv, OneUndoes, NEW p \in Procs, Commit(p)
  PROVE  AtomicStep
<1>1. lock = p /\ pc[p] = "commit"
  BY DEF Commit, At
<1>2. CASE SyncDirectory /\ End(p, "ok")
  <2>1. dir' = dir /\ past' = {dir'}
    BY <1>2 DEF SyncDirectory
  <2>2. Stored' = Stored /\ Recent' = {Stored}
    BY <1>1, <2>1, Holding, SeenStays
  <2>3. /\ Outcomes' = [Outcomes EXCEPT ![p] = Outcome(p)'] /\ Outcomes[p] = Outcome(p)
        /\ pc'[p] = "ok"
    BY <1>1, <1>2, <2>1, Shown, OutcomeMoves DEF End
  <2>4. Outcomes[p] = "written" /\ Outcomes' = [Outcomes EXCEPT ![p] = "ok"]
    BY <1>1, <2>3 DEF Outcome
  <2>5. Atomic!Acknowledge(p)
    BY <2>2, <2>4 DEF Atomic!Acknowledge, Atomic!Settle, Atomic!Becomes, Stored, Recent, Outcomes
  <2> QED
    BY <2>5 DEF AtomicStep, Atomic!Next
<1>3. CASE WriteFailed(p) /\ UNCHANGED files
  BY <1>1, <1>3, Holding, WriteEnds DEF files
<1> QED
  BY <1>2, <1>3 DEF Commit
-------------------------------------------------------------------------------
(* A repair sets the broken document aside, takes it away, puts it back.    *)

LEMMA LinkShows ==
  ASSUME IInv, OneUndoes, NEW p \in Procs, LinkBackup(p)
  PROVE  AtomicStep
<1>1. lock = p /\ pc[p] = "link" /\ dir.config = base[p] /\ base[p] # NoFile
      /\ Operation[p] = "repair" /\ dir.config.by \in Broken
  BY Holding DEF LinkBackup, At, LockInv, Repairing
<1>2. CASE Change([dir EXCEPT !.bak[p] = dir.config]) /\ Go(p, "sync backup")
  <2>1. dir \in Directories /\ dir.config \in Entries
    BY <1>1, Holding DEF Directories
  <2>2. /\ dir' \in Directories /\ dir'.config = dir.config
        /\ dir'.bak[p] = dir.config /\ \A q \in Procs \ {p} : dir'.bak[q] = dir.bak[q]
    BY <1>2, <2>1, ChangeBak
  <2>3. past' = past \cup {dir'}
    BY <1>2 DEF Change
  <2>4. /\ Stored' = [document |-> dir.config, aside |-> [dir.bak EXCEPT ![p] = dir.config]]
        /\ Recent' = Recent \cup {Stored'}
    BY <1>1, <2>1, <2>2, <2>3, Shown, StoredAside, RecentFacts
  <2>5. /\ Outcomes' = [Outcomes EXCEPT ![p] = Outcome(p)'] /\ Outcomes[p] = Outcome(p)
        /\ pc'[p] = "sync backup"
    BY <1>1, <1>2, <2>2, Shown, OutcomeMoves DEF Go
  <2>6. Outcomes[p] = "asked" /\ Outcomes' = Outcomes
    BY <1>1, <2>5 DEF Outcome, Outcomes
  <2>7. Atomic!SetAside(p)
    <3>1. Stored' = [Stored EXCEPT !.aside[p] = dir.config]
      <4>1. Stored = [document |-> dir.config, aside |-> dir.bak]
        BY DEF Stored, Seen
      <4> QED
        BY <2>4, <4>1
    <3>2. Stored.document = dir.config
      BY <1>1, Shown
    <3> QED
      BY <1>1, <2>4, <2>6, <3>1, <3>2
      DEF Atomic!SetAside, Atomic!Readable, Atomic!Put, Stored, Recent, Outcomes
  <2> QED
    BY <2>7 DEF AtomicStep, Atomic!Next
<1>3. CASE End(p, "failed") /\ UNCHANGED files
  <2>1. Outcome(p) = "asked"
    BY <1>1 DEF Outcome
  <2> QED
    BY <1>1, <1>3, <2>1, Holding, EndsRefused DEF files
<1> QED
  BY <1>2, <1>3 DEF LinkBackup

LEMMA SyncBackupShows ==
  ASSUME IInv, OneUndoes, NEW p \in Procs, SyncBackup(p)
  PROVE  AtomicStep
<1>1. lock = p /\ pc[p] = "sync backup" /\ dir' = dir /\ past' = past
  BY DEF SyncBackup, At, files
<1>2. PICK at \in {"unlink", "drop backup"} : Go(p, at)
  BY DEF SyncBackup
<1>3. Outcome(p)' = Outcome(p)
  BY <1>1, <1>2, Holding DEF Outcome, Go
<1> QED
  BY <1>1, <1>2, <1>3, Holding, GoesUnseen

LEMMA UnlinkShows ==
  ASSUME IInv, OneUndoes, NEW p \in Procs, UnlinkConfig(p)
  PROVE  AtomicStep
<1>1. lock = p /\ pc[p] = "unlink" /\ dir.config = base[p] /\ base[p] # NoFile
      /\ dir.bak[p] = base[p]
  BY Holding DEF UnlinkConfig, At, LockInv, Repairing
<1>2. CASE Change([dir EXCEPT !.config = NoFile]) /\ Go(p, "sync quarantine")
  <2>1. dir \in Directories /\ NoFile \in Entries
    BY <1>1, Holding DEF Entries
  <2>2. dir' \in Directories /\ dir'.config = NoFile /\ dir'.bak = dir.bak
    BY <1>2, <2>1, ChangeConfig
  <2>3. past' = past \cup {dir'}
    BY <1>2 DEF Change
  <2>4. Stored' = [Stored EXCEPT !.document = NoFile] /\ Recent' = Recent \cup {Stored'}
    BY <1>1, <2>1, <2>2, <2>3, Shown, SeenFacts, RecentFacts DEF Stored
  <2>5. /\ Outcomes' = [Outcomes EXCEPT ![p] = Outcome(p)'] /\ Outcomes[p] = Outcome(p)
        /\ pc'[p] = "sync quarantine"
    BY <1>1, <1>2, Shown, OutcomeMoves DEF Go
  <2>6. Outcomes[p] = "asked" /\ Outcomes' = Outcomes
    BY <1>1, <2>5 DEF Outcome, Outcomes
  <2>7. Atomic!TakeAway(p)
    BY <1>1, <2>4, <2>6 DEF Atomic!TakeAway, Atomic!Put, Seen, Stored, Recent, Outcomes
  <2> QED
    BY <2>7 DEF AtomicStep, Atomic!Next
<1>3. CASE Go(p, "drop backup") /\ UNCHANGED files
  <2>1. Outcome(p)' = Outcome(p)
    BY <1>1, <1>3, Holding DEF Outcome, Go
  <2> QED
    BY <1>1, <1>3, <2>1, Holding, GoesUnseen DEF files
<1> QED
  BY <1>2, <1>3 DEF UnlinkConfig

LEMMA DropBackupShows ==
  ASSUME IInv, OneUndoes, NEW p \in Procs, DropBackup(p)
  PROVE  AtomicStep
<1>1. lock = p /\ pc[p] = "drop backup" /\ End(p, "failed")
      /\ dir.config = base[p] /\ base[p] # NoFile /\ dir.bak[p] = base[p]
  BY Holding DEF DropBackup, At, LockInv, Repairing
<1>2. CASE Change([dir EXCEPT !.bak[p] = NoFile])
  <2>1. dir \in Directories /\ NoFile \in Entries
    BY <1>1, Holding DEF Entries
  <2>2. /\ dir' \in Directories /\ dir'.config = dir.config
        /\ dir'.bak[p] = NoFile /\ \A q \in Procs \ {p} : dir'.bak[q] = dir.bak[q]
    BY <1>2, <2>1, ChangeBak
  <2>3. past' = past \cup {dir'}
    BY <1>2 DEF Change
  <2>4. /\ Stored' = [document |-> dir.config, aside |-> [dir.bak EXCEPT ![p] = NoFile]]
        /\ Recent' = Recent \cup {Stored'}
    BY <1>1, <2>1, <2>2, <2>3, Shown, StoredAside, RecentFacts
  <2>5. /\ Outcomes' = [Outcomes EXCEPT ![p] = Outcome(p)'] /\ Outcomes[p] = Outcome(p)
        /\ pc'[p] = "failed"
    BY <1>1, <2>2, Shown, OutcomeMoves DEF End
  <2>6. Outcomes[p] = "asked" /\ Outcomes' = [Outcomes EXCEPT ![p] = "failed"]
    BY <1>1, <2>5 DEF Outcome
  <2>7. Atomic!GiveUp(p)
    <3>1. Stored' = [Stored EXCEPT !.aside[p] = NoFile]
      <4>1. Stored = [document |-> dir.config, aside |-> dir.bak]
        BY DEF Stored, Seen
      <4> QED
        BY <2>4, <4>1
    <3>2. Stored.document = dir.config /\ Stored.aside = dir.bak
      BY <1>1, Shown
    <3> QED
      BY <1>1, <2>4, <2>6, <3>1, <3>2
      DEF Atomic!GiveUp, Atomic!Put, Atomic!Becomes, Stored, Recent, Outcomes
  <2> QED
    BY <2>7 DEF AtomicStep, Atomic!Next
<1>3. CASE UNCHANGED files
  <2>1. Outcome(p) = "asked"
    BY <1>1 DEF Outcome
  <2> QED
    BY <1>1, <1>3, <2>1, Holding, EndsRefused DEF files
<1> QED
  BY <1>2, <1>3 DEF DropBackup

LEMMA SyncQuarantineShows ==
  ASSUME IInv, OneUndoes, NEW p \in Procs, SyncQuarantine(p)
  PROVE  AtomicStep
<1>1. lock = p /\ pc[p] = "sync quarantine" /\ Operation[p] = "repair"
      /\ dir.config = NoFile
  BY Holding DEF SyncQuarantine, At, LockInv, Repairing, Replacing
<1>2. CASE SyncDirectory /\ Go(p, "create")
  <2>1. dir' = dir /\ past' = {dir'}
    BY <1>2 DEF SyncDirectory
  <2>2. Stored' = Stored /\ Recent' = {Stored}
    BY <1>1, <2>1, Holding, SeenStays
  <2>3. /\ Outcomes' = [Outcomes EXCEPT ![p] = Outcome(p)'] /\ Outcomes[p] = Outcome(p)
        /\ pc'[p] = "create"
    BY <1>1, <1>2, <2>1, Shown, OutcomeMoves DEF Go
  <2>4. Outcomes[p] = "asked" /\ Outcomes' = Outcomes
    BY <1>1, <2>3 DEF Outcome, Outcomes
  <2>5. Atomic!Flush(p)
    BY <2>2, <2>4 DEF Atomic!Flush, Atomic!Settle, Stored, Recent, Outcomes
  <2> QED
    BY <2>5 DEF AtomicStep, Atomic!Next
<1>3. CASE Go(p, "remove") /\ UNCHANGED files
  <2>1. Outcome(p)' = Outcome(p)
    BY <1>1, <1>3, Holding DEF Outcome, Go, files
  <2> QED
    BY <1>1, <1>3, <2>1, Holding, GoesUnseen DEF files
<1> QED
  BY <1>2, <1>3 DEF SyncQuarantine

LEMMA RemoveShows ==
  ASSUME IInv, OneUndoes, NEW p \in Procs, RemoveReplacement(p)
  PROVE  AtomicStep
<1>1. lock = p /\ pc[p] = "remove" /\ dir.bak[p] = base[p] /\ base[p] # NoFile
  BY Holding DEF RemoveReplacement, At, LockInv, Repairing, Moved
<1>2. CASE Change([dir EXCEPT !.config = NoFile]) /\ Go(p, "put back")
  <2>1. dir \in Directories /\ NoFile \in Entries
    BY <1>1, Holding DEF Entries
  <2>2. dir' \in Directories /\ dir'.config = NoFile /\ dir'.bak = dir.bak
    BY <1>2, <2>1, ChangeConfig
  <2>3. past' = past \cup {dir'}
    BY <1>2 DEF Change
  <2>4. /\ Outcomes' = [Outcomes EXCEPT ![p] = Outcome(p)'] /\ Outcomes[p] = Outcome(p)
        /\ pc'[p] = "put back" /\ Outcome(p)' = "asked"
    <3>1. /\ Outcomes' = [Outcomes EXCEPT ![p] = Outcome(p)'] /\ Outcomes[p] = Outcome(p)
          /\ pc'[p] = "put back"
      BY <1>1, <1>2, Shown, OutcomeMoves DEF Go
    <3> QED
      BY <3>1 DEF Outcome
  <2>5. CASE dir.config = NoFile
    <3>1. Outcome(p)' = Outcome(p)
      BY <1>1, <2>4, <2>5 DEF Outcome
    <3> QED
      BY <1>1, <1>2, <2>2, <2>3, <2>5, <3>1, GoesUnseen
  <2>6. CASE dir.config # NoFile
    <3>1. Stored' = [Stored EXCEPT !.document = NoFile] /\ Recent' = Recent \cup {Stored'}
      BY <1>1, <2>1, <2>2, <2>3, Shown, SeenFacts, RecentFacts DEF Stored
    <3>2. Outcomes[p] = "written" /\ Outcomes' = [Outcomes EXCEPT ![p] = "asked"]
      BY <1>1, <2>4, <2>6 DEF Outcome
    <3>3. Atomic!Withdraw(p)
      BY <1>1, <3>1, <3>2
      DEF Atomic!Withdraw, Atomic!Put, Atomic!Becomes, Seen, Stored, Recent, Outcomes
    <3> QED
      BY <3>3 DEF AtomicStep, Atomic!Next
  <2> QED
    BY <2>5, <2>6
<1>3. CASE End(p, "failed") /\ UNCHANGED files
  <2>1. Outcome(p) \in {"asked", "written"}
    BY <1>1 DEF Outcome
  <2> QED
    BY <1>1, <1>3, <2>1, Holding, EndsRefused DEF files
<1> QED
  BY <1>2, <1>3 DEF RemoveReplacement

LEMMA PutBackShows ==
  ASSUME IInv, OneUndoes, NEW p \in Procs, PutBack(p)
  PROVE  AtomicStep
<1>1. lock = p /\ pc[p] = "put back" /\ dir.bak[p] = base[p] /\ base[p] # NoFile
      /\ dir.config = NoFile
  BY Holding DEF PutBack, At, LockInv, Repairing, Replacing, Moved
<1>2. CASE /\ Go(p, "sync back")
           /\ Change([dir EXCEPT !.config = dir.bak[p], !.bak[p] = NoFile])
  <2> DEFINE e == [dir EXCEPT !.config = dir.bak[p], !.bak[p] = NoFile]
  <2>1. dir \in Directories
    BY <1>1, Holding
  <2>2. /\ e \in Directories /\ e.config = dir.bak[p] /\ e.bak[p] = NoFile
        /\ \A q \in Procs \ {p} : e.bak[q] = dir.bak[q]
    <3> HIDE DEF e
    <3> QED
      BY <2>1, RenameBak DEF e
  <2>3. dir' = e /\ past' = past \cup {dir'}
    BY <1>2 DEF Change
  <2> HIDE DEF e
  <2>4. Stored' = [document |-> base[p], aside |-> [dir.bak EXCEPT ![p] = NoFile]]
    <3>1. /\ dir' \in Directories /\ dir'.config = base[p] /\ dir'.bak[p] = NoFile
          /\ \A q \in Procs \ {p} : dir'.bak[q] = dir.bak[q]
      BY <1>1, <2>2, <2>3
    <3> QED
      BY <2>1, <3>1, StoredAside
  <2>5. Recent' = Recent \cup {Stored'}
    BY <1>1, <2>3, Shown, RecentFacts
  <2>6. /\ Outcomes' = [Outcomes EXCEPT ![p] = Outcome(p)'] /\ Outcomes[p] = Outcome(p)
        /\ pc'[p] = "sync back"
    BY <1>1, <1>2, Shown, OutcomeMoves DEF Go
  <2>7. Outcomes[p] = "asked" /\ Outcomes' = Outcomes
    BY <1>1, <2>6 DEF Outcome, Outcomes
  <2>8. Atomic!PutBack(p)
    <3>1. Stored' = [Stored EXCEPT !.document = base[p], !.aside[p] = NoFile]
      <4> DEFINE half == [Stored EXCEPT !.document = base[p]]
      <4>1. half = [document |-> base[p], aside |-> dir.bak]
        BY DEF Stored, Seen
      <4>2. Stored' = [half EXCEPT !.aside[p] = NoFile]
        <5> HIDE DEF half
        <5> QED
          BY <2>4, <4>1
      <4> QED
        BY <4>2
    <3>2. Stored.document = dir.config /\ Stored.aside = dir.bak
      BY <1>1, Shown
    <3> QED
      BY <1>1, <2>5, <2>7, <3>1, <3>2
      DEF Atomic!PutBack, Atomic!Put, Stored, Recent, Outcomes
  <2> QED
    BY <2>8 DEF AtomicStep, Atomic!Next
<1>3. CASE End(p, "failed") /\ UNCHANGED files
  <2>1. Outcome(p) = "asked"
    BY <1>1 DEF Outcome
  <2> QED
    BY <1>1, <1>3, <2>1, Holding, EndsRefused DEF files
<1> QED
  BY <1>2, <1>3 DEF PutBack

LEMMA SyncBackShows ==
  ASSUME IInv, OneUndoes, NEW p \in Procs, SyncBack(p)
  PROVE  AtomicStep
<1>1. lock = p /\ pc[p] = "sync back" /\ End(p, "failed")
  BY DEF SyncBack, At
<1>2. dir' = dir /\ past' \in {past, {dir'}}
  BY DEF SyncBack, SyncDirectory, files
<1>3. Outcome(p) = "asked"
  BY <1>1 DEF Outcome
<1> QED
  BY <1>1, <1>2, <1>3, Holding, EndsRefused
-------------------------------------------------------------------------------
(* Steps without the lock, and the environment.                             *)

(* Nothing of the directory changes and an operation moves. *)
LEMMA MovesOnly ==
  ASSUME IInv, OneUndoes, NEW p \in Procs, NEW at, pc' = [pc EXCEPT ![p] = at],
         UNCHANGED files
  PROVE  /\ Stored' = Stored /\ Recent' = Recent
         /\ Outcomes' = [Outcomes EXCEPT ![p] = Outcome(p)']
         /\ Outcomes[p] = Outcome(p) /\ pc'[p] = at
         /\ Stored.document = dir.config
<1>1. dir' = dir /\ past' = past /\ dir \in past /\ TypeOK /\ dir \in Directories
  BY DEF files, IInv, TypeOK
<1>2. Stored' = Stored /\ Recent' = Recent /\ Stored.document = dir.config
  BY <1>1, RecentFacts, SeenFacts DEF Stored
<1> QED
  BY <1>1, <1>2, OutcomeMoves

LEMMA LoadShows ==
  ASSUME IInv, OneUndoes, NEW p \in Procs, LoadSnapshot(p)
  PROVE  AtomicStep
<1>1. PICK at \in {"loaded", "failed"} : pc' = [pc EXCEPT ![p] = at]
  BY DEF LoadSnapshot
<1>2. pc[p] = "start" /\ UNCHANGED files
  BY DEF LoadSnapshot
<1>3. /\ Stored' = Stored /\ Recent' = Recent
      /\ Outcomes' = [Outcomes EXCEPT ![p] = Outcome(p)']
      /\ Outcomes[p] = Outcome(p) /\ pc'[p] = at
  BY <1>1, <1>2, MovesOnly
<1>4. Outcomes[p] = "idle"
  BY <1>2, <1>3 DEF Outcome
<1>5. CASE at = "failed"
  <2>1. Outcome(p)' = "failed"
    BY <1>3, <1>5 DEF Outcome
  <2> QED
    BY <1>3, <1>4, <2>1, Refused
<1>6. CASE at = "loaded"
  <2>1. Outcome(p)' = "asked"
    BY <1>3, <1>6 DEF Outcome
  <2>2. Atomic!Begin(p)
    BY <1>3, <1>4, <2>1
    DEF Atomic!Begin, Atomic!Becomes, Atomic!Rest, Stored, Recent, Outcomes
  <2> QED
    BY <2>2 DEF AtomicStep, Atomic!Next
<1> QED
  BY <1>5, <1>6

LEMMA BeginFailsShows ==
  ASSUME IInv, OneUndoes, NEW p \in Procs, BeginFails(p)
  PROVE  AtomicStep
<1>1. pc[p] \in {"start", "loaded"} /\ pc' = [pc EXCEPT ![p] = "failed"] /\ UNCHANGED files
  BY DEF BeginFails, TakeLock
<1>2. /\ Stored' = Stored /\ Recent' = Recent
      /\ Outcomes' = [Outcomes EXCEPT ![p] = Outcome(p)']
      /\ Outcomes[p] = Outcome(p) /\ pc'[p] = "failed"
  BY <1>1, MovesOnly
<1>3. Outcomes[p] \in {"idle", "asked"} /\ Outcome(p)' = "failed"
  BY <1>1, <1>2 DEF Outcome
<1> QED
  BY <1>2, <1>3, Refused

LEMMA BeginShows ==
  ASSUME IInv, OneUndoes, NEW p \in Procs, Begin(p)
  PROVE  AtomicStep
<1>1. /\ pc[p] = IF Operation[p] = "save" THEN "loaded" ELSE "start"
      /\ pc' = [pc EXCEPT ![p] = Decision(p)] /\ UNCHANGED files
  BY DEF Begin, TakeLock
<1>2. /\ Stored' = Stored /\ Recent' = Recent
      /\ Outcomes' = [Outcomes EXCEPT ![p] = Outcome(p)']
      /\ Outcomes[p] = Outcome(p) /\ pc'[p] = Decision(p)
      /\ Stored.document = dir.config
  BY <1>1, MovesOnly
<1>3. Outcomes[p] = IF Operation[p] = "save" THEN "asked" ELSE "idle"
  BY <1>1, <1>2 DEF Outcome
<1>4. CASE Decision(p) = "failed"
  <2>1. Outcome(p)' = "failed"
    BY <1>2, <1>4 DEF Outcome
  <2> QED
    BY <1>2, <1>3, <2>1, Refused
<1>5. CASE Decision(p) = "ok"
  <2>1. Outcome(p)' = "ok"
    BY <1>2, <1>5 DEF Outcome
  <2>2. Operation[p] \in {"create", "repair"} /\ dir.config # NoFile /\ Valid(dir.config)
    BY <1>5 DEF Decision
  <2>3. Atomic!Readable(Stored.document)
    BY <1>2, <2>2 DEF Atomic!Readable, Valid
  <2>4. Atomic!FindGood(p)
    BY <1>2, <1>3, <2>1, <2>2, <2>3
    DEF Atomic!FindGood, Atomic!Asked, Atomic!Becomes, Atomic!Rest, Stored, Recent, Outcomes
  <2> QED
    BY <2>4 DEF AtomicStep, Atomic!Next
<1>6. CASE Decision(p) \in {"create", "link"}
  <2>1. Outcome(p)' = "asked"
    BY <1>2, <1>6 DEF Outcome
  <2>2. CASE Operation[p] = "save"
    <3>1. Outcomes' = Outcomes
      BY <1>2, <1>3, <2>1, <2>2 DEF Outcomes
    <3> QED
      BY <1>2, <3>1, Unseen
  <2>3. CASE Operation[p] # "save"
    <3>1. Atomic!Begin(p)
      BY <1>2, <1>3, <2>1, <2>3
      DEF Atomic!Begin, Atomic!Becomes, Atomic!Rest, Stored, Recent, Outcomes
    <3> QED
      BY <3>1 DEF AtomicStep, Atomic!Next
  <2> QED
    BY <2>2, <2>3
<1>7. Decision(p) \in {"create", "link", "ok", "failed"}
  BY DEF Decision
<1> QED
  BY <1>4, <1>5, <1>6, <1>7

LEMMA KillShows ==
  ASSUME IInv, OneUndoes, NEW p \in Procs, Kill(p)
  PROVE  AtomicStep
<1>1. Running(p) /\ pc' = [pc EXCEPT ![p] = "dead"] /\ UNCHANGED files
  BY DEF Kill
<1>2. /\ Stored' = Stored /\ Recent' = Recent
      /\ Outcomes' = [Outcomes EXCEPT ![p] = Outcome(p)']
      /\ Outcomes[p] = Outcome(p) /\ pc'[p] = "dead"
  BY <1>1, MovesOnly
<1>3. Outcomes[p] \in {"asked", "written"} /\ Outcome(p)' = "dead"
  BY <1>1, <1>2 DEF Outcome, Running
<1>4. Atomic!Die(p)
  BY <1>2, <1>3 DEF Atomic!Die, Atomic!Becomes, Atomic!Rest, Stored, Recent, Outcomes
<1> QED
  BY <1>4 DEF AtomicStep, Atomic!Next

LEMMA UserEditShows ==
  ASSUME IInv, OneUndoes, NEW u \in UserDocs, UserEdit(u)
  PROVE  AtomicStep
<1> DEFINE f == [by |-> u, origin |-> u, edits |-> {}]
           e == [dir EXCEPT !.config = f]
<1>1. lock = Nobody /\ dir' = e /\ past' = {e} /\ pc' = pc
  BY DEF UserEdit
<1>2. dir \in Directories /\ dir \in past /\ Nobody \notin Procs
  BY DEF IInv, TypeOK
<1>3. f \in Entries
  BY DEF Entries, Files
<1>4. f = Atomic!UserDocument(u)
  BY DEF Atomic!UserDocument
<1> HIDE DEF f
<1>5. e \in Directories /\ e.config = f /\ e.bak = dir.bak
  BY <1>2, <1>3, SetConfig
<1> HIDE DEF e
<1>6. Stored' = [Stored EXCEPT !.document = f] /\ Recent' = {Stored'}
  BY <1>1, <1>2, <1>5, SeenFacts, RecentFacts DEF Stored
<1>7. Outcomes' = Outcomes
  <2>1. ASSUME NEW p \in Procs PROVE Outcome(p)' = Outcome(p)
    BY <1>1, <1>2 DEF Outcome, OneUndoes
  <2> QED
    BY <2>1 DEF Outcomes
<1>8. Atomic!UserEdit(u)
  BY <1>4, <1>6, <1>7 DEF Atomic!UserEdit, Stored, Recent, Outcomes
<1> QED
  BY <1>8 DEF AtomicStep, Atomic!Next

LEMMA PowerLossShows ==
  ASSUME IInv, OneUndoes, PowerLoss
  PROVE  AtomicStep
<1>1. dir' \in past /\ past' = {dir'} /\ dir \in past
      /\ pc' = [p \in Procs |-> IF Running(p) THEN "dead" ELSE pc[p]]
  BY DEF PowerLoss, IInv, TypeOK
<1>2. Stored' \in Recent /\ Recent' = {Stored'}
  BY <1>1, RecentFacts DEF Stored, Recent
<1>3. ASSUME NEW p \in Procs
      PROVE  Outcome(p)' = IF Outcomes[p] \in {"asked", "written"} THEN "dead" ELSE Outcomes[p]
  <2>1. Outcomes[p] = Outcome(p) /\ pc'[p] = IF Running(p) THEN "dead" ELSE pc[p]
    BY <1>1 DEF Outcomes
  <2>2. CASE Running(p)
    BY <2>1, <2>2 DEF Outcome, Running
  <2>3. CASE ~Running(p)
    BY <2>1, <2>3 DEF Outcome, Running
  <2> QED
    BY <2>2, <2>3
<1>4. Outcomes' = [p \in Procs |-> IF Outcomes[p] \in {"asked", "written"}
                                   THEN "dead" ELSE Outcomes[p]]
  BY <1>3 DEF Outcomes
<1>5. Atomic!PowerLoss
  BY <1>2, <1>4 DEF Atomic!PowerLoss, Stored, Recent, Outcomes
<1> QED
  BY <1>5 DEF AtomicStep, Atomic!Next

LEMMA InitShows ==
  ASSUME Init
  PROVE  Atomic!Init
<1>1. PICK u \in UserDocs \cup {Nobody} :
        dir = [config |-> IF u = Nobody THEN NoFile ELSE [by |-> u, origin |-> u, edits |-> {}],
               tmp |-> [p \in Procs |-> NoFile], bak |-> [p \in Procs |-> NoFile]]
  BY DEF Init
<1> DEFINE f == IF u = Nobody THEN NoFile ELSE [by |-> u, origin |-> u, edits |-> {}]
<1>2. f \in {Atomic!UserDocument(v) : v \in UserDocs} \cup {NoFile}
  BY DEF Atomic!UserDocument
<1>3. Stored = [document |-> f, aside |-> [p \in Procs |-> NoFile]]
  BY <1>1 DEF Stored, Seen
<1>4. past = {dir} /\ pc = [p \in Procs |-> "start"]
  BY DEF Init
<1>5. Recent = {Stored} /\ Outcomes = [p \in Procs |-> "idle"]
  BY <1>4 DEF Recent, Stored, Outcomes, Outcome
<1> QED
  BY <1>2, <1>3, <1>5 DEF Atomic!Init, Stored, Recent, Outcomes

(* Every call, failure, kill, edit and power loss is a step of AtomicStore, *)
(* or nobody sees it.                                                       *)
LEMMA StepShows ==
  ASSUME IInv, OneUndoes, [Next]_vars
  PROVE  AtomicStep
<1>1. ASSUME NEW p \in Procs, Write(p) PROVE AtomicStep
  BY <1>1, CreateShows, FillShows, ReplaceShows, DropShows, CommitShows DEF Write
<1>2. ASSUME NEW p \in Procs, Quarantine(p) PROVE AtomicStep
  BY <1>2, LinkShows, SyncBackupShows, UnlinkShows, DropBackupShows, SyncQuarantineShows
  DEF Quarantine
<1>3. ASSUME NEW p \in Procs, Restore(p) PROVE AtomicStep
  BY <1>3, RemoveShows, PutBackShows, SyncBackShows DEF Restore
<1>4. ASSUME NEW p \in Procs, LoadSnapshot(p) \/ Begin(p) \/ BeginFails(p) \/ Kill(p)
      PROVE  AtomicStep
  BY <1>4, LoadShows, BeginShows, BeginFailsShows, KillShows
<1>5. ASSUME NEW u \in UserDocs, UserEdit(u) PROVE AtomicStep
  BY <1>5, UserEditShows
<1>6. CASE UNCHANGED vars
  <2>1. Stored' = Stored /\ Recent' = Recent /\ Outcomes' = Outcomes
    BY <1>6 DEF vars, Stored, Recent, Outcomes, Outcome
  <2> QED
    BY <2>1, Unseen
<1> QED
  BY <1>1, <1>2, <1>3, <1>4, <1>5, <1>6, PowerLossShows DEF Next

(* StoreFiles implements AtomicStore: for any number of operations of any   *)
(* kind, failing calls, kills and power losses, callers see one document    *)
(* that is replaced in one step by one made of it, except by a repair, which *)
(* takes it away in one step and puts another in place in a second.          *)
THEOREM StoreIsAtomic == Spec => ImplementsAtomicStore
<1>1. Spec => []OneUndoes
  BY Inductive, UndoerInit, UndoerStep, PTL DEF Spec
<1>2. IInv /\ OneUndoes /\ [Next]_vars => [Atomic!Next]_(Atomic!atomicVars)
  BY StepShows DEF AtomicStep, Atomic!atomicVars, Stored, Recent, Outcomes
<1> QED
  BY <1>1, <1>2, Inductive, InitShows, PTL DEF Spec, ImplementsAtomicStore, Atomic!Spec
===============================================================================
