------------------------------ MODULE CertStore ------------------------------
(***************************************************************************)
(* The certs provider on one node (internal/modules/certs/certs.go with    *)
(* internal/bundle, internal/atomicfile and internal/hook): the serving    *)
(* directory of every lineage, four files each with its backup, written    *)
(* one after the other, and one verify-then-reload hook for all of them.   *)
(*                                                                         *)
(* The other nodes are abstracted to the record that the cluster holds and *)
(* lists for each lineage: they may publish a newer one at any time, and   *)
(* it may be lost.  The lock around the re-check and the Put of this node  *)
(* is the subject of LanSystem; here the two are one step.                 *)
(***************************************************************************)
EXTENDS AtomicFile, Faults, Sequences, FiniteSets

CONSTANTS
  Lineages,   \* certificate lineages
  Sources,    \* the lineages certbot keeps on this node
  Torn        \* the content of a backup that was copied only in part

(***************************************************************************)
(* None is not a lineage, a source is one, and a bundle has a certificate  *)
(* and a key: ReadLineage returns no other.                                *)
(***************************************************************************)
ASSUME BundlesAssumption ==
  /\ None \notin Lineages
  /\ Sources \subseteq Lineages
  /\ \A r \in Records : r.blobs["cert"] # None /\ r.blobs["key"] # None

VARIABLES
  local,     \* local[k]: the bundle certbot keeps here for lineage k, or None
  cluster,   \* cluster[k]: the record the cluster holds for lineage k, or None
  snap,      \* localByKey: the bundles as Local read them in this tick
  dir,       \* dir[k][f]: file f of the serving directory and its backup
  loaded,    \* loaded[k]: the files of lineage k the load balancer runs
  pc,        \* where the tick is
  todo,      \* lineages the current loop still has to visit
  cur,       \* the lineage being written or rolled back
  rec,       \* the record being written
  pos,       \* the next file of it
  replaced,  \* the files replaced in this tick
  changed,   \* lineages changed in this tick
  before,    \* the files as they were when the tick began
  gauge      \* gauge[k]: the expiry the process exports for lineage k, or None

recordVars == <<local, cluster, snap>>

vars == <<recordVars, dir, loaded, pc, todo, cur, rec, pos, replaced, changed,
          before, gauge, budgetVars>>

-----------------------------------------------------------------------------
\* The order in which WriteAtomic writes a bundle.
WriteOrder == <<"cert", "key", "chain", "full">>

\* The order in which RestoreDir meets the backups: by file name (cert.pem,
\* chain.pem, fullchain.pem, privkey.pem).
DirOrder == <<"cert", "chain", "full", "key">>

Files == {"cert", "key", "chain", "full"}

Contents(d) == [f \in Files |-> d[f].file]

EmptyDir == [f \in Files |-> [file |-> None, bak |-> None]]

Goto(where) == pc' = where

NoRecords == [k \in Lineages |-> None]

\* The locals of tickProvider go out of scope.
DropTick ==
  /\ snap' = NoRecords
  /\ todo' = {}
  /\ cur' = None
  /\ rec' = None
  /\ pos' = 1
  /\ replaced' = {}
  /\ changed' = {}

-----------------------------------------------------------------------------
(* The engine: what a tick visits, publishes and applies. *)

\* A tick begins with Local; a lineage that cannot be read is skipped.
StartTick ==
  /\ pc = "idle"
  /\ Goto("keys")
  /\ before' = [k \in Lineages |-> Contents(dir[k])]
  /\ \E unreadable \in SUBSET Sources :
       /\ snap' = [k \in Lineages |-> IF k \in unreadable THEN None ELSE local[k]]
       /\ IF unreadable = {} THEN NoFault ELSE Fault("read")
  /\ UNCHANGED <<local, cluster, dir, loaded, todo, cur, rec, pos, replaced, changed, gauge>>

LocalKeys == {k \in Lineages : snap[k] # None}

\* gatherKeys: an error of Keys leaves the local lineages.
GatherKeys ==
  /\ pc = "keys"
  /\ Goto("loop")
  /\ LET listed == {k \in Lineages : cluster[k] # None} IN
       \/ NoFault /\ todo' = LocalKeys \cup listed
       \/ Fault("keys") /\ listed # {} /\ todo' = LocalKeys
  /\ UNCHANGED <<recordVars, dir, loaded, cur, rec, pos, replaced, changed, before, gauge>>

\* Local lineages come first, in the order of a map range, then the others.
NextKeys == IF todo \cap LocalKeys # {} THEN todo \cap LocalKeys ELSE todo

\* The answers of Get the caller may see.
Get(k, r) ==
  \/ r = cluster[k] /\ NoFault
  \/ r = None /\ cluster[k] # None /\ Fault("get")

\* Variant of LookUp that counts the files to write from zero.
LookUpAtZero ==
  /\ pc = "loop"
  /\ \E k \in NextKeys, r \in RecordOrNone :
       /\ Get(k, r)
       /\ todo' = todo \ {k}
       /\ cur' = k
       /\ rec' = pickNewer(snap[k], r)
       /\ Goto(IF MustPublish(snap[k], r) THEN "publish" ELSE "apply")
  /\ pos' = 0
  /\ UNCHANGED <<recordVars, dir, loaded, replaced, changed, before, gauge>>

\* The loop's Get of the next lineage, and the record Apply will be called
\* with.  Without a record the loop goes on to the next lineage.
LookUp ==
  /\ pc = "loop"
  /\ \E k \in NextKeys, r \in RecordOrNone :
       /\ Get(k, r)
       /\ todo' = todo \ {k}
       /\ cur' = k
       /\ rec' = pickNewer(snap[k], r)
       /\ Goto(CASE MustPublish(snap[k], r) -> "publish"
                 [] snap[k] = None /\ r = None -> "loop"
                 [] OTHER -> "apply")
  /\ pos' = 1
  /\ UNCHANGED <<recordVars, dir, loaded, replaced, changed, before, gauge>>

\* maybePublish from its re-check on.  An unanswered re-check does not keep it
\* from publishing, and a Put that fails may have taken effect.
Publish ==
  /\ pc = "publish"
  /\ Goto("apply")
  /\ LET put == [cluster EXCEPT ![cur] = snap[cur]]
         newer == MustPublish(snap[cur], cluster[cur])
     IN  \/ Fault("get") /\ cluster' = put
         \/ IF newer THEN \/ NoFault /\ cluster' = put
                          \/ Fault("put") /\ cluster' \in {cluster, put}
                     ELSE NoFault /\ UNCHANGED cluster
  /\ UNCHANGED <<local, snap, dir, loaded, todo, cur, rec, pos, replaced, changed, before, gauge>>

-----------------------------------------------------------------------------
(* Apply *)

\* The file being written, its content in the record, and whether it is there.
File == WriteOrder[pos]
Data == rec.blobs[File]
Same == dir[cur][File].file = Data

\* Whether WriteAtomic has changed a file of the lineage at hand.
Dirty == \E f \in Files : <<cur, f>> \in replaced

\* Variant of WriteFile that never replaces a file.
WriteFileIfMissing ==
  /\ pc = "apply"
  /\ pos <= Len(WriteOrder)
  /\ pos' = pos + 1
  /\ IF Data = None \/ dir[cur][File].file # None
     THEN UNCHANGED <<dir, replaced>>
     ELSE /\ dir' = [dir EXCEPT ![cur][File] = WriteAtomic(@, Data, Same)]
          /\ replaced' = replaced \cup {<<cur, File>>}
  /\ UNCHANGED <<recordVars, loaded, pc, todo, cur, rec, changed, before, gauge, budgetVars>>

\* One file of bundle.WriteAtomic; a part the bundle does not have is skipped.
WriteFile ==
  /\ pc = "apply"
  /\ pos <= Len(WriteOrder)
  /\ pos' = pos + 1
  /\ IF Data = None
     THEN UNCHANGED <<dir, replaced>>
     ELSE /\ dir' = [dir EXCEPT ![cur][File] = WriteAtomic(@, Data, Same)]
          /\ replaced' = IF Same THEN replaced ELSE replaced \cup {<<cur, File>>}
  /\ UNCHANGED <<recordVars, loaded, pc, todo, cur, rec, changed, before, gauge, budgetVars>>

\* The file exists and cannot be read: WriteAtomic replaces it all the same,
\* without a backup.
WriteFileUnread ==
  /\ pc = "apply"
  /\ pos <= Len(WriteOrder)
  /\ Data # None /\ dir[cur][File].file # None
  /\ Fault("nobackup")
  /\ pos' = pos + 1
  /\ dir' = [dir EXCEPT ![cur][File] = WriteUnread(@, Data)]
  /\ replaced' = replaced \cup {<<cur, File>>}
  /\ UNCHANGED <<recordVars, loaded, pc, todo, cur, rec, changed, before, gauge>>

\* A backup that was copied only in part.
PartialBackup(d, same) ==
  IF same \/ d.file = None THEN {} ELSE {[d EXCEPT !.bak = Torn]}

\* What a write that fails or is cut short leaves of the file at hand.
Interrupted ==
  /\ pc = "apply" /\ pos <= Len(WriteOrder) /\ Data # None
  /\ \E d \in WriteAtomicFailed(dir[cur][File], Same) \cup PartialBackup(dir[cur][File], Same) :
       dir' = [dir EXCEPT ![cur][File] = d]

\* A write fails: Apply returns the error, the files before it stay written,
\* and the lineage does not count as changed.
WriteFileFails ==
  /\ Interrupted
  /\ Fault("apply")
  /\ Goto("loop")
  /\ UNCHANGED <<recordVars, loaded, todo, cur, rec, pos, replaced, changed, before, gauge>>

\* NotAfter.Set of the record's not_after, which is also its Secondary.
SetGauge == gauge' = [gauge EXCEPT ![cur] = rec.version.secondary]

\* Variant of ApplyReturns that counts a lineage as changed only when its
\* certificate was replaced.
ApplyReturnsCertOnly ==
  /\ pc = "apply"
  /\ pos > Len(WriteOrder)
  /\ Goto("loop")
  /\ IF before[cur]["cert"] # dir[cur]["cert"].file
     THEN changed' = changed \cup {cur} /\ SetGauge
     ELSE UNCHANGED <<changed, gauge>>
  /\ UNCHANGED <<recordVars, dir, loaded, todo, cur, rec, pos, replaced, before, budgetVars>>

\* All files written: a change is counted and the gauge set.
ApplyReturns ==
  /\ pc = "apply"
  /\ pos > Len(WriteOrder)
  /\ Goto("loop")
  /\ IF Dirty
     THEN changed' = changed \cup {cur} /\ SetGauge
     ELSE UNCHANGED <<changed, gauge>>
  /\ UNCHANGED <<recordVars, dir, loaded, todo, cur, rec, pos, replaced, before, budgetVars>>

\* Variant of EndLoop that calls Flush as soon as a lineage has changed.
EndLoopEarly ==
  /\ pc = "loop"
  /\ IF changed = {}
     THEN todo = {} /\ Goto("idle") /\ DropTick
     ELSE Goto("flush") /\ UNCHANGED <<snap, todo, cur, rec, pos, replaced, changed>>
  /\ UNCHANGED <<local, cluster, dir, loaded, before, gauge, budgetVars>>

\* All lineages visited: nothing changed ends the tick, otherwise Flush starts.
EndLoop ==
  /\ pc = "loop"
  /\ todo = {}
  /\ IF changed = {}
     THEN Goto("idle") /\ DropTick
     ELSE Goto("flush") /\ UNCHANGED <<snap, todo, cur, rec, pos, replaced, changed>>
  /\ UNCHANGED <<local, cluster, dir, loaded, before, gauge, budgetVars>>

\* Verify and reload succeed: the load balancer reads every lineage.
FlushOk ==
  /\ pc = "flush"
  /\ loaded' = [k \in Lineages |-> Contents(dir[k])]
  /\ Goto("idle")
  /\ DropTick
  /\ UNCHANGED <<local, cluster, dir, before, gauge, budgetVars>>

\* Verify or reload fails: the changed lineages are rolled back.
FlushFails ==
  /\ pc = "flush"
  /\ Fault("hook")
  /\ Goto("rollback")
  /\ todo' = changed
  /\ UNCHANGED <<recordVars, dir, loaded, cur, rec, pos, replaced, changed, before, gauge>>

BeginRollback ==
  /\ pc = "rollback"
  /\ Goto("restore")
  /\ \E k \in todo :
       /\ todo' = todo \ {k}
       /\ cur' = k
  /\ pos' = 1
  /\ UNCHANGED <<recordVars, dir, loaded, rec, replaced, changed, before, gauge, budgetVars>>

\* Variant of RestoreFile that stops before the last name of the directory.
RestoreFileShort ==
  /\ pc = "restore"
  /\ pos <= Len(DirOrder)
  /\ dir' = [dir EXCEPT ![cur][DirOrder[pos]] =
               IF pos = Len(DirOrder) THEN @ ELSE Restore(@)]
  /\ pos' = pos + 1
  /\ UNCHANGED <<recordVars, loaded, pc, todo, cur, rec, replaced, changed, before, gauge, budgetVars>>

\* RestoreDir renames every backup it finds, whenever it was made.
RestoreFile ==
  /\ pc = "restore"
  /\ pos <= Len(DirOrder)
  /\ dir' = [dir EXCEPT ![cur][DirOrder[pos]] = Restore(@)]
  /\ pos' = pos + 1
  /\ UNCHANGED <<recordVars, loaded, pc, todo, cur, rec, replaced, changed, before, gauge, budgetVars>>

\* A rename fails: the rest of the directory is left alone.
RestoreFileFails ==
  /\ pc = "restore"
  /\ pos <= Len(DirOrder)
  /\ dir[cur][DirOrder[pos]].bak # None
  /\ Fault("restore")
  /\ Goto("rollback")
  /\ UNCHANGED <<recordVars, dir, loaded, todo, cur, rec, pos, replaced, changed, before, gauge>>

RestoreReturns ==
  /\ pc = "restore"
  /\ pos > Len(DirOrder)
  /\ Goto("rollback")
  /\ UNCHANGED <<recordVars, dir, loaded, todo, cur, rec, pos, replaced, changed, before, gauge, budgetVars>>

RollbackReturns ==
  /\ pc = "rollback"
  /\ todo = {}
  /\ Goto("idle")
  /\ DropTick
  /\ UNCHANGED <<local, cluster, dir, loaded, before, gauge, budgetVars>>

TickStep ==
  \/ StartTick \/ GatherKeys \/ LookUp \/ Publish
  \/ WriteFile \/ WriteFileUnread \/ WriteFileFails \/ ApplyReturns
  \/ EndLoop \/ FlushOk \/ FlushFails
  \/ BeginRollback \/ RestoreFile \/ RestoreFileFails \/ RestoreReturns
  \/ RollbackReturns

\* The process stops, possibly in the middle of a write.
Crash ==
  /\ pc # "down"
  /\ Fault("crash")
  /\ Goto("down")
  /\ UNCHANGED dir \/ Interrupted
  /\ DropTick
  /\ gauge' = [k \in Lineages |-> None]
  /\ UNCHANGED <<local, cluster, loaded, before>>

Reboot ==
  /\ pc = "down"
  /\ Goto("idle")
  /\ UNCHANGED <<recordVars, dir, loaded, todo, cur, rec, pos, replaced, changed,
                 before, gauge, budgetVars>>

-----------------------------------------------------------------------------
(* The surroundings of the process. *)

\* Certbot replaces a bundle on this node, or removes it.
Renew ==
  /\ Renewal
  /\ \E k \in Sources, r \in RecordOrNone :
       /\ r # local[k]
       /\ local' = [local EXCEPT ![k] = r]
  /\ UNCHANGED <<cluster, snap, dir, loaded, pc, todo, cur, rec, pos, replaced, changed,
                 before, gauge>>

\* Another node publishes a bundle that wins.
OtherPublishes ==
  /\ Renewal
  /\ \E k \in Lineages, r \in Records :
       /\ ~NotNewerThan(r, cluster[k])
       /\ cluster' = [cluster EXCEPT ![k] = r]
  /\ UNCHANGED <<local, snap, dir, loaded, pc, todo, cur, rec, pos, replaced, changed,
                 before, gauge>>

\* The cluster loses records: with a member and its replicas, with the last
\* member, or with the store of a WAN backend.
RecordsLost ==
  /\ Fault("lose")
  /\ \E lost \in SUBSET {k \in Lineages : cluster[k] # None} :
       /\ lost # {}
       /\ cluster' = [k \in Lineages |-> IF k \in lost THEN None ELSE cluster[k]]
  /\ UNCHANGED <<local, snap, dir, loaded, pc, todo, cur, rec, pos, replaced, changed,
                 before, gauge>>

Init ==
  /\ local \in {l \in [Lineages -> RecordOrNone] : \A k \in Lineages \ Sources : l[k] = None}
  /\ cluster \in [Lineages -> RecordOrNone]
  /\ snap = NoRecords
  /\ dir = [k \in Lineages |-> EmptyDir]
  /\ loaded = [k \in Lineages |-> Contents(EmptyDir)]
  /\ pc = "idle" /\ todo = {} /\ cur = None /\ rec = None /\ pos = 1
  /\ replaced = {} /\ changed = {}
  /\ before = [k \in Lineages |-> Contents(EmptyDir)]
  /\ gauge = [k \in Lineages |-> None]
  /\ BudgetInit

Next == TickStep \/ Crash \/ Reboot \/ Renew \/ OtherPublishes \/ RecordsLost

Spec == Init /\ [][Next]_vars

\* The engine keeps ticking and the service manager restarts the process.
FairSpec == Spec /\ WF_vars(TickStep) /\ WF_vars(Reboot)

-----------------------------------------------------------------------------
(* Safety *)

FileContents == {None, Torn} \cup {r.blobs[f] : r \in Records, f \in Files}

\* The types of all state of the certificate store.
CertTypeOK ==
  /\ local \in [Lineages -> RecordOrNone]
  /\ cluster \in [Lineages -> RecordOrNone]
  /\ snap \in [Lineages -> RecordOrNone]
  /\ dir \in [Lineages -> [Files -> [file : FileContents, bak : FileContents]]]
  /\ loaded \in [Lineages -> [Files -> FileContents]]
  /\ pc \in {"idle", "keys", "loop", "publish", "apply", "flush", "rollback", "restore", "down"}
  /\ todo \in SUBSET Lineages
  /\ cur \in Lineages \cup {None}
  /\ rec \in RecordOrNone
  /\ pos \in 1 .. 5
  /\ replaced \in SUBSET (Lineages \X Files)
  /\ changed \in SUBSET Lineages
  /\ before \in [Lineages -> [Files -> FileContents]]
  /\ gauge \in [Lineages -> Int \cup {None}]
  /\ BudgetTypeOK

RolledBack == pc = "rollback" /\ todo = {}

(***************************************************************************)
(* The load balancer never loads a certificate with the key of another     *)
(* bundle, although the two files are replaced one after the other and the *)
(* process may stop, or a rollback fail, between them: a reload follows    *)
(* only on a tick that went over every lineage with files here, because    *)
(* what is applied is in the cluster or published first.  Needs Apply, the *)
(* reads and the Puts of the cluster not to fail and its records not to be *)
(* lost; a source that cannot be read, or is removed, does not matter.     *)
(***************************************************************************)
ReloadsMatchingPair ==
  NoFaultsOf({"apply", "get", "keys", "put", "lose"}) =>
    \A k \in Lineages :
      loaded[k]["cert"] # None =>
        \E r \in Records : /\ r.blobs["cert"] = loaded[k]["cert"]
                           /\ r.blobs["key"] = loaded[k]["key"]

(***************************************************************************)
(* After a rollback every file that this tick had replaced, of whatever    *)
(* lineage, is back to what it was when the tick began, also when an       *)
(* earlier tick was interrupted.  Needs the renames of the rollback and    *)
(* the writes of the tick to succeed, and the files it replaced to have    *)
(* been readable: see RollbackUndoesTick for a write that fails.           *)
(***************************************************************************)
ReplacedFilesRestored ==
  NoFaultsOf({"restore", "apply", "nobackup"}) /\ RolledBack =>
    \A k \in Lineages, f \in Files :
      <<k, f>> \in replaced /\ before[k][f] # None => dir[k][f].file = before[k][f]

(***************************************************************************)
(* A tick that reaches its end leaves no lineage with files that were      *)
(* never loaded, except as it found it: what a process that was stopped    *)
(* between Apply and Flush had replaced stays behind (the next tick sees   *)
(* nothing to change), and nothing joins it.  Needs hooks and Apply not to *)
(* fail.                                                                   *)
(***************************************************************************)
TickLeavesNothingUnloaded ==
  [][NoFaultsOf({"hook", "apply"}) /\ pc \notin {"idle", "down"} /\ pc' = "idle" =>
       \A k \in Lineages :
         \/ loaded'[k] = Contents(dir'[k])
         \/ loaded[k] # before[k] /\ before[k] = Contents(dir'[k])]_vars

-----------------------------------------------------------------------------
(* Liveness *)

\* The bundle that wins for a lineage.
Best(k) == pickNewer(local[k], cluster[k])

(***************************************************************************)
(* Whatever fails, every lineage ends up with all files of the bundle that *)
(* wins for it: writes that failed or were rolled back are made again.     *)
(***************************************************************************)
ServesBest ==
  \A k \in Lineages, f \in Files :
    <>[](Best(k) = None \/ Best(k).blobs[f] \in {None, dir[k][f].file})

(***************************************************************************)
(* Failed writes are not forgotten: a lineage of which only some files     *)
(* could be written is completed and then loaded, although the failing     *)
(* Apply did not count it as changed.  Without failing hooks and crashes,  *)
(* and with a record that does not disappear meanwhile.                    *)
(***************************************************************************)
FilesGetLoaded ==
  \A k \in Lineages :
    <>[](NoFaultsOf({"hook", "crash", "restore", "put", "lose"}) =>
           loaded[k] = Contents(dir[k]))

(***************************************************************************)
(* The exported expiry ends up that of the certificate in the serving      *)
(* directory, although a failed Apply does not set it and a rollback does  *)
(* not take it back.  Without restarts: a new process exports nothing for  *)
(* a lineage until its files change; and with a record that stays.         *)
(***************************************************************************)
GaugeShowsServed ==
  \A k \in Lineages :
    <>[](NoFaultsOf({"crash", "put", "lose"}) /\ dir[k]["cert"].file # None =>
           \E r \in Records : /\ r.blobs["cert"] = dir[k]["cert"].file
                              /\ r.version.secondary = gauge[k])

-----------------------------------------------------------------------------
(* What comments in the code say, and the code does not do. *)

(***************************************************************************)
(* engine.go, Provider: "Rollback restores the given keys to their         *)
(* pre-tick on-disk copy".                                                 *)
(***************************************************************************)
RollbackRestoresTick ==
  RolledBack =>
    \A k \in changed, f \in Files :
      before[k][f] # None => dir[k][f].file = before[k][f]

(***************************************************************************)
(* README.md: "If the verify command fails, the tick's writes are rolled   *)
(* back to the previous on-disk copy".                                     *)
(***************************************************************************)
WritesRolledBack ==
  RolledBack =>
    \A k \in Lineages, f \in Files :
      <<k, f>> \in replaced /\ before[k][f] # None => dir[k][f].file = before[k][f]

\* The two as one claim, so that one behaviour refutes both.
RollbackUndoesTick == RollbackRestoresTick \/ WritesRolledBack

(***************************************************************************)
(* hook.go, Run: "a reload failure also returns an error so it is retried  *)
(* on the next tick".                                                      *)
(***************************************************************************)
FailedReloadRetried ==
  \A k \in Lineages : <>[](loaded[k] = Contents(dir[k]))
=============================================================================
