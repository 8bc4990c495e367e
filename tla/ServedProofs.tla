---------------------------- MODULE ServedProofs ----------------------------
(***************************************************************************)
(* Proofs about what the nodes of a LAN deployment serve: never anything   *)
(* newer than the cluster holds, and never something older than before     *)
(* unless a rollback brought it back.                                      *)
(***************************************************************************)
EXTENDS LanProofs

\* maybePublish has made sure of the local record.
Ensured(n) == pc[n] \in {"unlock", "apply"} \/ (pc[n] = "put" /\ call[n] # "none")

\* The process runs; the destination files and their backups, the answer of
\* the first Get, and the local record once maybePublish has dealt with it, are
\* at most as new as the cluster's record; and what is served is at most as new
\* as the answer of that Get, although others publish after it.
NodeServed(n) ==
  /\ pc[n] # "down"
  /\ \A k \in Keys : /\ NotNewerThan(disk[n][k].file, dmap[k])
                     /\ NotNewerThan(disk[n][k].bak, dmap[k])
  /\ pc[n] \in InLoop => /\ NotNewerThan(clusterR[n], dmap[key[n]])
                         /\ NotNewerThan(disk[n][key[n]].file, clusterR[n])
  /\ Ensured(n) => NotNewerThan(snap[n][key[n]], dmap[key[n]])

ServedInv == TypeInv /\ PublishSafe /\ (ClusterKeeps => \A n \in Nodes : NodeServed(n))

\* Nothing is served at the start.
LEMMA ServedInvInit == LanInit => ServedInv
<1> SUFFICES ASSUME LanInit
             PROVE  \A n \in Nodes : NodeServed(n)
  BY PublishInvInit DEF PublishInv, ServedInv
<1> QED
  BY DEF LanInit, EngineInit, ProviderInit, NodeServed, NotNewerThan, InLoop, Ensured

\* The test of maybePublish fails only when the cluster is up to date.
LEMMA NothingToPublish ==
  ASSUME NEW l, NEW r, ~MustPublish(l, r)
  PROVE  NotNewerThan(l, r)
BY DEF MustPublish, NotNewerThan

\* A node that a step leaves alone, while the cluster's records get newer.
LEMMA OthersServed ==
  ASSUME TypeInv, TypeInv', NEW n \in Nodes, NodeServed(n),
         pc'[n] = pc[n], key'[n] = key[n], snap'[n] = snap[n], clusterR'[n] = clusterR[n],
         disk'[n] = disk[n], call'[n] = call[n],
         \A k \in Keys : NotNewerThan(dmap[k], dmap'[k])
  PROVE  NodeServed(n)'
<1>1. \A k \in Keys : /\ dmap[k] \in RecordOrNone /\ dmap'[k] \in RecordOrNone
                      /\ snap[n][k] \in RecordOrNone /\ disk[n][k] \in Disk
  BY DEF TypeInv, EngineInv, EngineTypeOK, ProviderTypeOK, OlricTypeOK
<1>2. clusterR[n] \in RecordOrNone /\ (pc[n] \in InLoop => key[n] \in Keys)
  BY DEF TypeInv, EngineInv, EngineTypeOK, KeyInScope, InLoop
<1>3. \A k \in Keys, r \in RecordOrNone : NotNewerThan(r, dmap[k]) => NotNewerThan(r, dmap'[k])
  BY <1>1, NotNewerThanTransitive
<1>4. \A k \in Keys : disk[n][k].file \in RecordOrNone /\ disk[n][k].bak \in RecordOrNone
  BY <1>1 DEF Disk
<1>5. \A k \in Keys : NotNewerThan(disk'[n][k].file, dmap'[k]) /\ NotNewerThan(disk'[n][k].bak, dmap'[k])
  BY <1>3, <1>4 DEF NodeServed
<1>6. pc[n] \in InLoop => NotNewerThan(clusterR[n], dmap'[key[n]])
  BY <1>2, <1>3 DEF NodeServed
<1>7. Ensured(n)' => NotNewerThan(snap[n][key[n]], dmap'[key[n]])
  BY <1>1, <1>2, <1>3 DEF NodeServed, Ensured, InLoop
<1> QED
  BY <1>5, <1>6, <1>7 DEF NodeServed

\* Apply of the better of the two records the tick knows: what is served does
\* not get older, and stays at most as new as the cluster's record.
LEMMA ApplyServed ==
  ASSUME TypeInv, NEW n \in Nodes, NodeServed(n), ApplyBest(n)
  PROVE  \A k \in Keys : /\ NotNewerThan(disk'[n][k].file, dmap[k])
                         /\ NotNewerThan(disk'[n][k].bak, dmap[k])
                         /\ NotNewerThan(disk[n][k].file, disk'[n][k].file)
<1> DEFINE k0 == key[n]
           b == Best(n)
<1>1. /\ pc[n] = "apply" /\ k0 \in Keys /\ disk \in [Nodes -> [Keys -> Disk]]
      /\ clusterR[n] \in RecordOrNone /\ snap[n][k0] \in RecordOrNone
      /\ dmap[k0] \in RecordOrNone
  BY DEF ApplyBest, TypeInv, EngineInv, EngineTypeOK, KeyInScope, ProviderTypeOK, OlricTypeOK
<1>2. \A k \in Keys : disk[n][k].file \in RecordOrNone /\ disk[n][k].bak \in RecordOrNone
  BY <1>1 DEF Disk
<1>3. b \in RecordOrNone /\ NotNewerThan(b, dmap[k0])
  BY <1>1, PickNewerIsNewest DEF Best, NodeServed, InLoop, Ensured
<1>4. NotNewerThan(disk[n][k0].file, b)
  <2>1. NotNewerThan(disk[n][k0].file, clusterR[n]) /\ NotNewerThan(clusterR[n], b)
    BY <1>1, PickNewerIsNewest DEF Best, NodeServed, InLoop
  <2> QED
    BY <1>1, <1>2, <1>3, <2>1, NotNewerThanTransitive
<1>5. \/ disk' = disk
      \/ \E d : /\ disk' = [disk EXCEPT ![n][k0] = d]
                /\ d.file \in {disk[n][k0].file, b}
                /\ d.bak \in {disk[n][k0].file, disk[n][k0].bak}
  <2>1. \/ disk' = disk
        \/ disk' = [disk EXCEPT ![n][k0] = WriteTo(disk[n][k0], b)]
        \/ disk' = [disk EXCEPT ![n][k0] = WriteUnread(disk[n][k0], b)]
        \/ \E d \in WriteAtomicFailed(disk[n][k0], SameBytes(disk[n][k0].file, b)) :
             disk' = [disk EXCEPT ![n][k0] = d]
    BY DEF ApplyBest, Apply, ApplyFailed, ApplyUnread
  <2>2. disk[n][k0] \in Disk
    BY <1>1
  <2>3. /\ WriteTo(disk[n][k0], b).file \in {disk[n][k0].file, b}
        /\ WriteTo(disk[n][k0], b).bak \in {disk[n][k0].file, disk[n][k0].bak}
    BY <2>2 DEF WriteTo, WriteAtomic, Backup, Disk
  <2>4. /\ WriteUnread(disk[n][k0], b).file = b
        /\ WriteUnread(disk[n][k0], b).bak = disk[n][k0].bak
    BY <2>2 DEF WriteUnread, Disk
  <2>5. \A d \in WriteAtomicFailed(disk[n][k0], SameBytes(disk[n][k0].file, b)) :
          d.file = disk[n][k0].file /\ d.bak \in {disk[n][k0].file, disk[n][k0].bak}
    BY <2>2 DEF WriteAtomicFailed, Backup, Disk
  <2> HIDE DEF b, k0
  <2> QED
    BY <2>1, <2>3, <2>4, <2>5
<1>6. \A k \in Keys : NotNewerThan(disk[n][k].file, disk[n][k].file)
  BY <1>2, NotNewerThanReflexive
<1> HIDE DEF b, k0
<1> QED
  BY <1>1, <1>3, <1>4, <1>5, <1>6 DEF NodeServed

\* A rollback puts the backup in the place of the file.
LEMMA RollbackServed ==
  ASSUME TypeInv, NEW n \in Nodes, NodeServed(n), RollbackResource(n)
  PROVE  \A k \in Keys : /\ NotNewerThan(disk'[n][k].file, dmap[k])
                         /\ NotNewerThan(disk'[n][k].bak, dmap[k])
<1>1. disk \in [Nodes -> [Keys -> Disk]] /\ todo[n] \subseteq Keys
  BY DEF TypeInv, EngineInv, EngineTypeOK, ProviderTypeOK
<1>2. CASE UNCHANGED disk
  BY <1>2 DEF NodeServed
<1>3. ASSUME NEW k \in todo[n], Rollback(n, k)
      PROVE  \A j \in Keys : /\ NotNewerThan(disk'[n][j].file, dmap[j])
                             /\ NotNewerThan(disk'[n][j].bak, dmap[j])
  BY <1>1, <1>3 DEF Rollback, Restore, NodeServed, NotNewerThan
<1> QED
  BY <1>2, <1>3 DEF RollbackResource

\* The steps of a tick that do not call the backend.
LEMMA EngineOnlyServed ==
  ASSUME TypeInv, TypeInv', NEW n \in Nodes, NodeServed(n), LanEngineOnly(n), call[n] = "none"
  PROVE  NodeServed(n)'
<1> USE DEF Goto, InLoop, Ensured
<1>a. UNCHANGED <<dmap, call>> /\ pc \in [Nodes -> PCs]
  BY DEF LanEngineOnly, olricVars, TypeInv, EngineInv, EngineTypeOK
<1>b. pc'[n] \notin InLoop /\ pc'[n] # "down"
  BY <1>a DEF LanEngineOnly, EngineOnlyStep, ReadLocal, ApplyBest, EndLoop, FlushResource,
         FlushReturned, RollbackResource, RollbackReturned
<1>c. \A k \in Keys : NotNewerThan(disk'[n][k].file, dmap[k]) /\ NotNewerThan(disk'[n][k].bak, dmap[k])
  <2>1. CASE ApplyBest(n)
    BY <2>1, ApplyServed
  <2>2. CASE RollbackResource(n)
    BY <2>2, RollbackServed
  <2>3. CASE UNCHANGED disk
    BY <2>3 DEF NodeServed
  <2> QED
    BY <2>1, <2>2, <2>3 DEF LanEngineOnly, EngineOnlyStep, ReadLocal, EndLoop, FlushResource,
         FlushReturned, RollbackReturned, providerVars
<1> QED
  BY <1>a, <1>b, <1>c DEF NodeServed

\* The steps that call the backend; Get answers, and Put does not fail.
LEMMA CallsServed ==
  ASSUME ClusterKeeps, LanInv, TypeInv', NEW n \in Nodes, NodeServed(n),
         NodeStep(n), ~LanEngineOnly(n),
         \A k \in Keys : NotNewerThan(dmap[k], dmap'[k])
  PROVE  NodeServed(n)'
<1>a. /\ pc \in [Nodes -> PCs] /\ key \in [Nodes -> Keys \cup {None}]
      /\ clusterR \in [Nodes -> RecordOrNone] /\ snap \in [Nodes -> [Keys -> RecordOrNone]]
      /\ dmap \in [Keys -> RecordOrNone] /\ call \in [Nodes -> Calls]
      /\ disk \in [Nodes -> [Keys -> Disk]]
      /\ pc[n] \in InLoop => key[n] \in Keys
  BY DEF LanInv, TypeInv, EngineInv, EngineTypeOK, ProviderTypeOK, OlricTypeOK, KeyInScope, InLoop
<1>b. disk' = disk
  BY DEF NodeStep, LanKeys, LanGet, LanLock, LanRecheck, LanPutRecord, LanPutFails,
         LanAddToIndex, LanPutReturns, LanUnlock, GatherKeys, GetRecord, LockReturned, Recheck,
         PutReturned, Published, providerVars
<1>1. CASE LanKeys(n)
  <2>1. pc'[n] = "loop" /\ UNCHANGED dmap
    BY <1>1, <1>a DEF LanKeys, GatherKeys, Goto, olricVars
  <2> QED
    BY <1>b, <2>1 DEF NodeServed, InLoop, Ensured
<1>2. CASE LanGet(n)
  <2>1. PICK k \in Keys, r \in RecordOrNone : Get(k, r) /\ GetRecord(n, k, r)
    BY <1>2 DEF LanGet
  <2>2. r = dmap[k]
    BY <2>1 DEF Get, Fault, ClusterKeeps, LocksHold, NoFaultsOf
  <2>3. /\ key'[n] = k /\ clusterR'[n] = dmap[k] /\ snap' = snap
        /\ pc[n] = "loop"
        /\ pc'[n] = IF MustPublish(snap[n][k], dmap[k]) THEN "lock" ELSE "apply"
    BY <1>a, <2>1, <2>2 DEF GetRecord, Goto
  <2>4. UNCHANGED <<dmap, call>>
    BY <1>2 DEF LanGet, olricVars
  <2>5. NotNewerThan(dmap[k], dmap[k])
    BY <1>a, NotNewerThanReflexive
  <2>6. pc'[n] = "apply" => NotNewerThan(snap[n][k], dmap[k])
    BY <2>3, NothingToPublish
  <2> QED
    BY <1>b, <2>3, <2>4, <2>5, <2>6 DEF NodeServed, InLoop, Ensured
<1>3. CASE LanLock(n)
  <2>1. /\ pc[n] = "lock" /\ pc'[n] = "recheck"
        /\ UNCHANGED <<key, clusterR, dmap>>
    BY <1>3, <1>a DEF LanLock, LockReturned, Goto, tickVars
  <2> QED
    BY <1>b, <2>1 DEF NodeServed, InLoop, Ensured
<1>4. CASE LanRecheck(n)
  <2>1. /\ pc[n] = "recheck" /\ UNCHANGED <<key, clusterR, snap, dmap, call>>
        /\ pc'[n] = IF MustPublish(snap[n][key[n]], dmap[key[n]]) THEN "put" ELSE "unlock"
    BY <1>4, <1>a DEF LanRecheck, Recheck, Get, Goto, tickVars, olricVars, Fault, ClusterKeeps,
                      LocksHold, NoFaultsOf
  <2>2. call[n] = "none"
    BY <2>1 DEF LanInv, Protected, CriticalSection
  <2>3. pc'[n] = "unlock" => NotNewerThan(snap[n][key[n]], dmap[key[n]])
    BY <2>1, NothingToPublish
  <2> QED
    BY <1>b, <2>1, <2>2, <2>3 DEF NodeServed, InLoop, Ensured
<1>5. CASE LanPutRecord(n)
  <2>1. /\ pc[n] = "put" /\ UNCHANGED <<pc, key, clusterR, snap>>
        /\ dmap' = [dmap EXCEPT ![key[n]] = snap[n][key[n]]]
    BY <1>5 DEF LanPutRecord, PutRecord, tickVars
  <2>2. key[n] \in Keys
    BY <1>a, <2>1 DEF InLoop
  <2>3. NotNewerThan(snap[n][key[n]], dmap'[key[n]])
    BY <1>a, <2>1, <2>2, NotNewerThanReflexive
  <2>4. \A k \in Keys, r \in RecordOrNone : NotNewerThan(r, dmap[k]) => NotNewerThan(r, dmap'[k])
    BY <1>a, <2>1, <2>2, NotNewerThanTransitive
  <2>5. \A k \in Keys : NotNewerThan(disk[n][k].file, dmap'[k]) /\ NotNewerThan(disk[n][k].bak, dmap'[k])
    BY <1>a, <2>4 DEF NodeServed, Disk
  <2>6. NotNewerThan(clusterR[n], dmap'[key[n]]) /\ NotNewerThan(disk[n][key[n]].file, clusterR[n])
    BY <1>a, <2>1, <2>2, <2>4 DEF NodeServed, InLoop
  <2> QED
    BY <1>b, <2>1, <2>3, <2>5, <2>6 DEF NodeServed, InLoop
<1>6. CASE LanPutFails(n)
  BY <1>6 DEF LanPutFails, PutRecordFails, Fault, ClusterKeeps, NoFaultsOf
<1>7. CASE LanAddToIndex(n)
  <2>1. pc[n] = "put" /\ call[n] # "none" /\ UNCHANGED <<pc, key, clusterR, snap, dmap>>
    BY <1>7 DEF LanAddToIndex, LockIndex, ReadIndex, PutIndex, tickVars
  <2> QED
    BY <1>b, <2>1 DEF NodeServed, InLoop, Ensured
<1>8. CASE LanPutReturns(n)
  <2>1. /\ pc[n] = "put" /\ pc'[n] = "unlock" /\ call[n] # "none"
        /\ UNCHANGED <<key, clusterR, snap, dmap>>
    BY <1>8, <1>a DEF LanPutReturns, UnlockIndex, PutReturned, Goto, tickVars
  <2> QED
    BY <1>b, <2>1 DEF NodeServed, InLoop, Ensured
<1>9. CASE LanUnlock(n)
  <2>1. pc[n] = "unlock" /\ pc'[n] = "apply" /\ UNCHANGED <<key, clusterR, snap, dmap>>
    BY <1>9, <1>a DEF LanUnlock, Published, Goto, tickVars
  <2> QED
    BY <1>b, <2>1 DEF NodeServed, InLoop, Ensured
<1> QED
  BY <1>1, <1>2, <1>3, <1>4, <1>5, <1>6, <1>7, <1>8, <1>9 DEF NodeStep

\* A step of one node's tick leaves the tick and the files of the others alone.
LEMMA OthersUntouched ==
  ASSUME TypeInv, NEW n \in Nodes, NodeStep(n), NEW m \in Nodes, m # n
  PROVE  /\ pc'[m] = pc[m] /\ key'[m] = key[m] /\ snap'[m] = snap[m]
         /\ clusterR'[m] = clusterR[m] /\ disk'[m] = disk[m] /\ call'[m] = call[m]
<1> USE DEF TypeInv, EngineInv, EngineTypeOK, ProviderTypeOK, OlricTypeOK, Goto, tickVars
<1>1. call'[m] = call[m]
  BY DEF NodeStep, LanEngineOnly, LanKeys, LanGet, LanLock, LanRecheck, LanPutRecord, PutRecord,
         LanPutFails, PutRecordFails, LanAddToIndex, LockIndex, ReadIndex, PutIndex,
         LanPutReturns, UnlockIndex, LanUnlock, olricVars
<1>2. CASE LanEngineOnly(n)
  <2>1. CASE ReadLocal(n) \/ EndLoop(n) \/ FlushReturned(n) \/ RollbackReturned(n)
    BY <1>1, <2>1 DEF ReadLocal, EndLoop, FlushReturned, RollbackReturned, DropTick, providerVars
  <2>2. CASE FlushResource(n)
    BY <1>1, <2>2 DEF FlushResource
  <2>3. CASE ApplyBest(n)
    BY <1>1, <2>3 DEF ApplyBest, Apply, ApplyFailed, ApplyUnread
  <2>4. CASE RollbackResource(n)
    BY <1>1, <2>4 DEF RollbackResource, Rollback
  <2> QED
    BY <1>2, <2>1, <2>2, <2>3, <2>4 DEF LanEngineOnly, EngineOnlyStep
<1>3. CASE LanKeys(n) \/ LanGet(n) \/ LanLock(n) \/ LanRecheck(n)
  BY <1>1, <1>3 DEF LanKeys, LanGet, LanLock, LanRecheck, GatherKeys, GetRecord, LockReturned,
                    Recheck, providerVars
<1>4. CASE \/ LanPutRecord(n) \/ LanPutFails(n) \/ LanAddToIndex(n) \/ LanPutReturns(n)
           \/ LanUnlock(n)
  BY <1>1, <1>4 DEF LanPutRecord, LanPutFails, LanAddToIndex, LanPutReturns, LanUnlock,
                    PutReturned, Published, providerVars
<1> QED
  BY <1>2, <1>3, <1>4 DEF NodeStep

\* Every step keeps ServedInv.
LEMMA ServedInvStep == ServedInv /\ [LanNext]_vars => ServedInv'
<1> SUFFICES ASSUME ServedInv, [LanNext]_vars
             PROVE  ServedInv'
  OBVIOUS
<1>1. TypeInv' /\ PublishSafe'
  BY PublishInvStep DEF ServedInv, PublishInv
<1>2. ClusterKeeps' => ClusterKeeps
  BY AllowedStep DEF ClusterKeeps, LocksHold, NoFaultsOf
<1>3. ASSUME ClusterKeeps, NEW m \in Nodes
      PROVE  NodeServed(m)'
  <2>a. LanInv /\ LocksHold /\ NodeServed(m) /\ \A i \in Nodes : NodeServed(i)
    BY <1>3 DEF ServedInv, PublishSafe, LanInv, ClusterKeeps
  <2>b. TypeInv /\ TypeInv'
    BY <1>1 DEF ServedInv
  <2>c. \A k \in Keys : dmap[k] \in RecordOrNone
    BY <2>b DEF TypeInv, OlricTypeOK
  <2>d. ~Fault("crash")
    BY <1>3 DEF ClusterKeeps, NoFaultsOf, Fault
  <2>1. ASSUME NEW n \in Nodes, NodeStep(n)
        PROVE  NodeServed(m)'
    <3>1. m \in Up'
      <4>1. Up' = Up
        BY <2>1, <2>b, NodeKeepsUp
      <4> QED
        BY <4>1, <2>a DEF Up, NodeServed
    <3>2. \A k \in Keys : NotNewerThan(dmap[k], dmap'[k])
      BY <2>a, <3>1, RecordStep
    <3>3. CASE m # n
      BY <2>1, <2>a, <2>b, <3>2, <3>3, OthersUntouched, OthersServed
    <3>4. CASE m = n /\ LanEngineOnly(n)
      <4>1. pc[n] # "put"
        BY <3>4 DEF LanEngineOnly, EngineOnlyStep, ReadLocal, ApplyBest, EndLoop, FlushResource,
                    FlushReturned, RollbackResource, RollbackReturned
      <4>2. call[n] = "none"
        BY <2>a, <4>1 DEF LanInv, Protected, CriticalSection
      <4> QED
        BY <2>a, <2>b, <3>4, <4>2, EngineOnlyServed
    <3>5. CASE m = n /\ ~LanEngineOnly(n)
      BY <1>3, <2>1, <2>a, <2>b, <3>2, <3>5, CallsServed
    <3> QED
      BY <3>3, <3>4, <3>5
  <2>2. CASE \E n \in Nodes : LanCrash(n) \/ LanRestart(n)
    BY <2>2, <2>a, <2>d DEF LanCrash, Crash, LanRestart, Restart, NodeServed
  <2>3. CASE UNCHANGED <<pc, key, snap, clusterR, disk, call, dmap>>
    <3>1. \A k \in Keys : NotNewerThan(dmap[k], dmap'[k])
      BY <2>3, <2>c, NotNewerThanReflexive
    <3> QED
      BY <2>3, <2>a, <2>b, <3>1, OthersServed
  <2>4. CASE \E n \in Nodes : LanRenew(n)
    BY <2>3, <2>4 DEF LanRenew, Renew, tickVars, olricVars
  <2>5. CASE \E l \in Locks : LanExpire(l)
    BY <2>3, <2>5 DEF LanExpire, LockExpires, tickVars, providerVars
  <2>6. CASE LanLose
    BY <2>6, <2>a DEF LanLose, EntryLost, Fault, LocksHold, NoFaultsOf
  <2>7. CASE UNCHANGED vars
    BY <2>3, <2>7 DEF vars, engineVars, tickVars, providerVars, olricVars
  <2> QED
    BY <2>1, <2>2, <2>4, <2>5, <2>6, <2>7 DEF LanNext
<1> QED
  BY <1>1, <1>2, <1>3 DEF ServedInv

(***************************************************************************)
(* No node serves anything newer than what the cluster holds, for every    *)
(* number of nodes and keys, while locks hold, Get and Put succeed and     *)
(* processes run: tickProvider applies after maybePublish.                 *)
(***************************************************************************)
THEOREM LanServedInCluster == LanSpec => []ServedInCluster
<1>1. ServedInv => ServedInCluster
  BY DEF ServedInv, NodeServed, ServedInCluster
<1> QED
  BY <1>1, ServedInvInit, ServedInvStep, PTL DEF LanSpec

\* What one step does to a destination file.
LEMMA ServedStep ==
  ASSUME ServedInv, [LanNext]_vars, ClusterKeeps, NEW m \in Nodes, NEW k \in Keys
  PROVE  NotNewerThan(disk[m][k].file, disk'[m][k].file) \/ pc[m] = "rollback"
<1>a. TypeInv /\ NodeServed(m) /\ ~Fault("crash")
  BY DEF ServedInv, ClusterKeeps, NoFaultsOf, Fault
<1>b. NotNewerThan(disk[m][k].file, disk[m][k].file)
  BY <1>a, NotNewerThanReflexive DEF TypeInv, EngineInv, EngineTypeOK, ProviderTypeOK, Disk
<1>1. CASE disk'[m] = disk[m]
  BY <1>b, <1>1
<1>2. ASSUME NEW n \in Nodes, NodeStep(n)
      PROVE  NotNewerThan(disk[m][k].file, disk'[m][k].file) \/ pc[m] = "rollback"
  <2>1. CASE m # n
    BY <1>a, <1>1, <1>2, <2>1, OthersUntouched
  <2>2. CASE m = n /\ ApplyBest(n)
    BY <1>a, <2>2, ApplyServed
  <2>3. CASE m = n /\ RollbackResource(n)
    BY <2>3 DEF RollbackResource
  <2>4. CASE UNCHANGED disk
    BY <1>1, <2>4
  <2> QED
    BY <1>2, <2>1, <2>2, <2>3, <2>4
       DEF NodeStep, LanEngineOnly, EngineOnlyStep, ReadLocal, EndLoop, FlushResource,
           FlushReturned, RollbackReturned, LanKeys, LanGet, LanLock, LanRecheck, LanPutRecord,
           LanPutFails, LanAddToIndex, LanPutReturns, LanUnlock, GatherKeys, GetRecord,
           LockReturned, Recheck, PutReturned, Published, providerVars
<1>3. CASE UNCHANGED disk
  BY <1>1, <1>3
<1>4. CASE \E n \in Nodes : LanCrash(n)
  BY <1>a, <1>4 DEF LanCrash, Crash
<1> QED
  BY <1>2, <1>3, <1>4
     DEF LanNext, LanRestart, Restart, LanRenew, Renew, LanExpire, LanLose, vars, engineVars,
         providerVars

(***************************************************************************)
(* A tick never replaces what a node serves by an older record, although   *)
(* Apply uses the answer of a Get made before the publish; only a rollback *)
(* does (pickNewer, Apply).                                                *)
(***************************************************************************)
THEOREM LanServedNeverRegresses == LanSpec => ServedNeverRegresses
<1>1. ServedInv /\ [LanNext]_vars
        => [ClusterKeeps =>
              \A n \in Nodes, k \in Keys :
                NotNewerThan(disk[n][k].file, disk'[n][k].file) \/ pc[n] = "rollback"]_vars
  BY ServedStep
<1> QED
  BY <1>1, ServedInvInit, ServedInvStep, PTL DEF LanSpec, ServedNeverRegresses
=============================================================================
