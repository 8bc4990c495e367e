------------------------------ MODULE LanProofs ------------------------------
(***************************************************************************)
(* Proofs about the LAN deployment, for any number of nodes, keys, records *)
(* and faults.                                                             *)
(***************************************************************************)
EXTENDS LanSystem, EngineProofs

TypeInv == EngineInv /\ OlricTypeOK

\* From the first Get of a key to its Apply.
InLoop == {"lock", "recheck", "put", "unlock", "apply"}

\* A new LAN deployment is well typed.
LEMMA TypeInvInit == LanInit => TypeInv
BY EngineInvInit, DeploymentAssumption
   DEF LanInit, OlricInit, TypeInv, OlricTypeOK, RecordOrNone, Calls, Locks

\* LockWithTimeout and Unlock keep the lock table in its type.
LEMMA LockWithTimeoutType ==
  ASSUME TypeInv, NEW n \in Nodes, NEW l \in Locks, LockWithTimeout(n, l)
  PROVE  /\ lock' \in [Locks -> Nodes \cup {None}]
         /\ held' \in [Nodes -> SUBSET Locks]
         /\ BudgetTypeOK'
<1>1. BudgetTypeOK'
  BY BudgetStep DEF LockWithTimeout, TypeInv, EngineInv, EngineTypeOK
<1> QED
  BY <1>1 DEF LockWithTimeout, TypeInv, OlricTypeOK

\* Unlock keeps the lock table and the locks to release well typed.
LEMMA UnlockType ==
  ASSUME TypeInv, NEW n \in Nodes, NEW l \in Locks, Unlock(n, l)
  PROVE  /\ lock' \in [Locks -> Nodes \cup {None}]
         /\ held' \in [Nodes -> SUBSET Locks]
         /\ BudgetTypeOK'
<1>1. BudgetTypeOK'
  BY BudgetStep DEF Unlock, TypeInv, EngineInv, EngineTypeOK
<1> QED
  BY <1>1 DEF Unlock, TypeInv, OlricTypeOK

\* Every step of a node keeps all state in its type.
LEMMA NodeStepType ==
  ASSUME TypeInv, NEW n \in Nodes, NodeStep(n)
  PROVE  TypeInv'
<1>a. BudgetTypeOK
  BY DEF TypeInv, EngineInv, EngineTypeOK
<1>1. CASE LanEngineOnly(n)
  BY <1>1, EngineOnlyInv DEF LanEngineOnly, TypeInv, OlricTypeOK, olricVars
<1>2. CASE LanKeys(n)
  <2>1. BudgetTypeOK'
    BY <1>2, <1>a, BudgetStep DEF LanKeys, KeysOf
  <2> QED
    BY <1>2, <2>1, EngineCallInv DEF LanKeys, TypeInv, OlricTypeOK, olricVars
<1>3. CASE LanGet(n)
  <2>1. BudgetTypeOK'
    BY <1>3, <1>a, BudgetStep DEF LanGet, Get
  <2> QED
    BY <1>3, <2>1, EngineCallInv DEF LanGet, TypeInv, OlricTypeOK, olricVars
<1>4. CASE LanLock(n)
  <2>1. key[n] \in Locks
    BY <1>4 DEF LanLock, LockReturned, TypeInv, EngineInv, KeyInScope, Locks
  <2> QED
    BY <1>4, <2>1, LockWithTimeoutType, EngineCallInv DEF LanLock, TypeInv, OlricTypeOK
<1>5. CASE LanRecheck(n)
  <2>1. BudgetTypeOK'
    BY <1>5, <1>a, BudgetStep DEF LanRecheck, Get
  <2> QED
    BY <1>5, <2>1, EngineCallInv DEF LanRecheck, TypeInv, OlricTypeOK, olricVars
<1>6. CASE LanPutRecord(n)
  <2>1. BudgetTypeOK'
    BY <1>6, <1>a, BudgetStep DEF LanPutRecord, PutRecord
  <2>2. key[n] \in Keys /\ snap[n][key[n]] \in RecordOrNone
    BY <1>6 DEF LanPutRecord, TypeInv, EngineInv, EngineTypeOK, KeyInScope
  <2>3. OlricTypeOK'
    BY <1>6, <2>2 DEF LanPutRecord, PutRecord, TypeInv, OlricTypeOK, Calls
  <2>4. EngineInv'
    BY <1>6, <2>1, EngineCallInv DEF LanPutRecord, TypeInv
  <2> QED
    BY <2>3, <2>4 DEF TypeInv
<1>7. CASE LanPutFails(n)
  <2>1. BudgetTypeOK'
    BY <1>7, <1>a, BudgetStep DEF LanPutFails, PutRecordFails
  <2>2. key[n] \in Keys /\ snap[n][key[n]] \in RecordOrNone
    BY <1>7 DEF LanPutFails, PutReturned, TypeInv, EngineInv, EngineTypeOK, KeyInScope
  <2>3. OlricTypeOK'
    BY <1>7, <2>2 DEF LanPutFails, PutRecordFails, TypeInv, OlricTypeOK
  <2>4. EngineInv'
    BY <1>7, <2>1, EngineCallInv DEF LanPutFails, TypeInv
  <2> QED
    BY <2>3, <2>4 DEF TypeInv
<1>8. CASE LanAddToIndex(n)
  <2>0. key[n] \in Keys
    BY <1>8 DEF LanAddToIndex, TypeInv, EngineInv, KeyInScope
  <2>1. CASE LockIndex(n)
    <3>1. BudgetTypeOK' /\ OlricTypeOK'
      BY <2>1, LockWithTimeoutType DEF LockIndex, TypeInv, OlricTypeOK, Calls, Locks
    <3> QED
      BY <1>8, <3>1, EngineCallInv DEF LanAddToIndex, TypeInv
  <2>2. CASE ReadIndex(n, key[n])
    <3>1. BudgetTypeOK'
      BY <2>2, <1>a, BudgetStep DEF ReadIndex
    <3>2. OlricTypeOK'
      BY <2>2 DEF ReadIndex, TypeInv, OlricTypeOK, Calls
    <3> QED
      BY <1>8, <3>1, <3>2, EngineCallInv DEF LanAddToIndex, TypeInv
  <2>3. CASE PutIndex(n, key[n])
    <3>1. BudgetTypeOK'
      BY <2>3, <1>a, BudgetStep DEF PutIndex
    <3>2. OlricTypeOK'
      BY <2>0, <2>3 DEF PutIndex, TypeInv, OlricTypeOK, Calls
    <3> QED
      BY <1>8, <3>1, <3>2, EngineCallInv DEF LanAddToIndex, TypeInv
  <2> QED
    BY <1>8, <2>1, <2>2, <2>3 DEF LanAddToIndex
<1>9. CASE LanPutReturns(n)
  <2>1. BudgetTypeOK' /\ OlricTypeOK'
    BY <1>9, UnlockType DEF LanPutReturns, UnlockIndex, TypeInv, OlricTypeOK, Calls, Locks
  <2> QED
    BY <1>9, <2>1, EngineCallInv DEF LanPutReturns, TypeInv
<1>10. CASE LanUnlock(n)
  <2>1. key[n] \in Locks
    BY <1>10 DEF LanUnlock, Published, TypeInv, EngineInv, KeyInScope, Locks
  <2> QED
    BY <1>10, <2>1, UnlockType, EngineCallInv DEF LanUnlock, TypeInv, OlricTypeOK
<1> QED
  BY <1>1, <1>2, <1>3, <1>4, <1>5, <1>6, <1>7, <1>8, <1>9, <1>10 DEF NodeStep

\* So do crashes, restarts, replaced files, expiring locks and lost entries.
LEMMA OtherStepType ==
  ASSUME TypeInv,
         \/ \E n \in Nodes : LanCrash(n) \/ LanRestart(n) \/ LanRenew(n)
         \/ (\E l \in Locks : LanExpire(l)) \/ LanLose
  PROVE  TypeInv'
<1>a. BudgetTypeOK
  BY DEF TypeInv, EngineInv, EngineTypeOK
<1>1. ASSUME NEW n \in Nodes, LanCrash(n)
      PROVE  TypeInv'
  <2>1. EngineInv'
    BY <1>1, EngineProcessInv DEF LanCrash, TypeInv
  <2>2. OlricTypeOK'
    BY <1>1 DEF LanCrash, MemberLeaves, TypeInv, OlricTypeOK, Calls, RecordOrNone
  <2> QED
    BY <2>1, <2>2 DEF TypeInv
<1>2. ASSUME NEW n \in Nodes, LanRestart(n) \/ LanRenew(n)
      PROVE  TypeInv'
  BY <1>2, EngineProcessInv DEF LanRestart, LanRenew, TypeInv, OlricTypeOK, olricVars
<1>3. ASSUME NEW l \in Locks, LanExpire(l)
      PROVE  TypeInv'
  <2>1. LockExpires(l)
    BY <1>3 DEF LanExpire
  <2>2. BudgetTypeOK'
    BY <2>1, <1>a, BudgetStep DEF LockExpires
  <2>3. OlricTypeOK'
    BY <2>1 DEF LockExpires, TypeInv, OlricTypeOK
  <2>4. EngineInv'
    BY <1>3, <2>2 DEF LanExpire, TypeInv, EngineInv, EngineTypeOK, KeyInScope,
                      ProviderTypeOK, providerVars, tickVars
  <2> QED
    BY <2>3, <2>4 DEF TypeInv
<1>4. CASE LanLose
  <2>1. BudgetTypeOK'
    BY <1>4, <1>a, BudgetStep DEF LanLose, EntryLost
  <2>2. OlricTypeOK'
    BY <1>4 DEF LanLose, EntryLost, TypeInv, OlricTypeOK, RecordOrNone
  <2>3. EngineInv'
    BY <1>4, <2>1 DEF LanLose, TypeInv, EngineInv, EngineTypeOK, KeyInScope,
                      ProviderTypeOK, providerVars, tickVars
  <2> QED
    BY <2>2, <2>3 DEF TypeInv
<1> QED
  BY <1>1, <1>2, <1>3, <1>4

\* Every step of the LAN deployment keeps the types.
LEMMA TypeInvStep == TypeInv /\ [LanNext]_vars => TypeInv'
<1> SUFFICES ASSUME TypeInv, [LanNext]_vars
             PROVE  TypeInv'
  OBVIOUS
<1>1. CASE LanNext
  BY <1>1, NodeStepType, OtherStepType DEF LanNext
<1>2. CASE UNCHANGED vars
  BY <1>2 DEF vars, engineVars, olricVars, tickVars, providerVars, budgetVars, TypeInv,
              EngineInv, EngineTypeOK, KeyInScope, ProviderTypeOK, BudgetTypeOK, OlricTypeOK
<1> QED
  BY <1>1, <1>2

\* All state of the LAN deployment stays in its type, whatever fails: the
\* engine never works on a key it has not set, the lock table names nodes, the
\* map holds records.
THEOREM LanTypeCorrect == LanSpec => []TypeOK
<1>1. TypeInv => TypeOK
  BY DEF TypeInv, TypeOK, EngineInv
<1> QED
  BY <1>1, TypeInvInit, TypeInvStep, PTL DEF LanSpec

-----------------------------------------------------------------------------
(* The publish race *)

\* The types, and what protects a publish.
LanInv == TypeInv /\ Protected

\* Nobody publishes at the start: the invariant of maybePublish holds.
LEMMA LanInvInit == LanInit => LanInv
<1> SUFFICES ASSUME LanInit
             PROVE  Protected
  BY TypeInvInit DEF LanInv
<1> QED
  BY DEF LanInit, EngineInit, OlricInit, Protected, LockOwned, CriticalSection,
         RecheckStillHolds

\* A step that leaves the locks, the records and the publish in hand alone.
LEMMA PublishSafeFrame ==
  ASSUME LanInv, NEW n \in Nodes,
         UNCHANGED <<dmap, lock, held, call>>,
         \A m \in Nodes \ {n} : /\ pc'[m] = pc[m] /\ key'[m] = key[m]
                                /\ snap'[m] = snap[m],
         pc'[n] \notin {"recheck", "put", "unlock", "down"},
         call[n] = "none"
  PROVE  Protected'
<1>1. LockOwned'
  BY DEF LanInv, Protected, LockOwned
<1>2. CriticalSection'
  BY DEF LanInv, Protected, CriticalSection
<1>3. RecheckStillHolds'
  BY DEF LanInv, Protected, RecheckStillHolds, MustPublish
<1> QED
  BY <1>1, <1>2, <1>3 DEF Protected

\* Steps of the tick outside maybePublish.
LEMMA TickPublishSafe ==
  ASSUME LanInv, NEW n \in Nodes, LanEngineOnly(n) \/ LanKeys(n) \/ LanGet(n)
  PROVE  Protected'
<1> USE DEF LanInv, TypeInv, EngineInv, EngineTypeOK
<1>1. UNCHANGED <<dmap, lock, held, call>>
  BY DEF LanEngineOnly, LanKeys, LanGet, olricVars
<1>2. pc[n] # "put" /\ pc'[n] \notin {"recheck", "put", "unlock", "down"}
  BY DEF LanEngineOnly, LanKeys, LanGet, EngineOnlyStep, ReadLocal, ApplyBest, EndLoop,
         FlushResource, FlushReturned, RollbackResource, RollbackReturned, GatherKeys,
         GetRecord, Goto
<1>3. call[n] = "none"
  BY <1>2 DEF Protected, CriticalSection
<1>4. \A m \in Nodes \ {n} : pc'[m] = pc[m] /\ key'[m] = key[m] /\ snap'[m] = snap[m]
  BY DEF LanEngineOnly, LanKeys, LanGet, EngineOnlyStep, ReadLocal, ApplyBest, EndLoop,
         FlushResource, FlushReturned, RollbackResource, RollbackReturned, GatherKeys,
         GetRecord, Goto, DropTick
<1> QED
  BY <1>1, <1>2, <1>3, <1>4, PublishSafeFrame

\* Two nodes never hold the same lock.
LEMMA MutualExclusion ==
  ASSUME LockOwned, NEW m \in Nodes, NEW n \in Nodes, NEW l, l \in held[m], l \in held[n]
  PROVE  m = n
BY DEF LockOwned

\* Obtaining a lock keeps every held lock its holder's own (LockWithTimeout).
\* Only addToIndex may go on without its lock.
LEMMA LockWithTimeoutOwned ==
  ASSUME NoFaultsOf({"lock"}), TypeInv, LockOwned, NEW n \in Nodes, NEW l \in Locks,
         LockWithTimeout(n, l)
  PROVE  /\ LockOwned'
         /\ \/ held' = [held EXCEPT ![n] = @ \cup {l}]
            \/ l = indexLockKey /\ UNCHANGED <<lock, held>>
<1>1. \/ /\ lock[l] = None
         /\ lock' = [lock EXCEPT ![l] = n]
         /\ held' = [held EXCEPT ![n] = @ \cup {l}]
      \/ l = indexLockKey /\ UNCHANGED <<lock, held>>
  BY DEF LockWithTimeout, Fault, NoFaultsOf
<1> QED
  BY <1>1, DeploymentAssumption DEF TypeInv, OlricTypeOK, LockOwned

\* Releasing a lock keeps every other held lock its holder's own.
LEMMA UnlockOwned ==
  ASSUME TypeInv, LockOwned, NEW n \in Nodes, NEW l \in Locks, Unlock(n, l)
  PROVE  /\ LockOwned'
         /\ held' = [held EXCEPT ![n] = @ \ {l}]
<1>1. held' = [held EXCEPT ![n] = @ \ {l}]
  BY DEF Unlock
<1>2. CASE lock' = lock
  BY <1>1, <1>2 DEF TypeInv, OlricTypeOK, LockOwned
<1>3. CASE l \in held[n] /\ lock' = [lock EXCEPT ![l] = None]
  BY <1>1, <1>3 DEF TypeInv, OlricTypeOK, LockOwned
<1> QED
  BY <1>1, <1>2, <1>3 DEF Unlock

\* The steps of maybePublish.
LEMMA PublishStepSafe ==
  ASSUME LocksHold, LanInv, NEW n \in Nodes,
         \/ LanLock(n) \/ LanRecheck(n) \/ LanPutRecord(n) \/ LanPutFails(n)
         \/ LanAddToIndex(n) \/ LanPutReturns(n) \/ LanUnlock(n)
  PROVE  Protected'
<1> USE DEF LanInv, TypeInv, EngineInv, EngineTypeOK, OlricTypeOK, Protected
<1>a. pc[n] \in {"lock", "recheck", "put", "unlock"}
  BY DEF LanLock, LanRecheck, LanPutRecord, LanPutFails, LanAddToIndex, LanPutReturns,
         LanUnlock, LockReturned, Recheck, PutReturned, Published
<1>b. key[n] \in Keys /\ key[n] \in Locks /\ key[n] # indexLockKey /\ indexLockKey \in Locks
  BY <1>a, OlricAssumption DEF KeyInScope, Locks
<1>c. NoFaultsOf({"lock"})
  BY DEF LocksHold, NoFaultsOf
<1>1. CASE LanLock(n)
  <2>1. LockOwned' /\ held' = [held EXCEPT ![n] = @ \cup {key[n]}]
    BY <1>1, <1>b, <1>c, LockWithTimeoutOwned DEF LanLock
  <2>2. /\ pc[n] = "lock" /\ pc' = [pc EXCEPT ![n] = "recheck"]
        /\ UNCHANGED <<key, snap, dmap, call>>
    BY <1>1 DEF LanLock, LockReturned, Goto, tickVars
  <2>3. CriticalSection'
    BY <2>1, <2>2 DEF CriticalSection
  <2>4. RecheckStillHolds'
    BY <2>2 DEF RecheckStillHolds, MustPublish
  <2> QED
    BY <2>1, <2>3, <2>4
<1>2. CASE LanRecheck(n)
  <2>1. UNCHANGED <<key, snap, dmap, call, lock, held>>
    BY <1>2 DEF LanRecheck, Recheck, tickVars, olricVars
  <2>2. /\ pc[n] = "recheck"
        /\ pc' = [pc EXCEPT ![n] = IF MustPublish(snap[n][key[n]], dmap[key[n]])
                                   THEN "put" ELSE "unlock"]
    BY <1>2 DEF LanRecheck, Recheck, Get, Goto, Fault, LocksHold, NoFaultsOf
  <2>3. LockOwned'
    BY <2>1 DEF LockOwned
  <2>4. CriticalSection'
    BY <2>1, <2>2 DEF CriticalSection
  <2>5. RecheckStillHolds'
    BY <2>1, <2>2 DEF RecheckStillHolds, MustPublish
  <2> QED
    BY <2>3, <2>4, <2>5
<1>3. CASE LanPutRecord(n)
  <2>1. /\ pc[n] = "put" /\ call[n] = "none"
        /\ dmap' = [dmap EXCEPT ![key[n]] = snap[n][key[n]]]
        /\ call' = [call EXCEPT ![n] = "idxlock"]
        /\ UNCHANGED <<pc, key, snap, lock, held>>
    BY <1>3 DEF LanPutRecord, PutRecord, tickVars
  <2>2. LockOwned' /\ CriticalSection'
    <3>1. call'[n] = "idxlock" /\ \A m \in Nodes \ {n} : call'[m] = call[m]
      BY <1>b, <2>1
    <3>2. LockOwned'
      BY <2>1 DEF LockOwned
    <3>3. CriticalSection'
      BY <2>1, <3>1 DEF CriticalSection
    <3> QED
      BY <3>2, <3>3
  <2>3. RecheckStillHolds'
    <3> SUFFICES ASSUME NEW m \in Nodes, m # n, pc[m] = "put", call[m] = "none"
                 PROVE  MustPublish(snap[m][key[m]], dmap'[key[m]])
      BY <2>1 DEF RecheckStillHolds, MustPublish
    <3>1. key[m] # key[n]
      BY <2>1, MutualExclusion DEF CriticalSection
    <3>2. dmap'[key[m]] = dmap[key[m]]
      BY <2>1, <3>1, <1>b DEF KeyInScope
    <3> QED
      BY <3>2 DEF RecheckStillHolds
  <2> QED
    BY <2>2, <2>3
<1>4. CASE LanPutFails(n)
  <2>1. /\ pc[n] = "put" /\ pc' = [pc EXCEPT ![n] = "unlock"] /\ call[n] = "none"
        /\ dmap' = dmap \/ dmap' = [dmap EXCEPT ![key[n]] = snap[n][key[n]]]
        /\ UNCHANGED <<key, snap, lock, held, call>>
    BY <1>4 DEF LanPutFails, PutReturned, PutRecordFails, Goto, tickVars
  <2>2. LockOwned' /\ CriticalSection'
    <3>1. pc[n] = "put" /\ pc' = [pc EXCEPT ![n] = "unlock"] /\ call[n] = "none"
          /\ UNCHANGED <<key, lock, held, call>>
      BY <2>1
    <3>2. pc'[n] = "unlock" /\ \A m \in Nodes \ {n} : pc'[m] = pc[m]
      BY <1>b, <3>1
    <3>3. LockOwned'
      BY <3>1 DEF LockOwned
    <3>4. CriticalSection'
      BY <3>1, <3>2 DEF CriticalSection
    <3> QED
      BY <3>3, <3>4
  <2>3. RecheckStillHolds'
    <3> SUFFICES ASSUME NEW m \in Nodes, m # n, pc[m] = "put", call[m] = "none"
                 PROVE  MustPublish(snap[m][key[m]], dmap'[key[m]])
      BY <2>1 DEF RecheckStillHolds, MustPublish
    <3>1. key[m] # key[n]
      BY <2>1, MutualExclusion DEF CriticalSection
    <3>2. dmap'[key[m]] = dmap[key[m]]
      BY <2>1, <3>1, <1>b DEF KeyInScope
    <3> QED
      BY <3>2 DEF RecheckStillHolds
  <2> QED
    BY <2>2, <2>3
<1>5. CASE LanAddToIndex(n)
  <2>1. pc[n] = "put" /\ call[n] # "none" /\ call'[n] # "none" /\ UNCHANGED <<pc, key, snap, dmap>>
    BY <1>5 DEF LanAddToIndex, LockIndex, ReadIndex, PutIndex, tickVars
  <2>2. \A m \in Nodes \ {n} : call'[m] = call[m]
    BY <1>5 DEF LanAddToIndex, LockIndex, ReadIndex, PutIndex
  <2>3. CASE UNCHANGED <<lock, held>>
    BY <2>1, <2>2, <2>3 DEF LockOwned, CriticalSection, RecheckStillHolds, MustPublish
  <2>4. CASE LockIndex(n)
    <3>1. LockOwned' /\ (held' = [held EXCEPT ![n] = @ \cup {indexLockKey}]
                          \/ UNCHANGED <<lock, held>>)
      BY <2>4, <1>b, <1>c, LockWithTimeoutOwned DEF LockIndex
    <3>2. CASE held' = [held EXCEPT ![n] = @ \cup {indexLockKey}]
      BY <2>1, <2>2, <3>1, <3>2 DEF CriticalSection, RecheckStillHolds, MustPublish
    <3> QED
      BY <2>3, <3>1, <3>2
  <2> QED
    BY <1>5, <2>3, <2>4 DEF LanAddToIndex, ReadIndex, PutIndex
<1>6. CASE LanPutReturns(n)
  <2>1. LockOwned' /\ held' = [held EXCEPT ![n] = @ \ {indexLockKey}]
    BY <1>6, <1>b, UnlockOwned DEF LanPutReturns, UnlockIndex
  <2>2. /\ pc[n] = "put" /\ pc' = [pc EXCEPT ![n] = "unlock"]
        /\ call' = [call EXCEPT ![n] = "none"]
        /\ UNCHANGED <<key, snap, dmap>>
    BY <1>6 DEF LanPutReturns, UnlockIndex, PutReturned, Goto, tickVars
  <2>3. CriticalSection'
    BY <1>b, <2>1, <2>2 DEF CriticalSection
  <2>4. RecheckStillHolds'
    BY <2>2 DEF RecheckStillHolds, MustPublish
  <2> QED
    BY <2>1, <2>3, <2>4
<1>7. CASE LanUnlock(n)
  <2>1. LockOwned' /\ held' = [held EXCEPT ![n] = @ \ {key[n]}]
    BY <1>7, <1>b, UnlockOwned DEF LanUnlock
  <2>2. /\ pc[n] = "unlock" /\ pc' = [pc EXCEPT ![n] = "apply"]
        /\ UNCHANGED <<key, snap, dmap, call>>
    BY <1>7 DEF LanUnlock, Published, Goto, tickVars
  <2>3. CriticalSection'
    BY <2>1, <2>2 DEF CriticalSection
  <2>4. RecheckStillHolds'
    BY <2>2 DEF RecheckStillHolds, MustPublish
  <2> QED
    BY <2>1, <2>3, <2>4
<1> QED
  BY <1>1, <1>2, <1>3, <1>4, <1>5, <1>6, <1>7

\* Crashes, restarts, replaced source files and expiring locks.
LEMMA SurroundingsSafe ==
  ASSUME LocksHold, LanInv,
         \/ \E n \in Nodes : LanCrash(n) \/ LanRestart(n) \/ LanRenew(n)
         \/ \E l \in Locks : LanExpire(l)
         \/ LanLose
  PROVE  Protected'
<1> USE DEF LanInv, TypeInv, EngineInv, EngineTypeOK, OlricTypeOK, Protected
<1>1. ASSUME NEW n \in Nodes, LanCrash(n)
      PROVE  Protected'
  <2>1. /\ pc' = [pc EXCEPT ![n] = "down"]
        /\ key' = [key EXCEPT ![n] = None]
        /\ snap' = [snap EXCEPT ![n] = NoRecords]
        /\ held' = [held EXCEPT ![n] = {}]
        /\ call' = [call EXCEPT ![n] = "none"]
    BY <1>1 DEF LanCrash, Crash, DropTick, Goto, MemberLeaves
  <2>2. CriticalSection'
    BY <2>1 DEF CriticalSection
  <2>3. CASE Up # {n}
    <3>1. UNCHANGED <<dmap, lock>>
      BY <1>1, <2>3 DEF LanCrash, MemberLeaves
    <3> QED
      BY <2>1, <2>2, <3>1 DEF LockOwned, RecheckStillHolds, MustPublish
  <2>4. CASE Up = {n}
    <3>1. \A m \in Nodes : pc'[m] = "down" /\ held'[m] = {}
      BY <2>1, <2>4 DEF Up, CriticalSection
    <3> QED
      BY <2>2, <3>1 DEF LockOwned, RecheckStillHolds
  <2> QED
    BY <2>3, <2>4
<1>2. ASSUME NEW n \in Nodes, LanRestart(n)
      PROVE  Protected'
  BY <1>2 DEF LanRestart, Restart, Goto, tickVars, olricVars, LockOwned, CriticalSection,
              RecheckStillHolds, MustPublish
<1>3. ASSUME NEW n \in Nodes, LanRenew(n)
      PROVE  Protected'
  BY <1>3 DEF LanRenew, Renew, tickVars, olricVars, LockOwned, CriticalSection,
              RecheckStillHolds, MustPublish
<1>4. ASSUME NEW l \in Locks, LanExpire(l)
      PROVE  Protected'
  <2>1. LockExpires(l)
    BY <1>4 DEF LanExpire
  <2>2. lock[l] \in Nodes /\ l \notin held[lock[l]] /\ lock' = [lock EXCEPT ![l] = None]
    BY <2>1 DEF LockExpires, Abandoned, Fault, LocksHold, NoFaultsOf
  <2>3. UNCHANGED <<pc, key, snap, dmap, held, call>>
    BY <1>4, <2>1 DEF LanExpire, LockExpires, tickVars
  <2> QED
    BY <2>2, <2>3 DEF LockOwned, CriticalSection, RecheckStillHolds, MustPublish
<1>5. CASE LanLose
  BY <1>5 DEF LanLose, EntryLost, Fault, LocksHold, NoFaultsOf
<1> QED
  BY <1>1, <1>2, <1>3, <1>4, <1>5

\* Every step of the deployment keeps the inductive invariant.
LEMMA LanInvStep ==
  ASSUME LocksHold, LanInv, [LanNext]_vars
  PROVE  LanInv'
<1>1. TypeInv'
  BY TypeInvStep DEF LanInv
<1>2. Protected'
  <2>1. CASE UNCHANGED vars
    BY <2>1 DEF LanInv, vars, engineVars, tickVars, olricVars, Protected, LockOwned,
                CriticalSection, RecheckStillHolds, MustPublish
  <2>2. ASSUME NEW n \in Nodes, NodeStep(n)
        PROVE  Protected'
    BY <2>2, TickPublishSafe, PublishStepSafe DEF NodeStep
  <2> QED
    BY <2>1, <2>2, SurroundingsSafe DEF LanNext
<1> QED
  BY <1>1, <1>2 DEF LanInv

\* A behaviour stays in its scenario of faults.
LEMMA AllowedStep ==
  ASSUME [LanNext]_vars
  PROVE  allowed' = allowed
<1>1. ASSUME NEW n \in Nodes, NodeStep(n)
      PROVE  allowed' = allowed
  <2>1. CASE LanEngineOnly(n)
    BY <2>1 DEF LanEngineOnly, EngineOnlyStep, ReadLocal, ApplyBest, EndLoop, FlushResource,
                FlushReturned, RollbackResource, RollbackReturned, NoFault, Fault, budgetVars
  <2>2. CASE LanKeys(n) \/ LanGet(n) \/ LanRecheck(n)
    BY <2>2 DEF LanKeys, LanGet, LanRecheck, KeysOf, Get, NoFault, Fault, budgetVars
  <2>3. CASE LanLock(n) \/ LanUnlock(n) \/ LanPutReturns(n)
    BY <2>3 DEF LanLock, LanUnlock, LanPutReturns, LockWithTimeout, Unlock, UnlockIndex,
                NoFault, Fault, budgetVars
  <2>4. CASE LanPutRecord(n) \/ LanPutFails(n) \/ LanAddToIndex(n)
    BY <2>4 DEF LanPutRecord, LanPutFails, LanAddToIndex, PutRecord, PutRecordFails,
                LockIndex, LockWithTimeout, ReadIndex, PutIndex, NoFault, Fault, budgetVars
  <2> QED
    BY <1>1, <2>1, <2>2, <2>3, <2>4 DEF NodeStep
<1>2. ASSUME NEW n \in Nodes, LanCrash(n) \/ LanRestart(n) \/ LanRenew(n)
      PROVE  allowed' = allowed
  BY <1>2 DEF LanCrash, LanRestart, LanRenew, Crash, Restart, Renew, Renewal, Fault,
              budgetVars
<1>3. CASE (\E l \in Locks : LanExpire(l)) \/ LanLose
  BY <1>3 DEF LanExpire, LanLose, LockExpires, EntryLost, NoFault, Fault, budgetVars
<1>4. CASE UNCHANGED vars
  BY <1>4 DEF vars, engineVars, budgetVars
<1> QED
  BY <1>1, <1>2, <1>3, <1>4 DEF LanNext

\* The inductive invariant of the deployment, in every scenario of faults.
PublishInv == TypeInv /\ PublishSafe

\* PublishInv holds at the start.
LEMMA PublishInvInit == LanInit => PublishInv
BY LanInvInit DEF LanInv, PublishInv, PublishSafe

\* PublishInv is kept by every step.
LEMMA PublishInvStep == PublishInv /\ [LanNext]_vars => PublishInv'
<1> SUFFICES ASSUME PublishInv, [LanNext]_vars
             PROVE  PublishInv'
  OBVIOUS
<1>1. TypeInv'
  BY TypeInvStep DEF PublishInv
<1>2. LocksHold' => LocksHold
  BY AllowedStep DEF LocksHold, NoFaultsOf
<1>3. LocksHold => Protected'
  BY LanInvStep DEF PublishInv, PublishSafe, LanInv
<1> QED
  BY <1>1, <1>2, <1>3 DEF PublishInv, PublishSafe

(***************************************************************************)
(* maybePublish is safe for every number of nodes, keys, records, crashes, *)
(* failed Puts and failed releases: while locks hold and Get answers, the  *)
(* result of the re-check is still true when Put stores the record.        *)
(***************************************************************************)
THEOREM LanPublishSafe == LanSpec => []PublishSafe
<1>1. PublishInv => PublishSafe
  BY DEF PublishInv
<1> QED
  BY <1>1, PublishInvInit, PublishInvStep, PTL DEF LanSpec

\* What one step does to a record of the cluster: nothing, or Put replaces it
\* by one that the re-check still finds newer, or the last member stops.
LEMMA RecordStep ==
  ASSUME LocksHold, LanInv, [LanNext]_vars, NEW k \in Keys
  PROVE  NotNewerThan(dmap[k], dmap'[k]) \/ Up' = {}
<1> USE DEF LanInv, TypeInv, EngineInv, EngineTypeOK, OlricTypeOK
<1>1. ASSUME dmap'[k] = dmap[k]
      PROVE  NotNewerThan(dmap[k], dmap'[k])
  BY <1>1, NotNewerThanReflexive
<1>2. CASE UNCHANGED dmap
  BY <1>1, <1>2
<1>3. ASSUME NEW n \in Nodes, LanPutRecord(n) \/ LanPutFails(n)
      PROVE  NotNewerThan(dmap[k], dmap'[k])
  <2>1. /\ pc[n] = "put" /\ call[n] = "none"
        /\ dmap' = dmap \/ dmap' = [dmap EXCEPT ![key[n]] = snap[n][key[n]]]
    BY <1>3 DEF LanPutRecord, PutRecord, LanPutFails, PutReturned, PutRecordFails
  <2>2. CASE dmap'[k] = dmap[k]
    BY <1>1, <2>2
  <2>3. CASE key[n] = k /\ dmap'[k] = snap[n][k]
    <3>1. MustPublish(snap[n][k], dmap[k])
      BY <2>1, <2>3 DEF Protected, RecheckStillHolds
    <3>2. snap[n][k] \in RecordOrNone /\ dmap[k] \in RecordOrNone
      OBVIOUS
    <3> QED
      BY <2>3, <3>1, <3>2, WinnerNotOlder DEF MustPublish
  <2> QED
    BY <2>1, <2>2, <2>3
<1>4. ASSUME NEW n \in Nodes, LanCrash(n)
      PROVE  NotNewerThan(dmap[k], dmap'[k]) \/ Up' = {}
  <2>1. CASE Up # {n}
    BY <1>2, <1>4, <2>1 DEF LanCrash, MemberLeaves
  <2>2. CASE Up = {n}
    BY <1>4, <2>2 DEF LanCrash, Crash, Goto, Up
  <2> QED
    BY <2>1, <2>2
<1>5. ASSUME NEW n \in Nodes, NodeStep(n)
      PROVE  NotNewerThan(dmap[k], dmap'[k])
  <2>1. CASE LanPutRecord(n) \/ LanPutFails(n)
    BY <1>3, <2>1
  <2>2. CASE ~(LanPutRecord(n) \/ LanPutFails(n))
    <3>1. UNCHANGED dmap
      BY <1>5, <2>2 DEF NodeStep, LanEngineOnly, LanKeys, LanGet, LanLock, LanRecheck,
             LanAddToIndex, LockIndex, ReadIndex, PutIndex, LanPutReturns, UnlockIndex,
             LanUnlock, olricVars
    <3> QED
      BY <1>1, <3>1
  <2> QED
    BY <2>1, <2>2
<1>6. CASE (\E l \in Locks : LanExpire(l)) \/ LanLose
  BY <1>2, <1>6 DEF LanExpire, LockExpires, LanLose, EntryLost, Fault, LocksHold, NoFaultsOf
<1> QED
  BY <1>2, <1>4, <1>5, <1>6
     DEF LanNext, LanRestart, LanRenew, olricVars, vars

(***************************************************************************)
(* What the cluster holds for a key only gets newer while a member is up,  *)
(* for every number of nodes, keys and records and every interleaving of   *)
(* publishers, crashes, failed Puts and failed releases (maybePublish).    *)
(***************************************************************************)
THEOREM LanClusterNeverRegresses == LanSpec => ClusterNeverRegresses
<1>1. PublishInv /\ [LanNext]_vars
        => [LocksHold =>
              \A k \in Keys : NotNewerThan(dmap[k], dmap'[k]) \/ Up' = {}]_vars
  BY RecordStep DEF PublishInv, PublishSafe, LanInv
<1> QED
  BY <1>1, PublishInvInit, PublishInvStep, PTL DEF LanSpec, ClusterNeverRegresses

-----------------------------------------------------------------------------
(* The refinement *)

\* A step of a tick neither stops nor starts a process.
LEMMA NodeKeepsUp ==
  ASSUME TypeInv, NEW n \in Nodes, NodeStep(n)
  PROVE  n \in Up /\ Up' = Up
<1> USE DEF TypeInv, EngineInv, EngineTypeOK, Up
<1> SUFFICES /\ pc[n] # "down" /\ pc'[n] # "down"
             /\ \A m \in Nodes \ {n} : pc'[m] = pc[m]
  OBVIOUS
<1>1. CASE LanEngineOnly(n)
  BY <1>1 DEF LanEngineOnly, EngineOnlyStep, ReadLocal, ApplyBest, EndLoop, FlushResource,
              FlushReturned, RollbackResource, RollbackReturned, Goto
<1>2. CASE LanKeys(n) \/ LanGet(n) \/ LanRecheck(n) \/ LanLock(n) \/ LanUnlock(n)
  BY <1>2 DEF LanKeys, LanGet, LanRecheck, LanLock, LanUnlock, GatherKeys, GetRecord,
              Recheck, LockReturned, Published, Goto
<1>3. CASE LanPutRecord(n) \/ LanPutFails(n) \/ LanAddToIndex(n) \/ LanPutReturns(n)
  BY <1>3 DEF LanPutRecord, LanPutFails, LanAddToIndex, LanPutReturns, PutReturned, Goto
<1> QED
  BY <1>1, <1>2, <1>3 DEF NodeStep

\* A Put stores the record whole, or fails without effect; what it stores is
\* newer, by the re-check.
LEMMA PutPublishes ==
  ASSUME LocksHold, LanInv, NEW n \in Nodes, LanPutRecord(n) \/ LanPutFails(n)
  PROVE  \/ UNCHANGED dmap
         \/ \E k \in Keys, r \in Records :
              /\ dmap[k] = None \/ Newer(r.version, dmap[k].version)
              /\ dmap' = [dmap EXCEPT ![k] = r]
<1> USE DEF LanInv, TypeInv, EngineInv, EngineTypeOK
<1>1. /\ pc[n] = "put" /\ call[n] = "none"
      /\ dmap' = dmap \/ dmap' = [dmap EXCEPT ![key[n]] = snap[n][key[n]]]
  BY DEF LanPutRecord, PutRecord, LanPutFails, PutReturned, PutRecordFails
<1>2. key[n] \in Keys /\ snap[n][key[n]] \in RecordOrNone
  BY <1>1 DEF KeyInScope
<1>3. MustPublish(snap[n][key[n]], dmap[key[n]])
  BY <1>1 DEF Protected, RecheckStillHolds
<1> QED
  BY <1>1, <1>2, <1>3 DEF MustPublish, RecordOrNone

\* What one step does to the registers: an atomic publish of a newer record, a
\* member that stops or starts, or nothing.
LEMMA RegisterStep ==
  ASSUME TypeInv, LocksHold => LanInv, [LanNext]_vars
  PROVE  \/ Up' = Up /\ (LocksHold => UNCHANGED dmap)
         \/ \E k \in Keys, r \in Records :
              /\ LocksHold
              /\ Up # {} /\ Up' = Up
              /\ dmap[k] = None \/ Newer(r.version, dmap[k].version)
              /\ dmap' = [dmap EXCEPT ![k] = r]
         \/ \E n \in Up : /\ Up' = Up \ {n}
                          /\ dmap' = IF Up' = {} THEN NoRecords ELSE dmap
         \/ \E n \in Nodes \ Up : Up' = Up \cup {n} /\ UNCHANGED dmap
<1>1. ASSUME NEW n \in Nodes, NodeStep(n)
      PROVE  \/ Up' = Up /\ (LocksHold => UNCHANGED dmap)
             \/ \E k \in Keys, r \in Records :
                  /\ LocksHold
                  /\ Up # {} /\ Up' = Up
                  /\ dmap[k] = None \/ Newer(r.version, dmap[k].version)
                  /\ dmap' = [dmap EXCEPT ![k] = r]
  <2>1. n \in Up /\ Up' = Up
    BY <1>1, NodeKeepsUp
  <2>2. CASE LanPutRecord(n) \/ LanPutFails(n)
    <3>1. LocksHold => \/ UNCHANGED dmap
                       \/ \E k \in Keys, r \in Records :
                            /\ dmap[k] = None \/ Newer(r.version, dmap[k].version)
                            /\ dmap' = [dmap EXCEPT ![k] = r]
      BY <2>2, PutPublishes
    <3> QED
      BY <2>1, <3>1
  <2>3. CASE ~(LanPutRecord(n) \/ LanPutFails(n))
    <3>1. UNCHANGED dmap
      BY <1>1, <2>3 DEF NodeStep, LanEngineOnly, LanKeys, LanGet, LanLock, LanRecheck,
             LanAddToIndex, LockIndex, ReadIndex, PutIndex, LanPutReturns, UnlockIndex,
             LanUnlock, olricVars
    <3> QED
      BY <2>1, <3>1
  <2> QED
    BY <2>2, <2>3
<1>2. ASSUME NEW n \in Nodes, LanCrash(n)
      PROVE  n \in Up /\ Up' = Up \ {n} /\ dmap' = IF Up' = {} THEN NoRecords ELSE dmap
  <2>1. /\ pc[n] # "down" /\ pc' = [pc EXCEPT ![n] = "down"] /\ pc \in [Nodes -> PCs]
    BY <1>2 DEF LanCrash, Crash, Goto, TypeInv, EngineInv, EngineTypeOK
  <2>2. n \in Up /\ Up' = Up \ {n}
    BY <2>1 DEF Up
  <2>3. dmap' = IF Up' = {} THEN NoRecords ELSE dmap
    BY <1>2, <2>2 DEF LanCrash, MemberLeaves, NoRecords
  <2> QED
    BY <2>2, <2>3
<1>3. ASSUME NEW n \in Nodes, LanRestart(n)
      PROVE  n \notin Up /\ Up' = Up \cup {n} /\ UNCHANGED dmap
  BY <1>3 DEF LanRestart, Restart, Goto, Up, olricVars, TypeInv, EngineInv, EngineTypeOK
<1>4. ASSUME NEW n \in Nodes, LanRenew(n)
      PROVE  Up' = Up /\ UNCHANGED dmap
  BY <1>4 DEF LanRenew, Renew, Up, olricVars
<1>5. CASE (\E l \in Locks : LanExpire(l)) \/ LanLose
  BY <1>5 DEF LanExpire, LockExpires, LanLose, EntryLost, Fault, LocksHold, NoFaultsOf, Up
<1>6. CASE UNCHANGED vars
  BY <1>6 DEF vars, engineVars, olricVars, Up
<1> QED
  BY <1>1, <1>2, <1>3, <1>4, <1>5, <1>6 DEF LanNext

(***************************************************************************)
(* The LAN deployment implements newest-wins registers, for every number   *)
(* of nodes, keys, records and faults: to an observer of the map, the      *)
(* lock, re-check and Put of maybePublish are one atomic step.             *)
(***************************************************************************)
THEOREM LanImplementsNewestWins == LanSpec => ImplementsNewestWins
<1> DEFINE best == IF LocksHold THEN dmap ELSE NoRecords
<1>1. LanInit => Register!Init
  BY DEF LanInit, EngineInit, OlricInit, Register!Init, NoRecords, Up
<1>2. PublishInv /\ [LanNext]_vars => [Register!Next]_<<best, Up>>
  <2> SUFFICES ASSUME PublishInv, [LanNext]_vars, ~UNCHANGED <<best, Up>>
               PROVE  Register!Next
    OBVIOUS
  <2>1. LocksHold' = LocksHold
    BY AllowedStep DEF LocksHold, NoFaultsOf
  <2>2. TypeInv /\ (LocksHold => LanInv)
    BY DEF PublishInv, PublishSafe, LanInv
  <2>3. best \in [Keys -> RecordOrNone] /\ Up \subseteq Nodes
    BY <2>2 DEF TypeInv, OlricTypeOK, NoRecords, RecordOrNone, Up
  <2>4. CASE Up' = Up /\ (LocksHold => UNCHANGED dmap)
    BY <2>1, <2>4 DEF NoRecords
  <2>5. ASSUME NEW k \in Keys, NEW r \in Records,
               LocksHold, Up # {}, Up' = Up,
               dmap[k] = None \/ Newer(r.version, dmap[k].version),
               dmap' = [dmap EXCEPT ![k] = r]
        PROVE  Register!Next
    <3>1. best = dmap /\ best' = dmap'
      BY <2>1, <2>5
    <3>2. Nodes \cap Up # {}
      BY <2>3, <2>5
    <3>3. Register!Publish(k, r)
      BY <2>5, <3>1, <3>2 DEF Register!Publish, Register!Newer, Newer
    <3> QED
      BY <3>3 DEF Register!Next
  <2>6. ASSUME NEW n \in Up, Up' = Up \ {n}, dmap' = IF Up' = {} THEN NoRecords ELSE dmap
        PROVE  Register!Next
    <3>1. \A k \in Keys : (Nodes \cap Up' = {}) <=> (Up' = {})
      BY <2>3, <2>6
    <3>2. best' = [k \in Keys |-> IF Nodes \cap Up' = {} THEN None ELSE best[k]]
      BY <2>1, <2>3, <2>6, <3>1 DEF NoRecords
    <3>3. Register!Stop(n)
      BY <2>6, <3>2 DEF Register!Stop
    <3> QED
      BY <2>3, <3>3 DEF Register!Next
  <2>7. ASSUME NEW n \in Nodes \ Up, Up' = Up \cup {n}, UNCHANGED dmap
        PROVE  Register!Next
    <3>1. Register!Start(n)
      BY <2>1, <2>7 DEF Register!Start, NoRecords
    <3> QED
      BY <3>1 DEF Register!Next
  <2> QED
    BY <2>2, <2>4, <2>5, <2>6, <2>7, RegisterStep
<1> QED
  BY <1>1, <1>2, PublishInvInit, PublishInvStep, PTL
     DEF LanSpec, ImplementsNewestWins, Register!Spec
=============================================================================
