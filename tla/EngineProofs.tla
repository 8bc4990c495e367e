---------------------------- MODULE EngineProofs ----------------------------
(***************************************************************************)
(* What holds of the engine whatever backend answers it: Newer is a strict *)
(* total order on versions, with what follows for records that may be nil, *)
(* and every step keeps the part of the type invariants that LanSystem and *)
(* WanSystem share.                                                        *)
(***************************************************************************)
EXTENDS Engine, TLAPS

-----------------------------------------------------------------------------
(* The order of versions and records *)

\* No version is newer than itself, and of two versions at most one is newer
\* (engine.Version.Newer).
LEMMA NewerAsymmetric ==
  ASSUME NEW v \in Version, NEW w \in Version, Newer(v, w)
  PROVE  ~Newer(w, v)
BY DEF Version, Newer

\* Newer is transitive: the lexicographic comparison composes.
LEMMA NewerTransitive ==
  ASSUME NEW u \in Version, NEW v \in Version, NEW w \in Version,
         Newer(u, v), Newer(v, w)
  PROVE  Newer(u, w)
BY DEF Version, Newer

\* Two versions neither of which is newer are equal: every pair of different
\* copies has a winner.
LEMMA NewerTotal ==
  ASSUME NEW v \in Version, NEW w \in Version, ~Newer(v, w), ~Newer(w, v)
  PROVE  v = w
BY DEF Version, Newer

\* A record that is not nil has a version.
LEMMA RecordVersion ==
  ASSUME NEW r \in RecordOrNone, r # None
  PROVE  r.version \in Version
BY RecordsAssumption DEF RecordOrNone

\* No record is newer than itself (Newer is strict).
LEMMA NotNewerThanReflexive ==
  ASSUME NEW r \in RecordOrNone
  PROVE  NotNewerThan(r, r)
<1>1. CASE r = None
  BY <1>1 DEF NotNewerThan
<1>2. CASE r # None
  <2>1. r.version \in Version
    BY <1>2, RecordVersion
  <2>2. ~Newer(r.version, r.version)
    BY <2>1, NewerAsymmetric
  <2> QED
    BY <1>2, <2>2 DEF NotNewerThan
<1> QED
  BY <1>1, <1>2

\* "At most as new as" composes, nil included.
LEMMA NotNewerThanTransitive ==
  ASSUME NEW a \in RecordOrNone, NEW b \in RecordOrNone, NEW c \in RecordOrNone,
         NotNewerThan(a, b), NotNewerThan(b, c)
  PROVE  NotNewerThan(a, c)
<1>1. CASE a = None
  BY <1>1 DEF NotNewerThan
<1>2. CASE a # None
  <2>1. b # None /\ c # None /\ ~Newer(a.version, b.version) /\ ~Newer(b.version, c.version)
    BY <1>2 DEF NotNewerThan
  <2>2. a.version \in Version /\ b.version \in Version /\ c.version \in Version
    BY <1>2, <2>1, RecordVersion
  <2>3. ~Newer(a.version, c.version)
    BY <2>1, <2>2 DEF Newer, Version
  <2> QED
    BY <2>1, <2>3 DEF NotNewerThan
<1> QED
  BY <1>1, <1>2

\* A record that wins the comparison is at least as new as the other.
LEMMA WinnerNotOlder ==
  ASSUME NEW a \in RecordOrNone, NEW b \in RecordOrNone, b # None,
         a = None \/ Newer(b.version, a.version)
  PROVE  NotNewerThan(a, b)
<1>1. CASE a = None
  BY <1>1 DEF NotNewerThan
<1>2. CASE a # None
  <2>1. a.version \in Version /\ b.version \in Version
    BY <1>2, RecordVersion
  <2>2. ~Newer(a.version, b.version)
    BY <1>2, <2>1, NewerAsymmetric
  <2> QED
    BY <2>2 DEF NotNewerThan
<1> QED
  BY <1>1, <1>2

\* pickNewer returns one of its arguments, and neither is newer than it
\* (what tickProvider applies is the newest of the two copies it knows).
THEOREM PickNewerIsNewest ==
  ASSUME NEW a \in RecordOrNone, NEW b \in RecordOrNone
  PROVE  /\ pickNewer(a, b) \in {a, b}
         /\ NotNewerThan(a, pickNewer(a, b))
         /\ NotNewerThan(b, pickNewer(a, b))
<1>1. CASE a = None
  BY <1>1, NotNewerThanReflexive DEF pickNewer, NotNewerThan
<1>2. CASE a # None /\ b = None
  BY <1>2, NotNewerThanReflexive DEF pickNewer, NotNewerThan
<1>3. CASE a # None /\ b # None /\ Newer(a.version, b.version)
  BY <1>3, NotNewerThanReflexive, WinnerNotOlder DEF pickNewer
<1>4. CASE a # None /\ b # None /\ ~Newer(a.version, b.version)
  BY <1>4, NotNewerThanReflexive DEF pickNewer, NotNewerThan
<1> QED
  BY <1>1, <1>2, <1>3, <1>4

-----------------------------------------------------------------------------
(* The engine's own state *)

\* A new deployment (engine.New, Start) is well typed.
LEMMA EngineTypeInit == EngineInit => EngineTypeOK
BY FaultsAssumption, DeploymentAssumption, RecordsAssumption
   DEF EngineInit, ProviderInit, BudgetInit, EngineTypeOK, ProviderTypeOK, BudgetTypeOK,
       NoRecords, RecordOrNone, Disk, PCs

\* Every step keeps the budgets of faults and renewals.
LEMMA BudgetStep ==
  ASSUME BudgetTypeOK, NoFault \/ (\E kind : Fault(kind)) \/ Renewal
  PROVE  BudgetTypeOK'
BY FaultsAssumption DEF BudgetTypeOK, NoFault, Fault, Renewal, budgetVars

\* Setting the error flag of Flush for one node keeps its type.
LEMMA FlagType ==
  ASSUME NEW f \in [Nodes -> BOOLEAN], NEW n \in Nodes
  PROVE  [f EXCEPT ![n] = TRUE] \in [Nodes -> BOOLEAN]
OBVIOUS

\* What tickProvider applies (pickNewer) is a record, or nil.
LEMMA BestType ==
  ASSUME EngineTypeOK, NEW n \in Nodes, key[n] \in Keys
  PROVE  Best(n) \in RecordOrNone
BY DEF EngineTypeOK, Best, pickNewer

\* WriteAtomic leaves a file and a backup.
LEMMA WriteToType ==
  ASSUME NEW d \in Disk, NEW r \in RecordOrNone
  PROVE  WriteTo(d, r) \in Disk
BY DEF WriteTo, WriteAtomic, Backup, Disk

\* So does a WriteAtomic that cannot read the file it replaces.
LEMMA WriteUnreadType ==
  ASSUME NEW d \in Disk, NEW r \in RecordOrNone
  PROVE  WriteUnread(d, r) \in Disk
BY DEF WriteUnread, Disk

\* So does a WriteAtomic that fails or is cut short.
LEMMA WriteFailedType ==
  ASSUME NEW d \in Disk, NEW same \in BOOLEAN, NEW e \in WriteAtomicFailed(d, same)
  PROVE  e \in Disk
BY DEF WriteAtomicFailed, Backup, Disk

\* Restore leaves a file and a backup.
LEMMA RestoreType ==
  ASSUME NEW d \in Disk
  PROVE  Restore(d) \in Disk
BY RecordsAssumption DEF Restore, Disk, RecordOrNone

\* The provider's Rollback of one resource keeps the disks well typed.
LEMMA RollbackType ==
  ASSUME ProviderTypeOK, NEW n \in Nodes, NEW k \in Keys, Rollback(n, k)
  PROVE  disk' \in [Nodes -> [Keys -> Disk]]
<1>1. disk \in [Nodes -> [Keys -> Disk]]
  BY DEF ProviderTypeOK
<1>2. Restore(disk[n][k]) \in Disk
  BY <1>1, RestoreType
<1> QED
  BY <1>1, <1>2 DEF Rollback

\* The provider's Apply of one record keeps the disks well typed.
LEMMA ApplyType ==
  ASSUME ProviderTypeOK, NEW n \in Nodes, NEW k \in Keys, NEW r \in RecordOrNone,
         Apply(n, k, r)
  PROVE  disk' \in [Nodes -> [Keys -> Disk]]
<1>1. disk \in [Nodes -> [Keys -> Disk]]
  BY DEF ProviderTypeOK
<1>2. WriteTo(disk[n][k], r) \in Disk
  BY <1>1, WriteToType
<1> QED
  BY <1>1, <1>2 DEF Apply

\* The locals of tickProvider are well typed once they are gone.
LEMMA DropTickType ==
  ASSUME EngineTypeOK, NEW n \in Nodes, DropTick(n)
  PROVE  /\ snap' \in [Nodes -> [Keys -> RecordOrNone]]
         /\ todo' \in [Nodes -> SUBSET Keys]
         /\ key' \in [Nodes -> Keys \cup {None}]
         /\ clusterR' \in [Nodes -> RecordOrNone]
         /\ changed' \in [Nodes -> SUBSET Keys]
         /\ flushErr' \in [Nodes -> BOOLEAN]
BY DEF EngineTypeOK, DropTick, NoRecords, RecordOrNone

-----------------------------------------------------------------------------
\* The key of the current iteration is set wherever the code uses it.
KeyInScope ==
  \A n \in Nodes :
    pc[n] \in {"lock", "recheck", "put", "unlock", "apply"} => key[n] \in Keys

EngineInv == EngineTypeOK /\ KeyInScope

\* The inductive invariant of the engine holds at the start.
LEMMA EngineInvInit == EngineInit => EngineInv
<1>1. EngineInit => KeyInScope
  BY DEF EngineInit, KeyInScope
<1> QED
  BY <1>1, EngineTypeInit DEF EngineInv

\* The end of a tick, and a crash: the locals of tickProvider are gone.
LEMMA DropTickInv ==
  ASSUME EngineInv, NEW n \in Nodes, NEW where \in {"idle", "down"}, Goto(n, where),
         DropTick(n), ProviderTypeOK', BudgetTypeOK'
  PROVE  EngineInv'
<1>1. pc' \in [Nodes -> PCs]
  BY DEF EngineInv, EngineTypeOK, Goto, PCs
<1>2. EngineTypeOK'
  BY <1>1, DropTickType DEF EngineInv, EngineTypeOK
<1>3. KeyInScope'
  BY DEF EngineInv, EngineTypeOK, KeyInScope, Goto, DropTick
<1> QED
  BY <1>2, <1>3 DEF EngineInv

\* The steps of tickProvider that do not call the backend keep the invariant.
LEMMA EngineOnlyInv ==
  ASSUME EngineInv, NEW n \in Nodes, EngineOnlyStep(n)
  PROVE  EngineInv'
<1> USE DEF EngineInv, EngineTypeOK, PCs, Goto
<1>1. CASE ReadLocal(n)
  <2>1. BudgetTypeOK'
    BY <1>1, BudgetStep DEF ReadLocal
  <2>2. ProviderTypeOK'
    BY <1>1 DEF ReadLocal, ProviderTypeOK, providerVars
  <2>3. snap' \in [Nodes -> [Keys -> RecordOrNone]]
    BY <1>1 DEF ReadLocal, Local, ProviderTypeOK, RecordOrNone
  <2> QED
    BY <1>1, <2>1, <2>2, <2>3 DEF ReadLocal, KeyInScope
<1>2. CASE ApplyBest(n)
  <2>1. BudgetTypeOK'
    BY <1>2, BudgetStep DEF ApplyBest
  <2>2. key[n] \in Keys /\ Best(n) \in RecordOrNone
    BY <1>2, BestType DEF ApplyBest, KeyInScope
  <2>3. disk' \in [Nodes -> [Keys -> Disk]]
    <3>1. disk \in [Nodes -> [Keys -> Disk]]
      BY DEF ProviderTypeOK
    <3>2. CASE disk' = disk
      BY <3>1, <3>2
    <3>3. CASE Apply(n, key[n], Best(n))
      BY <2>2, <3>3, ApplyType
    <3>4. CASE ApplyFailed(n, key[n], Best(n))
      <4>1. SameBytes(disk[n][key[n]].file, Best(n)) \in BOOLEAN
        BY DEF SameBytes
      <4> QED
        BY <2>2, <3>1, <3>4, <4>1, WriteFailedType DEF ApplyFailed
    <3>5. CASE ApplyUnread(n, key[n], Best(n))
      BY <2>2, <3>1, <3>5, WriteUnreadType DEF ApplyUnread
    <3> QED
      BY <1>2, <3>2, <3>3, <3>4, <3>5 DEF ApplyBest
  <2>4. ProviderTypeOK'
    BY <1>2, <2>3 DEF ApplyBest, ProviderTypeOK
  <2>5. changed' \in [Nodes -> SUBSET Keys]
    BY <1>2, <2>2 DEF ApplyBest
  <2>6. clusterR' \in [Nodes -> RecordOrNone]
    BY <1>2 DEF ApplyBest, RecordOrNone
  <2> QED
    BY <1>2, <2>1, <2>4, <2>5, <2>6 DEF ApplyBest, KeyInScope
<1>3. CASE EndLoop(n)
  <2>1. BudgetTypeOK' /\ ProviderTypeOK'
    BY <1>3, BudgetStep DEF EndLoop, ProviderTypeOK, providerVars
  <2>2. CASE Goto(n, "idle") /\ DropTick(n)
    BY <2>1, <2>2, DropTickInv
  <2>3. CASE /\ pc' = [pc EXCEPT ![n] = "flush"]
             /\ todo' = [todo EXCEPT ![n] = changed[n]]
             /\ UNCHANGED <<snap, key, clusterR, changed, flushErr>>
    BY <2>1, <2>3 DEF KeyInScope
  <2> QED
    BY <1>3, <2>2, <2>3 DEF EndLoop
<1>4. CASE FlushResource(n)
  <2>1. BudgetTypeOK'
    BY <1>4, BudgetStep DEF FlushResource
  <2>2. loaded' \in [Nodes -> [Keys -> RecordOrNone]]
    <3>1. PICK k \in todo[n], outcome \in HookOutcomes : RunHook(n, k, outcome)
      BY <1>4 DEF FlushResource
    <3>2. k \in Keys
      OBVIOUS
    <3>3. disk[n][k].file \in RecordOrNone
      BY <3>2 DEF ProviderTypeOK, Disk
    <3> QED
      BY <3>1, <3>2, <3>3 DEF RunHook, ProviderTypeOK
  <2>3. flushErr' \in [Nodes -> BOOLEAN]
    <3>1. flushErr' = flushErr \/ flushErr' = [flushErr EXCEPT ![n] = TRUE]
      BY <1>4 DEF FlushResource
    <3> QED
      BY <3>1, FlagType
  <2>4. todo' \in [Nodes -> SUBSET Keys]
    BY <1>4 DEF FlushResource
  <2>5. UNCHANGED <<pc, snap, key, clusterR, changed, local, disk>>
    BY <1>4 DEF FlushResource
  <2> QED
    BY <2>1, <2>2, <2>3, <2>4, <2>5 DEF ProviderTypeOK, KeyInScope
<1>5. CASE FlushReturned(n)
  <2>1. BudgetTypeOK' /\ ProviderTypeOK'
    BY <1>5, BudgetStep DEF FlushReturned, ProviderTypeOK, providerVars
  <2>2. CASE Goto(n, "idle") /\ DropTick(n)
    BY <2>1, <2>2, DropTickInv
  <2>3. CASE /\ pc' = [pc EXCEPT ![n] = "rollback"]
             /\ todo' = [todo EXCEPT ![n] = changed[n]]
             /\ UNCHANGED <<snap, key, clusterR, changed, flushErr>>
    BY <2>1, <2>3 DEF KeyInScope
  <2> QED
    BY <1>5, <2>2, <2>3 DEF FlushReturned
<1>6. CASE RollbackResource(n)
  <2>1. BudgetTypeOK'
    BY <1>6, BudgetStep DEF RollbackResource
  <2>2. disk' \in [Nodes -> [Keys -> Disk]]
    <3>1. PICK k \in todo[n] : disk' = disk \/ Rollback(n, k)
      BY <1>6 DEF RollbackResource
    <3>2. k \in Keys
      OBVIOUS
    <3>3. CASE disk' = disk
      BY <3>3 DEF ProviderTypeOK
    <3> QED
      BY <3>1, <3>2, <3>3, RollbackType
  <2>3. todo' \in [Nodes -> SUBSET Keys]
    BY <1>6 DEF RollbackResource
  <2>4. UNCHANGED <<pc, snap, key, clusterR, changed, flushErr, local, loaded>>
    BY <1>6 DEF RollbackResource
  <2> QED
    BY <2>1, <2>2, <2>3, <2>4 DEF ProviderTypeOK, KeyInScope
<1>7. CASE RollbackReturned(n)
  <2>1. BudgetTypeOK' /\ ProviderTypeOK'
    BY <1>7, BudgetStep DEF RollbackReturned, ProviderTypeOK, providerVars
  <2> QED
    BY <1>7, <2>1, DropTickInv DEF RollbackReturned
<1> QED
  BY <1>1, <1>2, <1>3, <1>4, <1>5, <1>6, <1>7 DEF EngineOnlyStep

\* A step that answers one of the engine's calls.
LEMMA EngineCallInv ==
  ASSUME EngineInv, BudgetTypeOK', NEW n \in Nodes,
         \/ \E ks \in SUBSET Keys : GatherKeys(n, ks)
         \/ \E k \in Keys, r \in RecordOrNone : GetRecord(n, k, r)
         \/ LockReturned(n)
         \/ \E r \in RecordOrNone : Recheck(n, r)
         \/ PutReturned(n)
         \/ Published(n)
         \/ UNCHANGED <<pc, tickVars, providerVars>>
  PROVE  EngineInv'
<1> USE DEF EngineInv, EngineTypeOK, PCs, Goto, ProviderTypeOK, providerVars, tickVars, KeyInScope
<1>1. CASE \E ks \in SUBSET Keys : GatherKeys(n, ks)
  BY <1>1 DEF GatherKeys, LocalKeys
<1>2. CASE \E k \in Keys, r \in RecordOrNone : GetRecord(n, k, r)
  BY <1>2 DEF GetRecord
<1>3. CASE LockReturned(n)
  BY <1>3 DEF LockReturned
<1>4. CASE \E r \in RecordOrNone : Recheck(n, r)
  BY <1>4 DEF Recheck
<1>5. CASE PutReturned(n)
  BY <1>5 DEF PutReturned
<1>6. CASE Published(n)
  BY <1>6 DEF Published
<1>7. CASE UNCHANGED <<pc, tickVars, providerVars>>
  BY <1>7
<1> QED
  BY <1>1, <1>2, <1>3, <1>4, <1>5, <1>6, <1>7

\* Crashes, restarts and replaced source files.
LEMMA EngineProcessInv ==
  ASSUME EngineInv, NEW n \in Nodes, Crash(n) \/ Restart(n) \/ Renew(n)
  PROVE  EngineInv'
<1> USE DEF EngineInv, EngineTypeOK, PCs, Goto
<1>1. CASE Crash(n)
  <2>1. BudgetTypeOK'
    BY <1>1, BudgetStep DEF Crash
  <2>2. disk' \in [Nodes -> [Keys -> Disk]]
    <3>1. disk \in [Nodes -> [Keys -> Disk]]
      BY DEF ProviderTypeOK
    <3>2. CASE disk' = disk
      BY <3>1, <3>2
    <3>3. CASE pc[n] = "apply" /\ ApplyFailed(n, key[n], Best(n))
      <4>1. key[n] \in Keys
        BY <3>3 DEF KeyInScope
      <4>2. SameBytes(disk[n][key[n]].file, Best(n)) \in BOOLEAN
        BY DEF SameBytes
      <4> QED
        BY <3>1, <3>3, <4>1, <4>2, WriteFailedType DEF ApplyFailed
    <3> QED
      BY <1>1, <3>2, <3>3 DEF Crash
  <2>3. ProviderTypeOK'
    BY <1>1, <2>2 DEF Crash, ProviderTypeOK
  <2> QED
    BY <1>1, <2>1, <2>3, DropTickInv DEF Crash
<1>2. CASE Restart(n)
  BY <1>2, BudgetStep DEF Restart, NoFault, ProviderTypeOK, providerVars, tickVars, KeyInScope
<1>3. CASE Renew(n)
  <2>1. local' \in [Nodes -> [Keys -> RecordOrNone]]
    <3>1. PICK k \in Sources[n], r \in RecordOrNone : local' = [local EXCEPT ![n][k] = r]
      BY <1>3 DEF Renew
    <3>2. k \in Keys
      BY DeploymentAssumption
    <3> QED
      BY <3>1, <3>2 DEF ProviderTypeOK
  <2> QED
    BY <1>3, <2>1, BudgetStep DEF Renew, ProviderTypeOK, tickVars, KeyInScope
<1> QED
  BY <1>1, <1>2, <1>3
=============================================================================
