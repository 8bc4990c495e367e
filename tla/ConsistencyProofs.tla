-------------------------- MODULE ConsistencyProofs --------------------------
(***************************************************************************)
(* Proofs about two things a LAN deployment keeps in step: the index that  *)
(* the nodes share with the records it lists, and what a load balancer     *)
(* runs with the files on its disk.                                        *)
(***************************************************************************)
EXTENDS LanProofs

-----------------------------------------------------------------------------
(* The index *)

\* Every lock is its holder's own, and none is left behind: addToIndex has no
\* reason to give up on the index lock.
LocksTight == LockOwned /\ \A l \in Locks : ~Abandoned(l)

\* addToIndex holds the index lock from its read to its release, the list it
\* read is still the index when it writes, and the key is listed once it has.
IndexProtected ==
  /\ LocksTight
  /\ \A n \in Nodes :
       /\ call[n] # "none" => pc[n] = "put"
       /\ call[n] \in {"idxread", "idxput", "idxunlock"} => indexLockKey \in held[n]
       /\ call[n] = "idxput" => idxRead[n] = index
       /\ call[n] = "idxunlock" => key[n] \in index

\* The faults IndexCoversRecords does not tolerate.
IndexFaults == {"lock", "unlock", "index", "put", "crash", "lose"}

\* Every stored record is listed, or about to be.
Covered ==
  \A k \in Keys :
    dmap[k] # None => k \in index \/ \E n \in Nodes : key[n] = k /\ call[n] # "none"

IndexInv == TypeInv /\ (NoFaultsOf(IndexFaults) => IndexProtected /\ Covered)

\* Nothing is stored at the start.
LEMMA IndexInvInit == LanInit => IndexInv
<1> SUFFICES ASSUME LanInit
             PROVE  IndexProtected /\ Covered
  BY TypeInvInit DEF IndexInv
<1> QED
  BY DEF LanInit, EngineInit, OlricInit, IndexProtected, LocksTight, LockOwned, Abandoned,
         Covered

\* LockWithTimeout obtains the lock, and leaves none behind.
LEMMA LockWithTimeoutTight ==
  ASSUME NoFaultsOf({"lock"}), TypeInv, LocksTight, NEW n \in Nodes, NEW l \in Locks,
         LockWithTimeout(n, l)
  PROVE  LocksTight' /\ held' = [held EXCEPT ![n] = @ \cup {l}]
<1>1. LockOwned'
  BY LockWithTimeoutOwned DEF LocksTight
<1>2. /\ lock' = [lock EXCEPT ![l] = n]
      /\ held' = [held EXCEPT ![n] = @ \cup {l}]
  BY DEF LockWithTimeout, LocksTight, Fault, NoFaultsOf
<1>3. ASSUME NEW j \in Locks
      PROVE  ~Abandoned(j)'
  BY <1>2 DEF LocksTight, Abandoned, TypeInv, OlricTypeOK
<1> QED
  BY <1>1, <1>2, <1>3 DEF LocksTight

\* Unlock releases the lock together with the duty to release it.
LEMMA UnlockTight ==
  ASSUME NoFaultsOf({"unlock"}), TypeInv, LocksTight, NEW n \in Nodes, NEW l \in Locks,
         Unlock(n, l)
  PROVE  LocksTight' /\ held' = [held EXCEPT ![n] = @ \ {l}]
<1>1. LockOwned' /\ held' = [held EXCEPT ![n] = @ \ {l}]
  BY UnlockOwned DEF LocksTight
<1>2. lock' = IF l \in held[n] THEN [lock EXCEPT ![l] = None] ELSE lock
  BY DEF Unlock, LocksTight, LockOwned, Fault, NoFaultsOf
<1>3. ASSUME NEW j \in Locks
      PROVE  ~Abandoned(j)'
  BY <1>1, <1>2 DEF LocksTight, LockOwned, Abandoned, TypeInv, OlricTypeOK
<1> QED
  BY <1>1, <1>3 DEF LocksTight

\* A key that a node is about to list stays so, or is listed.
LEMMA CoveredStep ==
  ASSUME Covered, UNCHANGED dmap, index \subseteq index',
         \A m \in Nodes : call[m] # "none" =>
           key[m] \in index' \/ (key'[m] = key[m] /\ call'[m] # "none")
  PROVE  Covered'
<1> SUFFICES ASSUME NEW k \in Keys, dmap'[k] # None, k \notin index'
             PROVE  \E m \in Nodes : key'[m] = k /\ call'[m] # "none"
  BY DEF Covered
<1>1. PICK m \in Nodes : key[m] = k /\ call[m] # "none"
  BY DEF Covered
<1> QED
  BY <1>1

\* Steps of n outside Put that leave the map and the index alone.
LEMMA OutsidePut ==
  ASSUME TypeInv, IndexProtected, Covered, LocksTight', NEW n \in Nodes, call[n] = "none",
         UNCHANGED <<dmap, index, call, idxRead>>,
         \A m \in Nodes \ {n} : pc'[m] = pc[m] /\ key'[m] = key[m],
         \A m \in Nodes : indexLockKey \in held[m] => indexLockKey \in held'[m]
  PROVE  IndexProtected' /\ Covered'
<1>1. ASSUME NEW m \in Nodes, call[m] # "none"
      PROVE  m # n /\ pc'[m] = pc[m] /\ key'[m] = key[m]
  BY <1>1
<1>2. \A m \in Nodes :
        /\ call'[m] # "none" => pc'[m] = "put"
        /\ call'[m] \in {"idxread", "idxput", "idxunlock"} => indexLockKey \in held'[m]
  BY <1>1 DEF IndexProtected
<1>3. \A m \in Nodes :
        /\ call'[m] = "idxput" => idxRead'[m] = index'
        /\ call'[m] = "idxunlock" => key'[m] \in index'
  BY <1>1 DEF IndexProtected
<1>4. IndexProtected'
  BY <1>2, <1>3 DEF IndexProtected
<1>5. Covered'
  BY <1>1, CoveredStep
<1> QED
  BY <1>4, <1>5

\* The steps of a tick outside Put.
LEMMA TickIndexSafe ==
  ASSUME TypeInv, IndexProtected, Covered, NoFaultsOf(IndexFaults), NEW n \in Nodes,
         \/ LanEngineOnly(n) \/ LanKeys(n) \/ LanGet(n) \/ LanRecheck(n)
         \/ LanLock(n) \/ LanUnlock(n)
  PROVE  IndexProtected' /\ Covered'
<1>1. /\ pc[n] # "put"
      /\ \A m \in Nodes \ {n} : pc'[m] = pc[m] /\ key'[m] = key[m]
      /\ UNCHANGED <<dmap, index, call, idxRead>>
  BY DEF LanEngineOnly, LanKeys, LanGet, LanRecheck, LanLock, LanUnlock, EngineOnlyStep,
         ReadLocal, ApplyBest, EndLoop, FlushResource, FlushReturned, RollbackResource,
         RollbackReturned, GatherKeys, GetRecord, Recheck, LockReturned, Published, Goto,
         DropTick, tickVars, olricVars, TypeInv, EngineInv, EngineTypeOK
<1>2. call[n] = "none" /\ LocksTight
  BY <1>1 DEF IndexProtected
<1>3. CASE LanLock(n)
  <2>1. key[n] \in Locks /\ NoFaultsOf({"lock"})
    BY <1>3 DEF LanLock, LockReturned, TypeInv, EngineInv, KeyInScope, Locks, NoFaultsOf, IndexFaults
  <2>2. LocksTight' /\ held' = [held EXCEPT ![n] = @ \cup {key[n]}]
    BY <1>2, <1>3, <2>1, LockWithTimeoutTight DEF LanLock
  <2> QED
    BY <1>1, <1>2, <2>2, OutsidePut DEF TypeInv, OlricTypeOK
<1>4. CASE LanUnlock(n)
  <2>1. key[n] \in Locks /\ key[n] # indexLockKey /\ NoFaultsOf({"unlock"})
    BY <1>4, OlricAssumption
       DEF LanUnlock, Published, TypeInv, EngineInv, KeyInScope, Locks, NoFaultsOf, IndexFaults
  <2>2. LocksTight' /\ held' = [held EXCEPT ![n] = @ \ {key[n]}]
    BY <1>2, <1>4, <2>1, UnlockTight DEF LanUnlock
  <2> QED
    BY <1>1, <1>2, <2>1, <2>2, OutsidePut DEF TypeInv, OlricTypeOK
<1>5. CASE LanEngineOnly(n) \/ LanKeys(n) \/ LanGet(n) \/ LanRecheck(n)
  <2>1. UNCHANGED <<lock, held>>
    BY <1>5 DEF LanEngineOnly, LanKeys, LanGet, LanRecheck, olricVars
  <2> QED
    BY <1>1, <1>2, <2>1, OutsidePut DEF LocksTight, LockOwned, Abandoned
<1> QED
  BY <1>3, <1>4, <1>5

\* The steps of Put.
LEMMA PutIndexSafe ==
  ASSUME TypeInv, IndexProtected, Covered, NoFaultsOf(IndexFaults), NEW n \in Nodes,
         LanPutRecord(n) \/ LanPutFails(n) \/ LanAddToIndex(n) \/ LanPutReturns(n)
  PROVE  IndexProtected' /\ Covered'
<1> USE DEF TypeInv, EngineInv, EngineTypeOK, OlricTypeOK
<1>a. pc[n] = "put" /\ key[n] \in Keys /\ indexLockKey \in Locks /\ UNCHANGED key
  BY DEF LanPutRecord, LanPutFails, LanAddToIndex, LanPutReturns, PutReturned, KeyInScope,
         Locks, tickVars
<1>b. \A kind \in IndexFaults : ~Fault(kind)
  BY DEF NoFaultsOf, Fault
<1>c. NoFaultsOf({"lock"}) /\ NoFaultsOf({"unlock"})
  BY DEF NoFaultsOf, IndexFaults
<1>d. ~Fault("put") /\ ~Fault("index")
  BY <1>b DEF IndexFaults
<1>1. CASE LanPutRecord(n)
  <2>1. /\ dmap' = [dmap EXCEPT ![key[n]] = snap[n][key[n]]]
        /\ call' = [call EXCEPT ![n] = "idxlock"]
        /\ UNCHANGED <<pc, index, lock, held, idxRead>>
    BY <1>1 DEF LanPutRecord, PutRecord
  <2>2. IndexProtected'
    <3>1. call'[n] = "idxlock" /\ \A m \in Nodes \ {n} : call'[m] = call[m]
      BY <2>1
    <3>2. LocksTight'
      BY <2>1 DEF IndexProtected, LocksTight, LockOwned, Abandoned
    <3>3. UNCHANGED <<pc, key, index, held, idxRead>>
      BY <1>a, <2>1
    <3> QED
      BY <1>a, <3>1, <3>2, <3>3 DEF IndexProtected
  <2>3. Covered'
    BY <1>a, <2>1 DEF Covered
  <2> QED
    BY <2>2, <2>3
<1>2. CASE LanPutFails(n)
  BY <1>2, <1>d DEF LanPutFails, PutRecordFails
<1>3. CASE LanAddToIndex(n)
  <2>0. UNCHANGED <<pc, dmap>>
    BY <1>3 DEF LanAddToIndex, LockIndex, ReadIndex, PutIndex
  <2>1. CASE LockIndex(n)
    <3>1. LocksTight' /\ held' = [held EXCEPT ![n] = @ \cup {indexLockKey}]
      BY <1>a, <1>c, <2>1, LockWithTimeoutTight DEF LockIndex, IndexProtected
    <3>2. call[n] = "idxlock" /\ call' = [call EXCEPT ![n] = "idxread"]
          /\ UNCHANGED <<index, idxRead>>
      BY <2>1 DEF LockIndex
    <3> QED
      BY <1>a, <2>0, <3>1, <3>2 DEF IndexProtected, Covered
  <2>2. CASE ReadIndex(n, key[n])
    <3>1. /\ call[n] = "idxread" /\ UNCHANGED <<index, lock, held>>
          /\ \/ /\ key[n] \in index /\ UNCHANGED idxRead
                /\ call' = [call EXCEPT ![n] = "idxunlock"]
             \/ /\ call' = [call EXCEPT ![n] = "idxput"]
                /\ idxRead' = [idxRead EXCEPT ![n] = index]
      BY <1>d, <2>2 DEF ReadIndex
    <3>2. /\ call'[n] \in {"idxput", "idxunlock"}
          /\ call'[n] = "idxput" => idxRead'[n] = index
          /\ call'[n] = "idxunlock" => key[n] \in index
          /\ \A m \in Nodes \ {n} : call'[m] = call[m] /\ idxRead'[m] = idxRead[m]
      BY <3>1
    <3>3. UNCHANGED <<pc, key, dmap, index, held>>
      BY <1>a, <2>0, <3>1
    <3>4. LocksTight'
      BY <3>1 DEF IndexProtected, LocksTight, LockOwned, Abandoned
    <3>5. IndexProtected'
      BY <1>a, <3>1, <3>2, <3>3, <3>4 DEF IndexProtected
    <3>6. Covered'
      BY <3>2, <3>3, CoveredStep
    <3> QED
      BY <3>5, <3>6
  <2>3. CASE PutIndex(n, key[n])
    <3>1. /\ call[n] = "idxput" /\ UNCHANGED <<lock, held>>
          /\ index' = idxRead[n] \cup {key[n]}
          /\ call' = [call EXCEPT ![n] = "idxunlock"]
          /\ idxRead' = [idxRead EXCEPT ![n] = {}]
      BY <1>d, <2>3 DEF PutIndex
    <3>2. index' = index \cup {key[n]}
      BY <3>1 DEF IndexProtected
    <3>3. \A m \in Nodes \ {n} : call[m] # "idxput"
      BY <3>1, MutualExclusion DEF IndexProtected, LocksTight
    <3>4. IndexProtected'
      <4>1. /\ call'[n] = "idxunlock"
            /\ \A m \in Nodes \ {n} : call'[m] = call[m] /\ idxRead'[m] = idxRead[m]
        BY <3>1
      <4>2. UNCHANGED <<pc, key, held>>
        BY <1>a, <2>0, <3>1
      <4>3. LocksTight'
        BY <3>1 DEF IndexProtected, LocksTight, LockOwned, Abandoned
      <4> QED
        BY <1>a, <3>1, <3>2, <3>3, <4>1, <4>2, <4>3 DEF IndexProtected
    <3>5. Covered'
      <4>1. \A m \in Nodes : call[m] # "none" => call'[m] # "none"
        BY <3>1
      <4> QED
        BY <1>a, <2>0, <3>2, <4>1, CoveredStep
    <3> QED
      BY <3>4, <3>5
  <2> QED
    BY <1>3, <2>1, <2>2, <2>3 DEF LanAddToIndex
<1>4. CASE LanPutReturns(n)
  <2>1. LocksTight' /\ held' = [held EXCEPT ![n] = @ \ {indexLockKey}]
    BY <1>a, <1>c, <1>4, UnlockTight DEF LanPutReturns, UnlockIndex, IndexProtected
  <2>2. /\ call[n] = "idxunlock" /\ call' = [call EXCEPT ![n] = "none"]
        /\ pc' = [pc EXCEPT ![n] = "unlock"]
        /\ UNCHANGED <<dmap, index, idxRead>>
    BY <1>4 DEF LanPutReturns, UnlockIndex, PutReturned, Goto
  <2>3. IndexProtected'
    BY <1>a, <2>1, <2>2 DEF IndexProtected
  <2>4. Covered'
    <3>1. key[n] \in index /\ \A m \in Nodes \ {n} : call'[m] = call[m]
      BY <2>2 DEF IndexProtected
    <3> QED
      BY <1>a, <2>2, <3>1, CoveredStep
  <2> QED
    BY <2>3, <2>4
<1> QED
  BY <1>1, <1>2, <1>3, <1>4

\* Every step keeps the invariant of the index.
LEMMA IndexInvStep == IndexInv /\ [LanNext]_vars => IndexInv'
<1> SUFFICES ASSUME IndexInv, [LanNext]_vars, NoFaultsOf(IndexFaults)
             PROVE  IndexProtected' /\ Covered'
  BY TypeInvStep, AllowedStep DEF IndexInv, NoFaultsOf
<1>a. TypeInv /\ IndexProtected /\ Covered
  BY DEF IndexInv
<1>b. ~Fault("crash") /\ ~Fault("lose") /\ ~Fault("lock")
  BY DEF NoFaultsOf, Fault, IndexFaults
<1>1. ASSUME NEW n \in Nodes, NodeStep(n)
      PROVE  IndexProtected' /\ Covered'
  BY <1>1, <1>a, TickIndexSafe, PutIndexSafe DEF NodeStep
<1>2. ASSUME NEW n \in Nodes, LanCrash(n) \/ LanRestart(n) \/ LanRenew(n)
      PROVE  IndexProtected' /\ Covered'
  <2>1. CASE LanCrash(n)
    BY <1>b, <2>1 DEF LanCrash, Crash
  <2>2. CASE LanRestart(n)
    <3>1. /\ pc' = [pc EXCEPT ![n] = "idle"] /\ pc[n] = "down" /\ pc \in [Nodes -> PCs]
          /\ UNCHANGED <<key, dmap, index, lock, held, call, idxRead>>
      BY <1>a, <2>2 DEF LanRestart, Restart, Goto, tickVars, olricVars, TypeInv, EngineInv,
                        EngineTypeOK
    <3>2. call[n] = "none"
      BY <1>a, <3>1 DEF IndexProtected
    <3>3. LocksTight'
      BY <1>a, <3>1 DEF IndexProtected, LocksTight, LockOwned, Abandoned
    <3> QED
      BY <1>a, <3>1, <3>2, <3>3, OutsidePut
  <2>3. CASE LanRenew(n)
    <3>1. UNCHANGED <<pc, key, dmap, index, lock, held, call, idxRead>>
      BY <2>3 DEF LanRenew, Renew, tickVars, olricVars
    <3> QED
      BY <1>a, <3>1 DEF IndexProtected, LocksTight, LockOwned, Abandoned, Covered
  <2> QED
    BY <1>2, <2>1, <2>2, <2>3
<1>3. ASSUME NEW l \in Locks, LanExpire(l)
      PROVE  FALSE
  BY <1>3, <1>a, <1>b DEF LanExpire, LockExpires, IndexProtected, LocksTight
<1>4. CASE LanLose
  BY <1>4, <1>b DEF LanLose, EntryLost
<1>5. CASE UNCHANGED vars
  <2>1. UNCHANGED <<pc, key, dmap, index, lock, held, call, idxRead>>
    BY <1>5 DEF vars, engineVars, tickVars, olricVars
  <2> QED
    BY <1>a, <2>1 DEF IndexProtected, LocksTight, LockOwned, Abandoned, Covered
<1> QED
  BY <1>1, <1>2, <1>3, <1>4, <1>5 DEF LanNext

(***************************************************************************)
(* No update of the shared index is lost, for every number of nodes and    *)
(* keys and every interleaving of their Puts: every stored record is       *)
(* listed, or the Put that stored it is still at work (addToIndex).        *)
(***************************************************************************)
THEOREM LanIndexCoversRecords == LanSpec => []IndexCoversRecords
<1>1. IndexInv => IndexCoversRecords
  BY DEF IndexInv, IndexFaults, Covered, IndexCoversRecords
<1> QED
  BY <1>1, IndexInvInit, IndexInvStep, PTL DEF LanSpec
-----------------------------------------------------------------------------
(* What the load balancers run *)

\* Apply has replaced the file of k, and the hook or the rollback that answers
\* this is still to come.
Unanswered(n, k) ==
  /\ k \in changed[n]
  /\ pc[n] = "flush" => k \in todo[n] \/ flushErr[n]
  /\ pc[n] = "rollback" => k \in todo[n]

\* For a node n with the one resource k: a tick visits k at most once, hooks and
\* rollbacks are for k alone, a failed hook is answered by a rollback, and the
\* load balancer runs the backup where a change is unanswered and the file
\* everywhere else.
NodeLoads(n, k) ==
  /\ pc[n] # "down"
  /\ changed[n] \subseteq {k}
  /\ pc[n] \in {"idle", "keys"} => changed[n] = {}
  /\ pc[n] \in InLoop => /\ key[n] = k => k \notin todo[n] \cup changed[n]
                         /\ k \in changed[n] => k \notin todo[n]
  /\ pc[n] = "loop" => (k \in changed[n] => k \notin todo[n])
  /\ pc[n] \in {"flush", "rollback"} => todo[n] \subseteq changed[n]
  /\ flushErr[n] => pc[n] = "rollback" \/ (pc[n] = "flush" /\ todo[n] = {})
  /\ loaded[n][k] \in {None, IF Unanswered(n, k) THEN disk[n][k].bak ELSE disk[n][k].file}

NoKillNoFailedRestore == NoFaultsOf({"crash", "restore", "nobackup"})

LoadsInv ==
  /\ TypeInv
  /\ NoKillNoFailedRestore =>
       \A n \in Nodes, k \in Keys : Configured[n] = {k} => NodeLoads(n, k)

\* Nothing is loaded at the start.
LEMMA LoadsInvInit == LanInit => LoadsInv
<1> SUFFICES ASSUME LanInit
             PROVE  \A n \in Nodes, k \in Keys : NodeLoads(n, k)
  BY TypeInvInit DEF LoadsInv
<1> QED
  BY DEF LanInit, EngineInit, ProviderInit, NodeLoads, InLoop

\* What NodeLoads depends on.
LEMMA LoadsFrame ==
  ASSUME NEW n, NEW k, NodeLoads(n, k),
         pc'[n] = pc[n], todo'[n] = todo[n], key'[n] = key[n], changed'[n] = changed[n],
         flushErr'[n] = flushErr[n], disk'[n] = disk[n], loaded'[n] = loaded[n]
  PROVE  NodeLoads(n, k)'
BY DEF NodeLoads, Unanswered

\* The end of a tick whose changes are all answered.
LEMMA LoadsTickEnds ==
  ASSUME TypeInv, NEW n \in Nodes, NEW k \in Keys, NodeLoads(n, k), ~Unanswered(n, k),
         Goto(n, "idle"), DropTick(n), UNCHANGED providerVars
  PROVE  NodeLoads(n, k)'
<1>1. pc'[n] = "idle" /\ changed'[n] = {} /\ ~flushErr'[n] /\ UNCHANGED <<disk, loaded>>
  BY DEF TypeInv, EngineInv, EngineTypeOK, Goto, DropTick, providerVars
<1> QED
  BY <1>1 DEF NodeLoads, Unanswered, InLoop

\* Apply keeps what was loaded: as the backup of a file it replaces.
LEMMA LoadsApply ==
  ASSUME TypeInv, NEW n \in Nodes, NEW k \in Keys, Configured[n] = {k}, NodeLoads(n, k),
         NoKillNoFailedRestore, ApplyBest(n)
  PROVE  NodeLoads(n, k)'
<1>a. /\ pc[n] = "apply" /\ pc'[n] = "loop" /\ UNCHANGED <<todo, flushErr, loaded>>
      /\ disk[n][k] \in Disk /\ changed \in [Nodes -> SUBSET Keys]
      /\ disk \in [Nodes -> [Keys -> Disk]]
  BY DEF ApplyBest, Goto, TypeInv, EngineInv, EngineTypeOK, ProviderTypeOK
<1>d. ~Fault("nobackup")
  BY DEF NoKillNoFailedRestore, NoFaultsOf, Fault
<1>b. ~flushErr[n] /\ (k \in changed[n] => key[n] # k /\ k \notin todo[n])
      /\ (key[n] = k => k \notin todo[n])
  BY <1>a DEF NodeLoads, InLoop
<1>c. loaded[n][k] \in {None, IF k \in changed[n] THEN disk[n][k].bak ELSE disk[n][k].file}
  BY <1>a DEF NodeLoads, Unanswered
<1>1. CASE disk'[n][k] = disk[n][k] /\ changed' = changed
  BY <1>a, <1>b, <1>c, <1>1 DEF NodeLoads, Unanswered, InLoop
<1>2. CASE /\ key[n] = k /\ changed'[n] = {k}
           /\ disk'[n][k] = [file |-> Best(n), bak |-> Backup(disk[n][k])]
  <2>1. loaded[n][k] \in {None, disk'[n][k].bak}
    <3>1. k \notin changed[n] /\ disk'[n][k].bak = Backup(disk[n][k])
      BY <1>b, <1>2
    <3>2. loaded[n][k] \in {None, disk[n][k].file}
      BY <1>c, <3>1
    <3> QED
      BY <3>1, <3>2 DEF Backup
  <2> QED
    BY <1>a, <1>b, <1>2, <2>1 DEF NodeLoads, Unanswered, InLoop
<1>3. CASE /\ key[n] = k /\ changed' = changed
           /\ disk'[n][k] = [disk[n][k] EXCEPT !.bak = Backup(disk[n][k])]
  <2>1. disk'[n][k].file = disk[n][k].file
    BY <1>a, <1>3 DEF Disk
  <2> QED
    BY <1>a, <1>b, <1>c, <1>3, <2>1 DEF NodeLoads, Unanswered, InLoop
<1>4. CASE key[n] # k
  <2>1. disk' = disk /\ changed' = changed
    BY <1>4, <1>d DEF ApplyBest, Apply, ApplyFailed, Changes
  <2> QED
    BY <1>1, <2>1
<1>5. CASE key[n] = k
  <2>1. CASE UNCHANGED <<disk, changed>>
    BY <1>1, <2>1
  <2>2. CASE /\ disk' = [disk EXCEPT ![n][k] = WriteTo(disk[n][k], Best(n))]
             /\ changed' = IF Changes(n, k, Best(n)) THEN [changed EXCEPT ![n] = @ \cup {k}]
                                                     ELSE changed
    <3>1. CASE SameBytes(disk[n][k].file, Best(n))
      BY <1>1, <1>a, <2>2, <3>1 DEF WriteTo, WriteAtomic, Changes
    <3>2. CASE ~SameBytes(disk[n][k].file, Best(n))
      <4>1. disk'[n][k] = [file |-> Best(n), bak |-> Backup(disk[n][k])]
        BY <1>a, <2>2, <3>2 DEF WriteTo, WriteAtomic
      <4>2. changed'[n] = {k}
        BY <1>a, <2>2, <3>2 DEF Changes, NodeLoads
      <4> QED
        BY <1>2, <1>5, <4>1, <4>2
    <3> QED
      BY <3>1, <3>2
  <2>3. CASE ApplyFailed(n, k, Best(n)) /\ UNCHANGED changed
    BY <1>1, <1>3, <1>5, <1>a, <2>3 DEF ApplyFailed, WriteAtomicFailed
  <2> QED
    BY <1>5, <1>d, <2>1, <2>2, <2>3 DEF ApplyBest, Apply
<1> QED
  BY <1>4, <1>5

\* The hook, and the rollback that follows a hook that failed.
LEMMA LoadsFlush ==
  ASSUME TypeInv, NEW n \in Nodes, NEW k \in Keys, NodeLoads(n, k), NoKillNoFailedRestore,
         EndLoop(n) \/ FlushResource(n) \/ FlushReturned(n) \/ RollbackResource(n)
           \/ RollbackReturned(n)
  PROVE  NodeLoads(n, k)'
<1>a. /\ pc \in [Nodes -> PCs] /\ todo \in [Nodes -> SUBSET Keys]
      /\ changed \in [Nodes -> SUBSET Keys] /\ flushErr \in [Nodes -> BOOLEAN]
      /\ disk \in [Nodes -> [Keys -> Disk]] /\ loaded \in [Nodes -> [Keys -> RecordOrNone]]
  BY DEF TypeInv, EngineInv, EngineTypeOK, ProviderTypeOK
<1>1. CASE EndLoop(n)
  <2>1. CASE changed[n] = {}
    BY <1>1, <2>1, LoadsTickEnds DEF EndLoop, Unanswered
  <2>2. CASE changed[n] # {}
    <3>1. /\ pc[n] = "loop" /\ pc'[n] = "flush" /\ todo'[n] = changed[n]
          /\ UNCHANGED <<changed, flushErr, disk, loaded>>
      BY <1>1, <1>a, <2>2 DEF EndLoop, Goto, providerVars
    <3> QED
      BY <3>1 DEF NodeLoads, Unanswered, InLoop
  <2> QED
    BY <2>1, <2>2
<1>2. CASE FlushResource(n)
  <2>1. PICK j \in todo[n], outcome \in HookOutcomes :
          /\ RunHook(n, j, outcome)
          /\ todo' = [todo EXCEPT ![n] = @ \ {j}]
          /\ IF outcome = "ok" THEN UNCHANGED flushErr
                               ELSE flushErr' = [flushErr EXCEPT ![n] = TRUE]
    BY <1>2 DEF FlushResource
  <2>2. /\ pc[n] = "flush" /\ UNCHANGED <<pc, changed, disk>>
        /\ j = k /\ k \in changed[n] /\ todo[n] = {k} /\ ~flushErr[n]
    <3>1. pc[n] = "flush" /\ UNCHANGED <<pc, changed, disk>>
      BY <1>2 DEF FlushResource
    <3>2. todo[n] \subseteq changed[n] /\ changed[n] \subseteq {k}
      BY <3>1 DEF NodeLoads
    <3>3. todo[n] # {} /\ ~flushErr[n]
      BY <2>1, <3>1 DEF NodeLoads
    <3> QED
      BY <2>1, <3>1, <3>2, <3>3
  <2>3. todo'[n] = {}
    BY <1>a, <2>1, <2>2
  <2>4. CASE outcome = "ok"
    <3>1. loaded'[n][k] = disk[n][k].file /\ ~flushErr'[n]
      BY <1>a, <2>1, <2>2, <2>4 DEF RunHook
    <3> QED
      BY <2>2, <2>3, <3>1 DEF NodeLoads, Unanswered, InLoop
  <2>5. CASE outcome # "ok"
    <3>1. loaded' = loaded /\ flushErr'[n]
      BY <1>a, <2>1, <2>5 DEF RunHook
    <3> QED
      BY <2>2, <2>3, <3>1 DEF NodeLoads, Unanswered, InLoop
  <2> QED
    BY <2>4, <2>5
<1>3. CASE FlushReturned(n)
  <2>1. CASE flushErr[n]
    <3>1. /\ pc[n] = "flush" /\ pc'[n] = "rollback" /\ todo'[n] = changed[n]
          /\ UNCHANGED <<changed, flushErr, disk, loaded>>
      BY <1>3, <1>a, <2>1 DEF FlushReturned, Goto, providerVars
    <3> QED
      BY <2>1, <3>1 DEF NodeLoads, Unanswered, InLoop
  <2>2. CASE ~flushErr[n]
    BY <1>3, <2>2, LoadsTickEnds DEF FlushReturned, Unanswered
  <2> QED
    BY <2>1, <2>2
<1>4. CASE RollbackResource(n)
  <2>1. PICK j \in todo[n] : Rollback(n, j) /\ todo' = [todo EXCEPT ![n] = @ \ {j}]
    BY <1>4 DEF RollbackResource, Fault, NoKillNoFailedRestore, NoFaultsOf
  <2>2. /\ pc[n] = "rollback" /\ UNCHANGED <<pc, changed, flushErr, loaded>>
        /\ j = k /\ k \in changed[n] /\ k \in todo[n]
    BY <1>4, <2>1 DEF RollbackResource, NodeLoads
  <2>3. disk'[n][k] = Restore(disk[n][k]) /\ todo'[n] \subseteq todo[n] \ {k}
    BY <1>a, <2>1, <2>2 DEF Rollback
  <2>4. loaded[n][k] \in {None, disk[n][k].bak}
    BY <2>2 DEF NodeLoads, Unanswered
  <2>5. loaded[n][k] \in {None, disk'[n][k].file}
    <3>1. CASE disk[n][k].bak = None
      BY <2>4, <3>1
    <3>2. CASE disk[n][k].bak # None
      <4>1. disk'[n][k].file = disk[n][k].bak
        BY <2>3, <3>2 DEF Restore
      <4> QED
        BY <2>4, <4>1
    <3> QED
      BY <3>1, <3>2
  <2> QED
    BY <2>2, <2>3, <2>5 DEF NodeLoads, Unanswered, InLoop
<1>5. CASE RollbackReturned(n)
  BY <1>5, LoadsTickEnds DEF RollbackReturned, Unanswered
<1> QED
  BY <1>1, <1>2, <1>3, <1>4, <1>5

\* The steps of the loop that leave the files alone.
LEMMA LoadsCalls ==
  ASSUME TypeInv, NEW n \in Nodes, NEW k \in Keys, NodeLoads(n, k),
         NodeStep(n), ~LanEngineOnly(n) \/ ReadLocal(n)
  PROVE  NodeLoads(n, k)'
<1>a. /\ pc \in [Nodes -> PCs] /\ todo \in [Nodes -> SUBSET Keys]
      /\ key \in [Nodes -> Keys \cup {None}]
  BY DEF TypeInv, EngineInv, EngineTypeOK
<1>1. CASE ReadLocal(n)
  <2>1. /\ pc[n] = "idle" /\ pc'[n] = "keys" /\ UNCHANGED <<todo, changed, flushErr, disk, loaded>>
    BY <1>1, <1>a DEF ReadLocal, Goto, providerVars
  <2> QED
    BY <2>1 DEF NodeLoads, Unanswered, InLoop
<1>2. CASE LanKeys(n)
  <2>1. /\ pc[n] = "keys" /\ pc'[n] = "loop" /\ UNCHANGED <<changed, flushErr, disk, loaded>>
    BY <1>2, <1>a DEF LanKeys, GatherKeys, Goto, providerVars
  <2> QED
    BY <2>1 DEF NodeLoads, Unanswered, InLoop
<1>3. CASE LanGet(n)
  <2>1. PICK j \in Keys, r \in RecordOrNone : GetRecord(n, j, r)
    BY <1>3 DEF LanGet
  <2>2. /\ pc[n] = "loop" /\ pc'[n] \in {"lock", "apply"} /\ j \in todo[n]
        /\ key'[n] = j /\ todo'[n] = todo[n] \ {j}
        /\ UNCHANGED <<changed, flushErr, disk, loaded>>
    BY <1>a, <2>1 DEF GetRecord, NextKeys, Goto, providerVars
  <2> QED
    BY <2>2 DEF NodeLoads, Unanswered, InLoop
<1>4. CASE /\ pc[n] \in InLoop /\ pc'[n] \in InLoop
           /\ UNCHANGED <<todo, key, changed, flushErr, disk, loaded>>
  BY <1>4 DEF NodeLoads, Unanswered, InLoop
<1>5. CASE LanLock(n) \/ LanRecheck(n) \/ LanPutFails(n) \/ LanPutReturns(n) \/ LanUnlock(n)
  BY <1>4, <1>5, <1>a DEF LanLock, LanRecheck, LanPutFails, LanPutReturns, LanUnlock, LockReturned,
         Recheck, PutReturned, Published, Goto, InLoop, tickVars, providerVars
<1>6. CASE LanPutRecord(n) \/ LanAddToIndex(n)
  BY <1>4, <1>6 DEF LanPutRecord, LanAddToIndex, InLoop, tickVars, providerVars
<1> QED
  BY <1>1, <1>2, <1>3, <1>5, <1>6 DEF NodeStep

\* A step of one node's tick leaves the ticks and the files of the others alone.
LEMMA OthersLoadsUntouched ==
  ASSUME TypeInv, NEW n \in Nodes, NodeStep(n), NEW m \in Nodes, m # n
  PROVE  /\ pc'[m] = pc[m] /\ todo'[m] = todo[m] /\ key'[m] = key[m]
         /\ changed'[m] = changed[m] /\ flushErr'[m] = flushErr[m]
         /\ disk'[m] = disk[m] /\ loaded'[m] = loaded[m]
<1> USE DEF Goto
<1>a. /\ pc \in [Nodes -> PCs] /\ todo \in [Nodes -> SUBSET Keys]
      /\ key \in [Nodes -> Keys \cup {None}] /\ changed \in [Nodes -> SUBSET Keys]
      /\ flushErr \in [Nodes -> BOOLEAN] /\ disk \in [Nodes -> [Keys -> Disk]]
      /\ loaded \in [Nodes -> [Keys -> RecordOrNone]]
  BY DEF TypeInv, EngineInv, EngineTypeOK, ProviderTypeOK
<1>1. CASE LanEngineOnly(n)
  <2>1. CASE ReadLocal(n) \/ RollbackReturned(n)
    BY <1>a, <2>1 DEF ReadLocal, RollbackReturned, DropTick, providerVars
  <2>2. CASE EndLoop(n) \/ FlushReturned(n)
    BY <1>a, <2>2 DEF EndLoop, FlushReturned, DropTick, providerVars
  <2>3. CASE FlushResource(n)
    BY <1>a, <2>3 DEF FlushResource, RunHook
  <2>4. CASE ApplyBest(n)
    BY <1>a, <2>4 DEF ApplyBest, Apply, ApplyFailed, ApplyUnread
  <2>5. CASE RollbackResource(n)
    BY <1>a, <2>5 DEF RollbackResource, Rollback
  <2> QED
    BY <1>1, <2>1, <2>2, <2>3, <2>4, <2>5 DEF LanEngineOnly, EngineOnlyStep
<1>2. CASE LanKeys(n) \/ LanGet(n)
  BY <1>a, <1>2 DEF LanKeys, LanGet, GatherKeys, GetRecord, providerVars
<1>3. CASE LanLock(n) \/ LanRecheck(n) \/ LanPutFails(n) \/ LanPutReturns(n) \/ LanUnlock(n)
  BY <1>a, <1>3 DEF LanLock, LanRecheck, LanPutFails, LanPutReturns, LanUnlock, LockReturned,
              Recheck, PutReturned, Published, tickVars, providerVars
<1>4. CASE LanPutRecord(n) \/ LanAddToIndex(n)
  BY <1>4 DEF LanPutRecord, LanAddToIndex, tickVars, providerVars
<1> QED
  BY <1>1, <1>2, <1>3, <1>4 DEF NodeStep

\* Every step keeps LoadsInv.
LEMMA LoadsInvStep == LoadsInv /\ [LanNext]_vars => LoadsInv'
<1> SUFFICES ASSUME LoadsInv, [LanNext]_vars
             PROVE  LoadsInv'
  OBVIOUS
<1>1. TypeInv /\ TypeInv'
  BY TypeInvStep DEF LoadsInv
<1>2. NoKillNoFailedRestore' => NoKillNoFailedRestore
  BY AllowedStep DEF NoKillNoFailedRestore, NoFaultsOf
<1>3. ASSUME NoKillNoFailedRestore, NEW m \in Nodes, NEW k \in Keys, Configured[m] = {k}
      PROVE  NodeLoads(m, k)'
  <2>a. NodeLoads(m, k) /\ ~Fault("crash")
    BY <1>3 DEF LoadsInv, NoKillNoFailedRestore, NoFaultsOf, Fault
  <2>1. ASSUME NEW n \in Nodes, NodeStep(n)
        PROVE  NodeLoads(m, k)'
    <3>1. CASE m # n
      BY <1>1, <2>1, <2>a, <3>1, OthersLoadsUntouched, LoadsFrame
    <3>2. CASE m = n /\ ApplyBest(n)
      BY <1>1, <1>3, <2>a, <3>2, LoadsApply
    <3>3. CASE m = n /\ (~LanEngineOnly(n) \/ ReadLocal(n))
      BY <1>1, <2>1, <2>a, <3>3, LoadsCalls
    <3>4. CASE m = n /\ LanEngineOnly(n) /\ ~ApplyBest(n) /\ ~ReadLocal(n)
      BY <1>1, <1>3, <2>a, <3>4, LoadsFlush DEF LanEngineOnly, EngineOnlyStep
    <3> QED
      BY <3>1, <3>2, <3>3, <3>4
  <2>2. CASE \E n \in Nodes : LanCrash(n)
    BY <2>2, <2>a DEF LanCrash, Crash
  <2>3. CASE UNCHANGED <<pc, todo, key, changed, flushErr, disk, loaded>>
    BY <2>3, <2>a, LoadsFrame
  <2>4. CASE \E n \in Nodes : LanRestart(n)
    <3>1. PICK n \in Nodes : LanRestart(n)
      BY <2>4
    <3>2. pc[n] = "down" /\ pc' = [pc EXCEPT ![n] = "idle"] /\ n # m
      BY <3>1, <2>a DEF LanRestart, Restart, Goto, NodeLoads
    <3>3. pc'[m] = pc[m]
      BY <1>1, <3>2 DEF TypeInv, EngineInv, EngineTypeOK
    <3> QED
      BY <3>1, <3>3, <2>a, LoadsFrame DEF LanRestart, Restart, tickVars, providerVars
  <2>5. CASE \E n \in Nodes : LanRenew(n)
    BY <2>3, <2>5 DEF LanRenew, Renew, tickVars
  <2>6. CASE (\E l \in Locks : LanExpire(l)) \/ LanLose
    BY <2>3, <2>6 DEF LanExpire, LanLose, tickVars, providerVars
  <2>7. CASE UNCHANGED vars
    BY <2>3, <2>7 DEF vars, engineVars, tickVars, providerVars
  <2> QED
    BY <2>1, <2>2, <2>4, <2>5, <2>6, <2>7 DEF LanNext
<1> QED
  BY <1>1, <1>2, <1>3 DEF LoadsInv

(***************************************************************************)
(* Verify, reload, rollback: on a node with one resource the load balancer *)
(* runs what is on disk whenever no tick is under way, whatever hooks and  *)
(* writes failed before, as long as restores succeed and the process is    *)
(* not killed between Apply and Flush.                                     *)
(***************************************************************************)
THEOREM LanLoadedMatchesDisk == LanSpec => []LoadedMatchesDisk
<1>1. LoadsInv => LoadedMatchesDisk
  BY DEF LoadsInv, NoKillNoFailedRestore, NodeLoads, Unanswered, LoadedMatchesDisk
<1> QED
  BY <1>1, LoadsInvInit, LoadsInvStep, PTL DEF LanSpec

=============================================================================
