------------------------------ MODULE LanSystem ------------------------------
(***************************************************************************)
(* The deployment on a LAN: the engine and blob provider of every node on  *)
(* top of the Olric backend, with crashes, restarts, replaced source files *)
(* and failing operations.                                                 *)
(***************************************************************************)
EXTENDS Engine, Olric

vars == <<engineVars, olricVars>>

Up == {n \in Nodes : pc[n] # "down"}

LanInit == EngineInit /\ OlricInit

-----------------------------------------------------------------------------
(* The engine's calls, answered by Olric. *)

LanKeys(n) ==
  /\ \E ks \in SUBSET Keys : KeysOf(ks) /\ GatherKeys(n, ks)
  /\ UNCHANGED olricVars

LanGet(n) ==
  /\ \E k \in Keys, r \in RecordOrNone : Get(k, r) /\ GetRecord(n, k, r)
  /\ UNCHANGED olricVars

LanLock(n) ==
  /\ LockReturned(n)
  /\ LockWithTimeout(n, key[n])
  /\ UNCHANGED <<dmap, index, call, idxRead>>

LanRecheck(n) ==
  /\ \E r \in RecordOrNone : Recheck(n, r) /\ Get(key[n], r)
  /\ UNCHANGED olricVars

LanPutRecord(n) ==
  /\ pc[n] = "put"
  /\ PutRecord(n, key[n], snap[n][key[n]])
  /\ UNCHANGED <<pc, tickVars, providerVars>>

LanPutFails(n) ==
  /\ PutReturned(n)
  /\ PutRecordFails(n, key[n], snap[n][key[n]])

LanAddToIndex(n) ==
  /\ pc[n] = "put"
  /\ LockIndex(n) \/ ReadIndex(n, key[n]) \/ PutIndex(n, key[n])
  /\ UNCHANGED <<pc, tickVars, providerVars>>

LanPutReturns(n) ==
  /\ UnlockIndex(n)
  /\ PutReturned(n)

LanUnlock(n) ==
  /\ Published(n)
  /\ Unlock(n, key[n])
  /\ UNCHANGED <<dmap, index, call, idxRead>>

LanEngineOnly(n) ==
  /\ EngineOnlyStep(n)
  /\ UNCHANGED olricVars

NodeStep(n) ==
  \/ LanEngineOnly(n)
  \/ LanKeys(n) \/ LanGet(n)
  \/ LanLock(n) \/ LanRecheck(n)
  \/ LanPutRecord(n) \/ LanPutFails(n) \/ LanAddToIndex(n) \/ LanPutReturns(n)
  \/ LanUnlock(n)

LanCrash(n) ==
  /\ Crash(n)
  /\ MemberLeaves(n, Up # {n})

LanRestart(n) ==
  /\ Restart(n)
  /\ UNCHANGED olricVars

LanRenew(n) ==
  /\ Renew(n)
  /\ UNCHANGED olricVars

LanExpire(l) ==
  /\ LockExpires(l)
  /\ UNCHANGED <<pc, tickVars, providerVars>>

LanLose ==
  /\ EntryLost
  /\ UNCHANGED <<pc, tickVars, providerVars>>

LanNext ==
  \/ \E n \in Nodes : NodeStep(n) \/ LanCrash(n) \/ LanRestart(n) \/ LanRenew(n)
  \/ \E l \in Locks : LanExpire(l)
  \/ LanLose

LanSpec == LanInit /\ [][LanNext]_vars

(***************************************************************************)
(* Every engine keeps ticking (Run's ticker), a stopped process is started *)
(* again, and the lock of a key, which maybePublish waits for as long as   *)
(* it lives, expires.  Nothing is assumed of the lock of the index, and    *)
(* nothing obliges a source file to be replaced.                           *)
(***************************************************************************)
Fairness ==
  /\ \A n \in Nodes : WF_vars(NodeStep(n)) /\ WF_vars(LanRestart(n))
  /\ \A k \in Keys : WF_vars(LanExpire(k))

FairSpec == LanSpec /\ Fairness

-----------------------------------------------------------------------------
(* Safety *)

\* The types of all state of the LAN deployment.
TypeOK == EngineTypeOK /\ OlricTypeOK

\* A lock that a node has still to release is its own.
LockOwned ==
  \A n \in Nodes : \A l \in held[n] : lock[l] = n

\* The key is locked from the re-check to the release, Put's own steps happen
\* inside "put", and a process that is down holds nothing.
CriticalSection ==
  \A n \in Nodes :
    /\ pc[n] \in {"recheck", "put", "unlock"} => key[n] \in held[n]
    /\ call[n] # "none" => pc[n] = "put"
    /\ pc[n] = "down" => held[n] = {}

\* When Put stores the record, what the re-check found is still true.
RecheckStillHolds ==
  \A n \in Nodes :
    pc[n] = "put" /\ call[n] = "none" => MustPublish(snap[n][key[n]], dmap[key[n]])

Protected == LockOwned /\ CriticalSection /\ RecheckStillHolds

\* Locks are obtained and do not expire under their holder, Get answers, and
\* no record disappears.
LocksHold == NoFaultsOf({"lock", "get", "lose"})

(***************************************************************************)
(* The lock makes the re-check of maybePublish and the Put after it one:   *)
(* what the re-check found is not stale when Put acts on it.               *)
(***************************************************************************)
PublishSafe == LocksHold => Protected

(***************************************************************************)
(* maybePublish never replaces a record by one that is not newer: what the *)
(* cluster holds for a key only ever gets newer, whatever the interleaving *)
(* of two publishers, crashes and failing Puts included, until the last    *)
(* member is gone.                                                         *)
(***************************************************************************)
ClusterNeverRegresses ==
  [][LocksHold =>
       \A k \in Keys : NotNewerThan(dmap[k], dmap'[k]) \/ Up' = {}]_vars

(***************************************************************************)
(* The distributed map as a newest-wins register per key that every node   *)
(* holds.  Where the locks of a behaviour do not hold nothing is claimed:  *)
(* the registers are taken to be empty there.                              *)
(***************************************************************************)
Register == INSTANCE NewestWins
  WITH Members <- Nodes, Registers <- Keys, Holders <- [k \in Keys |-> Nodes],
       best <- IF LocksHold THEN dmap ELSE NoRecords, up <- Up

(***************************************************************************)
(* The engine on top of Olric implements newest-wins registers: lock,      *)
(* re-check, Put and release, interrupted anywhere by a crash or a failing *)
(* Put, look like one atomic publish of a newer record, and the map is     *)
(* forgotten with the last member only.                                    *)
(***************************************************************************)
ImplementsNewestWins == Register!Spec

(***************************************************************************)
(* addToIndex under the index lock loses no update: a stored record is     *)
(* listed, or the Put that stored it has yet to list it.  Receive-only     *)
(* nodes depend on it.  A Put that fails halfway breaks it, and so does a  *)
(* lock left behind, on which others give up.                              *)
(***************************************************************************)
IndexCoversRecords ==
  NoFaultsOf({"lock", "unlock", "index", "put", "crash", "lose"}) =>
    \A k \in Keys :
      dmap[k] # None => \/ k \in index
                        \/ \E n \in Nodes : key[n] = k /\ call[n] # "none"

\* What is published is stored and stays stored.
ClusterKeeps == LocksHold /\ NoFaultsOf({"put", "crash"})

(***************************************************************************)
(* tickProvider applies a local record only after maybePublish: nothing is *)
(* served that is newer than what the cluster holds.                       *)
(***************************************************************************)
ServedInCluster ==
  ClusterKeeps =>
    \A n \in Nodes, k \in Keys : NotNewerThan(disk[n][k].file, dmap[k])

(***************************************************************************)
(* The destination file goes back to an older record only in a rollback:   *)
(* although Apply uses the answer of a Get made before the publish, and    *)
(* source files are replaced by older ones, a tick never applies a record  *)
(* older than the one served.                                              *)
(***************************************************************************)
ServedNeverRegresses ==
  [][ClusterKeeps =>
       \A n \in Nodes, k \in Keys :
         NotNewerThan(disk[n][k].file, disk'[n][k].file) \/ pc[n] = "rollback"]_vars

(***************************************************************************)
(* Verify, reload, rollback: between ticks the load balancer runs what is  *)
(* on disk, or has never been loaded; a failed hook leaves no unverified   *)
(* file behind once there is a previous copy.  For nodes with one resource *)
(* and processes that are not killed between Apply and Flush, and where    *)
(* the file to be replaced could be read and backed up.                    *)
(***************************************************************************)
LoadedMatchesDisk ==
  NoFaultsOf({"crash", "restore", "nobackup"}) =>
    \A n \in Nodes, k \in Keys :
      Configured[n] = {k} /\ pc[n] \in {"idle", "keys"} =>
        loaded[n][k] \in {None, disk[n][k].file}

-----------------------------------------------------------------------------
(* Liveness *)

(***************************************************************************)
(* A source file is never lost to the cluster: after finitely many crashes *)
(* and failing reads, Gets, Puts, locks and releases, and lost entries,    *)
(* the cluster ends up holding something at least as new as every source   *)
(* file, because every tick compares and publishes again.                  *)
(***************************************************************************)
ClusterCatchesUp ==
  \A n \in Nodes, k \in Keys : <>[](NotNewerThan(local[n][k], dmap[k]))

(***************************************************************************)
(* Every node ends up serving the record the cluster holds for each        *)
(* resource it is configured with, as long as that record is listed in the *)
(* index (see IndexCoversRecords) and not lost.                            *)
(***************************************************************************)
EveryoneServesNewest ==
  \A n \in Nodes : \A k \in Configured[n] :
    <>[](NoFaultsOf({"lock", "unlock", "index", "put", "crash", "lose"}) =>
           dmap[k] = None \/ SameBytes(disk[n][k].file, dmap[k]))

(***************************************************************************)
(* A tick ends: a node waits neither for ever for another one that holds   *)
(* the lock of a key and waits for that of the index, nor for a node that  *)
(* stopped or failed to release a lock.  Every wait of maybePublish and    *)
(* addToIndex ends with the lock or without it.                            *)
(***************************************************************************)
TickTerminates ==
  \A n \in Nodes : (pc[n] # "idle") ~> (pc[n] \in {"idle", "down"})

(***************************************************************************)
(* Once a node's load balancer has loaded a resource it ends up running    *)
(* what is on disk, also when the failing hook of another resource rolled  *)
(* it back after it was loaded: the following ticks try again.             *)
(***************************************************************************)
LoadsSettle ==
  \A n \in Nodes, k \in Keys :
    <>[](NoFaultsOf({"crash", "restore", "nobackup"}) =>
           loaded[n][k] \in {None, disk[n][k].file})

-----------------------------------------------------------------------------
(* What comments in the code say, and the code does not do. *)

(***************************************************************************)
(* cluster.go, addToIndex: "The index converges even if an update is lost, *)
(* because each owner re-publishes (and re-indexes) its keys every         *)
(* reconcile tick."                                                        *)
(***************************************************************************)
IndexConverges ==
  \A k \in Keys : <>[](dmap[k] = None \/ k \in index)
=============================================================================
