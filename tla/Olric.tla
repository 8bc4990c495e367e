-------------------------------- MODULE Olric --------------------------------
(***************************************************************************)
(* The LAN backend (internal/cluster/cluster.go): one distributed map per  *)
(* kind, holding the records, the key index and the locks.                 *)
(*                                                                         *)
(* The embedded Olric members themselves are outside the repository.  The  *)
(* code uses them as a map with atomic Get, Put and NX locks that expire,  *)
(* replicated to every member (replica count = number of peers + 1), so    *)
(* the map survives any crash but that of the last member.  A read or a    *)
(* write may fail, and a failed write may still have taken effect.         *)
(***************************************************************************)
EXTENDS Deployment

CONSTANT
  indexLockKey   \* the reserved key that locks the index

ASSUME OlricAssumption == indexLockKey \notin Keys

VARIABLES
  dmap,      \* dmap[k]: the record stored under k, or None
  index,     \* the key list stored under indexKey
  lock,      \* lock[l]: the node whose token is stored in lock l, or None
  held,      \* held[n]: the locks whose release function n still has to call
  call,      \* how far n is inside Put
  idxRead    \* the index as addToIndex of n read it

olricVars == <<dmap, index, lock, held, call, idxRead>>

Locks == Keys \cup {indexLockKey}

Calls == {"none", "idxlock", "idxread", "idxput", "idxunlock"}

OlricTypeOK ==
  /\ dmap \in [Keys -> RecordOrNone]
  /\ index \in SUBSET Keys
  /\ lock \in [Locks -> Nodes \cup {None}]
  /\ held \in [Nodes -> SUBSET Locks]
  /\ call \in [Nodes -> Calls]
  /\ idxRead \in [Nodes -> SUBSET Keys]

OlricInit ==
  /\ dmap = [k \in Keys |-> None]
  /\ index = {}
  /\ lock = [l \in Locks |-> None]
  /\ held = [n \in Nodes |-> {}]
  /\ call = [n \in Nodes |-> "none"]
  /\ idxRead = [n \in Nodes |-> {}]

-----------------------------------------------------------------------------
(* Locks: an NX Put of a token with a time to live. *)

\* Variant of LockWithTimeout that does not test whether the lock is taken.
LockWithoutNX(n, l) ==
  /\ NoFault
  /\ lock' = [lock EXCEPT ![l] = n]
  /\ held' = [held EXCEPT ![n] = @ \cup {l}]

\* The holder of the lock has stopped, or has failed to release it.
Abandoned(l) == lock[l] # None /\ l \notin held[lock[l]]

\* Variant of LockWithTimeout that waits without a deadline.
LockWithoutDeadline(n, l) ==
  /\ lock[l] = None
  /\ NoFault
  /\ lock' = [lock EXCEPT ![l] = n]
  /\ held' = [held EXCEPT ![n] = @ \cup {l}]

\* LockWithTimeout: obtains the lock, or returns an error at its deadline, and
\* the caller goes on without the lock.  addToIndex waits 5 seconds for a lock
\* that lives 10, so it may well give up on an abandoned one; that is no fault.
\* maybePublish waits as long as its lock lives, so that an abandoned lock has
\* expired by then.  Any other error is a fault: another node is still at work,
\* has been faster, or the lock table does not answer.
LockWithTimeout(n, l) ==
  \/ /\ lock[l] = None
     /\ NoFault
     /\ lock' = [lock EXCEPT ![l] = n]
     /\ held' = [held EXCEPT ![n] = @ \cup {l}]
  \/ /\ l = indexLockKey
     /\ Abandoned(l)
     /\ NoFault
     /\ UNCHANGED <<lock, held>>
  \/ /\ Fault("lock")
     /\ UNCHANGED <<lock, held>>

\* Unlock of a lock that was obtained: it removes the token only if it is
\* still this holder's.  The call is best-effort.
Unlock(n, l) ==
  /\ held' = [held EXCEPT ![n] = @ \ {l}]
  /\ \/ /\ NoFault
        /\ lock' = IF l \in held[n] /\ lock[l] = n
                   THEN [lock EXCEPT ![l] = None] ELSE lock
     \/ /\ l \in held[n]
        /\ Fault("unlock")
        /\ UNCHANGED lock

\* The time to live of a lock runs out.  That the holder is still at work is
\* a fault; that it crashed or failed to unlock is not.
LockExpires(l) ==
  /\ lock[l] # None
  /\ lock' = [lock EXCEPT ![l] = None]
  /\ IF Abandoned(l) THEN NoFault ELSE Fault("lock")
  /\ UNCHANGED <<dmap, index, held, call, idxRead>>

-----------------------------------------------------------------------------
(* Get and Keys: the answers the caller may see. *)

Get(k, r) ==
  \/ r = dmap[k] /\ NoFault
  \/ r = None /\ dmap[k] # None /\ Fault("get")

KeysOf(ks) ==
  \/ ks = index /\ NoFault
  \/ ks = {} /\ index # {} /\ Fault("keys")

-----------------------------------------------------------------------------
(* Put: the record, then addToIndex. *)

\* dm.Put of the record.
PutRecord(n, k, r) ==
  /\ call[n] = "none"
  /\ NoFault
  /\ dmap' = [dmap EXCEPT ![k] = r]
  /\ call' = [call EXCEPT ![n] = "idxlock"]
  /\ UNCHANGED <<index, lock, held, idxRead>>

\* dm.Put of the record fails and Put returns.
PutRecordFails(n, k, r) ==
  /\ call[n] = "none"
  /\ Fault("put")
  /\ dmap' \in {dmap, [dmap EXCEPT ![k] = r]}
  /\ UNCHANGED <<index, lock, held, call, idxRead>>

\* Variant of LockIndex that skips the lock.
LockIndexSkipped(n) ==
  /\ call[n] = "idxlock"
  /\ NoFault
  /\ call' = [call EXCEPT ![n] = "idxread"]
  /\ UNCHANGED <<dmap, index, lock, held, idxRead>>

LockIndex(n) ==
  /\ call[n] = "idxlock"
  /\ LockWithTimeout(n, indexLockKey)
  /\ call' = [call EXCEPT ![n] = "idxread"]
  /\ UNCHANGED <<dmap, index, idxRead>>

\* readIndex; the key being there, or an error, ends the update.
ReadIndex(n, k) ==
  /\ call[n] = "idxread"
  /\ \/ /\ NoFault
        /\ IF k \in index
           THEN call' = [call EXCEPT ![n] = "idxunlock"] /\ UNCHANGED idxRead
           ELSE /\ call' = [call EXCEPT ![n] = "idxput"]
                /\ idxRead' = [idxRead EXCEPT ![n] = index]
     \/ /\ Fault("index")
        /\ call' = [call EXCEPT ![n] = "idxunlock"]
        /\ UNCHANGED idxRead
  /\ UNCHANGED <<dmap, index, lock, held>>

\* Variant of PutIndex that lists the reserved key of the lock as well.
PutIndexReserved(n, k) ==
  /\ call[n] = "idxput"
  /\ NoFault
  /\ index' = idxRead[n] \cup {k, indexLockKey}
  /\ call' = [call EXCEPT ![n] = "idxunlock"]
  /\ idxRead' = [idxRead EXCEPT ![n] = {}]
  /\ UNCHANGED <<dmap, lock, held>>

\* dm.Put of the list read before plus the key.
PutIndex(n, k) ==
  /\ call[n] = "idxput"
  /\ LET keys == idxRead[n] \cup {k} IN
       \/ NoFault /\ index' = keys
       \/ Fault("index") /\ index' \in {index, keys}
  /\ call' = [call EXCEPT ![n] = "idxunlock"]
  /\ idxRead' = [idxRead EXCEPT ![n] = {}]
  /\ UNCHANGED <<dmap, lock, held>>

\* The deferred unlock; Put returns.
UnlockIndex(n) ==
  /\ call[n] = "idxunlock"
  /\ Unlock(n, indexLockKey)
  /\ call' = [call EXCEPT ![n] = "none"]
  /\ UNCHANGED <<dmap, index, idxRead>>

-----------------------------------------------------------------------------
(* Membership *)

\* The process of n stops: its locks stay behind until they expire.  With the
\* last member the whole map is gone.
MemberLeaves(n, othersUp) ==
  /\ held' = [held EXCEPT ![n] = {}]
  /\ call' = [call EXCEPT ![n] = "none"]
  /\ idxRead' = [idxRead EXCEPT ![n] = {}]
  /\ IF othersUp
     THEN UNCHANGED <<dmap, index, lock>>
     ELSE /\ dmap' = [k \in Keys |-> None]
          /\ index' = {}
          /\ lock' = [l \in Locks |-> None]

\* A member fails together with the replicas of an entry.
EntryLost ==
  /\ Fault("lose")
  /\ \/ /\ \E k \in Keys : dmap[k] # None /\ dmap' = [dmap EXCEPT ![k] = None]
        /\ UNCHANGED index
     \/ /\ index # {}
        /\ index' = {}
        /\ UNCHANGED dmap
  /\ UNCHANGED <<lock, held, call, idxRead>>
=============================================================================
