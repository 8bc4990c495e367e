------------------------------- MODULE Engine -------------------------------
(***************************************************************************)
(* The reconcile loop of one kind on every node                            *)
(* (internal/engine/engine.go), independent of the backend: where the code *)
(* calls ClusterKV the action takes the answer as a parameter, and the     *)
(* module that composes the engine with a backend supplies it.             *)
(*                                                                         *)
(* pc follows tickProvider and maybePublish:                               *)
(*                                                                         *)
(*   idle -> keys -> loop -> [lock -> recheck -> [put ->] unlock ->] apply *)
(*                   loop -> flush -> [rollback ->] idle                   *)
(*                                                                         *)
(* One step is one call that another node, the operator or a crash can     *)
(* interleave with.                                                        *)
(***************************************************************************)
EXTENDS BlobProvider

VARIABLES
  pc,         \* where each node's engine is; "down" when the process is not running
  snap,       \* localByKey: the source files as Local read them in this tick
  todo,       \* the keys the current loop still has to visit
  key,        \* the key being reconciled
  clusterR,   \* what the first Get of that key returned
  changed,    \* the keys whose Apply changed a file in this tick
  flushErr    \* whether a hook of this tick's Flush failed

tickVars == <<snap, todo, key, clusterR, changed, flushErr>>
engineVars == <<pc, tickVars, providerVars, budgetVars>>

PCs == {"down", "idle", "keys", "loop", "lock", "recheck", "put", "unlock",
        "apply", "flush", "rollback"}

NoRecords == [k \in Keys |-> None]

Goto(n, where) == pc' = [pc EXCEPT ![n] = where]

\* The locals of tickProvider go out of scope.
DropTick(n) ==
  /\ snap' = [snap EXCEPT ![n] = NoRecords]
  /\ todo' = [todo EXCEPT ![n] = {}]
  /\ key' = [key EXCEPT ![n] = None]
  /\ clusterR' = [clusterR EXCEPT ![n] = None]
  /\ changed' = [changed EXCEPT ![n] = {}]
  /\ flushErr' = [flushErr EXCEPT ![n] = FALSE]

-----------------------------------------------------------------------------
(* tickProvider and gatherKeys *)

\* A tick begins with Local; a source file that cannot be read is skipped.
ReadLocal(n) ==
  /\ pc[n] = "idle"
  /\ Goto(n, "keys")
  /\ \E unreadable \in SUBSET Keys :
       /\ snap' = [snap EXCEPT ![n] = Local(n, unreadable)]
       /\ IF unreadable = {} THEN NoFault ELSE Fault("read")
  /\ UNCHANGED <<todo, key, clusterR, changed, flushErr, providerVars>>

LocalKeys(n) == {k \in Keys : snap[n][k] # None}

\* Variant of GatherKeys that forgets the keys of the cluster.
GatherLocalOnly(n, clusterKeys) ==
  /\ pc[n] = "keys"
  /\ Goto(n, "loop")
  /\ todo' = [todo EXCEPT ![n] = LocalKeys(n)]
  /\ UNCHANGED <<snap, key, clusterR, changed, flushErr, providerVars>>

\* gatherKeys, with the answer clusterKeys of Keys ({} after an error).
GatherKeys(n, clusterKeys) ==
  /\ pc[n] = "keys"
  /\ Goto(n, "loop")
  /\ todo' = [todo EXCEPT ![n] = LocalKeys(n) \cup clusterKeys]
  /\ UNCHANGED <<snap, key, clusterR, changed, flushErr, providerVars>>

\* Local keys come first, in the order of a map range, then the other keys.
NextKeys(n) ==
  IF todo[n] \cap LocalKeys(n) # {} THEN todo[n] \cap LocalKeys(n) ELSE todo[n]

\* The loop's Get of the next key answers r (None when absent or on an error).
GetRecord(n, k, r) ==
  /\ pc[n] = "loop"
  /\ k \in NextKeys(n)
  /\ todo' = [todo EXCEPT ![n] = @ \ {k}]
  /\ key' = [key EXCEPT ![n] = k]
  /\ clusterR' = [clusterR EXCEPT ![n] = r]
  /\ Goto(n, IF MustPublish(snap[n][k], r) THEN "lock" ELSE "apply")
  /\ UNCHANGED <<snap, changed, flushErr, providerVars>>

-----------------------------------------------------------------------------
(* maybePublish *)

\* Lock has returned; with or without the lock the re-check follows.
LockReturned(n) ==
  /\ pc[n] = "lock"
  /\ Goto(n, "recheck")
  /\ UNCHANGED <<tickVars, providerVars>>

\* Variant of Recheck that does not look at the answer.
RecheckIgnored(n, cur) ==
  /\ pc[n] = "recheck"
  /\ Goto(n, "put")
  /\ UNCHANGED <<tickVars, providerVars>>

\* The second Get answers cur.
Recheck(n, cur) ==
  /\ pc[n] = "recheck"
  /\ Goto(n, IF MustPublish(snap[n][key[n]], cur) THEN "put" ELSE "unlock")
  /\ UNCHANGED <<tickVars, providerVars>>

\* Put has returned, with or without an error.
PutReturned(n) ==
  /\ pc[n] = "put"
  /\ Goto(n, "unlock")
  /\ UNCHANGED <<tickVars, providerVars>>

\* The deferred release has run and maybePublish returns.
Published(n) ==
  /\ pc[n] = "unlock"
  /\ Goto(n, "apply")
  /\ UNCHANGED <<tickVars, providerVars>>

-----------------------------------------------------------------------------
(* Apply, Flush, Rollback *)

\* The local copy against the answer of the first Get, not a fresh one.
Best(n) == pickNewer(snap[n][key[n]], clusterR[n])

ApplyBest(n) ==
  /\ pc[n] = "apply"
  /\ Goto(n, "loop")
  /\ key' = [key EXCEPT ![n] = None]
  /\ clusterR' = [clusterR EXCEPT ![n] = None]
  /\ \/ /\ Best(n) = None
        /\ NoFault
        /\ UNCHANGED <<disk, changed>>
     \/ /\ Best(n) # None
        /\ NoFault
        /\ Apply(n, key[n], Best(n))
        /\ changed' = IF Changes(n, key[n], Best(n))
                      THEN [changed EXCEPT ![n] = @ \cup {key[n]}]
                      ELSE changed
     \/ /\ Best(n) # None
        /\ Fault("nobackup")
        /\ ApplyUnread(n, key[n], Best(n))
        /\ changed' = [changed EXCEPT ![n] = @ \cup {key[n]}]
     \/ /\ Best(n) # None
        /\ Fault("apply")
        /\ ApplyFailed(n, key[n], Best(n))
        /\ UNCHANGED changed
  /\ UNCHANGED <<snap, todo, flushErr, local, loaded>>

\* Variant of EndLoop that ends the tick without calling Flush when only one
\* key changed.
EndLoopForgetsOne(n) ==
  /\ pc[n] = "loop"
  /\ todo[n] = {}
  /\ IF \A j, k \in changed[n] : j = k
     THEN Goto(n, "idle") /\ DropTick(n)
     ELSE /\ Goto(n, "flush")
          /\ todo' = [todo EXCEPT ![n] = changed[n]]
          /\ UNCHANGED <<snap, key, clusterR, changed, flushErr>>
  /\ NoFault
  /\ UNCHANGED providerVars

\* All keys visited: nothing changed ends the tick, otherwise Flush starts.
EndLoop(n) ==
  /\ pc[n] = "loop"
  /\ todo[n] = {}
  /\ IF changed[n] = {}
     THEN Goto(n, "idle") /\ DropTick(n)
     ELSE /\ Goto(n, "flush")
          /\ todo' = [todo EXCEPT ![n] = changed[n]]
          /\ UNCHANGED <<snap, key, clusterR, changed, flushErr>>
  /\ NoFault
  /\ UNCHANGED providerVars

\* Flush runs the hook of one pending resource; an error does not stop it.
FlushResource(n) ==
  /\ pc[n] = "flush"
  /\ \E k \in todo[n], outcome \in HookOutcomes :
       /\ RunHook(n, k, outcome)
       /\ todo' = [todo EXCEPT ![n] = @ \ {k}]
       /\ IF outcome = "ok"
          THEN NoFault /\ UNCHANGED flushErr
          ELSE Fault("hook") /\ flushErr' = [flushErr EXCEPT ![n] = TRUE]
  /\ UNCHANGED <<pc, snap, key, clusterR, changed, local, disk>>

\* Variant of FlushReturned that drops the error.
FlushErrorDropped(n) ==
  /\ pc[n] = "flush"
  /\ todo[n] = {}
  /\ Goto(n, "idle") /\ DropTick(n)
  /\ NoFault
  /\ UNCHANGED providerVars

\* Flush returns; an error leads to the rollback of every changed key.
FlushReturned(n) ==
  /\ pc[n] = "flush"
  /\ todo[n] = {}
  /\ IF flushErr[n]
     THEN /\ Goto(n, "rollback")
          /\ todo' = [todo EXCEPT ![n] = changed[n]]
          /\ UNCHANGED <<snap, key, clusterR, changed, flushErr>>
     ELSE Goto(n, "idle") /\ DropTick(n)
  /\ NoFault
  /\ UNCHANGED providerVars

RollbackResource(n) ==
  /\ pc[n] = "rollback"
  /\ \E k \in todo[n] :
       /\ todo' = [todo EXCEPT ![n] = @ \ {k}]
       /\ \/ NoFault /\ Rollback(n, k)
          \/ Fault("restore") /\ UNCHANGED disk
  /\ UNCHANGED <<pc, snap, key, clusterR, changed, flushErr, local, loaded>>

RollbackReturned(n) ==
  /\ pc[n] = "rollback"
  /\ todo[n] = {}
  /\ Goto(n, "idle")
  /\ DropTick(n)
  /\ NoFault
  /\ UNCHANGED providerVars

\* The steps of a tick that do not call the backend.
EngineOnlyStep(n) ==
  \/ ReadLocal(n) \/ ApplyBest(n) \/ EndLoop(n)
  \/ FlushResource(n) \/ FlushReturned(n)
  \/ RollbackResource(n) \/ RollbackReturned(n)

-----------------------------------------------------------------------------
(* The process and its surroundings. *)

\* The process stops anywhere: the tick is lost, the files stay.  Inside
\* WriteAtomic the backup may have been written and the file not yet.
Crash(n) ==
  /\ pc[n] # "down"
  /\ Goto(n, "down")
  /\ DropTick(n)
  /\ Fault("crash")
  /\ \/ UNCHANGED disk
     \/ /\ pc[n] = "apply" /\ Best(n) # None
        /\ ApplyFailed(n, key[n], Best(n))
  /\ UNCHANGED <<local, loaded>>

\* The process is started again, by the service manager after a failure and by
\* the operator after a shutdown; Run ticks immediately.
Restart(n) ==
  /\ pc[n] = "down"
  /\ Goto(n, "idle")
  /\ UNCHANGED <<tickVars, providerVars, budgetVars>>

\* The operator (or certbot) replaces or removes a source file.
Renew(n) ==
  /\ Renewal
  /\ \E k \in Sources[n], r \in RecordOrNone :
       /\ r # local[n][k]
       /\ local' = [local EXCEPT ![n][k] = r]
  /\ UNCHANGED <<pc, tickVars, disk, loaded>>

-----------------------------------------------------------------------------
EngineTypeOK ==
  /\ pc \in [Nodes -> PCs]
  /\ snap \in [Nodes -> [Keys -> RecordOrNone]]
  /\ todo \in [Nodes -> SUBSET Keys]
  /\ key \in [Nodes -> Keys \cup {None}]
  /\ clusterR \in [Nodes -> RecordOrNone]
  /\ changed \in [Nodes -> SUBSET Keys]
  /\ flushErr \in [Nodes -> BOOLEAN]
  /\ ProviderTypeOK
  /\ BudgetTypeOK

EngineInit ==
  /\ pc = [n \in Nodes |-> "idle"]
  /\ snap = [n \in Nodes |-> NoRecords]
  /\ todo = [n \in Nodes |-> {}]
  /\ key = [n \in Nodes |-> None]
  /\ clusterR = [n \in Nodes |-> None]
  /\ changed = [n \in Nodes |-> {}]
  /\ flushErr = [n \in Nodes |-> FALSE]
  /\ ProviderInit
  /\ BudgetInit
=============================================================================
