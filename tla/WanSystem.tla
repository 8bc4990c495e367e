------------------------------ MODULE WanSystem ------------------------------
(***************************************************************************)
(* The deployment over a WAN (internal/wan): the engine and blob provider  *)
(* of every node on top of the HTTPS backend.  Every node keeps a store of *)
(* its own in memory; Put writes it and pushes the record to every peer,   *)
(* Get and Keys ask the peers one after the other.                         *)
(*                                                                         *)
(* A push is a message that is delivered in any order, or lost (a fault),  *)
(* and that reaches only a peer whose process is running.                  *)
(***************************************************************************)
EXTENDS Engine, Sequences

CONSTANT
  Peers    \* Peers[n]: the configured peers of n, in order

ASSUME PeersAssumption ==
  /\ Peers \in [Nodes -> Seq(Nodes)]
  /\ \A n \in Nodes : \A i \in 1 .. Len(Peers[n]) : Peers[n][i] # n

VARIABLES
  store,    \* store[n][k]: the record in the memory of n, or None
  msgs,     \* the pushes under way
  asking,   \* asking[n]: the key whose Get has gone on to the peers, or None
  next,     \* next[n]: the next peer to ask in Get or Keys, 0 outside
  seen      \* seen[n]: the keys Keys has collected

backendVars == <<store, msgs, asking, next, seen>>
queryVars == <<asking, next, seen>>
vars == <<engineVars, backendVars>>

Push == [from : Nodes, to : Nodes, key : Keys, rec : Records]

Up(n) == pc[n] # "down"

StoredKeys(n) == {k \in Keys : store[n][k] # None}

WanInit ==
  /\ EngineInit
  /\ store = [n \in Nodes |-> NoRecords]
  /\ msgs = {}
  /\ asking = [n \in Nodes |-> None]
  /\ next = [n \in Nodes |-> 0]
  /\ seen = [n \in Nodes |-> {}]

DropQuery(n) ==
  /\ asking' = [asking EXCEPT ![n] = None]
  /\ next' = [next EXCEPT ![n] = 0]
  /\ seen' = [seen EXCEPT ![n] = {}]

-----------------------------------------------------------------------------
(* Keys *)

KeysLocal(n) ==
  /\ pc[n] = "keys"
  /\ next[n] = 0
  /\ seen' = [seen EXCEPT ![n] = StoredKeys(n)]
  /\ next' = [next EXCEPT ![n] = 1]
  /\ UNCHANGED <<engineVars, store, msgs, asking>>

\* GET /v1/keys of the next peer; one that fails to answer is skipped.
KeysPeer(n) ==
  /\ pc[n] = "keys"
  /\ next[n] \in 1 .. Len(Peers[n])
  /\ next' = [next EXCEPT ![n] = @ + 1]
  /\ LET p == Peers[n][next[n]] IN
       \/ /\ Up(p)
          /\ NoFault
          /\ seen' = [seen EXCEPT ![n] = @ \cup StoredKeys(p)]
       \/ /\ IF Up(p) THEN Fault("keys") ELSE NoFault
          /\ UNCHANGED seen
  /\ UNCHANGED <<pc, tickVars, providerVars, store, msgs, asking>>

KeysReturn(n) ==
  /\ next[n] = Len(Peers[n]) + 1
  /\ GatherKeys(n, seen[n])
  /\ DropQuery(n)
  /\ NoFault
  /\ UNCHANGED <<store, msgs>>

-----------------------------------------------------------------------------
(* Get *)

\* The key a Get at this point of the engine may be about.
Wanted(n) ==
  CASE pc[n] = "loop" -> NextKeys(n)
    [] pc[n] = "recheck" -> {key[n]}
    [] OTHER -> {}

\* The engine's Get of k returns r.
GetReturns(n, k, r) ==
  GetRecord(n, k, r) \/ (k = key[n] /\ Recheck(n, r))

\* A record of the own store is the answer, whatever the peers hold.
GetLocal(n) ==
  /\ asking[n] = None
  /\ \E k \in Wanted(n) :
       /\ store[n][k] # None
       /\ GetReturns(n, k, store[n][k])
  /\ NoFault
  /\ UNCHANGED backendVars

GetMiss(n) ==
  /\ asking[n] = None
  /\ \E k \in Wanted(n) :
       /\ store[n][k] = None
       /\ asking' = [asking EXCEPT ![n] = k]
  /\ next' = [next EXCEPT ![n] = 1]
  /\ UNCHANGED <<engineVars, store, msgs, seen>>

\* Variant of GetPeer that asks a peer without the record again.
GetPeerRetries(n) ==
  /\ asking[n] # None
  /\ next[n] \in 1 .. Len(Peers[n])
  /\ LET p == Peers[n][next[n]]
         r == store[p][asking[n]] IN
       IF Up(p) /\ r # None
       THEN GetReturns(n, asking[n], r) /\ DropQuery(n)
       ELSE UNCHANGED <<pc, tickVars, providerVars, queryVars>>
  /\ NoFault
  /\ UNCHANGED <<store, msgs>>

\* GET /v1/records of the next peer: the first record found is the answer.
GetPeer(n) ==
  /\ asking[n] # None
  /\ next[n] \in 1 .. Len(Peers[n])
  /\ LET p == Peers[n][next[n]]
         r == store[p][asking[n]] IN
       \/ /\ Up(p) /\ r # None
          /\ NoFault
          /\ GetReturns(n, asking[n], r)
          /\ DropQuery(n)
       \/ /\ IF Up(p) /\ r # None THEN Fault("get") ELSE NoFault
          /\ next' = [next EXCEPT ![n] = @ + 1]
          /\ UNCHANGED <<pc, tickVars, providerVars, asking, seen>>
  /\ UNCHANGED <<store, msgs>>

\* No peer had the record.
GetAbsent(n) ==
  /\ asking[n] # None
  /\ next[n] = Len(Peers[n]) + 1
  /\ GetReturns(n, asking[n], None)
  /\ DropQuery(n)
  /\ NoFault
  /\ UNCHANGED <<store, msgs>>

-----------------------------------------------------------------------------
(* Lock is a no-op; Put writes the own store without looking at it. *)

WanLock(n) ==
  /\ LockReturned(n)
  /\ NoFault
  /\ UNCHANGED backendVars

\* The pushes Put starts.
FanOut(n, k, r) ==
  {[from |-> n, to |-> Peers[n][i], key |-> k, rec |-> r] : i \in 1 .. Len(Peers[n])}

\* Variant of Put that pushes what the store held before.
PutPushesOld(n) ==
  /\ PutReturned(n)
  /\ store' = [store EXCEPT ![n][key[n]] = snap[n][key[n]]]
  /\ msgs' = msgs \cup FanOut(n, key[n], store[n][key[n]])
  /\ NoFault
  /\ UNCHANGED queryVars

\* Variant of Put that leaves the own store alone.
PutRemoteOnly(n) ==
  /\ PutReturned(n)
  /\ msgs' = msgs \cup FanOut(n, key[n], snap[n][key[n]])
  /\ NoFault
  /\ UNCHANGED <<store, queryVars>>

\* Put: the own store, then one push for every peer.
Put(n) ==
  /\ PutReturned(n)
  /\ store' = [store EXCEPT ![n][key[n]] = snap[n][key[n]]]
  /\ msgs' = msgs \cup FanOut(n, key[n], snap[n][key[n]])
  /\ NoFault
  /\ UNCHANGED queryVars

WanUnlock(n) ==
  /\ Published(n)
  /\ NoFault
  /\ UNCHANGED backendVars

WanEngineOnly(n) ==
  /\ EngineOnlyStep(n)
  /\ UNCHANGED backendVars

NodeStep(n) ==
  \/ WanEngineOnly(n)
  \/ KeysLocal(n) \/ KeysPeer(n) \/ KeysReturn(n)
  \/ GetLocal(n) \/ GetMiss(n) \/ GetPeer(n) \/ GetAbsent(n)
  \/ WanLock(n) \/ Put(n) \/ WanUnlock(n)

-----------------------------------------------------------------------------
(* The receiving side, the network, the processes. *)

\* Variant of Accepts without the version guard.
AcceptsAnything(n, k, r) == TRUE

\* Variant of Accepts that keeps the first record.
AcceptsIfAbsent(n, k, r) == store[n][k] = None

\* handlePutRecord stores only a strictly newer record.
Accepts(n, k, r) ==
  store[n][k] = None \/ Newer(r.version, store[n][k].version)

\* A push arrives; at a peer that is down it fails, and is not repeated.
handlePutRecord ==
  /\ \E m \in msgs :
       /\ msgs' = msgs \ {m}
       /\ store' = IF Up(m.to) /\ Accepts(m.to, m.key, m.rec)
                   THEN [store EXCEPT ![m.to][m.key] = m.rec] ELSE store
  /\ UNCHANGED <<engineVars, queryVars>>

\* A push is lost or times out.
PushLost ==
  /\ Fault("lose")
  /\ \E m \in msgs : msgs' = msgs \ {m}
  /\ UNCHANGED <<pc, tickVars, providerVars, store, queryVars>>

\* The process stops: its store is gone, and any of its pushes may be.
WanCrash(n) ==
  /\ Crash(n)
  /\ store' = [store EXCEPT ![n] = NoRecords]
  /\ \E dropped \in SUBSET {m \in msgs : m.from = n} : msgs' = msgs \ dropped
  /\ DropQuery(n)

WanRestart(n) ==
  /\ Restart(n)
  /\ UNCHANGED backendVars

WanRenew(n) ==
  /\ Renew(n)
  /\ UNCHANGED backendVars

WanNext ==
  \/ \E n \in Nodes : NodeStep(n) \/ WanCrash(n) \/ WanRestart(n) \/ WanRenew(n)
  \/ handlePutRecord
  \/ PushLost

WanSpec == WanInit /\ [][WanNext]_vars

(***************************************************************************)
(* Every engine keeps ticking, a stopped process is restarted by the       *)
(* service manager, and a push that is not lost is delivered.              *)
(***************************************************************************)
Fairness ==
  /\ \A n \in Nodes : WF_vars(NodeStep(n)) /\ WF_vars(WanRestart(n))
  /\ WF_vars(handlePutRecord)

FairSpec == WanSpec /\ Fairness

-----------------------------------------------------------------------------
(* Safety *)

\* The types of all state of the WAN deployment.
TypeOK ==
  /\ EngineTypeOK
  /\ store \in [Nodes -> [Keys -> RecordOrNone]]
  /\ msgs \in SUBSET Push
  /\ asking \in [Nodes -> Keys \cup {None}]
  /\ next \in [Nodes -> Nat]
  /\ seen \in [Nodes -> SUBSET Keys]

\* The deployments the package comment of wan.go assumes: at most one node
\* originates a key.
SingleOrigin ==
  \A n, m \in Nodes : \A k \in Sources[n] \cap Sources[m] : n = m

(***************************************************************************)
(* The stores as newest-wins registers, one per node and key, each held by *)
(* its node alone.  Nothing is claimed of deployments with two origins of  *)
(* a key: the registers are taken to be empty there.                       *)
(***************************************************************************)
Register == INSTANCE NewestWins
  WITH Members <- Nodes, Registers <- Nodes \X Keys,
       Holders <- [x \in Nodes \X Keys |-> {x[1]}],
       best <- [x \in Nodes \X Keys |-> IF SingleOrigin THEN store[x[1]][x[2]] ELSE None],
       up <- {n \in Nodes : Up(n)}

(***************************************************************************)
(* The store of a running node is only ever replaced by a newer record:    *)
(* late and reordered pushes are stopped by the guard of handlePutRecord,  *)
(* and the write of Put, which has no guard, by the re-check before it,    *)
(* because nobody pushes to the origin.  Whatever is lost or crashes.      *)
(***************************************************************************)
ImplementsNewestWins == Register!Spec

(***************************************************************************)
(* No peer, and no push under way, is ahead of the store of the origin: a  *)
(* Get answered from the own store gives the origin the newest record that *)
(* was ever published.  Single origin, and no crash of the origin.         *)
(***************************************************************************)
PeersFollowOrigin ==
  SingleOrigin /\ NoFaultsOf({"crash"}) =>
    \A o \in Nodes : \A k \in Sources[o] :
      /\ \A n \in Nodes : NotNewerThan(store[n][k], store[o][k])
      /\ \A m \in msgs : m.key = k => NotNewerThan(m.rec, store[o][k])

-----------------------------------------------------------------------------
(* Liveness *)

(***************************************************************************)
(* Every node ends up serving, for each resource it is configured with,    *)
(* something at least as new as the source file of the origin, although    *)
(* pushes overtake each other and a Get may be answered by a stale store.  *)
(* Needs pushes not to be lost and processes to keep running: a peer that  *)
(* restarts between two pushes can miss the newer and accept the older.    *)
(***************************************************************************)
WanCatchesUp ==
  \A o, n \in Nodes : \A k \in Sources[o] \cap Configured[n] :
    <>[](SingleOrigin /\ NoFaultsOf({"crash", "lose"}) =>
           NotNewerThan(local[o][k], disk[n][k].file))

(***************************************************************************)
(* A tick ends: asking the peers comes to an end also when they are down.  *)
(***************************************************************************)
WanTickTerminates ==
  \A n \in Nodes : (pc[n] # "idle") ~> (pc[n] \in {"idle", "down"})

-----------------------------------------------------------------------------
(* What comments in the code say, and the code does not do. *)

(***************************************************************************)
(* wan.go, package comment: "each node republishes its local files every   *)
(* reconcile tick, so a missed fan-out is corrected on the next tick."     *)
(* Then every node would end up with what the origin has.                  *)
(***************************************************************************)
MissedFanOutCorrected ==
  \A o, n \in Nodes : \A k \in Sources[o] \cap Configured[n] :
    <>[](NotNewerThan(local[o][k], disk[n][k].file))

(***************************************************************************)
(* wan.go, package comment: "Two nodes originating the same key            *)
(* concurrently may cause transient disagreement; the engine's             *)
(* maybePublish re-check provides eventual convergence."                   *)
(***************************************************************************)
ConcurrentOriginsConverge ==
  \A n, m \in Nodes : \A k \in Configured[n] \cap Configured[m] :
    <>[](disk[n][k].file = disk[m][k].file)
=============================================================================
