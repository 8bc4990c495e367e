--------------------------- MODULE WanStoreProofs ----------------------------
(***************************************************************************)
(* Proofs about the stores of a WAN deployment: with one origin per key    *)
(* they implement newest-wins registers, and none is ahead of the origin.  *)
(***************************************************************************)
EXTENDS WanProofs

Running == {n \in Nodes : Up(n)}

\* One store takes over a newer record, and nothing else happens to any.
Takes(n, k, r) ==
  /\ Up(n)
  /\ store[n][k] = None \/ Newer(r.version, store[n][k].version)
  /\ store' = [store EXCEPT ![n][k] = r]

\* What a step of a tick does to the stores: nothing, or Put writes a record
\* that is newer, by the re-check.
LEMMA NodeStepStores ==
  ASSUME WanInv, SingleOrigin, NEW n \in Nodes, NodeStep(n)
  PROVE  UNCHANGED store \/ \E k \in Keys, r \in Records : Takes(n, k, r)
<1>1. CASE QuietStep(n)
  BY <1>1, QuietFrame DEF WanInv
<1>2. CASE Put(n)
  <2>1. pc[n] = "put" /\ store' = [store EXCEPT ![n][key[n]] = snap[n][key[n]]]
    BY <1>2 DEF Put, PutReturned
  <2>2. key[n] \in Keys /\ MustPublish(snap[n][key[n]], store[n][key[n]])
    BY <2>1, PublishesOwnKey DEF WanInv, Fresh
  <2>3. snap[n][key[n]] \in Records
    <3>1. snap \in [Nodes -> [Keys -> RecordOrNone]]
      BY DEF WanInv, TypeInv, EngineInv, EngineTypeOK
    <3>2. snap[n][key[n]] # None
      BY <2>2 DEF MustPublish
    <3> QED
      BY <2>2, <3>1, <3>2 DEF RecordOrNone
  <2> QED
    BY <2>1, <2>2, <2>3 DEF Takes, Up, MustPublish
<1> QED
  BY <1>1, <1>2 DEF NodeStep, QuietStep

\* A step of a tick neither stops nor starts a process.
LEMMA NodeKeepsRunning ==
  ASSUME TypeInv, NEW n \in Nodes, NodeStep(n)
  PROVE  Running' = Running
<1>1. /\ pc'[n] = "down" <=> pc[n] = "down"
      /\ \A m \in Nodes \ {n} : pc'[m] = pc[m]
  <2>1. CASE QuietStep(n)
    BY <2>1, QuietFrame
  <2>2. CASE Put(n)
    BY <2>2 DEF Put, PutReturned, Goto, TypeInv, EngineInv, EngineTypeOK
  <2> QED
    BY <2>1, <2>2 DEF NodeStep, QuietStep
<1> QED
  BY <1>1 DEF Running, Up

\* What the guard of handlePutRecord lets through is newer.
LEMMA DeliveryStores ==
  ASSUME TypeInv, handlePutRecord
  PROVE  UNCHANGED store \/ \E n \in Nodes, k \in Keys, r \in Records : Takes(n, k, r)
<1>1. PICK m \in msgs :
        store' = IF Up(m.to) /\ Accepts(m.to, m.key, m.rec)
                 THEN [store EXCEPT ![m.to][m.key] = m.rec] ELSE store
  BY DEF handlePutRecord
<1>2. m.to \in Nodes /\ m.key \in Keys /\ m.rec \in Records
  BY DEF TypeInv, BackendTypeOK, Push
<1>3. CASE Up(m.to) /\ Accepts(m.to, m.key, m.rec)
  <2>1. Takes(m.to, m.key, m.rec)
    BY <1>1, <1>3 DEF Takes, Accepts
  <2> QED
    BY <1>2, <2>1
<1> QED
  BY <1>1, <1>3

\* What one step does to the stores and the processes.
LEMMA StoreStep ==
  ASSUME WanInv, SingleOrigin, [WanNext]_vars
  PROVE  \/ UNCHANGED <<store, Running>>
         \/ /\ \E n \in Nodes, k \in Keys, r \in Records : Takes(n, k, r)
            /\ UNCHANGED Running
         \/ \E n \in Running : /\ Running' = Running \ {n}
                               /\ store' = [store EXCEPT ![n] = NoRecords]
         \/ \E n \in Nodes \ Running : Running' = Running \cup {n} /\ UNCHANGED store
<1> USE DEF WanInv
<1>1. ASSUME NEW n \in Nodes, NodeStep(n)
      PROVE  /\ UNCHANGED Running
             /\ \/ UNCHANGED store
                \/ \E k \in Keys, r \in Records : Takes(n, k, r)
  BY <1>1, NodeStepStores, NodeKeepsRunning
<1>2. ASSUME NEW n \in Nodes, WanCrash(n)
      PROVE  /\ n \in Running /\ Running' = Running \ {n}
             /\ store' = [store EXCEPT ![n] = NoRecords]
  BY <1>2 DEF WanCrash, Crash, Goto, Running, Up, TypeInv, EngineInv, EngineTypeOK
<1>3. ASSUME NEW n \in Nodes, WanRestart(n)
      PROVE  n \in Nodes \ Running /\ Running' = Running \cup {n} /\ UNCHANGED store
  BY <1>3 DEF WanRestart, Restart, Goto, Running, Up, backendVars, TypeInv, EngineInv,
              EngineTypeOK
<1>4. ASSUME NEW n \in Nodes, WanRenew(n)
      PROVE  UNCHANGED <<store, Running>>
  BY <1>4 DEF WanRenew, Renew, Running, Up, backendVars
<1>5. CASE handlePutRecord
  <2>1. UNCHANGED Running
    BY <1>5 DEF handlePutRecord, engineVars, Running, Up
  <2> QED
    BY <1>5, <2>1, DeliveryStores
<1>6. CASE PushLost \/ UNCHANGED vars
  BY <1>6 DEF PushLost, vars, engineVars, backendVars, Running, Up
<1> QED
  BY <1>1, <1>2, <1>3, <1>4, <1>5, <1>6 DEF WanNext

\* Processes stop and start one at a time, also with several origins.
LEMMA RunningStep ==
  ASSUME TypeInv, [WanNext]_vars
  PROVE  \/ UNCHANGED Running
         \/ \E n \in Running : Running' = Running \ {n}
         \/ \E n \in Nodes \ Running : Running' = Running \cup {n}
<1>1. ASSUME NEW n \in Nodes, WanCrash(n)
      PROVE  n \in Running /\ Running' = Running \ {n}
  BY <1>1 DEF WanCrash, Crash, Goto, Running, Up, TypeInv, EngineInv, EngineTypeOK
<1>2. ASSUME NEW n \in Nodes, WanRestart(n)
      PROVE  n \in Nodes \ Running /\ Running' = Running \cup {n}
  BY <1>2 DEF WanRestart, Restart, Goto, Running, Up, TypeInv, EngineInv, EngineTypeOK
<1>3. ASSUME NEW n \in Nodes, WanRenew(n)
      PROVE  UNCHANGED Running
  BY <1>3 DEF WanRenew, Renew, Running, Up
<1>4. CASE handlePutRecord \/ PushLost \/ UNCHANGED vars
  BY <1>4 DEF handlePutRecord, PushLost, vars, engineVars, Running, Up
<1> QED
  BY <1>1, <1>2, <1>3, <1>4, NodeKeepsRunning DEF WanNext

(***************************************************************************)
(* With one origin per key the WAN deployment implements newest-wins       *)
(* registers, one per node and key, for every number of nodes, keys,       *)
(* records and faults and whatever pushes are lost, delayed or reordered.  *)
(***************************************************************************)
THEOREM WanImplementsNewestWins == WanSpec => ImplementsNewestWins
<1> DEFINE X == Nodes \X Keys
           best == [x \in X |-> IF SingleOrigin THEN store[x[1]][x[2]] ELSE None]
           holders == [x \in X |-> {x[1]}]
<1>1. WanInit => Register!Init
  BY DEF WanInit, EngineInit, Register!Init, NoRecords, Up
<1>2. WanInv /\ [WanNext]_vars => [Register!Next]_<<best, Running>>
  <2> SUFFICES ASSUME WanInv, [WanNext]_vars, ~UNCHANGED <<best, Running>>
               PROVE  Register!Next
    OBVIOUS
  <2>t. store \in [Nodes -> [Keys -> RecordOrNone]]
    BY DEF WanInv, TypeInv, BackendTypeOK
  <2>1. ASSUME NEW n \in Nodes, NEW k \in Keys, NEW r \in Records, SingleOrigin,
               Takes(n, k, r), UNCHANGED Running
        PROVE  Register!Next
    <3> DEFINE x == <<n, k>>
    <3>1. x \in X /\ best[x] = store[n][k] /\ holders[x] \cap Running # {}
      BY <2>1 DEF Takes, Running
    <3>2. \A y \in X : y # x => <<y[1], y[2]>> # x
      OBVIOUS
    <3>3. \A y \in X : store'[y[1]][y[2]] = IF y = x THEN r ELSE store[y[1]][y[2]]
      BY <2>t, <2>1, <3>2 DEF Takes
    <3>4. best' = [best EXCEPT ![x] = r]
      BY <2>1, <3>1, <3>3
    <3>5. Register!Publish(x, r)
      BY <2>1, <3>1, <3>4 DEF Register!Publish, Register!Newer, Newer, Takes, Running
    <3> QED
      BY <3>1, <3>5 DEF Register!Next
  <2>2. ASSUME NEW n \in Running, Running' = Running \ {n},
               SingleOrigin => store' = [store EXCEPT ![n] = NoRecords]
        PROVE  Register!Next
    <3>1. n \in Nodes
      BY DEF Running
    <3>2. \A y \in X : y[1] \notin Running => store[y[1]][y[2]] = None
      BY DEF WanInv, DownIsEmpty, Running, Up, NoRecords
    <3>3. \A y \in X : holders[y] \cap Running' = {} <=> y[1] \notin Running \/ y[1] = n
      BY <2>2
    <3>4. \A y \in X : SingleOrigin =>
             store'[y[1]][y[2]] = IF y[1] = n THEN None ELSE store[y[1]][y[2]]
      BY <2>t, <2>2, <3>1 DEF NoRecords
    <3>5. best' = [y \in X |-> IF holders[y] \cap Running' = {} THEN None ELSE best[y]]
      BY <3>2, <3>3, <3>4
    <3>6. Register!Stop(n)
      BY <2>2, <3>5 DEF Register!Stop, Running
    <3> QED
      BY <3>1, <3>6 DEF Register!Next
  <2>3. ASSUME NEW n \in Nodes \ Running, Running' = Running \cup {n},
               SingleOrigin => UNCHANGED store
        PROVE  Register!Next
    <3>1. Register!Start(n)
      BY <2>3 DEF Register!Start, Running
    <3> QED
      BY <3>1 DEF Register!Next
  <2>4. CASE SingleOrigin
    BY <2>1, <2>2, <2>3, <2>4, StoreStep
  <2>5. CASE ~SingleOrigin
    BY <2>2, <2>3, <2>5, RunningStep DEF WanInv
  <2> QED
    BY <2>4, <2>5
<1> QED
  BY <1>1, <1>2, WanInvInit, WanInvStep, PTL
     DEF WanSpec, ImplementsNewestWins, Register!Spec, Running

-----------------------------------------------------------------------------
(* Nobody is ahead of the origin *)

\* A behaviour stays in its scenario of faults.
LEMMA AllowedStep ==
  ASSUME [WanNext]_vars
  PROVE  allowed' = allowed
<1> USE DEF NoFault, Fault, budgetVars
<1>1. ASSUME NEW n \in Nodes, NodeStep(n)
      PROVE  allowed' = allowed
  <2>1. CASE WanEngineOnly(n)
    BY <2>1 DEF WanEngineOnly, EngineOnlyStep, ReadLocal, ApplyBest, EndLoop, FlushResource,
                FlushReturned, RollbackResource, RollbackReturned
  <2>2. CASE ~WanEngineOnly(n)
    BY <1>1, <2>2 DEF NodeStep, KeysLocal, KeysPeer, KeysReturn, GetLocal, GetMiss, GetPeer,
                      GetAbsent, WanLock, Put, WanUnlock, engineVars
  <2> QED
    BY <2>1, <2>2
<1>2. ASSUME NEW n \in Nodes, WanCrash(n) \/ WanRestart(n) \/ WanRenew(n)
      PROVE  allowed' = allowed
  BY <1>2 DEF WanCrash, WanRestart, WanRenew, Crash, Restart, Renew, Renewal
<1>3. CASE handlePutRecord \/ PushLost \/ UNCHANGED vars
  BY <1>3 DEF handlePutRecord, PushLost, vars, engineVars
<1> QED
  BY <1>1, <1>2, <1>3 DEF WanNext

\* Every copy of key k, in a store or under way, is at most as new as r.
Follows(k, r) ==
  /\ \A n \in Nodes : NotNewerThan(store[n][k], r)
  /\ \A m \in msgs : m.key = k => NotNewerThan(m.rec, r)

\* Put of the origin: its store becomes newer and everyone else stays behind it.
LEMMA PutFollows ==
  ASSUME WanInv, SingleOrigin, NEW o \in Nodes, NEW k \in Sources[o],
         Follows(k, store[o][k]), NEW n \in Nodes, Put(n)
  PROVE  Follows(k, store[o][k])'
<1>1. /\ pc[n] = "put"
      /\ store' = [store EXCEPT ![n][key[n]] = snap[n][key[n]]]
      /\ msgs' = msgs \cup FanOut(n, key[n], snap[n][key[n]])
  BY DEF Put, PutReturned
<1>2. /\ store \in [Nodes -> [Keys -> RecordOrNone]]
      /\ msgs \subseteq Push
      /\ snap \in [Nodes -> [Keys -> RecordOrNone]]
  BY DEF WanInv, TypeInv, EngineInv, EngineTypeOK, BackendTypeOK
<1>3. key[n] \in Keys /\ key[n] \in Sources[n] /\ k \in Keys
  BY <1>1, PublishesOwnKey, DeploymentAssumption
<1>4. CASE key[n] # k
  <2>1. \A m \in Nodes : store'[m][k] = store[m][k]
    BY <1>1, <1>2, <1>3, <1>4
  <2>2. ASSUME NEW m \in FanOut(n, key[n], snap[n][key[n]])
        PROVE  m.key # k
    <3>1. m.key = key[n]
      BY FanOutIs
    <3> QED
      BY <1>4, <3>1
  <2> QED
    BY <1>1, <2>1, <2>2 DEF Follows
<1>5. CASE key[n] = k
  <2>1. n = o
    BY <1>3, <1>5 DEF SingleOrigin
  <2> DEFINE new == snap[o][k]
  <2>2. MustPublish(new, store[o][k]) /\ new \in RecordOrNone /\ new # None
    BY <1>1, <1>2, <1>3, <1>5, <2>1 DEF WanInv, Fresh, MustPublish
  <2>3. store[o][k] \in RecordOrNone
    BY <1>2, <1>3
  <2>4. NotNewerThan(store[o][k], new)
    BY <2>2, <2>3, WinnerNotOlder DEF MustPublish
  <2>5. store'[o][k] = new /\ \A m \in Nodes \ {o} : store'[m][k] = store[m][k]
    BY <1>1, <1>2, <1>3, <1>5, <2>1
  <2>6. \A m \in Nodes : NotNewerThan(store[m][k], new)
    <3> SUFFICES ASSUME NEW m \in Nodes
                 PROVE  NotNewerThan(store[m][k], new)
      OBVIOUS
    <3>1. store[m][k] \in RecordOrNone
      BY <1>2, <1>3
    <3>2. NotNewerThan(store[m][k], store[o][k])
      BY DEF Follows
    <3> HIDE DEF new
    <3> QED
      BY <2>2, <2>3, <2>4, <3>1, <3>2, NotNewerThanTransitive
  <2>7. \A m \in Nodes : NotNewerThan(store'[m][k], new)
    BY <2>2, <2>5, <2>6, NotNewerThanReflexive
  <2>8. ASSUME NEW m \in msgs', m.key = k
        PROVE  NotNewerThan(m.rec, new)
    <3>1. CASE m \in msgs
      <4>1. m.rec \in RecordOrNone
        BY <1>2, <3>1 DEF Push, RecordOrNone
      <4> QED
        BY <2>2, <2>3, <2>4, <2>8, <3>1, <4>1, NotNewerThanTransitive DEF Follows
    <3>2. CASE m \in FanOut(n, key[n], snap[n][key[n]])
      <4>1. m.rec = snap[n][key[n]]
        BY <3>2, FanOutIs
      <4>2. m.rec = new
        BY <1>5, <2>1, <4>1
      <4> QED
        BY <2>2, <4>2, NotNewerThanReflexive
    <3> QED
      BY <1>1, <2>8, <3>1, <3>2
  <2> QED
    BY <2>5, <2>7, <2>8 DEF Follows
<1> QED
  BY <1>4, <1>5

\* A push delivered to a peer is a copy that follows; none reaches the origin.
LEMMA DeliveryFollows ==
  ASSUME WanInv, SingleOrigin, NEW o \in Nodes, NEW k \in Sources[o],
         Follows(k, store[o][k]), handlePutRecord
  PROVE  Follows(k, store[o][k])'
<1>1. PICK m \in msgs :
        /\ msgs' = msgs \ {m}
        /\ store' = store \/ store' = [store EXCEPT ![m.to][m.key] = m.rec]
  BY DEF handlePutRecord
<1>2. m.to \in Nodes /\ m.key \in Keys /\ k \in Keys
  BY DeploymentAssumption DEF WanInv, TypeInv, BackendTypeOK, Push
<1>3. store \in [Nodes -> [Keys -> RecordOrNone]]
  BY DEF WanInv, TypeInv, BackendTypeOK
<1>4. m.to = o => m.key # k
  BY PushesMissPublishers
<1>5. store'[o][k] = store[o][k]
  BY <1>1, <1>2, <1>3, <1>4
<1>6. \A n \in Nodes : store'[n][k] = store[n][k] \/ (m.key = k /\ store'[n][k] = m.rec)
  BY <1>1, <1>2, <1>3
<1> QED
  BY <1>1, <1>5, <1>6 DEF Follows

\* The invariants together, as PeersFollowOrigin needs them.
FollowInv == WanInv /\ PeersFollowOrigin

\* PeersFollowOrigin is kept by every step.
LEMMA FollowInvStep == FollowInv /\ [WanNext]_vars => FollowInv'
<1> SUFFICES ASSUME FollowInv, [WanNext]_vars
             PROVE  FollowInv'
  OBVIOUS
<1>1. WanInv /\ WanInv'
  BY WanInvStep DEF FollowInv
<1>2. NoFaultsOf({"crash"})' <=> NoFaultsOf({"crash"})
  BY AllowedStep DEF NoFaultsOf
<1>3. SUFFICES ASSUME SingleOrigin, NoFaultsOf({"crash"}), NEW o \in Nodes, NEW k \in Sources[o]
               PROVE  Follows(k, store[o][k])'
  BY <1>1, <1>2 DEF FollowInv, PeersFollowOrigin, Follows
<1>4. Follows(k, store[o][k]) /\ k \in Keys
  BY <1>3, DeploymentAssumption DEF FollowInv, PeersFollowOrigin, Follows
<1>5. ASSUME UNCHANGED store, msgs' \subseteq msgs
      PROVE  Follows(k, store[o][k])'
  BY <1>4, <1>5 DEF Follows
<1>6. ASSUME NEW n \in Nodes, NodeStep(n)
      PROVE  Follows(k, store[o][k])'
  <2>1. CASE QuietStep(n)
    BY <1>1, <1>5, <2>1, QuietFrame DEF WanInv
  <2>2. CASE Put(n)
    BY <1>1, <1>3, <1>4, <2>2, PutFollows
  <2> QED
    BY <1>6, <2>1, <2>2 DEF NodeStep, QuietStep
<1>7. ASSUME NEW n \in Nodes, WanCrash(n) \/ WanRestart(n) \/ WanRenew(n)
      PROVE  Follows(k, store[o][k])'
  BY <1>3, <1>5, <1>7 DEF WanCrash, Crash, Fault, NoFaultsOf, WanRestart, WanRenew, backendVars
<1>8. CASE PushLost \/ UNCHANGED vars
  BY <1>5, <1>8 DEF PushLost, vars, backendVars
<1> QED
  BY <1>1, <1>3, <1>4, <1>6, <1>7, <1>8, DeliveryFollows DEF WanNext

(***************************************************************************)
(* No store and no push is ahead of the origin, for every number of nodes, *)
(* keys, records and lost pushes, while no process crashes: the origin may *)
(* trust its own store when it decides whether to publish.                 *)
(***************************************************************************)
THEOREM WanPeersFollowOrigin == WanSpec => []PeersFollowOrigin
<1>1. WanInit => FollowInv
  <2>1. WanInit => PeersFollowOrigin
    BY DeploymentAssumption DEF WanInit, PeersFollowOrigin, NotNewerThan, NoRecords
  <2> QED
    BY <2>1, WanInvInit DEF FollowInv
<1>2. FollowInv => PeersFollowOrigin
  BY DEF FollowInv
<1> QED
  BY <1>1, <1>2, FollowInvStep, PTL DEF WanSpec
=============================================================================
