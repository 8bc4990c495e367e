------------------------------ MODULE WanProofs ------------------------------
(***************************************************************************)
(* Proofs about the WAN deployment, for any number of nodes, keys, records *)
(* and faults, and any lists of peers.                                     *)
(***************************************************************************)
EXTENDS WanSystem, EngineProofs

\* The steps of a tick that leave the stores and the pushes alone.
QuietStep(n) ==
  \/ WanEngineOnly(n)
  \/ KeysLocal(n) \/ KeysPeer(n) \/ KeysReturn(n)
  \/ GetLocal(n) \/ GetMiss(n) \/ GetPeer(n) \/ GetAbsent(n)
  \/ WanLock(n) \/ WanUnlock(n)

BackendTypeOK ==
  /\ store \in [Nodes -> [Keys -> RecordOrNone]]
  /\ msgs \in SUBSET Push
  /\ asking \in [Nodes -> Keys \cup {None}]
  /\ next \in [Nodes -> Nat]
  /\ seen \in [Nodes -> SUBSET Keys]

\* Inside maybePublish there is a local record of the key at hand.
HasRecord ==
  \A n \in Nodes : pc[n] \in {"lock", "recheck", "put"} => snap[n][key[n]] # None

TypeInv == EngineInv /\ BackendTypeOK /\ HasRecord

\* A new WAN deployment is well typed.
LEMMA TypeInvInit == WanInit => TypeInv
<1>1. WanInit => EngineInv
  BY EngineInvInit DEF WanInit
<1>2. WanInit => BackendTypeOK
  BY DEF WanInit, BackendTypeOK, NoRecords, RecordOrNone
<1>3. WanInit => HasRecord
  BY DEF WanInit, EngineInit, HasRecord
<1> QED
  BY <1>1, <1>2, <1>3 DEF TypeInv

\* The peer asked next is a node (wan.go, the loops over w.peers).
LEMMA PeerIsNode ==
  ASSUME NEW n \in Nodes, NEW i \in 1 .. Len(Peers[n])
  PROVE  Peers[n][i] \in Nodes
BY PeersAssumption

\* The end of a query keeps its state well typed.
LEMMA DropQueryType ==
  ASSUME BackendTypeOK, NEW n \in Nodes, DropQuery(n), UNCHANGED <<store, msgs>>
  PROVE  BackendTypeOK'
BY DEF BackendTypeOK, DropQuery

\* Writing one record of one store keeps the stores well typed.
LEMMA StoreWriteType ==
  ASSUME NEW s \in [Nodes -> [Keys -> RecordOrNone]], NEW n \in Nodes, NEW k \in Keys,
         NEW r \in RecordOrNone
  PROVE  [s EXCEPT ![n][k] = r] \in [Nodes -> [Keys -> RecordOrNone]]
OBVIOUS

\* The engine's part of a Get that returns a record, or nothing.
LEMMA GetReturnsInv ==
  ASSUME EngineInv, BudgetTypeOK', NEW n \in Nodes, NEW k \in Keys,
         NEW r \in RecordOrNone, GetReturns(n, k, r)
  PROVE  EngineInv'
BY EngineCallInv DEF GetReturns

\* maybePublish goes on with the key only if it has a local record of it.
LEMMA GetReturnsHasRecord ==
  ASSUME EngineInv, HasRecord, NEW n \in Nodes, NEW k \in Keys,
         NEW r \in RecordOrNone, GetReturns(n, k, r)
  PROVE  HasRecord'
<1> USE DEF EngineInv, EngineTypeOK, HasRecord, Goto
<1>1. CASE GetRecord(n, k, r)
  BY <1>1 DEF GetRecord, MustPublish
<1>2. CASE Recheck(n, r)
  BY <1>2 DEF Recheck, MustPublish, tickVars
<1> QED
  BY <1>1, <1>2 DEF GetReturns

\* Steps that leave the locals of maybePublish alone, or leave maybePublish.
LEMMA HasRecordFrame ==
  ASSUME HasRecord, NEW n \in Nodes,
         \A m \in Nodes \ {n} : /\ pc'[m] = pc[m] /\ key'[m] = key[m]
                                /\ snap'[m] = snap[m],
         \/ pc'[n] \notin {"lock", "recheck", "put"}
         \/ /\ pc[n] \in {"lock", "recheck", "put"}
            /\ key'[n] = key[n] /\ snap'[n] = snap[n]
  PROVE  HasRecord'
BY DEF HasRecord

\* The steps of a tick that leave the stores alone keep the types.
LEMMA QuietStepType ==
  ASSUME TypeInv, NEW n \in Nodes, QuietStep(n)
  PROVE  TypeInv'
<1> USE DEF TypeInv
<1>a. BudgetTypeOK
  BY DEF EngineInv, EngineTypeOK
<1>b. NoFault => BudgetTypeOK'
  BY <1>a, BudgetStep
<1>1. CASE WanEngineOnly(n)
  <2>1. EngineInv' /\ BackendTypeOK'
    BY <1>1, EngineOnlyInv DEF WanEngineOnly, backendVars, BackendTypeOK
  <2>2. /\ \A m \in Nodes \ {n} : pc'[m] = pc[m] /\ key'[m] = key[m] /\ snap'[m] = snap[m]
        /\ pc'[n] \notin {"lock", "recheck", "put"}
    BY <1>1 DEF WanEngineOnly, EngineOnlyStep, ReadLocal, ApplyBest, EndLoop, FlushResource,
                FlushReturned, RollbackResource, RollbackReturned, Goto, DropTick,
                EngineInv, EngineTypeOK
  <2> QED
    BY <2>1, <2>2, HasRecordFrame
<1>2. CASE KeysLocal(n)
  <2>1. UNCHANGED <<pc, tickVars, providerVars, budgetVars, store, msgs, asking>>
    BY <1>2 DEF KeysLocal, engineVars
  <2>2. BackendTypeOK'
    BY <1>2, <2>1 DEF KeysLocal, StoredKeys, BackendTypeOK
  <2>3. EngineInv'
    BY <1>b, <2>1, EngineCallInv DEF NoFault
  <2> QED
    BY <2>1, <2>2, <2>3 DEF HasRecord, tickVars
<1>3. CASE KeysPeer(n)
  <2>1. UNCHANGED <<pc, tickVars, providerVars, store, msgs, asking>>
    BY <1>3 DEF KeysPeer
  <2>2. BudgetTypeOK'
    BY <1>3, <1>a, BudgetStep DEF KeysPeer
  <2>3. Peers[n][next[n]] \in Nodes
    BY <1>3, PeerIsNode DEF KeysPeer
  <2>4. BackendTypeOK'
    <3>1. seen' = seen \/ seen' = [seen EXCEPT ![n] = @ \cup StoredKeys(Peers[n][next[n]])]
      BY <1>3 DEF KeysPeer
    <3>2. StoredKeys(Peers[n][next[n]]) \in SUBSET Keys
      BY DEF StoredKeys
    <3>3. seen' \in [Nodes -> SUBSET Keys]
      BY <3>1, <3>2 DEF BackendTypeOK
    <3>4. next' \in [Nodes -> Nat]
      BY <1>3 DEF KeysPeer, BackendTypeOK
    <3> QED
      BY <2>1, <3>3, <3>4 DEF BackendTypeOK
  <2>5. EngineInv'
    BY <2>1, <2>2, EngineCallInv
  <2> QED
    BY <2>1, <2>4, <2>5 DEF HasRecord, tickVars
<1>4. CASE KeysReturn(n)
  <2>1. BackendTypeOK'
    BY <1>4, DropQueryType DEF KeysReturn
  <2>2. EngineInv'
    BY <1>4, <1>b, EngineCallInv DEF KeysReturn, BackendTypeOK
  <2>3. HasRecord'
    BY <1>4, HasRecordFrame DEF KeysReturn, GatherKeys, Goto, EngineInv, EngineTypeOK
  <2> QED
    BY <2>1, <2>2, <2>3
<1>5. CASE GetLocal(n)
  <2>1. PICK k \in Wanted(n) : GetReturns(n, k, store[n][k])
    BY <1>5 DEF GetLocal
  <2>2. k \in Keys
    BY <2>1 DEF GetReturns, GetRecord, Recheck, NextKeys, EngineInv, EngineTypeOK, KeyInScope
  <2>3. store[n][k] \in RecordOrNone
    BY <2>2 DEF BackendTypeOK
  <2>4. EngineInv' /\ HasRecord'
    BY <1>5, <1>b, <2>1, <2>2, <2>3, GetReturnsInv, GetReturnsHasRecord DEF GetLocal
  <2> QED
    BY <1>5, <2>4 DEF GetLocal, backendVars, BackendTypeOK
<1>6. CASE GetMiss(n)
  <2>1. UNCHANGED <<pc, tickVars, providerVars, budgetVars, store, msgs, seen>>
    BY <1>6 DEF GetMiss, engineVars
  <2>2. Wanted(n) \subseteq Keys
    BY DEF Wanted, NextKeys, EngineInv, EngineTypeOK, KeyInScope
  <2>3. BackendTypeOK'
    BY <1>6, <2>1, <2>2 DEF GetMiss, BackendTypeOK
  <2>4. EngineInv'
    BY <1>b, <2>1, EngineCallInv DEF NoFault
  <2> QED
    BY <2>1, <2>3, <2>4 DEF HasRecord, tickVars
<1>7. CASE GetPeer(n)
  <2>1. Peers[n][next[n]] \in Nodes /\ asking[n] \in Keys
    BY <1>7, PeerIsNode DEF GetPeer, BackendTypeOK
  <2>2. BudgetTypeOK'
    BY <1>7, <1>a, BudgetStep DEF GetPeer
  <2>3. store[Peers[n][next[n]]][asking[n]] \in RecordOrNone
    BY <2>1 DEF BackendTypeOK
  <2>4. CASE /\ GetReturns(n, asking[n], store[Peers[n][next[n]]][asking[n]])
             /\ DropQuery(n)
    BY <1>7, <2>1, <2>2, <2>3, <2>4, GetReturnsInv, GetReturnsHasRecord, DropQueryType
       DEF GetPeer
  <2>5. CASE /\ next' = [next EXCEPT ![n] = @ + 1]
             /\ UNCHANGED <<pc, tickVars, providerVars, asking, seen>>
    <3>1. BackendTypeOK'
      BY <1>7, <2>5 DEF GetPeer, BackendTypeOK
    <3>2. EngineInv'
      BY <2>2, <2>5, EngineCallInv
    <3> QED
      BY <2>5, <3>1, <3>2 DEF HasRecord, tickVars
  <2> QED
    BY <1>7, <2>4, <2>5 DEF GetPeer
<1>8. CASE GetAbsent(n)
  <2>1. asking[n] \in Keys /\ None \in RecordOrNone
    BY <1>8 DEF GetAbsent, BackendTypeOK, RecordOrNone
  <2> QED
    BY <1>8, <1>b, <2>1, GetReturnsInv, GetReturnsHasRecord, DropQueryType DEF GetAbsent
<1>9. CASE WanLock(n) \/ WanUnlock(n)
  <2>1. EngineInv'
    BY <1>9, <1>b, EngineCallInv DEF WanLock, WanUnlock
  <2>2. HasRecord'
    BY <1>9, HasRecordFrame DEF WanLock, WanUnlock, LockReturned, Published, Goto, tickVars,
                                EngineInv, EngineTypeOK
  <2> QED
    BY <1>9, <2>1, <2>2 DEF WanLock, WanUnlock, backendVars, BackendTypeOK
<1> QED
  BY <1>1, <1>2, <1>3, <1>4, <1>5, <1>6, <1>7, <1>8, <1>9 DEF QuietStep

\* Put stores a record, and pushes it to nodes (HasRecord: it is not nil).
LEMMA PutType ==
  ASSUME TypeInv, NEW n \in Nodes, Put(n)
  PROVE  TypeInv'
<1> USE DEF TypeInv
<1>1. EngineInv'
  BY BudgetStep, EngineCallInv DEF Put, EngineInv, EngineTypeOK
<1>2. HasRecord'
  BY HasRecordFrame DEF Put, PutReturned, Goto, tickVars, EngineInv, EngineTypeOK
<1>3. key[n] \in Keys /\ snap[n][key[n]] \in Records
  BY DEF Put, PutReturned, EngineInv, EngineTypeOK, KeyInScope, HasRecord, RecordOrNone
<1>4. FanOut(n, key[n], snap[n][key[n]]) \in SUBSET Push
  BY <1>3, PeerIsNode DEF FanOut, Push
<1>5. BackendTypeOK'
  BY <1>3, <1>4 DEF Put, queryVars, BackendTypeOK, RecordOrNone
<1> QED
  BY <1>1, <1>2, <1>5

\* Deliveries, losses, crashes, restarts and replaced files keep the types.
LEMMA OtherStepType ==
  ASSUME TypeInv,
         \/ \E n \in Nodes : WanCrash(n) \/ WanRestart(n) \/ WanRenew(n)
         \/ handlePutRecord \/ PushLost
  PROVE  TypeInv'
<1> USE DEF TypeInv
<1>a. BudgetTypeOK
  BY DEF EngineInv, EngineTypeOK
<1>1. ASSUME NEW n \in Nodes, WanCrash(n)
      PROVE  TypeInv'
  <2>1. EngineInv'
    BY <1>1, EngineProcessInv DEF WanCrash
  <2>2. HasRecord'
    BY <1>1, HasRecordFrame DEF WanCrash, Crash, DropTick, Goto, EngineInv, EngineTypeOK
  <2>3. BackendTypeOK'
    BY <1>1 DEF WanCrash, DropQuery, BackendTypeOK, NoRecords, RecordOrNone
  <2> QED
    BY <2>1, <2>2, <2>3
<1>2. ASSUME NEW n \in Nodes, WanRestart(n) \/ WanRenew(n)
      PROVE  TypeInv'
  <2>1. EngineInv' /\ BackendTypeOK'
    BY <1>2, EngineProcessInv DEF WanRestart, WanRenew, backendVars, BackendTypeOK
  <2>2. HasRecord'
    BY <1>2 DEF WanRestart, WanRenew, Restart, Renew, Goto, tickVars, HasRecord, EngineInv,
                EngineTypeOK
  <2> QED
    BY <2>1, <2>2
<1>3. CASE handlePutRecord
  <2>1. UNCHANGED <<pc, tickVars, providerVars, budgetVars, queryVars>>
    BY <1>3 DEF handlePutRecord, engineVars
  <2>2. PICK m \in msgs :
          /\ msgs' = msgs \ {m}
          /\ store' = store \/ store' = [store EXCEPT ![m.to][m.key] = m.rec]
    BY <1>3 DEF handlePutRecord
  <2>3. m.to \in Nodes /\ m.key \in Keys /\ m.rec \in RecordOrNone
    BY DEF BackendTypeOK, Push, RecordOrNone
  <2>4. BackendTypeOK'
    <3>1. store' \in [Nodes -> [Keys -> RecordOrNone]]
      <4>1. store \in [Nodes -> [Keys -> RecordOrNone]]
        BY DEF BackendTypeOK
      <4>2. [store EXCEPT ![m.to][m.key] = m.rec] \in [Nodes -> [Keys -> RecordOrNone]]
        BY ONLY <2>3, <4>1, StoreWriteType
      <4> QED
        BY <2>2, <4>1, <4>2
    <3>2. msgs' \in SUBSET Push
      BY <2>2 DEF BackendTypeOK
    <3> QED
      BY <2>1, <3>1, <3>2 DEF BackendTypeOK, queryVars
  <2> QED
    BY <2>1, <2>4 DEF EngineInv, EngineTypeOK, KeyInScope, ProviderTypeOK, BudgetTypeOK,
                      providerVars, tickVars, budgetVars, HasRecord
<1>4. CASE PushLost
  <2>1. BudgetTypeOK'
    BY <1>4, <1>a, BudgetStep DEF PushLost
  <2>2. BackendTypeOK'
    BY <1>4 DEF PushLost, queryVars, BackendTypeOK
  <2> QED
    BY <1>4, <2>1, <2>2 DEF PushLost, EngineInv, EngineTypeOK, KeyInScope, ProviderTypeOK,
                            providerVars, tickVars, HasRecord
<1> QED
  BY <1>1, <1>2, <1>3, <1>4

\* Every step of the WAN deployment keeps the types.
LEMMA TypeInvStep == TypeInv /\ [WanNext]_vars => TypeInv'
<1> SUFFICES ASSUME TypeInv, [WanNext]_vars
             PROVE  TypeInv'
  OBVIOUS
<1>1. ASSUME NEW n \in Nodes, NodeStep(n)
      PROVE  TypeInv'
  BY <1>1, QuietStepType, PutType DEF NodeStep, QuietStep
<1>2. CASE UNCHANGED vars
  BY <1>2 DEF vars, engineVars, backendVars, tickVars, providerVars, budgetVars, TypeInv,
              EngineInv, EngineTypeOK, KeyInScope, ProviderTypeOK, BudgetTypeOK,
              BackendTypeOK, HasRecord
<1> QED
  BY <1>1, <1>2, OtherStepType DEF WanNext

\* All state of the WAN deployment stays in its type, whatever fails: every
\* push carries a record, and queries walk the peers within their lists.
THEOREM WanTypeCorrect == WanSpec => []TypeOK
<1>1. TypeInv => TypeOK
  BY DEF TypeInv, TypeOK, EngineInv, BackendTypeOK
<1> QED
  BY <1>1, TypeInvInit, TypeInvStep, PTL DEF WanSpec

-----------------------------------------------------------------------------
(* One origin per key *)

\* Only a node with a source file of a key has records of its own for it.
SourcesOnly ==
  \A n \in Nodes, k \in Keys : local[n][k] # None \/ snap[n][k] # None => k \in Sources[n]

\* Pushes come from an origin of the key and never go back to it.
PushesFromOrigin ==
  \A m \in msgs : m.key \in Sources[m.from] /\ m.to # m.from

\* A process that is not running holds nothing.
DownIsEmpty ==
  \A n \in Nodes : pc[n] = "down" => store[n] = NoRecords

\* What maybePublish of n knows about the store of n: a re-check that has gone
\* on to the peers found the store empty, and one that passed is still true.
Fresh(n) ==
  /\ pc[n] = "lock" => asking[n] = None
  /\ pc[n] = "recheck" /\ asking[n] # None => asking[n] = key[n] /\ store[n][key[n]] = None
  /\ pc[n] = "put" => MustPublish(snap[n][key[n]], store[n][key[n]])

WanInv ==
  /\ TypeInv
  /\ SourcesOnly /\ PushesFromOrigin /\ DownIsEmpty
  /\ SingleOrigin => \A n \in Nodes : Fresh(n)

\* The invariant holds in a new deployment.
LEMMA WanInvInit == WanInit => WanInv
<1> SUFFICES ASSUME WanInit
             PROVE  WanInv
  OBVIOUS
<1>1. SourcesOnly
  BY DEF WanInit, EngineInit, ProviderInit, SourcesOnly, NoRecords
<1>2. PushesFromOrigin /\ DownIsEmpty /\ \A n \in Nodes : Fresh(n)
  BY DEF WanInit, EngineInit, PushesFromOrigin, DownIsEmpty, Fresh
<1> QED
  BY <1>1, <1>2, TypeInvInit DEF WanInv

\* A quiet step of n changes nothing of the other nodes, and stops no process.
LEMMA QuietFrame ==
  ASSUME TypeInv, NEW n \in Nodes, QuietStep(n)
  PROVE  /\ UNCHANGED <<store, msgs>>
         /\ pc'[n] = "down" <=> pc[n] = "down"
         /\ \A m \in Nodes \ {n} : /\ pc'[m] = pc[m] /\ key'[m] = key[m]
                                   /\ snap'[m] = snap[m] /\ asking'[m] = asking[m]
<1> USE DEF TypeInv, EngineInv, EngineTypeOK, BackendTypeOK
<1>1. CASE WanEngineOnly(n)
  BY <1>1 DEF WanEngineOnly, EngineOnlyStep, ReadLocal, ApplyBest, EndLoop, FlushResource,
              FlushReturned, RollbackResource, RollbackReturned, Goto, DropTick, backendVars
<1>2. CASE KeysLocal(n) \/ KeysPeer(n) \/ KeysReturn(n)
  BY <1>2 DEF KeysLocal, KeysPeer, KeysReturn, GatherKeys, DropQuery, Goto, engineVars, tickVars
<1>3. CASE GetLocal(n) \/ GetAbsent(n)
  BY <1>3 DEF GetLocal, GetAbsent, GetReturns, GetRecord, Recheck, DropQuery, Goto,
              backendVars, tickVars
<1>4. CASE GetMiss(n)
  BY <1>4 DEF GetMiss, engineVars, tickVars
<1>5. CASE GetPeer(n)
  BY <1>5 DEF GetPeer, GetReturns, GetRecord, Recheck, DropQuery, Goto, tickVars
<1>6. CASE WanLock(n) \/ WanUnlock(n)
  BY <1>6 DEF WanLock, WanUnlock, LockReturned, Published, Goto, backendVars, tickVars
<1> QED
  BY <1>1, <1>2, <1>3, <1>4, <1>5, <1>6 DEF QuietStep

\* A quiet step of n keeps what maybePublish of n knows.
LEMMA QuietFresh ==
  ASSUME TypeInv, NEW n \in Nodes, Fresh(n), QuietStep(n)
  PROVE  Fresh(n)'
<1> USE DEF TypeInv, EngineInv, EngineTypeOK, BackendTypeOK
<1>a. UNCHANGED <<store, msgs>>
  BY QuietFrame
<1>1. CASE WanEngineOnly(n)
  BY <1>1 DEF WanEngineOnly, EngineOnlyStep, ReadLocal, ApplyBest, EndLoop, FlushResource,
              FlushReturned, RollbackResource, RollbackReturned, Goto, Fresh
<1>2. CASE KeysLocal(n) \/ KeysPeer(n) \/ KeysReturn(n)
  BY <1>2 DEF KeysLocal, KeysPeer, KeysReturn, GatherKeys, Goto, engineVars, Fresh
<1>3. CASE GetLocal(n)
  <2>1. PICK k \in Wanted(n) : GetReturns(n, k, store[n][k])
    BY <1>3 DEF GetLocal
  <2>2. asking[n] = None /\ asking' = asking
    BY <1>3 DEF GetLocal, backendVars
  <2>3. CASE GetRecord(n, k, store[n][k])
    BY <2>2, <2>3 DEF GetRecord, Goto, Fresh
  <2>4. CASE k = key[n] /\ Recheck(n, store[n][k])
    BY <1>a, <2>2, <2>4 DEF Recheck, Goto, tickVars, Fresh, MustPublish
  <2> QED
    BY <2>1, <2>3, <2>4 DEF GetReturns
<1>4. CASE GetMiss(n)
  <2>1. UNCHANGED <<pc, key, snap, store>>
    BY <1>4 DEF GetMiss, engineVars, tickVars
  <2>2. PICK k \in Wanted(n) : store[n][k] = None /\ asking' = [asking EXCEPT ![n] = k]
    BY <1>4 DEF GetMiss
  <2>3. /\ pc[n] \in {"loop", "recheck"}
        /\ pc[n] = "recheck" => k = key[n]
    BY <2>2 DEF Wanted
  <2> QED
    BY <2>1, <2>2, <2>3 DEF Fresh
<1>5. ASSUME NEW r, GetReturns(n, asking[n], r), asking[n] # None, DropQuery(n)
      PROVE  Fresh(n)'
  <2>1. asking'[n] = None
    BY <1>5 DEF DropQuery
  <2>2. CASE GetRecord(n, asking[n], r)
    BY <2>1, <2>2 DEF GetRecord, Goto, Fresh
  <2>3. CASE Recheck(n, r)
    <3>1. store[n][key[n]] = None
      BY <1>5, <2>3 DEF Recheck, Fresh
    <3> QED
      BY <1>a, <2>1, <2>3, <3>1 DEF Recheck, Goto, tickVars, Fresh, MustPublish
  <2> QED
    BY <1>5, <2>2, <2>3 DEF GetReturns
<1>6. CASE GetPeer(n)
  <2>1. CASE UNCHANGED <<pc, tickVars, providerVars, asking, seen>>
    BY <1>a, <2>1 DEF tickVars, Fresh, MustPublish
  <2> QED
    BY <1>5, <1>6, <2>1 DEF GetPeer
<1>7. CASE GetAbsent(n)
  BY <1>5, <1>7 DEF GetAbsent
<1>8. CASE WanLock(n) \/ WanUnlock(n)
  BY <1>8 DEF WanLock, WanUnlock, LockReturned, Published, Goto, backendVars, Fresh
<1> QED
  BY <1>1, <1>2, <1>3, <1>4, <1>6, <1>7, <1>8 DEF QuietStep

\* Only ReadLocal and the end of a tick change what Local returned, and only
\* the operator changes the source files, where the node has any.
LEMMA SourcesOnlyStep ==
  ASSUME TypeInv, SourcesOnly, [WanNext]_vars
  PROVE  SourcesOnly'
<1> USE DEF TypeInv, EngineInv, EngineTypeOK
<1>1. ASSUME UNCHANGED <<local, snap>>
      PROVE  SourcesOnly'
  BY <1>1 DEF SourcesOnly
<1>2. ASSUME NEW n \in Nodes, DropTick(n), UNCHANGED local
      PROVE  SourcesOnly'
  BY <1>2 DEF SourcesOnly, DropTick, NoRecords
<1>3. ASSUME NEW n \in Nodes, WanEngineOnly(n)
      PROVE  SourcesOnly'
  <2>1. CASE ReadLocal(n)
    <3>1. UNCHANGED local
      BY <2>1 DEF ReadLocal, providerVars
    <3>2. PICK u \in SUBSET Keys : snap' = [snap EXCEPT ![n] = Local(n, u)]
      BY <2>1 DEF ReadLocal
    <3> QED
      BY <3>1, <3>2 DEF SourcesOnly, Local
  <2>2. CASE ~ReadLocal(n)
    BY <1>1, <1>2, <1>3, <2>2 DEF WanEngineOnly, EngineOnlyStep, ApplyBest, EndLoop,
       FlushResource, FlushReturned, RollbackResource, RollbackReturned, providerVars
  <2> QED
    BY <2>1, <2>2
<1>4. ASSUME NEW n \in Nodes, NodeStep(n), ~WanEngineOnly(n)
      PROVE  SourcesOnly'
  <2>1. UNCHANGED <<local, snap>>
    BY <1>4 DEF NodeStep, KeysLocal, KeysPeer, KeysReturn, GatherKeys, GetLocal, GetMiss,
       GetPeer, GetAbsent, GetReturns, GetRecord, Recheck, WanLock, LockReturned, Put,
       PutReturned, WanUnlock, Published, engineVars, tickVars, providerVars
  <2> QED
    BY <1>1, <2>1
<1>5. ASSUME NEW n \in Nodes, WanCrash(n) \/ WanRestart(n)
      PROVE  SourcesOnly'
  BY <1>1, <1>2, <1>5 DEF WanCrash, Crash, WanRestart, Restart, tickVars, providerVars
<1>6. ASSUME NEW n \in Nodes, WanRenew(n)
      PROVE  SourcesOnly'
  <2>1. snap' = snap
    BY <1>6 DEF WanRenew, Renew, tickVars
  <2>2. PICK k \in Sources[n], r \in RecordOrNone : local' = [local EXCEPT ![n][k] = r]
    BY <1>6 DEF WanRenew, Renew
  <2> QED
    BY <2>1, <2>2 DEF SourcesOnly, ProviderTypeOK
<1>7. CASE handlePutRecord \/ PushLost \/ UNCHANGED vars
  BY <1>1, <1>7 DEF handlePutRecord, PushLost, vars, engineVars, tickVars, providerVars
<1> QED
  BY <1>3, <1>4, <1>5, <1>6, <1>7 DEF WanNext

\* The key a node publishes is one it has a source file of.
LEMMA PublishesOwnKey ==
  ASSUME WanInv, NEW n \in Nodes, pc[n] \in {"recheck", "put"}
  PROVE  key[n] \in Keys /\ key[n] \in Sources[n]
BY DEF WanInv, TypeInv, EngineInv, KeyInScope, HasRecord, SourcesOnly

\* With one origin per key no push is about a key the receiver publishes.
LEMMA PushesMissPublishers ==
  ASSUME WanInv, SingleOrigin, NEW m \in msgs, NEW n \in Nodes, n = m.to,
         NEW k \in Sources[n]
  PROVE  m.key # k
<1>1. m.from \in Nodes /\ m.key \in Sources[m.from] /\ m.from # n
  BY DEF WanInv, TypeInv, BackendTypeOK, Push, PushesFromOrigin
<1> QED
  BY <1>1 DEF SingleOrigin

\* Steps that leave the publish in hand of every node and its store alone.
LEMMA FreshFrame ==
  ASSUME NEW n \in Nodes, Fresh(n),
         pc'[n] = pc[n], key'[n] = key[n], snap'[n] = snap[n], asking'[n] = asking[n],
         pc[n] \in {"recheck", "put"} => store'[n][key[n]] = store[n][key[n]]
  PROVE  Fresh(n)'
BY DEF Fresh, MustPublish

\* A delivered push keeps the invariant: it does not touch what a publisher
\* has re-checked.
LEMMA DeliveryInv ==
  ASSUME WanInv, TypeInv', SourcesOnly', handlePutRecord
  PROVE  WanInv'
<1> USE DEF WanInv
<1>1. UNCHANGED <<pc, key, snap, asking>>
  BY DEF handlePutRecord, engineVars, tickVars, queryVars
<1>2. PICK m \in msgs :
        /\ msgs' = msgs \ {m}
        /\ store' = IF Up(m.to) /\ Accepts(m.to, m.key, m.rec)
                    THEN [store EXCEPT ![m.to][m.key] = m.rec] ELSE store
  BY DEF handlePutRecord
<1>3. m.to \in Nodes /\ m.key \in Keys
  BY DEF TypeInv, BackendTypeOK, Push
<1>4. store \in [Nodes -> [Keys -> RecordOrNone]]
  BY DEF TypeInv, BackendTypeOK
<1>5. \A n \in Nodes : n # m.to \/ ~Up(n) => store'[n] = store[n]
  BY <1>2, <1>3, <1>4
<1>6. \A n \in Nodes, k \in Keys : n # m.to \/ k # m.key => store'[n][k] = store[n][k]
  BY <1>2, <1>3, <1>4
<1>7. PushesFromOrigin'
  BY <1>2 DEF PushesFromOrigin
<1>8. DownIsEmpty'
  BY <1>1, <1>5 DEF DownIsEmpty, Up
<1>9. ASSUME SingleOrigin, NEW n \in Nodes
      PROVE  Fresh(n)'
  <2>1. pc[n] \in {"recheck", "put"} => store'[n][key[n]] = store[n][key[n]]
    BY <1>6, <1>9, PublishesOwnKey, PushesMissPublishers
  <2> QED
    BY <1>1, <1>9, <2>1, FreshFrame
<1> QED
  BY <1>7, <1>8, <1>9

\* The pushes of one Put (wan.go, the loop over w.peers).
LEMMA FanOutIs ==
  ASSUME NEW n \in Nodes, NEW k, NEW r, NEW m \in FanOut(n, k, r)
  PROVE  m.from = n /\ m.key = k /\ m.rec = r /\ m.to # n
<1>1. PICK i \in 1 .. Len(Peers[n]) :
        m = [from |-> n, to |-> Peers[n][i], key |-> k, rec |-> r]
  BY DEF FanOut
<1>2. Peers[n][i] # n
  BY PeersAssumption
<1> QED
  BY <1>1, <1>2

\* Put keeps the invariant: the node pushes a key of its own, to others.
LEMMA PutInv ==
  ASSUME WanInv, TypeInv', SourcesOnly', NEW n \in Nodes, Put(n)
  PROVE  WanInv'
<1> USE DEF WanInv
<1>1. /\ pc[n] = "put" /\ pc' = [pc EXCEPT ![n] = "unlock"]
      /\ UNCHANGED <<key, snap, asking>>
      /\ store' = [store EXCEPT ![n][key[n]] = snap[n][key[n]]]
      /\ msgs' = msgs \cup FanOut(n, key[n], snap[n][key[n]])
  BY DEF Put, PutReturned, Goto, tickVars, queryVars
<1>2. key[n] \in Keys /\ key[n] \in Sources[n]
  BY <1>1, PublishesOwnKey
<1>3. /\ pc \in [Nodes -> PCs]
      /\ store \in [Nodes -> [Keys -> RecordOrNone]]
  BY DEF TypeInv, EngineInv, EngineTypeOK, BackendTypeOK
<1>4. \A m \in FanOut(n, key[n], snap[n][key[n]]) : m.key \in Sources[m.from] /\ m.to # m.from
  <2> TAKE m \in FanOut(n, key[n], snap[n][key[n]])
  <2>1. m.from = n /\ m.key = key[n] /\ m.to # n
    BY FanOutIs
  <2> QED
    BY <1>2, <2>1
<1>5. PushesFromOrigin'
  BY <1>1, <1>4 DEF PushesFromOrigin
<1>6. \A m \in Nodes \ {n} : pc'[m] = pc[m] /\ store'[m] = store[m]
  BY <1>1, <1>3
<1>7. pc'[n] = "unlock"
  BY <1>1, <1>3
<1>8. DownIsEmpty'
  BY <1>6, <1>7 DEF DownIsEmpty
<1>9. ASSUME SingleOrigin, NEW m \in Nodes
      PROVE  Fresh(m)'
  <2>1. CASE m = n
    BY <1>7, <2>1 DEF Fresh
  <2>2. CASE m # n
    BY <1>1, <1>6, <1>9, <2>2, FreshFrame
  <2> QED
    BY <2>1, <2>2
<1> QED
  BY <1>5, <1>8, <1>9

\* Every step keeps the invariant.
LEMMA WanInvStep == WanInv /\ [WanNext]_vars => WanInv'
<1> SUFFICES ASSUME WanInv, [WanNext]_vars
             PROVE  WanInv'
  OBVIOUS
<1> USE DEF WanInv
<1>1. TypeInv' /\ SourcesOnly'
  BY TypeInvStep, SourcesOnlyStep
<1>t. pc \in [Nodes -> PCs] /\ asking \in [Nodes -> Keys \cup {None}]
      /\ store \in [Nodes -> [Keys -> RecordOrNone]]
  BY DEF TypeInv, EngineInv, EngineTypeOK, BackendTypeOK
<1>2. ASSUME NEW n \in Nodes, QuietStep(n)
      PROVE  WanInv'
  <2>1. /\ UNCHANGED <<store, msgs>>
        /\ pc'[n] = "down" <=> pc[n] = "down"
        /\ \A m \in Nodes \ {n} : /\ pc'[m] = pc[m] /\ key'[m] = key[m]
                                  /\ snap'[m] = snap[m] /\ asking'[m] = asking[m]
    BY <1>2, QuietFrame
  <2>2. PushesFromOrigin' /\ DownIsEmpty'
    BY <2>1 DEF PushesFromOrigin, DownIsEmpty
  <2>3. ASSUME SingleOrigin, NEW m \in Nodes
        PROVE  Fresh(m)'
    <3>1. CASE m = n
      BY <1>2, <2>3, <3>1, QuietFresh
    <3>2. CASE m # n
      BY <2>1, <2>3, <3>2, FreshFrame
    <3> QED
      BY <3>1, <3>2
  <2> QED
    BY <1>1, <2>2, <2>3
<1>3. ASSUME NEW n \in Nodes, WanCrash(n)
      PROVE  WanInv'
  <2>1. /\ pc' = [pc EXCEPT ![n] = "down"]
        /\ store' = [store EXCEPT ![n] = NoRecords]
        /\ msgs' \subseteq msgs
        /\ asking' = [asking EXCEPT ![n] = None]
    BY <1>3 DEF WanCrash, Crash, Goto, DropQuery
  <2>2. \A m \in Nodes \ {n} : key'[m] = key[m] /\ snap'[m] = snap[m]
    BY <1>3 DEF WanCrash, Crash, DropTick, TypeInv, EngineInv, EngineTypeOK
  <2>3. PushesFromOrigin' /\ DownIsEmpty'
    BY <1>t, <2>1 DEF PushesFromOrigin, DownIsEmpty
  <2>4. ASSUME SingleOrigin, NEW m \in Nodes
        PROVE  Fresh(m)'
    <3>1. CASE m = n
      BY <1>t, <2>1, <3>1 DEF Fresh
    <3>2. CASE m # n
      BY <1>t, <2>1, <2>2, <2>4, <3>2, FreshFrame
    <3> QED
      BY <3>1, <3>2
  <2> QED
    BY <1>1, <2>3, <2>4
<1>4. ASSUME NEW n \in Nodes, WanRestart(n)
      PROVE  WanInv'
  <2>1. /\ pc' = [pc EXCEPT ![n] = "idle"]
        /\ UNCHANGED <<key, snap, asking, store, msgs>>
    BY <1>4 DEF WanRestart, Restart, Goto, tickVars, backendVars
  <2> QED
    BY <1>1, <1>t, <2>1 DEF PushesFromOrigin, DownIsEmpty, Fresh, MustPublish
<1>5. ASSUME UNCHANGED <<pc, key, snap, asking, store>>, msgs' \subseteq msgs
      PROVE  WanInv'
  BY <1>1, <1>5 DEF PushesFromOrigin, DownIsEmpty, Fresh, MustPublish
<1>6. ASSUME NEW n \in Nodes, WanRenew(n)
      PROVE  WanInv'
  BY <1>5, <1>6 DEF WanRenew, Renew, tickVars, backendVars
<1>7. CASE PushLost \/ UNCHANGED vars
  BY <1>5, <1>7 DEF PushLost, vars, engineVars, tickVars, backendVars, queryVars
<1> QED
  BY <1>1, <1>2, <1>3, <1>4, <1>6, <1>7, DeliveryInv, PutInv DEF WanNext, NodeStep, QuietStep
=============================================================================
