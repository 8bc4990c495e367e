----------------------------- MODULE CertProofs -----------------------------
(***************************************************************************)
(* Proofs about CertStore: its types, that a reload never meets a          *)
(* certificate with the key of another bundle, that a rollback brings back *)
(* every file the tick replaced, and that a tick leaves nothing unloaded   *)
(* behind, for all sets of lineages and bundles and any number of faults.  *)
(***************************************************************************)
EXTENDS CertStore, TLAPS

CertDisk == [file : FileContents, bak : FileContents]

-----------------------------------------------------------------------------
(* The files of a lineage *)

\* The four files WriteAtomic goes through, the certificate and the key first.
LEMMA WriteOrderIs ==
  /\ Len(WriteOrder) = 4
  /\ \A i \in 1 .. 4 : WriteOrder[i] \in Files
  /\ \A i, j \in 1 .. 4 : WriteOrder[i] = WriteOrder[j] => i = j
  /\ WriteOrder[1] = "cert" /\ WriteOrder[2] = "key"
BY DEF WriteOrder, Files

\* RestoreDir meets every file once.
LEMMA DirOrderIs ==
  /\ Len(DirOrder) = 4
  /\ \A i \in 1 .. 4 : DirOrder[i] \in Files
  /\ \A i, j \in 1 .. 4 : DirOrder[i] = DirOrder[j] => i = j
  /\ \A f \in Files : \E i \in 1 .. 4 : DirOrder[i] = f
<1>1. DirOrder[1] = "cert" /\ DirOrder[2] = "chain" /\ DirOrder[3] = "full" /\ DirOrder[4] = "key"
  BY DEF DirOrder
<1>2. Len(DirOrder) = 4
  BY DEF DirOrder
<1> QED
  BY <1>1, <1>2 DEF Files

\* Replacing one file of one lineage changes no other.
LEMMA OneFile ==
  ASSUME dir \in [Lineages -> [Files -> CertDisk]],
         NEW k \in Lineages, NEW f \in Files, NEW d \in CertDisk,
         dir' = [dir EXCEPT ![k][f] = d]
  PROVE  /\ dir' \in [Lineages -> [Files -> CertDisk]]
         /\ dir'[k][f] = d
         /\ \A l \in Lineages, g \in Files : l # k \/ g # f => dir'[l][g] = dir[l][g]
OBVIOUS

\* The content of every file of a bundle, and no file, are contents.
LEMMA ContentTypes ==
  /\ None \in FileContents /\ Torn \in FileContents
  /\ \A r \in Records, f \in Files : r.blobs[f] \in FileContents
BY DEF FileContents

\* What a directory holds, file by file.
LEMMA ContentsType ==
  ASSUME NEW d \in [Files -> CertDisk]
  PROVE  /\ Contents(d) \in [Files -> FileContents]
         /\ \A f \in Files : Contents(d)[f] = d[f].file
BY DEF Contents, CertDisk

-----------------------------------------------------------------------------
(* Types *)

\* Where the tick is says what its local variables hold.
CertShape ==
  /\ pc \in {"publish", "apply"} => cur \in Lineages /\ rec \in Records /\ cur \notin todo
  /\ pc = "publish" => snap[cur] # None
  /\ pc = "restore" => cur \in Lineages /\ cur \notin todo
  /\ pc = "flush" => todo = {}
  /\ pc \in {"idle", "keys", "down"} => replaced = {} /\ changed = {}

CertTypeInv == CertTypeOK /\ CertShape

\* The budgets stay within their bounds.
LEMMA CertBudgetStep ==
  ASSUME BudgetTypeOK, NoFault \/ (\E kind : Fault(kind)) \/ Renewal
  PROVE  BudgetTypeOK'
BY FaultsAssumption DEF BudgetTypeOK, NoFault, Fault, Renewal, budgetVars

\* An empty store is well typed.
LEMMA CertTypeInit == Init => CertTypeInv
<1> SUFFICES ASSUME Init
             PROVE  CertTypeInv
  OBVIOUS
<1>1. EmptyDir \in [Files -> CertDisk]
  BY ContentTypes DEF EmptyDir, CertDisk
<1>2. Contents(EmptyDir) \in [Files -> FileContents]
  BY <1>1, ContentsType
<1>3. BudgetTypeOK
  BY FaultsAssumption DEF Init, BudgetInit, BudgetTypeOK
<1>4. dir \in [Lineages -> [Files -> CertDisk]]
  BY <1>1 DEF Init
<1>5. loaded \in [Lineages -> [Files -> FileContents]]
      /\ before \in [Lineages -> [Files -> FileContents]]
  BY <1>2 DEF Init
<1>6. gauge \in [Lineages -> Int \cup {None}]
  BY DEF Init
<1>7. CertShape
  BY DEF Init, CertShape
<1>8. snap \in [Lineages -> RecordOrNone]
  BY DEF Init, NoRecords, RecordOrNone
<1> QED
  BY <1>3, <1>4, <1>5, <1>6, <1>7, <1>8 DEF Init, CertTypeInv, CertTypeOK, CertDisk, RecordOrNone

\* One file of WriteAtomic: it is skipped, found identical, or backed up and
\* replaced.
LEMMA WriteFileIs ==
  ASSUME CertTypeInv, WriteFile
  PROVE  /\ cur \in Lineages /\ rec \in Records /\ pos \in 1 .. 4 /\ File \in Files
         /\ dir' \in [Lineages -> [Files -> CertDisk]]
         /\ \A l \in Lineages, g \in Files : l # cur \/ g # File => dir'[l][g] = dir[l][g]
         /\ \/ /\ Data = None \/ Same
               /\ dir'[cur][File] = dir[cur][File]
               /\ replaced' = replaced
            \/ /\ Data # None /\ ~Same
               /\ dir'[cur][File].file = Data
               /\ dir'[cur][File].bak = Backup(dir[cur][File])
               /\ replaced' = replaced \cup {<<cur, File>>}
<1>1. cur \in Lineages /\ rec \in Records /\ pos \in 1 .. 4 /\ File \in Files
  BY WriteOrderIs DEF CertTypeInv, CertShape, CertTypeOK, WriteFile, File
<1>2. dir \in [Lineages -> [Files -> CertDisk]]
  BY DEF CertTypeInv, CertTypeOK, CertDisk
<1>3. Data \in FileContents
  BY <1>1, ContentTypes DEF Data
<1> DEFINE new == WriteAtomic(dir[cur][File], Data, Same)
<1>4. dir[cur][File] \in CertDisk
  BY <1>1, <1>2
<1>5. /\ new \in CertDisk
      /\ Same => new = dir[cur][File]
      /\ ~Same => new.file = Data /\ new.bak = Backup(dir[cur][File])
  BY <1>3, <1>4 DEF WriteAtomic, Backup, CertDisk
<1>6. CASE Data = None
  BY <1>1, <1>2, <1>6 DEF WriteFile
<1>7. CASE Data # None
  <2>1. dir' = [dir EXCEPT ![cur][File] = new]
        /\ replaced' = IF Same THEN replaced ELSE replaced \cup {<<cur, File>>}
    BY <1>7 DEF WriteFile
  <2> HIDE DEF new
  <2>2. /\ dir' \in [Lineages -> [Files -> CertDisk]]
        /\ dir'[cur][File] = new
        /\ \A l \in Lineages, g \in Files : l # cur \/ g # File => dir'[l][g] = dir[l][g]
    BY <1>1, <1>2, <1>5, <2>1, OneFile
  <2> QED
    BY <1>1, <1>5, <1>7, <2>1, <2>2
<1> QED
  BY <1>6, <1>7

\* One file of WriteAtomic that is replaced without having been read.
LEMMA WriteFileUnreadIs ==
  ASSUME CertTypeInv, WriteFileUnread
  PROVE  /\ cur \in Lineages /\ rec \in Records /\ pos \in 1 .. 4 /\ File \in Files
         /\ dir' \in [Lineages -> [Files -> CertDisk]]
         /\ \A l \in Lineages, g \in Files : l # cur \/ g # File => dir'[l][g] = dir[l][g]
         /\ dir'[cur][File].file = Data
         /\ replaced' = replaced \cup {<<cur, File>>}
<1>1. cur \in Lineages /\ rec \in Records /\ pos \in 1 .. 4 /\ File \in Files
  BY WriteOrderIs DEF CertTypeInv, CertShape, CertTypeOK, WriteFileUnread, File
<1>2. dir \in [Lineages -> [Files -> CertDisk]]
  BY DEF CertTypeInv, CertTypeOK, CertDisk
<1>3. Data \in FileContents
  BY <1>1, ContentTypes DEF Data
<1> DEFINE new == WriteUnread(dir[cur][File], Data)
<1>4. new \in CertDisk /\ new.file = Data
  BY <1>1, <1>2, <1>3 DEF WriteUnread, CertDisk
<1>5. dir' = [dir EXCEPT ![cur][File] = new] /\ replaced' = replaced \cup {<<cur, File>>}
  BY DEF WriteFileUnread
<1> HIDE DEF new
<1> QED
  BY <1>1, <1>2, <1>4, <1>5, OneFile

\* A write that fails or is cut short may change the backup, never the file.
LEMMA InterruptedIs ==
  ASSUME CertTypeInv, Interrupted
  PROVE  /\ cur \in Lineages /\ pos \in 1 .. 4 /\ File \in Files
         /\ dir' \in [Lineages -> [Files -> CertDisk]]
         /\ \A l \in Lineages, g \in Files : l # cur \/ g # File => dir'[l][g] = dir[l][g]
         /\ dir'[cur][File].file = dir[cur][File].file
<1>1. cur \in Lineages /\ pos \in 1 .. 4 /\ File \in Files
  BY WriteOrderIs DEF CertTypeInv, CertShape, CertTypeOK, Interrupted, File
<1>2. dir \in [Lineages -> [Files -> CertDisk]]
  BY DEF CertTypeInv, CertTypeOK, CertDisk
<1>3. PICK d \in WriteAtomicFailed(dir[cur][File], Same)
                 \cup PartialBackup(dir[cur][File], Same) :
        dir' = [dir EXCEPT ![cur][File] = d]
  BY DEF Interrupted
<1>4. dir[cur][File] \in CertDisk
  BY <1>1, <1>2
<1>5. d \in CertDisk /\ d.file = dir[cur][File].file
  BY <1>4, ContentTypes DEF WriteAtomicFailed, PartialBackup, Backup, CertDisk
<1> QED
  BY <1>1, <1>2, <1>3, <1>5, OneFile

\* RestoreDir puts one backup, if there is one, in the place of its file.
LEMMA RestoreFileIs ==
  ASSUME CertTypeInv, RestoreFile
  PROVE  /\ cur \in Lineages /\ pos \in 1 .. 4 /\ DirOrder[pos] \in Files
         /\ dir' \in [Lineages -> [Files -> CertDisk]]
         /\ \A l \in Lineages, g \in Files :
              l # cur \/ g # DirOrder[pos] => dir'[l][g] = dir[l][g]
         /\ LET old == dir[cur][DirOrder[pos]] IN
              dir'[cur][DirOrder[pos]] =
                IF old.bak = None THEN old ELSE [file |-> old.bak, bak |-> None]
<1>1. cur \in Lineages /\ pos \in 1 .. 4 /\ DirOrder[pos] \in Files
  BY DirOrderIs DEF CertTypeInv, CertShape, CertTypeOK, RestoreFile
<1>2. dir \in [Lineages -> [Files -> CertDisk]]
  BY DEF CertTypeInv, CertTypeOK, CertDisk
<1> DEFINE new == Restore(dir[cur][DirOrder[pos]])
<1>3. new \in CertDisk
  BY <1>1, <1>2, ContentTypes DEF Restore, CertDisk
<1>4. dir' = [dir EXCEPT ![cur][DirOrder[pos]] = new]
  BY DEF RestoreFile
<1>5. /\ dir' \in [Lineages -> [Files -> CertDisk]]
      /\ dir'[cur][DirOrder[pos]] = new
      /\ \A l \in Lineages, g \in Files :
           l # cur \/ g # DirOrder[pos] => dir'[l][g] = dir[l][g]
  <2> HIDE DEF new
  <2> QED
    BY <1>1, <1>2, <1>3, <1>4, OneFile
<1> QED
  BY <1>1, <1>5 DEF Restore

\* Every step keeps the directories well typed.
LEMMA DirType ==
  ASSUME CertTypeInv, Next \/ UNCHANGED vars
  PROVE  dir' \in [Lineages -> [Files -> CertDisk]]
<1>1. dir \in [Lineages -> [Files -> CertDisk]]
  BY DEF CertTypeInv, CertTypeOK, CertDisk
<1>2. CASE WriteFile
  BY <1>2, WriteFileIs
<1>3. CASE Interrupted
  BY <1>3, InterruptedIs
<1>4. CASE RestoreFile
  BY <1>4, RestoreFileIs
<1>5. CASE WriteFileUnread
  BY <1>5, WriteFileUnreadIs
<1>6. CASE UNCHANGED dir
  BY <1>1, <1>6
<1> QED
  BY <1>2, <1>3, <1>4, <1>5, <1>6
     DEF Next, TickStep, vars, StartTick, GatherKeys, LookUp, Publish, WriteFileFails,
         ApplyReturns, EndLoop, FlushOk, FlushFails, BeginRollback, RestoreFileFails,
         RestoreReturns, RollbackReturns, Crash, Reboot, Renew, OtherPublishes, RecordsLost

\* What the look-up of the next lineage leads to: a publish, nothing, or an
\* Apply of what the cluster holds.
LEMMA LookUpIs ==
  ASSUME CertTypeInv, LookUp
  PROVE  /\ pc = "loop" /\ cur' \in todo /\ todo' = todo \ {cur'} /\ pos' = 1
         /\ UNCHANGED <<local, cluster, snap, dir, loaded, replaced, changed, before, gauge>>
         /\ \/ pc' = "publish" /\ rec' \in Records /\ snap[cur'] # None
            \/ /\ pc' = "loop" /\ rec' = None /\ snap[cur'] = None
               /\ cluster[cur'] = None \/ Fault("get")
            \/ pc' = "apply" /\ rec' \in Records /\ cluster[cur'] # None
<1>1. PICK k \in NextKeys, r \in RecordOrNone :
        /\ Get(k, r)
        /\ todo' = todo \ {k}
        /\ cur' = k
        /\ rec' = pickNewer(snap[k], r)
        /\ pc' = CASE MustPublish(snap[k], r) -> "publish"
                   [] snap[k] = None /\ r = None -> "loop"
                   [] OTHER -> "apply"
  BY DEF LookUp, Goto
<1>2. k \in todo /\ snap[k] \in RecordOrNone
  BY DEF NextKeys, CertTypeInv, CertTypeOK
<1>3. r = cluster[k] \/ (r = None /\ Fault("get"))
  BY <1>1 DEF Get
<1>4. CASE MustPublish(snap[k], r)
  BY <1>1, <1>2, <1>4 DEF MustPublish, pickNewer, RecordOrNone, LookUp, recordVars
<1>5. CASE snap[k] = None /\ r = None
  BY <1>1, <1>2, <1>3, <1>5 DEF MustPublish, pickNewer, LookUp, recordVars
<1>6. CASE ~MustPublish(snap[k], r) /\ ~(snap[k] = None /\ r = None)
  <2>1. r # None /\ rec' \in Records
    BY <1>1, <1>2, <1>6 DEF MustPublish, pickNewer, RecordOrNone
  <2> QED
    BY <1>1, <1>2, <1>3, <1>6, <2>1 DEF LookUp, recordVars
<1> QED
  BY <1>4, <1>5, <1>6

\* Publish leaves a record of the lineage in the cluster unless its Put fails.
LEMMA PublishIs ==
  ASSUME CertTypeInv, Publish
  PROVE  /\ cluster' \in [Lineages -> RecordOrNone]
         /\ \A k \in Lineages : cluster[k] # None => cluster'[k] # None
         /\ cluster'[cur] # None \/ Fault("put")
<1>1. /\ cur \in Lineages /\ snap[cur] \in Records /\ cluster \in [Lineages -> RecordOrNone]
  BY DEF Publish, CertTypeInv, CertTypeOK, CertShape, RecordOrNone
<1> DEFINE put == [cluster EXCEPT ![cur] = snap[cur]]
<1>2. /\ put \in [Lineages -> RecordOrNone] /\ put[cur] # None
      /\ \A k \in Lineages : cluster[k] # None => put[k] # None
  BY <1>1, RecordsAssumption DEF RecordOrNone
<1>3. \/ cluster' = put
      \/ cluster' = cluster /\ Fault("put")
      \/ cluster' = cluster /\ ~MustPublish(snap[cur], cluster[cur])
  BY DEF Publish
<1> HIDE DEF put
<1>4. ~MustPublish(snap[cur], cluster[cur]) => cluster[cur] # None
  BY <1>1, RecordsAssumption DEF MustPublish
<1> QED
  BY <1>1, <1>2, <1>3, <1>4

\* What is kept of a lineage stays well typed, and a record stays in the
\* cluster, or is replaced by another one, unless it is lost.
LEMMA RecordsStep ==
  ASSUME CertTypeInv, Next \/ UNCHANGED vars
  PROVE  /\ local' \in [Lineages -> RecordOrNone]
         /\ cluster' \in [Lineages -> RecordOrNone]
         /\ snap' \in [Lineages -> RecordOrNone]
         /\ NoFaultsOf({"lose"}) =>
              \A k \in Lineages : cluster[k] # None => cluster'[k] # None
<1>1. /\ local \in [Lineages -> RecordOrNone] /\ cluster \in [Lineages -> RecordOrNone]
      /\ snap \in [Lineages -> RecordOrNone] /\ Sources \subseteq Lineages
  BY BundlesAssumption DEF CertTypeInv, CertTypeOK
<1>2. CASE StartTick
  BY <1>1, <1>2 DEF StartTick, RecordOrNone
<1>3. CASE Publish
  BY <1>1, <1>3, PublishIs DEF Publish
<1>4. CASE Renew
  BY <1>1, <1>4 DEF Renew
<1>5. CASE OtherPublishes
  <2>1. PICK k \in Lineages, r \in Records : cluster' = [cluster EXCEPT ![k] = r]
    BY <1>5 DEF OtherPublishes
  <2> QED
    BY <1>1, <1>5, <2>1, RecordsAssumption DEF OtherPublishes, RecordOrNone
<1>6. CASE RecordsLost
  BY <1>1, <1>6 DEF RecordsLost, Fault, NoFaultsOf, RecordOrNone
<1>7. CASE UNCHANGED <<local, cluster>> /\ (UNCHANGED snap \/ snap' = NoRecords)
  BY <1>1, <1>7 DEF NoRecords, RecordOrNone
<1>8. CASE GatherKeys \/ LookUp \/ WriteFile \/ WriteFileUnread \/ WriteFileFails \/ ApplyReturns
             \/ BeginRollback \/ FlushFails
  BY <1>7, <1>8 DEF GatherKeys, LookUp, WriteFile, WriteFileUnread, WriteFileFails,
                    ApplyReturns, BeginRollback, FlushFails, recordVars
<1>9. CASE EndLoop \/ FlushOk \/ RollbackReturns \/ Crash
  BY <1>7, <1>9 DEF EndLoop, FlushOk, RollbackReturns, Crash, DropTick
<1>10. CASE RestoreFile \/ RestoreFileFails \/ RestoreReturns \/ Reboot \/ UNCHANGED vars
  BY <1>7, <1>10 DEF RestoreFile, RestoreFileFails, RestoreReturns, Reboot, recordVars, vars
<1> QED
  BY <1>2, <1>3, <1>4, <1>5, <1>6, <1>8, <1>9, <1>10 DEF Next, TickStep

\* Every step keeps the budgets, and the kinds of fault allowed.
LEMMA CertBudget ==
  ASSUME CertTypeInv, Next \/ UNCHANGED vars
  PROVE  BudgetTypeOK' /\ allowed' = allowed
<1>1. BudgetTypeOK
  BY DEF CertTypeInv, CertTypeOK
<1>2. NoFault \/ (\E kind : Fault(kind)) \/ Renewal
  BY DEF Next, TickStep, vars, StartTick, GatherKeys, LookUp, Publish, WriteFile,
         WriteFileUnread, WriteFileFails, ApplyReturns, EndLoop, FlushOk, FlushFails,
         BeginRollback, RestoreFile, RestoreFileFails, RestoreReturns, RollbackReturns,
         Crash, Reboot, Renew, OtherPublishes, RecordsLost, Get, NoFault
<1> QED
  BY <1>1, <1>2, CertBudgetStep DEF NoFault, Fault, Renewal, budgetVars

\* What is loaded, remembered and exported keeps its type.
LEMMA CopiesType ==
  ASSUME CertTypeInv, Next \/ UNCHANGED vars
  PROVE  /\ loaded' \in [Lineages -> [Files -> FileContents]]
         /\ before' \in [Lineages -> [Files -> FileContents]]
         /\ gauge' \in [Lineages -> Int \cup {None}]
<1>1. /\ loaded \in [Lineages -> [Files -> FileContents]]
      /\ before \in [Lineages -> [Files -> FileContents]]
      /\ gauge \in [Lineages -> Int \cup {None}]
  BY DEF CertTypeInv, CertTypeOK
<1>2. \A k \in Lineages : Contents(dir[k]) \in [Files -> FileContents]
  BY ContentsType DEF CertTypeInv, CertTypeOK, CertDisk
<1>3. loaded' \in [Lineages -> [Files -> FileContents]]
  <2>1. UNCHANGED loaded \/ loaded' = [k \in Lineages |-> Contents(dir[k])]
    BY DEF Next, TickStep, vars, StartTick, GatherKeys, LookUp, Publish, WriteFile,
           WriteFileUnread, WriteFileFails, ApplyReturns, EndLoop, FlushOk, FlushFails,
           BeginRollback, RestoreFile, RestoreFileFails, RestoreReturns, RollbackReturns,
           Crash, Reboot, Renew, OtherPublishes, RecordsLost
  <2> QED
    BY <1>1, <1>2, <2>1
<1>4. before' \in [Lineages -> [Files -> FileContents]]
  <2>1. UNCHANGED before \/ before' = [k \in Lineages |-> Contents(dir[k])]
    BY DEF Next, TickStep, vars, StartTick, GatherKeys, LookUp, Publish, WriteFile,
           WriteFileUnread, WriteFileFails, ApplyReturns, EndLoop, FlushOk, FlushFails,
           BeginRollback, RestoreFile, RestoreFileFails, RestoreReturns, RollbackReturns,
           Crash, Reboot, Renew, OtherPublishes, RecordsLost
  <2> QED
    BY <1>1, <1>2, <2>1
<1>5. gauge' \in [Lineages -> Int \cup {None}]
  <2>1. \/ UNCHANGED gauge
        \/ gauge' = [k \in Lineages |-> None]
        \/ rec \in Records /\ gauge' = [gauge EXCEPT ![cur] = rec.version.secondary]
    BY DEF Next, TickStep, vars, StartTick, GatherKeys, LookUp, Publish, WriteFile,
           WriteFileUnread, WriteFileFails, ApplyReturns, SetGauge, EndLoop, FlushOk,
           FlushFails, BeginRollback, RestoreFile, RestoreFileFails, RestoreReturns,
           RollbackReturns, Crash, Reboot, Renew, OtherPublishes, RecordsLost, CertTypeInv,
           CertShape
  <2> QED
    BY <1>1, <2>1, RecordsAssumption DEF Version
<1> QED
  BY <1>3, <1>4, <1>5

\* The local variables of the tick keep their types.
LEMMA TickType ==
  ASSUME CertTypeInv, Next \/ UNCHANGED vars
  PROVE  /\ pc' \in {"idle", "keys", "loop", "publish", "apply", "flush", "rollback", "restore", "down"}
         /\ todo' \in SUBSET Lineages /\ cur' \in Lineages \cup {None}
         /\ rec' \in RecordOrNone /\ pos' \in 1 .. 5
         /\ replaced' \in SUBSET (Lineages \X Files) /\ changed' \in SUBSET Lineages
<1> USE DEF CertTypeInv, CertTypeOK, CertShape, Goto, DropTick, RecordOrNone
<1>1. CASE StartTick \/ GatherKeys \/ Publish \/ BeginRollback
  BY <1>1 DEF StartTick, GatherKeys, LocalKeys, Publish, BeginRollback
<1>2. CASE WriteFile
  <2>1. replaced' \in SUBSET (Lineages \X Files) /\ pos' \in 1 .. 5
    BY <1>2, WriteFileIs DEF WriteFile
  <2> QED
    BY <1>2, <2>1 DEF WriteFile
<1>3. CASE RestoreFile
  BY <1>3, RestoreFileIs DEF RestoreFile
<1>4. CASE WriteFileFails \/ ApplyReturns \/ EndLoop
  BY <1>4 DEF WriteFileFails, ApplyReturns, EndLoop
<1>5. CASE FlushOk \/ FlushFails \/ RestoreFileFails \/ RestoreReturns \/ RollbackReturns
  BY <1>5 DEF FlushOk, FlushFails, RestoreFileFails, RestoreReturns, RollbackReturns
<1>6. CASE Crash \/ Reboot \/ Renew \/ OtherPublishes \/ RecordsLost \/ UNCHANGED vars
  BY <1>6 DEF Crash, Reboot, Renew, OtherPublishes, RecordsLost, vars
<1>7. CASE LookUp
  BY <1>7, LookUpIs
<1>8. CASE WriteFileUnread
  <2>1. replaced' \in SUBSET (Lineages \X Files) /\ pos' \in 1 .. 5
    BY <1>8, WriteFileUnreadIs DEF WriteFileUnread
  <2> QED
    BY <1>8, <2>1 DEF WriteFileUnread
<1> QED
  BY <1>1, <1>2, <1>3, <1>4, <1>5, <1>6, <1>7, <1>8 DEF Next, TickStep

\* Every step keeps what the place in the tick says.
LEMMA ShapeStep ==
  ASSUME CertTypeInv, Next \/ UNCHANGED vars
  PROVE  CertShape'
<1> USE DEF CertTypeInv, CertTypeOK, CertShape, Goto, DropTick, RecordOrNone
<1>1. CASE StartTick \/ GatherKeys \/ Publish
  BY <1>1 DEF StartTick, GatherKeys, Publish
<1>2. CASE LookUp
  BY <1>2, LookUpIs
<1>3. CASE WriteFile \/ WriteFileUnread \/ WriteFileFails
  BY <1>3 DEF WriteFile, WriteFileUnread, WriteFileFails, Interrupted
<1>4. CASE ApplyReturns \/ EndLoop
  BY <1>4 DEF ApplyReturns, EndLoop
<1>5. CASE FlushOk \/ FlushFails \/ RollbackReturns
  BY <1>5 DEF FlushOk, FlushFails, RollbackReturns
<1>6. CASE BeginRollback \/ RestoreFile \/ RestoreFileFails \/ RestoreReturns
  BY <1>6 DEF BeginRollback, RestoreFile, RestoreFileFails, RestoreReturns
<1>7. CASE Crash \/ Reboot
  BY <1>7 DEF Crash, Reboot
<1>8. CASE Renew \/ OtherPublishes \/ RecordsLost
  BY <1>8 DEF Renew, OtherPublishes, RecordsLost
<1>9. CASE UNCHANGED vars
  BY <1>9 DEF vars, recordVars
<1> QED
  BY <1>1, <1>2, <1>3, <1>4, <1>5, <1>6, <1>7, <1>8, <1>9 DEF Next, TickStep

\* Every step keeps the types.
LEMMA CertTypeStep == CertTypeInv /\ [Next]_vars => CertTypeInv'
<1> SUFFICES ASSUME CertTypeInv, Next \/ UNCHANGED vars
             PROVE  CertTypeInv'
  OBVIOUS
<1>1. CertTypeOK'
  BY DirType, RecordsStep, CertBudget, CopiesType, TickType DEF CertTypeOK, CertDisk, BudgetTypeOK
<1> QED
  BY <1>1, ShapeStep DEF CertTypeInv

(***************************************************************************)
(* The types of the certificate store are kept, for all sets of lineages   *)
(* and bundles and any number of faults and renewals.                      *)
(***************************************************************************)
THEOREM CertTypeCorrect == Spec => []CertTypeOK
<1>1. CertTypeInv => CertTypeOK
  BY DEF CertTypeInv
<1> QED
  BY <1>1, CertTypeInit, CertTypeStep, PTL DEF Spec

-----------------------------------------------------------------------------
(* What the tick has replaced, and its backups *)

\* Until the hook has run: a lineage still to be visited, and the files of the
\* lineage at hand still to be written, are as the tick found them, and what
\* was replaced has its backup, if it could be read.
WriteInv ==
  pc \in {"keys", "loop", "publish", "apply", "flush"} =>
    /\ \A k \in todo, f \in Files : <<k, f>> \notin replaced
    /\ pc \in {"publish", "apply"} => \A i \in pos .. 4 : <<cur, WriteOrder[i]>> \notin replaced
    /\ \A k \in Lineages, f \in Files :
         IF <<k, f>> \in replaced
         THEN NoFaultsOf({"nobackup"}) /\ before[k][f] # None => dir[k][f].bak = before[k][f]
         ELSE dir[k][f].file = before[k][f]

\* The backup of a file is still to be renamed by this rollback.
ToRestore(k, f) ==
  k \in todo \/ (pc = "restore" /\ k = cur /\ \E i \in pos .. 4 : DirOrder[i] = f)

\* During a rollback whose renames succeed, a file of a changed lineage that was
\* replaced is back, or its backup waits.
RollbackInv ==
  NoFaultsOf({"restore", "nobackup"}) /\ pc \in {"rollback", "restore"} =>
    \A k \in changed, f \in Files :
      <<k, f>> \in replaced /\ before[k][f] # None =>
        IF ToRestore(k, f) THEN dir[k][f].bak = before[k][f] ELSE dir[k][f].file = before[k][f]

\* Without failing writes, a replaced file belongs to a lineage that counts as
\* changed, or will as soon as its Apply returns; and hooks that do not fail
\* lead to no rollback.
ChangedInv ==
  /\ NoFaultsOf({"apply"}) =>
       \A k \in Lineages, f \in Files :
         <<k, f>> \in replaced => k \in changed \/ (pc = "apply" /\ k = cur)
  /\ NoFaultsOf({"hook"}) => pc \notin {"rollback", "restore"}

\* Every step keeps WriteInv.
LEMMA WriteInvStep ==
  ASSUME CertTypeInv, WriteInv, Next \/ UNCHANGED vars
  PROVE  WriteInv'
<1> USE DEF Goto, DropTick
<1>a. /\ todo \in SUBSET Lineages /\ pos \in 1 .. 5
      /\ dir \in [Lineages -> [Files -> CertDisk]]
      /\ replaced \in SUBSET (Lineages \X Files)
  BY DEF CertTypeInv, CertTypeOK, CertDisk
<1>b. NoFaultsOf({"nobackup"})' <=> NoFaultsOf({"nobackup"})
  BY CertBudget DEF NoFaultsOf
<1>1. CASE StartTick
  <2>1. replaced = {} /\ replaced' = {} /\ pc' = "keys" /\ dir' = dir
    BY <1>1 DEF StartTick, CertTypeInv, CertShape
  <2>2. \A k \in Lineages, f \in Files : before'[k][f] = dir[k][f].file
    BY <1>1, <1>a, ContentsType DEF StartTick
  <2> QED
    BY <2>1, <2>2 DEF WriteInv
<1>2. CASE GatherKeys \/ Publish
  <2>1. CASE GatherKeys
    BY <1>b, <2>1 DEF GatherKeys, WriteInv, CertTypeInv, CertShape
  <2>2. CASE Publish
    BY <1>b, <2>2 DEF Publish, WriteInv
  <2> QED
    BY <1>2, <2>1, <2>2
<1>3. CASE WriteFile
  <2> DEFINE f0 == File
  <2>1. /\ cur \in Lineages /\ pos \in 1 .. 4 /\ f0 \in Files /\ f0 = WriteOrder[pos]
        /\ \A l \in Lineages, g \in Files : l # cur \/ g # f0 => dir'[l][g] = dir[l][g]
        /\ \/ dir'[cur][f0] = dir[cur][f0] /\ replaced' = replaced
           \/ /\ dir'[cur][f0].bak = Backup(dir[cur][f0])
              /\ replaced' = replaced \cup {<<cur, f0>>}
    BY <1>3, WriteFileIs DEF File
  <2>2. /\ pc = "apply" /\ pc' = "apply" /\ pos' = pos + 1 /\ cur \notin todo
        /\ UNCHANGED <<todo, cur, before>>
    BY <1>3 DEF WriteFile, CertTypeInv, CertShape
  <2> HIDE DEF f0
  <2>0. NoFaultsOf({"nobackup"})' <=> NoFaultsOf({"nobackup"})
    BY <1>b
  <2>3. <<cur, f0>> \notin replaced
    BY <2>1, <2>2 DEF WriteInv
  <2>4. dir[cur][f0].file = before[cur][f0]
    BY <2>1, <2>2, <2>3 DEF WriteInv
  <2>5. CASE dir'[cur][f0] = dir[cur][f0] /\ replaced' = replaced
    BY <2>0, <2>1, <2>2, <2>5, <1>a DEF WriteInv
  <2>6. CASE dir'[cur][f0].bak = Backup(dir[cur][f0]) /\ replaced' = replaced \cup {<<cur, f0>>}
    <3>1. \A k \in Lineages, f \in Files :
            <<k, f>> \in replaced' <=> <<k, f>> \in replaced \/ (k = cur /\ f = f0)
      BY <2>6
    <3>2. before[cur][f0] # None => dir'[cur][f0].bak = before[cur][f0]
      BY <2>4, <2>6 DEF Backup
    <3>3. \A k \in todo', f \in Files : <<k, f>> \notin replaced'
      BY <1>a, <2>2, <3>1 DEF WriteInv
    <3>4. \A i \in pos' .. 4 : <<cur, WriteOrder[i]>> \notin replaced'
      BY <1>a, <2>1, <2>2, <3>1, WriteOrderIs DEF WriteInv
    <3>5. \A k \in Lineages, f \in Files :
            IF <<k, f>> \in replaced'
            THEN NoFaultsOf({"nobackup"})' /\ before'[k][f] # None => dir'[k][f].bak = before'[k][f]
            ELSE dir'[k][f].file = before'[k][f]
      <4> TAKE k \in Lineages, f \in Files
      <4>1. CASE k = cur /\ f = f0
        BY <2>2, <3>1, <3>2, <4>1
      <4>2. CASE k # cur \/ f # f0
        <5>1. dir'[k][f] = dir[k][f] /\ (<<k, f>> \in replaced' <=> <<k, f>> \in replaced)
          BY <2>1, <3>1, <4>2
        <5> QED
          BY <2>0, <2>2, <5>1 DEF WriteInv
      <4> QED
        BY <4>1, <4>2
    <3> QED
      BY <2>2, <3>3, <3>4, <3>5 DEF WriteInv
  <2> QED
    BY <2>1, <2>5, <2>6
<1>4. CASE WriteFileFails
  <2>1. /\ cur \in Lineages /\ pos \in 1 .. 4 /\ File \in Files /\ File = WriteOrder[pos]
        /\ \A l \in Lineages, g \in Files : l # cur \/ g # File => dir'[l][g] = dir[l][g]
        /\ dir'[cur][File].file = dir[cur][File].file
    BY <1>4, InterruptedIs DEF WriteFileFails, File
  <2>2. pc = "apply" /\ pc' = "loop" /\ UNCHANGED <<todo, replaced, before>>
    BY <1>4 DEF WriteFileFails, Interrupted
  <2>3. <<cur, File>> \notin replaced
    BY <2>1, <2>2 DEF WriteInv
  <2> QED
    BY <1>b, <2>1, <2>2, <2>3 DEF WriteInv
<1>5. CASE ApplyReturns \/ EndLoop
  BY <1>5, <1>b DEF ApplyReturns, EndLoop, WriteInv
<1>6. CASE FlushOk \/ FlushFails \/ RollbackReturns
  BY <1>6 DEF FlushOk, FlushFails, RollbackReturns, WriteInv
<1>7. CASE BeginRollback \/ RestoreFile \/ RestoreFileFails \/ RestoreReturns
  BY <1>7 DEF BeginRollback, RestoreFile, RestoreFileFails, RestoreReturns, WriteInv
<1>8. CASE Crash \/ Reboot
  BY <1>8 DEF Crash, Reboot, WriteInv
<1>9. CASE Renew \/ OtherPublishes \/ RecordsLost \/ UNCHANGED vars
  <2>1. UNCHANGED <<dir, pc, todo, cur, pos, replaced, before>>
    BY <1>9 DEF Renew, OtherPublishes, RecordsLost, vars
  <2> QED
    BY <1>b, <2>1 DEF WriteInv
<1>10. CASE LookUp
  <2>1. /\ pc = "loop" /\ cur' \in todo /\ todo' = todo \ {cur'} /\ pos' = 1
        /\ UNCHANGED <<dir, replaced, before>>
    BY <1>10, LookUpIs
  <2> QED
    BY <1>a, <1>b, <2>1, WriteOrderIs DEF WriteInv
<1>11. CASE WriteFileUnread
  <2> DEFINE f0 == File
  <2>1. /\ cur \in Lineages /\ pos \in 1 .. 4 /\ f0 \in Files /\ f0 = WriteOrder[pos]
        /\ \A l \in Lineages, g \in Files : l # cur \/ g # f0 => dir'[l][g] = dir[l][g]
        /\ replaced' = replaced \cup {<<cur, f0>>}
    BY <1>11, WriteFileUnreadIs DEF File
  <2>2. /\ pc = "apply" /\ pc' = "apply" /\ pos' = pos + 1 /\ cur \notin todo
        /\ UNCHANGED <<todo, cur, before>> /\ ~NoFaultsOf({"nobackup"})
    BY <1>11 DEF WriteFileUnread, Fault, NoFaultsOf, CertTypeInv, CertShape
  <2> HIDE DEF f0
  <2>3. \A k \in Lineages, f \in Files :
          <<k, f>> \in replaced' <=> <<k, f>> \in replaced \/ (k = cur /\ f = f0)
    BY <2>1
  <2>4. \A k \in todo', f \in Files : <<k, f>> \notin replaced'
    BY <1>a, <2>2, <2>3 DEF WriteInv
  <2>5. \A i \in pos' .. 4 : <<cur, WriteOrder[i]>> \notin replaced'
    BY <1>a, <2>1, <2>2, <2>3, WriteOrderIs DEF WriteInv
  <2>6. \A k \in Lineages, f \in Files :
          <<k, f>> \notin replaced' => dir'[k][f].file = before'[k][f]
    BY <2>1, <2>2, <2>3 DEF WriteInv
  <2> QED
    BY <1>b, <2>2, <2>4, <2>5, <2>6 DEF WriteInv
<1> QED
  BY <1>1, <1>2, <1>3, <1>4, <1>5, <1>6, <1>7, <1>8, <1>9, <1>10, <1>11 DEF Next, TickStep

\* Every step keeps RollbackInv.
LEMMA RollbackInvStep ==
  ASSUME CertTypeInv, WriteInv, RollbackInv, Next \/ UNCHANGED vars
  PROVE  RollbackInv'
<1> USE DEF Goto, DropTick
<1>a. todo \in SUBSET Lineages /\ changed \in SUBSET Lineages /\ pos \in 1 .. 5
  BY DEF CertTypeInv, CertTypeOK
<1>b. NoFaultsOf({"restore", "nobackup"})' <=> NoFaultsOf({"restore", "nobackup"})
  BY CertBudget DEF NoFaultsOf
<1>1. CASE FlushFails
  BY <1>1, <1>a, <1>b DEF FlushFails, WriteInv, RollbackInv, ToRestore, NoFaultsOf
<1>2. CASE BeginRollback
  <2>1. PICK k \in todo : todo' = todo \ {k} /\ cur' = k
    BY <1>2 DEF BeginRollback
  <2>2. pc = "rollback" /\ pc' = "restore" /\ pos' = 1 /\ UNCHANGED <<dir, replaced, changed, before>>
    BY <1>2 DEF BeginRollback
  <2>3. \A l \in changed, f \in Files : ToRestore(l, f)' <=> ToRestore(l, f)
    BY <2>1, <2>2, DirOrderIs DEF ToRestore
  <2> QED
    BY <1>b, <2>2, <2>3 DEF RollbackInv
<1>3. CASE RestoreFile
  <2> DEFINE f0 == DirOrder[pos]
  <2>1. /\ cur \in Lineages /\ pos \in 1 .. 4 /\ f0 \in Files
        /\ \A l \in Lineages, g \in Files : l # cur \/ g # f0 => dir'[l][g] = dir[l][g]
        /\ dir'[cur][f0] = IF dir[cur][f0].bak = None THEN dir[cur][f0]
                           ELSE [file |-> dir[cur][f0].bak, bak |-> None]
    BY <1>3, RestoreFileIs
  <2>2. /\ pc = "restore" /\ pc' = "restore" /\ pos' = pos + 1 /\ cur \notin todo
        /\ UNCHANGED <<todo, cur, replaced, changed, before>>
    BY <1>3 DEF RestoreFile, CertTypeInv, CertShape
  <2>3. \A k \in changed, f \in Files :
          ToRestore(k, f)' <=> ToRestore(k, f) /\ ~(k = cur /\ f = f0)
    <3> SUFFICES ASSUME NEW k \in changed, NEW f \in Files
                 PROVE  ToRestore(k, f)' <=> ToRestore(k, f) /\ ~(k = cur /\ f = f0)
      OBVIOUS
    <3>1. (\E i \in pos + 1 .. 4 : DirOrder[i] = f) <=> (\E i \in pos .. 4 : DirOrder[i] = f) /\ f # f0
      <4>1. ASSUME NEW i \in pos + 1 .. 4, DirOrder[i] = f
            PROVE  i \in pos .. 4 /\ f # f0
        BY <2>1, <4>1, DirOrderIs
      <4>2. ASSUME NEW i \in pos .. 4, DirOrder[i] = f, f # f0
            PROVE  i \in pos + 1 .. 4
        BY <2>1, <4>2
      <4> QED
        BY <4>1, <4>2
    <3>2. CASE k = cur
      BY <2>2, <3>1, <3>2 DEF ToRestore
    <3>3. CASE k # cur
      BY <2>2, <3>3 DEF ToRestore
    <3> QED
      BY <3>2, <3>3
  <2>4. ToRestore(cur, f0)
    <3>1. \E i \in pos .. 4 : DirOrder[i] = f0
      BY <2>1
    <3> QED
      BY <2>2, <3>1 DEF ToRestore
  <2> HIDE DEF f0
  <2>5. ASSUME NoFaultsOf({"restore", "nobackup"}), NEW k \in changed, NEW f \in Files,
               <<k, f>> \in replaced, before[k][f] # None
        PROVE  IF ToRestore(k, f)' THEN dir'[k][f].bak = before[k][f]
               ELSE dir'[k][f].file = before[k][f]
    <3>1. IF ToRestore(k, f) THEN dir[k][f].bak = before[k][f] ELSE dir[k][f].file = before[k][f]
      BY <2>2, <2>5 DEF RollbackInv
    <3>2. CASE k = cur /\ f = f0
      BY <2>1, <2>3, <2>4, <2>5, <3>1, <3>2
    <3>3. CASE ~(k = cur /\ f = f0)
      BY <1>a, <2>1, <2>3, <3>1, <3>3
    <3> QED
      BY <3>2, <3>3
  <2> QED
    BY <1>b, <2>2, <2>5 DEF RollbackInv
<1>4. CASE RestoreFileFails
  BY <1>4, <1>b DEF RestoreFileFails, Fault, NoFaultsOf, RollbackInv
<1>5. CASE RestoreReturns
  <2>1. \A k \in changed, f \in Files : ToRestore(k, f)' <=> ToRestore(k, f)
    BY <1>5, <1>a, DirOrderIs DEF RestoreReturns, ToRestore
  <2> QED
    BY <1>5, <1>b, <2>1 DEF RestoreReturns, RollbackInv
<1>6. CASE WriteFile \/ WriteFileUnread \/ WriteFileFails \/ ApplyReturns \/ EndLoop
  BY <1>6 DEF WriteFile, WriteFileUnread, WriteFileFails, Interrupted, ApplyReturns,
              EndLoop, RollbackInv
<1>7. CASE FlushOk \/ RollbackReturns \/ Crash \/ Reboot
  BY <1>7 DEF FlushOk, RollbackReturns, Crash, Reboot, RollbackInv
<1>8. CASE Renew \/ OtherPublishes \/ RecordsLost \/ UNCHANGED vars
  <2>1. UNCHANGED <<dir, pc, todo, cur, pos, replaced, changed, before>>
    BY <1>8 DEF Renew, OtherPublishes, RecordsLost, vars
  <2>2. \A k \in changed, f \in Files : ToRestore(k, f)' <=> ToRestore(k, f)
    BY <2>1 DEF ToRestore
  <2> QED
    BY <1>b, <2>1, <2>2 DEF RollbackInv
<1>9. CASE StartTick \/ GatherKeys \/ LookUp \/ Publish
  <2>1. pc' \in {"keys", "loop", "publish", "apply"}
    BY <1>9, LookUpIs DEF StartTick, GatherKeys, Publish
  <2> QED
    BY <2>1 DEF RollbackInv
<1> QED
  BY <1>1, <1>2, <1>3, <1>4, <1>5, <1>6, <1>7, <1>8, <1>9 DEF Next, TickStep

\* Every step keeps ChangedInv.
LEMMA ChangedInvStep ==
  ASSUME CertTypeInv, ChangedInv, Next \/ UNCHANGED vars
  PROVE  ChangedInv'
<1> USE DEF Goto, DropTick
<1>a. \A kinds : NoFaultsOf(kinds)' <=> NoFaultsOf(kinds)
  BY CertBudget DEF NoFaultsOf
<1>1. CASE StartTick
  BY <1>1 DEF StartTick, ChangedInv, CertTypeInv, CertShape
<1>2. CASE GatherKeys \/ Publish
  BY <1>2, <1>a DEF GatherKeys, Publish, ChangedInv
<1>3. CASE WriteFile
  <2>1. \A k \in Lineages, f \in Files : <<k, f>> \in replaced' => <<k, f>> \in replaced \/ k = cur
    BY <1>3, WriteFileIs
  <2>2. pc = "apply" /\ UNCHANGED <<pc, cur, changed>>
    BY <1>3 DEF WriteFile
  <2> QED
    BY <1>a, <2>1, <2>2 DEF ChangedInv
<1>4. CASE WriteFileFails
  BY <1>4, <1>a DEF WriteFileFails, Fault, NoFaultsOf, ChangedInv
<1>5. CASE ApplyReturns
  BY <1>5, <1>a DEF ApplyReturns, Dirty, ChangedInv
<1>6. CASE EndLoop \/ FlushOk
  BY <1>6, <1>a DEF EndLoop, FlushOk, ChangedInv
<1>7. CASE FlushFails
  BY <1>7, <1>a DEF FlushFails, Fault, NoFaultsOf, ChangedInv
<1>8. CASE BeginRollback \/ RestoreFile \/ RestoreFileFails \/ RestoreReturns \/ RollbackReturns
  BY <1>8, <1>a DEF BeginRollback, RestoreFile, RestoreFileFails, RestoreReturns,
                    RollbackReturns, ChangedInv
<1>9. CASE Crash \/ Reboot \/ Renew \/ OtherPublishes \/ RecordsLost \/ UNCHANGED vars
  BY <1>9, <1>a DEF Crash, Reboot, Renew, OtherPublishes, RecordsLost, vars, ChangedInv
<1>10. CASE LookUp
  <2>1. pc = "loop" /\ pc' \in {"loop", "publish", "apply"} /\ UNCHANGED <<replaced, changed>>
    BY <1>10, LookUpIs
  <2> QED
    BY <1>a, <2>1 DEF ChangedInv
<1>11. CASE WriteFileUnread
  <2>1. \A k \in Lineages, f \in Files : <<k, f>> \in replaced' => <<k, f>> \in replaced \/ k = cur
    BY <1>11, WriteFileUnreadIs
  <2>2. pc = "apply" /\ UNCHANGED <<pc, cur, changed>>
    BY <1>11 DEF WriteFileUnread
  <2> QED
    BY <1>a, <2>1, <2>2 DEF ChangedInv
<1> QED
  BY <1>1, <1>2, <1>3, <1>4, <1>5, <1>6, <1>7, <1>8, <1>9, <1>10, <1>11 DEF Next, TickStep

-----------------------------------------------------------------------------
(* Certificates and keys *)

\* A certificate and a key of one bundle.
Paired(files) ==
  files["cert"] # None =>
    \E r \in Records : r.blobs["cert"] = files["cert"] /\ r.blobs["key"] = files["key"]

\* Only a lineage that the cluster holds has files or backups: Apply comes after
\* maybePublish.
OwnedInv ==
  NoFaultsOf({"put", "lose"}) =>
    /\ \A k \in Lineages, f \in Files :
         dir[k][f].file # None \/ dir[k][f].bak # None => cluster[k] # None
    /\ pc = "apply" => cluster[cur] # None

\* The faults ReloadsMatchingPair does not tolerate.
PairFaults == {"apply", "get", "keys", "put", "lose"}

\* Up to the hook, a lineage that was visited (or has no record) holds a
\* matching pair, the lineage at hand holds what was written of it, and a
\* lineage still to be visited has a record.
PairInv ==
  NoFaultsOf(PairFaults) =>
    /\ pc \in {"loop", "publish", "apply", "flush"} =>
         /\ \A k \in Lineages \ todo :
              (pc \in {"publish", "apply"} /\ k = cur) \/ Paired(Contents(dir[k]))
         /\ \A k \in todo : snap[k] # None \/ cluster[k] # None
    /\ pc \in {"publish", "apply"} => \A i \in 1 .. 2 :
         i < pos => dir[cur][WriteOrder[i]].file = rec.blobs[WriteOrder[i]]
    /\ \A k \in Lineages : Paired(loaded[k])

\* Every step keeps OwnedInv.
LEMMA OwnedInvStep ==
  ASSUME CertTypeInv, OwnedInv, Next \/ UNCHANGED vars
  PROVE  OwnedInv'
<1> SUFFICES ASSUME NoFaultsOf({"put", "lose"})
             PROVE  OwnedInv'
  BY CertBudget DEF OwnedInv, NoFaultsOf
<1>a. (\A k \in Lineages : cluster[k] # None => cluster'[k] # None) /\ ~Fault("put")
  BY RecordsStep DEF NoFaultsOf, Fault
<1>b. (pc = "apply" => cur \in Lineages /\ cluster[cur] # None)
      /\ (pc = "publish" => cur \in Lineages)
  BY DEF OwnedInv, CertTypeInv, CertShape
<1>c. pc' = "apply" => cluster'[cur'] # None
  <2>1. CASE LookUp
    BY <2>1, LookUpIs
  <2>2. CASE Publish
    BY <1>a, <2>2, PublishIs DEF Publish
  <2>3. CASE UNCHANGED <<pc, cur>>
    BY <1>a, <1>b, <2>3
  <2>4. CASE pc' # "apply"
    BY <2>4
  <2> QED
    BY <2>1, <2>2, <2>3, <2>4
       DEF Next, TickStep, vars, StartTick, GatherKeys, WriteFile, WriteFileUnread,
           WriteFileFails, ApplyReturns, EndLoop, FlushOk, FlushFails, BeginRollback,
           RestoreFile, RestoreFileFails, RestoreReturns, RollbackReturns, Crash, Reboot,
           Renew, OtherPublishes, RecordsLost, Goto
<1>1. CASE WriteFile \/ WriteFileUnread \/ Interrupted
  <2>1. cur \in Lineages /\ cluster[cur] # None
    BY <1>1, <1>b DEF WriteFile, WriteFileUnread, Interrupted
  <2>2. \A l \in Lineages, g \in Files : l # cur => dir'[l][g] = dir[l][g]
    BY <1>1, WriteFileIs, WriteFileUnreadIs, InterruptedIs
  <2> QED
    BY <1>a, <1>c, <2>1, <2>2 DEF OwnedInv
<1>2. CASE RestoreFile
  <2> DEFINE f0 == DirOrder[pos]
  <2>1. /\ cur \in Lineages /\ f0 \in Files
        /\ \A l \in Lineages, g \in Files : l # cur \/ g # f0 => dir'[l][g] = dir[l][g]
        /\ dir'[cur][f0] = IF dir[cur][f0].bak = None THEN dir[cur][f0]
                           ELSE [file |-> dir[cur][f0].bak, bak |-> None]
    BY <1>2, RestoreFileIs
  <2> HIDE DEF f0
  <2> QED
    BY <1>a, <1>c, <2>1 DEF OwnedInv
<1>3. CASE UNCHANGED dir
  BY <1>a, <1>c, <1>3 DEF OwnedInv
<1> QED
  BY <1>1, <1>2, <1>3
     DEF Next, TickStep, vars, StartTick, GatherKeys, LookUp, Publish, WriteFileFails,
         ApplyReturns, EndLoop, FlushOk, FlushFails, BeginRollback, RestoreFileFails,
         RestoreReturns, RollbackReturns, Crash, Reboot, Renew, OtherPublishes, RecordsLost

\* Every step keeps PairInv.
LEMMA PairInvStep ==
  ASSUME CertTypeInv, OwnedInv, PairInv, Next \/ UNCHANGED vars
  PROVE  PairInv'
<1> SUFFICES ASSUME NoFaultsOf(PairFaults)
             PROVE  PairInv'
  BY CertBudget DEF PairInv, NoFaultsOf
<1> USE DEF Goto, DropTick
<1>a. /\ dir \in [Lineages -> [Files -> CertDisk]] /\ pos \in 1 .. 5 /\ todo \in SUBSET Lineages
      /\ "cert" \in Files /\ "key" \in Files
  BY DEF CertTypeInv, CertTypeOK, CertDisk, Files
<1>b. /\ \A kind \in PairFaults : ~Fault(kind)
      /\ NoFaultsOf({"put", "lose"}) /\ NoFaultsOf({"lose"})
  BY DEF NoFaultsOf, Fault, PairFaults
<1>c. ~Fault("apply") /\ ~Fault("get") /\ ~Fault("keys")
  BY <1>b DEF PairFaults
<1>d. \A k \in Lineages : cluster[k] # None => cluster'[k] # None
  BY <1>b, RecordsStep
<1>1. CASE GatherKeys
  <2>1. todo' = {k \in Lineages : snap[k] # None} \cup {k \in Lineages : cluster[k] # None}
    BY <1>1, <1>c DEF GatherKeys, LocalKeys
  <2>2. \A k \in Lineages \ todo' : Paired(Contents(dir[k]))
    BY <1>a, <1>b, <2>1, ContentsType DEF OwnedInv, Paired
  <2> QED
    BY <1>1, <2>1, <2>2 DEF GatherKeys, recordVars, PairInv
<1>2. CASE LookUp
  <2>1. /\ pc = "loop" /\ cur' \in todo /\ todo' = todo \ {cur'} /\ pos' = 1
        /\ pc' \in {"publish", "loop", "apply"}
        /\ UNCHANGED <<dir, loaded, snap, cluster>>
        /\ pc' = "loop" => snap[cur'] = None /\ cluster[cur'] = None
    BY <1>2, <1>c, LookUpIs
  <2>2. pc' # "loop"
    BY <2>1 DEF PairInv
  <2>3. \A k \in Lineages \ todo' : k = cur' \/ k \in Lineages \ todo
    BY <2>1
  <2> QED
    BY <2>1, <2>2, <2>3 DEF PairInv
<1>3. CASE WriteFile \/ WriteFileUnread
  <2> DEFINE f0 == File
  <2>1. /\ cur \in Lineages /\ rec \in Records /\ pos \in 1 .. 4 /\ f0 = WriteOrder[pos]
        /\ \A l \in Lineages, g \in Files : l # cur \/ g # f0 => dir'[l][g] = dir[l][g]
        /\ dir' \in [Lineages -> [Files -> CertDisk]]
        /\ rec.blobs[f0] = None \/ dir'[cur][f0].file = rec.blobs[f0]
    BY <1>3, WriteFileIs, WriteFileUnreadIs DEF File, Data, Same
  <2>2. /\ pc = "apply" /\ pc' = "apply" /\ pos' = pos + 1
        /\ UNCHANGED <<todo, cur, rec, loaded, snap, cluster>>
    BY <1>3 DEF WriteFile, WriteFileUnread, recordVars
  <2> HIDE DEF f0
  <2>3. \A k \in Lineages : k # cur => Contents(dir'[k]) = Contents(dir[k])
    BY <2>1 DEF Contents
  <2>4. \A i \in 1 .. 2 : i < pos' => dir'[cur][WriteOrder[i]].file = rec.blobs[WriteOrder[i]]
    <3> SUFFICES ASSUME NEW i \in 1 .. 2, i < pos'
                 PROVE  dir'[cur][WriteOrder[i]].file = rec.blobs[WriteOrder[i]]
      OBVIOUS
    <3>1. CASE i = pos
      BY <2>1, <3>1, WriteOrderIs, BundlesAssumption
    <3>2. CASE i < pos
      <4>1. WriteOrder[i] \in Files /\ WriteOrder[i] # f0
        BY <2>1, <3>2, WriteOrderIs
      <4> QED
        BY <2>1, <2>2, <3>2, <4>1 DEF PairInv
    <3> QED
      BY <2>1, <2>2, <3>1, <3>2
  <2> QED
    BY <2>2, <2>3, <2>4 DEF PairInv
<1>4. CASE WriteFileFails
  BY <1>4, <1>c DEF WriteFileFails
<1>5. CASE ApplyReturns
  <2>1. pc = "apply" /\ pos > 4 /\ pc' = "loop" /\ UNCHANGED <<dir, todo, loaded, snap, cluster>>
    BY <1>5, WriteOrderIs DEF ApplyReturns, recordVars
  <2>2. cur \in Lineages /\ rec \in Records
    BY <2>1 DEF CertTypeInv, CertShape
  <2>3. dir[cur]["cert"].file = rec.blobs["cert"] /\ dir[cur]["key"].file = rec.blobs["key"]
    BY <1>a, <2>1, WriteOrderIs DEF PairInv
  <2>4. Paired(Contents(dir[cur]))
    BY <1>a, <2>2, <2>3, ContentsType DEF Paired
  <2> QED
    BY <2>1, <2>4 DEF PairInv
<1>6. CASE EndLoop
  BY <1>6 DEF EndLoop, PairInv
<1>7. CASE FlushOk
  BY <1>7 DEF FlushOk, PairInv, CertTypeInv, CertShape
<1>8. CASE FlushFails \/ BeginRollback \/ RestoreFileFails \/ RestoreReturns \/ RollbackReturns
  BY <1>8 DEF FlushFails, BeginRollback, RestoreFileFails, RestoreReturns, RollbackReturns,
              PairInv
<1>9. CASE RestoreFile \/ Crash \/ Reboot
  BY <1>9 DEF RestoreFile, Crash, Reboot, PairInv
<1>10. CASE Renew \/ OtherPublishes \/ RecordsLost \/ UNCHANGED vars
  <2>1. UNCHANGED <<dir, pc, todo, cur, rec, pos, loaded, snap>>
    BY <1>10 DEF Renew, OtherPublishes, RecordsLost, vars, recordVars
  <2> QED
    BY <1>a, <1>d, <2>1 DEF PairInv
<1>11. CASE Publish
  <2>1. /\ pc = "publish" /\ pc' = "apply"
        /\ UNCHANGED <<dir, todo, cur, rec, pos, loaded, snap>>
    BY <1>11 DEF Publish
  <2> QED
    BY <1>a, <1>d, <2>1 DEF PairInv
<1>12. CASE StartTick
  BY <1>12 DEF StartTick, PairInv
<1> QED
  BY <1>1, <1>2, <1>3, <1>4, <1>5, <1>6, <1>7, <1>8, <1>9, <1>10, <1>11, <1>12 DEF Next, TickStep

-----------------------------------------------------------------------------
(* The inductive invariant, and what follows from it *)

CertInv ==
  CertTypeInv /\ WriteInv /\ RollbackInv /\ ChangedInv /\ OwnedInv /\ PairInv

\* An empty store satisfies the invariant.
LEMMA CertInvInit == Init => CertInv
<1> SUFFICES ASSUME Init
             PROVE  CertInv
  OBVIOUS
<1>1. \A f \in Files : EmptyDir[f].file = None /\ EmptyDir[f].bak = None
  BY DEF EmptyDir
<1>2. WriteInv /\ RollbackInv /\ ChangedInv
  BY DEF Init, WriteInv, RollbackInv, ChangedInv
<1>3. OwnedInv
  BY <1>1 DEF Init, OwnedInv
<1>4. PairInv
  BY <1>1 DEF Init, PairInv, Paired, Contents, Files
<1> QED
  BY <1>2, <1>3, <1>4, CertTypeInit DEF CertInv

\* Every step keeps the invariant.
LEMMA CertInvStep == CertInv /\ [Next]_vars => CertInv'
BY CertTypeStep, WriteInvStep, RollbackInvStep, ChangedInvStep, OwnedInvStep, PairInvStep
   DEF CertInv

(***************************************************************************)
(* The load balancer never loads a certificate with the key of another     *)
(* bundle as long as Apply and the cluster do not fail, for every number   *)
(* of lineages, bundles, crashes, failing hooks and restores, unreadable   *)
(* and removed sources (bundle.WriteAtomic, Flush, tickProvider).          *)
(***************************************************************************)
THEOREM CertReloadsMatchingPair == Spec => []ReloadsMatchingPair
<1>1. CertInv => ReloadsMatchingPair
  BY DEF CertInv, PairInv, PairFaults, Paired, ReloadsMatchingPair
<1> QED
  BY <1>1, CertInvInit, CertInvStep, PTL DEF Spec

(***************************************************************************)
(* A rollback whose renames succeed, after a tick whose writes succeeded,  *)
(* brings back every file this tick had replaced and could read, whatever  *)
(* backups earlier ticks left (RestoreDir).                                *)
(***************************************************************************)
THEOREM CertReplacedFilesRestored == Spec => []ReplacedFilesRestored
<1>1. CertInv => ReplacedFilesRestored
  <2> SUFFICES ASSUME CertInv, NoFaultsOf({"restore", "apply", "nobackup"}), RolledBack,
                      NEW k \in Lineages, NEW f \in Files, <<k, f>> \in replaced,
                      before[k][f] # None
               PROVE  dir[k][f].file = before[k][f]
    BY DEF ReplacedFilesRestored
  <2>1. k \in changed
    BY DEF CertInv, ChangedInv, NoFaultsOf, RolledBack
  <2> QED
    BY <2>1 DEF CertInv, RollbackInv, ToRestore, NoFaultsOf, RolledBack
<1> QED
  BY <1>1, CertInvInit, CertInvStep, PTL DEF Spec

(***************************************************************************)
(* With hooks and writes that succeed, a tick that reaches its end leaves  *)
(* no file behind that it wrote and that was not loaded (tickProvider).    *)
(***************************************************************************)
THEOREM CertTickLeavesNothingUnloaded == Spec => TickLeavesNothingUnloaded
<1> DEFINE Ends == NoFaultsOf({"hook", "apply"}) /\ pc \notin {"idle", "down"} /\ pc' = "idle"
           Settled == \A k \in Lineages :
                        \/ loaded'[k] = Contents(dir'[k])
                        \/ loaded[k] # before[k] /\ before[k] = Contents(dir'[k])
<1>1. CertInv /\ [Next]_vars => [Ends => Settled]_vars
  <2> SUFFICES ASSUME CertInv, Next, Ends
               PROVE  Settled
    BY DEF vars
  <2>1. EndLoop \/ FlushOk \/ RollbackReturns
    BY DEF Next, TickStep, StartTick, GatherKeys, LookUp, Publish, WriteFile,
           WriteFileUnread, WriteFileFails, Interrupted, ApplyReturns, FlushFails,
           BeginRollback, RestoreFile, RestoreFileFails, RestoreReturns, Crash, Reboot,
           Renew, OtherPublishes, RecordsLost, Goto
  <2>2. CASE EndLoop
    <3>1. pc = "loop" /\ changed = {} /\ UNCHANGED <<dir, loaded, before>>
      BY <2>2 DEF EndLoop, Goto
    <3>2. \A k \in Lineages, f \in Files : <<k, f>> \notin replaced
      BY <3>1 DEF CertInv, ChangedInv, NoFaultsOf
    <3>3. \A k \in Lineages, f \in Files : dir[k][f].file = before[k][f]
      BY <3>1, <3>2 DEF CertInv, WriteInv
    <3>4. \A k \in Lineages : Contents(dir[k]) = before[k]
      BY <3>3 DEF Contents, CertInv, CertTypeInv, CertTypeOK
    <3> QED
      BY <3>1, <3>4
  <2>3. CASE FlushOk
    BY <2>3 DEF FlushOk
  <2>4. CASE RollbackReturns
    BY <2>4 DEF RollbackReturns, CertInv, ChangedInv, NoFaultsOf
  <2> QED
    BY <2>1, <2>2, <2>3, <2>4
<1> QED
  BY <1>1, CertInvInit, CertInvStep, PTL DEF Spec, TickLeavesNothingUnloaded
=============================================================================
