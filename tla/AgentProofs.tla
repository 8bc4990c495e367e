---------------------------- MODULE AgentProofs ----------------------------
(***************************************************************************)
(* Proofs about one agent and its sources, for any certificates, names in  *)
(* live/ and setups: the scan keeps the first name of a certificate, a     *)
(* record is not ahead of the bytes it carries, and records are ordered as *)
(* the bundles they were read from.                                        *)
(*                                                                         *)
(* The last two rest on the order of texts: strings.Compare is a strict    *)
(* total order, so the rank of a tie-break stands for it, and joining with *)
(* a colon keeps the order of serial and hash when serials are aligned.    *)
(***************************************************************************)
EXTENDS Agent, TLAPS

-----------------------------------------------------------------------------
(* The inductive invariant *)

\* The scan: entries come in the order of the names, from names already passed,
\* and only directories have a path; outside the scan and the reading there
\* are none.
ScanInv ==
  /\ pc \in {"idle", "publish"} => pos = 1 /\ entries = <<>>
  /\ pc = "scan" => /\ pos <= Len(LiveDir) + 1
                    /\ \A i \in DOMAIN entries : entries[i].name < pos
  /\ pc = "read" => pos <= Len(Parts)
  /\ \A i, j \in DOMAIN entries : i < j => entries[i].name < entries[j].name
  /\ \A i \in DOMAIN entries : entries[i].path # None => LiveDir[entries[i].name] \in Dirs

\* No file is ahead of the last renewal certbot began.
FilesInv == \A d \in Dirs, f \in Files : live[d][f] # None => live[d][f] <= gen[d]

\* Reading a lineage of directory d: the leaf is not ahead of the last renewal
\* nor of the certificate the directory holds now, and not ahead of the bytes
\* once they are read.
LeafRead(d) ==
  /\ buf["leaf"] \in DOMAIN issued
  /\ buf["leaf"] <= gen[d]
  /\ live[d]["cert"] # None => buf["leaf"] <= live[d]["cert"]
  /\ pos > 2 => buf["cert"] \in DOMAIN issued /\ buf["leaf"] <= buf["cert"]

ReadInv == pc = "read" /\ pos > 1 => Lineage \in found /\ LeafRead(LiveDir[Lineage])

\* What ReadLineage returns without an error: the leaf is of a renewal that is
\* not later than that of the bytes.
ReadParts ==
  {b \in [DOMAIN NoParts -> DOMAIN issued \cup {None}] :
     {b["leaf"], b["cert"]} \subseteq DOMAIN issued /\ b["leaf"] <= b["cert"]}

ReadRecords == {toRecord(b) : b \in ReadParts}

RecordsInv ==
  /\ recs \in [Names -> ReadRecords \cup {None}]
  /\ cluster \in [Names -> ReadRecords \cup {None}]

CertInv == LocalTypeOK /\ ScanInv /\ FilesInv /\ ReadInv /\ RecordsInv

\* Between ReadFile and Stat there are bytes.
BlobInv == BlobTypeOK /\ (bpc = "stat" => data \in Data)

LoopInv ==
  /\ starting \in Seq(registry)
  /\ providers \in Seq({"certs", "blob"})
  /\ turn \in DOMAIN providers \cup {1}

AgentInv == CertInv /\ BlobInv /\ LoopInv /\ BudgetTypeOK
-----------------------------------------------------------------------------
(* Facts the steps rest on *)

LEMMA NamesAre == Names = 1 .. Len(LiveDir) /\ Len(LiveDir) \in Nat
BY LiveDirAssumption DEF Names

\* The certificates are those of a setup, and there is a first one.
LEMMA IssuedIs ==
  ASSUME LocalTypeOK
  PROVE  /\ issued \in Seq(Certificate)
         /\ DOMAIN issued = 1 .. Len(issued) /\ Len(issued) \in Nat
         /\ 1 \in DOMAIN issued /\ None \notin DOMAIN issued
<1>1. PICK s \in Setups : issued = s.issued
  BY DEF LocalTypeOK
<1>2. issued \in Seq(Certificate) /\ issued # <<>>
  BY <1>1, SetupsAssumption
<1>3. DOMAIN issued = 1 .. Len(issued) /\ Len(issued) \in Nat /\ Len(issued) # 0
  BY <1>2
<1> QED
  BY <1>2, <1>3, ContentAssumption

\* The parts ReadLineage reads.
LEMMA PartNames == DOMAIN NoParts = {"leaf", "cert", "key", "chain", "full"}
<1>1. DOMAIN NoParts = {Parts[i] : i \in DOMAIN Parts}
  BY DEF NoParts
<1>2. DOMAIN Parts = 1 .. 5
  BY DEF Parts
<1>3. /\ Parts[1] = "leaf" /\ Parts[2] = "cert" /\ Parts[3] = "key"
      /\ Parts[4] = "chain" /\ Parts[5] = "full"
  BY DEF Parts
<1>4. 1 .. 5 = {1, 2, 3, 4, 5}
  OBVIOUS
<1> QED
  BY <1>1, <1>2, <1>3, <1>4

\* Records mean the same as long as the certificates do.
LEMMA RecordsFrame ==
  ASSUME UNCHANGED issued
  PROVE  ReadRecords' = ReadRecords
<1>1. \A b : toRecord(b)' = toRecord(b)
  BY DEF toRecord, Rank
<1>2. ReadParts' = ReadParts
  BY DEF ReadParts
<1> QED
  BY <1>1, <1>2 DEF ReadRecords

\* A step of the scan or of the reading leaves the records alone.
LEMMA RecordsKept ==
  ASSUME RecordsInv, UNCHANGED <<issued, recs, cluster>>
  PROVE  RecordsInv'
BY RecordsFrame DEF RecordsInv

-----------------------------------------------------------------------------
(* The steps of the certs provider *)

LEMMA CertInvInit ==
  ASSUME NEW s \in Setups, CertInit(s.issued)
  PROVE  CertInv
<1>1. issued \in Seq(Certificate) /\ 1 \in DOMAIN issued
  <2>1. s.issued \in Seq(Certificate) /\ s.issued # <<>>
    BY SetupsAssumption
  <2> QED
    BY <2>1 DEF CertInit
<1>2. LocalTypeOK
  <2>1. 1 \in 1 .. Len(LiveDir) + Len(Parts)
    BY NamesAre DEF Parts
  <2> QED
    BY <1>1, <2>1 DEF LocalTypeOK, CertInit, NoParts
<1>3. ScanInv
  BY NamesAre DEF ScanInv, CertInit
<1>4. FilesInv
  BY DEF FilesInv, CertInit
<1>5. ReadInv /\ RecordsInv
  BY DEF ReadInv, RecordsInv, CertInit, NoRecs
<1> QED
  BY <1>2, <1>3, <1>4, <1>5 DEF CertInv

LEMMA CertInvReadLive == CertInv /\ ReadLive => CertInv'
<1> SUFFICES ASSUME CertInv, ReadLive PROVE CertInv'
  OBVIOUS
<1>1. /\ UNCHANGED <<issued, live, gen, pos, entries, found, buf, recs, cluster>>
      /\ pc = "idle" /\ pc' \in {"scan", "publish"}
  BY DEF ReadLive, Goto, certEnvVars
<1>2. LocalTypeOK'
  BY <1>1 DEF CertInv, LocalTypeOK
<1>3. ScanInv'
  BY <1>1, NamesAre DEF CertInv, ScanInv
<1>4. FilesInv' /\ ReadInv' /\ RecordsInv'
  BY <1>1, RecordsKept DEF CertInv, FilesInv, ReadInv
<1> QED
  BY <1>2, <1>3, <1>4 DEF CertInv

\* Entries carry names.
LEMMA EntryNames ==
  ASSUME NEW P, NEW s \in Seq([name : Names, path : P])
  PROVE  \A i \in DOMAIN s : s[i].name \in Names /\ s[i].name \in Int
<1> DEFINE E == [name : Names, path : P]
<1>1. \A e \in E : e.name \in Names
  OBVIOUS
<1>2. \A i \in DOMAIN s : s[i].name \in Names
  <2>1. s \in Seq(E)
    OBVIOUS
  <2> HIDE DEF E
  <2>2. \A i \in DOMAIN s : s[i] \in E
    BY <2>1
  <2> QED
    BY <1>1, <2>2
<1> QED
  BY <1>2, NamesAre

LEMMA CertInvScanEntry == CertInv /\ ScanEntry => CertInv'
<1> SUFFICES ASSUME CertInv, ScanEntry PROVE CertInv'
  OBVIOUS
<1>1. /\ UNCHANGED <<issued, live, gen, pc, found, buf, recs, cluster>>
      /\ pc = "scan" /\ pos \in Names /\ pos' = pos + 1
      /\ pos \in 1 .. Len(LiveDir) /\ Len(LiveDir) \in Nat
  BY NamesAre DEF ScanEntry, certEnvVars
<1> DEFINE E == [name : Names, path : {None} \cup (Dirs \X DOMAIN issued)]
<1>2. \/ entries' = entries
      \/ \E e \in E : /\ entries' = Append(entries, e)
                      /\ e.name = pos
                      /\ e.path # None => LiveDir[pos] \in Dirs
  <2>1. LiveDir[pos] \in Dirs \cup {"README", None}
    BY <1>1, LiveDirAssumption
  <2>2. CASE LiveDir[pos] \in {"README", None}
    <3>1. Entry(pos, None) \in E /\ Entry(pos, None).name = pos /\ Entry(pos, None).path = None
      BY <1>1 DEF Entry
    <3>2. entries' = entries \/ entries' = Append(entries, Entry(pos, None))
      BY <2>2 DEF ScanEntry
    <3> QED
      BY <3>1, <3>2
  <2>3. CASE LiveDir[pos] \notin {"README", None}
    <3> DEFINE path == resolveCertPath(LiveDir[pos])
    <3>1. LiveDir[pos] \in Dirs
      BY <2>1, <2>3
    <3>2. path \in {None} \cup (Dirs \X DOMAIN issued)
      BY <3>1 DEF resolveCertPath, CertInv, LocalTypeOK, Files
    <3>3. entries' = Append(entries, Entry(pos, path))
      BY <2>3 DEF ScanEntry
    <3> HIDE DEF path
    <3>4. Entry(pos, path) \in E /\ Entry(pos, path).name = pos
      BY <1>1, <3>2 DEF Entry
    <3> QED
      BY <3>1, <3>3, <3>4
  <2> QED
    BY <2>2, <2>3
<1>3. entries \in Seq(E)
  BY DEF CertInv, LocalTypeOK
<1> DEFINE Passed(i) == /\ entries'[i].name <= pos
                        /\ entries'[i].path # None => LiveDir[entries'[i].name] \in Dirs
           Ordered(i, j) == i < j => entries'[i].name < entries'[j].name
<1>a. \A i \in DOMAIN entries : entries[i].name < pos /\ entries[i].name \in Int
  BY <1>1, <1>3, EntryNames, Zenon DEF CertInv, ScanInv
<1>4. /\ entries' \in Seq(E)
      /\ \A i \in DOMAIN entries' : Passed(i)
      /\ \A i, j \in DOMAIN entries' : Ordered(i, j)
  <2>2. CASE entries' = entries
    <3>1. entries' \in Seq(E) /\ \A i \in DOMAIN entries' : Passed(i)
      BY <1>1, <1>3, <1>a, <2>2 DEF CertInv, ScanInv
    <3>2. \A i, j \in DOMAIN entries' : Ordered(i, j)
      BY <2>2 DEF CertInv, ScanInv
    <3> QED
      BY <3>1, <3>2
  <2>3. ASSUME NEW e \in E, entries' = Append(entries, e), e.name = pos,
               e.path # None => LiveDir[pos] \in Dirs
        PROVE  /\ entries' \in Seq(E)
               /\ \A i \in DOMAIN entries' : Passed(i)
               /\ \A i, j \in DOMAIN entries' : Ordered(i, j)
    <3> HIDE DEF E
    <3>1. entries' \in Seq(E)
      BY <1>3, <2>3
    <3>3. Len(entries) \in Nat /\ DOMAIN entries = 1 .. Len(entries)
      BY <1>3
    <3>2. ASSUME NEW i \in DOMAIN entries'
          PROVE  \/ i \in DOMAIN entries /\ entries'[i] = entries[i]
                 \/ i = Len(entries) + 1 /\ entries'[i] = e
      <4>1. DOMAIN entries' = 1 .. Len(entries) + 1
        BY <1>3, <2>3
      <4>2. \A k \in 1 .. Len(entries) : Append(entries, e)[k] = entries[k]
        BY <1>3
      <4>3. Append(entries, e)[Len(entries) + 1] = e
        BY <1>3
      <4> QED
        BY <2>3, <3>3, <4>1, <4>2, <4>3
    <3>4. ASSUME NEW i \in DOMAIN entries' PROVE Passed(i)
      BY <1>1, <1>a, <2>3, <3>2 DEF CertInv, ScanInv
    <3>5. ASSUME NEW i \in DOMAIN entries', NEW j \in DOMAIN entries', i < j
          PROVE  entries'[i].name < entries'[j].name
      <4>1. i \in DOMAIN entries /\ entries'[i] = entries[i]
        BY <3>2, <3>3, <3>5
      <4>2. CASE j \in DOMAIN entries /\ entries'[j] = entries[j]
        BY <3>5, <4>1, <4>2 DEF CertInv, ScanInv
      <4>3. CASE entries'[j] = e
        BY <1>a, <2>3, <4>1, <4>3
      <4> QED
        BY <3>2, <4>2, <4>3
    <3> QED
      BY <3>1, <3>4, <3>5
  <2> QED
    BY <1>2, <2>2, <2>3, Zenon
<1>5. LocalTypeOK'
  <2>1. pos' \in 1 .. Len(LiveDir) + Len(Parts)
    BY <1>1 DEF Parts
  <2>2. entries' \in Seq([name : Names, path : {None} \cup (Dirs \X DOMAIN issued')])
    BY <1>1, <1>4
  <2> QED
    BY <1>1, <2>1, <2>2 DEF CertInv, LocalTypeOK
<1>6. ScanInv'
  <2>1. \A i \in DOMAIN entries' : entries'[i].name \in Int
    BY <1>4, EntryNames, Zenon
  <2> QED
    BY <1>1, <1>4, <2>1 DEF ScanInv
<1>7. FilesInv' /\ ReadInv' /\ RecordsInv'
  BY <1>1, RecordsKept DEF CertInv, FilesInv, ReadInv
<1> QED
  BY <1>5, <1>6, <1>7 DEF CertInv
LEMMA CertInvScanReturns == CertInv /\ ScanReturns => CertInv'
<1> SUFFICES ASSUME CertInv, ScanReturns PROVE CertInv'
  OBVIOUS
<1>1. /\ UNCHANGED <<issued, live, gen, entries, buf, recs, cluster>>
      /\ pc = "scan" /\ pc' = "read" /\ pos' = 1 /\ found' = ScanAll(entries)
  BY DEF ScanReturns, Goto, certEnvVars
<1>2. found' \subseteq {i \in Names : LiveDir[i] \in Dirs}
  <2>1. ASSUME NEW n \in found' PROVE n \in Names /\ LiveDir[n] \in Dirs
    <3>1. PICK e \in mergeEntries(entries) : e.path # None /\ n = e.name
      BY <1>1, <2>1 DEF ScanAll
    <3>2. PICK i \in DOMAIN entries : e = entries[i]
      BY <3>1 DEF mergeEntries
    <3>3. entries[i].name \in Names
      BY EntryNames, Zenon DEF CertInv, LocalTypeOK
    <3> QED
      BY <3>1, <3>2, <3>3 DEF CertInv, ScanInv
  <2> QED
    BY <2>1
<1>3. LocalTypeOK'
  <2>1. pos' \in 1 .. Len(LiveDir) + Len(Parts)
    BY <1>1, NamesAre DEF Parts
  <2> QED
    BY <1>1, <1>2, <2>1 DEF CertInv, LocalTypeOK
<1>4. ScanInv'
  BY <1>1 DEF CertInv, ScanInv, Parts
<1>5. FilesInv' /\ ReadInv' /\ RecordsInv'
  BY <1>1, RecordsKept DEF CertInv, FilesInv, ReadInv
<1> QED
  BY <1>3, <1>4, <1>5 DEF CertInv

\* What ReadPart reads.
LEMMA PartRead ==
  ASSUME CertInv, pc = "read", Lineage \in found
  PROVE  /\ pos \in 1 .. 5 /\ Lineage \in Names /\ LiveDir[Lineage] \in Dirs
         /\ Part \in DOMAIN NoParts /\ FileOf(Part) \in Files
         /\ Content \in DOMAIN issued \cup {None}
         /\ pos = 1 <=> Part = "leaf"
         /\ pos = 2 <=> Part = "cert"
         /\ pos \in {1, 2} => Content = live[LiveDir[Lineage]]["cert"] /\ Part \in Required
<1>1. pos \in 1 .. 5
  BY NamesAre DEF CertInv, LocalTypeOK, ScanInv, Parts
<1>2. Lineage \in Names /\ LiveDir[Lineage] \in Dirs
  BY DEF CertInv, LocalTypeOK
<1>3. /\ Parts[1] = "leaf" /\ Parts[2] = "cert" /\ Parts[3] = "key"
      /\ Parts[4] = "chain" /\ Parts[5] = "full"
  BY DEF Parts
<1>4. pos \in {1, 2, 3, 4, 5}
  BY <1>1
<1>5. Part \in DOMAIN NoParts /\ (pos = 1 <=> Part = "leaf") /\ (pos = 2 <=> Part = "cert")
  BY <1>3, <1>4, PartNames DEF Part
<1>6. FileOf(Part) \in Files /\ (Part \in {"leaf", "cert"} => FileOf(Part) = "cert")
  BY <1>5, PartNames DEF FileOf, Files
<1>7. Content \in DOMAIN issued \cup {None}
  BY <1>2, <1>6 DEF Content, CertInv, LocalTypeOK
<1> QED
  BY <1>1, <1>2, <1>5, <1>6, <1>7 DEF Content, Required

LEMMA CertInvReadPart ==
  ASSUME CertInv, ReadPart, Lineage \in found
  PROVE  CertInv'
<1> DEFINE b == [buf EXCEPT ![Part] = Content]
           d == LiveDir[Lineage]
<1>1. /\ UNCHANGED <<issued, live, gen, pc, entries, cluster>>
      /\ pc = "read" /\ found # {}
  BY DEF ReadPart, certEnvVars
<1>2. /\ pos \in 1 .. 5 /\ Lineage \in Names /\ d \in Dirs
      /\ Part \in DOMAIN NoParts /\ Content \in DOMAIN issued \cup {None}
      /\ pos = 1 <=> Part = "leaf"
      /\ pos = 2 <=> Part = "cert"
      /\ pos \in {1, 2} => Content = live[d]["cert"] /\ Part \in Required
  BY <1>1, PartRead
<1>3. /\ buf \in [DOMAIN NoParts -> DOMAIN issued \cup {None}]
      /\ b \in [DOMAIN NoParts -> DOMAIN issued \cup {None}]
      /\ b[Part] = Content
      /\ pos # 1 => b["leaf"] = buf["leaf"]
      /\ pos # 2 => b["cert"] = buf["cert"]
  <2>1. buf \in [DOMAIN NoParts -> DOMAIN issued \cup {None}]
    BY DEF CertInv, LocalTypeOK
  <2> QED
    BY <1>2, <2>1, PartNames
<1>4. FilesInv'
  BY <1>1 DEF CertInv, FilesInv
<1> HIDE DEF b
<1> DEFINE Kept == /\ found' \subseteq found
                   /\ pos' \in 1 .. 5
                   /\ buf' \in [DOMAIN NoParts -> DOMAIN issued \cup {None}]
                   /\ recs' \in [Names -> ReadRecords \cup {None}]
                   /\ ReadInv'
<1>5. recs \in [Names -> ReadRecords \cup {None}]
  BY DEF CertInv, RecordsInv
<1>6. NextLineage => /\ found' \subseteq found /\ pos' = 1
                     /\ buf' \in [DOMAIN NoParts -> DOMAIN issued \cup {None}]
                     /\ ReadInv'
  <2>1. NoParts \in [DOMAIN NoParts -> DOMAIN issued \cup {None}]
    BY DEF NoParts
  <2> QED
    BY <2>1 DEF NextLineage, ReadInv
<1>7. ASSUME NextLineage, UNCHANGED recs PROVE Kept
  BY <1>5, <1>6, <1>7
<1>8. ASSUME pos = Len(Parts), NextLineage, recs' = [recs EXCEPT ![Lineage] = toRecord(b)]
      PROVE  Kept
  <2>1. pos = 5
    BY <1>8 DEF Parts
  <2>2. LeafRead(d)
    BY <1>1, <2>1 DEF CertInv, ReadInv
  <2>3. /\ b["leaf"] \in DOMAIN issued /\ b["cert"] \in DOMAIN issued
        /\ b["leaf"] <= b["cert"]
    BY <1>3, <2>1, <2>2 DEF LeafRead
  <2>4. toRecord(b) \in ReadRecords
    BY <1>3, <2>3 DEF ReadRecords, ReadParts
  <2>5. recs' \in [Names -> ReadRecords \cup {None}]
    BY <1>2, <1>5, <1>8, <2>4
  <2> QED
    BY <1>6, <1>8, <2>5
<1>9. ASSUME ~(Content = None /\ Part \in Required), pos # Len(Parts),
             buf' = b, pos' = pos + 1, UNCHANGED <<found, recs>>
      PROVE  Kept
  <2>1. pos \in 1 .. 4
    BY <1>2, <1>9 DEF Parts
  <2>2. Lineage' = Lineage
    BY <1>9 DEF Lineage
  <2>3. pos # 1 => LeafRead(d)
    BY <1>1, <2>1 DEF CertInv, ReadInv
  <2>4. gen[d] \in Int /\ \A c \in DOMAIN issued : c \in Int
    BY <1>2, IssuedIs DEF CertInv, LocalTypeOK
  <2>5. /\ b["leaf"] \in DOMAIN issued
        /\ b["leaf"] <= gen[d]
        /\ live[d]["cert"] # None => b["leaf"] <= live[d]["cert"]
    <3>1. CASE pos = 1
      <4>1. b["leaf"] = live[d]["cert"] /\ live[d]["cert"] # None
        BY <1>2, <1>3, <1>9, <3>1
      <4>2. live[d]["cert"] \in DOMAIN issued
        BY <1>2, <3>1, <4>1
      <4>3. live[d]["cert"] <= gen[d]
        BY <1>2, <4>1 DEF CertInv, FilesInv, Files
      <4> QED
        BY <2>4, <4>1, <4>2, <4>3
    <3>2. CASE pos # 1
      BY <1>3, <2>3, <3>2 DEF LeafRead
    <3> QED
      BY <3>1, <3>2
  <2>6. pos > 1 => b["cert"] \in DOMAIN issued /\ b["leaf"] <= b["cert"]
    <3>1. CASE pos = 2
      <4>1. b["cert"] = live[d]["cert"] /\ live[d]["cert"] # None
        BY <1>2, <1>3, <1>9, <3>1
      <4>2. live[d]["cert"] \in DOMAIN issued
        BY <1>2, <3>1, <4>1
      <4> QED
        BY <2>5, <4>1, <4>2
    <3>2. CASE pos > 2
      BY <1>3, <2>1, <2>3, <3>2 DEF LeafRead
    <3> QED
      BY <2>1, <3>1, <3>2
  <2>7. LeafRead(d)'
    <3>1. d' = d
      BY <2>2
    <3> QED
      BY <1>1, <1>9, <2>1, <2>5, <2>6, <3>1 DEF LeafRead
  <2>8. ReadInv'
    <3>1. Lineage' \in found'
      BY <1>9 DEF Lineage
    <3> QED
      BY <2>7, <3>1 DEF ReadInv
  <2> QED
    BY <1>3, <1>5, <1>9, <2>1, <2>8
<1>10. Kept
  BY <1>7, <1>8, <1>9 DEF ReadPart, b
<1>11. LocalTypeOK'
  <2>1. pos' \in 1 .. Len(LiveDir) + Len(Parts)
    BY <1>10, NamesAre DEF Parts
  <2> QED
    BY <1>1, <1>10, <2>1 DEF CertInv, LocalTypeOK
<1>12. ScanInv'
  <2>1. pos' <= Len(Parts)
    BY <1>10 DEF Parts
  <2> QED
    BY <1>1, <2>1 DEF CertInv, ScanInv
<1>13. RecordsInv'
  BY <1>1, <1>10, RecordsFrame DEF CertInv, RecordsInv
<1> QED
  BY <1>4, <1>10, <1>11, <1>12, <1>13 DEF CertInv
LEMMA CertInvLocalReturns == CertInv /\ LocalReturns => CertInv'
<1> SUFFICES ASSUME CertInv, LocalReturns PROVE CertInv'
  OBVIOUS
<1>1. /\ UNCHANGED <<issued, live, gen, pos, found, buf, recs, cluster>>
      /\ pc = "read" /\ pc' = "publish" /\ found = {} /\ entries' = <<>>
  BY DEF LocalReturns, Goto, certEnvVars
<1>2. LocalTypeOK'
  BY <1>1 DEF CertInv, LocalTypeOK
<1>3. pos = 1
  BY <1>1, NamesAre DEF CertInv, ReadInv, LocalTypeOK, Parts
<1>4. ScanInv'
  BY <1>1, <1>3 DEF ScanInv
<1>5. FilesInv' /\ ReadInv' /\ RecordsInv'
  BY <1>1, RecordsKept DEF CertInv, FilesInv, ReadInv
<1> QED
  BY <1>2, <1>4, <1>5 DEF CertInv

LEMMA CertInvPublish == CertInv /\ PublishLineage => CertInv'
<1> SUFFICES ASSUME CertInv, PublishLineage PROVE CertInv'
  OBVIOUS
<1>1. /\ UNCHANGED <<issued, live, gen, pc, pos, entries, found, buf>> /\ pc = "publish"
  BY DEF PublishLineage, certEnvVars
<1>2. PICK i \in Names :
        /\ recs[i] # None
        /\ recs' = [recs EXCEPT ![i] = None]
        /\ cluster' \in {cluster, [cluster EXCEPT ![i] = recs[i]]}
  BY Zenon DEF PublishLineage
<1>3. RecordsInv'
  <2>1. /\ recs' \in [Names -> ReadRecords \cup {None}]
        /\ cluster' \in [Names -> ReadRecords \cup {None}]
    BY <1>2 DEF CertInv, RecordsInv
  <2> QED
    BY <1>1, <2>1, RecordsFrame DEF RecordsInv
<1>5. LocalTypeOK'
  BY <1>1 DEF CertInv, LocalTypeOK
<1>7. ScanInv' /\ FilesInv' /\ ReadInv'
  BY <1>1 DEF CertInv, ScanInv, FilesInv, ReadInv
<1> QED
  BY <1>3, <1>5, <1>7 DEF CertInv

LEMMA CertInvTickEnds == CertInv /\ CertTickEnds => CertInv'
<1> SUFFICES ASSUME CertInv, CertTickEnds PROVE CertInv'
  OBVIOUS
<1>1. /\ UNCHANGED <<issued, live, gen, pos, entries, found, buf, recs, cluster>>
      /\ pc = "publish" /\ pc' = "idle"
  BY DEF CertTickEnds, Goto, certEnvVars
<1>2. LocalTypeOK'
  BY <1>1 DEF CertInv, LocalTypeOK
<1>3. ScanInv' /\ FilesInv' /\ ReadInv' /\ RecordsInv'
  BY <1>1, RecordsKept DEF CertInv, ScanInv, FilesInv, ReadInv
<1> QED
  BY <1>2, <1>3 DEF CertInv

LEMMA CertInvStartRenewal ==
  ASSUME CertInv, NEW d \in Dirs, StartRenewal(d)
  PROVE  CertInv'
<1>1. /\ UNCHANGED <<issued, live, pc, pos, entries, found, buf, recs, cluster>>
      /\ gen[d] < Len(issued) /\ gen' = [gen EXCEPT ![d] = @ + 1]
  BY DEF StartRenewal
<1>2. /\ gen \in [Dirs -> DOMAIN issued] /\ DOMAIN issued = 1 .. Len(issued)
      /\ Len(issued) \in Nat
  BY IssuedIs DEF CertInv, LocalTypeOK
<1>3. gen' \in [Dirs -> DOMAIN issued] /\ \A c \in Dirs : gen[c] <= gen'[c] /\ gen[c] \in Int
  BY <1>1, <1>2
<1>4. LocalTypeOK'
  BY <1>1, <1>3 DEF CertInv, LocalTypeOK
<1>5. ScanInv'
  BY <1>1 DEF CertInv, ScanInv
<1>6. FilesInv'
  <2>1. ASSUME NEW c \in Dirs, NEW f \in Files, live[c][f] # None
        PROVE  live[c][f] <= gen'[c]
    <3>1. live[c][f] <= gen[c]
      BY <2>1 DEF CertInv, FilesInv
    <3>2. live[c][f] \in DOMAIN issued
      BY <2>1 DEF CertInv, LocalTypeOK
    <3> QED
      BY <1>2, <1>3, <3>1, <3>2
  <2> QED
    BY <1>1, <2>1 DEF FilesInv
<1>7. ReadInv'
  <2>1. SUFFICES ASSUME pc = "read", pos > 1, Lineage \in found, LeafRead(LiveDir[Lineage])
                 PROVE  LeafRead(LiveDir[Lineage])'
    BY <1>1 DEF CertInv, ReadInv, Lineage
  <2>2. LiveDir[Lineage] \in Dirs
    BY <2>1 DEF CertInv, LocalTypeOK
  <2>3. Lineage' = Lineage
    BY <1>1 DEF Lineage
  <2>4. buf["leaf"] <= gen'[LiveDir[Lineage]]
    BY <1>2, <1>3, <2>1, <2>2 DEF LeafRead
  <2> QED
    BY <1>1, <2>1, <2>3, <2>4 DEF LeafRead
<1>8. RecordsInv'
  BY <1>1, RecordsKept DEF CertInv
<1> QED
  BY <1>4, <1>5, <1>6, <1>7, <1>8 DEF CertInv

LEMMA CertInvReplaceFile ==
  ASSUME CertInv, NEW d \in Dirs, ReplaceFile(d)
  PROVE  CertInv'
<1>1. UNCHANGED <<issued, gen, pc, pos, entries, found, buf, recs, cluster>>
  BY DEF ReplaceFile
<1>2. PICK f \in Files : live' = [live EXCEPT ![d][f] = IF @ = None THEN gen[d] ELSE None]
  BY Zenon DEF ReplaceFile
<1>3. /\ live \in [Dirs -> [Files -> DOMAIN issued \cup {None}]]
      /\ gen \in [Dirs -> DOMAIN issued]
  BY DEF CertInv, LocalTypeOK
<1>4. live' \in [Dirs -> [Files -> DOMAIN issued \cup {None}]]
  BY <1>2, <1>3
<1>5. \A c \in Dirs, e \in Files : live'[c][e] \in {live[c][e], gen[c], None}
  BY <1>2, <1>3
<1>6. \A c \in Dirs : gen[c] <= gen[c]
  BY <1>3, IssuedIs DEF CertInv
<1>7. LocalTypeOK'
  BY <1>1, <1>4 DEF CertInv, LocalTypeOK
<1>8. ScanInv'
  BY <1>1 DEF CertInv, ScanInv
<1>9. FilesInv'
  BY <1>1, <1>5, <1>6 DEF CertInv, FilesInv
<1>10. ReadInv'
  <2>1. SUFFICES ASSUME pc = "read", pos > 1, Lineage \in found, LeafRead(LiveDir[Lineage])
                 PROVE  LeafRead(LiveDir[Lineage])'
    BY <1>1 DEF CertInv, ReadInv, Lineage
  <2>2. LiveDir[Lineage] \in Dirs
    BY <2>1 DEF CertInv, LocalTypeOK
  <2>3. Lineage' = Lineage
    BY <1>1 DEF Lineage
  <2>4. live'[LiveDir[Lineage]]["cert"] # None
          => buf["leaf"] <= live'[LiveDir[Lineage]]["cert"]
    BY <1>5, <2>1, <2>2 DEF LeafRead, Files
  <2> QED
    BY <1>1, <2>1, <2>3, <2>4 DEF LeafRead
<1>11. RecordsInv'
  BY <1>1, RecordsKept DEF CertInv
<1> QED
  BY <1>7, <1>8, <1>9, <1>10, <1>11 DEF CertInv
LEMMA CertInvKept == CertInv /\ UNCHANGED certVars => CertInv'
<1> SUFFICES ASSUME CertInv, UNCHANGED certVars PROVE CertInv'
  OBVIOUS
<1>1. UNCHANGED <<issued, live, gen, pc, pos, entries, found, buf, recs, cluster>>
  BY DEF certVars, certEnvVars
<1>2. LocalTypeOK'
  BY <1>1 DEF CertInv, LocalTypeOK
<1>3. ScanInv' /\ FilesInv' /\ RecordsInv'
  BY <1>1, RecordsKept DEF CertInv, ScanInv, FilesInv
<1>4. ReadInv'
  BY <1>1 DEF CertInv, ReadInv, LeafRead, Lineage
<1> QED
  BY <1>2, <1>3, <1>4 DEF CertInv

-----------------------------------------------------------------------------
(* The blob provider and the loop *)

\* A time in seconds is no larger than the time.
LEMMA UnixBound ==
  ASSUME NEW t \in 0 .. MaxTime
  PROVE  Unix(t) \in 0 .. MaxTime
<1>1. TicksPerSecond \in Nat \ {0} /\ MaxTime \in Nat
  BY BlobAssumption
<1> DEFINE q == t \div TicksPerSecond
<1>2. q \in Int /\ TicksPerSecond * q <= t /\ t < TicksPerSecond * q + TicksPerSecond
  BY <1>1
<1> HIDE DEF q
<1>3. q >= 0
  <2>1. CASE q <= -1
    <3>1. TicksPerSecond * q <= TicksPerSecond * (-1)
      BY <1>1, <1>2, <2>1
    <3> QED
      BY <1>1, <1>2, <3>1
  <2> QED
    BY <1>2, <2>1
<1>4. q <= TicksPerSecond * q
  BY <1>1, <1>2, <1>3
<1> QED
  BY <1>1, <1>2, <1>3, <1>4 DEF Unix, q

LEMMA BlobInvStep == BlobInv /\ BlobStep => BlobInv'
<1> SUFFICES ASSUME BlobInv, BlobStep PROVE BlobInv'
  OBVIOUS
<1>1. CASE ReadSource
  BY <1>1 DEF ReadSource, BlobInv, BlobTypeOK, blobEnvVars
<1>2. CASE StatSource
  <2> DEFINE t == IF source.data = None THEN 0 ELSE Mtime
  <2>1. MaxTime \in Nat /\ now \in 0 .. MaxTime /\ source.mtime \in 0 .. now /\ data \in Data
    BY <1>2, BlobAssumption DEF StatSource, BlobInv, BlobTypeOK
  <2>2. source.mtime \in 0 .. MaxTime
    BY <2>1
  <2>3. t \in 0 .. MaxTime
    BY <2>1, <2>2, UnixBound DEF Mtime
  <2>4. rec' = BlobRecord(t, data)
    BY <1>2 DEF StatSource
  <2> HIDE DEF t
  <2>5. rec' \in Records
    BY <2>1, <2>3, <2>4, BlobAssumption
  <2> QED
    BY <1>2, <2>5 DEF StatSource, BlobInv, BlobTypeOK, blobEnvVars, RecordOrNone
<1>3. CASE PublishBlob
  BY <1>3 DEF PublishBlob, BlobInv, BlobTypeOK, blobEnvVars, RecordOrNone
<1> QED
  BY <1>1, <1>2, <1>3 DEF BlobStep

LEMMA BlobInvOperator == BlobInv /\ (WriteSource \/ TimePasses) => BlobInv'
<1> SUFFICES ASSUME BlobInv, WriteSource \/ TimePasses PROVE BlobInv'
  OBVIOUS
<1>1. MaxTime \in Nat
  BY BlobAssumption
<1>2. CASE WriteSource
  BY <1>1, <1>2 DEF WriteSource, BlobInv, BlobTypeOK
<1>3. CASE TimePasses
  <2>1. source \in [data : Data \cup {None}, mtime : 0 .. now'] /\ now' \in 0 .. MaxTime
    BY <1>1, <1>3 DEF TimePasses, BlobInv, BlobTypeOK
  <2> QED
    BY <1>3, <2>1 DEF TimePasses, BlobInv, BlobTypeOK
<1> QED
  BY <1>2, <1>3

LEMMA BlobInvKept == BlobInv /\ UNCHANGED blobVars => BlobInv'
BY DEF BlobInv, BlobTypeOK, blobVars, blobEnvVars

LEMMA LoopInvStart == LoopInv /\ startModules => LoopInv'
<1> SUFFICES ASSUME LoopInv, startModules PROVE LoopInv'
  OBVIOUS
<1>1. /\ starting \in Seq(registry) /\ starting # <<>>
      /\ providers \in Seq({"certs", "blob"}) /\ turn \in DOMAIN providers \cup {1}
  BY DEF LoopInv, startModules
<1>2. starting' \in Seq(registry) /\ Head(starting) \in registry
  BY <1>1 DEF startModules
<1>3. Registers(Head(starting)) => Head(starting) \in {"certs", "blob"}
  BY <1>2 DEF Registers, registry
<1>4. providers' = providers \/ \E p \in {"certs", "blob"} : providers' = Append(providers, p)
  BY <1>3 DEF startModules
<1>5. providers' \in Seq({"certs", "blob"}) /\ DOMAIN providers \subseteq DOMAIN providers'
  <2> DEFINE P == {"certs", "blob"}
  <2>1. ASSUME NEW p \in P, NEW s \in Seq(P)
        PROVE  Append(s, p) \in Seq(P) /\ DOMAIN s \subseteq DOMAIN Append(s, p)
    <3> HIDE DEF P
    <3>1. Append(s, p) \in Seq(P) /\ Len(Append(s, p)) = Len(s) + 1 /\ Len(s) \in Nat
      OBVIOUS
    <3>2. DOMAIN s = 1 .. Len(s) /\ DOMAIN Append(s, p) = 1 .. Len(s) + 1
      BY <3>1
    <3> QED
      BY <3>1, <3>2
  <2> QED
    BY <1>1, <1>4, <2>1, Zenon
<1> QED
  BY <1>1, <1>2, <1>5 DEF LoopInv, startModules

LEMMA LoopInvTick ==
  ASSUME LoopInv, NEW p, Ticks(p), UNCHANGED <<starting, providers>>,
         turn' \in {turn, NextProvider}
  PROVE  LoopInv'
<1>1. providers \in Seq({"certs", "blob"}) /\ turn \in DOMAIN providers
  BY DEF LoopInv, Ticks
<1>2. NextProvider \in DOMAIN providers
  BY <1>1 DEF NextProvider
<1> QED
  BY <1>1, <1>2 DEF LoopInv
-----------------------------------------------------------------------------
(* The invariant holds *)

\* A nonempty set of natural numbers has a least element (shown below).
NaturalsHaveLeast == \A S \in SUBSET Nat : S # {} => \E m \in S : \A k \in S : m <= k

\* The lineage being read is one of those found.
LEMMA LineageFound ==
  ASSUME NaturalsHaveLeast, found \subseteq Names, found # {}
  PROVE  Lineage \in found
<1>1. found \in SUBSET Nat
  BY NamesAre
<1>2. \E m \in found : \A n \in found : m <= n
  BY <1>1 DEF NaturalsHaveLeast
<1> QED
  BY <1>2 DEF Lineage

\* A setup starts in the invariant.
LEMMA AgentInvInit == Init => AgentInv
<1> SUFFICES ASSUME Init PROVE AgentInv
  OBVIOUS
<1>1. PICK s \in Setups : /\ starting = Build(s.modules)
                          /\ CertInit(s.issued)
                          /\ BlobInit(s.strategy)
  BY DEF Init
<1>2. CertInv
  BY <1>1, CertInvInit
<1>3. BlobInv
  BY <1>1, SetupsAssumption, BlobAssumption DEF BlobInit, BlobInv, BlobTypeOK, RecordOrNone
<1>4. LoopInv
  <2>1. s.modules \in Seq(STRING)
    BY SetupsAssumption
  <2>2. CASE \A i \in DOMAIN s.modules : s.modules[i] \in registry
    <3>1. s.modules \in Seq(registry)
      <4>1. Len(s.modules) \in Nat /\ s.modules \in [1 .. Len(s.modules) -> STRING]
        BY <2>1
      <4>2. s.modules \in [1 .. Len(s.modules) -> registry]
        BY <2>2, <4>1
      <4> QED
        BY <4>1, <4>2
    <3> QED
      BY <1>1, <2>2, <3>1 DEF LoopInv, Init, Build
  <2>3. CASE ~(\A i \in DOMAIN s.modules : s.modules[i] \in registry)
    <3>1. starting = <<>> /\ providers = <<>> /\ turn = 1
      BY <1>1, <2>3 DEF Init, Build
    <3>2. \A S : <<>> \in Seq(S)
      OBVIOUS
    <3> QED
      BY <3>1, <3>2 DEF LoopInv
  <2> QED
    BY <2>2, <2>3
<1>5. BudgetTypeOK
  BY FaultsAssumption DEF Init, BudgetInit, BudgetTypeOK
<1> QED
  BY <1>2, <1>3, <1>4, <1>5 DEF AgentInv

\* Every step of certs and of certbot.
LEMMA CertInvStep ==
  ASSUME NaturalsHaveLeast, CertInv, CertStep \/ \E d \in Dirs : StartRenewal(d) \/ ReplaceFile(d)
  PROVE  CertInv'
<1>1. CASE ReadPart
  <2>1. Lineage \in found
    BY <1>1, LineageFound DEF ReadPart, CertInv, LocalTypeOK
  <2> QED
    BY <1>1, <2>1, CertInvReadPart, Zenon
<1>2. CASE ~ReadPart
  BY <1>2, CertInvReadLive, CertInvScanEntry, CertInvScanReturns, CertInvLocalReturns,
     CertInvPublish, CertInvTickEnds, CertInvStartRenewal, CertInvReplaceFile DEF CertStep
<1> QED
  BY <1>1, <1>2

\* Every step keeps to the budget.
LEMMA BudgetStep ==
  ASSUME BudgetTypeOK, NoFault \/ (\E k : Fault(k)) \/ Renewal
  PROVE  BudgetTypeOK'
BY FaultsAssumption DEF BudgetTypeOK, NoFault, Fault, Renewal, budgetVars

\* Every step of an agent, of certbot and of the operator keeps it.
LEMMA AgentInvStep ==
  ASSUME NaturalsHaveLeast, AgentInv, [Next]_vars
  PROVE  AgentInv'
<1>1. CertInv /\ BlobInv /\ LoopInv /\ BudgetTypeOK
  BY DEF AgentInv
<1>2. CASE startModules
  <2>1. UNCHANGED <<certVars, blobVars, budgetVars>>
    BY <1>2 DEF startModules
  <2> QED
    BY <1>1, <1>2, <2>1, CertInvKept, BlobInvKept, LoopInvStart, BudgetStep DEF AgentInv, NoFault
<1>3. CASE CertsTick
  <2>1. /\ Ticks("certs") /\ CertStep /\ turn' \in {turn, NextProvider}
        /\ UNCHANGED <<blobVars, starting, providers>>
    BY <1>3 DEF CertsTick
  <2>2. NoFault \/ Fault("read")
    BY <2>1 DEF CertStep, ReadLive, ScanEntry, ScanReturns, ReadPart, LocalReturns,
                PublishLineage, CertTickEnds, NoFault
  <2>3. BudgetTypeOK'
    BY <1>1, <2>2, BudgetStep
  <2> QED
    BY <1>1, <2>1, <2>3, CertInvStep, BlobInvKept, LoopInvTick DEF AgentInv
<1>4. CASE BlobTick
  <2>1. /\ Ticks("blob") /\ BlobStep /\ turn' \in {turn, NextProvider}
        /\ UNCHANGED <<certVars, starting, providers>>
    BY <1>4 DEF BlobTick
  <2>2. NoFault \/ Fault("read")
    BY <2>1 DEF BlobStep, ReadSource, StatSource, PublishBlob, NoFault
  <2>3. BudgetTypeOK'
    BY <1>1, <2>2, BudgetStep
  <2> QED
    BY <1>1, <2>1, <2>3, BlobInvStep, CertInvKept, LoopInvTick DEF AgentInv
<1>5. CASE Certbot
  <2>1. /\ \E d \in Dirs : StartRenewal(d) \/ ReplaceFile(d)
        /\ UNCHANGED <<blobVars, loopVars>>
    BY <1>5 DEF Certbot
  <2>2. NoFault \/ Renewal
    BY <2>1 DEF StartRenewal, ReplaceFile, NoFault
  <2>3. BudgetTypeOK' /\ LoopInv'
    BY <1>1, <2>1, <2>2, BudgetStep DEF LoopInv, loopVars
  <2> QED
    BY <1>1, <2>1, <2>3, CertInvStep, BlobInvKept DEF AgentInv
<1>6. CASE Operator
  <2>1. (WriteSource \/ TimePasses) /\ UNCHANGED <<certVars, loopVars>>
    BY <1>6 DEF Operator
  <2>2. NoFault \/ Renewal
    BY <2>1 DEF WriteSource, TimePasses, NoFault
  <2>3. BudgetTypeOK' /\ LoopInv'
    BY <1>1, <2>1, <2>2, BudgetStep DEF LoopInv, loopVars
  <2> QED
    BY <1>1, <2>1, <2>3, BlobInvOperator, CertInvKept DEF AgentInv
<1>7. CASE UNCHANGED vars
  <2>1. UNCHANGED <<certVars, blobVars, budgetVars, loopVars>>
    BY <1>7 DEF vars
  <2>2. BudgetTypeOK' /\ LoopInv'
    BY <1>1, <2>1, BudgetStep DEF LoopInv, loopVars, NoFault
  <2> QED
    BY <1>1, <2>1, <2>2, CertInvKept, BlobInvKept DEF AgentInv
<1> QED
  BY <1>2, <1>3, <1>4, <1>5, <1>6, <1>7 DEF Next

-----------------------------------------------------------------------------
(* The order of texts (strings.Compare) *)

Text == Seq(Nat)

\* Position i decides that s comes before t: s ends before it, or has a smaller
\* character there.
LessAt(s, t, i) ==
  /\ i \in 1 .. Len(t) /\ i <= Len(s) + 1
  /\ \A j \in 1 .. i - 1 : s[j] = t[j]
  /\ i <= Len(s) => s[i] < t[i]

\* Texts of one length with the same characters are equal.
LEMMA SameCharacters ==
  ASSUME NEW s \in Text, NEW t \in Text, Len(s) = Len(t), \A j \in 1 .. Len(s) : s[j] = t[j]
  PROVE  s = t
BY DEF Text

\* strings.Compare in terms of the deciding position.
LEMMA TextLessAt ==
  ASSUME NEW s \in Text, NEW t \in Text
  PROVE  TextLess(s, t) <=> \E i \in Nat : LessAt(s, t, i)
<1>1. Len(s) \in Nat /\ Len(t) \in Nat /\ DOMAIN s = 1 .. Len(s) /\ DOMAIN t = 1 .. Len(t)
  BY DEF Text
<1> QED
  BY <1>1 DEF TextLess, LessAt

\* No text comes before itself.
LEMMA TextLessIrreflexive ==
  ASSUME NEW s \in Text
  PROVE  ~TextLess(s, s)
<1>1. \A i \in 1 .. Len(s) : s[i] \in Nat
  BY DEF Text
<1>2. \A i \in Nat : ~LessAt(s, s, i)
  BY <1>1 DEF LessAt
<1> QED
  BY <1>2, TextLessAt

\* The smaller of two deciding positions decides.
LEMMA TextLessTransitive ==
  ASSUME NEW s \in Text, NEW t \in Text, NEW u \in Text, TextLess(s, t), TextLess(t, u)
  PROVE  TextLess(s, u)
<1>1. PICK i \in Nat : LessAt(s, t, i)
  BY TextLessAt
<1>2. PICK j \in Nat : LessAt(t, u, j)
  BY TextLessAt
<1>a. /\ Len(s) \in Nat /\ Len(t) \in Nat /\ Len(u) \in Nat
      /\ \A k \in 1 .. Len(s) : s[k] \in Nat
      /\ \A k \in 1 .. Len(t) : t[k] \in Nat
      /\ \A k \in 1 .. Len(u) : u[k] \in Nat
  BY DEF Text
<1>3. CASE i < j
  <2>1. LessAt(s, u, i)
    BY <1>1, <1>2, <1>3, <1>a DEF LessAt
  <2> QED
    BY <2>1, TextLessAt
<1>4. CASE i = j
  <2>1. LessAt(s, u, i)
    BY <1>1, <1>2, <1>4, <1>a DEF LessAt
  <2> QED
    BY <2>1, TextLessAt
<1>5. CASE j < i
  <2>1. LessAt(s, u, j)
    BY <1>1, <1>2, <1>5, <1>a DEF LessAt
  <2> QED
    BY <2>1, TextLessAt
<1> QED
  BY <1>3, <1>4, <1>5

-----------------------------------------------------------------------------
(* Tie-breaks *)

IssuedOK == issued \in Seq(Certificate)

\* The tie-break of a leaf of renewal g read with the bytes of renewal h.
Tiebreak(g, h) == TiebreakText(BundleVersion(issued[g], issued[h]))

Texts == {Tiebreak(g, h) : g, h \in DOMAIN issued}

\* The tie-break, character by character.
LEMMA TiebreakIs ==
  ASSUME IssuedOK, NEW g \in DOMAIN issued, NEW h \in DOMAIN issued
  PROVE  /\ issued[g] \in Certificate /\ issued[h] \in Certificate
         /\ Tiebreak(g, h) = issued[g].serial \o <<Colon>> \o issued[h].sha256
         /\ Tiebreak(g, h) \in Text
<1>1. issued[g] \in Certificate /\ issued[h] \in Certificate
  BY DEF IssuedOK
<1>2. issued[g].serial \in Text /\ issued[h].sha256 \in Text /\ <<Colon>> \in Text
  BY <1>1 DEF Certificate, Text, Colon
<1>3. Tiebreak(g, h) = issued[g].serial \o <<Colon>> \o issued[h].sha256
  BY Zenon DEF Tiebreak, TiebreakText, BundleVersion
<1> QED
  BY <1>1, <1>2, <1>3 DEF Text

\* A serial and a hash in one text.
Join(a, x) == a \o <<Colon>> \o x

\* The characters of two texts put together.
LEMMA Concatenation ==
  ASSUME NEW p \in Text, NEW x \in Text
  PROVE  /\ p \o x \in Text /\ Len(p \o x) = Len(p) + Len(x)
         /\ \A i \in 1 .. Len(p) : (p \o x)[i] = p[i]
         /\ \A i \in 1 .. Len(x) : (p \o x)[Len(p) + i] = x[i]
<1>1. p \o x \in Text
  BY DEF Text
<1>2. Len(p \o x) = Len(p) + Len(x)
  BY DEF Text
<1>3. ASSUME NEW i \in 1 .. Len(p)
      PROVE  (p \o x)[i] = p[i]
  BY DEF Text
<1>4. ASSUME NEW i \in 1 .. Len(x)
      PROVE  (p \o x)[Len(p) + i] = x[i]
  BY DEF Text
<1> QED
  BY <1>1, <1>2, <1>3, <1>4

\* The characters of a joined text.
LEMMA JoinIs ==
  ASSUME NEW a \in Text, NEW x \in Text
  PROVE  /\ Join(a, x) \in Text
         /\ Len(a) \in Nat /\ Len(x) \in Nat
         /\ Len(Join(a, x)) = Len(a) + 1 + Len(x)
         /\ \A i \in 1 .. Len(a) : Join(a, x)[i] = a[i]
         /\ Join(a, x)[Len(a) + 1] = Colon
         /\ \A i \in 1 .. Len(x) : Join(a, x)[Len(a) + 1 + i] = x[i]
<1> DEFINE p == a \o <<Colon>>
<1>1. p \in Text /\ Len(a) \in Nat /\ Len(x) \in Nat /\ Len(p) = Len(a) + 1
  BY DEF Text, Colon
<1>2. (\A i \in 1 .. Len(a) : p[i] = a[i]) /\ p[Len(a) + 1] = Colon
  BY DEF Text, Colon
<1>3. Join(a, x) = p \o x
  BY DEF Join
<1> HIDE DEF p
<1>4. /\ p \o x \in Text /\ Len(p \o x) = Len(p) + Len(x)
      /\ \A i \in 1 .. Len(p) : (p \o x)[i] = p[i]
      /\ \A i \in 1 .. Len(x) : (p \o x)[Len(p) + i] = x[i]
  BY <1>1, Concatenation, Zenon
<1> QED
  BY <1>1, <1>2, <1>3, <1>4

\* With serials of one length the serials decide first and then the hashes, as
\* in bundle.Compare.
LEMMA AlignedOrder ==
  ASSUME NEW a \in Text, NEW x \in Text, NEW c \in Text, NEW y \in Text, Len(a) = Len(c)
  PROVE  TextLess(Join(a, x), Join(c, y)) <=> TextLess(a, c) \/ (a = c /\ TextLess(x, y))
<1> DEFINE s == Join(a, x)
           t == Join(c, y)
           n == Len(a)
<1>n. Len(a) = n /\ Len(c) = n
  OBVIOUS
<1>a. /\ s \in Text /\ n \in Nat /\ Len(x) \in Nat /\ Len(s) = n + 1 + Len(x)
      /\ s[n + 1] = Colon
      /\ \A i \in 1 .. n : s[i] = a[i]
      /\ \A i \in 1 .. Len(x) : s[n + 1 + i] = x[i]
  BY JoinIs, Zenon
<1>b. /\ t \in Text /\ Len(y) \in Nat /\ Len(t) = n + 1 + Len(y)
      /\ t[n + 1] = Colon
      /\ \A i \in 1 .. n : t[i] = c[i]
      /\ \A i \in 1 .. Len(y) : t[n + 1 + i] = y[i]
  <2>1. /\ t \in Text /\ Len(y) \in Nat /\ Len(t) = Len(c) + 1 + Len(y)
        /\ t[Len(c) + 1] = Colon
        /\ \A i \in 1 .. Len(c) : t[i] = c[i]
        /\ \A i \in 1 .. Len(y) : t[Len(c) + 1 + i] = y[i]
    BY JoinIs, Zenon
  <2> HIDE DEF t, n
  <2> QED
    BY <1>n, <2>1
<1>c. Colon \in Nat
  BY DEF Colon
<1> HIDE DEF s, t, n
<1>1. ASSUME NEW i \in Nat, LessAt(s, t, i)
      PROVE  TextLess(a, c) \/ (a = c /\ TextLess(x, y))
  <2>1. CASE i <= n
    <3>1. LessAt(a, c, i)
      BY <1>1, <1>a, <1>b, <1>n, <2>1 DEF LessAt
    <3> QED
      BY <3>1, TextLessAt
  <2>2. CASE i = n + 1
    BY <1>1, <1>a, <1>b, <1>c, <2>2 DEF LessAt
  <2>3. CASE i > n + 1
    <3>1. a = c
      <4>1. \A j \in 1 .. n : a[j] = c[j]
        BY <1>1, <1>a, <1>b, <2>3 DEF LessAt
      <4> QED
        BY <1>n, <4>1, SameCharacters
    <3>2. LessAt(x, y, i - (n + 1))
      <4> DEFINE k == i - (n + 1)
      <4>1. k \in 1 .. Len(y) /\ k <= Len(x) + 1 /\ i = n + 1 + k
        BY <1>1, <1>a, <1>b, <2>3 DEF LessAt
      <4>2. ASSUME NEW j \in 1 .. k - 1
            PROVE  x[j] = y[j]
        <5>1. n + 1 + j \in 1 .. i - 1 /\ j \in 1 .. Len(x) /\ j \in 1 .. Len(y)
          BY <1>a, <1>b, <4>1
        <5> QED
          BY <1>1, <1>a, <1>b, <5>1 DEF LessAt
      <4>3. ASSUME k <= Len(x)
            PROVE  x[k] < y[k]
        <5>1. i <= Len(s) /\ s[i] = x[k] /\ t[i] = y[k]
          <6>1. k \in 1 .. Len(x) /\ i <= Len(s)
            BY <1>a, <4>1, <4>3
          <6>2. s[n + 1 + k] = x[k] /\ t[n + 1 + k] = y[k]
            BY <1>a, <1>b, <4>1, <6>1, Zenon
          <6> QED
            BY <4>1, <6>1, <6>2
        <5> QED
          BY <1>1, <5>1 DEF LessAt
      <4> HIDE DEF k
      <4>4. LessAt(x, y, k)
        BY <4>1, <4>2, <4>3 DEF LessAt
      <4> QED
        BY <4>4 DEF k
    <3>3. i - (n + 1) \in Nat
      BY <1>a, <2>3
    <3> QED
      BY <3>1, <3>2, <3>3, TextLessAt
  <2> QED
    BY <1>a, <2>1, <2>2, <2>3
<1>2. ASSUME NEW i \in Nat, LessAt(a, c, i)
      PROVE  LessAt(s, t, i)
  BY <1>2, <1>a, <1>b, <1>n DEF LessAt
<1>3. ASSUME a = c, NEW k \in Nat, LessAt(x, y, k)
      PROVE  LessAt(s, t, n + 1 + k)
  <2>1. n + 1 + k \in 1 .. Len(t) /\ n + 1 + k <= Len(s) + 1
    BY <1>3, <1>a, <1>b DEF LessAt
  <2>2. ASSUME NEW j \in 1 .. (n + 1 + k) - 1
        PROVE  s[j] = t[j]
    <3>1. CASE j \in 1 .. n
      BY <1>3, <1>a, <1>b, <3>1
    <3>3. CASE j = n + 1
      BY <1>a, <1>b, <3>3
    <3>2. CASE j > n + 1
      <4>1. PICK m \in 1 .. k - 1 : j = n + 1 + m
        <5>1. j - (n + 1) \in 1 .. k - 1 /\ j = n + 1 + (j - (n + 1))
          BY <1>a, <3>2
        <5> QED
          BY <5>1
      <4>2. x[m] = y[m] /\ m \in 1 .. Len(x) /\ m \in 1 .. Len(y)
        BY <1>3, <1>a, <1>b, <4>1 DEF LessAt
      <4> QED
        BY <1>a, <1>b, <4>1, <4>2
    <3> QED
      BY <1>a, <3>1, <3>2, <3>3
  <2>3. ASSUME n + 1 + k <= Len(s)
        PROVE  s[n + 1 + k] < t[n + 1 + k]
    <3>1. k \in 1 .. Len(x) /\ k \in 1 .. Len(y) /\ x[k] < y[k]
      BY <1>3, <1>a, <1>b, <2>3 DEF LessAt
    <3> QED
      BY <1>a, <1>b, <3>1
  <2> QED
    BY <2>1, <2>2, <2>3 DEF LessAt
<1>4. TextLess(s, t) => \E i \in Nat : LessAt(s, t, i)
  BY <1>a, <1>b, TextLessAt
<1>5. TextLess(a, c) => TextLess(s, t)
  BY <1>2, <1>a, <1>b, TextLessAt
<1>6. a = c /\ TextLess(x, y) => TextLess(s, t)
  <2> SUFFICES ASSUME a = c, TextLess(x, y)
               PROVE  TextLess(s, t)
    OBVIOUS
  <2>1. PICK k \in Nat : LessAt(x, y, k)
    BY TextLessAt
  <2>2. LessAt(s, t, n + 1 + k)
    BY <1>3, <2>1
  <2>3. n + 1 + k \in Nat
    BY <1>a
  <2> QED
    BY <1>a, <1>b, <2>2, <2>3, TextLessAt
<1> QED
  BY <1>1, <1>4, <1>5, <1>6 DEF s, t
\* Serials have no colon: where two of them differ, they decide the order of the
\* tie-breaks, whatever their lengths and whatever hash follows.
LEMMA SerialDecides ==
  ASSUME NEW a \in Seq(Nat \ {Colon}), NEW c \in Seq(Nat \ {Colon}), a # c,
         NEW x \in Text, NEW y \in Text, NEW z \in Text,
         TextLess(Join(a, x), Join(c, y))
  PROVE  TextLess(Join(a, z), Join(c, y))
<1> DEFINE s == Join(a, x)
           t == Join(c, y)
           u == Join(a, z)
           n == Len(a)
           m == Len(c)
<1>a. /\ a \in Text /\ c \in Text
      /\ \A i \in 1 .. n : a[i] # Colon
      /\ \A i \in 1 .. m : c[i] # Colon
  BY DEF Text
<1>b. /\ s \in Text /\ n \in Nat /\ Len(s) = n + 1 + Len(x) /\ Len(x) \in Nat
      /\ s[n + 1] = Colon
      /\ \A i \in 1 .. n : s[i] = a[i]
  BY <1>a, JoinIs
<1>c. /\ t \in Text /\ m \in Nat /\ Len(t) = m + 1 + Len(y) /\ Len(y) \in Nat
      /\ t[m + 1] = Colon
      /\ \A i \in 1 .. m : t[i] = c[i]
  BY <1>a, JoinIs
<1>d. /\ u \in Text /\ Len(u) = n + 1 + Len(z) /\ Len(z) \in Nat
      /\ u[n + 1] = Colon
      /\ \A i \in 1 .. n : u[i] = a[i]
  BY <1>a, JoinIs, Zenon
<1>e. (n = m /\ \A i \in 1 .. n : a[i] = c[i]) => FALSE
  BY <1>a, SameCharacters
<1> HIDE DEF s, t, u, n, m
<1>1. PICK i \in Nat : LessAt(s, t, i)
  BY <1>b, <1>c, TextLessAt DEF s, t
<1>2. i \in 1 .. Len(t) /\ (\A j \in 1 .. i - 1 : s[j] = t[j]) /\ (i <= Len(s) => s[i] < t[i])
  BY <1>1 DEF LessAt
<1>3. i <= n + 1
  <2> SUFFICES ASSUME i > n + 1
               PROVE  FALSE
    BY <1>b
  <2>1. t[n + 1] = Colon /\ \A j \in 1 .. n : t[j] = a[j]
    BY <1>2, <1>b
  <2>2. CASE n < m
    <3>1. n + 1 \in 1 .. m
      BY <1>b, <1>c, <2>2
    <3> QED
      BY <1>a, <1>c, <2>1, <3>1
  <2>3. CASE n = m
    BY <1>c, <1>e, <2>1, <2>3
  <2>4. CASE m < n
    <3>1. m + 1 \in 1 .. n
      BY <1>b, <1>c, <2>4
    <3> QED
      BY <1>a, <1>c, <2>1, <3>1
  <2> QED
    BY <1>b, <1>c, <2>2, <2>3, <2>4
<1>4. \A j \in 1 .. i - 1 : u[j] = t[j]
  BY <1>2, <1>3, <1>b, <1>d
<1>5. s[i] < t[i] /\ u[i] = s[i]
  <2>1. i <= Len(s)
    BY <1>3, <1>b
  <2>2. i \in 1 .. n \/ i = n + 1
    BY <1>2, <1>3, <1>b
  <2> QED
    BY <1>2, <1>b, <1>d, <2>1, <2>2
<1>6. i <= Len(u) + 1
  BY <1>3, <1>b, <1>d
<1>7. LessAt(u, t, i)
  BY <1>2, <1>4, <1>5, <1>6 DEF LessAt
<1>8. TextLess(u, t)
  BY <1>7, <1>c, <1>d, TextLessAt, Zenon
<1> QED
  BY <1>8 DEF u, t

-----------------------------------------------------------------------------
(* Versions of records *)

\* The version toRecord makes of a leaf of renewal g and bytes of renewal h.
VersionOf(g, h) ==
  [primary |-> issued[g].notBefore, secondary |-> issued[g].notAfter,
   tiebreak |-> Rank(Tiebreak(g, h))]

\* Rank represents the order of the tie-breaks (shown below).
RanksOrder ==
  \A s, t \in Texts : Rank(s) \in Nat /\ (Rank(s) < Rank(t) <=> TextLess(s, t))

\* toRecord.
LEMMA RecordIs ==
  ASSUME NEW b \in [DOMAIN NoParts -> DOMAIN issued \cup {None}]
  PROVE  /\ toRecord(b).version = VersionOf(b["leaf"], b["cert"])
         /\ toRecord(b).blobs = [f \in Files |-> b[f]]
         /\ toRecord(b).meta = BundleVersion(issued[b["leaf"]], issued[b["cert"]])
BY Zenon DEF toRecord, VersionOf, Tiebreak, BundleVersion

\* The version of a bundle that was written as a whole.
LEMMA WholeVersion ==
  ASSUME NEW g \in DOMAIN issued
  PROVE  Whole(g).version = VersionOf(g, g)
<1> DEFINE b == [p \in DOMAIN NoParts |-> g]
<1>1. b \in [DOMAIN NoParts -> DOMAIN issued \cup {None}]
  OBVIOUS
<1>2. b["leaf"] = g /\ b["cert"] = g
  BY PartNames
<1>3. Whole(g) = toRecord(b)
  BY Zenon DEF Whole
<1> HIDE DEF b
<1> QED
  BY <1>1, <1>2, <1>3, RecordIs, Zenon

\* The tie-breaks of versions compare as the texts they stand for.
LEMMA VersionTie ==
  ASSUME IssuedOK, RanksOrder, NEW g \in DOMAIN issued, NEW h \in DOMAIN issued,
         NEW k \in DOMAIN issued, NEW l \in DOMAIN issued
  PROVE  /\ VersionOf(g, h) \in Version
         /\ VersionOf(g, h).tiebreak > VersionOf(k, l).tiebreak
              <=> TextLess(Tiebreak(k, l), Tiebreak(g, h))
<1>1. Tiebreak(g, h) \in Texts /\ Tiebreak(k, l) \in Texts
  BY DEF Texts
<1>2. /\ Rank(Tiebreak(g, h)) \in Nat /\ Rank(Tiebreak(k, l)) \in Nat
      /\ Rank(Tiebreak(k, l)) < Rank(Tiebreak(g, h)) <=> TextLess(Tiebreak(k, l), Tiebreak(g, h))
  BY <1>1 DEF RanksOrder
<1>3. issued[g].notBefore \in Int /\ issued[g].notAfter \in Int
  BY TiebreakIs, Zenon DEF Certificate
<1> QED
  BY <1>2, <1>3 DEF VersionOf, Version

\* Versions order records as bundle.Compare orders the bundles.
LEMMA VersionOrder ==
  ASSUME IssuedOK, RanksOrder, SerialsAligned,
         NEW g \in DOMAIN issued, NEW h \in DOMAIN issued,
         NEW k \in DOMAIN issued, NEW l \in DOMAIN issued
  PROVE  Newer(VersionOf(g, h), VersionOf(k, l))
           <=> BundleNewer(BundleVersion(issued[g], issued[h]), BundleVersion(issued[k], issued[l]))
<1>1. /\ issued[g].serial \in Text /\ issued[k].serial \in Text
      /\ issued[h].sha256 \in Text /\ issued[l].sha256 \in Text
  <2>1. \A s \in Seq(Nat \ {Colon}) : s \in Seq(Nat)
    OBVIOUS
  <2> QED
    BY <2>1, TiebreakIs, Zenon DEF Certificate, Text
<1>6. /\ Tiebreak(g, h) = Join(issued[g].serial, issued[h].sha256)
      /\ Tiebreak(k, l) = Join(issued[k].serial, issued[l].sha256)
  BY TiebreakIs, Zenon DEF Join
<1>2. Len(issued[k].serial) = Len(issued[g].serial)
  BY DEF SerialsAligned
<1>3. TextLess(Tiebreak(k, l), Tiebreak(g, h))
        <=> \/ TextLess(issued[k].serial, issued[g].serial)
            \/ issued[k].serial = issued[g].serial /\ TextLess(issued[l].sha256, issued[h].sha256)
  BY <1>1, <1>2, <1>6, AlignedOrder
<1>4. VersionOf(g, h).tiebreak > VersionOf(k, l).tiebreak
        <=> TextLess(Tiebreak(k, l), Tiebreak(g, h))
  BY VersionTie
<1>5. /\ VersionOf(g, h).primary = issued[g].notBefore
      /\ VersionOf(g, h).secondary = issued[g].notAfter
      /\ VersionOf(k, l).primary = issued[k].notBefore
      /\ VersionOf(k, l).secondary = issued[k].notAfter
  BY DEF VersionOf
<1> QED
  BY <1>3, <1>4, <1>5, Zenon DEF Newer, BundleNewer, BundleVersion

\* Renewals are numbered.
LEMMA IssuedNumbers == IssuedOK => DOMAIN issued \subseteq Int
BY DEF IssuedOK

\* A leaf that is not newer than the bytes makes no version newer than theirs.
LEMMA LeafNotAhead ==
  ASSUME IssuedOK, RanksOrder, RenewalsAreNewer,
         NEW g \in DOMAIN issued, NEW h \in DOMAIN issued, g <= h
  PROVE  ~Newer(VersionOf(g, h), Whole(h).version)
<1>a. DOMAIN issued \subseteq Int
  BY IssuedNumbers, Zenon
<1>1. /\ VersionOf(g, h) \in Version /\ VersionOf(h, h) \in Version /\ VersionOf(g, g) \in Version
      /\ Whole(h).version = VersionOf(h, h) /\ Whole(g).version = VersionOf(g, g)
  BY VersionTie, WholeVersion
<1>2. CASE g = h
  BY <1>1, <1>2 DEF Newer, Version
<1>3. CASE g < h
  <2>1. Newer(VersionOf(h, h), VersionOf(g, g))
    BY <1>1, <1>3, Zenon DEF RenewalsAreNewer
  <2>2. /\ VersionOf(g, h).primary = VersionOf(g, g).primary
        /\ VersionOf(g, h).secondary = VersionOf(g, g).secondary
    BY Zenon DEF VersionOf
  <2>3. CASE ~(VersionOf(h, h).tiebreak > VersionOf(g, g).tiebreak)
    BY <1>1, <2>1, <2>2, <2>3 DEF Newer, Version
  <2>4. CASE VersionOf(h, h).tiebreak > VersionOf(g, g).tiebreak
    <3>1. ~(VersionOf(g, h).tiebreak > VersionOf(h, h).tiebreak)
      <4>1. /\ issued[g].serial \in Seq(Nat \ {Colon}) /\ issued[h].serial \in Seq(Nat \ {Colon})
            /\ issued[g].sha256 \in Text /\ issued[h].sha256 \in Text
            /\ Tiebreak(g, g) = Join(issued[g].serial, issued[g].sha256)
            /\ Tiebreak(g, h) = Join(issued[g].serial, issued[h].sha256)
            /\ Tiebreak(h, h) = Join(issued[h].serial, issued[h].sha256)
        BY TiebreakIs, Zenon DEF Certificate, Text, Join
      <4>2. TextLess(Tiebreak(g, g), Tiebreak(h, h))
        BY <2>4, VersionTie
      <4>3. Tiebreak(g, h) = Tiebreak(h, h) \/ TextLess(Tiebreak(g, h), Tiebreak(h, h))
        BY <4>1, <4>2, SerialDecides, Zenon
      <4>4. Tiebreak(g, h) \in Text /\ Tiebreak(h, h) \in Text
        BY TiebreakIs, Zenon
      <4>5. ~TextLess(Tiebreak(h, h), Tiebreak(g, h))
        BY <4>3, <4>4, TextLessIrreflexive, TextLessTransitive
      <4> QED
        BY <4>5, VersionTie
    <3> QED
      BY <1>1, <2>1, <2>2, <3>1 DEF Newer, Version
  <2> QED
    BY <2>3, <2>4
<1> QED
  BY <1>1, <1>2, <1>3, <1>a

\* A record of a lineage has the version of a leaf of renewal g with the bytes
\* of renewal h, which is not an earlier one.
LEMMA RecordRead ==
  ASSUME LocalTypeOK, RanksOrder, NEW r \in ReadRecords
  PROVE  /\ r \in CertRecord
         /\ \E g, h \in DOMAIN issued :
              /\ g <= h /\ r.blobs["cert"] = h /\ r.version = VersionOf(g, h)
              /\ r.meta = BundleVersion(issued[g], issued[h])
<1>1. PICK b \in ReadParts : r = toRecord(b)
  BY DEF ReadRecords
<1>2. /\ b \in [DOMAIN NoParts -> DOMAIN issued \cup {None}]
      /\ b["leaf"] \in DOMAIN issued /\ b["cert"] \in DOMAIN issued /\ b["leaf"] <= b["cert"]
  BY DEF ReadParts
<1>3. /\ r.version = VersionOf(b["leaf"], b["cert"])
      /\ r.blobs = [f \in Files |-> b[f]]
      /\ r.meta = BundleVersion(issued[b["leaf"]], issued[b["cert"]])
  BY <1>1, <1>2, RecordIs
<1>4. r.blobs \in [Files -> DOMAIN issued \cup {None}] /\ r.blobs["cert"] = b["cert"]
  BY <1>2, <1>3, PartNames, SMTT(30) DEF Files
<1>5. r.version \in Version
  <2>1. IssuedOK
    BY IssuedIs DEF IssuedOK
  <2>2. VersionOf(b["leaf"], b["cert"]) \in Version
    BY <1>2, <2>1, VersionTie, ZenonT(30)
  <2> QED
    BY <1>3, <2>2
<1>6. r = [version |-> r.version, blobs |-> r.blobs, meta |-> r.meta]
  BY <1>1, Zenon DEF toRecord
<1>7. r.meta \in {BundleVersion(issued[g], issued[h]) : g, h \in DOMAIN issued}
  BY <1>2, <1>3
<1>8. r \in CertRecord
  BY <1>4, <1>5, <1>6, <1>7 DEF CertRecord
<1> QED
  BY <1>2, <1>3, <1>4, <1>8

-----------------------------------------------------------------------------
(* What the invariant means *)

\* Records of lineages are records.
LEMMA InvTypes ==
  ASSUME AgentInv, RanksOrder
  PROVE  AgentTypeOK
<1>1. ASSUME CertInv PROVE CertTypeOK
  <2>1. ReadRecords \subseteq CertRecord
    BY <1>1, RecordRead DEF CertInv
  <2> QED
    BY <1>1, <2>1 DEF CertInv, RecordsInv, CertTypeOK
<1> QED
  BY <1>1 DEF AgentInv, BlobInv, LoopInv, AgentTypeOK

\* Entries are sorted by name, so the first with a path has the first name.
LEMMA InvScan ==
  ASSUME AgentInv
  PROVE  ScanKeepsFirstName
<1> DEFINE Scanned == {entries[i] : i \in DOMAIN entries}
           Leads(e) == /\ e.path # None
                       /\ \A d \in Scanned : d.path = e.path => e.name <= d.name
           First(i) == \A j \in 1 .. i - 1 : entries[j].path # entries[i].path
<1>1. /\ DOMAIN entries = 1 .. Len(entries) /\ Len(entries) \in Nat
      /\ \A i \in DOMAIN entries : entries[i].name \in Int
      /\ \A i, j \in DOMAIN entries : i < j => entries[i].name < entries[j].name
  <2> DEFINE E == [name : Names, path : {None} \cup (Dirs \X DOMAIN issued)]
  <2>1. entries \in Seq(E)
    BY DEF AgentInv, CertInv, LocalTypeOK
  <2>2. \A i \in DOMAIN entries : entries[i].name \in Int
    BY <2>1, EntryNames, Zenon
  <2> HIDE DEF E
  <2>3. DOMAIN entries = 1 .. Len(entries) /\ Len(entries) \in Nat
    BY <2>1
  <2> QED
    BY <2>2, <2>3 DEF AgentInv, CertInv, ScanInv
<1>3. ASSUME NEW i \in DOMAIN entries, entries[i].path # None
      PROVE  First(i) <=> Leads(entries[i])
  <2>1. ASSUME First(i), NEW j \in DOMAIN entries, entries[j].path = entries[i].path
        PROVE  entries[i].name <= entries[j].name
    <3>1. ~(j \in 1 .. i - 1)
      BY <2>1
    <3>2. j = i \/ i < j
      BY <1>1, <3>1
    <3> QED
      BY <1>1, <3>2
  <2>2. ASSUME \A j \in DOMAIN entries :
                 entries[j].path = entries[i].path => entries[i].name <= entries[j].name,
               NEW j \in 1 .. i - 1, entries[j].path = entries[i].path
        PROVE  FALSE
    <3>1. j \in DOMAIN entries /\ j < i
      BY <1>1
    <3> QED
      BY <1>1, <2>2, <3>1
  <2> QED
    BY <1>3, <2>1, <2>2
<1>4. ScanAll(entries) = {entries[i].name : i \in {i \in DOMAIN entries :
                            entries[i].path # None /\ First(i)}}
  BY DEF ScanAll, mergeEntries
<1>5. {e.name : e \in {d \in Scanned : Leads(d)}}
        = {entries[i].name : i \in {i \in DOMAIN entries : Leads(entries[i])}}
  OBVIOUS
<1>6. ScanAll(entries) = {e.name : e \in {d \in Scanned : Leads(d)}}
  BY <1>3, <1>4, <1>5
<1> QED
  BY <1>6 DEF ScanKeepsFirstName

\* What has been published was read, the leaf before the bytes.
LEMMA PublishedRead ==
  ASSUME AgentInv, RanksOrder, NEW r \in Published
  PROVE  /\ IssuedOK
         /\ \E g, h \in DOMAIN issued :
              /\ g <= h /\ r.blobs["cert"] = h /\ r.version = VersionOf(g, h)
              /\ r.meta = BundleVersion(issued[g], issued[h])
<1>1. LocalTypeOK /\ r \in ReadRecords
  BY SMTT(30) DEF AgentInv, CertInv, RecordsInv, Published
<1> QED
  BY <1>1, RecordRead, IssuedIs DEF IssuedOK

\* The leaf of what is published is not ahead of its bytes.
LEMMA InvNotAhead ==
  ASSUME AgentInv, RanksOrder
  PROVE  VersionNotAheadOfBytes
<1> SUFFICES ASSUME RenewalsAreNewer, NEW r \in Published
             PROVE  ~Newer(r.version, Whole(r.blobs["cert"]).version)
  BY Zenon DEF VersionNotAheadOfBytes
<1>1. IssuedOK
  BY PublishedRead
<1>2. PICK g, h \in DOMAIN issued :
        g <= h /\ r.blobs["cert"] = h /\ r.version = VersionOf(g, h)
  BY PublishedRead
<1> QED
  BY <1>1, <1>2, LeafNotAhead, ZenonT(30)

\* What is published is ordered by version as by bundle.Compare.
LEMMA InvOrder ==
  ASSUME AgentInv, RanksOrder
  PROVE  RecordOrderIsBundleOrder
<1> SUFFICES ASSUME SerialsAligned, NEW r \in Published, NEW s \in Published
             PROVE  Newer(r.version, s.version) <=> BundleNewer(r.meta, s.meta)
  BY DEF RecordOrderIsBundleOrder
<1>1. IssuedOK
  BY PublishedRead
<1>2. PICK g, h \in DOMAIN issued :
        r.version = VersionOf(g, h) /\ r.meta = BundleVersion(issued[g], issued[h])
  BY PublishedRead
<1>3. PICK k, l \in DOMAIN issued :
        s.version = VersionOf(k, l) /\ s.meta = BundleVersion(issued[k], issued[l])
  BY PublishedRead
<1> QED
  BY <1>1, <1>2, <1>3, VersionOrder

-----------------------------------------------------------------------------
(* Least elements and ranks *)

\* Rank counts; Count is Cardinality under a name of its own, for the instance
\* of FiniteSetTheorems brings another copy of it. The instance stands here
\* because what precedes needs none of its facts.
Count(S) == Cardinality(S)

LEMMA RankCounts ==
  ASSUME NEW s
  PROVE  Rank(s) = Count({u \in Texts : TextLess(u, s)})
BY DEF Rank, Count, Texts, Tiebreak

\* What Cardinality is defined to be.
LEMMA CountIs ==
  \A S : Count(S) = LET CS[T \in SUBSET S] == IF T = {} THEN 0
                                              ELSE 1 + CS[T \ {CHOOSE x : x \in T}]
                    IN CS[S]
BY Zenon DEF Count, Cardinality

LOCAL INSTANCE FiniteSetTheorems

LEMMA CountSame == \A S : Count(S) = Cardinality(S)
BY CountIs, Zenon DEF Cardinality

\* A nonempty set of natural numbers has a least element.
LEMMA LeastNatural == NaturalsHaveLeast
<1> SUFFICES ASSUME NEW S \in SUBSET Nat, S # {}
             PROVE  \E m \in S : \A k \in S : m <= k
  BY DEF NaturalsHaveLeast
<1>1. PICK m \in S : \A k \in S : ~(<<k, m>> \in OpToRel(<, Nat))
  BY NatLessThanWellFounded, WFMin, Zenon
<1>2. \A k \in S : ~(k < m)
  BY <1>1, Zenon DEF OpToRel
<1> QED
  BY <1>2

\* Of two different texts one comes first: the least position at which they are
\* not both defined and equal decides.
LEMMA TextLessTotal ==
  ASSUME NEW s \in Text, NEW t \in Text, s # t
  PROVE  TextLess(s, t) \/ TextLess(t, s)
<1> DEFINE D == {i \in Nat \ {0} : ~(i <= Len(s) /\ i <= Len(t) /\ s[i] = t[i])}
<1>a. /\ Len(s) \in Nat /\ Len(t) \in Nat
      /\ \A k \in 1 .. Len(s) : s[k] \in Nat
      /\ \A k \in 1 .. Len(t) : t[k] \in Nat
  BY DEF Text
<1>1. PICK i \in D : \A k \in D : i <= k
  <2>1. Len(s) + 1 \in D
    BY <1>a
  <2>2. D \subseteq Nat
    OBVIOUS
  <2> HIDE DEF D
  <2> QED
    BY <2>1, <2>2, LeastNatural DEF NaturalsHaveLeast
<1>2. \A k \in 1 .. i - 1 : k <= Len(s) /\ k <= Len(t) /\ s[k] = t[k]
  BY <1>1
<1>3. i <= Len(s) + 1 /\ i <= Len(t) + 1
  BY <1>1, <1>2, <1>a
<1>4. CASE i <= Len(s) /\ i <= Len(t)
  <2>1. s[i] < t[i] \/ t[i] < s[i]
    BY <1>1, <1>4, <1>a
  <2>2. LessAt(s, t, i) \/ LessAt(t, s, i)
    BY <1>1, <1>2, <1>3, <1>4, <1>a, <2>1 DEF LessAt
  <2> QED
    BY <2>2, TextLessAt
<1>5. CASE i = Len(s) + 1 /\ i <= Len(t)
  <2>1. LessAt(s, t, i)
    BY <1>1, <1>2, <1>3, <1>5, <1>a DEF LessAt
  <2> QED
    BY <2>1, TextLessAt
<1>6. CASE i = Len(t) + 1 /\ i <= Len(s)
  <2>1. LessAt(t, s, i)
    BY <1>1, <1>2, <1>3, <1>6, <1>a DEF LessAt
  <2> QED
    BY <2>1, TextLessAt
<1>7. CASE i = Len(s) + 1 /\ i = Len(t) + 1
  <2>1. Len(s) = Len(t) /\ \A k \in 1 .. Len(s) : s[k] = t[k]
    BY <1>2, <1>7, <1>a
  <2> QED
    BY <2>1, SameCharacters
<1> QED
  BY <1>1, <1>3, <1>4, <1>5, <1>6, <1>7, <1>a

\* There are finitely many tie-breaks.
LEMMA TextsFinite ==
  ASSUME IssuedOK
  PROVE  IsFiniteSet(Texts) /\ Texts \subseteq Text
<1> DEFINE G == DOMAIN issued
           F == [p \in G \X G |-> Tiebreak(p[1], p[2])]
<1>1. Texts \subseteq Text
  <2>1. \A g, h \in DOMAIN issued : Tiebreak(g, h) \in Text
    BY TiebreakIs, Zenon
  <2> QED
    BY <2>1 DEF Texts
<1>2. IsFiniteSet(G)
  <2>1. G = 1 .. Len(issued) /\ Len(issued) \in Nat
    BY DEF IssuedOK
  <2> QED
    BY <2>1, FS_Interval
<1>3. IsFiniteSet(G \X G)
  BY <1>2, FS_Product
<1>4. F \in Surjection(G \X G, Texts)
  <2>1. \A g, h \in G : F[<<g, h>>] = Tiebreak(g, h)
    OBVIOUS
  <2>2. F \in [G \X G -> Texts]
    BY DEF Texts
  <2>3. ASSUME NEW x \in Texts
        PROVE  \E p \in G \X G : F[p] = x
    <3>1. PICK g \in G, h \in G : x = Tiebreak(g, h)
      BY DEF Texts
    <3>2. <<g, h>> \in G \X G /\ F[<<g, h>>] = x
      BY <2>1, <3>1
    <3> QED
      BY <3>2
  <2> HIDE DEF F
  <2> QED
    BY <2>2, <2>3 DEF Surjection
<1> QED
  BY <1>1, <1>3, <1>4, FS_Surjection

\* Rank represents the order of the tie-breaks.
LEMMA RankOrder ==
  ASSUME IssuedOK
  PROVE  RanksOrder
<1> SUFFICES ASSUME NEW s \in Texts, NEW t \in Texts
             PROVE  Rank(s) \in Nat /\ (Rank(s) < Rank(t) <=> TextLess(s, t))
  BY DEF RanksOrder
<1> DEFINE Below(x) == {u \in Texts : TextLess(u, x)}
<1>a. IsFiniteSet(Texts) /\ s \in Text /\ t \in Text /\ \A u \in Texts : u \in Text
  BY TextsFinite
<1>b. Rank(s) = Cardinality(Below(s)) /\ Rank(t) = Cardinality(Below(t))
  BY RankCounts, CountSame
<1>1. IsFiniteSet(Below(s)) /\ IsFiniteSet(Below(t))
  BY <1>a, FS_Subset
<1>2. Rank(s) \in Nat /\ Rank(t) \in Nat
  BY <1>1, <1>b, FS_CardinalityType
<1>3. \A x, y \in Texts : TextLess(x, y) => Below(x) \subseteq Below(y)
  BY <1>a, TextLessTransitive
<1>4. ASSUME TextLess(s, t)
      PROVE  Rank(s) < Rank(t)
  <2>1. s \in Below(t) /\ s \notin Below(s)
    BY <1>4, <1>a, TextLessIrreflexive
  <2>2. Below(s) \subseteq Below(t)
    BY <1>3, <1>4
  <2> HIDE DEF Below
  <2>3. Cardinality(Below(s)) <= Cardinality(Below(t)) /\ Cardinality(Below(s)) # Cardinality(Below(t))
    BY <1>1, <2>1, <2>2, FS_Subset
  <2> QED
    BY <1>2, <1>b, <2>3
<1>5. ASSUME ~TextLess(s, t)
      PROVE  ~(Rank(s) < Rank(t))
  <2>1. Below(t) \subseteq Below(s)
    BY <1>3, <1>5, <1>a, TextLessTotal
  <2> HIDE DEF Below
  <2>2. Cardinality(Below(t)) <= Cardinality(Below(s))
    BY <1>1, <2>1, FS_Subset
  <2> QED
    BY <1>2, <1>b, <2>2
<1> QED
  BY <1>2, <1>4, <1>5

-----------------------------------------------------------------------------
(* The theorems *)

LEMMA AgentInvariant == Spec => []AgentInv
<1>1. AgentInv /\ [Next]_vars => AgentInv'
  BY LeastNatural, AgentInvStep
<1> QED
  BY <1>1, AgentInvInit, PTL DEF Spec

\* The certificates of a state make finitely many tie-breaks.
LEMMA InvRanks ==
  ASSUME AgentInv
  PROVE  RanksOrder
<1>1. IssuedOK
  BY IssuedIs DEF AgentInv, CertInv, IssuedOK
<1> QED
  BY <1>1, RankOrder

(***************************************************************************)
(* Everything an agent and its sources hold has its type: what Local reads *)
(* and publishes is of a renewal that was issued, and the loop never turns *)
(* to a provider that is not registered.                                   *)
(***************************************************************************)
THEOREM AgentTypeCorrect == Spec => []AgentTypeOK
<1>1. AgentInv => AgentTypeOK
  BY InvRanks, InvTypes
<1> QED
  BY <1>1, AgentInvariant, PTL

(***************************************************************************)
(* mergeEntries and ScanAll keep the first of the names that lead to the   *)
(* same certificate file, for any names in live/ and whatever certbot does *)
(* during the scan: since entries come in the order of the names, the      *)
(* first entry with a path is the one with the first name.                 *)
(***************************************************************************)
THEOREM AgentScanKeepsFirstName == Spec => []ScanKeepsFirstName
<1>1. AgentInv => ScanKeepsFirstName
  BY InvScan
<1> QED
  BY <1>1, AgentInvariant, PTL

(***************************************************************************)
(* A record never claims to be newer than the certificate it carries, for  *)
(* any history of certificates with ever newer versions and any            *)
(* interleaving of ReadLineage with certbot: the leaf is of a renewal that *)
(* is not later than the one of the bytes, and the serial, which alone the *)
(* leaf contributes to the tie-break, has no colon.                        *)
(***************************************************************************)
THEOREM AgentVersionNotAheadOfBytes == Spec => []VersionNotAheadOfBytes
<1>1. AgentInv => VersionNotAheadOfBytes
  BY InvRanks, InvNotAhead
<1> QED
  BY <1>1, AgentInvariant, PTL

(***************************************************************************)
(* The engine orders the records of an agent as bundle.Compare orders the  *)
(* bundles they were made of, for any certificates whose serials have the  *)
(* same number of digits: in the joined text the colon is then at the same *)
(* place.                                                                  *)
(***************************************************************************)
THEOREM AgentRecordOrderIsBundleOrder == Spec => []RecordOrderIsBundleOrder
<1>1. AgentInv => RecordOrderIsBundleOrder
  BY InvRanks, InvOrder
<1> QED
  BY <1>1, AgentInvariant, PTL
=============================================================================
