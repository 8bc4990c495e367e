-------------------------------- MODULE Agent --------------------------------
(***************************************************************************)
(* One agent and its sources: the modules it was started with              *)
(* (cmd/lbsync/main.go, internal/module, internal/modules/stubs) register  *)
(* their providers with the engine, whose single loop (Run and reconcile)  *)
(* ticks them one after the other, beside certbot and the operator.        *)
(***************************************************************************)
EXTENDS CertSource, BlobSource

CONSTANT
  Setups   \* what an agent may find: MODULES as a list of names, the strategy
           \* of the blob resource, and the certificates the CA will issue

ASSUME SetupsAssumption ==
  \A s \in Setups : /\ s.modules \in Seq(STRING)
                    /\ s.strategy \in {"mtime", "sha"}
                    /\ s.issued \in Seq(Certificate) /\ s.issued # <<>>

VARIABLES
  starting,    \* the modules startModules has still to start
  providers,   \* the providers registered with the engine, in order
  turn         \* the provider whose tick it is

loopVars == <<starting, providers, turn>>
vars == <<certVars, blobVars, budgetVars, loopVars>>

\* The modules that are only announced.
intents == {"acme-leader", "ratelimit", "ocsp", "pubsub", "health"}

\* The names for which init functions have registered a factory.
registry == {"certs", "blob"} \cup intents

\* Whether Start of a module registers a provider; that of a stub only logs.
Registers(m) == m \notin intents

\* Build instantiates all modules in order, or fails on an unknown name and
\* the process exits.
Build(names) == IF \A i \in DOMAIN names : names[i] \in registry THEN names ELSE <<>>

\* The next module is started.
startModules ==
  /\ starting # <<>>
  /\ starting' = Tail(starting)
  /\ providers' = IF Registers(Head(starting)) THEN Append(providers, Head(starting))
                                               ELSE providers
  /\ UNCHANGED <<certVars, blobVars, budgetVars, turn>>

\* The engine ticks provider p once all modules are started.
Ticks(p) == starting = <<>> /\ turn \in DOMAIN providers /\ providers[turn] = p

Enabled(kind) == \E i \in DOMAIN providers : providers[i] = kind

\* Variant of NextProvider that stays with the first.
FirstProvider == turn

\* reconcile goes through the providers in order; the next tick starts over.
NextProvider == IF turn = Len(providers) THEN 1 ELSE turn + 1

CertsTick ==
  /\ Ticks("certs")
  /\ CertStep
  /\ turn' = IF CertTickEnds THEN NextProvider ELSE turn
  /\ UNCHANGED <<blobVars, starting, providers>>

BlobTick ==
  /\ Ticks("blob")
  /\ BlobStep
  /\ turn' = IF PublishBlob THEN NextProvider ELSE turn
  /\ UNCHANGED <<certVars, starting, providers>>

\* certbot and the operator; files nobody reads are left alone.
Certbot ==
  /\ Enabled("certs")
  /\ \E d \in Dirs : StartRenewal(d) \/ ReplaceFile(d)
  /\ UNCHANGED <<blobVars, loopVars>>

Operator ==
  /\ Enabled("blob")
  /\ WriteSource \/ TimePasses
  /\ UNCHANGED <<certVars, loopVars>>

Init ==
  /\ \E s \in Setups : /\ starting = Build(s.modules)
                       /\ CertInit(s.issued)
                       /\ BlobInit(s.strategy)
  /\ BudgetInit
  /\ providers = <<>> /\ turn = 1

Next == startModules \/ CertsTick \/ BlobTick \/ Certbot \/ Operator

Spec == Init /\ [][Next]_vars

(***************************************************************************)
(* The modules are started and then the loop keeps ticking (Run), and      *)
(* certbot completes a renewal it has begun.                               *)
(***************************************************************************)
Completes == \E d \in Dirs : ReplaceFile(d) /\ UNCHANGED <<blobVars, loopVars>>

FairSpec ==
  Spec /\ WF_vars(startModules) /\ WF_vars(CertsTick) /\ WF_vars(BlobTick) /\ WF_vars(Completes)

-----------------------------------------------------------------------------
(* Safety *)

\* The version and the files of a bundle that was written as a whole.
Whole(g) == toRecord([p \in DOMAIN NoParts |-> g])

Published == {r \in {cluster[i] : i \in Names} \cup {recs[i] : i \in Names} : r # None}

CertRecord ==
  [version : Version, blobs : [Files -> DOMAIN issued \cup {None}],
   meta : {BundleVersion(issued[g], issued[h]) : g, h \in DOMAIN issued}]

LocalTypeOK ==
  /\ issued \in {s.issued : s \in Setups}
  /\ live \in [Dirs -> [Files -> DOMAIN issued \cup {None}]]
  /\ gen \in [Dirs -> DOMAIN issued]
  /\ pc \in {"idle", "scan", "read", "publish"}
  /\ pos \in 1 .. Len(LiveDir) + Len(Parts)
  /\ entries \in Seq([name : Names, path : {None} \cup (Dirs \X DOMAIN issued)])
  /\ found \subseteq {i \in Names : LiveDir[i] \in Dirs}
  /\ buf \in [DOMAIN NoParts -> DOMAIN issued \cup {None}]

CertTypeOK ==
  /\ LocalTypeOK
  /\ recs \in [Names -> CertRecord \cup {None}]
  /\ cluster \in [Names -> CertRecord \cup {None}]

BlobTypeOK ==
  /\ strategy \in {"mtime", "sha"}
  /\ now \in 0 .. MaxTime
  /\ source \in [data : Data \cup {None}, mtime : 0 .. now]
  /\ bpc \in {"idle", "stat", "publish"}
  /\ data \in Data \cup {None}
  /\ rec \in RecordOrNone /\ stored \in RecordOrNone

\* The types of all state of an agent and its sources.
AgentTypeOK ==
  /\ CertTypeOK
  /\ BlobTypeOK
  /\ starting \in Seq(registry)
  /\ providers \in Seq({"certs", "blob"}) /\ turn \in DOMAIN providers \cup {1}
  /\ BudgetTypeOK

(***************************************************************************)
(* mergeEntries and ScanAll: of the names that lead to the same            *)
(* certificate file the first is kept, no certificate is lost, and names   *)
(* without a usable certificate do not hide others.                        *)
(***************************************************************************)
ScanKeepsFirstName ==
  LET Scanned == {entries[i] : i \in DOMAIN entries}
      Leads(e) == /\ e.path # None
                  /\ \A d \in Scanned : d.path = e.path => e.name <= d.name
  IN ScanAll(entries) = {e.name : e \in {d \in Scanned : Leads(d)}}

\* Certificates are issued with ever newer versions.
RenewalsAreNewer ==
  \A g, h \in DOMAIN issued : g < h => Newer(Whole(h).version, Whole(g).version)

(***************************************************************************)
(* A record never claims to be newer than the certificate it carries,      *)
(* although ReadLineage reads cert.pem twice while certbot replaces it:    *)
(* the leaf that gives the version is read before the bytes.               *)
(***************************************************************************)
VersionNotAheadOfBytes ==
  RenewalsAreNewer =>
    \A r \in Published : ~Newer(r.version, Whole(r.blobs["cert"]).version)

\* No two serials differ in length.
SerialsAligned ==
  \A g, h \in DOMAIN issued : Len(issued[g].serial) = Len(issued[h].serial)

(***************************************************************************)
(* The engine orders records as bundle.Compare orders bundles, although    *)
(* toRecord folds serial and hash into one text: as long as serials have   *)
(* the same number of digits.  "1:..." is greater than "10:...".           *)
(***************************************************************************)
RecordOrderIsBundleOrder ==
  SerialsAligned =>
    \A r, s \in Published :
      Newer(r.version, s.version) <=> BundleNewer(r.meta, s.meta)

-----------------------------------------------------------------------------
(* Liveness *)

\* The first of the names that lead to a directory.
LeadingNames ==
  {i \in Names : LiveDir[i] \in Dirs /\ \A j \in Names : LiveDir[j] = LiveDir[i] => i <= j}

(***************************************************************************)
(* The cluster ends up with the newest certificate of every lineage,       *)
(* whatever renewals a read overlapped with: a mixed read that carries the *)
(* old version is superseded, and one that fails is repeated.              *)
(***************************************************************************)
CertificateCatchesUp ==
  \A i \in LeadingNames :
    <>[](Enabled("certs") /\ RenewalsAreNewer =>
           /\ cluster[i] # None
           /\ cluster[i].blobs["cert"] = live[LiveDir[i]]["cert"])

(***************************************************************************)
(* Every new modification time of the source file reaches the cluster,     *)
(* although the file may change or disappear between ReadFile and Stat.    *)
(* The bytes under it may be others: see NewestCopyWins.                   *)
(***************************************************************************)
MtimeCatchesUp ==
  <>[](Enabled("blob") /\ source.data # None =>
         stored # None /\ stored.version.primary = Mtime)

-----------------------------------------------------------------------------
(* What the documentation says, and the code does not do. *)

(***************************************************************************)
(* README.md: "Because the renewing node re-publishes its on-disk copy     *)
(* every tick, the newest copy always wins and the cluster can never       *)
(* permanently lose a value that exists on some node."                     *)
(***************************************************************************)
NewestBundleWins ==
  \A i \in LeadingNames :
    <>[](Enabled("certs") /\ RenewalsAreNewer =>
           cluster[i] # None /\ cluster[i].blobs = live[LiveDir[i]])

\* The same of a blob, whose newest copy is the one of the latest modification
\* time ("For blobs it is the source file mtime").
NewestBlobWins ==
  <>[](Enabled("blob") /\ strategy = "mtime" /\ source.data # None =>
         stored # None /\ stored.blobs = source.data)

\* The two as one claim, so that one behaviour refutes both.
NewestCopyWins == NewestBundleWins \/ NewestBlobWins
=============================================================================
