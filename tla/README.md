# lbsync in TLA+

A verification project for [lbsync](../src/README.md), an agent that runs on
every load balancer of a fleet and keeps certificates and other files at their
newest version everywhere. It contains TLA+ modules translated from the Go code,
TLC configurations that check them on small instances, and TLAPS proofs of the
properties that matter most for instances of any size.

## The system

**Parts and their state**

| part | code | state | operations |
| --- | --- | --- | --- |
| reconcile engine | `internal/engine` | the locals of a tick: local records, keys to visit, answer of Get, changed keys | tick: Local, Keys, then per key Get, maybePublish (Lock, Get, Put, release), Apply; Flush; Rollback |
| Olric backend | `internal/cluster` | a distributed map per kind: records, a key index, locks | Get, Put + addToIndex, Keys, Lock, release |
| WAN backend | `internal/wan` | an in-memory store per node, pushes under way | Get (own store, then peers), Put (own store, then a push per peer), Keys, handlePutRecord |
| blob provider | `internal/modules/blob` | source file and its modification time, destination file, `.bak`, what is loaded | Local (bytes, then Stat), Apply, Flush (a hook per resource), Rollback |
| certs provider | `internal/modules/certs`, `internal/bundle`, `internal/cert` | four files and their `.bak` per lineage, what is loaded, the expiry gauge | Local (scan, then ReadLineage file by file), Apply (file by file), Flush (one hook), Rollback (RestoreDir) |
| discovery | `internal/discovery` | the entries of a scan of `live/` | scan, mergeEntries, ScanAll |
| atomic files | `internal/atomicfile` | a file and its backup | WriteAtomic, Restore, RestoreDir |
| hook | `internal/hook` | none | verify, then reload |
| agent | `cmd/lbsync`, `internal/module`, `internal/modules/stubs` | the process, its registered providers | startModules, reconcile over the providers, stop |
| codec, TLS, other metrics | the other packages | none that the protocol depends on | |

**How they interact.** On every node the engine ticks through each provider. A
tick reads the source files, asks the backend for the known keys, and for each
key reads the cluster's record, publishes the local one if it is strictly newer
(re-checking under a lock), and applies the newer of the local record and the
record read *before* the publish. If a file changed, the hook runs; if it fails,
the changed keys are rolled back. Nodes interact only through the backend: the
Olric map on a LAN, pushes and queries over HTTPS on a WAN.

**What makes it hard.** Publishers on several nodes interleave between Get, Lock,
Get and Put. Locks expire, and failing to obtain one does not stop the publish.
The key index is a read-modify-write. The record is stored before the index is.
A record read before the publish is used after it. Pushes are lost, delayed and
reordered, and not repeated. Stores and the map are in memory. Certificate and
key are separate files, written one by one by the agent and by certbot, and read
one by one while certbot writes. A blob's bytes and its time are two reads.
Backups outlive the tick that made them. Any call may
fail and most errors are ignored, on the ground that the next tick repairs the
damage, so correctness is to a large part a liveness question. `PROJECT.json`
lists each of these hazards at the line where it bites.

## Modules

| module | models | extends |
| --- | --- | --- |
| `Versions` | `Version.Newer`, `pickNewer`, the test of `maybePublish` | |
| `Faults` | the budget of faults and renewals (no code) | |
| `Deployment` | nodes, keys, which node is configured with and originates what | `Versions`, `Faults` |
| `AtomicFile` | `internal/atomicfile` for one file | `Versions` |
| `BlobProvider` | the blob provider and the hook | `Deployment`, `AtomicFile` |
| `Engine` | tick, gatherKeys, maybePublish; crash and restart of the process | `BlobProvider` |
| `Olric` | the LAN backend | `Deployment` |
| `NewestWins` | the abstract specification: registers that only a newer record replaces | `Versions` |
| `LanSystem` | engine and blob provider on every node over `Olric` | `Engine`, `Olric` |
| `WanSystem` | engine and blob provider on every node over the WAN backend | `Engine` |
| `CertStore` | how the certs provider writes, file by file, on one node | `AtomicFile`, `Faults` |
| `Discovery` | entries of a scan, `mergeEntries`, `ScanAll` | `Versions` |
| `CertSource` | how the certs provider reads: the scan, `ReadLineage`, `toRecord`, `bundle.Compare`, beside certbot | `Discovery`, `Faults` |
| `BlobSource` | how a blob's record comes about, beside the operator | `Versions`, `Faults` |
| `Agent` | one agent: its modules, and the loop over the providers of `CertSource` and `BlobSource` | `CertSource`, `BlobSource` |
| `MCLan`, `MCWan`, `MCCert`, `MCAgent` | the instances TLC checks | |
| `EngineProofs`, `LanProofs`, `ConsistencyProofs`, `ServedProofs`, `WanProofs`, `WanStoreProofs`, `CertProofs`, `AgentProofs` | theorems | |

`Engine` does not know its backend. Where the code calls `ClusterKV` its action
takes the answer as a parameter (`GetRecord(n, k, r)`, `Recheck(n, cur)`), and
`LanSystem` or `WanSystem` conjoins it with what the backend may answer. `pc[n]`
follows the control flow of `tickProvider` and `maybePublish`; one step is one
call that another node, the operator or a crash can interleave with.

The deployments (`LanSystem`, `WanSystem`) take the record of a source file as
given and replace it in one step; `Agent` shows where that record comes from. It
takes the rest of the tick in one step per record, which is what the refinement
of `NewestWins` allows: to a publisher the cluster is a register that takes a
record if it is newer.

**The abstract specification.** `NewestWins` says what both backends promise the
engine: registers in memory that only a strictly newer record replaces, and that
are forgotten with the last process that holds them. `LanSystem` maps one
register per key, held by all nodes, to `dmap`; `WanSystem` one register per node
and key, held by that node, to `store`. `ImplementsNewestWins` is the abstract
specification under that mapping. Where the promise is not made (locks that do
not hold, two origins of a key: the runs below show it broken) the mapping takes
the registers to be empty, and only the processes are related.

**What is abstracted**

- A record is a version and blobs. The tie-break, a string that is only ever
  compared, is its rank. Bytes are represented by `blobs`, so two records with
  equal blobs are the same bytes. gob encoding is left out.
- The Olric library is represented by what `cluster.go` relies on: atomic Get and
  Put, NX locks with a time to live, replication to all members (the default of
  `buildClusterConfig`). A failed write may still have happened. An entry may be
  lost as a fault (kind `lose`), and the last member to stop takes everything.
  Partitions and stale replicas are not modelled.
- The commands of the hook succeed or fail; a reload that fails loads nothing.
- In `CertStore` the other nodes are reduced to the record the cluster holds for
  a lineage: they publish newer ones, and it can be lost. Local, Keys, Get,
  maybePublish and pickNewer of this node are there; the lock around re-check and
  Put is the subject of `LanSystem`, so the two are one step. certbot's bundles
  come as a whole (`CertSource` shows how they are read) and can be removed.
- Hooks of blob resources are modelled as `blob.go` calls them. The shipped agent
  sets none (`parseBlobResources` in `main.go`), so there only the certs module
  can have a failing hook, and `CertStore` is about that one.
- In the deployments a node has one provider. Providers of different kinds tick
  one after the other (`Agent`) and use separate maps, so they do not interact.
- In `CertSource` the content of a file is the number of the renewal it belongs
  to, and a name in `live/` its position in the order of `ReadDir`. Serial and
  hash are sequences of character codes, because `toRecord` joins them to one
  text. certbot replaces the links of a lineage in any order, each missing for a
  moment, and finishes a renewal before the next.
- In `BlobSource` bytes are the rank of their hash, and time counts instants of
  which several make a second.
- Shutdown is a crash: `run` cancels the context and exits without waiting for
  the engine, and nothing is saved. `Restart=on-failure` restarts a process that
  failed; one that ended on SIGTERM stays down until the operator starts it. Both
  are the one pair of actions Crash and Restart.
- `LockWithTimeout` returns an error at its deadline. addToIndex waits 5 seconds
  for a lock that lives 10, so it goes on without an index lock whose holder has
  stopped: that is no fault. maybePublish waits as long as its lock lives.

**Faults.** A step that is a fault names its kind (`Fault("get")`). A behaviour
begins with the choice of a scenario, the set `allowed` of kinds that may happen
in it, from the `FaultScenarios` of the instance; `MaxFaults` says how many may
happen. A property that does not tolerate every kind says so itself, as in
`NoFaultsOf({"crash"}) => ...`, so one run checks several properties, each in the
scenarios it is about, and liveness is about what happens after the last fault.

| kind | meaning |
| --- | --- |
| `crash` | the process stops, anywhere |
| `lock`, `unlock` | a lock is not obtained or expires under its holder; a release fails |
| `get`, `keys` | a read of a record or of the key list fails |
| `put`, `index` | storing a record, reading or storing the index fails |
| `lose` | entries of the map, records of the cluster, or a push are lost |
| `read`, `apply` | a source file cannot be read; a write to the disk fails |
| `nobackup` | the file to be replaced cannot be read, and is replaced without a backup |
| `hook`, `restore` | verify or reload fails; a rename of a rollback fails |

**Fairness.** Each engine keeps taking steps (`Run` ticks until the process ends),
a stopped process is started again (`Restart=on-failure` in
`deploy/lbsync.service`, or the operator), the lock of a key that nobody releases
expires before those who wait for it give up, a push that is not lost
is delivered, and certbot completes a renewal it has begun. That an abandoned
index lock expires is not assumed: its waiters give up first. That a query to a
WAN peer ends is the timeout of the HTTP client (`wan.go:129`), and that a hook
ends its context's. Weak fairness is
enough: none of these is repeatedly disabled by others for ever, because an
obtained lock is released or expires. Nothing obliges a source file to change, a
renewal to begin or a fault to happen.

**Variants.** A definition introduced as "Variant of ..." is the code with a
plausible mistake. It is not used by any specification. For each property,
`PROJECT.json` names a variant that TLC must find in violation of it.

## Runs

The deployments have two nodes or one, one or two keys, one or two
versions (equal but for the tie-break, the last thing `pickNewer` compares; the
proofs are about any set of records), at most one renewal and at most two faults
at any place. Two nodes are enough for every interaction in the code that is between
one publisher and another or between a sender and a receiver; what a third node
could add (an answer of a second peer that is itself behind) is covered by the
proofs, which are for any number of nodes, as far as safety goes. Two keys are
used where keys share something (the index, a Flush). The scenarios of a cfg are
such that every property of the run has one with the faults it tolerates.
`lan_safety` treats its nodes as interchangeable: both are configured with the
same key and may find any record in their source file, and the run checks no
liveness.

`cert_store` has two lineages, one with a source on the node and one that only
others publish, two bundles of which one has no chain, one renewal or
publication, and two faults. `cert_rollback` has three bundles, of which two share
a key, and three publications.

The agent runs have a `live/` with a lineage, a second name for it, a plain file
and the README; two certificates per lineage, whose hashes go up or down, which
differ in the serial only, or whose serials have different lengths; two contents
of a blob; and four instants in two seconds. Two renewals let a second write fall
between any two reads of the first.

| run | properties | shows |
| --- | --- | --- |
| `lan_safety` | `TypeOK`, `PublishSafe`, `ClusterNeverRegresses` | lock, re-check and Put act as one, with a crash or a failing Put, release or index update at any step |
| | `ImplementsNewestWins` | engine and map implement `NewestWins` where locks hold |
| | `ServedInCluster`, `ServedNeverRegresses` | the stale answer of Get never makes a node serve something older, except by rollback |
| | `LoadedMatchesDisk` | failed hooks leave nothing on disk that is not loaded, once something was loaded (one resource) |
| `lan_two_keys` | `IndexCoversRecords` | concurrent index updates are not lost |
| | `LoadsSettle` | as `LoadedMatchesDisk`, eventually, for two resources that are rolled back together |
| `lan_liveness` | `EveryoneServesNewest` | every node ends up with the cluster's record, if it is listed in the index |
| | `ClusterCatchesUp`, `TickTerminates` | "the cluster can never permanently lose a value that exists on some node" (`src/README.md`), and no tick hangs |
| `wan_single_origin` | `TypeOK`, `ImplementsNewestWins` | with one origin per key, the stores implement `NewestWins` |
| | `PeersFollowOrigin` | nobody is ahead of the origin |
| | `WanTickTerminates` | unreachable peers do not hang a tick |
| | `WanCatchesUp` | with one origin, without lost pushes and crashes, every node catches up |
| `cert_store` | `CertTypeOK`, `ReloadsMatchingPair` | certificate and key are loaded from one bundle, unless a write or a call of the cluster fails |
| | `ReplacedFilesRestored` | a rollback whose renames succeed restores what the tick replaced, unless a write failed |
| | `TickLeavesNothingUnloaded` | what a killed process left unloaded is all that a tick can leave unloaded |
| | `ServesBest` | the winning bundle ends up on disk whatever fails |
| | `FilesGetLoaded` | a half-failed Apply is completed and loaded, without failing hooks, crashes and lost records |
| | `GaugeShowsServed` | the expiry gauge ends up that of the served certificate, without restarts and lost records |
| `agent_sources` | `AgentTypeOK`, `ScanKeepsFirstName` | of the names that lead to a certificate file the scan keeps the first, whatever is in between |
| | `VersionNotAheadOfBytes` | a bundle read during a renewal never has a version newer than its certificate |
| | `RecordOrderIsBundleOrder` | the engine's order of records is `bundle.Compare`, for serials of one length |
| | `CertificateCatchesUp` | the newest certificate ends up in the cluster |
| | `MtimeCatchesUp` | the source file's modification time ends up in the cluster |

Six runs check what a comment or the README of the repository says and find that
the code does something else; the findings in `PROJECT.json` quote them.

| run | property | what happens |
| --- | --- | --- |
| `lan_index_repair` | `IndexConverges` | an index update that failed is never repeated |
| `wan_missed_push` | `MissedFanOutCorrected` | a lost push is never repeated |
| `wan_two_origins` | `ConcurrentOriginsConverge` | two origins of a key can disagree for ever |
| `cert_rollback` | `RollbackUndoesTick` | a rollback also restores backups of earlier ticks, and what an Apply wrote before it failed is not rolled back |
| `cert_first_reload` | `FailedReloadRetried` | a reload that fails on the first write of a lineage is not retried |
| `agent_newest_copy` | `NewestCopyWins` | a new certificate read with an old key is published and never replaced, the correct bundle having the same version; a blob's old bytes published with the new time win for ever if their hash is larger |

The last and the third to last state two claims as a disjunction, so that TLC has
to find a behaviour that refutes both.

**Limits of the properties.** Each states the faults it does not tolerate; they
really break it. `PublishSafe` and the LAN's `ImplementsNewestWins` need locks
that do not expire under their holder and an answered re-check.
`IndexCoversRecords` needs Put not to fail half way, and no index lock left
behind by a crash or a failed release, since the next publisher goes on without
it. `EveryoneServesNewest` rests on the index and needs the same. `LoadedMatchesDisk` is about
one resource, since a failing hook of one rolls back a second that is already
loaded, and about processes that are not killed between Apply and Flush, since
the next process finds nothing changed. `TickLeavesNothingUnloaded` allows for
exactly that: it bounds what stays unloaded and does not say it gets loaded.
`ReloadsMatchingPair` needs Apply and the cluster not to fail: a lineage
left half-written, or skipped after a crash because its record is not found or
listed, is loaded as it is when another lineage of the same tick runs the hook;
the next ticks complete it (`ServesBest`). `ReplacedFilesRestored` needs the
writes of the tick to succeed (`cert_rollback`) and the replaced files to be
readable, for there is no backup otherwise. `ServedInCluster` and `ServedNeverRegresses` need a cluster that
keeps what was published. `WanCatchesUp` needs processes that keep running: a
peer that restarts between two pushes can miss the newer one, accept the older
one, and keep it. `VersionNotAheadOfBytes` and `CertificateCatchesUp` are about
certificates that are issued with ever newer versions. `RecordOrderIsBundleOrder`
needs serials of one length: `1:...` comes after `10:...`, since a colon is
greater than the digits, although `src/README.md` names the serial before the
hash. `ScanKeepsFirstName` and
`CertificateCatchesUp` say nothing of a second name of a lineage under which a
scan in the middle of a renewal has published a record: later scans merge the
name away, and the record stays as it is.

## Proofs

All theorems are for every number of nodes, keys, lineages, records, names,
certificates and faults.

| module | theorem | states |
| --- | --- | --- |
| `EngineProofs` | `PickNewerIsNewest` | and before it: `Newer` is asymmetric, transitive and total, "not newer than" a preorder with nil at the bottom |
| | lemmas | each step of the engine keeps the types and `KeyInScope` (the engine has a key wherever it uses one), whatever the backend answers |
| `LanProofs` | `LanTypeCorrect` | `LanSpec => []TypeOK` |
| | `LanPublishSafe`, `LanClusterNeverRegresses` | `LanSpec => []PublishSafe`, `LanSpec => ClusterNeverRegresses` |
| | `LanImplementsNewestWins` | `LanSpec => ImplementsNewestWins` |
| `ConsistencyProofs` | `LanIndexCoversRecords` | `LanSpec => []IndexCoversRecords` |
| | `LanLoadedMatchesDisk` | `LanSpec => []LoadedMatchesDisk` |
| `ServedProofs` | `LanServedInCluster`, `LanServedNeverRegresses` | `LanSpec => []ServedInCluster`, `LanSpec => ServedNeverRegresses` |
| `WanProofs` | `WanTypeCorrect` | `WanSpec => []TypeOK` |
| `WanStoreProofs` | `WanImplementsNewestWins` | `WanSpec => ImplementsNewestWins` |
| | `WanPeersFollowOrigin` | `WanSpec => []PeersFollowOrigin` |
| `CertProofs` | `CertTypeCorrect` | `Spec => []CertTypeOK` |
| | `CertReloadsMatchingPair`, `CertReplacedFilesRestored` | `Spec => []ReloadsMatchingPair`, `Spec => []ReplacedFilesRestored` |
| | `CertTickLeavesNothingUnloaded` | `Spec => TickLeavesNothingUnloaded` |
| `AgentProofs` | `AgentTypeCorrect` | `Spec => []AgentTypeOK` |
| | `AgentScanKeepsFirstName` | `Spec => []ScanKeepsFirstName` |
| | `AgentVersionNotAheadOfBytes` | `Spec => []VersionNotAheadOfBytes` |
| | `AgentRecordOrderIsBundleOrder` | `Spec => []RecordOrderIsBundleOrder` |

**Publishing on a LAN.** `PublishSafe` is `LocksHold => Protected`, where
`LocksHold` says that the scenario has no faults of kind `lock`, `get` and
`lose`. The inductive invariant is `PublishInv`, the types and `PublishSafe`: no
step changes the scenario (`AllowedStep`), and where locks hold every step keeps
`LanInv`, the types and `Protected`. What matters, `RecheckStillHolds` (a node
about to store a record still finds it newer than the stored one), is not
inductive alone: another node's Put could change the record. `CriticalSection`
says that a node from the re-check to the release has its key's lock among those
it has to release, and `LockOwned` that such a lock is its own. Together they
give mutual exclusion, so a Put of another node is about another key. Crashes
preserve it because the lock stays behind until it expires, and because only the
last member to stop, when nobody is publishing, clears the lock table. The
action property and the refinement follow: only Put changes a record, it acts on
`RecheckStillHolds`, and the map is emptied with the last process only.

**The index.** The same `LockOwned`, for the lock of the index, is the core of
`IndexInv`: from its read to its release addToIndex holds the lock, so the list
it read is still the index when it writes the extended one back, and the key is
listed before Put returns. Nobody goes on without the lock because none is ever
abandoned (`LocksTight`: a lock that is taken is one its holder has to release),
without crashes and failing releases.

**What is loaded.** `LoadedMatchesDisk` is about the moments between ticks, so
`LoadsInv` says what is loaded in the middle of one, for a node with one resource
(`NodeLoads`). A change is *unanswered* from Apply until its hook succeeds or its
rollback restores the file; while it is, the load balancer runs the backup, and
otherwise the file. That each change is answered before the tick ends needs the
bookkeeping of `tickProvider`: the loop visits the resource once, `changed` and
the keys still to be flushed or rolled back are no others, and an error of Flush
leads to the rollback.

**What is served.** Apply takes the newer of the local record and an answer of
Get that others may have overtaken. `ServedInv` therefore says for every node
(`NodeServed`) that the files, their backups and that answer are at most as new as
the cluster's record now; that the served file is at most as new as that answer;
and that the local record, once maybePublish is past it, is in the cluster or
superseded there. The second makes Apply never go back, the first and the third
make it never run ahead.

**The WAN.** A push is guarded where it arrives; the write of Put is not, and
rests on the re-check before it. `WanInv` says that the answer of the re-check
still holds (`Fresh`), which needs that nobody else writes to the store of a
publisher: only an origin has records of its own (`SourcesOnly`), pushes come
from an origin and go to others (`PushesFromOrigin`), and there is one origin.
`PeersFollowOrigin` is inductive together with `WanInv`.

**Certificates.** `CertInv` follows the files through a tick. `WriteInv`: up to
the hook, what was replaced has its previous content in the backup, if it could be
read, and everything
else is as it was. `RollbackInv`: during a rollback each replaced file of a
changed lineage is back, or its backup still waits to be renamed. `ChangedInv`:
without failing writes a replaced file belongs to a lineage that counts as
changed, or to the one at hand. `PairInv`: a lineage the loop has visited holds a
certificate and a key of one bundle, and one it has still to visit has a record,
so that it is not skipped. It needs `OwnedInv`, that a lineage the cluster does
not hold has no files, because the loop may not visit it: Apply comes after
maybePublish, and where Put succeeds and nothing is lost a record in the cluster
stays there. That is why a source that is removed or unreadable does no harm.

**Sources.** `AgentInv` follows a tick of `CertSource` while certbot runs.
`ScanInv`: entries come in the order of the names, so the first entry with a path
is the one with the first name. `ReadInv`: once the leaf is read, it is not ahead
of the last renewal begun nor of the certificate that is in the directory now,
whatever certbot has replaced since; hence not ahead of the bytes that are read
next. That needs `FilesInv`, that no file is ahead of the last renewal begun.
`RecordsInv` carries this into records (`ReadRecords`): each is `toRecord` of a
leaf of renewal g and bytes of renewal h, and g is not later than h.

What that means for versions is a matter of texts, because the tie-break is the
serial, a colon and the hash. `TextLess` is shown to be irreflexive, transitive
and total, for texts of any length; `RankOrder`, that the rank of a text among
finitely many is a faithful image of that order. (The lemmas before it take that
fact as a hypothesis, `RanksOrder`, and the least element of a set of naturals as
`NaturalsHaveLeast`; both are proved at the end of the module, where the library
on finite sets is instantiated, and no theorem assumes them.) `AlignedOrder`: joined texts
with serials of one length compare as the pairs do, which is
`RecordOrderIsBundleOrder`. `SerialDecides`: if the text of a newer certificate
is greater and the serials differ, replacing the hash in the older one's text
does not change that, since a serial has no colon. So a leaf of an earlier
renewal never makes a version newer than that of the bytes, which is
`VersionNotAheadOfBytes`.

The theorems assume of the constants only what the `ASSUME`s say: nil is not a
record, a key or a lineage, records have versions with integer parts, a bundle
has a certificate and a key (`ReadLineage` returns no other), budgets are
naturals, sources are among the configured resources and the lineages, a node is not its own
peer, and the reserved lock key is no resource; a name in `live/` is a directory,
the README or something else, serials have no colon (`SerialNumber.Text(16)`),
there is a first certificate, a file's content is not "missing", time is counted
in whole instants, and the set of records contains what a blob's `Local` can
build. `MaxFaults` and `MaxRenewals` are
arbitrary.

Every invariant and action property of the passing runs, and the refinement of
`NewestWins` by both backends, is proved. Only model-checked are the liveness
properties (`LoadsSettle`, `ClusterCatchesUp`, `EveryoneServesNewest`,
`TickTerminates`, `WanCatchesUp`, `WanTickTerminates`, `ServesBest`,
`FilesGetLoaded`, `GaugeShowsServed`, `CertificateCatchesUp`, `MtimeCatchesUp`):
they rest on fairness, which is beyond the prover.

## Not modelled

- TLS set-up (`internal/wan/tls.go`) and the gob codec: they run once, or encode
  and decode with the standard library, and have no state the protocol changes.
- Decoding of PEM and X.509 (`internal/cert`): whether it succeeds is modelled,
  how it does is the standard library's. `PrimaryDomain` only labels a record.
- Configuration parsing and the HTTP server in `cmd/lbsync`, and the metrics
  other than the expiry gauge: nothing in the agent reads them back.
- `Members` and ping, which feed a gauge.
- Partitions of the Olric cluster and stale replicas: what the library then
  answers is not determined by this repository.
