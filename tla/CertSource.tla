----------------------------- MODULE CertSource -----------------------------
(***************************************************************************)
(* Where the records of the certs provider come from: Local                *)
(* (internal/modules/certs/certs.go) scans certbot's live directory and    *)
(* reads every lineage file by file (internal/bundle, internal/cert) while *)
(* certbot may be replacing the files one by one; the record then goes     *)
(* through maybePublish.                                                   *)
(*                                                                         *)
(* The content of a file is the number of the renewal it belongs to.  The  *)
(* cluster is the newest-wins register of NewestWins, with one publisher.  *)
(***************************************************************************)
EXTENDS Discovery, Faults, FiniteSets

VARIABLES
  issued,    \* issued[g]: the certificate the CA issues at renewal g
  live,      \* live[d][f]: the content of file f of directory d, or None
  gen,       \* gen[d]: the renewal certbot last started for d
  pc,        \* where Local or the publishing after it is
  pos,       \* the next name to scan, or the next part to read
  entries,   \* the entries of the scan so far
  found,     \* the names still to be read; the first is next
  buf,       \* the parts of the lineage read so far
  recs,      \* the records of this tick, by name
  cluster    \* cluster[i]: the record the cluster holds for name i

certEnvVars == <<issued, live, gen>>
certVars == <<certEnvVars, pc, pos, entries, found, buf, recs, cluster>>

\* The number of a renewal is not None.
ASSUME ContentAssumption == None \notin Nat

Names == DOMAIN LiveDir
Files == {"cert", "key", "chain", "full"}

\* What ReadLineage reads, in its order: the certificate once to parse it and
\* once for its bytes.
Parts == <<"leaf", "cert", "key", "chain", "full">>
FileOf(part) == IF part = "leaf" THEN "cert" ELSE part
Required == {"leaf", "cert", "key"}

NoParts == [p \in {Parts[i] : i \in DOMAIN Parts} |-> None]
NoRecs == [i \in Names |-> None]

-----------------------------------------------------------------------------
(* Versions of bundles *)

Colon == 58

\* What the CA issues: the serial is a hexadecimal number.
Certificate ==
  [notBefore : Int, notAfter : Int, serial : Seq(Nat \ {Colon}), sha256 : Seq(Nat)]

\* strings.Compare(s, t) < 0 on sequences of character codes: at the first
\* difference s ends, or has a smaller character.
TextLess(s, t) ==
  \E i \in 1 .. Len(s) + 1 :
    /\ i \in DOMAIN t
    /\ \A j \in 1 .. i - 1 : s[j] = t[j]
    /\ i \in DOMAIN s => s[i] < t[i]

\* bundle.Version of a leaf that was read with the certificate bytes of c.
BundleVersion(leaf, c) ==
  [notBefore |-> leaf.notBefore, notAfter |-> leaf.notAfter,
   serial |-> leaf.serial, sha256 |-> c.sha256]

\* bundle.Newer, that is Compare(v, o) > 0.
BundleNewer(v, o) ==
  \/ v.notBefore > o.notBefore
  \/ v.notBefore = o.notBefore /\ v.notAfter > o.notAfter
  \/ /\ v.notBefore = o.notBefore /\ v.notAfter = o.notAfter
     /\ \/ TextLess(o.serial, v.serial)
        \/ o.serial = v.serial /\ TextLess(o.sha256, v.sha256)

\* Variant of TiebreakText with the parts the other way round.
TiebreakShaFirst(v) == v.sha256 \o <<Colon>> \o v.serial

\* The text toRecord makes of serial and hash.
TiebreakText(v) == v.serial \o <<Colon>> \o v.sha256

\* A text is represented by its rank among those that can occur.
Rank(t) ==
  LET texts == {TiebreakText(BundleVersion(issued[g], issued[h])) :
                  g, h \in DOMAIN issued}
  IN Cardinality({u \in texts : TextLess(u, t)})

\* toRecord: the version comes from the leaf, the hash from the bytes.
toRecord(b) ==
  LET v == BundleVersion(issued[b["leaf"]], issued[b["cert"]])
  IN [version |-> [primary |-> v.notBefore, secondary |-> v.notAfter,
                   tiebreak |-> Rank(TiebreakText(v))],
      blobs |-> [f \in Files |-> b[f]],
      meta |-> v]

-----------------------------------------------------------------------------
(* Local: the scan *)

Goto(where) == pc' = where

\* ReadDir of live/; a directory that is not there has no entries, and an
\* error leaves the tick without local records.
ReadLive ==
  /\ pc = "idle"
  /\ \/ NoFault /\ Goto("scan")
     \/ Fault("read") /\ Goto("publish")
  /\ UNCHANGED <<certEnvVars, pos, entries, found, buf, recs, cluster>>

\* The path resolveCertPath returns: the link of cert.pem leads to a file of
\* certbot's archive that belongs to one renewal.
resolveCertPath(d) ==
  IF live[d]["cert"] = None THEN None ELSE <<d, live[d]["cert"]>>

\* Variant of ScanEntry that counts names from zero.
ScanEntryFromZero ==
  /\ pc = "scan"
  /\ pos \in Names
  /\ pos' = pos + 1
  /\ entries' = Append(entries, Entry(pos - 1, None))
  /\ UNCHANGED <<certEnvVars, pc, found, buf, recs, cluster, budgetVars>>

\* One name of scanCertbotVerbose.
ScanEntry ==
  /\ pc = "scan"
  /\ pos \in Names
  /\ pos' = pos + 1
  /\ LET d == LiveDir[pos] IN
       entries' = CASE d = "README" -> entries
                    [] d = None -> Append(entries, Entry(pos, None))
                    [] OTHER -> Append(entries, Entry(pos, resolveCertPath(d)))
  /\ UNCHANGED <<certEnvVars, pc, found, buf, recs, cluster, budgetVars>>

\* The scan is complete: mergeEntries, and ScanAll drops what has an error.
ScanReturns ==
  /\ pc = "scan"
  /\ pos \notin Names
  /\ Goto("read")
  /\ pos' = 1
  /\ found' = ScanAll(entries)
  /\ UNCHANGED <<certEnvVars, entries, buf, recs, cluster, budgetVars>>

-----------------------------------------------------------------------------
(* Local: ReadLineage of one name after the other *)

Part == Parts[pos]
Lineage == CHOOSE i \in found : \A j \in found : i <= j
Content == live[LiveDir[Lineage]][FileOf(Part)]

\* The next lineage, with or without a record of this one.
NextLineage ==
  /\ found' = found \ {Lineage}
  /\ pos' = 1
  /\ buf' = NoParts

\* Variant of ReadPart that reads the bytes of the certificate before parsing
\* it.
ReadPartSwapped ==
  /\ pc = "read" /\ found # {}
  /\ LET part == IF pos = 1 THEN "cert" ELSE IF pos = 2 THEN "leaf" ELSE Part
         content == live[LiveDir[Lineage]][FileOf(part)]
         b == [buf EXCEPT ![part] = content] IN
       IF content = None /\ part \in Required
       THEN NextLineage /\ UNCHANGED recs
       ELSE IF pos = Len(Parts)
       THEN NextLineage /\ recs' = [recs EXCEPT ![Lineage] = toRecord(b)]
       ELSE buf' = b /\ pos' = pos + 1 /\ UNCHANGED <<found, recs>>
  /\ UNCHANGED <<certEnvVars, pc, entries, cluster, budgetVars>>

\* One file of ReadLineage (cert.Load, ReadFile, LoadKey, ReadFile twice): a
\* certificate or key that is not there, or does not parse, ends it with an
\* error and Local skips the lineage; the other two files may be missing.
ReadPart ==
  /\ pc = "read" /\ found # {}
  /\ LET b == [buf EXCEPT ![Part] = Content] IN
       IF Content = None /\ Part \in Required
       THEN NextLineage /\ UNCHANGED recs
       ELSE IF pos = Len(Parts)
       THEN NextLineage /\ recs' = [recs EXCEPT ![Lineage] = toRecord(b)]
       ELSE buf' = b /\ pos' = pos + 1 /\ UNCHANGED <<found, recs>>
  /\ UNCHANGED <<certEnvVars, pc, entries, cluster, budgetVars>>

LocalReturns ==
  /\ pc = "read" /\ found = {}
  /\ Goto("publish")
  /\ entries' = <<>>
  /\ UNCHANGED <<certEnvVars, pos, found, buf, recs, cluster, budgetVars>>

-----------------------------------------------------------------------------
(* The rest of the tick, as far as the cluster sees it *)

\* maybePublish of one record.
PublishLineage ==
  /\ pc = "publish"
  /\ \E i \in Names :
       /\ recs[i] # None
       /\ recs' = [recs EXCEPT ![i] = None]
       /\ cluster' = IF MustPublish(recs[i], cluster[i])
                     THEN [cluster EXCEPT ![i] = recs[i]] ELSE cluster
  /\ UNCHANGED <<certEnvVars, pc, pos, entries, found, buf, budgetVars>>

CertTickEnds ==
  /\ pc = "publish" /\ recs = NoRecs
  /\ Goto("idle")
  /\ UNCHANGED <<certEnvVars, pos, entries, found, buf, recs, cluster, budgetVars>>

CertStep ==
  \/ ReadLive \/ ScanEntry \/ ScanReturns \/ ReadPart \/ LocalReturns
  \/ PublishLineage \/ CertTickEnds

-----------------------------------------------------------------------------
(* certbot *)

\* A renewal of a directory whose files are complete.
StartRenewal(d) ==
  /\ \A f \in Files : live[d][f] = gen[d]
  /\ gen[d] < Len(issued)
  /\ Renewal
  /\ gen' = [gen EXCEPT ![d] = @ + 1]
  /\ UNCHANGED <<issued, live, pc, pos, entries, found, buf, recs, cluster>>

\* It replaces one file after the other, in any order; a file is gone before
\* the new one is there.
ReplaceFile(d) ==
  /\ \E f \in Files :
       /\ live[d][f] # gen[d]
       /\ \A g \in Files \ {f} : live[d][g] # None
       /\ live' = [live EXCEPT ![d][f] = IF @ = None THEN gen[d] ELSE None]
  /\ UNCHANGED <<issued, gen, pc, pos, entries, found, buf, recs, cluster, budgetVars>>

CertInit(history) ==
  /\ issued = history
  /\ live = [d \in Dirs |-> [f \in Files |-> 1]]
  /\ gen = [d \in Dirs |-> 1]
  /\ pc = "idle" /\ pos = 1 /\ entries = <<>> /\ found = {}
  /\ buf = NoParts /\ recs = NoRecs /\ cluster = NoRecs
=============================================================================
