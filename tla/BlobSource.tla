----------------------------- MODULE BlobSource -----------------------------
(***************************************************************************)
(* Where the record of a blob resource comes from: Local                   *)
(* (internal/modules/blob/blob.go) reads the bytes of the source file and  *)
(* then asks for its modification time, while the operator may be writing  *)
(* it; the record then goes through maybePublish.                          *)
(*                                                                         *)
(* Bytes are represented by the rank of their hash.                        *)
(***************************************************************************)
EXTENDS Versions, Faults

CONSTANTS
  Data,             \* the contents the operator writes, as ranks of their hashes
  MaxTime,          \* the last instant at which a file is written
  TicksPerSecond    \* instants in a second

VARIABLES
  strategy,   \* the configured strategy: "mtime" or "sha"
  now,        \* the time
  source,     \* the source file: its content (None when it does not exist) and mtime
  bpc,        \* where Local or the publishing after it is
  data,       \* the bytes ReadFile returned
  rec,        \* the record Local built
  stored      \* the record the cluster holds

blobEnvVars == <<strategy, now, source>>
blobVars == <<blobEnvVars, bpc, data, rec, stored>>

\* Time.Unix: whole seconds.
Unix(t) == t \div TicksPerSecond

BlobRecord(primary, d) ==
  [version |-> [primary |-> primary, secondary |-> 0, tiebreak |-> d], blobs |-> d]

\* Time starts with the second second, and Records has what Local can build.
ASSUME BlobAssumption ==
  /\ TicksPerSecond \in Nat \ {0} /\ MaxTime \in Nat /\ TicksPerSecond <= MaxTime
  /\ \A t \in 0 .. MaxTime, d \in Data : BlobRecord(t, d) \in Records

\* The modification time as a record would carry it.
Mtime == IF strategy = "sha" THEN 0 ELSE Unix(source.mtime)

\* ReadFile; a source that cannot be read is skipped.
ReadSource ==
  /\ bpc = "idle"
  /\ \/ /\ source.data # None
        /\ NoFault
        /\ data' = source.data
        /\ bpc' = "stat"
     \/ /\ IF source.data = None THEN NoFault ELSE Fault("read")
        /\ bpc' = "publish"
        /\ UNCHANGED data
  /\ UNCHANGED <<blobEnvVars, rec, stored>>

\* Variant of StatSource that leaves Primary unset.
StatIgnored ==
  /\ bpc = "stat"
  /\ bpc' = "publish"
  /\ rec' = BlobRecord(0, data)
  /\ data' = None
  /\ UNCHANGED <<blobEnvVars, stored, budgetVars>>

\* Stat of the file as it is now; when it fails Primary stays zero.
StatSource ==
  /\ bpc = "stat"
  /\ bpc' = "publish"
  /\ rec' = BlobRecord(IF source.data = None THEN 0 ELSE Mtime, data)
  /\ data' = None
  /\ UNCHANGED <<blobEnvVars, stored, budgetVars>>

\* maybePublish; the tick ends.
PublishBlob ==
  /\ bpc = "publish"
  /\ bpc' = "idle"
  /\ rec' = None
  /\ stored' = IF MustPublish(rec, stored) THEN rec ELSE stored
  /\ UNCHANGED <<blobEnvVars, data, budgetVars>>

BlobStep == ReadSource \/ StatSource \/ PublishBlob

-----------------------------------------------------------------------------
\* The operator replaces or removes the file, or time passes.
WriteSource ==
  /\ Renewal
  /\ \E d \in Data \cup {None} :
       /\ d # source.data
       /\ source' = [data |-> d, mtime |-> IF d = None THEN source.mtime ELSE now]
  /\ UNCHANGED <<strategy, now, bpc, data, rec, stored>>

TimePasses ==
  /\ now < MaxTime
  /\ now' = now + 1
  /\ UNCHANGED <<strategy, source, bpc, data, rec, stored, budgetVars>>

BlobInit(configured) ==
  /\ strategy = configured
  /\ now = TicksPerSecond
  /\ source = [data |-> None, mtime |-> 0]
  /\ bpc = "idle" /\ data = None /\ rec = None /\ stored = None
=============================================================================
