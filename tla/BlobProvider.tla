---------------------------- MODULE BlobProvider ----------------------------
(***************************************************************************)
(* One newest-wins provider on every node: the blob module                 *)
(* (internal/modules/blob/blob.go) on top of internal/atomicfile and       *)
(* internal/hook.  A resource has a source file (its input), a destination *)
(* file with at most one ".bak" beside it, and a verify-then-reload hook.  *)
(*                                                                         *)
(* File contents are represented by the record whose bytes they are; two   *)
(* records with equal blobs are the same bytes.                            *)
(***************************************************************************)
EXTENDS Deployment, AtomicFile

VARIABLES
  local,    \* local[n][k]: the source file of resource k on node n, or None
  disk,     \* disk[n][k]: the destination file and its backup
  loaded    \* loaded[n][k]: what the load balancer of n last reloaded for k

providerVars == <<local, disk, loaded>>

Disk == [file : RecordOrNone, bak : RecordOrNone]

SameBytes(a, b) == a # None /\ b # None /\ a.blobs = b.blobs

WriteTo(d, r) == WriteAtomic(d, r, SameBytes(d.file, r))

-----------------------------------------------------------------------------
(* The provider's operations. *)

\* Local: the records of the readable source files.
Local(n, unreadable) ==
  [k \in Keys |-> IF k \in unreadable THEN None ELSE local[n][k]]

\* Apply: a resource that is not configured here is skipped.
Apply(n, k, r) ==
  IF k \in Configured[n]
  THEN disk' = [disk EXCEPT ![n][k] = WriteTo(disk[n][k], r)]
  ELSE UNCHANGED disk

\* Apply when the destination file exists and cannot be read.
ApplyUnread(n, k, r) ==
  /\ k \in Configured[n] /\ disk[n][k].file # None
  /\ disk' = [disk EXCEPT ![n][k] = WriteUnread(@, r)]

\* Apply returning an error: the engine moves on to the next key.
ApplyFailed(n, k, r) ==
  /\ k \in Configured[n]
  /\ \E d \in WriteAtomicFailed(disk[n][k], SameBytes(disk[n][k].file, r)) :
       disk' = [disk EXCEPT ![n][k] = d]

\* Whether Apply(n, k, r) reports a change.
Changes(n, k, r) == k \in Configured[n] /\ ~SameBytes(disk[n][k].file, r)

\* The hook of resource k: verify, and only if it passed, reload.  A reload that
\* fails is taken to have loaded nothing.  The agent as shipped configures no
\* hooks for blobs (parseBlobResources sets neither Verify nor Reload): for it
\* every outcome is "ok".
HookOutcomes == {"ok", "verify_failed", "reload_failed"}

RunHook(n, k, outcome) ==
  loaded' = IF outcome = "ok"
            THEN [loaded EXCEPT ![n][k] = disk[n][k].file]
            ELSE loaded

\* Rollback of one key.
Rollback(n, k) ==
  disk' = [disk EXCEPT ![n][k] = Restore(disk[n][k])]

-----------------------------------------------------------------------------
ProviderTypeOK ==
  /\ local \in [Nodes -> [Keys -> RecordOrNone]]
  /\ disk \in [Nodes -> [Keys -> Disk]]
  /\ loaded \in [Nodes -> [Keys -> RecordOrNone]]

\* A fresh deployment: any source files, nothing served yet.
ProviderInit ==
  /\ local \in [Nodes -> [Keys -> RecordOrNone]]
  /\ \A n \in Nodes : \A k \in Keys \ Sources[n] : local[n][k] = None
  /\ disk = [n \in Nodes |-> [k \in Keys |-> [file |-> None, bak |-> None]]]
  /\ loaded = [n \in Nodes |-> [k \in Keys |-> None]]
=============================================================================
