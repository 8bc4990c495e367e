----------------------------- MODULE Discovery -----------------------------
(***************************************************************************)
(* Which lineages the certs provider reads (internal/discovery): a scan of *)
(* certbot's live directory, entry by entry in the order of the names.     *)
(*                                                                         *)
(* A name is represented by its position in that order.  An entry of the   *)
(* scan carries the resolved path of its cert.pem, or None with an error.  *)
(***************************************************************************)
EXTENDS Versions, Sequences

CONSTANTS
  LiveDir,   \* LiveDir[i]: what the i-th name in live/ is: a directory (or a
             \* link to one), "README", or None for anything else
  Dirs       \* the directories

ASSUME LiveDirAssumption == LiveDir \in Seq(Dirs \cup {"README", None})

Entry(name, path) == [name |-> name, path |-> path]

\* Variant of mergeEntries that compares names instead of paths.
MergeByName(entries) ==
  {entries[i] : i \in {i \in DOMAIN entries :
     \A j \in 1 .. i - 1 : entries[j].name # entries[i].name}}

\* mergeEntries: an entry whose path was seen before is dropped, one with an
\* error never.  Names in one directory differ, so the set of the entries that
\* are left stands for their list in the order of the names.
mergeEntries(entries) ==
  {entries[i] : i \in {i \in DOMAIN entries :
     \/ entries[i].path = None
     \/ \A j \in 1 .. i - 1 : entries[j].path # entries[i].path}}

\* ScanAll: the names of the usable entries.
ScanAll(entries) == {e.name : e \in {d \in mergeEntries(entries) : d.path # None}}
=============================================================================
