------------------------------ MODULE Versions ------------------------------
(***************************************************************************)
(* The order that decides which copy of a resource wins                    *)
(* (internal/engine/engine.go, type Version, Newer, pickNewer and the test *)
(* of maybePublish).                                                       *)
(*                                                                         *)
(* Primary and Secondary are unix times.  Tiebreak is a string that the    *)
(* code only ever compares, so it is modelled by its rank in the           *)
(* lexicographic order.                                                    *)
(***************************************************************************)
EXTENDS Integers

CONSTANTS
  Records,   \* the records that can occur: [version: Version, blobs: ...]
  None       \* the nil *Record of the code

Version == [primary : Int, secondary : Int, tiebreak : Int]

(***************************************************************************)
(* Records carry a version, and nil is not a record.                       *)
(***************************************************************************)
ASSUME RecordsAssumption ==
  /\ None \notin Records
  /\ \A r \in Records : r.version \in Version

RecordOrNone == Records \cup {None}

\* v.Newer(o): strictly newer, lexicographically.
Newer(v, o) ==
  \/ v.primary > o.primary
  \/ v.primary = o.primary /\ v.secondary > o.secondary
  \/ v.primary = o.primary /\ v.secondary = o.secondary /\ v.tiebreak > o.tiebreak

\* Variant of pickNewer that prefers the first record whenever there is one.
PickFirst(a, b) ==
  IF a = None THEN b ELSE a

\* pickNewer: nil loses to anything, and the second argument wins a tie.
pickNewer(a, b) ==
  IF a = None THEN b
  ELSE IF b = None THEN a
  ELSE IF Newer(a.version, b.version) THEN a ELSE b

\* Variant of MustPublish that never replaces a record of the cluster.
MustPublishIfAbsent(l, cur) ==
  l # None /\ cur = None

\* The test maybePublish makes on both answers of Get.
MustPublish(l, cur) ==
  l # None /\ (cur = None \/ Newer(l.version, cur.version))

\* a is at most as new as b; nil is older than every record.
NotNewerThan(a, b) ==
  a = None \/ (b # None /\ ~Newer(a.version, b.version))
=============================================================================
