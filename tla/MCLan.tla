-------------------------------- MODULE MCLan --------------------------------
(***************************************************************************)
(* Instances of LanSystem for TLC.                                         *)
(***************************************************************************)
EXTENDS LanSystem, TLC

CONSTANTS a, b, c, k1, k2

Rec(primary, tiebreak, data) ==
  [version |-> [primary |-> primary, secondary |-> 0, tiebreak |-> tiebreak],
   blobs |-> data]

MCRecords1 == {Rec(1, 1, "x")}

\* Two versions that differ in the tie-break only.
MCRecords2 == {Rec(1, 1, "x"), Rec(1, 2, "y")}

\* Every node is configured with every key.
MCAll == [n \in Nodes |-> Keys]

\* Node a is configured with both keys and has the source file of k1 only; the
\* other nodes have and use k2.
MCSplitConfigured == [n \in Nodes |-> IF n = a THEN {k1, k2} ELSE {k2}]
MCSplitSources == [n \in Nodes |-> IF n = a THEN {k1} ELSE {k2}]

\* Nodes that are configured alike are interchangeable.
MCSymmetry == Permutations(Nodes)
=============================================================================
