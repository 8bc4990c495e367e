-------------------------------- MODULE MCWan --------------------------------
(***************************************************************************)
(* Instances of WanSystem for TLC.                                         *)
(***************************************************************************)
EXTENDS WanSystem

CONSTANTS a, b, c, k1

Rec(primary, tiebreak, data) ==
  [version |-> [primary |-> primary, secondary |-> 0, tiebreak |-> tiebreak],
   blobs |-> data]

\* Two versions that differ in the tie-break only.
MCRecords2 == {Rec(1, 1, "x"), Rec(1, 2, "y")}

\* Every node is configured with every key.
MCAll == [n \in Nodes |-> Keys]

\* Only node a originates.
MCOrigin == [n \in Nodes |-> IF n = a THEN Keys ELSE {}]

\* Every other node is a peer; node b comes first.
MCPeers ==
  [n \in Nodes |-> SelectSeq(<<b, c, a>>, LAMBDA p : p \in Nodes \ {n})]
=============================================================================
