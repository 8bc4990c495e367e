------------------------------- MODULE MCCert -------------------------------
(***************************************************************************)
(* Instances of CertStore for TLC.                                         *)
(***************************************************************************)
EXTENDS CertStore

CONSTANTS l1, l2

Bundle(i, key, chain) ==
  [version |-> [primary |-> i, secondary |-> 10 + i, tiebreak |-> 0],
   blobs |-> [cert |-> <<"cert", i>>, key |-> <<"key", key>>,
              chain |-> chain, full |-> <<"full", i>>]]

\* Successive renewals: a first bundle, one with a new key and intermediate,
\* and one that keeps that key and comes without a chain file.
MCRecords ==
  {Bundle(1, 1, <<"chain", 1>>), Bundle(2, 2, <<"chain", 2>>), Bundle(3, 2, None)}

\* Two bundles for the liveness properties.
MCTwoRecords == {Bundle(1, 1, <<"chain", 1>>), Bundle(2, 2, None)}
=============================================================================
