------------------------------- MODULE MCAgent -------------------------------
(***************************************************************************)
(* Instances of Agent for TLC.                                             *)
(***************************************************************************)
EXTENDS Agent

CONSTANT d1

\* Entries of live/: a lineage, another name for it, a plain file, the README.
MCLiveDir == <<d1, d1, None, "README">>

\* A lineage alone.
MCOneLineage == <<d1>>

Cert(notBefore, serial, sha) ==
  [notBefore |-> notBefore, notAfter |-> 9, serial |-> serial, sha256 |-> sha]

\* Character codes of the hexadecimal digits 0, 1 and a.
c0 == 48
c1 == 49
ca == 97

\* Certificates of different days, with hashes that go up or down; of one
\* second, told apart by the serial; and of one second with the serials "1" and
\* "10", which the tie-break text orders the other way round.
MCUp   == <<Cert(1, <<c1>>, <<c0>>), Cert(2, <<c0>>, <<ca>>)>>
MCDown == <<Cert(1, <<c1>>, <<ca>>), Cert(2, <<c0>>, <<c0>>)>>
MCTie  == <<Cert(1, <<c1, c0>>, <<ca>>), Cert(1, <<c1, ca>>, <<c0>>)>>
MCLong == <<Cert(1, <<c1>>, <<c0>>), Cert(1, <<c1, c0>>, <<ca>>)>>

Setup(modules, strategy_, issued_) ==
  [modules |-> modules, strategy |-> strategy_, issued |-> issued_]

MCSetups ==
  {Setup(<<"certs">>, "mtime", h) : h \in {MCUp, MCDown, MCTie, MCLong}}
    \cup {Setup(<<"blob">>, st, MCUp) : st \in {"mtime", "sha"}}
    \cup {Setup(<<"certs", "pubsub", "blob">>, "mtime", SubSeq(MCUp, 1, 1))}

MCBoth == {Setup(<<"certs", "blob">>, "mtime", MCUp)}

MCRecords == {BlobRecord(t, d) : t \in 0 .. MaxTime, d \in Data}
=============================================================================
