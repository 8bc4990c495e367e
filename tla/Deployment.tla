----------------------------- MODULE Deployment -----------------------------
(***************************************************************************)
(* The load balancers and the resources of one kind they are configured    *)
(* with.                                                                   *)
(***************************************************************************)
EXTENDS Versions, Faults

CONSTANTS
  Nodes,        \* the load balancers
  Keys,         \* resource names of one kind
  Configured,   \* Configured[n]: the resources node n is configured with
  Sources       \* Sources[n]: those of them whose source file may exist on n

ASSUME DeploymentAssumption ==
  /\ Configured \in [Nodes -> SUBSET Keys]
  /\ Sources \in [Nodes -> SUBSET Keys]
  /\ \A n \in Nodes : Sources[n] \subseteq Configured[n]
  /\ None \notin Keys
  /\ None \notin Nodes
=============================================================================
