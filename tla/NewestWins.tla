----------------------------- MODULE NewestWins -----------------------------
(***************************************************************************)
(* What the two backends promise the engine, without saying how: registers *)
(* in memory that only a strictly newer record replaces, and that forget   *)
(* their record only when the last process holding them has stopped.       *)
(*                                                                         *)
(* On a LAN a register is a key of the distributed map and every node      *)
(* holds it; over a WAN every node holds a register of its own per key.    *)
(***************************************************************************)
EXTENDS Versions

CONSTANTS
  Members,     \* the processes
  Registers,   \* the registers they keep
  Holders      \* Holders[x]: the processes that hold register x

VARIABLES
  best,   \* best[x]: the record in register x, or None
  up      \* the processes that are running

Init ==
  /\ best = [x \in Registers |-> None]
  /\ up = Members

\* The register is published to: the record is newer than the one it holds.
Publish(x, r) ==
  /\ Holders[x] \cap up # {}
  /\ best[x] = None \/ Newer(r.version, best[x].version)
  /\ best' = [best EXCEPT ![x] = r]
  /\ UNCHANGED up

\* A process stops, and with the last one what they held.
Stop(m) ==
  /\ m \in up
  /\ up' = up \ {m}
  /\ best' = [x \in Registers |-> IF Holders[x] \cap up' = {} THEN None ELSE best[x]]

Start(m) ==
  /\ m \in Members \ up
  /\ up' = up \cup {m}
  /\ UNCHANGED best

Next ==
  \/ \E x \in Registers, r \in Records : Publish(x, r)
  \/ \E m \in Members : Stop(m) \/ Start(m)

Spec == Init /\ [][Next]_<<best, up>>
=============================================================================
