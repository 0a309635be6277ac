----------------------------- MODULE MCDroneFeed -----------------------------
(***************************************************************************)
(* Instances of DroneFeed for TLC.                                         *)
(***************************************************************************)
EXTENDS DroneFeed, TLC

Symmetry == Permutations(Drones) \cup Permutations(Ingests)
=============================================================================
