----------------------------- MODULE MCAdmission -----------------------------
(***************************************************************************)
(* Instances of Admission for TLC.                                         *)
(***************************************************************************)
EXTENDS Admission, TLC

Symmetry == Permutations(Requests) \cup Permutations(Sockets)
=============================================================================
