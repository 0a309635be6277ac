-------------------------- MODULE MCSupervisedPass --------------------------
(***************************************************************************)
(* Instances of SupervisedPass for TLC.                                    *)
(***************************************************************************)
EXTENDS SupervisedPass, TLC

Symmetry == Permutations(Workers)
=============================================================================
