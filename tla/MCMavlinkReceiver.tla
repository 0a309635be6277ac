-------------------------- MODULE MCMavlinkReceiver --------------------------
EXTENDS MavlinkReceiver, TLC

Symmetry == Permutations(Tasks)
=============================================================================
