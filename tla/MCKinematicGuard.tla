-------------------------- MODULE MCKinematicGuard --------------------------
(* KinematicGuard on a small flight.                                       *)
EXTENDS KinematicGuard

\* Aside and behind, beyond what a tick or two of flight could make up for; and as
\* far behind as leaves a tick's implied speed as it was.
MCDisplacements == {[x |-> 0, y |-> 7], [x |-> -13, y |-> 0], [x |-> -4, y |-> 0]}
=============================================================================
