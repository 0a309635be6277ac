-------------------------- MODULE MCIncidentEngine --------------------------
(***************************************************************************)
(* Instances of IncidentEngine for TLC.                                    *)
(***************************************************************************)
EXTENDS IncidentEngine, TLC

CONSTANTS jamming, spoofing

\* A kinematic reading graded above its score (three failed checks: CRITICAL at
\* 63) and one past every default band, of different labels.
MCReadings ==
  {[attack |-> spoofing, score |-> 63, severity |-> 4],
   [attack |-> jamming, score |-> 90, severity |-> Unranked]}

\* ... and one graded by its score alone, below the first.
MCReadings3 ==
  MCReadings \cup {[attack |-> jamming, score |-> 45, severity |-> Unranked]}

MCResolve == {RESOLVED}
MCAcknowledgeResolve == {ACKNOWLEDGED, RESOLVED}
MCAllTargets == {ACKNOWLEDGED, INVESTIGATING, CONTAINED, RESOLVED, CLOSED}

\* The default bands, 0.85 and 0.60 of 100.
MCPolicies == {[critical |-> 85, high |-> 60]}

Symmetry == Permutations(Detectors) \cup Permutations(Operators)
=============================================================================
