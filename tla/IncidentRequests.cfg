\* Two operators racing on one drone's incident, under fairness.  The bounds end a
\* behaviour, so deadlock is not checked: EveryCycleEnds is about that.
SPECIFICATION FairSpec
CONSTANTS
  jamming = jamming
  spoofing = spoofing
  None = None
  Drones = {d1}
  Detectors = {w1, w2}
  Operators = {o1, o2}
  Readings <- MCReadings3
  Targets <- MCAcknowledgeResolve
  Policies <- MCPolicies
  Window = 1
  MaxClock = 0
  MaxIncidents = 1
  MaxTrail = 2
INVARIANTS
  StatusIsAudited
PROPERTIES
  EveryCycleEnds
CHECK_DEADLOCK FALSE
