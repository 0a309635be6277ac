\* Racing detection cycles of one drone, and an operator who resolves what they
\* raise; a second of the clock is longer than the window.  The bounds end a behaviour,
\* so deadlock is not checked.
SPECIFICATION Spec
CONSTANTS
  jamming = jamming
  spoofing = spoofing
  None = None
  Drones = {d1}
  Detectors = {w1, w2}
  Operators = {o1}
  Readings <- MCReadings3
  Targets <- MCResolve
  Policies <- MCPolicies
  Window = 0
  MaxClock = 1
  MaxIncidents = 2
  MaxTrail = 2
SYMMETRY Symmetry
INVARIANTS
  OneIncidentPerWindow
  EveryEscalationAnnounced
PROPERTIES
  ImplementsLog
CHECK_DEADLOCK FALSE
