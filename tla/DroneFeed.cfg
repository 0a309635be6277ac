\* A sweep of two drones, with two packets in flight.  The clock's bound ends a
\* behaviour, so deadlock is not checked.
SPECIFICATION Spec
CONSTANTS
  Drones = {d1, d2}
  Ingests = {p1, p2}
  Threshold = 0
  None = None
  MaxClock = 2
SYMMETRY Symmetry
INVARIANTS
  MarkOutlivedByInFlightOnly
  MarkHasItsIncident
  ActiveWasHeard
PROPERTIES
  NoSilenceMissed
CHECK_DEADLOCK FALSE
