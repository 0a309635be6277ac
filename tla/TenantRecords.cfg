\* Three requests and four threshold values.
SPECIFICATION Spec
CONSTANTS
  Requests = {r1, r2, r3}
  Levels = {1, 2, 3, 4}
  DefaultHigh = 2
  DefaultCritical = 3
  None = None
CHECK_DEADLOCK FALSE
INVARIANTS
  OneSettingsRow
  InvertedOnlyByRace
PROPERTIES
  RevocationStands
  DecisionNeedsARace
