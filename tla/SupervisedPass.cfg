\* Two workers share a pass; either may crash, restart, fail or lose Redis.
SPECIFICATION PassSpec
CONSTANTS
  Workers = {w1, w2}
  Never = Never
  Interval = 3
  ClaimFor = 2
  InitialBackoff = 1
  MaxBackoff = 4
  StallGrace = 0
  RunFirst = FALSE
  Shared = TRUE
  PassTime = 1
  Horizon = 10
  PassHorizon = 6
  DoneHorizon = 0
SYMMETRY Symmetry
INVARIANTS
  ClaimedPassesExclusive
  PassGapBounded
  NoFalseAlarm
