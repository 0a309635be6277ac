\* Three samples over five ticks, a reboot, a window of three packets.
SPECIFICATION FlightSpec
CONSTANTS
  End = 5
  Samples = 3
  Boots = 1
  Uptime = 6
  Threads = 2
  Window = 3
  MaxSpeed = 3
  MaxClimb = 1
  SpeedError = 2
  MaxLead = 3
  MaxReorder = 2
  MinGap = 1
  Speed = 2
  Climb = 1
  Displacements <- MCDisplacements
  Kinds = {"true", "forged", "jammed", "undated"}
CHECK_DEADLOCK FALSE
INVARIANTS
  HonestFlightIsQuiet
  ForgeryIsFlagged
  DeclinedWasRefused
  RefusedIsLate
