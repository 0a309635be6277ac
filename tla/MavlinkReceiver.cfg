\* One drone and two cycles at once, through outages, silent losses and restarts.  A
\* cycle's task is bounded, and a receiver whose task ended waits for a restart.
SPECIFICATION ReceiverSpec
CONSTANTS
  NoPacket = NoPacket
  Systems = {d1}
  Tasks = {t1, t2}
  MinDelay = 1
  MaxDelay = 4
  ConnectTime = 1
  WriteTime = 1
SYMMETRY Symmetry
INVARIANTS
  ReturnsInTime
  NoInventedLoss
  NewestIsJudged
