\* Three requests for two slots, a background thread, and one handshake more than
\* the reserve.
SPECIFICATION FairSpec
CONSTANTS
  Requests = {r1, r2, r3}
  Sockets = {s1}
  Background = {b1}
  None = None
  MaxInFlight = 2
  Reserve = 0
  Pool = 3
  WorkerThreads = 2
  MaxHops = 2
INVARIANTS
  NoSlotLost
  CheckoutNeverWaits
  NoStandoff
PROPERTIES
  EveryRequestAnswered
