\* Two workers and three handshakes that present one ticket; a claim may take as
\* long as the ticket lives, and as the slack.  Redis fails and forgets at any time.  The
\* bounds end a behaviour, so deadlock is not checked.
SPECIFICATION Spec
CONSTANTS
  None = None
  Workers = {w1, w2}
  Handshakes = {h1, h2, h3}
  Tickets = {t1}
  Lifetime = 1
  Slack = 1
  MaxDelay = 1
  SessionEnd = 2
  MaxClock = 2
  MaxVersion = 1
INVARIANTS
  OneSocketPerTicket
CHECK_DEADLOCK FALSE
