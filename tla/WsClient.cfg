\* Three sockets of one page, one reconnection attempt each.
SPECIFICATION FairSpec
CONSTANTS
  Clients = {c1, c2, c3}
  MaxRetries = 1
  None = None
INVARIANTS
  NoFeedLeftBehind
  OneAttempt
  ShownIsTheFeed
PROPERTY
  FeedSettles
