\* Two accounts and two requests at once: every interleaving of two changes, and
\* of a change and a sign-in.  A deleted account is created again once.  The bounds
\* end a behaviour, so deadlock is not checked.
SPECIFICATION Spec
CONSTANTS
  None = None
  Admin = Admin
  Users = {u1, u2}
  Requests = {r1, r2}
  Roles = {Admin, operator}
  MaxVersion = 2
  MaxAccounts = 1
  MaxTokens = 2
SYMMETRY Symmetry
INVARIANTS
  RevokedStaysRevoked
  TokenRoleIsCurrent
PROPERTIES
  LockoutNeedsARace
CHECK_DEADLOCK FALSE
