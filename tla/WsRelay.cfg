\* Two sockets of one organization and one of another, while the broker comes and
\* goes.  Every socket may have closed, so deadlock is not checked.
SPECIFICATION FairSpec
CONSTANTS
  None = None
  s1 = s1
  s2 = s2
  s3 = s3
  f1 = f1
  org1 = org1
  org2 = org2
  Sockets <- MCSockets
  Frames <- MCFrames
  Orgs = {org1, org2}
  OrgOf <- MCOrgOf
INVARIANTS
  TenantIsolation
  AtMostOnce
  Served
PROPERTIES
  EveryEventRelayed
CHECK_DEADLOCK FALSE
