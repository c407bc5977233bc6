SPECIFICATION FairSpec
CONSTANTS
  p1 = p1
  p2 = p2
  t1 = t1
  t2 = t2
  Clients = {k1, k2}
  ProfileList <- MCList
  Tables = {t1, t2}
  Whitelist <- MCWhitelist
  Nobody = Nobody
  MaxChanges = 2
  MaxFailures = 1
INVARIANTS AnsweredAreFresh RegistryIsLastDiscovery
PROPERTY EveryLoadEnds
