CONSTANTS
  i1 = i1
  i2 = i2
  v1 = v1
  v2 = v2
  t1 = t1
  t2 = t2
  Ips <- MCIps
  Pubkeys <- MCPubkeys
  Authorized <- MCAuthorized
  Tasks <- MCTasks
  Ids = {1, 2}
  Capacity = 1
  ChallengeTtl = 1
  AccessTtl = 1
  RefreshTtl = 2
  MaxTime = 2

SPECIFICATION Spec
INVARIANT TypeOK
INVARIANT TokensOnlyForAuthorized
INVARIANT AccessBoundedByRefresh
