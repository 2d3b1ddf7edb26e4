SPECIFICATION FairSpec
CONSTANTS
  Agents = {a1}
  c0 = c0
  good = good
  bad = bad
  None = None
  Torn = Torn
  Configs <- MCConfigs
  Valid <- MCValid
  InitialConfig = c0
  Conns = {k1, k2}
  Requests = {r1}
  Handlers = {h1}
  Serial = TRUE
  Graceful = TRUE
  MaxRequests = 1
  MaxDrops = 1
  MaxCrashes = 1
  MaxServerCrashes = 1
  MaxDeletes = 0
  MaxQueue = 1
PROPERTIES EventuallyReachable OfferAnswered RolloutSettles
