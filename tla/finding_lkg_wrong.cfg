SPECIFICATION Spec
CONSTANTS
  Agents = {a1}
  c0 = c0
  good = good
  bad = bad
  None = None
  Torn = Torn
  Configs <- MCConfigs
  Valid <- MCValid
  InitialConfig = c0
  Conns = {k1, k2}
  Requests = {r1}
  Handlers = {h1}
  Serial = FALSE
  Graceful = FALSE
  MaxRequests = 2
  MaxDrops = 0
  MaxCrashes = 0
  MaxServerCrashes = 0
  MaxDeletes = 0
  MaxQueue = 1
INVARIANT LkgWasApplied
