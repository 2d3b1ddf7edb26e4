SPECIFICATION Spec
CONSTANTS
  Agents = {a1}
  c0 = c0
  good = good
  bad = bad
  None = None
  Torn = Torn
  Configs <- MCConfigs
  Valid <- MCValid
  InitialConfig = c0
  Conns = {k1, k2}
  Requests = {r1, r2}
  Handlers = {h1, h2}
  Serial = TRUE
  Graceful = FALSE
  MaxRequests = 3
  MaxDrops = 1
  MaxCrashes = 1
  MaxServerCrashes = 0
  MaxDeletes = 1
  MaxQueue = 1
SYMMETRY Symmetry
INVARIANT LkgWasApplied
INVARIANT PendingWhileOutstanding
