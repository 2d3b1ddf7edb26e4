SPECIFICATION Spec
CONSTANTS
  Agents = {a1, a2}
  c0 = c0
  good = good
  bad = bad
  None = None
  Torn = Torn
  Configs <- MCConfigs
  Valid <- MCValid
  InitialConfig = c0
  Conns = {k1, k2, k3}
  Requests = {r1}
  Handlers = {h1, h2}
  Serial = FALSE
  Graceful = FALSE
  MaxRequests = 2
  MaxDrops = 1
  MaxCrashes = 0
  MaxServerCrashes = 0
  MaxDeletes = 0
  MaxQueue = 1
SYMMETRY FleetSymmetry
CONSTRAINT FleetBudget
INVARIANTS TypeOK ClaimsHonest RestartDue Routing Provenance
CHECK_DEADLOCK FALSE
