SPECIFICATION FairSpec
CONSTANTS
  Configs = {c0, c1}
  InitialConfig = c0
  Conns = {k1, k2}
  None = None
  Short = Short
  maxRestartHistory = 1
  MaxEvents = 3
  MaxQueue = 1
INVARIANTS TypeOK EnrolsOnce RestartsCounted
PROPERTY EffectiveKnown
