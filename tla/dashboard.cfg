SPECIFICATION MCSpec
CONSTANTS
  syslog = syslog
  journal = journal
  hec = hec
  otlp = otlp
  buffer = buffer
  p = p
  q = q
  Receivers = {syslog, journal}
  Exporters = {hec, otlp, buffer}
  Pipelines = {p, q}
  Topologies <- MCTopologies
  LogExporter = buffer
  Handlers = {h1, h2}
  MaxAccepted <- MCMaxAccepted
  MaxFailed <- MCMaxFailed
  MaxStarts = 2
  Capacity = 2
  Entry <- MCEntry
  Batch <- MCBatch
  Query <- MCQuery
  Blank = 0
INVARIANTS TypeOK SharesAddUp IdleShowsNothing
PROPERTIES ImplementsLogWindow NeverGoesBack QuitHonoured Recovers
