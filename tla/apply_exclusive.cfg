SPECIFICATION Spec
CONSTANTS
  c0 = c0
  bad = bad
  secret = secret
  port = port
  None = None
  Empty = Empty
  Torn = Torn
  Configs <- MCConfigs
  Valid <- MCValid
  Substituted <- MCSubstituted
  InitialConfig = c0
  Handlers = {h1, h2}
  Editors = {e1}
  Inodes = {i1, i2, i3}
  Exclusive = TRUE
INVARIANTS TypeOK LiveIsValidated NoStrayCandidate
PROPERTY ImplementsLiveFile
