SPECIFICATION FairSpec
CONSTANTS
  good = good
  bad = bad
  Shipped = shipped
  shipped = shipped
  None = None
  Empty = Empty
  Torn = Torn
  Builds <- MCBuilds
  Works <- MCWorks
  Versions = {v1}
  Uploads = {u1, u2}
  Inodes = {i1, i2, i3}
  Requests = {r1}
  Serial = TRUE
  Graceful = TRUE
  MaxUploads = 2
  MaxPushes = 3
  MaxFailures = 2
CHECK_DEADLOCK FALSE
INVARIANTS TypeOK ServesRecorded BinaryWasPublished LkgWasInstalled
PROPERTIES RunsItsBinary OfferResolved
