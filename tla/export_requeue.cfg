SPECIFICATION FairSpec
CONSTANTS
  Handler = {h1}
  Worker = {w1, w2}
  Snapshot = {s1, s2, s3, s4}
  Requests = 2
  HoldChanges = 0
  Attempts = 2
  MaxStalledCount = 1
  LiveStalls = FALSE
  ExportFaults = TRUE
  CrashAttempts = {1, 2}
  MaxCrashes = 1
  Nobody = Nobody
  None = None
PROPERTIES
  ReuseRequeues
CHECK_DEADLOCK FALSE
