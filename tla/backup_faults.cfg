SPECIFICATION MCSpec
CONSTANTS
  h1 = h1
  w1 = w1
  w2 = w2
  s1 = s1
  s2 = s2
  s3 = s3
  a1 = a1
  a2 = a2
  a3 = a3
  e1 = e1
  Actor = {a1, a2, a3}
  Edit = {e1}
  Handler = {h1}
  Worker = {w1, w2}
  Snapshot = {s1, s2, s3}
  Requests = 2
  HoldChanges = 1
  Attempts = 2
  MaxStalledCount = 1
  LiveStalls = TRUE
  ExportFaults = TRUE
  CrashAttempts = {1, 2}
  MaxCrashes = 1
  Nobody = Nobody
  None = None
  Nil = Nil
INVARIANTS
  DownloadableIsStored
PROPERTIES
  LastingHoldKeeps
  
CHECK_DEADLOCK FALSE
