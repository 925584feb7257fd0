SPECIFICATION MCSpec
CONSTANTS
  r1 = r1
  a1 = a1
  a2 = a2
  a3 = a3
  h1 = h1
  h2 = h2
  h3 = h3
  w1 = w1
  w2 = w2
  o1 = o1
  o2 = o2
  e1 = e1
  Request = {r1}
  Actor = {a1, a2, a3}
  Handler = {h1}
  Worker = {w1, w2}
  Object = {o1, o2}
  Late = {o2}
  RestoreCall = {h2, h3}
  Edit = {e1}
  Stallable = {}
  Crashable = {"verify", "execute"}
  Attempts = 2
  MaxStalledCount = 1
  HoldChanges = 1
  LiveStalls = TRUE
  ApiFaults = FALSE
  WorkerFaults = FALSE
  CrashAttempts = {1, 2}
  MaxCrashes = 1
  Nil = Nil
  Nobody = Nobody
INVARIANTS
  ThreePeople
  RestoreIsSafe
  DeletionIsLawful
PROPERTIES
  RestoredOnce
SYMMETRY Interchangeable
CHECK_DEADLOCK FALSE
