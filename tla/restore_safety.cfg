SPECIFICATION Spec
CONSTANTS
  Actor = {a1, a2, a3}
  Handler = {h1}
  Worker = {w1, w2}
  Edit = {e1}
  Attempts = 2
  MaxStalledCount = 1
  Stallable = {}
  Crashable = {"execute"}
  ApiFaults = FALSE
  WorkerFaults = FALSE
  CrashAttempts = {1, 2}
  MaxCrashes = 1
  Nil = Nil
  Nobody = Nobody
PROPERTIES
  SafetyIsPreRestore
CHECK_DEADLOCK FALSE
