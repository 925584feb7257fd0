SPECIFICATION Spec
CONSTANTS
  i1 = i1
  v1 = v1
  v2 = v2
  w1 = w1
  w2 = w2
  j1 = j1
  j2 = j2
  Job = {j1}
  Worker = {w1, w2}
  Installation = {i1}
  Version = {v1, v2}
  NoVersion = NoVersion
  InstallationOf <- OneInstallation
  OpOf <- UpgradeRollback
  VersionOf <- ToV2
  Attempts = 2
  MaxStalledCount = 1
  Quota = 3
  SlowCommands = FALSE
  LiveStalls = TRUE
  ApiFaults = FALSE
  CrashAttempts = {}
  MaxCrashes = 0
  Free = Free
  Orphan = Orphan
  Nobody = Nobody
  NoJob = NoJob
  Api = Api
PROPERTIES
  SucceededIsFinal
CHECK_DEADLOCK FALSE
