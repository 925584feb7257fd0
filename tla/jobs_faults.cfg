SPECIFICATION MCSpec
CONSTANTS
  i1 = i1
  v1 = v1
  v2 = v2
  w1 = w1
  w2 = w2
  j1 = j1
  j2 = j2
  j3 = j3
  j4 = j4
  Job = {j1, j2, j3, j4}
  Worker = {w1, w2}
  Installation = {i1}
  Version = {v1, v2}
  NoVersion = NoVersion
  Attempts = 2
  MaxStalledCount = 1
  Quota = 3
  Free = Free
  Orphan = Orphan
  Nobody = Nobody
  NoJob = NoJob
  Api = Api
  InstallationOf <- OneInstallation
  VersionOf <- ToV2
  OpOf <- Commands
  SlowCommands = FALSE
  LiveStalls = FALSE
  ApiFaults = TRUE
  CrashAttempts = {1, 2}
  MaxCrashes = 1
INVARIANTS
  MutualExclusion
  SuccessIsReal
PROPERTIES
  RetryIsNoOp
SYMMETRY WorkerSymmetry
CHECK_DEADLOCK FALSE
