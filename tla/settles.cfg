SPECIFICATION MCSpec
CONSTANTS
  i1 = i1
  v2 = v2
  w1 = w1
  w2 = w2
  j1 = j1
  j2 = j2
  Job = {j1, j2}
  Worker = {w1, w2}
  Installation = {i1}
  Version = {v2}
  NoVersion = NoVersion
  InstallationOf <- OneInstallation
  OpOf <- ActivateUninstall
  VersionOf <- ToV2
  Attempts = 2
  MaxStalledCount = 1
  Quota = 3
  SlowCommands = FALSE
  LiveStalls = FALSE
  ApiFaults = FALSE
  CrashAttempts = {1}
  MaxCrashes = 1
  Free = Free
  Orphan = Orphan
  Nobody = Nobody
  NoJob = NoJob
  Api = Api
  r1 = r1
  a1 = a1
  a2 = a2
  a3 = a3
  h1 = h1
  o2 = o2
  Request = {r1}
  Actor = {a1, a2, a3}
  Handler = {h1}
  Object = {o2}
  Late = {o2}
  Nil = Nil
INVARIANTS
  SuccessIsNotDeadLettered

  
CHECK_DEADLOCK FALSE
