SPECIFICATION MCSpec
CONSTANTS
  c1 = c1
  c2 = c2
  k1 = k1
  k2 = k2
  k3 = k3
  u1 = u1
  u2 = u2
  l1 = l1
  s1 = s1
  s2 = s2
  x1 = x1
  h1 = h1
  w1 = w1
  p1 = p1
  p2 = p2
  None = None
  School = {s1, s2}
  Group <- PilotAndGeneral
  Percentile <- HalfAndTenth
  Policy <- BothAutomatic
  Threshold = 2
  Edits = 3
  User = {u1}
  Token = {k1, k2, k3}
  Link = {l1}
  Call = {c1, c2}
  Roles <- OnePlatformAdmin
  Assigned = {"SUPER_ADMIN"}
  Passwords = 2
  Deeds = {"login", "logout", "reset", "expiry"}
  Host = {h1, w1}
  Added = {s1}
  Home <- HomeHost
  Rail <- RailHost
  Process = {p1}
  Job = {c1, c2}
  Challenges = 1
  HostDeeds = {"retry", "custom"}
  Caller = {k1, k2, k3}
  Quota = 4
  Slots <- TwoAndOne
  Failures = 3
  Request = {c1, c2}
  TenantRow = {p1, p2}
  MaxAttempts = 2
  Rls = TRUE
  Item = {1, 2, 3}
  Values = {0, 1}
  Limit = 1
  ListEdits = 1
  ListDeeds = {"lists"}
  Wares = {1}
  ShelfEdits = 2
  ShelfDeeds = {"arranging"}
  Server = {p1, p2}
  Skew <- TwoTicksApart
  Window = 3
  LastTick = 12
  Operator = {p1, p2}
  Runs = 3
  Deaths = 2
  Stalls = 0
  Attempt = {k1, k2, k3}
  InSchool = TRUE
  Faults = 2
  LogSchool = {x1}
  MinRetention = 1
  LastDay = 2
  LogRows = 2
  LogEdits = 2
INVARIANTS
  SessionsAreExact
  CountsWhatRuns
  RequestsAreConfined
  
  ListsAreWhole
  WorkIsDoneOnce
  NightlyIsExact

  
SYMMETRY Interchangeable
CHECK_DEADLOCK FALSE
