SPECIFICATION MCSpec
CONSTANTS
  m1 = m1
  m2 = m2
  k1 = k1
  k2 = k2
  p1 = p1
  a1 = a1
  a2 = a2
  x1 = x1
  q1 = q1
  None = None
  User = {m1, m2}
  Ask = {a1, a2}
  KeyId = {k1, k2}
  Pem = {p1}
  Slot = {a1, a2}
  Invoice = {q1}
  OfferOps = {"offer", "approve"}
  OfferFaults = 0
  Key = {m1, m2}
  EvidenceCrashes = 1
  EvidenceFailures = 1
  SweepOps = {"sweep"}
  Extension = {m1, m2}
  Version <- TwoVersions
  VersionRange <- FirstMinor
  Installer = {q1}
  NeedsOps = {"publish", "school"}
  Optional = {FALSE}
  Releases = 3
  Record = {m1, m2}
  Client = {a1, a2}
  Content = {x1}
  Quota = 3
  MaxAttempts = 2
  MaxVersion = 2
  Crashes = 0
  Ops = {"records", "migrate"}
INVARIANTS
  
  
  CountersMatch
  NoLostUpdate
  
SYMMETRY Interchangeable
CHECK_DEADLOCK FALSE
