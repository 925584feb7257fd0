SPECIFICATION MCSpec
CONSTANTS
  v1 = v1
  p1 = p1
  p2 = p2
  u1 = u1
  u2 = u2
  x1 = x1
  a1 = a1
  a2 = a2
  w1 = w1
  w2 = w2
  None = None
  Version = {v1}
  Package = {p1, p2}
  User = {u1}
  School = {x1}
  Slot = {a1, a2}
  Worker = {w1, w2}
  Grants <- Uploader
  Separation = TRUE
  Open <- Uploads
  Approved = FALSE
  Crashes = 0
  Redeliveries = 1
INVARIANTS
  RunsOnlyChecked
  PublishedIsStored
  SuspendedRunsNowhere
PROPERTIES
  VerdictIsFinal
SYMMETRY Interchangeable
CHECK_DEADLOCK FALSE
