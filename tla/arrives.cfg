SPECIFICATION MCSpec
CONSTANTS
  c1 = c1
  c2 = c2
  c3 = c3
  p1 = p1
  p2 = p2
  s1 = s1
  w1 = w1
  f1 = f1
  f2 = f2
  NoData = NoData
  Client = {c1, c2, c3}
  Payload = {p1, p2}
  Sends = 3
  HandlerFaults = TRUE
  Oversized = TRUE
  RedisFaults = {"reserve", "complete", "release"}
  MaxCrashes = 1
  None = None
INVARIANTS
  AppliedKeyIsKept
PROPERTIES
  AppliedOnce
  ReservationEnds
  SuspensionArrives
  CircuitRecovers
  CriticalIsPaged
  ReportsArrive
  
CHECK_DEADLOCK FALSE
