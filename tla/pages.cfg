SPECIFICATION MCSpec
CONSTANTS
  Fetch = {a1, a2}
  Call = {b1}
  NoData = NoData
  Picture = {a1}
  Post = {p1}
  Slides = 2
  Writes = 4
  Errors = 1
  Request = {a1, a2}
  Tokens = 3
  Visits = 2
  Enrolment = {a1}
  Dom = {d1}
  Orders = 3
  Misses = 1

  
PROPERTIES
  EditorsKeep
  NobodyIsExpelled
CHECK_DEADLOCK FALSE
