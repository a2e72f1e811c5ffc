CONSTANTS
  j1 = j1  j2 = j2  w1 = w1  w2 = w2  p1 = p1
  Jobs = {j1}
  Workers = {w1}
  Scopes = {"global"}
  ScopesOf <- McScopesOf
  Limit <- McLimit
  Projects = {p1}
  ProjectOf <- McProjectOf
  DailyOps = 0
  MaxAttempts = 1
  AttemptBound = 2
  MaxPolls = 1
  MaxFaults = 0
  MayStall = FALSE
SPECIFICATION Spec
CHECK_DEADLOCK FALSE
PROPERTIES SucceededIsFinal
