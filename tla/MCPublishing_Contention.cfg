CONSTANTS
  j1 = j1  j2 = j2  w1 = w1  w2 = w2  p1 = p1
  Jobs = {j1, j2}
  Workers = {w1}
  Scopes = {"global"}
  ScopesOf <- McScopesOf
  Limit <- McLimit
  Projects = {p1}
  ProjectOf <- McProjectOf
  DailyOps = 0
  MaxAttempts = 1
  AttemptBound = 2
  MaxPolls = 1
  MaxFaults = 1
  MayStall = FALSE
SPECIFICATION FairSpec
CHECK_DEADLOCK FALSE
INVARIANTS ConcurrencyLimit
PROPERTIES EveryJobSettles
