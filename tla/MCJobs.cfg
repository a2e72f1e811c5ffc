CONSTANTS
  j1 = j1  j2 = j2  w1 = w1  w2 = w2
  Jobs = {j1}
  Workers = {w1, w2}
  MaxAttempts = 2
  Tries = 3
  AttemptBound = 3
  MaxFaults = 3
  MayStall = TRUE
SPECIFICATION FairSpec
CHECK_DEADLOCK FALSE
INVARIANTS TypeOK NoDoubleRun DeadLetterIsExhausted
PROPERTIES ResultOfLastClaim NoStuckRun
