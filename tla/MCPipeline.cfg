CONSTANTS
  r1 = r1
  r2 = r2
  Runs = {r1, r2}
  Cues = {1, 2}
  Cases <- McCases
  PerRunLimit = 2
  DailyLimit = 3
  MaxFaults = 1
  MayOutliveTtl = FALSE
SPECIFICATION Spec
INVARIANTS RunsInv  ReadyIsReviewed
PROPERTIES  CancelledIsFree
SYMMETRY Symm
CHECK_DEADLOCK FALSE
