CONSTANTS
  i1 = i1
  i2 = i2
  o1 = o1
  o2 = o2
  Jobs = {i1, i2, o1, o2}
  Ingests = {i1, i2}
  Ops = {o1, o2}
  Contents = {"clip", "short", "script"}
  WrongSize = {"short"}
  Dangerous = {"script"}
  MaxPuts = 2
  Scenarios <- McScenarios
  MaxFaults = 1
SPECIFICATION Spec
INVARIANTS ProductsInv
PROPERTIES AvailableOnlyValidated
SYMMETRY Symm
CHECK_DEADLOCK FALSE
