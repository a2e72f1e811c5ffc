SPECIFICATION Spec
CONSTANTS
  a1 = a1
  a2 = a2
  a3 = a3
  f1 = f1
  f2 = f2
  v0 = v0
  v1 = v1
  v2 = v2
  r1 = r1
  r2 = r2
  q1 = q1
  q2 = q2
  t1 = t1
  t2 = t2
  w1 = w1
  d1 = d1
  Authors = {a1, a2, a3}
  Flows = {f1, f2}
  Versions = {v0, v1, v2}
  MaxFailures = 1
  Runners = {r1, r2}
  Requesters = {q1, q2}
  KnownTypes = {"source", "analyze", "stt", "translate", "tts", "align", "render", "qc", "persist", "review", "merge"}
  HandledTypes = {"source", "analyze", "stt", "translate", "tts", "align", "render", "qc", "persist", "review"}
  MaxNodeAttempts = 2
  Tenants = {t1, t2}
  WorkflowIds = {w1}
  VersionIds = {d1}
  Hash <- McHash
  Points = {0, 3000, 4000, 5536, 10000}
  MaxSwitches = 3
  Starts <- McOne
  Tasks <- McCancel
CHECK_DEADLOCK FALSE
PROPERTIES
  CancelledStays
