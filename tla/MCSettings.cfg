SPECIFICATION Spec
CONSTANTS
  p1 = p1
  p2 = p2
  p3 = p3
  s1 = s1
  q1 = q1
  q2 = q2
  q3 = q3
  v1 = v1
  v2 = v2
  en = en
  fr = fr
  c1 = c1
  c2 = c2
  c3 = c3
  c4 = c4
  g1 = g1
  g2 = g2
  t1 = t1
  t2 = t2
  e1 = e1
  e2 = e2
  e3 = e3
  Askers = {e1, e2, e3}
  MaxAborts = 1
  w1 = w1
  w2 = w2
  w3 = w3
  a1 = a1
  a2 = a2
  a3 = a3
  d1 = d1
  d2 = d2
  d3 = d3
  f1 = f1
  f2 = f2
  k1 = k1
  m1 = m1
  m2 = m2
  own = own
  other = other
  tube = tube
  tok = tok
  shut = shut
  None = None
  Requests = {q1, q2, q3}
  Rows = {p1, p2, p3, s1}
  MaxTries = 2
  MaxBreaks = 1
  Calls = {c1, c2, c3, c4}
  Codes = {g1, g2}
  Terms = {t1, t2}
  MaxCrashes = 1
  Callers = {w1, w2, w3}
  Things = {a1, a2, a3, d1, d2, d3, f1, f2}
  Enabled = {tube, tok}
  Scenes <- McScenes
CHECK_DEADLOCK FALSE
INVARIANTS
  SettingsInv
  VersionCountsEntries
  JobAsAsked
PROPERTIES
  DefaultKept
  EveryRequestAnswered
