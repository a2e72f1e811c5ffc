CONSTANTS
  p1 = p1
  p2 = p2
  t1 = t1
  t2 = t2
  t3 = t3
  s1 = s1
  s2 = s2
  Jobs = {p1, p2, t1, t2, t3}
  Parses = {p1, p2}
  Transcripts = {t1, t2, t3}
  TrackKey <- McTrackKey
  RunKey <- McRunKey
  Batches = 2
  Sessions = {s1, s2}
  SegmentLength = 9
  Overlap = 3
  MinTail = 6
  MaxUtterance = 5
  Scenarios <- McLock
  MaxFaults = 0
SPECIFICATION Spec
INVARIANT LockReleased
SYMMETRY Symm
CHECK_DEADLOCK FALSE
