SPECIFICATION Spec
CONSTANTS
  p1 = p1  p2 = p2  s1 = s1  s2 = s2  junk = junk
  Procs = {p1, p2}
  Shas = {s1, s2}
  Junk = {junk}
  Empty = junk
  Absent = Absent
  Inputs <- CrossedRuns
  Serves <- AnyAnswer
  Signalled = {p1}
  Faults = {}
INVARIANTS CachedOnSuccess
CHECK_DEADLOCK FALSE
