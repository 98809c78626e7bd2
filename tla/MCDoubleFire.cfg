\* A date whose transaction its owner deletes during the run fires again.
CONSTANTS
  r1 = r1
  r2 = r2
  s1 = s1
  m1 = m1
  Rules = {r1}
  Runners = {s1, m1}
  Hourly = {s1, m1}
  LastDay = 1
  Periods = {1}
  Ends = {Null}
  Null = Null
  Behind = {0}
  MaxUndone = 1
  MaxStops = 0
SPECIFICATION Spec
INVARIANTS
  FiresOnce
CHECK_DEADLOCK FALSE
