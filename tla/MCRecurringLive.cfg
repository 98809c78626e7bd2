\* Two rules due on one day, one scheduler.
CONSTANTS
  r1 = r1
  r2 = r2
  s1 = s1
  m1 = m1
  Rules = {r1, r2}
  Runners = {s1}
  Hourly = {s1}
  LastDay = 0
  Periods = {1}
  Ends = {Null}
  Null = Null
  Behind = {0}
  MaxUndone = 1
  MaxStops = 1
SPECIFICATION FairSpec
PROPERTIES
  DueRuleRuns
CHECK_DEADLOCK FALSE
