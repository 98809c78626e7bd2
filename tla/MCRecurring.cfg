\* One rule with two frequencies and two end dates, two runners and one of
\* them cut short, two days, one transaction deleted.
CONSTANTS
  r1 = r1
  r2 = r2
  s1 = s1
  m1 = m1
  Rules = {r1}
  Runners = {s1, m1}
  Hourly = {s1, m1}
  LastDay = 1
  Periods = {1, 2}
  Ends = {Null, 1}
  Null = Null
  Behind = {0, 1}
  MaxUndone = 1
  MaxStops = 1
SYMMETRY Symmetry
SPECIFICATION Spec
INVARIANTS
  TypeOK
  OnePerDate
  NothingSkipped
  NeverEarly
  RecordsAreTrue
PROPERTIES
  PauseSticks
CHECK_DEADLOCK FALSE
