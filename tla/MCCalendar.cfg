\* Five start dates, every frequency, a count that is set to one and others
\* up to a year, fourteen runs, and an owner who touches the rule once.
CONSTANTS
  Null = Null
  Starts <- MCStarts
  Ends <- MCEnds
  Frequencies = {"daily", "weekly", "monthly"}
  Counts = {0, 2, 12}
  MaxRuns = 14
  MaxTouches = 1
SPECIFICATION Spec
INVARIANTS
  TypeOK
  OnSchedule
  DriftsOnce
  RunsToItsEnd
CHECK_DEADLOCK FALSE
