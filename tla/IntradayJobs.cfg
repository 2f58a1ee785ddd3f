CONSTANTS
  p1 = p1
  Pages = {p1}
  Cap = 2
  Days = 2
  MaxErrors = 2
  MaxJobs = 3
SPECIFICATION Spec
\* The page goes away, and the system stops.
CHECK_DEADLOCK FALSE
INVARIANTS
  ResultIsOfThisRun
PROPERTIES
  EvictionIsLastResort
  NothingWaitsForEver
