CONSTANTS
  None = None
  Clients = {k1, k2}
  Portfolios <- MCPortfolios
  TTL = 1
  MaxEntries = 2
  MaxRun = 1
  MaxNow = 6
  MaxAsks = 3
  Versions = {1, 2}
SPECIFICATION Spec
SYMMETRY ClientSymmetry
\* The requests are used up.
CHECK_DEADLOCK FALSE
INVARIANTS
  ServedIsFresh
  ServedMatchesRequest
