CONSTANTS
  Clients = {c1, c2}
  Docs = {d}
  Texts = {t1}
  Categories = {PROD}
  None = None
  MaxClock = 4
SPECIFICATION Spec
SYMMETRY Symmetry
\* Every stamp may have been taken.
CHECK_DEADLOCK FALSE
INVARIANTS
  ProjectionsAgree
PROPERTIES
  PutReplacesWhatItRead
  OnlyLockRouteLocks
  ImplementsContract
