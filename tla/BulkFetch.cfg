CONSTANTS
  g1 = g1
  g2 = g2
  g3 = g3
  g4 = g4
  c1 = c1
  c2 = c2
  narrow = narrow
  full = full
  other = other
  Groups = {g1, g2, g3, g4}
  Chunks = {c1, c2}
  Members <- MCMembers
  Keys = {narrow, full, other}
  KeysOf <- MCKeysOf
  RowsOf <- MCRowsOf
  MaxRows = 2
  PoolSize = 3
  NoKey = NoKey
  Nobody = Nobody
SPECIFICATION Spec
\* All the tasks end.
CHECK_DEADLOCK FALSE
INVARIANTS
  OneFlightPerKey
  WaitersHaveLeader
  RowsAccounted
  ReserveKept
PROPERTIES
  EveryFetchEnds
