CONSTANT Signals <- MCSignals
SPECIFICATION Spec
\* The loop ends after the last bar.
CHECK_DEADLOCK FALSE
INVARIANTS
  LedgerMatchesLatch
  RearmNeedsCount
  OnlyClosesDropCandidates
