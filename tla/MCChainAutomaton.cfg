CONSTANTS
  Chains <- SmallChains
  GridBars = 6
SPECIFICATION ChainSpec
\* The loop ends after the last bar.
CHECK_DEADLOCK FALSE
INVARIANTS
  NeverSpurious
  TwoStagesCoincide
