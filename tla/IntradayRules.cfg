SPECIFICATION Spec
CONSTANTS
  None = None
  ImpliedVol <- MCImpliedVol
  KernelDelta <- MCKernelDelta
  RootTime <- MCRootTime
  Behind <- MCBehind
  Requests <- MCRequests
  Chain <- MCChain
  Minutes <- MCMinutes
  Row <- MCRow
INVARIANTS
  PaidWhatItFiredOn
  BooksAddUp
PROPERTY FiredStands
\* A run ends.
CHECK_DEADLOCK FALSE
