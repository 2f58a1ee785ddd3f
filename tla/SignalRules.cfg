SPECIFICATION Spec
CONSTANTS
  None = None
  V2Floor = 20240102
  Requests <- MCRequests
  Expirations <- MCExpirations
  RunIndicator <- MCRunIndicator
  Day <- MCDay
  Length <- MCLength
  Days <- MCDays
INVARIANTS
  CountersMeanTheirWords
  ExposureIsOfTheTrades
  BookAddsUp
PROPERTY PastStands
\* The data ends.
CHECK_DEADLOCK FALSE
