SPECIFICATION Spec
CONSTANTS
  None = None
  V2Floor = 20240102
  Requests <- SourcesRequests
  Expirations <- MCExpirations
  RunIndicator <- MCRunIndicator
  Day <- MCDay
  Length <- MCLength
  Days <- MCDays
INVARIANT PricedOnItsOwnSource
\* The data ends.
CHECK_DEADLOCK FALSE
