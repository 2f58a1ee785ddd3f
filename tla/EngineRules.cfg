SPECIFICATION Spec
CONSTANTS
  None = None
  V2Floor = 20240102
  DayCount = 2
  Setups <- MCSetups
  Bar <- MCBar
  Length <- MCLength
  Days <- MCDays
INVARIANTS
  SegmentTelescopes
  WipeOutReconciles
  CostsFollowTheAccount
  TradeLogIsTrue
  CurveIsSound
PROPERTY PastStands
CHECK_DEADLOCK FALSE
