SPECIFICATION Spec
CONSTANTS
  None = None
  MaxSegmentBytes = 3
  MaxSegments = None
  Sizes = {1}
  Times = {1}
  MaxSealed = 3
  MaxKills = 1
  MaxPowerLosses = 0
  MaxIoErrors = 0
  MixedCrashes = FALSE
INVARIANTS
  FirstRecordIsRecovered
CHECK_DEADLOCK FALSE
