SPECIFICATION Spec
CONSTANTS
  None = None
  MaxSegmentBytes = 2
  MaxSegments = 1
  Sizes = {1}
  Times = {1, 2}
  MaxSealed = 5
  MaxKills = 2
  MaxPowerLosses = 2
  MaxIoErrors = 1
  MixedCrashes = FALSE
INVARIANTS
  AcknowledgedStands
  DecisionsAreAccounted
  WriterAgreesWithDisk
PROPERTIES
  OpenClosesEarlierDecisions
  OpensAgain
CHECK_DEADLOCK FALSE
