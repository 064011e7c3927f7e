SPECIFICATION Spec
CONSTANTS
  None = None
  p1 = p1
  p2 = p2
  t1 = t1
  t2 = t2
  Readers = {p1, p2}
  MaxSegments = 2
  Txs = {t1, t2}
  MaxDay = 2
  MaxRecords = 3
  MaxFaults = 1
  MaxReadings = 2
INVARIANTS
  BatchStartsItsDay
  LossIsReal
  LedgerIsWhatWasHandedOut
PROPERTIES
  EntriesStand
SYMMETRY Symmetry
CHECK_DEADLOCK FALSE
