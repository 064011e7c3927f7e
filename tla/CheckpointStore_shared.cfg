SPECIFICATION Spec
CONSTANTS
  None = None
  Absent = Absent
  s1 = s1
  s2 = s2
  p1 = p1
  p2 = p2
  x = x
  y = y
  Sessions = {s1, s2}
  Paths = {p1, p2}
  Contents = {x, y}
  Size <- OneByte
  MaxStoreBytes = 1
  Kinds = {"write", "delete", "rename"}
  StepUndo = TRUE
  MixedFaults = FALSE
  MaxSteps = 2
  MaxCrashes = 1
  MaxErrors = 1
  MaxEdits = 1
INVARIANTS
  InFlightIsProtected
PROPERTIES
  RestoreReplacesOnlyRecorded
SYMMETRY Symmetry
CHECK_DEADLOCK FALSE
