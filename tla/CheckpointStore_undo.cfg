SPECIFICATION Spec
CONSTANTS
  None = None
  Absent = Absent
  s1 = s1
  s2 = s2
  p1 = p1
  p2 = p2
  x = x
  y = y
  Sessions = {s1}
  Paths = {p1, p2}
  Contents = {x, y}
  Size <- OneByte
  MaxStoreBytes = 1
  Kinds = {"write", "delete", "rename"}
  StepUndo = FALSE
  MixedFaults = TRUE
  MaxSteps = 3
  MaxCrashes = 2
  MaxErrors = 0
  MaxEdits = 0
INVARIANTS
  UndoRestoresAll
  UndoIsReady
  PruneIsExact
SYMMETRY Symmetry
CHECK_DEADLOCK FALSE
