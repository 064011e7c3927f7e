SPECIFICATION FairSpec
CONSTANTS
  None = None
  c1 = c1
  c2 = c2
  d1 = d1
  d2 = d2
  Calls = {c1, c2}
  BigCalls = {c1}
  Stoppers = {d1}
  MaxRestarts = 1
  MaxMisses = 2
  MaxConcurrentCalls = 1
INVARIANTS
  NoCallStranded
  ShutdownWaits
PROPERTIES
  KeepsPromise
  NobodyHangs
CHECK_DEADLOCK FALSE
