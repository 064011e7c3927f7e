SPECIFICATION BreakGlassSpec
CONSTANTS
  None = None
  s1 = s1
  s2 = s2
  s3 = s3
  Actions = {a1, a2, a3}
  Payloads = {x1, x2}
  Signers = {s1, s2, s3}
  Roster <- Enrolled
  Eligible = {a1, a2, a3}
  Itar = {a3}
  AffirmationWindow = 2
  MaxTime = 4
  MaxSurfaced = 2
INVARIANTS
  AffirmedByTwoOthers
PROPERTIES
  ReportedOutcomeStands
CHECK_DEADLOCK FALSE
