SPECIFICATION Spec
CONSTANTS
  None = None
  Mine = Mine
  s1 = s1
  s2 = s2
  m1 = m1
  m2 = m2
  m3 = m3
  k1 = k1
  Skills = {s1, s2}
  Memories = {m1, m2}
  Known = {k1}
  Subject <- MCSubject
  Content <- MCContent
  MaxPending = 2
  MaxKept = 2
  MaxRestarts = 2
  MaxProposed = 2
INVARIANTS
  MemberSeesDecisions
  KeptIsReal
  ContradictionsHold
PROPERTIES
  DecisionsAreFinal
SYMMETRY Symmetry
CHECK_DEADLOCK FALSE
