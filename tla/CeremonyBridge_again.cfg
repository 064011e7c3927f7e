SPECIFICATION Spec
CONSTANTS
  None = None
  p1 = p1
  p2 = p2
  p3 = p3
  c1 = c1
  c2 = c2
  Skills = {t1, t2}
  Proposals = {p1, p2, p3}
  EffectsOf <- Again
  Requests = {q1, q2}
  MaxConcurrentSkills = 2
  MaxLogErrors = 1
INVARIANTS
  FirstReleaseIsWriteAhead
  AnswersAreOnRecord
  EveryReleaseWasReviewed
PROPERTIES
  KeepsPromise
SYMMETRY Symmetry
CHECK_DEADLOCK FALSE
