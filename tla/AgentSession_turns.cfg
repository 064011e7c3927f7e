SPECIFICATION Spec
CONSTANTS
  None = None
  ask = ask
  write = write
  shell = shell
  bogus = bogus
  CoreTools = {ask}
  FileTools = {write}
  ShellTools = {shell}
  NoTools = {bogus}
  Effectful = {ask, write, shell}
  Untrusted = {ask, shell}
  Guarded = {ask}
  Goals <- TwoGoals
  MaxAttempts = 2
  MaxSteps = 2
  MaxCallsPerStep = 2
  OwnIds = TRUE
  MaxReply = 2
  MaxCalls = 2
  MaxTasks = 2
  MaxDecisions = 2
INVARIANTS
  RequestsAreWhole
  AnswerIsItsOwn
  DecisionsHold
PROPERTIES
  NoUnapprovedEffect
  SuccessIsEarned
  EveryTaskEnds
CHECK_DEADLOCK FALSE
