--------------------------- MODULE MCAgentSession ---------------------------
EXTENDS AgentSession

CONSTANTS ask, write, shell, bogus

OneGoal == <<write>>
TwoGoals == <<ask, write>>
=============================================================================
