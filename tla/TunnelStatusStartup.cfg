SPECIFICATION FairSpec
CONSTANT Disturbances = {"edit", "refs", "engine", "crash", "restart", "agentError"}
CONSTANT MaxDisturbances = 1
INVARIANT TypeOK
INVARIANT SettledStatusIsCurrent
PROPERTY Quiesces
CHECK_DEADLOCK FALSE
