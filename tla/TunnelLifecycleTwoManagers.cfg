SPECIFICATION FairSpec
CONSTANT Kinds = {"Deployment"}
CONSTANT Managers = {m1, m2}
CONSTANT MaxIncarnations = 2
CONSTANT MaxDeletions = 1
CONSTANT Disturbances = {}
CONSTANT MaxDisturbances = 0
INVARIANT SettledIsNotFinalizing
PROPERTY FinalizeSparesOthers
PROPERTY DeletionCompletes
PROPERTY NothingRemains
CHECK_DEADLOCK FALSE
