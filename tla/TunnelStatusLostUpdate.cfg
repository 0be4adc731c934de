SPECIFICATION FairSpec
CONSTANT Disturbances = {}
CONSTANT MaxDisturbances = 0
PROPERTY OnlineIsReported
CHECK_DEADLOCK FALSE
