SPECIFICATION SteadySpec
CONSTANT Disturbances = {"refs", "managerError"}
CONSTANT MaxDisturbances = 2
INVARIANT MissingReferenceIsReported
CHECK_DEADLOCK FALSE
