SPECIFICATION Spec
CONSTANT Disturbances = {"refs"}
CONSTANT MaxDisturbances = 1
INVARIANT ResolvedMeansReferencesExist
CHECK_DEADLOCK FALSE
