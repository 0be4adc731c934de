SPECIFICATION Spec
CONSTANT c1 = c1
CONSTANT Conns = {c1}
CONSTANT Buffer = 2
CONSTANT Services <- MCServices
CONSTANT Targets <- MCTargets
INVARIANT AcceptedMeansValid
CHECK_DEADLOCK FALSE
