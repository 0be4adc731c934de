SPECIFICATION FairSpec
CONSTANT c1 = c1
CONSTANT Conns = {c1}
CONSTANT Buffer = 2
CONSTANT Services <- MCServices
CONSTANT Targets <- MCTargets
INVARIANT TypeOK
INVARIANT PortFitsTunnel
INVARIANT TargetRejectedRightly
INVARIANT RefusedForKnownReasons
INVARIANT RequestIsCoherent
PROPERTY CutsNothing
PROPERTY ReleasesConnections
PROPERTY StopsServing
CHECK_DEADLOCK FALSE
