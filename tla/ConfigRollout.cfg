SPECIFICATION FairBehaviour
CONSTANT ours = ours
CONSTANT theirs = theirs
CONSTANT svc = svc
CONSTANT auth = auth
CONSTANT other = other
CONSTANT Connections = {ours, theirs}
CONSTANT Services = {svc}
CONSTANT Secrets = {auth, other}
CONSTANT None = None
CONSTANT References <- MCReferences
CONSTANT FirstInputs <- MCFirstInputs
CONSTANT MaxDisturbances = 2
INVARIANT TypeOK
INVARIANT HashTracksPodSecrets
INVARIANT ReconciledIsRolledOut
INVARIANT PodIsCurrent
PROPERTY RolloutCompletes
CHECK_DEADLOCK FALSE
