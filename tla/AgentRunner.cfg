SPECIFICATION FairSpec
CONSTANT Namings = {"explicit", "managed", "direct", "literal", "tcp", "rejected"}
CONSTANT Quota = 1
CONSTANT MaxFaults = 3
CONSTANT MaxEnds = 3
INVARIANT TypeOK
INVARIANT SessionsDoNotLeak
INVARIANT GuessIsNotRequested
PROPERTY HostnameStable
PROPERTY ImplementsSession
PROPERTY ShutsDown
PROPERTY Recovers
PROPERTY StaleOnlineEnds
CHECK_DEADLOCK FALSE
