SPECIFICATION FairSpec
CONSTANT global = global
CONSTANT regional = regional
CONSTANT own = own
CONSTANT eu = eu
CONSTANT auth = auth
CONSTANT access = access
CONSTANT Secrets = {auth, access}
CONSTANT Keys = {"value"}
CONSTANT Regions = {eu}
CONSTANT Engines = {global, regional, own}
CONSTANT AutoRegion = AutoRegion
CONSTANT None = None
CONSTANT Specs <- MCSpecs
CONSTANT Planes <- MCPlanes
CONSTANT MaxDisturbances = 3
INVARIANT TypeOK
INVARIANT SettledStatusIsCurrent
PROPERTY StatusConverges
CHECK_DEADLOCK FALSE
