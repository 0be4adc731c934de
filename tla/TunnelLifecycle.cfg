SPECIFICATION FairSpec
CONSTANT Kinds = {"ConfigMap", "ServiceAccount", "RoleBinding", "Deployment"}
CONSTANT Managers = {m1}
CONSTANT MaxIncarnations = 2
CONSTANT MaxDeletions = 2
CONSTANT Disturbances = {"Deployment", "restart", "call"}
CONSTANT MaxDisturbances = 2
INVARIANT TypeOK
INVARIANT ChildrenHaveOwner
INVARIANT DeploymentIsEquipped
PROPERTY DeletionCompletes
PROPERTY ChildrenConverge
CHECK_DEADLOCK FALSE
