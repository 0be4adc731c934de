SPECIFICATION SteadySpec
CONSTANT Disturbances = {"edit", "refs", "engine", "crash", "restart", "agentError", "managerError"}
CONSTANT MaxDisturbances = 2
INVARIANT ReadyImpliesTunnelReady
INVARIANT SettledReconciledIsCurrent
PROPERTY AgentKeepsManagerConditions
PROPERTY AcceptedGenerationMonotone
CHECK_DEADLOCK FALSE
