SPECIFICATION Spec
CONSTANTS
    Clients = {a1, a2}
    Networks = {1, 2}
    Needs <- MCNeeds
    MaxCalls = 2
    Envs <- MCEnvs
INVARIANTS
    Inv
    WaitsForAgent
PROPERTIES
    Answered
CHECK_DEADLOCK FALSE
