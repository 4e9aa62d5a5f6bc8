SPECIFICATION Spec
CONSTANTS
    Mtu = 16
    Chunk = 5
    ClientSizes = {4, 10, 17}
    ServerSizes = {4, 11}
    IdMod = 16
    MaxLost = 2
    MaxExtra = 1
    Envs <- MCEnvs
INVARIANTS
    Inv
    Intact
    NoFalseFailure
PROPERTIES
    Ends
CHECK_DEADLOCK FALSE
