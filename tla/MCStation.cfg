SPECIFICATION FairSpec
CONSTANTS
    Bsses = {1, 2, 3}
    NetworkOf <- MCNetworkOf
    Envs <- MCEnvs
INVARIANTS
    Inv
    AutoconnectAlive
PROPERTIES
    NoUnaskedConnect
    Settles
    KeepsContract
\* A station that is gone does nothing more.
CHECK_DEADLOCK FALSE
