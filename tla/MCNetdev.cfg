SPECIFICATION FairSpec
CONSTANTS
    MaxConnects = 3
    MaxRounds = 1
    Envs <- MCEnvs
INVARIANTS
    Inv
    OkMeansConnected
    NothingLeftBehind
PROPERTIES
    Answered
    KeepsContract
\* Nobody has to ask for another connection.
CHECK_DEADLOCK FALSE
