SPECIFICATION Spec
CONSTANTS
    s1 = s1
    s2 = s2
    Stations = {s1, s2}
    Subnets = {1}
    MaxFrames = 5
    MaxUp = 2
    MaxStarts = 2
    Envs <- GoneEnvs
INVARIANTS
    ReleasedOnce
CHECK_DEADLOCK FALSE
