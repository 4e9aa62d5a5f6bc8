SPECIFICATION FairSpec
CONSTANTS
    sta = sta
    ap = ap
    Sta = sta
    Ap = ap
    EccGroups <- MCEccGroups
    SaeSyncMax = 1
    SaeMaxAssocRetry = 3
    MaxFaults = 3
    MaxTimeouts = 4
    Envs = {{}, {"ap_greater"}, {"passwords", "reflect"}, {"faults"}, {"cold", "unsupp"},
            {"unsupp", "token", "refuse"}, {"unsupp", "faults", "ap_greater"}}
INVARIANTS
    IInv
PROPERTIES
    NoReplayedAssociation
    BothAccept
\* The protocol ends, accepted or failed.
CHECK_DEADLOCK FALSE
