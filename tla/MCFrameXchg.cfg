SPECIFICATION FairSpec
CONSTANTS
    f1 = f1
    f2 = f2
    Fx = {f1, f2}
    Other = Other
    Kinds <- MCKinds
    MaxRetries = 2
    MaxBusy = 1
    Cookies = {1, 2, 3}
    Envs = {{"strange", "frames", "oneshot"}, {"cancel", "frames", "oneshot"},
            {"refused", "other", "busy"}}
INVARIANTS
    OneOutcome
    IInv
PROPERTIES
    ExchangesEnd
CHECK_DEADLOCK FALSE
