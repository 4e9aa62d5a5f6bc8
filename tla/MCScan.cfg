SPECIFICATION FairSpec
CONSTANTS
    r1 = r1
    r2 = r2
    Other = other
    Reqs <- MCReqs
    MaxCmds = 2
    MaxEvents = 2
    Envs = {{"ext_scan", "ext_abort", "other_work"},
            {"ext_scan", "ext_abort", "slow_dump", "periodic"},
            {"trigger_fails", "late_cancel", "periodic"}, {"trigger_fails", "other_work"}}
INVARIANTS
    Inv
    SuccessIsComplete
PROPERTIES
    ContinuesOwnRequest
    RequestsEnd
\* Nobody has to ask for another scan: an idle context may stay idle.
CHECK_DEADLOCK FALSE
