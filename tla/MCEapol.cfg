SPECIFICATION FairSpec
CONSTANTS
    FrameRetries = 3
    MaxFaults = 2
    MaxRekeys = 2
    Envs = {{"lossy", "early", "mfp", "group"}, {"lossy", "wpa1"}, {"slow", "faults", "same_anonce"},
            {"slow", "rekey", "group"}, {"faults", "rekey"}, {"faults", "group"}, {"psk"}, {"key_errors", "mfp", "group"}, {"key_errors", "wpa1"},
            {"no_rekey", "rekey"}}
INVARIANTS
    IInv
    NoReinstallation
PROPERTIES
    GroupKeysAdvance
    Completes
CHECK_DEADLOCK FALSE
