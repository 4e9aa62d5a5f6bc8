------------------------------ MODULE MCStation ------------------------------
(***************************************************************************)
(* Instances of module Station: two access points of network 1, which is   *)
(* known at the start, and one of network 2.                               *)
(***************************************************************************)
EXTENDS Station

MCNetworkOf == [b \in {1, 2, 3} |-> IF b = 3 THEN 2 ELSE 1]

MCEnvs ==
    {{"connect", "disconnect", "forget", "refuse", "badpass", "drop", "temporary", "range"},
     {"connect", "disconnect", "hidden", "ending", "drop", "refuse"},
     {"disconnect", "forget", "ending", "scan", "drop", "down", "range"},
     {"connect", "hidden", "scanfail", "refuse", "forget"},
     {"refuse", "expire", "range", "scan", "scanfail", "temporary"},
     {"refuse", "unusable", "range", "drop", "expire"},
     {"netconfig", "connect", "disconnect", "drop", "ending", "down"},
     {"rekey", "refuse", "drop", "scan", "down"},
     {"rekey", "refuse", "temporary", "drop", "range"},
     {"btm", "nr", "drop", "disconnect", "refuse", "poor", "ending", "scan", "down"},
     {"btm", "low", "nr", "preauth", "disconnect", "drop"},
     {"low", "nr", "poor", "scanfail", "nofreqs", "refuse"},
     {"low", "btm", "ftds", "range", "scan", "drop", "nr"},
     {"low", "nr", "btm", "preauth", "down", "scan"},
     {"low", "btm", "unusable", "refuse", "nr"},
     {"low", "btm", "unusable", "ftds", "poor"},
     {"btm", "unusable", "preauth", "disconnect", "drop"}}

\* A user who disconnects while a quick scan waits for the radio.
DisconnectEnvs == {{"disconnect", "scanfail"}}
=============================================================================
