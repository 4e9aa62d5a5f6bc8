---------------------------- MODULE MCRadioWork ----------------------------
(* Small instances of RadioWork: one frame exchange, one connection attempt *)
(* and two scans, with the priorities of src/src/wiphy.h.                    *)
EXTENDS RadioWork

CONSTANTS frame, connect, scan1, scan2

MCItems == {frame, connect, scan1, scan2}

MCPriority ==
    [i \in MCItems |-> CASE i = frame -> 0 [] i = connect -> 1 [] OTHER -> 2]

=============================================================================
