--------------------------------- MODULE MCAp ---------------------------------
(***************************************************************************)
(* Instances of module Ap: two stations, one subnet.                       *)
(***************************************************************************)
EXTENDS Ap

CONSTANTS s1, s2

MCEnvs == {{}, {"dhcp", "refuse"}, {"fullmac", "down"}, {"bad", "down"}, {"dhcp", "noserver"}}

\* Stop, and then the interface goes down.
GoneEnvs == {{"down", "gone"}}
===============================================================================
