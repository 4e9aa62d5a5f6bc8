-------------------------------- MODULE MCSae -------------------------------
(* Small instances of Sae: the station prefers a group the access point does *)
(* not refuse at first, and has one the access point does not know.          *)
EXTENDS Sae, TLC

CONSTANTS sta, ap

MCEccGroups == (sta :> <<19, 20, 21>>) @@ (ap :> <<19, 20>>)

=============================================================================
