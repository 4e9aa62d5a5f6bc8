------------------------------ MODULE MCEapTls ------------------------------
(***************************************************************************)
(* Instances of module EapTls: an MTU of 16 octets, of which 10 carry data *)
(* (6 in the first fragment), and a server that sends 5 at once.           *)
(***************************************************************************)
EXTENDS EapTls

MCEnvs == {{}, {"peap"}, {"redundant", "incr"}, {"peap", "redundant", "canned"},
           {"noM"}, {"canned", "badcert"}, {"peap", "badinner", "incr"},
           {"reject", "wrap"}, {"peap", "slow"}, {"nak", "notify"},
           {"peap", "notify", "noM"}, {"peap", "badtlv"}}
=============================================================================
