------------------------------- MODULE MCAgent -------------------------------
(***************************************************************************)
(* Instances of module Agent: two clients, a network with a passphrase and *)
(* one whose EAP method has a private key passphrase and two secrets.      *)
(***************************************************************************)
EXTENDS Agent

MCNeeds == [n \in {1, 2} |-> IF n = 1 THEN <<"psk">> ELSE <<"user", "local", "password">>]

MCEnvs == {{"timeout", "range", "auto"}, {"timeout", "anqp"}, {"leave", "range"},
           {"leave", "auto", "anqp"}, {"timeout", "leave", "range"}}
=============================================================================
