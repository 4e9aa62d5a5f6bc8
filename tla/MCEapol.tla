------------------------------ MODULE MCEapol -------------------------------
(* Small instances of Eapol: Envs picks what the channel and the access point *)
(* do, one combination at a time.                                            *)
EXTENDS Eapol

=============================================================================
