------------------------------- MODULE MCNetdev -------------------------------
(***************************************************************************)
(* Instances of module Netdev: what a client, a driver and an access point *)
(* may do in one behaviour.  Combinations that meet a known hazard are     *)
(* left out; README.md lists them.                                         *)
(***************************************************************************)
EXTENDS Netdev

MCEnvs ==
    {{"eapol", "open", "abort", "early", "refuse", "drop", "hsfail"},
     {"eapol", "reassoc", "refuse", "drop", "hsfail"},
     {"eapol", "rekey", "reassoc", "drop"},
     {"eapol", "rekey", "hsfail", "abort"},
     {"eapol", "saquery", "drop", "abort"},
     {"eapol", "ft", "ftds", "refuse", "drop", "hsfail"},
     {"eapol", "ft", "nostart"},
     {"eapol", "noeapol", "early"},
     {"eapol", "mac", "refuse", "early"},
     {"ap", "mac", "nostart", "refuse"},
     {"ap", "retry", "enoent", "refuse", "hsfail"},
     {"ap", "retry", "abort", "hsfail"},
     {"ap", "owe", "reassoc"},
     {"ap", "ft", "drop", "twice"}}
=============================================================================
