------------------------------- MODULE MCScan -------------------------------
(* Small instances of Scan: two request objects that are reused when freed. *)
EXTENDS Scan, TLC

CONSTANTS r1, r2

MCReqs == {r1, r2}

Symmetry == Permutations(MCReqs)

=============================================================================
