-------------------------------- MODULE MCParks --------------------------------
(***************************************************************************)
(* Instances of Parks for TLC.                                             *)
(***************************************************************************)
EXTENDS Parks, TLC

CONSTANTS p1, p2, r1, d1, d2, k1, k2

MCRunOf == [p \in Park |-> r1]
MCOnExpiry == [p \in Park |-> IF p = p1 THEN "kill" ELSE "resume"]
MCSymmetry == Permutations(Drive) \cup Permutations(Door)
=============================================================================
