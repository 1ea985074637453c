------------------------------ MODULE MCParts ------------------------------
(* The four parts of Parts, for TLC to check in one run.                       *)
EXTENDS Parts, TLC

MCReadings == {-5, -1, 0, 3, 5, 9}
Symmetry == Permutations(Ip)
=============================================================================
