------------------------------ MODULE MCRecord ------------------------------
(* The match history for TLC, over a stream that breaks nothing and loses      *)
(* nothing (MCClient has it with faults).                                      *)
EXTENDS Record

NoFaults == {[matches |-> 2, breaks |-> 0, losses |-> 0]}
=============================================================================
