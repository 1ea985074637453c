------------------------------ MODULE MCClient ------------------------------
(* The three parts of Client, for TLC to check in one run.                     *)
EXTENDS Client, TLC

CONSTANTS ann, bob, eve, firstTo3

ThreeMatches == {[matches |-> 3, breaks |-> 1, losses |-> 1]}
TwoMatches == {[matches |-> 2, breaks |-> 1, losses |-> 1]}
OnePair == {firstTo3}
Everybody == {ann, bob, eve}
OneChoice == {bob}
OneRoster == {<<ann, bob, eve>>}
Climbers == [order : {<<eve, bob, ann>>}, floor : {2}, cleared : {FALSE},
             won : {0}, spent : {0}, lost : {FALSE}]
            \union [order : {<<eve, bob, ann>>}, floor : {1}, cleared : {TRUE},
                    won : {0}, spent : {0}, lost : {FALSE}]
Symmetry == Permutations(Tab)
=============================================================================
