------------------------------ MODULE MCMatch ------------------------------
(* The match engine and the story it implements, for TLC.                      *)
EXTENDS MatchStory

(* A match of two humans: nobody thinks, so these are all of Next's steps *)
NextOfHumans ==
    \/ Run
    \/ \E i \in Side : Leave(i) \/ ReadyAdmitted(i) \/ MoveStamped(i) \/ Handler(i)
    \/ Tick

SpecOfHumans == Init /\ [][NextOfHumans]_vars
=============================================================================
