----------------------------- MODULE MatchStory -----------------------------
(* The match engine seen by its players: the refinement mapping from Match to  *)
(* Series.                                                                     *)
EXTENDS Match

Story == INSTANCE Series WITH
    Player <- Human, Gated <- ~Bot,
    failed <- (abandon # ""), heard <- [i \in Human |-> sent[i]]

(* Each human side is told a story Series allows: a match announced at most    *)
(* once, every round counted down, opened, closed and answered once, the gate  *)
(* open before the result that invites to it, one ending, and never back to    *)
(* idle without one.                                                           *)
TellsAStory == Story!Spec
=============================================================================
