------------------------------ MODULE MCRules ------------------------------
(* Every pair of picks scored, and the match decided on it from every tally   *)
(* it can be reached with, against reference definitions.                      *)
EXTENDS Rules

CONSTANT MaxTarget

VARIABLES bot, drawEnds, target, win, arrive, move, res
vars == <<bot, drawEnds, target, win, arrive, move, res>>

Unjudged == [i \in Side |-> "none"]

Init ==
    /\ bot = FALSE /\ drawEnds = FALSE /\ target = 0
    /\ win = [i \in Side |-> 0] /\ arrive = Unjudged /\ move = [i \in Side |-> "rock"]
    /\ res = Unjudged

(* A match of any kind, its tally and the picks of its round *)
Play ==
    /\ target = 0 /\ UNCHANGED res
    /\ bot' \in BOOLEAN /\ drawEnds' \in BOOLEAN /\ target' \in 1..MaxTarget
    /\ win' \in [Side -> 0..(target' - 1)]
    /\ arrive' \in [Side -> Arrival]
    /\ move' \in [Side -> Move]

Judge ==
    /\ target > 0 /\ res = Unjudged
    /\ res' = JudgeRound(arrive, move)
    /\ win' = Tally(win, res')
    /\ UNCHANGED <<bot, drawEnds, target, arrive, move>>

Next == Play \/ Judge

Spec == Init /\ [][Next]_vars

Judged == res # Unjudged

(* Connectivity-safe scoring: a player who never threw is not charged with a  *)
(* loss, and never takes the round; a lone valid pick against a silence wins.  *)
SilenceIsVoid ==
    Judged => \A i \in Side :
        /\ arrive[i] = "none" => res[i] \in {"void", "draw"}
        /\ arrive[i] = "in" /\ arrive[Other(i)] = "none" => res[i] = "win"
        /\ res[i] = "void" => arrive[i] = "none" /\ res[Other(i)] = "win"

(* A match that goes on has no side at its target and had a reason to go on:   *)
(* the CPU opponent, or draws that replay. One that ends by the rules of a      *)
(* series ends on a side that reached the target in this very round.           *)
OverForAReason ==
    Judged =>
        LET over == SeriesOver(bot, drawEnds, target, win, res)
            reached == {i \in Side : win[i] = target}
        IN /\ ~over => reached = {} /\ (bot \/ ~drawEnds) /\ ~(drawEnds /\ res[0] = "draw")
           /\ over /\ ~drawEnds => \E i \in reached : reached = {i} /\ res[i] = "win"

(* README, and the comment in judgeRound: an early or late pick loses the      *)
(* round. judgeRound gives the win to side 1 whenever side 1's pick is early   *)
(* or late and side 0's is valid.                                              *)
FoulLosesToValid ==
    Judged => \A i \in Side :
        arrive[i] \in {"early", "late"} /\ arrive[Other(i)] = "in"
            => res[i] = "loss" /\ res[Other(i)] = "win"
=============================================================================
