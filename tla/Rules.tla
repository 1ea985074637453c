------------------------------- MODULE Rules -------------------------------
(* The scoring rules of a round: game.go's EvaluateRound and round.go's       *)
(* judgeRound, with the series decision judge() takes from a scored round.    *)
(* Everything here is a pure operator; Match.tla calls them, MCRules.tla      *)
(* checks them against reference definitions over every pair of picks.        *)
EXTENDS Integers

Side == {0, 1}
Other(i) == 1 - i

Move == {"rock", "paper", "scissors"}
Result == {"win", "loss", "draw", "void"}

(* winsAgainst[m] is the move m beats *)
WinsAgainst == [m \in Move |->
    CASE m = "rock" -> "scissors" [] m = "paper" -> "rock" [] m = "scissors" -> "paper"]

EvaluateRound(p1, p2) ==
    IF p1 = p2 THEN "draw" ELSE IF WinsAgainst[p1] = p2 THEN "win" ELSE "loss"

(* When a pick arrived, relative to the window [shootAt, deadline] of the      *)
(* round that judges it; "none" is a round the side never picked in.           *)
Arrival == {"none", "early", "in", "late"}

(* mutant: a silence is scored like a pick that came too early *)
NoteEarly(arrive) == IF arrive = "in" THEN "" ELSE "early"
(* pickOutcome.note: empty for a valid pick *)
Note(arrive) == CASE arrive = "none" -> "timeout"
                  [] arrive = "in"   -> ""
                  [] OTHER           -> arrive

Valid(arrive) == Note(arrive) = ""

(* judgeRound: the result of each side, from when each pick arrived and which  *)
(* move it was. The third case is the code's: it names side 0 the loser when   *)
(* side 1's pick was early or late.                                            *)
JudgeRound(arrive, move) ==
    IF ~Valid(arrive[0]) /\ ~Valid(arrive[1]) THEN [i \in Side |-> "draw"]
    ELSE IF ~Valid(arrive[0])
         THEN [i \in Side |-> IF i = 1 THEN "win"
                              ELSE IF Note(arrive[0]) = "timeout" THEN "void" ELSE "loss"]
    ELSE IF ~Valid(arrive[1])
         THEN IF Note(arrive[1]) = "timeout"
              THEN [i \in Side |-> IF i = 0 THEN "win" ELSE "void"]
              ELSE [i \in Side |-> IF i = 0 THEN "loss" ELSE "win"]
    ELSE LET r == EvaluateRound(move[0], move[1])
         IN CASE r = "draw" -> [i \in Side |-> "draw"]
              [] r = "win"  -> [i \in Side |-> IF i = 0 THEN "win" ELSE "loss"]
              [] OTHER      -> [i \in Side |-> IF i = 0 THEN "loss" ELSE "win"]

(* judge's tally: a decisive win is worth one, everything else nothing *)
Tally(win, res) == [i \in Side |-> IF res[i] = "win" THEN win[i] + 1 ELSE win[i]]

(* seriesMatch: does the match play more than one round? *)
SeriesMatch(bot, drawEnds) == bot \/ ~drawEnds

(* mutant: one win too many is asked for *)
SeriesOverLate(bot, drawEnds, target, win, res) ==
    \/ ~SeriesMatch(bot, drawEnds)
    \/ \E i \in Side : win[i] > target
    \/ drawEnds /\ res[0] = "draw"
(* mutant: only the target ends a match *)
SeriesOverAtTarget(bot, drawEnds, target, win, res) == \E i \in Side : win[i] >= target
(* judge's seriesOver, from the tally that already includes this round *)
SeriesOver(bot, drawEnds, target, win, res) ==
    \/ ~SeriesMatch(bot, drawEnds)
    \/ \E i \in Side : win[i] >= target
    \/ drawEnds /\ res[0] = "draw"
=============================================================================
