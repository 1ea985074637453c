------------------------------- MODULE Stats -------------------------------
(* The statistics a browser keeps (web/app.js): folded, result by result, into *)
(* what its storage holds. Every tab of the browser folds into the same.       *)
EXTENDS Naturals, Sequences, FiniteSets

CONSTANT MaxTold \* results (a bound)

VARIABLES
    stats, \* kxp-stats
    told   \* aux: every outcome so far

vars == <<stats, told>>

Outcome == {"win", "loss", "draw", "void"}

Init == stats = [wins |-> 0, streak |-> 0, best |-> 0, last |-> 0] /\ told = <<>>

(* mutant: a loss without a run before it clears the last one *)
AfterLossAlways(s) == [s EXCEPT !.last = s.streak, !.streak = 0]
(* applyResult (web/kxp.js) *)
AfterWin(s) ==
    [s EXCEPT !.wins = @ + 1, !.streak = @ + 1,
              !.best = IF s.streak + 1 > @ THEN s.streak + 1 ELSE @]
AfterLoss(s) == [s EXCEPT !.last = IF s.streak > 0 THEN s.streak ELSE @, !.streak = 0]
ApplyResult(s, outcome) ==
    CASE outcome = "win" -> AfterWin(s) [] outcome = "loss" -> AfterLoss(s) [] OTHER -> s

Result(outcome) ==
    /\ Len(told) < MaxTold
    /\ stats' = ApplyResult(stats, outcome)
    /\ told' = Append(told, outcome)

Next == \E outcome \in Outcome : Result(outcome)

Spec == Init /\ [][Next]_vars
-----------------------------------------------------------------------------
(* A run lies between two losses, or a loss and an end of the story, with no   *)
(* other loss between them; its length is how many wins lie there.             *)
Lost(s) == {i \in 1..Len(s) : s[i] = "loss"}
Won(s, i, j) == {k \in (i + 1)..(j - 1) : s[k] = "win"}
Runs(s) ==
    {r \in (Lost(s) \union {0}) \X (Lost(s) \union {Len(s) + 1}) :
        r[1] < r[2] /\ \A k \in Lost(s) : ~(r[1] < k /\ k < r[2])}
Length(s, r) == Cardinality(Won(s, r[1], r[2]))

(* The statistics are those of the runs of wins that draws and no-contests do  *)
(* not break: all wins, the run that goes on, the longest, and the last that   *)
(* was lost (applyResult).                                                     *)
StatsAreTheRuns ==
    /\ stats.wins = Cardinality(Won(told, 0, Len(told) + 1))
    /\ \A r \in Runs(told) : r[2] = Len(told) + 1 => stats.streak = Length(told, r)
    /\ \A r \in Runs(told) : Length(told, r) <= stats.best
    /\ \E r \in Runs(told) : Length(told, r) = stats.best
    /\ LET lost == {r \in Runs(told) : r[2] <= Len(told) /\ Length(told, r) > 0} IN
       IF lost = {} THEN stats.last = 0
       ELSE \E r \in lost : stats.last = Length(told, r) /\ \A o \in lost : o[2] <= r[2]
=============================================================================
