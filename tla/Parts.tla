------------------------------- MODULE Parts -------------------------------
(* Four parts that share nothing, side by side: the rules of a round, the rate *)
(* limiter, a round on the page's clock and the statistics of a browser. Which *)
(* one a behaviour is of is chosen at its start.                               *)
EXTENDS RateLimiter

CONSTANTS MaxTarget, Window, Readings, Steps, MaxTold, Never

ASSUME PartsAssumption ==
    /\ MaxTarget \in Nat \ {0} /\ Window \in Nat /\ Steps \in Nat /\ MaxTold \in Nat
    /\ Readings \subseteq Int /\ Never \notin Int

VARIABLES
    part,
    bot, drawEnds, target, win, arrive, move, res,
    now, err, next, screen, label, planned, last, slotAt, punAt, shootAt, moves, steps, hi, lo, right,
    stats, told

rules == <<bot, drawEnds, target, win, arrive, move, res>>
clock == <<now, err, next, screen, label, planned, last, slotAt, punAt, shootAt, moves, steps,
           hi, lo, right>>
kept == <<stats, told>>

Rules == INSTANCE MCRules
Round == INSTANCE Clock WITH Errs <- Readings
Kept == INSTANCE Stats

PartsInit ==
    /\ part \in {"rules", "limiter", "clock", "stats"}
    /\ Rules!Init /\ Init /\ Round!Init /\ Kept!Init

PartsNext ==
    /\ UNCHANGED part
    /\ \/ part = "rules" /\ Rules!Next /\ UNCHANGED <<vars, clock, kept>>
       \/ part = "limiter" /\ Next /\ UNCHANGED <<rules, clock, kept>>
       \/ part = "clock" /\ Round!Next /\ UNCHANGED <<rules, vars, kept>>
       \/ part = "stats" /\ Kept!Next /\ UNCHANGED <<rules, vars, clock>>

PartsSpec == PartsInit /\ [][PartsNext]_<<part, rules, vars, clock, kept>>
-----------------------------------------------------------------------------
(* A silence is charged to nobody (judgeRound): see MCRules.                   *)
SilenceIsVoid == Rules!SilenceIsVoid

(* A series ends when it is won, and not before (judge): see MCRules.          *)
OverForAReason == Rules!OverForAReason

(* The page's window is the server's but for its clock's error: see Clock.     *)
WindowIsTheServers == Round!WindowIsTheServers

(* One countdown frame is enough to play the round: see Clock.                 *)
OneFrameOpensTheWindow == Round!OneFrameOpensTheWindow

(* The beat on the screen is the one that is due: see Clock.                   *)
CountIsDue == Round!CountIsDue

(* The statistics are those of the runs of wins: see Stats.                    *)
StatsAreTheRuns == Kept!StatsAreTheRuns
=============================================================================
