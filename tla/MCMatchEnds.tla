---------------------------- MODULE MCMatchEnds ----------------------------
(* Two matches for TLC to end: a duel of two humans that replays draws, and a  *)
(* match against the CPU that a draw ends. Which of the two a behaviour plays  *)
(* is chosen at its start. The fairness is Match's, action by action.          *)
EXTENDS Naturals

VARIABLES which, phase, pc, timer, beat, scheduled, shootIn, picks, win, scored, seriesOver,
          between, abandon, offered, sent, left, ackAge, carried, acking, chan, post, thinking

Duel == INSTANCE Match WITH
    Bot <- FALSE, RoundsTarget <- 1, DrawEnds <- FALSE, CountSlots <- 1, Window <- 1,
    Lease <- 1, GateTimeout <- 2, SeriesBreak <- 1, Latency <- 0, Throwers <- {},
    MaxInFlight <- 1

CPU == INSTANCE Match WITH
    Bot <- TRUE, RoundsTarget <- 2, DrawEnds <- TRUE, CountSlots <- 2, Window <- 1,
    Lease <- 1, GateTimeout <- 2, SeriesBreak <- 2, Latency <- 1, Throwers <- {0},
    MaxInFlight <- 1

vars == <<which, Duel!vars>>

Either(duel, cpu) ==
    \/ which = "duel" /\ duel /\ UNCHANGED which
    \/ which = "cpu" /\ cpu /\ UNCHANGED which

Init == \/ which = "duel" /\ Duel!Init
        \/ which = "cpu" /\ CPU!Init
Next == Either(Duel!Next, CPU!Next)

(* The goroutine and the handlers in progress keep running; with one request   *)
(* in flight at a time, the sides' handlers are fair together. Time passes     *)
(* whatever the players send. A select picks at random among its ready cases,  *)
(* so a timer that keeps coming back ready is taken in the end.                *)
Fairness ==
    /\ WF_vars(Either(Duel!Run, CPU!Run)) /\ SF_vars(Either(Duel!Tick, CPU!Tick))
    /\ WF_vars(Either(Duel!Handler(0) \/ Duel!Handler(1), CPU!Handler(0)))
    /\ WF_vars(Either(FALSE, CPU!BotThrows \/ CPU!BotGivesUp))
    /\ SF_vars(Either(Duel!GateExpires, CPU!GateExpires))
    /\ SF_vars(Either(Duel!Deadline, CPU!Deadline))

Spec == Init /\ [][Next]_vars /\ Fairness

-----------------------------------------------------------------------------
(* A readiness gate that opens its wait ends it: with a countdown or with the  *)
(* match torn down.                                                            *)
GateResolves == pc = "gate" ~> (pc = "beats" \/ pc = "ended")

(* A departure ends the match, whatever it is in the middle of. *)
DepartureEndsMatch == (left[0] \/ left[1]) ~> pc = "ended"

(* A match that does not replay draws always ends. *)
AlwaysEnds == which = "cpu" ~> pc = "ended"
=============================================================================
