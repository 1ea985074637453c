------------------------------- MODULE Series -------------------------------
(* What a match promises to its players, and nothing of how: the frames each   *)
(* of them hears, in which order, and what the request handlers read of the    *)
(* match meanwhile. Match implements it.                                       *)

CONSTANTS
    Player, \* those who hear of the match
    Gated   \* a readiness gate stands between two rounds (no CPU opponent)

VARIABLES
    phase,    \* of the match
    between,  \* a gate between two rounds is open, or about to be
    failed,   \* a handshake has failed
    heard     \* the last frame sent to each player

story == <<phase, between, failed, heard>>

Frames == {"none", "matched", "countdown", "shoot", "result", "final", "opponentLeft",
           "forfeitWin", "forfeitLoss", "idle"}
Decided == {"final", "opponentLeft", "forfeitWin", "forfeitLoss"}

Init == phase = "preparing" /\ ~between /\ ~failed /\ heard = [p \in Player |-> "none"]

(* The opening handshake: announced once, and then it succeeds or the match is *)
(* called off. Who is never told of a match is told of a departure at most.    *)
Announce(p) ==
    /\ phase = "preparing" /\ heard[p] = "none"
    /\ heard'[p] = "matched"
    /\ UNCHANGED <<phase, between, failed>>

CallOff(p) ==
    /\ phase = "preparing"
    /\ phase' = "done"
    /\ \/ heard[p] = "matched" /\ failed' = TRUE /\ UNCHANGED heard[p]
       \/ heard[p] = "none" /\ heard'[p] \in {"none", "opponentLeft"} /\ UNCHANGED failed
    /\ UNCHANGED between

Start(p) ==
    /\ phase = "preparing" /\ heard[p] = "matched"
    /\ phase' = "countdown"
    /\ UNCHANGED <<between, failed, heard[p]>>

(* A round: counted down, opened, closed, and answered by exactly one result *)
Count(p) ==
    /\ phase = "countdown" /\ ~between
    /\ heard[p] \in {"matched", "result", "countdown"}
    /\ heard'[p] = "countdown"
    /\ UNCHANGED <<phase, between, failed>>

Pun(p) ==
    /\ phase = "countdown" /\ ~between /\ heard[p] = "countdown"
    /\ phase' = "shoot" /\ heard'[p] = "shoot"
    /\ UNCHANGED <<between, failed>>

Close(p) ==
    /\ phase = "shoot" /\ heard[p] = "shoot"
    /\ phase' = "done"
    /\ UNCHANGED <<between, failed, heard[p]>>

(* The gate is open before the result that invites the player to it is sent *)
OpenGate(p) ==
    /\ Gated /\ phase = "done" /\ heard[p] = "shoot" /\ ~between
    /\ between' = TRUE
    /\ UNCHANGED <<phase, failed, heard[p]>>

Result(p) ==
    /\ phase = "done" /\ heard[p] = "shoot"
    /\ heard'[p] \in IF between THEN {"result"} ELSE IF Gated THEN {"final"} ELSE {"result", "final"}
    /\ UNCHANGED <<phase, between, failed>>

(* Between two rounds: the pause, and the gate behind it *)
NextRound(p) ==
    /\ phase = "done" /\ heard[p] = "result" /\ ~failed /\ between = Gated
    /\ phase' = "countdown"
    /\ UNCHANGED <<between, failed, heard[p]>>

GatePassed(p) ==
    /\ phase = "countdown" /\ between /\ heard[p] = "result"
    /\ between' = FALSE
    /\ UNCHANGED <<phase, failed, heard[p]>>

GateFails(p) ==
    /\ phase = "countdown" /\ between /\ heard[p] = "result"
    /\ phase' = "done" /\ failed' = TRUE
    /\ heard'[p] \in {"result", "forfeitWin", "forfeitLoss"}
    /\ UNCHANGED between

Forfeit(p) ==
    /\ phase = "done" /\ between /\ failed /\ heard[p] = "result"
    /\ heard'[p] \in {"forfeitWin", "forfeitLoss"}
    /\ UNCHANGED <<phase, between, failed>>

GateWithdrawn(p) ==
    /\ phase = "done" /\ between /\ failed
    /\ between' = FALSE
    /\ UNCHANGED <<phase, failed, heard[p]>>

(* A departure in the middle of a round *)
BreakOff(p) ==
    /\ phase \in {"countdown", "shoot"} /\ ~between
    /\ phase' = "done"
    /\ heard'[p] \in {heard[p], "opponentLeft"}
    /\ UNCHANGED <<between, failed>>

(* The player goes idle once it knows how the match ended, or with the reason  *)
(* why it will not go on.                                                      *)
Release(p) ==
    /\ phase = "done" /\ ~between
    /\ heard[p] \in Decided \union (IF failed THEN {"matched", "result"} ELSE {})
    /\ heard'[p] = "idle"
    /\ UNCHANGED <<phase, between, failed>>

(* One step of the match is a step, or none, in the story of each player *)
Step(p) ==
    \/ Announce(p) \/ CallOff(p) \/ Start(p)
    \/ Count(p) \/ Pun(p) \/ Close(p) \/ OpenGate(p) \/ Result(p)
    \/ NextRound(p) \/ GatePassed(p) \/ GateFails(p) \/ Forfeit(p) \/ GateWithdrawn(p)
    \/ BreakOff(p) \/ Release(p)
    \/ UNCHANGED <<phase, between, failed, heard[p]>>

Next == \A p \in Player : Step(p)

Spec == Init /\ [][Next]_story
=============================================================================
