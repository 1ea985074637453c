------------------------------ MODULE Browser ------------------------------
(* What a page makes of the frames of its stream, before any screen's own      *)
(* handler: the connected and state handlers of connect (web/app.js) name the  *)
(* event, the screen machine the screen it leads to.                           *)
EXTENDS Feed, Machine

VARIABLES
    screen,
    decided \* the result on the screen is a final one

(* The snapshot. The pause between two rounds is a match to readmit into only  *)
(* while its gate waits for somebody; a pun window may have closed already.    *)
SnapshotEvent(f) ==
    CASE f.state = "idle" -> {"snapshot:idle"}
      [] f.state = "waiting" -> {"snapshot:waiting"}
      [] f.state = "ingame" /\ f.pending -> {"snapshot:matched"}
      [] f.state = "ingame" /\ ~f.pending /\ f.phase = "done" -> {"snapshot:idle"}
      [] f.state = "ingame" /\ ~f.pending /\ f.phase = "shoot" -> {"snapshot:shoot", "snapshot:idle"}
      [] OTHER -> {"snapshot:countdown"}

(* mutant: back in the queue is read as idle *)
IdleEventPlain(f) ==
    IF screen \in {"result", "ladder"} \/ (screen = "history" /\ f.ev = "idle") THEN {}
    ELSE {"stateIdle"}
(* state: the end of a match is no news to a result, the tower, or the record; *)
(* back in the queue, the page waits.                                          *)
IdleEvent(f) ==
    IF screen \in {"result", "ladder"} \/ (screen = "history" /\ f.ev = "idle") THEN {}
    ELSE IF f.ev = "requeued" THEN {"waiting"} ELSE {"stateIdle"}

Events(f) ==
    CASE f.ev = "connected" -> SnapshotEvent(f)
      [] f.ev \in {"idle", "requeued"} -> IdleEvent(f)
      [] f.ev \in {"result", "final"} -> {"result"}
      [] f.ev \in {"opponentLeft", "forfeitWin", "forfeitLoss"} -> {"opponentLeft"}
      [] OTHER -> {f.ev}

(* The next frame is read, and means ev *)
Read(f, ev) ==
    /\ wire # <<>> /\ f = Head(wire) /\ ev \in Events(f)
    /\ wire' = Tail(wire) /\ UNCHANGED <<server, budget>>

(* The next frame is read and changes no screen: an expected teardown, or an   *)
(* event the screen has no edge for                                            *)
Ignored(f) ==
    /\ wire # <<>> /\ f = Head(wire)
    /\ Events(f) = {} \/ \E ev \in Events(f) : ~Takes(screen, ev)
    /\ wire' = Tail(wire) /\ UNCHANGED <<server, budget>>

(* What the player may press, with what the server does about it when it       *)
(* grants the request at once. The result's own buttons come with a final one. *)
AtEnd == screen = "result" /\ decided
Press(ev) ==
    \/ ev = "queue" /\ screen = "lobby" /\ TakeChallenge
    \/ ev = "rematch:online" /\ AtEnd /\ TakeChallenge
    \/ ev = "cancel" /\ screen \in {"waiting", "matched"} /\ TakeCancel
    \/ ev = "mode" /\ (screen \in {"ladder", "history"} \/ AtEnd) /\ UNCHANGED feed
    \/ ev = "history" /\ screen = "lobby" /\ UNCHANGED feed
    \/ ev = "climb" /\ (screen = "lobby" \/ AtEnd) /\ UNCHANGED feed

Pressed == {"queue", "rematch:online", "cancel", "mode", "history", "climb"}

(* A CPU match is asked for without leaving the screen *)
PressCPU == (screen \in {"lobby", "ladder"} \/ AtEnd) /\ TakeCPU

(* So is anyone, from the invite screen: /cancel, and once that is answered    *)
(* /queue                                                                      *)
PressSearch ==
    /\ screen = "waiting" /\ invite /\ ~playing /\ ~queueing /\ Room
    /\ queueing' = TRUE /\ invite' = FALSE
    /\ Send("waiting")
    /\ UNCHANGED <<playing, requeued, cpu, linked, match, round, acked, told, budget>>
=============================================================================
