------------------------------- MODULE Stage -------------------------------
(* The match screen (web/app.js): which view is on the screen, the backgrounds *)
(* a match loads, and the acknowledgements the page sends of its own. A promise *)
(* is resolved, a frame painted and a timer fired between any two other steps; *)
(* a tab that is hidden paints nothing.                                        *)
EXTENDS Browser

VARIABLES
    view,    \* the view on the screen
    stage,   \* how many times setBg has run; bgReady is the last of its promises
    loading, \* the promises that wait, with what has been chained to them
    hidden,  \* document.visibilityState
    armed,   \* readyArmed
    frames,  \* animation frames asked for by armReadyLoop, by their stage
    beating, \* readyTimer is set: by the frame of which stage, or 0
    painted, \* aux: a frame has been painted since this screen was entered,
    sent     \* aux: an acknowledgement has been sent since

ready == <<armed, frames, beating>>
page == <<screen, decided, view, stage, loading, hidden, ready, painted, sent>>
vars == <<feed, page>>

Init ==
    /\ FeedInit /\ screen = "lobby" /\ decided = FALSE
    /\ view = "lobby" /\ stage = 0 /\ loading = {} /\ hidden = FALSE
    /\ armed = FALSE /\ frames = {} /\ beating = 0 /\ painted = FALSE /\ sent = FALSE

-----------------------------------------------------------------------------
Live == {"countdown", "shoot", "locked"}
ViewOf == [lobby |-> "lobby", waiting |-> "queue", ladder |-> "ladder", history |-> "history"]
GateOpen(s) == s \in {"matched", "result"}

(* mutant: the timer outlives the arm *)
BeatingOn == beating
(* clearInterval *)
Cleared == 0
(* stopReadyLoop, before anything is armed anew. A frame that was asked for    *)
(* cannot be taken back.                                                       *)
StopReady == armed' = FALSE /\ beating' = Cleared
Rearm == armed' = TRUE /\ beating' = Cleared

(* What is chained to bgReady runs when it resolves, which may be now.         *)
(* mutant: showGame does not look at the screen *)
ShowsAnywhere(s) == TRUE
(* showGame *)
ShowsGame(s) == s \notin {"lobby", "waiting", "history"}
Run(n, then, s) ==
    /\ view' = IF "show" \in then /\ ShowsGame(s) THEN "game" ELSE view
    /\ frames' = IF "arm" \in then /\ armed' /\ GateOpen(s) THEN frames \union {n} ELSE frames

(* The background is set anew, or the one there is waited for.                 *)
(* mutant: the ready loop is armed before the background is there *)
ChainEagerly(fresh, then, s) ==
    LET n == IF fresh THEN stage + 1 ELSE stage IN
    /\ stage' = n
    /\ loading' = {l \in loading : l.n # n}
                    \union IF fresh THEN {[n |-> n, then |-> then]} ELSE {}
    /\ view' = IF "show" \in then /\ ShowsGame(s) THEN "game" ELSE view
    /\ frames' = IF "arm" \in then THEN frames \union {n} ELSE frames
Chain(fresh, then, s) ==
    LET n == IF fresh THEN stage + 1 ELSE stage
        now == {l \in loading : l.n = n}
        all == then \union UNION {l.then : l \in now}
    IN /\ stage' = n
       /\ IF fresh \/ now # {}
          THEN loading' = (loading \ now) \union {[n |-> n, then |-> all]} /\ UNCHANGED <<view, frames>>
          ELSE loading' = loading /\ Run(n, then, s)

Show(v) == view' = v /\ UNCHANGED <<stage, loading, frames>>

(* The entry handlers, from one screen to another, by the frame f *)
Gated(f) == f.ev = "result" /\ ~f.cpu
Enter(from, to, f) ==
    /\ screen' = to
    /\ decided' = (to = "result" /\ f.ev # "result")
    /\ painted' = FALSE /\ sent' = FALSE
    /\ CASE to = "matched" -> Rearm /\ Chain(TRUE, {"show", "arm"}, to)
         [] to = "result" /\ Gated(f) -> Rearm /\ Chain(FALSE, {"arm"}, to)
         [] to = "result" /\ ~Gated(f) -> StopReady /\ UNCHANGED <<view, stage, loading, frames>>
         [] to = "countdown" ->
              /\ IF from \in {"matched", "result"} THEN StopReady ELSE UNCHANGED <<armed, beating>>
              /\ Chain(from \notin Live \union {"matched", "result"}, {"show"}, to)
         [] to = "shoot" -> StopReady /\ Chain(from \notin Live, {"show"}, to)
         [] to = "locked" -> UNCHANGED <<ready, view, stage, loading>>
         [] to = "history" -> UNCHANGED <<armed, beating>> /\ Show("history")
         [] OTHER -> StopReady /\ Show(ViewOf[to])
    /\ UNCHANGED hidden
-----------------------------------------------------------------------------
Receive == \E f \in {Head(wire)} : \E ev \in Events(f) :
    /\ Takes(screen, ev) /\ Read(f, ev) /\ Enter(screen, To(screen, ev), f)

Drop == Ignored(Head(wire)) /\ UNCHANGED page

(* An event without a frame. A button can be pressed where it is shown.        *)
NoFrame == [ev |-> "", cpu |-> FALSE]
ButtonView(ev) ==
    CASE ev = "queue" -> "lobby" [] ev = "history" -> "lobby" [] ev = "cancel" -> "queue"
      [] ev = "rematch:online" -> "game"
      [] ev = "climb" -> IF screen = "lobby" THEN "lobby" ELSE "game"
      [] ev = "mode" -> IF screen = "result" THEN "game" ELSE screen
Go(ev) ==
    /\ Press(ev) /\ view = ButtonView(ev)
    /\ Takes(screen, ev) /\ Enter(screen, To(screen, ev), NoFrame)

PlayCPU == PressCPU /\ (AtEnd => view = "game") /\ UNCHANGED page
Search == PressSearch /\ view = "queue" /\ UNCHANGED page

(* The shoot window closes, or the player picks *)
Lock ==
    /\ screen = "shoot" /\ Enter(screen, "locked", NoFrame)
    /\ UNCHANGED feed

(* The player turns to another tab, or back *)
Turn == hidden' = ~hidden /\ UNCHANGED <<feed, screen, decided, view, stage, loading, ready, painted, sent>>

(* A background has been decoded, or its load has failed *)
Decoded ==
    \E l \in loading :
        /\ loading' = loading \ {l}
        /\ UNCHANGED <<feed, screen, decided, stage, hidden, armed, beating, painted, sent>>
        /\ Run(l.n, l.then, screen)

(* sendReady. The server does not take it of a gate that is closed.            *)
SendReady ==
    /\ sent' = TRUE
    /\ IF ReadyAdmitted THEN TakeReady ELSE UNCHANGED feed

(* mutant: a frame does not ask whether it was superseded by a stop *)
GoesOnWithout == GateOpen(screen)
GoesOn == armed /\ GateOpen(screen)
Paint(n) ==
    /\ n \in frames /\ ~hidden
    /\ frames' = frames \ {n}
    /\ painted' = TRUE
    /\ IF GoesOn THEN SendReady /\ beating' = n ELSE UNCHANGED <<feed, beating, sent>>
    /\ UNCHANGED <<screen, decided, view, stage, loading, hidden, armed>>

(* The interval *)
Beat ==
    /\ beating # 0
    /\ IF armed /\ GateOpen(screen) THEN SendReady /\ UNCHANGED <<armed, beating>>
       ELSE StopReady /\ UNCHANGED <<feed, sent>>
    /\ UNCHANGED <<screen, decided, view, stage, loading, hidden, frames, painted>>

Elsewhere == (Serve \/ Reattach \/ Return \/ Lose) /\ UNCHANGED page

Next ==
    \/ wire # <<>> /\ (Receive \/ Drop)
    \/ (\E ev \in Pressed : Go(ev)) \/ PlayCPU \/ Search \/ Lock \/ Turn \/ Decoded
    \/ (\E n \in frames : Paint(n)) \/ Beat \/ Elsewhere

Spec == Init /\ [][Next]_vars
-----------------------------------------------------------------------------
(* "outside that span the gate is closed and the ack would be a claim about a  *)
(* round that will not run" (armReadyLoop): what is acknowledged is an opening *)
(* handshake, or the pause of a series that goes on, however late a frame, a   *)
(* decoded background or the timer comes.                                      *)
AcksAnOpenGate == sent => screen = "matched" \/ (screen = "result" /\ ~decided)

(* Every gate is acknowledged by a page that has painted a frame of it: a tab  *)
(* that stays hidden from one screen to the next answers for none (sendReady). *)
PresenceIsPainted == sent => painted

(* The frame an arm waits for is asked for when its background is decoded.     *)
FramesFollowDecode == \A l \in loading : l.n \notin frames

(* The game view is never up over the lobby, the queue or the record, and once *)
(* the backgrounds are there it is up whenever a match is on (showGame).       *)
GameViewIsTheMatchs ==
    /\ view = "game" => screen \notin {"lobby", "waiting", "history"}
    /\ loading = {} /\ screen \notin {"lobby", "waiting", "history", "ladder"} => view = "game"
=============================================================================
