-------------------------------- MODULE Page --------------------------------
(* The page (web/app.js) against the server: what the player presses, the      *)
(* requests and their answers on the way, the frames of the stream, and the    *)
(* page's own timers, in any order. The tower, the record and the drawing of   *)
(* the match screen have modules of their own (Arcade, Record, Stage).         *)
EXTENDS Browser, FiniteSets

CONSTANT MaxAsked \* requests and answers on their way (a bound)

VARIABLES
    view,     \* the view that is shown
    mode,     \* pendingMode, while the picker shows: openChoose sets it anew
    pressed,  \* a button waits for the server: pendingButtons, and its failsafe
    inviting, \* challengePending
    solo,     \* lastMode is cpu
    armed,    \* readyArmed
    stall,    \* the stall watchdog is running
    pun,      \* the local PUN timer is set
    asked,    \* requests on their way to the server
    answers,  \* and the answers on their way back
    adrift    \* what first parted page and seat, if anything has

local == <<view, mode, pressed, inviting, decided, solo, armed, stall, pun>>
net == <<asked, answers>>
vars == <<feed, screen, local, net, adrift>>

Init ==
    /\ FeedInit /\ screen = "lobby" /\ view = "lobby" /\ mode = ""
    /\ pressed = FALSE /\ inviting = FALSE /\ decided = FALSE /\ solo = FALSE
    /\ armed = FALSE /\ stall = FALSE /\ pun = FALSE
    /\ asked = {} /\ answers = {} /\ adrift = ""

Live == {"countdown", "shoot", "locked"}
-----------------------------------------------------------------------------
(* The entry handlers. to is the screen entered, from the one left, f the      *)
(* frame that led there.                                                       *)
ViewOf(to) ==
    CASE to = "lobby" -> "lobby" [] to = "waiting" -> "queue" [] to = "history" -> "history"
      [] to \in {"locked", "result"} -> view [] OTHER -> "game"

(* armReadyLoop: the opening handshake, and the pause of an online series; any *)
(* other entry stops the acknowledgements                                      *)
ArmsReady(to, f) == to = "matched" \/ (to = "result" /\ f.ev = "result" /\ ~f.cpu)

(* armStallWatchdog, on entering shoot; leaveLiveRound disarms it *)
Watched(to) == to = "shoot" \/ (stall /\ to \in Live)

(* planFromCountdown sets the PUN timer when the schedule is announced: a      *)
(* snapshot may be too early for that, a matched frame says nothing of it      *)
Plans(to, f) ==
    IF to # "countdown" THEN {FALSE}
    ELSE IF f.ev = "countdown" THEN {TRUE} ELSE IF f.ev = "matched" THEN {pun} ELSE BOOLEAN

Enter(to, f) ==
    /\ screen' = to
    /\ view' = ViewOf(to)
    /\ pressed' = (pressed /\ to \in {"locked", "result"})
    /\ decided' = (to = "result" /\ f.ev # "result")
    /\ solo' = (to = "result" /\ f.cpu)
    /\ armed' = ArmsReady(to, f)
    /\ stall' = Watched(to)
    /\ pun' \in Plans(to, f)
    /\ mode' = ""

Invited(to) == inviting' = (inviting /\ to # "lobby")

(* An event without a frame: a button, an answer or a timer *)
NoFrame == [ev |-> "", match |-> match, round |-> round, cpu |-> FALSE]
Go(ev) ==
    LET to == To(screen, ev) IN Takes(screen, ev) /\ Enter(to, NoFrame) /\ Invited(to)

(* The first thing that parted page and seat, if any has *)
Part(how, parts) == adrift' = IF adrift = "" /\ parts THEN how ELSE adrift

(* Frames that part them: a rejoin the page declines, or what is read was      *)
(* overtaken by what the server has done since. A match that is announced to a *)
(* player whose invite is open, or ends for one, is over.                      *)
Declined(f, ev) == f.ev = "connected" /\ f.state = "ingame" /\ ev = "snapshot:idle"
Overtaken(f) ==
    \/ f.ev = "connected" /\ (f.state # Seat \/ (f.invite /\ ~invite))
    \/ f.ev \in {"idle", "matched"} /\ invite
    \/ f.ev = "waiting" /\ Seat = "idle" /\ Len(wire) = 1
    \/ f.ev = "requeued" /\ ~queueing

(* The frames of the stream *)
Receive ==
    /\ wire # <<>>
    /\ LET f == Head(wire) IN
       \E ev \in Events(f) :
        /\ Takes(screen, ev) /\ Read(f, ev)
        /\ Enter(To(screen, ev), f)
        /\ IF f.ev = "connected" /\ f.invite THEN inviting' = TRUE
           ELSE Invited(To(screen, ev))
        /\ Part("frame", Declined(f, ev) \/ Overtaken(f))
    /\ UNCHANGED net

(* A frame the page lets pass *)
Drop ==
    /\ wire # <<>> /\ Ignored(Head(wire))
    /\ Part("unseen", Head(wire).ev \in {"requeued", "waiting"})
    /\ UNCHANGED <<screen, local, net>>
-----------------------------------------------------------------------------
(* The buttons. show, and with it every change of view, re-arms them.          *)
Room2 == Cardinality(asked) + Cardinality(answers) < MaxAsked
Ask(what) == asked' = asked \union {what} /\ UNCHANGED answers

Show(v) ==
    /\ view' = v /\ pressed' = FALSE
    /\ UNCHANGED <<inviting, decided, solo, armed, stall, pun>>

OpenChoose(m) ==
    /\ screen = "lobby" /\ view = "lobby"
    /\ mode' = m /\ Show("choose")
    /\ UNCHANGED <<feed, screen, net, adrift>>

Back ==
    /\ screen = "lobby" /\ view = "choose"
    /\ mode' = "" /\ Show("lobby")
    /\ UNCHANGED <<feed, screen, net, adrift>>

PressButton ==
    /\ pressed' = TRUE
    /\ UNCHANGED <<view, inviting, decided, solo, armed, stall, pun>>

(* startMatch: without a mode it is a CPU match like any other *)
StartMatch ==
    /\ view = "choose" /\ ~pressed /\ Room2
    /\ mode' = "" /\ PressButton
    /\ Ask(IF mode = "online" THEN "challenge" ELSE "cpu")
    /\ UNCHANGED <<feed, screen, adrift>>

PlayAgain ==
    /\ AtEnd /\ ~pressed /\ Room2
    /\ PressButton
    /\ Ask(IF solo THEN "rematch cpu" ELSE "rematch")
    /\ UNCHANGED <<feed, screen, mode, adrift>>

ChangeMode ==
    /\ screen = "history" \/ AtEnd
    /\ Go("mode")
    /\ UNCHANGED <<feed, net, adrift>>

OpenHistory ==
    /\ view = "lobby" /\ Go("history")
    /\ UNCHANGED <<feed, net, adrift>>

Cancel ==
    /\ view = "queue" /\ Room2
    /\ Go("cancel") /\ Ask("cancel")
    /\ UNCHANGED <<feed, adrift>>

(* The invite screen's way out: the reservation is given up, then the queue asked *)
Search ==
    /\ view = "queue" /\ inviting /\ Room2
    /\ inviting' = FALSE
    /\ Ask("search")
    /\ UNCHANGED <<feed, screen, view, mode, pressed, decided, solo, armed, stall, pun, adrift>>
-----------------------------------------------------------------------------
(* The server takes a request, or refuses it. An answer nobody looks at is not *)
(* kept.                                                                       *)
Answer(what, ok) ==
    /\ asked' = asked \ {what}
    /\ answers' = IF what \in {"cancel", "queue"} THEN answers
                  ELSE answers \union {[to |-> what, ok |-> ok]}

Granted(what) ==
    /\ what \in asked
    /\ CASE what \in {"challenge", "rematch"} -> TakeChallenge
         [] what \in {"cpu", "rematch cpu"} -> TakeCPU
         [] what \in {"cancel", "search"} -> TakeCancel
         [] what = "queue" -> TakeQueue
         [] what = "move" -> UNCHANGED feed
    /\ Answer(what, TRUE)
    /\ Part("cancel", what = "cancel" /\ screen = "waiting" /\ ~queueing)
    /\ UNCHANGED <<screen, local>>

Refused(what) ==
    /\ what \in asked
    /\ Answer(what, FALSE)
    /\ Part("refused", what \in {"queue", "cancel", "search"})
    /\ UNCHANGED <<feed, screen, local>>

(* refuseStart gives back the mode, clearPending the button *)
Rearm(m) ==
    /\ pressed' = FALSE /\ mode' = IF view = "choose" THEN m ELSE ""
    /\ UNCHANGED <<screen, view, inviting, decided, solo, armed, stall, pun>>

(* mintChallenge: the code is shown and the page waits *)
Minted(ev) ==
    /\ inviting' = TRUE
    /\ IF Takes(screen, ev) THEN Enter(To(screen, ev), NoFrame)
       ELSE UNCHANGED <<screen, view, mode, pressed, decided, solo, armed, stall, pun>>

(* A pick that was refused *)
Rejected ==
    IF Takes(screen, "reject") THEN Go("reject") ELSE UNCHANGED <<screen, local>>

Answered(a) ==
    /\ a \in answers
    /\ answers' = answers \ {a}
    /\ CASE a.to = "challenge" /\ a.ok -> Minted("queue")
         [] a.to = "rematch" /\ a.ok -> Minted("rematch:online")
         [] a.to = "challenge" /\ ~a.ok -> Rearm("online")
         [] a.to = "cpu" /\ ~a.ok -> Rearm("cpu")
         [] a.to \in {"rematch", "rematch cpu"} /\ ~a.ok -> Rearm(mode)
         [] a.to = "move" /\ ~a.ok -> Rejected
         [] OTHER -> UNCHANGED <<screen, local>>
    /\ asked' = IF a.to = "search" THEN asked \union {"queue"} ELSE asked
    /\ Part("late", /\ a.to \in {"challenge", "rematch"} /\ a.ok
                    /\ ~invite \/ ~Takes(screen, IF a.to = "challenge" THEN "queue" ELSE "rematch:online"))
    /\ UNCHANGED feed
-----------------------------------------------------------------------------
(* The page's timers *)
Failsafe ==
    /\ pressed
    /\ pressed' = FALSE
    /\ UNCHANGED <<feed, screen, view, mode, inviting, decided, solo, armed, stall, pun, net, adrift>>

Acknowledge ==
    /\ armed /\ screen \in {"matched", "result"} /\ ~acked /\ TakeReady
    /\ UNCHANGED <<screen, local, net, adrift>>

(* PUN on the page's own clock, from the schedule the countdown announced *)
LocalPun == pun /\ screen = "countdown" /\ Go("shoot") /\ UNCHANGED <<feed, net, adrift>>

(* The window closes, or the player picks in it *)
Lock ==
    /\ screen = "shoot"
    /\ \/ Go("lock") /\ UNCHANGED net
       \/ Go("move") /\ Room2 /\ Ask("move")
    /\ UNCHANGED <<feed, adrift>>

(* mutant: the watchdog does not look at a locked page *)
LiveButLocked == {"countdown", "shoot"}
(* GAME_STATES *)
Stallable == Live

(* The watchdog closes the stream and opens it again, after six seconds: what  *)
(* was sent by then has come, or is lost                                       *)
Stalled ==
    /\ stall /\ wire = <<>> /\ stall' = FALSE
    /\ IF screen \in Stallable THEN Reconnect ELSE UNCHANGED wire
    /\ UNCHANGED <<server, budget, screen, view, mode, pressed, inviting, decided, solo, armed,
                   pun, net, adrift>>

Elsewhere ==
    /\ \/ (Serve \/ Reattach) /\ UNCHANGED <<adrift, net>>
       \/ Return /\ UNCHANGED adrift
          (* a new client: what was asked under the old id is refused *)
          /\ asked' = {} /\ answers' = answers \union {[to |-> w, ok |-> FALSE] : w \in asked}
       \/ Lose /\ Part("lost", TRUE) /\ UNCHANGED net
    /\ UNCHANGED <<screen, local>>

Next ==
    \/ Receive \/ Drop
    \/ \E m \in {"online", "cpu"} : OpenChoose(m)
    \/ Back \/ StartMatch \/ PlayAgain \/ ChangeMode \/ OpenHistory \/ Cancel \/ Search
    \/ \E what \in asked : Granted(what) \/ Refused(what)
    \/ \E a \in answers : Answered(a)
    \/ Failsafe \/ Acknowledge \/ LocalPun \/ Lock \/ Stalled \/ Elsewhere

(* The browser delivers and runs its timers, the match goes on to its end *)
Fairness ==
    /\ WF_vars(Receive \/ Drop) /\ WF_vars(Lock) /\ WF_vars(Stalled)
    /\ WF_vars((Play \/ Release) /\ UNCHANGED <<screen, local, net, adrift>>)

Spec == Init /\ [][Next]_vars /\ Fairness

-----------------------------------------------------------------------------
Settled == wire = <<>> /\ asked = {} /\ answers = {}

InRound == playing /\ ~requeued /\ heard[Me] \in {"matched", "countdown", "shoot", "result"}

(* Once everything under way has arrived, the screen and the seat agree: who    *)
(* waits sees the queue, who sees the queue waits, and a match is on the screen *)
(* as long as it goes on and no longer. Six things part them, and nothing else *)
(* does, in whatever order buttons, answers, frames and timers come: a rejoin  *)
(* the page declines or a frame read too late, a frame for the queue that the  *)
(* screen has no edge for, a cancelled invite that was an invite no more, a    *)
(* refusal nobody reads, an answer that comes too late, a lost frame.          *)
PageAgrees ==
    Settled /\ adrift = "" =>
        /\ screen = "waiting" => queueing \/ invite \/ playing
        /\ (queueing \/ invite) /\ ~playing => screen = "waiting"
        /\ InRound => screen \in {"matched", "result"} \union Live
        /\ screen \in {"matched"} \union Live => playing

(* "a plain queue hides any left from before" (enter.waiting): an invite that   *)
(* is shown is one that can be claimed.                                        *)
InviteIsLive ==
    Settled /\ adrift = "" /\ screen = "waiting" /\ inviting => invite \/ playing

(* "a lost result is a stall *in `locked`*" (armStallWatchdog), and the watchdog *)
(* is the way out of it: no page stays in a round whose result never comes.    *)
RoundIsLeft == screen \in {"shoot", "locked"} ~> screen \notin {"shoot", "locked"}
=============================================================================
