------------------------------- MODULE Match -------------------------------
(* The match engine (round.go): one goroutine, run(), that takes a match from *)
(* the readiness handshake through countdown, shoot window and judgement, and *)
(* for a series round the loop again, while HTTP handlers acknowledge          *)
(* readiness and deliver picks, the players' connections close, the CPU        *)
(* opponent thinks, and time passes.                                           *)
(*                                                                             *)
(* Time is discrete: one tick is any unit the constants are given in. A timer  *)
(* or deadline is the number of ticks left until it, an acknowledgement its    *)
(* age, so that no clock grows without bound.                                  *)
EXTENDS Rules, FiniteSets

CONSTANTS
    Bot,          \* side 1 is the CPU
    RoundsTarget, \* decisive wins that end the series
    DrawEnds,     \* a drawn round ends the match
    CountSlots,   \* countdownSlots: beats, and ticks, before PUN
    Window,       \* shootWindow
    Lease,        \* readyLease
    GateTimeout,  \* readyTimeout
    SeriesBreak,  \* seriesBreak
    Latency,      \* most ticks a /move spends between stamping its pick and
                  \* buffering it (a bound on the environment)
    Throwers,     \* the sides whose player throws at all (a bound on the
                  \* environment)
    MaxInFlight   \* requests caught between two of their steps at one time
                  \* (a bound on the environment)

ASSUME ModeAssumption ==
    /\ Bot \in BOOLEAN /\ DrawEnds \in BOOLEAN
    /\ RoundsTarget \in Nat \ {0}

ASSUME PacingAssumption ==
    /\ CountSlots \in Nat \ {0} /\ Window \in Nat \ {0} /\ Lease \in Nat \ {0}
    /\ GateTimeout \in Nat \ {0} /\ SeriesBreak \in Nat /\ Latency \in Nat
    /\ MaxInFlight \in Nat \ {0} /\ Throwers \subseteq Side

VARIABLES
    phase,      \* m.phase, the atomic every handler reads
    pc,         \* where run() stands
    timer,      \* ticks until run()'s current timer fires
    beat,       \* countdown beats still to announce
    scheduled,  \* shootAt is set
    shootIn,    \* ticks until shootAt; negative once it passed
    picks,      \* m.moves: the picks of this round
    win,        \* the series tally
    scored,     \* m.round > 1: some round has been judged and announced
    seriesOver, \* m.seriesOver
    between,    \* m.betweenRounds
    abandon,    \* why the handshake failed
    offered,    \* sides requeueSide has offered back to the hub's queue
    sent,       \* the last frame emitted to each side
    left,       \* the side's connection context is cancelled
    ackAge,     \* ticks since readyAt; Lease + 1 means never, or longer ago
    carried,    \* the side's last ack was given to a gate that has since opened
    acking,     \* a /ready past its gate check and not yet in ackReady
    chan,       \* the side's one-slot move channel
    post,       \* a /move in flight
    thinking    \* botAction's goroutine is waiting to throw

engine == <<phase, pc, timer, beat, scheduled, shootIn, picks, win, scored,
            seriesOver, between, abandon, offered, sent, carried>>
requests == <<ackAge, acking, chan, post, thinking>>
vars == <<engine, left, requests>>

Human == IF Bot THEN {0} ELSE Side
MatchIsSeries == SeriesMatch(Bot, DrawEnds)

(* A pick: when it arrived relative to the current schedule, and which         *)
(* schedule it was stamped under: the current one ("this"), none because       *)
(* nothing has been played yet ("opening"), or one that is over ("past").      *)
Pick == [arrive : {"early", "in", "late"}, of : {"this", "opening", "past"}]
NoPick == [arrive |-> "none", of |-> "none"]

Post == [stage : {"stamped", "admitted"}, pick : Pick, age : 0..Latency]
NoPost == [stage |-> "none", pick |-> NoPick, age |-> 0]

Stamp == [arrive |-> IF ~scheduled \/ shootIn > 0 THEN "early"
                     ELSE IF shootIn < -Window THEN "late" ELSE "in",
          of |-> IF scheduled THEN "this" ELSE IF scored THEN "past" ELSE "opening"]

(* What a pick is worth once a new, later schedule replaces the current one *)
Rebase(pick) ==
    IF pick = NoPick THEN NoPick
    ELSE [arrive |-> "early", of |-> IF pick.of = "opening" THEN "opening" ELSE "past"]

(* advance: compare-and-swap on the phase *)
Advanced(from, to) == IF phase = from THEN to ELSE phase

Fresh(i) == i \in Human => ackAge[i] <= Lease
(* mutant: one ready side is taken for all *)
AnyHumanReady == \E i \in Human : Fresh(i)
AllHumanReady == \A i \in Side : Fresh(i)
SomeoneLeft == \E i \in Side : left[i]

Older(age) == IF age <= Lease THEN age + 1 ELSE age

Emit(sides, frame) == sent' = [i \in Side |-> IF i \in sides THEN frame ELSE sent[i]]

Terminal == {"final", "opponentLeft", "forfeitWin", "forfeitLoss"}
Frame == {"none", "matched", "countdown", "shoot", "result", "idle"} \union Terminal

(* The goroutine's own state, its timers, the flags, the sides, and the picks *)
TypeRun ==
    /\ phase \in {"preparing", "countdown", "shoot", "done"}
    /\ pc \in {"enter", "gate", "select", "settle", "settle2", "opened", "begin", "beats",
               "shoot", "close", "judge", "announce", "break", "discard", "exit", "finish", "ended"}
    /\ abandon \in {"", "handshake-timeout", "opponent-left"}
    /\ offered \subseteq Side
TypeTimers ==
    timer \in Nat /\ beat \in 0..CountSlots /\ shootIn \in -(Window + 1)..CountSlots
TypeFlags ==
    /\ scheduled \in BOOLEAN /\ scored \in BOOLEAN /\ seriesOver \in BOOLEAN
    /\ between \in BOOLEAN /\ thinking \in BOOLEAN
TypeSides ==
    /\ win \in [Side -> Nat]
    /\ sent \in [Side -> Frame]
    /\ left \in [Side -> BOOLEAN] /\ carried \in [Side -> BOOLEAN]
    /\ acking \in [Side -> BOOLEAN] /\ ackAge \in [Side -> 0..(Lease + 1)]
TypePicks ==
    /\ picks \in [Side -> Pick \union {NoPick}]
    /\ chan \in [Side -> Pick \union {NoPick}]
    /\ post \in [Side -> Post \union {NoPost}]

TypeOK == TypeRun /\ TypeTimers /\ TypeFlags /\ TypeSides /\ TypePicks

(* makeMatch drained the channels and start() advanced idle to preparing *)
Init ==
    /\ phase = "preparing" /\ pc = "enter" /\ timer = 0 /\ beat = 0
    /\ scheduled = FALSE /\ shootIn = 0
    /\ picks = [i \in Side |-> NoPick] /\ win = [i \in Side |-> 0]
    /\ scored = FALSE /\ seriesOver = FALSE /\ between = FALSE
    /\ abandon = "" /\ offered = {}
    /\ sent = [i \in Side |-> "none"]
    /\ left = [i \in Side |-> FALSE]
    /\ ackAge = [i \in Side |-> Lease + 1]
    /\ carried = [i \in Side |-> FALSE] /\ acking = [i \in Side |-> FALSE]
    /\ chan = [i \in Side |-> NoPick] /\ post = [i \in Side |-> NoPost]
    /\ thinking = FALSE

-----------------------------------------------------------------------------
(* Whom abort tells: the connected opponent of a side that left. The CPU is    *)
(* nobody's departed opponent.                                                 *)
(* mutant: the frame goes to the side that left *)
Departed == {i \in Human : left[i]}
Survivors == {i \in Human : ~left[i] /\ left[Other(i)] /\ Other(i) \in Human}

(* abort: end the match as a departure, telling a connected opponent of a      *)
(* side that left.                                                             *)
Abort ==
    /\ pc' = "exit"
    /\ IF phase \in {"shoot", "countdown", "preparing"}
       THEN /\ phase' = "done"
            /\ Emit(Survivors, "opponentLeft")
       ELSE UNCHANGED <<phase, sent>>

(* Top of run: abort if somebody is already gone, else announce the match and  *)
(* enter the opening gate.                                                     *)
Enter ==
    /\ pc = "enter"
    /\ \/ /\ SomeoneLeft
          /\ Abort
          /\ UNCHANGED timer
       \/ /\ ~SomeoneLeft
          /\ Emit(Human, "matched")
          /\ pc' = "gate" /\ timer' = GateTimeout
          /\ UNCHANGED phase
    /\ UNCHANGED <<beat, scheduled, shootIn, picks, win, scored, seriesOver, between,
                   abandon, offered, carried, left, requests>>

(* waitReady, top of the loop: is every human inside its lease? *)
GateCheck ==
    /\ pc = "gate"
    /\ IF AllHumanReady THEN pc' = "opened" /\ timer' = 0
                        ELSE pc' = "select" /\ UNCHANGED timer
    /\ UNCHANGED <<phase, beat, scheduled, shootIn, picks, win, scored, seriesOver,
                   between, abandon, offered, sent, carried, left, requests>>

(* readyCh or the recheck tick wakes the select. The recheck interval is well  *)
(* below a tick, so this may happen at any time.                               *)
GateWake ==
    /\ pc = "select"
    /\ pc' = "gate"
    /\ UNCHANGED <<phase, timer, beat, scheduled, shootIn, picks, win, scored, seriesOver,
                   between, abandon, offered, sent, carried, left, requests>>

(* The gate's deadline *)
(* mutant: only the opening gate has one *)
OpeningGateExpired == pc = "select" /\ timer = 0 /\ ~between
GateExpired == pc = "select" /\ timer = 0

(* readyTimeout (the opening gate: both sides back to the queue), or the first *)
(* half of forfeitOnTimeout (between rounds)                                   *)
GateExpires ==
    /\ GateExpired
    /\ abandon' = "handshake-timeout"
    /\ IF between
       THEN /\ phase' = Advanced("countdown", "done")
            /\ pc' = "settle"
            /\ UNCHANGED offered
       ELSE /\ phase' = Advanced("preparing", "done")
            /\ offered' = Side
            /\ pc' = "exit"
    /\ UNCHANGED <<timer, beat, scheduled, shootIn, picks, win, scored, seriesOver,
                   between, sent, carried, left, requests>>

(* mutant: everybody is told it won *)
ForfeitWinToAll(w) ==
    /\ seriesOver' = TRUE
    /\ Emit({i \in Human : ~left[i]}, "forfeitWin")
(* forfeitWin: end the series for side w and tell whoever is still connected *)
ForfeitWin(w) ==
    /\ seriesOver' = TRUE
    /\ sent' = [i \in Side |-> IF i \in Human /\ ~left[i]
                               THEN IF i = w THEN "forfeitWin" ELSE "forfeitLoss"
                               ELSE sent[i]]

(* forfeitOnTimeout's switch: its cases read the leases one after the other.   *)
(* The two reads of one case are one step: the first read can only have been   *)
(* overtaken by a tick.                                                        *)
SettleFirst ==
    /\ pc = "settle"
    /\ \/ /\ Fresh(0) /\ ~Fresh(1)
          /\ ForfeitWin(0)
          /\ pc' = "exit"
       \/ /\ ~(Fresh(0) /\ ~Fresh(1))
          /\ pc' = "settle2"
          /\ UNCHANGED <<seriesOver, sent>>
    /\ UNCHANGED <<phase, timer, beat, scheduled, shootIn, picks, win, scored, between,
                   abandon, offered, carried, left, requests>>

SettleSecond ==
    /\ pc = "settle2"
    /\ pc' = "exit"
    /\ \/ /\ Fresh(1) /\ ~Fresh(0)
          /\ ForfeitWin(1)
          /\ UNCHANGED offered
       \/ /\ ~(Fresh(1) /\ ~Fresh(0))
          /\ offered' = Side
          /\ UNCHANGED <<seriesOver, sent>>
    /\ UNCHANGED <<phase, timer, beat, scheduled, shootIn, picks, win, scored, between,
                   abandon, carried, left, requests>>

(* readyAbandon (the opening gate) or forfeitOnLeave (between rounds) *)
GateLeave(i) ==
    /\ pc = "select" /\ left[i]
    /\ abandon' = "opponent-left"
    /\ pc' = "exit"
    /\ IF between
       THEN /\ phase' = Advanced("countdown", "done")
            /\ ForfeitWin(Other(i))
            /\ UNCHANGED offered
       ELSE /\ phase' = Advanced("preparing", "done")
            /\ offered' = {Other(i)}
            /\ UNCHANGED <<seriesOver, sent>>
    /\ timer' = 0
    /\ UNCHANGED <<beat, scheduled, shootIn, picks, win, scored, between, carried, left,
                   requests>>

(* waitReady returned true: the opening gate enters the countdown, a later one *)
(* is closed by clearing betweenRounds. Every ack so far belongs to this gate. *)
GateOpened ==
    /\ pc = "opened"
    /\ phase' = Advanced("preparing", "countdown")
    /\ between' = FALSE
    /\ carried' = [i \in Side |-> TRUE]
    /\ pc' = "begin"
    /\ UNCHANGED <<timer, beat, scheduled, shootIn, picks, win, scored, seriesOver,
                   abandon, offered, sent, left, requests>>

-----------------------------------------------------------------------------
(* beginRound and setShootAt: no picks, and a deadline CountSlots ticks away.  *)
(* Whatever is still buffered or in flight was stamped before it.              *)
Begin ==
    /\ pc = "begin"
    /\ picks' = [i \in Side |-> NoPick]
    /\ scheduled' = TRUE /\ shootIn' = CountSlots
    /\ chan' = [i \in Side |-> Rebase(chan[i])]
    /\ post' = [i \in Side |-> [post[i] EXCEPT !.pick = Rebase(@)]]
    /\ \/ /\ SomeoneLeft
          /\ Abort
          /\ UNCHANGED beat
       \/ /\ ~SomeoneLeft
          /\ pc' = "beats" /\ beat' = CountSlots
          /\ UNCHANGED <<phase, sent>>
    /\ UNCHANGED <<timer, win, scored, seriesOver, between, abandon, offered, carried,
                   left, ackAge, acking, thinking>>

(* READY, KA, CHI: one countdown frame per slot, when the slot is due *)
Beat ==
    /\ pc = "beats" /\ beat > 0 /\ shootIn <= beat /\ ~SomeoneLeft
    /\ beat' = beat - 1
    /\ Emit(Human, "countdown")
    /\ UNCHANGED <<phase, pc, timer, scheduled, shootIn, picks, win, scored, seriesOver,
                   between, abandon, offered, carried, left, requests>>

(* waitUntil woken, or overtaken, by a departure *)
BeatsLeave ==
    /\ pc = "beats" /\ SomeoneLeft
    /\ Abort
    /\ UNCHANGED <<timer, beat, scheduled, shootIn, picks, win, scored, seriesOver, between,
                   abandon, offered, carried, left, requests>>

(* PUN: the window opens; in a CPU match botAction starts thinking *)
Pun ==
    /\ pc = "beats" /\ beat = 0 /\ shootIn <= 0 /\ ~SomeoneLeft
    /\ phase' = Advanced("countdown", "shoot")
    /\ pc' = "shoot" /\ timer' = Window
    /\ Emit(Human, "shoot")
    /\ thinking' = Bot
    /\ UNCHANGED <<beat, scheduled, shootIn, picks, win, scored, seriesOver, between,
                   abandon, offered, carried, left, ackAge, acking, chan, post>>

(* The pick of side i once its channel has been read: the first one counts *)
Counted(i) == IF picks[i] = NoPick THEN chan[i] ELSE picks[i]

(* The shoot loop receives from side i: the first pick of a round counts, a    *)
(* later one is consumed and ignored. Two picks end the loop.                  *)
Take(i) ==
    /\ pc = "shoot" /\ chan[i] # NoPick
    /\ picks' = [picks EXCEPT ![i] = Counted(i)]
    /\ chan' = [chan EXCEPT ![i] = NoPick]
    /\ IF \A j \in Side : picks'[j] # NoPick THEN pc' = "close" /\ timer' = 0
                                            ELSE UNCHANGED <<pc, timer>>
    /\ UNCHANGED <<phase, beat, scheduled, shootIn, win, scored, seriesOver, between,
                   abandon, offered, sent, carried, left, ackAge, acking, post, thinking>>

(* drainPending: the picks after the deadline, with what was still buffered *)
(* mutant: the deadline does not look at the channels *)
Undrained == picks
Drained == [i \in Side |-> IF picks[i] = NoPick THEN chan[i] ELSE picks[i]]

(* The window's timer fired *)
Deadline ==
    /\ pc = "shoot" /\ timer = 0
    /\ picks' = Drained
    /\ chan' = [i \in Side |-> IF picks[i] = NoPick THEN NoPick ELSE chan[i]]
    /\ pc' = "close"
    /\ UNCHANGED <<phase, timer, beat, scheduled, shootIn, win, scored, seriesOver, between,
                   abandon, offered, sent, carried, left, ackAge, acking, post, thinking>>

ShootLeave ==
    /\ pc = "shoot" /\ SomeoneLeft
    /\ Abort /\ timer' = 0
    /\ UNCHANGED <<beat, scheduled, shootIn, picks, win, scored, seriesOver, between,
                   abandon, offered, carried, left, requests>>

(* The phase leaves shoot before the picks are judged *)
Close ==
    /\ pc = "close"
    /\ phase' = Advanced("shoot", "done")
    /\ pc' = IF phase = "shoot" THEN "judge" ELSE "exit"
    /\ UNCHANGED <<timer, beat, scheduled, shootIn, picks, win, scored, seriesOver, between,
                   abandon, offered, sent, carried, left, requests>>

(* Does a judged round leave a between-rounds gate open behind it? *)
(* mutant: judge never opens it *)
NeverOpensGate(over) == FALSE
OpensGate(over) == ~over /\ ~Bot

(* judge: score, tally, decide the series and, for an online series that goes  *)
(* on, open the next gate. Which move a valid pick was is chosen here: nothing  *)
(* before the judgement depends on it. The picks are not read again before     *)
(* beginRound clears them, so they are dropped here.                           *)
Judge ==
    /\ pc = "judge"
    /\ \E move \in [Side -> Move] :
         LET res == JudgeRound([i \in Side |-> picks[i].arrive], move) IN
         /\ win' = Tally(win, res)
         /\ seriesOver' = SeriesOver(Bot, DrawEnds, RoundsTarget, win', res)
    /\ picks' = [i \in Side |-> NoPick]
    /\ between' = OpensGate(seriesOver')
    /\ pc' = "announce"
    /\ UNCHANGED <<phase, timer, beat, scheduled, shootIn, scored, abandon, offered, sent,
                   carried, left, requests>>

Pause == pc' = "break" /\ timer' = SeriesBreak

(* What follows a result: the end of the match, or the pause *)
(* mutant: a decided series is played on *)
PlayOn == Pause
AfterResult == IF seriesOver THEN pc' = "discard" /\ UNCHANGED timer ELSE Pause

(* announce: the result goes out with the tally that includes it; if the       *)
(* series goes on, the pause begins.                                           *)
Announce ==
    /\ pc = "announce"
    /\ scored' = TRUE
    /\ Emit(Human, IF seriesOver THEN "final" ELSE "result")
    /\ AfterResult
    /\ UNCHANGED <<phase, beat, scheduled, shootIn, picks, win, seriesOver, between, abandon,
                   offered, carried, left, requests>>

(* The pause between rounds is over, by its timer or a departure. A departure  *)
(* ends a CPU match here; an online series goes on to its gate.                *)
BreakEnds ==
    /\ pc = "break" /\ (timer = 0 \/ SomeoneLeft)
    /\ pc' = "discard" /\ timer' = 0
    /\ phase' = IF SomeoneLeft /\ ~between THEN phase ELSE Advanced("done", "countdown")
    /\ UNCHANGED <<beat, scheduled, shootIn, picks, win, scored, seriesOver, between,
                   abandon, offered, sent, carried, left, requests>>

(* discardStragglers: the channels once a judged round is done with *)
(* mutant: what is buffered stays *)
Kept == chan
Discarded == [i \in Side |-> NoPick]

(* discardStragglers, and run's loop on what playRound returned: leave, play   *)
(* the next CPU round, or withdraw the schedule and open the gate.             *)
Discard ==
    /\ pc = "discard"
    /\ chan' = Discarded
    /\ \/ /\ phase # "countdown"
          /\ pc' = "exit"
          /\ UNCHANGED <<scheduled, shootIn, timer>>
       \/ /\ phase = "countdown" /\ ~between
          /\ pc' = "begin"
          /\ UNCHANGED <<scheduled, shootIn, timer>>
       \/ /\ phase = "countdown" /\ between
          /\ scheduled' = FALSE /\ shootIn' = 0
          /\ pc' = "gate" /\ timer' = GateTimeout
    /\ UNCHANGED <<phase, beat, picks, win, scored, seriesOver, between, abandon,
                   offered, sent, carried, left, ackAge, acking, post, thinking>>

(* run's deferred block: the gate reads as closed, then finish runs *)
Exit ==
    /\ pc = "exit"
    /\ between' = FALSE
    /\ pc' = "finish"
    /\ UNCHANGED <<phase, timer, beat, scheduled, shootIn, picks, win, scored, seriesOver,
                   abandon, offered, sent, carried, left, requests>>

(* finishMatch: no side is in this match any more, the channels are drained    *)
(* and every connected player is sent back to idle.                            *)
Finish ==
    /\ pc = "finish"
    /\ phase' = "done"
    /\ chan' = [i \in Side |-> IF i \in Human THEN NoPick ELSE chan[i]]
    /\ Emit({i \in Human : ~left[i]}, "idle")
    /\ pc' = "ended"
    /\ UNCHANGED <<timer, beat, scheduled, shootIn, picks, win, scored, seriesOver, between,
                   abandon, offered, carried, left, ackAge, acking, post, thinking>>

-----------------------------------------------------------------------------
(* removeClient: the side's connection is gone for good; a reconnection is     *)
(* another client.                                                             *)
Leave(i) ==
    /\ i \in Human /\ ~left[i]
    /\ left' = [left EXCEPT ![i] = TRUE]
    /\ UNCHANGED <<engine, requests>>

(* handleReady's activeMatch finds the match while the side is in it *)
InMatch(i) == i \in Human /\ ~left[i] /\ pc # "ended"

InFlight == {<<i, "ready">> : i \in {j \in Side : acking[j]}}
            \union {<<i, "move">> : i \in {j \in Side : post[j] # NoPost}}

(* handleReady's gate check; a refusal (409) changes nothing *)
ReadyAdmitted(i) ==
    /\ InMatch(i) /\ ~acking[i] /\ Cardinality(InFlight) < MaxInFlight
    /\ phase \in {"preparing", "countdown"} \/ between
    /\ acking' = [acking EXCEPT ![i] = TRUE]
    /\ UNCHANGED <<engine, left, ackAge, chan, post, thinking>>

(* ackReady: stamp, or renew, the lease *)
AckReady(i) ==
    /\ acking[i]
    /\ acking' = [acking EXCEPT ![i] = FALSE]
    /\ ackAge' = [ackAge EXCEPT ![i] = 0]
    /\ carried' = [carried EXCEPT ![i] = FALSE]
    /\ UNCHANGED <<phase, pc, timer, beat, scheduled, shootIn, picks, win, scored,
                   seriesOver, between, abandon, offered, sent, left, chan, post, thinking>>

(* handleMove samples the clock once, after finding the match *)
MoveStamped(i) ==
    /\ i \in Throwers /\ InMatch(i) /\ post[i] = NoPost /\ Cardinality(InFlight) < MaxInFlight
    /\ post' = [post EXCEPT ![i] = [stage |-> "stamped", pick |-> Stamp, age |-> 0]]
    /\ UNCHANGED <<engine, left, ackAge, acking, chan, thinking>>

(* ... then reads the phase and, in the window, the deadline. The opening      *)
(* handshake is not refused.                                                   *)
MoveChecked(i) ==
    /\ post[i].stage = "stamped"
    /\ post' = [post EXCEPT ![i] =
                  IF \/ phase = "preparing"
                     \/ phase = "shoot" /\ post[i].pick.arrive # "late"
                  THEN [@ EXCEPT !.stage = "admitted"] ELSE NoPost]
    /\ UNCHANGED <<engine, left, ackAge, acking, chan, thinking>>

(* ... then buffers it, unless a pick is already there (409) *)
MoveSent(i) ==
    /\ post[i].stage = "admitted"
    /\ chan' = IF chan[i] = NoPick THEN [chan EXCEPT ![i] = post[i].pick] ELSE chan
    /\ post' = [post EXCEPT ![i] = NoPost]
    /\ UNCHANGED <<engine, left, ackAge, acking, thinking>>

(* botAction: throw, or give up because the human left *)
BotThrows ==
    /\ thinking
    /\ thinking' = FALSE
    /\ chan' = IF chan[1] = NoPick THEN [chan EXCEPT ![1] = Stamp] ELSE chan
    /\ UNCHANGED <<engine, left, ackAge, acking, post>>

BotGivesUp ==
    /\ thinking /\ left[0]
    /\ thinking' = FALSE
    /\ UNCHANGED <<engine, left, ackAge, acking, chan, post>>

(* One tick of time. The bot thinks for less than a tick, and no /move in      *)
(* flight takes more than Latency of them.                                     *)
Tick ==
    /\ ~thinking
    /\ \A i \in Side : post[i] # NoPost => post[i].age < Latency
    /\ timer' = IF timer > 0 THEN timer - 1 ELSE 0
    /\ shootIn' = IF scheduled /\ shootIn >= -Window THEN shootIn - 1 ELSE shootIn
    /\ ackAge' = [i \in Side |-> Older(ackAge[i])]
    /\ post' = [i \in Side |-> IF post[i] = NoPost THEN NoPost
                                ELSE [post[i] EXCEPT !.age = @ + 1]]
    /\ UNCHANGED <<phase, pc, beat, scheduled, picks, win, scored, seriesOver, between,
                   abandon, offered, sent, carried, left, acking, chan, thinking>>

-----------------------------------------------------------------------------
Gate == GateCheck \/ GateWake \/ GateExpires \/ SettleFirst \/ SettleSecond
        \/ (\E i \in Side : GateLeave(i)) \/ GateOpened

Round == Begin \/ Beat \/ BeatsLeave \/ Pun \/ (\E i \in Side : Take(i)) \/ Deadline
         \/ ShootLeave \/ Close \/ Judge \/ Announce \/ BreakEnds \/ Discard

(* run(), the match's goroutine *)
Run == Enter \/ Gate \/ Round \/ Exit \/ Finish

(* Each request is served by a goroutine of its own *)
MoveServed(i) == MoveChecked(i) \/ MoveSent(i)
Handler(i) == AckReady(i) \/ MoveServed(i)

Next ==
    \/ Run
    \/ \E i \in Side : Leave(i) \/ ReadyAdmitted(i) \/ MoveStamped(i) \/ Handler(i)
    \/ BotThrows \/ BotGivesUp
    \/ Tick

Spec == Init /\ [][Next]_vars

-----------------------------------------------------------------------------
(* Safety.                                                                     *)

(* A pick is never scored in a round other than the one it was made for: the   *)
(* picks a round is judged on were stamped under that round's own schedule, or *)
(* sent ahead of it during the opening handshake. (discardStragglers runs only *)
(* once the pause is over, so that no pick admitted before the close is still  *)
(* on its way.)                                                                *)
NoForeignPick ==
    \A i \in Side : /\ picks[i].of # "past"
                    /\ picks[i].of = "opening" => ~scored

(* Nothing further is played once a side has the wins that take the series,    *)
(* and a series that replays draws is announced over only when exactly one     *)
(* side has them.                                                              *)
ScoreDecides ==
    /\ pc \in {"gate", "select", "opened", "begin", "beats", "shoot", "close", "judge", "break"}
         => \A i \in Side : win[i] < RoundsTarget
    /\ (\E i \in Side : sent[i] = "final") /\ MatchIsSeries /\ ~DrawEnds
         => \E w \in Side : win[w] = RoundsTarget /\ win[Other(w)] < RoundsTarget

(* At most one side is ever told it won because the other one was absent.      *)
AbsenceWinsOnce ==
    ~ \A i \in Side : sent[i] \in {"opponentLeft", "forfeitWin"}

(* Between rounds, readiness is asked anew: while both players are there, the  *)
(* next countdown does not rest on an ack that was given to an earlier gate,   *)
(* and a forfeit on time never does. (A departure cuts the pause short, and an *)
(* ack may then outlive it.)                                                    *)
NoCarriedAck ==
    /\ pc = "opened" /\ scored /\ ~SomeoneLeft => \A i \in Human : ~carried[i]
    /\ abandon = "handshake-timeout" => \A i \in Human : sent[i] = "forfeitWin" => ~carried[i]

(* A pick buffered by the time the window closes is part of the round, however *)
(* the select chose between the channel and the timer.                         *)
NoLostTap ==
    [][pc = "shoot" /\ pc' = "close" => \A i \in Side : picks'[i] = NoPick => chan[i] = NoPick]_vars

(* While the window is open the pick that came first stands, whatever is sent  *)
(* after it.                                                                   *)
FirstPickStands ==
    [][\A i \in Side : pc = "shoot" /\ picks[i] # NoPick => picks'[i] = picks[i]]_vars

(* The frame that tells a side how the match ended is the last word on it:     *)
(* only the return to idle follows.                                            *)
TerminalIsLast ==
    [][\A i \in Side : sent[i] \in Terminal => sent'[i] \in {sent[i], "idle"}]_vars

=============================================================================
