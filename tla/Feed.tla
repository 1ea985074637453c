-------------------------------- MODULE Feed --------------------------------
(* The server as one page meets it: the seats /queue, /challenge, /cpu and     *)
(* /cancel give and take (server.go), the matches that come of them, each told *)
(* as Series tells it, and the event stream that carries the frames. Match and *)
(* Hub model the same code from inside, for several clients; here everything   *)
(* that depends on other players is a choice.                                  *)
EXTENDS Naturals, Sequences

CONSTANTS
    MaxRound, \* rounds of a match (a bound)
    MaxWire,  \* frames on their way (a bound)
    Budget    \* how many matches the page may be put in, streams may break and
              \* frames be lost in one behaviour (bounds)

ASSUME FeedAssumption ==
    MaxRound \in Nat /\ MaxWire \in Nat /\ Budget \subseteq [matches : Nat, breaks : Nat, losses : Nat]

VARIABLES
    queueing, \* c.queueing
    invite,   \* a reservation of the page's player is open
    playing,  \* c.match is set
    requeued, \* the match has given the page back to the queue, and not let go of it
    cpu,      \* the match is against the CPU
    linked,   \* a friend has claimed the page's link for it
    match,    \* the number of that match, or of the last one
    round,    \* m.round
    acked,    \* this side's readiness is acknowledged
    phase, between, failed, heard, \* the match, as Series tells it
    wire,     \* frames sent and not received
    budget    \* what is left of it

seats == <<queueing, invite, playing, requeued, cpu, linked, match>>
told == <<phase, between, failed, heard>>
server == <<seats, round, acked, told>>
link == <<wire, budget>>
feed == <<server, link>>

Me == "me"
Online == INSTANCE Series WITH Player <- {Me}, Gated <- TRUE
Solo == INSTANCE Series WITH Player <- {Me}, Gated <- FALSE

Frame(ev) == [ev |-> ev, match |-> match, round |-> round, cpu |-> cpu]
Send(ev) == wire' = Append(wire, Frame(ev))

FeedInit ==
    /\ queueing = FALSE /\ invite = FALSE /\ playing = FALSE /\ requeued = FALSE
    /\ cpu = FALSE /\ linked = FALSE /\ match = 0 /\ round = 1 /\ acked = FALSE
    /\ phase = "done" /\ between = FALSE /\ failed = FALSE /\ heard = [p \in {Me} |-> "idle"]
    /\ wire = <<>> /\ budget \in Budget

Room == Len(wire) < MaxWire
-----------------------------------------------------------------------------
(* A match begins: every other seat is given up *)
Begin(bot, claimed) ==
    /\ budget.matches > 0 /\ budget' = [budget EXCEPT !.matches = @ - 1]
    /\ match' = match + 1 /\ cpu' = bot /\ linked' = claimed
    /\ playing' = TRUE /\ requeued' = FALSE
    /\ queueing' = FALSE /\ invite' = FALSE
    /\ round' = 1 /\ acked' = FALSE
    /\ phase' = "preparing" /\ between' = FALSE /\ failed' = FALSE
    /\ heard' = [p \in {Me} |-> "none"]
    /\ UNCHANGED wire

(* What the handlers do with a request they take; a request may be refused at  *)
(* any time (the rate limit, a full queue, too many matches)                   *)
TakeQueue ==
    /\ ~playing /\ ~invite /\ Room
    /\ queueing' = TRUE
    /\ Send("waiting")
    /\ UNCHANGED <<invite, playing, requeued, cpu, linked, match, round, acked, told, budget>>

TakeChallenge ==
    /\ ~playing
    /\ invite' = TRUE /\ queueing' = FALSE
    /\ UNCHANGED <<playing, requeued, cpu, linked, match, round, acked, told, link>>

TakeCPU == ~playing /\ Begin(TRUE, FALSE)

TakeCancel ==
    /\ Room
    /\ queueing' = FALSE /\ invite' = FALSE
    /\ IF queueing THEN Send("idle") ELSE UNCHANGED wire
    /\ UNCHANGED <<playing, requeued, cpu, linked, match, round, acked, told, budget>>

ReadyAdmitted == playing /\ (phase \in {"preparing", "countdown"} \/ between)
TakeReady ==
    /\ ReadyAdmitted
    /\ acked' = TRUE
    /\ UNCHANGED <<seats, round, told, link>>
-----------------------------------------------------------------------------
(* tryMatch, or a friend who claims the reservation *)
Pair ==
    \/ queueing /\ (playing => requeued) /\ Begin(FALSE, FALSE)
    \/ invite /\ ~playing /\ Begin(FALSE, TRUE)

(* The match goes on. A round needs this side's acknowledgement, the CPU never *)
(* leaves, and a player who is there is told when another one does.            *)
Starts == phase' = "countdown" /\ phase # "countdown" /\ between' = FALSE
PassesGate == phase = "countdown" /\ between /\ between' = FALSE
LeavesUntold ==
    /\ phase' = "done" /\ heard' = heard /\ ~failed'
    /\ phase \in {"preparing", "countdown"}

Play ==
    /\ playing /\ ~requeued /\ Room
    /\ heard' \in [{Me} -> Online!Frames]
    /\ IF cpu THEN Solo!Step(Me) ELSE Online!Step(Me)
    /\ told' # told /\ (cpu => heard'[Me] # "opponentLeft")
    /\ ~LeavesUntold
    /\ (phase = "preparing" /\ Starts) \/ PassesGate => acked
    /\ acked' = (acked /\ ~(between' /\ ~between))
    /\ round' = IF phase = "done" /\ phase' = "countdown" THEN round + 1 ELSE round
    /\ round' <= MaxRound
    /\ playing' = (heard'[Me] # "idle")
    /\ IF heard' # heard THEN Send(heard'[Me]) ELSE UNCHANGED wire
    /\ UNCHANGED <<queueing, invite, requeued, cpu, linked, match, budget>>

(* A match against the CPU, or made by a claim, has nobody to offer *)
OffersBack == ~cpu /\ ~linked

(* readyTimeout, readyAbandon and forfeitOnTimeout put the side that is owed   *)
(* nothing back in the queue, before finishMatch lets go of it                 *)
Requeue ==
    /\ playing /\ ~requeued /\ OffersBack /\ phase = "done" /\ failed
    /\ heard[Me] \in {"matched", "result"}
    /\ requeued' = TRUE /\ queueing' = TRUE
    /\ UNCHANGED <<invite, playing, cpu, linked, match, round, acked, told, link>>

Release ==
    /\ playing /\ requeued /\ Room
    /\ playing' = FALSE /\ requeued' = FALSE /\ invite' = FALSE
    /\ heard' = [p \in {Me} |-> "idle"] /\ between' = FALSE
    /\ Send("requeued")
    /\ UNCHANGED <<queueing, cpu, linked, match, round, acked, phase, failed, budget>>
-----------------------------------------------------------------------------
(* The first frame of a stream: what the seat, and the match, look like now. A *)
(* gate is pending until both sides have acknowledged it.                      *)
Seat == IF playing THEN "ingame" ELSE IF invite \/ queueing THEN "waiting" ELSE "idle"
Snapshot(pending) ==
    [ev |-> "connected", match |-> match, round |-> round, cpu |-> cpu,
     state |-> Seat,
     phase |-> phase, pending |-> pending, invite |-> invite /\ ~playing]

(* The stream breaks. Opened again in time it carries on with what the old one *)
(* left unsent, behind a snapshot; too late, it is a new client's, who has     *)
(* kept nothing but the player's reservation.                                  *)
Reconnect ==
    \E n \in 0..Len(wire), pending \in BOOLEAN :
        /\ ~pending => ~(phase = "preparing" \/ between) \/ acked
        /\ pending => phase = "preparing" \/ between
        /\ wire' = <<Snapshot(pending)>> \o SubSeq(wire, n + 1, Len(wire))

Reattach ==
    /\ budget.breaks > 0 /\ budget' = [budget EXCEPT !.breaks = @ - 1]
    /\ Reconnect
    /\ UNCHANGED server

Return ==
    /\ budget.breaks > 0 /\ budget' = [budget EXCEPT !.breaks = @ - 1]
    /\ queueing' = FALSE /\ playing' = FALSE /\ requeued' = FALSE
    /\ wire' = <<[Snapshot(FALSE) EXCEPT !.state = IF invite THEN "waiting" ELSE "idle",
                                  !.invite = invite]>>
    /\ UNCHANGED <<invite, cpu, linked, match, round, acked, told>>

(* A frame is dropped: the client's buffer was full, or another stream took it. *)
(* The snapshot does not pass through that buffer.                             *)
Lose ==
    /\ budget.losses > 0 /\ wire # <<>> /\ Head(wire).ev # "connected"
    /\ budget' = [budget EXCEPT !.losses = @ - 1]
    /\ wire' = Tail(wire)
    /\ UNCHANGED server

(* The server, left to itself *)
Serve == Pair \/ Play \/ Requeue \/ Release
=============================================================================
