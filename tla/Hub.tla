-------------------------------- MODULE Hub --------------------------------
(* The hub (server.go): connected clients, the matchmaking queue, challenge   *)
(* reservations and the matches paired from them. Every critical section of   *)
(* Hub.mu is one action; what happens between two of them is not: a request    *)
(* resolves its client (requireClient) and locks again later, removeClient     *)
(* cancels the connection's context after it has unlocked, and a failed        *)
(* handshake re-queues its sides one lock at a time before finishMatch runs.   *)
(* The inside of a match is Match.tla; here it ends, or its handshake fails,   *)
(* at any time.                                                                *)
EXTENDS Naturals, Sequences, FiniteSets

CONSTANTS
    Client,       \* connections; after a removal the same value is a new record
    Player,       \* pids
    PidOf,        \* the player a connection belongs to
    Mode,         \* a roundsTarget with its drawEnds
    Match,        \* identities for the matches live at one time (a bound)
    Token,        \* challenge tokens open at one time (a bound)
    MaxClients, MaxQueue, MaxMatches,  \* the hub's caps
    MaxInFlight,  \* requests between requireClient and their lock (a bound)
    Asked,        \* the requests the clients send at all (a bound)
    None

Side == {0, 1}
Op == {"queue", "cancel", "cpu", "challenge", "join"}

ASSUME HubAssumption ==
    /\ PidOf \in [Client -> Player]
    /\ MaxClients \in Nat \ {0} /\ MaxQueue \in Nat \ {0} /\ MaxMatches \in Nat \ {0}
    /\ MaxInFlight \in Nat \ {0} /\ Asked \subseteq Op
    /\ None \notin Client \union Match \union Token \union Op

VARIABLES
    reg,       \* h.clients holds the connection's record
    alive,     \* its context is not cancelled
    queue,     \* h.queue
    queueing,  \* c.queueing
    entry,     \* h.challenges: the reservation a token names
    open,      \* h.challenge: the token a player has open
    cmatch,    \* c.match
    match,     \* the matches the hub has started: h.running, and what it knows of each
    pending,   \* the request a client has past requireClient
    trying,    \* a tryMatch goroutine is due
    held       \* a tryMatch pass holds the lock

registry == <<reg, alive>>
seats == <<queue, queueing>>
challenges == <<entry, open>>
vars == <<registry, seats, challenges, cmatch, match, pending, trying, held>>

Kind == {"queue", "challenge", "cpu"}
Stage == {"free", "running", "failing", "ending"}

Entry == [pid : Player, mode : Mode, match : Match \union {None}]
Seat == [client : Client, mode : Mode]
ASSUME NoneAssumption == None \notin Entry

FreeMatch == [stage |-> "free", kind |-> "queue", mode |-> None,
              side |-> [i \in Side |-> None], offers |-> {}]

MatchRecord == [stage : Stage, kind : Kind, mode : Mode \union {None},
                side : [Side -> Client \union {None}], offers : SUBSET Side]

(* Connections, the queue, reservations, matches, and what is under way *)
TypeClients ==
    /\ reg \in [Client -> BOOLEAN] /\ alive \in [Client -> BOOLEAN]
    /\ queueing \in [Client -> BOOLEAN]
TypeQueue == queue \in Seq(Seat)
TypeChallenges ==
    /\ entry \in [Token -> Entry \union {None}]
    /\ open \in [Player -> Token \union {None}]
TypeMatches ==
    /\ cmatch \in [Client -> Match \union {None}]
    /\ match \in [Match -> MatchRecord]
TypeWork ==
    /\ pending \in [Client -> Op \union {None}]
    /\ trying \in BOOLEAN /\ held \in BOOLEAN

TypeOK == TypeClients /\ TypeQueue /\ TypeChallenges /\ TypeMatches /\ TypeWork

Init ==
    /\ reg = [c \in Client |-> FALSE] /\ alive = [c \in Client |-> FALSE]
    /\ queue = <<>> /\ queueing = [c \in Client |-> FALSE]
    /\ entry = [t \in Token |-> None] /\ open = [p \in Player |-> None]
    /\ cmatch = [c \in Client |-> None]
    /\ match = [m \in Match |-> FreeMatch]
    /\ pending = [c \in Client |-> None]
    /\ trying = FALSE /\ held = FALSE

Live == {c \in Client : reg[c]}
Reserved == {t \in Token : entry[t] # None}
Started == {m \in Match : match[m].stage # "free"}
SidesOf(m) == {match[m].side[i] : i \in Side} \ {None}

-----------------------------------------------------------------------------
(* The queue. *)

Seated(c) == {n \in DOMAIN queue : queue[n].client = c}

RemoveSeat(q, n) == SubSeq(q, 1, n - 1) \o SubSeq(q, n + 1, Len(q))

(* Leaving the queue, where it goes with doing something else: dequeueLocked   *)
(* takes out the client's first seat                                           *)
(* mutant: the seat is kept *)
StaysSeated(c) == UNCHANGED seats
Unseat(c) ==
    /\ \/ /\ queueing[c] /\ Seated(c) # {}
          /\ \E n \in Seated(c) : /\ \A k \in Seated(c) : n <= k
                                /\ queue' = RemoveSeat(queue, n)
       \/ /\ ~(queueing[c] /\ Seated(c) # {})
          /\ UNCHANGED queue
    /\ queueing' = [queueing EXCEPT ![c] = FALSE]

(* handleQueue's seat: a re-post updates the mode of the seat that is there *)
(* mutant: a re-post takes another seat *)
SeatAgain(q, c, mode) == Append(q, [client |-> c, mode |-> mode])
SeatFor(q, c, mode) ==
    IF \E n \in DOMAIN q : q[n].client = c
    THEN [n \in DOMAIN q |-> IF q[n].client = c THEN [q[n] EXCEPT !.mode = mode] ELSE q[n]]
    ELSE Append(q, [client |-> c, mode |-> mode])

(* mutant: any two are paired *)
AnyTwo(q) == {p \in (DOMAIN q) \X (DOMAIN q) : p[1] < p[2]}
(* firstEqualPairLocked: the earliest seat that has a later one of its mode,   *)
(* with the earliest such later seat                                           *)
Pairs(q) == {p \in (DOMAIN q) \X (DOMAIN q) : p[1] < p[2] /\ q[p[1]].mode = q[p[2]].mode}
IsFirstPair(q, p) == \A r \in Pairs(q) : p[1] < r[1] \/ (p[1] = r[1] /\ p[2] <= r[2])

-----------------------------------------------------------------------------
(* Reservations. *)

(* Reservations are dropped by the players that opened them and by the match   *)
(* they are in play for; the entry goes from h.challenges, the player's mark   *)
(* from h.challenge.                                                           *)
(* mutant: the token stays in h.challenges *)
DropMarksOnly(players, m) ==
    /\ open' = [p \in Player |-> IF p \in players THEN None ELSE open[p]]
    /\ UNCHANGED entry
(* dropChallengeByPidLocked for each of the players, then finishMatch's sweep  *)
(* of what is still in play for m                                              *)
Drop(players, m) ==
    LET own == {open[p] : p \in players}
        spent == {t \in Reserved \ own : m # None /\ entry[t].match = m}
    IN /\ entry' = [t \in Token |-> IF t \in own \union spent THEN None ELSE entry[t]]
       /\ open' = [p \in Player |-> IF p \in players \union {entry[t].pid : t \in spent}
                                     THEN None ELSE open[p]]

-----------------------------------------------------------------------------
(* makeMatch and startMatchLocked, for sides a and b (None is the CPU): both   *)
(* clients now play in m.                                                      *)
Start(m, kind, mode, a, b) ==
    /\ match[m].stage = "free"
    /\ match' = [match EXCEPT ![m] = [stage |-> "running", kind |-> kind, mode |-> mode,
                                      side |-> [i \in Side |-> IF i = 0 THEN a ELSE b],
                                      offers |-> {}]]
    /\ cmatch' = [c \in Client |-> IF c \in {a, b} THEN m ELSE cmatch[c]]

(* tryMatch: one pass pairs all it can while it holds the lock *)
TryPair ==
    /\ trying
    /\ \E p \in Pairs(queue) :
       LET a == queue[p[1]].client
           b == queue[p[2]].client
       IN /\ IsFirstPair(queue, p)
          /\ \E m \in Match : Start(m, "queue", queue[p[1]].mode, a, b)
          /\ queue' = RemoveSeat(RemoveSeat(queue, p[2]), p[1])
          /\ queueing' = [queueing EXCEPT ![a] = FALSE, ![b] = FALSE]
    /\ held' = TRUE
    /\ UNCHANGED <<registry, challenges, pending, trying>>

TryDone ==
    /\ trying /\ Pairs(queue) = {}
    /\ trying' = FALSE /\ held' = FALSE
    /\ UNCHANGED <<registry, seats, challenges, cmatch, match, pending>>

-----------------------------------------------------------------------------
(* Connections. *)

Referenced(c) ==
    \/ pending[c] # None
    \/ Seated(c) # {}
    \/ \E m \in Started : c \in SidesOf(m)

(* getOrCreate mints a record for a new stream *)
Connect(c) ==
    /\ ~held
    /\ ~reg[c] /\ ~alive[c] /\ ~Referenced(c)
    /\ Cardinality(Live) < MaxClients
    /\ reg' = [reg EXCEPT ![c] = TRUE] /\ alive' = [alive EXCEPT ![c] = TRUE]
    /\ UNCHANGED <<seats, challenges, cmatch, match, pending, trying, held>>

(* removeClient, under the lock: the reservation is kept *)
Remove(c) ==
    /\ ~held /\ reg[c]
    /\ reg' = [reg EXCEPT ![c] = FALSE]
    /\ Unseat(c)
    /\ cmatch' = [cmatch EXCEPT ![c] = None]
    /\ UNCHANGED <<alive, challenges, match, pending, trying, held>>

(* ... and, unlocked, c.cancel() *)
Cancelled(c) ==
    /\ ~reg[c] /\ alive[c]
    /\ alive' = [alive EXCEPT ![c] = FALSE]
    /\ UNCHANGED <<reg, seats, challenges, cmatch, match, pending, trying, held>>

-----------------------------------------------------------------------------
(* Requests. *)

(* requireClient: the connection id names a live client *)
Resolve(c, op) ==
    /\ ~held /\ reg[c] /\ op \in Asked /\ pending[c] = None
    /\ Cardinality({d \in Client : pending[d] # None}) < MaxInFlight
    /\ pending' = [pending EXCEPT ![c] = op]
    /\ UNCHANGED <<registry, seats, challenges, cmatch, match, trying, held>>

(* The handler takes the lock: it answers, and its request is over *)
Serves(c, op) == ~held /\ pending[c] = op /\ pending' = [pending EXCEPT ![c] = None]

Refused == UNCHANGED <<registry, seats, challenges, cmatch, match, trying, held>>

HandleQueue(c) ==
    /\ Serves(c, "queue")
    /\ \/ /\ cmatch[c] # None \/ Len(queue) >= MaxQueue \/ open[PidOf[c]] # None
          /\ Refused
       \/ /\ cmatch[c] = None /\ Len(queue) < MaxQueue /\ open[PidOf[c]] = None
          /\ \E mode \in Mode : queue' = SeatFor(queue, c, mode)
          /\ queueing' = [queueing EXCEPT ![c] = @ \/ Seated(c) = {}]
          /\ trying' = TRUE
          /\ UNCHANGED <<registry, challenges, cmatch, match, held>>

HandleCancel(c) ==
    /\ Serves(c, "cancel")
    /\ Unseat(c)
    /\ Drop({PidOf[c]}, None)
    /\ UNCHANGED <<registry, cmatch, match, trying, held>>

(* h.active: a match that is ending is taken out of the count at some moment   *)
(* before finishMatch takes the lock                                           *)
Counted == {m \in Started : match[m].stage # "ending"}

HandleCPU(c) ==
    /\ Serves(c, "cpu")
    /\ \/ /\ cmatch[c] # None \/ Cardinality(Started) >= MaxMatches
          /\ Refused
       \/ /\ cmatch[c] = None /\ Cardinality(Counted) < MaxMatches
          /\ Unseat(c)
          /\ Drop({PidOf[c]}, None)
          /\ \E m \in Match, mode \in Mode : Start(m, "cpu", mode, c, None)
          /\ UNCHANGED <<registry, trying, held>>

(* A new token, or the one the player has open with its mode brought up to     *)
(* date                                                                        *)
Mint(p) ==
    \E t \in Token \ Reserved, mode \in Mode :
        /\ entry' = [entry EXCEPT ![t] = [pid |-> p, mode |-> mode, match |-> None]]
        /\ open' = [open EXCEPT ![p] = t]
Remint(p) ==
    \E mode \in Mode : entry' = [entry EXCEPT ![open[p]].mode = mode] /\ UNCHANGED open

HandleChallenge(c) ==
    /\ Serves(c, "challenge")
    /\ LET p == PidOf[c]
           full == Cardinality(Reserved) >= MaxQueue
       IN \/ cmatch[c] # None /\ UNCHANGED <<seats, challenges>>
          \/ cmatch[c] = None /\ open[p] # None /\ Remint(p) /\ UNCHANGED seats
          \/ /\ cmatch[c] = None /\ open[p] = None
             /\ Unseat(c)
             /\ IF full THEN UNCHANGED challenges ELSE Mint(p)
    /\ UNCHANGED <<registry, cmatch, match, trying, held>>

(* creatorClientLocked: any live connection of the player *)
ConnectionsOf(p) == {c \in Live : PidOf[c] = p}

(* A claim by c of token t, played by the creator's connection d *)
(* mutant: a link in play is claimed again *)
MayClaimAgain(c, t, d) ==
    /\ cmatch[c] = None
    /\ t \in Reserved
    /\ d \in ConnectionsOf(entry[t].pid) /\ cmatch[d] = None
    /\ PidOf[c] # entry[t].pid
MayClaim(c, t, d) ==
    /\ cmatch[c] = None
    /\ t \in Reserved /\ entry[t].match = None
    /\ d \in ConnectionsOf(entry[t].pid) /\ cmatch[d] = None
    /\ PidOf[c] # entry[t].pid

(* A join may always be refused: the token it names may be nobody's *)
HandleJoin(c) ==
    /\ Serves(c, "join")
    /\ \/ Refused
       \/ \E t \in Token, d \in Client, m \in Match :
            /\ MayClaim(c, t, d)
            /\ Unseat(c)
            /\ Start(m, "challenge", entry[t].mode, d, c)
            /\ entry' = [entry EXCEPT ![t].match = m]
            /\ UNCHANGED <<registry, open, trying, held>>

-----------------------------------------------------------------------------
(* Matches, as the hub sees them. *)

(* The handshake failed: on time, or because side i's context is cancelled.    *)
(* The sides the engine will offer back to the queue are those still wanted.   *)
HandshakeFails(m) ==
    /\ match[m].stage = "running"
    /\ \E offers \in {Side} \union {{1 - i} : i \in {j \in Side :
                        match[m].side[j] # None /\ ~alive[match[m].side[j]]}} :
         match' = [match EXCEPT ![m].stage = "failing", ![m].offers = offers]
    /\ UNCHANGED <<registry, seats, challenges, cmatch, pending, trying, held>>

(* The match was played out, or broken off without a requeue *)
MatchEnds(m) ==
    /\ match[m].stage = "running"
    /\ match' = [match EXCEPT ![m].stage = "ending"]
    /\ UNCHANGED <<registry, seats, challenges, cmatch, pending, trying, held>>

(* m.requeue: a queue match's side that is still alive takes a seat again *)
TakeSeat(c, mode) ==
    IF alive[c] /\ ~queueing[c]
    THEN /\ queue' = Append(queue, [client |-> c, mode |-> mode])
         /\ queueing' = [queueing EXCEPT ![c] = TRUE]
    ELSE UNCHANGED seats

(* mutant: a requeued side is left to whoever queues next *)
NoTry(c) == UNCHANGED trying
TryAgain(c) == trying' = (trying \/ queueing'[c])

(* requeueSide, for side 0 and then side 1 *)
Requeue(m, i) ==
    /\ ~held /\ match[m].stage = "failing"
    /\ i \in match[m].offers /\ (i = 1 => 0 \notin match[m].offers)
    /\ LET c == match[m].side[i]
       IN IF match[m].kind = "queue"
          THEN TakeSeat(c, match[m].mode) /\ TryAgain(c)
          ELSE UNCHANGED <<seats, trying>>
    /\ match' = [match EXCEPT ![m].offers = @ \ {i},
                              ![m].stage = IF match[m].offers = {i} THEN "ending" ELSE @]
    /\ UNCHANGED <<registry, challenges, cmatch, pending, held>>

(* finishMatch: a side still in this match is in none, and its player's        *)
(* reservation is spent; so is the one this match was claimed from.            *)
(* mutant: the claimed reservation is not looked for *)
SpentBySides(m, torn) == Drop({PidOf[c] : c \in torn}, None)
Spent(m, torn) == Drop({PidOf[c] : c \in torn}, m)

(* mutant: a side that was paired again is pulled out of its new match *)
EverySide(m) == SidesOf(m)
(* mutant: only the first side is released *)
FirstStillIn(m) == {c \in {match[m].side[0]} \ {None} : cmatch[c] = m}
StillIn(m) == {c \in SidesOf(m) : cmatch[c] = m}

Finish(m) ==
    /\ ~held /\ match[m].stage = "ending"
    /\ cmatch' = [c \in Client |-> IF c \in StillIn(m) THEN None ELSE cmatch[c]]
    /\ Spent(m, StillIn(m))
    /\ match' = [match EXCEPT ![m] = FreeMatch]
    /\ UNCHANGED <<registry, seats, pending, trying, held>>

-----------------------------------------------------------------------------
Handle(c) == HandleQueue(c) \/ HandleCancel(c) \/ HandleCPU(c)
             \/ HandleChallenge(c) \/ HandleJoin(c)

MatchStep(m) == HandshakeFails(m) \/ MatchEnds(m) \/ (\E i \in Side : Requeue(m, i)) \/ Finish(m)

Next ==
    \/ \E c \in Client : Connect(c) \/ Remove(c) \/ Cancelled(c) \/ Handle(c)
    \/ \E c \in Client, op \in Op : Resolve(c, op)
    \/ TryPair \/ TryDone
    \/ \E m \in Match : MatchStep(m)

Spec == Init /\ [][Next]_vars

-----------------------------------------------------------------------------
(* Safety.                                                                     *)

(* h.challenges and h.challenge are two indexes of the same set: every open    *)
(* token is the open reservation of the player it names, and every player's    *)
(* reservation can be claimed. No handler leaves half a reservation behind.    *)
ReservationIndexesAgree ==
    /\ \A t \in Reserved : open[entry[t].pid] = t
    /\ \A p \in Player : open[p] # None => open[p] \in Reserved /\ entry[open[p]].pid = p

(* A client is marked as queueing exactly while it holds one seat: no handler  *)
(* and no requeue leaves it a second seat, or the mark without a seat (which    *)
(* would keep it from ever being requeued).                                    *)
SeatMatchesFlag ==
    \A c \in Client : Cardinality(Seated(c)) = IF queueing[c] THEN 1 ELSE 0

(* No two waiting players of one mode are overlooked: whenever such a pair is  *)
(* in the queue, a tryMatch is due.                                            *)
NoMissedPair == Pairs(queue) # {} => trying

(* A reservation in play names a match the hub still runs: the link is freed   *)
(* with the match, never left to answer "in play" for ever.                    *)
InPlayIsRunning ==
    \A t \in Reserved : entry[t].match # None => entry[t].match \in Started

(* A connected client that is a side of a running match is in that match: its  *)
(* moves and acks reach it, and it is in no other. (With one connection per    *)
(* player; with two tabs see OneMatchPerConnection.)                           *)
OneMatchPerClient ==
    \A m \in Match, c \in Live :
        match[m].stage = "running" /\ c \in SidesOf(m) => cmatch[c] = m

(* The match a client points at exists and has it as a side: a teardown leaves *)
(* nobody pointing at a match that is gone, which would answer every later     *)
(* start with "already in a match".                                            *)
PointsAtOwnMatch ==
    \A c \in Client : cmatch[c] # None => cmatch[c] \in Started /\ c \in SidesOf(cmatch[c])

(* A client waits in the queue or plays, never both: only while the match      *)
(* whose handshake failed is torn down does it have its seat already. (With    *)
(* one connection per player.)                                                 *)
SeatedIsFree ==
    \A c \in Live : queueing[c] /\ cmatch[c] # None
        => match[cmatch[c]].stage \in {"failing", "ending"}

(* Claims of the sources that the code does not keep: each is refuted by a run. *)

(* One live match per client, whatever tabs its player has open: violated when *)
(* a join picks the creator's other tab, which keeps its seat in the queue.    *)
OneMatchPerConnection ==
    \A c \in Live : \A m1, m2 \in {m \in Match : match[m].stage = "running"} :
        c \in SidesOf(m1) /\ c \in SidesOf(m2) => m1 = m2
=============================================================================
