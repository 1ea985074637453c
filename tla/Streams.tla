------------------------------ MODULE Streams ------------------------------
(* The event streams (server.go): one handleEvents goroutine per stream, the   *)
(* client record it serves, the record's send buffer, and the stop of the hub. *)
(* A browser reconnects with the id it has, and its old stream may linger; so  *)
(* several streams may serve one record, and the newest is to own it. Queueing *)
(* and pairing are Hub's, in one step each; what is kept here of a match is    *)
(* what its clients are told, and when its goroutine is counted as done.       *)
EXTENDS Naturals, Sequences, FiniteSets

CONSTANTS
    Id,          \* connection ids
    Record,      \* client records live at one time (a bound)
    Stream,      \* streams open at one time (a bound)
    Match,       \* matches live at one time (a bound)
    MaxClients,  \* the cap on registered clients
    SendCap,     \* the size of a record's send buffer
    None

ASSUME StreamsAssumption ==
    /\ MaxClients \in Nat \ {0} /\ SendCap \in Nat \ {0}
    /\ None \notin Id \union Record \union Stream \union Match

VARIABLES
    clients,  \* h.clients
    id,       \* c.id, of a record in use
    owner,    \* c.connID, named by the stream that set it
    alive,    \* c.alive is not cancelled
    send,     \* c.send
    lossy,    \* a frame meant for the owner was dropped, or read by another stream
    seat,     \* the client waits in the queue
    cmatch,   \* c.match
    serves,   \* the record a stream's handler was given
    at,       \* where a stream's handler stands
    view,     \* what the browser last heard on the stream
    stage,    \* where a match stands
    sides,    \* its clients
    due,      \* sides it has still to announce, to requeue, or to send to idle
    stop      \* how far Shutdown has come

records == <<clients, id, owner, alive>>
frames == <<send, lossy>>
play == <<seat, cmatch>>
streams == <<serves, at, view>>
matches == <<stage, sides, due>>
vars == <<records, frames, play, streams, matches, stop>>

Frame == {"matched", "idle"}
At == {"free", "created", "begun", "open", "ending", "removing", "cancelling"}
Stage == {"free", "started", "playing", "failing", "returned", "telling"}

(* The registry and the records, their frames, what they play, the streams     *)
(* that serve them, and the matches                                            *)
TypeRecords ==
    /\ clients \in [Id -> Record \union {None}]
    /\ id \in [Record -> Id \union {None}]
    /\ owner \in [Record -> Stream \union {None}]
    /\ alive \in [Record -> BOOLEAN]
TypeFrames ==
    /\ send \in [Record -> Seq(Frame)] /\ \A r \in Record : Len(send[r]) <= SendCap
    /\ lossy \in [Record -> BOOLEAN]
TypePlay ==
    /\ seat \in [Record -> BOOLEAN]
    /\ cmatch \in [Record -> Match \union {None}]
TypeStreams ==
    /\ serves \in [Stream -> Record \union {None}]
    /\ at \in [Stream -> At]
    /\ view \in [Stream -> Frame \union {None}]
TypeMatches ==
    /\ stage \in [Match -> Stage]
    /\ sides \in [Match -> SUBSET Record]
    /\ due \in [Match -> SUBSET Record]
    /\ stop \in {"up", "down", "waiting", "returned"}

TypeOK == TypeRecords /\ TypeFrames /\ TypePlay /\ TypeStreams /\ TypeMatches

Init ==
    /\ clients = [i \in Id |-> None]
    /\ id = [r \in Record |-> None] /\ owner = [r \in Record |-> None]
    /\ alive = [r \in Record |-> FALSE]
    /\ send = [r \in Record |-> <<>>] /\ lossy = [r \in Record |-> FALSE]
    /\ seat = [r \in Record |-> FALSE] /\ cmatch = [r \in Record |-> None]
    /\ serves = [s \in Stream |-> None] /\ at = [s \in Stream |-> "free"]
    /\ view = [s \in Stream |-> None]
    /\ stage = [m \in Match |-> "free"]
    /\ sides = [m \in Match |-> {}] /\ due = [m \in Match |-> {}]
    /\ stop = "up"

Registered(r) == id[r] # None /\ clients[id[r]] = r
Online == {i \in Id : clients[i] # None}

(* The records still referred to once streams serve what given says, and the   *)
(* matches have the sides group says. What the others held is forgotten.       *)
Kept(given, group) ==
    {r \in Record : Registered(r) \/ seat[r] \/ (\E s \in Stream : given[s] = r)
                                           \/ (\E m \in Match : r \in group[m])}
Collect(kept) ==
    /\ id' = [r \in Record |-> IF r \in kept THEN id[r] ELSE None]
    /\ owner' = [r \in Record |-> IF r \in kept THEN owner[r] ELSE None]
    /\ send' = [r \in Record |-> IF r \in kept THEN send[r] ELSE <<>>]
    /\ lossy' = [r \in Record |-> lossy[r] /\ r \in kept]
    /\ cmatch' = [r \in Record |-> IF r \in kept THEN cmatch[r] ELSE None]

(* sendEv: a frame that finds the buffer full is dropped *)
Emit(r, f) ==
    IF Len(send[r]) < SendCap
    THEN send' = [send EXCEPT ![r] = Append(@, f)] /\ UNCHANGED lossy
    ELSE lossy' = [lossy EXCEPT ![r] = TRUE] /\ UNCHANGED send

-----------------------------------------------------------------------------
(* A stream. *)

(* newClient *)
Fresh(r, i) ==
    /\ id' = [id EXCEPT ![r] = i] /\ owner' = [owner EXCEPT ![r] = None]
    /\ alive' = [alive EXCEPT ![r] = TRUE]
    /\ send' = [send EXCEPT ![r] = <<>>] /\ lossy' = [lossy EXCEPT ![r] = FALSE]
    /\ cmatch' = [cmatch EXCEPT ![r] = None] /\ UNCHANGED seat

(* getOrCreate: the record the id names, or a fresh one. A stream has a connID  *)
(* of its own: the name is not used again while a record bears it.             *)
Open(s, i) ==
    /\ at[s] = "free" /\ \A r \in Record : owner[r] # s
    /\ at' = [at EXCEPT ![s] = "created"]
    /\ \/ /\ clients[i] # None
          /\ serves' = [serves EXCEPT ![s] = clients[i]]
          /\ UNCHANGED <<records, frames, play>>
       \/ /\ clients[i] = None /\ Cardinality(Online) < MaxClients
          /\ \E r \in Record :
               /\ r \notin Kept(serves, sides)
               /\ serves' = [serves EXCEPT ![s] = r]
               /\ clients' = [clients EXCEPT ![i] = r]
               /\ Fresh(r, i)
    /\ UNCHANGED <<view, matches, stop>>

(* beginConn: the newest stream owns the record *)
Begin(s) ==
    /\ at[s] = "created"
    /\ at' = [at EXCEPT ![s] = "begun"]
    /\ owner' = [owner EXCEPT ![serves[s]] = s]
    /\ UNCHANGED <<clients, id, alive, frames, play, serves, view, matches, stop>>

(* The connected frame, written past the buffer: what the client is doing now. *)
(* What the buffer still holds was meant for the time before. The write may    *)
(* fail.                                                                       *)
Snapshot(s) ==
    /\ at[s] = "begun"
    /\ LET r == serves[s]
       IN /\ view' = [view EXCEPT ![s] = IF cmatch[r] = None THEN "idle" ELSE "matched"]
          /\ lossy' = [lossy EXCEPT ![r] = @ /\ ~(owner[r] = s /\ send[r] = <<>>)]
    /\ at' = [at EXCEPT ![s] = "open"]
    /\ UNCHANGED <<records, send, play, serves, matches, stop>>

(* One frame from the buffer to the browser. Any stream of the record may take *)
(* it.                                                                         *)
Flush(s) ==
    /\ at[s] = "open"
    /\ LET r == serves[s]
       IN /\ send[r] # <<>>
          /\ send' = [send EXCEPT ![r] = Tail(@)]
          /\ view' = [view EXCEPT ![s] = Head(send[r])]
          /\ lossy' = [lossy EXCEPT ![r] = @ \/ owner[r] # s]
    /\ UNCHANGED <<records, play, serves, at, matches, stop>>

(* The browser is gone, or a write ran into its deadline and took its frame    *)
(* along                                                                       *)
PeerGone(s) ==
    /\ at[s] \in {"begun", "open"}
    /\ at' = [at EXCEPT ![s] = "ending"] /\ view' = [view EXCEPT ![s] = None]
    /\ UNCHANGED <<records, play, serves, matches, stop>>
    /\ LET r == serves[s]
       IN \/ UNCHANGED frames
          \/ /\ at[s] = "open" /\ send[r] # <<>>
             /\ send' = [send EXCEPT ![r] = Tail(@)]
             /\ lossy' = [lossy EXCEPT ![r] = TRUE]

(* endConn, under the record's lock: is this the newest stream? *)
(* mutant: a stream that shares its record leaves it to the other *)
OwnsAlone(s) == owner[serves[s]] = s /\ \A t \in Stream \ {s} : serves[t] # serves[s]
Owns(s) == owner[serves[s]] = s

(* The handler returns *)
Close(s) ==
    /\ at' = [at EXCEPT ![s] = "free"]
    /\ serves' = [serves EXCEPT ![s] = None] /\ UNCHANGED view
    /\ Collect(Kept(serves', sides))

CheckOwner(s) ==
    /\ at[s] = "ending"
    /\ \/ /\ Owns(s)
          /\ at' = [at EXCEPT ![s] = "removing"]
          /\ UNCHANGED <<id, owner, frames, cmatch, serves, view>>
       \/ /\ ~Owns(s)
          /\ Close(s)
    /\ UNCHANGED <<clients, alive, seat, matches, stop>>

(* ... and, under the hub's lock, removeClient *)
Remove(s) ==
    /\ at[s] = "removing"
    /\ LET r == serves[s]
       IN /\ clients' = IF Registered(r) THEN [clients EXCEPT ![id[r]] = None] ELSE clients
          /\ seat' = [seat EXCEPT ![r] = FALSE]
          /\ cmatch' = [cmatch EXCEPT ![r] = None]
    /\ at' = [at EXCEPT ![s] = "cancelling"]
    /\ UNCHANGED <<id, owner, alive, frames, serves, view, matches, stop>>

(* ... and, with no lock held, c.cancel() *)
Cancel(s) ==
    /\ at[s] = "cancelling"
    /\ alive' = [alive EXCEPT ![serves[s]] = FALSE]
    /\ Close(s)
    /\ UNCHANGED <<clients, seat, matches, stop>>

-----------------------------------------------------------------------------
(* Matches. *)

Down == stop # "up"

(* The matches Shutdown's Wait is waiting for: run's deferred block has not     *)
(* counted them as done                                                        *)
Joined == {m \in Match : stage[m] \in {"started", "playing", "failing"}}
(* h.running: finishMatch has not taken them out *)
Running == {m \in Match : stage[m] \in {"started", "playing", "failing", "returned"}}

(* startMatchLocked: a stopped hub starts nothing, though the clients already  *)
(* point at the match                                                          *)
(* mutant: a stopped hub is not looked at *)
StartsAnyway(m) == stage' = [stage EXCEPT ![m] = "started"]
StartsUnlessDown(m) == stage' = IF Down THEN stage ELSE [stage EXCEPT ![m] = "started"]

MakeMatch(m, group) ==
    /\ stage[m] = "free"
    /\ StartsUnlessDown(m)
    /\ LET playing == IF stage'[m] = "free" THEN {} ELSE group
       IN sides' = [sides EXCEPT ![m] = playing] /\ due' = [due EXCEPT ![m] = playing]
    /\ seat' = [r \in Record |-> seat[r] /\ r \notin group]
    /\ cmatch' = [r \in Record |-> IF r \in group THEN m ELSE cmatch[r]]
    /\ UNCHANGED <<records, frames, streams, stop>>

(* /queue and /cpu, of a client that plays no match; the request may have       *)
(* resolved its client before that was removed                                 *)
TakeSeat(r) ==
    /\ id[r] # None /\ cmatch[r] = None /\ ~seat[r]
    /\ seat' = [seat EXCEPT ![r] = TRUE]
    /\ UNCHANGED <<records, frames, cmatch, streams, matches, stop>>

PlayCPU(m, r) == id[r] # None /\ cmatch[r] = None /\ MakeMatch(m, {r})

(* tryMatch looks at the seats only: a requeued side may still point at the    *)
(* match it comes from                                                         *)
Pair(m, a, b) == a # b /\ seat[a] /\ seat[b] /\ MakeMatch(m, {a, b})

SomeoneLeft(m) == \E r \in sides[m] : ~alive[r]

(* run: every side is told of the match (left() may have been read before a     *)
(* side left)                                                                  *)
Announce(m, r) ==
    /\ stage[m] = "started" /\ r \in due[m]
    /\ Emit(r, "matched")
    /\ due' = [due EXCEPT ![m] = @ \ {r}]
    /\ stage' = [stage EXCEPT ![m] = IF due[m] = {r} THEN "playing" ELSE @]
    /\ UNCHANGED <<records, play, streams, sides, stop>>

(* The goroutine leaves for good, at the end of the match or because a side is *)
(* gone: the deferred block counts it as done.                                 *)
Return(m) ==
    /\ \/ stage[m] = "playing"
       \/ stage[m] = "started" /\ due[m] = sides[m] /\ SomeoneLeft(m)
    /\ stage' = [stage EXCEPT ![m] = "returned"] /\ due' = [due EXCEPT ![m] = {}]
    /\ UNCHANGED <<records, frames, play, streams, sides, stop>>

(* The handshake fails: sides of a queue match are offered back *)
HandshakeFails(m) ==
    /\ stage[m] = "playing" /\ Cardinality(sides[m]) = 2
    /\ \E offers \in {sides[m]} \union {sides[m] \ {r} : r \in {x \in sides[m] : ~alive[x]}} :
         due' = [due EXCEPT ![m] = offers]
    /\ stage' = [stage EXCEPT ![m] = "failing"]
    /\ UNCHANGED <<records, frames, play, streams, sides, stop>>

Requeue(m, r) ==
    /\ stage[m] = "failing" /\ r \in due[m]
    /\ seat' = [seat EXCEPT ![r] = @ \/ alive[r]]
    /\ due' = [due EXCEPT ![m] = @ \ {r}]
    /\ stage' = [stage EXCEPT ![m] = IF due[m] = {r} THEN "returned" ELSE @]
    /\ UNCHANGED <<records, frames, cmatch, streams, sides, stop>>

(* finishMatch, under the lock: which sides are still in this match *)
(* mutant: only one of the sides is looked at *)
OneStillIn(m) == {r \in sides[m] : cmatch[r] = m /\ \A q \in sides[m] : cmatch[q] = m => q = r}
StillIn(m) == {r \in sides[m] : cmatch[r] = m}

Finish(m) ==
    /\ stage[m] = "returned"
    /\ cmatch' = [r \in Record |-> IF r \in sides[m] /\ cmatch[r] = m THEN None ELSE cmatch[r]]
    /\ due' = [due EXCEPT ![m] = StillIn(m)]
    /\ stage' = [stage EXCEPT ![m] = "telling"]
    /\ UNCHANGED <<records, frames, seat, streams, sides, stop>>

(* ... and, unlocked, the teardown frame of each *)
Tell(m, r) ==
    /\ stage[m] = "telling" /\ r \in due[m]
    /\ Emit(r, "idle")
    /\ due' = [due EXCEPT ![m] = @ \ {r}]
    /\ UNCHANGED <<records, play, streams, stage, sides, stop>>

Gone(m) ==
    /\ stage[m] = "telling" /\ due[m] = {}
    /\ stage' = [stage EXCEPT ![m] = "free"] /\ sides' = [sides EXCEPT ![m] = {}]
    /\ Collect(Kept(serves, sides'))
    /\ UNCHANGED <<clients, alive, seat, streams, due, stop>>

-----------------------------------------------------------------------------
(* Shutdown. *)

(* h.stop(): from now on h.down reads as cancelled *)
StopHub ==
    /\ stop = "up" /\ stop' = "down"
    /\ UNCHANGED <<records, frames, play, streams, matches>>

(* The clients cancelClientsForShutdown cancels *)
(* mutant: the clients of the registry instead *)
WokenOnline == {r \in Record : Registered(r)}
Woken == UNION {sides[m] : m \in Running}

WakeMatches ==
    /\ stop = "down" /\ stop' = "waiting"
    /\ alive' = [r \in Record |-> alive[r] /\ r \notin Woken]
    /\ UNCHANGED <<clients, id, owner, frames, play, streams, matches>>

WaitReturns ==
    /\ stop = "waiting" /\ Joined = {}
    /\ stop' = "returned"
    /\ UNCHANGED <<records, frames, play, streams, matches>>

(* The streams end with the hub *)
StreamStops(s) ==
    /\ Down /\ at[s] = "open"
    /\ at' = [at EXCEPT ![s] = "ending"] /\ view' = [view EXCEPT ![s] = None]
    /\ UNCHANGED <<records, frames, play, serves, matches, stop>>

-----------------------------------------------------------------------------
Handler(s) == Begin(s) \/ Snapshot(s) \/ Flush(s) \/ CheckOwner(s) \/ Remove(s) \/ Cancel(s)

Run(m) == \/ \E r \in Record : Announce(m, r) \/ Requeue(m, r) \/ Tell(m, r)
          \/ Finish(m) \/ Gone(m)

Next ==
    \/ \E s \in Stream : Handler(s) \/ PeerGone(s) \/ StreamStops(s)
                         \/ \E i \in Id : Open(s, i)
    \/ \E r \in Record : TakeSeat(r)
    \/ \E m \in Match : \/ Run(m) \/ Return(m) \/ HandshakeFails(m)
                        \/ \E a, b \in Record : PlayCPU(m, a) \/ Pair(m, a, b)
    \/ StopHub \/ WakeMatches \/ WaitReturns

Spec == Init /\ [][Next]_vars

-----------------------------------------------------------------------------
(* Safety.                                                                     *)

(* Nobody stays online for ever: a registered client always has a stream that  *)
(* will remove it when it ends, its owner or one about to become it, however   *)
(* many streams of the same browser overlap.                                   *)
NoGhost ==
    \A r \in Record : Registered(r) =>
        \E s \in Stream : serves[s] = r /\ (at[s] = "created" \/ owner[r] = s)

(* No player is left in a match that is over: where the owner's stream has     *)
(* delivered all that was sent and nothing was lost, a browser that believes   *)
(* it plays is in a match, or its teardown is on its way.                      *)
NoStrandedPlayer ==
    \A s \in Stream : LET r == serves[s] IN
        at[s] = "open" /\ owner[r] = s /\ Registered(r) /\ ~lossy[r] /\ send[r] = <<>>
        /\ view[s] = "matched"
            => cmatch[r] # None \/ \E m \in Match : stage[m] = "telling" /\ r \in due[m]

(* Every match Shutdown waits for has been woken: a match that started before  *)
(* the stop took the lock has had its clients cancelled, and none slips in.    *)
AllWoken ==
    stop \in {"waiting", "returned"} => \A m \in Joined : \A r \in sides[m] : ~alive[r]

(* While Shutdown waits nothing is added to what it waits for (a WaitGroup that *)
(* is added to during a Wait panics).                                           *)
NothingStartsUnderWait ==
    [][(stop \in {"waiting", "returned"}) => Joined' \subseteq Joined]_vars
=============================================================================
