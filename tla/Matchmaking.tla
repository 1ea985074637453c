---------------------------- MODULE Matchmaking ----------------------------
(* What the hub promises, and nothing of how: a connected client is in one     *)
(* place at a time, waiting or in one game; a pairing takes two that wait for   *)
(* the same mode, a link is claimed once and by another player, and nobody is   *)
(* put in a game but by a pairing, a claim or its own start. Hub implements it  *)
(* when every player has one connection.                                        *)

CONSTANTS
    Client,  \* connections
    Player,  \* those they belong to
    PidOf,   \* which one
    Mode,    \* what a game is played to
    Match    \* identities for games

VARIABLES
    present, \* the connected clients
    waits,   \* the modes a client waits in the queue for
    plays,   \* the games it is in: of which match, kind and mode
    invites  \* the modes a player's link, not yet claimed, stands for

places == <<present, waits, plays, invites>>

Put(f, S, v) == [x \in DOMAIN f |-> IF x \in S THEN v ELSE f[x]]

Free(c) == plays[c] = {}
Of(m) == {c \in Client : \E g \in plays[c] : g.match = m}

Init ==
    /\ present = {} /\ waits = [c \in Client |-> {}] /\ plays = [c \in Client |-> {}]
    /\ invites = [p \in Player |-> {}]

Arrive(c) ==
    /\ c \notin present
    /\ present' = present \union {c}
    /\ UNCHANGED <<waits, plays, invites>>

(* Who leaves leaves its places; its player's link stays *)
Depart(c) ==
    /\ c \in present
    /\ present' = present \ {c}
    /\ waits' = Put(waits, {c}, {}) /\ plays' = Put(plays, {c}, {})
    /\ UNCHANGED invites

(* Queueing again changes the mode *)
Wait(c, mode) ==
    /\ c \in present /\ Free(c) /\ invites[PidOf[c]] = {}
    /\ waits' = Put(waits, {c}, {mode})
    /\ UNCHANGED <<present, plays, invites>>

(* The requests below may be answered when their client has left already *)
Withdraw(c) ==
    /\ waits' = Put(waits, {c}, {}) /\ invites' = Put(invites, {PidOf[c]}, {})
    /\ UNCHANGED <<present, plays>>

(* A link takes its player out of the queue, also when the hub has no room for *)
(* it; asking again changes the mode                                           *)
Invite(c) ==
    /\ Free(c)
    /\ waits' = Put(waits, {c}, {})
    /\ UNCHANGED invites \/ \E mode \in Mode : invites' = Put(invites, {PidOf[c]}, {mode})
    /\ UNCHANGED <<present, plays>>

(* A new game: whoever of its sides is still there is in it, and waits no more *)
Play(m, kind, mode, sides) ==
    /\ Of(m) = {} /\ \A c \in sides : Free(c)
    /\ plays' = Put(plays, sides \intersect present,
                    {[match |-> m, kind |-> kind, mode |-> mode]})
    /\ waits' = Put(waits, sides, {})
    /\ UNCHANGED present

Pair(c, d) ==
    /\ c # d
    /\ \E m \in Match, mode \in Mode :
          /\ \A x \in {c, d} \intersect present : waits[x] = {mode}
          /\ Play(m, "queue", mode, {c, d})
    /\ UNCHANGED invites

Solo(c) ==
    /\ \E m \in Match, mode \in Mode : Play(m, "cpu", mode, {c})
    /\ invites' = Put(invites, {PidOf[c]}, {})

(* c claims the link of d's player, who is there and not in the queue *)
Claim(c, d) ==
    /\ d \in present /\ waits[d] = {} /\ PidOf[c] # PidOf[d]
    /\ \E m \in Match, mode \in invites[PidOf[d]] : Play(m, "challenge", mode, {c, d})
    /\ invites' = Put(invites, {PidOf[d]}, {})

(* A game ends, or its handshake fails, for some of its sides *)
Over(m, sides) ==
    /\ sides \subseteq Of(m)
    /\ plays' = Put(plays, sides, {})
    /\ UNCHANGED <<present, waits, invites>>

(* A side that was paired and whose handshake failed waits again, for what it *)
(* was to play                                                                 *)
Requeue(c) ==
    /\ \E g \in plays[c] : g.kind = "queue" /\ waits' = Put(waits, {c}, {g.mode})
    /\ plays' = Put(plays, {c}, {})
    /\ UNCHANGED <<present, invites>>

(* Links lapse with the game their players were in *)
Lapse(sides) ==
    /\ \A c \in sides : Free(c)
    /\ invites' = Put(invites, {PidOf[c] : c \in sides}, {})
    /\ UNCHANGED <<present, waits, plays>>

Next ==
    \/ \E c \in Client : \/ Arrive(c) \/ Depart(c) \/ Withdraw(c) \/ Invite(c) \/ Solo(c)
                         \/ Requeue(c)
                         \/ \E mode \in Mode : Wait(c, mode)
                         \/ \E d \in Client : Pair(c, d) \/ Claim(c, d)
    \/ \E m \in Match, sides \in SUBSET Client : Over(m, sides)
    \/ \E sides \in SUBSET Client : Lapse(sides)

Spec == Init /\ [][Next]_places
=============================================================================
