----------------------------- MODULE HubPromise -----------------------------
(* The hub seen as places its clients are in: the refinement mapping from Hub  *)
(* to Matchmaking.                                                             *)
EXTENDS Hub

(* A match is live for a side while it runs, and when its handshake has failed *)
(* until it has offered the side back                                          *)
LiveFor(m, c) ==
    \E i \in Side :
        /\ match[m].side[i] = c
        /\ match[m].stage = "running" \/ (match[m].stage = "failing" /\ i \in match[m].offers)

(* The places of a connected client: a record that was removed has none, even  *)
(* if a request it had in flight took a seat                                   *)
ModesOf(q, c) == {q[n].mode : n \in {k \in DOMAIN q : q[k].client = c}}
GameOf(m) == [match |-> m, kind |-> match[m].kind, mode |-> match[m].mode]
GamesOf(c) == {GameOf(m) : m \in {k \in Match : LiveFor(k, c)}}

Waits == [c \in Client |-> IF reg[c] THEN ModesOf(queue, c) ELSE {}]
Plays == [c \in Client |-> IF reg[c] THEN GamesOf(c) ELSE {}]

(* A link in play is claimed, though its token is kept until the match is over *)
Invites == [p \in Player |->
    {entry[t].mode : t \in {u \in Reserved : entry[u].pid = p /\ entry[u].match = None}}]

Promise == INSTANCE Matchmaking WITH
    present <- Live, waits <- Waits, plays <- Plays, invites <- Invites

(* With one connection per player the hub keeps its clients in one place each: *)
(* nobody is paired, invited into or started a second game while one is live   *)
(* for it, nor left in the queue behind its game; two that are paired waited   *)
(* for the same mode, and a link is claimed once. (With two tabs of a player   *)
(* it does as long as nobody queues: see OneMatchPerConnection.)               *)
KeepsItsPromise == Promise!Spec
=============================================================================
