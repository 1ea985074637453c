----------------------------- MODULE HubProofs -----------------------------
(* Machine-checked theorems about the hub (Hub.tla), for every value of its    *)
(* constants: any number of clients, players, tabs, tokens and matches. First  *)
(* its tables one by one, then what they promise together: the queue and its   *)
(* marks, links in play and the matches they name, and, when each player has   *)
(* one connection, that a client waits or plays in one place. Last, and with   *)
(* the same premise, that the hub implements Matchmaking.                      *)
EXTENDS HubPromise, SequenceTheorems, FiniteSetTheorems, TLAPS

-----------------------------------------------------------------------------
(* The queue's operations keep it a queue. *)
LEMMA RemoveSeatType ==
  ASSUME NEW q \in Seq(Seat), NEW n \in DOMAIN q
  PROVE  /\ RemoveSeat(q, n) \in Seq(Seat)
         /\ Len(RemoveSeat(q, n)) = Len(q) - 1
<1>1. n \in 1..Len(q) /\ Len(q) \in Nat
  BY LenProperties
<1>2. \A k \in 1..(n - 1) : q[k] \in Seat
  BY <1>1, ElementOfSeq
<1>3. \A k \in (n + 1)..Len(q) : q[k] \in Seat
  BY <1>1, ElementOfSeq
<1>4. SubSeq(q, 1, n - 1) \in Seq(Seat) /\ Len(SubSeq(q, 1, n - 1)) = n - 1
  BY <1>1, <1>2, SubSeqProperties
<1>5. SubSeq(q, n + 1, Len(q)) \in Seq(Seat) /\ Len(SubSeq(q, n + 1, Len(q))) = Len(q) - n
  BY <1>1, <1>3, SubSeqProperties
<1>6. /\ RemoveSeat(q, n) \in Seq(Seat)
      /\ Len(RemoveSeat(q, n)) = Len(SubSeq(q, 1, n - 1)) + Len(SubSeq(q, n + 1, Len(q)))
  BY <1>4, <1>5, ConcatProperties DEF RemoveSeat
<1>7. \A k \in Int, l \in Int : (k - 1) + (l - k) = l - 1
  OBVIOUS
<1>8. n \in Int /\ Len(q) \in Int
  BY <1>1
<1> QED
  BY <1>4, <1>5, <1>6, <1>7, <1>8

LEMMA UnseatType ==
  ASSUME TypeClients, TypeQueue, NEW c \in Client, Unseat(c)
  PROVE  TypeQueue' /\ queueing' \in [Client -> BOOLEAN]
<1>1. CASE UNCHANGED queue
  BY <1>1 DEF Unseat, TypeQueue, TypeClients
<1>2. CASE \E n \in Seated(c) : queue' = RemoveSeat(queue, n)
  BY <1>2, RemoveSeatType DEF Unseat, TypeQueue, TypeClients, Seated
<1> QED
  BY <1>1, <1>2 DEF Unseat

LEMMA SeatForType ==
  ASSUME NEW q \in Seq(Seat), NEW c \in Client, NEW mode \in Mode
  PROVE  SeatFor(q, c, mode) \in Seq(Seat)
<1>1. [client |-> c, mode |-> mode] \in Seat
  BY DEF Seat
<1>2. CASE \E n \in DOMAIN q : q[n].client = c
  <2> DEFINE r == [n \in DOMAIN q |-> IF q[n].client = c THEN [q[n] EXCEPT !.mode = mode] ELSE q[n]]
  <2>1. Len(q) \in Nat /\ DOMAIN q = 1..Len(q)
    BY LenProperties
  <2>2. \A n \in 1..Len(q) : q[n] \in Seat
    BY ElementOfSeq
  <2>3. \A n \in 1..Len(q) : [q[n] EXCEPT !.mode = mode] \in Seat
    BY <2>2 DEF Seat
  <2>4. r \in [1..Len(q) -> Seat]
    BY <2>1, <2>2, <2>3
  <2>5. r \in Seq(Seat)
    BY <2>1, <2>4, SeqDef
  <2> QED BY <1>2, <2>5 DEF SeatFor
<1>3. CASE ~ \E n \in DOMAIN q : q[n].client = c
  BY <1>1, <1>3, AppendProperties DEF SeatFor
<1> QED
  BY <1>2, <1>3

(* Dropping reservations leaves reservations; starting a match leaves matches. *)
LEMMA DropType ==
  ASSUME TypeChallenges, NEW players, NEW m, Drop(players, m)
  PROVE  TypeChallenges'
  BY DEF TypeChallenges, Drop

(* What TypeOK needs to be inductive: a started match has a mode, and a queue  *)
(* match two clients, so that a requeued seat has both.                        *)
StartedComplete ==
    \A m \in Match : match[m].stage # "free" =>
        /\ match[m].mode \in Mode
        /\ match[m].kind = "queue" => match[m].side \in [Side -> Client]

HubType == TypeOK /\ StartedComplete

LEMMA StartType ==
  ASSUME TypeMatches, StartedComplete, NEW m \in Match, NEW kind \in Kind, NEW mode \in Mode,
         NEW a \in Client, NEW b \in Client \union {None}, kind = "queue" => b \in Client,
         Start(m, kind, mode, a, b)
  PROVE  TypeMatches' /\ StartedComplete'
<1> DEFINE sides == [i \in Side |-> IF i = 0 THEN a ELSE b]
           new == [stage |-> "running", kind |-> kind, mode |-> mode, side |-> sides, offers |-> {}]
<1>1. sides \in [Side -> Client \union {None}] /\ (kind = "queue" => sides \in [Side -> Client])
  OBVIOUS
<1>2. new \in MatchRecord
  BY <1>1 DEF MatchRecord, Stage
<1>3. match' = [match EXCEPT ![m] = new]
  BY DEF Start
<1>4. cmatch' \in [Client -> Match \union {None}]
  BY DEF Start, TypeMatches
<1>5. new.mode \in Mode /\ (new.kind = "queue" => new.side \in [Side -> Client])
  BY <1>1
<1> HIDE DEF new
<1> QED
  BY <1>2, <1>3, <1>4, <1>5 DEF TypeMatches, StartedComplete

(* A match that only moves on to another stage *)
LEMMA MatchMovesOn ==
  ASSUME TypeMatches, StartedComplete, NEW m \in Match, match[m].stage # "free",
         NEW stage \in Stage, NEW offers \in SUBSET Side,
         match' = [match EXCEPT ![m].stage = stage, ![m].offers = offers], UNCHANGED cmatch
  PROVE  TypeMatches' /\ StartedComplete'
<1>1. match[m] \in MatchRecord
  BY DEF TypeMatches
<1> DEFINE new == [match[m] EXCEPT !.stage = stage, !.offers = offers]
<1>2. new \in MatchRecord /\ new.mode = match[m].mode /\ new.kind = match[m].kind
      /\ new.side = match[m].side
  BY <1>1 DEF MatchRecord
<1>3. match' = [match EXCEPT ![m] = new]
  OBVIOUS
<1> HIDE DEF new
<1> QED
  BY <1>2, <1>3 DEF TypeMatches, StartedComplete

LEMMA HubTypeStep == HubType /\ ReservationIndexesAgree /\ [Next]_vars => HubType'
<1> SUFFICES ASSUME HubType, ReservationIndexesAgree, [Next]_vars PROVE HubType'
  OBVIOUS
<1> USE DEF HubType, TypeOK
<1>1. CASE TryPair
  <2>1. PICK p \in Pairs(queue) :
         /\ \E m \in Match : Start(m, "queue", queue[p[1]].mode, queue[p[1]].client, queue[p[2]].client)
         /\ queue' = RemoveSeat(RemoveSeat(queue, p[2]), p[1])
         /\ queueing' = [queueing EXCEPT ![queue[p[1]].client] = FALSE, ![queue[p[2]].client] = FALSE]
    BY <1>1 DEF TryPair
  <2>2. p[1] \in DOMAIN queue /\ p[2] \in DOMAIN queue /\ p[1] < p[2]
    BY <2>1 DEF Pairs
  <2>3. Len(queue) \in Nat /\ DOMAIN queue = 1..Len(queue)
    BY LenProperties DEF TypeQueue
  <2>4. queue[p[1]] \in Seat /\ queue[p[2]] \in Seat
    BY <2>2, <2>3, ElementOfSeq DEF TypeQueue
  <2>5. TypeQueue'
    <3>1. RemoveSeat(queue, p[2]) \in Seq(Seat) /\ Len(RemoveSeat(queue,
    p[2])) = Len(queue) - 1
      BY <2>2, RemoveSeatType DEF TypeQueue
    <3>2. p[1] \in DOMAIN RemoveSeat(queue, p[2])
      BY <2>2, <2>3, <3>1, LenProperties
    <3> QED BY <2>1, <3>1, <3>2, RemoveSeatType DEF TypeQueue
  <2>6. TypeClients'
    BY <1>1, <2>1, <2>4 DEF TryPair, registry, TypeClients, Seat
  <2>7. TypeMatches' /\ StartedComplete'
    <3>1. "queue" \in Kind
      BY DEF Kind
    <3>2. /\ queue[p[1]].mode \in Mode /\ queue[p[1]].client \in Client
          /\ queue[p[2]].client \in Client
      BY <2>4 DEF Seat
    <3> QED BY <2>1, <3>1, <3>2, StartType
  <2>8. TypeChallenges'
    BY <1>1 DEF TryPair, registry, seats, challenges, TypeChallenges
  <2>9. TypeWork'
    BY <1>1 DEF TryPair, registry, seats, challenges, TypeWork
  <2> QED BY <2>1, <2>2, <2>3, <2>4, <2>5, <2>6, <2>7, <2>8, <2>9
<1>2. CASE TryDone
  <2>1. TypeClients'
    BY <1>2 DEF TryDone, registry, seats, challenges, TypeClients
  <2>2. TypeQueue'
    BY <1>2 DEF TryDone, registry, seats, challenges, TypeQueue
  <2>3. TypeChallenges'
    BY <1>2 DEF TryDone, registry, seats, challenges, TypeChallenges
  <2>4. TypeMatches'
    BY <1>2 DEF TryDone, registry, seats, challenges, TypeMatches
  <2>5. TypeWork'
    BY <1>2 DEF TryDone, registry, seats, challenges, TypeWork
  <2>6. StartedComplete'
    BY <1>2 DEF TryDone, registry, seats, challenges, StartedComplete
  <2> QED BY <2>1, <2>2, <2>3, <2>4, <2>5, <2>6
<1>3. ASSUME NEW c \in Client, Connect(c) PROVE HubType'
  <2>1. TypeClients'
    BY <1>3 DEF Connect, registry, seats, challenges, TypeClients
  <2>2. TypeQueue'
    BY <1>3 DEF Connect, registry, seats, challenges, TypeQueue
  <2>3. TypeChallenges'
    BY <1>3 DEF Connect, registry, seats, challenges, TypeChallenges
  <2>4. TypeMatches'
    BY <1>3 DEF Connect, registry, seats, challenges, TypeMatches
  <2>5. TypeWork'
    BY <1>3 DEF Connect, registry, seats, challenges, TypeWork
  <2>6. StartedComplete'
    BY <1>3 DEF Connect, registry, seats, challenges, StartedComplete
  <2> QED BY <2>1, <2>2, <2>3, <2>4, <2>5, <2>6
<1>4. ASSUME NEW c \in Client, Remove(c) PROVE HubType'
  <2>1. TypeQueue' /\ TypeClients'
    BY <1>4, UnseatType DEF Remove, TypeClients
  <2>2. TypeChallenges'
    BY <1>4 DEF Remove, registry, seats, challenges, TypeChallenges
  <2>3. TypeMatches'
    BY <1>4 DEF Remove, registry, seats, challenges, TypeMatches
  <2>4. TypeWork'
    BY <1>4 DEF Remove, registry, seats, challenges, TypeWork
  <2>5. StartedComplete'
    BY <1>4 DEF Remove, registry, seats, challenges, StartedComplete
  <2> QED BY <2>1, <2>2, <2>3, <2>4, <2>5
<1>5. ASSUME NEW c \in Client, Cancelled(c) PROVE HubType'
  <2>1. TypeClients'
    BY <1>5 DEF Cancelled, registry, seats, challenges, TypeClients
  <2>2. TypeQueue'
    BY <1>5 DEF Cancelled, registry, seats, challenges, TypeQueue
  <2>3. TypeChallenges'
    BY <1>5 DEF Cancelled, registry, seats, challenges, TypeChallenges
  <2>4. TypeMatches'
    BY <1>5 DEF Cancelled, registry, seats, challenges, TypeMatches
  <2>5. TypeWork'
    BY <1>5 DEF Cancelled, registry, seats, challenges, TypeWork
  <2>6. StartedComplete'
    BY <1>5 DEF Cancelled, registry, seats, challenges, StartedComplete
  <2> QED BY <2>1, <2>2, <2>3, <2>4, <2>5, <2>6
<1>6. ASSUME NEW c \in Client, HandleQueue(c) PROVE HubType'
  <2>1. TypeQueue'
    <3>1. CASE Refused
      BY <3>1 DEF Refused, seats, TypeQueue
    <3>2. CASE \E mode \in Mode : queue' = SeatFor(queue, c, mode)
      BY <3>2, SeatForType DEF TypeQueue
    <3> QED BY <1>6, <3>1, <3>2 DEF HandleQueue
  <2>2. TypeClients'
    BY <1>6 DEF HandleQueue, Refused, registry, seats, TypeClients
  <2>3. TypeWork'
    BY <1>6 DEF HandleQueue, Serves, Refused, TypeWork
  <2>4. TypeChallenges'
    BY <1>6 DEF HandleQueue, Refused, registry, seats, challenges, TypeChallenges
  <2>5. TypeMatches'
    BY <1>6 DEF HandleQueue, Refused, registry, seats, challenges, TypeMatches
  <2>6. StartedComplete'
    BY <1>6 DEF HandleQueue, Refused, registry, seats, challenges, StartedComplete
  <2> QED BY <2>1, <2>2, <2>3, <2>4, <2>5, <2>6
<1>7. ASSUME NEW c \in Client, HandleCancel(c) PROVE HubType'
  <2>1. TypeQueue' /\ TypeClients'
    BY <1>7, UnseatType DEF HandleCancel, registry, TypeClients
  <2>2. TypeChallenges'
    BY <1>7, DropType DEF HandleCancel
  <2>3. TypeWork'
    BY <1>7 DEF HandleCancel, Serves, TypeWork
  <2>4. TypeMatches'
    BY <1>7 DEF HandleCancel, registry, seats, challenges, TypeMatches
  <2>5. StartedComplete'
    BY <1>7 DEF HandleCancel, registry, seats, challenges, StartedComplete
  <2> QED BY <2>1, <2>2, <2>3, <2>4, <2>5
<1>8. ASSUME NEW c \in Client, HandleCPU(c) PROVE HubType'
  <2>1. TypeWork'
    BY <1>8 DEF HandleCPU, Serves, Refused, TypeWork
  <2>2. CASE Refused
    BY <2>1, <2>2 DEF Refused, registry, seats, challenges, TypeClients, TypeQueue,
       TypeChallenges, TypeMatches, StartedComplete
  <2>3. CASE /\ Unseat(c) /\ Drop({PidOf[c]}, None) /\ UNCHANGED registry
           /\ \E m \in Match, mode \in Mode : Start(m, "cpu", mode, c, None)
    <3>1. TypeQueue' /\ TypeClients'
      BY <2>3, UnseatType DEF registry, TypeClients
    <3>2. TypeChallenges'
      BY <2>3, DropType
    <3>3. "cpu" \in Kind /\ "cpu" # "queue"
      BY DEF Kind
    <3>4. TypeMatches' /\ StartedComplete'
      BY <2>3, <3>3, StartType
    <3> QED BY <2>1, <3>1, <3>2, <3>4
  <2> QED BY <1>8, <2>2, <2>3 DEF HandleCPU
<1>9. ASSUME NEW c \in Client, HandleChallenge(c) PROVE HubType'
  <2>1. TypeQueue' /\ TypeClients'
    <3>1. CASE UNCHANGED seats
      BY <1>9, <3>1 DEF HandleChallenge, registry, seats, TypeQueue, TypeClients
    <3>2. CASE Unseat(c)
      BY <1>9, <3>2, UnseatType DEF HandleChallenge, registry, TypeClients
    <3> QED BY <1>9, <3>1, <3>2 DEF HandleChallenge
  <2>2. TypeChallenges'
    <3>1. PidOf[c] \in Player
      BY HubAssumption
    <3>2. CASE UNCHANGED challenges
      BY <3>2 DEF challenges, TypeChallenges
    <3>3. CASE open[PidOf[c]] # None /\ Remint(PidOf[c])
      <4>1. PICK mode \in Mode : entry' = [entry EXCEPT ![open[PidOf[c]]].mode = mode] /\ UNCHANGED open
        BY <3>3 DEF Remint
      <4>2. open[PidOf[c]] \in Token /\ entry[open[PidOf[c]]] \in Entry \union {None}
        BY <3>1, <3>3 DEF TypeChallenges
      <4>3. entry[open[PidOf[c]]] \in Entry
        BY <3>1, <3>3, <4>2 DEF ReservationIndexesAgree, Reserved
      <4>4. [entry[open[PidOf[c]]] EXCEPT !.mode = mode] \in Entry
        BY <4>3 DEF Entry
      <4> QED BY <4>1, <4>2, <4>4 DEF TypeChallenges
    <3>4. CASE Mint(PidOf[c])
      <4>1. PICK t \in Token, mode \in Mode :
              /\ entry' = [entry EXCEPT ![t] = [pid |-> PidOf[c], mode |-> mode, match |-> None]]
              /\ open' = [open EXCEPT ![PidOf[c]] = t]
        BY <3>4 DEF Mint
      <4>2. [pid |-> PidOf[c], mode |-> mode, match |-> None] \in Entry
        BY <3>1 DEF Entry
      <4> QED BY <3>1, <4>1, <4>2 DEF TypeChallenges
    <3> QED BY <1>9, <3>2, <3>3, <3>4 DEF HandleChallenge
  <2>3. TypeWork'
    BY <1>9 DEF HandleChallenge, Serves, TypeWork
  <2>4. TypeMatches'
    BY <1>9 DEF HandleChallenge, registry, seats, challenges, TypeMatches
  <2>5. StartedComplete'
    BY <1>9 DEF HandleChallenge, registry, seats, challenges, StartedComplete
  <2> QED BY <2>1, <2>2, <2>3, <2>4, <2>5
<1>10. ASSUME NEW c \in Client, HandleJoin(c) PROVE HubType'
  <2>1. TypeWork'
    BY <1>10 DEF HandleJoin, Serves, Refused, TypeWork
  <2>2. CASE Refused
    BY <2>1, <2>2 DEF Refused, registry, seats, challenges, TypeClients, TypeQueue,
       TypeChallenges, TypeMatches, StartedComplete
  <2>3. ASSUME NEW t \in Token, NEW d \in Client, NEW m \in Match, MayClaim(c, t, d),
  Unseat(c),
            Start(m, "challenge", entry[t].mode, d, c),
            entry' = [entry EXCEPT ![t].match = m], UNCHANGED <<registry, open>>
     PROVE  HubType'
    <3>1. TypeQueue' /\ TypeClients'
      BY <2>3, UnseatType DEF registry, TypeClients
    <3>2. entry[t] \in Entry
      BY <2>3 DEF MayClaim, Reserved, TypeChallenges
    <3>3. [entry[t] EXCEPT !.match = m] \in Entry /\ entry[t].mode \in Mode
      BY <3>2 DEF Entry
    <3>4. TypeChallenges'
      BY <2>3, <3>3 DEF TypeChallenges
    <3>5. "challenge" \in Kind /\ "challenge" # "queue"
      BY DEF Kind
    <3>6. TypeMatches' /\ StartedComplete'
      BY <2>3, <3>3, <3>5, StartType
    <3> QED BY <2>1, <3>1, <3>4, <3>6
  <2> QED BY <1>10, <2>2, <2>3 DEF HandleJoin
<1>11. ASSUME NEW c \in Client, NEW op \in Op, Resolve(c, op) PROVE HubType'
  <2>1. TypeClients'
    BY <1>11 DEF Resolve, registry, seats, challenges, TypeClients
  <2>2. TypeQueue'
    BY <1>11 DEF Resolve, registry, seats, challenges, TypeQueue
  <2>3. TypeChallenges'
    BY <1>11 DEF Resolve, registry, seats, challenges, TypeChallenges
  <2>4. TypeMatches'
    BY <1>11 DEF Resolve, registry, seats, challenges, TypeMatches
  <2>5. TypeWork'
    BY <1>11 DEF Resolve, registry, seats, challenges, TypeWork
  <2>6. StartedComplete'
    BY <1>11 DEF Resolve, registry, seats, challenges, StartedComplete
  <2> QED BY <2>1, <2>2, <2>3, <2>4, <2>5, <2>6
<1>12. ASSUME NEW m \in Match, HandshakeFails(m) PROVE HubType'
  <2>1. PICK offers \in SUBSET Side :
         match' = [match EXCEPT ![m].stage = "failing", ![m].offers = offers]
    <3>1. \A i \in Side : 1 - i \in Side
      BY DEF Side
    <3> DEFINE wanted == {{1 - i} : i \in {j \in Side :
                                 match[m].side[j] # None /\ ~alive[match[m].side[j]]}}
    <3>2. PICK offers \in {Side} \union wanted :
            match' = [match EXCEPT ![m].stage = "failing", ![m].offers = offers]
      BY <1>12 DEF HandshakeFails
    <3>3. wanted \subseteq SUBSET Side
      BY <3>1
    <3> HIDE DEF wanted
    <3> QED BY <3>2, <3>3
  <2>2. "failing" \in Stage /\ match[m].stage # "free"
    BY <1>12 DEF HandshakeFails, Stage
  <2>3. TypeMatches' /\ StartedComplete'
    BY <1>12, <2>1, <2>2, MatchMovesOn DEF HandshakeFails
  <2>4. TypeClients'
    BY <1>12 DEF HandshakeFails, registry, seats, challenges, TypeClients
  <2>5. TypeQueue'
    BY <1>12 DEF HandshakeFails, registry, seats, challenges, TypeQueue
  <2>6. TypeChallenges'
    BY <1>12 DEF HandshakeFails, registry, seats, challenges, TypeChallenges
  <2>7. TypeWork'
    BY <1>12 DEF HandshakeFails, registry, seats, challenges, TypeWork
  <2> QED BY <2>1, <2>2, <2>3, <2>4, <2>5, <2>6, <2>7
<1>13. ASSUME NEW m \in Match, MatchEnds(m) PROVE HubType'
  <2>1. match[m] \in MatchRecord
    BY DEF TypeMatches
  <2>2. match' = [match EXCEPT ![m].stage = "ending", ![m].offers = match[m].offers]
    BY <1>13, <2>1 DEF MatchEnds, MatchRecord, TypeMatches
  <2>3. "ending" \in Stage /\ match[m].stage # "free" /\ match[m].offers \in SUBSET Side
    BY <1>13, <2>1 DEF MatchEnds, Stage, MatchRecord
  <2>4. TypeMatches' /\ StartedComplete'
    BY <1>13, <2>2, <2>3, MatchMovesOn DEF MatchEnds
  <2>5. TypeClients'
    BY <1>13 DEF MatchEnds, registry, seats, challenges, TypeClients
  <2>6. TypeQueue'
    BY <1>13 DEF MatchEnds, registry, seats, challenges, TypeQueue
  <2>7. TypeChallenges'
    BY <1>13 DEF MatchEnds, registry, seats, challenges, TypeChallenges
  <2>8. TypeWork'
    BY <1>13 DEF MatchEnds, registry, seats, challenges, TypeWork
  <2> QED BY <2>1, <2>2, <2>3, <2>4, <2>5, <2>6, <2>7, <2>8
<1>14. ASSUME NEW m \in Match, NEW i \in Side, Requeue(m, i) PROVE HubType'
  <2>1. match[m] \in MatchRecord /\ match[m].stage = "failing"
    BY <1>14 DEF TypeMatches, Requeue
  <2>2. "failing" # "free" /\ "ending" \in Stage /\ "failing" \in Stage
    BY DEF Stage
  <2>3. TypeMatches' /\ StartedComplete'
    <3>1. PICK stage \in Stage :
            match' = [match EXCEPT ![m].offers = match[m].offers \ {i}, ![m].stage = stage]
      BY <1>14, <2>1, <2>2 DEF Requeue, TypeMatches
    <3>2. match' = [match EXCEPT ![m].stage = stage, ![m].offers = match[m].offers \ {i}]
      BY <2>1, <3>1 DEF TypeMatches, MatchRecord
    <3>3. match[m].offers \ {i} \in SUBSET Side
      BY <2>1 DEF MatchRecord
    <3> QED BY <1>14, <2>1, <2>2, <3>2, <3>3, MatchMovesOn DEF Requeue
  <2>4. TypeClients' /\ TypeQueue' /\ TypeWork'
    <3>1. CASE match[m].kind = "queue"
      <4>1. match[m].side[i] \in Client /\ match[m].mode \in Mode
        BY <2>1, <2>2, <3>1 DEF StartedComplete
      <4>2. TakeSeat(match[m].side[i], match[m].mode) /\ TryAgain(match[m].side[i])
        BY <1>14, <3>1 DEF Requeue
      <4>3. TypeClients'
        BY <1>14, <4>1, <4>2 DEF Requeue, registry, seats, TakeSeat, TypeClients
      <4>4. TypeQueue'
        <5>1. [client |-> match[m].side[i], mode |-> match[m].mode] \in Seat
          BY <4>1 DEF Seat
        <5> QED BY <4>2, <5>1, AppendProperties DEF TakeSeat, seats, TypeQueue
      <4>5. TypeWork'
        BY <1>14, <4>1, <4>2, <4>3 DEF Requeue, TryAgain, TypeWork, TypeClients
      <4> QED BY <4>3, <4>4, <4>5
    <3>2. CASE match[m].kind # "queue"
      <4>1. UNCHANGED <<registry, seats, trying>> /\ UNCHANGED <<pending, held>>
        BY <1>14, <3>2 DEF Requeue
      <4>2. TypeClients' /\ TypeQueue'
        BY <4>1 DEF registry, seats, TypeClients, TypeQueue
      <4>3. TypeWork'
        BY <4>1 DEF TypeWork
      <4> QED BY <4>2, <4>3
    <3> QED BY <3>1, <3>2
  <2>5. TypeChallenges'
    BY <1>14 DEF Requeue, registry, seats, challenges, TypeChallenges
  <2> QED BY <2>1, <2>2, <2>3, <2>4, <2>5
<1>15. ASSUME NEW m \in Match, Finish(m) PROVE HubType'
  <2>1. TypeChallenges'
    BY <1>15, DropType DEF Finish, Spent
  <2>2. cmatch' \in [Client -> Match \union {None}]
    BY <1>15 DEF Finish, TypeMatches
  <2>3. FreeMatch \in MatchRecord /\ FreeMatch.stage = "free"
    BY DEF FreeMatch, MatchRecord, Stage, Kind
  <2>4. match' = [match EXCEPT ![m] = FreeMatch]
    BY <1>15 DEF Finish
  <2>5. TypeMatches' /\ StartedComplete'
    BY <2>2, <2>3, <2>4 DEF TypeMatches, StartedComplete
  <2>6. TypeClients'
    BY <1>15 DEF Finish, registry, seats, challenges, TypeClients
  <2>7. TypeQueue'
    BY <1>15 DEF Finish, registry, seats, challenges, TypeQueue
  <2>8. TypeWork'
    BY <1>15 DEF Finish, registry, seats, challenges, TypeWork
  <2> QED BY <2>1, <2>2, <2>3, <2>4, <2>5, <2>6, <2>7, <2>8
<1>16. CASE UNCHANGED vars
  <2>1. TypeClients'
    BY <1>16 DEF vars, registry, seats, challenges, TypeClients
  <2>2. TypeQueue'
    BY <1>16 DEF vars, registry, seats, challenges, TypeQueue
  <2>3. TypeChallenges'
    BY <1>16 DEF vars, registry, seats, challenges, TypeChallenges
  <2>4. TypeMatches'
    BY <1>16 DEF vars, registry, seats, challenges, TypeMatches
  <2>5. TypeWork'
    BY <1>16 DEF vars, registry, seats, challenges, TypeWork
  <2>6. StartedComplete'
    BY <1>16 DEF vars, registry, seats, challenges, StartedComplete
  <2> QED BY <2>1, <2>2, <2>3, <2>4, <2>5, <2>6
<1> QED
  BY <1>1, <1>2, <1>3, <1>4, <1>5, <1>6, <1>7, <1>8, <1>9, <1>10, <1>11, <1>12, <1>13,
     <1>14, <1>15, <1>16 DEF Next, Handle, MatchStep

-----------------------------------------------------------------------------
(* Reservations. *)

(* What drops leave is paired: with the token goes its player's mark, with the *)
(* mark its token.                                                             *)
LEMMA DropKeepsPairs ==
  ASSUME TypeChallenges, ReservationIndexesAgree, NEW players \in SUBSET Player,
         NEW m \in Match \union {None}, Drop(players, m)
  PROVE  ReservationIndexesAgree'
<1> DEFINE own == {open[p] : p \in players}
           spent == {t \in Reserved \ own : m # None /\ entry[t].match = m}
           losers == players \union {entry[t].pid : t \in spent}
<1>1. /\ entry' = [t \in Token |-> IF t \in own \union spent THEN None ELSE entry[t]]
      /\ open' = [p \in Player |-> IF p \in losers THEN None ELSE open[p]]
  BY DEF Drop
<1>2. \A t \in Reserved : t \in Token /\ entry[t] \in Entry /\ entry[t].pid \in Player
  BY DEF Reserved, TypeChallenges, Entry
<1>3. ASSUME NEW t \in Reserved' PROVE open'[entry'[t].pid] = t
  <2>1. t \in Token /\ t \notin own /\ t \notin spent /\ entry'[t] = entry[t] /\ t \in Reserved
    BY <1>1, <1>3 DEF Reserved
  <2>2. open[entry[t].pid] = t /\ entry[t].pid \in Player
    BY <1>2, <2>1 DEF ReservationIndexesAgree
  <2>3. entry[t].pid \notin players
    BY <2>1, <2>2
  <2>4. ASSUME NEW k \in spent, entry[k].pid = entry[t].pid PROVE FALSE
    BY <2>1, <2>2, <2>4 DEF ReservationIndexesAgree
  <2> QED BY <1>1, <2>1, <2>2, <2>3, <2>4
<1>4. ASSUME NEW p \in Player, open'[p] # None
      PROVE  open'[p] \in Reserved' /\ entry'[open'[p]].pid = p
  <2>1. p \notin losers /\ open'[p] = open[p]
    BY <1>1, <1>4
  <2>2. open[p] \in Reserved /\ entry[open[p]].pid = p
    BY <1>4, <2>1 DEF ReservationIndexesAgree
  <2>3. open[p] \notin own
    <3> SUFFICES ASSUME NEW k \in players, open[k] = open[p] PROVE FALSE
      OBVIOUS
    <3>1. k \in Player /\ open[k] # None
      BY <1>4, <2>1
    <3> QED BY <2>1, <2>2, <3>1 DEF ReservationIndexesAgree
  <2>4. open[p] \notin spent
    BY <2>1, <2>2
  <2>5. open[p] \in Token /\ entry'[open[p]] = entry[open[p]]
    BY <1>1, <1>2, <2>2, <2>3, <2>4
  <2> QED BY <2>1, <2>2, <2>5 DEF Reserved
<1> QED
  BY <1>3, <1>4 DEF ReservationIndexesAgree

(* Minting a token for a player that has none open *)
LEMMA MintKeepsPairs ==
  ASSUME TypeChallenges, ReservationIndexesAgree, NEW p \in Player, open[p] = None, Mint(p)
  PROVE  ReservationIndexesAgree'
<1>1. PICK t \in Token \ Reserved, mode \in Mode :
        /\ entry' = [entry EXCEPT ![t] = [pid |-> p, mode |-> mode, match |-> None]]
        /\ open' = [open EXCEPT ![p] = t]
  BY DEF Mint
<1> DEFINE new == [pid |-> p, mode |-> mode, match |-> None]
<1>2. new \in Entry /\ new # None /\ new.pid = p
  BY NoneAssumption DEF Entry
<1> HIDE DEF new
<1>3. entry'[t] = new /\ (\A k \in Token \ {t} : entry'[k] = entry[k]) /\ t # None
  BY <1>1, HubAssumption DEF TypeChallenges, new
<1>4. open'[p] = t /\ \A q \in Player \ {p} : open'[q] = open[q]
  BY <1>1 DEF TypeChallenges
<1>5. Reserved' = Reserved \union {t}
  BY <1>1, <1>2, <1>3 DEF Reserved
<1>6. \A k \in Reserved : entry[k].pid \in Player \ {p}
  BY HubAssumption DEF ReservationIndexesAgree, Reserved, TypeChallenges, Entry
<1>7. \A k \in Reserved' : open'[entry'[k].pid] = k
  BY <1>2, <1>3, <1>4, <1>5, <1>6 DEF ReservationIndexesAgree, Reserved
<1>8. \A q \in Player : open'[q] # None => open'[q] \in Reserved' /\ entry'[open'[q]].pid = q
  BY <1>1, <1>2, <1>3, <1>4, <1>5 DEF ReservationIndexesAgree, Reserved
<1> QED
  BY <1>7, <1>8 DEF ReservationIndexesAgree

(* Changing what a reservation says but not whose it is *)
LEMMA UpdateKeepsPairs ==
  ASSUME TypeChallenges, ReservationIndexesAgree, NEW t \in Reserved, NEW new \in Entry,
         new.pid = entry[t].pid, entry' = [entry EXCEPT ![t] = new], UNCHANGED open
  PROVE  ReservationIndexesAgree'
<1>1. t \in Token /\ entry'[t] = new /\ \A k \in Token \ {t} : entry'[k] = entry[k]
  BY DEF Reserved, TypeChallenges
<1>2. new # None
  BY NoneAssumption
<1>3. Reserved' = Reserved
  BY <1>1, <1>2 DEF Reserved
<1> QED
  BY <1>1, <1>3 DEF ReservationIndexesAgree, Reserved

LEMMA PairsStep == HubType /\ ReservationIndexesAgree /\ [Next]_vars => ReservationIndexesAgree'
<1> SUFFICES ASSUME HubType, ReservationIndexesAgree, [Next]_vars
             PROVE  ReservationIndexesAgree'
  OBVIOUS
<1> USE DEF HubType, TypeOK
<1>1. CASE UNCHANGED challenges
  BY <1>1 DEF challenges, ReservationIndexesAgree, Reserved
<1>2. \A c \in Client : PidOf[c] \in Player
  BY HubAssumption
<1>3. ASSUME NEW c \in Client, Drop({PidOf[c]}, None) PROVE ReservationIndexesAgree'
  <2>1. {PidOf[c]} \in SUBSET Player
    BY <1>2
  <2> QED BY <1>3, <2>1, DropKeepsPairs
<1>4. ASSUME NEW c \in Client, HandleCancel(c) PROVE ReservationIndexesAgree'
  BY <1>3, <1>4 DEF HandleCancel
<1>5. ASSUME NEW c \in Client, HandleCPU(c) PROVE ReservationIndexesAgree'
  BY <1>1, <1>3, <1>5 DEF HandleCPU, Refused
<1>6. ASSUME NEW c \in Client, HandleChallenge(c) PROVE ReservationIndexesAgree'
  <2>1. CASE open[PidOf[c]] # None /\ Remint(PidOf[c])
    <3>1. PICK mode \in Mode : entry' = [entry EXCEPT ![open[PidOf[c]]].mode = mode] /\ UNCHANGED open
      BY <2>1 DEF Remint
    <3>2. open[PidOf[c]] \in Reserved
      BY <1>2, <2>1 DEF ReservationIndexesAgree
    <3> DEFINE t == open[PidOf[c]]
               new == [entry[t] EXCEPT !.mode = mode]
    <3>3. entry[t] \in Entry
      BY <3>2 DEF Reserved, TypeChallenges
    <3>4. new \in Entry /\ new.pid = entry[t].pid
      BY <3>3 DEF Entry
    <3>5. entry' = [entry EXCEPT ![t] = new] /\ UNCHANGED open
      BY <3>1
    <3> HIDE DEF t, new
    <3>6. t \in Reserved
      BY <3>2 DEF t
    <3> QED BY <3>4, <3>5, <3>6, UpdateKeepsPairs
  <2>2. CASE open[PidOf[c]] = None /\ Mint(PidOf[c])
    BY <1>2, <2>2, MintKeepsPairs
  <2> QED BY <1>1, <1>6, <2>1, <2>2 DEF HandleChallenge
<1>7. ASSUME NEW c \in Client, HandleJoin(c) PROVE ReservationIndexesAgree'
  <2>1. ASSUME NEW t \in Reserved, NEW m \in Match,
               entry' = [entry EXCEPT ![t].match = m], UNCHANGED open
        PROVE  ReservationIndexesAgree'
    <3> DEFINE new == [entry[t] EXCEPT !.match = m]
    <3>1. entry[t] \in Entry
      BY DEF Reserved, TypeChallenges
    <3>2. new \in Entry /\ new.pid = entry[t].pid
      BY <3>1 DEF Entry
    <3>3. entry' = [entry EXCEPT ![t] = new]
      BY <2>1
    <3> HIDE DEF new
    <3> QED BY <2>1, <3>2, <3>3, UpdateKeepsPairs
  <2> QED BY <1>1, <1>7, <2>1 DEF HandleJoin, Refused, MayClaim
<1>8. ASSUME NEW m \in Match, Finish(m) PROVE ReservationIndexesAgree'
  <2>1. StillIn(m) \subseteq Client
    BY DEF StillIn, SidesOf, TypeMatches, MatchRecord
  <2>2. {PidOf[c] : c \in StillIn(m)} \in SUBSET Player
    BY <1>2, <2>1
  <2> QED BY <1>8, <2>2, DropKeepsPairs DEF Finish, Spent
<1>9. \/ \E c \in Client : HandleCancel(c) \/ HandleCPU(c) \/ HandleChallenge(c) \/ HandleJoin(c)
      \/ \E m \in Match : Finish(m)
      \/ UNCHANGED challenges
  BY DEF Next, Handle, MatchStep, Connect, Remove, Cancelled, HandleQueue, Refused, Resolve,
     TryPair, TryDone, HandshakeFails, MatchEnds, Requeue, vars, challenges
<1> QED
  BY <1>1, <1>4, <1>5, <1>6, <1>7, <1>8, <1>9

HubInv == HubType /\ ReservationIndexesAgree

LEMMA HubInit == Init => HubInv
<1> SUFFICES ASSUME Init PROVE HubInv
  OBVIOUS
<1>1. FreeMatch \in MatchRecord /\ FreeMatch.stage = "free"
  BY DEF FreeMatch, MatchRecord, Stage, Kind
<1>2. TypeMatches /\ StartedComplete
  BY <1>1 DEF Init, TypeMatches, StartedComplete
<1>3. TypeClients
  BY DEF Init, TypeClients
<1>4. TypeQueue
  BY EmptySeq DEF Init, TypeQueue
<1>5. TypeChallenges
  BY DEF Init, TypeChallenges
<1>6. TypeWork
  BY DEF Init, TypeWork
<1>7. ReservationIndexesAgree
  BY DEF Init, ReservationIndexesAgree, Reserved
<1> QED
  BY <1>2, <1>3, <1>4, <1>5, <1>6, <1>7 DEF HubInv, HubType, TypeOK

(* The types are an invariant of the hub. (A requeued seat needs the mode of   *)
(* its match, and a re-minted token its entry, so not by themselves.)          *)
THEOREM HubTypeCorrect == Spec => []TypeOK
<1>1. HubInv /\ [Next]_vars => HubInv'
  BY HubTypeStep, PairsStep DEF HubInv
<1>2. HubInv => TypeOK
  BY DEF HubInv, HubType
<1> QED
  BY <1>1, <1>2, HubInit, PTL DEF Spec

(* The two indexes of the reservations agree, whatever is cancelled, minted,   *)
(* claimed or torn down in whatever order: no token without its player's mark, *)
(* no mark without its token.                                                  *)
THEOREM ReservationsPaired == Spec => []ReservationIndexesAgree
<1>1. HubInv /\ [Next]_vars => HubInv'
  BY HubTypeStep, PairsStep DEF HubInv
<1>2. HubInv => ReservationIndexesAgree
  BY DEF HubInv
<1> QED
  BY <1>1, <1>2, HubInit, PTL DEF Spec

-----------------------------------------------------------------------------
(* Matches and the clients and links that point at them. *)

LEMMA StartStarts ==
  ASSUME TypeMatches, NEW m \in Match, NEW kind, NEW mode, NEW a, NEW b,
         Start(m, kind, mode, a, b)
  PROVE  /\ m \notin Started /\ Started' = Started \union {m}
         /\ \A k \in Match \ {m} : match'[k] = match[k]
         /\ SidesOf(m)' = {a, b} \ {None}
<1> DEFINE sides == [i \in Side |-> IF i = 0 THEN a ELSE b]
           new == [stage |-> "running", kind |-> kind, mode |-> mode, side |-> sides, offers |-> {}]
<1>1. match' = [match EXCEPT ![m] = new] /\ match[m].stage = "free"
  BY DEF Start
<1>2. new.stage = "running" /\ new.side = sides /\ new.kind = kind /\ new.mode = mode
  OBVIOUS
<1>3. {sides[i] : i \in Side} = {a, b}
  BY DEF Side
<1> HIDE DEF new, sides
<1>4. match'[m] = new /\ \A k \in Match \ {m} : match'[k] = match[k]
  BY <1>1 DEF TypeMatches
<1>5. m \notin Started /\ Started' = Started \union {m}
  BY <1>1, <1>2, <1>4 DEF Started
<1>6. SidesOf(m)' = {a, b} \ {None}
  BY <1>2, <1>3, <1>4 DEF SidesOf
<1> QED
  BY <1>4, <1>5, <1>6

(* Moving on to another stage frees no match and exchanges no side *)
LEMMA MovingOnKeeps ==
  ASSUME TypeMatches, NEW m \in Match,
         HandshakeFails(m) \/ MatchEnds(m) \/ \E i \in Side : Requeue(m, i)
  PROVE  Started' = Started /\ (\A k \in Match : SidesOf(k)' = SidesOf(k))
         /\ UNCHANGED <<cmatch, entry, open>>
<1>1. \A k \in Match \ {m} : match'[k] = match[k]
  BY DEF HandshakeFails, MatchEnds, Requeue, TypeMatches
<1>2. match[m] \in MatchRecord /\ match[m].stage # "free"
  BY DEF TypeMatches, HandshakeFails, MatchEnds, Requeue
<1>3. match'[m].stage # "free" /\ match'[m].side = match[m].side
  <2>1. CASE HandshakeFails(m)
    <3>1. PICK offers : match' = [match EXCEPT ![m].stage = "failing", ![m].offers = offers]
      BY <2>1, Zenon DEF HandshakeFails
    <3>2. match'[m] = [match[m] EXCEPT !.stage = "failing", !.offers = offers]
      BY <3>1 DEF TypeMatches
    <3> QED BY <1>2, <3>2 DEF MatchRecord
  <2>2. CASE MatchEnds(m)
    BY <1>2, <2>2 DEF MatchEnds, TypeMatches, MatchRecord
  <2>3. ASSUME NEW i \in Side, Requeue(m, i)
        PROVE  match'[m].stage # "free" /\ match'[m].side = match[m].side
    BY <1>2, <2>3 DEF Requeue, TypeMatches, MatchRecord
  <2> QED BY <2>1, <2>2, <2>3
<1>4. Started' = Started
  BY <1>1, <1>2, <1>3 DEF Started
<1>5. \A k \in Match : match'[k].side = match[k].side
  BY <1>1, <1>3
<1>6. \A k \in Match : SidesOf(k)' = SidesOf(k)
  BY <1>5 DEF SidesOf
<1>7. UNCHANGED <<cmatch, entry, open>>
  BY DEF HandshakeFails, MatchEnds, Requeue, challenges
<1> QED
  BY <1>4, <1>6, <1>7

LEMMA FinishFrees ==
  ASSUME TypeMatches, NEW m \in Match, Finish(m)
  PROVE  Started' = Started \ {m} /\ \A k \in Match \ {m} : SidesOf(k)' = SidesOf(k)
<1>1. match' = [match EXCEPT ![m] = FreeMatch] /\ FreeMatch.stage = "free"
  BY DEF Finish, FreeMatch
<1>2. match'[m] = FreeMatch /\ \A k \in Match \ {m} : match'[k] = match[k]
  BY <1>1 DEF TypeMatches
<1> QED
  BY <1>1, <1>2 DEF Started, SidesOf

LEMMA PointersStep ==
  HubType /\ HubType' /\ PointsAtOwnMatch /\ [Next]_vars => PointsAtOwnMatch'
<1> SUFFICES ASSUME HubType, HubType', PointsAtOwnMatch, [Next]_vars PROVE PointsAtOwnMatch'
  OBVIOUS
<1> USE DEF HubType, TypeOK
<1>1. CASE UNCHANGED <<cmatch, match>>
  BY <1>1 DEF PointsAtOwnMatch, Started, SidesOf
<1>2. ASSUME NEW m \in Match, NEW kind, NEW mode, NEW a, NEW b, Start(m, kind, mode, a, b)
      PROVE  PointsAtOwnMatch'
  <2> SUFFICES ASSUME NEW c \in Client, NEW k \in Match, cmatch'[c] = k
               PROVE  k \in Started' /\ c \in SidesOf(k)'
    BY DEF PointsAtOwnMatch, TypeMatches, SidesOf, Started
  <2>1. /\ m \notin Started /\ Started' = Started \union {m}
        /\ \A n \in Match \ {m} : match'[n] = match[n]
        /\ SidesOf(m)' = {a, b} \ {None}
    BY <1>2, StartStarts
  <2>2. CASE c \in {a, b}
    <3>1. cmatch'[c] = m /\ k = m /\ c # None
      BY <1>2, <2>2, HubAssumption DEF Start
    <3> QED BY <2>1, <2>2, <3>1
  <2>3. CASE c \notin {a, b}
    <3>1. cmatch[c] = k
      BY <1>2, <2>3 DEF Start
    <3>2. k \in Started /\ c \in SidesOf(k)
      BY <3>1, HubAssumption DEF PointsAtOwnMatch
    <3>3. k # m
      BY <2>1, <3>2
    <3> QED BY <2>1, <3>2, <3>3 DEF SidesOf
  <2> QED BY <2>2, <2>3
<1>3. ASSUME NEW c \in Client, Remove(c) PROVE PointsAtOwnMatch'
  <2>1. cmatch' = [cmatch EXCEPT ![c] = None] /\ UNCHANGED match
    BY <1>3 DEF Remove
  <2>2. \A d \in Client : cmatch'[d] = IF d = c THEN None ELSE cmatch[d]
    BY <2>1 DEF TypeMatches
  <2> QED BY <2>1, <2>2 DEF PointsAtOwnMatch, Started, SidesOf
<1>4. ASSUME NEW m \in Match,
             HandshakeFails(m) \/ MatchEnds(m) \/ \E i \in Side : Requeue(m, i)
      PROVE  PointsAtOwnMatch'
  <2>1. Started' = Started /\ (\A k \in Match : SidesOf(k)' = SidesOf(k)) /\ cmatch' = cmatch
    BY <1>4, MovingOnKeeps
  <2> QED BY <2>1 DEF PointsAtOwnMatch, Started
<1>5. ASSUME NEW m \in Match, Finish(m) PROVE PointsAtOwnMatch'
  <2> SUFFICES ASSUME NEW c \in Client, NEW k \in Match, cmatch'[c] = k
               PROVE  k \in Started' /\ c \in SidesOf(k)'
    BY DEF PointsAtOwnMatch, TypeMatches, SidesOf, Started
  <2>1. Started' = Started \ {m} /\ \A n \in Match \ {m} : SidesOf(n)' = SidesOf(n)
    BY <1>5, FinishFrees
  <2>2. c \notin StillIn(m) /\ cmatch[c] = k
    BY <1>5, HubAssumption DEF Finish
  <2>3. k \in Started /\ c \in SidesOf(k)
    BY <2>2, HubAssumption DEF PointsAtOwnMatch
  <2>4. k # m
    BY <2>2, <2>3 DEF StillIn
  <2> QED BY <2>1, <2>3, <2>4
<1>6. \/ UNCHANGED <<cmatch, match>>
      \/ \E c \in Client : Remove(c)
      \/ \E m \in Match, kind \in Kind, mode \in Mode, a \in Client, b \in Client \union {None} :
            Start(m, kind, mode, a, b)
      \/ \E m \in Match : HandshakeFails(m) \/ MatchEnds(m) \/ \E i \in Side : Requeue(m, i)
      \/ \E m \in Match : Finish(m)
  <2>1. CASE TryPair
    <3>1. PICK p \in Pairs(queue), m \in Match :
            Start(m, "queue", queue[p[1]].mode, queue[p[1]].client, queue[p[2]].client)
      BY <2>1 DEF TryPair
    <3>2. p[1] \in DOMAIN queue /\ p[2] \in DOMAIN queue
      BY DEF Pairs
    <3>3. queue[p[1]] \in Seat /\ queue[p[2]] \in Seat
      BY <3>2, ElementOfSeq, LenProperties DEF TypeQueue
    <3>4. queue[p[1]].mode \in Mode /\ queue[p[1]].client \in Client /\ queue[p[2]].client \in Client
      BY <3>3 DEF Seat
    <3> QED BY <3>1, <3>4 DEF Kind
  <2>2. ASSUME NEW c \in Client, HandleCPU(c)
        PROVE  \/ UNCHANGED <<cmatch, match>>
               \/ \E m \in Match, mode \in Mode : Start(m, "cpu", mode, c, None)
    BY <2>2 DEF HandleCPU, Refused
  <2>3. ASSUME NEW c \in Client, HandleJoin(c)
        PROVE  \/ UNCHANGED <<cmatch, match>>
               \/ \E m \in Match, mode \in Mode, d \in Client : Start(m, "challenge", mode, d, c)
    <3>1. CASE Refused
      BY <3>1 DEF Refused
    <3>2. ASSUME NEW t \in Reserved, NEW d \in Client, NEW m \in Match,
                 Start(m, "challenge", entry[t].mode, d, c)
          PROVE  \E k \in Match, mode \in Mode, e \in Client : Start(k, "challenge", mode, e, c)
      <4>1. entry[t].mode \in Mode
        BY DEF Reserved, TypeChallenges, Entry
      <4> QED BY <3>2, <4>1
    <3> QED BY <2>3, <3>1, <3>2 DEF HandleJoin, MayClaim
  <2>4. \/ TryPair
        \/ \E c \in Client : Remove(c) \/ HandleCPU(c) \/ HandleJoin(c)
        \/ \E m \in Match : HandshakeFails(m) \/ MatchEnds(m) \/ \E i \in Side : Requeue(m, i)
        \/ \E m \in Match : Finish(m)
        \/ UNCHANGED <<cmatch, match>>
    BY DEF Next, Handle, MatchStep, Connect, Cancelled, HandleQueue, HandleCancel,
       HandleChallenge, Refused, Resolve, TryDone, vars
  <2> QED BY <2>1, <2>2, <2>3, <2>4 DEF Kind
<1> QED
  BY <1>1, <1>2, <1>3, <1>4, <1>5, <1>6

(* A client never points at a match that is gone or that it is no side of: no  *)
(* order of pairings, requeues, departures and teardowns leaves it answered    *)
(* "already in a match" by a match nobody runs.                                *)
THEOREM PointersAreLive == Spec => []PointsAtOwnMatch
<1>1. Init => PointsAtOwnMatch
  BY DEF Init, PointsAtOwnMatch
<1>2. HubInv /\ PointsAtOwnMatch /\ [Next]_vars => HubInv' /\ PointsAtOwnMatch'
  BY HubTypeStep, PairsStep, PointersStep DEF HubInv
<1> QED
  BY <1>1, <1>2, HubInit, PTL DEF Spec
-----------------------------------------------------------------------------
(* The queue without one of its seats. *)

(* Where the seat at k was before the one at n went *)
Was(n, k) == IF k < n THEN k ELSE k + 1

LEMMA RemovedSeats ==
  ASSUME NEW q \in Seq(Seat), NEW n \in DOMAIN q
  PROVE  /\ DOMAIN RemoveSeat(q, n) = 1..(Len(q) - 1)
         /\ \A k \in 1..(Len(q) - 1) : RemoveSeat(q, n)[k] = q[Was(n, k)]
<1>1. n \in 1..Len(q) /\ Len(q) \in Nat /\ DOMAIN q = 1..Len(q)
  BY LenProperties
<1> DEFINE l == SubSeq(q, 1, n - 1)
           r == SubSeq(q, n + 1, Len(q))
<1>2. \A k \in 1..Len(q) : q[k] \in Seat
  BY ElementOfSeq
<1>3. /\ l \in Seq(Seat) /\ Len(l) = n - 1
      /\ \A k \in 1..(n - 1) : l[k] = q[k]
  BY <1>1, <1>2, SubSeqProperties
<1>4. /\ r \in Seq(Seat) /\ Len(r) = Len(q) - n
      /\ \A k \in 1..(Len(q) - n) : r[k] = q[n + k]
  BY <1>1, <1>2, SubSeqProperties
<1> HIDE DEF l, r
<1>5. RemoveSeat(q, n) = l \o r
  BY DEF RemoveSeat, l, r
<1>6. /\ l \o r \in Seq(Seat) /\ Len(l \o r) = Len(l) + Len(r)
      /\ \A k \in 1..(Len(l) + Len(r)) :
            (l \o r)[k] = IF k <= Len(l) THEN l[k] ELSE r[k - Len(l)]
  BY <1>3, <1>4, ConcatProperties
<1> DEFINE t == l \o r
<1>7. Len(l) + Len(r) = Len(q) - 1
  BY <1>1, <1>3, <1>4
<1>8. DOMAIN t = 1..(Len(q) - 1)
  BY <1>6, <1>7, LenProperties
<1>9. \A k \in 1..(Len(q) - 1) : t[k] = IF k <= n - 1 THEN l[k] ELSE r[k - (n - 1)]
  BY <1>3, <1>6, <1>7
<1> HIDE DEF t
<1>10. ASSUME NEW k \in 1..(Len(q) - 1) PROVE t[k] = q[Was(n, k)]
  <2>1. CASE k < n
    <3>1. k <= n - 1 /\ k \in 1..(n - 1)
      BY <1>1, <2>1
    <3> QED BY <1>3, <1>9, <2>1, <3>1 DEF Was
  <2>2. CASE ~(k < n)
    <3>1. k - (n - 1) \in 1..(Len(q) - n) /\ n + (k - (n - 1)) = k + 1 /\ ~(k <= n - 1)
      BY <1>1, <2>2
    <3>2. t[k] = r[k - (n - 1)] /\ r[k - (n - 1)] = q[n + (k - (n - 1))]
      BY <1>4, <1>9, <3>1
    <3> QED BY <2>2, <3>1, <3>2 DEF Was
  <2> QED BY <2>1, <2>2
<1> QED
  BY <1>5, <1>8, <1>10 DEF t

LEMMA WasProperties ==
  ASSUME NEW l \in Nat, NEW n \in 1..l
  PROVE  /\ \A k \in 1..(l - 1) : Was(n, k) \in (1..l) \ {n}
         /\ \A j \in 1..(l - 1), k \in 1..(l - 1) : j < k <=> Was(n, j) < Was(n, k)
         /\ \A i \in (1..l) \ {n} : \E k \in 1..(l - 1) : Was(n, k) = i
<1>1. \A k \in 1..(l - 1) : Was(n, k) \in (1..l) \ {n}
  BY DEF Was
<1>2. \A j \in 1..(l - 1), k \in 1..(l - 1) : j < k <=> Was(n, j) < Was(n, k)
  BY DEF Was
<1>3. ASSUME NEW i \in (1..l) \ {n} PROVE \E k \in 1..(l - 1) : Was(n, k) = i
  <2>1. CASE i < n
    <3>1. i \in 1..(l - 1) /\ Was(n, i) = i
      BY <2>1 DEF Was
    <3> QED BY <3>1
  <2>2. CASE n < i
    <3>1. i - 1 \in 1..(l - 1) /\ Was(n, i - 1) = i
      BY <2>2 DEF Was
    <3> QED BY <3>1
  <2> QED BY <2>1, <2>2
<1> QED
  BY <1>1, <1>2, <1>3

-----------------------------------------------------------------------------
(* One seat each, and the mark of queueing. *)

ClientsOf(q) == {q[n].client : n \in DOMAIN q}
OneSeatEach(q) == \A i \in DOMAIN q, j \in DOMAIN q : q[i].client = q[j].client => i = j

LEMMA RemoveSeatLeaves ==
  ASSUME NEW q \in Seq(Seat), NEW n \in DOMAIN q, OneSeatEach(q)
  PROVE  /\ OneSeatEach(RemoveSeat(q, n))
         /\ ClientsOf(RemoveSeat(q, n)) = ClientsOf(q) \ {q[n].client}
<1> DEFINE l == Len(q)
           s == RemoveSeat(q, n)
<1>1. l \in Nat /\ DOMAIN q = 1..l /\ n \in 1..l
  BY LenProperties
<1>2. DOMAIN s = 1..(l - 1) /\ \A k \in 1..(l - 1) : s[k] = q[Was(n, k)]
  BY RemovedSeats
<1> HIDE DEF l, s
<1>3. /\ \A k \in 1..(l - 1) : Was(n, k) \in (1..l) \ {n}
      /\ \A j \in 1..(l - 1), k \in 1..(l - 1) : j < k <=> Was(n, j) < Was(n, k)
      /\ \A i \in (1..l) \ {n} : \E k \in 1..(l - 1) : Was(n, k) = i
  BY <1>1, WasProperties
<1>4. ASSUME NEW i \in DOMAIN s, NEW j \in DOMAIN s, s[i].client = s[j].client PROVE i = j
  <2>1. Was(n, i) = Was(n, j)
    BY <1>1, <1>2, <1>3, <1>4 DEF OneSeatEach
  <2>2. Was(n, i) \in 1..l /\ ~(i < j) /\ ~(j < i)
    BY <1>1, <1>2, <1>3, <2>1
  <2> QED BY <1>1, <1>2, <2>2
<1>5. ASSUME NEW k \in DOMAIN s PROVE s[k].client \in ClientsOf(q) \ {q[n].client}
  BY <1>1, <1>2, <1>3 DEF OneSeatEach, ClientsOf
<1>6. ASSUME NEW c \in ClientsOf(q) \ {q[n].client} PROVE c \in ClientsOf(s)
  <2>1. PICK i \in (1..l) \ {n} : q[i].client = c
    BY <1>1 DEF ClientsOf
  <2>2. PICK k \in 1..(l - 1) : Was(n, k) = i
    BY <1>3
  <2>3. s[k].client = c
    BY <1>2, <2>1, <2>2
  <2> QED BY <1>2, <2>3 DEF ClientsOf
<1>7. ClientsOf(s) = ClientsOf(q) \ {q[n].client}
  BY <1>5, <1>6 DEF ClientsOf
<1> QED
  BY <1>4, <1>7 DEF OneSeatEach, s

LEMMA AppendedSeat ==
  ASSUME NEW q \in Seq(Seat), NEW c \in Client, NEW mode \in Mode,
         OneSeatEach(q), c \notin ClientsOf(q)
  PROVE  LET s == Append(q, [client |-> c, mode |-> mode])
         IN OneSeatEach(s) /\ ClientsOf(s) = ClientsOf(q) \union {c}
<1> DEFINE seat == [client |-> c, mode |-> mode]
           s == Append(q, seat)
           l == Len(q)
<1>1. seat \in Seat /\ seat.client = c
  BY DEF Seat
<1> HIDE DEF seat
<1>2. l \in Nat /\ DOMAIN q = 1..l
  BY LenProperties
<1>3. /\ s \in Seq(Seat) /\ Len(s) = l + 1
      /\ \A k \in 1..l : s[k] = q[k]
      /\ s[l + 1] = seat
  BY <1>1, AppendProperties
<1>4. DOMAIN s = (1..l) \union {l + 1}
  BY <1>2, <1>3, LenProperties
<1> HIDE DEF s, l
<1>5. OneSeatEach(s)
  <2> SUFFICES ASSUME NEW i \in DOMAIN s, NEW j \in DOMAIN s, s[i].client = s[j].client
               PROVE  i = j
    BY DEF OneSeatEach
  <2>1. CASE i \in 1..l /\ j \in 1..l
    BY <1>2, <1>3, <2>1 DEF OneSeatEach
  <2>2. \A k \in 1..l : s[k].client # c
    BY <1>2, <1>3 DEF ClientsOf
  <2> QED BY <1>1, <1>3, <1>4, <2>1, <2>2
<1>6. ClientsOf(s) = ClientsOf(q) \union {c}
  <2>1. \A k \in DOMAIN s : s[k].client \in ClientsOf(q) \union {c}
    BY <1>1, <1>2, <1>3, <1>4 DEF ClientsOf
  <2>2. \A k \in DOMAIN q : q[k].client \in ClientsOf(s)
    BY <1>2, <1>3, <1>4 DEF ClientsOf
  <2>3. c \in ClientsOf(s)
    BY <1>1, <1>3, <1>4 DEF ClientsOf
  <2> QED BY <2>1, <2>2, <2>3 DEF ClientsOf
<1> QED
  BY <1>5, <1>6 DEF s, seat

LEMMA SeatForSeats ==
  ASSUME NEW q \in Seq(Seat), NEW c \in Client, NEW mode \in Mode, OneSeatEach(q)
  PROVE  /\ OneSeatEach(SeatFor(q, c, mode))
         /\ ClientsOf(SeatFor(q, c, mode)) = ClientsOf(q) \union {c}
<1>1. CASE c \notin ClientsOf(q)
  <2>1. SeatFor(q, c, mode) = Append(q, [client |-> c, mode |-> mode])
    BY <1>1 DEF SeatFor, ClientsOf
  <2> QED BY <1>1, <2>1, AppendedSeat
<1>2. CASE c \in ClientsOf(q)
  <2> DEFINE s == [n \in DOMAIN q |-> IF q[n].client = c THEN [q[n] EXCEPT !.mode = mode] ELSE q[n]]
  <2>1. SeatFor(q, c, mode) = s
    BY <1>2 DEF SeatFor, ClientsOf
  <2>2. \A n \in DOMAIN q : q[n] \in Seat
    BY LenProperties, ElementOfSeq
  <2>3. DOMAIN s = DOMAIN q /\ \A n \in DOMAIN q : s[n].client = q[n].client
    BY <2>2 DEF Seat
  <2> HIDE DEF s
  <2>4. OneSeatEach(s) /\ ClientsOf(s) = ClientsOf(q)
    BY <2>3 DEF OneSeatEach, ClientsOf
  <2> QED BY <1>2, <2>1, <2>4
<1> QED
  BY <1>1, <1>2

(* A client is marked exactly while it has a seat, and has one *)
SeatInv ==
    /\ OneSeatEach(queue)
    /\ \A c \in Client : queueing[c] <=> c \in ClientsOf(queue)

LEMMA UnseatSeats ==
  ASSUME TypeClients, TypeQueue, SeatInv, NEW c \in Client, Unseat(c)
  PROVE  /\ SeatInv' /\ ~queueing'[c]
         /\ \A d \in Client \ {c} : queueing'[d] = queueing[d]
<1>1. \A d \in Client : queueing'[d] = IF d = c THEN FALSE ELSE queueing[d]
  BY DEF Unseat, TypeClients
<1>2. CASE queueing[c]
  <2>1. Seated(c) # {}
    BY <1>2 DEF SeatInv, ClientsOf, Seated
  <2>2. PICK n \in Seated(c) : queue' = RemoveSeat(queue, n)
    BY <1>2, <2>1 DEF Unseat
  <2>3. n \in DOMAIN queue /\ queue[n].client = c
    BY DEF Seated
  <2>4. OneSeatEach(queue') /\ ClientsOf(queue') = ClientsOf(queue) \ {c}
    BY <2>2, <2>3, RemoveSeatLeaves DEF TypeQueue, SeatInv
  <2> QED BY <1>1, <2>4 DEF SeatInv
<1>3. CASE ~queueing[c]
  <2>1. queue' = queue
    BY <1>3 DEF Unseat
  <2> QED BY <1>1, <1>3, <2>1 DEF SeatInv
<1> QED
  BY <1>2, <1>3

(* A pass takes out both seats of its pair, and these are two clients' *)
LEMMA PairSeats ==
  ASSUME TypeClients, TypeQueue, SeatInv, NEW p \in Pairs(queue),
         queue' = RemoveSeat(RemoveSeat(queue, p[2]), p[1]),
         queueing' = [queueing EXCEPT ![queue[p[1]].client] = FALSE, ![queue[p[2]].client] = FALSE]
  PROVE  LET a == queue[p[1]].client
             b == queue[p[2]].client
         IN /\ a \in Client /\ b \in Client /\ a # b
            /\ queueing[a] /\ queueing[b] /\ ~queueing'[a] /\ ~queueing'[b]
            /\ \A d \in Client \ {a, b} : queueing'[d] = queueing[d]
            /\ SeatInv'
<1> DEFINE a == queue[p[1]].client
           b == queue[p[2]].client
           q == RemoveSeat(queue, p[2])
<1>1. p[1] \in DOMAIN queue /\ p[2] \in DOMAIN queue /\ p[1] < p[2]
  BY DEF Pairs
<1>2. Len(queue) \in Nat /\ DOMAIN queue = 1..Len(queue)
  BY LenProperties DEF TypeQueue
<1>3. queue[p[1]] \in Seat /\ queue[p[2]] \in Seat
  BY <1>1, <1>2, ElementOfSeq DEF TypeQueue
<1>4. a \in Client /\ b \in Client
  BY <1>3 DEF Seat
<1>5. a # b
  BY <1>1, <1>2 DEF SeatInv, OneSeatEach
<1>6. queueing[a] /\ queueing[b]
  BY <1>1, <1>4 DEF SeatInv, ClientsOf
<1>7. \A d \in Client : queueing'[d] = IF d \in {a, b} THEN FALSE ELSE queueing[d]
  BY <1>4 DEF TypeClients
<1>8. q \in Seq(Seat) /\ OneSeatEach(q) /\ ClientsOf(q) = ClientsOf(queue) \ {b}
  BY <1>1, RemoveSeatType, RemoveSeatLeaves DEF TypeQueue, SeatInv
<1>9. p[1] \in DOMAIN q /\ q[p[1]].client = a
  <2>1. p[1] \in 1..(Len(queue) - 1) /\ Was(p[2], p[1]) = p[1]
    BY <1>1, <1>2 DEF Was
  <2> QED BY <1>1, <2>1, RemovedSeats DEF TypeQueue
<1>10. queue' = RemoveSeat(q, p[1])
  OBVIOUS
<1> HIDE DEF q
<1>11. OneSeatEach(queue') /\ ClientsOf(queue') = ClientsOf(queue) \ {a, b}
  BY <1>8, <1>9, <1>10, RemoveSeatLeaves
<1>12. SeatInv'
  BY <1>7, <1>11 DEF SeatInv
<1> QED
  BY <1>4, <1>5, <1>6, <1>7, <1>12

(* A requeued side that takes a seat had none *)
LEMMA TakenSeats ==
  ASSUME TypeClients, TypeQueue, SeatInv, NEW c \in Client, NEW mode \in Mode, TakeSeat(c, mode)
  PROVE  SeatInv' /\ \A d \in Client \ {c} : queueing'[d] = queueing[d]
<1>1. CASE UNCHANGED seats
  BY <1>1 DEF seats, SeatInv
<1>2. CASE /\ ~queueing[c] /\ queue' = Append(queue, [client |-> c, mode |-> mode])
           /\ queueing' = [queueing EXCEPT ![c] = TRUE]
  <2>1. c \notin ClientsOf(queue)
    BY <1>2 DEF SeatInv
  <2>2. OneSeatEach(queue') /\ ClientsOf(queue') = ClientsOf(queue) \union {c}
    BY <1>2, <2>1, AppendedSeat DEF TypeQueue, SeatInv
  <2>3. \A d \in Client : queueing'[d] = IF d = c THEN TRUE ELSE queueing[d]
    BY <1>2 DEF TypeClients
  <2> QED BY <2>2, <2>3 DEF SeatInv
<1> QED
  BY <1>1, <1>2 DEF TakeSeat

(* What a step may do to the seats *)
LEMMA SeatSteps ==
  ASSUME HubType, [Next]_vars
  PROVE  \/ UNCHANGED seats
         \/ \E c \in Client : Unseat(c)
         \/ \E c \in Client : HandleQueue(c) /\ ~Refused
         \/ TryPair
         \/ \E m \in Match, i \in Side :
               /\ Requeue(m, i) /\ TryAgain(match[m].side[i])
               /\ match[m].side[i] \in Client /\ match[m].mode \in Mode
               /\ TakeSeat(match[m].side[i], match[m].mode)
<1>1. ASSUME NEW m \in Match, NEW i \in Side, Requeue(m, i), ~UNCHANGED seats
      PROVE  /\ match[m].side[i] \in Client /\ match[m].mode \in Mode
             /\ TakeSeat(match[m].side[i], match[m].mode) /\ TryAgain(match[m].side[i])
  <2>1. match[m].kind = "queue" /\ match[m].stage # "free"
    BY <1>1 DEF Requeue
  <2> QED BY <1>1, <2>1 DEF Requeue, HubType, StartedComplete
<1>2. \/ UNCHANGED seats
      \/ \E c \in Client : Remove(c) \/ Handle(c)
      \/ TryPair
      \/ \E m \in Match, i \in Side : Requeue(m, i)
  BY DEF Next, MatchStep, Connect, Cancelled, Resolve, TryDone, HandshakeFails, MatchEnds,
     Finish, vars
<1>3. ASSUME NEW c \in Client, Remove(c) \/ Handle(c), ~UNCHANGED seats
      PROVE  Unseat(c) \/ (HandleQueue(c) /\ ~Refused)
  BY <1>3 DEF Remove, Handle, HandleQueue, HandleCancel, HandleCPU, HandleChallenge, HandleJoin,
     Refused
<1> QED
  BY <1>1, <1>2, <1>3

LEMMA QueueSeats ==
  ASSUME TypeClients, TypeQueue, SeatInv, NEW c \in Client, HandleQueue(c), ~Refused
  PROVE  /\ SeatInv' /\ trying'
         /\ \A d \in Client \ {c} : queueing'[d] = queueing[d]
         /\ cmatch[c] = None /\ open[PidOf[c]] = None
         /\ UNCHANGED <<registry, challenges, cmatch, match>>
<1>1. PICK mode \in Mode : queue' = SeatFor(queue, c, mode)
  BY DEF HandleQueue
<1>2. \A d \in Client : queueing'[d] = IF d = c THEN queueing[c] \/ Seated(c) = {} ELSE queueing[d]
  BY DEF HandleQueue, TypeClients
<1>3. OneSeatEach(queue') /\ ClientsOf(queue') = ClientsOf(queue) \union {c}
  BY <1>1, SeatForSeats DEF TypeQueue, SeatInv
<1>4. queueing[c] \/ Seated(c) = {}
  BY DEF SeatInv, ClientsOf, Seated
<1>5. queueing'[c]
  BY <1>2, <1>4
<1>6. SeatInv'
  BY <1>2, <1>3, <1>5 DEF SeatInv
<1> QED
  BY <1>2, <1>6 DEF HandleQueue

LEMMA SeatStep == HubType /\ SeatInv /\ [Next]_vars => SeatInv'
<1> SUFFICES ASSUME HubType, SeatInv, [Next]_vars PROVE SeatInv'
  OBVIOUS
<1> USE DEF HubType, TypeOK
<1>1. CASE UNCHANGED seats
  BY <1>1 DEF seats, SeatInv
<1>2. ASSUME NEW c \in Client, Unseat(c) PROVE SeatInv'
  BY <1>2, UnseatSeats
<1>3. ASSUME NEW c \in Client, HandleQueue(c), ~Refused PROVE SeatInv'
  BY <1>3, QueueSeats
<1>4. CASE TryPair
  BY <1>4, PairSeats DEF TryPair
<1>5. ASSUME NEW m \in Match, NEW i \in Side, match[m].side[i] \in Client, match[m].mode \in Mode,
             TakeSeat(match[m].side[i], match[m].mode)
      PROVE  SeatInv'
  BY <1>5, TakenSeats
<1> QED
  BY <1>1, <1>2, <1>3, <1>4, <1>5, SeatSteps

LEMMA SeatInit == Init => SeatInv
  BY EmptySeq DEF Init, SeatInv, OneSeatEach, ClientsOf

(* A client is marked as queueing exactly while it holds one seat, whatever is *)
(* queued, cancelled, paired, removed and requeued in whatever order.          *)
THEOREM MarksAreSeats == Spec => []SeatMatchesFlag
<1>1. HubInv /\ SeatInv /\ [Next]_vars => HubInv' /\ SeatInv'
  BY HubTypeStep, PairsStep, SeatStep DEF HubInv
<1>2. ASSUME SeatInv PROVE SeatMatchesFlag
  <2> SUFFICES ASSUME NEW c \in Client
               PROVE  Cardinality(Seated(c)) = IF queueing[c] THEN 1 ELSE 0
    BY DEF SeatMatchesFlag
  <2>1. CASE queueing[c]
    <3>1. PICK n \in DOMAIN queue : queue[n].client = c
      BY <1>2, <2>1 DEF SeatInv, ClientsOf
    <3>2. Seated(c) = {n}
      BY <1>2, <3>1 DEF SeatInv, OneSeatEach, Seated
    <3> QED BY <2>1, <3>2, FS_Singleton
  <2>2. CASE ~queueing[c]
    <3>1. Seated(c) = {}
      BY <1>2, <2>2 DEF SeatInv, ClientsOf, Seated
    <3> QED BY <2>2, <3>1, FS_EmptySet
  <2> QED BY <2>1, <2>2
<1> QED
  BY <1>1, <1>2, HubInit, SeatInit, PTL DEF Spec

-----------------------------------------------------------------------------
(* No pair is overlooked: a pass can only end when the queue has none, and     *)
(* whatever makes one asks for a pass.                                         *)

LEMMA RemovingMakesNoPair ==
  ASSUME NEW q \in Seq(Seat), NEW n \in DOMAIN q, Pairs(RemoveSeat(q, n)) # {}
  PROVE  Pairs(q) # {}
<1> DEFINE l == Len(q)
           s == RemoveSeat(q, n)
<1>1. l \in Nat /\ DOMAIN q = 1..l /\ n \in 1..l
  BY LenProperties
<1>2. DOMAIN s = 1..(l - 1) /\ \A k \in 1..(l - 1) : s[k] = q[Was(n, k)]
  BY RemovedSeats
<1>3. /\ \A k \in 1..(l - 1) : Was(n, k) \in (1..l) \ {n}
      /\ \A j \in 1..(l - 1), k \in 1..(l - 1) : j < k <=> Was(n, j) < Was(n, k)
  BY <1>1, WasProperties
<1>4. Pairs(s) # {}
  OBVIOUS
<1> HIDE DEF l, s
<1>5. PICK p \in (DOMAIN s) \X (DOMAIN s) : p[1] < p[2] /\ s[p[1]].mode = s[p[2]].mode
  BY <1>4 DEF Pairs
<1>6. p[1] \in 1..(l - 1) /\ p[2] \in 1..(l - 1)
  BY <1>2, <1>5
<1> DEFINE i == Was(n, p[1])
           j == Was(n, p[2])
<1>7. i \in 1..l /\ j \in 1..l /\ i < j /\ q[i].mode = q[j].mode
  BY <1>2, <1>3, <1>5, <1>6
<1> HIDE DEF i, j
<1>8. <<i, j>> \in Pairs(q)
  BY <1>1, <1>7 DEF Pairs
<1> QED
  BY <1>8

LEMMA MissedStep == HubType /\ SeatInv /\ NoMissedPair /\ [Next]_vars => NoMissedPair'
<1> SUFFICES ASSUME HubType, SeatInv, Pairs(queue) # {} => trying, [Next]_vars,
                    Pairs(queue') # {}
             PROVE  trying'
  BY DEF NoMissedPair, Pairs
<1> USE DEF HubType, TypeOK
<1>1. CASE TryPair
  BY <1>1 DEF TryPair
<1>2. CASE TryDone
  BY <1>2 DEF TryDone, seats
<1>3. ASSUME trying, ~TryDone PROVE trying'
  BY <1>3 DEF Next, Handle, MatchStep, Connect, Remove, Cancelled, HandleQueue, HandleCancel,
     HandleCPU, HandleChallenge, HandleJoin, Refused, Resolve, TryPair, HandshakeFails, MatchEnds,
     Requeue, TryAgain, Finish, vars
<1>4. CASE ~trying
  <2>1. Pairs(queue) = {}
    BY <1>4
  <2>2. queue' # queue
    BY <2>1
  <2>3. ASSUME NEW c \in Client, Unseat(c) PROVE FALSE
    <3>1. PICK n \in DOMAIN queue : queue' = RemoveSeat(queue, n)
      BY <2>2, <2>3 DEF Unseat, Seated
    <3> QED BY <2>1, <3>1, RemovingMakesNoPair DEF TypeQueue
  <2>4. ASSUME NEW c \in Client, HandleQueue(c), ~Refused PROVE trying'
    BY <2>4, QueueSeats
  <2>5. ASSUME NEW m \in Match, NEW i \in Side, TryAgain(match[m].side[i]),
               match[m].side[i] \in Client, TakeSeat(match[m].side[i], match[m].mode)
        PROVE  trying'
    BY <2>2, <2>5 DEF TakeSeat, TryAgain, TypeClients, seats
  <2> QED BY <1>1, <2>2, <2>3, <2>4, <2>5, SeatSteps DEF seats
<1> QED
  BY <1>2, <1>3, <1>4

(* No two waiting clients of one mode are left to whoever queues next: the     *)
(* queue's mutations, the re-queues and the passes of tryMatch, in any order.  *)
THEOREM NobodyIsOverlooked == Spec => []NoMissedPair
<1>1. Init => NoMissedPair
  BY EmptySeq DEF Init, NoMissedPair, Pairs
<1>2. HubInv /\ SeatInv /\ NoMissedPair /\ [Next]_vars => HubInv' /\ SeatInv' /\ NoMissedPair'
  BY HubTypeStep, PairsStep, SeatStep, MissedStep DEF HubInv
<1> QED
  BY <1>1, <1>2, HubInit, SeatInit, PTL DEF Spec

LEMMA StartRecord ==
  ASSUME TypeMatches, NEW m \in Match, NEW kind, NEW mode, NEW a, NEW b, Start(m, kind, mode, a, b)
  PROVE  /\ match[m].stage = "free" /\ match'[m].stage = "running"
         /\ match'[m].side[0] = a /\ match'[m].side[1] = b
         /\ match'[m].kind = kind /\ match'[m].mode = mode
         /\ \A k \in Match \ {m} : match'[k] = match[k]
         /\ \A c \in Client : cmatch'[c] = IF c \in {a, b} THEN m ELSE cmatch[c]
<1> DEFINE sides == [i \in Side |-> IF i = 0 THEN a ELSE b]
           new == [stage |-> "running", kind |-> kind, mode |-> mode, side |-> sides, offers |-> {}]
<1>1. match' = [match EXCEPT ![m] = new] /\ match[m].stage = "free"
  BY DEF Start
<1>2. new.stage = "running" /\ new.side = sides /\ new.mode = mode
  OBVIOUS
<1>3. sides[0] = a /\ sides[1] = b
  BY DEF Side
<1> HIDE DEF new, sides
<1>4. match'[m] = new /\ \A k \in Match \ {m} : match'[k] = match[k]
  BY <1>1 DEF TypeMatches
<1> QED
  BY <1>1, <1>2, <1>3, <1>4 DEF Start

-----------------------------------------------------------------------------
(* A link in play. *)

LEMMA DropLeaves ==
  ASSUME TypeChallenges, NEW players \in SUBSET Player, NEW m \in Match \union {None}, Drop(players, m)
  PROVE  /\ \A t \in Reserved' : t \in Reserved /\ entry'[t] = entry[t]
         /\ \A t \in Reserved' : m # None => entry[t].match # m
         /\ \A p \in Player : open'[p] \in {None, open[p]}
         /\ \A p \in players : open'[p] = None
<1> DEFINE own == {open[p] : p \in players}
           spent == {t \in Reserved \ own : m # None /\ entry[t].match = m}
           gone == own \union spent
           owners == players \union {entry[t].pid : t \in spent}
<1>1. entry' = [t \in Token |-> IF t \in gone THEN None ELSE entry[t]]
  BY DEF Drop
<1>2. open' = [p \in Player |-> IF p \in owners THEN None ELSE open[p]]
  BY DEF Drop
<1>3. \A t \in Reserved : t \notin gone /\ m # None => entry[t].match # m
  OBVIOUS
<1>4. players \subseteq owners
  OBVIOUS
<1> HIDE DEF gone, owners
<1>5. \A t \in Token : entry'[t] # None => t \notin gone /\ entry'[t] = entry[t]
  BY <1>1
<1>6. \A p \in Player : open'[p] = IF p \in owners THEN None ELSE open[p]
  BY <1>2
<1> QED
  BY <1>3, <1>4, <1>5, <1>6 DEF Reserved

(* What a step may do to the reservations *)
LEMMA InPlayStep ==
  HubType /\ ReservationIndexesAgree /\ InPlayIsRunning /\ [Next]_vars => InPlayIsRunning'
<1> SUFFICES ASSUME HubType, ReservationIndexesAgree, InPlayIsRunning, [Next]_vars
             PROVE  InPlayIsRunning'
  OBVIOUS
<1> USE DEF HubType, TypeOK
<1>1. ASSUME \A t \in Reserved' : t \in Reserved /\ entry'[t].match = entry[t].match,
             Started \subseteq Started'
      PROVE  InPlayIsRunning'
  BY <1>1 DEF InPlayIsRunning, Reserved
<1>2. ASSUME NEW m \in Match, Finish(m) PROVE InPlayIsRunning'
  <2> DEFINE players == {PidOf[c] : c \in StillIn(m)}
  <2>1. players \in SUBSET Player
    BY HubAssumption DEF StillIn, SidesOf, TypeMatches, MatchRecord
  <2>2. Drop(players, m)
    BY <1>2 DEF Finish, Spent
  <2> HIDE DEF players
  <2>3. m # None
    BY HubAssumption
  <2>4. \A t \in Reserved' : t \in Reserved /\ entry'[t] = entry[t] /\ entry[t].match # m
    BY <2>1, <2>2, <2>3, DropLeaves
  <2>5. Started' = Started \ {m}
    BY <1>2, FinishFrees
  <2>6. ASSUME NEW t \in Reserved', entry'[t].match # None PROVE entry'[t].match \in Started'
    BY <2>4, <2>5, <2>6 DEF InPlayIsRunning
  <2> QED BY <2>6 DEF InPlayIsRunning, Reserved, Started
<1>3. ASSUME NEW c \in Client, HandleJoin(c), ~Refused PROVE InPlayIsRunning'
  <2>1. PICK t \in Reserved, d \in Client, m \in Match :
          /\ Start(m, "challenge", entry[t].mode, d, c)
          /\ entry' = [entry EXCEPT ![t].match = m]
    BY <1>3 DEF HandleJoin, MayClaim
  <2>2. Started' = Started \union {m}
    BY <2>1, StartStarts
  <2>3. t \in Token /\ entry[t] \in Entry
    BY DEF Reserved, TypeChallenges
  <2>4. entry'[t].match = m /\ \A k \in Token \ {t} : entry'[k] = entry[k]
    BY <2>1, <2>3 DEF TypeChallenges, Entry
  <2>5. ASSUME NEW k \in Reserved', entry'[k].match # None PROVE entry'[k].match \in Started'
    <3>1. CASE k = t
      BY <2>2, <2>4, <3>1
    <3>2. CASE k # t
      BY <2>2, <2>4, <2>5, <3>2 DEF InPlayIsRunning, Reserved
    <3> QED BY <3>1, <3>2
  <2> QED BY <2>5 DEF InPlayIsRunning, Reserved, Started
<1>4. ASSUME NEW c \in Client, Drop({PidOf[c]}, None)
      PROVE  \A t \in Reserved' : t \in Reserved /\ entry'[t].match = entry[t].match
  <2>1. {PidOf[c]} \in SUBSET Player
    BY HubAssumption
  <2> QED BY <1>4, <2>1, DropLeaves
<1>5. ASSUME NEW c \in Client, HandleChallenge(c) PROVE InPlayIsRunning'
  <2>1. Started' = Started
    BY <1>5 DEF HandleChallenge, Started
  <2>2. CASE UNCHANGED challenges
    BY <1>1, <2>1, <2>2 DEF challenges, Reserved
  <2>3. CASE open[PidOf[c]] # None /\ Remint(PidOf[c])
    <3> DEFINE t == open[PidOf[c]]
    <3>1. PICK mode \in Mode : entry' = [entry EXCEPT ![t].mode = mode]
      BY <2>3 DEF Remint
    <3>2. t \in Reserved
      BY <2>3, HubAssumption DEF ReservationIndexesAgree
    <3> HIDE DEF t
    <3>3. t \in Token /\ entry[t] \in Entry
      BY <3>2 DEF Reserved, TypeChallenges
    <3>4. entry'[t].match = entry[t].match /\ \A k \in Token \ {t} : entry'[k] = entry[k]
      BY <3>1, <3>3 DEF TypeChallenges, Entry
    <3>5. \A k \in Reserved' : k \in Reserved /\ entry'[k].match = entry[k].match
      BY <3>2, <3>4 DEF Reserved
    <3> QED BY <1>1, <2>1, <3>5
  <2>4. CASE Mint(PidOf[c])
    <3>1. PICK t \in Token, mode \in Mode :
            entry' = [entry EXCEPT ![t] = [pid |-> PidOf[c], mode |-> mode, match |-> None]]
      BY <2>4 DEF Mint
    <3>2. \A k \in Token : entry'[k] = IF k = t THEN [pid |-> PidOf[c], mode |-> mode, match |-> None]
                                                ELSE entry[k]
      BY <3>1 DEF TypeChallenges
    <3>3. ASSUME NEW k \in Reserved', entry'[k].match # None PROVE entry'[k].match \in Started'
      BY <2>1, <3>2, <3>3 DEF InPlayIsRunning, Reserved
    <3> QED BY <3>3 DEF InPlayIsRunning, Reserved, Started
  <2> QED BY <1>5, <2>2, <2>3, <2>4 DEF HandleChallenge
<1>6. ASSUME NEW c \in Client, HandleCancel(c) PROVE InPlayIsRunning'
  BY <1>1, <1>4, <1>6 DEF HandleCancel, Started
<1>7. ASSUME NEW c \in Client, HandleCPU(c), ~Refused PROVE InPlayIsRunning'
  <2>1. PICK m \in Match, mode \in Mode : Start(m, "cpu", mode, c, None)
    BY <1>7 DEF HandleCPU
  <2>2. Started \subseteq Started'
    BY <2>1, StartStarts
  <2>3. Drop({PidOf[c]}, None)
    BY <1>7 DEF HandleCPU
  <2> QED BY <1>1, <1>4, <2>2, <2>3
<1>8. CASE TryPair
  <2>1. PICK p \in Pairs(queue), m \in Match :
          Start(m, "queue", queue[p[1]].mode, queue[p[1]].client, queue[p[2]].client)
    BY <1>8 DEF TryPair
  <2>2. Started \subseteq Started'
    BY <2>1, StartStarts
  <2> QED BY <1>1, <1>8, <2>2 DEF TryPair, challenges, Reserved
<1>9. ASSUME NEW m \in Match,
             HandshakeFails(m) \/ MatchEnds(m) \/ \E i \in Side : Requeue(m, i)
      PROVE  InPlayIsRunning'
  <2>1. Started' = Started /\ entry' = entry
    BY <1>9, MovingOnKeeps
  <2> QED BY <1>1, <2>1 DEF Reserved
<1>10. CASE UNCHANGED <<challenges, match>>
  BY <1>1, <1>10 DEF challenges, Reserved, Started
<1>11. \/ UNCHANGED <<challenges, match>>
       \/ TryPair
       \/ \E c \in Client : HandleCancel(c) \/ HandleChallenge(c) \/ (HandleCPU(c) /\ ~Refused)
                            \/ (HandleJoin(c) /\ ~Refused)
       \/ \E m \in Match : Finish(m) \/ HandshakeFails(m) \/ MatchEnds(m)
                           \/ \E i \in Side : Requeue(m, i)
  BY DEF Next, Handle, MatchStep, Connect, Remove, Cancelled, HandleQueue, Refused, Resolve,
     TryDone, vars, challenges
<1> QED
  BY <1>2, <1>3, <1>5, <1>6, <1>7, <1>8, <1>9, <1>10, <1>11

(* A link answers "in play" only while its match runs: the teardown frees it,  *)
(* also when its creator has left, cancelled or taken another seat meanwhile.  *)
THEOREM LinksAreFreed == Spec => []InPlayIsRunning
<1>1. Init => InPlayIsRunning
  BY DEF Init, InPlayIsRunning, Reserved
<1>2. HubInv /\ InPlayIsRunning /\ [Next]_vars => HubInv' /\ InPlayIsRunning'
  BY HubTypeStep, PairsStep, InPlayStep DEF HubInv
<1> QED
  BY <1>1, <1>2, HubInit, PTL DEF Spec

-----------------------------------------------------------------------------
(* One place per client, when each player has one connection.                  *)

OnePerPlayer == \A c \in Client, d \in Client : PidOf[c] = PidOf[d] => c = d

(* A connected client points at the match that is live for it, and has no seat *)
LiveClaims ==
    \A m \in Match, c \in Client : reg[c] /\ LiveFor(m, c) => cmatch[c] = m /\ ~queueing[c]

(* A client with a reservation open has a seat only while the match it lost    *)
(* its place in is torn down: so a join finds its creator outside the queue    *)
OpenIsSeatless ==
    \A c \in Client : reg[c] /\ open[PidOf[c]] # None /\ queueing[c] => cmatch[c] # None

TwoSides == \A m \in Started : match[m].side[0] # match[m].side[1]

PlaceInv == LiveClaims /\ OpenIsSeatless /\ TwoSides

LEMMA Sides ==
  ASSUME TypeMatches, NEW m \in Match
  PROVE  /\ match[m].stage \in Stage /\ match[m].offers \subseteq Side
         /\ \A i \in Side : match[m].side[i] \in Client \union {None}
         /\ \A c \in Client : c \in SidesOf(m) <=> \E i \in Side : match[m].side[i] = c
<1>1. match[m] \in MatchRecord
  BY DEF TypeMatches
<1>2. None \notin Client
  BY HubAssumption
<1> QED
  BY <1>1, <1>2 DEF MatchRecord, SidesOf

(* Starting a match between two clients no match is live for *)
LEMMA StartPlaces ==
  ASSUME TypeMatches, PlaceInv, NEW m \in Match, NEW kind, NEW mode, NEW a \in Client,
         NEW b \in Client \union {None}, a # b, Start(m, kind, mode, a, b),
         \A c \in {a, b} \ {None} : ~queueing'[c] /\ \A k \in Match : ~(reg[c] /\ LiveFor(k, c)),
         \A c \in Client \ {a, b} : queueing'[c] => queueing[c],
         UNCHANGED reg
  PROVE  LiveClaims' /\ TwoSides'
<1>1. /\ match[m].stage = "free" /\ match'[m].stage = "running"
      /\ match'[m].side[0] = a /\ match'[m].side[1] = b
      /\ \A k \in Match \ {m} : match'[k] = match[k]
      /\ \A c \in Client : cmatch'[c] = IF c \in {a, b} THEN m ELSE cmatch[c]
  BY StartRecord
<1>2. ASSUME NEW k \in Match, NEW c \in Client, reg'[c], LiveFor(k, c)'
      PROVE  cmatch'[c] = k /\ ~queueing'[c]
  <2>1. CASE k = m
    <3>1. c \in {a, b}
      BY <1>1, <1>2, <2>1 DEF LiveFor, Side
    <3> QED BY <1>1, <2>1, <3>1, HubAssumption
  <2>2. CASE k # m
    <3>1. LiveFor(k, c) /\ reg[c]
      BY <1>1, <1>2, <2>2 DEF LiveFor
    <3>2. c \notin {a, b}
      BY <3>1, HubAssumption
    <3> QED BY <1>1, <3>1, <3>2 DEF PlaceInv, LiveClaims
  <2> QED BY <2>1, <2>2
<1>3. TwoSides'
  BY <1>1 DEF PlaceInv, TwoSides, Started
<1> QED
  BY <1>2, <1>3 DEF LiveClaims

(* Moving on, a match becomes live for nobody else *)
LEMMA MovingOnNarrows ==
  ASSUME TypeMatches, NEW m \in Match,
         HandshakeFails(m) \/ MatchEnds(m) \/ \E i \in Side : Requeue(m, i)
  PROVE  /\ \A k \in Match, c \in Client : LiveFor(k, c)' => LiveFor(k, c)
         /\ TwoSides => TwoSides'
         /\ \A k \in Match \ {m} : match'[k] = match[k]
         /\ \A k \in Match : GameOf(k)' = GameOf(k)
         /\ UNCHANGED <<reg, cmatch, open>>
<1>1. match[m] \in MatchRecord /\ match[m].stage # "free"
  BY DEF TypeMatches, HandshakeFails, MatchEnds, Requeue
<1>2. \A k \in Match \ {m} : match'[k] = match[k]
  BY DEF HandshakeFails, MatchEnds, Requeue, TypeMatches
<1>3. /\ match'[m].side = match[m].side /\ match'[m].stage # "free"
      /\ match'[m].mode = match[m].mode /\ match'[m].kind = match[m].kind
      /\ \A c \in Client : LiveFor(m, c)' => LiveFor(m, c)
  <2>1. CASE HandshakeFails(m)
    <3>1. PICK offers \in {Side} \union {{1 - i} : i \in Side} :
            match' = [match EXCEPT ![m].stage = "failing", ![m].offers = offers]
      BY <2>1, Zenon DEF HandshakeFails
    <3>2. match'[m] = [match[m] EXCEPT !.stage = "failing", !.offers = offers]
      BY <3>1 DEF TypeMatches
    <3>3. /\ match'[m].stage = "failing" /\ match'[m].offers = offers
          /\ match'[m].side = match[m].side
          /\ match'[m].mode = match[m].mode /\ match'[m].kind = match[m].kind
      BY <1>1, <3>2 DEF MatchRecord
    <3>4. offers \subseteq Side
      BY DEF Side
    <3>5. match[m].stage = "running"
      BY <2>1 DEF HandshakeFails
    <3> QED BY <3>3, <3>4, <3>5 DEF LiveFor
  <2>2. CASE MatchEnds(m)
    <3>1. match'[m] = [match[m] EXCEPT !.stage = "ending"]
      BY <2>2 DEF MatchEnds, TypeMatches
    <3>2. /\ match'[m].stage = "ending" /\ match'[m].side = match[m].side
          /\ match'[m].mode = match[m].mode /\ match'[m].kind = match[m].kind
      BY <1>1, <3>1 DEF MatchRecord
    <3> QED BY <3>2 DEF LiveFor
  <2>3. ASSUME NEW i \in Side, Requeue(m, i)
        PROVE  /\ match'[m].side = match[m].side /\ match'[m].stage # "free"
               /\ match'[m].mode = match[m].mode /\ match'[m].kind = match[m].kind
               /\ \A c \in Client : LiveFor(m, c)' => LiveFor(m, c)
    <3>1. /\ match'[m].side = match[m].side /\ match'[m].stage \in {"failing", "ending"}
          /\ match'[m].offers = match[m].offers \ {i} /\ match[m].stage = "failing"
          /\ match'[m].mode = match[m].mode /\ match'[m].kind = match[m].kind
      BY <1>1, <2>3 DEF Requeue, TypeMatches, MatchRecord
    <3> QED BY <3>1 DEF LiveFor
  <2> QED BY <2>1, <2>2, <2>3
<1>4. \A k \in Match, c \in Client : LiveFor(k, c)' => LiveFor(k, c)
  BY <1>2, <1>3 DEF LiveFor
<1>5. ASSUME TwoSides PROVE TwoSides'
  BY <1>1, <1>2, <1>3, <1>5 DEF TwoSides, Started
<1>6. UNCHANGED <<reg, cmatch, open>>
  BY DEF HandshakeFails, MatchEnds, Requeue, registry, challenges
<1>7. \A k \in Match : GameOf(k)' = GameOf(k)
  BY <1>2, <1>3 DEF GameOf
<1> QED
  BY <1>2, <1>4, <1>5, <1>6, <1>7

(* A side that is offered back is live for the match no longer *)
LEMMA OfferedIsOver ==
  ASSUME TypeMatches, TwoSides, NEW m \in Match, NEW i \in Side, NEW c \in Client,
         match[m].side[i] = c, Requeue(m, i)
  PROVE  LiveFor(m, c) /\ ~LiveFor(m, c)'
<1>1. match[m] \in MatchRecord /\ match[m].stage = "failing" /\ i \in match[m].offers
  BY DEF TypeMatches, Requeue
<1>2. /\ match'[m].side = match[m].side /\ match'[m].stage \in {"failing", "ending"}
      /\ match'[m].offers = match[m].offers \ {i}
  BY <1>1 DEF Requeue, TypeMatches, MatchRecord
<1>3. \A j \in Side \ {i} : match[m].side[j] # c
  BY <1>1 DEF TwoSides, Started, Side
<1>4. match[m].offers \subseteq Side
  BY <1>1 DEF MatchRecord
<1>5. LiveFor(m, c)
  BY <1>1 DEF LiveFor
<1>6. ASSUME LiveFor(m, c)' PROVE FALSE
  BY <1>2, <1>3, <1>4, <1>6 DEF LiveFor
<1> QED
  BY <1>5, <1>6

LEMMA PlaceStep ==
  ASSUME OnePerPlayer, HubInv, PointsAtOwnMatch, SeatInv, PlaceInv, [Next]_vars
  PROVE  PlaceInv'
<1> USE DEF HubInv, HubType, TypeOK, PlaceInv
<1>1. \A c \in Client : PidOf[c] \in Player /\ c # None
  BY HubAssumption
<1>2. ASSUME NEW c \in Client, cmatch[c] = None
      PROVE  \A k \in Match : ~(reg[c] /\ LiveFor(k, c))
  BY <1>2, HubAssumption DEF LiveClaims
(* Steps that leave the matches alone *)
<1>3. ASSUME UNCHANGED match,
             \A c \in Client : reg'[c] => reg[c] /\ cmatch'[c] = cmatch[c],
             \A c \in Client : reg'[c] /\ queueing'[c] =>
                queueing[c] \/ (cmatch[c] = None /\ open'[PidOf[c]] = None),
             \A c \in Client : open'[PidOf[c]] \in {None, open[PidOf[c]]} \/ ~queueing'[c]
      PROVE  PlaceInv'
  <2>1. TwoSides' /\ \A m \in Match, c \in Client : LiveFor(m, c)' <=> LiveFor(m, c)
    BY <1>3 DEF TwoSides, Started, LiveFor
  <2>2. ASSUME NEW m \in Match, NEW c \in Client, reg'[c], LiveFor(m, c)'
        PROVE  cmatch'[c] = m /\ ~queueing'[c]
    <3>1. reg[c] /\ LiveFor(m, c)
      BY <1>3, <2>1, <2>2
    <3>2. cmatch[c] = m /\ ~queueing[c] /\ cmatch[c] # None
      BY <3>1, HubAssumption DEF LiveClaims
    <3> QED BY <1>3, <2>2, <3>2
  <2>3. OpenIsSeatless'
    BY <1>3 DEF OpenIsSeatless
  <2> QED BY <2>1, <2>2, <2>3 DEF LiveClaims
<1>4. ASSUME NEW c \in Client, Connect(c) PROVE PlaceInv'
  <2>1. /\ UNCHANGED <<seats, challenges, cmatch, match>>
        /\ \A d \in Client \ {c} : reg'[d] = reg[d]
        /\ ~Referenced(c)
    BY <1>4 DEF Connect, TypeClients
  <2>2. ~queueing[c]
    BY <2>1 DEF Referenced, Seated, SeatInv, ClientsOf
  <2>3. \A m \in Match : ~LiveFor(m, c)
    <3> SUFFICES ASSUME NEW m \in Match, LiveFor(m, c) PROVE FALSE
      OBVIOUS
    <3>1. m \in Started
      BY DEF LiveFor, Started
    <3>2. c \in SidesOf(m)
      BY Sides DEF LiveFor
    <3> QED BY <2>1, <3>1, <3>2 DEF Referenced
  <2>4. TwoSides' /\ \A m \in Match, d \in Client : LiveFor(m, d)' <=> LiveFor(m, d)
    BY <2>1 DEF TwoSides, Started, LiveFor
  <2>5. LiveClaims'
    BY <2>1, <2>3, <2>4 DEF LiveClaims, seats
  <2>6. OpenIsSeatless'
    BY <2>1, <2>2 DEF OpenIsSeatless, seats, challenges
  <2> QED BY <2>4, <2>5, <2>6
<1>5. ASSUME NEW c \in Client, Remove(c) PROVE PlaceInv'
  <2>1. /\ UNCHANGED <<challenges, match>>
        /\ \A d \in Client : reg'[d] = IF d = c THEN FALSE ELSE reg[d]
        /\ \A d \in Client : cmatch'[d] = IF d = c THEN None ELSE cmatch[d]
    BY <1>5 DEF Remove, TypeClients, TypeMatches
  <2>2. \A d \in Client \ {c} : queueing'[d] = queueing[d]
    BY <1>5, UnseatSeats DEF Remove
  <2> QED BY <1>3, <2>1, <2>2 DEF challenges
<1>6. ASSUME NEW c \in Client, HandleQueue(c), ~Refused PROVE PlaceInv'
  BY <1>3, <1>6, QueueSeats DEF registry, challenges
<1>7. ASSUME NEW c \in Client, HandleCancel(c) PROVE PlaceInv'
  <2>1. \A d \in Client : open'[PidOf[d]] \in {None, open[PidOf[d]]}
    <3>1. {PidOf[c]} \in SUBSET Player
      BY <1>1
    <3> QED BY <1>1, <1>7, <3>1, DropLeaves DEF HandleCancel
  <2>2. \A d \in Client : queueing'[d] => queueing[d]
    BY <1>7, UnseatSeats DEF HandleCancel
  <2> QED BY <1>3, <1>7, <2>1, <2>2 DEF HandleCancel, registry
<1>8. ASSUME NEW c \in Client, HandleChallenge(c) PROVE PlaceInv'
  <2>1. UNCHANGED <<registry, cmatch, match>>
    BY <1>8 DEF HandleChallenge
  <2>2. CASE UNCHANGED seats /\ UNCHANGED open
    BY <1>3, <2>1, <2>2 DEF seats, registry
  <2>3. CASE /\ Unseat(c)
             /\ \A p \in Player \ {PidOf[c]} : open'[p] = open[p]
    <3>1. ~queueing'[c] /\ \A d \in Client : queueing'[d] => queueing[d]
      BY <2>3, UnseatSeats
    <3>2. \A d \in Client : open'[PidOf[d]] = open[PidOf[d]] \/ ~queueing'[d]
      BY <1>1, <2>3, <3>1 DEF OnePerPlayer
    <3> QED BY <1>3, <2>1, <3>1, <3>2 DEF registry
  <2>4. ASSUME Mint(PidOf[c]) PROVE \A p \in Player \ {PidOf[c]} : open'[p] = open[p]
    BY <2>4 DEF Mint, TypeChallenges
  <2> QED BY <1>8, <2>2, <2>3, <2>4 DEF HandleChallenge, Remint, challenges
(* Steps that start a match *)
<1>9. ASSUME NEW c \in Client, HandleCPU(c), ~Refused PROVE PlaceInv'
  <2>1. PICK m \in Match, mode \in Mode : Start(m, "cpu", mode, c, None)
    BY <1>9 DEF HandleCPU
  <2>2. cmatch[c] = None /\ Unseat(c) /\ Drop({PidOf[c]}, None) /\ UNCHANGED registry
    BY <1>9 DEF HandleCPU
  <2>3. ~queueing'[c] /\ \A d \in Client \ {c} : queueing'[d] = queueing[d]
    BY <2>2, UnseatSeats
  <2>4. LiveClaims' /\ TwoSides'
    BY <1>1, <1>2, <2>1, <2>2, <2>3, StartPlaces DEF registry
  <2>5. \A d \in Client : open'[PidOf[d]] \in {None, open[PidOf[d]]}
    <3>1. {PidOf[c]} \in SUBSET Player
      BY <1>1
    <3> QED BY <1>1, <2>2, <3>1, DropLeaves
  <2>6. \A d \in Client : cmatch[d] # None => cmatch'[d] # None
    BY <2>1, HubAssumption DEF Start
  <2>7. OpenIsSeatless'
    BY <2>2, <2>3, <2>5, <2>6 DEF OpenIsSeatless, registry
  <2> QED BY <2>4, <2>7
<1>10. ASSUME NEW c \in Client, HandleJoin(c), ~Refused PROVE PlaceInv'
  <2>1. PICK t \in Reserved, d \in Client, m \in Match :
          /\ MayClaim(c, t, d) /\ Unseat(c)
          /\ Start(m, "challenge", entry[t].mode, d, c)
          /\ UNCHANGED <<registry, open>>
    BY <1>10 DEF HandleJoin, MayClaim
  <2>2. /\ cmatch[c] = None /\ cmatch[d] = None /\ reg[d]
        /\ PidOf[d] = entry[t].pid /\ PidOf[c] # entry[t].pid /\ c # d
    BY <2>1 DEF MayClaim, ConnectionsOf, Live
  <2>3. open[PidOf[d]] # None
    <3>1. t # None
      BY HubAssumption DEF Reserved
    <3> QED BY <2>2, <3>1 DEF ReservationIndexesAgree
  <2>4. ~queueing[d]
    BY <2>2, <2>3 DEF OpenIsSeatless
  <2>5. ~queueing'[c] /\ \A e \in Client \ {c} : queueing'[e] = queueing[e]
    BY <2>1, UnseatSeats
  <2>6. LiveClaims' /\ TwoSides'
    <3>1. \A e \in {d, c} \ {None} : ~queueing'[e] /\ \A k \in Match : ~(reg[e] /\ LiveFor(k, e))
      BY <1>2, <2>2, <2>4, <2>5
    <3> QED BY <2>1, <2>2, <2>5, <3>1, StartPlaces DEF registry
  <2>7. \A e \in Client : cmatch[e] # None => cmatch'[e] # None
    BY <2>1, HubAssumption DEF Start
  <2>8. OpenIsSeatless'
    BY <2>1, <2>5, <2>7 DEF OpenIsSeatless, registry
  <2> QED BY <2>6, <2>8
<1>11. CASE TryPair
  <2>1. PICK p \in Pairs(queue) :
         /\ \E m \in Match : Start(m, "queue", queue[p[1]].mode, queue[p[1]].client, queue[p[2]].client)
         /\ queue' = RemoveSeat(RemoveSeat(queue, p[2]), p[1])
         /\ queueing' = [queueing EXCEPT ![queue[p[1]].client] = FALSE, ![queue[p[2]].client] = FALSE]
    BY <1>11 DEF TryPair
  <2> DEFINE a == queue[p[1]].client
             b == queue[p[2]].client
  <2>2. /\ a \in Client /\ b \in Client /\ a # b
        /\ queueing[a] /\ queueing[b] /\ ~queueing'[a] /\ ~queueing'[b]
        /\ \A d \in Client \ {a, b} : queueing'[d] = queueing[d]
    BY <2>1, PairSeats
  <2>3. PICK m \in Match : Start(m, "queue", queue[p[1]].mode, a, b)
    BY <2>1
  <2>4. UNCHANGED <<registry, challenges>>
    BY <1>11 DEF TryPair
  <2> HIDE DEF a, b
  <2>5. \A c \in {a, b} \ {None} : ~queueing'[c] /\ \A k \in Match : ~(reg[c] /\ LiveFor(k, c))
    BY <2>2 DEF LiveClaims
  <2>6. LiveClaims' /\ TwoSides'
    BY <2>2, <2>3, <2>4, <2>5, StartPlaces DEF registry
  <2>7. \A d \in Client : queueing'[d] => queueing[d] /\ d \notin {a, b}
    BY <2>2
  <2>8. \A d \in Client : cmatch[d] # None => cmatch'[d] # None
    BY <2>3, HubAssumption DEF Start
  <2>9. OpenIsSeatless'
    BY <2>4, <2>7, <2>8 DEF OpenIsSeatless, registry, challenges
  <2> QED BY <2>6, <2>9
(* Steps that end one *)
<1>12. ASSUME NEW m \in Match,
              HandshakeFails(m) \/ MatchEnds(m) \/ \E i \in Side : Requeue(m, i)
       PROVE  PlaceInv'
  <2>1. /\ \A k \in Match, c \in Client : LiveFor(k, c)' => LiveFor(k, c)
        /\ TwoSides' /\ UNCHANGED <<reg, cmatch, open>>
    BY <1>12, MovingOnNarrows
  <2>2. CASE UNCHANGED seats
    BY <2>1, <2>2 DEF LiveClaims, OpenIsSeatless, seats
  <2>3. ASSUME NEW i \in Side, NEW c \in Client, match[m].side[i] = c, match[m].mode \in Mode,
               Requeue(m, i), TakeSeat(c, match[m].mode)
        PROVE  PlaceInv'
    <3>1. \A d \in Client \ {c} : queueing'[d] = queueing[d]
      BY <2>3, TakenSeats
    <3>2. LiveFor(m, c) /\ ~LiveFor(m, c)'
      BY <2>3, OfferedIsOver
    <3>3. reg[c] => cmatch[c] = m
      BY <3>2 DEF LiveClaims
    <3>4. ASSUME NEW k \in Match, NEW d \in Client, reg'[d], LiveFor(k, d)'
          PROVE  cmatch'[d] = k /\ ~queueing'[d]
      <4>1. reg[d] /\ LiveFor(k, d)
        BY <2>1, <3>4
      <4>2. cmatch[d] = k /\ ~queueing[d]
        BY <4>1 DEF LiveClaims
      <4>3. d # c
        BY <3>2, <3>3, <3>4, <4>1, <4>2
      <4> QED BY <2>1, <3>1, <4>2, <4>3
    <3>5. ASSUME NEW d \in Client, reg'[d], open'[PidOf[d]] # None, queueing'[d]
          PROVE  cmatch'[d] # None
      <4>1. CASE d = c
        BY <2>1, <3>3, <3>5, <4>1, HubAssumption
      <4>2. CASE d # c
        BY <2>1, <3>1, <3>5, <4>2 DEF OpenIsSeatless
      <4> QED BY <4>1, <4>2
    <3> QED BY <2>1, <3>4, <3>5 DEF LiveClaims, OpenIsSeatless
  <2>4. ASSUME NEW i \in Side, Requeue(m, i), ~UNCHANGED seats
        PROVE  /\ match[m].side[i] \in Client /\ match[m].mode \in Mode
               /\ TakeSeat(match[m].side[i], match[m].mode)
    <3>1. match[m].kind = "queue" /\ match[m].stage # "free"
      BY <2>4 DEF Requeue
    <3> QED BY <2>4, <3>1 DEF Requeue, StartedComplete
  <2> QED BY <1>12, <2>2, <2>3, <2>4 DEF HandshakeFails, MatchEnds
<1>13. ASSUME NEW m \in Match, Finish(m) PROVE PlaceInv'
  <2> DEFINE players == {PidOf[c] : c \in StillIn(m)}
  <2>1. /\ match[m].stage = "ending" /\ Drop(players, m)
        /\ \A c \in Client : cmatch'[c] = IF c \in StillIn(m) THEN None ELSE cmatch[c]
        /\ match' = [match EXCEPT ![m] = FreeMatch] /\ UNCHANGED <<registry, seats>>
    BY <1>13 DEF Finish, Spent
  <2>2. players \in SUBSET Player
    BY HubAssumption DEF StillIn, SidesOf, TypeMatches, MatchRecord
  <2>3. \A c \in StillIn(m) : PidOf[c] \in players
    OBVIOUS
  <2> HIDE DEF players
  <2>4. /\ \A p \in Player : open'[p] \in {None, open[p]}
        /\ \A p \in players : open'[p] = None
    BY <2>1, <2>2, DropLeaves
  <2>5. match'[m].stage = "free" /\ \A k \in Match \ {m} : match'[k] = match[k]
    BY <2>1 DEF TypeMatches, FreeMatch
  <2>6. TwoSides'
    BY <2>5 DEF TwoSides, Started
  <2>7. \A k \in Match, c \in Client : LiveFor(k, c)' => k # m /\ LiveFor(k, c)
    BY <2>5 DEF LiveFor
  <2>8. ASSUME NEW k \in Match, NEW c \in Client, reg'[c], LiveFor(k, c)'
        PROVE  cmatch'[c] = k /\ ~queueing'[c]
    <3>1. cmatch[c] = k /\ ~queueing[c] /\ k # m
      BY <2>1, <2>7, <2>8 DEF LiveClaims, registry
    <3>2. c \notin StillIn(m)
      BY <3>1 DEF StillIn
    <3> QED BY <2>1, <3>1, <3>2 DEF seats
  <2>9. OpenIsSeatless'
    BY <1>1, <2>1, <2>3, <2>4 DEF OpenIsSeatless, registry, seats
  <2> QED BY <2>6, <2>8, <2>9 DEF LiveClaims
<1>14. ASSUME NEW c \in Client, Cancelled(c) PROVE PlaceInv'
  BY <1>3, <1>14 DEF Cancelled, seats, challenges
<1>15. CASE UNCHANGED <<reg, seats, challenges, cmatch, match>>
  BY <1>3, <1>15 DEF seats, challenges
<1>16. \/ UNCHANGED <<reg, seats, challenges, cmatch, match>>
       \/ TryPair
       \/ \E c \in Client : \/ Connect(c) \/ Remove(c) \/ Cancelled(c) \/ HandleCancel(c)
                            \/ HandleChallenge(c) \/ (HandleQueue(c) /\ ~Refused)
                            \/ (HandleCPU(c) /\ ~Refused) \/ (HandleJoin(c) /\ ~Refused)
       \/ \E m \in Match : Finish(m) \/ HandshakeFails(m) \/ MatchEnds(m)
                           \/ \E i \in Side : Requeue(m, i)
  BY DEF Next, Handle, MatchStep, Refused, Resolve, TryDone, vars, registry
<1> QED
  BY <1>4, <1>5, <1>6, <1>7, <1>8, <1>9, <1>10, <1>11, <1>12, <1>13, <1>14, <1>15, <1>16

LEMMA PlaceInit == Init => PlaceInv
  BY DEF Init, PlaceInv, LiveClaims, LiveFor, OpenIsSeatless, TwoSides, Started, FreeMatch

HubPlaces == HubInv /\ PointsAtOwnMatch /\ SeatInv /\ PlaceInv

LEMMA PlacesInit == Init => HubPlaces
  BY HubInit, SeatInit, PlaceInit DEF Init, HubPlaces, PointsAtOwnMatch

LEMMA PlacesStep ==
  ASSUME OnePerPlayer
  PROVE  HubPlaces /\ [Next]_vars => HubPlaces'
  BY HubTypeStep, PairsStep, PointersStep, SeatStep, PlaceStep DEF HubInv, HubPlaces

LEMMA PlacesKept ==
  ASSUME OnePerPlayer
  PROVE  Spec => [](TypeOK /\ PointsAtOwnMatch /\ PlaceInv)
<1>1. HubPlaces => TypeOK /\ PointsAtOwnMatch /\ PlaceInv
  BY DEF HubPlaces, HubInv, HubType
<1> QED
  BY <1>1, PlacesInit, PlacesStep, PTL DEF Spec

(* With one connection per player a connected client is in every running match *)
(* it is a side of, hence in one: no order of pairings, claims, failed         *)
(* handshakes and teardowns announces a second match to it.                    *)
THEOREM OneMatchEach ==
  ASSUME OnePerPlayer
  PROVE  Spec => []OneMatchPerClient
<1>1. ASSUME TypeOK, PlaceInv PROVE OneMatchPerClient
  <2> SUFFICES ASSUME NEW m \in Match, NEW c \in Client, reg[c], match[m].stage = "running",
                      c \in SidesOf(m)
               PROVE  cmatch[c] = m
    BY DEF OneMatchPerClient, Live
  <2>1. LiveFor(m, c)
    BY <1>1, Sides DEF LiveFor, TypeOK
  <2> QED BY <1>1, <2>1 DEF PlaceInv, LiveClaims
<1> QED
  BY <1>1, PlacesKept, PTL

(* With one connection per player a client waits or plays, never both.         *)
THEOREM WaitsOrPlays ==
  ASSUME OnePerPlayer
  PROVE  Spec => []SeatedIsFree
<1>1. ASSUME TypeOK, PointsAtOwnMatch, PlaceInv PROVE SeatedIsFree
  <2> SUFFICES ASSUME NEW c \in Client, reg[c], queueing[c], cmatch[c] # None
               PROVE  match[cmatch[c]].stage \in {"failing", "ending"}
    BY DEF SeatedIsFree, Live
  <2> DEFINE m == cmatch[c]
  <2>1. m \in Started /\ m \in Match /\ c \in SidesOf(m)
    BY <1>1 DEF PointsAtOwnMatch, Started
  <2> HIDE DEF m
  <2>2. match[m].stage \in {"running", "failing", "ending"}
    BY <1>1, <2>1, Sides DEF Started, Stage, TypeOK
  <2>3. match[m].stage # "running"
    BY <1>1, <2>1, Sides DEF PlaceInv, LiveClaims, LiveFor, TypeOK
  <2> QED BY <2>2, <2>3 DEF m
<1> QED
  BY <1>1, PlacesKept, PTL

-----------------------------------------------------------------------------
(* The places Matchmaking knows of, and what the hub's operations do to them.  *)

LEMMA NoSeatNoModes ==
  ASSUME NEW q, NEW d, d \notin ClientsOf(q)
  PROVE  ModesOf(q, d) = {}
BY DEF ClientsOf, ModesOf

LEMMA RemovedModes ==
  ASSUME NEW q \in Seq(Seat), NEW n \in DOMAIN q, OneSeatEach(q), NEW d
  PROVE  ModesOf(RemoveSeat(q, n), d) = IF d = q[n].client THEN {} ELSE ModesOf(q, d)
<1> DEFINE l == Len(q)
           s == RemoveSeat(q, n)
<1>1. l \in Nat /\ DOMAIN q = 1..l /\ n \in 1..l
  BY LenProperties
<1>2. DOMAIN s = 1..(l - 1) /\ \A k \in 1..(l - 1) : s[k] = q[Was(n, k)]
  BY RemovedSeats
<1> HIDE DEF l, s
<1>3. /\ \A k \in 1..(l - 1) : Was(n, k) \in (1..l) \ {n}
      /\ \A i \in (1..l) \ {n} : \E k \in 1..(l - 1) : Was(n, k) = i
  BY <1>1, WasProperties
<1>4. CASE d = q[n].client
  <2>1. ClientsOf(s) = ClientsOf(q) \ {q[n].client}
    BY RemoveSeatLeaves DEF s
  <2> QED BY <1>4, <2>1, NoSeatNoModes DEF s
<1>5. CASE d # q[n].client
  <2>1. ASSUME NEW k \in DOMAIN s, s[k].client = d PROVE s[k].mode \in ModesOf(q, d)
    BY <1>1, <1>2, <1>3, <2>1 DEF ModesOf
  <2>2. ASSUME NEW i \in DOMAIN q, q[i].client = d PROVE q[i].mode \in ModesOf(s, d)
    <3>1. PICK k \in 1..(l - 1) : Was(n, k) = i
      BY <1>1, <1>3, <1>5, <2>2
    <3> QED BY <1>2, <2>2, <3>1 DEF ModesOf
  <2>3. ModesOf(s, d) = ModesOf(q, d)
    BY <2>1, <2>2 DEF ModesOf
  <2> QED BY <1>5, <2>3 DEF s
<1> QED
  BY <1>4, <1>5

LEMMA AppendedModes ==
  ASSUME NEW q \in Seq(Seat), NEW seat \in Seat, seat.client \notin ClientsOf(q), NEW d
  PROVE  ModesOf(Append(q, seat), d) = IF d = seat.client THEN {seat.mode} ELSE ModesOf(q, d)
<1> DEFINE s == Append(q, seat)
           l == Len(q)
           c == seat.client
<1>2. l \in Nat /\ DOMAIN q = 1..l
  BY LenProperties
<1>3. /\ s \in Seq(Seat) /\ Len(s) = l + 1
      /\ \A k \in 1..l : s[k] = q[k]
      /\ s[l + 1] = seat
  BY AppendProperties
<1>4. DOMAIN s = (1..l) \union {l + 1}
  BY <1>2, <1>3, LenProperties
<1> HIDE DEF s, l
<1>5. \A k \in DOMAIN q : q[k].client # c
  BY DEF ClientsOf
<1>6. CASE d = c
  BY <1>2, <1>3, <1>4, <1>5, <1>6 DEF ModesOf, s
<1>7. CASE d # c
  <2>1. {k \in DOMAIN s : s[k].client = d} = {k \in DOMAIN q : q[k].client = d}
    BY <1>2, <1>3, <1>4, <1>7
  <2>2. \A k \in DOMAIN q : s[k].mode = q[k].mode
    BY <1>2, <1>3
  <2>3. ModesOf(s, d) = ModesOf(q, d)
    BY <2>1, <2>2 DEF ModesOf
  <2> QED BY <1>7, <2>3 DEF s
<1> QED
  BY <1>6, <1>7

LEMMA SeatForModes ==
  ASSUME NEW q \in Seq(Seat), NEW c \in Client, NEW mode \in Mode, OneSeatEach(q), NEW d
  PROVE  ModesOf(SeatFor(q, c, mode), d) = IF d = c THEN {mode} ELSE ModesOf(q, d)
<1> DEFINE seat == [client |-> c, mode |-> mode]
<1>1. CASE c \notin ClientsOf(q)
  <2>1. SeatFor(q, c, mode) = Append(q, seat)
    BY <1>1 DEF SeatFor, ClientsOf
  <2>2. seat \in Seat /\ seat.client = c /\ seat.mode = mode
    BY DEF Seat
  <2> HIDE DEF seat
  <2> QED BY <1>1, <2>1, <2>2, AppendedModes
<1>2. CASE c \in ClientsOf(q)
  <2> DEFINE s == [n \in DOMAIN q |-> IF q[n].client = c THEN [q[n] EXCEPT !.mode = mode] ELSE q[n]]
  <2>1. SeatFor(q, c, mode) = s
    BY <1>2 DEF SeatFor, ClientsOf
  <2>2. \A n \in DOMAIN q : q[n] \in Seat
    BY LenProperties, ElementOfSeq
  <2>3. /\ DOMAIN s = DOMAIN q
        /\ \A n \in DOMAIN q : /\ s[n].client = q[n].client
                               /\ s[n].mode = IF q[n].client = c THEN mode ELSE q[n].mode
    BY <2>2 DEF Seat
  <2> HIDE DEF s
  <2>4. \E n \in DOMAIN q : q[n].client = c
    BY <1>2 DEF ClientsOf
  <2>5. ModesOf(s, d) = IF d = c THEN {mode} ELSE ModesOf(q, d)
    <3>1. CASE d = c
      BY <2>3, <2>4, <3>1 DEF ModesOf
    <3>2. CASE d # c
      BY <2>3, <3>2 DEF ModesOf
    <3> QED BY <3>1, <3>2
  <2> QED BY <2>1, <2>5
<1> QED
  BY <1>1, <1>2

LEMMA UnseatModes ==
  ASSUME TypeQueue, SeatInv, NEW c \in Client, Unseat(c)
  PROVE  \A d \in Client : ModesOf(queue', d) = IF d = c THEN {} ELSE ModesOf(queue, d)
<1>1. CASE queueing[c]
  <2>1. Seated(c) # {}
    BY <1>1 DEF SeatInv, ClientsOf, Seated
  <2>2. PICK n \in Seated(c) : queue' = RemoveSeat(queue, n)
    BY <1>1, <2>1 DEF Unseat
  <2>3. n \in DOMAIN queue /\ queue[n].client = c
    BY DEF Seated
  <2> QED BY <2>2, <2>3, RemovedModes DEF TypeQueue, SeatInv
<1>2. CASE ~queueing[c]
  <2>1. queue' = queue /\ c \notin ClientsOf(queue)
    BY <1>2 DEF Unseat, SeatInv
  <2> QED BY <2>1, NoSeatNoModes
<1> QED
  BY <1>1, <1>2

(* A pass takes out two that wait for the same mode *)
LEMMA PairModes ==
  ASSUME TypeClients, TypeQueue, SeatInv, NEW p \in Pairs(queue),
         queue' = RemoveSeat(RemoveSeat(queue, p[2]), p[1])
  PROVE  LET a == queue[p[1]].client
             b == queue[p[2]].client
         IN /\ a \in Client /\ b \in Client /\ a # b /\ queue[p[1]].mode \in Mode
            /\ ModesOf(queue, a) = {queue[p[1]].mode} /\ ModesOf(queue, b) = {queue[p[1]].mode}
            /\ \A d \in Client : ModesOf(queue', d) = IF d \in {a, b} THEN {} ELSE ModesOf(queue, d)
<1> DEFINE a == queue[p[1]].client
           b == queue[p[2]].client
           q == RemoveSeat(queue, p[2])
<1>1. /\ p[1] \in DOMAIN queue /\ p[2] \in DOMAIN queue /\ p[1] < p[2]
      /\ queue[p[2]].mode = queue[p[1]].mode
  BY DEF Pairs
<1>2. Len(queue) \in Nat /\ DOMAIN queue = 1..Len(queue)
  BY LenProperties DEF TypeQueue
<1>3. queue[p[1]] \in Seat /\ queue[p[2]] \in Seat
  BY <1>1, <1>2, ElementOfSeq DEF TypeQueue
<1>4. a \in Client /\ b \in Client /\ queue[p[1]].mode \in Mode
  BY <1>3 DEF Seat
<1>5. a # b
  BY <1>1, <1>2 DEF SeatInv, OneSeatEach
<1>6. q \in Seq(Seat) /\ OneSeatEach(q)
  BY <1>1, RemoveSeatType, RemoveSeatLeaves DEF TypeQueue, SeatInv
<1>7. p[1] \in DOMAIN q /\ q[p[1]].client = a
  <2>1. p[1] \in 1..(Len(queue) - 1) /\ Was(p[2], p[1]) = p[1]
    BY <1>1, <1>2 DEF Was
  <2> QED BY <1>1, <2>1, RemovedSeats DEF TypeQueue
<1>8. \A d \in Client : ModesOf(q, d) = IF d = b THEN {} ELSE ModesOf(queue, d)
  BY <1>1, RemovedModes, Zenon DEF TypeQueue, SeatInv
<1>9. queue' = RemoveSeat(q, p[1])
  OBVIOUS
<1> HIDE DEF q
<1>10. \A d \in Client : ModesOf(queue', d) = IF d = a THEN {} ELSE ModesOf(q, d)
  <2>1. \A d \in Client : ModesOf(RemoveSeat(q, p[1]), d)
                            = IF d = q[p[1]].client THEN {} ELSE ModesOf(q, d)
    BY <1>6, <1>7, RemovedModes, Zenon
  <2> QED BY <1>7, <1>9, <2>1, Zenon
<1>11. /\ {k \in DOMAIN queue : queue[k].client = a} = {p[1]}
       /\ {k \in DOMAIN queue : queue[k].client = b} = {p[2]}
  BY <1>1 DEF SeatInv, OneSeatEach
<1>12. ModesOf(queue, a) = {queue[p[1]].mode} /\ ModesOf(queue, b) = {queue[p[1]].mode}
  BY <1>1, <1>11 DEF ModesOf
<1> QED
  BY <1>4, <1>5, <1>8, <1>10, <1>12

(* The links that can be claimed, and what is done to them *)
Claimable(p) == {u \in Reserved : entry[u].pid = p /\ entry[u].match = None}

LEMMA OneLink ==
  ASSUME ReservationIndexesAgree, NEW t \in Reserved
  PROVE  /\ \A u \in Reserved : entry[u].pid = entry[t].pid => u = t
         /\ \A p \in Player : open[p] = t => p = entry[t].pid
<1>1. t # None
  BY HubAssumption DEF Reserved
<1> QED
  BY <1>1 DEF ReservationIndexesAgree

LEMMA InvitesPut ==
  ASSUME NEW S, NEW v, \A p \in Player : Invites'[p] = IF p \in S THEN v ELSE Invites[p]
  PROVE  Invites' = Promise!Put(Invites, S, v)
<1>1. Invites = [p \in Player |-> Invites[p]] /\ Invites' = [p \in Player |-> Invites'[p]]
  BY DEF Invites
<1>2. DOMAIN Invites = Player
  BY DEF Invites
<1> QED
  BY <1>1, <1>2 DEF Promise!Put

ModesIn(e, S) == {e[t].mode : t \in S}

LEMMA ModesSame ==
  ASSUME NEW e, NEW f, NEW S, \A t \in S : e[t] = f[t]
  PROVE  ModesIn(e, S) = ModesIn(f, S)
BY DEF ModesIn

LEMMA ModesFew == \A e : ModesIn(e, {}) = {} /\ \A t : ModesIn(e, {t}) = {e[t].mode}
BY DEF ModesIn

LEMMA InvitesAre ==
  \A p \in Player : /\ Invites[p] = ModesIn(entry, Claimable(p))
                    /\ Invites'[p] = ModesIn(entry', Claimable(p)')
BY DEF Invites, Claimable, ModesIn

LEMMA DropInvites ==
  ASSUME TypeChallenges, ReservationIndexesAgree, NEW players \in SUBSET Player,
         NEW m \in Match \union {None}, Drop(players, m)
  PROVE  Invites' = Promise!Put(Invites, players, {})
<1> DEFINE own == {open[p] : p \in players}
           spent == {t \in Reserved \ own : m # None /\ entry[t].match = m}
           gone == own \union spent
<1>1. entry' = [t \in Token |-> IF t \in gone THEN None ELSE entry[t]]
  BY DEF Drop
<1>2. \A t \in Reserved : t \in gone => entry[t].pid \in players \/ entry[t].match # None
  BY OneLink
<1>3. \A t \in Reserved : entry[t].pid \in players => t \in gone
  BY DEF ReservationIndexesAgree
<1> HIDE DEF gone
<1>4. \A t \in Token : entry'[t] = IF t \in gone THEN None ELSE entry[t]
  BY <1>1
<1>5. ASSUME NEW p \in Player
      PROVE  /\ p \in players => Claimable(p)' = {}
             /\ p \notin players => Claimable(p)' = Claimable(p)
  BY <1>2, <1>3, <1>4 DEF Claimable, Reserved
<1>6. \A p \in Player : \A t \in Claimable(p)' : entry'[t] = entry[t]
  BY <1>4 DEF Claimable, Reserved
<1>7. ASSUME NEW p \in Player
      PROVE  Invites'[p] = IF p \in players THEN {} ELSE Invites[p]
  <2>1. Invites'[p] = ModesIn(entry, Claimable(p)')
    BY <1>6, ModesSame, InvitesAre
  <2> QED BY <1>5, <2>1, ModesFew, InvitesAre
<1> QED
  BY <1>7, InvitesPut

LEMMA MintInvites ==
  ASSUME TypeChallenges, ReservationIndexesAgree, NEW p \in Player, open[p] = None, Mint(p)
  PROVE  \E mode \in Mode : Invites' = Promise!Put(Invites, {p}, {mode})
<1>1. PICK t \in Token \ Reserved, mode \in Mode :
        entry' = [entry EXCEPT ![t] = [pid |-> p, mode |-> mode, match |-> None]]
  BY DEF Mint
<1> DEFINE new == [pid |-> p, mode |-> mode, match |-> None]
<1>2. new # None /\ new.pid = p /\ new.mode = mode /\ new.match = None
  <2>1. new \in Entry
    BY DEF Entry
  <2> QED BY <2>1, NoneAssumption
<1> HIDE DEF new
<1>3. \A k \in Token : entry'[k] = IF k = t THEN new ELSE entry[k]
  BY <1>1 DEF TypeChallenges, new
<1>4. \A k \in Reserved : entry[k].pid # p
  <2>1. \A k \in Reserved : k # None
    BY HubAssumption DEF Reserved
  <2> QED BY <2>1 DEF ReservationIndexesAgree
<1>5. ASSUME NEW o \in Player
      PROVE  Claimable(o)' = IF o = p THEN {t} ELSE Claimable(o)
  BY <1>1, <1>2, <1>3, <1>4 DEF Claimable, Reserved
<1>6. \A o \in Player : \A k \in Claimable(o) : entry'[k] = entry[k]
  BY <1>1, <1>3 DEF Claimable, Reserved
<1>7. ASSUME NEW o \in Player
      PROVE  Invites'[o] = IF o \in {p} THEN {mode} ELSE Invites[o]
  <2>1. ModesIn(entry', Claimable(o)) = ModesIn(entry, Claimable(o))
    BY <1>6, ModesSame
  <2>2. entry'[t].mode = mode
    BY <1>1, <1>2, <1>3
  <2> QED BY <1>5, <2>1, <2>2, ModesFew, InvitesAre
<1> QED
  BY <1>7, InvitesPut

LEMMA RemintInvites ==
  ASSUME TypeChallenges, ReservationIndexesAgree, NEW p \in Player, open[p] # None, Remint(p)
  PROVE  Invites' = Invites \/ \E mode \in Mode : Invites' = Promise!Put(Invites, {p}, {mode})
<1> DEFINE t == open[p]
<1>1. PICK mode \in Mode : entry' = [entry EXCEPT ![t].mode = mode]
  BY DEF Remint
<1>2. t \in Reserved /\ entry[t].pid = p
  BY DEF ReservationIndexesAgree
<1> HIDE DEF t
<1>3. t \in Token /\ entry[t] \in Entry
  BY <1>2 DEF Reserved, TypeChallenges
<1>4. entry'[t] = [entry[t] EXCEPT !.mode = mode] /\ \A k \in Token \ {t} : entry'[k] = entry[k]
  BY <1>1, <1>3 DEF TypeChallenges
<1>5. /\ entry'[t].pid = p /\ entry'[t].mode = mode /\ entry'[t].match = entry[t].match
      /\ entry'[t] \in Entry
  BY <1>2, <1>3, <1>4 DEF Entry
<1>6. ASSUME NEW o \in Player PROVE Claimable(o)' = Claimable(o)
  <2>1. \A k \in Token : /\ k \in Reserved' <=> k \in Reserved
                         /\ k \in Reserved => /\ entry'[k].pid = entry[k].pid
                                              /\ entry'[k].match = entry[k].match
    BY <1>2, <1>4, <1>5, NoneAssumption DEF Reserved
  <2> QED BY <2>1 DEF Claimable, Reserved
<1>7. ASSUME NEW o \in Player, t \notin Claimable(o) PROVE Invites'[o] = Invites[o]
  <2>1. \A k \in Claimable(o) : entry'[k] = entry[k]
    BY <1>4, <1>7 DEF Claimable, Reserved
  <2> QED BY <1>6, <2>1, ModesSame, InvitesAre
<1>8. \A o \in Player : t \in Claimable(o) => o = p
  BY <1>2 DEF Claimable
<1>9. CASE t \in Claimable(p)
  <2>1. Claimable(p) = {t}
    BY <1>2, <1>9, OneLink DEF Claimable
  <2>2. Invites'[p] = {mode}
    BY <1>5, <1>6, <2>1, ModesFew, InvitesAre
  <2>3. \A o \in Player : Invites'[o] = IF o \in {p} THEN {mode} ELSE Invites[o]
    BY <1>7, <1>8, <2>2
  <2> QED BY <2>3, InvitesPut
<1>10. CASE t \notin Claimable(p)
  <2>1. \A o \in Player : Invites'[o] = Invites[o]
    BY <1>7, <1>8, <1>10
  <2> QED BY <2>1 DEF Invites
<1> QED
  BY <1>9, <1>10

LEMMA JoinInvites ==
  ASSUME TypeChallenges, ReservationIndexesAgree, NEW t \in Reserved, NEW m \in Match,
         entry[t].match = None, entry' = [entry EXCEPT ![t].match = m]
  PROVE  /\ Invites' = Promise!Put(Invites, {entry[t].pid}, {})
         /\ Invites[entry[t].pid] = {entry[t].mode} /\ entry[t].mode \in Mode
<1>1. t \in Token /\ entry[t] \in Entry /\ m # None
  BY HubAssumption DEF Reserved, TypeChallenges
<1> DEFINE p == entry[t].pid
<1>2. p \in Player /\ entry[t].mode \in Mode
  BY <1>1 DEF Entry
<1>3. entry'[t] = [entry[t] EXCEPT !.match = m] /\ \A k \in Token \ {t} : entry'[k] = entry[k]
  BY <1>1 DEF TypeChallenges
<1>4. entry'[t].match = m /\ Claimable(p) = {t}
  BY <1>1, <1>3, OneLink DEF Entry, Claimable
<1>5. \A o \in Player : Claimable(o)' = Claimable(o) \ {t}
  BY <1>1, <1>3, <1>4 DEF Claimable, Reserved
<1>6. \A o \in Player \ {p} : t \notin Claimable(o)
  BY DEF Claimable
<1>7. \A o \in Player : \A k \in Claimable(o) \ {t} : entry'[k] = entry[k]
  BY <1>3 DEF Claimable, Reserved
<1> HIDE DEF p
<1>8. ASSUME NEW o \in Player PROVE Invites'[o] = IF o \in {p} THEN {} ELSE Invites[o]
  <2> DEFINE left == Claimable(o) \ {t}
  <2>0. \A k \in left : entry'[k] = entry[k]
    BY <1>7
  <2> HIDE DEF left
  <2>1. ModesIn(entry', left) = ModesIn(entry, left)
    BY <2>0 DEF ModesIn
  <2> USE DEF left
  <2>2. Claimable(o) \ {t} = IF o = p THEN {} ELSE Claimable(o)
    BY <1>4, <1>6
  <2> QED BY <1>5, <2>1, <2>2, ModesFew, InvitesAre
<1>9. Invites[p] = {entry[t].mode}
  BY <1>2, <1>4, ModesFew, InvitesAre
<1> QED
  BY <1>2, <1>8, <1>9, InvitesPut DEF p

(* The games that are live for a client: with PlaceInv, one at most *)
LEMMA GamesAre ==
  ASSUME PlaceInv, NEW c \in Client
  PROVE  /\ cmatch[c] = None => Plays[c] = {}
         /\ \A m \in Match : reg[c] /\ LiveFor(m, c) => Plays[c] = {GameOf(m)}
         /\ \A m \in Match : c \in Promise!Of(m) <=> reg[c] /\ LiveFor(m, c)
<1>1. \A m \in Match : reg[c] /\ LiveFor(m, c) => cmatch[c] = m
  BY DEF PlaceInv, LiveClaims
<1>2. \A m \in Match : m # None
  BY HubAssumption
<1>3. Plays[c] = IF reg[c] THEN GamesOf(c) ELSE {}
  BY DEF Plays
<1>4. \A m \in Match : reg[c] /\ LiveFor(m, c) => {k \in Match : LiveFor(k, c)} = {m}
  BY <1>1
<1>5. \A m \in Match : reg[c] /\ LiveFor(m, c) => Plays[c] = {GameOf(m)}
  BY <1>3, <1>4 DEF GamesOf
<1>6. cmatch[c] = None => Plays[c] = {}
  BY <1>1, <1>2, <1>3 DEF GamesOf
<1>7. ASSUME NEW m \in Match, NEW g \in Plays[c], g.match = m PROVE reg[c] /\ LiveFor(m, c)
  BY <1>3, <1>7 DEF GamesOf, GameOf
<1>8. ASSUME NEW m \in Match PROVE c \in Promise!Of(m) <=> reg[c] /\ LiveFor(m, c)
  <2> DEFINE g == GameOf(m)
  <2>1. g.match = m
    BY DEF GameOf
  <2>2. reg[c] /\ LiveFor(m, c) => g \in Plays[c]
    BY <1>5
  <2> HIDE DEF g
  <2> QED BY <1>7, <2>1, <2>2 DEF Promise!Of
<1> QED
  BY <1>5, <1>6, <1>8

LEMMA WaitsPut ==
  ASSUME UNCHANGED reg, NEW S, NEW v,
         \A d \in Client : reg[d] => ModesOf(queue', d) = IF d \in S THEN v ELSE ModesOf(queue, d),
         \A d \in S \intersect Client : reg[d] \/ v = {}
  PROVE  Waits' = Promise!Put(Waits, S, v)
BY DEF Waits, Promise!Put

LEMMA PlaysPut ==
  ASSUME NEW S, NEW v, \A d \in Client : Plays'[d] = IF d \in S THEN v ELSE Plays[d]
  PROVE  Plays' = Promise!Put(Plays, S, v)
<1>1. Plays' = [d \in Client |-> Plays'[d]] /\ DOMAIN Plays = Client
  BY DEF Plays
<1> QED
  BY <1>1 DEF Promise!Put

LEMMA SameGames ==
  ASSUME UNCHANGED reg, \A m \in Match, c \in Client : LiveFor(m, c)' <=> LiveFor(m, c),
         \A m \in Match, c \in Client : LiveFor(m, c) => GameOf(m)' = GameOf(m)
  PROVE  UNCHANGED Plays
<1>1. ASSUME NEW c \in Client PROVE GamesOf(c)' = GamesOf(c)
  <2>1. {m \in Match : LiveFor(m, c)'} = {m \in Match : LiveFor(m, c)}
    OBVIOUS
  <2> QED BY <2>1 DEF GamesOf
<1> QED
  BY <1>1 DEF Plays

(* makeMatch and startMatchLocked, between clients that are in no game *)
LEMMA StartPlays ==
  ASSUME TypeMatches, PlaceInv, NEW m \in Match, NEW kind, NEW mode, NEW a \in Client,
         NEW b \in Client \union {None}, Start(m, kind, mode, a, b), UNCHANGED reg,
         \A c \in {a, b} \ {None} : Plays[c] = {},
         \A d \in Client : reg[d] =>
            ModesOf(queue', d) = IF d \in {a, b} THEN {} ELSE ModesOf(queue, d)
  PROVE  Promise!Play(m, kind, mode, {a, b} \ {None})
<1>1. /\ match[m].stage = "free" /\ match'[m].stage = "running"
      /\ match'[m].side[0] = a /\ match'[m].side[1] = b
      /\ match'[m].kind = kind /\ match'[m].mode = mode
      /\ \A k \in Match \ {m} : match'[k] = match[k]
  BY StartRecord
<1> DEFINE sides == {a, b} \ {None}
           game == [match |-> m, kind |-> kind, mode |-> mode]
<1>2. \A c \in Client : c \in {a, b} <=> c \in sides
  BY HubAssumption
<1>3. \A c \in Client : ~LiveFor(m, c) /\ (LiveFor(m, c)' <=> c \in {a, b})
  BY <1>1 DEF LiveFor, Side
<1>4. \A k \in Match \ {m}, c \in Client : LiveFor(k, c)' <=> LiveFor(k, c)
  BY <1>1 DEF LiveFor
<1>5. Promise!Of(m) = {}
  BY <1>3, GamesAre DEF Promise!Of
<1>6. \A c \in sides : Promise!Free(c)
  BY DEF Promise!Free
<1>7. ASSUME NEW c \in Client
      PROVE  Plays'[c] = IF c \in sides \intersect Live THEN {game} ELSE Plays[c]
  <2>1. Plays'[c] = IF reg[c] THEN GamesOf(c)' ELSE {}
    BY DEF Plays
  <2>2. Plays[c] = IF reg[c] THEN GamesOf(c) ELSE {}
    BY DEF Plays
  <2>3. CASE reg[c] /\ c \in sides
    <3>1. Plays[c] = {}
      BY <2>3
    <3>2. \A k \in Match : ~LiveFor(k, c)
      BY <2>3, <3>1, GamesAre
    <3>3. {k \in Match : LiveFor(k, c)'} = {m}
      BY <1>2, <1>3, <1>4, <2>3, <3>2
    <3>4. GamesOf(c)' = {game}
      BY <1>1, <3>3 DEF GamesOf, GameOf
    <3> QED BY <2>1, <2>3, <3>4 DEF Live
  <2>4. CASE reg[c] /\ c \notin sides
    <3>1. {k \in Match : LiveFor(k, c)'} = {k \in Match : LiveFor(k, c)}
      BY <1>2, <1>3, <1>4, <2>4
    <3>2. \A k \in {j \in Match : LiveFor(j, c)} : GameOf(k)' = GameOf(k)
      BY <1>1, <1>3 DEF GameOf
    <3>3. GamesOf(c)' = GamesOf(c)
      BY <3>1, <3>2 DEF GamesOf
    <3> QED BY <2>1, <2>2, <2>4, <3>3 DEF Live
  <2>5. CASE ~reg[c]
    BY <2>1, <2>2, <2>5 DEF Live
  <2> QED BY <2>3, <2>4, <2>5
<1> HIDE DEF game
<1>8. Plays' = Promise!Put(Plays, sides \intersect Live, {game})
  BY <1>7, PlaysPut
<1>9. Waits' = Promise!Put(Waits, sides, {})
  BY <1>2, WaitsPut
<1>10. Live' = Live
  BY DEF Live
<1> QED
  BY <1>5, <1>6, <1>8, <1>9, <1>10 DEF Promise!Play, game

(* A match that moves on is over for the sides it is live for no more *)
LEMMA NarrowedPlays ==
  ASSUME PlaceInv, NEW m \in Match, UNCHANGED reg,
         \A k \in Match, c \in Client : LiveFor(k, c)' => LiveFor(k, c),
         \A k \in Match \ {m} : match'[k] = match[k],
         \A k \in Match : GameOf(k)' = GameOf(k),
         NEW S, S = {c \in Client : reg[c] /\ LiveFor(m, c) /\ ~LiveFor(m, c)'}
  PROVE  S \subseteq Promise!Of(m) /\ Plays' = Promise!Put(Plays, S, {})
<1>1. S \subseteq Promise!Of(m)
  BY GamesAre DEF Promise!Of
<1>2. \A k \in Match \ {m}, c \in Client : LiveFor(k, c)' <=> LiveFor(k, c)
  BY DEF LiveFor
<1>3. ASSUME NEW c \in Client
      PROVE  Plays'[c] = IF c \in S THEN {} ELSE Plays[c]
  <2>1. Plays'[c] = IF reg[c] THEN GamesOf(c)' ELSE {}
    BY DEF Plays
  <2>2. Plays[c] = IF reg[c] THEN GamesOf(c) ELSE {}
    BY DEF Plays
  <2>3. CASE c \in S
    <3>1. \A k \in Match : ~LiveFor(k, c)'
      BY <2>3 DEF PlaceInv, LiveClaims
    <3>2. GamesOf(c)' = {}
      BY <3>1 DEF GamesOf
    <3> QED BY <2>1, <2>3, <3>2
  <2>4. CASE c \notin S /\ reg[c]
    <3>1. {k \in Match : LiveFor(k, c)'} = {k \in Match : LiveFor(k, c)}
      BY <1>2, <2>4
    <3>2. GamesOf(c)' = GamesOf(c)
      BY <3>1 DEF GamesOf
    <3> QED BY <2>1, <2>2, <2>4, <3>2
  <2>5. CASE c \notin S /\ ~reg[c]
    BY <2>1, <2>2, <2>5
  <2> QED BY <2>3, <2>4, <2>5
<1> QED
  BY <1>1, <1>3, PlaysPut

-----------------------------------------------------------------------------
(* What each operation of the hub is to Matchmaking.                           *)

LEMMA NoLink ==
  ASSUME ReservationIndexesAgree, NEW p \in Player, open[p] = None
  PROVE  Invites[p] = {}
<1>1. \A t \in Reserved : t # None
  BY HubAssumption DEF Reserved
<1>2. Claimable(p) = {}
  BY <1>1 DEF ReservationIndexesAgree, Claimable
<1> QED
  BY <1>2, ModesFew, InvitesAre

LEMMA Unmoved ==
  /\ UNCHANGED reg => UNCHANGED Live
  /\ UNCHANGED <<reg, queue>> => UNCHANGED Waits
  /\ UNCHANGED <<reg, match>> => UNCHANGED Plays
  /\ UNCHANGED entry => UNCHANGED Invites
BY DEF Live, Waits, Plays, GamesOf, GameOf, LiveFor, Invites, Reserved

LEMMA UnseatWaits ==
  ASSUME TypeQueue, SeatInv, NEW c \in Client, Unseat(c), UNCHANGED reg
  PROVE  Waits' = Promise!Put(Waits, {c}, {})
<1>1. \A d \in Client : ModesOf(queue', d) = IF d \in {c} THEN {} ELSE ModesOf(queue, d)
  BY UnseatModes
<1> QED
  BY <1>1, WaitsPut

LEMMA SeatlessWaits ==
  ASSUME SeatInv, NEW c \in Client, reg[c] => ~queueing[c], UNCHANGED seats, UNCHANGED reg
  PROVE  Waits' = Promise!Put(Waits, {c}, {})
<1>1. reg[c] => ModesOf(queue, c) = {}
  BY NoSeatNoModes DEF SeatInv
<1>2. \A d \in Client : reg[d] =>
        ModesOf(queue', d) = IF d \in {c} THEN {} ELSE ModesOf(queue, d)
  BY <1>1 DEF seats
<1> QED
  BY <1>2, WaitsPut

LEMMA ConnectArrives ==
  ASSUME TypeClients, TypeMatches, SeatInv, NEW c \in Client, Connect(c)
  PROVE  Promise!Arrive(c)
<1>1. /\ ~reg[c] /\ ~Referenced(c) /\ UNCHANGED <<seats, challenges, match>>
      /\ \A d \in Client : reg'[d] = (d = c \/ reg[d])
  BY DEF Connect, TypeClients
<1>2. ModesOf(queue, c) = {}
  <2>1. c \notin ClientsOf(queue)
    BY <1>1 DEF Referenced, Seated, ClientsOf
  <2> QED BY <2>1, NoSeatNoModes
<1>3. \A m \in Match : ~LiveFor(m, c)
  <2> SUFFICES ASSUME NEW m \in Match, LiveFor(m, c) PROVE FALSE
    OBVIOUS
  <2>1. m \in Started /\ c \in SidesOf(m)
    BY Sides DEF LiveFor, Started
  <2> QED BY <1>1, <2>1 DEF Referenced
<1>4. \A d \in Client : GamesOf(d)' = GamesOf(d)
  BY <1>1 DEF GamesOf, GameOf, LiveFor
<1>5. GamesOf(c) = {}
  BY <1>3 DEF GamesOf
<1>6. UNCHANGED <<Waits, Plays>>
  BY <1>1, <1>2, <1>4, <1>5 DEF Waits, Plays, seats
<1>7. c \notin Live /\ Live' = Live \union {c}
  BY <1>1 DEF Live
<1> QED
  BY <1>1, <1>6, <1>7, Unmoved DEF Promise!Arrive, challenges

LEMMA RemoveDeparts ==
  ASSUME TypeClients, TypeQueue, SeatInv, NEW c \in Client, Remove(c)
  PROVE  Promise!Depart(c)
<1>1. /\ reg[c] /\ UNCHANGED <<challenges, match>> /\ Unseat(c)
      /\ \A d \in Client : reg'[d] = (d # c /\ reg[d])
  BY DEF Remove, TypeClients
<1>2. \A d \in Client : ModesOf(queue', d) = IF d = c THEN {} ELSE ModesOf(queue, d)
  BY <1>1, UnseatModes
<1>3. \A d \in Client : GamesOf(d)' = GamesOf(d)
  BY <1>1 DEF GamesOf, GameOf, LiveFor
<1>4. Waits' = Promise!Put(Waits, {c}, {}) /\ Plays' = Promise!Put(Plays, {c}, {})
  BY <1>1, <1>2, <1>3 DEF Waits, Plays, Promise!Put
<1>5. c \in Live /\ Live' = Live \ {c}
  BY <1>1 DEF Live
<1> QED
  BY <1>1, <1>4, <1>5, Unmoved DEF Promise!Depart, challenges

LEMMA QueueWaits ==
  ASSUME HubInv, SeatInv, PlaceInv, NEW c \in Client, HandleQueue(c), ~Refused
  PROVE  UNCHANGED Promise!places \/ \E mode \in Mode : Promise!Wait(c, mode)
<1> USE DEF HubInv, HubType, TypeOK
<1>1. PICK mode \in Mode : queue' = SeatFor(queue, c, mode)
  BY DEF HandleQueue
<1>2. cmatch[c] = None /\ open[PidOf[c]] = None /\ UNCHANGED <<registry, challenges, cmatch, match>>
  BY QueueSeats
<1>3. UNCHANGED <<Live, Plays, Invites>>
  BY <1>2, Unmoved DEF registry, challenges
<1>4. \A d \in Client : ModesOf(queue', d) = IF d \in {c} THEN {mode} ELSE ModesOf(queue, d)
  BY <1>1, SeatForModes DEF TypeQueue, SeatInv
<1>5. CASE reg[c]
  <2>1. Waits' = Promise!Put(Waits, {c}, {mode})
    BY <1>2, <1>4, <1>5, WaitsPut DEF registry
  <2>2. c \in Live /\ Promise!Free(c) /\ Invites[PidOf[c]] = {}
    BY <1>2, <1>5, GamesAre, NoLink, HubAssumption DEF Live, Promise!Free
  <2> QED BY <1>3, <2>1, <2>2 DEF Promise!Wait
<1>6. CASE ~reg[c]
  <2>1. UNCHANGED Waits
    BY <1>2, <1>4, <1>6 DEF Waits, registry
  <2> QED BY <1>3, <2>1 DEF Promise!places
<1> QED
  BY <1>5, <1>6

LEMMA CancelWithdraws ==
  ASSUME HubInv, SeatInv, NEW c \in Client, HandleCancel(c)
  PROVE  Promise!Withdraw(c)
<1> USE DEF HubInv, HubType, TypeOK
<1>1. Unseat(c) /\ Drop({PidOf[c]}, None) /\ UNCHANGED <<registry, match>>
  BY DEF HandleCancel
<1>2. {PidOf[c]} \in SUBSET Player
  BY HubAssumption
<1>3. Invites' = Promise!Put(Invites, {PidOf[c]}, {})
  BY <1>1, <1>2, DropInvites
<1> QED
  BY <1>1, <1>3, UnseatWaits, Unmoved DEF Promise!Withdraw, registry

LEMMA ChallengeInvites ==
  ASSUME HubInv, SeatInv, PlaceInv, NEW c \in Client, HandleChallenge(c)
  PROVE  UNCHANGED Promise!places \/ Promise!Invite(c)
<1> USE DEF HubInv, HubType, TypeOK
<1>1. PidOf[c] \in Player
  BY HubAssumption
<1>2. UNCHANGED <<registry, cmatch, match>>
  BY DEF HandleChallenge
<1>3. UNCHANGED <<Live, Plays>>
  BY <1>2, Unmoved DEF registry
<1>4. CASE UNCHANGED <<seats, challenges>>
  BY <1>2, <1>3, <1>4, Unmoved DEF Promise!places, registry, seats, challenges
<1>5. CASE cmatch[c] = None /\ open[PidOf[c]] # None /\ Remint(PidOf[c]) /\ UNCHANGED seats
  <2>1. reg[c] => ~queueing[c]
    BY <1>5 DEF PlaceInv, OpenIsSeatless
  <2>2. Waits' = Promise!Put(Waits, {c}, {})
    BY <1>2, <1>5, <2>1, SeatlessWaits DEF registry
  <2> QED BY <1>1, <1>3, <1>5, <2>2, RemintInvites, GamesAre DEF Promise!Invite, Promise!Free
<1>6. CASE /\ cmatch[c] = None /\ open[PidOf[c]] = None /\ Unseat(c)
           /\ UNCHANGED challenges \/ Mint(PidOf[c])
  <2>1. Waits' = Promise!Put(Waits, {c}, {})
    BY <1>2, <1>6, UnseatWaits DEF registry
  <2>2. UNCHANGED Invites \/ \E mode \in Mode : Invites' = Promise!Put(Invites, {PidOf[c]}, {mode})
    BY <1>1, <1>6, MintInvites, Unmoved DEF challenges
  <2> QED BY <1>3, <1>6, <2>1, <2>2, GamesAre DEF Promise!Invite, Promise!Free
<1> QED
  BY <1>4, <1>5, <1>6 DEF HandleChallenge

LEMMA CpuIsSolo ==
  ASSUME HubInv, SeatInv, PlaceInv, NEW c \in Client, HandleCPU(c), ~Refused
  PROVE  Promise!Solo(c)
<1> USE DEF HubInv, HubType, TypeOK
<1>1. PICK m \in Match, mode \in Mode : Start(m, "cpu", mode, c, None)
  BY DEF HandleCPU
<1>2. cmatch[c] = None /\ Unseat(c) /\ Drop({PidOf[c]}, None) /\ UNCHANGED registry
  BY DEF HandleCPU
<1>3. {PidOf[c]} \in SUBSET Player
  BY HubAssumption
<1>4. Invites' = Promise!Put(Invites, {PidOf[c]}, {})
  BY <1>2, <1>3, DropInvites
<1>5. {c, None} \ {None} = {c} /\ \A d \in Client : d \in {c, None} <=> d = c
  BY HubAssumption
<1>6. \A d \in Client : ModesOf(queue', d) = IF d \in {c, None} THEN {} ELSE ModesOf(queue, d)
  BY <1>2, <1>5, UnseatModes
<1>7. Plays[c] = {}
  BY <1>2, GamesAre
<1>8. Promise!Play(m, "cpu", mode, {c, None} \ {None})
  BY <1>1, <1>2, <1>5, <1>6, <1>7, StartPlays DEF registry
<1> QED
  BY <1>4, <1>5, <1>8 DEF Promise!Solo

LEMMA JoinClaims ==
  ASSUME HubInv, SeatInv, PlaceInv, NEW c \in Client, HandleJoin(c), ~Refused
  PROVE  \E d \in Client : Promise!Claim(c, d)
<1> USE DEF HubInv, HubType, TypeOK
<1>1. PICK t \in Reserved, d \in Client, m \in Match :
        /\ MayClaim(c, t, d) /\ Unseat(c)
        /\ Start(m, "challenge", entry[t].mode, d, c)
        /\ entry' = [entry EXCEPT ![t].match = m]
        /\ UNCHANGED <<registry, open>>
  BY DEF HandleJoin, MayClaim
<1>2. /\ cmatch[c] = None /\ cmatch[d] = None /\ reg[d] /\ entry[t].match = None
      /\ PidOf[d] = entry[t].pid /\ PidOf[c] # entry[t].pid
  BY <1>1 DEF MayClaim, ConnectionsOf, Live
<1>3. ~queueing[d]
  <2>1. t # None
    BY HubAssumption DEF Reserved
  <2> QED BY <1>2, <2>1 DEF ReservationIndexesAgree, PlaceInv, OpenIsSeatless
<1>4. ModesOf(queue, d) = {}
  BY <1>3, NoSeatNoModes DEF SeatInv
<1>5. Waits[d] = {} /\ d \in Live
  BY <1>2, <1>4 DEF Waits, Live
<1>6. /\ Invites' = Promise!Put(Invites, {PidOf[d]}, {})
      /\ Invites[PidOf[d]] = {entry[t].mode}
  BY <1>1, <1>2, JoinInvites
<1>7. {d, c} \ {None} = {c, d}
  BY HubAssumption
<1>8. \A e \in Client : ModesOf(queue', e) = IF e \in {d, c} THEN {} ELSE ModesOf(queue, e)
  BY <1>1, <1>4, UnseatModes
<1>9. \A e \in {d, c} \ {None} : Plays[e] = {}
  BY <1>2, GamesAre
<1>10. Promise!Play(m, "challenge", entry[t].mode, {d, c} \ {None})
  BY <1>1, <1>8, <1>9, StartPlays DEF registry
<1>11. Promise!Claim(c, d)
  BY <1>2, <1>5, <1>6, <1>7, <1>10 DEF Promise!Claim
<1> QED
  BY <1>11

LEMMA TryPairs ==
  ASSUME HubInv, SeatInv, PlaceInv, TryPair
  PROVE  \E c \in Client, d \in Client : Promise!Pair(c, d)
<1> USE DEF HubInv, HubType, TypeOK
<1>1. PICK p \in Pairs(queue) :
         /\ \E m \in Match : Start(m, "queue", queue[p[1]].mode, queue[p[1]].client, queue[p[2]].client)
         /\ queue' = RemoveSeat(RemoveSeat(queue, p[2]), p[1])
         /\ queueing' = [queueing EXCEPT ![queue[p[1]].client] = FALSE, ![queue[p[2]].client] = FALSE]
  BY DEF TryPair
<1> DEFINE a == queue[p[1]].client
           b == queue[p[2]].client
           mode == queue[p[1]].mode
<1>2. /\ a \in Client /\ b \in Client /\ a # b /\ mode \in Mode
      /\ ModesOf(queue, a) = {mode} /\ ModesOf(queue, b) = {mode}
      /\ \A d \in Client : ModesOf(queue', d) = IF d \in {a, b} THEN {} ELSE ModesOf(queue, d)
  BY <1>1, PairModes
<1>3. queueing[a] /\ queueing[b]
  BY <1>1, PairSeats
<1>4. PICK m \in Match : Start(m, "queue", mode, a, b)
  BY <1>1
<1>5. UNCHANGED <<registry, challenges>>
  BY DEF TryPair
<1> HIDE DEF a, b, mode
<1>6. {a, b} \ {None} = {a, b}
  BY <1>2, HubAssumption
<1>7. ASSUME NEW c \in {a, b} PROVE Plays[c] = {}
  <2>1. c \in Client /\ queueing[c]
    BY <1>2, <1>3
  <2>2. \A k \in Match : ~(reg[c] /\ LiveFor(k, c))
    BY <2>1 DEF PlaceInv, LiveClaims
  <2> QED BY <2>1, <2>2 DEF Plays, GamesOf
<1>8. Promise!Play(m, "queue", mode, {a, b} \ {None})
  BY <1>2, <1>4, <1>5, <1>7, StartPlays DEF registry
<1>9. \A x \in {a, b} \intersect Live : Waits[x] = {mode}
  BY <1>2 DEF Waits, Live
<1>10. UNCHANGED Invites
  BY <1>5, Unmoved DEF challenges
<1>11. Promise!Pair(a, b)
  BY <1>2, <1>6, <1>8, <1>9, <1>10 DEF Promise!Pair
<1> QED
  BY <1>2, <1>11

(* A side whose handshake failed waits again, or only its game is over *)
LEMMA MatchMoves ==
  ASSUME HubInv, SeatInv, PlaceInv, NEW m \in Match,
         HandshakeFails(m) \/ MatchEnds(m) \/ \E i \in Side : Requeue(m, i)
  PROVE  \/ \E sides \in SUBSET Client : Promise!Over(m, sides)
         \/ \E c \in Client : Promise!Requeue(c)
<1> USE DEF HubInv, HubType, TypeOK
<1>1. /\ \A k \in Match, c \in Client : LiveFor(k, c)' => LiveFor(k, c)
      /\ \A k \in Match \ {m} : match'[k] = match[k]
      /\ \A k \in Match : GameOf(k)' = GameOf(k)
      /\ UNCHANGED reg
  BY MovingOnNarrows
<1> DEFINE S == {c \in Client : reg[c] /\ LiveFor(m, c) /\ ~LiveFor(m, c)'}
<1>2. S \in SUBSET Client
  OBVIOUS
<1>3. S \subseteq Promise!Of(m) /\ Plays' = Promise!Put(Plays, S, {})
  BY <1>1, NarrowedPlays
<1>4. UNCHANGED <<Live, Invites>>
  BY <1>1, Unmoved DEF HandshakeFails, MatchEnds, Requeue, challenges
<1>5. CASE UNCHANGED Waits
  <2>1. Promise!Over(m, S)
    BY <1>3, <1>4, <1>5 DEF Promise!Over
  <2> QED BY <1>2, <2>1
<1>6. ASSUME NEW i \in Side, Requeue(m, i), ~UNCHANGED Waits
      PROVE  \E c \in Client : Promise!Requeue(c)
  <2>1. queue' # queue /\ match[m].kind = "queue" /\ match[m].stage # "free"
    BY <1>1, <1>6, Unmoved DEF Requeue, seats
  <2>2. PICK c \in Client, mode \in Mode :
          c = match[m].side[i] /\ mode = match[m].mode /\ TakeSeat(c, mode)
    BY <1>6, <2>1 DEF Requeue, StartedComplete
  <2>3. ~queueing[c] /\ queue' = Append(queue, [client |-> c, mode |-> mode])
    BY <2>1, <2>2 DEF TakeSeat, seats
  <2>4. \A d \in Client : ModesOf(queue', d) = IF d \in {c} THEN {mode} ELSE ModesOf(queue, d)
    <3> DEFINE seat == [client |-> c, mode |-> mode]
    <3>1. seat \in Seat /\ seat.client = c /\ seat.mode = mode
      BY <2>2 DEF Seat
    <3>2. c \notin ClientsOf(queue)
      BY <2>2, <2>3 DEF SeatInv
    <3>3. queue' = Append(queue, seat)
      BY <2>3
    <3> HIDE DEF seat
    <3> QED BY <3>1, <3>2, <3>3, AppendedModes DEF TypeQueue
  <2>5. reg[c]
    BY <1>1, <1>6, <2>2, <2>4 DEF Waits
  <2>6. Waits' = Promise!Put(Waits, {c}, {mode})
    BY <1>1, <2>4, <2>5, WaitsPut
  <2>7. LiveFor(m, c) /\ ~LiveFor(m, c)'
    BY <1>6, <2>2, OfferedIsOver DEF PlaceInv
  <2>8. S = {c}
    <3>1. \A d \in Client \ {c} : LiveFor(m, d) => LiveFor(m, d)'
      <4>1. match[m] \in MatchRecord /\ match[m].stage = "failing" /\ i \in match[m].offers
        BY <1>6 DEF TypeMatches, Requeue
      <4>2. /\ match'[m].side = match[m].side
            /\ match'[m].offers = match[m].offers \ {i}
            /\ match[m].offers # {i} => match'[m].stage = "failing"
        BY <1>6, <4>1 DEF Requeue, TypeMatches, MatchRecord
      <4>3. ASSUME NEW d \in Client \ {c}, LiveFor(m, d) PROVE LiveFor(m, d)'
        <5>1. PICK j \in Side : match[m].side[j] = d /\ j \in match[m].offers
          BY <4>1, <4>3 DEF LiveFor
        <5>2. j # i
          BY <2>2, <5>1
        <5> QED BY <4>2, <5>1, <5>2 DEF LiveFor
      <4> QED BY <4>3
    <3> QED BY <2>2, <2>5, <2>7, <3>1
  <2>9. Plays[c] = {GameOf(m)}
    BY <2>2, <2>5, <2>7, GamesAre
  <2> HIDE DEF S
  <2>10. \E g \in Plays[c] : g.kind = "queue" /\ Waits' = Promise!Put(Waits, {c}, {g.mode})
    <3>1. GameOf(m).kind = "queue" /\ GameOf(m).mode = mode
      BY <2>1, <2>2 DEF GameOf
    <3> QED BY <2>6, <2>9, <3>1
  <2>11. Promise!Requeue(c)
    BY <1>3, <1>4, <2>8, <2>10 DEF Promise!Requeue
  <2> QED BY <2>2, <2>11
<1>7. HandshakeFails(m) \/ MatchEnds(m) => UNCHANGED Waits
  BY <1>1, Unmoved DEF HandshakeFails, MatchEnds, seats
<1> QED
  BY <1>5, <1>6, <1>7

LEMMA FinishLapses ==
  ASSUME HubInv, SeatInv, PlaceInv, NEW m \in Match, Finish(m)
  PROVE  \E sides \in SUBSET Client : Promise!Lapse(sides)
<1> USE DEF HubInv, HubType, TypeOK
<1> DEFINE players == {PidOf[c] : c \in StillIn(m)}
<1>1. /\ match[m].stage = "ending" /\ Drop(players, m)
      /\ match' = [match EXCEPT ![m] = FreeMatch] /\ UNCHANGED <<registry, seats>>
  BY DEF Finish, Spent
<1>2. StillIn(m) \in SUBSET Client
  BY HubAssumption DEF StillIn, SidesOf, TypeMatches, MatchRecord
<1>3. players \in SUBSET Player
  BY <1>2, HubAssumption
<1>4. Invites' = Promise!Put(Invites, players, {})
  <2> HIDE DEF players
  <2> QED BY <1>1, <1>3, DropInvites
<1>5. match'[m].stage = "free" /\ \A k \in Match \ {m} : match'[k] = match[k]
  BY <1>1 DEF TypeMatches, FreeMatch
<1>6. \A c \in Client : ~LiveFor(m, c) /\ ~LiveFor(m, c)'
  BY <1>1, <1>5 DEF LiveFor
<1>7. \A k \in Match, c \in Client : LiveFor(k, c)' <=> LiveFor(k, c)
  BY <1>5, <1>6 DEF LiveFor
<1>8. \A k \in Match, c \in Client : LiveFor(k, c) => GameOf(k)' = GameOf(k)
  BY <1>5, <1>6 DEF GameOf
<1>9. UNCHANGED <<Live, Waits, Plays>>
  BY <1>1, <1>7, <1>8, SameGames, Unmoved DEF registry, seats
<1>10. ASSUME NEW c \in StillIn(m) PROVE Promise!Free(c)
  <2>1. cmatch[c] = m /\ c \in Client
    BY <1>2 DEF StillIn
  <2>2. \A k \in Match : ~(reg[c] /\ LiveFor(k, c))
    BY <1>6, <2>1 DEF PlaceInv, LiveClaims
  <2> QED BY <2>1, <2>2 DEF Plays, GamesOf, Promise!Free
<1>11. Promise!Lapse(StillIn(m))
  BY <1>4, <1>9, <1>10 DEF Promise!Lapse
<1> QED
  BY <1>2, <1>11

LEMMA StepKeepsPromise ==
  HubInv /\ SeatInv /\ PlaceInv /\ [Next]_vars => [Promise!Next]_(Promise!places)
<1> SUFFICES ASSUME HubInv, SeatInv, PlaceInv, [Next]_vars
             PROVE  Promise!Next \/ UNCHANGED Promise!places
  OBVIOUS
<1> USE DEF HubInv, HubType, TypeOK
<1>1. ASSUME UNCHANGED <<reg, seats, challenges, match>> PROVE UNCHANGED Promise!places
  BY <1>1, Unmoved DEF Promise!places, seats, challenges
<1>2. ASSUME NEW c \in Client, Connect(c) \/ Remove(c) PROVE Promise!Next
  BY <1>2, ConnectArrives, RemoveDeparts DEF Promise!Next
<1>3. ASSUME NEW c \in Client, Handle(c) PROVE Promise!Next \/ UNCHANGED Promise!places
  <2>1. CASE Refused
    BY <1>1, <2>1 DEF Refused, registry
  <2>2. CASE ~Refused
    BY <1>3, <2>2, QueueWaits, CancelWithdraws, ChallengeInvites, CpuIsSolo, JoinClaims
       DEF Handle, Promise!Next
  <2> QED BY <2>1, <2>2
<1>4. CASE TryPair
  BY <1>4, TryPairs DEF Promise!Next
<1>5. ASSUME NEW m \in Match, MatchStep(m) PROVE Promise!Next
  BY <1>5, MatchMoves, FinishLapses DEF MatchStep, Promise!Next
<1>6. \/ \E c \in Client : Connect(c) \/ Remove(c) \/ Handle(c)
      \/ TryPair
      \/ \E m \in Match : MatchStep(m)
      \/ UNCHANGED <<reg, seats, challenges, match>>
  BY DEF Next, Cancelled, Resolve, TryDone, vars, registry
<1> QED
  BY <1>1, <1>2, <1>3, <1>4, <1>5, <1>6

LEMMA PromiseInit == Init => Promise!Init
<1> SUFFICES ASSUME Init PROVE Promise!Init
  OBVIOUS
<1>1. Live = {} /\ Waits = [c \in Client |-> {}] /\ Plays = [c \in Client |-> {}]
  BY DEF Init, Live, Waits, Plays
<1>2. Reserved = {}
  BY DEF Init, Reserved
<1>3. Invites = [p \in Player |-> {}]
  BY <1>2 DEF Invites
<1> QED
  BY <1>1, <1>3 DEF Promise!Init

(* The hub implements Matchmaking: whatever its locks, requests in flight,     *)
(* failed handshakes and teardowns do, in whatever order, a connected client   *)
(* goes from place to place as Matchmaking allows.                             *)
THEOREM HubKeepsItsPromise ==
  ASSUME OnePerPlayer
  PROVE  Spec => KeepsItsPromise
<1>1. HubPlaces /\ [Next]_vars => [Promise!Next]_(Promise!places)
  BY StepKeepsPromise DEF HubPlaces
<1> QED
  BY <1>1, PlacesInit, PlacesStep, PromiseInit, PTL DEF Spec, KeepsItsPromise, Promise!Spec
=============================================================================
