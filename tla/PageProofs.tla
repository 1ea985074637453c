----------------------------- MODULE PageProofs -----------------------------
(* The page against the server (Page.tla): that screen and seat agree, for     *)
(* every number of rounds, frames, requests, matches, breaks and losses.       *)
EXTENDS Page, SequenceTheorems, TLAPS

-----------------------------------------------------------------------------
(* The screen machine: where an event leads, and which screens have an edge    *)
(* for it.                                                                     *)
InGame == {"matched", "countdown", "shoot", "locked"}
Screens == State \ {"ladder"}

Leads(ev, to) ==
    /\ ev # "climb" => to \in Screens
    /\ ev \in {"snapshot:idle", "cancel", "stateIdle", "mode"} => to = "lobby"
    /\ ev \in {"snapshot:waiting", "waiting", "queue", "rematch:online"} => to = "waiting"
    /\ ev \in {"snapshot:matched", "matched", "snapshot:countdown", "countdown",
               "snapshot:shoot", "shoot", "move", "lock", "reject"} => to \in InGame
    /\ ev \in {"result", "opponentLeft"} => to = "result"
    /\ ev = "history" => to = "history"

From(s, ev) ==
    /\ ev = "result" => s \in InGame
    /\ ev = "opponentLeft" => s \in InGame \union {"result"}
    /\ ev = "countdown" => s \in {"matched", "countdown", "result"}
    /\ ev = "shoot" => s = "countdown"
    /\ ev = "reject" => s \in {"shoot", "locked"}
    /\ ev # "none"

(* The view stays through the end of a match. *)
Stays(s, to) == to \in {"locked", "result"} => s \in InGame \union {"result"}

LEMMA EdgesLead ==
  ASSUME NEW s \in Screens, NEW e \in Edge(s)
  PROVE  Leads(e[1], e[2]) /\ From(s, e[1]) /\ Stays(s, e[2])
<1> USE DEF Leads, From, Stays, InGame, Screens, State
<1>1. ASSUME e \in SnapshotEdge PROVE Leads(e[1], e[2]) /\ From(s, e[1]) /\ Stays(s, e[2])
  BY <1>1 DEF SnapshotEdge
<1>2. CASE s = "lobby"
  <2>1. \A d \in LobbyEdge : Leads(d[1], d[2]) /\ From("lobby", d[1]) /\ Stays("lobby", d[2])
    BY DEF LobbyEdge
  <2> QED BY <1>1, <1>2, <2>1 DEF Edge
<1>3. CASE s = "waiting"
  <2>1. \A d \in WaitingEdge : Leads(d[1], d[2]) /\ From("waiting", d[1]) /\ Stays("waiting", d[2])
    BY DEF WaitingEdge
  <2> QED BY <1>1, <1>3, <2>1 DEF Edge
<1>4. CASE s = "matched"
  <2>1. \A d \in MatchedEdge : Leads(d[1], d[2]) /\ From("matched", d[1]) /\ Stays("matched", d[2])
    BY DEF MatchedEdge
  <2> QED BY <1>1, <1>4, <2>1 DEF Edge
<1>5. CASE s = "countdown"
  <2>1. \A d \in CountdownEdge : Leads(d[1], d[2]) /\ From("countdown", d[1]) /\ Stays("countdown", d[2])
    BY DEF CountdownEdge
  <2> QED BY <1>1, <1>5, <2>1 DEF Edge
<1>6. CASE s = "shoot"
  <2>1. \A d \in ShootEdge : Leads(d[1], d[2]) /\ From("shoot", d[1]) /\ Stays("shoot", d[2])
    BY DEF ShootEdge
  <2> QED BY <1>1, <1>6, <2>1 DEF Edge
<1>7. CASE s = "locked"
  <2>1. \A d \in LockedEdge : Leads(d[1], d[2]) /\ From("locked", d[1]) /\ Stays("locked", d[2])
    BY DEF LockedEdge
  <2> QED BY <1>1, <1>7, <2>1 DEF Edge
<1>8. CASE s = "result"
  <2>1. \A d \in ResultEdge : Leads(d[1], d[2]) /\ From("result", d[1]) /\ Stays("result", d[2])
    BY DEF ResultEdge
  <2> QED BY <1>1, <1>8, <2>1 DEF Edge
<1>9. CASE s = "history"
  <2>1. \A d \in HistoryEdge : Leads(d[1], d[2]) /\ From("history", d[1]) /\ Stays("history", d[2])
    BY DEF HistoryEdge
  <2> QED BY <1>1, <1>9, <2>1 DEF Edge
<1> QED BY <1>2, <1>3, <1>4, <1>5, <1>6, <1>7, <1>8, <1>9

LEMMA ToLeads ==
  ASSUME NEW s \in Screens, NEW ev, Takes(s, ev)
  PROVE  Leads(ev, To(s, ev)) /\ From(s, ev) /\ Stays(s, To(s, ev))
<1>1. \E e \in Edge(s) : e[1] = ev
  BY DEF Takes
<1>2. \E d \in Edge(s) : d[1] = ev /\ To(s, ev) = d[2]
  BY <1>1 DEF To
<1> QED BY <1>2, EdgesLead

(* The edges that must be there. A snapshot is obeyed anywhere; a match that   *)
(* ends is left; a match that is announced is entered, if one is not on.       *)
LEMMA EdgesAreThere ==
  ASSUME NEW s \in Screens
  PROVE  /\ \A ev \in {"snapshot:idle", "snapshot:waiting", "snapshot:matched",
                       "snapshot:countdown", "snapshot:shoot"} : Takes(s, ev)
         /\ s \in InGame \union {"waiting"} => Takes(s, "stateIdle")
         /\ s \notin {"shoot", "locked"} => Takes(s, "matched")
<1>1. ASSUME NEW ev \in {"snapshot:idle", "snapshot:waiting", "snapshot:matched",
                         "snapshot:countdown", "snapshot:shoot"}
      PROVE  Takes(s, ev)
  <2>1. \E e \in SnapshotEdge : e[1] = ev
    BY DEF SnapshotEdge
  <2> QED BY <2>1 DEF Takes, Edge
<1>2. ASSUME s \in InGame \union {"waiting"} PROVE Takes(s, "stateIdle")
  <2>1. <<"stateIdle", "lobby">> \in Edge(s)
    <3>1. <<"stateIdle", "lobby">> \in WaitingEdge /\ <<"stateIdle", "lobby">> \in MatchedEdge
          /\ <<"stateIdle", "lobby">> \in CountdownEdge /\ <<"stateIdle", "lobby">> \in ShootEdge
          /\ <<"stateIdle", "lobby">> \in LockedEdge
      BY DEF WaitingEdge, MatchedEdge, CountdownEdge, ShootEdge, LockedEdge
    <3> QED BY <1>2, <3>1 DEF Edge, InGame
  <2>2. <<"stateIdle", "lobby">>[1] = "stateIdle"
    OBVIOUS
  <2> QED BY <2>1, <2>2 DEF Takes
<1>3. ASSUME s \notin {"shoot", "locked"} PROVE Takes(s, "matched")
  <2> DEFINE e == IF s = "countdown" THEN <<"matched", "countdown">> ELSE <<"matched", "matched">>
  <2>1. e \in Edge(s)
    <3>1. <<"matched", "matched">> \in LobbyEdge /\ <<"matched", "matched">> \in WaitingEdge
          /\ <<"matched", "matched">> \in MatchedEdge /\ <<"matched", "countdown">> \in CountdownEdge
          /\ <<"matched", "matched">> \in ResultEdge /\ <<"matched", "matched">> \in HistoryEdge
      BY DEF LobbyEdge, WaitingEdge, MatchedEdge, CountdownEdge, ResultEdge, HistoryEdge
    <3> QED BY <1>3, <3>1 DEF Edge, Screens, State
  <2>2. e[1] = "matched"
    OBVIOUS
  <2> QED BY <2>1, <2>2 DEF Takes
<1> QED BY <1>1, <1>2, <1>3

-----------------------------------------------------------------------------
(* The server and the stream. What the last frame under way says of a seat     *)
(* that is in no match: a match that is let go of says so.                     *)
Phases == {"preparing", "countdown", "shoot", "done"}
Heard == {"none", "matched", "countdown", "shoot", "result", "final", "opponentLeft",
          "forfeitWin", "forfeitLoss", "idle"}
Plain == [ev : Heard \union {"requeued", "waiting"}, match : Nat, round : Nat, cpu : BOOLEAN]
Opening == [ev : {"connected"}, match : Nat, round : Nat, cpu : BOOLEAN,
            state : {"ingame", "waiting", "idle"}, phase : Phases, pending : BOOLEAN, invite : BOOLEAN]
Message == Plain \union Opening

FeedType ==
    /\ wire \in Seq(Message) /\ match \in Nat /\ round \in Nat /\ cpu \in BOOLEAN
    /\ queueing \in BOOLEAN /\ invite \in BOOLEAN /\ playing \in BOOLEAN /\ requeued \in BOOLEAN
    /\ phase \in Phases /\ heard \in [{Me} -> Heard]

Latest(w) == w[Len(w)].ev

SeatsInv ==
    /\ playing \/ queueing => ~invite
    /\ playing /\ queueing => requeued
    /\ playing => heard[Me] # "idle"
    /\ requeued => playing /\ heard[Me] \in {"matched", "result"}
    /\ ~playing /\ wire # <<>> => Latest(wire) \in {"connected", "idle", "requeued", "waiting"}
    /\ ~playing /\ queueing /\ wire # <<>> => Latest(wire) # "idle"

FeedInv == FeedType /\ SeatsInv

(* How a match moves on, in the story its player p sees (Series).              *)
Moves(p) ==
    /\ heard'[p] # heard[p] /\ heard'[p] \in {"countdown", "shoot", "result"} =>
          heard[p] \in {"matched", "countdown", "shoot", "result"}
    /\ phase \in Phases => phase' \in Phases

LEMMA SoloMoves ==
  ASSUME NEW p, Solo!Step(p)
  PROVE  Moves(p)
<1> USE DEF Moves, Phases
<1>1. CASE Solo!Announce(p) \/ Solo!CallOff(p) \/ Solo!Start(p)
  BY <1>1 DEF Solo!Announce, Solo!CallOff, Solo!Start
<1>2. CASE Solo!Count(p) \/ Solo!Pun(p) \/ Solo!Close(p)
  BY <1>2 DEF Solo!Count, Solo!Pun, Solo!Close
<1>3. CASE Solo!OpenGate(p) \/ Solo!Result(p) \/ Solo!NextRound(p)
  BY <1>3 DEF Solo!OpenGate, Solo!Result, Solo!NextRound
<1>4. CASE Solo!GatePassed(p) \/ Solo!GateFails(p) \/ Solo!Forfeit(p)
  BY <1>4 DEF Solo!GatePassed, Solo!GateFails, Solo!Forfeit
<1>5. CASE Solo!GateWithdrawn(p) \/ Solo!BreakOff(p) \/ Solo!Release(p)
  BY <1>5 DEF Solo!GateWithdrawn, Solo!BreakOff, Solo!Release
<1>6. CASE UNCHANGED <<phase, between, failed, heard[p]>>
  BY <1>6
<1> QED BY <1>1, <1>2, <1>3, <1>4, <1>5, <1>6 DEF Solo!Step

LEMMA OnlineMoves ==
  ASSUME NEW p, Online!Step(p)
  PROVE  Moves(p)
<1> USE DEF Moves, Phases
<1>1. CASE Online!Announce(p) \/ Online!CallOff(p) \/ Online!Start(p)
  BY <1>1 DEF Online!Announce, Online!CallOff, Online!Start
<1>2. CASE Online!Count(p) \/ Online!Pun(p) \/ Online!Close(p)
  BY <1>2 DEF Online!Count, Online!Pun, Online!Close
<1>3. CASE Online!OpenGate(p) \/ Online!Result(p) \/ Online!NextRound(p)
  BY <1>3 DEF Online!OpenGate, Online!Result, Online!NextRound
<1>4. CASE Online!GatePassed(p) \/ Online!GateFails(p) \/ Online!Forfeit(p)
  BY <1>4 DEF Online!GatePassed, Online!GateFails, Online!Forfeit
<1>5. CASE Online!GateWithdrawn(p) \/ Online!BreakOff(p) \/ Online!Release(p)
  BY <1>5 DEF Online!GateWithdrawn, Online!BreakOff, Online!Release
<1>6. CASE UNCHANGED <<phase, between, failed, heard[p]>>
  BY <1>6
<1> QED BY <1>1, <1>2, <1>3, <1>4, <1>5, <1>6 DEF Online!Step

-----------------------------------------------------------------------------
(* The ways a stream changes. *)
LEMMA OneSent ==
  ASSUME NEW w \in Seq(Message), NEW f \in Message
  PROVE  /\ Append(w, f) \in Seq(Message) /\ Append(w, f) # <<>>
         /\ Len(Append(w, f)) = Len(w) + 1 /\ Append(w, f)[Len(w) + 1] = f
         /\ \A j \in 1..Len(w) : Append(w, f)[j] = w[j]
         /\ Latest(Append(w, f)) = f.ev
<1>1. /\ Append(w, f) \in Seq(Message) /\ Len(Append(w, f)) = Len(w) + 1 /\ Len(w) \in Nat
      /\ Append(w, f)[Len(w) + 1] = f /\ \A j \in 1..Len(w) : Append(w, f)[j] = w[j]
  OBVIOUS
<1>2. Append(w, f) # <<>>
  BY <1>1
<1> QED BY <1>1, <1>2 DEF Latest

LEMMA FirstGone ==
  ASSUME NEW w \in Seq(Message), w # <<>>
  PROVE  /\ Tail(w) \in Seq(Message) /\ Len(w) \in Nat \ {0} /\ Len(Tail(w)) = Len(w) - 1
         /\ Head(w) = w[1] /\ w[1] \in Message
         /\ \A j \in 1..Len(Tail(w)) : j + 1 \in 1..Len(w) /\ Tail(w)[j] = w[j + 1]
         /\ Tail(w) = <<>> => Len(w) = 1 /\ Latest(w) = w[1].ev
         /\ Tail(w) # <<>> => Latest(Tail(w)) = Latest(w)
<1>1. Tail(w) \in Seq(Message) /\ Len(w) \in Nat \ {0} /\ Len(Tail(w)) = Len(w) - 1 /\ Head(w) = w[1]
  OBVIOUS
<1>2. \A j \in 1..Len(Tail(w)) : j + 1 \in 1..Len(w) /\ Tail(w)[j] = w[j + 1]
  BY <1>1
<1>3. ASSUME Tail(w) = <<>> PROVE Len(w) = 1 /\ Latest(w) = w[1].ev
  <2>1. \A v \in Seq(Message) : v = <<>> => Len(v) = 0
    OBVIOUS
  <2> DEFINE t == Tail(w)
  <2>a. t \in Seq(Message) /\ Len(t) = Len(w) - 1 /\ t = <<>>
    BY <1>1, <1>3
  <2> HIDE DEF t
  <2>b. Len(t) = 0 /\ Len(w) \in Nat
    BY <1>1, <2>1, <2>a, Zenon
  <2>2. Len(w) = 1
    BY <2>a, <2>b
  <2> QED BY <2>2 DEF Latest
<1>4. ASSUME Tail(w) # <<>> PROVE Latest(Tail(w)) = Latest(w)
  <2>1. Len(Tail(w)) \in 1..Len(Tail(w)) /\ Len(Tail(w)) + 1 = Len(w)
    BY <1>1, <1>4
  <2> QED BY <1>2, <2>1 DEF Latest
<1> QED BY <1>1, <1>2, <1>3, <1>4

(* What is left unsent of w behind a snapshot f, n frames having been sent.    *)
Behind(f, w, n) == <<f>> \o SubSeq(w, n + 1, Len(w))

LEMMA PutBefore ==
  ASSUME NEW w \in Seq(Message), NEW f \in Message, NEW n \in 0..Len(w)
  PROVE  /\ Behind(f, w, n) \in Seq(Message) /\ Behind(f, w, n) # <<>>
         /\ Len(Behind(f, w, n)) = 1 + Len(w) - n /\ Behind(f, w, n)[1] = f
         /\ \A j \in 2..Len(Behind(f, w, n)) :
               j + n - 1 \in 1..Len(w) /\ Behind(f, w, n)[j] = w[j + n - 1]
         /\ Latest(Behind(f, w, n)) = IF n = Len(w) THEN f.ev ELSE Latest(w)
<1> DEFINE r == SubSeq(w, n + 1, Len(w))
           v == <<f>> \o r
<1>1. Len(w) \in Nat /\ n \in Nat /\ n <= Len(w)
  OBVIOUS
<1>2. r \in Seq(Message) /\ Len(r) = Len(w) - n
      /\ \A i \in 1..Len(r) : n + i \in 1..Len(w) /\ r[i] = w[n + i]
  BY <1>1
<1>3. Behind(f, w, n) = v
  BY DEF Behind
<1> HIDE DEF r
<1>4. /\ v \in Seq(Message) /\ Len(v) = 1 + Len(r) /\ v[1] = f
      /\ \A i \in 1..Len(r) : v[i + 1] = r[i]
  <2>1. \A s \in Seq(Message) :
          /\ <<f>> \o s \in Seq(Message) /\ Len(<<f>> \o s) = 1 + Len(s) /\ (<<f>> \o s)[1] = f
          /\ \A i \in 1..Len(s) : (<<f>> \o s)[i + 1] = s[i]
    OBVIOUS
  <2> QED BY <1>2, <2>1
<1> HIDE DEF v
<1>5. Len(v) = 1 + Len(w) - n
  BY <1>1, <1>2, <1>4
<1>6. ASSUME NEW j \in 2..Len(v) PROVE j + n - 1 \in 1..Len(w) /\ v[j] = w[j + n - 1]
  <2> DEFINE i == j - 1
  <2>1. i \in 1..Len(r) /\ n + i = j + n - 1 /\ i + 1 = j
    BY <1>1, <1>2, <1>4, <1>5
  <2> HIDE DEF i
  <2>2. v[j] = r[i]
    BY <1>4, <2>1
  <2> QED BY <1>2, <2>1, <2>2
<1>7. Latest(v) = IF n = Len(w) THEN f.ev ELSE Latest(w)
  <2>1. CASE n = Len(w)
    <3>1. Len(v) = 1
      BY <1>1, <1>5, <2>1
    <3>2. v[Len(v)] = f
      BY <1>4, <3>1
    <3> QED BY <2>1, <3>2 DEF Latest
  <2>2. CASE n # Len(w)
    <3>1. Len(v) \in 2..Len(v) /\ Len(v) + n - 1 = Len(w)
      BY <1>1, <1>5, <2>2
    <3>2. v[Len(v)] = w[Len(w)]
      BY <1>6, <3>1
    <3> QED BY <2>2, <3>2 DEF Latest
  <2> QED BY <2>1, <2>2
<1>8. v # <<>>
  BY <1>1, <1>4, <1>5
<1> QED BY <1>3, <1>4, <1>5, <1>6, <1>7, <1>8

(* A match that is on has been opened, on the page (p) or in a frame under way, *)
(* and nothing behind that closes it. m is its number.                         *)
Opens(f, m) == f.ev = "connected" \/ (f.ev = "matched" /\ f.match = m)
Goes(f, m) == f.ev \in {"matched", "countdown", "shoot", "result"} /\ f.match = m
Opened(w, m, p) ==
    \E i \in 0..Len(w) :
        /\ IF i = 0 THEN p ELSE Opens(w[i], m)
        /\ \A j \in (i + 1)..Len(w) : Goes(w[j], m)

LEMMA OpenedEmpty ==
  ASSUME NEW m, NEW p \in BOOLEAN, Opened(<<>>, m, p)
  PROVE  p
<1>1. PICK i \in 0..Len(<<>>) : IF i = 0 THEN p ELSE Opens(<<>>[i], m)
  BY DEF Opened
<1>2. i = 0
  OBVIOUS
<1> QED BY <1>1, <1>2

LEMMA OpenedSent ==
  ASSUME NEW w \in Seq(Message), NEW f \in Message, NEW m, NEW p \in BOOLEAN,
         Opens(f, m) \/ (Goes(f, m) /\ Opened(w, m, p))
  PROVE  Opened(Append(w, f), m, p)
<1> DEFINE v == Append(w, f)
<1>1. Len(w) \in Nat /\ Len(v) = Len(w) + 1 /\ v[Len(w) + 1] = f /\ \A j \in 1..Len(w) : v[j] = w[j]
  BY OneSent
<1> HIDE DEF v
<1>2. CASE Opens(f, m)
  <2>1. Len(v) \in 0..Len(v) /\ Len(v) # 0 /\ Opens(v[Len(v)], m) /\ (Len(v) + 1)..Len(v) = {}
    BY <1>1, <1>2
  <2> QED BY <2>1 DEF Opened
<1>3. CASE Goes(f, m) /\ Opened(w, m, p)
  <2>1. PICK i \in 0..Len(w) : /\ IF i = 0 THEN p ELSE Opens(w[i], m)
                               /\ \A j \in (i + 1)..Len(w) : Goes(w[j], m)
    BY <1>3 DEF Opened
  <2>2. i \in 0..Len(v) /\ (i # 0 => v[i] = w[i])
    BY <1>1
  <2>3. ASSUME NEW j \in (i + 1)..Len(v) PROVE Goes(v[j], m)
    <3>1. CASE j = Len(w) + 1
      BY <1>1, <1>3, <3>1
    <3>2. CASE j # Len(w) + 1
      <4>1. j \in (i + 1)..Len(w) /\ j \in 1..Len(w)
        BY <1>1, <3>2
      <4> QED BY <1>1, <2>1, <4>1
    <3> QED BY <3>1, <3>2
  <2> QED BY <2>1, <2>2, <2>3 DEF Opened
<1> QED BY <1>2, <1>3 DEF v

LEMMA OpenedRead ==
  ASSUME NEW w \in Seq(Message), w # <<>>, NEW m, NEW p \in BOOLEAN, NEW q \in BOOLEAN,
         Opened(w, m, p), Opens(w[1], m) \/ (p /\ Goes(w[1], m)) => q
  PROVE  Opened(Tail(w), m, q)
<1> DEFINE v == Tail(w)
<1>1. Len(w) \in Nat \ {0} /\ Len(v) = Len(w) - 1
      /\ \A j \in 1..Len(v) : j + 1 \in 1..Len(w) /\ v[j] = w[j + 1]
  BY FirstGone
<1> HIDE DEF v
<1>2. PICK i \in 0..Len(w) : /\ IF i = 0 THEN p ELSE Opens(w[i], m)
                             /\ \A j \in (i + 1)..Len(w) : Goes(w[j], m)
  BY DEF Opened
<1>3. ASSUME NEW j \in 1..Len(v), j + 1 > i PROVE Goes(v[j], m)
  <2>1. j + 1 \in (i + 1)..Len(w) /\ v[j] = w[j + 1]
    BY <1>1, <1>3
  <2> QED BY <1>2, <2>1
<1>4. CASE i \in {0, 1}
  <2>1. q
    <3>1. CASE i = 0
      <4>1. 1 \in (i + 1)..Len(w)
        BY <1>1, <3>1
      <4> QED BY <1>2, <3>1, <4>1
    <3>2. CASE i = 1
      BY <1>2, <3>2
    <3> QED BY <1>4, <3>1, <3>2
  <2>2. \A j \in (0 + 1)..Len(v) : Goes(v[j], m)
    BY <1>1, <1>3, <1>4
  <2>3. 0 \in 0..Len(v)
    BY <1>1
  <2> QED BY <2>1, <2>2, <2>3 DEF Opened, v
<1>5. CASE i \notin {0, 1}
  <2> DEFINE k == i - 1
  <2>1. k \in 0..Len(v) /\ k \in 1..Len(v) /\ k # 0 /\ v[k] = w[i]
    BY <1>1, <1>5
  <2>2. \A j \in (k + 1)..Len(v) : Goes(v[j], m)
    BY <1>1, <1>3, <1>5
  <2>3. Opens(v[k], m)
    BY <1>2, <1>5, <2>1
  <2> HIDE DEF k
  <2> QED BY <2>1, <2>2, <2>3 DEF Opened, v
<1> QED BY <1>4, <1>5

LEMMA OpenedShifted ==
  ASSUME NEW w \in Seq(Message), NEW n \in 0..Len(w), NEW v \in Seq(Message), NEW m, NEW p \in BOOLEAN,
         Len(v) = 1 + Len(w) - n, Opens(v[1], m),
         \A j \in 2..Len(v) : j + n - 1 \in 1..Len(w) /\ v[j] = w[j + n - 1],
         Opened(w, m, p)
  PROVE  Opened(v, m, p)
<1> DEFINE a == Len(w)
           b == Len(v)
<1>1. a \in Nat /\ n \in 0..a /\ b \in Nat /\ b = 1 + a - n
  OBVIOUS
<1>2. \A j \in 2..b : j + n - 1 \in 1..a /\ v[j] = w[j + n - 1]
  OBVIOUS
<1>3. PICK i \in 0..a : /\ IF i = 0 THEN p ELSE Opens(w[i], m)
                        /\ \A j \in (i + 1)..a : Goes(w[j], m)
  BY DEF Opened
<1>o. ASSUME NEW k \in 1..b, Opens(v[k], m), \A j \in (k + 1)..b : Goes(v[j], m)
      PROVE  Opened(v, m, p)
  <2>1. k \in 0..Len(v) /\ k # 0
    OBVIOUS
  <2> QED BY <1>o, <2>1 DEF Opened
<1> HIDE DEF a, b
<1>4. ASSUME NEW j \in 2..b, j + n - 1 > i PROVE Goes(v[j], m)
  <2>1. j + n - 1 \in (i + 1)..a
    BY <1>1, <1>4
  <2> QED BY <1>2, <1>3, <2>1
<1>5. CASE i <= n
  <2>1. 1 \in 1..b
    BY <1>1
  <2>2. ASSUME NEW j \in (1 + 1)..b PROVE Goes(v[j], m)
    <3>1. j \in 2..b /\ j + n - 1 > i
      BY <1>1, <1>5
    <3> QED BY <1>4, <3>1
  <2> QED BY <1>o, <2>1, <2>2
<1>6. CASE i > n
  <2> DEFINE k == i - n + 1
  <2>1. k \in 1..b /\ k \in 2..b /\ i # 0 /\ k + n - 1 = i
    BY <1>1, <1>6
  <2>2. v[k] = w[i]
    BY <1>2, <2>1
  <2>3. ASSUME NEW j \in (k + 1)..b PROVE Goes(v[j], m)
    <3>1. j \in 2..b /\ j + n - 1 > i
      BY <1>1, <1>6, <2>1
    <3> QED BY <1>4, <3>1
  <2>4. Opens(v[k], m)
    BY <1>3, <2>1, <2>2
  <2> HIDE DEF k
  <2> QED BY <1>o, <2>1, <2>3, <2>4
<1> QED BY <1>1, <1>5, <1>6

LEMMA OpenedBehind ==
  ASSUME NEW w \in Seq(Message), NEW f \in Message, f.ev = "connected", NEW n \in 0..Len(w),
         NEW m, NEW p \in BOOLEAN, Opened(w, m, p)
  PROVE  Opened(Behind(f, w, n), m, p)
<1> DEFINE v == Behind(f, w, n)
<1>1. /\ v \in Seq(Message) /\ Len(v) = 1 + Len(w) - n /\ v[1] = f
      /\ \A j \in 2..Len(v) : j + n - 1 \in 1..Len(w) /\ v[j] = w[j + n - 1]
  BY PutBefore
<1>2. Opens(v[1], m)
  BY <1>1 DEF Opens
<1>3. Opened(v, m, p)
  <2> HIDE DEF v
  <2> QED BY <1>1, <1>2, OpenedShifted
<1> QED BY <1>3

-----------------------------------------------------------------------------
(* What the server does with a request, and by itself.                         *)
LEMMA FrameTyped ==
  ASSUME FeedType, NEW ev \in Heard \union {"requeued", "waiting"}
  PROVE  Frame(ev) \in Message /\ Frame(ev).ev = ev /\ Frame(ev).match = match
<1>1. Frame(ev) = [ev |-> ev, match |-> match, round |-> round, cpu |-> cpu]
  BY DEF Frame
<1>2. Frame(ev) \in Plain
  BY <1>1 DEF Plain, FeedType
<1> QED BY <1>1, <1>2 DEF Message

LEMMA SnapshotTyped ==
  ASSUME FeedType, NEW s \in {"ingame", "waiting", "idle"}, NEW pending \in BOOLEAN, NEW i \in BOOLEAN,
         NEW f, f = [ev |-> "connected", match |-> match, round |-> round, cpu |-> cpu,
                     state |-> s, phase |-> phase, pending |-> pending, invite |-> i]
  PROVE  f \in Message /\ f.ev = "connected"
<1>1. f \in Opening
  BY DEF Opening, FeedType
<1> QED BY <1>1 DEF Message

LEMMA BeginDoes ==
  ASSUME FeedInv, NEW bot \in BOOLEAN, NEW claimed \in BOOLEAN, Begin(bot, claimed)
  PROVE  FeedInv' /\ playing' /\ ~InRound'
<1>0. /\ match' = match + 1 /\ cpu' = bot /\ playing' = TRUE /\ requeued' = FALSE
      /\ queueing' = FALSE /\ invite' = FALSE /\ round' = 1 /\ phase' = "preparing"
      /\ heard' = [p \in {Me} |-> "none"] /\ wire' = wire
  BY DEF Begin
<1>a. heard' \in [{Me} -> Heard] /\ heard'[Me] = "none"
  BY <1>0 DEF Heard
<1>b. match' \in Nat /\ phase' \in Phases /\ wire' \in Seq(Message)
  BY <1>0 DEF FeedInv, FeedType, Phases
<1>1. FeedType'
  BY <1>0, <1>a, <1>b DEF FeedType
<1>2. SeatsInv' /\ playing' /\ ~InRound'
  BY <1>0, <1>a DEF SeatsInv, InRound
<1> QED BY <1>1, <1>2 DEF FeedInv

LEMMA QueueDoes ==
  ASSUME FeedInv, TakeQueue
  PROVE  FeedInv' /\ ~playing' /\ queueing' /\ ~invite' /\ wire' # <<>>
<1> DEFINE f == Frame("waiting")
<1>1. /\ ~playing /\ ~invite /\ queueing' = TRUE /\ wire' = Append(wire, f)
      /\ UNCHANGED <<invite, playing, requeued, cpu, match, round, phase, heard>>
  BY DEF TakeQueue, Send, told
<1>2. wire \in Seq(Message) /\ f \in Message /\ f.ev = "waiting"
  BY FrameTyped DEF FeedInv, FeedType
<1> HIDE DEF f
<1>3. wire' \in Seq(Message) /\ wire' # <<>> /\ Latest(wire') = "waiting"
  BY <1>1, <1>2, OneSent
<1>4. FeedType'
  BY <1>1, <1>3 DEF FeedInv, FeedType
<1>5. SeatsInv'
  BY <1>1, <1>3 DEF FeedInv, SeatsInv
<1> QED BY <1>1, <1>3, <1>4, <1>5 DEF FeedInv, FeedType

LEMMA ChallengeDoes ==
  ASSUME FeedInv, TakeChallenge
  PROVE  FeedInv' /\ ~playing /\ ~playing' /\ ~queueing' /\ invite' /\ wire' = wire
<1>1. /\ ~playing /\ invite' = TRUE /\ queueing' = FALSE
      /\ UNCHANGED <<playing, requeued, cpu, match, round, phase, heard, wire>>
  BY DEF TakeChallenge, told, link
<1>2. FeedType'
  BY <1>1 DEF FeedInv, FeedType
<1>3. SeatsInv'
  BY <1>1 DEF FeedInv, SeatsInv, Latest
<1> QED BY <1>1, <1>2, <1>3 DEF FeedInv

LEMMA CancelDoes ==
  ASSUME FeedInv, TakeCancel
  PROVE  /\ FeedInv' /\ ~queueing' /\ ~invite' /\ playing' = playing /\ match' = match
         /\ InRound' = InRound /\ (InRound => wire' = wire)
         /\ queueing => wire' # <<>>
         /\ ~queueing => wire' = wire
<1> DEFINE f == Frame("idle")
<1>1. /\ queueing' = FALSE /\ invite' = FALSE
      /\ wire' = IF queueing THEN Append(wire, f) ELSE wire
      /\ UNCHANGED <<playing, requeued, cpu, match, round, phase, heard>>
  BY DEF TakeCancel, Send, told
<1>2. wire \in Seq(Message) /\ f \in Message /\ f.ev = "idle"
  <2>1. "idle" \in Heard \union {"requeued", "waiting"}
    BY DEF Heard
  <2> QED BY <2>1, FrameTyped DEF FeedInv, FeedType
<1> HIDE DEF f
<1>3. queueing => wire' \in Seq(Message) /\ wire' # <<>> /\ Latest(wire') = "idle"
  BY <1>1, <1>2, OneSent
<1>4. FeedType'
  BY <1>1, <1>2, <1>3 DEF FeedInv, FeedType
<1>5. ~queueing => wire' = wire
  BY <1>1
<1>6. SeatsInv'
  BY <1>1, <1>3, <1>5 DEF FeedInv, SeatsInv, Latest
<1>7. InRound' = InRound /\ (InRound => ~queueing)
  BY <1>1 DEF FeedInv, SeatsInv, InRound
<1> QED BY <1>1, <1>3, <1>4, <1>5, <1>6, <1>7 DEF FeedInv

(* A step that leaves the seat, the match and the stream alone.                *)
LEMMA NothingDone ==
  ASSUME FeedInv, UNCHANGED <<seats, round, phase, heard, wire>>
  PROVE  FeedInv' /\ InRound' = InRound /\ Seat' = Seat
<1>1. UNCHANGED <<queueing, invite, playing, requeued, cpu, match>>
  BY DEF seats
<1>2. FeedType'
  BY <1>1 DEF FeedInv, FeedType
<1>3. SeatsInv'
  BY <1>1 DEF FeedInv, SeatsInv, Latest
<1> QED BY <1>1, <1>2, <1>3 DEF FeedInv, InRound, Seat

LEMMA PlayDoes ==
  ASSUME FeedInv, Play
  PROVE  /\ FeedInv' /\ ~invite' /\ (~playing' => wire' # <<>>)
         /\ InRound' => \A p \in BOOLEAN : (InRound => Opened(wire, match, p)) => Opened(wire', match', p)
<1> DEFINE f == Frame(heard'[Me])
<1>1. /\ playing /\ ~requeued /\ heard' \in [{Me} -> Online!Frames]
      /\ playing' = (heard'[Me] # "idle")
      /\ UNCHANGED <<queueing, invite, requeued, cpu, match>>
      /\ round' = IF phase = "done" /\ phase' = "countdown" THEN round + 1 ELSE round
      /\ heard' # heard => wire' = Append(wire, f)
      /\ heard' = heard => wire' = wire
  BY DEF Play, Send
<1>2. heard' \in [{Me} -> Heard] /\ heard \in [{Me} -> Heard]
  BY <1>1 DEF Heard, Online!Frames, FeedInv, FeedType
<1>3. Moves(Me)
  <2>1. IF cpu THEN Solo!Step(Me) ELSE Online!Step(Me)
    BY DEF Play
  <2> QED BY <2>1, SoloMoves, OnlineMoves
<1>4. ~invite /\ ~queueing /\ heard[Me] # "idle" /\ wire \in Seq(Message) /\ match \in Nat
      /\ round \in Nat /\ phase \in Phases
  BY <1>1 DEF FeedInv, FeedType, SeatsInv
<1>5. f \in Message /\ f.ev = heard'[Me] /\ f.match = match
  <2>1. heard'[Me] \in Heard \union {"requeued", "waiting"}
    BY <1>2
  <2> QED BY <2>1, FrameTyped DEF FeedInv
<1>6. heard' = heard <=> heard'[Me] = heard[Me]
  BY <1>2
<1> HIDE DEF f
<1>7. heard' # heard => wire' \in Seq(Message) /\ wire' # <<>> /\ Latest(wire') = heard'[Me]
  <2>1. /\ Append(wire, f) \in Seq(Message) /\ Append(wire, f) # <<>>
        /\ Latest(Append(wire, f)) = heard'[Me]
    BY <1>4, <1>5, OneSent
  <2> QED BY <1>1, <2>1
<1>8. phase' \in Phases /\ round' \in Nat
  <2>1. phase' \in Phases
    BY <1>3, <1>4 DEF Moves
  <2> QED BY <1>1, <1>4, <2>1
<1>9. FeedType'
  <2>1. wire' \in Seq(Message)
    BY <1>1, <1>4, <1>7
  <2>2. playing' \in BOOLEAN
    BY <1>1
  <2> QED BY <1>1, <1>2, <1>8, <2>1, <2>2 DEF FeedInv, FeedType
<1>10. ~playing' => heard' # heard /\ heard'[Me] = "idle"
  BY <1>1, <1>4, <1>6
<1>11. SeatsInv'
  BY <1>1, <1>4, <1>7, <1>10 DEF SeatsInv
<1>12. ASSUME InRound', NEW p \in BOOLEAN, InRound => Opened(wire, match, p)
       PROVE  Opened(wire', match', p)
  <2>1. heard'[Me] \in {"matched", "countdown", "shoot", "result"}
    BY <1>12 DEF InRound
  <2>2. CASE heard' = heard
    <3>1. InRound
      BY <1>1, <2>1, <2>2 DEF InRound
    <3> QED BY <1>1, <1>12, <2>2, <3>1
  <2>3. CASE heard' # heard /\ heard'[Me] = "matched"
    <3>1. Opens(f, match)
      BY <1>5, <2>3 DEF Opens
    <3>2. Opened(Append(wire, f), match, p)
      BY <1>4, <1>5, <3>1, OpenedSent
    <3> QED BY <1>1, <2>3, <3>2
  <2>4. CASE heard' # heard /\ heard'[Me] # "matched"
    <3>1. InRound
      BY <1>1, <1>3, <1>6, <2>1, <2>4 DEF InRound, Moves
    <3>2. Goes(f, match)
      BY <1>5, <2>1 DEF Goes
    <3>3. Opened(Append(wire, f), match, p)
      BY <1>4, <1>5, <1>12, <3>1, <3>2, OpenedSent
    <3> QED BY <1>1, <2>4, <3>3
  <2> QED BY <2>2, <2>3, <2>4
<1>13. ~invite'
  BY <1>1, <1>4
<1> QED BY <1>7, <1>9, <1>10, <1>11, <1>12, <1>13 DEF FeedInv

Answerable == \E i \in 1..Len(wire) : wire[i].ev = "connected"

LEMMA AttachDoes ==
  ASSUME FeedInv, Reconnect, UNCHANGED server
  PROVE  /\ FeedInv' /\ wire' # <<>> /\ Answerable'
         /\ InRound' => \A p \in BOOLEAN : (InRound => Opened(wire, match, p)) => Opened(wire', match', p)
<1>1. UNCHANGED <<queueing, invite, playing, requeued, cpu, match, round, phase, heard>>
  BY DEF server, seats, told
<1>2. PICK n \in 0..Len(wire), pending \in BOOLEAN :
        wire' = <<Snapshot(pending)>> \o SubSeq(wire, n + 1, Len(wire))
  BY DEF Reconnect
<1> DEFINE f == Snapshot(pending)
<1>3. f \in Message /\ f.ev = "connected"
  <2>1. f = [ev |-> "connected", match |-> match, round |-> round, cpu |-> cpu,
             state |-> Seat, phase |-> phase, pending |-> pending, invite |-> (invite /\ ~playing)]
    BY DEF Snapshot
  <2>2. Seat \in {"ingame", "waiting", "idle"}
    BY DEF Seat
  <2>3. (invite /\ ~playing) \in BOOLEAN
    OBVIOUS
  <2> HIDE DEF f
  <2> QED BY <2>1, <2>2, <2>3, SnapshotTyped, Zenon DEF FeedInv
<1>4. wire' = Behind(f, wire, n)
  BY <1>2 DEF Behind
<1> HIDE DEF f
<1>5. wire \in Seq(Message)
  BY DEF FeedInv, FeedType
<1>6. /\ wire' \in Seq(Message) /\ wire' # <<>> /\ Len(wire') = 1 + Len(wire) - n /\ wire'[1] = f
      /\ Latest(wire') = IF n = Len(wire) THEN f.ev ELSE Latest(wire)
  <2> DEFINE v == Behind(f, wire, n)
  <2>1. /\ v \in Seq(Message) /\ v # <<>> /\ Len(v) = 1 + Len(wire) - n /\ v[1] = f
        /\ Latest(v) = IF n = Len(wire) THEN f.ev ELSE Latest(wire)
    BY <1>3, <1>5, PutBefore
  <2> HIDE DEF v
  <2> QED BY <1>4, <2>1 DEF v
<1>7. Answerable'
  <2>1. 1 \in 1..Len(wire')
    BY <1>5, <1>6
  <2> QED BY <1>3, <1>6, <2>1 DEF Answerable
<1>8. FeedType'
  BY <1>1, <1>6 DEF FeedInv, FeedType
<1>9. SeatsInv'
  <2>1. n # Len(wire) => wire # <<>>
    BY <1>5
  <2> QED BY <1>1, <1>3, <1>6, <2>1 DEF FeedInv, SeatsInv
<1>10. ASSUME InRound', NEW p \in BOOLEAN, InRound => Opened(wire, match, p)
       PROVE  Opened(wire', match', p)
  <2>1. Opened(wire, match, p)
    BY <1>1, <1>10 DEF InRound
  <2>2. Opened(Behind(f, wire, n), match, p)
    BY <1>3, <1>5, <2>1, OpenedBehind
  <2> QED BY <1>1, <1>4, <2>2
<1> QED BY <1>6, <1>7, <1>8, <1>9, <1>10 DEF FeedInv

(* Left to itself the server says whatever it does to a page that is in no     *)
(* match.                                                                      *)
LEMMA ElsewhereDoes ==
  ASSUME FeedInv, Serve \/ Reattach \/ Return
  PROVE  /\ FeedInv' /\ (~playing' => wire' # <<>>) /\ (invite' => Answerable')
         /\ InRound' => \A p \in BOOLEAN : (InRound => Opened(wire, match, p)) => Opened(wire', match', p)
<1>1. CASE Pair
  <2>1. FeedInv' /\ playing' /\ ~InRound'
    BY <1>1, BeginDoes DEF Pair
  <2> QED BY <2>1 DEF FeedInv, SeatsInv
<1>2. CASE Play
  BY <1>2, PlayDoes
<1>3. CASE Requeue
  <2>1. /\ playing /\ requeued' = TRUE /\ queueing' = TRUE /\ heard[Me] \in {"matched", "result"}
        /\ UNCHANGED <<invite, playing, cpu, match, round, phase, heard, wire>>
    BY <1>3 DEF Requeue, told, link
  <2>2. FeedType' /\ SeatsInv' /\ playing' /\ ~InRound'
    BY <2>1 DEF FeedInv, FeedType, SeatsInv, InRound
  <2> QED BY <2>2 DEF FeedInv, SeatsInv
<1>4. CASE Release
  <2> DEFINE f == Frame("requeued")
  <2>1. /\ playing' = FALSE /\ requeued' = FALSE /\ invite' = FALSE /\ wire' = Append(wire, f)
        /\ heard' = [p \in {Me} |-> "idle"]
        /\ UNCHANGED <<queueing, cpu, match, round, phase>>
    BY <1>4 DEF Release, Send
  <2>2. wire \in Seq(Message) /\ f \in Message /\ f.ev = "requeued"
    BY FrameTyped DEF FeedInv, FeedType
  <2> HIDE DEF f
  <2>3. wire' \in Seq(Message) /\ wire' # <<>> /\ Latest(wire') = "requeued"
    BY <2>1, <2>2, OneSent
  <2>4. heard' \in [{Me} -> Heard]
    BY <2>1 DEF Heard
  <2>5. FeedType' /\ SeatsInv' /\ ~InRound'
    BY <2>1, <2>3, <2>4 DEF FeedInv, FeedType, SeatsInv, InRound
  <2> QED BY <2>1, <2>3, <2>5 DEF FeedInv
<1>5. CASE Reattach
  BY <1>5, AttachDoes DEF Reattach
<1>6. CASE Return
  <2> DEFINE f == [Snapshot(FALSE) EXCEPT !.state = IF invite THEN "waiting" ELSE "idle",
                                          !.invite = invite]
  <2>1. /\ playing' = FALSE /\ requeued' = FALSE /\ queueing' = FALSE /\ wire' = <<f>>
        /\ UNCHANGED <<invite, cpu, match, round, phase, heard>>
    BY <1>6 DEF Return, told
  <2>2. f = [ev |-> "connected", match |-> match, round |-> round, cpu |-> cpu,
             state |-> IF invite THEN "waiting" ELSE "idle",
             phase |-> phase, pending |-> FALSE, invite |-> invite]
    <3> DEFINE g == Snapshot(FALSE)
    <3>1. g = [ev |-> "connected", match |-> match, round |-> round, cpu |-> cpu,
               state |-> Seat, phase |-> phase, pending |-> FALSE, invite |-> (invite /\ ~playing)]
      BY DEF Snapshot
    <3>2. f = [g EXCEPT !.state = IF invite THEN "waiting" ELSE "idle", !.invite = invite]
      OBVIOUS
    <3> HIDE DEF g, f
    <3> QED BY <3>1, <3>2
  <2> HIDE DEF f
  <2>3. f \in Message /\ f.ev = "connected"
    <3> DEFINE s == IF invite THEN "waiting" ELSE "idle"
    <3>1. s \in {"ingame", "waiting", "idle"} /\ invite \in BOOLEAN /\ FeedType
      BY DEF FeedInv, FeedType
    <3> QED BY <2>2, <3>1, SnapshotTyped, Zenon
  <2>4. wire' \in Seq(Message) /\ Len(wire') = 1 /\ wire'[1] = f /\ wire' # <<>>
    BY <2>1, <2>3
  <2>5. Latest(wire') = "connected" /\ Answerable'
    <3>1. 1 \in 1..Len(wire')
      BY <2>4
    <3> QED BY <2>3, <2>4, <3>1 DEF Latest, Answerable
  <2>6. FeedType' /\ SeatsInv' /\ ~InRound'
    BY <2>1, <2>4, <2>5 DEF FeedInv, FeedType, SeatsInv, InRound
  <2> QED BY <2>1, <2>4, <2>5, <2>6 DEF FeedInv
<1> QED BY <1>1, <1>2, <1>3, <1>4, <1>5, <1>6 DEF Serve

(* A frame is taken off the stream. *)
LEMMA TakenOff ==
  ASSUME FeedInv, wire # <<>>, wire' = Tail(wire), UNCHANGED server
  PROVE  /\ FeedInv' /\ InRound' = InRound /\ Seat' = Seat
         /\ UNCHANGED <<queueing, invite, playing, requeued, match, heard>>
         /\ Head(wire) = wire[1] /\ wire[1] \in Message /\ wire \in Seq(Message)
         /\ wire' = <<>> /\ ~playing =>
               /\ Len(wire) = 1 /\ wire[1].ev \in {"connected", "idle", "requeued", "waiting"}
               /\ queueing => wire[1].ev # "idle"
         /\ Answerable => Answerable' \/ wire[1].ev = "connected"
<1>1. UNCHANGED <<queueing, invite, playing, requeued, cpu, match, round, phase, heard>>
  BY DEF server, seats, told
<1>2. wire \in Seq(Message)
  BY DEF FeedInv, FeedType
<1>3. /\ Tail(wire) \in Seq(Message) /\ Len(wire) \in Nat \ {0} /\ Len(Tail(wire)) = Len(wire) - 1
      /\ Head(wire) = wire[1] /\ wire[1] \in Message
      /\ \A j \in 1..Len(Tail(wire)) : j + 1 \in 1..Len(wire) /\ Tail(wire)[j] = wire[j + 1]
      /\ Tail(wire) = <<>> => Len(wire) = 1 /\ Latest(wire) = wire[1].ev
      /\ Tail(wire) # <<>> => Latest(Tail(wire)) = Latest(wire)
  BY <1>2, FirstGone
<1>4. FeedType'
  BY <1>1, <1>3 DEF FeedInv, FeedType
<1>5. SeatsInv'
  BY <1>1, <1>3 DEF FeedInv, SeatsInv
<1>6. InRound' = InRound /\ Seat' = Seat
  BY <1>1 DEF InRound, Seat
<1>7. wire' = <<>> /\ ~playing =>
         /\ Len(wire) = 1 /\ wire[1].ev \in {"connected", "idle", "requeued", "waiting"}
         /\ queueing => wire[1].ev # "idle"
  BY <1>3 DEF FeedInv, SeatsInv
<1>8. ASSUME Answerable, wire[1].ev # "connected" PROVE Answerable'
  <2>1. PICK i \in 1..Len(wire) : wire[i].ev = "connected"
    BY <1>8 DEF Answerable
  <2>2. i # 1 /\ i - 1 \in 1..Len(Tail(wire)) /\ (i - 1) + 1 = i
    BY <1>3, <1>8, <2>1
  <2>3. Tail(wire)[i - 1] = wire[i]
    BY <1>3, <2>2
  <2> QED BY <2>1, <2>2, <2>3 DEF Answerable
<1> QED BY <1>1, <1>2, <1>3, <1>4, <1>5, <1>6, <1>7, <1>8 DEF FeedInv

-----------------------------------------------------------------------------
(* The page. Its view is that of its screen, a match on it until it is over.   *)
ViewInv ==
    /\ screen \in Screens
    /\ screen = "lobby" => view \in {"lobby", "choose"}
    /\ screen = "waiting" => view = "queue"
    /\ screen = "history" => view = "history"
    /\ screen \in InGame \union {"result"} => view = "game"

Requests == {"challenge", "rematch", "cpu", "rematch cpu", "cancel", "search", "queue", "move"}
NetType == asked \subseteq Requests /\ answers \subseteq [to : Requests, ok : BOOLEAN]

Plays == screen \in InGame \/ (screen = "result" /\ ~decided)
Promised == \E a \in answers : a.to \in {"challenge", "rematch"} /\ a.ok
Searching == "search" \in asked \/ "queue" \in asked \/ \E a \in answers : a.to = "search"

(* What nothing has parted yet. A match that goes on is shown, or a frame that *)
(* opens it is under way; a seat in the queue is shown, or will be, or a       *)
(* cancel is under way; so is an invite; who sees the queue without a seat     *)
(* will be told, or is asking for one; who sees a match that is over will be.  *)
RoundInv == InRound => Opened(wire, match, Plays)
QueueInv == ~playing /\ queueing => wire # <<>> \/ screen = "waiting" \/ "cancel" \in asked
InviteInv == ~playing /\ invite => Promised \/ screen = "waiting" \/ "cancel" \in asked \/ Answerable
WaitInv == screen = "waiting" /\ Seat = "idle" => wire # <<>> \/ Searching
GameInv == screen \in InGame /\ ~playing => wire # <<>>
Agreed == RoundInv /\ QueueInv /\ InviteInv /\ WaitInv /\ GameInv

PageInv == FeedInv /\ ViewInv /\ NetType /\ (adrift = "" => Agreed)

LEMMA NoneSent ==
  ASSUME wire \in Seq(Message), wire = <<>>
  PROVE  ~Answerable
<1>1. Len(wire) = 0
  OBVIOUS
<1> QED BY <1>1 DEF Answerable

LEMMA PageAgreed ==
  ASSUME PageInv
  PROVE  PageAgrees
<1> SUFFICES ASSUME Settled, adrift = ""
             PROVE  /\ screen = "waiting" => queueing \/ invite \/ playing
                    /\ (queueing \/ invite) /\ ~playing => screen = "waiting"
                    /\ InRound => screen \in {"matched", "result"} \union Live
                    /\ screen \in {"matched"} \union Live => playing
  BY DEF PageAgrees
<1>1. Agreed /\ wire = <<>> /\ ~Promised /\ ~Searching /\ "cancel" \notin asked
  BY DEF PageInv, Settled, Promised, Searching
<1>2. ~Answerable
  BY <1>1, NoneSent DEF PageInv, FeedInv, FeedType
<1>3. Plays \in BOOLEAN
  BY DEF Plays
<1>4. InRound => Plays
  <2>1. InRound => Opened(<<>>, match, Plays)
    BY <1>1 DEF Agreed, RoundInv
  <2> QED BY <1>3, <2>1, OpenedEmpty
<1>5. Seat = IF playing THEN "ingame" ELSE IF invite \/ queueing THEN "waiting" ELSE "idle"
  BY DEF Seat
<1>6. screen = "waiting" => queueing \/ invite \/ playing
  BY <1>1, <1>5 DEF Agreed, WaitInv
<1>7. (queueing \/ invite) /\ ~playing => screen = "waiting"
  BY <1>1, <1>2 DEF Agreed, QueueInv, InviteInv
<1>8. InRound => screen \in {"matched", "result"} \union Live
  BY <1>4 DEF Plays, InGame, Live
<1>9. screen \in {"matched"} \union Live => playing
  BY <1>1 DEF Agreed, GameInv, InGame, Live
<1> QED BY <1>6, <1>7, <1>8, <1>9

LEMMA OpenedSo ==
  ASSUME NEW w, NEW m, NEW p \in BOOLEAN, NEW q \in BOOLEAN, p => q, Opened(w, m, p)
  PROVE  Opened(w, m, q)
BY DEF Opened

(* The entry of a screen. *)
LEMMA EnterDoes ==
  ASSUME ViewInv, NEW ev, ev # "climb", Takes(screen, ev), NEW f, Enter(To(screen, ev), f)
  PROVE  /\ ViewInv' /\ Leads(ev, screen') /\ From(screen, ev)
         /\ decided' = (screen' = "result" /\ f.ev # "result")
<1> DEFINE to == To(screen, ev)
<1>1. Leads(ev, to) /\ From(screen, ev) /\ Stays(screen, to)
  BY ToLeads DEF ViewInv
<1>2. screen' = to /\ view' = ViewOf(to) /\ decided' = (to = "result" /\ f.ev # "result")
  BY DEF Enter
<1> HIDE DEF to
<1>3. to \in Screens
  BY <1>1 DEF Leads
<1>4. ViewInv'
  <2>1. to = "lobby" => view' = "lobby"
    BY <1>2 DEF ViewOf
  <2>2. to = "waiting" => view' = "queue"
    BY <1>2 DEF ViewOf
  <2>3. to = "history" => view' = "history"
    BY <1>2 DEF ViewOf
  <2>4. to \in {"locked", "result"} => view' = "game"
    BY <1>1, <1>2 DEF ViewOf, Stays, ViewInv
  <2>5. to \in {"matched", "countdown", "shoot"} => view' = "game"
    BY <1>2 DEF ViewOf
  <2> QED BY <1>2, <1>3, <2>1, <2>2, <2>3, <2>4, <2>5 DEF ViewInv, InGame
<1> QED BY <1>1, <1>2, <1>4 DEF to

(* A step that leaves seat and stream alone, and takes nothing from the page   *)
(* that the invariant looks at.                                                *)
Keeps ==
    /\ Plays => Plays'
    /\ screen = "waiting" => screen' = "waiting" \/ "cancel" \in asked'
    /\ "cancel" \in asked => "cancel" \in asked'
    /\ Promised => Promised'
    /\ screen' = "waiting" => screen = "waiting"
    /\ Searching => Searching'
    /\ screen' \in InGame => screen \in InGame

Still == UNCHANGED <<seats, round, phase, heard, wire>>

LEMMA StillAgrees ==
  ASSUME FeedInv, Agreed, Still, Keeps
  PROVE  Agreed'
<1>1. UNCHANGED <<queueing, invite, playing, match, wire>> /\ InRound' = InRound /\ Seat' = Seat
  BY NothingDone DEF Still, seats
<1>2. Plays \in BOOLEAN /\ Plays' \in BOOLEAN
  BY DEF Plays
<1>3. RoundInv'
  <2>1. InRound => Opened(wire, match, Plays')
    BY <1>2, OpenedSo DEF Agreed, RoundInv, Keeps
  <2> QED BY <1>1, <2>1 DEF RoundInv
<1>4. QueueInv'
  BY <1>1 DEF Agreed, QueueInv, Keeps
<1>5. InviteInv'
  <2>1. Answerable => Answerable'
    BY <1>1 DEF Answerable
  <2> QED BY <1>1, <2>1 DEF Agreed, InviteInv, Keeps
<1>6. WaitInv'
  BY <1>1 DEF Agreed, WaitInv, Keeps
<1>7. GameInv'
  BY <1>1 DEF Agreed, GameInv, Keeps
<1> QED BY <1>3, <1>4, <1>5, <1>6, <1>7 DEF Agreed

LEMMA StillKeeps ==
  ASSUME PageInv, Still, ViewInv', NetType', adrift' = "" => adrift = "" /\ Keeps
  PROVE  PageInv'
<1>1. FeedInv'
  BY NothingDone DEF PageInv, Still
<1>2. adrift' = "" => Agreed'
  BY StillAgrees DEF PageInv
<1> QED BY <1>1, <1>2 DEF PageInv

-----------------------------------------------------------------------------
(* The buttons, the answers and the timers. *)
LEMMA GoDoes ==
  ASSUME ViewInv, NEW ev, ev # "climb", Go(ev)
  PROVE  ViewInv' /\ Leads(ev, screen') /\ From(screen, ev)
<1>1. Takes(screen, ev) /\ Enter(To(screen, ev), NoFrame)
  BY DEF Go
<1> QED BY <1>1, EnterDoes

LEMMA ButtonsKeep ==
  ASSUME PageInv,
         \/ \E m \in {"online", "cpu"} : OpenChoose(m)
         \/ Back \/ StartMatch \/ PlayAgain \/ ChangeMode \/ OpenHistory \/ Cancel \/ Search
  PROVE  PageInv'
<1> USE DEF PageInv
<1>1. Still /\ adrift' = adrift
  BY DEF OpenChoose, Back, StartMatch, PlayAgain, ChangeMode, OpenHistory, Cancel, Search,
         Still, feed, server, told, link
<1>2. CASE \/ \E m \in {"online", "cpu"} : OpenChoose(m)
           \/ Back \/ StartMatch \/ PlayAgain
  <2>1. screen' = screen /\ decided' = decided /\ answers' = answers
    BY <1>2 DEF OpenChoose, Back, StartMatch, PlayAgain, Show, PressButton, Ask, net
  <2>2. ViewInv'
    BY <1>2, <2>1 DEF ViewInv, OpenChoose, Back, StartMatch, PlayAgain, Show, PressButton, Screens, State, InGame
  <2>3. \E A \in SUBSET Requests : asked' = asked \union A
    <3>1. CASE \/ \E m \in {"online", "cpu"} : OpenChoose(m)
               \/ Back
      <4>1. asked' = asked \union {}
        BY <3>1 DEF OpenChoose, Back, net
      <4> QED BY <4>1
    <3>2. CASE StartMatch
      <4>1. asked' = asked \union {IF mode = "online" THEN "challenge" ELSE "cpu"}
        BY <3>2 DEF StartMatch, Ask
      <4> QED BY <4>1 DEF Requests
    <3>3. CASE PlayAgain
      <4>1. asked' = asked \union {IF solo THEN "rematch cpu" ELSE "rematch"}
        BY <3>3 DEF PlayAgain, Ask
      <4> QED BY <4>1 DEF Requests
    <3> QED BY <1>2, <3>1, <3>2, <3>3
  <2>4. NetType'
    BY <2>1, <2>3 DEF NetType
  <2>5. Keeps
    BY <2>1, <2>3 DEF Keeps, Plays, Promised, Searching
  <2> QED BY <1>1, <2>2, <2>4, <2>5, StillKeeps
<1>3. CASE ChangeMode \/ OpenHistory \/ Cancel
  <2>1. screen \in {"history", "lobby", "waiting"} \/ (screen = "result" /\ decided)
    BY <1>3 DEF ChangeMode, OpenHistory, Cancel, AtEnd, ViewInv, Screens, State, InGame
  <2>2. ViewInv' /\ screen' \in {"lobby", "history"}
    <3>1. CASE ChangeMode
      BY <3>1, GoDoes DEF ChangeMode, Leads
    <3>2. CASE OpenHistory
      BY <3>2, GoDoes DEF OpenHistory, Leads
    <3>3. CASE Cancel
      BY <3>3, GoDoes DEF Cancel, Leads
    <3> QED BY <1>3, <3>1, <3>2, <3>3
  <2>3. answers' = answers /\ (asked' = asked \/ asked' = asked \union {"cancel"})
        /\ (screen = "waiting" => asked' = asked \union {"cancel"})
    BY <1>3, <2>1 DEF ChangeMode, OpenHistory, Cancel, AtEnd, net, Ask, ViewInv, Screens, State, InGame
  <2>4. NetType'
    BY <2>3 DEF NetType, Requests
  <2>5. Keeps
    BY <2>1, <2>2, <2>3 DEF Keeps, Plays, Promised, Searching, InGame
  <2> QED BY <1>1, <2>2, <2>4, <2>5, StillKeeps
<1>4. CASE Search
  <2>1. UNCHANGED <<screen, view, decided, answers>> /\ asked' = asked \union {"search"}
    BY <1>4 DEF Search, Ask
  <2>2. ViewInv'
    BY <2>1 DEF ViewInv
  <2>3. NetType'
    BY <2>1 DEF NetType, Requests
  <2>4. Keeps
    BY <2>1 DEF Keeps, Plays, Promised, Searching
  <2> QED BY <1>1, <2>2, <2>3, <2>4, StillKeeps
<1> QED BY <1>2, <1>3, <1>4

LEMMA TimersKeep ==
  ASSUME PageInv, Failsafe \/ Acknowledge \/ LocalPun \/ Lock
  PROVE  PageInv'
<1> USE DEF PageInv
<1>1. Still /\ adrift' = adrift
  <2>1. CASE Failsafe \/ LocalPun \/ Lock
    BY <2>1 DEF Failsafe, LocalPun, Lock, Still, feed, server, told, link
  <2>2. CASE Acknowledge
    BY <2>2 DEF Acknowledge, TakeReady, Still, told, link
  <2> QED BY <2>1, <2>2
<1>2. CASE Failsafe \/ Acknowledge
  <2>1. UNCHANGED <<screen, view, decided, asked, answers>>
    BY <1>2 DEF Failsafe, Acknowledge, local, net
  <2>2. ViewInv' /\ NetType' /\ Keeps
    BY <2>1 DEF ViewInv, NetType, Keeps, Plays, Promised, Searching
  <2> QED BY <1>1, <2>2, StillKeeps
<1>3. CASE LocalPun \/ Lock
  <2>1. screen \in {"countdown", "shoot"} /\ ViewInv' /\ screen' \in InGame
    <3>1. CASE LocalPun
      BY <3>1, GoDoes DEF LocalPun, Leads
    <3>2. CASE Lock
      <4>1. screen = "shoot" /\ (Go("lock") \/ Go("move"))
        BY <3>2 DEF Lock
      <4> QED BY <4>1, GoDoes DEF Leads
    <3> QED BY <1>3, <3>1, <3>2
  <2>2. answers' = answers /\ (asked' = asked \/ asked' = asked \union {"move"})
    BY <1>3 DEF LocalPun, Lock, net, Ask
  <2>3. NetType'
    BY <2>2 DEF NetType, Requests
  <2>4. Keeps
    BY <2>1, <2>2 DEF Keeps, Plays, Promised, Searching, InGame
  <2> QED BY <1>1, <2>1, <2>3, <2>4, StillKeeps
<1> QED BY <1>2, <1>3

LEMMA RefusalsKeep ==
  ASSUME PageInv, NEW what \in asked, Refused(what)
  PROVE  PageInv'
<1> USE DEF PageInv
<1>1. Still /\ UNCHANGED <<screen, view, decided>>
  BY DEF Refused, Still, feed, server, told, link, local
<1>2. /\ asked' = asked \ {what}
      /\ answers' = answers \/ answers' = answers \union {[to |-> what, ok |-> FALSE]}
      /\ what \in Requests
  BY DEF Refused, Answer, NetType
<1>3. adrift' = "" => adrift = "" /\ what \notin {"queue", "cancel", "search"}
  BY DEF Refused, Part
<1>4. ViewInv'
  BY <1>1 DEF ViewInv
<1>5. NetType'
  <2>1. [to |-> what, ok |-> FALSE] \in [to : Requests, ok : BOOLEAN]
    BY <1>2
  <2>2. asked' \subseteq Requests
    BY <1>2 DEF NetType
  <2>3. answers' \subseteq [to : Requests, ok : BOOLEAN]
    BY <1>2, <2>1 DEF NetType
  <2> QED BY <2>2, <2>3 DEF NetType
<1>6. adrift' = "" => adrift = "" /\ Keeps
  BY <1>1, <1>2, <1>3 DEF Keeps, Plays, Promised, Searching
<1> QED BY <1>1, <1>4, <1>5, <1>6, StillKeeps

LEMMA AnswersKeep ==
  ASSUME PageInv, NEW a \in answers, Answered(a)
  PROVE  PageInv'
<1> USE DEF PageInv
<1>1. /\ answers' = answers \ {a}
      /\ asked' = IF a.to = "search" THEN asked \union {"queue"} ELSE asked
      /\ a.to \in Requests /\ a.ok \in BOOLEAN
      /\ UNCHANGED feed
  BY DEF Answered, NetType
<1>2. Still
  BY <1>1 DEF Still, feed, server, told, link
<1>3. NetType'
  BY <1>1 DEF NetType, Requests
<1>4. Searching => Searching'
  BY <1>1 DEF Searching
<1>5. CASE a.to \in {"challenge", "rematch"} /\ a.ok
  <2> DEFINE ev == IF a.to = "challenge" THEN "queue" ELSE "rematch:online"
  <2>1. Minted(ev)
    BY <1>5 DEF Answered
  <2>2. adrift' = "" => adrift = "" /\ invite /\ Takes(screen, ev)
    BY <1>5 DEF Answered, Part
  <2>a. ev \in {"queue", "rematch:online"}
    OBVIOUS
  <2> HIDE DEF ev
  <2>3. ViewInv'
    <3>1. CASE Takes(screen, ev)
      BY <2>1, <2>a, <3>1, EnterDoes DEF Minted
    <3>2. CASE ~Takes(screen, ev)
      BY <2>1, <3>2 DEF Minted, ViewInv
    <3> QED BY <3>1, <3>2
  <2>4. adrift' = "" => screen' = "waiting"
    <3>1. Takes(screen, ev) => Enter(To(screen, ev), NoFrame)
      BY <2>1 DEF Minted
    <3>2. Takes(screen, ev) => Leads(ev, screen')
      BY <2>a, <3>1, EnterDoes
    <3> QED BY <2>2, <2>a, <3>2 DEF Leads
  <2>5. FeedInv' /\ InRound' = InRound /\ Seat' = Seat /\ UNCHANGED <<playing, queueing, invite>>
    BY <1>2, NothingDone DEF Still, seats
  <2>6. adrift' = "" => Agreed'
    <3> SUFFICES ASSUME adrift' = "" PROVE Agreed'
      OBVIOUS
    <3>1. invite /\ ~playing /\ ~queueing /\ screen' = "waiting"
      BY <2>2, <2>4 DEF FeedInv, SeatsInv
    <3>2. ~InRound' /\ Seat' = "waiting"
      BY <2>5, <3>1 DEF InRound, Seat
    <3> QED BY <2>5, <3>1, <3>2 DEF Agreed, RoundInv, QueueInv, InviteInv, WaitInv, GameInv, InGame
  <2> QED BY <1>3, <2>3, <2>5, <2>6
<1>6. CASE ~(a.to \in {"challenge", "rematch"} /\ a.ok)
  <2>1. adrift' = "" => adrift = ""
    BY DEF Answered, Part
  <2>2. Promised => Promised'
    BY <1>1, <1>6 DEF Promised
  <2>3. CASE UNCHANGED <<screen, view, decided>>
    <3>1. ViewInv' /\ Keeps
      BY <1>1, <1>4, <2>2, <2>3 DEF ViewInv, Keeps, Plays
    <3> QED BY <1>2, <1>3, <2>1, <3>1, StillKeeps
  <2>4. CASE Go("reject")
    <3>1. ViewInv' /\ screen \in {"shoot", "locked"} /\ screen' \in InGame
      BY <2>4, GoDoes DEF Leads, From
    <3>2. Keeps
      BY <1>1, <1>4, <2>2, <3>1 DEF Keeps, Plays, InGame
    <3> QED BY <1>2, <1>3, <2>1, <3>1, <3>2, StillKeeps
  <2>5. UNCHANGED <<screen, view, decided>> \/ Go("reject")
    <3>1. CASE a.to \in {"challenge", "cpu", "rematch", "rematch cpu"} /\ ~a.ok
      <4>1. \E m : Rearm(m)
        BY <3>1 DEF Answered
      <4> QED BY <4>1 DEF Rearm
    <3>2. CASE a.to = "move" /\ ~a.ok
      <4>1. Rejected
        BY <3>2 DEF Answered
      <4> QED BY <4>1 DEF Rejected, local
    <3>3. CASE a.to \in {"cancel", "search", "queue"} \/ a.ok
      <4>1. UNCHANGED <<screen, local>>
        BY <1>1, <1>6, <3>3 DEF Answered
      <4> QED BY <4>1 DEF local
    <3> QED BY <1>1, <3>1, <3>2, <3>3 DEF Requests
  <2> QED BY <2>3, <2>4, <2>5
<1> QED BY <1>5, <1>6

-----------------------------------------------------------------------------
(* The frames. What the page reads in each. *)
Snapshots == {"snapshot:idle", "snapshot:waiting", "snapshot:matched", "snapshot:countdown",
              "snapshot:shoot"}

LEMMA Means ==
  ASSUME NEW f \in Message, NEW ev \in Events(f)
  PROVE  /\ ev # "climb"
         /\ f.ev = "connected" =>
               /\ ev \in Snapshots
               /\ f.state = "idle" => ev = "snapshot:idle"
               /\ f.state = "waiting" => ev = "snapshot:waiting"
               /\ f.state = "ingame" => ev # "snapshot:waiting"
         /\ f.ev = "idle" => ev = "stateIdle"
         /\ f.ev = "requeued" => ev = "waiting"
         /\ f.ev \in {"result", "final"} => ev = "result"
         /\ f.ev \in {"opponentLeft", "forfeitWin", "forfeitLoss"} => ev = "opponentLeft"
         /\ f.ev \in {"matched", "countdown", "shoot", "waiting", "none"} => ev = f.ev
<1>1. CASE f.ev = "connected"
  <2>1. ev \in SnapshotEvent(f)
    BY <1>1 DEF Events
  <2>2. f \in Opening
    BY <1>1 DEF Message, Plain, Heard
  <2>3. f.state \in {"ingame", "waiting", "idle"} /\ f.pending \in BOOLEAN
    BY <2>2 DEF Opening
  <2>4. CASE f.state = "idle"
    <3>1. SnapshotEvent(f) = {"snapshot:idle"}
      BY <2>4 DEF SnapshotEvent
    <3> QED BY <1>1, <2>1, <2>4, <3>1 DEF Snapshots
  <2>5. CASE f.state = "waiting"
    <3>1. SnapshotEvent(f) = {"snapshot:waiting"}
      BY <2>5 DEF SnapshotEvent
    <3> QED BY <1>1, <2>1, <2>5, <3>1 DEF Snapshots
  <2>6. CASE f.state = "ingame"
    <3>1. SnapshotEvent(f) \subseteq Snapshots \ {"snapshot:waiting"}
      BY <2>3, <2>6 DEF SnapshotEvent, Snapshots
    <3> QED BY <1>1, <2>1, <2>6, <3>1 DEF Snapshots
  <2> QED BY <2>3, <2>4, <2>5, <2>6
<1>2. CASE f.ev \in {"idle", "requeued"}
  <2>1. ev \in IdleEvent(f)
    BY <1>2 DEF Events
  <2> QED BY <1>2, <2>1 DEF IdleEvent
<1>3. CASE f.ev \in {"result", "final"}
  BY <1>3 DEF Events
<1>4. CASE f.ev \in {"opponentLeft", "forfeitWin", "forfeitLoss"}
  BY <1>4 DEF Events
<1>5. CASE f.ev \in {"matched", "countdown", "shoot", "waiting", "none"}
  BY <1>5 DEF Events
<1>6. f.ev \in Heard \union {"requeued", "waiting", "connected"}
  BY DEF Message, Plain, Opening
<1> QED BY <1>1, <1>2, <1>3, <1>4, <1>5, <1>6 DEF Heard

(* A frame that is read and names no event the screen has an edge for.         *)
LEMMA Unheeded ==
  ASSUME ViewInv, NEW f \in Message, Events(f) = {} \/ \E ev \in Events(f) : ~Takes(screen, ev)
  PROVE  /\ f.ev # "connected"
         /\ f.ev = "matched" => screen \in {"shoot", "locked"}
         /\ f.ev = "idle" => screen \notin InGame \union {"waiting"}
<1>0. screen \in Screens
  BY DEF ViewInv
<1>1. ASSUME f.ev = "connected" PROVE FALSE
  <2>1. \E ev : ev \in SnapshotEvent(f)
    BY DEF SnapshotEvent
  <2>2. PICK ev \in Events(f) : ~Takes(screen, ev)
    BY <1>1, <2>1 DEF Events
  <2>3. ev \in Snapshots
    BY <1>1, Means
  <2> QED BY <1>0, <2>2, <2>3, EdgesAreThere DEF Snapshots
<1>2. ASSUME f.ev = "matched" PROVE screen \in {"shoot", "locked"}
  <2>1. Events(f) = {"matched"}
    BY <1>2 DEF Events
  <2> QED BY <1>0, <2>1, EdgesAreThere
<1>3. ASSUME f.ev = "idle", screen \in InGame \union {"waiting"} PROVE FALSE
  <2>1. Events(f) = {"stateIdle"}
    BY <1>3 DEF Events, IdleEvent, InGame
  <2> QED BY <1>0, <1>3, <2>1, EdgesAreThere
<1> QED BY <1>1, <1>2, <1>3

LEMMA ReceiveKeeps ==
  ASSUME PageInv, Receive
  PROVE  PageInv'
<1> USE DEF PageInv
<1> DEFINE f == wire[1]
<1>1. wire # <<>> /\ asked' = asked /\ answers' = answers
  BY DEF Receive, net
<1>2. PICK ev \in Events(Head(wire)) :
         /\ Takes(screen, ev) /\ Read(Head(wire), ev) /\ Enter(To(screen, ev), Head(wire))
         /\ Part("frame", Declined(Head(wire), ev) \/ Overtaken(Head(wire)))
  BY DEF Receive
<1>3. wire' = Tail(wire) /\ UNCHANGED server
  BY <1>2 DEF Read
<1>4. /\ FeedInv' /\ InRound' = InRound /\ Seat' = Seat
      /\ UNCHANGED <<queueing, invite, playing, requeued, match, heard>>
      /\ Head(wire) = f /\ f \in Message /\ wire \in Seq(Message)
      /\ wire' = <<>> /\ ~playing =>
            /\ Len(wire) = 1 /\ f.ev \in {"connected", "idle", "requeued", "waiting"}
            /\ queueing => f.ev # "idle"
      /\ Answerable => Answerable' \/ f.ev = "connected"
  BY <1>1, <1>3, TakenOff
<1>5. /\ ev # "climb"
      /\ f.ev = "connected" =>
            /\ ev \in Snapshots
            /\ f.state = "idle" => ev = "snapshot:idle"
            /\ f.state = "waiting" => ev = "snapshot:waiting"
            /\ f.state = "ingame" => ev # "snapshot:waiting"
      /\ f.ev = "idle" => ev = "stateIdle"
      /\ f.ev = "requeued" => ev = "waiting"
      /\ f.ev \in {"result", "final"} => ev = "result"
      /\ f.ev \in {"opponentLeft", "forfeitWin", "forfeitLoss"} => ev = "opponentLeft"
      /\ f.ev \in {"matched", "countdown", "shoot", "waiting", "none"} => ev = f.ev
  BY <1>2, <1>4, Means
<1>6. /\ ViewInv' /\ Leads(ev, screen') /\ From(screen, ev)
      /\ decided' = (screen' = "result" /\ f.ev # "result")
  BY <1>2, <1>4, <1>5, EnterDoes
<1>7. adrift' = "" => adrift = "" /\ ~Declined(f, ev) /\ ~Overtaken(f)
  BY <1>2, <1>4 DEF Part
<1> HIDE DEF f
<1>8. NetType' /\ Promised' = Promised /\ Searching' = Searching
  BY <1>1 DEF NetType, Promised, Searching
<1>9. ASSUME adrift' = "" PROVE Agreed'
  <2>1. Agreed /\ ~Declined(f, ev)
    BY <1>7, <1>9
  <2>2. /\ f.ev = "connected" => f.state = Seat
        /\ f.ev \in {"idle", "matched"} => ~invite
        /\ f.ev = "waiting" /\ Seat = "idle" => Len(wire) # 1
        /\ f.ev = "requeued" => queueing
    BY <1>7, <1>9 DEF Overtaken
  <2>3. Seat = IF playing THEN "ingame" ELSE IF invite \/ queueing THEN "waiting" ELSE "idle"
    BY DEF Seat
  <2>4. RoundInv'
    <3> SUFFICES ASSUME InRound' PROVE Opened(wire', match', Plays')
      BY DEF RoundInv
    <3>1. InRound /\ Seat = "ingame"
      BY <1>4, <2>3 DEF InRound
    <3>2. Opened(wire, match, Plays)
      BY <2>1, <3>1 DEF Agreed, RoundInv
    <3>3. ASSUME Opens(f, match) \/ (Plays /\ Goes(f, match)) PROVE Plays'
      <4>1. CASE f.ev = "connected"
        <5>1. ev \in {"snapshot:matched", "snapshot:countdown", "snapshot:shoot"}
          BY <1>5, <2>1, <2>2, <3>1, <4>1 DEF Declined, Snapshots
        <5> QED BY <1>6, <5>1 DEF Leads, Plays
      <4>2. CASE f.ev \in {"matched", "countdown", "shoot"}
        BY <1>5, <1>6, <4>2 DEF Leads, Plays
      <4>3. CASE f.ev = "result"
        BY <1>5, <1>6, <4>3 DEF Leads, Plays
      <4> QED BY <3>3, <4>1, <4>2, <4>3 DEF Opens, Goes
    <3>4. Plays \in BOOLEAN /\ Plays' \in BOOLEAN
      BY DEF Plays
    <3>5. Opened(Tail(wire), match, Plays')
      BY <1>1, <1>4, <3>2, <3>3, <3>4, OpenedRead DEF f
    <3> QED BY <1>3, <1>4, <3>5
  <2>5. QueueInv'
    <3> SUFFICES ASSUME ~playing, queueing, wire' = <<>> PROVE screen' = "waiting"
      BY <1>4 DEF QueueInv
    <3>1. Seat = "waiting" /\ f.ev \in {"connected", "requeued", "waiting"}
      BY <1>4, <2>3
    <3>2. ev \in {"snapshot:waiting", "waiting"}
      BY <1>5, <2>2, <3>1
    <3> QED BY <1>6, <3>2 DEF Leads
  <2>6. InviteInv'
    <3> SUFFICES ASSUME ~playing, invite, ~Promised', "cancel" \notin asked', ~Answerable'
                 PROVE  screen' = "waiting"
      BY <1>4 DEF InviteInv
    <3>1. screen = "waiting" \/ Answerable
      BY <1>1, <1>8, <2>1 DEF Agreed, InviteInv
    <3>2. Seat = "waiting" /\ ~queueing
      BY <2>3 DEF FeedInv, SeatsInv
    <3>3. CASE f.ev = "connected"
      BY <1>5, <1>6, <2>2, <3>2, <3>3 DEF Leads
    <3>4. CASE f.ev # "connected"
      <4>1. screen = "waiting"
        BY <1>4, <3>1, <3>4
      <4>2. f.ev \notin {"idle", "matched", "requeued"}
        BY <2>2, <3>2
      <4>3. f.ev = "waiting"
        <5>1. ev \notin {"result", "opponentLeft", "countdown", "shoot", "none"}
          BY <1>6, <4>1 DEF From, InGame
        <5>2. f.ev \in Heard \union {"requeued", "waiting"}
          BY <1>4, <3>4 DEF Message, Plain, Opening
        <5> QED BY <1>5, <4>2, <5>1, <5>2 DEF Heard
      <4> QED BY <1>5, <1>6, <4>3 DEF Leads
    <3> QED BY <3>3, <3>4
  <2>7. ~playing /\ wire' = <<>> =>
            /\ screen' \notin InGame
            /\ Seat = "idle" => screen' # "waiting"
    <3> SUFFICES ASSUME ~playing, wire' = <<>>
                 PROVE  screen' \notin InGame /\ (Seat = "idle" => screen' # "waiting")
      OBVIOUS
    <3>1. Len(wire) = 1 /\ f.ev \in {"connected", "idle", "requeued", "waiting"} /\ Seat # "ingame"
      BY <1>4, <2>3
    <3>2. CASE f.ev = "connected"
      <4>1. ev = IF Seat = "idle" THEN "snapshot:idle" ELSE "snapshot:waiting"
        BY <1>5, <2>2, <2>3, <3>1, <3>2
      <4> QED BY <1>6, <4>1 DEF Leads, InGame
    <3>3. CASE f.ev = "idle"
      BY <1>5, <1>6, <3>3 DEF Leads, InGame
    <3>4. CASE f.ev \in {"requeued", "waiting"}
      <4>1. screen' = "waiting"
        BY <1>5, <1>6, <3>4 DEF Leads
      <4>2. Seat # "idle"
        BY <2>2, <2>3, <3>1, <3>4
      <4> QED BY <4>1, <4>2 DEF InGame
    <3> QED BY <3>1, <3>2, <3>3, <3>4
  <2>8. WaitInv' /\ GameInv'
    <3>1. Seat = "idle" => ~playing
      BY <2>3
    <3> QED BY <1>4, <2>7, <3>1 DEF WaitInv, GameInv
  <2> QED BY <2>4, <2>5, <2>6, <2>8 DEF Agreed
<1> QED BY <1>4, <1>6, <1>8, <1>9

LEMMA DropKeeps ==
  ASSUME PageInv, Drop
  PROVE  PageInv'
<1> USE DEF PageInv
<1> DEFINE f == wire[1]
<1>1. /\ wire # <<>> /\ wire' = Tail(wire)
      /\ UNCHANGED <<server, screen, view, decided, asked, answers>>
      /\ Events(Head(wire)) = {} \/ \E ev \in Events(Head(wire)) : ~Takes(screen, ev)
  BY DEF Drop, Ignored, local, net
<1>2. /\ FeedInv' /\ InRound' = InRound /\ Seat' = Seat
      /\ UNCHANGED <<queueing, invite, playing, requeued, match, heard>>
      /\ Head(wire) = f /\ f \in Message /\ wire \in Seq(Message)
      /\ wire' = <<>> /\ ~playing =>
            /\ Len(wire) = 1 /\ f.ev \in {"connected", "idle", "requeued", "waiting"}
            /\ queueing => f.ev # "idle"
      /\ Answerable => Answerable' \/ f.ev = "connected"
  BY <1>1, TakenOff
<1>3. /\ f.ev # "connected"
      /\ f.ev = "matched" => screen \in {"shoot", "locked"}
      /\ f.ev = "idle" => screen \notin InGame \union {"waiting"}
  BY <1>1, <1>2, Unheeded
<1>4. adrift' = "" => adrift = "" /\ f.ev \notin {"requeued", "waiting"}
  BY <1>2 DEF Drop, Part
<1>5. ViewInv' /\ NetType' /\ Plays' = Plays /\ Promised' = Promised /\ Searching' = Searching
  BY <1>1 DEF ViewInv, NetType, Plays, Promised, Searching
<1> HIDE DEF f
<1>6. ASSUME adrift' = "" PROVE Agreed'
  <2>1. Agreed /\ f.ev \notin {"requeued", "waiting", "connected"}
    BY <1>3, <1>4, <1>6
  <2>2. wire' = <<>> /\ ~playing => ~queueing /\ screen \notin InGame \union {"waiting"}
    BY <1>2, <1>3, <2>1
  <2>3. RoundInv'
    <3> SUFFICES ASSUME InRound' PROVE Opened(wire', match', Plays')
      BY DEF RoundInv
    <3>1. Opened(wire, match, Plays)
      BY <1>2, <2>1 DEF Agreed, RoundInv
    <3>2. Opens(f, match) \/ (Plays /\ Goes(f, match)) => Plays
      BY <1>3 DEF Opens, Plays, InGame
    <3>3. Plays \in BOOLEAN
      BY DEF Plays
    <3>4. Opened(Tail(wire), match, Plays)
      BY <1>1, <1>2, <3>1, <3>2, <3>3, OpenedRead DEF f
    <3> QED BY <1>1, <1>2, <1>5, <3>4
  <2>4. QueueInv' /\ InviteInv'
    BY <1>1, <1>2, <1>5, <2>1, <2>2 DEF Agreed, QueueInv, InviteInv
  <2>5. WaitInv' /\ GameInv'
    <3>1. Seat = "idle" => ~playing
      BY DEF Seat
    <3> QED BY <1>1, <1>2, <2>2, <3>1 DEF WaitInv, GameInv
  <2> QED BY <2>3, <2>4, <2>5 DEF Agreed
<1> QED BY <1>2, <1>5, <1>6

-----------------------------------------------------------------------------
(* The requests the server takes. *)
LEMMA GrantedKeeps ==
  ASSUME PageInv, NEW what \in asked, Granted(what)
  PROVE  PageInv'
<1> USE DEF PageInv
<1> DEFINE a == [to |-> what, ok |-> TRUE]
<1>1. /\ asked' = asked \ {what} /\ what \in Requests
      /\ answers' = IF what \in {"cancel", "queue"} THEN answers ELSE answers \union {a}
      /\ UNCHANGED <<screen, view, decided>>
  BY DEF Granted, Answer, NetType, local
<1>2. a \in [to : Requests, ok : BOOLEAN] /\ a.to = what /\ a.ok
  BY <1>1
<1> HIDE DEF a
<1>3. ViewInv' /\ Plays' = Plays
  BY <1>1 DEF ViewInv, Plays
<1>4. NetType'
  <2>1. asked' \subseteq Requests
    BY <1>1 DEF NetType
  <2>2. answers' \subseteq [to : Requests, ok : BOOLEAN]
    BY <1>1, <1>2 DEF NetType
  <2> QED BY <2>1, <2>2 DEF NetType
<1>5. adrift' = "" => adrift = "" /\ ~(what = "cancel" /\ screen = "waiting" /\ ~queueing)
  BY DEF Granted, Part
<1>6. Seat' = IF playing' THEN "ingame" ELSE IF invite' \/ queueing' THEN "waiting" ELSE "idle"
  BY DEF Seat
<1>7. CASE what \in {"challenge", "rematch"}
  <2>1. FeedInv' /\ ~playing /\ ~playing' /\ ~queueing' /\ invite' /\ wire' = wire
    <3>1. TakeChallenge
      BY <1>7 DEF Granted
    <3> QED BY <3>1, ChallengeDoes
  <2>2. Promised'
    BY <1>1, <1>2, <1>7 DEF Promised
  <2>3. adrift' = "" => Agreed'
    BY <1>1, <1>5, <1>6, <2>1, <2>2
       DEF Agreed, RoundInv, QueueInv, InviteInv, WaitInv, GameInv, InRound
  <2> QED BY <1>3, <1>4, <2>1, <2>3
<1>8. CASE what \in {"cpu", "rematch cpu"}
  <2>1. FeedInv' /\ playing' /\ ~InRound'
    <3>1. Begin(TRUE, FALSE)
      BY <1>8 DEF Granted, TakeCPU
    <3> QED BY <3>1, BeginDoes
  <2>2. Agreed'
    BY <1>6, <2>1 DEF Agreed, RoundInv, QueueInv, InviteInv, WaitInv, GameInv
  <2> QED BY <1>3, <1>4, <2>1, <2>2
<1>9. CASE what \in {"cancel", "search"}
  <2>1. /\ FeedInv' /\ ~queueing' /\ ~invite' /\ playing' = playing /\ match' = match
        /\ InRound' = InRound /\ (InRound => wire' = wire)
        /\ queueing => wire' # <<>>
        /\ ~queueing => wire' = wire
    <3>1. TakeCancel
      BY <1>9 DEF Granted
    <3> QED BY <3>1, CancelDoes
  <2>2. ASSUME adrift' = "" PROVE Agreed'
    <3>1. Agreed
      BY <1>5, <2>2
    <3>2. RoundInv'
      BY <1>3, <2>1, <3>1 DEF Agreed, RoundInv
    <3>3. QueueInv' /\ InviteInv'
      BY <2>1 DEF QueueInv, InviteInv
    <3>4. WaitInv'
      <4>1. CASE what = "search"
        <5>1. Searching'
          BY <1>1, <1>2, <4>1 DEF Searching
        <5> QED BY <5>1 DEF WaitInv
      <4>2. CASE what = "cancel"
        BY <1>1, <1>5, <2>1, <2>2, <4>2 DEF WaitInv
      <4> QED BY <1>9, <4>1, <4>2
    <3>5. GameInv'
      BY <1>1, <2>1, <3>1 DEF Agreed, GameInv
    <3> QED BY <3>2, <3>3, <3>4, <3>5 DEF Agreed
  <2> QED BY <1>3, <1>4, <2>1, <2>2
<1>10. CASE what = "queue"
  <2>1. FeedInv' /\ ~playing' /\ queueing' /\ ~invite' /\ wire' # <<>>
    <3>1. TakeQueue
      BY <1>10 DEF Granted
    <3> QED BY <3>1, QueueDoes
  <2>2. Agreed'
    BY <2>1 DEF Agreed, RoundInv, QueueInv, InviteInv, WaitInv, GameInv, InRound
  <2> QED BY <1>3, <1>4, <2>1, <2>2
<1>11. CASE what = "move"
  <2>1. UNCHANGED feed
    BY <1>11 DEF Granted
  <2>2. Still
    BY <2>1 DEF Still, feed, server, told, link
  <2>3. Keeps
    BY <1>1, <1>11 DEF Keeps, Plays, Promised, Searching
  <2> QED BY <1>3, <1>4, <1>5, <2>2, <2>3, StillKeeps
<1> QED BY <1>1, <1>7, <1>8, <1>9, <1>10, <1>11 DEF Requests

(* The watchdog, which brings a snapshot of whatever the seat is. *)
LEMMA StalledKeeps ==
  ASSUME PageInv, Stalled
  PROVE  PageInv'
<1> USE DEF PageInv
<1>1. UNCHANGED <<server, screen, view, decided, asked, answers, adrift>>
  BY DEF Stalled, net
<1>2. ViewInv' /\ NetType' /\ Plays' = Plays
  BY <1>1 DEF ViewInv, NetType, Plays
<1>3. CASE Reconnect
  <2>1. /\ FeedInv' /\ wire' # <<>> /\ Answerable'
        /\ InRound' => \A p \in BOOLEAN : (InRound => Opened(wire, match, p)) => Opened(wire', match', p)
    BY <1>1, <1>3, AttachDoes
  <2>2. Plays \in BOOLEAN
    BY DEF Plays
  <2>3. adrift' = "" => RoundInv'
    BY <1>1, <1>2, <2>1, <2>2 DEF Agreed, RoundInv
  <2>4. QueueInv' /\ InviteInv' /\ WaitInv' /\ GameInv'
    BY <2>1 DEF QueueInv, InviteInv, WaitInv, GameInv
  <2> QED BY <1>2, <2>1, <2>3, <2>4 DEF Agreed
<1>4. CASE wire' = wire
  <2>1. Still
    BY <1>1, <1>4 DEF Still, server, told
  <2>2. Keeps
    BY <1>1, <1>2 DEF Keeps, Promised, Searching
  <2> QED BY <1>1, <1>2, <2>1, <2>2, StillKeeps
<1> QED BY <1>3, <1>4 DEF Stalled

(* The server's own steps, and what befalls the stream. *)
LEMMA ElsewhereKeeps ==
  ASSUME PageInv, Elsewhere
  PROVE  PageInv'
<1> USE DEF PageInv
<1>1. UNCHANGED <<screen, view, decided>>
  BY DEF Elsewhere, local
<1>2. ViewInv' /\ Plays' = Plays
  BY <1>1 DEF ViewInv, Plays
<1>3. CASE /\ Serve \/ Reattach \/ Return
           /\ adrift' = adrift
           /\ NetType'
  <2>1. /\ FeedInv' /\ (~playing' => wire' # <<>>) /\ (invite' => Answerable')
        /\ InRound' => \A p \in BOOLEAN : (InRound => Opened(wire, match, p)) => Opened(wire', match', p)
    BY <1>3, ElsewhereDoes
  <2>2. Plays \in BOOLEAN
    BY DEF Plays
  <2>3. adrift' = "" => RoundInv'
    BY <1>2, <1>3, <2>1, <2>2 DEF Agreed, RoundInv
  <2>4. Seat' = "idle" => ~playing'
    BY DEF Seat
  <2>5. QueueInv' /\ InviteInv' /\ WaitInv' /\ GameInv'
    BY <2>1, <2>4 DEF QueueInv, InviteInv, WaitInv, GameInv
  <2> QED BY <1>2, <1>3, <2>1, <2>3, <2>5 DEF Agreed
<1>4. CASE (Serve \/ Reattach) /\ UNCHANGED <<adrift, net>>
  <2>1. NetType' /\ adrift' = adrift
    BY <1>4 DEF net, NetType
  <2> QED BY <1>3, <1>4, <2>1
<1>5. CASE /\ Return /\ UNCHANGED adrift
           /\ asked' = {} /\ answers' = answers \union {[to |-> w, ok |-> FALSE] : w \in asked}
  <2>1. \A w \in Requests : [to |-> w, ok |-> FALSE] \in [to : Requests, ok : BOOLEAN]
    OBVIOUS
  <2>2. answers' \subseteq [to : Requests, ok : BOOLEAN]
    BY <1>5, <2>1 DEF NetType
  <2>3. NetType'
    BY <1>5, <2>2 DEF NetType
  <2> QED BY <1>3, <1>5, <2>3
<1>6. CASE Lose /\ Part("lost", TRUE) /\ UNCHANGED net
  <2>1. FeedInv'
    BY <1>6, TakenOff DEF Lose
  <2>2. NetType' /\ adrift' # ""
    BY <1>6 DEF net, NetType, Part
  <2> QED BY <1>2, <2>1, <2>2
<1> QED BY <1>4, <1>5, <1>6 DEF Elsewhere

-----------------------------------------------------------------------------
LEMMA PageInit ==
  Init => PageInv
<1> SUFFICES ASSUME Init PROVE PageInv
  OBVIOUS
<1>1. /\ screen = "lobby" /\ view = "lobby" /\ asked = {} /\ answers = {}
      /\ queueing = FALSE /\ invite = FALSE /\ playing = FALSE /\ requeued = FALSE /\ cpu = FALSE
      /\ match = 0 /\ round = 1 /\ phase = "done" /\ heard = [p \in {Me} |-> "idle"] /\ wire = <<>>
  BY DEF Init, FeedInit
<1>2. heard \in [{Me} -> Heard] /\ wire \in Seq(Message) /\ phase \in Phases
  BY <1>1 DEF Heard, Phases
<1>3. FeedInv
  BY <1>1, <1>2 DEF FeedInv, FeedType, SeatsInv
<1>4. ViewInv /\ NetType
  BY <1>1 DEF ViewInv, NetType, Screens, State, InGame
<1>5. Agreed
  BY <1>1 DEF Agreed, RoundInv, QueueInv, InviteInv, WaitInv, GameInv, InRound, InGame
<1> QED BY <1>3, <1>4, <1>5 DEF PageInv

LEMMA PageStep ==
  PageInv /\ [Next]_vars => PageInv'
<1> SUFFICES ASSUME PageInv, [Next]_vars PROVE PageInv'
  OBVIOUS
<1>1. CASE Receive
  BY <1>1, ReceiveKeeps
<1>2. CASE Drop
  BY <1>2, DropKeeps
<1>3. CASE \/ \E m \in {"online", "cpu"} : OpenChoose(m)
           \/ Back \/ StartMatch \/ PlayAgain \/ ChangeMode \/ OpenHistory \/ Cancel \/ Search
  BY <1>3, ButtonsKeep
<1>4. CASE \E what \in asked : Granted(what) \/ Refused(what)
  BY <1>4, GrantedKeeps, RefusalsKeep
<1>5. CASE \E a \in answers : Answered(a)
  BY <1>5, AnswersKeep
<1>6. CASE Failsafe \/ Acknowledge \/ LocalPun \/ Lock
  BY <1>6, TimersKeep
<1>7. CASE Stalled
  BY <1>7, StalledKeeps
<1>8. CASE Elsewhere
  BY <1>8, ElsewhereKeeps
<1>9. CASE UNCHANGED vars
  <2>1. UNCHANGED feed /\ UNCHANGED <<screen, local, net, adrift>>
    BY <1>9 DEF vars
  <2>2. Still /\ UNCHANGED <<screen, view, decided, asked, answers, adrift>>
    BY <2>1 DEF Still, feed, server, told, link, local, net
  <2>3. ViewInv' /\ NetType' /\ Keeps
    BY <2>2 DEF PageInv, ViewInv, NetType, Keeps, Plays, Promised, Searching
  <2> QED BY <2>2, <2>3, StillKeeps
<1> QED BY <1>1, <1>2, <1>3, <1>4, <1>5, <1>6, <1>7, <1>8, <1>9 DEF Next

LEMMA PageKept == Spec => []PageInv
BY PageInit, PageStep, PTL DEF Spec

(* Screen and seat agree. Once every frame, request and answer under way has   *)
(* arrived, and none of the six things that part the two has happened, a seat  *)
(* in the queue or behind an invite shows the queue, the queue is shown for    *)
(* nothing else, and a match is on the screen as long as it goes on and no     *)
(* longer: for every number of rounds, matches, breaks, losses, frames and     *)
(* requests (connect, request and the entry handlers of web/app.js).           *)
THEOREM PageStaysAgreed == Spec => []PageAgrees
BY PageKept, PageAgreed, PTL
=============================================================================
