--------------------------- MODULE StorageProofs ---------------------------
(* What the browser keeps of a match: the history (Record.tla) and the ladder  *)
(* (Arcade.tla), both in Client.tla. Theorems for every number of matches,     *)
(* rounds, frames, breaks and losses, and for every number of tabs, fighters   *)
(* and lengths.                                                                *)
EXTENDS Client, SequenceTheorems, FiniteSetTheorems, TLAPS

-----------------------------------------------------------------------------
(* The history. A frame of the stream decides a match, or tells of a round.    *)
Me == History!Me
Told == {"none", "matched", "countdown", "shoot", "result", "final", "opponentLeft",
         "forfeitWin", "forfeitLoss", "idle"}
Phases == {"preparing", "countdown", "shoot", "done"}
Decided == {"final", "opponentLeft", "forfeitWin", "forfeitLoss"}
Deciding(f) == f.ev \in Decided
Telling(f) == f.ev \in {"result", "final"}

(* How a match moves on, in the story its player p sees (Series).              *)
Moves(p) ==
    /\ heard'[p] # heard[p] /\ heard'[p] \in {"result", "final"} =>
          phase = "done" /\ heard[p] = "shoot" /\ phase' = "done"
    /\ heard'[p] # heard[p] /\ heard'[p] \in Decided =>
          phase' = "done" /\ ~(heard[p] \in Decided /\ phase = "done")
    /\ heard[p] \in Decided /\ phase = "done" => phase' = "done" /\ heard'[p] \in {heard[p], "idle"}
    /\ phase = "done" /\ heard[p] # "shoot" /\ phase' # "countdown" => phase' = "done" /\ heard'[p] # "shoot"
    /\ phase \in Phases => phase' \in Phases

LEMMA SoloMoves ==
  ASSUME NEW p, History!Solo!Step(p)
  PROVE  Moves(p)
<1> USE DEF Moves, Decided, Phases
<1>1. CASE History!Solo!Announce(p) \/ History!Solo!CallOff(p) \/ History!Solo!Start(p)
  BY <1>1 DEF History!Solo!Announce, History!Solo!CallOff, History!Solo!Start
<1>2. CASE History!Solo!Count(p) \/ History!Solo!Pun(p) \/ History!Solo!Close(p)
  BY <1>2 DEF History!Solo!Count, History!Solo!Pun, History!Solo!Close
<1>3. CASE History!Solo!OpenGate(p) \/ History!Solo!Result(p) \/ History!Solo!NextRound(p)
  BY <1>3 DEF History!Solo!OpenGate, History!Solo!Result, History!Solo!NextRound
<1>4. CASE History!Solo!GatePassed(p) \/ History!Solo!GateFails(p) \/ History!Solo!Forfeit(p)
  BY <1>4 DEF History!Solo!GatePassed, History!Solo!GateFails, History!Solo!Forfeit
<1>5. CASE History!Solo!GateWithdrawn(p) \/ History!Solo!BreakOff(p) \/ History!Solo!Release(p)
  BY <1>5 DEF History!Solo!GateWithdrawn, History!Solo!BreakOff, History!Solo!Release
<1>6. CASE UNCHANGED <<phase, between, failed, heard[p]>>
  BY <1>6
<1> QED BY <1>1, <1>2, <1>3, <1>4, <1>5, <1>6 DEF History!Solo!Step

LEMMA OnlineMoves ==
  ASSUME NEW p, History!Online!Step(p)
  PROVE  Moves(p)
<1> USE DEF Moves, Decided, Phases
<1>1. CASE History!Online!Announce(p) \/ History!Online!CallOff(p) \/ History!Online!Start(p)
  BY <1>1 DEF History!Online!Announce, History!Online!CallOff, History!Online!Start
<1>2. CASE History!Online!Count(p) \/ History!Online!Pun(p) \/ History!Online!Close(p)
  BY <1>2 DEF History!Online!Count, History!Online!Pun, History!Online!Close
<1>3. CASE History!Online!OpenGate(p) \/ History!Online!Result(p) \/ History!Online!NextRound(p)
  BY <1>3 DEF History!Online!OpenGate, History!Online!Result, History!Online!NextRound
<1>4. CASE History!Online!GatePassed(p) \/ History!Online!GateFails(p) \/ History!Online!Forfeit(p)
  BY <1>4 DEF History!Online!GatePassed, History!Online!GateFails, History!Online!Forfeit
<1>5. CASE History!Online!GateWithdrawn(p) \/ History!Online!BreakOff(p) \/ History!Online!Release(p)
  BY <1>5 DEF History!Online!GateWithdrawn, History!Online!BreakOff, History!Online!Release
<1>6. CASE UNCHANGED <<phase, between, failed, heard[p]>>
  BY <1>6
<1> QED BY <1>1, <1>2, <1>3, <1>4, <1>5, <1>6 DEF History!Online!Step

-----------------------------------------------------------------------------
(* The frames on their way. The result of the round that is on, and the frame  *)
(* that decides the match, are still to be sent, or have been.                 *)
Outstanding == playing /\ (phase # "done" \/ heard[Me] = "shoot")
Over == playing => heard[Me] \in Decided /\ phase = "done"
Past(r) == r <= round /\ (Outstanding => r < round)

Plain == [ev : Told \union {"requeued", "waiting"}, match : Nat, round : Nat, cpu : BOOLEAN]
Opening == [ev : {"connected"}, match : Nat, round : Nat, cpu : BOOLEAN,
            state : {"ingame", "waiting", "idle"}, phase : Phases, pending : BOOLEAN, invite : BOOLEAN]
Frame == Plain \union Opening

SeatInv ==
    /\ match \in Nat /\ round \in Nat /\ cpu \in BOOLEAN /\ invite \in BOOLEAN /\ playing \in BOOLEAN
    /\ phase \in Phases /\ heard \in [{Me} -> Told]
    /\ playing => match # 0

(* Frames of a match come in the order of its rounds, and one of them decides. *)
WireInv ==
    /\ wire \in Seq(Frame)
    /\ \A i \in 1..Len(wire) :
          /\ wire[i].match <= match
          /\ wire[i].match = 0 => wire[i].ev \in {"waiting", "idle"}
                                  \/ (wire[i].ev = "connected" /\ wire[i].state \in {"idle", "waiting"})
          /\ Deciding(wire[i]) /\ wire[i].match = match => Over
          /\ Telling(wire[i]) /\ wire[i].match = match => Past(wire[i].round)
    /\ \A i, j \in 1..Len(wire) : i < j /\ wire[i].match = wire[j].match =>
          /\ ~(Deciding(wire[i]) /\ Deciding(wire[j]))
          /\ Telling(wire[i]) /\ Telling(wire[j]) => wire[i].round < wire[j].round

(* What is filed was decided, once.                                            *)
Row == [match : Nat, round : Nat]
Entry == [match : Nat, length : Nat, rounds : Seq(Row)]
FiledInv ==
    /\ filed \in Seq(Entry)
    /\ \A k \in 1..Len(filed) :
          /\ filed[k].match <= match
          /\ filed[k].match = match => Over
          /\ \A i \in 1..Len(wire) : Deciding(wire[i]) => filed[k].match # wire[i].match
    /\ \A k, l \in 1..Len(filed) : filed[k].match = filed[l].match => k = l

(* The rounds that are gathered are of the match that is on, in their order.   *)
Rising(rs) == \A i, j \in 1..Len(rs) : i < j => rs[i].round < rs[j].round
Gathered ==
    /\ \A i \in 1..Len(rounds) :
          /\ rounds[i].match = on
          /\ \A j \in 1..Len(wire) : Telling(wire[j]) /\ wire[j].match = on => rounds[i].round < wire[j].round
          /\ on = match => Past(rounds[i].round)
    /\ ctx \in {None, 0, on}
    /\ Rising(rounds)
PageInv ==
    /\ screen \in History!State /\ on \in Nat /\ on <= match
    /\ rounds \in Seq(Row) /\ ctx \in Nat \union {None}
    /\ on = 0 => rounds = <<>> /\ ctx = None
    /\ on \notin entered => Gathered

OneMatch(e) ==
    /\ History!Rows(e) \subseteq {e.match} /\ e.length \in {0, e.match}
    /\ Rising(e.rounds)
PureInv == \A k \in 1..Len(filed) : filed[k].match \notin entered => OneMatch(filed[k])

HistoryInv == SeatInv /\ WireInv /\ FiledInv /\ PageInv /\ PureInv

-----------------------------------------------------------------------------
(* What becomes of the stream: the frames on their way stay in their order, and *)
(* what is new says nothing of a round or an end, or comes last.               *)
Quiet(f) ==
    /\ ~Deciding(f) /\ ~Telling(f) /\ f.match <= match'
    /\ f.match = 0 => f.ev \in {"waiting", "idle"} \/ (f.ev = "connected" /\ f.state \in {"idle", "waiting"})
New(f) ==
    /\ match' = match /\ f.match = match /\ f.match # 0
    /\ Deciding(f) => ~Over /\ Over'
    /\ Telling(f) => Outstanding /\ f.round = round /\ f.round <= round' /\ ~Outstanding'
Onward ==
    /\ match <= match'
    /\ match' = match => (Over => Over') /\ (Outstanding' => Outstanding \/ round < round') /\ round <= round'
Carries(d) ==
    \A j \in 1..Len(wire') :
        \/ Quiet(wire'[j])
        \/ j + d \in 1..Len(wire) /\ wire'[j] = wire[j + d]
        \/ j = Len(wire') /\ New(wire'[j])

Served == SeatInv' /\ wire' \in Seq(Frame) /\ Onward /\ \E d \in Int : Carries(d)

LEMMA FramesAreTyped ==
  ASSUME NEW w \in Seq(Frame), NEW i \in 1..Len(w)
  PROVE  w[i].match \in Nat /\ w[i].round \in Nat
<1>1. w[i] \in Frame
  OBVIOUS
<1>2. CASE w[i] \in Plain
  BY <1>2 DEF Plain
<1>3. CASE w[i] \in Opening
  BY <1>3 DEF Opening
<1> QED BY <1>1, <1>2, <1>3 DEF Frame

(* What Past will say of the same round after the step.                        *)
PastThen(r) == r <= round' /\ (Outstanding' => r < round')

LEMMA PastStays ==
  ASSUME SeatInv, SeatInv', Onward, match' = match, NEW r \in Nat, Past(r)
  PROVE  PastThen(r)
<1>1. r <= round /\ (Outstanding => r < round) /\ round \in Nat /\ round' \in Nat
      /\ round <= round' /\ (Outstanding' => Outstanding \/ round < round')
  BY DEF Past, SeatInv, Onward
<1>2. r <= round'
  BY <1>1
<1>3. Outstanding' => r < round'
  BY <1>1
<1> QED BY <1>2, <1>3 DEF PastThen

LEMMA WireCarried ==
  ASSUME SeatInv, WireInv, Served
  PROVE  WireInv'
<1>a. SeatInv' /\ wire' \in Seq(Frame) /\ Onward
  BY DEF Served
<1>b. PICK d \in Int : Carries(d)
  BY DEF Served
<1>0. /\ Len(wire) \in Nat /\ Len(wire') \in Nat /\ match \in Nat /\ match' \in Nat /\ match <= match'
      /\ round \in Nat /\ round' \in Nat
      /\ \A i \in 1..Len(wire) : wire[i].match \in Nat /\ wire[i].round \in Nat
      /\ \A i \in 1..Len(wire') : wire'[i].match \in Nat /\ wire'[i].round \in Nat
  BY <1>a, FramesAreTyped DEF WireInv, SeatInv, Onward
<1>1. ASSUME NEW i \in 1..Len(wire')
      PROVE  /\ wire'[i].match <= match'
             /\ wire'[i].match = 0 => wire'[i].ev \in {"waiting", "idle"}
                                     \/ (wire'[i].ev = "connected" /\ wire'[i].state \in {"idle", "waiting"})
             /\ Deciding(wire'[i]) /\ wire'[i].match = match' => Over'
             /\ Telling(wire'[i]) /\ wire'[i].match = match' => PastThen(wire'[i].round)
  <2>1. CASE Quiet(wire'[i])
    BY <2>1 DEF Quiet
  <2>2. CASE i + d \in 1..Len(wire) /\ wire'[i] = wire[i + d]
    <3> DEFINE f == wire[i + d]
    <3>1. /\ f.match <= match
          /\ f.match = 0 => f.ev \in {"waiting", "idle"} \/ (f.ev = "connected" /\ f.state \in {"idle", "waiting"})
          /\ Deciding(f) /\ f.match = match => Over
          /\ Telling(f) /\ f.match = match => Past(f.round)
          /\ f.match \in Nat /\ f.round \in Nat
      BY <1>0, <2>2 DEF WireInv
    <3>2. f.match <= match' /\ (f.match = match' => match' = match)
      BY <1>0, <3>1
    <3>3. Telling(f) /\ f.match = match' => PastThen(f.round)
      <4> HIDE DEF f
      <4> QED BY <1>a, <3>1, <3>2, PastStays
    <3>4. Deciding(f) /\ f.match = match' => Over'
      BY <1>a, <3>1, <3>2 DEF Onward
    <3> QED BY <2>2, <3>1, <3>2, <3>3, <3>4
  <2>3. CASE New(wire'[i])
    <3>1. wire'[i].match = match' /\ match' <= match' /\ match' # 0
      BY <1>0, <2>3 DEF New
    <3>2. Telling(wire'[i]) => PastThen(wire'[i].round)
      <4>1. Telling(wire'[i]) => wire'[i].round = round /\ wire'[i].round <= round' /\ ~Outstanding'
        BY <2>3 DEF New
      <4> QED BY <4>1 DEF PastThen
    <3> QED BY <2>3, <3>1, <3>2 DEF New
  <2> QED BY <1>b, <2>1, <2>2, <2>3 DEF Carries
<1>2. ASSUME NEW i \in 1..Len(wire'), NEW j \in 1..Len(wire'), i < j, wire'[i].match = wire'[j].match
      PROVE  /\ ~(Deciding(wire'[i]) /\ Deciding(wire'[j]))
             /\ Telling(wire'[i]) /\ Telling(wire'[j]) => wire'[i].round < wire'[j].round
  <2>1. CASE Quiet(wire'[i]) \/ Quiet(wire'[j])
    BY <2>1 DEF Quiet
  <2>2. CASE i + d \in 1..Len(wire) /\ wire'[i] = wire[i + d]
             /\ j + d \in 1..Len(wire) /\ wire'[j] = wire[j + d]
    <3>1. i + d < j + d
      BY <1>2
    <3> QED BY <1>2, <2>2, <3>1 DEF WireInv
  <2>3. CASE i + d \in 1..Len(wire) /\ wire'[i] = wire[i + d] /\ New(wire'[j])
    <3>1. wire[i + d].match = match
      BY <1>2, <2>3 DEF New
    <3>2. Deciding(wire'[i]) => Over
      BY <2>3, <3>1 DEF WireInv
    <3>3. Telling(wire'[i]) => Past(wire'[i].round)
      BY <2>3, <3>1 DEF WireInv
    <3> QED BY <2>3, <3>2, <3>3 DEF New, Past
  <2>4. i # Len(wire')
    BY <1>0, <1>2
  <2> QED BY <1>b, <2>1, <2>2, <2>3, <2>4 DEF Carries
<1>3. \A r : PastThen(r) <=> Past(r)'
  BY DEF PastThen, Past
<1> QED BY <1>a, <1>1, <1>2, <1>3 DEF WireInv, PastThen, Past

(* What is filed stays filed as it was.                                        *)
LEMMA FiledCarried ==
  ASSUME HistoryInv, Served, UNCHANGED filed
  PROVE  FiledInv'
<1>a. PICK d \in Int : Carries(d)
  BY DEF Served
<1>0. match \in Nat /\ match' \in Nat /\ match <= match'
  BY DEF HistoryInv, SeatInv, Served, Onward
<1>1. \A k \in 1..Len(filed) : filed[k].match \in Nat
  <2>1. \A k \in 1..Len(filed) : filed[k] \in Entry
    BY DEF HistoryInv, FiledInv
  <2> QED BY <2>1 DEF Entry
<1>2. ASSUME NEW k \in 1..Len(filed)
      PROVE  /\ filed[k].match <= match'
             /\ filed[k].match = match' => Over'
             /\ \A i \in 1..Len(wire') : Deciding(wire'[i]) => filed[k].match # wire'[i].match
  <2>1. filed[k].match <= match /\ (filed[k].match = match => Over)
    BY DEF HistoryInv, FiledInv
  <2>2. filed[k].match <= match' /\ (filed[k].match = match' => match' = match)
    BY <1>0, <1>1, <2>1
  <2>3. filed[k].match = match' => Over'
    BY <2>1, <2>2 DEF Served, Onward
  <2>4. ASSUME NEW i \in 1..Len(wire'), Deciding(wire'[i]) PROVE filed[k].match # wire'[i].match
    <3>1. CASE Quiet(wire'[i])
      BY <2>4, <3>1 DEF Quiet
    <3>2. CASE i + d \in 1..Len(wire) /\ wire'[i] = wire[i + d]
      BY <2>4, <3>2 DEF HistoryInv, FiledInv
    <3>3. CASE New(wire'[i])
      BY <2>1, <2>4, <3>3 DEF New
    <3> QED BY <1>a, <3>1, <3>2, <3>3 DEF Carries
  <2> QED BY <2>2, <2>3, <2>4
<1> QED BY <1>2 DEF HistoryInv, FiledInv

(* What is gathered keeps its place before what is still to come.              *)
LEMMA GatheredCarried ==
  ASSUME HistoryInv, Served, Gathered, UNCHANGED <<rounds, ctx, on>>
  PROVE  Gathered'
<1>a. PICK d \in Int : Carries(d)
  BY DEF Served
<1>0. /\ match \in Nat /\ match' \in Nat /\ match <= match' /\ round \in Nat /\ round' \in Nat
      /\ on \in Nat /\ on <= match
  BY DEF HistoryInv, SeatInv, Served, Onward, PageInv
<1>1. \A i \in 1..Len(rounds) : rounds[i].round \in Nat
  <2>1. \A i \in 1..Len(rounds) : rounds[i] \in Row
    BY DEF HistoryInv, PageInv
  <2> QED BY <2>1 DEF Row
<1>2. ASSUME NEW i \in 1..Len(rounds)
      PROVE  /\ \A j \in 1..Len(wire') : Telling(wire'[j]) /\ wire'[j].match = on => rounds[i].round < wire'[j].round
             /\ on = match' => PastThen(rounds[i].round)
  <2>1. on = match' => match' = match
    BY <1>0
  <2>2. on = match' => PastThen(rounds[i].round)
    BY <1>0, <1>1, <2>1, PastStays DEF Gathered, HistoryInv, Served
  <2>3. ASSUME NEW j \in 1..Len(wire'), Telling(wire'[j]), wire'[j].match = on
        PROVE  rounds[i].round < wire'[j].round
    <3>1. CASE Quiet(wire'[j])
      BY <2>3, <3>1 DEF Quiet
    <3>2. CASE j + d \in 1..Len(wire) /\ wire'[j] = wire[j + d]
      BY <2>3, <3>2 DEF Gathered
    <3>3. CASE New(wire'[j])
      <4>1. Past(rounds[i].round) /\ Outstanding /\ wire'[j].round = round
        BY <2>3, <3>3 DEF New, Gathered
      <4> QED BY <4>1 DEF Past
    <3> QED BY <1>a, <3>1, <3>2, <3>3 DEF Carries
  <2> QED BY <2>2, <2>3
<1> QED BY <1>2 DEF Gathered, PastThen, Past

(* A step that leaves the page alone.                                          *)
LEMMA PageCarried ==
  ASSUME HistoryInv, Served, UNCHANGED <<screen, ctx, rounds, filed, on, entered>>
  PROVE  HistoryInv'
<1>1. WireInv' /\ FiledInv' /\ SeatInv'
  BY WireCarried, FiledCarried DEF HistoryInv, Served
<1>2. PageInv'
  <2>1. on \in Nat /\ on <= match'
    <3>1. on \in Nat /\ on <= match /\ match \in Nat /\ match' \in Nat /\ match <= match'
      BY DEF HistoryInv, PageInv, SeatInv, Served, Onward
    <3> QED BY <3>1
  <2>2. on \notin entered => Gathered'
    BY GatheredCarried DEF HistoryInv, PageInv
  <2> QED BY <2>1, <2>2 DEF HistoryInv, PageInv
<1>3. PureInv'
  BY DEF HistoryInv, PureInv
<1> QED BY <1>1, <1>2, <1>3 DEF HistoryInv

-----------------------------------------------------------------------------
(* The ways a stream changes.                                                  *)
LEMMA NothingSent ==
  ASSUME wire \in Seq(Frame), UNCHANGED wire
  PROVE  wire' \in Seq(Frame) /\ \E d \in Int : Carries(d)
<1>1. Carries(0)
  BY DEF Carries
<1> QED BY <1>1

LEMMA OneSent ==
  ASSUME wire \in Seq(Frame), NEW f \in Frame, wire' = Append(wire, f), Quiet(f) \/ New(f)
  PROVE  wire' \in Seq(Frame) /\ \E d \in Int : Carries(d)
<1>1. wire' \in Seq(Frame) /\ Len(wire') = Len(wire) + 1 /\ Len(wire) \in Nat
  OBVIOUS
<1>2. ASSUME NEW j \in 1..Len(wire')
      PROVE  \/ Quiet(wire'[j])
             \/ j + 0 \in 1..Len(wire) /\ wire'[j] = wire[j + 0]
             \/ j = Len(wire') /\ New(wire'[j])
  <2>1. CASE j \in 1..Len(wire)
    BY <2>1
  <2>2. CASE j = Len(wire')
    <3>1. wire'[j] = f
      BY <1>1, <2>2
    <3> QED BY <2>2, <3>1
  <2> QED BY <1>1, <2>1, <2>2
<1>3. Carries(0)
  BY <1>2 DEF Carries
<1> QED BY <1>1, <1>3

LEMMA FirstGone ==
  ASSUME wire \in Seq(Frame), wire # <<>>, wire' = Tail(wire)
  PROVE  /\ wire' \in Seq(Frame) /\ Len(wire) \in Nat \ {0} /\ Len(wire') = Len(wire) - 1
         /\ \A j \in 1..Len(wire') : j + 1 \in 1..Len(wire) /\ wire'[j] = wire[j + 1]
         /\ \E d \in Int : Carries(d)
<1>1. wire' \in Seq(Frame) /\ Len(wire) \in Nat \ {0} /\ Len(wire') = Len(wire) - 1
  OBVIOUS
<1>2. \A j \in 1..Len(wire') : j + 1 \in 1..Len(wire) /\ wire'[j] = wire[j + 1]
  BY <1>1
<1>3. Carries(1)
  BY <1>2 DEF Carries
<1> QED BY <1>1, <1>2, <1>3

LEMMA Behind ==
  ASSUME NEW S, NEW f \in S, NEW r \in Seq(S), NEW j \in 1..Len(r)
  PROVE  (<<f>> \o r)[j + 1] = r[j]
<1>1. Len(<<f>>) = 1 /\ Len(r) \in Nat /\ <<f>> \in Seq(S)
  OBVIOUS
<1>2. j + 1 > 1 /\ j + 1 - 1 = j /\ j + 1 \in 1..(1 + Len(r))
  BY <1>1
<1> QED BY <1>1, <1>2

(* A snapshot, and what was left unsent behind it. *)
LEMMA SnapshotSent ==
  ASSUME wire \in Seq(Frame), NEW f \in Frame, Quiet(f), NEW n \in 0..Len(wire),
         wire' = <<f>> \o SubSeq(wire, n + 1, Len(wire))
  PROVE  wire' \in Seq(Frame) /\ \E d \in Int : Carries(d)
<1> DEFINE rest == SubSeq(wire, n + 1, Len(wire))
<1>1. Len(wire) \in Nat /\ n \in Nat /\ n <= Len(wire)
  OBVIOUS
<1>2. rest \in Seq(Frame) /\ Len(rest) = Len(wire) - n
      /\ \A i \in 1..Len(rest) : n + i \in 1..Len(wire) /\ rest[i] = wire[n + i]
  BY <1>1
<1> HIDE DEF rest
<1>3. wire' \in Seq(Frame) /\ Len(wire') = 1 + Len(rest)
  BY <1>2
<1>4. ASSUME NEW j \in 1..Len(wire')
      PROVE  Quiet(wire'[j]) \/ (j + (n - 1) \in 1..Len(wire) /\ wire'[j] = wire[j + (n - 1)])
  <2>1. CASE j = 1
    <3>1. wire'[j] = f
      BY <2>1, <1>2
    <3> QED BY <3>1
  <2>2. CASE j > 1
    <3> DEFINE i == j - 1
    <3>1. i \in 1..Len(rest) /\ n + i = j + (n - 1) /\ i + 1 = j
      <4>1. j \in Nat /\ j <= 1 + Len(rest) /\ Len(rest) \in Nat
        BY <1>2, <1>3
      <4> QED BY <1>1, <2>2, <4>1
    <3> HIDE DEF i
    <3>2. wire'[j] = rest[i]
      BY <1>2, <3>1, Behind DEF rest
    <3>3. rest[i] = wire[n + i] /\ n + i \in 1..Len(wire)
      BY <1>2, <3>1
    <3> QED BY <3>1, <3>2, <3>3
  <2> QED BY <1>3, <2>1, <2>2
<1>5. Carries(n - 1)
  BY <1>4 DEF Carries
<1> QED BY <1>1, <1>3, <1>5

-----------------------------------------------------------------------------
(* What the server does, and the link.                                         *)
LEMMA FrameTyped ==
  ASSUME SeatInv, NEW ev \in Told \union {"requeued", "waiting"}
  PROVE  /\ History!Frame(ev) \in Frame /\ History!Frame(ev).match = match
         /\ History!Frame(ev).ev = ev /\ History!Frame(ev).round = round
<1>1. match \in Nat /\ round \in Nat /\ cpu \in BOOLEAN
  BY DEF SeatInv
<1>2. History!Frame(ev) = [ev |-> ev, match |-> match, round |-> round, cpu |-> cpu]
  BY DEF History!Frame
<1>3. History!Frame(ev) \in Plain
  BY <1>1, <1>2 DEF Plain
<1> QED BY <1>2, <1>3 DEF Frame

LEMMA SnapshotTyped ==
  ASSUME SeatInv, NEW s \in {"ingame", "waiting", "idle"}, NEW pending \in BOOLEAN, NEW i \in BOOLEAN,
         NEW f, f = [ev |-> "connected", match |-> match, round |-> round, cpu |-> cpu,
                     state |-> s, phase |-> phase, pending |-> pending, invite |-> i]
  PROVE  f \in Frame /\ f.match = match /\ f.ev = "connected" /\ f.state = s
<1>1. match \in Nat /\ round \in Nat /\ cpu \in BOOLEAN /\ phase \in Phases
  BY DEF SeatInv
<1>2. f \in Opening
  BY <1>1 DEF Opening
<1> QED BY <1>2 DEF Frame

LEMMA BeginServes ==
  ASSUME SeatInv, WireInv, NEW bot \in BOOLEAN, NEW claimed \in BOOLEAN, History!Begin(bot, claimed)
  PROVE  Served
<1> USE DEF History!Begin, History!Me, Me
<1>1. match \in Nat /\ match' = match + 1 /\ match' \in Nat /\ match' # 0 /\ match <= match' /\ match' # match
  BY DEF SeatInv
<1>2. SeatInv'
  <2>1. round' \in Nat /\ cpu' \in BOOLEAN /\ invite' \in BOOLEAN /\ playing' \in BOOLEAN
    OBVIOUS
  <2>2. phase' \in Phases /\ heard' \in [{Me} -> Told]
    BY DEF Phases, Told
  <2> QED BY <1>1, <2>1, <2>2 DEF SeatInv
<1>3. Onward
  BY <1>1 DEF Onward
<1> QED BY <1>2, <1>3, NothingSent DEF Served, WireInv

(* A step that sends nothing to the page, and leaves the match as it is. *)
LEMMA SeatServes ==
  ASSUME SeatInv, wire' \in Seq(Frame) /\ \E d \in Int : Carries(d),
         invite' \in BOOLEAN, playing' \in BOOLEAN, playing' => playing,
         UNCHANGED <<cpu, match, round, phase>>,
         heard' \in [{Me} -> Told], playing' => heard' = heard
  PROVE  Served
<1>1. SeatInv'
  BY DEF SeatInv
<1>2. match <= match' /\ round <= round'
  BY DEF SeatInv
<1>3. Onward
  BY <1>2 DEF Onward, Over, Outstanding
<1> QED BY <1>1, <1>3 DEF Served

LEMMA RequestsServe ==
  ASSUME SeatInv, WireInv, History!TakeChallenge \/ History!TakeCancel \/ History!TakeReady
                          \/ History!TakeCPU \/ History!Pair
  PROVE  Served
<1>0. /\ invite \in BOOLEAN /\ playing \in BOOLEAN /\ heard \in [{Me} -> Told] /\ wire \in Seq(Frame)
      /\ match \in Nat
  BY DEF SeatInv, WireInv
<1>1. CASE History!TakeChallenge
  <2>1. UNCHANGED <<playing, cpu, match, round, phase, heard, wire>> /\ invite' = TRUE
    BY <1>1 DEF History!TakeChallenge, History!told, History!link
  <2> QED BY <1>0, <2>1, SeatServes, NothingSent
<1>2. CASE History!TakeCancel
  <2>1. UNCHANGED <<playing, cpu, match, round, phase, heard>> /\ invite' = FALSE
    BY <1>2 DEF History!TakeCancel, History!told
  <2>2. CASE queueing
    <3> DEFINE f == History!Frame("idle")
    <3>1. wire' = Append(wire, f)
      BY <1>2, <2>2 DEF History!TakeCancel, History!Send
    <3>2. f \in Frame /\ f.match = match /\ f.ev = "idle"
      <4>1. "idle" \in Told \union {"requeued", "waiting"}
        BY DEF Told
      <4> QED BY <4>1, FrameTyped, Zenon
    <3> HIDE DEF f
    <3>3. Quiet(f)
      <4>1. f.match <= match'
        BY <1>0, <2>1, <3>2
      <4> QED BY <3>2, <4>1 DEF Quiet, Deciding, Telling, Decided
    <3> QED BY <1>0, <2>1, <3>1, <3>2, <3>3, SeatServes, OneSent
  <2>3. CASE ~queueing
    <3>1. wire' = wire
      BY <1>2, <2>3 DEF History!TakeCancel
    <3> QED BY <1>0, <2>1, <3>1, SeatServes, NothingSent
  <2> QED BY <2>2, <2>3
<1>3. CASE History!TakeReady
  <2>1. UNCHANGED <<invite, playing, cpu, match, round, phase, heard, wire>>
    BY <1>3 DEF History!TakeReady, History!told, History!seats, History!link
  <2> QED BY <1>0, <2>1, SeatServes, NothingSent
<1>4. CASE History!TakeCPU \/ History!Pair
  BY <1>4, BeginServes DEF History!TakeCPU, History!Pair
<1> QED BY <1>1, <1>2, <1>3, <1>4

LEMMA SearchServes ==
  ASSUME SeatInv, WireInv, History!PressSearch
  PROVE  Served
<1> DEFINE f == History!Frame("waiting")
<1>1. /\ UNCHANGED <<playing, cpu, match, round, phase, heard>> /\ invite' = FALSE /\ ~playing
      /\ wire' = Append(wire, f)
  BY DEF History!PressSearch, History!Send, History!told
<1>2. playing \in BOOLEAN /\ heard \in [{Me} -> Told] /\ wire \in Seq(Frame) /\ match \in Nat
  BY DEF SeatInv, WireInv
<1>3. f \in Frame /\ f.match = match /\ f.ev = "waiting"
  BY FrameTyped, Zenon
<1> HIDE DEF f
<1>4. Quiet(f)
  <2>1. f.match <= match'
    BY <1>1, <1>2, <1>3
  <2> QED BY <1>3, <2>1 DEF Quiet, Deciding, Telling, Decided
<1> QED BY <1>1, <1>2, <1>3, <1>4, SeatServes, OneSent

LEMMA LinkServes ==
  ASSUME SeatInv, WireInv, History!Requeue \/ History!Release \/ History!Reattach
                          \/ History!Return \/ History!Lose
  PROVE  Served
<1>0. /\ invite \in BOOLEAN /\ playing \in BOOLEAN /\ heard \in [{Me} -> Told] /\ wire \in Seq(Frame)
      /\ match \in Nat /\ round \in Nat /\ cpu \in BOOLEAN /\ phase \in Phases
  BY DEF SeatInv, WireInv
<1>1. CASE History!Requeue
  <2>1. UNCHANGED <<invite, playing, cpu, match, round, phase, heard, wire>>
    BY <1>1 DEF History!Requeue, History!told, History!link
  <2> QED BY <1>0, <2>1, SeatServes, NothingSent
<1>2. CASE History!Release
  <2> DEFINE f == History!Frame("requeued")
  <2>1. UNCHANGED <<cpu, match, round, phase>> /\ invite' = FALSE /\ playing' = FALSE
        /\ wire' = Append(wire, f) /\ playing /\ heard' = [p \in {Me} |-> "idle"]
    BY <1>2 DEF History!Release, History!Send, Me
  <2>a. heard' \in [{Me} -> Told]
    BY <2>1 DEF Told
  <2>2. f \in Frame /\ f.match = match /\ f.ev = "requeued"
    <3>1. "requeued" \in Told \union {"requeued", "waiting"}
      BY DEF Told
    <3> QED BY <3>1, FrameTyped, Zenon
  <2>3. match # 0
    BY <2>1 DEF SeatInv
  <2> HIDE DEF f
  <2>4. Quiet(f)
    <3>1. f.match <= match'
      BY <1>0, <2>1, <2>2
    <3> QED BY <2>2, <2>3, <3>1 DEF Quiet, Deciding, Telling, Decided
  <2> QED BY <1>0, <2>1, <2>2, <2>4, <2>a, SeatServes, OneSent
<1>3. CASE History!Reattach
  <2>1. UNCHANGED <<invite, playing, cpu, match, round, phase, heard>>
    BY <1>3 DEF History!Reattach, History!server, History!seats, History!told
  <2>2. PICK n \in 0..Len(wire), pending \in BOOLEAN :
          wire' = <<History!Snapshot(pending)>> \o SubSeq(wire, n + 1, Len(wire))
    BY <1>3 DEF History!Reattach, History!Reconnect
  <2> DEFINE f == History!Snapshot(pending)
  <2>3. f \in Frame /\ f.match = match /\ f.ev = "connected" /\ (~playing => f.state \in {"idle", "waiting"})
    <3>1. f = [ev |-> "connected", match |-> match, round |-> round, cpu |-> cpu,
               state |-> History!Seat, phase |-> phase, pending |-> pending,
               invite |-> (invite /\ ~playing)]
      BY DEF History!Snapshot
    <3>2. History!Seat \in {"ingame", "waiting", "idle"} /\ (~playing => History!Seat \in {"idle", "waiting"})
      BY DEF History!Seat
    <3>3. (invite /\ ~playing) \in BOOLEAN
      OBVIOUS
    <3> HIDE DEF f
    <3>4. f \in Frame /\ f.match = match /\ f.ev = "connected" /\ f.state = History!Seat
      BY <3>1, <3>2, <3>3, SnapshotTyped, Zenon
    <3> QED BY <3>2, <3>4
  <2>4. playing => match # 0
    BY DEF SeatInv
  <2> HIDE DEF f
  <2>5. Quiet(f)
    <3>1. f.match <= match'
      BY <1>0, <2>1, <2>3
    <3> QED BY <2>3, <2>4, <3>1 DEF Quiet, Deciding, Telling, Decided
  <2>6. wire' = <<f>> \o SubSeq(wire, n + 1, Len(wire))
    BY <2>2 DEF f
  <2> QED BY <1>0, <2>1, <2>3, <2>5, <2>6, SeatServes, SnapshotSent
<1>4. CASE History!Return
  <2>1. UNCHANGED <<invite, cpu, match, round, phase, heard>> /\ playing' = FALSE
    BY <1>4 DEF History!Return, History!told
  <2> DEFINE f == [History!Snapshot(FALSE) EXCEPT !.state = IF invite THEN "waiting" ELSE "idle",
                                                  !.invite = invite]
  <2>2. wire' = <<f>>
    BY <1>4 DEF History!Return
  <2>3. f = [ev |-> "connected", match |-> match, round |-> round, cpu |-> cpu,
             state |-> IF invite THEN "waiting" ELSE "idle",
             phase |-> phase, pending |-> FALSE, invite |-> invite]
    <3> DEFINE g == History!Snapshot(FALSE)
    <3>1. g = [ev |-> "connected", match |-> match, round |-> round, cpu |-> cpu,
               state |-> History!Seat, phase |-> phase, pending |-> FALSE,
               invite |-> (invite /\ ~playing)]
      BY DEF History!Snapshot
    <3>2. f = [g EXCEPT !.state = IF invite THEN "waiting" ELSE "idle", !.invite = invite]
      OBVIOUS
    <3> HIDE DEF g, f
    <3> QED BY <3>1, <3>2
  <2> HIDE DEF f
  <2>4. f \in Frame /\ f.match = match /\ f.ev = "connected" /\ f.state \in {"idle", "waiting"}
    <3> DEFINE s == IF invite THEN "waiting" ELSE "idle"
    <3>1. s \in {"ingame", "waiting", "idle"} /\ s \in {"idle", "waiting"}
      OBVIOUS
    <3> QED BY <1>0, <2>3, <3>1, SnapshotTyped, Zenon
  <2>5. Quiet(f)
    <3>1. f.match <= match'
      BY <1>0, <2>1, <2>4
    <3> QED BY <2>4, <3>1 DEF Quiet, Deciding, Telling, Decided
  <2>6. wire' \in Seq(Frame) /\ Len(wire') = 1 /\ wire'[1] = f
    BY <2>2, <2>4
  <2>7. Carries(0)
    BY <2>5, <2>6 DEF Carries
  <2>8. \E d \in Int : Carries(d)
    BY <2>7
  <2> QED BY <1>0, <2>1, <2>6, <2>8, SeatServes
<1>5. CASE History!Lose
  <2>1. UNCHANGED <<invite, playing, cpu, match, round, phase, heard>> /\ wire # <<>> /\ wire' = Tail(wire)
    BY <1>5 DEF History!Lose, History!server, History!seats, History!told
  <2> QED BY <1>0, <2>1, SeatServes, FirstGone
<1> QED BY <1>1, <1>2, <1>3, <1>4, <1>5

LEMMA PlayServes ==
  ASSUME SeatInv, WireInv, History!Play
  PROVE  Served
<1> DEFINE f == History!Frame(heard'[Me])
<1>0. /\ match \in Nat /\ round \in Nat /\ cpu \in BOOLEAN /\ phase \in Phases /\ playing
      /\ invite \in BOOLEAN /\ heard \in [{Me} -> Told] /\ wire \in Seq(Frame) /\ match # 0
  BY DEF SeatInv, WireInv, History!Play
<1>1. /\ UNCHANGED <<invite, cpu, match>> /\ playing' \in BOOLEAN
      /\ playing' = (heard'[Me] # "idle")
      /\ round' = IF phase = "done" /\ phase' = "countdown" THEN round + 1 ELSE round
      /\ heard' # heard => wire' = Append(wire, f)
      /\ heard' = heard => wire' = wire
  BY DEF History!Play, History!Send, Me
<1>2. heard' \in [{Me} -> Told]
  BY DEF History!Play, Me, Told, History!Online!Frames
<1>3. Moves(Me)
  <2>1. IF cpu THEN History!Solo!Step(Me) ELSE History!Online!Step(Me)
    BY DEF History!Play, Me
  <2> QED BY <2>1, SoloMoves, OnlineMoves
<1>4. round' \in Nat /\ round <= round' /\ (phase = "done" /\ phase' = "countdown" => round < round')
  BY <1>0, <1>1
<1>5. SeatInv'
  BY <1>0, <1>1, <1>2, <1>3, <1>4 DEF SeatInv, Moves
<1>6. f \in Frame /\ f.match = match /\ f.ev = heard'[Me] /\ f.round = round
  <2>1. heard'[Me] \in Told \union {"requeued", "waiting"}
    BY <1>2
  <2> QED BY <2>1, FrameTyped, Zenon
<1> HIDE DEF f
<1>7. Onward
  <2>1. Over => Over'
    BY <1>0, <1>1, <1>3 DEF Over, Moves, Decided
  <2>2. Outstanding' => Outstanding \/ (phase = "done" /\ phase' = "countdown")
    BY <1>0, <1>3 DEF Outstanding, Moves
  <2>3. match <= match'
    BY <1>0, <1>1
  <2> QED BY <1>4, <2>1, <2>2, <2>3 DEF Onward
<1>8. CASE heard' = heard
  BY <1>0, <1>1, <1>5, <1>7, <1>8, NothingSent DEF Served
<1>9. CASE heard' # heard
  <2>1. heard'[Me] # heard[Me]
    BY <1>0, <1>2, <1>9
  <2>2. Deciding(f) => ~Over /\ Over'
    BY <1>0, <1>3, <1>6, <2>1 DEF Deciding, Moves, Over
  <2>3. Telling(f) => Outstanding /\ ~Outstanding'
    BY <1>0, <1>3, <1>6, <2>1 DEF Telling, Moves, Outstanding
  <2>4. New(f)
    BY <1>0, <1>1, <1>4, <1>6, <2>2, <2>3 DEF New
  <2> QED BY <1>0, <1>1, <1>5, <1>6, <1>7, <1>9, <2>4, OneSent DEF Served
<1> QED BY <1>8, <1>9

LEMMA ReadingServes ==
  ASSUME SeatInv, WireInv, wire # <<>>, wire' = Tail(wire), UNCHANGED History!server
  PROVE  Served
<1>1. UNCHANGED <<invite, playing, cpu, match, round, phase, heard>>
  BY DEF History!server, History!seats, History!told
<1>2. invite \in BOOLEAN /\ playing \in BOOLEAN /\ heard \in [{Me} -> Told] /\ wire \in Seq(Frame)
  BY DEF SeatInv, WireInv
<1> QED BY <1>1, <1>2, SeatServes, FirstGone

(* Anything that happens elsewhere leaves the page with what it kept. *)
LEMMA ElsewhereKeeps ==
  ASSUME HistoryInv, History!Elsewhere \/ History!PlayCPU \/ History!Search \/ History!Acknowledge
                     \/ (wire # <<>> /\ History!Drop)
  PROVE  HistoryInv'
<1>1. UNCHANGED <<screen, ctx, rounds, filed, on, entered>>
  BY DEF History!Elsewhere, History!PlayCPU, History!Search, History!Acknowledge, History!Drop, History!record
<1>2. SeatInv /\ WireInv
  BY DEF HistoryInv
<1>3. Served
  <2>1. CASE History!Elsewhere
    BY <1>2, <2>1, PlayServes, LinkServes, RequestsServe DEF History!Elsewhere, History!Serve
  <2>2. CASE History!PlayCPU \/ History!Acknowledge
    BY <1>2, <2>2, RequestsServe DEF History!PlayCPU, History!PressCPU, History!Acknowledge
  <2>3. CASE wire # <<>> /\ History!Drop
    BY <1>2, <2>3, ReadingServes DEF History!Drop, History!Ignored
  <2>4. CASE History!Search
    BY <1>2, <2>4, SearchServes DEF History!Search
  <2> QED BY <2>1, <2>2, <2>3, <2>4
<1> QED BY <1>1, <1>3, PageCarried

-----------------------------------------------------------------------------
(* Where the screen machine leads.                                             *)
Announcing == {"snapshot:matched", "snapshot:countdown", "snapshot:shoot", "matched", "countdown", "shoot"}
Leads(e) ==
    /\ e[2] \in History!State
    /\ e[2] = "result" => e[1] \in {"result", "opponentLeft"}
    /\ e[2] \in {"matched", "countdown", "shoot"} => e[1] \in Announcing

LEMMA EdgesLead ==
  ASSUME NEW s \in History!State, NEW e \in History!Edge(s)
  PROVE  Leads(e)
<1> USE DEF Leads, Announcing, History!State
<1>1. \A d \in History!SnapshotEdge : Leads(d)
  BY DEF History!SnapshotEdge
<1>2. \A d \in History!LobbyEdge \union History!WaitingEdge : Leads(d)
  BY DEF History!LobbyEdge, History!WaitingEdge
<1>3. \A d \in History!MatchedEdge \union History!LadderEdge : Leads(d)
  BY DEF History!MatchedEdge, History!LadderEdge
<1>4. \A d \in History!CountdownEdge \union History!HistoryEdge : Leads(d)
  BY DEF History!CountdownEdge, History!HistoryEdge
<1>5. \A d \in History!ShootEdge \union History!LockedEdge : Leads(d)
  BY DEF History!ShootEdge, History!LockedEdge
<1>6. \A d \in History!ResultEdge : Leads(d)
  BY DEF History!ResultEdge
<1>7. /\ s = "lobby" => e \in History!SnapshotEdge \union History!LobbyEdge
      /\ s = "waiting" => e \in History!SnapshotEdge \union History!WaitingEdge
      /\ s = "matched" => e \in History!SnapshotEdge \union History!MatchedEdge
      /\ s = "countdown" => e \in History!SnapshotEdge \union History!CountdownEdge
      /\ s = "shoot" => e \in History!SnapshotEdge \union History!ShootEdge
      /\ s = "locked" => e \in History!SnapshotEdge \union History!LockedEdge
      /\ s = "result" => e \in History!SnapshotEdge \union History!ResultEdge
      /\ s = "ladder" => e \in History!SnapshotEdge \union History!LadderEdge
      /\ s = "history" => e \in History!SnapshotEdge \union History!HistoryEdge
  BY DEF History!Edge
<1>8. s \in {"lobby", "waiting", "matched", "countdown", "shoot", "locked", "result", "ladder", "history"}
  OBVIOUS
<1> HIDE DEF Leads, Announcing, History!State
<1> QED BY <1>1, <1>2, <1>3, <1>4, <1>5, <1>6, <1>7, <1>8

LEMMA EventsLead ==
  ASSUME NEW s \in History!State, NEW ev, History!Takes(s, ev)
  PROVE  Leads(<<ev, History!To(s, ev)>>)
<1>1. PICK e \in History!Edge(s) : e[1] = ev
  BY DEF History!Takes
<1>2. PICK d \in History!Edge(s) : d[1] = ev /\ History!To(s, ev) = d[2]
  BY <1>1 DEF History!To
<1>3. Leads(d)
  BY <1>2, EdgesLead
<1>4. <<ev, History!To(s, ev)>>[1] = ev /\ <<ev, History!To(s, ev)>>[2] = History!To(s, ev)
  OBVIOUS
<1> QED BY <1>2, <1>3, <1>4 DEF Leads

(* A frame of no match shows no match; only the frames of an end end it. *)
LEMMA FramesLead ==
  ASSUME NEW f, NEW ev \in History!Events(f), NEW s \in History!State, History!Takes(s, ev),
         f.match = 0 => f.ev \in {"waiting", "idle"} \/ (f.ev = "connected" /\ f.state \in {"idle", "waiting"})
  PROVE  /\ History!To(s, ev) \in History!State
         /\ History!To(s, ev) = "result" => f.ev \in Decided \union {"result"}
         /\ History!To(s, ev) \in History!InMatch => f.match # 0
<1> DEFINE to == History!To(s, ev)
<1>1. /\ to \in History!State
      /\ to = "result" => ev \in {"result", "opponentLeft"}
      /\ to \in {"matched", "countdown", "shoot"} => ev \in Announcing
  <2>1. Leads(<<ev, to>>)
    BY EventsLead
  <2>2. <<ev, to>>[1] = ev /\ <<ev, to>>[2] = to
    OBVIOUS
  <2> HIDE DEF to
  <2> QED BY <2>1, <2>2 DEF Leads
<1>2. CASE f.ev = "connected"
  <2>1. ev \notin {"result", "opponentLeft"}
    BY <1>2 DEF History!Events, History!SnapshotEvent
  <2>2. f.state \in {"idle", "waiting"} => ev \notin Announcing
    BY <1>2 DEF History!Events, History!SnapshotEvent, Announcing
  <2> QED BY <1>1, <1>2, <2>1, <2>2 DEF History!InMatch
<1>3. CASE f.ev \in {"idle", "requeued"}
  <2>1. ev \in {"stateIdle", "waiting"}
    BY <1>3 DEF History!Events, History!IdleEvent
  <2> QED BY <1>1, <1>3, <2>1 DEF History!InMatch, Announcing
<1>4. CASE f.ev \in {"result", "final"}
  <2>1. ev = "result"
    BY <1>4 DEF History!Events
  <2> QED BY <1>1, <1>4, <2>1 DEF Decided
<1>5. CASE f.ev \in {"opponentLeft", "forfeitWin", "forfeitLoss"}
  <2>1. ev = "opponentLeft"
    BY <1>5 DEF History!Events
  <2> QED BY <1>1, <1>5, <2>1 DEF Decided
<1>6. CASE f.ev \notin {"connected", "idle", "requeued", "result", "final", "opponentLeft", "forfeitWin", "forfeitLoss"}
  <2>1. ev = f.ev
    BY <1>6 DEF History!Events
  <2> QED BY <1>1, <1>6, <2>1 DEF History!InMatch, Announcing
<1> QED BY <1>2, <1>3, <1>4, <1>5, <1>6

-----------------------------------------------------------------------------
(* The page reads a frame of a match, the first of those on their way.         *)
AtHand(f) ==
    /\ wire # <<>> /\ f = wire[1] /\ f.match \in Nat \ {0} /\ f.match <= match /\ f.round \in Nat
    /\ Deciding(f) /\ f.match = match => Over
    /\ Telling(f) /\ f.match = match => Past(f.round)
    /\ \A j \in 1..Len(wire') : wire'[j].match = f.match =>
          /\ ~(Deciding(f) /\ Deciding(wire'[j]))
          /\ Telling(f) /\ Telling(wire'[j]) => f.round < wire'[j].round
    /\ Deciding(f) => \A k \in 1..Len(filed) : filed[k].match # f.match
    /\ UNCHANGED <<playing, phase, heard, match, round>>

LEMMA FirstAtHand ==
  ASSUME HistoryInv, wire # <<>>, wire' = Tail(wire), wire[1].match # 0,
         UNCHANGED <<playing, phase, heard, match, round>>
  PROVE  AtHand(wire[1])
<1>1. wire \in Seq(Frame) /\ SeatInv /\ WireInv /\ FiledInv
  BY DEF HistoryInv, WireInv
<1>2. 1 \in 1..Len(wire) /\ \A j \in 1..Len(wire') : j + 1 \in 1..Len(wire) /\ 1 < j + 1 /\ wire'[j] = wire[j + 1]
  BY <1>1, FirstGone
<1>3. wire[1].match \in Nat \ {0} /\ wire[1].round \in Nat
  BY <1>1, <1>2, FramesAreTyped
<1>4. /\ wire[1].match <= match
      /\ Deciding(wire[1]) /\ wire[1].match = match => Over
      /\ Telling(wire[1]) /\ wire[1].match = match => Past(wire[1].round)
  BY <1>1, <1>2 DEF WireInv
<1>5. ASSUME NEW j \in 1..Len(wire'), wire'[j].match = wire[1].match
      PROVE  /\ ~(Deciding(wire[1]) /\ Deciding(wire'[j]))
             /\ Telling(wire[1]) /\ Telling(wire'[j]) => wire[1].round < wire'[j].round
  BY <1>1, <1>2, <1>5 DEF WireInv
<1>6. Deciding(wire[1]) => \A k \in 1..Len(filed) : filed[k].match # wire[1].match
  BY <1>1, <1>2 DEF FiledInv
<1> QED BY <1>3, <1>4, <1>5, <1>6 DEF AtHand

LEMMA RecordIsTyped ==
  ASSUME PageInv, NEW f, AtHand(f)
  PROVE  History!RecordRound(f) \in Seq(Row)
<1>1. rounds \in Seq(Row) /\ f.match \in Nat /\ f.round \in Nat
  BY DEF PageInv, AtHand
<1>2. [match |-> f.match, round |-> f.round] \in Row /\ [match |-> f.match, round |-> 1] \in Row
  BY <1>1 DEF Row
<1> QED BY <1>1, <1>2 DEF History!RecordRound

(* Of a page that was not taken from elsewhere, the rounds are those of the    *)
(* match, the last of them the one that is told of now.                        *)
LEMMA RecordIsOfTheMatch ==
  ASSUME PageInv, NEW f, AtHand(f), on \in {0, f.match}, f.match \notin entered,
         NEW i \in 1..Len(History!RecordRound(f))
  PROVE  LET r == History!RecordRound(f)[i] IN
         /\ r.match = f.match /\ r.round \in Nat
         /\ Telling(f) => r.round <= f.round
         /\ \A j \in 1..Len(History!RecordRound(f)) : i < j => r.round < History!RecordRound(f)[j].round
<1> DEFINE old == IF f.round = 1 THEN <<>> ELSE rounds
           last == [match |-> f.match, round |-> f.round]
           only == [match |-> f.match, round |-> 1]
           R == History!RecordRound(f)
<1>1. f.match \in Nat /\ f.match # 0 /\ f.round \in Nat /\ 1 \in 1..Len(wire) /\ f = wire[1]
  <2>1. wire # <<>> /\ f = wire[1] /\ f.match \in Nat \ {0} /\ f.round \in Nat
    BY DEF AtHand
  <2>2. Len(wire) \in Nat /\ Len(wire) # 0
    BY <2>1
  <2> QED BY <2>1, <2>2
<1>2. rounds \in Seq(Row) /\ (on = 0 => rounds = <<>>) /\ (on # 0 => on = f.match /\ Gathered)
  BY <1>1 DEF PageInv
<1>3. \A k \in 1..Len(rounds) : rounds[k].match = f.match /\ rounds[k].round \in Nat
                               /\ (Telling(f) => rounds[k].round < f.round)
  <2>1. \A k \in 1..Len(rounds) : rounds[k] \in Row
    BY <1>2
  <2>2. \A k \in 1..Len(rounds) : rounds[k].round \in Nat
    BY <2>1 DEF Row
  <2> QED BY <1>1, <1>2, <2>2 DEF Gathered
<1>4. \A k, j \in 1..Len(rounds) : k < j => rounds[k].round < rounds[j].round
  BY <1>2 DEF Gathered, Rising
<1>5. last.match = f.match /\ last.round = f.round /\ last \in Row
      /\ only.match = f.match /\ only.round = 1 /\ only \in Row
  BY <1>1 DEF Row
<1> HIDE DEF last, only
<1>6. CASE History!Named(f)
  <2>1. Telling(f)
    BY <1>6 DEF History!Named, Telling
  <2>2. /\ old \in Seq(Row) /\ Len(old) \in Nat
        /\ \A k \in 1..Len(old) : old[k].match = f.match /\ old[k].round \in Nat /\ old[k].round < f.round
        /\ \A k, j \in 1..Len(old) : k < j => old[k].round < old[j].round
    BY <1>2, <1>3, <1>4, <2>1
  <2>3. R = Append(old, last)
    BY <1>6 DEF History!RecordRound, last
  <2> HIDE DEF old, R
  <2>4. Len(R) = Len(old) + 1 /\ R[Len(old) + 1] = last /\ \A k \in 1..Len(old) : R[k] = old[k]
    BY <1>5, <2>2, <2>3
  <2>5. ASSUME NEW k \in 1..Len(R)
        PROVE  /\ R[k].match = f.match /\ R[k].round \in Nat /\ R[k].round <= f.round
               /\ k \in 1..Len(old) => R[k].round < f.round
    <3>1. CASE k \in 1..Len(old)
      BY <1>1, <2>2, <2>4, <3>1
    <3>2. CASE k = Len(old) + 1
      BY <1>1, <1>5, <2>2, <2>4, <3>2
    <3> QED BY <2>2, <2>4, <3>1, <3>2
  <2>6. ASSUME NEW k \in 1..Len(R), NEW j \in 1..Len(R), k < j
        PROVE  R[k].round < R[j].round
    <3>1. k \in 1..Len(old)
      BY <2>2, <2>4, <2>6
    <3>2. CASE j \in 1..Len(old)
      BY <2>2, <2>4, <2>6, <3>1, <3>2
    <3>3. CASE j = Len(old) + 1
      BY <1>5, <2>4, <2>5, <3>1, <3>3
    <3> QED BY <2>2, <2>4, <3>2, <3>3
  <2> QED BY <2>5, <2>6 DEF R
<1>7. CASE ~History!Named(f)
  <2>1. ~Telling(f)
    BY <1>7 DEF History!Named, Telling
  <2>2. CASE rounds # <<>>
    <3>1. R = rounds
      BY <1>7, <2>2 DEF History!RecordRound
    <3> QED BY <1>3, <1>4, <2>1, <3>1
  <2>3. CASE rounds = <<>>
    <3>1. R = <<only>>
      BY <1>7, <2>3 DEF History!RecordRound, only
    <3> HIDE DEF R
    <3>2. Len(R) = 1 /\ R[1] = only
      BY <3>1
    <3>3. \A k \in 1..Len(R) : k = 1
      BY <3>2
    <3>4. \A k, j \in 1..Len(R) : ~(k < j)
      BY <3>2
    <3> QED BY <1>5, <2>1, <3>2, <3>3, <3>4 DEF R
  <2> QED BY <2>2, <2>3
<1> QED BY <1>6, <1>7

(* A new record comes first, and the oldest may fall out. *)
LEMMA FiledFirst ==
  ASSUME NEW fs \in Seq(Entry), NEW e \in Entry, NEW m \in Nat, m <= Len(fs) + 1,
         NEW new, new = SubSeq(<<e>> \o fs, 1, m)
  PROVE  /\ new \in Seq(Entry) /\ Len(new) = m
         /\ \A k \in 1..Len(new) : (k = 1 /\ new[k] = e) \/ (k - 1 \in 1..Len(fs) /\ new[k] = fs[k - 1])
<1> DEFINE all == <<e>> \o fs
<1>1. all \in Seq(Entry) /\ Len(all) = Len(fs) + 1 /\ Len(fs) \in Nat /\ all[1] = e
  OBVIOUS
<1>2. \A k \in 1..Len(fs) : all[k + 1] = fs[k]
  BY Behind
<1> HIDE DEF all
<1>3. new \in Seq(Entry) /\ Len(new) = m /\ \A k \in 1..m : new[k] = all[k]
  BY <1>1 DEF all
<1>4. ASSUME NEW k \in 1..Len(new)
      PROVE  \/ k = 1 /\ new[k] = e
             \/ k - 1 \in 1..Len(fs) /\ new[k] = fs[k - 1]
  <2>1. CASE k = 1
    BY <1>1, <1>3, <2>1
  <2>2. CASE k > 1
    <3>1. k - 1 \in 1..Len(fs) /\ (k - 1) + 1 = k
      BY <1>1, <1>3, <2>2
    <3> QED BY <1>2, <1>3, <3>1
  <2> QED BY <1>3, <2>1, <2>2
<1> QED BY <1>3, <1>4

(* The result that decides a match is filed: once, and as what it was.         *)
LEMMA DecisionKeeps ==
  ASSUME HistoryInv, Served, NEW f, AtHand(f), f.ev \in Decided,
         History!EnterResult(f), screen' = "result", on' = 0,
         entered' = IF on \notin {0, f.match} THEN entered \union {f.match} ELSE entered
  PROVE  FiledInv' /\ PageInv' /\ PureInv'
<1> DEFINE e == [match |-> f.match, length |-> History!Length(f), rounds |-> History!RecordRound(f)]
           all == <<e>> \o filed
           m == IF Len(all) > HistoryCap THEN HistoryCap ELSE Len(all)
<1>1. History!Final(f) /\ Deciding(f)
  BY DEF History!Final, Decided, Deciding
<1>2. filed' = SubSeq(all, 1, m) /\ ctx' = None /\ rounds' = <<>>
  BY <1>1 DEF History!EnterResult, History!CommitMatch
<1>3. f.match \in Nat /\ f.match # 0 /\ f.match <= match /\ (f.match = match => Over)
  BY <1>1 DEF AtHand
<1>4. /\ FiledInv /\ PageInv /\ filed \in Seq(Entry) /\ on \in Nat /\ on <= match
      /\ (on = 0 => ctx = None) /\ ctx \in Nat \union {None}
      /\ (on # 0 /\ on \notin entered => Gathered)
  BY DEF HistoryInv, FiledInv, PageInv
<1>5. e \in Entry /\ e.match = f.match /\ e.length = History!Length(f) /\ e.rounds = History!RecordRound(f)
  <2>1. History!Length(f) \in Nat
    BY <1>3, <1>4 DEF History!Length
  <2>2. History!RecordRound(f) \in Seq(Row)
    BY <1>4, RecordIsTyped
  <2> QED BY <1>3, <2>1, <2>2 DEF Entry
<1> HIDE DEF e
<1>6. m \in Nat /\ m <= Len(filed) + 1
  <2>1. Len(all) = Len(filed) + 1 /\ Len(filed) \in Nat /\ HistoryCap \in Nat
    BY <1>4, <1>5, StreamAssumption
  <2> HIDE DEF all
  <2> QED BY <2>1
<1> HIDE DEF m
<1>7. /\ filed' \in Seq(Entry)
      /\ \A k \in 1..Len(filed') : (k = 1 /\ filed'[k] = e) \/ (k - 1 \in 1..Len(filed) /\ filed'[k] = filed[k - 1])
  <2>1. filed' = SubSeq(<<e>> \o filed, 1, m)
    BY <1>2
  <2> QED BY <1>4, <1>5, <1>6, <2>1, FiledFirst
<1> HIDE DEF all
<1>8. match' = match /\ (Over <=> Over')
  BY DEF AtHand, Over
<1>9. \A j \in 1..Len(wire') : Deciding(wire'[j]) => f.match # wire'[j].match
  BY <1>1 DEF AtHand
<1>10. \A k \in 1..Len(filed) : filed[k].match # f.match
  BY <1>1 DEF AtHand
<1>11. \A k \in 1..Len(filed) :
          /\ filed[k].match <= match
          /\ filed[k].match = match => Over
          /\ \A j \in 1..Len(wire') : Deciding(wire'[j]) => filed[k].match # wire'[j].match
  <2>1. PICK d \in Int : Carries(d)
    BY DEF Served
  <2>2. ASSUME NEW k \in 1..Len(filed), NEW j \in 1..Len(wire'), Deciding(wire'[j])
        PROVE  filed[k].match # wire'[j].match
    <3>1. CASE Quiet(wire'[j])
      BY <2>2, <3>1 DEF Quiet
    <3>2. CASE j + d \in 1..Len(wire) /\ wire'[j] = wire[j + d]
      BY <1>4, <2>2, <3>2 DEF FiledInv
    <3>3. CASE New(wire'[j])
      BY <1>4, <2>2, <3>3 DEF New, FiledInv
    <3> QED BY <2>1, <3>1, <3>2, <3>3 DEF Carries
  <2> QED BY <1>4, <2>2 DEF FiledInv
<1>12. FiledInv'
  <2>1. ASSUME NEW k \in 1..Len(filed')
        PROVE  /\ filed'[k].match <= match'
               /\ filed'[k].match = match' => Over'
               /\ \A j \in 1..Len(wire') : Deciding(wire'[j]) => filed'[k].match # wire'[j].match
    BY <1>3, <1>5, <1>7, <1>8, <1>9, <1>11
  <2>2. ASSUME NEW k \in 1..Len(filed'), NEW l \in 1..Len(filed'), filed'[k].match = filed'[l].match
        PROVE  k = l
    <3>1. CASE filed'[k] = e
      BY <1>5, <1>7, <1>10, <2>2, <3>1
    <3>2. CASE filed'[l] = e
      BY <1>5, <1>7, <1>10, <2>2, <3>2
    <3>3. CASE filed'[k] # e /\ filed'[l] # e
      <4>1. /\ k - 1 \in 1..Len(filed) /\ filed'[k] = filed[k - 1]
            /\ l - 1 \in 1..Len(filed) /\ filed'[l] = filed[l - 1]
        BY <1>7, <3>3
      <4>2. k - 1 = l - 1
        BY <1>4, <2>2, <4>1 DEF FiledInv
      <4> QED BY <4>1, <4>2
    <3> QED BY <3>1, <3>2, <3>3
  <2> QED BY <1>7, <2>1, <2>2 DEF FiledInv
<1>13. PageInv'
  <2>1. Gathered'
    BY <1>2 DEF Gathered, Rising
  <2>2. on' \in Nat /\ on' <= match' /\ rounds' \in Seq(Row) /\ screen' \in History!State
    <3>1. match \in Nat
      BY DEF HistoryInv, SeatInv
    <3> QED BY <1>2, <1>8, <3>1 DEF History!State
  <2> QED BY <1>2, <2>1, <2>2 DEF PageInv
<1>14. PureInv'
  <2>1. ASSUME f.match \notin entered'
        PROVE  OneMatch(e)
    <3>1. on \in {0, f.match} /\ f.match \notin entered
      BY <2>1
    <3>2. \A i \in 1..Len(e.rounds) : e.rounds[i].match = f.match
                    /\ \A j \in 1..Len(e.rounds) : i < j => e.rounds[i].round < e.rounds[j].round
      BY <1>4, <1>5, <3>1, RecordIsOfTheMatch
    <3>3. e.length \in {0, f.match}
      <4>1. ctx \in {None, 0, f.match}
        BY <1>3, <1>4, <3>1 DEF Gathered
      <4> QED BY <1>5, <4>1 DEF History!Length
    <3> QED BY <1>5, <3>2, <3>3 DEF OneMatch, Rising, History!Rows
  <2>2. entered \subseteq entered'
    OBVIOUS
  <2>3. ASSUME NEW k \in 1..Len(filed'), filed'[k].match \notin entered'
        PROVE  OneMatch(filed'[k])
    <3>1. CASE filed'[k] = e
      BY <1>5, <2>1, <2>3, <3>1
    <3>2. CASE k - 1 \in 1..Len(filed) /\ filed'[k] = filed[k - 1]
      BY <2>2, <2>3, <3>2 DEF HistoryInv, PureInv
    <3> QED BY <1>7, <3>1, <3>2
  <2> QED BY <2>3 DEF PureInv, OneMatch, Rising, History!Rows
<1> QED BY <1>12, <1>13, <1>14

(* A frame that shows the match, without deciding it, is gathered or is not,   *)
(* behind what was gathered before.                                            *)
LEMMA ShownKeeps ==
  ASSUME HistoryInv, Served, NEW f, AtHand(f), on' = f.match, screen' \in History!State, filed' = filed,
         entered' = IF on \notin {0, f.match} THEN entered \union {f.match} ELSE entered,
         rounds' \in {<<>>, rounds} \/ (Telling(f) /\ rounds' = History!RecordRound(f)),
         ctx' \in {0, f.match} \/ (ctx' = ctx)
  PROVE  FiledInv' /\ PageInv' /\ PureInv'
<1>0. /\ PageInv /\ rounds \in Seq(Row) /\ on \in Nat /\ on <= match /\ match \in Nat /\ round \in Nat
      /\ ctx \in Nat \union {None} /\ (on = 0 => ctx = None /\ rounds = <<>>)
      /\ (on # 0 /\ on \notin entered => Gathered)
  BY DEF HistoryInv, PageInv, SeatInv
<1>1. f.match \in Nat /\ f.match # 0 /\ f.match <= match /\ f.round \in Nat /\ match' = match
  BY DEF AtHand
<1>2. entered \subseteq entered'
  OBVIOUS
<1>3. PureInv'
  BY <1>2 DEF HistoryInv, PureInv
<1>4. FiledInv'
  BY FiledCarried
<1>5. ASSUME f.match \notin entered'
      PROVE  Gathered'
  <2>1. on \in {0, f.match} /\ f.match \notin entered
    BY <1>5
  <2>2. ctx' \in {None, 0, f.match}
    BY <1>0, <2>1 DEF Gathered
  <2>3. \A r : PastThen(r) <=> Past(r)
    BY DEF AtHand, PastThen, Past, Outstanding
  <2>4. CASE rounds' = <<>>
    BY <2>2, <2>4 DEF Gathered, Rising
  <2>5. CASE rounds' = rounds /\ rounds # <<>>
    <3>1. on = f.match /\ Gathered
      BY <1>0, <1>1, <2>1, <2>5
    <3>2. UNCHANGED <<rounds, on>> /\ \E d \in Int : Carries(d)
      BY <2>5, <3>1 DEF Served
    <3>3. PICK d \in Int : Carries(d)
      BY <3>2
    <3>4. ASSUME NEW i \in 1..Len(rounds), NEW j \in 1..Len(wire'), Telling(wire'[j]), wire'[j].match = on
          PROVE  rounds[i].round < wire'[j].round
      <4>1. CASE Quiet(wire'[j])
        BY <3>4, <4>1 DEF Quiet
      <4>2. CASE j + d \in 1..Len(wire) /\ wire'[j] = wire[j + d]
        BY <3>1, <3>4, <4>2 DEF Gathered
      <4>3. CASE New(wire'[j])
        <5>1. Past(rounds[i].round) /\ Outstanding /\ wire'[j].round = round
          BY <3>1, <3>4, <4>3 DEF New, Gathered
        <5> QED BY <5>1 DEF Past
      <4> QED BY <3>3, <4>1, <4>2, <4>3 DEF Carries
    <3>5. \A i \in 1..Len(rounds) : rounds[i].match = on /\ (on = match' => PastThen(rounds[i].round))
      BY <1>1, <2>3, <3>1 DEF Gathered
    <3> QED BY <2>2, <3>1, <3>2, <3>4, <3>5 DEF Gathered, PastThen, Past
  <2>6. CASE Telling(f) /\ rounds' = History!RecordRound(f)
    <3>1. \A i \in 1..Len(rounds') : /\ rounds'[i].match = f.match /\ rounds'[i].round \in Nat
                                     /\ rounds'[i].round <= f.round
                                     /\ \A j \in 1..Len(rounds') : i < j => rounds'[i].round < rounds'[j].round
      BY <1>0, <2>1, <2>6, RecordIsOfTheMatch
    <3>2. ASSUME NEW i \in 1..Len(rounds'), NEW j \in 1..Len(wire'), Telling(wire'[j]), wire'[j].match = on'
          PROVE  rounds'[i].round < wire'[j].round
      <4>1. f.round < wire'[j].round
        BY <2>6, <3>2 DEF AtHand
      <4>2. wire'[j].round \in Nat
        BY FramesAreTyped DEF Served
      <4> QED BY <1>1, <3>1, <4>1, <4>2
    <3>3. ASSUME NEW i \in 1..Len(rounds'), on' = match'
          PROVE  PastThen(rounds'[i].round)
      <4>1. Past(f.round)
        BY <1>1, <2>6, <3>3 DEF AtHand
      <4>2. f.round <= round' /\ (Outstanding' => f.round < round') /\ round' \in Nat
        BY <1>0, <2>3, <4>1 DEF PastThen, AtHand
      <4>3. rounds'[i].round \in Nat /\ rounds'[i].round <= f.round
        BY <3>1
      <4>4. rounds'[i].round <= round' /\ (f.round < round' => rounds'[i].round < round')
        BY <1>1, <4>2, <4>3
      <4> QED BY <4>2, <4>4 DEF PastThen
    <3> QED BY <2>2, <3>1, <3>2, <3>3 DEF Gathered, Rising, PastThen, Past
  <2> QED BY <2>4, <2>5, <2>6
<1>6. PageInv'
  <2>1. rounds' \in Seq(Row)
    <3>1. CASE rounds' = <<>>
      BY <3>1
    <3>2. CASE rounds' = rounds
      BY <1>0, <3>2
    <3>3. CASE rounds' = History!RecordRound(f)
      BY <1>0, <3>3, RecordIsTyped
    <3> QED BY <3>1, <3>2, <3>3
  <2>2. ctx' \in Nat \union {None}
    BY <1>0, <1>1
  <2> QED BY <1>1, <1>5, <2>1, <2>2 DEF PageInv
<1> QED BY <1>3, <1>4, <1>6

(* A screen that keeps no record leaves it; the lobby drops what is unfinished. *)
LEMMA RestingKeeps ==
  ASSUME HistoryInv, Served, screen' \in History!State, filed' = filed,
         UNCHANGED <<ctx, rounds, on>> \/ (ctx' = None /\ rounds' = <<>> /\ on' = 0),
         entered \subseteq entered'
  PROVE  FiledInv' /\ PageInv' /\ PureInv'
<1>1. FiledInv'
  BY FiledCarried
<1>2. PureInv'
  BY DEF HistoryInv, PureInv
<1>3. match \in Nat /\ match' \in Nat /\ match <= match' /\ PageInv
  BY DEF HistoryInv, SeatInv, Served, Onward
<1>4. CASE UNCHANGED <<ctx, rounds, on>>
  <2>1. on \in Nat /\ on <= match'
    BY <1>3 DEF PageInv
  <2>2. on \notin entered' => Gathered'
    BY <1>3, <1>4, GatheredCarried DEF PageInv
  <2> QED BY <1>1, <1>2, <1>3, <1>4, <2>1, <2>2 DEF PageInv
<1>5. CASE ctx' = None /\ rounds' = <<>> /\ on' = 0
  <2>1. Gathered'
    BY <1>5 DEF Gathered, Rising
  <2>2. rounds' \in Seq(Row) /\ on' \in Nat /\ on' <= match'
    BY <1>3, <1>5
  <2>3. ctx' \in Nat \union {None}
    BY <1>5
  <2> QED BY <1>1, <1>2, <1>5, <2>1, <2>2, <2>3 DEF PageInv
<1> QED BY <1>4, <1>5

LEMMA ReceiveKeeps ==
  ASSUME HistoryInv, wire # <<>>, History!Receive
  PROVE  HistoryInv'
<1> DEFINE f == wire[1]
<1>1. PICK ev \in History!Events(f) :
        /\ History!Takes(screen, ev) /\ History!Enter(History!To(screen, ev), f)
        /\ wire' = Tail(wire) /\ UNCHANGED History!server
  BY DEF History!Receive, History!Read
<1> DEFINE to == History!To(screen, ev)
<1>2. SeatInv /\ WireInv /\ screen \in History!State
  BY DEF HistoryInv, PageInv
<1>3. Served /\ UNCHANGED <<playing, phase, heard, match, round>>
  BY <1>1, <1>2, ReadingServes DEF History!server, History!seats, History!told
<1>4. SeatInv' /\ WireInv'
  BY <1>2, <1>3, WireCarried DEF Served
<1>5. f.match = 0 => f.ev \in {"waiting", "idle"} \/ (f.ev = "connected" /\ f.state \in {"idle", "waiting"})
  <2>1. 1 \in 1..Len(wire)
    BY <1>2 DEF WireInv
  <2> QED BY <1>2, <2>1 DEF WireInv
<1>6. /\ to \in History!State
      /\ to = "result" => f.ev \in Decided \union {"result"}
      /\ to \in History!InMatch => f.match # 0
  BY <1>1, <1>2, <1>5, FramesLead
<1>7. f.match # 0 => AtHand(f)
  BY <1>1, <1>3, FirstAtHand
<1>8. screen' = to /\ entered \subseteq entered'
  BY <1>1 DEF History!Enter
<1> HIDE DEF f, to
<1>9. History!Enter(to, f)
  BY <1>1 DEF f, to
<1>10. FiledInv' /\ PageInv' /\ PureInv'
  <2>1. CASE to = "result" /\ f.ev \in Decided
    <3>1. History!Final(f) /\ f.match # 0 /\ to \in History!InMatch
      BY <1>6, <2>1 DEF History!Final, Decided, History!InMatch
    <3>2. /\ History!EnterResult(f) /\ screen' = "result" /\ on' = 0
          /\ entered' = IF on \notin {0, f.match} THEN entered \union {f.match} ELSE entered
      <4>1. History!EnterResult(f)
        BY <1>9, <2>1, Zenon DEF History!Enter
      <4>2. screen' = "result" /\ on' = 0
        BY <1>9, <2>1, <3>1, Zenon DEF History!Enter
      <4>3. entered' = IF on \notin {0, f.match} THEN entered \union {f.match} ELSE entered
        BY <1>9, <3>1, Zenon DEF History!Enter
      <4> QED BY <4>1, <4>2, <4>3
    <3> QED BY <1>3, <1>7, <2>1, <3>1, <3>2, DecisionKeeps
  <2>2. CASE to = "result" /\ f.ev = "result"
    <3>1. ~History!Final(f) /\ f.match # 0 /\ to \in History!InMatch /\ Telling(f)
      BY <1>6, <2>2 DEF History!Final, History!InMatch, Telling
    <3>2. /\ History!EnterResult(f) /\ on' = f.match
          /\ entered' = IF on \notin {0, f.match} THEN entered \union {f.match} ELSE entered
      BY <1>9, <2>2, <3>1 DEF History!Enter
    <3>3. rounds' = History!RecordRound(f) /\ UNCHANGED <<ctx, filed>>
      BY <3>1, <3>2 DEF History!EnterResult
    <3> QED BY <1>3, <1>6, <1>7, <1>8, <3>1, <3>2, <3>3, ShownKeeps
  <2>3. CASE to = "matched"
    <3>1. f.match # 0 /\ to \in History!InMatch
      BY <1>6, <2>3 DEF History!InMatch
    <3>2. /\ History!EnterMatched(f) /\ on' = f.match
          /\ entered' = IF on \notin {0, f.match} THEN entered \union {f.match} ELSE entered
      BY <1>9, <2>3, <3>1 DEF History!Enter
    <3>3. rounds' \in {<<>>, rounds} /\ (ctx' \in {0, f.match} \/ ctx' = ctx) /\ filed' = filed
      BY <3>2 DEF History!EnterMatched
    <3> QED BY <1>3, <1>6, <1>7, <1>8, <3>1, <3>2, <3>3, ShownKeeps
  <2>4. CASE to \in {"countdown", "shoot"}
    <3>1. f.match # 0 /\ to \in History!InMatch
      BY <1>6, <2>4 DEF History!InMatch
    <3>2. /\ History!EnterOther /\ on' = f.match
          /\ entered' = IF on \notin {0, f.match} THEN entered \union {f.match} ELSE entered
      BY <1>9, <2>4, <3>1 DEF History!Enter
    <3>3. rounds' = rounds /\ ctx' = ctx /\ filed' = filed
      BY <3>2 DEF History!EnterOther, History!record
    <3> QED BY <1>3, <1>6, <1>7, <1>8, <3>1, <3>2, <3>3, ShownKeeps
  <2>5. CASE to = "lobby"
    <3>1. ctx' = None /\ rounds' = <<>> /\ on' = 0 /\ filed' = filed
      <4>1. History!EnterLobby
        BY <1>9, <2>5, Zenon DEF History!Enter
      <4>2. on' = 0
        BY <1>9, <2>5, Zenon DEF History!Enter
      <4> QED BY <4>1, <4>2 DEF History!EnterLobby
    <3> QED BY <1>3, <1>6, <1>8, <3>1, RestingKeeps
  <2>6. CASE to \notin {"result", "matched", "countdown", "shoot", "lobby"}
    <3>1. History!EnterOther /\ on' = on
      BY <1>9, <2>6 DEF History!Enter, History!InMatch
    <3>2. UNCHANGED <<ctx, rounds, on>> /\ filed' = filed
      BY <3>1 DEF History!EnterOther, History!record
    <3> QED BY <1>3, <1>6, <1>8, <3>2, RestingKeeps
  <2> QED BY <1>6, <2>1, <2>2, <2>3, <2>4, <2>5, <2>6
<1> QED BY <1>4, <1>10 DEF HistoryInv

LEMMA GoKeeps ==
  ASSUME HistoryInv, NEW ev, History!Go(ev)
  PROVE  HistoryInv'
<1>1. SeatInv /\ WireInv /\ screen \in History!State /\ wire \in Seq(Frame)
  BY DEF HistoryInv, PageInv, WireInv
<1>2. Served
  <2>1. CASE History!TakeChallenge \/ History!TakeCancel
    BY <1>1, <2>1, RequestsServe
  <2>2. CASE UNCHANGED History!feed
    <3>1. UNCHANGED <<invite, playing, cpu, match, round, phase, heard, wire>>
      BY <2>2 DEF History!feed, History!server, History!seats, History!told, History!link
    <3>2. invite \in BOOLEAN /\ playing \in BOOLEAN /\ heard \in [{Me} -> Told]
      BY <1>1 DEF SeatInv
    <3> QED BY <1>1, <3>1, <3>2, SeatServes, NothingSent
  <2> QED BY <2>1, <2>2 DEF History!Go, History!Press
<1>3. screen' \in History!State
  <2>1. Leads(<<ev, screen'>>)
    BY <1>1, EventsLead DEF History!Go
  <2>2. <<ev, screen'>>[2] = screen'
    OBVIOUS
  <2> QED BY <2>1, <2>2 DEF Leads
<1>4. /\ UNCHANGED <<ctx, rounds, on>> \/ (ctx' = None /\ rounds' = <<>> /\ on' = 0)
      /\ filed' = filed /\ entered' = entered
  BY DEF History!Go, History!EnterLobby, History!EnterOther, History!record
<1>5. FiledInv' /\ PageInv' /\ PureInv'
  BY <1>2, <1>3, <1>4, RestingKeeps
<1>6. SeatInv' /\ WireInv'
  BY <1>1, <1>2, WireCarried DEF Served
<1> QED BY <1>5, <1>6 DEF HistoryInv

LEMMA HistoryInit ==
  ASSUME History!Init
  PROVE  HistoryInv
<1> USE DEF History!Init, History!FeedInit
<1>1. SeatInv
  <2>1. heard \in [{Me} -> Told] /\ phase \in Phases
    BY DEF History!Me, Me, Told, Phases
  <2> QED BY <2>1 DEF SeatInv
<1>2. WireInv /\ FiledInv
  BY DEF WireInv, FiledInv
<1>3. PageInv /\ PureInv
  <2>1. Gathered
    BY DEF Gathered, Rising
  <2> QED BY <1>1, <2>1 DEF PageInv, PureInv, History!State, SeatInv
<1> QED BY <1>1, <1>2, <1>3 DEF HistoryInv

LEMMA HistoryStep ==
  ASSUME HistoryInv, History!Next
  PROVE  HistoryInv'
<1>1. CASE wire # <<>> /\ History!Receive
  BY <1>1, ReceiveKeeps
<1>2. CASE \E ev \in History!Pressed : History!Go(ev)
  BY <1>2, GoKeeps
<1>3. CASE \/ History!Elsewhere \/ History!PlayCPU \/ History!Search \/ History!Acknowledge
           \/ (wire # <<>> /\ History!Drop)
  BY <1>3, ElsewhereKeeps
<1> QED BY <1>1, <1>2, <1>3 DEF History!Next

LEMMA HistoryKept == Spec => [](part = "history" => HistoryInv)
<1>1. Init => (part = "history" => HistoryInv)
  BY HistoryInit DEF Init
<1>2. (part = "history" => HistoryInv) /\ [Next]_<<part, stream, record, game, ladder>>
        => (part = "history" => HistoryInv)'
  <2>1. ASSUME HistoryInv, UNCHANGED <<stream, record>> PROVE HistoryInv'
    <3>1. UNCHANGED <<queueing, invite, playing, requeued, cpu, match, round, acked, phase, between, failed,
                      heard, wire, screen, ctx, rounds, filed, on, entered>>
      BY <2>1 DEF stream, record
    <3>2. invite \in BOOLEAN /\ playing \in BOOLEAN /\ heard \in [{Me} -> Told] /\ wire \in Seq(Frame) /\ SeatInv
      BY <2>1 DEF HistoryInv, SeatInv, WireInv
    <3>3. Served
      BY <3>1, <3>2, SeatServes, NothingSent
    <3> QED BY <2>1, <3>1, <3>3, PageCarried
  <2>2. Next /\ part = "history" => History!Next
    BY DEF Next
  <2>3. Next => part' = part
    BY DEF Next
  <2> QED BY <2>1, <2>2, <2>3, HistoryStep
<1> QED BY <1>1, <1>2, PTL DEF Spec

(* However the stream is broken, cut short and repeated, and however a match   *)
(* ends, it is filed at most once (commitMatch).                               *)
THEOREM MatchesAreFiledOnce == Spec => []EachMatchOnce
<1>1. HistoryInv => History!EachMatchOnce
  BY DEF HistoryInv, FiledInv, History!EachMatchOnce
<1>2. (part = "history" => HistoryInv) => EachMatchOnce
  BY <1>1 DEF EachMatchOnce
<1> QED BY <1>2, HistoryKept, PTL

(* An entry of the history is of one match, its rounds in the order they were  *)
(* played, unless the page was taken to that match straight from another       *)
(* (enter.matched, recordRound).                                               *)
THEOREM EntriesAreOfOneMatch == Spec => []OneMatchUnlessRequeued
<1>1. HistoryInv => History!OneMatchUnlessRequeued
  BY DEF HistoryInv, PureInv, OneMatch, Rising, History!OneMatchUnlessRequeued, History!Rows
<1>2. (part = "history" => HistoryInv) => OneMatchUnlessRequeued
  BY <1>1 DEF OneMatchUnlessRequeued
<1> QED BY <1>2, HistoryKept, PTL

-----------------------------------------------------------------------------
(* What the ladder keeps of a sequence. Induction over data is in the form of  *)
(* sets: a set of numbers that has 0, and with each its successor, has them    *)
(* all, and so for sequences and what is appended to them.                     *)
LEMMA Least == ASSUME NEW T, T \subseteq Nat, T # {} PROVE \E x \in T : \A y \in T : x <= y
<1>1. PICK x \in T : \A y \in T : ~(<<y, x>> \in OpToRel(<, Nat))
  BY NatLessThanWellFounded, WFMin
<1>2. \A a, b \in Nat : <<b, a>> \in OpToRel(<, Nat) <=> b < a
  BY DEF OpToRel
<1>3. x \in Nat /\ \A y \in T : y \in Nat /\ ~(y < x)
  BY <1>1, <1>2
<1>4. \A y \in T : x <= y
  BY <1>3
<1> QED BY <1>4

LEMMA Upwards == ASSUME NEW n \in Nat, NEW T, 0 \in T, \A i \in Nat : i < n /\ i \in T => i + 1 \in T
  PROVE \A i \in 0..n : i \in T
<1> SUFFICES ASSUME NEW k \in 0..n, k \notin T PROVE FALSE
  OBVIOUS
<1> DEFINE U == {i \in 0..n : i \notin T}
<1>0. U \subseteq Nat /\ U # {}
  OBVIOUS
<1>1. PICK x \in U : \A y \in U : x <= y
  BY <1>0, Least
<1>2. x # 0 /\ x \in 0..n
  BY <1>1
<1> DEFINE z == x - 1
<1>3. z \in 0..n /\ z + 1 = x /\ z < n /\ ~(x <= z)
  BY <1>2
<1> HIDE DEF z
<1>4. z \in T
  BY <1>1, <1>3
<1> QED BY <1>1, <1>3, <1>4

(* The recursive function exists *)
KeptStep(s, A, f, i) == IF i = 0 THEN <<>> ELSE IF s[i] \in A THEN Append(f[i - 1], s[i]) ELSE f[i - 1]

LEMMA UpToExists ==
  ASSUME NEW S, NEW s \in Seq(S), NEW A
  PROVE  \E f \in [0..Len(s) -> Seq(S)] : \A i \in 0..Len(s) : f[i] = KeptStep(s, A, f, i)
<1> DEFINE n == Len(s)
           Good(k, f) == f \in [0..k -> Seq(S)] /\ \A i \in 0..k : f[i] = KeptStep(s, A, f, i)
           T == {k \in 0..n : \E f \in [0..k -> Seq(S)] : \A i \in 0..k : f[i] = KeptStep(s, A, f, i)}
<1>0. n \in Nat /\ \A i \in 1..n : s[i] \in S
  OBVIOUS
<1> HIDE DEF n
<1>1. 0 \in T
  <2> DEFINE f == [i \in 0..0 |-> <<>>]
  <2>1. f \in [0..0 -> Seq(S)] /\ \A i \in 0..0 : f[i] = KeptStep(s, A, f, i)
    BY DEF KeptStep
  <2> HIDE DEF f
  <2> QED BY <1>0, <2>1
<1>2. ASSUME NEW k \in Nat, k < n, k \in T PROVE k + 1 \in T
  <2>1. PICK g \in [0..k -> Seq(S)] : \A i \in 0..k : g[i] = KeptStep(s, A, g, i)
    BY <1>2
  <2> DEFINE f == [i \in 0..(k + 1) |-> IF i <= k THEN g[i] ELSE IF s[k + 1] \in A THEN Append(g[k], s[k + 1]) ELSE g[k]]
  <2>2. s[k + 1] \in S /\ g[k] \in Seq(S) /\ k + 1 \in 0..n
    BY <1>0, <1>2
  <2>3. f \in [0..(k + 1) -> Seq(S)]
    <3>1. ASSUME NEW i \in 0..(k + 1) PROVE f[i] \in Seq(S)
      BY <2>2, <1>2
    <3> QED BY <3>1
  <2>4. ASSUME NEW i \in 0..(k + 1) PROVE f[i] = KeptStep(s, A, f, i)
    <3>1. CASE i \in 0..k
      <4>1. f[i] = g[i] /\ (i # 0 => i - 1 \in 0..k /\ f[i - 1] = g[i - 1])
        BY <1>2, <3>1
      <4> HIDE DEF f
      <4> QED BY <2>1, <3>1, <4>1 DEF KeptStep
    <3>2. CASE i = k + 1
      <4>1. i # 0 /\ i - 1 = k /\ f[k] = g[k] /\ f[i] = IF s[k + 1] \in A THEN Append(g[k], s[k + 1]) ELSE g[k]
        BY <1>2, <3>2
      <4> HIDE DEF f
      <4> QED BY <3>2, <4>1 DEF KeptStep
    <3> QED BY <1>2, <3>1, <3>2
  <2> HIDE DEF f
  <2> QED BY <2>2, <2>3, <2>4
<1>3. n \in T
  <2> HIDE DEF T
  <2>1. \A k \in Nat : k < n /\ k \in T => k + 1 \in T
    BY <1>2
  <2>2. \A i \in 0..n : i \in T
    BY <1>0, <1>1, <2>1, Upwards
  <2> QED BY <1>0, <2>2
<1> QED BY <1>3 DEF n

LEMMA KeptIs ==
  ASSUME NEW S, NEW s \in Seq(S), NEW A
  PROVE  \E f : (\A i \in 0..Len(s) : f[i] = KeptStep(s, A, f, i)) /\ Tower!Kept(s, A) = f[Len(s)]
<1> DEFINE F == CHOOSE f : f = [i \in 0..Len(s) |-> IF i = 0 THEN <<>> ELSE IF s[i] \in A THEN Append(f[i - 1], s[i]) ELSE f[i - 1]]
<1>1. \E f : f = [i \in 0..Len(s) |-> IF i = 0 THEN <<>> ELSE IF s[i] \in A THEN Append(f[i - 1], s[i]) ELSE f[i - 1]]
  <2>1. PICK f \in [0..Len(s) -> Seq(S)] : \A i \in 0..Len(s) : f[i] = KeptStep(s, A, f, i)
    BY UpToExists
  <2>2. f = [i \in 0..Len(s) |-> IF i = 0 THEN <<>> ELSE IF s[i] \in A THEN Append(f[i - 1], s[i]) ELSE f[i - 1]]
    BY <2>1 DEF KeptStep
  <2> QED BY <2>2
<1>2. F = [i \in 0..Len(s) |-> IF i = 0 THEN <<>> ELSE IF s[i] \in A THEN Append(F[i - 1], s[i]) ELSE F[i - 1]]
  <2> HIDE DEF F
  <2> QED BY <1>1 DEF F
<1>3. Tower!Kept(s, A) = F[Len(s)]
  BY DEF Tower!Kept
<1> HIDE DEF F
<1>4. \A i \in 0..Len(s) : F[i] = KeptStep(s, A, F, i)
  BY <1>2 DEF KeptStep
<1> QED BY <1>3, <1>4

LEMMA KeptNone ==
  ASSUME NEW A
  PROVE  Tower!Kept(<<>>, A) = <<>>
<1>1. <<>> \in Seq({}) /\ Len(<<>>) = 0
  OBVIOUS
<1>2. PICK f : (\A i \in 0..Len(<<>>) : f[i] = KeptStep(<<>>, A, f, i)) /\ Tower!Kept(<<>>, A) = f[Len(<<>>)]
  BY <1>1, KeptIs
<1> QED BY <1>1, <1>2 DEF KeptStep

LEMMA KeptAppend ==
  ASSUME NEW S, NEW s \in Seq(S), NEW e \in S, NEW A
  PROVE  Tower!Kept(Append(s, e), A) = IF e \in A THEN Append(Tower!Kept(s, A), e) ELSE Tower!Kept(s, A)
<1> DEFINE t == Append(s, e)
           n == Len(s)
<1>1. n \in Nat /\ t \in Seq(S) /\ Len(t) = n + 1 /\ t[n + 1] = e /\ \A i \in 1..n : s[i] = t[i]
  OBVIOUS
<1> HIDE DEF t, n
<1>2. PICK f : (\A i \in 0..n : f[i] = KeptStep(s, A, f, i)) /\ Tower!Kept(s, A) = f[n]
  BY KeptIs DEF n
<1>3. PICK g : (\A i \in 0..(n + 1) : g[i] = KeptStep(t, A, g, i)) /\ Tower!Kept(t, A) = g[n + 1]
  BY <1>1, KeptIs
<1>4. \A i \in 0..n : f[i] = g[i]
  <2> DEFINE T == {i \in 0..n : f[i] = g[i]}
  <2>1. 0 \in T
    <3>1. 0 \in 0..n /\ 0 \in 0..(n + 1)
      BY <1>1
    <3> QED BY <1>2, <1>3, <3>1 DEF KeptStep
  <2>2. ASSUME NEW i \in Nat, i < n, i \in T PROVE i + 1 \in T
    <3>1. i + 1 \in 0..n /\ i + 1 \in 0..(n + 1) /\ i + 1 \in 1..n /\ i + 1 # 0 /\ (i + 1) - 1 = i /\ f[i] = g[i]
      BY <1>1, <2>2
    <3>2. f[i + 1] = KeptStep(s, A, f, i + 1) /\ g[i + 1] = KeptStep(t, A, g, i + 1) /\ s[i + 1] = t[i + 1]
      BY <1>1, <1>2, <1>3, <3>1
    <3> QED BY <3>1, <3>2 DEF KeptStep
  <2>3. \A i \in Nat : i < n /\ i \in T => i + 1 \in T
    BY <2>2
  <2> HIDE DEF T
  <2>4. \A i \in 0..n : i \in T
    BY <1>1, <2>1, <2>3, Upwards
  <2> QED BY <2>4 DEF T
<1>5. g[n + 1] = KeptStep(t, A, g, n + 1) /\ n + 1 # 0 /\ (n + 1) - 1 = n /\ f[n] = g[n]
  BY <1>1, <1>3, <1>4
<1>6. g[n + 1] = IF e \in A THEN Append(f[n], e) ELSE f[n]
  BY <1>1, <1>5 DEF KeptStep
<1> QED BY <1>2, <1>3, <1>6 DEF t

LEMMA SeqUpwards ==
  ASSUME NEW S, NEW T, <<>> \in T, \A s \in Seq(S) : \A e \in S : s \in T => Append(s, e) \in T
  PROVE  Seq(S) \subseteq T
<1> SUFFICES ASSUME NEW n \in Nat PROVE \A s \in Seq(S) : Len(s) = n => s \in T
  OBVIOUS
<1> DEFINE U == {k \in Nat : \A s \in Seq(S) : Len(s) = k => s \in T}
<1>1. 0 \in U
  OBVIOUS
<1>2. ASSUME NEW k \in Nat, k \in U PROVE k + 1 \in U
  <2>1. ASSUME NEW s \in Seq(S), Len(s) = k + 1 PROVE s \in T
    <3> DEFINE r == SubSeq(s, 1, k)
    <3>1. r \in Seq(S) /\ Len(r) = k /\ s[k + 1] \in S /\ s = Append(r, s[k + 1])
      BY <2>1
    <3> HIDE DEF r
    <3>2. r \in T
      BY <1>2, <3>1
    <3> QED BY <3>1, <3>2
  <2> QED BY <2>1
<1>3. \A k \in Nat : k < n /\ k \in U => k + 1 \in U
  BY <1>2
<1> HIDE DEF U
<1>4. n \in U
  <2>1. \A k \in 0..n : k \in U
    BY <1>1, <1>3, Upwards
  <2> QED BY <2>1
<1> QED BY <1>4 DEF U

LEMMA KeptTyped ==
  ASSUME NEW S, NEW s \in Seq(S), NEW A
  PROVE  Tower!Kept(s, A) \in Seq(S) /\ Tower!Ids(Tower!Kept(s, A)) = Tower!Ids(s) \intersect A
<1> DEFINE T == {r \in Seq(S) : Tower!Kept(r, A) \in Seq(S) /\ Tower!Ids(Tower!Kept(r, A)) = Tower!Ids(r) \intersect A}
<1>1. <<>> \in T
  <2>1. Tower!Ids(<<>>) = {} /\ <<>> \in Seq(S)
    BY DEF Tower!Ids
  <2> QED BY <2>1, KeptNone
<1>2. ASSUME NEW r \in Seq(S), NEW e \in S, r \in T PROVE Append(r, e) \in T
  <2>1. Tower!Kept(r, A) \in Seq(S) /\ Tower!Ids(Tower!Kept(r, A)) = Tower!Ids(r) \intersect A
    BY <1>2
  <2>2. Tower!Kept(Append(r, e), A) = IF e \in A THEN Append(Tower!Kept(r, A), e) ELSE Tower!Kept(r, A)
    BY KeptAppend
  <2>3. ASSUME NEW q \in Seq(S) PROVE Append(q, e) \in Seq(S) /\ Tower!Ids(Append(q, e)) = Tower!Ids(q) \union {e}
    <3>1. Append(q, e) \in Seq(S) /\ Len(Append(q, e)) = Len(q) + 1 /\ Append(q, e)[Len(q) + 1] = e
          /\ Len(q) \in Nat /\ \A i \in 1..Len(q) : Append(q, e)[i] = q[i]
      OBVIOUS
    <3>2. \A i \in 1..(Len(q) + 1) : i \in 1..Len(q) \/ i = Len(q) + 1
      BY <3>1
    <3>3. 1..Len(q) \subseteq 1..(Len(q) + 1) /\ Len(q) + 1 \in 1..(Len(q) + 1)
      BY <3>1
    <3> QED BY <3>1, <3>2, <3>3 DEF Tower!Ids
  <2>4. Tower!Kept(Append(r, e), A) \in Seq(S) /\ Tower!Ids(Tower!Kept(Append(r, e), A)) = Tower!Ids(Append(r, e)) \intersect A
    BY <2>1, <2>2, <2>3
  <2> QED BY <2>3, <2>4
<1> HIDE DEF T
<1>3. Seq(S) \subseteq T
  BY <1>1, <1>2, SeqUpwards
<1> QED BY <1>3 DEF T

LEMMA OntoTheEnd ==
  ASSUME NEW S, NEW e \in S
  PROVE  \A x, y \in Seq(S) : x \o Append(y, e) = Append(x \o y, e)
<1> SUFFICES ASSUME NEW x \in Seq(S), NEW y \in Seq(S)
             PROVE  x \o Append(y, e) = Append(x \o y, e)
  OBVIOUS
<1>1. x \o y \in Seq(S) /\ <<e>> \in Seq(S)
  OBVIOUS
<1>2. Append(x \o y, e) = (x \o y) \o <<e>> /\ Append(y, e) = y \o <<e>>
  BY <1>1, AppendIsConcat
<1>3. (x \o y) \o <<e>> = x \o (y \o <<e>>)
  BY <1>1, ConcatAssociative
<1> QED BY <1>2, <1>3

LEMMA PutLast ==
  ASSUME NEW S, NEW s \in Seq(S), NEW e \in S
  PROVE  /\ s \o <<e>> \in Seq(S) /\ Len(s \o <<e>>) = Len(s) + 1
         /\ \A i \in 1..(Len(s) + 1) : (s \o <<e>>)[i] = IF i <= Len(s) THEN s[i] ELSE e
OBVIOUS

LEMMA FirstOnes ==
  ASSUME NEW S, NEW s \in Seq(S), NEW k \in 0..Len(s)
  PROVE  /\ SubSeq(s, 1, k) \in Seq(S) /\ Len(SubSeq(s, 1, k)) = k
         /\ \A i \in 1..k : SubSeq(s, 1, k)[i] = s[i]
OBVIOUS

LEMMA KeptConcat ==
  ASSUME NEW S, NEW s \in Seq(S), NEW t \in Seq(S), NEW A
  PROVE  Tower!Kept(s \o t, A) = Tower!Kept(s, A) \o Tower!Kept(t, A)
<1> DEFINE T == {r \in Seq(S) : Tower!Kept(s \o r, A) = Tower!Kept(s, A) \o Tower!Kept(r, A)}
<1>1. <<>> \in T
  <2>1. s \o <<>> = s /\ Tower!Kept(s, A) \in Seq(S)
    BY KeptTyped
  <2>2. Tower!Kept(s, A) \o <<>> = Tower!Kept(s, A)
    BY <2>1
  <2> QED BY <2>1, <2>2, KeptNone
<1>2. ASSUME NEW r \in Seq(S), NEW e \in S, r \in T PROVE Append(r, e) \in T
  <2>1. Tower!Kept(s \o r, A) = Tower!Kept(s, A) \o Tower!Kept(r, A) /\ s \o r \in Seq(S) /\ Append(r, e) \in Seq(S)
    BY <1>2
  <2>2. s \o Append(r, e) = Append(s \o r, e)
    OBVIOUS
  <2>3. Tower!Kept(Append(r, e), A) = IF e \in A THEN Append(Tower!Kept(r, A), e) ELSE Tower!Kept(r, A)
    BY KeptAppend
  <2>a. Tower!Kept(Append(s \o r, e), A) = IF e \in A THEN Append(Tower!Kept(s \o r, A), e) ELSE Tower!Kept(s \o r, A)
    <3> DEFINE q == s \o r
    <3>1. q \in Seq(S)
      BY <2>1
    <3> HIDE DEF q
    <3>2. Tower!Kept(Append(q, e), A) = IF e \in A THEN Append(Tower!Kept(q, A), e) ELSE Tower!Kept(q, A)
      BY <3>1, KeptAppend
    <3> QED BY <3>2 DEF q
  <2>4. Tower!Kept(s, A) \in Seq(S) /\ Tower!Kept(r, A) \in Seq(S)
    BY KeptTyped
  <2>5. Tower!Kept(s, A) \o Append(Tower!Kept(r, A), e) = Append(Tower!Kept(s, A) \o Tower!Kept(r, A), e)
    BY <2>4, OntoTheEnd
  <2> QED BY <2>1, <2>2, <2>3, <2>5, <2>a
<1> HIDE DEF T
<1>3. Seq(S) \subseteq T
  BY <1>1, <1>2, SeqUpwards
<1> QED BY <1>3 DEF T

LEMMA KeptAll ==
  ASSUME NEW A, NEW s \in Seq(A)
  PROVE  Tower!Kept(s, A) = s
<1> DEFINE T == {r \in Seq(A) : Tower!Kept(r, A) = r}
<1>1. <<>> \in T
  BY KeptNone
<1>2. ASSUME NEW r \in Seq(A), NEW e \in A, r \in T PROVE Append(r, e) \in T
  BY <1>2, KeptAppend
<1> HIDE DEF T
<1>3. Seq(A) \subseteq T
  BY <1>1, <1>2, SeqUpwards
<1> QED BY <1>3 DEF T

LEMMA KeptNothing ==
  ASSUME NEW S, NEW s \in Seq(S), NEW A, Tower!Ids(s) \intersect A = {}
  PROVE  Tower!Kept(s, A) = <<>>
<1>1. Tower!Kept(s, A) \in Seq(S) /\ Tower!Ids(Tower!Kept(s, A)) = {}
  BY KeptTyped
<1> DEFINE k == Tower!Kept(s, A)
<1> HIDE DEF k
<1>2. ASSUME k # <<>> PROVE FALSE
  <2>1. k \in Seq(S) /\ 1 \in 1..Len(k)
    BY <1>1, <1>2 DEF k
  <2> QED BY <1>1, <2>1 DEF Tower!Ids, k
<1> QED BY <1>2 DEF k
-----------------------------------------------------------------------------
(* The ladder. What a run owes, in retries, and the runs there are.            *)
Run == [order : Seq(Fighter), floor : Nat, cleared : BOOLEAN, won : Nat, spent : Nat, lost : BOOLEAN]
Fought == [beaten : SUBSET Fighter, losses : Nat, mixed : BOOLEAN]
Due(a) == IF a.lost THEN 1 ELSE 0
Owing(a) == a.spent + Due(a)
IsRun(a) ==
    /\ a \in Run /\ a.floor \in 1..Len(a.order) /\ (a.cleared => a.floor = 1)
    /\ Owing(a) <= a.won \div RetryFloors
Honest(a, h) == ~h.mixed => h.losses = Owing(a) /\ h.beaten = Tower!Below(a)

RunsInv ==
    /\ runs \in [PairKey -> Run \union {None}] /\ past \in [PairKey -> Fought]
    /\ legacy \in LegacyRun \union {None} /\ picked \in Fighter \union {None}
    /\ \A p \in PairKey : runs[p] # None => IsRun(runs[p]) /\ Honest(runs[p], past[p])

(* The page of a tab: where it may be, the floor it fights for, and the one it *)
(* shows, of the runs R and with the fighter pk picked.                        *)
Tabs == [screen : {"closed", "lobby", "ladder", "matched", "result"}, roster : Roster \union {<<>>},
         climbing : PairKey \union {None}, floor : Nat,
         offer : {"next", "done", "retry-loss", "retry-floor", None},
         shown : Fighter \union {None}, foe : Fighter \union {None}, asked : BOOLEAN, stale : BOOLEAN]

Own(page, pk) == IF pk \in Tower!Ids(page.roster) THEN pk ELSE page.roster[1]
Known(page, a) == Tower!Ids(a.order) \intersect Tower!Ids(page.roster) # {}
Settled(page, pk, a) ==
    Tower!RepairOrder(page.roster, Own(page, pk), a.order) = a.order /\ Known(page, a)

Placed(page) ==
    /\ page \in Tabs
    /\ page.screen = "closed" => ~page.asked
    /\ page.screen # "closed" => page.roster \in Roster
    /\ page.screen \in {"closed", "lobby"} => page.floor = 0 /\ page.offer = None
    /\ page.screen \in {"matched", "result"} => ~page.asked
    /\ page.floor # 0 /\ (page.asked \/ page.screen = "matched") => page.foe \in Fighter
    /\ page.screen = "ladder" \/ page.floor # 0 \/ page.offer # None => page.climbing \in PairKey
Fights(page, R) ==
    page.floor # 0 /\ (page.asked \/ page.screen = "matched") /\ ~page.stale =>
        LET a == R[page.climbing] IN
        a # None /\ ~a.lost /\ ~a.cleared /\ page.foe = a.order[a.floor] /\ Known(page, a)
Shows(page, R, pk) ==
    page.shown # None =>
        LET a == R[page.climbing] IN
        /\ page.screen = "ladder" /\ a # None /\ ~a.cleared /\ page.shown = a.order[a.floor]
        /\ Settled(page, pk, a)
Stands(page, R, pk) == Placed(page) /\ Fights(page, R) /\ Shows(page, R, pk)

TabsInv == tab \in [Tab -> Tabs] /\ \A t \in Tab : Stands(tab[t], runs, picked)
LadderInv == RunsInv /\ TabsInv

-----------------------------------------------------------------------------
(* What another tab does leaves a page as it stands, or overtakes it.          *)
LEMMA Behaves ==
  ASSUME NEW page, NEW R, NEW Q, NEW pk, Stands(page, R, pk), page.climbing \in PairKey => Q[page.climbing] = R[page.climbing]
  PROVE  Stands(page, Q, pk)
<1>1. Placed(page) /\ Fights(page, R) /\ Shows(page, R, pk)
  BY DEF Stands
<1>2. page.floor # 0 \/ page.screen = "ladder" => page.climbing \in PairKey
  BY <1>1 DEF Placed
<1>3. Fights(page, Q)
  BY <1>1, <1>2 DEF Fights
<1>4. page.shown # None => page.screen = "ladder"
  BY <1>1 DEF Shows
<1>5. Shows(page, Q, pk)
  BY <1>1, <1>2, <1>4 DEF Shows
<1> QED BY <1>1, <1>3, <1>5 DEF Stands

LEMMA OvertakenStands ==
  ASSUME NEW page, NEW R, NEW Q, NEW pk, NEW qk, Stands(page, R, pk)
  PROVE  Stands(Tower!Overtaken(page), Q, qk)
<1> DEFINE after == Tower!Overtaken(page)
<1>1. Placed(page)
  BY DEF Stands
<1>2. /\ after \in Tabs /\ after.shown = None /\ after.stale = TRUE /\ after.screen = page.screen
      /\ after.roster = page.roster /\ after.climbing = page.climbing /\ after.floor = page.floor
      /\ after.offer = page.offer /\ after.asked = page.asked /\ after.foe = page.foe
  BY <1>1 DEF Tower!Overtaken, Placed, Tabs
<1> HIDE DEF after
<1>3. Placed(after)
  BY <1>1, <1>2 DEF Placed
<1>4. Fights(after, Q) /\ Shows(after, Q, qk)
  BY <1>2 DEF Fights, Shows
<1> QED BY <1>3, <1>4 DEF Stands, after

LEMMA TurnKeeps ==
  ASSUME TabsInv, NEW t \in Tab, NEW page, Tower!Turn(t, page), picked' = picked, Stands(page, runs', picked)
  PROVE  TabsInv'
<1>1. \A u \in Tab : Stands(tab[u], runs, picked)
  BY DEF TabsInv
<1>2. tab' = [u \in Tab |->
              IF u = t THEN page
              ELSE IF \E p \in PairKey : tab[u].climbing = p /\ runs'[p] # runs[p]
              THEN Tower!Overtaken(tab[u]) ELSE tab[u]]
  BY DEF Tower!Turn
<1>3. ASSUME NEW u \in Tab PROVE Stands(tab'[u], runs', picked)
  <2>1. CASE u = t
    BY <1>2, <2>1
  <2>2. CASE u # t /\ \E p \in PairKey : tab[u].climbing = p /\ runs'[p] # runs[p]
    <3>1. tab'[u] = Tower!Overtaken(tab[u])
      BY <1>2, <2>2
    <3> QED BY <1>1, <3>1, OvertakenStands
  <2>3. CASE u # t /\ ~\E p \in PairKey : tab[u].climbing = p /\ runs'[p] # runs[p]
    <3>1. tab'[u] = tab[u]
      BY <1>2, <2>3
    <3>2. tab[u].climbing \in PairKey => runs'[tab[u].climbing] = runs[tab[u].climbing]
      BY <2>3
    <3>3. Stands(tab[u], runs', picked)
      BY <1>1, <3>2, Behaves
    <3> QED BY <3>1, <3>3
  <2> QED BY <2>1, <2>2, <2>3
<1>4. tab' \in [Tab -> Tabs]
  <2>1. \A u \in Tab : tab'[u] \in Tabs
    BY <1>3 DEF Stands, Placed
  <2>2. tab' = [u \in Tab |-> tab'[u]]
    BY <1>2
  <2> QED BY <2>1, <2>2
<1> QED BY <1>3, <1>4 DEF TabsInv

LEMMA PageKeeps ==
  ASSUME TabsInv, NEW t \in Tab, NEW page, tab' = [tab EXCEPT ![t] = page], UNCHANGED <<runs, picked>>,
         Stands(page, runs, picked)
  PROVE  TabsInv'
<1>1. tab \in [Tab -> Tabs] /\ page \in Tabs /\ \A u \in Tab : Stands(tab[u], runs, picked)
  BY DEF TabsInv, Stands, Placed
<1>2. tab' \in [Tab -> Tabs] /\ \A u \in Tab : tab'[u] = IF u = t THEN page ELSE tab[u]
  BY <1>1
<1>3. \A u \in Tab : Stands(tab'[u], runs', picked')
  BY <1>1, <1>2
<1> QED BY <1>2, <1>3 DEF TabsInv

LEMMA WriteKeeps ==
  ASSUME RunsInv, NEW p \in PairKey, NEW a, NEW h \in Fought, Tower!Write(p, a, h), picked' = picked,
         legacy' \in {legacy, None}, a # None => IsRun(a) /\ Honest(a, h)
  PROVE  RunsInv'
<1>1. runs' = [runs EXCEPT ![p] = a] /\ past' = [past EXCEPT ![p] = h]
  BY DEF Tower!Write
<1>2. a \in Run \union {None}
  BY DEF IsRun
<1>3. /\ runs' \in [PairKey -> Run \union {None}] /\ past' \in [PairKey -> Fought]
      /\ \A q \in PairKey : runs'[q] = (IF q = p THEN a ELSE runs[q]) /\ past'[q] = (IF q = p THEN h ELSE past[q])
  BY <1>1, <1>2 DEF RunsInv
<1>4. \A q \in PairKey : runs'[q] # None => IsRun(runs'[q]) /\ Honest(runs'[q], past'[q])
  BY <1>3 DEF RunsInv
<1>5. legacy' \in LegacyRun \union {None} /\ picked' \in Fighter \union {None}
  BY DEF RunsInv
<1> QED BY <1>3, <1>4, <1>5 DEF RunsInv

-----------------------------------------------------------------------------
(* The order of the floors.                                                    *)
LEMMA InTheSet ==
  ASSUME NEW S, NEW s \in Seq(S), NEW A, Tower!Ids(s) \subseteq A
  PROVE  s \in Seq(A)
<1>1. \A i \in 1..Len(s) : s[i] \in A
  BY DEF Tower!Ids
<1> QED BY <1>1

LEMMA IdsOfConcat ==
  ASSUME NEW S, NEW s \in Seq(S), NEW t \in Seq(S)
  PROVE  s \o t \in Seq(S) /\ Tower!Ids(s \o t) = Tower!Ids(s) \union Tower!Ids(t)
<1>1. /\ s \o t \in Seq(S) /\ Len(s \o t) = Len(s) + Len(t) /\ Len(s) \in Nat /\ Len(t) \in Nat
      /\ \A i \in 1..(Len(s) + Len(t)) : (s \o t)[i] = IF i <= Len(s) THEN s[i] ELSE t[i - Len(s)]
  OBVIOUS
<1>2. ASSUME NEW x \in Tower!Ids(s \o t) PROVE x \in Tower!Ids(s) \union Tower!Ids(t)
  <2>1. PICK i \in 1..(Len(s) + Len(t)) : x = (s \o t)[i]
    BY <1>1 DEF Tower!Ids
  <2>2. CASE i <= Len(s)
    <3>1. x = s[i] /\ i \in 1..Len(s)
      BY <1>1, <2>1, <2>2
    <3> QED BY <3>1 DEF Tower!Ids
  <2>3. CASE ~(i <= Len(s))
    <3>1. x = t[i - Len(s)] /\ i - Len(s) \in 1..Len(t)
      BY <1>1, <2>1, <2>3
    <3> QED BY <3>1 DEF Tower!Ids
  <2> QED BY <2>2, <2>3
<1>3. ASSUME NEW x \in Tower!Ids(s) PROVE x \in Tower!Ids(s \o t)
  <2>1. PICK i \in 1..Len(s) : x = s[i]
    BY DEF Tower!Ids
  <2>2. x = (s \o t)[i] /\ i \in 1..Len(s \o t)
    BY <1>1, <2>1
  <2> QED BY <2>2 DEF Tower!Ids
<1>4. ASSUME NEW x \in Tower!Ids(t) PROVE x \in Tower!Ids(s \o t)
  <2>1. PICK i \in 1..Len(t) : x = t[i]
    BY DEF Tower!Ids
  <2>2. i + Len(s) \in 1..(Len(s) + Len(t)) /\ ~(i + Len(s) <= Len(s)) /\ (i + Len(s)) - Len(s) = i
    BY <1>1
  <2>3. x = (s \o t)[i + Len(s)] /\ i + Len(s) \in 1..Len(s \o t)
    BY <1>1, <2>1, <2>2
  <2> QED BY <2>3 DEF Tower!Ids
<1> QED BY <1>1, <1>2, <1>3, <1>4

LEMMA IdsOfOne ==
  ASSUME NEW S, NEW e \in S
  PROVE  <<e>> \in Seq(S) /\ Tower!Ids(<<e>>) = {e} /\ Len(<<e>>) = 1
  BY DEF Tower!Ids

(* An order that has everybody of the roster, the player last and nowhere      *)
(* else, is as it is to be.                                                    *)
LEMMA Stays ==
  ASSUME NEW S, NEW r \in Seq(S), NEW me \in S, NEW P \in Seq(S), Tower!Ids(P) = Tower!Ids(r) \ {me}
  PROVE  Tower!RepairOrder(r, me, P \o <<me>>) = P \o <<me>>
<1> DEFINE A == Tower!Ids(r) \ {me}
           K == Tower!Kept(P \o <<me>>, A)
           M == Tower!Kept(r, Tower!Ids(r) \ (Tower!Ids(K) \union {me}))
<1>1. <<me>> \in Seq(S) /\ Tower!Ids(<<me>>) = {me}
  BY IdsOfOne
<1>2. Tower!Kept(P, A) = P
  <2>1. P \in Seq(A)
    BY InTheSet
  <2> QED BY <2>1, KeptAll
<1>3. Tower!Kept(<<me>>, A) = <<>>
  <2>1. Tower!Ids(<<me>>) \intersect A = {}
    BY <1>1
  <2> QED BY <1>1, <2>1, KeptNothing
<1>4. K = P
  <2>1. \A t \in Seq(S) : Tower!Kept(P \o t, A) = Tower!Kept(P, A) \o Tower!Kept(t, A)
    <3> HIDE DEF A
    <3>1. ASSUME NEW t \in Seq(S)
          PROVE  Tower!Kept(P \o t, A) = Tower!Kept(P, A) \o Tower!Kept(t, A)
      BY KeptConcat
    <3> QED BY <3>1
  <2>3. K = Tower!Kept(P, A) \o Tower!Kept(<<me>>, A)
    BY <1>1, <2>1
  <2>2. P \o <<>> = P
    OBVIOUS
  <2> QED BY <1>2, <1>3, <2>2, <2>3
<1>5. Tower!RepairOrder(r, me, P \o <<me>>) = K \o M \o <<me>>
  BY DEF Tower!RepairOrder
<1> HIDE DEF K
<1>6. M = <<>>
  <2>1. Tower!Ids(r) \intersect (Tower!Ids(r) \ (Tower!Ids(K) \union {me})) = {}
    BY <1>4
  <2> QED BY <2>1, KeptNothing
<1> HIDE DEF M
<1>7. P \o <<>> \o <<me>> = P \o <<me>>
  <2>1. P \o <<>> = P
    OBVIOUS
  <2> QED BY <2>1
<1> QED BY <1>4, <1>5, <1>6, <1>7

(* A repaired order has everybody of the roster, and is not repaired again.    *)
LEMMA Repaired ==
  ASSUME NEW S, NEW r \in Seq(S), NEW me \in Tower!Ids(r), NEW order \in Seq(S)
  PROVE  LET R == Tower!RepairOrder(r, me, order) IN
         R \in Seq(S) /\ R # <<>> /\ Tower!Ids(R) = Tower!Ids(r) /\ Tower!RepairOrder(r, me, R) = R
<1> DEFINE A == Tower!Ids(r) \ {me}
           K == Tower!Kept(order, A)
           M == Tower!Kept(r, Tower!Ids(r) \ (Tower!Ids(K) \union {me}))
           R == K \o M \o <<me>>
<1>1. Tower!RepairOrder(r, me, order) = R
  BY DEF Tower!RepairOrder
<1>2. me \in S
  BY DEF Tower!Ids
<1>3. K \in Seq(S) /\ Tower!Ids(K) \subseteq A
  BY KeptTyped
<1> HIDE DEF K
<1>4. M \in Seq(S) /\ Tower!Ids(M) = Tower!Ids(r) \intersect (Tower!Ids(r) \ (Tower!Ids(K) \union {me}))
  BY KeptTyped
<1> HIDE DEF M
<1> DEFINE P == K \o M
<1>5. P \in Seq(S) /\ Tower!Ids(P) = A
  <2>1. P \in Seq(S) /\ Tower!Ids(P) = Tower!Ids(K) \union Tower!Ids(M)
    BY <1>3, <1>4, IdsOfConcat
  <2> HIDE DEF P
  <2> QED BY <1>3, <1>4, <2>1
<1>6. R = P \o <<me>>
  OBVIOUS
<1> HIDE DEF P, R
<1>7. <<me>> \in Seq(S) /\ Tower!Ids(<<me>>) = {me} /\ Len(<<me>>) = 1
  BY <1>2, IdsOfOne
<1>8. R \in Seq(S) /\ Tower!Ids(R) = Tower!Ids(r)
  <2>1. R \in Seq(S) /\ Tower!Ids(R) = Tower!Ids(P) \union {me}
    <3>1. \A t \in Seq(S) : P \o t \in Seq(S) /\ Tower!Ids(P \o t) = Tower!Ids(P) \union Tower!Ids(t)
      BY <1>5, IdsOfConcat
    <3> QED BY <1>6, <1>7, <3>1
  <2> QED BY <1>5, <2>1
<1>9. R # <<>>
  <2>1. Tower!Ids(<<>>) = {}
    BY DEF Tower!Ids
  <2> QED BY <1>8, <2>1
<1>10. Tower!RepairOrder(r, me, R) = R
  <2>1. Tower!RepairOrder(r, me, P \o <<me>>) = P \o <<me>>
    BY <1>2, <1>5, Stays, Zenon DEF A
  <2> QED BY <1>6, <2>1
<1> HIDE DEF A
<1> QED BY <1>1, <1>8, <1>9, <1>10

(* An order that is drawn is one of those.                                     *)
LEMMA DrawnStays ==
  ASSUME NEW S, NEW r \in Seq(S), r # <<>>, \A i, j \in 1..Len(r) : r[i] = r[j] => i = j,
         NEW me, NEW order \in Tower!Draws(r, me)
  PROVE  /\ order \in Seq(S) /\ Len(order) = Len(r) /\ Tower!Ids(order) = Tower!Ids(r)
         /\ Tower!RepairOrder(r, me, order) = order
<1> DEFINE n == Len(r)
           T == Tower!Ids(r)
           P == SubSeq(order, 1, n - 1)
<1>1. /\ order \in [1..n -> T] /\ order[n] = me
      /\ T = {r[i] : i \in 1..n} /\ n \in Nat \ {0} /\ T \subseteq S
  BY DEF Tower!Draws, Tower!Ids
<1>2. order \in Seq(S) /\ Len(order) = n
  BY <1>1
<1>3. Tower!Ids(order) = T /\ T = {order[i] : i \in 1..n}
  BY <1>2 DEF Tower!Draws, Tower!Ids
<1> HIDE DEF n, T
<1>4. \A i, j \in 1..n : order[i] = order[j] => i = j
  <2>1. IsFiniteSet(1..n) /\ Cardinality(1..n) = n
    BY <1>1, FS_Interval
  <2>2. r \in Injection(1..n, T) /\ r \in Surjection(1..n, T)
    BY <1>1 DEF Injection, Surjection, IsInjective, n
  <2>3. IsFiniteSet(T) /\ Cardinality(T) = Cardinality(1..n)
    BY <2>1, <2>2, FS_Surjection
  <2>4. order \in Surjection(1..n, T)
    BY <1>1, <1>3 DEF Surjection
  <2>5. order \in Injection(1..n, T)
    BY <2>1, <2>3, <2>4, FS_Surjection
  <2> QED BY <2>5 DEF Injection, IsInjective
<1>5. P \in Seq(S) /\ Len(P) = n - 1 /\ (\A i \in 1..(n - 1) : P[i] = order[i]) /\ me \in S
  <2>1. n - 1 \in 0..Len(order) /\ n \in Nat
    BY <1>1, <1>2
  <2>2. \A k \in 0..Len(order) :
          /\ SubSeq(order, 1, k) \in Seq(S) /\ Len(SubSeq(order, 1, k)) = k
          /\ \A i \in 1..k : SubSeq(order, 1, k)[i] = order[i]
    BY <1>2, FirstOnes
  <2>3. me \in S
    BY <1>1, <1>2
  <2> QED BY <2>1, <2>2, <2>3
<1>6. order = P \o <<me>>
  <2> DEFINE q == P \o <<me>>
  <2> HIDE DEF P
  <2>1. q \in Seq(S) /\ Len(q) = Len(P) + 1
        /\ \A i \in 1..(Len(P) + 1) : q[i] = IF i <= Len(P) THEN P[i] ELSE me
    BY <1>5, PutLast
  <2> HIDE DEF q
  <2>2. Len(q) = Len(order)
    BY <1>1, <1>2, <1>5, <2>1
  <2>3. ASSUME NEW i \in 1..Len(q) PROVE q[i] = order[i]
    <3>1. Len(P) = n - 1 /\ Len(q) = n /\ n \in Nat /\ i \in 1..n
      BY <1>1, <1>5, <2>1
    <3>2. CASE i = n
      BY <1>1, <2>1, <3>1, <3>2
    <3>3. CASE i # n
      BY <1>5, <2>1, <3>1, <3>3
    <3> QED BY <3>2, <3>3
  <2>a. q \in Seq(S) /\ order \in Seq(S)
    BY <1>2, <2>1
  <2>4. q = order
    BY <2>a, <2>2, <2>3, SeqEqual, Zenon
  <2> QED BY <2>4 DEF q
<1> HIDE DEF P
<1>7. Tower!Ids(P) = T \ {me}
  <2>1. Tower!Ids(P) = {order[i] : i \in 1..(n - 1)}
    BY <1>5 DEF Tower!Ids
  <2>2. \A i \in 1..(n - 1) : i \in 1..n /\ i # n
    BY <1>1
  <2>3. n \in 1..n /\ \A i \in 1..n : i \in 1..(n - 1) \/ i = n
    BY <1>1
  <2>4. \A i \in 1..(n - 1) : order[i] # me
    BY <1>1, <1>4, <2>2, <2>3
  <2>5. ASSUME NEW x \in T, x # me PROVE x \in Tower!Ids(P)
    <3>1. PICK i \in 1..n : x = order[i]
      BY <1>3
    <3>2. i \in 1..(n - 1)
      BY <1>1, <2>3, <2>5, <3>1
    <3> QED BY <2>1, <3>1, <3>2
  <2>6. ASSUME NEW x \in Tower!Ids(P) PROVE x \in T /\ x # me
    BY <1>3, <2>1, <2>2, <2>4
  <2> QED BY <2>5, <2>6
<1>8. Tower!RepairOrder(r, me, P \o <<me>>) = P \o <<me>>
  <2>1. P \in Seq(S) /\ me \in S /\ Tower!Ids(P) = Tower!Ids(r) \ {me}
    BY <1>5, <1>7 DEF T
  <2> HIDE DEF P
  <2>2. \A Q \in Seq(S) : Tower!Ids(Q) = Tower!Ids(r) \ {me} => Tower!RepairOrder(r, me, Q \o <<me>>) = Q \o <<me>>
    BY <2>1, Stays, Zenon
  <2> QED BY <2>1, <2>2, Zenon
<1> QED BY <1>2, <1>3, <1>6, <1>8 DEF n, T

-----------------------------------------------------------------------------
(* The run a tab reads. Retries are banked by whole numbers of floors.         *)
LEMMA Banked ==
  ASSUME NEW n \in Nat
  PROVE  n \div RetryFloors \in Nat /\ n \div RetryFloors <= (n + 1) \div RetryFloors /\ 0 \div RetryFloors = 0
<1>1. RetryFloors \in Nat /\ RetryFloors > 0
  BY LadderAssumption
<1>2. n \div RetryFloors \in Nat
  BY <1>1
<1>3. n \div RetryFloors <= (n + 1) \div RetryFloors
  BY <1>1
<1>4. 0 \div RetryFloors = 0
  BY <1>1
<1> QED BY <1>2, <1>3, <1>4

LEMMA OnARoster ==
  ASSUME NEW t \in Tab, tab[t].roster \in Roster, picked \in Fighter \union {None}
  PROVE  /\ tab[t].roster \in Seq(Fighter) /\ tab[t].roster # <<>>
         /\ \A i, j \in 1..Len(tab[t].roster) : tab[t].roster[i] = tab[t].roster[j] => i = j
         /\ Tower!Me(t) \in Tower!Ids(tab[t].roster) /\ Tower!Me(t) = Own(tab[t], picked)
<1> DEFINE r == tab[t].roster
<1>1. /\ r \in Seq(Fighter) /\ r # <<>>
      /\ \A i, j \in 1..Len(r) : r[i] = r[j] => i = j
  BY LadderAssumption
<1>2. Tower!Me(t) = (IF picked \in Tower!Ids(r) THEN picked ELSE r[1]) /\ Tower!Me(t) = Own(tab[t], picked)
  BY DEF Tower!Me, Own
<1> HIDE DEF r
<1>3. 1 \in 1..Len(r)
  BY <1>1
<1>4. r[1] \in Tower!Ids(r)
  BY <1>3 DEF Tower!Ids
<1>5. Tower!Me(t) \in Tower!Ids(r)
  BY <1>2, <1>4
<1> QED BY <1>1, <1>2, <1>5 DEF r

(* A run that is new owes nothing, has beaten nobody and needs no repair.      *)
LEMMA NewRunIs ==
  ASSUME NEW t \in Tab, tab[t].roster \in Roster, picked \in Fighter \union {None},
         NEW order \in Tower!Draws(tab[t].roster, Tower!Me(t))
  PROVE  LET a == Tower!NewRun(order) IN
         /\ IsRun(a) /\ Settled(tab[t], picked, a) /\ Honest(a, Tower!NewPast) /\ Tower!NewPast \in Fought
         /\ ~a.lost /\ ~a.cleared
<1> DEFINE a == Tower!NewRun(order)
           r == tab[t].roster
<1>1. /\ r \in Seq(Fighter) /\ r # <<>> /\ (\A i, j \in 1..Len(r) : r[i] = r[j] => i = j)
      /\ Tower!Me(t) \in Tower!Ids(r) /\ Tower!Me(t) = Own(tab[t], picked)
  BY OnARoster
<1>2. /\ order \in Seq(Fighter) /\ Len(order) = Len(r) /\ Tower!Ids(order) = Tower!Ids(r)
      /\ Tower!RepairOrder(r, Tower!Me(t), order) = order
  BY <1>1, DrawnStays
<1>3. /\ a.order = order /\ a.floor = 1 /\ a.cleared = FALSE /\ a.won = 0 /\ a.spent = 0 /\ a.lost = FALSE
      /\ a \in Run
  BY <1>2 DEF Tower!NewRun, Run
<1> HIDE DEF a
<1>4. IsRun(a)
  <2>1. 1 \in 1..Len(order)
    BY <1>1, <1>2
  <2>2. Owing(a) = 0
    BY <1>3 DEF Owing, Due
  <2> QED BY <1>3, <2>1, <2>2, Banked DEF IsRun
<1>5. Settled(tab[t], picked, a)
  BY <1>1, <1>2, <1>3 DEF Settled, Known
<1>6. Tower!NewPast \in Fought
  BY DEF Tower!NewPast, Fought
<1>7. Honest(a, Tower!NewPast)
  <2>1. Tower!Below(a) = {}
    BY <1>3 DEF Tower!Below
  <2>2. Owing(a) = 0
    BY <1>3 DEF Owing, Due
  <2> QED BY <2>1, <2>2 DEF Honest, Tower!NewPast
<1> QED BY <1>3, <1>4, <1>5, <1>6, <1>7 DEF a

(* What is read of a stored run is that run, but for its repair.               *)
LEMMA ReadingIs ==
  ASSUME RunsInv, NEW t \in Tab, tab[t].roster \in Roster, NEW p \in PairKey, NEW a \in Tower!Readings(t, p)
  PROVE  LET h == Tower!PastRead(t, p, a) IN
         /\ IsRun(a) /\ Settled(tab[t], picked, a) /\ Honest(a, h) /\ h \in Fought
         /\ runs[p] # None /\ Known(tab[t], runs[p]) =>
               /\ a.cleared = runs[p].cleared /\ a.lost = runs[p].lost
               /\ a.order = runs[p].order => a = runs[p]
               /\ ~h.mixed => a.order = runs[p].order
               /\ a.order = Tower!RepairOrder(tab[t].roster, Own(tab[t], picked), runs[p].order)
<1> DEFINE h == Tower!PastRead(t, p, a)
           r == tab[t].roster
           me == Tower!Me(t)
<1>0. picked \in Fighter \union {None} /\ runs[p] \in Run \union {None} /\ past[p] \in Fought
      /\ (runs[p] # None => IsRun(runs[p]) /\ Honest(runs[p], past[p]))
  BY DEF RunsInv
<1>1. r \in Seq(Fighter) /\ r # <<>> /\ me \in Tower!Ids(r) /\ me = Own(tab[t], picked)
  BY <1>0, OnARoster
<1>2. Tower!Usable(t, p) <=> runs[p] # None /\ Known(tab[t], runs[p])
  BY DEF Tower!Usable, Known
<1>3. CASE ~Tower!Usable(t, p)
  <2>1. PICK order \in Tower!Draws(r, me) : a = Tower!NewRun(order)
    BY <1>3 DEF Tower!Readings
  <2>2. h = Tower!NewPast
    BY <1>3 DEF Tower!PastRead
  <2> HIDE DEF h, me
  <2> QED BY <1>0, <1>2, <1>3, <2>1, <2>2, NewRunIs DEF h, me
<1>4. CASE Tower!Usable(t, p)
  <2> DEFINE b == runs[p]
             o == Tower!RepairOrder(r, me, b.order)
             f == IF b.floor > Len(o) THEN Len(o) ELSE b.floor
  <2>1. b \in Run /\ IsRun(b) /\ Honest(b, past[p])
    BY <1>0, <1>4, LadderAssumption DEF Tower!Usable
  <2>2. o \in Seq(Fighter) /\ o # <<>> /\ Tower!Ids(o) = Tower!Ids(r) /\ Tower!RepairOrder(r, me, o) = o
    <3>1. b.order \in Seq(Fighter)
      BY <2>1 DEF Run
    <3> HIDE DEF r, me, b
    <3> QED BY <1>1, <3>1, Repaired
  <2>3. a = [b EXCEPT !.order = o, !.floor = f]
    BY <1>4 DEF Tower!Readings
  <2>4. h = [past[p] EXCEPT !.mixed = @ \/ a.order # b.order]
    BY <1>4 DEF Tower!PastRead
  <2> HIDE DEF h, me, b, o, f, r
  <2>5. f \in 1..Len(o) /\ f \in Nat /\ (b.cleared => f = 1)
        /\ (o = b.order => f = b.floor)
    <3>1. Len(o) \in Nat \ {0}
      BY <2>2
    <3>2. b.floor \in Nat /\ b.floor \in 1..Len(b.order) /\ (b.cleared => b.floor = 1)
      BY <2>1 DEF IsRun, Run
    <3> QED BY <3>1, <3>2 DEF f
  <2>6. /\ a \in Run /\ a.order = o /\ a.floor = f /\ a.cleared = b.cleared /\ a.won = b.won
        /\ a.spent = b.spent /\ a.lost = b.lost
    BY <2>1, <2>2, <2>3, <2>5 DEF Run
  <2>7. IsRun(a)
    <3>1. Owing(a) = Owing(b)
      BY <2>6 DEF Owing, Due
    <3> QED BY <2>1, <2>5, <2>6, <3>1 DEF IsRun
  <2>8. o = b.order => a = b
    BY <2>1, <2>3, <2>5 DEF Run
  <2>9. h \in Fought /\ (~h.mixed => ~past[p].mixed /\ a.order = b.order)
        /\ h.losses = past[p].losses /\ h.beaten = past[p].beaten
    BY <1>0, <2>4 DEF Fought
  <2>10. Honest(a, h)
    BY <2>1, <2>6, <2>8, <2>9 DEF Honest
  <2>11. Settled(tab[t], picked, a)
    <3>1. Tower!Ids(a.order) \intersect Tower!Ids(r) # {}
      BY <1>1, <2>2, <2>6
    <3> QED BY <1>1, <2>2, <2>6, <3>1 DEF Settled, Known, r
  <2> QED BY <1>1, <2>6, <2>7, <2>8, <2>9, <2>10, <2>11 DEF h, b, o, r
<1> QED BY <1>3, <1>4

-----------------------------------------------------------------------------
(* The steps of the ladder.                                                    *)
LEMMA NewPageStands ==
  ASSUME NEW r \in Roster, NEW R, NEW pk
  PROVE  Stands(Tower!NewPage(r), R, pk)
<1> DEFINE page == Tower!NewPage(r)
<1>1. /\ page.screen = "lobby" /\ page.roster = r /\ page.climbing = None /\ page.floor = 0
      /\ page.offer = None /\ page.shown = None /\ page.asked = FALSE /\ page \in Tabs
  BY DEF Tower!NewPage, Tabs
<1> HIDE DEF page
<1>2. Placed(page) /\ Fights(page, R) /\ Shows(page, R, pk)
  BY <1>1 DEF Placed, Fights, Shows
<1> QED BY <1>2 DEF Stands, page

LEMMA Written ==
  ASSUME RunsInv, NEW p \in PairKey, NEW a, NEW h, Tower!Write(p, a, h)
  PROVE  runs'[p] = a
  BY DEF Tower!Write, RunsInv

LEMMA LoadKeeps ==
  ASSUME LadderInv, NEW t \in Tab, Tower!Load(t)
  PROVE  LadderInv'
<1>1. PICK r \in Roster, p \in PairKey :
        LET adopt == legacy # None /\ runs[p] = None IN
        /\ legacy' = None
        /\ Tower!Write(p, IF adopt THEN legacy ELSE runs[p],
                 IF adopt THEN [Tower!NewPast EXCEPT !.beaten = Tower!Below(legacy)] ELSE past[p])
        /\ Tower!Turn(t, Tower!NewPage(r))
        /\ UNCHANGED picked
  BY DEF Tower!Load
<1>2. RunsInv /\ TabsInv
  BY DEF LadderInv
<1>3. TabsInv'
  BY <1>1, <1>2, NewPageStands, TurnKeeps
<1>4. CASE legacy # None /\ runs[p] = None
  <2> DEFINE h == [Tower!NewPast EXCEPT !.beaten = Tower!Below(legacy)]
  <2>1. Tower!Write(p, legacy, h)
    BY <1>1, <1>4
  <2>2. /\ legacy \in Run /\ legacy.won = 0 /\ legacy.spent = 0 /\ ~legacy.lost
        /\ legacy.floor \in 1..Len(legacy.order) /\ (legacy.cleared => legacy.floor = 1)
    <3>1. legacy \in LegacyRun
      BY <1>2, <1>4 DEF RunsInv
    <3> QED BY <3>1, LadderAssumption DEF Run
  <2>3. Owing(legacy) = 0 /\ legacy.order \in Seq(Fighter) /\ legacy.cleared \in BOOLEAN
    BY <2>2 DEF Run, Owing, Due
  <2>4. IsRun(legacy)
    BY <2>2, <2>3, Banked DEF IsRun
  <2>5. Tower!Below(legacy) \subseteq Fighter
    <3>1. \A i \in 1..Len(legacy.order) : legacy.order[i] \in Fighter
      BY <2>3
    <3>2. \A i \in 1..(legacy.floor - 1) : i \in 1..Len(legacy.order)
      BY <2>2
    <3> QED BY <3>1, <3>2 DEF Tower!Below, Tower!Ids
  <2>6. h \in Fought /\ h.losses = 0 /\ h.beaten = Tower!Below(legacy)
    BY <2>5 DEF Fought, Tower!NewPast
  <2> HIDE DEF h
  <2>7. Honest(legacy, h)
    BY <2>3, <2>6 DEF Honest
  <2>8. RunsInv'
    BY <1>1, <1>2, <2>1, <2>4, <2>6, <2>7, WriteKeeps
  <2> QED BY <1>3, <2>8 DEF LadderInv
<1>5. CASE ~(legacy # None /\ runs[p] = None)
  <2>1. Tower!Write(p, runs[p], past[p])
    BY <1>1, <1>5
  <2>2. past[p] \in Fought /\ (runs[p] # None => IsRun(runs[p]) /\ Honest(runs[p], past[p]))
    BY <1>2 DEF RunsInv
  <2>3. RunsInv'
    BY <1>1, <1>2, <2>1, <2>2, WriteKeeps
  <2> QED BY <1>3, <2>3 DEF LadderInv
<1> QED BY <1>4, <1>5

LEMMA SelectKeeps ==
  ASSUME LadderInv, NEW t \in Tab, NEW f, Tower!SelectFighter(t, f)
  PROVE  LadderInv'
<1>1. RunsInv /\ TabsInv /\ UNCHANGED <<runs, legacy, past>> /\ picked' = f
  BY DEF LadderInv, Tower!SelectFighter
<1>2. \A u \in Tab : Stands(tab[u], runs, picked)
  BY <1>1 DEF TabsInv
<1>3. f \in Fighter
  <2>1. tab[t].roster \in Roster /\ f \in Tower!Ids(tab[t].roster)
    BY <1>2 DEF Tower!SelectFighter, Stands, Placed
  <2>2. tab[t].roster \in Seq(Fighter)
    BY <2>1, LadderAssumption
  <2> QED BY <2>1, <2>2 DEF Tower!Ids
<1>4. RunsInv'
  BY <1>1, <1>3 DEF RunsInv
<1>5. tab' = [u \in Tab |-> IF u = t THEN tab[u] ELSE Tower!Overtaken(tab[u])]
  BY DEF Tower!SelectFighter
<1>6. ASSUME NEW u \in Tab PROVE Stands(tab'[u], runs', picked')
  <2>1. CASE u = t
    <3>1. tab[t].screen = "lobby" /\ tab'[u] = tab[t]
      BY <1>5, <2>1 DEF Tower!SelectFighter
    <3>2. Placed(tab[t]) /\ Fights(tab[t], runs) /\ tab[t].shown = None
      BY <1>2, <3>1 DEF Stands, Shows
    <3>3. Shows(tab[t], runs', picked')
      BY <3>2 DEF Shows
    <3> QED BY <1>1, <3>1, <3>2, <3>3 DEF Stands
  <2>2. CASE u # t
    <3>1. tab'[u] = Tower!Overtaken(tab[u])
      BY <1>5, <2>2
    <3> QED BY <1>2, <3>1, OvertakenStands
  <2> QED BY <2>1, <2>2
<1>7. tab' \in [Tab -> Tabs]
  <2>1. \A u \in Tab : tab'[u] \in Tabs
    BY <1>6 DEF Stands, Placed
  <2>2. tab' = [u \in Tab |-> tab'[u]]
    BY <1>5
  <2> QED BY <2>1, <2>2
<1> QED BY <1>4, <1>6, <1>7 DEF LadderInv, TabsInv

LEMMA Climbs == Tower!To("lobby", "climb") = "ladder" /\ Tower!To("result", "climb") = "ladder"
<1>1. \A s \in {"lobby", "result"} : \A e \in Tower!Edge(s) : e[1] = "climb" => e[2] = "ladder"
  BY DEF Tower!Edge, Tower!SnapshotEdge, Tower!LobbyEdge, Tower!ResultEdge
<1>2. \A s \in {"lobby", "result"} : \E e \in Tower!Edge(s) : e[1] = "climb"
  <2>1. \A s \in {"lobby", "result"} : <<"climb", "ladder">> \in Tower!Edge(s)
    BY DEF Tower!Edge, Tower!LobbyEdge, Tower!ResultEdge
  <2>2. <<"climb", "ladder">>[1] = "climb"
    OBVIOUS
  <2> QED BY <2>1, <2>2
<1> QED BY <1>1, <1>2 DEF Tower!To

LEMMA TowerKeeps ==
  ASSUME LadderInv, NEW t \in Tab, NEW p \in PairKey, Tower!Tower(t, p, tab[t]),
         tab[t].screen = "lobby" \/ tab[t].screen = "result"
  PROVE  LadderInv'
<1> DEFINE After(a) == [tab[t] EXCEPT !.screen = Tower!To(@, "climb"), !.climbing = p, !.stale = FALSE,
                                      !.shown = IF a.cleared THEN None ELSE a.order[a.floor]]
<1>1. PICK a \in Tower!Readings(t, p) :
        /\ Tower!SaveShown(t, p, a) /\ Tower!Turn(t, After(a)) /\ UNCHANGED <<legacy, picked>>
  BY DEF Tower!Tower
<1>2. RunsInv /\ TabsInv /\ Placed(tab[t]) /\ tab[t] \in Tabs /\ tab[t].roster \in Roster
  BY DEF LadderInv, TabsInv, Stands, Placed
<1>3. Tower!Write(p, a, Tower!PastRead(t, p, a))
  BY <1>1 DEF Tower!SaveShown
<1>4. /\ IsRun(a) /\ Settled(tab[t], picked, a) /\ Honest(a, Tower!PastRead(t, p, a))
      /\ Tower!PastRead(t, p, a) \in Fought
  BY <1>2, ReadingIs
<1>5. RunsInv'
  BY <1>1, <1>2, <1>3, <1>4, WriteKeeps
<1>6. runs'[p] = a
  BY <1>2, <1>3, Written
<1>7. a # None /\ (~a.cleared => a.order[a.floor] \in Fighter)
  BY <1>4, LadderAssumption DEF IsRun, Run
<1> DEFINE page == After(a)
<1>8. /\ page \in Tabs /\ page.screen = "ladder" /\ page.climbing = p /\ page.stale = FALSE
      /\ page.shown = (IF a.cleared THEN None ELSE a.order[a.floor]) /\ page.roster = tab[t].roster
      /\ page.floor = tab[t].floor /\ page.offer = tab[t].offer /\ page.asked = tab[t].asked
  <2>1. Tower!To(tab[t].screen, "climb") = "ladder"
    BY Climbs
  <2> QED BY <1>2, <1>7, <2>1 DEF Tabs
<1> HIDE DEF page
<1>9. Placed(page)
  BY <1>2, <1>8 DEF Placed
<1>10. Fights(page, runs')
  BY <1>2, <1>8 DEF Placed, Fights
<1>11. Shows(page, runs', picked)
  <2>1. Settled(page, picked, a)
    BY <1>4, <1>8 DEF Settled, Own, Known
  <2> QED BY <1>6, <1>7, <1>8, <2>1 DEF Shows
<1>12. TabsInv'
  <2>1. Stands(page, runs', picked)
    BY <1>9, <1>10, <1>11 DEF Stands
  <2>2. Tower!Turn(t, page) /\ picked' = picked
    BY <1>1 DEF page
  <2> QED BY <1>2, <2>1, <2>2, TurnKeeps
<1> QED BY <1>5, <1>12 DEF LadderInv

(* A lost floor that is fought again is paid for, and the books balance.       *)
LEMMA SpentIs ==
  ASSUME NEW a, IsRun(a)
  PROVE  LET b == Tower!Spent(a) IN
         IsRun(b) /\ b.order = a.order /\ b.floor = a.floor /\ b.cleared = a.cleared /\ ~b.lost /\ Owing(b) = Owing(a)
<1> DEFINE b == Tower!Spent(a)
           W == a.won \div RetryFloors
<1>1. /\ a \in Run /\ a.spent \in Nat /\ a.won \in Nat /\ a.lost \in BOOLEAN
      /\ a.floor \in 1..Len(a.order) /\ (a.cleared => a.floor = 1) /\ Owing(a) <= W
  BY DEF IsRun, Run
<1>2. W \in Nat
  BY <1>1, Banked
<1> HIDE DEF W
<1>3. CASE a.lost
  <2>1. Owing(a) = a.spent + 1
    BY <1>3 DEF Owing, Due
  <2>2. Tower!Bank(a) > 0
    BY <1>1, <1>2, <2>1 DEF Tower!Bank, W
  <2>3. b = [a EXCEPT !.spent = @ + 1, !.lost = FALSE]
    BY <1>3, <2>2 DEF Tower!Spent
  <2> HIDE DEF b
  <2>4. /\ b \in Run /\ b.order = a.order /\ b.floor = a.floor /\ b.cleared = a.cleared /\ b.won = a.won
        /\ b.spent = a.spent + 1 /\ b.lost = FALSE
    <3> DEFINE n == a.spent + 1
    <3>1. n \in Nat /\ a \in Run /\ b = [a EXCEPT !.spent = n, !.lost = FALSE]
      BY <1>1, <2>3 DEF Run
    <3> HIDE DEF n
    <3>2. b \in Run
      BY <3>1 DEF Run
    <3>3. b.order = a.order /\ b.floor = a.floor /\ b.cleared = a.cleared /\ b.won = a.won /\ b.spent = n /\ b.lost = FALSE
      BY <3>1 DEF Run
    <3> QED BY <3>2, <3>3 DEF n
  <2>5. Owing(b) = a.spent + 1
    BY <1>1, <2>4 DEF Owing, Due
  <2> QED BY <1>1, <2>1, <2>4, <2>5 DEF IsRun, b, W
<1>4. CASE ~a.lost
  <2>1. b = a
    BY <1>4 DEF Tower!Spent
  <2> QED BY <1>4, <2>1
<1> QED BY <1>3, <1>4

(* What the button of the tower does: a run is written that owes nothing new,  *)
(* and the fighter it has on its floor is the one the tower showed.            *)
LEMMA FightIs ==
  ASSUME LadderInv, NEW t \in Tab, Tower!Fight(t)
  PROVE  /\ tab[t].climbing \in PairKey /\ tab[t].screen = "ladder" /\ UNCHANGED <<legacy, picked>>
         /\ \E b, h :
              /\ IsRun(b) /\ Settled(tab[t], picked, b) /\ Honest(b, h) /\ h \in Fought /\ ~b.lost /\ ~b.cleared
              /\ Tower!Write(tab[t].climbing, b, h)
              /\ Tower!Turn(t, [tab[t] EXCEPT !.floor = b.floor, !.foe = b.order[b.floor],
                                              !.asked = TRUE, !.stale = FALSE])
              /\ tab[t].shown # None => tab[t].shown = b.order[b.floor]
<1> DEFINE p == tab[t].climbing
           H(a) == IF a.cleared THEN Tower!NewPast ELSE Tower!PastRead(t, p, a)
           After(b) == [tab[t] EXCEPT !.floor = b.floor, !.foe = b.order[b.floor],
                                      !.asked = TRUE, !.stale = FALSE]
<1>1. /\ tab[t].screen = "ladder" /\ UNCHANGED <<legacy, picked>>
      /\ \E a \in Tower!Readings(t, p) :
           \E b \in IF a.cleared THEN {Tower!NewRun(o) : o \in Tower!Draws(tab[t].roster, Tower!Me(t))}
                    ELSE {Tower!Spent(a)} :
              Tower!Write(p, b, H(a)) /\ Tower!Turn(t, After(b))
  BY DEF Tower!Fight
<1>2. RunsInv /\ TabsInv /\ Placed(tab[t]) /\ Shows(tab[t], runs, picked)
  BY DEF LadderInv, TabsInv, Stands
<1>3. p \in PairKey /\ tab[t].roster \in Roster /\ picked \in Fighter \union {None}
  BY <1>1, <1>2 DEF Placed, RunsInv
<1>4. PICK a \in Tower!Readings(t, p) :
        \E b \in IF a.cleared THEN {Tower!NewRun(o) : o \in Tower!Draws(tab[t].roster, Tower!Me(t))}
                 ELSE {Tower!Spent(a)} :
           Tower!Write(p, b, H(a)) /\ Tower!Turn(t, After(b))
  BY <1>1
<1>5. PICK b \in IF a.cleared THEN {Tower!NewRun(o) : o \in Tower!Draws(tab[t].roster, Tower!Me(t))}
                 ELSE {Tower!Spent(a)} :
        Tower!Write(p, b, H(a)) /\ Tower!Turn(t, After(b))
  BY <1>4
<1> HIDE DEF H, After, p
<1>6. LET h == Tower!PastRead(t, p, a) IN
      /\ IsRun(a) /\ Settled(tab[t], picked, a) /\ Honest(a, h) /\ h \in Fought
      /\ runs[p] # None /\ Known(tab[t], runs[p]) =>
            /\ a.cleared = runs[p].cleared /\ (a.order = runs[p].order => a = runs[p])
            /\ a.order = Tower!RepairOrder(tab[t].roster, Own(tab[t], picked), runs[p].order)
  BY <1>2, <1>3, ReadingIs
<1>7. tab[t].shown # None => /\ runs[p] # None /\ a = runs[p] /\ ~a.cleared
                             /\ tab[t].shown = a.order[a.floor]
  BY <1>2, <1>6 DEF Shows, Settled, p
<1>8. /\ IsRun(b) /\ Settled(tab[t], picked, b) /\ Honest(b, H(a)) /\ H(a) \in Fought /\ ~b.lost /\ ~b.cleared
      /\ (tab[t].shown # None => tab[t].shown = b.order[b.floor])
  <2>1. CASE a.cleared
    <3>1. PICK order \in Tower!Draws(tab[t].roster, Tower!Me(t)) : b = Tower!NewRun(order)
      BY <1>5, <2>1
    <3>2. H(a) = Tower!NewPast
      BY <2>1 DEF H
    <3> QED BY <1>3, <1>7, <2>1, <3>1, <3>2, NewRunIs
  <2>2. CASE ~a.cleared
    <3>1. b = Tower!Spent(a) /\ H(a) = Tower!PastRead(t, p, a)
      BY <1>5, <2>2 DEF H
    <3>2. IsRun(b) /\ b.order = a.order /\ b.floor = a.floor /\ b.cleared = a.cleared /\ ~b.lost /\ Owing(b) = Owing(a)
      BY <1>6, <3>1, SpentIs
    <3>3. Settled(tab[t], picked, b)
      BY <1>6, <3>2 DEF Settled, Known
    <3>4. Honest(b, H(a))
      BY <1>6, <3>1, <3>2 DEF Honest, Tower!Below
    <3> QED BY <1>6, <1>7, <2>2, <3>1, <3>2, <3>3, <3>4
  <2> QED BY <2>1, <2>2
<1> QED BY <1>1, <1>3, <1>5, <1>8 DEF After, p

LEMMA FightKeeps ==
  ASSUME LadderInv, NEW t \in Tab, Tower!Fight(t)
  PROVE  LadderInv'
<1> DEFINE p == tab[t].climbing
           After(b) == [tab[t] EXCEPT !.floor = b.floor, !.foe = b.order[b.floor],
                                      !.asked = TRUE, !.stale = FALSE]
<1>1. p \in PairKey /\ tab[t].screen = "ladder" /\ UNCHANGED <<legacy, picked>>
  BY FightIs
<1>2. PICK b, h :
        /\ IsRun(b) /\ Settled(tab[t], picked, b) /\ Honest(b, h) /\ h \in Fought /\ ~b.lost /\ ~b.cleared
        /\ Tower!Write(p, b, h) /\ Tower!Turn(t, After(b))
        /\ tab[t].shown # None => tab[t].shown = b.order[b.floor]
  BY FightIs
<1> DEFINE page == After(b)
<1>3. RunsInv /\ TabsInv /\ Placed(tab[t]) /\ tab[t] \in Tabs
  BY DEF LadderInv, TabsInv, Stands, Placed
<1>4. runs'[p] = b /\ RunsInv'
  BY <1>1, <1>2, <1>3, Written, WriteKeeps
<1>5. /\ b.floor \in Nat \ {0} /\ b.order[b.floor] \in Fighter /\ b # None
  BY <1>2, LadderAssumption DEF IsRun, Run
<1>6. /\ page \in Tabs /\ page.screen = "ladder" /\ page.climbing = p /\ page.stale = FALSE /\ page.asked = TRUE
      /\ page.foe = b.order[b.floor] /\ page.shown = tab[t].shown /\ page.roster = tab[t].roster
      /\ page.floor = b.floor /\ page.offer = tab[t].offer
  BY <1>1, <1>3, <1>5 DEF Tabs
<1> HIDE DEF page
<1>7. Placed(page)
  BY <1>1, <1>3, <1>5, <1>6 DEF Placed
<1>8. Settled(page, picked, b)
  BY <1>2, <1>6 DEF Settled, Own, Known
<1>9. Fights(page, runs')
  BY <1>2, <1>4, <1>5, <1>6, <1>8 DEF Fights, Settled
<1>10. Shows(page, runs', picked)
  BY <1>2, <1>4, <1>5, <1>6, <1>8 DEF Shows
<1>11. TabsInv'
  <2>1. Stands(page, runs', picked)
    BY <1>7, <1>9, <1>10 DEF Stands
  <2>2. Tower!Turn(t, page) /\ picked' = picked
    BY <1>1, <1>2 DEF page
  <2> QED BY <1>3, <2>1, <2>2, TurnKeeps
<1> QED BY <1>4, <1>11 DEF LadderInv

LEMMA RefusedKeeps ==
  ASSUME LadderInv, NEW t \in Tab, Tower!Refused(t)
  PROVE  LadderInv'
<1> DEFINE page == [tab[t] EXCEPT !.asked = FALSE]
<1>1. RunsInv /\ TabsInv /\ Stands(tab[t], runs, picked) /\ tab[t] \in Tabs /\ tab \in [Tab -> Tabs]
  BY DEF LadderInv, TabsInv, Stands, Placed
<1>2. tab[t].asked /\ tab' = [tab EXCEPT ![t] = page] /\ UNCHANGED <<runs, legacy, picked, past>>
  BY DEF Tower!Refused, Tower!storage
<1>3. /\ page \in Tabs /\ page.screen = tab[t].screen /\ page.climbing = tab[t].climbing /\ page.asked = FALSE
      /\ page.foe = tab[t].foe /\ page.shown = tab[t].shown /\ page.roster = tab[t].roster
      /\ page.floor = tab[t].floor /\ page.offer = tab[t].offer
  BY <1>1 DEF Tabs
<1> HIDE DEF page
<1>4. Placed(page)
  BY <1>1, <1>3 DEF Stands, Placed
<1>5. Fights(page, runs)
  BY <1>1, <1>2, <1>3 DEF Stands, Placed, Fights
<1>6. Shows(page, runs, picked)
  <2>1. \A a : Settled(page, picked, a) <=> Settled(tab[t], picked, a)
    BY <1>3 DEF Settled, Own, Known
  <2> QED BY <1>1, <1>3, <2>1 DEF Stands, Shows
<1>7. TabsInv'
  BY <1>1, <1>2, <1>4, <1>5, <1>6, PageKeeps DEF Stands
<1>8. RunsInv'
  BY <1>1, <1>2 DEF RunsInv
<1> QED BY <1>7, <1>8 DEF LadderInv

LEMMA Announces == \A s \in {"lobby", "ladder"} : Tower!To(s, "matched") = "matched"
<1>1. \A s \in {"lobby", "ladder"} : \A e \in Tower!Edge(s) : e[1] = "matched" => e[2] = "matched"
  BY DEF Tower!Edge, Tower!SnapshotEdge, Tower!LobbyEdge, Tower!LadderEdge
<1>2. \A s \in {"lobby", "ladder"} : \E e \in Tower!Edge(s) : e[1] = "matched"
  <2>1. \A s \in {"lobby", "ladder"} : <<"matched", "matched">> \in Tower!Edge(s)
    BY DEF Tower!Edge, Tower!LobbyEdge, Tower!LadderEdge
  <2>2. <<"matched", "matched">>[1] = "matched"
    OBVIOUS
  <2> QED BY <2>1, <2>2
<1> QED BY <1>1, <1>2 DEF Tower!To

LEMMA MatchedKeeps ==
  ASSUME LadderInv, NEW t \in Tab, Tower!Matched(t)
  PROVE  LadderInv'
<1> DEFINE page == [tab[t] EXCEPT !.asked = FALSE, !.screen = Tower!To(@, "matched"), !.offer = None, !.shown = None]
<1>1. RunsInv /\ TabsInv /\ Placed(tab[t]) /\ Fights(tab[t], runs) /\ tab[t] \in Tabs /\ tab \in [Tab -> Tabs]
  BY DEF LadderInv, TabsInv, Stands, Placed
<1>2. tab[t].asked /\ UNCHANGED <<runs, legacy, picked, past>>
  BY DEF Tower!Matched, Tower!storage
<1>3. tab' = [tab EXCEPT ![t] = page]
  BY <1>1 DEF Tower!Matched, Tabs
<1>4. Tower!To(tab[t].screen, "matched") = "matched"
  <2>1. tab[t].screen \in {"lobby", "ladder"}
    BY <1>1, <1>2 DEF Placed, Tabs
  <2> QED BY <2>1, Announces
<1>5. /\ page \in Tabs /\ page.screen = "matched" /\ page.climbing = tab[t].climbing /\ page.asked = FALSE
      /\ page.foe = tab[t].foe /\ page.shown = None /\ page.roster = tab[t].roster
      /\ page.floor = tab[t].floor /\ page.offer = None /\ page.stale = tab[t].stale
  BY <1>1, <1>4 DEF Tabs
<1> HIDE DEF page
<1>6. Placed(page)
  BY <1>1, <1>2, <1>5 DEF Placed
<1>7. Fights(page, runs) /\ Shows(page, runs, picked)
  BY <1>1, <1>2, <1>5 DEF Fights, Shows, Known
<1>8. TabsInv'
  BY <1>1, <1>2, <1>3, <1>6, <1>7, PageKeeps DEF Stands
<1>9. RunsInv'
  BY <1>1, <1>2 DEF RunsInv
<1> QED BY <1>8, <1>9 DEF LadderInv

LEMMA LeavingKeeps ==
  ASSUME LadderInv, NEW t \in Tab, Tower!ToLobby(t)
  PROVE  LadderInv'
<1> DEFINE page == Tower!AtLobby(tab[t])
<1>1. RunsInv /\ TabsInv /\ Placed(tab[t]) /\ tab[t] \in Tabs /\ tab \in [Tab -> Tabs]
  BY DEF LadderInv, TabsInv, Stands, Placed
<1>2. /\ tab[t].screen \in {"ladder", "matched", "result"} /\ tab' = [tab EXCEPT ![t] = page]
      /\ UNCHANGED <<runs, legacy, picked, past>>
  BY DEF Tower!ToLobby, Tower!storage
<1>3. /\ page \in Tabs /\ page.screen = "lobby" /\ page.climbing = None /\ page.floor = 0 /\ page.offer = None
      /\ page.shown = None /\ page.roster = tab[t].roster /\ page.asked = tab[t].asked
  BY <1>1 DEF Tabs, Tower!AtLobby
<1> HIDE DEF page
<1>4. Placed(page) /\ Fights(page, runs) /\ Shows(page, runs, picked)
  BY <1>1, <1>2, <1>3 DEF Placed, Fights, Shows
<1>5. TabsInv'
  BY <1>1, <1>2, <1>4, PageKeeps DEF Stands
<1>6. RunsInv'
  BY <1>1, <1>2 DEF RunsInv
<1> QED BY <1>5, <1>6 DEF LadderInv

(* The page after a result, whatever it is. *)
LEMMA ResultStands ==
  ASSUME NEW page, NEW after, NEW R, NEW Q, NEW pk, Stands(page, R, pk), page.screen = "matched",
         after \in Tabs, after.screen = "result", after.shown = page.shown, after.asked = page.asked,
         after.roster = page.roster, after.climbing = page.climbing,
         after.floor \in {0, page.floor}, after.offer = page.offer \/ page.floor # 0
  PROVE  Stands(after, Q, pk)
<1>1. Placed(page) /\ page.shown = None
  BY DEF Stands, Shows
<1>2. Placed(after)
  BY <1>1 DEF Placed
<1>3. Fights(after, Q) /\ Shows(after, Q, pk)
  BY <1>1 DEF Placed, Fights, Shows
<1> QED BY <1>2, <1>3 DEF Stands

(* A floor that is decided from a page nobody has overtaken is the one the run *)
(* stands on.                                                                  *)
Judged(t, a) == [Tower!PastRead(t, tab[t].climbing, a) EXCEPT !.mixed = @ \/ tab[t].stale]

LEMMA FloorIs ==
  ASSUME LadderInv, NEW t \in Tab, tab[t].screen = "matched", tab[t].floor # 0,
         NEW a \in Tower!Readings(t, tab[t].climbing)
  PROVE  /\ tab[t].climbing \in PairKey /\ tab[t].foe \in Fighter /\ IsRun(a)
         /\ Judged(t, a) \in Fought
         /\ ~Judged(t, a).mixed =>
               /\ ~a.lost /\ ~a.cleared /\ tab[t].foe = a.order[a.floor]
               /\ Judged(t, a).losses = Owing(a) /\ Judged(t, a).beaten = Tower!Below(a)
<1> DEFINE p == tab[t].climbing
           h == Tower!PastRead(t, p, a)
           g == Judged(t, a)
<1>1. RunsInv /\ Placed(tab[t]) /\ Fights(tab[t], runs) /\ tab[t].stale \in BOOLEAN
  BY DEF LadderInv, TabsInv, Stands, Placed, Tabs
<1>2. p \in PairKey /\ tab[t].roster \in Roster /\ tab[t].foe \in Fighter
  BY <1>1 DEF Placed
<1>3. ~tab[t].stale => /\ runs[p] # None /\ ~runs[p].lost /\ ~runs[p].cleared
                       /\ tab[t].foe = runs[p].order[runs[p].floor] /\ Known(tab[t], runs[p])
  BY <1>1 DEF Fights
<1>4. /\ IsRun(a) /\ Honest(a, h) /\ h \in Fought
      /\ runs[p] # None /\ Known(tab[t], runs[p]) =>
            (a.order = runs[p].order => a = runs[p]) /\ (~h.mixed => a.order = runs[p].order)
  BY <1>1, <1>2, ReadingIs
<1>5. g = [h EXCEPT !.mixed = @ \/ tab[t].stale]
  BY DEF Judged
<1> HIDE DEF g, h, p
<1>6. /\ g \in Fought /\ g.losses = h.losses /\ g.beaten = h.beaten
      /\ ~g.mixed => ~h.mixed /\ ~tab[t].stale
  BY <1>1, <1>4, <1>5 DEF Fought
<1>7. ~g.mixed => a = runs[p]
  BY <1>3, <1>4, <1>6
<1>8. /\ p \in PairKey /\ tab[t].foe \in Fighter /\ IsRun(a) /\ g \in Fought
      /\ ~g.mixed => /\ ~a.lost /\ ~a.cleared /\ tab[t].foe = a.order[a.floor]
                     /\ g.losses = Owing(a) /\ g.beaten = Tower!Below(a)
  BY <1>2, <1>3, <1>4, <1>6, <1>7 DEF Honest
<1> QED BY <1>8 DEF g, p

LEMMA WinIs ==
  ASSUME NEW a, IsRun(a), NEW g \in Fought, NEW foe \in Fighter,
         ~g.mixed => /\ ~a.lost /\ ~a.cleared /\ foe = a.order[a.floor]
                     /\ g.losses = Owing(a) /\ g.beaten = Tower!Below(a)
  PROVE  LET b == Tower!AfterWin(a)
             h == [g EXCEPT !.beaten = @ \union {foe}]
         IN IsRun(b) /\ h \in Fought /\ Honest(b, h)
<1> DEFINE top == a.floor >= Len(a.order)
           n == a.won + 1
           k == IF top THEN 1 ELSE a.floor + 1
           b == Tower!AfterWin(a)
           h == [g EXCEPT !.beaten = @ \union {foe}]
<1>1. /\ a \in Run /\ a.floor \in Nat /\ a.won \in Nat /\ a.spent \in Nat /\ a.order \in Seq(Fighter)
      /\ Len(a.order) \in Nat /\ a.floor \in 1..Len(a.order) /\ Owing(a) <= a.won \div RetryFloors /\ a.lost \in BOOLEAN
  BY DEF IsRun, Run
<1>2. b = [a EXCEPT !.won = n, !.lost = FALSE, !.cleared = top, !.floor = k]
  BY <1>1 DEF Tower!AfterWin, Run
<1>3. n \in Nat /\ top \in BOOLEAN /\ k \in Nat /\ k \in 1..Len(a.order) /\ (top => k = 1 /\ a.floor = Len(a.order))
      /\ (~top => k = a.floor + 1)
  BY <1>1
<1> HIDE DEF b, h, n, k, top
<1>4. b \in Run
  BY <1>1, <1>2, <1>3 DEF Run
<1>5. /\ b.won = n /\ b.lost = FALSE /\ b.cleared = top /\ b.floor = k /\ b.order = a.order /\ b.spent = a.spent
  BY <1>1, <1>2 DEF Run
<1>6. Owing(b) = a.spent /\ a.spent <= Owing(a) /\ (~a.lost => Owing(a) = a.spent)
  BY <1>1, <1>5 DEF Owing, Due
<1>7. IsRun(b)
  <2>1. a.won \div RetryFloors \in Nat /\ n \div RetryFloors \in Nat /\ a.won \div RetryFloors <= n \div RetryFloors
    BY <1>1, <1>3, Banked DEF n
  <2>2. Owing(b) <= n \div RetryFloors
    <3> DEFINE x == a.won \div RetryFloors
               y == n \div RetryFloors
    <3>1. x \in Nat /\ y \in Nat /\ x <= y /\ Owing(a) <= x /\ Owing(a) \in Nat
      BY <1>1, <2>1 DEF Owing, Due
    <3> HIDE DEF x, y
    <3>2. Owing(b) <= y
      BY <1>1, <1>6, <3>1
    <3> QED BY <3>2 DEF y
  <2> QED BY <1>3, <1>4, <1>5, <2>2 DEF IsRun
<1>8. h \in Fought /\ h.mixed = g.mixed /\ h.losses = g.losses /\ h.beaten = g.beaten \union {foe}
  BY DEF Fought, h
<1>9. ASSUME ~a.cleared, foe = a.order[a.floor] PROVE Tower!Below(b) = Tower!Below(a) \union {foe}
  <2>1. Tower!Below(a) = {a.order[i] : i \in 1..(a.floor - 1)}
    BY <1>9 DEF Tower!Below
  <2>2. \A i \in 1..(a.floor - 1) : i \in 1..a.floor
    BY <1>1
  <2>3. \A i \in 1..a.floor : i \in 1..(a.floor - 1) \/ i = a.floor
    BY <1>1
  <2>4. a.floor \in 1..a.floor
    BY <1>1
  <2>5. Tower!Below(a) \union {foe} = {a.order[i] : i \in 1..a.floor}
    <3>1. ASSUME NEW x \in {a.order[i] : i \in 1..a.floor} PROVE x \in Tower!Below(a) \union {foe}
      BY <1>9, <2>1, <2>3
    <3>2. ASSUME NEW x \in Tower!Below(a) PROVE x \in {a.order[i] : i \in 1..a.floor}
      BY <2>1, <2>2
    <3>3. foe \in {a.order[i] : i \in 1..a.floor}
      BY <1>9, <2>4
    <3> QED BY <3>1, <3>2, <3>3
  <2>6. CASE top
    <3>1. Tower!Below(b) = {a.order[i] : i \in 1..Len(a.order)}
      BY <1>5, <2>6 DEF Tower!Below, Tower!Ids
    <3> QED BY <1>3, <2>5, <2>6, <3>1
  <2>7. CASE ~top
    <3>1. Tower!Below(b) = {a.order[i] : i \in 1..(k - 1)} /\ k - 1 = a.floor
      BY <1>1, <1>3, <1>5, <2>7 DEF Tower!Below
    <3> QED BY <2>5, <3>1
  <2> QED BY <2>6, <2>7
<1>10. Honest(b, h)
  BY <1>6, <1>8, <1>9 DEF Honest
<1> QED BY <1>7, <1>8, <1>10 DEF b, h

LEMMA LossIs ==
  ASSUME NEW a, IsRun(a), NEW g \in Fought, Tower!AfterLoss(a) # None,
         ~g.mixed => ~a.lost /\ g.losses = Owing(a) /\ g.beaten = Tower!Below(a)
  PROVE  LET b == Tower!AfterLoss(a)
             h == [g EXCEPT !.losses = @ + 1]
         IN IsRun(b) /\ h \in Fought /\ Honest(b, h)
<1> DEFINE b == Tower!AfterLoss(a)
           h == [g EXCEPT !.losses = @ + 1]
           W == a.won \div RetryFloors
<1>1. /\ a \in Run /\ a.won \in Nat /\ a.spent \in Nat /\ a.floor \in 1..Len(a.order)
      /\ (a.cleared => a.floor = 1) /\ a.lost \in BOOLEAN
  BY DEF IsRun, Run
<1>2. Tower!Bank(a) > 0 /\ b = [a EXCEPT !.lost = TRUE]
  BY DEF Tower!AfterLoss
<1>3. W \in Nat
  BY <1>1, Banked
<1>4. a.spent + 1 <= W
  <2>1. Tower!Bank(a) = IF W > a.spent THEN W - a.spent ELSE 0
    BY DEF Tower!Bank
  <2> HIDE DEF W
  <2> QED BY <1>1, <1>2, <1>3, <2>1
<1> HIDE DEF b, h, W
<1>5. /\ b \in Run /\ b.lost = TRUE /\ b.order = a.order /\ b.floor = a.floor /\ b.cleared = a.cleared
      /\ b.won = a.won /\ b.spent = a.spent
  BY <1>1, <1>2 DEF Run
<1>6. Owing(b) = a.spent + 1 /\ (~a.lost => Owing(a) = a.spent)
  BY <1>1, <1>5 DEF Owing, Due
<1>7. IsRun(b)
  BY <1>1, <1>4, <1>5, <1>6 DEF IsRun, W
<1>8. h \in Fought /\ h.mixed = g.mixed /\ h.losses = g.losses + 1 /\ h.beaten = g.beaten
  <2> DEFINE n == g.losses + 1
  <2>1. n \in Nat /\ h = [g EXCEPT !.losses = n]
    BY DEF Fought, h
  <2> HIDE DEF n
  <2>2. h \in Fought /\ h.mixed = g.mixed /\ h.losses = n /\ h.beaten = g.beaten
    BY <2>1 DEF Fought
  <2> QED BY <2>2 DEF n
<1>9. Tower!Below(b) = Tower!Below(a)
  BY <1>5 DEF Tower!Below
<1>10. Honest(b, h)
  BY <1>6, <1>8, <1>9 DEF Honest
<1> QED BY <1>7, <1>8, <1>10 DEF b, h

LEMMA VoidIs ==
  ASSUME NEW a, IsRun(a), NEW g \in Fought,
         ~g.mixed => ~a.cleared /\ g.losses = Owing(a) /\ g.beaten = Tower!Below(a)
  PROVE  LET b == Tower!AfterVoid(a) IN IsRun(b) /\ Honest(b, g)
<1> DEFINE b == Tower!AfterVoid(a)
<1>1. a \in Run /\ b = [a EXCEPT !.cleared = FALSE]
  BY DEF IsRun, Tower!AfterVoid
<1> HIDE DEF b
<1>2. /\ b \in Run /\ b.cleared = FALSE /\ b.order = a.order /\ b.floor = a.floor /\ b.won = a.won
      /\ b.spent = a.spent /\ b.lost = a.lost
  BY <1>1 DEF Run
<1>3. Owing(b) = Owing(a)
  BY <1>2 DEF Owing, Due
<1>4. IsRun(b)
  BY <1>2, <1>3 DEF IsRun
<1>5. ~a.cleared => Tower!Below(b) = Tower!Below(a)
  BY <1>2 DEF Tower!Below
<1> QED BY <1>3, <1>4, <1>5 DEF Honest, b

(* One of the three outcomes: what is written is a run or None, and the page   *)
(* shows a result.                                                             *)
LEMMA OutcomeKeeps ==
  ASSUME LadderInv, NEW t \in Tab, tab[t].screen = "matched", tab[t].floor # 0, UNCHANGED <<legacy, picked>>,
         NEW b, NEW h \in Fought, Tower!Write(tab[t].climbing, b, h), b # None => IsRun(b) /\ Honest(b, h),
         NEW offer \in {"next", "done", "retry-loss", "retry-floor"}, NEW after,
         \/ after = [tab[t] EXCEPT !.screen = "result", !.foe = None, !.offer = offer]
         \/ after = [tab[t] EXCEPT !.screen = "result", !.foe = None, !.offer = offer, !.floor = 0],
         Tower!Turn(t, after)
  PROVE  LadderInv'
<1>1. RunsInv /\ TabsInv /\ Stands(tab[t], runs, picked) /\ tab[t] \in Tabs /\ Placed(tab[t])
  BY DEF LadderInv, TabsInv, Stands, Placed
<1>2. tab[t].climbing \in PairKey
  BY <1>1 DEF Placed
<1>3. RunsInv'
  BY <1>1, <1>2, WriteKeeps
<1>4. /\ after \in Tabs /\ after.screen = "result" /\ after.shown = tab[t].shown /\ after.asked = tab[t].asked
      /\ after.roster = tab[t].roster /\ after.climbing = tab[t].climbing
      /\ after.floor \in {0, tab[t].floor}
  <2>1. CASE after = [tab[t] EXCEPT !.screen = "result", !.foe = None, !.offer = offer]
    BY <1>1, <2>1 DEF Tabs
  <2>2. CASE after = [tab[t] EXCEPT !.screen = "result", !.foe = None, !.offer = offer, !.floor = 0]
    BY <1>1, <2>2 DEF Tabs
  <2> QED BY <2>1, <2>2
<1>5. Stands(after, runs', picked)
  BY <1>1, <1>4, ResultStands
<1>6. TabsInv'
  BY <1>1, <1>5, TurnKeeps
<1> QED BY <1>3, <1>6 DEF LadderInv

LEMMA ResultKeeps ==
  ASSUME LadderInv, NEW t \in Tab, NEW outcome, Tower!Result(t, outcome)
  PROVE  LadderInv'
<1> DEFINE p == tab[t].climbing
           page == [tab[t] EXCEPT !.screen = "result", !.foe = None]
           H(a) == Tower!PastRead(t, p, a)
           G(a) == [H(a) EXCEPT !.mixed = @ \/ tab[t].stale]
<1>1. RunsInv /\ TabsInv /\ Stands(tab[t], runs, picked) /\ tab[t] \in Tabs /\ tab \in [Tab -> Tabs]
  BY DEF LadderInv, TabsInv, Stands, Placed
<1>2. tab[t].screen = "matched" /\ UNCHANGED <<legacy, picked>>
  BY DEF Tower!Result
<1>3. CASE tab[t].floor = 0
  <2>1. tab' = [tab EXCEPT ![t] = page] /\ UNCHANGED <<runs, past>>
    BY <1>3 DEF Tower!Result
  <2>2. /\ page \in Tabs /\ page.screen = "result" /\ page.shown = tab[t].shown /\ page.asked = tab[t].asked
        /\ page.roster = tab[t].roster /\ page.climbing = tab[t].climbing /\ page.floor = tab[t].floor
        /\ page.offer = tab[t].offer
    BY <1>1 DEF Tabs
  <2> HIDE DEF page
  <2>3. Stands(page, runs, picked)
    BY <1>1, <1>2, <2>2, ResultStands
  <2>4. TabsInv'
    BY <1>1, <1>2, <2>1, <2>3, PageKeeps
  <2>5. RunsInv'
    BY <1>1, <1>2, <2>1 DEF RunsInv
  <2> QED BY <2>4, <2>5 DEF LadderInv
<1>4. CASE tab[t].floor # 0
  <2>1. PICK a \in Tower!Readings(t, p) :
          \/ /\ outcome = "win" /\ a.won < MaxWon
             /\ Tower!Write(p, Tower!AfterWin(a), [G(a) EXCEPT !.beaten = @ \union {tab[t].foe}])
             /\ Tower!Turn(t, [page EXCEPT !.offer = IF Tower!AfterWin(a).cleared THEN "done" ELSE "next"])
          \/ /\ outcome = "loss"
             /\ IF Tower!AfterLoss(a) # None
                THEN /\ Tower!Write(p, Tower!AfterLoss(a), [G(a) EXCEPT !.losses = @ + 1])
                     /\ Tower!Turn(t, [page EXCEPT !.offer = "retry-loss"])
                ELSE /\ Tower!Write(p, None, Tower!NewPast)
                     /\ Tower!Turn(t, [page EXCEPT !.offer = "done", !.floor = 0])
          \/ /\ outcome = "void"
             /\ Tower!Write(p, Tower!AfterVoid(a), G(a))
             /\ Tower!Turn(t, [page EXCEPT !.offer = "retry-floor"])
    BY <1>4 DEF Tower!Result
  <2> DEFINE g == G(a)
  <2>2. /\ p \in PairKey /\ tab[t].foe \in Fighter /\ IsRun(a) /\ g \in Fought
        /\ ~g.mixed => /\ ~a.lost /\ ~a.cleared /\ tab[t].foe = a.order[a.floor]
                       /\ g.losses = Owing(a) /\ g.beaten = Tower!Below(a)
    <3>1. g = Judged(t, a)
      BY DEF Judged
    <3> HIDE DEF g
    <3> QED BY <1>2, <1>4, <3>1, FloorIs
  <2> HIDE DEF g
  <2>3. \A offer : [page EXCEPT !.offer = offer] = [tab[t] EXCEPT !.screen = "result", !.foe = None, !.offer = offer]
    OBVIOUS
  <2>4. [page EXCEPT !.offer = "done", !.floor = 0]
          = [tab[t] EXCEPT !.screen = "result", !.foe = None, !.offer = "done", !.floor = 0]
    OBVIOUS
  <2>5. Tower!NewPast \in Fought
    BY DEF Tower!NewPast, Fought
  <2> HIDE DEF page, p
  <2>6. CASE /\ Tower!Write(p, Tower!AfterWin(a), [g EXCEPT !.beaten = @ \union {tab[t].foe}])
             /\ Tower!Turn(t, [page EXCEPT !.offer = IF Tower!AfterWin(a).cleared THEN "done" ELSE "next"])
    <3> DEFINE b == Tower!AfterWin(a)
               h == [g EXCEPT !.beaten = @ \union {tab[t].foe}]
               offer == IF b.cleared THEN "done" ELSE "next"
               after == [page EXCEPT !.offer = offer]
    <3>1. IsRun(b) /\ h \in Fought /\ Honest(b, h)
      BY <2>2, WinIs
    <3>2. offer \in {"next", "done", "retry-loss", "retry-floor"}
      OBVIOUS
    <3>3. after = [tab[t] EXCEPT !.screen = "result", !.foe = None, !.offer = offer]
      BY <2>3
    <3>4. Tower!Write(p, b, h) /\ Tower!Turn(t, after)
      BY <2>6
    <3> HIDE DEF b, h, offer, after
    <3> QED BY <1>2, <1>4, <3>1, <3>2, <3>3, <3>4, OutcomeKeeps DEF p
  <2>7. CASE /\ Tower!AfterLoss(a) # None
             /\ Tower!Write(p, Tower!AfterLoss(a), [g EXCEPT !.losses = @ + 1])
             /\ Tower!Turn(t, [page EXCEPT !.offer = "retry-loss"])
    <3> DEFINE b == Tower!AfterLoss(a)
               h == [g EXCEPT !.losses = @ + 1]
               after == [page EXCEPT !.offer = "retry-loss"]
    <3>1. IsRun(b) /\ h \in Fought /\ Honest(b, h)
      BY <2>2, <2>7, LossIs
    <3>2. "retry-loss" \in {"next", "done", "retry-loss", "retry-floor"}
      OBVIOUS
    <3>3. after = [tab[t] EXCEPT !.screen = "result", !.foe = None, !.offer = "retry-loss"]
      BY <2>3
    <3>4. Tower!Write(p, b, h) /\ Tower!Turn(t, after)
      BY <2>7
    <3> HIDE DEF b, h, after
    <3> QED BY <1>2, <1>4, <3>1, <3>2, <3>3, <3>4, OutcomeKeeps DEF p
  <2>8. CASE Tower!Write(p, None, Tower!NewPast) /\ Tower!Turn(t, [page EXCEPT !.offer = "done", !.floor = 0])
    <3> DEFINE after == [page EXCEPT !.offer = "done", !.floor = 0]
    <3>1. "done" \in {"next", "done", "retry-loss", "retry-floor"}
      OBVIOUS
    <3>2. after = [tab[t] EXCEPT !.screen = "result", !.foe = None, !.offer = "done", !.floor = 0]
      BY <2>4
    <3>3. Tower!Turn(t, after)
      BY <2>8
    <3> HIDE DEF after
    <3> QED BY <1>2, <1>4, <2>5, <2>8, <3>1, <3>2, <3>3, OutcomeKeeps DEF p
  <2>9. CASE Tower!Write(p, Tower!AfterVoid(a), g) /\ Tower!Turn(t, [page EXCEPT !.offer = "retry-floor"])
    <3> DEFINE b == Tower!AfterVoid(a)
               after == [page EXCEPT !.offer = "retry-floor"]
    <3>1. IsRun(b) /\ Honest(b, g)
      BY <2>2, VoidIs
    <3>2. "retry-floor" \in {"next", "done", "retry-loss", "retry-floor"}
      OBVIOUS
    <3>3. after = [tab[t] EXCEPT !.screen = "result", !.foe = None, !.offer = "retry-floor"]
      BY <2>3
    <3>4. Tower!Write(p, b, g) /\ Tower!Turn(t, after)
      BY <2>9
    <3> HIDE DEF b, after
    <3> QED BY <1>2, <1>4, <2>2, <3>1, <3>2, <3>3, <3>4, OutcomeKeeps DEF p
  <2> QED BY <2>1, <2>6, <2>7, <2>8, <2>9 DEF g
<1> QED BY <1>1, <1>3, <1>4 DEF Tabs

-----------------------------------------------------------------------------
LEMMA LadderInit ==
  ASSUME Tower!Init
  PROVE  LadderInv
<1> USE DEF Tower!Init
<1>1. RunsInv
  <2>1. Tower!NewPast \in Fought
    BY DEF Tower!NewPast, Fought
  <2> QED BY <2>1 DEF RunsInv
<1>2. TabsInv
  <2> DEFINE page == Tower!Closed
  <2>1. /\ page \in Tabs /\ page.screen = "closed" /\ page.climbing = None /\ page.floor = 0 /\ page.offer = None
        /\ page.shown = None /\ page.asked = FALSE
    <3> DEFINE new == Tower!NewPage(<<>>)
    <3>1. /\ new \in Tabs /\ new.climbing = None /\ new.floor = 0 /\ new.offer = None
          /\ new.shown = None /\ new.asked = FALSE
      BY DEF Tower!NewPage, Tabs
    <3>2. page = [new EXCEPT !.screen = "closed"]
      BY DEF Tower!Closed
    <3> HIDE DEF new, page
    <3> QED BY <3>1, <3>2 DEF Tabs
  <2> HIDE DEF page
  <2>2. Stands(page, runs, picked)
    BY <2>1 DEF Stands, Placed, Fights, Shows
  <2>3. tab = [t \in Tab |-> page]
    BY DEF page
  <2> QED BY <2>1, <2>2, <2>3 DEF TabsInv
<1> QED BY <1>1, <1>2 DEF LadderInv

LEMMA LadderStep ==
  ASSUME LadderInv, Tower!Next
  PROVE  LadderInv'
<1>1. PICK t \in Tab :
        \/ Tower!Load(t)
        \/ \E f \in Choice : Tower!SelectFighter(t, f)
        \/ (\E p \in PairKey : Tower!StartLadder(t, p)) \/ Tower!Fight(t) \/ Tower!Refused(t) \/ Tower!Matched(t)
        \/ \E outcome \in {"win", "loss", "void"} : Tower!Result(t, outcome)
        \/ Tower!PlayAgain(t) \/ Tower!ToLobby(t)
  BY DEF Tower!Next
<1>2. CASE Tower!Load(t) \/ \E f \in Choice : Tower!SelectFighter(t, f)
  BY <1>2, LoadKeeps, SelectKeeps
<1>3. CASE \E p \in PairKey : Tower!StartLadder(t, p)
  BY <1>3, TowerKeeps DEF Tower!StartLadder
<1>4. CASE Tower!PlayAgain(t)
  <2>1. tab[t].screen = "result" /\ Tower!Tower(t, tab[t].climbing, tab[t]) /\ tab[t].offer # None
    BY <1>4 DEF Tower!PlayAgain
  <2>2. tab[t].climbing \in PairKey
    BY <2>1 DEF LadderInv, TabsInv, Stands, Placed
  <2> QED BY <2>1, <2>2, TowerKeeps
<1>5. CASE Tower!Fight(t) \/ Tower!Refused(t) \/ Tower!Matched(t)
  BY <1>5, FightKeeps, RefusedKeeps, MatchedKeeps
<1>6. CASE Tower!ToLobby(t) \/ \E outcome \in {"win", "loss", "void"} : Tower!Result(t, outcome)
  BY <1>6, LeavingKeeps, ResultKeeps
<1> QED BY <1>1, <1>2, <1>3, <1>4, <1>5, <1>6

LEMMA LadderKept == Spec => [](part = "tower" => LadderInv)
<1>1. Init => (part = "tower" => LadderInv)
  BY LadderInit DEF Init
<1>2. (part = "tower" => LadderInv) /\ [Next]_<<part, stream, record, game, ladder>>
        => (part = "tower" => LadderInv)'
  <2>1. ASSUME LadderInv, UNCHANGED ladder PROVE LadderInv'
    <3>1. UNCHANGED <<runs, legacy, picked, tab, past>>
      BY <2>1 DEF ladder
    <3>2. RunsInv'
      BY <2>1, <3>1 DEF LadderInv, RunsInv
    <3>3. TabsInv'
      BY <2>1, <3>1 DEF LadderInv, TabsInv
    <3> QED BY <3>2, <3>3 DEF LadderInv
  <2>2. Next /\ part = "tower" => Tower!Next
    BY DEF Next
  <2>3. Next => part' = part
    BY DEF Next
  <2> QED BY <2>1, <2>2, <2>3, LadderStep
<1> QED BY <1>1, <1>2, PTL DEF Spec

(* However many tabs climb with one store, each loss a run survived is paid    *)
(* for with a retry that a won floor banked, and with one only (retryBank,     *)
(* advanceLadder, postCPU).                                                    *)
THEOREM LossesStayPaid == Spec => []LossesArePaid
<1>1. LadderInv => Tower!LossesArePaid
  <2>1. ASSUME LadderInv, NEW p \in PairKey, runs[p] # None
        PROVE  /\ runs[p].spent + (IF runs[p].lost THEN 1 ELSE 0) <= runs[p].won \div RetryFloors
               /\ ~past[p].mixed => past[p].losses = runs[p].spent + (IF runs[p].lost THEN 1 ELSE 0)
    BY <2>1 DEF LadderInv, RunsInv, IsRun, Honest, Owing, Due
  <2> QED BY <2>1 DEF Tower!LossesArePaid
<1>2. (part = "tower" => LadderInv) => LossesArePaid
  BY <1>1 DEF LossesArePaid
<1> QED BY <1>2, LadderKept, PTL

(* A run that is never repaired, nor decided from a page another tab has       *)
(* overtaken, stands where the fights it won have taken it (advanceLadder).    *)
THEOREM BelowStaysBeaten == Spec => []BelowIsBeaten
<1>1. LadderInv => Tower!BelowIsBeaten
  <2>1. ASSUME LadderInv, NEW p \in PairKey, runs[p] # None, ~past[p].mixed
        PROVE  past[p].beaten = Tower!Below(runs[p])
    BY <2>1 DEF LadderInv, RunsInv, Honest
  <2> QED BY <2>1 DEF Tower!BelowIsBeaten
<1>2. (part = "tower" => LadderInv) => BelowIsBeaten
  BY <1>1 DEF BelowIsBeaten
<1> QED BY <1>2, LadderKept, PTL

(* The fighter the tower shows is the one its button sends out, whatever the   *)
(* roster and the other tabs have done since it was drawn (showTower, postCPU).*)
THEOREM TheTowerKeepsItsWord == Spec => TowerKeepsItsWord
<1>1. ASSUME LadderInv, NEW t \in Tab, Tower!Fight(t), tab[t].shown # None
      PROVE  tab'[t].foe = tab[t].shown
  <2> DEFINE After(b) == [tab[t] EXCEPT !.floor = b.floor, !.foe = b.order[b.floor],
                                        !.asked = TRUE, !.stale = FALSE]
  <2>1. PICK b : Tower!Turn(t, After(b)) /\ tab[t].shown = b.order[b.floor]
    BY <1>1, FightIs
  <2>2. tab[t] \in Tabs
    BY <1>1 DEF LadderInv, TabsInv
  <2>3. After(b).foe = b.order[b.floor]
    BY <2>2 DEF Tabs
  <2>4. tab'[t] = After(b)
    BY <2>1 DEF Tower!Turn
  <2> QED BY <2>1, <2>3, <2>4
<1>2. (part = "tower" => LadderInv) /\ [Next]_<<part, stream, record, game, ladder>>
        => [\A t \in Tab : part = "tower" /\ Tower!Fight(t) /\ tab[t].shown # None
                             => tab'[t].foe = tab[t].shown]_ladder
  BY <1>1
<1> QED BY <1>2, LadderKept, PTL DEF Spec, TowerKeepsItsWord
=============================================================================
