---------------------------- MODULE ScreenProofs ----------------------------
(* The match screen (Stage.tla, in Client.tla): theorems for every number of   *)
(* rounds, frames, matches, breaks and losses.                                 *)
EXTENDS Client, TLAPS

-----------------------------------------------------------------------------
(* Every edge of the screen machine leads to a screen; a result and a locked   *)
(* choice come of nothing but a match.                                         *)
InMatch == {"matched", "countdown", "shoot", "locked", "result"}

LEMMA EdgesLead ==
  ASSUME NEW s \in Screen!State, NEW e \in Screen!Edge(s)
  PROVE  e[2] \in Screen!State /\ (e[2] \in {"result", "locked"} => s \in InMatch)
<1> USE DEF InMatch
<1>1. ASSUME e \in Screen!SnapshotEdge PROVE e[2] \in Screen!State \ {"result", "locked"}
  BY <1>1 DEF Screen!SnapshotEdge, Screen!State
<1>2. CASE s = "lobby"
  <2>1. \A d \in Screen!LobbyEdge : d[2] \in Screen!State \ {"result", "locked"}
    BY DEF Screen!LobbyEdge, Screen!State
  <2> QED BY <1>1, <1>2, <2>1 DEF Screen!Edge
<1>3. CASE s = "waiting"
  <2>1. \A d \in Screen!WaitingEdge : d[2] \in Screen!State \ {"result", "locked"}
    BY DEF Screen!WaitingEdge, Screen!State
  <2> QED BY <1>1, <1>3, <2>1 DEF Screen!Edge
<1>4. CASE s = "ladder"
  <2>1. \A d \in Screen!LadderEdge : d[2] \in Screen!State \ {"result", "locked"}
    BY DEF Screen!LadderEdge, Screen!State
  <2> QED BY <1>1, <1>4, <2>1 DEF Screen!Edge
<1>5. CASE s = "history"
  <2>1. \A d \in Screen!HistoryEdge : d[2] \in Screen!State \ {"result", "locked"}
    BY DEF Screen!HistoryEdge, Screen!State
  <2> QED BY <1>1, <1>5, <2>1 DEF Screen!Edge
<1>6. CASE s \in InMatch
  <2>1. \A d \in Screen!MatchedEdge \union Screen!CountdownEdge : d[2] \in Screen!State
    BY DEF Screen!MatchedEdge, Screen!CountdownEdge, Screen!State
  <2>2. \A d \in Screen!ShootEdge \union Screen!LockedEdge : d[2] \in Screen!State
    BY DEF Screen!ShootEdge, Screen!LockedEdge, Screen!State
  <2>3. \A d \in Screen!ResultEdge : d[2] \in Screen!State
    BY DEF Screen!ResultEdge, Screen!State
  <2> QED BY <1>1, <1>6, <2>1, <2>2, <2>3 DEF Screen!Edge
<1> QED BY <1>2, <1>3, <1>4, <1>5, <1>6 DEF Screen!State

LEMMA EventsLead ==
  ASSUME NEW s \in Screen!State, NEW ev, Screen!Takes(s, ev)
  PROVE  /\ Screen!To(s, ev) \in Screen!State
         /\ Screen!To(s, ev) \in {"result", "locked"} => s \in InMatch
<1>1. PICK e \in Screen!Edge(s) : e[1] = ev
  BY DEF Screen!Takes
<1>2. \E d \in Screen!Edge(s) : d[1] = ev /\ Screen!To(s, ev) = d[2]
  BY <1>1 DEF Screen!To
<1> QED BY <1>2, EdgesLead

-----------------------------------------------------------------------------
(* Which acknowledgements may come: those of a page that is armed for a gate,   *)
(* and whose timer a painted frame has started.                                *)
AckInv ==
    /\ armed /\ screen = "result" => ~decided
    /\ Screen!GateOpen(screen) /\ armed /\ beating # 0 => painted
    /\ sent => painted /\ Screen!GateOpen(screen) /\ (screen = "result" => ~decided)

(* Promises and frames carry the number of their background: each promise its  *)
(* own, and none of a background that was not set yet.                         *)
LoadInv ==
    /\ stage \in Nat
    /\ \A l \in loading : l.n \in Nat /\ l.n <= stage /\ l.n \notin frames
    /\ \A l, k \in loading : l.n = k.n => l = k
    /\ \A n \in frames : n \in Nat /\ n <= stage

(* The game is shown, or will be when its background is there.                 *)
ShownInv ==
    /\ screen \in Screen!State
    /\ view = "game" => screen \notin {"lobby", "waiting", "history"}
    /\ screen \in InMatch => view = "game" \/ \E l \in loading : "show" \in l.then

ScreenInv == AckInv /\ LoadInv /\ ShownInv

(* What is chained to the background keeps the promises and the frames apart,  *)
(* and forgets no order to show the game.                                      *)
Promised == \E l \in loading : "show" \in l.then

LEMMA RunOne ==
  ASSUME NEW n \in Nat, n <= stage, NEW then, NEW s,
         \A l \in loading' : l \in loading /\ l.n # n, stage' = stage,
         LoadInv, Screen!Run(n, then, s)
  PROVE  /\ LoadInv'
         /\ view' # view => view' = "game" /\ Screen!ShowsGame(s)
         /\ "show" \in then /\ Screen!ShowsGame(s) => view' = "game"
<1>1. frames' \subseteq frames \union {n}
  BY DEF Screen!Run
<1>2. LoadInv'
  BY <1>1 DEF LoadInv
<1> QED BY <1>2 DEF Screen!Run

LEMMA ChainOne ==
  ASSUME NEW fresh \in BOOLEAN, NEW then, NEW s, LoadInv, Screen!Chain(fresh, then, s)
  PROVE  /\ LoadInv'
         /\ view' # view => view' = "game" /\ Screen!ShowsGame(s)
         /\ "show" \in then /\ Screen!ShowsGame(s) => view' = "game" \/ Promised'
         /\ ~fresh /\ Promised => Promised'
<1> DEFINE n == IF fresh THEN stage + 1 ELSE stage
           here == {l \in loading : l.n = n}
           all == then \union UNION {l.then : l \in here}
           new == [n |-> n, then |-> all]
<1>1. n \in Nat /\ stage \in Nat /\ stage <= n /\ stage' = n
  BY DEF LoadInv, Screen!Chain
<1>2. new.n = n /\ new.then = all
  OBVIOUS
<1>3. CASE fresh \/ here # {}
  <2>1. loading' = (loading \ here) \union {new} /\ view' = view /\ frames' = frames
    BY <1>3 DEF Screen!Chain
  <2>2. n \notin frames
    <3>1. CASE fresh
      BY <1>1, <3>1 DEF LoadInv
    <3>2. CASE here # {}
      BY <3>2 DEF LoadInv
    <3> QED BY <1>3, <3>1, <3>2
  <2>3. LoadInv'
    <3> HIDE DEF new, all
    <3>1. \A l \in loading' : l = new \/ (l \in loading /\ l.n # n)
      BY <2>1
    <3>2. \A l \in loading : l.n \in Nat /\ l.n <= n /\ l.n \notin frames'
      BY <1>1, <2>1 DEF LoadInv
    <3>3. \A l \in loading' : l.n \in Nat /\ l.n <= stage' /\ l.n \notin frames'
      BY <1>1, <1>2, <2>1, <2>2, <3>1, <3>2
    <3>4. \A l, k \in loading' : l.n = k.n => l = k
      BY <1>2, <3>1 DEF LoadInv
    <3>5. \A k \in frames' : k \in Nat /\ k <= stage'
      BY <1>1, <2>1 DEF LoadInv
    <3> QED BY <1>1, <3>3, <3>4, <3>5 DEF LoadInv
  <2>4. "show" \in then => Promised'
    BY <1>2, <2>1 DEF Promised
  <2>5. Promised => Promised'
    <3> SUFFICES ASSUME NEW l \in loading, "show" \in l.then PROVE Promised'
      BY DEF Promised
    <3>1. CASE l \in here
      <4>1. "show" \in all
        BY <3>1
      <4> QED BY <1>2, <2>1, <4>1 DEF Promised
    <3>2. CASE l \notin here
      BY <2>1, <3>2 DEF Promised
    <3> QED BY <3>1, <3>2
  <2> QED BY <2>1, <2>3, <2>4, <2>5
<1>4. CASE ~fresh /\ here = {}
  <2>1. n = stage /\ loading' = loading /\ Screen!Run(stage, then, s)
    BY <1>4 DEF Screen!Chain
  <2>2. \A l \in loading' : l \in loading /\ l.n # stage
    BY <1>4, <2>1
  <2> QED BY <1>1, <2>1, <2>2, RunOne DEF Promised
<1> QED BY <1>3, <1>4

-----------------------------------------------------------------------------
(* Every screen is entered anew: with the arm, and the view, that belong to it. *)
LEMMA Entering ==
  ASSUME ScreenInv, NEW to \in Screen!State, to \in {"result", "locked"} => screen \in InMatch,
         NEW f, Screen!Enter(screen, to, f)
  PROVE  ScreenInv'
<1>0. /\ screen' = to /\ painted' = FALSE /\ sent' = FALSE
      /\ decided' = (to = "result" /\ f.ev # "result")
  BY DEF Screen!Enter
<1>1. CASE to = "matched"
  <2>1. armed' = TRUE /\ beating' = 0 /\ Screen!Chain(TRUE, {"show", "arm"}, to)
    BY <1>1 DEF Screen!Enter, Screen!Rearm, Screen!Cleared
  <2>2. LoadInv' /\ (view' = "game" \/ Promised')
    <3>1. "show" \in {"show", "arm"} /\ Screen!ShowsGame(to) /\ TRUE \in BOOLEAN /\ LoadInv
      BY <1>1 DEF ScreenInv, Screen!ShowsGame
    <3> QED BY <2>1, <3>1, ChainOne
  <2>3. AckInv'
    BY <1>0, <1>1, <2>1 DEF AckInv
  <2> QED BY <1>0, <1>1, <2>2, <2>3 DEF ScreenInv, ShownInv, Promised
<1>2. CASE to = "result" /\ Screen!Gated(f)
  <2>1. armed' = TRUE /\ beating' = 0 /\ Screen!Chain(FALSE, {"arm"}, to) /\ ~decided'
    BY <1>0, <1>2 DEF Screen!Enter, Screen!Rearm, Screen!Cleared, Screen!Gated
  <2>2. LoadInv' /\ (view' # view => view' = "game") /\ (Promised => Promised')
    BY <1>2, <2>1, ChainOne DEF ScreenInv
  <2>3. AckInv'
    BY <1>0, <1>2, <2>1 DEF AckInv
  <2>4. view = "game" \/ Promised
    BY <1>2 DEF ScreenInv, ShownInv, Promised
  <2> QED BY <1>0, <1>2, <2>2, <2>3, <2>4 DEF ScreenInv, ShownInv, Promised
<1>3. CASE to = "result" /\ ~Screen!Gated(f)
  <2>1. armed' = FALSE /\ UNCHANGED <<view, stage, loading, frames>>
    BY <1>3 DEF Screen!Enter, Screen!StopReady
  <2>2. LoadInv'
    BY <2>1 DEF ScreenInv, LoadInv
  <2>3. AckInv'
    BY <1>0, <2>1 DEF AckInv
  <2> QED BY <1>0, <1>3, <2>1, <2>2, <2>3 DEF ScreenInv, ShownInv
<1>4. CASE to = "countdown"
  <2>1. PICK fresh \in BOOLEAN : Screen!Chain(fresh, {"show"}, to)
    BY <1>4 DEF Screen!Enter
  <2>2. LoadInv' /\ (view' = "game" \/ Promised')
    BY <1>4, <2>1, ChainOne DEF ScreenInv, Screen!ShowsGame
  <2>3. AckInv'
    BY <1>0, <1>4 DEF AckInv, Screen!GateOpen
  <2> QED BY <1>0, <1>4, <2>2, <2>3 DEF ScreenInv, ShownInv, Promised
<1>5. CASE to = "shoot"
  <2>1. PICK fresh \in BOOLEAN : Screen!Chain(fresh, {"show"}, to)
    BY <1>5 DEF Screen!Enter
  <2>2. LoadInv' /\ (view' = "game" \/ Promised')
    BY <1>5, <2>1, ChainOne DEF ScreenInv, Screen!ShowsGame
  <2>3. AckInv'
    BY <1>0, <1>5 DEF AckInv, Screen!GateOpen
  <2> QED BY <1>0, <1>5, <2>2, <2>3 DEF ScreenInv, ShownInv, Promised
<1>6. CASE to = "locked"
  <2>1. UNCHANGED <<view, stage, loading>> /\ frames' = frames
    BY <1>6 DEF Screen!Enter, Screen!ready
  <2>2. LoadInv'
    BY <2>1 DEF ScreenInv, LoadInv
  <2>3. AckInv'
    BY <1>0, <1>6 DEF AckInv, Screen!GateOpen
  <2> QED BY <1>0, <1>6, <2>1, <2>2, <2>3 DEF ScreenInv, ShownInv
<1>7. CASE to \in {"lobby", "waiting", "ladder", "history"}
  <2>1. view' # "game" /\ UNCHANGED <<stage, loading, frames>>
    <3>1. CASE to = "history"
      BY <3>1 DEF Screen!Enter, Screen!Show
    <3>2. CASE to \in {"lobby", "waiting", "ladder"}
      <4>1. Screen!Show(Screen!ViewOf[to])
        BY <3>2 DEF Screen!Enter
      <4>2. Screen!ViewOf[to] # "game"
        BY <3>2 DEF Screen!ViewOf
      <4> QED BY <4>1, <4>2 DEF Screen!Show
    <3> QED BY <1>7, <3>1, <3>2
  <2>2. LoadInv'
    BY <2>1 DEF ScreenInv, LoadInv
  <2>3. AckInv'
    BY <1>0, <1>7 DEF AckInv, Screen!GateOpen
  <2> QED BY <1>0, <1>7, <2>1, <2>2, <2>3 DEF ScreenInv, ShownInv, InMatch
<1> QED BY <1>1, <1>2, <1>3, <1>4, <1>5, <1>6, <1>7 DEF Screen!State

LEMMA ScreenStep ==
  ASSUME ScreenInv, Screen!Next
  PROVE  ScreenInv'
<1>0. screen \in Screen!State
  BY DEF ScreenInv, ShownInv
<1>1. ASSUME NEW f, NEW ev, Screen!Takes(screen, ev), Screen!Enter(screen, Screen!To(screen, ev), f)
      PROVE  ScreenInv'
  BY <1>0, <1>1, EventsLead, Entering
<1>2. ASSUME UNCHANGED Screen!page PROVE ScreenInv'
  BY <1>2 DEF Screen!page, Screen!ready, ScreenInv, AckInv, LoadInv, ShownInv
<1>3. CASE Screen!Receive
  BY <1>1, <1>3 DEF Screen!Receive
<1>4. CASE Screen!Drop \/ Screen!PlayCPU \/ Screen!Search \/ Screen!Elsewhere
  BY <1>2, <1>4 DEF Screen!Drop, Screen!PlayCPU, Screen!Search, Screen!Elsewhere
<1>5. CASE \E ev \in Screen!Pressed : Screen!Go(ev)
  BY <1>1, <1>5 DEF Screen!Go
<1>6. CASE Screen!Lock
  <2>1. "locked" \in Screen!State /\ screen \in InMatch
    BY <1>6 DEF Screen!Lock, Screen!State, InMatch
  <2>2. Screen!Enter(screen, "locked", Screen!NoFrame)
    BY <1>6 DEF Screen!Lock
  <2> QED BY <2>1, <2>2, Entering
<1>7. CASE Screen!Turn
  BY <1>7 DEF Screen!Turn, Screen!ready, ScreenInv, AckInv, LoadInv, ShownInv
<1>8. CASE Screen!Decoded
  <2>1. PICK l \in loading :
          /\ loading' = loading \ {l} /\ Screen!Run(l.n, l.then, screen)
          /\ UNCHANGED <<screen, decided, stage, armed, beating, painted, sent>>
    BY <1>8 DEF Screen!Decoded
  <2>2. l.n \in Nat /\ l.n <= stage /\ \A k \in loading' : k \in loading /\ k.n # l.n
    BY <2>1 DEF ScreenInv, LoadInv
  <2>3. /\ LoadInv'
        /\ view' # view => view' = "game" /\ Screen!ShowsGame(screen)
        /\ "show" \in l.then /\ Screen!ShowsGame(screen) => view' = "game"
    BY <2>1, <2>2, RunOne DEF ScreenInv
  <2>4. AckInv'
    BY <2>1 DEF ScreenInv, AckInv
  <2>5. ShownInv'
    <3>1. screen \in InMatch => Screen!ShowsGame(screen)
      BY DEF InMatch, Screen!ShowsGame
    <3>2. view' = "game" => screen \notin {"lobby", "waiting", "history"}
      BY <2>3 DEF ScreenInv, ShownInv, Screen!ShowsGame
    <3>3. ASSUME screen \in InMatch PROVE view' = "game" \/ \E k \in loading' : "show" \in k.then
      <4>1. CASE view = "game"
        BY <2>3, <4>1
      <4>2. CASE \E k \in loading : "show" \in k.then
        BY <2>1, <2>3, <3>1, <3>3, <4>2
      <4> QED BY <3>3, <4>1, <4>2 DEF ScreenInv, ShownInv
    <3> QED BY <1>0, <2>1, <3>2, <3>3 DEF ShownInv
  <2> QED BY <2>3, <2>4, <2>5 DEF ScreenInv
<1>9. CASE \E n \in frames : Screen!Paint(n)
  <2>1. PICK n \in frames : Screen!Paint(n)
    BY <1>9
  <2>2. /\ frames' = frames \ {n} /\ painted' = TRUE
        /\ UNCHANGED <<screen, decided, view, stage, loading, armed>>
        /\ sent' # sent => armed /\ Screen!GateOpen(screen)
    BY <2>1 DEF Screen!Paint, Screen!GoesOn
  <2>3. AckInv'
    BY <2>2 DEF ScreenInv, AckInv, Screen!GateOpen
  <2>4. LoadInv' /\ ShownInv'
    BY <2>2 DEF ScreenInv, LoadInv, ShownInv
  <2> QED BY <2>3, <2>4 DEF ScreenInv
<1>10. CASE Screen!Beat
  <2>1. /\ beating # 0 /\ UNCHANGED <<screen, decided, view, stage, loading, frames, painted>>
        /\ \/ armed /\ Screen!GateOpen(screen) /\ UNCHANGED <<armed, beating>> /\ sent' = TRUE
           \/ armed' = FALSE /\ sent' = sent
    BY <1>10 DEF Screen!Beat, Screen!SendReady, Screen!StopReady
  <2>2. AckInv'
    BY <2>1 DEF ScreenInv, AckInv, Screen!GateOpen
  <2>3. LoadInv' /\ ShownInv'
    BY <2>1 DEF ScreenInv, LoadInv, ShownInv
  <2> QED BY <2>2, <2>3 DEF ScreenInv
<1> QED
  BY <1>3, <1>4, <1>5, <1>6, <1>7, <1>8, <1>9, <1>10 DEF Screen!Next

LEMMA ScreenStart == Screen!Init => ScreenInv
  BY DEF Screen!Init, ScreenInv, AckInv, LoadInv, ShownInv, InMatch, Screen!State, Screen!GateOpen

LEMMA ScreenKept == Spec => [](part = "screen" => ScreenInv)
<1>1. Init => (part = "screen" => ScreenInv)
  BY ScreenStart DEF Init
<1>2. (part = "screen" => ScreenInv) /\ [Next]_<<part, stream, record, game, ladder>>
        => (part = "screen" => ScreenInv)'
  <2>1. ASSUME ScreenInv, UNCHANGED <<stream, game>> PROVE ScreenInv'
    BY <2>1 DEF stream, game, ScreenInv, AckInv, LoadInv, ShownInv
  <2>2. Next /\ part = "screen" => Screen!Next
    BY DEF Next
  <2>3. Next => part' = part
    BY DEF Next
  <2> QED BY <2>1, <2>2, <2>3, ScreenStep
<1> QED BY <1>1, <1>2, PTL DEF Spec

(* Whatever is late, a frame, a decoded background or the timer, no            *)
(* acknowledgement is sent of a gate that is closed (armReadyLoop).            *)
THEOREM OnlyOpenGatesAreAcked == Spec => []AcksAnOpenGate
<1>1. ScreenInv => Screen!AcksAnOpenGate
  BY DEF ScreenInv, AckInv, Screen!AcksAnOpenGate, Screen!GateOpen
<1>2. (part = "screen" => ScreenInv) => AcksAnOpenGate
  BY <1>1 DEF AcksAnOpenGate
<1> QED BY <1>2, ScreenKept, PTL

(* A page acknowledges a gate once it has painted a frame of it, and not       *)
(* before: a hidden tab answers for none (sendReady).                          *)
THEOREM OnlyPaintedPagesAnswer == Spec => []PresenceIsPainted
<1>1. ScreenInv => Screen!PresenceIsPainted
  BY DEF ScreenInv, AckInv, Screen!PresenceIsPainted
<1>2. (part = "screen" => ScreenInv) => PresenceIsPainted
  BY <1>1 DEF PresenceIsPainted
<1> QED BY <1>2, ScreenKept, PTL

(* However many backgrounds overtake each other, the frame an arm waits for is *)
(* asked for when its own is decoded (setBg, armReadyLoop).                    *)
THEOREM FramesAwaitTheirBackground == Spec => []FramesFollowDecode
<1>1. ScreenInv => Screen!FramesFollowDecode
  BY DEF ScreenInv, LoadInv, Screen!FramesFollowDecode
<1>2. (part = "screen" => ScreenInv) => FramesFollowDecode
  BY <1>1 DEF FramesFollowDecode
<1> QED BY <1>2, ScreenKept, PTL

(* A background that is decoded late puts no game over another screen, and     *)
(* none is forgotten: with nothing left to decode a match is shown (showGame). *)
THEOREM TheGameIsShown == Spec => []GameViewIsTheMatchs
<1>1. ScreenInv => Screen!GameViewIsTheMatchs
  BY DEF ScreenInv, ShownInv, InMatch, Screen!State, Screen!GameViewIsTheMatchs
<1>2. (part = "screen" => ScreenInv) => GameViewIsTheMatchs
  BY <1>1 DEF GameViewIsTheMatchs
<1> QED BY <1>2, ScreenKept, PTL
=============================================================================
