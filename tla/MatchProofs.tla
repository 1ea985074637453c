---------------------------- MODULE MatchProofs ----------------------------
(* Machine-checked theorems about the match engine (Match.tla), for every      *)
(* value of its constants.                                                     *)
EXTENDS Match, TLAPS

-----------------------------------------------------------------------------
(* What happens to picks and to moves in flight keeps them picks and moves.    *)
AnyPick == Pick \union {NoPick}
AnyPost == Post \union {NoPost}

LEMMA StampPick == Stamp \in Pick
  BY DEF Stamp, Pick

LEMMA StampPost == [stage |-> "stamped", pick |-> Stamp, age |-> 0] \in Post
  BY StampPick, PacingAssumption DEF Post

LEMMA RebasePick == \A k \in AnyPick : Rebase(k) \in AnyPick
  BY DEF AnyPick, Rebase, Pick, NoPick

LEMMA RebasePost == \A k \in AnyPost : [k EXCEPT !.pick = Rebase(@)] \in AnyPost
<1> SUFFICES ASSUME NEW k \in AnyPost PROVE [k EXCEPT !.pick = Rebase(@)] \in AnyPost
  OBVIOUS
<1>1. CASE k = NoPost
  BY <1>1 DEF AnyPost, NoPost, Rebase
<1>2. CASE k \in Post
  <2>1. k.pick # NoPick
    BY <1>2 DEF Post, Pick, NoPick
  <2>2. Rebase(k.pick) \in Pick
    BY <1>2, <2>1 DEF Post, Pick, Rebase
  <2>3. QED
    BY <1>2, <2>2 DEF Post, AnyPost
<1>3. QED
  BY <1>1, <1>2 DEF AnyPost

LEMMA AgePost ==
  ASSUME NEW k \in Post, k.age < Latency
  PROVE  [k EXCEPT !.age = @ + 1] \in Post
  BY PacingAssumption DEF Post

LEMMA AdmitPost == \A k \in Post : [k EXCEPT !.stage = "admitted"] \in Post
  BY DEF Post

LEMMA PostPick == \A k \in Post : k.pick \in Pick
  BY DEF Post

(* The types are an invariant: no handler, timer or abort takes the match out  *)
(* of the states its code names.                                               *)
THEOREM TypeCorrect == Spec => []TypeOK
<1> USE ModeAssumption, PacingAssumption
<1>1. Init => TypeOK
  <2> SUFFICES ASSUME Init PROVE TypeOK
    OBVIOUS
  <2>0. /\ 0 \in -(Window + 1)..CountSlots /\ 0 \in 0..CountSlots
       /\ Lease + 1 \in 0..(Lease + 1)
    BY PacingAssumption
  <2> USE DEF Init
  <2>1. TypeRun
    BY DEF TypeRun
  <2>5. TypeTimers
    BY <2>0 DEF TypeTimers
  <2>2. TypeFlags
    BY DEF TypeFlags
  <2>3. TypeSides
    <3>1. "none" \in Frame
      BY DEF Frame
    <3> QED BY <2>0, <3>1 DEF TypeSides
  <2>4. TypePicks
    BY DEF TypePicks
  <2> QED BY <2>1, <2>2, <2>3, <2>4, <2>5 DEF TypeOK
<1>2. TypeOK /\ [Next]_vars => TypeOK'
  <2> SUFFICES ASSUME TypeOK, [Next]_vars PROVE TypeOK'
    OBVIOUS
  <2> USE DEF TypeOK
  <2>1. CASE Enter
    <3>1. TypeRun'
      BY <2>1 DEF Enter, Abort, Emit, engine, requests, TypeRun, Side
    <3>2. TypeFlags'
      BY <2>1 DEF Enter, Abort, Emit, engine, requests, TypeFlags
    <3>3. TypeSides'
      BY <2>1 DEF Enter, Abort, Emit, engine, requests, TypeSides, Side, Frame, Terminal
    <3>4. TypePicks'
      BY <2>1 DEF Enter, Abort, Emit, engine, requests, TypePicks
    <3>5. TypeTimers'
      BY <2>1 DEF Enter, Abort, Emit, engine, requests, TypeTimers
    <3> QED BY <3>1, <3>2, <3>3, <3>4, <3>5
  <2>2. CASE GateCheck
    <3>1. TypeRun'
      BY <2>2 DEF GateCheck, engine, requests, TypeRun, Side
    <3>2. TypeFlags'
      BY <2>2 DEF GateCheck, engine, requests, TypeFlags
    <3>3. TypeSides'
      BY <2>2 DEF GateCheck, engine, requests, TypeSides
    <3>4. TypePicks'
      BY <2>2 DEF GateCheck, engine, requests, TypePicks
    <3>5. TypeTimers'
      BY <2>2 DEF GateCheck, engine, requests, TypeTimers
    <3> QED BY <3>1, <3>2, <3>3, <3>4, <3>5
  <2>3. CASE GateWake
    <3>1. TypeRun'
      BY <2>3 DEF GateWake, engine, requests, TypeRun, Side
    <3>2. TypeFlags'
      BY <2>3 DEF GateWake, engine, requests, TypeFlags
    <3>3. TypeSides'
      BY <2>3 DEF GateWake, engine, requests, TypeSides
    <3>4. TypePicks'
      BY <2>3 DEF GateWake, engine, requests, TypePicks
    <3>5. TypeTimers'
      BY <2>3 DEF GateWake, engine, requests, TypeTimers
    <3> QED BY <3>1, <3>2, <3>3, <3>4, <3>5
  <2>4. CASE GateExpires
    <3>1. TypeRun'
      BY <2>4 DEF GateExpires, GateExpired, Advanced, engine, requests, TypeRun, Side
    <3>2. TypeFlags'
      BY <2>4 DEF GateExpires, GateExpired, Advanced, engine, requests, TypeFlags
    <3>3. TypeSides'
      BY <2>4 DEF GateExpires, GateExpired, Advanced, engine, requests, TypeSides
    <3>4. TypePicks'
      BY <2>4 DEF GateExpires, GateExpired, Advanced, engine, requests, TypePicks
    <3>5. TypeTimers'
      BY <2>4 DEF GateExpires, GateExpired, Advanced, engine, requests, TypeTimers
    <3> QED BY <3>1, <3>2, <3>3, <3>4, <3>5
  <2>5. CASE SettleFirst
    <3>1. TypeRun'
      BY <2>5 DEF SettleFirst, ForfeitWin, engine, requests, TypeRun, Side
    <3>2. TypeFlags'
      BY <2>5 DEF SettleFirst, ForfeitWin, engine, requests, TypeFlags
    <3>3. TypeSides'
      BY <2>5 DEF SettleFirst, ForfeitWin, engine, requests, TypeSides, Side, Frame,
         Terminal
    <3>4. TypePicks'
      BY <2>5 DEF SettleFirst, ForfeitWin, engine, requests, TypePicks
    <3>5. TypeTimers'
      BY <2>5 DEF SettleFirst, ForfeitWin, engine, requests, TypeTimers
    <3> QED BY <3>1, <3>2, <3>3, <3>4, <3>5
  <2>6. CASE SettleSecond
    <3>1. TypeRun'
      BY <2>6 DEF SettleSecond, ForfeitWin, engine, requests, TypeRun, Side
    <3>2. TypeFlags'
      BY <2>6 DEF SettleSecond, ForfeitWin, engine, requests, TypeFlags
    <3>3. TypeSides'
      BY <2>6 DEF SettleSecond, ForfeitWin, engine, requests, TypeSides, Side, Frame,
         Terminal
    <3>4. TypePicks'
      BY <2>6 DEF SettleSecond, ForfeitWin, engine, requests, TypePicks
    <3>5. TypeTimers'
      BY <2>6 DEF SettleSecond, ForfeitWin, engine, requests, TypeTimers
    <3> QED BY <3>1, <3>2, <3>3, <3>4, <3>5
  <2>7. CASE GateOpened
    <3>1. TypeRun'
      BY <2>7 DEF GateOpened, Advanced, engine, requests, TypeRun, Side
    <3>2. TypeFlags'
      BY <2>7 DEF GateOpened, Advanced, engine, requests, TypeFlags
    <3>3. TypeSides'
      BY <2>7 DEF GateOpened, Advanced, engine, requests, TypeSides
    <3>4. TypePicks'
      BY <2>7 DEF GateOpened, Advanced, engine, requests, TypePicks
    <3>5. TypeTimers'
      BY <2>7 DEF GateOpened, Advanced, engine, requests, TypeTimers
    <3> QED BY <3>1, <3>2, <3>3, <3>4, <3>5
  <2>8. CASE Begin
    <3>1. TypeRun'
      BY <2>8 DEF Begin, Abort, Emit, engine, requests, TypeRun, Side
    <3>2. TypeFlags'
      BY <2>8 DEF Begin, Abort, Emit, engine, requests, TypeFlags
    <3>3. TypeSides'
      BY <2>8 DEF Begin, Abort, Emit, engine, requests, TypeSides, Side, Frame, Terminal
    <3>4. TypePicks'
      BY <2>8, RebasePost, RebasePick DEF Begin, Abort, Emit, engine, requests,
         TypePicks, AnyPick, AnyPost
    <3>5. TypeTimers'
      BY <2>8 DEF Begin, Abort, Emit, engine, requests, TypeTimers
    <3> QED BY <3>1, <3>2, <3>3, <3>4, <3>5
  <2>9. CASE Beat
    <3>1. TypeRun'
      BY <2>9 DEF Beat, Emit, engine, requests, TypeRun, Side
    <3>2. TypeFlags'
      BY <2>9 DEF Beat, Emit, engine, requests, TypeFlags
    <3>3. TypeSides'
      BY <2>9 DEF Beat, Emit, engine, requests, TypeSides, Side, Frame, Terminal
    <3>4. TypePicks'
      BY <2>9 DEF Beat, Emit, engine, requests, TypePicks
    <3>5. TypeTimers'
      BY <2>9 DEF Beat, Emit, engine, requests, TypeTimers
    <3> QED BY <3>1, <3>2, <3>3, <3>4, <3>5
  <2>10. CASE BeatsLeave
    <3>1. TypeRun'
      BY <2>10 DEF BeatsLeave, Abort, Emit, engine, requests, TypeRun, Side
    <3>2. TypeFlags'
      BY <2>10 DEF BeatsLeave, Abort, Emit, engine, requests, TypeFlags
    <3>3. TypeSides'
      BY <2>10 DEF BeatsLeave, Abort, Emit, engine, requests, TypeSides, Side, Frame,
         Terminal
    <3>4. TypePicks'
      BY <2>10 DEF BeatsLeave, Abort, Emit, engine, requests, TypePicks
    <3>5. TypeTimers'
      BY <2>10 DEF BeatsLeave, Abort, Emit, engine, requests, TypeTimers
    <3> QED BY <3>1, <3>2, <3>3, <3>4, <3>5
  <2>11. CASE Pun
    <3>1. TypeRun'
      BY <2>11 DEF Pun, Emit, Advanced, engine, requests, TypeRun, Side
    <3>2. TypeFlags'
      BY <2>11 DEF Pun, Emit, Advanced, engine, requests, TypeFlags
    <3>3. TypeSides'
      BY <2>11 DEF Pun, Emit, Advanced, engine, requests, TypeSides, Side, Frame, Terminal
    <3>4. TypePicks'
      BY <2>11 DEF Pun, Emit, Advanced, engine, requests, TypePicks
    <3>5. TypeTimers'
      BY <2>11 DEF Pun, Emit, Advanced, engine, requests, TypeTimers
    <3> QED BY <3>1, <3>2, <3>3, <3>4, <3>5
  <2>12. CASE Deadline
    <3>1. TypeRun'
      BY <2>12 DEF Deadline, Drained, engine, requests, TypeRun, Side
    <3>2. TypeFlags'
      BY <2>12 DEF Deadline, Drained, engine, requests, TypeFlags
    <3>3. TypeSides'
      BY <2>12 DEF Deadline, Drained, engine, requests, TypeSides
    <3>4. TypePicks'
      BY <2>12 DEF Deadline, Drained, engine, requests, TypePicks
    <3>5. TypeTimers'
      BY <2>12 DEF Deadline, Drained, engine, requests, TypeTimers
    <3> QED BY <3>1, <3>2, <3>3, <3>4, <3>5
  <2>13. CASE ShootLeave
    <3>1. TypeRun'
      BY <2>13 DEF ShootLeave, Abort, Emit, engine, requests, TypeRun, Side
    <3>2. TypeFlags'
      BY <2>13 DEF ShootLeave, Abort, Emit, engine, requests, TypeFlags
    <3>3. TypeSides'
      BY <2>13 DEF ShootLeave, Abort, Emit, engine, requests, TypeSides, Side, Frame,
         Terminal
    <3>4. TypePicks'
      BY <2>13 DEF ShootLeave, Abort, Emit, engine, requests, TypePicks
    <3>5. TypeTimers'
      BY <2>13 DEF ShootLeave, Abort, Emit, engine, requests, TypeTimers
    <3> QED BY <3>1, <3>2, <3>3, <3>4, <3>5
  <2>14. CASE Close
    <3>1. TypeRun'
      BY <2>14 DEF Close, Advanced, engine, requests, TypeRun, Side
    <3>2. TypeFlags'
      BY <2>14 DEF Close, Advanced, engine, requests, TypeFlags
    <3>3. TypeSides'
      BY <2>14 DEF Close, Advanced, engine, requests, TypeSides
    <3>4. TypePicks'
      BY <2>14 DEF Close, Advanced, engine, requests, TypePicks
    <3>5. TypeTimers'
      BY <2>14 DEF Close, Advanced, engine, requests, TypeTimers
    <3> QED BY <3>1, <3>2, <3>3, <3>4, <3>5
  <2>15. CASE Judge
    <3>1. TypeRun'
      BY <2>15 DEF Judge, Tally, OpensGate, SeriesOver, engine, requests, TypeRun, Side
    <3>2. TypeFlags'
      BY <2>15 DEF Judge, Tally, OpensGate, SeriesOver, engine, requests, TypeFlags
    <3>3. TypeSides'
      BY <2>15 DEF Judge, Tally, OpensGate, SeriesOver, engine, requests, TypeSides
    <3>4. TypePicks'
      BY <2>15 DEF Judge, Tally, OpensGate, SeriesOver, engine, requests, TypePicks
    <3>5. TypeTimers'
      BY <2>15 DEF Judge, Tally, OpensGate, SeriesOver, engine, requests, TypeTimers
    <3> QED BY <3>1, <3>2, <3>3, <3>4, <3>5
  <2>16. CASE Announce
    <3>1. TypeRun'
      BY <2>16 DEF Announce, Emit, AfterResult, Pause, engine, requests, TypeRun, Side
    <3>2. TypeFlags'
      BY <2>16 DEF Announce, Emit, AfterResult, Pause, engine, requests, TypeFlags
    <3>3. TypeSides'
      BY <2>16 DEF Announce, Emit, AfterResult, Pause, engine, requests, TypeSides, Side,
         Frame, Terminal
    <3>4. TypePicks'
      BY <2>16 DEF Announce, Emit, AfterResult, Pause, engine, requests, TypePicks
    <3>5. TypeTimers'
      BY <2>16 DEF Announce, Emit, AfterResult, Pause, engine, requests, TypeTimers
    <3> QED BY <3>1, <3>2, <3>3, <3>4, <3>5
  <2>17. CASE BreakEnds
    <3>1. TypeRun'
      BY <2>17 DEF BreakEnds, Advanced, engine, requests, TypeRun, Side
    <3>2. TypeFlags'
      BY <2>17 DEF BreakEnds, Advanced, engine, requests, TypeFlags
    <3>3. TypeSides'
      BY <2>17 DEF BreakEnds, Advanced, engine, requests, TypeSides
    <3>4. TypePicks'
      BY <2>17 DEF BreakEnds, Advanced, engine, requests, TypePicks
    <3>5. TypeTimers'
      BY <2>17 DEF BreakEnds, Advanced, engine, requests, TypeTimers
    <3> QED BY <3>1, <3>2, <3>3, <3>4, <3>5
  <2>18. CASE Discard
    <3>1. TypeRun'
      BY <2>18 DEF Discard, Discarded, engine, requests, TypeRun, Side
    <3>2. TypeFlags'
      BY <2>18 DEF Discard, Discarded, engine, requests, TypeFlags
    <3>3. TypeSides'
      BY <2>18 DEF Discard, Discarded, engine, requests, TypeSides
    <3>4. TypePicks'
      BY <2>18 DEF Discard, Discarded, engine, requests, TypePicks
    <3>5. TypeTimers'
      BY <2>18 DEF Discard, Discarded, engine, requests, TypeTimers
    <3> QED BY <3>1, <3>2, <3>3, <3>4, <3>5
  <2>19. CASE Exit
    <3>1. TypeRun'
      BY <2>19 DEF Exit, engine, requests, TypeRun, Side
    <3>2. TypeFlags'
      BY <2>19 DEF Exit, engine, requests, TypeFlags
    <3>3. TypeSides'
      BY <2>19 DEF Exit, engine, requests, TypeSides
    <3>4. TypePicks'
      BY <2>19 DEF Exit, engine, requests, TypePicks
    <3>5. TypeTimers'
      BY <2>19 DEF Exit, engine, requests, TypeTimers
    <3> QED BY <3>1, <3>2, <3>3, <3>4, <3>5
  <2>20. CASE Finish
    <3>1. TypeRun'
      BY <2>20 DEF Finish, Emit, engine, requests, TypeRun, Side
    <3>2. TypeFlags'
      BY <2>20 DEF Finish, Emit, engine, requests, TypeFlags
    <3>3. TypeSides'
      BY <2>20 DEF Finish, Emit, engine, requests, TypeSides, Side, Frame, Terminal
    <3>4. TypePicks'
      BY <2>20 DEF Finish, Emit, engine, requests, TypePicks
    <3>5. TypeTimers'
      BY <2>20 DEF Finish, Emit, engine, requests, TypeTimers
    <3> QED BY <3>1, <3>2, <3>3, <3>4, <3>5
  <2>21. CASE BotThrows
    <3>1. TypeRun'
      BY <2>21 DEF BotThrows, engine, requests, TypeRun, Side
    <3>2. TypeFlags'
      BY <2>21 DEF BotThrows, engine, requests, TypeFlags
    <3>3. TypeSides'
      BY <2>21 DEF BotThrows, engine, requests, TypeSides
    <3>4. TypePicks'
      BY <2>21, StampPick DEF BotThrows, engine, requests, TypePicks
    <3>5. TypeTimers'
      BY <2>21 DEF BotThrows, engine, requests, TypeTimers
    <3> QED BY <3>1, <3>2, <3>3, <3>4, <3>5
  <2>22. CASE BotGivesUp
    <3>1. TypeRun'
      BY <2>22 DEF BotGivesUp, engine, requests, TypeRun, Side
    <3>2. TypeFlags'
      BY <2>22 DEF BotGivesUp, engine, requests, TypeFlags
    <3>3. TypeSides'
      BY <2>22 DEF BotGivesUp, engine, requests, TypeSides
    <3>4. TypePicks'
      BY <2>22 DEF BotGivesUp, engine, requests, TypePicks
    <3>5. TypeTimers'
      BY <2>22 DEF BotGivesUp, engine, requests, TypeTimers
    <3> QED BY <3>1, <3>2, <3>3, <3>4, <3>5
  <2>23. CASE Tick
    <3>1. TypeRun'
      BY <2>23 DEF Tick, Older, engine, requests, TypeRun, Side
    <3>2. TypeFlags'
      BY <2>23 DEF Tick, Older, engine, requests, TypeFlags
    <3>3. TypeSides'
      BY <2>23 DEF Tick, Older, engine, requests, TypeSides
    <3>4. TypePicks'
      BY <2>23, AgePost DEF Tick, Older, engine, requests, TypePicks
    <3>5. TypeTimers'
      BY <2>23 DEF Tick, Older, engine, requests, TypeTimers
    <3> QED BY <3>1, <3>2, <3>3, <3>4, <3>5
  <2>24. ASSUME NEW i \in Side, GateLeave(i) PROVE TypeOK'
    <3>0. Other(i) \in Side
      BY DEF Other, Side
    <3>1. TypeRun'
      BY <2>24, <3>0 DEF GateLeave, ForfeitWin, Advanced, engine, requests, TypeRun
    <3>2. TypeFlags'
      BY <2>24 DEF GateLeave, ForfeitWin, Advanced, engine, requests, TypeFlags
    <3>3. TypeSides'
      BY <2>24 DEF GateLeave, ForfeitWin, Advanced, engine, requests, TypeSides, Side,
         Frame, Terminal
    <3>4. TypePicks'
      BY <2>24 DEF GateLeave, ForfeitWin, Advanced, engine, requests, TypePicks
    <3>5. TypeTimers'
      BY <2>24 DEF GateLeave, ForfeitWin, Advanced, engine, requests, TypeTimers
    <3> QED BY <3>1, <3>2, <3>3, <3>4, <3>5
  <2>25. ASSUME NEW i \in Side, Take(i) PROVE TypeOK'
    <3>1. TypeRun'
      BY <2>25 DEF Take, Counted, engine, requests, TypeRun, Side
    <3>2. TypeFlags'
      BY <2>25 DEF Take, Counted, engine, requests, TypeFlags
    <3>3. TypeSides'
      BY <2>25 DEF Take, Counted, engine, requests, TypeSides
    <3>4. TypePicks'
      BY <2>25 DEF Take, Counted, engine, requests, TypePicks
    <3>5. TypeTimers'
      BY <2>25 DEF Take, Counted, engine, requests, TypeTimers
    <3> QED BY <3>1, <3>2, <3>3, <3>4, <3>5
  <2>26. ASSUME NEW i \in Side, Leave(i) PROVE TypeOK'
    <3>1. TypeRun'
      BY <2>26 DEF Leave, engine, requests, TypeRun, Side
    <3>2. TypeFlags'
      BY <2>26 DEF Leave, engine, requests, TypeFlags
    <3>3. TypeSides'
      BY <2>26 DEF Leave, engine, requests, TypeSides
    <3>4. TypePicks'
      BY <2>26 DEF Leave, engine, requests, TypePicks
    <3>5. TypeTimers'
      BY <2>26 DEF Leave, engine, requests, TypeTimers
    <3> QED BY <3>1, <3>2, <3>3, <3>4, <3>5
  <2>27. ASSUME NEW i \in Side, ReadyAdmitted(i) PROVE TypeOK'
    <3>1. TypeRun'
      BY <2>27 DEF ReadyAdmitted, engine, requests, TypeRun, Side
    <3>2. TypeFlags'
      BY <2>27 DEF ReadyAdmitted, engine, requests, TypeFlags
    <3>3. TypeSides'
      BY <2>27 DEF ReadyAdmitted, engine, requests, TypeSides
    <3>4. TypePicks'
      BY <2>27 DEF ReadyAdmitted, engine, requests, TypePicks
    <3>5. TypeTimers'
      BY <2>27 DEF ReadyAdmitted, engine, requests, TypeTimers
    <3> QED BY <3>1, <3>2, <3>3, <3>4, <3>5
  <2>28. ASSUME NEW i \in Side, AckReady(i) PROVE TypeOK'
    <3>1. TypeRun'
      BY <2>28 DEF AckReady, engine, requests, TypeRun, Side
    <3>2. TypeFlags'
      BY <2>28 DEF AckReady, engine, requests, TypeFlags
    <3>3. TypeSides'
      BY <2>28 DEF AckReady, engine, requests, TypeSides
    <3>4. TypePicks'
      BY <2>28 DEF AckReady, engine, requests, TypePicks
    <3>5. TypeTimers'
      BY <2>28 DEF AckReady, engine, requests, TypeTimers
    <3> QED BY <3>1, <3>2, <3>3, <3>4, <3>5
  <2>29. ASSUME NEW i \in Side, MoveStamped(i) PROVE TypeOK'
    <3>1. TypeRun'
      BY <2>29 DEF MoveStamped, engine, requests, TypeRun, Side
    <3>2. TypeFlags'
      BY <2>29 DEF MoveStamped, engine, requests, TypeFlags
    <3>3. TypeSides'
      BY <2>29 DEF MoveStamped, engine, requests, TypeSides
    <3>4. TypePicks'
      BY <2>29, StampPost DEF MoveStamped, engine, requests, TypePicks
    <3>5. TypeTimers'
      BY <2>29 DEF MoveStamped, engine, requests, TypeTimers
    <3> QED BY <3>1, <3>2, <3>3, <3>4, <3>5
  <2>30. ASSUME NEW i \in Side, MoveChecked(i) PROVE TypeOK'
    <3>1. TypeRun'
      BY <2>30 DEF MoveChecked, engine, requests, TypeRun, Side
    <3>2. TypeFlags'
      BY <2>30 DEF MoveChecked, engine, requests, TypeFlags
    <3>3. TypeSides'
      BY <2>30 DEF MoveChecked, engine, requests, TypeSides
    <3>4. TypePicks'
      <4>1. post[i] \in Post
        BY <2>30 DEF MoveChecked, TypePicks, NoPost
      <4>2. [post[i] EXCEPT !.stage = "admitted"] \in AnyPost /\ NoPost \in AnyPost
        BY <4>1, AdmitPost DEF AnyPost
      <4>3. post' \in [Side -> AnyPost]
        BY <2>30, <4>2 DEF MoveChecked, TypePicks, AnyPost
      <4> QED BY <2>30, <4>3 DEF MoveChecked, engine, requests, TypePicks, AnyPost
    <3>5. TypeTimers'
      BY <2>30 DEF MoveChecked, engine, TypeTimers
    <3> QED BY <3>1, <3>2, <3>3, <3>4, <3>5
  <2>31. ASSUME NEW i \in Side, MoveSent(i) PROVE TypeOK'
    <3>1. TypeRun'
      BY <2>31 DEF MoveSent, engine, requests, TypeRun, Side
    <3>2. TypeFlags'
      BY <2>31 DEF MoveSent, engine, requests, TypeFlags
    <3>3. TypeSides'
      BY <2>31 DEF MoveSent, engine, requests, TypeSides
    <3>4. TypePicks'
      <4>1. post[i] \in Post
        BY <2>31 DEF MoveSent, TypePicks, NoPost
      <4>2. post[i].pick \in Pick
        BY <4>1, PostPick
      <4>3. chan' \in [Side -> Pick \union {NoPick}]
        BY <2>31, <4>2 DEF MoveSent, TypePicks
      <4> QED BY <2>31, <4>3 DEF MoveSent, engine, requests, TypePicks
    <3>5. TypeTimers'
      BY <2>31 DEF MoveSent, engine, TypeTimers
    <3> QED BY <3>1, <3>2, <3>3, <3>4, <3>5
  <2>32. CASE UNCHANGED vars
    <3>1. TypeRun' /\ TypeTimers'
      BY <2>32 DEF vars, engine, TypeRun, TypeTimers
    <3>2. TypeFlags'
      BY <2>32 DEF vars, engine, requests, TypeFlags
    <3>3. TypeSides'
      BY <2>32 DEF vars, engine, requests, TypeSides
    <3>4. TypePicks'
      BY <2>32 DEF vars, engine, requests, TypePicks
    <3> QED BY <3>1, <3>2, <3>3, <3>4
  <2>33. QED
    BY <2>1, <2>2, <2>3, <2>4, <2>5, <2>6, <2>7, <2>8, <2>9, <2>10, <2>11, <2>12, <2>13,
       <2>14, <2>15, <2>16, <2>17, <2>18, <2>19, <2>20, <2>21, <2>22, <2>23, <2>24,
       <2>25, <2>26, <2>27, <2>28, <2>29, <2>30, <2>31, <2>32 DEF Next, Run, Gate, Round,
       Handler, MoveServed
<1>3. QED
  BY <1>1, <1>2, PTL DEF Spec

-----------------------------------------------------------------------------
(* The score. Where run stands decides how much is known of the tally: nothing *)
(* is reached while a round can still be played, the judged round decides it,  *)
(* and from the frame that ends the match run only goes towards its end.       *)
Unreached == \A i \in Side : win[i] < RoundsTarget
Decided == MatchIsSeries /\ ~DrawEnds
             => \E w \in Side : win[w] = RoundsTarget /\ win[Other(w)] < RoundsTarget
Playing == {"enter", "gate", "select", "opened", "begin", "beats", "shoot", "close",
            "judge", "break"}

PlayingUnreached == pc \in Playing => Unreached
JudgedClosed == pc \in {"judge", "announce"} => phase = "done"
AnnounceSettles == pc = "announce" => IF seriesOver THEN Decided ELSE Unreached
DiscardSettles == pc = "discard" => Unreached \/ phase = "done"
TerminalEnds ==
    \A i \in Side : sent[i] \in Terminal =>
        pc \in {"discard", "exit", "finish", "ended"} /\ (pc = "discard" => phase = "done")
FinalDecided == \A i \in Side : sent[i] = "final" => Decided

ScoreInv == PlayingUnreached /\ JudgedClosed /\ AnnounceSettles /\ DiscardSettles
            /\ TerminalEnds /\ FinalDecided

(* However the picks arrived, judgeRound names one winner at most. *)
LEMMA OneWinner ==
  ASSUME NEW arrive, NEW move
  PROVE  ~(JudgeRound(arrive, move)[0] = "win" /\ JudgeRound(arrive, move)[1] = "win")
  BY DEF JudgeRound, Side

(* A round adds at most one win, so it takes at most one side to the target.   *)
LEMMA JudgeSettles ==
  ASSUME TypeOK, Unreached, Judge
  PROVE  IF seriesOver' THEN Decided' ELSE Unreached'
<1> USE ModeAssumption DEF TypeOK, TypeSides
<1>1. PICK move \in [Side -> Move] :
        LET res == JudgeRound([i \in Side |-> picks[i].arrive], move) IN
        /\ win' = Tally(win, res)
        /\ seriesOver' = SeriesOver(Bot, DrawEnds, RoundsTarget, win', res)
  BY DEF Judge
<1> DEFINE res == JudgeRound([i \in Side |-> picks[i].arrive], move)
<1> HIDE DEF res
<1>2. win' = Tally(win, res) /\ seriesOver' = SeriesOver(Bot, DrawEnds, RoundsTarget,
win', res)
  BY <1>1 DEF res
<1>3. ~(res[0] = "win" /\ res[1] = "win")
  BY OneWinner DEF res
<1>4. \A i \in Side : win'[i] = IF res[i] = "win" THEN win[i] + 1 ELSE win[i]
  BY <1>2 DEF Tally
<1>5. CASE \A i \in Side : win'[i] < RoundsTarget
  <2>1. ASSUME seriesOver', MatchIsSeries, ~DrawEnds PROVE FALSE
    <3>1. SeriesOver(Bot, DrawEnds, RoundsTarget, win', res)
      BY <1>2, <2>1
    <3>2. \E i \in Side : win'[i] >= RoundsTarget
      BY <2>1, <3>1 DEF SeriesOver, MatchIsSeries
    <3>3. \A i \in Side : win'[i] \in Nat
      BY <1>4
    <3> QED BY <1>5, <3>2, <3>3
  <2> QED BY <1>5, <2>1 DEF Unreached, Decided
<1>6. CASE \E w \in Side : ~(win'[w] < RoundsTarget)
  <2>1. PICK w \in Side : ~(win'[w] < RoundsTarget)
    BY <1>6
  <2>2. win[w] \in Nat /\ win[w] < RoundsTarget /\ win[Other(w)] < RoundsTarget
    BY <2>1 DEF Unreached, Side, Other
  <2>3. win'[w] = RoundsTarget /\ res[w] = "win"
    BY <1>4, <2>1, <2>2
  <2>4. win'[Other(w)] < RoundsTarget
    BY <1>3, <1>4, <2>2, <2>3 DEF Side, Other
  <2>5. win'[w] >= RoundsTarget
    BY <2>3
  <2>6. seriesOver'
    BY <1>2, <2>5 DEF SeriesOver
  <2> QED BY <2>3, <2>4, <2>6 DEF Decided
<1> QED BY <1>5, <1>6

(* What a departure's abort leaves behind *)
LEMMA AbortEnds ==
  ASSUME TypeOK, ScoreInv, Abort, pc \notin {"discard", "exit", "finish", "ended"},
         UNCHANGED win
  PROVE  ScoreInv'
<1>1. pc' = "exit"
  BY DEF Abort
<1>2. \A i \in Side : sent[i] \notin Terminal
  BY DEF ScoreInv, TerminalEnds
<1>3. \A i \in Side : sent'[i] # "final"
  BY <1>2 DEF Abort, Emit, Terminal, TypeOK, TypeSides
<1> QED BY <1>1, <1>3 DEF ScoreInv, PlayingUnreached, Playing, JudgedClosed,
AnnounceSettles,
            DiscardSettles, TerminalEnds, FinalDecided

LEMMA ScoreStep == TypeOK /\ ScoreInv /\ [Next]_vars => ScoreInv'
<1> SUFFICES ASSUME TypeOK, ScoreInv, [Next]_vars PROVE ScoreInv'
  OBVIOUS
<1> USE DEF ScoreInv, PlayingUnreached, Playing, JudgedClosed, AnnounceSettles,
            DiscardSettles, TerminalEnds, FinalDecided
<1>1. CASE Enter
  <2>1. CASE Abort
    BY <1>1, <2>1, AbortEnds DEF Enter
  <2>2. CASE pc' = "gate" /\ Emit(Human, "matched")
    BY <1>1, <2>2 DEF Enter, Emit, Unreached, Terminal, TypeOK, TypeSides
  <2> QED BY <1>1, <2>1, <2>2 DEF Enter
<1>2. CASE GateCheck
  BY <1>2 DEF GateCheck, Unreached, Decided
<1>3. CASE GateWake
  BY <1>3 DEF GateWake, Unreached, Decided
<1>4. CASE GateExpires
  BY <1>4 DEF GateExpires, GateExpired, Advanced, Unreached, Decided
<1>5. CASE SettleFirst
  <2>1. pc' \in {"settle2", "exit"}
    BY <1>5 DEF SettleFirst
  <2>2. \A i \in Side : sent[i] \notin Terminal
    BY <1>5 DEF SettleFirst
  <2>3. \A k \in Side : sent'[k] # "final" /\ (pc' # "exit" => sent'[k] = sent[k])
    BY <1>5, <2>2 DEF SettleFirst, ForfeitWin, Terminal, TypeOK, TypeSides
  <2> QED BY <2>1, <2>2, <2>3
<1>6. CASE SettleSecond
  <2>1. pc' = "exit"
    BY <1>6 DEF SettleSecond
  <2>2. \A i \in Side : sent[i] \notin Terminal
    BY <1>6 DEF SettleSecond
  <2>3. \A k \in Side : sent'[k] # "final" /\ (pc' # "exit" => sent'[k] = sent[k])
    BY <1>6, <2>2 DEF SettleSecond, ForfeitWin, Terminal, TypeOK, TypeSides
  <2> QED BY <2>1, <2>2, <2>3
<1>7. CASE GateOpened
  BY <1>7 DEF GateOpened, Advanced, Unreached, Decided
<1>8. CASE Begin
  <2>1. CASE Abort
    BY <1>8, <2>1, AbortEnds DEF Begin
  <2>2. CASE pc' = "beats" /\ UNCHANGED <<phase, sent>>
    <3>1. pc = "begin" /\ UNCHANGED win
      BY <1>8 DEF Begin
    <3> QED BY <2>2, <3>1 DEF Unreached, Terminal
  <2> QED BY <1>8, <2>1, <2>2 DEF Begin
<1>9. CASE Beat
  BY <1>9 DEF Beat, Emit, Terminal, TypeOK, TypeSides, Unreached, Decided
<1>10. CASE BeatsLeave
  BY <1>10, AbortEnds DEF BeatsLeave
<1>11. CASE Pun
  BY <1>11 DEF Pun, Emit, Terminal, Advanced, TypeOK, TypeSides, Unreached, Decided
<1>12. CASE Deadline
  BY <1>12 DEF Deadline, Unreached, Decided
<1>13. CASE ShootLeave
  BY <1>13, AbortEnds DEF ShootLeave
<1>14. CASE Close
  BY <1>14 DEF Close, Advanced, Unreached, Decided
<1>15. CASE Judge
  <2>1. IF seriesOver' THEN Decided' ELSE Unreached'
    BY <1>15, JudgeSettles DEF Judge
  <2>2. pc' = "announce" /\ UNCHANGED <<phase, sent>> /\ pc = "judge"
    BY <1>15 DEF Judge
  <2> QED BY <2>1, <2>2 DEF Terminal
<1>16. CASE Announce
  <2>1. phase' = "done" /\ UNCHANGED <<win, seriesOver>> /\ pc = "announce"
    BY <1>16 DEF Announce
  <2>2. \A i \in Side : sent[i] \notin Terminal
    BY <2>1
  <2>3. CASE seriesOver
    <3>1. pc' = "discard" /\ Decided'
      BY <1>16, <2>1, <2>3 DEF Announce, AfterResult, Decided
    <3> QED BY <2>1, <3>1
  <2>4. CASE ~seriesOver
    <3>1. pc' = "break" /\ Unreached'
      BY <1>16, <2>1, <2>4 DEF Announce, AfterResult, Pause, Unreached
    <3>2. \A i \in Side : sent'[i] \notin Terminal
      BY <1>16, <2>2, <2>4 DEF Announce, Emit, Terminal, TypeOK, TypeSides
    <3> QED BY <2>1, <3>1, <3>2 DEF Terminal
  <2> QED BY <2>3, <2>4
<1>17. CASE BreakEnds
  BY <1>17 DEF BreakEnds, Advanced, Unreached, Decided
<1>18. CASE Discard
  BY <1>18 DEF Discard, Unreached, Decided
<1>19. CASE Exit
  BY <1>19 DEF Exit, Unreached, Decided
<1>20. CASE Finish
  <2>1. pc' = "ended"
    BY <1>20 DEF Finish
  <2>2. \A i \in Side : sent'[i] = "final" => sent[i] = "final"
    BY <1>20 DEF Finish, Emit, TypeOK, TypeSides
  <2> QED BY <1>20, <2>1, <2>2 DEF Finish, Decided
<1>21. ASSUME NEW j \in Side, GateLeave(j) PROVE ScoreInv'
  <2>1. pc' = "exit"
    BY <1>21 DEF GateLeave
  <2>2. \A i \in Side : sent[i] \notin Terminal
    BY <1>21 DEF GateLeave
  <2>3. \A k \in Side : sent'[k] # "final" /\ (pc' # "exit" => sent'[k] = sent[k])
    BY <1>21, <2>2 DEF GateLeave, ForfeitWin, Terminal, TypeOK, TypeSides
  <2> QED BY <2>1, <2>2, <2>3
<1>22. ASSUME NEW j \in Side, Take(j) PROVE ScoreInv'
  BY <1>22 DEF Take, Unreached, Decided
<1>23. CASE UNCHANGED <<phase, pc, win, seriesOver, sent>>
  BY <1>23 DEF Unreached, Decided
<1>24. (\E i \in Side : Leave(i) \/ ReadyAdmitted(i) \/ MoveStamped(i) \/ Handler(i))
        \/ BotThrows \/ BotGivesUp \/ Tick \/ UNCHANGED vars
       => UNCHANGED <<phase, pc, win, seriesOver, sent>>
  BY DEF Leave, ReadyAdmitted, MoveStamped, Handler, MoveServed, AckReady, MoveChecked, MoveSent,
     BotThrows,
         BotGivesUp, Tick, vars, engine, requests
<1> QED
  BY <1>1, <1>2, <1>3, <1>4, <1>5, <1>6, <1>7, <1>8, <1>9, <1>10, <1>11, <1>12, <1>13,
     <1>14, <1>15, <1>16, <1>17, <1>18, <1>19, <1>20, <1>21, <1>22, <1>23,
     <1>24 DEF Next, Run, Gate, Round

LEMMA ScoreInit == Init => ScoreInv
<1> SUFFICES ASSUME Init PROVE ScoreInv
  OBVIOUS
<1>1. Unreached
  <2>1. \A i \in Side : win[i] = 0
    BY DEF Init
  <2>2. RoundsTarget \in Nat /\ 0 < RoundsTarget
    BY ModeAssumption
  <2> QED BY <2>1, <2>2 DEF Unreached
<1>2. pc = "enter" /\ \A i \in Side : sent[i] = "none"
  BY DEF Init
<1> QED
  BY <1>1, <1>2 DEF ScoreInv, PlayingUnreached, JudgedClosed, AnnounceSettles,
     DiscardSettles, TerminalEnds, FinalDecided, Terminal

(* Nothing is played once a side has the wins that take the series, and a      *)
(* series that replays draws is announced over only with one side at target.   *)
THEOREM ScoreIsDecided == Spec => []ScoreDecides
<1>1. Init => ScoreInv
  BY ScoreInit
<1>2. ScoreInv => ScoreDecides
  BY DEF ScoreInv, PlayingUnreached, Playing, Unreached, FinalDecided, Decided, ScoreDecides
<1> QED
  BY <1>1, <1>2, ScoreStep, TypeCorrect, PTL DEF Spec

(* The frame that tells a side how the match ended is the last one it gets but *)
(* for the return to idle: abort, forfeit and a decided round all lead run     *)
(* straight to its end.                                                        *)
THEOREM TerminalStaysLast == Spec => TerminalIsLast
<1>1. Init => ScoreInv
  BY ScoreInit
<1>2. TypeOK /\ ScoreInv /\ [Next]_vars
        => [\A i \in Side : sent[i] \in Terminal => sent'[i] \in {sent[i], "idle"}]_vars
  <2> SUFFICES ASSUME TypeOK, ScoreInv, [Next]_vars, NEW i \in Side, sent[i] \in Terminal
               PROVE  sent'[i] \in {sent[i], "idle"}
    OBVIOUS
  <2>1. pc \in {"discard", "exit", "finish", "ended"}
    BY DEF ScoreInv, TerminalEnds
  <2>2. CASE Finish
    BY <2>2 DEF Finish, Emit, TypeOK, TypeSides
  <2>3. CASE Discard \/ Exit
    BY <2>3 DEF Discard, Exit
  <2>4. Run => Discard \/ Exit \/ Finish
    BY <2>1 DEF Run, Gate, Round, Enter, GateCheck, GateWake, GateExpires, GateExpired,
       SettleFirst, SettleSecond, GateLeave, GateOpened, Begin, Beat, BeatsLeave, Pun, Take,
       Deadline, ShootLeave, Close, Judge, Announce, BreakEnds
  <2>5. ~Run => UNCHANGED sent
    BY DEF Next, Leave, ReadyAdmitted, MoveStamped, Handler, MoveServed, AckReady, MoveChecked,
       MoveSent,
       BotThrows, BotGivesUp, Tick, vars, engine, requests
  <2> QED BY <2>2, <2>3, <2>4, <2>5
<1> QED
  BY <1>1, <1>2, ScoreStep, TypeCorrect, PTL DEF Spec, TerminalIsLast
-----------------------------------------------------------------------------
(* What a pick is worth, and in which round: theorems about the windows of the *)
(* engine, for every pacing with room for a request to finish in.               *)
(* Only four steps of run touch the picks of a round.                          *)
LEMMA PicksMove ==
  ASSUME [Next]_vars, picks' # picks
  PROVE  \/ Begin \/ Judge \/ Deadline \/ \E i \in Side : Take(i)
  BY DEF Next, Run, Gate, Round, Enter, GateCheck, GateWake, GateExpires, SettleFirst, SettleSecond,
     GateLeave, GateOpened, Beat, BeatsLeave, Pun, ShootLeave, Close, Announce, BreakEnds,
     Discard, Exit, Finish, Leave, ReadyAdmitted, MoveStamped, Handler, MoveServed, AckReady,
     MoveChecked, MoveSent, BotThrows, BotGivesUp, Tick, vars, engine, requests

(* While the window is open the pick that came first stands: playRound and     *)
(* drainPending look whether a side has one before they take another.          *)
THEOREM FirstPickStays == Spec => FirstPickStands
<1>1. TypeOK /\ [Next]_vars
        => [\A i \in Side : pc = "shoot" /\ picks[i] # NoPick => picks'[i] = picks[i]]_vars
  <2> SUFFICES ASSUME TypeOK, [Next]_vars, NEW i \in Side, pc = "shoot", picks[i] # NoPick
               PROVE  picks'[i] = picks[i]
    OBVIOUS
  <2>1. CASE \E j \in Side : Take(j)
    BY <2>1 DEF Take, Counted, TypeOK, TypePicks
  <2>2. CASE Deadline
    BY <2>2 DEF Deadline, Drained
  <2> QED BY <2>1, <2>2, PicksMove DEF Begin, Judge
<1> QED BY <1>1, TypeCorrect, PTL DEF Spec, FirstPickStands

(* A pick buffered when the window closes is part of the round: the second     *)
(* pick leaves nothing to be counted, the deadline drains the channels.        *)
THEOREM NoTapIsLost == Spec => NoLostTap
<1>1. TypeOK /\ [Next]_vars
        => [pc = "shoot" /\ pc' = "close" => \A i \in Side : picks'[i] = NoPick => chan[i] = NoPick]_vars
  <2> SUFFICES ASSUME TypeOK, [Next]_vars, pc = "shoot", pc' = "close", NEW i \in Side,
                      picks'[i] = NoPick
               PROVE  chan[i] = NoPick
    OBVIOUS
  <2>1. CASE \E j \in Side : Take(j)
    BY <2>1 DEF Take
  <2>2. CASE Deadline
    BY <2>2 DEF Deadline, Drained
  <2>3. (\E j \in Side : Take(j)) \/ Deadline
    BY DEF Next, Run, Gate, Round, Enter, GateCheck, GateWake, GateExpires, GateExpired, SettleFirst,
       SettleSecond, GateLeave, GateOpened, Begin, Beat, BeatsLeave, Pun, ShootLeave, Abort, Close,
       Judge, Announce, BreakEnds, Discard, Exit, Finish, Leave, ReadyAdmitted, MoveStamped,
       Handler, MoveServed, AckReady, MoveChecked, MoveSent, BotThrows, BotGivesUp, Tick, vars,
       engine, requests
  <2> QED BY <2>1, <2>2, <2>3
<1> QED BY <1>1, TypeCorrect, PTL DEF Spec, NoLostTap

-----------------------------------------------------------------------------
(* No pick is scored in a foreign round. Between the close of one window and   *)
(* the next countdown lies the pause, and between a schedule and its window    *)
(* the countdown: a /move that takes less than either cannot carry a pick      *)
(* across. The invariant measures each request in flight against the timer it  *)
(* would have to outlive. A departure cuts the pause short, and then no later  *)
(* window opens: what is said of the next round is said while both are there.  *)
Due(k) == k.of \in {"this", "none"}
Admitted(i) == post[i].stage = "admitted"

Schedule ==
    /\ phase = "preparing" => ~scored
    /\ pc = "enter" => phase = "preparing"
    /\ pc \in {"enter", "gate", "select", "opened", "begin"} /\ ~scored => scheduled = FALSE
    /\ pc \in {"beats", "shoot", "close", "judge", "announce", "break"} => scheduled = TRUE
    /\ pc \in {"break", "discard"} => scored
    /\ pc = "shoot" => phase = "shoot"
    /\ pc \in {"announce", "break"} => \A i \in Side : picks[i] = NoPick
    /\ pc \in {"judge", "announce", "break"} => phase = "done"
    /\ pc \in {"gate", "select", "opened"} => phase \in {"preparing", "countdown"}
    /\ pc \in {"begin", "beats"} => phase = "countdown"
FirstRound ==
    ~scored => \A i \in Side :
        /\ chan[i].of # "past" /\ post[i].pick.of # "past"
        /\ scheduled = FALSE => chan[i].of # "this" /\ post[i].pick.of # "this"
PauseOutlives ==
    pc = "break" /\ ~SomeoneLeft =>
        /\ thinking => timer = SeriesBreak
        /\ \A i \in Side : Admitted(i) => post[i].age + timer >= SeriesBreak
Settled ==
    scored /\ ~SomeoneLeft =>
        /\ (pc = "discard" /\ phase = "countdown") \/ pc \in {"gate", "select", "opened", "begin", "beats"}
             => ~thinking /\ \A i \in Side : ~Admitted(i)
        /\ pc \in {"gate", "select", "opened", "begin", "beats"} => \A i \in Side : chan[i] = NoPick
CountdownOutlives ==
    scored /\ ~SomeoneLeft /\ pc = "beats" =>
        \A i \in Side : Due(post[i].pick) \/ post[i].age + shootIn >= CountSlots
WindowDue ==
    scored /\ pc = "shoot" => \A i \in Side : Due(post[i].pick) /\ Due(chan[i])

RoundInv == Schedule /\ FirstRound /\ PauseOutlives /\ Settled /\ CountdownOutlives /\ WindowDue
            /\ NoForeignPick

LEMMA RoundInit == Init => RoundInv
<1> SUFFICES ASSUME Init PROVE RoundInv
  OBVIOUS
<1>1. /\ pc = "enter" /\ phase = "preparing" /\ scored = FALSE /\ scheduled = FALSE
      /\ \A i \in Side : picks[i] = NoPick /\ chan[i] = NoPick /\ post[i] = NoPost
  BY DEF Init
<1>2. NoPick.of = "none" /\ NoPost.pick.of = "none"
  BY DEF NoPick, NoPost
<1> QED
  BY <1>1, <1>2 DEF RoundInv, Schedule, FirstRound, PauseOutlives, Settled, CountdownOutlives,
     WindowDue, NoForeignPick

(* What a schedule does to the picks stamped before it *)
LEMMA RebaseOf ==
  ASSUME NEW k \in AnyPick
  PROVE  /\ Rebase(k).of \in {"none", "opening", "past"}
         /\ k.of = "opening" => Rebase(k).of = "opening"
         /\ k.of = "none" => Rebase(k).of = "none"
         /\ Rebase(NoPick) = NoPick
  BY DEF AnyPick, Rebase, Pick, NoPick

LEMMA PostAge ==
  ASSUME TypeOK, NEW i \in Side
  PROVE  /\ post[i] \in AnyPost /\ chan[i] \in AnyPick /\ picks[i] \in AnyPick
         /\ post[i].pick \in AnyPick
         /\ post[i].age \in Nat /\ post[i].age <= Latency
  BY PacingAssumption DEF TypeOK, TypePicks, AnyPost, AnyPick, Post, NoPost

(* Most steps of run leave the picks and the requests alone: where run goes is *)
(* all there is to see, and it goes nowhere the invariant has more to say.     *)
Untouched == UNCHANGED <<scored, scheduled, shootIn, picks, chan, post, thinking, left>>

LEMMA UntouchedKeeps ==
  ASSUME TypeOK, RoundInv, Untouched, Schedule',
         \/ pc' \in {"settle", "settle2", "exit", "finish", "ended", "close", "judge"}
         \/ pc' = pc /\ timer' = timer /\ phase' = phase
         \/ pc \in {"gate", "select", "opened"} /\ pc' \in {"gate", "select", "opened", "begin"}
         \/ ~scored /\ pc' # "break"
  PROVE  RoundInv'
<1>1. SomeoneLeft' = SomeoneLeft /\ \A i \in Side : Admitted(i)' = Admitted(i)
  BY DEF Untouched, SomeoneLeft, Admitted
<1>2. FirstRound' /\ NoForeignPick'
  BY DEF Untouched, RoundInv, FirstRound, NoForeignPick
<1>3. PauseOutlives'
  BY <1>1 DEF Untouched, RoundInv, PauseOutlives, Schedule
<1>4. Settled'
  BY <1>1 DEF Untouched, RoundInv, Settled
<1>5. CountdownOutlives' /\ WindowDue'
  BY <1>1 DEF Untouched, RoundInv, CountdownOutlives, WindowDue, Due
<1> QED BY <1>2, <1>3, <1>4, <1>5 DEF RoundInv

LEMMA QuietRun ==
  ASSUME TypeOK, RoundInv,
         \/ Enter \/ GateCheck \/ GateWake \/ GateExpires \/ SettleFirst \/ SettleSecond
         \/ GateOpened \/ (\E j \in Side : GateLeave(j)) \/ Beat \/ BeatsLeave \/ ShootLeave \/ Close
         \/ Exit
  PROVE  RoundInv'
<1> USE DEF Untouched, engine, requests
<1> USE DEF RoundInv, Schedule
<1>1. CASE Enter
  <2>1. /\ pc = "enter" /\ phase = "preparing" /\ ~scored /\ scheduled = FALSE
        /\ Untouched
    BY <1>1 DEF Enter
  <2>2. CASE Abort
    BY <1>1, <2>1, <2>2, UntouchedKeeps DEF Enter, Abort
  <2>3. CASE pc' = "gate" /\ UNCHANGED phase
    <3>1. Schedule'
      BY <2>1, <2>3
    <3> QED BY <2>1, <2>3, <3>1, UntouchedKeeps
  <2> QED BY <1>1, <2>2, <2>3 DEF Enter
<1>2. CASE GateCheck \/ GateWake
  <2>1. /\ Untouched /\ UNCHANGED phase
        /\ pc \in {"gate", "select"} /\ pc' \in {"gate", "select", "opened"}
    BY <1>2 DEF GateCheck, GateWake
  <2> QED BY <2>1, UntouchedKeeps
<1>3. CASE GateExpires
  BY <1>3, UntouchedKeeps DEF GateExpires, GateExpired, Advanced
<1>4. CASE SettleFirst \/ SettleSecond
  <2>1. Untouched /\ UNCHANGED phase /\ pc' \in {"settle2", "exit"}
    BY <1>4 DEF SettleFirst, SettleSecond
  <2> QED BY <2>1, UntouchedKeeps
<1>5. CASE GateOpened
  BY <1>5, UntouchedKeeps DEF GateOpened, Advanced
<1>6. CASE \E j \in Side : GateLeave(j)
  <2>1. PICK j \in Side : GateLeave(j)
    BY <1>6
  <2>2. Untouched /\ pc' = "exit" /\ phase' \in {phase, "done"}
    BY <2>1 DEF GateLeave, Advanced
  <2> QED BY <2>2, UntouchedKeeps
<1>7. CASE Beat
  BY <1>7, UntouchedKeeps DEF Beat
<1>8. CASE BeatsLeave \/ ShootLeave
  BY <1>8, UntouchedKeeps DEF BeatsLeave, ShootLeave, Abort
<1>9. CASE Close
  BY <1>9, UntouchedKeeps DEF Close, Advanced
<1>10. CASE Exit
  BY <1>10, UntouchedKeeps DEF Exit
<1> QED BY <1>1, <1>2, <1>3, <1>4, <1>5, <1>6, <1>7, <1>8, <1>9, <1>10

-----------------------------------------------------------------------------
(* The requests. Only the opening handshake and an open window let a pick in.  *)
LEMMA Requests ==
  ASSUME TypeOK, RoundInv, NEW j \in Side,
         MoveStamped(j) \/ MoveChecked(j) \/ MoveSent(j) \/ ReadyAdmitted(j) \/ AckReady(j)
  PROVE  RoundInv'
<1> USE DEF engine, requests
<1> DEFINE Same == UNCHANGED <<pc, phase, timer, scored, scheduled, shootIn, picks, thinking, left>>
<1>0. Same
  BY DEF MoveStamped, MoveChecked, MoveSent, ReadyAdmitted, AckReady
<1>1. Schedule' /\ NoForeignPick' /\ SomeoneLeft' = SomeoneLeft
  BY <1>0 DEF RoundInv, Schedule, NoForeignPick, SomeoneLeft
<1> HIDE DEF Same
<1>2. CASE ReadyAdmitted(j) \/ AckReady(j)
  <2>1. Same /\ UNCHANGED <<chan, post>>
    BY <1>0, <1>2 DEF ReadyAdmitted, AckReady
  <2> QED BY <1>1, <2>1 DEF Same, RoundInv, FirstRound, PauseOutlives, Settled, CountdownOutlives,
          WindowDue, Due, Admitted
<1>3. CASE MoveStamped(j)
  <2>1. /\ chan' = chan /\ \A i \in Side \ {j} : post'[i] = post[i]
        /\ post'[j] = [stage |-> "stamped", pick |-> Stamp, age |-> 0]
    BY <1>3 DEF MoveStamped, TypeOK, TypePicks
  <2>2. /\ Stamp.of = IF scheduled THEN "this" ELSE IF scored THEN "past" ELSE "opening"
        /\ post'[j].stage = "stamped" /\ post'[j].pick = Stamp /\ post'[j].age = 0
    BY <2>1 DEF Stamp
  <2>3. \A i \in Side : Admitted(i)' => Admitted(i) /\ post'[i] = post[i]
    BY <2>1, <2>2 DEF Admitted
  <2>4. FirstRound'
    BY <1>0, <2>1, <2>2 DEF Same, RoundInv, FirstRound
  <2>5. PauseOutlives' /\ Settled'
    BY <1>0, <1>1, <2>1, <2>3 DEF Same, RoundInv, PauseOutlives, Settled
  <2>6. CountdownOutlives' /\ WindowDue'
    <3>1. scheduled = TRUE => Due(post'[j].pick)
      BY <2>2 DEF Due
    <3> QED BY <1>0, <1>1, <2>1, <3>1 DEF Same, RoundInv, CountdownOutlives, WindowDue, Schedule, Due
  <2> QED BY <1>1, <2>4, <2>5, <2>6 DEF RoundInv
<1>4. CASE MoveChecked(j)
  <2>1. /\ chan' = chan /\ \A i \in Side \ {j} : post'[i] = post[i]
        /\ post'[j] = NoPost \/ (phase \in {"preparing", "shoot"} /\ post'[j].pick = post[j].pick
                                 /\ post'[j].age = post[j].age /\ post'[j].stage = "admitted")
    <3>1. post[j] \in Post
      BY <1>4, PostAge DEF MoveChecked, AnyPost, NoPost
    <3>2. post'[j] = NoPost \/ (phase \in {"preparing", "shoot"}
                                /\ post'[j] = [post[j] EXCEPT !.stage = "admitted"])
      BY <1>4 DEF MoveChecked, TypeOK, TypePicks
    <3> QED BY <1>4, <3>1, <3>2 DEF MoveChecked, TypeOK, TypePicks, Post
  <2>2. NoPost.pick.of = "none" /\ NoPost.stage = "none"
    BY DEF NoPost, NoPick
  <2>3. FirstRound'
    BY <1>0, <2>1, <2>2 DEF Same, RoundInv, FirstRound
  <2>4. PauseOutlives' /\ Settled'
    BY <1>0, <1>1, <2>1, <2>2 DEF Same, RoundInv, PauseOutlives, Settled, Schedule, Admitted
  <2>5. CountdownOutlives' /\ WindowDue'
    BY <1>0, <1>1, <2>1, <2>2 DEF Same, RoundInv, CountdownOutlives, WindowDue, Due
  <2> QED BY <1>1, <2>3, <2>4, <2>5 DEF RoundInv
<1>5. CASE MoveSent(j)
  <2>1. /\ Admitted(j) /\ \A i \in Side \ {j} : post'[i] = post[i] /\ chan'[i] = chan[i]
        /\ post'[j] = NoPost /\ chan'[j] \in {chan[j], post[j].pick}
    BY <1>5 DEF MoveSent, Admitted, TypeOK, TypePicks
  <2>2. NoPost.pick.of = "none" /\ NoPost.stage = "none"
    BY DEF NoPost, NoPick
  <2>3. FirstRound'
    BY <1>0, <2>1, <2>2 DEF Same, RoundInv, FirstRound
  <2>4. PauseOutlives' /\ Settled'
    BY <1>0, <1>1, <2>1, <2>2 DEF Same, RoundInv, PauseOutlives, Settled, Schedule, Admitted
  <2>5. CountdownOutlives' /\ WindowDue'
    BY <1>0, <1>1, <2>1, <2>2 DEF Same, RoundInv, CountdownOutlives, WindowDue, Due
  <2> QED BY <1>1, <2>3, <2>4, <2>5 DEF RoundInv
<1> QED BY <1>2, <1>3, <1>4, <1>5

LEMMA BotActs ==
  ASSUME TypeOK, RoundInv, BotThrows \/ BotGivesUp
  PROVE  RoundInv'
<1> USE DEF engine, requests
<1>1. UNCHANGED <<pc, phase, timer, scored, scheduled, shootIn, picks, left, post>> /\ ~thinking'
  BY DEF BotThrows, BotGivesUp
<1>2. chan'[0] = chan[0] /\ chan'[1] \in {chan[1], Stamp}
      /\ (chan'[1] # chan[1] => thinking) /\ 1 \in Side /\ \A i \in Side : i = 0 \/ i = 1
  BY DEF BotThrows, BotGivesUp, TypeOK, TypePicks, Side
<1>3. Stamp.of = IF scheduled THEN "this" ELSE IF scored THEN "past" ELSE "opening"
  BY DEF Stamp
<1>4. SomeoneLeft' = SomeoneLeft /\ \A i \in Side : Admitted(i)' = Admitted(i)
  BY <1>1 DEF SomeoneLeft, Admitted
<1>5. Schedule' /\ NoForeignPick'
  BY <1>1 DEF RoundInv, Schedule, NoForeignPick
<1>6. FirstRound'
  BY <1>1, <1>2, <1>3 DEF RoundInv, FirstRound
<1>7. PauseOutlives' /\ Settled'
  BY <1>1, <1>2, <1>4 DEF RoundInv, PauseOutlives, Settled
<1>8. CountdownOutlives' /\ WindowDue'
  BY <1>1, <1>2, <1>3, <1>4 DEF RoundInv, CountdownOutlives, WindowDue, Due, Schedule
<1> QED BY <1>5, <1>6, <1>7, <1>8 DEF RoundInv

LEMMA Departs ==
  ASSUME TypeOK, RoundInv, NEW j \in Side, Leave(j)
  PROVE  RoundInv'
<1>1. SomeoneLeft' /\ UNCHANGED <<engine, requests>>
  BY DEF Leave, SomeoneLeft, TypeOK, TypeSides
<1> QED
  BY <1>1 DEF engine, requests, RoundInv, Schedule, FirstRound, PauseOutlives, Settled,
     CountdownOutlives, WindowDue, Due, NoForeignPick

(* Time: what waits for the timer ages with it. *)
LEMMA TimePasses ==
  ASSUME TypeOK, RoundInv, Tick
  PROVE  RoundInv'
<1>1. UNCHANGED <<pc, phase, scored, scheduled, picks, left, chan, thinking>> /\ ~thinking
  BY DEF Tick
<1>2. \A i \in Side : \/ post[i] = NoPost /\ post'[i] = NoPost
                      \/ /\ post'[i].stage = post[i].stage /\ post'[i].pick = post[i].pick
                         /\ post'[i].age = post[i].age + 1
  BY DEF Tick, TypeOK, TypePicks, Post
<1>3. NoPost.pick.of = "none" /\ NoPost.stage = "none"
  BY DEF NoPost, NoPick
<1>4. /\ timer' = IF timer > 0 THEN timer - 1 ELSE 0
      /\ timer \in Nat /\ \A i \in Side : post[i].age \in Nat
  BY PostAge DEF Tick, TypeOK, TypeTimers
<1>5. shootIn' \in {shootIn, shootIn - 1} /\ shootIn \in Int /\ CountSlots \in Int
  BY PacingAssumption DEF Tick, TypeOK, TypeTimers
<1>6. SomeoneLeft' = SomeoneLeft /\ \A i \in Side : Admitted(i)' = Admitted(i)
  BY <1>1, <1>2 DEF SomeoneLeft, Admitted
<1>7. Schedule' /\ NoForeignPick'
  BY <1>1 DEF RoundInv, Schedule, NoForeignPick
<1>8. FirstRound'
  BY <1>1, <1>2, <1>3 DEF RoundInv, FirstRound
<1>9. PauseOutlives'
  <2>1. ASSUME NEW i \in Side, Admitted(i), post[i].age + timer >= SeriesBreak
        PROVE  post'[i].age + timer' >= SeriesBreak
    <3>1. post'[i].age = post[i].age + 1
      BY <1>2, <1>3, <2>1 DEF Admitted
    <3> QED BY <1>4, <2>1, <3>1, PacingAssumption
  <2> QED BY <1>1, <1>6, <2>1 DEF RoundInv, PauseOutlives
<1>10. Settled'
  BY <1>1, <1>6 DEF RoundInv, Settled
<1>11. CountdownOutlives'
  <2>1. ASSUME NEW i \in Side, post[i].age + shootIn >= CountSlots
        PROVE  Due(post'[i].pick) \/ post'[i].age + shootIn' >= CountSlots
    BY <1>2, <1>3, <1>4, <1>5, <2>1 DEF Due
  <2>2. \A i \in Side : Due(post[i].pick) => Due(post'[i].pick)
    BY <1>2 DEF Due
  <2> QED BY <1>1, <1>6, <2>1, <2>2 DEF RoundInv, CountdownOutlives
<1>12. WindowDue'
  BY <1>1, <1>2 DEF RoundInv, WindowDue, Due
<1> QED BY <1>7, <1>8, <1>9, <1>10, <1>11, <1>12 DEF RoundInv

-----------------------------------------------------------------------------
(* The steps of a round. *)
LEMMA Begins ==
  ASSUME TypeOK, RoundInv, Begin
  PROVE  RoundInv'
<1>1. /\ pc = "begin" /\ pc' \in {"beats", "exit"} /\ phase' \in {phase, "done"}
      /\ (pc' = "beats" => phase' = phase) /\ (pc' = "exit" => phase' = "done")
      /\ UNCHANGED <<scored, left, thinking>>
      /\ scheduled' = TRUE /\ shootIn' = CountSlots
      /\ \A i \in Side : /\ picks'[i] = NoPick /\ chan'[i] = Rebase(chan[i])
                         /\ post'[i] = [post[i] EXCEPT !.pick = Rebase(post[i].pick)]
  <2>1. /\ pc = "begin" /\ UNCHANGED <<scored, left, thinking>>
        /\ scheduled' = TRUE /\ shootIn' = CountSlots
        /\ picks' = [i \in Side |-> NoPick] /\ chan' = [i \in Side |-> Rebase(chan[i])]
        /\ post' = [i \in Side |-> [post[i] EXCEPT !.pick = Rebase(@)]]
    BY DEF Begin
  <2>2. CASE Abort
    <3>1. pc' = "exit" /\ phase' \in {phase, "done"} /\ phase = "countdown"
      BY <2>1, <2>2 DEF Abort, RoundInv, Schedule
    <3> QED BY <2>1, <2>2, <3>1 DEF Abort
  <2>3. CASE pc' = "beats" /\ UNCHANGED <<phase, sent>>
    BY <2>1, <2>3
  <2> QED BY <2>2, <2>3 DEF Begin
<1>2. \A i \in Side : /\ post'[i].stage = post[i].stage /\ post'[i].age = post[i].age
                      /\ post'[i].pick = Rebase(post[i].pick)
  BY <1>1, PostAge DEF AnyPost, Post, NoPost
<1>3. SomeoneLeft' = SomeoneLeft /\ \A i \in Side : Admitted(i)' = Admitted(i)
  BY <1>1, <1>2 DEF SomeoneLeft, Admitted
<1>4. phase = "countdown" /\ (~scored => scheduled = FALSE)
  BY <1>1 DEF RoundInv, Schedule
<1>5. Schedule'
  BY <1>1, <1>4 DEF Schedule
<1>6. NoForeignPick'
  <2>1. NoPick.of = "none"
    BY DEF NoPick
  <2>2. \A i \in Side : picks'[i].of = "none"
    BY <1>1, <2>1
  <2> QED BY <2>2 DEF NoForeignPick
<1>7. FirstRound'
  <2> SUFFICES ASSUME ~scored, NEW i \in Side
               PROVE  chan'[i].of # "past" /\ post'[i].pick.of # "past"
    BY <1>1 DEF FirstRound
  <2>1. chan[i].of \in {"opening", "none"} /\ post[i].pick.of \in {"opening", "none"}
    <3>1. chan[i] \in AnyPick /\ post[i].pick \in AnyPick
      BY PostAge
    <3> QED BY <3>1, <1>4 DEF RoundInv, FirstRound, AnyPick, Pick, NoPick
  <2> QED BY <1>1, <1>2, <2>1, RebaseOf, PostAge
<1>8. PauseOutlives' /\ WindowDue'
  BY <1>1 DEF PauseOutlives, WindowDue
<1>9. Settled'
  <2>1. Rebase(NoPick) = NoPick
    BY DEF Rebase
  <2> QED BY <1>1, <1>3, <2>1 DEF RoundInv, Settled
<1>10. CountdownOutlives'
  <2>1. \A i \in Side : post'[i].age + shootIn' >= CountSlots
    BY <1>1, <1>2, PostAge, PacingAssumption
  <2> QED BY <2>1 DEF CountdownOutlives
<1> QED BY <1>5, <1>6, <1>7, <1>8, <1>9, <1>10 DEF RoundInv

(* When the window opens no request is old enough to carry an earlier pick.    *)
LEMMA Opens ==
  ASSUME TypeOK, RoundInv, Pun, Latency < CountSlots
  PROVE  RoundInv'
<1>1. /\ pc = "beats" /\ pc' = "shoot" /\ ~SomeoneLeft /\ shootIn <= 0
      /\ UNCHANGED <<scored, scheduled, shootIn, picks, chan, post, left>>
      /\ phase = "countdown" /\ phase' = "shoot"
  BY DEF Pun, Advanced, RoundInv, Schedule
<1>2. Schedule' /\ NoForeignPick' /\ FirstRound' /\ PauseOutlives' /\ Settled' /\ CountdownOutlives'
  BY <1>1 DEF RoundInv, Schedule, NoForeignPick, FirstRound, PauseOutlives, Settled,
     CountdownOutlives
<1>3. ASSUME scored, NEW i \in Side PROVE Due(post[i].pick) /\ Due(chan[i])
  <2>1. ~(post[i].age + shootIn >= CountSlots)
    <3>1. post[i].age \in Nat /\ post[i].age <= Latency /\ shootIn \in Int
      BY PostAge, PacingAssumption DEF TypeOK, TypeTimers
    <3> QED BY <1>1, <3>1, PacingAssumption
  <2>2. chan[i] = NoPick
    BY <1>1, <1>3 DEF RoundInv, Settled
  <2> QED BY <1>1, <1>3, <2>1, <2>2 DEF RoundInv, CountdownOutlives, Due, NoPick
<1> QED BY <1>1, <1>2, <1>3 DEF RoundInv, WindowDue, Due

(* What the window takes was stamped under its own schedule, or ahead of the first. *)
LEMMA Takes ==
  ASSUME TypeOK, RoundInv, Deadline \/ \E j \in Side : Take(j)
  PROVE  RoundInv'
<1>1. /\ pc = "shoot" /\ pc' \in {"shoot", "close"}
      /\ UNCHANGED <<phase, scored, scheduled, shootIn, post, left, thinking>>
      /\ \A i \in Side : chan'[i] \in {chan[i], NoPick} /\ picks'[i] \in {picks[i], chan[i]}
  BY DEF Deadline, Drained, Take, Counted, TypeOK, TypePicks
<1>2. NoPick.of = "none"
  BY DEF NoPick
<1>3. NoForeignPick'
  <2>1. \A i \in Side : chan[i].of # "past" /\ (chan[i].of = "opening" => ~scored)
    BY <1>1 DEF RoundInv, FirstRound, WindowDue, Due
  <2> QED BY <1>1, <2>1 DEF RoundInv, NoForeignPick
<1>4. Schedule' /\ FirstRound' /\ PauseOutlives' /\ Settled' /\ CountdownOutlives'
  BY <1>1, <1>2 DEF RoundInv, Schedule, FirstRound, PauseOutlives, Settled, CountdownOutlives
<1>5. WindowDue'
  BY <1>1, <1>2 DEF RoundInv, WindowDue, Due
<1> QED BY <1>3, <1>4, <1>5 DEF RoundInv

LEMMA Judges ==
  ASSUME TypeOK, RoundInv, Judge \/ Announce
  PROVE  RoundInv'
<1>1. CASE Judge
  <2>1. /\ pc = "judge" /\ pc' = "announce" /\ \A i \in Side : picks'[i] = NoPick
        /\ UNCHANGED <<phase, scored, scheduled, shootIn, chan, post, left, thinking>>
    BY <1>1 DEF Judge, requests
  <2>2. NoForeignPick'
    BY <2>1 DEF NoForeignPick, NoPick
  <2> QED BY <2>1, <2>2 DEF RoundInv, Schedule, FirstRound, PauseOutlives, Settled,
          CountdownOutlives, WindowDue
<1>2. CASE Announce
  <2>1. /\ pc = "announce" /\ pc' \in {"break", "discard"} /\ scored' = TRUE
        /\ (pc' = "break" => timer' = SeriesBreak)
        /\ UNCHANGED <<phase, scheduled, shootIn, picks, chan, post, left, thinking>>
    BY <1>2 DEF Announce, AfterResult, Pause, requests
  <2>2. phase = "done" /\ \A i \in Side : picks[i] = NoPick
    BY <2>1 DEF RoundInv, Schedule
  <2>3. NoForeignPick'
    BY <2>1, <2>2 DEF NoForeignPick, NoPick
  <2>4. Schedule' /\ FirstRound' /\ Settled' /\ CountdownOutlives' /\ WindowDue'
    BY <2>1, <2>2 DEF RoundInv, Schedule, FirstRound, Settled, CountdownOutlives, WindowDue
  <2>5. PauseOutlives'
    <3>1. \A i \in Side : post'[i].age \in Nat
      BY <2>1, PostAge
    <3>2. pc' = "break" => \A i \in Side : post'[i].age + timer' >= SeriesBreak
      BY <2>1, <3>1, PacingAssumption
    <3> QED BY <2>1, <3>2 DEF PauseOutlives
  <2> QED BY <2>3, <2>4, <2>5 DEF RoundInv
<1> QED BY <1>1, <1>2

(* The pause is over when no request admitted before it is left. *)
LEMMA Pauses ==
  ASSUME TypeOK, RoundInv, BreakEnds, Latency < SeriesBreak
  PROVE  RoundInv'
<1>1. /\ pc = "break" /\ pc' = "discard" /\ (timer = 0 \/ SomeoneLeft)
      /\ UNCHANGED <<scored, scheduled, shootIn, picks, chan, post, left, thinking>>
      /\ phase' \in {phase, "countdown"}
  BY DEF BreakEnds, Advanced, requests
<1>2. scored /\ phase = "done"
  BY <1>1 DEF RoundInv, Schedule
<1>3. SomeoneLeft' = SomeoneLeft /\ \A i \in Side : Admitted(i)' = Admitted(i)
  BY <1>1 DEF SomeoneLeft, Admitted
<1>4. ASSUME ~SomeoneLeft PROVE ~thinking /\ \A i \in Side : ~Admitted(i)
  <2>1. timer = 0
    BY <1>1, <1>4
  <2>2. ASSUME NEW i \in Side PROVE ~(post[i].age + timer >= SeriesBreak)
    <3>1. post[i].age \in Nat /\ post[i].age <= Latency
      BY PostAge
    <3> QED BY <2>1, <3>1, PacingAssumption
  <2>3. timer # SeriesBreak
    BY <2>1, PacingAssumption
  <2> QED BY <1>1, <1>4, <2>2, <2>3 DEF RoundInv, PauseOutlives
<1>5. Settled'
  BY <1>1, <1>3, <1>4 DEF Settled
<1> QED
  BY <1>1, <1>2, <1>5 DEF RoundInv, Schedule, FirstRound, PauseOutlives, CountdownOutlives, WindowDue,
     NoForeignPick

LEMMA Discards ==
  ASSUME TypeOK, RoundInv, Discard
  PROVE  RoundInv'
<1>1. /\ pc = "discard" /\ UNCHANGED <<phase, scored, picks, post, left, thinking>>
      /\ \A i \in Side : chan'[i] = NoPick
      /\ pc' = "exit" \/ (pc' \in {"begin", "gate"} /\ phase = "countdown")
  BY DEF Discard, Discarded
<1>2. scored
  BY <1>1 DEF RoundInv, Schedule
<1>3. SomeoneLeft' = SomeoneLeft /\ \A i \in Side : Admitted(i)' = Admitted(i)
  BY <1>1 DEF SomeoneLeft, Admitted
<1>4. Settled'
  BY <1>1, <1>2, <1>3 DEF RoundInv, Settled
<1> QED
  BY <1>1, <1>2, <1>4 DEF RoundInv, Schedule, FirstRound, PauseOutlives, CountdownOutlives, WindowDue,
     NoForeignPick

LEMMA Finishes ==
  ASSUME TypeOK, RoundInv, Finish
  PROVE  RoundInv'
<1>1. /\ pc' = "ended" /\ phase' = "done"
      /\ UNCHANGED <<scored, scheduled, picks, post>>
      /\ \A i \in Side : chan'[i] \in {chan[i], NoPick}
  BY DEF Finish
<1> QED
  BY <1>1 DEF RoundInv, Schedule, FirstRound, PauseOutlives, Settled, CountdownOutlives, WindowDue,
     NoForeignPick, NoPick

LEMMA RoundStep ==
  ASSUME TypeOK, RoundInv, [Next]_vars, Latency < CountSlots, Latency < SeriesBreak
  PROVE  RoundInv'
<1>1. CASE UNCHANGED vars
  BY <1>1 DEF vars, engine, requests, RoundInv, Schedule, FirstRound, PauseOutlives, Settled,
     CountdownOutlives, WindowDue, Due, NoForeignPick, Admitted, SomeoneLeft
<1>2. CASE Next
  BY <1>2, QuietRun, Requests, BotActs, Departs, TimePasses, Begins, Opens, Takes, Judges, Pauses,
     Discards, Finishes DEF Next, Run, Gate, Round, Handler, MoveServed
<1> QED BY <1>1, <1>2

(* A pick is never scored in a round other than the one it was made for. It    *)
(* rests on two facts of the pacing: a /move is done in less time than the     *)
(* pause between two rounds takes, and than a countdown.                       *)
THEOREM NoPickIsForeign ==
  ASSUME Latency < CountSlots, Latency < SeriesBreak
  PROVE  Spec => []NoForeignPick
<1>1. Init => RoundInv
  BY RoundInit
<1>2. TypeOK /\ RoundInv /\ [Next]_vars => RoundInv'
  BY RoundStep
<1>3. RoundInv => NoForeignPick
  BY DEF RoundInv
<1> QED
  BY <1>1, <1>2, <1>3, TypeCorrect, PTL DEF Spec
=============================================================================
