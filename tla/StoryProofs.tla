---------------------------- MODULE StoryProofs ----------------------------
(* The match engine implements the story it is seen by (MatchStory.tla), for   *)
(* every mode, pacing and number of requests in flight.                        *)
EXTENDS MatchStory, MatchProofs

(* Where run stands says what each human side has heard and what the request   *)
(* handlers read: the inductive invariant of the refinement.                   *)
OpeningGate(i) == phase = "preparing" /\ ~between /\ sent[i] = "matched"
LaterGate(i) == phase = "countdown" /\ between /\ ~Bot /\ sent[i] = "result"
NextDue(i) == phase = "countdown" /\ between = ~Bot /\ sent[i] = "result"
Informed(i) == sent[i] \in Terminal \/ (abandon # "" /\ sent[i] \in {"matched", "result"})

HumansLeave == \A i \in Side : left[i] => i \in Human
InHandshake ==
    /\ pc = "enter" => phase = "preparing" /\ ~between /\ \A i \in Human : sent[i] = "none"
    /\ pc \in {"gate", "select", "opened"} => \A i \in Human : OpeningGate(i) \/ LaterGate(i)
    /\ pc \in {"settle", "settle2"} =>
         phase = "done" /\ between /\ \A i \in Human : sent[i] = "result"
InCountdown ==
    /\ pc \in {"begin", "beats"} => phase = "countdown" /\ ~between
    /\ pc = "begin" => \A i \in Human : sent[i] \in {"matched", "result"}
    /\ pc = "beats" => \A i \in Human :
         sent[i] \in IF beat = CountSlots THEN {"matched", "result"} ELSE {"countdown"}
InRound ==
    /\ pc \in {"shoot", "close"} => phase = "shoot"
    /\ pc \in {"judge", "announce"} => phase = "done"
    /\ pc \in {"shoot", "close", "judge"} => ~between
    /\ pc \in {"shoot", "close", "judge", "announce"} => \A i \in Human : sent[i] = "shoot"
    /\ pc = "announce" => between = (~seriesOver /\ ~Bot)
InPause ==
    /\ pc = "break" => phase = "done" /\ between = ~Bot /\ \A i \in Human : sent[i] = "result"
    /\ pc = "discard" => \A i \in Human :
         NextDue(i) \/ (phase = "done" /\ ~between /\ (left[i] \/ sent[i] = "final"))
AtItsEnd ==
    /\ pc \in {"exit", "finish", "ended"} => phase = "done"
    /\ pc \in {"exit", "finish"} => \A i \in Human : left[i] \/ Informed(i)
    /\ pc = "exit" /\ between => abandon # ""
    /\ pc \in {"finish", "ended"} => ~between
Failed == (abandon # "") => pc \in {"settle", "settle2", "exit", "finish", "ended"}
FailedGate == pc \in {"settle", "settle2"} => abandon # ""

StoryInv == HumansLeave /\ InHandshake /\ InCountdown /\ InRound /\ InPause /\ AtItsEnd
            /\ Failed /\ FailedGate

LEMMA Humans == Human \subseteq Side /\ 0 \in Human
  BY DEF Human, Side

LEMMA StoryInvInit == Init => StoryInv
  BY Humans DEF Init, StoryInv, HumansLeave, InHandshake, InCountdown, InRound, InPause, AtItsEnd,
     Failed, FailedGate

(* Whoever is still there when a departure aborts the match is told of it.     *)
LEMMA AbortInforms ==
  ASSUME TypeOK, HumansLeave, SomeoneLeft, Abort,
         phase \in {"shoot", "countdown", "preparing"}, NEW i \in Human
  PROVE  /\ phase' = "done" /\ pc' = "exit"
         /\ sent'[i] \in {sent[i], "opponentLeft"}
         /\ left[i] \/ sent'[i] = "opponentLeft"
<1>1. phase' = "done" /\ pc' = "exit" /\ Emit(Survivors, "opponentLeft")
  BY DEF Abort
<1>2. i \in Side /\ sent'[i] = IF i \in Survivors THEN "opponentLeft" ELSE sent[i]
  BY <1>1, Humans DEF Emit
<1>3. ~left[i] => i \in Survivors
  BY <1>2 DEF SomeoneLeft, Survivors, HumansLeave, Other, Side
<1> QED BY <1>1, <1>2, <1>3

(* The parts of the invariant once run is on its way out after an abort *)
LEMMA AbortKeeps ==
  ASSUME TypeOK, StoryInv, SomeoneLeft, Abort, UNCHANGED <<left, between, abandon>>, ~between,
         phase \in {"shoot", "countdown", "preparing"}
  PROVE  StoryInv'
<1>1. phase' = "done" /\ pc' = "exit"
  BY AbortInforms, Humans DEF StoryInv
<1>2. \A i \in Human : left[i] \/ sent'[i] = "opponentLeft"
  BY AbortInforms DEF StoryInv
<1> QED
  BY <1>1, <1>2 DEF StoryInv, HumansLeave, InHandshake, InCountdown, InRound, InPause,
     AtItsEnd, Failed, FailedGate, Informed, Terminal

LEMMA StoryInvStep == TypeOK /\ StoryInv /\ [Next]_vars => StoryInv'
<1> SUFFICES ASSUME TypeOK, StoryInv, [Next]_vars PROVE StoryInv'
  OBVIOUS
<1> USE Humans, PacingAssumption
<1> USE DEF HumansLeave, InHandshake, InCountdown, InRound, InPause, AtItsEnd, Failed, FailedGate
<1>1. CASE Enter
  <2>1. CASE SomeoneLeft /\ Abort
    BY <1>1, <2>1, AbortKeeps DEF Enter, StoryInv
  <2>2. CASE pc' = "gate" /\ Emit(Human, "matched") /\ UNCHANGED phase
    BY <1>1, <2>2 DEF Enter, StoryInv, Emit, OpeningGate
  <2> QED BY <1>1, <2>1, <2>2 DEF Enter
<1>2. CASE GateCheck
  BY <1>2 DEF GateCheck, StoryInv, OpeningGate, LaterGate
<1>3. CASE GateWake
  BY <1>3 DEF GateWake, StoryInv, OpeningGate, LaterGate
<1>4. CASE GateExpires
  BY <1>4 DEF GateExpires, GateExpired, Advanced, StoryInv, OpeningGate, LaterGate, Informed
<1>5. CASE SettleFirst \/ SettleSecond
  <2>1. /\ phase' = "done" /\ between' /\ abandon' # "" /\ left' = left
        /\ pc' \in {"settle2", "exit"}
    BY <1>5 DEF SettleFirst, SettleSecond, StoryInv
  <2>2. \A i \in Human : sent'[i] \in {"result", "forfeitWin", "forfeitLoss"}
                         /\ (pc' = "settle2" => sent'[i] = "result")
    BY <1>5 DEF SettleFirst, SettleSecond, ForfeitWin, StoryInv
  <2> QED BY <2>1, <2>2 DEF StoryInv, Informed, Terminal
<1>6. CASE GateOpened
  BY <1>6 DEF GateOpened, Advanced, StoryInv, OpeningGate, LaterGate
<1>7. CASE Begin
  <2>1. CASE SomeoneLeft /\ Abort
    BY <1>7, <2>1, AbortKeeps DEF Begin, StoryInv
  <2>2. CASE pc' = "beats" /\ beat' = CountSlots /\ UNCHANGED <<phase, sent>>
    BY <1>7, <2>2 DEF Begin, StoryInv
  <2> QED BY <1>7, <2>1, <2>2 DEF Begin
<1>8. CASE Beat
  <2>1. beat \in Nat /\ beat <= CountSlots /\ beat' = beat - 1
    BY <1>8 DEF Beat, TypeOK, TypeTimers
  <2>2. beat' # CountSlots
    BY <2>1
  <2>3. pc = "beats" /\ UNCHANGED <<pc, phase, between, abandon, left>>
        /\ \A i \in Human : sent'[i] = "countdown"
    BY <1>8 DEF Beat, Emit
  <2> QED BY <2>2, <2>3 DEF StoryInv
<1>9. CASE BeatsLeave
  BY <1>9, AbortKeeps DEF BeatsLeave, StoryInv
<1>10. CASE Pun
  BY <1>10 DEF Pun, Emit, Advanced, StoryInv
<1>11. CASE Deadline
  BY <1>11 DEF Deadline, StoryInv
<1>12. CASE ShootLeave
  BY <1>12, AbortKeeps DEF ShootLeave, StoryInv
<1>13. CASE Close
  BY <1>13 DEF Close, Advanced, StoryInv
<1>14. CASE Judge
  <2>1. /\ pc = "judge" /\ pc' = "announce" /\ UNCHANGED <<phase, sent, left, abandon>>
        /\ between' = OpensGate(seriesOver')
    BY <1>14 DEF Judge
  <2> QED BY <2>1 DEF OpensGate, StoryInv
<1>15. CASE Announce
  <2>1. pc = "announce" /\ UNCHANGED <<phase, between, left, abandon, seriesOver>>
        /\ \A i \in Human : sent'[i] = IF seriesOver THEN "final" ELSE "result"
    BY <1>15 DEF Announce, Emit
  <2>2. pc' = IF seriesOver THEN "discard" ELSE "break"
    BY <1>15 DEF Announce, AfterResult, Pause
  <2>3. between = (~seriesOver /\ ~Bot) /\ phase = "done" /\ abandon = ""
    BY <2>1 DEF StoryInv
  <2> QED BY <2>1, <2>2, <2>3, ModeAssumption DEF StoryInv
<1>16. CASE BreakEnds
  <2>1. /\ pc = "break" /\ pc' = "discard" /\ UNCHANGED <<between, sent, left, abandon>>
        /\ phase' = IF SomeoneLeft /\ ~between THEN phase ELSE Advanced("done", "countdown")
    BY <1>16 DEF BreakEnds
  <2>2. phase = "done" /\ between = ~Bot /\ abandon = "" /\ \A i \in Human : sent[i] = "result"
    BY <2>1 DEF StoryInv
  <2>3. CASE SomeoneLeft /\ ~between
    <3>1. Human = {0}
      BY <2>2, <2>3, ModeAssumption DEF Human
    <3>2. left[0]
      BY <2>3, <3>1 DEF StoryInv, SomeoneLeft, Side
    <3> QED BY <2>1, <2>2, <2>3, <3>1, <3>2 DEF StoryInv
  <2>4. CASE ~(SomeoneLeft /\ ~between)
    <3>1. phase' = "countdown"
      BY <2>1, <2>2, <2>4 DEF Advanced
    <3> QED BY <2>1, <2>2, <3>1 DEF StoryInv, NextDue
  <2> QED BY <2>3, <2>4
<1>17. CASE Discard
  <2>1. pc = "discard" /\ UNCHANGED <<phase, between, sent, left, abandon>>
        /\ pc' = IF phase # "countdown" THEN "exit" ELSE IF between THEN "gate" ELSE "begin"
    BY <1>17 DEF Discard
  <2>2. \A i \in Human : NextDue(i) \/ (phase = "done" /\ ~between /\ (left[i] \/ sent[i] = "final"))
    BY <2>1 DEF StoryInv
  <2>3. abandon = ""
    BY <2>1 DEF StoryInv
  <2>4. CASE phase = "countdown"
    <3>1. \A i \in Human : sent[i] = "result" /\ between = ~Bot
      BY <2>2, <2>4 DEF NextDue
    <3>2. between => ~Bot
      BY <3>1, ModeAssumption
    <3> QED BY <2>1, <2>3, <2>4, <3>1, <3>2 DEF StoryInv, LaterGate
  <2>5. CASE phase # "countdown"
    <3>1. \A i \in Human : phase = "done" /\ ~between /\ (left[i] \/ sent[i] = "final")
      BY <2>2, <2>5 DEF NextDue
    <3> QED BY <2>1, <2>3, <2>5, <3>1 DEF StoryInv, Informed, Terminal
  <2> QED BY <2>4, <2>5
<1>18. CASE Exit
  BY <1>18 DEF Exit, StoryInv, Informed
<1>19. CASE Finish
  BY <1>19 DEF Finish, StoryInv
<1>20. ASSUME NEW j \in Side, GateLeave(j) PROVE StoryInv'
  <2>1. pc = "select" /\ pc' = "exit" /\ abandon' = "opponent-left" /\ UNCHANGED <<left, between>>
    BY <1>20 DEF GateLeave
  <2>2. \A i \in Human : OpeningGate(i) \/ LaterGate(i)
    BY <2>1 DEF StoryInv
  <2>3. phase' = "done"
    BY <1>20, <2>2 DEF GateLeave, Advanced, OpeningGate, LaterGate
  <2>4. \A i \in Human : sent'[i] \in {"matched", "result", "forfeitWin", "forfeitLoss"}
    BY <1>20, <2>2 DEF GateLeave, ForfeitWin, OpeningGate, LaterGate
  <2> QED BY <2>1, <2>3, <2>4 DEF StoryInv, Informed, Terminal
<1>21. ASSUME NEW j \in Side, Take(j) PROVE StoryInv'
  BY <1>21 DEF Take, StoryInv
<1>22. ASSUME NEW j \in Side, Leave(j) PROVE StoryInv'
  BY <1>22 DEF Leave, engine, StoryInv, OpeningGate, LaterGate, NextDue, Informed, TypeOK, TypeSides
<1>23. CASE UNCHANGED <<engine, left>>
  BY <1>23 DEF engine, StoryInv, OpeningGate, LaterGate, NextDue, Informed
<1>24. CASE Tick
  BY <1>24 DEF Tick, StoryInv, OpeningGate, LaterGate, NextDue, Informed
<1>25. (\E i \in Side : ReadyAdmitted(i) \/ MoveStamped(i) \/ MoveServed(i))
        \/ BotThrows \/ BotGivesUp \/ UNCHANGED vars => UNCHANGED <<engine, left>>
  BY DEF ReadyAdmitted, MoveStamped, MoveServed, MoveChecked, MoveSent, BotThrows, BotGivesUp, vars
<1>26. ASSUME NEW j \in Side, AckReady(j) PROVE StoryInv'
  BY <1>26 DEF AckReady, StoryInv, OpeningGate, LaterGate, NextDue, Informed
<1> QED
  BY <1>1, <1>2, <1>3, <1>4, <1>5, <1>6, <1>7, <1>8, <1>9, <1>10, <1>11, <1>12, <1>13, <1>14,
     <1>15, <1>16, <1>17, <1>18, <1>19, <1>20, <1>21, <1>22, <1>23, <1>24, <1>25, <1>26
     DEF Next, Run, Gate, Round, Handler

-----------------------------------------------------------------------------
(* The refinement. What each step of the match is in a player's story:         *)

(* ... a departure that aborts the match calls it off, or breaks a round off   *)
LEMMA AbortTells ==
  ASSUME TypeOK, StoryInv, SomeoneLeft, Abort, UNCHANGED <<between, abandon>>, ~between,
         NEW p \in Human,
         (phase = "preparing" /\ sent[p] = "none") \/ phase \in {"shoot", "countdown"}
  PROVE  Story!Step(p)
<1>1. phase' = "done" /\ sent'[p] \in {sent[p], "opponentLeft"}
  BY AbortInforms DEF StoryInv
<1> QED
  BY <1>1 DEF Story!Step, Story!CallOff, Story!BreakOff

LEMMA Booleans == TypeOK => between \in BOOLEAN
  BY DEF TypeOK, TypeFlags

LEMMA StepTells ==
  ASSUME TypeOK, StoryInv, [Next]_vars, NEW p \in Human
  PROVE  Story!Step(p)
<1> USE Humans
<1> USE DEF StoryInv, InHandshake, InCountdown, InRound, InPause, AtItsEnd, Failed, FailedGate
<1> DEFINE Quiet == UNCHANGED <<phase, between, abandon, sent>>
<1>1. CASE Quiet
  BY <1>1 DEF Story!Step
<1>2. CASE Enter
  <2>1. pc = "enter" /\ UNCHANGED <<between, abandon>> /\ phase = "preparing" /\ sent[p] = "none"
        /\ ~between
    BY <1>2 DEF Enter
  <2>2. CASE SomeoneLeft /\ Abort
    BY <2>1, <2>2, AbortTells
  <2>3. CASE Emit(Human, "matched") /\ UNCHANGED phase
    BY <2>1, <2>3 DEF Emit, Story!Step, Story!Announce
  <2> QED BY <1>2, <2>2, <2>3 DEF Enter
<1>3. CASE GateExpires
  <2>1. pc = "select" /\ abandon = "" /\ abandon' # "" /\ UNCHANGED <<between, sent>>
        /\ phase' = IF between THEN Advanced("countdown", "done") ELSE Advanced("preparing", "done")
    BY <1>3 DEF GateExpires, GateExpired
  <2> QED BY <2>1 DEF OpeningGate, LaterGate, Advanced, Story!Step, Story!CallOff, Story!GateFails
<1>4. CASE SettleFirst \/ SettleSecond
  <2>1. /\ phase = "done" /\ between /\ abandon # "" /\ sent[p] = "result"
        /\ UNCHANGED <<phase, between, abandon>>
    BY <1>4 DEF SettleFirst, SettleSecond
  <2>2. sent'[p] \in {"result", "forfeitWin", "forfeitLoss"}
    BY <1>4, <2>1 DEF SettleFirst, SettleSecond, ForfeitWin
  <2> QED BY <2>1, <2>2 DEF Story!Step, Story!Forfeit
<1>5. ASSUME NEW j \in Side, GateLeave(j) PROVE Story!Step(p)
  <2>1. pc = "select" /\ abandon' # "" /\ UNCHANGED between
    BY <1>5 DEF GateLeave
  <2>2. abandon = "" /\ (OpeningGate(p) \/ LaterGate(p))
    BY <2>1
  <2>3. CASE between
    <3>1. phase' = Advanced("countdown", "done") /\ ForfeitWin(Other(j))
      BY <1>5, <2>3 DEF GateLeave
    <3>2. sent'[p] \in {sent[p], "forfeitWin", "forfeitLoss"}
      BY <3>1 DEF ForfeitWin
    <3> QED BY <2>1, <2>2, <2>3, <3>1, <3>2
            DEF OpeningGate, LaterGate, Advanced, Story!Step, Story!GateFails
  <2>4. CASE ~between
    <3>1. phase' = Advanced("preparing", "done") /\ UNCHANGED sent
      BY <1>5, <2>4 DEF GateLeave
    <3> QED BY <2>1, <2>2, <2>4, <3>1
            DEF OpeningGate, LaterGate, Advanced, Story!Step, Story!CallOff
  <2> QED BY <2>3, <2>4
<1>6. CASE GateOpened
  <2>1. pc = "opened" /\ between' = FALSE /\ UNCHANGED <<abandon, sent>>
        /\ phase' = Advanced("preparing", "countdown")
    BY <1>6 DEF GateOpened
  <2>2. CASE OpeningGate(p)
    <3>1. phase' = "countdown" /\ UNCHANGED <<between, abandon, sent>>
      BY <2>1, <2>2, Booleans DEF OpeningGate, Advanced
    <3> QED BY <2>2, <3>1 DEF OpeningGate, Story!Step, Story!Start
  <2>3. CASE LaterGate(p)
    <3>1. UNCHANGED <<phase, abandon, sent>>
      BY <2>1, <2>3 DEF LaterGate, Advanced
    <3> QED BY <2>1, <2>3, <3>1 DEF LaterGate, Story!Step, Story!GatePassed
  <2> QED BY <2>1, <2>2, <2>3
<1>7. CASE Begin
  <2>1. pc = "begin" /\ phase = "countdown" /\ ~between /\ UNCHANGED <<between, abandon>>
    BY <1>7 DEF Begin
  <2>2. CASE SomeoneLeft /\ Abort
    BY <2>1, <2>2, AbortTells
  <2>3. CASE UNCHANGED <<phase, sent>>
    BY <1>1, <2>1, <2>3
  <2> QED BY <1>7, <2>2, <2>3 DEF Begin
<1>8. CASE Beat
  <2>1. pc = "beats" /\ sent'[p] = "countdown" /\ UNCHANGED <<phase, between, abandon>>
    BY <1>8 DEF Beat, Emit
  <2> QED BY <2>1 DEF Story!Step, Story!Count
<1>9. CASE BeatsLeave
  BY <1>9, AbortTells DEF BeatsLeave
<1>10. CASE Pun
  <2>1. pc = "beats" /\ beat # CountSlots /\ sent'[p] = "shoot" /\ UNCHANGED <<between, abandon>>
        /\ phase' = Advanced("countdown", "shoot")
    BY <1>10, PacingAssumption DEF Pun, Emit
  <2> QED BY <2>1 DEF Advanced, Story!Step, Story!Pun
<1>11. CASE ShootLeave
  BY <1>11, AbortTells DEF ShootLeave
<1>12. CASE Close
  BY <1>12 DEF Close, Advanced, Story!Step, Story!Close
<1>13. CASE Judge
  <2>1. pc = "judge" /\ UNCHANGED <<phase, sent, abandon>> /\ between' \in {FALSE, ~Bot}
    BY <1>13, ModeAssumption DEF Judge, OpensGate, SeriesOver, SeriesMatch
  <2>2. between = FALSE /\ phase = "done" /\ sent[p] = "shoot"
    BY <2>1, Booleans
  <2>3. CASE between' = FALSE
    BY <2>1, <2>2, <2>3 DEF Story!Step
  <2>4. CASE between' # FALSE
    <3>1. between' = TRUE /\ ~Bot
      BY <2>1, <2>4, ModeAssumption
    <3> QED BY <2>1, <2>2, <3>1 DEF Story!Step, Story!OpenGate
  <2> QED BY <2>3, <2>4
<1>14. CASE Announce
  <2>1. pc = "announce" /\ sent'[p] = (IF seriesOver THEN "final" ELSE "result")
        /\ UNCHANGED <<phase, between, abandon>>
    BY <1>14 DEF Announce, Emit
  <2> QED BY <2>1, ModeAssumption DEF Story!Step, Story!Result, TypeOK, TypeFlags
<1>15. CASE BreakEnds
  <2>1. pc = "break" /\ phase' \in {phase, "countdown"} /\ UNCHANGED <<between, abandon, sent>>
    BY <1>15 DEF BreakEnds, Advanced
  <2> QED BY <2>1 DEF Story!Step, Story!NextRound
<1>16. CASE Exit
  <2>1. pc = "exit" /\ between' = FALSE /\ UNCHANGED <<phase, abandon, sent>>
    BY <1>16 DEF Exit
  <2>2. CASE between = FALSE
    BY <2>1, <2>2 DEF Story!Step
  <2>3. CASE between = TRUE
    BY <2>1, <2>3 DEF Story!Step, Story!GateWithdrawn
  <2> QED BY <2>2, <2>3, Booleans
<1>17. CASE Finish
  <2>1. pc = "finish" /\ phase' = "done" /\ UNCHANGED <<between, abandon>>
        /\ sent'[p] = IF left[p] THEN sent[p] ELSE "idle"
    BY <1>17 DEF Finish, Emit
  <2> QED BY <2>1 DEF Informed, Terminal, Story!Step, Story!Release, Story!Decided
<1>18. ~(\/ Enter \/ GateExpires \/ SettleFirst \/ SettleSecond \/ GateOpened
         \/ (\E j \in Side : GateLeave(j)) \/ Begin \/ Beat \/ BeatsLeave \/ Pun \/ ShootLeave
         \/ Close \/ Judge \/ Announce \/ BreakEnds \/ Exit \/ Finish) => Quiet
  BY DEF Next, Run, Gate, Round, GateCheck, GateWake, Take, Deadline, Discard, Leave, ReadyAdmitted,
     MoveStamped, Handler, MoveServed, AckReady, MoveChecked, MoveSent, BotThrows, BotGivesUp,
     Tick, vars, engine
<1> QED
  BY <1>1, <1>2, <1>3, <1>4, <1>5, <1>6, <1>7, <1>8, <1>9, <1>10, <1>11, <1>12, <1>13, <1>14,
     <1>15, <1>16, <1>17, <1>18

(* The match engine tells each of its players a story Series allows, whatever  *)
(* the players do, whenever they leave and however the requests interleave.    *)
THEOREM EngineTellsAStory == Spec => TellsAStory
<1>1. Init => Story!Init
  BY Humans DEF Init, Story!Init
<1>2. TypeOK /\ StoryInv /\ [Next]_vars => [Story!Next]_Story!story
  BY StepTells DEF Story!Next
<1> QED
  BY <1>1, <1>2, StoryInvInit, StoryInvStep, TypeCorrect, PTL DEF Spec, TellsAStory, Story!Spec
-----------------------------------------------------------------------------
(* Readiness and absence: whose acknowledgement opens a gate, and who is told   *)
(* that the other side was missing, for every pacing whose lease does not       *)
(* outlive a countdown and a pause.                                            *)
(* Absence wins once. Nothing of it has been told while run can still come to  *)
(* tell it, and the two ways to tell it name one side each.                    *)
Absence == {"opponentLeft", "forfeitWin"}
UntoldYet == pc \notin {"exit", "finish", "ended"} => \A i \in Side : sent[i] \notin Absence
Nobody == \A i \in Side \ Human : sent[i] = "none"
AbsenceInv == UntoldYet /\ Nobody /\ AbsenceWinsOnce

LEMMA AbsenceInit == Init => AbsenceInv
  BY DEF Init, AbsenceInv, UntoldYet, Nobody, AbsenceWinsOnce, Absence, Side

LEMMA AbortTellsOne ==
  ASSUME TypeOK, AbsenceInv, Abort, pc \notin {"exit", "finish", "ended"}
  PROVE  AbsenceInv'
<1>1. pc' = "exit"
  BY DEF Abort
<1>2. \A i \in Side : sent'[i] = sent[i] \/ (sent'[i] = "opponentLeft" /\ i \in Survivors)
  BY DEF Abort, Emit, TypeOK, TypeSides
<1>3. ~(0 \in Survivors /\ 1 \in Survivors)
  BY DEF Survivors, Other
<1>4. \A i \in Side : sent[i] \notin Absence
  BY DEF AbsenceInv, UntoldYet
<1>5. 0 \in Side /\ 1 \in Side /\ Survivors \subseteq Human
  BY DEF Side, Survivors
<1> QED
  BY <1>1, <1>2, <1>3, <1>4, <1>5 DEF AbsenceInv, UntoldYet, Nobody, AbsenceWinsOnce, Absence

LEMMA ForfeitTellsOne ==
  ASSUME TypeOK, AbsenceInv, NEW w \in Side, ForfeitWin(w), pc' = "exit",
         pc \notin {"exit", "finish", "ended"}
  PROVE  AbsenceInv'
<1>2. \A i \in Side : sent[i] \notin Absence
  BY DEF AbsenceInv, UntoldYet
<1>1. \A i \in Side : i # w => sent'[i] \notin Absence
  <2> SUFFICES ASSUME NEW i \in Side, i # w PROVE sent'[i] \notin Absence
    OBVIOUS
  <2>1. sent'[i] \in {sent[i], "forfeitLoss"}
    BY DEF ForfeitWin
  <2> QED BY <1>2, <2>1 DEF Absence
<1>3. \E i \in Side : i # w
  BY DEF Side
<1>4. \A i \in Side \ Human : sent'[i] = sent[i]
  BY DEF ForfeitWin
<1> QED
  BY <1>1, <1>2, <1>3, <1>4 DEF AbsenceInv, UntoldYet, Nobody, AbsenceWinsOnce, Absence

(* A frame that is not about absence leaves the matter as it is. *)
LEMMA OtherFrames ==
  ASSUME AbsenceInv, \A i \in Side : sent'[i] \in {sent[i]} \union (Frame \ Absence),
         \A i \in Side \ Human : sent'[i] = sent[i],
         pc \in {"exit", "finish", "ended"} => pc' \in {"exit", "finish", "ended"}
  PROVE  AbsenceInv'
  BY DEF AbsenceInv, UntoldYet, Nobody, AbsenceWinsOnce, Absence

LEMMA AbsenceStep == TypeOK /\ AbsenceInv /\ [Next]_vars => AbsenceInv'
<1> SUFFICES ASSUME TypeOK, AbsenceInv, [Next]_vars PROVE AbsenceInv'
  OBVIOUS
<1>1. CASE Abort /\ pc \notin {"exit", "finish", "ended"}
  BY <1>1, AbortTellsOne
<1>2. ASSUME NEW w \in Side, ForfeitWin(w), pc \in {"settle", "settle2", "select"}, pc' = "exit"
      PROVE  AbsenceInv'
  BY <1>2, ForfeitTellsOne
<1>3. ASSUME NEW S \in SUBSET Human, NEW frame \in Frame \ Absence, Emit(S, frame),
             pc \in {"exit", "finish", "ended"} => pc' \in {"exit", "finish", "ended"}
      PROVE  AbsenceInv'
  BY <1>3, OtherFrames DEF Emit
<1>4. CASE UNCHANGED sent /\ (pc \in {"exit", "finish", "ended"} => pc' \in {"exit", "finish", "ended"})
  BY <1>4, OtherFrames
<1>5. CASE Enter
  <2>1. "matched" \in Frame \ Absence
    BY DEF Frame, Absence
  <2> QED BY <1>1, <1>3, <1>5, <2>1 DEF Enter
<1>6. CASE SettleFirst
  BY <1>2, <1>4, <1>6 DEF SettleFirst, Side
<1>7. CASE SettleSecond
  BY <1>2, <1>4, <1>7 DEF SettleSecond, Side
<1>8. ASSUME NEW j \in Side, GateLeave(j) PROVE AbsenceInv'
  <2>1. Other(j) \in Side
    BY DEF Other, Side
  <2> QED BY <1>2, <1>4, <1>8, <2>1 DEF GateLeave
<1>9. CASE Begin
  BY <1>1, <1>4, <1>9 DEF Begin
<1>10. CASE BeatsLeave \/ ShootLeave
  BY <1>1, <1>10 DEF BeatsLeave, ShootLeave
<1>11. CASE Beat \/ Pun
  <2>1. "countdown" \in Frame \ Absence /\ "shoot" \in Frame \ Absence
    BY DEF Frame, Absence
  <2> QED BY <1>3, <1>11, <2>1 DEF Beat, Pun
<1>12. CASE Announce
  <2>1. "final" \in Frame \ Absence /\ "result" \in Frame \ Absence
    BY DEF Frame, Terminal, Absence
  <2>2. (IF seriesOver THEN "final" ELSE "result") \in Frame \ Absence
    BY <2>1
  <2> QED BY <1>3, <1>12, <2>2 DEF Announce
<1>13. CASE Finish
  <2>1. "idle" \in Frame \ Absence /\ {i \in Human : ~left[i]} \in SUBSET Human
    BY DEF Frame, Absence
  <2> QED BY <1>3, <1>13, <2>1 DEF Finish
<1>14. CASE UNCHANGED vars \/ GateCheck \/ GateWake \/ GateExpires \/ GateOpened \/ Deadline \/ Close
            \/ Judge \/ BreakEnds \/ Discard \/ Exit \/ BotThrows \/ BotGivesUp \/ Tick
  BY <1>4, <1>14 DEF GateCheck, GateWake, GateExpires, GateExpired, GateOpened, Deadline, Close, Judge,
     BreakEnds, Discard, Exit, BotThrows, BotGivesUp, Tick, vars, engine
<1>15. ASSUME NEW j \in Side, Take(j) \/ Leave(j) \/ ReadyAdmitted(j) \/ MoveStamped(j) \/ Handler(j)
       PROVE  AbsenceInv'
  BY <1>4, <1>15 DEF Take, Leave, ReadyAdmitted, MoveStamped, Handler, MoveServed, AckReady,
     MoveChecked, MoveSent, engine
<1> QED
  BY <1>5, <1>6, <1>7, <1>8, <1>9, <1>10, <1>11, <1>12, <1>13, <1>14, <1>15
     DEF Next, Run, Gate, Round

(* However a departure, a deadline and the acks of both sides interleave, at   *)
(* most one side is ever told that it won because the other was absent.        *)
THEOREM OneAbsenceAtMost == Spec => []AbsenceWinsOnce
<1>1. AbsenceInv => AbsenceWinsOnce
  BY DEF AbsenceInv
<1> QED
  BY <1>1, AbsenceInit, AbsenceStep, TypeCorrect, PTL DEF Spec

-----------------------------------------------------------------------------
(* Readiness is asked anew. An ack given to a gate that has opened since is    *)
(* older, at the next gate, than a countdown and a pause: more than a lease    *)
(* lasts. A departure cuts the pause short; the handshake's own time then      *)
(* stands for it before anybody can win on time.                               *)
(*                                                                             *)
(* The age an ack given to an earlier gate has reached by now, unless it has    *)
(* outlived its lease                                                          *)
Outlived(i) == ackAge[i] > Lease
Waited(i, n) == Outlived(i) \/ ackAge[i] >= n
Resumes == pc = "discard" /\ phase = "countdown"

CarriedAge(i) ==
    /\ pc # "enter"
    /\ pc = "beats" => Waited(i, CountSlots - shootIn)
    /\ pc \in {"shoot", "close", "judge", "announce"} => Waited(i, CountSlots)
    /\ pc = "break" => Waited(i, CountSlots + SeriesBreak - timer)
    /\ Resumes => Waited(i, CountSlots)
    /\ Resumes \/ pc \in {"gate", "select"} => SomeoneLeft \/ Outlived(i)
    /\ pc \in {"gate", "select"} => Waited(i, CountSlots + GateTimeout - timer)
    /\ pc \in {"settle", "settle2"} => Outlived(i)
CarriedAges == \A i \in Side : carried[i] => CarriedAge(i)
BreakTimer == pc = "break" => timer <= SeriesBreak
OpenedAnew == pc = "opened" /\ ~SomeoneLeft => \A i \in Human : ~carried[i]
ForfeitAnew ==
    abandon = "handshake-timeout" => \A i \in Human : sent[i] = "forfeitWin" => ~carried[i]

CarriedInv == CarriedAges /\ BreakTimer /\ OpenedAnew /\ ForfeitAnew

LEMMA CarriedInit == Init => CarriedInv
  BY DEF Init, CarriedInv, CarriedAges, BreakTimer, OpenedAnew, ForfeitAnew, Resumes

LEMMA Ages ==
  ASSUME TypeOK
  PROVE  /\ \A i \in Side : ackAge[i] \in Nat
         /\ timer \in Nat /\ shootIn \in Int
         /\ Lease \in Nat /\ CountSlots \in Nat /\ SeriesBreak \in Nat /\ GateTimeout \in Nat
  BY PacingAssumption DEF TypeOK, TypeSides, TypeTimers

(* An ack ages with the timers. *)
LEMMA AgesTogether ==
  ASSUME TypeOK, Tick, NEW i \in Side
  PROVE  /\ \A n \in Int, m \in Int : Waited(i, n) /\ m <= n + 1
                => ackAge'[i] > Lease \/ ackAge'[i] >= m
         /\ Outlived(i) => ackAge'[i] > Lease
<1>1. ackAge'[i] = (IF ackAge[i] <= Lease THEN ackAge[i] + 1 ELSE ackAge[i]) /\ ackAge[i] \in Nat
      /\ Lease \in Nat
  BY Ages DEF Tick, Older
<1>2. Outlived(i) => ackAge'[i] > Lease
  BY <1>1 DEF Outlived
<1>3. ASSUME NEW n \in Int, NEW m \in Int, Waited(i, n), m <= n + 1
      PROVE  ackAge'[i] > Lease \/ ackAge'[i] >= m
  BY <1>1, <1>3 DEF Waited, Outlived
<1> QED BY <1>2, <1>3

(* No step of run acks for anybody: what has to be shown of it is where it     *)
(* takes an ack that was carried over before.                                  *)
LEMMA CarriedRun ==
  ASSUME TypeOK, StoryInv, CarriedInv, Run, NEW i \in Side, carried'[i],
         Lease < CountSlots + SeriesBreak, Lease < CountSlots + GateTimeout
  PROVE  CarriedAge(i)'
<1> DEFINE Age(n) == ackAge[i] > Lease \/ ackAge[i] >= n
           Gone == pc' \in {"exit", "finish", "ended", "begin", "opened"}
<1>0. /\ ackAge[i] \in Nat /\ timer \in Nat /\ shootIn \in Int /\ Lease \in Nat
      /\ CountSlots \in Nat /\ SeriesBreak \in Nat /\ GateTimeout \in Nat
  BY Ages
<1>1. ackAge' = ackAge /\ left' = left /\ (SomeoneLeft <=> SomeoneLeft')
  BY DEF Run, Gate, Round, Enter, GateCheck, GateWake, GateExpires, SettleFirst, SettleSecond,
     GateLeave, GateOpened, Begin, Beat, BeatsLeave, Pun, Take, Deadline, ShootLeave, Close, Judge,
     Announce, BreakEnds, Discard, Exit, Finish, requests, SomeoneLeft
<1>2. CASE Gone
  BY <1>2 DEF CarriedAge, Resumes
<1>3. ASSUME ~GateOpened PROVE carried[i] /\ CarriedAge(i)
  <2>1. carried' = carried
    BY <1>3 DEF Run, Gate, Round, Enter, GateCheck, GateWake, GateExpires, SettleFirst, SettleSecond,
       GateLeave, Begin, Beat, BeatsLeave, Pun, Take, Deadline, ShootLeave, Close, Judge,
       Announce, BreakEnds, Discard, Exit, Finish
  <2> QED BY <2>1 DEF CarriedInv, CarriedAges
<1>5. CASE Enter \/ GateLeave(0) \/ GateLeave(1) \/ GateOpened \/ BeatsLeave \/ ShootLeave \/ Exit
           \/ Finish \/ SettleSecond
  <2>1. Gone \/ pc = "enter"
    BY <1>5 DEF Enter, GateLeave, GateOpened, BeatsLeave, ShootLeave, Exit, Finish, SettleSecond, Abort
  <2>2. pc = "enter" => ~GateOpened
    BY DEF GateOpened
  <2> QED BY <1>2, <1>3, <2>1, <2>2 DEF CarriedAge
<1>6. CASE GateCheck \/ GateWake
  <2>1. Gone \/ (pc' \in {"gate", "select"} /\ pc \in {"gate", "select"} /\ timer' = timer)
    BY <1>6 DEF GateCheck, GateWake
  <2>2. CASE pc' \in {"gate", "select"} /\ pc \in {"gate", "select"} /\ timer' = timer
    BY <2>2, <1>1, <1>3 DEF CarriedAge, Resumes, Waited, Outlived, GateOpened
  <2> QED BY <1>2, <2>1, <2>2
<1>7. CASE GateExpires
  <2>1. pc = "select" /\ timer = 0 /\ (Gone \/ pc' = "settle")
    BY <1>7 DEF GateExpires, GateExpired
  <2>2. Outlived(i)
    <3>1. Waited(i, CountSlots + GateTimeout - timer)
      BY <2>1, <1>3 DEF CarriedAge, GateOpened
    <3> QED BY <1>0, <2>1, <3>1 DEF Waited, Outlived
  <2> QED BY <1>1, <1>2, <2>1, <2>2 DEF CarriedAge, Resumes, Outlived
<1>8. CASE SettleFirst
  <2>1. pc = "settle" /\ (Gone \/ pc' = "settle2")
    BY <1>8 DEF SettleFirst
  <2>2. Outlived(i)
    BY <2>1, <1>3 DEF CarriedAge, GateOpened
  <2> QED BY <1>1, <1>2, <2>1, <2>2 DEF CarriedAge, Resumes, Outlived
<1>9. CASE Begin
  <2>1. Gone \/ (pc' = "beats" /\ shootIn' = CountSlots)
    BY <1>9 DEF Begin, Abort
  <2>2. ASSUME pc' = "beats", shootIn' = CountSlots PROVE CarriedAge(i)'
    <3>1. Waited(i, CountSlots - shootIn)'
      BY <1>0, <1>1, <2>2 DEF Waited, Outlived
    <3> QED BY <2>2, <3>1 DEF CarriedAge, Resumes
  <2> QED BY <1>2, <2>1, <2>2
<1>10. CASE Beat
  <2>1. pc' = "beats" /\ pc = "beats" /\ shootIn' = shootIn
    BY <1>10 DEF Beat
  <2> QED BY <2>1, <1>1, <1>3 DEF CarriedAge, Resumes, Waited, Outlived, GateOpened
<1>11. CASE Pun
  <2>1. pc = "beats" /\ shootIn <= 0 /\ pc' = "shoot"
    BY <1>11 DEF Pun
  <2>2. Waited(i, CountSlots - shootIn)
    BY <2>1, <1>3 DEF CarriedAge, GateOpened
  <2>3. Waited(i, CountSlots)
    BY <1>0, <2>1, <2>2 DEF Waited
  <2> QED BY <2>1, <2>3, <1>1 DEF CarriedAge, Resumes, Waited, Outlived
<1>12. CASE Take(0) \/ Take(1) \/ Deadline \/ Close \/ Judge
  <2>1. pc \in {"shoot", "close", "judge"} /\ pc' \in {"shoot", "close", "judge", "announce", "exit"}
    BY <1>12 DEF Take, Deadline, Close, Judge
  <2>2. Waited(i, CountSlots)
    BY <2>1, <1>3 DEF CarriedAge, GateOpened
  <2> QED BY <2>1, <2>2, <1>1 DEF CarriedAge, Resumes, Waited, Outlived
<1>13. CASE Announce
  <2>1. /\ pc = "announce" /\ phase' = phase
        /\ pc' = "discard" \/ (pc' = "break" /\ timer' = SeriesBreak)
    BY <1>13 DEF Announce, AfterResult, Pause
  <2>2. phase = "done"
    BY <2>1 DEF StoryInv, InRound
  <2>3. Waited(i, CountSlots)
    BY <2>1, <1>3 DEF CarriedAge, GateOpened
  <2>4. pc' = "break" => Waited(i, CountSlots + SeriesBreak - timer)'
    BY <1>0, <1>1, <2>1, <2>3 DEF Waited, Outlived
  <2> QED BY <2>1, <2>2, <2>4 DEF CarriedAge, Resumes
<1>14. CASE BreakEnds
  <2>1. pc = "break" /\ pc' = "discard" /\ (timer = 0 \/ SomeoneLeft)
    BY <1>14 DEF BreakEnds
  <2>2. Waited(i, CountSlots + SeriesBreak - timer) /\ timer <= SeriesBreak
    BY <2>1, <1>3 DEF CarriedAge, GateOpened, CarriedInv, BreakTimer
  <2>3. Waited(i, CountSlots)
    BY <1>0, <2>2 DEF Waited
  <2>4. timer = 0 => Outlived(i)
    BY <1>0, <2>2 DEF Waited, Outlived
  <2> QED BY <2>1, <2>3, <2>4, <1>1 DEF CarriedAge, Resumes, Waited, Outlived
<1>15. CASE Discard
  <2>1. pc = "discard" /\ (Gone \/ (phase = "countdown" /\ pc' = "gate" /\ timer' = GateTimeout))
    BY <1>15 DEF Discard
  <2>2. ASSUME phase = "countdown", pc' = "gate", timer' = GateTimeout PROVE CarriedAge(i)'
    <3>1. Waited(i, CountSlots) /\ (SomeoneLeft \/ Outlived(i))
      BY <2>1, <2>2, <1>3 DEF CarriedAge, GateOpened, Resumes
    <3>2. Waited(i, CountSlots + GateTimeout - timer)'
      BY <1>0, <1>1, <2>2, <3>1 DEF Waited, Outlived
    <3> QED BY <2>2, <3>1, <3>2, <1>1 DEF CarriedAge, Resumes, Outlived
  <2> QED BY <1>2, <2>1, <2>2
<1> QED
  BY <1>5, <1>6, <1>7, <1>8, <1>9, <1>10, <1>11, <1>12, <1>13, <1>14, <1>15
     DEF Run, Gate, Round, Side

(* The requests and the connections: an ack is never carried, and what is      *)
(* already carried waits on.                                                   *)
LEMMA CarriedElsewhere ==
  ASSUME TypeOK, CarriedAges, NEW i \in Side, carried'[i],
         \/ \E j \in Side : Leave(j) \/ ReadyAdmitted(j) \/ MoveStamped(j) \/ Handler(j)
         \/ BotThrows \/ BotGivesUp \/ UNCHANGED vars
  PROVE  CarriedAge(i)'
<1>1. CASE \E j \in Side : AckReady(j)
  <2> PICK j \in Side : AckReady(j)
    BY <1>1
  <2>1. carried' = [carried EXCEPT ![j] = FALSE] /\ ackAge' = [ackAge EXCEPT ![j] = 0]
        /\ carried \in [Side -> BOOLEAN] /\ ackAge \in [Side -> 0..(Lease + 1)]
    BY DEF AckReady, TypeOK, TypeSides
  <2>2. i # j /\ carried[i] /\ ackAge'[i] = ackAge[i]
    BY <2>1
  <2>3. UNCHANGED <<pc, phase, timer, shootIn, left>>
    BY DEF AckReady
  <2>4. (SomeoneLeft <=> SomeoneLeft') /\ CarriedAge(i)
    BY <2>2, <2>3 DEF SomeoneLeft, CarriedAges
  <2> QED BY <2>2, <2>3, <2>4 DEF CarriedAge, Resumes, Waited, Outlived
<1>2. CASE ~\E j \in Side : AckReady(j)
  <2>1. UNCHANGED <<pc, phase, timer, shootIn, carried, ackAge>>
    BY <1>2 DEF Leave, ReadyAdmitted, MoveStamped, Handler, MoveServed, MoveChecked, MoveSent,
       BotThrows, BotGivesUp, vars, engine, requests
  <2>2. SomeoneLeft => SomeoneLeft'
    <3>1. left' = left \/ \E j \in Side : left' = [left EXCEPT ![j] = TRUE]
      BY <1>2 DEF Leave, ReadyAdmitted, MoveStamped, Handler, MoveServed, MoveChecked, MoveSent,
         BotThrows, BotGivesUp, vars, engine, requests
    <3>2. left \in [Side -> BOOLEAN]
      BY DEF TypeOK, TypeSides
    <3> QED BY <3>1, <3>2 DEF SomeoneLeft
  <2>3. CarriedAge(i)
    BY <2>1 DEF CarriedAges
  <2> QED BY <2>1, <2>2, <2>3 DEF CarriedAge, Resumes, Waited, Outlived
<1> QED BY <1>1, <1>2

(* Time: an ack ages as fast as the countdown, the pause and the handshake run. *)
LEMMA CarriedTick ==
  ASSUME TypeOK, CarriedAges, Tick, NEW i \in Side, carried'[i]
  PROVE  CarriedAge(i)'
<1>1. UNCHANGED <<pc, phase, carried, left>>
      /\ timer' = (IF timer > 0 THEN timer - 1 ELSE 0)
      /\ (shootIn' = shootIn \/ shootIn' = shootIn - 1)
  BY DEF Tick
<1>2. CarriedAge(i) /\ (SomeoneLeft <=> SomeoneLeft')
  BY <1>1 DEF CarriedAges, SomeoneLeft
<1>3. timer \in Nat /\ shootIn \in Int /\ CountSlots \in Nat /\ SeriesBreak \in Nat
      /\ GateTimeout \in Nat
  BY Ages
<1>4. Outlived(i) => Outlived(i)'
  BY AgesTogether DEF Outlived
<1>5. ASSUME NEW n \in Int, NEW m \in Int, Waited(i, n), m <= n + 1
      PROVE  Outlived(i)' \/ ackAge'[i] >= m
  BY <1>5, AgesTogether DEF Outlived
<1>6. /\ CountSlots - shootIn' <= CountSlots - shootIn + 1
      /\ CountSlots + SeriesBreak - timer' <= CountSlots + SeriesBreak - timer + 1
      /\ CountSlots + GateTimeout - timer' <= CountSlots + GateTimeout - timer + 1
      /\ CountSlots <= CountSlots + 1
      /\ CountSlots - shootIn \in Int /\ CountSlots - shootIn' \in Int
      /\ CountSlots + SeriesBreak - timer \in Int /\ CountSlots + SeriesBreak - timer' \in Int
      /\ CountSlots + GateTimeout - timer \in Int /\ CountSlots + GateTimeout - timer' \in Int
      /\ CountSlots \in Int
  BY <1>1, <1>3
<1>7. /\ Waited(i, CountSlots - shootIn) => Outlived(i)' \/ ackAge'[i] >= CountSlots - shootIn'
      /\ Waited(i, CountSlots) => Outlived(i)' \/ ackAge'[i] >= CountSlots
      /\ Waited(i, CountSlots + SeriesBreak - timer)
           => Outlived(i)' \/ ackAge'[i] >= CountSlots + SeriesBreak - timer'
      /\ Waited(i, CountSlots + GateTimeout - timer)
           => Outlived(i)' \/ ackAge'[i] >= CountSlots + GateTimeout - timer'
  <2>1. Waited(i, CountSlots - shootIn) => Outlived(i)' \/ ackAge'[i] >= CountSlots - shootIn'
    BY <1>5, <1>6
  <2>2. Waited(i, CountSlots) => Outlived(i)' \/ ackAge'[i] >= CountSlots
    BY <1>5, <1>6
  <2>3. Waited(i, CountSlots + SeriesBreak - timer)
          => Outlived(i)' \/ ackAge'[i] >= CountSlots + SeriesBreak - timer'
    BY <1>5, <1>6
  <2>4. Waited(i, CountSlots + GateTimeout - timer)
          => Outlived(i)' \/ ackAge'[i] >= CountSlots + GateTimeout - timer'
    BY <1>5, <1>6
  <2> QED BY <2>1, <2>2, <2>3, <2>4
<1> QED
  BY <1>1, <1>2, <1>4, <1>7 DEF CarriedAge, Resumes, Waited, Outlived

(* The pause's timer never exceeds the pause. *)
LEMMA BreakTimerStep == TypeOK /\ BreakTimer /\ [Next]_vars => BreakTimer'
<1> SUFFICES ASSUME TypeOK, BreakTimer, [Next]_vars, pc' = "break" PROVE timer' <= SeriesBreak
  BY DEF BreakTimer
<1>1. CASE Announce
  BY <1>1, Ages DEF Announce, AfterResult, Pause
<1>2. CASE Tick
  BY <1>2, Ages DEF Tick, BreakTimer
<1>3. ~Announce /\ ~Tick => pc = "break" /\ timer' = timer
  BY DEF Next, Run, Gate, Round, Enter, GateCheck, GateWake, GateExpires, SettleFirst, SettleSecond,
     GateLeave, GateOpened, Begin, Beat, BeatsLeave, Pun, Take, Deadline, ShootLeave, Close, Judge,
     BreakEnds, Discard, Exit, Finish, Abort, Leave, ReadyAdmitted, MoveStamped, Handler, MoveServed,
     AckReady, MoveChecked, MoveSent, BotThrows, BotGivesUp, vars, engine, requests
<1> QED BY <1>1, <1>2, <1>3 DEF BreakTimer

(* A gate that opens has seen every lease alive. *)
LEMMA OpenedStep == TypeOK /\ CarriedInv /\ [Next]_vars => OpenedAnew'
<1> SUFFICES ASSUME TypeOK, CarriedInv, [Next]_vars, pc' = "opened", ~SomeoneLeft',
                    NEW i \in Human
             PROVE  ~carried'[i]
  BY DEF OpenedAnew
<1>0. i \in Side /\ carried \in [Side -> BOOLEAN] /\ left \in [Side -> BOOLEAN]
  BY Humans DEF TypeOK, TypeSides
<1>1. CASE GateCheck
  <2>1. pc = "gate" /\ AllHumanReady /\ UNCHANGED <<left, carried>>
    BY <1>1 DEF GateCheck, requests
  <2>2. ackAge[i] <= Lease /\ ~SomeoneLeft
    BY <1>0, <2>1 DEF AllHumanReady, Fresh, SomeoneLeft
  <2>3. ~carried[i]
    BY <1>0, <2>1, <2>2, Ages DEF CarriedInv, CarriedAges, CarriedAge, Outlived
  <2> QED BY <2>1, <2>3
<1>2. CASE \E j \in Side : AckReady(j) \/ Leave(j)
  <2> PICK j \in Side : AckReady(j) \/ Leave(j)
    BY <1>2
  <2>1. pc = "opened" /\ (carried' = carried \/ carried' = [carried EXCEPT ![j] = FALSE])
    BY DEF AckReady, Leave, engine
  <2>2. left' = left \/ left' = [left EXCEPT ![j] = TRUE]
    BY DEF AckReady, Leave
  <2>3. ~SomeoneLeft
    BY <1>0, <2>2 DEF SomeoneLeft
  <2> QED BY <1>0, <2>1, <2>3 DEF CarriedInv, OpenedAnew
<1>3. ~GateCheck /\ ~(\E j \in Side : AckReady(j) \/ Leave(j))
        => pc = "opened" /\ UNCHANGED <<left, carried>>
  BY DEF Next, Run, Gate, Round, Enter, GateWake, GateExpires, SettleFirst, SettleSecond,
     GateLeave, GateOpened, Begin, Beat, BeatsLeave, Pun, Take, Deadline, ShootLeave, Close, Judge,
     Announce, AfterResult, Pause, BreakEnds, Discard, Exit, Finish, Abort, ReadyAdmitted, MoveStamped,
     Handler, MoveServed, MoveChecked, MoveSent, BotThrows, BotGivesUp, Tick, vars, engine, requests
<1> QED BY <1>1, <1>2, <1>3 DEF CarriedInv, OpenedAnew, SomeoneLeft

(* A forfeit on time names a side whose lease is alive. *)
LEMMA ForfeitStep == TypeOK /\ AbsenceInv /\ CarriedInv /\ [Next]_vars => ForfeitAnew'
<1> SUFFICES ASSUME TypeOK, AbsenceInv, CarriedInv, [Next]_vars, abandon' = "handshake-timeout",
                    NEW i \in Human, sent'[i] = "forfeitWin"
             PROVE  ~carried'[i]
  BY DEF ForfeitAnew
<1>0. i \in Side /\ carried \in [Side -> BOOLEAN]
  BY Humans DEF TypeOK, TypeSides
<1>1. pc \notin {"exit", "finish", "ended"} => sent[i] # "forfeitWin"
  BY <1>0 DEF AbsenceInv, UntoldYet, Absence
<1>2. CASE SettleFirst
  <2>1. pc = "settle" /\ carried' = carried /\ (sent'[i] = sent[i] \/ (i = 0 /\ Fresh(0)))
    BY <1>0, <1>2 DEF SettleFirst, ForfeitWin
  <2>2. i = 0 /\ ackAge[i] <= Lease
    BY <1>1, <2>1 DEF Fresh
  <2> QED BY <1>0, <2>1, <2>2, Ages DEF CarriedInv, CarriedAges, CarriedAge, Outlived
<1>3. CASE SettleSecond
  <2>1. pc = "settle2" /\ carried' = carried /\ (sent'[i] = sent[i] \/ (i = 1 /\ Fresh(1)))
    BY <1>0, <1>3 DEF SettleSecond, ForfeitWin
  <2>2. i = 1 /\ ackAge[i] <= Lease
    BY <1>1, <2>1 DEF Fresh
  <2> QED BY <1>0, <2>1, <2>2, Ages DEF CarriedInv, CarriedAges, CarriedAge, Outlived
<1>4. ~SettleFirst /\ ~SettleSecond => sent[i] = "forfeitWin" /\ (abandon' = abandon \/ pc = "select")
  BY <1>0 DEF Next, Run, Gate, Round, Enter, GateCheck, GateWake, GateExpires, GateExpired, GateLeave,
     GateOpened, Begin, Beat, BeatsLeave, Pun, Take, Deadline, ShootLeave, Close, Judge,
     Announce, BreakEnds, Discard, Exit, Finish, Abort, Emit, Leave, ReadyAdmitted, MoveStamped, Handler,
     MoveServed, AckReady, MoveChecked, MoveSent, BotThrows, BotGivesUp, Tick, vars, engine, requests
<1>5. ASSUME ~SettleFirst, ~SettleSecond PROVE ~carried'[i]
  <2>1. sent[i] = "forfeitWin" /\ pc \in {"exit", "finish", "ended"} /\ abandon' = abandon
    BY <1>1, <1>4, <1>5
  <2>2. ~carried[i]
    BY <2>1 DEF CarriedInv, ForfeitAnew
  <2>3. carried' = carried \/ \E j \in Side : carried' = [carried EXCEPT ![j] = FALSE]
    BY <2>1 DEF Next, Run, Gate, Round, Enter, GateCheck, GateWake, GateExpires, GateExpired,
       SettleFirst, SettleSecond, GateLeave, GateOpened, Begin, Beat, BeatsLeave, Pun, Take, Deadline,
       ShootLeave, Close, Judge, Announce, BreakEnds, Discard, Exit, Finish, Leave, ReadyAdmitted,
       MoveStamped, Handler, MoveServed, AckReady, MoveChecked, MoveSent, BotThrows, BotGivesUp, Tick,
       vars, engine, requests
  <2> QED BY <1>0, <2>2, <2>3
<1> QED BY <1>2, <1>3, <1>5

(* Readiness is asked anew at every gate, provided a lease does not outlive a  *)
(* countdown and the pause, nor a countdown and the handshake's own time.      *)
THEOREM ReadinessIsAskedAnew ==
  ASSUME Lease < CountSlots + SeriesBreak, Lease < CountSlots + GateTimeout
  PROVE  Spec => []NoCarriedAck
<1>1. TypeOK /\ StoryInv /\ AbsenceInv /\ CarriedInv /\ [Next]_vars => CarriedInv'
  <2> SUFFICES ASSUME TypeOK, StoryInv, AbsenceInv, CarriedInv, [Next]_vars PROVE CarriedInv'
    OBVIOUS
  <2>1. ASSUME NEW i \in Side, carried'[i] PROVE CarriedAge(i)'
    <3>1. CASE Run
      BY <2>1, <3>1, CarriedRun
    <3>2. CASE Tick
      BY <2>1, <3>2, CarriedTick DEF CarriedInv
    <3>3. CASE ~Run /\ ~Tick
      BY <2>1, <3>3, CarriedElsewhere DEF CarriedInv, Next
    <3> QED BY <3>1, <3>2, <3>3
  <2>2. CarriedAges'
    BY <2>1 DEF CarriedAges
  <2>3. BreakTimer'
    BY BreakTimerStep DEF CarriedInv
  <2> QED BY <2>2, <2>3, OpenedStep, ForfeitStep DEF CarriedInv
<1>2. CarriedInv => NoCarriedAck
  BY DEF CarriedInv, OpenedAnew, ForfeitAnew, NoCarriedAck
<1> QED
  BY <1>1, <1>2, CarriedInit, StoryInvInit, StoryInvStep, AbsenceInit, AbsenceStep, TypeCorrect,
     PTL DEF Spec
=============================================================================
