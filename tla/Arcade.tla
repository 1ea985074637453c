------------------------------- MODULE Arcade -------------------------------
(* The arcade ladder (web/app.js): runs kept in the browser's local storage,   *)
(* one for each length of a match, read, repaired and written by every tab     *)
(* that has the page open. The handlers of a tab run to completion, so each is *)
(* one action. The matches of the floors are played elsewhere; what the ladder *)
(* sees of one is that it was refused, announced, decided, or lost from view.  *)
EXTENDS Naturals, Sequences, FiniteSets, Machine

CONSTANTS
    Tab,
    PairKey,     \* the lengths the lobby offers, each with its draw rule
    Fighter,
    Roster,      \* the rosters /characters may serve, in its order
    RetryFloors, \* ARCADE_RETRY_FLOORS
    MaxWon,      \* floors won in one run (a bound)
    Choice,      \* the fighters the player may pick (a bound)
    LegacyRun,   \* what the store of one run without a length may hold
    None

VARIABLES
    runs,    \* kxp-arcade-runs
    legacy,  \* kxp-arcade
    picked,  \* kxp-character
    tab,     \* the page in each tab
    past     \* what was really fought: fighters beaten and losses of each run, and
             \* whether it was mixed up: repaired, or decided from a page that
             \* another tab had overtaken

storage == <<runs, legacy, picked>>
vars == <<storage, tab, past>>

Ids(order) == {order[i] : i \in 1..Len(order)}

NewRun(order) ==
    [order |-> order, floor |-> 1, cleared |-> FALSE, won |-> 0, spent |-> 0, lost |-> FALSE]
NewPast == [beaten |-> {}, losses |-> 0, mixed |-> FALSE]

(* What a run that stands where this one does has beaten.                      *)
Below(a) == IF a.cleared THEN Ids(a.order) ELSE {a.order[i] : i \in 1..(a.floor - 1)}

(* A page as it is loaded. climbing is ladderPair, floor is ladderFloor, offer *)
(* is ladderNext; shown is the fighter the tower announces, foe the one the    *)
(* last match was asked against, stale that another tab has written since, and *)
(* then what the tower announces no longer counts.                             *)
NewPage(r) ==
    [screen |-> "lobby", roster |-> r, climbing |-> None, floor |-> 0,
     offer |-> None, shown |-> None, foe |-> None, asked |-> FALSE, stale |-> FALSE]
Closed == [NewPage(<<>>) EXCEPT !.screen = "closed"]

Init ==
    /\ runs = [p \in PairKey |-> None] /\ legacy \in LegacyRun \union {None}
    /\ picked = None
    /\ tab = [t \in Tab |-> Closed]
    /\ past = [p \in PairKey |-> NewPast]

-----------------------------------------------------------------------------
(* loadCharacter: the player's own fighter, if the roster still has it *)
Me(t) == LET r == tab[t].roster IN IF picked \in Ids(r) THEN picked ELSE r[1]

(* drawOrder: the roster shuffled, the player's own fighter last *)
Draws(r, me) == {o \in [1..Len(r) -> Ids(r)] : Ids(o) = Ids(r) /\ o[Len(r)] = me}

(* filter: the elements of s that are in A, in their order                     *)
Kept(s, A) ==
    LET f[i \in 0..Len(s)] ==
          IF i = 0 THEN <<>> ELSE IF s[i] \in A THEN Append(f[i - 1], s[i]) ELSE f[i - 1]
    IN f[Len(s)]

(* repairOrder: the fighters still there in their order, those the run never   *)
(* heard of behind them, the mirror last                                       *)
RepairOrder(r, me, order) ==
    LET kept == Kept(order, Ids(r) \ {me})
    IN kept \o Kept(r, Ids(r) \ (Ids(kept) \union {me})) \o <<me>>

(* readArcade: the stored run, repaired, or a fresh one when there is none or  *)
(* nobody of it is left                                                        *)
Usable(t, p) == runs[p] # None /\ Ids(runs[p].order) \intersect Ids(tab[t].roster) # {}
Readings(t, p) ==
    IF ~Usable(t, p) THEN {NewRun(o) : o \in Draws(tab[t].roster, Me(t))}
    ELSE LET o == RepairOrder(tab[t].roster, Me(t), runs[p].order)
         IN {[runs[p] EXCEPT !.order = o, !.floor = IF @ > Len(o) THEN Len(o) ELSE @]}

(* retryBank *)
Bank(a) == IF a.won \div RetryFloors > a.spent THEN a.won \div RetryFloors - a.spent ELSE 0

(* What has been fought, once a reading of the run is written back *)
PastRead(t, p, a) ==
    IF ~Usable(t, p) THEN NewPast
    ELSE [past[p] EXCEPT !.mixed = @ \/ a.order # runs[p].order]

Write(p, a, h) ==
    runs' = [runs EXCEPT ![p] = a] /\ past' = [past EXCEPT ![p] = h]

(* This tab's page moves on; a tab on the same run has been overtaken by what  *)
(* was written.                                                                *)
Overtaken(page) == [page EXCEPT !.stale = TRUE, !.shown = None]
Turn(t, page) ==
    tab' = [u \in Tab |->
              IF u = t THEN page
              ELSE IF \E p \in PairKey : tab[u].climbing = p /\ runs'[p] # runs[p]
              THEN Overtaken(tab[u]) ELSE tab[u]]

(* enter.lobby, as far as the ladder goes *)
AtLobby(page) ==
    [page EXCEPT !.screen = "lobby", !.climbing = None, !.floor = 0, !.offer = None,
                 !.shown = None, !.foe = None]
-----------------------------------------------------------------------------
(* The page is loaded, or loaded again. The length that was selected last, any *)
(* of them, is restored, and reading the label of its run moves a run of the   *)
(* old store under it.                                                         *)
Load(t) ==
    \E r \in Roster, p \in PairKey :
        LET adopt == legacy # None /\ runs[p] = None
        IN /\ legacy' = None
           /\ Write(p, IF adopt THEN legacy ELSE runs[p],
                    IF adopt THEN [NewPast EXCEPT !.beaten = Below(legacy)] ELSE past[p])
           /\ Turn(t, NewPage(r))
           /\ UNCHANGED picked

(* The picker. The choice is every tab's. *)
SelectFighter(t, f) ==
    /\ tab[t].screen = "lobby" /\ f \in Ids(tab[t].roster) /\ picked # f
    /\ picked' = f
    /\ tab' = [u \in Tab |-> IF u = t THEN tab[u] ELSE Overtaken(tab[u])]
    /\ UNCHANGED <<runs, legacy, past>>

(* mutant: the tower is drawn without saving what it shows *)
ShownOnly(t, p, a) == UNCHANGED <<runs, past>>
(* enter.ladder saves the run before showTower draws it *)
SaveShown(t, p, a) == Write(p, a, PastRead(t, p, a))

Tower(t, p, page) ==
    \E a \in Readings(t, p) :
        /\ SaveShown(t, p, a)
        /\ Turn(t, [page EXCEPT !.screen = To(@, "climb"), !.climbing = p, !.stale = FALSE,
                                !.shown = IF a.cleared THEN None ELSE a.order[a.floor]])
        /\ UNCHANGED <<legacy, picked>>

(* startMatch for the ladder, at the length the lobby shows, and playAgain      *)
(* after one of its floors                                                     *)
StartLadder(t, p) == tab[t].screen = "lobby" /\ Tower(t, p, tab[t])
PlayAgain(t) == tab[t].screen = "result" /\ tab[t].offer # None /\ Tower(t, tab[t].climbing, tab[t])

(* mutant: the loss stays on the books *)
SpentAgain(a) ==
    IF a.lost THEN [a EXCEPT !.spent = IF Bank(a) > 0 THEN @ + 1 ELSE @] ELSE a
(* postCPU: the replay of a lost floor spends the retry *)
Spent(a) ==
    IF a.lost THEN [a EXCEPT !.spent = IF Bank(a) > 0 THEN @ + 1 ELSE @, !.lost = FALSE]
    ELSE a

(* The tower's button: a cleared run is drawn anew, the floor is remembered and *)
(* saved, and the match asked for.                                             *)
Fight(t) ==
    LET p == tab[t].climbing IN
    /\ tab[t].screen = "ladder"
    /\ \E a \in Readings(t, p) :
       \E b \in IF a.cleared THEN {NewRun(o) : o \in Draws(tab[t].roster, Me(t))}
                ELSE {Spent(a)} :
          /\ Write(p, b, IF a.cleared THEN NewPast ELSE PastRead(t, p, a))
          /\ Turn(t, [tab[t] EXCEPT !.floor = b.floor, !.foe = b.order[b.floor],
                                    !.asked = TRUE, !.stale = FALSE])
    /\ UNCHANGED <<legacy, picked>>

(* The answer to the request: nothing, or a match announced on any screen *)
Refused(t) ==
    /\ tab[t].asked
    /\ tab' = [tab EXCEPT ![t].asked = FALSE]
    /\ UNCHANGED <<storage, past>>

Matched(t) ==
    /\ tab[t].asked /\ Takes(tab[t].screen, "matched")
    /\ tab' = [tab EXCEPT ![t].asked = FALSE, ![t].screen = To(@, "matched"),
                          ![t].offer = None, ![t].shown = None]
    /\ UNCHANGED <<storage, past>>

(* advanceLadder: the run after a decided floor, None when it is over *)
(* mutant: a banked retry lets the run climb on *)
AfterLossClimbs(a) ==
    IF Bank(a) > 0 THEN [a EXCEPT !.lost = TRUE, !.floor = IF @ < Len(a.order) THEN @ + 1 ELSE @]
    ELSE None
AfterLoss(a) == IF Bank(a) > 0 THEN [a EXCEPT !.lost = TRUE] ELSE None
AfterWin(a) ==
    LET top == a.floor >= Len(a.order) IN
    [a EXCEPT !.won = @ + 1, !.lost = FALSE, !.cleared = top, !.floor = IF top THEN 1 ELSE @ + 1]
AfterVoid(a) == [a EXCEPT !.cleared = FALSE]

(* The final result of a match. A floor is decided by a win or a loss; a round *)
(* nobody can be charged with decides none.                                    *)
Result(t, outcome) ==
    LET p == tab[t].climbing
        page == [tab[t] EXCEPT !.screen = "result", !.foe = None]
    IN /\ tab[t].screen = "matched"
       /\ \/ /\ tab[t].floor = 0
             /\ tab' = [tab EXCEPT ![t] = page]
             /\ UNCHANGED <<runs, past>>
          \/ /\ tab[t].floor # 0
             /\ \E a \in Readings(t, p) :
                LET h == PastRead(t, p, a)
                    seen == [h EXCEPT !.mixed = @ \/ tab[t].stale]
                IN \/ /\ outcome = "win" /\ a.won < MaxWon
                      /\ Write(p, AfterWin(a), [seen EXCEPT !.beaten = @ \union {tab[t].foe}])
                      /\ Turn(t, [page EXCEPT !.offer =
                                    IF AfterWin(a).cleared THEN "done" ELSE "next"])
                   \/ /\ outcome = "loss"
                      /\ IF AfterLoss(a) # None
                         THEN /\ Write(p, AfterLoss(a), [seen EXCEPT !.losses = @ + 1])
                              /\ Turn(t, [page EXCEPT !.offer = "retry-loss"])
                         ELSE /\ Write(p, None, NewPast)
                              /\ Turn(t, [page EXCEPT !.offer = "done", !.floor = 0])
                   \/ /\ outcome = "void"
                      /\ Write(p, AfterVoid(a), seen)
                      /\ Turn(t, [page EXCEPT !.offer = "retry-floor"])
       /\ UNCHANGED <<legacy, picked>>

(* Change Mode, the tower's leave button, or a reconnection whose snapshot     *)
(* finds no match                                                              *)
ToLobby(t) ==
    /\ tab[t].screen \in {"ladder", "matched", "result"}
    /\ tab' = [tab EXCEPT ![t] = AtLobby(@)]
    /\ UNCHANGED <<storage, past>>

Next ==
    \E t \in Tab :
        \/ Load(t)
        \/ \E f \in Choice : SelectFighter(t, f)
        \/ (\E p \in PairKey : StartLadder(t, p)) \/ Fight(t) \/ Refused(t) \/ Matched(t)
        \/ \E outcome \in {"win", "loss", "void"} : Result(t, outcome)
        \/ PlayAgain(t) \/ ToLobby(t)

Spec == Init /\ [][Next]_vars

-----------------------------------------------------------------------------
(* Below the player is what has been beaten, above it what has not (showTower): *)
(* a run that was never repaired, nor decided from a page that another tab had *)
(* overtaken, stands where the fights it really won have taken it.             *)
BelowIsBeaten ==
    \A p \in PairKey :
        LET a == runs[p] IN
        a # None /\ ~past[p].mixed =>
            past[p].beaten = Below(a)

(* Every loss a run survived was paid for, once: with a retry that a won floor *)
(* had banked, spent already or due at the next fight.                         *)
LossesArePaid ==
    \A p \in PairKey :
        LET a == runs[p] IN
        a # None =>
            /\ a.spent + (IF a.lost THEN 1 ELSE 0) <= a.won \div RetryFloors
            /\ ~past[p].mixed => past[p].losses = a.spent + (IF a.lost THEN 1 ELSE 0)

(* The fighter the tower announces is the one its button sends out, unless     *)
(* another tab has written in between.                                         *)
TowerKeepsItsWord ==
    [][\A t \in Tab : Fight(t) /\ tab[t].shown # None
                        => tab'[t].foe = tab[t].shown]_vars
=============================================================================
