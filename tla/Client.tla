------------------------------- MODULE Client -------------------------------
(* Three parts of the page that share nothing but the stream, side by side:    *)
(* the match history, the match screen with its acknowledgements, and the      *)
(* arcade ladder in its tabs. Which one a behaviour is of is chosen at its     *)
(* start.                                                                      *)
EXTENDS Integers, Sequences

CONSTANTS
    MaxRound, MaxWire, HistoryCap, None, \* see Feed and Record
    HistoryBudget, ScreenBudget,         \* Feed's, of the history and of the screen
    Tab, PairKey, Fighter, Roster, Choice, RetryFloors, MaxWon, LegacyRun \* see Arcade

ASSUME StreamAssumption ==
    /\ MaxRound \in Nat /\ MaxWire \in Nat /\ HistoryCap \in Nat /\ None \notin Nat
    /\ HistoryBudget \union ScreenBudget \subseteq [matches : Nat, breaks : Nat, losses : Nat]

(* Everybody is on a roster once. A run of the old store has all its fighters  *)
(* on floors, is at the bottom when it is cleared, and knows of no retries:    *)
(* they are younger than the store that took its place.                        *)
ASSUME LadderAssumption ==
    /\ RetryFloors \in Nat \ {0} /\ MaxWon \in Nat /\ None \notin PairKey \union Fighter
    /\ None \notin [order : Seq(Fighter), floor : Nat, cleared : BOOLEAN,
                    won : Nat, spent : Nat, lost : BOOLEAN]
    /\ \A r \in Roster : r \in Seq(Fighter) /\ r # <<>> /\ \A i, j \in 1..Len(r) : r[i] = r[j] => i = j
    /\ \A a \in LegacyRun :
          /\ a \in [order : Seq(Fighter), floor : Nat, cleared : BOOLEAN,
                    won : Nat, spent : Nat, lost : BOOLEAN]
          /\ a.floor \in 1..Len(a.order) /\ (a.cleared => a.floor = 1)
          /\ a.won = 0 /\ a.spent = 0 /\ ~a.lost

VARIABLES
    part,
    queueing, invite, playing, requeued, cpu, linked, match, round, acked,
    phase, between, failed, heard, wire, budget, screen, decided,
    ctx, rounds, filed, on, entered,
    view, stage, loading, hidden, armed, frames, beating, painted, sent,
    runs, legacy, picked, tab, past

stream == <<queueing, invite, playing, requeued, cpu, linked, match, round, acked,
            phase, between, failed, heard, wire, budget, screen, decided>>
record == <<ctx, rounds, filed, on, entered>>
game == <<view, stage, loading, hidden, armed, frames, beating, painted, sent>>
ladder == <<runs, legacy, picked, tab, past>>

History == INSTANCE Record WITH Budget <- HistoryBudget
Screen == INSTANCE Stage WITH Budget <- ScreenBudget
Tower == INSTANCE Arcade

Init ==
    \/ /\ part = "history" /\ History!Init
       /\ view = "" /\ stage = 0 /\ loading = {} /\ hidden = FALSE /\ armed = FALSE
       /\ frames = {} /\ beating = 0 /\ painted = FALSE /\ sent = FALSE
       /\ runs = <<>> /\ legacy = None /\ picked = None /\ tab = <<>> /\ past = <<>>
    \/ /\ part = "screen" /\ Screen!Init
       /\ ctx = None /\ rounds = <<>> /\ filed = <<>> /\ on = 0 /\ entered = {}
       /\ runs = <<>> /\ legacy = None /\ picked = None /\ tab = <<>> /\ past = <<>>
    \/ /\ part = "tower" /\ Tower!Init /\ History!Init
       /\ view = "" /\ stage = 0 /\ loading = {} /\ hidden = FALSE /\ armed = FALSE
       /\ frames = {} /\ beating = 0 /\ painted = FALSE /\ sent = FALSE

Next ==
    /\ UNCHANGED part
    /\ \/ part = "history" /\ History!Next /\ UNCHANGED <<game, ladder>>
       \/ part = "screen" /\ Screen!Next /\ UNCHANGED <<record, ladder>>
       \/ part = "tower" /\ Tower!Next /\ UNCHANGED <<stream, record, game>>

Spec == Init /\ [][Next]_<<part, stream, record, game, ladder>>

-----------------------------------------------------------------------------
(* A match is filed at most once: see Record.                                  *)
EachMatchOnce == part = "history" => History!EachMatchOnce

(* What is filed as one match is of one match, unless the page was taken       *)
(* straight from another: see Record.                                          *)
OneMatchUnlessRequeued == part = "history" => History!OneMatchUnlessRequeued

(* No acknowledgement of a gate that is closed: see Stage.                     *)
AcksAnOpenGate == part = "screen" => Screen!AcksAnOpenGate

(* No acknowledgement by a page nobody sees: see Stage.                        *)
PresenceIsPainted == part = "screen" => Screen!PresenceIsPainted

(* The frame an arm waits for comes after its background: see Stage.           *)
FramesFollowDecode == part = "screen" => Screen!FramesFollowDecode

(* The game view is the match's: see Stage.                                    *)
GameViewIsTheMatchs == part = "screen" => Screen!GameViewIsTheMatchs

(* Below the player is what has been beaten: see Arcade.                       *)
BelowIsBeaten == part = "tower" => Tower!BelowIsBeaten

(* Every loss was paid for with a retry: see Arcade.                           *)
LossesArePaid == part = "tower" => Tower!LossesArePaid

(* The tower's button sends out the fighter it shows: see Arcade.              *)
TowerKeepsItsWord ==
    [][\A t \in Tab : part = "tower" /\ Tower!Fight(t) /\ tab[t].shown # None
                        => tab'[t].foe = tab[t].shown]_ladder
=============================================================================
