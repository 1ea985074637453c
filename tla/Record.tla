------------------------------- MODULE Record -------------------------------
(* The match history of a browser (web/app.js): the rounds of the match in     *)
(* progress are gathered as their results arrive, and filed under the match    *)
(* that decides it. Requests are granted at once here; Page has them on their  *)
(* way. The shoot window's own timers add no record and are left out.          *)
EXTENDS Browser

CONSTANTS HistoryCap, None

VARIABLES
    ctx,     \* matchCtx: the match its length was announced by, 0 when it was not
    rounds,  \* pendingRounds, each with the match it was a round of
    filed,   \* kxp-history, newest first, each entry with the match that decided it
    on,      \* aux: the match that is under way for the page, 0 when none is
    entered  \* aux: the matches it was taken to straight from such a one

vars == <<feed, screen, decided, ctx, rounds, filed, on, entered>>
record == <<ctx, rounds, filed>>

Init ==
    /\ FeedInit /\ screen = "lobby" /\ decided = FALSE
    /\ ctx = None /\ rounds = <<>> /\ filed = <<>> /\ on = 0 /\ entered = {}

-----------------------------------------------------------------------------
(* recordRound. A frame that names no round is one only when nothing else is   *)
(* recorded; round one starts a new record.                                    *)
Named(f) == f.ev \in {"result", "final"}
RecordRound(f) ==
    IF Named(f)
    THEN Append(IF f.round = 1 THEN <<>> ELSE rounds, [match |-> f.match, round |-> f.round])
    ELSE IF rounds # <<>> THEN rounds ELSE <<[match |-> f.match, round |-> 1]>>

(* mutant: every result is filed as a match *)
FinalEveryTime(f) == TRUE
(* A result without the word of a series is final *)
Final(f) == f.ev # "result"

(* commitMatch: the plain opponent-left does not say how long the match was *)
Length(f) == IF f.ev = "opponentLeft" THEN IF ctx = None THEN 0 ELSE ctx ELSE f.match
CommitMatch(f) ==
    LET all == <<[match |-> f.match, length |-> Length(f), rounds |-> RecordRound(f)]>> \o filed
    IN SubSeq(all, 1, IF Len(all) > HistoryCap THEN HistoryCap ELSE Len(all))

EnterResult(f) ==
    /\ decided' = Final(f)
    /\ IF Final(f) THEN filed' = CommitMatch(f) /\ ctx' = None /\ rounds' = <<>>
       ELSE rounds' = RecordRound(f) /\ UNCHANGED <<ctx, filed>>

(* enter.matched keeps the context that is set, with its rounds: a page that   *)
(* comes back is readmitted into the match it was playing                      *)
EnterMatched(f) ==
    /\ ctx' = IF f.ev = "matched" THEN f.match ELSE IF ctx = None THEN 0 ELSE ctx
    /\ rounds' = IF ctx = None THEN <<>> ELSE rounds
    /\ decided' = FALSE
    /\ UNCHANGED filed

(* mutant: the lobby forgets the match, not its rounds *)
EnterLobbyKeeping == decided' = FALSE /\ UNCHANGED <<ctx, rounds, filed>>
(* enter.lobby: an unfinished match is not a record of anything *)
EnterLobby == decided' = FALSE /\ ctx' = None /\ rounds' = <<>> /\ UNCHANGED filed

(* A screen that keeps no record *)
EnterOther == decided' = FALSE /\ UNCHANGED record

InMatch == {"matched", "countdown", "shoot", "result"}
Enter(to, f) ==
    /\ screen' = to
    /\ CASE to = "result" -> EnterResult(f)
         [] to = "matched" -> EnterMatched(f)
         [] to = "lobby" -> EnterLobby
         [] OTHER -> EnterOther
    /\ on' = IF to = "lobby" \/ (to = "result" /\ Final(f)) THEN 0
             ELSE IF to \in InMatch THEN f.match
             ELSE on
    /\ entered' = IF to \in InMatch /\ on \notin {0, f.match} THEN entered \union {f.match} ELSE entered
-----------------------------------------------------------------------------
Receive == \E f \in {Head(wire)} : \E ev \in Events(f) :
    /\ Takes(screen, ev) /\ Read(f, ev) /\ Enter(To(screen, ev), f)

Drop == Ignored(Head(wire)) /\ UNCHANGED <<screen, decided, record, on, entered>>

(* A button that leads to another screen, and those that ask for a match *)
Go(ev) ==
    /\ Press(ev) /\ Takes(screen, ev) /\ screen' = To(screen, ev)
    /\ IF screen' = "lobby" THEN EnterLobby /\ on' = 0 ELSE EnterOther /\ UNCHANGED on
    /\ UNCHANGED entered

PlayCPU == PressCPU /\ UNCHANGED <<screen, decided, record, on, entered>>
Search == PressSearch /\ UNCHANGED <<screen, decided, record, on, entered>>

Acknowledge ==
    /\ screen \in {"matched", "result"} /\ ~acked /\ TakeReady
    /\ UNCHANGED <<screen, decided, record, on, entered>>

Elsewhere ==
    /\ Serve \/ Reattach \/ Return \/ Lose
    /\ UNCHANGED <<screen, decided, record, on, entered>>

Next ==
    \/ wire # <<>> /\ (Receive \/ Drop)
    \/ (\E ev \in Pressed : Go(ev)) \/ PlayCPU \/ Search \/ Acknowledge \/ Elsewhere

Spec == Init /\ [][Next]_vars
-----------------------------------------------------------------------------
Rows(e) == {e.rounds[i].match : i \in 1..Len(e.rounds)}

(* A match is filed at most once, whatever the stream loses and repeats and    *)
(* however the match ends (commitMatch).                                       *)
EachMatchOnce ==
    \A i, j \in 1..Len(filed) : filed[i].match = filed[j].match => i = j

(* What is filed as one match is of one match: its rounds in order, and the    *)
(* length it was announced with. Only a page taken straight from one match,    *)
(* undecided, to another mixes the two.                                        *)
OneMatchUnlessRequeued ==
    \A i \in 1..Len(filed) :
        LET e == filed[i] IN
        e.match \notin entered =>
            /\ Rows(e) \subseteq {e.match} /\ e.length \in {0, e.match}
            /\ \A j, k \in 1..Len(e.rounds) : j < k => e.rounds[j].round < e.rounds[k].round

(* "A match this client was not in starts a record of its own." (enter.matched): *)
(* no entry of a match that was announced has rounds of another.               *)
ARecordOfItsOwn ==
    \A i \in 1..Len(filed) :
        filed[i].length = filed[i].match => Rows(filed[i]) \subseteq {filed[i].match}
=============================================================================
