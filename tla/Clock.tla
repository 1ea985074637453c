------------------------------- MODULE Clock -------------------------------
(* One round on the page's own clock (web/kxp.js, and tick, planFromCountdown  *)
(* and the timers of web/app.js): the server announces when PUN falls, and the *)
(* page counts down to it by a wall clock that may be wrong, and may be set,   *)
(* at any time. Time is counted in halves of a beat; timers fire on time.      *)
EXTENDS Integers, FiniteSets

CONSTANTS
    Window, \* windowMs
    Errs,   \* by how much the page may misread the server's clock, 0 when it does not
    Steps,  \* how often that may change in one behaviour (a bound)
    Never

VARIABLES
    now,     \* the server's clock, from the first frame of the countdown
    err,     \* Date.now() + clockSkew, less that
    next,    \* the next frame of the stream
    screen,
    label,   \* what #count shows
    planned, \* there is a stepper, and
    last,    \* the beat it has painted last
    slotAt, punAt, shootAt, \* when slotTimer, punTimer and shootTimer fire
    moves,   \* the moves can be pressed
    steps,   \* how often err may still change
    hi, lo,  \* aux: the largest and the smallest err so far
    right    \* aux: since when err has been 0

clock == <<now, err, steps, hi, lo, right>>
timers == <<slotAt, punAt, shootAt>>
painter == <<label, planned, last>>
vars == <<clock, next, screen, painter, timers, moves>>

(* COUNTDOWN_SLOTS *)
Beat == {[label |-> "READY", off |-> 6], [label |-> "KA", off |-> 4], [label |-> "CHI", off |-> 2]}
Cap == 2
S == 6
AllOver == S + Window + 2

Init ==
    /\ now = 0 /\ err = 0 /\ steps = Steps /\ hi = 0 /\ lo = 0 /\ right = 0
    /\ next = 1 /\ screen = "matched" /\ label = "" /\ planned = FALSE /\ last = ""
    /\ slotAt = Never /\ punAt = Never /\ shootAt = Never /\ moves = FALSE

-----------------------------------------------------------------------------
(* msUntilPun, to a page that misreads the clock by e *)
Left(e) == S - (now + e)

(* countdownSlot: the beat that has begun and not ended *)
Due(left) == {b \in Beat : 0 < left /\ left <= b.off /\ \A c \in Beat : left <= c.off => b.off <= c.off}
(* mutant: the time to the first beat is waited out *)
WaitUncapped(left) ==
    IF left <= 0 THEN 0 ELSE IF Due(left) = {} THEN left - S
    ELSE left - ((CHOOSE b \in Due(left) : TRUE).off - 2)
(* countdownPainter's wait *)
Wait(left) ==
    IF left <= 0 THEN 0
    ELSE IF Due(left) = {} THEN IF left - S < Cap THEN left - S ELSE Cap
    ELSE left - ((CHOOSE b \in Due(left) : TRUE).off - 2)

(* tick. The stepper reports a beat when it is not the last one it reported.   *)
Tick(left, memory) ==
    /\ IF \E b \in Due(left) : b.label # memory
       THEN \E b \in Due(left) : label' = b.label /\ last' = b.label
       ELSE last' = memory /\ UNCHANGED label
    /\ slotAt' = IF Wait(left) > 0 THEN now + Wait(left) ELSE Never

(* mutant: PUN is left to its frame *)
PunUnplanned(left) == Never
(* planRound: PUN falls when the schedule says, or at once if that is past and *)
(* the window open                                                             *)
PunPlanned(left) == IF left + Window > 0 THEN now + (IF left > 0 THEN left ELSE 0) ELSE Never

(* planFromCountdown *)
EnterCountdown(e) ==
    /\ screen' = "countdown" /\ planned' = TRUE
    /\ Tick(Left(e), IF planned THEN last ELSE "")
    /\ punAt' = PunPlanned(Left(e))
    /\ UNCHANGED <<shootAt, moves>>

(* mutant: the window is counted from when the page opens it *)
RemainingAnew(e) == Window
(* shootWindow *)
Remaining(e) == IF Left(e) + Window > 0 THEN Left(e) + Window ELSE 0

EnterShoot(e) ==
    /\ screen' = "shoot"
    /\ label' = IF Remaining(e) > 0 THEN "PUN" ELSE "waiting"
    /\ moves' = (moves \/ Remaining(e) > 0)
    /\ shootAt' = now + Remaining(e)
    /\ UNCHANGED <<planned, last, slotAt>>
-----------------------------------------------------------------------------
(* The stream: three frames of the countdown and the one of PUN, in order, each *)
(* at any time after it was sent; some never come.                             *)
SentAt(n) == 2 * (n - 1)
Frame(n) ==
    /\ n \in next..4 /\ SentAt(n) <= now
    /\ next' = n + 1
    /\ \/ n < 4 /\ screen \in {"matched", "countdown"} /\ EnterCountdown(err)
       \/ n = 4 /\ screen = "countdown" /\ EnterShoot(err) /\ UNCHANGED punAt
       \/ /\ screen \notin (IF n < 4 THEN {"matched", "countdown"} ELSE {"countdown"})
          /\ UNCHANGED <<screen, painter, timers, moves>>
    /\ UNCHANGED clock

(* The page comes to misread the clock by e *)
Misread(e) ==
    /\ steps > 0 /\ steps' = steps - 1
    /\ err' = e
    /\ hi' = (IF e > hi THEN e ELSE hi) /\ lo' = (IF e < lo THEN e ELSE lo)
    /\ right' = IF e # 0 THEN Never ELSE IF err = 0 THEN right ELSE now
    /\ UNCHANGED now

(* The clock of the phone is set *)
ClockSet == \E e \in Errs : e # err /\ Misread(e) /\ UNCHANGED <<next, screen, painter, timers, moves>>

(* The stream is opened again, before the window closes: the snapshot measures *)
(* the skew and puts the page into the round as it is.                         *)
Reconnect ==
    /\ now < S + Window /\ Misread(0)
    /\ next' = CHOOSE n \in next..5 : (n = 5 \/ SentAt(n) > now) /\ \A k \in next..(n - 1) : SentAt(k) <= now
    /\ IF now < S THEN EnterCountdown(0) ELSE EnterShoot(0) /\ UNCHANGED punAt

(* The timers *)
SlotTimer ==
    /\ slotAt = now
    /\ IF screen = "countdown" THEN Tick(Left(err), last) ELSE slotAt' = Never /\ UNCHANGED <<label, last>>
    /\ UNCHANGED <<clock, next, screen, planned, punAt, shootAt, moves>>

PunTimer ==
    /\ punAt = now /\ punAt' = Never
    /\ IF screen = "countdown" THEN EnterShoot(err)
       ELSE UNCHANGED <<screen, painter, slotAt, shootAt, moves>>
    /\ UNCHANGED <<clock, next>>

EnterLocked == screen' = "locked" /\ moves' = FALSE

ShootTimer ==
    /\ shootAt = now /\ shootAt' = Never
    /\ IF screen = "shoot" THEN EnterLocked ELSE UNCHANGED <<screen, moves>>
    /\ UNCHANGED <<clock, next, painter, slotAt, punAt>>

Pick == screen = "shoot" /\ moves /\ EnterLocked /\ UNCHANGED <<clock, next, painter, timers>>

Passes ==
    /\ now < AllOver /\ now \notin {slotAt, punAt, shootAt}
    /\ now' = now + 1
    /\ UNCHANGED <<err, steps, hi, lo, right, next, screen, painter, timers, moves>>

Next ==
    \/ \E n \in 1..4 : Frame(n)
    \/ ClockSet \/ Reconnect \/ SlotTimer \/ PunTimer \/ ShootTimer \/ Pick \/ Passes

Spec == Init /\ [][Next]_vars
-----------------------------------------------------------------------------
(* PUN is on the screen no earlier and no later than the server takes moves,   *)
(* but for what the page's clock was wrong by: whatever frames were late or    *)
(* lost, and whether a frame, a timer or a snapshot opened the window          *)
(* (shootWindow, planRound).                                                   *)
WindowIsTheServers ==
    screen = "shoot" /\ label = "PUN" => S - hi <= now /\ now <= S + Window - lo

(* "A dropped or stalled `shoot` frame can then no longer cost the round": to a *)
(* page whose clock is right one frame of the countdown opens the window, for  *)
(* as long as the server's is open.                                            *)
OneFrameOpensTheWindow ==
    hi = 0 /\ lo = 0 /\ planned /\ punAt # now /\ S <= now /\ now < S + Window
        => screen \in {"shoot", "locked"}

(* The beat on the screen is the one that is due once the clock has been right *)
(* for SLOT_CAP_MS, as long as the count goes on (countdownPainter): a reading *)
(* past PUN ends it until the next frame, and what a window that was opened,   *)
(* or found closed, too early has put there stands until the next beat.        *)
CountIsDue ==
    /\ screen = "countdown" /\ slotAt # Never /\ slotAt > now /\ label \notin {"PUN", "waiting"}
    /\ right # Never /\ now > right + Cap
    => \A b \in Due(Left(0)) : label = b.label
=============================================================================
