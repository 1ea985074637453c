# KACHIPUN: formal models, checks and proofs

KACHIPUN (`kxp`) is a real-time rock-paper-scissors tournament: a Go server
(`src/*.go`) that pairs players and judges rounds against its own clock, and a
browser client (`src/web/`). This directory holds TLA+ modules for the server
and for the page, the TLC runs that check them on small instances, and proofs
that TLAPS checks for every value of the constants. `PROJECT.json` lists, for
every definition, the lines of code it stands for, and for every property of a
passing run a mutated definition under which TLC finds it violated.

## 1. Inventory

| component | code | state | operations | what makes it correct |
| --- | --- | --- | --- | --- |
| round rules | `game.go`, `judgeRound`, `judge` | none (pure) | score a pair of picks, tally, decide the match | silence is void, not a loss; a match ends exactly when its rules say |
| match engine | `round.go` | phase (atomic), picks, tally, readiness stamps, `betweenRounds`, `shootAt`, move channels | the `run` goroutine; `/ready`, `/move`; the CPU goroutine; a departure; time | no pick in a foreign round, no lost tap, every ending told once to everyone who is there, gates resolve, departures end the match |
| hub: queue | `server.go` | `h.queue`, `c.queueing`, `c.match` | `/queue`, `/cancel`, `tryMatch`, `requeue`, `removeClient`, `finishMatch` | one seat per client, one match per client, no pair overlooked, nobody left pointing at a dead match |
| hub: challenges | `server.go` | `h.challenges`, `h.challenge` | `/challenge`, `/join`, and every drop | the two indexes agree; a link in play is freed with its match |
| hub: CPU and capacity | `server.go` | `h.active` (atomic) | `/cpu` | the cap holds where it is applied |
| connections | `server.go` | `h.clients`, `connID`, send buffer, `alive` context | `/events`, `beginConn`, `endConn`, snapshot | nobody stays online without a stream, nobody is left in a match that is over |
| player identity | `server.go` | `h.players`, its FIFO | `resolvePlayerLocked` | a reload is the same player; the registry is bounded |
| shutdown | `server.go`, `round.go`, `main.go` | `h.down`, a WaitGroup, `h.running` | `Shutdown`, `Wait`, the refusal in `startMatchLocked` | no start after the stop, every goroutine woken and joined |
| rate limiter | `ratelimit.go` | a bucket per address | `allow`, eviction | the burst and the rate are capped, the map is bounded |
| page: screen machine | `web/machine.js`, `web/app.js` | the screen, the view, pending buttons, the invite flag, the readiness loop, the watchdog | frames, buttons, answers, timers | screen and seat agree; no screen without a way out; only open gates are acknowledged |
| page: clock, statistics | `web/kxp.js`, `web/app.js` | the schedule, three timers, `kxp-stats` | countdown, window, streaks | the page's window is the server's; the numbers are those of the results |
| page: ladder, history | `web/app.js` | local storage shared by tabs | runs, retries, records | a floor is beaten before it is passed, a loss is paid for, a match is filed once and by itself |
| observability, roster, plumbing | `observability.go`, `characters.go`, `version.go`, `main.go` | counters | metrics, health, flags | no protocol state |

**How they interact.** The hub pairs clients (`tryMatch`, `handleCPU`,
`handleJoin`), builds a match around their channels (`makeMatch`) and starts its
goroutine. From there the match knows only channels: picks come in through each
client's one-slot move channel, a departure is the client's `alive` context, and
frames go out through the client's send buffer. The match calls back into the
hub twice: `requeue` when its handshake fails and `finish` when its goroutine
ends. HTTP handlers reach a running match through `c.match`, read under the
hub's lock and used after it has been released. A page has one event stream,
which begins with a snapshot of its seat; each frame is an event of the screen
machine, and entering a screen runs one handler that paints, arms timers and
files what is to be kept. Requests go the other way and their answers cross the
frames.

**What is hard.** On the server everything runs concurrently: one goroutine per
match, one per CPU throw, one per `tryMatch`, one per HTTP request. The hub's
lock makes each critical section atomic and nothing else: a request resolves its
client in one section and acts in another; `removeClient` cancels a context
after it has unlocked; a side requeued by a failed handshake may be playing
again before its old match is torn down. The engine's flags are separate
atomics, its gates measure leases against a clock, and a Go `select` chooses at
random among ready cases. The page is single-threaded, but its callbacks come in
any order: a promise that resolves after the screen has changed, a frame painted
late, a timer against a frame, an answer overtaken by a match, a snapshot that
repeats or skips what happened meanwhile, a second tab writing the same storage.
These are the hazards `PROJECT.json` lists line by line.

## 2. Modules

| module | models | checked by | proved in |
| --- | --- | --- | --- |
| `Rules` | scoring, tally, the end of a match, as operators | `MCRules`, `MCParts` | `PartsProofs`, and used by `MatchProofs` |
| `Match` | the engine: one match, from handshake to `finish` | `MCMatch`, `MCMatchEnds` | `MatchProofs`, `StoryProofs` |
| `Series` | what one side hears of a match: the abstract specification | through `MatchStory`, `Feed` | `StoryProofs` |
| `MatchStory` | the refinement mapping from `Match` to `Series` | `MCMatch` | `StoryProofs` |
| `Hub` | the hub: clients, queue, reservations, matches | `MCHub` | `HubProofs` |
| `Matchmaking` | what the hub promises its clients: the abstract specification | through `HubPromise` | `HubProofs` |
| `HubPromise` | the refinement mapping from `Hub` to `Matchmaking` | `MCHub` | `HubProofs` |
| `Streams` | event streams, client records, send buffers, the stop | `MCStreams` | `StreamsProofs` |
| `RateLimiter` | the token buckets | `MCParts` | `PartsProofs` |
| `Clock` | one round on the page's clock | `MCParts` | `PartsProofs` |
| `Stats` | wins and streaks | `MCParts` | `PartsProofs` |
| `Parts` | rules, limiter, clock and statistics, side by side | `MCParts` | `PartsProofs` |
| `Feed` | the server as one page meets it, its matches told by `Series` | with the five below | `PageProofs`, `StorageProofs` |
| `Machine` | the transition table of the page | with the five below | `PageProofs`, `ScreenProofs`, `StorageProofs` |
| `Browser` | how a frame becomes an event: EXTENDS `Feed` and `Machine` | with the four below | `PageProofs` |
| `Page` | buttons, requests, answers and timers against the server | `MCPage` | `PageProofs` |
| `Record` | the match history | `MCClient`, `MCRecord` | `StorageProofs` |
| `Stage` | views, backgrounds, the readiness loop | `MCClient` | `ScreenProofs` |
| `Arcade` | the ladder's runs in local storage, two tabs | `MCClient` | `StorageProofs` |
| `Client` | history, screen and ladder, side by side | `MCClient` | `ScreenProofs`, `StorageProofs` |

`Match` EXTENDS `Rules`. `Match` and `Hub` meet at the three places where the
code does: `Match` starts where `startMatchLocked` has launched the goroutine,
its `Leave` is `removeClient` seen from inside and its `Finish` is `finishMatch`
seen from inside; `Hub` lets a running match end, or fail its handshake, at any
time, and offers back the sides `Match` says it may (`offered`). `Streams` looks
at the same hub from the side of the connections: it splits `removeClient` from
the check in `endConn` and the teardown frames from `finishMatch`, and reduces
queueing and pairing to one step each: any client that plays nothing may take a
seat, and any two that are seated may be paired. So what `Hub` checks holds
whatever a match does, and what `Match` checks holds whatever the hub does to
its two clients.

There are two abstract specifications. `Matchmaking` says what the hub promises:
where a client may be and how it gets there. `Hub` implements it when each player
has one connection (`KeepsItsPromise`, checked and proved).

`Series` is the joint between server and page. `Match` implements it
(`TellsAStory`, checked and proved), and `Feed` INSTANCEs it twice, once for a
match with gates and once for one without, to produce the frames a page can hear.
`Page`, `Record` and `Stage` EXTEND `Browser`, so each of them runs the same
server, stream and screen machine against another part of the page's state.
`Parts` and `Client` hold parts that share nothing; which one a behaviour is of
is chosen at its start, so that each is checked, and proved, as if it ran alone.

### Rules

`JudgeRound` is `judgeRound` case by case, including the case that names the
wrong winner (section 6). A pick is abstracted to *when* it arrived relative to
the window that judges it and *which* move it was.

### Match

State and code: `phase` is `m.phase`; `pc` is where `run` stands; `timer` is
the timer of the select it stands in; `shootIn` is the time left to `shootAt`;
`ackAge` the age of `readyAt`; `chan` the one-slot move channels; `post` a
`/move` between the lines of its handler; `acking` a `/ready` between its gate
check and `ackReady`; `between` is `betweenRounds`; `sent` the last frame each
side was sent. One action per step of the goroutine that other goroutines can
observe or overtake: the gate's check and its select are two steps, so are
`phase` leaving `shoot` and the judgement, the two cases of `forfeitOnTimeout`,
the deferred block and `finishMatch`.

* Time is discrete. A tick is any unit; timers count down and ages count up to
  just past the lease, so no clock grows. A goroutine that is ready to move
  may be overtaken by ticks.
* A pick carries when it arrived and under which schedule it was stamped
  ("this" round's, "opening" for one sent ahead during the first handshake,
  "past" for an earlier round's). `Begin` moves picks in flight to the past.
* Which move was thrown is chosen at the judgement; nothing before depends on it.
* `scored` stands for `m.round > 1`, and the round number itself is not kept.
* `carried` is not in the code: it marks an ack that was given before a gate
  that has opened since, so that `NoCarriedAck` can be stated.

Bounds on the environment, each a constant: `Latency` (ticks a `/move` spends
between its stamp and its buffer), `MaxInFlight` (requests caught between two
steps), `Throwers` (which sides throw at all).

### Series and MatchStory

`Series` knows the phase the handlers read, whether a gate between two rounds is
open, whether a handshake has failed, and the last frame each player heard.
Each action is written for one player; a step of the match is, for every player
at once, one of these or nothing. The mapping reads `failed` off `abandon` and
`heard` off `sent`, and leaves the CPU out.

### Hub

State and code: `reg` is membership in `h.clients`, `alive` the client's
context, `queue`/`queueing` the queue and the flag, `entry` is `h.challenges`
and `open` is `h.challenge`, `cmatch` is `c.match`, `match` the matches in
`h.running` with what their closures hold, `pending` a request that is past
`requireClient`, `trying` a due `tryMatch` goroutine and `held` a pass that
holds the lock. Every critical section is one action, every gap between two of
them is a state. A `Client` value is one record: it is reused for a new
connection only when nothing refers to the old one. `Match` and `Token` are
identities that are recycled, so they bound what is live at one time.

A join may be refused in any state (the token named may be nobody's), which is
also what the other refusals do: nothing changes.

### Matchmaking and HubPromise

`Matchmaking` knows who is `present`, the modes a client `waits` for, the games it
`plays` (a game is a match with its kind and mode) and the modes a player's
unclaimed link `invites` to. It has no queue order, tokens, requests under way,
passes of `tryMatch` or stages of a match. Its actions say that nobody is put into
a game while in one, that two who are paired wait for the same mode, that a link
is claimed once and by another player, whose owner does not wait in the queue,
and that only who was paired is offered back, for the mode of its game.

`HubPromise` reads the places off the hub. A match is live for a side while it
runs, and after a failed handshake until it has offered the side back or is torn
down. A record that was removed has no place: a request that had resolved it may
still put it in the queue or in a match, of which nobody will hear. A link in play
is claimed, although its token stays until the match is over.

### Streams

State and code: `clients` is `h.clients`; a `Record` is a `*Client`, with `id`,
`owner` (`c.connID`, written as the stream that set it), `alive`, `send` and
`cmatch`; a `Stream` is a `handleEvents` goroutine, `at` its place in the
function and `serves` the record it holds; `stage` is where a match's goroutine
stands between `start` and the end of `finishMatch`, `due` the sides it has
still to announce, requeue or tell; `stop` how far `Shutdown` has come. `view`
is what the browser at the end of a stream last heard, reduced to whether it is
in a match, and `lossy` marks a record of which a frame was dropped, taken by a
stream that is not the owner, or lost in a failing write, until a snapshot
starts it afresh.

* The snapshot's read of the hub and its write are one step, as are a frame's
  receipt from the buffer and its write: the stream is the only writer, and
  nothing else depends on the gap.
* A stream that cannot flush would leave its record without `endConn`; the
  writer `accessLog` passes can always flush, so that branch is not modelled.
* `Collect` forgets a record nothing refers to, so that `Record` bounds those
  live at one time. A request that has resolved its client may act on it as long
  as something refers to it.

### RateLimiter

Tokens are counted in parts and time in what one part takes to refill, so a
bucket may hold a fraction of a token. `tokens` and `since` are the entries of
`byIP`, `known` its keys; a request that finds too little stores nothing, as in
`allow`. Beside them `full` is the bucket that refills all the time, and
`dropped` the addresses whose bucket was evicted before it was full.

### Feed, Machine, Browser

`Feed` holds one page's seat (`queueing`, `invite`, `playing`, `requeued`), the
match as `Series` tells it, the round number and the frames on their way. `cpu`
and `linked` say how its match was made, against the CPU or by a claim of the
page's link: only the sides of a pair are offered back to the queue.
Whatever depends on others is a choice: when a pair is made, whether a request
is refused, when an opponent leaves. A stream breaks in two ways: opened again
in time (`Reattach`) it carries on with a part of what was unsent, behind a
snapshot; too late (`Return`), it is a new client's, and the match the old one
was in has been torn down. A frame other than the snapshot may be dropped
(`Lose`). `Machine` is the table of `machine.js`, edge
by edge. `Browser` is what the `connected` and `state` handlers and the plain
listeners make of a frame: which event it becomes, or that it changes no screen.

### Page, Record, Stage, Arcade

`Page` has the buttons of every screen, the requests under way (`asked`), their
answers (`answers`), `pendingMode`, `pendingButtons`, `challengePending`, the
PUN timer and the watchdog. `adrift` is not in the code: it names what first
parted page and seat, so that `PageAgrees` can say nothing else does.

`Record` has `matchCtx`, `pendingRounds` and the filed entries, each marked with
the match it is really of. `Stage` has the view, the promises of `setBg` with
what is chained to them, the animation frames asked for, the interval of the
acknowledgements and whether the tab is hidden. Both take the screen and the
stream from `Browser`, and grant requests at once, those of the search button
(`PressSearch`, a cancel and a `/queue`) among them.

`Arcade` is one browser's storage with several tabs on it: a run per pair of
length and draw rule, the legacy run that is adopted once, the fighter picked.
`readArcade` repairs what it reads and `saveArcade` writes it back, so one tab's
step is a read and a write of shared state; between two steps of a tab anything
may have been written. `past` keeps what was really fought.

### Clock, Stats

`Clock` counts in halves of a beat. `err` is by how much the page misreads the
server's clock; it may change when the phone's clock is set and when a snapshot
measures the skew anew. Frames come late or never; the three timers fire on
time. `Stats` folds results as `applyResult` does.

## 3. Runs

Passing runs:

| run | instance | shows |
| --- | --- | --- |
| `MCMatchSeries` | two humans, first to 2, both throw | no foreign pick, the score decides, one absence win, no carried ack, no lost tap; and that the engine implements `Series` |
| `MCMatchEnds` | a duel to 1 that replays draws, and a CPU match to 2 that a draw ends | under fairness gates resolve, departures end the match, a match that does not replay draws ends |
| `MCHubQueue` | 3 players, 2 modes, 2 matches, a queue of 2, a cap of 1; `/queue`, `/cpu` | no pair overlooked, one match per client, nobody waits and plays, a seat and its flag agree, nobody points at a dead match; and that every step is one of `Matchmaking`, or none |
| `MCHubTabs` | a player with two tabs against another, 2 tokens, 2 matches, two requests in flight; `/cpu`, `/cancel`, `/challenge`, `/join` | the reservation indexes agree, a link in play names a running match; as long as nobody queues, every step is one of `Matchmaking`, two tabs or not |
| `MCStreams` | 2 ids, 2 records, 2 streams, 1 match, a buffer of 1 | a registered client has a stream that will remove it, no browser is left in a match that is over, the stop wakes all it waits for and lets nothing start |
| `MCParts` | rules: targets to 3; limiter: 3 addresses, a map of 2, 2 tokens of 2 parts, time 8; clock: readings -5, -1, 0, 3, 5, 9, a window of 4, four changes; statistics: six results | silence is void, a match is over for a reason; buckets are exact; the window is the server's, one frame opens it, the beat shown is due; the numbers are those of the runs |
| `MCClient` | history: 3 matches, a break and a loss, two rounds, a history of 2; screen: 2 matches, a break and a loss; ladder: 3 fighters, two tabs, a retry for each won floor, a run of the old store that is under way or cleared | a match is filed once, and by itself unless the page was requeued; only open gates are acknowledged, by a page that has painted; the game view is up when a match is; floors below are beaten, losses paid for, the tower keeps its word |
| `MCPage` | 2 matches and a break, or 1 match and a loss; one round, two frames and one request under way | screen and seat agree, but for six named ways to part them; no page stays in a round whose result never comes |

Violation runs, one for each finding of section 6: `MCRulesFoul`,
`MCHubTwoMatches`, `MCRecordMixed`, `MCPageInvite`.

**Bounds, and why they are enough.** A target of 2 is the least with a round
that is neither the first nor decisive, which is what carried acks, stragglers
and partial tallies need. A lease of 2 with a gate of 3 lets an ack expire
inside one gate and two acks overlap; a window of 1 and a latency of 1 let a
pick be stamped inside and buffered outside. A countdown of 2 beats stands for
the three, a pause of 2 lets an ack of the pause expire. The duel of
`MCMatchEnds` needs a second round, which a draw gives it; its CPU match has no
gate, and ends with a draw.

Three clients are the least with a pair and a bystander to steal a side; two
matches let a requeued side be paired before the old teardown; two tokens let
one player re-open while another is claimed. With two tabs, `MCHubTabs` has the
two tabs of one player and an opponent, and two requests past `requireClient` at
a time. A run sends only the requests (`Asked`) its question needs: all five
with two modes would take TLC hours. The proofs of section 4 have no such bound:
there all five meet. `MCStreams` has two streams, the least that overlap on one
record or serve two players, and a buffer of one is full as soon as a frame
waits.

A limiter with room for two of three addresses evicts a stale entry and one that
is not; two tokens of two parts leave a bucket empty, full, and a part short of
either. A clock that is wrong by a part of a beat, by more than the countdown
and by more than the window, in either direction, meets every comparison of
`kxp.js` on both sides. Six results hold a run, its loss and a second, longer or
shorter one, with a draw anywhere. On the page, two frames under way let a
snapshot stand before an unread frame and a teardown behind a result; a second
match lets what is left of the first show; three matches let a filed one leave a
history of two. `MCPageInvite` needs no match: one break and one request under
way let a snapshot and a cancel cross. Two tabs are the least that overtake each other, three fighters
the least ladder with a floor that is neither first nor last.

**Symmetry.** Matches and tokens are interchangeable everywhere; players are
permuted only in runs where each has one connection (a permutation of the
clients moves the players along), tabs only with each other, modes with each
other. `Streams` distinguishes no id, record, stream or match, `MCParts` no
address, `MCClient` no tab. No liveness run uses symmetry.

**Deadlock** is checked in `MCMatchSeries`, `MCMatchEnds` and the runs of the
hub: an ended match still ticks, and a hub can always be connected to or left.
It is not checked where the model really comes to rest: the hub of `Streams` is
stopped in the end; a round is judged once; limiter, clock and statistics run
out of time and results; and a page that has used up its budget of matches,
breaks and losses may have nothing more to do.

**Fairness.** `MCMatchEnds`: the goroutine, each request in progress and the
CPU's throw are weakly fair, since the Go scheduler runs every runnable
goroutine. Time passes, strongly, because messages in flight may disable a tick
again and again but do not stop the clock. A ready timer that stays ready is
taken in the end although other cases of its select keep competing, since
`select` chooses at random: strong fairness of `GateExpires` and `Deadline`.
Players promise nothing: nobody has to ack, throw or leave. `MCPage`: the
browser delivers what has arrived, runs its window and watchdog timers, and the
match goes on to its end, which is what `MCMatchEnds` shows of it. The player
presses nothing.

## 4. Proofs

TLAPS checks `MatchProofs`, `StoryProofs`, `HubProofs`, `StreamsProofs`,
`PartsProofs`, `PageProofs`, `ScreenProofs` and `StorageProofs` to the last
step. No fact is assumed but the named assumptions on the constants
(`ModeAssumption`, `PacingAssumption`, `HubAssumption`, `NoneAssumption`,
`StreamsAssumption`, `LimiterAssumption`, `PartsAssumption`, `StreamAssumption`,
`FeedAssumption`, `LadderAssumption`), which TLC evaluates in the runs, and the
premises stated in five theorems: how fast a handler and how short a lease is
(`NoPickIsForeign`, `ReadinessIsAskedAnew`), and that a player has one connection
(`OneMatchEach`, `WaitsOrPlays`, `HubKeepsItsPromise`). The assumptions say what a constant is (a number, a set of
records) with two exceptions, both in `LadderAssumption`: nobody is on a roster
twice, as in the one of `characters.go`; and a run of the old store has its
fighter on a floor, is at the bottom once it is cleared, and knows of no retries,
which came with the store that replaced it.

| theorem | says | argument |
| --- | --- | --- |
| `TypeCorrect` | `Match`: `Spec => []TypeOK` | inductive by itself, part by part; stamping, rebasing and posting a pick are lemmas |
| `ScoreIsDecided` | `Match`: `[]ScoreDecides` for every target and pacing | strengthened to `ScoreInv`, below |
| `TerminalStaysLast` | `Match`: after a terminal frame only idle follows | the invariant's `TerminalEnds` says where a terminal frame can have been sent |
| `EngineTellsAStory` | `Match` implements `Series`: `Spec => TellsAStory` | each action is a step of `Series` or none for each human, from `StoryInv`, below |
| `FirstPickStays` | `Match`: a pick that counts stands until its round is judged | from the types: only `Discard` clears a pick, and only outside the window |
| `NoTapIsLost` | `Match`: a tap in its channel when the window closes is counted | whichever case the select takes, the drain follows |
| `NoPickIsForeign` | `Match`: `[]NoForeignPick`, if `Latency < CountSlots` and `Latency < SeriesBreak` | strengthened to `RoundInv`, below |
| `OneAbsenceAtMost` | `Match`: at most one side is told that it won by absence | `AbsenceInv`: before the end nobody has been told so, and each of the two ways to tell it names one side |
| `ReadinessIsAskedAnew` | `Match`: `[]NoCarriedAck`, if `Lease < CountSlots + SeriesBreak` and `Lease < CountSlots + GateTimeout` | strengthened to `CarriedInv`, below |
| `HubTypeCorrect` | `Hub`: `[]TypeOK` for any number of everything | with `ReservationIndexesAgree`, since re-minting needs the entry of the open token |
| `ReservationsPaired` | `Hub`: the two indexes of the reservations agree | one lemma for dropping, one for minting, one for updating an entry |
| `PointersAreLive` | `Hub`: a client's match runs and has it as a side | starting, moving on and finishing a match, seen through `Started` and `SidesOf` |
| `MarksAreSeats` | `Hub`: `[]SeatMatchesFlag` | `SeatInv`: one seat each, and the mark says who has one; where each seat of the queue was before one went is a lemma |
| `NobodyIsOverlooked` | `Hub`: `[]NoMissedPair` | taking seats out makes no pair, and whatever adds one asks for a pass |
| `LinksAreFreed` | `Hub`: `[]InPlayIsRunning` | a teardown drops every link in play for its match, whoever opened it |
| `OneMatchEach` | `Hub`: `[]OneMatchPerClient`, with one connection per player | strengthened to `PlaceInv`, below |
| `WaitsOrPlays` | `Hub`: `[]SeatedIsFree`, with one connection per player | from the same invariant |
| `HubKeepsItsPromise` | `Hub` implements `Matchmaking`, with one connection per player: `Spec => KeepsItsPromise` | each action is a step of `Matchmaking` or none, below |
| `StreamsTypeCorrect` | `Streams`: `[]TypeOK`; a handler that was given a record has one | inductive with `HandlersServe`, part by part |
| `NobodyStaysForever` | `Streams`: `[]NoGhost` for any number of overlapping streams | with `CancelledAreOut`: a handler that is about to cancel has removed its record |
| `NobodyIsStranded` | `Streams`: `[]NoStrandedPlayer` for any buffer and any number of matches | strengthened to `PlayInv`, below |
| `ShutdownWakesAll` | `Streams`: `[]AllWoken` | a stopped hub starts nothing, and a cancelled side stays cancelled |
| `ShutdownAddsNothing` | `Streams`: `NothingStartsUnderWait` | the same lemma |
| `BucketsStayExact` | `RateLimiter`: an address that was not evicted early has the tokens of a bucket that refills all the time | what is idle for `resetAfter` is full, so forgetting it changes nothing |
| `MapStaysBounded` | `RateLimiter`: the map keeps its bound | evicting one entry of a full map makes room for one |
| `SilenceStaysVoid` | `Rules`: a silence is charged to nobody | each case of `JudgeRound`; `RulesInv` says that picks are judged once |
| `EndsForAReason` | `Rules`: a match of any length is over exactly when it is won or may not go on | the tally before the round has no winner, and the round adds at most one win |
| `WindowStaysTheServers` | `Clock`: the page's window is the server's but for the error of its clock | `WindowInv`, below |
| `OneFrameSuffices` | `Clock`: one frame opens the window of a page whose clock is right | `PlanInv`, below |
| `CountRecovers` | `Clock`: the count shows the beat that is due once the clock has been right for a timer's cap | `CountInv`, below |
| `StatsStayTheRuns` | `Stats`: streaks and totals are those of the whole sequence of results | `StatsInv`, below |
| `PageStaysAgreed` | `Page`: once all that is under way has arrived, screen and seat agree, unless one of six named things parted them | `PageInv`, below |
| `OnlyOpenGatesAreAcked` | `Stage`: no acknowledgement of a closed gate | `AckInv`, below |
| `OnlyPaintedPagesAnswer` | `Stage`: only a page that has painted acknowledges | the same |
| `FramesAwaitTheirBackground` | `Stage`: the frame an arm waits for follows its own background | `LoadInv`: promises and frames carry the number of their background |
| `TheGameIsShown` | `Stage`: the game is up when a match is, once nothing is left to decode | `ShownInv`, with `LoadInv` |
| `MatchesAreFiledOnce` | `Record`: a match is filed at most once | `FiledInv` and `WireInv`, below |
| `EntriesAreOfOneMatch` | `Record`: an entry is of one match, its rounds in order, unless the page went from one match straight to another | `Gathered`, below |
| `LossesStayPaid` | `Arcade`: a loss a run survived is paid for | `RunsInv`: a run owes no more than its floors banked, and no less than it lost |
| `BelowStaysBeaten` | `Arcade`: a run stands where the fights it won have taken it | the same, with `TabsInv`, below |
| `TheTowerKeepsItsWord` | `Arcade`: the fighter on show is the one that is sent | `Shows`, a part of `TabsInv` |

*Why `ScoreDecides` needs strengthening.* It speaks of the places where a round
is played, but the tally changes between `judge` and `announce`, where it may
stand at the target. `ScoreInv` adds what holds there: while nothing is decided
no side has reached the target (`PlayingUnreached`); a judged round is closed
(`JudgedClosed`); at the announcement `seriesOver` is set whenever a side has
reached it (`AnnounceSettles`); after it the loop leaves when the series is over
(`DiscardSettles`); a terminal frame has been sent only where nothing is played
any more (`TerminalEnds`); and the final frame was preceded by a decision
(`FinalDecided`). That at most one side takes a win from a round (`OneWinner`)
is a lemma about `JudgeRound`.

*The refinement.* `StoryInv` says, for each place of `run`, which phase the
handlers read there, whether the gate flag is up, and what each human side has
heard last: in the handshake (`InHandshake`), while counting (`InCountdown`), in
the round (`InRound`), in the pause (`InPause`) and at the end (`AtItsEnd`);
a failed handshake is recorded exactly where the engine is settling or leaving
(`Failed`, `FailedGate`), and only humans leave (`HumansLeave`). With that each
action of `Match` maps to one action of `Series`; the one that needs an argument
is the departure, where whoever is still there is told of it (`AbortInforms`).

*Why a pick is not foreign.* A pick of an earlier round can reach the channel
late, but not arbitrarily late. `RoundInv` follows its age: in the pause the age
of a request in flight and what is left of the pause add up to more than
`Latency` (`PauseOutlives`), the same holds of the countdown
(`CountdownOutlives`), so at the discard before the window and in the window
itself whatever is in a channel or on its way was made for this round
(`Settled`, `WindowDue`). The premise says that a handler is faster than a
countdown and than a pause, three seconds and more in the code.

*Why an ack is not carried.* A `carried` ack was given before the gate that is
open; between the two lie a countdown and a pause, or a countdown and a failed
gate, and `CarriedInv` bounds the age of the ack from below by what has passed of
them (`CarriedAges`, `BreakTimer`). When the gate opens (`OpenedAnew`) or is
forfeited (`ForfeitAnew`) a carried ack is older than the lease.

*Why a client is in one place.* `PlaceInv` has two parts that the properties do
not mention. A match is live for a side until it ends, or until its failed
handshake has offered the side back; a client points at the match that is live
for it, and has no seat (`LiveClaims`). And a client whose player has a
reservation open has a seat only while the match it lost is torn down
(`OpenIsSeatless`), because `/challenge` gives the seat up, `/queue` refuses, and
the teardown spends the reservation; so a join, which looks only at the match
pointer, finds its creator outside the queue. The last part is where one
connection per player is needed: `/challenge` gives up the seat of the tab that
asks, and `MCHubTwoMatches` shows what the seat of the other tab leads to.

*The hub's promise.* Each critical section of `Hub` maps to one action of
`Matchmaking` or to a stutter; one lemma per action, from the invariant that
`PlaceInv`, `PointsAtOwnMatch` and the invariants of the indexes and of the queue
make together (`HubPlaces`). What needs an argument is what the handlers do *not*
look at. `tryMatch` does not ask whether those it pairs play already: they do not,
because a seat excludes a live match. `/join` does not ask whether its creator
waits: an open link keeps its player out of the queue, except while a match it
lost is torn down. `startMatchLocked` finds an identity free in the abstract sense
because a match is in `h.running` until its teardown. A step of the engine that
changes nobody's place, a pass of `tryMatch` that finds no pair and every refusal
are stutters. The premise is used where it is in `PlaceInv`; two tabs break the
promise only through the queue, which `MCHubTabs` shows from the other side.

*Why nobody is stranded.* The property speaks of a browser that has read all it
was sent; `PlayInv` adds what holds before. The sides a match still has to do
with are its own (`DueAreSides`). A client points at the match that is live for
it, and has no seat, until that match ends or offers it back (`LiveClaims`), so
no two matches are live for one client. And when the last frame in its buffer
announces a match, the client is placed in one, or a teardown is due
(`AnnouncedArePlaced`). `PlacedStays` is the heart of it: who is placed stays
placed until its teardown frame is in the buffer, or is lost.

*The clock.* `WindowInv` bounds both timers by the readings so far (`hi`, `lo`):
PUN was planned by a reading no further ahead than the furthest, and an open
window closes by one of the furthest behind. `PlanInv` says where a page with a
right clock stands that has seen a countdown: PUN is planned for the moment of
the server's, or the window is open, or it is over. `CountInv` says who wrote
what is on the screen, and that no beat begins before the stepper looks again
once the clock it last looked at was right.

*The statistics.* A result at a time against a definition over the whole
sequence: `StatsInv` says of the results told so far what the figures are
(`Tells`), the run that is under way and the runs that are over apart. One more
result changes the runs only at the end, which is a lemma on the sets of runs of
a sequence and of the same sequence with one result more. No induction over the
sequence is needed, because the figures keep what it would carry.

*Screen and seat.* The property speaks of a page that has nothing under way;
`Agreed` says what each kind of disagreement is waiting for until then. A match
that goes on has been opened, on the page or by a frame under way (its `matched`
or a snapshot), and no frame behind that one closes it (`RoundInv`, `Opened`). A
seat in the queue is on the screen, or the frame that shows it is on its way, or
the player has asked to leave it (`QueueInv`); so is an invite, which an answer
or a snapshot may bring (`InviteInv`). A page that shows the queue without a seat
has a frame coming, or is asking for one (`WaitInv`), and a page that shows a
match that is over has a frame coming (`GameInv`). That this frame is one that
mends it follows from `SeatsInv`, which says what the last frame sent to a client
that is in no match can be: a snapshot, `idle`, `requeued` or `waiting`. Of the
screen machine the proof uses where an event leads and from where it may be
taken (`EdgesLead`), and that the edges are there which a snapshot, an
announcement and a teardown need (`EdgesAreThere`). Every conjunct is given up
once something has parted the two, so what is proved is also that the list of six
is complete.

*The acknowledgements.* An acknowledgement needs a page that is armed and a timer
that beats. `AckInv` says that a page that is armed on a result is not at the
end of its match, and that whoever beats before an open gate has painted; so
whichever of the frame, the decoded background and the timer is late, what is
sent is of the gate the page stands at.

*The history.* `WireInv` orders the frames under way: those of a match in the
order of its rounds, at most one of them decisive, and none of a round that is
still to come. `FiledInv` adds that what is filed is not decided again by a
frame under way. `Gathered` says of the rounds on the page that they are of the
match that is on, rising, and before every one that is still to be read; it is
given up for a match that was entered from another, and `MCRecordMixed` shows
why it has to be.

*The ladder.* The store is shared, so the invariant has a part for the runs
(`RunsInv`) and one for what each tab believes of them (`TabsInv`). The first
says that a run owes, in retries spent and losses not yet paid, no more than its
won floors have banked; and, if no stale page ever decided it, exactly the losses
fought, and has beaten exactly who stands below its floor. The second is needed
because a tab reads the store in one step and writes it in another: a page that
fights and was not overtaken fights the fighter of the run's floor (`Fights`),
and what the tower shows is what the run says (`Shows`). Reading repairs a run
against a roster that may have changed, keeping who is still on it
(`Kept`); that a run over an unchanged roster is left as it is (`DrawnStays`) is
a pigeonhole argument, and what `Kept` returns is proved by induction over the
set of lengths, since the induction theorems of the library take an operator.

*What the attempts to prove showed.* The first statement of `CountIsDue` was
false for a page whose window had opened early and which had read its countdown
again: the label is then neither the stepper's nor PUN's. `Below`, who stands
below the floor of a run, had nobody below the floor of a run that was cleared,
so a cleared run of the old store had beaten nobody; TLC had not been given one.
Both came up as steps that could not be proved, and both are now met by the runs
(a reading that is ahead by the whole window, a legacy run that is cleared).
`PageAgrees` was false too, beyond the bounds of its run: with three frames under
way an old match can be announced behind an invite that was opened since, and the
page, which leaves the queue for it, never shows the code. That is one more frame
that is read too late (`Overtaken`), and the six ways to part page and seat now
cover it at every bound. `Matchmaking` at first kept no kind of a game; then the
second claim of a link could pass for the creator's own start against the CPU, and
its mutant was not found. And `Feed` offered everybody back whose handshake had
failed: a match made by `/join` offers nobody (`server.go:1672`), which changed
what finding 4 is about.

**Only model-checked**: the liveness properties (`GateResolves`,
`DepartureEndsMatch`, `AlwaysEnds`, `RoundIsLeft`), since liveness and `ENABLED`
are out of the prover's reach; and, with two tabs of a player and no queue, that
the hub keeps its promise. `TypeCorrect`, `HubTypeCorrect`, `StreamsTypeCorrect`,
`TerminalStaysLast`, `FirstPickStays` and `MapStaysBounded` state properties that
are proved and therefore in no run.

## 5. What is not modelled

* **Server**: the contents of frames beyond what a property reads; the registry
  of players (a connection belongs to a fixed player) with its eviction; a
  straggler that a handler holds for longer than `Latency`; the frame journal
  and the keepalive; observability; the roster and the random background;
  flags, listener, static files and signal handling.
* **Page**: the claim of a challenge link at connect (`/join`; `Hub` has its
  handler), the posting of the chosen character, sharing and copying the link,
  the beacons and their throttle, the control for the length of a match, and all
  wording and markup: notices, pips, result lines, the drawing of the lobby, the
  tower and the history.
* The tools that drive a running server, and the test harnesses.

That `Shutdown` returns is not checked as one liveness property: `AllWoken` says
that every match it waits for has been woken, `DepartureEndsMatch` that a woken
match ends. The requeue ignores the queue's cap, as in the code: `MaxQueue`
bounds `/queue` only.

## 6. Findings

Each is a run that TLC ends with a counterexample.

1. `MCRulesFoul`: with a valid pick of side 0 and an early or late one of side
   1, `judgeRound` gives side 1 the win (`round.go:1246`).
2. `MCHubTwoMatches`: a join may play the creator's tab that waits in the queue,
   which is then paired again (`server.go:1664`).
3. `MCRecordMixed`: a page whose undecided series ends with both sides offered
   back, and which is paired again before it hears of that, files the rounds of
   the old match under the new one (`app.js:1331`).
4. `MCPageInvite`: the search button on an invite cancels it and queues. A
   snapshot taken before the cancel took effect, on a stream that was replaced,
   marks the page as inviting again (`challengePending`), and the queue screen
   then shows a code that is spent (`app.js:1787`).

Smaller disagreements show in the models and have no run of their own.

*Server.* A departure in a later round of a series is announced by the plain
`opponent-left`, without the tally or `seriesOver` (`round.go:1313`), though
`round.go:213-214` calls the gate between rounds "the series' only exit" and
`docs/features/protocol.md:318` keeps the plain form for departures before
anything was scored. `endConn` compares the connection id and removes the client
in two critical sections: a stream that takes over in between is left with a
removed client (`server.go:751`, against `docs/features/architecture.md:539`).
`finishMatch` decides under the lock whom to send to idle and sends after it; a
side that is requeued and paired in between hears of its new match first
(`server.go:1102`, against the comment at 1051-1058). The creator's `/cancel`
spends a link also while it is in play, so a second opener is told that it is
gone rather than in play (`server.go:1188`). A between-rounds gate may cancel
the series although both sides have just answered: both acks come after the last
recheck, and the deadline is chosen (`round.go:633`). Between a gate's failure
and the goroutine's exit a `/ready` is still answered 200 (`server.go:1231`). A
client can be requeued between its removal and its cancellation
(`server.go:989`), and nothing takes that seat away again: whoever is paired
with it gets a match nobody else hears of, which is abandoned at once. `run`
counts itself as done before `finishMatch`, so teardown frames may still be
written after `Shutdown` has returned (`round.go:731`). Two streams of one client
share its buffer, and each takes frames meant for the other (`server.go:680`).
`waiting` is sent after the lock is released and may follow the `matched` of a
pair made meanwhile (`server.go:1163`).

*Page.* What parts page and seat in `PageAgrees`: `requeued` and `waiting` have
no edge from `countdown` and `result`, so a page there misses that it queues,
a teardown behind a new invite sends it to the lobby, and an old match
announced behind one puts a match in its place; a reconnection in the pause
between two rounds, when nobody's ack is pending, is read as idle and the page
leaves a match that goes on; `/queue` after the search button, and a refused
`/cancel`, are answered to nobody; `Cancel` pressed as a match is made shows the
queue over it. `refuseStart` restores the mode, but the failsafe
re-arms the button without it, so a second press of Create Invite asks for a CPU
match. `matched` and `countdown` have no watchdog. The interval of the
acknowledgements goes on in a tab that is hidden, and a frame asked for while it
was hidden acknowledges the next match before its background is there.
`showGame` spares the lobby, the queue and the history, not the tower.
`repairOrder` keeps the floor's index when the roster has changed below it.
`postCPU` spends the retry before the server has taken the request; entering the
lobby forgets the floor, so a result that follows counts for nothing, and two
tabs on one run may count one floor twice: hence `mixed` in `BelowIsBeaten`. A
round that nobody threw in leaves its floor to be retried without payment. A
late refusal of an earlier round's move locks the moves of the next. A reading of
the clock past PUN ends the countdown until the next frame, and a countdown
re-read after a premature PUN leaves its label and its moves, which the server
refuses.

## 7. Plan

Done: the rules, the engine, its abstract story and the refinement; the hub, its
promise and the refinement; the streams and the stop; the limiter; the page's machine, requests, history,
screen, ladder, clock and statistics; the proofs of section 4. What could
follow:

1. Liveness of the stop as a whole: that `Wait` returns, with `Match` inside
   `Streams`.
2. The registry of players with its eviction, and the claim of a link when a
   page is opened from it, which would let `Page` and `Hub` meet in one run.
