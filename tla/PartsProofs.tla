---------------------------- MODULE PartsProofs ----------------------------
(* Machine-checked theorems about the parts that Parts puts side by side: the  *)
(* rate limiter (any number of addresses, any bucket, any bound on the map, no *)
(* bound on time), the rules of a round (any target), a round on the page's    *)
(* clock (any window, any error of the clock, changed any number of times) and *)
(* the statistics (any number of results).                                     *)
EXTENDS Parts, Sequences, FiniteSetTheorems, TLAPS

(* The rate limiter by itself.                                                 *)

(* What the two properties need of the entries: none is from the future, and   *)
(* none holds more than a bucket does.                                         *)
LimiterType ==
    /\ time \in Nat /\ known \subseteq Ip
    /\ tokens \in [Ip -> 0..Capacity]
    /\ since \in [Ip -> Nat] /\ \A ip \in Ip : since[ip] <= time
    /\ full \in [Ip -> 0..Capacity]

LEMMA CappedIsABucket == \A n \in Nat : Capped(n) \in 0..Capacity
  BY LimiterAssumption DEF Capped

LEMMA RefilledIsABucket ==
  ASSUME LimiterType, NEW ip \in Ip
  PROVE  Refilled(ip) \in 0..Capacity
<1>1. tokens[ip] + (time - since[ip]) \in Nat
  BY LimiterAssumption DEF LimiterType
<1> QED BY <1>1, CappedIsABucket DEF Refilled

(* A request leaves buckets behind it, whatever it was given.                  *)
LEMMA AllowTypes ==
  ASSUME LimiterType, NEW ip \in Ip, NEW has \in 0..Capacity, Allow(ip, has)
  PROVE  /\ tokens' \in [Ip -> 0..Capacity] /\ full' \in [Ip -> 0..Capacity]
         /\ since' \in [Ip -> Nat] /\ \A j \in Ip : since'[j] <= time'
<1> USE LimiterAssumption DEF LimiterType
<1>1. time' = time
  BY DEF Allow
<1>2. full' \in [Ip -> 0..Capacity]
  BY DEF Allow
<1>3. CASE has >= Part
  <2>1. has - Part \in 0..Capacity
    BY <1>3
  <2> QED BY <1>1, <1>2, <1>3, <2>1 DEF Allow
<1>4. CASE ~(has >= Part)
  BY <1>1, <1>2, <1>4 DEF Allow
<1> QED BY <1>3, <1>4

LEMMA LimiterTypeStep == LimiterType /\ [Next]_vars => LimiterType'
<1> SUFFICES ASSUME LimiterType, [Next]_vars PROVE LimiterType'
  OBVIOUS
<1> USE LimiterAssumption
<1>1. CASE Passes
  <2>1. \A ip \in Ip : Capped(full[ip] + 1) \in 0..Capacity
    BY CappedIsABucket DEF LimiterType
  <2> QED BY <1>1, <2>1 DEF Passes, LimiterType
<1>2. ASSUME NEW ip \in Ip, Request(ip) PROVE LimiterType'
  BY <1>2, AllowTypes, RefilledIsABucket DEF Request, Allow, LimiterType
<1>3. ASSUME NEW ip \in Ip, FirstRequest(ip) PROVE LimiterType'
  <2>1. Capacity \in 0..Capacity
    OBVIOUS
  <2>2. known' \subseteq Ip
    BY <1>3 DEF FirstRequest, LimiterType
  <2> QED BY <1>3, <2>1, <2>2, AllowTypes DEF FirstRequest, Allow, LimiterType
<1>4. CASE UNCHANGED vars
  BY <1>4 DEF vars, LimiterType
<1> QED BY <1>1, <1>2, <1>3, <1>4 DEF Next

LEMMA LimiterTypeInit == Init => LimiterType
  BY LimiterAssumption DEF Init, LimiterType

-----------------------------------------------------------------------------
(* The bucket of an address nobody asks for in this step is not touched.       *)
LEMMA AllowTouchesOne ==
  ASSUME LimiterType, NEW ip \in Ip, NEW has, Allow(ip, has), NEW j \in Ip, j # ip
  PROVE  tokens'[j] = tokens[j] /\ since'[j] = since[j] /\ full'[j] = full[j] /\ time' = time
  BY DEF Allow, LimiterType

(* Taking from the entry is taking from the bucket it stands for.              *)
LEMMA AllowIsExact ==
  ASSUME LimiterType, NEW ip \in Ip, NEW has \in 0..Capacity, Allow(ip, has), full[ip] = has,
         has >= Part \/ has = Refilled(ip)
  PROVE  full'[ip] = Refilled(ip)'
<1> USE LimiterAssumption DEF LimiterType
<1>1. CASE has >= Part
  <2>1. /\ tokens'[ip] = has - Part /\ since'[ip] = time /\ time' = time
        /\ full'[ip] = has - Part
    BY <1>1 DEF Allow
  <2> QED BY <2>1, <1>1 DEF Refilled, Capped
<1>2. CASE ~(has >= Part)
  <2>1. tokens' = tokens /\ since' = since /\ time' = time /\ full'[ip] = full[ip]
    BY <1>2 DEF Allow
  <2> QED BY <2>1, <1>2 DEF Refilled
<1> QED BY <1>1, <1>2

(* An entry idle for as long as it takes to fill it is a full bucket.          *)
LEMMA StaleIsFull ==
  ASSUME LimiterType, NEW ip \in Stale
  PROVE  Refilled(ip) = Capacity
<1>1. ip \in Ip /\ tokens[ip] \in Nat /\ time - since[ip] \in Int /\ time - since[ip] >= Capacity
  BY LimiterAssumption DEF Stale, LimiterType
<1> QED BY <1>1, LimiterAssumption DEF Refilled, Capped

LEMMA RefillsWithTime ==
  ASSUME NEW n \in Nat
  PROVE  Capped(Capped(n) + 1) = Capped(n + 1) /\ Capped(Capacity + 1) = Capacity
  BY LimiterAssumption DEF Capped

Exact(ip) == full[ip] = IF ip \in known THEN Refilled(ip) ELSE Capacity

LEMMA ExactStep ==
  ASSUME LimiterType, \A ip \in Ip \ dropped : Exact(ip), [Next]_vars
  PROVE  \A ip \in Ip \ dropped' : Exact(ip)'
<1> USE LimiterAssumption
<1>1. CASE Passes
  <2> SUFFICES ASSUME NEW j \in Ip \ dropped PROVE Exact(j)'
    BY <1>1 DEF Passes
  <2>1. /\ full'[j] = Capped(full[j] + 1) /\ time' = time + 1
        /\ tokens' = tokens /\ since' = since /\ known' = known
    BY <1>1 DEF Passes, LimiterType
  <2>2. tokens[j] + (time - since[j]) \in Nat
        /\ tokens[j] + (time' - since[j]) = (tokens[j] + (time - since[j])) + 1
    BY <2>1 DEF LimiterType
  <2> QED BY <2>1, <2>2, RefillsWithTime DEF Exact, Refilled
<1>2. ASSUME NEW ip \in Ip, Request(ip) PROVE \A j \in Ip \ dropped' : Exact(j)'
  <2>1. ip \in known /\ Allow(ip, Refilled(ip)) /\ known' = known /\ dropped' = dropped
    BY <1>2 DEF Request
  <2>2. Refilled(ip) \in 0..Capacity
    BY RefilledIsABucket
  <2>3. ip \notin dropped => Exact(ip)'
    BY <2>1, <2>2, AllowIsExact DEF Exact
  <2>4. ASSUME NEW j \in Ip \ dropped, j # ip PROVE Exact(j)'
    BY <2>1, <2>2, <2>4, AllowTouchesOne DEF Exact, Refilled
  <2> QED BY <2>1, <2>3, <2>4
<1>3. ASSUME NEW ip \in Ip, FirstRequest(ip) PROVE \A j \in Ip \ dropped' : Exact(j)'
  <2>1. PICK gone : /\ known' = (known \ gone) \union {ip}
                    /\ dropped' = dropped \union (gone \ Stale)
    BY <1>3 DEF FirstRequest
  <2>2. ip \notin known /\ Allow(ip, Capacity) /\ Capacity \in 0..Capacity
    BY <1>3 DEF FirstRequest
  <2>3. ip \notin dropped => Exact(ip)'
    BY <2>1, <2>2, AllowIsExact DEF Exact
  <2>4. ASSUME NEW j \in Ip \ dropped', j # ip PROVE Exact(j)'
    <3>1. Refilled(j)' = Refilled(j) /\ full'[j] = full[j]
      BY <2>2, <2>4, AllowTouchesOne DEF Refilled
    <3>2. Exact(j) /\ (j \in gone => j \in Stale)
      BY <2>1, <2>4
    <3>3. CASE j \in known /\ j \in gone
      <4>1. j \in Stale /\ j \notin known'
        BY <2>1, <2>4, <3>2, <3>3
      <4>2. full[j] = Refilled(j)
        BY <3>2, <3>3 DEF Exact
      <4> QED BY <4>1, <4>2, <3>1, StaleIsFull DEF Exact
    <3>4. CASE ~(j \in known /\ j \in gone)
      BY <2>1, <2>4, <3>1, <3>2, <3>4 DEF Exact
    <3> QED BY <3>3, <3>4
  <2> QED BY <2>1, <2>3, <2>4
<1>4. CASE UNCHANGED vars
  BY <1>4 DEF vars, Exact, Refilled
<1> QED BY <1>1, <1>2, <1>3, <1>4 DEF Next

(* allow and evictLocked may refill late, store nothing of a refusal and       *)
(* forget what is idle: every address has the tokens it is due all the same,   *)
(* unless the map was full of others and its bucket was forgotten early.       *)
THEOREM BucketsStayExact == Spec => []BucketsAreExact
<1> DEFINE Inv == LimiterType /\ \A ip \in Ip \ dropped : Exact(ip)
<1>1. Init => Inv
  BY LimiterTypeInit, LimiterAssumption DEF Init, Exact
<1>2. Inv /\ [Next]_vars => Inv'
  BY LimiterTypeStep, ExactStep
<1>3. Inv => BucketsAreExact
  BY DEF Exact, Refilled, BucketsAreExact
<1> QED
  BY <1>1, <1>2, <1>3, PTL DEF Spec

-----------------------------------------------------------------------------
(* The map does not outgrow its bound: evictLocked makes room before an entry  *)
(* is added, by what is idle or else by what was unused longest.               *)
THEOREM MapStaysBounded == Spec => []MapIsBounded
<1> DEFINE Inv == LimiterType /\ Cardinality(known) <= MaxEntries
<1> USE LimiterAssumption
<1>1. Init => Inv
  BY LimiterTypeInit, FS_EmptySet DEF Init
<1>2. Inv /\ [Next]_vars => Inv'
  <2> SUFFICES ASSUME Inv, [Next]_vars PROVE Cardinality(known') <= MaxEntries
    BY LimiterTypeStep
  <2>1. IsFiniteSet(known) /\ known \subseteq Ip
    BY FS_Subset DEF LimiterType
  <2>2. ASSUME NEW ip \in Ip, FirstRequest(ip) PROVE Cardinality(known') <= MaxEntries
    <3>1. PICK gone \in IF Cardinality(known) < MaxEntries THEN {{}} ELSE Evictions :
            known' = (known \ gone) \union {ip}
      BY <2>2 DEF FirstRequest
    <3>2. ASSUME NEW S, IsFiniteSet(S), Cardinality(S) < MaxEntries
          PROVE  Cardinality(S \union {ip}) <= MaxEntries
      <4>1. Cardinality(S) \in Nat
        BY <3>2, FS_CardinalityType
      <4>2. Cardinality(S \union {ip}) \in {Cardinality(S), Cardinality(S) + 1}
        BY <3>2, FS_AddElement
      <4> QED BY <3>2, <4>1, <4>2
    <3>3. CASE Cardinality(known) < MaxEntries
      BY <2>1, <3>1, <3>2, <3>3
    <3>4. IsFiniteSet(known \ Stale) /\ Cardinality(known \ Stale) <= Cardinality(known)
      BY <2>1, FS_Subset
    <3>5. CASE ~(Cardinality(known) < MaxEntries) /\ Cardinality(known \ Stale) < MaxEntries
      <4>1. known' = (known \ Stale) \union {ip}
        BY <3>1, <3>5 DEF Evictions
      <4> QED BY <3>2, <3>4, <3>5, <4>1
    <3>6. CASE ~(Cardinality(known) < MaxEntries) /\ ~(Cardinality(known \ Stale) < MaxEntries)
      <4>1. PICK old \in known \ Stale : gone = Stale \union {old}
        BY <3>1, <3>6 DEF Evictions, Oldest
      <4>2. known' = ((known \ Stale) \ {old}) \union {ip}
        BY <3>1, <4>1
      <4>3. /\ IsFiniteSet((known \ Stale) \ {old})
            /\ Cardinality((known \ Stale) \ {old}) = Cardinality(known \ Stale) - 1
        BY <3>4, <4>1, FS_RemoveElement
      <4>4. Cardinality(known \ Stale) \in Nat /\ Cardinality(known) \in Nat
        BY <2>1, <3>4, FS_CardinalityType
      <4>5. Cardinality((known \ Stale) \ {old}) < MaxEntries
        BY <3>4, <4>3, <4>4
      <4> QED BY <3>2, <4>2, <4>3, <4>5
    <3> QED BY <3>3, <3>5, <3>6
  <2>3. CASE ~(\E ip \in Ip : FirstRequest(ip))
    <3>1. known' = known
      BY <2>3 DEF Next, Passes, Request, vars
    <3> QED BY <3>1
  <2> QED BY <2>2, <2>3
<1> QED
  BY <1>1, <1>2, PTL DEF Spec, MapIsBounded
-----------------------------------------------------------------------------
(* The rules of a round.                                                       *)

(* What judgeRound makes of two picks: nobody who never threw loses or wins,   *)
(* and at most one side wins.                                                  *)
LEMMA JudgedFairly ==
  ASSUME NEW a \in [Rules!Side -> Rules!Arrival], NEW m \in [Rules!Side -> Rules!Move],
         NEW i \in Rules!Side, NEW r, r = Rules!JudgeRound(a, m)
  PROVE  /\ r \in [Rules!Side -> Rules!Result]
         /\ a[i] = "none" => r[i] \in {"void", "draw"}
         /\ a[i] = "in" /\ a[Rules!Other(i)] = "none" => r[i] = "win"
         /\ r[i] = "void" => a[i] = "none" /\ r[Rules!Other(i)] = "win"
         /\ ~(r[0] = "win" /\ r[1] = "win")
<1> USE DEF Rules!Side, Rules!Arrival, Rules!Move, Rules!Result, Rules!Other
<1>1. a[0] \in Rules!Arrival /\ a[1] \in Rules!Arrival /\ (i = 0 \/ i = 1)
  OBVIOUS
<1>2. CASE Rules!Valid(a[0]) /\ Rules!Valid(a[1])
  <2>1. a[0] = "in" /\ a[1] = "in"
    BY <1>1, <1>2 DEF Rules!Valid, Rules!Note
  <2> QED BY <1>1, <1>2, <2>1 DEF Rules!JudgeRound
<1>3. CASE ~Rules!Valid(a[0]) /\ Rules!Valid(a[1])
  <2>1. a[0] # "in" /\ a[1] = "in" /\ (Rules!Note(a[0]) = "timeout" <=> a[0] = "none")
    BY <1>1, <1>3 DEF Rules!Valid, Rules!Note
  <2> QED BY <1>1, <1>3, <2>1 DEF Rules!JudgeRound
<1>4. CASE Rules!Valid(a[0]) /\ ~Rules!Valid(a[1])
  <2>1. a[0] = "in" /\ a[1] # "in" /\ (Rules!Note(a[1]) = "timeout" <=> a[1] = "none")
    BY <1>1, <1>4 DEF Rules!Valid, Rules!Note
  <2> QED BY <1>1, <1>4, <2>1 DEF Rules!JudgeRound
<1>5. CASE ~Rules!Valid(a[0]) /\ ~Rules!Valid(a[1])
  <2>1. a[0] # "in" /\ a[1] # "in"
    BY <1>1, <1>5 DEF Rules!Valid, Rules!Note
  <2> QED BY <1>1, <1>5, <2>1 DEF Rules!JudgeRound
<1> QED BY <1>2, <1>3, <1>4, <1>5

(* Picks are judged once, from a tally on which no side has won yet.           *)
RulesInv ==
    /\ bot \in BOOLEAN /\ drawEnds \in BOOLEAN /\ target \in Nat
    /\ arrive \in [Rules!Side -> Rules!Arrival]
    /\ move \in [Rules!Side -> Rules!Move]
    /\ win \in [Rules!Side -> Nat]
    /\ ~Rules!Judged /\ target > 0 => \A i \in Rules!Side : win[i] < target
    /\ Rules!Judged =>
          /\ target > 0 /\ res = Rules!JudgeRound(arrive, move)
          /\ \E before \in [Rules!Side -> Nat] :
                /\ \A i \in Rules!Side : before[i] < target
                /\ win = Rules!Tally(before, res)

LEMMA RulesStart == Rules!Init => RulesInv
<1> SUFFICES ASSUME Rules!Init PROVE RulesInv
  OBVIOUS
<1>1. bot \in BOOLEAN /\ drawEnds \in BOOLEAN /\ target = 0 /\ ~Rules!Judged
  BY DEF Rules!Init, Rules!Judged
<1>2. /\ arrive \in [Rules!Side -> Rules!Arrival] /\ move \in [Rules!Side -> Rules!Move]
      /\ win \in [Rules!Side -> Nat]
  BY DEF Rules!Init, Rules!Unjudged, Rules!Move, Rules!Arrival
<1> QED BY <1>1, <1>2 DEF RulesInv

LEMMA RulesStep ==
  ASSUME RulesInv, Rules!Next \/ UNCHANGED rules
  PROVE  RulesInv'
<1>1. CASE Rules!Play
  <2>1. /\ target = 0 /\ target' \in 1..MaxTarget /\ res' = res
        /\ win' \in [Rules!Side -> 0..(target' - 1)]
        /\ bot' \in BOOLEAN /\ drawEnds' \in BOOLEAN
        /\ arrive' \in [Rules!Side -> Rules!Arrival] /\ move' \in [Rules!Side -> Rules!Move]
    BY <1>1 DEF Rules!Play
  <2>2. ~Rules!Judged /\ ~Rules!Judged'
    BY <2>1 DEF RulesInv, Rules!Judged, Rules!Unjudged
  <2>3. win' \in [Rules!Side -> Nat] /\ \A i \in Rules!Side : win'[i] < target'
    BY <2>1
  <2> QED BY <2>1, <2>2, <2>3 DEF RulesInv
<1>2. CASE Rules!Judge
  <2>1. /\ target > 0 /\ ~Rules!Judged
        /\ res' = Rules!JudgeRound(arrive, move) /\ win' = Rules!Tally(win, res')
        /\ UNCHANGED <<bot, drawEnds, target, arrive, move>>
    BY <1>2 DEF Rules!Judge, Rules!Judged
  <2>2. Rules!Tally(win, res') \in [Rules!Side -> Nat]
    BY DEF Rules!Tally, RulesInv
  <2>3. res'[0] \in Rules!Result
    BY <2>1, JudgedFairly DEF RulesInv, Rules!Side
  <2>4. Rules!Judged'
    BY <2>3 DEF Rules!Judged, Rules!Unjudged, Rules!Result, Rules!Side
  <2>5. \E before \in [Rules!Side -> Nat] :
          (\A i \in Rules!Side : before[i] < target') /\ win' = Rules!Tally(before, res')
    BY <2>1 DEF RulesInv
  <2> QED BY <2>1, <2>2, <2>4, <2>5 DEF RulesInv
<1>3. CASE UNCHANGED rules
  BY <1>3 DEF rules, RulesInv, Rules!Judged, Rules!Unjudged
<1> QED BY <1>1, <1>2, <1>3 DEF Rules!Next

LEMMA RulesImply == RulesInv => SilenceIsVoid /\ OverForAReason
<1> SUFFICES ASSUME RulesInv, Rules!Judged
             PROVE  Rules!SilenceIsVoid /\ Rules!OverForAReason
  BY DEF SilenceIsVoid, OverForAReason, Rules!SilenceIsVoid, Rules!OverForAReason
<1>1. /\ arrive \in [Rules!Side -> Rules!Arrival] /\ move \in [Rules!Side -> Rules!Move]
      /\ res = Rules!JudgeRound(arrive, move)
  BY DEF RulesInv, Rules!Arrival
<1>2. Rules!SilenceIsVoid
  BY <1>1, JudgedFairly DEF Rules!SilenceIsVoid
<1>3. Rules!OverForAReason
  <2>1. PICK before \in [Rules!Side -> Nat] :
          (\A i \in Rules!Side : before[i] < target) /\ win = Rules!Tally(before, res)
    BY DEF RulesInv
  <2>2. /\ target \in Nat /\ 0 \in Rules!Side /\ 1 \in Rules!Side
        /\ \A i \in Rules!Side : i = 0 \/ i = 1
        /\ bot \in BOOLEAN /\ drawEnds \in BOOLEAN
    BY DEF RulesInv, Rules!Side
  <2>3. ~(res[0] = "win" /\ res[1] = "win")
    BY <1>1, <2>2, JudgedFairly
  <2>4. \A i \in Rules!Side :
          /\ win[i] = IF res[i] = "win" THEN before[i] + 1 ELSE before[i]
          /\ win[i] \in Nat /\ win[i] <= target
          /\ win[i] = target => res[i] = "win"
    BY <2>1, <2>2 DEF Rules!Tally
  <2> DEFINE over == Rules!SeriesOver(bot, drawEnds, target, win, res)
             reached == {i \in Rules!Side : win[i] = target}
  <2>5. ~over => reached = {} /\ (bot \/ ~drawEnds) /\ ~(drawEnds /\ res[0] = "draw")
    BY <2>2, <2>4 DEF Rules!SeriesOver, Rules!SeriesMatch
  <2>6. ASSUME over, ~drawEnds PROVE \E i \in reached : reached = {i} /\ res[i] = "win"
    <3>1. PICK i \in Rules!Side : win[i] >= target
      BY <2>6 DEF Rules!SeriesOver, Rules!SeriesMatch
    <3>2. win[i] = target /\ res[i] = "win"
      BY <3>1, <2>2, <2>4
    <3>3. \A j \in Rules!Side : j # i => res[j] # "win"
      BY <3>2, <2>2, <2>3
    <3>4. reached = {i}
      BY <3>1, <3>2, <3>3, <2>4
    <3> QED BY <3>2, <3>4
  <2> QED BY <2>5, <2>6 DEF Rules!OverForAReason
<1> QED BY <1>2, <1>3

LEMMA RulesKept == PartsSpec => []RulesInv
<1>1. PartsInit => RulesInv
  BY RulesStart DEF PartsInit
<1>2. RulesInv /\ [PartsNext]_<<part, rules, vars, clock, kept>> => RulesInv'
  BY RulesStep DEF PartsNext
<1> QED BY <1>1, <1>2, PTL DEF PartsSpec

(* Connectivity-safe scoring: whatever two players throw and whenever, a       *)
(* silence is charged to nobody (judgeRound).                                  *)
THEOREM SilenceStaysVoid == PartsSpec => []SilenceIsVoid
  BY RulesKept, RulesImply, PTL

(* A match of any length, against anybody and with either draw rule, ends when *)
(* it is won, or where it may not go on, and only there (judge).               *)
THEOREM EndsForAReason == PartsSpec => []OverForAReason
  BY RulesKept, RulesImply, PTL

-----------------------------------------------------------------------------
(* A round on the page's clock.                                                *)

Times == Int \union {Never}

ClockType ==
    /\ now \in Nat /\ err \in Int /\ hi \in Int /\ lo \in Int
    /\ lo <= err /\ err <= hi /\ lo <= 0 /\ 0 <= hi
    /\ slotAt \in Times /\ punAt \in Times /\ shootAt \in Times /\ right \in Times

(* Timers fire on time; the one of PUN was set by a reading no further ahead   *)
(* than any so far, and a window that is open closes by one of the furthest    *)
(* behind.                                                                     *)
WindowInv ==
    /\ punAt # Never => now <= punAt /\ Round!S - hi <= punAt
    /\ shootAt # Never => now <= shootAt
    /\ screen = "shoot" => shootAt # Never
    /\ screen = "shoot" /\ label = "PUN" =>
          Round!S - hi <= now /\ shootAt <= Round!S + Window - lo

(* A page that has seen a countdown, by a clock that was never wrong, has PUN  *)
(* planned, or has opened its window, or the server's is past.                 *)
PlanInv ==
    planned /\ hi = 0 /\ lo = 0 =>
        \/ screen \in {"shoot", "locked"}
        \/ /\ screen = "countdown"
           /\ (punAt = Round!S /\ now <= Round!S) \/ punAt = now \/ Round!S + Window <= now

(* What is on the screen is the stepper's, unless a window put it there; the    *)
(* stepper looks again within SLOT_CAP_MS, and no beat begins before it does,   *)
(* once the clock it last looked at was right.                                 *)
CountInv ==
    /\ slotAt # Never => now <= slotAt /\ slotAt <= now + Round!Cap
    /\ right # Never => err = 0 /\ right <= now
    /\ label \in {"PUN", "waiting", IF planned THEN last ELSE ""}
    /\ screen = "countdown" => planned
    /\ screen = "countdown" /\ slotAt # Never /\ right # Never /\ right + Round!Cap < slotAt =>
          \A t \in now..(slotAt - 1) : \A b \in Round!Due(Round!S - t) : last = b.label

ClockInv == ClockType /\ WindowInv /\ PlanInv /\ CountInv

(* Which beat is due when, and how long it stays so.                           *)
LEMMA DueBeats ==
  ASSUME NEW left \in Int, NEW b
  PROVE  b \in Round!Due(left) <=>
            \/ b = [label |-> "READY", off |-> 6] /\ 4 < left /\ left <= 6
            \/ b = [label |-> "KA", off |-> 4] /\ 2 < left /\ left <= 4
            \/ b = [label |-> "CHI", off |-> 2] /\ 0 < left /\ left <= 2
<1> DEFINE R == [label |-> "READY", off |-> 6]
           K == [label |-> "KA", off |-> 4]
           C == [label |-> "CHI", off |-> 2]
<1>1. R.off = 6 /\ K.off = 4 /\ C.off = 2 /\ Round!Beat = {R, K, C}
  BY DEF Round!Beat
<1> HIDE DEF R, K, C
<1>2. b \in Round!Due(left) <=>
        /\ b = R \/ b = K \/ b = C
        /\ 0 < left /\ left <= b.off
        /\ (left <= 6 => b.off <= 6) /\ (left <= 4 => b.off <= 4) /\ (left <= 2 => b.off <= 2)
  BY <1>1 DEF Round!Due
<1> QED BY <1>1, <1>2 DEF R, K, C

LEMMA WaitsABeat ==
  ASSUME NEW left \in Int
  PROVE  /\ Round!Wait(left) \in 0..2
         /\ 0 < left => Round!Wait(left) > 0
         /\ left <= 0 => Round!Wait(left) = 0
         /\ 4 < left /\ left <= 6 => Round!Wait(left) = left - 4
         /\ 2 < left /\ left <= 4 => Round!Wait(left) = left - 2
         /\ 0 < left /\ left <= 2 => Round!Wait(left) = left
         /\ 6 < left => Round!Wait(left) <= left - 6
<1> DEFINE R == [label |-> "READY", off |-> 6]
           K == [label |-> "KA", off |-> 4]
           C == [label |-> "CHI", off |-> 2]
<1>1. CASE left <= 0
  BY <1>1 DEF Round!Wait
<1>2. CASE 6 < left
  <2>1. Round!Due(left) = {}
    BY <1>2, DueBeats
  <2> QED BY <1>2, <2>1 DEF Round!Wait, Round!S, Round!Cap
<1>3. ASSUME NEW o \in {R, K, C}, Round!Due(left) = {o}, 0 < left
      PROVE  Round!Wait(left) = left - (o.off - 2)
  <2>1. (CHOOSE b \in Round!Due(left) : TRUE) = o /\ Round!Due(left) # {}
    BY <1>3
  <2> QED BY <1>3, <2>1 DEF Round!Wait
<1>4. CASE 4 < left /\ left <= 6
  <2>1. Round!Due(left) = {R}
    BY <1>4, DueBeats
  <2> QED BY <1>3, <1>4, <2>1
<1>5. CASE 2 < left /\ left <= 4
  <2>1. Round!Due(left) = {K}
    BY <1>5, DueBeats
  <2> QED BY <1>3, <1>5, <2>1
<1>6. CASE 0 < left /\ left <= 2
  <2>1. Round!Due(left) = {C}
    BY <1>6, DueBeats
  <2> QED BY <1>3, <1>6, <2>1
<1> QED BY <1>1, <1>2, <1>4, <1>5, <1>6

(* A look at the clock paints the beat that is due, and sets the next look to  *)
(* where the next beat begins at the latest.                                   *)
LEMMA TickPaints ==
  ASSUME ClockType, NEW e \in Int, NEW memory, Round!Tick(Round!Left(e), memory)
  PROVE  /\ slotAt' \in Times
         /\ slotAt' # Never => now <= slotAt' /\ slotAt' <= now + Round!Cap
         /\ slotAt' # Never =>
               \A t \in now..(slotAt' - 1) : \A b \in Round!Due((Round!S - e) - t) : last' = b.label
         /\ (label' = label /\ last' = memory) \/ label' = last'
<1> DEFINE left == Round!Left(e)
<1>1. left \in Int /\ left = (Round!S - e) - now /\ Round!S - e \in Int /\ now \in Nat
  BY DEF Round!Left, Round!S, ClockType
<1> HIDE DEF left
<1>2. slotAt' = IF Round!Wait(left) > 0 THEN now + Round!Wait(left) ELSE Never
  BY DEF Round!Tick, left
<1>3. (label' = label /\ last' = memory) \/ label' = last'
  BY DEF Round!Tick
<1>4. ASSUME slotAt' # Never,
             NEW t \in now..(slotAt' - 1), NEW b \in Round!Due((Round!S - e) - t)
      PROVE  last' = b.label
  <2>1. slotAt' = now + Round!Wait(left) /\ 0 < left
    BY <1>1, <1>2, <1>4, WaitsABeat
  <2>2. t \in Int /\ now <= t /\ t < now + Round!Wait(left) /\ (Round!S - e) - t \in Int
    BY <1>1, <2>1, <1>4, WaitsABeat
  <2>3. (Round!S - e) - t <= left /\ left - Round!Wait(left) < (Round!S - e) - t
    BY <1>1, <2>2, WaitsABeat
  <2>4. b \in Round!Due(left)
    BY <1>1, <2>1, <2>2, <2>3, DueBeats, WaitsABeat
  <2>5. \A c \in Round!Due(left) : c = b
    BY <1>1, <2>4, DueBeats
  <2> QED BY <2>4, <2>5 DEF Round!Tick, left
<1> QED BY <1>1, <1>2, <1>3, <1>4, WaitsABeat DEF Times, Round!Cap

(* A countdown frame, or a snapshot of a countdown, read by a clock that is    *)
(* wrong by e.                                                                 *)
LEMMA CountdownEntered ==
  ASSUME ClockType, CountInv, NEW e \in Int, Round!EnterCountdown(e)
  PROVE  /\ screen' = "countdown" /\ planned' /\ shootAt' = shootAt
         /\ slotAt' \in Times
         /\ slotAt' # Never => now <= slotAt' /\ slotAt' <= now + Round!Cap
         /\ slotAt' # Never =>
               \A t \in now..(slotAt' - 1) : \A b \in Round!Due((Round!S - e) - t) : last' = b.label
         /\ label' \in {"PUN", "waiting", last'}
         /\ punAt' \in Times
         /\ punAt' # Never => now <= punAt' /\ Round!S - e <= punAt'
         /\ e = 0 => (punAt' = Round!S /\ now <= Round!S) \/ punAt' = now \/ Round!S + Window <= now
<1>1. /\ screen' = "countdown" /\ planned' /\ shootAt' = shootAt
      /\ Round!Tick(Round!Left(e), IF planned THEN last ELSE "")
      /\ punAt' = Round!PunPlanned(Round!Left(e))
  BY DEF Round!EnterCountdown
<1>2. Round!PunPlanned(Round!Left(e)) =
        IF Round!S + Window - e > now THEN IF Round!S - e > now THEN Round!S - e ELSE now ELSE Never
  BY PartsAssumption DEF Round!PunPlanned, Round!Left, Round!S, ClockType
<1>3. /\ punAt' \in Times
      /\ punAt' # Never => now <= punAt' /\ Round!S - e <= punAt'
      /\ e = 0 => (punAt' = Round!S /\ now <= Round!S) \/ punAt' = now \/ Round!S + Window <= now
  <2>1. now \in Int /\ Round!S - e \in Int /\ Round!S = 6 /\ Window \in Nat /\ Never \notin Int
    BY PartsAssumption DEF ClockType, Round!S
  <2>2. CASE ~(Round!S + Window - e > now)
    <3>1. punAt' = Never
      BY <1>1, <1>2, <2>2
    <3> QED BY <2>1, <2>2, <3>1 DEF Times
  <2>3. CASE Round!S + Window - e > now
    <3>1. punAt' = IF Round!S - e > now THEN Round!S - e ELSE now
      BY <1>1, <1>2, <2>3
    <3> QED BY <2>1, <2>3, <3>1 DEF Times
  <2> QED BY <2>2, <2>3
<1>4. label' \in {"PUN", "waiting", last'}
  BY <1>1, TickPaints DEF CountInv
<1> QED BY <1>1, <1>3, <1>4, TickPaints

(* The window opens, or is found closed, by a clock that is wrong by e.        *)
LEMMA ShootEntered ==
  ASSUME ClockType, NEW e \in Int, Round!EnterShoot(e)
  PROVE  /\ screen' = "shoot" /\ label' \in {"PUN", "waiting"}
         /\ planned' = planned /\ last' = last /\ slotAt' = slotAt
         /\ shootAt' \in Int /\ now <= shootAt'
         /\ label' = "PUN" => shootAt' = Round!S + Window - e
<1>1. /\ Round!Remaining(e) \in Nat
      /\ Round!Remaining(e) > 0 => now + Round!Remaining(e) = Round!S + Window - e
  BY PartsAssumption DEF Round!Remaining, Round!Left, Round!S, ClockType
<1> QED BY <1>1 DEF Round!EnterShoot, ClockType

LEMMA FurtherBehind ==
  \A m, n, x, y, t \in Int : t <= m + n - x /\ y <= x => t <= m + n - y
OBVIOUS

LEMMA AheadOfPast ==
  \A n, x, t \in Int : ~(t < n) /\ 0 <= x => n - x <= t
OBVIOUS

LEMMA FurtherAhead ==
  \A n, x, y, t \in Int : n - x <= t /\ x <= y => n - y <= t
  OBVIOUS

(* Reading the clock differently only widens what it has been wrong by.        *)
Widened(e) ==
    /\ now' = now /\ err' = e
    /\ hi' \in Int /\ lo' \in Int /\ hi <= hi' /\ lo' <= lo /\ lo' <= e /\ e <= hi'
    /\ right' \in Times
    /\ right' # Never => err' = 0 /\ right' <= now /\ (right' = right \/ right' = now)

LEMMA MisreadWidens ==
  ASSUME ClockType, CountInv, NEW e \in Int, Round!Misread(e) \/ (e = err /\ UNCHANGED Round!clock)
  PROVE  Widened(e)
<1>0. CASE e = err /\ UNCHANGED Round!clock
  <2>1. right # Never => err = 0 /\ right <= now
    BY DEF CountInv
  <2> QED BY <1>0, <2>1 DEF Round!clock, ClockType, Widened
<1> SUFFICES ASSUME Round!Misread(e) PROVE Widened(e)
  BY <1>0
<1>1. /\ now' = now /\ err' = e
      /\ hi' = (IF e > hi THEN e ELSE hi) /\ lo' = (IF e < lo THEN e ELSE lo)
      /\ right' = IF e # 0 THEN Never ELSE IF err = 0 THEN right ELSE now
  BY DEF Round!Misread
<1>2. /\ hi' \in Int /\ lo' \in Int /\ hi <= hi' /\ lo' <= lo /\ lo' <= e /\ e <= hi'
  BY <1>1 DEF ClockType
<1>3. /\ right' \in Times
      /\ right' # Never => err' = 0 /\ right' <= now /\ (right' = right \/ right' = now)
  <2>1. right \in Times /\ now \in Times /\ now <= now
    BY DEF ClockType, Times
  <2>2. right # Never => right <= now
    BY DEF CountInv
  <2> QED BY <1>1, <2>1, <2>2 DEF Times
<1> QED BY <1>1, <1>2, <1>3 DEF Widened

LEMMA IntoCountdown ==
  ASSUME ClockInv, NEW e \in Int, Widened(e), Round!EnterCountdown(e)
  PROVE  ClockInv'
<1>0. /\ now' = now /\ err' = e /\ now \in Int
      /\ hi \in Int /\ lo \in Int /\ hi' \in Int /\ lo' \in Int /\ right' \in Times
      /\ hi <= hi' /\ lo' <= lo /\ lo' <= e /\ e <= hi'
      /\ right' # Never => e = 0 /\ right' <= now
  BY DEF Widened, ClockInv, ClockType
<1>1. /\ screen' = "countdown" /\ planned' /\ shootAt' = shootAt
      /\ slotAt' \in Times
      /\ slotAt' # Never => now <= slotAt' /\ slotAt' <= now + Round!Cap
      /\ slotAt' # Never =>
            \A t \in now..(slotAt' - 1) : \A b \in Round!Due((Round!S - e) - t) : last' = b.label
      /\ label' \in {"PUN", "waiting", last'}
      /\ punAt' \in Times
      /\ punAt' # Never => now <= punAt' /\ Round!S - e <= punAt'
      /\ e = 0 => (punAt' = Round!S /\ now <= Round!S) \/ punAt' = now \/ Round!S + Window <= now
  BY CountdownEntered DEF ClockInv
<1>2. ClockType'
  BY <1>0, <1>1 DEF ClockInv, ClockType
<1>3. WindowInv'
  <2>1. hi \in Int /\ lo \in Int /\ now \in Int /\ Round!S = 6 /\ punAt' \in Times
    BY <1>0, <1>1 DEF ClockInv, ClockType, Round!S
  <2>2. ASSUME punAt' # Never PROVE now <= punAt' /\ Round!S - hi' <= punAt'
    <3>1. punAt' \in Int /\ now <= punAt' /\ Round!S - e <= punAt'
      BY <1>1, <2>2 DEF Times
    <3>2. hi' \in Int /\ Round!S \in Int /\ e <= hi'
      BY <1>0, <2>1
    <3> QED BY <3>1, <3>2, FurtherAhead, Zenon
  <2> QED BY <1>0, <1>1, <2>2 DEF ClockInv, WindowInv
<1>4. PlanInv'
  <2>1. hi' = 0 /\ lo' = 0 => e = 0
    BY <1>0
  <2> QED BY <1>0, <1>1, <2>1 DEF PlanInv
<1>5. CountInv'
  <2>1. right' # Never => e = 0 /\ Round!S - e = Round!S
    BY <1>0 DEF Round!S
  <2> QED BY <1>0, <1>1, <2>1 DEF CountInv
<1> QED BY <1>2, <1>3, <1>4, <1>5 DEF ClockInv

LEMMA IntoShoot ==
  ASSUME ClockInv, NEW e \in Int, Widened(e), Round!EnterShoot(e),
         punAt' = punAt \/ punAt' = Never, Round!S - hi' <= now
  PROVE  ClockInv'
<1>0. /\ now' = now /\ err' = e /\ now \in Int
      /\ hi \in Int /\ lo \in Int /\ hi' \in Int /\ lo' \in Int /\ right' \in Times
      /\ hi <= hi' /\ lo' <= lo /\ lo' <= e /\ e <= hi'
      /\ right' # Never => e = 0 /\ right' <= now
  BY DEF Widened, ClockInv, ClockType
<1>1. /\ screen' = "shoot" /\ label' \in {"PUN", "waiting"}
      /\ planned' = planned /\ last' = last /\ slotAt' = slotAt
      /\ shootAt' \in Int /\ now <= shootAt'
      /\ label' = "PUN" => shootAt' = Round!S + Window - e
  BY ShootEntered DEF ClockInv
<1>2. ClockType'
  BY <1>0, <1>1 DEF ClockInv, ClockType, Times
<1>3. WindowInv'
  <2>1. /\ hi \in Int /\ hi' \in Int /\ lo' \in Int /\ now \in Int /\ Round!S = 6 /\ punAt \in Times
        /\ Window \in Nat /\ Never \notin Int
    BY <1>0, <1>1, PartsAssumption DEF ClockInv, ClockType, Round!S
  <2>2. punAt' # Never => now <= punAt' /\ Round!S - hi' <= punAt'
    BY <1>0, <1>1, <2>1 DEF Times, ClockInv, WindowInv
  <2>3. label' = "PUN" => shootAt' <= Round!S + Window - lo'
    BY <1>0, <1>1, <2>1
  <2> QED BY <1>0, <1>1, <2>1, <2>2, <2>3 DEF WindowInv
<1>4. PlanInv'
  BY <1>0, <1>1 DEF PlanInv
<1>5. CountInv'
  <2>1. slotAt # Never => now <= slotAt /\ slotAt <= now + Round!Cap
    BY DEF ClockInv, CountInv
  <2> QED BY <1>0, <1>1, <2>1 DEF CountInv
<1> QED BY <1>2, <1>3, <1>4, <1>5 DEF ClockInv

(* Nothing but the time, the stepper or a timer that has fired changes.        *)
LEMMA TimePasses ==
  ASSUME ClockInv, Round!Passes
  PROVE  ClockInv'
<1>1. /\ now' = now + 1 /\ now # slotAt /\ now # punAt /\ now # shootAt
      /\ UNCHANGED <<err, hi, lo, right, screen, label, planned, last, slotAt, punAt, shootAt>>
  BY DEF Round!Passes, Round!painter, Round!timers
<1>2. ClockType'
  BY <1>1 DEF ClockInv, ClockType
<1>3. ASSUME NEW at \in Times, at # Never, now # at, now <= at PROVE now + 1 <= at
  BY <1>3 DEF Times, ClockInv, ClockType
<1>4. WindowInv'
  <2>1. /\ punAt # Never => now + 1 <= punAt /\ Round!S - hi <= punAt
        /\ shootAt # Never => now + 1 <= shootAt
    BY <1>1, <1>3 DEF ClockInv, ClockType, WindowInv
  <2>2. Round!S - hi <= now => Round!S - hi <= now + 1
    BY DEF ClockInv, ClockType, Round!S
  <2> QED BY <1>1, <2>1, <2>2 DEF ClockInv, WindowInv
<1>5. PlanInv'
  <2>1. now <= Round!S /\ now # Round!S => now + 1 <= Round!S
    BY DEF ClockInv, ClockType, Round!S
  <2>2. Round!S + Window <= now => Round!S + Window <= now + 1
    BY PartsAssumption DEF ClockInv, ClockType, Round!S
  <2> QED BY <1>1, <2>1, <2>2 DEF ClockInv, PlanInv
<1>6. CountInv'
  <2>1. ASSUME slotAt # Never PROVE now + 1 <= slotAt /\ slotAt <= (now + 1) + Round!Cap
    <3>1. now <= slotAt /\ slotAt <= now + Round!Cap
      BY <2>1 DEF ClockInv, CountInv
    <3>2. now + 1 <= slotAt
      BY <1>1, <1>3, <2>1, <3>1 DEF ClockInv, ClockType
    <3>3. slotAt \in Int /\ now \in Int
      BY <2>1 DEF ClockInv, ClockType, Times
    <3> QED BY <3>1, <3>2, <3>3 DEF Round!Cap
  <2>2. ASSUME right # Never PROVE err = 0 /\ right <= now + 1
    <3>1. right \in Int /\ now \in Int
      BY <2>2 DEF ClockInv, ClockType, Times
    <3>2. err = 0 /\ right <= now
      BY <2>2 DEF ClockInv, CountInv
    <3> QED BY <3>1, <3>2
  <2>3. slotAt # Never => (now + 1)..(slotAt - 1) \subseteq now..(slotAt - 1)
    BY DEF ClockInv, ClockType, Times
  <2> QED BY <1>1, <2>1, <2>2, <2>3 DEF ClockInv, CountInv
<1> QED BY <1>2, <1>4, <1>5, <1>6 DEF ClockInv

(* The stepper's timer.                                                        *)
LEMMA SlotTimerFires ==
  ASSUME ClockInv, Round!SlotTimer
  PROVE  ClockInv'
<1>1. UNCHANGED <<now, err, hi, lo, right, screen, planned, punAt, shootAt>>
  BY DEF Round!SlotTimer, Round!clock
<1>2. CASE screen = "countdown"
  <2>1. Round!Tick(Round!Left(err), last) /\ planned
    BY <1>2 DEF Round!SlotTimer, ClockInv, CountInv
  <2>2. err \in Int
    BY DEF ClockInv, ClockType
  <2>3. /\ slotAt' \in Times
        /\ slotAt' # Never => now <= slotAt' /\ slotAt' <= now + Round!Cap
        /\ slotAt' # Never =>
              \A t \in now..(slotAt' - 1) : \A b \in Round!Due((Round!S - err) - t) : last' = b.label
        /\ (label' = label /\ last' = last) \/ label' = last'
    BY <2>1, <2>2, TickPaints DEF ClockInv
  <2>4. right # Never => Round!S - err = Round!S /\ right <= now /\ err = 0
    <3>1. right # Never => err = 0 /\ right <= now
      BY DEF ClockInv, CountInv
    <3>2. Round!S - 0 = Round!S
      BY DEF Round!S
    <3> QED BY <3>1, <3>2
  <2>5. CountInv'
    BY <1>1, <1>2, <2>1, <2>3, <2>4 DEF ClockInv, CountInv
  <2>6. ClockType' /\ WindowInv' /\ PlanInv'
    BY <1>1, <1>2, <2>3 DEF ClockInv, ClockType, WindowInv, PlanInv
  <2> QED BY <2>5, <2>6 DEF ClockInv
<1>3. CASE screen # "countdown"
  <2>1. slotAt' = Never /\ label' = label /\ last' = last
    BY <1>3 DEF Round!SlotTimer
  <2> QED BY <1>1, <1>3, <2>1 DEF ClockInv, ClockType, Times, WindowInv, PlanInv, CountInv
<1> QED BY <1>2, <1>3

(* The other timers, and a pick.                                               *)
LEMMA LockedOrPast ==
  ASSUME ClockInv,
         UNCHANGED <<now, err, hi, lo, right, label, planned, last, slotAt>>,
         punAt' = punAt \/ (punAt' = Never /\ screen # "countdown"),
         \/ screen' = "locked" /\ screen = "shoot" /\ shootAt' \in {shootAt, Never}
         \/ screen' = screen /\ shootAt' = shootAt
         \/ screen' = screen /\ screen # "shoot" /\ shootAt' = Never
  PROVE  ClockInv'
<1>1. ClockType'
  BY DEF ClockInv, ClockType, Times
<1>2. WindowInv'
  BY DEF ClockInv, WindowInv
<1>3. PlanInv'
  BY DEF ClockInv, PlanInv
<1>4. CountInv'
  BY DEF ClockInv, CountInv
<1> QED BY <1>1, <1>2, <1>3, <1>4 DEF ClockInv

LEMMA ClockStep ==
  ASSUME ClockInv, Round!Next \/ UNCHANGED clock
  PROVE  ClockInv'
<1> USE DEF Round!clock, Round!painter, Round!timers
<1>1. ASSUME NEW n \in 1..4, Round!Frame(n) PROVE ClockInv'
  <2>1. Widened(err) /\ err \in Int
    BY <1>1, MisreadWidens DEF Round!Frame, ClockInv, ClockType
  <2>2. CASE Round!EnterCountdown(err)
    BY <2>1, <2>2, IntoCountdown
  <2>3. CASE n = 4 /\ Round!EnterShoot(err) /\ punAt' = punAt
    <3>1. Round!S - hi' <= now
      BY <1>1, <2>3 DEF Round!Frame, Round!SentAt, Round!S, ClockInv, ClockType
    <3> QED BY <2>1, <2>3, <3>1, IntoShoot
  <2>4. CASE UNCHANGED <<screen, label, planned, last, slotAt, punAt, shootAt>>
    BY <1>1, <2>4, LockedOrPast DEF Round!Frame
  <2> QED BY <1>1, <2>2, <2>3, <2>4 DEF Round!Frame
<1>2. CASE Round!ClockSet
  <2>1. PICK e \in Readings : e # err /\ Round!Misread(e)
    BY <1>2 DEF Round!ClockSet
  <2>2. e \in Int /\ Widened(e)
    BY <2>1, PartsAssumption, MisreadWidens DEF ClockInv
  <2>3. UNCHANGED <<screen, label, planned, last, slotAt, punAt, shootAt>> /\ now' = now
    BY <1>2, <2>1 DEF Round!ClockSet, Round!Misread
  <2>4. /\ now \in Int /\ hi \in Int /\ lo \in Int /\ hi' \in Int /\ lo' \in Int
        /\ lo' <= lo /\ hi <= hi' /\ lo <= 0 /\ 0 <= hi
    BY <2>2 DEF Widened, ClockInv, ClockType
  <2>5. ClockType'
    BY <2>2, <2>3, <2>4 DEF Widened, ClockInv, ClockType
  <2>6. WindowInv'
    <3>1. ASSUME punAt # Never PROVE Round!S - hi' <= punAt
      <4>1. punAt \in Int /\ Round!S \in Int /\ Round!S - hi <= punAt
        BY <3>1 DEF ClockInv, ClockType, WindowInv, Times, Round!S
      <4> QED BY <2>4, <4>1, FurtherAhead, Zenon
    <3>2. ASSUME screen = "shoot", label = "PUN"
          PROVE  Round!S - hi' <= now /\ shootAt <= Round!S + Window - lo'
      <4>1. /\ shootAt \in Int /\ Round!S \in Int /\ Window \in Int
            /\ Round!S - hi <= now /\ shootAt <= Round!S + Window - lo
        BY <3>2, PartsAssumption DEF ClockInv, ClockType, WindowInv, Times, Round!S
      <4>2. lo \in Int /\ lo' \in Int /\ lo' <= lo
        BY <2>4
      <4>3. Round!S - hi' <= now
        BY <2>4, <4>1, FurtherAhead, Zenon
      <4>4. shootAt <= Round!S + Window - lo'
        BY <4>1, <4>2, FurtherBehind, Zenon
      <4> QED BY <4>3, <4>4
    <3> QED BY <2>3, <3>1, <3>2 DEF ClockInv, WindowInv
  <2>7. PlanInv'
    <3>1. hi' = 0 /\ lo' = 0 => hi = 0 /\ lo = 0
      BY <2>4
    <3> QED BY <2>3, <3>1 DEF ClockInv, PlanInv
  <2>8. CountInv'
    <3>1. right' # Never => e = 0 /\ right' = now
      BY <2>1, <2>2 DEF Widened, Round!Misread, ClockInv, CountInv
    <3>2. slotAt # Never => slotAt <= now + Round!Cap /\ slotAt \in Int
      BY DEF ClockInv, CountInv, ClockType, Times
    <3>3. right' # Never /\ slotAt # Never => ~(right' + Round!Cap < slotAt)
      BY <2>4, <3>1, <3>2 DEF Round!Cap
    <3> QED BY <2>2, <2>3, <3>3 DEF Widened, ClockInv, CountInv
  <2> QED BY <2>5, <2>6, <2>7, <2>8 DEF ClockInv
<1>3. CASE Round!Reconnect
  <2>1. Widened(0) /\ 0 \in Int
    BY <1>3, MisreadWidens DEF Round!Reconnect, ClockInv
  <2>2. CASE now < Round!S
    BY <1>3, <2>1, <2>2, IntoCountdown DEF Round!Reconnect
  <2>3. CASE ~(now < Round!S)
    <3>1. Round!S - hi' <= now
      <4>1. hi' \in Int /\ 0 <= hi'
        BY <2>1 DEF Widened
      <4>2. now \in Int /\ Round!S \in Int
        BY DEF Round!S, ClockInv, ClockType
      <4> QED BY <2>3, <4>1, <4>2, AheadOfPast, Zenon
    <3> QED BY <1>3, <2>1, <2>3, <3>1, IntoShoot DEF Round!Reconnect
  <2> QED BY <2>2, <2>3
<1>4. CASE Round!PunTimer
  <2>1. Widened(err) /\ err \in Int /\ hi' = hi /\ punAt = now /\ punAt' = Never
    BY <1>4, MisreadWidens DEF Round!PunTimer, ClockInv, ClockType
  <2>2. CASE screen = "countdown"
    <3>1. Round!S - hi' <= now
      <4>1. punAt # Never
        BY <2>1, PartsAssumption DEF ClockInv, ClockType
      <4>2. Round!S - hi <= punAt
        BY <4>1 DEF ClockInv, WindowInv
      <4>3. Round!S - hi <= now
        BY <2>1, <4>2, Zenon
      <4> QED BY <2>1, <4>3, Zenon
    <3> QED BY <1>4, <2>1, <2>2, <3>1, IntoShoot DEF Round!PunTimer
  <2>3. CASE screen # "countdown"
    BY <1>4, <2>1, <2>3, LockedOrPast DEF Round!PunTimer
  <2> QED BY <2>2, <2>3
<1>5. CASE Round!ShootTimer
  BY <1>5, LockedOrPast DEF Round!ShootTimer, Round!EnterLocked
<1>6. CASE Round!Pick
  BY <1>6, LockedOrPast DEF Round!Pick, Round!EnterLocked
<1>7. CASE UNCHANGED clock
  BY <1>7, LockedOrPast DEF clock
<1> QED BY <1>1, <1>2, <1>3, <1>4, <1>5, <1>6, <1>7, SlotTimerFires, TimePasses DEF Round!Next

LEMMA ClockStart == Round!Init => ClockInv
<1> SUFFICES ASSUME Round!Init PROVE ClockInv
  OBVIOUS
<1>1. /\ now = 0 /\ err = 0 /\ hi = 0 /\ lo = 0 /\ right = 0
      /\ screen = "matched" /\ label = "" /\ planned = FALSE /\ last = ""
      /\ slotAt = Never /\ punAt = Never /\ shootAt = Never
  BY DEF Round!Init
<1>0. 0 \in Int /\ 0 \in Times /\ Never \in Times /\ Never # 0 /\ 0 <= 0
  BY PartsAssumption DEF Times
<1>2. ClockType
  BY <1>0, <1>1, Zenon DEF ClockType
<1>3. WindowInv /\ PlanInv
  BY <1>1 DEF WindowInv, PlanInv
<1>4. CountInv
  BY <1>0, <1>1, Zenon DEF CountInv
<1> QED BY <1>2, <1>3, <1>4 DEF ClockInv

LEMMA ClockImplies ==
  ClockInv => WindowIsTheServers /\ OneFrameOpensTheWindow /\ CountIsDue
<1> SUFFICES ASSUME ClockInv PROVE WindowIsTheServers /\ OneFrameOpensTheWindow /\ CountIsDue
  OBVIOUS
<1>1. WindowIsTheServers
  <2> SUFFICES ASSUME screen = "shoot", label = "PUN"
               PROVE  Round!S - hi <= now /\ now <= Round!S + Window - lo
    BY DEF WindowIsTheServers, Round!WindowIsTheServers
  <2>1. shootAt # Never /\ Round!S - hi <= now /\ now <= shootAt /\ shootAt <= Round!S + Window - lo
    BY DEF ClockInv, WindowInv
  <2>2. shootAt \in Int /\ now \in Int /\ lo \in Int /\ Round!S + Window - lo \in Int
    BY <2>1, PartsAssumption DEF ClockInv, ClockType, Times, Round!S
  <2> QED BY <2>1, <2>2
<1>2. OneFrameOpensTheWindow
  <2> SUFFICES ASSUME hi = 0, lo = 0, planned, punAt # now, Round!S <= now, now < Round!S + Window
               PROVE  screen \in {"shoot", "locked"}
    BY DEF OneFrameOpensTheWindow, Round!OneFrameOpensTheWindow
  <2>1. now # Round!S => ~(now <= Round!S)
    BY DEF ClockInv, ClockType, Round!S
  <2>2. ~(Round!S + Window <= now)
    BY PartsAssumption DEF ClockInv, ClockType, Round!S
  <2> QED BY <2>1, <2>2 DEF ClockInv, PlanInv
<1>3. CountIsDue
  <2> SUFFICES ASSUME screen = "countdown", slotAt # Never, slotAt > now,
                      label \notin {"PUN", "waiting"}, right # Never, now > right + Round!Cap,
                      NEW b \in Round!Due(Round!Left(0))
               PROVE  label = b.label
    BY DEF CountIsDue, Round!CountIsDue
  <2>1. slotAt \in Int /\ right \in Int /\ now \in Int
    BY DEF ClockInv, ClockType, Times
  <2>2. right + Round!Cap < slotAt /\ now \in now..(slotAt - 1)
    BY <2>1 DEF Round!Cap
  <2>3. Round!Left(0) = Round!S - now
    BY <2>1 DEF Round!Left, Round!S
  <2>4. last = b.label
    BY <2>2, <2>3 DEF ClockInv, CountInv
  <2>5. label = last
    BY DEF ClockInv, CountInv
  <2> QED BY <2>4, <2>5
<1> QED BY <1>1, <1>2, <1>3

LEMMA ClockKept == PartsSpec => []ClockInv
<1>1. PartsInit => ClockInv
  BY ClockStart DEF PartsInit
<1>2. ClockInv /\ [PartsNext]_<<part, rules, vars, clock, kept>> => ClockInv'
  BY ClockStep DEF PartsNext
<1> QED BY <1>1, <1>2, PTL DEF PartsSpec

(* However wrong the phone's clock is and however often it is set, PUN is on   *)
(* the screen only while the server takes moves, but for that error            *)
(* (shootWindow, planRound).                                                   *)
THEOREM WindowStaysTheServers == PartsSpec => []WindowIsTheServers
  BY ClockKept, ClockImplies, PTL

(* Whatever frames are late or lost, one frame of the countdown opens the      *)
(* window of a page whose clock is right (planFromCountdown).                  *)
THEOREM OneFrameSuffices == PartsSpec => []OneFrameOpensTheWindow
  BY ClockKept, ClockImplies, PTL

(* However the clock has been misread before, the count shows the beat that is *)
(* due as soon as the clock has been right for SLOT_CAP_MS (countdownPainter). *)
THEOREM CountRecovers == PartsSpec => []CountIsDue
  BY ClockKept, ClockImplies, PTL

-----------------------------------------------------------------------------
(* The statistics of a browser. What they are to be, of any story s:           *)
Tells(st, s) ==
    /\ st.wins = Cardinality(Kept!Won(s, 0, Len(s) + 1))
    /\ \A r \in Kept!Runs(s) : r[2] = Len(s) + 1 => st.streak = Kept!Length(s, r)
    /\ \A r \in Kept!Runs(s) : Kept!Length(s, r) <= st.best
    /\ \E r \in Kept!Runs(s) : Kept!Length(s, r) = st.best
    /\ LET lost == {r \in Kept!Runs(s) : r[2] <= Len(s) /\ Kept!Length(s, r) > 0} IN
       IF lost = {} THEN st.last = 0
       ELSE \E r \in lost : st.last = Kept!Length(s, r) /\ \A o \in lost : o[2] <= r[2]

Figures == [wins : Nat, streak : Nat, best : Nat, last : Nat]
Story == Seq(Kept!Outcome)

(* A run goes on: what Tells says of the run that does is not said of none.     *)
GoesOn(s) == \E i \in Nat : <<i, Len(s) + 1>> \in Kept!Runs(s)

LEMMA OneMore ==
  ASSUME NEW s \in Story, NEW o \in Kept!Outcome
  PROVE  /\ Append(s, o) \in Story /\ Len(s) \in Nat /\ Len(Append(s, o)) = Len(s) + 1
         /\ \A i \in 1..Len(s) : Append(s, o)[i] = s[i]
         /\ Append(s, o)[Len(s) + 1] = o
BY DEF Story

LEMMA WonIsFinite ==
  ASSUME NEW s, NEW i \in Int, NEW j \in Int
  PROVE  IsFiniteSet(Kept!Won(s, i, j)) /\ Cardinality(Kept!Won(s, i, j)) \in Nat
<1>1. IsFiniteSet((i + 1)..(j - 1)) /\ Kept!Won(s, i, j) \subseteq (i + 1)..(j - 1)
  BY FS_Interval DEF Kept!Won
<1>2. IsFiniteSet(Kept!Won(s, i, j))
  BY <1>1, FS_Subset
<1> QED BY <1>2, FS_CardinalityType

(* What one more outcome adds to the wins and to the losses.                   *)
LEMMA WonMore ==
  ASSUME NEW s \in Story, NEW o \in Kept!Outcome, NEW i \in Nat
  PROVE  /\ \A j \in Nat : j <= Len(s) + 1 => Kept!Won(Append(s, o), i, j) = Kept!Won(s, i, j)
         /\ i <= Len(s) =>
              Cardinality(Kept!Won(Append(s, o), i, Len(s) + 2)) =
              Cardinality(Kept!Won(s, i, Len(s) + 1)) + (IF o = "win" THEN 1 ELSE 0)
<1> DEFINE t == Append(s, o)
           n == Len(s)
<1>0. /\ n \in Nat /\ \A k \in 1..n : t[k] = s[k]
      /\ t[n + 1] = o
  BY OneMore
<1> HIDE DEF t, n
<1>1. \A j \in Nat : j <= n + 1 => Kept!Won(t, i, j) = Kept!Won(s, i, j)
  BY <1>0 DEF Kept!Won
<1>2. ASSUME i <= n
      PROVE  Cardinality(Kept!Won(t, i, n + 2)) =
             Cardinality(Kept!Won(s, i, n + 1)) + (IF o = "win" THEN 1 ELSE 0)
  <2>1. (i + 1)..((n + 2) - 1) = ((i + 1)..((n + 1) - 1)) \union {n + 1}
    BY <1>0, <1>2
  <2>2. IsFiniteSet(Kept!Won(s, i, n + 1)) /\ Cardinality(Kept!Won(s, i, n + 1)) \in Nat
    BY <1>0, WonIsFinite
  <2>3. n + 1 \notin Kept!Won(s, i, n + 1)
    BY <1>0 DEF Kept!Won
  <2>4. \A k \in (i + 1)..((n + 1) - 1) : t[k] = s[k]
    BY <1>0
  <2>5. CASE o = "win"
    <3>1. Kept!Won(t, i, n + 2) = Kept!Won(s, i, n + 1) \union {n + 1}
      BY <1>0, <2>1, <2>4, <2>5 DEF Kept!Won
    <3> QED BY <2>2, <2>3, <2>5, <3>1, FS_AddElement
  <2>6. CASE o # "win"
    <3>1. Kept!Won(t, i, n + 2) = Kept!Won(s, i, n + 1)
      BY <1>0, <2>1, <2>4, <2>6 DEF Kept!Won
    <3> QED BY <2>2, <2>6, <3>1
  <2> QED BY <2>5, <2>6
<1> QED BY <1>1, <1>2 DEF t, n

LEMMA LostMore ==
  ASSUME NEW s \in Story, NEW o \in Kept!Outcome
  PROVE  /\ Kept!Lost(s) \subseteq 1..Len(s)
         /\ Kept!Lost(Append(s, o)) =
              IF o = "loss" THEN Kept!Lost(s) \union {Len(s) + 1} ELSE Kept!Lost(s)
<1> DEFINE t == Append(s, o)
           n == Len(s)
<1>0. /\ n \in Nat /\ Len(t) = n + 1
      /\ \A k \in 1..n : t[k] = s[k]
      /\ t[n + 1] = o
  BY OneMore
<1> HIDE DEF t
<1>1. 1..(n + 1) = (1..n) \union {n + 1} /\ n + 1 \notin 1..n
  BY <1>0
<1>2. Kept!Lost(t) = IF o = "loss" THEN Kept!Lost(s) \union {n + 1} ELSE Kept!Lost(s)
  BY <1>0, <1>1 DEF Kept!Lost
<1> QED BY <1>2 DEF t, Kept!Lost

LEMMA RunOf ==
  ASSUME NEW s \in Story
  PROVE  /\ \A a, b : <<a, b>> \in Kept!Runs(s) <=>
              /\ a \in Kept!Lost(s) \union {0} /\ b \in Kept!Lost(s) \union {Len(s) + 1}
              /\ a < b /\ \A k \in Kept!Lost(s) : ~(a < k /\ k < b)
         /\ \A r \in Kept!Runs(s) :
              r = <<r[1], r[2]>> /\ r[1] \in Nat /\ r[2] \in Nat
              /\ r[1] <= Len(s) /\ r[2] <= Len(s) + 1
<1>1. Len(s) \in Nat /\ Kept!Lost(s) \subseteq 1..Len(s)
  BY DEF Story, Kept!Lost
<1>2. \A a, b : <<a, b>> \in Kept!Runs(s) <=>
        /\ a \in Kept!Lost(s) \union {0} /\ b \in Kept!Lost(s) \union {Len(s) + 1}
        /\ a < b /\ \A k \in Kept!Lost(s) : ~(a < k /\ k < b)
  BY DEF Kept!Runs
<1>3. ASSUME NEW r \in Kept!Runs(s)
      PROVE  r = <<r[1], r[2]>> /\ r[1] \in Nat /\ r[2] \in Nat
             /\ r[1] <= Len(s) /\ r[2] <= Len(s) + 1
  <2>1. r = <<r[1], r[2]>> /\ r[1] \in Kept!Lost(s) \union {0} /\ r[2] \in Kept!Lost(s) \union {Len(s) + 1}
    BY DEF Kept!Runs
  <2> QED BY <1>1, <2>1
<1> QED BY <1>2, <1>3

(* Only one run goes on.                                                       *)
LEMMA OneGoesOn ==
  ASSUME NEW s \in Story, NEW p \in Kept!Runs(s), NEW r \in Kept!Runs(s),
         p[2] = Len(s) + 1, r[2] = Len(s) + 1
  PROVE  p = r
<1>1. Len(s) \in Nat /\ Kept!Lost(s) \subseteq 1..Len(s)
  BY DEF Story, Kept!Lost
<1>2. /\ p = <<p[1], p[2]>> /\ r = <<r[1], r[2]>>
      /\ p[1] \in Nat /\ r[1] \in Nat
      /\ p[1] \in Kept!Lost(s) \union {0} /\ r[1] \in Kept!Lost(s) \union {0}
      /\ \A k \in Kept!Lost(s) : ~(p[1] < k /\ k < Len(s) + 1) /\ ~(r[1] < k /\ k < Len(s) + 1)
  BY RunOf
<1>3. p[1] = r[1]
  BY <1>1, <1>2
<1> QED BY <1>2, <1>3

(* A loss closes the run that goes on and opens an empty one; anything else    *)
(* carries it on.                                                              *)
LEMMA RunsAfterLoss ==
  ASSUME NEW s \in Story
  PROVE  Kept!Runs(Append(s, "loss")) = Kept!Runs(s) \union {<<Len(s) + 1, Len(s) + 2>>}
<1> DEFINE t == Append(s, "loss")
           n == Len(s)
<1>1. t \in Story /\ n \in Nat /\ Len(t) = n + 1 /\ Kept!Lost(s) \subseteq 1..n
      /\ Kept!Lost(t) = Kept!Lost(s) \union {n + 1}
  BY OneMore, LostMore DEF Kept!Outcome
<1> HIDE DEF t, n
<1>2. \A a, b : <<a, b>> \in Kept!Runs(t) <=> <<a, b>> \in Kept!Runs(s) \/ (a = n + 1 /\ b = n + 2)
  <2> SUFFICES ASSUME NEW a, NEW b
               PROVE  <<a, b>> \in Kept!Runs(t) <=> <<a, b>> \in Kept!Runs(s) \/ (a = n + 1 /\ b = n + 2)
    OBVIOUS
  <2>1. <<a, b>> \in Kept!Runs(t) <=>
          /\ a \in (Kept!Lost(s) \union {n + 1}) \union {0} /\ b \in (Kept!Lost(s) \union {n + 1}) \union {n + 2}
          /\ a < b /\ \A k \in Kept!Lost(s) \union {n + 1} : ~(a < k /\ k < b)
    BY <1>1, RunOf
  <2>2. <<a, b>> \in Kept!Runs(s) <=>
          /\ a \in Kept!Lost(s) \union {0} /\ b \in Kept!Lost(s) \union {n + 1}
          /\ a < b /\ \A k \in Kept!Lost(s) : ~(a < k /\ k < b)
    BY RunOf DEF n
  <2> QED BY <1>1, <2>1, <2>2
<1>3. \A r \in Kept!Runs(s) : r = <<r[1], r[2]>>
  BY RunOf
<1>4. \A r \in Kept!Runs(t) : r = <<r[1], r[2]>>
  BY <1>1, RunOf
<1>5. Kept!Runs(t) \subseteq Kept!Runs(s) \union {<<n + 1, n + 2>>}
  BY <1>2, <1>4
<1>6. Kept!Runs(s) \union {<<n + 1, n + 2>>} \subseteq Kept!Runs(t)
  BY <1>2, <1>3
<1> QED BY <1>5, <1>6 DEF t, n

LEMMA RunsAfterOther ==
  ASSUME NEW s \in Story, NEW o \in Kept!Outcome, o # "loss", NEW a, NEW b
  PROVE  <<a, b>> \in Kept!Runs(Append(s, o)) <=>
            \/ b <= Len(s) /\ b # Len(s) + 1 /\ <<a, b>> \in Kept!Runs(s)
            \/ b = Len(s) + 2 /\ <<a, Len(s) + 1>> \in Kept!Runs(s)
<1> DEFINE t == Append(s, o)
           n == Len(s)
<1>1. t \in Story /\ n \in Nat /\ Len(t) = n + 1 /\ Kept!Lost(s) \subseteq 1..n
      /\ Kept!Lost(t) = Kept!Lost(s)
  BY OneMore, LostMore
<1> HIDE DEF t, n
<1>2. <<a, b>> \in Kept!Runs(t) <=>
        /\ a \in Kept!Lost(s) \union {0} /\ b \in Kept!Lost(s) \union {n + 2}
        /\ a < b /\ \A k \in Kept!Lost(s) : ~(a < k /\ k < b)
  BY <1>1, RunOf
<1>3. \A c : <<a, c>> \in Kept!Runs(s) <=>
        /\ a \in Kept!Lost(s) \union {0} /\ c \in Kept!Lost(s) \union {n + 1}
        /\ a < c /\ \A k \in Kept!Lost(s) : ~(a < k /\ k < c)
  BY RunOf DEF n
<1>4. <<a, b>> \in Kept!Runs(t) <=>
            \/ b <= n /\ b # n + 1 /\ <<a, b>> \in Kept!Runs(s)
            \/ b = n + 2 /\ <<a, n + 1>> \in Kept!Runs(s)
  <2>1. CASE b = n + 2
    BY <1>1, <1>2, <1>3, <2>1
  <2>2. CASE b # n + 2
    <3>1. b \in Kept!Lost(s) => b \in Nat /\ b <= n
      BY <1>1
    <3>2. <<a, b>> \in Kept!Runs(s) => b \in Kept!Lost(s) \/ b = n + 1
      BY <1>3
    <3> QED BY <1>1, <1>2, <1>3, <2>2, <3>1, <3>2
  <2> QED BY <2>1, <2>2
<1> QED BY <1>4 DEF t, n

(* How many is what it is wherever it is said.                                  *)
LEMMA HowMany == \A S : Kept!Cardinality(S) = Cardinality(S)
BY Zenon DEF Kept!Cardinality, Cardinality

LEMMA LengthOf ==
  ASSUME NEW s, NEW a, NEW b
  PROVE  Kept!Length(s, <<a, b>>) = Cardinality(Kept!Won(s, a, b))
<1>1. <<a, b>>[1] = a /\ <<a, b>>[2] = b
  OBVIOUS
<1> QED BY <1>1, HowMany, Zenon DEF Kept!Length

(* Wins and draws lengthen the run that goes on, by one and by none.           *)
LEMMA ToldNoLoss ==
  ASSUME NEW s \in Story, NEW o \in Kept!Outcome, o # "loss",
         NEW st \in Figures, Tells(st, s), GoesOn(s)
  PROVE  LET t == Append(s, o)
             after == Kept!ApplyResult(st, o)
         IN  after \in Figures /\ Tells(after, t) /\ GoesOn(t)
<1> DEFINE t == Append(s, o)
           after == Kept!ApplyResult(st, o)
           n == Len(s)
           g == IF o = "win" THEN 1 ELSE 0
           best == IF st.streak + g > st.best THEN st.streak + g ELSE st.best
           lost == {r \in Kept!Runs(s) : r[2] <= n /\ Kept!Length(s, r) > 0}
           lostThen == {r \in Kept!Runs(t) : r[2] <= n + 1 /\ Kept!Length(t, r) > 0}
<1>1. t \in Story /\ n \in Nat /\ Len(t) = n + 1 /\ g \in {0, 1}
  BY OneMore
<1>2. /\ st.wins \in Nat /\ st.streak \in Nat /\ st.best \in Nat /\ st.last \in Nat
      /\ after \in Figures
      /\ after.wins = st.wins + g /\ after.streak = st.streak + g
      /\ after.best = best /\ after.last = st.last
  <2>0. st.wins \in Nat /\ st.streak \in Nat /\ st.best \in Nat /\ st.last \in Nat
    BY DEF Figures
  <2>1. CASE o = "win"
    <3>1. after = [st EXCEPT !.wins = st.wins + 1, !.streak = st.streak + 1, !.best = best]
      BY <2>1 DEF Kept!ApplyResult, Kept!AfterWin
    <3>2. g = 1 /\ best \in Nat
      BY <2>0, <2>1
    <3> HIDE DEF after, best, g
    <3>3. after = [wins |-> st.wins + 1, streak |-> st.streak + 1, best |-> best, last |-> st.last]
      BY <3>1 DEF Figures
    <3>4. after.wins = st.wins + 1 /\ after.streak = st.streak + 1
          /\ after.best = best /\ after.last = st.last
      BY <3>3
    <3>5. st.wins + 1 \in Nat /\ st.streak + 1 \in Nat
      BY <2>0
    <3>6. after \in Figures
      BY <2>0, <3>2, <3>3, <3>5 DEF Figures
    <3> QED BY <2>0, <3>2, <3>4, <3>6
  <2>2. CASE o # "win"
    <3>1. after = st
      BY <2>2 DEF Kept!ApplyResult, Kept!Outcome
    <3>2. st.streak <= st.best
      <4>1. PICK i \in Nat : <<i, n + 1>> \in Kept!Runs(s)
        BY DEF GoesOn
      <4> QED BY <4>1 DEF Tells
    <3>3. g = 0 /\ best = st.best
      BY <2>0, <2>2, <3>2
    <3> HIDE DEF after, best, g
    <3> QED BY <2>0, <3>1, <3>3
  <2> QED BY <2>1, <2>2
<1>3. \A i, j \in Nat : j <= n + 1 => Kept!Won(t, i, j) = Kept!Won(s, i, j)
  BY WonMore
<1>4. \A i \in Nat : i <= n =>
        Cardinality(Kept!Won(t, i, n + 2)) = Cardinality(Kept!Won(s, i, n + 1)) + g
  BY WonMore
<1>5. \A a, b : <<a, b>> \in Kept!Runs(t) <=>
        \/ b <= n /\ b # n + 1 /\ <<a, b>> \in Kept!Runs(s)
        \/ b = n + 2 /\ <<a, n + 1>> \in Kept!Runs(s)
  BY RunsAfterOther
<1>6. /\ \A r \in Kept!Runs(s) : r = <<r[1], r[2]>> /\ r[1] \in Nat /\ r[2] \in Nat
                                 /\ r[1] <= n /\ r[2] <= n + 1
      /\ \A r \in Kept!Runs(t) : r = <<r[1], r[2]>> /\ r[1] \in Nat /\ r[2] \in Nat
  <2> HIDE DEF t
  <2> QED BY <1>1, RunOf
<1>7. \A a, b : Kept!Length(s, <<a, b>>) = Cardinality(Kept!Won(s, a, b))
                /\ Kept!Length(t, <<a, b>>) = Cardinality(Kept!Won(t, a, b))
  BY LengthOf
<1>8. /\ st.wins = Cardinality(Kept!Won(s, 0, n + 1))
      /\ \A r \in Kept!Runs(s) : r[2] = n + 1 => st.streak = Kept!Length(s, r)
      /\ \A r \in Kept!Runs(s) : Kept!Length(s, r) <= st.best
      /\ \E r \in Kept!Runs(s) : Kept!Length(s, r) = st.best
      /\ IF lost = {} THEN st.last = 0
         ELSE \E r \in lost : st.last = Kept!Length(s, r) /\ \A q \in lost : q[2] <= r[2]
  BY DEF Tells
<1> HIDE DEF t, after, n, g, best, lost, lostThen
<1>9. ASSUME NEW a, NEW b, <<a, b>> \in Kept!Runs(s), b <= n
      PROVE  <<a, b>> \in Kept!Runs(t) /\ Kept!Length(t, <<a, b>>) = Kept!Length(s, <<a, b>>)
  <2>1. a \in Nat /\ b \in Nat
    BY <1>6, <1>9
  <2>2. b <= n + 1 /\ b # n + 1
    BY <1>1, <1>9, <2>1
  <2>3. Kept!Won(t, a, b) = Kept!Won(s, a, b)
    BY <1>3, <2>1, <2>2
  <2>4. <<a, b>> \in Kept!Runs(t)
    BY <1>5, <1>9, <2>2
  <2> QED BY <1>7, <2>3, <2>4
<1>10. ASSUME NEW a, <<a, n + 1>> \in Kept!Runs(s)
       PROVE  <<a, n + 2>> \in Kept!Runs(t) /\ Kept!Length(t, <<a, n + 2>>) = st.streak + g
  <2>1. a \in Nat /\ a <= n
    BY <1>6, <1>10
  <2>2. Kept!Length(t, <<a, n + 2>>) = Kept!Length(s, <<a, n + 1>>) + g
    BY <1>4, <1>7, <2>1
  <2>3. st.streak = Kept!Length(s, <<a, n + 1>>)
    BY <1>8, <1>10
  <2> QED BY <1>5, <1>10, <2>2, <2>3
<1>11. ASSUME NEW r \in Kept!Runs(t)
       PROVE  \/ r \in Kept!Runs(s) /\ r[2] <= n /\ Kept!Length(t, r) = Kept!Length(s, r)
              \/ r[2] = n + 2 /\ <<r[1], n + 1>> \in Kept!Runs(s) /\ Kept!Length(t, r) = st.streak + g
  <2>1. r = <<r[1], r[2]>>
    BY <1>6
  <2>2. \/ r[2] <= n /\ <<r[1], r[2]>> \in Kept!Runs(s)
        \/ r[2] = n + 2 /\ <<r[1], n + 1>> \in Kept!Runs(s)
    BY <1>5, <2>1
  <2> QED BY <1>9, <1>10, <2>1, <2>2
<1>12. PICK i \in Nat : <<i, n + 1>> \in Kept!Runs(s)
  BY DEF GoesOn, n
<1>13. GoesOn(t)
  <2>1. <<i, Len(t) + 1>> \in Kept!Runs(t)
    BY <1>1, <1>10, <1>12
  <2> QED BY <2>1 DEF GoesOn
<1>14. after.wins = Cardinality(Kept!Won(t, 0, Len(t) + 1))
  BY <1>1, <1>2, <1>4, <1>8
<1>15. \A r \in Kept!Runs(t) : r[2] = Len(t) + 1 => after.streak = Kept!Length(t, r)
  <2> SUFFICES ASSUME NEW r \in Kept!Runs(t), r[2] = n + 2 PROVE Kept!Length(t, r) = st.streak + g
    BY <1>1, <1>2
  <2>1. ~(r[2] <= n)
    BY <1>1
  <2> QED BY <1>11, <2>1
<1>16. best \in Nat /\ st.best <= best /\ st.streak + g <= best
       /\ (best = st.best \/ best = st.streak + g)
  BY <1>1, <1>2 DEF best
<1>17. \A r \in Kept!Runs(t) : Kept!Length(t, r) <= after.best
  <2> SUFFICES ASSUME NEW r \in Kept!Runs(t) PROVE Kept!Length(t, r) <= best
    BY <1>2
  <2>1. CASE r \in Kept!Runs(s) /\ r[2] <= n /\ Kept!Length(t, r) = Kept!Length(s, r)
    <3>1. Kept!Length(s, r) \in Nat
      <4>1. r[1] \in Int /\ r[2] \in Int
        BY <1>6
      <4>2. Kept!Length(s, r) = Cardinality(Kept!Won(s, r[1], r[2]))
        BY HowMany DEF Kept!Length
      <4> QED BY <4>1, <4>2, WonIsFinite
    <3>2. Kept!Length(s, r) <= st.best
      BY <1>8, <2>1
    <3> QED BY <1>2, <1>16, <2>1, <3>1, <3>2
  <2>2. CASE Kept!Length(t, r) = st.streak + g
    BY <1>16, <2>2
  <2> QED BY <1>11, <2>1, <2>2
<1>18. \E r \in Kept!Runs(t) : Kept!Length(t, r) = after.best
  <2>1. CASE best = st.streak + g
    BY <1>2, <1>10, <1>12, <2>1
  <2>2. CASE best = st.best /\ best # st.streak + g
    <3>1. PICK r \in Kept!Runs(s) : Kept!Length(s, r) = st.best
      BY <1>8
    <3>2. r = <<r[1], r[2]>> /\ r[1] \in Nat /\ r[2] \in Nat /\ r[2] <= n + 1
      BY <1>6, <3>1
    <3>3. CASE r[2] <= n
      BY <1>2, <1>9, <2>2, <3>1, <3>2, <3>3
    <3>4. CASE r[2] = n + 1
      <4>1. st.streak = st.best
        BY <1>8, <3>1, <3>4
      <4>2. <<i, n + 2>> \in Kept!Runs(t) /\ Kept!Length(t, <<i, n + 2>>) = st.streak + g
        BY <1>10, <1>12
      <4>3. st.streak + g = best
        BY <1>1, <1>2, <1>16, <4>1, <2>2
      <4> QED BY <4>3, <2>2
    <3> QED BY <1>1, <3>2, <3>3, <3>4
  <2> QED BY <1>16, <2>1, <2>2
<1>19. lostThen = lost /\ \A r \in lost : Kept!Length(t, r) = Kept!Length(s, r)
  <2>1. ASSUME NEW r \in lostThen PROVE r \in lost
    <3>1. r \in Kept!Runs(t) /\ r[2] <= n + 1 /\ Kept!Length(t, r) > 0 /\ r[2] \in Nat
      BY <1>6, <2>1 DEF lostThen
    <3>2. r[2] # n + 2
      BY <1>1, <3>1
    <3> QED BY <1>11, <3>1, <3>2 DEF lost
  <2>2. ASSUME NEW r \in lost PROVE r \in lostThen /\ Kept!Length(t, r) = Kept!Length(s, r)
    <3>1. r \in Kept!Runs(s) /\ r[2] <= n /\ Kept!Length(s, r) > 0 /\ r[2] \in Nat /\ r = <<r[1], r[2]>>
      BY <1>6, <2>2 DEF lost
    <3>2. r \in Kept!Runs(t) /\ Kept!Length(t, r) = Kept!Length(s, r)
      BY <1>9, <3>1
    <3>3. r[2] <= n + 1
      BY <1>1, <3>1
    <3> QED BY <3>1, <3>2, <3>3 DEF lostThen
  <2> QED BY <2>1, <2>2
<1>20. IF lostThen = {} THEN after.last = 0
       ELSE \E r \in lostThen : after.last = Kept!Length(t, r) /\ \A q \in lostThen : q[2] <= r[2]
  BY <1>2, <1>8, <1>19
<1>21. Tells(after, t)
  <2>1. {r \in Kept!Runs(t) : r[2] <= Len(t) /\ Kept!Length(t, r) > 0} = lostThen
    BY <1>1 DEF lostThen
  <2> QED BY <1>14, <1>15, <1>17, <1>18, <1>20, <2>1 DEF Tells
<1> QED BY <1>2, <1>13, <1>21 DEF t, after

(* A loss closes the run that goes on.                                         *)
LEMMA ToldLoss ==
  ASSUME NEW s \in Story, NEW st \in Figures, Tells(st, s), GoesOn(s)
  PROVE  LET t == Append(s, "loss")
             after == Kept!ApplyResult(st, "loss")
         IN  after \in Figures /\ Tells(after, t) /\ GoesOn(t)
<1> DEFINE t == Append(s, "loss")
           after == Kept!ApplyResult(st, "loss")
           n == Len(s)
           new == <<n + 1, n + 2>>
           lost == {r \in Kept!Runs(s) : r[2] <= n /\ Kept!Length(s, r) > 0}
           lostThen == {r \in Kept!Runs(t) : r[2] <= n + 1 /\ Kept!Length(t, r) > 0}
<1>1. t \in Story /\ n \in Nat /\ Len(t) = n + 1 /\ "loss" \in Kept!Outcome
  BY OneMore DEF Kept!Outcome
<1>2. /\ st.wins \in Nat /\ st.streak \in Nat /\ st.best \in Nat /\ st.last \in Nat
      /\ after \in Figures
      /\ after.wins = st.wins /\ after.streak = 0
      /\ after.best = st.best /\ after.last = IF st.streak > 0 THEN st.streak ELSE st.last
  BY DEF Figures, Kept!ApplyResult, Kept!AfterLoss
<1>3. \A i, j \in Nat : j <= n + 1 => Kept!Won(t, i, j) = Kept!Won(s, i, j)
  BY <1>1, WonMore
<1>4. Cardinality(Kept!Won(t, 0, n + 2)) = Cardinality(Kept!Won(s, 0, n + 1))
  <2>1. Cardinality(Kept!Won(t, 0, n + 2)) = Cardinality(Kept!Won(s, 0, n + 1)) + 0
    BY <1>1, WonMore
  <2>2. Cardinality(Kept!Won(s, 0, n + 1)) \in Nat
    BY <1>1, WonIsFinite
  <2> QED BY <2>1, <2>2
<1>5. Kept!Runs(t) = Kept!Runs(s) \union {new}
  BY RunsAfterLoss
<1>6. \A r \in Kept!Runs(s) : r = <<r[1], r[2]>> /\ r[1] \in Nat /\ r[2] \in Nat
                              /\ r[1] <= n /\ r[2] <= n + 1
  BY RunOf
<1>7. Kept!Length(t, new) = 0 /\ new[2] = n + 2
  <2>1. Kept!Won(t, n + 1, n + 2) = {}
    BY <1>1 DEF Kept!Won
  <2>2. Kept!Length(t, new) = Cardinality(Kept!Won(t, n + 1, n + 2))
    BY LengthOf
  <2> QED BY <2>1, <2>2, FS_EmptySet
<1>8. /\ st.wins = Cardinality(Kept!Won(s, 0, n + 1))
      /\ \A r \in Kept!Runs(s) : r[2] = n + 1 => st.streak = Kept!Length(s, r)
      /\ \A r \in Kept!Runs(s) : Kept!Length(s, r) <= st.best
      /\ \E r \in Kept!Runs(s) : Kept!Length(s, r) = st.best
      /\ IF lost = {} THEN st.last = 0
         ELSE \E r \in lost : st.last = Kept!Length(s, r) /\ \A q \in lost : q[2] <= r[2]
  BY DEF Tells
<1>9. PICK i \in Nat : <<i, n + 1>> \in Kept!Runs(s)
  BY DEF GoesOn
<1>10. \A r \in Kept!Runs(s) : Kept!Length(t, r) = Kept!Length(s, r)
  BY <1>3, <1>6 DEF Kept!Length
<1> DEFINE open == <<i, n + 1>>
<1>11. open \in Kept!Runs(s) /\ open[2] = n + 1 /\ Kept!Length(s, open) = st.streak
  BY <1>8, <1>9
<1> HIDE DEF t, after, n, new, lost, lostThen, open
<1>12. GoesOn(t)
  <2>1. <<n + 1, Len(t) + 1>> \in Kept!Runs(t) /\ n + 1 \in Nat
    BY <1>1, <1>5 DEF new
  <2> QED BY <2>1 DEF GoesOn
<1>13. after.wins = Cardinality(Kept!Won(t, 0, Len(t) + 1))
  BY <1>1, <1>2, <1>4, <1>8
<1>14. \A r \in Kept!Runs(t) : r[2] = Len(t) + 1 => after.streak = Kept!Length(t, r)
  <2> SUFFICES ASSUME NEW r \in Kept!Runs(t), r[2] = n + 2 PROVE Kept!Length(t, r) = 0
    BY <1>1, <1>2
  <2>1. r \notin Kept!Runs(s)
    BY <1>1, <1>6
  <2> QED BY <1>5, <1>7, <2>1
<1>15. \A r \in Kept!Runs(t) : Kept!Length(t, r) <= after.best
  BY <1>2, <1>5, <1>7, <1>8, <1>10
<1>16. \E r \in Kept!Runs(t) : Kept!Length(t, r) = after.best
  BY <1>2, <1>5, <1>8, <1>10
<1>17. lostThen = IF st.streak > 0 THEN lost \union {open} ELSE lost
  <2>1. ASSUME NEW r \in lostThen PROVE r \in lost \/ (st.streak > 0 /\ r = open)
    <3>1. r \in Kept!Runs(t) /\ r[2] <= n + 1 /\ Kept!Length(t, r) > 0
      BY <2>1 DEF lostThen
    <3>2. r # new
      BY <1>2, <1>7, <3>1
    <3>3. r \in Kept!Runs(s) /\ Kept!Length(s, r) > 0
      BY <1>5, <1>10, <3>1, <3>2
    <3>4. CASE r[2] <= n
      BY <3>3, <3>4 DEF lost
    <3>5. CASE r[2] = n + 1
      <4>1. r = open
        BY <1>11, <3>3, <3>5, OneGoesOn DEF n
      <4> QED BY <1>11, <3>3, <4>1
    <3> QED BY <1>1, <1>6, <3>1, <3>3, <3>4, <3>5
  <2>2. ASSUME NEW r \in lost PROVE r \in lostThen
    <3>1. r \in Kept!Runs(s) /\ r[2] <= n /\ Kept!Length(s, r) > 0 /\ r[2] \in Nat
      BY <1>6, <2>2 DEF lost
    <3>2. r[2] <= n + 1
      BY <1>1, <3>1
    <3> QED BY <1>5, <1>10, <3>1, <3>2 DEF lostThen
  <2>3. st.streak > 0 => open \in lostThen
    <3>1. n + 1 <= n + 1
      BY <1>1
    <3> QED BY <1>5, <1>10, <1>11, <3>1 DEF lostThen
  <2> QED BY <2>1, <2>2, <2>3
<1>18. IF lostThen = {} THEN after.last = 0
       ELSE \E r \in lostThen : after.last = Kept!Length(t, r) /\ \A q \in lostThen : q[2] <= r[2]
  <2>1. CASE st.streak > 0
    <3>1. open \in lostThen /\ after.last = Kept!Length(t, open)
      BY <1>2, <1>10, <1>11, <1>17, <2>1
    <3>2. \A q \in lostThen : q[2] <= n + 1
      BY DEF lostThen
    <3> QED BY <1>11, <3>1, <3>2
  <2>2. CASE ~(st.streak > 0)
    <3>1. lostThen = lost /\ after.last = st.last
      BY <1>2, <1>17, <2>2
    <3>2. \A r \in lost : Kept!Length(t, r) = Kept!Length(s, r)
      BY <1>10 DEF lost
    <3> QED BY <1>8, <3>1, <3>2
  <2> QED BY <2>1, <2>2
<1>19. Tells(after, t)
  <2>1. {r \in Kept!Runs(t) : r[2] <= Len(t) /\ Kept!Length(t, r) > 0} = lostThen
    BY <1>1 DEF lostThen
  <2> QED BY <1>13, <1>14, <1>15, <1>16, <1>18, <2>1 DEF Tells
<1> QED BY <1>2, <1>12, <1>19 DEF t, after

StatsInv == told \in Story /\ stats \in Figures /\ GoesOn(told) /\ Tells(stats, told)

LEMMA StatsStart == Kept!Init => StatsInv
<1> SUFFICES ASSUME Kept!Init PROVE StatsInv
  OBVIOUS
<1>1. told = <<>> /\ told \in Story /\ Len(told) = 0
      /\ stats = [wins |-> 0, streak |-> 0, best |-> 0, last |-> 0] /\ stats \in Figures
  BY DEF Kept!Init, Story, Figures
<1>2. Kept!Lost(told) = {} /\ Kept!Runs(told) = {<<0, 1>>}
  <2>1. Kept!Lost(told) = {}
    BY <1>1 DEF Kept!Lost
  <2>2. \A a, b : <<a, b>> \in Kept!Runs(told) <=> a = 0 /\ b = 1
    <3>1. Kept!Lost(told) \union {0} = {0} /\ Kept!Lost(told) \union {Len(told) + 1} = {1} /\ 0 < 1
      BY <1>1, <2>1
    <3>2. \A a, b : <<a, b>> \in Kept!Runs(told) <=>
            /\ a \in Kept!Lost(told) \union {0} /\ b \in Kept!Lost(told) \union {Len(told) + 1}
            /\ a < b /\ \A k \in Kept!Lost(told) : ~(a < k /\ k < b)
      BY <1>1, RunOf
    <3> QED BY <2>1, <3>1, <3>2, Zenon
  <2>3. \A r \in Kept!Runs(told) : r = <<r[1], r[2]>>
    BY <1>1, RunOf
  <2> QED BY <2>1, <2>2, <2>3
<1>3. Kept!Length(told, <<0, 1>>) = 0 /\ Cardinality(Kept!Won(told, 0, 1)) = 0
  <2>1. Kept!Won(told, 0, 1) = {}
    BY DEF Kept!Won
  <2> QED BY <2>1, FS_EmptySet, LengthOf
<1>4. GoesOn(told)
  BY <1>1, <1>2 DEF GoesOn
<1>5. Tells(stats, told)
  <2>1. {r \in Kept!Runs(told) : r[2] <= Len(told) /\ Kept!Length(told, r) > 0} = {}
    BY <1>1, <1>2, <1>3
  <2> QED BY <1>1, <1>2, <1>3, <2>1 DEF Tells
<1> QED BY <1>1, <1>4, <1>5 DEF StatsInv

LEMMA StatsKept == PartsSpec => []StatsInv
<1>1. PartsInit => StatsInv
  BY StatsStart DEF PartsInit
<1>2. StatsInv /\ [PartsNext]_<<part, rules, vars, clock, kept>> => StatsInv'
  <2>1. ASSUME StatsInv, UNCHANGED kept PROVE StatsInv'
    BY <2>1 DEF StatsInv, kept
  <2>2. ASSUME StatsInv, NEW o \in Kept!Outcome, Kept!Result(o) PROVE StatsInv'
    <3>1. stats' = Kept!ApplyResult(stats, o) /\ told' = Append(told, o)
      BY <2>2 DEF Kept!Result
    <3>2. told' \in Story
      BY <2>2, <3>1, OneMore DEF StatsInv
    <3>3. stats' \in Figures /\ Tells(stats', told') /\ GoesOn(told')
      <4>1. CASE o = "loss"
        BY <2>2, <3>1, <4>1, ToldLoss DEF StatsInv
      <4>2. CASE o # "loss"
        BY <2>2, <3>1, <4>2, ToldNoLoss DEF StatsInv
      <4> QED BY <4>1, <4>2
    <3> QED BY <3>2, <3>3 DEF StatsInv
  <2> QED BY <2>1, <2>2 DEF PartsNext, Kept!Next
<1> QED BY <1>1, <1>2, PTL DEF PartsSpec

(* Folded result by result, the statistics are those of all the results: draws *)
(* and no-contests break no run, and an empty run does not count as the last   *)
(* one lost (applyResult).                                                     *)
THEOREM StatsStayTheRuns == PartsSpec => []StatsAreTheRuns
<1>1. StatsInv => StatsAreTheRuns
  BY HowMany, Zenon DEF StatsInv, Tells, StatsAreTheRuns, Kept!StatsAreTheRuns
<1> QED BY <1>1, StatsKept, PTL

=============================================================================
