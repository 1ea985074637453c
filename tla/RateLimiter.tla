---------------------------- MODULE RateLimiter ----------------------------
(* The token bucket every request of an address is taken from (ratelimit.go).  *)
(* A bucket is refilled when it is next looked at, and forgotten when the map  *)
(* has no room; beside it stands the bucket it stands for, refilled all the    *)
(* time. Tokens are counted in parts, and time in what one part takes to       *)
(* refill, so that a bucket may hold a fraction of a token. A request holds the *)
(* lock throughout, so each is one action.                                     *)
EXTENDS Integers, FiniteSets

CONSTANTS
    Ip,
    Part,       \* parts of a token, which is what a request costs
    Capacity,   \* of a bucket, in parts
    MaxEntries, \* of the map
    End         \* time (a bound)

ASSUME LimiterAssumption ==
    /\ IsFiniteSet(Ip)
    /\ Part \in Nat \ {0} /\ Capacity \in Nat /\ Capacity >= Part
    /\ MaxEntries \in Nat \ {0} /\ End \in Nat

VARIABLES
    time,
    known,        \* the addresses in the map byIP,
    tokens, since, \* and their entries: what was left, and when
    full,         \* aux: the bucket of each address, as it would be if none were forgotten
    dropped       \* aux: the addresses forgotten because they were unused longest

vars == <<time, known, tokens, since, full, dropped>>

Capped(n) == IF n > Capacity THEN Capacity ELSE n

Init ==
    /\ time = 0 /\ known = {} /\ dropped = {}
    /\ tokens = [ip \in Ip |-> 0] /\ since = [ip \in Ip |-> 0]
    /\ full = [ip \in Ip |-> Capacity]

(* mutant: an idle bucket is forgotten once it has a token again *)
StaleTooSoon == {ip \in known : time - since[ip] >= Part}
(* evictLocked: what has been idle for resetAfter, and where that makes no room *)
(* an entry that was unused longest                                            *)
Stale == {ip \in known : time - since[ip] >= Capacity}
Oldest(kept) == {ip \in kept : \A other \in kept : since[ip] <= since[other]}
Evictions ==
    IF Cardinality(known \ Stale) < MaxEntries THEN {Stale}
    ELSE {Stale \union {ip} : ip \in Oldest(known \ Stale)}

Refilled(ip) == Capped(tokens[ip] + (time - since[ip]))

(* allow: a request takes a token from the bucket of its address, a new one if *)
(* the map has none; only what was taken is stored                             *)
Allow(ip, has) ==
    /\ IF has >= Part
       THEN /\ tokens' = [tokens EXCEPT ![ip] = has - Part]
            /\ since' = [since EXCEPT ![ip] = time]
       ELSE UNCHANGED <<tokens, since>>
    /\ full' = [full EXCEPT ![ip] = IF @ >= Part THEN @ - Part ELSE @]
    /\ UNCHANGED time

Request(ip) ==
    /\ ip \in known
    /\ Allow(ip, Refilled(ip))
    /\ UNCHANGED <<known, dropped>>

FirstRequest(ip) ==
    /\ ip \notin known
    /\ \E gone \in IF Cardinality(known) < MaxEntries THEN {{}} ELSE Evictions :
          /\ known' = (known \ gone) \union {ip}
          /\ dropped' = dropped \union (gone \ Stale)
    /\ Allow(ip, Capacity)

Passes ==
    /\ time < End /\ time' = time + 1
    /\ full' = [ip \in Ip |-> Capped(full[ip] + 1)]
    /\ UNCHANGED <<known, tokens, since, dropped>>

Next == Passes \/ \E ip \in Ip : Request(ip) \/ FirstRequest(ip)

Spec == Init /\ [][Next]_vars
-----------------------------------------------------------------------------
(* Refilling a bucket when it is looked at, storing nothing of a refusal and   *)
(* forgetting what has been idle is the same as refilling all the time: each    *)
(* address has exactly the tokens it is due, unless the map was full of others *)
(* and its bucket was forgotten early (allow, evictLocked).                    *)
BucketsAreExact ==
    \A ip \in Ip \ dropped :
        full[ip] = IF ip \in known THEN Capped(tokens[ip] + (time - since[ip])) ELSE Capacity

(* The map never outgrows its bound, however many addresses come at once.      *)
MapIsBounded == Cardinality(known) <= MaxEntries
=============================================================================
