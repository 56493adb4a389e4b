----------------------------- MODULE RateLimiter -----------------------------
(***************************************************************************)
(* The limiter of websocket upgrades (backend/ratelimit.go): a map from    *)
(* client addresses to token buckets, made on demand and collected when    *)
(* they have been idle.  A request looks its bucket up under the mutex and *)
(* takes a token afterwards, so that the collector may run in between.     *)
(*                                                                         *)
(* Time is counted in ticks.  A bucket gains one unit per tick, and a      *)
(* token costs Refill units: rate.Every(time.Minute / perMinute).          *)
(***************************************************************************)
EXTENDS Integers, FiniteSets

CONSTANTS
    Ip,
    Request,   \* the upgrade attempts
    Burst,     \* wsConnectionsPerMinute
    Refill,    \* ticks per token
    IdleTTL,   \* ipLimiterIdleTTL, in ticks
    MaxStall,  \* bound on the ticks between a request's get and its Allow
    MaxTime    \* bound on the clock

Capacity == Burst * Refill

\* ipLimiterIdleTTL is ten minutes, one minute fills a bucket, and a request
\* does not rest for nine minutes between two statements.
ASSUME RateLimiterAssumption ==
    /\ Burst \in Nat \ {0}
    /\ Refill \in Nat \ {0}
    /\ IdleTTL \in Nat
    /\ MaxStall \in Nat /\ Capacity + MaxStall <= IdleTTL
    /\ MaxTime \in Nat

VARIABLES
    now,
    limiters,   \* the addresses with an entry in the map
    level,      \* an entry's units when it last paid
    paidAt,     \* when that was
    lastSeen,   \* an entry's lastSeen
    request,    \* where each attempt stands
    admittedAt  \* history: when each attempt was admitted

vars == <<now, limiters, level, paidAt, lastSeen, request, admittedAt>>

\* What the type of every variable is.
TypeOK ==
    /\ now \in 0 .. MaxTime
    /\ limiters \subseteq Ip
    /\ level \in [Ip -> 0 .. Capacity]
    /\ paidAt \in [Ip -> 0 .. now]
    /\ lastSeen \in [Ip -> 0 .. now]
    /\ request \in [Request -> [pc : {"new", "got", "admitted", "denied"},
                                ip : Ip, since : 0 .. now]]
    /\ admittedAt \in [Request -> 0 .. now]

Init ==
    /\ now = 0
    /\ limiters = {}
    /\ level = [ip \in Ip |-> Capacity]
    /\ paidAt = [ip \in Ip |-> 0]
    /\ lastSeen = [ip \in Ip |-> 0]
    /\ request \in [Request -> [pc : {"new"}, ip : Ip, since : {0}]]
    /\ admittedAt = [r \in Request |-> 0]

Least(a, b) == IF a < b THEN a ELSE b

\* What the bucket of an entry holds by now.
LevelNow(ip) == Least(Capacity, level[ip] + now - paidAt[ip])

-----------------------------------------------------------------------------
\* Wrong: an existing entry is not marked as seen.
GetUnseen(r) ==
    LET ip == request[r].ip
    IN  /\ request[r].pc = "new"
        /\ request' = [request EXCEPT ![r] = [pc |-> "got", ip |-> ip, since |-> now]]
        /\ limiters' = limiters \cup {ip}
        /\ IF ip \in limiters
           THEN UNCHANGED <<level, paidAt, lastSeen>>
           ELSE /\ level' = [level EXCEPT ![ip] = Capacity]
                /\ paidAt' = [paidAt EXCEPT ![ip] = now]
                /\ lastSeen' = [lastSeen EXCEPT ![ip] = now]
        /\ UNCHANGED <<now, admittedAt>>

\* get(ip): the entry is found, or made with a full bucket.
Get(r) ==
    LET ip == request[r].ip
    IN  /\ request[r].pc = "new"
        /\ request' = [request EXCEPT ![r] = [pc |-> "got", ip |-> ip, since |-> now]]
        /\ limiters' = limiters \cup {ip}
        /\ lastSeen' = [lastSeen EXCEPT ![ip] = now]
        /\ IF ip \in limiters
           THEN UNCHANGED <<level, paidAt>>
           ELSE /\ level' = [level EXCEPT ![ip] = Capacity]
                /\ paidAt' = [paidAt EXCEPT ![ip] = now]
        /\ UNCHANGED <<now, admittedAt>>

\* Wrong: a token that is not there is paid, too.
AllowAll(r) ==
    LET ip == request[r].ip
    IN  /\ request[r].pc = "got"
        /\ request' = [request EXCEPT ![r].pc = "admitted", ![r].since = 0]
        /\ level' = [level EXCEPT ![ip] = IF LevelNow(ip) >= Refill
                                         THEN LevelNow(ip) - Refill ELSE 0]
        /\ paidAt' = [paidAt EXCEPT ![ip] = now]
        /\ admittedAt' = [admittedAt EXCEPT ![r] = now]
        /\ UNCHANGED <<now, limiters, lastSeen>>

\* Wrong: the bucket overflows.
AllowUncapped(r) ==
    LET ip == request[r].ip
    IN  /\ request[r].pc = "got"
        /\ request' = [request EXCEPT ![r].pc = "admitted", ![r].since = 0]
        /\ level' = [level EXCEPT ![ip] = @ + now - paidAt[ip]]
        /\ paidAt' = [paidAt EXCEPT ![ip] = now]
        /\ admittedAt' = [admittedAt EXCEPT ![r] = now]
        /\ UNCHANGED <<now, limiters, lastSeen>>

\* Allow: the token is paid, or the attempt is denied and pays nothing.
Allow(r) ==
    LET ip == request[r].ip
    IN  /\ request[r].pc = "got"
        /\ IF LevelNow(ip) >= Refill
           THEN /\ request' = [request EXCEPT ![r].pc = "admitted", ![r].since = 0]
                /\ level' = [level EXCEPT ![ip] = LevelNow(ip) - Refill]
                /\ paidAt' = [paidAt EXCEPT ![ip] = now]
                /\ admittedAt' = [admittedAt EXCEPT ![r] = now]
           ELSE /\ request' = [request EXCEPT ![r].pc = "denied", ![r].since = 0]
                /\ UNCHANGED <<level, paidAt, admittedAt>>
        /\ UNCHANGED <<now, limiters, lastSeen>>

\* Wrong: entries are collected at half their age.
CollectEarly ==
    /\ limiters' = {ip \in limiters : 2 * (now - lastSeen[ip]) <= IdleTTL}
    /\ UNCHANGED <<now, level, paidAt, lastSeen, request, admittedAt>>

\* One round of gcLoop; its ticker may be late.
Collect ==
    /\ limiters' = {ip \in limiters : lastSeen[ip] >= now - IdleTTL}
    /\ UNCHANGED <<now, level, paidAt, lastSeen, request, admittedAt>>

Tick ==
    /\ now < MaxTime
    /\ \A r \in Request : request[r].pc = "got" => now < request[r].since + MaxStall
    /\ now' = now + 1
    /\ UNCHANGED <<limiters, level, paidAt, lastSeen, request, admittedAt>>

Next ==
    \/ \E r \in Request : Get(r) \/ Allow(r)
    \/ Collect
    \/ Tick

Spec == Init /\ [][Next]_vars

-----------------------------------------------------------------------------
(***************************************************************************)
(* Properties.                                                             *)
(***************************************************************************)
\* A bucket that is not in the map counts as full.
Bucket(ip) == IF ip \in limiters THEN LevelNow(ip) ELSE Capacity

Forever == INSTANCE TokenBucket WITH
              Price <- Refill, bucket <- [ip \in Ip |-> Bucket(ip)]

\* Collecting idle entries and making them anew is never noticed: the limiter
\* admits what one that keeps every bucket for ever would admit.
CollectorUnnoticed == Forever!Spec

\* The entry that a request has looked up is still in the map when the request
\* takes its token, so that no token is taken from a bucket nobody else sees.
HeldIsMapped ==
    \A r \in Request : request[r].pc = "got" => request[r].ip \in limiters

\* The attempts of one address admitted in the minute that ends now.
AdmittedLately(ip) ==
    {r \in Request : /\ request[r].pc = "admitted"
                     /\ request[r].ip = ip
                     /\ admittedAt[r] > now - Capacity}

\* In no minute are twice Burst attempts of one address admitted: a full
\* bucket and what flows in during the minute.
TwiceBurstNever == \A ip \in Ip : Cardinality(AdmittedLately(ip)) < 2 * Burst
=============================================================================
