------------------------- MODULE RateLimiterProofs -------------------------
(***************************************************************************)
(* Theorems about RateLimiter: its types, that a request holds a bucket    *)
(* that is in the map, that collecting idle buckets is never noticed, and  *)
(* how many attempts are admitted in a minute, for any addresses, requests *)
(* and durations that satisfy RateLimiterAssumption.                       *)
(*                                                                         *)
(* The second and third rest on how long an entry is idle before it is     *)
(* collected. A request marks the entry as seen when it looks it up and    *)
(* pays at most MaxStall ticks later. An entry with a waiting request was  *)
(* thus seen too lately to be collected, and one that is collected was     *)
(* paid from so long ago that it is full, as the next one will be.         *)
(***************************************************************************)
EXTENDS RateLimiter, FiniteSetTheorems, TLAPS

\* A request that waits for its token has not waited too long, and its entry
\* is in the map and has been seen since the request looked it up.
WaitsBriefly ==
    \A r \in Request : request[r].pc = "got" =>
        /\ now <= request[r].since + MaxStall
        /\ request[r].ip \in limiters
        /\ request[r].since <= lastSeen[request[r].ip]

\* A mapped bucket was paid from at most MaxStall ticks after it was seen.
PaidSoonAfterSeen ==
    \A ip \in limiters : paidAt[ip] <= lastSeen[ip] + MaxStall

Inv == TypeOK /\ WaitsBriefly /\ PaidSoonAfterSeen

-----------------------------------------------------------------------------
\* A bucket holds a natural number of units (the product Burst * Refill).
LEMMA CapacityNat == Capacity \in Nat
<1>1. \A m, n \in Nat : m * n \in Nat
    OBVIOUS
<1>2. QED
    BY <1>1, RateLimiterAssumption DEF Capacity

\* What an entry holds lies between nothing and a full bucket.
LEMMA LevelNowType ==
    ASSUME TypeOK, NEW ip \in Ip
    PROVE  LevelNow(ip) \in 0 .. Capacity
BY CapacityNat DEF TypeOK, LevelNow, Least

-----------------------------------------------------------------------------
\* The invariant holds when the limiter is made.
LEMMA InvInit == Init => Inv
<1> SUFFICES ASSUME Init PROVE Inv
    OBVIOUS
<1>1. TypeOK
    <2>1. request \in [Request -> [pc : {"new", "got", "admitted", "denied"},
                                   ip : Ip, since : 0 .. now]]
        BY DEF Init
    <2>2. QED
        BY <2>1, CapacityNat, RateLimiterAssumption DEF Init, TypeOK
<1>2. WaitsBriefly
    BY DEF Init, WaitsBriefly
<1>3. PaidSoonAfterSeen
    BY DEF Init, PaidSoonAfterSeen
<1>4. QED
    BY <1>1, <1>2, <1>3 DEF Inv

\* Every step of the limiter preserves the invariant.
LEMMA InvStep == Inv /\ [Next]_vars => Inv'
<1> SUFFICES ASSUME Inv, [Next]_vars PROVE Inv'
    OBVIOUS
<1> USE CapacityNat, RateLimiterAssumption
<1>1. ASSUME NEW r \in Request, Get(r) PROVE Inv'
    <2> DEFINE ip == request[r].ip
    <2>1. ip \in Ip
        BY DEF Inv, TypeOK
    <2>2. TypeOK'
        <3>1. request' \in [Request -> [pc : {"new", "got", "admitted", "denied"},
                                        ip : Ip, since : 0 .. now]]
            BY <1>1 DEF Get, Inv, TypeOK
        <3>2. /\ level' \in [Ip -> 0 .. Capacity]
              /\ paidAt' \in [Ip -> 0 .. now]
              /\ lastSeen' \in [Ip -> 0 .. now]
            BY <1>1 DEF Get, Inv, TypeOK
        <3>3. QED
            BY <1>1, <2>1, <3>1, <3>2 DEF Get, Inv, TypeOK
    <2>3. WaitsBriefly'
        BY <1>1, <2>1 DEF Get, Inv, TypeOK, WaitsBriefly
    <2>4. PaidSoonAfterSeen'
        BY <1>1, <2>1 DEF Get, Inv, TypeOK, PaidSoonAfterSeen
    <2>5. QED
        BY <2>2, <2>3, <2>4 DEF Inv
<1>2. ASSUME NEW r \in Request, Allow(r) PROVE Inv'
    <2> DEFINE ip == request[r].ip
    <2>1. ip \in Ip /\ LevelNow(ip) \in 0 .. Capacity
        BY LevelNowType DEF Inv, TypeOK
    <2>2. TypeOK'
        <3>1. request' \in [Request -> [pc : {"new", "got", "admitted", "denied"},
                                        ip : Ip, since : 0 .. now]]
            BY <1>2 DEF Allow, Inv, TypeOK
        <3>2. /\ level' \in [Ip -> 0 .. Capacity]
              /\ paidAt' \in [Ip -> 0 .. now]
              /\ admittedAt' \in [Request -> 0 .. now]
            BY <1>2, <2>1 DEF Allow, Inv, TypeOK
        <3>3. QED
            BY <1>2, <3>1, <3>2 DEF Allow, Inv, TypeOK
    <2>3. WaitsBriefly'
        BY <1>2 DEF Allow, Inv, TypeOK, WaitsBriefly
    <2>4. PaidSoonAfterSeen'
        <3>1. now <= lastSeen[ip] + MaxStall
            BY <1>2, <2>1 DEF Allow, Inv, TypeOK, WaitsBriefly
        <3>2. QED
            BY <1>2, <2>1, <3>1 DEF Allow, Inv, TypeOK, PaidSoonAfterSeen
    <2>5. QED
        BY <2>2, <2>3, <2>4 DEF Inv
<1>3. ASSUME Collect PROVE Inv'
    <2>1. TypeOK' /\ PaidSoonAfterSeen'
        BY <1>3 DEF Collect, Inv, TypeOK, PaidSoonAfterSeen
    <2>2. WaitsBriefly'
        <3> SUFFICES ASSUME NEW r \in Request, request[r].pc = "got"
                     PROVE  request[r].ip \in limiters'
            BY <1>3 DEF Collect, Inv, WaitsBriefly
        <3>1. /\ now <= request[r].since + MaxStall
              /\ request[r].ip \in limiters
              /\ request[r].since <= lastSeen[request[r].ip]
            BY DEF Inv, WaitsBriefly
        <3>2. request[r].ip \in Ip /\ request[r].since \in Nat /\ now \in Nat
            BY DEF Inv, TypeOK
        <3>3. lastSeen[request[r].ip] \in Nat
            BY <3>2 DEF Inv, TypeOK
        <3>4. QED
            BY <1>3, <3>1, <3>2, <3>3 DEF Collect
    <2>3. QED
        BY <2>1, <2>2 DEF Inv
<1>4. ASSUME Tick PROVE Inv'
    <2>1. TypeOK'
        BY <1>4 DEF Tick, Inv, TypeOK
    <2>2. WaitsBriefly'
        BY <1>4 DEF Tick, Inv, TypeOK, WaitsBriefly
    <2>3. PaidSoonAfterSeen'
        BY <1>4 DEF Tick, Inv, PaidSoonAfterSeen
    <2>4. QED
        BY <2>1, <2>2, <2>3 DEF Inv
<1>5. CASE UNCHANGED vars
    BY <1>5 DEF vars, Inv, TypeOK, WaitsBriefly, PaidSoonAfterSeen
<1>6. QED
    BY <1>1, <1>2, <1>3, <1>4, <1>5 DEF Next

\* The invariant always holds.
LEMMA InvAlways == Spec => []Inv
<1>1. QED
    BY InvInit, InvStep, PTL DEF Spec

\* The types of the limiter's variables are right; in particular no bucket
\* holds more than Burst tokens or less than none.
THEOREM LimiterTypeCorrect == Spec => []TypeOK
<1>1. Inv => TypeOK
    BY DEF Inv
<1>2. QED
    BY <1>1, InvAlways, PTL

\* A request always pays from a bucket that is in the map, although it looks
\* the bucket up under the mutex and pays after it has released it.
THEOREM HeldStaysMapped == Spec => []HeldIsMapped
<1>1. Inv => HeldIsMapped
    BY DEF Inv, WaitsBriefly, HeldIsMapped
<1>2. QED
    BY <1>1, InvAlways, PTL

-----------------------------------------------------------------------------
\* All buckets are full when the limiter is made.
LEMMA ForeverInit == Init => Forever!Init
BY DEF Init, Bucket, Forever!Init

\* A look-up leaves every bucket as it is: a new entry is full.
LEMMA GetStays ==
    ASSUME Inv, NEW r \in Request, Get(r), NEW ip \in Ip
    PROVE  Bucket(ip)' = Bucket(ip)
BY CapacityNat, RateLimiterAssumption
   DEF Get, Inv, TypeOK, Bucket, LevelNow, Least

\* So does the collector: what it deletes is full.
LEMMA CollectStays ==
    ASSUME Inv, Collect, NEW ip \in Ip
    PROVE  Bucket(ip)' = Bucket(ip)
<1> USE CapacityNat, RateLimiterAssumption
<1>1. LevelNow(ip)' = LevelNow(ip)
    BY DEF Collect, LevelNow
<1>2. CASE ip \in limiters /\ ip \notin limiters'
    <2>1. paidAt[ip] <= lastSeen[ip] + MaxStall
        BY <1>2 DEF Inv, PaidSoonAfterSeen
    <2>2. ~(lastSeen[ip] >= now - IdleTTL)
        BY <1>2 DEF Collect
    <2>3. /\ now \in Nat /\ level[ip] \in 0 .. Capacity
          /\ paidAt[ip] \in Nat /\ lastSeen[ip] \in Nat
        BY DEF Inv, TypeOK
    <2>4. LevelNow(ip) = Capacity
        BY <2>1, <2>2, <2>3 DEF LevelNow, Least
    <2>5. QED
        BY <1>2, <2>4 DEF Bucket
<1>3. CASE ip \in limiters <=> ip \in limiters'
    BY <1>1, <1>3 DEF Bucket
<1>4. QED
    BY <1>2, <1>3 DEF Collect

\* An attempt pays the price of one from its own bucket, or nothing.
LEMMA AllowPays ==
    ASSUME Inv, NEW r \in Request, Allow(r), NEW ip \in Ip
    PROVE  /\ request[r].ip \in limiters
           /\ IF request[r].ip = ip /\ LevelNow(ip) >= Refill
              THEN Bucket(ip)' = Bucket(ip) - Refill
              ELSE Bucket(ip)' = Bucket(ip)
<1> USE CapacityNat, RateLimiterAssumption
<1>1. PICK own \in Ip : own = request[r].ip
    BY DEF Inv, TypeOK
<1>2. LevelNow(own) \in 0 .. Capacity
    BY LevelNowType DEF Inv
<1>3. own \in limiters
    BY <1>1 DEF Allow, Inv, WaitsBriefly
<1>4. CASE LevelNow(own) >= Refill
    <2>1. Bucket(own)' = Bucket(own) - Refill
        BY <1>1, <1>2, <1>3, <1>4
           DEF Allow, Inv, TypeOK, Bucket, LevelNow, Least
    <2>2. ip # own => Bucket(ip)' = Bucket(ip)
        BY <1>1, <1>4 DEF Allow, Inv, TypeOK, Bucket, LevelNow, Least
    <2>3. QED
        BY <1>1, <1>3, <1>4, <2>1, <2>2
<1>5. CASE ~(LevelNow(own) >= Refill)
    BY <1>1, <1>3, <1>5 DEF Allow, Bucket, LevelNow
<1>6. QED
    BY <1>4, <1>5

\* A tick fills every bucket by one unit, up to its capacity.
LEMMA TickFills ==
    ASSUME Inv, Tick, NEW ip \in Ip
    PROVE  Bucket(ip)' = Forever!Filled(Bucket(ip))
BY CapacityNat, RateLimiterAssumption
   DEF Tick, Inv, TypeOK, Bucket, LevelNow, Least, Forever!Filled

\* Every step of the limiter is a step of the buckets that are kept for ever,
\* or leaves them alone.
LEMMA ForeverStep ==
    Inv /\ [Next]_vars => [Forever!Next]_([ip \in Ip |-> Bucket(ip)])
<1> DEFINE bucket == [ip \in Ip |-> Bucket(ip)]
<1> SUFFICES ASSUME Inv, [Next]_vars
             PROVE  Forever!Next \/ bucket' = bucket
    OBVIOUS
<1>1. ASSUME NEW r \in Request, Get(r) PROVE bucket' = bucket
    BY <1>1, GetStays
<1>2. ASSUME NEW r \in Request, Allow(r) PROVE Forever!Next \/ bucket' = bucket
    <2>1. PICK ip \in Ip : ip = request[r].ip
        BY DEF Inv, TypeOK
    <2>2. CASE LevelNow(ip) >= Refill
        <3>1. bucket' = [bucket EXCEPT ![ip] = @ - Refill]
            BY <1>2, <2>1, <2>2, AllowPays
        <3>2. Bucket(ip) >= Refill
            BY <1>2, <2>1, <2>2, AllowPays DEF Bucket
        <3>3. Forever!Admit(ip)
            BY <3>1, <3>2 DEF Forever!Admit
        <3>4. QED
            BY <3>3 DEF Forever!Next
    <2>3. CASE ~(LevelNow(ip) >= Refill)
        <3>1. ASSUME NEW other \in Ip PROVE Bucket(other)' = Bucket(other)
            BY <1>2, <2>1, <2>3, AllowPays
        <3>2. QED
            BY <3>1
    <2>4. QED
        BY <2>2, <2>3
<1>3. ASSUME Collect PROVE bucket' = bucket
    BY <1>3, CollectStays
<1>4. ASSUME Tick PROVE Forever!Tick
    BY <1>4, TickFills DEF Forever!Tick
<1>5. CASE UNCHANGED vars
    BY <1>5 DEF vars, Bucket, LevelNow
<1>6. QED
    BY <1>1, <1>2, <1>3, <1>4, <1>5 DEF Next, Forever!Next

\* Collecting idle buckets and making them anew admits no attempt that
\* buckets kept for ever would not admit.
THEOREM CollectorNeverNoticed == Spec => CollectorUnnoticed
<1>1. QED
    BY ForeverInit, ForeverStep, InvAlways, PTL
       DEF Spec, CollectorUnnoticed, Forever!Spec

-----------------------------------------------------------------------------
(***************************************************************************)
(* How many attempts are admitted.  Of the attempts admitted after a       *)
(* moment each has paid Refill units, from the units that the bucket held  *)
(* then and those that it has gained since.                                *)
(***************************************************************************)
Admitted == {r \in Request : request[r].pc = "admitted"}

\* The attempts of one address that were admitted after the time s.
AdmittedSince(ip, s) ==
    {r \in Admitted : request[r].ip = ip /\ admittedAt[r] > s}

PaidFor ==
    /\ IsFiniteSet(Admitted)
    /\ \A ip \in Ip : \A s \in Int : s < now =>
          Cardinality(AdmittedSince(ip, s)) * Refill + Bucket(ip)
              <= Capacity + now - (s + 1)

\* A bucket holds what an entry may hold.
LEMMA BucketType ==
    ASSUME Inv, NEW ip \in Ip
    PROVE  Bucket(ip) \in 0 .. Capacity
BY LevelNowType, CapacityNat DEF Inv, Bucket

\* The attempts admitted after some time are finitely many.
LEMMA SinceFinite ==
    ASSUME IsFiniteSet(Admitted), NEW ip, NEW s
    PROVE  /\ IsFiniteSet(AdmittedSince(ip, s))
           /\ Cardinality(AdmittedSince(ip, s)) \in Nat
           /\ Cardinality(AdmittedSince(ip, s)) * Refill \in Nat
<1>1. AdmittedSince(ip, s) \in SUBSET Admitted
    BY DEF AdmittedSince
<1>2. /\ IsFiniteSet(AdmittedSince(ip, s))
      /\ Cardinality(AdmittedSince(ip, s)) \in Nat
    BY <1>1, FS_Subset, FS_CardinalityType
<1>3. \A m, n \in Nat : m * n \in Nat
    OBVIOUS
<1>4. QED
    BY <1>2, <1>3, RateLimiterAssumption

\* Before the first tick no time has passed, and nobody is admitted.
LEMMA PaidForInit == Init => PaidFor
<1> SUFFICES ASSUME Init PROVE PaidFor
    OBVIOUS
<1>1. Admitted = {}
    BY DEF Init, Admitted
<1>2. IsFiniteSet(Admitted)
    BY <1>1, FS_EmptySet
<1>3. ASSUME NEW ip \in Ip, NEW s \in Int, s < now
      PROVE  Cardinality(AdmittedSince(ip, s)) * Refill + Bucket(ip)
                 <= Capacity + now - (s + 1)
    <2>1. AdmittedSince(ip, s) = {}
        BY <1>1 DEF AdmittedSince
    <2>2. Cardinality(AdmittedSince(ip, s)) = 0
        BY <2>1, FS_EmptySet
    <2>3. Bucket(ip) = Capacity /\ now = 0
        BY DEF Init, Bucket
    <2>4. QED
        BY <1>3, <2>2, <2>3, CapacityNat, RateLimiterAssumption
<1>4. QED
    BY <1>2, <1>3 DEF PaidFor

\* Every admission is paid for: a step that admits nobody fills buckets by the
\* time that passes, one that admits an attempt takes its price.
LEMMA PaidForStep == Inv /\ PaidFor /\ [Next]_vars => PaidFor'
<1> SUFFICES ASSUME Inv, PaidFor, [Next]_vars PROVE PaidFor'
    OBVIOUS
<1>1. now \in Nat /\ \A r \in Request : admittedAt[r] \in Nat /\ admittedAt[r] <= now
    BY RateLimiterAssumption DEF Inv, TypeOK
<1>2. ASSUME Admitted' = Admitted,
             \A r \in Admitted : /\ request'[r].ip = request[r].ip
                                 /\ admittedAt'[r] = admittedAt[r]
      PROVE  \A ip, s : AdmittedSince(ip, s)' = AdmittedSince(ip, s)
    BY <1>2 DEF AdmittedSince
<1>3. ASSUME \A ip, s : AdmittedSince(ip, s)' = AdmittedSince(ip, s),
             Admitted' = Admitted, now' = now,
             \A ip \in Ip : Bucket(ip)' = Bucket(ip)
      PROVE  PaidFor'
    BY <1>3 DEF PaidFor
<1>4. ASSUME NEW r \in Request, Get(r) PROVE PaidFor'
    <2>1. /\ Admitted' = Admitted
          /\ \A q \in Admitted : /\ request'[q].ip = request[q].ip
                                 /\ admittedAt'[q] = admittedAt[q]
        BY <1>4 DEF Get, Admitted, Inv, TypeOK
    <2>2. now' = now /\ \A ip \in Ip : Bucket(ip)' = Bucket(ip)
        BY <1>4, GetStays DEF Get
    <2>3. QED
        BY <1>2, <1>3, <2>1, <2>2
<1>5. ASSUME NEW r \in Request, Allow(r) PROVE PaidFor'
    <2>1. PICK own \in Ip : own = request[r].ip
        BY DEF Inv, TypeOK
    <2>2. CASE LevelNow(own) >= Refill
        <3>1. /\ request' = [request EXCEPT ![r].pc = "admitted", ![r].since = 0]
              /\ admittedAt' = [admittedAt EXCEPT ![r] = now]
              /\ now' = now /\ r \notin Admitted
            BY <1>5, <2>1, <2>2 DEF Allow, Admitted
        <3>2. /\ request'[r].pc = "admitted" /\ request'[r].ip = own
              /\ admittedAt'[r] = now
              /\ \A q \in Request \ {r} : /\ request'[q] = request[q]
                                          /\ admittedAt'[q] = admittedAt[q]
            BY <2>1, <3>1 DEF Inv, TypeOK
        <3>3. Admitted' = Admitted \cup {r}
            BY <3>2 DEF Admitted
        <3>4. IsFiniteSet(Admitted')
            BY <3>3, FS_AddElement DEF PaidFor
        <3>5. ASSUME NEW ip \in Ip, NEW s \in Int, s < now
              PROVE  Cardinality(AdmittedSince(ip, s)') * Refill + Bucket(ip)'
                         <= Capacity + now - (s + 1)
            <4> DEFINE n == Cardinality(AdmittedSince(ip, s))
            <4>1. /\ n \in Nat /\ n * Refill \in Nat
                  /\ IsFiniteSet(AdmittedSince(ip, s))
                  /\ n * Refill + Bucket(ip) <= Capacity + now - (s + 1)
                BY <3>5, SinceFinite DEF PaidFor
            <4>2. CASE ip = own
                <5>1. AdmittedSince(ip, s)' = AdmittedSince(ip, s) \cup {r}
                    BY <3>1, <3>2, <3>3, <3>5, <4>2 DEF AdmittedSince, Admitted
                <5>2. r \notin AdmittedSince(ip, s)
                    BY <3>1 DEF AdmittedSince
                <5>3. Cardinality(AdmittedSince(ip, s)') = n + 1
                    BY <4>1, <5>1, <5>2, FS_AddElement
                <5>4. Bucket(ip)' = Bucket(ip) - Refill
                    BY <1>5, <2>1, <2>2, <4>2, AllowPays
                <5>5. (n + 1) * Refill = n * Refill + Refill
                    BY <4>1, RateLimiterAssumption
                <5>6. Bucket(ip) \in Int /\ Capacity \in Int
                    BY BucketType, CapacityNat
                <5>7. QED
                    BY <1>1, <4>1, <5>3, <5>4, <5>5, <5>6,
                       RateLimiterAssumption
            <4>3. CASE ip # own
                <5>1. AdmittedSince(ip, s)' = AdmittedSince(ip, s)
                    BY <3>1, <3>2, <3>3, <4>3 DEF AdmittedSince, Admitted
                <5>2. Bucket(ip)' = Bucket(ip)
                    BY <1>5, <2>1, <4>3, AllowPays
                <5>3. QED
                    BY <4>1, <5>1, <5>2
            <4>4. QED
                BY <4>2, <4>3
        <3>6. QED
            BY <3>1, <3>4, <3>5 DEF PaidFor
    <2>3. CASE ~(LevelNow(own) >= Refill)
        <3>1. /\ Admitted' = Admitted
              /\ \A q \in Admitted : /\ request'[q].ip = request[q].ip
                                     /\ admittedAt'[q] = admittedAt[q]
            BY <1>5, <2>1, <2>3 DEF Allow, Admitted, Inv, TypeOK
        <3>2. now' = now
            BY <1>5 DEF Allow
        <3>3. ASSUME NEW ip \in Ip PROVE Bucket(ip)' = Bucket(ip)
            BY <1>5, <2>1, <2>3, AllowPays
        <3>4. QED
            BY <1>2, <1>3, <3>1, <3>2, <3>3
    <2>4. QED
        BY <2>2, <2>3
<1>6. CASE Collect
    <2>1. /\ Admitted' = Admitted /\ now' = now
          /\ \A q \in Admitted : /\ request'[q].ip = request[q].ip
                                 /\ admittedAt'[q] = admittedAt[q]
        BY <1>6 DEF Collect, Admitted
    <2>2. \A ip \in Ip : Bucket(ip)' = Bucket(ip)
        BY <1>6, CollectStays
    <2>3. QED
        BY <1>2, <1>3, <2>1, <2>2
<1>7. CASE Tick
    <2>1. /\ Admitted' = Admitted /\ now' = now + 1
          /\ \A q \in Admitted : /\ request'[q].ip = request[q].ip
                                 /\ admittedAt'[q] = admittedAt[q]
        BY <1>7 DEF Tick, Admitted
    <2>2. ASSUME NEW ip \in Ip, NEW s \in Int, s < now'
          PROVE  Cardinality(AdmittedSince(ip, s)') * Refill + Bucket(ip)'
                     <= Capacity + now' - (s + 1)
        <3> DEFINE n == Cardinality(AdmittedSince(ip, s))
        <3>1. /\ AdmittedSince(ip, s)' = AdmittedSince(ip, s)
              /\ n * Refill \in Nat
            BY <1>2, <2>1, SinceFinite DEF PaidFor
        <3>2. /\ Bucket(ip) \in 0 .. Capacity
              /\ Bucket(ip)' <= Bucket(ip) + 1
              /\ Bucket(ip)' \in 0 .. Capacity
            BY <1>7, BucketType, TickFills, CapacityNat DEF Forever!Filled
        <3> HIDE DEF n
        <3>3. CASE s < now
            <4>1. n * Refill + Bucket(ip) <= Capacity + now - (s + 1)
                BY <3>3 DEF PaidFor, n
            <4>2. QED
                BY <1>1, <2>1, <3>1, <3>2, <4>1, CapacityNat DEF n
        <3>4. CASE s = now
            <4>1. AdmittedSince(ip, s) = {}
                BY <1>1, <3>4 DEF AdmittedSince, Admitted
            <4>2. n = 0
                BY <4>1, FS_EmptySet DEF n
            <4>3. n * Refill = 0
                BY <4>2, RateLimiterAssumption
            <4>4. QED
                BY <1>1, <2>1, <3>1, <3>2, <3>4, <4>3, CapacityNat DEF n
        <3>5. QED
            BY <1>1, <2>1, <2>2, <3>3, <3>4
    <2>3. QED
        BY <2>1, <2>2 DEF PaidFor
<1>8. CASE UNCHANGED vars
    <2>1. /\ Admitted' = Admitted /\ now' = now
          /\ \A q \in Admitted : /\ request'[q].ip = request[q].ip
                                 /\ admittedAt'[q] = admittedAt[q]
          /\ \A ip \in Ip : Bucket(ip)' = Bucket(ip)
        BY <1>8 DEF vars, Admitted, Bucket, LevelNow
    <2>2. QED
        BY <1>2, <1>3, <2>1
<1>9. QED
    BY <1>4, <1>5, <1>6, <1>7, <1>8 DEF Next

\* In no minute are twice Burst attempts of one address admitted, for any
\* number of attempts that are under way at the same time (wsLimiter.allow).
THEOREM BurstTwiceNever == Spec => []TwiceBurstNever
<1>1. Inv /\ PaidFor => TwiceBurstNever
    <2> SUFFICES ASSUME Inv, PaidFor, NEW ip \in Ip
                 PROVE  Cardinality(AdmittedLately(ip)) < 2 * Burst
        BY DEF TwiceBurstNever
    <2> DEFINE s == now - Capacity
               n == Cardinality(AdmittedSince(ip, s))
    <2>1. AdmittedLately(ip) = AdmittedSince(ip, s)
        BY DEF AdmittedLately, AdmittedSince, Admitted
    <2>2. now \in Nat /\ Capacity \in Nat \ {0}
        <3>1. \A a, b \in Nat \ {0} : a * b \in Nat \ {0}
            OBVIOUS
        <3>2. QED
            BY <3>1, RateLimiterAssumption DEF Capacity, Inv, TypeOK
    <2>3. n * Refill + Bucket(ip) <= Capacity + Capacity - 1
        <3>1. s \in Int /\ s < now
            BY <2>2
        <3>2. n * Refill + Bucket(ip) <= Capacity + now - (s + 1)
            BY <3>1 DEF PaidFor
        <3>3. Capacity + now - (s + 1) = Capacity + Capacity - 1
            BY <2>2
        <3>4. QED
            BY <3>2, <3>3
    <2>4. n \in Nat /\ n * Refill \in Nat
        BY SinceFinite DEF PaidFor
    <2> HIDE DEF n
    <2>5. n * Refill < 2 * Burst * Refill
        <3>1. Capacity + Capacity = 2 * Burst * Refill
            BY RateLimiterAssumption DEF Capacity
        <3>2. Bucket(ip) \in Nat
            BY BucketType, <2>2
        <3>3. QED
            BY <2>2, <2>3, <2>4, <3>1, <3>2
    <2>6. n < 2 * Burst
        <3>1. \A a, b, c \in Nat : a >= b => a * c >= b * c
            BY SMTT(30)
        <3>2. 2 * Burst \in Nat /\ Refill \in Nat
            BY RateLimiterAssumption
        <3>3. QED
            BY <2>4, <2>5, <3>1, <3>2
    <2>7. QED
        BY <2>1, <2>6 DEF n
<1>2. Spec => []PaidFor
    BY PaidForInit, PaidForStep, InvAlways, PTL DEF Spec
<1>3. QED
    BY <1>1, <1>2, InvAlways, PTL
=============================================================================
