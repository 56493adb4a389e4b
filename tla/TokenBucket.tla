----------------------------- MODULE TokenBucket -----------------------------
(***************************************************************************)
(* What the rate limiter of the websocket endpoint promises, with one      *)
(* bucket for every address, kept for ever: a bucket gains one unit per    *)
(* tick up to its capacity, and an attempt is admitted only if the bucket  *)
(* holds the price of one, which it then pays.                             *)
(***************************************************************************)
EXTENDS Integers

CONSTANTS Ip, Price, Capacity

VARIABLE bucket

Init == bucket = [ip \in Ip |-> Capacity]

Filled(level) == IF level < Capacity THEN level + 1 ELSE Capacity

Tick == bucket' = [ip \in Ip |-> Filled(bucket[ip])]

Admit(ip) ==
    /\ bucket[ip] >= Price
    /\ bucket' = [bucket EXCEPT ![ip] = @ - Price]

Next == Tick \/ \E ip \in Ip : Admit(ip)

Spec == Init /\ [][Next]_bucket
=============================================================================
