---------------------------- MODULE MCRateLimiter ----------------------------
(***************************************************************************)
(* Instances of RateLimiter for TLC.                                       *)
(***************************************************************************)
EXTENDS RateLimiter, TLC

CONSTANTS ip1, r1, r2, r3, r4

MCRequest == {r1, r2, r3, r4}

OneIp == {ip1}

\* The requests are interchangeable.
Interchangeable == Permutations(MCRequest)
=============================================================================
