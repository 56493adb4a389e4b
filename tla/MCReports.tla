------------------------------ MODULE MCReports ------------------------------
(***************************************************************************)
(* Instances of Reports for TLC.                                           *)
(***************************************************************************)
EXTENDS Reports, TLC

CONSTANTS u, v, w, r1, r2, r3, b1, b2

MCUser == {u, v, w}

\* v and w both report u, and u reports v back while it blocks w.
MCReport == {r1, r2, r3}
MCBlock == {b1}
MCFrom == (r1 :> v) @@ (r2 :> w) @@ (r3 :> u) @@ (b1 :> u)
MCTo == (r1 :> u) @@ (r2 :> u) @@ (r3 :> v) @@ (b1 :> w)

\* Two users block each other at the same time.
NoReport == {}
TwoBlocks == {b1, b2}
BlockFrom == (b1 :> u) @@ (b2 :> v)
BlockTo == (b1 :> v) @@ (b2 :> u)
=============================================================================
