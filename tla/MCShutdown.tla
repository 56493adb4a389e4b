------------------------------ MODULE MCShutdown ------------------------------
(***************************************************************************)
(* Instances of Shutdown for TLC.                                          *)
(***************************************************************************)
EXTENDS Shutdown, TLC

CONSTANTS u, v, w, c1, c2, d1, e1

\* u connects twice, the second time before or after its first cleanup.
MCUser == {u, v}
MCConn == {c1, c2, d1}
MCUserOf == (c1 :> u) @@ (c2 :> u) @@ (d1 :> v)

\* Three users, once each.
ThreeUsers == {u, v, w}
ThreeConns == {c1, d1, e1}
OneEach == (c1 :> u) @@ (d1 :> v) @@ (e1 :> w)
=============================================================================
