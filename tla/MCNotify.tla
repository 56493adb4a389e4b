------------------------------- MODULE MCNotify -------------------------------
(***************************************************************************)
(* Instances of Notify for TLC: u connects twice, v and w once.            *)
(***************************************************************************)
EXTENDS Notify, TLC

CONSTANTS u, v, w, c1, c2, d1, e1, pod1, pod2

MCUser == {u, v, w}
MCConn == {c1, c2, d1, e1}
MCUserOf == (c1 :> u) @@ (c2 :> u) @@ (d1 :> v) @@ (e1 :> w)
MCInstance == {pod1, pod2}

TwoConns == {c1, d1}
UserOfTwo == (c1 :> u) @@ (d1 :> v)
=============================================================================
