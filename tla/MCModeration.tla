----------------------------- MODULE MCModeration -----------------------------
(***************************************************************************)
(* Instances of Moderation for TLC.  k1 and k2 are about u, a report and a *)
(* ban by the admin; k3 to k5 are reports about v, and w reports itself    *)
(* in k6.                                                                  *)
(***************************************************************************)
EXTENDS Moderation, TLC

CONSTANTS u, v, w, c1, c2, c3, d1, k1, k2, k3, k4, k5, k6, pod1, pod2

MCUser == {u, v, w}
MCConn == {c1, c2, c3, d1}
MCUserOf == (c1 :> u) @@ (c2 :> u) @@ (c3 :> u) @@ (d1 :> v)
MCBanCall == {k1, k2, k3, k4, k5, k6}
MCReportCall == MCBanCall \ {k2}
MCTarget == (k1 :> u) @@ (k2 :> u) @@ (k3 :> v) @@ (k4 :> v) @@ (k5 :> v)
    @@ (k6 :> w)
MCReporterOf == (k1 :> v) @@ (k3 :> u) @@ (k4 :> u) @@ (k5 :> w) @@ (k6 :> w)
OneAndTwo == {1, 2}

\* Connections and calls are spread over two instances: of the two calls about
\* u each has connections of u on its own instance and on the other.
TwoPods == {pod1, pod2}
HomesOnBoth == (c1 :> pod1) @@ (c2 :> pod1) @@ (c3 :> pod2) @@ (d1 :> pod1)
CallsOnBoth == [k \in MCBanCall |-> IF k = k2 THEN pod2 ELSE pod1]

\* One instance only, and calls that reach another than the connections.
OnePod == {pod1}
AllOnOnePod == [c \in MCConn |-> pod1]
CallsOnOnePod == [k \in MCBanCall |-> pod1]
CallsOnOtherPod == [k \in MCBanCall |-> pod2]

Env(conns, calls, old, walks) ==
    [conns |-> conns, calls |-> calls, old |-> old, walks |-> walks]

\* Connections against two calls that ban their user and one that bans the
\* other user; or a walk through the list while reports come in.
Live == Env({c1, c2, c3}, {k1, k2}, <<>>, FALSE)
Mixed == Env({c1, d1}, {k2, k3, k6}, <<>>, FALSE)
Listed == Env({}, {k1, k5}, <<k3, k4>>, TRUE)
All == {Live, Mixed, Listed}
LiveOnly == {Live}
ListedOnly == {Listed}
=============================================================================
