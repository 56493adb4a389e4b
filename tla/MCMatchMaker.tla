---------------------------- MODULE MCMatchMaker ----------------------------
(***************************************************************************)
(* Instances of MatchMaker for TLC.                                        *)
(***************************************************************************)
EXTENDS MatchMaker, TLC

CONSTANTS a, b, j1, j2, j3, pod1, pod2

MCUser == {a, b}

\* User a joins twice, so that two entries of one user meet.
MCJoin == {j1, j2, j3}

MCUserOf == (j1 :> a) @@ (j2 :> b) @@ (j3 :> a)

MCHomeOf == (j1 :> pod1) @@ (j2 :> pod1) @@ (j3 :> pod2)

MCInstance == {pod1, pod2}

\* a blocks b, and so the loops reject some pairs and accept others.
MCBlockRows == {<<a, b>>}
=============================================================================
