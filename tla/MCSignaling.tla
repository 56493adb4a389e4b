----------------------------- MODULE MCSignaling -----------------------------
(***************************************************************************)
(* Instances of Signaling for TLC.                                         *)
(***************************************************************************)
EXTENDS Signaling, TLC

ThreeUsers == {1, 2, 3}

\* What each of the users starts; the faults and drains; whether all report.
Three(one, two, three, f, d, r) ==
    [starts |-> (1 :> one) @@ (2 :> two) @@ (3 :> three), faults |-> f,
     drains |-> d, replicas |-> 1, finding |-> ThreeUsers,
     reports |-> [u \in ThreeUsers |-> r]]
Env(one, two, f, d, r) == Three(one, two, 0, f, d, r)

TwoReplicas(e) == [e EXCEPT !.replicas = 2]
NoCandidates(e) == [e EXCEPT !.finding = {}]

\* Two users, one of whom calls twice, with candidates and reports; without
\* candidates a fault, a drain, a user that joins while its report is submitted,
\* and two replicas; a fault with candidates of one user; and three users, two of
\* whom call once.
Calls ==
    {Env(1, 2, 0, 0, "none"), Env(2, 1, 0, 0, "prompt"),
     NoCandidates(Env(1, 2, 1, 0, "none")), NoCandidates(Env(2, 1, 1, 0, "none")),
     NoCandidates(Env(1, 2, 0, 1, "none")),
     NoCandidates(Env(1, 2, 0, 0, "late")), NoCandidates(Env(2, 1, 0, 0, "late")),
     NoCandidates(Env(2, 1, 0, 1, "none")),
     [Env(2, 1, 1, 0, "none") EXCEPT !.finding = {2}],
     TwoReplicas(NoCandidates(Env(1, 2, 0, 0, "none"))),
     NoCandidates(Three(1, 1, 2, 0, 0, "none"))}

Swiped == {NoCandidates(Env(1, 2, 0, 0, "none"))}
Reported == {NoCandidates(Env(1, 2, 0, 0, "prompt"))}
ReportedLate == {NoCandidates(Env(2, 2, 0, 0, "late"))}
Drained == {Env(2, 2, 0, 1, "none")}
KilledOfThree == {NoCandidates(Three(1, 2, 2, 1, 0, "none"))}
KilledTwice == {[Env(2, 3, 2, 0, "none") EXCEPT !.finding = {1}]}
KilledAndDrained == {NoCandidates(Env(2, 2, 1, 1, "none"))}
=============================================================================
