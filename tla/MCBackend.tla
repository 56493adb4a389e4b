------------------------------ MODULE MCBackend ------------------------------
(***************************************************************************)
(* Instances of Backend for TLC.                                           *)
(***************************************************************************)
EXTENDS Backend, TLC

CONSTANTS a, b, x, j1, j2, j3, j4, pod1, pod2

Both(u, v) == {<<u, v>>, <<v, u>>}

\* a connects, b connects, and each of them once more; x stays offline.
MCUser == {a, b, x}
MCJoin == {j1, j2, j3, j4}
MCUserOf == (j1 :> a) @@ (j2 :> b) @@ (j3 :> a) @@ (j4 :> b)

\* All connections on one instance, or the last one on the other.
OnePod == {pod1}
HomeOnePod == [j \in MCJoin |-> pod1]
TwoPods == {pod1, pod2}
HomeTwoPods == [j \in MCJoin |-> IF j = j4 THEN pod2 ELSE pod1]

Env(joins, calls, overlap, bound) ==
    [joins |-> joins, calls |-> calls, overlap |-> overlap, faults |-> bound]

\* Both connect, and b once more, on the other instance; or a once more, on the
\* same instance, while its first connection lives.
Across == Env({j1, j2, j4}, {}, FALSE, 0)
Displacing == Env({j1, j2, j3}, {}, TRUE, 0)

\* Both connect, or one of them twice, while a block call comes at any moment.
Blocking == Env({j1, j2}, BlockCalls, FALSE, 0)
Returning == Env({j1, j3}, BlockCalls, FALSE, 0)

\* A command fails or a process dies, with a block call, or with overlapping
\* connections of one user.
Alone == Env({j1}, BlockCalls, FALSE, 1)
Overlapping == Env({j1, j3}, {}, TRUE, 1)

AllEnvironments ==
    {Across, Displacing, Blocking, Returning, Alone, Overlapping}

\* One environment for each kept counterexample.
Sequential == Env({j1, j2, j3}, BlockCalls, FALSE, 0)
SequentialOnly == {Sequential}
AcrossOnly == {Across}
OverlapOnly == {[Sequential EXCEPT !.overlap = TRUE]}

\* a has blocked x before it connects, and may block b.
MCBlockRows == Both(a, x) \cup Both(a, b)
RowsBefore == Both(a, x)
CallBlock == {<<a, b>>}
NoPairs == {}
=============================================================================
