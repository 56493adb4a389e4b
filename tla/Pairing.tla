------------------------------- MODULE Pairing -------------------------------
(***************************************************************************)
(* What the matchmaker promises to the connections, without the Redis list *)
(* and the loops that work on it: a connection that starts to wait is      *)
(* paired with one other waiting connection, or leaves, or is lost.        *)
(***************************************************************************)
EXTENDS Integers

CONSTANT Join

VARIABLES
    fresh,    \* the joins that have not been enqueued
    waiting,  \* the joins that may still be paired
    pairs     \* the pairs that were made

vars == <<fresh, waiting, pairs>>

TypeOK ==
    /\ fresh \subseteq Join
    /\ waiting \subseteq Join
    /\ pairs \subseteq Join \X Join

Init ==
    /\ fresh = Join
    /\ waiting = {}
    /\ pairs = {}

\* A join is enqueued, once.
Enter(j) ==
    /\ j \in fresh
    /\ fresh' = fresh \ {j}
    /\ waiting' = waiting \cup {j}
    /\ UNCHANGED pairs

\* Joins are removed from the queue, or lost with a crash or a failure.
Leave(gone) ==
    /\ fresh' = fresh \ gone
    /\ waiting' = waiting \ gone
    /\ UNCHANGED pairs

\* Two waiting joins become a pair and wait no longer.
Pair(j, k) ==
    /\ {j, k} \subseteq waiting
    /\ j # k
    /\ waiting' = waiting \ {j, k}
    /\ pairs' = pairs \cup {<<j, k>>}
    /\ UNCHANGED fresh

Next ==
    \/ \E j \in Join : Enter(j)
    \/ \E gone \in SUBSET (fresh \cup waiting) : Leave(gone)
    \/ \E j, k \in Join : Pair(j, k)

Spec == Init /\ [][Next]_vars
=============================================================================
