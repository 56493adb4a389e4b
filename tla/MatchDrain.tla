----------------------------- MODULE MatchDrain -----------------------------
(***************************************************************************)
(* MatchMaker on its own: some users wait, their block sets are hydrated,  *)
(* nobody else comes or goes and Redis answers.  What becomes of the queue *)
(* is then up to processMatches alone.                                     *)
(*                                                                         *)
(* Each loop gets weak fairness: Run starts a cycle every 500 ms, and a    *)
(* cycle only waits for Redis.                                             *)
(***************************************************************************)
EXTENDS MatchMaker

\* Every order of the waiting users, every choice of stored block rows.
WaitingInit ==
    /\ queue \in {q \in [1 .. Cardinality(Join) -> Join] :
                    \A m, n \in DOMAIN q : q[m] = q[n] => m = n}
    /\ enqueuedAt = {UserOf[j] : j \in Join}
    /\ \E rows \in SUBSET BlockRows :
          blockSet = [u \in User |-> {v \in User : <<u, v>> \in rows}]
    /\ session = {}
    /\ adding = {}
    /\ caller = [j \in Join |-> "waiting"]
    /\ loop = [i \in Instance |-> Idle]
    /\ matched = {}
    /\ faults = 0

Cycles == \E i \in Instance : LoopStep(i)

DrainSpec ==
    /\ WaitingInit
    /\ [][Cycles]_vars
    /\ \A i \in Instance : WF_vars(LoopStep(i))

-----------------------------------------------------------------------------
Blocked(j, k) ==
    \/ UserOf[k] \in blockSet[UserOf[j]]
    \/ UserOf[j] \in blockSet[UserOf[k]]

\* Two waiting users that processMatches could announce to each other.
MatchablePairWaits ==
    \E j, k \in Entries \cup InHand : j # k /\ ~Blocked(j, k)

TwoDisjointBlocks ==
    \E j, k, l, m \in Join :
        Cardinality({j, k, l, m}) = 4 /\ Blocked(j, k) /\ Blocked(l, m)

\* The queue is drained for good of every pair that may be matched
\* ("processMatches drains all matchable pairs from the shared queue").
MatchablePairsDrain == <>[]~MatchablePairWaits

\* As long as no two disjoint pairs of the waiting users are blocked, putting
\* a rejected pair back at the tail lets the other users meet, and the queue
\* is drained of every pair that may be matched, whatever order the users
\* came in and however the loops of the instances interleave.
DrainsWithoutDisjointBlocks == ~TwoDisjointBlocks => MatchablePairsDrain
=============================================================================
