---------------------------- MODULE MCMatchDrain ----------------------------
(***************************************************************************)
(* Instances of MatchDrain for TLC: four users, each of whom waits once.   *)
(***************************************************************************)
EXTENDS MatchDrain, TLC

CONSTANTS a, b, c, d, pod1, pod2

FourUsers == {a, b, c, d}
SameUser == [u \in FourUsers |-> u]
HomeOfAll == [u \in FourUsers |-> pod1]
TwoPods == {pod1, pod2}

\* One row for each pair of users, and one pair in both directions.
EveryPair == {<<a, b>>, <<a, c>>, <<a, d>>, <<b, c>>, <<b, d>>, <<c, d>>,
              <<b, a>>}

\* Two disjoint pairs.
TwoPairs == {<<a, b>>, <<c, d>>}
=============================================================================
