---------------------------- MODULE MCLiveSource ----------------------------
(* Small instances of LiveSource for TLC. *)
EXTENDS LiveSource, TLC

CONSTANTS a, b, w1, w2, q1, q2

\* The camera is unreachable by configuration, at one address, or at another.
Home == [nvr |-> "n", camera |-> "c"]
Away == [nvr |-> "n", camera |-> "d"]
Without == [nvr |-> "n", camera |-> None]

OneHome == {Home}
HomeAndAway == {Home, Away}
HomeAndWithout == {Home, Without}
AnyLayout == {Home, Away, Without}

WorkersAndRequests == Permutations(Workers) \cup Permutations(Requests)
=============================================================================
