-------------------------- MODULE MCSlidingWindow --------------------------
(* TLC instance of SlidingWindow. *)
EXTENDS SlidingWindow, TLC

CONSTANTS p1, p2

TwoProcs == {p1, p2}

Symm2 == Permutations(TwoProcs)

=============================================================================
