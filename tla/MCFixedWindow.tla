--------------------------- MODULE MCFixedWindow ---------------------------
(* TLC instance of FixedWindow. *)
EXTENDS FixedWindow, TLC

CONSTANTS p1, p2

TwoProcs == {p1, p2}

Symm2 == Permutations(TwoProcs)

=============================================================================
