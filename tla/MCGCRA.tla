------------------------------- MODULE MCGCRA ---------------------------
(* TLC instance of GCRA. *)
EXTENDS GCRA, TLC

CONSTANTS p1, p2

TwoProcs == {p1, p2}
NoLag2 == [p \in TwoProcs |-> 0]

Symm2 == Permutations(TwoProcs)

=============================================================================
