--------------------------- MODULE MCTokenBucket ---------------------------
(* TLC instance of TokenBucket. *)
EXTENDS TokenBucket, TLC

CONSTANTS p1, p2

TwoProcs == {p1, p2}
NoLag2 == [p \in TwoProcs |-> 0]

Symm2 == Permutations(TwoProcs)

=============================================================================
