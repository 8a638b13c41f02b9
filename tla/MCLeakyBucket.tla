--------------------------- MODULE MCLeakyBucket ---------------------------
(* TLC instance of LeakyBucket. *)
EXTENDS LeakyBucket

CONSTANTS p1, p2

TwoProcs == {p1, p2}
\* p2 runs on a host whose monotonic clock is one tick behind
OneHostBehind == [p \in TwoProcs |-> IF p = p2 THEN 1 ELSE 0]

=============================================================================
