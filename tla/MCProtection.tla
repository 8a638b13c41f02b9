---------------------------- MODULE MCProtection ----------------------------
(***************************************************************************)
(* TLC instance of Protection.  No action reads pardoned, which is left    *)
(* out of what tells states apart; BanIsKept, which speaks of it, is about *)
(* steps, which TLC checks one by one all the same.                        *)
(***************************************************************************)
EXTENDS Protection, TLC

CONSTANTS k1, k2, r1, r2

TwoKeys == {k1, k2}
TwoRequests == {r1, r2}

\* level 1 lasts a tick, level 2 is without end
ShortThenForever == [l \in 0..2 |-> IF l = 1 THEN 1 ELSE 0]

WhatIsRead == <<clock, banVars, trustVars, pipelineVars, task>>

Symmetry == Permutations(TwoKeys) \union Permutations(TwoRequests)

=============================================================================
