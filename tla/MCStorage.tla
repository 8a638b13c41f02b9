----------------------------- MODULE MCStorage -----------------------------
(***************************************************************************)
(* TLC instance of ServerStorage.  No action reads answer, which is left   *)
(* out of what tells states apart; the properties that speak of it are     *)
(* about steps, which TLC checks one by one all the same.                  *)
(***************************************************************************)
EXTENDS ServerStorage, TLC

CONSTANTS k1, k2

TwoKeys == {k1, k2}

Symm2 == Permutations(TwoKeys)

WhatIsRead == <<clock, store, writes, lease, backend>>

=============================================================================
