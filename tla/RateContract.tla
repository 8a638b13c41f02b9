---------------------------- MODULE RateContract ----------------------------
(***************************************************************************)
(* What a bucket algorithm of core/algorithms promises about one key: a    *)
(* single counter of debt.  A grant adds its cost to the debt and is only  *)
(* given when the result fits the capacity; debt drains at one unit per    *)
(* tick; a reset forgives it.  The tokens missing from a token bucket and  *)
(* the distance to GCRA's theoretical arrival time are this debt.          *)
(*                                                                         *)
(* granted counts what was given since the last reset, so that a grant is  *)
(* a step of this specification even when it leaves the debt as it was,    *)
(* and none can be given for nothing.                                      *)
(*                                                                         *)
(* Slip is what a grant may forgive of the debt because its caller worked  *)
(* with an old clock sample.  With exact clocks it is 0, and the contract  *)
(* is the one that the documentation states.                               *)
(***************************************************************************)
EXTENDS Integers

CONSTANTS
  Window,   \* capacity, in ticks
  EI,       \* debt of one unit of cost, in ticks
  Costs,    \* costs of a grant
  Slip      \* ticks of debt that a grant may forgive

VARIABLES
  clock,   \* the storage's clock
  debt,    \* what the key owes, in ticks
  granted  \* cost granted since the last reset

vars == <<clock, debt, granted>>

AtLeast(a, b) == IF a >= b THEN a ELSE b

Init ==
  /\ clock = 0
  /\ debt = 0
  /\ granted = 0

Tick ==
  /\ clock' = clock + 1
  /\ debt' = IF debt = 0 THEN 0 ELSE debt - 1
  /\ UNCHANGED granted

Grant(c) ==
  /\ debt + c * EI <= Window
  /\ debt' \in AtLeast(0, debt + c * EI - Slip)..(debt + c * EI)
  /\ granted' = granted + c
  /\ UNCHANGED clock

Forgive ==
  /\ debt' = 0
  /\ granted' = 0
  /\ UNCHANGED clock

Next ==
  \/ Tick
  \/ Forgive
  \/ \E c \in Costs : Grant(c)

Spec == Init /\ [][Next]_vars

=============================================================================
