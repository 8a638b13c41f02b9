---------------------------- MODULE MCChallenge ----------------------------
(* TLC instance of Challenge. *)
EXTENDS Challenge

\* two levels of bans, of one and of two ticks
Durations == [l \in 0..2 |-> l]

\* Shared bans and challenges have no state in common: a client gets one or
\* the other at a time.
OneAtATime ==
  \A k \in Keys : (counter[k] = None /\ record[k] = None) \/ requests[k] = None

=============================================================================
