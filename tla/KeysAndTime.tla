---------------------------- MODULE KeysAndTime ----------------------------
(***************************************************************************)
(* What the protection components share: the keys clients are told apart   *)
(* by, the process's monotonic clock, and expiry dates.                    *)
(***************************************************************************)
EXTENDS Integers

CONSTANTS
  Keys,     \* identities of clients
  Forever,  \* expires_at = None
  None,     \* no entry for a key
  MaxClock  \* bound on the clock

VARIABLE clock  \* time.monotonic()

AtMost(a, b) == IF a <= b THEN a ELSE b

\* expires_at of something that lasts ttl from now on; 0 stands for no end
Deadline(ttl) == IF ttl = 0 THEN Forever ELSE clock + ttl

\* an entry with an expiry date is over
Over(entry) == entry.expires # Forever /\ clock >= entry.expires

=============================================================================
