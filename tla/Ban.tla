-------------------------------- MODULE Ban --------------------------------
(***************************************************************************)
(* ProgressiveBanManager (protection/ban.py) without shared storage: the   *)
(* violations of each key within a sliding window decide how it is banned. *)
(* The methods do not suspend, so each is one step of the event loop.      *)
(*                                                                         *)
(* A key without an entry in _violations has an empty history here; the    *)
(* code never leaves an empty list behind.                                 *)
(***************************************************************************)
EXTENDS KeysAndTime, Sequences, FiniteSets

CONSTANTS
  Top,            \* the highest level, len(escalation) - 1
  Escalation,     \* duration of each level 0..Top; 0 is without end
  Threshold,      \* violations that lead to a ban
  BanWindow,      \* self.window
  MaxViolations   \* violations remembered per key

ASSUME EscalationAssumption ==
  /\ Top \in Nat \ {0}
  /\ Escalation \in [0..Top -> Nat]
  /\ \A i, j \in 1..Top :
       i < j => \/ Escalation[j] = 0
                \/ Escalation[i] # 0 /\ Escalation[i] <= Escalation[j]

ASSUME BanAssumption ==
  /\ Threshold \in Nat \ {0}
  /\ BanWindow \in Nat \ {0}
  /\ MaxViolations \in Nat /\ MaxViolations >= Threshold
  /\ Forever \notin Int
  /\ None \notin [level : Int, expires : Int \union {Forever}]

VARIABLES
  bans,        \* _bans
  violations,  \* _violations: the times of a key's violations, in order
  offences     \* history: all of its violations that are in the window

banVars == <<bans, violations, offences>>

BanInit ==
  /\ bans = [k \in Keys |-> None]
  /\ violations = [k \in Keys |-> <<>>]
  /\ offences = [k \in Keys |-> <<>>]

\* the times a list has from the window that ends at time t; it is in order,
\* so these are its last ones
Within(times, window, t) ==
  LET old == Cardinality({i \in DOMAIN times : t - times[i] >= window})
  IN SubSeq(times, old + 1, Len(times))

\* Mutant of Recent: nothing is ever too old.
RecentForever(k) == violations[k]

Recent(k) == Within(violations[k], BanWindow, clock)

Newest(times, n) ==
  SubSeq(times, 1 + (IF Len(times) > n THEN Len(times) - n ELSE 0), Len(times))

\* _compute_ban_level
Level(count) == AtMost(Top, 1 + (count - Threshold) \div 2)

InForce(k) == bans[k] # None /\ ~Over(bans[k])

\* Mutant of Escalates: any count replaces the ban, also by a lower one.
EscalatesAlways(k, count) == count >= Threshold

\* Mutant of Escalates: the threshold must be exceeded.
EscalatesLate(k, count) ==
  count > Threshold /\ (bans[k] = None \/ Level(count) > bans[k].level)

\* "Only escalate, never downgrade": compared with the entry that is there,
\* be it over or not.
Escalates(k, count) ==
  count >= Threshold /\ (bans[k] = None \/ Level(count) > bans[k].level)

RecordViolation(k) ==
  LET times == Newest(Append(Recent(k), clock), MaxViolations)
      count == Len(times)
  IN /\ violations' = [violations EXCEPT ![k] = times]
     /\ offences' = [offences EXCEPT ![k] = Append(@, clock)]
     /\ IF Escalates(k, count)
        THEN bans' = [bans EXCEPT ![k] =
               [level   |-> Level(count),
                expires |-> Deadline(Escalation[Level(count)])]]
        ELSE UNCHANGED bans

\* Mutant of KeptBan: a ban goes when its violations do.
KeptBanWhileRecent(k) == IF InForce(k) /\ Recent(k) # <<>> THEN bans[k] ELSE None

\* what _prune_expired_state leaves of a key
KeptBan(k) == IF InForce(k) THEN bans[k] ELSE None

KeptHistory(k) == IF InForce(k) THEN violations[k] ELSE Recent(k)

\* is_banned, get_ban, get_ban_level: look, after the key was tidied up
PruneExpired(k) ==
  /\ bans' = [bans EXCEPT ![k] = KeptBan(k)]
  /\ violations' = [violations EXCEPT ![k] = KeptHistory(k)]
  /\ UNCHANGED offences

\* get_active_bans: all keys are tidied up
GetActiveBans ==
  /\ bans' = [k \in Keys |-> KeptBan(k)]
  /\ violations' = [k \in Keys |-> KeptHistory(k)]
  /\ UNCHANGED offences

\* clear_ban keeps the key's violations, so that the next one counts on.
ClearBan(k) ==
  /\ bans' = [bans EXCEPT ![k] = None]
  /\ UNCHANGED <<violations, offences>>

ClearAll ==
  /\ bans' = [k \in Keys |-> None]
  /\ violations' = [k \in Keys |-> <<>>]
  /\ offences' = [k \in Keys |-> <<>>]

\* Time passes; only the history forgets.
BansAge ==
  /\ offences' = [k \in Keys |-> Within(offences[k], BanWindow, clock')]
  /\ UNCHANGED <<bans, violations>>

BanTypeOK ==
  /\ bans \in [Keys -> [level : 1..Top, expires : Nat \union {Forever}] \union {None}]
  /\ violations \in [Keys -> Seq(Nat)]
  /\ offences \in [Keys -> Seq(Nat)]

\* A violation of k is recorded by this step.
Offends(k) == Len(offences'[k]) > Len(offences[k])

EnoughOffences(k) == Offends(k) /\ Len(offences'[k]) >= Threshold

=============================================================================
