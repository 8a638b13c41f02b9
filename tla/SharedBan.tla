----------------------------- MODULE SharedBan -----------------------------
(***************************************************************************)
(* The same ProgressiveBanManager with a storage (protection/ban.py): the  *)
(* violations of a key are a counter and its ban is a record, both on the  *)
(* storage and shared by processes.  A call is several commands with awaits*)
(* between them; calls for one key overlap, and any of them may break off  *)
(* between two commands.                                                   *)
(*                                                                         *)
(* An entry is gone when its time is over (StorageContract).  Whether an   *)
(* increment keeps a counter's expiry or asks for it again is up to the    *)
(* storage (ServerStorage).                                                *)
(***************************************************************************)
EXTENDS Ban

CONSTANTS
  Procs,    \* calls that may be in progress at a time
  MaxCount  \* bound on a counter

VARIABLES
  refreshing, \* an increment refreshes the time to live, as in Redis
  counter,    \* the violation counter of each key
  record,     \* the ban record of each key: level and expiry, and until when
              \* the storage keeps it
  pc,         \* what each call does next
  job,        \* what it is about, and what it has decided
  times       \* history: the violations of each key within the window

sharedBanVars == <<refreshing, counter, record, pc, job, times>>

SharedBanInit ==
  /\ refreshing \in BOOLEAN
  /\ counter = [k \in Keys |-> None]
  /\ record = [k \in Keys |-> None]
  /\ pc = [p \in Procs |-> "idle"]
  /\ job = [p \in Procs |-> None]
  /\ times = [k \in Keys |-> <<>>]

\* Mutant of Bumped: the window starts anew with every increment.
BumpedAfresh(c, window) ==
  [value |-> IF c = None THEN 1 ELSE c.value + 1, expires |-> clock + window]

\* increment_by(counter, 1, window)
Bumped(c, window) ==
  IF c = None THEN [value |-> 1, expires |-> clock + window]
  ELSE [value |-> c.value + 1,
        expires |-> IF refreshing THEN clock + window ELSE c.expires]

Goto(p, label) == pc' = [pc EXCEPT ![p] = label]

Remember(p, j) == job' = [job EXCEPT ![p] = j]

\* p has looked at the record and will write it.
Writing(p, k) == pc[p] \in {"drop", "set"} /\ job[p].key = k

\* The call returns.
Done(p) == Goto(p, "idle") /\ Remember(p, None)

\* p writes the record of k, and j is what is left for it to do; the others
\* that are about to write it act on what they saw before (history).
WriteRecord(p, k, r, j) ==
  /\ record' = [record EXCEPT ![k] = r]
  /\ job' = [q \in Procs |->
       IF q = p THEN j ELSE IF Writing(q, k) THEN [job[q] EXCEPT !.raced = TRUE] ELSE job[q]]

Job(k, level) == [key |-> k, level |-> level, raced |-> FALSE]

\* record_violation_async: the violation is counted.
CountViolation(p, k) ==
  LET c == Bumped(counter[k], BanWindow) IN
  /\ pc[p] = "idle"
  /\ c.value <= MaxCount
  /\ counter' = [counter EXCEPT ![k] = c]
  /\ times' = [times EXCEPT ![k] = Append(@, clock)]
  /\ IF c.value < Threshold THEN UNCHANGED <<pc, job>>
     ELSE Goto(p, "look") /\ Remember(p, Job(k, Level(c.value)))
  /\ UNCHANGED <<refreshing, record>>

\* is_banned_async: looks, with no level of its own.
CheckBan(p, k) ==
  /\ pc[p] = "idle"
  /\ Goto(p, "look")
  /\ Remember(p, Job(k, 0))
  /\ UNCHANGED <<refreshing, counter, record, times>>

\* Mutant of Lapsed: a ban that is over counts like any other.
NeverLapsed(k) == FALSE

\* The storage still has a ban that is over by its own account.
Lapsed(k) == record[k] # None /\ Over(record[k])

\* Mutant of LevelFound: any ban may be replaced, also by a lower one.
NoLevelFound(k) == 0

\* the level get_ban_level_async answers with, 0 standing for None
LevelFound(k) == IF record[k] = None \/ Lapsed(k) THEN 0 ELSE record[k].level

\* get_ban_level_async reads, and record_violation_async decides: a ban is
\* escalated and never downgraded; one that is over is to be deleted first.
LookAtRecord(p) ==
  LET k == job[p].key IN
  /\ pc[p] = "look"
  /\ \/ Lapsed(k) /\ Goto(p, "drop") /\ UNCHANGED job
     \/ ~Lapsed(k) /\ job[p].level > LevelFound(k) /\ Goto(p, "set") /\ UNCHANGED job
     \/ ~Lapsed(k) /\ job[p].level <= LevelFound(k) /\ Done(p)
  /\ UNCHANGED <<refreshing, counter, record, times>>

\* The deletion, with which whoever only looked is done.
DropRecord(p) ==
  /\ pc[p] = "drop"
  /\ IF job[p].level = 0
     THEN Goto(p, "idle") /\ WriteRecord(p, job[p].key, None, None)
     ELSE Goto(p, "set") /\ WriteRecord(p, job[p].key, None, Job(job[p].key, job[p].level))
  /\ UNCHANGED <<refreshing, counter, times>>

\* The ban is written.  The storage keeps it for as long as it lasts, or a
\* little longer: its time to live is rounded up, and starts a little later.
SetRecord(p) ==
  LET expires == Deadline(Escalation[job[p].level]) IN
  /\ pc[p] = "set"
  /\ \E kept \in IF expires = Forever THEN {Forever} ELSE {expires, expires + 1} :
       WriteRecord(p, job[p].key,
                   [level |-> job[p].level, expires |-> expires, kept |-> kept], None)
  /\ Goto(p, "idle")
  /\ UNCHANGED <<refreshing, counter, times>>

\* clear_ban_async: the record is deleted, and then the counter.
ClearRecord(p, k) ==
  /\ pc[p] = "idle"
  /\ Goto(p, "clear")
  /\ WriteRecord(p, k, None, Job(k, 0))
  /\ UNCHANGED <<refreshing, counter, times>>

ClearCounter(p) ==
  /\ pc[p] = "clear"
  /\ counter' = [counter EXCEPT ![job[p].key] = None]
  /\ times' = [times EXCEPT ![job[p].key] = <<>>]
  /\ Done(p)
  /\ UNCHANGED <<refreshing, record>>

\* A command of the storage fails, or its caller is cancelled waiting for the
\* answer: what the call has done so far stays done, the rest is not, and
\* whoever called gets an exception in place of a result.
Abandon(p) ==
  /\ pc[p] \in {"look", "drop", "set", "clear"}
  /\ Goto(p, "raised")
  /\ Remember(p, None)
  /\ UNCHANGED <<refreshing, counter, record, times>>

Recover(p) ==
  /\ pc[p] = "raised"
  /\ Goto(p, "idle")
  /\ UNCHANGED <<refreshing, counter, record, job, times>>

\* External: time passes, and the storage lets go of what is over.
SharedBansAge ==
  /\ counter' = [k \in Keys |->
       IF counter[k] # None /\ counter[k].expires <= clock' THEN None ELSE counter[k]]
  /\ record' = [k \in Keys |->
       IF record[k] # None /\ record[k].kept # Forever /\ record[k].kept <= clock'
       THEN None ELSE record[k]]
  /\ times' = [k \in Keys |-> Within(times[k], BanWindow, clock')]
  /\ UNCHANGED <<refreshing, pc, job>>

SharedBanStep(p) ==
  \/ LookAtRecord(p) \/ DropRecord(p) \/ SetRecord(p) \/ ClearCounter(p)
  \/ Abandon(p) \/ Recover(p)
  \/ \E k \in Keys : CountViolation(p, k) \/ CheckBan(p, k) \/ ClearRecord(p, k)

-----------------------------------------------------------------------------

Counters == [value : 1..MaxCount, expires : Nat]

SharedBanTypeOK ==
  /\ refreshing \in BOOLEAN
  /\ counter \in [Keys -> Counters \union {None}]
  /\ record \in [Keys -> [level : 1..Top, expires : Nat \union {Forever},
                          kept : Nat \union {Forever}] \union {None}]

\* How strong the ban of k is; 0 when there is none in force.
Strength(k) ==
  IF record[k] = None \/ Over(record[k]) THEN 0 ELSE record[k].level

(***************************************************************************)
(* A ban in force is only ever weakened - deleted, or replaced by one of a *)
(* lower level - by whoever clears it, or by a call that looked before the *)
(* ban was there: one that found an older ban over and deletes "it", or    *)
(* one that counted earlier and comes late with its lower level (the awaits*)
(* of ban.py:222 and 260).                                                 *)
(***************************************************************************)
OnlyARaceWeakens ==
  [][\A k \in Keys :
       (Strength(k)' < Strength(k) /\ clock' = clock) =>
         \E p \in Procs : \/ pc'[p] = "clear" /\ pc[p] = "idle"
                          \/ Writing(p, k) /\ job[p].raced /\ pc'[p] # pc[p]]_record

(***************************************************************************)
(* A call that has counted enough violations, and that does not break off, *)
(* returns with a ban of the key in force, of its level at least: what is  *)
(* left of an old ban does not shield the key, unlike in memory.           *)
(***************************************************************************)
TheThresholdBans ==
  [][\A p \in Procs, k \in Keys :
       (pc[p] \in {"look", "set"} /\ pc'[p] = "idle" /\ job[p].key = k) =>
         Strength(k)' >= job[p].level]_pc

(***************************************************************************)
(* What the window of the counter is worth depends on the storage.  Where  *)
(* an increment keeps the expiry, the counter has at most the violations   *)
(* of the last window, and so no key is banned without having earned it;   *)
(* where it refreshes it, "every violation refreshes the full window TTL"  *)
(* (ban.py:208), the counter has all of them at least, and no offender     *)
(* gets away because a window has ended.                                   *)
(***************************************************************************)
CounterErrsOneWay ==
  \A k \in Keys :
    LET value == IF counter[k] = None THEN 0 ELSE counter[k].value IN
    IF refreshing THEN value >= Len(times[k]) ELSE value <= Len(times[k])

=============================================================================
