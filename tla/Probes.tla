-------------------------------- MODULE Probes --------------------------------
(***************************************************************************)
(* ProbeDetector (protection/probes.py): a client that meets errors on     *)
(* several paths within a short time is probing, and stays marked for a    *)
(* window.  What clients did is kept in a table that is tidied up, and cut *)
(* to its size, only every now and then.                                   *)
(*                                                                         *)
(* The least error rate is a half, as by default.  A client without an     *)
(* entry has no events here.                                               *)
(***************************************************************************)
EXTENDS Tables

CONSTANTS
  Paths,          \* paths of requests
  ProbeWindow,    \* window
  ProbeThreshold, \* probe_threshold
  UniquePaths,    \* different paths that make a pattern, 3 in the code
  MaxTimeSpan,    \* max_time_span
  MaxEvents,      \* events kept of a client, 1000 in the code; also bounds
                  \* what a client does within a window
  MaxHeld,        \* bound on the events held of all clients
  MaxClients,     \* max_clients
  CleanupInterval \* cleanup_interval

ASSUME ProbesAssumption ==
  /\ ProbeWindow \in Nat
  /\ MaxEvents \in Nat \ {0}
  /\ None \notin Int

VARIABLES
  events,      \* _client_events: time, path and failure of each request
  signals,     \* _probing_clients: detected_at
  lastCleanup, \* _last_cleanup
  history,     \* history: what each client did within the window
  lastScan,    \* history: when that last made a pattern
  crowdedOut   \* history: clients that a full table has lost events of

probeVars == <<events, signals, lastCleanup, history, lastScan, crowdedOut>>

ProbesInit ==
  /\ events = [k \in Keys |-> <<>>]
  /\ signals = [k \in Keys |-> None]
  /\ lastCleanup = 0
  /\ history = [k \in Keys |-> <<>>]
  /\ lastScan = [k \in Keys |-> None]
  /\ crowdedOut = {}

InWindow(list, now) == Since(list, now - ProbeWindow)

\* _detect_probe, of the events in the window
ProbePattern(list) ==
  /\ Len(list) >= ProbeThreshold
  /\ Cardinality({list[i].path : i \in DOMAIN list}) >= UniquePaths
  /\ 2 * Cardinality({i \in DOMAIN list : list[i].failed}) >= Len(list)
  /\ list[Len(list)].at - list[1].at <= MaxTimeSpan

SignalOver(k) == signals[k] # None /\ clock - signals[k] > ProbeWindow

CleanupDue == clock - lastCleanup >= CleanupInterval

\* Mutant of Tidy: what is older than max_time_span goes, too.
TidyTooMuch(table) ==
  [k \in Keys |-> Since(table[k], clock - MaxTimeSpan)]

\* the table without what is too old
Tidy(table) == [k \in Keys |-> InWindow(table[k], clock)]

\* the signals with one of a probe just detected
Signalled(s, k) == [s EXCEPT ![k] = clock]

\* the list of events, from which the oldest falls when it is full
Appended(list, e) ==
  IF Len(list) < MaxEvents THEN Append(list, e) ELSE Append(Tail(list), e)

(***************************************************************************)
(* record(): the event is noted, the tables are tidied up if that is due   *)
(* (_maybe_cleanup), and then the client is looked at - which may have     *)
(* just been dropped, or have lost earlier events before.                  *)
(***************************************************************************)
RecordEvent(k, path, failed) ==
  LET e == [at |-> clock, path |-> path, failed |-> failed]
      noted == [events EXCEPT ![k] = Appended(@, e)]
  IN /\ Len(history[k]) < MaxEvents
     /\ SumFunction(Lengths(noted)) <= MaxHeld
     /\ \E out \in IF CleanupDue THEN Smallest(Lengths(Tidy(noted)), MaxClients) ELSE {{}} :
          LET s == [l \in Keys |-> IF CleanupDue /\ SignalOver(l) THEN None ELSE signals[l]] IN
          /\ events' = IF CleanupDue
                       THEN [l \in Keys |-> IF l \in out THEN <<>> ELSE Tidy(noted)[l]]
                       ELSE noted
          /\ signals' = IF ProbePattern(InWindow(events'[k], clock)) THEN Signalled(s, k) ELSE s
          /\ crowdedOut' = crowdedOut \union out
     /\ lastCleanup' = IF CleanupDue THEN clock ELSE lastCleanup
     /\ history' = [history EXCEPT ![k] = Append(@, e)]
     /\ lastScan' = IF ProbePattern(history'[k]) THEN [lastScan EXCEPT ![k] = clock] ELSE lastScan

\* is_probing(), get_threat_boost(): a signal that is over is deleted.
LookForProbe(k) ==
  /\ SignalOver(k)
  /\ signals' = [signals EXCEPT ![k] = None]
  /\ UNCHANGED <<events, lastCleanup, history, lastScan, crowdedOut>>

\* clear_client()
ClearProber(k) ==
  /\ events' = [events EXCEPT ![k] = <<>>]
  /\ signals' = [signals EXCEPT ![k] = None]
  /\ history' = [history EXCEPT ![k] = <<>>]
  /\ lastScan' = [lastScan EXCEPT ![k] = None]
  /\ crowdedOut' = crowdedOut \ {k}
  /\ UNCHANGED lastCleanup

\* clear_all()
ClearProbers ==
  /\ events' = [k \in Keys |-> <<>>]
  /\ signals' = [k \in Keys |-> None]
  /\ history' = [k \in Keys |-> <<>>]
  /\ lastScan' = [k \in Keys |-> None]
  /\ crowdedOut' = {}
  /\ UNCHANGED lastCleanup

\* Time passes; only the history forgets.
ProbesAge ==
  /\ history' = [k \in Keys |-> InWindow(history[k], clock')]
  /\ UNCHANGED <<events, signals, lastCleanup, lastScan, crowdedOut>>

ProbesNext ==
  \/ ClearProbers
  \/ \E k \in Keys :
       \/ LookForProbe(k) \/ ClearProber(k)
       \/ \E path \in Paths, failed \in BOOLEAN : RecordEvent(k, path, failed)

-----------------------------------------------------------------------------

(***************************************************************************)
(* Tidying up is not seen from outside: a client is marked as probing if,  *)
(* and only if, what it did in a window made a pattern no longer than a    *)
(* window ago, and the mark bears the time of the last such request.  The  *)
(* exception are clients that a table over max_clients has dropped: they   *)
(* may get away, or be taken for probing because what told otherwise is    *)
(* forgotten.                                                              *)
(***************************************************************************)
MarksFollowScans ==
  \A k \in Keys \ crowdedOut :
    IF lastScan[k] # None /\ clock - lastScan[k] <= ProbeWindow
    THEN signals[k] = lastScan[k]
    ELSE signals[k] = None \/ SignalOver(k)

=============================================================================
