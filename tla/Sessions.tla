------------------------------- MODULE Sessions -------------------------------
(***************************************************************************)
(* DefenseRandomizer (defense/randomizer.py): every session is given random*)
(* parameters - a factor of its limit, a challenge, a difficulty, a delay -*)
(* and keeps them until they expire or the table overflows.  The lock makes*)
(* each method one step.                                                   *)
(***************************************************************************)
EXTENDS KeysAndTime, SequencesExt

CONSTANTS
  Params,      \* parameters a session may be given
  SessionTTL,  \* session_ttl
  MaxSessions, \* max_sessions
  Share        \* one in how many sessions an overflow evicts, 10 in the code

ASSUME SessionsAssumption ==
  /\ SessionTTL \in Nat
  /\ MaxSessions \in Nat
  /\ Share \in Nat \ {0}
  /\ None \notin [params : Params, since : Nat]

VARIABLES
  sessions, \* _sessions, a dictionary in the order of its insertions, which
            \* is that of created_at
  shown,    \* history: the parameters each session was last shown, and since
            \* when it has had them
  newer     \* history: the sessions created since

sessionVars == <<sessions, shown, newer>>

SessionsInit ==
  /\ sessions = <<>>
  /\ shown = [k \in Keys |-> None]
  /\ newer = [k \in Keys |-> 0]

Has(k) == \E i \in DOMAIN sessions : sessions[i].id = k

Position(k) == CHOOSE i \in DOMAIN sessions : sessions[i].id = k

Session(k) == sessions[Position(k)]

Others(k) == IF Has(k) THEN RemoveAt(sessions, Position(k)) ELSE sessions

Fresh(s) == clock - s.created <= SessionTTL

\* how many of n sessions are evicted
Evicted(n) == IF n <= MaxSessions THEN 0 ELSE IF n < Share THEN 1 ELSE n \div Share

\* Mutant of Kept: the latest go.
KeptOldest(table) == SubSeq(table, 1, Len(table) - Evicted(Len(table)))

\* _evict_oldest
Kept(table) == SubSeq(table, 1 + Evicted(Len(table)), Len(table))

\* get_session_params, which all the getters go through
GetParams(k) ==
  \/ /\ Has(k)
     /\ Fresh(Session(k))
     /\ shown' = [shown EXCEPT ![k] = [params |-> Session(k).params, since |-> @.since]]
     /\ UNCHANGED <<sessions, newer>>
  \/ /\ Has(k) => ~Fresh(Session(k))
     /\ \E params \in Params :
          /\ sessions' = Kept(Append(Others(k), [id |-> k, params |-> params, created |-> clock]))
          /\ shown' = [shown EXCEPT ![k] = [params |-> params, since |-> clock]]
     /\ newer' = [l \in Keys |->
          IF l = k THEN 0 ELSE AtMost(newer[l] + 1, MaxSessions)]

\* clear_session
ClearSession(k) ==
  /\ sessions' = Others(k)
  /\ shown' = [shown EXCEPT ![k] = None]
  /\ UNCHANGED newer

\* clear_all
ClearSessions ==
  /\ sessions' = <<>>
  /\ shown' = [k \in Keys |-> None]
  /\ UNCHANGED newer

SessionsNext == ClearSessions \/ \E k \in Keys : GetParams(k) \/ ClearSession(k)

-----------------------------------------------------------------------------

(***************************************************************************)
(* A session that was not cleared sees other parameters only when its time *)
(* is over or when a crowd has pushed it out: as many sessions as the table*)
(* holds, but for the share an overflow evicts, were created after it.  It *)
(* can not be pushed out by its own return, nor before older ones.         *)
(***************************************************************************)
OnlyACrowdReshuffles ==
  [][\A k \in Keys :
       (shown[k] # None /\ shown'[k] # None /\ shown'[k] # shown[k]) =>
         \/ clock - shown[k].since > SessionTTL
         \/ newer[k] >= MaxSessions + 1 - Evicted(MaxSessions + 1)]_shown

=============================================================================
