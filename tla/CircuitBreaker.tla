--------------------------- MODULE CircuitBreaker ---------------------------
(***************************************************************************)
(* CircuitBreaker (protection/circuit.py) between the requests that        *)
(* pipeline.check() lets through (pipeline.py:204) and the outcomes that   *)
(* the FastAPI middleware reports about them (fastapi/limiter.py:573-595). *)
(* Requests overlap, and nothing ties a report to the state in which its   *)
(* request was let through.                                                *)
(*                                                                         *)
(* Time is what is left until the recovery deadline, in ticks; the         *)
(* deadline is sampled once, when the circuit opens.  failure_count is     *)
(* counted up to Threshold: it is only ever compared with it, and it is    *)
(* set to 0 before a circuit that reached it is closed again.              *)
(***************************************************************************)
EXTENDS Integers, FiniteSets

CONSTANTS
  Reqs,       \* requests that may be under way at the same time
  Threshold,  \* failure_threshold
  MaxProbes,  \* half_open_max_calls
  Timeouts,   \* values of _sample_timeout(): recovery_timeout +/- jitter
  Outcomes    \* how requests may end

AllOutcomes == {
  "ok",       \* a 2xx or 3xx response: record_success
  "error",    \* a 5xx response, or an exception before any: record_failure
  "broken",   \* an exception after a 5xx response was started: both
  "cut",      \* an exception after a 2xx or 3xx response was started:
              \* record_success, and then record_failure
  "silent"}   \* nothing is reported: a 4xx response, a rate limit denial or
              \* challenge after the check, a fail-open pass, a disconnect

ASSUME BreakerAssumption ==
  /\ Threshold \in Nat \ {0}
  /\ MaxProbes \in Nat \ {0}
  /\ Timeouts \subseteq Nat /\ Timeouts # {}
  /\ Outcomes \subseteq AllOutcomes

VARIABLES
  state,       \* _state
  failures,    \* _failure_count, up to Threshold
  probes,      \* _half_open_calls
  left,        \* ticks until _recovery_deadline
  pc,          \* where each request is
  probing,     \* history: requests let through in this half-open episode
  rested,      \* history: ticks since the circuit opened, up to Shortest
  failedSince  \* history: failures reported since the circuit was closed

breakerVars == <<state, failures, probes, left, pc, probing, rested, failedSince>>

Shortest == CHOOSE t \in Timeouts : \A u \in Timeouts : t <= u

UpTo(bound, n) == IF n <= bound THEN n ELSE bound

BreakerInit ==
  /\ state = "closed"
  /\ failures = 0
  /\ probes = 0
  /\ left = 0
  /\ pc = [r \in Reqs |-> "idle"]
  /\ probing = {}
  /\ rested = 0
  /\ failedSince = 0

BreakerTick ==
  /\ left > 0 \/ rested < Shortest
  /\ left' = IF left = 0 THEN 0 ELSE left - 1
  /\ rested' = UpTo(Shortest, rested + 1)
  /\ UNCHANGED <<state, failures, probes, pc, probing, failedSince>>

\* Mutant of Due: one tick early.
DueEarly == state = "open" /\ left <= 1

\* Mutant of Due: never.
DueTooLate == state = "open" /\ left < 0

\* _should_try_recovery()
Due == state = "open" /\ left = 0

\* The state property: reading it is enough to leave OPEN when time is up.
Poll ==
  /\ Due
  /\ state' = "half_open"
  /\ probes' = 0
  /\ UNCHANGED <<failures, left, pc, probing, rested, failedSince>>

SlotFree == probes < MaxProbes

(***************************************************************************)
(* allow_request(): one lock section.  A request that is refused changes   *)
(* nothing, or only what Poll does - which here always lets it through.    *)
(***************************************************************************)
Allow(r) ==
  /\ pc[r] = "idle"
  /\ pc' = [pc EXCEPT ![r] = "running"]
  /\ \/ /\ state = "closed"
        /\ UNCHANGED <<state, probes, probing>>
     \/ /\ Due
        /\ state' = "half_open"
        /\ probes' = 1
        /\ probing' = {r}
     \/ /\ state = "half_open"
        /\ SlotFree
        /\ state' = state
        /\ probes' = probes + 1
        /\ probing' = probing \union {r}
  /\ UNCHANGED <<failures, left, rested, failedSince>>

\* Mutant of CloseCircuit: the failures are not forgotten.
CloseKeepingCount ==
  /\ state' = "closed"
  /\ failures' = failures
  /\ probes' = 0
  /\ probing' = {}
  /\ failedSince' = 0

\* Mutant of CloseCircuit: the slots are freed, but the circuit stays as it is.
FreeSlots ==
  /\ state' = state
  /\ failures' = 0
  /\ probes' = 0
  /\ probing' = {}
  /\ failedSince' = 0

\* To CLOSED, by a success or by hand.
CloseCircuit ==
  /\ state' = "closed"
  /\ failures' = 0
  /\ probes' = 0
  /\ probing' = {}
  /\ failedSince' = 0

\* max(0, _failure_count - 1)
Decayed == IF failures = 0 THEN 0 ELSE failures - 1

\* record_success()
RecordSuccess ==
  /\ \/ state = "half_open" /\ CloseCircuit
     \/ /\ state = "closed"
        /\ failures' = Decayed
        /\ UNCHANGED <<state, probes, probing, failedSince>>
     \/ /\ state = "open"
        /\ UNCHANGED <<state, failures, probes, probing, failedSince>>
  /\ UNCHANGED <<left, rested>>

\* To OPEN: the deadline is sampled, once.
OpenCircuit ==
  /\ state' = "open"
  /\ left' \in Timeouts
  /\ rested' = 0
  /\ probing' = {}

\* record_failure()
RecordFailure ==
  /\ failures' = UpTo(Threshold, failures + 1)
  /\ failedSince' = UpTo(Threshold, failedSince + 1)
  /\ \/ state = "half_open" /\ OpenCircuit /\ probes' = 0
     \/ state = "closed" /\ failures' >= Threshold /\ OpenCircuit /\ UNCHANGED probes
     \/ /\ state = "open" \/ (state = "closed" /\ failures' < Threshold)
        /\ UNCHANGED <<state, left, rested, probes, probing>>

\* Request r ends; what it has been a probe of no longer matters.
Finish(r) ==
  /\ pc[r] = "running"
  /\ \/ /\ "ok" \in Outcomes
        /\ RecordSuccess
        /\ pc' = [pc EXCEPT ![r] = "idle"]
     \/ /\ "error" \in Outcomes
        /\ RecordFailure
        /\ pc' = [pc EXCEPT ![r] = "idle"]
     \/ /\ "broken" \in Outcomes
        /\ RecordFailure
        /\ pc' = [pc EXCEPT ![r] = "raising"]
     \/ /\ "cut" \in Outcomes
        /\ RecordSuccess
        /\ pc' = [pc EXCEPT ![r] = "raising"]
     \/ /\ "silent" \in Outcomes
        /\ pc' = [pc EXCEPT ![r] = "idle"]
        /\ probing' = probing \ {r}
        /\ UNCHANGED <<state, failures, probes, left, rested, failedSince>>

\* The exception of a request whose response was reported already.
Raise(r) ==
  /\ pc[r] = "raising"
  /\ RecordFailure
  /\ pc' = [pc EXCEPT ![r] = "idle"]

\* reset(): the operator closes the circuit.
Reset ==
  /\ CloseCircuit
  /\ left' = 0
  /\ UNCHANGED <<pc, rested>>

BreakerNext ==
  \/ BreakerTick
  \/ Poll
  \/ Reset
  \/ \E r \in Reqs : Allow(r) \/ Finish(r) \/ Raise(r)

BreakerSpec == BreakerInit /\ [][BreakerNext]_breakerVars

(***************************************************************************)
(* Fairness: time passes, requests that were let through end, and clients  *)
(* keep asking.  Nobody has to reset the circuit or read its state.        *)
(***************************************************************************)
Fairness ==
  /\ WF_breakerVars(BreakerTick)
  /\ WF_breakerVars(\E r \in Reqs : Allow(r))
  /\ \A r \in Reqs : WF_breakerVars(Finish(r)) /\ WF_breakerVars(Raise(r))

FairSpec == BreakerSpec /\ Fairness

-----------------------------------------------------------------------------

(***************************************************************************)
(* Type invariant: neither count runs past the setting that bounds it, and *)
(* a deadline is never negative.                                           *)
(***************************************************************************)
BreakerTypeOK ==
  /\ state \in {"closed", "open", "half_open"}
  /\ failures \in 0..Threshold
  /\ probes \in 0..MaxProbes
  /\ left \in Nat
  /\ pc \in [Reqs -> {"idle", "running", "raising"}]
  /\ probing \subseteq Reqs
  /\ rested \in 0..Shortest
  /\ failedSince \in 0..Threshold

(***************************************************************************)
(* A closed circuit has counted fewer failures than trip it, and none that *)
(* was not reported since it was closed: what requests of earlier episodes *)
(* reported while it was open does not carry over.                         *)
(***************************************************************************)
ClosedCountIsHonest ==
  state = "closed" => failures < Threshold /\ failures <= failedSince

(***************************************************************************)
(* A half-open circuit exposes the backend to at most MaxProbes requests,  *)
(* each of which holds a slot, in whatever order earlier requests end.     *)
(***************************************************************************)
ProbesBounded ==
  /\ state # "half_open" => probing = {}
  /\ Cardinality(probing) <= probes /\ probes <= MaxProbes
  /\ \A r \in probing : pc[r] = "running"

(***************************************************************************)
(* Polling does not erode the deadline, and neither do late reports of     *)
(* requests that were let through before: an open circuit rests for the    *)
(* shortest timeout at least before it lets anything through.              *)
(***************************************************************************)
RestsBeforeProbing ==
  [][state = "open" /\ state' = "half_open" => rested >= Shortest]_breakerVars

(***************************************************************************)
(* A closed circuit trips only when failure_threshold failures have been   *)
(* reported since it was closed.                                           *)
(***************************************************************************)
TripsOnEnoughFailures ==
  [][state = "closed" /\ state' = "open" => failedSince' >= Threshold]_breakerVars

(***************************************************************************)
(* As long as clients keep asking, an open circuit is tried again.         *)
(***************************************************************************)
RecoveryIsTried == (state = "open") ~> (state # "open")

(***************************************************************************)
(* As long as clients keep asking, a half-open circuit is decided, unless  *)
(* one of the requests that hold its slots ends without a report.          *)
(***************************************************************************)
SlotLost == Cardinality(probing) < probes

ReportedProbesDecide ==
  (state = "half_open") ~> (state # "half_open" \/ SlotLost)

=============================================================================
