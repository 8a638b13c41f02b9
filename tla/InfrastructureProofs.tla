----------------------- MODULE InfrastructureProofs ------------------------
(***************************************************************************)
(* Proofs about what surrounds the algorithms and the pipeline, parts that *)
(* share nothing with each other:                                          *)
(*   - CircuitBreaker, for any number of requests, any thresholds and      *)
(*     timeouts, and whatever requests report or fail to report;           *)
(*   - ServerStorage, for any keys, values and times to live;              *)
(*   - Adapters, for any rules, requests, threads and rates.               *)
(***************************************************************************)
EXTENDS CircuitBreaker, ServerStorage, Adapters, Sums, FiniteSetTheorems,
  SequenceTheorems, WellFoundedInduction, TLAPS

-----------------------------------------------------------------------------
(* The circuit breaker.  Its inductive invariant is what the properties    *)
(* say, and two facts more.                                                *)

\* The slots taken in a half-open circuit are finitely many.
ProbesCounted == IsFiniteSet(probing) /\ ProbesBounded

\* What an open circuit has rested, and has left to rest, is long enough.
RestIsKept == state = "open" => rested + left >= Shortest

BreakerInv ==
  /\ BreakerTypeOK
  /\ ClosedCountIsHonest
  /\ ProbesCounted
  /\ RestIsKept

-----------------------------------------------------------------------------

(* Among the timeouts there is a shortest one. *)
LEMMA ShortestExists ==
  Shortest \in Timeouts /\ Shortest \in Nat /\ \A u \in Timeouts : Shortest <= u
<1>1. Timeouts \subseteq Nat /\ Timeouts # {}
  BY BreakerAssumption
<1>2. \E t \in Timeouts : \A u \in Timeouts : ~(<<u, t>> \in OpToRel(<, Nat))
  BY <1>1, NatLessThanWellFounded, WFMin
<1>3. PICK t \in Timeouts : \A u \in Timeouts : ~(<<u, t>> \in OpToRel(<, Nat))
  BY <1>2
<1>4. \A u \in Timeouts : t <= u
  <2> SUFFICES ASSUME NEW u \in Timeouts, u < t PROVE FALSE
    BY <1>1
  <2>1. <<u, t>> \in OpToRel(<, Nat)
    BY <1>1 DEF OpToRel
  <2>2. QED
    BY <1>3, <2>1
<1>5. QED
  BY <1>1, <1>4 DEF Shortest

LEMMA BreakerBounds ==
  /\ Threshold \in Nat \ {0} /\ MaxProbes \in Nat \ {0}
  /\ \A n \in Nat : UpTo(Threshold, n) \in 0..Threshold
  /\ \A n \in Nat : UpTo(Shortest, n) \in 0..Shortest
BY BreakerAssumption, ShortestExists DEF UpTo

(* What a slot given to a request does to the number of slots in use. *)
LEMMA SlotTaken ==
  ASSUME NEW S, IsFiniteSet(S), NEW r
  PROVE  /\ IsFiniteSet(S \union {r})
         /\ Cardinality(S \union {r}) <= Cardinality(S) + 1
<1>1. Cardinality(S) \in Nat
  BY FS_CardinalityType
<1>2. QED
  BY <1>1, FS_AddElement

LEMMA SlotGivenUp ==
  ASSUME NEW S, IsFiniteSet(S), NEW r
  PROVE  /\ IsFiniteSet(S \ {r})
         /\ Cardinality(S \ {r}) <= Cardinality(S)
<1>1. Cardinality(S) \in Nat
  BY FS_CardinalityType
<1>2. QED
  BY <1>1, FS_RemoveElement

(* Nobody holds a slot, whatever the state, after CloseCircuit, say. *)
LEMMA NoSlots ==
  probing = {} /\ probes \in 0..MaxProbes => ProbesCounted
BY FS_EmptySet, BreakerAssumption DEF ProbesCounted, ProbesBounded

LEMMA BreakerStarts == BreakerInit => BreakerInv
<1> SUFFICES ASSUME BreakerInit PROVE BreakerInv
  OBVIOUS
<1>1. BreakerTypeOK
  BY BreakerBounds, ShortestExists DEF BreakerInit, BreakerTypeOK
<1>2. ProbesCounted
  BY <1>1, NoSlots DEF BreakerInit, BreakerTypeOK
<1>3. ClosedCountIsHonest /\ RestIsKept
  BY BreakerBounds DEF BreakerInit, ClosedCountIsHonest, RestIsKept
<1>4. QED
  BY <1>1, <1>2, <1>3 DEF BreakerInv

LEMMA BreakerTickPreserves == BreakerInv /\ BreakerTick => BreakerInv'
<1> SUFFICES ASSUME BreakerInv, BreakerTick PROVE BreakerInv'
  OBVIOUS
<1>1. UNCHANGED <<state, failures, probes, pc, probing, failedSince>>
  BY DEF BreakerTick
<1>2. left \in Nat /\ rested \in 0..Shortest /\ Shortest \in Nat
  BY ShortestExists DEF BreakerInv, BreakerTypeOK
<1>3. left' \in Nat /\ rested' \in 0..Shortest
  BY <1>2, BreakerBounds DEF BreakerTick
<1>4. rested' + left' >= Shortest \/ rested' + left' >= rested + left
  BY <1>2 DEF BreakerTick, UpTo
<1>5. BreakerTypeOK'
  BY <1>1, <1>3 DEF BreakerInv, BreakerTypeOK, Shortest
<1>6. ProbesCounted' /\ ClosedCountIsHonest'
  BY <1>1 DEF BreakerInv, ProbesCounted, ProbesBounded, ClosedCountIsHonest
<1>7. RestIsKept'
  <2>1. Shortest' = Shortest
    BY DEF Shortest
  <2> SUFFICES ASSUME state = "open" PROVE rested' + left' >= Shortest
    BY <1>1, <2>1 DEF RestIsKept
  <2>2. rested + left >= Shortest
    BY DEF BreakerInv, RestIsKept
  <2>3. rested + left \in Int /\ rested' + left' \in Int
    BY <1>2, <1>3
  <2>4. QED
    BY <1>2, <1>4, <2>2, <2>3
<1>8. QED
  BY <1>5, <1>6, <1>7 DEF BreakerInv

(* A closed circuit with nothing counted. *)
LEMMA CloseEstablishes ==
  ASSUME BreakerTypeOK', CloseCircuit
  PROVE  ProbesCounted' /\ ClosedCountIsHonest' /\ RestIsKept'
<1>1. state' = "closed" /\ failures' = 0 /\ probes' = 0
      /\ probing' = {} /\ failedSince' = 0
  BY DEF CloseCircuit
<1>2. ClosedCountIsHonest' /\ RestIsKept'
  <2>1. 0 < Threshold /\ 0 <= 0
    BY BreakerAssumption
  <2>2. ClosedCountIsHonest'
    BY <1>1, <2>1 DEF ClosedCountIsHonest
  <2>3. RestIsKept'
    BY <1>1 DEF RestIsKept
  <2>4. QED
    BY <2>2, <2>3
<1>3. ProbesCounted'
  BY <1>1, FS_EmptySet, BreakerAssumption DEF ProbesCounted, ProbesBounded
<1>4. QED
  BY <1>2, <1>3

(* An open circuit with its deadline just sampled. *)
LEMMA OpenEstablishes ==
  ASSUME BreakerTypeOK', OpenCircuit
  PROVE  ProbesCounted' /\ ClosedCountIsHonest' /\ RestIsKept'
<1>1. state' = "open" /\ left' \in Timeouts /\ rested' = 0 /\ probing' = {}
  BY DEF OpenCircuit
<1>2. Shortest' = Shortest /\ Shortest <= left' /\ left' \in Nat
  BY <1>1, ShortestExists, BreakerAssumption DEF Shortest
<1>3. ClosedCountIsHonest' /\ RestIsKept'
  <2>1. ClosedCountIsHonest'
    BY <1>1 DEF ClosedCountIsHonest
  <2>2. rested' + left' >= Shortest
    <3>1. /\ rested' = 0 /\ rested' \in Nat
          /\ left' \in Nat /\ Shortest <= left'
      BY <1>1, <1>2
    <3>2. Shortest \in Nat
      BY ShortestExists
    <3>3. \A a, b, c \in Nat : a = 0 /\ c <= b => a + b >= c
      OBVIOUS
    <3>4. QED
      BY <3>1, <3>2, <3>3
  <2>3. RestIsKept'
    BY <1>2, <2>2 DEF RestIsKept
  <2>4. QED
    BY <2>1, <2>3
<1>4. ProbesCounted'
  <2>1. probes' \in 0..MaxProbes
    BY DEF BreakerTypeOK
  <2>2. QED
    BY <1>1, <2>1, FS_EmptySet, BreakerAssumption
       DEF ProbesCounted, ProbesBounded
<1>5. QED
  BY <1>3, <1>4

LEMMA PollPreserves == BreakerInv /\ Poll => BreakerInv'
<1> SUFFICES ASSUME BreakerInv, Poll PROVE BreakerInv'
  OBVIOUS
<1>1. /\ state = "open" /\ state' = "half_open" /\ probes' = 0
      /\ UNCHANGED <<failures, left, pc, probing, rested, failedSince>>
  BY DEF Poll, Due
<1>2. BreakerTypeOK'
  BY <1>1, BreakerBounds DEF BreakerInv, BreakerTypeOK, Shortest
<1>3. probing' = {}
  BY <1>1 DEF BreakerInv, ProbesCounted, ProbesBounded
<1>4. ProbesCounted'
  BY <1>1, <1>3, FS_EmptySet, BreakerAssumption DEF ProbesCounted, ProbesBounded
<1>5. QED
  BY <1>1, <1>2, <1>4 DEF BreakerInv, ClosedCountIsHonest, RestIsKept

LEMMA ResetPreserves == BreakerInv /\ Reset => BreakerInv'
<1> SUFFICES ASSUME BreakerInv, Reset PROVE BreakerInv'
  OBVIOUS
<1>1. BreakerTypeOK'
  BY BreakerBounds DEF Reset, CloseCircuit, BreakerInv, BreakerTypeOK, Shortest
<1>2. QED
  BY <1>1, CloseEstablishes DEF Reset, BreakerInv

LEMMA AllowPreserves ==
  ASSUME NEW r \in Reqs PROVE BreakerInv /\ Allow(r) => BreakerInv'
<1> SUFFICES ASSUME BreakerInv, Allow(r) PROVE BreakerInv'
  OBVIOUS
<1>1. /\ pc' = [pc EXCEPT ![r] = "running"]
      /\ UNCHANGED <<failures, left, rested, failedSince>>
  BY DEF Allow
<1>2. CASE state = "closed" /\ UNCHANGED <<state, probes, probing>>
  <2>1. BreakerTypeOK'
    BY <1>1, <1>2 DEF BreakerInv, BreakerTypeOK, Shortest
  <2>2. probing' = {}
    BY <1>2 DEF BreakerInv, ProbesCounted, ProbesBounded
  <2>3. ProbesCounted'
    BY <2>1, <2>2, FS_EmptySet, BreakerAssumption
       DEF ProbesCounted, ProbesBounded, BreakerTypeOK
  <2>4. QED
    BY <1>1, <1>2, <2>1, <2>3 DEF BreakerInv, ClosedCountIsHonest, RestIsKept
<1>3. CASE Due /\ state' = "half_open" /\ probes' = 1 /\ probing' = {r}
  <2>1. BreakerTypeOK'
    BY <1>1, <1>3, BreakerBounds DEF BreakerInv, BreakerTypeOK, Shortest
  <2>2. IsFiniteSet({r}) /\ Cardinality({r}) <= 1
    <3>1. IsFiniteSet({r}) /\ Cardinality({r}) = 1
      BY FS_Singleton, Zenon
    <3>2. QED
      BY <3>1
  <2>3. ProbesCounted'
    BY <1>1, <1>3, <2>1, <2>2
       DEF ProbesCounted, ProbesBounded, BreakerInv, BreakerTypeOK
  <2>4. QED
    BY <1>3, <2>1, <2>3 DEF BreakerInv, ClosedCountIsHonest, RestIsKept
<1>4. CASE /\ state = "half_open" /\ probes < MaxProbes /\ state' = state
           /\ probes' = probes + 1 /\ probing' = probing \union {r}
  <2>1. BreakerTypeOK'
    BY <1>1, <1>4, BreakerBounds DEF BreakerInv, BreakerTypeOK, Shortest
  <2>2. /\ IsFiniteSet(probing')
        /\ Cardinality(probing') <= Cardinality(probing) + 1
    BY <1>4, SlotTaken DEF BreakerInv, ProbesCounted
  <2>3. Cardinality(probing') <= probes'
    <3>1. Cardinality(probing) \in Nat /\ Cardinality(probing') \in Nat
      BY <2>2, FS_CardinalityType DEF BreakerInv, ProbesCounted
    <3>2. Cardinality(probing) <= probes /\ probes \in Nat
      BY DEF BreakerInv, ProbesCounted, ProbesBounded, BreakerTypeOK
    <3>3. QED
      BY <1>4, <2>2, <3>1, <3>2
  <2>4. \A q \in probing' : pc'[q] = "running"
    BY <1>1, <1>4 DEF BreakerInv, ProbesCounted, ProbesBounded, BreakerTypeOK
  <2>5. ProbesCounted'
    BY <1>4, <2>1, <2>2, <2>3, <2>4 DEF ProbesCounted, ProbesBounded, BreakerTypeOK
  <2>6. QED
    BY <1>4, <2>1, <2>5 DEF BreakerInv, ClosedCountIsHonest, RestIsKept
<1>5. QED
  BY <1>2, <1>3, <1>4 DEF Allow, SlotFree

(* Whatever a request reports, except that it holds no slot afterwards. *)
LEMMA SuccessKeeps ==
  ASSUME BreakerInv, RecordSuccess, NEW r \in Reqs, pc[r] # "idle",
         NEW next \in {"idle", "raising"}, pc' = [pc EXCEPT ![r] = next]
  PROVE  BreakerInv'
<1>1. BreakerTypeOK'
  BY BreakerBounds DEF RecordSuccess, Decayed, CloseCircuit, BreakerInv, BreakerTypeOK, Shortest
<1>2. CASE state = "half_open" /\ CloseCircuit
  BY <1>1, <1>2, CloseEstablishes DEF BreakerInv
<1>3. CASE /\ state # "half_open"
           /\ failures' = failures \/ failures' = failures - 1
           /\ UNCHANGED <<state, probes, probing, failedSince, left, rested>>
  <2>1. probing' = {}
    BY <1>3 DEF BreakerInv, ProbesCounted, ProbesBounded
  <2>2. ProbesCounted'
    BY <1>1, <2>1, FS_EmptySet, BreakerAssumption
       DEF ProbesCounted, ProbesBounded, BreakerTypeOK
  <2>3. ClosedCountIsHonest'
    BY <1>3, BreakerBounds DEF BreakerInv, ClosedCountIsHonest, BreakerTypeOK
  <2>4. RestIsKept'
    BY <1>3 DEF BreakerInv, RestIsKept, Shortest
  <2>5. QED
    BY <1>1, <2>2, <2>3, <2>4 DEF BreakerInv
<1>4. QED
  BY <1>2, <1>3 DEF RecordSuccess, Decayed

LEMMA FailureKeeps ==
  ASSUME BreakerInv, RecordFailure, NEW r \in Reqs, pc[r] # "idle",
         NEW next \in {"idle", "raising"}, pc' = [pc EXCEPT ![r] = next]
  PROVE  BreakerInv'
<1>1. failures' \in 0..Threshold /\ failedSince' \in 0..Threshold
  BY BreakerBounds DEF RecordFailure, BreakerInv, BreakerTypeOK
<1>2. CASE OpenCircuit /\ probes' \in 0..MaxProbes
  <2>1. BreakerTypeOK'
    BY <1>1, <1>2, ShortestExists, BreakerAssumption
       DEF OpenCircuit, BreakerInv, BreakerTypeOK, Shortest
  <2>2. QED
    BY <1>2, <2>1, OpenEstablishes DEF BreakerInv
<1>3. CASE /\ state = "open" \/ (state = "closed" /\ failures' < Threshold)
           /\ UNCHANGED <<state, left, rested, probes, probing>>
  <2>1. BreakerTypeOK'
    BY <1>1, <1>3 DEF BreakerInv, BreakerTypeOK, Shortest
  <2>2. probing' = {}
    BY <1>3 DEF BreakerInv, ProbesCounted, ProbesBounded
  <2>3. ProbesCounted'
    BY <2>1, <2>2, FS_EmptySet, BreakerAssumption
       DEF ProbesCounted, ProbesBounded, BreakerTypeOK
  <2>4. ClosedCountIsHonest'
    <3>1. CASE state = "open"
      BY <1>3, <3>1 DEF ClosedCountIsHonest
    <3>2. CASE state = "closed"
      <4>1. failures <= failedSince /\ failures \in Nat /\ failedSince \in Nat
        BY <3>2 DEF BreakerInv, ClosedCountIsHonest, BreakerTypeOK
      <4>2. /\ failures' = UpTo(Threshold, failures + 1)
            /\ failedSince' = UpTo(Threshold, failedSince + 1)
        BY DEF RecordFailure
      <4>3. failures' <= failedSince'
        BY <4>1, <4>2, BreakerBounds DEF UpTo
      <4>4. QED
        BY <1>3, <3>2, <4>3 DEF ClosedCountIsHonest
    <3>3. QED
      BY <1>3, <3>1, <3>2
  <2>5. RestIsKept'
    BY <1>3 DEF BreakerInv, RestIsKept, Shortest
  <2>6. QED
    BY <2>1, <2>3, <2>4, <2>5 DEF BreakerInv
<1>4. QED
  <2>1. 0 \in 0..MaxProbes /\ probes \in 0..MaxProbes
    BY BreakerBounds DEF BreakerInv, BreakerTypeOK
  <2>2. QED
    BY <1>2, <1>3, <2>1 DEF RecordFailure

\* A request ends and nobody hears of it.
LEMMA SilenceKeeps ==
  ASSUME BreakerInv, NEW r \in Reqs, pc' = [pc EXCEPT ![r] = "idle"],
         probing' = probing \ {r},
         UNCHANGED <<state, failures, probes, left, rested, failedSince>>
  PROVE  BreakerInv'
<1>1. BreakerTypeOK'
  BY DEF BreakerInv, BreakerTypeOK, Shortest
<1>2. /\ IsFiniteSet(probing')
      /\ Cardinality(probing') <= Cardinality(probing)
  BY SlotGivenUp DEF BreakerInv, ProbesCounted
<1>3. Cardinality(probing') <= probes'
  <2>1. Cardinality(probing) \in Nat /\ Cardinality(probing') \in Nat
    BY <1>2, FS_CardinalityType DEF BreakerInv, ProbesCounted
  <2>2. Cardinality(probing) <= probes /\ probes \in Nat
    BY DEF BreakerInv, ProbesCounted, ProbesBounded, BreakerTypeOK
  <2>3. QED
    BY <1>2, <2>1, <2>2
<1>4. ProbesCounted'
  BY <1>2, <1>3 DEF BreakerInv, ProbesCounted, ProbesBounded, BreakerTypeOK
<1>5. QED
  BY <1>1, <1>4 DEF BreakerInv, ClosedCountIsHonest, RestIsKept, Shortest

LEMMA EndPreserves ==
  ASSUME NEW r \in Reqs PROVE BreakerInv /\ (Finish(r) \/ Raise(r)) => BreakerInv'
<1> SUFFICES ASSUME BreakerInv, Finish(r) \/ Raise(r) PROVE BreakerInv'
  OBVIOUS
<1>1. pc[r] # "idle"
  BY DEF Finish, Raise
<1>2. ASSUME NEW next \in {"idle", "raising"},
             RecordSuccess, pc' = [pc EXCEPT ![r] = next]
      PROVE  BreakerInv'
  BY <1>1, <1>2, SuccessKeeps
<1>3. ASSUME NEW next \in {"idle", "raising"},
             RecordFailure, pc' = [pc EXCEPT ![r] = next]
      PROVE  BreakerInv'
  BY <1>1, <1>3, FailureKeeps
<1>4. CASE /\ pc' = [pc EXCEPT ![r] = "idle"]
           /\ probing' = probing \ {r}
           /\ UNCHANGED <<state, failures, probes, left, rested, failedSince>>
  BY <1>4, SilenceKeeps
<1>5. QED
  BY <1>2, <1>3, <1>4 DEF Finish, Raise

(* The invariant is inductive. *)
THEOREM BreakerInvariant == BreakerSpec => []BreakerInv
<1>1. BreakerInv /\ [BreakerNext]_breakerVars => BreakerInv'
  <2> SUFFICES ASSUME BreakerInv, [BreakerNext]_breakerVars PROVE BreakerInv'
    OBVIOUS
  <2>1. CASE UNCHANGED breakerVars
    BY <2>1 DEF breakerVars, BreakerInv, BreakerTypeOK, ClosedCountIsHonest,
                ProbesCounted, ProbesBounded, RestIsKept, Shortest
  <2>2. QED
    BY <2>1, BreakerTickPreserves, PollPreserves, ResetPreserves, AllowPreserves,
       EndPreserves DEF BreakerNext
<1>2. QED
  BY <1>1, BreakerStarts, PTL DEF BreakerSpec

-----------------------------------------------------------------------------

(***************************************************************************)
(* ClosedCountIsHonest and ProbesBounded: what a closed circuit counts was *)
(* reported since it closed; what a half-open one lets through has a slot. *)
(***************************************************************************)
THEOREM CountsAreHonest == BreakerSpec => [](ClosedCountIsHonest /\ ProbesBounded)
<1>1. BreakerInv => ClosedCountIsHonest /\ ProbesBounded
  BY DEF BreakerInv, ProbesCounted
<1>2. QED
  BY <1>1, BreakerInvariant, PTL

(***************************************************************************)
(* RestsBeforeProbing: nothing but time brings the deadline nearer.        *)
(***************************************************************************)
THEOREM DeadlineIsKept == BreakerSpec => RestsBeforeProbing
<1>1. BreakerInv /\ [BreakerNext]_breakerVars =>
        (state = "open" /\ state' = "half_open" => rested >= Shortest)
  <2> SUFFICES ASSUME BreakerInv, [BreakerNext]_breakerVars,
                      state = "open", state' = "half_open"
               PROVE  rested >= Shortest
    OBVIOUS
  <2>1. Due
    BY DEF BreakerNext, breakerVars, BreakerTick, Poll, Reset, CloseCircuit,
           Allow, Finish, Raise,
           RecordSuccess, RecordFailure, OpenCircuit
  <2>2. left = 0 /\ rested + left >= Shortest
    BY <2>1 DEF Due, BreakerInv, RestIsKept
  <2>3. rested \in Int /\ Shortest \in Int
    BY ShortestExists DEF BreakerInv, BreakerTypeOK
  <2>4. QED
    BY <2>2, <2>3
<1>2. QED
  BY <1>1, BreakerInvariant, PTL DEF BreakerSpec, RestsBeforeProbing

(***************************************************************************)
(* TripsOnEnoughFailures: as many failures as it takes, all of them        *)
(* reported since the circuit was closed.                                  *)
(***************************************************************************)
THEOREM TripsForAReason == BreakerSpec => TripsOnEnoughFailures
<1>1. BreakerInv /\ [BreakerNext]_breakerVars =>
        (state = "closed" /\ state' = "open" => failedSince' >= Threshold)
  <2> SUFFICES ASSUME BreakerInv, [BreakerNext]_breakerVars,
                      state = "closed", state' = "open"
               PROVE  failedSince' >= Threshold
    OBVIOUS
  <2>1. RecordFailure /\ failures' >= Threshold
    BY DEF BreakerNext, breakerVars, BreakerTick, Poll, Due, Reset, CloseCircuit,
           Allow, Finish, Raise,
           RecordSuccess, RecordFailure
  <2>2. /\ failures' = UpTo(Threshold, failures + 1)
        /\ failedSince' = UpTo(Threshold, failedSince + 1)
    BY <2>1 DEF RecordFailure
  <2>3. failures <= failedSince /\ failures \in Nat /\ failedSince \in Nat
    BY DEF BreakerInv, ClosedCountIsHonest, BreakerTypeOK
  <2>4. QED
    BY <2>1, <2>2, <2>3, BreakerBounds DEF UpTo
<1>2. QED
  BY <1>1, BreakerInvariant, PTL DEF BreakerSpec, TripsOnEnoughFailures

-----------------------------------------------------------------------------
(* The storages: what is kept, for how long.                               *)

\* An entry is there until the time its last writer gave it is over.
LeaseIsHeld ==
  \A k \in Keys : lease[k] > clock => store[k] # Absent /\ store[k].exp >= lease[k]

StorageInv ==
  /\ TypeOK
  /\ backend \in {"memory", "redis", "mongo"}
  /\ LeaseIsHeld

Entries == [value : 1..MaxCount, exp : Nat]

(* Rounding up never takes time away. *)
LEMMA RoundedIsLonger ==
  ASSUME NEW ttl \in TTLs
  PROVE  Rounded(ttl) \in Nat /\ Rounded(ttl) >= ttl
<1>1. ttl \in Nat /\ Second \in Nat \ {0}
  BY ConstantsAssumption, SecondAssumption
<1>2. /\ ttl = Second * (ttl \div Second) + (ttl % Second)
      /\ ttl % Second \in 0..(Second - 1)
      /\ ttl \div Second \in Nat
  BY <1>1
<1>3. Second * (ttl \div Second + 1) = Second * (ttl \div Second) + Second
  BY <1>1, <1>2
<1>4. Second * (ttl \div Second) \in Nat
  BY <1>1, <1>2
<1>5. QED
  BY <1>1, <1>2, <1>3, <1>4 DEF Rounded

(* What an operation writes is an entry, and one that lasts. *)
LEMMA EntryWritten ==
  ASSUME clock \in Nat, NEW v \in 1..MaxCount, NEW t \in Nat \ {0}
  PROVE  /\ Entry(v, clock + t) \in Entries
         /\ Entry(v, clock + t) # Absent
         /\ Entry(v, clock + t).exp = clock + t
         /\ Entry(v, clock + t).value = v
<1>1. Entry(v, clock + t) \in [value : Int, exp : Int]
  BY ConstantsAssumption DEF Entry
<1>2. QED
  BY <1>1, AbsentAssumption, ConstantsAssumption DEF Entry, Entries

\* s is the dictionary, perhaps with some leftovers removed.
Remains(s) ==
  /\ s \in [Keys -> Entries \union {Absent}]
  /\ \A k \in Keys : s[k] = store[k] \/ (Expired(k) /\ s[k] = Absent)

LEMMA StorageRemains ==
  ASSUME StorageInv
  PROVE  Remains(store) /\ Remains(Swept) /\ Remains(Tidied)
<1>1. store \in [Keys -> Entries \union {Absent}]
  BY DEF StorageInv, TypeOK, Entries
<1>2. Remains(store)
  BY <1>1 DEF Remains
<1>3. Remains(Swept)
  BY <1>1 DEF Remains, Swept
<1>4. QED
  BY <1>2, <1>3 DEF Tidied

(* An entry as it was found, with leftovers gone or not. *)
LEMMA EntryFound ==
  ASSUME StorageInv, NEW k \in Keys, store[k] # Absent
  PROVE  /\ store[k] \in Entries
         /\ store[k].value \in 1..MaxCount /\ store[k].exp \in Nat
         /\ store[k] = Entry(store[k].value, store[k].exp)
<1>1. store[k] \in Entries
  BY DEF StorageInv, TypeOK, Entries
<1>2. QED
  BY <1>1 DEF Entries, Entry

(* The step of an operation that writes one entry, or removes it. *)
LEMMA OneKeyWritten ==
  ASSUME StorageInv, NEW k \in Keys, NEW s, Remains(s),
         NEW e \in Entries \union {Absent}, NEW until \in Nat,
         until > clock => e # Absent /\ e.exp >= until,
         Put(s, k, e), Until(k, until),
         UNCHANGED <<clock, backend>>, writes' \in 0..(Interval - 1)
  PROVE  StorageInv'
<1>1. store' \in [Keys -> Entries \union {Absent}]
  BY DEF Put, Remains
<1>2. lease' \in [Keys -> Nat]
  BY DEF Until, StorageInv, TypeOK
<1>3. LeaseIsHeld'
  <2> SUFFICES ASSUME NEW j \in Keys, lease'[j] > clock'
               PROVE  store'[j] # Absent /\ store'[j].exp >= lease'[j]
    BY DEF LeaseIsHeld
  <2>1. CASE j = k
    <3>1. lease'[j] = until /\ store'[j] = e
      BY <2>1 DEF Until, Put, Remains, StorageInv, TypeOK
    <3>2. QED
      BY <3>1
  <2>2. CASE j # k
    <3>1. lease'[j] = lease[j] /\ store'[j] = s[j]
      BY <2>2 DEF Until, Put, Remains, StorageInv, TypeOK
    <3>2. store[j] # Absent /\ store[j].exp >= lease[j]
      BY <3>1 DEF StorageInv, LeaseIsHeld
    <3>3. ~Expired(j)
      <4>1. store[j].exp \in Nat /\ lease[j] \in Nat /\ clock \in Nat
        BY <3>2, EntryFound DEF StorageInv, TypeOK
      <4>2. QED
        BY <3>1, <3>2, <4>1 DEF Expired
    <3>4. QED
      BY <3>1, <3>2, <3>3 DEF Remains
  <2>3. QED
    BY <2>1, <2>2
<1>4. QED
  BY <1>1, <1>2, <1>3 DEF StorageInv, TypeOK, Entries

(* The same with nothing asked for the key. *)
LEMMA OneKeyTidied ==
  ASSUME StorageInv, NEW k \in Keys, NEW s, Remains(s),
         NEW e \in Entries \union {Absent},
         \/ e = store[k]
         \/ Expired(k)
         \/ store[k] # Absent /\ e # Absent /\ e.exp >= store[k].exp,
         Put(s, k, e), UNCHANGED <<clock, backend, lease>>,
         writes' \in 0..(Interval - 1)
  PROVE  StorageInv'
<1> DEFINE until == lease[k]
<1>1. until \in Nat /\ clock \in Nat
  BY DEF StorageInv, TypeOK
<1>2. Until(k, until)
  BY DEF Until, StorageInv, TypeOK
<1>3. ASSUME until > clock PROVE e # Absent /\ e.exp >= until
  <2>1. store[k] # Absent /\ store[k].exp >= until
    BY <1>3 DEF StorageInv, LeaseIsHeld
  <2>2. store[k].exp \in Nat
    BY <2>1, EntryFound
  <2>3. ~Expired(k)
    BY <1>1, <1>3, <2>1, <2>2 DEF Expired
  <2>4. e # Absent /\ (e = store[k] \/ e.exp >= store[k].exp)
    BY <2>1, <2>3
  <2>5. e.exp \in Nat
    BY <2>4 DEF Entries
  <2>6. QED
    BY <1>1, <2>1, <2>2, <2>4, <2>5
<1>4. QED
  BY <1>1, <1>2, <1>3, OneKeyWritten

(* Counting writes, or not. *)
LEMMA WritesCounted ==
  ASSUME StorageInv, CountWrite \/ UNCHANGED writes
  PROVE  writes' \in 0..(Interval - 1)
BY ConstantsAssumption DEF StorageInv, TypeOK, CountWrite, SweepDue

LEMMA StorageStarts == ServerInit => StorageInv
BY ConstantsAssumption
   DEF ServerInit, Init, StorageInv, TypeOK, LeaseIsHeld

LEMMA TimePreserves == StorageInv /\ Tick /\ UNCHANGED backend => StorageInv'
BY ConstantsAssumption DEF StorageInv, TypeOK, LeaseIsHeld, Tick

LEMMA ReadPreserves ==
  ASSUME StorageInv, NEW k \in Keys,
         \/ Get(k) \/ TimeLeft(k) \/ Reap(k)
         \/ UNCHANGED <<clock, store, writes, lease>>,
         UNCHANGED backend
  PROVE  StorageInv'
<1>1. CASE UNCHANGED <<clock, store, writes, lease>>
  BY <1>1 DEF StorageInv, TypeOK, LeaseIsHeld
<1>2. CASE Get(k) \/ Reap(k)
  <2> DEFINE e == IF Expired(k) THEN Absent ELSE store[k]
  <2>1. Put(store, k, e)
    BY <1>2 DEF Get, Reap
  <2>2. e \in Entries \union {Absent}
    BY DEF StorageInv, TypeOK, Entries
  <2>3. e = store[k] \/ Expired(k)
    OBVIOUS
  <2>4. UNCHANGED <<clock, backend, lease>> /\ writes' \in 0..(Interval - 1)
    BY <1>2, WritesCounted DEF Get, Reap
  <2> HIDE DEF e
  <2>5. QED
    BY <2>1, <2>2, <2>3, <2>4, StorageRemains, OneKeyTidied
<1>3. QED
  BY <1>1, <1>2 DEF TimeLeft

LEMMA RemovalPreserves ==
  ASSUME StorageInv, UNCHANGED backend,
         Close \/ Length \/ \E k \in Keys : Delete(k)
  PROVE  StorageInv'
<1>0. clock \in Nat
  BY ConstantsAssumption DEF StorageInv, TypeOK
<1>1. CASE Close
  BY <1>0, <1>1 DEF Close, StorageInv, TypeOK, LeaseIsHeld
<1>2. CASE Length
  <2>1. store' \in [Keys -> Entries \union {Absent}]
    BY <1>2, StorageRemains DEF Length, Remains
  <2>2. LeaseIsHeld'
    <3> SUFFICES ASSUME NEW k \in Keys, lease[k] > clock
                 PROVE  store'[k] # Absent /\ store'[k].exp >= lease[k]
      BY <1>2 DEF LeaseIsHeld, Length
    <3>1. store[k] # Absent /\ store[k].exp >= lease[k]
      BY DEF StorageInv, LeaseIsHeld
    <3>2. store[k].exp \in Nat /\ lease[k] \in Nat
      BY <3>1, EntryFound DEF StorageInv, TypeOK
    <3>3. store'[k] = store[k]
      BY <1>0, <1>2, <3>1, <3>2 DEF Length, Swept, Expired
    <3>4. QED
      BY <3>1, <3>3
  <2>3. QED
    BY <1>2, <2>1, <2>2 DEF Length, StorageInv, TypeOK, Entries
<1>3. ASSUME NEW k \in Keys, Delete(k) PROVE StorageInv'
  <2>1. /\ Put(store, k, Absent) /\ Until(k, 0) /\ UNCHANGED <<clock, backend>>
        /\ writes' \in 0..(Interval - 1)
    BY <1>3, WritesCounted DEF Delete
  <2>2. ~(0 > clock)
    BY <1>0
  <2>3. QED
    BY <2>1, <2>2, StorageRemains, OneKeyWritten
<1>4. QED
  BY <1>1, <1>2, <1>3

(* A write with a time to live, which the storage may have rounded. *)
LEMMA FreshWrite ==
  ASSUME StorageInv, NEW k \in Keys, NEW s, Remains(s),
         NEW v \in 1..MaxCount, NEW ttl \in Nat, NEW t \in Nat \ {0}, t >= ttl,
         Put(s, k, Entry(v, clock + t)), Until(k, clock + ttl),
         UNCHANGED <<clock, backend>>, CountWrite \/ UNCHANGED writes
  PROVE  StorageInv'
<1>1. clock \in Nat
  BY ConstantsAssumption DEF StorageInv, TypeOK
<1> DEFINE e == Entry(v, clock + t)
           until == clock + ttl
<1>2. e \in Entries \union {Absent} /\ e # Absent /\ e.exp = clock + t
  BY <1>1, EntryWritten
<1>3. until \in Nat /\ e.exp >= until
  BY <1>1, <1>2
<1>4. Put(s, k, e) /\ Until(k, until)
  OBVIOUS
<1> HIDE DEF e, until
<1>5. QED
  BY <1>2, <1>3, <1>4, OneKeyWritten, WritesCounted

(* A counter that goes up and keeps its expiry. *)
LEMMA CounterRaised ==
  ASSUME StorageInv, NEW k \in Keys, NEW s, Remains(s), store[k] # Absent,
         NEW amount \in Values, store[k].value + amount <= MaxCount,
         Put(s, k, Entry(store[k].value + amount, store[k].exp)),
         UNCHANGED <<clock, backend>>, lease' = lease,
         CountWrite \/ UNCHANGED writes
  PROVE  StorageInv'
<1> DEFINE e == Entry(store[k].value + amount, store[k].exp)
<1>1. store[k].value \in 1..MaxCount /\ store[k].exp \in Nat /\ amount \in 1..MaxCount
  BY EntryFound, ConstantsAssumption
<1>2. store[k].value + amount \in 1..MaxCount
  BY <1>1, ConstantsAssumption
<1>3. e \in Entries /\ e.exp = store[k].exp
  BY <1>1, <1>2 DEF Entries, Entry
<1>4. e # Absent
  BY <1>3, AbsentAssumption, ConstantsAssumption DEF Entries
<1>5. e.exp >= store[k].exp
  BY <1>1, <1>3
<1>6. Put(s, k, e)
  OBVIOUS
<1> HIDE DEF e
<1>7. QED
  BY <1>3, <1>4, <1>5, <1>6, OneKeyTidied, WritesCounted

LEMMA MemoryWritePreserves ==
  ASSUME StorageInv, UNCHANGED backend,
         NEW k \in Keys, NEW ttl \in TTLs, NEW v \in Values, NEW x,
         Increment(k, v, ttl) \/ Set(k, v, ttl) \/ Swap(k, x, v, ttl)
  PROVE  StorageInv'
<1>0. /\ clock \in Nat /\ ttl \in Nat \ {0} /\ v \in 1..MaxCount
      /\ Remains(store) /\ Remains(Tidied)
  BY ConstantsAssumption, StorageRemains DEF StorageInv, TypeOK
<1>1. CASE Set(k, v, ttl)
  BY <1>0, <1>1, FreshWrite DEF Set
<1>2. CASE Swap(k, x, v, ttl)
  <2>1. CASE Put(store, k, Entry(v, clock + ttl)) /\ Until(k, clock + ttl)
    BY <1>0, <1>2, <2>1, FreshWrite DEF Swap
  <2>2. CASE Put(store, k, IF Expired(k) THEN Absent ELSE store[k]) /\ UNCHANGED lease
    <3> DEFINE e == IF Expired(k) THEN Absent ELSE store[k]
    <3>1. e \in Entries \union {Absent} /\ (e = store[k] \/ Expired(k))
      BY <1>0 DEF Remains
    <3>2. Put(store, k, e) /\ UNCHANGED <<clock, backend, lease, writes>>
      BY <1>2, <2>2 DEF Swap
    <3> HIDE DEF e
    <3>3. QED
      BY <1>0, <3>1, <3>2, OneKeyTidied, WritesCounted
  <2>3. QED
    BY <1>2, <2>1, <2>2 DEF Swap
<1>3. CASE Increment(k, v, ttl)
  <2>1. CASE Live(k)
    <3>1. /\ store[k] # Absent /\ store[k].value + v <= MaxCount
          /\ Put(Tidied, k, Entry(store[k].value + v, store[k].exp))
          /\ UNCHANGED <<clock, backend>> /\ lease' = lease /\ CountWrite
      BY <1>3, <2>1 DEF Increment, Live
    <3>2. QED
      BY <1>0, <3>1, CounterRaised
  <2>2. CASE ~Live(k)
    <3>1. /\ Put(Tidied, k, Entry(v, clock + ttl)) /\ Until(k, clock + ttl)
          /\ UNCHANGED <<clock, backend>> /\ CountWrite
      BY <1>3, <2>2 DEF Increment
    <3>2. QED
      BY <1>0, <3>1, FreshWrite
  <2>3. QED
    BY <2>1, <2>2
<1>4. QED
  BY <1>1, <1>2, <1>3

LEMMA ExpirePreserves ==
  ASSUME StorageInv, UNCHANGED backend,
         NEW k \in Keys, NEW ttl \in TTLs, Expire(k, ttl)
  PROVE  StorageInv'
<1>0. clock \in Nat /\ ttl \in Nat \ {0} /\ Remains(store)
  BY ConstantsAssumption, StorageRemains DEF StorageInv, TypeOK
<1>1. CASE store[k] = Absent
  <2>1. UNCHANGED <<clock, store, writes, lease>>
    BY <1>1 DEF Expire, Live
  <2>2. QED
    BY <2>1, ReadPreserves
<1>2. CASE store[k] # Absent
  <2>1. store[k].value \in 1..MaxCount /\ store[k].exp \in Nat
    BY <1>2, EntryFound
  <2>2. CASE Live(k)
    BY <1>0, <1>2, <2>1, <2>2, FreshWrite DEF Expire
  <2>3. CASE ~Live(k)
    <3> DEFINE e == Entry(store[k].value, clock + ttl)
    <3>1. e \in Entries \union {Absent} /\ Expired(k)
      BY <1>0, <1>2, <2>1, <2>3, EntryWritten DEF Live, Expired
    <3>2. Put(store, k, e) /\ UNCHANGED <<clock, backend, lease, writes>>
      BY <1>2, <2>3 DEF Expire
    <3> HIDE DEF e
    <3>3. QED
      BY <1>0, <3>1, <3>2, OneKeyTidied, WritesCounted
  <2>4. QED
    BY <2>2, <2>3
<1>3. QED
  BY <1>1, <1>2

(* A write on a server. *)
LEMMA KeepPreserves ==
  ASSUME StorageInv, UNCHANGED backend, NEW k \in Keys, NEW v \in 1..MaxCount,
         NEW ttl \in TTLs, Keep(k, v, ttl)
  PROVE  StorageInv'
<1>1. ttl \in Nat \ {0} /\ Rounded(ttl) \in Nat \ {0} /\ Rounded(ttl) >= ttl
  BY ConstantsAssumption, RoundedIsLonger
<1>2. /\ Put(store, k, Entry(v, clock + Rounded(ttl)))
      /\ Until(k, clock + ttl) /\ UNCHANGED <<clock, backend, writes>>
  BY DEF Keep, Write
<1> HIDE DEF Rounded
<1>3. QED
  BY <1>1, <1>2, StorageRemains, FreshWrite

LEMMA RedisPreserves ==
  ASSUME StorageInv, UNCHANGED backend,
         NEW k \in Keys, NEW ttl \in TTLs, NEW v \in Values, NEW x,
         \/ RedisIncrement(k, v, ttl) \/ RedisSet(k, v, ttl)
         \/ RedisExpire(k, ttl) \/ RedisSwap(k, x, v, ttl)
  PROVE  StorageInv'
<1>0. v \in 1..MaxCount /\ MaxCount \in Nat
  BY ConstantsAssumption
<1>1. NoWrite => StorageInv'
  BY ReadPreserves DEF NoWrite
<1>2. CASE RedisIncrement(k, v, ttl)
  <2> DEFINE count == (IF Live(k) THEN store[k].value ELSE 0) + v
  <2>1. count \in 1..MaxCount
    <3>1. Live(k) => store[k].value \in 1..MaxCount
      BY EntryFound DEF Live
    <3>2. count <= MaxCount
      BY <1>2 DEF RedisIncrement
    <3>3. QED
      BY <1>0, <3>1, <3>2
  <2>2. Keep(k, count, ttl)
    BY <1>2 DEF RedisIncrement
  <2> HIDE DEF count
  <2>3. QED
    BY <2>1, <2>2, KeepPreserves
<1>3. CASE RedisSet(k, v, ttl)
  BY <1>0, <1>3, KeepPreserves DEF RedisSet
<1>4. CASE RedisExpire(k, ttl)
  <2>1. Live(k) => store[k].value \in 1..MaxCount
    BY EntryFound DEF Live
  <2>2. QED
    BY <1>1, <1>4, <2>1, KeepPreserves DEF RedisExpire
<1>5. CASE RedisSwap(k, x, v, ttl)
  BY <1>0, <1>1, <1>5, KeepPreserves DEF RedisSwap
<1>6. QED
  BY <1>2, <1>3, <1>4, <1>5

LEMMA MongoPreserves ==
  ASSUME StorageInv, UNCHANGED backend,
         NEW k \in Keys, NEW ttl \in TTLs, NEW v \in Values, NEW x,
         \/ MongoIncrement(k, v, ttl) \/ MongoSet(k, v, ttl)
         \/ MongoExpire(k, ttl) \/ MongoSwap(k, x, v, ttl)
  PROVE  StorageInv'
<1>0. /\ v \in 1..MaxCount /\ ttl \in Nat \ {0} /\ Remains(store)
      /\ lease \in [Keys -> Nat]
  BY ConstantsAssumption, StorageRemains DEF StorageInv, TypeOK
<1>1. NoWrite => StorageInv'
  BY ReadPreserves DEF NoWrite
<1>2. ASSUME NEW w \in 1..MaxCount,
             Write(k, Entry(w, clock + ttl), clock + ttl)
      PROVE  StorageInv'
  <2>1. /\ Put(store, k, Entry(w, clock + ttl)) /\ Until(k, clock + ttl)
        /\ UNCHANGED <<clock, backend, writes>>
    BY <1>2 DEF Write
  <2>2. QED
    BY <1>0, <2>1, FreshWrite
<1>3. CASE MongoIncrement(k, v, ttl)
  <2>1. CASE Live(k) /\ store[k] # Absent
    <3>1. /\ store[k].value + v <= MaxCount
          /\ Put(store, k, Entry(store[k].value + v, store[k].exp))
          /\ Until(k, lease[k]) /\ UNCHANGED <<clock, backend, writes>>
      BY <1>3, <2>1 DEF MongoIncrement, Write, Expired, Live, StorageInv, TypeOK
    <3>2. lease' = lease
      BY <1>0, <3>1 DEF Until
    <3>3. QED
      BY <1>0, <2>1, <3>1, <3>2, CounterRaised
  <2>2. QED
    BY <1>0, <1>1, <1>2, <1>3, <2>1 DEF MongoIncrement, Live
<1>4. CASE MongoSet(k, v, ttl)
  BY <1>0, <1>2, <1>4 DEF MongoSet
<1>5. CASE MongoExpire(k, ttl)
  <2>1. store[k] # Absent => store[k].value \in 1..MaxCount
    BY EntryFound
  <2>2. QED
    BY <1>1, <1>2, <1>5, <2>1 DEF MongoExpire
<1>6. CASE MongoSwap(k, x, v, ttl)
  BY <1>0, <1>1, <1>2, <1>6 DEF MongoSwap
<1>7. QED
  BY <1>3, <1>4, <1>5, <1>6

(* Whatever the backend, the invariant is inductive. *)
THEOREM StorageInvariant == ServerSpec => []StorageInv
<1>1. StorageInv /\ [ServerNext]_serverVars => StorageInv'
  <2> SUFFICES ASSUME StorageInv, [ServerNext]_serverVars PROVE StorageInv'
    OBVIOUS
  <2>1. CASE UNCHANGED serverVars
    BY <2>1 DEF serverVars, vars, StorageInv, TypeOK, LeaseIsHeld
  <2>2. CASE Next /\ UNCHANGED backend
    <3>1. ASSUME NEW k \in Keys, Get(k) \/ Delete(k) \/ TimeLeft(k)
          PROVE  StorageInv'
      BY <2>2, <3>1, ReadPreserves, RemovalPreserves
    <3>2. ASSUME NEW k \in Keys, NEW ttl \in TTLs, NEW v \in Values, NEW x,
                 Increment(k, v, ttl) \/ Set(k, v, ttl) \/ Swap(k, x, v, ttl)
          PROVE  StorageInv'
      BY <2>2, <3>2, MemoryWritePreserves
    <3>3. ASSUME NEW k \in Keys, NEW ttl \in TTLs, Expire(k, ttl)
          PROVE  StorageInv'
      BY <2>2, <3>3, ExpirePreserves
    <3>4. QED
      BY <2>2, <3>1, <3>2, <3>3, TimePreserves, RemovalPreserves DEF Next
  <2>3. CASE ServerNext /\ ~Next
    <3>1. UNCHANGED backend
      BY <2>3 DEF ServerNext
    <3>2. ASSUME NEW k \in Keys, Read(k) \/ RedisTTL(k) \/ MongoTTL(k)
          PROVE  StorageInv'
      BY <3>1, <3>2, ReadPreserves DEF Read, RedisTTL, MongoTTL, NoWrite
    <3>3. QED
      BY <2>3, <3>1, <3>2, TimePreserves, ReadPreserves, RemovalPreserves,
         RedisPreserves, MongoPreserves DEF ServerNext
  <2>4. QED
    BY <2>1, <2>2, <2>3 DEF ServerNext
<1>2. QED
  BY <1>1, StorageStarts, PTL DEF ServerSpec

(***************************************************************************)
(* KeptForItsTime: no sweep, no read that tidies up, no rounding and no    *)
(* operation on another key takes an entry away before its time is over.   *)
(***************************************************************************)
THEOREM EntriesAreKept == ServerSpec => []KeptForItsTime
<1>1. StorageInv => KeptForItsTime
  <2> SUFFICES ASSUME StorageInv, NEW k \in Keys, lease[k] > clock PROVE Live(k)
    BY DEF KeptForItsTime
  <2>1. store[k] # Absent /\ store[k].exp >= lease[k]
    BY DEF StorageInv, LeaseIsHeld
  <2>2. store[k].exp \in Nat /\ lease[k] \in Nat /\ clock \in Nat
    BY <2>1, EntryFound DEF StorageInv, TypeOK
  <2>3. QED
    BY <2>1, <2>2 DEF Live
<1>2. QED
  BY <1>1, StorageInvariant, PTL

-----------------------------------------------------------------------------
(* The storages: the map they implement.                                   *)

(* What the contract makes of the entry of a key. *)
LEMMA SeenOf ==
  ASSUME NEW k \in Keys
  PROVE  /\ LiveEntries[k] = IF Live(k) THEN store[k] ELSE Absent
         /\ LiveEntries[k] = Absent <=> ~Live(k)
         /\ InTime!Found(k) = Found(k)
BY DEF LiveEntries, Live, InTime!Found, Found

(* Writing an entry that lasts, or removing one, is seen as just that. *)
LEMMA PutIsSeen ==
  ASSUME StorageInv, NEW k \in Keys, NEW s, Remains(s),
         NEW e \in Entries \union {Absent}, e # Absent => e.exp > clock,
         Put(s, k, e), UNCHANGED clock
  PROVE  InTime!Put(k, e)
<1>1. store' = [s EXCEPT ![k] = e] /\ s \in [Keys -> Entries \union {Absent}]
  BY DEF Put, Remains
<1>2. ASSUME NEW j \in Keys
      PROVE  (IF Live(j)' THEN store'[j] ELSE Absent)
               = IF j = k THEN e ELSE IF Live(j) THEN store[j] ELSE Absent
  <2>1. CASE j = k
    BY <1>1, <2>1 DEF Live
  <2>2. CASE j # k
    <3>1. store'[j] = s[j] /\ (s[j] = store[j] \/ (Expired(j) /\ s[j] = Absent))
      BY <1>1, <2>2 DEF Remains
    <3>2. Expired(j) => ~Live(j)
      <4>1. clock \in Nat
        BY ConstantsAssumption DEF StorageInv, TypeOK
      <4>2. store[j] # Absent => store[j].exp \in Nat
        BY EntryFound
      <4>3. QED
        BY <4>1, <4>2 DEF Expired, Live
    <3>3. QED
      BY <2>2, <3>1, <3>2 DEF Live
  <2>3. QED
    BY <2>1, <2>2
<1>3. LiveEntries' = [j \in Keys |-> IF Live(j)' THEN store'[j] ELSE Absent]
  BY DEF LiveEntries
<1>4. [LiveEntries EXCEPT ![k] = e]
        = [j \in Keys |-> IF j = k THEN e ELSE IF Live(j) THEN store[j] ELSE Absent]
  BY DEF LiveEntries
<1>5. QED
  BY <1>2, <1>3, <1>4 DEF InTime!Put

(* Tidying up is not seen. *)
LEMMA TidyingIsNotSeen ==
  ASSUME StorageInv, UNCHANGED clock,
         \A j \in Keys : store'[j] = store[j] \/ (Expired(j) /\ store'[j] = Absent)
  PROVE  LiveEntries' = LiveEntries
<1>1. ASSUME NEW j \in Keys
      PROVE  (IF Live(j)' THEN store'[j] ELSE Absent)
               = IF Live(j) THEN store[j] ELSE Absent
  <2>1. clock \in Nat /\ (store[j] # Absent => store[j].exp \in Nat)
    BY ConstantsAssumption, EntryFound DEF StorageInv, TypeOK
  <2>2. Expired(j) => ~Live(j)
    BY <2>1 DEF Expired, Live
  <2>3. QED
    BY <2>2 DEF Live
<1>2. QED
  BY <1>1 DEF LiveEntries

LEMMA TimeIsSeen == StorageInv /\ Tick => InTime!Tick
<1> SUFFICES ASSUME StorageInv, Tick PROVE InTime!Tick
  OBVIOUS
<1>1. clock \in Nat /\ clock' = clock + 1 /\ store' = store /\ answer' = answer
  BY ConstantsAssumption DEF StorageInv, TypeOK, Tick
<1>2. ASSUME NEW j \in Keys
      PROVE  (IF Live(j)' THEN store'[j] ELSE Absent)
               = IF LiveEntries[j] # Absent /\ LiveEntries[j].exp = clock + 1
                 THEN Absent ELSE LiveEntries[j]
  <2>1. store[j] # Absent => store[j].exp \in Nat
    BY EntryFound
  <2>2. LiveEntries[j] = IF Live(j) THEN store[j] ELSE Absent
    BY SeenOf
  <2>3. QED
    BY <1>1, <2>1, <2>2 DEF Live
<1>3. LiveEntries' = [j \in Keys |-> IF Live(j)' THEN store'[j] ELSE Absent]
  BY DEF LiveEntries
<1>4. QED
  BY <1>1, <1>2, <1>3 DEF InTime!Tick

(* What is kept for the time asked for, or for Redis' rounding of it, is    *)
(* kept for a time the contract allows.                                    *)
LEMMA KeptAsAsked ==
  ASSUME NEW ttl \in TTLs
  PROVE  /\ ttl \in InTime!Kept(ttl)
         /\ backend = "redis" => Rounded(ttl) \in InTime!Kept(ttl)
<1>1. ttl \in Nat /\ Second \in Nat \ {0}
  BY ConstantsAssumption, SecondAssumption
<1>2. /\ ttl = Second * (ttl \div Second) + (ttl % Second)
      /\ ttl % Second \in 0..(Second - 1)
      /\ ttl \div Second \in Nat
  BY <1>1
<1>3. Rounded(ttl) = Second * (ttl \div Second) + Second
  BY <1>1, <1>2 DEF Rounded
<1>4. Second * (ttl \div Second) \in Nat
  BY <1>1, <1>2
<1>5. Rounded(ttl) \in ttl..(ttl + Second)
  BY <1>1, <1>2, <1>3, <1>4
<1>6. QED
  BY <1>1, <1>5 DEF InTime!Kept

(* What a division leaves. *)
LEMMA DivisionLeaves ==
  ASSUME NEW m \in Nat \ {0}, NEW a \in Nat
  PROVE  \E d \in Int, e \in 0..(m - 1) : a \div m = d /\ a % m = e /\ a = m * d + e
OBVIOUS

(* The nearest second is at most half a second off. *)
LEMMA SaidToTheSecond ==
  ASSUME NEW span \in Nat
  PROVE  /\ span \in InTime!About(span)
         /\ backend = "redis" => Nearest(span) \in InTime!About(span)
<1> DEFINE q == (2 * span + Second) \div (2 * Second)
           r == (2 * span + Second) % (2 * Second)
<1>1. Second \in Nat \ {0}
  BY SecondAssumption
<1>2. 2 * span + Second \in Nat /\ 2 * Second \in Nat \ {0}
  BY <1>1
<1>3. /\ 2 * span + Second = (2 * Second) * q + r
      /\ r \in 0..(2 * Second - 1) /\ q \in Nat
  <2>1. \E d \in Int, e \in 0..(2 * Second - 1) :
          q = d /\ r = e /\ 2 * span + Second = (2 * Second) * d + e
    BY <1>2, DivisionLeaves
  <2> HIDE DEF q, r
  <2>2. r \in 0..(2 * Second - 1) /\ q \in Int /\ 2 * span + Second = (2 * Second) * q + r
    BY <2>1
  <2>3. ~(q <= -1)
    <3> SUFFICES ASSUME q <= -1 PROVE FALSE
      OBVIOUS
    <3>1. (2 * Second) * q <= -(2 * Second)
      BY <1>1, <2>2
    <3>2. QED
      BY <1>1, <2>2, <3>1
  <2>4. QED
    BY <2>2, <2>3
<1>4. Nearest(span) = Second * q
  BY DEF Nearest
<1> HIDE DEF q, r
<1>5. (2 * Second) * q = 2 * (Second * q) /\ Second * q \in Nat
  BY <1>1, <1>3
<1>6. 2 * (Nearest(span) - span) \in -Second..Second /\ Nearest(span) \in Nat
  <2> DEFINE n == Second * q
             double == (2 * Second) * q
  <2>1. /\ 2 * span + Second = double + r /\ double = 2 * n
        /\ r \in 0..(2 * Second - 1) /\ n \in Nat /\ Nearest(span) = n
    BY <1>3, <1>4, <1>5
  <2> HIDE DEF n, double
  <2>2. r \in Nat /\ 2 * (n - span) = Second - r
    BY <1>1, <2>1
  <2>3. QED
    BY <1>1, <2>1, <2>2
<1>7. Nearest(span) \in 0..(span + Second)
  BY <1>1, <1>6
<1>8. 2 * (span - span) = 0 /\ span \in 0..(span + Second) /\ span \in 0..(span + 0)
      /\ 0 \in -Second..Second /\ 0 \in -0..0
  BY <1>1
<1>9. CASE backend = "redis"
  BY <1>6, <1>7, <1>8, <1>9 DEF InTime!About
<1>10. CASE backend # "redis"
  BY <1>8, <1>10 DEF InTime!About
<1>11. QED
  BY <1>9, <1>10

(* What has just been asked for is a whole number of seconds. *)
LEMMA FreshIsSaidExactly ==
  ASSUME NEW ttl \in TTLs
  PROVE  Nearest(Rounded(ttl)) = Rounded(ttl)
<1> DEFINE q == ttl \div Second + 1
           n == 2 * Rounded(ttl) + Second
           d == n \div (2 * Second)
<1>1. ttl \in Nat /\ Second \in Nat \ {0}
  BY ConstantsAssumption, SecondAssumption
<1>2. q \in Nat /\ Rounded(ttl) = Second * q
  BY <1>1 DEF Rounded
<1>3. n \in Nat /\ 2 * Second \in Nat \ {0} /\ n = (2 * Second) * q + Second
  BY <1>1, <1>2
<1> HIDE DEF q, n
<1>4. d = q
  <2>1. /\ n = (2 * Second) * d + (n % (2 * Second))
        /\ n % (2 * Second) \in 0..(2 * Second - 1) /\ d \in Nat
    BY <1>3
  <2> HIDE DEF d
  <2>2. CASE d >= q + 1
    <3>1. (2 * Second) * d >= (2 * Second) * (q + 1)
      BY <1>1, <1>2, <2>1, <2>2
    <3>2. (2 * Second) * (q + 1) = (2 * Second) * q + 2 * Second
      BY <1>1, <1>2
    <3>3. (2 * Second) * d \in Nat /\ (2 * Second) * q \in Nat
      BY <1>1, <1>2, <2>1
    <3> DEFINE sd == (2 * Second) * d
               sq == (2 * Second) * q
               sq1 == (2 * Second) * (q + 1)
    <3>4. /\ sd >= sq1 /\ sq1 = sq + 2 * Second /\ sd \in Nat /\ sq \in Nat
          /\ n = sd + (n % (2 * Second)) /\ n = sq + Second
      BY <1>3, <2>1, <3>1, <3>2, <3>3
    <3> HIDE DEF sd, sq, sq1
    <3>5. QED
      BY <1>1, <2>1, <3>4
  <2>3. CASE d + 1 <= q
    <3>1. (2 * Second) * (d + 1) <= (2 * Second) * q
      BY <1>1, <1>2, <2>1, <2>3
    <3>2. (2 * Second) * (d + 1) = (2 * Second) * d + 2 * Second
      BY <1>1, <2>1
    <3>3. (2 * Second) * d \in Nat /\ (2 * Second) * q \in Nat
      BY <1>1, <1>2, <2>1
    <3> DEFINE sd == (2 * Second) * d
               sq == (2 * Second) * q
               sd1 == (2 * Second) * (d + 1)
    <3>4. /\ sd1 <= sq /\ sd1 = sd + 2 * Second /\ sd \in Nat /\ sq \in Nat
          /\ n = sd + (n % (2 * Second)) /\ n = sq + Second
      BY <1>3, <2>1, <3>1, <3>2, <3>3
    <3> HIDE DEF sd, sq, sd1
    <3>5. QED
      BY <1>1, <2>1, <3>4
  <2>4. QED
    BY <1>2, <2>1, <2>2, <2>3
<1>5. QED
  BY <1>2, <1>4 DEF Nearest, n

LEMMA OperationIsAStep ==
  ASSUME NEW k \in Keys, NEW ttl \in TTLs, NEW v \in Values,
         NEW x \in 1..MaxCount \union {Absent}, UNCHANGED backend,
         \/ InTime!Expire(k, ttl) \/ InTime!Increment(k, v, ttl)
         \/ InTime!Set(k, v, ttl) \/ InTime!Swap(k, x, v, ttl)
  PROVE  InTime!Next
BY DEF InTime!Next

(* Writing v for a time. *)
LEMMA WriteIsSeen ==
  ASSUME StorageInv, NEW k \in Keys, NEW s, Remains(s),
         NEW v \in 1..MaxCount, NEW t \in Nat \ {0},
         Put(s, k, Entry(v, clock + t)), UNCHANGED clock
  PROVE  InTime!Put(k, InTime!Entry(v, clock + t))
<1> DEFINE e == Entry(v, clock + t)
<1>1. clock \in Nat
  BY ConstantsAssumption DEF StorageInv, TypeOK
<1>2. e \in Entries \union {Absent} /\ e.exp > clock
  BY <1>1, EntryWritten
<1>3. e = InTime!Entry(v, clock + t) /\ Put(s, k, e)
  BY DEF Entry, InTime!Entry
<1> HIDE DEF e
<1>4. QED
  BY <1>2, <1>3, PutIsSeen

(* A counter that starts, and is kept for t when ttl was asked for. *)
LEMMA StartIsSeen ==
  ASSUME StorageInv, NEW k \in Keys, NEW s, Remains(s), ~Live(k),
         NEW amount \in Values, NEW ttl \in TTLs,
         NEW t \in Nat \ {0}, t \in InTime!Kept(ttl),
         Put(s, k, Entry(amount, clock + t)), UNCHANGED clock
  PROVE  LET e == InTime!Entry(amount, clock + t) IN
         /\ e \in InTime!Incremented(k, amount, ttl) /\ InTime!Put(k, e)
         /\ e.value = amount /\ e.exp - clock = t /\ amount <= MaxCount
<1> DEFINE e == InTime!Entry(amount, clock + t)
<1>1. amount \in 1..MaxCount /\ clock \in Nat
  BY ConstantsAssumption DEF StorageInv, TypeOK
<1>2. InTime!Put(k, e)
  BY <1>1, WriteIsSeen
<1>3. e \in InTime!Incremented(k, amount, ttl)
  BY SeenOf DEF InTime!Incremented
<1>4. e.value = amount /\ e.exp - clock = t
  BY <1>1 DEF InTime!Entry
<1>5. QED
  BY <1>1, <1>2, <1>3, <1>4, ConstantsAssumption

(* A counter that goes up and keeps its expiry. *)
LEMMA CountIsSeen ==
  ASSUME StorageInv, NEW k \in Keys, NEW s, Remains(s), Live(k),
         NEW amount \in Values, store[k].value + amount <= MaxCount,
         Put(s, k, Entry(store[k].value + amount, store[k].exp)),
         UNCHANGED clock, NEW ttl
  PROVE  LET e == InTime!Entry(store[k].value + amount, store[k].exp) IN
         /\ e \in InTime!Incremented(k, amount, ttl) /\ InTime!Put(k, e)
         /\ e.value = store[k].value + amount /\ e.exp = store[k].exp
<1> DEFINE e == InTime!Entry(store[k].value + amount, store[k].exp)
<1>1. /\ store[k] # Absent /\ store[k].exp > clock
      /\ LiveEntries[k] = store[k] /\ LiveEntries[k] # Absent
  BY SeenOf DEF Live
<1>2. store[k].value \in 1..MaxCount /\ store[k].exp \in Nat /\ amount \in 1..MaxCount
  BY <1>1, EntryFound, ConstantsAssumption
<1>3. e \in Entries /\ e.exp = store[k].exp /\ e.value = store[k].value + amount
  BY <1>2, ConstantsAssumption DEF Entries, InTime!Entry
<1>4. e \in InTime!Incremented(k, amount, ttl)
  BY <1>1 DEF InTime!Incremented
<1>5. Put(s, k, e)
  BY DEF Entry, InTime!Entry
<1> HIDE DEF e
<1>6. InTime!Put(k, e)
  BY <1>1, <1>3, <1>5, PutIsSeen
<1>7. QED
  BY <1>3, <1>4, <1>6 DEF e

(* Counting is seen when the entry is, and the answer is either method's. *)
LEMMA AnswerIsSeen ==
  ASSUME NEW k \in Keys, NEW amount \in Values, NEW ttl \in TTLs,
         NEW e \in InTime!Incremented(k, amount, ttl), e.value <= MaxCount,
         InTime!Put(k, e), UNCHANGED clock,
         \/ Counted(k, amount, ttl, e.value, e.exp - clock)
         \/ Returns("incr", k, <<amount, ttl>>, e.value)
  PROVE  InTime!Increment(k, amount, ttl)
BY DEF InTime!Increment, InTime!Counted, InTime!Returns, Counted, Returns

\* An operation that writes nothing.
LEMMA NoWriteIsSeen ==
  ASSUME StorageInv, NoWrite
  PROVE  clock' = clock /\ UNCHANGED LiveEntries
<1>1. UNCHANGED <<clock, store>>
  BY DEF NoWrite
<1>2. QED
  BY <1>1, TidyingIsNotSeen

(* Reading and removing, in memory and on a server. *)
LEMMA ReadsAreSeen ==
  ASSUME StorageInv, UNCHANGED backend, NEW k \in Keys,
         Get(k) \/ Read(k) \/ Delete(k)
  PROVE  InTime!Next
<1>1. clock \in Nat /\ Remains(store)
  BY ConstantsAssumption, StorageRemains DEF StorageInv, TypeOK
<1>2. CASE Get(k) \/ Read(k)
  <2>1. UNCHANGED clock /\ Returns("get", k, <<>>, Found(k))
    BY <1>2 DEF Get, Read, NoWrite
  <2>2. \A j \in Keys : store'[j] = store[j] \/ (Expired(j) /\ store'[j] = Absent)
    BY <1>1, <1>2 DEF Get, Read, NoWrite, Put, Remains
  <2>3. InTime!Get(k)
    BY <2>1, <2>2, TidyingIsNotSeen, SeenOf DEF InTime!Get, InTime!Returns, Returns
  <2>4. QED
    BY <2>3 DEF InTime!Next
<1>3. CASE Delete(k)
  <2>1. InTime!Put(k, Absent)
    BY <1>1, <1>3, PutIsSeen DEF Delete
  <2>2. InTime!Delete(k)
    BY <1>3, <2>1 DEF InTime!Delete, Delete, InTime!Returns, Returns
  <2>3. QED
    BY <2>2 DEF InTime!Next
<1>4. QED
  BY <1>2, <1>3

LEMMA MemoryIsSeen ==
  ASSUME StorageInv, backend = "memory", UNCHANGED backend, Next
  PROVE  InTime!Next \/ Departure
<1>0. /\ clock \in Nat /\ Remains(store) /\ Remains(Tidied)
      /\ \A ttl \in TTLs : ttl \in Nat \ {0}
      /\ \A v \in Values : v \in 1..MaxCount
  BY ConstantsAssumption, StorageRemains DEF StorageInv, TypeOK
<1>1. CASE Tick
  BY <1>1, TimeIsSeen DEF InTime!Next
<1>2. CASE Close
  <2>1. LiveEntries' = [k \in Keys |-> Absent]
    BY <1>2 DEF Close, LiveEntries, Live
  <2>2. QED
    BY <1>2, <2>1 DEF Close, InTime!Clear, InTime!Next
<1>3. CASE Length
  <2>1. \A j \in Keys : Swept[j] = store[j] \/ (Expired(j) /\ Swept[j] = Absent)
    BY StorageRemains DEF Remains
  <2>2. UNCHANGED LiveEntries
    BY <1>3, <2>1, TidyingIsNotSeen DEF Length
  <2>3. \A j \in Keys : Swept[j] # Absent <=> LiveEntries[j] # Absent
    <3> SUFFICES ASSUME NEW j \in Keys
                 PROVE  Swept[j] # Absent <=> LiveEntries[j] # Absent
      OBVIOUS
    <3>1. store[j] # Absent => store[j].exp \in Nat
      BY EntryFound
    <3>2. QED
      BY <1>0, <3>1, SeenOf DEF Swept, Expired, Live
  <2>4. {k \in Keys : Swept[k] # Absent} = {k \in Keys : LiveEntries[k] # Absent}
    BY <2>3
  <2>5. InTime!Length
    <3>1. answer' = <<"len", Cardinality({k \in Keys : Swept[k] # Absent})>>
      BY <1>3 DEF Length
    <3>2. answer' = <<"len", InTime!Cardinality({k \in Keys : LiveEntries[k] # Absent})>>
      <4>1. \A S : Cardinality(S) = InTime!Cardinality(S)
        BY Zenon DEF Cardinality, InTime!Cardinality
      <4>2. QED
        BY <2>4, <3>1, <4>1, Zenon
    <3>3. UNCHANGED <<clock, LiveEntries>>
      BY <1>3, <2>2 DEF Length
    <3>4. QED
      BY <3>2, <3>3, Zenon DEF InTime!Length
  <2>6. QED
    BY <2>5 DEF InTime!Next
<1>4. ASSUME NEW k \in Keys, TimeLeft(k) PROVE InTime!Next \/ Departure
  <2>1. UNCHANGED <<clock, LiveEntries>>
    BY <1>4, TidyingIsNotSeen DEF TimeLeft
  <2>2. store[k] # Absent => store[k].exp \in Nat
    BY EntryFound
  <2>3. CASE Expired(k)
    <3>1. SpeaksOfLeftover(k)
      BY <1>4, <2>1, <2>3
         DEF TimeLeft, Expired, SpeaksOfLeftover, InTime!Returns, Returns
    <3>2. QED
      BY <2>1, <3>1 DEF Departure
  <2>4. CASE store[k] = Absent
    <3>1. InTime!TimeLeft(k)
      BY <1>4, <2>1, <2>4, SeenOf
         DEF TimeLeft, Live, InTime!TimeLeft, InTime!Returns, Returns
    <3>2. QED
      BY <3>1 DEF InTime!Next
  <2>5. CASE store[k] # Absent /\ ~Expired(k)
    <3>1. /\ Live(k) /\ LiveEntries[k] = store[k] /\ LiveEntries[k] # Absent
          /\ store[k].exp - clock \in Nat
      BY <1>0, <2>2, <2>5, SeenOf DEF Expired, Live
    <3>2. store[k].exp - clock \in InTime!About(LiveEntries[k].exp - clock)
      BY <3>1, SaidToTheSecond
    <3>3. Returns("ttl", k, <<>>, store[k].exp - clock)
      BY <1>4, <2>5 DEF TimeLeft
    <3>4. InTime!TimeLeft(k)
      BY <2>1, <3>1, <3>2, <3>3 DEF InTime!TimeLeft, InTime!Returns, Returns
    <3>5. QED
      BY <3>4 DEF InTime!Next
  <2>6. QED
    BY <2>3, <2>4, <2>5
<1>5. ASSUME NEW k \in Keys, NEW ttl \in TTLs, Expire(k, ttl)
      PROVE  InTime!Next \/ Departure
  <2>1. CASE store[k] = Absent
    <3>1. UNCHANGED <<clock, LiveEntries>>
      BY <1>5, <2>1, TidyingIsNotSeen DEF Expire
    <3>2. InTime!Expire(k, ttl)
      BY <1>5, <2>1, <3>1, SeenOf
         DEF Expire, Live, InTime!Expire, InTime!Returns, Returns
    <3>3. QED
      BY <3>2 DEF InTime!Next
  <2>2. CASE store[k] # Absent
    <3>1. store[k].value \in 1..MaxCount /\ store[k].exp \in Nat
      BY <2>2, EntryFound
    <3>2. InTime!Put(k, InTime!Entry(store[k].value, clock + ttl))
      BY <1>0, <1>5, <2>2, <3>1, WriteIsSeen DEF Expire
    <3>3. CASE Expired(k)
      <4>1. RevivesLeftover(k)
        BY <1>5, <3>2, <3>3
           DEF Expire, RevivesLeftover, InTime!Returns, Returns, Entry, InTime!Entry
      <4>2. QED
        BY <1>5, <4>1 DEF Departure, Expire
    <3>4. CASE ~Expired(k)
      <4>1. LiveEntries[k] = store[k] /\ LiveEntries[k] # Absent
        BY <1>0, <2>2, <3>1, <3>4, SeenOf DEF Expired, Live
      <4>2. InTime!Expire(k, ttl)
        BY <1>5, <3>2, <4>1, KeptAsAsked
           DEF Expire, InTime!Expire, InTime!Returns, Returns
      <4>3. QED
        BY <4>2 DEF InTime!Next
    <3>5. QED
      BY <3>3, <3>4
  <2>3. QED
    BY <2>1, <2>2
<1>6. ASSUME NEW k \in Keys, NEW ttl \in TTLs, NEW v \in Values, Increment(k, v, ttl)
      PROVE  InTime!Next
  <2>1. CASE Live(k)
    <3> DEFINE e == InTime!Entry(store[k].value + v, store[k].exp)
    <3>1. /\ store[k].value + v <= MaxCount /\ UNCHANGED clock
          /\ Put(Tidied, k, Entry(store[k].value + v, store[k].exp))
          /\ Counted(k, v, ttl, store[k].value + v, store[k].exp - clock)
      BY <1>6, <2>1 DEF Increment
    <3>2. /\ e \in InTime!Incremented(k, v, ttl) /\ InTime!Put(k, e)
          /\ e.value = store[k].value + v /\ e.exp = store[k].exp
      BY <1>0, <2>1, <3>1, CountIsSeen
    <3> HIDE DEF e
    <3>3. InTime!Increment(k, v, ttl)
      BY <3>1, <3>2, AnswerIsSeen
    <3>4. QED
      BY <3>3 DEF InTime!Next
  <2>2. CASE ~Live(k)
    <3> DEFINE e == InTime!Entry(v, clock + ttl)
    <3>1. /\ UNCHANGED clock /\ Put(Tidied, k, Entry(v, clock + ttl))
          /\ Counted(k, v, ttl, v, ttl)
      BY <1>6, <2>2 DEF Increment
    <3>2. /\ e \in InTime!Incremented(k, v, ttl) /\ InTime!Put(k, e)
          /\ e.value = v /\ e.exp - clock = ttl /\ v <= MaxCount
      BY <1>0, <2>2, <3>1, KeptAsAsked, StartIsSeen
    <3> HIDE DEF e
    <3>3. InTime!Increment(k, v, ttl)
      BY <3>1, <3>2, AnswerIsSeen
    <3>4. QED
      BY <3>3 DEF InTime!Next
  <2>3. QED
    BY <2>1, <2>2
<1>7. ASSUME NEW k \in Keys, NEW ttl \in TTLs, NEW v \in Values, Set(k, v, ttl)
      PROVE  InTime!Next
  <2>1. InTime!Put(k, InTime!Entry(v, clock + ttl))
    BY <1>0, <1>7, WriteIsSeen DEF Set
  <2>2. InTime!Set(k, v, ttl)
    BY <1>7, <2>1, KeptAsAsked DEF Set, InTime!Set, InTime!Returns, Returns
  <2>3. QED
    BY <2>2 DEF InTime!Next
<1>8. ASSUME NEW k \in Keys, NEW ttl \in TTLs, NEW v \in Values,
             NEW x \in 1..MaxCount \union {Absent}, Swap(k, x, v, ttl)
      PROVE  InTime!Next
  <2>1. CASE Found(k) = x
    <3>1. InTime!Put(k, InTime!Entry(v, clock + ttl))
      BY <1>0, <1>8, <2>1, WriteIsSeen DEF Swap
    <3>2. InTime!Swap(k, x, v, ttl)
      BY <1>8, <2>1, <3>1, SeenOf, KeptAsAsked
         DEF Swap, InTime!Swap, InTime!Returns, Returns
    <3>3. QED
      BY <3>2, OperationIsAStep
  <2>2. CASE Found(k) # x
    <3>1. \A j \in Keys : store'[j] = store[j] \/ (Expired(j) /\ store'[j] = Absent)
      BY <1>0, <1>8, <2>2 DEF Swap, Put, Remains
    <3>2. UNCHANGED LiveEntries
      BY <1>8, <3>1, TidyingIsNotSeen DEF Swap
    <3>3. InTime!Swap(k, x, v, ttl)
      BY <1>8, <2>2, <3>2, SeenOf DEF Swap, InTime!Swap, InTime!Returns, Returns
    <3>4. QED
      BY <3>3, OperationIsAStep
  <2>3. QED
    BY <2>1, <2>2
<1>9. ASSUME NEW k \in Keys, Get(k) \/ Delete(k) PROVE InTime!Next
  BY <1>9, ReadsAreSeen
<1>10. QED
  BY <1>1, <1>2, <1>3, <1>4, <1>5, <1>6, <1>7, <1>8, <1>9 DEF Next

LEMMA KeepIsSeen ==
  ASSUME StorageInv, NEW k \in Keys, NEW v \in 1..MaxCount,
         NEW ttl \in TTLs, Keep(k, v, ttl)
  PROVE  /\ InTime!Put(k, InTime!Entry(v, clock + Rounded(ttl)))
         /\ clock' = clock
<1>1. Rounded(ttl) \in Nat \ {0}
  BY ConstantsAssumption, RoundedIsLonger
<1>2. /\ Put(store, k, Entry(v, clock + Rounded(ttl)))
      /\ UNCHANGED clock
  BY DEF Keep, Write
<1> HIDE DEF Rounded
<1>3. QED
  BY <1>1, <1>2, StorageRemains, WriteIsSeen

LEMMA RedisIncrementIsSeen ==
  ASSUME StorageInv, backend = "redis", UNCHANGED backend,
         NEW k \in Keys, NEW ttl \in TTLs, NEW v \in Values,
         RedisIncrement(k, v, ttl)
  PROVE  InTime!Next \/ Departure
<1> DEFINE r == Rounded(ttl)
           count == (IF Live(k) THEN store[k].value ELSE 0) + v
           e == InTime!Entry(count, clock + r)
<1>1. /\ r \in Nat \ {0} /\ r \in InTime!Kept(ttl) /\ Nearest(r) = r
      /\ v \in 1..MaxCount /\ clock \in Nat /\ MaxCount \in Nat
  BY ConstantsAssumption, RoundedIsLonger, KeptAsAsked, FreshIsSaidExactly
     DEF StorageInv, TypeOK
<1>2. count \in 1..MaxCount
  <2>1. Live(k) => store[k].value \in 1..MaxCount
    BY EntryFound DEF Live
  <2>2. count <= MaxCount
    BY DEF RedisIncrement
  <2>3. QED
    BY <1>1, <2>1, <2>2
<1>3. Keep(k, count, ttl) /\ Counted(k, v, ttl, count, r)
  BY <1>1 DEF RedisIncrement
<1>4. InTime!Put(k, e) /\ clock' = clock
  <2> HIDE DEF count
  <2>1. QED
    BY <1>2, <1>3, KeepIsSeen
<1>5. e.value = count /\ e.exp - clock = r
  <2> HIDE DEF count, r
  <2>1. QED
    BY <1>1 DEF InTime!Entry
<1>6. CASE Live(k)
  <2>1. /\ LiveEntries[k] # Absent
        /\ e = InTime!Entry(LiveEntries[k].value + v, clock + r)
    BY <1>6, SeenOf DEF Live
  <2> HIDE DEF r, e, count
  <2>2. InTime!Counted(k, v, ttl, e)
    BY <1>3, <1>5 DEF InTime!Counted, InTime!Returns, Counted, Returns
  <2>3. InTime!Refresh(k, v, ttl)
    BY <1>1, <1>2, <1>4, <1>5, <2>1, <2>2 DEF InTime!Refresh
  <2>4. QED
    BY <1>4, <2>3 DEF RefreshesCounter, Departure
<1>7. CASE ~Live(k)
  <2>1. count = v
    BY <1>1, <1>7
  <2>2. e \in InTime!Incremented(k, v, ttl)
    <3> HIDE DEF r, count
    <3>1. QED
      BY <1>1, <1>7, <2>1, SeenOf DEF InTime!Incremented
  <2> HIDE DEF r, e, count
  <2>3. Counted(k, v, ttl, e.value, e.exp - clock)
    BY <1>3, <1>5
  <2>4. e.value <= MaxCount /\ UNCHANGED clock
    BY <1>1, <1>2, <1>4, <1>5
  <2>5. InTime!Increment(k, v, ttl)
    BY <1>4, <2>2, <2>3, <2>4, AnswerIsSeen
  <2>6. QED
    BY <2>5 DEF InTime!Next
<1>8. QED
  BY <1>6, <1>7

LEMMA RedisIsSeen ==
  ASSUME StorageInv, backend = "redis", UNCHANGED backend,
         NEW k \in Keys, NEW ttl \in TTLs, NEW v \in Values,
         NEW x \in 1..MaxCount \union {Absent},
         \/ RedisIncrement(k, v, ttl) \/ RedisSet(k, v, ttl)
         \/ RedisExpire(k, ttl) \/ RedisSwap(k, x, v, ttl)
  PROVE  InTime!Next \/ Departure
<1> DEFINE r == Rounded(ttl)
<1>0. v \in 1..MaxCount /\ r \in InTime!Kept(ttl)
  BY ConstantsAssumption, KeptAsAsked
<1>1. CASE RedisIncrement(k, v, ttl)
  BY <1>1, RedisIncrementIsSeen
<1>2. CASE RedisSet(k, v, ttl)
  <2>1. InTime!Put(k, InTime!Entry(v, clock + r)) /\ clock' = clock
    BY <1>0, <1>2, KeepIsSeen DEF RedisSet
  <2> HIDE DEF r
  <2>2. InTime!Set(k, v, ttl)
    BY <1>0, <1>2, <2>1 DEF RedisSet, InTime!Set, InTime!Returns, Returns
  <2>3. QED
    BY <2>2, OperationIsAStep
<1>3. CASE RedisExpire(k, ttl)
  <2>1. CASE Live(k)
    <3>1. store[k].value \in 1..MaxCount /\ LiveEntries[k] = store[k] /\ store[k] # Absent
      BY <2>1, EntryFound, SeenOf DEF Live
    <3>2. /\ InTime!Put(k, InTime!Entry(store[k].value, clock + r))
          /\ clock' = clock
      BY <1>3, <2>1, <3>1, KeepIsSeen DEF RedisExpire
    <3> HIDE DEF r
    <3>3. InTime!Expire(k, ttl)
      BY <1>0, <1>3, <3>1, <3>2 DEF RedisExpire, InTime!Expire, InTime!Returns, Returns
    <3>4. QED
      BY <3>3, OperationIsAStep
  <2>2. CASE ~Live(k)
    <3>1. clock' = clock /\ UNCHANGED LiveEntries
      BY <1>3, <2>2, NoWriteIsSeen DEF RedisExpire
    <3>2. InTime!Expire(k, ttl)
      BY <1>3, <2>2, <3>1, SeenOf DEF RedisExpire, InTime!Expire, InTime!Returns, Returns
    <3>3. QED
      BY <3>2, OperationIsAStep
  <2>3. QED
    BY <2>1, <2>2
<1>4. CASE RedisSwap(k, x, v, ttl)
  <2>1. CASE Found(k) = x
    <3>1. InTime!Put(k, InTime!Entry(v, clock + r)) /\ clock' = clock
      BY <1>0, <1>4, <2>1, KeepIsSeen DEF RedisSwap
    <3>2. Returns("swap", k, <<x, v, ttl>>, TRUE)
      BY <1>4, <2>1 DEF RedisSwap, Returns
    <3> HIDE DEF r
    <3>3. InTime!Swap(k, x, v, ttl)
      BY <1>0, <2>1, <3>1, <3>2, SeenOf DEF InTime!Swap, InTime!Returns, Returns
    <3>4. QED
      BY <3>3, OperationIsAStep
  <2>2. CASE Found(k) # x
    <3>1. clock' = clock /\ UNCHANGED LiveEntries
      BY <1>4, <2>2, NoWriteIsSeen DEF RedisSwap
    <3>2. Returns("swap", k, <<x, v, ttl>>, FALSE)
      BY <1>4, <2>2 DEF RedisSwap, Returns
    <3>3. InTime!Swap(k, x, v, ttl)
      BY <2>2, <3>1, <3>2, SeenOf DEF InTime!Swap, InTime!Returns, Returns
    <3>4. QED
      BY <3>3, OperationIsAStep
  <2>3. QED
    BY <2>1, <2>2
<1>5. QED
  BY <1>1, <1>2, <1>3, <1>4

LEMMA MongoWriteIsSeen ==
  ASSUME StorageInv, NEW k \in Keys, NEW v \in 1..MaxCount,
         NEW ttl \in TTLs, NEW until,
         Write(k, Entry(v, clock + ttl), until)
  PROVE  /\ InTime!Put(k, InTime!Entry(v, clock + ttl))
         /\ clock' = clock
<1>1. ttl \in Nat \ {0}
  BY ConstantsAssumption
<1>2. Put(store, k, Entry(v, clock + ttl)) /\ UNCHANGED clock
  BY DEF Write
<1>3. QED
  BY <1>1, <1>2, StorageRemains, WriteIsSeen

(* What may be under a key. *)
LEMMA LiveOrLeftOver ==
  ASSUME StorageInv, NEW k \in Keys
  PROVE  /\ clock \in Nat
         /\ store[k] # Absent => store[k].value \in 1..MaxCount /\ store[k].exp \in Nat
         /\ Live(k) \/ Expired(k) \/ store[k] = Absent
         /\ Live(k) => /\ ~Expired(k) /\ store[k] # Absent
                       /\ LiveEntries[k] = store[k] /\ LiveEntries[k] # Absent
         /\ ~Live(k) => LiveEntries[k] = Absent
<1>1. clock \in Nat
  BY ConstantsAssumption DEF StorageInv, TypeOK
<1>2. store[k] # Absent => store[k].value \in 1..MaxCount /\ store[k].exp \in Nat
  BY EntryFound
<1>3. QED
  BY <1>1, <1>2, SeenOf DEF Live, Expired

(* incr() is the contract's increment, increment_by() loses its answer. *)
LEMMA MongoCountIsSeen ==
  ASSUME NEW k \in Keys, NEW amount \in Values, NEW ttl \in TTLs,
         backend = "mongo", UNCHANGED <<backend, clock>>,
         NEW e \in InTime!Incremented(k, amount, ttl), e.value <= MaxCount,
         InTime!Put(k, e), MongoCounted(k, amount, ttl, e.value)
  PROVE  InTime!Next \/ Departure
<1>1. CASE Returns("incr", k, <<amount, ttl>>, e.value)
  <2>1. InTime!Increment(k, amount, ttl)
    BY <1>1, AnswerIsSeen
  <2>2. QED
    BY <2>1 DEF InTime!Next
<1>2. CASE Returns("increment_by", k, <<amount, ttl>>, Raised)
  <2>1. LosesTheAnswer(k)
    BY <1>2 DEF LosesTheAnswer, InTime!Returns, Returns
  <2>2. QED
    BY <2>1 DEF Departure
<1>3. QED
  BY <1>1, <1>2 DEF MongoCounted

LEMMA MongoIncrementIsSeen ==
  ASSUME StorageInv, backend = "mongo", UNCHANGED backend,
         NEW k \in Keys, NEW ttl \in TTLs, NEW v \in Values,
         MongoIncrement(k, v, ttl)
  PROVE  InTime!Next \/ Departure
<1>0. v \in 1..MaxCount /\ ttl \in Nat \ {0} /\ Remains(store)
  BY ConstantsAssumption, StorageRemains
<1>1. CASE store[k] = Absent
  <2> DEFINE e == InTime!Entry(v, clock + ttl)
  <2>1. /\ Put(store, k, Entry(v, clock + ttl)) /\ UNCHANGED clock
        /\ MongoCounted(k, v, ttl, v)
    BY <1>1, LiveOrLeftOver DEF MongoIncrement, Expired, Write
  <2>2. ~Live(k)
    BY <1>1 DEF Live
  <2>3. /\ e \in InTime!Incremented(k, v, ttl) /\ InTime!Put(k, e)
        /\ e.value = v /\ v <= MaxCount
    BY <1>0, <2>1, <2>2, KeptAsAsked, StartIsSeen
  <2> HIDE DEF e
  <2>4. QED
    BY <2>1, <2>3, MongoCountIsSeen
<1>2. CASE Live(k)
  <2> DEFINE e == InTime!Entry(store[k].value + v, store[k].exp)
  <2>1. /\ Put(store, k, Entry(store[k].value + v, store[k].exp)) /\ UNCHANGED clock
        /\ store[k].value + v <= MaxCount
        /\ MongoCounted(k, v, ttl, store[k].value + v)
    BY <1>2, LiveOrLeftOver DEF MongoIncrement, Write
  <2>2. /\ e \in InTime!Incremented(k, v, ttl) /\ InTime!Put(k, e)
        /\ e.value = store[k].value + v
    BY <1>0, <1>2, <2>1, CountIsSeen
  <2> HIDE DEF e
  <2>3. QED
    BY <2>1, <2>2, MongoCountIsSeen
<1>3. CASE Expired(k)
  <2>1. NoWrite /\ MongoCounted(k, v, ttl, Raised)
    BY <1>3, LiveOrLeftOver DEF MongoIncrement, Expired
  <2>2. clock' = clock /\ UNCHANGED LiveEntries
    BY <2>1, NoWriteIsSeen
  <2>3. TripsOverLeftover(k)
    BY <1>3, <2>1, <2>2
       DEF TripsOverLeftover, MongoCounted, InTime!Returns, Returns
  <2>4. QED
    BY <2>2, <2>3 DEF Departure
<1>4. QED
  BY <1>1, <1>2, <1>3, LiveOrLeftOver

LEMMA MongoSwapIsSeen ==
  ASSUME StorageInv, backend = "mongo", UNCHANGED backend,
         NEW k \in Keys, NEW ttl \in TTLs, NEW v \in Values,
         NEW x \in 1..MaxCount \union {Absent}, MongoSwap(k, x, v, ttl)
  PROVE  InTime!Next \/ Departure
<1> DEFINE new == Entry(v, clock + ttl)
<1>0. v \in 1..MaxCount /\ ttl \in Nat \ {0} /\ clock \in Nat
  BY ConstantsAssumption, LiveOrLeftOver
<1>1. CASE Matching(k, x) /\ store[k] # new
  <2>1. Found(k) = x
    BY <1>1, LiveOrLeftOver DEF Matching, Found
  <2>2. /\ Write(k, new, clock + ttl)
        /\ Returns("swap", k, <<x, v, ttl>>, TRUE)
    BY <1>1 DEF MongoSwap, Returns
  <2>3. InTime!Put(k, InTime!Entry(v, clock + ttl)) /\ clock' = clock
    BY <1>0, <2>2, MongoWriteIsSeen
  <2>4. InTime!Swap(k, x, v, ttl)
    BY <2>1, <2>2, <2>3, SeenOf, KeptAsAsked DEF InTime!Swap, InTime!Returns, Returns
  <2>5. QED
    BY <2>4, OperationIsAStep
<1>2. CASE ~(Matching(k, x) /\ store[k] # new)
  <2>1. NoWrite /\ Returns("swap", k, <<x, v, ttl>>, FALSE)
    BY <1>2 DEF MongoSwap, Returns
  <2>2. clock' = clock /\ UNCHANGED LiveEntries
    BY <2>1, NoWriteIsSeen
  <2>3. CASE Found(k) # x
    <3>1. InTime!Swap(k, x, v, ttl)
      BY <2>1, <2>2, <2>3, SeenOf DEF InTime!Swap, InTime!Returns, Returns
    <3>2. QED
      BY <3>1, OperationIsAStep
  <2>4. CASE Found(k) = x /\ x = Absent
    <3>1. ~Live(k)
      <4>1. Live(k) => store[k].value \in Int
        BY LiveOrLeftOver
      <4>2. QED
        BY <2>4, <4>1, AbsentAssumption DEF Found
    <3>2. store[k] # Absent
      <4>1. new \in [value : Int, exp : Int]
        BY <1>0 DEF Entry
      <4>2. QED
        BY <1>2, <2>4, <4>1, AbsentAssumption DEF Matching
    <3>3. Expired(k)
      BY <3>1, <3>2, LiveOrLeftOver
    <3>4. TripsOverLeftover(k)
      BY <2>1, <2>2, <2>4, <3>3 DEF TripsOverLeftover, InTime!Returns, Returns
    <3>5. QED
      BY <2>2, <3>4 DEF Departure
  <2>5. CASE Found(k) = x /\ x # Absent
    <3>1. Live(k) /\ store[k].value = x
      BY <2>5 DEF Found
    <3>2. store[k] = new
      BY <1>2, <2>5, <3>1 DEF Matching
    <3>3. LiveEntries[k] = new /\ x = v
      BY <1>0, <3>1, <3>2, LiveOrLeftOver DEF Entry
    <3> HIDE DEF new
    <3>4. SwapsForTheSame(k)
      BY <2>1, <2>2, <3>3 DEF SwapsForTheSame, InTime!Returns, Returns, new
    <3>5. QED
      BY <2>2, <3>4 DEF Departure
  <2>6. QED
    BY <2>3, <2>4, <2>5
<1>3. QED
  BY <1>1, <1>2

LEMMA MongoIsSeen ==
  ASSUME StorageInv, backend = "mongo", UNCHANGED backend,
         NEW k \in Keys, NEW ttl \in TTLs, NEW v \in Values,
         NEW x \in 1..MaxCount \union {Absent},
         \/ MongoIncrement(k, v, ttl) \/ MongoSet(k, v, ttl)
         \/ MongoExpire(k, ttl) \/ MongoSwap(k, x, v, ttl)
  PROVE  InTime!Next \/ Departure
<1>0. v \in 1..MaxCount
  BY ConstantsAssumption
<1>1. CASE MongoIncrement(k, v, ttl)
  BY <1>1, MongoIncrementIsSeen
<1>2. CASE MongoSet(k, v, ttl)
  <2>1. InTime!Put(k, InTime!Entry(v, clock + ttl)) /\ clock' = clock
    BY <1>0, <1>2, MongoWriteIsSeen DEF MongoSet
  <2>2. InTime!Set(k, v, ttl)
    BY <1>2, <2>1, KeptAsAsked DEF MongoSet, InTime!Set, InTime!Returns, Returns
  <2>3. QED
    BY <2>2, OperationIsAStep
<1>3. CASE MongoExpire(k, ttl)
  <2>1. CASE store[k] = Absent
    <3>1. clock' = clock /\ UNCHANGED LiveEntries
      BY <1>3, <2>1, NoWriteIsSeen DEF MongoExpire
    <3>2. LiveEntries[k] = Absent
      BY <2>1, SeenOf
    <3>3. InTime!Expire(k, ttl)
      BY <1>3, <3>1, <3>2 DEF MongoExpire, InTime!Expire, InTime!Returns, Returns
    <3>4. QED
      BY <3>3, OperationIsAStep
  <2>2. CASE store[k] # Absent
    <3>1. InTime!Put(k, InTime!Entry(store[k].value, clock + ttl)) /\ clock' = clock
      BY <1>3, <2>2, LiveOrLeftOver, MongoWriteIsSeen DEF MongoExpire
    <3>2. CASE Live(k)
      <4>1. InTime!Expire(k, ttl)
        BY <1>3, <3>1, <3>2, LiveOrLeftOver, KeptAsAsked
           DEF MongoExpire, InTime!Expire, InTime!Returns, Returns
      <4>2. QED
        BY <4>1, OperationIsAStep
    <3>3. CASE Expired(k)
      <4>1. RevivesLeftover(k)
        BY <1>3, <3>1, <3>3
           DEF MongoExpire, RevivesLeftover, InTime!Returns, Returns, Entry, InTime!Entry
      <4>2. QED
        BY <3>1, <4>1 DEF Departure
    <3>4. QED
      BY <2>2, <3>2, <3>3, LiveOrLeftOver
  <2>3. QED
    BY <2>1, <2>2
<1>4. CASE MongoSwap(k, x, v, ttl)
  BY <1>4, MongoSwapIsSeen
<1>5. QED
  BY <1>1, <1>2, <1>3, <1>4

(* What the servers say of the time left. *)
LEMMA TTLIsSeen ==
  ASSUME StorageInv, UNCHANGED backend, NEW k \in Keys,
         \/ backend = "redis" /\ RedisTTL(k)
         \/ backend = "mongo" /\ MongoTTL(k)
  PROVE  InTime!Next \/ Departure
<1>1. clock' = clock /\ UNCHANGED LiveEntries
  BY NoWriteIsSeen DEF RedisTTL, MongoTTL
<1>2. CASE ~Live(k)
  <2>1. Returns("ttl", k, <<>>, -2)
    BY <1>2 DEF RedisTTL, MongoTTL, Returns
  <2>2. InTime!TimeLeft(k)
    BY <1>1, <1>2, <2>1, SeenOf DEF InTime!TimeLeft, InTime!Returns, Returns
  <2>3. QED
    BY <2>2 DEF InTime!Next
<1>3. CASE Live(k) /\ backend = "redis"
  <2>1. store[k].exp - clock \in Nat /\ LiveEntries[k] = store[k] /\ LiveEntries[k] # Absent
    BY <1>3, LiveOrLeftOver DEF Live
  <2>2. Nearest(store[k].exp - clock) \in InTime!About(LiveEntries[k].exp - clock)
    BY <1>3, <2>1, SaidToTheSecond
  <2>3. Returns("ttl", k, <<>>, Nearest(store[k].exp - clock))
    BY <1>3 DEF RedisTTL, Returns
  <2> HIDE DEF Nearest
  <2>4. InTime!TimeLeft(k)
    BY <1>1, <2>1, <2>2, <2>3 DEF InTime!TimeLeft, InTime!Returns, Returns
  <2>5. QED
    BY <2>4 DEF InTime!Next
<1>4. CASE Live(k) /\ backend = "mongo"
  <2>1. LosesTheAnswer(k)
    BY <1>1, <1>4 DEF MongoTTL, LosesTheAnswer, InTime!Returns, Returns
  <2>2. QED
    BY <1>1, <2>1 DEF Departure
<1>5. QED
  BY <1>2, <1>3, <1>4

(***************************************************************************)
(* ServersImplementContract: for any keys, values and times to live, every *)
(* operation of each of the three storages is an operation of the map the  *)
(* algorithms rely on, with the same arguments and the same answer and for *)
(* the time asked for, up to Redis' second; or it is one of the departures *)
(* the property lists.  There are no others.                               *)
(***************************************************************************)
THEOREM StoragesImplementContract == ServerSpec => ServersImplementContract
<1>1. ServerInit => InTime!Init
  <2> SUFFICES ASSUME ServerInit PROVE InTime!Init
    OBVIOUS
  <2>1. LiveEntries = [k \in Keys |-> Absent]
    BY DEF ServerInit, Init, LiveEntries, Live
  <2>2. (IF backend = "redis" THEN Second ELSE 0) \in Nat
    BY SecondAssumption
  <2>3. QED
    BY <2>1, <2>2 DEF ServerInit, Init, InTime!Init
<1>2. StorageInv /\ [ServerNext]_serverVars =>
        [InTime!Next \/ Departure]_<<clock, LiveEntries, answer>>
  <2> SUFFICES ASSUME StorageInv, [ServerNext]_serverVars
               PROVE  \/ InTime!Next \/ Departure
                      \/ UNCHANGED <<clock, LiveEntries, answer>>
    OBVIOUS
  <2>1. CASE UNCHANGED serverVars
    BY <2>1, TidyingIsNotSeen DEF serverVars, vars
  <2>2. CASE ServerNext
    <3>0. UNCHANGED backend
      BY <2>2 DEF ServerNext
    <3>1. CASE backend = "memory" /\ Next
      BY <3>0, <3>1, MemoryIsSeen
    <3>2. CASE Tick
      BY <3>0, <3>2, TimeIsSeen DEF InTime!Next
    <3>3. ASSUME NEW k \in Keys, Reap(k) PROVE UNCHANGED <<clock, LiveEntries, answer>>
      <4>1. \A j \in Keys : store'[j] = store[j] \/ (Expired(j) /\ store'[j] = Absent)
        BY <3>3, StorageRemains DEF Reap, Put, Remains
      <4>2. QED
        BY <3>3, <4>1, TidyingIsNotSeen DEF Reap
    <3>4. ASSUME NEW k \in Keys, Read(k) \/ Delete(k) PROVE InTime!Next
      BY <3>0, <3>4, ReadsAreSeen
    <3>5. ASSUME NEW k \in Keys,
                 \/ backend = "redis" /\ RedisTTL(k)
                 \/ backend = "mongo" /\ MongoTTL(k)
          PROVE  InTime!Next \/ Departure
      BY <3>0, <3>5, TTLIsSeen
    <3>6. ASSUME NEW k \in Keys, NEW ttl \in TTLs, NEW v \in Values,
                 NEW x \in 1..MaxCount \union {Absent}, backend = "redis",
                 \/ RedisIncrement(k, v, ttl) \/ RedisSet(k, v, ttl)
                 \/ RedisExpire(k, ttl) \/ RedisSwap(k, x, v, ttl)
          PROVE  InTime!Next \/ Departure
      BY <3>0, <3>6, RedisIsSeen
    <3>7. ASSUME NEW k \in Keys, NEW ttl \in TTLs, NEW v \in Values,
                 NEW x \in 1..MaxCount \union {Absent}, backend = "mongo",
                 \/ MongoIncrement(k, v, ttl) \/ MongoSet(k, v, ttl)
                 \/ MongoExpire(k, ttl) \/ MongoSwap(k, x, v, ttl)
          PROVE  InTime!Next \/ Departure
      BY <3>0, <3>7, MongoIsSeen
    <3>8. QED
      BY <2>2, <3>1, <3>2, <3>3, <3>4, <3>5, <3>6, <3>7 DEF ServerNext
  <2>3. QED
    BY <2>1, <2>2
<1>3. QED
  BY <1>1, <1>2, StorageInvariant, PTL DEF ServerSpec, ServersImplementContract

-----------------------------------------------------------------------------
(* The limiters of the adapters: what becomes of a failing storage.        *)

(***************************************************************************)
(* Where a request is, and what it went through: after a failure that was  *)
(* not let through it is answered, and short of the view.                  *)
(***************************************************************************)
StoppedShort(r) == response[r] # "none" /\ at[r] <= Len(Checks)

FailureInv ==
  /\ at \in [Requests -> 0..(Len(Checks) + 1)]
  /\ response \in [Requests -> {"none", "200", "404", "429", "page", "500"}]
  /\ met \in [Requests -> {"none", "global", "route"}]
  /\ \A r \in Requests :
       /\ at[r] = 0 => met[r] = "none" /\ response[r] = "none"
       /\ met[r] = "route" => StoppedShort(r)
       /\ met[r] = "global" => ~failClosed \/ StoppedShort(r)

LEMMA LimitsAre ==
  /\ Len(GlobalLimits) \in Nat /\ Len(RouteLimits) \in Nat
  /\ \A i \in 1..Len(GlobalLimits) : GlobalLimits[i] \in 1..MaxLimit
  /\ \A i \in 1..Len(RouteLimits) : RouteLimits[i] \in 1..MaxLimit
BY LimiterAssumption, ElementOfSeq, LenProperties

\* A sequence of checks on one kind of rule.
Layer(checks, route, n) ==
  /\ checks \in Seq(Buckets) /\ Len(checks) = n
  /\ \A i \in 1..n : checks[i].route = route

LEMMA LayerOf ==
  ASSUME NEW n \in Nat, NEW route \in {"global", "route"}, NEW f \in [1..n -> Buckets],
         \A i \in 1..n : f[i].route = route
  PROVE  Layer(f, route, n)
<1>1. f \in Seq(Buckets) /\ Len(f) = n
  OBVIOUS
<1>2. QED
  BY <1>1 DEF Layer

LEMMA GlobalLayer == Layer(GlobalChecks, "global", Len(GlobalLimits))
<1>1. /\ GlobalChecks \in [1..Len(GlobalLimits) -> Buckets]
      /\ \A i \in 1..Len(GlobalLimits) : GlobalChecks[i].route = "global"
  BY LimitsAre DEF GlobalChecks, Rule, Buckets
<1>2. QED
  BY <1>1, LimitsAre, LayerOf

LEMMA StackedLayer == Layer(StackedChecks, "route", Len(RouteLimits))
<1>1. /\ StackedChecks \in [1..Len(RouteLimits) -> Buckets]
      /\ \A i \in 1..Len(RouteLimits) : StackedChecks[i].route = "route"
  BY LimitsAre DEF StackedChecks, Rule, Buckets
<1>2. QED
  BY <1>1, LimitsAre, LayerOf

(* The rule that is checked at a place of Django's loops. *)
LEMMA PlaceInLoop ==
  ASSUME NEW n \in Nat \ {0}, NEW i \in Nat \ {0}
  PROVE  n - ((i - 1) % n) \in 1..n
<1> DEFINE m == i - 1
<1>1. m \in Nat /\ m % n \in 0..(n - 1)
  OBVIOUS
<1>2. QED
  BY <1>1

LEMMA RepeatedLayer ==
  Layer(RepeatedChecks, "route", Len(RouteLimits) * Len(RouteLimits))
<1>1. ASSUME NEW i \in 1..(Len(RouteLimits) * Len(RouteLimits))
      PROVE  RouteLimits[Len(RouteLimits) - ((i - 1) % Len(RouteLimits))] \in 1..MaxLimit
  <2>1. Len(RouteLimits) \in Nat \ {0} /\ i \in Nat \ {0}
    BY LimitsAre
  <2>2. QED
    BY <2>1, LimitsAre, PlaceInLoop
<1>2. Len(RouteLimits) * Len(RouteLimits) \in Nat
  BY LimitsAre
<1>3. /\ RepeatedChecks \in [1..(Len(RouteLimits) * Len(RouteLimits)) -> Buckets]
      /\ \A i \in 1..(Len(RouteLimits) * Len(RouteLimits)) : RepeatedChecks[i].route = "route"
  BY <1>1 DEF RepeatedChecks, Rule, Buckets
<1>4. QED
  BY <1>2, <1>3, LayerOf

\* The checks of the view, and how many they are.
ViewChecks == IF adapter = "django" THEN RepeatedChecks ELSE StackedChecks

ViewLength == IF adapter = "django" THEN Len(RouteLimits) * Len(RouteLimits)
              ELSE Len(RouteLimits)

(* The checks are the global ones, and then those of the view. *)
LEMMA ChecksAre ==
  /\ Checks \in Seq(Buckets)
  /\ ViewLength \in Nat
  /\ Len(Checks) = Len(GlobalLimits) + ViewLength
  /\ \A i \in 1..Len(Checks) :
       /\ Checks[i] \in Buckets
       /\ Checks[i] = IF i <= Len(GlobalLimits) THEN GlobalChecks[i]
                      ELSE ViewChecks[i - Len(GlobalLimits)]
       /\ Checks[i].route = IF i <= Len(GlobalLimits) THEN "global" ELSE "route"
<1>1. Layer(ViewChecks, "route", ViewLength)
  BY StackedLayer, RepeatedLayer DEF ViewChecks, ViewLength
<1>2. Checks = GlobalChecks \o ViewChecks
  BY DEF Checks, ViewChecks
<1>3. ViewLength \in Nat /\ Len(GlobalLimits) \in Nat
  BY LimitsAre DEF ViewLength
<1>4. /\ Checks \in Seq(Buckets) /\ Len(Checks) = Len(GlobalLimits) + ViewLength
      /\ \A i \in 1..Len(Checks) :
           Checks[i] = IF i <= Len(GlobalLimits) THEN GlobalChecks[i]
                       ELSE ViewChecks[i - Len(GlobalLimits)]
  <2>1. /\ GlobalChecks \in Seq(Buckets) /\ ViewChecks \in Seq(Buckets)
        /\ Len(GlobalChecks) = Len(GlobalLimits) /\ Len(ViewChecks) = ViewLength
    BY <1>1, GlobalLayer DEF Layer
  <2>2. /\ GlobalChecks \o ViewChecks \in Seq(Buckets)
        /\ Len(GlobalChecks \o ViewChecks) = Len(GlobalLimits) + ViewLength
        /\ \A i \in 1..(Len(GlobalLimits) + ViewLength) :
             (GlobalChecks \o ViewChecks)[i]
               = IF i <= Len(GlobalLimits) THEN GlobalChecks[i]
                 ELSE ViewChecks[i - Len(GlobalLimits)]
    <3>1. /\ GlobalChecks \o ViewChecks \in Seq(Buckets)
          /\ Len(GlobalChecks \o ViewChecks) = Len(GlobalChecks) + Len(ViewChecks)
          /\ \A i \in 1..(Len(GlobalChecks) + Len(ViewChecks)) :
               (GlobalChecks \o ViewChecks)[i]
                 = IF i <= Len(GlobalChecks) THEN GlobalChecks[i]
                   ELSE ViewChecks[i - Len(GlobalChecks)]
      BY <2>1, ConcatProperties, Zenon
    <3>2. QED
      BY <2>1, <3>1, Zenon
  <2>3. QED
    BY <1>2, <2>2, Zenon
<1>5. ASSUME NEW i \in 1..Len(Checks)
      PROVE  /\ Checks[i] \in Buckets
             /\ Checks[i].route = IF i <= Len(GlobalLimits) THEN "global" ELSE "route"
  <2>1. Checks[i] \in Buckets
    BY <1>4, ElementOfSeq
  <2>2. CASE i <= Len(GlobalLimits)
    BY <1>3, <1>4, <2>1, <2>2, GlobalLayer DEF Layer
  <2>3. CASE i > Len(GlobalLimits)
    <3>1. i - Len(GlobalLimits) \in 1..ViewLength
      BY <1>3, <1>4, <2>3
    <3>2. QED
      BY <1>1, <1>3, <1>4, <2>1, <2>3, <3>1 DEF Layer
  <2>4. QED
    BY <1>3, <2>1, <2>2, <2>3
<1>6. QED
  BY <1>3, <1>4, <1>5

LEMMA ChecksStay == Rest => Checks' = Checks
BY DEF Rest, Checks, RepeatedChecks, StackedChecks, GlobalChecks, Rule

LEMMA FailureStarts == LimiterInit => FailureInv
BY ChecksAre, LimitsAre DEF LimiterInit, FailureInv, StoppedShort

LEMMA FailurePreserves ==
  ASSUME FailureInv, NEW r \in Requests,
         Arrive(r) \/ TurnAway(r) \/ Check(r) \/ FailCheck(r) \/ Handle(r)
  PROVE  FailureInv'
<1>1. Checks' = Checks /\ failClosed' = failClosed
  BY ChecksStay DEF Arrive, TurnAway, Check, FailCheck, Handle, Rest
<1>2. Len(Checks) \in Nat /\ Len(GlobalLimits) \in Nat /\ Len(GlobalLimits) <= Len(Checks)
  BY ChecksAre, LimitsAre
<1> DEFINE Answers == {"none", "200", "404", "429", "page", "500"}
           Ok(a, m, s) ==
             /\ a \in 0..(Len(Checks) + 1) /\ m \in {"none", "global", "route"} /\ s \in Answers
             /\ a = 0 => m = "none" /\ s = "none"
             /\ m = "route" => s # "none" /\ a <= Len(Checks)
             /\ m = "global" => ~failClosed \/ (s # "none" /\ a <= Len(Checks))
<1>3. /\ at \in [Requests -> 0..(Len(Checks) + 1)] /\ response \in [Requests -> Answers]
      /\ met \in [Requests -> {"none", "global", "route"}]
      /\ \A p \in Requests : Ok(at[p], met[p], response[p])
  BY DEF FailureInv, StoppedShort
<1>4. SUFFICES ASSUME NEW a, NEW m, NEW s, Ok(a, m, s),
                      at' = [at EXCEPT ![r] = a], met' = [met EXCEPT ![r] = m],
                      response' = [response EXCEPT ![r] = s]
               PROVE  FailureInv'
  <2> DEFINE Goal(a, m, s) == /\ Ok(a, m, s)
                              /\ at' = [at EXCEPT ![r] = a]
                              /\ met' = [met EXCEPT ![r] = m]
                              /\ response' = [response EXCEPT ![r] = s]
  <2>1. CASE Arrive(r)
    <3>1. Goal(1, met[r], response[r])
      BY <1>2, <1>3, <2>1 DEF Arrive
    <3>2. QED
      BY <1>4, <3>1
  <2>2. CASE TurnAway(r)
    <3>1. Goal(at[r], met[r], "404") \/ Goal(at[r], met[r], "429")
      BY <1>2, <1>3, <2>2 DEF TurnAway, Respond, Pending
    <3>2. QED
      BY <1>4, <3>1
  <2>3. CASE Check(r)
    <3>1. \/ Goal(at[r] + 1, met[r], response[r])
          \/ \E t \in {"429", "page"} : Goal(at[r], met[r], t)
      BY <1>2, <1>3, <2>3 DEF Check, Deny, Respond, Pending
    <3>2. QED
      BY <1>4, <3>1
  <2>4. CASE FailCheck(r)
    <3>1. Checks[at[r]].route \in {"global", "route"}
      BY <1>2, <1>3, <2>4, ChecksAre DEF FailCheck, Pending
    <3>2. \/ Goal(Len(GlobalLimits) + 1, Checks[at[r]].route, response[r])
          \/ \E t \in {"429", "500"} : Goal(at[r], Checks[at[r]].route, t)
      BY <1>2, <1>3, <2>4, <3>1 DEF FailCheck, FailsOpen, Failure, Respond, Pending
    <3>3. QED
      BY <1>4, <3>2
  <2>5. CASE Handle(r)
    <3>1. \E t \in {"200", "500"} : Goal(at[r], met[r], t)
      BY <1>2, <1>3, <2>5 DEF Handle, Respond, Pending
    <3>2. QED
      BY <1>4, <3>1
  <2>6. QED
    BY <2>1, <2>2, <2>3, <2>4, <2>5
<1>5. QED
  BY <1>1, <1>3, <1>4 DEF FailureInv, StoppedShort

THEOREM FailureInvariant == AdaptersSpec => []FailureInv
<1>1. FailureInv /\ [AdaptersNext]_adapterVars => FailureInv'
  <2> SUFFICES ASSUME FailureInv, [AdaptersNext]_adapterVars PROVE FailureInv'
    OBVIOUS
  <2>1. CASE UNCHANGED limiterVars
    <3>1. Checks' = Checks
      BY <2>1, ChecksStay DEF limiterVars, Rest
    <3>2. QED
      BY <2>1, <3>1 DEF limiterVars, FailureInv, StoppedShort
  <2>2. CASE LimiterNext
    BY <2>2, FailurePreserves DEF LimiterNext
  <2>3. QED
    BY <2>1, <2>2 DEF AdaptersNext, adapterVars
<1>2. QED
  BY <1>1, FailureStarts, PTL DEF AdaptersSpec, AdaptersInit

(***************************************************************************)
(* FailureModeIsHonoured: whatever rules are stacked, a request whose      *)
(* check failed gets past it only in the middleware and only where the     *)
(* configuration says so.                                                  *)
(***************************************************************************)
THEOREM FailureModeIsAlwaysHonoured == AdaptersSpec => []FailureModeIsHonoured
<1>1. FailureInv => FailureModeIsHonoured
  BY ChecksAre, LimitsAre DEF FailureInv, StoppedShort, FailureModeIsHonoured
<1>2. QED
  BY <1>1, FailureInvariant, PTL

-----------------------------------------------------------------------------
(* The limiters of the adapters: how often the view runs.                  *)

\* The requests that got past check i without meeting a failing storage.
Passed(i) == {r \in Requests : met[r] = "none" /\ at[r] > i}

\* Those that the view has answered.
Viewed == {r \in Requests : /\ met[r] = "none" /\ response[r] # "none"
                            /\ at[r] = Len(Checks) + 1}

\* The units taken from the buckets of check i's rule, by effective limit, and
\* in all.
TakenBy(i) == [l \in 1..MaxLimit |-> spent[Rule(Checks[i].route, l)]]

Taken(i) == SumOver(TakenBy(i), limitsUsed[i])

\* The checks of the same rule as check i, and every passage through one.
Alike(i) == {j \in 1..Len(Checks) : Checks[j] = Checks[i]}

Passages(i) == {c \in Requests \X Alike(i) : met[c[1]] = "none" /\ c[2] < at[c[1]]}

UnitTypes ==
  /\ spent \in [Buckets -> Nat]
  /\ \A b \in Buckets : spent[b] <= b.limit
  /\ limitsUsed \in [1..Len(Checks) -> SUBSET (1..MaxLimit)]
  /\ \A i \in 1..Len(Checks) : limitsUsed[i] \subseteq EffectiveLimits(Checks[i].limit)
  /\ ran \in Nat /\ ran <= Cardinality(Viewed)

\* Nobody gets past a check for nothing, ...
PassingCosts ==
  \A i \in 1..Len(Checks) : Cardinality(Passed(i)) <= Taken(i)

\* ... in Django not even past a repetition of it.
RepeatingCosts ==
  adapter = "django" =>
    \A i \in 1..Len(Checks) : Cardinality(Passages(i)) <= spent[Checks[i]]

AdmissionInv ==
  /\ UnitTypes
  /\ ~shadowed => PassingCosts /\ RepeatingCosts

(* An effective limit is one to MaxLimit. *)
LEMMA EffectiveInRange ==
  ASSUME NEW limit \in 1..MaxLimit
  PROVE  EffectiveLimits(limit) \subseteq 1..MaxLimit
BY DEF EffectiveLimits

LEMMA RuleIsBucket ==
  ASSUME NEW i \in 1..Len(Checks), NEW l \in 1..MaxLimit
  PROVE  /\ Rule(Checks[i].route, l) \in Buckets
         /\ Rule(Checks[i].route, l).limit = l
         /\ Checks[i].limit \in 1..MaxLimit
         /\ Checks[i] = Rule(Checks[i].route, Checks[i].limit)
BY ChecksAre DEF Rule, Buckets

LEMMA UnitSums ==
  ASSUME UnitTypes, NEW i \in 1..Len(Checks)
  PROVE  /\ IsFiniteSet(limitsUsed[i]) /\ limitsUsed[i] \subseteq 1..MaxLimit
         /\ \A l \in 1..MaxLimit : TakenBy(i)[l] \in Nat /\ TakenBy(i)[l] <= l
         /\ Taken(i) \in Nat
<1>1. limitsUsed[i] \subseteq 1..MaxLimit
  BY DEF UnitTypes
<1>2. IsFiniteSet(limitsUsed[i])
  <2>1. IsFiniteSet(1..MaxLimit)
    BY FS_Interval, LimiterAssumption
  <2>2. QED
    BY <1>1, <2>1, FS_Subset
<1>3. \A l \in 1..MaxLimit : TakenBy(i)[l] \in Nat /\ TakenBy(i)[l] <= l
  <2> SUFFICES ASSUME NEW l \in 1..MaxLimit
               PROVE  TakenBy(i)[l] \in Nat /\ TakenBy(i)[l] <= l
    OBVIOUS
  <2>1. /\ Rule(Checks[i].route, l) \in Buckets
        /\ Rule(Checks[i].route, l).limit = l
    BY RuleIsBucket
  <2>2. TakenBy(i)[l] = spent[Rule(Checks[i].route, l)]
    BY DEF TakenBy
  <2>3. QED
    BY <2>1, <2>2 DEF UnitTypes
<1>4. Taken(i) \in Nat
  BY <1>1, <1>2, <1>3, SumIsNat DEF Taken
<1>5. QED
  BY <1>1, <1>2, <1>3, <1>4

LEMMA CrowdsAreFinite ==
  /\ IsFiniteSet(Viewed)
  /\ \A i : IsFiniteSet(Passed(i))
  /\ \A i : IsFiniteSet(Alike(i)) /\ IsFiniteSet(Passages(i))
<1>1. IsFiniteSet(Requests)
  BY LimiterAssumption
<1>2. IsFiniteSet(Viewed) /\ \A i : IsFiniteSet(Passed(i))
  BY <1>1, FS_Subset DEF Viewed, Passed
<1>3. ASSUME NEW i PROVE IsFiniteSet(Alike(i)) /\ IsFiniteSet(Passages(i))
  <2>1. IsFiniteSet(1..Len(Checks))
    BY FS_Interval, ChecksAre, LenProperties
  <2>2. IsFiniteSet(Alike(i))
    BY <2>1, FS_Subset DEF Alike
  <2>3. IsFiniteSet(Requests \X Alike(i))
    BY <1>1, <2>2, FS_Product
  <2>4. QED
    BY <2>2, <2>3, FS_Subset DEF Passages
<1>4. QED
  BY <1>2, <1>3

LEMMA OneMore ==
  ASSUME NEW S, IsFiniteSet(S), NEW x, NEW T, T \subseteq S \union {x}
  PROVE  /\ IsFiniteSet(T) /\ Cardinality(S) \in Nat /\ Cardinality(T) \in Nat
         /\ Cardinality(T) <= Cardinality(S) + 1
         /\ T \subseteq S => Cardinality(T) <= Cardinality(S)
<1>1. /\ IsFiniteSet(S \union {x}) /\ Cardinality(S) \in Nat
      /\ Cardinality(S \union {x}) <= Cardinality(S) + 1
  <2>1. Cardinality(S) \in Nat
    BY FS_CardinalityType
  <2>2. /\ IsFiniteSet(S \union {x})
        /\ Cardinality(S \union {x})
             = IF x \in S THEN Cardinality(S) ELSE Cardinality(S) + 1
    BY FS_AddElement
  <2>3. QED
    BY <2>1, <2>2
<1>2. /\ IsFiniteSet(T) /\ Cardinality(T) <= Cardinality(S \union {x})
      /\ Cardinality(T) \in Nat /\ Cardinality(S \union {x}) \in Nat
  BY <1>1, FS_Subset, FS_CardinalityType
<1>3. T \subseteq S => Cardinality(T) <= Cardinality(S)
  BY FS_Subset
<1>4. QED
  BY <1>1, <1>2, <1>3

(***************************************************************************)
(* A unit taken from a bucket raises what the rules of that bucket took.   *)
(***************************************************************************)
LEMMA TakenGrows ==
  ASSUME UnitTypes, UnitTypes', Checks' = Checks, NEW i \in 1..Len(Checks),
         NEW b \in Buckets, NEW c \in {0, 1}, spent' = [spent EXCEPT ![b] = @ + c],
         limitsUsed[i] \subseteq limitsUsed'[i]
  PROVE  /\ Taken(i) \in Nat /\ Taken(i)' \in Nat
         /\ Taken(i) <= Taken(i)'
         /\ c = 1 /\ b.route = Checks[i].route /\ b.limit \in limitsUsed'[i]
              => Taken(i) + 1 <= Taken(i)'
<1> DEFINE S == limitsUsed[i]
           T == limitsUsed'[i]
           g == TakenBy(i)
           h == TakenBy(i)'
           l == b.limit
<1>1. /\ IsFiniteSet(S) /\ S \subseteq 1..MaxLimit /\ Taken(i) \in Nat
      /\ \A x \in 1..MaxLimit : g[x] \in Nat
  BY UnitSums
<1>2. /\ IsFiniteSet(T) /\ T \subseteq 1..MaxLimit /\ Taken(i)' \in Nat
      /\ \A x \in 1..MaxLimit : h[x] \in Nat
  <2>1. T \subseteq 1..MaxLimit
    BY DEF UnitTypes
  <2>2. IsFiniteSet(T)
    <3>1. IsFiniteSet(1..MaxLimit)
      BY FS_Interval, LimiterAssumption
    <3>2. QED
      BY <2>1, <3>1, FS_Subset
  <2>3. \A x \in 1..MaxLimit : h[x] \in Nat
    <3>1. \A x \in 1..MaxLimit : h[x] = spent'[Rule(Checks[i].route, x)]
      BY DEF TakenBy, Rule
    <3>2. \A x \in 1..MaxLimit : Rule(Checks[i].route, x) \in Buckets
      BY RuleIsBucket
    <3>3. QED
      BY <3>1, <3>2 DEF UnitTypes, Buckets
  <2>4. Taken(i)' = SumOver(h, T)
    BY DEF Taken
  <2> HIDE DEF h, T
  <2>5. \A x \in T : h[x] \in Nat
    BY <2>1, <2>3
  <2>6. SumOver(h, T) \in Nat
    BY <2>2, <2>5, SumIsNat
  <2>7. QED
    BY <2>1, <2>2, <2>3, <2>4, <2>6
<1>3. l \in 1..MaxLimit /\ b = Rule(b.route, l)
  BY DEF Buckets, Rule
<1>4. /\ b.route = Checks[i].route => h[l] = g[l] + c
      /\ b.route # Checks[i].route => h[l] = g[l]
      /\ \A x \in (1..MaxLimit) \ {l} : h[x] = g[x]
  <2>1. \A x \in 1..MaxLimit : /\ g[x] = spent[Rule(Checks[i].route, x)]
                               /\ h[x] = spent'[Rule(Checks[i].route, x)]
    BY DEF TakenBy, Rule
  <2>2. \A x \in 1..MaxLimit : /\ Rule(Checks[i].route, x) \in Buckets
                               /\ Rule(Checks[i].route, x).limit = x
                               /\ Rule(Checks[i].route, x).route = Checks[i].route
    BY RuleIsBucket DEF Rule
  <2>3. \A d \in Buckets : spent'[d] = IF d = b THEN spent[d] + c ELSE spent[d]
    BY DEF UnitTypes
  <2>4. QED
    BY <1>3, <2>1, <2>2, <2>3
<1>5. Taken(i) = SumOver(g, S) /\ Taken(i)' = SumOver(h, T)
  BY DEF Taken
<1> HIDE DEF S, T, g, h, l
<1>6. SumOver(g, S) <= SumOver(g, T) /\ SumOver(g, T) \in Nat
  <2>1. S \subseteq T /\ \A x \in T : g[x] \in Nat
    BY <1>1, <1>2 DEF S, T
  <2>2. QED
    BY <1>2, <2>1, SumOfPart, SumIsNat
<1>7. /\ l \in T => SumOver(h, T) = SumOver(g, T) + (h[l] - g[l])
      /\ l \notin T => SumOver(h, T) = SumOver(g, T)
  <2>1. /\ \A x \in T : g[x] \in Int /\ h[x] \in Int
        /\ \A x \in T \ {l} : h[x] = g[x]
    <3>1. T \subseteq 1..MaxLimit
      BY <1>2
    <3>2. \A x \in T : g[x] \in Nat /\ h[x] \in Nat
      BY <1>1, <1>2, <3>1
    <3>3. \A x \in T \ {l} : h[x] = g[x]
      BY <1>4, <3>1
    <3>4. QED
      BY <3>2, <3>3
  <2>2. QED
    BY ONLY <1>2, <2>1, SumChanged
<1>8. g[l] \in Nat /\ h[l] \in Nat
  BY <1>1, <1>2, <1>3
<1>9. /\ h[l] - g[l] \in {0, 1}
      /\ c = 1 /\ b.route = Checks[i].route => h[l] - g[l] = 1
  BY <1>4, <1>8
<1>10. SumOver(g, S) \in Nat /\ SumOver(h, T) \in Nat
  BY <1>1, <1>2, <1>5
<1>11. /\ SumOver(g, S) <= SumOver(h, T)
       /\ c = 1 /\ b.route = Checks[i].route /\ l \in T
            => SumOver(g, S) + 1 <= SumOver(h, T)
  BY <1>6, <1>7, <1>8, <1>9, <1>10
<1>12. QED
  BY <1>1, <1>2, <1>5, <1>11 DEF l, T

(* Whoever takes no unit passes no check. *)
LEMMA NobodyPasses ==
  ASSUME FailureInv, NEW r \in Requests, NEW a, NEW m, Checks' = Checks,
         at' = [at EXCEPT ![r] = a], met' = [met EXCEPT ![r] = m],
         m = "none" => met[r] = "none" /\ a \in {1, at[r]}
  PROVE  \A i \in 1..Len(Checks) :
           Passed(i)' \subseteq Passed(i) /\ Passages(i)' \subseteq Passages(i)
<1>1. ASSUME NEW p \in Requests, met'[p] = "none"
      PROVE  met[p] = "none" /\ (at'[p] = at[p] \/ at'[p] = 1)
  BY <1>1 DEF FailureInv
<1>2. \A p \in Requests : at[p] \in Nat /\ at[p] >= 0
  BY ChecksAre, LenProperties DEF FailureInv
<1>3. ASSUME NEW p \in Requests, met'[p] = "none", NEW j \in 1..Len(Checks), j < at'[p]
      PROVE  met[p] = "none" /\ j < at[p]
  BY <1>1, <1>2, <1>3
<1>4. \A i : Alike(i)' = Alike(i) /\ Alike(i) \subseteq 1..Len(Checks)
  BY DEF Alike
<1>5. \A i \in 1..Len(Checks) : Passed(i)' \subseteq Passed(i)
  BY <1>2, <1>3 DEF Passed
<1>6. ASSUME NEW i, NEW c \in Passages(i)' PROVE c \in Passages(i)
  <2>1. /\ c \in Requests \X Alike(i) /\ met'[c[1]] = "none" /\ c[2] < at'[c[1]]
    BY <1>4 DEF Passages
  <2>2. c[1] \in Requests /\ c[2] \in 1..Len(Checks)
    BY <1>4, <2>1
  <2>3. met[c[1]] = "none" /\ c[2] < at[c[1]]
    BY <1>3, <2>1, <2>2
  <2>4. QED
    BY <2>1, <2>3 DEF Passages
<1>7. QED
  BY <1>5, <1>6

(***************************************************************************)
(* A step on which nobody passes a check, whatever units it takes.         *)
(***************************************************************************)
LEMMA CostsStay ==
  ASSUME UnitTypes, UnitTypes', PassingCosts, RepeatingCosts,
         Checks' = Checks, adapter' = adapter,
         NEW b \in Buckets, NEW c \in {0, 1}, spent' = [spent EXCEPT ![b] = @ + c],
         \A i \in 1..Len(Checks) :
           /\ limitsUsed[i] \subseteq limitsUsed'[i]
           /\ Passed(i)' \subseteq Passed(i) /\ Passages(i)' \subseteq Passages(i)
  PROVE  PassingCosts' /\ RepeatingCosts'
<1>1. ASSUME NEW i \in 1..Len(Checks) PROVE Cardinality(Passed(i)') <= Taken(i)'
  <2>1. Taken(i) \in Nat /\ Taken(i)' \in Nat /\ Taken(i) <= Taken(i)'
    BY TakenGrows
  <2>2. IsFiniteSet(Passed(i)) /\ Passed(i)' \subseteq Passed(i)
    BY CrowdsAreFinite
  <2>3. /\ Cardinality(Passed(i)') <= Cardinality(Passed(i))
        /\ Cardinality(Passed(i)') \in Nat /\ Cardinality(Passed(i)) \in Nat
    BY <2>2, FS_Subset, FS_CardinalityType
  <2>4. Cardinality(Passed(i)) <= Taken(i)
    BY DEF PassingCosts
  <2>5. QED
    BY <2>1, <2>3, <2>4
<1>2. ASSUME adapter = "django", NEW i \in 1..Len(Checks)
      PROVE  Cardinality(Passages(i)') <= spent'[Checks[i]]
  <2>1. Checks[i] \in Buckets
    BY ChecksAre
  <2>2. /\ spent[Checks[i]] \in Nat /\ spent'[Checks[i]] \in Nat
        /\ spent[Checks[i]] <= spent'[Checks[i]]
    BY <2>1 DEF UnitTypes
  <2>3. IsFiniteSet(Passages(i)) /\ Passages(i)' \subseteq Passages(i)
    BY CrowdsAreFinite
  <2>4. /\ Cardinality(Passages(i)') <= Cardinality(Passages(i))
        /\ Cardinality(Passages(i)') \in Nat /\ Cardinality(Passages(i)) \in Nat
    BY <2>3, FS_Subset, FS_CardinalityType
  <2>5. Cardinality(Passages(i)) <= spent[Checks[i]]
    BY <1>2 DEF RepeatingCosts
  <2>6. QED
    BY <2>2, <2>4, <2>5
<1>3. PassingCosts'
  BY <1>1 DEF PassingCosts
<1>4. RepeatingCosts'
  BY <1>2 DEF RepeatingCosts
<1>5. QED
  BY <1>3, <1>4

(***************************************************************************)
(* A request passes a check, for a unit of the bucket of the rule.         *)
(***************************************************************************)
LEMMA PassingIsPaid ==
  ASSUME FailureInv, UnitTypes, UnitTypes', PassingCosts, RepeatingCosts,
         Checks' = Checks, adapter' = adapter, met' = met,
         NEW r \in Requests, at[r] \in 1..Len(Checks), at' = [at EXCEPT ![r] = @ + 1],
         NEW limit \in EffectiveLimits(Checks[at[r]].limit),
         NEW b \in Buckets, b = Rule(Checks[at[r]].route, limit),
         spent' = [spent EXCEPT ![b] = @ + 1],
         limitsUsed' = [limitsUsed EXCEPT ![at[r]] = @ \union {limit}]
  PROVE  PassingCosts' /\ RepeatingCosts'
<1>1. PICK k \in 1..Len(Checks) : k = at[r]
  OBVIOUS
<1>2. /\ \A p \in Requests : at[p] \in Nat
      /\ at'[r] = k + 1 /\ \A p \in Requests \ {r} : at'[p] = at[p]
      /\ k \in Nat
  BY <1>1, ChecksAre, LenProperties DEF FailureInv
<1>3. /\ \A i \in 1..Len(Checks) : limitsUsed[i] \subseteq limitsUsed'[i]
      /\ limit \in limitsUsed'[k]
  BY <1>1 DEF UnitTypes
<1>4. b.route = Checks[k].route /\ b.limit = limit
  BY <1>1 DEF Rule
<1>5. ASSUME NEW i \in 1..Len(Checks) PROVE Cardinality(Passed(i)') <= Taken(i)'
  <2>1. /\ Taken(i) \in Nat /\ Taken(i)' \in Nat /\ Taken(i) <= Taken(i)'
        /\ i = k => Taken(i) + 1 <= Taken(i)'
    <3>1. 1 \in {0, 1} /\ limitsUsed[i] \subseteq limitsUsed'[i]
      BY <1>3
    <3>2. /\ Taken(i) \in Nat /\ Taken(i)' \in Nat /\ Taken(i) <= Taken(i)'
          /\ 1 = 1 /\ b.route = Checks[i].route /\ b.limit \in limitsUsed'[i]
                => Taken(i) + 1 <= Taken(i)'
      BY <3>1, TakenGrows
    <3>3. QED
      BY <1>3, <1>4, <3>2
  <2>2. Passed(i)' \subseteq Passed(i) \union {r} /\ (i # k => Passed(i)' \subseteq Passed(i))
    <3> SUFFICES ASSUME NEW p \in Passed(i)', p # r \/ i # k
                 PROVE  p \in Passed(i)
      OBVIOUS
    <3>1. p \in Requests /\ met[p] = "none" /\ at'[p] > i
      BY DEF Passed
    <3>2. at[p] > i
      BY <1>1, <1>2, <3>1
    <3>3. QED
      BY <3>1, <3>2 DEF Passed
  <2>3. /\ Cardinality(Passed(i)) \in Nat /\ Cardinality(Passed(i)') \in Nat
        /\ Cardinality(Passed(i)') <= Cardinality(Passed(i)) + 1
        /\ i # k => Cardinality(Passed(i)') <= Cardinality(Passed(i))
    BY <2>2, CrowdsAreFinite, OneMore
  <2>4. Cardinality(Passed(i)) <= Taken(i)
    BY DEF PassingCosts
  <2>5. QED
    BY <2>1, <2>3, <2>4
<1>6. ASSUME adapter = "django", NEW i \in 1..Len(Checks)
      PROVE  Cardinality(Passages(i)') <= spent'[Checks[i]]
  <2>1. b = Checks[k]
    <3>1. limit = Checks[k].limit
      BY <1>1, <1>6 DEF EffectiveLimits
    <3>2. Checks[k].limit \in 1..MaxLimit /\ Checks[k] = Rule(Checks[k].route, Checks[k].limit)
      BY RuleIsBucket, ChecksAre DEF Buckets
    <3>3. b = Rule(Checks[k].route, limit)
      BY <1>1
    <3>4. QED
      BY <3>1, <3>2, <3>3
  <2>2. Checks[i] \in Buckets
    BY ChecksAre
  <2>3. /\ spent[Checks[i]] \in Nat /\ spent'[Checks[i]] \in Nat
        /\ Checks[i] = Checks[k] => spent'[Checks[i]] = spent[Checks[i]] + 1
        /\ Checks[i] # Checks[k] => spent'[Checks[i]] = spent[Checks[i]]
    BY <2>1, <2>2 DEF UnitTypes
  <2>4. /\ Passages(i)' \subseteq Passages(i) \union {<<r, k>>}
        /\ Checks[i] # Checks[k] => Passages(i)' \subseteq Passages(i)
    <3> SUFFICES ASSUME NEW c \in Passages(i)', c # <<r, k>> \/ Checks[i] # Checks[k]
                 PROVE  c \in Passages(i)
      OBVIOUS
    <3>1. /\ c \in Requests \X Alike(i) /\ met[c[1]] = "none" /\ c[2] < at'[c[1]]
      BY DEF Passages, Alike
    <3>2. /\ c[1] \in Requests /\ c[2] \in 1..Len(Checks) /\ Checks[c[2]] = Checks[i]
          /\ c = <<c[1], c[2]>>
      BY <3>1 DEF Alike
    <3>3. c[2] < at[c[1]]
      <4>1. CASE c[1] # r
        BY <1>2, <3>1, <3>2, <4>1
      <4>2. CASE c[1] = r
        <5>1. c[2] # k
          BY <3>2, <4>2
        <5>2. c[2] \in Nat
          BY <3>2, ChecksAre, LenProperties
        <5>3. QED
          BY <1>1, <1>2, <3>1, <4>2, <5>1, <5>2
      <4>3. QED
        BY <4>1, <4>2
    <3>4. QED
      BY <3>1, <3>3 DEF Passages
  <2>5. /\ Cardinality(Passages(i)) \in Nat /\ Cardinality(Passages(i)') \in Nat
        /\ Cardinality(Passages(i)') <= Cardinality(Passages(i)) + 1
        /\ Checks[i] # Checks[k] => Cardinality(Passages(i)') <= Cardinality(Passages(i))
    BY <2>4, CrowdsAreFinite, OneMore
  <2>6. Cardinality(Passages(i)) <= spent[Checks[i]]
    BY <1>6 DEF RepeatingCosts
  <2>7. QED
    BY <2>3, <2>5, <2>6
<1>7. PassingCosts'
  BY <1>5 DEF PassingCosts
<1>8. RepeatingCosts'
  BY <1>6 DEF RepeatingCosts
<1>9. QED
  BY <1>7, <1>8

LEMMA AdmissionStarts == LimiterInit => AdmissionInv
<1> SUFFICES ASSUME LimiterInit PROVE AdmissionInv
  OBVIOUS
<1>1. MaxLimit \in Nat \ {0} /\ Len(Checks) \in Nat
  BY LimiterAssumption, ChecksAre, LenProperties
<1>2. Cardinality(Viewed) \in Nat
  BY CrowdsAreFinite, FS_CardinalityType
<1>3. UnitTypes
  BY <1>1, <1>2 DEF LimiterInit, UnitTypes, Buckets
<1>4. ASSUME NEW i \in 1..Len(Checks)
      PROVE  Cardinality(Passed(i)) <= Taken(i) /\ Cardinality(Passages(i)) <= spent[Checks[i]]
  <2>1. Passed(i) = {}
    BY <1>1 DEF LimiterInit, Passed
  <2>2. Passages(i) = {}
    <3>1. ASSUME NEW c \in Passages(i) PROVE FALSE
      <4>1. c[1] \in Requests /\ c[2] \in 1..Len(Checks) /\ c[2] < at[c[1]]
        BY DEF Passages, Alike
      <4>2. QED
        BY <1>1, <4>1 DEF LimiterInit
    <3>2. QED
      BY <3>1
  <2>3. Cardinality(Passed(i)) = 0 /\ Cardinality(Passages(i)) = 0
    BY <2>1, <2>2, FS_EmptySet
  <2>4. Taken(i) \in Nat
    BY <1>3, UnitSums
  <2>5. spent[Checks[i]] = 0
    BY ChecksAre DEF LimiterInit
  <2>6. QED
    BY <2>3, <2>4, <2>5
<1>5. QED
  BY <1>3, <1>4 DEF AdmissionInv, PassingCosts, RepeatingCosts

(* A step of a request that passes no check. *)
LEMMA AdmissionKept ==
  ASSUME FailureInv, AdmissionInv, UnitTypes', NEW r \in Requests, NEW a, NEW m,
         Rest, spent' = spent, limitsUsed' = limitsUsed,
         at' = [at EXCEPT ![r] = a], met' = [met EXCEPT ![r] = m],
         m = "none" => met[r] = "none" /\ a \in {1, at[r]}
  PROVE  AdmissionInv'
<1>1. Checks' = Checks /\ adapter' = adapter /\ shadowed' = shadowed
  BY ChecksStay DEF Rest
<1>2. CASE shadowed
  BY <1>1, <1>2 DEF AdmissionInv
<1>3. CASE ~shadowed
  <2>1. UnitTypes /\ PassingCosts /\ RepeatingCosts
    BY <1>3 DEF AdmissionInv
  <2>2. PICK b \in Buckets : TRUE
    <3>1. 1 \in 1..MaxLimit
      BY LimiterAssumption
    <3>2. Rule("global", 1) \in Buckets
      BY <3>1 DEF Rule, Buckets
    <3>3. QED
      BY <3>2
  <2>3. 0 \in {0, 1} /\ spent' = [spent EXCEPT ![b] = @ + 0]
    BY <2>1, <2>2 DEF UnitTypes
  <2>4. \A i \in 1..Len(Checks) :
          /\ limitsUsed[i] \subseteq limitsUsed'[i]
          /\ Passed(i)' \subseteq Passed(i) /\ Passages(i)' \subseteq Passages(i)
    BY <1>1, NobodyPasses
  <2>5. PassingCosts' /\ RepeatingCosts'
    BY <1>1, <2>1, <2>2, <2>3, <2>4, CostsStay
  <2>6. QED
    BY <2>5 DEF AdmissionInv
<1>4. QED
  BY <1>2, <1>3

(* The types of what a step may change, once the units are accounted for. *)
LEMMA UnitTypesKept ==
  ASSUME FailureInv, UnitTypes, Rest, NEW r \in Requests, NEW a, NEW s, NEW m,
         response[r] = "none",
         at' = [at EXCEPT ![r] = a], response' = [response EXCEPT ![r] = s],
         met' = [met EXCEPT ![r] = m],
         \/ ran' = ran
         \/ ran' = ran + 1 /\ m = "none" /\ s # "none" /\ a = Len(Checks) + 1,
         \/ UNCHANGED <<spent, limitsUsed>>
         \/ /\ spent' \in [Buckets -> Nat] /\ \A b \in Buckets : spent'[b] <= b.limit
            /\ limitsUsed' \in [1..Len(Checks) -> SUBSET (1..MaxLimit)]
            /\ \A i \in 1..Len(Checks) :
                 limitsUsed'[i] \subseteq EffectiveLimits(Checks[i].limit)
  PROVE  UnitTypes'
<1>1. Checks' = Checks
  BY ChecksStay
<1>2. \A limit : EffectiveLimits(limit)' = EffectiveLimits(limit)
  BY DEF EffectiveLimits, Rest
<1>3. ran' \in Nat /\ ran' <= Cardinality(Viewed')
  <2>1. IsFiniteSet(Viewed) /\ IsFiniteSet(Viewed')
    BY LimiterAssumption, FS_Subset DEF Viewed
  <2>2. r \notin Viewed
    BY DEF Viewed
  <2>3. \A p \in Requests \ {r} : /\ at'[p] = at[p] /\ met'[p] = met[p]
                                  /\ response'[p] = response[p]
    BY DEF FailureInv
  <2>4. Viewed \subseteq Viewed'
    BY <1>1, <2>2, <2>3 DEF Viewed
  <2>5. Cardinality(Viewed) \in Nat /\ Cardinality(Viewed') \in Nat
    BY <2>1, FS_CardinalityType
  <2>6. Cardinality(Viewed) <= Cardinality(Viewed')
    BY <2>1, <2>4, FS_Subset
  <2>7. CASE ran' = ran
    BY <2>5, <2>6, <2>7 DEF UnitTypes
  <2>8. CASE ran' = ran + 1 /\ m = "none" /\ s # "none" /\ a = Len(Checks) + 1
    <3>1. r \in Viewed'
      <4>1. at'[r] = a /\ met'[r] = m /\ response'[r] = s
        BY DEF FailureInv
      <4>2. QED
        BY <1>1, <2>8, <4>1 DEF Viewed
    <3>2. Viewed \union {r} \subseteq Viewed'
      BY <2>4, <3>1
    <3>3. Cardinality(Viewed \union {r}) = Cardinality(Viewed) + 1
      BY <2>1, <2>2, FS_AddElement
    <3>4. Cardinality(Viewed \union {r}) <= Cardinality(Viewed')
      BY <2>1, <3>2, FS_Subset
    <3>5. QED
      BY <2>5, <2>8, <3>3, <3>4 DEF UnitTypes
  <2>9. QED
    BY <2>7, <2>8
<1>4. /\ spent' \in [Buckets -> Nat] /\ \A b \in Buckets : spent'[b] <= b.limit
      /\ limitsUsed' \in [1..Len(Checks) -> SUBSET (1..MaxLimit)]
      /\ \A i \in 1..Len(Checks) : limitsUsed'[i] \subseteq EffectiveLimits(Checks[i].limit)
  BY DEF UnitTypes
<1>5. QED
  BY <1>1, <1>2, <1>3, <1>4 DEF UnitTypes

LEMMA CheckAdmits ==
  ASSUME FailureInv, AdmissionInv, NEW r \in Requests, Check(r)
  PROVE  AdmissionInv'
<1>1. /\ response[r] = "none" /\ at[r] \in 1..Len(Checks) /\ Rest
      /\ met' = [met EXCEPT ![r] = met[r]] /\ ran' = ran
      /\ Checks' = Checks /\ adapter' = adapter /\ shadowed' = shadowed
      /\ UnitTypes
  BY ChecksStay, ChecksAre, LenProperties
  DEF FailureInv, AdmissionInv, Check, Pending, Rest
<1>2. PICK limit \in EffectiveLimits(Checks[at[r]].limit) :
        LET b == Rule(Checks[at[r]].route, limit) IN
        /\ limitsUsed' = [limitsUsed EXCEPT ![at[r]] = @ \union {limit}]
        /\ spent' = [spent EXCEPT ![b] = IF Fits(b) THEN @ + 1 ELSE @]
        /\ \/ /\ Fits(b) \/ shadowed
              /\ at' = [at EXCEPT ![r] = @ + 1]
              /\ UNCHANGED response
           \/ /\ ~Fits(b) /\ ~shadowed
              /\ Deny(r)
              /\ UNCHANGED at
  BY DEF Check
<1> DEFINE b == Rule(Checks[at[r]].route, limit)
<1>3. limit \in 1..MaxLimit /\ b \in Buckets /\ b.limit = limit
  <2>1. Checks[at[r]].limit \in 1..MaxLimit
    BY <1>1, ChecksAre DEF Buckets
  <2>2. limit \in 1..MaxLimit
    BY <1>2, <2>1, EffectiveInRange
  <2>3. QED
    BY <1>1, <2>2, RuleIsBucket
<1>4. /\ limitsUsed' = [limitsUsed EXCEPT ![at[r]] = @ \union {limit}]
      /\ spent' = [spent EXCEPT ![b] = IF Fits(b) THEN @ + 1 ELSE @]
  BY <1>2
<1>5. \E a, s : /\ at' = [at EXCEPT ![r] = a] /\ response' = [response EXCEPT ![r] = s]
                /\ \/ (Fits(b) \/ shadowed) /\ a = at[r] + 1
                   \/ ~Fits(b) /\ ~shadowed /\ a = at[r]
  <2>1. CASE /\ Fits(b) \/ shadowed
             /\ at' = [at EXCEPT ![r] = @ + 1] /\ UNCHANGED response
    <3>1. response' = [response EXCEPT ![r] = response[r]]
      BY <2>1 DEF FailureInv
    <3>2. QED
      BY <2>1, <3>1
  <2>2. CASE ~Fits(b) /\ ~shadowed /\ Deny(r) /\ UNCHANGED at
    <3>1. at' = [at EXCEPT ![r] = at[r]]
      BY <2>2 DEF FailureInv
    <3>2. \E s : response' = [response EXCEPT ![r] = s]
      BY <2>2 DEF Deny, Respond
    <3>3. QED
      BY <2>2, <3>1, <3>2
  <2>3. QED
    BY <1>2, <2>1, <2>2
<1>6. PICK a, s : /\ at' = [at EXCEPT ![r] = a] /\ response' = [response EXCEPT ![r] = s]
                  /\ \/ (Fits(b) \/ shadowed) /\ a = at[r] + 1
                     \/ ~Fits(b) /\ ~shadowed /\ a = at[r]
  BY <1>5
<1>7. /\ spent' \in [Buckets -> Nat] /\ \A d \in Buckets : spent'[d] <= d.limit
      /\ limitsUsed' \in [1..Len(Checks) -> SUBSET (1..MaxLimit)]
      /\ \A i \in 1..Len(Checks) : limitsUsed'[i] \subseteq EffectiveLimits(Checks[i].limit)
  <2>1. \A d \in Buckets : /\ spent[d] \in Nat /\ spent[d] <= d.limit /\ d.limit \in Nat
                           /\ spent'[d] = IF d = b /\ spent[d] < d.limit
                                          THEN spent[d] + 1 ELSE spent[d]
    <3>1. \A d \in Buckets : spent[d] \in Nat /\ spent[d] <= d.limit /\ d.limit \in Nat
      <4>1. \A d \in Buckets : d.limit \in Nat
        BY LimiterAssumption DEF Buckets
      <4>2. QED
        BY <1>1, <4>1 DEF UnitTypes
    <3>2. spent \in [Buckets -> Nat] /\ (Fits(b) <=> spent[b] < b.limit)
      BY <1>1 DEF UnitTypes, Fits
    <3> HIDE DEF b
    <3>3. \A d \in Buckets : spent'[d] = IF d = b /\ spent[d] < d.limit
                                         THEN spent[d] + 1 ELSE spent[d]
      BY <1>3, <1>4, <3>2
    <3>4. QED
      BY <3>1, <3>3
  <2>2. spent' = [d \in Buckets |-> spent'[d]]
    BY <1>1, <1>4 DEF UnitTypes
  <2>3. spent' \in [Buckets -> Nat] /\ \A d \in Buckets : spent'[d] <= d.limit
    BY <2>1, <2>2
  <2>4. limitsUsed' \in [1..Len(Checks) -> SUBSET (1..MaxLimit)]
    BY <1>1, <1>3, <1>4 DEF UnitTypes
  <2>5. \A i \in 1..Len(Checks) : limitsUsed'[i] \subseteq EffectiveLimits(Checks[i].limit)
    BY <1>1, <1>2, <1>4 DEF UnitTypes
  <2>6. QED
    BY <2>3, <2>4, <2>5
<1>8. UnitTypes'
  <2>1. met' = [met EXCEPT ![r] = met[r]] /\ ran' = ran
    BY <1>1
  <2> HIDE DEF b
  <2>2. QED
    BY <1>1, <1>6, <1>7, <2>1, UnitTypesKept
<1>9. CASE shadowed
  BY <1>1, <1>8, <1>9 DEF AdmissionInv
<1>10. CASE ~shadowed /\ Fits(b)
  <2>1. UnitTypes /\ PassingCosts /\ RepeatingCosts
    BY <1>10 DEF AdmissionInv
  <2>2. at' = [at EXCEPT ![r] = @ + 1] /\ spent' = [spent EXCEPT ![b] = @ + 1]
    BY <1>4, <1>6, <1>10
  <2>3. met' = met
    BY <1>1 DEF FailureInv
  <2>4. PassingCosts' /\ RepeatingCosts'
    <3>1. PICK c \in Buckets : c = b
      BY <1>3
    <3>2. /\ Checks' = Checks /\ adapter' = adapter /\ at[r] \in 1..Len(Checks)
          /\ limit \in EffectiveLimits(Checks[at[r]].limit)
          /\ limitsUsed' = [limitsUsed EXCEPT ![at[r]] = @ \union {limit}]
          /\ c = Rule(Checks[at[r]].route, limit)
          /\ FailureInv
      BY <1>1, <1>2, <1>4, <3>1
    <3> HIDE DEF b
    <3>3. spent' = [spent EXCEPT ![c] = @ + 1]
      BY <2>2, <3>1
    <3>4. QED
      BY ONLY <1>8, <2>1, <2>2, <2>3, <3>2, <3>3, PassingIsPaid
  <2>5. QED
    BY <1>8, <2>4 DEF AdmissionInv
<1>11. CASE ~shadowed /\ ~Fits(b)
  <2>1. UnitTypes /\ PassingCosts /\ RepeatingCosts
    BY <1>11 DEF AdmissionInv
  <2>2. 0 \in {0, 1} /\ spent' = [spent EXCEPT ![b] = @ + 0]
    <3>1. spent \in [Buckets -> Nat] /\ spent[b] \in Nat
      BY <1>3, <2>1 DEF UnitTypes
    <3>2. spent' = [spent EXCEPT ![b] = spent[b]]
      BY <1>4, <1>11
    <3> HIDE DEF b
    <3>3. spent[b] + 0 = spent[b]
      BY <3>1
    <3>4. QED
      BY <3>2, <3>3
  <2>3. a = at[r]
    BY <1>6, <1>11
  <2>4. \A i \in 1..Len(Checks) :
          Passed(i)' \subseteq Passed(i) /\ Passages(i)' \subseteq Passages(i)
    BY <1>1, <1>6, <2>3, NobodyPasses
  <2>5. \A i \in 1..Len(Checks) : limitsUsed[i] \subseteq limitsUsed'[i]
    BY <1>4, <2>1 DEF UnitTypes
  <2>6. PassingCosts' /\ RepeatingCosts'
    BY <1>1, <1>3, <1>8, <2>1, <2>2, <2>4, <2>5, CostsStay
  <2>7. QED
    BY <1>8, <2>6 DEF AdmissionInv
<1>12. QED
  BY <1>9, <1>10, <1>11

LEMMA AdmissionPreserves ==
  ASSUME FailureInv, AdmissionInv, NEW r \in Requests,
         Arrive(r) \/ TurnAway(r) \/ Check(r) \/ FailCheck(r) \/ Handle(r)
  PROVE  AdmissionInv'
<1>1. UnitTypes
  BY DEF AdmissionInv
<1>2. /\ at = [at EXCEPT ![r] = at[r]] /\ met = [met EXCEPT ![r] = met[r]]
      /\ response = [response EXCEPT ![r] = response[r]]
  BY DEF FailureInv
<1>3. CASE Check(r)
  BY <1>3, CheckAdmits
<1>4. ASSUME NEW a, NEW s, NEW m, Rest, response[r] = "none",
             UNCHANGED <<spent, limitsUsed>>,
             at' = [at EXCEPT ![r] = a], response' = [response EXCEPT ![r] = s],
             met' = [met EXCEPT ![r] = m],
             \/ ran' = ran
             \/ ran' = ran + 1 /\ m = "none" /\ s # "none" /\ a = Len(Checks) + 1,
             m = "none" => met[r] = "none" /\ a \in {1, at[r]}
      PROVE  AdmissionInv'
  <2>1. UnitTypes'
    BY <1>1, <1>4, UnitTypesKept
  <2>2. QED
    BY <1>4, <2>1, AdmissionKept
<1>5. CASE Arrive(r)
  <2>1. /\ Rest /\ response[r] = "none" /\ UNCHANGED <<spent, limitsUsed>> /\ ran' = ran
        /\ at' = [at EXCEPT ![r] = 1] /\ response' = [response EXCEPT ![r] = response[r]]
        /\ met' = [met EXCEPT ![r] = met[r]]
    BY <1>2, <1>5 DEF Arrive, FailureInv
  <2>2. QED
    BY <1>4, <2>1
<1>6. CASE TurnAway(r)
  <2>1. PICK s : response' = [response EXCEPT ![r] = s]
    BY <1>6 DEF TurnAway, Respond
  <2>2. /\ Rest /\ response[r] = "none" /\ UNCHANGED <<spent, limitsUsed>> /\ ran' = ran
        /\ at' = [at EXCEPT ![r] = at[r]] /\ met' = [met EXCEPT ![r] = met[r]]
    BY <1>2, <1>6 DEF TurnAway, Pending
  <2>3. QED
    BY <1>4, <2>1, <2>2
<1>7. CASE FailCheck(r)
  <2> DEFINE m == Checks[at[r]].route
  <2>1. at[r] \in 1..Len(Checks)
    BY <1>7, ChecksAre, LenProperties DEF FailCheck, Pending, FailureInv
  <2>2. m # "none"
    BY <2>1, ChecksAre
  <2>3. PICK a, s : at' = [at EXCEPT ![r] = a] /\ response' = [response EXCEPT ![r] = s]
    BY <1>2, <1>7 DEF FailCheck, Respond
  <2>4. /\ Rest /\ response[r] = "none" /\ UNCHANGED <<spent, limitsUsed>> /\ ran' = ran
        /\ met' = [met EXCEPT ![r] = m]
    BY <1>7 DEF FailCheck, Pending
  <2> HIDE DEF m
  <2>5. QED
    BY <1>4, <2>2, <2>3, <2>4
<1>8. CASE Handle(r)
  <2>1. PICK s \in {"200", "500"} : response' = [response EXCEPT ![r] = s]
    BY <1>8 DEF Handle, Respond
  <2>2. /\ Rest /\ response[r] = "none" /\ UNCHANGED <<spent, limitsUsed>>
        /\ ran' = ran \/ (ran' = ran + 1 /\ met[r] = "none" /\ at[r] = Len(Checks) + 1)
        /\ at' = [at EXCEPT ![r] = at[r]] /\ met' = [met EXCEPT ![r] = met[r]]
    BY <1>2, <1>8 DEF Handle, Pending
  <2>3. s # "none"
    BY <2>1
  <2>4. QED
    BY <1>4, <2>1, <2>2, <2>3
<1>9. QED
  BY <1>3, <1>5, <1>6, <1>7, <1>8

THEOREM AdmissionInvariant == AdaptersSpec => []AdmissionInv
<1>1. FailureInv /\ AdmissionInv /\ [AdaptersNext]_adapterVars => AdmissionInv'
  <2> SUFFICES ASSUME FailureInv, AdmissionInv, [AdaptersNext]_adapterVars
               PROVE  AdmissionInv'
    OBVIOUS
  <2>1. CASE UNCHANGED limiterVars
    <3>1. Checks' = Checks
      BY <2>1, ChecksStay DEF limiterVars, Rest
    <3>2. UnitTypes' = UnitTypes
      BY <2>1, <3>1 DEF limiterVars, UnitTypes, Viewed, EffectiveLimits
    <3>3. PassingCosts' = PassingCosts
      BY <2>1, <3>1 DEF limiterVars, PassingCosts, Passed, Taken, TakenBy, Rule
    <3>4. RepeatingCosts' = RepeatingCosts
      BY <2>1, <3>1 DEF limiterVars, RepeatingCosts, Passages, Alike
    <3>5. shadowed' = shadowed
      BY <2>1 DEF limiterVars
    <3>6. QED
      BY <3>2, <3>3, <3>4, <3>5 DEF AdmissionInv
  <2>2. CASE LimiterNext
    BY <2>2, AdmissionPreserves DEF LimiterNext
  <2>3. QED
    BY <2>1, <2>2 DEF AdaptersNext, adapterVars
<1>2. QED
  BY <1>1, AdmissionStarts, FailureInvariant, PTL DEF AdaptersSpec, AdaptersInit

(* Where a rule stands among the repetitions. *)
LEMMA RepeatedIs ==
  ASSUME NEW j \in 1..(Len(RouteLimits) * Len(RouteLimits))
  PROVE  RepeatedChecks[j]
           = Rule("route", RouteLimits[Len(RouteLimits) - ((j - 1) % Len(RouteLimits))])
<1> DEFINE D == 1..(Len(RouteLimits) * Len(RouteLimits))
           e(i) == Rule("route",
                        RouteLimits[Len(RouteLimits) - ((i - 1) % Len(RouteLimits))])
<1>1. RepeatedChecks = [i \in D |-> e(i)]
  BY Zenon DEF RepeatedChecks
<1>2. j \in D
  OBVIOUS
<1> HIDE DEF D, e
<1>3. RepeatedChecks[j] = e(j)
  BY <1>1, <1>2
<1>4. QED
  BY <1>3 DEF e

(* The place in a round does not depend on the round. *)
LEMMA PlaceInRound ==
  ASSUME NEW n \in Nat \ {0}, NEW q \in Nat, NEW s \in 0..(n - 1)
  PROVE  q * n + s \in Nat /\ (q * n + s) % n = s
<1> DEFINE x == q * n + s
           d == x \div n
           e == x % n
<1>1. q * n \in Nat /\ x \in Nat
  OBVIOUS
<1>2. d \in Int /\ e \in 0..(n - 1) /\ x = n * d + e
  BY <1>1
<1>3. x = n * q + s
  OBVIOUS
<1> HIDE DEF x, d, e
<1>4. n * d \in Int /\ n * q \in Int
  BY <1>2
<1>5. ~(d > q)
  <2> SUFFICES ASSUME d >= q + 1 PROVE FALSE
    BY <1>2
  <2>1. n * d >= n * q + n
    BY <1>2
  <2>2. QED
    BY <1>2, <1>3, <1>4, <2>1
<1>6. ~(d < q)
  <2> SUFFICES ASSUME q >= d + 1 PROVE FALSE
    BY <1>2
  <2>1. n * q >= n * d + n
    BY <1>2
  <2>2. QED
    BY <1>2, <1>3, <1>4, <2>1
<1>7. d = q
  BY <1>2, <1>5, <1>6
<1>8. e = s
  BY <1>2, <1>3, <1>4, <1>7
<1>9. QED
  BY <1>1, <1>8 DEF x, e

(***************************************************************************)
(* In Django a rule of a view is checked once for every decorator.         *)
(***************************************************************************)
LEMMA RepeatedOften ==
  ASSUME adapter = "django", NEW i \in 1..Len(Checks), Checks[i].route = "route"
  PROVE  Cardinality(Alike(i)) \in Nat /\ Len(RouteLimits) <= Cardinality(Alike(i))
<1> DEFINE n == Len(RouteLimits)
           g == Len(GlobalLimits)
           s == (i - g - 1) % n
           Place(q) == g + (q * n + s + 1)
<1>1. /\ n \in Nat /\ g \in Nat /\ Len(Checks) = g + n * n /\ ViewChecks = RepeatedChecks
      /\ i \in Nat
  BY LimitsAre, ChecksAre DEF ViewLength, ViewChecks
<1>2. i > g /\ i - g \in 1..(n * n) /\ Checks[i] = RepeatedChecks[i - g]
  <2>1. n * n \in Nat
    BY <1>1
  <2> HIDE DEF n, g
  <2>2. i > g
    BY <1>1, ChecksAre DEF g
  <2>3. i - g \in 1..(n * n)
    BY <1>1, <2>1, <2>2
  <2>4. Checks[i] = ViewChecks[i - g]
    BY <1>1, <2>2, ChecksAre DEF g
  <2>5. QED
    BY <1>1, <2>2, <2>3, <2>4
<1>3. n \in Nat \ {0}
  <2>1. n = 0 => n * n = 0
    OBVIOUS
  <2> HIDE DEF n
  <2>2. n # 0
    BY <1>2, <2>1
  <2>3. QED
    BY <1>1, <2>2
<1> HIDE DEF n, g
<1>4. s \in 0..(n - 1)
  BY <1>1, <1>2, <1>3
<1>5. Checks[i] = Rule("route", RouteLimits[n - s])
  BY <1>1, <1>2 DEF RepeatedChecks, n
<1> HIDE DEF s
<1>6. ASSUME NEW q \in 0..(n - 1)
      PROVE  q * n + s \in Nat /\ q * n + s + 1 <= n * n /\ Place(q) \in Alike(i)
  <2>1. q * n + s \in Nat /\ (q * n + s) % n = s /\ q * n \in Nat
    BY <1>3, <1>4, PlaceInRound
  <2>2. q * n + n <= n * n
    <3>1. q + 1 <= n /\ q \in Nat
      BY <1>3
    <3>2. (q + 1) * n <= n * n
      BY <1>3, <3>1
    <3>3. QED
      BY <1>3, <3>1, <3>2
  <2>3. q * n + s + 1 <= n * n /\ n * n \in Nat
    BY <1>3, <1>4, <2>1, <2>2
  <2> DEFINE w == q * n + s
  <2>4. w \in Nat /\ w % n = s /\ w + 1 \in 1..(n * n)
    BY <2>1, <2>3
  <2>5. Place(q) = g + (w + 1)
    OBVIOUS
  <2> HIDE DEF w
  <2>6. g + (w + 1) \in 1..Len(Checks) /\ ~(g + (w + 1) <= g) /\ g + (w + 1) - g = w + 1
    BY <1>1, <2>3, <2>4
  <2>7. Checks[g + (w + 1)] = RepeatedChecks[w + 1]
    <3>1. PICK j \in 1..Len(Checks) : j = g + (w + 1)
      BY <2>6
    <3>2. Checks[j] = ViewChecks[j - g]
      BY <2>6, <3>1, ChecksAre DEF g
    <3>3. j - g = w + 1
      BY <1>1, <2>4, <3>1
    <3>4. ViewChecks = RepeatedChecks
      BY <1>1
    <3>5. Checks[j] = RepeatedChecks[w + 1]
      BY ONLY <3>2, <3>3, <3>4
    <3>6. QED
      BY ONLY <3>1, <3>5
  <2>8. RepeatedChecks[w + 1] = Rule("route", RouteLimits[n - s])
    <3>1. PICK j \in 1..(n * n) : j = w + 1
      BY <2>4
    <3>2. RepeatedChecks[j] = Rule("route", RouteLimits[n - ((j - 1) % n)])
      BY <3>1, RepeatedIs DEF n
    <3>3. j - 1 = w
      BY <2>4, <3>1
    <3>4. (j - 1) % n = s
      BY ONLY <2>4, <3>3, Zenon
    <3>5. RepeatedChecks[j] = Rule("route", RouteLimits[n - s])
      BY ONLY <3>2, <3>4, Zenon
    <3>6. QED
      BY ONLY <3>1, <3>5, Zenon
  <2>9. Checks[g + (w + 1)] = Checks[i]
    BY <1>5, <2>7, <2>8
  <2>10. Place(q) \in Alike(i)
    BY <2>5, <2>6, <2>9 DEF Alike
  <2>11. QED
    BY <2>1, <2>3, <2>10
<1> DEFINE f == [q \in 0..(n - 1) |-> Place(q)]
<1>7. f \in Injection(0..(n - 1), Alike(i))
  <2>1. f \in [0..(n - 1) -> Alike(i)]
    BY <1>6
  <2>2. ASSUME NEW q \in 0..(n - 1), NEW p \in 0..(n - 1), f[q] = f[p] PROVE q = p
    <3>1. g + (q * n + s + 1) = g + (p * n + s + 1)
      BY <2>2
    <3>2. q * n = p * n
      <4>1. q * n \in Nat /\ p * n \in Nat /\ s \in Nat /\ g \in Nat
        BY <1>1, <1>3, <1>4
      <4>2. QED
        BY <3>1, <4>1
    <3>3. q \in Nat /\ p \in Nat /\ n \in Nat \ {0}
      BY <1>3
    <3>4. CASE q < p
      <4>1. q + 1 <= p
        BY <3>3, <3>4
      <4>2. (q + 1) * n <= p * n
        BY <3>3, <4>1
      <4>3. q * n + n <= p * n /\ q * n \in Nat
        BY <3>3, <4>2
      <4>4. QED
        BY <3>2, <3>3, <4>3
    <3>5. CASE p < q
      <4>1. p + 1 <= q
        BY <3>3, <3>5
      <4>2. (p + 1) * n <= q * n
        BY <3>3, <4>1
      <4>3. p * n + n <= q * n /\ p * n \in Nat
        BY <3>3, <4>2
      <4>4. QED
        BY <3>2, <3>3, <4>3
    <3>6. QED
      BY <3>3, <3>4, <3>5
  <2>3. \A q, p \in 0..(n - 1) : f[q] = f[p] => q = p
    BY <2>2
  <2> HIDE DEF f
  <2>4. QED
    BY <2>1, <2>3 DEF Injection, IsInjective
<1>8. Cardinality(0..(n - 1)) = n
  BY <1>3, FS_Interval
<1>9. IsFiniteSet(Alike(i)) /\ Cardinality(Alike(i)) \in Nat
  BY CrowdsAreFinite, FS_CardinalityType
<1> HIDE DEF f
<1>10. Cardinality(0..(n - 1)) <= Cardinality(Alike(i))
  BY <1>7, <1>9, FS_Injection
<1>11. QED
  BY <1>8, <1>9, <1>10 DEF n

(***************************************************************************)
(* AdmittedWithinLimits: however requests overlap and whatever rules are   *)
(* stacked, the view runs as often as every rule allows and no more: who   *)
(* gets to it has taken a unit from a bucket of each check, and there are  *)
(* no more units than the limits the checks were made with.                *)
(***************************************************************************)
THEOREM AdmissionsAreWithinLimits == AdaptersSpec => []AdmittedWithinLimits
<1>1. ASSUME FailureInv, AdmissionInv PROVE AdmittedWithinLimits
  <2> SUFFICES ASSUME ~shadowed, NEW i \in 1..Len(Checks)
               PROVE  LET charges == IF adapter = "django" /\ Checks[i].route = "route"
                                     THEN Len(RouteLimits) ELSE 1
                      IN charges * ran <= SumSet(limitsUsed[i])
    BY <1>1 DEF AdmissionInv, UnitTypes, AdmittedWithinLimits
  <2> DEFINE S == limitsUsed[i]
             id == [x \in S |-> x]
  <2>1. UnitTypes /\ PassingCosts /\ RepeatingCosts
    BY <1>1 DEF AdmissionInv
  <2>2. Len(Checks) \in Nat /\ i \in Nat
    BY ChecksAre, LenProperties
  <2>3. ran \in Nat /\ ran <= Cardinality(Viewed) /\ Cardinality(Viewed) \in Nat
    BY <2>1, CrowdsAreFinite, FS_CardinalityType DEF UnitTypes
  <2>4. ran <= Taken(i) /\ Taken(i) \in Nat
    <3>1. Viewed \subseteq Passed(i)
      BY <2>2 DEF Viewed, Passed
    <3>2. Cardinality(Viewed) <= Cardinality(Passed(i)) /\ Cardinality(Passed(i)) \in Nat
      BY <3>1, CrowdsAreFinite, FS_Subset, FS_CardinalityType
    <3>3. Cardinality(Passed(i)) <= Taken(i) /\ Taken(i) \in Nat
      BY <2>1, UnitSums DEF PassingCosts
    <3>4. QED
      BY <2>3, <3>2, <3>3
  <2>5. /\ IsFiniteSet(S) /\ S \subseteq 1..MaxLimit /\ S \subseteq Int
        /\ \A x \in S : TakenBy(i)[x] \in Int /\ id[x] \in Int /\ TakenBy(i)[x] <= id[x]
    BY <2>1, UnitSums
  <2>6. SumSet(S) = SumOver(id, S)
    BY <2>5, SumOfSet
  <2>7. Taken(i) = SumOver(TakenBy(i), S)
    BY DEF Taken
  <2>8. \A x \in S : id[x] = x
    OBVIOUS
  <2> HIDE DEF S, id
  <2>9. Taken(i) <= SumSet(S)
    <3>1. SumOver(TakenBy(i), S) <= SumOver(id, S)
      BY ONLY <2>5, SumMonotone
    <3>2. QED
      BY <2>6, <2>7, <3>1
  <2>10. SumSet(S) \in Int
    BY <2>5, <2>6, SumFirst
  <2>11. CASE adapter = "django" /\ Checks[i].route = "route"
    <3> DEFINE n == Len(RouteLimits)
               l == Checks[i].limit
    <3>1. n \in Nat /\ n <= Cardinality(Alike(i)) /\ Cardinality(Alike(i)) \in Nat
      BY <2>11, LimitsAre, RepeatedOften
    <3>2. Cardinality(Alike(i)) * Cardinality(Viewed) <= l /\ l \in Nat
      <4>1. Viewed \X Alike(i) \subseteq Passages(i)
        BY <2>2 DEF Viewed, Alike, Passages
      <4>2. /\ IsFiniteSet(Viewed \X Alike(i))
            /\ Cardinality(Viewed \X Alike(i)) = Cardinality(Viewed) * Cardinality(Alike(i))
        BY CrowdsAreFinite, FS_Product
      <4>3. /\ Cardinality(Viewed \X Alike(i)) <= Cardinality(Passages(i))
            /\ Cardinality(Passages(i)) \in Nat /\ Cardinality(Viewed \X Alike(i)) \in Nat
        BY <4>1, <4>2, CrowdsAreFinite, FS_Subset, FS_CardinalityType
      <4>4. Cardinality(Passages(i)) <= spent[Checks[i]]
        BY <2>1, <2>11 DEF RepeatingCosts
      <4>5. Checks[i] \in Buckets /\ l \in Nat
        BY ChecksAre, LimiterAssumption DEF Buckets
      <4>6. spent[Checks[i]] \in Nat /\ spent[Checks[i]] <= l
        BY <2>1, <4>5 DEF UnitTypes
      <4>7. QED
        BY <2>3, <3>1, <4>2, <4>3, <4>4, <4>5, <4>6
    <3>3. n * ran <= l
      <4>1. n * ran <= n * Cardinality(Viewed)
        BY <2>3, <3>1
      <4>2. n * Cardinality(Viewed) <= Cardinality(Alike(i)) * Cardinality(Viewed)
        BY <2>3, <3>1
      <4>3. /\ n * ran \in Nat /\ n * Cardinality(Viewed) \in Nat
            /\ Cardinality(Alike(i)) * Cardinality(Viewed) \in Nat
        BY <2>3, <3>1
      <4>4. QED
        BY <3>2, <4>1, <4>2, <4>3
    <3>4. S \subseteq {l}
      BY <2>1, <2>11 DEF UnitTypes, EffectiveLimits, S
    <3> HIDE DEF n, l
    <3>5. CASE S = {}
      <4>1. SumOver(TakenBy(i), S) = 0 /\ SumOver(id, S) = 0
        BY <2>5, <3>5, NothingSums
      <4>2. ran = 0
        BY <2>3, <2>4, <2>7, <4>1
      <4>3. n * ran = 0
        BY <3>1, <4>2
      <4>4. QED
        BY <2>6, <2>11, <4>1, <4>3 DEF n, S
    <3>6. CASE S = {l}
      <4>1. SumOver(id, S) = id[l] + SumOver(id, S \ {l})
        BY <2>5, <3>6, SumAny
      <4>2. SumOver(id, S \ {l}) = 0
        <5>1. S \ {l} = {}
          BY <3>6
        <5>2. IsFiniteSet(S \ {l}) /\ \A x \in S \ {l} : id[x] = 0
          BY <5>1, FS_EmptySet
        <5>3. QED
          BY <5>2, NothingSums
      <4>3. SumSet(S) = l
        BY <2>6, <2>8, <3>2, <3>6, <4>1, <4>2
      <4>4. QED
        BY <2>11, <3>3, <4>3 DEF n, S
    <3>7. QED
      BY <3>4, <3>5, <3>6
  <2>12. CASE ~(adapter = "django" /\ Checks[i].route = "route")
    <3>1. 1 * ran <= SumSet(S)
      BY <2>3, <2>4, <2>9, <2>10
    <3>2. QED
      BY <2>12, <3>1 DEF S
  <2>13. QED
    BY <2>11, <2>12
<1>2. QED
  BY <1>1, FailureInvariant, AdmissionInvariant, PTL

-----------------------------------------------------------------------------
(* The throttles: what their races cost.                                   *)

Labels == {"idle", "touch", "fetch", "room", "evict", "storage", "make", "insert",
           "bridge", "acquire", "lock", "wait"}

\* From these a thread needs the storage it holds.
Holding == {"insert", "bridge", "acquire", "lock", "wait"}

\* The threads that do one of some things next.
Doing(some) == {t \in Threads : tpc[t] \in some}

\* Threads that have found room in the cache, and not used it yet.
Inserting == {"storage", "make", "insert"}

\* The most generous rate.
Best == CHOOSE v \in Rates : \A u \in Rates : RateLimit[u] <= RateLimit[v]

Most == RateLimit[Best]

\* How much of what the most generous rate allows is gone from each storage.
Used == [s \in Stores |-> IF tokens[s] = -1 THEN 0 ELSE Most - tokens[s]]

ThrottleTypes ==
  /\ configured \in BOOLEAN /\ (configured => storages <= 1)
  /\ cache \in Seq(Rates)
  /\ storages \in Nat /\ storage = storages
  /\ madeWith \in [Rates -> 0..storages]
  /\ \A v \in Rates : Contains(cache, v) => madeWith[v] # 0
  /\ held \in [Threads -> 0..storages]
  /\ \A t \in Threads : tpc[t] \in Holding => held[t] # 0
  /\ tokens \in [Stores -> (-1)..Most]
  /\ \A s \in Stores : s > storages => tokens[s] = -1
  /\ tpc \in [Threads -> Labels]
  /\ rate \in [Threads -> Rates]
  /\ served \in Nat

\* Only those who found no storage make one, and only once.
StoragesCounted == storages + Cardinality(Doing({"make"})) <= Cardinality(Threads)

\* Every call served has left a trace in a bucket.
ServedIsUsed == served <= SumOver(Used, Stores)

\* The room that was found is counted before it is used.
RoomCounted ==
  Len(cache) + Cardinality(Doing(Inserting)) < MaxAlgorithms + Cardinality(Threads)

\* Whoever makes a loop waits for it.
LoopsAwaited ==
  /\ loops \in Nat /\ running \subseteq 1..loops
  /\ \A l \in 1..loops \ running : \E t \in Threads : tpc[t] = "wait" /\ mine[t] = l

ThrottleInv ==
  /\ ThrottleTypes
  /\ StoragesCounted
  /\ ServedIsUsed
  /\ RoomCounted
  /\ LoopsAwaited /\ mine \in [Threads -> {NoLoop} \union Nat]

(* Of finitely many rates, one is the most generous. *)
LEMMA MostGenerous ==
  Best \in Rates /\ Most \in Nat \ {0} /\ \A u \in Rates : RateLimit[u] <= Most
<1> DEFINE B == {n \in Nat : \A u \in Rates : RateLimit[u] <= n}
<1>1. /\ IsFiniteSet(Rates) /\ Rates # {}
      /\ \A u \in Rates : RateLimit[u] \in Nat \ {0}
  BY ThrottleAssumption
<1>2. SumOver(RateLimit, Rates) \in B
  <2>1. /\ \A u \in Rates : RateLimit[u] \in Nat
        /\ \A u \in Rates : RateLimit[u] \in Int
    BY <1>1
  <2>2. SumOver(RateLimit, Rates) \in Nat
    BY <1>1, <2>1, SumIsNat
  <2>3. ASSUME NEW u \in Rates PROVE RateLimit[u] <= SumOver(RateLimit, Rates)
    <3>1. SumOver(RateLimit, Rates) = RateLimit[u] + SumOver(RateLimit, Rates \ {u})
      BY <1>1, <2>1, SumAny
    <3>2. IsFiniteSet(Rates \ {u}) /\ \A v \in Rates \ {u} : RateLimit[v] \in Nat
      BY <1>1, FS_RemoveElement
    <3>3. SumOver(RateLimit, Rates \ {u}) \in Nat
      BY <3>2, SumIsNat
    <3>4. QED
      BY <1>1, <3>1, <3>3
  <2>4. QED
    BY <2>2, <2>3
<1>3. PICK n \in B : \A m \in B : n <= m
  <2>1. B \subseteq Nat /\ B # {}
    BY <1>2
  <2>2. QED
    BY <2>1, LeastOf
<1>4. \E v \in Rates : RateLimit[v] = n
  <2> SUFFICES ASSUME \A v \in Rates : RateLimit[v] # n PROVE FALSE
    OBVIOUS
  <2>1. \A u \in Rates : RateLimit[u] <= n - 1
    BY <1>1, <1>3
  <2>2. n - 1 \in Nat
    BY <1>1, <1>3
  <2>3. n - 1 \in B
    BY <2>1, <2>2
  <2>4. QED
    BY <1>3, <2>3
<1>5. \E v \in Rates : \A u \in Rates : RateLimit[u] <= RateLimit[v]
  BY <1>3, <1>4
<1>6. Best \in Rates /\ \A u \in Rates : RateLimit[u] <= RateLimit[Best]
  BY <1>5 DEF Best
<1>7. QED
  BY <1>1, <1>6 DEF Most

LEMMA LesserOfTwo ==
  ASSUME NEW a \in Int, NEW b \in Int
  PROVE  Min({a, b}) \in {a, b} /\ Min({a, b}) <= a /\ Min({a, b}) <= b
<1>1. \E x \in {a, b} : \A y \in {a, b} : x <= y
  <2>1. CASE a <= b
    BY <2>1
  <2>2. CASE b <= a
    BY <2>2
  <2>3. QED
    BY <2>1, <2>2
<1>2. Min({a, b}) \in {a, b} /\ \A y \in {a, b} : Min({a, b}) <= y
  BY <1>1 DEF Min
<1>3. QED
  BY <1>2

(* A thread does the next thing. *)
LEMMA CrowdMoves ==
  ASSUME NEW t \in Threads, tpc \in [Threads -> Labels], NEW next, NEW some,
         tpc' = [tpc EXCEPT ![t] = next]
  PROVE  /\ Cardinality(Doing(some)) \in Nat /\ Cardinality(Doing(some)') \in Nat
         /\ Cardinality(Threads) \in Nat
         /\ Cardinality(Doing(some)') <= Cardinality(Threads)
         /\ tpc[t] \in some /\ next \notin some
              => Cardinality(Doing(some)') = Cardinality(Doing(some)) - 1
         /\ (tpc[t] \in some <=> next \in some)
              => Cardinality(Doing(some)') = Cardinality(Doing(some))
<1>1. IsFiniteSet(Threads)
  BY ThrottleAssumption
<1>2. \A p \in Threads : tpc'[p] = IF p = t THEN next ELSE tpc[p]
  OBVIOUS
<1>3. Doing(some) \subseteq Threads /\ Doing(some)' \subseteq Threads
  BY DEF Doing
<1>4. /\ IsFiniteSet(Doing(some)) /\ IsFiniteSet(Doing(some)')
      /\ Cardinality(Doing(some)) \in Nat /\ Cardinality(Doing(some)') \in Nat
      /\ Cardinality(Threads) \in Nat /\ Cardinality(Doing(some)') <= Cardinality(Threads)
  BY <1>1, <1>3, FS_Subset, FS_CardinalityType
<1>5. ASSUME tpc[t] \in some, next \notin some
      PROVE  Cardinality(Doing(some)') = Cardinality(Doing(some)) - 1
  <2>1. t \in Doing(some) /\ Doing(some)' = Doing(some) \ {t}
    BY <1>2, <1>5 DEF Doing
  <2>2. Cardinality(Doing(some) \ {t}) = Cardinality(Doing(some)) - 1
    BY <1>4, <2>1, FS_RemoveElement
  <2>3. QED
    BY <2>1, <2>2
<1>6. ASSUME tpc[t] \in some <=> next \in some
      PROVE  Cardinality(Doing(some)') = Cardinality(Doing(some))
  <2>1. Doing(some)' = Doing(some)
    BY <1>2, <1>6 DEF Doing
  <2>2. QED
    BY <2>1
<1>7. QED
  BY <1>4, <1>5, <1>6

(* move_to_end keeps what is in the cache, and how many. *)
LEMMA MovedToEnd ==
  ASSUME NEW S, NEW c \in Seq(S), NEW v \in S, Contains(c, v)
  PROVE  /\ Append(RemoveFirst(c, v), v) \in Seq(S)
         /\ Len(Append(RemoveFirst(c, v), v)) = Len(c)
         /\ \A w : Contains(Append(RemoveFirst(c, v), v), w) => Contains(c, w)
<1> DEFINE I == {i \in 1..Len(c) : c[i] = v}
           k == Min(I)
           a == SubSeq(c, 1, k - 1)
           b == SubSeq(c, k + 1, Len(c))
<1>1. Len(c) \in Nat /\ \A i \in 1..Len(c) : c[i] \in S
  BY LenProperties, ElementOfSeq
<1>2. k \in 1..Len(c)
  <2>1. I \subseteq Nat /\ I # {}
    BY DEF Contains
  <2> HIDE DEF I
  <2>2. \E i \in I : \A j \in I : i <= j
    BY <2>1, LeastOf
  <2>3. Min(I) \in I
    BY <2>2 DEF Min
  <2>4. QED
    BY <2>3 DEF I
<1>3. RemoveFirst(c, v) = a \o b
  BY Zenon DEF RemoveFirst, SelectInSeq, RemoveAt, Contains
<1> HIDE DEF k
<1>4. /\ a \in Seq(S) /\ Len(a) = k - 1
      /\ \A i \in 1..(k - 1) : a[i] = c[i]
  <2>1. 1 \in Int /\ k - 1 \in Int /\ \A i \in 1..(k - 1) : c[i] \in S
    BY <1>1, <1>2
  <2>2. /\ a \in Seq(S)
        /\ Len(a) = IF 1 <= k - 1 THEN k - 1 - 1 + 1 ELSE 0
        /\ \A i \in 1..(k - 1 - 1 + 1) : a[i] = c[1 + i - 1]
    BY <2>1, SubSeqProperties
  <2> HIDE DEF a
  <2>3. QED
    BY <1>2, <2>2
<1>5. /\ b \in Seq(S) /\ Len(b) = Len(c) - k
      /\ \A i \in 1..(Len(c) - k) : b[i] = c[k + i]
  <2>1. k + 1 \in Int /\ Len(c) \in Int /\ \A i \in (k + 1)..Len(c) : c[i] \in S
    BY <1>1, <1>2
  <2>2. /\ b \in Seq(S)
        /\ Len(b) = IF k + 1 <= Len(c) THEN Len(c) - (k + 1) + 1 ELSE 0
        /\ \A i \in 1..(Len(c) - (k + 1) + 1) : b[i] = c[k + 1 + i - 1]
    BY <2>1, SubSeqProperties
  <2> HIDE DEF b
  <2>3. QED
    BY <1>1, <1>2, <2>2
<1> HIDE DEF a, b
<1>6. /\ a \o b \in Seq(S) /\ Len(a \o b) = Len(c) - 1
      /\ \A i \in 1..(Len(c) - 1) : (a \o b)[i] = IF i <= k - 1 THEN a[i] ELSE b[i - (k - 1)]
  <2>1. /\ a \o b \in Seq(S) /\ Len(a \o b) = Len(a) + Len(b)
        /\ \A i \in 1..(Len(a) + Len(b)) :
             (a \o b)[i] = IF i <= Len(a) THEN a[i] ELSE b[i - Len(a)]
    BY <1>4, <1>5, ConcatProperties
  <2>2. Len(a) + Len(b) = Len(c) - 1
    BY <1>1, <1>2, <1>4, <1>5
  <2>3. QED
    BY <1>4, <2>1, <2>2
<1>7. \A i \in 1..(Len(c) - 1) : Contains(c, (a \o b)[i])
  <2> SUFFICES ASSUME NEW i \in 1..(Len(c) - 1) PROVE Contains(c, (a \o b)[i])
    OBVIOUS
  <2>1. CASE i <= k - 1
    <3>1. i \in 1..(k - 1) /\ i \in 1..Len(c)
      BY <1>1, <1>2, <2>1
    <3>2. (a \o b)[i] = c[i]
      BY <1>4, <1>6, <2>1, <3>1
    <3>3. QED
      BY <3>1, <3>2 DEF Contains
  <2>2. CASE ~(i <= k - 1)
    <3>1. /\ i - (k - 1) \in 1..(Len(c) - k) /\ k + (i - (k - 1)) = i + 1
          /\ i + 1 \in 1..Len(c)
      BY <1>1, <1>2, <2>2
    <3>2. (a \o b)[i] = c[i + 1]
      BY <1>5, <1>6, <2>2, <3>1
    <3>3. QED
      BY <3>1, <3>2 DEF Contains
  <2>3. QED
    BY <2>1, <2>2
<1> DEFINE d == a \o b
<1>8. d \in Seq(S) /\ Len(d) = Len(c) - 1 /\ \A i \in 1..(Len(c) - 1) : Contains(c, d[i])
  BY <1>6, <1>7
<1>9. RemoveFirst(c, v) = d
  BY <1>3
<1> HIDE DEF d
<1>10. /\ Append(d, v) \in Seq(S) /\ Len(Append(d, v)) = Len(d) + 1
       /\ \A i \in 1..Len(d) : Append(d, v)[i] = d[i]
       /\ Append(d, v)[Len(d) + 1] = v
  BY <1>8, AppendProperties
<1>11. Len(Append(d, v)) = Len(c)
  BY <1>1, <1>8, <1>10
<1>12. ASSUME NEW w, Contains(Append(d, v), w) PROVE Contains(c, w)
  <2>1. PICK i \in 1..Len(c) : Append(d, v)[i] = w
    BY <1>11, <1>12 DEF Contains
  <2>2. CASE i = Len(c)
    BY <1>1, <1>8, <1>10, <2>1, <2>2
  <2>3. CASE i # Len(c)
    <3>1. i \in 1..(Len(c) - 1)
      BY <1>1, <2>3
    <3>2. w = d[i]
      BY <1>8, <1>10, <2>1, <3>1
    <3>3. QED
      BY <1>8, <3>1, <3>2
  <2>4. QED
    BY <2>2, <2>3
<1>13. QED
  BY <1>9, <1>10, <1>11, <1>12

LEMMA ThrottleStarts == ThrottleInit => ThrottleInv
<1> SUFFICES ASSUME ThrottleInit PROVE ThrottleInv
  OBVIOUS
<1>1. /\ Most \in Nat \ {0} /\ MaxAlgorithms \in Nat \ {0}
      /\ Cardinality(Threads) \in Nat /\ (CHOOSE v \in Rates : TRUE) \in Rates
  BY MostGenerous, ThrottleAssumption, FS_CardinalityType
<1>2. cache \in Seq(Rates) /\ Len(cache) = 0 /\ \A v : ~Contains(cache, v)
  BY EmptySeq DEF ThrottleInit, Contains
<1>3. ThrottleTypes
  BY <1>1, <1>2 DEF ThrottleInit, ThrottleTypes, Labels, Holding
<1>4. Cardinality(Doing({"make"})) = 0 /\ Cardinality(Doing(Inserting)) = 0
  <2>1. Doing({"make"}) = {} /\ Doing(Inserting) = {}
    BY DEF ThrottleInit, Doing, Inserting
  <2>2. QED
    BY <2>1, FS_EmptySet
<1>5. StoragesCounted /\ RoomCounted
  BY <1>1, <1>2, <1>4 DEF ThrottleInit, StoragesCounted, RoomCounted
<1>6. ServedIsUsed
  <2>1. IsFiniteSet(Stores) /\ \A x \in Stores : Used[x] \in Nat
    BY <1>1, FS_Interval DEF ThrottleInit, Stores, Used
  <2>2. SumOver(Used, Stores) \in Nat
    BY <2>1, SumIsNat
  <2>3. QED
    BY <2>2 DEF ThrottleInit, ServedIsUsed
<1>7. LoopsAwaited /\ mine \in [Threads -> {NoLoop} \union Nat]
  BY DEF ThrottleInit, LoopsAwaited
<1>8. QED
  BY <1>3, <1>5, <1>6, <1>7 DEF ThrottleInv

\* What a thread or a caller does.
ThreadActs(t) == ThrottleStep(t) \/ \E v \in Rates : Lookup(t, v)

LEMMA TypesAreRespected ==
  ASSUME ThrottleInv, NEW t \in Threads, ThreadActs(t)
  PROVE  ThrottleTypes'
<1>1. /\ Best \in Rates /\ Most \in Nat \ {0} /\ RateLimit \in [Rates -> Nat \ {0}]
      /\ \A u \in Rates : RateLimit[u] <= Most
  BY MostGenerous, ThrottleAssumption
<1>2. /\ configured \in BOOLEAN /\ (configured => storages <= 1)
      /\ cache \in Seq(Rates) /\ storages \in Nat /\ storage = storages
      /\ madeWith \in [Rates -> 0..storages] /\ held \in [Threads -> 0..storages]
      /\ tokens \in [Stores -> (-1)..Most] /\ tpc \in [Threads -> Labels]
      /\ rate \in [Threads -> Rates] /\ served \in Nat
      /\ \A v \in Rates : Contains(cache, v) => madeWith[v] # 0
      /\ \A p \in Threads : tpc[p] \in Holding => held[p] # 0
      /\ \A p \in Stores : p > storages => tokens[p] = -1
  BY DEF ThrottleInv, ThrottleTypes
<1>3. CASE \E v \in Rates : Lookup(t, v)
  BY <1>2, <1>3
  DEF Lookup, At, SameStorage, ThrottleTypes, Labels, Holding
<1>4. CASE Touch(t)
  <2>1. CASE Contains(cache, rate[t])
    <3>1. /\ cache' \in Seq(Rates)
          /\ \A w \in Rates : Contains(cache', w) => Contains(cache, w)
      <4>1. rate[t] \in Rates
        BY <1>2
      <4>2. cache' = Append(RemoveFirst(cache, rate[t]), rate[t])
        BY <1>4, <2>1 DEF Touch
      <4>3. QED
        BY ONLY <1>2, <2>1, <4>1, <4>2, MovedToEnd
    <3>2. QED
      BY <1>2, <1>4, <2>1, <3>1
      DEF Touch, At, SameStorage, ThrottleTypes, Labels, Holding
  <2>2. CASE ~Contains(cache, rate[t])
    BY <1>2, <1>4, <2>2 DEF Touch, At, SameStorage, ThrottleTypes, Labels, Holding
  <2>3. QED
    BY <2>1, <2>2
<1>5. CASE Fetch(t)
  <2>1. CASE Contains(cache, rate[t])
    <3>1. madeWith[rate[t]] \in (0..storages) \ {0}
      BY <1>2, <2>1
    <3>2. QED
      BY <1>2, <1>5, <2>1, <3>1 DEF Fetch, At, SameStorage, ThrottleTypes, Labels, Holding
  <2>2. CASE ~Contains(cache, rate[t])
    BY <1>2, <1>5, <2>2 DEF Fetch, At, SameStorage, ThrottleTypes, Labels, Holding
  <2>3. QED
    BY <2>1, <2>2
<1>6. CASE Evict(t)
  <2>1. /\ cache' \in Seq(Rates)
        /\ \A w \in Rates : Contains(cache', w) => Contains(cache, w)
    <3>1. CASE cache' = cache
      BY <1>2, <3>1
    <3>2. CASE cache # <<>> /\ cache' = Tail(cache)
      <4>1. Len(cache) \in Nat
        BY <1>2, LenProperties
      <4>2. cache # <<>>
        BY <3>2
      <4>3. /\ Tail(cache) \in Seq(Rates) /\ Len(Tail(cache)) = Len(cache) - 1
            /\ \A i \in 1..Len(Tail(cache)) : Tail(cache)[i] = cache[i + 1]
        BY <1>2, <4>2, HeadTailProperties
      <4>4. ASSUME NEW w, Contains(Tail(cache), w) PROVE Contains(cache, w)
        <5>1. PICK i \in 1..(Len(cache) - 1) : cache[i + 1] = w
          BY <4>3, <4>4 DEF Contains
        <5>2. i + 1 \in 1..Len(cache)
          BY <4>1
        <5>3. QED
          BY <5>1, <5>2 DEF Contains
      <4>5. QED
        BY <3>2, <4>3, <4>4
    <3>3. QED
      BY <1>6, <3>1, <3>2 DEF Evict
  <2>2. QED
    BY <1>2, <1>6, <2>1 DEF Evict, At, SameStorage, ThrottleTypes, Labels, Holding
<1>7. CASE GetStorage(t)
  <2>1. UNCHANGED <<configured, cache, madeWith, storage, storages, tokens, rate, served>>
    BY <1>7 DEF GetStorage, SameStorage
  <2>2. CASE storage = 0
    BY <1>2, <1>7, <2>1, <2>2 DEF GetStorage, At, ThrottleTypes, Labels, Holding
  <2>3. CASE storage # 0
    <3>1. /\ tpc' = [tpc EXCEPT ![t] = "insert"]
          /\ held' = [held EXCEPT ![t] = storage] /\ storage \in 0..storages
      BY <1>2, <1>7, <2>3 DEF GetStorage, At
    <3>2. held' \in [Threads -> 0..storages] /\ tpc' \in [Threads -> Labels]
      BY <1>2, <3>1 DEF Labels
    <3>3. \A p \in Threads : tpc'[p] \in Holding => held'[p] # 0
      BY <1>2, <2>3, <3>1
    <3>4. QED
      BY <1>2, <2>1, <3>2, <3>3 DEF ThrottleTypes
  <2>4. QED
    BY <2>2, <2>3
<1>8. CASE MakeStorage(t)
  <2>1. /\ storages' = (IF configured THEN 1 ELSE storages + 1) /\ storage' = storages'
        /\ UNCHANGED <<configured, cache, madeWith, held, tokens, rate, served>>
        /\ tpc' = [tpc EXCEPT ![t] = "storage"]
    BY <1>8 DEF MakeStorage, At, SameLoops
  <2>2. \A n \in 0..storages : n \in 0..storages'
    BY <1>2, <2>1
  <2>3. madeWith' \in [Rates -> 0..storages'] /\ held' \in [Threads -> 0..storages']
    BY <1>2, <2>1, <2>2
  <2>4. \A p \in Stores : p > storages' => tokens'[p] = -1
    BY <1>2, <2>1 DEF Stores
  <2>5. tpc' \in [Threads -> Labels] /\ \A p \in Threads : tpc'[p] \in Holding => held'[p] # 0
    BY <1>2, <2>1 DEF Labels, Holding
  <2>6. QED
    BY <1>2, <2>1, <2>3, <2>4, <2>5 DEF ThrottleTypes
<1>9. CASE Insert(t)
  <2>1. /\ tpc[t] = "insert" /\ tpc' = [tpc EXCEPT ![t] = "fetch"]
        /\ cache' = IF Contains(cache, rate[t]) THEN cache ELSE Append(cache, rate[t])
        /\ madeWith' = [madeWith EXCEPT ![rate[t]] = held[t]]
        /\ UNCHANGED <<configured, storage, storages, tokens, served, held, rate>>
    BY <1>9 DEF Insert, At, SameStorage
  <2>2. held[t] \in (0..storages) \ {0} /\ rate[t] \in Rates
    BY <1>2, <2>1 DEF Holding
  <2>3. /\ cache' \in Seq(Rates)
        /\ \A w \in Rates : Contains(cache', w) => Contains(cache, w) \/ w = rate[t]
    <3>1. CASE Contains(cache, rate[t])
      BY <1>2, <2>1, <3>1
    <3>2. CASE ~Contains(cache, rate[t])
      <4>1. /\ Append(cache, rate[t]) \in Seq(Rates)
            /\ Len(Append(cache, rate[t])) = Len(cache) + 1
            /\ \A i \in 1..Len(cache) : Append(cache, rate[t])[i] = cache[i]
            /\ Append(cache, rate[t])[Len(cache) + 1] = rate[t] /\ Len(cache) \in Nat
        BY <1>2, <2>2, AppendProperties, LenProperties
      <4>2. \A i \in 1..(Len(cache) + 1) : i \in 1..Len(cache) \/ i = Len(cache) + 1
        BY <4>1
      <4>3. QED
        BY <2>1, <3>2, <4>1, <4>2 DEF Contains
    <3>3. QED
      BY <3>1, <3>2
  <2>4. /\ madeWith' \in [Rates -> 0..storages]
        /\ \A v \in Rates : Contains(cache', v) => madeWith'[v] # 0
    BY <1>2, <2>1, <2>2, <2>3
  <2>5. tpc' \in [Threads -> Labels] /\ \A p \in Threads : tpc'[p] \in Holding => held'[p] # 0
    BY <1>2, <2>1 DEF Labels, Holding
  <2>6. QED
    BY <1>2, <2>1, <2>3, <2>4, <2>5 DEF ThrottleTypes
<1>10. CASE Bridge(t)
  BY <1>2, <1>10 DEF Bridge, At, SameStorage, ThrottleTypes, Labels, Holding
<1>11. CASE EnsureLoop(t)
  BY <1>2, <1>11 DEF EnsureLoop, At, SameStorage, ThrottleTypes, Labels, Holding
<1>12. CASE Acquire(t)
  <2> DEFINE s == held[t]
             kept == Left(s, RateLimit[rate[t]])
  <2>1. /\ tpc[t] \in {"acquire", "wait"} /\ tpc' = [tpc EXCEPT ![t] = "idle"]
        /\ tokens' = [tokens EXCEPT ![s] = IF kept > 0 THEN kept - 1 ELSE kept]
        /\ served' = IF kept > 0 THEN served + 1 ELSE served
        /\ UNCHANGED <<configured, cache, madeWith, held, storage, storages, rate>>
    BY <1>12 DEF Acquire, At, SameLoops
  <2>2. s \in 1..storages /\ storages <= Cardinality(Threads)
    <3>1. s \in 0..storages /\ s # 0
      BY <1>2, <2>1 DEF Holding
    <3>2. /\ Cardinality(Doing({"make"})) \in Nat /\ Cardinality(Threads) \in Nat
      BY <1>2, <2>1, CrowdMoves
    <3>3. QED
      BY <1>2, <3>1, <3>2 DEF ThrottleInv, StoragesCounted
  <2>3. kept \in Int /\ -1 <= kept /\ kept <= Most
    <3>1. RateLimit[rate[t]] \in Nat \ {0} /\ RateLimit[rate[t]] <= Most
      BY <1>1, <1>2
    <3>2. s \in Stores
      <4>1. Cardinality(Threads) \in Nat
        BY ThrottleAssumption, FS_CardinalityType
      <4>2. QED
        BY <1>2, <2>2, <4>1 DEF Stores
    <3>3. tokens[s] \in (-1)..Most
      BY <1>2, <3>2
    <3>4. /\ Min({tokens[s], RateLimit[rate[t]]}) \in {tokens[s], RateLimit[rate[t]]}
          /\ Min({tokens[s], RateLimit[rate[t]]}) <= tokens[s]
      <4>1. RateLimit[rate[t]] \in Int /\ tokens[s] \in Int
        BY <3>1, <3>3
      <4>2. QED
        BY ONLY <4>1, LesserOfTwo
    <3>5. QED
      BY <1>1, <3>1, <3>3, <3>4 DEF Left
  <2> HIDE DEF kept
  <2>4. (IF kept > 0 THEN kept - 1 ELSE kept) \in (-1)..Most
    BY <1>1, <2>3
  <2>5. tokens' \in [Stores -> (-1)..Most]
    BY <1>2, <2>1, <2>4
  <2>6. \A p \in Stores : p > storages => tokens'[p] = -1
    <3>1. \A p \in Stores : p > storages => p # s
      BY <1>2, <2>2 DEF Stores
    <3>2. QED
      BY <1>2, <2>1, <3>1
  <2>7. served' \in Nat
    BY <1>2, <2>1
  <2>8. tpc' \in [Threads -> Labels] /\ \A p \in Threads : tpc'[p] \in Holding => held'[p] # 0
    BY <1>2, <2>1 DEF Labels, Holding
  <2>9. QED
    BY <1>2, <2>1, <2>5, <2>6, <2>7, <2>8 DEF ThrottleTypes
<1>13. CASE MakeRoom(t)
  <2>1. \E next \in {"evict", "storage"} : tpc' = [tpc EXCEPT ![t] = next]
    BY <1>13 DEF MakeRoom, At
  <2>2. UNCHANGED <<configured, cache, madeWith, held, storage, storages, tokens, rate, served>>
    BY <1>13 DEF MakeRoom, SameStorage
  <2>3. QED
    BY <1>2, <2>1, <2>2 DEF ThrottleTypes, Labels, Holding
<1>14. QED
  BY <1>3, <1>4, <1>5, <1>6, <1>7, <1>8, <1>9, <1>10, <1>11, <1>12, <1>13
  DEF ThreadActs, ThrottleStep

(* Where a thread goes that does not concern the storages or the cache. *)
LEMMA CountsStay ==
  ASSUME ThrottleInv, NEW t \in Threads, NEW some, NEW next,
         tpc' = [tpc EXCEPT ![t] = next], tpc[t] \in some <=> next \in some
  PROVE  /\ Cardinality(Doing(some)') = Cardinality(Doing(some))
         /\ Cardinality(Doing(some)) \in Nat /\ Cardinality(Threads) \in Nat
BY CrowdMoves DEF ThrottleInv, ThrottleTypes

LEMMA StoragesAreCounted ==
  ASSUME ThrottleInv, NEW t \in Threads, ThreadActs(t)
  PROVE  StoragesCounted'
<1>1. /\ storages \in Nat /\ storage = storages /\ tpc \in [Threads -> Labels]
      /\ storages + Cardinality(Doing({"make"})) <= Cardinality(Threads)
  BY DEF ThrottleInv, ThrottleTypes, StoragesCounted
<1>2. ASSUME NEW next, tpc' = [tpc EXCEPT ![t] = next], storages' = storages,
             tpc[t] \notin {"make"}, next \notin {"make"}
      PROVE  StoragesCounted'
  BY <1>1, <1>2, CountsStay DEF StoragesCounted
<1>3. CASE MakeStorage(t)
  <2>1. /\ tpc[t] \in {"make"} /\ "storage" \notin {"make"}
        /\ tpc' = [tpc EXCEPT ![t] = "storage"]
        /\ storages' = 1 \/ storages' = storages + 1
    BY <1>3 DEF MakeStorage, At
  <2>2. /\ Cardinality(Doing({"make"})') = Cardinality(Doing({"make"})) - 1
        /\ Cardinality(Doing({"make"})) \in Nat /\ Cardinality(Threads) \in Nat
        /\ Cardinality(Doing({"make"})') \in Nat
    BY <1>1, <2>1, CrowdMoves
  <2>3. QED
    BY <1>1, <2>1, <2>2 DEF StoragesCounted
<1>4. CASE GetStorage(t)
  <2>1. CASE storage = 0
    <3>1. tpc' = [tpc EXCEPT ![t] = "make"] /\ storages' = 0
      BY <1>1, <1>4, <2>1 DEF GetStorage, At, SameStorage
    <3>2. /\ Cardinality(Doing({"make"})') <= Cardinality(Threads)
          /\ Cardinality(Doing({"make"})') \in Nat
      BY <1>1, <3>1, CrowdMoves
    <3>3. QED
      BY <3>1, <3>2 DEF StoragesCounted
  <2>2. CASE storage # 0
    BY <1>2, <1>4, <2>2 DEF GetStorage, At, SameStorage
  <2>3. QED
    BY <2>1, <2>2
<1>5. CASE \E v \in Rates : Lookup(t, v)
  <2>1. PICK v \in Rates : Lookup(t, v)
    BY <1>5
  <2>2. /\ tpc[t] = "idle" /\ storages' = storages
        /\ \E next \in {"touch", "room"} : tpc' = [tpc EXCEPT ![t] = next]
    BY <2>1 DEF Lookup, At, SameStorage
  <2>3. QED
    BY <1>2, <2>2
<1>6. CASE Touch(t) \/ Fetch(t) \/ Evict(t)
  BY <1>2, <1>6 DEF Touch, Fetch, Evict, At, SameStorage
<1>7. CASE MakeRoom(t) \/ Insert(t) \/ Bridge(t) \/ EnsureLoop(t)
  BY <1>2, <1>7 DEF MakeRoom, Insert, Bridge, EnsureLoop, At, SameStorage
<1>8. CASE Acquire(t)
  <2>1. /\ tpc[t] \in {"acquire", "wait"} /\ tpc' = [tpc EXCEPT ![t] = "idle"]
        /\ storages' = storages
    BY <1>8 DEF Acquire, At
  <2>2. tpc[t] \notin {"make"} /\ "idle" \notin {"make"}
    BY <2>1
  <2>3. QED
    BY <1>2, <2>1, <2>2
<1>9. QED
  BY <1>3, <1>4, <1>5, <1>6, <1>7, <1>8 DEF ThreadActs, ThrottleStep

LEMMA UsesAreCounted ==
  ASSUME ThrottleInv, NEW t \in Threads, ThreadActs(t)
  PROVE  ServedIsUsed'
<1>1. CASE UNCHANGED <<tokens, served>>
  <2>1. Used' = Used
    BY <1>1 DEF Used
  <2>2. QED
    BY <1>1, <2>1 DEF ThrottleInv, ServedIsUsed
<1>2. CASE Acquire(t)
  <2> DEFINE s == held[t]
             kept == Left(s, RateLimit[rate[t]])
  <2>1. /\ tpc[t] \in {"acquire", "wait"}
        /\ tokens' = [tokens EXCEPT ![s] = IF kept > 0 THEN kept - 1 ELSE kept]
        /\ served' = IF kept > 0 THEN served + 1 ELSE served
    BY <1>2 DEF Acquire, At
  <2>2. /\ tokens \in [Stores -> (-1)..Most] /\ tokens' \in [Stores -> (-1)..Most]
        /\ served \in Nat /\ served <= SumOver(Used, Stores) /\ Most \in Nat \ {0}
    BY <1>2, TypesAreRespected, MostGenerous
    DEF ThreadActs, ThrottleStep, ThrottleInv, ThrottleTypes, ServedIsUsed
  <2>3. /\ IsFiniteSet(Stores)
        /\ \A x \in Stores : Used[x] \in Int /\ Used'[x] \in Int
    <3>1. Cardinality(Threads) \in Nat
      BY ThrottleAssumption, FS_CardinalityType
    <3>2. IsFiniteSet(Stores)
      BY <3>1, FS_Interval DEF Stores
    <3>3. /\ \A x \in Stores : Used[x] \in Int
          /\ \A x \in Stores : Used'[x] \in Int
      <4>1. Used' = [x \in Stores |-> IF tokens'[x] = -1 THEN 0 ELSE Most - tokens'[x]]
        BY DEF Used, Stores, Most, Best
      <4>2. QED
        BY <2>2, <4>1 DEF Used
    <3>4. QED
      BY <3>2, <3>3
  <2>4. s \in Stores
    <3>1. s \in 0..storages /\ s # 0 /\ storages \in Nat
      BY <2>1 DEF ThrottleInv, ThrottleTypes, Holding
    <3>2. Cardinality(Doing({"make"})) \in Nat /\ Cardinality(Threads) \in Nat
      <4>1. IsFiniteSet(Threads)
        BY ThrottleAssumption
      <4>2. IsFiniteSet(Doing({"make"}))
        BY <4>1, FS_Subset DEF Doing
      <4>3. QED
        BY <4>1, <4>2, FS_CardinalityType
    <3>3. storages <= Cardinality(Threads)
      BY <3>1, <3>2 DEF ThrottleInv, StoragesCounted
    <3>4. QED
      BY <3>1, <3>2, <3>3 DEF Stores
  <2>5. /\ RateLimit[rate[t]] \in Nat \ {0} /\ RateLimit[rate[t]] <= Most
        /\ tokens[s] \in (-1)..Most
    BY <2>2, <2>4, MostGenerous, ThrottleAssumption DEF ThrottleInv, ThrottleTypes
  <2>6. /\ kept \in 0..Most /\ (tokens[s] # -1 => kept <= tokens[s])
    <3>1. RateLimit[rate[t]] \in Int /\ tokens[s] \in Int
      BY <2>5
    <3>2. /\ Min({tokens[s], RateLimit[rate[t]]}) \in {tokens[s], RateLimit[rate[t]]}
          /\ Min({tokens[s], RateLimit[rate[t]]}) <= tokens[s]
      BY ONLY <3>1, LesserOfTwo
    <3> HIDE DEF s
    <3>3. QED
      BY <2>2, <2>5, <3>2 DEF Left
  <2> HIDE DEF kept, s
  <2>7. Used'[s] - Used[s] >= served' - served /\ served' \in Nat
    <3>1. Used[s] = IF tokens[s] = -1 THEN 0 ELSE Most - tokens[s]
      BY <2>4 DEF Used
    <3>2. Used'[s] = IF tokens'[s] = -1 THEN 0 ELSE Most - tokens'[s]
      BY <2>4 DEF Used, Stores, Most, Best
    <3>3. tokens'[s] = IF kept > 0 THEN kept - 1 ELSE kept
      BY <2>1, <2>2, <2>4
    <3>4. QED
      BY <2>1, <2>2, <2>5, <2>6, <3>1, <3>2, <3>3
  <2>8. \A x \in Stores \ {s} : Used'[x] = Used[x]
    <3>1. Used' = [x \in Stores |-> IF tokens'[x] = -1 THEN 0 ELSE Most - tokens'[x]]
      BY DEF Used, Stores, Most, Best
    <3>2. QED
      BY <2>1, <2>2, <3>1 DEF Used
  <2>9. SumOver(Used', Stores) = SumOver(Used, Stores) + (Used'[s] - Used[s])
    BY ONLY <2>3, <2>4, <2>8, SumChanged
  <2>10. SumOver(Used, Stores) \in Int /\ Used[s] \in Int /\ Used'[s] \in Int
    <3>1. \A x \in Stores : Used[x] \in Int
      BY <2>3
    <3>2. SumOver(Used, Stores) \in Int
      BY ONLY <2>3, <3>1, SumFirst
    <3>3. QED
      BY <2>3, <2>4, <3>2
  <2>11. served' <= SumOver(Used', Stores)
    BY <2>2, <2>7, <2>9, <2>10
  <2>12. QED
    BY <2>11 DEF ServedIsUsed, Stores
<1>3. ThreadActs(t) => Acquire(t) \/ UNCHANGED <<tokens, served>>
  BY DEF ThreadActs, ThrottleStep, Lookup, Touch, Fetch, MakeRoom, Evict, GetStorage,
         MakeStorage, Insert, Bridge, EnsureLoop, SameStorage
<1>4. QED
  BY <1>1, <1>2, <1>3

LEMMA RoomIsCounted ==
  ASSUME ThrottleInv, NEW t \in Threads, ThreadActs(t)
  PROVE  RoomCounted'
<1>1. /\ cache \in Seq(Rates) /\ Len(cache) \in Nat /\ tpc \in [Threads -> Labels]
      /\ rate[t] \in Rates /\ MaxAlgorithms \in Nat \ {0}
      /\ Len(cache) + Cardinality(Doing(Inserting)) < MaxAlgorithms + Cardinality(Threads)
  BY LenProperties, ThrottleAssumption DEF ThrottleInv, ThrottleTypes, RoomCounted
<1>2. ASSUME NEW next, tpc' = [tpc EXCEPT ![t] = next], Len(cache') = Len(cache),
             tpc[t] \in Inserting <=> next \in Inserting
      PROVE  RoomCounted'
  BY <1>1, <1>2, CountsStay DEF RoomCounted
<1>3. ASSUME cache' = IF tpc[t] = "evict" THEN Tail(cache) ELSE cache,
             tpc' = [tpc EXCEPT ![t] = "storage"],
             \/ tpc[t] = "room" /\ ~CacheFull
             \/ tpc[t] = "evict" /\ cache # <<>>
      PROVE  RoomCounted'
  <2>1. tpc' = [tpc EXCEPT ![t] = "storage"]
    BY <1>3
  <2> DEFINE crowd == Cardinality(Doing(Inserting))
             after == Cardinality(Doing(Inserting)')
  <2>2. /\ crowd \in Nat /\ after \in Nat /\ Cardinality(Threads) \in Nat
        /\ after <= Cardinality(Threads)
    BY <1>1, <2>1, CrowdMoves
  <2>3. CASE tpc[t] = "evict"
    <3>1. cache' = Tail(cache) /\ cache # <<>>
      BY <1>3, <2>3
    <3>2. Len(cache') = Len(cache) - 1
      BY <1>1, <3>1, HeadTailProperties
    <3>3. after <= crowd + 1
      <4>1. Doing(Inserting)' \subseteq Doing(Inserting) \union {t}
        BY <1>1, <2>1 DEF Doing
      <4>2. IsFiniteSet(Doing(Inserting))
        BY ThrottleAssumption, FS_Subset DEF Doing
      <4>3. QED
        BY <4>1, <4>2, OneMore
    <3> HIDE DEF crowd, after
    <3>4. Len(cache') + after < MaxAlgorithms + Cardinality(Threads)
      BY <1>1, <2>2, <3>2, <3>3 DEF crowd
    <3>5. QED
      BY <3>4 DEF RoomCounted, after
  <2>4. CASE tpc[t] = "room"
    <3>1. Len(cache') = Len(cache) /\ Len(cache) < MaxAlgorithms
      BY <1>1, <1>3, <2>4 DEF CacheFull
    <3> HIDE DEF crowd, after
    <3>2. Len(cache') + after < MaxAlgorithms + Cardinality(Threads)
      BY <1>1, <2>2, <3>1
    <3>3. QED
      BY <3>2 DEF RoomCounted, after
  <2>5. QED
    BY <1>3, <2>3, <2>4
<1>4. CASE Insert(t)
  <2>1. /\ tpc[t] = "insert" /\ tpc' = [tpc EXCEPT ![t] = "fetch"]
        /\ cache' = IF Contains(cache, rate[t]) THEN cache ELSE Append(cache, rate[t])
    BY <1>4 DEF Insert, At
  <2>2. Len(cache') \in Nat /\ Len(cache') <= Len(cache) + 1
    <3>1. Len(Append(cache, rate[t])) = Len(cache) + 1
      BY <1>1, AppendProperties
    <3>2. QED
      BY <1>1, <2>1, <3>1
  <2>3. tpc[t] \in Inserting /\ "fetch" \notin Inserting
    BY <2>1 DEF Inserting
  <2>4. /\ Cardinality(Doing(Inserting)') = Cardinality(Doing(Inserting)) - 1
        /\ Cardinality(Doing(Inserting)) \in Nat /\ Cardinality(Threads) \in Nat
    BY <1>1, <2>1, <2>3, CrowdMoves
  <2>5. QED
    BY <1>1, <2>2, <2>4 DEF RoomCounted
<1>5. CASE Touch(t)
  <2>1. Len(cache') = Len(cache)
    BY <1>1, <1>5, MovedToEnd DEF Touch
  <2>2. PICK next \in {"fetch", "idle"} : At(t, "touch", next)
    BY <1>5 DEF Touch
  <2>3. QED
    BY <1>2, <2>1, <2>2 DEF At, Inserting
<1>6. CASE \E v \in Rates : Lookup(t, v)
  <2>1. PICK next \in {"touch", "room"} : At(t, "idle", next) /\ cache' = cache
    BY <1>6 DEF Lookup
  <2>2. QED
    BY <1>2, <2>1 DEF At, Inserting
<1>7. CASE Fetch(t)
  BY <1>2, <1>7 DEF Fetch, At, Inserting
<1>8. CASE GetStorage(t) \/ MakeStorage(t)
  BY <1>2, <1>8 DEF GetStorage, MakeStorage, At, Inserting
<1>9. CASE Bridge(t) \/ EnsureLoop(t)
  BY <1>2, <1>9 DEF Bridge, EnsureLoop, At, Inserting
<1>10. CASE Acquire(t)
  <2>1. /\ tpc[t] \in {"acquire", "wait"} /\ tpc' = [tpc EXCEPT ![t] = "idle"]
        /\ cache' = cache
    BY <1>10 DEF Acquire, At
  <2>2. QED
    BY <1>2, <2>1 DEF Inserting
<1>11. CASE MakeRoom(t)
  <2>1. CASE CacheFull
    <3>1. /\ tpc[t] = "room" /\ tpc' = [tpc EXCEPT ![t] = "evict"] /\ cache' = cache
      BY <1>11, <2>1 DEF MakeRoom, At
    <3>2. QED
      BY <1>2, <3>1 DEF Inserting
  <2>2. CASE ~CacheFull
    BY <1>3, <1>11, <2>2 DEF MakeRoom, At
  <2>3. QED
    BY <2>1, <2>2
<1>12. CASE Evict(t)
  <2>1. CASE cache = <<>>
    <3>1. /\ tpc[t] = "evict" /\ tpc' = [tpc EXCEPT ![t] = "idle"] /\ cache' = cache
      BY <1>12, <2>1 DEF Evict, At
    <3>2. QED
      BY <1>2, <3>1 DEF Inserting
  <2>2. CASE cache # <<>>
    BY <1>3, <1>12, <2>2 DEF Evict, At
  <2>3. QED
    BY <2>1, <2>2
<1>13. QED
  BY <1>4, <1>5, <1>6, <1>7, <1>8, <1>9, <1>10, <1>11, <1>12 DEF ThreadActs, ThrottleStep

LEMMA LoopsAreAwaited ==
  ASSUME ThrottleInv, NEW t \in Threads, ThreadActs(t)
  PROVE  LoopsAwaited' /\ mine' \in [Threads -> {NoLoop} \union Nat]
<1>1. /\ loops \in Nat /\ running \subseteq 1..loops /\ NoLoop \notin Nat
      /\ mine \in [Threads -> {NoLoop} \union Nat] /\ tpc \in [Threads -> Labels]
      /\ \A l \in 1..loops \ running : \E p \in Threads : tpc[p] = "wait" /\ mine[p] = l
  BY ThrottleAssumption DEF ThrottleInv, LoopsAwaited, ThrottleTypes
<1>2. ASSUME NEW next, tpc' = [tpc EXCEPT ![t] = next], UNCHANGED <<loops, running>>,
             mine' \in [Threads -> {NoLoop} \union Nat],
             \A p \in Threads \ {t} : mine'[p] = mine[p],
             tpc[t] # "wait" \/ mine[t] \in running
      PROVE  LoopsAwaited' /\ mine' \in [Threads -> {NoLoop} \union Nat]
  <2>1. ASSUME NEW l \in 1..loops \ running
        PROVE  \E p \in Threads : tpc'[p] = "wait" /\ mine'[p] = l
    <3>1. PICK p \in Threads : tpc[p] = "wait" /\ mine[p] = l
      BY <1>1
    <3>2. p # t
      BY <1>2, <3>1
    <3>3. QED
      BY <1>1, <1>2, <3>1, <3>2
  <2>2. QED
    BY <1>1, <1>2, <2>1 DEF LoopsAwaited
<1>3. CASE SameLoops /\ tpc[t] # "wait" /\ \E next : tpc' = [tpc EXCEPT ![t] = next]
  BY <1>1, <1>2, <1>3 DEF SameLoops
<1>4. CASE Bridge(t)
  <2>1. /\ \E next : tpc' = [tpc EXCEPT ![t] = next]
        /\ tpc[t] # "wait" /\ UNCHANGED <<loops, running>>
    BY <1>4 DEF Bridge, At
  <2>2. mine' \in [Threads -> {NoLoop} \union Nat] /\ \A p \in Threads \ {t} : mine'[p] = mine[p]
    <3>1. CASE mine' = mine
      BY <1>1, <3>1
    <3>2. CASE LoopRuns /\ mine' = [mine EXCEPT ![t] = loop]
      <4>1. loop \in Nat
        BY <1>1, <3>2 DEF LoopRuns
      <4>2. QED
        BY <1>1, <3>2, <4>1
    <3>3. QED
      BY <1>4, <3>1, <3>2 DEF Bridge
  <2>3. QED
    BY <1>2, <2>1, <2>2
<1>5. CASE EnsureLoop(t)
  <2>1. /\ tpc[t] = "lock" /\ tpc' = [tpc EXCEPT ![t] = "wait"] /\ running' = running
    BY <1>5 DEF EnsureLoop, At
  <2>2. CASE LoopRuns
    <3>1. mine' = [mine EXCEPT ![t] = loop] /\ loops' = loops
      BY <1>5, <2>2 DEF EnsureLoop
    <3>2. loop \in Nat
      BY <1>1, <2>2 DEF LoopRuns
    <3>3. /\ mine' \in [Threads -> {NoLoop} \union Nat]
          /\ \A p \in Threads \ {t} : mine'[p] = mine[p]
      BY <1>1, <3>1, <3>2
    <3>4. QED
      BY <1>2, <2>1, <3>1, <3>3
  <2>3. CASE ~LoopRuns
    <3>1. mine' = [mine EXCEPT ![t] = loops + 1] /\ loops' = loops + 1
      BY <1>5, <2>3 DEF EnsureLoop
    <3>2. mine' \in [Threads -> {NoLoop} \union Nat] /\ mine'[t] = loops + 1 /\ tpc'[t] = "wait"
      BY <1>1, <2>1, <3>1
    <3>3. ASSUME NEW l \in 1..(loops + 1) \ running
          PROVE  \E p \in Threads : tpc'[p] = "wait" /\ mine'[p] = l
      <4>1. CASE l = loops + 1
        BY <3>2, <4>1
      <4>2. CASE l # loops + 1
        <5>1. l \in 1..loops \ running
          BY <1>1, <4>2
        <5>2. PICK p \in Threads : tpc[p] = "wait" /\ mine[p] = l
          BY <1>1, <5>1
        <5>3. p # t
          BY <2>1, <5>2
        <5>4. QED
          BY <1>1, <2>1, <3>1, <5>2, <5>3
      <4>3. QED
        BY <4>1, <4>2
    <3>4. loops' \in Nat /\ running' \subseteq 1..loops'
      BY <1>1, <2>1, <3>1
    <3>5. QED
      BY <2>1, <3>1, <3>2, <3>3, <3>4 DEF LoopsAwaited
  <2>4. QED
    BY <2>2, <2>3
<1>6. CASE Acquire(t)
  <2>1. /\ tpc[t] = "acquire" \/ (mine[t] \in running /\ tpc[t] = "wait")
        /\ tpc' = [tpc EXCEPT ![t] = "idle"] /\ UNCHANGED <<loops, running, mine>>
    BY <1>6 DEF Acquire, At, Returned, SameLoops
  <2>2. tpc[t] # "wait" \/ mine[t] \in running
    BY <2>1
  <2>3. QED
    BY <1>1, <1>2, <2>1, <2>2
<1>7. CASE \/ Touch(t) \/ Fetch(t) \/ MakeRoom(t) \/ Evict(t)
           \/ GetStorage(t) \/ MakeStorage(t) \/ Insert(t)
  <2>1. SameLoops
    BY <1>7 DEF Touch, Fetch, MakeRoom, Evict, GetStorage, MakeStorage, Insert
  <2>2. tpc[t] # "wait" /\ \E next : tpc' = [tpc EXCEPT ![t] = next]
    BY <1>7 DEF Touch, Fetch, MakeRoom, Evict, GetStorage, MakeStorage, Insert, At
  <2>3. QED
    BY <1>3, <2>1, <2>2
<1>8. CASE \E v \in Rates : Lookup(t, v)
  BY <1>3, <1>8 DEF Lookup, At
<1>9. QED
  BY <1>4, <1>5, <1>6, <1>7, <1>8 DEF ThreadActs, ThrottleStep

LEMMA ThrottlePreserves == ThrottleInv /\ [ThrottleNext]_throttleVars => ThrottleInv'
<1> SUFFICES ASSUME ThrottleInv, [ThrottleNext]_throttleVars PROVE ThrottleInv'
  OBVIOUS
<1>1. ASSUME NEW t \in Threads, ThreadActs(t) PROVE ThrottleInv'
  BY <1>1, TypesAreRespected, StoragesAreCounted, UsesAreCounted, RoomIsCounted,
     LoopsAreAwaited DEF ThrottleInv
<1>2. ASSUME UNCHANGED <<configured, cache, madeWith, held, storage, storages, tokens, tpc, rate, served,
                         mine, loops>>,
             running \subseteq running', running' \subseteq 1..loops
      PROVE  ThrottleInv'
  <2>1. ThrottleTypes'
    BY <1>2 DEF ThrottleInv, ThrottleTypes, Stores, Most, Best
  <2>2. StoragesCounted' /\ RoomCounted'
    BY <1>2 DEF ThrottleInv, StoragesCounted, RoomCounted, Doing
  <2>3. ServedIsUsed'
    <3>1. Used' = Used /\ Stores' = Stores
      BY <1>2 DEF Used, Stores, Most, Best
    <3>2. QED
      BY <1>2, <3>1 DEF ThrottleInv, ServedIsUsed
  <2>4. LoopsAwaited'
    BY <1>2 DEF ThrottleInv, LoopsAwaited
  <2>5. QED
    BY <1>2, <2>1, <2>2, <2>3, <2>4 DEF ThrottleInv
<1>3. CASE UNCHANGED throttleVars
  <2>1. running' \subseteq 1..loops /\ running' = running
    BY <1>3 DEF throttleVars, ThrottleInv, LoopsAwaited
  <2>2. QED
    BY <1>2, <1>3, <2>1 DEF throttleVars
<1>4. ASSUME NEW l, LoopStarts(l) PROVE ThrottleInv'
  <2>1. running' \subseteq 1..loops /\ running \subseteq running'
    BY <1>4 DEF LoopStarts, ThrottleInv, LoopsAwaited
  <2>2. QED
    BY <1>2, <1>4, <2>1 DEF LoopStarts, SameStorage
<1>5. QED
  BY <1>1, <1>3, <1>4 DEF ThrottleNext, ThreadActs

THEOREM ThrottleInvariant == AdaptersSpec => []ThrottleInv
<1>1. ThrottleInv /\ [AdaptersNext]_adapterVars => ThrottleInv'
  BY ThrottlePreserves DEF AdaptersNext, adapterVars
<1>2. QED
  BY <1>1, ThrottleStarts, PTL DEF AdaptersSpec, AdaptersInit

(***************************************************************************)
(* OneAllowance: however the unlocked threads interleave, and however      *)
(* often algorithms are evicted and made anew, a user gets the most        *)
(* generous rate once for each storage, and there are no more storages     *)
(* than threads, or than the one from the settings.                        *)
(***************************************************************************)
THEOREM AllowancesAreBounded == AdaptersSpec => []OneAllowance
<1>1. ASSUME ThrottleInv PROVE OneAllowance
  <2> USE <1>1
  <2>1. /\ storages \in Nat /\ served \in Nat /\ tokens \in [Stores -> (-1)..Most]
        /\ \A s \in Stores : s > storages => tokens[s] = -1
        /\ served <= SumOver(Used, Stores)
        /\ storages + Cardinality(Doing({"make"})) <= Cardinality(Threads)
    BY DEF ThrottleInv, ThrottleTypes, ServedIsUsed, StoragesCounted
  <2>2. /\ Best \in Rates /\ Most \in Nat \ {0} /\ Most = RateLimit[Best]
        /\ \A u \in Rates : RateLimit[u] <= Most
    BY MostGenerous DEF Most
  <2>3. Cardinality(Threads) \in Nat /\ Cardinality(Doing({"make"})) \in Nat
    <3>1. IsFiniteSet(Threads)
      BY ThrottleAssumption
    <3>2. IsFiniteSet(Doing({"make"}))
      BY <3>1, FS_Subset DEF Doing
    <3>3. QED
      BY <3>1, <3>2, FS_CardinalityType
  <2>4. storages <= Cardinality(Threads) /\ (configured => storages <= 1)
    BY <2>1, <2>3 DEF ThrottleInv, ThrottleTypes
  <2> DEFINE Made == 1..storages
             Unmade == (storages + 1)..Cardinality(Threads)
  <2>5. /\ IsFiniteSet(Made) /\ IsFiniteSet(Unmade) /\ Made \intersect Unmade = {}
        /\ Made \union Unmade = Stores /\ Cardinality(Made) = storages
    <3>1. IsFiniteSet(Made) /\ Cardinality(Made) = storages
      BY <2>1, FS_Interval
    <3>2. IsFiniteSet(Unmade)
      BY <2>1, <2>3, FS_Interval
    <3>3. Made \intersect Unmade = {} /\ Made \union Unmade = Stores
      BY <2>1, <2>3, <2>4 DEF Stores
    <3>4. QED
      BY <3>1, <3>2, <3>3
  <2>6. /\ \A x \in Made \union Unmade : Used[x] \in Int
        /\ \A x \in Made : Used[x] \in Int /\ 0 <= Used[x] /\ Used[x] <= Most
        /\ \A x \in Unmade : Used[x] = 0
    <3>1. \A x \in Stores : Used[x] \in Int /\ 0 <= Used[x] /\ Used[x] <= Most
      BY <2>1, <2>2 DEF Used
    <3>2. \A x \in Unmade : x > storages
      BY <2>1, <2>3
    <3>3. \A x \in Unmade : Used[x] = 0
      BY <2>1, <2>5, <3>2 DEF Used
    <3> HIDE DEF Made, Unmade
    <3>4. QED
      BY <2>5, <3>1, <3>3
  <2> HIDE DEF Made, Unmade
  <2>7. SumOver(Used, Made \union Unmade) = SumOver(Used, Made) + SumOver(Used, Unmade)
    BY ONLY <2>5, <2>6, SumOfUnion
  <2>8. SumOver(Used, Unmade) = 0
    BY ONLY <2>5, <2>6, NothingSums
  <2>9. SumOver(Used, Made) <= Most * Cardinality(Made)
    BY <2>2, <2>5, <2>6, SumBounded
  <2>10. SumOver(Used, Made) \in Int
    <3>1. \A x \in Made : Used[x] \in Int
      BY <2>6
    <3>2. QED
      BY ONLY <2>5, <3>1, SumFirst
  <2>11. SumOver(Used, Stores) = SumOver(Used, Made \union Unmade)
    BY <2>5, Zenon
  <2>12. served <= storages * Most
    <3>1. SumOver(Used, Stores) = SumOver(Used, Made)
      BY <2>7, <2>8, <2>10, <2>11
    <3>2. served <= Most * storages
      <4>1. Most * storages \in Nat
        BY <2>1, <2>2
      <4>2. QED
        BY <2>1, <2>5, <2>9, <2>10, <3>1, <4>1
    <3>3. Most * storages = storages * Most
      BY <2>1, <2>2
    <3>4. QED
      BY <3>2, <3>3
  <2>13. QED
    BY <2>2, <2>4, <2>12 DEF OneAllowance
<1>2. QED
  BY <1>1, ThrottleInvariant, PTL

(***************************************************************************)
(* RacesAreBounded: however many threads look, make room and insert at the *)
(* same time, the cache outgrows its bound by less than one algorithm for  *)
(* each of them, and nobody makes a loop and leaves it.                    *)
(***************************************************************************)
THEOREM RacesAreAlwaysBounded == AdaptersSpec => []RacesAreBounded
<1>1. ASSUME ThrottleInv PROVE RacesAreBounded
  <2>1. /\ Len(cache) \in Nat /\ MaxAlgorithms \in Nat /\ Cardinality(Threads) \in Nat
        /\ Cardinality(Doing(Inserting)) \in Nat
    <3>1. IsFiniteSet(Threads) /\ MaxAlgorithms \in Nat
      BY ThrottleAssumption
    <3>2. IsFiniteSet(Doing(Inserting))
      BY <3>1, FS_Subset DEF Doing
    <3>3. QED
      BY <1>1, <3>1, <3>2, FS_CardinalityType, LenProperties DEF ThrottleInv, ThrottleTypes
  <2>2. QED
    BY <1>1, <2>1 DEF ThrottleInv, RoomCounted, LoopsAwaited, RacesAreBounded
<1>2. QED
  BY <1>1, ThrottleInvariant, PTL

=============================================================================
