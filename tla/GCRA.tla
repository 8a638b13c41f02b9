-------------------------------- MODULE GCRA --------------------------------
(***************************************************************************)
(* GCRAAlgorithm (core/algorithms/gcra.py): the storage entry is a single  *)
(* number, the theoretical arrival time (TAT).  A request of cost c moves  *)
(* it c emission intervals ahead and is granted when the result is at most *)
(* one window ahead of the caller's clock.  The loop around it is the read *)
(* - decide - compare_and_swap loop of TokenBucket, and so are the unit of *)
(* time, the meaning of Lag and MaxAge, and the bounds.                    *)
(***************************************************************************)
EXTENDS Integers

CONSTANTS
  Procs,       \* concurrent callers of acquire()
  Limit,       \* self.limit, which is self.burst, too
  EI,          \* self.emission_interval, in ticks
  Costs,       \* costs a caller may ask for
  Lag,         \* Lag[p]: ticks by which p's monotonic clock is behind
  MaxAge,      \* bound on the age of a clock sample in use
  MaxRetries,  \* max_retries, 3 in the code
  MaxClock,    \* bound on the clock
  MaxResets,   \* bound on administrative resets
  NoEntry      \* the key is not in the storage

Window == Limit * EI

ASSUME ConstantsAssumption ==
  /\ Limit \in Nat \ {0}
  /\ EI \in Nat \ {0}
  /\ Costs \subseteq Nat \ {0}
  /\ MaxAge \in Nat
  /\ Lag \in [Procs -> 0..MaxAge]
  /\ MaxRetries \in Nat \ {0}
  /\ MaxClock \in Nat
  /\ MaxResets \in Nat

ASSUME NoEntryAssumption == NoEntry \notin [tat : Int, exp : Int]

VARIABLES
  clock,     \* the storage's clock
  entry,     \* the storage entry: TAT and expiry
  pc,        \* where each call is
  cost,      \* the cost each call asks for
  now,       \* the monotonic time each call sampled
  attempt,   \* failed attempts of the call so far
  seen,      \* the entry the call read last
  wait,      \* retry_after of the answer given last
  granted,   \* history: cost granted since the last reset
  creations, \* history: entries created since the last reset
  epoch,     \* history: time of the last reset
  resets,    \* history: resets so far
  overtaken  \* history: changes of the entry since the call started, or was
             \* denied; counted up to MaxRetries

vars == <<clock, entry, pc, cost, now, attempt, seen, wait,
          granted, creations, epoch, resets, overtaken>>

Answers == {"allowed", "denied", "exhausted", "failed"}

Resting == {"idle"} \union Answers

AtMost(a, b) == IF a <= b THEN a ELSE b
AtLeast(a, b) == IF a >= b THEN a ELSE b

\* Storage.get: an entry whose time to live is over reads as absent.
Live == entry # NoEntry /\ entry.exp > clock

Lookup == IF Live THEN entry ELSE NoEntry

\* Mutant of Matches: the swap is a plain write.
MatchesAnything(e) == TRUE

\* compare_and_swap compares the stored number with the one that was read.
Matches(e) == IF e = NoEntry THEN ~Live ELSE Live /\ entry.tat = e.tat

\* Mutant of Advance: a TAT in the past is not brought up to now.
AdvanceFromPast(e, c, t) == (IF e = NoEntry THEN t ELSE e.tat) + c * EI

\* new_tat: the arrival time after a request of cost c at time t
Advance(e, c, t) ==
  (IF e = NoEntry THEN t ELSE AtLeast(e.tat, t)) + c * EI

\* allow_at: the earliest time at which that request conforms
AllowAt(e, c, t) == Advance(e, c, t) - Window

-----------------------------------------------------------------------------

Init ==
  /\ clock = 0
  /\ entry = NoEntry
  /\ pc = [p \in Procs |-> "idle"]
  /\ cost = [p \in Procs |-> 1]
  /\ now = [p \in Procs |-> 0]
  /\ attempt = [p \in Procs |-> 0]
  /\ seen = [p \in Procs |-> NoEntry]
  /\ wait = [p \in Procs |-> 0]
  /\ granted = 0
  /\ creations = 0
  /\ epoch = 0
  /\ resets = 0
  /\ overtaken = [p \in Procs |-> 0]

InFlight(p) == pc[p] \notin Resting

\* The call returns (or raises) and its frame is gone.
Return(p, answer) ==
  /\ pc' = [pc EXCEPT ![p] = answer]
  /\ seen' = [seen EXCEPT ![p] = NoEntry]
  /\ attempt' = [attempt EXCEPT ![p] = 0]

\* The entry changes under everybody's feet.
Overtake == overtaken' = [p \in Procs |-> AtMost(MaxRetries, overtaken[p] + 1)]

\* Time passes, but no clock sample in use grows older than MaxAge.
Tick ==
  /\ clock < MaxClock
  /\ \A p \in Procs : InFlight(p) => clock - now[p] < MaxAge
  /\ clock' = clock + 1
  /\ IF Live /\ entry.exp = clock + 1 THEN Overtake ELSE UNCHANGED overtaken
  /\ UNCHANGED <<entry, pc, cost, now, attempt, seen, wait,
                 granted, creations, epoch, resets>>

\* acquire(): the clock is sampled once, before the first read.
Start(p) ==
  /\ pc[p] \in Resting
  /\ \E c \in Costs : cost' = [cost EXCEPT ![p] = c]
  /\ pc' = [pc EXCEPT ![p] = "get"]
  /\ now' = [now EXCEPT ![p] = clock - Lag[p]]
  /\ attempt' = [attempt EXCEPT ![p] = 0]
  /\ wait' = [wait EXCEPT ![p] = 0]
  /\ overtaken' = [overtaken EXCEPT ![p] = 0]
  /\ UNCHANGED <<clock, entry, seen, granted, creations, epoch, resets>>

RetryAfter(e, late) == IF e = NoEntry THEN 0 ELSE late

(***************************************************************************)
(* One attempt, first half: read the TAT and decide.  A cost beyond the    *)
(* burst is refused on an absent key with retry_after = 0, and on a        *)
(* present one with the wait the formula gives.                            *)
(***************************************************************************)
ReadState(p) ==
  LET e == Lookup
      late == AllowAt(e, cost[p], now[p]) - now[p]
  IN /\ pc[p] = "get"
     /\ \/ /\ late <= 0
           /\ pc' = [pc EXCEPT ![p] = "cas"]
           /\ seen' = [seen EXCEPT ![p] = e]
           /\ UNCHANGED <<attempt, wait, overtaken>>
        \/ /\ late > 0
           /\ Return(p, "denied")
           /\ wait' = [wait EXCEPT ![p] = RetryAfter(e, late)]
           /\ overtaken' = [overtaken EXCEPT ![p] = 0]
     /\ UNCHANGED <<clock, entry, cost, now, granted, creations, epoch, resets>>

\* The state a granted request leaves; the time to live starts again.
Charge(p) ==
  /\ entry' = [tat |-> Advance(seen[p], cost[p], now[p]), exp |-> clock + Window]
  /\ granted' = granted + cost[p]
  /\ creations' = creations + (IF seen[p] = NoEntry THEN 1 ELSE 0)
  /\ Overtake

\* One attempt, second half: the swap takes effect and the call is allowed.
Swap(p) ==
  /\ pc[p] = "cas"
  /\ Matches(seen[p])
  /\ Charge(p)
  /\ Return(p, "allowed")
  /\ UNCHANGED <<clock, cost, now, wait, epoch, resets>>

\* The swap is refused: retry, or give up and fail closed.
SwapRefused(p) ==
  /\ pc[p] = "cas"
  /\ ~Matches(seen[p])
  /\ \/ /\ attempt[p] + 1 < MaxRetries
        /\ attempt' = [attempt EXCEPT ![p] = @ + 1]
        /\ pc' = [pc EXCEPT ![p] = "get"]
        /\ UNCHANGED seen
     \/ /\ attempt[p] + 1 >= MaxRetries
        /\ Return(p, "exhausted")
  /\ UNCHANGED <<clock, entry, cost, now, wait, granted, creations, epoch,
                 resets, overtaken>>

\* The storage raises; a write whose acknowledgement is lost has charged.
StorageFails(p) ==
  /\ InFlight(p)
  /\ Return(p, "failed")
  /\ \/ UNCHANGED <<entry, granted, creations, overtaken>>
     \/ pc[p] = "cas" /\ Matches(seen[p]) /\ Charge(p)
  /\ UNCHANGED <<clock, cost, now, wait, epoch, resets>>

\* reset(key) deletes the entry; the admission history starts again.
Reset ==
  /\ resets < MaxResets
  /\ entry' = NoEntry
  /\ granted' = 0
  /\ creations' = 0
  /\ epoch' = clock
  /\ resets' = resets + 1
  /\ Overtake
  /\ UNCHANGED <<clock, pc, cost, now, attempt, seen, wait>>

Next ==
  \/ Tick
  \/ Reset
  \/ \E p \in Procs :
       Start(p) \/ ReadState(p) \/ Swap(p) \/ SwapRefused(p) \/ StorageFails(p)

Spec == Init /\ [][Next]_vars

-----------------------------------------------------------------------------

EntryTypes == [tat : Int, exp : Nat]

(***************************************************************************)
(* Type invariant: an attempt is never counted past max_retries, and no    *)
(* retry_after is negative.                                                *)
(***************************************************************************)
TypeOK ==
  /\ clock \in Nat
  /\ entry \in EntryTypes \union {NoEntry}
  /\ pc \in [Procs -> {"get", "cas"} \union Resting]
  /\ cost \in [Procs -> Nat \ {0}]
  /\ now \in [Procs -> Int]
  /\ attempt \in [Procs -> 0..MaxRetries]
  /\ seen \in [Procs -> EntryTypes \union {NoEntry}]
  /\ wait \in [Procs -> Nat]
  /\ granted \in Nat
  /\ creations \in Nat
  /\ epoch \in Nat
  /\ resets \in Nat
  /\ overtaken \in [Procs -> 0..MaxRetries]

(***************************************************************************)
(* What concurrent callers get in all since the last reset: the burst and  *)
(* one token per emission interval.  Unlike TokenBucket, a stale clock     *)
(* sample cannot turn a stored TAT back (max(prev_tat, now), gcra.py:106); *)
(* only the creation of an entry can place the TAT up to MaxAge too early. *)
(***************************************************************************)
AdmissionBound ==
  granted * EI <= Window + (clock - epoch) + MaxAge * creations

(***************************************************************************)
(* The TAT is never further ahead than the time to live reaches: when the  *)
(* entry expires it lies in the past, where it would no longer matter.     *)
(***************************************************************************)
ExpiryForgetsNothing ==
  entry # NoEntry => entry.tat <= entry.exp

(***************************************************************************)
(* A call fails closed after max_retries only under real contention: the   *)
(* entry changed under it at least once per attempt.                       *)
(***************************************************************************)
ExhaustedOnlyUnderContention ==
  \A p \in Procs : pc[p] = "exhausted" => overtaken[p] >= MaxRetries

(***************************************************************************)
(* retry_after is honest: as long as nobody changes the entry, the same    *)
(* request conforms after exactly that wait and not one tick earlier,      *)
(* provided its cost fits the burst at all.                                *)
(***************************************************************************)
HonestOf(p) ==
  LET t == now[p] + wait[p]
  IN /\ pc[p] = "denied"
     /\ overtaken[p] = 0
     /\ cost[p] <= Limit
     => AllowAt(entry, cost[p], t) <= t /\ AllowAt(entry, cost[p], t - 1) > t - 1

RetryAfterHonest == \A p \in Procs : HonestOf(p)

-----------------------------------------------------------------------------

(***************************************************************************)
(* Refinement: the protocol is one atomic debt counter, on which a grant   *)
(* with a clock sample of age a forgives at most a ticks of debt.  The     *)
(* debt is the distance from the clock to the TAT.                         *)
(***************************************************************************)
Debt == IF Live THEN AtLeast(0, entry.tat - clock) ELSE 0

Contract == INSTANCE RateContract WITH debt <- Debt, Slip <- MaxAge

ImplementsContract == Contract!Spec

=============================================================================
