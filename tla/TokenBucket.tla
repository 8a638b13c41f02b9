---------------------------- MODULE TokenBucket ----------------------------
(***************************************************************************)
(* TokenBucketAlgorithm (core/algorithms/token_bucket.py): many concurrent *)
(* acquire() calls on one key, each a read - decide - compare_and_swap     *)
(* loop against a storage entry that carries a time to live.               *)
(*                                                                         *)
(* Unit of time: one clock tick.  Unit of tokens: the tick, too.  A token  *)
(* takes EI = window / limit ticks to refill, so a bucket of Limit tokens  *)
(* holds Window = Limit * EI units, refills one unit per tick, and a       *)
(* request of cost c takes c * EI units.  The refill arithmetic of the     *)
(* code is exact in these units.                                           *)
(*                                                                         *)
(* time.monotonic() is sampled when a call starts and used until the call  *)
(* ends, and hosts that share the storage do not share a monotonic clock.  *)
(* Lag[p] is how far the clock of p's host is behind the storage's, and    *)
(* MaxAge bounds lag and delay together: how old a sample may be when the  *)
(* write that uses it takes effect.                                        *)
(***************************************************************************)
EXTENDS Integers, FiniteSets

CONSTANTS
  Procs,       \* concurrent callers of acquire()
  Limit,       \* self.limit
  EI,          \* ticks per token, self.window / self.limit
  Costs,       \* costs a caller may ask for
  Lag,         \* Lag[p]: ticks by which p's monotonic clock is behind
  MaxAge,      \* bound on the age of a clock sample in use
  MaxRetries,  \* max_retries, 3 in the code
  MaxClock,    \* bound on the clock
  MaxResets,   \* bound on administrative resets
  NoEntry      \* the key is not in the storage

Window == Limit * EI

ASSUME ConstantsAssumption ==
  /\ Limit \in Nat \ {0}
  /\ EI \in Nat \ {0}
  /\ Costs \subseteq Nat \ {0}
  /\ MaxAge \in Nat
  /\ Lag \in [Procs -> 0..MaxAge]
  /\ MaxRetries \in Nat \ {0}
  /\ MaxClock \in Nat
  /\ MaxResets \in Nat

ASSUME NoEntryAssumption ==
  NoEntry \notin [tokens : Int, last : Int, exp : Int]

VARIABLES
  clock,    \* the storage's clock
  bucket,   \* the storage entry: state tuple and expiry
  pc,       \* where each call is
  cost,     \* the cost each call asks for
  now,      \* the monotonic time each call sampled
  attempt,  \* failed attempts of the call so far
  seen,     \* the entry the call read last
  wait,     \* retry_after of the answer given last
  granted,  \* history: tokens charged to the bucket since the last reset
  grants,   \* history: charges since the last reset
  epoch,    \* history: time of the last reset
  resets,   \* history: resets so far
  overtaken \* history: changes of the entry since the call started, or was
            \* denied; counted up to MaxRetries

vars == <<clock, bucket, pc, cost, now, attempt, seen, wait,
          granted, grants, epoch, resets, overtaken>>

Entries == [tokens : Int, last : Int, exp : Int]

Answers == {"allowed", "denied", "exhausted", "failed"}

Resting == {"idle"} \union Answers

AtMost(a, b) == IF a <= b THEN a ELSE b
AtLeast(a, b) == IF a >= b THEN a ELSE b

(***************************************************************************)
(* Storage.get: an entry whose time to live is over reads as absent.       *)
(***************************************************************************)
Live == bucket # NoEntry /\ bucket.exp > clock

Lookup == IF Live THEN bucket ELSE NoEntry

\* tokens of entry e at time t, refilled and capped at capacity
Refilled(e, t) == AtMost(Window, e.tokens + AtLeast(0, t - e.last))

\* when refill of entry e goes on, for a caller whose clock says t
RefillStart(e, t) == IF e = NoEntry THEN t ELSE AtLeast(t, e.last)

\* what the caller has to spend, given what it read
Available(e, t) == IF e = NoEntry THEN Window ELSE Refilled(e, t)

\* Mutant of Matches: the swap is a plain write.
MatchesAnything(e) == TRUE

(***************************************************************************)
(* compare_and_swap compares values, not versions: the tuple that was read *)
(* must be the tuple that is there.                                        *)
(***************************************************************************)
Matches(e) ==
  IF e = NoEntry THEN ~Live
  ELSE Live /\ bucket.tokens = e.tokens /\ bucket.last = e.last

-----------------------------------------------------------------------------

Init ==
  /\ clock = 0
  /\ bucket = NoEntry
  /\ pc = [p \in Procs |-> "idle"]
  /\ cost = [p \in Procs |-> 1]
  /\ now = [p \in Procs |-> 0]
  /\ attempt = [p \in Procs |-> 0]
  /\ seen = [p \in Procs |-> NoEntry]
  /\ wait = [p \in Procs |-> 0]
  /\ granted = 0
  /\ grants = 0
  /\ epoch = 0
  /\ resets = 0
  /\ overtaken = [p \in Procs |-> 0]

InFlight(p) == pc[p] \notin Resting

\* The call returns (or raises) and its frame is gone.
Return(p, answer) ==
  /\ pc' = [pc EXCEPT ![p] = answer]
  /\ seen' = [seen EXCEPT ![p] = NoEntry]
  /\ attempt' = [attempt EXCEPT ![p] = 0]

\* The entry changes under everybody's feet.
Overtake == overtaken' = [p \in Procs |-> AtMost(MaxRetries, overtaken[p] + 1)]

\* Time passes, but no clock sample in use grows older than MaxAge.
Tick ==
  /\ clock < MaxClock
  /\ \A p \in Procs : InFlight(p) => clock - now[p] < MaxAge
  /\ clock' = clock + 1
  /\ IF Live /\ bucket.exp = clock + 1 THEN Overtake ELSE UNCHANGED overtaken
  /\ UNCHANGED <<bucket, pc, cost, now, attempt, seen, wait,
                 granted, grants, epoch, resets>>

\* acquire(): the clock is sampled once, before the first read.
Start(p) ==
  /\ pc[p] \in Resting
  /\ \E c \in Costs : cost' = [cost EXCEPT ![p] = c]
  /\ pc' = [pc EXCEPT ![p] = "get"]
  /\ now' = [now EXCEPT ![p] = clock - Lag[p]]
  /\ attempt' = [attempt EXCEPT ![p] = 0]
  /\ seen' = [seen EXCEPT ![p] = NoEntry]
  /\ wait' = [wait EXCEPT ![p] = 0]
  /\ overtaken' = [overtaken EXCEPT ![p] = 0]
  /\ UNCHANGED <<clock, bucket, granted, grants, epoch, resets>>

\* Mutant of WaitTime: as if nothing were left in the bucket.
WaitFromEmpty(need, have) == need

\* wait_time
WaitTime(need, have) == need - have

(***************************************************************************)
(* One attempt, first half: read the state and either deny, telling the    *)
(* caller when enough will have been refilled, or go for the swap.         *)
(***************************************************************************)
ReadState(p) ==
  LET e == Lookup
      need == cost[p] * EI
      have == Available(e, now[p])
  IN /\ pc[p] = "get"
     /\ \/ /\ have >= need
           /\ pc' = [pc EXCEPT ![p] = "cas"]
           /\ seen' = [seen EXCEPT ![p] = e]
           /\ UNCHANGED <<attempt, wait, overtaken>>
        \/ /\ have < need
           /\ Return(p, "denied")
           /\ wait' = [wait EXCEPT ![p] = WaitTime(need, have)]
           /\ overtaken' = [overtaken EXCEPT ![p] = 0]
     /\ UNCHANGED <<clock, bucket, cost, now, granted, grants, epoch, resets>>

\* Mutant of Charged: the entry lives until this request is refilled.
ChargedBriefly(p) ==
  [tokens |-> Available(seen[p], now[p]) - cost[p] * EI,
   last   |-> now[p],
   exp    |-> clock + cost[p] * EI]

\* Mutant of Charged: last_refill stays what it was.
ChargedAtLastRefill(p) ==
  [tokens |-> Available(seen[p], now[p]) - cost[p] * EI,
   last   |-> IF seen[p] = NoEntry THEN now[p] ELSE seen[p].last,
   exp    |-> clock + Window]

\* The state a granted request leaves: written at the sampled time.
Charged(p) ==
  [tokens |-> Available(seen[p], now[p]) - cost[p] * EI,
   last   |-> now[p],
   exp    |-> clock + Window]

Charge(p) ==
  /\ bucket' = Charged(p)
  /\ granted' = granted + cost[p]
  /\ grants' = grants + 1
  /\ Overtake

\* One attempt, second half: the swap takes effect and the call is allowed.
Swap(p) ==
  /\ pc[p] = "cas"
  /\ Matches(seen[p])
  /\ Charge(p)
  /\ Return(p, "allowed")
  /\ UNCHANGED <<clock, cost, now, wait, epoch, resets>>

\* The swap is refused: back off and retry, or give up and fail closed.
SwapRefused(p) ==
  /\ pc[p] = "cas"
  /\ ~Matches(seen[p])
  /\ \/ /\ attempt[p] + 1 < MaxRetries
        /\ attempt' = [attempt EXCEPT ![p] = @ + 1]
        /\ pc' = [pc EXCEPT ![p] = "get"]
        /\ UNCHANGED seen
     \/ /\ attempt[p] + 1 >= MaxRetries
        /\ Return(p, "exhausted")
  /\ UNCHANGED <<clock, bucket, cost, now, wait, granted, grants, epoch,
                 resets, overtaken>>

(***************************************************************************)
(* The storage raises: acquire() turns it into BackendFailure.  A write    *)
(* whose acknowledgement is lost has charged the bucket all the same.      *)
(***************************************************************************)
StorageFails(p) ==
  /\ InFlight(p)
  /\ Return(p, "failed")
  /\ \/ UNCHANGED <<bucket, granted, grants, overtaken>>
     \/ pc[p] = "cas" /\ Matches(seen[p]) /\ Charge(p)
  /\ UNCHANGED <<clock, cost, now, wait, epoch, resets>>

\* reset(key) deletes the entry; the admission history starts again.
Reset ==
  /\ resets < MaxResets
  /\ bucket' = NoEntry
  /\ granted' = 0
  /\ grants' = 0
  /\ epoch' = clock
  /\ resets' = resets + 1
  /\ Overtake
  /\ UNCHANGED <<clock, pc, cost, now, attempt, seen, wait>>

Step(p) ==
  \/ ReadState(p)
  \/ Swap(p)
  \/ SwapRefused(p)

Next ==
  \/ Tick
  \/ Reset
  \/ \E p \in Procs : Start(p) \/ Step(p) \/ StorageFails(p)

Spec == Init /\ [][Next]_vars

-----------------------------------------------------------------------------

EntryTypes == [tokens : 0..Window, last : Int, exp : Nat]

(***************************************************************************)
(* Type invariant: a stored bucket is never overdrawn and never holds more *)
(* than its capacity, whatever the interleaving.                           *)
(***************************************************************************)
TypeOK ==
  /\ clock \in Nat
  /\ bucket \in EntryTypes \union {NoEntry}
  /\ pc \in [Procs -> {"get", "cas"} \union Resting]
  /\ cost \in [Procs -> Nat \ {0}]
  /\ now \in [Procs -> Int]
  /\ attempt \in [Procs -> 0..MaxRetries]
  /\ seen \in [Procs -> EntryTypes \union {NoEntry}]
  /\ wait \in [Procs -> Nat]
  /\ granted \in Nat
  /\ grants \in Nat
  /\ epoch \in Nat
  /\ resets \in Nat
  /\ overtaken \in [Procs -> 0..MaxRetries]

(***************************************************************************)
(* What concurrent callers get in all, since the last reset: the burst,    *)
(* one token per EI ticks, and MaxAge ticks of refill for every grant,     *)
(* because a grant may write a sample that is MaxAge old into last_refill  *)
(* and so have the interval since refilled a second time.  Lost, expired   *)
(* and duplicated state never gives more than that.                        *)
(***************************************************************************)
AdmissionBound ==
  granted * EI <= Window + (clock - epoch) + MaxAge * grants

(***************************************************************************)
(* What the class promises: "Tokens refill at limit / window tokens per    *)
(* second" (token_bucket.py:20), under concurrent access, too              *)
(* (tests/test_thread_safety.py:24).                                       *)
(***************************************************************************)
PromisedRate ==
  granted * EI <= Window + (clock - epoch)

(***************************************************************************)
(* A call fails closed after max_retries only under real contention: the   *)
(* entry changed under it at least once per attempt.                       *)
(***************************************************************************)
ExhaustedOnlyUnderContention ==
  \A p \in Procs : pc[p] = "exhausted" => overtaken[p] >= MaxRetries

(***************************************************************************)
(* retry_after is honest: as long as nobody changes the bucket, a denied   *)
(* caller finds enough tokens after exactly that wait and not one tick     *)
(* earlier - counted from the last refill if the caller's clock sample is  *)
(* older, and provided the bucket could hold the cost at all.              *)
(***************************************************************************)
HonestOf(p) ==
  LET t == RefillStart(bucket, now[p]) + wait[p]
  IN /\ pc[p] = "denied"
     /\ overtaken[p] = 0
     /\ cost[p] <= Limit
     => /\ Available(bucket, t) >= cost[p] * EI
        /\ Available(bucket, t - 1) < cost[p] * EI

RetryAfterHonest == \A p \in Procs : HonestOf(p)

(***************************************************************************)
(* The entry never vanishes early: when its time to live is over, waiting  *)
(* would have filled the bucket anyway, so starting over with a full one   *)
(* gives nobody a token too many.                                          *)
(***************************************************************************)
ExpiryForgetsNothing ==
  (bucket # NoEntry /\ ~Live) => Refilled(bucket, clock) = Window

-----------------------------------------------------------------------------

(***************************************************************************)
(* Refinement: the storage protocol, with its reads, swaps, retries, lost  *)
(* acknowledgements and expiries, is one atomic debt counter, on which a   *)
(* grant with a clock sample of age a forgives at most a ticks of debt.    *)
(* Debt is what is missing from a full bucket now.                         *)
(***************************************************************************)
Debt == IF Live THEN Window - Refilled(bucket, clock) ELSE 0

Contract == INSTANCE RateContract WITH debt <- Debt, Slip <- MaxAge

ImplementsContract == Contract!Spec

=============================================================================
