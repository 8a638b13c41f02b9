---------------------------- MODULE LeakyBucket ----------------------------
(***************************************************************************)
(* LeakyBucketAlgorithm (core/algorithms/leaky_bucket.py): a request pours *)
(* its cost into the bucket, which leaks limit / window per second and is  *)
(* not allowed to overflow.  Water is counted in ticks, as tokens are in   *)
(* TokenBucket; the loop, the storage protocol, the sampled clock and the  *)
(* bounds are those of that module.                                        *)
(***************************************************************************)
EXTENDS Integers

CONSTANTS
  Procs,       \* concurrent callers of acquire()
  Limit,       \* self.limit
  EI,          \* ticks to leak one unit, self.window / self.limit
  Costs,       \* costs a caller may ask for
  Lag,         \* Lag[p]: ticks by which p's monotonic clock is behind
  MaxAge,      \* bound on the age of a clock sample in use
  MaxRetries,  \* max_retries, 3 in the code
  MaxClock,    \* bound on the clock
  MaxResets,   \* bound on administrative resets
  NoEntry      \* the key is not in the storage

Window == Limit * EI

ASSUME ConstantsAssumption ==
  /\ Limit \in Nat \ {0}
  /\ EI \in Nat \ {0}
  /\ Costs \subseteq Nat \ {0}
  /\ MaxAge \in Nat
  /\ Lag \in [Procs -> 0..MaxAge]
  /\ MaxRetries \in Nat \ {0}
  /\ MaxClock \in Nat
  /\ MaxResets \in Nat

ASSUME NoEntryAssumption ==
  /\ NoEntry \notin [water : Int, last : Int, exp : Int]
  /\ NoEntry \notin [tokens : Int, last : Int, exp : Int]

VARIABLES
  clock,    \* the storage's clock
  bucket,   \* the storage entry: state tuple and expiry
  pc,       \* where each call is
  cost,     \* the cost each call asks for
  now,      \* the monotonic time each call sampled
  attempt,  \* failed attempts of the call so far
  seen,     \* the entry the call read last
  wait,     \* retry_after of the answer given last
  granted,  \* history, as in TokenBucket: tokens charged, charges, time of
  grants,   \* the last reset, resets, and entry changes since the call
  epoch,    \* started or was denied
  resets,
  overtaken

vars == <<clock, bucket, pc, cost, now, attempt, seen, wait,
          granted, grants, epoch, resets, overtaken>>

Answers == {"allowed", "denied", "exhausted", "failed"}

Resting == {"idle"} \union Answers

AtMost(a, b) == IF a <= b THEN a ELSE b
AtLeast(a, b) == IF a >= b THEN a ELSE b

Live == bucket # NoEntry /\ bucket.exp > clock

Lookup == IF Live THEN bucket ELSE NoEntry

\* compare_and_swap compares the tuple that was read with the one stored.
Matches(e) ==
  IF e = NoEntry THEN ~Live
  ELSE Live /\ bucket.water = e.water /\ bucket.last = e.last

\* Mutant of Water: the bucket goes on leaking when it is empty.
WaterBelowEmpty(e, t) ==
  IF e = NoEntry THEN 0 ELSE e.water - AtLeast(0, t - e.last)

\* water left at time t, given what was read: an absent bucket is empty
Water(e, t) ==
  IF e = NoEntry THEN 0 ELSE AtLeast(0, e.water - AtLeast(0, t - e.last))

-----------------------------------------------------------------------------

Init ==
  /\ clock = 0
  /\ bucket = NoEntry
  /\ pc = [p \in Procs |-> "idle"]
  /\ cost = [p \in Procs |-> 1]
  /\ now = [p \in Procs |-> 0]
  /\ attempt = [p \in Procs |-> 0]
  /\ seen = [p \in Procs |-> NoEntry]
  /\ wait = [p \in Procs |-> 0]
  /\ granted = 0
  /\ grants = 0
  /\ epoch = 0
  /\ resets = 0
  /\ overtaken = [p \in Procs |-> 0]

InFlight(p) == pc[p] \notin Resting

\* The call returns (or raises) and its frame is gone.
Return(p, answer) ==
  /\ pc' = [pc EXCEPT ![p] = answer]
  /\ seen' = [seen EXCEPT ![p] = NoEntry]
  /\ attempt' = [attempt EXCEPT ![p] = 0]

Overtake == overtaken' = [p \in Procs |-> AtMost(MaxRetries, overtaken[p] + 1)]

\* Time passes, but no clock sample in use grows older than MaxAge.
Tick ==
  /\ clock < MaxClock
  /\ \A p \in Procs : InFlight(p) => clock - now[p] < MaxAge
  /\ clock' = clock + 1
  /\ IF Live /\ bucket.exp = clock + 1 THEN Overtake ELSE UNCHANGED overtaken
  /\ UNCHANGED <<bucket, pc, cost, now, attempt, seen, wait,
                 granted, grants, epoch, resets>>

\* acquire(): the clock is sampled once, before the first read.
Start(p) ==
  /\ pc[p] \in Resting
  /\ \E c \in Costs : cost' = [cost EXCEPT ![p] = c]
  /\ pc' = [pc EXCEPT ![p] = "get"]
  /\ now' = [now EXCEPT ![p] = clock - Lag[p]]
  /\ attempt' = [attempt EXCEPT ![p] = 0]
  /\ seen' = [seen EXCEPT ![p] = NoEntry]
  /\ wait' = [wait EXCEPT ![p] = 0]
  /\ overtaken' = [overtaken EXCEPT ![p] = 0]
  /\ UNCHANGED <<clock, bucket, granted, grants, epoch, resets>>

\* One attempt, first half: read the state; deny what would overflow.
ReadState(p) ==
  LET e == Lookup
      overflow == Water(e, now[p]) + cost[p] * EI - Window
  IN /\ pc[p] = "get"
     /\ \/ /\ overflow <= 0
           /\ pc' = [pc EXCEPT ![p] = "cas"]
           /\ seen' = [seen EXCEPT ![p] = e]
           /\ UNCHANGED <<attempt, wait, overtaken>>
        \/ /\ overflow > 0
           /\ Return(p, "denied")
           /\ wait' = [wait EXCEPT ![p] = overflow]
           /\ overtaken' = [overtaken EXCEPT ![p] = 0]
     /\ UNCHANGED <<clock, bucket, cost, now, granted, grants, epoch, resets>>

\* The state a granted request leaves: written at the sampled time.
Poured(p) ==
  [water |-> Water(seen[p], now[p]) + cost[p] * EI,
   last  |-> now[p],
   exp   |-> clock + Window]

Charge(p) ==
  /\ bucket' = Poured(p)
  /\ granted' = granted + cost[p]
  /\ grants' = grants + 1
  /\ Overtake

\* One attempt, second half: the swap takes effect and the call is allowed.
Swap(p) ==
  /\ pc[p] = "cas"
  /\ Matches(seen[p])
  /\ Charge(p)
  /\ Return(p, "allowed")
  /\ UNCHANGED <<clock, cost, now, wait, epoch, resets>>

\* The swap is refused: retry, or give up and fail closed.
SwapRefused(p) ==
  /\ pc[p] = "cas"
  /\ ~Matches(seen[p])
  /\ \/ /\ attempt[p] + 1 < MaxRetries
        /\ attempt' = [attempt EXCEPT ![p] = @ + 1]
        /\ pc' = [pc EXCEPT ![p] = "get"]
        /\ UNCHANGED seen
     \/ /\ attempt[p] + 1 >= MaxRetries
        /\ Return(p, "exhausted")
  /\ UNCHANGED <<clock, bucket, cost, now, wait, granted, grants, epoch,
                 resets, overtaken>>

\* The storage raises; a write whose acknowledgement is lost has charged.
StorageFails(p) ==
  /\ InFlight(p)
  /\ Return(p, "failed")
  /\ \/ UNCHANGED <<bucket, granted, grants, overtaken>>
     \/ pc[p] = "cas" /\ Matches(seen[p]) /\ Charge(p)
  /\ UNCHANGED <<clock, cost, now, wait, epoch, resets>>

\* reset(key) deletes the entry; the admission history starts again.
Reset ==
  /\ resets < MaxResets
  /\ bucket' = NoEntry
  /\ granted' = 0
  /\ grants' = 0
  /\ epoch' = clock
  /\ resets' = resets + 1
  /\ Overtake
  /\ UNCHANGED <<clock, pc, cost, now, attempt, seen, wait>>

Next ==
  \/ Tick
  \/ Reset
  \/ \E p \in Procs :
       Start(p) \/ ReadState(p) \/ Swap(p) \/ SwapRefused(p) \/ StorageFails(p)

Spec == Init /\ [][Next]_vars

-----------------------------------------------------------------------------

EntryTypes == [water : 0..Window, last : Int, exp : Nat]

(* Type invariant: the bucket never overflows. *)
TypeOK ==
  /\ clock \in Nat
  /\ bucket \in EntryTypes \union {NoEntry}
  /\ pc \in [Procs -> {"get", "cas"} \union Resting]
  /\ cost \in [Procs -> Nat \ {0}]
  /\ now \in [Procs -> Int]
  /\ attempt \in [Procs -> 0..MaxRetries]
  /\ seen \in [Procs -> EntryTypes \union {NoEntry}]
  /\ wait \in [Procs -> Nat]
  /\ granted \in Nat
  /\ grants \in Nat
  /\ epoch \in Nat
  /\ resets \in Nat
  /\ overtaken \in [Procs -> 0..MaxRetries]

(***************************************************************************)
(* Refinement: a leaky bucket is a token bucket upside down.  With tokens  *)
(* for the room left above the water, every step of this module is the     *)
(* step of the same name of TokenBucket: the same requests are granted,    *)
(* denied with the same retry_after and fail closed, and so everything     *)
(* that is proved of TokenBucket holds here.                               *)
(***************************************************************************)
Upended(e) ==
  IF e = NoEntry THEN NoEntry
  ELSE [tokens |-> Window - e.water, last |-> e.last, exp |-> e.exp]

TB == INSTANCE TokenBucket WITH
        bucket <- Upended(bucket),
        seen <- [p \in Procs |-> Upended(seen[p])]

ImplementsTokenBucket == TB!Spec

=============================================================================
