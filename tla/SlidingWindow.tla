--------------------------- MODULE SlidingWindow ---------------------------
(***************************************************************************)
(* SlidingWindowAlgorithm (core/algorithms/sliding_window.py): the counter *)
(* of the current window and that of the window before it, the latter      *)
(* weighted by how much of it the sliding window still overlaps.           *)
(*                                                                         *)
(* acquire() reads the previous counter, then the current one, then swaps  *)
(* the current one.  The swap notices that the current counter changed; a  *)
(* change of the previous one it cannot notice.  The clock is sampled when *)
(* the call starts and after a sleep, not when a swap was refused.         *)
(*                                                                         *)
(* Weights are counted in ticks: prev_count * weight + curr_count + cost   *)
(* <= limit is multiplied by W, which is exact here (in the code it is a   *)
(* comparison of floats).                                                  *)
(***************************************************************************)
EXTENDS Integers, FiniteSets, FiniteSetsExt

CONSTANTS
  Procs,       \* concurrent callers of acquire()
  Limit,       \* self.limit
  W,           \* self.window, in ticks
  Costs,       \* costs a caller may ask for
  Patience,    \* how a caller may ask to wait; see AllPatience
  MaxAge,      \* bound on the age of a clock sample in use
  MaxRetries,  \* max_retries, 5 in the code
  MaxClock,    \* bound on the clock
  MaxResets,   \* bound on administrative resets
  NotBlocking, \* block=False
  NoTimeout,   \* block=True, timeout=None
  NoEntry,     \* the key is not in the storage
  NoReset      \* no reset() is under way

\* block=True with a timeout, or one of the two above
AllPatience == Nat \union {NotBlocking, NoTimeout}

ASSUME ConstantsAssumption ==
  /\ Limit \in Nat \ {0}
  /\ W \in Nat \ {0}
  /\ Costs \subseteq Nat \ {0}
  /\ Patience \subseteq AllPatience
  /\ MaxAge \in 0..W
  /\ MaxRetries \in Nat \ {0}
  /\ MaxClock \in Nat
  /\ MaxResets \in Nat

ASSUME NullsAssumption ==
  /\ NoEntry \notin [count : Int, exp : Int]
  /\ NotBlocking \notin Nat
  /\ NoTimeout \notin Nat
  /\ NoReset \notin Int

VARIABLES
  clock,    \* the storage's clock
  store,    \* the counter of each window
  pc,       \* where each call is
  cost,     \* the cost each call asks for
  deadline, \* until when each call is ready to wait
  now,      \* the monotonic time each call sampled last
  attempt,  \* refused swaps of the call so far
  prev,     \* the previous window's count, as the call read it
  seen,     \* the current window's count, as the call read it
  cleaning, \* the window whose counter a reset() has yet to delete
  resets,   \* history: resets so far
  charged,  \* history: cost charged to each window since it was reset
  granted,  \* history: cost charged at each tick since the last reset
  late      \* history: windows that were charged after they were over

vars == <<clock, store, pc, cost, deadline, now, attempt, prev, seen,
          cleaning, resets, charged, granted, late>>

Ticks == 0..MaxClock

\* _get_window_id(); a storage key is the window's number
WindowOf(t) == t \div W

Windows == 0..WindowOf(MaxClock)

\* _get_elapsed()
Elapsed(t) == t % W

\* A call that was allowed, or that raised, leaves its caller idle.
Resting == {"idle", "denied"}

AtLeast(a, b) == IF a >= b THEN a ELSE b

\* Storage.get: an entry whose time to live is over reads as absent.
Live(w) == w \in Windows /\ store[w] # NoEntry /\ store[w].exp > clock

CountOf(w) == IF Live(w) THEN store[w].count ELSE 0

(***************************************************************************)
(* compare_and_swap: a call that read no count expects no entry.           *)
(***************************************************************************)
Matches(w, count) ==
  IF count = 0 THEN ~Live(w) ELSE Live(w) /\ store[w].count = count

\* Mutant of Estimated: the previous window gains weight as time passes.
EstimatedUpsideDown(before, current, t) == before * Elapsed(t) + current * W

\* _compute_estimated(), times W, at time t
Estimated(before, current, t) == before * (W - Elapsed(t)) + current * W

\* Mutant of TimeToLive: one window, as in the bucket algorithms.
OneWindow == W

\* storage.compare_and_swap(..., self.window * 2): time to live of a counter
TimeToLive == 2 * W

-----------------------------------------------------------------------------

Init ==
  /\ clock = 0
  /\ store = [w \in Windows |-> NoEntry]
  /\ pc = [p \in Procs |-> "idle"]
  /\ cost = [p \in Procs |-> 1]
  /\ deadline = [p \in Procs |-> NotBlocking]
  /\ now = [p \in Procs |-> 0]
  /\ attempt = [p \in Procs |-> 0]
  /\ prev = [p \in Procs |-> 0]
  /\ seen = [p \in Procs |-> 0]
  /\ cleaning = NoReset
  /\ resets = 0
  /\ charged = [w \in Windows |-> 0]
  /\ granted = [t \in Ticks |-> 0]
  /\ late = {}

InFlight(p) == pc[p] \notin Resting

\* The call returns (or raises) and its frame is gone.
Return(p, answer) ==
  /\ pc' = [pc EXCEPT ![p] = answer]
  /\ cost' = [cost EXCEPT ![p] = 1]
  /\ deadline' = [deadline EXCEPT ![p] = NotBlocking]
  /\ now' = [now EXCEPT ![p] = 0]
  /\ attempt' = [attempt EXCEPT ![p] = 0]
  /\ prev' = [prev EXCEPT ![p] = 0]
  /\ seen' = [seen EXCEPT ![p] = 0]

\* Clock samples that are not too old to be in use.
Recent == AtLeast(0, clock - MaxAge)..clock

\* Time passes, but no clock sample in use grows older than MaxAge.
Tick ==
  /\ clock < MaxClock
  /\ \A p \in Procs :
       InFlight(p) /\ pc[p] # "sleep" => clock - now[p] < MaxAge
  /\ clock' = clock + 1
  /\ UNCHANGED <<store, pc, cost, deadline, now, attempt, prev, seen,
                 cleaning, resets, charged, granted, late>>

\* acquire(), and after a sleep: the clock is sampled.
Start(p) ==
  /\ pc[p] \in Resting
  /\ \E c \in Costs : cost' = [cost EXCEPT ![p] = c]
  /\ \E b \in Patience :
       deadline' = [deadline EXCEPT ![p] = IF b \in Nat THEN clock + b ELSE b]
  /\ \E t \in Recent : now' = [now EXCEPT ![p] = t]
  /\ pc' = [pc EXCEPT ![p] = "prev"]
  /\ UNCHANGED <<clock, store, attempt, prev, seen, cleaning, resets,
                 charged, granted, late>>

WakeUp(p) ==
  /\ pc[p] = "sleep"
  /\ \E t \in Recent : now' = [now EXCEPT ![p] = t]
  /\ pc' = [pc EXCEPT ![p] = "prev"]
  /\ UNCHANGED <<clock, store, cost, deadline, attempt, prev, seen, cleaning,
                 resets, charged, granted, late>>

\* Mutant of ReadPrevious: off by one window.
ReadPreviousOffByOne(p) ==
  /\ pc[p] = "prev"
  /\ prev' = [prev EXCEPT ![p] = CountOf(WindowOf(now[p]))]
  /\ pc' = [pc EXCEPT ![p] = "curr"]
  /\ UNCHANGED <<clock, store, cost, deadline, now, attempt, seen, cleaning,
                 resets, charged, granted, late>>

ReadPrevious(p) ==
  /\ pc[p] = "prev"
  /\ prev' = [prev EXCEPT ![p] = CountOf(WindowOf(now[p]) - 1)]
  /\ pc' = [pc EXCEPT ![p] = "curr"]
  /\ UNCHANGED <<clock, store, cost, deadline, now, attempt, seen, cleaning,
                 resets, charged, granted, late>>

\* min(retry_after, timeout - elapsed) > 0, for a call that may block
MayWait(p) ==
  deadline[p] \in Nat /\ clock < deadline[p]

(***************************************************************************)
(* Read the current counter and go for the swap, sleep, or deny.  A sleep  *)
(* does not count as an attempt.                                           *)
(***************************************************************************)
ReadCurrent(p) ==
  LET count == CountOf(WindowOf(now[p]))
      fits == Estimated(prev[p], count + cost[p], now[p]) <= Limit * W
  IN /\ pc[p] = "curr"
     /\ \/ /\ fits
           /\ pc' = [pc EXCEPT ![p] = "cas"]
           /\ seen' = [seen EXCEPT ![p] = count]
           /\ UNCHANGED <<cost, deadline, now, attempt, prev>>
        \/ /\ ~fits
           /\ MayWait(p)
           /\ pc' = [pc EXCEPT ![p] = "sleep"]
           /\ now' = [now EXCEPT ![p] = 0]
           /\ prev' = [prev EXCEPT ![p] = 0]
           /\ UNCHANGED <<cost, deadline, attempt, seen>>
        \/ /\ ~fits
           /\ ~MayWait(p)
           /\ Return(p, "denied")
     /\ UNCHANGED <<clock, store, cleaning, resets, charged, granted, late>>

\* The swap takes effect.
Charge(p) ==
  LET w == WindowOf(now[p])
  IN /\ store' = [store EXCEPT ![w] = [count |-> seen[p] + cost[p],
                                       exp   |-> clock + TimeToLive]]
     /\ charged' = [charged EXCEPT ![w] = @ + cost[p]]
     /\ granted' = [granted EXCEPT ![clock] = @ + cost[p]]
     /\ late' = IF w = WindowOf(clock) THEN late ELSE late \union {w}

Swap(p) ==
  /\ pc[p] = "cas"
  /\ Matches(WindowOf(now[p]), seen[p])
  /\ Charge(p)
  /\ Return(p, "idle")
  /\ UNCHANGED <<clock, cleaning, resets>>

\* The swap is refused: read again, for the same sample, or fail closed.
SwapRefused(p) ==
  /\ pc[p] = "cas"
  /\ ~Matches(WindowOf(now[p]), seen[p])
  /\ \/ /\ attempt[p] + 1 < MaxRetries
        /\ attempt' = [attempt EXCEPT ![p] = @ + 1]
        /\ pc' = [pc EXCEPT ![p] = "prev"]
        /\ prev' = [prev EXCEPT ![p] = 0]
        /\ seen' = [seen EXCEPT ![p] = 0]
        /\ UNCHANGED <<cost, deadline, now>>
     \/ /\ attempt[p] + 1 >= MaxRetries
        /\ Return(p, "denied")
  /\ UNCHANGED <<clock, store, cleaning, resets, charged, granted, late>>

(***************************************************************************)
(* The storage raises: acquire() turns it into BackendFailure.  A write    *)
(* whose acknowledgement is lost has charged the counter all the same.     *)
(***************************************************************************)
StorageFails(p) ==
  /\ pc[p] \in {"prev", "curr", "cas"}
  /\ Return(p, "idle")
  /\ \/ UNCHANGED <<store, charged, granted, late>>
     \/ pc[p] = "cas" /\ Matches(WindowOf(now[p]), seen[p]) /\ Charge(p)
  /\ UNCHANGED <<clock, cleaning, resets>>

\* Delete the counter of window w; the history of charges starts again.
Forget(w) ==
  /\ store' = [v \in Windows |-> IF v = w THEN NoEntry ELSE store[v]]
  /\ charged' = [v \in Windows |-> IF v = w THEN 0 ELSE charged[v]]
  /\ granted' = [t \in Ticks |-> 0]

\* reset(key): first the current window's counter, then the previous one's.
Reset ==
  \/ /\ cleaning = NoReset
     /\ resets < MaxResets
     /\ resets' = resets + 1
     /\ \E t \in Recent :
          Forget(WindowOf(t)) /\ cleaning' = WindowOf(t) - 1
     /\ UNCHANGED <<clock, pc, cost, deadline, now, attempt, prev, seen, late>>
  \/ /\ cleaning # NoReset
     /\ Forget(cleaning)
     /\ cleaning' = NoReset
     /\ UNCHANGED <<clock, pc, cost, deadline, now, attempt, prev, seen,
                    resets, late>>

Step(p) ==
  \/ ReadPrevious(p)
  \/ ReadCurrent(p)
  \/ Swap(p)
  \/ SwapRefused(p)

Next ==
  \/ Tick
  \/ Reset
  \/ \E p \in Procs : Start(p) \/ WakeUp(p) \/ Step(p) \/ StorageFails(p)

Spec == Init /\ [][Next]_vars

-----------------------------------------------------------------------------

(***************************************************************************)
(* Type invariant: neither window's counter is ever 0 or above the limit,  *)
(* and no caller has read more than that from either.                      *)
(***************************************************************************)
TypeOK ==
  /\ clock \in Ticks
  /\ store \in [Windows -> [count : 1..Limit, exp : Nat] \union {NoEntry}]
  /\ pc \in [Procs -> {"prev", "curr", "cas", "sleep"} \union Resting]
  /\ cost \in [Procs -> Nat \ {0}]
  /\ deadline \in [Procs -> AllPatience]
  /\ now \in [Procs -> Ticks]
  /\ attempt \in [Procs -> 0..MaxRetries]
  /\ prev \in [Procs -> 0..Limit]
  /\ seen \in [Procs -> 0..Limit]
  /\ cleaning \in Windows \union {-1, NoReset}
  /\ resets \in Nat
  /\ charged \in [Windows -> Nat]
  /\ granted \in [Ticks -> Nat]
  /\ late \subseteq Windows

(***************************************************************************)
(* No window is charged more than the limit between two resets, however    *)
(* old the clock samples of late callers are, up to a window's length.     *)
(***************************************************************************)
PerWindowBound == \A w \in Windows : charged[w] <= Limit

\* what window w was charged, before the first window, too
ChargedTo(w) == IF w \in Windows THEN charged[w] ELSE 0

(***************************************************************************)
(* What the weighting is for: "prev_count * weight + curr_count" stays     *)
(* within the limit (sliding_window.py:56-59), at every moment, for what   *)
(* the two windows were really charged - whatever the callers read, and    *)
(* though they read the two counters one after the other.  It takes that   *)
(* the previous window was not charged after it was over: a caller of the  *)
(* current window that read its counter before cannot know.                *)
(***************************************************************************)
Weighted(w, t) ==
  Estimated(ChargedTo(w - 1), ChargedTo(w), t) <= Limit * W

WeightedBound ==
  WindowOf(clock) - 1 \notin late => Weighted(WindowOf(clock), clock)

(***************************************************************************)
(* What that is worth: without late charges, a stretch of one window's     *)
(* length that starts e > 0 ticks into a window sees at most               *)
(* (1 + (e - 1) / W) times the limit.  Towards the end of a window this    *)
(* comes close to twice the limit.                                         *)
(***************************************************************************)
GrantedFrom(t) ==
  MapThenSumSet(LAMBDA s : granted[s], t..(t + W - 1))

BurstBound ==
  late = {} =>
    \A t \in 0..(MaxClock - W + 1) :
      GrantedFrom(t) * W <= Limit * (W + AtLeast(0, Elapsed(t) - 1))

(***************************************************************************)
(* Nobody is turned away by counts that nobody was charged: at the time of *)
(* a denial by the estimate, the cost does not fit what the two windows    *)
(* were charged.                                                           *)
(***************************************************************************)
DenialsAreDeserved ==
  [][\A p \in Procs : pc[p] = "curr" /\ pc'[p] = "denied" /\ resets = 0
       => LET w == WindowOf(now[p])
          IN Estimated(ChargedTo(w - 1), ChargedTo(w) + cost[p], now[p])
               > Limit * W]_vars

=============================================================================
