---------------------------- MODULE FixedWindow ----------------------------
(***************************************************************************)
(* FixedWindowAlgorithm (core/algorithms/fixed_window.py): one counter per *)
(* window, advanced by concurrent acquire() calls on one key.              *)
(*                                                                         *)
(* Unlike the bucket algorithms, acquire() samples the clock again before  *)
(* every attempt.  A sample, and with it the counter a call goes for, may  *)
(* still be up to MaxAge ticks old when a write takes effect: a caller may *)
(* charge the counter of a window that is over.                            *)
(***************************************************************************)
EXTENDS Integers, FiniteSets, FiniteSetsExt

CONSTANTS
  Procs,       \* concurrent callers of acquire()
  Limit,       \* self.limit
  W,           \* self.window, in ticks
  Costs,       \* costs a caller may ask for
  Patience,    \* how a caller may ask to wait; see AllPatience
  MaxAge,      \* bound on the age of a clock sample in use
  MaxRetries,  \* max_retries, 5 in the code
  MaxClock,    \* bound on the clock
  MaxResets,   \* bound on administrative resets
  NotBlocking, \* block=False
  NoTimeout,   \* block=True, timeout=None
  NoEntry      \* the key is not in the storage

\* block=True with a timeout, or one of the two above
AllPatience == Nat \union {NotBlocking, NoTimeout}

ASSUME ConstantsAssumption ==
  /\ Limit \in Nat \ {0}
  /\ W \in Nat \ {0}
  /\ Costs \subseteq Nat \ {0}
  /\ Patience \subseteq AllPatience
  /\ MaxAge \in 0..W
  /\ MaxRetries \in Nat \ {0}
  /\ MaxClock \in Nat
  /\ MaxResets \in Nat

ASSUME NullsAssumption ==
  /\ NoEntry \notin [count : Int, exp : Int]
  /\ NotBlocking \notin Nat
  /\ NoTimeout \notin Nat

VARIABLES
  clock,    \* the storage's clock
  store,    \* the counter of each window
  pc,       \* where each call is
  cost,     \* the cost each call asks for
  deadline, \* until when each call is ready to wait
  now,      \* the monotonic time each attempt sampled
  attempt,  \* refused swaps of the call so far
  seen,     \* the count the call read last
  resets,   \* history: resets so far
  charged,  \* history: cost charged to each window since it was reset
  granted   \* history: cost charged at each tick since the last reset

vars == <<clock, store, pc, cost, deadline, now, attempt, seen,
          resets, charged, granted>>

Ticks == 0..MaxClock

\* _get_window_id(); a storage key is the window's number
WindowOf(t) == t \div W

Windows == 0..WindowOf(MaxClock)

\* A call that was allowed, or that raised, leaves its caller idle.
Resting == {"idle", "denied"}

AtLeast(a, b) == IF a >= b THEN a ELSE b

\* Storage.get: an entry whose time to live is over reads as absent.
Live(w) == store[w] # NoEntry /\ store[w].exp > clock

CountOf(w) == IF Live(w) THEN store[w].count ELSE 0

\* Mutant of Matches: the swap is a plain write.
MatchesAnything(w, count) == TRUE

(***************************************************************************)
(* compare_and_swap: a call that read no count expects no entry.           *)
(***************************************************************************)
Matches(w, count) ==
  IF count = 0 THEN ~Live(w) ELSE Live(w) /\ store[w].count = count

\* Mutant of TimeToLive: one tick.
OneTick == 1

\* storage.compare_and_swap(..., self.window * 2): time to live of a counter
TimeToLive == 2 * W

-----------------------------------------------------------------------------

Init ==
  /\ clock = 0
  /\ store = [w \in Windows |-> NoEntry]
  /\ pc = [p \in Procs |-> "idle"]
  /\ cost = [p \in Procs |-> 1]
  /\ deadline = [p \in Procs |-> NotBlocking]
  /\ now = [p \in Procs |-> 0]
  /\ attempt = [p \in Procs |-> 0]
  /\ seen = [p \in Procs |-> 0]
  /\ resets = 0
  /\ charged = [w \in Windows |-> 0]
  /\ granted = [t \in Ticks |-> 0]

InFlight(p) == pc[p] \notin Resting

\* The call returns (or raises) and its frame is gone.
Return(p, answer) ==
  /\ pc' = [pc EXCEPT ![p] = answer]
  /\ cost' = [cost EXCEPT ![p] = 1]
  /\ deadline' = [deadline EXCEPT ![p] = NotBlocking]
  /\ now' = [now EXCEPT ![p] = 0]
  /\ attempt' = [attempt EXCEPT ![p] = 0]
  /\ seen' = [seen EXCEPT ![p] = 0]

\* Clock samples that are not too old to be in use.
Recent == AtLeast(0, clock - MaxAge)..clock

\* Time passes, but no clock sample in use grows older than MaxAge.
Tick ==
  /\ clock < MaxClock
  /\ \A p \in Procs : pc[p] = "cas" => clock - now[p] < MaxAge
  /\ clock' = clock + 1
  /\ UNCHANGED <<store, pc, cost, deadline, now, attempt, seen,
                 resets, charged, granted>>

Start(p) ==
  /\ pc[p] \in Resting
  /\ \E c \in Costs : cost' = [cost EXCEPT ![p] = c]
  /\ \E b \in Patience :
       deadline' = [deadline EXCEPT ![p] = IF b \in Nat THEN clock + b ELSE b]
  /\ pc' = [pc EXCEPT ![p] = "get"]
  /\ UNCHANGED <<clock, store, now, attempt, seen, resets, charged, granted>>

\* Mutant of MayWait: only if a whole window is left to wait.
MayWaitAWindow(p) ==
  deadline[p] \in Nat /\ clock + W < deadline[p]

\* min(retry_after, timeout - elapsed) > 0, for a call that may block
MayWait(p) ==
  deadline[p] \in Nat /\ clock < deadline[p]

Fits(count, c) == count + c <= Limit

(***************************************************************************)
(* One attempt, first half: sample the clock, read the counter of that     *)
(* window, and go for the swap, sleep and look again, or deny.  A sleep    *)
(* does not count as an attempt.                                           *)
(***************************************************************************)
ReadCount(p) ==
  \E t \in Recent :
    LET count == CountOf(WindowOf(t))
    IN /\ pc[p] = "get"
       /\ \/ /\ Fits(count, cost[p])
             /\ pc' = [pc EXCEPT ![p] = "cas"]
             /\ now' = [now EXCEPT ![p] = t]
             /\ seen' = [seen EXCEPT ![p] = count]
             /\ UNCHANGED <<cost, deadline, attempt>>
          \/ /\ ~Fits(count, cost[p])
             /\ MayWait(p)
             /\ UNCHANGED <<pc, now, seen, cost, deadline, attempt>>
          \/ /\ ~Fits(count, cost[p])
             /\ ~MayWait(p)
             /\ Return(p, "denied")
       /\ UNCHANGED <<clock, store, resets, charged, granted>>

\* The swap takes effect.
Charge(p) ==
  LET w == WindowOf(now[p])
  IN /\ store' = [store EXCEPT ![w] = [count |-> seen[p] + cost[p],
                                       exp   |-> clock + TimeToLive]]
     /\ charged' = [charged EXCEPT ![w] = @ + cost[p]]
     /\ granted' = [granted EXCEPT ![clock] = @ + cost[p]]

Swap(p) ==
  /\ pc[p] = "cas"
  /\ Matches(WindowOf(now[p]), seen[p])
  /\ Charge(p)
  /\ Return(p, "idle")
  /\ UNCHANGED <<clock, resets>>

\* The swap is refused: retry with a new sample, or fail closed.
SwapRefused(p) ==
  /\ pc[p] = "cas"
  /\ ~Matches(WindowOf(now[p]), seen[p])
  /\ \/ /\ attempt[p] + 1 < MaxRetries
        /\ attempt' = [attempt EXCEPT ![p] = @ + 1]
        /\ pc' = [pc EXCEPT ![p] = "get"]
        /\ now' = [now EXCEPT ![p] = 0]
        /\ seen' = [seen EXCEPT ![p] = 0]
        /\ UNCHANGED <<cost, deadline>>
     \/ /\ attempt[p] + 1 >= MaxRetries
        /\ Return(p, "denied")
  /\ UNCHANGED <<clock, store, resets, charged, granted>>

(***************************************************************************)
(* The storage raises: acquire() turns it into BackendFailure.  A write    *)
(* whose acknowledgement is lost has charged the counter all the same.     *)
(***************************************************************************)
StorageFails(p) ==
  /\ InFlight(p)
  /\ Return(p, "idle")
  /\ \/ UNCHANGED <<store, charged, granted>>
     \/ pc[p] = "cas" /\ Matches(WindowOf(now[p]), seen[p]) /\ Charge(p)
  /\ UNCHANGED <<clock, resets>>

\* reset(key) deletes the counter of the window its own sample falls in.
Reset ==
  /\ resets < MaxResets
  /\ \E t \in Recent :
       /\ store' = [store EXCEPT ![WindowOf(t)] = NoEntry]
       /\ charged' = [charged EXCEPT ![WindowOf(t)] = 0]
  /\ granted' = [t \in Ticks |-> 0]
  /\ resets' = resets + 1
  /\ UNCHANGED <<clock, pc, cost, deadline, now, attempt, seen>>

Next ==
  \/ Tick
  \/ Reset
  \/ \E p \in Procs :
       Start(p) \/ ReadCount(p) \/ Swap(p) \/ SwapRefused(p) \/ StorageFails(p)

Spec == Init /\ [][Next]_vars

-----------------------------------------------------------------------------

(***************************************************************************)
(* Type invariant: a stored counter is never 0 and never above the limit,  *)
(* and no caller has read more than that.                                  *)
(***************************************************************************)
TypeOK ==
  /\ clock \in Ticks
  /\ store \in [Windows -> [count : 1..Limit, exp : Nat] \union {NoEntry}]
  /\ pc \in [Procs -> {"get", "cas"} \union Resting]
  /\ cost \in [Procs -> Nat \ {0}]
  /\ deadline \in [Procs -> AllPatience]
  /\ now \in [Procs -> Ticks]
  /\ attempt \in [Procs -> 0..MaxRetries]
  /\ seen \in [Procs -> 0..Limit]
  /\ resets \in Nat
  /\ charged \in [Windows -> Nat]
  /\ granted \in [Ticks -> Nat]

(***************************************************************************)
(* "Counts requests in fixed time windows" (fixed_window.py:14): no window *)
(* is charged more than the limit between two resets, however old the      *)
(* clock samples of late callers are, up to a window's length: a counter   *)
(* outlives the last caller that can still go for it.                      *)
(***************************************************************************)
PerWindowBound == \A w \in Windows : charged[w] <= Limit

(***************************************************************************)
(* Nobody is turned away by counts that nobody was charged: at the time of *)
(* a denial, the window of a recent sample is charged so much that the     *)
(* cost does not fit.                                                      *)
(***************************************************************************)
DenialsAreDeserved ==
  [][\A p \in Procs : pc[p] = "get" /\ pc'[p] = "denied"
       => \E t \in Recent : charged[WindowOf(t)] + cost[p] > Limit]_vars

(***************************************************************************)
(* "Up to 2x limit at window edges" (fixed_window.py:15): what is granted  *)
(* in any stretch of one window's length is bounded by the windows whose   *)
(* counters it can reach - two of them as long as samples are at most one  *)
(* tick old, and with older ones a third.                                  *)
(***************************************************************************)
Reached(t) ==
  WindowOf(t + W - 1) - WindowOf(AtLeast(0, t - MaxAge)) + 1

SpanBound ==
  \A t \in 0..(MaxClock - W + 1) :
    MapThenSumSet(LAMBDA s : granted[s], t..(t + W - 1)) <= Limit * Reached(t)

(***************************************************************************)
(* Waiting pays: a call that may wait for a window's length and MaxAge     *)
(* ticks, for no more than the limit, is denied only because others were   *)
(* let in after it came.                                                   *)
(***************************************************************************)
WaitingAWindowHelps ==
  [][\A p \in Procs :
       /\ pc[p] = "get" /\ pc'[p] = "denied"
       /\ deadline[p] \in Nat /\ cost[p] <= Limit /\ resets = 0
       => \E t \in Ticks : t > deadline[p] - W - MaxAge /\ granted[t] > 0]_vars

=============================================================================
