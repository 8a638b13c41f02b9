------------------------ MODULE SlidingWindowProofs ------------------------
(***************************************************************************)
(* Proofs about SlidingWindow, for any number of callers, any limit, any   *)
(* window, any costs and waits, and samples up to a window's length old.   *)
(* Two invariants: one bounds each window, and on top of it a second one   *)
(* bounds the weighted estimate.                                           *)
(***************************************************************************)
EXTENDS SlidingWindow, Sums, TLAPS

-----------------------------------------------------------------------------
(* The inductive invariant. *)

Counters == [count : Nat \ {0}, exp : Nat]

Types ==
  /\ clock \in Ticks
  /\ store \in [Windows -> Counters \union {NoEntry}]
  /\ pc \in [Procs -> {"prev", "curr", "cas", "sleep"} \union Resting]
  /\ cost \in [Procs -> Nat \ {0}]
  /\ now \in [Procs -> Ticks]
  /\ prev \in [Procs -> Nat]
  /\ seen \in [Procs -> Nat]
  /\ charged \in [Windows -> Nat]

\* Window w is the current or the previous one of somebody who may charge it.
InUse(w) == clock < w * W + TimeToLive

\* A counter outlives everybody who may still go for it.
Outlives ==
  \A w \in Windows : store[w] # NoEntry => w * W + TimeToLive <= store[w].exp

\* As long as its counter is in use, it counts what the window was charged.
Counted ==
  \A w \in Windows : InUse(w) => charged[w] = CountOf(w)

\* A clock sample in use is never ahead of the clock, nor older than MaxAge.
Sampled(p) == pc[p] \in {"prev", "curr", "cas"}

SampleFresh ==
  \A p \in Procs : Sampled(p) => now[p] <= clock /\ clock <= now[p] + MaxAge

\* A caller about to swap has room for its cost, as far as it has seen.
SwapCovered ==
  \A p \in Procs : pc[p] = "cas" =>
    Estimated(prev[p], seen[p] + cost[p], now[p]) <= Limit * W

IInv ==
  /\ Types
  /\ Outlives
  /\ Counted
  /\ SampleFresh
  /\ SwapCovered
  /\ PerWindowBound

-----------------------------------------------------------------------------
(* Windows and samples. *)

LEMMA Products ==
  /\ \A a, b \in Nat : a * b \in Nat
  /\ \A a \in Nat : a * W \in Nat
  /\ \A a, b \in Nat : a * W < b * W + W => a <= b
  /\ \A a, b \in Nat : a * W <= b * W => a <= b
  /\ \A a, b \in Nat : a <= b => a * W <= b * W
  /\ \A a, b \in Nat : (a + b) * W = a * W + b * W
<1>1. W \in Nat \ {0}
  BY ConstantsAssumption
<1>2. QED
  BY <1>1

LEMMA WindowBounds ==
  ASSUME NEW t \in Nat
  PROVE  /\ WindowOf(t) \in Nat /\ Elapsed(t) \in Nat
         /\ t = WindowOf(t) * W + Elapsed(t)
         /\ Elapsed(t) < W
<1>1. W \in Nat \ {0}
  BY ConstantsAssumption
<1>2. QED
  BY <1>1 DEF WindowOf, Elapsed

(* The next tick is in the same window, or the first of the next one. *)
LEMMA NextTick ==
  ASSUME NEW t \in Nat
  PROVE  \/ WindowOf(t + 1) = WindowOf(t) /\ Elapsed(t + 1) = Elapsed(t) + 1
         \/ WindowOf(t + 1) = WindowOf(t) + 1 /\ Elapsed(t + 1) = 0
<1> DEFINE w == WindowOf(t)
           v == WindowOf(t + 1)
<1>0. t + 1 \in Nat
  OBVIOUS
<1>1. /\ w \in Nat /\ v \in Nat /\ Elapsed(t) \in Nat /\ Elapsed(t + 1) \in Nat
      /\ t = w * W + Elapsed(t) /\ Elapsed(t) < W
      /\ t + 1 = v * W + Elapsed(t + 1) /\ Elapsed(t + 1) < W
      /\ W \in Nat \ {0}
  BY <1>0, WindowBounds, ConstantsAssumption
<1>2. /\ w * W \in Nat /\ v * W \in Nat /\ (w + 1) * W = w * W + W
  BY <1>1, Products
<1> HIDE DEF w, v
<1>3. w <= v
  BY <1>1, <1>2, Products
<1>4. v <= w + 1
  <2>1. v * W < (w + 1) * W + W
    BY <1>1, <1>2
  <2>2. QED
    BY <1>1, <2>1, Products
<1>5. CASE v = w
  <2>1. Elapsed(t + 1) = Elapsed(t) + 1
    BY <1>1, <1>2, <1>5
  <2>2. QED
    BY <1>5, <2>1 DEF v, w
<1>6. CASE v = w + 1
  <2>1. Elapsed(t + 1) = 0
    BY <1>1, <1>2, <1>6
  <2>2. QED
    BY <1>6, <2>1 DEF v, w
<1>7. QED
  BY <1>1, <1>3, <1>4, <1>5, <1>6

LEMMA WindowInRange ==
  ASSUME NEW t \in Ticks
  PROVE  WindowOf(t) \in Windows
<1>1. t \in Nat /\ MaxClock \in Nat /\ t <= MaxClock
  BY ConstantsAssumption DEF Ticks
<1>2. /\ WindowOf(t) \in Nat /\ WindowOf(MaxClock) \in Nat
      /\ WindowOf(t) * W \in Nat /\ WindowOf(MaxClock) * W \in Nat
  BY <1>1, WindowBounds, Products
<1>3. WindowOf(t) * W < WindowOf(MaxClock) * W + W
  BY <1>1, <1>2, WindowBounds, ConstantsAssumption
<1>4. QED
  BY <1>2, <1>3, Products DEF Windows

(* A window that a recent sample falls into is in use. *)
LEMMA FreshIsInUse ==
  ASSUME Types, NEW t \in Ticks, t <= clock, clock <= t + MaxAge
  PROVE  WindowOf(t) \in Windows /\ InUse(WindowOf(t))
<1>1. /\ clock \in Nat /\ t \in Nat /\ W \in Nat
      /\ MaxAge \in Nat /\ MaxAge <= W
  BY ConstantsAssumption DEF Types, Ticks
<1>2. /\ WindowOf(t) * W \in Nat /\ Elapsed(t) \in Nat
      /\ t = WindowOf(t) * W + Elapsed(t) /\ Elapsed(t) < W
  BY <1>1, WindowBounds, Products
<1>3. InUse(WindowOf(t))
  BY <1>1, <1>2 DEF InUse, TimeToLive
<1>4. QED
  BY <1>3, WindowInRange

LEMMA CountIsNat ==
  ASSUME Types, NEW w \in Int
  PROVE  CountOf(w) \in Nat
BY DEF CountOf, Live, Types, Counters

LEMMA RecentIsFresh ==
  ASSUME Types, NEW t \in Recent
  PROVE  t \in Ticks /\ t <= clock /\ clock <= t + MaxAge
<1>1. /\ clock \in Nat /\ clock <= MaxClock
      /\ MaxAge \in Nat /\ MaxClock \in Nat
  BY ConstantsAssumption DEF Types, Ticks
<1>2. QED
  BY <1>1 DEF Recent, AtLeast, Ticks

(* What an estimate within the limit says of the current window alone. *)
LEMMA EstimateBoundsCurrent ==
  ASSUME NEW before \in Nat, NEW current \in Nat, NEW t \in Nat,
         Estimated(before, current, t) <= Limit * W
  PROVE  current <= Limit
<1>1. W - Elapsed(t) \in Nat /\ Limit \in Nat
  <2>1. Elapsed(t) \in Nat /\ Elapsed(t) < W /\ W \in Nat
    BY WindowBounds, ConstantsAssumption
  <2>2. QED
    BY <2>1, ConstantsAssumption
<1>2. before * (W - Elapsed(t)) \in Nat /\ current * W \in Nat /\ Limit * W \in Nat
  BY <1>1, Products
<1>3. current * W <= Limit * W
  BY <1>2 DEF Estimated
<1>4. QED
  BY <1>1, <1>3, Products

(***************************************************************************)
(* A charge: what the caller read of its own window is what that window    *)
(* was charged.                                                            *)
(***************************************************************************)
LEMMA ChargeIsCounted ==
  ASSUME IInv, NEW p \in Procs, pc[p] = "cas",
         Matches(WindowOf(now[p]), seen[p]), Charge(p), clock' = clock
  PROVE  /\ store' \in [Windows -> Counters \union {NoEntry}]
         /\ charged' \in [Windows -> Nat]
         /\ Outlives' /\ Counted' /\ PerWindowBound'
         /\ WindowOf(now[p]) \in Windows
         /\ charged'[WindowOf(now[p])] = seen[p] + cost[p]
         /\ \A v \in Windows : v # WindowOf(now[p]) => charged'[v] = charged[v]
<1> DEFINE w == WindowOf(now[p])
           entry == [count |-> seen[p] + cost[p], exp |-> clock + TimeToLive]
<1>1. /\ clock \in Nat /\ now[p] \in Ticks /\ now[p] \in Nat
      /\ seen[p] \in Nat /\ cost[p] \in Nat \ {0} /\ prev[p] \in Nat
      /\ W \in Nat \ {0} /\ MaxAge \in Nat /\ Limit \in Nat
  BY ConstantsAssumption DEF IInv, Types, Ticks
<1>2. /\ now[p] <= clock /\ clock <= now[p] + MaxAge
      /\ Estimated(prev[p], seen[p] + cost[p], now[p]) <= Limit * W
  BY DEF IInv, SwapCovered, SampleFresh, Sampled
<1>3. w \in Windows /\ InUse(w)
  BY <1>1, <1>2, FreshIsInUse DEF IInv
<1>4. w * W \in Nat /\ w * W <= clock
  <2>1. w \in Nat /\ Elapsed(now[p]) \in Nat /\ now[p] = w * W + Elapsed(now[p])
    BY <1>1, WindowBounds
  <2>2. w * W \in Nat
    BY <2>1, Products
  <2>3. QED
    BY <1>1, <1>2, <2>1, <2>2
<1>5. seen[p] + cost[p] <= Limit
  BY <1>1, <1>2, EstimateBoundsCurrent
<1>6. charged[w] = CountOf(w)
  BY <1>3 DEF IInv, Counted
<1>7. CountOf(w) = seen[p]
  BY DEF Matches, CountOf
<1>8. /\ store' = [store EXCEPT ![w] = entry]
      /\ charged' = [charged EXCEPT ![w] = @ + cost[p]]
  BY DEF Charge
<1>9. /\ store' \in [Windows -> Counters \union {NoEntry}]
      /\ charged' \in [Windows -> Nat]
  <2>1. entry \in Counters
    BY <1>1 DEF Counters, TimeToLive
  <2>2. charged[w] + cost[p] \in Nat
    BY <1>1, <1>3 DEF IInv, Types
  <2> HIDE DEF w, entry
  <2>3. QED
    BY <1>8, <2>1, <2>2 DEF IInv, Types
<1>10. /\ store'[w] = entry
       /\ charged'[w] = seen[p] + cost[p]
       /\ \A v \in Windows : v # w =>
            store'[v] = store[v] /\ charged'[v] = charged[v]
  BY <1>3, <1>6, <1>7, <1>8 DEF IInv, Types
<1>11. entry.exp = clock + TimeToLive /\ entry.count = seen[p] + cost[p]
  OBVIOUS
<1>12. Outlives'
  <2>1. w * W + TimeToLive <= entry.exp
    BY <1>1, <1>4, <1>11 DEF TimeToLive
  <2> SUFFICES ASSUME NEW v \in Windows, store'[v] # NoEntry
               PROVE  v * W + TimeToLive <= store'[v].exp
    BY DEF Outlives, TimeToLive, Windows, WindowOf
  <2>2. CASE v = w
    BY <2>1, <2>2, <1>10
  <2>3. CASE v # w
    BY <2>3, <1>10 DEF IInv, Outlives
  <2>4. QED
    BY <2>2, <2>3
<1>13. Counted'
  <2> SUFFICES ASSUME NEW v \in Windows, InUse(v)
               PROVE  charged'[v] = CountOf(v)'
    BY DEF Counted, InUse, Windows, WindowOf, TimeToLive
  <2>1. CASE v = w
    <3>1. entry \in Counters
      BY <1>1 DEF Counters, TimeToLive
    <3>2. entry # NoEntry
      BY <3>1, NullsAssumption DEF Counters
    <3>3. entry.exp > clock
      BY <1>1, <1>11 DEF TimeToLive
    <3>4. w \in Windows'
      BY <1>3 DEF Windows, WindowOf
    <3>5. QED
      BY <2>1, <3>2, <3>3, <3>4, <1>10, <1>11 DEF CountOf, Live
  <2>2. CASE v # w
    <3>1. CountOf(v)' = CountOf(v)
      BY <2>2, <1>10 DEF CountOf, Live, Windows, WindowOf
    <3>2. QED
      BY <2>2, <3>1, <1>10 DEF IInv, Counted
  <2>3. QED
    BY <2>1, <2>2
<1>14. PerWindowBound'
  <2> SUFFICES ASSUME NEW v \in Windows
               PROVE  charged'[v] <= Limit
    BY DEF PerWindowBound, Windows, WindowOf
  <2>1. QED
    BY <1>5, <1>10 DEF IInv, PerWindowBound
<1>15. QED
  BY <1>3, <1>9, <1>10, <1>12, <1>13, <1>14

(* Forgetting a window: its counter goes, and its history. *)
LEMMA ForgetKeeps ==
  ASSUME IInv, NEW w, Forget(w), clock' = clock
  PROVE  /\ store' \in [Windows -> Counters \union {NoEntry}]
         /\ charged' \in [Windows -> Nat]
         /\ Outlives' /\ Counted' /\ PerWindowBound'
         /\ \A v \in Windows : charged'[v] <= charged[v]
<1>1. /\ store' \in [Windows -> Counters \union {NoEntry}]
      /\ charged' \in [Windows -> Nat]
  BY DEF Forget, IInv, Types
<1>2. \A v \in Windows :
        \/ store'[v] = store[v] /\ charged'[v] = charged[v]
        \/ store'[v] = NoEntry /\ charged'[v] = 0
  BY DEF Forget
<1>3. Outlives'
  BY <1>2 DEF IInv, Outlives, TimeToLive, Windows, WindowOf
<1>4. Counted'
  <2> SUFFICES ASSUME NEW v \in Windows, InUse(v)
               PROVE  charged'[v] = CountOf(v)'
    BY DEF Counted, InUse, Windows, WindowOf, TimeToLive
  <2>1. QED
    BY <1>2 DEF IInv, Counted, CountOf, Live, Windows, WindowOf
<1>5. \A v \in Windows : charged'[v] <= charged[v]
  BY <1>1, <1>2 DEF IInv, Types
<1>6. PerWindowBound'
  <2>1. Limit \in Nat
    BY ConstantsAssumption
  <2>2. QED
    BY <1>2, <2>1 DEF IInv, PerWindowBound, Windows, WindowOf
<1>7. QED
  BY <1>1, <1>3, <1>4, <1>5, <1>6

(* Steps that leave the counters and the clock alone. *)
LEMMA CountersUnchanged ==
  ASSUME IInv, UNCHANGED <<clock, store, charged>>
  PROVE  Outlives' /\ Counted' /\ PerWindowBound'
BY DEF IInv, Outlives, Counted, PerWindowBound, CountOf, Live, InUse,
       TimeToLive, Windows, WindowOf

-----------------------------------------------------------------------------

LEMMA InitEstablishes == Init => IInv
<1> SUFFICES ASSUME Init PROVE IInv
  OBVIOUS
<1>1. 0 \in Ticks /\ MaxClock \in Nat /\ Limit \in Nat \ {0}
  BY ConstantsAssumption DEF Ticks
<1>2. Types
  BY <1>1 DEF Init, Types, Resting
<1>3. Outlives /\ Counted /\ SwapCovered /\ SampleFresh
  BY DEF Init, Outlives, Counted, SwapCovered, SampleFresh, Sampled, CountOf, Live
<1>4. PerWindowBound
  BY <1>1 DEF Init, PerWindowBound
<1>5. QED
  BY <1>2, <1>3, <1>4 DEF IInv

(* What is local to the calls, after a step of one of them. *)
Locals ==
  /\ pc \in [Procs -> {"prev", "curr", "cas", "sleep"} \union Resting]
  /\ cost \in [Procs -> Nat \ {0}]
  /\ now \in [Procs -> Ticks]
  /\ prev \in [Procs -> Nat]
  /\ seen \in [Procs -> Nat]
  /\ SampleFresh
  /\ SwapCovered

\* Priming what only depends on constants changes nothing.
LEMMA LocalsSuffice ==
  ASSUME clock' \in Ticks, Locals',
         store' \in [Windows -> Counters \union {NoEntry}],
         charged' \in [Windows -> Nat],
         Outlives' /\ Counted' /\ PerWindowBound'
  PROVE  IInv'
BY DEF IInv, Types, Locals, Ticks, Windows, WindowOf, Counters, Resting

LEMMA ReturnKeeps ==
  ASSUME IInv, NEW p \in Procs, NEW answer \in Resting, Return(p, answer),
         clock' = clock
  PROVE  Locals'
<1>1. 0 \in Ticks /\ 0 \in Nat /\ 1 \in Nat \ {0}
  BY ConstantsAssumption DEF Ticks
<1>2. /\ pc' \in [Procs -> {"prev", "curr", "cas", "sleep"} \union Resting]
      /\ cost' \in [Procs -> Nat \ {0}]
      /\ now' \in [Procs -> Ticks]
      /\ prev' \in [Procs -> Nat]
      /\ seen' \in [Procs -> Nat]
  BY <1>1 DEF Return, IInv, Types
<1>3. pc'[p] \notin {"prev", "curr", "cas"}
  BY DEF Return, IInv, Types, Resting
<1>4. \A q \in Procs : q # p =>
        /\ pc'[q] = pc[q] /\ cost'[q] = cost[q] /\ now'[q] = now[q]
        /\ prev'[q] = prev[q] /\ seen'[q] = seen[q]
  BY DEF Return, IInv, Types
<1>5. SampleFresh'
  BY <1>3, <1>4 DEF IInv, SampleFresh, Sampled
<1>6. SwapCovered'
  BY <1>3, <1>4 DEF IInv, SwapCovered, Estimated, Elapsed
<1>7. QED
  BY <1>2, <1>5, <1>6 DEF Locals, Ticks, Resting

LEMMA TickPreserves == IInv /\ Tick => IInv'
<1> SUFFICES ASSUME IInv, Tick PROVE IInv'
  OBVIOUS
<1>1. /\ clock \in Nat /\ clock' = clock + 1 /\ clock' \in Ticks
      /\ MaxAge \in Nat
  BY ConstantsAssumption DEF Tick, IInv, Types, Ticks
<1>2. UNCHANGED <<store, pc, cost, now, prev, seen, charged>>
  BY DEF Tick
<1>3. SampleFresh'
  BY <1>1, <1>2
     DEF Tick, IInv, SampleFresh, Sampled, InFlight, Resting, Types, Ticks
<1>4. SwapCovered'
  BY <1>2 DEF IInv, SwapCovered, Estimated, Elapsed
<1>5. Outlives' /\ PerWindowBound'
  BY <1>2 DEF IInv, Outlives, PerWindowBound, TimeToLive, Windows, WindowOf
<1>6. Counted'
  <2> SUFFICES ASSUME NEW w \in Windows, InUse(w)'
               PROVE  charged[w] = CountOf(w)'
    BY <1>2 DEF Counted, InUse, Windows, WindowOf
  <2>1. w * W \in Nat /\ TimeToLive \in Nat
    BY Products, WindowBounds, ConstantsAssumption DEF Windows, TimeToLive
  <2>2. clock + 1 < w * W + TimeToLive /\ InUse(w)
    <3>1. clock + 1 < w * W + TimeToLive
      BY <1>1 DEF InUse, TimeToLive
    <3>2. QED
      BY <1>1, <2>1, <3>1 DEF InUse
  <2>3. charged[w] = CountOf(w)
    BY <2>2 DEF IInv, Counted
  <2>4. w \in Windows'
    BY DEF Windows, WindowOf
  <2>5. CASE store[w] = NoEntry
    BY <2>3, <2>5, <1>2 DEF CountOf, Live
  <2>6. CASE store[w] # NoEntry
    <3>1. store[w].exp \in Nat
      BY <2>6 DEF IInv, Types, Counters
    <3>2. w * W + TimeToLive <= store[w].exp
      BY <2>6 DEF IInv, Outlives
    <3>3. Live(w) /\ Live(w)'
      BY <1>1, <1>2, <2>1, <2>2, <2>4, <2>6, <3>1, <3>2 DEF Live
    <3>4. QED
      BY <2>3, <3>3, <1>2 DEF CountOf
  <2>7. QED
    BY <2>5, <2>6
<1>7. Locals'
  BY <1>2, <1>3, <1>4 DEF Locals, IInv, Types, Ticks, Resting
<1>8. QED
  BY <1>1, <1>2, <1>5, <1>6, <1>7, LocalsSuffice DEF IInv, Types

(* A step that leaves counters and clock alone: the calls are what counts. *)
LEMMA LocalStep ==
  ASSUME IInv, UNCHANGED <<clock, store, charged>>, Locals'
  PROVE  IInv'
BY CountersUnchanged, LocalsSuffice DEF IInv, Types

\* The clock is sampled, for the first time or again.
LEMMA SamplePreserves ==
  ASSUME NEW p \in Procs
  PROVE  IInv /\ (Start(p) \/ WakeUp(p)) => IInv'
<1> SUFFICES ASSUME IInv, Start(p) \/ WakeUp(p) PROVE IInv'
  OBVIOUS
<1>1. /\ UNCHANGED <<clock, store, charged, prev, seen>>
      /\ pc' = [pc EXCEPT ![p] = "prev"]
  BY DEF Start, WakeUp
<1>2. PICK t \in Recent : now' = [now EXCEPT ![p] = t]
  BY DEF Start, WakeUp
<1>3. t \in Ticks /\ t <= clock /\ clock <= t + MaxAge
  BY RecentIsFresh DEF IInv
<1>4. /\ cost' \in [Procs -> Nat \ {0}]
      /\ \A q \in Procs : q # p => cost'[q] = cost[q]
  BY ConstantsAssumption DEF Start, WakeUp, IInv, Types
<1>5. SampleFresh'
  BY <1>1, <1>2, <1>3 DEF IInv, Types, SampleFresh, Sampled
<1>6. SwapCovered'
  BY <1>1, <1>2, <1>4 DEF IInv, Types, SwapCovered, Estimated, Elapsed
<1>7. Locals'
  BY <1>1, <1>2, <1>3, <1>4, <1>5, <1>6
     DEF Locals, IInv, Types, Ticks, Resting
<1>8. QED
  BY <1>1, <1>7, LocalStep

LEMMA ReadPreviousPreserves ==
  ASSUME NEW p \in Procs PROVE IInv /\ ReadPrevious(p) => IInv'
<1> SUFFICES ASSUME IInv, ReadPrevious(p) PROVE IInv'
  OBVIOUS
<1>1. /\ UNCHANGED <<clock, store, charged, cost, now, seen>>
      /\ pc[p] = "prev" /\ pc' = [pc EXCEPT ![p] = "curr"]
      /\ prev' = [prev EXCEPT ![p] = CountOf(WindowOf(now[p]) - 1)]
  BY DEF ReadPrevious
<1>2. CountOf(WindowOf(now[p]) - 1) \in Nat
  <2>1. now[p] \in Nat
    BY DEF IInv, Types, Ticks
  <2>2. WindowOf(now[p]) - 1 \in Int
    BY <2>1, WindowBounds
  <2>3. QED
    BY <2>2, CountIsNat DEF IInv
<1>3. SampleFresh' /\ SwapCovered'
  BY <1>1 DEF IInv, Types, SampleFresh, SwapCovered, Sampled, Estimated, Elapsed
<1>4. Locals'
  BY <1>1, <1>2, <1>3 DEF Locals, IInv, Types, Ticks, Resting
<1>5. QED
  BY <1>1, <1>4, LocalStep

LEMMA ReadCurrentPreserves ==
  ASSUME NEW p \in Procs PROVE IInv /\ ReadCurrent(p) => IInv'
<1> SUFFICES ASSUME IInv, ReadCurrent(p) PROVE IInv'
  OBVIOUS
<1> DEFINE count == CountOf(WindowOf(now[p]))
<1>1. UNCHANGED <<clock, store, charged>> /\ pc[p] = "curr"
  BY DEF ReadCurrent
<1>2. CASE Return(p, "denied")
  BY <1>1, <1>2, ReturnKeeps, LocalStep DEF Resting
<1>3. CASE /\ pc' = [pc EXCEPT ![p] = "sleep"]
           /\ now' = [now EXCEPT ![p] = 0]
           /\ prev' = [prev EXCEPT ![p] = 0]
           /\ UNCHANGED <<cost, seen>>
  <2>1. 0 \in Ticks
    BY ConstantsAssumption DEF Ticks
  <2>2. SampleFresh' /\ SwapCovered'
    BY <1>1, <1>3
       DEF IInv, Types, SampleFresh, SwapCovered, Sampled, Estimated, Elapsed
  <2>3. Locals'
    BY <1>1, <1>3, <2>1, <2>2 DEF Locals, IInv, Types, Ticks, Resting
  <2>4. QED
    BY <1>1, <2>3, LocalStep
<1>4. CASE /\ Estimated(prev[p], count + cost[p], now[p]) <= Limit * W
           /\ pc' = [pc EXCEPT ![p] = "cas"]
           /\ seen' = [seen EXCEPT ![p] = count]
           /\ UNCHANGED <<cost, now, prev>>
  <2>1. count \in Nat
    <3>1. now[p] \in Nat
      BY DEF IInv, Types, Ticks
    <3>2. WindowOf(now[p]) \in Int
      BY <3>1, WindowBounds
    <3>3. QED
      BY <3>2, CountIsNat DEF IInv
  <2> HIDE DEF count
  <2>2. SampleFresh'
    BY <1>1, <1>4 DEF IInv, Types, SampleFresh, Sampled
  <2>3. SwapCovered'
    BY <1>1, <1>4 DEF IInv, Types, SwapCovered, Estimated, Elapsed
  <2>4. Locals'
    BY <1>1, <1>4, <2>1, <2>2, <2>3 DEF Locals, IInv, Types, Ticks, Resting
  <2>5. QED
    BY <1>1, <2>4, LocalStep
<1>5. QED
  BY <1>2, <1>3, <1>4 DEF ReadCurrent

LEMMA SwapRefusedPreserves ==
  ASSUME NEW p \in Procs PROVE IInv /\ SwapRefused(p) => IInv'
<1> SUFFICES ASSUME IInv, SwapRefused(p) PROVE IInv'
  OBVIOUS
<1>1. UNCHANGED <<clock, store, charged>> /\ pc[p] = "cas"
  BY DEF SwapRefused
<1>2. CASE Return(p, "denied")
  BY <1>1, <1>2, ReturnKeeps, LocalStep DEF Resting
<1>3. CASE /\ pc' = [pc EXCEPT ![p] = "prev"]
           /\ prev' = [prev EXCEPT ![p] = 0]
           /\ seen' = [seen EXCEPT ![p] = 0]
           /\ UNCHANGED <<cost, now>>
  <2>1. SampleFresh' /\ SwapCovered'
    BY <1>1, <1>3
       DEF IInv, Types, SampleFresh, SwapCovered, Sampled, Estimated, Elapsed
  <2>2. Locals'
    BY <1>1, <1>3, <2>1 DEF Locals, IInv, Types, Ticks, Resting
  <2>3. QED
    BY <1>1, <2>2, LocalStep
<1>4. QED
  BY <1>2, <1>3 DEF SwapRefused

(* A swap or a failure: the counters stay, or are charged once. *)
LEMMA ChargePreserves ==
  ASSUME NEW p \in Procs, IInv, clock' = clock, Return(p, "idle"),
         \/ UNCHANGED <<store, charged>>
         \/ pc[p] = "cas" /\ Matches(WindowOf(now[p]), seen[p]) /\ Charge(p)
  PROVE  IInv'
<1>1. /\ store' \in [Windows -> Counters \union {NoEntry}]
      /\ charged' \in [Windows -> Nat]
      /\ Outlives' /\ Counted' /\ PerWindowBound'
  <2>1. CASE UNCHANGED <<store, charged>>
    BY <2>1, CountersUnchanged DEF IInv, Types
  <2>2. CASE pc[p] = "cas" /\ Matches(WindowOf(now[p]), seen[p]) /\ Charge(p)
    BY <2>2, ChargeIsCounted
  <2>3. QED
    BY <2>1, <2>2
<1>2. Locals'
  BY ReturnKeeps DEF Resting
<1>3. QED
  BY <1>1, <1>2, LocalsSuffice DEF IInv, Types

LEMMA ResetPreserves == IInv /\ Reset => IInv'
<1> SUFFICES ASSUME IInv, Reset PROVE IInv'
  OBVIOUS
<1>1. UNCHANGED <<clock, pc, cost, now, prev, seen>>
  BY DEF Reset
<1>2. PICK w : Forget(w)
  BY DEF Reset
<1>3. Locals'
  BY <1>1 DEF Locals, IInv, Types, Ticks, Resting, SampleFresh, SwapCovered,
              Sampled, Estimated, Elapsed
<1>4. QED
  BY <1>1, <1>2, <1>3, ForgetKeeps, LocalsSuffice DEF IInv, Types

(* The invariant is inductive. *)
THEOREM InductiveInvariant == Spec => []IInv
<1>1. IInv /\ [Next]_vars => IInv'
  <2> SUFFICES ASSUME IInv, [Next]_vars PROVE IInv'
    OBVIOUS
  <2>1. ASSUME NEW p \in Procs, Swap(p) \/ StorageFails(p) PROVE IInv'
    BY <2>1, ChargePreserves DEF Swap, StorageFails
  <2>2. CASE UNCHANGED vars
    <3>1. Locals'
      BY <2>2 DEF vars, Locals, IInv, Types, Ticks, Resting, SampleFresh,
                  SwapCovered, Sampled, Estimated, Elapsed
    <3>2. QED
      BY <2>2, <3>1, LocalStep DEF vars
  <2>3. QED
    BY <2>1, <2>2, TickPreserves, ResetPreserves, SamplePreserves,
       ReadPreviousPreserves, ReadCurrentPreserves, SwapRefusedPreserves
       DEF Next, Step
<1>2. QED
  BY <1>1, InitEstablishes, PTL DEF Spec

(***************************************************************************)
(* PerWindowBound: between two resets, no window is charged more than the  *)
(* limit, by however many callers with however old samples.                *)
(***************************************************************************)
THEOREM NoWindowIsOvercharged == Spec => []PerWindowBound
<1>1. IInv => PerWindowBound
  BY DEF IInv
<1>2. QED
  BY <1>1, InductiveInvariant, PTL

-----------------------------------------------------------------------------
(* The estimate, for what was really charged.                              *)

\* Nobody has charged a window that has not begun.
FutureEmpty == \A w \in Windows : clock < w * W => charged[w] = 0

\* Unless the previous window is charged late, what a caller of this one read
\* of it is not less than it was charged.
PreviousRead ==
  \A p \in Procs :
    /\ pc[p] \in {"curr", "cas"}
    /\ WindowOf(now[p]) = WindowOf(clock)
    /\ WindowOf(clock) - 1 \notin late
    => ChargedTo(WindowOf(clock) - 1) <= prev[p]

WeightInv ==
  /\ FutureEmpty
  /\ PreviousRead
  /\ WeightedBound

LEMMA EstimateIsMonotonic ==
  ASSUME NEW a \in Nat, NEW b \in Nat, NEW c \in Nat, NEW d \in Nat,
         a <= b, c <= d, NEW t \in Nat
  PROVE  /\ Estimated(a, c, t) \in Nat
         /\ Estimated(a, c, t) <= Estimated(b, d, t)
<1>1. W - Elapsed(t) \in Nat
  <2>1. Elapsed(t) \in Nat /\ Elapsed(t) < W /\ W \in Nat
    BY WindowBounds, ConstantsAssumption
  <2>2. QED
    BY <2>1
<1> DEFINE k == W - Elapsed(t)
<1> HIDE DEF k
<1>2. k \in Nat
  BY <1>1 DEF k
<1>3. \A x, y \in Nat : x <= y => x * k <= y * k
  BY <1>2
<1>4. a * k \in Nat /\ b * k \in Nat /\ c * W \in Nat /\ d * W \in Nat
  BY <1>2, Products
<1>5. a * k <= b * k /\ c * W <= d * W
  BY <1>3, Products
<1>6. a * k + c * W \in Nat /\ a * k + c * W <= b * k + d * W
  BY <1>4, <1>5
<1>7. QED
  BY <1>6 DEF Estimated, k

LEMMA EstimateIsNat ==
  \A a, c, t \in Nat : Estimated(a, c, t) \in Nat
<1> SUFFICES ASSUME NEW a \in Nat, NEW c \in Nat, NEW t \in Nat
             PROVE  Estimated(a, c, t) \in Nat
  OBVIOUS
<1>1. a <= a /\ c <= c
  OBVIOUS
<1>2. QED
  BY <1>1, EstimateIsMonotonic

LEMMA ChargedToIsNat ==
  ASSUME Types
  PROVE  \A w \in Int : ChargedTo(w) \in Nat
BY DEF Types, ChargedTo

(* Time alone only lowers the estimate, as long as the window lasts. *)
LEMMA EstimateFades ==
  ASSUME NEW a \in Nat, NEW c \in Nat, NEW t \in Nat, NEW u \in Nat,
         Elapsed(t) <= Elapsed(u)
  PROVE  Estimated(a, c, u) <= Estimated(a, c, t)
<1>1. /\ Elapsed(t) \in Nat /\ Elapsed(t) < W /\ W \in Nat
      /\ Elapsed(u) \in Nat /\ Elapsed(u) < W
  BY WindowBounds, ConstantsAssumption
<1> DEFINE k == W - Elapsed(t)
           m == W - Elapsed(u)
<1>2. k \in Nat /\ m \in Nat /\ m <= k
  BY <1>1
<1> HIDE DEF k, m
<1>3. a * m <= a * k /\ a * m \in Nat /\ a * k \in Nat
  BY <1>2
<1>4. c * W \in Nat
  BY Products
<1>5. Estimated(a, c, u) = a * m + c * W /\ Estimated(a, c, t) = a * k + c * W
  BY DEF Estimated, k, m
<1>6. QED
  BY <1>3, <1>4, <1>5

(* Charges that only shrink keep the estimate within the limit. *)
LEMMA FewerCharges ==
  ASSUME IInv, WeightInv, IInv', clock' = clock, late' = late,
         \A w \in Windows : charged'[w] <= charged[w]
  PROVE  FutureEmpty' /\ WeightedBound'
         /\ ChargedTo(WindowOf(clock) - 1)' <= ChargedTo(WindowOf(clock) - 1)
<1>1. charged \in [Windows -> Nat] /\ charged' \in [Windows -> Nat]
  BY DEF IInv, Types, Windows, WindowOf
<1>2. FutureEmpty'
  <2> SUFFICES ASSUME NEW w \in Windows, clock < w * W PROVE charged'[w] = 0
    BY DEF FutureEmpty, Windows, WindowOf
  <2>1. charged[w] = 0
    BY DEF WeightInv, FutureEmpty
  <2>2. QED
    BY <1>1, <2>1
<1> DEFINE w == WindowOf(clock)
<1>3. clock \in Nat /\ w \in Nat
  BY WindowBounds DEF IInv, Types, Ticks
<1>4. \A v \in Int : /\ ChargedTo(v) \in Nat /\ ChargedTo(v)' \in Nat
                     /\ ChargedTo(v)' <= ChargedTo(v)
  BY <1>1 DEF ChargedTo, Windows, WindowOf
<1>5. w - 1 \in Int /\ w \in Int
  BY <1>3
<1>6. WindowOf(clock)' = w
  BY DEF WindowOf
<1>7. Estimated(ChargedTo(w - 1)', ChargedTo(w)', clock)
        <= Estimated(ChargedTo(w - 1), ChargedTo(w), clock)
  BY <1>3, <1>4, <1>5, EstimateIsMonotonic
<1>8. w - 1 \notin late =>
        Estimated(ChargedTo(w - 1), ChargedTo(w), clock) <= Limit * W
  BY DEF WeightInv, WeightedBound, Weighted
<1>9. /\ Estimated(ChargedTo(w - 1)', ChargedTo(w)', clock) \in Nat
      /\ Estimated(ChargedTo(w - 1), ChargedTo(w), clock) \in Nat
      /\ Limit * W \in Nat
  BY <1>3, <1>4, <1>5, EstimateIsNat, Products, ConstantsAssumption
<1>10. w - 1 \notin late =>
         Estimated(ChargedTo(w - 1)', ChargedTo(w)', clock) <= Limit * W
  BY <1>7, <1>8, <1>9
<1>11. WeightedBound'
  BY <1>6, <1>10 DEF WeightedBound, Weighted, ChargedTo, Estimated, Elapsed, WindowOf, Windows
<1>12. QED
  BY <1>2, <1>4, <1>5, <1>11 DEF ChargedTo, WindowOf

LEMMA WeightTick ==
  ASSUME IInv, WeightInv, Tick
  PROVE  WeightInv'
<1> DEFINE w == WindowOf(clock)
<1>1. /\ clock \in Nat /\ clock' = clock + 1
      /\ UNCHANGED <<charged, pc, prev, now, late>>
      /\ charged \in [Windows -> Nat]
  BY DEF Tick, IInv, Types, Ticks
<1>2. w \in Nat /\ w - 1 \in Int /\ w + 1 \in Int
  BY <1>1, WindowBounds
<1>3. FutureEmpty'
  <2> SUFFICES ASSUME NEW v \in Windows, clock + 1 < v * W
               PROVE  charged[v] = 0
    BY <1>1 DEF FutureEmpty, Windows, WindowOf
  <2>1. v * W \in Nat
    BY Products DEF Windows
  <2>2. clock < v * W
    BY <1>1, <2>1
  <2>3. QED
    BY <2>2 DEF WeightInv, FutureEmpty
<1>5. ChargedTo(w - 1) \in Nat /\ ChargedTo(w) \in Nat /\ ChargedTo(w + 1) \in Nat
  BY <1>2, ChargedToIsNat DEF IInv
<1>6. w - 1 \notin late =>
        Estimated(ChargedTo(w - 1), ChargedTo(w), clock) <= Limit * W
  BY DEF WeightInv, WeightedBound, Weighted
<1>7. Limit * W \in Nat /\ Limit \in Nat
  BY Products, ConstantsAssumption
<1>8. \A v : ChargedTo(v)' = ChargedTo(v)
  BY <1>1 DEF ChargedTo, Windows, WindowOf
<1>9. WeightedBound' <=>
        LET v == WindowOf(clock + 1)
        IN v - 1 \notin late =>
             Estimated(ChargedTo(v - 1), ChargedTo(v), clock + 1) <= Limit * W
  BY <1>1, <1>8 DEF WeightedBound, Weighted, Estimated, Elapsed, WindowOf
<1> HIDE DEF w
<1>10. CASE WindowOf(clock + 1) = w /\ Elapsed(clock + 1) = Elapsed(clock) + 1
  <2>1. Estimated(ChargedTo(w - 1), ChargedTo(w), clock + 1)
          <= Estimated(ChargedTo(w - 1), ChargedTo(w), clock)
    <3>1. Elapsed(clock) \in Nat /\ clock + 1 \in Nat
      BY <1>1, WindowBounds
    <3>2. Elapsed(clock) <= Elapsed(clock + 1)
      BY <1>10, <3>1
    <3>3. QED
      BY <1>1, <1>5, <3>1, <3>2, EstimateFades
  <2>2. /\ clock + 1 \in Nat
        /\ ChargedTo(w - 1) <= ChargedTo(w - 1) /\ ChargedTo(w) <= ChargedTo(w)
    BY <1>1, <1>5
  <2>3. /\ Estimated(ChargedTo(w - 1), ChargedTo(w), clock + 1) \in Nat
        /\ Estimated(ChargedTo(w - 1), ChargedTo(w), clock) \in Nat
    BY <1>1, <1>5, <2>2, EstimateIsMonotonic
  <2>4. WeightedBound'
    BY <1>6, <1>7, <1>9, <1>10, <2>1, <2>3
  <2>5. PreviousRead'
    <3> SUFFICES ASSUME NEW p \in Procs, pc[p] \in {"curr", "cas"},
                        WindowOf(now[p]) = w, w - 1 \notin late
                 PROVE  ChargedTo(w - 1) <= prev[p]
      BY <1>1, <1>8, <1>10 DEF PreviousRead, WindowOf, ChargedTo, Windows
    <3>1. QED
      BY DEF WeightInv, PreviousRead, w
  <2>6. QED
    BY <1>3, <2>4, <2>5 DEF WeightInv
<1>11. CASE WindowOf(clock + 1) = w + 1 /\ Elapsed(clock + 1) = 0
  <2>0. clock < (w + 1) * W /\ (w + 1) * W \in Nat
    <3>1. clock + 1 \in Nat
      BY <1>1
    <3>2. /\ clock + 1 = WindowOf(clock + 1) * W + Elapsed(clock + 1)
          /\ WindowOf(clock + 1) * W \in Nat
      BY <3>1, WindowBounds, Products
    <3>3. QED
      BY <1>1, <1>11, <3>2
  <2>1. ChargedTo(w + 1) = 0
    BY <2>0 DEF WeightInv, FutureEmpty, ChargedTo
  <2>2. ChargedTo(w) <= Limit
    BY <1>1, <1>7 DEF IInv, PerWindowBound, ChargedTo
  <2>3. Estimated(ChargedTo(w), ChargedTo(w + 1), clock + 1) = ChargedTo(w) * W
    <3>1. 0 * W = 0 /\ W - 0 = W /\ ChargedTo(w) * W \in Nat /\ W \in Nat
      BY <1>5, Products, ConstantsAssumption
    <3>2. QED
      BY <1>11, <2>1, <3>1 DEF Estimated
  <2>4. ChargedTo(w) * W <= Limit * W
    BY <1>5, <1>7, <2>2, Products
  <2>5. (w + 1) - 1 = w
    BY <1>2 DEF w
  <2>6. WeightedBound'
    BY <1>9, <1>11, <2>3, <2>4, <2>5
  <2>7. PreviousRead'
    <3> SUFFICES ASSUME NEW p \in Procs, pc[p] \in {"curr", "cas"},
                        WindowOf(now[p]) = w + 1
                 PROVE  FALSE
      BY <1>1, <1>11 DEF PreviousRead, WindowOf
    <3>1. now[p] \in Nat /\ now[p] <= clock
      BY DEF IInv, Types, Ticks, SampleFresh, Sampled
    <3>2. /\ now[p] = WindowOf(now[p]) * W + Elapsed(now[p])
          /\ Elapsed(now[p]) \in Nat
      BY <3>1, WindowBounds
    <3>3. (w + 1) * W <= now[p]
      BY <2>0, <3>1, <3>2
    <3>4. QED
      BY <1>1, <2>0, <3>1, <3>3
  <2>8. QED
    BY <1>3, <2>6, <2>7 DEF WeightInv
<1>12. QED
  BY <1>1, <1>10, <1>11, NextTick DEF w

(***************************************************************************)
(* A charge of the current window is covered by what the caller read, and  *)
(* by nothing else.  A late one voids the bound if it is the previous      *)
(* window's, and does not touch it otherwise.                              *)
(***************************************************************************)
LEMMA WeightCharge ==
  ASSUME IInv, WeightInv, IInv', NEW p \in Procs,
         pc[p] = "cas", Matches(WindowOf(now[p]), seen[p]), Charge(p),
         Return(p, "idle"), clock' = clock
  PROVE  WeightInv'
<1>0. PICK w, own : w = WindowOf(clock) /\ own = WindowOf(now[p])
  OBVIOUS
<1>1. /\ clock \in Nat /\ now[p] \in Nat /\ charged \in [Windows -> Nat]
      /\ prev[p] \in Nat /\ seen[p] + cost[p] \in Nat
      /\ now[p] <= clock
  BY DEF IInv, Types, Ticks, SampleFresh, Sampled
<1>2. /\ own \in Windows /\ own \in Nat
      /\ charged'[own] = seen[p] + cost[p]
      /\ \A v \in Windows : v # own => charged'[v] = charged[v]
  BY <1>0, <1>1, WindowBounds, ChargeIsCounted
<1>3. /\ w \in Nat /\ w - 1 \in Int /\ w # w - 1
      /\ own * W \in Nat /\ own * W <= clock
      /\ Elapsed(clock) \in Nat /\ Elapsed(now[p]) \in Nat
      /\ clock = w * W + Elapsed(clock) /\ w * W \in Nat
      /\ now[p] = own * W + Elapsed(now[p])
  <2>1. /\ w \in Nat /\ Elapsed(clock) \in Nat /\ Elapsed(now[p]) \in Nat
        /\ clock = w * W + Elapsed(clock)
        /\ now[p] = own * W + Elapsed(now[p])
    BY <1>0, <1>1, WindowBounds
  <2>2. own * W \in Nat /\ w * W \in Nat
    BY <1>2, <2>1, Products
  <2>3. QED
    BY <1>1, <2>1, <2>2
<1>4. late' = IF own = w THEN late ELSE late \union {own}
  BY <1>0 DEF Charge
<1>5. FutureEmpty'
  <2> SUFFICES ASSUME NEW v \in Windows, clock < v * W
               PROVE  charged'[v] = 0
    BY DEF FutureEmpty, Windows, WindowOf
  <2>1. v # own
    BY <1>1, <1>3
  <2>2. QED
    BY <1>2, <2>1 DEF WeightInv, FutureEmpty
<1>6. w - 1 \notin late' =>
        w - 1 \notin late /\ ChargedTo(w - 1)' = ChargedTo(w - 1)
  BY <1>2, <1>3, <1>4 DEF ChargedTo, Windows, WindowOf
<1>7. PreviousRead'
  <2> SUFFICES ASSUME NEW q \in Procs, pc'[q] \in {"curr", "cas"},
                      WindowOf(now'[q]) = w, w - 1 \notin late'
               PROVE  ChargedTo(w - 1)' <= prev'[q]
    BY <1>0 DEF PreviousRead, WindowOf, ChargedTo, Windows
  <2>1. /\ q # p /\ pc'[q] = pc[q] /\ prev'[q] = prev[q] /\ now'[q] = now[q]
    BY DEF Return, IInv, Types
  <2>2. QED
    BY <1>0, <1>6, <2>1 DEF WeightInv, PreviousRead
<1>8. w - 1 \notin late' =>
        Estimated(ChargedTo(w - 1)', ChargedTo(w)', clock) <= Limit * W
  <2> SUFFICES ASSUME w - 1 \notin late'
               PROVE  Estimated(ChargedTo(w - 1)', ChargedTo(w)', clock) <= Limit * W
    OBVIOUS
  <2>1. CASE own = w
    <3>1. ChargedTo(w)' = seen[p] + cost[p]
      BY <1>2, <2>1 DEF ChargedTo, Windows, WindowOf
    <3>2. ChargedTo(w - 1) <= prev[p]
      BY <1>0, <1>6, <2>1 DEF WeightInv, PreviousRead
    <3>3. Estimated(prev[p], seen[p] + cost[p], now[p]) <= Limit * W
      BY DEF IInv, SwapCovered
    <3>4. ChargedTo(w - 1) \in Nat
      BY <1>3, ChargedToIsNat DEF IInv
    <3>5. Elapsed(now[p]) <= Elapsed(clock)
      BY <1>1, <1>3, <2>1
    <3>6. Estimated(prev[p], seen[p] + cost[p], clock)
            <= Estimated(prev[p], seen[p] + cost[p], now[p])
      BY <1>1, <3>5, EstimateFades
    <3>7. Estimated(ChargedTo(w - 1), seen[p] + cost[p], clock)
            <= Estimated(prev[p], seen[p] + cost[p], clock)
      <4>1. seen[p] + cost[p] <= seen[p] + cost[p]
        BY <1>1
      <4>2. QED
        BY <1>1, <3>2, <3>4, <4>1, EstimateIsMonotonic
    <3>8. /\ Estimated(ChargedTo(w - 1), seen[p] + cost[p], clock) \in Nat
          /\ Estimated(prev[p], seen[p] + cost[p], clock) \in Nat
          /\ Estimated(prev[p], seen[p] + cost[p], now[p]) \in Nat
          /\ Limit * W \in Nat
      BY <1>1, <3>4, EstimateIsNat, Products, ConstantsAssumption
    <3>9. Estimated(ChargedTo(w - 1), seen[p] + cost[p], clock) <= Limit * W
      BY <3>3, <3>6, <3>7, <3>8
    <3>10. QED
      BY <1>6, <3>1, <3>9
  <2>2. CASE own # w
    <3>1. ChargedTo(w)' = ChargedTo(w)
      BY <1>2, <2>2 DEF ChargedTo, Windows, WindowOf
    <3>2. Estimated(ChargedTo(w - 1), ChargedTo(w), clock) <= Limit * W
      BY <1>0, <1>6 DEF WeightInv, WeightedBound, Weighted
    <3>3. QED
      BY <1>6, <3>1, <3>2
  <2>3. QED
    BY <2>1, <2>2
<1>9. WeightedBound'
  BY <1>0, <1>8 DEF WeightedBound, Weighted, ChargedTo, Estimated, Elapsed,
                    WindowOf, Windows
<1>10. QED
  BY <1>5, <1>7, <1>9 DEF WeightInv

(* The other steps leave what was charged alone, or forget some of it. *)
LEMMA WeightLocal ==
  ASSUME IInv, WeightInv, UNCHANGED <<clock, charged, late>>,
         \A q \in Procs : pc'[q] \in {"curr", "cas"} =>
            \/ /\ pc[q] \in {"curr", "cas"}
               /\ prev'[q] = prev[q] /\ now'[q] = now[q]
            \/ WindowOf(now'[q]) = WindowOf(clock) =>
                 ChargedTo(WindowOf(clock) - 1) <= prev'[q]
  PROVE  WeightInv'
<1>1. \A v : ChargedTo(v)' = ChargedTo(v)
  BY DEF ChargedTo, Windows, WindowOf
<1>2. FutureEmpty' /\ WeightedBound'
  BY <1>1 DEF WeightInv, FutureEmpty, WeightedBound, Weighted, Estimated,
              Elapsed, WindowOf, Windows
<1>3. PreviousRead'
  BY <1>1 DEF WeightInv, PreviousRead, WindowOf
<1>4. QED
  BY <1>2, <1>3 DEF WeightInv

LEMMA WeightReadPrevious ==
  ASSUME IInv, WeightInv, NEW p \in Procs, ReadPrevious(p)
  PROVE  WeightInv'
<1> DEFINE w == WindowOf(clock)
<1>1. clock \in Nat
  BY DEF IInv, Types, Ticks
<1>2. /\ w \in Nat /\ Elapsed(clock) \in Nat /\ Elapsed(clock) < W
      /\ clock = w * W + Elapsed(clock) /\ W \in Nat /\ w * W \in Nat
  BY <1>1, WindowBounds, Products, ConstantsAssumption
<1>3. ChargedTo(w - 1) = CountOf(w - 1)
  <2>1. CASE w - 1 \in Windows
    <3>1. w = (w - 1) + 1 /\ w - 1 \in Nat
      BY <1>2, <2>1 DEF Windows
    <3>2. w * W = (w - 1) * W + W /\ (w - 1) * W \in Nat
      <4>1. ((w - 1) + 1) * W = (w - 1) * W + 1 * W
        BY <3>1, Products
      <4>2. QED
        BY <1>2, <3>1, <4>1, Products
    <3>3. InUse(w - 1)
      BY <1>1, <1>2, <3>2 DEF InUse, TimeToLive
    <3>4. QED
      BY <2>1, <3>3 DEF IInv, Counted, ChargedTo
  <2>2. CASE w - 1 \notin Windows
    BY <2>2 DEF ChargedTo, CountOf, Live
  <2>3. QED
    BY <2>1, <2>2
<1>4. CountOf(w - 1) \in Nat
  <2>1. w - 1 \in Int
    BY <1>2
  <2>2. QED
    BY <2>1, CountIsNat DEF IInv
<1>5. now' = now /\ (WindowOf(now[p]) = w => prev'[p] = CountOf(w - 1))
  BY DEF ReadPrevious, IInv, Types
<1>6. WindowOf(now'[p]) = w => ChargedTo(w - 1) <= prev'[p]
  BY <1>3, <1>4, <1>5
<1>7. \A q \in Procs : q # p => pc'[q] = pc[q] /\ prev'[q] = prev[q]
  BY DEF ReadPrevious, IInv, Types
<1>8. QED
  BY <1>5, <1>6, <1>7, WeightLocal DEF ReadPrevious

LEMMA WeightOther ==
  ASSUME IInv, WeightInv, NEW p \in Procs,
         \/ Start(p) \/ WakeUp(p) \/ ReadCurrent(p) \/ SwapRefused(p)
         \/ Return(p, "idle") /\ UNCHANGED <<clock, charged, late>>
  PROVE  WeightInv'
<1>1. UNCHANGED <<clock, charged, late>>
  BY DEF Start, WakeUp, ReadCurrent, SwapRefused
<1>2. \A q \in Procs : q # p =>
        pc'[q] = pc[q] /\ prev'[q] = prev[q] /\ now'[q] = now[q]
  BY DEF Start, WakeUp, ReadCurrent, SwapRefused, Return, IInv, Types
<1>3. pc'[p] \in {"curr", "cas"} =>
        pc[p] \in {"curr", "cas"} /\ prev'[p] = prev[p] /\ now'[p] = now[p]
  BY DEF Start, WakeUp, ReadCurrent, SwapRefused, Return, IInv, Types
<1>4. QED
  BY <1>1, <1>2, <1>3, WeightLocal

LEMMA WeightReset ==
  ASSUME IInv, WeightInv, IInv', Reset
  PROVE  WeightInv'
<1>1. UNCHANGED <<clock, pc, prev, now, late>>
  BY DEF Reset
<1>2. PICK w : Forget(w)
  BY DEF Reset
<1>3. \A v \in Windows : charged'[v] <= charged[v]
  BY <1>1, <1>2, ForgetKeeps
<1>4. /\ FutureEmpty' /\ WeightedBound'
      /\ ChargedTo(WindowOf(clock) - 1)' <= ChargedTo(WindowOf(clock) - 1)
  BY <1>1, <1>3, FewerCharges
<1>5. PreviousRead'
  <2> SUFFICES ASSUME NEW q \in Procs, pc[q] \in {"curr", "cas"},
                      WindowOf(now[q]) = WindowOf(clock),
                      WindowOf(clock) - 1 \notin late
               PROVE  ChargedTo(WindowOf(clock) - 1)' <= prev[q]
    BY <1>1 DEF PreviousRead, WindowOf
  <2>1. ChargedTo(WindowOf(clock) - 1) <= prev[q]
    BY DEF WeightInv, PreviousRead
  <2>2. prev[q] \in Nat
    BY DEF IInv, Types
  <2>3. WindowOf(clock) - 1 \in Int
    BY WindowBounds DEF IInv, Types, Ticks
  <2>4. ChargedTo(WindowOf(clock) - 1) \in Nat
    BY <2>3, ChargedToIsNat DEF IInv
  <2>5. ChargedTo(WindowOf(clock) - 1)' \in Nat
    BY <1>1, <2>3 DEF IInv, Types, ChargedTo, Windows, WindowOf
  <2>6. QED
    BY <1>4, <2>1, <2>2, <2>4, <2>5
<1>6. QED
  BY <1>4, <1>5 DEF WeightInv

LEMMA WeightInvariant == Spec => []WeightInv
<1>1. Init => WeightInv
  <2> SUFFICES ASSUME Init PROVE WeightInv
    OBVIOUS
  <2>1. \A w : ChargedTo(w) = 0
    BY DEF Init, ChargedTo
  <2>2. Estimated(0, 0, 0) <= Limit * W
    <3>1. /\ W - Elapsed(0) \in Int /\ Limit * W \in Nat /\ 0 * W = 0
      BY WindowBounds, Products, ConstantsAssumption
    <3>2. 0 * (W - Elapsed(0)) = 0
      BY <3>1
    <3>3. QED
      BY <3>1, <3>2 DEF Estimated
  <2>3. FutureEmpty /\ PreviousRead /\ WeightedBound
    BY <2>1, <2>2 DEF Init, FutureEmpty, PreviousRead, WeightedBound, Weighted
  <2>4. QED
    BY <2>3 DEF WeightInv
<1>2. IInv /\ IInv' /\ WeightInv /\ [Next]_vars => WeightInv'
  <2> SUFFICES ASSUME IInv, IInv', WeightInv, [Next]_vars PROVE WeightInv'
    OBVIOUS
  <2>1. CASE UNCHANGED vars
    BY <2>1, WeightLocal DEF vars
  <2>2. ASSUME NEW p \in Procs, Swap(p) \/ StorageFails(p) PROVE WeightInv'
    <3>1. CASE UNCHANGED <<store, charged, granted, late>>
      BY <2>2, <3>1, WeightOther DEF Swap, StorageFails
    <3>2. CASE /\ pc[p] = "cas" /\ Matches(WindowOf(now[p]), seen[p])
               /\ Charge(p)
      BY <2>2, <3>2, WeightCharge DEF Swap, StorageFails
    <3>3. QED
      BY <2>2, <3>1, <3>2 DEF Swap, StorageFails
  <2>3. QED
    BY <2>1, <2>2, WeightTick, WeightReset, WeightReadPrevious, WeightOther
       DEF Next, Step
<1>3. QED
  BY <1>1, <1>2, InductiveInvariant, PTL DEF Spec

(***************************************************************************)
(* WeightedBound: unless the previous window was charged late, the         *)
(* estimate of what was really charged never exceeds the limit, though the *)
(* two counters are read one after the other and only one of them is       *)
(* swapped.                                                                *)
(***************************************************************************)
THEOREM EstimateStaysWithinLimit == Spec => []WeightedBound
<1>1. WeightInv => WeightedBound
  BY DEF WeightInv
<1>2. QED
  BY <1>1, WeightInvariant, PTL

-----------------------------------------------------------------------------
(* What is granted in a span that no window bounds.                        *)

\* The ticks of window v, and those of t's window up to t.
Span(v) == {s \in Ticks : WindowOf(s) = v}

Head(t) == {s \in Ticks : WindowOf(s) = WindowOf(t) /\ s <= t}

\* What was granted in window v, and what in t's window up to t.
GrantedIn(v) == SumOver(granted, Span(v))

GrantedUntil(t) == SumOver(granted, Head(t))

GrantTypes ==
  /\ granted \in [Ticks -> Nat]
  /\ \A s \in Ticks : s > clock => granted[s] = 0

\* Without late charges, what a window granted was charged to it, ...
GrantsAreCharged == \A v \in Windows : GrantedIn(v) <= charged[v]

\* ... and the estimate bounds what was granted, at every later offset, too.
GrantsAreEstimated ==
  \A t \in Ticks :
    Estimated(GrantedIn(WindowOf(t) - 1), GrantedUntil(t), t) <= Limit * W

GrantInv ==
  /\ GrantTypes
  /\ late = {} => GrantsAreCharged /\ GrantsAreEstimated

LEMMA WindowIs ==
  ASSUME NEW t \in Nat, NEW v \in Nat, v * W <= t, t < v * W + W
  PROVE  WindowOf(t) = v /\ Elapsed(t) = t - v * W
<1>1. /\ WindowOf(t) \in Nat /\ Elapsed(t) \in Nat /\ Elapsed(t) < W /\ W \in Nat
      /\ t = WindowOf(t) * W + Elapsed(t)
      /\ v * W \in Nat /\ WindowOf(t) * W \in Nat
  BY WindowBounds, Products, ConstantsAssumption
<1>2. WindowOf(t) <= v
  <2>1. WindowOf(t) * W < v * W + W
    BY <1>1
  <2>2. QED
    BY <1>1, <2>1, Products
<1>3. v <= WindowOf(t)
  <2>1. v * W < WindowOf(t) * W + W
    BY <1>1
  <2>2. QED
    BY <1>1, <2>1, Products
<1>4. WindowOf(t) = v
  BY <1>1, <1>2, <1>3
<1>5. QED
  BY <1>1, <1>4

LEMMA PartsAreFinite ==
  /\ \A v : IsFiniteSet(Span(v)) /\ Span(v) \subseteq Ticks
  /\ \A t : /\ IsFiniteSet(Head(t)) /\ Head(t) \subseteq Ticks
            /\ Head(t) \subseteq Span(WindowOf(t))
<1>1. IsFiniteSet(Ticks)
  BY FS_Interval, ConstantsAssumption DEF Ticks
<1>2. \A v : Span(v) \subseteq Ticks
  BY DEF Span
<1>3. \A t : Head(t) \subseteq Ticks /\ Head(t) \subseteq Span(WindowOf(t))
  BY DEF Head, Span
<1>4. QED
  BY <1>1, <1>2, <1>3, FS_Subset

LEMMA GrantsAreNat ==
  ASSUME NEW g \in [Ticks -> Nat]
  PROVE  /\ \A v : SumOver(g, Span(v)) \in Nat
         /\ \A t : /\ SumOver(g, Head(t)) \in Nat
                   /\ SumOver(g, Head(t)) <= SumOver(g, Span(WindowOf(t)))
<1>1. ASSUME NEW v PROVE SumOver(g, Span(v)) \in Nat
  <2>1. IsFiniteSet(Span(v)) /\ \A s \in Span(v) : g[s] \in Nat
    BY PartsAreFinite
  <2>2. QED
    BY <2>1, SumIsNat
<1>2. ASSUME NEW t
      PROVE  /\ SumOver(g, Head(t)) \in Nat
             /\ SumOver(g, Head(t)) <= SumOver(g, Span(WindowOf(t)))
  <2>1. /\ IsFiniteSet(Head(t)) /\ \A s \in Head(t) : g[s] \in Nat
        /\ IsFiniteSet(Span(WindowOf(t))) /\ Head(t) \subseteq Span(WindowOf(t))
        /\ \A s \in Span(WindowOf(t)) : g[s] \in Nat
    BY PartsAreFinite
  <2>2. QED
    BY <2>1, SumIsNat, SumOfPart
<1>3. QED
  BY <1>1, <1>2

(* A charge of the current window counts there, and nowhere else. *)
LEMMA GrantRaises ==
  ASSUME NEW g \in [Ticks -> Nat], NEW h \in [Ticks -> Nat], NEW c \in Nat,
         NEW n \in Ticks, h[n] = g[n] + c, \A s \in Ticks \ {n} : h[s] = g[s],
         NEW w, w = WindowOf(n)
  PROVE  /\ SumOver(h, Span(w)) = SumOver(g, Span(w)) + c
         /\ \A v : v # w => SumOver(h, Span(v)) = SumOver(g, Span(v))
         /\ \A t \in Ticks :
              t < n \/ WindowOf(t) # w => SumOver(h, Head(t)) = SumOver(g, Head(t))
<1>1. g[n] \in Nat
  OBVIOUS
<1>2. ASSUME NEW S, IsFiniteSet(S), S \subseteq Ticks
      PROVE  /\ n \in S => SumOver(h, S) = SumOver(g, S) + c
             /\ n \notin S => SumOver(h, S) = SumOver(g, S)
  <2>1. /\ \A s \in S : g[s] \in Int /\ h[s] \in Int
        /\ \A s \in S \ {n} : h[s] = g[s]
    BY <1>1, <1>2
  <2>2. /\ n \in S => SumOver(h, S) = SumOver(g, S) + (h[n] - g[n])
        /\ n \notin S => SumOver(h, S) = SumOver(g, S)
    BY ONLY <1>2, <2>1, SumChanged
  <2>3. h[n] - g[n] = c
    BY <1>1
  <2>4. QED
    BY <2>2, <2>3
<1>3. n \in Span(WindowOf(n)) /\ \A v : v # WindowOf(n) => n \notin Span(v)
  BY DEF Span
<1>4. \A t \in Ticks : t < n \/ WindowOf(t) # WindowOf(n) => n \notin Head(t)
  BY ConstantsAssumption DEF Head, Ticks
<1>5. QED
  BY <1>2, <1>3, <1>4, PartsAreFinite

(* No estimate that the window before alone accounts for is above it. *)
LEMMA AloneWithinLimit ==
  ASSUME NEW a \in Nat, a <= Limit, NEW t \in Nat
  PROVE  Estimated(a, 0, t) <= Limit * W
<1>1. Elapsed(t) \in Nat /\ Elapsed(t) < W /\ W \in Nat /\ Limit \in Nat
  BY WindowBounds, ConstantsAssumption
<1> DEFINE k == W - Elapsed(t)
<1>2. k \in Nat /\ k <= W
  BY <1>1
<1> HIDE DEF k
<1>3. a * k \in Nat /\ a * k <= Limit * k /\ Limit * k <= Limit * W
      /\ Limit * k \in Nat /\ Limit * W \in Nat /\ 0 * W = 0
  BY <1>1, <1>2
<1>4. QED
  BY <1>3 DEF Estimated, k

(***************************************************************************)
(* A charge.  Only one of the current window matters: a late one voids the *)
(* claim.  From its own time on, the window's grants are within what the   *)
(* window was charged, which the estimate bounds (WeightedBound); and in   *)
(* the window after it nothing has been granted yet.                       *)
(***************************************************************************)
LEMMA GrantCharge ==
  ASSUME IInv, IInv', WeightInv', GrantInv, NEW p \in Procs, pc[p] = "cas",
         Matches(WindowOf(now[p]), seen[p]), Charge(p), Return(p, "idle"),
         clock' = clock
  PROVE  GrantInv'
<1>0. PICK w : w = WindowOf(clock)
  OBVIOUS
<1>1. /\ clock \in Ticks /\ clock \in Nat /\ w \in Nat /\ w \in Windows
      /\ now[p] \in Nat /\ WindowOf(now[p]) \in Windows
      /\ cost[p] \in Nat /\ Limit \in Nat /\ W \in Nat
      /\ charged \in [Windows -> Nat] /\ granted \in [Ticks -> Nat]
  <2>1. /\ clock \in Ticks /\ clock \in Nat /\ now[p] \in Ticks /\ now[p] \in Nat
        /\ charged \in [Windows -> Nat] /\ granted \in [Ticks -> Nat] /\ cost[p] \in Nat
    BY ConstantsAssumption DEF IInv, Types, Ticks, GrantInv, GrantTypes
  <2>2. w \in Nat /\ w \in Windows /\ WindowOf(now[p]) \in Windows
    BY <1>0, <2>1, WindowBounds, WindowInRange
  <2>3. QED
    BY <2>1, <2>2, ConstantsAssumption
<1>2. /\ charged' = [charged EXCEPT ![WindowOf(now[p])] = @ + cost[p]]
      /\ granted' = [granted EXCEPT ![clock] = @ + cost[p]]
      /\ late' = IF WindowOf(now[p]) = w THEN late ELSE late \union {WindowOf(now[p])}
  BY <1>0 DEF Charge
<1>3. granted' \in [Ticks -> Nat]
  BY <1>1, <1>2
<1>4. GrantTypes'
  BY <1>1, <1>2, <1>3 DEF GrantInv, GrantTypes, Ticks
<1> SUFFICES ASSUME late' = {} PROVE GrantsAreCharged' /\ GrantsAreEstimated'
  BY <1>4 DEF GrantInv
<1>5. WindowOf(now[p]) = w /\ late = {}
  BY <1>2
<1>6. GrantsAreCharged /\ GrantsAreEstimated
  BY <1>5 DEF GrantInv
<1>7. /\ SumOver(granted', Span(w)) = SumOver(granted, Span(w)) + cost[p]
      /\ \A v : v # w => SumOver(granted', Span(v)) = SumOver(granted, Span(v))
      /\ \A t \in Ticks : t < clock \/ WindowOf(t) # w =>
           SumOver(granted', Head(t)) = SumOver(granted, Head(t))
  <2>1. /\ granted'[clock] = granted[clock] + cost[p]
        /\ \A s \in Ticks \ {clock} : granted'[s] = granted[s]
    BY <1>1, <1>2
  <2>2. QED
    BY ONLY <1>0, <1>1, <1>3, <2>1, GrantRaises
<1>8. /\ charged'[w] = charged[w] + cost[p]
      /\ \A v \in Windows : v # w => charged'[v] = charged[v]
      /\ charged' \in [Windows -> Nat] /\ \A v \in Windows : charged'[v] <= Limit
  <2>1. charged' \in [Windows -> Nat] /\ \A v \in Windows : charged'[v] <= Limit
    BY DEF IInv, Types, PerWindowBound, Windows, WindowOf
  <2>2. QED
    BY <1>1, <1>2, <1>5, <2>1
<1>9. \A v \in Windows : SumOver(granted', Span(v)) <= charged'[v]
  <2> SUFFICES ASSUME NEW v \in Windows
               PROVE  SumOver(granted', Span(v)) <= charged'[v]
    OBVIOUS
  <2>1. SumOver(granted, Span(v)) <= charged[v]
    BY <1>6 DEF GrantsAreCharged, GrantedIn
  <2>2. SumOver(granted, Span(v)) \in Nat /\ charged[v] \in Nat
    BY <1>1, GrantsAreNat
  <2>3. CASE v = w
    <3>1. charged'[w] = charged[w] + cost[p] /\ cost[p] \in Nat
      BY <1>1, <1>8
    <3>2. SumOver(granted', Span(w)) = SumOver(granted, Span(w)) + cost[p]
      BY <1>7
    <3>3. QED
      BY ONLY <2>1, <2>2, <2>3, <3>1, <3>2
  <2>4. CASE v # w
    BY <1>7, <1>8, <2>1, <2>4
  <2>5. QED
    BY <2>3, <2>4
<1>10. ASSUME NEW t \in Ticks
       PROVE  Estimated(SumOver(granted', Span(WindowOf(t) - 1)),
                        SumOver(granted', Head(t)), t) <= Limit * W
  <2>1. /\ t \in Nat /\ WindowOf(t) \in Windows /\ WindowOf(t) \in Nat
        /\ Elapsed(t) \in Nat /\ t = WindowOf(t) * W + Elapsed(t)
        /\ Limit * W \in Nat /\ WindowOf(t) * W \in Nat
    BY WindowBounds, WindowInRange, Products, ConstantsAssumption DEF Ticks
  <2>2. /\ \A v : SumOver(granted', Span(v)) \in Nat
        /\ SumOver(granted', Head(t)) \in Nat
        /\ SumOver(granted', Head(t)) <= SumOver(granted', Span(WindowOf(t)))
    BY <1>3, GrantsAreNat
  <2>3. CASE WindowOf(t) = w /\ clock <= t
    <3>1. /\ ChargedTo(w - 1)' \in Nat /\ ChargedTo(w)' = charged'[w]
          /\ charged'[w] \in Nat
      BY <1>1, <1>8 DEF ChargedTo, Windows, WindowOf
    <3>2. SumOver(granted', Span(w - 1)) <= ChargedTo(w - 1)'
      <4>1. CASE w - 1 \in Windows
        BY <4>1, <1>9 DEF ChargedTo, Windows, WindowOf
      <4>2. CASE w - 1 \notin Windows
        <5>1. Span(w - 1) = {}
          BY <4>2, WindowInRange DEF Span
        <5>2. SumOver(granted', Span(w - 1)) = 0
          BY <5>1, PartsAreFinite, NothingSums
        <5>3. QED
          BY <3>1, <5>2
      <4>3. QED
        BY <4>1, <4>2
    <3>3. SumOver(granted', Head(t)) <= charged'[w]
      BY <1>1, <1>9, <2>2, <2>3, <3>1
    <3>4. Estimated(SumOver(granted', Span(w - 1)), SumOver(granted', Head(t)), t)
            <= Estimated(ChargedTo(w - 1)', charged'[w], t)
      BY <2>1, <2>2, <3>1, <3>2, <3>3, EstimateIsMonotonic
    <3>5. Elapsed(clock) <= Elapsed(t)
      BY <1>0, <1>1, <2>1, <2>3, WindowBounds
    <3>6. Estimated(ChargedTo(w - 1)', charged'[w], t)
            <= Estimated(ChargedTo(w - 1)', charged'[w], clock)
      BY <1>1, <2>1, <3>1, <3>5, EstimateFades
    <3>7. Estimated(ChargedTo(w - 1)', charged'[w], clock) <= Limit * W
      <4>1. Estimated(ChargedTo(w - 1)', ChargedTo(w)', clock) <= Limit * W
        BY <1>0 DEF WeightInv, WeightedBound, Weighted, ChargedTo, Estimated,
                    Elapsed, WindowOf, Windows
      <4>2. QED
        BY <3>1, <4>1
    <3>8. /\ Estimated(SumOver(granted', Span(w - 1)), SumOver(granted', Head(t)), t) \in Nat
          /\ Estimated(ChargedTo(w - 1)', charged'[w], t) \in Nat
          /\ Estimated(ChargedTo(w - 1)', charged'[w], clock) \in Nat
      BY <1>1, <2>1, <2>2, <3>1, EstimateIsNat
    <3>9. QED
      BY <2>1, <2>3, <3>4, <3>6, <3>7, <3>8
  <2>4. CASE WindowOf(t) = w + 1
    <3>1. clock < w * W + W /\ w * W \in Nat /\ (w + 1) * W = w * W + W
      <4>1. clock = w * W + Elapsed(clock) /\ Elapsed(clock) < W /\ Elapsed(clock) \in Nat
        BY <1>0, <1>1, WindowBounds
      <4>2. w * W \in Nat
        BY <1>1, Products
      <4>3. (w + 1) * W = w * W + 1 * W
        BY <1>1, Products
      <4>4. 1 * W = W
        BY <1>1
      <4>5. QED
        BY <1>1, <4>1, <4>2, <4>3, <4>4
    <3>2. \A s \in Head(t) : granted'[s] = 0
      <4> SUFFICES ASSUME NEW s \in Head(t) PROVE granted'[s] = 0
        OBVIOUS
      <4>1. /\ s \in Ticks /\ s \in Nat /\ WindowOf(s) = w + 1
            /\ s = WindowOf(s) * W + Elapsed(s) /\ Elapsed(s) \in Nat
        BY <2>4, WindowBounds DEF Head, Ticks
      <4>2. clock < s
        BY <1>1, <3>1, <4>1
      <4>3. QED
        BY <4>1, <4>2, <1>4 DEF GrantTypes
    <3>3. SumOver(granted', Head(t)) = 0
      BY <3>2, PartsAreFinite, NothingSums
    <3>4. SumOver(granted', Span(w)) <= Limit
      BY <1>1, <1>8, <1>9, <2>2
    <3>5. WindowOf(t) - 1 = w
      BY <1>1, <2>4
    <3>6. QED
      BY <2>1, <2>2, <3>3, <3>4, <3>5, AloneWithinLimit
  <2>5. CASE ~(WindowOf(t) = w /\ clock <= t) /\ WindowOf(t) # w + 1
    <3>1. SumOver(granted', Head(t)) = SumOver(granted, Head(t))
      BY <1>1, <1>7, <2>1, <2>5
    <3>2. SumOver(granted', Span(WindowOf(t) - 1)) = SumOver(granted, Span(WindowOf(t) - 1))
      BY <1>1, <1>7, <2>1, <2>5
    <3>3. Estimated(SumOver(granted, Span(WindowOf(t) - 1)),
                    SumOver(granted, Head(t)), t) <= Limit * W
      BY <1>6 DEF GrantsAreEstimated, GrantedIn, GrantedUntil
    <3>4. QED
      BY <3>1, <3>2, <3>3
  <2>6. QED
    BY <2>3, <2>4, <2>5
<1>11. GrantsAreCharged'
  BY <1>9 DEF GrantsAreCharged, GrantedIn, Span, Windows, WindowOf, Ticks
<1>12. GrantsAreEstimated'
  BY <1>10 DEF GrantsAreEstimated, GrantedIn, GrantedUntil, Span, Head, Windows,
               WindowOf, Ticks, Estimated, Elapsed
<1>13. QED
  BY <1>11, <1>12

(* A reset forgets what was granted. *)
LEMMA GrantReset ==
  ASSUME IInv, IInv', GrantInv, Reset
  PROVE  GrantInv'
<1>1. granted' = [t \in Ticks |-> 0] /\ clock' = clock /\ late' = late
  BY DEF Reset, Forget
<1>2. GrantTypes'
  BY <1>1 DEF GrantTypes, Ticks
<1>3. charged' \in [Windows -> Nat]
  BY DEF IInv, Types, Windows, WindowOf
<1>4. \A v : SumOver(granted', Span(v)) = 0
  <2>1. \A v : IsFiniteSet(Span(v)) /\ \A s \in Span(v) : granted'[s] = 0
    BY <1>1, PartsAreFinite
  <2>2. QED
    BY <2>1, NothingSums
<1>5. \A t : SumOver(granted', Head(t)) = 0
  <2>1. \A t : IsFiniteSet(Head(t)) /\ \A s \in Head(t) : granted'[s] = 0
    BY <1>1, PartsAreFinite
  <2>2. QED
    BY <2>1, NothingSums
<1>6. GrantsAreCharged'
  <2>1. \A v \in Windows : SumOver(granted', Span(v)) <= charged'[v]
    BY <1>3, <1>4
  <2>2. QED
    BY <2>1 DEF GrantsAreCharged, GrantedIn, Span, Windows, WindowOf, Ticks
<1>7. \A t \in Ticks : Estimated(0, 0, t) <= Limit * W
  BY AloneWithinLimit, ConstantsAssumption DEF Ticks
<1>8. GrantsAreEstimated'
  BY <1>4, <1>5, <1>7 DEF GrantsAreEstimated, GrantedIn, GrantedUntil, Span, Head,
               Windows, WindowOf, Ticks, Estimated, Elapsed
<1>9. QED
  BY <1>2, <1>6, <1>8 DEF GrantInv

LEMMA GrantOther ==
  ASSUME GrantInv, IInv, clock' \in Int, clock <= clock',
         UNCHANGED <<charged, granted, late>>
  PROVE  GrantInv'
<1>1. clock \in Nat
  BY DEF IInv, Types, Ticks
<1>2. GrantTypes'
  BY <1>1, ConstantsAssumption DEF GrantInv, GrantTypes, Ticks
<1>3. late = {} => GrantsAreCharged' /\ GrantsAreEstimated'
  BY DEF GrantInv, GrantsAreCharged, GrantsAreEstimated, GrantedIn, GrantedUntil,
         Span, Head, Windows, WindowOf, Ticks, Estimated, Elapsed
<1>4. QED
  BY <1>2, <1>3 DEF GrantInv

LEMMA GrantInvariant == Spec => []GrantInv
<1>1. Init => GrantInv
  <2> SUFFICES ASSUME Init PROVE GrantInv
    OBVIOUS
  <2>1. \A s \in Ticks : granted[s] = 0
    BY DEF Init
  <2>2. \A v : GrantedIn(v) = 0
    BY <2>1, PartsAreFinite, NothingSums DEF GrantedIn
  <2>3. \A t : GrantedUntil(t) = 0
    BY <2>1, PartsAreFinite, NothingSums DEF GrantedUntil
  <2>4. \A t \in Ticks : Estimated(0, 0, t) <= Limit * W
    BY AloneWithinLimit, ConstantsAssumption DEF Ticks
  <2>5. GrantsAreCharged /\ GrantsAreEstimated
    BY <2>2, <2>3, <2>4 DEF Init, GrantsAreCharged, GrantsAreEstimated
  <2>6. GrantTypes
    BY DEF Init, GrantTypes
  <2>7. QED
    BY <2>5, <2>6 DEF GrantInv
<1>2. IInv /\ IInv' /\ WeightInv' /\ GrantInv /\ [Next]_vars => GrantInv'
  <2> SUFFICES ASSUME IInv, IInv', WeightInv', GrantInv, [Next]_vars PROVE GrantInv'
    OBVIOUS
  <2>1. clock \in Nat /\ clock <= clock
    BY DEF IInv, Types, Ticks
  <2>2. CASE UNCHANGED vars
    BY <2>1, <2>2, GrantOther DEF vars
  <2>3. CASE Tick
    BY <2>1, <2>3, GrantOther DEF Tick
  <2>4. ASSUME NEW p \in Procs, Swap(p) \/ StorageFails(p) PROVE GrantInv'
    <3>1. CASE UNCHANGED <<store, charged, granted, late>>
      BY <2>1, <2>4, <3>1, GrantOther DEF Swap, StorageFails
    <3>2. CASE /\ pc[p] = "cas" /\ Matches(WindowOf(now[p]), seen[p])
               /\ Charge(p)
      BY <2>4, <3>2, GrantCharge DEF Swap, StorageFails
    <3>3. QED
      BY <2>4, <3>1, <3>2 DEF Swap, StorageFails
  <2>5. ASSUME NEW p \in Procs,
               \/ Start(p) \/ WakeUp(p) \/ ReadPrevious(p) \/ ReadCurrent(p)
               \/ SwapRefused(p)
        PROVE  GrantInv'
    BY <2>1, <2>5, GrantOther DEF Start, WakeUp, ReadPrevious, ReadCurrent, SwapRefused
  <2>6. QED
    BY <2>2, <2>3, <2>4, <2>5, GrantReset DEF Next, Step
<1>3. QED
  BY <1>1, <1>2, InductiveInvariant, WeightInvariant, PTL DEF Spec

-----------------------------------------------------------------------------
(* A stretch of one window's length is the tail of a window and the head   *)
(* of the next one.                                                        *)

LEMMA StretchIsWindow ==
  ASSUME NEW t \in Nat, Elapsed(t) = 0, t + W - 1 \in Ticks
  PROVE  t..(t + W - 1) \subseteq Span(WindowOf(t)) /\ WindowOf(t) \in Windows
<1>1. /\ WindowOf(t) \in Nat /\ W \in Nat \ {0} /\ t = WindowOf(t) * W
      /\ MaxClock \in Nat
  BY WindowBounds, Products, ConstantsAssumption
<1>2. ASSUME NEW s \in t..(t + W - 1) PROVE s \in Ticks /\ WindowOf(s) = WindowOf(t)
  <2>1. s \in Nat /\ s \in Ticks
    BY <1>1 DEF Ticks
  <2>2. WindowOf(t) * W <= s /\ s < WindowOf(t) * W + W
    BY <1>1
  <2>3. QED
    BY <1>1, <2>1, <2>2, WindowIs
<1>3. t \in Ticks
  BY <1>1 DEF Ticks
<1>4. QED
  BY <1>2, <1>3, WindowInRange DEF Span

LEMMA StretchIsTailAndHead ==
  ASSUME NEW t \in Nat, Elapsed(t) # 0, NEW b \in Ticks, b = t + W - 1
  PROVE  /\ WindowOf(b) - 1 = WindowOf(t) /\ Elapsed(b) = Elapsed(t) - 1
         /\ WindowOf(t) \in Windows
         /\ Head(b) \subseteq t..b
         /\ (t..b) \ Head(b) \subseteq Span(WindowOf(t))
<1> DEFINE w == WindowOf(t)
<1>1. /\ w \in Nat /\ W \in Nat \ {0} /\ Elapsed(t) \in Nat /\ Elapsed(t) < W
      /\ t = w * W + Elapsed(t) /\ w * W \in Nat /\ MaxClock \in Nat
      /\ w + 1 \in Nat
  <2>1. /\ w \in Nat /\ Elapsed(t) \in Nat /\ Elapsed(t) < W
        /\ t = w * W + Elapsed(t)
    BY WindowBounds
  <2>2. w * W \in Nat
    BY <2>1, Products
  <2>3. QED
    BY <2>1, <2>2, ConstantsAssumption
<1>2. t \in Ticks /\ b \in Nat
  BY <1>1 DEF Ticks
<1> HIDE DEF w
<1>3. (w + 1) * W = w * W + W
  <2>1. (w + 1) * W = w * W + 1 * W
    BY <1>1, Products
  <2>2. QED
    BY <1>1, <2>1
<1>4. (w + 1) * W <= b /\ b < (w + 1) * W + W
  BY <1>1, <1>3
<1>5. WindowOf(b) = w + 1 /\ Elapsed(b) = b - (w + 1) * W
  BY <1>1, <1>2, <1>4, WindowIs
<1>6. Elapsed(b) = Elapsed(t) - 1
  BY <1>1, <1>3, <1>5
<1>7. ASSUME NEW s \in Head(b) PROVE s \in t..b
  <2>1. /\ s \in Ticks /\ s \in Nat /\ WindowOf(s) = w + 1 /\ s <= b
        /\ s = WindowOf(s) * W + Elapsed(s) /\ Elapsed(s) \in Nat
    BY <1>5, WindowBounds DEF Head, Ticks
  <2>2. QED
    BY <1>1, <1>2, <1>3, <2>1
<1>8. ASSUME NEW s \in (t..b) \ Head(b) PROVE s \in Span(w)
  <2>1. s \in Ticks /\ s \in Nat /\ t <= s /\ s <= b
    BY <1>1, <1>2 DEF Ticks
  <2>2. CASE s < w * W + W
    <3>1. w * W <= s
      BY <1>1, <2>1
    <3>2. QED
      BY <1>1, <2>1, <2>2, <3>1, WindowIs DEF Span
  <2>3. CASE ~(s < w * W + W)
    <3>1. (w + 1) * W <= s /\ s < (w + 1) * W + W
      BY <1>1, <1>3, <1>4, <2>1, <2>3
    <3>2. WindowOf(s) = w + 1
      BY <1>1, <2>1, <3>1, WindowIs
    <3>3. s \in Head(b)
      BY <1>5, <2>1, <3>2 DEF Head
    <3>4. QED
      BY <3>3
  <2>4. QED
    BY <2>2, <2>3
<1>9. WindowOf(t) \in Windows
  BY <1>2, WindowInRange
<1>10. QED
  BY <1>1, <1>5, <1>6, <1>7, <1>8, <1>9 DEF w

(* From what the estimate allows to what the stretch sees. *)
LEMMA TailAndHeadAddUp ==
  ASSUME NEW tail \in Nat, NEW before \in Nat, NEW head \in Nat, NEW b \in Nat,
         tail <= before, tail <= Limit,
         Estimated(before, head, b) <= Limit * W
  PROVE  (tail + head) * W <= Limit * (W + Elapsed(b))
<1> DEFINE u == Elapsed(b)
           k == W - u
<1>1. u \in Nat /\ W \in Nat /\ Limit \in Nat /\ k \in Nat /\ W = k + u
  <2>1. u \in Nat /\ u < W /\ W \in Nat /\ Limit \in Nat
    BY WindowBounds, ConstantsAssumption
  <2>2. QED
    BY <2>1
<1>2. before * k + head * W <= Limit * W
  BY DEF Estimated
<1> HIDE DEF u, k
<1>3. /\ tail * k <= before * k /\ tail * u <= Limit * u
      /\ tail * k \in Nat /\ before * k \in Nat /\ tail * u \in Nat
      /\ Limit * u \in Nat /\ Limit * W \in Nat /\ head * W \in Nat
  BY <1>1
<1>4. (tail + head) * W = tail * W + head * W
  BY <1>1
<1>5. tail * W = tail * k + tail * u
  BY <1>1
<1>6. Limit * (W + u) = Limit * W + Limit * u
  BY <1>1
<1>7. (tail + head) * W <= Limit * (W + u)
  BY <1>2, <1>3, <1>4, <1>5, <1>6
<1>8. QED
  BY <1>7 DEF u

(***************************************************************************)
(* BurstBound: without late charges, a stretch of one window's length that *)
(* starts e > 0 ticks into a window sees at most (1 + (e - 1) / W) times   *)
(* the limit, and one that starts with a window at most the limit.         *)
(***************************************************************************)
THEOREM BurstsAreBounded == Spec => []BurstBound
<1>1. IInv /\ GrantInv => BurstBound
  <2> SUFFICES ASSUME IInv, GrantInv, late = {}, NEW t \in 0..(MaxClock - W + 1)
               PROVE  SumOver(granted, t..(t + W - 1)) * W
                        <= Limit * (W + AtLeast(0, Elapsed(t) - 1))
    BY Zenon DEF BurstBound, GrantedFrom, SumOver
  <2>1. /\ t \in Nat /\ W \in Nat \ {0} /\ Limit \in Nat /\ t + W - 1 \in Ticks
        /\ t + W - 1 \in Nat
        /\ granted \in [Ticks -> Nat] /\ charged \in [Windows -> Nat]
        /\ \A w \in Windows : charged[w] <= Limit
        /\ \A w \in Windows : SumOver(granted, Span(w)) <= charged[w]
        /\ \A b \in Ticks :
             Estimated(SumOver(granted, Span(WindowOf(b) - 1)),
                       SumOver(granted, Head(b)), b) <= Limit * W
    BY ConstantsAssumption
       DEF Ticks, GrantInv, GrantTypes, GrantsAreCharged, GrantsAreEstimated,
           GrantedIn, GrantedUntil, IInv, Types, PerWindowBound
  <2>2. \A v : IsFiniteSet(Span(v)) /\ SumOver(granted, Span(v)) \in Nat
                 /\ \A s \in Span(v) : granted[s] \in Nat
    BY <2>1, PartsAreFinite, GrantsAreNat
  <2>3. CASE Elapsed(t) = 0
    <3>1. t..(t + W - 1) \subseteq Span(WindowOf(t)) /\ WindowOf(t) \in Windows
      BY <2>1, <2>3, StretchIsWindow
    <3>2. SumOver(granted, t..(t + W - 1)) <= SumOver(granted, Span(WindowOf(t)))
      BY <2>2, <3>1, SumOfPart
    <3>3. SumOver(granted, t..(t + W - 1)) \in Nat
      <4>1. IsFiniteSet(t..(t + W - 1)) /\ \A s \in t..(t + W - 1) : granted[s] \in Nat
        BY <2>2, <3>1, FS_Subset
      <4>2. QED
        BY <4>1, SumIsNat
    <3>4. SumOver(granted, t..(t + W - 1)) <= Limit
      BY <2>1, <2>2, <3>1, <3>2, <3>3
    <3>5. SumOver(granted, t..(t + W - 1)) * W <= Limit * W
      BY <2>1, <3>3, <3>4, Products
    <3>6. W + AtLeast(0, Elapsed(t) - 1) = W
      BY <2>1, <2>3 DEF AtLeast
    <3>7. QED
      BY <3>5, <3>6
  <2>4. CASE Elapsed(t) # 0
    <3> DEFINE b == t + W - 1
               tail == (t..b) \ Head(b)
    <3>1. b \in Ticks /\ b \in Nat
      BY <2>1
    <3>2. /\ WindowOf(b) - 1 = WindowOf(t) /\ Elapsed(b) = Elapsed(t) - 1
          /\ WindowOf(t) \in Windows
          /\ Head(b) \subseteq t..b
          /\ tail \subseteq Span(WindowOf(t))
      BY <2>1, <2>4, StretchIsTailAndHead
    <3> HIDE DEF b
    <3>3. /\ IsFiniteSet(tail) /\ IsFiniteSet(Head(b))
          /\ tail \intersect Head(b) = {} /\ tail \union Head(b) = t..b
          /\ \A s \in tail : granted[s] \in Nat
          /\ \A s \in Head(b) : granted[s] \in Nat
      BY <2>1, <2>2, <3>2, FS_Subset, PartsAreFinite
    <3>4. SumOver(granted, tail) \in Nat /\ SumOver(granted, Head(b)) \in Nat
      BY <3>3, SumIsNat
    <3>5. SumOver(granted, tail) <= SumOver(granted, Span(WindowOf(t)))
      BY <2>2, <3>2, SumOfPart
    <3> HIDE DEF tail
    <3>6. SumOver(granted, t..b) = SumOver(granted, tail) + SumOver(granted, Head(b))
      <4>1. SumOver(granted, tail \union Head(b))
              = SumOver(granted, tail) + SumOver(granted, Head(b))
        BY <3>3, SumOfUnion
      <4>2. QED
        BY <3>3, <4>1, Zenon
    <3>7. SumOver(granted, tail) <= Limit
      BY <2>1, <2>2, <3>2, <3>4, <3>5
    <3>8. Estimated(SumOver(granted, Span(WindowOf(t))), SumOver(granted, Head(b)), b)
            <= Limit * W
      BY <2>1, <3>1, <3>2
    <3>9. (SumOver(granted, tail) + SumOver(granted, Head(b))) * W
            <= Limit * (W + Elapsed(b))
      BY <2>2, <3>1, <3>4, <3>5, <3>7, <3>8, TailAndHeadAddUp
    <3>10. AtLeast(0, Elapsed(t) - 1) = Elapsed(b)
      <4>1. Elapsed(t) \in Nat
        BY <2>1, WindowBounds
      <4>2. QED
        BY <2>4, <3>2, <4>1 DEF AtLeast
    <3>11. QED
      BY <3>6, <3>9, <3>10 DEF b
  <2>5. QED
    BY <2>3, <2>4
<1>2. QED
  BY <1>1, InductiveInvariant, GrantInvariant, PTL

-----------------------------------------------------------------------------
(* What a denial was decided on.                                           *)

\* A counter never counts more than its window was charged, ...
CountsAreCharged ==
  \A w \in Windows : store[w] # NoEntry => store[w].count <= charged[w]

\* ... nor does what a caller has read of the previous window.
ReadsAreCharged ==
  \A p \in Procs :
    pc[p] \in {"curr", "cas"} => prev[p] <= ChargedTo(WindowOf(now[p]) - 1)

DenialInv ==
  /\ resets \in Nat
  /\ CountsAreCharged
  /\ resets = 0 => cleaning = NoReset /\ ReadsAreCharged

\* Steps that charge nothing and forget nothing.
LEMMA ReadsStay ==
  ASSUME IInv, DenialInv, UNCHANGED <<store, charged, resets, cleaning>>,
         \A q \in Procs : pc'[q] \in {"curr", "cas"} =>
            \/ /\ pc[q] \in {"curr", "cas"}
               /\ prev'[q] = prev[q] /\ now'[q] = now[q]
            \/ prev'[q] <= ChargedTo(WindowOf(now'[q]) - 1)
  PROVE  DenialInv'
<1>1. \A v : ChargedTo(v)' = ChargedTo(v)
  BY DEF ChargedTo, Windows, WindowOf
<1>2. CountsAreCharged'
  BY DEF DenialInv, CountsAreCharged, Windows, WindowOf
<1>3. resets = 0 => ReadsAreCharged'
  BY <1>1 DEF DenialInv, ReadsAreCharged, WindowOf
<1>4. QED
  BY <1>2, <1>3 DEF DenialInv

LEMMA DenialReadPrevious ==
  ASSUME IInv, DenialInv, NEW p \in Procs, ReadPrevious(p)
  PROVE  DenialInv'
<1> DEFINE v == WindowOf(now[p]) - 1
<1>1. now[p] \in Nat /\ v \in Int
  BY WindowBounds DEF IInv, Types, Ticks
<1>2. CountOf(v) <= ChargedTo(v)
  <2>1. CASE Live(v)
    BY <2>1 DEF DenialInv, CountsAreCharged, Live, CountOf, ChargedTo
  <2>2. CASE ~Live(v)
    <3>1. CountOf(v) = 0
      BY <2>2 DEF CountOf
    <3>2. ChargedTo(v) \in Nat
      BY <1>1, ChargedToIsNat DEF IInv
    <3>3. QED
      BY <3>1, <3>2
  <2>3. QED
    BY <2>1, <2>2
<1>3. now' = now /\ prev'[p] = CountOf(v)
  BY DEF ReadPrevious, IInv, Types
<1>4. prev'[p] <= ChargedTo(WindowOf(now'[p]) - 1)
  BY <1>2, <1>3
<1>5. \A q \in Procs : q # p => pc'[q] = pc[q] /\ prev'[q] = prev[q]
  BY DEF ReadPrevious, IInv, Types
<1>6. UNCHANGED <<store, charged, resets, cleaning>>
  BY DEF ReadPrevious
<1>7. QED
  BY <1>3, <1>4, <1>5, <1>6, ReadsStay

LEMMA DenialOther ==
  ASSUME IInv, DenialInv, NEW p \in Procs,
         \/ Start(p) \/ WakeUp(p) \/ ReadCurrent(p) \/ SwapRefused(p)
         \/ Return(p, "idle") /\ UNCHANGED <<store, charged, resets, cleaning>>
  PROVE  DenialInv'
<1>1. UNCHANGED <<store, charged, resets, cleaning>>
  BY DEF Start, WakeUp, ReadCurrent, SwapRefused
<1>2. \A q \in Procs : q # p =>
        pc'[q] = pc[q] /\ prev'[q] = prev[q] /\ now'[q] = now[q]
  BY DEF Start, WakeUp, ReadCurrent, SwapRefused, Return, IInv, Types
<1>3. pc'[p] \in {"curr", "cas"} =>
        pc[p] \in {"curr", "cas"} /\ prev'[p] = prev[p] /\ now'[p] = now[p]
  BY DEF Start, WakeUp, ReadCurrent, SwapRefused, Return, IInv, Types
<1>4. QED
  BY <1>1, <1>2, <1>3, ReadsStay

LEMMA DenialCharge ==
  ASSUME IInv, DenialInv, NEW p \in Procs, pc[p] = "cas",
         Matches(WindowOf(now[p]), seen[p]), Charge(p), Return(p, "idle"),
         UNCHANGED <<clock, cleaning, resets>>
  PROVE  DenialInv'
<1> DEFINE w == WindowOf(now[p])
           entry == [count |-> seen[p] + cost[p], exp |-> clock + TimeToLive]
<1>1. /\ w \in Windows /\ seen[p] \in Nat /\ cost[p] \in Nat
      /\ charged \in [Windows -> Nat]
  BY WindowInRange DEF IInv, Types
<1>2. /\ store' = [store EXCEPT ![w] = entry]
      /\ charged' = [charged EXCEPT ![w] = @ + cost[p]]
  BY DEF Charge
<1>3. entry.count = seen[p] + cost[p]
  OBVIOUS
<1> HIDE DEF entry, w
<1>4. /\ store'[w] = entry /\ charged'[w] = charged[w] + cost[p]
      /\ \A v \in Windows : v # w =>
           store'[v] = store[v] /\ charged'[v] = charged[v]
  BY <1>1, <1>2 DEF IInv, Types
<1>5. seen[p] <= charged[w] /\ charged[w] \in Nat
  <2>1. charged[w] \in Nat
    BY <1>1
  <2>2. CASE seen[p] = 0
    BY <2>1, <2>2
  <2>3. CASE seen[p] # 0
    BY <1>1, <2>1, <2>3 DEF w, Matches, Live, DenialInv, CountsAreCharged
  <2>4. QED
    BY <2>2, <2>3
<1>6. CountsAreCharged'
  <2> SUFFICES ASSUME NEW v \in Windows, store'[v] # NoEntry
               PROVE  store'[v].count <= charged'[v]
    BY DEF CountsAreCharged, Windows, WindowOf
  <2>1. CASE v = w
    BY <1>1, <1>3, <1>4, <1>5, <2>1
  <2>2. CASE v # w
    BY <1>4, <2>2 DEF DenialInv, CountsAreCharged
  <2>3. QED
    BY <2>1, <2>2
<1>7. \A v \in Int : /\ ChargedTo(v) \in Nat /\ ChargedTo(v)' \in Nat
                     /\ ChargedTo(v) <= ChargedTo(v)'
  <2>1. \A v \in Windows : /\ charged[v] \in Nat /\ charged'[v] \in Nat
                           /\ charged[v] <= charged'[v]
    BY <1>1, <1>4
  <2>2. QED
    BY <2>1 DEF ChargedTo, Windows, WindowOf
<1>8. resets = 0 => ReadsAreCharged'
  <2> SUFFICES ASSUME resets = 0, NEW q \in Procs, (pc[q] \in {"curr", "cas"})'
               PROVE  (prev[q] <= ChargedTo(WindowOf(now[q]) - 1))'
    BY DEF ReadsAreCharged
  <2>1. q # p /\ pc'[q] = pc[q] /\ prev'[q] = prev[q] /\ now'[q] = now[q]
    BY DEF Return, IInv, Types
  <2>2. prev[q] <= ChargedTo(WindowOf(now[q]) - 1) /\ prev[q] \in Nat
    BY <2>1 DEF DenialInv, ReadsAreCharged, IInv, Types
  <2>3. WindowOf(now[q]) - 1 \in Int
    BY WindowBounds DEF IInv, Types, Ticks
  <2>4. PICK v \in Int : v = WindowOf(now[q]) - 1
    BY <2>3
  <2>5. prev[q] <= ChargedTo(v)'
    BY <1>7, <2>2, <2>4
  <2>6. (WindowOf(now[q]) - 1)' = v
    BY <2>1, <2>4 DEF WindowOf
  <2>7. QED
    BY <2>1, <2>5, <2>6 DEF ChargedTo, Windows, WindowOf
<1>9. QED
  BY <1>6, <1>8 DEF DenialInv

LEMMA DenialReset ==
  ASSUME IInv, DenialInv, Reset
  PROVE  DenialInv'
<1>1. resets' \in Nat /\ resets' # 0
  BY DEF DenialInv, Reset
<1>2. PICK w : Forget(w)
  BY DEF Reset
<1>3. CountsAreCharged'
  <2> SUFFICES ASSUME NEW v \in Windows, store'[v] # NoEntry
               PROVE  store'[v].count <= charged'[v]
    BY DEF CountsAreCharged, Windows, WindowOf
  <2>1. store'[v] = store[v] /\ charged'[v] = charged[v]
    BY <1>2 DEF Forget
  <2>2. QED
    BY <2>1 DEF DenialInv, CountsAreCharged
<1>4. QED
  BY <1>1, <1>3 DEF DenialInv

LEMMA DenialInvariant == Spec => []DenialInv
<1>1. Init => DenialInv
  BY DEF Init, DenialInv, CountsAreCharged, ReadsAreCharged
<1>2. IInv /\ DenialInv /\ [Next]_vars => DenialInv'
  <2> SUFFICES ASSUME IInv, DenialInv, [Next]_vars PROVE DenialInv'
    OBVIOUS
  <2>1. CASE UNCHANGED vars
    BY <2>1, ReadsStay DEF vars
  <2>2. CASE Tick
    BY <2>2, ReadsStay DEF Tick
  <2>3. ASSUME NEW p \in Procs, Swap(p) \/ StorageFails(p) PROVE DenialInv'
    <3>1. CASE UNCHANGED <<store, charged, granted, late>>
      BY <2>3, <3>1, DenialOther DEF Swap, StorageFails
    <3>2. CASE /\ pc[p] = "cas" /\ Matches(WindowOf(now[p]), seen[p])
               /\ Charge(p)
      BY <2>3, <3>2, DenialCharge DEF Swap, StorageFails
    <3>3. QED
      BY <2>3, <3>1, <3>2 DEF Swap, StorageFails
  <2>4. QED
    BY <2>1, <2>2, <2>3, DenialReset, DenialReadPrevious, DenialOther DEF Next, Step
<1>3. QED
  BY <1>1, <1>2, InductiveInvariant, PTL DEF Spec

(***************************************************************************)
(* DenialsAreDeserved: a call that the estimate turns away would not have  *)
(* fitted what the two windows were really charged, though it read them    *)
(* one after the other.                                                    *)
(***************************************************************************)
THEOREM DenialsCountCharges == Spec => DenialsAreDeserved
<1> DEFINE Deserved(p) ==
      LET w == WindowOf(now[p])
      IN  Estimated(ChargedTo(w - 1), ChargedTo(w) + cost[p], now[p]) > Limit * W
<1>1. IInv /\ DenialInv /\ [Next]_vars =>
        \A p \in Procs : pc[p] = "curr" /\ pc'[p] = "denied" /\ resets = 0
          => Deserved(p)
  <2> SUFFICES ASSUME IInv, DenialInv, [Next]_vars, NEW p \in Procs,
                      pc[p] = "curr", pc'[p] = "denied", resets = 0
               PROVE  Deserved(p)
    OBVIOUS
  <2>1. pc \in [Procs -> {"prev", "curr", "cas", "sleep"} \union Resting]
    BY DEF IInv, Types
  <2>2. ReadCurrent(p)
    <3>1. ASSUME NEW q \in Procs, q # p,
                 Start(q) \/ WakeUp(q) \/ Step(q) \/ StorageFails(q)
          PROVE  FALSE
      BY <2>1, <3>1 DEF Start, WakeUp, Step, ReadPrevious, ReadCurrent, Swap,
                        SwapRefused, StorageFails, Return
    <3>2. ~(Tick \/ Reset \/ UNCHANGED vars)
      BY DEF Tick, Reset, vars
    <3>3. ~(Start(p) \/ WakeUp(p) \/ ReadPrevious(p) \/ Swap(p)
              \/ SwapRefused(p) \/ StorageFails(p))
      BY <2>1 DEF Start, WakeUp, ReadPrevious, Swap, SwapRefused, StorageFails,
                  Return, Resting
    <3>4. QED
      BY <3>1, <3>2, <3>3 DEF Next, Step
  <2> DEFINE w == WindowOf(now[p])
             count == CountOf(w)
  <2>3. ~(Estimated(prev[p], count + cost[p], now[p]) <= Limit * W)
    BY <2>1, <2>2 DEF ReadCurrent
  <2>4. now[p] \in Ticks /\ now[p] \in Nat /\ now[p] <= clock /\ clock <= now[p] + MaxAge
    BY DEF IInv, Types, Ticks, SampleFresh, Sampled
  <2>5. w \in Windows /\ w \in Nat /\ InUse(w)
    BY <2>4, FreshIsInUse, WindowBounds DEF IInv
  <2>6. count = ChargedTo(w)
    BY <2>5 DEF IInv, Counted, ChargedTo
  <2>7. prev[p] <= ChargedTo(w - 1)
    BY DEF DenialInv, ReadsAreCharged
  <2> HIDE DEF w, count
  <2>8. /\ ChargedTo(w) \in Nat /\ ChargedTo(w - 1) \in Nat /\ prev[p] \in Nat
        /\ cost[p] \in Nat /\ count + cost[p] \in Nat
        /\ ChargedTo(w) + cost[p] \in Nat
    <3>1. w \in Int /\ w - 1 \in Int
      BY <2>5
    <3>2. ChargedTo(w) \in Nat /\ ChargedTo(w - 1) \in Nat
      BY <3>1, ChargedToIsNat DEF IInv
    <3>3. QED
      BY <2>6, <3>2 DEF IInv, Types
  <2>9. Estimated(prev[p], count + cost[p], now[p])
          <= Estimated(ChargedTo(w - 1), ChargedTo(w) + cost[p], now[p])
    <3>1. count + cost[p] <= ChargedTo(w) + cost[p]
      BY <2>6, <2>8
    <3>2. QED
      BY <2>4, <2>7, <2>8, <3>1, EstimateIsMonotonic
  <2>10. /\ Estimated(prev[p], count + cost[p], now[p]) \in Nat
         /\ Estimated(ChargedTo(w - 1), ChargedTo(w) + cost[p], now[p]) \in Nat
         /\ Limit * W \in Nat
    BY <2>4, <2>8, EstimateIsNat, Products, ConstantsAssumption
  <2>11. Estimated(ChargedTo(w - 1), ChargedTo(w) + cost[p], now[p]) > Limit * W
    BY <2>3, <2>9, <2>10
  <2>12. QED
    BY <2>11 DEF w
<1>2. QED
  BY <1>1, InductiveInvariant, DenialInvariant, PTL DEF Spec, DenialsAreDeserved

=============================================================================
