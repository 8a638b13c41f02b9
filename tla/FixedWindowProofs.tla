------------------------- MODULE FixedWindowProofs -------------------------
(***************************************************************************)
(* Proofs about FixedWindow, for any number of callers, any limit, any     *)
(* window, any costs and waits, and samples up to a window's length old.   *)
(***************************************************************************)
EXTENDS FixedWindow, Sums, TLAPS

-----------------------------------------------------------------------------
(* The inductive invariant. *)

\* Window w has begun, or is about to, and a sample in use may fall into it.
Open(w) == clock < w * W + W + MaxAge

Counters == [count : Nat \ {0}, exp : Nat]

Types ==
  /\ clock \in Ticks
  /\ store \in [Windows -> Counters \union {NoEntry}]
  /\ pc \in [Procs -> {"get", "cas"} \union Resting]
  /\ cost \in [Procs -> Nat \ {0}]
  /\ deadline \in [Procs -> AllPatience]
  /\ now \in [Procs -> Ticks]
  /\ seen \in [Procs -> 0..Limit]
  /\ charged \in [Windows -> Nat]

\* The counter of a window outlives every caller that may still go for it.
Outlives ==
  \A w \in Windows : store[w] # NoEntry => w * W + TimeToLive <= store[w].exp

\* As long as its counter is in use, it counts what the window was charged.
Counted ==
  \A w \in Windows : Open(w) => charged[w] = CountOf(w)

\* A caller about to swap sampled the clock lately, and has room for its cost.
SwapCovered ==
  \A p \in Procs : pc[p] = "cas" =>
    /\ now[p] <= clock /\ clock <= now[p] + MaxAge
    /\ seen[p] + cost[p] <= Limit

IInv ==
  /\ Types
  /\ Outlives
  /\ Counted
  /\ SwapCovered
  /\ PerWindowBound

-----------------------------------------------------------------------------
(* Windows and samples. *)

LEMMA Products ==
  /\ \A a \in Nat : a * W \in Nat
  /\ \A a, b \in Nat : a * W < b * W + W => a <= b
<1>1. W \in Nat \ {0}
  BY ConstantsAssumption
<1>2. QED
  BY <1>1

LEMMA WindowBounds ==
  ASSUME NEW t \in Nat
  PROVE  /\ WindowOf(t) \in Nat
         /\ WindowOf(t) * W <= t
         /\ t < WindowOf(t) * W + W
<1>1. W \in Nat \ {0}
  BY ConstantsAssumption
<1>2. QED
  BY <1>1 DEF WindowOf

LEMMA WindowInRange ==
  ASSUME NEW t \in Ticks
  PROVE  WindowOf(t) \in Windows
<1>1. t \in Nat /\ MaxClock \in Nat /\ t <= MaxClock
  BY ConstantsAssumption DEF Ticks
<1>2. WindowOf(t) * W < WindowOf(MaxClock) * W + W
  BY <1>1, WindowBounds, Products, ConstantsAssumption
<1>3. QED
  BY <1>1, <1>2, WindowBounds, Products DEF Windows

(* A window that a recent sample falls into is open. *)
LEMMA RecentIsOpen ==
  ASSUME Types, NEW t \in Recent
  PROVE  /\ t \in Ticks /\ t <= clock /\ clock <= t + MaxAge
         /\ WindowOf(t) \in Windows
         /\ Open(WindowOf(t))
<1>1. /\ clock \in Nat /\ clock <= MaxClock
      /\ MaxAge \in Nat /\ MaxClock \in Nat /\ W \in Nat
  BY ConstantsAssumption DEF Types, Ticks
<1>2. t \in Nat /\ t <= clock /\ clock <= t + MaxAge
  BY <1>1 DEF Recent, AtLeast
<1>3. t \in Ticks
  BY <1>1, <1>2 DEF Ticks
<1>4. /\ WindowOf(t) * W \in Nat
      /\ t < WindowOf(t) * W + W
  BY <1>2, WindowBounds, Products
<1>5. Open(WindowOf(t))
  BY <1>1, <1>2, <1>4 DEF Open
<1>6. QED
  BY <1>2, <1>3, <1>5, WindowInRange

(* The counter of an open window has not expired, whenever it was written. *)
LEMMA OpenIsLive ==
  ASSUME NEW w \in Windows, NEW exp \in Nat, NEW c \in Nat,
         c < w * W + W + MaxAge, w * W + TimeToLive <= exp
  PROVE  c < exp
<1>1. w \in Nat
  BY WindowBounds, ConstantsAssumption DEF Windows
<1>2. w * W \in Nat /\ W \in Nat /\ MaxAge \in Nat /\ MaxAge <= W
  BY <1>1, Products, ConstantsAssumption
<1>3. QED
  BY <1>2 DEF TimeToLive

(***************************************************************************)
(* A charge: what the caller read is what its window was charged.          *)
(***************************************************************************)
LEMMA ChargeIsCounted ==
  ASSUME IInv, NEW p \in Procs, pc[p] = "cas",
         Matches(WindowOf(now[p]), seen[p]), Charge(p), clock' = clock
  PROVE  /\ store' \in [Windows -> Counters \union {NoEntry}]
         /\ charged' \in [Windows -> Nat]
         /\ Outlives' /\ Counted' /\ PerWindowBound'
<1> DEFINE w == WindowOf(now[p])
           entry == [count |-> seen[p] + cost[p], exp |-> clock + TimeToLive]
<1>1. /\ clock \in Nat /\ now[p] \in Ticks /\ now[p] \in Nat
      /\ seen[p] \in Nat /\ cost[p] \in Nat \ {0}
      /\ W \in Nat \ {0} /\ MaxAge \in Nat /\ Limit \in Nat
  BY ConstantsAssumption DEF IInv, Types, Ticks
<1>2. /\ now[p] <= clock /\ clock <= now[p] + MaxAge
      /\ seen[p] + cost[p] <= Limit
  BY DEF IInv, SwapCovered
<1>3. w \in Windows
  BY <1>1, WindowInRange
<1>4. w * W \in Nat /\ w * W <= now[p] /\ now[p] < w * W + W
  BY <1>1, WindowBounds, Products
<1>5. Open(w)
  BY <1>1, <1>2, <1>4 DEF Open
<1>6. charged[w] = CountOf(w)
  BY <1>3, <1>5 DEF IInv, Counted
<1>7. CountOf(w) = seen[p]
  BY DEF Matches, CountOf
<1>8. /\ store' = [store EXCEPT ![w] = entry]
      /\ charged' = [charged EXCEPT ![w] = @ + cost[p]]
  BY DEF Charge
<1>9. /\ store' \in [Windows -> Counters \union {NoEntry}]
      /\ charged' \in [Windows -> Nat]
  <2>1. entry \in Counters
    BY <1>1 DEF Counters, TimeToLive
  <2>2. charged[w] + cost[p] \in Nat
    BY <1>1, <1>3 DEF IInv, Types
  <2> HIDE DEF w, entry
  <2>3. QED
    BY <1>8, <2>1, <2>2 DEF IInv, Types
<1>10. /\ store'[w] = entry
       /\ charged'[w] = seen[p] + cost[p]
       /\ \A v \in Windows : v # w =>
            store'[v] = store[v] /\ charged'[v] = charged[v]
  BY <1>3, <1>6, <1>7, <1>8 DEF IInv, Types
<1>11. entry.exp = clock + TimeToLive /\ entry.count = seen[p] + cost[p]
  OBVIOUS
<1>12. Outlives'
  <2>1. w * W + TimeToLive <= entry.exp
    BY <1>1, <1>2, <1>4, <1>11 DEF TimeToLive
  <2> SUFFICES ASSUME NEW v \in Windows, store'[v] # NoEntry
               PROVE  v * W + TimeToLive <= store'[v].exp
    BY DEF Outlives, TimeToLive, Windows, WindowOf
  <2>2. CASE v = w
    BY <2>1, <2>2, <1>10
  <2>3. CASE v # w
    BY <2>3, <1>10 DEF IInv, Outlives
  <2>4. QED
    BY <2>2, <2>3
<1>13. Counted'
  <2> SUFFICES ASSUME NEW v \in Windows, Open(v)
               PROVE  charged'[v] = CountOf(v)'
    BY DEF Counted, Open, Windows, WindowOf
  <2>1. CASE v = w
    <3>1. entry \in Counters
      BY <1>1 DEF Counters, TimeToLive
    <3>2. entry # NoEntry
      BY <3>1, NullsAssumption DEF Counters
    <3>3. entry.exp > clock
      BY <1>1, <1>11 DEF TimeToLive
    <3>4. QED
      BY <2>1, <3>2, <3>3, <1>10, <1>11 DEF CountOf, Live
  <2>2. CASE v # w
    <3>1. CountOf(v)' = CountOf(v)
      BY <2>2, <1>10 DEF CountOf, Live
    <3>2. QED
      BY <2>2, <3>1, <1>10 DEF IInv, Counted
  <2>3. QED
    BY <2>1, <2>2
<1>14. PerWindowBound'
  <2> SUFFICES ASSUME NEW v \in Windows
               PROVE  charged'[v] <= Limit
    BY DEF PerWindowBound, Windows, WindowOf
  <2>1. QED
    BY <1>2, <1>10 DEF IInv, PerWindowBound
<1>15. QED
  BY <1>9, <1>12, <1>13, <1>14

-----------------------------------------------------------------------------

LEMMA InitEstablishes == Init => IInv
<1> SUFFICES ASSUME Init PROVE IInv
  OBVIOUS
<1>1. 0 \in Ticks /\ MaxClock \in Nat /\ Limit \in Nat \ {0}
  BY ConstantsAssumption DEF Ticks
<1>2. Types
  BY <1>1 DEF Init, Types, Resting, AllPatience
<1>3. Outlives /\ Counted /\ SwapCovered
  BY DEF Init, Outlives, Counted, SwapCovered, CountOf, Live
<1>4. PerWindowBound
  BY <1>1 DEF Init, PerWindowBound
<1>5. QED
  BY <1>2, <1>3, <1>4 DEF IInv

(* Steps that leave the counters and the clock alone. *)
LEMMA CountersUnchanged ==
  ASSUME IInv, UNCHANGED <<clock, store, charged>>
  PROVE  Outlives' /\ Counted' /\ PerWindowBound'
BY DEF IInv, Outlives, Counted, PerWindowBound, CountOf, Live, Open,
       TimeToLive, Windows, WindowOf

(* A call that returns is not about to swap. *)
LEMMA ReturnKeeps ==
  ASSUME IInv, NEW p \in Procs, NEW answer \in Resting, Return(p, answer),
         clock' = clock
  PROVE  /\ pc' \in [Procs -> {"get", "cas"} \union Resting]
         /\ cost' \in [Procs -> Nat \ {0}]
         /\ deadline' \in [Procs -> AllPatience]
         /\ now' \in [Procs -> Ticks]
         /\ seen' \in [Procs -> 0..Limit]
         /\ SwapCovered'
<1>1. /\ 0 \in Ticks /\ 0 \in 0..Limit /\ 1 \in Nat \ {0}
      /\ NotBlocking \in AllPatience
  BY ConstantsAssumption DEF Ticks, AllPatience
<1>2. answer # "cas"
  BY DEF Resting
<1>3. QED
  BY <1>1, <1>2 DEF Return, IInv, Types, SwapCovered

LEMMA TickPreserves == IInv /\ Tick => IInv'
<1> SUFFICES ASSUME IInv, Tick PROVE IInv'
  OBVIOUS
<1>1. /\ clock \in Nat /\ clock' = clock + 1 /\ clock' \in Ticks
      /\ MaxAge \in Nat
  BY ConstantsAssumption DEF Tick, IInv, Types, Ticks
<1>2. UNCHANGED <<store, pc, cost, deadline, now, seen, charged>>
  BY DEF Tick
<1>3. Types'
  BY <1>1, <1>2 DEF IInv, Types, Ticks, Windows, WindowOf, Counters, Resting,
                    AllPatience
<1>4. Outlives' /\ PerWindowBound'
  BY <1>2 DEF IInv, Outlives, PerWindowBound, TimeToLive, Windows, WindowOf
<1>5. SwapCovered'
  BY <1>1, <1>2 DEF Tick, IInv, SwapCovered, Types, Ticks
<1>6. Counted'
  <2> SUFFICES ASSUME NEW w \in Windows, Open(w)'
               PROVE  charged[w] = CountOf(w)'
    BY <1>2 DEF Counted, Open, Windows, WindowOf
  <2>1. w * W \in Nat /\ W \in Nat
    BY Products, WindowBounds, ConstantsAssumption DEF Windows
  <2>2. clock + 1 < w * W + W + MaxAge /\ Open(w)
    BY <1>1, <2>1 DEF Open
  <2>3. charged[w] = CountOf(w)
    BY <2>2 DEF IInv, Counted
  <2>4. CASE store[w] = NoEntry
    BY <2>3, <2>4, <1>2 DEF CountOf, Live
  <2>5. CASE store[w] # NoEntry
    <3>1. store[w].exp \in Nat
      BY <2>5 DEF IInv, Types, Counters
    <3>2. w * W + TimeToLive <= store[w].exp
      BY <2>5 DEF IInv, Outlives
    <3>3. clock + 1 < store[w].exp
      BY <1>1, <2>2, <3>1, <3>2, OpenIsLive
    <3>4. Live(w) /\ Live(w)'
      BY <1>1, <1>2, <2>5, <3>1, <3>3 DEF Live
    <3>5. QED
      BY <2>3, <3>4, <1>2 DEF CountOf
  <2>6. QED
    BY <2>4, <2>5
<1>7. QED
  BY <1>3, <1>4, <1>5, <1>6 DEF IInv

LEMMA StartPreserves == ASSUME NEW p \in Procs PROVE IInv /\ Start(p) => IInv'
<1> SUFFICES ASSUME IInv, Start(p) PROVE IInv'
  OBVIOUS
<1>1. UNCHANGED <<clock, store, charged, now, seen>>
  BY DEF Start
<1>2. PICK c \in Costs : cost' = [cost EXCEPT ![p] = c]
  BY DEF Start
<1>3. PICK b \in Patience :
        deadline' = [deadline EXCEPT ![p] = IF b \in Nat THEN clock + b ELSE b]
  BY DEF Start
<1>4. (IF b \in Nat THEN clock + b ELSE b) \in AllPatience
  BY ConstantsAssumption DEF AllPatience, IInv, Types, Ticks
<1>5. c \in Nat \ {0}
  BY ConstantsAssumption
<1>6. Types'
  BY <1>1, <1>2, <1>3, <1>4, <1>5
     DEF Start, IInv, Types, Ticks, Windows, WindowOf, Counters, Resting,
         AllPatience
<1>7. SwapCovered'
  BY <1>1, <1>2 DEF Start, IInv, Types, SwapCovered
<1>8. QED
  BY <1>1, <1>6, <1>7, CountersUnchanged DEF IInv

LEMMA ReadCountPreserves ==
  ASSUME NEW p \in Procs PROVE IInv /\ ReadCount(p) => IInv'
<1> SUFFICES ASSUME IInv, ReadCount(p) PROVE IInv'
  OBVIOUS
<1>1. UNCHANGED <<clock, store, charged>>
  BY DEF ReadCount
<1>2. CASE Return(p, "denied")
  BY <1>1, <1>2, ReturnKeeps, CountersUnchanged
     DEF IInv, Types, Resting, Ticks, Windows, WindowOf, Counters, AllPatience
<1>3. CASE UNCHANGED <<pc, now, seen, cost, deadline>>
  BY <1>1, <1>3, CountersUnchanged
     DEF IInv, Types, SwapCovered, Resting, Ticks, Windows, WindowOf, Counters,
         AllPatience
<1>4. CASE \E t \in Recent :
             /\ CountOf(WindowOf(t)) + cost[p] <= Limit
             /\ pc' = [pc EXCEPT ![p] = "cas"]
             /\ now' = [now EXCEPT ![p] = t]
             /\ seen' = [seen EXCEPT ![p] = CountOf(WindowOf(t))]
             /\ UNCHANGED <<cost, deadline>>
  <2>1. PICK t \in Recent :
             /\ CountOf(WindowOf(t)) + cost[p] <= Limit
             /\ pc' = [pc EXCEPT ![p] = "cas"]
             /\ now' = [now EXCEPT ![p] = t]
             /\ seen' = [seen EXCEPT ![p] = CountOf(WindowOf(t))]
             /\ UNCHANGED <<cost, deadline>>
    BY <1>4
  <2>2. /\ t \in Ticks /\ t <= clock /\ clock <= t + MaxAge
        /\ WindowOf(t) \in Windows
    BY RecentIsOpen DEF IInv
  <2>3. CountOf(WindowOf(t)) \in Nat
    BY <2>2 DEF CountOf, Live, IInv, Types, Counters
  <2>4. CountOf(WindowOf(t)) \in 0..Limit
    BY <2>1, <2>3, ConstantsAssumption DEF IInv, Types
  <2>5. Types'
    BY <1>1, <2>1, <2>2, <2>4
       DEF IInv, Types, Resting, Ticks, Windows, WindowOf, Counters, AllPatience
  <2>6. SwapCovered'
    BY <1>1, <2>1, <2>2 DEF IInv, Types, SwapCovered
  <2>7. QED
    BY <1>1, <2>5, <2>6, CountersUnchanged DEF IInv
<1>5. QED
  BY <1>2, <1>3, <1>4 DEF ReadCount, Fits

(* A swap or a failure: the counters stay, or are charged once. *)
LEMMA ChargePreserves ==
  ASSUME NEW p \in Procs, IInv, clock' = clock, Return(p, "idle"),
         \/ UNCHANGED <<store, charged>>
         \/ pc[p] = "cas" /\ Matches(WindowOf(now[p]), seen[p]) /\ Charge(p)
  PROVE  IInv'
<1>1. /\ store' \in [Windows -> Counters \union {NoEntry}]
      /\ charged' \in [Windows -> Nat]
      /\ Outlives' /\ Counted' /\ PerWindowBound'
  <2>1. CASE UNCHANGED <<store, charged>>
    BY <2>1, CountersUnchanged DEF IInv, Types
  <2>2. CASE pc[p] = "cas" /\ Matches(WindowOf(now[p]), seen[p]) /\ Charge(p)
    BY <2>2, ChargeIsCounted
  <2>3. QED
    BY <2>1, <2>2
<1>2. "idle" \in Resting
  BY DEF Resting
<1>3. QED
  BY <1>1, <1>2, ReturnKeeps
     DEF IInv, Types, Resting, Ticks, Windows, WindowOf, Counters, AllPatience

LEMMA SwapRefusedPreserves ==
  ASSUME NEW p \in Procs PROVE IInv /\ SwapRefused(p) => IInv'
<1> SUFFICES ASSUME IInv, SwapRefused(p) PROVE IInv'
  OBVIOUS
<1>1. UNCHANGED <<clock, store, charged>>
  BY DEF SwapRefused
<1>2. CASE Return(p, "denied")
  BY <1>1, <1>2, ReturnKeeps, CountersUnchanged
     DEF IInv, Types, Resting, Ticks, Windows, WindowOf, Counters, AllPatience
<1>3. CASE /\ pc' = [pc EXCEPT ![p] = "get"]
           /\ now' = [now EXCEPT ![p] = 0]
           /\ seen' = [seen EXCEPT ![p] = 0]
           /\ UNCHANGED <<cost, deadline>>
  <2>1. 0 \in Ticks /\ 0 \in 0..Limit
    BY ConstantsAssumption DEF Ticks
  <2>2. Types' /\ SwapCovered'
    BY <1>1, <1>3, <2>1
       DEF IInv, Types, SwapCovered, Resting, Ticks, Windows, WindowOf,
           Counters, AllPatience
  <2>3. QED
    BY <1>1, <2>2, CountersUnchanged DEF IInv
<1>4. QED
  BY <1>2, <1>3 DEF SwapRefused

LEMMA ResetPreserves == IInv /\ Reset => IInv'
<1> SUFFICES ASSUME IInv, Reset PROVE IInv'
  OBVIOUS
<1>1. UNCHANGED <<clock, pc, cost, deadline, now, seen>>
  BY DEF Reset
<1>2. PICK t \in Recent :
        /\ store' = [store EXCEPT ![WindowOf(t)] = NoEntry]
        /\ charged' = [charged EXCEPT ![WindowOf(t)] = 0]
  BY DEF Reset
<1>3. Types' /\ SwapCovered'
  BY <1>1, <1>2
     DEF IInv, Types, SwapCovered, Resting, Ticks, Windows, WindowOf, Counters,
         AllPatience
<1>4. \A w \in Windows :
        \/ store'[w] = store[w] /\ charged'[w] = charged[w]
        \/ store'[w] = NoEntry /\ charged'[w] = 0
  BY <1>2 DEF IInv, Types
<1>5. Outlives'
  BY <1>4 DEF IInv, Outlives, TimeToLive, Windows, WindowOf
<1>6. Counted'
  <2> SUFFICES ASSUME NEW w \in Windows, Open(w)
               PROVE  charged'[w] = CountOf(w)'
    BY <1>1 DEF Counted, Open, Windows, WindowOf
  <2>1. QED
    BY <1>1, <1>4 DEF IInv, Counted, CountOf, Live
<1>7. PerWindowBound'
  <2>1. Limit \in Nat
    BY ConstantsAssumption
  <2>2. QED
    BY <1>4, <2>1 DEF IInv, PerWindowBound, Windows, WindowOf
<1>8. QED
  BY <1>3, <1>5, <1>6, <1>7 DEF IInv

(* The invariant is inductive. *)
THEOREM InductiveInvariant == Spec => []IInv
<1>1. IInv /\ [Next]_vars => IInv'
  <2> SUFFICES ASSUME IInv, [Next]_vars PROVE IInv'
    OBVIOUS
  <2>1. ASSUME NEW p \in Procs, Swap(p) \/ StorageFails(p) PROVE IInv'
    BY <2>1, ChargePreserves DEF Swap, StorageFails
  <2>2. CASE UNCHANGED vars
    BY <2>2, CountersUnchanged
       DEF vars, IInv, Types, SwapCovered, Resting, Ticks, Windows, WindowOf,
           Counters, AllPatience
  <2>3. QED
    BY <2>1, <2>2, TickPreserves, ResetPreserves, StartPreserves,
       ReadCountPreserves, SwapRefusedPreserves DEF Next
<1>2. QED
  BY <1>1, InitEstablishes, PTL DEF Spec

-----------------------------------------------------------------------------

(***************************************************************************)
(* PerWindowBound: between two resets, no window is charged more than the  *)
(* limit, by however many callers with however old samples.                *)
(***************************************************************************)
THEOREM NoWindowIsOvercharged == Spec => []PerWindowBound
<1>1. IInv => PerWindowBound
  BY DEF IInv
<1>2. QED
  BY <1>1, InductiveInvariant, PTL

(* What a call that gives up has seen. *)
LEMMA GivingUp ==
  ASSUME IInv, [Next]_vars, NEW p \in Procs, pc[p] = "get", pc'[p] = "denied"
  PROVE  /\ UNCHANGED granted
         /\ ~MayWait(p)
         /\ \E t \in Recent : ~Fits(CountOf(WindowOf(t)), cost[p])
<1>1. pc \in [Procs -> {"get", "cas"} \union Resting]
  BY DEF IInv, Types
<1>2. ReadCount(p)
  <2>1. ASSUME NEW q \in Procs, q # p,
               \/ Start(q) \/ ReadCount(q) \/ Swap(q)
               \/ SwapRefused(q) \/ StorageFails(q)
        PROVE  FALSE
    BY <1>1, <2>1 DEF Start, ReadCount, Swap, SwapRefused, StorageFails, Return
  <2>2. ~(Tick \/ Reset \/ UNCHANGED vars)
    BY DEF Tick, Reset, vars
  <2>3. ~(Start(p) \/ Swap(p) \/ SwapRefused(p) \/ StorageFails(p))
    BY <1>1 DEF Start, Swap, SwapRefused, StorageFails, Return, Resting
  <2>4. QED
    BY <2>1, <2>2, <2>3 DEF Next
<1>3. QED
  BY <1>1, <1>2 DEF ReadCount

(***************************************************************************)
(* DenialsAreDeserved: what turns a caller away was really charged.        *)
(***************************************************************************)
THEOREM DenialsCountCharges == Spec => DenialsAreDeserved
<1> DEFINE Deserved ==
      \A p \in Procs : pc[p] = "get" /\ pc'[p] = "denied"
        => \E t \in Recent : charged[WindowOf(t)] + cost[p] > Limit
<1>1. IInv /\ [Next]_vars => Deserved
  <2> SUFFICES ASSUME IInv, [Next]_vars, NEW p \in Procs,
                      pc[p] = "get", pc'[p] = "denied"
               PROVE  \E t \in Recent : charged[WindowOf(t)] + cost[p] > Limit
    OBVIOUS
  <2>1. PICK t \in Recent : ~Fits(CountOf(WindowOf(t)), cost[p])
    BY GivingUp
  <2>2. /\ WindowOf(t) \in Windows
        /\ charged[WindowOf(t)] = CountOf(WindowOf(t))
    BY RecentIsOpen DEF IInv, Counted
  <2>3. charged[WindowOf(t)] \in Nat /\ cost[p] \in Nat
    BY <2>2 DEF IInv, Types
  <2>4. QED
    BY <2>1, <2>2, <2>3, ConstantsAssumption DEF Fits
<1>2. QED
  BY <1>1, InductiveInvariant, PTL DEF Spec, DenialsAreDeserved

-----------------------------------------------------------------------------
(***************************************************************************)
(* What is granted in any span of time was charged to the windows that     *)
(* samples of that time can fall into.                                     *)
(***************************************************************************)
Across(a, b) == WindowOf(AtLeast(0, a - MaxAge))..WindowOf(b)

SpansCovered ==
  \A a, b \in Ticks :
    a <= b => SumOver(granted, a..b) <= SumOver(charged, Across(a, b))

SpanInv == granted \in [Ticks -> Nat] /\ SpansCovered

LEMMA WindowsAreOrdered ==
  ASSUME NEW a \in Nat, NEW b \in Nat, a <= b
  PROVE  WindowOf(a) <= WindowOf(b)
<1>1. WindowOf(a) * W < WindowOf(b) * W + W
  BY WindowBounds, Products, ConstantsAssumption
<1>2. QED
  BY <1>1, WindowBounds, Products

LEMMA SpansAreFinite ==
  ASSUME NEW a \in Ticks, NEW b \in Ticks, a <= b
  PROVE  /\ a..b \subseteq Ticks /\ IsFiniteSet(a..b)
         /\ Across(a, b) \subseteq Windows /\ IsFiniteSet(Across(a, b))
         /\ Cardinality(Across(a, b))
              = WindowOf(b) - WindowOf(AtLeast(0, a - MaxAge)) + 1
<1> DEFINE first == AtLeast(0, a - MaxAge)
<1>1. /\ a \in Nat /\ b \in Nat /\ MaxClock \in Nat /\ b <= MaxClock
      /\ first \in Nat /\ first <= b
  BY ConstantsAssumption DEF Ticks, AtLeast
<1>2. /\ WindowOf(first) \in Nat /\ WindowOf(b) \in Nat
      /\ WindowOf(first) <= WindowOf(b)
  BY <1>1, WindowBounds, WindowsAreOrdered
<1>3. WindowOf(b) \in Windows
  BY WindowInRange
<1> HIDE DEF first
<1>4. /\ IsFiniteSet(WindowOf(first)..WindowOf(b))
      /\ Cardinality(WindowOf(first)..WindowOf(b)) = WindowOf(b) - WindowOf(first) + 1
  BY <1>2, FS_Interval
<1>5. IsFiniteSet(a..b)
  BY <1>1, FS_Interval
<1>6. WindowOf(first)..WindowOf(b) \subseteq Windows
  BY <1>2, <1>3, WindowBounds, ConstantsAssumption DEF Windows
<1>7. a..b \subseteq Ticks
  BY <1>1 DEF Ticks
<1>8. QED
  BY <1>4, <1>5, <1>6, <1>7 DEF Across, first

(* A charge falls into a window that its own time can reach. *)
LEMMA ChargeIsCovered ==
  ASSUME IInv, SpanInv, NEW p \in Procs, pc[p] = "cas", Charge(p)
  PROVE  SpanInv'
<1> DEFINE w == WindowOf(now[p])
<1>1. /\ clock \in Ticks /\ clock \in Nat /\ now[p] \in Ticks /\ now[p] \in Nat
      /\ cost[p] \in Nat \ {0} /\ cost[p] \in Int /\ MaxAge \in Nat
      /\ now[p] <= clock /\ clock <= now[p] + MaxAge
  BY ConstantsAssumption DEF IInv, Types, Ticks, SwapCovered
<1>2. w \in Windows
  BY <1>1, WindowInRange
<1>3. /\ charged \in [Windows -> Nat] /\ granted \in [Ticks -> Nat]
      /\ charged \in [Windows -> Int] /\ granted \in [Ticks -> Int]
  BY DEF IInv, Types, SpanInv
<1>4. /\ charged' = [charged EXCEPT ![w] = @ + cost[p]]
      /\ granted' = [granted EXCEPT ![clock] = @ + cost[p]]
  BY DEF Charge
<1>5. granted' \in [Ticks -> Nat]
  BY <1>1, <1>3, <1>4
<1> HIDE DEF w
<1>6. ASSUME NEW a \in Ticks, NEW b \in Ticks, a <= b
      PROVE  SumOver(granted', a..b) <= SumOver(charged', Across(a, b))
  <2>1. /\ a..b \subseteq Ticks /\ IsFiniteSet(a..b)
        /\ Across(a, b) \subseteq Windows /\ IsFiniteSet(Across(a, b))
    BY <1>6, SpansAreFinite
  <2>2. /\ clock \in a..b =>
             SumOver(granted', a..b) = SumOver(granted, a..b) + cost[p]
        /\ clock \notin a..b => SumOver(granted', a..b) = SumOver(granted, a..b)
    <3>1. /\ granted'[clock] = granted[clock] + cost[p]
          /\ \A t \in (a..b) \ {clock} : granted'[t] = granted[t]
      BY <1>1, <1>3, <1>4, <2>1
    <3>2. \A t \in a..b : granted[t] \in Int /\ granted'[t] \in Int
      BY <1>3, <1>5, <2>1
    <3>3. /\ clock \in a..b => SumOver(granted', a..b)
                 = SumOver(granted, a..b) + (granted'[clock] - granted[clock])
          /\ clock \notin a..b => SumOver(granted', a..b) = SumOver(granted, a..b)
      BY <2>1, <3>1, <3>2, SumChanged
    <3>4. QED
      BY <1>1, <1>3, <3>1, <3>3
  <2>3. /\ w \in Across(a, b) =>
             SumOver(charged', Across(a, b)) = SumOver(charged, Across(a, b)) + cost[p]
        /\ w \notin Across(a, b) =>
             SumOver(charged', Across(a, b)) = SumOver(charged, Across(a, b))
    <3>1. /\ charged'[w] = charged[w] + cost[p]
          /\ \A v \in Across(a, b) \ {w} : charged'[v] = charged[v]
      BY <1>2, <1>3, <1>4, <2>1
    <3>2. /\ \A v \in Across(a, b) : charged[v] \in Int /\ charged'[v] \in Int
          /\ charged[w] \in Int
      BY <1>1, <1>2, <1>3, <1>4, <2>1
    <3>3. /\ w \in Across(a, b) => SumOver(charged', Across(a, b))
                 = SumOver(charged, Across(a, b)) + (charged'[w] - charged[w])
          /\ w \notin Across(a, b) =>
               SumOver(charged', Across(a, b)) = SumOver(charged, Across(a, b))
      BY <2>1, <3>1, <3>2, SumChanged
    <3>4. QED
      BY <1>1, <3>1, <3>2, <3>3
  <2>4. SumOver(granted, a..b) \in Int /\ SumOver(charged, Across(a, b)) \in Int
    BY <1>3, <2>1, SumFirst
  <2>5. clock \in a..b => w \in Across(a, b)
    <3> SUFFICES ASSUME clock \in a..b PROVE w \in Across(a, b)
      OBVIOUS
    <3> DEFINE first == AtLeast(0, a - MaxAge)
    <3>1. /\ a \in Nat /\ b \in Nat /\ first \in Nat
          /\ first <= now[p] /\ now[p] <= b
      BY <1>1, ConstantsAssumption DEF Ticks, AtLeast
    <3>2. WindowOf(first) <= w /\ w <= WindowOf(b) /\ w \in Nat
          /\ WindowOf(first) \in Nat /\ WindowOf(b) \in Nat
      BY <1>1, <3>1, WindowsAreOrdered, WindowBounds DEF w
    <3>3. QED
      BY <3>2 DEF Across
  <2>6. SumOver(granted, a..b) <= SumOver(charged, Across(a, b))
    BY <1>6 DEF SpanInv, SpansCovered
  <2>7. QED
    BY <1>1, <2>2, <2>3, <2>4, <2>5, <2>6
<1>7. QED
  BY <1>5, <1>6 DEF SpanInv, SpansCovered, Across, WindowOf, AtLeast, Ticks

(* A reset forgets what was granted. *)
LEMMA ResetCovers == ASSUME IInv, SpanInv, Reset PROVE SpanInv'
<1>1. PICK t \in Recent : charged' = [charged EXCEPT ![WindowOf(t)] = 0]
  BY DEF Reset
<1>2. granted' = [s \in Ticks |-> 0]
  BY DEF Reset
<1>3. charged' \in [Windows -> Nat]
  BY <1>1 DEF IInv, Types
<1>4. ASSUME NEW a \in Ticks, NEW b \in Ticks, a <= b
      PROVE  SumOver(granted', a..b) <= SumOver(charged', Across(a, b))
  <2>1. /\ a..b \subseteq Ticks /\ IsFiniteSet(a..b)
        /\ Across(a, b) \subseteq Windows /\ IsFiniteSet(Across(a, b))
    BY <1>4, SpansAreFinite
  <2>2. SumOver(granted', a..b) = 0
    <3>1. \A x \in a..b : granted'[x] = 0
      BY <1>2, <2>1
    <3>2. QED
      BY <2>1, <3>1, NothingSums
  <2>3. SumOver(charged', Across(a, b)) \in Nat
    BY <1>3, <2>1, SumIsNat
  <2>4. QED
    BY <2>2, <2>3
<1>5. granted' \in [Ticks -> Nat]
  BY <1>2
<1>6. QED
  BY <1>4, <1>5 DEF SpanInv, SpansCovered, Across, WindowOf, AtLeast, Ticks

LEMMA SpanInvKept == ASSUME IInv, SpanInv, [Next]_vars PROVE SpanInv'
<1>1. CASE UNCHANGED <<charged, granted>>
  BY <1>1 DEF SpanInv, SpansCovered, Across, WindowOf, AtLeast, Ticks
<1>2. ASSUME NEW p \in Procs, Swap(p) \/ StorageFails(p) PROVE SpanInv'
  BY <1>1, <1>2, ChargeIsCovered DEF Swap, StorageFails
<1>3. ASSUME NEW p \in Procs, Start(p) \/ ReadCount(p) \/ SwapRefused(p)
      PROVE  SpanInv'
  BY <1>1, <1>3 DEF Start, ReadCount, SwapRefused
<1>4. CASE Tick \/ UNCHANGED vars
  BY <1>1, <1>4 DEF Tick, vars
<1>5. QED
  BY <1>2, <1>3, <1>4, ResetCovers DEF Next

LEMMA InitCovers == Init => SpanInv
<1> SUFFICES ASSUME Init PROVE SpanInv
  OBVIOUS
<1>1. /\ charged = [w \in Windows |-> 0] /\ granted = [t \in Ticks |-> 0]
  BY DEF Init
<1>2. ASSUME NEW a \in Ticks, NEW b \in Ticks, a <= b
      PROVE  SumOver(granted, a..b) <= SumOver(charged, Across(a, b))
  <2>1. /\ a..b \subseteq Ticks /\ IsFiniteSet(a..b)
        /\ Across(a, b) \subseteq Windows /\ IsFiniteSet(Across(a, b))
    BY <1>2, SpansAreFinite
  <2>2. SumOver(granted, a..b) = 0
    <3>1. \A x \in a..b : granted[x] = 0
      BY <1>1, <2>1
    <3>2. QED
      BY <2>1, <3>1, NothingSums
  <2>3. SumOver(charged, Across(a, b)) \in Nat
    BY <1>1, <2>1, SumIsNat
  <2>4. QED
    BY <2>2, <2>3
<1>3. QED
  BY <1>1, <1>2 DEF SpanInv, SpansCovered

(***************************************************************************)
(* SpanBound: what is granted in any stretch of one window's length is     *)
(* bounded by the windows its callers can reach.                           *)
(***************************************************************************)
THEOREM SpansAreBounded == Spec => []SpanBound
<1>1. IInv /\ SpanInv => SpanBound
  <2> SUFFICES ASSUME IInv, SpanInv, NEW t \in 0..(MaxClock - W + 1)
               PROVE  SumOver(granted, t..(t + W - 1)) <= Limit * Reached(t)
    BY Zenon DEF SpanBound, SumOver
  <2> DEFINE b == t + W - 1
  <2>1. t \in Ticks /\ b \in Ticks /\ t <= b /\ Limit \in Nat
    BY ConstantsAssumption DEF Ticks
  <2> HIDE DEF b
  <2>2. /\ t..b \subseteq Ticks /\ IsFiniteSet(t..b)
        /\ Across(t, b) \subseteq Windows /\ IsFiniteSet(Across(t, b))
        /\ Cardinality(Across(t, b))
             = WindowOf(b) - WindowOf(AtLeast(0, t - MaxAge)) + 1
    BY <2>1, SpansAreFinite
  <2>3. \A w \in Across(t, b) :
          charged[w] \in Int /\ 0 <= charged[w] /\ charged[w] <= Limit
    BY <2>2 DEF IInv, Types, PerWindowBound
  <2>4. SumOver(charged, Across(t, b)) <= Limit * Cardinality(Across(t, b))
    BY <2>1, <2>2, <2>3, SumBounded
  <2>5. SumOver(granted, t..b) <= SumOver(charged, Across(t, b))
    BY <2>1 DEF SpanInv, SpansCovered
  <2>6. SumOver(granted, t..b) \in Int /\ SumOver(charged, Across(t, b)) \in Int
    <3>1. \A s \in t..b : granted[s] \in Int
      BY <2>2 DEF SpanInv
    <3>2. QED
      BY <2>2, <2>3, <3>1, SumFirst
  <2>7. Cardinality(Across(t, b)) = Reached(t) /\ Cardinality(Across(t, b)) \in Nat
    BY <2>2, FS_CardinalityType DEF Reached, b
  <2>8. Limit * Cardinality(Across(t, b)) \in Int
    BY <2>1, <2>7
  <2>9. SumOver(granted, t..b) <= Limit * Reached(t)
    BY <2>4, <2>5, <2>6, <2>7, <2>8
  <2>10. QED
    BY <2>9 DEF b
<1>2. IInv /\ SpanInv /\ [Next]_vars => SpanInv'
  BY SpanInvKept
<1>3. QED
  BY <1>1, <1>2, InitCovers, InductiveInvariant, PTL DEF Spec

-----------------------------------------------------------------------------
(***************************************************************************)
(* Until the first reset, a window that was charged was charged at a time  *)
(* that is not before it begins.                                           *)
(***************************************************************************)
GrantedSince(w) == \E s \in Ticks : w * W <= s /\ granted[s] > 0

ChargesHaveATime ==
  resets = 0 => \A w \in Windows : charged[w] > 0 => GrantedSince(w)

TimeInv ==
  /\ granted \in [Ticks -> Nat]
  /\ resets \in Nat
  /\ ChargesHaveATime

LEMMA ChargeHasATime ==
  ASSUME IInv, TimeInv, NEW p \in Procs, pc[p] = "cas", Charge(p),
         resets' = resets
  PROVE  TimeInv'
<1> DEFINE w == WindowOf(now[p])
<1>1. /\ clock \in Ticks /\ clock \in Nat /\ now[p] \in Nat /\ now[p] <= clock
      /\ now[p] \in Ticks /\ cost[p] \in Nat \ {0}
  BY ConstantsAssumption DEF IInv, Types, Ticks, SwapCovered
<1>2. w \in Windows /\ w * W <= clock
  BY <1>1, WindowInRange, WindowBounds, Products
<1>3. /\ charged' = [charged EXCEPT ![w] = @ + cost[p]]
      /\ granted' = [granted EXCEPT ![clock] = @ + cost[p]]
  BY DEF Charge
<1> HIDE DEF w
<1>4. granted \in [Ticks -> Nat] /\ charged \in [Windows -> Nat]
  BY DEF TimeInv, IInv, Types
<1>5. granted' \in [Ticks -> Nat]
  BY <1>1, <1>3, <1>4
<1>6. /\ granted'[clock] > 0
      /\ \A s \in Ticks : granted[s] > 0 => granted'[s] > 0
  BY <1>1, <1>3, <1>4
<1>7. ASSUME resets = 0, NEW v \in Windows, charged'[v] > 0
      PROVE  \E s \in Ticks : v * W <= s /\ granted'[s] > 0
  <2>1. CASE v = w
    BY <2>1, <1>1, <1>2, <1>6
  <2>2. CASE v # w
    <3>1. charged[v] > 0
      BY <1>3, <1>4, <1>7, <2>2
    <3>2. PICK s \in Ticks : v * W <= s /\ granted[s] > 0
      BY <1>7, <3>1 DEF TimeInv, ChargesHaveATime, GrantedSince
    <3>3. QED
      BY <3>2, <1>6
  <2>3. QED
    BY <2>1, <2>2
<1>8. QED
  BY <1>5, <1>7
     DEF TimeInv, ChargesHaveATime, GrantedSince, Ticks, Windows, WindowOf

LEMMA TimeInvKept == ASSUME IInv, TimeInv, [Next]_vars PROVE TimeInv'
<1>1. CASE UNCHANGED <<charged, granted, resets>>
  BY <1>1 DEF TimeInv, ChargesHaveATime, GrantedSince, Ticks, Windows, WindowOf
<1>2. ASSUME NEW p \in Procs, Swap(p) \/ StorageFails(p) PROVE TimeInv'
  BY <1>1, <1>2, ChargeHasATime DEF Swap, StorageFails
<1>3. ASSUME NEW p \in Procs, Start(p) \/ ReadCount(p) \/ SwapRefused(p)
      PROVE  TimeInv'
  BY <1>1, <1>3 DEF Start, ReadCount, SwapRefused
<1>4. CASE Tick \/ UNCHANGED vars
  BY <1>1, <1>4 DEF Tick, vars
<1>5. CASE Reset
  <2>1. resets' = resets + 1 /\ resets \in Nat
    BY <1>5 DEF Reset, TimeInv
  <2>2. resets' # 0 /\ resets' \in Nat
    BY <2>1
  <2>3. granted' \in [Ticks -> Nat]
    BY <1>5 DEF Reset
  <2>4. QED
    BY <2>2, <2>3 DEF TimeInv, ChargesHaveATime, Ticks
<1>6. QED
  BY <1>2, <1>3, <1>4, <1>5 DEF Next

(***************************************************************************)
(* WaitingAWindowHelps: who waits for a window's length and the age of a   *)
(* sample is denied only what others took after it came.  The window that  *)
(* turns the call away has begun after that, and somebody charged it.      *)
(***************************************************************************)
THEOREM WaitingIsNeverInVain == Spec => WaitingAWindowHelps
<1> DEFINE Helped ==
      \A p \in Procs :
        /\ pc[p] = "get" /\ pc'[p] = "denied"
        /\ deadline[p] \in Nat /\ cost[p] <= Limit /\ resets = 0
        => \E t \in Ticks : t > deadline[p] - W - MaxAge /\ granted[t] > 0
<1>1. IInv /\ TimeInv /\ [Next]_vars => Helped
  <2> SUFFICES ASSUME IInv, TimeInv, [Next]_vars, NEW p \in Procs,
                      pc[p] = "get", pc'[p] = "denied",
                      deadline[p] \in Nat, cost[p] <= Limit, resets = 0
               PROVE  \E t \in Ticks :
                        t > deadline[p] - W - MaxAge /\ granted[t] > 0
    OBVIOUS
  <2>1. PICK t \in Recent : ~Fits(CountOf(WindowOf(t)), cost[p])
    BY GivingUp
  <2> DEFINE w == WindowOf(t)
  <2>2. /\ t \in Ticks /\ t \in Nat /\ clock <= t + MaxAge
        /\ w \in Windows /\ charged[w] = CountOf(w)
    BY RecentIsOpen DEF IInv, Counted, Ticks
  <2>3. /\ charged[w] \in Nat /\ cost[p] \in Nat /\ clock \in Nat
        /\ Limit \in Nat /\ W \in Nat /\ MaxAge \in Nat
    BY <2>2, ConstantsAssumption DEF IInv, Types, Ticks
  <2>4. charged[w] > 0
    BY <2>1, <2>2, <2>3 DEF Fits
  <2>5. PICK s \in Ticks : w * W <= s /\ granted[s] > 0
    BY <2>2, <2>4 DEF TimeInv, ChargesHaveATime, GrantedSince
  <2>6. w * W \in Nat /\ t < w * W + W
    BY <2>2, WindowBounds, Products
  <2>7. deadline[p] <= clock
    BY <2>3, GivingUp DEF MayWait
  <2>8. s \in Nat
    BY DEF Ticks
  <2> HIDE DEF w
  <2>9. s > deadline[p] - W - MaxAge
    BY <2>2, <2>3, <2>5, <2>6, <2>7, <2>8
  <2>10. QED
    BY <2>5, <2>9
<1>2. Init => TimeInv
  <2> SUFFICES ASSUME Init PROVE TimeInv
    OBVIOUS
  <2>1. granted \in [Ticks -> Nat] /\ resets \in Nat
    BY DEF Init
  <2>2. \A w \in Windows : charged[w] = 0
    BY DEF Init
  <2>3. QED
    BY <2>1, <2>2 DEF TimeInv, ChargesHaveATime
<1>3. IInv /\ TimeInv /\ [Next]_vars => TimeInv'
  BY TimeInvKept
<1>4. QED
  BY <1>1, <1>2, <1>3, InductiveInvariant, PTL DEF Spec, WaitingAWindowHelps

=============================================================================
