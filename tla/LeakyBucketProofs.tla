------------------------- MODULE LeakyBucketProofs -------------------------
(***************************************************************************)
(* The leaky bucket implements the token bucket, for every value of the    *)
(* constants: the state of the one, upended, takes the steps of the other. *)
(***************************************************************************)
EXTENDS LeakyBucket, TLAPS

Records == [water : Int, last : Int, exp : Int]

\* As much of the type invariant as upending an entry needs.
Shape ==
  /\ clock \in Int
  /\ bucket \in Records \union {NoEntry}
  /\ seen \in [Procs -> Records \union {NoEntry}]
  /\ now \in [Procs -> Int]
  /\ cost \in [Procs -> Int]

LEMMA ConstantTypes ==
  /\ Window \in Int
  /\ \A c \in Int : c * EI \in Int
  /\ TB!Window = Window
BY ConstantsAssumption DEF Window, TB!Window

LEMMA WaterType ==
  ASSUME NEW e \in Records \union {NoEntry}, NEW t \in Int
  PROVE  Water(e, t) \in Int
BY DEF Records, Water, AtLeast

LEMMA ShapeInvariant == Spec => []Shape
<1>1. Init => Shape
  BY DEF Init, Shape
<1>2. Shape /\ [Next]_vars => Shape'
  <2> SUFFICES ASSUME Shape, [Next]_vars PROVE Shape'
    OBVIOUS
  <2>1. CASE Tick \/ Reset \/ UNCHANGED vars
    BY <2>1 DEF Shape, Tick, Reset, vars
  <2>2. ASSUME NEW p \in Procs, Start(p) PROVE Shape'
    <3>1. Lag[p] \in Int
      BY ConstantsAssumption
    <3>2. now' \in [Procs -> Int]
      BY <2>2, <3>1 DEF Shape, Start
    <3>3. QED
      BY <2>2, <3>2, ConstantsAssumption DEF Shape, Start
  <2>3. ASSUME NEW p \in Procs, ReadState(p) PROVE Shape'
    BY <2>3 DEF Shape, ReadState, Return, Lookup
  <2>4. ASSUME NEW p \in Procs, Swap(p) \/ SwapRefused(p) \/ StorageFails(p)
        PROVE  Shape'
    <3>1. Poured(p) \in Records
      <4>1. Water(seen[p], now[p]) \in Int /\ cost[p] * EI \in Int
        BY WaterType, ConstantTypes DEF Shape
      <4>2. QED
        BY <4>1, ConstantTypes DEF Shape, Poured, Records
    <3>2. bucket' \in {bucket, Poured(p)}
      BY <2>4 DEF Swap, SwapRefused, StorageFails, Charge
    <3>3. UNCHANGED <<clock, now, cost>>
      BY <2>4 DEF Swap, SwapRefused, StorageFails
    <3>4. seen' \in [Procs -> Records \union {NoEntry}]
      BY <2>4 DEF Shape, Swap, SwapRefused, StorageFails, Return
    <3>5. QED
      BY <3>1, <3>2, <3>3, <3>4 DEF Shape
  <2>5. QED
    BY <2>1, <2>2, <2>3, <2>4 DEF Next
<1>3. QED
  BY <1>1, <1>2, PTL DEF Spec

-----------------------------------------------------------------------------
(* What upending an entry preserves. *)

LEMMA UpendedEntry ==
  ASSUME NEW e \in Records \union {NoEntry}
  PROVE  /\ Upended(e) = NoEntry <=> e = NoEntry
         /\ e # NoEntry => /\ Upended(e).tokens = Window - e.water
                           /\ Upended(e).last = e.last
                           /\ Upended(e).exp = e.exp
<1>1. CASE e = NoEntry
  BY <1>1 DEF Upended
<1>2. CASE e # NoEntry
  <2>1. Upended(e) \in [tokens : Int, last : Int, exp : Int]
    BY <1>2, ConstantTypes DEF Records, Upended
  <2>2. QED
    BY <1>2, <2>1, NoEntryAssumption DEF Upended
<1>3. QED
  BY <1>1, <1>2

LEMMA UpendedAvailable ==
  ASSUME NEW e \in Records \union {NoEntry}, NEW t \in Int
  PROVE  TB!Available(Upended(e), t) = Window - Water(e, t)
<1>1. CASE e = NoEntry
  BY <1>1, UpendedEntry, ConstantTypes DEF TB!Available, Water
<1>2. CASE e # NoEntry
  <2>1. TB!Available(Upended(e), t)
          = TB!AtMost(Window, (Window - e.water) + TB!AtLeast(0, t - e.last))
    BY <1>2, UpendedEntry, ConstantTypes DEF TB!Available, TB!Refilled
  <2>2. e.water \in Int /\ e.last \in Int
    BY <1>2 DEF Records
  <2>3. QED
    BY <1>2, <2>1, <2>2, ConstantTypes
       DEF TB!AtMost, TB!AtLeast, Water, AtLeast
<1>3. QED
  BY <1>1, <1>2

(* Both modules agree on what is stored, read and swapped. *)
LEMMA UpendedStorage ==
  ASSUME Shape
  PROVE  /\ TB!Live <=> Live
         /\ TB!Lookup = Upended(Lookup)
         /\ \A p \in Procs : TB!Matches(Upended(seen[p])) <=> Matches(seen[p])
<1>1. TB!Live <=> Live
  BY UpendedEntry DEF Shape, TB!Live, Live
<1>2. TB!Lookup = Upended(Lookup)
  BY <1>1 DEF TB!Lookup, Lookup, Upended
<1>3. ASSUME NEW p \in Procs
      PROVE  TB!Matches(Upended(seen[p])) <=> Matches(seen[p])
  <2>1. seen[p] \in Records \union {NoEntry} /\ bucket \in Records \union {NoEntry}
    BY DEF Shape
  <2>2. CASE seen[p] = NoEntry
    BY <1>1, <2>2, UpendedEntry DEF TB!Matches, Matches, Upended
  <2>3. CASE seen[p] # NoEntry /\ Live
    <3>1. /\ Upended(seen[p]) # NoEntry
          /\ Upended(seen[p]).tokens = Window - seen[p].water
          /\ Upended(seen[p]).last = seen[p].last
      BY <2>1, <2>3, UpendedEntry
    <3>2. /\ Upended(bucket).tokens = Window - bucket.water
          /\ Upended(bucket).last = bucket.last
      BY <2>1, <2>3, UpendedEntry DEF Live
    <3>3. bucket.water \in Int /\ seen[p].water \in Int
      BY <2>1, <2>3 DEF Live, Records
    <3>4. QED
      BY <1>1, <2>3, <3>1, <3>2, <3>3, ConstantTypes DEF TB!Matches, Matches
  <2>4. CASE seen[p] # NoEntry /\ ~Live
    BY <1>1, <2>1, <2>4, UpendedEntry DEF TB!Matches, Matches
  <2>5. QED
    BY <2>2, <2>3, <2>4
<1>4. QED
  BY <1>1, <1>2, <1>3

-----------------------------------------------------------------------------
(* The steps. *)

LEMMA OvertakeMaps == Overtake => TB!Overtake
BY DEF Overtake, TB!Overtake, AtMost, TB!AtMost

LEMMA ReturnMaps ==
  ASSUME Shape, NEW p \in Procs, NEW a, Return(p, a)
  PROVE  TB!Return(p, a)
BY DEF Shape, Return, TB!Return, Upended

LEMMA ChargeMaps ==
  ASSUME Shape, Shape', NEW p \in Procs, Charge(p)
  PROVE  TB!Charge(p)
<1>1. /\ Water(seen[p], now[p]) \in Int /\ cost[p] * EI \in Int
      /\ seen[p] \in Records \union {NoEntry} /\ now[p] \in Int
  BY WaterType, ConstantTypes DEF Shape
<1>2. Poured(p) \in Records
  BY <1>1, ConstantTypes DEF Shape, Poured, Records
<1>3. Poured(p) # NoEntry
  BY <1>2, NoEntryAssumption DEF Records
<1>4. Upended(Poured(p))
        = [tokens |-> Window - (Water(seen[p], now[p]) + cost[p] * EI),
           last |-> now[p], exp |-> clock + Window]
  BY <1>3 DEF Upended, Poured
<1>5. TB!Charged(p)
        = [tokens |-> (Window - Water(seen[p], now[p])) - cost[p] * EI,
           last |-> now[p], exp |-> clock + Window]
  BY <1>1, UpendedAvailable, ConstantTypes DEF TB!Charged
<1>6. Upended(Poured(p)) = TB!Charged(p)
  BY <1>1, <1>4, <1>5, ConstantTypes
<1>7. Upended(bucket)' = TB!Charged(p)
  BY <1>6 DEF Charge, Upended, Window
<1>8. QED
  BY <1>7, OvertakeMaps DEF Charge, TB!Charge

LEMMA TickMaps == Shape /\ Tick => TB!Tick
<1> SUFFICES ASSUME Shape, Tick PROVE TB!Tick
  OBVIOUS
<1>1. UNCHANGED <<Upended(bucket), [p \in Procs |-> Upended(seen[p])]>>
  BY DEF Tick, Upended, Window
<1>2. \A p \in Procs : TB!InFlight(p) <=> InFlight(p)
  BY DEF TB!InFlight, InFlight, TB!Resting, Resting, TB!Answers, Answers
<1>3. (TB!Live /\ Upended(bucket).exp = clock + 1) <=> (Live /\ bucket.exp = clock + 1)
  BY UpendedStorage, UpendedEntry DEF Live, Shape
<1>4. QED
  BY <1>1, <1>2, <1>3, OvertakeMaps DEF Tick, TB!Tick

LEMMA ResetMaps == Shape /\ Reset => TB!Reset
BY OvertakeMaps DEF Reset, TB!Reset, Upended, Window

LEMMA StartMaps == \A p \in Procs : Shape /\ Start(p) => TB!Start(p)
<1> SUFFICES ASSUME NEW p \in Procs, Shape, Start(p) PROVE TB!Start(p)
  OBVIOUS
<1>1. [q \in Procs |-> Upended(seen[q])]'
        = [[q \in Procs |-> Upended(seen[q])] EXCEPT ![p] = NoEntry]
  BY DEF Start, Shape, Upended
<1>2. Upended(bucket)' = Upended(bucket)
  BY DEF Start, Upended, Window
<1>3. QED
  BY <1>1, <1>2 DEF Start, TB!Start, Resting, TB!Resting, Answers, TB!Answers

LEMMA ReadStateMaps == \A p \in Procs : Shape /\ ReadState(p) => TB!ReadState(p)
<1> SUFFICES ASSUME NEW p \in Procs, Shape, ReadState(p) PROVE TB!ReadState(p)
  OBVIOUS
<1> DEFINE water == Water(Lookup, now[p])
           price == cost[p] * EI
           tbseen == [q \in Procs |-> Upended(seen[q])]
<1>1. /\ Lookup \in Records \union {NoEntry} /\ now[p] \in Int
      /\ water \in Int /\ price \in Int /\ Window \in Int
  BY WaterType, ConstantTypes DEF Shape, Lookup
<1>2. TB!Available(TB!Lookup, now[p]) = Window - water
  BY <1>1, UpendedStorage, UpendedAvailable
<1>3. Upended(bucket)' = Upended(bucket)
  BY DEF ReadState, Upended, Window
<1>4. CASE /\ water + price - Window <= 0
           /\ pc' = [pc EXCEPT ![p] = "cas"]
           /\ seen' = [seen EXCEPT ![p] = Lookup]
           /\ UNCHANGED <<attempt, wait, overtaken>>
  <2>1. tbseen' = [tbseen EXCEPT ![p] = TB!Lookup]
    BY <1>4, UpendedStorage DEF Shape, Upended, Window
  <2>2. Window - water >= price
    BY <1>1, <1>4
  <2>3. QED
    BY <1>2, <1>3, <1>4, <2>1, <2>2 DEF ReadState, TB!ReadState
<1>5. CASE /\ water + price - Window > 0
           /\ Return(p, "denied")
           /\ wait' = [wait EXCEPT ![p] = water + price - Window]
           /\ overtaken' = [overtaken EXCEPT ![p] = 0]
  <2>1. TB!Return(p, "denied")
    BY <1>5, ReturnMaps
  <2>2. Window - water < price /\ price - (Window - water) = water + price - Window
    BY <1>1, <1>5
  <2>3. QED
    BY <1>2, <1>3, <1>5, <2>1, <2>2 DEF ReadState, TB!ReadState, TB!WaitTime
<1>6. QED
  BY <1>4, <1>5 DEF ReadState

LEMMA SwapMaps ==
  \A p \in Procs : Shape /\ Shape' /\ Swap(p) => TB!Swap(p)
BY UpendedStorage, ChargeMaps, ReturnMaps DEF Swap, TB!Swap

LEMMA SwapRefusedMaps ==
  \A p \in Procs : Shape /\ SwapRefused(p) => TB!SwapRefused(p)
BY UpendedStorage, ReturnMaps
   DEF SwapRefused, TB!SwapRefused, Upended, Window

LEMMA StorageFailsMaps ==
  \A p \in Procs : Shape /\ Shape' /\ StorageFails(p) => TB!StorageFails(p)
BY UpendedStorage, ChargeMaps, ReturnMaps
   DEF StorageFails, TB!StorageFails, InFlight, TB!InFlight, Resting,
       TB!Resting, Answers, TB!Answers, Upended, Window

(***************************************************************************)
(* ImplementsTokenBucket: leaky and token bucket are the same limiter.     *)
(***************************************************************************)
THEOREM LeakyIsTokenUpended == Spec => ImplementsTokenBucket
<1>1. Init => TB!Init
  BY DEF Init, TB!Init, Upended
<1>2. Shape /\ Shape' /\ [Next]_vars => [TB!Next]_(TB!vars)
  <2>1. Shape /\ UNCHANGED vars => UNCHANGED TB!vars
    BY DEF vars, TB!vars, Upended, Window
  <2>2. Shape /\ Shape' /\ Next => TB!Next
    BY TickMaps, ResetMaps, StartMaps, ReadStateMaps, SwapMaps,
       SwapRefusedMaps, StorageFailsMaps DEF Next, TB!Next, TB!Step
  <2>3. QED
    BY <2>1, <2>2
<1>3. QED
  BY <1>1, <1>2, ShapeInvariant, PTL DEF Spec, ImplementsTokenBucket, TB!Spec

=============================================================================
