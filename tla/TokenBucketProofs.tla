------------------------- MODULE TokenBucketProofs -------------------------
(***************************************************************************)
(* Proofs about TokenBucket, for any number of callers, any limit, any     *)
(* window, any costs, any age of the clock samples.                        *)
(***************************************************************************)
EXTENDS TokenBucket, TLAPS

-----------------------------------------------------------------------------
(* The inductive invariant. *)

\* A stored bucket was written in the past and lives until it is full again.
EntryShape ==
  bucket # NoEntry =>
    bucket.last <= clock /\ bucket.last + Window <= bucket.exp

\* A clock sample in use is never ahead of the clock, nor older than MaxAge.
SampleFresh ==
  \A p \in Procs : InFlight(p) => now[p] <= clock /\ clock <= now[p] + MaxAge

\* A caller about to swap has read a state that affords its cost.
SwapCovered ==
  \A p \in Procs :
    pc[p] = "cas" => cost[p] * EI <= Available(seen[p], now[p])

\* Every token charged is still missing from the bucket, or was refilled.
Accounted ==
  /\ epoch <= clock
  /\ Live => granted * EI + bucket.tokens
               <= Window + (bucket.last - epoch) + MaxAge * grants
  /\ ~Live => granted * EI <= (clock - epoch) + MaxAge * grants

IInv ==
  /\ TypeOK
  /\ EntryShape
  /\ SampleFresh
  /\ SwapCovered
  /\ Accounted

-----------------------------------------------------------------------------
(* Arithmetic and the helpers of the model. *)

LEMMA Arithmetic ==
  /\ \A a, b \in Nat : a * b \in Nat
  /\ \A a, b, c \in Nat : (a + b) * c = a * c + b * c
  /\ \A a, b \in Nat : a * (b + 1) = a * b + a
  /\ \A a \in Nat : a * 0 = 0 /\ 0 * a = 0
OBVIOUS

LEMMA WindowNat == Window \in Nat
BY ConstantsAssumption, Arithmetic DEF Window

(* What Available returns for a stored bucket and for an absent one. *)
LEMMA AvailableBounds ==
  ASSUME NEW e \in EntryTypes, NEW t \in Int
  PROVE  /\ Available(e, t) \in 0..Window
         /\ Available(e, t) <= e.tokens + AtLeast(0, t - e.last)
         /\ Available(NoEntry, t) = Window
<1>1. e # NoEntry
  BY WindowNat, NoEntryAssumption DEF EntryTypes
<1>2. Available(e, t) = Refilled(e, t) /\ Available(NoEntry, t) = Window
  BY <1>1 DEF Available
<1>3. QED
  BY <1>2, WindowNat DEF EntryTypes, Refilled, AtMost, AtLeast

LEMMA EntryIsNotNoEntry == NoEntry \notin EntryTypes
BY WindowNat, NoEntryAssumption DEF EntryTypes

(***************************************************************************)
(* The one step that matters: a charge writes a well-formed bucket and     *)
(* keeps the account, whatever was read and however old the sample is.     *)
(***************************************************************************)
LEMMA ChargeKeepsAccount ==
  ASSUME IInv, NEW p \in Procs, pc[p] = "cas", Matches(seen[p]), Charge(p),
         UNCHANGED <<clock, epoch>>
  PROVE  /\ bucket' \in EntryTypes
         /\ granted' \in Nat /\ grants' \in Nat
         /\ EntryShape' /\ Accounted'
<1> DEFINE have == Available(seen[p], now[p])
           price == cost[p] * EI
<1>1. /\ clock \in Nat /\ epoch \in Nat /\ now[p] \in Int
      /\ cost[p] \in Nat /\ granted \in Nat /\ grants \in Nat
      /\ EI \in Nat /\ MaxAge \in Nat /\ Window \in Nat
  BY WindowNat, ConstantsAssumption DEF IInv, TypeOK
<1>2. /\ now[p] <= clock
      /\ clock <= now[p] + MaxAge
      /\ price <= have
  BY DEF IInv, SampleFresh, SwapCovered, InFlight, Resting, Answers
<1>3. seen[p] \in EntryTypes \union {NoEntry}
  BY DEF IInv, TypeOK
<1>4. price \in Nat /\ granted * EI \in Nat /\ MaxAge * grants \in Nat
  BY <1>1, Arithmetic
<1>5. have \in 0..Window
  BY <1>1, <1>3, AvailableBounds DEF Available
<1>6. bucket' = [tokens |-> have - price, last |-> now[p], exp |-> clock + Window]
  BY DEF Charge, Charged
<1>7. bucket' \in EntryTypes
  BY <1>1, <1>2, <1>4, <1>5, <1>6 DEF EntryTypes
<1>8. bucket' # NoEntry
  BY <1>7, EntryIsNotNoEntry
<1>9. EntryShape'
  BY <1>1, <1>2, <1>6, <1>8 DEF EntryShape, Window
<1>10. granted' = granted + cost[p] /\ grants' = grants + 1
  BY DEF Charge
<1>11. /\ granted' * EI = granted * EI + price
       /\ MaxAge * grants' = MaxAge * grants + MaxAge
  BY <1>1, <1>10, Arithmetic
<1>12. granted * EI + have
         <= Window + (now[p] - epoch) + MaxAge * grants + MaxAge
  <2>1. CASE seen[p] = NoEntry
    <3>1. ~Live /\ have = Window
      BY <2>1 DEF Matches, Available
    <3>2. granted * EI <= (clock - epoch) + MaxAge * grants
      BY <3>1 DEF IInv, Accounted
    <3>3. QED
      BY <1>1, <1>2, <1>4, <3>1, <3>2
  <2>2. CASE seen[p] # NoEntry
    <3>1. /\ Live
          /\ bucket.tokens = seen[p].tokens
          /\ bucket.last = seen[p].last
      BY <2>2 DEF Matches
    <3>2. seen[p] \in EntryTypes
      BY <1>3, <2>2
    <3>3. have <= bucket.tokens + AtLeast(0, now[p] - bucket.last)
      BY <1>1, <3>1, <3>2, AvailableBounds
    <3>4. granted * EI + bucket.tokens
            <= Window + (bucket.last - epoch) + MaxAge * grants
      BY <3>1 DEF IInv, Accounted
    <3>5. bucket.last <= clock
      BY <3>1 DEF IInv, EntryShape, Live
    <3>6. bucket.last \in Int /\ bucket.tokens \in Nat
      BY <3>1, <3>2, WindowNat DEF EntryTypes
    <3>7. QED
      BY <1>1, <1>2, <1>4, <1>5, <3>3, <3>4, <3>5, <3>6 DEF AtLeast
  <2>3. QED
    BY <2>1, <2>2
<1>13. Accounted'
  <2>1. epoch' <= clock' /\ clock' = clock /\ epoch' = epoch
    BY DEF IInv, Accounted
  <2>2. bucket'.tokens = have - price /\ bucket'.last = now[p]
        /\ bucket'.exp = clock + Window
    BY <1>6
  <2>3. Live' => granted' * EI + bucket'.tokens
                   <= Window + (bucket'.last - epoch') + MaxAge * grants'
    BY <1>1, <1>4, <1>5, <1>11, <1>12, <2>1, <2>2
  <2>4. Live'
    <3>1. Window > 0
      BY ConstantsAssumption DEF Window
    <3>2. QED
      BY <1>1, <1>8, <2>1, <2>2, <3>1 DEF Live
  <2>5. QED
    BY <2>1, <2>3, <2>4 DEF Accounted, Window
<1>14. QED
  BY <1>1, <1>7, <1>9, <1>10, <1>13

-----------------------------------------------------------------------------
(* The steps of a call. *)

LEMMA InitInv == Init => IInv
<1> SUFFICES ASSUME Init PROVE IInv
  OBVIOUS
<1>1. TypeOK
  BY ConstantsAssumption DEF Init, TypeOK, Resting, Answers
<1>2. EntryShape /\ ~Live
  BY DEF Init, EntryShape, Live
<1>3. SampleFresh /\ SwapCovered
  BY DEF Init, SampleFresh, SwapCovered, InFlight, Resting
<1>4. Accounted
  BY <1>2, Arithmetic, ConstantsAssumption DEF Init, Accounted
<1>5. QED
  BY <1>1, <1>2, <1>3, <1>4 DEF IInv

(* Overtake counts up to MaxRetries. *)
LEMMA OvertakeType ==
  ASSUME overtaken \in [Procs -> 0..MaxRetries], Overtake
  PROVE  overtaken' \in [Procs -> 0..MaxRetries]
BY ConstantsAssumption DEF Overtake, AtMost

(* Returning leaves nothing in flight that the invariant speaks of. *)
LEMMA ReturnKeepsFrames ==
  ASSUME TypeOK, SampleFresh, SwapCovered,
         NEW p \in Procs, NEW a \in Answers, Return(p, a),
         UNCHANGED <<clock, cost, now>>
  PROVE  /\ pc' \in [Procs -> {"get", "cas"} \union Resting]
         /\ seen' \in [Procs -> EntryTypes \union {NoEntry}]
         /\ attempt' \in [Procs -> 0..MaxRetries]
         /\ SampleFresh' /\ SwapCovered'
<1>1. /\ pc' \in [Procs -> {"get", "cas"} \union Resting]
      /\ seen' \in [Procs -> EntryTypes \union {NoEntry}]
      /\ attempt' \in [Procs -> 0..MaxRetries]
  BY ConstantsAssumption DEF Return, TypeOK, Resting
<1>2. \A q \in Procs : InFlight(q)' =>
        InFlight(q) /\ pc'[q] = pc[q] /\ seen'[q] = seen[q]
  BY DEF Return, TypeOK, InFlight, Resting
<1>3. SampleFresh'
  BY <1>2 DEF SampleFresh
<1>4. SwapCovered'
  <2> SUFFICES ASSUME NEW q \in Procs, pc'[q] = "cas"
               PROVE  cost'[q] * EI <= Available(seen'[q], now'[q])
    BY DEF SwapCovered, Available, Refilled
  <2>1. pc[q] = "cas" /\ seen'[q] = seen[q]
    BY <1>2 DEF InFlight, Resting, Answers
  <2>2. QED
    BY <2>1 DEF SwapCovered
<1>5. QED
  BY <1>1, <1>3, <1>4

LEMMA TickInv == IInv /\ Tick => IInv'
<1> SUFFICES ASSUME IInv, Tick PROVE IInv'
  OBVIOUS
<1>1. /\ clock \in Nat /\ clock' = clock + 1
      /\ bucket \in EntryTypes \union {NoEntry} /\ bucket' = bucket
      /\ UNCHANGED <<pc, cost, now, seen, granted, grants, epoch>>
  BY DEF Tick, IInv, TypeOK
<1>2. TypeOK'
  <2>1. overtaken' \in [Procs -> 0..MaxRetries]
    BY OvertakeType DEF Tick, IInv, TypeOK
  <2>2. QED
    BY <2>1 DEF Tick, IInv, TypeOK
<1>3. EntryShape'
  BY <1>1 DEF EntryTypes, EntryShape, IInv, Window
<1>4. SampleFresh'
  BY <1>1, ConstantsAssumption
     DEF Tick, SampleFresh, InFlight, IInv, TypeOK
<1>5. SwapCovered'
  <2> SUFFICES ASSUME NEW q \in Procs, pc'[q] = "cas"
               PROVE  cost'[q] * EI <= Available(seen'[q], now'[q])
    BY DEF SwapCovered, Available, Refilled
  <2>1. QED
    BY <1>1 DEF SwapCovered, IInv
<1>6. Accounted'
  <2>1. /\ epoch \in Nat /\ granted \in Nat /\ grants \in Nat
        /\ EI \in Nat /\ MaxAge \in Nat /\ Window \in Nat
    BY WindowNat, ConstantsAssumption DEF IInv, TypeOK
  <2>2. granted * EI \in Nat /\ MaxAge * grants \in Nat
    BY <2>1, Arithmetic
  <2>3. epoch' <= clock'
    BY <1>1, <2>1 DEF IInv, Accounted
  <2>4. CASE ~Live
    <3>1. ~Live'
      BY <1>1, <2>4 DEF Live, EntryTypes
    <3>2. granted * EI <= (clock - epoch) + MaxAge * grants
      BY <2>4 DEF IInv, Accounted
    <3>3. granted * EI <= (clock' - epoch) + MaxAge * grants
      BY <1>1, <2>1, <2>2, <3>2
    <3>4. QED
      BY <1>1, <2>3, <3>1, <3>3 DEF Accounted
  <2>5. CASE Live
    <3>1. granted * EI + bucket.tokens
            <= Window + (bucket.last - epoch) + MaxAge * grants
      BY <2>5 DEF IInv, Accounted
    <3>2. /\ bucket.tokens \in Nat /\ bucket.last \in Int /\ bucket.exp \in Nat
          /\ bucket.last + Window <= bucket.exp
      BY <1>1, <2>5, WindowNat DEF Live, EntryTypes, IInv, EntryShape
    <3>3. ~Live' => bucket.exp = clock + 1
      BY <1>1, <2>5, <3>2 DEF Live
    <3>4. ~Live' => granted * EI <= (clock' - epoch) + MaxAge * grants
      BY <1>1, <2>1, <2>2, <3>1, <3>2, <3>3
    <3>5. QED
      BY <1>1, <2>3, <3>1, <3>4 DEF Accounted, Window
  <2>6. QED
    BY <2>4, <2>5
<1>7. QED
  BY <1>2, <1>3, <1>4, <1>5, <1>6 DEF IInv

LEMMA ResetInv == IInv /\ Reset => IInv'
<1> SUFFICES ASSUME IInv, Reset PROVE IInv'
  OBVIOUS
<1>1. /\ bucket' = NoEntry /\ epoch' = clock /\ granted' = 0 /\ grants' = 0
      /\ UNCHANGED <<clock, pc, cost, now, seen>>
  BY DEF Reset
<1>2. TypeOK'
  <2>1. overtaken' \in [Procs -> 0..MaxRetries]
    BY OvertakeType DEF Reset, IInv, TypeOK
  <2>2. QED
    BY <2>1 DEF Reset, IInv, TypeOK
<1>3. EntryShape'
  BY <1>1 DEF EntryShape
<1>4. SampleFresh'
  BY <1>1 DEF SampleFresh, InFlight, IInv
<1>5. SwapCovered'
  <2> SUFFICES ASSUME NEW q \in Procs, pc'[q] = "cas"
               PROVE  cost'[q] * EI <= Available(seen'[q], now'[q])
    BY DEF SwapCovered, Available, Refilled
  <2>1. QED
    BY <1>1 DEF SwapCovered, IInv
<1>6. Accounted'
  BY <1>1, Arithmetic, ConstantsAssumption DEF Accounted, Live, IInv, TypeOK
<1>7. QED
  BY <1>2, <1>3, <1>4, <1>5, <1>6 DEF IInv

LEMMA StartInv == \A p \in Procs : IInv /\ Start(p) => IInv'
<1> SUFFICES ASSUME NEW p \in Procs, IInv, Start(p) PROVE IInv'
  OBVIOUS
<1>1. UNCHANGED <<clock, bucket, granted, grants, epoch>>
  BY DEF Start
<1>2. now' = [now EXCEPT ![p] = clock - Lag[p]] /\ Lag[p] \in 0..MaxAge
  BY ConstantsAssumption DEF Start
<1>3. pc' = [pc EXCEPT ![p] = "get"]
  BY DEF Start
<1>4. TypeOK'
  <2>1. now' \in [Procs -> Int]
    BY <1>2, ConstantsAssumption DEF IInv, TypeOK
  <2>2. cost' \in [Procs -> Nat \ {0}]
    BY ConstantsAssumption DEF Start, IInv, TypeOK
  <2>3. QED
    BY <1>1, <1>3, <2>1, <2>2, ConstantsAssumption DEF Start, IInv, TypeOK
<1>5. EntryShape' /\ Accounted'
  BY <1>1 DEF IInv, EntryShape, Accounted, Live, Window
<1>6. SampleFresh'
  BY <1>1, <1>2, <1>3, ConstantsAssumption
     DEF SampleFresh, InFlight, IInv, TypeOK
<1>7. SwapCovered'
  <2> SUFFICES ASSUME NEW q \in Procs, pc'[q] = "cas"
               PROVE  cost'[q] * EI <= Available(seen'[q], now'[q])
    BY DEF SwapCovered, Available, Refilled
  <2>1. q # p /\ pc[q] = "cas"
    BY <1>3 DEF IInv, TypeOK
  <2>2. cost'[q] = cost[q] /\ seen'[q] = seen[q] /\ now'[q] = now[q]
    BY <2>1 DEF Start, IInv, TypeOK
  <2>3. QED
    BY <2>1, <2>2 DEF SwapCovered, IInv
<1>8. QED
  BY <1>4, <1>5, <1>6, <1>7 DEF IInv

(* What a call reads is what is stored, or the absence of anything. *)
LEMMA LookupType == TypeOK => Lookup \in EntryTypes \union {NoEntry}
BY DEF TypeOK, Lookup

LEMMA ReadStateInv == \A p \in Procs : IInv /\ ReadState(p) => IInv'
<1> SUFFICES ASSUME NEW p \in Procs, IInv, ReadState(p) PROVE IInv'
  OBVIOUS
<1> DEFINE have == Available(Lookup, now[p])
           need == cost[p] * EI
<1>1. /\ UNCHANGED <<clock, bucket, cost, now, granted, grants, epoch, resets>>
      /\ TypeOK /\ SampleFresh /\ SwapCovered /\ pc[p] = "get"
  BY DEF ReadState, IInv
<1>2. EntryShape' /\ Accounted'
  BY <1>1 DEF IInv, EntryShape, Accounted, Live, Window
<1>3. have \in Int /\ need \in Int
  <2>1. now[p] \in Int /\ cost[p] \in Nat /\ EI \in Nat
    BY <1>1, ConstantsAssumption DEF TypeOK
  <2>2. have \in 0..Window
    <3>1. CASE Lookup \in EntryTypes
      BY <2>1, <3>1, AvailableBounds
    <3>2. CASE Lookup = NoEntry
      BY <3>2, WindowNat DEF Available
    <3>3. QED
      BY <1>1, <3>1, <3>2, LookupType
  <2>3. need \in Int
    BY <2>1, Arithmetic
  <2>4. QED
    BY <2>2, <2>3, WindowNat
<1>4. CASE /\ have >= need
           /\ pc' = [pc EXCEPT ![p] = "cas"]
           /\ seen' = [seen EXCEPT ![p] = Lookup]
           /\ UNCHANGED <<attempt, wait, overtaken>>
  <2>1. TypeOK'
    BY <1>1, <1>4, LookupType DEF TypeOK
  <2>2. SampleFresh'
    BY <1>1, <1>4 DEF SampleFresh, InFlight, Resting, Answers, TypeOK
  <2>3. SwapCovered'
    <3> SUFFICES ASSUME NEW q \in Procs, pc'[q] = "cas"
                 PROVE  cost'[q] * EI <= Available(seen'[q], now'[q])
      BY DEF SwapCovered, Available, Refilled
    <3>1. CASE q = p
      <4>1. seen'[q] = Lookup /\ cost'[q] = cost[p] /\ now'[q] = now[p]
        BY <1>1, <1>4, <3>1 DEF TypeOK
      <4>2. QED
        BY <4>1, <1>3, <1>4
    <3>2. CASE q # p
      BY <1>1, <1>4, <3>2 DEF SwapCovered, TypeOK
    <3>3. QED
      BY <3>1, <3>2
  <2>4. QED
    BY <1>2, <2>1, <2>2, <2>3 DEF IInv
<1>5. CASE /\ have < need
           /\ Return(p, "denied")
           /\ wait' = [wait EXCEPT ![p] = need - have]
           /\ overtaken' = [overtaken EXCEPT ![p] = 0]
  <2>1. /\ pc' \in [Procs -> {"get", "cas"} \union Resting]
        /\ seen' \in [Procs -> EntryTypes \union {NoEntry}]
        /\ attempt' \in [Procs -> 0..MaxRetries]
        /\ SampleFresh' /\ SwapCovered'
    BY <1>1, <1>5, ReturnKeepsFrames DEF Answers
  <2>2. need - have \in Nat
    BY <1>3, <1>5
  <2>3. TypeOK'
    <3>1. wait' \in [Procs -> Nat]
      BY <1>1, <1>5, <2>2 DEF TypeOK
    <3>2. overtaken' \in [Procs -> 0..MaxRetries]
      BY <1>1, <1>5, ConstantsAssumption DEF TypeOK
    <3>3. QED
      BY <1>1, <2>1, <3>1, <3>2 DEF TypeOK, EntryTypes, Window
  <2>4. QED
    BY <1>2, <2>1, <2>3 DEF IInv
<1>6. QED
  BY <1>4, <1>5 DEF ReadState, WaitTime

(* A call that charges and returns, with its answer or without. *)
LEMMA ChargeAndReturn ==
  ASSUME IInv, NEW p \in Procs, NEW a \in Answers,
         pc[p] = "cas", Matches(seen[p]), Charge(p), Return(p, a),
         UNCHANGED <<clock, cost, now, wait, epoch, resets>>
  PROVE  IInv'
<1>1. /\ bucket' \in EntryTypes
      /\ granted' \in Nat /\ grants' \in Nat
      /\ EntryShape' /\ Accounted'
  BY ChargeKeepsAccount
<1>2. /\ pc' \in [Procs -> {"get", "cas"} \union Resting]
      /\ seen' \in [Procs -> EntryTypes \union {NoEntry}]
      /\ attempt' \in [Procs -> 0..MaxRetries]
      /\ SampleFresh' /\ SwapCovered'
  BY ReturnKeepsFrames DEF IInv
<1>3. overtaken' \in [Procs -> 0..MaxRetries]
  BY OvertakeType DEF Charge, IInv, TypeOK
<1>4. TypeOK'
  BY <1>1, <1>2, <1>3 DEF TypeOK, IInv, EntryTypes, Window
<1>5. QED
  BY <1>1, <1>2, <1>4 DEF IInv

(* A call that returns without having changed the bucket. *)
LEMMA ReturnOnly ==
  ASSUME IInv, NEW p \in Procs, NEW a \in Answers, Return(p, a),
         UNCHANGED <<clock, bucket, cost, now, wait, granted, grants, epoch,
                     resets, overtaken>>
  PROVE  IInv'
<1>1. /\ pc' \in [Procs -> {"get", "cas"} \union Resting]
      /\ seen' \in [Procs -> EntryTypes \union {NoEntry}]
      /\ attempt' \in [Procs -> 0..MaxRetries]
      /\ SampleFresh' /\ SwapCovered'
  BY ReturnKeepsFrames DEF IInv
<1>2. TypeOK'
  BY <1>1 DEF TypeOK, IInv
<1>3. EntryShape' /\ Accounted'
  BY DEF IInv, EntryShape, Accounted, Live, Window
<1>4. QED
  BY <1>1, <1>2, <1>3 DEF IInv

LEMMA SwapInv == \A p \in Procs : IInv /\ Swap(p) => IInv'
BY ChargeAndReturn DEF Swap, Answers

LEMMA StorageFailsInv == \A p \in Procs : IInv /\ StorageFails(p) => IInv'
<1> SUFFICES ASSUME NEW p \in Procs, IInv, StorageFails(p) PROVE IInv'
  OBVIOUS
<1>1. "failed" \in Answers
  BY DEF Answers
<1>2. CASE UNCHANGED <<bucket, granted, grants, overtaken>>
  BY <1>1, <1>2, ReturnOnly DEF StorageFails
<1>3. CASE pc[p] = "cas" /\ Matches(seen[p]) /\ Charge(p)
  BY <1>1, <1>3, ChargeAndReturn DEF StorageFails
<1>4. QED
  BY <1>2, <1>3 DEF StorageFails

LEMMA SwapRefusedInv == \A p \in Procs : IInv /\ SwapRefused(p) => IInv'
<1> SUFFICES ASSUME NEW p \in Procs, IInv, SwapRefused(p) PROVE IInv'
  OBVIOUS
<1>1. UNCHANGED <<clock, bucket, cost, now, wait, granted, grants, epoch,
                  resets, overtaken>>
  BY DEF SwapRefused
<1>2. CASE /\ attempt[p] + 1 < MaxRetries
           /\ attempt' = [attempt EXCEPT ![p] = @ + 1]
           /\ pc' = [pc EXCEPT ![p] = "get"]
           /\ UNCHANGED seen
  <2>1. TypeOK'
    BY <1>1, <1>2, ConstantsAssumption DEF TypeOK, IInv
  <2>2. EntryShape' /\ Accounted'
    BY <1>1 DEF IInv, EntryShape, Accounted, Live, Window
  <2>3. SampleFresh'
    BY <1>1, <1>2 DEF SwapRefused, SampleFresh, InFlight, Resting, Answers,
                      IInv, TypeOK
  <2>4. SwapCovered'
    <3> SUFFICES ASSUME NEW q \in Procs, pc'[q] = "cas"
                 PROVE  cost'[q] * EI <= Available(seen'[q], now'[q])
      BY DEF SwapCovered, Available, Refilled
    <3>1. q # p /\ pc[q] = "cas"
      BY <1>2 DEF IInv, TypeOK
    <3>2. QED
      BY <1>1, <1>2, <3>1 DEF SwapCovered, IInv
  <2>5. QED
    BY <2>1, <2>2, <2>3, <2>4 DEF IInv
<1>3. CASE attempt[p] + 1 >= MaxRetries /\ Return(p, "exhausted")
  BY <1>1, <1>3, ReturnOnly DEF Answers
<1>4. QED
  BY <1>2, <1>3 DEF SwapRefused

-----------------------------------------------------------------------------
(* The theorems. *)

LEMMA StutterInv == IInv /\ UNCHANGED vars => IInv'
<1> SUFFICES ASSUME IInv, UNCHANGED vars PROVE IInv'
  OBVIOUS
<1>1. TypeOK' /\ EntryShape' /\ SampleFresh'
  BY DEF IInv, vars, TypeOK, EntryShape, SampleFresh, InFlight
<1>2. SwapCovered' /\ Accounted'
  BY DEF IInv, vars, SwapCovered, Accounted, Live, Available, Refilled
<1>3. QED
  BY <1>1, <1>2 DEF IInv

THEOREM InductiveInvariant == Spec => []IInv
<1>1. IInv /\ [Next]_vars => IInv'
  BY TickInv, ResetInv, StartInv, ReadStateInv, SwapInv, SwapRefusedInv,
     StorageFailsInv, StutterInv DEF Next, Step
<1>2. QED
  BY <1>1, InitInv, PTL DEF Spec

(***************************************************************************)
(* A stored bucket is never overdrawn and never above capacity.            *)
(***************************************************************************)
THEOREM TypeCorrect == Spec => []TypeOK
<1>1. IInv => TypeOK
  BY DEF IInv
<1>2. QED
  BY <1>1, InductiveInvariant, PTL

(***************************************************************************)
(* AdmissionBound: whatever the interleaving of reads, swaps, refused      *)
(* swaps, lost acknowledgements, expiries and resets, callers are never    *)
(* granted more than the burst, the refill, and MaxAge ticks per grant.    *)
(***************************************************************************)
THEOREM AdmissionIsBounded == Spec => []AdmissionBound
<1>1. IInv => AdmissionBound
  <2> SUFFICES ASSUME IInv PROVE AdmissionBound
    OBVIOUS
  <2>1. /\ clock \in Nat /\ epoch \in Nat /\ epoch <= clock
        /\ granted \in Nat /\ grants \in Nat
        /\ EI \in Nat /\ MaxAge \in Nat /\ Window \in Nat
    BY WindowNat, ConstantsAssumption DEF IInv, TypeOK, Accounted
  <2>2. granted * EI \in Nat /\ MaxAge * grants \in Nat
    BY <2>1, Arithmetic
  <2>3. CASE Live
    <3>1. granted * EI + bucket.tokens
            <= Window + (bucket.last - epoch) + MaxAge * grants
      BY <2>3 DEF IInv, Accounted
    <3>2. bucket.tokens \in Nat /\ bucket.last \in Int /\ bucket.last <= clock
      BY <2>3, WindowNat DEF Live, IInv, TypeOK, EntryTypes, EntryShape
    <3>3. QED
      BY <2>1, <2>2, <3>1, <3>2 DEF AdmissionBound
  <2>4. CASE ~Live
    BY <2>1, <2>2, <2>4 DEF IInv, Accounted, AdmissionBound
  <2>5. QED
    BY <2>3, <2>4
<1>2. QED
  BY <1>1, InductiveInvariant, PTL

(***************************************************************************)
(* With exact clocks the class keeps the promise of its docstring.         *)
(***************************************************************************)
THEOREM RateIsKeptWithExactClocks ==
  ASSUME MaxAge = 0
  PROVE  Spec => []PromisedRate
<1>1. IInv /\ AdmissionBound => PromisedRate
  <2> SUFFICES ASSUME IInv, AdmissionBound PROVE PromisedRate
    OBVIOUS
  <2>1. grants \in Nat /\ MaxAge * grants = 0
    BY Arithmetic DEF IInv, TypeOK
  <2>2. /\ clock \in Nat /\ epoch \in Nat /\ Window \in Nat
        /\ granted * EI \in Nat
    BY WindowNat, ConstantsAssumption, Arithmetic DEF IInv, TypeOK
  <2>3. QED
    BY <2>1, <2>2 DEF AdmissionBound, PromisedRate
<1>2. QED
  BY <1>1, InductiveInvariant, AdmissionIsBounded, PTL

(***************************************************************************)
(* A bucket whose time to live is over would be full by now.               *)
(***************************************************************************)
THEOREM ExpiryIsHarmless == Spec => []ExpiryForgetsNothing
<1>1. IInv => ExpiryForgetsNothing
  BY WindowNat DEF IInv, TypeOK, EntryTypes, EntryShape, Live,
                   ExpiryForgetsNothing, Refilled, AtMost, AtLeast
<1>2. QED
  BY <1>1, InductiveInvariant, PTL

-----------------------------------------------------------------------------
(* Failing closed, and the honesty of retry_after. *)

\* The failed attempts of p's call are paid for by changes of the entry; a
\* swap that is going to be refused is paid for, too.
ContentionOf(p) ==
  /\ pc[p] \in {"get", "cas"} =>
       attempt[p] < MaxRetries /\ attempt[p] <= overtaken[p]
  /\ pc[p] = "cas" /\ ~Matches(seen[p]) => attempt[p] + 1 <= overtaken[p]
  /\ pc[p] = "exhausted" => overtaken[p] >= MaxRetries

ContentionInv == \A p \in Procs : ContentionOf(p)

(* The entry stays as it was, as far as any call can see. *)
EntryKept == bucket' = bucket /\ (Live' <=> Live)

(***************************************************************************)
(* A call that a step leaves alone keeps both facts, if the entry is kept  *)
(* or its change is counted.                                               *)
(***************************************************************************)
LEMMA BystanderKeeps ==
  ASSUME TypeOK, NEW q \in Procs, ContentionOf(q), HonestOf(q),
         pc'[q] = pc[q], attempt'[q] = attempt[q], seen'[q] = seen[q],
         cost'[q] = cost[q], now'[q] = now[q], wait'[q] = wait[q],
         \/ EntryKept /\ overtaken'[q] = overtaken[q]
         \/ overtaken'[q] = AtMost(MaxRetries, overtaken[q] + 1)
  PROVE  ContentionOf(q)' /\ HonestOf(q)'
<1>1. /\ overtaken[q] \in 0..MaxRetries /\ attempt[q] \in 0..MaxRetries
      /\ MaxRetries \in Nat \ {0}
  BY ConstantsAssumption DEF TypeOK
<1>2. CASE EntryKept /\ overtaken'[q] = overtaken[q]
  <2>1. Matches(seen[q])' <=> Matches(seen[q])
    BY <1>2 DEF EntryKept, Matches
  <2>2. ContentionOf(q)'
    BY <1>2, <2>1 DEF ContentionOf
  <2>3. HonestOf(q)'
    BY <1>2 DEF EntryKept, HonestOf
  <2>4. QED
    BY <2>2, <2>3
<1>3. CASE overtaken'[q] = AtMost(MaxRetries, overtaken[q] + 1)
  <2>1. /\ overtaken'[q] >= overtaken[q] /\ overtaken'[q] # 0
        /\ overtaken'[q] \in Nat
        /\ attempt[q] < MaxRetries /\ attempt[q] <= overtaken[q]
             => attempt[q] + 1 <= overtaken'[q]
    BY <1>1, <1>3 DEF AtMost
  <2>2. ContentionOf(q)'
    BY <1>1, <2>1 DEF ContentionOf
  <2>3. HonestOf(q)'
    BY <2>1 DEF HonestOf
  <2>4. QED
    BY <2>2, <2>3
<1>4. QED
  BY <1>2, <1>3

(* A denial tells the wait that the refill needs. *)
LEMMA DenialIsHonest ==
  ASSUME IInv, NEW p \in Procs, ReadState(p),
         Available(Lookup, now[p]) < cost[p] * EI,
         wait'[p] = cost[p] * EI - Available(Lookup, now[p])
  PROVE  HonestOf(p)'
<1> DEFINE have == Available(Lookup, now[p])
           need == cost[p] * EI
           from == AtLeast(now[p], bucket.last)
<1>1. /\ bucket' = bucket /\ now' = now /\ cost' = cost
      /\ now[p] \in Int /\ cost[p] \in Nat /\ EI \in Nat /\ Limit \in Nat
      /\ Window \in Nat
  BY WindowNat, ConstantsAssumption DEF ReadState, IInv, TypeOK
<1> SUFFICES ASSUME cost[p] <= Limit PROVE HonestOf(p)'
  BY <1>1 DEF HonestOf
<1>2. need <= Window /\ need \in Nat
  <2>1. Limit * EI = (cost[p] + (Limit - cost[p])) * EI
    BY <1>1
  <2>2. Limit * EI = cost[p] * EI + (Limit - cost[p]) * EI
    BY <1>1, <2>1, Arithmetic
  <2>3. QED
    BY <1>1, <2>2, Arithmetic DEF Window
<1>3. Lookup = bucket /\ bucket \in EntryTypes /\ bucket # NoEntry
  <2>1. Lookup # NoEntry
    BY <1>1, <1>2 DEF Available
  <2>2. QED
    BY <2>1 DEF Lookup, Live, IInv, TypeOK
<1>4. bucket.tokens \in 0..Window /\ bucket.last \in Int
  BY <1>3 DEF EntryTypes
<1>5. from \in Int /\ from >= bucket.last
  BY <1>1, <1>4 DEF AtLeast
<1>6. have = bucket.tokens + (from - bucket.last) /\ have < need
  BY <1>1, <1>2, <1>3, <1>4 DEF Available, Refilled, AtMost, AtLeast
<1>7. \A t \in Int : t >= bucket.last =>
        Available(bucket, t) = AtMost(Window, bucket.tokens + (t - bucket.last))
  BY <1>3, <1>4 DEF Available, Refilled, AtLeast
<1>8. Available(bucket, from + (need - have)) = need
  <2> DEFINE t == from + (need - have)
  <2>1. t \in Int /\ t >= bucket.last /\ bucket.tokens + (t - bucket.last) = need
    BY <1>2, <1>4, <1>5, <1>6
  <2>2. Available(bucket, t) = AtMost(Window, bucket.tokens + (t - bucket.last))
    BY <1>7, <2>1
  <2>3. QED
    BY <1>1, <1>2, <2>1, <2>2 DEF AtMost
<1>9. Available(bucket, from + (need - have) - 1) = need - 1
  <2> DEFINE t == from + (need - have) - 1
  <2>1. /\ t \in Int /\ t >= bucket.last
        /\ bucket.tokens + (t - bucket.last) = need - 1
    BY <1>2, <1>4, <1>5, <1>6
  <2>2. Available(bucket, t) = AtMost(Window, bucket.tokens + (t - bucket.last))
    BY <1>7, <2>1
  <2>3. QED
    BY <1>1, <1>2, <2>1, <2>2 DEF AtMost
<1>10. \A t : t = from + wait'[p] =>
         Available(bucket, t) >= need /\ Available(bucket, t - 1) < need
  <2> SUFFICES ASSUME NEW t, t = from + wait'[p]
               PROVE  Available(bucket, t) >= need /\ Available(bucket, t - 1) < need
    OBVIOUS
  <2>1. have \in Int /\ need \in Int /\ from \in Int
    BY <1>1, <1>2, <1>4, <1>5, <1>6
  <2>2. t = from + (need - have)
    BY <2>1
  <2>3. Available(bucket, t) = need /\ Available(bucket, t - 1) = need - 1
    BY <1>8, <1>9, <2>1, <2>2
  <2>4. QED
    BY <1>2, <2>3
<1>11. RefillStart(bucket', now'[p]) + wait'[p] = from + wait'[p]
  BY <1>1, <1>3 DEF RefillStart
<1>12. LET t == RefillStart(bucket', now'[p]) + wait'[p]
       IN Available(bucket, t) >= need /\ Available(bucket, t - 1) < need
  BY <1>10, <1>11
<1>13. QED
  BY <1>1, <1>12 DEF HonestOf

CallInv == \A p \in Procs : ContentionOf(p) /\ HonestOf(p)

(***************************************************************************)
(* A step of p that leaves the other calls alone keeps their facts; only   *)
(* p's own remain to be shown.                                             *)
(***************************************************************************)
LEMMA OnlyOwnFacts ==
  ASSUME TypeOK, CallInv, NEW p \in Procs,
         \A q \in Procs \ {p} :
           /\ pc'[q] = pc[q] /\ attempt'[q] = attempt[q] /\ seen'[q] = seen[q]
           /\ cost'[q] = cost[q] /\ now'[q] = now[q] /\ wait'[q] = wait[q]
           /\ \/ EntryKept /\ overtaken'[q] = overtaken[q]
              \/ overtaken'[q] = AtMost(MaxRetries, overtaken[q] + 1),
         ContentionOf(p)', HonestOf(p)'
  PROVE  CallInv'
<1> SUFFICES ASSUME NEW q \in Procs PROVE ContentionOf(q)' /\ HonestOf(q)'
  BY DEF CallInv
<1>1. CASE q = p
  BY <1>1
<1>2. CASE q # p
  BY <1>2, BystanderKeeps DEF CallInv
<1>3. QED
  BY <1>1, <1>2

LEMMA EnvironmentKeepsCalls ==
  ASSUME IInv, CallInv, Tick \/ Reset \/ UNCHANGED vars
  PROVE  CallInv'
<1> SUFFICES ASSUME NEW q \in Procs PROVE ContentionOf(q)' /\ HonestOf(q)'
  BY DEF CallInv
<1>1. UNCHANGED <<pc, attempt, seen, cost, now, wait>>
  BY DEF Tick, Reset, vars
<1>2. \/ EntryKept /\ overtaken'[q] = overtaken[q]
      \/ overtaken'[q] = AtMost(MaxRetries, overtaken[q] + 1)
  <2>1. CASE Tick /\ Live /\ bucket.exp = clock + 1
    BY <2>1 DEF Tick, Overtake
  <2>2. CASE Tick /\ ~(Live /\ bucket.exp = clock + 1)
    BY <2>2 DEF Tick, EntryKept, Live, IInv, TypeOK, EntryTypes
  <2>3. CASE Reset
    BY <2>3 DEF Reset, Overtake
  <2>4. CASE UNCHANGED vars
    BY <2>4 DEF vars, EntryKept, Live
  <2>5. QED
    BY <2>1, <2>2, <2>3, <2>4
<1>3. QED
  BY <1>1, <1>2, BystanderKeeps DEF CallInv, IInv

LEMMA ReadStateKeepsCalls ==
  ASSUME IInv, CallInv, NEW p \in Procs, ReadState(p)
  PROVE  CallInv'
<1> DEFINE have == Available(Lookup, now[p])
           need == cost[p] * EI
<1>1. TypeOK /\ ContentionOf(p) /\ pc[p] = "get"
  BY DEF IInv, CallInv, ReadState
<1>2. /\ EntryKept
      /\ UNCHANGED <<clock, bucket, cost, now>>
  BY DEF ReadState, EntryKept, Live
<1>3. CASE /\ have >= need
           /\ pc' = [pc EXCEPT ![p] = "cas"]
           /\ seen' = [seen EXCEPT ![p] = Lookup]
           /\ UNCHANGED <<attempt, wait, overtaken>>
  <2>1. Matches(Lookup)'
    BY <1>2, <1>1 DEF Matches, Lookup, Live, EntryKept
  <2>2. /\ pc'[p] = "cas" /\ Matches(seen[p])'
        /\ attempt'[p] < MaxRetries /\ attempt'[p] <= overtaken'[p]
    BY <1>1, <1>3, <2>1, <1>2 DEF TypeOK, ContentionOf, Lookup, Live, Matches
  <2>3. ContentionOf(p)' /\ HonestOf(p)'
    BY <2>2 DEF ContentionOf, HonestOf
  <2>4. QED
    BY <1>1, <1>2, <1>3, <2>3, OnlyOwnFacts DEF TypeOK
<1>4. CASE /\ have < need
           /\ Return(p, "denied")
           /\ wait' = [wait EXCEPT ![p] = need - have]
           /\ overtaken' = [overtaken EXCEPT ![p] = 0]
  <2>1. HonestOf(p)'
    BY <1>1, <1>4, DenialIsHonest DEF TypeOK
  <2>2. ContentionOf(p)'
    BY <1>1, <1>4 DEF TypeOK, Return, ContentionOf
  <2>3. QED
    BY <1>1, <1>2, <1>4, <2>1, <2>2, OnlyOwnFacts DEF TypeOK, Return
<1>5. QED
  BY <1>3, <1>4 DEF ReadState, WaitTime

(* A call that returns with any other answer than a denial. *)
LEMMA ReturnKeepsCalls ==
  ASSUME IInv, CallInv, NEW p \in Procs, NEW a \in Answers, Return(p, a),
         UNCHANGED <<cost, now, wait>>, a # "denied",
         a = "exhausted" => overtaken'[p] >= MaxRetries,
         (EntryKept /\ UNCHANGED overtaken) \/ Overtake
  PROVE  CallInv'
<1>1. TypeOK
  BY DEF IInv
<1>2. pc'[p] = a
  BY <1>1 DEF Return, TypeOK
<1>3. ContentionOf(p)' /\ HonestOf(p)'
  BY <1>2 DEF ContentionOf, HonestOf, Answers
<1>4. QED
  BY <1>1, <1>3, OnlyOwnFacts DEF TypeOK, Return, Overtake

LEMMA StartKeepsCalls ==
  ASSUME IInv, CallInv, NEW p \in Procs, Start(p)
  PROVE  CallInv'
<1>1. TypeOK /\ EntryKept
  BY DEF IInv, Start, EntryKept, Live
<1>2. pc'[p] = "get" /\ attempt'[p] = 0 /\ overtaken'[p] = 0
  BY <1>1 DEF Start, TypeOK
<1>3. ContentionOf(p)' /\ HonestOf(p)'
  BY <1>2, ConstantsAssumption DEF ContentionOf, HonestOf
<1>4. QED
  BY <1>1, <1>3, OnlyOwnFacts DEF Start, TypeOK

LEMMA SwapKeepsCalls ==
  ASSUME IInv, CallInv, NEW p \in Procs, Swap(p) \/ StorageFails(p)
  PROVE  CallInv'
<1>1. CASE Swap(p)
  BY <1>1, ReturnKeepsCalls DEF Swap, Charge, Answers
<1>2. CASE StorageFails(p)
  <2>1. (EntryKept /\ UNCHANGED overtaken) \/ Overtake
    BY <1>2 DEF StorageFails, Charge, EntryKept, Live
  <2>2. QED
    BY <1>2, <2>1, ReturnKeepsCalls DEF StorageFails, Answers
<1>3. QED
  BY <1>1, <1>2

LEMMA SwapRefusedKeepsCalls ==
  ASSUME IInv, CallInv, NEW p \in Procs, SwapRefused(p)
  PROVE  CallInv'
<1>1. TypeOK /\ ContentionOf(p) /\ EntryKept
  BY DEF IInv, CallInv, SwapRefused, EntryKept, Live
<1>2. /\ attempt[p] \in Nat /\ overtaken[p] \in Nat /\ MaxRetries \in Nat
      /\ attempt[p] + 1 <= overtaken[p]
  BY <1>1, ConstantsAssumption DEF SwapRefused, ContentionOf, TypeOK
<1>3. CASE /\ attempt[p] + 1 < MaxRetries
           /\ attempt' = [attempt EXCEPT ![p] = @ + 1]
           /\ pc' = [pc EXCEPT ![p] = "get"]
           /\ UNCHANGED seen
  <2>1. ContentionOf(p)' /\ HonestOf(p)'
    BY <1>1, <1>2, <1>3 DEF SwapRefused, ContentionOf, HonestOf, TypeOK
  <2>2. QED
    BY <1>1, <1>3, <2>1, OnlyOwnFacts DEF SwapRefused, TypeOK
<1>4. CASE attempt[p] + 1 >= MaxRetries /\ Return(p, "exhausted")
  <2>1. overtaken'[p] >= MaxRetries
    BY <1>2, <1>4 DEF SwapRefused
  <2>2. QED
    BY <1>1, <1>4, <2>1, ReturnKeepsCalls DEF SwapRefused, Answers
<1>5. QED
  BY <1>3, <1>4 DEF SwapRefused

LEMMA CallsInvariant == Spec => []CallInv
<1>1. Init => CallInv
  BY DEF Init, CallInv, ContentionOf, HonestOf
<1>2. IInv /\ CallInv /\ [Next]_vars => CallInv'
  BY EnvironmentKeepsCalls, StartKeepsCalls, ReadStateKeepsCalls,
     SwapKeepsCalls, SwapRefusedKeepsCalls DEF Next, Step
<1>3. QED
  BY <1>1, <1>2, InductiveInvariant, PTL DEF Spec

(***************************************************************************)
(* A call fails closed after max_retries only when the entry has changed   *)
(* under it that many times.                                               *)
(***************************************************************************)
THEOREM FailsClosedOnlyUnderContention == Spec => []ExhaustedOnlyUnderContention
<1>1. CallInv => ExhaustedOnlyUnderContention
  BY DEF CallInv, ContentionOf, ExhaustedOnlyUnderContention
<1>2. QED
  BY <1>1, CallsInvariant, PTL

(***************************************************************************)
(* A denied caller who waits retry_after finds enough tokens, and would    *)
(* not have found them a tick earlier, unless the bucket changed.          *)
(***************************************************************************)
THEOREM DenialsAreHonest == Spec => []RetryAfterHonest
<1>1. CallInv => RetryAfterHonest
  BY DEF CallInv, RetryAfterHonest
<1>2. QED
  BY <1>1, CallsInvariant, PTL

-----------------------------------------------------------------------------
(* The protocol implements one atomic debt counter. *)

(***************************************************************************)
(* A charge adds its price to the debt, less what was refilled between the *)
(* sample and now: that is refilled again later, from the sample on.       *)
(***************************************************************************)
LEMMA DebtAfterCharge ==
  ASSUME IInv, NEW p \in Procs, pc[p] = "cas", Matches(seen[p]), Charge(p),
         UNCHANGED clock
  PROVE  /\ Debt + cost[p] * EI <= Window
         /\ Debt' \in Contract!AtLeast(0, Debt + cost[p] * EI - MaxAge)
                        ..(Debt + cost[p] * EI)
<1> DEFINE have == Available(seen[p], now[p])
           price == cost[p] * EI
           t == now[p]
<1>1. /\ clock \in Nat /\ cost[p] \in Nat /\ EI \in Nat /\ Window \in Nat
      /\ MaxAge \in Nat
      /\ bucket \in EntryTypes \union {NoEntry}
      /\ seen[p] \in EntryTypes \union {NoEntry}
  BY WindowNat, ConstantsAssumption DEF IInv, TypeOK
<1>2. t \in Int /\ t <= clock /\ clock <= t + MaxAge
  BY DEF IInv, TypeOK, SampleFresh, InFlight, Resting, Answers
<1>3. price \in Nat /\ price <= have
  BY <1>1, Arithmetic DEF IInv, SwapCovered
<1>4. have \in 0..Window
  BY <1>1, <1>2, AvailableBounds DEF Available
<1>5. bucket' = [tokens |-> have - price, last |-> t, exp |-> clock + Window]
  BY DEF Charge, Charged
<1>6. bucket' # NoEntry /\ Live'
  <2>1. bucket' \in EntryTypes
    BY <1>1, <1>2, <1>3, <1>4, <1>5 DEF EntryTypes
  <2>2. Window > 0
    BY ConstantsAssumption DEF Window
  <2>3. QED
    BY <1>1, <1>5, <2>1, <2>2, EntryIsNotNoEntry DEF Live
<1>7. Debt' = AtLeast(0, Window - (have - price) - (clock - t))
  <2>1. /\ bucket'.tokens = have - price /\ bucket'.last = t /\ clock' = clock
        /\ Window' = Window
    BY <1>5 DEF Window
  <2>2. Debt' = Window - AtMost(Window, (have - price) + AtLeast(0, clock - t))
    BY <1>6, <2>1 DEF Debt, Refilled, AtMost, AtLeast
  <2>3. QED
    BY <1>1, <1>2, <1>3, <1>4, <2>2 DEF AtMost, AtLeast
\* What the bucket held at the sampled time is at most the age of the
\* sample away from what it holds now.
<1>8. Debt \in Nat /\ Debt <= Window - have /\ Window - have <= Debt + (clock - t)
  <2>1. CASE seen[p] = NoEntry
    BY <1>1, <1>2, <2>1 DEF Matches, Debt, Available
  <2>2. CASE seen[p] # NoEntry
    <3>1. Live /\ bucket.tokens = seen[p].tokens /\ bucket.last = seen[p].last
      BY <2>2 DEF Matches
    <3>2. bucket.tokens \in 0..Window /\ bucket.last \in Int
      BY <1>1, <2>2, <3>1 DEF EntryTypes
    <3>3. Debt = Window - AtMost(Window, bucket.tokens + AtLeast(0, clock - bucket.last))
      BY <3>1 DEF Debt, Refilled
    <3>4. have = AtMost(Window, bucket.tokens + AtLeast(0, t - bucket.last))
      BY <2>2, <3>1 DEF Available, Refilled
    <3>5. QED
      BY <1>1, <1>2, <3>2, <3>3, <3>4 DEF AtMost, AtLeast
  <2>3. QED
    BY <2>1, <2>2
<1>9. Debt' \in Nat /\ Debt' <= Debt + price /\ Debt + price - MaxAge <= Debt'
  BY <1>1, <1>2, <1>3, <1>4, <1>7, <1>8 DEF AtLeast
<1>10. QED
  BY <1>1, <1>3, <1>4, <1>8, <1>9 DEF Contract!AtLeast

LEMMA DebtAfterTick ==
  ASSUME IInv, Tick
  PROVE  Debt' = IF Debt = 0 THEN 0 ELSE Debt - 1
<1>1. /\ clock \in Nat /\ Window \in Nat /\ clock' = clock + 1
      /\ bucket \in EntryTypes \union {NoEntry} /\ bucket' = bucket
  BY WindowNat DEF IInv, TypeOK, Tick
<1>2. CASE ~Live
  BY <1>1, <1>2 DEF Live, EntryTypes, Debt
<1>3. CASE Live
  <2>1. /\ bucket # NoEntry
        /\ bucket.tokens \in 0..Window /\ bucket.last \in Int
        /\ bucket.exp \in Nat /\ bucket.exp > clock
        /\ bucket.last <= clock /\ bucket.last + Window <= bucket.exp
    BY <1>1, <1>3 DEF Live, EntryTypes, IInv, EntryShape
  <2>2. Debt = AtLeast(0, Window - (bucket.tokens + (clock - bucket.last)))
    BY <1>1, <1>3, <2>1 DEF Debt, Refilled, AtMost, AtLeast
  <2>3. CASE bucket.exp = clock + 1
    <3>1. Debt' = 0
      BY <1>1, <2>1, <2>3 DEF Debt, Live
    <3>2. Debt \in {0, 1}
      BY <1>1, <2>1, <2>2, <2>3 DEF AtLeast
    <3>3. QED
      BY <3>1, <3>2
  <2>4. CASE bucket.exp # clock + 1
    <3>1. Live'
      BY <1>1, <2>1, <2>4 DEF Live
    <3>2. Debt' = AtLeast(0, Window - (bucket.tokens + (clock + 1 - bucket.last)))
      BY <1>1, <2>1, <3>1 DEF Debt, Refilled, AtMost, AtLeast, Window
    <3>3. QED
      BY <1>1, <2>1, <2>2, <3>2 DEF AtLeast
  <2>5. QED
    BY <2>3, <2>4
<1>4. QED
  BY <1>2, <1>3

(* A call in flight asks for one of the costs there are. *)
CostAsked == \A p \in Procs : InFlight(p) => cost[p] \in Costs

LEMMA CostInvariant == Spec => []CostAsked
<1>1. Init => CostAsked
  BY DEF Init, CostAsked, InFlight, Resting
<1>2. IInv /\ CostAsked /\ [Next]_vars => CostAsked'
  <2> SUFFICES ASSUME TypeOK, CostAsked, [Next]_vars,
                      NEW q \in Procs, InFlight(q)'
               PROVE  cost'[q] \in Costs
    BY DEF IInv, CostAsked
  <2>1. CASE Tick \/ Reset \/ UNCHANGED vars
    BY <2>1 DEF Tick, Reset, vars, CostAsked, InFlight
  <2>2. ASSUME NEW p \in Procs, Start(p) PROVE cost'[q] \in Costs
    BY <2>2 DEF Start, CostAsked, InFlight, TypeOK
  <2>3. ASSUME NEW p \in Procs, Step(p) \/ StorageFails(p)
        PROVE  cost'[q] \in Costs
    <3>1. cost' = cost
      BY <2>3 DEF Step, ReadState, Swap, SwapRefused, StorageFails
    <3>2. InFlight(p)
      BY <2>3 DEF Step, ReadState, Swap, SwapRefused, StorageFails, InFlight,
                  Resting, Answers
    <3>3. q # p => pc'[q] = pc[q]
      BY <2>3 DEF Step, ReadState, Swap, SwapRefused, StorageFails, Return,
                  TypeOK
    <3>4. QED
      BY <3>1, <3>2, <3>3 DEF CostAsked, InFlight
  <2>4. QED
    BY <2>1, <2>2, <2>3 DEF Next
<1>3. QED
  BY <1>1, <1>2, InductiveInvariant, PTL DEF Spec

(***************************************************************************)
(* ImplementsContract: every behaviour of the storage protocol is, seen    *)
(* from the debt, a behaviour of one atomic counter.                       *)
(***************************************************************************)
THEOREM ProtocolImplementsContract == Spec => ImplementsContract
<1>1. Init => Contract!Init
  BY DEF Init, Contract!Init, Debt, Live
<1>2. IInv /\ CostAsked /\ [Next]_vars => [Contract!Next]_(Contract!vars)
  <2> SUFFICES ASSUME IInv, CostAsked, [Next]_vars
               PROVE  Contract!Next \/ UNCHANGED <<clock, Debt, granted>>
    BY DEF Contract!vars
  <2>1. CASE Tick
    <3>1. Contract!Tick
      BY <2>1, DebtAfterTick DEF Contract!Tick, Tick
    <3>2. QED
      BY <3>1 DEF Contract!Next
  <2>2. CASE Reset
    <3>1. Contract!Forgive
      BY <2>2 DEF Contract!Forgive, Reset, Debt, Live
    <3>2. QED
      BY <3>1 DEF Contract!Next
  <2>3. CASE UNCHANGED vars
    BY <2>3 DEF vars, Debt, Live, Refilled
  <2>4. ASSUME NEW p \in Procs, Start(p) \/ ReadState(p) \/ SwapRefused(p)
        PROVE  UNCHANGED <<clock, Debt, granted>>
    BY <2>4 DEF Start, ReadState, SwapRefused, Debt, Live, Refilled
  <2>5. ASSUME NEW p \in Procs, Swap(p) \/ StorageFails(p)
        PROVE  Contract!Next \/ UNCHANGED <<clock, Debt, granted>>
    <3>1. CASE UNCHANGED <<clock, bucket, granted>>
      BY <3>1 DEF Debt, Live, Refilled
    <3>2. CASE pc[p] = "cas" /\ Matches(seen[p]) /\ Charge(p) /\ UNCHANGED clock
      <4>1. cost[p] \in Costs
        BY <3>2 DEF CostAsked, InFlight, Resting, Answers
      <4>2. Contract!Grant(cost[p])
        BY <3>2, DebtAfterCharge DEF Contract!Grant, Charge
      <4>3. QED
        BY <4>1, <4>2 DEF Contract!Next
    <3>3. QED
      BY <2>5, <3>1, <3>2 DEF Swap, StorageFails
  <2>6. QED
    BY <2>1, <2>2, <2>3, <2>4, <2>5 DEF Next, Step
<1>3. QED
  BY <1>1, <1>2, InductiveInvariant, CostInvariant, PTL
     DEF Spec, ImplementsContract, Contract!Spec

=============================================================================
