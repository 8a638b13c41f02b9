----------------------------- MODULE GCRAProofs -----------------------------
(***************************************************************************)
(* Proofs about GCRA, for any number of callers, any limit, any emission   *)
(* interval, any costs, any age of the clock samples.                      *)
(***************************************************************************)
EXTENDS GCRA, TLAPS

-----------------------------------------------------------------------------
(* The inductive invariant. *)

\* The TAT lies within the time to live, which starts anew with every write.
EntryShape ==
  entry # NoEntry => entry.tat <= entry.exp /\ entry.exp <= clock + Window

\* A clock sample in use is never ahead of the clock, nor older than MaxAge.
SampleFresh ==
  \A p \in Procs : InFlight(p) => now[p] <= clock /\ clock <= now[p] + MaxAge

\* The request of a caller about to swap conforms to the TAT that it read.
SwapCovered ==
  \A p \in Procs :
    pc[p] = "cas" => AllowAt(seen[p], cost[p], now[p]) <= now[p]

\* Every grant has moved the TAT, and the TAT has not been passed since.
Accounted ==
  /\ epoch <= clock
  /\ Live => granted * EI <= (entry.tat - epoch) + MaxAge * creations
  /\ ~Live => granted * EI <= (clock - epoch) + MaxAge * creations

IInv ==
  /\ TypeOK
  /\ EntryShape
  /\ SampleFresh
  /\ SwapCovered
  /\ Accounted

-----------------------------------------------------------------------------
(* Arithmetic and the helpers of the model. *)

LEMMA Arithmetic ==
  /\ \A a, b \in Nat : a * b \in Nat
  /\ \A a, b, c \in Nat : (a + b) * c = a * c + b * c
  /\ \A a, b \in Nat : a * (b + 1) = a * b + a
  /\ \A a \in Nat : a * 0 = 0 /\ 0 * a = 0
OBVIOUS

LEMMA WindowNat == Window \in Nat
BY ConstantsAssumption, Arithmetic DEF Window

LEMMA EntryIsNotNoEntry == NoEntry \notin EntryTypes
BY NoEntryAssumption DEF EntryTypes

(* Where a request moves the TAT of a stored entry, and of an absent one. *)
LEMMA AdvanceBounds ==
  ASSUME NEW e \in EntryTypes, NEW c \in Nat, NEW t \in Int
  PROVE  /\ Advance(e, c, t) = AtLeast(e.tat, t) + c * EI
         /\ Advance(NoEntry, c, t) = t + c * EI
         /\ Advance(e, c, t) \in Int /\ Advance(NoEntry, c, t) \in Int
         /\ c * EI \in Nat
<1>1. c * EI \in Nat
  BY ConstantsAssumption, Arithmetic
<1>2. e # NoEntry
  BY EntryIsNotNoEntry
<1>3. AtLeast(e.tat, t) \in Int
  BY DEF EntryTypes, AtLeast
<1>4. QED
  BY <1>1, <1>2, <1>3 DEF Advance

(***************************************************************************)
(* The one step that matters: a charge writes a well-formed entry and      *)
(* keeps the account, whatever was read and however old the sample is.     *)
(***************************************************************************)
LEMMA ChargeKeepsAccount ==
  ASSUME IInv, NEW p \in Procs, pc[p] = "cas", Matches(seen[p]), Charge(p),
         UNCHANGED <<clock, epoch>>
  PROVE  /\ entry' \in EntryTypes
         /\ granted' \in Nat /\ creations' \in Nat
         /\ EntryShape' /\ Accounted'
<1> DEFINE tat == Advance(seen[p], cost[p], now[p])
           price == cost[p] * EI
<1>1. /\ clock \in Nat /\ epoch \in Nat /\ now[p] \in Int
      /\ cost[p] \in Nat /\ granted \in Nat /\ creations \in Nat
      /\ EI \in Nat /\ MaxAge \in Nat /\ Window \in Nat
  BY WindowNat, ConstantsAssumption DEF IInv, TypeOK
<1>2. /\ now[p] <= clock
      /\ clock <= now[p] + MaxAge
      /\ tat - Window <= now[p]
  BY DEF IInv, SampleFresh, SwapCovered, InFlight, Resting, Answers, AllowAt
<1>3. seen[p] \in EntryTypes \union {NoEntry}
  BY DEF IInv, TypeOK
<1>4. price \in Nat /\ granted * EI \in Nat /\ MaxAge * creations \in Nat
  BY <1>1, Arithmetic
<1>5. entry' = [tat |-> tat, exp |-> clock + Window]
  BY DEF Charge
<1>6. tat \in Int
  <2>1. CASE seen[p] \in EntryTypes
    BY <1>1, <2>1, AdvanceBounds
  <2>2. CASE seen[p] = NoEntry
    BY <1>1, <1>4, <2>2 DEF Advance
  <2>3. QED
    BY <1>3, <2>1, <2>2
<1>7. entry' \in EntryTypes /\ entry' # NoEntry
  <2>1. entry' \in EntryTypes
    BY <1>1, <1>5, <1>6 DEF EntryTypes
  <2>2. QED
    BY <2>1, EntryIsNotNoEntry
<1>8. EntryShape'
  <2>1. entry'.tat = tat /\ entry'.exp = clock + Window /\ clock' = clock
    BY <1>5
  <2>2. QED
    BY <1>1, <1>2, <1>6, <2>1 DEF EntryShape, Window
<1>9. granted' = granted + cost[p] /\ epoch' = epoch /\ clock' = clock
  BY DEF Charge
<1>10. granted' * EI = granted * EI + price
  BY <1>1, <1>9, Arithmetic
<1>11. creations' \in Nat /\ MaxAge * creations' \in Nat
  <2>1. creations' \in Nat
    BY <1>1 DEF Charge
  <2>2. QED
    BY <1>1, <2>1, Arithmetic
<1>12. granted * EI + price <= (tat - epoch) + MaxAge * creations'
  <2>1. CASE seen[p] = NoEntry
    <3>1. ~Live /\ tat = now[p] + price
      BY <2>1 DEF Matches, Advance
    <3>2. granted * EI <= (clock - epoch) + MaxAge * creations
      BY <3>1 DEF IInv, Accounted
    <3>3. creations' = creations + 1
      BY <2>1 DEF Charge
    <3>4. MaxAge * creations' = MaxAge * creations + MaxAge
      BY <1>1, <3>3, Arithmetic
    <3>5. QED
      BY <1>1, <1>2, <1>4, <3>1, <3>2, <3>4
  <2>2. CASE seen[p] # NoEntry
    <3>1. Live /\ entry.tat = seen[p].tat
      BY <2>2 DEF Matches
    <3>2. seen[p] \in EntryTypes /\ entry.tat \in Int
      BY <1>3, <2>2, <3>1 DEF EntryTypes
    <3>3. tat = AtLeast(entry.tat, now[p]) + price
      BY <1>1, <3>1, <3>2, AdvanceBounds
    <3>4. granted * EI <= (entry.tat - epoch) + MaxAge * creations
      BY <3>1 DEF IInv, Accounted
    <3>5. creations' = creations
      BY <1>1, <2>2 DEF Charge
    <3>6. QED
      BY <1>1, <1>4, <3>2, <3>3, <3>4, <3>5 DEF AtLeast
  <2>3. QED
    BY <2>1, <2>2
<1>13. Live'
  <2>1. Window > 0
    BY ConstantsAssumption DEF Window
  <2>2. QED
    BY <1>1, <1>5, <1>7, <1>9, <2>1 DEF Live
<1>14. Accounted'
  <2>1. epoch' <= clock'
    BY <1>9 DEF IInv, Accounted
  <2>2. granted' * EI <= (entry'.tat - epoch') + MaxAge * creations'
    BY <1>5, <1>9, <1>10, <1>12
  <2>3. QED
    BY <1>13, <2>1, <2>2 DEF Accounted
<1>15. QED
  BY <1>1, <1>7, <1>8, <1>9, <1>11, <1>14

-----------------------------------------------------------------------------
(* The steps of a call. *)

LEMMA InitInv == Init => IInv
<1> SUFFICES ASSUME Init PROVE IInv
  OBVIOUS
<1>1. TypeOK
  BY ConstantsAssumption DEF Init, TypeOK, Resting, Answers
<1>2. EntryShape /\ ~Live
  BY DEF Init, EntryShape, Live
<1>3. SampleFresh /\ SwapCovered
  BY DEF Init, SampleFresh, SwapCovered, InFlight, Resting
<1>4. Accounted
  BY <1>2, Arithmetic, ConstantsAssumption DEF Init, Accounted
<1>5. QED
  BY <1>1, <1>2, <1>3, <1>4 DEF IInv

(* Overtake counts up to MaxRetries. *)
LEMMA OvertakeType ==
  ASSUME overtaken \in [Procs -> 0..MaxRetries], Overtake
  PROVE  overtaken' \in [Procs -> 0..MaxRetries]
BY ConstantsAssumption DEF Overtake, AtMost

(* Returning leaves nothing in flight that the invariant speaks of. *)
LEMMA ReturnKeepsFrames ==
  ASSUME TypeOK, SampleFresh, SwapCovered,
         NEW p \in Procs, NEW a \in Answers, Return(p, a),
         UNCHANGED <<clock, cost, now>>
  PROVE  /\ pc' \in [Procs -> {"get", "cas"} \union Resting]
         /\ seen' \in [Procs -> EntryTypes \union {NoEntry}]
         /\ attempt' \in [Procs -> 0..MaxRetries]
         /\ SampleFresh' /\ SwapCovered'
<1>1. /\ pc' \in [Procs -> {"get", "cas"} \union Resting]
      /\ seen' \in [Procs -> EntryTypes \union {NoEntry}]
      /\ attempt' \in [Procs -> 0..MaxRetries]
  BY ConstantsAssumption DEF Return, TypeOK, Resting
<1>2. \A q \in Procs : InFlight(q)' =>
        InFlight(q) /\ pc'[q] = pc[q] /\ seen'[q] = seen[q]
  BY DEF Return, TypeOK, InFlight, Resting
<1>3. SampleFresh'
  BY <1>2 DEF SampleFresh
<1>4. SwapCovered'
  <2> SUFFICES ASSUME NEW q \in Procs, pc'[q] = "cas"
               PROVE  AllowAt(seen'[q], cost'[q], now'[q]) <= now'[q]
    BY DEF SwapCovered, AllowAt, Advance, Window
  <2>1. pc[q] = "cas" /\ seen'[q] = seen[q]
    BY <1>2 DEF InFlight, Resting, Answers
  <2>2. QED
    BY <2>1 DEF SwapCovered
<1>5. QED
  BY <1>1, <1>3, <1>4

LEMMA TickInv == IInv /\ Tick => IInv'
<1> SUFFICES ASSUME IInv, Tick PROVE IInv'
  OBVIOUS
<1>1. /\ clock \in Nat /\ clock' = clock + 1
      /\ entry \in EntryTypes \union {NoEntry} /\ entry' = entry
      /\ UNCHANGED <<pc, cost, now, seen, granted, creations, epoch>>
  BY DEF Tick, IInv, TypeOK
<1>2. TypeOK'
  <2>1. overtaken' \in [Procs -> 0..MaxRetries]
    BY OvertakeType DEF Tick, IInv, TypeOK
  <2>2. QED
    BY <2>1 DEF Tick, IInv, TypeOK
<1>3. EntryShape'
  <2>1. Window \in Nat
    BY WindowNat
  <2>2. QED
    BY <1>1, <2>1 DEF EntryTypes, EntryShape, IInv, Window
<1>4. SampleFresh'
  BY <1>1, ConstantsAssumption
     DEF Tick, SampleFresh, InFlight, IInv, TypeOK
<1>5. SwapCovered'
  <2> SUFFICES ASSUME NEW q \in Procs, pc'[q] = "cas"
               PROVE  AllowAt(seen'[q], cost'[q], now'[q]) <= now'[q]
    BY DEF SwapCovered, AllowAt, Advance, Window
  <2>1. QED
    BY <1>1 DEF SwapCovered, IInv
<1>6. Accounted'
  <2>1. /\ epoch \in Nat /\ granted \in Nat /\ creations \in Nat
        /\ EI \in Nat /\ MaxAge \in Nat /\ Window \in Nat
    BY WindowNat, ConstantsAssumption DEF IInv, TypeOK
  <2>2. granted * EI \in Nat /\ MaxAge * creations \in Nat
    BY <2>1, Arithmetic
  <2>3. epoch' <= clock'
    BY <1>1, <2>1 DEF IInv, Accounted
  <2>4. CASE ~Live
    <3>1. ~Live'
      BY <1>1, <2>4 DEF Live, EntryTypes
    <3>2. granted * EI <= (clock - epoch) + MaxAge * creations
      BY <2>4 DEF IInv, Accounted
    <3>3. granted * EI <= (clock' - epoch) + MaxAge * creations
      BY <1>1, <2>1, <2>2, <3>2
    <3>4. QED
      BY <1>1, <2>3, <3>1, <3>3 DEF Accounted
  <2>5. CASE Live
    <3>1. granted * EI <= (entry.tat - epoch) + MaxAge * creations
      BY <2>5 DEF IInv, Accounted
    <3>2. /\ entry.tat \in Int /\ entry.exp \in Nat
          /\ entry.tat <= entry.exp
      BY <1>1, <2>5 DEF Live, EntryTypes, IInv, EntryShape
    <3>3. ~Live' => entry.exp = clock + 1
      BY <1>1, <2>5, <3>2 DEF Live
    <3>4. ~Live' => granted * EI <= (clock' - epoch) + MaxAge * creations
      BY <1>1, <2>1, <2>2, <3>1, <3>2, <3>3
    <3>5. QED
      BY <1>1, <2>3, <3>1, <3>4 DEF Accounted, Window
  <2>6. QED
    BY <2>4, <2>5
<1>7. QED
  BY <1>2, <1>3, <1>4, <1>5, <1>6 DEF IInv

LEMMA ResetInv == IInv /\ Reset => IInv'
<1> SUFFICES ASSUME IInv, Reset PROVE IInv'
  OBVIOUS
<1>1. /\ entry' = NoEntry /\ epoch' = clock /\ granted' = 0 /\ creations' = 0
      /\ UNCHANGED <<clock, pc, cost, now, seen>>
  BY DEF Reset
<1>2. TypeOK'
  <2>1. overtaken' \in [Procs -> 0..MaxRetries]
    BY OvertakeType DEF Reset, IInv, TypeOK
  <2>2. QED
    BY <2>1 DEF Reset, IInv, TypeOK
<1>3. EntryShape'
  BY <1>1 DEF EntryShape
<1>4. SampleFresh'
  BY <1>1 DEF SampleFresh, InFlight, IInv
<1>5. SwapCovered'
  <2> SUFFICES ASSUME NEW q \in Procs, pc'[q] = "cas"
               PROVE  AllowAt(seen'[q], cost'[q], now'[q]) <= now'[q]
    BY DEF SwapCovered, AllowAt, Advance, Window
  <2>1. QED
    BY <1>1 DEF SwapCovered, IInv
<1>6. Accounted'
  BY <1>1, Arithmetic, ConstantsAssumption DEF Accounted, Live, IInv, TypeOK
<1>7. QED
  BY <1>2, <1>3, <1>4, <1>5, <1>6 DEF IInv

LEMMA StartInv == \A p \in Procs : IInv /\ Start(p) => IInv'
<1> SUFFICES ASSUME NEW p \in Procs, IInv, Start(p) PROVE IInv'
  OBVIOUS
<1>1. UNCHANGED <<clock, entry, granted, creations, epoch>>
  BY DEF Start
<1>2. now' = [now EXCEPT ![p] = clock - Lag[p]] /\ Lag[p] \in 0..MaxAge
  BY ConstantsAssumption DEF Start
<1>3. pc' = [pc EXCEPT ![p] = "get"]
  BY DEF Start
<1>4. TypeOK'
  <2>1. now' \in [Procs -> Int]
    BY <1>2, ConstantsAssumption DEF IInv, TypeOK
  <2>2. cost' \in [Procs -> Nat \ {0}]
    BY ConstantsAssumption DEF Start, IInv, TypeOK
  <2>3. QED
    BY <1>1, <1>3, <2>1, <2>2, ConstantsAssumption DEF Start, IInv, TypeOK
<1>5. EntryShape' /\ Accounted'
  BY <1>1 DEF IInv, EntryShape, Accounted, Live, Window
<1>6. SampleFresh'
  BY <1>1, <1>2, <1>3, ConstantsAssumption
     DEF SampleFresh, InFlight, IInv, TypeOK
<1>7. SwapCovered'
  <2> SUFFICES ASSUME NEW q \in Procs, pc'[q] = "cas"
               PROVE  AllowAt(seen'[q], cost'[q], now'[q]) <= now'[q]
    BY DEF SwapCovered, AllowAt, Advance, Window
  <2>1. q # p /\ pc[q] = "cas"
    BY <1>3 DEF IInv, TypeOK
  <2>2. cost'[q] = cost[q] /\ seen'[q] = seen[q] /\ now'[q] = now[q]
    BY <2>1 DEF Start, IInv, TypeOK
  <2>3. QED
    BY <2>1, <2>2 DEF SwapCovered, IInv
<1>8. QED
  BY <1>4, <1>5, <1>6, <1>7 DEF IInv

(* What a call reads is what is stored, or the absence of anything. *)
LEMMA LookupType == TypeOK => Lookup \in EntryTypes \union {NoEntry}
BY DEF TypeOK, Lookup

LEMMA ReadStateInv == \A p \in Procs : IInv /\ ReadState(p) => IInv'
<1> SUFFICES ASSUME NEW p \in Procs, IInv, ReadState(p) PROVE IInv'
  OBVIOUS
<1> DEFINE late == AllowAt(Lookup, cost[p], now[p]) - now[p]
<1>1. /\ UNCHANGED <<clock, entry, cost, now, granted, creations, epoch, resets>>
      /\ TypeOK /\ SampleFresh /\ SwapCovered /\ pc[p] = "get"
  BY DEF ReadState, IInv
<1>2. EntryShape' /\ Accounted'
  BY <1>1 DEF IInv, EntryShape, Accounted, Live, Window
<1>3. late \in Int /\ now[p] \in Int /\ AllowAt(Lookup, cost[p], now[p]) \in Int
  <2>1. now[p] \in Int /\ cost[p] \in Nat /\ Lookup \in EntryTypes \union {NoEntry}
    BY <1>1, LookupType DEF TypeOK
  <2>2. Advance(Lookup, cost[p], now[p]) \in Int
    <3>1. CASE Lookup \in EntryTypes
      BY <2>1, <3>1, AdvanceBounds
    <3>2. CASE Lookup = NoEntry
      <4>1. cost[p] * EI \in Nat
        BY <2>1, ConstantsAssumption, Arithmetic
      <4>2. QED
        BY <2>1, <3>2, <4>1 DEF Advance
    <3>3. QED
      BY <2>1, <3>1, <3>2
  <2>3. QED
    BY <2>1, <2>2, WindowNat DEF AllowAt
<1>4. CASE /\ late <= 0
           /\ pc' = [pc EXCEPT ![p] = "cas"]
           /\ seen' = [seen EXCEPT ![p] = Lookup]
           /\ UNCHANGED <<attempt, wait, overtaken>>
  <2>1. TypeOK'
    BY <1>1, <1>4, LookupType DEF TypeOK
  <2>2. SampleFresh'
    BY <1>1, <1>4 DEF SampleFresh, InFlight, Resting, Answers, TypeOK
  <2>3. SwapCovered'
    <3> SUFFICES ASSUME NEW q \in Procs, pc'[q] = "cas"
                 PROVE  AllowAt(seen'[q], cost'[q], now'[q]) <= now'[q]
      BY DEF SwapCovered, AllowAt, Advance, Window
    <3>1. CASE q = p
      <4>1. seen'[q] = Lookup /\ cost'[q] = cost[p] /\ now'[q] = now[p]
        BY <1>1, <1>4, <3>1 DEF TypeOK
      <4>2. AllowAt(Lookup, cost[p], now[p]) <= now[p]
        BY <1>3, <1>4
      <4>3. QED
        BY <4>1, <4>2
    <3>2. CASE q # p
      BY <1>1, <1>4, <3>2 DEF SwapCovered, TypeOK
    <3>3. QED
      BY <3>1, <3>2
  <2>4. QED
    BY <1>2, <2>1, <2>2, <2>3 DEF IInv
<1>5. CASE /\ late > 0
           /\ Return(p, "denied")
           /\ wait' = [wait EXCEPT ![p] = IF Lookup = NoEntry THEN 0 ELSE late]
           /\ overtaken' = [overtaken EXCEPT ![p] = 0]
  <2>1. /\ pc' \in [Procs -> {"get", "cas"} \union Resting]
        /\ seen' \in [Procs -> EntryTypes \union {NoEntry}]
        /\ attempt' \in [Procs -> 0..MaxRetries]
        /\ SampleFresh' /\ SwapCovered'
    BY <1>1, <1>5, ReturnKeepsFrames DEF Answers
  <2>2. late \in Nat
    BY <1>3, <1>5
  <2>3. TypeOK'
    <3>1. wait' \in [Procs -> Nat]
      BY <1>1, <1>5, <2>2 DEF TypeOK
    <3>2. overtaken' \in [Procs -> 0..MaxRetries]
      BY <1>1, <1>5, ConstantsAssumption DEF TypeOK
    <3>3. QED
      BY <1>1, <2>1, <3>1, <3>2 DEF TypeOK, EntryTypes
  <2>4. QED
    BY <1>2, <2>1, <2>3 DEF IInv
<1>6. QED
  BY <1>4, <1>5 DEF ReadState, RetryAfter

(* A call that charges and returns, with its answer or without. *)
LEMMA ChargeAndReturn ==
  ASSUME IInv, NEW p \in Procs, NEW a \in Answers,
         pc[p] = "cas", Matches(seen[p]), Charge(p), Return(p, a),
         UNCHANGED <<clock, cost, now, wait, epoch, resets>>
  PROVE  IInv'
<1>1. /\ entry' \in EntryTypes
      /\ granted' \in Nat /\ creations' \in Nat
      /\ EntryShape' /\ Accounted'
  BY ChargeKeepsAccount
<1>2. /\ pc' \in [Procs -> {"get", "cas"} \union Resting]
      /\ seen' \in [Procs -> EntryTypes \union {NoEntry}]
      /\ attempt' \in [Procs -> 0..MaxRetries]
      /\ SampleFresh' /\ SwapCovered'
  BY ReturnKeepsFrames DEF IInv
<1>3. overtaken' \in [Procs -> 0..MaxRetries]
  BY OvertakeType DEF Charge, IInv, TypeOK
<1>4. TypeOK'
  BY <1>1, <1>2, <1>3 DEF TypeOK, IInv, EntryTypes, Window
<1>5. QED
  BY <1>1, <1>2, <1>4 DEF IInv

(* A call that returns without having changed the entry. *)
LEMMA ReturnOnly ==
  ASSUME IInv, NEW p \in Procs, NEW a \in Answers, Return(p, a),
         UNCHANGED <<clock, entry, cost, now, wait, granted, creations, epoch,
                     resets, overtaken>>
  PROVE  IInv'
<1>1. /\ pc' \in [Procs -> {"get", "cas"} \union Resting]
      /\ seen' \in [Procs -> EntryTypes \union {NoEntry}]
      /\ attempt' \in [Procs -> 0..MaxRetries]
      /\ SampleFresh' /\ SwapCovered'
  BY ReturnKeepsFrames DEF IInv
<1>2. TypeOK'
  BY <1>1 DEF TypeOK, IInv
<1>3. EntryShape' /\ Accounted'
  BY DEF IInv, EntryShape, Accounted, Live, Window
<1>4. QED
  BY <1>1, <1>2, <1>3 DEF IInv

LEMMA SwapInv == \A p \in Procs : IInv /\ Swap(p) => IInv'
BY ChargeAndReturn DEF Swap, Answers

LEMMA StorageFailsInv == \A p \in Procs : IInv /\ StorageFails(p) => IInv'
<1> SUFFICES ASSUME NEW p \in Procs, IInv, StorageFails(p) PROVE IInv'
  OBVIOUS
<1>1. "failed" \in Answers
  BY DEF Answers
<1>2. CASE UNCHANGED <<entry, granted, creations, overtaken>>
  BY <1>1, <1>2, ReturnOnly DEF StorageFails
<1>3. CASE pc[p] = "cas" /\ Matches(seen[p]) /\ Charge(p)
  BY <1>1, <1>3, ChargeAndReturn DEF StorageFails
<1>4. QED
  BY <1>2, <1>3 DEF StorageFails

LEMMA SwapRefusedInv == \A p \in Procs : IInv /\ SwapRefused(p) => IInv'
<1> SUFFICES ASSUME NEW p \in Procs, IInv, SwapRefused(p) PROVE IInv'
  OBVIOUS
<1>1. UNCHANGED <<clock, entry, cost, now, wait, granted, creations, epoch,
                  resets, overtaken>>
  BY DEF SwapRefused
<1>2. CASE /\ attempt[p] + 1 < MaxRetries
           /\ attempt' = [attempt EXCEPT ![p] = @ + 1]
           /\ pc' = [pc EXCEPT ![p] = "get"]
           /\ UNCHANGED seen
  <2>1. TypeOK'
    BY <1>1, <1>2, ConstantsAssumption DEF TypeOK, IInv
  <2>2. EntryShape' /\ Accounted'
    BY <1>1 DEF IInv, EntryShape, Accounted, Live, Window
  <2>3. SampleFresh'
    BY <1>1, <1>2 DEF SwapRefused, SampleFresh, InFlight, Resting, Answers,
                      IInv, TypeOK
  <2>4. SwapCovered'
    <3> SUFFICES ASSUME NEW q \in Procs, pc'[q] = "cas"
                 PROVE  AllowAt(seen'[q], cost'[q], now'[q]) <= now'[q]
      BY DEF SwapCovered, AllowAt, Advance, Window
    <3>1. q # p /\ pc[q] = "cas"
      BY <1>2 DEF IInv, TypeOK
    <3>2. QED
      BY <1>1, <1>2, <3>1 DEF SwapCovered, IInv
  <2>5. QED
    BY <2>1, <2>2, <2>3, <2>4 DEF IInv
<1>3. CASE attempt[p] + 1 >= MaxRetries /\ Return(p, "exhausted")
  BY <1>1, <1>3, ReturnOnly DEF Answers
<1>4. QED
  BY <1>2, <1>3 DEF SwapRefused

-----------------------------------------------------------------------------
(* The theorems. *)

LEMMA StutterInv == IInv /\ UNCHANGED vars => IInv'
<1> SUFFICES ASSUME IInv, UNCHANGED vars PROVE IInv'
  OBVIOUS
<1>1. TypeOK' /\ EntryShape' /\ SampleFresh'
  BY DEF IInv, vars, TypeOK, EntryShape, SampleFresh, InFlight
<1>2. SwapCovered' /\ Accounted'
  BY DEF IInv, vars, SwapCovered, Accounted, Live, AllowAt, Advance, Window
<1>3. QED
  BY <1>1, <1>2 DEF IInv

THEOREM InductiveInvariant == Spec => []IInv
<1>1. IInv /\ [Next]_vars => IInv'
  BY TickInv, ResetInv, StartInv, ReadStateInv, SwapInv, SwapRefusedInv,
     StorageFailsInv, StutterInv DEF Next
<1>2. QED
  BY <1>1, InitInv, PTL DEF Spec

(***************************************************************************)
(* Type correctness: the frames of all calls and the entry keep their      *)
(* shape through refused swaps, failures and resets.                       *)
(***************************************************************************)
THEOREM TypeCorrect == Spec => []TypeOK
<1>1. IInv => TypeOK
  BY DEF IInv
<1>2. QED
  BY <1>1, InductiveInvariant, PTL

(***************************************************************************)
(* AdmissionBound: the burst, the refill, and MaxAge ticks for every entry *)
(* created - not, as in TokenBucket, for every grant.                      *)
(***************************************************************************)
THEOREM AdmissionIsBounded == Spec => []AdmissionBound
<1>1. IInv => AdmissionBound
  <2> SUFFICES ASSUME IInv PROVE AdmissionBound
    OBVIOUS
  <2>1. /\ clock \in Nat /\ epoch \in Nat /\ epoch <= clock
        /\ granted \in Nat /\ creations \in Nat
        /\ EI \in Nat /\ MaxAge \in Nat /\ Window \in Nat
    BY WindowNat, ConstantsAssumption DEF IInv, TypeOK, Accounted
  <2>2. granted * EI \in Nat /\ MaxAge * creations \in Nat
    BY <2>1, Arithmetic
  <2>3. CASE Live
    <3>1. granted * EI <= (entry.tat - epoch) + MaxAge * creations
      BY <2>3 DEF IInv, Accounted
    <3>2. /\ entry.tat \in Int /\ entry.exp \in Nat
          /\ entry.tat <= entry.exp /\ entry.exp <= clock + Window
      BY <2>3 DEF Live, IInv, TypeOK, EntryTypes, EntryShape
    <3>3. QED
      BY <2>1, <2>2, <3>1, <3>2 DEF AdmissionBound
  <2>4. CASE ~Live
    BY <2>1, <2>2, <2>4 DEF IInv, Accounted, AdmissionBound
  <2>5. QED
    BY <2>3, <2>4
<1>2. QED
  BY <1>1, InductiveInvariant, PTL

(***************************************************************************)
(* An entry expires only after its TAT has passed, when it says no more    *)
(* than an absent entry does.                                              *)
(***************************************************************************)
THEOREM ExpiryIsHarmless == Spec => []ExpiryForgetsNothing
<1>1. IInv => ExpiryForgetsNothing
  BY DEF IInv, EntryShape, ExpiryForgetsNothing
<1>2. QED
  BY <1>1, InductiveInvariant, PTL

-----------------------------------------------------------------------------
(* Failing closed, and the honesty of retry_after. *)

\* The failed attempts of p's call are paid for by changes of the entry; a
\* swap that is going to be refused is paid for, too.
ContentionOf(p) ==
  /\ pc[p] \in {"get", "cas"} =>
       attempt[p] < MaxRetries /\ attempt[p] <= overtaken[p]
  /\ pc[p] = "cas" /\ ~Matches(seen[p]) => attempt[p] + 1 <= overtaken[p]
  /\ pc[p] = "exhausted" => overtaken[p] >= MaxRetries

ContentionInv == \A p \in Procs : ContentionOf(p)

(* The entry stays as it was, as far as any call can see. *)
EntryKept == entry' = entry /\ (Live' <=> Live)

(***************************************************************************)
(* A call that a step leaves alone keeps both facts, if the entry is kept  *)
(* or its change is counted.                                               *)
(***************************************************************************)
LEMMA BystanderKeeps ==
  ASSUME TypeOK, NEW q \in Procs, ContentionOf(q), HonestOf(q),
         pc'[q] = pc[q], attempt'[q] = attempt[q], seen'[q] = seen[q],
         cost'[q] = cost[q], now'[q] = now[q], wait'[q] = wait[q],
         \/ EntryKept /\ overtaken'[q] = overtaken[q]
         \/ overtaken'[q] = AtMost(MaxRetries, overtaken[q] + 1)
  PROVE  ContentionOf(q)' /\ HonestOf(q)'
<1>1. /\ overtaken[q] \in 0..MaxRetries /\ attempt[q] \in 0..MaxRetries
      /\ MaxRetries \in Nat \ {0}
  BY ConstantsAssumption DEF TypeOK
<1>2. CASE EntryKept /\ overtaken'[q] = overtaken[q]
  <2>1. Matches(seen[q])' <=> Matches(seen[q])
    BY <1>2 DEF EntryKept, Matches
  <2>2. ContentionOf(q)'
    BY <1>2, <2>1 DEF ContentionOf
  <2>3. HonestOf(q)'
    BY <1>2 DEF EntryKept, HonestOf
  <2>4. QED
    BY <2>2, <2>3
<1>3. CASE overtaken'[q] = AtMost(MaxRetries, overtaken[q] + 1)
  <2>1. /\ overtaken'[q] >= overtaken[q] /\ overtaken'[q] # 0
        /\ overtaken'[q] \in Nat
        /\ attempt[q] < MaxRetries /\ attempt[q] <= overtaken[q]
             => attempt[q] + 1 <= overtaken'[q]
    BY <1>1, <1>3 DEF AtMost
  <2>2. ContentionOf(q)'
    BY <1>1, <2>1 DEF ContentionOf
  <2>3. HonestOf(q)'
    BY <2>1 DEF HonestOf
  <2>4. QED
    BY <2>2, <2>3
<1>4. QED
  BY <1>2, <1>3

(* A denial tells the wait until the request conforms. *)
LEMMA DenialIsHonest ==
  ASSUME IInv, NEW p \in Procs, ReadState(p),
         AllowAt(Lookup, cost[p], now[p]) - now[p] > 0,
         wait'[p] = IF Lookup = NoEntry THEN 0
                    ELSE AllowAt(Lookup, cost[p], now[p]) - now[p]
  PROVE  HonestOf(p)'
<1> DEFINE late == AllowAt(Lookup, cost[p], now[p]) - now[p]
           need == cost[p] * EI
<1>1. /\ entry' = entry /\ now' = now /\ cost' = cost
      /\ now[p] \in Int /\ cost[p] \in Nat /\ EI \in Nat /\ Limit \in Nat
      /\ Window \in Nat
  BY WindowNat, ConstantsAssumption DEF ReadState, IInv, TypeOK
<1> SUFFICES ASSUME cost[p] <= Limit PROVE HonestOf(p)'
  BY <1>1 DEF HonestOf
<1>2. need <= Window /\ need \in Nat
  <2>1. Limit * EI = (cost[p] + (Limit - cost[p])) * EI
    BY <1>1
  <2>2. Limit * EI = cost[p] * EI + (Limit - cost[p]) * EI
    BY <1>1, <2>1, Arithmetic
  <2>3. need \in Nat /\ (Limit - cost[p]) * EI \in Nat
    BY <1>1, Arithmetic
  <2>4. QED
    BY <1>1, <2>2, <2>3 DEF Window
<1>3. Lookup = entry /\ entry \in EntryTypes /\ entry # NoEntry
  <2>1. Lookup # NoEntry
    BY <1>1, <1>2 DEF AllowAt, Advance
  <2>2. QED
    BY <2>1 DEF Lookup, Live, IInv, TypeOK
<1>4. entry.tat \in Int
  BY <1>3 DEF EntryTypes
<1>5. \A t \in Int : AllowAt(entry, cost[p], t) = AtLeast(entry.tat, t) + need - Window
  <2> SUFFICES ASSUME NEW t \in Int
               PROVE  AllowAt(entry, cost[p], t) = AtLeast(entry.tat, t) + need - Window
    OBVIOUS
  <2>1. Advance(entry, cost[p], t) = AtLeast(entry.tat, t) + need
    BY <1>3 DEF Advance
  <2>2. AtLeast(entry.tat, t) \in Int
    BY <1>4 DEF AtLeast
  <2>3. QED
    BY <1>1, <1>2, <2>1, <2>2 DEF AllowAt
<1>6. /\ wait'[p] = late /\ late > 0
      /\ late = AtLeast(entry.tat, now[p]) + need - Window - now[p]
  <2>1. Lookup # NoEntry
    BY <1>3
  <2>2. AllowAt(Lookup, cost[p], now[p])
          = AtLeast(entry.tat, now[p]) + need - Window
    BY <1>1, <1>3, <1>5
  <2>3. wait'[p] = AllowAt(Lookup, cost[p], now[p]) - now[p]
    BY <2>1
  <2>4. AtLeast(entry.tat, now[p]) \in Int
    BY <1>1, <1>4 DEF AtLeast
  <2>5. QED
    BY <1>1, <1>2, <2>2, <2>3, <2>4
<1>7. entry.tat > now[p] /\ late = entry.tat + need - Window - now[p]
  BY <1>1, <1>2, <1>4, <1>6 DEF AtLeast
<1>8. \A t \in Int : t = now[p] + wait'[p] =>
         AllowAt(entry, cost[p], t) <= t /\ AllowAt(entry, cost[p], t - 1) > t - 1
  <2> SUFFICES ASSUME NEW t \in Int, t = now[p] + wait'[p]
               PROVE  /\ AllowAt(entry, cost[p], t) <= t
                      /\ AllowAt(entry, cost[p], t - 1) > t - 1
    OBVIOUS
  <2>1. t = entry.tat + need - Window
    BY <1>1, <1>2, <1>4, <1>6, <1>7
  <2>2. /\ AllowAt(entry, cost[p], t) = AtLeast(entry.tat, t) + need - Window
        /\ AllowAt(entry, cost[p], t - 1) = AtLeast(entry.tat, t - 1) + need - Window
    BY <1>5
  <2>3. QED
    BY <1>1, <1>2, <1>4, <2>1, <2>2 DEF AtLeast
<1>9. now[p] + wait'[p] \in Int
  BY <1>1, <1>2, <1>4, <1>6, <1>7
<1>10. LET t == now[p] + wait'[p]
       IN AllowAt(entry, cost[p], t) <= t /\ AllowAt(entry, cost[p], t - 1) > t - 1
  BY <1>8, <1>9
<1>11. QED
  BY <1>1, <1>10 DEF HonestOf

CallInv == \A p \in Procs : ContentionOf(p) /\ HonestOf(p)

(***************************************************************************)
(* A step of p that leaves the other calls alone keeps their facts; only   *)
(* p's own remain to be shown.                                             *)
(***************************************************************************)
LEMMA OnlyOwnFacts ==
  ASSUME TypeOK, CallInv, NEW p \in Procs,
         \A q \in Procs \ {p} :
           /\ pc'[q] = pc[q] /\ attempt'[q] = attempt[q] /\ seen'[q] = seen[q]
           /\ cost'[q] = cost[q] /\ now'[q] = now[q] /\ wait'[q] = wait[q]
           /\ \/ EntryKept /\ overtaken'[q] = overtaken[q]
              \/ overtaken'[q] = AtMost(MaxRetries, overtaken[q] + 1),
         ContentionOf(p)', HonestOf(p)'
  PROVE  CallInv'
<1> SUFFICES ASSUME NEW q \in Procs PROVE ContentionOf(q)' /\ HonestOf(q)'
  BY DEF CallInv
<1>1. CASE q = p
  BY <1>1
<1>2. CASE q # p
  BY <1>2, BystanderKeeps DEF CallInv
<1>3. QED
  BY <1>1, <1>2

LEMMA EnvironmentKeepsCalls ==
  ASSUME IInv, CallInv, Tick \/ Reset \/ UNCHANGED vars
  PROVE  CallInv'
<1> SUFFICES ASSUME NEW q \in Procs PROVE ContentionOf(q)' /\ HonestOf(q)'
  BY DEF CallInv
<1>1. UNCHANGED <<pc, attempt, seen, cost, now, wait>>
  BY DEF Tick, Reset, vars
<1>2. \/ EntryKept /\ overtaken'[q] = overtaken[q]
      \/ overtaken'[q] = AtMost(MaxRetries, overtaken[q] + 1)
  <2>1. CASE Tick /\ Live /\ entry.exp = clock + 1
    BY <2>1 DEF Tick, Overtake
  <2>2. CASE Tick /\ ~(Live /\ entry.exp = clock + 1)
    BY <2>2 DEF Tick, EntryKept, Live, IInv, TypeOK, EntryTypes
  <2>3. CASE Reset
    BY <2>3 DEF Reset, Overtake
  <2>4. CASE UNCHANGED vars
    BY <2>4 DEF vars, EntryKept, Live
  <2>5. QED
    BY <2>1, <2>2, <2>3, <2>4
<1>3. QED
  BY <1>1, <1>2, BystanderKeeps DEF CallInv, IInv

LEMMA ReadStateKeepsCalls ==
  ASSUME IInv, CallInv, NEW p \in Procs, ReadState(p)
  PROVE  CallInv'
<1> DEFINE late == AllowAt(Lookup, cost[p], now[p]) - now[p]
<1>1. TypeOK /\ ContentionOf(p) /\ pc[p] = "get"
  BY DEF IInv, CallInv, ReadState
<1>2. /\ EntryKept
      /\ UNCHANGED <<clock, entry, cost, now>>
  BY DEF ReadState, EntryKept, Live
<1>3. CASE /\ late <= 0
           /\ pc' = [pc EXCEPT ![p] = "cas"]
           /\ seen' = [seen EXCEPT ![p] = Lookup]
           /\ UNCHANGED <<attempt, wait, overtaken>>
  <2>1. Matches(Lookup)'
    BY <1>2, <1>1 DEF Matches, Lookup, Live, EntryKept
  <2>2. /\ pc'[p] = "cas" /\ Matches(seen[p])'
        /\ attempt'[p] < MaxRetries /\ attempt'[p] <= overtaken'[p]
    BY <1>1, <1>3, <2>1, <1>2 DEF TypeOK, ContentionOf, Lookup, Live, Matches
  <2>3. ContentionOf(p)' /\ HonestOf(p)'
    BY <2>2 DEF ContentionOf, HonestOf
  <2>4. QED
    BY <1>1, <1>2, <1>3, <2>3, OnlyOwnFacts DEF TypeOK
<1>4. CASE /\ late > 0
           /\ Return(p, "denied")
           /\ wait' = [wait EXCEPT ![p] = IF Lookup = NoEntry THEN 0 ELSE late]
           /\ overtaken' = [overtaken EXCEPT ![p] = 0]
  <2>1. HonestOf(p)'
    BY <1>1, <1>4, DenialIsHonest DEF TypeOK
  <2>2. ContentionOf(p)'
    BY <1>1, <1>4 DEF TypeOK, Return, ContentionOf
  <2>3. QED
    BY <1>1, <1>2, <1>4, <2>1, <2>2, OnlyOwnFacts DEF TypeOK, Return
<1>5. QED
  BY <1>3, <1>4 DEF ReadState, RetryAfter

(* A call that returns with any other answer than a denial. *)
LEMMA ReturnKeepsCalls ==
  ASSUME IInv, CallInv, NEW p \in Procs, NEW a \in Answers, Return(p, a),
         UNCHANGED <<cost, now, wait>>, a # "denied",
         a = "exhausted" => overtaken'[p] >= MaxRetries,
         (EntryKept /\ UNCHANGED overtaken) \/ Overtake
  PROVE  CallInv'
<1>1. TypeOK
  BY DEF IInv
<1>2. pc'[p] = a
  BY <1>1 DEF Return, TypeOK
<1>3. ContentionOf(p)' /\ HonestOf(p)'
  BY <1>2 DEF ContentionOf, HonestOf, Answers
<1>4. QED
  BY <1>1, <1>3, OnlyOwnFacts DEF TypeOK, Return, Overtake

LEMMA StartKeepsCalls ==
  ASSUME IInv, CallInv, NEW p \in Procs, Start(p)
  PROVE  CallInv'
<1>1. TypeOK /\ EntryKept
  BY DEF IInv, Start, EntryKept, Live
<1>2. pc'[p] = "get" /\ attempt'[p] = 0 /\ overtaken'[p] = 0
  BY <1>1 DEF Start, TypeOK
<1>3. ContentionOf(p)' /\ HonestOf(p)'
  BY <1>2, ConstantsAssumption DEF ContentionOf, HonestOf
<1>4. QED
  BY <1>1, <1>3, OnlyOwnFacts DEF Start, TypeOK

LEMMA SwapKeepsCalls ==
  ASSUME IInv, CallInv, NEW p \in Procs, Swap(p) \/ StorageFails(p)
  PROVE  CallInv'
<1>1. CASE Swap(p)
  BY <1>1, ReturnKeepsCalls DEF Swap, Charge, Answers
<1>2. CASE StorageFails(p)
  <2>1. (EntryKept /\ UNCHANGED overtaken) \/ Overtake
    BY <1>2 DEF StorageFails, Charge, EntryKept, Live
  <2>2. QED
    BY <1>2, <2>1, ReturnKeepsCalls DEF StorageFails, Answers
<1>3. QED
  BY <1>1, <1>2

LEMMA SwapRefusedKeepsCalls ==
  ASSUME IInv, CallInv, NEW p \in Procs, SwapRefused(p)
  PROVE  CallInv'
<1>1. TypeOK /\ ContentionOf(p) /\ EntryKept
  BY DEF IInv, CallInv, SwapRefused, EntryKept, Live
<1>2. /\ attempt[p] \in Nat /\ overtaken[p] \in Nat /\ MaxRetries \in Nat
      /\ attempt[p] + 1 <= overtaken[p]
  BY <1>1, ConstantsAssumption DEF SwapRefused, ContentionOf, TypeOK
<1>3. CASE /\ attempt[p] + 1 < MaxRetries
           /\ attempt' = [attempt EXCEPT ![p] = @ + 1]
           /\ pc' = [pc EXCEPT ![p] = "get"]
           /\ UNCHANGED seen
  <2>1. ContentionOf(p)' /\ HonestOf(p)'
    BY <1>1, <1>2, <1>3 DEF SwapRefused, ContentionOf, HonestOf, TypeOK
  <2>2. QED
    BY <1>1, <1>3, <2>1, OnlyOwnFacts DEF SwapRefused, TypeOK
<1>4. CASE attempt[p] + 1 >= MaxRetries /\ Return(p, "exhausted")
  <2>1. overtaken'[p] >= MaxRetries
    BY <1>2, <1>4 DEF SwapRefused
  <2>2. QED
    BY <1>1, <1>4, <2>1, ReturnKeepsCalls DEF SwapRefused, Answers
<1>5. QED
  BY <1>3, <1>4 DEF SwapRefused

LEMMA CallsInvariant == Spec => []CallInv
<1>1. Init => CallInv
  BY DEF Init, CallInv, ContentionOf, HonestOf
<1>2. IInv /\ CallInv /\ [Next]_vars => CallInv'
  BY EnvironmentKeepsCalls, StartKeepsCalls, ReadStateKeepsCalls,
     SwapKeepsCalls, SwapRefusedKeepsCalls DEF Next
<1>3. QED
  BY <1>1, <1>2, InductiveInvariant, PTL DEF Spec

(***************************************************************************)
(* A call fails closed after max_retries only when the entry has changed   *)
(* under it that many times.                                               *)
(***************************************************************************)
THEOREM FailsClosedOnlyUnderContention == Spec => []ExhaustedOnlyUnderContention
<1>1. CallInv => ExhaustedOnlyUnderContention
  BY DEF CallInv, ContentionOf, ExhaustedOnlyUnderContention
<1>2. QED
  BY <1>1, CallsInvariant, PTL

(***************************************************************************)
(* A denied caller who waits retry_after finds enough tokens, and would    *)
(* not have found them a tick earlier, unless the entry changed.          *)
(***************************************************************************)
THEOREM DenialsAreHonest == Spec => []RetryAfterHonest
<1>1. CallInv => RetryAfterHonest
  BY DEF CallInv, RetryAfterHonest
<1>2. QED
  BY <1>1, CallsInvariant, PTL

-----------------------------------------------------------------------------
(* The protocol implements one atomic debt counter. *)

(***************************************************************************)
(* A charge adds its price to the debt.  Only where there was no debt can  *)
(* an old sample place the TAT too early, by its age at most.              *)
(***************************************************************************)
LEMMA DebtAfterCharge ==
  ASSUME IInv, NEW p \in Procs, pc[p] = "cas", Matches(seen[p]), Charge(p),
         UNCHANGED clock
  PROVE  /\ Debt + cost[p] * EI <= Window
         /\ Debt' \in Contract!AtLeast(0, Debt + cost[p] * EI - MaxAge)
                        ..(Debt + cost[p] * EI)
<1> DEFINE tat == Advance(seen[p], cost[p], now[p])
           price == cost[p] * EI
           t == now[p]
<1>1. /\ clock \in Nat /\ cost[p] \in Nat /\ EI \in Nat /\ Window \in Nat
      /\ MaxAge \in Nat
      /\ entry \in EntryTypes \union {NoEntry}
      /\ seen[p] \in EntryTypes \union {NoEntry}
  BY WindowNat, ConstantsAssumption DEF IInv, TypeOK
<1>2. t \in Int /\ t <= clock /\ clock <= t + MaxAge
  BY DEF IInv, TypeOK, SampleFresh, InFlight, Resting, Answers
<1>3. price \in Nat /\ tat - Window <= t
  BY <1>1, Arithmetic DEF IInv, SwapCovered, AllowAt
<1>4. /\ tat \in Int /\ Debt \in Nat
      /\ t + price <= tat
      /\ tat <= clock + Debt + price /\ clock + Debt + price <= tat + MaxAge
      /\ Debt = 0 \/ tat = clock + Debt + price
  <2>1. CASE seen[p] = NoEntry
    <3>1. tat = t + price /\ Debt = 0
      BY <2>1 DEF Matches, Debt, Advance
    <3>2. QED
      BY <1>1, <1>2, <1>3, <3>1
  <2>2. CASE seen[p] # NoEntry
    <3>1. Live /\ entry.tat = seen[p].tat
      BY <2>2 DEF Matches
    <3>2. entry.tat \in Int
      BY <1>1, <2>2, <3>1 DEF EntryTypes
    <3>3. tat = AtLeast(entry.tat, t) + price
      BY <2>2, <3>1 DEF Advance
    <3>4. Debt = AtLeast(0, entry.tat - clock)
      BY <3>1 DEF Debt
    <3>5. QED
      BY <1>1, <1>2, <1>3, <3>2, <3>3, <3>4 DEF AtLeast
  <2>3. QED
    BY <2>1, <2>2
<1>5. entry' = [tat |-> tat, exp |-> clock + Window]
  BY DEF Charge
<1>6. entry' # NoEntry /\ Live'
  <2>1. entry' \in EntryTypes
    BY <1>1, <1>4, <1>5 DEF EntryTypes
  <2>2. Window > 0
    BY ConstantsAssumption DEF Window
  <2>3. QED
    BY <1>1, <1>5, <2>1, <2>2, EntryIsNotNoEntry DEF Live
<1>7. Debt' = AtLeast(0, tat - clock)
  BY <1>5, <1>6 DEF Debt, AtLeast
<1>8. Debt + price <= Window
  BY <1>1, <1>2, <1>3, <1>4
<1>9. Debt' \in Nat /\ Debt' <= Debt + price /\ Debt + price - MaxAge <= Debt'
  BY <1>1, <1>3, <1>4, <1>7 DEF AtLeast
<1>10. QED
  BY <1>1, <1>3, <1>4, <1>8, <1>9 DEF Contract!AtLeast

LEMMA DebtAfterTick ==
  ASSUME IInv, Tick
  PROVE  Debt' = IF Debt = 0 THEN 0 ELSE Debt - 1
<1>1. /\ clock \in Nat /\ Window \in Nat /\ clock' = clock + 1
      /\ entry \in EntryTypes \union {NoEntry} /\ entry' = entry
  BY WindowNat DEF IInv, TypeOK, Tick
<1>2. CASE ~Live
  BY <1>1, <1>2 DEF Live, EntryTypes, Debt
<1>3. CASE Live
  <2>1. /\ entry # NoEntry
        /\ entry.tat \in Int /\ entry.exp \in Nat
        /\ entry.exp > clock /\ entry.tat <= entry.exp
    BY <1>1, <1>3 DEF Live, EntryTypes, IInv, EntryShape
  <2>2. Debt = AtLeast(0, entry.tat - clock)
    BY <1>3 DEF Debt
  <2>3. CASE entry.exp = clock + 1
    <3>1. Debt' = 0
      BY <1>1, <2>1, <2>3 DEF Debt, Live
    <3>2. Debt \in {0, 1}
      BY <1>1, <2>1, <2>2, <2>3 DEF AtLeast
    <3>3. QED
      BY <3>1, <3>2
  <2>4. CASE entry.exp # clock + 1
    <3>1. Live'
      BY <1>1, <2>1, <2>4 DEF Live
    <3>2. Debt' = AtLeast(0, entry.tat - (clock + 1))
      BY <1>1, <3>1 DEF Debt, AtLeast
    <3>3. QED
      BY <1>1, <2>1, <2>2, <3>2 DEF AtLeast
  <2>5. QED
    BY <2>3, <2>4
<1>4. QED
  BY <1>2, <1>3

(* A call in flight asks for one of the costs there are. *)
CostAsked == \A p \in Procs : InFlight(p) => cost[p] \in Costs

LEMMA CostInvariant == Spec => []CostAsked
<1>1. Init => CostAsked
  BY DEF Init, CostAsked, InFlight, Resting
<1>2. IInv /\ CostAsked /\ [Next]_vars => CostAsked'
  <2> SUFFICES ASSUME TypeOK, CostAsked, [Next]_vars,
                      NEW q \in Procs, InFlight(q)'
               PROVE  cost'[q] \in Costs
    BY DEF IInv, CostAsked
  <2>1. CASE Tick \/ Reset \/ UNCHANGED vars
    BY <2>1 DEF Tick, Reset, vars, CostAsked, InFlight
  <2>2. ASSUME NEW p \in Procs, Start(p) PROVE cost'[q] \in Costs
    BY <2>2 DEF Start, CostAsked, InFlight, TypeOK
  <2>3. ASSUME NEW p \in Procs,
               ReadState(p) \/ Swap(p) \/ SwapRefused(p) \/ StorageFails(p)
        PROVE  cost'[q] \in Costs
    <3>1. cost' = cost
      BY <2>3 DEF ReadState, Swap, SwapRefused, StorageFails
    <3>2. InFlight(p)
      BY <2>3 DEF ReadState, Swap, SwapRefused, StorageFails, InFlight,
                  Resting, Answers
    <3>3. q # p => pc'[q] = pc[q]
      BY <2>3 DEF ReadState, Swap, SwapRefused, StorageFails, Return,
                  TypeOK
    <3>4. QED
      BY <3>1, <3>2, <3>3 DEF CostAsked, InFlight
  <2>4. QED
    BY <2>1, <2>2, <2>3 DEF Next
<1>3. QED
  BY <1>1, <1>2, InductiveInvariant, PTL DEF Spec

(***************************************************************************)
(* ImplementsContract: every behaviour of the storage protocol is, seen    *)
(* from the debt, a behaviour of one atomic counter.                       *)
(***************************************************************************)
THEOREM ProtocolImplementsContract == Spec => ImplementsContract
<1>1. Init => Contract!Init
  BY DEF Init, Contract!Init, Debt, Live
<1>2. IInv /\ CostAsked /\ [Next]_vars => [Contract!Next]_(Contract!vars)
  <2> SUFFICES ASSUME IInv, CostAsked, [Next]_vars
               PROVE  Contract!Next \/ UNCHANGED <<clock, Debt, granted>>
    BY DEF Contract!vars
  <2>1. CASE Tick
    <3>1. Contract!Tick
      BY <2>1, DebtAfterTick DEF Contract!Tick, Tick
    <3>2. QED
      BY <3>1 DEF Contract!Next
  <2>2. CASE Reset
    <3>1. Contract!Forgive
      BY <2>2 DEF Contract!Forgive, Reset, Debt, Live
    <3>2. QED
      BY <3>1 DEF Contract!Next
  <2>3. CASE UNCHANGED vars
    BY <2>3 DEF vars, Debt, Live, AtLeast
  <2>4. ASSUME NEW p \in Procs, Start(p) \/ ReadState(p) \/ SwapRefused(p)
        PROVE  UNCHANGED <<clock, Debt, granted>>
    BY <2>4 DEF Start, ReadState, SwapRefused, Debt, Live, AtLeast
  <2>5. ASSUME NEW p \in Procs, Swap(p) \/ StorageFails(p)
        PROVE  Contract!Next \/ UNCHANGED <<clock, Debt, granted>>
    <3>1. CASE UNCHANGED <<clock, entry, granted>>
      BY <3>1 DEF Debt, Live, AtLeast
    <3>2. CASE pc[p] = "cas" /\ Matches(seen[p]) /\ Charge(p) /\ UNCHANGED clock
      <4>1. cost[p] \in Costs
        BY <3>2 DEF CostAsked, InFlight, Resting, Answers
      <4>2. Contract!Grant(cost[p])
        BY <3>2, DebtAfterCharge DEF Contract!Grant, Charge
      <4>3. QED
        BY <4>1, <4>2 DEF Contract!Next
    <3>3. QED
      BY <2>5, <3>1, <3>2 DEF Swap, StorageFails
  <2>6. QED
    BY <2>1, <2>2, <2>3, <2>4, <2>5 DEF Next
<1>3. QED
  BY <1>1, <1>2, InductiveInvariant, CostInvariant, PTL
     DEF Spec, ImplementsContract, Contract!Spec

=============================================================================
